------------------------------- MODULE Session -------------------------------
(***************************************************************************)
(* The session of one browser tab, on top of Accounts: the persisted token *)
(* and user of useAuthStore, the guard of the protected pages that asks    *)
(* /me, every page's 401 handling, and the snapshot of feature flags that  *)
(* useFlagsStore keeps for whoever is signed in.                           *)
(*                                                                         *)
(* Logins and registrations of the tab are calls of Accounts. Its other    *)
(* requests write nothing on the server, and are kept with the answer they *)
(* have been given.                                                        *)
(***************************************************************************)
EXTENDS Accounts

CONSTANT
    MaxRequests \* bound on the requests of pages under way

ASSUME SessionAssumption == MaxRequests \in Nat

VARIABLES
    session,    \* the token in the store, None when nobody is signed in
    shown,      \* the user in the store
    validating, \* the guard waits for /me
    me,         \* the token of the /me it waits for and has not cancelled
    submitted,  \* logins and registrations the tab waits for
    requests,   \* its other requests
    refreshing, \* useFlagsStore has a refresh in flight
    flagsOf,    \* the token its flags were asked for with, None if without
    misses      \* history: why the flags may be another session's

authVars == <<session, shown, validating, me>>
flagVars == <<refreshing, flagsOf, misses>>
tabVars == <<authVars, submitted, requests, flagVars>>
vars == <<accountVars, tabVars>>

Pending == [kind |-> "pending"]

Failed == [kind |-> "failed"]

Unauthorized == [kind |-> "unauthorized"]

Success == [kind |-> "ok"]

Profile(row) == [kind |-> "profile", user |-> row]

Answers ==
    {Pending, Failed, Unauthorized, Success} \cup {Profile(x) : x \in Claims}

PageRequests ==
    [kind : {"me", "flags", "page"}, with : Calls \cup {None},
     answer : Answers]

Ask(k, t) == [kind |-> k, with |-> t, answer |-> Pending]

SessionTypeOK ==
    /\ session \in Tokens \cup {None}
    /\ shown \in Claims \cup {None}
    /\ validating \in BOOLEAN
    /\ me \in Tokens \cup {None}
    /\ submitted \subseteq Calls
    /\ requests \subseteq PageRequests
    /\ refreshing \in BOOLEAN
    /\ flagsOf \in Tokens \cup {None, "nothing"}
    /\ misses \subseteq {"joined", "failed"}

TypeOK == AccountsTypeOK /\ SessionTypeOK

Init ==
    /\ AccountsInit
    /\ session \in Tokens \cup {None}
    /\ shown = IF session = None THEN None ELSE token[session]
    /\ validating = (session # None)
    /\ me = session
    /\ submitted = {}
    /\ requests = IF session = None THEN {} ELSE {Ask("me", session)}
    /\ refreshing = FALSE
    /\ flagsOf = "nothing"
    /\ misses = {}

-----------------------------------------------------------------------------
(* The flags. A refresh asked for while one is in flight is the one in     *)
(* flight: it may have been sent with another token, or with none.         *)

\* Mutant of Refresh: flags that are there are not fetched again.
RefreshOnce(t, sent) ==
    IF refreshing \/ flagsOf # "nothing"
    THEN /\ requests' = sent
         /\ UNCHANGED <<refreshing, misses>>
    ELSE /\ requests' = sent \cup {Ask("flags", t)}
         /\ refreshing' = TRUE
         /\ misses' = {}

\* refresh() with the token t, when the tab has the requests in `sent`.
Refresh(t, sent) ==
    IF refreshing
    THEN /\ requests' = sent
         /\ misses' = IF \E r \in sent : r.kind = "flags" /\ r.with # t
                      THEN misses \cup {"joined"}
                      ELSE misses
         /\ UNCHANGED refreshing
    ELSE /\ requests' = sent \cup {Ask("flags", t)}
         /\ refreshing' = TRUE
         /\ misses' = {}

\* The protected pages are on the screen.
Inside == session # None /\ ~validating

\* Window focus, an administrator's save, a chat page without flags.
RefreshFlags ==
    /\ Inside
    /\ ~refreshing
    /\ Refresh(session, requests)
    /\ UNCHANGED <<accountVars, authVars, submitted, flagsOf>>

-----------------------------------------------------------------------------
(* Signing in and out.                                                     *)

\* The tab is loaded: s is the token in the persisted store.
Load(s) ==
    /\ session' = s
    /\ shown' = IF s = None THEN None ELSE shown
    /\ validating' = (s # None)
    /\ me' = s
    /\ submitted' = {}
    /\ requests' = IF s = None THEN {} ELSE {Ask("me", s)}
    /\ refreshing' = FALSE
    /\ flagsOf' = "nothing"
    /\ misses' = {}

Reload == Load(session) /\ UNCHANGED accountVars

\* The forms of /login and /register. One is left for the other at will, while
\* a submission of it is still under way.
Submit(c, k, e) ==
    /\ session = None
    /\ Send(c, Form(k, e))
    /\ submitted' = submitted \cup {c}
    /\ UNCHANGED <<authVars, requests, flagVars>>

\* setSession, the subscription of useFlagsStore, and the guard of the page.
SignedIn(c) ==
    /\ c \in submitted
    /\ outcome[c] = "ok"
    /\ session' = c
    /\ shown' = token[c]
    /\ validating' = TRUE
    /\ me' = c
    /\ submitted' = submitted \ {c}
    /\ Refresh(c, requests \cup {Ask("me", c)})
    /\ UNCHANGED <<accountVars, flagsOf>>

\* Mutant of NotSignedIn: a 401 ends the session, with a token or without.
NotSignedInAtAll(c) ==
    /\ c \in submitted
    /\ outcome[c] \notin {"none", "ok"}
    /\ session' = None
    /\ shown' = None
    /\ validating' = FALSE
    /\ me' = None
    /\ submitted' = submitted \ {c}
    /\ UNCHANGED <<accountVars, requests, flagVars>>

\* The call was refused: a toast on the form.
NotSignedIn(c) ==
    /\ c \in submitted
    /\ outcome[c] \notin {"none", "ok"}
    /\ submitted' = submitted \ {c}
    /\ UNCHANGED <<accountVars, authVars, requests, flagVars>>

\* clear() from the menu, and the subscription again.
Logout ==
    /\ Inside
    /\ session' = None
    /\ shown' = None
    /\ me' = None
    /\ Refresh(None, requests)
    /\ UNCHANGED <<accountVars, validating, submitted, flagsOf>>

-----------------------------------------------------------------------------
(* Requests of the pages.                                                  *)

\* Lists, histories, the administrator's tables.
AskPage ==
    /\ Inside
    /\ Cardinality({r \in requests : r.kind = "page"}) < MaxRequests
    /\ requests' = requests \cup {Ask("page", session)}
    /\ UNCHANGED <<accountVars, authVars, submitted, flagVars>>

\* /healthz needs no token; any other route refuses one that has expired, and
\* /me one whose account is gone. What a page shows of an error is its own.
Replies(r) ==
    LET t == r.with
    IN  (IF r.kind = "page" THEN {} ELSE {Failed})
            \cup IF t # None /\ ~Valid(t) THEN {Unauthorized}
                 ELSE IF r.kind # "me" THEN {Success}
                 ELSE IF token[t].sub \in users
                      THEN {Profile(Row(token[t].sub))}
                      ELSE {Unauthorized}

\* A page that has been served is done with.
Respond(r) ==
    /\ r.answer = Pending
    /\ \E a \in Replies(r) :
            requests' = (requests \ {r})
                \cup IF r.kind = "page" /\ a = Success THEN {}
                     ELSE {[r EXCEPT !.answer = a]}
    /\ UNCHANGED <<accountVars, authVars, submitted, flagVars>>

\* Mutant of Live: the guard's effect has no cleanup.
LiveAlways(r) == me # None

Live(r) == me # None /\ me = r.with

\* Mutant of MeAnswered: the answer is taken for the user in it.
MeAnsweredWhole(r) ==
    /\ r.kind = "me" /\ r.answer \notin {Pending, Unauthorized}
    /\ Live(r)
    /\ shown' = IF r.answer = Failed THEN shown ELSE r.answer
    /\ validating' = FALSE
    /\ me' = None
    /\ Refresh(session, requests \ {r})
    /\ UNCHANGED <<accountVars, session, submitted, flagsOf>>

\* The guard has its answer, or knows it will get none: the page opens, and
\* refreshes the flags.
MeAnswered(r) ==
    /\ r.kind = "me" /\ r.answer \notin {Pending, Unauthorized}
    /\ Live(r)
    /\ shown' = IF r.answer = Failed THEN shown ELSE r.answer.user
    /\ validating' = FALSE
    /\ me' = None
    /\ Refresh(session, requests \ {r})
    /\ UNCHANGED <<accountVars, session, submitted, flagsOf>>

FlagsAnswered(r) ==
    /\ r.kind = "flags" /\ r.answer # Pending
    /\ r.answer = Unauthorized => session = None
    /\ requests' = requests \ {r}
    /\ refreshing' = FALSE
    /\ IF r.answer = Success
       THEN flagsOf' = r.with /\ UNCHANGED misses
       ELSE misses' = misses \cup {"failed"} /\ UNCHANGED flagsOf
    /\ UNCHANGED <<accountVars, authVars, submitted>>

\* An answer nobody waits for, and a 401 at the form, where nothing is open.
Ignored(r) ==
    /\ r.kind # "flags" /\ r.answer # Pending
    /\ r.answer = Unauthorized => session = None
    /\ r.kind = "me" => ~Live(r)
    /\ requests' = requests \ {r}
    /\ UNCHANGED <<accountVars, authVars, submitted, flagVars>>

\* A 401 to any authenticated request: clear() and a load of /login, whichever
\* session is open by now.
SessionExpired(r) ==
    /\ r.answer = Unauthorized
    /\ session # None
    /\ Load(None)
    /\ UNCHANGED accountVars

-----------------------------------------------------------------------------
ServerStep == Background /\ UNCHANGED tabVars

TabStep ==
    \/ RefreshFlags
    \/ Reload
    \/ Logout
    \/ AskPage
    \/ \E c \in Calls, k \in {"register", "login"}, e \in Emails :
            Submit(c, k, e)
    \/ \E c \in Calls : SignedIn(c) \/ NotSignedIn(c)
    \/ \E r \in requests :
        \/ Respond(r)
        \/ MeAnswered(r)
        \/ FlagsAnswered(r)
        \/ Ignored(r)
        \/ SessionExpired(r)

Next == ServerStep \/ TabStep

Spec == Init /\ [][Next]_vars
-----------------------------------------------------------------------------
(* Properties.                                                             *)

\* The user on the screen is the one the token speaks for, with the role the
\* token claims: a late /me of an earlier session does not replace it. Only an
\* operator's SQL gives the screen another role than the server goes by.
UserIsTheTokens ==
    session # None
        => /\ shown.sub = token[session].sub
           /\ session \notin restated => shown.role = token[session].role

\* A session ends by the user's choice or by a 401 to a request that carried a
\* token: a login that fails late, after another one succeeded, ends nothing.
SessionEndsForAReason ==
    [][session # None /\ session' = None
        => \/ Inside /\ submitted' = submitted
           \/ \E r \in requests : r.answer = Unauthorized /\ r.with # None
      ]_vars

\* Once loaded, the flags are those of the session that is open, unless the
\* refresh failed or was joined to one in flight when the session changed.
FlagsAreTheSessions ==
    ~refreshing /\ misses = {} /\ flagsOf # "nothing" => flagsOf = session
=============================================================================
