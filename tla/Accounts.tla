------------------------------ MODULE Accounts ------------------------------
(***************************************************************************)
(* Accounts on the server: registration, login, the token both give, and   *)
(* the deletion of an account by an administrator, with the database's     *)
(* failures. Roles are granted and revoked by SQL alone.                   *)
(*                                                                         *)
(* A call is an HTTP request; a step is the code from one await to the     *)
(* next. A token is named by the call that was given it.                   *)
(***************************************************************************)
EXTENDS Naturals, FiniteSets

CONSTANTS
    Users,      \* ids of rows, never given twice
    Emails,     \* addresses, in lower case and trimmed
    Calls,
    Earlier,    \* calls that were over in the first state
    Regraded,   \* rows whose role an operator may change
    None

Roles == {"user", "admin"}

\* What a token says, and what a call keeps of a row.
Claims == [sub : Users, role : Roles]

ASSUME AccountsAssumption ==
    /\ IsFiniteSet(Users)
    /\ Earlier \subseteq Calls
    /\ Regraded \subseteq Users
    /\ None \notin Users \cup Emails \cup Calls \cup Claims

VARIABLES
    users,      \* ids of the rows of the table
    email,      \* their addresses, None for an id not yet used
    role,
    request,    \* what a call asks for
    pc,         \* where it stands
    read,       \* the row it has read: its id and its role
    outcome,
    token,      \* the claims of the token it was given
    expired,    \* tokens past their time
    overtaken,  \* history: deletions that lost an administrator meanwhile
    restated    \* history: calls whose row SQL gave another role since

tableVars == <<users, email, role>>
callVars == <<request, pc, read, outcome, token>>
historyVars == <<overtaken, restated>>
accountVars == <<tableVars, callVars, expired, historyVars>>

NoRequest == [kind |-> "none", email |-> None, with |-> None, target |-> None]

Form(k, e) == [kind |-> k, email |-> e, with |-> None, target |-> None]

Removal(t, u) ==
    [kind |-> "delete", email |-> None, with |-> t, target |-> u]

Requests ==
    {NoRequest}
        \cup {Form(k, e) : k \in {"register", "login"}, e \in Emails}
        \cup {Removal(t, u) : t \in Calls, u \in Users}

Outcomes ==
    {"none", "ok", "conflict", "unauthorized", "forbidden", "notFound",
     "failed"}

AccountsTypeOK ==
    /\ users \subseteq Users
    /\ email \in [Users -> Emails \cup {None}]
    /\ \A u \in users : email[u] # None
    /\ role \in [Users -> Roles]
    /\ request \in [Calls -> Requests]
    /\ pc \in [Calls -> {"idle", "sent", "hashing", "comparing", "counting",
                         "deleting", "ended"}]
    /\ read \in [Calls -> Claims \cup {None}]
    /\ outcome \in [Calls -> Outcomes]
    /\ token \in [Calls -> Claims \cup {None}]
    /\ expired \subseteq Calls
    /\ overtaken \subseteq Calls
    /\ restated \subseteq Calls

-----------------------------------------------------------------------------
Admins == {u \in users : role[u] = "admin"}

Row(u) == [sub |-> u, role |-> role[u]]

RowsWith(e) == {u \in users : email[u] = e}

\* Tokens in somebody's hands.
Tokens == {c \in Calls : token[c] # None}

Valid(t) == t \in Tokens \ expired

Goto(c, p) == pc' = [pc EXCEPT ![c] = p]

Answer(c, o) ==
    /\ Goto(c, "ended")
    /\ outcome' = [outcome EXCEPT ![c] = o]

\* Some accounts, one of them an administrator's, and some who have signed in.
AccountsInit ==
    /\ users \in SUBSET Users
    /\ email \in [Users -> Emails \cup {None}]
    /\ \A u \in Users : u \in users <=> email[u] # None
    /\ \A u, v \in users : email[u] = email[v] => u = v
    /\ role \in [Users -> Roles]
    /\ \A u \in Users \ users : role[u] = "user"
    /\ Admins # {}
    /\ request = [c \in Calls |-> NoRequest]
    /\ pc = [c \in Calls |-> IF c \in Earlier THEN "ended" ELSE "idle"]
    /\ read = [c \in Calls |-> None]
    /\ outcome = [c \in Calls |-> IF c \in Earlier THEN "ok" ELSE "none"]
    /\ token \in [Calls -> {Row(u) : u \in users} \cup {None}]
    /\ \A c \in Calls : token[c] # None <=> c \in Earlier
    /\ expired = {}
    /\ overtaken = {}
    /\ restated = {}

Send(c, q) ==
    /\ pc[c] = "idle"
    /\ Goto(c, "sent")
    /\ request' = [request EXCEPT ![c] = q]
    /\ UNCHANGED <<tableVars, read, outcome, token, expired, historyVars>>

-----------------------------------------------------------------------------
(* Registration and login.                                                 *)

Asks(c, k) == pc[c] = "sent" /\ request[c].kind = k

\* findByEmail.
RegisterLookup(c) ==
    /\ Asks(c, "register")
    /\ IF RowsWith(request[c].email) # {}
       THEN Answer(c, "conflict")
       ELSE Goto(c, "hashing") /\ UNCHANGED outcome
    /\ UNCHANGED <<tableVars, request, read, token, expired, historyVars>>

\* Mutant of AddRow: the column has no default.
AddRowWithoutRole(c, u) ==
    /\ email[u] = None
    /\ users' = users \cup {u}
    /\ email' = [email EXCEPT ![u] = request[c].email]
    /\ role' = [role EXCEPT ![u] = None]

\* A new row, of a user.
AddRow(c, u) ==
    /\ email[u] = None
    /\ users' = users \cup {u}
    /\ email' = [email EXCEPT ![u] = request[c].email]
    /\ role' = [role EXCEPT ![u] = "user"]

\* Mutant of Taken: the address has no unique index.
TakenInQuery(e) == FALSE

\* The unique index on the address.
Taken(e) == RowsWith(e) # {}

\* create, after the password is hashed; P2002 of the index is a conflict too.
Register(c) ==
    /\ pc[c] = "hashing"
    /\ ~Taken(request[c].email)
    /\ \E u \in Users :
        /\ AddRow(c, u)
        /\ token' = [token EXCEPT ![c] = [sub |-> u, role |-> "user"]]
    /\ Answer(c, "ok")
    /\ UNCHANGED <<request, read, expired, historyVars>>

RegisterTaken(c) ==
    /\ pc[c] = "hashing"
    /\ Taken(request[c].email)
    /\ Answer(c, "conflict")
    /\ UNCHANGED <<tableVars, request, read, token, expired, historyVars>>

\* The row is committed, but create rejects.
RegisterUnacked(c) ==
    /\ pc[c] = "hashing"
    /\ ~Taken(request[c].email)
    /\ \E u \in Users : AddRow(c, u)
    /\ Answer(c, "failed")
    /\ UNCHANGED <<request, read, token, expired, historyVars>>

\* findCredentialsByEmail.
LoginLookup(c) ==
    /\ Asks(c, "login")
    /\ Goto(c, "comparing")
    /\ LET R == RowsWith(request[c].email)
       IN  read' = [read EXCEPT ![c] =
                       IF R = {} THEN None ELSE Row(CHOOSE u \in R : TRUE)]
    /\ UNCHANGED <<tableVars, request, outcome, token, expired, historyVars>>

\* Mutant of ClaimsOf: the role is not in the token, and the middleware takes
\* it for a user's.
ClaimsWithoutRole(row) == [row EXCEPT !.role = "user"]

\* What AuthTokenIssuer signs.
ClaimsOf(row) == row

\* bcrypt.compare accepts the password.
Login(c) ==
    /\ pc[c] = "comparing"
    /\ read[c] # None
    /\ token' = [token EXCEPT ![c] = ClaimsOf(read[c])]
    /\ Answer(c, "ok")
    /\ UNCHANGED <<tableVars, request, read, expired, historyVars>>

\* There is no such account, or the password is wrong.
LoginRefused(c) ==
    /\ pc[c] = "comparing"
    /\ Answer(c, "unauthorized")
    /\ UNCHANGED <<tableVars, request, read, token, expired, historyVars>>

-----------------------------------------------------------------------------
(* The deletion of an account by an administrator.                         *)

\* The middlewares, the refusal of one's own account, and findById.
DeleteRefused(t, u) ==
    IF ~Valid(t) THEN "unauthorized"
    ELSE IF token[t].role # "admin" THEN "forbidden"
    ELSE IF token[t].sub = u THEN "conflict"
    ELSE IF u \notin users THEN "notFound" ELSE "none"

DeleteLookup(c) ==
    LET t == request[c].with
        u == request[c].target
    IN  /\ Asks(c, "delete")
        /\ IF DeleteRefused(t, u) # "none"
           THEN /\ Answer(c, DeleteRefused(t, u))
                /\ UNCHANGED read
           ELSE /\ read' = [read EXCEPT ![c] = Row(u)]
                /\ Goto(c, IF role[u] = "admin" THEN "counting" ELSE "deleting")
                /\ UNCHANGED outcome
        /\ UNCHANGED <<tableVars, request, token, expired, historyVars>>

\* Mutant of IsLast: off by one.
IsLastButOne(n) == n < 1

IsLast(n) == n <= 1

\* countByRole.
CountAdmins(c) ==
    /\ pc[c] = "counting"
    /\ IF IsLast(Cardinality(Admins))
       THEN Answer(c, "conflict")
       ELSE Goto(c, "deleting") /\ UNCHANGED outcome
    /\ UNCHANGED <<tableVars, request, read, token, expired, historyVars>>

\* Deletions that have passed their checks.
Passed == {c \in Calls : pc[c] = "deleting"}

\* deleteMany, whose count nobody looks at. The answer may be lost.
DeleteUser(c) ==
    /\ pc[c] = "deleting"
    /\ users' = users \ {read[c].sub}
    /\ overtaken' = IF read[c].sub \in Admins
                    THEN overtaken \cup (Passed \ {c})
                    ELSE overtaken
    /\ \E o \in {"ok", "failed"} : Answer(c, o)
    /\ UNCHANGED <<email, role, request, read, token, expired, restated>>

\* An await of a call rejects: nothing is written.
DatabaseFails(c) ==
    /\ pc[c] \in {"sent", "hashing", "counting", "deleting"}
    /\ Answer(c, "failed")
    /\ UNCHANGED <<tableVars, request, read, token, expired, historyVars>>

-----------------------------------------------------------------------------
(* Outside the program.                                                    *)

\* The rows whose role a call has read or handed out.
SubjectsOf(c) == {row.sub : row \in {read[c], token[c]} \ {None}}

\* An operator changes a role in the database, and leaves an administrator.
SetRole(u, r) ==
    /\ u \in users \cap Regraded
    /\ role[u] # r
    /\ Admins # {u}
    /\ role' = [role EXCEPT ![u] = r]
    /\ overtaken' = overtaken \cup Passed
    /\ restated' = restated \cup {c \in Calls : u \in SubjectsOf(c)}
    /\ UNCHANGED <<users, email, callVars, expired>>

Expire(t) ==
    /\ Valid(t)
    /\ expired' = expired \cup {t}
    /\ UNCHANGED <<tableVars, callVars, historyVars>>

-----------------------------------------------------------------------------
Remove(c) == \E t \in Tokens, u \in Users : Send(c, Removal(t, u))

Serve(c) ==
    \/ RegisterLookup(c)
    \/ Register(c)
    \/ RegisterTaken(c)
    \/ RegisterUnacked(c)
    \/ LoginLookup(c)
    \/ Login(c)
    \/ LoginRefused(c)
    \/ DeleteLookup(c)
    \/ CountAdmins(c)
    \/ DeleteUser(c)
    \/ DatabaseFails(c)

\* All but the sending of forms, which Session does from its tab.
Background ==
    \/ \E c \in Calls : Remove(c) \/ Serve(c)
    \/ \E u \in Users, r \in Roles : SetRole(u, r)
    \/ \E t \in Calls : Expire(t)

AccountsNext ==
    \/ Background
    \/ \E c \in Calls, k \in {"register", "login"}, e \in Emails :
            Send(c, Form(k, e))

AccountsSpec == AccountsInit /\ [][AccountsNext]_accountVars
-----------------------------------------------------------------------------
(* Properties.                                                             *)

\* An address belongs to one account, although two registrations may both
\* have found it free before either wrote its row.
OneAccountPerAddress ==
    \A u, v \in users : email[u] = email[v] => u = v

\* A token says what its account was when the login read it: nobody but an
\* operator's SQL makes the role a token claims differ from its row's.
ClaimsAreCurrent ==
    \A c \in Tokens \ restated :
        token[c].sub \in users => token[c].role = role[token[c].sub]

\* The last administrator is not deleted by a deletion that ran alone: only by
\* one that had counted when another deletion, or an operator, took an
\* administrator away.
LastAdminStays ==
    [][Admins # {} /\ Admins' = {}
        => \E c \in overtaken : pc[c] = "deleting" /\ pc'[c] = "ended"
      ]_accountVars
=============================================================================
