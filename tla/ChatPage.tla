------------------------------ MODULE ChatPage ------------------------------
(***************************************************************************)
(* The chat page of the browser client: useChatStream and useChatHistory   *)
(* in one component that React keeps mounted while the route moves between *)
(* /chat and the chats. It sends and regenerates, reads the stream of      *)
(* events, loads histories and follows the user from chat to chat, against *)
(* the tables of the server.                                               *)
(*                                                                         *)
(* A step is a callback or the code from one await to the next, with the   *)
(* render and the effects that follow it. Texts are sets of runs: those    *)
(* whose deltas they hold.                                                 *)
(***************************************************************************)
EXTENDS Naturals, SequencesExt

CONSTANTS
    Chats,      \* chat ids
    Runs,       \* calls of handleSend and handleRegenerate
    Earlier,    \* the call that filled the first chat before the page opened
    FirstChat,
    PageLimit,  \* rows of a history the server sends; the page asks only once
    None

ASSUME ChatPageAssumption ==
    /\ Earlier \in Runs /\ FirstChat \in Chats
    /\ None \notin Chats \cup Runs
    /\ PageLimit \in Nat

VARIABLES
    route,      \* :chatId, or None at /chat
    messages,   \* useState of useChatHistory
    loading,    \* loadingHistory
    error,      \* the history could not be loaded
    fetch,      \* the load that no cleanup has cancelled
    page,       \* what the server answered to it
    pendingOf,  \* the call that set `pending`, None when there is no pending
    pendingFrom, \* calls whose deltas pending.assistantText holds
    busy,
    abortRef,   \* the call whose controller abortRef holds
    pc,         \* where each call stands
    kind,       \* send, to a chat or to a new one, or regenerate
    chat,       \* the chat it works on
    made,       \* chats that exist on the server
    store,      \* their messages on the server
    got,        \* what the server has made of each call
    lapses      \* history: what went wrong since the page was last opened

historyVars == <<messages, loading, error, fetch, page>>
pendingVars == <<pendingOf, pendingFrom>>
streamVars == <<pendingVars, busy, abortRef>>
callVars == <<pc, kind, chat>>
serverVars == <<made, store, got>>
vars == <<route, historyVars, streamVars, callVars, serverVars, lapses>>

Kinds == {"send", "new", "regenerate"}

Message == [role : {"user", "assistant"}, by : SUBSET Runs]

Lapses ==
    {"overlap", "strayed", "unloaded", "skeleton", "broken", "dropped", "cut"}

TypeOK ==
    /\ route \in Chats \cup {None}
    /\ messages \in Seq(Message)
    /\ loading \in BOOLEAN
    /\ error \in BOOLEAN
    /\ fetch \in {"none", "asked", "answered"}
    /\ page \in Seq(Message)
    /\ pendingOf \in Runs \cup {None}
    /\ pendingFrom \in SUBSET Runs
    /\ busy \in BOOLEAN
    /\ abortRef \in Runs \cup {None}
    /\ pc \in [Runs -> {"idle", "creating", "streaming", "closing", "ended"}]
    /\ kind \in [Runs -> Kinds]
    /\ chat \in [Runs -> Chats \cup {None}]
    /\ made \subseteq Chats
    /\ store \in [Chats -> Seq(Message)]
    /\ got \in [Runs -> {"none", "sent", "prompted", "answered", "failed"}]
    /\ lapses \subseteq Lapses

Question(r) == [role |-> "user", by |-> {r}]

\* Mutant of Answer: the role is the provider's word for it.
AnswerOfModel(R) == [role |-> "model", by |-> R]

Answer(R) == [role |-> "assistant", by |-> R]

Init ==
    /\ route = None
    /\ messages = <<>>
    /\ loading = FALSE
    /\ error = FALSE
    /\ fetch = "none"
    /\ page = <<>>
    /\ pendingOf = None
    /\ pendingFrom = {}
    /\ busy = FALSE
    /\ abortRef = None
    /\ pc = [r \in Runs |-> IF r = Earlier THEN "ended" ELSE "idle"]
    /\ kind = [r \in Runs |-> "send"]
    /\ chat = [r \in Runs |-> IF r = Earlier THEN FirstChat ELSE None]
    /\ made = {FirstChat}
    /\ store = [c \in Chats |->
                    IF c = FirstChat
                    THEN <<Question(Earlier), Answer({Earlier})>>
                    ELSE <<>>]
    /\ got = [r \in Runs |-> IF r = Earlier THEN "answered" ELSE "none"]
    /\ lapses = {}

-----------------------------------------------------------------------------
Streaming(r) == pc[r] \in {"streaming", "closing"}

Live(r) == pc[r] = "creating" \/ Streaming(r)

\* No call is under way, here or on the server.
Quiet == \A r \in Runs : ~Live(r) /\ got[r] \notin {"sent", "prompted"}

Goto(r, p) == pc' = [pc EXCEPT ![r] = p]

Note(L) == lapses' = lapses \cup L

NoteIf(b, l) == Note(IF b THEN {l} ELSE {})

\* What a call that begins finds going wrong: another waits for its chat, or
\* the history of this one is not there.
Clashes(r) ==
    (IF \E q \in Runs \ {r} : pc[q] = "creating" THEN {"overlap"} ELSE {})
        \cup (IF fetch # "none" \/ error THEN {"unloaded"} ELSE {})

\* Position of the last message of a role, 0 if there is none.
LastOf(role, s) ==
    CHOOSE i \in 0..Len(s) :
        /\ i = 0 \/ s[i].role = role
        /\ \A j \in 1..Len(s) : s[j].role = role => j <= i

-----------------------------------------------------------------------------
(* The history loader. Its effect runs when the route changes; its cleanup *)
(* cancels the load before.                                                *)

\* Mutant of LoadHistory: the new-chat branch clears no messages.
LoadKeepingMessages(c) ==
    /\ UNCHANGED messages
    /\ IF c = None
       THEN fetch' = "none" /\ UNCHANGED loading
       ELSE fetch' = "asked" /\ loading' = TRUE
    /\ error' = FALSE
    /\ page' = <<>>

\* The effect's body, for any chat but one that handleSend has just made.
LoadHistory(c) ==
    /\ IF c = None
       THEN /\ messages' = <<>>
            /\ fetch' = "none"
            /\ UNCHANGED loading
       ELSE /\ fetch' = "asked"
            /\ loading' = TRUE
            /\ UNCHANGED messages
    /\ error' = FALSE
    /\ page' = <<>>

\* The user follows a link, or has deleted or archived the chat on the page.
Open(c) ==
    /\ c \in made \cup {None}
    /\ c # route
    /\ route' = c
    /\ LoadHistory(c)
    /\ lapses' = IF ~Quiet THEN lapses \cup {"strayed"}
                 ELSE IF c = None /\ loading THEN {"skeleton"}
                 ELSE {}
    /\ UNCHANGED <<streamVars, callVars, serverVars>>

\* The retry button of the error card.
Retry ==
    /\ route # None
    /\ error
    /\ LoadHistory(route)
    /\ NoteIf(~Quiet, "unloaded")
    /\ UNCHANGED <<route, streamVars, callVars, serverVars>>

\* The server reads the chat's oldest messages, or its newest ones, as
\* CHAT_HISTORY_ENABLED says.
HistoryRead ==
    /\ fetch = "asked"
    /\ fetch' = "answered"
    /\ LET all == store[route]
           cut == Len(all) > PageLimit
           rows == IF cut THEN PageLimit ELSE Len(all)
       IN  /\ \/ page' = SubSeq(all, 1, rows)
              \/ page' = SubSeq(all, Len(all) - rows + 1, Len(all))
           /\ NoteIf(cut, "cut")
    /\ UNCHANGED <<route, messages, loading, error, streamVars, callVars,
                   serverVars>>

ShowHistory ==
    /\ fetch = "answered"
    /\ messages' = page
    /\ loading' = FALSE
    /\ fetch' = "none"
    /\ page' = <<>>
    /\ UNCHANGED <<route, error, streamVars, callVars, serverVars, lapses>>

HistoryFails ==
    /\ fetch # "none"
    /\ error' = TRUE
    /\ loading' = FALSE
    /\ fetch' = "none"
    /\ page' = <<>>
    /\ UNCHANGED <<route, messages, streamVars, callVars, serverVars, lapses>>

\* 404: the chat was deleted elsewhere, and the page goes to /chat.
HistoryNotFound ==
    /\ fetch # "none"
    /\ route' = None
    /\ messages' = <<>>
    /\ loading' = FALSE
    /\ error' = FALSE
    /\ fetch' = "none"
    /\ page' = <<>>
    /\ NoteIf(~Quiet, "strayed")
    /\ UNCHANGED <<streamVars, callVars, serverVars>>

-----------------------------------------------------------------------------
(* Calls. Composer and the regenerate button refuse while `busy`, which a  *)
(* call sets only when its stream begins.                                  *)

\* From setMessages to the fetch of runStream.
BeginStream(r, c, shown) ==
    /\ Goto(r, "streaming")
    /\ chat' = [chat EXCEPT ![r] = c]
    /\ messages' = shown
    /\ pendingOf' = r
    /\ pendingFrom' = {}
    /\ busy' = TRUE
    /\ abortRef' = r
    /\ got' = [got EXCEPT ![r] = "sent"]

Send(r) ==
    /\ pc[r] = "idle"
    /\ route # None
    /\ ~busy
    /\ kind' = [kind EXCEPT ![r] = "send"]
    /\ BeginStream(r, route, Append(messages, Question(r)))
    /\ Note(Clashes(r))
    /\ UNCHANGED <<route, loading, error, fetch, page, made, store>>

\* At /chat, handleSend first asks for a chat.
SendNew(r) ==
    /\ pc[r] = "idle"
    /\ route = None
    /\ ~busy
    /\ Goto(r, "creating")
    /\ kind' = [kind EXCEPT ![r] = "new"]
    /\ Note(Clashes(r))
    /\ UNCHANGED <<route, historyVars, streamVars, chat, serverVars>>

\* Mutant of SkipHistory: the ref that skips the load is not set.
LoadNewChat ==
    /\ fetch' = "asked"
    /\ loading' = TRUE
    /\ error' = FALSE
    /\ page' = <<>>

\* The effect's early return for the chat in justCreatedChatIdRef, after the
\* cleanup of the load before.
SkipHistory ==
    /\ fetch' = "none"
    /\ page' = <<>>
    /\ UNCHANGED <<loading, error>>

\* The chat is there: navigate to it, and stream.
ChatCreated(r) ==
    /\ pc[r] = "creating"
    /\ \E c \in Chats \ made :
        /\ made' = made \cup {c}
        /\ route' = c
        /\ BeginStream(r, c, Append(messages, Question(r)))
    /\ SkipHistory
    /\ Note(IF \E q \in Runs \ {r} : Live(q)
            THEN {"overlap", "strayed"}
            ELSE {})
    /\ UNCHANGED <<kind, store>>

\* createChat fails, whether the server made the chat or not.
CreateFails(r) ==
    /\ pc[r] = "creating"
    /\ Goto(r, "ended")
    /\ \E C \in SUBSET (Chats \ made) :
        /\ \A c, d \in C : c = d
        /\ made' = made \cup C
    /\ UNCHANGED <<route, historyVars, streamVars, kind, chat, store, got,
                   lapses>>

LastAnswer == LastOf("assistant", messages)

\* The button is under the last answer on the page.
MayRegenerate(r) ==
    /\ pc[r] = "idle"
    /\ route # None
    /\ ~busy /\ ~loading /\ ~error
    /\ LastAnswer # 0

\* Mutant of WithoutLastAnswer: nothing is dropped.
WithLastAnswer == messages

WithoutLastAnswer == RemoveAt(messages, LastAnswer)

\* The page drops its last answer, the server every answer after the last
\* question: the same, if that question has one answer and the page ends there.
\* If it has none, the page drops one of an earlier turn, which the server
\* keeps.
DropsTheSame ==
    LastAnswer = Len(messages) /\ LastOf("user", messages) = LastAnswer - 1

Regenerate(r) ==
    /\ MayRegenerate(r)
    /\ kind' = [kind EXCEPT ![r] = "regenerate"]
    /\ BeginStream(r, route, WithoutLastAnswer)
    /\ Note(Clashes(r) \cup IF DropsTheSame THEN {} ELSE {"dropped"})
    /\ UNCHANGED <<route, loading, error, fetch, page, made, store>>

\* React runs an updater at once only if the component has no work pending;
\* else handleRegenerate reads droppedAssistantId before it is set, and leaves.
RegenerateForgets(r) ==
    /\ MayRegenerate(r)
    /\ Goto(r, "ended")
    /\ messages' = WithoutLastAnswer
    /\ Note({"dropped"})
    /\ UNCHANGED <<route, loading, error, fetch, page, streamVars, kind, chat,
                   serverVars>>

-----------------------------------------------------------------------------
(* The stream of events.                                                   *)

\* applyEvent of a delta: it goes into whatever is pending.
Delta(r) ==
    /\ pc[r] = "streaming"
    /\ got[r] = "prompted"
    /\ pendingFrom' = IF pendingOf = None THEN {} ELSE pendingFrom \cup {r}
    /\ UNCHANGED <<route, historyVars, pendingOf, busy, abortRef, callVars,
                   serverVars, lapses>>

\* applyEvent of `done`: its fullText replaces the text.
Done(r) ==
    /\ pc[r] = "streaming"
    /\ got[r] = "answered"
    /\ pendingFrom' = IF pendingOf = None THEN {} ELSE {r}
    /\ Goto(r, "closing")
    /\ UNCHANGED <<route, historyVars, pendingOf, busy, abortRef, kind, chat,
                   serverVars, lapses>>

\* The `error` event: a toast, and what is pending stays.
ErrorEvent(r) ==
    /\ pc[r] = "streaming"
    /\ got[r] = "failed"
    /\ Goto(r, "closing")
    /\ UNCHANGED <<route, historyVars, streamVars, kind, chat, serverVars,
                   lapses>>

\* Every way out of runStream clears pending, and its finally block the rest.
Finish(r) ==
    /\ Goto(r, "ended")
    /\ pendingOf' = None
    /\ pendingFrom' = {}
    /\ abortRef' = None
    /\ busy' = FALSE

\* The stream ends: commitPending, unless there is no text.
StreamEnds(r) ==
    /\ pc[r] = "closing"
    /\ messages' = IF pendingFrom = {} THEN messages
                   ELSE Append(messages, Answer(pendingFrom))
    /\ Finish(r)
    /\ UNCHANGED <<route, loading, error, fetch, page, kind, chat, serverVars,
                   lapses>>

\* An error status, or the connection is lost.
StreamFails(r) ==
    /\ Streaming(r)
    /\ Finish(r)
    /\ Note({"broken"})
    /\ UNCHANGED <<route, historyVars, kind, chat, serverVars>>

\* Mutant of Cancel: the run is not aborted.
CancelUnaborted ==
    /\ busy
    /\ route # None
    /\ pendingOf' = None
    /\ pendingFrom' = {}
    /\ abortRef' = None
    /\ busy' = FALSE
    /\ Note({"broken"})
    /\ UNCHANGED <<route, historyVars, callVars, serverVars>>

\* The stop button. An abort rejects the read or the fetch on the spot, and
\* the catch and finally blocks run before any other callback.
Cancel ==
    /\ busy
    /\ route # None
    /\ pc' = [r \in Runs |-> IF r = abortRef THEN "ended" ELSE pc[r]]
    /\ pendingOf' = None
    /\ pendingFrom' = {}
    /\ abortRef' = None
    /\ busy' = FALSE
    /\ Note({"broken"})
    /\ UNCHANGED <<route, historyVars, kind, chat, serverVars>>

-----------------------------------------------------------------------------
(* The server, whether the page still listens or not: see Completion.      *)

\* The prompt is stored, or the answers a regenerate replaces are deleted.
ServerPrompts(r) ==
    /\ got[r] = "sent"
    /\ got' = [got EXCEPT ![r] = "prompted"]
    /\ store' = [store EXCEPT ![chat[r]] =
                    IF kind[r] = "regenerate"
                    THEN SubSeq(@, 1, LastOf("user", @))
                    ELSE Append(@, Question(r))]
    /\ UNCHANGED <<route, historyVars, streamVars, callVars, made, lapses>>

ServerAnswers(r) ==
    /\ got[r] = "prompted"
    /\ got' = [got EXCEPT ![r] = "answered"]
    /\ store' = [store EXCEPT ![chat[r]] = Append(@, Answer({r}))]
    /\ UNCHANGED <<route, historyVars, streamVars, callVars, made, lapses>>

\* The request is refused, or breaks off with some of its answer or none.
ServerFails(r) ==
    /\ got[r] \in {"sent", "prompted"}
    /\ got' = [got EXCEPT ![r] = "failed"]
    /\ \/ UNCHANGED store
       \/ /\ got[r] = "prompted"
          /\ store' = [store EXCEPT ![chat[r]] = Append(@, Answer({r}))]
    /\ Note({"broken"})
    /\ UNCHANGED <<route, historyVars, streamVars, callVars, made>>

-----------------------------------------------------------------------------
UserStep ==
    \/ \E c \in Chats \cup {None} : Open(c)
    \/ Retry
    \/ Cancel
    \/ \E r \in Runs :
        \/ Send(r)
        \/ SendNew(r)
        \/ Regenerate(r)
        \/ RegenerateForgets(r)

LoaderStep ==
    \/ HistoryRead
    \/ ShowHistory
    \/ HistoryFails
    \/ HistoryNotFound

RunStep(r) ==
    \/ ChatCreated(r)
    \/ CreateFails(r)
    \/ Delta(r)
    \/ Done(r)
    \/ ErrorEvent(r)
    \/ StreamEnds(r)
    \/ StreamFails(r)

ServerStep(r) ==
    \/ ServerPrompts(r)
    \/ ServerAnswers(r)
    \/ ServerFails(r)

Next ==
    \/ UserStep
    \/ LoaderStep
    \/ \E r \in Runs : RunStep(r) \/ ServerStep(r)

Spec == Init /\ [][Next]_vars
-----------------------------------------------------------------------------
(* Properties.                                                             *)

\* The messages the page renders: none under the skeleton or the error card.
Shown ==
    IF route = None \/ loading \/ error THEN {}
    ELSE {messages[i] : i \in DOMAIN messages}

\* The page of a chat shows messages of that chat alone. The exception is a
\* call that was under way when the user moved on: its answer, or what was on
\* the page when the new chat arrived, appears in the wrong conversation.
OneChatOnThePage ==
    "strayed" \notin lapses
        => \A m \in Shown : \A r \in m.by : chat[r] = route

\* What was sent stays on the page until it is answered, through the creation
\* of its chat and the change of route: only leaving the chat, a history that
\* was not there yet and a second call take it away or hide it.
QuestionStaysShown ==
    \A r \in Runs :
        /\ Streaming(r) /\ kind[r] # "regenerate"
        /\ lapses \cap {"strayed", "unloaded", "skeleton", "overlap"} = {}
        => Question(r) \in Shown

\* No answer is put together from two runs: the buffer they share holds the
\* deltas of the run that set it, and of no other. The exception is a call made
\* while another waits for its chat, when the composer is not locked.
AnswersAreNotMixed ==
    "overlap" \notin lapses
        => /\ pendingFrom \subseteq {pendingOf}
           /\ \A m \in Shown : \E r \in Runs : m.by = {r}

\* When all is done and nothing went wrong since the chat was opened, the page
\* shows the conversation that the server has, message by message, through
\* new chats, sends, regenerates and loads. A history that was longer than the
\* one page the client asks for counts as cut.
PageIsHistory ==
    /\ Quiet
    /\ lapses = {}
    /\ route # None /\ fetch = "none" /\ ~error
    => ~loading /\ messages = store[route]
=============================================================================
