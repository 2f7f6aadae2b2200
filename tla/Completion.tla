----------------------------- MODULE Completion -----------------------------
(***************************************************************************)
(* POST /chats/:id/completion and POST /chats/:id/regenerate: the two use  *)
(* cases, the JSON and streaming strategies and the controller's SSE pump, *)
(* run by any number of concurrent requests over the tables of ChatStore.  *)
(*                                                                         *)
(* Node runs one continuation at a time, so a step here is the code from   *)
(* one await to the next. The provider's generator checks the abort signal *)
(* before it yields a delta and nothing else can run before the pump       *)
(* writes it, so a delta is one step; a tool call is awaited between that  *)
(* check and the yield, so it is two.                                      *)
(***************************************************************************)
EXTENDS ChatStore

CONSTANTS
    MaxDeltas,  \* bound on the non-blank deltas of one answer
    MaxTools    \* bound on the tool calls of one answer

ASSUME BoundsAssumption == MaxDeltas \in Nat /\ MaxTools \in Nat

VARIABLES
    pc,         \* where each request stands
    kind,       \* which route it came in by
    user,       \* the authenticated caller
    target,     \* the chat it names
    prompt,     \* id of the user row it answers, 0 when there is none yet
    history,    \* the rows sent to the model as context
    todo,       \* stale answers a regenerate has still to delete
    text,       \* fullText of the strategy, counted in deltas
    tools,      \* tool calls made
    aborted,    \* signal.aborted
    open,       \* the SSE stream is open and its heartbeat timer runs
    outcome,    \* how the response ended
    lost,       \* the write at `done` committed but was reported as failed
    refused     \* the salvage write failed

callVars == <<kind, user, target>>
planVars == <<prompt, history, todo>>
answerVars == <<text, tools>>
replyVars == <<open, outcome>>
faultVars == <<lost, refused>>
requestData == <<callVars, planVars, answerVars, aborted, faultVars>>
requestVars == <<pc, requestData, replyVars>>
vars == <<storeVars, requestVars>>

Kinds == {"completion", "regenerate"}

StreamPcs == {"opening", "streaming", "tool", "persisting", "salvaging"}

Pcs == {"idle", "checking", "prompting", "reading", "scanning", "dropping",
        "building", "completing", "saving", "ended"} \cup StreamPcs

Outcomes == {"none", "notFound", "noUserMessage", "failed", "answered",
             "done", "interrupted", "cut", "crashed"}

TypeOK ==
    /\ StoreTypeOK
    /\ pc \in [Requests -> Pcs]
    /\ kind \in [Requests -> Kinds]
    /\ user \in [Requests -> Users \cup {None}]
    /\ target \in [Requests -> Chats \cup {None}]
    /\ prompt \in [Requests -> Nat]
    /\ history \in [Requests -> SUBSET Row]
    /\ todo \in [Requests -> SUBSET Row]
    /\ text \in [Requests -> Nat]
    /\ tools \in [Requests -> Nat]
    /\ aborted \in [Requests -> BOOLEAN]
    /\ open \in [Requests -> BOOLEAN]
    /\ outcome \in [Requests -> Outcomes]
    /\ lost \in [Requests -> BOOLEAN]
    /\ refused \in [Requests -> BOOLEAN]

Init ==
    /\ StoreInit
    /\ pc = [r \in Requests |-> "idle"]
    /\ kind = [r \in Requests |-> "completion"]
    /\ user = [r \in Requests |-> None]
    /\ target = [r \in Requests |-> None]
    /\ prompt = [r \in Requests |-> 0]
    /\ history = [r \in Requests |-> {}]
    /\ todo = [r \in Requests |-> {}]
    /\ text = [r \in Requests |-> 0]
    /\ tools = [r \in Requests |-> 0]
    /\ aborted = [r \in Requests |-> FALSE]
    /\ open = [r \in Requests |-> FALSE]
    /\ outcome = [r \in Requests |-> "none"]
    /\ lost = [r \in Requests |-> FALSE]
    /\ refused = [r \in Requests |-> FALSE]

Active(r) == pc[r] \notin {"idle", "ended"}

-----------------------------------------------------------------------------
(* How a step moves one request on.                                        *)

Goto(r, p) == pc' = [pc EXCEPT ![r] = p]

\* The response is complete and the heartbeat timer is cleared.
EndWith(r, o) ==
    /\ Goto(r, "ended")
    /\ outcome' = [outcome EXCEPT ![r] = o]
    /\ open' = [open EXCEPT ![r] = FALSE]

\* Mutant of Forward: the loop is left without the finally block.
ForwardLeaking(r, p) ==
    IF aborted[r]
    THEN /\ Goto(r, "ended")
         /\ outcome' = [outcome EXCEPT ![r] = "cut"]
         /\ UNCHANGED open
    ELSE Goto(r, p) /\ UNCHANGED replyVars

\* The pump's loop body: stop on an aborted signal, else write the event.
Forward(r, p) ==
    IF aborted[r]
    THEN EndWith(r, "cut")
    ELSE Goto(r, p) /\ UNCHANGED replyVars

-----------------------------------------------------------------------------
(* The use cases.                                                          *)

Start(r, u, c, k) ==
    /\ pc[r] = "idle"
    /\ Goto(r, "checking")
    /\ kind' = [kind EXCEPT ![r] = k]
    /\ user' = [user EXCEPT ![r] = u]
    /\ target' = [target EXCEPT ![r] = c]
    /\ UNCHANGED <<storeVars, planVars, answerVars, aborted, replyVars,
                   faultVars>>

\* ensureOwnership finds the chat.
Admit(r) ==
    /\ pc[r] = "checking"
    /\ Owns(user[r], target[r])
    /\ Goto(r, IF kind[r] = "completion" THEN "prompting" ELSE "scanning")
    /\ UNCHANGED <<storeVars, requestData, replyVars>>

\* Mutant of Reject: the prompt is written before ownership is known.
RejectAfterWrite(r) ==
    /\ pc[r] = "checking"
    /\ ~Owns(user[r], target[r])
    /\ InsertRow(target[r], "user", r, 0)
    /\ EndWith(r, "notFound")
    /\ UNCHANGED requestData

\* ensureOwnership does not: 404.
Reject(r) ==
    /\ pc[r] = "checking"
    /\ ~Owns(user[r], target[r])
    /\ EndWith(r, "notFound")
    /\ UNCHANGED <<storeVars, requestData>>

\* Mutant of SavePrompt: the row is stored under a role the table has not.
SavePromptAsSystem(r) ==
    /\ pc[r] = "prompting"
    /\ InsertRow(target[r], "system", r, 0)
    /\ prompt' = [prompt EXCEPT ![r] = nextId]
    /\ Goto(r, "reading")
    /\ UNCHANGED <<callVars, history, todo, answerVars, aborted, replyVars,
                   faultVars>>

SavePrompt(r) ==
    /\ pc[r] = "prompting"
    /\ InsertRow(target[r], "user", r, 0)
    /\ prompt' = [prompt EXCEPT ![r] = nextId]
    /\ Goto(r, "reading")
    /\ UNCHANGED <<callVars, history, todo, answerVars, aborted, replyVars,
                   faultVars>>

\* The prompt is committed but the driver reports an error: 500.
SavePromptUnacked(r) ==
    /\ pc[r] = "prompting"
    /\ InsertRow(target[r], "user", r, 0)
    /\ EndWith(r, "failed")
    /\ UNCHANGED requestData

\* Mutant of BuildHistory: the slice is gone.
BuildHistoryUnsliced(r) ==
    /\ pc[r] = "reading"
    /\ history' = [history EXCEPT ![r] = LastMessages(target[r])]
    /\ Goto(r, "building")
    /\ UNCHANGED <<storeVars, callVars, prompt, todo, answerVars, aborted,
                   replyVars, faultVars>>

\* buildModelHistory: the last rows of the chat without the newest one.
BuildHistory(r) ==
    /\ pc[r] = "reading"
    /\ LET recent == LastMessages(target[r])
       IN  history' = [history EXCEPT ![r] = recent \ Newest(recent)]
    /\ Goto(r, "building")
    /\ UNCHANGED <<storeVars, callVars, prompt, todo, answerVars, aborted,
                   replyVars, faultVars>>

\* A regenerate reads the last rows and fixes its prompt, its context and
\* the answers it will drop.
ScanHistory(r) ==
    /\ pc[r] = "scanning"
    /\ LET recent == LastMessages(target[r])
       IN  \E p \in LastUserMessage(recent) :
            /\ prompt' = [prompt EXCEPT ![r] = p.id]
            /\ todo' = [todo EXCEPT ![r] = StaleAnswers(recent, p)]
            /\ history' = [history EXCEPT ![r] = {m \in recent : m.id < p.id}]
    /\ Goto(r, "dropping")
    /\ UNCHANGED <<storeVars, callVars, answerVars, aborted, replyVars,
                   faultVars>>

\* NoUserMessageError: 422.
NothingToRegenerate(r) ==
    /\ pc[r] = "scanning"
    /\ LastUserMessage(LastMessages(target[r])) = {}
    /\ EndWith(r, "noUserMessage")
    /\ UNCHANGED <<storeVars, requestData>>

DropStale(r) ==
    /\ pc[r] = "dropping"
    /\ \E m \in Oldest(todo[r]) :
        /\ DeleteRow(m)
        /\ todo' = [todo EXCEPT ![r] = @ \ {m}]
    /\ UNCHANGED <<pc, callVars, prompt, history, answerVars, aborted,
                   replyVars, faultVars>>

\* The delete is committed but the driver reports an error: 500.
DropStaleUnacked(r) ==
    /\ pc[r] = "dropping"
    /\ \E m \in Oldest(todo[r]) : DeleteRow(m)
    /\ EndWith(r, "failed")
    /\ UNCHANGED requestData

\* Somebody else deleted the row first: P2025 fails the request.
DropMissing(r) ==
    /\ pc[r] = "dropping"
    /\ \E m \in Oldest(todo[r]) : m \notin rows
    /\ EndWith(r, "failed")
    /\ UNCHANGED <<storeVars, requestData>>

DropsDone(r) ==
    /\ pc[r] = "dropping"
    /\ todo[r] = {}
    /\ Goto(r, "building")
    /\ UNCHANGED <<storeVars, requestData, replyVars>>

\* A query or a write of the use case fails and nothing is committed: 500.
DatabaseFails(r) ==
    /\ \/ pc[r] \in {"checking", "prompting", "reading", "scanning"}
       \/ pc[r] = "dropping" /\ todo[r] # {}
       \/ pc[r] = "saving" /\ text[r] > 0
    /\ EndWith(r, "failed")
    /\ UNCHANGED <<storeVars, requestData>>

-----------------------------------------------------------------------------
(* STREAMING_ENABLED off: the JSON strategy.                               *)

BuildJson(r) ==
    /\ pc[r] = "building"
    /\ Goto(r, "completing")
    /\ UNCHANGED <<storeVars, requestData, replyVars>>

AiCompletes(r) ==
    /\ pc[r] = "completing"
    /\ \E n \in 0..MaxDeltas : text' = [text EXCEPT ![r] = n]
    /\ Goto(r, "saving")
    /\ UNCHANGED <<storeVars, callVars, planVars, tools, aborted, replyVars,
                   faultVars>>

AiFails(r) ==
    /\ pc[r] = "completing"
    /\ EndWith(r, "failed")
    /\ UNCHANGED <<storeVars, requestData>>

\* persistAssistant, then the 200 response; or the write is committed and
\* reported as failed, and the response is a 500.
SaveAnswer(r) ==
    /\ pc[r] = "saving"
    /\ text[r] > 0
    /\ InsertRow(target[r], "assistant", r, text[r])
    /\ \E o \in {"answered", "failed"} : EndWith(r, o)
    /\ UNCHANGED requestData

\* persistAssistant ignores an empty answer.
SkipBlankAnswer(r) ==
    /\ pc[r] = "saving"
    /\ text[r] = 0
    /\ EndWith(r, "answered")
    /\ UNCHANGED <<storeVars, requestData>>

-----------------------------------------------------------------------------
(* STREAMING_ENABLED on: the streaming strategy under the controller's     *)
(* pump.                                                                   *)

OpenStream(r) ==
    /\ pc[r] = "building"
    /\ Goto(r, "opening")
    /\ open' = [open EXCEPT ![r] = TRUE]
    /\ UNCHANGED <<storeVars, requestData, outcome>>

\* The provider yields `thinking` before it looks at the signal.
Thinking(r) ==
    /\ pc[r] = "opening"
    /\ Forward(r, "streaming")
    /\ UNCHANGED <<storeVars, requestData>>

Delta(r) ==
    /\ pc[r] = "streaming"
    /\ ~aborted[r]
    /\ text[r] < MaxDeltas
    /\ text' = [text EXCEPT ![r] = @ + 1]
    /\ UNCHANGED <<storeVars, pc, callVars, planVars, tools, aborted,
                   replyVars, faultVars>>

CallTool(r) ==
    /\ pc[r] = "streaming"
    /\ ~aborted[r]
    /\ tools[r] < MaxTools
    /\ tools' = [tools EXCEPT ![r] = @ + 1]
    /\ Goto(r, "tool")
    /\ UNCHANGED <<storeVars, callVars, planVars, text, aborted, replyVars,
                   faultVars>>

\* executeTool resolves, never rejects; its event goes straight to the pump.
ToolResult(r) ==
    /\ pc[r] = "tool"
    /\ Forward(r, "streaming")
    /\ UNCHANGED <<storeVars, requestData>>

\* The last turn ends, or the provider sees the aborted signal: `done`.
ProviderDone(r) ==
    /\ pc[r] = "streaming"
    /\ Goto(r, "persisting")
    /\ UNCHANGED <<storeVars, requestData, replyVars>>

\* Mutant of ProviderFails: the catch block only rethrows.
ProviderFailsUnsaved(r) ==
    /\ pc[r] = "streaming"
    /\ EndWith(r, "interrupted")
    /\ UNCHANGED <<storeVars, requestData>>

\* The provider throws: the strategy saves what was streamed, if anything.
ProviderFails(r) ==
    /\ pc[r] = "streaming"
    /\ IF text[r] > 0
       THEN Goto(r, "salvaging") /\ UNCHANGED replyVars
       ELSE EndWith(r, "interrupted")
    /\ UNCHANGED <<storeVars, requestData>>

\* `done` reaches the pump after the write: forwarded unless aborted.
DoneForwarded(r) == EndWith(r, IF aborted[r] THEN "cut" ELSE "done")

\* Mutants of PersistAnswer: `done` goes out before the write, and the catch
\* block runs after a write that succeeded, as without the `persisted` flag.
PersistAfterDone(r) ==
    /\ pc[r] = "persisting"
    /\ text[r] > 0
    /\ DoneForwarded(r)
    /\ UNCHANGED <<storeVars, requestData>>

PersistThenSalvage(r) ==
    /\ pc[r] = "persisting"
    /\ text[r] > 0
    /\ InsertRow(target[r], "assistant", r, text[r])
    /\ Goto(r, "salvaging")
    /\ UNCHANGED <<requestData, replyVars>>

PersistAnswer(r) ==
    /\ pc[r] = "persisting"
    /\ text[r] > 0
    /\ InsertRow(target[r], "assistant", r, text[r])
    /\ DoneForwarded(r)
    /\ UNCHANGED requestData

PersistBlank(r) ==
    /\ pc[r] = "persisting"
    /\ text[r] = 0
    /\ DoneForwarded(r)
    /\ UNCHANGED <<storeVars, requestData>>

\* The write at `done` fails: the strategy's catch tries once more.
PersistRefused(r) ==
    /\ pc[r] = "persisting"
    /\ text[r] > 0
    /\ Goto(r, "salvaging")
    /\ UNCHANGED <<storeVars, requestData, replyVars>>

\* The same, but the row had been committed.
PersistUnacked(r) ==
    /\ pc[r] = "persisting"
    /\ text[r] > 0
    /\ InsertRow(target[r], "assistant", r, text[r])
    /\ Goto(r, "salvaging")
    /\ lost' = [lost EXCEPT ![r] = TRUE]
    /\ UNCHANGED <<callVars, planVars, answerVars, aborted, replyVars,
                   refused>>

\* Mutants of Salvage and SalvageRefused: the loop goes round again.
SalvageAgain(r) ==
    /\ pc[r] = "salvaging"
    /\ InsertRow(target[r], "assistant", r, text[r])
    /\ Goto(r, "persisting")
    /\ UNCHANGED <<requestData, replyVars>>

SalvageRetried(r) ==
    /\ pc[r] = "salvaging"
    /\ Goto(r, "persisting")
    /\ UNCHANGED <<storeVars, requestData, replyVars>>

\* The catch block's write; the pump then sends the error frame whether the
\* write was acknowledged or not.
Salvage(r) ==
    /\ pc[r] = "salvaging"
    /\ InsertRow(target[r], "assistant", r, text[r])
    /\ EndWith(r, "interrupted")
    /\ UNCHANGED requestData

SalvageRefused(r) ==
    /\ pc[r] = "salvaging"
    /\ EndWith(r, "interrupted")
    /\ refused' = [refused EXCEPT ![r] = TRUE]
    /\ UNCHANGED <<storeVars, callVars, planVars, answerVars, aborted, lost>>

-----------------------------------------------------------------------------
(* The environment.                                                        *)

\* The client goes away and Node emits 'aborted' on the request.
Disconnect(r) ==
    /\ Active(r)
    /\ ~aborted[r]
    /\ aborted' = [aborted EXCEPT ![r] = TRUE]
    /\ UNCHANGED <<storeVars, pc, callVars, planVars, answerVars, replyVars,
                   faultVars>>

\* The process or serverless instance that runs the request dies.
Crash(r) ==
    /\ Active(r)
    /\ EndWith(r, "crashed")
    /\ UNCHANGED <<storeVars, requestData>>

-----------------------------------------------------------------------------
UseCaseStep(r) ==
    \/ Admit(r)
    \/ Reject(r)
    \/ SavePrompt(r)
    \/ SavePromptUnacked(r)
    \/ BuildHistory(r)
    \/ ScanHistory(r)
    \/ NothingToRegenerate(r)
    \/ DropStale(r)
    \/ DropStaleUnacked(r)
    \/ DropMissing(r)
    \/ DropsDone(r)
    \/ DatabaseFails(r)

JsonStep(r) ==
    \/ BuildJson(r)
    \/ AiCompletes(r)
    \/ AiFails(r)
    \/ SaveAnswer(r)
    \/ SkipBlankAnswer(r)

StreamStep(r) ==
    \/ OpenStream(r)
    \/ Thinking(r)
    \/ Delta(r)
    \/ CallTool(r)
    \/ ToolResult(r)
    \/ ProviderDone(r)
    \/ ProviderFails(r)
    \/ PersistAnswer(r)
    \/ PersistBlank(r)
    \/ PersistRefused(r)
    \/ PersistUnacked(r)
    \/ Salvage(r)
    \/ SalvageRefused(r)

ServerStep(r) == UseCaseStep(r) \/ JsonStep(r) \/ StreamStep(r)

Next ==
    \/ StoreNext /\ UNCHANGED requestVars
    \/ \E r \in Requests :
        \/ \E u \in Users, c \in Chats, k \in Kinds : Start(r, u, c, k)
        \/ ServerStep(r)
        \/ Disconnect(r)
        \/ Crash(r)

Spec == Init /\ [][Next]_vars

\* An admitted request keeps being run: Node resumes a settled await, and the
\* database driver, the provider SDK and the tools settle every call.
Fairness == \A r \in Requests : WF_vars(ServerStep(r))

FairSpec == Spec /\ Fairness
-----------------------------------------------------------------------------
(* Properties.                                                             *)

Answers(r) == {m \in written : m.role = "assistant" /\ m.by = r}

BrokenOff(r) == outcome[r] \in {"interrupted", "cut"} /\ text[r] > 0

AccountGone(c) == owner[c] \in removed

\* A response that tells the client its answer is complete (the `done` event,
\* the JSON body) has had that whole answer written, whatever happens next:
\* the strategy awaits onComplete before it forwards `done`.
DoneIsDurable ==
    \A r \in Requests :
        outcome[r] \in {"done", "answered"} /\ text[r] > 0
            => \E m \in Answers(r) : m.text = text[r]

\* Text the client saw before its stream broke is written too, if the database
\* takes it: on a provider error by the catch block, on a disconnect by the
\* provider's own `done`. The one gap is a disconnect during a tool call.
StreamedTextIsKept ==
    \A r \in Requests :
        BrokenOff(r) /\ ~refused[r] /\ (aborted[r] => tools[r] = 0)
            => \E m \in Answers(r) : m.text = text[r]

\* The strategy's comment makes no exception for that gap: a mid-stream
\* failure "(provider error, abort, network drop)" saves the streamed text.
AbortedTextIsKept ==
    \A r \in Requests :
        BrokenOff(r) /\ ~refused[r]
            => \E m \in Answers(r) : m.text = text[r]

\* One request answers once. The catch block's second write duplicates an
\* answer only when the first was committed and reported as failed.
AnsweredOnce ==
    \A r \in Requests :
        \A m, k \in Answers(r) : m # k => lost[r]

\* Once a request has its prompt, the user row stays in the table through
\* crashes, failed providers and other requests' regenerates.
PromptSurvives ==
    \A r \in Requests :
        prompt[r] # 0 /\ ~AccountGone(target[r])
            => \E m \in rows : /\ m.id = prompt[r]
                               /\ m.role = "user"
                               /\ m.chat = target[r]

\* No answer stands in the table without the earlier user row it answers.
EveryAnswerHasItsPrompt ==
    \A m \in rows :
        m.role = "assistant"
            => \E p \in rows : /\ p.role = "user"
                               /\ p.id = prompt[m.by]
                               /\ p.chat = m.chat
                               /\ p.id < m.id

\* A request answered 404 or 422 has written nothing.
RejectedLeavesNoTrace ==
    \A r \in Requests :
        outcome[r] \in {"notFound", "noUserMessage"}
            => \A m \in written : m.by # r

\* Rows are written by, and sent to the model for, the chat's owner alone.
TenantsIsolated ==
    /\ \A m \in written : owner[m.chat] = user[m.by]
    /\ \A r \in Requests : \A m \in history[r] : owner[m.chat] = user[r]

\* Every message hangs from a chat that exists: an answer still in flight when
\* its account is deleted does not come back as an orphan.
NoOrphanRows == \A m \in rows : ChatExists(m.chat)

\* The model's context is older than the prompt. A completion sees a row as
\* new as its own prompt only if a rival wrote to the chat before it read.
ContextPrecedesPrompt ==
    \A r \in Requests : \A m \in history[r] :
        m.id >= prompt[r]
            => /\ kind[r] = "completion"
               /\ \E k \in written : /\ k.chat = target[r]
                                     /\ k.by # r
                                     /\ k.id > m.id

\* The heartbeat timer runs only while the pump does, however it is left.
HeartbeatStops == \A r \in Requests : open[r] => pc[r] \in StreamPcs

\* A message leaves the table only with its account, or as an answer newer
\* than the prompt of the regenerate that deletes it.
OnlyStaleAnswersVanish ==
    [][\A m \in rows \ rows' :
        \/ owner[m.chat] \in removed' \ removed
        \/ \E r \in Requests : /\ pc[r] = "dropping"
                               /\ target[r] = m.chat
                               /\ m.role = "assistant"
                               /\ prompt[r] < m.id]_vars

\* Every request that was started gets a response, or dies with its process.
Responds == \A r \in Requests : pc[r] = "checking" ~> pc[r] = "ended"
-----------------------------------------------------------------------------
(* What makes the properties above inductive.                              *)

\* A request that left "idle" names an account and a chat.
Addressed ==
    \A r \in Requests :
        pc[r] # "idle" => user[r] \in Users /\ target[r] \in Chats

\* Rows come from the history of writes, and ids tell them apart.
Ledger ==
    /\ nextId > 0
    /\ rows \subseteq written
    /\ \A m \in written : 0 < m.id /\ m.id < nextId /\ pc[m.by] # "idle"
    /\ \A m, k \in written : m.id = k.id => m = k

Asking == {"idle", "checking", "prompting", "scanning"}

Prompted == {"reading", "dropping", "building", "completing", "saving"}
                \cup StreamPcs

\* From ensureOwnership on, the caller owns the chat.
Access ==
    \A r \in Requests :
        pc[r] \in Prompted \cup {"prompting", "scanning"}
            => owner[target[r]] = user[r]

\* The one user row a request writes is its prompt; before that it has none.
Asked ==
    \A r \in Requests :
        /\ pc[r] \in Asking => prompt[r] = 0 /\ \A m \in written : m.by # r
        /\ pc[r] \in Prompted => prompt[r] # 0
        /\ pc[r] \in Prompted =>
             \A m \in written : m.by = r /\ m.role = "user" => m.id = prompt[r]

\* What a regenerate is about to delete are answers to its prompt or later.
Marked ==
    \A r \in Requests :
        /\ pc[r] \in Asking => todo[r] = {}
        /\ \A m \in todo[r] : /\ m.role = "assistant"
                              /\ m.chat = target[r]
                              /\ prompt[r] < m.id

\* Where a request has no text, no answer row and no fault yet.
Answering ==
    \A r \in Requests :
        /\ pc[r] \in Asking \cup {"reading", "dropping", "building",
                                  "completing", "opening"} => text[r] = 0
        /\ text[r] <= MaxDeltas
        /\ pc[r] = "tool" => tools[r] > 0
        /\ pc[r] \notin {"salvaging", "ended"} =>
             Answers(r) = {} /\ ~lost[r] /\ ~refused[r]
        /\ pc[r] = "salvaging" =>
             text[r] > 0 /\ ~refused[r] /\ (Answers(r) # {} => lost[r])
        /\ pc[r] # "ended" => outcome[r] = "none"

\* Until it has read the chat a request has no context, and only a completion
\* saves a prompt and then reads.
Reading ==
    \A r \in Requests :
        /\ pc[r] \in Asking \cup {"reading"} => history[r] = {}
        /\ pc[r] \in {"prompting", "reading"} => kind[r] = "completion"

\* The inductive invariant: with TypeOK and Addressed, every step keeps it.
IndInv == Ledger /\ Access /\ Asked /\ Marked /\ Answering /\ Reading
-----------------------------------------------------------------------------
(* Completion implements Conversation.                                     *)

\* How far a request has come, as its client would tell it.
Stage(r) ==
    IF pc[r] \in Asking THEN "new"
    ELSE IF pc[r] = "ended" THEN "over"
    ELSE IF pc[r] = "salvaging" /\ lost[r] THEN "answered"
    ELSE "asked"

Conv == INSTANCE Conversation
            WITH stage <- [r \in Requests |-> Stage(r)],
                 question <- prompt,
                 Sizes <- 1..MaxDeltas

\* Through two use cases, two strategies, crashes and faults, a request asks at
\* most once, retracts only before it answers, answers its own question in the
\* question's chat at most twice, and writes nothing once its response is over.
ImplementsConversation == Conv!Spec
=============================================================================
