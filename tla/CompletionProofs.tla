--------------------------- MODULE CompletionProofs ---------------------------
(***************************************************************************)
(* Completion, for every set of users, chats and requests and every bound: *)
(* its type correctness and inductive invariant (each lemma takes one      *)
(* group of actions), its safety properties as theorems, first what a      *)
(* response promises its client, then what the tables hold; and that it    *)
(* implements Conversation.                                                *)
(***************************************************************************)
EXTENDS Completion, FiniteSetTheorems, TLAPS

(***************************************************************************)
(* The rows the queries return are rows of the table.                      *)
(***************************************************************************)
LEMMA QueriesReturnRows ==
    ASSUME NEW c
    PROVE  /\ LastMessages(c) \subseteq rows
           /\ \A S : Newest(S) \subseteq S /\ Oldest(S) \subseteq S
           /\ \A p \in LastUserMessage(LastMessages(c)) : p \in rows
           /\ \A p : StaleAnswers(LastMessages(c), p) \subseteq rows
  BY DEF LastMessages, RowsOf, Newest, Oldest, LastUserMessage, StaleAnswers

(***************************************************************************)
(* An insert keeps the tables well typed.                                  *)
(***************************************************************************)
LEMMA InsertRowType ==
    ASSUME StoreTypeOK, NEW r \in Requests, NEW c \in Chats,
           NEW role \in Roles, NEW n \in Nat, InsertRow(c, role, r, n)
    PROVE  StoreTypeOK'
  BY DEF InsertRow, StoreTypeOK, Row, chatVars

(***************************************************************************)
(* Type correctness. It needs that a request that left "idle" names a      *)
(* chat: an insert is only known to be well typed then.                    *)
(***************************************************************************)
TypeInv == TypeOK /\ Addressed

(* The store's own steps keep types.                                       *)
LEMMA StoreStepType ==
    TypeInv /\ StoreNext /\ UNCHANGED requestVars => TypeInv'
  <1> SUFFICES ASSUME TypeInv, StoreNext, UNCHANGED requestVars
               PROVE  TypeInv'
    OBVIOUS
  <1>1. StoreTypeOK'
    BY DEF TypeInv, TypeOK, StoreTypeOK, StoreNext, CreateChat, DeleteChat,
           RemoveUser
  <1> QED
    BY <1>1 DEF TypeInv, TypeOK, Addressed, requestVars, requestData, callVars,
                planVars, answerVars, faultVars, replyVars

(* A request starts.                                                       *)
LEMMA StartType ==
    ASSUME TypeInv, NEW r \in Requests, NEW u \in Users, NEW c \in Chats,
           NEW k \in Kinds, Start(r, u, c, k)
    PROVE  TypeInv'
  BY DEF TypeInv, TypeOK, StoreTypeOK, Addressed, Start, Goto, Pcs, StreamPcs,
         storeVars, planVars, answerVars, faultVars, replyVars

(* The steps of the two use cases.                                         *)
LEMMA UseCaseStepType ==
    ASSUME TypeInv, NEW r \in Requests, UseCaseStep(r)
    PROVE  TypeInv'
  <1> USE DEF TypeInv, TypeOK, Addressed, Pcs, StreamPcs, Outcomes, Roles,
              storeVars, requestData, callVars, planVars, answerVars,
              faultVars, replyVars, Goto, EndWith, Forward
  <1>1. CASE Admit(r)
    BY <1>1 DEF Admit, StoreTypeOK
  <1>2. CASE Reject(r)
    BY <1>2 DEF Reject, StoreTypeOK
  <1>3. CASE SavePrompt(r)
    <2>1. StoreTypeOK'
      BY <1>3, InsertRowType DEF SavePrompt
    <2> QED
      BY <1>3, <2>1 DEF SavePrompt, InsertRow, StoreTypeOK
  <1>4. CASE SavePromptUnacked(r)
    <2>1. StoreTypeOK'
      BY <1>4, InsertRowType DEF SavePromptUnacked
    <2> QED
      BY <1>4, <2>1 DEF SavePromptUnacked, InsertRow, StoreTypeOK
  <1>5. CASE BuildHistory(r)
    BY <1>5, QueriesReturnRows DEF BuildHistory, StoreTypeOK
  <1>6. CASE ScanHistory(r)
    BY <1>6, QueriesReturnRows DEF ScanHistory, StoreTypeOK, Row
  <1>7. CASE NothingToRegenerate(r)
    BY <1>7 DEF NothingToRegenerate, StoreTypeOK
  <1>8. CASE DropStale(r)
    <2>1. StoreTypeOK'
      BY <1>8 DEF DropStale, DeleteRow, chatVars, StoreTypeOK
    <2> QED
      BY <1>8, <2>1 DEF DropStale
  <1>9. CASE DropStaleUnacked(r)
    <2>1. StoreTypeOK'
      BY <1>9 DEF DropStaleUnacked, DeleteRow, chatVars, StoreTypeOK
    <2> QED
      BY <1>9, <2>1 DEF DropStaleUnacked
  <1>10. CASE DropMissing(r)
    BY <1>10 DEF DropMissing, StoreTypeOK
  <1>11. CASE DropsDone(r)
    BY <1>11 DEF DropsDone, StoreTypeOK
  <1>12. CASE DatabaseFails(r)
    BY <1>12 DEF DatabaseFails, StoreTypeOK
  <1> QED
    BY <1>1, <1>2, <1>3, <1>4, <1>5, <1>6, <1>7, <1>8, <1>9, <1>10, <1>11,
       <1>12 DEF UseCaseStep

(* The steps of the JSON strategy.                                         *)
LEMMA JsonStepType ==
    ASSUME TypeInv, NEW r \in Requests, JsonStep(r)
    PROVE  TypeInv'
  <1> USE DEF TypeInv, TypeOK, Addressed, Pcs, StreamPcs, Outcomes, Roles,
              storeVars, requestData, callVars, planVars, answerVars,
              faultVars, replyVars, Goto, EndWith, Forward
  <1>1. CASE BuildJson(r)
    BY <1>1 DEF BuildJson, StoreTypeOK
  <1>2. CASE AiCompletes(r)
    BY <1>2 DEF AiCompletes, StoreTypeOK
  <1>3. CASE AiFails(r)
    BY <1>3 DEF AiFails, StoreTypeOK
  <1>4. CASE SaveAnswer(r)
    <2>1. StoreTypeOK'
      BY <1>4, InsertRowType DEF SaveAnswer
    <2> QED
      BY <1>4, <2>1 DEF SaveAnswer, InsertRow, StoreTypeOK
  <1>5. CASE SkipBlankAnswer(r)
    BY <1>5 DEF SkipBlankAnswer, StoreTypeOK
  <1> QED
    BY <1>1, <1>2, <1>3, <1>4, <1>5 DEF JsonStep

(* The steps of the streaming strategy and the pump.                       *)
LEMMA StreamStepType ==
    ASSUME TypeInv, NEW r \in Requests, StreamStep(r)
    PROVE  TypeInv'
  <1> USE DEF TypeInv, TypeOK, Addressed, Pcs, StreamPcs, Outcomes, Roles,
              storeVars, requestData, callVars, planVars, answerVars,
              faultVars, replyVars, Goto, EndWith, Forward
  <1>1. CASE OpenStream(r)
    BY <1>1 DEF OpenStream, StoreTypeOK
  <1>2. CASE Thinking(r)
    BY <1>2, ZenonT(30) DEF Thinking, StoreTypeOK
  <1>3. CASE Delta(r)
    BY <1>3 DEF Delta, StoreTypeOK
  <1>4. CASE CallTool(r)
    BY <1>4 DEF CallTool, StoreTypeOK
  <1>5. CASE ToolResult(r)
    BY <1>5, ZenonT(30) DEF ToolResult, StoreTypeOK
  <1>6. CASE ProviderDone(r)
    BY <1>6 DEF ProviderDone, StoreTypeOK
  <1>7. CASE ProviderFails(r)
    BY <1>7 DEF ProviderFails, StoreTypeOK
  <1>8. CASE PersistAnswer(r)
    <2>1. StoreTypeOK'
      BY <1>8, InsertRowType DEF PersistAnswer
    <2> QED
      BY <1>8, <2>1 DEF PersistAnswer, InsertRow, StoreTypeOK, DoneForwarded
  <1>9. CASE PersistBlank(r)
    BY <1>9 DEF PersistBlank, StoreTypeOK, DoneForwarded
  <1>10. CASE PersistRefused(r)
    BY <1>10 DEF PersistRefused, StoreTypeOK
  <1>11. CASE PersistUnacked(r)
    <2>1. StoreTypeOK'
      BY <1>11, InsertRowType DEF PersistUnacked
    <2> QED
      BY <1>11, <2>1 DEF PersistUnacked, InsertRow, StoreTypeOK
  <1>12. CASE Salvage(r)
    <2>1. StoreTypeOK'
      BY <1>12, InsertRowType DEF Salvage
    <2> QED
      BY <1>12, <2>1 DEF Salvage, InsertRow, StoreTypeOK
  <1>13. CASE SalvageRefused(r)
    BY <1>13 DEF SalvageRefused, StoreTypeOK
  <1> QED
    BY <1>1, <1>2, <1>3, <1>4, <1>5, <1>6, <1>7, <1>8, <1>9, <1>10, <1>11,
       <1>12, <1>13 DEF StreamStep

(* A disconnect and a crash.                                               *)
LEMMA FaultType ==
    ASSUME TypeInv, NEW r \in Requests, Disconnect(r) \/ Crash(r)
    PROVE  TypeInv'
  <1> USE DEF TypeInv, TypeOK, StoreTypeOK, Addressed, Pcs, StreamPcs, Outcomes,
              storeVars, requestData, callVars, planVars, answerVars,
              faultVars, replyVars, Goto, EndWith, Active
  <1>1. CASE Disconnect(r)
    BY <1>1 DEF Disconnect
  <1>2. CASE Crash(r)
    BY <1>2 DEF Crash
  <1> QED
    BY <1>1, <1>2

(* A stuttering step changes no variable an invariant mentions.            *)
LEMMA StutterType == TypeInv /\ UNCHANGED vars => TypeInv'
  BY DEF TypeInv, TypeOK, StoreTypeOK, Addressed, vars, storeVars, requestVars,
         requestData, callVars, planVars, answerVars, faultVars, replyVars

(* The type invariant together with what its induction needs.              *)
LEMMA TypeInvariant == Spec => []TypeInv
  <1>1. Init => TypeInv
    BY DEF Init, StoreInit, TypeInv, TypeOK, StoreTypeOK, Addressed, Pcs, Kinds,
           Outcomes
  <1>2. TypeInv /\ [Next]_vars => TypeInv'
    BY StoreStepType, StartType, UseCaseStepType, JsonStepType,
       StreamStepType, FaultType, StutterType DEF Next, ServerStep
  <1> QED
    BY <1>1, <1>2, PTL DEF Spec

(***************************************************************************)
(* Type correctness: the tables and every request's local state stay       *)
(* within their types.                                                     *)
(***************************************************************************)
THEOREM TypeCorrect == Spec => []TypeOK
  <1>1. TypeInv => TypeOK
    BY DEF TypeInv
  <1> QED
    BY <1>1, TypeInvariant, PTL

-----------------------------------------------------------------------------
(***************************************************************************)
(* An insert by a request that has started keeps the ledger: the new row's *)
(* id is larger than every earlier one.                                    *)
(***************************************************************************)
LEMMA InsertRowLedger ==
    ASSUME TypeInv, Ledger, NEW r \in Requests, NEW role \in Roles,
           NEW n \in Nat, pc[r] # "idle", InsertRow(target[r], role, r, n),
           \A q \in Requests : pc'[q] = "idle" => pc[q] = "idle"
    PROVE  Ledger'
  <1> DEFINE m == [id |-> nextId, chat |-> target[r], role |-> role,
                   by |-> r, text |-> n]
  <1>1. /\ rows' = rows \cup {m}
        /\ written' = written \cup {m}
        /\ nextId' = nextId + 1
    BY DEF InsertRow
  <1>2. m.id = nextId /\ m.by = r
    OBVIOUS
  <1>3. \A k \in written : k.by \in Requests /\ k.id \in Nat /\ k.id < nextId
    BY DEF TypeInv, TypeOK, StoreTypeOK, Row, Ledger
  <1>4. nextId \in Nat
    BY DEF TypeInv, TypeOK, StoreTypeOK
  <1> HIDE DEF m
  <1> QED
    BY <1>1, <1>2, <1>3, <1>4 DEF Ledger

(* The prompt is the first row its request writes.                         *)
LEMMA SavePromptInd ==
    ASSUME TypeInv, TypeInv', IndInv, NEW r \in Requests, SavePrompt(r)
    PROVE  IndInv'
  <1> DEFINE m == [id |-> nextId, chat |-> target[r], role |-> "user",
                   by |-> r, text |-> 0]
  <1>1. Ledger'
    BY InsertRowLedger DEF SavePrompt, Goto, Roles, TypeInv, TypeOK, IndInv
  <1>2. /\ written' = written \cup {m}
        /\ prompt' = [prompt EXCEPT ![r] = nextId]
        /\ pc[r] = "prompting"
        /\ pc' = [pc EXCEPT ![r] = "reading"]
        /\ UNCHANGED <<todo, target>>
    BY DEF SavePrompt, InsertRow, Goto, callVars
  <1>3. m.id = nextId /\ m.by = r
    OBVIOUS
  <1>4. nextId \in Nat \ {0}
    BY DEF TypeInv, TypeOK, StoreTypeOK, IndInv, Ledger
  <1> HIDE DEF m
  <1>5. Asked' /\ Marked'
    <2> SUFFICES ASSUME NEW q \in Requests
                 PROVE  /\ pc'[q] \in Asking =>
                             prompt'[q] = 0 /\ \A k \in written' : k.by # q
                        /\ pc'[q] \in Prompted => prompt'[q] # 0
                        /\ pc'[q] \in Prompted =>
                             \A k \in written' :
                                 k.by = q /\ k.role = "user"
                                     => k.id = prompt'[q]
                        /\ pc'[q] \in Asking => todo'[q] = {}
                        /\ \A k \in todo'[q] : /\ k.role = "assistant"
                                               /\ k.chat = target'[q]
                                               /\ prompt'[q] < k.id
      BY DEF Asked, Marked
    <2>1. CASE q = r
      BY <1>2, <1>3, <1>4, <2>1 DEF TypeInv, TypeOK, IndInv, Asked, Marked,
         Asking, Prompted
    <2>2. CASE q # r
      BY <1>2, <1>3, <2>2 DEF TypeInv, TypeOK, IndInv, Asked, Marked
    <2> QED
      BY <2>1, <2>2
  <1>6. Access'
    BY DEF TypeInv, TypeOK, IndInv, Access, SavePrompt, InsertRow, Goto,
           chatVars, callVars, Prompted, StreamPcs
  <1>7. Answering'
    BY DEF TypeInv, TypeOK, StoreTypeOK, IndInv, Answering, SavePrompt,
           InsertRow, Goto, answerVars, faultVars, replyVars, Answers, Asking,
           Prompted
  <1>8. Reading'
    BY DEF TypeInv, TypeOK, IndInv, Reading, SavePrompt, Goto, callVars, Asking
  <1> QED
    BY <1>1, <1>5, <1>6, <1>7, <1>8 DEF IndInv

(* A regenerate takes over a prompt and marks the answers newer than it.   *)
LEMMA ScanHistoryInd ==
    ASSUME TypeInv, TypeInv', IndInv, NEW r \in Requests, ScanHistory(r)
    PROVE  IndInv'
  <1> PICK p \in LastUserMessage(LastMessages(target[r])) :
             /\ prompt' = [prompt EXCEPT ![r] = p.id]
             /\ todo' = [todo EXCEPT
                           ![r] = StaleAnswers(LastMessages(target[r]), p)]
    BY DEF ScanHistory
  <1>1. /\ pc[r] = "scanning"
        /\ pc' = [pc EXCEPT ![r] = "dropping"]
        /\ UNCHANGED <<storeVars, callVars, answerVars, replyVars, faultVars>>
    BY DEF ScanHistory, Goto
  <1>2. p \in rows /\ p.id \in Nat /\ p.id > 0
    BY QueriesReturnRows DEF TypeInv, TypeOK, StoreTypeOK, Row, IndInv, Ledger
  <1>3. \A m \in StaleAnswers(LastMessages(target[r]), p) :
            m.role = "assistant" /\ m.chat = target[r] /\ p.id < m.id
    BY QueriesReturnRows, <1>2
       DEF StaleAnswers, LastMessages, RowsOf, TypeInv, TypeOK, StoreTypeOK, Row
  <1>4. Ledger'
    BY <1>1 DEF IndInv, Ledger, storeVars, TypeInv, TypeOK, StoreTypeOK, Row
  <1>5. Access'
    BY <1>1 DEF TypeInv, TypeOK, IndInv, Access, storeVars, callVars, Prompted
  <1>6. Asked' /\ Marked'
    <2> SUFFICES ASSUME NEW q \in Requests
                 PROVE  /\ pc'[q] \in Asking =>
                             prompt'[q] = 0 /\ \A k \in written' : k.by # q
                        /\ pc'[q] \in Prompted => prompt'[q] # 0
                        /\ pc'[q] \in Prompted =>
                             \A k \in written' :
                                 k.by = q /\ k.role = "user"
                                     => k.id = prompt'[q]
                        /\ pc'[q] \in Asking => todo'[q] = {}
                        /\ \A k \in todo'[q] : /\ k.role = "assistant"
                                               /\ k.chat = target'[q]
                                               /\ prompt'[q] < k.id
      BY DEF Asked, Marked
    <2>1. CASE q = r
      BY <1>1, <1>2, <1>3, <2>1 DEF TypeInv, TypeOK, IndInv, Asked, Asking,
         Prompted, StreamPcs, storeVars, callVars
    <2>2. CASE q # r
      BY <1>1, <2>2 DEF TypeInv, TypeOK, IndInv, Asked, Marked, storeVars,
         callVars
    <2> QED
      BY <2>1, <2>2
  <1>7. Answering'
    BY <1>1 DEF TypeInv, TypeOK, IndInv, Answering, storeVars, answerVars,
       replyVars, faultVars, Answers, Asking
  <1>8. Reading'
    BY DEF TypeInv, TypeOK, IndInv, Reading, ScanHistory, Goto, callVars, Asking
  <1> QED
    BY <1>4, <1>5, <1>6, <1>7, <1>8 DEF IndInv

(* What the four steps that write an answer row have in common.            *)
WritesAnswer(r) ==
    /\ pc[r] \in {"saving", "persisting", "salvaging"}
    /\ text[r] > 0
    /\ InsertRow(target[r], "assistant", r, text[r])
    /\ pc'[r] = "salvaging" => lost'[r]
    /\ \/ \E o \in {"answered", "failed", "done", "cut", "interrupted"} :
             EndWith(r, o)
       \/ Goto(r, "salvaging") /\ pc[r] = "persisting" /\ UNCHANGED replyVars
    /\ lost' \in {lost, [lost EXCEPT ![r] = TRUE]}
    /\ UNCHANGED <<callVars, planVars, answerVars, aborted, refused>>

(* A prompt whose insert is not acknowledged.                               *)
LEMMA SavePromptUnackedInd ==
    ASSUME TypeInv, TypeInv', IndInv, NEW r \in Requests, SavePromptUnacked(r)
    PROVE  IndInv'
  <1>1. Ledger'
    BY InsertRowLedger DEF SavePromptUnacked, Goto, EndWith, Roles, TypeInv,
       TypeOK, IndInv
  <1> USE DEF TypeInv, TypeOK, StoreTypeOK, Addressed, IndInv, Access, Asked,
              Marked, Answering, Reading, storeVars, requestData, callVars,
              planVars, answerVars, faultVars, replyVars, Goto, EndWith,
              Forward, InsertRow, chatVars, Asking, Prompted, Pcs, StreamPcs,
              Answers, Roles, DoneForwarded
  <1> USE DEF SavePromptUnacked
  <1>2. Access'
    OBVIOUS
  <1>3. Asked'
    OBVIOUS
  <1>4. Marked'
    OBVIOUS
  <1>5. Answering'
    OBVIOUS
  <1>6. Reading'
    OBVIOUS
  <1> QED
    BY <1>1, <1>2, <1>3, <1>4, <1>5, <1>6

(* The four steps that write an answer row.                                *)
LEMMA AnswerSteps ==
    ASSUME TypeInv, NEW r \in Requests, IndInv,
           \/ SaveAnswer(r) \/ PersistAnswer(r)
           \/ PersistUnacked(r) \/ Salvage(r)
    PROVE  WritesAnswer(r)
  BY DEF WritesAnswer, SaveAnswer, PersistAnswer, PersistUnacked, Salvage,
         DoneForwarded, EndWith, Goto, requestData, callVars, planVars,
         answerVars, faultVars, TypeInv, TypeOK, IndInv, Answering

(* An answer row is written.                                               *)
LEMMA WritesAnswerInd ==
    ASSUME TypeInv, TypeInv', IndInv, NEW r \in Requests,
           WritesAnswer(r)
    PROVE  IndInv'
  <1>1. Ledger'
    BY InsertRowLedger DEF WritesAnswer, Goto, EndWith, Roles, TypeInv, TypeOK,
       IndInv
  <1> USE DEF TypeInv, TypeOK, StoreTypeOK, Addressed, IndInv, Access, Asked,
              Marked, Answering, Reading, storeVars, requestData, callVars,
              planVars, answerVars, faultVars, replyVars, Goto, EndWith,
              Forward, InsertRow, chatVars, Asking, Prompted, Pcs, StreamPcs,
              Answers, Roles, DoneForwarded
  <1> USE DEF WritesAnswer
  <1>2. Access'
    OBVIOUS
  <1>3. Asked'
    OBVIOUS
  <1>4. Marked'
    OBVIOUS
  <1>5. Answering'
    OBVIOUS
  <1>6. Reading'
    OBVIOUS
  <1> QED
    BY <1>1, <1>2, <1>3, <1>4, <1>5, <1>6

(* ensureOwnership establishes Access.                                     *)
LEMMA AdmitInd ==
    ASSUME TypeInv, TypeInv', IndInv, NEW r \in Requests, Admit(r)
    PROVE  IndInv'
  <1>1. Ledger'
    BY DEF Admit, Goto, storeVars, TypeInv, TypeOK, StoreTypeOK, Row, IndInv,
         Ledger
  <1> USE DEF TypeInv, TypeOK, StoreTypeOK, Addressed, IndInv, Access, Asked,
              Marked, Answering, Reading, storeVars, requestData, callVars,
              planVars, answerVars, faultVars, replyVars, Goto, EndWith,
              Forward, InsertRow, chatVars, Asking, Prompted, Pcs, StreamPcs,
              Answers, Roles, DoneForwarded
  <1> USE DEF Owns, ChatExists, Admit
  <1>2. Access'
    OBVIOUS
  <1>3. Asked'
    OBVIOUS
  <1>4. Marked'
    OBVIOUS
  <1>5. Answering'
    OBVIOUS
  <1>6. Reading'
    OBVIOUS
  <1> QED
    BY <1>1, <1>2, <1>3, <1>4, <1>5, <1>6

(* An event reaches the pump: Thinking and ToolResult.                     *)
LEMMA ForwardsInd ==
    ASSUME TypeInv, TypeInv', IndInv, NEW r \in Requests,
           pc[r] \in {"opening", "tool"},
           Forward(r, "streaming"), UNCHANGED <<storeVars, requestData>>
    PROVE  IndInv'
  <1>1. Ledger'
    BY DEF Forward, Goto, EndWith, storeVars, TypeInv, TypeOK, StoreTypeOK, Row,
         IndInv, Ledger
  <1> USE DEF TypeInv, TypeOK, StoreTypeOK, Addressed, IndInv, Access, Asked,
              Marked, Answering, Reading, storeVars, requestData, callVars,
              planVars, answerVars, faultVars, replyVars, Goto, EndWith,
              Forward, InsertRow, chatVars, Asking, Prompted, Pcs, StreamPcs,
              Answers, Roles, DoneForwarded
  <1> USE DEF Forward
  <1>2. Access'
    OBVIOUS
  <1>3. Asked'
    OBVIOUS
  <1>4. Marked'
    OBVIOUS
  <1>5. Answering'
    OBVIOUS
  <1>6. Reading'
    OBVIOUS
  <1> QED
    BY <1>1, <1>2, <1>3, <1>4, <1>5, <1>6

(* The provider fails with or without text to save.                         *)
LEMMA ProviderFailsInd ==
    ASSUME TypeInv, TypeInv', IndInv, NEW r \in Requests, ProviderFails(r)
    PROVE  IndInv'
  <1>1. Ledger'
    BY DEF ProviderFails, Goto, EndWith, storeVars, TypeInv, TypeOK,
         StoreTypeOK, Row, IndInv, Ledger
  <1> USE DEF TypeInv, TypeOK, StoreTypeOK, Addressed, IndInv, Access, Asked,
              Marked, Answering, Reading, storeVars, requestData, callVars,
              planVars, answerVars, faultVars, replyVars, Goto, EndWith,
              Forward, InsertRow, chatVars, Asking, Prompted, Pcs, StreamPcs,
              Answers, Roles, DoneForwarded
  <1> USE DEF ProviderFails
  <1>2. Access'
    OBVIOUS
  <1>3. Asked'
    OBVIOUS
  <1>4. Marked'
    OBVIOUS
  <1>5. Answering'
    OBVIOUS
  <1>6. Reading'
    OBVIOUS
  <1> QED
    BY <1>1, <1>2, <1>3, <1>4, <1>5, <1>6

(* The steps of the two use cases.                                         *)
LEMMA UseCaseStepInd ==
    ASSUME TypeInv, TypeInv', IndInv, NEW r \in Requests,
           UseCaseStep(r)
    PROVE  IndInv'
  <1>1. CASE Admit(r)
    BY <1>1, AdmitInd
  <1>2. CASE SavePrompt(r)
    BY <1>2, SavePromptInd
  <1>3. CASE SavePromptUnacked(r)
    BY <1>3, SavePromptUnackedInd
  <1>4. CASE ScanHistory(r)
    BY <1>4, ScanHistoryInd
  <1> USE DEF TypeInv, TypeOK, StoreTypeOK, Addressed, IndInv, Ledger, Access,
              Asked, Marked, Answering, Reading, storeVars, requestData,
              callVars, planVars, answerVars, faultVars, replyVars, Goto,
              EndWith, Asking, Prompted, Pcs, StreamPcs, Answers
  <1>5. CASE Reject(r)
    BY <1>5 DEF Reject
  <1>6. CASE BuildHistory(r)
    BY <1>6, QueriesReturnRows DEF BuildHistory
  <1>7. CASE NothingToRegenerate(r)
    BY <1>7 DEF NothingToRegenerate
  <1>8. CASE DropStale(r)
    BY <1>8, QueriesReturnRows DEF DropStale, DeleteRow, chatVars
  <1>9. CASE DropStaleUnacked(r)
    BY <1>9, QueriesReturnRows DEF DropStaleUnacked, DeleteRow, chatVars
  <1>10. CASE DropMissing(r)
    BY <1>10 DEF DropMissing
  <1>11. CASE DropsDone(r)
    BY <1>11 DEF DropsDone
  <1>12. CASE DatabaseFails(r)
    BY <1>12 DEF DatabaseFails
  <1> QED
    BY <1>1, <1>2, <1>3, <1>4, <1>5, <1>6, <1>7, <1>8, <1>9, <1>10, <1>11,
       <1>12 DEF UseCaseStep

(* The steps of the JSON strategy.                                         *)
LEMMA JsonStepInd ==
    ASSUME TypeInv, TypeInv', IndInv, NEW r \in Requests,
           JsonStep(r)
    PROVE  IndInv'
  <1>1. CASE SaveAnswer(r)
    BY <1>1, AnswerSteps, WritesAnswerInd
  <1> USE DEF TypeInv, TypeOK, StoreTypeOK, Addressed, IndInv, Ledger, Access,
              Asked, Marked, Answering, Reading, storeVars, requestData,
              callVars, planVars, answerVars, faultVars, replyVars, Goto,
              EndWith, Asking, Prompted, Pcs, StreamPcs, Answers
  <1>2. CASE BuildJson(r)
    BY <1>2 DEF BuildJson
  <1>3. CASE AiCompletes(r)
    BY <1>3, BoundsAssumption DEF AiCompletes
  <1>4. CASE AiFails(r)
    BY <1>4 DEF AiFails
  <1>5. CASE SkipBlankAnswer(r)
    BY <1>5 DEF SkipBlankAnswer
  <1> QED
    BY <1>1, <1>2, <1>3, <1>4, <1>5 DEF JsonStep

(* The steps of the streaming strategy and the pump.                       *)
LEMMA StreamStepInd ==
    ASSUME TypeInv, TypeInv', IndInv, NEW r \in Requests,
           StreamStep(r)
    PROVE  IndInv'
  <1>1. CASE Thinking(r)
    BY <1>1, ForwardsInd DEF Thinking
  <1>2. CASE ToolResult(r)
    BY <1>2, ForwardsInd DEF ToolResult
  <1>3. CASE ProviderFails(r)
    BY <1>3, ProviderFailsInd
  <1>4. CASE PersistAnswer(r)
    BY <1>4, AnswerSteps, WritesAnswerInd
  <1>5. CASE PersistUnacked(r)
    BY <1>5, AnswerSteps, WritesAnswerInd
  <1>6. CASE Salvage(r)
    BY <1>6, AnswerSteps, WritesAnswerInd
  <1> USE DEF TypeInv, TypeOK, StoreTypeOK, Addressed, IndInv, Ledger, Access,
              Asked, Marked, Answering, Reading, storeVars, requestData,
              callVars, planVars, answerVars, faultVars, replyVars, Goto,
              EndWith, Asking, Prompted, Pcs, StreamPcs, Answers
  <1>7. CASE OpenStream(r)
    BY <1>7 DEF OpenStream
  <1>8. CASE Delta(r)
    BY <1>8, BoundsAssumption DEF Delta
  <1>9. CASE CallTool(r)
    BY <1>9 DEF CallTool
  <1>10. CASE ProviderDone(r)
    BY <1>10 DEF ProviderDone
  <1>11. CASE PersistBlank(r)
    BY <1>11 DEF PersistBlank, DoneForwarded
  <1>12. CASE PersistRefused(r)
    BY <1>12 DEF PersistRefused
  <1>13. CASE SalvageRefused(r)
    BY <1>13 DEF SalvageRefused
  <1> QED
    BY <1>1, <1>2, <1>3, <1>4, <1>5, <1>6, <1>7, <1>8, <1>9, <1>10, <1>11,
       <1>12, <1>13 DEF StreamStep

(* A disconnect and a crash.                                               *)
LEMMA FaultInd ==
    ASSUME TypeInv, TypeInv', IndInv, NEW r \in Requests,
           Disconnect(r) \/ Crash(r)
    PROVE  IndInv'
  <1> USE DEF TypeInv, TypeOK, StoreTypeOK, Addressed, IndInv, Ledger, Access,
              Asked, Marked, Answering, Reading, storeVars, requestData,
              callVars, planVars, answerVars, faultVars, replyVars, Goto,
              EndWith, Asking, Prompted, Pcs, StreamPcs, Answers
  <1>1. CASE Disconnect(r)
    BY <1>1 DEF Disconnect, Active
  <1>2. CASE Crash(r)
    BY <1>2 DEF Crash, Active
  <1> QED
    BY <1>1, <1>2

(* A request starts: nothing was written in its name.                      *)
LEMMA StartInd ==
    ASSUME TypeInv, TypeInv', IndInv, NEW r \in Requests, NEW u \in Users,
           NEW c \in Chats, NEW k \in Kinds, Start(r, u, c, k)
    PROVE  IndInv'
  BY DEF TypeInv, TypeOK, StoreTypeOK, Addressed, IndInv, Ledger, Access, Asked,
         Marked, Answering, Reading, storeVars, planVars, answerVars, faultVars,
         replyVars, Goto, Asking, Prompted, Pcs, StreamPcs, Answers, Start

(* The store's own steps touch no request, and a chat's owner is for good. *)
LEMMA StoreStepInd ==
    ASSUME TypeInv, TypeInv', IndInv, StoreNext, UNCHANGED requestVars
    PROVE  IndInv'
  <1>1. /\ rows' \subseteq rows
        /\ UNCHANGED <<written, nextId>>
        /\ \A c \in Chats : owner[c] # None => owner'[c] = owner[c]
    BY DEF StoreNext, CreateChat, DeleteChat, RemoveUser, TypeInv, TypeOK,
           StoreTypeOK
  <1> USE DEF requestVars, requestData, callVars, planVars, answerVars,
              faultVars, replyVars
  <1>2. Ledger'
    BY <1>1 DEF IndInv, Ledger
  <1>3. Access'
    BY <1>1, NoneAssumption DEF IndInv, Access, TypeInv, TypeOK, Addressed,
       Prompted, StreamPcs
  <1>4. Asked'
    BY <1>1 DEF IndInv, Asked
  <1>5. Marked'
    BY DEF IndInv, Marked
  <1>6. Answering'
    BY <1>1 DEF IndInv, Answering, Answers
  <1>7. Reading'
    BY DEF IndInv, Reading
  <1> QED
    BY <1>2, <1>3, <1>4, <1>5, <1>6, <1>7 DEF IndInv

(* A stuttering step changes no variable an invariant mentions.            *)
LEMMA StutterInd == IndInv /\ UNCHANGED vars => IndInv'
  BY DEF IndInv, Ledger, Access, Asked, Marked, Answering, Reading, Answers,
         vars, storeVars, requestVars, requestData, callVars, planVars,
         answerVars, faultVars, replyVars

(***************************************************************************)
(* The inductive invariant of the completion protocol, on which the        *)
(* properties below rest.                                                  *)
(***************************************************************************)
THEOREM Invariant == Spec => [](TypeInv /\ IndInv)
  <1>1. Init => IndInv
    BY BoundsAssumption
       DEF Init, StoreInit, IndInv, Ledger, Access, Asked, Marked, Answering,
           Reading, Answers, Asking, Prompted, StreamPcs
  <1>2. TypeInv /\ TypeInv' /\ IndInv /\ [Next]_vars => IndInv'
    BY StoreStepInd, StartInd, UseCaseStepInd, JsonStepInd, StreamStepInd,
       FaultInd, StutterInd DEF Next, ServerStep
  <1> QED
    BY <1>1, <1>2, TypeInvariant, PTL DEF Spec

-----------------------------------------------------------------------------
(* What a response promises its client.                                    *)

(* An inserted answer row is its request's newest answer and nobody else's. *)
LEMMA AnswerInserted ==
    ASSUME NEW r \in Requests, NEW n \in Nat,
           InsertRow(target[r], "assistant", r, n)
    PROVE  /\ \E m : m.text = n /\ Answers(r)' = Answers(r) \cup {m}
           /\ \A q \in Requests : q # r => Answers(q)' = Answers(q)
           /\ \A k \in written' : k.by = r \/ k \in written
  <1> DEFINE m == [id |-> nextId, chat |-> target[r], role |-> "assistant",
                   by |-> r, text |-> n]
  <1>1. written' = written \cup {m}
    BY DEF InsertRow
  <1>2. m.by = r /\ m.role = "assistant" /\ m.text = n
    OBVIOUS
  <1> HIDE DEF m
  <1> QED
    BY <1>1, <1>2 DEF Answers

-----------------------------------------------------------------------------
(* The five properties of a response, kept together because the steps that *)
(* end one settle them all.                                                *)
ReplyInv ==
    /\ DoneIsDurable
    /\ StreamedTextIsKept
    /\ AnsweredOnce
    /\ RejectedLeavesNoTrace
    /\ HeartbeatStops

(* A step that writes an answer row.                                       *)
LEMMA WritesAnswerReply ==
    ASSUME TypeInv, TypeInv', IndInv, ReplyInv, NEW r \in Requests,
           WritesAnswer(r)
    PROVE  ReplyInv'
  <1>1. InsertRow(target[r], "assistant", r, text[r]) /\ text[r] \in Nat
    BY DEF WritesAnswer, TypeInv, TypeOK
  <1>2. PICK m : m.text = text[r] /\ Answers(r)' = Answers(r) \cup {m}
    BY <1>1, AnswerInserted
  <1>3. \A q \in Requests : q # r => Answers(q)' = Answers(q)
    BY <1>1, AnswerInserted
  <1>4. \A k \in written' : k.by = r \/ k \in written
    BY <1>1, AnswerInserted
  <1>5. /\ UNCHANGED <<answerVars, aborted, refused>>
        /\ \A q \in Requests :
              q # r => /\ outcome'[q] = outcome[q]
                       /\ open'[q] => open[q] /\ pc'[q] = pc[q]
        /\ outcome'[r] \notin {"notFound", "noUserMessage"}
        /\ open'[r] => pc'[r] = "salvaging"
    <2>1. UNCHANGED <<answerVars, aborted, refused>>
      BY DEF WritesAnswer
    <2>2. CASE \E o \in {"answered", "failed", "done", "cut", "interrupted"} :
                 EndWith(r, o)
      BY <2>1, <2>2 DEF EndWith, Goto, TypeInv, TypeOK
    <2>3. CASE /\ Goto(r, "salvaging")
               /\ pc[r] = "persisting"
               /\ UNCHANGED replyVars
      BY <2>1, <2>3 DEF Goto, replyVars, TypeInv, TypeOK, IndInv, Answering
    <2> QED
      BY <2>2, <2>3 DEF WritesAnswer
  <1>6. DoneIsDurable'
    BY <1>2, <1>3, <1>5 DEF ReplyInv, DoneIsDurable, answerVars
  <1>7. StreamedTextIsKept'
    BY <1>2, <1>3, <1>5 DEF ReplyInv, StreamedTextIsKept, BrokenOff, answerVars
  <1>8. AnsweredOnce'
    BY <1>2, <1>3 DEF ReplyInv, AnsweredOnce, IndInv, Answering, WritesAnswer,
       TypeInv, TypeOK
  <1>9. RejectedLeavesNoTrace'
    BY <1>4, <1>5 DEF ReplyInv, RejectedLeavesNoTrace
  <1>10. HeartbeatStops'
    BY <1>5 DEF ReplyInv, HeartbeatStops, StreamPcs
  <1> QED
    BY <1>6, <1>7, <1>8, <1>9, <1>10 DEF ReplyInv

(* An event reaches the pump: Thinking and ToolResult.                     *)
LEMMA ForwardsReply ==
    ASSUME TypeInv, TypeInv', IndInv, ReplyInv, NEW r \in Requests,
           pc[r] \in {"opening", "tool"}, Forward(r, "streaming"),
           UNCHANGED <<storeVars, requestData>>
    PROVE  ReplyInv'
  <1> USE DEF TypeInv, TypeOK, requestData, callVars, storeVars, planVars,
              answerVars, faultVars, replyVars, Goto, EndWith, Forward, Answers
  <1>1. DoneIsDurable'
    BY DEF ReplyInv, DoneIsDurable
  <1>2. StreamedTextIsKept'
    BY DEF ReplyInv, StreamedTextIsKept, BrokenOff, IndInv, Answering
  <1>3. AnsweredOnce'
    BY DEF ReplyInv, AnsweredOnce
  <1>4. RejectedLeavesNoTrace'
    BY DEF ReplyInv, RejectedLeavesNoTrace
  <1>5. HeartbeatStops'
    BY DEF ReplyInv, HeartbeatStops, StreamPcs
  <1> QED
    BY <1>1, <1>2, <1>3, <1>4, <1>5 DEF ReplyInv

(* The steps of the two use cases.                                         *)
LEMMA UseCaseStepReply ==
    ASSUME TypeInv, TypeInv', IndInv, ReplyInv, NEW r \in Requests,
           UseCaseStep(r)
    PROVE  ReplyInv'
  <1> USE DEF TypeInv, TypeOK, StoreTypeOK, IndInv, Asked, Answering, ReplyInv,
              DoneIsDurable, StreamedTextIsKept, AnsweredOnce,
              RejectedLeavesNoTrace, HeartbeatStops, storeVars, requestData,
              callVars, planVars, answerVars, faultVars, replyVars, Goto,
              EndWith, Asking, StreamPcs, Answers, BrokenOff,
              InsertRow, DeleteRow, chatVars
  <1>1. CASE Admit(r)
    BY <1>1 DEF Admit
  <1>2. CASE Reject(r)
    BY <1>2 DEF Reject
  <1>3. CASE SavePrompt(r)
    BY <1>3 DEF SavePrompt
  <1>4. CASE SavePromptUnacked(r)
    BY <1>4 DEF SavePromptUnacked
  <1>5. CASE BuildHistory(r)
    BY <1>5 DEF BuildHistory
  <1>6. CASE ScanHistory(r)
    BY <1>6 DEF ScanHistory
  <1>7. CASE NothingToRegenerate(r)
    BY <1>7 DEF NothingToRegenerate
  <1>8. CASE DropStale(r)
    BY <1>8 DEF DropStale
  <1>9. CASE DropStaleUnacked(r)
    BY <1>9 DEF DropStaleUnacked
  <1>10. CASE DropMissing(r)
    BY <1>10 DEF DropMissing
  <1>11. CASE DropsDone(r)
    BY <1>11 DEF DropsDone
  <1>12. CASE DatabaseFails(r)
    BY <1>12 DEF DatabaseFails
  <1> QED
    BY <1>1, <1>2, <1>3, <1>4, <1>5, <1>6, <1>7, <1>8, <1>9, <1>10, <1>11,
       <1>12
       DEF UseCaseStep

(* The steps of the JSON strategy.                                         *)
LEMMA JsonStepReply ==
    ASSUME TypeInv, TypeInv', IndInv, ReplyInv, NEW r \in Requests,
           JsonStep(r)
    PROVE  ReplyInv'
  <1>1. CASE SaveAnswer(r)
    BY <1>1, AnswerSteps, WritesAnswerReply
  <1> USE DEF TypeInv, TypeOK, StoreTypeOK, IndInv, Asked, Answering, ReplyInv,
              DoneIsDurable, StreamedTextIsKept, AnsweredOnce,
              RejectedLeavesNoTrace, HeartbeatStops, storeVars, requestData,
              callVars, planVars, answerVars, faultVars, replyVars, Goto,
              EndWith, Asking, StreamPcs, Answers, BrokenOff
  <1>2. CASE BuildJson(r)
    BY <1>2 DEF BuildJson
  <1>3. CASE AiCompletes(r)
    BY <1>3, SMTT(20) DEF AiCompletes
  <1>4. CASE AiFails(r)
    BY <1>4 DEF AiFails
  <1>5. CASE SkipBlankAnswer(r)
    BY <1>5 DEF SkipBlankAnswer
  <1> QED
    BY <1>1, <1>2, <1>3, <1>4, <1>5
       DEF JsonStep

(* The steps of the streaming strategy and the pump.                       *)
LEMMA StreamStepReply ==
    ASSUME TypeInv, TypeInv', IndInv, ReplyInv, NEW r \in Requests,
           StreamStep(r)
    PROVE  ReplyInv'
  <1>1. CASE PersistAnswer(r) \/ PersistUnacked(r) \/ Salvage(r)
    BY <1>1, AnswerSteps, WritesAnswerReply
  <1>2. CASE Thinking(r) \/ ToolResult(r)
    BY <1>2, ForwardsReply DEF Thinking, ToolResult
  <1> USE DEF TypeInv, TypeOK, StoreTypeOK, IndInv, Asked, Answering, ReplyInv,
              DoneIsDurable, StreamedTextIsKept, AnsweredOnce,
              RejectedLeavesNoTrace, HeartbeatStops, storeVars, requestData,
              callVars, planVars, answerVars, faultVars, replyVars, Goto,
              EndWith, Asking, StreamPcs, Answers, BrokenOff, DoneForwarded
  <1>3. CASE OpenStream(r)
    BY <1>3 DEF OpenStream
  <1>4. CASE Delta(r)
    BY <1>4, SMTT(20) DEF Delta
  <1>5. CASE CallTool(r)
    BY <1>5 DEF CallTool
  <1>6. CASE ProviderDone(r)
    BY <1>6 DEF ProviderDone
  <1>7. CASE ProviderFails(r)
    BY <1>7 DEF ProviderFails
  <1>8. CASE PersistBlank(r)
    BY <1>8 DEF PersistBlank
  <1>9. CASE PersistRefused(r)
    BY <1>9 DEF PersistRefused
  <1>10. CASE SalvageRefused(r)
    BY <1>10 DEF SalvageRefused
  <1> QED
    BY <1>1, <1>2, <1>3, <1>4, <1>5, <1>6, <1>7, <1>8, <1>9, <1>10
       DEF StreamStep

(* A disconnect and a crash.                                               *)
LEMMA FaultReply ==
    ASSUME TypeInv, TypeInv', IndInv, ReplyInv, NEW r \in Requests,
           Disconnect(r) \/ Crash(r)
    PROVE  ReplyInv'
  <1> USE DEF TypeInv, TypeOK, StoreTypeOK, IndInv, Asked, Answering, ReplyInv,
              DoneIsDurable, StreamedTextIsKept, AnsweredOnce,
              RejectedLeavesNoTrace, HeartbeatStops, storeVars, requestData,
              callVars, planVars, answerVars, faultVars, replyVars, Goto,
              EndWith, Asking, StreamPcs, Answers, BrokenOff, Active
  <1>1. CASE Disconnect(r)
    BY <1>1 DEF Disconnect
  <1>2. CASE Crash(r)
    BY <1>2 DEF Crash
  <1> QED
    BY <1>1, <1>2

(* A request that starts, a change of the store and a stuttering step touch *)
(* neither a response nor an answer row.                                   *)
LEMMA OtherReply ==
    ASSUME TypeInv, IndInv, ReplyInv,
           \/ \E r \in Requests, u \in Users, c \in Chats, k \in Kinds :
                 Start(r, u, c, k)
           \/ StoreNext /\ UNCHANGED requestVars
           \/ UNCHANGED vars
    PROVE  ReplyInv'
  <1>1. /\ UNCHANGED <<written, answerVars, aborted, replyVars, faultVars>>
        /\ \A q \in Requests : pc[q] # "idle" => pc'[q] = pc[q]
    BY DEF Start, Goto, StoreNext, CreateChat, DeleteChat, RemoveUser,
           storeVars, vars, requestVars, requestData, TypeInv, TypeOK
  <1> QED
    BY <1>1 DEF ReplyInv, DoneIsDurable, StreamedTextIsKept, AnsweredOnce,
       RejectedLeavesNoTrace, HeartbeatStops, Answers, BrokenOff, answerVars,
       replyVars, faultVars, StreamPcs

(* All five hold of every behaviour.                                       *)
LEMMA ReplyInvariant == Spec => []ReplyInv
  <1>1. Init => ReplyInv
    BY DEF Init, StoreInit, ReplyInv, DoneIsDurable, StreamedTextIsKept,
           AnsweredOnce, RejectedLeavesNoTrace, HeartbeatStops, Answers,
           BrokenOff
  <1>2. TypeInv /\ TypeInv' /\ IndInv /\ ReplyInv /\ [Next]_vars => ReplyInv'
    BY UseCaseStepReply, JsonStepReply, StreamStepReply, FaultReply,
       OtherReply DEF Next, ServerStep
  <1> QED
    BY <1>1, <1>2, Invariant, PTL DEF Spec

(***************************************************************************)
(* A response that claims to be complete has its whole answer written,     *)
(* whichever strategy served it and whatever else ran meanwhile.           *)
(***************************************************************************)
THEOREM DoneDurable == Spec => []DoneIsDurable
  <1>1. ReplyInv => DoneIsDurable
    BY DEF ReplyInv
  <1> QED
    BY <1>1, ReplyInvariant, PTL

(***************************************************************************)
(* Text streamed before the stream broke is written, unless the database   *)
(* refused it or the client left during a tool call.                       *)
(***************************************************************************)
THEOREM StreamedKept == Spec => []StreamedTextIsKept
  <1>1. ReplyInv => StreamedTextIsKept
    BY DEF ReplyInv
  <1> QED
    BY <1>1, ReplyInvariant, PTL

(***************************************************************************)
(* One request writes two answer rows only when the first commit was       *)
(* reported to it as a failure.                                            *)
(***************************************************************************)
THEOREM AnsweredOnceOnly == Spec => []AnsweredOnce
  <1>1. ReplyInv => AnsweredOnce
    BY DEF ReplyInv
  <1> QED
    BY <1>1, ReplyInvariant, PTL

(***************************************************************************)
(* A 404 and a 422 come before any write.                                  *)
(***************************************************************************)
THEOREM RejectedTraceless == Spec => []RejectedLeavesNoTrace
  <1>1. ReplyInv => RejectedLeavesNoTrace
    BY DEF ReplyInv
  <1> QED
    BY <1>1, ReplyInvariant, PTL

(***************************************************************************)
(* No way out of the pump leaves the heartbeat timer running.              *)
(***************************************************************************)
THEOREM HeartbeatStopped == Spec => []HeartbeatStops
  <1>1. ReplyInv => HeartbeatStops
    BY DEF ReplyInv
  <1> QED
    BY <1>1, ReplyInvariant, PTL

-----------------------------------------------------------------------------
(* The five properties of the tables, kept together because the prompt an  *)
(* answer needs is the one its request still has.                          *)
ThreadInv ==
    /\ TenantsIsolated
    /\ NoOrphanRows
    /\ PromptSurvives
    /\ EveryAnswerHasItsPrompt
    /\ ContextPrecedesPrompt

(* Most steps of a request leave the tables and its plan alone; the rest    *)
(* are named here.                                                         *)
LEMMA PlanSteps ==
    ASSUME TypeInv, IndInv, NEW r \in Requests,
           ServerStep(r) \/ Disconnect(r) \/ Crash(r)
    PROVE  /\ UNCHANGED callVars
           /\ \/ UNCHANGED <<storeVars, planVars>>
              \/ SavePrompt(r) \/ SavePromptUnacked(r)
              \/ BuildHistory(r) \/ ScanHistory(r)
              \/ DropStale(r) \/ DropStaleUnacked(r)
              \/ WritesAnswer(r) /\ UNCHANGED planVars
  <1> USE DEF requestData
  <1>1. CASE Disconnect(r) \/ Crash(r)
    BY <1>1 DEF Disconnect, Crash
  <1>2. CASE UseCaseStep(r)
    BY <1>2 DEF UseCaseStep, Admit, Reject, SavePrompt, SavePromptUnacked,
       BuildHistory, ScanHistory, NothingToRegenerate, DropStale,
       DropStaleUnacked, DropMissing, DropsDone, DatabaseFails
  <1>3. CASE \/ SaveAnswer(r) \/ PersistAnswer(r)
             \/ PersistUnacked(r) \/ Salvage(r)
    BY <1>3, AnswerSteps DEF WritesAnswer, SaveAnswer, PersistAnswer,
       PersistUnacked, Salvage
  <1>4. CASE JsonStep(r) /\ ~SaveAnswer(r)
    BY <1>4 DEF JsonStep, BuildJson, AiCompletes, AiFails, SkipBlankAnswer
  <1>5. CASE /\ StreamStep(r)
             /\ ~(PersistAnswer(r) \/ PersistUnacked(r) \/ Salvage(r))
    BY <1>5 DEF StreamStep, OpenStream, Thinking, Delta, CallTool, ToolResult,
       ProviderDone, ProviderFails, PersistBlank, PersistRefused,
       SalvageRefused
  <1> QED
    BY <1>1, <1>2, <1>3, <1>4, <1>5 DEF ServerStep

(* A stale answer goes, whether or not its request learns of it.           *)
LEMMA DropThread ==
    ASSUME TypeInv, TypeInv', IndInv, ThreadInv, NEW r \in Requests,
           DropStale(r) \/ DropStaleUnacked(r)
    PROVE  ThreadInv'
  <1>1. PICK m \in todo[r] : rows' = rows \ {m}
    BY QueriesReturnRows DEF DropStale, DropStaleUnacked, DeleteRow
  <1>2. m.role = "assistant"
    BY DEF IndInv, Marked
  <1>3. UNCHANGED <<chatVars, written, callVars, prompt, history>>
    BY DEF DropStale, DropStaleUnacked, DeleteRow, requestData, planVars
  <1> USE DEF ThreadInv, chatVars, callVars
  <1>4. TenantsIsolated'
    BY <1>3 DEF TenantsIsolated
  <1>5. NoOrphanRows'
    BY <1>1, <1>3 DEF NoOrphanRows, ChatExists
  <1>6. PromptSurvives'
    BY <1>1, <1>2, <1>3 DEF PromptSurvives, AccountGone
  <1>7. EveryAnswerHasItsPrompt'
    BY <1>1, <1>2, <1>3 DEF EveryAnswerHasItsPrompt
  <1>8. ContextPrecedesPrompt'
    BY <1>3 DEF ContextPrecedesPrompt
  <1> QED
    BY <1>4, <1>5, <1>6, <1>7, <1>8

(* A request writes a row of its own in the chat it was admitted to.       *)
LEMMA InsertThread ==
    ASSUME TypeInv, TypeInv', IndInv, ThreadInv, NEW r \in Requests,
           UNCHANGED callVars,
           \/ SavePrompt(r) \/ SavePromptUnacked(r)
           \/ WritesAnswer(r) /\ UNCHANGED planVars
    PROVE  ThreadInv'
  <1>1. PICK role \in Roles, n \in Nat :
             /\ InsertRow(target[r], role, r, n)
             /\ role = "assistant" => WritesAnswer(r)
             /\ \/ prompt' = prompt
                \/ /\ role = "user"
                   /\ pc[r] = "prompting"
                   /\ prompt' = [prompt EXCEPT ![r] = nextId]
    BY DEF SavePrompt, SavePromptUnacked, WritesAnswer, Roles, TypeInv, TypeOK,
           requestData, planVars
  <1> DEFINE m == [id |-> nextId, chat |-> target[r], role |-> role,
                   by |-> r, text |-> n]
  <1>2. /\ rows' = rows \cup {m}
        /\ written' = written \cup {m}
        /\ UNCHANGED chatVars
        /\ ChatExists(target[r])
    BY <1>1 DEF InsertRow
  <1>3. m.id = nextId /\ m.by = r /\ m.chat = target[r] /\ m.role = role
    OBVIOUS
  <1>4. owner[target[r]] = user[r] /\ pc[r] # "idle"
    BY DEF IndInv, Access, SavePrompt, SavePromptUnacked, WritesAnswer,
           Prompted, StreamPcs
  <1>5. UNCHANGED history
    BY DEF SavePrompt, SavePromptUnacked, requestData, planVars
  <1>6. /\ \A k \in written : prompt'[k.by] = prompt[k.by]
        /\ prompt' # prompt => history[r] = {}
    BY <1>1 DEF TypeInv, TypeOK, StoreTypeOK, Row, IndInv, Asked, Reading,
       Asking
  <1>7. \A q \in Requests :
            prompt'[q] # prompt[q] => /\ q = r
                                      /\ prompt'[q] = nextId
                                      /\ role = "user"
    BY <1>1 DEF TypeInv, TypeOK
  <1>8. role = "assistant" => \E p \in rows : /\ p.role = "user"
                                              /\ p.id = prompt[r]
                                              /\ p.chat = target[r]
                                              /\ p.id < nextId
    BY <1>1, <1>2 DEF ThreadInv, PromptSurvives, AccountGone, ChatExists,
       IndInv, Asked, Ledger, WritesAnswer, Prompted, StreamPcs
  <1> HIDE DEF m
  <1> USE DEF ThreadInv, callVars, chatVars
  <1>9. TenantsIsolated'
    BY <1>2, <1>3, <1>4, <1>5 DEF TenantsIsolated
  <1>10. NoOrphanRows'
    BY <1>2, <1>3 DEF NoOrphanRows, ChatExists
  <1>11. PromptSurvives'
    BY <1>2, <1>3, <1>7 DEF PromptSurvives, AccountGone
  <1>12. EveryAnswerHasItsPrompt'
    BY <1>1, <1>2, <1>3, <1>6, <1>8
       DEF EveryAnswerHasItsPrompt, IndInv, Ledger
  <1>13. ContextPrecedesPrompt'
    BY <1>2, <1>3, <1>5, <1>6, <1>7 DEF ContextPrecedesPrompt
  <1> QED
    BY <1>9, <1>10, <1>11, <1>12, <1>13

(* A completion reads its context: all but the newest row it finds.        *)
LEMMA BuildHistoryThread ==
    ASSUME TypeInv, TypeInv', IndInv, ThreadInv, NEW r \in Requests,
           BuildHistory(r)
    PROVE  ThreadInv'
  <1> DEFINE recent == LastMessages(target[r])
  <1>1. /\ pc[r] = "reading"
        /\ history' = [history EXCEPT ![r] = recent \ Newest(recent)]
        /\ UNCHANGED <<storeVars, callVars, prompt>>
    BY DEF BuildHistory
  <1>2. \A m \in recent : m \in rows /\ m \in written /\ m.chat = target[r]
    BY DEF LastMessages, RowsOf, IndInv, Ledger
  <1>3. \A m \in recent \ Newest(recent) : \E k \in recent : k.id > m.id
    BY <1>2 DEF Newest, TypeInv, TypeOK, StoreTypeOK, Row
  <1>4. \A k \in written : k.by = r => k.id = prompt[r]
    BY <1>1 DEF IndInv, Asked, Answering, Answers, Prompted, TypeInv, TypeOK,
       StoreTypeOK, Row, Roles, Asking
  <1>5. kind[r] = "completion" /\ owner[target[r]] = user[r]
    BY <1>1 DEF IndInv, Reading, Access, Prompted
  <1> HIDE DEF recent
  <1> USE DEF ThreadInv, storeVars, callVars
  <1>6. TenantsIsolated'
    BY <1>1, <1>2, <1>5 DEF TenantsIsolated, TypeInv, TypeOK
  <1>7. NoOrphanRows'
    BY <1>1 DEF NoOrphanRows, ChatExists
  <1>8. PromptSurvives'
    BY <1>1 DEF PromptSurvives, AccountGone
  <1>9. EveryAnswerHasItsPrompt'
    BY <1>1 DEF EveryAnswerHasItsPrompt
  <1>10. ContextPrecedesPrompt'
    <2> SUFFICES ASSUME NEW q \in Requests, NEW m \in history'[q],
                        m.id >= prompt[q]
                 PROVE  /\ kind[q] = "completion"
                        /\ \E k \in written : /\ k.chat = target[q]
                                              /\ k.by # q
                                              /\ k.id > m.id
      BY <1>1 DEF ContextPrecedesPrompt
    <2>1. CASE q # r
      BY <1>1, <2>1 DEF ContextPrecedesPrompt, TypeInv, TypeOK
    <2>2. CASE q = r
      <3>1. m \in recent \ Newest(recent)
        BY <1>1, <2>2 DEF TypeInv, TypeOK
      <3>2. PICK k \in recent : k.id > m.id
        BY <1>3, <3>1
      <3>3. m.id \in Nat /\ k.id \in Nat /\ prompt[r] \in Nat
        BY <1>2, <3>1 DEF TypeInv, TypeOK, StoreTypeOK, Row
      <3> QED
        BY <1>2, <1>4, <1>5, <2>2, <3>2, <3>3
    <2> QED
      BY <2>1, <2>2
  <1> QED
    BY <1>6, <1>7, <1>8, <1>9, <1>10

(* A regenerate takes over a user row and the rows before it.              *)
LEMMA ScanHistoryThread ==
    ASSUME TypeInv, TypeInv', IndInv, ThreadInv, NEW r \in Requests,
           ScanHistory(r)
    PROVE  ThreadInv'
  <1> DEFINE recent == LastMessages(target[r])
  <1>1. PICK p \in LastUserMessage(recent) :
             /\ prompt' = [prompt EXCEPT ![r] = p.id]
             /\ history' = [history EXCEPT ![r] = {m \in recent : m.id < p.id}]
    BY DEF ScanHistory
  <1>2. /\ pc[r] = "scanning"
        /\ UNCHANGED <<storeVars, callVars>>
    BY DEF ScanHistory
  <1>3. /\ \A m \in recent : m \in rows /\ m.chat = target[r]
        /\ p \in recent /\ p.role = "user"
    BY DEF LastMessages, RowsOf, LastUserMessage, Newest
  <1>4. \A k \in written : k.by # r
    BY <1>2 DEF IndInv, Asked, Asking
  <1>5. owner[target[r]] = user[r]
    BY <1>2 DEF IndInv, Access
  <1> HIDE DEF recent
  <1> USE DEF ThreadInv, storeVars, callVars
  <1>6. TenantsIsolated'
    BY <1>1, <1>2, <1>3, <1>5 DEF TenantsIsolated, TypeInv, TypeOK
  <1>7. NoOrphanRows'
    BY <1>2 DEF NoOrphanRows, ChatExists
  <1>8. PromptSurvives'
    BY <1>1, <1>2, <1>3 DEF PromptSurvives, AccountGone, TypeInv, TypeOK
  <1>9. EveryAnswerHasItsPrompt'
    BY <1>1, <1>2, <1>4 DEF EveryAnswerHasItsPrompt, TypeInv, TypeOK,
       StoreTypeOK, Row, IndInv, Ledger
  <1>10. ContextPrecedesPrompt'
    <2> SUFFICES ASSUME NEW q \in Requests, NEW m \in history'[q],
                        m.id >= prompt'[q]
                 PROVE  /\ kind[q] = "completion"
                        /\ \E k \in written : /\ k.chat = target[q]
                                              /\ k.by # q
                                              /\ k.id > m.id
      BY <1>2 DEF ContextPrecedesPrompt
    <2>1. CASE q # r
      BY <1>1, <1>2, <2>1 DEF ContextPrecedesPrompt, TypeInv, TypeOK
    <2>2. CASE q = r
      BY <1>1, <1>3, <2>2 DEF TypeInv, TypeOK, StoreTypeOK, Row
    <2> QED
      BY <2>1, <2>2
  <1> QED
    BY <1>6, <1>7, <1>8, <1>9, <1>10

(* A request starts: it has written and read nothing yet.                  *)
LEMMA StartThread ==
    ASSUME TypeInv, TypeInv', IndInv, ThreadInv, NEW r \in Requests,
           NEW u \in Users, NEW c \in Chats, NEW k \in Kinds, Start(r, u, c, k)
    PROVE  ThreadInv'
  <1>1. /\ prompt[r] = 0 /\ history[r] = {}
        /\ \A m \in written : m.by # r
    BY DEF Start, IndInv, Asked, Reading, Asking
  <1>2. /\ UNCHANGED <<storeVars, planVars>>
        /\ \A q \in Requests : q # r => /\ kind'[q] = kind[q]
                                        /\ user'[q] = user[q]
                                        /\ target'[q] = target[q]
    BY DEF Start, TypeInv, TypeOK
  <1> USE DEF ThreadInv, storeVars, planVars
  <1>3. TenantsIsolated'
    BY <1>1, <1>2 DEF TenantsIsolated, TypeInv, TypeOK, StoreTypeOK, Row
  <1>4. NoOrphanRows' /\ EveryAnswerHasItsPrompt'
    BY <1>2 DEF NoOrphanRows, ChatExists, EveryAnswerHasItsPrompt
  <1>5. PromptSurvives'
    BY <1>1, <1>2 DEF PromptSurvives, AccountGone
  <1>6. ContextPrecedesPrompt'
    BY <1>1, <1>2 DEF ContextPrecedesPrompt
  <1> QED
    BY <1>3, <1>4, <1>5, <1>6

(* A chat is created or tombstoned, or an account goes with all it owns.   *)
LEMMA StoreStepThread ==
    ASSUME TypeInv, TypeInv', IndInv, ThreadInv, StoreNext,
           UNCHANGED requestVars
    PROVE  ThreadInv'
  <1>1. UNCHANGED <<written, callVars, planVars>>
    BY DEF StoreNext, CreateChat, DeleteChat, RemoveUser, requestVars,
           requestData
  <1>2. \A c \in Chats : owner'[c] = owner[c] \/ owner[c] = None
    BY DEF StoreNext, CreateChat, DeleteChat, RemoveUser, TypeInv, TypeOK,
           StoreTypeOK
  <1>3. /\ \A m \in rows : m.chat \in Chats /\ owner[m.chat] \in Users \ removed
        /\ None \notin removed
    BY NoneAssumption DEF ThreadInv, NoOrphanRows, ChatExists, TypeInv, TypeOK,
       StoreTypeOK, Row
  <1>4. \/ rows' = rows /\ removed' = removed
        \/ /\ owner' = owner
           /\ removed \subseteq removed'
           /\ rows' = {m \in rows : owner[m.chat] \notin removed' \ removed}
    BY <1>3 DEF StoreNext, CreateChat, DeleteChat, RemoveUser
  <1>5. \A m \in written : /\ m.chat \in Chats /\ m.by \in Requests
                             /\ owner[m.chat] # None
    BY NoneAssumption DEF ThreadInv, TenantsIsolated, TypeInv, TypeOK,
       StoreTypeOK, Row, IndInv, Ledger, Addressed
  <1> USE DEF ThreadInv, callVars, planVars
  <1>6. TenantsIsolated'
    <2>1. \A r \in Requests : \A m \in history[r] : /\ m.chat \in Chats
                                                  /\ owner[m.chat] # None
      BY NoneAssumption DEF TenantsIsolated, TypeInv, TypeOK, Row, IndInv,
         Reading, Asking, Addressed
    <2> QED
      BY <1>1, <1>2, <1>5, <2>1 DEF TenantsIsolated
  <1>7. NoOrphanRows'
    <2>1. \A m \in rows : owner'[m.chat] = owner[m.chat]
      BY <1>2, <1>3, NoneAssumption
    <2> QED
      BY <1>3, <1>4, <2>1 DEF NoOrphanRows, ChatExists
  <1>8. PromptSurvives'
    <2>1. \A q \in Requests : prompt[q] # 0 => target[q] \in Chats
      BY DEF IndInv, Asked, Asking, TypeInv, Addressed
    <2> QED
      BY <1>1, <1>2, <1>3, <1>4, <2>1 DEF PromptSurvives, AccountGone
  <1>9. EveryAnswerHasItsPrompt'
    BY <1>1, <1>4 DEF EveryAnswerHasItsPrompt
  <1>10. ContextPrecedesPrompt'
    BY <1>1 DEF ContextPrecedesPrompt
  <1> QED
    BY <1>6, <1>7, <1>8, <1>9, <1>10

(* A step that leaves tables and plans alone, a stuttering step included.  *)
LEMMA QuietThread ==
    ThreadInv /\ UNCHANGED <<storeVars, callVars, planVars>> => ThreadInv'
  BY DEF ThreadInv, TenantsIsolated, NoOrphanRows, PromptSurvives,
     EveryAnswerHasItsPrompt, ContextPrecedesPrompt, ChatExists, AccountGone,
     storeVars, callVars, planVars

(* All five hold of every behaviour.                                       *)
LEMMA ThreadInvariant == Spec => []ThreadInv
  <1>1. Init => ThreadInv
    BY DEF Init, StoreInit, ThreadInv, TenantsIsolated, NoOrphanRows,
           PromptSurvives, EveryAnswerHasItsPrompt, ContextPrecedesPrompt
  <1>2. ASSUME TypeInv, TypeInv', IndInv, ThreadInv, [Next]_vars
        PROVE  ThreadInv'
    <2>1. ASSUME NEW r \in Requests,
                 ServerStep(r) \/ Disconnect(r) \/ Crash(r)
          PROVE  ThreadInv'
      BY <1>2, <2>1, PlanSteps, QuietThread, InsertThread, BuildHistoryThread,
         ScanHistoryThread, DropThread
    <2>2. CASE UNCHANGED vars
      BY <1>2, <2>2, QuietThread DEF vars, requestVars, requestData
    <2> QED
      BY <1>2, <2>1, <2>2, StartThread, StoreStepThread DEF Next
  <1> QED
    BY <1>1, <1>2, Invariant, PTL DEF Spec

(***************************************************************************)
(* A chat's rows are written by its owner's requests and reach the model   *)
(* for its owner's requests alone.                                         *)
(***************************************************************************)
THEOREM TenantIsolation == Spec => []TenantsIsolated
  <1>1. ThreadInv => TenantsIsolated
    BY DEF ThreadInv
  <1> QED
    BY <1>1, ThreadInvariant, PTL

(***************************************************************************)
(* No answer outlives, or comes back after, the account that owns its chat. *)
(***************************************************************************)
THEOREM NoOrphans == Spec => []NoOrphanRows
  <1>1. ThreadInv => NoOrphanRows
    BY DEF ThreadInv
  <1> QED
    BY <1>1, ThreadInvariant, PTL

(***************************************************************************)
(* A prompt leaves the table only with its account.                        *)
(***************************************************************************)
THEOREM PromptsSurvive == Spec => []PromptSurvives
  <1>1. ThreadInv => PromptSurvives
    BY DEF ThreadInv
  <1> QED
    BY <1>1, ThreadInvariant, PTL

(***************************************************************************)
(* Every answer in the table follows, in its own chat, the prompt it       *)
(* answers.                                                                *)
(***************************************************************************)
THEOREM AnswersHavePrompts == Spec => []EveryAnswerHasItsPrompt
  <1>1. ThreadInv => EveryAnswerHasItsPrompt
    BY DEF ThreadInv
  <1> QED
    BY <1>1, ThreadInvariant, PTL

(***************************************************************************)
(* The context is older than the prompt unless a rival request wrote to the *)
(* chat between the two.                                                   *)
(***************************************************************************)
THEOREM ContextIsOlder == Spec => []ContextPrecedesPrompt
  <1>1. ThreadInv => ContextPrecedesPrompt
    BY DEF ThreadInv
  <1> QED
    BY <1>1, ThreadInvariant, PTL

(***************************************************************************)
(* A message is deleted only with its account, or as an answer newer than  *)
(* the prompt of the regenerate that deletes it.                           *)
(***************************************************************************)
THEOREM OnlyStaleVanish == Spec => OnlyStaleAnswersVanish
  <1> DEFINE Stale == \A m \in rows \ rows' :
                        \/ owner[m.chat] \in removed' \ removed
                        \/ \E r \in Requests : /\ pc[r] = "dropping"
                                               /\ target[r] = m.chat
                                               /\ m.role = "assistant"
                                               /\ prompt[r] < m.id
  <1>1. ASSUME TypeInv, IndInv, [Next]_vars
        PROVE  Stale
    <2>1. CASE StoreNext
      BY <2>1 DEF StoreNext, CreateChat, DeleteChat, RemoveUser
    <2>2. ASSUME NEW r \in Requests,
                 ServerStep(r) \/ Disconnect(r) \/ Crash(r)
          PROVE  Stale
      <3>1. CASE DropStale(r) \/ DropStaleUnacked(r)
        <4>1. PICK m \in todo[r] : rows' = rows \ {m}
          BY <3>1, QueriesReturnRows DEF DropStale, DropStaleUnacked, DeleteRow
        <4>2. pc[r] = "dropping"
          BY <3>1 DEF DropStale, DropStaleUnacked
        <4> QED
          BY <1>1, <4>1, <4>2 DEF IndInv, Marked
      <3>2. CASE rows \subseteq rows'
        BY <3>2
      <3> QED
        BY <1>1, <2>2, <3>1, <3>2, PlanSteps
           DEF storeVars, SavePrompt, SavePromptUnacked, BuildHistory,
               ScanHistory, WritesAnswer, InsertRow
    <2>3. CASE UNCHANGED rows
      BY <2>3
    <2> QED
      BY <1>1, <2>1, <2>2, <2>3 DEF Next, Start, vars, storeVars
  <1> HIDE DEF Stale
  <1>2. Stale => [Stale]_vars
    OBVIOUS
  <1>3. [][Stale]_vars => OnlyStaleAnswersVanish
    BY DEF Stale, OnlyStaleAnswersVanish
  <1> QED
    BY <1>1, <1>3, Invariant, PTL DEF Spec

-----------------------------------------------------------------------------
(* The refinement: every step of a request, the faults included, is one of *)
(* the conversation's steps or none.                                       *)

(* A finite table grows by one row or shrinks.                             *)
FiniteRows == IsFiniteSet(rows)

(* The table is finite at all times, so its rows can be counted.           *)
LEMMA RowsFinite == Spec => []FiniteRows
  <1>1. Init => FiniteRows
    BY FS_EmptySet DEF Init, StoreInit, FiniteRows
  <1>2. ASSUME TypeInv, IndInv, FiniteRows, [Next]_vars
        PROVE  FiniteRows'
    <2> SUFFICES rows' \subseteq rows \/ \E m : rows' = rows \cup {m}
      BY <1>2, FS_Subset, FS_AddElement DEF FiniteRows
    <2>1. ASSUME NEW r \in Requests,
                 ServerStep(r) \/ Disconnect(r) \/ Crash(r)
          PROVE  rows' \subseteq rows \/ \E m : rows' = rows \cup {m}
      <3>1. \/ UNCHANGED storeVars
            \/ SavePrompt(r) \/ SavePromptUnacked(r)
            \/ BuildHistory(r) \/ ScanHistory(r)
            \/ DropStale(r) \/ DropStaleUnacked(r)
            \/ WritesAnswer(r)
        BY <1>2, <2>1, PlanSteps
      <3>2. CASE SavePrompt(r) \/ SavePromptUnacked(r) \/ WritesAnswer(r)
        BY <3>2 DEF SavePrompt, SavePromptUnacked, WritesAnswer, InsertRow
      <3>3. CASE DropStale(r) \/ DropStaleUnacked(r)
        BY <3>3 DEF DropStale, DropStaleUnacked, DeleteRow
      <3> QED
        BY <3>1, <3>2, <3>3 DEF storeVars, BuildHistory, ScanHistory
    <2>2. CASE StoreNext
      BY <2>2 DEF StoreNext, CreateChat, DeleteChat, RemoveUser
    <2>3. CASE UNCHANGED rows
      BY <2>3
    <2> QED
      BY <1>2, <2>1, <2>2, <2>3 DEF Next, Start, vars, storeVars
  <1> QED
    BY <1>1, <1>2, Invariant, PTL DEF Spec

(* The newest user row among the last rows of a chat is its newest user    *)
(* row: a regenerate never answers an older question than the chat's last. *)
LEMMA NewestQuestion ==
    ASSUME TypeInv, FiniteRows, NEW c \in Chats,
           NEW p \in LastUserMessage(LastMessages(c)),
           NEW k \in rows, k.role = "user", k.chat = c
    PROVE  k.id <= p.id
  <1> DEFINE after(m) == {x \in RowsOf(c) : x.id > m.id}
  <1>1. /\ p \in LastMessages(c)
        /\ \A m \in LastMessages(c) : m.role = "user" => m.id <= p.id
    BY DEF LastUserMessage, Newest
  <1>2. /\ RowsOf(c) \subseteq rows
        /\ k \in RowsOf(c)
        /\ Cardinality(after(p)) < HistoryLimit
    BY <1>1 DEF LastMessages, RowsOf
  <1>3. \A m \in rows : m.id \in Nat
    BY DEF TypeInv, TypeOK, StoreTypeOK, Row
  <1>4. SUFFICES ASSUME p.id < k.id
                 PROVE  FALSE
    BY <1>1, <1>3, QueriesReturnRows
  <1>5. after(k) \subseteq after(p) /\ after(p) \subseteq rows
    BY <1>1, <1>2, <1>3, <1>4, QueriesReturnRows
  <1>6. IsFiniteSet(after(p)) /\ Cardinality(after(k)) <= Cardinality(after(p))
    BY <1>5, FS_Subset DEF FiniteRows
  <1>7. Cardinality(after(k)) \in Nat /\ Cardinality(after(p)) \in Nat
    BY <1>5, <1>6, FS_Subset, FS_CardinalityType
  <1>8. k \in LastMessages(c)
    BY <1>2, <1>6, <1>7, HistoryLimitAssumption DEF LastMessages
  <1> QED
    BY <1>1, <1>3, <1>4, <1>8, QueriesReturnRows

-----------------------------------------------------------------------------
(* Steps.                                                                  *)
stages == [r \in Requests |-> Stage(r)]

(* A step of one request moves that request's stage alone.                 *)
LEMMA StageMoves ==
    ASSUME TypeInv, NEW r \in Requests,
           \A q \in Requests : q # r => pc'[q] = pc[q] /\ lost'[q] = lost[q]
    PROVE  stages' = [stages EXCEPT ![r] = Stage(r)']
  BY DEF stages, Stage

(* A request that is not over can give up.                                 *)
LEMMA GivesUp ==
    ASSUME TypeInv, NEW r \in Requests, Active(r), pc'[r] = "ended",
           \A q \in Requests : q # r => pc'[q] = pc[q] /\ lost'[q] = lost[q],
           UNCHANGED <<rows, nextId, prompt>>
    PROVE  Conv!Next
  <1>1. Stage(r)' = "over" /\ Stage(r) \in {"new", "asked", "answered"}
    BY DEF Stage, Asking, Active
  <1>2. Conv!GiveUp(r)
    BY <1>1, StageMoves DEF Conv!GiveUp, Conv!Step, stages
  <1> QED
    BY <1>2 DEF Conv!Next

(* A step that leaves tables and plans alone shows a client nothing or     *)
(* ends the request.                                                       *)
LEMMA QuietStage ==
    ASSUME TypeInv, IndInv, NEW r \in Requests,
           ServerStep(r) \/ Disconnect(r) \/ Crash(r),
           UNCHANGED <<storeVars, planVars>>
    PROVE  Conv!Next \/ UNCHANGED Conv!vars
  <1>1. /\ Active(r)
        /\ \A q \in Requests : q # r => pc'[q] = pc[q] /\ lost'[q] = lost[q]
        /\ pc'[r] = "ended" \/ Stage(r)' = Stage(r)
    <2> USE DEF Active, requestData, faultVars, TypeInv, TypeOK, Goto, EndWith,
                Stage, Asking
    <2>1. CASE Disconnect(r) \/ Crash(r)
      BY <2>1 DEF Disconnect, Crash
    <2>2. CASE UseCaseStep(r)
      <3>1. CASE \/ Reject(r) \/ NothingToRegenerate(r) \/ DropMissing(r)
                 \/ DatabaseFails(r) \/ SavePromptUnacked(r)
                 \/ DropStaleUnacked(r)
        BY <3>1 DEF Reject, NothingToRegenerate, DropMissing, DatabaseFails,
           SavePromptUnacked, DropStaleUnacked
      <3>2. CASE Admit(r) \/ DropsDone(r) \/ BuildHistory(r) \/ DropStale(r)
        BY <3>2 DEF Admit, DropsDone, BuildHistory, DropStale
      <3>3. CASE SavePrompt(r)
        BY <3>3 DEF SavePrompt, InsertRow, storeVars, StoreTypeOK
      <3>4. CASE ScanHistory(r)
        <4>1. \A p \in LastUserMessage(LastMessages(target[r])) : p.id # 0
          BY QueriesReturnRows DEF IndInv, Ledger
        <4> QED
          BY <3>4, <4>1 DEF ScanHistory, IndInv, Asked, planVars
      <3> QED
        BY <2>2, <3>1, <3>2, <3>3, <3>4 DEF UseCaseStep
    <2>3. CASE JsonStep(r)
      BY <2>3 DEF JsonStep, BuildJson, AiCompletes, AiFails, SaveAnswer,
         SkipBlankAnswer
    <2>4. CASE StreamStep(r)
      <3>1. CASE \/ OpenStream(r) \/ Delta(r) \/ CallTool(r)
                 \/ ProviderDone(r) \/ PersistRefused(r)
        BY <3>1 DEF OpenStream, Delta, CallTool, ProviderDone, PersistRefused,
           IndInv, Answering
      <3>2. CASE Thinking(r) \/ ToolResult(r) \/ ProviderFails(r)
        BY <3>2 DEF Thinking, ToolResult, ProviderFails, Forward, IndInv,
           Answering
      <3>3. CASE \/ PersistAnswer(r) \/ PersistBlank(r)
                 \/ Salvage(r) \/ SalvageRefused(r)
        BY <3>3 DEF PersistAnswer, PersistBlank, Salvage, SalvageRefused,
           DoneForwarded
      <3>4. CASE PersistUnacked(r)
        BY <3>4 DEF PersistUnacked, InsertRow, storeVars, StoreTypeOK
      <3> QED
        BY <2>4, <3>1, <3>2, <3>3, <3>4 DEF StreamStep
    <2> QED
      BY <2>1, <2>2, <2>3, <2>4 DEF ServerStep
  <1>2. UNCHANGED <<rows, nextId, prompt>>
    BY DEF storeVars, planVars
  <1>3. CASE pc'[r] = "ended"
    BY <1>1, <1>2, <1>3, GivesUp
  <1>4. CASE Stage(r)' = Stage(r)
    <2>1. stages' = stages
      BY <1>1, <1>4, StageMoves DEF stages
    <2> QED
      BY <1>2, <2>1 DEF Conv!vars, stages
  <1> QED
    BY <1>1, <1>3, <1>4

(* A prompt is a question, whether or not its request learns of it.        *)
LEMMA PromptAsks ==
    ASSUME TypeInv, TypeInv', IndInv, NEW r \in Requests,
           SavePrompt(r) \/ SavePromptUnacked(r)
    PROVE  Conv!Next
  <1>1. /\ Stage(r) = "new"
        /\ target[r] \in Chats
        /\ Conv!Post(target[r], "user", r, 0)
    BY DEF SavePrompt, SavePromptUnacked, InsertRow, Stage, Asking, TypeInv,
           Addressed, Conv!Post
  <1>2. \A q \in Requests : q # r => pc'[q] = pc[q] /\ lost'[q] = lost[q]
    BY DEF SavePrompt, SavePromptUnacked, Goto, EndWith, requestData, faultVars,
           TypeInv, TypeOK
  <1>3. CASE SavePrompt(r)
    <2>1. Stage(r)' = "asked" /\ prompt' = [prompt EXCEPT ![r] = nextId]
      BY <1>3 DEF SavePrompt, Goto, Stage, Asking, TypeInv, TypeOK
    <2>2. Conv!Ask(r, target[r])
      BY <1>1, <1>2, <2>1, StageMoves DEF Conv!Ask, Conv!Step, stages
    <2> QED
      BY <1>1, <2>2 DEF Conv!Next
  <1>4. CASE SavePromptUnacked(r)
    <2>1. Stage(r)' = "over" /\ prompt' = prompt
      BY <1>4 DEF SavePromptUnacked, EndWith, Goto, Stage, Asking, TypeInv,
         TypeOK, requestData, planVars
    <2>2. Conv!Ask(r, target[r])
      BY <1>1, <1>2, <2>1, StageMoves DEF Conv!Ask, Conv!Step, stages
    <2> QED
      BY <1>1, <2>2 DEF Conv!Next
  <1> QED
    BY <1>3, <1>4

(* A regenerate takes over the newest question.                            *)
LEMMA ScanRecalls ==
    ASSUME TypeInv, TypeInv', IndInv, FiniteRows, NEW r \in Requests,
           ScanHistory(r)
    PROVE  Conv!Next
  <1> PICK p \in LastUserMessage(LastMessages(target[r])) :
             prompt' = [prompt EXCEPT ![r] = p.id]
    BY DEF ScanHistory
  <1>1. /\ Stage(r) = "new" /\ Stage(r)' = "asked"
        /\ target[r] \in Chats
        /\ UNCHANGED <<rows, nextId>>
        /\ \A q \in Requests : q # r => pc'[q] = pc[q] /\ lost'[q] = lost[q]
    BY DEF ScanHistory, Goto, Stage, Asking, TypeInv, TypeOK, Addressed,
       storeVars, faultVars
  <1>2. p \in rows /\ p.role = "user" /\ p.chat = target[r]
    BY DEF LastUserMessage, Newest, LastMessages, RowsOf
  <1>3. \A k \in rows : k.role = "user" /\ k.chat = p.chat => k.id <= p.id
    BY <1>1, <1>2, NewestQuestion
  <1>4. p \in Conv!Questions /\ Conv!Recall(r, p)
    BY <1>1, <1>2, <1>3, StageMoves
       DEF Conv!Recall, Conv!Step, Conv!Questions, stages
  <1> QED
    BY <1>4 DEF Conv!Next

(* A dropped answer is retracted.                                          *)
LEMMA DropRetracts ==
    ASSUME TypeInv, TypeInv', IndInv, ThreadInv, NEW r \in Requests,
           DropStale(r) \/ DropStaleUnacked(r)
    PROVE  Conv!Next
  <1>1. PICK m \in todo[r] : m \in rows /\ rows' = rows \ {m}
    BY QueriesReturnRows DEF DropStale, DropStaleUnacked, DeleteRow
  <1>2. /\ pc[r] = "dropping"
        /\ UNCHANGED <<nextId, prompt>>
        /\ \A q \in Requests : q # r => pc'[q] = pc[q] /\ lost'[q] = lost[q]
        /\ pc'[r] \in {"dropping", "ended"}
    BY DEF DropStale, DropStaleUnacked, DeleteRow, Goto, EndWith, requestData,
           planVars, faultVars, TypeInv, TypeOK
  <1>3. m.role = "assistant" /\ m.chat = target[r] /\ prompt[r] < m.id
    BY <1>1 DEF IndInv, Marked
  <1>4. \E q \in rows : /\ q.role = "user" /\ q.id = prompt[r]
                        /\ q.chat = m.chat /\ q.id < m.id
    BY <1>1, <1>2, <1>3 DEF ThreadInv, PromptSurvives, NoOrphanRows, ChatExists,
       AccountGone, IndInv, Asked, Prompted
  <1>5. Stage(r) = "asked" /\ Stage(r)' \in {"asked", "over"}
    BY <1>2 DEF Stage, Asking
  <1>6. Conv!Retract(r, m)
    BY <1>1, <1>2, <1>3, <1>4, <1>5, StageMoves
       DEF Conv!Retract, Conv!Step, Conv!QuestionOf, Conv!Questions, stages
  <1> QED
    BY <1>1, <1>6 DEF Conv!Next

(* An answer row answers the question its request has.                     *)
LEMMA AnswerAnswers ==
    ASSUME TypeInv, TypeInv', IndInv, ThreadInv, NEW r \in Requests,
           WritesAnswer(r), UNCHANGED planVars
    PROVE  Conv!Next
  <1>1. /\ text[r] \in 1..MaxDeltas
        /\ Conv!Post(target[r], "assistant", r, text[r])
        /\ ChatExists(target[r])
        /\ UNCHANGED prompt
    BY BoundsAssumption DEF WritesAnswer, InsertRow, Conv!Post, planVars,
       IndInv, Answering, TypeInv, TypeOK
  <1>2. \E q \in rows : /\ q.role = "user" /\ q.id = prompt[r]
                        /\ q.chat = target[r]
    BY <1>1 DEF ThreadInv, PromptSurvives, ChatExists, AccountGone, IndInv,
       Asked, Prompted, StreamPcs, WritesAnswer
  <1>3. /\ \A q \in Requests : q # r => pc'[q] = pc[q] /\ lost'[q] = lost[q]
        /\ \/ Stage(r) = "asked" /\ Stage(r)' \in {"answered", "over"}
           \/ Stage(r) = "answered" /\ Stage(r)' = "over"
    BY DEF WritesAnswer, EndWith, Goto, Stage, Asking, TypeInv, TypeOK, IndInv,
           Answering
  <1>4. Conv!Answer(r, text[r])
    BY <1>1, <1>2, <1>3, StageMoves
       DEF Conv!Answer, Conv!Step, Conv!QuestionOf, Conv!Questions, stages
  <1> QED
    BY <1>1, <1>4 DEF Conv!Next

(* The store's own steps: an account takes its chats with it, or nothing a *)
(* conversation shows has changed.                                         *)
LEMMA StoreForgets ==
    ASSUME TypeInv, StoreNext, UNCHANGED requestVars
    PROVE  Conv!Next \/ UNCHANGED Conv!vars
  <1>1. UNCHANGED <<nextId, prompt, stages>>
    BY DEF StoreNext, CreateChat, DeleteChat, RemoveUser, requestVars,
           requestData, planVars, faultVars, stages, Stage
  <1>2. CASE rows' = rows
    BY <1>1, <1>2 DEF Conv!vars, stages
  <1>3. CASE \E u \in Users : RemoveUser(u)
    <2>1. PICK u \in Users : rows' = {m \in rows : owner[m.chat] # u}
      BY <1>3 DEF RemoveUser
    <2> DEFINE C == {c \in Chats : owner[c] = u}
    <2>2. Conv!Forget(C)
      BY <1>1, <2>1 DEF Conv!Forget, stages, TypeInv, TypeOK, StoreTypeOK, Row
    <2> QED
      BY <2>2 DEF Conv!Next
  <1> QED
    BY <1>2, <1>3 DEF StoreNext, CreateChat, DeleteChat

-----------------------------------------------------------------------------
(***************************************************************************)
(* Every behaviour of the completion protocol is a conversation: with any  *)
(* number of users, chats and requests, crashes, lost acknowledgements and *)
(* disconnects included, a client sees questions asked once, answers that  *)
(* follow their own question, and silence after a response is over.        *)
(***************************************************************************)
THEOREM Implements == Spec => ImplementsConversation
  <1>1. Init => Conv!Init
    BY DEF Init, StoreInit, Conv!Init, Stage, Asking
  <1>2. ASSUME TypeInv, TypeInv', IndInv, ThreadInv, FiniteRows, [Next]_vars
        PROVE  [Conv!Next]_(Conv!vars)
    <2>1. ASSUME NEW r \in Requests,
                 ServerStep(r) \/ Disconnect(r) \/ Crash(r)
          PROVE  Conv!Next \/ UNCHANGED Conv!vars
      <3>1. CASE BuildHistory(r)
        <4>1. UNCHANGED <<rows, nextId, prompt, stages>>
          BY <1>2, <3>1 DEF BuildHistory, storeVars, faultVars, Goto, stages,
             Stage, Asking, TypeInv, TypeOK
        <4> QED
          BY <4>1 DEF Conv!vars, stages
      <3> QED
        BY <1>2, <2>1, <3>1, PlanSteps, QuietStage, PromptAsks, ScanRecalls,
           DropRetracts, AnswerAnswers
    <2>2. ASSUME NEW r \in Requests, NEW u \in Users, NEW c \in Chats,
                 NEW k \in Kinds, Start(r, u, c, k)
          PROVE  UNCHANGED Conv!vars
      <3>1. UNCHANGED <<rows, nextId, prompt, stages>>
        BY <1>2, <2>2 DEF Start, storeVars, planVars, faultVars, Goto, stages,
           Stage, Asking, TypeInv, TypeOK
      <3> QED
        BY <3>1 DEF Conv!vars, stages
    <2>3. CASE UNCHANGED vars
      BY <2>3 DEF vars, storeVars, requestVars, requestData, planVars,
         faultVars, Conv!vars, Stage
    <2> QED
      BY <1>2, <2>1, <2>2, <2>3, StoreForgets DEF Next
  <1> QED
    BY <1>1, <1>2, Invariant, ThreadInvariant, RowsFinite, PTL
       DEF Spec, Conv!Spec, ImplementsConversation

=============================================================================
