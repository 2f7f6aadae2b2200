------------------------- MODULE ProviderChainProofs -------------------------
(***************************************************************************)
(* ProviderChain for any deployments, tools, turns and lengths of answers: *)
(* its invariants, and that it implements AnswerStream.                    *)
(***************************************************************************)
EXTENDS ProviderChain, FiniteSetTheorems, TLAPS

-----------------------------------------------------------------------------
(* The inductive invariant.                                                *)

\* A JSON request has no signal and no events, and each kind of provider
\* waits where its mode puts it.
Modes ==
    /\ call.mode = "complete" => ~aborted /\ sent = <<>>
    /\ run.pc \in {"turn", "final", "parts", "usage"} => call.mode = "stream"
    /\ run.pc = "asking" => call.mode = "complete"

\* A tool that was called runs or has answered, and has answered when the
\* turn's final message is awaited.
Balanced ==
    /\ run.busy \cup run.results = DOMAIN run.uses
    /\ run.pc = "final" => run.busy = {}

\* Whatever was said was said by the provider at work, and keeps it there.
Heard ==
    /\ \A i \in DOMAIN sent :
        sent[i].type # "thinking" => started /\ sent[i].by = link
    /\ run.pc = "idle" /\ end = "open" => ~started

\* The provider at work counts the text that was sent.
Tallied ==
    call.mode = "stream" /\ end = "open" => run.total = Number("delta")

ChainInv ==
    /\ TypeOK
    /\ Modes
    /\ Balanced
    /\ EveryUseIsAnswered
    /\ NoRequestAfterAbort
    /\ Heard
    /\ Tallied

-----------------------------------------------------------------------------
(* Types.                                                                  *)

LEMMA FreshType == Fresh \in Run
  BY ChainAssumption DEF Fresh, Run, Names

LEMMA ChainLength == Len(Chain(call.keys)) \in {1, 2}
  BY DEF Chain

LEMMA EventType ==
    ASSUME TypeOK, NEW t \in {"thinking", "delta", "tool_execution", "done"},
           Yield(t)
    PROVE  sent' \in Seq(Said) /\ started' = TRUE
  BY DEF TypeOK, Yield, Event, Said

LEMMA EnterType ==
    ASSUME TypeOK, NEW i \in {1, 2}, Enter(i)
    PROVE  /\ link' = i
           /\ run' \in Run
           /\ sent' \in Seq(Said)
           /\ asked' \in {"never", "there", "gone"}
           /\ end' \in {"open", "done", "failed", "left"}
  <1>1. sent' \in Seq(Said)
    <2>1. [type |-> "thinking", by |-> i] \in Said
      BY DEF Said
    <2>2. sent' = sent \/ sent' = Append(sent, [type |-> "thinking", by |-> i])
      BY DEF Enter
    <2> QED
      BY <2>1, <2>2 DEF TypeOK
  <1>2. run' \in Run
    <2>1. Entry(Kind(i)) \in {"intent", "asking", "turn", "parts"}
      BY DEF Entry
    <2>2. [Fresh EXCEPT !.pc = Entry(Kind(i))] \in Run
      BY <2>1, FreshType DEF Run
    <2> QED
      BY <2>2, FreshType DEF Enter
  <1> QED
    BY <1>1, <1>2 DEF TypeOK, Enter, Ask

LEMMA ThrowType ==
    ASSUME TypeOK, Throw
    PROVE  TypeOK'
  <1>1. CASE link < Len(Chain(call.keys)) /\ ~started
    <2>1. link + 1 \in {1, 2}
      <3>1. link \in {1, 2} /\ link < Len(Chain(call.keys))
        BY <1>1 DEF TypeOK
      <3>2. \A i, n \in {1, 2} : i < n => i + 1 \in {1, 2}
        OBVIOUS
      <3> QED
        BY <3>1, <3>2, ChainLength
    <2>2. Enter(link + 1) /\ UNCHANGED <<call, started, aborted, told>>
      BY <1>1 DEF Throw
    <2> QED
      BY <2>1, <2>2, EnterType DEF TypeOK
  <1>2. CASE ~(link < Len(Chain(call.keys)) /\ ~started)
    BY <1>2 DEF TypeOK, Throw
  <1> QED
    BY <1>1, <1>2

LEMMA UseType ==
    ASSUME TypeOK, NEW name \in Names, UseTool(name)
    PROVE  run' \in Run
  <1>1. run \in Run
    BY DEF TypeOK
  <1>2. Append(run.uses, name) \in Seq(Names)
    BY <1>1 DEF Run
  <1>3. run.busy \cup {Len(run.uses) + 1} \in SUBSET Nat
    BY <1>1 DEF Run
  <1> QED
    BY <1>1, <1>2, <1>3 DEF UseTool, Run

LEMMA SettleType ==
    ASSUME TypeOK, NEW b \in run.busy
    PROVE  Settle(b) \in Run
  BY DEF TypeOK, Settle, Run

LEMMA ReplyType ==
    ASSUME TypeOK, run.turn < MaxTurns
    PROVE  Reply \in Run
  <1>1. /\ run.turn + 1 \in 1 .. MaxTurns
        /\ run.total \in Nat
        /\ DOMAIN run.uses \in SUBSET Nat
        /\ run.results \in SUBSET Nat
        /\ run.talk \in Seq([uses : SUBSET Nat, results : SUBSET Nat])
    BY ChainAssumption DEF TypeOK, Run
  <1>2. Append(run.talk, [uses |-> DOMAIN run.uses, results |-> run.results])
            \in Seq([uses : SUBSET Nat, results : SUBSET Nat])
    BY <1>1
  <1> QED
    BY <1>1, <1>2, FreshType DEF Reply, Run

LEMMA OfferedNames ==
    ASSUME TypeOK
    PROVE  /\ Offered \subseteq Names
           /\ \A k : Callable(k, Offered) \subseteq Names
  BY DEF TypeOK, Offered, Callable, Names


LEMMA TypeStep ==
    ASSUME TypeOK, [Next]_vars
    PROVE  TypeOK'
  <1> USE EventType, OfferedNames
  <1>1. CASE Start
    BY <1>1, EnterType DEF TypeOK, Start
  <1>2. CASE TurnFails \/ PartsFail \/ ReplyFails
    BY <1>2, ThrowType DEF TurnFails, PartsFail, ReplyFails
  <1>3. CASE TurnText \/ PartText \/ MockWord
    <2>1. run' = [run EXCEPT !.text = @ + 1, !.total = @ + 1]
      BY <1>3 DEF TurnText, PartText, MockWord
    <2>2. run \in Run /\ run.text + 1 \in Nat /\ run.total + 1 \in Nat
      BY DEF TypeOK, Run
    <2>3. run' \in Run
      BY <2>1, <2>2 DEF Run
    <2> QED
      BY <1>3, <2>3 DEF TypeOK, TurnText, PartText, MockWord
  <1>4. CASE TurnTool \/ PartToolCall \/ MockTool \/ ReplyTools
    BY <1>4, UseType DEF TypeOK, TurnTool, PartToolCall, MockTool, ReplyTools
  <1>5. CASE TurnToolResult \/ PartToolResult \/ ReplyToolResult
    BY <1>5, SettleType
    DEF TypeOK, TurnToolResult, PartToolResult, ReplyToolResult, Pumped
  <1>6. CASE MockToolResult
    <2>1. run' \in Run
      BY <1>6, SettleType DEF MockToolResult, Run
    <2>2. sent' \in Seq(Said) /\ started' \in BOOLEAN
      BY <1>6 DEF TypeOK, MockToolResult
    <2> QED
      BY <1>6, <2>1, <2>2 DEF TypeOK, MockToolResult, Pumped
  <1>7. CASE TurnEnds \/ PartsEnd \/ MockNoTool
    <2>1. run' \in Run
      <3>1. run \in Run
        BY DEF TypeOK
      <3>2. CASE TurnEnds
        <4>1. PICK stop \in {"end_turn", "max_tokens", "tool_use"} :
                run' = [run EXCEPT !.pc = "final", !.stop = stop]
          BY <3>2 DEF TurnEnds
        <4> QED
          BY <3>1, <4>1 DEF Run
      <3> QED
        BY <1>7, <3>1, <3>2 DEF PartsEnd, MockNoTool, Run
    <2> QED
      BY <1>7, <2>1 DEF TypeOK, TurnEnds, PartsEnd, MockNoTool
  <1>8. CASE TurnAborted \/ Usage \/ MockDone
    BY <1>8 DEF TypeOK, TurnAborted, Usage, MockDone, YieldDone, Run
  <1>9. CASE FinalMessage
    <2>1. CASE Again /\ run.turn < MaxTurns /\ ~aborted
      BY <1>9, <2>1, ReplyType DEF TypeOK, FinalMessage, Ask
    <2>2. CASE ~(Again /\ run.turn < MaxTurns /\ ~aborted)
      BY <1>9, <2>2 DEF TypeOK, FinalMessage, YieldDone, Run
    <2> QED
      BY <2>1, <2>2
  <1>10. CASE ToolsSettled
    BY <1>10, ReplyType DEF TypeOK, ToolsSettled, Return, Ask
  <1>11. CASE ReplyText \/ MockComplete
    BY <1>11 DEF TypeOK, ReplyText, MockComplete, Return
  <1>12. CASE Abort
    BY <1>12 DEF TypeOK, Abort
  <1>13. CASE UNCHANGED vars
    BY <1>13 DEF TypeOK, vars
  <1> QED
    BY <1>1, <1>2, <1>3, <1>4, <1>5, <1>6, <1>7, <1>8, <1>9, <1>10, <1>11,
       <1>12, <1>13 DEF Next, Proceed


-----------------------------------------------------------------------------
(* The rest of the invariant, part by part.                                *)

\* A provider that begins has called no tool and counted no text.
LEMMA Entered ==
    ASSUME TypeOK, NEW i \in {1, 2}, Enter(i)
    PROVE  /\ run'.pc \in {"idle", Entry(Kind(i))}
           /\ run'.pc = "idle" => end' = "left"
           /\ run'.total = 0
           /\ run'.uses = <<>> /\ run'.busy = {} /\ run'.results = {}
           /\ run'.talk = <<>>
  <1>1. /\ Fresh.pc = "idle" /\ Fresh.total = 0
        /\ Fresh.uses = <<>> /\ Fresh.busy = {} /\ Fresh.results = {}
        /\ Fresh.talk = <<>>
    BY DEF Fresh
  <1>2. Fresh \in Run /\ Entry(Kind(i)) # "idle"
    BY FreshType DEF Entry
  <1> QED
    BY <1>1, <1>2 DEF Enter, Run

\* What an error does.
LEMMA Thrown ==
    ASSUME TypeOK, Throw
    PROVE  /\ UNCHANGED <<call, started, aborted, told>>
           /\ \/ /\ ~started
                 /\ link + 1 \in {1, 2}
                 /\ Enter(link + 1)
              \/ end' = "failed" /\ UNCHANGED <<link, run, sent, asked>>
  <1>1. link \in {1, 2}
    BY DEF TypeOK
  <1>2. \A i, n \in {1, 2} : i < n => i + 1 \in {1, 2}
    OBVIOUS
  <1> QED
    BY <1>1, <1>2, ChainLength DEF Throw

\* The next turn starts from nothing but the transcript.
LEMMA Replied ==
    ASSUME TypeOK
    PROVE  /\ Reply.pc = IF call.mode = "stream" THEN "turn" ELSE "asking"
           /\ Reply.total = run.total
           /\ Reply.uses = <<>> /\ Reply.busy = {} /\ Reply.results = {}
           /\ Reply.talk = Append(run.talk,
                    [uses |-> DOMAIN run.uses, results |-> run.results])
  <1>1. Fresh.uses = <<>> /\ Fresh.busy = {} /\ Fresh.results = {}
    BY DEF Fresh
  <1> QED
    BY <1>1, FreshType DEF Reply, Run

LEMMA EnterModes ==
    ASSUME TypeOK, Modes, NEW i \in {1, 2}, Enter(i),
           UNCHANGED <<call, aborted>>
    PROVE  Modes'
  <1>1. call.mode \in {"stream", "complete"}
    BY DEF TypeOK
  <1>2. call.mode = "complete" => ~aborted' /\ sent' = <<>>
    BY DEF Modes, Enter
  <1> QED
    BY <1>1, <1>2, Entered DEF Modes, Entry

\* A delta is counted, a tool is called, and a tool settles: nothing else of
\* where the provider stands changes.
LEMMA Spoken ==
    ASSUME TypeOK, run' = [run EXCEPT !.text = @ + 1, !.total = @ + 1]
    PROVE  /\ run'.pc = run.pc
           /\ run'.total = run.total + 1
           /\ UNCHANGED <<run.uses, run.busy, run.results, run.talk>>
  BY DEF TypeOK, Run

LEMMA Used ==
    ASSUME TypeOK, NEW name \in Names, UseTool(name)
    PROVE  /\ run'.pc = run.pc
           /\ run'.total = run.total
           /\ run'.uses = Append(run.uses, name)
           /\ run'.busy = run.busy \cup {Len(run.uses) + 1}
           /\ UNCHANGED <<run.results, run.talk>>
  BY DEF TypeOK, Run, UseTool

LEMMA Settled ==
    ASSUME TypeOK, NEW b \in run.busy
    PROVE  /\ Settle(b).pc = run.pc
           /\ Settle(b).total = run.total
           /\ Settle(b).uses = run.uses
           /\ Settle(b).busy = run.busy \ {b}
           /\ Settle(b).results = run.results \cup {b}
           /\ Settle(b).talk = run.talk
  BY DEF TypeOK, Run, Settle

\* The same, by action.
LEMMA SpeechStep ==
    ASSUME TypeOK, TurnText \/ PartText \/ MockWord
    PROVE  /\ run'.pc = run.pc /\ run'.total = run.total + 1
           /\ UNCHANGED <<run.uses, run.busy, run.results, run.talk>>
           /\ Yield("delta")
           /\ run.pc # "final" /\ run.pc # "idle" /\ end = "open"
           /\ UNCHANGED <<call, link, asked, aborted, end, told>>
  BY Spoken DEF TurnText, PartText, MockWord, Part, At

LEMMA UseStep ==
    ASSUME TypeOK, TurnTool \/ PartToolCall \/ MockTool \/ ReplyTools
    PROVE  /\ run'.pc = run.pc /\ run'.total = run.total
           /\ \E name \in Names : run'.uses = Append(run.uses, name)
           /\ run'.busy = run.busy \cup {Len(run.uses) + 1}
           /\ UNCHANGED <<run.results, run.talk>>
           /\ run.pc # "final" /\ run.pc # "idle" /\ end = "open"
           /\ UNCHANGED <<call, link, started, sent, asked, aborted, end,
                           told>>
  <1>1. PICK name \in Names : UseTool(name)
    BY OfferedNames DEF TurnTool, PartToolCall, MockTool, ReplyTools
  <1> QED
    BY <1>1, Used DEF TurnTool, PartToolCall, MockTool, ReplyTools, Part, At

LEMMA SettleStep ==
    ASSUME TypeOK,
           TurnToolResult \/ PartToolResult \/ ReplyToolResult
             \/ MockToolResult
    PROVE  /\ run'.pc = IF MockToolResult THEN "words" ELSE run.pc
           /\ UNCHANGED <<run.total, run.uses, run.talk>>
           /\ \E b \in run.busy : /\ run'.busy = run.busy \ {b}
                                  /\ run'.results = run.results \cup {b}
           /\ run.pc # "idle" /\ end = "open"
           /\ end' \in {"open", "left"}
           /\ UNCHANGED <<call, link, asked, aborted, told>>
  <1>1. CASE MockToolResult
    <2>1. PICK b \in run.busy : run' = [Settle(b) EXCEPT !.pc = "words"]
      BY <1>1 DEF MockToolResult
    <2>2. Settle(b) \in Run
      BY SettleType
    <2>3. /\ run'.pc = "words" /\ run'.total = Settle(b).total
          /\ run'.uses = Settle(b).uses /\ run'.busy = Settle(b).busy
          /\ run'.results = Settle(b).results
          /\ run'.talk = Settle(b).talk
      BY <2>1, <2>2 DEF Run
    <2> QED
      BY <1>1, <2>3, Settled DEF MockToolResult, At, Pumped
  <1>2. CASE TurnToolResult \/ PartToolResult \/ ReplyToolResult
    <2>1. PICK b \in run.busy : run' = Settle(b)
      BY <1>2 DEF TurnToolResult, PartToolResult, ReplyToolResult
    <2>2. ~MockToolResult
      BY <1>2
      DEF TurnToolResult, PartToolResult, ReplyToolResult, MockToolResult,
          Part, At
    <2> QED
      BY <1>2, <2>1, <2>2, Settled
      DEF TurnToolResult, PartToolResult, ReplyToolResult, Part, At, Pumped
  <1> QED
    BY <1>1, <1>2

\* A step from one wait to the next.
LEMMA WaitStep ==
    ASSUME TypeOK, TurnEnds \/ PartsEnd \/ MockNoTool
    PROVE  /\ run'.pc \in {"final", "usage", "words"}
           /\ run'.pc = "final" => run.busy = {}
           /\ UNCHANGED <<run.total, run.uses, run.busy, run.results,
                           run.talk>>
           /\ run.pc # "final" /\ run.pc # "idle" /\ end = "open"
           /\ UNCHANGED <<call, link, started, sent, asked, aborted, end,
                           told>>
  <1> run \in Run
    BY DEF TypeOK
  <1>1. CASE TurnEnds
    BY <1>1 DEF TurnEnds, At, Run
  <1>2. CASE PartsEnd \/ MockNoTool
    BY <1>2 DEF PartsEnd, MockNoTool, At, Run
  <1> QED
    BY <1>1, <1>2

LEMMA ModesStep ==
    ASSUME TypeOK, Modes, [Next]_vars
    PROVE  Modes'
  <1> USE DEF Modes
  <1>1. CASE Start
    BY <1>1, EnterModes DEF Start
  <1>2. CASE TurnFails \/ PartsFail \/ ReplyFails
    BY <1>2, Thrown, EnterModes DEF TurnFails, PartsFail, ReplyFails
  <1>3. CASE TurnText \/ PartText \/ MockWord
    <2>1. call.mode # "complete"
      BY <1>3 DEF TypeOK, TurnText, PartText, MockWord, Part, At
    <2> QED
      BY <1>3, <2>1, SpeechStep
  <1>4. CASE TurnTool \/ PartToolCall \/ MockTool \/ ReplyTools
    BY <1>4, UseStep
  <1>5. CASE TurnToolResult \/ PartToolResult \/ ReplyToolResult
    <2>1. run'.pc = run.pc
      BY <1>5, SettleStep
      DEF TurnToolResult, PartToolResult, ReplyToolResult, MockToolResult,
          Part, At
    <2>2. call.mode = "complete" => UNCHANGED sent
      BY <1>5
      DEF TypeOK, TurnToolResult, PartToolResult, ReplyToolResult, Part, At
    <2> QED
      BY <1>5, <2>1, <2>2, SettleStep
  <1>6. CASE MockToolResult
    <2>1. call.mode = "complete" => UNCHANGED sent
      BY <1>6 DEF MockToolResult
    <2>2. run'.pc = "words" /\ UNCHANGED <<call, aborted>>
      BY <1>6, SettleStep
    <2> QED
      BY <2>1, <2>2
  <1>7. CASE TurnEnds \/ PartsEnd \/ MockNoTool
    <2>1. call.mode = "stream" \/ run'.pc = "words"
      BY <1>7 DEF TypeOK, Run, TurnEnds, PartsEnd, MockNoTool, At
    <2> QED
      BY <1>7, <2>1, WaitStep
  <1>8. CASE TurnAborted \/ Usage \/ MockDone
    BY <1>8 DEF TurnAborted, Usage, MockDone, At
  <1>9. CASE FinalMessage
    BY <1>9, Replied DEF TypeOK, FinalMessage, At
  <1>10. CASE ToolsSettled
    BY <1>10, Replied DEF TypeOK, ToolsSettled, Return, At
  <1>11. CASE ReplyText \/ MockComplete
    BY <1>11 DEF ReplyText, MockComplete, Return
  <1>12. CASE Abort
    BY <1>12 DEF TypeOK, Abort
  <1>13. CASE UNCHANGED vars
    BY <1>13 DEF vars
  <1> QED
    BY <1>1, <1>2, <1>3, <1>4, <1>5, <1>6, <1>7, <1>8, <1>9, <1>10, <1>11,
       <1>12, <1>13 DEF Next, Proceed

\* Every tool called is running or has answered.
LEMMA EnterBalanced ==
    ASSUME TypeOK, NEW i \in {1, 2}, Enter(i)
    PROVE  Balanced'
  BY Entered DEF Balanced, Entry

LEMMA BalancedStep ==
    ASSUME TypeOK, Balanced, [Next]_vars
    PROVE  Balanced'
  <1> USE DEF Balanced
  <1>1. CASE Start
    BY <1>1, EnterBalanced DEF Start
  <1>2. CASE TurnFails \/ PartsFail \/ ReplyFails
    BY <1>2, Thrown, EnterBalanced DEF TurnFails, PartsFail, ReplyFails
  <1>3. CASE TurnText \/ PartText \/ MockWord
    BY <1>3, SpeechStep
  <1>4. CASE TurnTool \/ PartToolCall \/ MockTool \/ ReplyTools
    <2>1. PICK name \in Names : run'.uses = Append(run.uses, name)
      BY <1>4, UseStep
    <2>2. DOMAIN run'.uses = DOMAIN run.uses \cup {Len(run.uses) + 1}
      BY <2>1 DEF TypeOK, Run
    <2> QED
      BY <1>4, <2>2, UseStep
  <1>5. CASE TurnToolResult \/ PartToolResult \/ ReplyToolResult
               \/ MockToolResult
    <2>1. PICK b \in run.busy : /\ run'.busy = run.busy \ {b}
                                /\ run'.results = run.results \cup {b}
      BY <1>5, SettleStep
    <2>2. run'.uses = run.uses /\ run'.pc \in {"words", run.pc}
      BY <1>5, SettleStep
    <2>3. run'.busy \cup run'.results = run.busy \cup run.results
      BY <2>1
    <2>4. run.pc = "final" => run'.busy = {}
      BY <2>1
    <2> QED
      BY <2>2, <2>3, <2>4
  <1>6. CASE TurnEnds \/ PartsEnd \/ MockNoTool
    BY <1>6, WaitStep
  <1>7. CASE TurnAborted \/ Usage \/ MockDone
    BY <1>7 DEF TurnAborted, Usage, MockDone
  <1>8. CASE FinalMessage
    BY <1>8, Replied DEF TypeOK, FinalMessage
  <1>9. CASE ToolsSettled
    BY <1>9, Replied DEF TypeOK, ToolsSettled, Return
  <1>10. CASE ReplyText \/ MockComplete
    BY <1>10 DEF ReplyText, MockComplete, Return
  <1>11. CASE Abort
    BY <1>11 DEF Abort
  <1>12. CASE UNCHANGED vars
    BY <1>12 DEF vars
  <1> QED
    BY <1>1, <1>2, <1>3, <1>4, <1>5, <1>6, <1>7, <1>8, <1>9, <1>10, <1>11,
       <1>12 DEF Next, Proceed

\* A turn goes back to the model when nothing of it is running.
LEMMA EnterUses ==
    ASSUME TypeOK, NEW i \in {1, 2}, Enter(i)
    PROVE  EveryUseIsAnswered'
  BY Entered DEF EveryUseIsAnswered

LEMMA ReplyUses ==
    ASSUME TypeOK, Balanced, EveryUseIsAnswered, run.busy = {}, run' = Reply
    PROVE  EveryUseIsAnswered'
  <1> DEFINE turn == [uses |-> DOMAIN run.uses, results |-> run.results]
  <1>1. run.talk \in Seq([uses : SUBSET Nat, results : SUBSET Nat])
    BY DEF TypeOK, Run
  <1>2. run'.talk = Append(run.talk, turn)
    BY Replied
  <1>3. turn.results = turn.uses
    BY DEF Balanced
  <1> HIDE DEF turn
  <1>4. ASSUME NEW i \in DOMAIN run'.talk
        PROVE  run'.talk[i].results = run'.talk[i].uses
    <2>1. CASE i \in DOMAIN run.talk
      BY <1>1, <1>2, <2>1 DEF EveryUseIsAnswered
    <2>2. CASE i = Len(run.talk) + 1
      BY <1>1, <1>2, <1>3, <2>2
    <2> QED
      BY <1>1, <1>2, <2>1, <2>2
  <1> QED
    BY <1>4 DEF EveryUseIsAnswered

LEMMA UsesStep ==
    ASSUME TypeOK, Balanced, EveryUseIsAnswered, [Next]_vars
    PROVE  EveryUseIsAnswered'
  <1>1. CASE Start
    BY <1>1, EnterUses DEF Start
  <1>2. CASE TurnFails \/ PartsFail \/ ReplyFails
    BY <1>2, Thrown, EnterUses
    DEF TurnFails, PartsFail, ReplyFails, EveryUseIsAnswered
  <1>3. CASE TurnText \/ PartText \/ MockWord
    BY <1>3, SpeechStep DEF EveryUseIsAnswered
  <1>4. CASE TurnTool \/ PartToolCall \/ MockTool \/ ReplyTools
    BY <1>4, UseStep DEF EveryUseIsAnswered
  <1>5. CASE TurnToolResult \/ PartToolResult \/ ReplyToolResult
               \/ MockToolResult
    BY <1>5, SettleStep DEF EveryUseIsAnswered
  <1>6. CASE TurnEnds \/ PartsEnd \/ MockNoTool
    BY <1>6, WaitStep DEF EveryUseIsAnswered
  <1>7. CASE TurnAborted \/ Usage \/ MockDone
    BY <1>7 DEF TurnAborted, Usage, MockDone, EveryUseIsAnswered
  <1>8. CASE FinalMessage
    <2>1. CASE UNCHANGED run
      BY <2>1 DEF EveryUseIsAnswered
    <2>2. CASE run' = Reply
      BY <1>8, <2>2, ReplyUses DEF FinalMessage, At, Balanced
    <2> QED
      BY <1>8, <2>1, <2>2 DEF FinalMessage
  <1>9. CASE ToolsSettled
    <2>1. CASE UNCHANGED run
      BY <2>1 DEF EveryUseIsAnswered
    <2>2. CASE run' = Reply
      BY <1>9, <2>2, ReplyUses DEF ToolsSettled
    <2> QED
      BY <1>9, <2>1, <2>2 DEF ToolsSettled, Return
  <1>10. CASE ReplyText \/ MockComplete
    BY <1>10 DEF ReplyText, MockComplete, Return, EveryUseIsAnswered
  <1>11. CASE Abort
    BY <1>11 DEF Abort, EveryUseIsAnswered
  <1>12. CASE UNCHANGED vars
    BY <1>12 DEF vars, EveryUseIsAnswered
  <1> QED
    BY <1>1, <1>2, <1>3, <1>4, <1>5, <1>6, <1>7, <1>8, <1>9, <1>10, <1>11,
       <1>12 DEF Next, Proceed

\* A stream that enters a provider after the client left yields `thinking`
\* and is left before it asks; a JSON request has no signal.
LEMMA EnterAsks ==
    ASSUME TypeOK, Modes, NoRequestAfterAbort, NEW i \in {1, 2}, Enter(i)
    PROVE  NoRequestAfterAbort'
  BY DEF TypeOK, Modes, NoRequestAfterAbort, Enter, Ask

LEMMA AskStep ==
    ASSUME TypeOK, Modes, NoRequestAfterAbort, [Next]_vars
    PROVE  NoRequestAfterAbort'
  <1> USE DEF NoRequestAfterAbort
  <1>1. CASE Start
    BY <1>1, EnterAsks DEF Start
  <1>2. CASE TurnFails \/ PartsFail \/ ReplyFails
    BY <1>2, Thrown, EnterAsks DEF TurnFails, PartsFail, ReplyFails
  <1>3. CASE TurnText \/ PartText \/ MockWord
    BY <1>3, SpeechStep
  <1>4. CASE TurnTool \/ PartToolCall \/ MockTool \/ ReplyTools
    BY <1>4, UseStep
  <1>5. CASE TurnToolResult \/ PartToolResult \/ ReplyToolResult
               \/ MockToolResult
    BY <1>5, SettleStep
  <1>6. CASE TurnEnds \/ PartsEnd \/ MockNoTool
    BY <1>6, WaitStep
  <1>7. CASE TurnAborted \/ Usage \/ MockDone
    BY <1>7 DEF TurnAborted, Usage, MockDone
  <1>8. CASE FinalMessage
    BY <1>8 DEF FinalMessage, Ask
  <1>9. CASE ToolsSettled
    BY <1>9 DEF TypeOK, Modes, ToolsSettled, Return, Ask, At
  <1>10. CASE ReplyText \/ MockComplete
    BY <1>10 DEF ReplyText, MockComplete, Return
  <1>11. CASE Abort
    BY <1>11 DEF Abort
  <1>12. CASE UNCHANGED vars
    BY <1>12 DEF vars
  <1> QED
    BY <1>1, <1>2, <1>3, <1>4, <1>5, <1>6, <1>7, <1>8, <1>9, <1>10, <1>11,
       <1>12 DEF Next, Proceed

\* An event of the provider at work, and how many there are of each type.
LEMMA EventAppended ==
    ASSUME TypeOK, NEW t \in {"thinking", "delta", "tool_execution", "done"},
           NEW i \in {1, 2},
           sent' = Append(sent, [type |-> t, by |-> i])
    PROVE  /\ DOMAIN sent' = DOMAIN sent \cup {Len(sent) + 1}
           /\ Len(sent) + 1 \notin DOMAIN sent
           /\ \A n \in DOMAIN sent : sent'[n] = sent[n]
           /\ sent'[Len(sent) + 1] = [type |-> t, by |-> i]
  <1>1. sent \in Seq(Said)
    BY DEF TypeOK
  <1>2. [type |-> t, by |-> i] \in Said
    BY DEF Said
  <1> QED
    BY <1>1, <1>2

LEMMA NumberType ==
    ASSUME TypeOK, NEW u
    PROVE  /\ IsFiniteSet({n \in DOMAIN sent : sent[n].type = u})
           /\ Number(u) \in Nat
  <1>1. DOMAIN sent = 1 .. Len(sent) /\ Len(sent) \in Nat
    BY DEF TypeOK
  <1>2. IsFiniteSet(DOMAIN sent)
    BY <1>1, FS_Interval
  <1>3. IsFiniteSet({n \in DOMAIN sent : sent[n].type = u})
    BY <1>2, FS_Subset
  <1> QED
    BY <1>3, FS_CardinalityType DEF Number

LEMMA NumberAppended ==
    ASSUME TypeOK, NEW t \in {"thinking", "delta", "tool_execution", "done"},
           NEW i \in {1, 2},
           sent' = Append(sent, [type |-> t, by |-> i]),
           NEW u
    PROVE  Number(u)' = IF u = t THEN Number(u) + 1 ELSE Number(u)
  <1> DEFINE old == {n \in DOMAIN sent : sent[n].type = u}
             new == {n \in DOMAIN sent' : sent'[n].type = u}
  <1>1. [type |-> t, by |-> i].type = t
    OBVIOUS
  <1>2. CASE u = t
    <2>1. new = old \cup {Len(sent) + 1} /\ Len(sent) + 1 \notin old
      BY <1>1, <1>2, EventAppended
    <2>2. IsFiniteSet(old)
      BY NumberType
    <2>3. Cardinality(new) = Cardinality(old) + 1
      BY <2>1, <2>2, FS_AddElement
    <2> QED
      BY <1>2, <2>3 DEF Number
  <1>3. CASE u # t
    <2>1. new = old
      BY <1>1, <1>3, EventAppended
    <2> QED
      BY <1>3, <2>1 DEF Number
  <1> QED
    BY <1>2, <1>3

\* What an entry does to the events.
LEMMA EnterSent ==
    ASSUME TypeOK, NEW i \in {1, 2}, Enter(i)
    PROVE  \/ UNCHANGED sent
           \/ sent' = Append(sent, [type |-> "thinking", by |-> i])
  BY DEF Enter

\* A provider begins when nobody has been heard.
LEMMA EnterHeard ==
    ASSUME TypeOK, Heard, ~started, NEW i \in {1, 2}, Enter(i),
           UNCHANGED started
    PROVE  Heard'
  <1>1. \A n \in DOMAIN sent : sent[n].type = "thinking"
    BY DEF Heard
  <1>2. \A n \in DOMAIN sent' : sent'[n].type = "thinking"
    BY <1>1, EnterSent, EventAppended
  <1> QED
    BY <1>2 DEF Heard

\* What is yielded comes from the provider at work.
LEMMA YieldHeard ==
    ASSUME TypeOK, Heard, NEW t \in {"delta", "tool_execution", "done"},
           Yield(t), UNCHANGED link,
           run'.pc # "idle" \/ end' # "open"
    PROVE  Heard'
  <1>1. sent' = Append(sent, [type |-> t, by |-> link]) /\ started'
    BY DEF Yield, Event
  <1>2. link \in {1, 2}
    BY DEF TypeOK
  <1>3. \A n \in DOMAIN sent' :
            sent'[n].type # "thinking" => sent'[n].by = link
    BY <1>1, <1>2, EventAppended DEF Heard
  <1> QED
    BY <1>1, <1>3 DEF Heard

LEMMA HeardStep ==
    ASSUME TypeOK, Heard, [Next]_vars
    PROVE  Heard'
  <1>1. CASE Start
    BY <1>1, EnterHeard DEF Start, Heard
  <1>2. CASE TurnFails \/ PartsFail \/ ReplyFails
    <2>1. Throw
      BY <1>2 DEF TurnFails, PartsFail, ReplyFails
    <2> QED
      BY <2>1, Thrown, EnterHeard DEF Heard
  <1>3. CASE TurnText \/ PartText \/ MockWord
    BY <1>3, SpeechStep, YieldHeard
  <1>4. CASE TurnTool \/ PartToolCall \/ MockTool \/ ReplyTools
    BY <1>4, UseStep DEF Heard
  <1>5. CASE TurnToolResult \/ PartToolResult \/ ReplyToolResult
               \/ MockToolResult
    <2>1. run'.pc # "idle" /\ run.pc # "idle" /\ UNCHANGED link
      BY <1>5, SettleStep
    <2>2. UNCHANGED <<sent, started>> \/ Yield("tool_execution")
      BY <1>5
      DEF TurnToolResult, PartToolResult, ReplyToolResult, MockToolResult
    <2> QED
      BY <2>1, <2>2, YieldHeard DEF Heard
  <1>6. CASE TurnEnds \/ PartsEnd \/ MockNoTool
    BY <1>6, WaitStep DEF Heard
  <1>7. CASE TurnAborted \/ Usage \/ MockDone
    BY <1>7, YieldHeard DEF TurnAborted, Usage, MockDone, YieldDone
  <1>8. CASE FinalMessage
    <2>1. CASE YieldDone /\ UNCHANGED link
      BY <2>1, YieldHeard DEF YieldDone
    <2>2. CASE run' = Reply /\ UNCHANGED <<started, sent, link>>
      BY <2>2, Replied DEF Heard
    <2> QED
      BY <1>8, <2>1, <2>2 DEF FinalMessage
  <1>9. CASE ToolsSettled
    <2>1. CASE Return
      BY <2>1 DEF Return, Heard
    <2>2. CASE run' = Reply /\ UNCHANGED <<started, sent, link>>
      BY <2>2, Replied DEF Heard
    <2> QED
      BY <1>9, <2>1, <2>2 DEF ToolsSettled
  <1>10. CASE ReplyText \/ MockComplete
    BY <1>10 DEF ReplyText, MockComplete, Return, Heard
  <1>11. CASE Abort
    BY <1>11 DEF Abort, Heard
  <1>12. CASE UNCHANGED vars
    BY <1>12 DEF vars, Heard
  <1> QED
    BY <1>1, <1>2, <1>3, <1>4, <1>5, <1>6, <1>7, <1>8, <1>9, <1>10, <1>11,
       <1>12 DEF Next, Proceed

\* Before the provider is committed to, no text was sent.
LEMMA SilentNumber ==
    ASSUME TypeOK, Heard, ~started
    PROVE  Number("delta") = 0
  <1>1. {n \in DOMAIN sent : sent[n].type = "delta"} = {}
    BY DEF Heard
  <1> QED
    BY <1>1, FS_EmptySet DEF Number

LEMMA SameNumber ==
    ASSUME UNCHANGED sent, NEW u
    PROVE  Number(u)' = Number(u)
  BY DEF Number

LEMMA EnterTallied ==
    ASSUME TypeOK, Heard, ~started, NEW i \in {1, 2}, Enter(i)
    PROVE  Tallied'
  <1>1. Number("delta")' = Number("delta")
    BY EnterSent, NumberAppended, SameNumber
  <1> QED
    BY <1>1, Entered, SilentNumber DEF Tallied

LEMMA YieldNumber ==
    ASSUME TypeOK, NEW t \in {"delta", "tool_execution", "done"}, Yield(t),
           NEW u
    PROVE  Number(u)' = IF u = t THEN Number(u) + 1 ELSE Number(u)
  BY NumberAppended DEF Yield, Event, TypeOK

LEMMA TalliedStep ==
    ASSUME TypeOK, Heard, Tallied, [Next]_vars
    PROVE  Tallied'
  <1>1. CASE Start
    BY <1>1, EnterTallied DEF Start, Heard
  <1>2. CASE TurnFails \/ PartsFail \/ ReplyFails
    <2>1. Throw
      BY <1>2 DEF TurnFails, PartsFail, ReplyFails
    <2> QED
      BY <2>1, Thrown, EnterTallied DEF Tallied
  <1>3. CASE TurnText \/ PartText \/ MockWord
    BY <1>3, SpeechStep, YieldNumber DEF Tallied
  <1>4. CASE TurnTool \/ PartToolCall \/ MockTool \/ ReplyTools
    BY <1>4, UseStep, SameNumber DEF Tallied
  <1>5. CASE TurnToolResult \/ PartToolResult \/ ReplyToolResult
               \/ MockToolResult
    <2>1. UNCHANGED sent \/ Yield("tool_execution")
      BY <1>5
      DEF TurnToolResult, PartToolResult, ReplyToolResult, MockToolResult
    <2>2. Number("delta")' = Number("delta")
      BY <2>1, YieldNumber, SameNumber
    <2> QED
      BY <1>5, <2>2, SettleStep DEF Tallied
  <1>6. CASE TurnEnds \/ PartsEnd \/ MockNoTool
    BY <1>6, WaitStep, SameNumber DEF Tallied
  <1>7. CASE TurnAborted \/ Usage \/ MockDone
    BY <1>7 DEF TurnAborted, Usage, MockDone, YieldDone, Tallied
  <1>8. CASE FinalMessage
    <2>1. CASE YieldDone
      BY <2>1 DEF YieldDone, Tallied
    <2>2. CASE run' = Reply /\ UNCHANGED <<sent, end, call>>
      BY <2>2, Replied, SameNumber DEF Tallied
    <2> QED
      BY <1>8, <2>1, <2>2 DEF FinalMessage
  <1>9. CASE ToolsSettled
    <2>1. CASE Return
      BY <2>1 DEF Return, Tallied
    <2>2. CASE run' = Reply /\ UNCHANGED <<sent, end, call>>
      BY <2>2, Replied, SameNumber DEF Tallied
    <2> QED
      BY <1>9, <2>1, <2>2 DEF ToolsSettled
  <1>10. CASE ReplyText \/ MockComplete
    BY <1>10 DEF ReplyText, MockComplete, Return, Tallied
  <1>11. CASE Abort
    BY <1>11, SameNumber DEF Abort, Tallied
  <1>12. CASE UNCHANGED vars
    BY <1>12, SameNumber DEF vars, Tallied
  <1> QED
    BY <1>1, <1>2, <1>3, <1>4, <1>5, <1>6, <1>7, <1>8, <1>9, <1>10, <1>11,
       <1>12 DEF Next, Proceed

LEMMA InitInv ==
    ASSUME Init
    PROVE  ChainInv
  <1>1. TypeOK
    <2>1. run \in Run
      BY FreshType DEF Init
    <2>2. sent \in Seq(Said)
      BY DEF Init
    <2>3. started \in BOOLEAN /\ aborted \in BOOLEAN
      BY DEF Init
    <2> QED
      BY <2>1, <2>2, <2>3 DEF Init, TypeOK
  <1>2. Number("delta") = 0
    <2>1. {n \in DOMAIN sent : sent[n].type = "delta"} = {}
      BY DEF Init
    <2> QED
      BY <2>1, FS_EmptySet DEF Number
  <1>3. Tallied
    BY <1>2 DEF Init, Fresh, Tallied
  <1>4. Modes /\ Balanced /\ EveryUseIsAnswered
    BY DEF Init, Fresh, Modes, Balanced, EveryUseIsAnswered
  <1>5. NoRequestAfterAbort /\ Heard
    BY DEF Init, NoRequestAfterAbort, Heard
  <1> QED
    BY <1>1, <1>3, <1>4, <1>5 DEF ChainInv

LEMMA StepInv ==
    ASSUME ChainInv, [Next]_vars
    PROVE  ChainInv'
  BY TypeStep, ModesStep, BalancedStep, UsesStep, AskStep, HeardStep,
     TalliedStep
  DEF ChainInv

-----------------------------------------------------------------------------
(* What follows.                                                           *)

(* The invariant holds of every deployment, tool set and number of turns:  *)
(* with it, the types of the model's state.                                *)
THEOREM ChainInvariant == Spec => []ChainInv
  BY InitInv, StepInv, PTL DEF Spec

(* Every transcript sent back to Anthropic has one tool_result for each    *)
(* tool_use of its turns (the loop of anthropic.provider.ts).              *)
THEOREM UsesAnswered == Spec => []EveryUseIsAnswered
  <1>1. ChainInv => EveryUseIsAnswered
    BY DEF ChainInv
  <1> QED
    BY <1>1, ChainInvariant, PTL

(* No model is asked once the client has gone, whichever provider is at    *)
(* work and however the first one ended.                                   *)
THEOREM NoneAskedAfterAbort == Spec => []NoRequestAfterAbort
  <1>1. ChainInv => NoRequestAfterAbort
    BY DEF ChainInv
  <1> QED
    BY <1>1, ChainInvariant, PTL

-----------------------------------------------------------------------------
(* The refinement.                                                         *)

LEMMA SameSpeaker ==
    ASSUME TypeOK,
           \/ UNCHANGED sent
           \/ \E i \in {1, 2} :
                sent' = Append(sent, [type |-> "thinking", by |-> i])
    PROVE  /\ Speaker' = Speaker
           /\ Number("delta")' = Number("delta")
           /\ Number("tool_execution")' = Number("tool_execution")
  <1> DEFINE spoken == {n \in DOMAIN sent : sent[n].type # "thinking"}
  <1>1. CASE UNCHANGED sent
    BY <1>1 DEF Speaker, Number
  <1>2. ASSUME NEW i \in {1, 2},
               sent' = Append(sent, [type |-> "thinking", by |-> i])
        PROVE  /\ Speaker' = Speaker
               /\ Number("delta")' = Number("delta")
               /\ Number("tool_execution")' = Number("tool_execution")
    <2>1. [type |-> "thinking", by |-> i].type = "thinking"
      OBVIOUS
    <2>2. spoken' = spoken
      BY <1>2, <2>1, EventAppended
    <2>3. Speaker' = Speaker
      <3>1. CASE spoken = {}
        BY <2>2, <3>1 DEF Speaker
      <3>2. CASE spoken # {}
        <4> DEFINE n == CHOOSE m \in spoken : TRUE
        <4>1. n \in spoken
          BY <3>2
        <4>2. Speaker = sent[n].by /\ Speaker' = sent'[n].by
          BY <2>2, <3>2 DEF Speaker
        <4>3. sent'[n] = sent[n]
          BY <1>2, <4>1, EventAppended
        <4> QED
          BY <4>2, <4>3
      <3> QED
        BY <3>1, <3>2
    <2>4. /\ Number("delta")' = Number("delta")
          /\ Number("tool_execution")' = Number("tool_execution")
      BY <1>2, NumberAppended
    <2> QED
      BY <2>3, <2>4
  <1> QED
    BY <1>1, <1>2

\* Before the provider at work is heard there is no speaker; then it is he.
LEMMA SpeakerAtWork ==
    ASSUME TypeOK, Heard
    PROVE  Speaker \in {None, link}
  BY DEF Speaker, Heard

LEMMA SpeakerNow ==
    ASSUME TypeOK, Heard', NEW t \in {"delta", "tool_execution", "done"},
           Yield(t), UNCHANGED link
    PROVE  Speaker' = link
  <1> DEFINE spoken == {n \in DOMAIN sent : sent[n].type # "thinking"}
  <1>1. /\ Len(sent) + 1 \in DOMAIN sent'
        /\ sent'[Len(sent) + 1].type = t
    BY EventAppended DEF TypeOK, Yield, Event
  <1>2. spoken' # {}
    BY <1>1
  <1>3. \A n \in spoken' : sent'[n].by = link
    BY DEF Heard
  <1> QED
    BY <1>2, <1>3 DEF Speaker

LEMMA ContractStutter ==
    ASSUME ChainInv,
           \/ UNCHANGED sent
           \/ \E i \in {1, 2} :
                sent' = Append(sent, [type |-> "thinking", by |-> i]),
           UNCHANGED <<call, told>>,
           IsStream => UNCHANGED end
    PROVE  UNCHANGED Contract!vars
  BY SameSpeaker DEF ChainInv, IsStream, Contract!vars

LEMMA ContractFail ==
    ASSUME ChainInv,
           \/ UNCHANGED sent
           \/ \E i \in {1, 2} :
                sent' = Append(sent, [type |-> "thinking", by |-> i]),
           UNCHANGED <<call, told>>,
           end = "open", end' \in {"failed", "left"}, IsStream
    PROVE  Contract!Fail
  BY SameSpeaker DEF ChainInv, IsStream, Contract!Fail

LEMMA ContractEnter ==
    ASSUME ChainInv, end = "open", NEW i \in {1, 2}, Enter(i),
           UNCHANGED <<call, told>>
    PROVE  [Contract!Next]_(Contract!vars)
  <1>1. \/ UNCHANGED sent
        \/ sent' = Append(sent, [type |-> "thinking", by |-> i])
    BY DEF Enter
  <1>2. end' = end \/ (end' = "left" /\ IsStream)
    BY DEF Enter, IsStream
  <1> QED
    BY <1>1, <1>2, ContractStutter, ContractFail DEF Contract!Next

LEMMA ContractThrow ==
    ASSUME ChainInv, end = "open", Throw
    PROVE  [Contract!Next]_(Contract!vars)
  <1>1. TypeOK
    BY DEF ChainInv
  <1>2. CASE link + 1 \in {1, 2} /\ Enter(link + 1)
    BY <1>1, <1>2, Thrown, ContractEnter
  <1>3. CASE end' = "failed" /\ UNCHANGED <<link, run, sent, asked>>
    BY <1>1, <1>3, Thrown, ContractStutter, ContractFail DEF Contract!Next
  <1> QED
    BY <1>1, <1>2, <1>3, Thrown

\* Whoever is at work may speak, and is the speaker then.
LEMMA ContractSpeaker ==
    ASSUME ChainInv, ChainInv', end = "open",
           NEW t \in {"delta", "tool_execution", "done"},
           Yield(t), UNCHANGED <<call, link>>
    PROVE  /\ IsStream /\ IsStream'
           /\ link \in {1, 2}
           /\ Contract!May(link)
           /\ Speaker' = link
           /\ \A u : Number(u)' = IF u = t THEN Number(u) + 1 ELSE Number(u)
  <1>1. /\ TypeOK /\ Heard /\ Heard' /\ Modes'
    BY DEF ChainInv
  <1>2. Len(sent) + 1 \in DOMAIN sent'
    BY <1>1, EventAppended DEF TypeOK, Yield, Event
  <1>3. sent' # <<>>
    BY <1>2
  <1>4. IsStream /\ IsStream'
    BY <1>1, <1>3 DEF TypeOK, Modes, IsStream
  <1>5. link \in {1, 2}
    BY <1>1 DEF TypeOK
  <1>6. Contract!May(link)
    BY <1>1, <1>4, SpeakerAtWork DEF Contract!May
  <1>7. Speaker' = link
    BY <1>1, SpeakerNow
  <1>8. \A u : Number(u)' = IF u = t THEN Number(u) + 1 ELSE Number(u)
    BY <1>1, YieldNumber
  <1> QED
    BY <1>4, <1>5, <1>6, <1>7, <1>8

LEMMA ContractSay ==
    ASSUME ChainInv, ChainInv', end = "open", Yield("delta"),
           UNCHANGED <<call, link, end, told>>
    PROVE  Contract!Next
  <1>1. Contract!Say(link)
    BY ContractSpeaker DEF Contract!Say, IsStream
  <1> QED
    BY <1>1, ContractSpeaker DEF Contract!Next

LEMMA ContractShow ==
    ASSUME ChainInv, ChainInv', end = "open", Yield("tool_execution"),
           end' \in {"open", "left"}, UNCHANGED <<call, link, told>>
    PROVE  Contract!Next
  <1>1. Contract!Show(link)
    BY ContractSpeaker DEF Contract!Show, IsStream
  <1> QED
    BY <1>1, ContractSpeaker DEF Contract!Next

LEMMA ContractFinish ==
    ASSUME ChainInv, ChainInv', end = "open", YieldDone,
           UNCHANGED <<call, link>>
    PROVE  Contract!Next
  <1>1. Yield("done") /\ told' = run.total /\ end' = "done"
    BY DEF YieldDone
  <1>2. run.total = Number("delta")
    BY <1>1, ContractSpeaker DEF ChainInv, Tallied, IsStream
  <1>3. Contract!Finish(link)
    BY <1>1, <1>2, ContractSpeaker DEF Contract!Finish, IsStream
  <1> QED
    BY <1>1, <1>3, ContractSpeaker DEF Contract!Next

LEMMA ContractStep ==
    ASSUME ChainInv, ChainInv', [Next]_vars
    PROVE  [Contract!Next]_(Contract!vars)
  <1> TypeOK /\ Modes
    BY DEF ChainInv
  <1>1. CASE Start
    BY <1>1, ContractEnter DEF Start
  <1>2. CASE TurnFails \/ PartsFail \/ ReplyFails
    BY <1>2, ContractThrow DEF TurnFails, PartsFail, ReplyFails, At
  <1>3. CASE TurnText \/ PartText \/ MockWord
    BY <1>3, SpeechStep, ContractSay
  <1>4. CASE TurnTool \/ PartToolCall \/ MockTool \/ ReplyTools
    BY <1>4, UseStep, ContractStutter
  <1>5. CASE TurnToolResult \/ PartToolResult
    <2>1. Yield("tool_execution")
      BY <1>5 DEF TurnToolResult, PartToolResult
    <2> QED
      BY <1>5, <2>1, SettleStep, ContractShow
  <1>6. CASE MockToolResult
    <2>1. CASE Yield("tool_execution")
      BY <1>6, <2>1, SettleStep, ContractShow
    <2>2. CASE UNCHANGED sent
      <3>1. /\ end = "open" /\ end' \in {"open", "left"}
            /\ UNCHANGED <<call, told>>
        BY <1>6, SettleStep
      <3>2. CASE IsStream /\ end' = "left"
        BY <2>2, <3>1, <3>2, ContractFail DEF Contract!Next
      <3>3. CASE ~(IsStream /\ end' = "left")
        BY <2>2, <3>1, <3>3, ContractStutter
      <3> QED
        BY <3>2, <3>3
    <2> QED
      BY <1>6, <2>1, <2>2 DEF MockToolResult
  <1>7. CASE ReplyToolResult
    BY <1>7, ContractStutter DEF ReplyToolResult
  <1>8. CASE TurnEnds \/ PartsEnd \/ MockNoTool
    BY <1>8, WaitStep, ContractStutter
  <1>9. CASE TurnAborted \/ Usage \/ MockDone
    BY <1>9, ContractFinish DEF TurnAborted, Usage, MockDone, At
  <1>10. CASE FinalMessage
    <2>1. end = "open" /\ UNCHANGED <<call, link>>
      BY <1>10 DEF FinalMessage, At
    <2>2. CASE YieldDone
      BY <2>1, <2>2, ContractFinish
    <2>3. CASE UNCHANGED <<sent, end, told>>
      BY <2>1, <2>3, ContractStutter
    <2> QED
      BY <1>10, <2>2, <2>3 DEF FinalMessage
  <1>11. CASE ToolsSettled \/ ReplyText \/ MockComplete
    <2>1. ~IsStream
      BY <1>11
      DEF TypeOK, Modes, IsStream, ToolsSettled, ReplyText, MockComplete, At
    <2>2. UNCHANGED <<sent, call, told>>
      BY <1>11 DEF ToolsSettled, ReplyText, MockComplete, Return
    <2> QED
      BY <2>1, <2>2, ContractStutter
  <1>12. CASE Abort
    BY <1>12, ContractStutter DEF Abort
  <1>13. CASE UNCHANGED vars
    BY <1>13, ContractStutter DEF vars
  <1> QED
    BY <1>1, <1>2, <1>3, <1>4, <1>5, <1>6, <1>7, <1>8, <1>9, <1>10, <1>11,
       <1>12, <1>13 DEF Next, Proceed

LEMMA ContractInit ==
    ASSUME Init
    PROVE  Contract!Init
  <1>1. \A u : Number(u) = 0
    <2>1. \A u : {n \in DOMAIN sent : sent[n].type = u} = {}
      BY DEF Init
    <2> QED
      BY <2>1, FS_EmptySet DEF Number
  <1>2. Speaker = None
    BY DEF Init, Speaker
  <1> QED
    BY <1>1, <1>2 DEF Init, Contract!Init

(* Whatever the deployment, the tools and the model's answers, the chain   *)
(* of providers is the one stream that IAiProvider.stream promises.        *)
THEOREM ImplementsAnswerStream == Spec => KeepsContract
  <1>1. ChainInv /\ ChainInv' /\ [Next]_vars
          => [Contract!Next]_(Contract!vars)
    BY ContractStep
  <1> QED
    BY <1>1, ContractInit, ChainInvariant, PTL
    DEF Spec, KeepsContract, Contract!Spec
=============================================================================
