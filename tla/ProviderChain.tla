----------------------------- MODULE ProviderChain -----------------------------
(***************************************************************************)
(* The AI provider behind one completion: the composite of a primary and a *)
(* secondary, Anthropic's agentic loop over tool calls, the providers on   *)
(* the AI SDK, the mock, and the tool registry they call into.             *)
(*                                                                         *)
(* A step is the code from one await to the next. A yielded event goes     *)
(* through the strategy to the controller's pump and the generator is      *)
(* resumed before anything else runs; a pump that sees the aborted signal  *)
(* returns the generator instead (Completion models that side).            *)
(***************************************************************************)
EXTENDS Naturals, Sequences, FiniteSets

CONSTANTS
    Deployments,    \* sets of API keys a deployment may have
    Tools,          \* ALL_TOOLS
    Unheard,        \* a tool name no tool has
    MaxTurns,       \* AI.MAX_TOOL_ITERATIONS
    MaxText,        \* bound: text deltas in a turn
    MaxUses,        \* bound: tool calls in a turn
    None

ASSUME ChainAssumption ==
    /\ Deployments \subseteq SUBSET {"anthropic", "groq", "openai"}
    /\ Unheard \notin Tools
    /\ MaxTurns \in Nat \ {0} /\ MaxText \in Nat /\ MaxUses \in Nat
    /\ None \notin {1, 2}

VARIABLES
    call,       \* what was asked: keys, mode, and the flags of the caller
    link,       \* which provider of the chain is at work
    run,        \* where it stands
    started,    \* primaryStarted
    sent,       \* the events yielded to the strategy
    asked,      \* was the client there when a model was last asked?
    aborted,    \* signal.aborted
    end,        \* how the call ended
    told        \* how much text `done` told

vars == <<call, link, run, started, sent, asked, aborted, end, told>>

--------------------------------------------------------------------------------
(* Wiring                                                                  *)

\* The prime provider of a deployment: Anthropic with Groq behind it when
\* both keys are there, else the first one configured, else the mock.
Chain(keys) ==
    IF {"anthropic", "groq"} \subseteq keys THEN <<"anthropic", "groq">>
    ELSE IF "anthropic" \in keys THEN <<"anthropic">>
    ELSE IF "openai" \in keys THEN <<"openai">>
    ELSE IF "groq" \in keys THEN <<"groq">>
    ELSE <<"mock">>

Kind(i) == Chain(call.keys)[i]
AiSdk == {"groq", "openai"}

Names == Tools \cup {Unheard}

\* The AI SDK rejects a name it was not given before any tool runs; the
\* Anthropic service keeps to the list it was given but may misspell a name.
Callable(kind, offered) ==
    IF offered = {} THEN {}
    ELSE IF kind = "anthropic" THEN offered \cup {Unheard} ELSE offered

\* The tools the model is told of: the master flag, then each tool's own.
Offered == IF call.aiTools THEN call.enabled ELSE {}

--------------------------------------------------------------------------------
(* State                                                                   *)

\* A provider that has not spoken: no turn, no text, no tool calls, and an
\* empty list of tool turns sent back to the model.
Fresh ==
    [pc |-> "idle", turn |-> 1, text |-> 0, total |-> 0, uses |-> <<>>,
     busy |-> {}, results |-> {}, stop |-> "end_turn", talk |-> <<>>]

Init ==
    /\ call \in [keys : Deployments, mode : {"stream", "complete"},
                 aiTools : BOOLEAN, enabled : SUBSET Tools]
    /\ link = 1
    /\ run = Fresh
    /\ started = FALSE
    /\ sent = <<>>
    /\ asked = "never"
    /\ aborted = FALSE
    /\ end = "open"
    /\ told = 0

Event(type) == [type |-> type, by |-> link]

At(kinds, pc) == end = "open" /\ Kind(link) \in kinds /\ run.pc = pc

\* Where a provider first awaits.
Entry(kind) ==
    IF kind = "mock" THEN "intent"
    ELSE IF call.mode = "complete" THEN "asking"
    ELSE IF kind = "anthropic" THEN "turn" ELSE "parts"

\* A request to a model.
Ask == asked' = IF aborted THEN "gone" ELSE "there"

\* Provider i begins: a stream yields `thinking` first.
Enter(i) ==
    /\ link' = i
    /\ IF call.mode = "stream"
       THEN sent' = Append(sent, [type |-> "thinking", by |-> i])
       ELSE UNCHANGED sent
    /\ IF call.mode = "stream" /\ aborted
       THEN /\ end' = "left"
            /\ run' = Fresh
            /\ UNCHANGED asked
       ELSE /\ run' = [Fresh EXCEPT !.pc = Entry(Kind(i))]
            /\ IF Kind(i) = "mock" THEN UNCHANGED asked ELSE Ask
            /\ UNCHANGED end

Start ==
    /\ end = "open"
    /\ run.pc = "idle"
    /\ Enter(1)
    /\ UNCHANGED <<call, started, aborted, told>>

\* An event that commits the composite to the primary.
Yield(type) ==
    /\ sent' = Append(sent, Event(type))
    /\ started' = TRUE

\* The pump looks at the signal when the event reaches it.
Pumped == end' = IF aborted THEN "left" ELSE end

\* The stream's last event; the strategy persists it whether or not the
\* client is still there.
YieldDone ==
    /\ Yield("done")
    /\ told' = run.total
    /\ end' = "done"

\* Mutant of Throw: the secondary is tried whatever was sent.
ThrowAlwaysFallsBack ==
    /\ IF link < Len(Chain(call.keys))
       THEN Enter(link + 1)
       ELSE end' = "failed" /\ UNCHANGED <<link, run, sent, asked>>
    /\ UNCHANGED <<call, started, aborted, told>>

\* An error leaves the provider at work: the composite starts the secondary
\* from the beginning unless its primary has been heard.
Throw ==
    /\ IF link < Len(Chain(call.keys)) /\ ~started
       THEN Enter(link + 1)
       ELSE end' = "failed" /\ UNCHANGED <<link, run, sent, asked>>
    /\ UNCHANGED <<call, started, aborted, told>>

--------------------------------------------------------------------------------
(* Tools                                                                   *)

\* Mutant of Settle: a tool that failed leaves no answer behind.
SettleLosing(b) ==
    [run EXCEPT !.busy = @ \ {b},
                !.results = IF run.uses[b] = Unheard THEN @ ELSE @ \cup {b}]

\* executeTool resolves, for an unknown name, arguments the schema rejects and
\* a tool that throws with an error for an answer; search_web ends by its own
\* timer, not by the signal of the request.
Settle(b) ==
    [run EXCEPT !.busy = @ \ {b}, !.results = @ \cup {b}]

UseTool(name) ==
    /\ Len(run.uses) < MaxUses
    /\ LET b == Len(run.uses) + 1
       IN  run' = [run EXCEPT !.uses = Append(@, name),
                              !.busy = @ \cup {b}]

--------------------------------------------------------------------------------
(* Anthropic, streaming                                                    *)

\* A text delta arrives with the signal clear.
TurnText ==
    /\ At({"anthropic"}, "turn") /\ call.mode = "stream"
    /\ ~aborted
    /\ run.busy = {}
    /\ run.text < MaxText
    /\ run' = [run EXCEPT !.text = @ + 1, !.total = @ + 1]
    /\ Yield("delta")
    /\ UNCHANGED <<call, link, asked, aborted, end, told>>

\* A tool_use block stops: the tool runs while the stream waits.
TurnTool ==
    /\ At({"anthropic"}, "turn") /\ call.mode = "stream"
    /\ ~aborted
    /\ run.busy = {}
    /\ \E name \in Callable("anthropic", Offered) : UseTool(name)
    /\ UNCHANGED <<call, link, started, sent, asked, aborted, end, told>>

TurnToolResult ==
    /\ At({"anthropic"}, "turn") /\ call.mode = "stream"
    /\ \E b \in run.busy : run' = Settle(b)
    /\ Yield("tool_execution")
    /\ Pumped
    /\ UNCHANGED <<call, link, asked, aborted, told>>

\* The turn's stream is read to its end with the signal clear: its final
\* message is awaited.
TurnEnds ==
    /\ At({"anthropic"}, "turn") /\ call.mode = "stream"
    /\ ~aborted
    /\ run.busy = {}
    /\ \E stop \in {"end_turn", "max_tokens"} \cup
                    (IF run.uses = <<>> THEN {} ELSE {"tool_use"}) :
        run' = [run EXCEPT !.pc = "final", !.stop = stop]
    /\ UNCHANGED <<call, link, started, sent, asked, aborted, end, told>>

\* The next event, or the end of the turn, finds the signal aborted.
TurnAborted ==
    /\ At({"anthropic"}, "turn") /\ call.mode = "stream"
    /\ aborted
    /\ run.busy = {}
    /\ YieldDone
    /\ UNCHANGED <<call, link, run, asked, aborted>>

\* Mutant of Reply: the loop does not count.
ReplyUncounted ==
    [Fresh EXCEPT
        !.total = run.total,
        !.pc = IF call.mode = "stream" THEN "turn" ELSE "asking",
        !.talk = IF run.talk # <<>> THEN run.talk
                 ELSE Append(run.talk,
                        [uses |-> DOMAIN run.uses, results |-> run.results])]

\* The assistant's turn and the results of its tools go back to the model.
Reply ==
    [Fresh EXCEPT
        !.turn = run.turn + 1, !.total = run.total,
        !.pc = IF call.mode = "stream" THEN "turn" ELSE "asking",
        !.talk = Append(run.talk,
                    [uses |-> DOMAIN run.uses, results |-> run.results])]

Again == run.stop = "tool_use" /\ run.results # {}

\* Mutant of FinalMessage: the loop does not look at the signal.
FinalMessageBlind ==
    /\ At({"anthropic"}, "final")
    /\ IF Again /\ run.turn < MaxTurns
       THEN /\ run' = Reply
            /\ Ask
            /\ UNCHANGED <<started, sent, end, told>>
       ELSE YieldDone /\ UNCHANGED <<run, asked>>
    /\ UNCHANGED <<call, link, aborted>>

\* The final message: another turn when tools were called, there are turns
\* left and the client is still there.
FinalMessage ==
    /\ At({"anthropic"}, "final")
    /\ IF Again /\ run.turn < MaxTurns /\ ~aborted
       THEN /\ run' = Reply
            /\ Ask
            /\ UNCHANGED <<started, sent, end, told>>
       ELSE YieldDone /\ UNCHANGED <<run, asked>>
    /\ UNCHANGED <<call, link, aborted>>

TurnFails ==
    /\ \/ At({"anthropic"}, "turn") /\ run.busy = {}
       \/ At({"anthropic"}, "final")
    /\ call.mode = "stream"
    /\ Throw

--------------------------------------------------------------------------------
(* Groq and OpenAI, streaming                                              *)

\* A part of the SDK's stream is read with the signal clear.
Part == At(AiSdk, "parts") /\ ~aborted

PartText ==
    /\ Part
    /\ run.text < MaxText
    /\ run' = [run EXCEPT !.text = @ + 1, !.total = @ + 1]
    /\ Yield("delta")
    /\ UNCHANGED <<call, link, asked, aborted, end, told>>

\* A tool-call part: the SDK runs the tool while it reads on.
PartToolCall ==
    /\ Part
    /\ \E name \in Callable(Kind(link), Offered) : UseTool(name)
    /\ UNCHANGED <<call, link, started, sent, asked, aborted, end, told>>

PartToolResult ==
    /\ Part
    /\ \E b \in run.busy : run' = Settle(b)
    /\ Yield("tool_execution")
    /\ UNCHANGED <<call, link, asked, aborted, end, told>>

\* The stream closes when its tools have settled, or is left.
PartsEnd ==
    /\ At(AiSdk, "parts")
    /\ aborted \/ run.busy = {}
    /\ run' = [run EXCEPT !.pc = "usage"]
    /\ UNCHANGED <<call, link, started, sent, asked, aborted, end, told>>

\* The usage is known or could not be parsed.
Usage ==
    /\ At(AiSdk, "usage")
    /\ YieldDone
    /\ UNCHANGED <<call, link, run, asked, aborted>>

\* An error part, or a stream that throws.
PartsFail ==
    /\ At(AiSdk, "parts")
    /\ Throw

--------------------------------------------------------------------------------
(* The mock                                                                *)

\* No tool recognises the prompt, or none is offered.
MockNoTool ==
    /\ At({"mock"}, "intent")
    /\ run.uses = <<>>
    /\ run' = [run EXCEPT !.pc = "words"]
    /\ UNCHANGED <<call, link, started, sent, asked, aborted, end, told>>

\* The first tool that recognises the prompt runs, on what it made of it.
MockTool ==
    /\ At({"mock"}, "intent")
    /\ run.uses = <<>>
    /\ \E name \in Offered : UseTool(name)
    /\ UNCHANGED <<call, link, started, sent, asked, aborted, end, told>>

\* With the signal aborted the stream ends without `done`.
MockToolResult ==
    /\ At({"mock"}, "intent")
    /\ \E b \in run.busy : run' = [Settle(b) EXCEPT !.pc = "words"]
    /\ IF call.mode = "complete" \/ aborted
       THEN UNCHANGED <<started, sent>> ELSE Yield("tool_execution")
    /\ IF call.mode = "stream" THEN Pumped ELSE UNCHANGED end
    /\ UNCHANGED <<call, link, asked, aborted, told>>

MockWord ==
    /\ At({"mock"}, "words") /\ call.mode = "stream"
    /\ ~aborted
    /\ run.text < MaxText
    /\ run' = [run EXCEPT !.text = @ + 1, !.total = @ + 1]
    /\ Yield("delta")
    /\ UNCHANGED <<call, link, asked, aborted, end, told>>

MockDone ==
    /\ At({"mock"}, "words") /\ call.mode = "stream"
    /\ aborted \/ run.text = MaxText
    /\ YieldDone
    /\ UNCHANGED <<call, link, run, asked, aborted>>

\* The result goes to the JSON strategy: the text of the last reply.
Return ==
    /\ end' = "done"
    /\ UNCHANGED <<call, link, run, started, sent, asked, aborted, told>>

MockComplete ==
    /\ At({"mock"}, "words") /\ call.mode = "complete"
    /\ Return

--------------------------------------------------------------------------------
(* The JSON path                                                           *)

\* A reply without tool calls, or cut short: its text is the result.
ReplyText ==
    /\ At({"anthropic"} \cup AiSdk, "asking")
    /\ run.uses = <<>>
    /\ Return

\* A reply with tool calls, listed one by one, which run side by side.
ReplyTools ==
    /\ At({"anthropic"} \cup AiSdk, "asking")
    /\ run.results = {}
    /\ \E name \in Callable(Kind(link), Offered) : UseTool(name)
    /\ UNCHANGED <<call, link, started, sent, asked, aborted, end, told>>

ReplyToolResult ==
    /\ At({"anthropic"} \cup AiSdk, "asking")
    /\ \E b \in run.busy : run' = Settle(b)
    /\ UNCHANGED <<call, link, started, sent, asked, aborted, end, told>>

\* All of them have settled: Anthropic is asked again while turns are left;
\* the SDK makes one step and returns.
ToolsSettled ==
    /\ At({"anthropic"} \cup AiSdk, "asking")
    /\ run.uses # <<>>
    /\ run.busy = {}
    /\ IF Kind(link) = "anthropic" /\ run.turn < MaxTurns
       THEN /\ run' = Reply
            /\ Ask
            /\ UNCHANGED <<call, link, started, sent, aborted, end, told>>
       ELSE Return

ReplyFails ==
    /\ At({"anthropic"} \cup AiSdk, "asking")
    /\ run.uses = <<>>
    /\ Throw

--------------------------------------------------------------------------------

\* The client goes away; a JSON request has no signal.
Abort ==
    /\ call.mode = "stream"
    /\ ~aborted
    /\ aborted' = TRUE
    /\ UNCHANGED <<call, link, run, started, sent, asked, end, told>>

Proceed ==
    \/ Start
    \/ TurnText \/ TurnTool \/ TurnToolResult \/ TurnEnds \/ TurnAborted
    \/ FinalMessage \/ TurnFails
    \/ PartText \/ PartToolCall \/ PartToolResult \/ PartsEnd \/ Usage
    \/ PartsFail
    \/ MockNoTool \/ MockTool \/ MockToolResult \/ MockWord \/ MockDone
    \/ MockComplete
    \/ ReplyText \/ ReplyTools \/ ReplyToolResult \/ ToolsSettled \/ ReplyFails

Next == Proceed \/ Abort

\* A service answers or fails within the SDK's timeout, and a tool ends by its
\* timer, so the code's steps are not put off for ever.
Spec == Init /\ [][Next]_vars /\ WF_vars(Proceed)

--------------------------------------------------------------------------------
(* Properties                                                              *)

Run ==
    [pc : {"idle", "intent", "words", "asking", "turn", "final", "parts",
           "usage"},
     turn : 1 .. MaxTurns, text : Nat, total : Nat, uses : Seq(Names),
     busy : SUBSET Nat, results : SUBSET Nat,
     stop : {"end_turn", "max_tokens", "tool_use"},
     talk : Seq([uses : SUBSET Nat, results : SUBSET Nat])]

Said ==
    [type : {"thinking", "delta", "tool_execution", "done"}, by : {1, 2}]

TypeOK ==
    /\ call \in [keys : Deployments, mode : {"stream", "complete"},
                 aiTools : BOOLEAN, enabled : SUBSET Tools]
    /\ link \in {1, 2}
    /\ run \in Run
    /\ started \in BOOLEAN
    /\ sent \in Seq(Said)
    /\ asked \in {"never", "there", "gone"}
    /\ aborted \in BOOLEAN
    /\ end \in {"open", "done", "failed", "left"}
    /\ told \in Nat

Number(type) == Cardinality({i \in DOMAIN sent : sent[i].type = type})

Speaker ==
    LET spoken == {i \in DOMAIN sent : sent[i].type # "thinking"}
    IN  IF spoken = {} THEN None ELSE sent[CHOOSE i \in spoken : TRUE].by

IsStream == call.mode = "stream"

Contract == INSTANCE AnswerStream WITH
    Speakers <- {1, 2},
    said <- Number("delta"),
    shown <- Number("tool_execution"),
    by <- Speaker,
    told <- told,
    end <- IF IsStream THEN end ELSE "open"

(* The chain keeps the promise of IAiProvider.stream: once a provider has   *)
(* been heard nobody else is (fallback.provider.ts:11-13), and `done` comes *)
(* once, last, and tells all the text that was sent.                        *)
KeepsContract == Contract!Spec

(* The Anthropic API refuses a transcript in which a tool_use has no        *)
(* tool_result: every turn sent back has one for each, also for a tool that *)
(* is unknown, was given bad arguments or threw (anthropic.provider.ts,     *)
(* registry.ts executeTool).                                                *)
EveryUseIsAnswered ==
    \A i \in DOMAIN run.talk : run.talk[i].results = run.talk[i].uses

(* No model is asked for anything once the client has gone, neither for     *)
(* another turn nor by falling back on the secondary.                       *)
NoRequestAfterAbort == asked # "gone"

(* Every call ends, however many tools the model asks for and whenever the  *)
(* client goes (AI.MAX_TOOL_ITERATIONS).                                    *)
CallsEnd == <>(end # "open")

================================================================================
