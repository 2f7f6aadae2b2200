----------------------------- MODULE AnswerStream -----------------------------
(***************************************************************************)
(* What IAiProvider.stream promises to the strategy that reads it          *)
(* (ai.provider.ts, and fallback.provider.ts for a composite): text and    *)
(* tool results of one speaker, then one `done` that tells the whole text, *)
(* or an error, or nothing more once the reader has left. A `thinking`     *)
(* says nothing and is a stuttering step.                                  *)
(***************************************************************************)
EXTENDS Naturals

CONSTANTS Speakers, None

VARIABLES
    said,   \* how much text has been delivered
    shown,  \* how many tool results have been delivered
    by,     \* whose text and tools they are
    told,   \* how much text `done` tells
    end     \* how the stream ended

vars == <<said, shown, by, told, end>>

Init == said = 0 /\ shown = 0 /\ by = None /\ told = 0 /\ end = "open"

May(p) == end = "open" /\ by \in {None, p}

Say(p) ==
    /\ May(p)
    /\ said' = said + 1
    /\ by' = p
    /\ UNCHANGED <<shown, told, end>>

\* A tool may be shown to a reader that leaves with it.
Show(p) ==
    /\ May(p)
    /\ shown' = shown + 1
    /\ by' = p
    /\ end' \in {"open", "left"}
    /\ UNCHANGED <<said, told>>

Finish(p) ==
    /\ May(p)
    /\ by' = p
    /\ told' = said
    /\ end' = "done"
    /\ UNCHANGED <<said, shown>>

Fail ==
    /\ end = "open"
    /\ end' \in {"failed", "left"}
    /\ UNCHANGED <<said, shown, by, told>>

Next == Fail \/ \E p \in Speakers : Say(p) \/ Show(p) \/ Finish(p)

Spec == Init /\ [][Next]_vars

================================================================================
