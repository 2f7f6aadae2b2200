-------------------------- MODULE MCCompletionRaces --------------------------
(***************************************************************************)
(* Requests racing on a chat that already holds one finished turn: the     *)
(* state Completion reaches when First has run alone to its end.           *)
(***************************************************************************)
EXTENDS Completion, TLC

CONSTANTS First, Author, Thread

SeededRow(n, role, t) ==
    [id |-> n, chat |-> Thread, role |-> role, by |-> First, text |-> t]

SeededInit ==
    /\ owner = [c \in Chats |-> IF c = Thread THEN Author ELSE None]
    /\ deleted = {}
    /\ removed = {}
    /\ rows = {SeededRow(1, "user", 0), SeededRow(2, "assistant", MaxDeltas)}
    /\ written = rows
    /\ nextId = 3
    /\ pc = [r \in Requests |-> IF r = First THEN "ended" ELSE "idle"]
    /\ kind = [r \in Requests |-> "completion"]
    /\ user = [r \in Requests |-> IF r = First THEN Author ELSE None]
    /\ target = [r \in Requests |-> IF r = First THEN Thread ELSE None]
    /\ prompt = [r \in Requests |-> IF r = First THEN 1 ELSE 0]
    /\ history = [r \in Requests |-> {}]
    /\ todo = [r \in Requests |-> {}]
    /\ text = [r \in Requests |-> IF r = First THEN MaxDeltas ELSE 0]
    /\ tools = [r \in Requests |-> 0]
    /\ aborted = [r \in Requests |-> FALSE]
    /\ open = [r \in Requests |-> FALSE]
    /\ outcome = [r \in Requests |-> IF r = First THEN "done" ELSE "none"]
    /\ lost = [r \in Requests |-> FALSE]
    /\ refused = [r \in Requests |-> FALSE]

SeededSpec == SeededInit /\ [][Next]_vars

SeededFairSpec == SeededSpec /\ Fairness

RivalSymmetry == Permutations(Requests \ {First})
=============================================================================
