----------------------------- MODULE Conversation -----------------------------
(***************************************************************************)
(* What the chat module promises about a conversation, without saying how: *)
(* a request asks once or takes over the newest question, may retract      *)
(* answers newer than it, answers it, and is then over. Completion is      *)
(* shown to implement this.                                                *)
(***************************************************************************)
EXTENDS Naturals, FiniteSets

CONSTANTS
    Chats,
    Requests,
    Sizes       \* how much text an answer may hold

VARIABLES
    rows,       \* the messages that can be read
    nextId,     \* the place of the next message
    stage,      \* how far each request has come
    question    \* id of the user row a request answers, 0 before it has one

vars == <<rows, nextId, stage, question>>

Stages == {"new", "asked", "answered", "over"}

Init ==
    /\ rows = {}
    /\ nextId = 1
    /\ stage = [r \in Requests |-> "new"]
    /\ question = [r \in Requests |-> 0]

Step(r, from, to) ==
    /\ stage[r] \in from
    /\ \E s \in to : stage' = [stage EXCEPT ![r] = s]

Post(c, role, r, n) ==
    /\ rows' = rows \cup {[id |-> nextId, chat |-> c, role |-> role,
                           by |-> r, text |-> n]}
    /\ nextId' = nextId + 1

Questions == {m \in rows : m.role = "user"}

QuestionOf(r) == {q \in Questions : q.id = question[r]}

\* A request posts its question; if it never learns so, it is over.
Ask(r, c) ==
    /\ Post(c, "user", r, 0)
    /\ \/ /\ Step(r, {"new"}, {"asked"})
          /\ question' = [question EXCEPT ![r] = nextId]
       \/ /\ Step(r, {"new"}, {"over"})
          /\ UNCHANGED question

\* A request takes over the newest question of a chat.
Recall(r, q) ==
    /\ Step(r, {"new"}, {"asked"})
    /\ \A k \in Questions : k.chat = q.chat => k.id <= q.id
    /\ question' = [question EXCEPT ![r] = q.id]
    /\ UNCHANGED <<rows, nextId>>

\* A request that has not answered yet withdraws a later answer.
Retract(r, m) ==
    /\ Step(r, {"asked"}, {"asked", "over"})
    /\ m.role = "assistant"
    /\ \E q \in QuestionOf(r) : q.chat = m.chat /\ q.id < m.id
    /\ rows' = rows \ {m}
    /\ UNCHANGED <<nextId, question>>

\* The answer follows its question, in the same chat. A request whose answer
\* was not acknowledged may post it once more.
Answer(r, n) ==
    /\ \E q \in QuestionOf(r) : Post(q.chat, "assistant", r, n)
    /\ \/ Step(r, {"asked"}, {"answered", "over"})
       \/ Step(r, {"answered"}, {"over"})
    /\ UNCHANGED question

GiveUp(r) ==
    /\ Step(r, {"new", "asked", "answered"}, {"over"})
    /\ UNCHANGED <<rows, nextId, question>>

\* An account goes and takes whole chats with it.
Forget(C) ==
    /\ rows' = {m \in rows : m.chat \notin C}
    /\ UNCHANGED <<nextId, stage, question>>

Next ==
    \/ \E r \in Requests :
        \/ \E c \in Chats : Ask(r, c)
        \/ \E q \in Questions : Recall(r, q)
        \/ \E m \in rows : Retract(r, m)
        \/ \E n \in Sizes : Answer(r, n)
        \/ GiveUp(r)
    \/ \E C \in SUBSET Chats : Forget(C)

Spec == Init /\ [][Next]_vars
===============================================================================
