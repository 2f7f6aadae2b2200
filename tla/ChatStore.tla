------------------------------ MODULE ChatStore ------------------------------
(***************************************************************************)
(* The two Prisma tables behind the chat module, `chats` and `messages`,   *)
(* with the rows of `users` they hang from, and the operations on a chat   *)
(* that are one conditional UPDATE or DELETE each.                         *)
(*                                                                         *)
(* A message row keeps what the properties tell apart: its place in        *)
(* createdAt order (id), its chat, its role, the request that wrote it     *)
(* and, for an answer, how many non-blank deltas of text it holds.         *)
(***************************************************************************)
EXTENDS Naturals, FiniteSets

CONSTANTS
    Users,          \* accounts
    Chats,          \* chat ids that may be handed out
    Requests,       \* completion and regenerate requests
    None,         \* no account and no chat
    HistoryLimit    \* LIMITED_HISTORY_COUNT * 2

ASSUME NoneAssumption == None \notin Users \cup Chats
ASSUME HistoryLimitAssumption == HistoryLimit \in Nat \ {0}

VARIABLES
    owner,      \* chats.userId
    deleted,    \* chats whose deletedAt is set
    removed,    \* accounts an administrator deleted
    rows,       \* the messages table
    written,    \* history variable: every message row ever committed
    nextId      \* createdAt order of the next message row

storeVars == <<owner, deleted, removed, rows, written, nextId>>
chatVars == <<owner, deleted, removed>>

Roles == {"user", "assistant"}

Row == [id : Nat, chat : Chats, role : Roles, by : Requests, text : Nat]

StoreTypeOK ==
    /\ owner \in [Chats -> Users \cup {None}]
    /\ deleted \subseteq Chats
    /\ removed \subseteq Users
    /\ rows \subseteq Row
    /\ written \subseteq Row
    /\ nextId \in Nat

StoreInit ==
    /\ owner = [c \in Chats |-> None]
    /\ deleted = {}
    /\ removed = {}
    /\ rows = {}
    /\ written = {}
    /\ nextId = 1

-----------------------------------------------------------------------------
(* Queries of the two repositories.                                        *)

\* The row of c is in the table: its owner's removal cascades to it.
ChatExists(c) == owner[c] \in Users \ removed

\* Mutant of Owns: the query has lost its userId condition.
OwnsIgnoringUser(u, c) ==
    /\ ChatExists(c)
    /\ c \notin deleted

\* findByIdForUser finds a row: an archived chat counts, a tombstoned one
\* does not. Archiving changes nothing else here: see ChatLists.
Owns(u, c) ==
    /\ ChatExists(c)
    /\ owner[c] = u
    /\ c \notin deleted

RowsOf(c) == {m \in rows : m.chat = c}

Newest(S) == {m \in S : \A k \in S : k.id <= m.id}

Oldest(S) == {m \in S : \A k \in S : m.id <= k.id}

\* findLastN: the HistoryLimit newest messages of a chat.
LastMessages(c) ==
    {m \in RowsOf(c) :
        Cardinality({k \in RowsOf(c) : k.id > m.id}) < HistoryLimit}

\* findLastUserMessageIndex: the newest user message among those read.
LastUserMessage(recent) == Newest({m \in recent : m.role = "user"})

\* Mutants of StaleAnswers: every row from the prompt on, and the answers of
\* every earlier turn.
StaleFromPrompt(recent, p) == {m \in recent : m.id >= p.id}

StaleAnywhere(recent, p) == {m \in recent : m.role = "assistant"}

\* The rows dropTrailingAssistantMessages walks: answers after the prompt p.
StaleAnswers(recent, p) == {m \in recent : m.role = "assistant" /\ m.id > p.id}

-----------------------------------------------------------------------------
(* Writes to the messages table.                                           *)

\* messages.create: the foreign key refuses a chat that is gone.
InsertRow(c, role, r, n) ==
    LET m == [id |-> nextId, chat |-> c, role |-> role, by |-> r, text |-> n]
    IN  /\ ChatExists(c)
        /\ rows' = rows \cup {m}
        /\ written' = written \cup {m}
        /\ nextId' = nextId + 1
        /\ UNCHANGED chatVars

\* messages.deleteById on a row that is still there.
DeleteRow(m) ==
    /\ m \in rows
    /\ rows' = rows \ {m}
    /\ UNCHANGED <<written, nextId, chatVars>>

-----------------------------------------------------------------------------
(* Operations on a chat. A guard that fails is a 404 and changes nothing.  *)

CreateChat(u, c) ==
    /\ owner[c] = None
    /\ u \notin removed
    /\ owner' = [owner EXCEPT ![c] = u]
    /\ UNCHANGED <<deleted, removed, rows, written, nextId>>

DeleteChat(u, c) ==
    /\ Owns(u, c)
    /\ deleted' = deleted \cup {c}
    /\ UNCHANGED <<owner, removed, rows, written, nextId>>

\* Mutant of RemoveUser: the foreign key of messages does not cascade.
RemoveUserKeepingRows(u) ==
    /\ u \notin removed
    /\ removed' = removed \cup {u}
    /\ UNCHANGED <<owner, deleted, rows, written, nextId>>

\* An administrator deletes the account; chats and messages cascade.
RemoveUser(u) ==
    /\ u \notin removed
    /\ removed' = removed \cup {u}
    /\ rows' = {m \in rows : owner[m.chat] # u}
    /\ UNCHANGED <<owner, deleted, written, nextId>>

StoreNext ==
    \/ \E u \in Users, c \in Chats :
        \/ CreateChat(u, c)
        \/ DeleteChat(u, c)
    \/ \E u \in Users : RemoveUser(u)
=============================================================================
