------------------------------ MODULE ChatLists ------------------------------
(***************************************************************************)
(* The lists of chats: the sidebar (useChatList), which stays mounted, the *)
(* archive page (useArchivedChats), which comes and goes with its route,   *)
(* the chat page's own archive and delete, and the paged queries and       *)
(* guarded updates of the server they all talk to. Another window of the   *)
(* same user changes the chats too.                                        *)
(*                                                                         *)
(* A chat is its place in the order of creation: the newest is the largest *)
(* number. A cursor is a chat, 0 is null.                                  *)
(***************************************************************************)
EXTENDS Lists, SequencesExt

CONSTANTS
    MaxChats,   \* chats that can be created
    Existing,   \* chats that exist when the app opens
    Limits,     \* values PAGINATION_LIMIT takes
    MaxActs,    \* bound: clicks on archive, delete, restore and send
    MaxForeign, \* bound: changes by the other window
    MaxVisits,  \* bound: visits of the archive page
    MaxMore     \* bound: clicks on "Load more"

ASSUME ChatListsAssumption ==
    /\ MaxChats \in Nat /\ Existing \in 0..MaxChats
    /\ Limits \subseteq Nat \ {0}
    /\ {MaxActs, MaxForeign, MaxVisits, MaxMore} \subseteq Nat

Chats == 1..MaxChats

VARIABLES
    place,      \* where the server has each chat
    side,       \* the sidebar's state
    first,      \* its load of the first page that no cleanup has cancelled
    more,       \* its load of a further page
    arch,       \* the state of the archive page
    archFirst, archMore,
    acts,       \* requests that change a chat, and what each must undo
    lapses,     \* history: why the sidebar may differ from the server
    archLapses, \* the same of the archive page
    spent       \* what the bounds have left

sideVars == <<side, first, more, lapses>>
archVars == <<arch, archFirst, archMore, archLapses>>
vars == <<place, sideVars, archVars, acts, spent>>

Places == {"none", "active", "archived", "deleted"}

Ops == {"archive", "delete", "restore", "create"}

\* A chat, or 0 for none.
Cursors == 0..MaxChats

\* A load of a page: the request and what answers it.
Slots ==
    [stage : {"none", "asked", "answered"}, cursor : Cursors,
     data : Seq(Chats), next : Cursors, fresh : BOOLEAN]

Acts ==
    [id : Nat, op : Ops, chat : Cursors, from : {"side", "page", "arch"},
     dialog : BOOLEAN, shown : BOOLEAN, elsewhere : BOOLEAN,
     undo : Seq(Chats), stage : {"sent", "committed", "refused"}]

TypeOK ==
    /\ place \in [Chats -> Places]
    /\ side \in [list : Seq(Chats), cursor : Cursors, confirm : Cursors,
                 loading : BOOLEAN, error : BOOLEAN]
    /\ arch \in [open : BOOLEAN, list : Seq(Chats), cursor : Cursors,
                 loading : BOOLEAN]
    /\ {first, more, archFirst, archMore} \subseteq Slots
    /\ acts \subseteq Acts
    /\ lapses \subseteq {"behind", "unread", "mixed", "rolledback"}
    /\ archLapses \subseteq {"behind"}
    /\ spent \in [{"acts", "foreign", "visits", "more"} -> Nat]

At(where) == {c \in Chats : place[c] = where}

\* The chats of a filter, as the query orders them.
Rows(where) == Descending(At(where))

None == [stage |-> "none", cursor |-> 0, data |-> <<>>, next |-> 0,
         fresh |-> TRUE]

Asked(cursor) == [None EXCEPT !.stage = "asked", !.cursor = cursor]

\* `confirm` is the chat that one of the sidebar's dialogs asks about.
Empty == [list |-> <<>>, cursor |-> 0, confirm |-> 0,
          loading |-> TRUE, error |-> FALSE]

Archive(open) == [open |-> open, list |-> <<>>, cursor |-> 0, loading |-> TRUE]

Without(c, s) == Filter(s, Chats \ {c})

Init ==
    /\ place \in [Chats -> {"none", "active", "archived"}]
    /\ \A c \in Chats : place[c] = "none" <=> c > Existing
    /\ side = Empty /\ first = Asked(0) /\ more = None
    /\ arch = Archive(FALSE)
    /\ archFirst = None /\ archMore = None
    /\ acts = {}
    /\ lapses = {} /\ archLapses = {}
    /\ spent = [acts |-> 0, foreign |-> 0, visits |-> 0, more |-> 0]

-----------------------------------------------------------------------------
(* Pages. The query seeks the cursor's row whether or not the filter still *)
(* keeps it, and skips one row from there.                                 *)

SkipTo(cursor, where) ==
    IF cursor = 0 THEN Rows(where)
    ELSE LET rest == Descending({c \in At(where) : c <= cursor})
         IN  IF rest = <<>> THEN rest ELSE Tail(rest)

\* buildPagedResult; rows past the one over-fetched make no difference.
PageOf(slot, where, limit) ==
    LET rows == SkipTo(slot.cursor, where)
        over == Len(rows) > limit
    IN  [slot EXCEPT !.stage = "answered",
                     !.data = IF over THEN SubSeq(rows, 1, limit) ELSE rows,
                     !.next = IF over THEN rows[limit] ELSE 0]

\* History: what has been answered is no longer what the server has.
Aged(slot) ==
    IF slot.stage = "answered" THEN [slot EXCEPT !.fresh = FALSE] ELSE slot

\* The server answers a request for a page of the active chats, or of the
\* archived ones.
AnswerChats(limit) ==
    /\ \/ /\ first.stage = "asked"
          /\ first' = PageOf(first, "active", limit)
          /\ UNCHANGED more
       \/ /\ more.stage = "asked"
          /\ more' = PageOf(more, "active", limit)
          /\ UNCHANGED first
    /\ UNCHANGED <<place, side, lapses, archVars, acts, spent>>

AnswerArchived(limit) ==
    /\ \/ /\ archFirst.stage = "asked"
          /\ archFirst' = PageOf(archFirst, "archived", limit)
          /\ UNCHANGED archMore
       \/ /\ archMore.stage = "asked"
          /\ archMore' = PageOf(archMore, "archived", limit)
          /\ UNCHANGED archFirst
    /\ UNCHANGED <<place, sideVars, arch, archLapses, acts, spent>>

-----------------------------------------------------------------------------
(* The sidebar.                                                            *)

\* Mutant of Refetch: a load that is under way is joined.
RefetchJoined(list, loading) ==
    /\ side' = [side EXCEPT !.list = list, !.loading = loading,
                            !.error = FALSE]
    /\ first' = IF first.stage = "none" THEN Asked(0) ELSE first
    /\ UNCHANGED more

\* The effect, after its cleanup has cancelled the load before. A further
\* page that is under way is not cancelled, and may land in the new list.
Refetch(list, loading) ==
    /\ side' = [side EXCEPT !.list = list, !.loading = loading,
                            !.error = FALSE]
    /\ first' = Asked(0)
    /\ UNCHANGED more

\* notifyChatDeleted and notifyChatCreated, and the effect they cause.
NotifyDeleted == Refetch(side.list, TRUE)

NotifyCreated(c) == Refetch(<<c>> \o Without(c, side.list), side.loading)

FirstPage ==
    /\ first.stage = "answered"
    /\ side' = [side EXCEPT !.list = first.data, !.cursor = first.next,
                            !.loading = FALSE, !.error = FALSE]
    /\ lapses' = IF first.fresh THEN {} ELSE {"behind"}
    /\ first' = None
    /\ more' = [more EXCEPT !.fresh = more.stage = "none"]
    /\ UNCHANGED <<place, archVars, acts, spent>>

FirstPageFails ==
    /\ first.stage = "asked"
    /\ side' = [side EXCEPT !.loading = FALSE, !.error = TRUE]
    /\ lapses' = lapses \cup {"unread"}
    /\ first' = None
    /\ UNCHANGED <<place, more, archVars, acts, spent>>

\* A dialog is open, or waits for its request: nothing else can be clicked.
Modal == side.confirm # 0 \/ \E a \in acts : a.dialog

\* What can be clicked: the chats that are shown, and "Load more".
Shown(c) == ~side.loading /\ ~side.error /\ c \in ToSet(side.list)

OffersMore ==
    /\ side.cursor # 0 /\ side.list # <<>>
    /\ ~side.loading /\ more.stage = "none"

LoadMore ==
    /\ ~Modal
    /\ OffersMore
    /\ spent.more < MaxMore
    /\ spent' = [spent EXCEPT !.more = @ + 1]
    /\ more' = Asked(side.cursor)
    /\ UNCHANGED <<place, side, first, lapses, archVars, acts>>

\* It lands in whatever the list has become.
MorePage ==
    /\ more.stage = "answered"
    /\ side' = [side EXCEPT !.list = @ \o more.data, !.cursor = more.next]
    /\ lapses' = IF more.fresh THEN lapses ELSE lapses \cup {"mixed"}
    /\ more' = None
    /\ UNCHANGED <<place, first, archVars, acts, spent>>

MoreFails ==
    /\ more.stage = "asked"
    /\ more' = None
    /\ UNCHANGED <<place, side, first, lapses, archVars, acts, spent>>

-----------------------------------------------------------------------------
(* The archive page.                                                       *)

\* Its components are gone: their dialogs close, what they await goes on.
Orphans == {[a EXCEPT !.dialog = a.from = "side", !.shown = FALSE] : a \in acts}

OpenArchive ==
    /\ ~arch.open
    /\ spent.visits < MaxVisits
    /\ spent' = [spent EXCEPT !.visits = @ + 1]
    /\ arch' = Archive(TRUE)
    /\ archFirst' = Asked(0) /\ archMore' = None /\ archLapses' = {}
    /\ acts' = Orphans
    /\ UNCHANGED <<place, sideVars>>

Closed ==
    /\ arch' = Archive(FALSE)
    /\ archFirst' = None /\ archMore' = None /\ archLapses' = {}

LeaveArchive ==
    /\ arch.open
    /\ Closed
    /\ acts' = Orphans
    /\ UNCHANGED <<place, sideVars, spent>>

ArchivePage ==
    /\ archFirst.stage = "answered"
    /\ arch' = [open |-> TRUE, list |-> archFirst.data,
                cursor |-> archFirst.next, loading |-> FALSE]
    /\ archLapses' = IF archFirst.fresh THEN {} ELSE {"behind"}
    /\ archFirst' = None
    /\ UNCHANGED <<place, sideVars, archMore, acts, spent>>

\* A failure is a toast; the page shows the empty state.
ArchivePageFails ==
    /\ archFirst.stage = "asked"
    /\ arch' = [arch EXCEPT !.loading = FALSE]
    /\ archFirst' = None
    /\ UNCHANGED <<place, sideVars, archMore, archLapses, acts, spent>>

ArchShown(c) == arch.open /\ ~arch.loading /\ c \in ToSet(arch.list)

ArchOffersMore ==
    /\ arch.open /\ arch.cursor # 0 /\ arch.list # <<>>
    /\ ~arch.loading /\ archMore.stage = "none"

LoadMoreArchived ==
    /\ ~Modal
    /\ ArchOffersMore
    /\ spent.more < MaxMore
    /\ spent' = [spent EXCEPT !.more = @ + 1]
    /\ archMore' = Asked(arch.cursor)
    /\ UNCHANGED <<place, sideVars, arch, archFirst, archLapses, acts>>

MoreArchived ==
    /\ archMore.stage = "answered"
    /\ arch' = [arch EXCEPT !.list = @ \o archMore.data,
                            !.cursor = archMore.next]
    /\ archLapses' = IF archMore.fresh THEN archLapses
                     ELSE archLapses \cup {"behind"}
    /\ archMore' = None
    /\ UNCHANGED <<place, sideVars, archFirst, acts, spent>>

MoreArchivedFails ==
    /\ archMore.stage = "asked"
    /\ archMore' = None
    /\ UNCHANGED <<place, sideVars, arch, archFirst, archLapses, acts, spent>>

-----------------------------------------------------------------------------
(* Requests that change a chat.                                            *)

\* Its number, who sends it, whether a dialog waits for it, whether its
\* component is still mounted, and the list it puts back.
Act(op, c, from, dialog, undo) ==
    [id |-> spent.acts, op |-> op, chat |-> c, from |-> from,
     dialog |-> dialog, shown |-> TRUE, elsewhere |-> ~arch.open,
     undo |-> undo, stage |-> "sent"]

Send(a) ==
    /\ spent.acts < MaxActs
    /\ spent' = [spent EXCEPT !.acts = @ + 1]
    /\ acts' = acts \cup {a}

\* The menu of a row opens a dialog of the sidebar, which asks first. (What
\* disables the menu, `pendingDelete`, is set only under such a dialog.)
AskToRemove(c) ==
    /\ ~Modal
    /\ spent.acts < MaxActs
    /\ Shown(c)
    /\ side' = [side EXCEPT !.confirm = c]
    /\ UNCHANGED <<place, first, more, lapses, archVars, acts, spent>>

KeepIt ==
    /\ side.confirm # 0
    /\ side' = [side EXCEPT !.confirm = 0]
    /\ UNCHANGED <<place, first, more, lapses, archVars, acts, spent>>

\* handleDelete and handleArchive of the sidebar, up to the await. The row may
\* have left the list, or the list the screen, while the dialog was open.
RemoveFromSidebar(op, c) ==
    /\ op \in {"archive", "delete"}
    /\ side.confirm = c
    /\ side' = [side EXCEPT !.list = Without(c, @), !.confirm = 0]
    /\ Send(Act(op, c, "side", TRUE, <<>>))
    /\ UNCHANGED <<place, first, more, lapses, archVars>>

\* handleDeleteCurrent and handleArchiveCurrent of the chat page, which may
\* have any chat open.
RemoveOpenChat(op, c) ==
    /\ op \in {"archive", "delete"}
    /\ ~Modal
    /\ ~arch.open
    /\ place[c] # "none"
    /\ Send(Act(op, c, "page", TRUE, <<>>))
    /\ UNCHANGED <<place, sideVars, archVars>>

\* handleSend on the page of no chat: createChat. `busy` is set only after it
\* has answered, so that a second one may be sent before.
SendFirstMessage ==
    /\ ~Modal
    /\ ~arch.open
    /\ Send(Act("create", 0, "page", FALSE, <<>>))
    /\ UNCHANGED <<place, sideVars, archVars>>

\* Mutant of DeleteArchived: nothing leaves the list before the answer.
DeleteArchivedPlainly(c) ==
    /\ ~Modal
    /\ ArchShown(c)
    /\ Send(Act("delete", c, "arch", TRUE, arch.list))
    /\ UNCHANGED <<arch, place, sideVars, archFirst, archMore, archLapses>>

\* deletePermanently, up to the await: `previous` is kept.
DeleteArchived(c) ==
    /\ ~Modal
    /\ ArchShown(c)
    /\ arch' = [arch EXCEPT !.list = Without(c, @)]
    /\ Send(Act("delete", c, "arch", TRUE, arch.list))
    /\ UNCHANGED <<place, sideVars, archFirst, archMore, archLapses>>

\* restore, up to the await. No dialog asks for it.
Restore(c) ==
    /\ ~Modal
    /\ ArchShown(c)
    /\ arch' = [arch EXCEPT !.list = Without(c, @)]
    /\ Send(Act("restore", c, "arch", FALSE, <<>>))
    /\ UNCHANGED <<place, sideVars, archFirst, archMore, archLapses>>

\* The guarded updates: a chat that is not where the operation expects it is
\* not found.
Expected(op) ==
    CASE op = "archive" -> {"active"}
      [] op = "restore" -> {"archived"}
      [] op = "delete" -> {"active", "archived"}
      [] op = "create" -> {"none"}

Target(op) ==
    CASE op = "archive" -> "archived"
      [] op = "delete" -> "deleted"
      [] op \in {"restore", "create"} -> "active"

\* A new chat is the one after the newest.
Subject(a) ==
    IF a.op = "create"
    THEN CHOOSE c \in 1..(MaxChats + 1) :
             /\ \A d \in 1..(c - 1) : place[d] # "none"
             /\ c \in Chats => place[c] = "none"
    ELSE a.chat

\* History: the archive page is not told of what others take out of it.
ArchiveUntold ==
    /\ archLapses' = IF arch.open THEN {"behind"} ELSE {}
    /\ archFirst' = Aged(archFirst) /\ archMore' = Aged(archMore)

\* History: nor is the sidebar.
SidebarUntold ==
    /\ lapses' = lapses \cup {"behind"}
    /\ first' = Aged(first) /\ more' = Aged(more)

Commit(a) ==
    LET c == Subject(a) IN
    /\ a.stage = "sent"
    /\ c \in Chats
    /\ IF place[c] \in Expected(a.op)
       THEN /\ place' = [place EXCEPT ![c] = Target(a.op)]
            /\ acts' = (acts \ {a}) \cup
                           {[a EXCEPT !.stage = "committed", !.chat = c]}
            /\ IF a.from = "arch" /\ a.shown
               THEN UNCHANGED <<archFirst, archMore, archLapses>>
               ELSE ArchiveUntold
            /\ IF a.from = "arch" /\ place[c] = "active"
               THEN SidebarUntold
               ELSE UNCHANGED <<first, more, lapses>>
       ELSE /\ acts' = (acts \ {a}) \cup {[a EXCEPT !.stage = "refused"]}
            /\ UNCHANGED <<place, archFirst, archMore, archLapses>>
            /\ UNCHANGED <<first, more, lapses>>
    /\ UNCHANGED <<side, arch, spent>>

\* The request succeeded: what follows the await.
Done(a) ==
    /\ a.stage = "committed"
    /\ \/ /\ a.from = "arch" /\ a.op = "delete"
          /\ acts' = acts \ {a}
          /\ UNCHANGED <<sideVars, archVars>>
       \/ /\ \/ a.from = "page" \/ a.op = "restore"
             \/ a.from = "side" /\ a.elsewhere
          /\ Closed
          /\ acts' = {[b EXCEPT !.dialog = b.from = "side", !.shown = FALSE] :
                         b \in acts \ {a}}
          /\ IF a.op = "create" THEN NotifyCreated(a.chat) ELSE NotifyDeleted
          /\ lapses' = IF a.op = "create" /\ place[a.chat] # "active"
                       THEN lapses \cup {"behind"} ELSE lapses
       \/ /\ a.from = "side"
          /\ acts' = acts \ {a}
          /\ NotifyDeleted
          /\ UNCHANGED <<lapses, archVars>>
    /\ UNCHANGED <<place, spent>>

PutBack(c, s) == IF c \in ToSet(s) THEN s ELSE <<c>> \o s

\* It failed: refused, or the answer was lost, before or after it took effect.
Fail(a) ==
    /\ acts' = acts \ {a}
    /\ side' = IF a.from = "side"
               THEN [side EXCEPT !.list = PutBack(a.chat, @)] ELSE side
    /\ lapses' = lapses
           \cup (IF a.from = "side" THEN {"rolledback"} ELSE {})
           \cup (IF a.stage = "committed" THEN {"behind"} ELSE {})
    /\ IF a.stage = "committed"
       THEN first' = Aged(first) /\ more' = Aged(more)
       ELSE UNCHANGED <<first, more>>
    /\ arch' = IF a.from # "arch" \/ ~a.shown THEN arch
               ELSE IF a.op = "restore"
                    THEN [arch EXCEPT !.list = PutBack(a.chat, @)]
                    ELSE [arch EXCEPT !.list = a.undo]
    /\ archLapses' = IF a.from = "arch" /\ a.shown /\ a.stage # "sent"
                     THEN {"behind"} ELSE archLapses
    /\ UNCHANGED <<place, archFirst, archMore, spent>>

\* The other window archives, restores or deletes a chat, or makes one.
Foreign(op) ==
    \E c \in Chats :
        /\ spent.foreign < MaxForeign
        /\ spent' = [spent EXCEPT !.foreign = @ + 1]
        /\ place[c] \in Expected(op)
        /\ op = "create" => c = 1 \/ place[c - 1] # "none"
        /\ place' = [place EXCEPT ![c] = Target(op)]
        /\ SidebarUntold /\ ArchiveUntold
        /\ UNCHANGED <<side, arch, acts>>

Next ==
    \/ \E limit \in Limits : AnswerChats(limit) \/ AnswerArchived(limit)
    \/ FirstPage \/ FirstPageFails
    \/ LoadMore \/ MorePage \/ MoreFails
    \/ OpenArchive \/ LeaveArchive \/ ArchivePage \/ ArchivePageFails
    \/ LoadMoreArchived \/ MoreArchived \/ MoreArchivedFails
    \/ KeepIt \/ SendFirstMessage
    \/ \E c \in Chats :
          \/ \E op \in {"archive", "delete"} :
                RemoveFromSidebar(op, c) \/ RemoveOpenChat(op, c)
          \/ AskToRemove(c)
          \/ DeleteArchived(c) \/ Restore(c)
    \/ \E a \in acts : Commit(a) \/ Done(a) \/ Fail(a)
    \/ \E op \in Ops : Foreign(op)

Spec == Init /\ [][Next]_vars

-----------------------------------------------------------------------------
Quiet ==
    /\ first = None /\ more = None /\ acts = {}

\* Safety: when nothing is under way and nothing went wrong that the sidebar
\* cannot know of, it shows the newest active chats of the server, each once,
\* in order and without a gap, and offers more exactly if there are more:
\* whatever pages were joined, and whatever was archived, deleted, restored
\* or created on the way.
SidebarIsTheList ==
    (Quiet /\ lapses = {}) =>
        LET rows == Rows("active")
        IN  /\ IsPrefix(side.list, rows)
            /\ side.cursor = IF Len(side.list) = Len(rows) THEN 0
                             ELSE side.list[Len(side.list)]

\* Safety: neither list shows a chat that has left it, unless a request of
\* this window for that chat is under way or the window has missed something:
\* a page asked for before a change does not bring a chat back.
NoGhosts ==
    /\ (~side.loading /\ ~side.error /\ lapses = {}) =>
           \A c \in ToSet(side.list) :
               place[c] = "active" \/ \E a \in acts : a.chat = c
    /\ (arch.open /\ archLapses = {}) =>
           \A c \in ToSet(arch.list) :
               place[c] = "archived" \/ \E a \in acts : a.chat = c
=============================================================================
