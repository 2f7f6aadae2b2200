--------------------------- MODULE ChatListsProofs ---------------------------
(***************************************************************************)
(* ChatLists for any number of chats, any page sizes and any bounds: its   *)
(* types; that no list shows a chat that has left it; and that the sidebar *)
(* ends as a prefix of the server's list.                                  *)
(***************************************************************************)
EXTENDS ChatLists, FiniteSetTheorems, SequenceTheorems, WellFoundedInduction,
        TLAPS

-----------------------------------------------------------------------------
(* The inductive invariant: the sidebar.                                   *)

\* A request that took effect and whose answer makes the sidebar refetch.
Telling(a) ==
    /\ a.stage = "committed"
    /\ ~(a.from = "arch" /\ a.op = "delete")

\* A chat that this window is taking out of the sidebar, or has.
Leaving(c) ==
    \E a \in acts :
        /\ a.chat = c /\ a.stage = "committed"
        /\ a.op \in {"archive", "delete"} /\ a.from \in {"side", "page"}

Current(c) == place[c] = "active" \/ Leaving(c)

\* What was answered and is not known to be old holds no ghosts; nor does the
\* list.
SideShows ==
    /\ (first.stage = "answered" /\ first.fresh) =>
           \A c \in ToSet(first.data) : Current(c)
    /\ (~side.loading /\ lapses = {}) =>
           /\ \A c \in ToSet(side.list) : Current(c)
           /\ (more.stage = "answered" /\ more.fresh) =>
                  \A c \in ToSet(more.data) : Current(c)

NewestFirst(s) == \A i, j \in DOMAIN s : i < j => s[i] > s[j]

\* A page of a set of chats: its newest, in order and without a gap, and the
\* cursor that the rest follows.
Pages(s, next, S) ==
    /\ NewestFirst(s) /\ ToSet(s) \subseteq S
    /\ \A c \in ToSet(s), d \in S : d > c => d \in ToSet(s)
    /\ IF next = 0 THEN S \subseteq ToSet(s)
       ELSE s # <<>> /\ next = s[Len(s)] /\ \E d \in S : d < next

Past(cursor, S) == {c \in S : cursor = 0 \/ c < cursor}

\* Nothing is under way that ends in a refetch or a lapse.
Calm ==
    /\ first.stage = "none" /\ lapses = {}
    /\ \A a \in acts : a.from # "side" /\ ~Telling(a)

SideIsAPage ==
    /\ first.stage # "none" => first.cursor = 0
    /\ (/\ first.stage = "answered" /\ first.fresh
        /\ \A a \in acts : ~Telling(a)) =>
           Pages(first.data, first.next, At("active"))
    /\ Calm =>
           /\ Pages(side.list, side.cursor, At("active"))
           /\ (more.stage # "none" /\ more.fresh) =>
                  /\ more.cursor = side.cursor /\ side.cursor # 0
                  /\ more.stage = "answered" =>
                         Pages(more.data, more.next,
                               Past(more.cursor, At("active")))

-----------------------------------------------------------------------------
(* The inductive invariant: the archive page.                              *)

\* A request of a row that is still on the page.
Handling(a) == a.from = "arch" /\ a.shown

ArchShape ==
    /\ \A a \in acts :
           /\ a.from = "arch" => a.op \in {"delete", "restore"}
           /\ Handling(a) => /\ arch.open /\ ~arch.loading
                             /\ a.op = "delete" => a.dialog
                             /\ a.op = "restore" => a.undo = <<>>
    /\ arch.loading => arch.list = <<>> /\ arch.cursor = 0
    /\ archFirst.stage # "none" =>
           /\ arch.open /\ arch.loading
           /\ archFirst.cursor = 0
    /\ archMore.stage # "none" =>
           arch.open /\ ~arch.loading /\ archMore.cursor # 0

\* What a load of the archive was answered lies between its cursors.
ArchAnswered(slot) ==
    slot.stage = "answered" =>
        /\ \A c \in ToSet(slot.data) :
               /\ slot.next <= c
               /\ slot.cursor # 0 => c < slot.cursor
        /\ slot.cursor # 0 => slot.next <= slot.cursor

ArchFirstShows ==
    (archFirst.stage = "answered" /\ archFirst.fresh) =>
        ToSet(archFirst.data) \subseteq At("archived")

\* What the page shows, what it may put back and what it asks for next.
ArchHolds ==
    /\ \A c \in ToSet(arch.list) :
           /\ place[c] = "archived" /\ arch.cursor <= c
           /\ \A a \in acts : Handling(a) => a.chat # c
    /\ \A a, b \in acts :
           Handling(a) /\ Handling(b) /\ a.chat = b.chat => a = b
    /\ \A a \in acts : Handling(a) =>
           /\ a.stage # "refused" /\ arch.cursor <= a.chat
           /\ a.stage = "sent" => place[a.chat] = "archived"
           /\ \A c \in ToSet(a.undo) :
                  /\ place[c] = "archived" \/ c = a.chat
                  /\ arch.cursor <= c
                  /\ \A b \in acts : Handling(b) /\ b.chat = c => b = a
    /\ archMore.stage # "none" => archMore.cursor = arch.cursor
    /\ (archMore.stage = "answered" /\ archMore.fresh) =>
           ToSet(archMore.data) \subseteq At("archived")

ArchShows == (arch.open /\ archLapses = {}) => ArchHolds

\* Only a chat that is being created has no name yet.
Named ==
    \A a \in acts :
        /\ a.op = "create" => a.from = "page"
        /\ a.chat = 0 => a.op = "create" /\ a.stage # "committed"

ChatListsInv ==
    /\ TypeOK /\ Named
    /\ SideShows /\ SideIsAPage
    /\ ArchShape /\ ArchAnswered(archFirst) /\ ArchAnswered(archMore)
    /\ ArchFirstShows /\ ArchShows

-----------------------------------------------------------------------------
(* Lists.                                                                  *)

LEMMA Elements ==
    ASSUME NEW S, NEW s \in Seq(S)
    PROVE  /\ Len(s) \in Nat /\ DOMAIN s = 1 .. Len(s)
           /\ ToSet(s) \subseteq S
           /\ \A i \in 1 .. Len(s) : s[i] \in ToSet(s)
           /\ \A c \in ToSet(s) : \E i \in 1 .. Len(s) : c = s[i]
           /\ s = <<>> <=> Len(s) = 0
  <1>1. /\ Len(s) \in Nat /\ DOMAIN s = 1 .. Len(s)
        /\ s = <<>> <=> Len(s) = 0
    BY LenProperties, EmptySeq
  <1>2. \A i \in 1 .. Len(s) : s[i] \in S
    BY ElementOfSeq
  <1> QED
    BY <1>1, <1>2 DEF ToSet

\* The numbers of a finite set have an order: Nth counts through them.
LEMMA NthIs ==
    ASSUME NEW S \in SUBSET Nat, IsFiniteSet(S)
    PROVE  /\ Cardinality(S) \in Nat
           /\ \A k \in 1 .. Cardinality(S) : Nth(S, k) \in S
           /\ \A k, l \in 1 .. Cardinality(S) :
                k < l => Nth(S, k) < Nth(S, l)
           /\ \A n \in S : \E k \in 1 .. Cardinality(S) : n = Nth(S, k)
  <1> DEFINE upto(n) == {p \in S : p <= n}
             size == Cardinality(S)
             rank == [n \in S |-> Cardinality(upto(n))]
  <1>1. size \in Nat /\ \A n \in S : n \in Nat
    BY FS_CardinalityType
  <1>2. ASSUME NEW n \in S
        PROVE  /\ IsFiniteSet(upto(n)) /\ rank[n] \in 1 .. size
    <2>1. upto(n) \in SUBSET S /\ n \in upto(n)
      OBVIOUS
    <2> HIDE DEF upto
    <2>2. /\ IsFiniteSet(upto(n)) /\ Cardinality(upto(n)) <= size
      BY <2>1, FS_Subset
    <2>3. Cardinality(upto(n)) \in Nat /\ Cardinality(upto(n)) # 0
      BY <2>1, <2>2, FS_CardinalityType, FS_EmptySet
    <2> QED
      BY <1>1, <2>2, <2>3
  <1>3. ASSUME NEW m \in S, NEW n \in S, m < n
        PROVE  rank[m] < rank[n]
    <2>1. upto(m) \in SUBSET upto(n) /\ n \in upto(n) /\ n \notin upto(m)
      <3>1. m \in Nat /\ n \in Nat
        BY <1>1
      <3>2. n <= n /\ ~(n <= m)
        BY <1>3, <3>1
      <3>3. \A p \in S : p <= m => p <= n
        BY <1>1, <1>3, <3>1
      <3> QED
        BY <3>2, <3>3
    <2>2. IsFiniteSet(upto(n))
      BY <1>2
    <2> HIDE DEF upto
    <2>3. /\ Cardinality(upto(m)) <= Cardinality(upto(n))
          /\ Cardinality(upto(m)) # Cardinality(upto(n))
      BY <2>1, <2>2, FS_Subset
    <2>4. rank[m] \in Nat /\ rank[n] \in Nat
      BY <1>2
    <2> QED
      BY <2>3, <2>4
  <1>4. \A m, n \in S : rank[m] = rank[n] => m = n
    <2> SUFFICES ASSUME NEW m \in S, NEW n \in S, rank[m] = rank[n], m # n
                 PROVE  FALSE
      OBVIOUS
    <2>1. m < n \/ n < m
      OBVIOUS
    <2>2. rank[m] \in Nat
      BY <1>2
    <2> HIDE DEF rank
    <2> QED
      BY <1>3, <2>1, <2>2
  <1>5. rank \in [S -> 1 .. size]
    BY <1>2
  <1>6. \A k \in 1 .. size : \E n \in S : rank[n] = k
    <2> HIDE DEF rank, size
    <2>1. rank \in Injection(S, 1 .. size)
      BY <1>4, <1>5 DEF Injection, IsInjective
    <2>2. IsFiniteSet(1 .. size) /\ Cardinality(1 .. size) = size
      <3>1. 1 \in Int /\ size \in Int
        BY <1>1
      <3>2. /\ IsFiniteSet(1 .. size)
            /\ Cardinality(1 .. size) =
                IF 1 > size THEN 0 ELSE size - 1 + 1
        BY <3>1, FS_Interval
      <3> QED
        BY <1>1, <3>2
    <2>3. rank \in Surjection(S, 1 .. size)
      <3> DEFINE T == 1 .. size
      <3>1. /\ rank \in Injection(S, T) /\ IsFiniteSet(T)
            /\ Cardinality(S) = Cardinality(T)
        BY <2>1, <2>2 DEF size
      <3> HIDE DEF T
      <3>2. rank \in Surjection(S, T)
        BY <3>1, FS_Injection
      <3> QED
        BY <3>2 DEF T
    <2> QED
      BY <2>3 DEF Surjection
  <1>7. ASSUME NEW k \in 1 .. size
        PROVE  Nth(S, k) \in S /\ rank[Nth(S, k)] = k
    <2>1. \E n \in S : Cardinality(upto(n)) = k
      BY <1>6
    <2> QED
      BY <2>1 DEF Nth
  <1> HIDE DEF rank
  <1>8. ASSUME NEW k \in 1 .. size, NEW l \in 1 .. size, k < l
        PROVE  Nth(S, k) < Nth(S, l)
    <2>1. /\ Nth(S, k) \in S /\ rank[Nth(S, k)] = k
          /\ Nth(S, l) \in S /\ rank[Nth(S, l)] = l
      BY <1>7
    <2>2. Nth(S, k) # Nth(S, l)
      BY <1>8, <2>1
    <2>3. ~(Nth(S, l) < Nth(S, k))
      <3>1. Nth(S, l) < Nth(S, k) => l < k
        BY <1>3, <2>1
      <3> QED
        BY <1>1, <1>8, <3>1
    <2>4. Nth(S, k) \in Nat /\ Nth(S, l) \in Nat
      BY <1>1, <2>1
    <2> QED
      BY <2>2, <2>3, <2>4
  <1>9. ASSUME NEW n \in S
        PROVE  \E k \in 1 .. size : n = Nth(S, k)
    <2>1. rank[n] \in 1 .. size
      BY <1>5
    <2> QED
      BY <1>4, <1>7, <2>1
  <1> QED
    BY <1>1, <1>7, <1>8, <1>9

\* A set in descending order has its members, each once, the largest first.
LEMMA DescendingIs ==
    ASSUME NEW S \in SUBSET Nat, IsFiniteSet(S)
    PROVE  /\ Descending(S) \in Seq(S)
           /\ NewestFirst(Descending(S))
           /\ ToSet(Descending(S)) = S
  <1> DEFINE size == Cardinality(S)
             D == Descending(S)
  <1>1. size \in Nat
    BY NthIs
  <1>2. D = [k \in 1 .. size |-> Nth(S, size + 1 - k)]
    BY DEF Descending
  <1>3. \A k \in 1 .. size : size + 1 - k \in 1 .. size
    BY <1>1
  <1>4. D \in [1 .. size -> S]
    BY <1>2, <1>3, NthIs
  <1>5. D \in Seq(S)
    BY <1>1, <1>4, SeqDef
  <1>6. DOMAIN D = 1 .. size
    BY <1>4
  <1>7. NewestFirst(D)
    <2> SUFFICES ASSUME NEW i \in 1 .. size, NEW j \in 1 .. size, i < j
                 PROVE  D[i] > D[j]
      BY <1>6 DEF NewestFirst
    <2>1. size + 1 - j < size + 1 - i
      BY <1>1
    <2>2. Nth(S, size + 1 - j) < Nth(S, size + 1 - i)
      BY <1>3, <2>1, NthIs
    <2>3. D[i] = Nth(S, size + 1 - i) /\ D[j] = Nth(S, size + 1 - j)
      BY <1>2
    <2> QED
      BY <2>2, <2>3
  <1>8. \A n \in S : n \in ToSet(D)
    <2> SUFFICES ASSUME NEW n \in S
                 PROVE  \E i \in 1 .. size : n = D[i]
      BY <1>6 DEF ToSet
    <2>1. PICK k \in 1 .. size : n = Nth(S, k)
      BY NthIs
    <2>2. size + 1 - k \in 1 .. size /\ size + 1 - (size + 1 - k) = k
      BY <1>1
    <2> QED
      BY <1>2, <2>1, <2>2
  <1>9. ToSet(D) \subseteq S
    BY <1>5, Elements
  <1> QED
    BY <1>5, <1>7, <1>8, <1>9

\* A filtered list has the elements of the list that are in the set.
LEMMA FilterIs ==
    ASSUME NEW T, NEW s \in Seq(T), NEW S
    PROVE  /\ Filter(s, S) \in Seq(T)
           /\ ToSet(Filter(s, S)) = ToSet(s) \cap S
  <1> DEFINE kept == {i \in DOMAIN s : s[i] \in S}
             size == Cardinality(kept)
             F == Filter(s, S)
  <1>1. Len(s) \in Nat /\ DOMAIN s = 1 .. Len(s)
    BY Elements
  <1>2. kept \in SUBSET Nat /\ IsFiniteSet(kept)
    <2>1. IsFiniteSet(1 .. Len(s))
      BY <1>1, FS_Interval
    <2>2. kept \in SUBSET (1 .. Len(s))
      BY <1>1
    <2> HIDE DEF kept
    <2>3. IsFiniteSet(kept)
      BY <2>1, <2>2, FS_Subset
    <2> QED
      BY <2>2, <2>3
  <1>3. F = [k \in 1 .. size |-> s[Nth(kept, k)]]
    BY DEF Filter
  <1>4. /\ size \in Nat
        /\ \A k \in 1 .. size : Nth(kept, k) \in kept
        /\ \A n \in kept : \E k \in 1 .. size : n = Nth(kept, k)
    <2> HIDE DEF kept
    <2> QED
      BY <1>2, NthIs
  <1>5. \A k \in 1 .. size : F[k] = s[Nth(kept, k)] /\ F[k] \in ToSet(s) \cap S
    <2>1. \A i \in kept : s[i] \in ToSet(s) \cap S
      BY <1>1, Elements
    <2> HIDE DEF kept
    <2> QED
      BY <1>3, <1>4, <2>1
  <1>6. DOMAIN F = 1 .. size
    BY <1>3
  <1>7. F \in Seq(T)
    <2>1. \A k \in 1 .. size : F[k] \in T
      BY <1>5, Elements
    <2>2. F \in [1 .. size -> T]
      <3> HIDE DEF kept, size, F
      <3> QED
        BY <1>3, <1>6, <2>1
    <2> HIDE DEF kept, size, F
    <2> QED
      BY <1>4, <2>2, SeqDef
  <1>8. ASSUME NEW c \in ToSet(s) \cap S
        PROVE  \E k \in 1 .. size : c = F[k]
    <2>1. PICK i \in kept : c = s[i]
      BY <1>1, Elements
    <2>2. PICK k \in 1 .. size : i = Nth(kept, k)
      BY <1>4
    <2> QED
      BY <1>5, <2>1, <2>2
  <1>9. ToSet(F) = ToSet(s) \cap S
    <2> HIDE DEF F, size
    <2>1. ToSet(F) = {F[k] : k \in 1 .. size}
      BY <1>6 DEF ToSet
    <2> QED
      BY <1>5, <1>8, <2>1
  <1> QED
    BY <1>7, <1>9

\* Two lists, one after the other.
LEMMA Concatenated ==
    ASSUME NEW S, NEW s \in Seq(S), NEW t \in Seq(S)
    PROVE  /\ s \o t \in Seq(S)
           /\ ToSet(s \o t) = ToSet(s) \cup ToSet(t)
  <1> DEFINE u == s \o t
  <1>1. /\ u \in Seq(S)
        /\ Len(u) = Len(s) + Len(t)
        /\ \A i \in 1 .. Len(s) + Len(t) :
             u[i] = IF i <= Len(s) THEN s[i] ELSE t[i - Len(s)]
    BY ConcatProperties
  <1>2. Len(s) \in Nat /\ Len(t) \in Nat
    BY Elements
  <1> HIDE DEF u
  <1>3. ASSUME NEW c \in ToSet(u)
        PROVE  c \in ToSet(s) \cup ToSet(t)
    <2>1. PICK i \in 1 .. Len(u) : c = u[i]
      BY <1>1, Elements
    <2>2. CASE i <= Len(s)
      <3>1. i \in 1 .. Len(s) /\ c = s[i]
        BY <1>1, <1>2, <2>1, <2>2
      <3> QED
        BY <3>1, Elements
    <2>3. CASE ~(i <= Len(s))
      <3>1. i - Len(s) \in 1 .. Len(t) /\ c = t[i - Len(s)]
        BY <1>1, <1>2, <2>1, <2>3
      <3> QED
        BY <3>1, Elements
    <2> QED
      BY <2>2, <2>3
  <1>4. ASSUME NEW c \in ToSet(s)
        PROVE  c \in ToSet(u)
    <2>1. PICK i \in 1 .. Len(s) : c = s[i]
      BY Elements
    <2>2. i \in 1 .. Len(u) /\ u[i] = c
      BY <1>1, <1>2, <2>1
    <2> QED
      BY <1>1, <2>2, Elements
  <1>5. ASSUME NEW c \in ToSet(t)
        PROVE  c \in ToSet(u)
    <2>1. PICK i \in 1 .. Len(t) : c = t[i]
      BY Elements
    <2>2. /\ Len(s) + i \in 1 .. Len(u) /\ ~(Len(s) + i <= Len(s))
          /\ Len(s) + i - Len(s) = i
      BY <1>1, <1>2, <2>1
    <2>3. u[Len(s) + i] = c
      BY <1>1, <2>1, <2>2
    <2> QED
      BY <1>1, <2>2, <2>3, Elements
  <1>6. ToSet(u) = ToSet(s) \cup ToSet(t)
    BY <1>3, <1>4, <1>5
  <1> QED
    BY <1>1, <1>6 DEF u

\* What the query returns of a set, after the over-fetched row is dropped, is
\* a page of it.
LEMMA CutIsAPage ==
    ASSUME NEW S, \A c \in S : c \in Nat /\ c > 0, NEW rows \in Seq(S),
           NewestFirst(rows), S \subseteq ToSet(rows),
           NEW limit \in Nat \ {0}
    PROVE  LET over == Len(rows) > limit
               data == IF over THEN SubSeq(rows, 1, limit) ELSE rows
               next == IF over THEN rows[limit] ELSE 0
           IN  /\ data \in Seq(S) /\ next \in S \cup {0}
               /\ Pages(data, next, S)
               /\ \A c \in ToSet(data) : next <= c
  <1> DEFINE cut == SubSeq(rows, 1, limit)
  <1>1. Len(rows) \in Nat /\ DOMAIN rows = 1 .. Len(rows)
    BY Elements
  <1>2. \A c \in S : c \in Nat /\ c > 0
    OBVIOUS
  <1>3. CASE ~(Len(rows) > limit)
    <2>1. ToSet(rows) \subseteq S
      BY Elements
    <2>2. Pages(rows, 0, S) /\ \A c \in ToSet(rows) : 0 <= c
      BY <1>2, <2>1 DEF Pages
    <2> QED
      BY <1>3, <2>1, <2>2
  <1>4. CASE Len(rows) > limit
    <2>1. \A i \in 1 .. limit : rows[i] \in S
      BY <1>1, <1>4, Elements
    <2>2. /\ cut \in Seq(S) /\ Len(cut) = limit
          /\ \A i \in 1 .. limit : cut[i] = rows[i]
      <3>1. 1 \in Int /\ limit \in Int /\ limit - 1 + 1 = limit /\ 1 <= limit
        OBVIOUS
      <3>2. \A i \in 1 .. limit : 1 + i - 1 = i
        OBVIOUS
      <3> QED
        BY <2>1, <3>1, <3>2, SubSeqProperties
    <2> HIDE DEF cut
    <2>3. DOMAIN cut = 1 .. limit
      BY <2>2, Elements
    <2>4. \A i \in 1 .. limit : i \in DOMAIN rows
      BY <1>1, <1>4
    <2>5. NewestFirst(cut)
      BY <2>2, <2>3, <2>4 DEF NewestFirst
    <2>6. /\ ToSet(cut) \subseteq S
          /\ \A c \in ToSet(cut) : \E i \in 1 .. limit : c = rows[i]
      <3>1. /\ ToSet(cut) \subseteq S
            /\ \A c \in ToSet(cut) : \E i \in 1 .. Len(cut) : c = cut[i]
        BY <2>2, Elements
      <3> QED
        BY <2>2, <3>1
    <2>7. limit \in 1 .. limit /\ limit + 1 \in DOMAIN rows
      BY <1>1, <1>4
    <2>8. rows[limit] \in S /\ cut[limit] = rows[limit]
      BY <2>1, <2>2, <2>7
    <2>9. ASSUME NEW c \in ToSet(cut)
          PROVE  rows[limit] <= c
      <3>1. PICK i \in 1 .. limit : c = rows[i]
        BY <2>6
      <3>2. CASE i = limit
        <4>1. rows[limit] \in Nat
          BY <1>2, <2>8
        <4> QED
          BY <3>1, <3>2, <4>1
      <3>3. CASE i # limit
        <4>1. i < limit
          BY <3>3
        <4>2. rows[i] > rows[limit]
          BY <2>4, <2>7, <4>1 DEF NewestFirst
        <4> QED
          <5>1. rows[limit] \in Nat /\ rows[i] \in Nat
            BY <1>2, <2>1, <2>8
          <5> QED
            BY <3>1, <4>2, <5>1
      <3> QED
        BY <3>2, <3>3
    <2>10. ASSUME NEW c \in ToSet(cut), NEW d \in S, d > c
           PROVE  d \in ToSet(cut)
      <3>1. PICK i \in 1 .. limit : c = rows[i]
        BY <2>6
      <3>2. PICK j \in 1 .. Len(rows) : d = rows[j]
        BY Elements
      <3>3. j < i
        <4>1. i < j => rows[i] > rows[j]
          BY <1>1, <2>4 DEF NewestFirst
        <4>2. /\ i \in Nat /\ j \in Nat /\ c \in Nat /\ d \in Nat
              /\ j \in DOMAIN rows /\ i \in DOMAIN rows
          BY <1>1, <1>2, <2>4, <2>6, <3>1, <3>2
        <4>3. ~(i < j)
          BY <2>10, <3>1, <3>2, <4>1, <4>2
        <4>4. i # j
          BY <2>10, <3>1, <3>2, <4>2
        <4> QED
          BY <4>2, <4>3, <4>4
      <3>4. j \in 1 .. limit /\ cut[j] = d
        BY <2>2, <3>1, <3>2, <3>3
      <3> QED
        BY <2>2, <3>4, Elements
    <2>11. \E d \in S : d < rows[limit]
      <3>1. rows[limit] > rows[limit + 1]
        BY <2>4, <2>7 DEF NewestFirst
      <3>2. rows[limit + 1] \in S
        BY <1>1, <2>7, Elements
      <3> QED
        BY <1>2, <2>8, <3>1, <3>2
    <2>12. cut # <<>> /\ rows[limit] # 0
      <3>1. Len(cut) # 0
        BY <2>2
      <3>2. cut # <<>>
        BY <2>2, <3>1, Elements
      <3> QED
        BY <1>2, <2>8, <3>2
    <2>13. Pages(cut, rows[limit], S)
      BY <2>2, <2>5, <2>6, <2>8, <2>10, <2>11, <2>12 DEF Pages
    <2> QED
      BY <1>4, <2>2, <2>8, <2>9, <2>13 DEF cut
  <1> QED
    BY <1>3, <1>4

\* A page and the page that follows its cursor make one page.
LEMMA PagesJoin ==
    ASSUME NEW S, \A c \in S : c \in Nat /\ c > 0,
           NEW s \in Seq(S), NEW next \in Nat, next # 0, Pages(s, next, S),
           NEW t \in Seq(S), NEW last \in Nat, Pages(t, last, Past(next, S))
    PROVE  Pages(s \o t, last, S)
  <1> DEFINE u == s \o t
  <1>1. /\ Len(s) \in Nat /\ DOMAIN s = 1 .. Len(s)
        /\ Len(t) \in Nat /\ DOMAIN t = 1 .. Len(t)
    BY Elements
  <1>2. /\ u \in Seq(S) /\ ToSet(u) = ToSet(s) \cup ToSet(t)
        /\ Len(u) = Len(s) + Len(t)
        /\ \A i \in 1 .. Len(s) + Len(t) :
             u[i] = IF i <= Len(s) THEN s[i] ELSE t[i - Len(s)]
    BY Concatenated, ConcatProperties
  <1>3. DOMAIN u = 1 .. Len(u)
    BY <1>2, Elements
  <1> HIDE DEF u
  <1>4. /\ NewestFirst(s) /\ ToSet(s) \subseteq S
        /\ \A c \in ToSet(s), d \in S : d > c => d \in ToSet(s)
        /\ s # <<>> /\ next = s[Len(s)]
    BY DEF Pages
  <1>5. /\ NewestFirst(t) /\ ToSet(t) \subseteq Past(next, S)
        /\ \A c \in ToSet(t), d \in Past(next, S) : d > c => d \in ToSet(t)
        /\ IF last = 0 THEN Past(next, S) \subseteq ToSet(t)
           ELSE /\ t # <<>> /\ last = t[Len(t)]
                /\ \E d \in Past(next, S) : d < last
    BY DEF Pages
  <1>6. /\ Past(next, S) = {c \in S : c < next}
        /\ Len(s) \in 1 .. Len(s) /\ next \in ToSet(s)
    <2>1. Len(s) # 0
      BY <1>4, Elements
    <2>2. Len(s) \in 1 .. Len(s)
      BY <1>1, <2>1
    <2> QED
      BY <1>4, <2>2, Elements DEF Past
  <1>7. \A i \in 1 .. Len(s) : s[i] \in Nat /\ next <= s[i]
    <2> SUFFICES ASSUME NEW i \in 1 .. Len(s)
                 PROVE  s[i] \in Nat /\ next <= s[i]
      OBVIOUS
    <2>1. s[i] \in S
      BY <1>4, Elements
    <2>2. CASE i = Len(s)
      BY <1>4, <2>1, <2>2
    <2>3. CASE i # Len(s)
      <3>1. i < Len(s)
        <4>1. i \in Nat /\ i <= Len(s) /\ Len(s) \in Nat
          BY <1>1
        <4> QED
          BY <2>3, <4>1
      <3>2. s[i] > s[Len(s)]
        BY <1>1, <1>4, <1>6, <3>1 DEF NewestFirst
      <3> QED
        BY <1>4, <2>1, <3>2
    <2> QED
      BY <2>2, <2>3
  <1>8. \A i \in 1 .. Len(t) : t[i] \in Nat /\ t[i] < next
    BY <1>5, <1>6, Elements
  <1>9. NewestFirst(u)
    <2> SUFFICES ASSUME NEW i \in 1 .. Len(u), NEW j \in 1 .. Len(u), i < j
                 PROVE  u[i] > u[j]
      BY <1>3 DEF NewestFirst
    <2>1. CASE j <= Len(s)
      <3>1. i \in 1 .. Len(s) /\ j \in 1 .. Len(s)
        BY <1>1, <1>2, <2>1
      <3>2. u[i] = s[i] /\ u[j] = s[j]
        BY <1>1, <1>2, <3>1
      <3> QED
        BY <1>1, <1>4, <3>1, <3>2 DEF NewestFirst
    <2>2. CASE i <= Len(s) /\ ~(j <= Len(s))
      <3>1. i \in 1 .. Len(s) /\ j - Len(s) \in 1 .. Len(t)
        BY <1>1, <1>2, <2>2
      <3>2. u[i] = s[i] /\ u[j] = t[j - Len(s)]
        BY <1>1, <1>2, <2>2
      <3>3. s[i] \in Nat /\ next <= s[i] /\ t[j - Len(s)] < next
        BY <1>7, <1>8, <3>1
      <3>4. t[j - Len(s)] \in Nat
        BY <1>8, <3>1
      <3> QED
        BY <3>2, <3>3, <3>4
    <2>3. CASE ~(i <= Len(s)) /\ ~(j <= Len(s))
      <3>1. /\ i - Len(s) \in 1 .. Len(t) /\ j - Len(s) \in 1 .. Len(t)
            /\ i - Len(s) < j - Len(s)
        BY <1>1, <1>2, <2>3
      <3>2. u[i] = t[i - Len(s)] /\ u[j] = t[j - Len(s)]
        BY <1>1, <1>2, <2>3
      <3> QED
        BY <1>1, <1>5, <3>1, <3>2 DEF NewestFirst
    <2> QED
      BY <1>1, <1>2, <2>1, <2>2, <2>3
  <1>10. ASSUME NEW c \in ToSet(u), NEW d \in S, d > c
         PROVE  d \in ToSet(u)
    <2>1. CASE c \in ToSet(s)
      BY <1>2, <1>4, <1>10, <2>1
    <2>2. CASE c \in ToSet(t)
      <3>1. CASE d < next
        BY <1>2, <1>5, <1>6, <1>10, <2>2, <3>1
      <3>2. CASE d = next
        BY <1>2, <1>6, <3>2
      <3>3. CASE d > next
        BY <1>2, <1>4, <1>6, <3>3
      <3> QED
        BY <3>1, <3>2, <3>3
    <2> QED
      BY <1>2, <2>1, <2>2
  <1>11. CASE last = 0
    <2>1. ASSUME NEW d \in S
          PROVE  d \in ToSet(u)
      <3>1. CASE d < next
        BY <1>2, <1>5, <1>6, <1>11, <3>1
      <3>2. CASE d = next
        BY <1>2, <1>6, <3>2
      <3>3. CASE d > next
        BY <1>2, <1>4, <1>6, <3>3
      <3> QED
        BY <3>1, <3>2, <3>3
    <2>2. ToSet(u) \subseteq S
      BY <1>2, Elements
    <2> QED
      BY <1>9, <1>10, <1>11, <2>1, <2>2 DEF Pages, u
  <1>12. CASE last # 0
    <2>1. Len(t) # 0 /\ last = t[Len(t)] /\ \E d \in S : d < last
      BY <1>5, <1>6, <1>12, Elements
    <2>2. u[Len(u)] = last /\ Len(u) # 0
      <3>1. /\ Len(u) \in 1 .. Len(s) + Len(t) /\ ~(Len(u) <= Len(s))
            /\ Len(u) - Len(s) = Len(t) /\ Len(u) # 0
        <4>1. /\ Len(s) \in Nat /\ Len(t) \in Nat /\ Len(t) # 0
              /\ Len(u) = Len(s) + Len(t)
          BY <1>1, <1>2, <2>1
        <4> QED
          BY <4>1
      <3>2. u[Len(u)] = t[Len(u) - Len(s)]
        BY <1>2, <3>1
      <3> QED
        BY <2>1, <3>1, <3>2
    <2>3. u # <<>>
      BY <1>2, <2>2, Elements
    <2>4. ToSet(u) \subseteq S
      BY <1>2, Elements
    <2> QED
      BY <1>9, <1>10, <1>12, <2>1, <2>2, <2>3, <2>4 DEF Pages, u
  <1> QED
    BY <1>11, <1>12

\* A page of a set is a prefix of the set in descending order, and its cursor
\* says whether anything is left.
LEMMA PagesArePrefixes ==
    ASSUME NEW S \in SUBSET Nat, IsFiniteSet(S), \A c \in S : c > 0,
           NEW s \in Seq(S), NEW next \in Nat, Pages(s, next, S)
    PROVE  /\ IsPrefix(s, Descending(S))
           /\ next = IF Len(s) = Len(Descending(S)) THEN 0 ELSE s[Len(s)]
  <1> DEFINE D == Descending(S)
  <1>1. D \in Seq(S) /\ NewestFirst(D) /\ ToSet(D) = S
    BY DescendingIs
  <1> HIDE DEF D
  <1>2. /\ Len(s) \in Nat /\ DOMAIN s = 1 .. Len(s)
        /\ Len(D) \in Nat /\ DOMAIN D = 1 .. Len(D)
    BY <1>1, Elements
  <1>3. /\ NewestFirst(s)
        /\ \A c \in ToSet(s), d \in S : d > c => d \in ToSet(s)
    BY DEF Pages
  <1>4. /\ \A i \in 1 .. Len(s) : s[i] \in S /\ s[i] \in Nat
        /\ \A i \in 1 .. Len(D) : D[i] \in S /\ D[i] \in Nat
    BY <1>1, Elements
  <1> DEFINE Same(i) == i <= Len(D) /\ s[i] = D[i]
             off == {i \in 1 .. Len(s) : ~Same(i)}
  <1>5. ASSUME NEW i \in 1 .. Len(s), \A k \in 1 .. Len(s) : k < i => Same(k)
        PROVE  Same(i)
    <2>1. PICK j \in 1 .. Len(D) : s[i] = D[j]
      BY <1>1, <1>4, Elements
    <2>2. ~(j < i)
      <3> SUFFICES ASSUME j < i
                   PROVE  FALSE
        OBVIOUS
      <3>1. j \in 1 .. Len(s) /\ s[j] = s[i]
        BY <1>2, <1>5, <2>1
      <3>2. s[j] > s[i]
        BY <1>2, <1>3, <3>1 DEF NewestFirst
      <3> QED
        BY <1>4, <3>1, <3>2
    <2>3. ~(i < j)
      <3> SUFFICES ASSUME i < j
                   PROVE  FALSE
        OBVIOUS
      <3>1. i \in 1 .. Len(D)
        BY <1>2
      <3>2. D[i] > s[i]
        BY <1>1, <1>2, <2>1, <3>1 DEF NewestFirst
      <3>3. D[i] \in S /\ s[i] \in ToSet(s)
        BY <1>4, <3>1, Elements
      <3>4. D[i] \in ToSet(s)
        BY <1>3, <3>2, <3>3
      <3>5. PICK k \in 1 .. Len(s) : D[i] = s[k]
        BY <3>4, Elements
      <3>6. k < i
        <4>1. i < k => s[i] > s[k]
          BY <1>2, <1>3 DEF NewestFirst
        <4>2. i # k /\ ~(i < k)
          BY <1>4, <3>2, <3>5, <4>1
        <4> QED
          BY <1>2, <4>2
      <3>7. D[k] = D[i] /\ k \in 1 .. Len(D)
        BY <1>2, <1>5, <3>1, <3>5, <3>6
      <3>8. D[k] > D[i]
        BY <1>1, <1>2, <3>1, <3>6, <3>7 DEF NewestFirst
      <3> QED
        BY <1>4, <3>1, <3>7, <3>8
    <2> QED
      BY <1>2, <2>1, <2>2, <2>3
  <1> HIDE DEF Same
  <1>6. \A i \in 1 .. Len(s) : Same(i)
    <2> SUFFICES ASSUME off # {}
                 PROVE  FALSE
      OBVIOUS
    <2>1. IsFiniteSet(1 .. Len(s)) /\ off \in SUBSET (1 .. Len(s))
      BY <1>2, FS_Interval
    <2>2. off \in SUBSET Nat
      BY <1>2
    <2> DEFINE size == Cardinality(off)
               i == Nth(off, 1)
    <2> HIDE DEF off
    <2>3. IsFiniteSet(off)
      BY <2>1, FS_Subset
    <2>4. size \in Nat /\ size # 0
      BY <2>3, FS_CardinalityType, FS_EmptySet
    <2>5. 1 \in 1 .. size
      BY <2>4
    <2>6. i \in off
      BY <2>2, <2>3, <2>5, NthIs
    <2>7. ASSUME NEW n \in off
          PROVE  i <= n
      <3>1. PICK k \in 1 .. size : n = Nth(off, k)
        BY <2>2, <2>3, NthIs
      <3>2. 1 < k => i < n
        BY <2>2, <2>3, <2>5, <3>1, NthIs
      <3>3. i \in Nat /\ n \in Nat
        BY <2>2, <2>6
      <3> QED
        BY <2>4, <3>1, <3>2, <3>3
    <2>8. i \in 1 .. Len(s) /\ ~Same(i)
      BY <2>6 DEF off
    <2>9. \A k \in 1 .. Len(s) : k < i => Same(k)
      <3> SUFFICES ASSUME NEW k \in 1 .. Len(s), k < i, ~Same(k)
                   PROVE  FALSE
        OBVIOUS
      <3>1. i <= k
        BY <2>7 DEF off
      <3>2. i \in Nat /\ k \in Nat
        BY <1>2, <2>8
      <3> QED
        BY <3>1, <3>2
    <2> HIDE DEF i
    <2> QED
      BY <1>5, <2>8, <2>9
  <1>7. Len(s) <= Len(D) /\ \A i \in 1 .. Len(s) : s[i] = D[i]
    <2>1. CASE Len(s) = 0
      BY <1>2, <2>1
    <2>2. CASE Len(s) # 0
      <3>1. Len(s) \in 1 .. Len(s)
        BY <1>2, <2>2
      <3> QED
        BY <1>6, <3>1 DEF Same
    <2> QED
      BY <2>1, <2>2
  <1>8. IsPrefix(s, D)
    <2>1. /\ 1 \in Int /\ Len(s) \in Int
          /\ \A i \in 1 .. Len(s) : s[i] \in S /\ D[i] \in S
          /\ \A i \in 1 .. Len(s) - 1 + 1 : 1 + i - 1 = i
      BY <1>2, <1>4, <1>7
    <2>2. /\ SubSeq(s, 1, Len(s)) \in Seq(S)
          /\ Len(SubSeq(s, 1, Len(s))) =
               IF 1 <= Len(s) THEN Len(s) - 1 + 1 ELSE 0
          /\ \A i \in 1 .. Len(s) - 1 + 1 :
               SubSeq(s, 1, Len(s))[i] = s[1 + i - 1]
      BY <2>1, SubSeqProperties
    <2>3. /\ SubSeq(D, 1, Len(s)) \in Seq(S)
          /\ Len(SubSeq(D, 1, Len(s))) =
               IF 1 <= Len(s) THEN Len(s) - 1 + 1 ELSE 0
          /\ \A i \in 1 .. Len(s) - 1 + 1 :
               SubSeq(D, 1, Len(s))[i] = D[1 + i - 1]
      BY <2>1, SubSeqProperties
    <2> DEFINE u == SubSeq(s, 1, Len(s))
               v == SubSeq(D, 1, Len(s))
    <2>4. /\ u \in Seq(S) /\ v \in Seq(S) /\ Len(u) = Len(v)
          /\ Len(u) = Len(s)
      BY <1>2, <2>2, <2>3
    <2>5. \A i \in 1 .. Len(s) : u[i] = v[i]
      BY <1>2, <1>7, <2>1, <2>2, <2>3
    <2> HIDE DEF u, v
    <2>6. u = v
      BY <2>4, <2>5, SeqEqual
    <2> QED
      BY <1>7, <2>6 DEF IsPrefix, u, v
  <1>9. ASSUME Len(s) = Len(D)
        PROVE  next = 0
    <2> SUFFICES ASSUME next # 0
                 PROVE  FALSE
      OBVIOUS
    <2>1. s # <<>> /\ next = s[Len(s)] /\ \E d \in S : d < next
      BY DEF Pages
    <2>2. PICK d \in S : d < next
      BY <2>1
    <2>3. PICK k \in 1 .. Len(D) : d = D[k]
      BY <1>1, Elements
    <2>4. d = s[k] /\ k \in 1 .. Len(s)
      BY <1>7, <1>9, <2>3
    <2>5. k < Len(s) => s[k] > s[Len(s)]
      BY <1>2, <1>3, <2>4 DEF NewestFirst
    <2>6. s[k] \in Nat /\ s[Len(s)] \in Nat
      BY <1>2, <1>4, <2>4
    <2> QED
      BY <1>2, <2>1, <2>2, <2>4, <2>5, <2>6
  <1>10. ASSUME Len(s) # Len(D)
         PROVE  next = s[Len(s)]
    <2>1. Len(s) + 1 \in 1 .. Len(D)
      <3>1. Len(s) \in Nat /\ Len(D) \in Nat /\ Len(s) <= Len(D)
        BY <1>2, <1>7
      <3> QED
        BY <1>10, <3>1
    <2>2. D[Len(s) + 1] \notin ToSet(s)
      <3> SUFFICES ASSUME D[Len(s) + 1] \in ToSet(s)
                   PROVE  FALSE
        OBVIOUS
      <3>1. PICK k \in 1 .. Len(s) : D[Len(s) + 1] = s[k]
        BY Elements
      <3>2. k < Len(s) + 1 /\ k \in 1 .. Len(D)
        BY <1>2, <1>7
      <3>3. D[k] > D[Len(s) + 1]
        BY <1>1, <1>2, <2>1, <3>2 DEF NewestFirst
      <3> QED
        BY <1>4, <1>7, <2>1, <3>1, <3>3
    <2>3. ~(S \subseteq ToSet(s))
      BY <1>4, <2>1, <2>2
    <2> QED
      BY <2>3 DEF Pages
  <1>11. next = IF Len(s) = Len(D) THEN 0 ELSE s[Len(s)]
    BY <1>9, <1>10
  <1> QED
    BY <1>8, <1>11 DEF D

-----------------------------------------------------------------------------
(* Pages.                                                                  *)

LEMMA ChatsAre ==
    ASSUME ChatListsAssumption
    PROVE  /\ MaxChats \in Nat /\ IsFiniteSet(Chats)
           /\ \A c \in Chats : c \in Nat /\ c > 0 /\ c # 0
           /\ Cursors = Chats \cup {0}
  <1>1. MaxChats \in Nat
    BY DEF ChatListsAssumption
  <1>2. IsFiniteSet(1 .. MaxChats)
    BY <1>1, FS_Interval
  <1> QED
    BY <1>1, <1>2 DEF Chats, Cursors

\* What a query finds: nothing that the filter drops, in order, past the
\* cursor, and all of it if the filter keeps the cursor's chat.
LEMMA SkipToIs ==
    ASSUME ChatListsAssumption, NEW cursor \in Cursors, NEW where
    PROVE  LET rows == SkipTo(cursor, where)
           IN  /\ rows \in Seq(Chats) /\ NewestFirst(rows)
               /\ ToSet(rows) \subseteq At(where)
               /\ \A c \in ToSet(rows) : cursor # 0 => c < cursor
               /\ cursor = 0 \/ cursor \in At(where) =>
                      ToSet(rows) = Past(cursor, At(where))
  <1> DEFINE rows == SkipTo(cursor, where)
  <1>1. At(where) \in SUBSET Chats
    BY DEF At
  <1>2. \A T \in SUBSET Chats : T \in SUBSET Nat /\ IsFiniteSet(T)
    BY ChatsAre, FS_Subset
  <1>3. CASE cursor = 0
    <2>1. rows = Descending(At(where)) /\ Past(cursor, At(where)) = At(where)
      BY <1>3 DEF SkipTo, Rows, Past
    <2>2. /\ Descending(At(where)) \in Seq(At(where))
          /\ NewestFirst(Descending(At(where)))
          /\ ToSet(Descending(At(where))) = At(where)
      BY <1>1, <1>2, DescendingIs
    <2>3. Descending(At(where)) \in Seq(Chats)
      BY <1>1, <2>2, SeqMonotonic
    <2> QED
      BY <1>3, <2>1, <2>2, <2>3
  <1>4. CASE cursor # 0
    <2> DEFINE T == {c \in At(where) : c <= cursor}
               rest == Descending(T)
    <2>1. T \in SUBSET Chats /\ \A c \in T : c \in At(where) /\ c <= cursor
      BY <1>1
    <2>2. rows = IF rest = <<>> THEN rest ELSE Tail(rest)
      BY <1>4 DEF SkipTo
    <2>3. \A c \in T : c \in Nat /\ c > 0
      BY <2>1, ChatsAre
    <2>4. cursor \in Nat /\ cursor \in Chats
      BY <1>4, ChatsAre DEF Cursors
    <2>5. \A c \in At(where) : c <= cursor <=> c \in T
      OBVIOUS
    <2> HIDE DEF T
    <2>6. rest \in Seq(T) /\ NewestFirst(rest) /\ ToSet(rest) = T
      BY <1>2, <2>1, DescendingIs
    <2> HIDE DEF rest
    <2>7. Len(rest) \in Nat /\ DOMAIN rest = 1 .. Len(rest)
      BY <2>6, Elements
    <2>8. CASE rest = <<>>
      <3>1. T = {}
        <4>1. Len(rest) = 0
          BY <2>6, <2>8, Elements
        <4>2. \A c \in ToSet(rest) : \E i \in 1 .. Len(rest) : c = rest[i]
          BY <2>6, Elements
        <4> QED
          BY <2>6, <4>1, <4>2
      <3>2. rows \in Seq(Chats) /\ NewestFirst(rows) /\ ToSet(rows) = {}
        BY <2>1, <2>2, <2>6, <2>8, <3>1, SeqMonotonic
      <3>3. cursor \notin At(where)
        BY <2>4, <2>5, <3>1
      <3> QED
        BY <1>4, <3>2, <3>3
    <2>9. CASE rest # <<>>
      <3> DEFINE tail == Tail(rest)
      <3>1. /\ rows = tail /\ tail \in Seq(T) /\ Len(tail) = Len(rest) - 1
            /\ \A i \in 1 .. Len(tail) : tail[i] = rest[i + 1]
            /\ Len(rest) # 0
        BY <2>2, <2>6, <2>9, HeadTailProperties, Elements
      <3> HIDE DEF tail
      <3>2. /\ Len(tail) \in Nat /\ DOMAIN tail = 1 .. Len(tail)
            /\ ToSet(tail) \subseteq T
        BY <3>1, Elements
      <3>3. /\ \A i \in 1 .. Len(tail) : i + 1 \in 1 .. Len(rest) /\ 1 < i + 1
            /\ \A i, j \in 1 .. Len(tail) : i < j => i + 1 < j + 1
            /\ 1 \in 1 .. Len(rest)
        <4>1. Len(rest) \in Nat /\ Len(rest) # 0 /\ Len(tail) = Len(rest) - 1
          BY <2>7, <3>1
        <4> QED
          BY <4>1
      <3>4. NewestFirst(tail)
        BY <2>6, <2>7, <3>1, <3>2, <3>3 DEF NewestFirst
      <3>5. rest[1] \in T /\ \A i \in 1 .. Len(tail) : tail[i] < rest[1]
        <4>1. \A i \in 1 .. Len(tail) : rest[1] > rest[i + 1]
          BY <2>6, <2>7, <3>3 DEF NewestFirst
        <4>2. rest[1] \in T /\ \A i \in 1 .. Len(tail) : rest[i + 1] \in T
          BY <2>6, <3>3, Elements
        <4> QED
          BY <2>3, <3>1, <4>1, <4>2
      <3>6. \A c \in ToSet(tail) : c < rest[1]
        BY <3>1, <3>5, Elements
      <3>7. \A c \in ToSet(tail) : c < cursor
        <4>1. /\ rest[1] \in Nat /\ rest[1] <= cursor
              /\ \A c \in ToSet(tail) : c \in Nat
          BY <2>1, <2>3, <3>2, <3>5
        <4> QED
          BY <2>4, <3>6, <4>1
      <3>8. ASSUME cursor \in At(where)
            PROVE  ToSet(tail) = Past(cursor, At(where))
        <4>1. cursor \in T
          BY <2>4, <2>5, <3>8
        <4>2. PICK k \in 1 .. Len(rest) : cursor = rest[k]
          BY <2>6, <4>1, Elements
        <4>3. k = 1
          <5>1. 1 < k => rest[1] > rest[k]
            BY <2>6, <2>7, <3>3 DEF NewestFirst
          <5>2. rest[1] <= cursor /\ rest[1] \in Nat
            BY <2>1, <2>3, <3>5
          <5>3. ~(1 < k)
            BY <2>4, <4>2, <5>1, <5>2
          <5> QED
            BY <5>3
        <4>4. ASSUME NEW d \in At(where), d < cursor
              PROVE  d \in ToSet(tail)
          <5>1. d \in Nat
            BY <1>1, ChatsAre
          <5>2. d \in T
            BY <2>4, <2>5, <4>4, <5>1
          <5>3. PICK m \in 1 .. Len(rest) : d = rest[m]
            BY <2>6, <5>2, Elements
          <5>4. m # 1
            BY <2>4, <4>2, <4>3, <4>4, <5>3
          <5>5. m - 1 \in 1 .. Len(tail) /\ m - 1 + 1 = m
            <6>1. Len(rest) \in Nat /\ Len(tail) = Len(rest) - 1
              BY <2>7, <3>1
            <6> QED
              BY <5>4, <6>1
          <5>6. tail[m - 1] = d
            BY <3>1, <5>3, <5>5
          <5> QED
            BY <3>1, <5>5, <5>6, Elements
        <4>5. \A c \in ToSet(tail) : c \in At(where)
          BY <2>1, <3>2
        <4> QED
          BY <1>4, <3>7, <4>4, <4>5 DEF Past
      <3>9. tail \in Seq(Chats) /\ ToSet(tail) \subseteq At(where)
        BY <2>1, <3>1, <3>2, SeqMonotonic
      <3> QED
        BY <1>4, <3>1, <3>4, <3>7, <3>8, <3>9
    <2> QED
      BY <2>8, <2>9
  <1> QED
    BY <1>3, <1>4

\* What the server answers to a request for a page.
LEMMA PageIs ==
    ASSUME ChatListsAssumption, NEW slot \in Slots, NEW where,
           NEW limit \in Limits
    PROVE  LET page == PageOf(slot, where, limit)
           IN  /\ page \in Slots /\ page.stage = "answered"
               /\ page.cursor = slot.cursor /\ page.fresh = slot.fresh
               /\ ToSet(page.data) \subseteq At(where)
               /\ ArchAnswered(page)
               /\ slot.cursor = 0 \/ slot.cursor \in At(where) =>
                      Pages(page.data, page.next,
                            Past(slot.cursor, At(where)))
  <1> DEFINE rows == SkipTo(slot.cursor, where)
             R == ToSet(rows)
             over == Len(rows) > limit
             data == IF over THEN SubSeq(rows, 1, limit) ELSE rows
             next == IF over THEN rows[limit] ELSE 0
             page == PageOf(slot, where, limit)
  <1>1. slot.cursor \in Cursors /\ slot.cursor \in Nat
    BY ChatsAre DEF Slots, Cursors
  <1>2. /\ rows \in Seq(Chats) /\ NewestFirst(rows) /\ R \subseteq At(where)
        /\ \A c \in R : slot.cursor # 0 => c < slot.cursor
        /\ slot.cursor = 0 \/ slot.cursor \in At(where) =>
               R = Past(slot.cursor, At(where))
    BY <1>1, SkipToIs
  <1>3. page = [slot EXCEPT !.stage = "answered", !.data = data, !.next = next]
    BY DEF PageOf
  <1> HIDE DEF rows
  <1>4. limit \in Nat \ {0}
    BY DEF ChatListsAssumption
  <1>5. R \in SUBSET Chats /\ rows \in Seq(R)
    <2>1. R \in SUBSET Chats
      BY <1>2, Elements
    <2>2. /\ Len(rows) \in Nat /\ DOMAIN rows = 1 .. Len(rows)
          /\ \A i \in 1 .. Len(rows) : rows[i] \in R
      BY <1>2, Elements
    <2>3. rows \in Seq(R)
      BY <1>2, <2>2, IsASeq
    <2> QED
      BY <2>1, <2>3
  <1>6. \A c \in R : c \in Nat /\ c > 0
    BY <1>5, ChatsAre
  <1>7. /\ data \in Seq(R) /\ next \in R \cup {0}
        /\ Pages(data, next, R)
        /\ \A c \in ToSet(data) : next <= c
    <2>1. R \subseteq ToSet(rows)
      OBVIOUS
    <2> HIDE DEF R
    <2> QED
      BY <1>2, <1>4, <1>5, <1>6, <2>1, CutIsAPage
  <1> HIDE DEF data, next, R, page
  <1>8. /\ data \in Seq(Chats) /\ next \in Cursors /\ ToSet(data) \subseteq R
    BY <1>5, <1>7, SeqMonotonic, ChatsAre, Elements
  <1>9. /\ page \in Slots /\ page.stage = "answered"
        /\ page.cursor = slot.cursor /\ page.fresh = slot.fresh
        /\ page.data = data /\ page.next = next
    BY <1>3, <1>8 DEF Slots
  <1>10. slot.cursor # 0 => next <= slot.cursor
    BY <1>1, <1>2, <1>6, <1>7
  <1>11. ArchAnswered(page)
    BY <1>2, <1>7, <1>8, <1>9, <1>10 DEF ArchAnswered
  <1> QED
    BY <1>2, <1>7, <1>8, <1>9, <1>11 DEF page

-----------------------------------------------------------------------------
(* Types.                                                                  *)

LEMMA WithoutIs ==
    ASSUME NEW s \in Seq(Chats), NEW c
    PROVE  /\ Without(c, s) \in Seq(Chats)
           /\ ToSet(Without(c, s)) = ToSet(s) \ {c}
  <1>1. /\ Filter(s, Chats \ {c}) \in Seq(Chats)
        /\ ToSet(Filter(s, Chats \ {c})) = ToSet(s) \cap (Chats \ {c})
    BY FilterIs
  <1>2. ToSet(s) \subseteq Chats
    BY Elements
  <1> QED
    BY <1>1, <1>2 DEF Without

LEMMA InFrontIs ==
    ASSUME NEW s \in Seq(Chats), NEW c \in Chats
    PROVE  /\ <<c>> \o s \in Seq(Chats)
           /\ ToSet(<<c>> \o s) = {c} \cup ToSet(s)
           /\ PutBack(c, s) \in Seq(Chats)
           /\ ToSet(PutBack(c, s)) = {c} \cup ToSet(s)
  <1> DEFINE one == <<c>>
  <1>1. one \in Seq(Chats) /\ ToSet(one) = {c}
    BY DEF ToSet
  <1> HIDE DEF one
  <1>2. one \o s \in Seq(Chats) /\ ToSet(one \o s) = {c} \cup ToSet(s)
    BY <1>1, Concatenated
  <1> QED
    BY <1>2 DEF one, PutBack

LEMMA NothingIs == <<>> \in Seq(Chats) /\ ToSet(<<>>) = {}
  <1>1. <<>> \in Seq(Chats) /\ DOMAIN <<>> = 1 .. 0
    BY EmptySeq
  <1>2. \A i \in 1 .. 0 : FALSE
    OBVIOUS
  <1> QED
    BY <1>1, <1>2 DEF ToSet

LEMMA SlotsAre ==
    ASSUME ChatListsAssumption
    PROVE  /\ None \in Slots /\ \A c \in Cursors : Asked(c) \in Slots
           /\ \A slot \in Slots :
                /\ Aged(slot) \in Slots
                /\ Aged(slot).stage = slot.stage
                /\ Aged(slot).cursor = slot.cursor
                /\ Aged(slot).data = slot.data
                /\ Aged(slot).next = slot.next
                /\ slot.stage = "answered" => ~Aged(slot).fresh
                /\ Aged(slot).fresh => slot.fresh
  <1>1. 0 \in Cursors /\ <<>> \in Seq(Chats)
    BY ChatsAre, NothingIs
  <1>2. None \in Slots
    BY <1>1 DEF None, Slots
  <1>3. \A c \in Cursors : Asked(c) \in Slots
    BY <1>1 DEF None, Asked, Slots
  <1>4. ASSUME NEW slot \in Slots
        PROVE  /\ Aged(slot) \in Slots
               /\ Aged(slot).stage = slot.stage
               /\ Aged(slot).cursor = slot.cursor
               /\ Aged(slot).data = slot.data
               /\ Aged(slot).next = slot.next
               /\ slot.stage = "answered" => ~Aged(slot).fresh
               /\ Aged(slot).fresh => slot.fresh
    BY DEF Aged, Slots
  <1> QED
    BY <1>2, <1>3, <1>4

\* A request whose component is gone.
Orphan(a) == [a EXCEPT !.dialog = a.from = "side", !.shown = FALSE]

LEMMA OrphansAre ==
    ASSUME NEW a \in Acts
    PROVE  /\ Orphan(a) \in Acts /\ Orphan(a).shown = FALSE
           /\ Orphan(a).op = a.op /\ Orphan(a).chat = a.chat
           /\ Orphan(a).from = a.from /\ Orphan(a).stage = a.stage
  BY DEF Orphan, Acts

LEMMA TypesStart == ASSUME ChatListsAssumption, Init PROVE TypeOK /\ Named
  <1>1. None \in Slots /\ Asked(0) \in Slots
    BY ChatsAre, SlotsAre
  <1>2. Empty \in [list : Seq(Chats), cursor : Cursors,
                    confirm : Cursors, loading : BOOLEAN,
                   error : BOOLEAN]
    BY ChatsAre, NothingIs DEF Empty
  <1>3. Archive(FALSE) \in [open : BOOLEAN, list : Seq(Chats),
                            cursor : Cursors, loading : BOOLEAN]
    BY ChatsAre, NothingIs DEF Archive
  <1>4. place \in [Chats -> Places]
    BY DEF Init, Places
  <1>5. spent \in [{"acts", "foreign", "visits", "more"} -> Nat]
    BY DEF Init
  <1>6. TypeOK
    BY <1>1, <1>2, <1>3, <1>4, <1>5 DEF Init, TypeOK
  <1> QED
    BY <1>6 DEF Init, Named

\* The requests of a click.
LEMMA SendTypes ==
    ASSUME TypeOK, Named, NEW a \in Acts, Send(a),
           a.op = "create" => a.from = "page",
           a.chat = 0 => a.op = "create" /\ a.stage # "committed"
    PROVE  acts' \subseteq Acts /\ Named'
           /\ spent' \in [{"acts", "foreign", "visits", "more"} -> Nat]
  <1>1. acts' = acts \cup {a}
    BY DEF Send
  <1>2. acts' \subseteq Acts /\ Named'
    BY <1>1 DEF TypeOK, Named
  <1> QED
    BY <1>2 DEF Send, TypeOK

LEMMA Spending ==
    ASSUME NEW t \in [{"acts", "foreign", "visits", "more"} -> Nat]
    PROVE  /\ [t EXCEPT !.foreign = @ + 1]
                \in [{"acts", "foreign", "visits", "more"} -> Nat]
           /\ [t EXCEPT !.visits = @ + 1]
                \in [{"acts", "foreign", "visits", "more"} -> Nat]
           /\ [t EXCEPT !.more = @ + 1]
                \in [{"acts", "foreign", "visits", "more"} -> Nat]
  OBVIOUS

\* Opening and closing the sidebar's dialog changes nothing else.
LEMMA Asking ==
    ASSUME TypeOK, KeepIt \/ \E c \in Chats : AskToRemove(c)
    PROVE  /\ UNCHANGED <<place, first, more, lapses, acts, spent>>
           /\ UNCHANGED archVars
           /\ side'.list = side.list /\ side'.cursor = side.cursor
           /\ side'.loading = side.loading /\ side'.error = side.error
           /\ side' \in [list : Seq(Chats), cursor : Cursors,
                         confirm : Cursors,
                         loading : BOOLEAN, error : BOOLEAN]
  <1>1. side \in [list : Seq(Chats), cursor : Cursors,
                  confirm : Cursors,
                  loading : BOOLEAN, error : BOOLEAN]
    BY DEF TypeOK
  <1>2. PICK c \in Cursors : side' = [side EXCEPT !.confirm = c]
    <2>1. CASE KeepIt
      BY <2>1, ChatListsAssumption, ChatsAre DEF KeepIt
    <2>2. ASSUME NEW c \in Chats, AskToRemove(c)
          PROVE  c \in Cursors /\ side' = [side EXCEPT !.confirm = c]
      BY <2>2, ChatListsAssumption, ChatsAre DEF AskToRemove
    <2> QED
      BY <2>1, <2>2
  <1>3. UNCHANGED <<place, first, more, lapses, archVars, acts, spent>>
    BY DEF KeepIt, AskToRemove
  <1> QED
    BY <1>1, <1>2, <1>3

LEMMA TypesStep ==
    ASSUME ChatListsAssumption, TypeOK, Named, [Next]_vars
    PROVE  TypeOK' /\ Named'
  <1>1. /\ place \in [Chats -> Places]
        /\ side \in [list : Seq(Chats), cursor : Cursors,
                     confirm : Cursors,
                     loading : BOOLEAN, error : BOOLEAN]
        /\ arch \in [open : BOOLEAN, list : Seq(Chats), cursor : Cursors,
                     loading : BOOLEAN]
        /\ first \in Slots /\ more \in Slots
        /\ archFirst \in Slots /\ archMore \in Slots
        /\ acts \subseteq Acts
        /\ lapses \subseteq {"behind", "unread", "mixed", "rolledback"}
        /\ archLapses \subseteq {"behind"}
        /\ spent \in [{"acts", "foreign", "visits", "more"} -> Nat]
    BY DEF TypeOK
  <1>2. /\ None \in Slots /\ Asked(0) \in Slots
        /\ \A c \in Cursors : Asked(c) \in Slots
        /\ \A slot \in Slots : Aged(slot) \in Slots
        /\ 0 \in Cursors /\ <<>> \in Seq(Chats)
    BY SlotsAre, ChatsAre, NothingIs
  <1>3. \A slot \in Slots :
          slot.data \in Seq(Chats) /\ slot.next \in Cursors
    BY DEF Slots
  <1>4. \A a \in acts :
          /\ Orphan(a) \in Acts
          /\ Orphan(a).op = "create" => Orphan(a).from = "page"
          /\ Orphan(a).chat = 0 =>
               Orphan(a).op = "create" /\ Orphan(a).stage # "committed"
    <2> SUFFICES ASSUME NEW a \in acts
                 PROVE  /\ Orphan(a) \in Acts
                        /\ Orphan(a).op = "create" => Orphan(a).from = "page"
                        /\ Orphan(a).chat = 0 =>
                             /\ Orphan(a).op = "create"
                             /\ Orphan(a).stage # "committed"
      OBVIOUS
    <2>1. a \in Acts
      BY <1>1
    <2>2. /\ a.op = "create" => a.from = "page"
          /\ a.chat = 0 => a.op = "create" /\ a.stage # "committed"
      BY DEF Named
    <2> QED
      BY <2>1, <2>2, OrphansAre
  <1>5. \A open \in BOOLEAN :
          Archive(open) \in [open : BOOLEAN, list : Seq(Chats),
                             cursor : Cursors, loading : BOOLEAN]
    BY <1>2 DEF Archive
  <1>6. ASSUME NEW limit \in Limits, AnswerChats(limit)
        PROVE  TypeOK' /\ Named'
    <2>1. first' \in Slots /\ more' \in Slots
      BY <1>1, <1>6, PageIs DEF AnswerChats
    <2> QED
      BY <1>1, <1>6, <2>1 DEF AnswerChats, archVars, TypeOK, Named
  <1>7. ASSUME NEW limit \in Limits, AnswerArchived(limit)
        PROVE  TypeOK' /\ Named'
    <2>1. archFirst' \in Slots /\ archMore' \in Slots
      BY <1>1, <1>7, PageIs DEF AnswerArchived
    <2> QED
      BY <1>1, <1>7, <2>1 DEF AnswerArchived, sideVars, TypeOK, Named
  <1>8. ASSUME FirstPage
        PROVE  TypeOK' /\ Named'
    <2>1. side' \in [list : Seq(Chats), cursor : Cursors,
                     confirm : Cursors,
                     loading : BOOLEAN, error : BOOLEAN]
      BY <1>1, <1>3, <1>8 DEF FirstPage
    <2>2. more' \in Slots /\ first' \in Slots
      BY <1>1, <1>2, <1>8 DEF FirstPage, Slots
    <2> QED
      BY <1>1, <1>8, <2>1, <2>2 DEF FirstPage, archVars, TypeOK, Named
  <1>9. ASSUME FirstPageFails \/ LoadMore \/ MoreFails
        PROVE  TypeOK' /\ Named'
    <2>1. CASE FirstPageFails
      BY <1>1, <1>2, <2>1 DEF FirstPageFails, archVars, TypeOK, Named
    <2>2. CASE LoadMore
      <3>1. spent' \in [{"acts", "foreign", "visits", "more"} -> Nat]
        BY <1>1, <2>2, Spending DEF LoadMore
      <3>2. more' \in Slots
        BY <1>1, <1>2, <2>2 DEF LoadMore
      <3>3. UNCHANGED <<place, side, first, lapses, archVars, acts>>
        BY <2>2 DEF LoadMore
      <3> QED
        BY <1>1, <3>1, <3>2, <3>3 DEF archVars, TypeOK, Named
    <2>3. CASE MoreFails
      BY <1>1, <1>2, <2>3 DEF MoreFails, archVars, TypeOK, Named
    <2> QED
      BY <1>9, <2>1, <2>2, <2>3
  <1>10. CASE MorePage
    <2>1. side.list \o more.data \in Seq(Chats)
      BY <1>1, <1>3, Concatenated
    <2> QED
      BY <1>1, <1>2, <1>3, <1>10, <2>1 DEF MorePage, archVars, TypeOK, Named
  <1>11. ASSUME OpenArchive \/ LeaveArchive
         PROVE  TypeOK' /\ Named'
    <2>1. acts' \subseteq Acts /\ Named'
      <3>1. acts' = {Orphan(a) : a \in acts}
        BY <1>11 DEF OpenArchive, LeaveArchive, Orphans, Orphan
      <3> QED
        BY <1>4, <3>1 DEF Named
    <2>2. CASE OpenArchive
      <3>1. spent' \in [{"acts", "foreign", "visits", "more"} -> Nat]
        BY <1>1, <2>2, Spending DEF OpenArchive
      <3> QED
        BY <1>1, <1>2, <1>5, <2>1, <2>2, <3>1
        DEF OpenArchive, sideVars, TypeOK
    <2>3. CASE LeaveArchive
      BY <1>1, <1>2, <1>5, <2>1, <2>3
      DEF LeaveArchive, Closed, sideVars, TypeOK
    <2> QED
      BY <1>11, <2>2, <2>3
  <1>12. ASSUME \/ ArchivePage \/ ArchivePageFails
                \/ LoadMoreArchived \/ MoreArchivedFails
         PROVE  TypeOK' /\ Named'
    <2>1. CASE ArchivePage
      BY <1>1, <1>2, <1>3, <2>1 DEF ArchivePage, sideVars, TypeOK, Named
    <2>2. CASE ArchivePageFails
      BY <1>1, <1>2, <2>2 DEF ArchivePageFails, sideVars, TypeOK, Named
    <2>3. CASE LoadMoreArchived
      <3>1. spent' \in [{"acts", "foreign", "visits", "more"} -> Nat]
        BY <1>1, <2>3, Spending DEF LoadMoreArchived
      <3>2. archMore' \in Slots
        BY <1>1, <1>2, <2>3 DEF LoadMoreArchived
      <3>3. UNCHANGED <<place, sideVars, arch, archFirst, archLapses, acts>>
        BY <2>3 DEF LoadMoreArchived
      <3> QED
        BY <1>1, <3>1, <3>2, <3>3 DEF sideVars, TypeOK, Named
    <2>4. CASE MoreArchivedFails
      BY <1>1, <1>2, <2>4 DEF MoreArchivedFails, sideVars, TypeOK, Named
    <2> QED
      BY <1>12, <2>1, <2>2, <2>3, <2>4
  <1>13. CASE MoreArchived
    <2>1. arch.list \o archMore.data \in Seq(Chats)
      BY <1>1, <1>3, Concatenated
    <2> QED
      BY <1>1, <1>2, <1>3, <1>13, <2>1
      DEF MoreArchived, sideVars, TypeOK, Named
  <1>14. CASE SendFirstMessage
    <2> DEFINE a == Act("create", 0, "page", FALSE, <<>>)
    <2>1. a = Act("create", 0, "page", FALSE, <<>>)
      OBVIOUS
    <2> HIDE DEF a
    <2>2. /\ a \in Acts /\ a.op = "create" /\ a.from = "page"
          /\ a.stage = "sent"
      <3>1. "create" \in Ops
        BY DEF Ops
      <3> QED
        BY <1>1, <1>2, <2>1, <3>1 DEF Act, Acts
    <2>3. Send(a) /\ UNCHANGED <<place, sideVars, archVars>>
      BY <1>14, <2>1 DEF SendFirstMessage
    <2>4. acts' \subseteq Acts /\ Named'
          /\ spent' \in [{"acts", "foreign", "visits", "more"} -> Nat]
      BY <2>2, <2>3, SendTypes
    <2> QED
      BY <1>1, <2>3, <2>4 DEF sideVars, archVars, TypeOK
  <1>15. ASSUME NEW c \in Chats, NEW op \in {"archive", "delete"},
                RemoveFromSidebar(op, c) \/ RemoveOpenChat(op, c)
         PROVE  TypeOK' /\ Named'
    <2>1. Without(c, side.list) \in Seq(Chats) /\ 0 \in Cursors
      BY <1>1, <1>2, WithoutIs
    <2>2. PICK from \in {"side", "page"} : Send(Act(op, c, from, TRUE, <<>>))
      BY <1>15 DEF RemoveFromSidebar, RemoveOpenChat
    <2> DEFINE a == Act(op, c, from, TRUE, <<>>)
    <2> HIDE DEF a
    <2>3. a \in Acts /\ a.op # "create" /\ a.chat # 0
      <3>1. op \in Ops /\ op # "create" /\ c \in Cursors /\ c # 0
        BY ChatsAre DEF Ops
      <3>2. a = Act(op, c, from, TRUE, <<>>)
        BY DEF a
      <3> QED
        BY <1>1, <1>2, <3>1, <3>2 DEF Act, Acts
    <2>4. acts' \subseteq Acts /\ Named'
          /\ spent' \in [{"acts", "foreign", "visits", "more"} -> Nat]
      BY <2>2, <2>3, SendTypes DEF a
    <2> QED
      BY <1>1, <1>15, <2>1, <2>4
      DEF RemoveFromSidebar, RemoveOpenChat, sideVars, archVars, TypeOK
  <1>16. ASSUME NEW c \in Chats, DeleteArchived(c) \/ Restore(c)
         PROVE  TypeOK' /\ Named'
    <2>1. Without(c, arch.list) \in Seq(Chats) /\ arch.list \in Seq(Chats)
      BY <1>1, WithoutIs
    <2>2. PICK op \in {"delete", "restore"}, dialog \in BOOLEAN,
               undo \in Seq(Chats) : Send(Act(op, c, "arch", dialog, undo))
      BY <1>2, <1>16, <2>1 DEF DeleteArchived, Restore
    <2> DEFINE a == Act(op, c, "arch", dialog, undo)
    <2> HIDE DEF a
    <2>3. a \in Acts /\ a.op # "create" /\ a.chat # 0
      <3>1. op \in Ops /\ op # "create" /\ c \in Cursors /\ c # 0
        BY ChatsAre DEF Ops
      <3>2. a = Act(op, c, "arch", dialog, undo)
        BY DEF a
      <3> QED
        BY <1>1, <1>2, <3>1, <3>2 DEF Act, Acts
    <2>4. acts' \subseteq Acts /\ Named'
          /\ spent' \in [{"acts", "foreign", "visits", "more"} -> Nat]
      BY <2>2, <2>3, SendTypes DEF a
    <2> QED
      BY <1>1, <1>16, <2>1, <2>4
      DEF DeleteArchived, Restore, sideVars, archVars, TypeOK
  <1>17. \A op \in Ops : Target(op) \in Places
    BY DEF Ops, Target, Places
  <1>18. ASSUME NEW a \in acts, Commit(a)
         PROVE  TypeOK' /\ Named'
    <2>1. PICK c \in Chats : c = Subject(a) /\ a \in Acts
      BY <1>1, <1>18 DEF Commit
    <2>2. /\ c \in Cursors /\ c # 0
          /\ [a EXCEPT !.stage = "committed", !.chat = c] \in Acts
          /\ [a EXCEPT !.stage = "refused"] \in Acts
      BY <2>1, ChatsAre DEF Acts
    <2>3. acts' \subseteq Acts
      BY <1>1, <1>18, <2>1, <2>2 DEF Commit
    <2>4. Named'
      <3>1. /\ [a EXCEPT !.stage = "refused"].op = a.op
            /\ [a EXCEPT !.stage = "refused"].chat = a.chat
            /\ [a EXCEPT !.stage = "refused"].from = a.from
            /\ [a EXCEPT !.stage = "refused"].stage = "refused"
            /\ [a EXCEPT !.stage = "committed", !.chat = c].op = a.op
            /\ [a EXCEPT !.stage = "committed", !.chat = c].chat = c
            /\ [a EXCEPT !.stage = "committed", !.chat = c].from = a.from
        BY <2>1 DEF Acts
      <3>2. \A b \in acts' :
              \/ b \in acts
              \/ b = [a EXCEPT !.stage = "refused"]
              \/ b = [a EXCEPT !.stage = "committed", !.chat = c]
        BY <1>18, <2>1 DEF Commit
      <3>3. a.stage = "sent"
        BY <1>18 DEF Commit
      <3> QED
        BY <2>2, <3>1, <3>2, <3>3 DEF Named
    <2>5. place' \in [Chats -> Places]
      <3>1. a.op \in Ops
        BY <2>1 DEF Acts
      <3>2. place' = place \/ place' = [place EXCEPT ![c] = Target(a.op)]
        BY <1>18, <2>1 DEF Commit
      <3> QED
        BY <1>1, <1>17, <3>1, <3>2
    <2>6. /\ {first', more', archFirst', archMore'} \subseteq Slots
          /\ lapses' \subseteq {"behind", "unread", "mixed", "rolledback"}
          /\ archLapses' \subseteq {"behind"}
      BY <1>1, <1>2, <1>18 DEF Commit, ArchiveUntold, SidebarUntold
    <2> QED
      BY <1>1, <1>18, <2>3, <2>4, <2>5, <2>6 DEF Commit, TypeOK
  <1>19. ASSUME NEW a \in acts, Done(a)
         PROVE  TypeOK' /\ Named'
    <2>1. a \in Acts /\ a.chat \in Chats
      BY <1>1, <1>19, ChatsAre DEF Done, Named, Acts
    <2>2. /\ Without(a.chat, side.list) \in Seq(Chats)
          /\ <<a.chat>> \o Without(a.chat, side.list) \in Seq(Chats)
      BY <1>1, <2>1, WithoutIs, InFrontIs
    <2>3. acts' \subseteq acts \/ acts' = {Orphan(b) : b \in acts \ {a}}
      BY <1>19 DEF Done, Orphan
    <2>4. acts' \subseteq Acts /\ Named'
      <3>1. \A b \in acts' : b \in acts \/ \E d \in acts : b = Orphan(d)
        BY <2>3
      <3>2. \A d \in acts : d \in Acts
        BY <1>1
      <3> QED
        BY <1>4, <3>1, <3>2 DEF Named
    <2>5. /\ first' \in Slots /\ more' \in Slots
          /\ side' \in [list : Seq(Chats), cursor : Cursors,
                        confirm : Cursors,
                        loading : BOOLEAN, error : BOOLEAN]
      <3>1. CASE UNCHANGED sideVars
        BY <1>1, <3>1 DEF sideVars
      <3>2. ASSUME NEW list \in Seq(Chats), NEW loading \in BOOLEAN,
                   Refetch(list, loading)
            PROVE  /\ first' \in Slots /\ more' \in Slots
                   /\ side' \in [list : Seq(Chats), cursor : Cursors,
                                 confirm : Cursors,
                                 loading : BOOLEAN, error : BOOLEAN]
        BY <1>1, <1>2, <3>2 DEF Refetch
      <3>3. UNCHANGED sideVars \/ NotifyDeleted \/ NotifyCreated(a.chat)
        BY <1>19 DEF Done
      <3>4. side.list \in Seq(Chats) /\ side.loading \in BOOLEAN
        BY <1>1
      <3> QED
        BY <2>2, <3>1, <3>2, <3>3, <3>4 DEF NotifyCreated, NotifyDeleted
    <2>6. /\ {archFirst', archMore'} \subseteq Slots
          /\ archLapses' \subseteq {"behind"}
          /\ arch' \in [open : BOOLEAN, list : Seq(Chats), cursor : Cursors,
                        loading : BOOLEAN]
      <3>1. CASE Closed
        <4>1. arch' = Archive(FALSE) /\ archFirst' = None /\ archMore' = None
          BY <3>1 DEF Closed
        <4>2. archLapses' = {}
          BY <3>1 DEF Closed
        <4> QED
          BY <1>2, <1>5, <4>1, <4>2
      <3>2. CASE UNCHANGED archVars
        BY <1>1, <3>2 DEF archVars
      <3>3. Closed \/ UNCHANGED archVars
        BY <1>19 DEF Done, archVars
      <3> QED
        BY <3>1, <3>2, <3>3
    <2>7. lapses' \subseteq {"behind", "unread", "mixed", "rolledback"}
      BY <1>1, <1>19 DEF Done, sideVars
    <2> QED
      BY <1>1, <1>19, <2>4, <2>5, <2>6, <2>7 DEF Done, TypeOK
  <1>20. ASSUME NEW a \in acts, Fail(a)
         PROVE  TypeOK' /\ Named'
    <2>1. a \in Acts /\ (a.from # "page" => a.chat \in Chats)
      BY <1>1, ChatsAre DEF Named, Acts
    <2>2. a.from # "page" => /\ PutBack(a.chat, side.list) \in Seq(Chats)
                             /\ PutBack(a.chat, arch.list) \in Seq(Chats)
      BY <1>1, <2>1, InFrontIs
    <2>3. a.undo \in Seq(Chats)
      BY <2>1 DEF Acts
    <2>4. side' \in [list : Seq(Chats), cursor : Cursors,
                     confirm : Cursors,
                     loading : BOOLEAN, error : BOOLEAN]
      BY <1>1, <1>20, <2>2 DEF Fail
    <2>5. arch' \in [open : BOOLEAN, list : Seq(Chats), cursor : Cursors,
                     loading : BOOLEAN]
      BY <1>1, <1>20, <2>2, <2>3 DEF Fail
    <2>6. first' \in Slots /\ more' \in Slots
      BY <1>1, <1>2, <1>20 DEF Fail
    <2>7. /\ lapses' \subseteq {"behind", "unread", "mixed", "rolledback"}
          /\ archLapses' \subseteq {"behind"}
      BY <1>1, <1>20 DEF Fail
    <2>8. acts' \subseteq acts
      BY <1>20 DEF Fail
    <2> QED
      BY <1>1, <1>20, <2>4, <2>5, <2>6, <2>7, <2>8 DEF Fail, TypeOK, Named
  <1>21. ASSUME NEW op \in Ops, Foreign(op)
         PROVE  TypeOK' /\ Named'
    <2>1. place' \in [Chats -> Places]
      BY <1>1, <1>17, <1>21 DEF Foreign
    <2>2. /\ {first', more', archFirst', archMore'} \subseteq Slots
          /\ lapses' \subseteq {"behind", "unread", "mixed", "rolledback"}
          /\ archLapses' \subseteq {"behind"}
      BY <1>1, <1>2, <1>21 DEF Foreign, ArchiveUntold, SidebarUntold
    <2>3. spent' \in [{"acts", "foreign", "visits", "more"} -> Nat]
      <3>1. spent' = [spent EXCEPT !.foreign = @ + 1]
        BY <1>21 DEF Foreign
      <3> QED
        BY <1>1, <3>1, Spending
    <2> QED
      BY <1>1, <1>21, <2>1, <2>2, <2>3 DEF Foreign, TypeOK, Named
  <1>22. CASE UNCHANGED vars
    BY <1>1, <1>22 DEF vars, sideVars, archVars, TypeOK, Named
  <1>23. CASE KeepIt \/ \E c \in Chats : AskToRemove(c)
    BY <1>1, <1>23, Asking DEF archVars, TypeOK, Named
  <1> QED
    BY <1>6, <1>7, <1>8, <1>9, <1>10, <1>11, <1>12, <1>13, <1>14, <1>15,
       <1>16, <1>18, <1>19, <1>20, <1>21, <1>22, <1>23 DEF Next

-----------------------------------------------------------------------------
(* The sidebar shows no ghosts.                                            *)

\* A chat stays current while the server keeps it and the requests that take
\* it out are not forgotten.
LEMMA CurrentStays ==
    ASSUME place' = place,
           \A a \in acts : a.stage = "committed" /\ a.from # "arch" =>
               \E b \in acts' : /\ b.chat = a.chat /\ b.stage = a.stage
                                /\ b.op = a.op /\ b.from = a.from
    PROVE  \A c : Current(c) => Current(c)'
  BY DEF Current, Leaving

\* What the sidebar shows is what it showed.
LEMMA SideShowsStays ==
    ASSUME SideShows, UNCHANGED sideVars, \A c : Current(c) => Current(c)'
    PROVE  SideShows'
  BY DEF SideShows, sideVars

LEMMA OrphansStay ==
    ASSUME TypeOK, acts' = Orphans
    PROVE  /\ \A a \in acts : \E b \in acts' :
                /\ b.chat = a.chat /\ b.stage = a.stage
                /\ b.op = a.op /\ b.from = a.from
           /\ \A b \in acts' : \E a \in acts :
                /\ b.chat = a.chat /\ b.stage = a.stage
                /\ b.op = a.op /\ b.from = a.from
           /\ \A b \in acts' : b.shown = FALSE
  <1>1. acts' = {Orphan(a) : a \in acts}
    BY DEF Orphans, Orphan
  <1>2. \A a \in acts : a \in Acts
    BY DEF TypeOK
  <1>3. ASSUME NEW a \in acts
        PROVE  /\ Orphan(a) \in acts' /\ Orphan(a).shown = FALSE
               /\ Orphan(a).chat = a.chat /\ Orphan(a).stage = a.stage
               /\ Orphan(a).op = a.op /\ Orphan(a).from = a.from
    <2>1. Orphan(a) \in acts'
      BY <1>1
    <2>2. a \in Acts
      BY <1>2
    <2> QED
      BY <2>1, <2>2, OrphansAre
  <1>4. \A b \in acts' : \E a \in acts : b = Orphan(a)
    BY <1>1
  <1>5. \A a \in acts : \E b \in acts' :
          /\ b.chat = a.chat /\ b.stage = a.stage
          /\ b.op = a.op /\ b.from = a.from
    BY <1>3
  <1>6. ASSUME NEW b \in acts'
        PROVE  /\ b.shown = FALSE
               /\ \E a \in acts : /\ b.chat = a.chat /\ b.stage = a.stage
                                 /\ b.op = a.op /\ b.from = a.from
    <2>1. PICK a \in acts : b = Orphan(a)
      BY <1>4
    <2> QED
      BY <1>3, <2>1
  <1> QED
    BY <1>5, <1>6

\* What a request that is answered or fails does to the others.
LEMMA CommitActs ==
    ASSUME ChatListsAssumption, TypeOK, NEW a \in acts, Commit(a)
    PROVE  \E c \in Chats, b \in Acts :
             /\ c = Subject(a) /\ a.stage = "sent"
             /\ acts' = (acts \ {a}) \cup {b}
             /\ b.op = a.op /\ b.from = a.from /\ b.shown = a.shown
             /\ b.dialog = a.dialog /\ b.undo = a.undo
             /\ IF place[c] \in Expected(a.op)
                THEN /\ b.stage = "committed" /\ b.chat = c
                     /\ place' = [place EXCEPT ![c] = Target(a.op)]
                ELSE /\ b.stage = "refused" /\ b.chat = a.chat
                     /\ place' = place
  <1>1. PICK c \in Chats : c = Subject(a) /\ a \in Acts
    BY DEF Commit, TypeOK
  <1>2. CASE place[c] \in Expected(a.op)
    <2> DEFINE b == [a EXCEPT !.stage = "committed", !.chat = c]
    <2>1. /\ b \in Acts /\ b.op = a.op /\ b.from = a.from
          /\ b.shown = a.shown /\ b.dialog = a.dialog /\ b.undo = a.undo
          /\ b.stage = "committed" /\ b.chat = c
      <3>1. c \in Cursors
        BY <1>1, ChatsAre
      <3> QED
        BY <1>1, <3>1 DEF Acts
    <2>2. /\ acts' = (acts \ {a}) \cup {b} /\ a.stage = "sent"
          /\ place' = [place EXCEPT ![c] = Target(a.op)]
      BY <1>1, <1>2 DEF Commit
    <2> HIDE DEF b
    <2> QED
      BY <1>1, <1>2, <2>1, <2>2
  <1>3. CASE place[c] \notin Expected(a.op)
    <2> DEFINE b == [a EXCEPT !.stage = "refused"]
    <2>1. /\ b \in Acts /\ b.op = a.op /\ b.from = a.from
          /\ b.shown = a.shown /\ b.dialog = a.dialog /\ b.undo = a.undo
          /\ b.stage = "refused" /\ b.chat = a.chat
      BY <1>1 DEF Acts
    <2>2. /\ acts' = (acts \ {a}) \cup {b} /\ a.stage = "sent"
          /\ place' = place
      BY <1>1, <1>3 DEF Commit
    <2> HIDE DEF b
    <2> QED
      BY <1>1, <1>3, <2>1, <2>2
  <1> QED
    BY <1>2, <1>3

LEMMA DoneActs ==
    ASSUME TypeOK, NEW a \in acts, Done(a)
    PROVE  /\ \A d \in acts \ {a} : \E b \in acts' :
                /\ b.chat = d.chat /\ b.stage = d.stage
                /\ b.op = d.op /\ b.from = d.from
           /\ \A b \in acts' : \E d \in acts \ {a} :
                /\ b.chat = d.chat /\ b.stage = d.stage
                /\ b.op = d.op /\ b.from = d.from
  <1>1. CASE acts' = acts \ {a}
    BY <1>1
  <1>2. CASE acts' = {Orphan(d) : d \in acts \ {a}}
    <2>1. ASSUME NEW d \in acts \ {a}
          PROVE  /\ Orphan(d) \in acts'
                 /\ Orphan(d).chat = d.chat /\ Orphan(d).stage = d.stage
                 /\ Orphan(d).op = d.op /\ Orphan(d).from = d.from
      <3>1. Orphan(d) \in acts'
        BY <1>2
      <3>2. d \in Acts
        BY DEF TypeOK
      <3> QED
        BY <3>1, <3>2, OrphansAre
    <2>2. \A b \in acts' : \E d \in acts \ {a} : b = Orphan(d)
      BY <1>2
    <2>3. \A d \in acts \ {a} : \E b \in acts' :
            /\ b.chat = d.chat /\ b.stage = d.stage
            /\ b.op = d.op /\ b.from = d.from
      BY <2>1
    <2>4. ASSUME NEW b \in acts'
          PROVE  \E d \in acts \ {a} : /\ b.chat = d.chat /\ b.stage = d.stage
                                       /\ b.op = d.op /\ b.from = d.from
      <3>1. PICK d \in acts \ {a} : b = Orphan(d)
        BY <2>2
      <3> QED
        BY <2>1, <3>1
    <2> QED
      BY <2>3, <2>4
  <1> QED
    BY <1>1, <1>2 DEF Done, Orphan

LEMMA SideShowsStep ==
    ASSUME ChatListsAssumption, TypeOK, Named, SideShows, [Next]_vars
    PROVE  SideShows'
  <1>1. /\ side.list \in Seq(Chats) /\ side.loading \in BOOLEAN
        /\ first \in Slots /\ more \in Slots /\ acts \subseteq Acts
        /\ side \in [list : Seq(Chats), cursor : Cursors,
                     confirm : Cursors,
                     loading : BOOLEAN, error : BOOLEAN]
    BY DEF TypeOK
  <1>2. \A slot \in Slots : slot.data \in Seq(Chats)
    BY DEF Slots
  <1>3. None.stage = "none" /\ \A c : Asked(c).stage = "asked"
    BY DEF None, Asked
  <1>4. ASSUME NEW limit \in Limits, AnswerChats(limit)
        PROVE  SideShows'
    <2>1. \A c : Current(c) => Current(c)'
      BY <1>4, CurrentStays DEF AnswerChats
    <2>2. \A c \in At("active") : Current(c)
      BY DEF At, Current
    <2>3. CASE first' = PageOf(first, "active", limit) /\ UNCHANGED more
      <3>1. \A c \in ToSet(first'.data) : Current(c)
        BY <1>1, <2>2, <2>3, PageIs
      <3> QED
        BY <1>4, <2>1, <2>3, <3>1 DEF AnswerChats, SideShows
    <2>4. CASE more' = PageOf(more, "active", limit) /\ UNCHANGED first
      <3>1. \A c \in ToSet(more'.data) : Current(c)
        BY <1>1, <2>2, <2>4, PageIs
      <3> QED
        BY <1>4, <2>1, <2>4, <3>1 DEF AnswerChats, SideShows
    <2> QED
      BY <1>4, <2>3, <2>4 DEF AnswerChats
  <1>5. ASSUME NEW limit \in Limits, AnswerArchived(limit)
        PROVE  SideShows'
    BY <1>5, CurrentStays, SideShowsStays DEF AnswerArchived
  <1>6. CASE FirstPage
    <2>1. \A c : Current(c) => Current(c)'
      BY <1>6, CurrentStays DEF FirstPage
    <2>2. first'.stage = "none" /\ ~(more'.stage = "answered" /\ more'.fresh)
      BY <1>1, <1>3, <1>6 DEF FirstPage, Slots
    <2>3. lapses' = {} => first.stage = "answered" /\ first.fresh
      BY <1>1, <1>6 DEF FirstPage, Slots
    <2>4. side'.list = first.data
      BY <1>6 DEF FirstPage
    <2> QED
      BY <2>1, <2>2, <2>3, <2>4 DEF SideShows
  <1>7. CASE FirstPageFails
    BY <1>3, <1>7 DEF FirstPageFails, SideShows
  <1>8. CASE LoadMore \/ MoreFails
    <2>1. \A c : Current(c) => Current(c)'
      BY <1>8, CurrentStays DEF LoadMore, MoreFails
    <2>2. more'.stage # "answered" /\ UNCHANGED <<side, first, lapses>>
      BY <1>3, <1>8 DEF LoadMore, MoreFails
    <2> QED
      BY <2>1, <2>2 DEF SideShows
  <1>9. CASE MorePage
    <2>1. \A c : Current(c) => Current(c)'
      BY <1>9, CurrentStays DEF MorePage
    <2>2. /\ more'.stage = "none" /\ UNCHANGED first
          /\ side'.list = side.list \o more.data
          /\ side'.loading = side.loading
          /\ lapses' = {} => lapses = {} /\ more.fresh
          /\ more.stage = "answered"
      BY <1>1, <1>3, <1>9 DEF MorePage
    <2>3. ToSet(side'.list) = ToSet(side.list) \cup ToSet(more.data)
      BY <1>1, <1>2, <2>2, Concatenated
    <2> QED
      BY <2>1, <2>2, <2>3 DEF SideShows
  <1>10. CASE OpenArchive \/ LeaveArchive
    <2>1. /\ acts' = Orphans /\ place' = place /\ UNCHANGED sideVars
      BY <1>10 DEF OpenArchive, LeaveArchive
    <2>2. \A c : Current(c) => Current(c)'
      BY <2>1, OrphansStay, CurrentStays
    <2> QED
      BY <2>1, <2>2, SideShowsStays
  <1>11. CASE \/ ArchivePage \/ ArchivePageFails \/ LoadMoreArchived
              \/ MoreArchived \/ MoreArchivedFails
    <2>1. /\ acts' = acts /\ place' = place /\ UNCHANGED sideVars
      BY <1>11 DEF ArchivePage, ArchivePageFails, LoadMoreArchived,
                   MoreArchived, MoreArchivedFails
    <2> QED
      BY <2>1, CurrentStays, SideShowsStays
  <1>12. CASE \/ SendFirstMessage
              \/ \E c \in Chats : \/ DeleteArchived(c) \/ Restore(c)
                                  \/ \E op \in {"archive", "delete"} :
                                        RemoveOpenChat(op, c)
    <2>1. /\ acts \subseteq acts' /\ place' = place /\ UNCHANGED sideVars
      BY <1>12 DEF SendFirstMessage, DeleteArchived, Restore, RemoveOpenChat,
                   Send
    <2> QED
      BY <2>1, CurrentStays, SideShowsStays
  <1>13. ASSUME NEW c \in Chats, NEW op \in {"archive", "delete"},
                RemoveFromSidebar(op, c)
         PROVE  SideShows'
    <2>1. \A d : Current(d) => Current(d)'
      BY <1>13, CurrentStays DEF RemoveFromSidebar, Send
    <2>2. ToSet(side'.list) \subseteq ToSet(side.list)
      BY <1>1, <1>13, WithoutIs DEF RemoveFromSidebar
    <2>3. side'.loading = side.loading /\ UNCHANGED <<first, more, lapses>>
      BY <1>1, <1>13 DEF RemoveFromSidebar
    <2> QED
      BY <2>1, <2>2, <2>3 DEF SideShows
  <1>14. ASSUME NEW a \in acts, Commit(a)
         PROVE  SideShows'
    <2>1. PICK c \in Chats, b \in Acts :
            /\ c = Subject(a) /\ a.stage = "sent"
            /\ acts' = (acts \ {a}) \cup {b}
            /\ b.op = a.op /\ b.from = a.from /\ b.shown = a.shown
            /\ IF place[c] \in Expected(a.op)
               THEN /\ b.stage = "committed" /\ b.chat = c
                    /\ place' = [place EXCEPT ![c] = Target(a.op)]
               ELSE /\ b.stage = "refused" /\ b.chat = a.chat
                    /\ place' = place
      BY <1>14, CommitActs
    <2>2. \A d : Leaving(d) => Leaving(d)'
      BY <2>1 DEF Leaving
    <2>3. CASE a.from = "arch" /\ place[c] = "active"
                   /\ place[c] \in Expected(a.op)
      <3>1. lapses' # {} /\ first' = Aged(first)
        BY <1>14, <2>1, <2>3 DEF Commit, SidebarUntold
      <3>2. ~(first'.stage = "answered" /\ first'.fresh)
        BY <1>1, <3>1, SlotsAre
      <3> QED
        BY <3>1, <3>2 DEF SideShows
    <2>4. CASE ~(a.from = "arch" /\ place[c] = "active"
                     /\ place[c] \in Expected(a.op))
      <3>1. UNCHANGED sideVars
        BY <1>14, <2>1, <2>4 DEF Commit, sideVars
      <3>2. a.op \in Ops /\ a.from \in {"side", "page", "arch"}
        BY <1>1 DEF Acts
      <3>3. place' # place /\ place[c] = "active" => Leaving(c)'
        <4> SUFFICES ASSUME place' # place, place[c] = "active"
                     PROVE  Leaving(c)'
          OBVIOUS
        <4>1. place[c] \in Expected(a.op)
          BY <2>1
        <4>2. a.op \in {"archive", "delete"}
          BY <3>2, <4>1 DEF Ops, Expected
        <4>3. b \in acts' /\ b.chat = c /\ b.stage = "committed"
          BY <2>1, <4>1
        <4>4. b.op \in {"archive", "delete"} /\ b.from \in {"side", "page"}
          BY <2>1, <2>4, <3>2, <4>1, <4>2
        <4> QED
          BY <4>3, <4>4 DEF Leaving
      <3>4. \A d : place[d] = "active" /\ d # c => place'[d] = "active"
                                                   \/ d \notin Chats
        BY <2>1 DEF TypeOK
      <3>5. \A d \in Chats : Current(d) => Current(d)'
        BY <2>1, <2>2, <3>3, <3>4 DEF Current
      <3>6. /\ ToSet(side.list) \subseteq Chats
            /\ ToSet(first.data) \subseteq Chats
            /\ ToSet(more.data) \subseteq Chats
        BY <1>1, <1>2, Elements
      <3> QED
        BY <3>1, <3>5, <3>6 DEF SideShows, sideVars
    <2> QED
      BY <2>3, <2>4
  <1>15. ASSUME NEW a \in acts, Done(a)
         PROVE  SideShows'
    <2>1. place' = place /\ a.stage = "committed"
      BY <1>15 DEF Done
    <2>2. CASE UNCHANGED sideVars /\ a.from = "arch"
      <3>1. \A c : Current(c) => Current(c)'
        BY <1>15, <2>1, <2>2, DoneActs, CurrentStays
      <3> QED
        BY <2>2, <3>1, SideShowsStays
    <2>3. CASE NotifyDeleted
      <3>1. first'.stage = "asked" /\ side'.loading = TRUE
        BY <1>1, <1>3, <2>3 DEF NotifyDeleted, Refetch
      <3> QED
        BY <3>1 DEF SideShows
    <2>4. CASE /\ a.op = "create" /\ NotifyCreated(a.chat)
               /\ lapses' = IF place[a.chat] # "active"
                            THEN lapses \cup {"behind"} ELSE lapses
      <3>1. a.chat \in Chats
        BY <1>1, <2>1, ChatsAre DEF Named, Acts
      <3>2. first'.stage = "asked" /\ UNCHANGED more
        BY <1>3, <2>4 DEF NotifyCreated, Refetch
      <3>3. /\ side'.loading = side.loading
            /\ side'.list = <<a.chat>> \o Without(a.chat, side.list)
        BY <1>1, <2>4 DEF NotifyCreated, Refetch
      <3>4. ToSet(side'.list) \subseteq {a.chat} \cup ToSet(side.list)
        BY <1>1, <3>1, <3>3, WithoutIs, InFrontIs
      <3>5. \A c : Current(c) => Current(c)'
        <4>1. \A c : Leaving(c) => Leaving(c)'
          BY <1>15, <2>4, DoneActs DEF Leaving
        <4> QED
          BY <2>1, <4>1 DEF Current
      <3>6. lapses' = {} => lapses = {} /\ Current(a.chat)
        BY <2>4 DEF Current
      <3> QED
        BY <3>2, <3>3, <3>4, <3>5, <3>6 DEF SideShows
    <2>5. a.op # "create" /\ ~(a.from = "arch" /\ a.op = "delete") =>
            NotifyDeleted
      BY <1>15 DEF Done
    <2>6. a.op = "create" => a.from = "page"
      BY DEF Named
    <2>7. CASE a.op = "create"
      BY <1>15, <2>4, <2>6, <2>7 DEF Done
    <2>8. CASE a.from = "arch" /\ a.op = "delete"
      BY <1>15, <2>2, <2>3, <2>8 DEF Done
    <2> QED
      BY <2>3, <2>5, <2>7, <2>8
  <1>16. ASSUME NEW a \in acts, Fail(a)
         PROVE  SideShows'
    <2>1. CASE a.stage = "committed"
      <3>1. lapses' # {} /\ first' = Aged(first)
        BY <1>16, <2>1 DEF Fail
      <3>2. ~(first'.stage = "answered" /\ first'.fresh)
        BY <1>1, <3>1, SlotsAre
      <3> QED
        BY <3>1, <3>2 DEF SideShows
    <2>2. CASE a.stage # "committed"
      <3>1. \A c : Current(c) => Current(c)'
        BY <1>16, <2>2, CurrentStays DEF Fail
      <3>2. UNCHANGED <<first, more>>
        BY <1>16, <2>2 DEF Fail
      <3>3. CASE a.from = "side"
        <4>1. lapses' # {}
          BY <1>16, <3>3 DEF Fail
        <4> QED
          BY <3>1, <3>2, <4>1 DEF SideShows
      <3>4. CASE a.from # "side"
        <4>1. side' = side /\ lapses' = lapses
          BY <1>16, <2>2, <3>4 DEF Fail
        <4> QED
          BY <3>1, <3>2, <4>1, SideShowsStays DEF sideVars
      <3> QED
        BY <3>3, <3>4
    <2> QED
      BY <2>1, <2>2
  <1>17. ASSUME NEW op \in Ops, Foreign(op)
         PROVE  SideShows'
    <2>1. lapses' # {} /\ first' = Aged(first)
      BY <1>17 DEF Foreign, SidebarUntold
    <2>2. ~(first'.stage = "answered" /\ first'.fresh)
      BY <1>1, <2>1, SlotsAre
    <2> QED
      BY <2>1, <2>2 DEF SideShows
  <1>18. CASE UNCHANGED vars
    <2>1. acts' = acts /\ place' = place /\ UNCHANGED sideVars
      BY <1>18 DEF vars
    <2> QED
      BY <2>1, CurrentStays, SideShowsStays
  <1>19. CASE KeepIt \/ \E c \in Chats : AskToRemove(c)
    <2>1. /\ UNCHANGED <<place, first, more, lapses, acts>>
          /\ side'.list = side.list /\ side'.loading = side.loading
      BY <1>19, Asking
    <2>2. \A c : Current(c) => Current(c)'
      BY <2>1, CurrentStays
    <2> QED
      BY <2>1, <2>2 DEF SideShows
  <1> QED
    BY <1>4, <1>5, <1>6, <1>7, <1>8, <1>9, <1>10, <1>11, <1>12, <1>13,
       <1>14, <1>15, <1>16, <1>17, <1>18, <1>19 DEF Next

-----------------------------------------------------------------------------
(* The sidebar ends as a page of the server's list.                        *)

\* It stays one as long as its state and the server's list do, and no request
\* that ends in a refetch or a lapse is forgotten.
LEMMA PageStays ==
    ASSUME SideIsAPage, UNCHANGED <<side, first, more, lapses>>,
           At("active")' = At("active"),
           \A a \in acts :
               /\ Telling(a) => \E b \in acts' : Telling(b)
               /\ a.from = "side" => \E b \in acts' : b.from = "side"
    PROVE  SideIsAPage'
  <1>1. (\A a \in acts' : ~Telling(a)) => \A a \in acts : ~Telling(a)
    OBVIOUS
  <1>2. Calm' => Calm
    BY DEF Calm
  <1> QED
    BY <1>1, <1>2 DEF SideIsAPage

LEMMA SideIsAPageStep ==
    ASSUME ChatListsAssumption, TypeOK, Named, SideIsAPage, [Next]_vars
    PROVE  SideIsAPage'
  <1>1. /\ side.list \in Seq(Chats) /\ side.cursor \in Cursors
        /\ first \in Slots /\ more \in Slots /\ acts \subseteq Acts
        /\ side \in [list : Seq(Chats), cursor : Cursors,
                     confirm : Cursors,
                     loading : BOOLEAN, error : BOOLEAN]
    BY DEF TypeOK
  <1>2. \A slot \in Slots :
          /\ slot.data \in Seq(Chats) /\ slot.next \in Cursors
          /\ slot.cursor \in Cursors
    BY DEF Slots
  <1>3. /\ None.stage = "none"
        /\ \A c : /\ Asked(c).stage = "asked" /\ Asked(c).cursor = c
                  /\ Asked(c).fresh = TRUE
    BY DEF None, Asked
  <1>4. /\ first.stage # "none" => first.cursor = 0
        /\ (/\ first.stage = "answered" /\ first.fresh
            /\ \A a \in acts : ~Telling(a)) =>
               Pages(first.data, first.next, At("active"))
        /\ Calm => Pages(side.list, side.cursor, At("active"))
        /\ (Calm /\ more.stage # "none" /\ more.fresh) =>
               /\ more.cursor = side.cursor /\ side.cursor # 0
               /\ more.stage = "answered" =>
                      Pages(more.data, more.next,
                            Past(more.cursor, At("active")))
    BY DEF SideIsAPage
  <1>5. place' = place => At("active")' = At("active")
    BY DEF At
  <1>6. ASSUME NEW limit \in Limits, AnswerChats(limit)
        PROVE  SideIsAPage'
    <2>1. /\ place' = place /\ acts' = acts /\ lapses' = lapses
          /\ side' = side
      BY <1>6 DEF AnswerChats
    <2>2. CASE first.stage = "asked" /\ first' = PageOf(first, "active", limit)
      <3>1. /\ first'.stage = "answered" /\ first'.cursor = 0
            /\ Pages(first'.data, first'.next, Past(0, At("active")))
        BY <1>1, <1>4, <2>2, PageIs
      <3>2. Past(0, At("active")) = At("active")
        BY DEF Past
      <3>3. ~Calm'
        BY <3>1 DEF Calm
      <3> QED
        BY <1>5, <2>1, <3>1, <3>2, <3>3 DEF SideIsAPage
    <2>3. CASE /\ more.stage = "asked" /\ UNCHANGED first
               /\ more' = PageOf(more, "active", limit)
      <3>1. Calm' => Calm
        BY <2>1, <2>3 DEF Calm
      <3>2. /\ more'.cursor = more.cursor /\ more'.fresh = more.fresh
            /\ more.cursor \in At("active") =>
                   Pages(more'.data, more'.next,
                         Past(more.cursor, At("active")))
        BY <1>1, <2>3, PageIs
      <3>3. Calm /\ side.cursor # 0 => side.cursor \in At("active")
        <4> SUFFICES ASSUME Calm, side.cursor # 0
                     PROVE  side.cursor \in At("active")
          OBVIOUS
        <4>1. /\ ToSet(side.list) \subseteq At("active")
              /\ side.list # <<>> /\ side.cursor = side.list[Len(side.list)]
          BY <1>4 DEF Pages
        <4>2. Len(side.list) \in Nat /\ Len(side.list) # 0
          BY <1>1, <4>1, Elements
        <4>3. Len(side.list) \in 1 .. Len(side.list)
          BY <4>2
        <4> QED
          BY <1>1, <4>1, <4>3, Elements
      <3>4. Calm /\ more.fresh =>
              /\ more'.cursor = side.cursor /\ side.cursor # 0
              /\ Pages(more'.data, more'.next,
                       Past(more'.cursor, At("active")))
        BY <1>4, <2>3, <3>2, <3>3
      <3>5. /\ first' = first /\ side' = side /\ acts' = acts
            /\ At("active")' = At("active")
        BY <1>5, <2>1, <2>3
      <3>6. Pages(more'.data, more'.next, Past(more'.cursor, At("active"))) =>
              Pages(more'.data, more'.next, Past(more'.cursor, At("active")'))
        BY <3>5
      <3>7. (\A a \in acts' : ~Telling(a)) => \A a \in acts : ~Telling(a)
        BY <3>5
      <3> QED
        BY <1>4, <3>1, <3>2, <3>4, <3>5, <3>6, <3>7 DEF SideIsAPage
    <2> QED
      BY <1>6, <2>2, <2>3 DEF AnswerChats
  <1>7. ASSUME NEW limit \in Limits, AnswerArchived(limit)
        PROVE  SideIsAPage'
    BY <1>5, <1>7, PageStays DEF AnswerArchived, sideVars
  <1>8. CASE FirstPage
    <2>1. first'.stage = "none" /\ ~(more'.stage # "none" /\ more'.fresh)
      BY <1>1, <1>3, <1>8 DEF FirstPage, Slots
    <2>2. /\ place' = place /\ acts' = acts /\ first.stage = "answered"
          /\ side'.list = first.data /\ side'.cursor = first.next
      BY <1>8 DEF FirstPage
    <2>3. lapses' = {} => first.fresh
      BY <1>1, <1>8 DEF FirstPage, Slots
    <2>4. Calm' => \A a \in acts : ~Telling(a)
      BY <2>2 DEF Calm
    <2>5. Calm' => lapses' = {}
      BY DEF Calm
    <2>6. Calm' => Pages(side'.list, side'.cursor, At("active")')
      BY <1>4, <1>5, <2>2, <2>3, <2>4, <2>5
    <2> QED
      BY <2>1, <2>6 DEF SideIsAPage
  <1>9. CASE FirstPageFails
    <2>1. first'.stage = "none" /\ lapses' # {}
      BY <1>3, <1>9 DEF FirstPageFails
    <2> QED
      BY <2>1 DEF SideIsAPage, Calm
  <1>10. CASE LoadMore \/ MoreFails
    <2>1. /\ place' = place /\ acts' = acts /\ lapses' = lapses
          /\ side' = side /\ first' = first
      BY <1>10 DEF LoadMore, MoreFails
    <2>2. \/ more'.stage = "none"
          \/ /\ more'.stage = "asked" /\ more'.cursor = side.cursor
             /\ side.cursor # 0
      BY <1>3, <1>10 DEF LoadMore, MoreFails, OffersMore
    <2>3. Calm' => Calm
      BY <2>1 DEF Calm
    <2> QED
      BY <1>4, <1>5, <2>1, <2>2, <2>3 DEF SideIsAPage
  <1>11. CASE MorePage
    <2>1. /\ place' = place /\ acts' = acts /\ first' = first
          /\ side'.list = side.list \o more.data /\ side'.cursor = more.next
          /\ lapses' = {} => lapses = {} /\ more.fresh
          /\ more'.stage = "none" /\ more.stage = "answered"
      BY <1>1, <1>3, <1>11 DEF MorePage
    <2>2. Calm' => Calm /\ more.fresh
      BY <2>1 DEF Calm
    <2>3. ASSUME Calm, more.fresh
          PROVE  Pages(side.list \o more.data, more.next, At("active"))
      <3>1. /\ Pages(side.list, side.cursor, At("active")) /\ side.cursor # 0
            /\ Pages(more.data, more.next, Past(side.cursor, At("active")))
        BY <1>4, <2>1, <2>3
      <3>2. \A c \in At("active") : c \in Nat /\ c > 0
        BY ChatsAre DEF At
      <3>3. \A s \in Seq(Chats) :
              ToSet(s) \subseteq At("active") => s \in Seq(At("active"))
        <4> SUFFICES ASSUME NEW s \in Seq(Chats),
                            ToSet(s) \subseteq At("active")
                     PROVE  s \in Seq(At("active"))
          OBVIOUS
        <4>1. \A i \in 1 .. Len(s) : s[i] \in At("active")
          BY Elements
        <4> QED
          BY <4>1, Elements, IsASeq
      <3>4. /\ ToSet(side.list) \subseteq At("active")
            /\ ToSet(more.data) \subseteq At("active")
        BY <3>1 DEF Pages, Past
      <3>5. /\ side.list \in Seq(At("active"))
            /\ more.data \in Seq(At("active"))
            /\ side.cursor \in Nat /\ more.next \in Nat
        BY <1>1, <1>2, <3>3, <3>4, ChatsAre
      <3> QED
        BY <3>1, <3>2, <3>5, PagesJoin
    <2>4. Calm' => Pages(side'.list, side'.cursor, At("active")')
      BY <1>5, <2>1, <2>2, <2>3
    <2>5. (\A a \in acts' : ~Telling(a)) => \A a \in acts : ~Telling(a)
      BY <2>1
    <2> QED
      BY <1>4, <1>5, <2>1, <2>4, <2>5 DEF SideIsAPage
  <1>12. CASE OpenArchive \/ LeaveArchive
    <2>1. /\ acts' = Orphans /\ place' = place
          /\ UNCHANGED <<side, first, more, lapses>>
      BY <1>12 DEF OpenArchive, LeaveArchive, sideVars
    <2> QED
      BY <1>5, <2>1, OrphansStay, PageStays DEF Telling
  <1>13. CASE \/ ArchivePage \/ ArchivePageFails \/ LoadMoreArchived
              \/ MoreArchived \/ MoreArchivedFails \/ SendFirstMessage
              \/ \E c \in Chats : \/ DeleteArchived(c) \/ Restore(c)
                                  \/ \E op \in {"archive", "delete"} :
                                        RemoveOpenChat(op, c)
    <2>1. /\ acts \subseteq acts' /\ place' = place
          /\ UNCHANGED <<side, first, more, lapses>>
      BY <1>13 DEF ArchivePage, ArchivePageFails, LoadMoreArchived,
                   MoreArchived, MoreArchivedFails, SendFirstMessage,
                   DeleteArchived, Restore, RemoveOpenChat, Send, sideVars
    <2> QED
      BY <1>5, <2>1, PageStays
  <1>14. ASSUME NEW c \in Chats, NEW op \in {"archive", "delete"},
                RemoveFromSidebar(op, c)
         PROVE  SideIsAPage'
    <2>1. /\ acts \subseteq acts' /\ place' = place
          /\ UNCHANGED <<first, more>>
      BY <1>14 DEF RemoveFromSidebar, Send
    <2>2. \E a \in acts' : a.from = "side"
      <3>1. Act(op, c, "side", TRUE, <<>>) \in acts'
        BY <1>14 DEF RemoveFromSidebar, Send
      <3>2. Act(op, c, "side", TRUE, <<>>).from = "side"
        BY DEF Act
      <3> QED
        BY <3>1, <3>2
    <2>3. ~Calm'
      BY <2>2 DEF Calm
    <2>4. (\A a \in acts' : ~Telling(a)) => \A a \in acts : ~Telling(a)
      BY <2>1
    <2> QED
      BY <1>4, <1>5, <2>1, <2>3, <2>4 DEF SideIsAPage
  <1>15. ASSUME NEW a \in acts, Commit(a)
         PROVE  SideIsAPage'
    <2>1. PICK c \in Chats, b \in Acts :
            /\ c = Subject(a) /\ a.stage = "sent"
            /\ acts' = (acts \ {a}) \cup {b}
            /\ b.op = a.op /\ b.from = a.from /\ b.shown = a.shown
            /\ IF place[c] \in Expected(a.op)
               THEN /\ b.stage = "committed" /\ b.chat = c
                    /\ place' = [place EXCEPT ![c] = Target(a.op)]
               ELSE /\ b.stage = "refused" /\ b.chat = a.chat
                    /\ place' = place
      BY <1>15, CommitActs
    <2>2. side' = side /\ a.op \in Ops
      BY <1>1, <1>15 DEF Commit, Acts
    <2>3. \/ first' = first
          \/ first' = Aged(first)
      BY <1>15 DEF Commit, SidebarUntold
    <2>4. first'.stage = first.stage /\ first'.cursor = first.cursor
      BY <1>1, <2>3, SlotsAre
    <2>5. CASE Telling(b)
      <3>1. ~Calm' /\ ~(\A d \in acts' : ~Telling(d))
        BY <2>1, <2>5 DEF Calm
      <3> QED
        BY <1>4, <2>4, <3>1 DEF SideIsAPage
    <2>6. CASE a.from = "arch" /\ place[c] = "active"
                   /\ place[c] \in Expected(a.op)
      <3>1. lapses' # {} /\ first' = Aged(first)
        BY <1>15, <2>1, <2>6 DEF Commit, SidebarUntold
      <3>2. ~Calm' /\ ~(first'.stage = "answered" /\ first'.fresh)
        BY <1>1, <3>1, SlotsAre DEF Calm
      <3> QED
        BY <1>4, <2>4, <3>2 DEF SideIsAPage
    <2>7. CASE /\ ~Telling(b)
               /\ ~(a.from = "arch" /\ place[c] = "active"
                        /\ place[c] \in Expected(a.op))
      <3>1. UNCHANGED <<side, first, more, lapses>>
        BY <1>15, <2>1, <2>7 DEF Commit
      <3>2. At("active")' = At("active")
        <4>1. CASE place' = place
          BY <1>5, <4>1
        <4>2. CASE place' # place
          <5>1. /\ b.stage = "committed" /\ place[c] \in Expected(a.op)
                /\ place' = [place EXCEPT ![c] = Target(a.op)]
            BY <2>1, <4>2
          <5>2. a.from = "arch" /\ a.op = "delete"
            BY <2>1, <2>7, <5>1 DEF Telling
          <5>3. place[c] # "active" /\ Target(a.op) = "deleted"
            BY <2>7, <5>1, <5>2 DEF Target
          <5>4. place \in [Chats -> Places]
            BY DEF TypeOK
          <5>5. \A d \in Chats : place'[d] = "active" <=> place[d] = "active"
            BY <5>1, <5>3, <5>4
          <5> QED
            BY <5>5 DEF At
        <4> QED
          BY <4>1, <4>2
      <3>3. \A d \in acts :
              /\ Telling(d) => \E e \in acts' : Telling(e)
              /\ d.from = "side" => \E e \in acts' : e.from = "side"
        <4>1. ~Telling(a) /\ b \in acts'
          BY <2>1 DEF Telling
        <4>2. \A d \in acts : d # a => d \in acts'
          BY <2>1
        <4> QED
          BY <2>1, <4>1, <4>2
      <3> QED
        BY <3>1, <3>2, <3>3, PageStays
    <2> QED
      BY <2>5, <2>6, <2>7
  <1>16. ASSUME NEW a \in acts, Done(a)
         PROVE  SideIsAPage'
    <2>1. place' = place /\ a.stage = "committed"
      BY <1>16 DEF Done
    <2>2. CASE UNCHANGED sideVars /\ a.from = "arch" /\ a.op = "delete"
      <3>1. \A d \in acts : d.from = "side" \/ Telling(d) => d # a
        BY <2>2 DEF Telling
      <3>2. UNCHANGED <<side, first, more, lapses>>
        BY <2>2 DEF sideVars
      <3> QED
        BY <1>5, <1>16, <2>1, <2>2, <3>1, <3>2, DoneActs, PageStays
        DEF Telling
    <2>3. CASE first' = Asked(0)
      <3>1. first'.stage = "asked" /\ first'.cursor = 0
        BY <1>3, <2>3
      <3> QED
        BY <3>1 DEF SideIsAPage, Calm
    <2> QED
      BY <1>16, <2>2, <2>3 DEF Done, NotifyDeleted, NotifyCreated, Refetch
  <1>17. ASSUME NEW a \in acts, Fail(a)
         PROVE  SideIsAPage'
    <2>1. place' = place /\ acts' = acts \ {a}
      BY <1>17 DEF Fail
    <2>2. CASE a.stage = "committed"
      <3>1. lapses' # {} /\ first' = Aged(first)
        BY <1>17, <2>2 DEF Fail
      <3>2. /\ ~Calm' /\ ~(first'.stage = "answered" /\ first'.fresh)
            /\ first'.stage = first.stage /\ first'.cursor = first.cursor
        BY <1>1, <3>1, SlotsAre DEF Calm
      <3> QED
        BY <1>4, <3>2 DEF SideIsAPage
    <2>3. CASE a.stage # "committed"
      <3>1. UNCHANGED <<first, more>> /\ ~Telling(a)
        BY <1>17, <2>3 DEF Fail, Telling
      <3>2. CASE a.from = "side"
        <4>1. ~Calm'
          BY <1>17, <3>2 DEF Fail, Calm
        <4>2. (\A d \in acts' : ~Telling(d)) => \A d \in acts : ~Telling(d)
          BY <2>1, <3>1
        <4> QED
          BY <1>4, <1>5, <2>1, <3>1, <4>1, <4>2 DEF SideIsAPage
      <3>3. CASE a.from # "side"
        <4>1. side' = side /\ lapses' = lapses
          BY <1>17, <2>3, <3>3 DEF Fail
        <4> QED
          BY <1>5, <2>1, <3>1, <3>3, <4>1, PageStays
      <3> QED
        BY <3>2, <3>3
    <2> QED
      BY <2>2, <2>3
  <1>18. ASSUME NEW op \in Ops, Foreign(op)
         PROVE  SideIsAPage'
    <2>1. lapses' # {} /\ first' = Aged(first)
      BY <1>18 DEF Foreign, SidebarUntold
    <2>2. /\ ~Calm' /\ ~(first'.stage = "answered" /\ first'.fresh)
          /\ first'.stage = first.stage /\ first'.cursor = first.cursor
      BY <1>1, <2>1, SlotsAre DEF Calm
    <2> QED
      BY <1>4, <2>2 DEF SideIsAPage
  <1>19. CASE UNCHANGED vars
    <2>1. /\ acts' = acts /\ place' = place
          /\ UNCHANGED <<side, first, more, lapses>>
      BY <1>19 DEF vars, sideVars
    <2> QED
      BY <1>5, <2>1, PageStays
  <1>20. CASE KeepIt \/ \E c \in Chats : AskToRemove(c)
    <2>1. /\ UNCHANGED <<place, first, more, lapses, acts>>
          /\ side'.list = side.list /\ side'.cursor = side.cursor
      BY <1>20, Asking
    <2>2. At("active")' = At("active")
      BY <2>1 DEF At
    <2>3. /\ Calm' <=> Calm
          /\ (\A a \in acts' : ~Telling(a)) <=> \A a \in acts : ~Telling(a)
      BY <2>1 DEF Calm
    <2> QED
      BY <2>1, <2>2, <2>3 DEF SideIsAPage
  <1> QED
    BY <1>6, <1>7, <1>8, <1>9, <1>10, <1>11, <1>12, <1>13, <1>14,
       <1>15, <1>16, <1>17, <1>18, <1>19, <1>20 DEF Next

-----------------------------------------------------------------------------
(* The archive page.                                                       *)

\* The shape holds of the page as it was and of requests that were there.
LEMMA ShapeStays ==
    ASSUME ArchShape,
           arch'.open = arch.open, arch'.loading = arch.loading,
           arch'.cursor = arch.cursor,
           arch'.list = arch.list \/ ~arch.loading,
           archFirst'.stage = archFirst.stage,
           archFirst'.cursor = archFirst.cursor,
           archMore'.stage = archMore.stage,
           archMore'.cursor = archMore.cursor,
           \A b \in acts' :
               \/ \E a \in acts :
                     /\ b.from = a.from /\ b.op = a.op
                     /\ Handling(b) => /\ Handling(a)
                                       /\ b.dialog = a.dialog
                                       /\ b.undo = a.undo
               \/ b.from # "arch"
               \/ /\ b.op \in {"delete", "restore"}
                  /\ arch.open /\ ~arch.loading
                  /\ b.op = "delete" => b.dialog
                  /\ b.op = "restore" => b.undo = <<>>
    PROVE  ArchShape'
  <1>1. ASSUME NEW b \in acts'
        PROVE  /\ b.from = "arch" => b.op \in {"delete", "restore"}
               /\ Handling(b) => /\ arch.open /\ ~arch.loading
                                 /\ b.op = "delete" => b.dialog
                                 /\ b.op = "restore" => b.undo = <<>>
    BY DEF ArchShape, Handling
  <1>2. /\ arch.loading => arch.list = <<>> /\ arch.cursor = 0
        /\ archFirst.stage # "none" =>
               arch.open /\ arch.loading /\ archFirst.cursor = 0
        /\ archMore.stage # "none" =>
               arch.open /\ ~arch.loading /\ archMore.cursor # 0
    BY DEF ArchShape
  <1> QED
    BY <1>1, <1>2 DEF ArchShape, Handling

\* When its components go, so does its load.
LEMMA ShapeLost ==
    ASSUME ArchShape, \A b \in acts' : ~Handling(b),
           \A b \in acts' : \E a \in acts : b.from = a.from /\ b.op = a.op,
           \E open \in BOOLEAN : arch' = Archive(open),
           archFirst' = None \/ (archFirst' = Asked(0) /\ arch'.open),
           archMore' = None
    PROVE  ArchShape'
  <1>1. /\ None.stage = "none" /\ Asked(0).cursor = 0
        /\ arch'.loading /\ arch'.list = <<>> /\ arch'.cursor = 0
    BY DEF None, Asked, Archive
  <1>2. \A b \in acts' : b.from = "arch" => b.op \in {"delete", "restore"}
    BY DEF ArchShape
  <1> QED
    BY <1>1, <1>2 DEF ArchShape, Handling

LEMMA ArchShapeStep ==
    ASSUME ChatListsAssumption, TypeOK, Named, ArchShape, [Next]_vars
    PROVE  ArchShape'
  <1>1. /\ arch \in [open : BOOLEAN, list : Seq(Chats), cursor : Cursors,
                     loading : BOOLEAN]
        /\ archFirst \in Slots /\ archMore \in Slots /\ acts \subseteq Acts
    BY DEF TypeOK
  <1>2. /\ None.stage = "none" /\ None.cursor = 0
        /\ \A c : Asked(c).stage = "asked" /\ Asked(c).cursor = c
    BY DEF None, Asked
  <1>3. /\ arch.loading => arch.list = <<>> /\ arch.cursor = 0
        /\ archFirst.stage # "none" =>
               arch.open /\ arch.loading /\ archFirst.cursor = 0
        /\ archMore.stage # "none" =>
               arch.open /\ ~arch.loading /\ archMore.cursor # 0
        /\ \A a \in acts :
               /\ a.from = "arch" => a.op \in {"delete", "restore"}
               /\ Handling(a) => /\ arch.open /\ ~arch.loading
                                 /\ a.op = "delete" => a.dialog
                                 /\ a.op = "restore" => a.undo = <<>>
    BY DEF ArchShape
  <1>4. ASSUME UNCHANGED archVars, acts' = acts
        PROVE  ArchShape'
    BY <1>4, ShapeStays DEF archVars
  <1>5. CASE \/ FirstPage \/ FirstPageFails \/ LoadMore \/ MorePage
             \/ MoreFails \/ \E limit \in Limits : AnswerChats(limit)
    BY <1>4, <1>5 DEF FirstPage, FirstPageFails, LoadMore, MorePage,
                      MoreFails, AnswerChats
  <1>6. ASSUME NEW limit \in Limits, AnswerArchived(limit)
        PROVE  ArchShape'
    <2>1. acts' = acts /\ arch' = arch
      BY <1>6 DEF AnswerArchived
    <2>2. /\ archFirst'.stage # "none" => archFirst.stage # "none"
          /\ archFirst'.cursor = archFirst.cursor
          /\ archMore'.stage # "none" => archMore.stage # "none"
          /\ archMore'.cursor = archMore.cursor
      BY <1>1, <1>6, PageIs DEF AnswerArchived
    <2> QED
      BY <1>3, <2>1, <2>2 DEF ArchShape, Handling
  <1>7. CASE OpenArchive
    BY <1>7, OrphansStay, ShapeLost
    DEF OpenArchive, Archive, Handling
  <1>8. CASE LeaveArchive
    BY <1>8, OrphansStay, ShapeLost DEF LeaveArchive, Closed, Handling
  <1>9. CASE ArchivePage
    <2>1. /\ acts' = acts /\ archFirst'.stage = "none"
          /\ archMore' = archMore /\ arch'.loading = FALSE
          /\ archFirst.stage # "none"
      BY <1>2, <1>9 DEF ArchivePage
    <2> QED
      BY <1>3, <2>1 DEF ArchShape, Handling
  <1>10. CASE ArchivePageFails
    <2>1. /\ acts' = acts /\ archFirst'.stage = "none"
          /\ archMore' = archMore /\ arch'.loading = FALSE
          /\ archFirst.stage # "none"
      BY <1>1, <1>2, <1>10 DEF ArchivePageFails
    <2> QED
      BY <1>3, <2>1 DEF ArchShape, Handling
  <1>11. CASE LoadMoreArchived
    <2>1. /\ acts' = acts /\ arch' = arch /\ archFirst' = archFirst
          /\ archMore' = Asked(arch.cursor)
          /\ arch.open /\ ~arch.loading /\ arch.cursor # 0
      BY <1>11 DEF LoadMoreArchived, ArchOffersMore
    <2> QED
      BY <1>2, <1>3, <2>1 DEF ArchShape, Handling
  <1>12. CASE MoreArchived
    <2>1. /\ acts' = acts /\ archFirst' = archFirst
          /\ archMore'.stage = "none" /\ archMore.stage # "none"
          /\ arch'.open = arch.open /\ arch'.loading = arch.loading
      BY <1>1, <1>2, <1>12 DEF MoreArchived
    <2> QED
      BY <1>3, <2>1 DEF ArchShape, Handling
  <1>13. CASE MoreArchivedFails
    <2>1. /\ acts' = acts /\ archFirst' = archFirst /\ arch' = arch
          /\ archMore'.stage = "none"
      BY <1>2, <1>13 DEF MoreArchivedFails
    <2> QED
      BY <1>3, <2>1 DEF ArchShape, Handling
  <1>14. CASE \/ SendFirstMessage
              \/ \E c \in Chats, op \in {"archive", "delete"} :
                    RemoveFromSidebar(op, c) \/ RemoveOpenChat(op, c)
    <2>1. PICK op \in Ops, c \in Cursors, from \in {"side", "page"},
               dialog \in BOOLEAN :
            /\ acts' = acts \cup {Act(op, c, from, dialog, <<>>)}
            /\ UNCHANGED archVars
      <3>1. CASE SendFirstMessage
        <4>1. "create" \in Ops /\ 0 \in Cursors
          BY ChatsAre DEF Ops
        <4> QED
          BY <3>1, <4>1 DEF SendFirstMessage, Send
      <3>2. CASE \E c \in Chats, op \in {"archive", "delete"} :
                   RemoveFromSidebar(op, c) \/ RemoveOpenChat(op, c)
        <4>1. PICK c \in Chats, op \in {"archive", "delete"} :
                RemoveFromSidebar(op, c) \/ RemoveOpenChat(op, c)
          BY <3>2
        <4>2. op \in Ops /\ c \in Cursors
          BY ChatsAre DEF Ops
        <4> QED
          BY <4>1, <4>2 DEF RemoveFromSidebar, RemoveOpenChat, Send
      <3> QED
        BY <1>14, <3>1, <3>2
    <2>2. Act(op, c, from, dialog, <<>>).from # "arch"
      BY DEF Act
    <2> QED
      BY <2>1, <2>2, ShapeStays DEF archVars
  <1>15. ASSUME NEW c \in Chats, DeleteArchived(c) \/ Restore(c)
         PROVE  ArchShape'
    <2>1. PICK b :
            /\ acts' = acts \cup {b}
            /\ b = Act("delete", c, "arch", TRUE, arch.list)
               \/ b = Act("restore", c, "arch", FALSE, <<>>)
      BY <1>15 DEF DeleteArchived, Restore, Send
    <2>2. /\ b.op \in {"delete", "restore"}
          /\ b.op = "delete" => b.dialog
          /\ b.op = "restore" => b.undo = <<>>
      BY <2>1 DEF Act
    <2>3. /\ arch.open /\ ~arch.loading
          /\ archFirst' = archFirst /\ archMore' = archMore
          /\ arch'.open = arch.open /\ arch'.loading = arch.loading
          /\ arch'.cursor = arch.cursor
      BY <1>1, <1>15 DEF DeleteArchived, Restore, ArchShown
    <2> QED
      BY <2>1, <2>2, <2>3, ShapeStays
  <1>16. ASSUME NEW a \in acts, Commit(a)
         PROVE  ArchShape'
    <2>1. PICK b \in Acts :
            /\ acts' = (acts \ {a}) \cup {b}
            /\ b.op = a.op /\ b.from = a.from /\ b.shown = a.shown
            /\ b.dialog = a.dialog /\ b.undo = a.undo
      BY <1>16, CommitActs
    <2>2. /\ arch' = arch
          /\ archFirst' = archFirst \/ archFirst' = Aged(archFirst)
          /\ archMore' = archMore \/ archMore' = Aged(archMore)
      BY <1>16 DEF Commit, ArchiveUntold
    <2>3. /\ archFirst'.stage = archFirst.stage
          /\ archFirst'.cursor = archFirst.cursor
          /\ archMore'.stage = archMore.stage
          /\ archMore'.cursor = archMore.cursor
      BY <1>1, <2>2, SlotsAre
    <2> QED
      BY <2>1, <2>2, <2>3, ShapeStays DEF Handling
  <1>17. ASSUME NEW a \in acts, Done(a)
         PROVE  ArchShape'
    <2>1. CASE UNCHANGED archVars /\ acts' = acts \ {a}
      BY <2>1, ShapeStays DEF archVars
    <2>2. CASE /\ Closed
               /\ acts' = {[b EXCEPT !.dialog = b.from = "side",
                                     !.shown = FALSE] : b \in acts \ {a}}
      <3>1. acts' = {Orphan(b) : b \in acts \ {a}}
        BY <2>2 DEF Orphan
      <3>2. \A b \in acts : Orphan(b).shown = FALSE
        BY <1>1, OrphansAre
      <3>3. \A b \in acts' : ~Handling(b)
        BY <3>1, <3>2 DEF Handling
      <3>4. \A b \in acts' : \E d \in acts : b.from = d.from /\ b.op = d.op
        BY <1>17, DoneActs
      <3>5. arch' = Archive(FALSE) /\ archFirst' = None /\ archMore' = None
        BY <2>2 DEF Closed
      <3> QED
        BY <3>3, <3>4, <3>5, ShapeLost
    <2> QED
      BY <1>17, <2>1, <2>2 DEF Done
  <1>18. ASSUME NEW a \in acts, Fail(a)
         PROVE  ArchShape'
    <2>1. /\ acts' = acts \ {a}
          /\ archFirst' = archFirst /\ archMore' = archMore
          /\ arch'.open = arch.open /\ arch'.loading = arch.loading
          /\ arch'.cursor = arch.cursor
          /\ arch' = arch \/ Handling(a)
      BY <1>1, <1>18 DEF Fail, Handling
    <2>2. arch'.list = arch.list \/ ~arch.loading
      BY <1>3, <2>1
    <2> QED
      BY <2>1, <2>2, ShapeStays
  <1>19. ASSUME NEW op \in Ops, Foreign(op)
         PROVE  ArchShape'
    <2>1. /\ arch' = arch /\ acts' = acts
          /\ archFirst' = Aged(archFirst) /\ archMore' = Aged(archMore)
      BY <1>19 DEF Foreign, ArchiveUntold
    <2>2. /\ archFirst'.stage = archFirst.stage
          /\ archFirst'.cursor = archFirst.cursor
          /\ archMore'.stage = archMore.stage
          /\ archMore'.cursor = archMore.cursor
      BY <1>1, <2>1, SlotsAre
    <2> QED
      BY <2>1, <2>2, ShapeStays
  <1>20. CASE UNCHANGED vars
    BY <1>4, <1>20 DEF vars
  <1>21. CASE KeepIt \/ \E c \in Chats : AskToRemove(c)
    BY <1>4, <1>21, Asking DEF archVars
  <1> QED
    BY <1>5, <1>6, <1>7, <1>8, <1>9, <1>10, <1>11, <1>12, <1>13, <1>14,
       <1>15, <1>16, <1>17, <1>18, <1>19, <1>20, <1>21 DEF Next

LEMMA ArchAnsweredStep ==
    ASSUME ChatListsAssumption, TypeOK, Named, ArchShape,
           ArchAnswered(archFirst), ArchAnswered(archMore), ArchFirstShows,
           [Next]_vars
    PROVE  /\ ArchAnswered(archFirst)' /\ ArchAnswered(archMore)'
           /\ ArchFirstShows'
  <1>1. archFirst \in Slots /\ archMore \in Slots /\ acts \subseteq Acts
    BY DEF TypeOK
  <1>2. /\ None.stage = "none" /\ \A c : Asked(c).stage = "asked"
    BY DEF None, Asked
  <1>3. /\ archFirst' = archFirst \/ archFirst' = Aged(archFirst)
           \/ archFirst'.stage # "answered"
        /\ archMore' = archMore \/ archMore' = Aged(archMore)
           \/ archMore'.stage # "answered"
        => ArchAnswered(archFirst)' /\ ArchAnswered(archMore)'
    BY <1>1, SlotsAre DEF ArchAnswered
  <1>4. ASSUME place' = place,
               archFirst' = archFirst \/ archFirst'.stage # "answered",
               archMore' = archMore \/ archMore'.stage # "answered"
        PROVE  /\ ArchAnswered(archFirst)' /\ ArchAnswered(archMore)'
               /\ ArchFirstShows'
    BY <1>3, <1>4 DEF ArchFirstShows, At
  <1>5. ASSUME NEW limit \in Limits, AnswerArchived(limit)
        PROVE  /\ ArchAnswered(archFirst)' /\ ArchAnswered(archMore)'
               /\ ArchFirstShows'
    <2>1. place' = place
      BY <1>5 DEF AnswerArchived
    <2>2. CASE /\ archFirst' = PageOf(archFirst, "archived", limit)
               /\ archMore' = archMore
      <3>1. /\ ArchAnswered(archFirst')
            /\ ToSet(archFirst'.data) \subseteq At("archived")
        BY <1>1, <2>2, PageIs
      <3> QED
        BY <2>1, <2>2, <3>1 DEF ArchAnswered, ArchFirstShows, At
    <2>3. CASE /\ archMore' = PageOf(archMore, "archived", limit)
               /\ archFirst' = archFirst
      <3>1. ArchAnswered(archMore')
        BY <1>1, <2>3, PageIs
      <3> QED
        BY <2>1, <2>3, <3>1 DEF ArchAnswered, ArchFirstShows, At
    <2> QED
      BY <1>5, <2>2, <2>3 DEF AnswerArchived
  <1>6. CASE \/ FirstPage \/ FirstPageFails \/ LoadMore \/ MorePage
             \/ MoreFails \/ \E limit \in Limits : AnswerChats(limit)
    BY <1>4, <1>6 DEF FirstPage, FirstPageFails, LoadMore, MorePage,
                      MoreFails, AnswerChats, archVars
  <1>7. CASE \/ OpenArchive \/ LeaveArchive \/ ArchivePage
             \/ ArchivePageFails \/ LoadMoreArchived \/ MoreArchived
             \/ MoreArchivedFails
    BY <1>2, <1>4, <1>7
    DEF OpenArchive, LeaveArchive, Closed, ArchivePage, ArchivePageFails,
        LoadMoreArchived, MoreArchived, MoreArchivedFails
  <1>8. CASE \/ SendFirstMessage
             \/ \E c \in Chats : \/ DeleteArchived(c) \/ Restore(c)
                                 \/ \E op \in {"archive", "delete"} :
                                       \/ RemoveFromSidebar(op, c)
                                       \/ RemoveOpenChat(op, c)
    BY <1>4, <1>8 DEF SendFirstMessage, DeleteArchived, Restore,
                      RemoveFromSidebar, RemoveOpenChat, archVars
  <1>9. ASSUME NEW a \in acts, Commit(a)
        PROVE  /\ ArchAnswered(archFirst)' /\ ArchAnswered(archMore)'
               /\ ArchFirstShows'
    <2>1. /\ archFirst' = archFirst \/ archFirst' = Aged(archFirst)
          /\ archMore' = archMore \/ archMore' = Aged(archMore)
      BY <1>9 DEF Commit, ArchiveUntold
    <2>2. CASE Handling(a)
      <3>1. archFirst.stage = "none"
        BY <1>1, <2>2 DEF ArchShape, Slots
      <3>2. archFirst'.stage = "none"
        BY <1>1, <2>1, <3>1, SlotsAre
      <3> QED
        BY <1>3, <2>1, <3>2 DEF ArchFirstShows
    <2>3. CASE ~Handling(a) /\ archFirst' = Aged(archFirst)
      <3>1. ~(archFirst'.stage = "answered" /\ archFirst'.fresh)
        BY <1>1, <2>3, SlotsAre
      <3> QED
        BY <1>3, <2>1, <3>1 DEF ArchFirstShows
    <2>4. CASE place' = place /\ archFirst' = archFirst /\ archMore' = archMore
      BY <1>4, <2>4
    <2>5. \/ Handling(a) \/ archFirst' = Aged(archFirst)
          \/ place' = place /\ archFirst' = archFirst /\ archMore' = archMore
      BY <1>9 DEF Commit, ArchiveUntold, Handling
    <2> QED
      BY <2>2, <2>3, <2>4, <2>5
  <1>10. CASE \E a \in acts : Done(a) \/ Fail(a)
    BY <1>2, <1>4, <1>10 DEF Done, Fail, Closed, archVars
  <1>11. ASSUME NEW op \in Ops, Foreign(op)
         PROVE  /\ ArchAnswered(archFirst)' /\ ArchAnswered(archMore)'
                /\ ArchFirstShows'
    <2>1. archFirst' = Aged(archFirst) /\ archMore' = Aged(archMore)
      BY <1>11 DEF Foreign, ArchiveUntold
    <2>2. ~(archFirst'.stage = "answered" /\ archFirst'.fresh)
      BY <1>1, <2>1, SlotsAre
    <2> QED
      BY <1>3, <2>1, <2>2 DEF ArchFirstShows
  <1>12. CASE UNCHANGED vars
    BY <1>4, <1>12 DEF vars, archVars
  <1>13. CASE KeepIt \/ \E c \in Chats : AskToRemove(c)
    BY <1>4, <1>13, Asking DEF archVars
  <1> QED
    BY <1>5, <1>6, <1>7, <1>8, <1>9, <1>10, <1>11, <1>12, <1>13 DEF Next

\* A click on the archive page.
LEMMA ArchShowsClick ==
    ASSUME ChatListsAssumption, TypeOK, ArchShape, ArchHolds,
           NEW c \in ToSet(arch.list), NEW b \in Acts,
           ~Modal, acts' = acts \cup {b},
           b.from = "arch", b.shown, b.chat = c, b.stage = "sent",
           b.undo = <<>> \/ b.undo = arch.list,
           place' = place, UNCHANGED <<archFirst, archMore>>,
           arch'.cursor = arch.cursor, arch'.list = Without(c, arch.list)
    PROVE  ArchHolds'
  <1>1. /\ arch.list \in Seq(Chats) /\ acts \subseteq Acts
        /\ ToSet(arch'.list) = ToSet(arch.list) \ {c}
    BY WithoutIs DEF TypeOK
  <1>2. /\ Handling(b) /\ b \notin acts
        /\ \A a \in acts : Handling(a) => a.chat # c
        /\ \A a \in acts : Handling(a) => a.undo = <<>>
    <2>1. \A a \in acts : Handling(a) => a.chat # c
      BY DEF ArchHolds
    <2>2. ASSUME NEW a \in acts, Handling(a)
          PROVE  a.undo = <<>>
      <3>1. ~a.dialog
        BY DEF Modal
      <3> QED
        BY <2>2, <3>1 DEF ArchShape, Handling
    <2>3. Handling(b)
      BY DEF Handling
    <2> QED
      BY <2>1, <2>2, <2>3
  <1>3. \A d \in ToSet(arch'.list) :
          /\ place'[d] = "archived" /\ arch'.cursor <= d
          /\ \A a \in acts' : Handling(a) => a.chat # d
    BY <1>1, <1>2 DEF ArchHolds
  <1>4. \A a, d \in acts' :
          Handling(a) /\ Handling(d) /\ a.chat = d.chat => a = d
    BY <1>2 DEF ArchHolds
  <1>5. ASSUME NEW a \in acts', Handling(a)
        PROVE  /\ a.stage # "refused" /\ arch'.cursor <= a.chat
               /\ a.stage = "sent" => place'[a.chat] = "archived"
               /\ \A d \in ToSet(a.undo) :
                      /\ place'[d] = "archived" \/ d = a.chat
                      /\ arch'.cursor <= d
                      /\ \A e \in acts' : Handling(e) /\ e.chat = d => e = a
    <2>1. CASE a \in acts
      <3>1. ToSet(a.undo) = {}
        BY <1>2, <1>5, <2>1, NothingIs
      <3> QED
        BY <1>5, <2>1, <3>1 DEF ArchHolds
    <2>2. CASE a = b
      <3>1. ToSet(a.undo) \subseteq ToSet(arch.list)
        BY <2>2, NothingIs
      <3>2. \A d \in ToSet(arch.list) :
              /\ place[d] = "archived" /\ arch.cursor <= d
              /\ \A e \in acts : Handling(e) => e.chat # d
        BY DEF ArchHolds
      <3> QED
        BY <2>2, <3>1, <3>2
    <2> QED
      BY <2>1, <2>2
  <1>6. /\ archMore'.stage # "none" => archMore'.cursor = arch'.cursor
        /\ (archMore'.stage = "answered" /\ archMore'.fresh) =>
               ToSet(archMore'.data) \subseteq At("archived")'
    BY DEF ArchHolds, At
  <1> QED
    BY <1>3, <1>4, <1>5, <1>6 DEF ArchHolds, Handling

\* A request of the archive page takes effect: only its own chat moves.
LEMMA ArchShowsCommit ==
    ASSUME ChatListsAssumption, TypeOK, Named, ArchShape, ArchHolds,
           ArchAnswered(archMore), arch.open,
           NEW a \in acts, Commit(a), archLapses' = {}
    PROVE  ArchHolds'
  <1>1. PICK c \in Chats, b \in Acts :
          /\ c = Subject(a) /\ a.stage = "sent"
          /\ acts' = (acts \ {a}) \cup {b}
          /\ b.op = a.op /\ b.from = a.from /\ b.shown = a.shown
          /\ b.dialog = a.dialog /\ b.undo = a.undo
          /\ IF place[c] \in Expected(a.op)
             THEN /\ b.stage = "committed" /\ b.chat = c
                  /\ place' = [place EXCEPT ![c] = Target(a.op)]
             ELSE /\ b.stage = "refused" /\ b.chat = a.chat
                  /\ place' = place
    BY CommitActs
  <1>2. /\ arch' = arch /\ place \in [Chats -> Places] /\ acts \subseteq Acts
        /\ arch.list \in Seq(Chats)
    BY DEF Commit, TypeOK
  <1>3. Handling(b) <=> Handling(a)
    BY <1>1 DEF Handling
  <1>4. CASE ~Handling(a)
    <2>1. place' = place /\ archMore' = archMore
      BY <1>4 DEF Commit, ArchiveUntold, Handling
    <2>2. \A d \in acts' : Handling(d) => d \in acts
      BY <1>1, <1>3, <1>4
    <2> QED
      BY <1>2, <2>1, <2>2 DEF ArchHolds, Handling, At
  <1>5. CASE Handling(a)
    <2>1. a.op \in {"delete", "restore"} /\ place[a.chat] = "archived"
      BY <1>1, <1>5 DEF ArchHolds, ArchShape, Handling
    <2>2. c = a.chat
      BY <1>1, <2>1 DEF Subject
    <2>3. /\ b.stage = "committed" /\ b.chat = c
          /\ place' = [place EXCEPT ![c] = Target(a.op)]
      BY <1>1, <2>1, <2>2 DEF Expected
    <2>4. UNCHANGED <<archFirst, archMore>>
      BY <1>1, <1>5, <2>1, <2>2 DEF Commit, Handling, Expected
    <2>5. \A d \in Chats : d # c => place'[d] = place[d]
      BY <1>2, <2>3
    <2>6. /\ \A d \in ToSet(arch.list) : d \in Chats
          /\ \A e \in acts : \A d \in ToSet(e.undo) : d \in Chats
          /\ \A d \in ToSet(archMore.data) : d \in Chats
      <3>1. /\ archMore.data \in Seq(Chats)
            /\ \A e \in acts : e.undo \in Seq(Chats)
        BY DEF TypeOK, Slots, Acts
      <3> QED
        BY <1>2, <3>1, Elements
    <2>7. \A d \in acts : Handling(d) /\ d.chat = c => d = a
      BY <1>5, <2>2 DEF ArchHolds
    <2>8. ASSUME NEW d \in ToSet(arch.list)
          PROVE  /\ place'[d] = "archived" /\ arch.cursor <= d
                 /\ \A e \in acts' : Handling(e) => e.chat # d
      <3>1. /\ place[d] = "archived" /\ arch.cursor <= d /\ a.chat # d
            /\ \A e \in acts : Handling(e) => e.chat # d
        BY <1>5 DEF ArchHolds
      <3> QED
        BY <1>1, <2>2, <2>3, <2>5, <2>6, <3>1
    <2>9. \A d, e \in acts' :
            Handling(d) /\ Handling(e) /\ d.chat = e.chat => d = e
      BY <1>1, <2>3, <2>7 DEF ArchHolds
    <2>10. ASSUME NEW e \in acts', Handling(e)
           PROVE  /\ e.stage # "refused" /\ arch.cursor <= e.chat
                  /\ e.stage = "sent" => place'[e.chat] = "archived"
                  /\ \A d \in ToSet(e.undo) :
                         /\ place'[d] = "archived" \/ d = e.chat
                         /\ arch.cursor <= d
                         /\ \A f \in acts' :
                               Handling(f) /\ f.chat = d => f = e
      <3>1. CASE e = b
        <4>1. /\ e.stage = "committed" /\ e.chat = c /\ e.undo = a.undo
              /\ arch.cursor <= a.chat
          BY <1>1, <1>5, <2>3, <3>1 DEF ArchHolds
        <4>2. \A d \in ToSet(a.undo) :
                /\ place[d] = "archived" \/ d = a.chat
                /\ arch.cursor <= d
                /\ \A f \in acts : Handling(f) /\ f.chat = d => f = a
          BY <1>5 DEF ArchHolds
        <4> QED
          BY <1>1, <2>2, <2>5, <2>6, <3>1, <4>1, <4>2
      <3>2. CASE e \in acts /\ e # a
        <4>1. /\ e.stage # "refused" /\ arch.cursor <= e.chat
              /\ e.stage = "sent" => place[e.chat] = "archived"
              /\ e.chat # c /\ e.chat \in Cursors
          BY <1>2, <2>7, <2>10, <3>2 DEF ArchHolds, Acts
        <4>2. \A d \in ToSet(e.undo) :
                /\ place[d] = "archived" \/ d = e.chat
                /\ arch.cursor <= d
                /\ \A f \in acts : Handling(f) /\ f.chat = d => f = e
          BY <2>10, <3>2 DEF ArchHolds
        <4>3. \A d \in ToSet(e.undo) : d # c
          BY <1>5, <2>2, <3>2, <4>2
        <4>4. e.chat \in Chats
          BY <1>2, <2>10, <3>2, <4>1, ChatsAre
             DEF Named, ArchShape, Handling
        <4> QED
          BY <1>1, <2>3, <2>5, <2>6, <3>2, <4>1, <4>2, <4>3, <4>4
      <3> QED
        BY <1>1, <3>1, <3>2
    <2>11. archMore.stage # "none" => archMore.cursor = arch.cursor
      BY DEF ArchHolds
    <2>12. (archMore.stage = "answered" /\ archMore.fresh) =>
             ToSet(archMore.data) \subseteq At("archived")'
      <3> SUFFICES ASSUME archMore.stage = "answered", archMore.fresh,
                          NEW d \in ToSet(archMore.data)
                   PROVE  d \in At("archived")'
        OBVIOUS
      <3>1. d \in Chats /\ place[d] = "archived"
        BY DEF ArchHolds, At
      <3>2. archMore.cursor = arch.cursor /\ archMore.cursor # 0
        BY <2>11 DEF ArchShape
      <3>3. d < arch.cursor /\ arch.cursor <= c
        BY <1>5, <2>2, <3>2 DEF ArchAnswered, ArchHolds
      <3>4. d \in Nat /\ c \in Nat /\ arch.cursor \in Nat
        BY <1>2, <3>1, ChatsAre DEF TypeOK, Cursors
      <3>5. d # c
        BY <3>3, <3>4
      <3> QED
        BY <2>5, <3>1, <3>5 DEF At
    <2> QED
      BY <1>2, <2>4, <2>8, <2>9, <2>10, <2>11, <2>12 DEF ArchHolds, Handling
  <1> QED
    BY <1>4, <1>5

\* A request of the archive page fails: its chat comes back.
LEMMA ArchShowsFail ==
    ASSUME ChatListsAssumption, TypeOK, Named, ArchShape, ArchHolds,
           NEW a \in acts, Fail(a), archLapses' = {}
    PROVE  ArchHolds'
  <1>1. /\ acts' = acts \ {a} /\ place' = place /\ archMore' = archMore
        /\ arch'.cursor = arch.cursor
        /\ arch.list \in Seq(Chats) /\ acts \subseteq Acts
    BY DEF Fail, TypeOK
  <1>2. ASSUME \A c \in ToSet(arch'.list) :
                  /\ place[c] = "archived" /\ arch.cursor <= c
                  /\ \A b \in acts' : Handling(b) => b.chat # c
        PROVE  ArchHolds'
    BY <1>1, <1>2 DEF ArchHolds, Handling, At
  <1>3. CASE ~Handling(a)
    <2>1. arch' = arch
      BY <1>3 DEF Fail, Handling
    <2> QED
      BY <1>1, <1>2, <2>1 DEF ArchHolds
  <1>4. CASE Handling(a)
    <2>1. a.stage = "sent"
      BY <1>4 DEF Fail, Handling
    <2>2. /\ place[a.chat] = "archived" /\ arch.cursor <= a.chat
          /\ \A b \in acts' : Handling(b) => b.chat # a.chat
          /\ \A c \in ToSet(a.undo) :
                /\ place[c] = "archived" \/ c = a.chat
                /\ arch.cursor <= c
                /\ \A b \in acts : Handling(b) /\ b.chat = c => b = a
      BY <1>1, <1>4, <2>1 DEF ArchHolds
    <2>3. CASE a.op = "restore"
      <3>1. a.chat \in Chats
        BY <1>1, <2>3, ChatsAre DEF Named, Acts
      <3>2. arch'.list = PutBack(a.chat, arch.list)
        BY <1>4, <2>3 DEF Fail, Handling, TypeOK
      <3>3. ToSet(arch'.list) = {a.chat} \cup ToSet(arch.list)
        BY <1>1, <3>1, <3>2, InFrontIs
      <3>4. \A c \in ToSet(arch.list) :
              /\ place[c] = "archived" /\ arch.cursor <= c
              /\ \A b \in acts : Handling(b) => b.chat # c
        BY DEF ArchHolds
      <3> QED
        BY <1>1, <1>2, <2>2, <3>3, <3>4
    <2>4. CASE a.op # "restore"
      <3>1. arch'.list = a.undo
        BY <1>4, <2>4 DEF Fail, Handling, TypeOK
      <3> QED
        BY <1>1, <1>2, <2>2, <3>1
    <2> QED
      BY <2>3, <2>4
  <1> QED
    BY <1>3, <1>4

\* A further page joins the archive page.
LEMMA ArchShowsMore ==
    ASSUME ChatListsAssumption, TypeOK, ArchShape, ArchHolds,
           ArchAnswered(archMore), MoreArchived, archMore.fresh
    PROVE  ArchHolds'
  <1>1. /\ arch.list \in Seq(Chats) /\ archMore.data \in Seq(Chats)
        /\ arch.cursor \in Nat /\ archMore.next \in Nat
        /\ \A c \in Chats : c \in Nat
        /\ acts \subseteq Acts /\ \A a \in acts : a.chat \in Nat
        /\ \A a \in acts : a.undo \in Seq(Chats)
    <2>1. /\ arch.list \in Seq(Chats) /\ arch.cursor \in Cursors
          /\ archMore \in Slots /\ acts \subseteq Acts
      BY DEF TypeOK
    <2>2. archMore.data \in Seq(Chats) /\ archMore.next \in Cursors
      BY <2>1 DEF Slots
    <2>3. \A a \in acts : a.chat \in Cursors /\ a.undo \in Seq(Chats)
      BY <2>1 DEF Acts
    <2>4. \A c \in Cursors : c \in Nat
      BY ChatsAre
    <2> QED
      BY <2>1, <2>2, <2>3, <2>4, ChatsAre
  <1>2. /\ archMore.stage = "answered" /\ place' = place /\ acts' = acts
        /\ arch'.list = arch.list \o archMore.data
        /\ arch'.cursor = archMore.next /\ archMore'.stage = "none"
    BY DEF MoreArchived, None, TypeOK
  <1>3. ToSet(arch'.list) = ToSet(arch.list) \cup ToSet(archMore.data)
    BY <1>1, <1>2, Concatenated
  <1>4. /\ archMore.cursor = arch.cursor /\ archMore.cursor # 0
        /\ \A c \in ToSet(archMore.data) :
              /\ place[c] = "archived" /\ archMore.next <= c
              /\ c < archMore.cursor /\ c \in Nat
        /\ archMore.next <= archMore.cursor
    <2>1. archMore.cursor = arch.cursor /\ archMore.cursor # 0
      BY <1>2 DEF ArchHolds, ArchShape
    <2>2. ToSet(archMore.data) \subseteq At("archived")
      BY <1>2 DEF ArchHolds
    <2>3. \A c \in ToSet(archMore.data) : place[c] = "archived" /\ c \in Nat
      BY <1>1, <2>2 DEF At
    <2> QED
      BY <1>2, <2>1, <2>3 DEF ArchAnswered
  <1>5. \A n \in Nat : arch.cursor <= n => archMore.next <= n
    BY <1>1, <1>4
  <1>6. ASSUME NEW c \in ToSet(arch'.list)
        PROVE  /\ place[c] = "archived" /\ archMore.next <= c
               /\ \A a \in acts : Handling(a) => a.chat # c
    <2>1. CASE c \in ToSet(arch.list)
      <3>1. c \in Nat
        BY <1>1, <2>1, Elements
      <3> QED
        BY <1>5, <2>1, <3>1 DEF ArchHolds
    <2>2. CASE c \in ToSet(archMore.data)
      <3>1. \A a \in acts : Handling(a) => arch.cursor <= a.chat
        BY DEF ArchHolds
      <3>2. /\ place[c] = "archived" /\ archMore.next <= c
            /\ c < arch.cursor /\ c \in Nat
        BY <1>4, <2>2
      <3> QED
        BY <1>1, <3>1, <3>2
    <2> QED
      BY <1>3, <2>1, <2>2
  <1>7. ASSUME NEW a \in acts, Handling(a)
        PROVE  /\ a.stage # "refused" /\ archMore.next <= a.chat
               /\ a.stage = "sent" => place[a.chat] = "archived"
               /\ \A c \in ToSet(a.undo) :
                      /\ place[c] = "archived" \/ c = a.chat
                      /\ archMore.next <= c
                      /\ \A b \in acts : Handling(b) /\ b.chat = c => b = a
    <2>1. \A c \in ToSet(a.undo) : c \in Nat
      BY <1>1, Elements
    <2> QED
      BY <1>1, <1>5, <1>7, <2>1 DEF ArchHolds
  <1> QED
    BY <1>2, <1>6, <1>7 DEF ArchHolds, Handling

LEMMA ArchShowsStep ==
    ASSUME ChatListsAssumption, TypeOK, Named, ArchShape,
           ArchAnswered(archFirst), ArchAnswered(archMore),
           ArchFirstShows, ArchShows, [Next]_vars
    PROVE  ArchShows'
  <1> SUFFICES ASSUME arch'.open, archLapses' = {}
               PROVE  ArchHolds'
    BY DEF ArchShows
  <1>1. /\ arch \in [open : BOOLEAN, list : Seq(Chats), cursor : Cursors,
                     loading : BOOLEAN]
        /\ arch.list \in Seq(Chats)
        /\ archFirst \in Slots /\ archMore \in Slots /\ acts \subseteq Acts
    BY DEF TypeOK
  <1>2. /\ None.stage = "none"
        /\ \A c : Asked(c).stage = "asked" /\ Asked(c).cursor = c
    BY DEF None, Asked
  <1>3. arch.open /\ archLapses = {} => ArchHolds
    BY DEF ArchShows
  <1>4. ASSUME UNCHANGED <<place, archVars>>,
               \A b \in acts' : b \in acts \/ ~Handling(b)
        PROVE  ArchHolds'
    BY <1>3, <1>4 DEF ArchHolds, Handling, At, archVars
  <1>5. CASE \/ FirstPage \/ FirstPageFails \/ LoadMore \/ MorePage
             \/ MoreFails \/ \E limit \in Limits : AnswerChats(limit)
    BY <1>4, <1>5 DEF FirstPage, FirstPageFails, LoadMore, MorePage,
                      MoreFails, AnswerChats
  <1>6. ASSUME NEW limit \in Limits, AnswerArchived(limit)
        PROVE  ArchHolds'
    <2>1. /\ acts' = acts /\ arch' = arch /\ place' = place
          /\ archLapses' = archLapses
      BY <1>6 DEF AnswerArchived
    <2>2. \/ archMore' = archMore
          \/ /\ archMore.stage = "asked" /\ archMore'.cursor = archMore.cursor
             /\ ToSet(archMore'.data) \subseteq At("archived")
      BY <1>1, <1>6, PageIs DEF AnswerArchived
    <2> QED
      BY <1>3, <2>1, <2>2 DEF ArchHolds, Handling, At
  <1>7. ASSUME \A b \in acts' : ~Handling(b), archMore'.stage = "none",
               \A c \in ToSet(arch'.list) :
                  place'[c] = "archived" /\ arch'.cursor <= c
        PROVE  ArchHolds'
    BY <1>7 DEF ArchHolds, Handling
  <1>8. CASE OpenArchive
    <2>1. /\ \A b \in acts' : ~Handling(b)
      BY <1>8, OrphansStay DEF OpenArchive, Handling
    <2>2. archMore'.stage = "none" /\ ToSet(arch'.list) = {}
      BY <1>2, <1>8, NothingIs DEF OpenArchive, Archive
    <2> QED
      BY <1>7, <2>1, <2>2
  <1>9. CASE LeaveArchive
    BY <1>9 DEF LeaveArchive, Closed, Archive
  <1>10. CASE ArchivePage
    <2>1. /\ acts' = acts /\ archMore' = archMore /\ place' = place
          /\ archFirst.stage = "answered" /\ archFirst.fresh
          /\ arch'.list = archFirst.data /\ arch'.cursor = archFirst.next
      BY <1>10 DEF ArchivePage
    <2>2. /\ \A b \in acts' : ~Handling(b)
          /\ archMore'.stage = "none"
      BY <1>1, <2>1 DEF ArchShape, Slots
    <2>3. \A c \in ToSet(arch'.list) :
            place'[c] = "archived" /\ arch'.cursor <= c
      BY <2>1 DEF ArchFirstShows, ArchAnswered, At
    <2> QED
      BY <1>7, <2>2, <2>3
  <1>11. CASE ArchivePageFails
    <2>1. /\ acts' = acts /\ archMore' = archMore /\ place' = place
          /\ archFirst.stage = "asked" /\ arch'.list = arch.list
      BY <1>1, <1>11 DEF ArchivePageFails
    <2>2. /\ \A b \in acts' : ~Handling(b)
          /\ archMore'.stage = "none" /\ arch'.list = <<>>
      BY <1>1, <2>1 DEF ArchShape, Slots
    <2> QED
      BY <1>7, <2>2, NothingIs
  <1>12. CASE LoadMoreArchived
    <2>1. /\ acts' = acts /\ arch' = arch /\ place' = place
          /\ archLapses' = archLapses /\ archMore' = Asked(arch.cursor)
      BY <1>12 DEF LoadMoreArchived
    <2> QED
      BY <1>2, <1>3, <2>1 DEF ArchHolds, Handling
  <1>13. CASE MoreArchived
    <2>1. archMore.fresh /\ archLapses = {} /\ arch.open
      BY <1>1, <1>13 DEF MoreArchived
    <2> QED
      BY <1>3, <1>13, <2>1, ArchShowsMore
  <1>14. CASE MoreArchivedFails
    <2>1. /\ acts' = acts /\ arch' = arch /\ place' = place
          /\ archLapses' = archLapses /\ archMore'.stage = "none"
      BY <1>2, <1>14 DEF MoreArchivedFails
    <2> QED
      BY <1>3, <2>1 DEF ArchHolds, Handling
  <1>15. CASE \/ SendFirstMessage
              \/ \E c \in Chats, op \in {"archive", "delete"} :
                    RemoveFromSidebar(op, c) \/ RemoveOpenChat(op, c)
    <2>1. UNCHANGED <<place, archVars>>
      BY <1>15 DEF SendFirstMessage, RemoveFromSidebar, RemoveOpenChat
    <2>2. \A b \in acts' : b \in acts \/ b.from # "arch"
      <3>1. CASE SendFirstMessage
        BY <3>1 DEF SendFirstMessage, Send, Act
      <3>2. CASE \E c \in Chats, op \in {"archive", "delete"} :
                   RemoveFromSidebar(op, c)
        BY <3>2 DEF RemoveFromSidebar, Send, Act
      <3>3. CASE \E c \in Chats, op \in {"archive", "delete"} :
                   RemoveOpenChat(op, c)
        BY <3>3 DEF RemoveOpenChat, Send, Act
      <3> QED
        BY <1>15, <3>1, <3>2, <3>3
    <2> QED
      BY <1>4, <2>1, <2>2 DEF Handling
  <1>16. ASSUME NEW c \in Chats, DeleteArchived(c) \/ Restore(c)
         PROVE  ArchHolds'
    <2>1. PICK b :
            /\ acts' = acts \cup {b} /\ ~Modal
            /\ b = Act("delete", c, "arch", TRUE, arch.list)
               \/ b = Act("restore", c, "arch", FALSE, <<>>)
      BY <1>16 DEF DeleteArchived, Restore, Send
    <2>2. /\ b.from = "arch" /\ b.shown /\ b.chat = c /\ b.stage = "sent"
          /\ b.undo = <<>> \/ b.undo = arch.list
      BY <2>1 DEF Act
    <2>3. b \in Acts
      <3>1. c \in Cursors /\ <<>> \in Seq(Chats) /\ arch.open \in BOOLEAN
        BY <1>1, ChatsAre, NothingIs
      <3>2. spent.acts \in Nat
        BY DEF TypeOK
      <3>3. CASE b = Act("delete", c, "arch", TRUE, arch.list)
        BY <1>1, <3>1, <3>2, <3>3 DEF Act, Acts, Ops
      <3>4. CASE b = Act("restore", c, "arch", FALSE, <<>>)
        BY <3>1, <3>2, <3>4 DEF Act, Acts, Ops
      <3> QED
        BY <2>1, <3>3, <3>4
    <2>4. /\ arch.open /\ archLapses = {} /\ c \in ToSet(arch.list)
          /\ place' = place /\ UNCHANGED <<archFirst, archMore>>
          /\ arch'.cursor = arch.cursor
          /\ arch'.list = Without(c, arch.list)
      BY <1>1, <1>16 DEF DeleteArchived, Restore, ArchShown
    <2> QED
      BY <1>3, <2>1, <2>2, <2>3, <2>4, ArchShowsClick
  <1>17. ASSUME NEW a \in acts, Commit(a)
         PROVE  ArchHolds'
    <2>1. arch' = arch
      BY <1>17 DEF Commit
    <2>2. archLapses = {}
      BY <1>17, <2>1 DEF Commit, ArchiveUntold
    <2> QED
      BY <1>3, <1>17, <2>1, <2>2, ArchShowsCommit
  <1>18. ASSUME NEW a \in acts, Done(a)
         PROVE  ArchHolds'
    <2>1. CASE arch' = Archive(FALSE)
      BY <2>1 DEF Archive
    <2>2. CASE UNCHANGED archVars /\ acts' = acts \ {a}
      <3>1. place' = place
        BY <1>18 DEF Done
      <3> QED
        BY <1>4, <2>2, <3>1
    <2> QED
      BY <1>18, <2>1, <2>2 DEF Done, Closed
  <1>19. ASSUME NEW a \in acts, Fail(a)
         PROVE  ArchHolds'
    <2>1. arch.open /\ archLapses = {}
      BY <1>1, <1>19 DEF Fail
    <2> QED
      BY <1>3, <1>19, <2>1, ArchShowsFail
  <1>20. ASSUME NEW op \in Ops, Foreign(op)
         PROVE  ArchHolds'
    BY <1>20 DEF Foreign, ArchiveUntold
  <1>21. CASE UNCHANGED vars
    BY <1>4, <1>21 DEF vars
  <1>22. CASE KeepIt \/ \E c \in Chats : AskToRemove(c)
    BY <1>4, <1>22, Asking DEF archVars, Handling
  <1> QED
    BY <1>5, <1>6, <1>8, <1>9, <1>10, <1>11, <1>12, <1>13, <1>14, <1>15,
       <1>16, <1>17, <1>18, <1>19, <1>20, <1>21, <1>22 DEF Next

-----------------------------------------------------------------------------
(* The theorems.                                                           *)

LEMMA ChatListsStart ==
    ASSUME ChatListsAssumption, Init
    PROVE  ChatListsInv
  <1>1. TypeOK /\ Named
    BY TypesStart
  <1>2. /\ None.stage = "none" /\ Asked(0).stage = "asked"
        /\ Asked(0).cursor = 0
        /\ first = Asked(0) /\ more = None /\ side.loading = TRUE
        /\ acts = {} /\ arch = Archive(FALSE)
        /\ archFirst = None /\ archMore = None
    BY DEF Init, None, Asked, Empty
  <1>3. SideShows /\ SideIsAPage
    BY <1>2 DEF SideShows, SideIsAPage, Calm
  <1>4. /\ ArchShape /\ ArchAnswered(archFirst) /\ ArchAnswered(archMore)
        /\ ArchFirstShows /\ ArchShows
    BY <1>2 DEF ArchShape, ArchAnswered, ArchFirstShows, ArchShows, Archive
  <1> QED
    BY <1>1, <1>3, <1>4 DEF ChatListsInv

\* The inductive invariant holds, whatever the answers, failures and changes
\* of other windows, and in whatever order they come.
THEOREM ChatListsInvariant == Spec => []ChatListsInv
  <1>1. Init => ChatListsInv
    BY ChatListsAssumption, ChatListsStart
  <1>2. ChatListsInv /\ [Next]_vars => ChatListsInv'
    <2> SUFFICES ASSUME ChatListsInv, [Next]_vars
                 PROVE  ChatListsInv'
      OBVIOUS
    <2>1. /\ TypeOK /\ Named /\ SideShows /\ SideIsAPage
          /\ ArchShape /\ ArchAnswered(archFirst) /\ ArchAnswered(archMore)
          /\ ArchFirstShows /\ ArchShows
      BY DEF ChatListsInv
    <2>2. TypeOK' /\ Named'
      BY <2>1, ChatListsAssumption, TypesStep
    <2>3. SideShows'
      BY <2>1, ChatListsAssumption, SideShowsStep
    <2>4. SideIsAPage'
      BY <2>1, ChatListsAssumption, SideIsAPageStep
    <2>5. ArchShape'
      BY <2>1, ChatListsAssumption, ArchShapeStep
    <2>6. /\ ArchAnswered(archFirst)' /\ ArchAnswered(archMore)'
          /\ ArchFirstShows'
      BY <2>1, ChatListsAssumption, ArchAnsweredStep
    <2>7. ArchShows'
      BY <2>1, ChatListsAssumption, ArchShowsStep
    <2> QED
      BY <2>2, <2>3, <2>4, <2>5, <2>6, <2>7 DEF ChatListsInv
  <1> QED
    BY <1>1, <1>2, PTL DEF Spec

\* The state of both lists, their loads and their requests is well formed.
THEOREM ChatListsTypes == Spec => []TypeOK
  <1>1. ChatListsInv => TypeOK
    BY DEF ChatListsInv
  <1> QED
    BY <1>1, ChatListsInvariant, PTL

\* Neither list shows a chat that has left it, unless a request of this window
\* for that chat is under way or the window has missed something.
THEOREM NoGhostsShown == Spec => []NoGhosts
  <1>1. ChatListsInv => NoGhosts
    <2> SUFFICES ASSUME ChatListsInv
                 PROVE  NoGhosts
      OBVIOUS
    <2>1. SideShows /\ ArchShows
      BY DEF ChatListsInv
    <2>2. (~side.loading /\ ~side.error /\ lapses = {}) =>
            \A c \in ToSet(side.list) :
                place[c] = "active" \/ \E a \in acts : a.chat = c
      BY <2>1 DEF SideShows, Current, Leaving
    <2>3. (arch.open /\ archLapses = {}) =>
            \A c \in ToSet(arch.list) :
                place[c] = "archived" \/ \E a \in acts : a.chat = c
      BY <2>1 DEF ArchShows, ArchHolds
    <2> QED
      BY <2>2, <2>3 DEF NoGhosts
  <1> QED
    BY <1>1, ChatListsInvariant, PTL

\* When nothing is under way and nothing was missed, the sidebar is a prefix
\* of the active chats of the server, and offers more exactly if there are
\* more.
THEOREM SidebarIsAPrefix == Spec => []SidebarIsTheList
  <1>1. ChatListsInv => SidebarIsTheList
    <2> SUFFICES ASSUME ChatListsInv, Quiet, lapses = {}
                 PROVE  LET rows == Rows("active")
                        IN  /\ IsPrefix(side.list, rows)
                            /\ side.cursor =
                                 IF Len(side.list) = Len(rows) THEN 0
                                 ELSE side.list[Len(side.list)]
      BY DEF SidebarIsTheList
    <2>1. Calm
      BY DEF Quiet, Calm, None
    <2>2. /\ Pages(side.list, side.cursor, At("active"))
          /\ side.list \in Seq(Chats) /\ side.cursor \in Cursors
      BY <2>1 DEF ChatListsInv, SideIsAPage, TypeOK
    <2>3. /\ At("active") \in SUBSET Nat /\ IsFiniteSet(At("active"))
          /\ \A c \in At("active") : c > 0
      <3>1. At("active") \in SUBSET Chats
        BY DEF At
      <3> QED
        BY <3>1, ChatListsAssumption, ChatsAre, FS_Subset
    <2>4. side.cursor \in Nat
      BY <2>2, ChatListsAssumption, ChatsAre
    <2>5. side.list \in Seq(At("active"))
      <3>1. ToSet(side.list) \subseteq At("active")
        BY <2>2 DEF Pages
      <3>2. \A i \in 1 .. Len(side.list) : side.list[i] \in At("active")
        BY <2>2, <3>1, Elements
      <3> QED
        BY <2>2, <3>2, Elements, IsASeq
    <2> QED
      BY <2>2, <2>3, <2>4, <2>5, PagesArePrefixes DEF Rows
  <1> QED
    BY <1>1, ChatListsInvariant, PTL
=============================================================================
