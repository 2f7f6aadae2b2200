---------------------------- MODULE ChatPageProofs ----------------------------
(***************************************************************************)
(* What the chat page shows, for any number of chats and calls: no answer  *)
(* of two calls, no message of another chat, every question as long as its *)
(* stream, and when all is done the conversation that the server has.      *)
(***************************************************************************)
EXTENDS ChatPage, SequenceTheorems, WellFoundedInduction, TLAPS

PcValues == {"idle", "creating", "streaming", "closing", "ended"}

GotValues == {"none", "sent", "prompted", "answered", "failed"}

-----------------------------------------------------------------------------
(* The inductive invariant.                                                *)

\* The calls that a list of messages is made of.
Authors(s) == {r \in Runs : \E i \in DOMAIN s : r \in s[i].by}

Single(s) == \A i \in DOMAIN s : \E r \in Runs : s[i].by = {r}

\* A call that has its chat.
Begun(r) == pc[r] \notin {"idle", "creating"}

Noted(l) == l \in lapses

\* The stream that is on the page, and what goes with it.
Stream ==
    /\ abortRef = pendingOf
    /\ busy <=> pendingOf # None
    /\ pendingOf # None => Streaming(pendingOf)
    /\ pendingOf = None => pendingFrom = {}

\* One call at a time, whose deltas are the ones that are pending.
OneStream ==
    ~Noted("overlap") =>
        /\ \A q, r \in Runs : Live(q) /\ Live(r) => q = r
        /\ \A r \in Runs : Streaming(r) => pendingOf = r
        /\ pendingFrom \subseteq {pendingOf}

\* Every message is of one call.
Unmixed ==
    /\ \A c \in Chats : Single(store[c])
    /\ Single(page)
    /\ ~Noted("overlap") /\ ~loading /\ ~error => Single(messages)

\* Where the loader stands.
Loader ==
    /\ fetch # "none" => route # None /\ loading /\ ~error
    /\ error => route # None
    /\ fetch = "none" /\ loading => Noted("skeleton") \/ Noted("strayed")
    /\ fetch # "answered" => page = <<>>

\* Chats and the calls that fill them.
Filled ==
    /\ FirstChat \in made
    /\ route # None => route \in made
    /\ \A r \in Runs :
        got[r] # "none" \/ Streaming(r) => Begun(r) /\ chat[r] \in made
    /\ \A c \in Chats \ made : store[c] = <<>>
    /\ \A c \in Chats : \A r \in Authors(store[c]) : Begun(r) /\ chat[r] = c

\* What is on the page, or will be, was made by calls that have begun, and what
\* the loader has was made for its chat.
Placed ==
    /\ \A r \in Authors(messages) : Begun(r)
    /\ \A r \in pendingFrom : Begun(r)
    /\ \A r \in Authors(page) : Begun(r) /\ chat[r] = route

\* Nobody has strayed: all that goes on is for the chat on the page.
AtHome ==
    ~Noted("strayed") =>
        /\ \A r \in Runs : Streaming(r) => route # None /\ chat[r] = route
        /\ \A r \in Runs : pc[r] = "creating" => route = None
        /\ route = None => messages = <<>>
        /\ \A r \in pendingFrom : chat[r] = route
        /\ ~loading /\ ~error => \A r \in Authors(messages) : chat[r] = route

\* Only a call for a new chat waits for it.
Waits == \A r \in Runs : pc[r] = "creating" => kind[r] = "new"

Hidden == {"strayed", "unloaded", "skeleton", "overlap"}

\* A question that was sent is there as long as its stream.
Asked ==
    lapses \cap Hidden = {} =>
        \A r \in Runs :
            Streaming(r) /\ kind[r] # "regenerate" =>
                /\ fetch = "none" /\ ~error
                /\ \E i \in DOMAIN messages : messages[i] = Question(r)

\* A server works for the page as long as nothing has broken.
Served ==
    ~Noted("broken") =>
        \A r \in Runs :
            /\ got[r] \in {"sent", "prompted"} => pc[r] = "streaming"
            /\ Streaming(r) => got[r] \in {"sent", "prompted", "answered"}
            /\ pc[r] = "closing" => got[r] = "answered"

\* What the page shows of the chat s, while the call r is under way.
Follows(r, s) ==
    /\ got[r] = "sent" /\ kind[r] # "regenerate" =>
            messages = Append(s, Question(r))
    /\ got[r] = "sent" /\ kind[r] = "regenerate" =>
            messages = SubSeq(s, 1, LastOf("user", s))
    /\ got[r] = "prompted" => messages = s
    /\ got[r] = "answered" => s = Append(messages, Answer({r}))
    /\ pc[r] = "closing" => pendingFrom = {r}

\* Nothing went wrong: the page is the server's chat, but for the call under
\* way.
InStep ==
    lapses = {} =>
        /\ fetch # "none" \/ error => Quiet
        /\ fetch = "answered" => page = store[route]
        /\ route # None /\ fetch = "none" /\ ~error =>
            /\ (\A r \in Runs : ~Streaming(r)) => messages = store[route]
            /\ \A r \in Runs : Streaming(r) => Follows(r, store[route])

PageInv ==
    /\ TypeOK /\ Stream /\ OneStream /\ Unmixed /\ Loader /\ Filled /\ Placed
    /\ AtHome /\ Waits /\ Asked /\ Served /\ InStep

-----------------------------------------------------------------------------
(* Lists of messages.                                                      *)

\* The messages of t are messages of s.
Within(t, s) == \A i \in DOMAIN t : \E j \in DOMAIN s : t[i] = s[j]

LEMMA WithinKeeps ==
    ASSUME NEW t, NEW s, Within(t, s)
    PROVE  /\ Authors(t) \subseteq Authors(s)
           /\ Single(s) => Single(t)
  BY DEF Within, Authors, Single

LEMMA MessagesAre ==
    ASSUME NEW r \in Runs, NEW R \in SUBSET Runs
    PROVE  /\ Question(r) \in Message /\ Question(r).by = {r}
           /\ Answer(R) \in Message /\ Answer(R).by = R
  BY DEF Question, Answer, Message

LEMMA Appended ==
    ASSUME NEW s \in Seq(Message), NEW m \in Message
    PROVE  /\ Append(s, m) \in Seq(Message)
           /\ Authors(Append(s, m)) = Authors(s) \cup m.by
           /\ Single(s) /\ (\E r \in Runs : m.by = {r}) => Single(Append(s, m))
           /\ \E i \in DOMAIN Append(s, m) : Append(s, m)[i] = m
           /\ \A i \in DOMAIN s : /\ i \in DOMAIN Append(s, m)
                                 /\ Append(s, m)[i] = s[i]
  <1>1. /\ Append(s, m) \in Seq(Message)
        /\ Len(Append(s, m)) = Len(s) + 1 /\ Len(s) \in Nat
        /\ \A i \in 1 .. Len(s) : Append(s, m)[i] = s[i]
        /\ Append(s, m)[Len(s) + 1] = m
    BY AppendProperties, LenProperties
  <1>2. /\ DOMAIN Append(s, m) = 1 .. Len(s) + 1 /\ DOMAIN s = 1 .. Len(s)
        /\ m.by \subseteq Runs
    BY <1>1 DEF Message
  <1>3. Authors(Append(s, m)) = Authors(s) \cup m.by
    BY <1>1, <1>2 DEF Authors
  <1>4. Single(s) /\ (\E r \in Runs : m.by = {r}) => Single(Append(s, m))
    BY <1>1, <1>2 DEF Single
  <1> QED
    BY <1>1, <1>2, <1>3, <1>4

LEMMA Part ==
    ASSUME NEW s \in Seq(Message), NEW m \in Int, NEW n \in Int,
           m >= 1, n <= Len(s)
    PROVE  SubSeq(s, m, n) \in Seq(Message) /\ Within(SubSeq(s, m, n), s)
  <1>1. Len(s) \in Nat /\ DOMAIN s = 1 .. Len(s)
    BY LenProperties
  <1>2. \A i \in m .. n : i \in DOMAIN s /\ s[i] \in Message
    BY <1>1, ElementOfSeq
  <1>3. /\ SubSeq(s, m, n) \in Seq(Message)
        /\ Len(SubSeq(s, m, n)) = IF m <= n THEN n - m + 1 ELSE 0
        /\ \A i \in 1 .. n - m + 1 : SubSeq(s, m, n)[i] = s[m + i - 1]
    BY <1>2, SubSeqProperties
  <1>4. DOMAIN SubSeq(s, m, n) = 1 .. Len(SubSeq(s, m, n))
    BY <1>3, LenProperties
  <1>5. ASSUME NEW i \in DOMAIN SubSeq(s, m, n)
        PROVE  \E j \in DOMAIN s : SubSeq(s, m, n)[i] = s[j]
    <2>1. i \in 1 .. n - m + 1 /\ m + i - 1 \in m .. n
      BY <1>3, <1>4, <1>5
    <2> QED
      BY <1>2, <1>3, <2>1
  <1> QED
    BY <1>3, <1>5 DEF Within

LEMMA Joined ==
    ASSUME NEW s \in Seq(Message), NEW t \in Seq(Message),
           NEW u, Within(s, u), Within(t, u)
    PROVE  s \o t \in Seq(Message) /\ Within(s \o t, u)
  <1>1. /\ s \o t \in Seq(Message) /\ Len(s \o t) = Len(s) + Len(t)
        /\ Len(s) \in Nat /\ Len(t) \in Nat
        /\ \A i \in 1 .. Len(s) + Len(t) :
                (s \o t)[i] = IF i <= Len(s) THEN s[i] ELSE t[i - Len(s)]
    BY ConcatProperties, LenProperties
  <1>2. /\ DOMAIN (s \o t) = 1 .. Len(s) + Len(t)
        /\ DOMAIN s = 1 .. Len(s) /\ DOMAIN t = 1 .. Len(t)
    BY <1>1, LenProperties
  <1>3. ASSUME NEW i \in DOMAIN (s \o t)
        PROVE  \E j \in DOMAIN u : (s \o t)[i] = u[j]
    <2>1. CASE i <= Len(s)
      <3>1. i \in DOMAIN s /\ (s \o t)[i] = s[i]
        BY <1>1, <1>2, <2>1
      <3> QED
        BY <3>1 DEF Within
    <2>2. CASE ~ (i <= Len(s))
      <3>1. i - Len(s) \in DOMAIN t /\ (s \o t)[i] = t[i - Len(s)]
        BY <1>1, <1>2, <2>2
      <3> QED
        BY <3>1 DEF Within
    <2> QED
      BY <2>1, <2>2
  <1> QED
    BY <1>1, <1>3 DEF Within

\* A set of numbers up to n has a greatest one.
LEMMA LastPosition ==
    ASSUME NEW n \in Nat, NEW S, S \subseteq 0 .. n, S # {}
    PROVE  \E i \in S : \A j \in S : j <= i
  <1> DEFINE R == {ss \in Nat \X Nat : ss[1] < ss[2]}
             T == {n - i : i \in S}
  <1>1. IsWellFoundedOn(R, Nat)
    BY NatLessThanWellFounded DEF OpToRel
  <1>2. T \subseteq Nat /\ T # {}
    <2>1. \A i \in S : n - i \in Nat
      OBVIOUS
    <2>2. PICK i : i \in S
      OBVIOUS
    <2>3. n - i \in T
      BY <2>2
    <2> QED
      BY <2>1, <2>3
  <1>3. \E i \in T : \A j \in T : ~ (<<j, i>> \in R)
    <2> HIDE DEF R, T
    <2> QED
      BY <1>1, <1>2, WFMin
  <1>4. PICK i \in S : \A j \in S : ~ (<<n - j, n - i>> \in R)
    BY <1>3
  <1>5. ASSUME NEW j \in S
        PROVE  j <= i
    <2>1. ~ (<<n - j, n - i>> \in R) /\ n - j \in Nat /\ n - i \in Nat
      BY <1>4
    <2>2. ~ (n - j < n - i)
      BY <2>1
    <2> QED
      BY <2>2
  <1> QED
    BY <1>5

LEMMA LastOfIs ==
    ASSUME NEW s \in Seq(Message), NEW role
    PROVE  LastOf(role, s) \in 0 .. Len(s)
  <1> DEFINE S == {i \in 1 .. Len(s) : s[i].role = role}
             P(i) == /\ i = 0 \/ s[i].role = role
                     /\ \A j \in 1 .. Len(s) : s[j].role = role => j <= i
  <1>1. Len(s) \in Nat
    BY LenProperties
  <1>2. \E i \in 0 .. Len(s) : P(i)
    <2>1. CASE S = {}
      <3>1. P(0)
        BY <2>1
      <3> QED
        BY <1>1, <3>1
    <2>2. CASE S # {}
      <3>1. S \subseteq 0 .. Len(s)
        BY <1>1
      <3>2. \E i \in S : \A j \in S : j <= i
        <4> HIDE DEF S
        <4> QED
          BY <1>1, <2>2, <3>1, LastPosition
      <3>3. PICK i \in S : \A j \in S : j <= i
        BY <3>2
      <3>4. i \in 0 .. Len(s) /\ P(i)
        BY <1>1, <3>3
      <3> QED
        BY <3>4
    <2> QED
      BY <2>1, <2>2
  <1>3. LastOf(role, s) = CHOOSE i \in 0 .. Len(s) : P(i)
    BY DEF LastOf
  <1> QED
    BY <1>2, <1>3

\* What handleRegenerate leaves on the page.
LEMMA Dropped ==
    ASSUME messages \in Seq(Message), LastAnswer # 0
    PROVE  /\ WithoutLastAnswer \in Seq(Message)
           /\ Within(WithoutLastAnswer, messages)
           /\ DropsTheSame => WithoutLastAnswer =
                    SubSeq(messages, 1, LastOf("user", messages))
  <1> DEFINE i == LastAnswer
             s == SubSeq(messages, 1, i - 1)
             t == SubSeq(messages, i + 1, Len(messages))
  <1>1. i \in 1 .. Len(messages) /\ Len(messages) \in Nat
    BY LastOfIs, LenProperties DEF LastAnswer
  <1>2. WithoutLastAnswer = s \o t
    BY DEF WithoutLastAnswer, RemoveAt
  <1> HIDE DEF i
  <1>3. /\ s \in Seq(Message) /\ Within(s, messages)
        /\ t \in Seq(Message) /\ Within(t, messages)
    BY <1>1, Part
  <1>4. s \o t \in Seq(Message) /\ Within(s \o t, messages)
    BY <1>3, Joined
  <1>5. ASSUME DropsTheSame
        PROVE  s \o t = SubSeq(messages, 1, LastOf("user", messages))
    <2>1. i = Len(messages) /\ LastOf("user", messages) = i - 1
      BY <1>5 DEF DropsTheSame, i
    <2>2. t = << >>
      BY <1>1, <2>1, SubSeqEmpty
    <2>3. s \o t = s
      BY <1>3, <2>2, ConcatEmptySeq
    <2> QED
      BY <2>1, <2>3
  <1> QED
    BY <1>2, <1>4, <1>5

-----------------------------------------------------------------------------
(* Types.                                                                  *)

\* What a call puts on the page when its stream begins.
LEMMA BeginType ==
    ASSUME TypeOK, NEW r \in Runs, NEW c \in Chats, NEW shown \in Seq(Message),
           BeginStream(r, c, shown)
    PROVE  /\ messages' \in Seq(Message) /\ pc' \in [Runs -> PcValues]
           /\ chat' \in [Runs -> Chats \cup {None}]
           /\ pendingOf' \in Runs \cup {None} /\ pendingFrom' \in SUBSET Runs
           /\ busy' \in BOOLEAN /\ abortRef' \in Runs \cup {None}
           /\ got' \in [Runs -> GotValues]
  BY DEF TypeOK, BeginStream, Goto, PcValues, GotValues

LEMMA UserType ==
    ASSUME TypeOK, UserStep
    PROVE  TypeOK'
  <1>1. ASSUME NEW c \in Chats \cup {None}, Open(c)
        PROVE  TypeOK'
    <2>1. lapses' \subseteq Lapses
      BY <1>1 DEF TypeOK, Open, Lapses
    <2>2. messages' \in Seq(Message) /\ page' \in Seq(Message)
      BY <1>1, EmptySeq DEF TypeOK, Open, LoadHistory
    <2>3. route' \in Chats \cup {None} /\ loading' \in BOOLEAN
      BY <1>1 DEF TypeOK, Open, LoadHistory
    <2> QED
      BY <1>1, <2>1, <2>2, <2>3
      DEF TypeOK, Open, LoadHistory, streamVars, pendingVars, callVars,
          serverVars
  <1>2. CASE Retry
    BY <1>2, EmptySeq
    DEF TypeOK, Retry, LoadHistory, streamVars, pendingVars, callVars,
        serverVars, Note, NoteIf, Lapses
  <1>3. CASE Cancel
    BY <1>3
    DEF TypeOK, Cancel, historyVars, serverVars, Note, Lapses
  <1>4. ASSUME NEW r \in Runs, Send(r)
        PROVE  TypeOK'
    <2>1. Append(messages, Question(r)) \in Seq(Message) /\ route \in Chats
      BY <1>4, Appended, MessagesAre DEF TypeOK, Send
    <2>2. BeginStream(r, route, Append(messages, Question(r)))
      BY <1>4 DEF Send
    <2>3. kind' \in [Runs -> Kinds] /\ lapses' \subseteq Lapses
      BY <1>4 DEF TypeOK, Send, Kinds, Note, Clashes, Lapses
    <2> QED
      BY <1>4, <2>1, <2>2, <2>3, BeginType
      DEF TypeOK, Send, PcValues, GotValues
  <1>5. ASSUME NEW r \in Runs, SendNew(r)
        PROVE  TypeOK'
    BY <1>5
    DEF TypeOK, SendNew, Goto, Kinds, Note, Clashes, Lapses, historyVars,
        streamVars, pendingVars, serverVars
  <1>6. ASSUME NEW r \in Runs, Regenerate(r)
        PROVE  TypeOK'
    <2>1. WithoutLastAnswer \in Seq(Message) /\ route \in Chats
      BY <1>6, Dropped DEF TypeOK, Regenerate, MayRegenerate
    <2>2. BeginStream(r, route, WithoutLastAnswer)
      BY <1>6 DEF Regenerate
    <2>3. kind' \in [Runs -> Kinds] /\ lapses' \subseteq Lapses
      BY <1>6 DEF TypeOK, Regenerate, Kinds, Note, Clashes, Lapses
    <2> QED
      BY <1>6, <2>1, <2>2, <2>3, BeginType
      DEF TypeOK, Regenerate, PcValues, GotValues
  <1>7. ASSUME NEW r \in Runs, RegenerateForgets(r)
        PROVE  TypeOK'
    <2>1. WithoutLastAnswer \in Seq(Message)
      BY <1>7, Dropped DEF TypeOK, RegenerateForgets, MayRegenerate
    <2> QED
      BY <1>7, <2>1
      DEF TypeOK, RegenerateForgets, Goto, Note, Lapses, streamVars,
          pendingVars, serverVars
  <1> QED
    BY <1>1, <1>2, <1>3, <1>4, <1>5, <1>6, <1>7 DEF UserStep

LEMMA LoaderType ==
    ASSUME TypeOK, Loader, LoaderStep
    PROVE  TypeOK'
  <1>1. CASE HistoryRead
    <2> DEFINE all == store[route]
               rows == IF Len(all) > PageLimit THEN PageLimit ELSE Len(all)
    <2>1. all \in Seq(Message) /\ Len(all) \in Nat /\ PageLimit \in Nat
      BY <1>1, LenProperties, ChatPageAssumption
      DEF HistoryRead, Loader, TypeOK
    <2>2. /\ SubSeq(all, 1, rows) \in Seq(Message)
          /\ SubSeq(all, Len(all) - rows + 1, Len(all)) \in Seq(Message)
      <3> HIDE DEF all
      <3> QED
        BY <2>1, Part
    <2>3. page' \in Seq(Message)
      BY <1>1, <2>2 DEF HistoryRead
    <2> QED
      BY <1>1, <2>3
      DEF TypeOK, HistoryRead, NoteIf, Note, Lapses, streamVars, pendingVars,
          callVars, serverVars
  <1>2. CASE ShowHistory \/ HistoryFails \/ HistoryNotFound
    BY <1>2, EmptySeq
    DEF TypeOK, ShowHistory, HistoryFails, HistoryNotFound, NoteIf, Note,
        Lapses, streamVars, pendingVars, callVars, serverVars
  <1> QED
    BY <1>1, <1>2 DEF LoaderStep

LEMMA RunType ==
    ASSUME TypeOK, NEW r \in Runs, RunStep(r)
    PROVE  TypeOK'
  <1>1. CASE ChatCreated(r)
    <2>1. Append(messages, Question(r)) \in Seq(Message)
      BY Appended, MessagesAre DEF TypeOK
    <2>2. PICK c \in Chats \ made :
            /\ made' = made \cup {c}
            /\ route' = c
            /\ BeginStream(r, c, Append(messages, Question(r)))
      BY <1>1 DEF ChatCreated
    <2>3. lapses' \subseteq Lapses /\ page' \in Seq(Message)
      BY <1>1, EmptySeq DEF TypeOK, ChatCreated, SkipHistory, Note, Lapses
    <2> QED
      BY <1>1, <2>1, <2>2, <2>3, BeginType
      DEF TypeOK, ChatCreated, SkipHistory, PcValues, GotValues
  <1>2. CASE CreateFails(r)
    BY <1>2
    DEF TypeOK, CreateFails, Goto, historyVars, streamVars, pendingVars
  <1>3. CASE Delta(r) \/ Done(r) \/ ErrorEvent(r)
    BY <1>3
    DEF TypeOK, Delta, Done, ErrorEvent, Goto, historyVars, streamVars,
        pendingVars, callVars, serverVars
  <1>4. CASE StreamEnds(r)
    <2>1. messages' \in Seq(Message)
      BY <1>4, Appended, MessagesAre DEF TypeOK, StreamEnds
    <2> QED
      BY <1>4, <2>1 DEF TypeOK, StreamEnds, Finish, Goto, serverVars
  <1>5. CASE StreamFails(r)
    BY <1>5
    DEF TypeOK, StreamFails, Finish, Goto, Note, Lapses, historyVars,
        serverVars
  <1> QED
    BY <1>1, <1>2, <1>3, <1>4, <1>5 DEF RunStep

LEMMA ServerType ==
    ASSUME TypeOK, Filled, NEW r \in Runs, ServerStep(r)
    PROVE  TypeOK'
  <1> DEFINE s == store[chat[r]]
  <1>1. chat[r] \in Chats /\ s \in Seq(Message)
    BY DEF ServerStep, ServerPrompts, ServerAnswers, ServerFails, Filled,
           TypeOK
  <1>2. /\ Append(s, Question(r)) \in Seq(Message)
        /\ Append(s, Answer({r})) \in Seq(Message)
        /\ SubSeq(s, 1, LastOf("user", s)) \in Seq(Message)
    <2> HIDE DEF s
    <2>1. LastOf("user", s) \in 0 .. Len(s) /\ Len(s) \in Nat
      BY <1>1, LastOfIs, LenProperties
    <2> QED
      BY <1>1, <2>1, Part, Appended, MessagesAre
  <1>3. store' \in [Chats -> Seq(Message)]
    <2>1. \/ store' = store
          \/ \E t \in Seq(Message) : store' = [store EXCEPT ![chat[r]] = t]
      BY <1>2 DEF ServerStep, ServerPrompts, ServerAnswers, ServerFails
    <2> QED
      BY <1>1, <2>1 DEF TypeOK
  <1> QED
    BY <1>3
    DEF TypeOK, ServerStep, ServerPrompts, ServerAnswers, ServerFails, Note,
        Lapses, historyVars, streamVars, pendingVars, callVars

LEMMA TypeStep ==
    ASSUME TypeOK, Loader, Filled, [Next]_vars
    PROVE  TypeOK'
  <1>1. CASE UNCHANGED vars
    BY <1>1
    DEF TypeOK, vars, historyVars, streamVars, pendingVars, callVars,
        serverVars
  <1> QED
    BY <1>1, UserType, LoaderType, RunType, ServerType DEF Next

-----------------------------------------------------------------------------
(* The stream on the page.                                                 *)

\* Steps that no call takes: the user moves, the loader and the server work.
Aside ==
    \/ \E c \in Chats \cup {None} : Open(c)
    \/ Retry
    \/ LoaderStep
    \/ \E r \in Runs : ServerStep(r)

\* They leave every call and the stream where they are, and forget what went
\* wrong only when all is quiet.
LEMMA AsideEffect ==
    ASSUME Aside
    PROVE  /\ UNCHANGED <<streamVars, callVars, made>>
           /\ lapses \subseteq lapses' \/ Quiet
  BY DEF Aside, Open, Retry, LoaderStep, HistoryRead, ShowHistory,
         HistoryFails, HistoryNotFound, ServerStep, ServerPrompts,
         ServerAnswers, ServerFails, serverVars, Note, NoteIf

\* The others forget nothing.
LEMMA LapsesStay ==
    ASSUME Next, ~Aside
    PROVE  lapses \subseteq lapses'
  BY DEF Next, Aside, UserStep, Cancel, Send, SendNew, Regenerate,
         RegenerateForgets, RunStep, ChatCreated, CreateFails, Delta, Done,
         ErrorEvent, StreamEnds, StreamFails, Note

\* A stream begins.
Begins(r) == Send(r) \/ Regenerate(r) \/ ChatCreated(r)

LEMMA BeginEffect ==
    ASSUME NEW r \in Runs, Begins(r)
    PROVE  /\ \E c, shown : BeginStream(r, c, shown)
           /\ ~busy \/ pc[r] = "creating"
           /\ pc[r] \in {"idle", "creating"}
           /\ lapses \subseteq lapses'
           /\ (\E q \in Runs \ {r} : pc[q] = "creating")
                => "overlap" \in lapses'
           /\ pc[r] = "creating" /\ (\E q \in Runs \ {r} : Live(q))
                => "overlap" \in lapses'
  <1>1. CASE Send(r)
    BY <1>1 DEF Send, Note, Clashes
  <1>2. CASE Regenerate(r)
    BY <1>2 DEF Regenerate, MayRegenerate, Note, Clashes
  <1>3. CASE ChatCreated(r)
    BY <1>3 DEF ChatCreated, Note, Live
  <1> QED
    BY <1>1, <1>2, <1>3 DEF Begins

LEMMA StreamKept ==
    ASSUME TypeOK, Stream, [Next]_vars
    PROVE  Stream'
  <1> USE ChatPageAssumption
  <1>1. CASE UNCHANGED vars \/ Aside
    <2>1. UNCHANGED <<streamVars, pc>>
      BY <1>1, AsideEffect DEF vars, callVars
    <2> QED
      BY <2>1 DEF Stream, Streaming, streamVars, pendingVars
  <1>2. ASSUME NEW r \in Runs, Begins(r)
        PROVE  Stream'
    <2>1. PICK c, shown : BeginStream(r, c, shown)
      BY <1>2, BeginEffect
    <2> QED
      BY <2>1 DEF TypeOK, Stream, Streaming, BeginStream, Goto
  <1>3. ASSUME NEW r \in Runs,
               SendNew(r) \/ CreateFails(r) \/ RegenerateForgets(r)
        PROVE  Stream'
    BY <1>3
    DEF TypeOK, Stream, Streaming, SendNew, CreateFails, RegenerateForgets,
        MayRegenerate, Goto, streamVars, pendingVars
  <1>4. ASSUME NEW r \in Runs, Delta(r) \/ Done(r) \/ ErrorEvent(r)
        PROVE  Stream'
    BY <1>4
    DEF TypeOK, Stream, Streaming, Delta, Done, ErrorEvent, Goto, streamVars,
        pendingVars, callVars
  <1>5. ASSUME NEW r \in Runs, StreamEnds(r) \/ StreamFails(r)
        PROVE  Stream'
    BY <1>5 DEF Stream, StreamEnds, StreamFails, Finish
  <1>6. CASE Cancel
    BY <1>6 DEF Stream, Cancel
  <1> QED
    BY <1>1, <1>2, <1>3, <1>4, <1>5, <1>6
    DEF Next, UserStep, RunStep, Aside, Begins

LEMMA QuietStream ==
    ASSUME TypeOK, Stream, Quiet
    PROVE  pendingOf = None /\ pendingFrom = {} /\ ~busy
  BY DEF TypeOK, Stream, Quiet, Live

\* Who has a stream has the page.
LEMMA OneStreamKept ==
    ASSUME TypeOK, Stream, OneStream, [Next]_vars
    PROVE  OneStream'
  <1> USE ChatPageAssumption
  <1>1. CASE UNCHANGED vars
    BY <1>1
    DEF OneStream, Noted, Live, Streaming, vars, callVars, streamVars,
        pendingVars
  <1>2. CASE Aside
    <2>1. UNCHANGED <<pc, pendingOf, pendingFrom>>
      BY <1>2, AsideEffect DEF callVars, streamVars, pendingVars
    <2>2. CASE Quiet
      BY <2>1, <2>2, QuietStream DEF OneStream, Quiet, Live, Streaming
    <2>3. CASE lapses \subseteq lapses'
      BY <2>1, <2>3 DEF OneStream, Noted, Live, Streaming
    <2> QED
      BY <1>2, <2>2, <2>3, AsideEffect
  <1>3. ASSUME NEW r \in Runs, Begins(r), "overlap" \notin lapses'
        PROVE  OneStream'
    <2>1. PICK c, shown : BeginStream(r, c, shown)
      BY <1>3, BeginEffect
    <2>2. \A q \in Runs : Live(q) => q = r
      BY <1>3, BeginEffect DEF OneStream, Stream, Noted, Live
    <2> QED
      BY <2>1, <2>2
      DEF TypeOK, OneStream, Live, Streaming, BeginStream, Goto
  <1>4. ASSUME NEW r \in Runs, SendNew(r), "overlap" \notin lapses'
        PROVE  OneStream'
    <2>1. \A q \in Runs : ~Live(q)
      BY <1>4
      DEF OneStream, Stream, Noted, Live, Streaming, SendNew, Note, Clashes
    <2> QED
      BY <1>4, <2>1
      DEF TypeOK, OneStream, Noted, Live, Streaming, SendNew, Goto, Note,
          streamVars, pendingVars
  <1>5. ASSUME NEW r \in Runs, CreateFails(r) \/ RegenerateForgets(r)
        PROVE  OneStream'
    <2>1. /\ lapses \subseteq lapses' /\ Goto(r, "ended")
          /\ UNCHANGED <<pendingOf, pendingFrom>> /\ ~Streaming(r)
      BY <1>5
      DEF CreateFails, RegenerateForgets, MayRegenerate, Note, streamVars,
          pendingVars, Streaming
    <2>2. \A q \in Runs : /\ Streaming(q)' => Streaming(q)
                          /\ Live(q)' => Live(q)
      BY <2>1 DEF TypeOK, Live, Streaming, Goto
    <2> QED
      BY <2>1, <2>2 DEF OneStream, Noted
  <1>8. ASSUME NEW r \in Runs, Delta(r) \/ Done(r) \/ ErrorEvent(r)
        PROVE  OneStream'
    <2>1. /\ Streaming(r) /\ lapses' = lapses /\ pendingOf' = pendingOf
          /\ \A q \in Runs : Streaming(q)' = Streaming(q) /\ Live(q)' = Live(q)
      BY <1>8
      DEF TypeOK, Live, Streaming, Delta, Done, ErrorEvent, Goto, callVars,
          streamVars, pendingVars
    <2>2. pendingFrom' \subseteq pendingFrom \cup {r}
      BY <1>8 DEF Delta, Done, ErrorEvent, streamVars, pendingVars
    <2> QED
      BY <2>1, <2>2 DEF OneStream, Noted
  <1>6. ASSUME NEW r \in Runs, StreamEnds(r) \/ StreamFails(r)
        PROVE  OneStream'
    <2>1. /\ Streaming(r) /\ lapses \subseteq lapses' /\ Finish(r)
      BY <1>6 DEF Streaming, StreamEnds, StreamFails, Note
    <2>2. \A q \in Runs : /\ Streaming(q)' => Streaming(q) /\ q # r
                          /\ Live(q)' => Live(q) /\ q # r
      BY <2>1 DEF TypeOK, Live, Streaming, Finish, Goto
    <2> QED
      BY <2>1, <2>2 DEF OneStream, Noted, Finish, Live
  <1>7. CASE Cancel
    BY <1>7
    DEF TypeOK, OneStream, Stream, Noted, Live, Streaming, Cancel, Note
  <1> QED
    BY <1>1, <1>2, <1>3, <1>4, <1>5, <1>6, <1>7, <1>8
    DEF Next, UserStep, RunStep, Aside, Begins, OneStream, Noted

-----------------------------------------------------------------------------
(* The tables.                                                             *)

\* What a step of the server does to the messages s of its chat.
Serves(s, t, r) ==
    /\ t \in Seq(Message)
    /\ Authors(t) \subseteq Authors(s) \cup {r}
    /\ Single(s) => Single(t)

LEMMA StoreChange ==
    ASSUME TypeOK, Filled, NEW r \in Runs, ServerStep(r)
    PROVE  /\ chat[r] \in made /\ chat[r] \in Chats /\ Begun(r)
           /\ got' = [got EXCEPT ![r] = got'[r]] /\ got[r] # "none"
           /\ \/ store' = store
              \/ \E t : /\ Serves(store[chat[r]], t, r)
                        /\ store' = [store EXCEPT ![chat[r]] = t]
  <1> DEFINE s == store[chat[r]]
  <1>1. chat[r] \in made /\ Begun(r) /\ got[r] # "none"
    BY DEF ServerStep, ServerPrompts, ServerAnswers, ServerFails, Filled
  <1>2. chat[r] \in Chats /\ s \in Seq(Message)
    BY <1>1 DEF TypeOK
  <1>3. got' = [got EXCEPT ![r] = got'[r]]
    BY DEF ServerStep, ServerPrompts, ServerAnswers, ServerFails, TypeOK
  <1>4. \/ store' = store
        \/ store' = [store EXCEPT ![chat[r]] = Append(s, Question(r))]
        \/ store' = [store EXCEPT ![chat[r]] = Append(s, Answer({r}))]
        \/ store' = [store EXCEPT ![chat[r]] =
                        SubSeq(s, 1, LastOf("user", s))]
    BY DEF ServerStep, ServerPrompts, ServerAnswers, ServerFails
  <1> HIDE DEF s
  <1>5. /\ Serves(s, Append(s, Question(r)), r)
        /\ Serves(s, Append(s, Answer({r})), r)
    BY <1>2, Appended, MessagesAre DEF Serves
  <1>6. Serves(s, SubSeq(s, 1, LastOf("user", s)), r)
    <2>1. LastOf("user", s) \in 0 .. Len(s) /\ Len(s) \in Nat
      BY <1>2, LastOfIs, LenProperties
    <2> QED
      BY <1>2, <2>1, Part, WithinKeeps DEF Serves
  <1>7. \/ store' = store
        \/ \E t : Serves(s, t, r) /\ store' = [store EXCEPT ![chat[r]] = t]
    BY <1>4, <1>5, <1>6
  <1> QED
    BY <1>1, <1>2, <1>3, <1>7 DEF s

\* A call that has begun goes on, and keeps its chat.
LEMMA BegunStays ==
    ASSUME TypeOK, [Next]_vars, NEW q \in Runs, Begun(q)
    PROVE  Begun(q)' /\ chat'[q] = chat[q]
  <1>1. CASE UNCHANGED vars \/ Aside
    BY <1>1, AsideEffect DEF Begun, vars, callVars
  <1>2. ASSUME NEW r \in Runs, Begins(r)
        PROVE  Begun(q)' /\ chat'[q] = chat[q]
    <2>1. PICK c, shown : BeginStream(r, c, shown)
      BY <1>2, BeginEffect
    <2>2. q # r
      BY <1>2, BeginEffect DEF Begun
    <2> QED
      BY <2>1, <2>2 DEF TypeOK, Begun, BeginStream, Goto
  <1>3. ASSUME NEW r \in Runs,
               \/ SendNew(r) \/ CreateFails(r) \/ RegenerateForgets(r)
               \/ Delta(r) \/ Done(r) \/ ErrorEvent(r)
               \/ StreamEnds(r) \/ StreamFails(r)
        PROVE  Begun(q)' /\ chat'[q] = chat[q]
    <2>1. /\ UNCHANGED chat
          /\ pc' = pc \/ Goto(r, "ended") \/ Goto(r, "closing")
                \/ (pc[r] = "idle" /\ Goto(r, "creating"))
      <3>1. CASE SendNew(r)
        BY <3>1 DEF SendNew, Goto
      <3>2. CASE CreateFails(r) \/ RegenerateForgets(r)
        BY <3>2 DEF CreateFails, RegenerateForgets, Goto
      <3>3. CASE Delta(r) \/ Done(r) \/ ErrorEvent(r)
        BY <3>3 DEF Delta, Done, ErrorEvent, callVars, Goto
      <3>4. CASE StreamEnds(r) \/ StreamFails(r)
        BY <3>4 DEF StreamEnds, StreamFails, Finish, Goto
      <3> QED
        BY <1>3, <3>1, <3>2, <3>3, <3>4
    <2> QED
      BY <2>1 DEF TypeOK, Begun, Goto
  <1>4. CASE Cancel
    BY <1>4 DEF Cancel, Begun
  <1> QED
    BY <1>1, <1>2, <1>3, <1>4 DEF Next, UserStep, RunStep, Aside, Begins

\* Everything else leaves the tables to the server.
LEMMA TablesStay ==
    ASSUME Next, \A r \in Runs : ~ServerStep(r)
    PROVE  /\ UNCHANGED store
           /\ got' = got \/ \E r \in Runs : Begins(r)
  BY DEF Next, UserStep, Open, Retry, Cancel, Send, SendNew, Regenerate,
         RegenerateForgets, LoaderStep, HistoryRead, ShowHistory,
         HistoryFails, HistoryNotFound, RunStep, ChatCreated, CreateFails,
         Delta, Done, ErrorEvent, StreamEnds, StreamFails, serverVars, Begins

LEMMA LoaderKept ==
    ASSUME TypeOK, Loader, AtHome, [Next]_vars
    PROVE  Loader'
  <1> USE ChatPageAssumption
  <1>1. CASE UNCHANGED vars
    BY <1>1 DEF Loader, Noted, vars, historyVars
  <1>2. ASSUME NEW c \in Chats \cup {None}, Open(c)
        PROVE  Loader'
    BY <1>2 DEF TypeOK, Loader, Noted, Open, LoadHistory
  <1>3. CASE Retry
    BY <1>3 DEF TypeOK, Loader, Noted, Retry, LoadHistory, NoteIf, Note
  <1>4. CASE LoaderStep
    <2>1. CASE HistoryRead
      <3>1. /\ fetch = "asked" /\ fetch' = "answered"
            /\ UNCHANGED <<route, loading, error>>
        BY <2>1 DEF HistoryRead
      <3> QED
        BY <3>1 DEF Loader
    <2>2. CASE ShowHistory \/ HistoryFails \/ HistoryNotFound
      BY <2>2
      DEF Loader, ShowHistory, HistoryFails, HistoryNotFound
    <2> QED
      BY <1>4, <2>1, <2>2 DEF LoaderStep
  <1>5. ASSUME NEW r \in Runs, ChatCreated(r)
        PROVE  Loader'
    <2>1. /\ fetch' = "none" /\ page' = <<>> /\ error' = error
          /\ loading' = loading /\ lapses \subseteq lapses'
          /\ route' # None /\ pc[r] = "creating"
      BY <1>5 DEF ChatCreated, SkipHistory, Note
    <2> QED
      BY <2>1 DEF Loader, AtHome, Noted
  <1>6. ASSUME Next, ~ \E c \in Chats \cup {None} : Open(c), ~Retry,
               ~LoaderStep, ~ \E r \in Runs : ChatCreated(r)
        PROVE  Loader'
    <2>1. UNCHANGED <<route, loading, error, fetch, page>>
      BY <1>6
      DEF Next, UserStep, Cancel, Send, SendNew, Regenerate,
          RegenerateForgets, RunStep, CreateFails, Delta, Done, ErrorEvent,
          StreamEnds, StreamFails, ServerStep, ServerPrompts, ServerAnswers,
          ServerFails, historyVars
    <2>2. lapses \subseteq lapses'
      <3>1. ASSUME NEW r \in Runs, ServerStep(r)
            PROVE  lapses \subseteq lapses'
        BY <3>1
        DEF ServerStep, ServerPrompts, ServerAnswers, ServerFails, Note
      <3> QED
        BY <1>6, <3>1, LapsesStay DEF Aside
    <2> QED
      BY <2>1, <2>2 DEF Loader, Noted
  <1> QED
    BY <1>1, <1>2, <1>3, <1>4, <1>5, <1>6

LEMMA FilledKept ==
    ASSUME TypeOK, TypeOK', Filled, [Next]_vars
    PROVE  Filled'
  <1> USE ChatPageAssumption
  <1> DEFINE Whole == \A c \in Chats : \A r \in Authors(store[c]) :
                        Begun(r) /\ chat[r] = c
             Empty == \A c \in Chats \ made : store[c] = <<>>
             Known == \A r \in Runs : got[r] # "none" \/ Streaming(r) =>
                        Begun(r) /\ chat[r] \in made
  <1>1. made \subseteq made' /\ FirstChat \in made'
    <2>1. ASSUME NEW r \in Runs, ChatCreated(r) \/ CreateFails(r)
          PROVE  made \subseteq made'
      BY <2>1 DEF ChatCreated, CreateFails
    <2>2. ASSUME Next, ~ \E r \in Runs : ChatCreated(r) \/ CreateFails(r)
          PROVE  UNCHANGED made
      <3>1. CASE Aside
        BY <3>1, AsideEffect
      <3>2. CASE ~Aside
        BY <2>2, <3>2
        DEF Next, Aside, UserStep, Cancel, Send, SendNew, Regenerate,
            RegenerateForgets, RunStep, Delta, Done, ErrorEvent, StreamEnds,
            StreamFails, serverVars
      <3> QED
        BY <3>1, <3>2
    <2> QED
      BY <2>1, <2>2 DEF vars, serverVars, Filled
  <1>2. route' # None => route' \in made'
    <2>1. ASSUME NEW c \in Chats \cup {None}, Open(c)
          PROVE  route' # None => route' \in made'
      BY <2>1 DEF Open, serverVars
    <2>2. ASSUME NEW r \in Runs, ChatCreated(r)
          PROVE  route' \in made'
      BY <2>2 DEF ChatCreated
    <2>3. CASE HistoryNotFound
      BY <2>3 DEF HistoryNotFound
    <2>4. ASSUME Next, ~ \E c \in Chats \cup {None} : Open(c),
                 ~HistoryNotFound, ~ \E r \in Runs : ChatCreated(r)
          PROVE  UNCHANGED route
      BY <2>4
      DEF Next, UserStep, Retry, Cancel, Send, SendNew, Regenerate,
          RegenerateForgets, LoaderStep, HistoryRead, ShowHistory,
          HistoryFails, RunStep, CreateFails, Delta, Done, ErrorEvent,
          StreamEnds, StreamFails, ServerStep, ServerPrompts, ServerAnswers,
          ServerFails
    <2> QED
      BY <1>1, <2>1, <2>2, <2>3, <2>4 DEF vars, Filled
  <1>3. Known'
    <2>1. ASSUME NEW q \in Runs, got'[q] # "none" \/ Streaming(q)',
                 got[q] # "none" \/ Streaming(q)
          PROVE  Begun(q)' /\ chat'[q] \in made'
      BY <1>1, <2>1, BegunStays DEF Filled
    <2>2. ASSUME NEW r \in Runs, Begins(r), NEW q \in Runs,
                 got'[q] # "none" \/ Streaming(q)'
          PROVE  Begun(q)' /\ chat'[q] \in made'
      <3>1. CASE q = r
        <4>1. Begun(r)' /\ chat'[r] = route'
          BY <2>2
          DEF Begins, Send, Regenerate, ChatCreated, BeginStream, Goto, Begun,
              TypeOK
        <4>2. route' # None
          BY <2>2
          DEF Begins, Send, Regenerate, MayRegenerate, ChatCreated
        <4> QED
          BY <1>2, <3>1, <4>1, <4>2
      <3>2. CASE q # r
        <4>1. PICK c, shown : BeginStream(r, c, shown)
          BY <2>2, BeginEffect
        <4>2. got[q] # "none" \/ Streaming(q)
          BY <2>2, <3>2, <4>1 DEF TypeOK, BeginStream, Goto, Streaming
        <4> QED
          BY <2>1, <2>2, <4>2
      <3> QED
        BY <3>1, <3>2
    <2>3. ASSUME NEW r \in Runs, ServerStep(r), NEW q \in Runs,
                 got'[q] # "none" \/ Streaming(q)'
          PROVE  Begun(q)' /\ chat'[q] \in made'
      <3>1. UNCHANGED pc
        BY <2>3, AsideEffect DEF Aside, callVars
      <3>2. got[q] # "none" \/ Streaming(q)
        BY <2>3, <3>1, StoreChange DEF TypeOK, Streaming
      <3> QED
        BY <2>1, <2>3, <3>2
    <2>4. ASSUME \A r \in Runs : ~ServerStep(r) /\ ~Begins(r), NEW q \in Runs,
                 got'[q] # "none" \/ Streaming(q)'
          PROVE  Begun(q)' /\ chat'[q] \in made'
      <3>1. got' = got
        BY <2>4, TablesStay DEF vars, serverVars
      <3>2. Streaming(q)' => Streaming(q)
        <4>1. CASE UNCHANGED vars \/ Aside
          BY <4>1, AsideEffect DEF vars, callVars, Streaming
        <4>2. CASE Next /\ ~Aside
          BY <2>4, <4>2
          DEF TypeOK, Next, Aside, UserStep, Cancel, SendNew, Begins,
              RegenerateForgets, MayRegenerate, RunStep, CreateFails, Delta,
              Done, ErrorEvent, StreamEnds, StreamFails, Finish, Goto,
              callVars, Streaming
        <4> QED
          BY <4>1, <4>2
      <3> QED
        BY <2>1, <2>4, <3>1, <3>2
    <2> QED
      BY <2>2, <2>3, <2>4
  <1>4. Empty' /\ Whole'
    <2>1. CASE \A r \in Runs : ~ServerStep(r)
      <3>1. UNCHANGED store
        BY <2>1, TablesStay DEF vars, serverVars
      <3>2. \A c \in Chats : Authors(store[c])' = Authors(store[c])
        BY <3>1
      <3> QED
        BY <1>1, <3>1, <3>2, BegunStays DEF Filled, Authors
    <2>2. ASSUME NEW r \in Runs, ServerStep(r)
          PROVE  Empty' /\ Whole'
      <3>1. /\ chat[r] \in made /\ chat[r] \in Chats /\ Begun(r)
            /\ UNCHANGED <<made, pc, chat>>
        BY <2>2, StoreChange, AsideEffect DEF Aside, callVars
      <3>2. ASSUME NEW t, Serves(store[chat[r]], t, r),
                   store' = [store EXCEPT ![chat[r]] = t]
            PROVE  Empty' /\ Whole'
        <4>1. /\ store'[chat[r]] = t
              /\ \A c \in Chats \ {chat[r]} : store'[c] = store[c]
          BY <3>1, <3>2 DEF TypeOK
        <4>2. Empty'
          BY <3>1, <4>1 DEF Filled
        <4>3. ASSUME NEW c \in Chats, NEW q \in Authors(store'[c])
              PROVE  Begun(q)' /\ chat'[q] = c
          <5>1. q \in Authors(store[c]) \/ (q = r /\ c = chat[r])
            BY <3>2, <4>1, <4>3 DEF Serves
          <5> QED
            BY <3>1, <5>1 DEF Filled, Begun
        <4> QED
          BY <4>2, <4>3
      <3>3. CASE store' = store
        BY <3>1, <3>3 DEF Filled, Begun, Authors
      <3> QED
        BY <2>2, <3>2, <3>3, StoreChange
    <2> QED
      BY <2>1, <2>2
  <1> QED
    BY <1>1, <1>2, <1>3, <1>4 DEF Filled

-----------------------------------------------------------------------------
(* The page.                                                               *)

LEMMA NoMessages ==
    Authors(<<>>) = {} /\ Single(<<>>)
  BY DEF Authors, Single

\* The steps that move the page: the user's and the loader's.
Moves == (\E c \in Chats \cup {None} : Open(c)) \/ Retry \/ LoaderStep

\* How the list on the page changes.
LEMMA MessagesChange ==
    ASSUME TypeOK, [Next]_vars
    PROVE  \/ messages' = messages \/ (messages' = <<>> /\ Moves)
           \/ ShowHistory /\ messages' = page
           \/ \E r \in Runs : /\ Send(r) \/ ChatCreated(r)
                              /\ messages' = Append(messages, Question(r))
           \/ /\ \E r \in Runs : Regenerate(r) \/ RegenerateForgets(r)
              /\ Within(messages', messages)
           \/ \E r \in Runs : /\ StreamEnds(r) /\ pendingFrom # {}
                              /\ messages' =
                                    Append(messages, Answer(pendingFrom))
  <1>1. CASE UNCHANGED vars \/ (Aside /\ ~ShowHistory)
    BY <1>1
    DEF vars, Aside, Moves, Open, Retry, LoadHistory, LoaderStep, HistoryRead,
        HistoryFails, HistoryNotFound, ServerStep, ServerPrompts,
        ServerAnswers, ServerFails, historyVars
  <1>2. CASE ShowHistory
    BY <1>2 DEF ShowHistory
  <1>3. ASSUME NEW r \in Runs, Send(r) \/ ChatCreated(r)
        PROVE  messages' = Append(messages, Question(r))
    BY <1>3 DEF Send, ChatCreated, BeginStream
  <1>4. ASSUME NEW r \in Runs, Regenerate(r) \/ RegenerateForgets(r)
        PROVE  Within(messages', messages)
    <2>1. messages' = WithoutLastAnswer /\ LastAnswer # 0
      BY <1>4 DEF Regenerate, RegenerateForgets, MayRegenerate, BeginStream
    <2> QED
      BY <2>1, Dropped DEF TypeOK
  <1>5. ASSUME NEW r \in Runs, StreamEnds(r)
        PROVE  \/ messages' = messages
               \/ /\ pendingFrom # {}
                  /\ messages' = Append(messages, Answer(pendingFrom))
    BY <1>5 DEF StreamEnds
  <1>6. ASSUME NEW r \in Runs,
               \/ SendNew(r) \/ CreateFails(r) \/ Delta(r) \/ Done(r)
               \/ ErrorEvent(r) \/ StreamFails(r)
        PROVE  messages' = messages
    BY <1>6
    DEF SendNew, CreateFails, Delta, Done, ErrorEvent, StreamFails,
        historyVars
  <1>7. CASE Cancel
    BY <1>7 DEF Cancel, historyVars
  <1> QED
    BY <1>1, <1>2, <1>3, <1>4, <1>5, <1>6, <1>7
    DEF Next, UserStep, RunStep, Aside

LEMMA AuthorsChange ==
    ASSUME TypeOK, [Next]_vars, NEW q \in Authors(messages')
    PROVE  \/ q \in Authors(messages)
           \/ ShowHistory /\ q \in Authors(page)
           \/ Send(q) \/ ChatCreated(q)
           \/ (\E r \in Runs : StreamEnds(r)) /\ q \in pendingFrom
  <1>1. messages \in Seq(Message) /\ pendingFrom \in SUBSET Runs
    BY DEF TypeOK
  <1>2. ASSUME NEW r \in Runs
        PROVE  Authors(Append(messages, Question(r))) =
                    Authors(messages) \cup {r}
    <2>1. Question(r) \in Message /\ Question(r).by = {r}
      BY <1>1, MessagesAre
    <2> QED
      BY <1>1, <2>1, Appended
  <1>3. Authors(Append(messages, Answer(pendingFrom))) =
            Authors(messages) \cup pendingFrom
    <2>1. Answer(pendingFrom) \in Message
          /\ Answer(pendingFrom).by = pendingFrom
      BY <1>1 DEF Answer, Message
    <2> QED
      BY <1>1, <2>1, Appended
  <1>4. Authors(<<>>) = {}
    BY NoMessages
  <1>5. Within(messages', messages) =>
            Authors(messages') \subseteq Authors(messages)
    BY WithinKeeps
  <1> QED
    BY <1>2, <1>3, <1>4, <1>5, MessagesChange

\* How the pending text changes.
LEMMA PendingChange ==
    ASSUME TypeOK, [Next]_vars
    PROVE  \/ pendingFrom' \subseteq pendingFrom
           \/ \E r \in Runs : /\ pc[r] = "streaming"
                              /\ pendingFrom' \subseteq pendingFrom \cup {r}
                              /\ UNCHANGED <<route, lapses, pendingOf>>
  <1>1. CASE UNCHANGED vars \/ Aside
    BY <1>1, AsideEffect DEF vars, streamVars, pendingVars
  <1>2. ASSUME NEW r \in Runs, Begins(r)
        PROVE  pendingFrom' = {}
    BY <1>2, BeginEffect DEF BeginStream
  <1>3. ASSUME NEW r \in Runs, Delta(r) \/ Done(r)
        PROVE  /\ pc[r] = "streaming"
               /\ pendingFrom' \subseteq pendingFrom \cup {r}
               /\ UNCHANGED <<route, lapses, pendingOf>>
    BY <1>3 DEF Delta, Done
  <1>4. ASSUME NEW r \in Runs,
               \/ SendNew(r) \/ CreateFails(r) \/ RegenerateForgets(r)
               \/ ErrorEvent(r) \/ StreamEnds(r) \/ StreamFails(r)
        PROVE  pendingFrom' \subseteq pendingFrom
    BY <1>4
    DEF SendNew, CreateFails, RegenerateForgets, ErrorEvent, StreamEnds,
        StreamFails, Finish, streamVars, pendingVars
  <1>5. CASE Cancel
    BY <1>5 DEF Cancel
  <1> QED
    BY <1>1, <1>2, <1>3, <1>4, <1>5
    DEF Next, UserStep, RunStep, Aside, Begins

\* What the loader has changes.
LEMMA PageChange ==
    ASSUME TypeOK, Loader, [Next]_vars
    PROVE  \/ UNCHANGED <<page, route>>
           \/ page' = <<>>
           \/ /\ HistoryRead /\ route \in Chats
              /\ Within(page', store[route])
              /\ UNCHANGED <<route, streamVars, callVars, serverVars>>
  <1>1. CASE HistoryRead
    <2> DEFINE all == store[route]
               rows == IF Len(all) > PageLimit THEN PageLimit ELSE Len(all)
    <2>1. all \in Seq(Message) /\ Len(all) \in Nat /\ PageLimit \in Nat
      BY <1>1, LenProperties, ChatPageAssumption
      DEF HistoryRead, Loader, TypeOK
    <2>2. rows \in 0 .. Len(all)
      BY <2>1
    <2>3. /\ Within(SubSeq(all, 1, rows), all)
          /\ Within(SubSeq(all, Len(all) - rows + 1, Len(all)), all)
      <3> HIDE DEF all, rows
      <3> QED
        BY <2>1, <2>2, Part
    <2>4. Within(page', store[route])
      BY <1>1, <2>3 DEF HistoryRead
    <2> QED
      BY <1>1, <2>4 DEF HistoryRead, TypeOK, Loader
  <1>2. CASE \/ ShowHistory \/ HistoryFails \/ HistoryNotFound \/ Retry
             \/ \E c \in Chats \cup {None} : Open(c)
    BY <1>2
    DEF ShowHistory, HistoryFails, HistoryNotFound, Retry, Open, LoadHistory
  <1>3. ASSUME NEW r \in Runs, ChatCreated(r)
        PROVE  page' = <<>>
    BY <1>3 DEF ChatCreated, SkipHistory
  <1>4. ASSUME Next, ~LoaderStep, ~Retry,
               ~ \E c \in Chats \cup {None} : Open(c),
               ~ \E r \in Runs : ChatCreated(r)
        PROVE  UNCHANGED <<page, route>>
    BY <1>4
    DEF Next, UserStep, Cancel, Send, SendNew, Regenerate, RegenerateForgets,
        RunStep, CreateFails, Delta, Done, ErrorEvent, StreamEnds,
        StreamFails, ServerStep, ServerPrompts, ServerAnswers, ServerFails,
        historyVars
  <1> QED
    BY <1>1, <1>2, <1>3, <1>4 DEF vars, historyVars, LoaderStep

LEMMA PlacedKept ==
    ASSUME TypeOK, TypeOK', Loader, Filled, Placed, [Next]_vars
    PROVE  Placed'
  <1>1. \A q \in Runs : Begun(q) => Begun(q)' /\ chat'[q] = chat[q]
    BY BegunStays
  <1>2. ASSUME NEW q \in Authors(messages')
        PROVE  Begun(q)'
    <2>1. q \in Runs
      BY <1>2 DEF Authors
    <2>2. ASSUME Send(q) \/ ChatCreated(q)
          PROVE  Begun(q)'
      BY <2>1, <2>2
      DEF Send, ChatCreated, BeginStream, Goto, Begun, TypeOK
    <2> QED
      BY <1>1, <1>2, <2>1, <2>2, AuthorsChange DEF Placed
  <1>3. ASSUME NEW q \in pendingFrom'
        PROVE  Begun(q)'
    <2>1. q \in Runs
      BY <1>3 DEF TypeOK
    <2>2. Begun(q)
      BY <1>3, <2>1, PendingChange DEF Placed, Begun
    <2> QED
      BY <1>1, <2>1, <2>2
  <1>4. ASSUME NEW q \in Authors(page')
        PROVE  Begun(q)' /\ chat'[q] = route'
    <2>1. q \in Runs
      BY <1>4 DEF Authors
    <2>2. CASE UNCHANGED <<page, route>>
      BY <1>1, <1>4, <2>1, <2>2 DEF Placed
    <2>3. CASE page' = <<>>
      BY <1>4, <2>3, NoMessages
    <2>4. CASE HistoryRead /\ route \in Chats /\ Within(page', store[route])
      <3>1. q \in Authors(store[route])
        BY <1>4, <2>4, WithinKeeps
      <3> QED
        BY <1>1, <2>1, <2>4, <3>1 DEF Filled, HistoryRead
    <2> QED
      BY <2>2, <2>3, <2>4, PageChange
  <1>5. /\ Authors(messages)' = Authors(messages')
        /\ Authors(page)' = Authors(page')
    BY DEF Authors
  <1> QED
    BY <1>2, <1>3, <1>4, <1>5 DEF Placed

LEMMA ElseStays ==
    ASSUME [Next]_vars, ~Moves
    PROVE  /\ UNCHANGED <<loading, error>> /\ lapses \subseteq lapses'
           /\ \/ UNCHANGED <<route, fetch, page>>
              \/ \E r \in Runs : ChatCreated(r)
  <1>1. CASE UNCHANGED vars
    BY <1>1 DEF vars, historyVars
  <1>2. ASSUME NEW r \in Runs, ChatCreated(r)
        PROVE  UNCHANGED <<loading, error>> /\ lapses \subseteq lapses'
    BY <1>2 DEF ChatCreated, SkipHistory, Note
  <1>3. ASSUME NEW r \in Runs, ServerStep(r)
        PROVE  /\ UNCHANGED <<route, loading, error, fetch, page>>
               /\ lapses \subseteq lapses'
    BY <1>3
    DEF ServerStep, ServerPrompts, ServerAnswers, ServerFails, Note,
        historyVars
  <1>4. ASSUME NEW r \in Runs,
               \/ Send(r) \/ SendNew(r) \/ Regenerate(r)
               \/ RegenerateForgets(r) \/ CreateFails(r)
        PROVE  /\ UNCHANGED <<route, loading, error, fetch, page>>
               /\ lapses \subseteq lapses'
    BY <1>4
    DEF Send, SendNew, Regenerate, RegenerateForgets, CreateFails, Note,
        historyVars
  <1>5. ASSUME NEW r \in Runs,
               \/ Delta(r) \/ Done(r) \/ ErrorEvent(r)
               \/ StreamEnds(r) \/ StreamFails(r)
        PROVE  /\ UNCHANGED <<route, loading, error, fetch, page>>
               /\ lapses \subseteq lapses'
    BY <1>5
    DEF Delta, Done, ErrorEvent, StreamEnds, StreamFails, Note, historyVars
  <1>6. CASE Cancel
    BY <1>6 DEF Cancel, Note, historyVars
  <1> QED
    BY <1>1, <1>2, <1>3, <1>4, <1>5, <1>6 DEF Next, UserStep, RunStep, Moves

LEMMA UnmixedKept ==
    ASSUME TypeOK, TypeOK', Stream, OneStream, Loader, Filled, Unmixed,
           [Next]_vars
    PROVE  Unmixed'
  <1>1. ASSUME NEW c \in Chats
        PROVE  Single(store'[c])
    <2>1. CASE \A r \in Runs : ~ServerStep(r)
      BY <2>1, TablesStay DEF vars, serverVars, Unmixed
    <2>2. ASSUME NEW r \in Runs, ServerStep(r)
          PROVE  Single(store'[c])
      <3>1. chat[r] \in Chats
        BY <2>2, StoreChange
      <3>2. CASE store' = store
        BY <3>2 DEF Unmixed
      <3>3. ASSUME NEW t, Serves(store[chat[r]], t, r),
                   store' = [store EXCEPT ![chat[r]] = t]
            PROVE  Single(store'[c])
        <4>1. Single(t)
          BY <3>1, <3>3 DEF Serves, Unmixed
        <4>2. store'[c] = t \/ store'[c] = store[c]
          BY <3>3 DEF TypeOK
        <4> QED
          BY <4>1, <4>2 DEF Unmixed
      <3> QED
        BY <2>2, <3>2, <3>3, StoreChange
    <2> QED
      BY <2>1, <2>2
  <1>2. Single(page')
    BY PageChange, NoMessages, WithinKeeps DEF Unmixed
  <1>3. ASSUME "overlap" \notin lapses', ~loading', ~error'
        PROVE  Single(messages')
    <2>1. ASSUME NEW c \in Chats \cup {None}, Open(c)
          PROVE  Single(messages')
      BY <1>3, <2>1, NoMessages DEF Open, LoadHistory
    <2>2. ~Retry
      BY <1>3 DEF Retry, LoadHistory
    <2>3. CASE LoaderStep
      BY <1>3, <2>3, NoMessages
      DEF LoaderStep, HistoryRead, ShowHistory, HistoryFails,
          HistoryNotFound, Loader, Unmixed
    <2>4. CASE ~Moves
      <3>1. ~Noted("overlap") /\ Single(messages)
        BY <1>3, <2>4, ElseStays DEF Unmixed, Noted
      <3>2. messages \in Seq(Message) /\ pendingFrom \in SUBSET Runs
        BY DEF TypeOK
      <3>3. ASSUME NEW r \in Runs
            PROVE  Single(Append(messages, Question(r)))
        <4>1. Question(r) \in Message /\ Question(r).by = {r}
          BY <3>2, MessagesAre
        <4> QED
          BY <3>1, <3>2, <4>1, Appended
      <3>4. ASSUME pendingFrom # {}
            PROVE  Single(Append(messages, Answer(pendingFrom)))
        <4>1. /\ Answer(pendingFrom) \in Message
              /\ Answer(pendingFrom).by = pendingFrom
          BY <3>2 DEF Answer, Message
        <4>2. pendingFrom = {pendingOf} /\ pendingOf \in Runs
          BY <3>1, <3>2, <3>4 DEF OneStream
        <4> QED
          BY <3>1, <3>2, <4>1, <4>2, Appended
      <3> QED
        BY <2>4, <3>1, <3>3, <3>4, MessagesChange, WithinKeeps
        DEF Moves, LoaderStep, Single
    <2> QED
      BY <2>1, <2>2, <2>3, <2>4 DEF Moves
  <1>4. /\ \A c \in Chats : Single(store[c])' = Single(store'[c])
        /\ Single(page)' = Single(page')
        /\ Single(messages)' = Single(messages')
    BY DEF Single
  <1> QED
    BY <1>1, <1>2, <1>3, <1>4 DEF Unmixed, Noted

\* A call begins, waits for its chat, or goes on to its end.
LEMMA CallMoves ==
    ASSUME TypeOK, [Next]_vars, NEW q \in Runs
    PROVE  \/ Begins(q) \/ SendNew(q)
           \/ /\ kind'[q] = kind[q]
              /\ \/ pc'[q] = pc[q]
                 \/ pc'[q] = "ended"
                        /\ (pc[q] # "streaming" \/ "broken" \in lapses')
                 \/ pc[q] = "streaming" /\ pc'[q] = "closing"
                        /\ (Done(q) \/ ErrorEvent(q))
  <1>1. CASE UNCHANGED vars \/ Aside
    BY <1>1, AsideEffect DEF vars, callVars
  <1>2. ASSUME NEW r \in Runs, Begins(r), q # r
        PROVE  pc'[q] = pc[q] /\ kind'[q] = kind[q]
    <2>1. pc' = [pc EXCEPT ![r] = "streaming"]
      BY <1>2 DEF Begins, Send, Regenerate, ChatCreated, BeginStream, Goto
    <2>2. kind' = kind \/ \E k : kind' = [kind EXCEPT ![r] = k]
      BY <1>2 DEF Begins, Send, Regenerate, ChatCreated
    <2> QED
      BY <1>2, <2>1, <2>2 DEF TypeOK
  <1>3. ASSUME NEW r \in Runs, SendNew(r), q # r
        PROVE  pc'[q] = pc[q] /\ kind'[q] = kind[q]
    BY <1>3 DEF SendNew, Goto, TypeOK
  <1>4. ASSUME NEW r \in Runs, RegenerateForgets(r) \/ CreateFails(r)
        PROVE  /\ kind'[q] = kind[q]
               /\ \/ pc'[q] = pc[q]
                  \/ pc'[q] = "ended"
                        /\ (pc[q] # "streaming" \/ "broken" \in lapses')
    <2>1. /\ pc' = [pc EXCEPT ![r] = "ended"] /\ UNCHANGED kind
          /\ pc[r] # "streaming"
      BY <1>4 DEF RegenerateForgets, MayRegenerate, CreateFails, Goto
    <2> QED
      BY <2>1 DEF TypeOK
  <1>5. ASSUME NEW r \in Runs, StreamEnds(r) \/ StreamFails(r)
        PROVE  /\ kind'[q] = kind[q]
               /\ \/ pc'[q] = pc[q]
                  \/ pc'[q] = "ended"
                        /\ (pc[q] # "streaming" \/ "broken" \in lapses')
    <2>1. /\ pc' = [pc EXCEPT ![r] = "ended"] /\ UNCHANGED kind
          /\ pc[r] = "closing" \/ "broken" \in lapses'
      BY <1>5 DEF StreamEnds, StreamFails, Finish, Goto, Note
    <2> QED
      BY <2>1 DEF TypeOK
  <1>6. ASSUME NEW r \in Runs, Delta(r)
        PROVE  pc'[q] = pc[q] /\ kind'[q] = kind[q]
    BY <1>6 DEF Delta, callVars
  <1>7. ASSUME NEW r \in Runs, Done(r) \/ ErrorEvent(r)
        PROVE  /\ kind'[q] = kind[q]
               /\ \/ pc'[q] = pc[q]
                  \/ q = r /\ pc[q] = "streaming" /\ pc'[q] = "closing"
    <2>1. /\ pc' = [pc EXCEPT ![r] = "closing"] /\ UNCHANGED kind
          /\ pc[r] = "streaming"
      BY <1>7 DEF Done, ErrorEvent, Goto
    <2> QED
      BY <2>1 DEF TypeOK
  <1>8. CASE Cancel
    BY <1>8 DEF Cancel, Note
  <1> QED
    BY <1>1, <1>2, <1>3, <1>4, <1>5, <1>6, <1>7, <1>8
    DEF Next, UserStep, RunStep, Aside, Begins

LEMMA AtHomeKept ==
    ASSUME TypeOK, TypeOK', Stream, Loader, Filled, Placed, AtHome,
           [Next]_vars
    PROVE  AtHome'
  <1> USE ChatPageAssumption
  <1> SUFFICES ASSUME "strayed" \notin lapses'
               PROVE
        /\ \A r \in Runs : Streaming(r)' => route' # None /\ chat'[r] = route'
        /\ \A r \in Runs : pc'[r] = "creating" => route' = None
        /\ route' = None => messages' = <<>>
        /\ \A r \in pendingFrom' : chat'[r] = route'
        /\ ~loading' /\ ~error' =>
                \A r \in Authors(messages') : chat'[r] = route'
    <2>1. Authors(messages)' = Authors(messages')
      BY DEF Authors
    <2> QED
      BY <2>1 DEF AtHome, Noted
  <1>1. \A q \in Runs : Begun(q) => Begun(q)' /\ chat'[q] = chat[q]
    BY BegunStays
  <1>2. CASE Moves
    <2>1. UNCHANGED <<pc, chat, pendingOf, pendingFrom>>
      <3>1. Aside
        BY <1>2 DEF Moves, Aside
      <3> QED
        BY <3>1, AsideEffect DEF callVars, streamVars, pendingVars
    <2>2. ASSUME NEW c \in Chats \cup {None}, Open(c)
          PROVE  Quiet
      BY <2>2 DEF Open
    <2>3. CASE HistoryNotFound
      <3>1. Quiet
        BY <2>3 DEF HistoryNotFound, NoteIf, Note
      <3> QED
        BY <2>1, <2>3, <3>1, QuietStream, NoMessages
        DEF HistoryNotFound, Quiet, Live, Streaming
    <2>4. ASSUME NEW c \in Chats \cup {None}, Open(c)
          PROVE  /\ \A r \in Runs : ~Streaming(r)' /\ pc'[r] # "creating"
                 /\ pendingFrom' = {}
                 /\ messages' = <<>> \/ (loading' /\ route' # None)
      <3>1. messages' = <<>> \/ (loading' /\ route' # None)
        BY <2>4 DEF Open, LoadHistory
      <3> QED
        BY <2>1, <2>2, <2>4, <3>1, QuietStream DEF Quiet, Live, Streaming
    <2>5. CASE Retry \/ HistoryRead \/ HistoryFails
      <3>1. /\ UNCHANGED <<route, messages>> /\ lapses \subseteq lapses'
            /\ loading' \/ error'
        <4>1. CASE Retry
          BY <4>1 DEF Retry, LoadHistory, NoteIf, Note
        <4>2. CASE HistoryRead
          BY <4>2 DEF HistoryRead, NoteIf, Note, Loader
        <4>3. CASE HistoryFails
          BY <4>3 DEF HistoryFails
        <4> QED
          BY <2>5, <4>1, <4>2, <4>3
      <3> QED
        BY <2>1, <3>1 DEF AtHome, Noted, Streaming
    <2>6. CASE ShowHistory
      <3>1. /\ UNCHANGED <<route, lapses>> /\ messages' = page
            /\ route # None
        BY <2>6 DEF ShowHistory, Loader
      <3> QED
        BY <2>1, <3>1 DEF AtHome, Noted, Streaming, Placed
    <2> QED
      BY <1>2, <2>3, <2>4, <2>5, <2>6, NoMessages DEF Moves, LoaderStep
  <1>3. ASSUME NEW r \in Runs, ChatCreated(r)
        PROVE  AtHome'
    <2>1. PICK c \in Chats \ made :
            /\ route' = c
            /\ BeginStream(r, c, Append(messages, Question(r)))
      BY <1>3 DEF ChatCreated
    <2>2. /\ pc[r] = "creating" /\ lapses \subseteq lapses'
          /\ \A q \in Runs \ {r} : ~Live(q)
      BY <1>3 DEF ChatCreated, Note
    <2>3. messages = <<>>
      BY <2>2 DEF AtHome, Noted
    <2>4. /\ pc' = [pc EXCEPT ![r] = "streaming"]
          /\ chat' = [chat EXCEPT ![r] = c] /\ pendingFrom' = {}
          /\ messages' = Append(messages, Question(r))
      BY <2>1 DEF BeginStream, Goto
    <2>5. Authors(messages') = {r}
      <3>1. Question(r) \in Message /\ Question(r).by = {r}
        BY DEF Question, Message
      <3>2. messages \in Seq(Message)
        BY DEF TypeOK
      <3>3. Authors(messages') = Authors(messages) \cup {r}
        BY <2>4, <3>1, <3>2, Appended
      <3>4. Authors(messages) = {}
        BY <2>3, NoMessages
      <3> QED
        BY <3>3, <3>4
    <2>6. Authors(messages)' = Authors(messages')
      BY DEF Authors
    <2> QED
      BY <2>1, <2>2, <2>4, <2>5, <2>6
      DEF AtHome, Noted, Live, Streaming, TypeOK
  <1>4. CASE ~Moves /\ \A r \in Runs : ~ChatCreated(r)
    <2>1. /\ UNCHANGED <<route, loading, error>> /\ lapses \subseteq lapses'
      BY <1>4, ElseStays
    <2>2. "strayed" \notin lapses
      BY <2>1
    <2>3. ASSUME NEW q \in Runs, Streaming(q)'
          PROVE  route # None /\ chat'[q] = route
      <3>1. CASE Streaming(q)
        BY <1>1, <2>2, <3>1 DEF AtHome, Noted, Begun, Streaming
      <3>2. CASE ~Streaming(q)
        <4>1. Send(q) \/ Regenerate(q)
          BY <1>4, <2>3, <3>2, CallMoves
          DEF Begins, SendNew, Goto, TypeOK, Streaming
        <4> QED
          BY <4>1
          DEF Send, Regenerate, MayRegenerate, BeginStream, TypeOK
      <3> QED
        BY <3>1, <3>2
    <2>4. ASSUME NEW q \in Runs, pc'[q] = "creating"
          PROVE  route = None
      <3>1. CASE pc[q] = "creating"
        BY <2>2, <3>1 DEF AtHome, Noted
      <3>2. CASE pc[q] # "creating"
        <4>1. SendNew(q)
          <5>1. Begins(q) => pc' = [pc EXCEPT ![q] = "streaming"]
            BY BeginEffect DEF BeginStream, Goto
          <5>2. ~Begins(q)
            BY <2>4, <5>1 DEF TypeOK
          <5> QED
            BY <2>4, <3>2, <5>2, CallMoves
        <4> QED
          BY <4>1 DEF SendNew
      <3> QED
        BY <3>1, <3>2
    <2>5. ASSUME NEW q \in pendingFrom'
          PROVE  chat'[q] = route
      <3>1. q \in Runs
        BY <2>5 DEF TypeOK
      <3>2. Begun(q) /\ chat[q] = route
        BY <2>2, <2>5, <3>1, PendingChange
        DEF AtHome, Noted, Placed, Begun, Streaming
      <3> QED
        BY <1>1, <3>1, <3>2
    <2>6. ASSUME route = None
          PROVE  messages' = <<>>
      <3>1. messages = <<>>
        BY <2>2, <2>6 DEF AtHome, Noted
      <3>2. ASSUME NEW r \in Runs
            PROVE  ~Send(r) /\ ~StreamEnds(r)
                   /\ ~Regenerate(r) /\ ~RegenerateForgets(r)
        BY <2>2, <2>6, <3>2
        DEF AtHome, Noted, Streaming, Send, StreamEnds, Regenerate,
            RegenerateForgets, MayRegenerate
      <3> QED
        BY <1>4, <3>1, <3>2, MessagesChange DEF Moves, LoaderStep
    <2>7. ASSUME ~loading', ~error', NEW q \in Authors(messages')
          PROVE  chat'[q] = route
      <3>1. q \in Runs
        BY <2>7 DEF Authors
      <3>2. CASE q \in Authors(messages) \/ q \in pendingFrom
        <4>1. Begun(q) /\ chat[q] = route
          BY <2>1, <2>2, <2>7, <3>2 DEF AtHome, Noted, Placed
        <4> QED
          BY <1>1, <3>1, <4>1
      <3>3. CASE Send(q)
        BY <3>1, <3>3 DEF Send, BeginStream, TypeOK
      <3> QED
        BY <1>4, <2>7, <3>1, <3>2, <3>3, AuthorsChange DEF Moves, LoaderStep
    <2> QED
      BY <2>1, <2>3, <2>4, <2>5, <2>6, <2>7
  <1>5. ASSUME AtHome'
        PROVE
        /\ \A r \in Runs : Streaming(r)' => route' # None /\ chat'[r] = route'
        /\ \A r \in Runs : pc'[r] = "creating" => route' = None
        /\ route' = None => messages' = <<>>
        /\ \A r \in pendingFrom' : chat'[r] = route'
        /\ ~loading' /\ ~error' =>
                \A r \in Authors(messages') : chat'[r] = route'
    <2>1. Authors(messages)' = Authors(messages')
      BY DEF Authors
    <2> QED
      BY <1>5, <2>1 DEF AtHome, Noted
  <1> QED
    BY <1>2, <1>3, <1>4, <1>5

\* While a call streams nobody else does, and the composer is locked.
LEMMA Locked ==
    ASSUME Stream, OneStream, ~Noted("overlap"), NEW q \in Runs, Streaming(q)
    PROVE  /\ busy /\ pendingOf = q
           /\ \A r \in Runs : Live(r) => r = q
           /\ \A r \in Runs :
                /\ ~Send(r) /\ ~SendNew(r)
                /\ ~Regenerate(r) /\ ~RegenerateForgets(r)
  <1>1. pendingOf = q /\ busy /\ \A r \in Runs : Live(r) => r = q
    BY ChatPageAssumption DEF OneStream, Stream, Live
  <1> QED
    BY <1>1
    DEF Send, SendNew, Regenerate, RegenerateForgets, MayRegenerate

LEMMA AskedKept ==
    ASSUME TypeOK, Stream, OneStream, Loader, AtHome, Asked, [Next]_vars
    PROVE  Asked'
  <1> DEFINE Has(q, s) == \E i \in DOMAIN s : s[i] = Question(q)
  <1> SUFFICES ASSUME lapses' \cap Hidden = {}, NEW q \in Runs,
                      Streaming(q)', kind'[q] # "regenerate"
               PROVE  fetch' = "none" /\ ~error' /\ Has(q, messages')
    BY DEF Asked, Question, Hidden
  <1>1. messages \in Seq(Message) /\ pendingFrom \in SUBSET Runs
    BY DEF TypeOK
  <1>2. ASSUME NEW r \in Runs
        PROVE  LET s == Append(messages, Question(r))
               IN  Has(r, s) /\ (Has(q, messages) => Has(q, s))
    <2>1. Question(r) \in Message
      BY <1>1, MessagesAre
    <2> QED
      BY <1>1, <2>1, Appended
  <1>3. CASE Moves
    <2>1. Streaming(q) /\ kind[q] # "regenerate" /\ ~Quiet
      <3>1. Aside
        BY <1>3 DEF Moves, Aside
      <3> QED
        BY <3>1, AsideEffect DEF callVars, Streaming, Quiet, Live
    <2>2. /\ \A c \in Chats \cup {None} : ~Open(c)
          /\ ~Retry /\ ~HistoryNotFound
      BY <2>1
      DEF Open, Retry, HistoryNotFound, NoteIf, Note, Hidden
    <2>3. LoaderStep /\ lapses \subseteq lapses' /\ fetch # "none"
      BY <1>3, <2>2
      DEF Moves, LoaderStep, HistoryRead, ShowHistory, HistoryFails, NoteIf,
          Note
    <2> QED
      BY <2>1, <2>3 DEF Asked
  <1>4. CASE ~Moves
    <2>1. UNCHANGED error /\ lapses \subseteq lapses'
      BY <1>4, ElseStays
    <2>2. lapses \cap Hidden = {} /\ ~Noted("overlap") /\ ~Noted("strayed")
      BY <2>1 DEF Hidden, Noted
    <2>3. CASE Send(q)
      <3>1. messages' = Append(messages, Question(q)) /\ fetch' = fetch
        BY <2>3 DEF Send, BeginStream
      <3>2. fetch = "none" /\ ~error
        BY <2>3 DEF Send, Note, Clashes, Hidden
      <3> QED
        BY <1>2, <2>1, <3>1, <3>2
    <2>4. CASE ChatCreated(q)
      <3>1. messages' = Append(messages, Question(q)) /\ fetch' = "none"
        BY <2>4 DEF ChatCreated, BeginStream, SkipHistory
      <3>2. ~error
        BY <2>2, <2>4 DEF ChatCreated, AtHome, Loader
      <3> QED
        BY <1>2, <2>1, <3>1, <3>2
    <2>5. ~Regenerate(q) /\ ~SendNew(q)
      BY DEF Regenerate, SendNew, Goto, TypeOK, Streaming
    <2>6. CASE Streaming(q) /\ kind[q] # "regenerate"
      <3>1. fetch = "none" /\ ~error /\ Has(q, messages)
        BY <2>2, <2>6 DEF Asked
      <3>2. fetch' = "none"
        BY <1>4, <3>1, ElseStays DEF ChatCreated, SkipHistory
      <3>3. Has(q, Append(messages, Answer(pendingFrom)))
        <4>1. Answer(pendingFrom) \in Message
          BY <1>1 DEF Answer, Message
        <4> QED
          BY <1>1, <3>1, <4>1, Appended
      <3>4. Has(q, messages')
        <4> HIDE DEF Has
        <4> QED
          BY <1>2, <1>4, <2>2, <2>6, <3>1, <3>3, Locked, MessagesChange
          DEF Moves, LoaderStep
      <3> QED
        BY <2>1, <3>1, <3>2, <3>4
    <2> QED
      BY <2>3, <2>4, <2>5, <2>6, CallMoves DEF Begins, Streaming
  <1> QED
    BY <1>3, <1>4

LEMMA ServedKept ==
    ASSUME TypeOK, Served, [Next]_vars
    PROVE  Served'
  <1> DEFINE Fits(g, p) ==
                /\ g \in {"sent", "prompted"} => p = "streaming"
                /\ p \in {"streaming", "closing"}
                        => g \in {"sent", "prompted", "answered"}
                /\ p = "closing" => g = "answered"
  <1> SUFFICES ASSUME "broken" \notin lapses', NEW q \in Runs
               PROVE  Fits(got'[q], pc'[q])
    BY DEF Served, Noted, Streaming
  <1>1. ASSUME "broken" \notin lapses
        PROVE  Fits(got[q], pc[q])
    BY <1>1 DEF Served, Noted, Streaming
  <1>2. CASE UNCHANGED vars
    BY <1>1, <1>2 DEF vars, callVars, serverVars
  <1>3. ASSUME NEW r \in Runs, ServerStep(r)
        PROVE  Fits(got'[q], pc'[q])
    <2>1. UNCHANGED pc
      BY <1>3, AsideEffect DEF Aside, callVars
    <2>2. /\ lapses' = lapses
          /\ \/ got[r] = "sent" /\ got' = [got EXCEPT ![r] = "prompted"]
             \/ got[r] = "prompted" /\ got' = [got EXCEPT ![r] = "answered"]
      BY <1>3
      DEF ServerStep, ServerPrompts, ServerAnswers, ServerFails, Note
    <2>3. pc[r] = "streaming"
      BY <2>2 DEF Served, Noted
    <2>4. CASE q = r
      BY <2>1, <2>2, <2>3, <2>4 DEF TypeOK
    <2>5. CASE q # r
      <3>1. got'[q] = got[q]
        BY <2>2, <2>5 DEF TypeOK
      <3> QED
        BY <1>1, <2>1, <2>2, <3>1
    <2> QED
      BY <2>4, <2>5
  <1>4. CASE Moves
    <2>1. Aside
      BY <1>4 DEF Moves, Aside
    <2>2. UNCHANGED <<pc, got>>
      <3>1. UNCHANGED got
        BY <1>4
        DEF Moves, Open, Retry, LoaderStep, HistoryRead, ShowHistory,
            HistoryFails, HistoryNotFound, serverVars
      <3> QED
        BY <2>1, <3>1, AsideEffect DEF callVars
    <2>3. CASE Quiet
      BY <2>2, <2>3 DEF Quiet, Live, Streaming
    <2>4. CASE lapses \subseteq lapses'
      BY <1>1, <2>2, <2>4
    <2> QED
      BY <2>1, <2>3, <2>4, AsideEffect
  <1>5. ASSUME NEW r \in Runs, Begins(r)
        PROVE  Fits(got'[q], pc'[q])
    <2>1. /\ pc' = [pc EXCEPT ![r] = "streaming"]
          /\ got' = [got EXCEPT ![r] = "sent"]
          /\ lapses \subseteq lapses'
      BY <1>5, BeginEffect DEF BeginStream, Goto
    <2> QED
      BY <1>1, <2>1 DEF TypeOK
  <1>6. ASSUME Next, ~Aside, \A r \in Runs : ~Begins(r)
        PROVE  Fits(got'[q], pc'[q])
    <2>1. UNCHANGED got /\ Fits(got[q], pc[q])
      BY <1>1, <1>6, TablesStay, LapsesStay DEF Aside
    <2>2. SendNew(q) => pc[q] = "idle" /\ pc'[q] = "creating"
      BY DEF SendNew, Goto, TypeOK
    <2>3. Done(q) \/ ErrorEvent(q) => got[q] \in {"answered", "failed"}
      BY DEF Done, ErrorEvent
    <2> QED
      BY <1>6, <2>1, <2>2, <2>3, CallMoves
  <1> QED
    BY <1>2, <1>3, <1>4, <1>5, <1>6 DEF Aside, Moves

LEMMA WaitsKept ==
    ASSUME TypeOK, Waits, [Next]_vars
    PROVE  Waits'
  <1> SUFFICES ASSUME NEW q \in Runs, pc'[q] = "creating"
               PROVE  kind'[q] = "new"
    BY DEF Waits
  <1>1. CASE SendNew(q)
    BY <1>1 DEF SendNew, TypeOK
  <1>2. ~Begins(q)
    <2>1. Begins(q) => pc' = [pc EXCEPT ![q] = "streaming"]
      BY BeginEffect DEF BeginStream, Goto
    <2> QED
      BY <2>1 DEF TypeOK
  <1> QED
    BY <1>1, <1>2, CallMoves DEF Waits

\* The one call whose stream is on the page, when nothing went wrong.
LEMMA UnderWay ==
    ASSUME TypeOK, Stream, OneStream, AtHome, InStep, lapses = {},
           NEW r \in Runs, Streaming(r)
    PROVE  /\ fetch = "none" /\ ~error /\ route \in Chats /\ chat[r] = route
           /\ pendingOf = r /\ \A q \in Runs : Live(q) => q = r
           /\ Follows(r, store[route])
  <1>1. route \in Chats /\ route # None /\ chat[r] = route
    BY DEF AtHome, Noted, TypeOK
  <1>2. pendingOf = r /\ \A q \in Runs : Live(q) => q = r
    BY Locked DEF Noted
  <1>3. fetch = "none" /\ ~error
    BY DEF InStep, Quiet, Live
  <1> QED
    BY <1>1, <1>2, <1>3 DEF InStep

\* A step that leaves one stream.
LEMMA StillFollows ==
    ASSUME NEW r \in Runs, fetch' = "none", ~error',
           \A q \in Runs : Streaming(q)' => q = r, Streaming(r)',
           Follows(r, store[route])'
    PROVE  InStep'
  BY DEF InStep

\* Steps that move the page keep it in step with the server.
LEMMA MovesInStep ==
    ASSUME TypeOK, Loader, InStep, Moves
    PROVE  InStep'
  <1>1. UNCHANGED <<pc, got, store>>
    <2>1. Aside
      BY DEF Moves, Aside
    <2>2. UNCHANGED <<got, store>>
      BY DEF Moves, Open, Retry, LoaderStep, HistoryRead, ShowHistory,
             HistoryFails, HistoryNotFound, serverVars
    <2> QED
      BY <2>1, <2>2, AsideEffect DEF callVars
  <1>2. Quiet' <=> Quiet
    BY <1>1 DEF Quiet, Live, Streaming
  <1> SUFFICES ASSUME lapses' = {}
               PROVE  InStep'
    BY DEF InStep
  <1>3. ASSUME NEW c \in Chats \cup {None}, Open(c)
        PROVE  InStep'
    <2>1. Quiet /\ ~error' /\ fetch' # "answered"
          /\ (route' # None => fetch' # "none")
      BY <1>3 DEF Open, LoadHistory
    <2> QED
      BY <1>2, <2>1 DEF InStep
  <1>4. CASE Retry
    <2>1. Quiet /\ fetch' = "asked"
      BY <1>4 DEF Retry, LoadHistory, NoteIf, Note
    <2> QED
      BY <1>2, <2>1 DEF InStep
  <1>5. CASE HistoryRead
    <2> DEFINE all == store[route]
               rows == IF Len(all) > PageLimit THEN PageLimit ELSE Len(all)
    <2>1. /\ all \in Seq(Message) /\ Len(all) \in Nat
          /\ PageLimit \in Nat /\ lapses = {}
          /\ ~(Len(all) > PageLimit)
      BY <1>5, LenProperties, ChatPageAssumption
      DEF HistoryRead, Loader, TypeOK, NoteIf, Note
    <2>2. rows = Len(all) /\ Len(all) - rows + 1 = 1
      BY <2>1
    <2>3. SubSeq(all, 1, Len(all)) = all
      <3> HIDE DEF all
      <3> QED
        BY <2>1, SubSeqFull
    <2>4. page' = all
      <3>1. \/ page' = SubSeq(all, 1, rows)
            \/ page' = SubSeq(all, Len(all) - rows + 1, Len(all))
        BY <1>5 DEF HistoryRead
      <3> HIDE DEF all, rows
      <3> QED
        BY <2>2, <2>3, <3>1
    <2>5. /\ Quiet /\ fetch' = "answered" /\ route' = route
      BY <1>5, <2>1 DEF HistoryRead, InStep
    <2> QED
      BY <1>1, <1>2, <2>4, <2>5 DEF InStep
  <1>6. CASE ShowHistory
    <2>1. /\ lapses = {} /\ fetch = "answered" /\ fetch' = "none"
          /\ messages' = page /\ UNCHANGED <<route, error>>
      BY <1>6 DEF ShowHistory
    <2>2. Quiet /\ page = store[route] /\ ~error
      BY <2>1 DEF InStep, Loader
    <2>3. \A r \in Runs : ~Streaming(r)'
      BY <1>2, <2>2 DEF Quiet, Live
    <2> QED
      BY <1>1, <2>1, <2>2, <2>3 DEF InStep
  <1>7. CASE HistoryFails
    <2>1. lapses = {} /\ fetch # "none" /\ fetch' = "none" /\ error'
      BY <1>7 DEF HistoryFails
    <2>2. Quiet
      BY <2>1 DEF InStep
    <2> QED
      BY <1>2, <2>1, <2>2 DEF InStep
  <1>8. CASE HistoryNotFound
    BY <1>8 DEF HistoryNotFound, InStep
  <1> QED
    BY <1>3, <1>4, <1>5, <1>6, <1>7, <1>8 DEF Moves, LoaderStep

\* So do the steps of the server.
LEMMA ServerInStep ==
    ASSUME TypeOK, Stream, OneStream, AtHome, Served, InStep,
           NEW r \in Runs, ServerStep(r)
    PROVE  InStep'
  <1> DEFINE s == store[route]
  <1> SUFFICES ASSUME lapses' = {}
               PROVE  InStep'
    BY DEF InStep
  <1>1. /\ UNCHANGED <<route, historyVars, streamVars, callVars, lapses>>
        /\ ServerPrompts(r) \/ ServerAnswers(r)
    BY DEF ServerStep, ServerPrompts, ServerAnswers, ServerFails, Note
  <1>2. lapses = {} /\ pc[r] = "streaming" /\ Streaming(r)
    BY <1>1
    DEF Served, Noted, ServerPrompts, ServerAnswers, Streaming
  <1>3. /\ fetch = "none" /\ ~error /\ route \in Chats /\ chat[r] = route
        /\ \A q \in Runs : Live(q) => q = r
        /\ Follows(r, s)
    BY <1>2, UnderWay
  <1>4. /\ fetch' = "none" /\ ~error' /\ Streaming(r)'
        /\ \A q \in Runs : Streaming(q)' => q = r
        /\ messages' = messages /\ pc'[r] = "streaming" /\ kind' = kind
        /\ route' = route
    BY <1>1, <1>2, <1>3
    DEF historyVars, callVars, Streaming, Live
  <1>5. CASE ServerPrompts(r)
    <2>1. got'[r] = "prompted" /\ got[r] = "sent"
      BY <1>5 DEF ServerPrompts, TypeOK
    <2>2. store'[route] = IF kind[r] = "regenerate"
                          THEN SubSeq(s, 1, LastOf("user", s))
                          ELSE Append(s, Question(r))
      BY <1>3, <1>5 DEF ServerPrompts, TypeOK
    <2>3. messages = store'[route]
      BY <1>3, <2>1, <2>2 DEF Follows
    <2>4. Follows(r, store[route])'
      BY <1>4, <2>1, <2>3 DEF Follows
    <2> QED
      BY <1>4, <2>4, StillFollows
  <1>6. CASE ServerAnswers(r)
    <2>1. got'[r] = "answered" /\ got[r] = "prompted"
      BY <1>6 DEF ServerAnswers, TypeOK
    <2>2. store'[route] = Append(s, Answer({r}))
      BY <1>3, <1>6 DEF ServerAnswers, TypeOK
    <2>3. messages = s
      BY <1>3, <2>1 DEF Follows
    <2>4. Follows(r, store[route])'
      BY <1>4, <2>1, <2>2, <2>3 DEF Follows, Answer
    <2> QED
      BY <1>4, <2>4, StillFollows
  <1> QED
    BY <1>1, <1>5, <1>6

\* And a call that begins.
LEMMA BeginsInStep ==
    ASSUME TypeOK, Stream, OneStream, Loader, Filled, AtHome, Waits, InStep,
           NEW r \in Runs, Begins(r)
    PROVE  InStep'
  <1> USE ChatPageAssumption
  <1> SUFFICES ASSUME lapses' = {}
               PROVE  InStep'
    BY DEF InStep
  <1>1. /\ lapses = {}
        /\ pc' = [pc EXCEPT ![r] = "streaming"]
        /\ got' = [got EXCEPT ![r] = "sent"]
    BY BeginEffect DEF BeginStream, Goto
  <1>2. \A q \in Runs : ~Streaming(q)
    <2>1. CASE busy
      BY <1>1, <2>1, BeginEffect
      DEF OneStream, Stream, Noted, Live, Streaming
    <2>2. CASE ~busy
      BY <1>1, <2>2 DEF OneStream, Stream, Noted
    <2> QED
      BY <2>1, <2>2
  <1>3. /\ got'[r] = "sent" /\ pc'[r] = "streaming" /\ Streaming(r)'
        /\ \A q \in Runs : Streaming(q)' => q = r
    BY <1>1, <1>2 DEF TypeOK, Streaming
  <1>4. CASE Send(r)
    <2>1. /\ fetch = "none" /\ ~error /\ route # None
          /\ UNCHANGED <<fetch, error, route, store>>
          /\ kind'[r] = "send"
          /\ messages' = Append(messages, Question(r))
      BY <1>4 DEF Send, Note, Clashes, BeginStream, TypeOK
    <2>2. messages = store[route]
      BY <1>1, <1>2, <2>1 DEF InStep
    <2>3. Follows(r, store[route])'
      BY <1>3, <2>1, <2>2 DEF Follows, Question
    <2> QED
      BY <1>3, <2>1, <2>3, StillFollows
  <1>5. CASE Regenerate(r)
    <2>1. /\ fetch = "none" /\ ~error /\ route # None
          /\ UNCHANGED <<fetch, error, route, store>>
          /\ kind'[r] = "regenerate"
          /\ messages' = WithoutLastAnswer /\ DropsTheSame
          /\ LastAnswer # 0
      BY <1>5
      DEF Regenerate, MayRegenerate, Note, Clashes, BeginStream, TypeOK
    <2>2. messages = store[route]
      BY <1>1, <1>2, <2>1 DEF InStep
    <2>3. messages' = SubSeq(messages, 1, LastOf("user", messages))
      BY <2>1, Dropped DEF TypeOK
    <2>4. messages' = SubSeq(store'[route'], 1, LastOf("user", store'[route']))
      BY <2>1, <2>2, <2>3
    <2>5. Follows(r, store[route])'
      BY <1>3, <2>1, <2>4 DEF Follows, LastOf
    <2> QED
      BY <1>3, <2>1, <2>5, StillFollows
  <1>6. CASE ChatCreated(r)
    <2>1. PICK c \in Chats \ made :
            /\ route' = c
            /\ BeginStream(r, c, Append(messages, Question(r)))
      BY <1>6 DEF ChatCreated
    <2>2. /\ pc[r] = "creating" /\ fetch' = "none"
          /\ UNCHANGED <<error, kind, store>>
      BY <1>6 DEF ChatCreated, SkipHistory
    <2>3. route = None /\ messages = <<>> /\ kind[r] = "new"
      BY <1>1, <2>2 DEF AtHome, Noted, Waits
    <2>4. ~error /\ store[c] = <<>>
      BY <2>3 DEF Loader, Filled
    <2>5. messages' = Append(messages, Question(r))
      BY <2>1 DEF BeginStream
    <2>6. Follows(r, store[route])'
      BY <1>3, <2>1, <2>2, <2>3, <2>4, <2>5 DEF Follows, Question
    <2> QED
      BY <1>3, <2>2, <2>4, <2>6, StillFollows
  <1> QED
    BY <1>4, <1>5, <1>6 DEF Begins

\* And what is left: the calls that wait, go on and end.
LEMMA CallsInStep ==
    ASSUME TypeOK, Stream, OneStream, Loader, AtHome, Served, InStep,
           Next, ~Moves, \A r \in Runs : ~ServerStep(r) /\ ~Begins(r)
    PROVE  InStep'
  <1> USE ChatPageAssumption
  <1> SUFFICES ASSUME lapses' = {}
               PROVE  InStep'
    BY DEF InStep
  <1>1. /\ lapses = {} /\ UNCHANGED <<route, error, fetch, page, got, store>>
    BY ElseStays, TablesStay DEF Begins
  <1>2. ASSUME NEW r \in Runs, SendNew(r) \/ CreateFails(r)
        PROVE  InStep'
    <2>1. route = None /\ fetch = "none" /\ ~error
      BY <1>1, <1>2 DEF SendNew, CreateFails, AtHome, Noted, Loader
    <2> QED
      BY <1>1, <2>1 DEF InStep
  <1>3. ASSUME NEW r \in Runs, Delta(r) \/ Done(r)
        PROVE  InStep'
    <2>1. Streaming(r) /\ UNCHANGED <<messages, kind, chat>>
      BY <1>3 DEF Delta, Done, Streaming, historyVars, callVars
    <2>2. /\ fetch = "none" /\ ~error /\ pendingOf = r
          /\ \A q \in Runs : Live(q) => q = r
          /\ Follows(r, store[route])
      BY <1>1, <2>1, UnderWay
    <2>3. /\ Streaming(r)'
          /\ pc'[r] = "closing" => pendingFrom' = {r}
          /\ \A q \in Runs : Streaming(q)' => Streaming(q)
      BY <1>3, <2>2 DEF Delta, Done, Goto, Streaming, TypeOK, callVars
    <2>4. Follows(r, store[route])'
      BY <1>1, <2>1, <2>2, <2>3 DEF Follows
    <2> QED
      BY <1>1, <2>2, <2>3, <2>4, StillFollows DEF Live
  <1>4. ASSUME NEW r \in Runs, ErrorEvent(r)
        PROVE  FALSE
    BY <1>1, <1>4 DEF ErrorEvent, Served, Noted, Streaming
  <1>5. ASSUME NEW r \in Runs, StreamEnds(r)
        PROVE  InStep'
    <2>1. pc[r] = "closing" /\ Streaming(r) /\ got[r] = "answered"
      BY <1>1, <1>5 DEF StreamEnds, Streaming, Served, Noted
    <2>2. /\ fetch = "none" /\ ~error
          /\ \A q \in Runs : Live(q) => q = r
          /\ Follows(r, store[route])
      BY <1>1, <2>1, UnderWay
    <2>3. /\ messages' = Append(messages, Answer(pendingFrom))
          /\ pendingFrom = {r}
      BY <1>5, <2>1, <2>2 DEF Follows, StreamEnds
    <2>4. messages' = store'[route']
      BY <1>1, <2>1, <2>2, <2>3 DEF Follows
    <2>5. \A q \in Runs : ~Streaming(q)'
      BY <1>5, <2>2 DEF StreamEnds, Finish, Goto, Streaming, Live, TypeOK
    <2> QED
      BY <1>1, <2>2, <2>4, <2>5 DEF InStep
  <1>6. ~Cancel /\ \A r \in Runs : ~StreamFails(r) /\ ~RegenerateForgets(r)
    BY DEF Cancel, StreamFails, RegenerateForgets, Note
  <1> QED
    BY <1>2, <1>3, <1>4, <1>5, <1>6
    DEF Next, UserStep, RunStep, Moves, Begins

LEMMA InStepKept ==
    ASSUME PageInv, [Next]_vars
    PROVE  InStep'
  <1> USE DEF PageInv
  <1>1. CASE UNCHANGED vars
    BY <1>1
    DEF InStep, Follows, Quiet, Live, Streaming, vars, historyVars, callVars,
        serverVars, streamVars, pendingVars
  <1> QED
    BY <1>1, MovesInStep, ServerInStep, BeginsInStep, CallsInStep

-----------------------------------------------------------------------------
(* The invariant, and what it gives.                                       *)

LEMMA PageInit == Init => PageInv
  <1> USE ChatPageAssumption
  <1> SUFFICES ASSUME Init
               PROVE  PageInv
    OBVIOUS
  <1> DEFINE s == <<Question(Earlier), Answer({Earlier})>>
  <1>1. /\ s \in Seq(Message) /\ Single(s) /\ Authors(s) = {Earlier}
        /\ <<>> \in Seq(Message) /\ Single(<<>>) /\ Authors(<<>>) = {}
    <2>1. /\ Question(Earlier) \in Message /\ Question(Earlier).by = {Earlier}
          /\ Answer({Earlier}) \in Message /\ Answer({Earlier}).by = {Earlier}
      BY DEF Question, Answer, Message
    <2>2. /\ s \in Seq(Message) /\ DOMAIN s = {1, 2}
          /\ s[1].by = {Earlier} /\ s[2].by = {Earlier}
      BY <2>1
    <2> HIDE DEF s
    <2>3. Single(s) /\ Authors(s) = {Earlier}
      BY <2>2, Earlier \in Runs DEF Single, Authors
    <2> QED
      BY <2>2, <2>3, NoMessages, EmptySeq
  <1>2. /\ store \in [Chats -> Seq(Message)] /\ store[FirstChat] = s
        /\ \A c \in Chats \ {FirstChat} : store[c] = <<>>
    BY <1>1 DEF Init
  <1> HIDE DEF s
  <1>3. TypeOK
    BY <1>1, <1>2 DEF Init, TypeOK, Kinds, Lapses
  <1>4. \A r \in Runs : ~Live(r) /\ got[r] \in {"none", "answered"}
    BY DEF Init, Live, Streaming
  <1>5. Stream /\ OneStream /\ Loader /\ AtHome /\ Waits /\ Asked /\ Served
    BY <1>1, <1>4
    DEF Init, Stream, OneStream, Loader, AtHome, Waits, Asked, Served, Live,
        Streaming, Noted
  <1>6. Unmixed
    BY <1>1, <1>2 DEF Init, Unmixed
  <1>7. Filled /\ Placed
    <2>1. \A c \in Chats : \A r \in Authors(store[c]) :
                r = Earlier /\ c = FirstChat
      BY <1>1, <1>2
    <2> QED
      BY <1>1, <1>2, <1>4, <2>1, ZenonT(30)
      DEF Init, Filled, Placed, Begun, Live, Streaming
  <1>8. InStep
    BY DEF Init, InStep
  <1> QED
    BY <1>3, <1>5, <1>6, <1>7, <1>8 DEF PageInv

LEMMA PageStep == PageInv /\ [Next]_vars => PageInv'
  <1> SUFFICES ASSUME PageInv, [Next]_vars
               PROVE  PageInv'
    OBVIOUS
  <1>1. TypeOK'
    BY TypeStep DEF PageInv
  <1>2. /\ Stream' /\ OneStream' /\ Unmixed' /\ Loader' /\ Filled' /\ Placed'
        /\ AtHome' /\ Waits'
    BY <1>1, StreamKept, OneStreamKept, UnmixedKept, LoaderKept, FilledKept,
       PlacedKept, AtHomeKept, WaitsKept
    DEF PageInv
  <1>3. Asked' /\ Served' /\ InStep'
    BY AskedKept, ServedKept, InStepKept DEF PageInv
  <1> QED
    BY <1>1, <1>2, <1>3 DEF PageInv

\* The page, its calls and the tables stay as the invariant describes them,
\* whatever is opened, sent, created, stopped or answered, in whatever order.
THEOREM PageInvariant == Spec => []PageInv
  BY PageInit, PageStep, PTL DEF Spec

\* The type invariant of the page: in particular the lists on it stay lists of
\* messages through the cut of the server and the splice of handleRegenerate.
THEOREM PageTypes == Spec => []TypeOK
  <1>1. PageInv => TypeOK
    BY DEF PageInv
  <1> QED
    BY <1>1, PageInvariant, PTL

\* No answer is put together from two runs, for any number of runs: the one
\* buffer of useChatStream holds the deltas of the run that set it, unless a
\* call was made while another waited for its chat.
THEOREM AnswersStayApart == Spec => []AnswersAreNotMixed
  <1>1. ASSUME PageInv
        PROVE  AnswersAreNotMixed
    BY <1>1
    DEF PageInv, AnswersAreNotMixed, OneStream, Unmixed, Single, Shown, Noted
  <1> QED
    BY <1>1, PageInvariant, PTL

\* The page of a chat shows messages of that chat alone, for any number of
\* chats, unless the user moved on while a call was under way.
THEOREM OnePagePerChat == Spec => []OneChatOnThePage
  <1>1. ASSUME PageInv, "strayed" \notin lapses,
               NEW m \in Shown, NEW r \in m.by
        PROVE  chat[r] = route
    <2>1. PICK i \in DOMAIN messages : m = messages[i]
      BY <1>1 DEF Shown
    <2>2. ~loading /\ ~error
      BY <1>1 DEF Shown
    <2>3. r \in Runs
      <3>1. messages \in Seq(Message)
        BY <1>1 DEF PageInv, TypeOK
      <3>2. messages[i] \in Message
        BY <2>1, <3>1, ElementOfSeq, LenProperties
      <3> QED
        BY <1>1, <2>1, <3>2 DEF Message
    <2>4. r \in Authors(messages)
      BY <1>1, <2>1, <2>3 DEF Authors
    <2> QED
      BY <1>1, <2>2, <2>4 DEF PageInv, AtHome, Noted
  <1>2. PageInv => OneChatOnThePage
    BY <1>1 DEF OneChatOnThePage
  <1> QED
    BY <1>2, PageInvariant, PTL

\* What was sent stays on the page until it is answered, through the creation
\* of its chat and the change of route.
THEOREM QuestionsStay == Spec => []QuestionStaysShown
  <1>1. ASSUME PageInv, NEW r \in Runs, Streaming(r),
               kind[r] # "regenerate",
               lapses \cap {"strayed", "unloaded", "skeleton", "overlap"} = {}
        PROVE  Question(r) \in Shown
    <2>1. /\ fetch = "none" /\ ~error
          /\ \E i \in DOMAIN messages : messages[i] = Question(r)
      BY <1>1 DEF PageInv, Asked, Hidden
    <2>2. ~loading
      BY <1>1, <2>1 DEF PageInv, Loader, Noted
    <2>3. route # None
      BY <1>1 DEF PageInv, AtHome, Noted
    <2> QED
      BY <2>1, <2>2, <2>3 DEF Shown
  <1>2. PageInv => QuestionStaysShown
    BY <1>1 DEF QuestionStaysShown
  <1> QED
    BY <1>2, PageInvariant, PTL

\* When all is done and nothing went wrong since the chat was opened, the page
\* shows the conversation that the server has, however many calls led there.
THEOREM PagesAreHistories == Spec => []PageIsHistory
  <1>1. ASSUME PageInv, Quiet, lapses = {},
               route # None, fetch = "none", ~error
        PROVE  ~loading /\ messages = store[route]
    <2>1. \A r \in Runs : ~Streaming(r)
      BY <1>1 DEF Quiet, Live
    <2> QED
      BY <1>1, <2>1 DEF PageInv, InStep, Loader, Noted
  <1>2. PageInv => PageIsHistory
    BY <1>1 DEF PageIsHistory
  <1> QED
    BY <1>2, PageInvariant, PTL

=============================================================================
