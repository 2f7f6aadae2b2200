----------------------------- MODULE GatewayProofs -----------------------------
(***************************************************************************)
(* Gateway for any number of requests, processes and callers, any limits   *)
(* and any window: its types; that every counter in Redis expires but for  *)
(* the requests that were cut off, failed or counted twice; and what the   *)
(* rate limiter promises: the budget of a window holds, no refusal is      *)
(* unearned, and Retry-After is enough.                                    *)
(***************************************************************************)
EXTENDS Gateway, FiniteSetTheorems, TLAPS

-----------------------------------------------------------------------------
(* The inductive invariant.                                                *)

\* A request that asks Redis knows what it asks for and has no answer; one
\* that has not arrived has sent nothing.
Asking ==
    \A r \in Reqs :
        /\ req[r].stage \in {"incr", "counted"} =>
            /\ req[r].key \in Keys
            /\ req[r].route \in AllRoutes
            /\ req[r].verdict = None
        /\ req[r].stage = "idle" => ~req[r].resent

GatewayInv ==
    /\ TypeOK
    /\ Asking
    /\ CountersExpire

-----------------------------------------------------------------------------
(* Types.                                                                  *)

LEMMA WindowType ==
    ASSUME NEW t \in Times
    PROVE  WindowOf(t) \in Windows
  BY DEF Windows

LEMMA FirstWindow == 0 \in Windows
  <1>1. 0 \in Times /\ WindowOf(0) = 0
    BY GatewayAssumption DEF Times, WindowOf
  <1> QED
    BY <1>1, WindowType

LEMMA NoneApart ==
    /\ None \notin Keys /\ None \notin Servers /\ None \notin AllRoutes
    /\ None \notin Bucket
  BY GatewayAssumption DEF Bucket

LEMMA LimitType ==
    ASSUME NEW route \in AllRoutes
    PROVE  LimitOf(route) \in Nat \ {0}
  BY GatewayAssumption DEF LimitOf

LEMMA FreshType == Fresh \in Request
  BY FirstWindow DEF Fresh, Request, Stages

LEMMA AnsweredType == Answered \in Request
  BY FreshType DEF Answered, Request, Stages

LEMMA KeyType ==
    ASSUME NEW route, NEW c \in Callers, NEW t \in Clients
    PROVE  BuildKey(route, c, t) \in Keys
  BY DEF BuildKey, Keys

LEMMA ArrivedType ==
    Cardinality(Arrived) \in Nat
  BY GatewayAssumption, FS_Subset, FS_CardinalityType DEF Arrived

LEMMA RefilledType ==
    ASSUME NEW f \in Bucket, NEW limit \in Nat, NEW t \in Times
    PROVE  [f EXCEPT !.tokens = limit, !.refilledAt = t] \in Bucket
  BY DEF Bucket

LEMMA FoundType ==
    ASSUME TypeOK, NEW s \in Servers, NEW k \in Keys, NEW limit \in Nat
    PROVE  Found(bucket[s], k, limit) \in Bucket
  <1> DEFINE b == bucket[s]
  <1>1. clock \in Times
    BY DEF TypeOK
  <1>2. CASE k \notin Kept(b)
    BY <1>1, <1>2, ArrivedType DEF Found, Bucket
  <1>3. CASE k \in Kept(b)
    <2>1. b[k] \in Bucket
      BY <1>3 DEF TypeOK, Kept
    <2>2. [b[k] EXCEPT !.tokens = limit, !.refilledAt = clock] \in Bucket
      BY <1>1, <2>1, RefilledType
    <2> QED
      BY <1>3, <2>1, <2>2 DEF Found
  <1> QED
    BY <1>2, <1>3

LEMMA AdmittedType ==
    ASSUME NEW q \in Request
    PROVE  Admitted(q) \in Request
  BY DEF Admitted, Request, Stages

LEMMA RefusedType ==
    ASSUME TypeOK, NEW q \in Request, NEW wait \in Nat
    PROVE  Refused(q, wait) \in Request
  <1>1. clock \in Nat
    BY GatewayAssumption DEF TypeOK, Times
  <1> QED
    BY <1>1 DEF Refused, Request, Stages

\* A request that has just been answered, admitted or refused asks nothing.
LEMMA RuledAsks ==
    ASSUME NEW q \in Request, NEW wait \in Nat
    PROVE  /\ Admitted(q).stage = "handler" /\ Refused(q, wait).stage = "done"
           /\ Answered.stage = "done"
           /\ Admitted(q).resent = q.resent
           /\ Refused(q, wait).resent = q.resent
           /\ ~Fresh.resent
  BY FreshType DEF Admitted, Refused, Answered, Fresh, Request

LEMMA MemoryType ==
    ASSUME TypeOK, NEW r \in Reqs, NEW q \in Request, NEW limit \in Nat,
           q.srv \in Servers, q.key \in Keys, ConsumeMemory(r, q, limit)
    PROVE  /\ bucket' \in [Servers -> [Keys -> Bucket \cup {None}]]
           /\ crowded' \subseteq Servers \X Nat \X Keys
           /\ req' \in [Reqs -> Request]
           /\ \E x \in Request : /\ req' = [req EXCEPT ![r] = x]
                                /\ x.stage \in {"handler", "done"}
  <1> DEFINE b == bucket[q.srv]
             f == Found(b, q.key, limit)
             spent == [f EXCEPT !.tokens = @ - 1]
             c == [q EXCEPT !.at = clock]
             wait == Positive(Window - (clock - f.refilledAt))
  <1>1. f \in Bucket
    BY FoundType
  <1>2. f.tokens > 0 => spent \in Bucket
    BY <1>1 DEF Bucket
  <1>3. b \in [Keys -> Bucket \cup {None}]
    BY DEF TypeOK
  <1>4. c \in Request
    BY DEF TypeOK, Request
  <1>5. wait \in Nat
    BY <1>1, GatewayAssumption DEF TypeOK, Times, Bucket, Positive
  <1>6. Admitted(c) \in Request /\ Refused(c, wait) \in Request
    BY <1>4, <1>5, AdmittedType, RefusedType
  <1>7. /\ bucket' = [bucket EXCEPT ![q.srv] =
                        [j \in Keys |->
                            IF j = q.key
                            THEN IF f.tokens > 0 THEN spent ELSE f
                            ELSE IF j \in Kept(b) THEN b[j] ELSE None]]
        /\ crowded' = crowded \cup {<<q.srv, q.life, j>> : j \in Dropped(b)}
        /\ req' = [req EXCEPT ![r] =
                     IF f.tokens > 0 THEN Admitted(c) ELSE Refused(c, wait)]
    BY DEF ConsumeMemory
  <1> DEFINE x == IF f.tokens > 0 THEN Admitted(c) ELSE Refused(c, wait)
  <1>11. x \in Request /\ x.stage \in {"handler", "done"}
    BY <1>4, <1>5, <1>6, RuledAsks
  <1>12. req' = [req EXCEPT ![r] = x]
    BY <1>7
  <1> HIDE DEF f, spent, c, wait, b, x
  <1>8. bucket' \in [Servers -> [Keys -> Bucket \cup {None}]]
    BY <1>1, <1>2, <1>3, <1>7 DEF TypeOK
  <1>9. req' \in [Reqs -> Request]
    BY <1>6, <1>7 DEF TypeOK
  <1>10. crowded' \subseteq Servers \X Nat \X Keys
    <2>1. Dropped(b) \subseteq Keys /\ q.life \in Nat
      BY DEF Dropped, Request
    <2> QED
      BY <1>7, <2>1 DEF TypeOK
  <1> QED
    BY <1>8, <1>9, <1>10, <1>11, <1>12

\* What a request is that the guards have let through.
Let(s, route, c, t) ==
    [Fresh EXCEPT !.stage = "incr", !.route = route, !.srv = s,
                  !.key = BuildKey(route, c, t), !.life = server[s].life,
                  !.win = WindowOf(clock)]

LEMMA AskingType ==
    ASSUME TypeOK, NEW s \in Servers, NEW route \in AllRoutes,
           NEW c \in Callers, NEW t \in Clients
    PROVE  LET q == Let(s, route, c, t)
           IN  /\ q \in Request /\ q.srv = s /\ q.key \in Keys
               /\ q.route = route /\ q.stage = "incr" /\ q.verdict = None
               /\ ~q.resent
  <1>1. /\ BuildKey(route, c, t) \in Keys
        /\ server[s].life \in Nat
        /\ WindowOf(clock) \in Windows
    BY KeyType, WindowType DEF TypeOK
  <1>2. Fresh.verdict = None /\ Fresh.resent = FALSE
    BY DEF Fresh
  <1> QED
    BY <1>1, <1>2, FreshType DEF Let, Request, Stages

LEMMA ArriveType ==
    ASSUME TypeOK, NEW r \in Reqs, NEW s \in Servers,
           NEW route \in Routes(store), NEW c \in Callers,
           NEW t \in Clients, NEW i \in Inputs, Arrive(r, s, route, c, t, i)
    PROVE  TypeOK'
  <1> DEFINE q == Let(s, route, c, t)
  <1>1. route \in AllRoutes
    BY GatewayAssumption DEF TypeOK
  <1>2. q \in Request /\ q.srv = s /\ q.key \in Keys
    BY <1>1, AskingType
  <1>3. UNCHANGED <<clock, store, server, counter, expires>>
    BY DEF Arrive
  <1>4. \/ req' = [req EXCEPT ![r] = Answered] /\ UNCHANGED <<bucket, crowded>>
        \/ ConsumeMemory(r, q, LimitOf(route))
        \/ req' = [req EXCEPT ![r] = q] /\ UNCHANGED <<bucket, crowded>>
    BY DEF Arrive, Let
  <1> HIDE DEF q
  <1>5. LimitOf(route) \in Nat
    BY <1>1, LimitType
  <1>6. CASE ConsumeMemory(r, q, LimitOf(route))
    <2>1. /\ bucket' \in [Servers -> [Keys -> Bucket \cup {None}]]
          /\ crowded' \subseteq Servers \X Nat \X Keys
          /\ req' \in [Reqs -> Request]
      BY <1>2, <1>5, <1>6, MemoryType
    <2> QED
      BY <1>3, <2>1 DEF TypeOK
  <1>7. CASE /\ req' \in [Reqs -> Request]
             /\ UNCHANGED <<bucket, crowded>>
    BY <1>3, <1>7 DEF TypeOK
  <1> QED
    BY <1>2, <1>4, <1>6, <1>7, AnsweredType DEF TypeOK

LEMMA CutType ==
    ASSUME TypeOK, NEW s \in Servers, Cut(s)
    PROVE  req' \in [Reqs -> Request]
  <1>1. \A q \in Request : [q EXCEPT !.stage = "cut"] \in Request
    BY DEF Request, Stages
  <1> QED
    BY <1>1 DEF TypeOK, Cut

LEMMA ProcessType ==
    ASSUME NEW phase \in {"down", "listening", "closing"}, NEW n \in Nat
    PROVE  Process(phase, n) \in
                [phase : {"down", "listening", "closing"}, life : Nat,
                 stops : SUBSET Steps]
  BY DEF Process

LEMMA GoneType ==
    ASSUME TypeOK, NEW s \in Servers, Gone(s)
    PROVE  TypeOK'
  <1>1. req' \in [Reqs -> Request]
    BY CutType DEF Gone
  <1>2. server[s].life \in Nat
    BY DEF TypeOK
  <1>3. Process("down", server[s].life) \in
            [phase : {"down", "listening", "closing"}, life : Nat,
             stops : SUBSET Steps]
    BY <1>2, ProcessType
  <1> QED
    BY <1>1, <1>3 DEF TypeOK, Gone

LEMMA ServerType ==
    ASSUME TypeOK, NEW s \in Servers, Listen(s) \/ Shutdown(s) \/ Release(s)
    PROVE  TypeOK'
  <1> DEFINE Phases == {"down", "listening", "closing"}
  <1>1. server[s] \in [phase : Phases, life : Nat, stops : SUBSET Steps]
    BY DEF TypeOK
  <1>2. CASE Listen(s)
    <2>1. server[s].life + 1 \in Nat
      BY <1>1
    <2>2. Process("listening", server[s].life + 1) \in
            [phase : Phases, life : Nat, stops : SUBSET Steps]
      BY <2>1, ProcessType
    <2> QED
      BY <1>2, <2>2 DEF TypeOK, Listen
  <1>3. CASE Shutdown(s)
    <2>1. server[s].stops \cup {"release"} \in SUBSET Steps
      BY <1>1 DEF Steps
    <2> QED
      BY <1>3, <2>1, ZenonT(30) DEF TypeOK, Shutdown
  <1>4. CASE Release(s)
    <2>1. (server[s].stops \ {"release"}) \cup {"exit"} \in SUBSET Steps
      BY <1>1 DEF Steps
    <2> QED
      BY <1>4, <2>1 DEF TypeOK, Release
  <1> QED
    BY <1>2, <1>3, <1>4

LEMMA TtlType ==
    ASSUME TypeOK, NEW k \in Keys, NEW w \in Windows, Ttl(k, w) > 0
    PROVE  Ttl(k, w) \in Nat
  <1>1. clock \in Nat /\ expires[k][w] \in Nat \cup {Never}
    BY GatewayAssumption DEF TypeOK, Times
  <1> QED
    BY <1>1 DEF Ttl, Never

LEMMA CountType ==
    ASSUME TypeOK, NEW k \in Keys, NEW w \in Windows
    PROVE  LiveCount(k, w) \in Nat
  BY DEF TypeOK, LiveCount

\* A call that asks Redis.
LEMMA AskingRequest ==
    ASSUME TypeOK, Asking, NEW r \in Reqs,
           req[r].stage \in {"incr", "counted"}
    PROVE  /\ req[r] \in Request
           /\ req[r].key \in Keys /\ req[r].win \in Windows
           /\ LimitOf(req[r].route) \in Nat \ {0}
  BY LimitType DEF TypeOK, Asking, Request

LEMMA RedisType ==
    ASSUME TypeOK, Asking, NEW r \in Reqs, Continue(r) \/ Resend(r)
    PROVE  TypeOK'
  <1> DEFINE k == req[r].key
             w == req[r].win
  <1>1. req[r] \in Request /\ clock \in Nat /\ clock \in Times
    BY GatewayAssumption DEF TypeOK, Times
  <1>2. CASE Incr(r)
    <2>1. k \in Keys /\ w \in Windows /\ LiveCount(k, w) + 1 \in Nat
      BY <1>2, AskingRequest, CountType DEF Incr
    <2>2. counter' \in [Keys -> [Windows -> Nat]]
      BY <1>2, <2>1 DEF TypeOK, Incr
    <2>3. expires' \in [Keys -> [Windows -> Nat \cup {Never}]]
      BY <1>2, <2>1 DEF TypeOK, Incr
    <2>4. [req[r] EXCEPT !.stage = "counted", !.count = LiveCount(k, w) + 1,
                         !.at = clock] \in Request
      BY <1>1, <2>1 DEF Request, Stages
    <2>5. req' \in [Reqs -> Request]
      BY <1>2, <2>4 DEF TypeOK, Incr
    <2> QED
      BY <1>2, <2>2, <2>3, <2>5 DEF TypeOK, Incr
  <1>3. CASE FirstHit(r)
    <2>1. k \in Keys /\ w \in Windows /\ clock + Window \in Nat
      BY <1>1, <1>3, AskingRequest, GatewayAssumption DEF FirstHit
    <2>2. expires' \in [Keys -> [Windows -> Nat \cup {Never}]]
      BY <1>3, <2>1 DEF TypeOK, FirstHit
    <2>3. req' \in [Reqs -> Request]
      BY <1>1, <1>3, AdmittedType DEF TypeOK, FirstHit
    <2> QED
      BY <1>3, <2>2, <2>3 DEF TypeOK, FirstHit
  <1>4. CASE LaterHit(r)
    BY <1>1, <1>4, AdmittedType DEF TypeOK, LaterHit
  <1>5. CASE OverLimit(r)
    <2> DEFINE wait == IF Ttl(k, w) > 0 THEN Ttl(k, w) ELSE Window
    <2>1. wait \in Nat
      BY <1>5, AskingRequest, TtlType, GatewayAssumption DEF OverLimit
    <2>2. Refused(req[r], wait) \in Request
      BY <1>1, <2>1, RefusedType
    <2>3. req' = [req EXCEPT ![r] = Refused(req[r], wait)]
      BY <1>5 DEF TypeOK, OverLimit
    <2> HIDE DEF wait
    <2> QED
      BY <1>5, <2>2, <2>3 DEF TypeOK, OverLimit
  <1>6. CASE RedisFails(r) \/ Respond(r)
    <2>1. [req[r] EXCEPT !.stage = "done"] \in Request
      BY <1>1 DEF Request, Stages
    <2> QED
      BY <1>6, <2>1 DEF TypeOK, RedisFails, Respond
  <1>7. CASE Resend(r)
    <2>1. [req[r] EXCEPT !.stage = "incr", !.resent = TRUE] \in Request
      BY <1>1 DEF Request, Stages
    <2> QED
      BY <1>7, <2>1 DEF TypeOK, Resend
  <1> QED
    BY <1>2, <1>3, <1>4, <1>5, <1>6, <1>7 DEF Continue

LEMMA TypeStep ==
    ASSUME TypeOK, Asking, [Next]_vars
    PROVE  TypeOK'
  <1>1. CASE Tick
    BY <1>1, GatewayAssumption DEF TypeOK, Tick, Times
  <1>2. CASE Arrival
    BY <1>2, ArriveType DEF Arrival
  <1>3. ASSUME NEW s \in Servers,
               Listen(s) \/ Shutdown(s) \/ Stopping(s) \/ Kill(s)
        PROVE  TypeOK'
    BY <1>3, ServerType, GoneType DEF Stopping, Exit, Kill
  <1>4. ASSUME NEW r \in Reqs, Continue(r) \/ Resend(r)
        PROVE  TypeOK'
    BY <1>4, RedisType
  <1>5. CASE UNCHANGED vars
    BY <1>5 DEF TypeOK, vars
  <1> QED
    BY <1>1, <1>2, <1>3, <1>4, <1>5 DEF Next

-----------------------------------------------------------------------------
(* Requests that ask Redis.                                                *)
\* A request that is answered on arrival, or begins to ask.
Came(x) ==
    \/ x.stage \in {"handler", "done"}
    \/ /\ x.stage = "incr" /\ x.verdict = None
       /\ x.key \in Keys /\ x.route \in AllRoutes

LEMMA ArriveCame ==
    ASSUME TypeOK, NEW r \in Reqs, NEW s \in Servers,
           NEW route \in Routes(store), NEW c \in Callers,
           NEW t \in Clients, NEW i \in Inputs, Arrive(r, s, route, c, t, i)
    PROVE  /\ req[r].stage = "idle"
           /\ UNCHANGED <<counter, expires>>
           /\ \E x \in Request : req' = [req EXCEPT ![r] = x] /\ Came(x)
  <1> DEFINE q == Let(s, route, c, t)
  <1>1. route \in AllRoutes
    BY GatewayAssumption DEF TypeOK
  <1>2. q \in Request /\ q.srv = s /\ q.key \in Keys /\ Came(q)
    BY <1>1, AskingType DEF Came
  <1>3. \/ req' = [req EXCEPT ![r] = Answered]
        \/ ConsumeMemory(r, q, LimitOf(route))
        \/ req' = [req EXCEPT ![r] = q]
    BY DEF Arrive, Let
  <1> HIDE DEF q
  <1>4. Answered \in Request /\ Came(Answered)
    BY AnsweredType, RuledAsks DEF Came
  <1>5. ASSUME ConsumeMemory(r, q, LimitOf(route))
        PROVE  \E x \in Request : req' = [req EXCEPT ![r] = x] /\ Came(x)
    <2>1. LimitOf(route) \in Nat
      BY <1>1, LimitType
    <2>2. PICK x \in Request : /\ req' = [req EXCEPT ![r] = x]
                               /\ x.stage \in {"handler", "done"}
      BY <1>2, <1>5, <2>1, MemoryType
    <2>3. Came(x)
      BY <2>2 DEF Came
    <2> QED
      BY <2>2, <2>3
  <1>6. \E x \in Request : req' = [req EXCEPT ![r] = x] /\ Came(x)
    BY <1>2, <1>3, <1>4, <1>5
  <1> QED
    BY <1>6 DEF Arrive

\* What a step of a call may make of its request.
Follows(x, q) ==
    /\ x \in Request
    /\ x.key = q.key /\ x.route = q.route /\ x.win = q.win
    /\ q.stage # "idle" /\ x.stage # "idle"
    /\ x.stage \in {"incr", "counted"} =>
            /\ q.stage \in {"incr", "counted"}
            /\ x.verdict = q.verdict
    /\ q.resent => x.resent

LEMMA IncrStep ==
    ASSUME TypeOK, Asking, NEW r \in Reqs, Incr(r)
    PROVE  \E x :
            /\ req' = [req EXCEPT ![r] = x] /\ Follows(x, req[r])
            /\ x.stage = "counted"
            /\ x.count = LiveCount(req[r].key, req[r].win) + 1
  <1> DEFINE n == LiveCount(req[r].key, req[r].win) + 1
             x == [req[r] EXCEPT !.stage = "counted", !.count = n,
                                 !.at = clock]
  <1>1. req[r] \in Request /\ clock \in Times
    BY DEF TypeOK
  <1>2. n \in Nat
    BY AskingRequest, CountType DEF Incr
  <1>3. req' = [req EXCEPT ![r] = x]
    BY DEF TypeOK, Incr
  <1> HIDE DEF n
  <1>4. Follows(x, req[r]) /\ x.stage = "counted" /\ x.count = n
    BY <1>1, <1>2 DEF Follows, Request, Stages, Incr
  <1> HIDE DEF x
  <1> QED
    BY <1>3, <1>4 DEF n

LEMMA RuledStep ==
    ASSUME TypeOK, Asking, NEW r \in Reqs,
           FirstHit(r) \/ LaterHit(r) \/ OverLimit(r)
    PROVE  \E x : req' = [req EXCEPT ![r] = x] /\ Follows(x, req[r])
  <1>1. req[r] \in Request /\ req[r].stage = "counted"
    BY DEF TypeOK, FirstHit, LaterHit, OverLimit
  <1>2. CASE FirstHit(r) \/ LaterHit(r)
    <2>1. Follows(Admitted(req[r]), req[r])
      BY <1>1, AdmittedType DEF Follows, Admitted, Request
    <2> QED
      BY <1>2, <2>1 DEF TypeOK, FirstHit, LaterHit
  <1>3. CASE OverLimit(r)
    <2>1. PICK wait \in Nat : req' = [req EXCEPT ![r] = Refused(req[r], wait)]
      BY <1>1, <1>3, AskingRequest, TtlType, GatewayAssumption
      DEF TypeOK, OverLimit
    <2>2. Follows(Refused(req[r], wait), req[r])
      BY <1>1, RefusedType DEF Follows, Refused, Request
    <2> QED
      BY <2>1, <2>2
  <1> QED
    BY <1>2, <1>3

LEMMA EndStep ==
    ASSUME TypeOK, Asking, NEW r \in Reqs, RedisFails(r) \/ Respond(r)
    PROVE  \E x :
            /\ req' = [req EXCEPT ![r] = x] /\ Follows(x, req[r])
            /\ x.stage = "done"
            /\ x.count = req[r].count /\ x.verdict = req[r].verdict
  <1> DEFINE x == [req[r] EXCEPT !.stage = "done"]
  <1>1. req[r] \in Request /\ req[r].stage # "idle"
    BY DEF TypeOK, RedisFails, Respond
  <1>2. req' = [req EXCEPT ![r] = x]
    BY DEF TypeOK, RedisFails, Respond
  <1>3. /\ Follows(x, req[r]) /\ x.stage = "done"
        /\ x.count = req[r].count /\ x.verdict = req[r].verdict
    BY <1>1 DEF Follows, Request, Stages
  <1> HIDE DEF x
  <1> QED
    BY <1>2, <1>3

LEMMA ResendStep ==
    ASSUME TypeOK, Asking, NEW r \in Reqs, Resend(r)
    PROVE  \E x :
            /\ req' = [req EXCEPT ![r] = x] /\ Follows(x, req[r])
            /\ x.resent
  <1> DEFINE x == [req[r] EXCEPT !.stage = "incr", !.resent = TRUE]
  <1>1. req[r] \in Request /\ req[r].stage = "counted"
    BY DEF TypeOK, Resend
  <1>2. req' = [req EXCEPT ![r] = x]
    BY DEF TypeOK, Resend
  <1>3. Follows(x, req[r]) /\ x.resent
    BY <1>1 DEF Follows, Request, Stages
  <1> HIDE DEF x
  <1> QED
    BY <1>2, <1>3

LEMMA CutStep ==
    ASSUME TypeOK, NEW s \in Servers, Gone(s), NEW r \in Reqs
    PROVE  \/ req'[r] = req[r]
           \/ /\ req[r].stage \in {"incr", "counted", "handler"}
              /\ req'[r].stage = "cut"
              /\ req'[r].key = req[r].key /\ req'[r].win = req[r].win
              /\ req'[r].count = req[r].count
              /\ req'[r].verdict = req[r].verdict
              /\ req'[r].resent = req[r].resent
  <1>1. req[r] \in Request
    BY DEF TypeOK
  <1>2. req'[r] \in {req[r], [req[r] EXCEPT !.stage = "cut"]}
    BY DEF Gone, Cut
  <1>3. CASE req'[r] # req[r]
    <2>1. req[r].stage \in {"incr", "counted", "handler"}
      BY <1>3 DEF Gone, Cut, InFlight
    <2> QED
      BY <1>1, <1>2, <1>3, <2>1 DEF Request
  <1> QED
    BY <1>3

LEMMA AskingStep ==
    ASSUME TypeOK, Asking, [Next]_vars
    PROVE  Asking'
  <1>1. CASE Tick \/ UNCHANGED vars
    BY <1>1 DEF Asking, Tick, vars
  <1>2. CASE Arrival
    <2>1. PICK r \in Reqs, x \in Request :
            req' = [req EXCEPT ![r] = x] /\ Came(x)
      BY <1>2, ArriveCame DEF Arrival
    <2> QED
      BY <2>1 DEF TypeOK, Asking, Came
  <1>3. ASSUME NEW s \in Servers, Listen(s) \/ Shutdown(s) \/ Release(s)
        PROVE  Asking'
    BY <1>3 DEF Asking, Listen, Shutdown, Release
  <1>4. ASSUME NEW s \in Servers, Exit(s) \/ Kill(s)
        PROVE  Asking'
    <2>1. ASSUME NEW r \in Reqs
          PROVE  /\ req'[r].stage \in {"incr", "counted"} =>
                        UNCHANGED req[r]
                 /\ req'[r].stage = "idle" => UNCHANGED req[r]
      BY <1>4, CutStep DEF Exit, Kill
    <2> QED
      BY <2>1 DEF Asking
  <1>5. ASSUME NEW r \in Reqs, Continue(r) \/ Resend(r)
        PROVE  Asking'
    <2>1. PICK x : req' = [req EXCEPT ![r] = x] /\ Follows(x, req[r])
      BY <1>5, IncrStep, RuledStep, EndStep, ResendStep DEF Continue
    <2> QED
      BY <2>1 DEF TypeOK, Asking, Follows
  <1> QED
    BY <1>1, <1>2, <1>3, <1>4, <1>5 DEF Next, Stopping

-----------------------------------------------------------------------------
(* Counters.                                                               *)

\* Why a counter may have no time to expire.
Witness(r, k, w) ==
    /\ req[r].key = k /\ req[r].win = w
    /\ \/ req[r].stage = "counted" /\ req[r].count = 1
       \/ /\ req[r].stage \in {"cut", "done"}
          /\ req[r].count = 1
          /\ req[r].verdict = None
       \/ req[r].resent

LEMMA CountersByWitness ==
    CountersExpire <=>
        \A k \in Keys, w \in Windows :
            counter[k][w] > 0 /\ expires[k][w] = Never =>
                \E r \in Reqs : Witness(r, k, w)
  BY DEF CountersExpire, Witness

LEMMA CountersByWitnessNext ==
    CountersExpire' <=>
        \A k \in Keys, w \in Windows :
            counter'[k][w] > 0 /\ expires'[k][w] = Never =>
                \E r \in Reqs : Witness(r, k, w)'
  BY DEF CountersExpire, Witness

LEMMA WitnessesStay ==
    ASSUME CountersExpire, UNCHANGED <<counter, expires>>,
           \A r \in Reqs, k \in Keys, w \in Windows :
                Witness(r, k, w) => Witness(r, k, w)'
    PROVE  CountersExpire'
  BY CountersByWitness, CountersByWitnessNext

\* The request a step is about stays a witness when it was sent again; the
\* others are not touched.
LEMMA FollowsWitness ==
    ASSUME TypeOK, NEW r \in Reqs, NEW x, Follows(x, req[r]),
           req' = [req EXCEPT ![r] = x],
           NEW q \in Reqs, NEW k \in Keys, NEW w \in Windows,
           Witness(q, k, w), q # r \/ req[r].resent
    PROVE  Witness(q, k, w)'
  BY DEF TypeOK, Follows, Witness

LEMMA CountersStep ==
    ASSUME TypeOK, Asking, CountersExpire, [Next]_vars
    PROVE  CountersExpire'
  <1>1. CASE Tick \/ UNCHANGED vars
    BY <1>1 DEF CountersExpire, Tick, vars
  <1>2. CASE Arrival
    <2>1. PICK r \in Reqs, x \in Request :
            /\ req' = [req EXCEPT ![r] = x] /\ req[r].stage = "idle"
            /\ UNCHANGED <<counter, expires>>
      BY <1>2, ArriveCame DEF Arrival
    <2>2. \A k, w : ~Witness(r, k, w)
      BY <2>1 DEF Asking, Witness
    <2>3. \A q \in Reqs, k \in Keys, w \in Windows :
            Witness(q, k, w) => Witness(q, k, w)'
      BY <2>1, <2>2 DEF TypeOK, Witness
    <2> QED
      BY <2>1, <2>3, WitnessesStay
  <1>3. ASSUME NEW s \in Servers, Listen(s) \/ Shutdown(s) \/ Release(s)
        PROVE  CountersExpire'
    BY <1>3 DEF CountersExpire, Listen, Shutdown, Release
  <1>4. ASSUME NEW s \in Servers, Exit(s) \/ Kill(s)
        PROVE  CountersExpire'
    <2>1. ASSUME NEW q \in Reqs, NEW k \in Keys, NEW w \in Windows,
                 Witness(q, k, w)
          PROVE  Witness(q, k, w)'
      BY <1>4, <2>1, CutStep DEF Exit, Kill, Witness, Asking
    <2>2. UNCHANGED <<counter, expires>>
      BY <1>4 DEF Exit, Kill, Gone
    <2> QED
      BY <2>1, <2>2, WitnessesStay
  <1>5. ASSUME NEW r \in Reqs, Incr(r)
        PROVE  CountersExpire'
    <2> DEFINE key == req[r].key
               win == req[r].win
               n == LiveCount(key, win) + 1
    <2>1. PICK x : /\ req' = [req EXCEPT ![r] = x] /\ Follows(x, req[r])
                   /\ x.stage = "counted" /\ x.count = n
      BY <1>5, IncrStep
    <2>2. key \in Keys /\ win \in Windows /\ LiveCount(key, win) \in Nat
      BY <1>5, AskingRequest, CountType DEF Incr
    <2>3. ASSUME NEW k \in Keys, NEW w \in Windows,
                 counter'[k][w] > 0, expires'[k][w] = Never
          PROVE  \E q \in Reqs : Witness(q, k, w)'
      <3>1. CASE k = key /\ w = win /\ n = 1
        <4>1. Witness(r, k, w)'
          BY <2>1, <3>1 DEF TypeOK, Follows, Witness
        <4> QED
          BY <4>1
      <3>2. CASE ~(k = key /\ w = win /\ n = 1)
        <4>1. expires'[k][w] = expires[k][w]
          BY <1>5, <2>2, <3>2 DEF TypeOK, Incr
        <4>2. counter[k][w] > 0
          <5>1. CASE k = key /\ w = win
            <6>1. n # 1
              BY <3>2, <5>1
            <6>2. LiveCount(k, w) > 0
              BY <2>2, <5>1, <6>1
            <6> QED
              BY <6>2 DEF LiveCount
          <5>2. CASE ~(k = key /\ w = win)
            BY <1>5, <2>2, <2>3, <5>2 DEF TypeOK, Incr
          <5> QED
            BY <5>1, <5>2
        <4>3. PICK q \in Reqs : Witness(q, k, w)
          BY <2>3, <4>1, <4>2, CountersByWitness
        <4>4. q # r \/ req[r].resent
          BY <1>5, <4>3 DEF Incr, Witness
        <4> QED
          BY <2>1, <4>3, <4>4, FollowsWitness
      <3> QED
        BY <3>1, <3>2
    <2> QED
      BY <2>3, CountersByWitnessNext
  <1>6. ASSUME NEW r \in Reqs, FirstHit(r)
        PROVE  CountersExpire'
    <2> DEFINE key == req[r].key
               win == req[r].win
    <2>1. PICK x : req' = [req EXCEPT ![r] = x] /\ Follows(x, req[r])
      BY <1>6, RuledStep
    <2>2. /\ key \in Keys /\ win \in Windows
          /\ clock + Window # Never
          /\ counter' = counter
      BY <1>6, AskingRequest, GatewayAssumption
      DEF TypeOK, Times, FirstHit, Never
    <2>3. ASSUME NEW k \in Keys, NEW w \in Windows,
                 counter'[k][w] > 0, expires'[k][w] = Never
          PROVE  \E q \in Reqs : Witness(q, k, w)'
      <3>1. ~(k = key /\ w = win)
        BY <1>6, <2>2, <2>3 DEF TypeOK, FirstHit, LiveCount
      <3>2. expires'[k][w] = expires[k][w]
        BY <1>6, <2>2, <3>1 DEF TypeOK, FirstHit
      <3>3. PICK q \in Reqs : Witness(q, k, w)
        BY <2>2, <2>3, <3>2, CountersByWitness
      <3>4. q # r
        BY <3>1, <3>3 DEF Witness
      <3> QED
        BY <2>1, <3>3, <3>4, FollowsWitness
    <2> QED
      BY <2>3, CountersByWitnessNext
  <1>7. ASSUME NEW r \in Reqs,
               LaterHit(r) \/ OverLimit(r) \/ Respond(r) \/ Resend(r)
        PROVE  CountersExpire'
    <2>1. PICK x : req' = [req EXCEPT ![r] = x] /\ Follows(x, req[r])
      BY <1>7, RuledStep, EndStep, ResendStep
    <2>2. ASSUME NEW q \in Reqs, NEW k \in Keys, NEW w \in Windows,
                 Witness(q, k, w)
          PROVE  Witness(q, k, w)'
      <3>1. CASE q # r \/ req[r].resent
        BY <2>1, <2>2, <3>1, FollowsWitness
      <3>2. CASE q = r /\ ~req[r].resent
        <4>1. CASE LaterHit(r) \/ OverLimit(r)
          <5>1. req[r].stage = "counted" /\ req[r].count # 1
            BY <4>1, AskingRequest DEF LaterHit, OverLimit, Request
          <5> QED
            BY <2>2, <3>2, <5>1 DEF Witness
        <4>2. CASE Respond(r)
          BY <2>2, <3>2, <4>2 DEF Respond, Witness
        <4>3. CASE Resend(r)
          BY <2>2, <3>2, <4>3, ResendStep DEF TypeOK, Follows, Witness
        <4> QED
          BY <1>7, <4>1, <4>2, <4>3
      <3> QED
        BY <3>1, <3>2
    <2>3. UNCHANGED <<counter, expires>>
      BY <1>7 DEF LaterHit, OverLimit, Respond, Resend
    <2> QED
      BY <2>2, <2>3, WitnessesStay
  <1>8. ASSUME NEW r \in Reqs, RedisFails(r)
        PROVE  CountersExpire'
    <2>1. PICK x : /\ req' = [req EXCEPT ![r] = x] /\ Follows(x, req[r])
                   /\ x.stage = "done"
                   /\ x.count = req[r].count /\ x.verdict = req[r].verdict
      BY <1>8, EndStep
    <2>2. ASSUME NEW q \in Reqs, NEW k \in Keys, NEW w \in Windows,
                 Witness(q, k, w)
          PROVE  Witness(q, k, w)'
      <3>1. CASE q # r \/ req[r].resent
        BY <2>1, <2>2, <3>1, FollowsWitness
      <3>2. CASE q = r /\ ~req[r].resent
        BY <1>8, <2>1, <2>2, <3>2
        DEF TypeOK, Asking, RedisFails, Follows, Witness
      <3> QED
        BY <3>1, <3>2
    <2>3. UNCHANGED <<counter, expires>>
      BY <1>8 DEF RedisFails
    <2> QED
      BY <2>2, <2>3, WitnessesStay
  <1> QED
    BY <1>1, <1>2, <1>3, <1>4, <1>5, <1>6, <1>7, <1>8
    DEF Next, Stopping, Continue

-----------------------------------------------------------------------------
(* What follows.                                                           *)

LEMMA InitInv ==
    ASSUME Init
    PROVE  GatewayInv
  <1>1. req \in [Reqs -> Request]
    BY FreshType DEF Init
  <1>2. clock \in Times
    BY GatewayAssumption DEF Init, Times
  <1>3. server \in [Servers -> [phase : {"down", "listening", "closing"},
                                life : Nat, stops : SUBSET Steps]]
    BY ProcessType DEF Init
  <1>4. TypeOK
    BY <1>1, <1>2, <1>3 DEF Init, TypeOK
  <1>5. Asking
    BY DEF Init, Fresh, Asking
  <1>6. CountersExpire
    BY DEF Init, CountersExpire
  <1> QED
    BY <1>4, <1>5, <1>6 DEF GatewayInv

LEMMA StepInv ==
    ASSUME GatewayInv, [Next]_vars
    PROVE  GatewayInv'
  BY TypeStep, AskingStep, CountersStep DEF GatewayInv

(* The invariant, and with it the types of the model's state, holds of     *)
(* both stores, any limits and any number of requests and processes.       *)
THEOREM GatewayInvariant == Spec => []GatewayInv
  BY InitInv, StepInv, PTL DEF Spec

(* A counter stays in Redis without a time only when the request that      *)
(* should have given it one was cut off or failed between INCR and         *)
(* PEXPIRE, or when an INCR was executed twice (redis.store.ts:26-34).     *)
THEOREM CountersGetTheirTime == Spec => []CountersExpire
  <1>1. GatewayInv => CountersExpire
    BY DEF GatewayInv
  <1> QED
    BY <1>1, GatewayInvariant, PTL

-----------------------------------------------------------------------------
(* Windows.                                                                *)

LEMMA WindowNat ==
    ASSUME NEW t \in Nat
    PROVE  WindowOf(t) \in Nat
  BY GatewayAssumption DEF WindowOf

LEMMA WindowOrder ==
    ASSUME NEW t \in Nat, NEW u \in Nat, t <= u
    PROVE  WindowOf(t) <= WindowOf(u)
  BY GatewayAssumption DEF WindowOf

LEMMA WindowNext ==
    ASSUME NEW t \in Nat
    PROVE  WindowOf(t + Window) = WindowOf(t) + 1
  BY GatewayAssumption DEF WindowOf

LEMMA WindowNumbers == Windows \subseteq Nat
  BY WindowNat, GatewayAssumption DEF Windows, Times

-----------------------------------------------------------------------------
(* What is known of a request.                                             *)

\* All routes that use a key have one limit.
LimitOfKey(k) == IF k[1] = "ip" THEN PublicLimit ELSE FlagLimit

\* A request at the time t, in either store.
Known(q, t) ==
    /\ q.stage = "idle" => q.verdict = None /\ q.at = Never
    /\ q.at # Never => q.at <= t /\ q.win <= WindowOf(q.at)
    /\ q.stage \in {"incr", "counted"} =>
            /\ LimitOf(q.route) = LimitOfKey(q.key)
            /\ q.win <= WindowOf(t)
    /\ q.stage = "incr" => q.resent \/ q.at = Never
    /\ q.stage = "counted" => q.at # Never /\ q.count > 0
    /\ q.verdict # None =>
            /\ q.stage \in {"handler", "done", "cut"}
            /\ q.key \in Keys
            /\ LimitOf(q.route) = LimitOfKey(q.key)
            /\ q.at # Never

Ruling == \A r \in Reqs : Known(req[r], clock)

\* Whose request it is.
Same(x, q) ==
    /\ x.key = q.key /\ x.route = q.route /\ x.win = q.win
    /\ x.srv = q.srv /\ x.life = q.life

\* What it was told.
Told(x, q) ==
    /\ x.at = q.at /\ x.resent = q.resent /\ x.verdict = q.verdict
    /\ x.decided = q.decided /\ x.retry = q.retry

LEMMA KeyLimit ==
    ASSUME NEW route \in AllRoutes, NEW c \in Callers, NEW t \in Clients
    PROVE  LimitOf(route) = LimitOfKey(BuildKey(route, c, t))
  BY DEF AllRoutes, LimitOf, LimitOfKey, BuildKey, KeyBy, Authenticated

LEMMA KeyLimitType ==
    ASSUME NEW k
    PROVE  LimitOfKey(k) \in Nat \ {0}
  BY GatewayAssumption DEF LimitOfKey

LEMMA FreshFields ==
    /\ Fresh.verdict = None /\ Fresh.at = Never /\ Fresh.resent = FALSE
    /\ Fresh.stage = "idle"
    /\ Answered.verdict = None /\ Answered.at = Never
    /\ Answered.stage = "done" /\ Answered.resent = FALSE
    /\ Answered.key = None /\ Fresh.key = None
  BY FreshType DEF Fresh, Answered, Request

\* What a request that passed the guards asks for.
LEMMA LetFields ==
    ASSUME TypeOK, NEW s \in Servers, NEW route \in AllRoutes,
           NEW c \in Callers, NEW t \in Clients
    PROVE  LET q == Let(s, route, c, t)
           IN  /\ q \in Request /\ q.srv = s /\ q.key \in Keys
               /\ q.route = route /\ q.stage = "incr" /\ q.verdict = None
               /\ ~q.resent /\ q.at = Never
               /\ q.life = server[s].life /\ q.win = WindowOf(clock)
               /\ LimitOf(route) = LimitOfKey(q.key)
  <1>1. /\ BuildKey(route, c, t) \in Keys
        /\ server[s].life \in Nat
        /\ WindowOf(clock) \in Windows
        /\ LimitOf(route) = LimitOfKey(BuildKey(route, c, t))
    BY KeyType, WindowType, KeyLimit DEF TypeOK
  <1> QED
    BY <1>1, FreshType, FreshFields DEF Let, Request, Stages

-----------------------------------------------------------------------------
(* What a step makes of a request.                                         *)

\* The bucket a request finds in memory, and what becomes of both.
Outcome(x, q, f) ==
    /\ x \in Request /\ Same(x, q) /\ x.at = clock /\ x.resent = q.resent
    /\ \/ /\ f.tokens > 0
          /\ x.verdict = "admitted" /\ x.stage = "handler"
       \/ /\ f.tokens = 0
          /\ x.verdict = "refused" /\ x.stage = "done"
          /\ x.decided = clock
          /\ x.retry = Positive(Window - (clock - f.refilledAt))

LEMMA MemoryRuled ==
    ASSUME TypeOK, NEW r \in Reqs, NEW q \in Request, NEW limit \in Nat,
           q.srv \in Servers, q.key \in Keys, ConsumeMemory(r, q, limit)
    PROVE  \E x : /\ req' = [req EXCEPT ![r] = x]
                  /\ Outcome(x, q, Found(bucket[q.srv], q.key, limit))
  <1> DEFINE f == Found(bucket[q.srv], q.key, limit)
             c == [q EXCEPT !.at = clock]
             wait == Positive(Window - (clock - f.refilledAt))
             x == IF f.tokens > 0 THEN Admitted(c) ELSE Refused(c, wait)
  <1>1. f \in Bucket
    BY FoundType
  <1>2. clock \in Times /\ clock \in Nat
    BY GatewayAssumption DEF TypeOK, Times
  <1>3. c \in Request /\ Same(c, q) /\ c.at = clock /\ c.resent = q.resent
    BY <1>2 DEF Request, Same
  <1>4. wait \in Nat
    BY <1>1, <1>2, GatewayAssumption DEF Times, Bucket, Positive
  <1>5. Admitted(c) \in Request /\ Refused(c, wait) \in Request
    BY <1>3, <1>4, AdmittedType, RefusedType
  <1>6. req' = [req EXCEPT ![r] = x]
    BY DEF ConsumeMemory
  <1>7. f.tokens > 0 \/ f.tokens = 0
    BY <1>1 DEF Bucket
  <1> HIDE DEF f, c, wait
  <1>8. CASE f.tokens > 0
    <2>1. /\ Same(Admitted(c), q) /\ Admitted(c).at = clock
          /\ Admitted(c).resent = q.resent
          /\ Admitted(c).verdict = "admitted"
          /\ Admitted(c).stage = "handler"
      BY <1>3 DEF Admitted, Request, Same
    <2> QED
      BY <1>5, <1>6, <1>8, <2>1 DEF Outcome, f
  <1>9. CASE f.tokens = 0
    <2>1. /\ Same(Refused(c, wait), q) /\ Refused(c, wait).at = clock
          /\ Refused(c, wait).resent = q.resent
          /\ Refused(c, wait).verdict = "refused"
          /\ Refused(c, wait).stage = "done"
          /\ Refused(c, wait).decided = clock
          /\ Refused(c, wait).retry = wait
      BY <1>3 DEF Refused, Request, Same
    <2>2. Outcome(Refused(c, wait), q, f)
      BY <1>5, <1>9, <2>1 DEF Outcome, wait
    <2>3. req' = [req EXCEPT ![r] = Refused(c, wait)]
      BY <1>6, <1>9
    <2> QED
      BY <2>2, <2>3 DEF f
  <1> QED
    BY <1>7, <1>8, <1>9

\* How a request arrives: it is answered, ruled on, or asks Redis.
LEMMA ArriveEffect ==
    ASSUME TypeOK, Arrival
    PROVE  \E r \in Reqs, q \in Request :
            /\ req[r].stage = "idle"
            /\ UNCHANGED <<clock, store, server, counter, expires>>
            /\ q.srv \in Servers /\ q.key \in Keys /\ q.stage = "incr"
            /\ server[q.srv].phase = "listening"
            /\ q.verdict = None /\ ~q.resent /\ q.at = Never
            /\ q.route \in AllRoutes /\ LimitOf(q.route) = LimitOfKey(q.key)
            /\ q.life = server[q.srv].life /\ q.win = WindowOf(clock)
            /\ \/ /\ req' = [req EXCEPT ![r] = Answered]
                  /\ UNCHANGED <<bucket, crowded>>
               \/ /\ store = "memory"
                  /\ ConsumeMemory(r, q, LimitOfKey(q.key))
               \/ /\ store = "redis"
                  /\ req' = [req EXCEPT ![r] = q]
                  /\ UNCHANGED <<bucket, crowded>>
  <1>1. PICK r \in Reqs, s \in Servers, route \in Routes(store),
             c \in Callers, t \in Clients, i \in Inputs :
                Arrive(r, s, route, c, t, i)
    BY DEF Arrival
  <1>2. route \in AllRoutes
    BY GatewayAssumption DEF TypeOK
  <1>3. store = "memory" \/ store = "redis"
    BY GatewayAssumption DEF TypeOK
  <1> DEFINE q == Let(s, route, c, t)
  <1>4. /\ q \in Request /\ q.srv = s /\ q.key \in Keys
        /\ q.route = route /\ q.stage = "incr" /\ q.verdict = None
        /\ ~q.resent /\ q.at = Never
        /\ q.life = server[s].life /\ q.win = WindowOf(clock)
        /\ LimitOf(route) = LimitOfKey(q.key)
    BY <1>2, LetFields
  <1>5. /\ req[r].stage = "idle"
        /\ server[s].phase = "listening"
        /\ UNCHANGED <<clock, store, server, counter, expires>>
        /\ \/ /\ req' = [req EXCEPT ![r] = Answered]
              /\ UNCHANGED <<bucket, crowded>>
           \/ store = "memory" /\ ConsumeMemory(r, q, LimitOf(route))
           \/ /\ store # "memory"
              /\ req' = [req EXCEPT ![r] = q] /\ UNCHANGED <<bucket, crowded>>
    BY <1>1 DEF Arrive, Let
  <1> HIDE DEF q
  <1>6. LimitOf(q.route) = LimitOfKey(q.key) /\ q.route \in AllRoutes
    BY <1>2, <1>4
  <1>7. /\ server[q.srv].phase = "listening"
        /\ q.srv \in Servers /\ q.life = server[q.srv].life
    BY <1>4, <1>5
  <1>8. \/ /\ req' = [req EXCEPT ![r] = Answered]
           /\ UNCHANGED <<bucket, crowded>>
        \/ store = "memory" /\ ConsumeMemory(r, q, LimitOfKey(q.key))
        \/ /\ store = "redis"
           /\ req' = [req EXCEPT ![r] = q] /\ UNCHANGED <<bucket, crowded>>
    BY <1>3, <1>4, <1>5
  <1>9. q \in Request
    BY <1>4
  <1> USE <1>9
  <1> WITNESS r \in Reqs, q \in Request
  <1> QED
    BY <1>4, <1>5, <1>6, <1>7, <1>8

LEMMA IncrEffect ==
    ASSUME TypeOK, Asking, NEW r \in Reqs, Incr(r)
    PROVE  \E x :
            /\ req' = [req EXCEPT ![r] = x]
            /\ x \in Request /\ Same(x, req[r])
            /\ x.stage = "counted" /\ x.at = clock
            /\ x.count = LiveCount(req[r].key, req[r].win) + 1
            /\ x.verdict = None /\ x.resent = req[r].resent
  <1> DEFINE n == LiveCount(req[r].key, req[r].win) + 1
             x == [req[r] EXCEPT !.stage = "counted", !.count = n,
                                 !.at = clock]
  <1>1. req[r] \in Request /\ clock \in Times
    BY DEF TypeOK
  <1>2. n \in Nat
    BY AskingRequest, CountType DEF Incr
  <1>3. req' = [req EXCEPT ![r] = x]
    BY DEF TypeOK, Incr
  <1>4. req[r].verdict = None
    BY DEF Asking, Incr
  <1> HIDE DEF n
  <1>5. /\ x \in Request /\ Same(x, req[r])
        /\ x.stage = "counted" /\ x.at = clock /\ x.count = n
        /\ x.verdict = None /\ x.resent = req[r].resent
    BY <1>1, <1>2, <1>4 DEF Same, Request, Stages
  <1> HIDE DEF x
  <1> QED
    BY <1>3, <1>5 DEF n

LEMMA HitEffect ==
    ASSUME TypeOK, NEW r \in Reqs, FirstHit(r) \/ LaterHit(r)
    PROVE  \E x :
            /\ req' = [req EXCEPT ![r] = x]
            /\ x \in Request /\ Same(x, req[r])
            /\ x.stage = "handler" /\ x.verdict = "admitted"
            /\ x.at = req[r].at /\ x.resent = req[r].resent
  <1> DEFINE x == Admitted(req[r])
  <1>1. req[r] \in Request
    BY DEF TypeOK
  <1>2. req' = [req EXCEPT ![r] = x]
    BY DEF TypeOK, FirstHit, LaterHit
  <1>3. /\ x \in Request /\ Same(x, req[r])
        /\ x.stage = "handler" /\ x.verdict = "admitted"
        /\ x.at = req[r].at /\ x.resent = req[r].resent
    BY <1>1, AdmittedType DEF Same, Admitted, Request
  <1> HIDE DEF x
  <1> QED
    BY <1>2, <1>3

LEMMA OverEffect ==
    ASSUME TypeOK, Asking, NEW r \in Reqs, OverLimit(r)
    PROVE  LET ttl == Ttl(req[r].key, req[r].win)
           IN  \E x :
                /\ req' = [req EXCEPT ![r] = x]
                /\ x \in Request /\ Same(x, req[r])
                /\ x.stage = "done" /\ x.verdict = "refused"
                /\ x.at = req[r].at /\ x.resent = req[r].resent
                /\ x.decided = clock
                /\ x.retry = IF ttl > 0 THEN ttl ELSE Window
  <1> DEFINE ttl == Ttl(req[r].key, req[r].win)
             wait == IF ttl > 0 THEN ttl ELSE Window
             x == Refused(req[r], wait)
  <1>1. req[r] \in Request
    BY DEF TypeOK
  <1>2. wait \in Nat
    BY AskingRequest, TtlType, GatewayAssumption DEF OverLimit
  <1>3. req' = [req EXCEPT ![r] = x]
    BY DEF TypeOK, OverLimit
  <1> HIDE DEF wait
  <1>4. /\ x \in Request /\ Same(x, req[r])
        /\ x.stage = "done" /\ x.verdict = "refused"
        /\ x.at = req[r].at /\ x.resent = req[r].resent
        /\ x.decided = clock /\ x.retry = wait
    BY <1>1, <1>2, RefusedType DEF Same, Refused, Request
  <1> HIDE DEF x
  <1> QED
    BY <1>3, <1>4 DEF wait

LEMMA EndEffect ==
    ASSUME TypeOK, NEW r \in Reqs, RedisFails(r) \/ Respond(r)
    PROVE  \E x :
            /\ req' = [req EXCEPT ![r] = x]
            /\ x \in Request /\ Same(x, req[r]) /\ Told(x, req[r])
            /\ x.stage = "done"
  <1> DEFINE x == [req[r] EXCEPT !.stage = "done"]
  <1>1. req[r] \in Request
    BY DEF TypeOK
  <1>2. req' = [req EXCEPT ![r] = x]
    BY DEF TypeOK, RedisFails, Respond
  <1>3. /\ x \in Request /\ Same(x, req[r]) /\ Told(x, req[r])
        /\ x.stage = "done"
    BY <1>1 DEF Same, Told, Request, Stages
  <1> HIDE DEF x
  <1> QED
    BY <1>2, <1>3

LEMMA ResendEffect ==
    ASSUME TypeOK, NEW r \in Reqs, Resend(r)
    PROVE  \E x :
            /\ req' = [req EXCEPT ![r] = x]
            /\ x \in Request /\ Same(x, req[r])
            /\ x.stage = "incr" /\ x.resent
            /\ x.at = req[r].at /\ x.verdict = req[r].verdict
  <1> DEFINE x == [req[r] EXCEPT !.stage = "incr", !.resent = TRUE]
  <1>1. req[r] \in Request
    BY DEF TypeOK
  <1>2. req' = [req EXCEPT ![r] = x]
    BY DEF TypeOK, Resend
  <1>3. /\ x \in Request /\ Same(x, req[r])
        /\ x.stage = "incr" /\ x.resent
        /\ x.at = req[r].at /\ x.verdict = req[r].verdict
    BY <1>1 DEF Same, Request, Stages
  <1> HIDE DEF x
  <1> QED
    BY <1>2, <1>3

LEMMA CutEffect ==
    ASSUME TypeOK, NEW s \in Servers, Gone(s), NEW r \in Reqs
    PROVE  \/ req'[r] = req[r]
           \/ /\ Same(req'[r], req[r]) /\ Told(req'[r], req[r])
              /\ req[r].stage \in {"incr", "counted", "handler"}
              /\ req'[r].stage = "cut"
  <1>1. req[r] \in Request
    BY DEF TypeOK
  <1>2. req'[r] \in {req[r], [req[r] EXCEPT !.stage = "cut"]}
    BY DEF Gone, Cut
  <1>3. CASE req'[r] # req[r]
    <2>1. req[r].stage \in {"incr", "counted", "handler"}
      BY <1>3 DEF Gone, Cut, InFlight
    <2> QED
      BY <1>1, <1>2, <1>3, <2>1 DEF Request, Same, Told
  <1> QED
    BY <1>3

-----------------------------------------------------------------------------
(* What is known of a request stays known.                                 *)

\* A step that makes x of one request.
LEMMA KnownChange ==
    ASSUME TypeOK, Ruling, NEW r \in Reqs, NEW x,
           req' = [req EXCEPT ![r] = x], clock' = clock, Known(x, clock)
    PROVE  Ruling'
  BY DEF TypeOK, Ruling

LEMMA ClockNat ==
    ASSUME TypeOK
    PROVE  clock \in Nat /\ clock \in Times
  BY GatewayAssumption DEF TypeOK, Times

LEMMA RequestNumbers ==
    ASSUME NEW q \in Request
    PROVE  /\ q.win \in Nat /\ q.count \in Nat
           /\ q.at \in Nat \cup {Never} /\ q.decided \in Nat /\ q.retry \in Nat
  <1>1. Times \subseteq Nat
    BY GatewayAssumption DEF Times
  <1> QED
    BY <1>1, WindowNumbers DEF Request

LEMMA RulingStep ==
    ASSUME TypeOK, Asking, Ruling, [Next]_vars
    PROVE  Ruling'
  <1>0. clock \in Nat /\ WindowOf(clock) \in Nat
    BY ClockNat, WindowNat
  <1>1. CASE Tick
    <2>1. clock' = clock + 1 /\ clock + 1 \in Nat /\ req' = req
      BY <1>0, <1>1 DEF Tick
    <2>2. WindowOf(clock) <= WindowOf(clock') /\ WindowOf(clock') \in Nat
      BY <1>0, <2>1, WindowOrder, WindowNat
    <2>3. ASSUME NEW r \in Reqs
          PROVE  Known(req[r], clock')
      <3>1. req[r] \in Request /\ Known(req[r], clock)
        BY DEF TypeOK, Ruling
      <3>2. req[r].win \in Nat /\ req[r].at \in Nat \cup {Never}
        BY <3>1, RequestNumbers
      <3> QED
        BY <1>0, <2>1, <2>2, <3>1, <3>2 DEF Known, Never
    <2> QED
      BY <2>1, <2>3 DEF Ruling
  <1>2. CASE Arrival
    <2>1. PICK r \in Reqs, q \in Request :
            /\ UNCHANGED <<clock, store, server, counter, expires>>
            /\ q.srv \in Servers /\ q.key \in Keys /\ q.stage = "incr"
            /\ q.verdict = None /\ ~q.resent /\ q.at = Never
            /\ LimitOf(q.route) = LimitOfKey(q.key)
            /\ q.win = WindowOf(clock)
            /\ \/ req' = [req EXCEPT ![r] = Answered]
               \/ ConsumeMemory(r, q, LimitOfKey(q.key))
               \/ req' = [req EXCEPT ![r] = q]
      BY <1>2, ArriveEffect
    <2>2. Known(Answered, clock)
      BY FreshFields DEF Known
    <2>3. Known(q, clock)
      BY <1>0, <2>1 DEF Known
    <2>4. ASSUME ConsumeMemory(r, q, LimitOfKey(q.key))
          PROVE  Ruling'
      <3>0. LimitOfKey(q.key) \in Nat
        BY KeyLimitType
      <3>1. PICK x : /\ req' = [req EXCEPT ![r] = x]
                     /\ Outcome(x, q, Found(bucket[q.srv], q.key,
                                            LimitOfKey(q.key)))
        BY <2>1, <2>4, <3>0, MemoryRuled
      <3>2. Known(x, clock)
        BY <1>0, <2>1, <3>1 DEF Known, Outcome, Same, Never
      <3> QED
        BY <2>1, <3>1, <3>2, KnownChange
    <2> QED
      BY <2>1, <2>2, <2>3, <2>4, KnownChange
  <1>3. ASSUME NEW s \in Servers, Listen(s) \/ Shutdown(s) \/ Release(s)
        PROVE  Ruling'
    BY <1>3 DEF Ruling, Listen, Shutdown, Release
  <1>4. ASSUME NEW s \in Servers, Exit(s) \/ Kill(s)
        PROVE  Ruling'
    <2>1. Gone(s) /\ clock' = clock
      BY <1>4 DEF Exit, Kill, Gone
    <2>2. ASSUME NEW r \in Reqs
          PROVE  Known(req'[r], clock)
      <3>1. Known(req[r], clock)
        BY DEF Ruling
      <3>2. \/ req'[r] = req[r]
            \/ /\ Same(req'[r], req[r]) /\ Told(req'[r], req[r])
               /\ req'[r].stage = "cut"
        BY <2>1, CutEffect
      <3> QED
        BY <3>1, <3>2 DEF Known, Same, Told
    <2> QED
      BY <2>1, <2>2 DEF Ruling
  <1>5. ASSUME NEW r \in Reqs, Continue(r) \/ Resend(r)
        PROVE  Ruling'
    <2> DEFINE q == req[r]
    <2>1. q \in Request /\ Known(q, clock) /\ clock' = clock
      BY <1>5 DEF TypeOK, Ruling, Continue, Incr, FirstHit, LaterHit,
                  OverLimit, RedisFails, Respond, Resend
    <2> HIDE DEF q
    <2>2. CASE Incr(r)
      <3>1. PICK x : /\ req' = [req EXCEPT ![r] = x]
                     /\ x \in Request /\ Same(x, q)
                     /\ x.stage = "counted" /\ x.at = clock
                     /\ x.count = LiveCount(q.key, q.win) + 1
                     /\ x.verdict = None
        BY <2>2, IncrEffect DEF q
      <3>2. LiveCount(q.key, q.win) \in Nat
        BY <2>2, AskingRequest, CountType DEF Incr, q
      <3>3. q.stage = "incr"
        BY <2>2 DEF Incr, q
      <3>4. Known(x, clock)
        BY <1>0, <2>1, <3>1, <3>2, <3>3 DEF Known, Same, Never
      <3> QED
        BY <2>1, <3>1, <3>4, KnownChange
    <2>3. CASE FirstHit(r) \/ LaterHit(r) \/ OverLimit(r)
      <3>1. PICK x : /\ req' = [req EXCEPT ![r] = x]
                     /\ Same(x, q) /\ x.stage \in {"handler", "done"}
                     /\ x.at = q.at
        BY <2>3, HitEffect, OverEffect DEF q
      <3>2. q.stage = "counted" /\ q.key \in Keys
        BY <2>3, AskingRequest DEF FirstHit, LaterHit, OverLimit, q
      <3>3. Known(x, clock)
        BY <2>1, <3>1, <3>2 DEF Known, Same
      <3> QED
        BY <2>1, <3>1, <3>3, KnownChange
    <2>4. CASE RedisFails(r) \/ Respond(r)
      <3>1. PICK x : /\ req' = [req EXCEPT ![r] = x]
                     /\ Same(x, q) /\ Told(x, q) /\ x.stage = "done"
        BY <2>4, EndEffect DEF q
      <3>2. Known(x, clock)
        BY <2>1, <3>1 DEF Known, Same, Told
      <3> QED
        BY <2>1, <3>1, <3>2, KnownChange
    <2>5. CASE Resend(r)
      <3>1. PICK x : /\ req' = [req EXCEPT ![r] = x]
                     /\ Same(x, q) /\ x.stage = "incr" /\ x.resent
                     /\ x.at = q.at /\ x.verdict = q.verdict
        BY <2>5, ResendEffect DEF q
      <3>2. q.stage = "counted" /\ q.verdict = None
        BY <2>5 DEF Resend, Asking, q
      <3>3. Known(x, clock)
        BY <2>1, <3>1, <3>2 DEF Known, Same
      <3> QED
        BY <2>1, <3>1, <3>3, KnownChange
    <2> QED
      BY <1>5, <2>2, <2>3, <2>4, <2>5 DEF Continue
  <1>6. CASE UNCHANGED vars
    BY <1>6 DEF Ruling, vars
  <1> QED
    BY <1>1, <1>2, <1>3, <1>4, <1>5, <1>6 DEF Next, Stopping

-----------------------------------------------------------------------------
(* Redis: what was executed for a counter, and who got through.            *)

OfCounter(r, k, w) == req[r].key = k /\ req[r].win = w

Executed(k, w) == {r \in Reqs : OfCounter(r, k, w) /\ req[r].at # Never}

\* Admitted, or about to be.
Through(k, w) ==
    {r \in Reqs :
        /\ OfCounter(r, k, w)
        /\ \/ req[r].verdict = "admitted"
           \/ req[r].stage = "counted" /\ req[r].count <= LimitOfKey(k)}

\* A counter that expires does so after its window.
Expiry ==
    \A k \in Keys, w \in Windows :
        expires[k][w] # Never =>
            /\ WindowOf(expires[k][w]) > w
            /\ expires[k][w] <= clock + Window

CountOf(k, w) ==
    \/ \E r \in Reqs : OfCounter(r, k, w) /\ Late(r)
    \/ /\ Cardinality(Through(k, w)) <= counter[k][w]
       /\ Cardinality(Through(k, w)) <= LimitOfKey(k)

\* Nobody gets through who was not counted.
Counts ==
    store = "redis" => \A k \in Keys, w \in Windows : CountOf(k, w)

ReplyOf(k, w) ==
    \/ \E r \in Reqs : OfCounter(r, k, w) /\ req[r].resent
    \/ /\ counter[k][w] <= Cardinality(Executed(k, w))
       /\ \A r \in Executed(k, w) :
            req[r].stage = "counted" =>
                req[r].count <= Cardinality(Executed(k, w))

\* Nobody is counted who did not come.
Replies ==
    store = "redis" => \A k \in Keys, w \in Windows : ReplyOf(k, w)

EarnedInRedis(r) ==
    \/ \E q \in Reqs : SameCounter(q, r) /\ req[q].resent
    \/ Cardinality(Executed(req[r].key, req[r].win) \ {r})
            >= LimitOfKey(req[r].key)

\* What Redis has refused: earned, and to wait until its window is over.
RedisRefusals ==
    store = "redis" =>
        \A r \in Ruled("refused") :
            /\ EarnedInRedis(r)
            /\ req[r].retry <= Window
            /\ WindowOf(req[r].decided + req[r].retry) > req[r].win

\* What never goes back: a command that was executed, one that was sent again.
Grows(x, q) ==
    /\ q.at # Never \/ q.resent => x.key = q.key /\ x.win = q.win
    /\ q.at # Never => x.at # Never /\ x.at >= q.at
    /\ q.resent => x.resent

LEMMA GrowsStep ==
    ASSUME TypeOK, Asking, Ruling, [Next]_vars, NEW p \in Reqs
    PROVE  Grows(req'[p], req[p])
  <1>1. /\ req[p] \in Request /\ Known(req[p], clock)
        /\ req[p].at \in Nat \cup {Never}
    BY RequestNumbers DEF TypeOK, Ruling
  <1>2. CASE req'[p] = req[p]
    BY <1>1, <1>2 DEF Grows, Never
  <1>3. CASE Arrival
    <2>1. PICK r \in Reqs :
                \E x : req[r].stage = "idle" /\ req' = [req EXCEPT ![r] = x]
      BY <1>3, ArriveCame DEF Arrival
    <2>2. req'[p] # req[p] => p = r
      BY <2>1 DEF TypeOK
    <2>3. p = r => req[p].at = Never /\ ~req[p].resent
      BY <1>1, <2>1 DEF Known, Asking
    <2> QED
      BY <1>2, <2>2, <2>3 DEF Grows
  <1>4. ASSUME NEW s \in Servers, Exit(s) \/ Kill(s)
        PROVE  Grows(req'[p], req[p])
    <2>1. \/ req'[p] = req[p]
          \/ Same(req'[p], req[p]) /\ Told(req'[p], req[p])
      BY <1>4, CutEffect DEF Exit, Kill
    <2> QED
      BY <1>1, <1>2, <2>1 DEF Grows, Same, Told, Never
  <1>5. ASSUME NEW r \in Reqs, Continue(r) \/ Resend(r)
        PROVE  Grows(req'[p], req[p])
    <2>0. clock \in Nat
      BY ClockNat
    <2>1. CASE Incr(r)
      <3>1. PICK x : /\ req' = [req EXCEPT ![r] = x] /\ Same(x, req[r])
                     /\ x.at = clock /\ x.resent = req[r].resent
        BY <2>1, IncrEffect
      <3>2. req'[p] # req[p] => p = r /\ req'[p] = x
        BY <3>1 DEF TypeOK
      <3>3. p = r => Grows(x, req[p])
        BY <1>1, <2>0, <3>1 DEF Grows, Same, Known, Never
      <3> QED
        BY <1>2, <3>2, <3>3
    <2>2. CASE ~Incr(r)
      <3>1. PICK x : /\ req' = [req EXCEPT ![r] = x] /\ Same(x, req[r])
                     /\ x.at = req[r].at
                     /\ req[r].resent => x.resent
        BY <1>5, <2>2, HitEffect, OverEffect, EndEffect, ResendEffect
        DEF Continue, Told
      <3>2. req'[p] # req[p] => p = r /\ req'[p] = x
        BY <3>1 DEF TypeOK
      <3>3. p = r => Grows(x, req[p])
        BY <1>1, <3>1 DEF Grows, Same, Never
      <3> QED
        BY <1>2, <3>2, <3>3
    <2> QED
      BY <2>1, <2>2
  <1>6. CASE Tick \/ UNCHANGED vars
    BY <1>2, <1>6 DEF Tick, vars
  <1>7. ASSUME NEW s \in Servers, Listen(s) \/ Shutdown(s) \/ Release(s)
        PROVE  Grows(req'[p], req[p])
    BY <1>2, <1>7 DEF Listen, Shutdown, Release
  <1> QED
    BY <1>3, <1>4, <1>5, <1>6, <1>7 DEF Next, Stopping

\* A late command stays late, a second one stays a second one, and what was
\* executed stays executed.
LEMMA GrowthKept ==
    ASSUME TypeOK, Asking, Ruling, TypeOK', [Next]_vars, NEW k, NEW w
    PROVE  /\ (\E r \in Reqs : OfCounter(r, k, w) /\ Late(r)) =>
                (\E r \in Reqs : OfCounter(r, k, w) /\ Late(r))'
           /\ (\E r \in Reqs : OfCounter(r, k, w) /\ req[r].resent) =>
                (\E r \in Reqs : OfCounter(r, k, w) /\ req[r].resent)'
           /\ Executed(k, w) \subseteq Executed(k, w)'
  <1>1. ASSUME NEW r \in Reqs, OfCounter(r, k, w), Late(r)
        PROVE  OfCounter(r, k, w)' /\ Late(r)'
    <2>1. Grows(req'[r], req[r]) /\ Known(req[r], clock)
      BY GrowsStep DEF Ruling
    <2>2. /\ req[r].at \in Nat /\ req'[r].at \in Nat /\ req[r].win \in Nat
          /\ req[r].at <= req'[r].at /\ req[r].win <= WindowOf(req[r].at)
          /\ req'[r].key = k /\ req'[r].win = w /\ req[r].win = w
          /\ req'[r].at # Never
      <3>1. /\ req[r].at \in Nat \cup {Never} /\ req[r].win \in Nat
            /\ req'[r].at \in Nat \cup {Never}
        BY RequestNumbers DEF TypeOK
      <3> QED
        BY <1>1, <2>1, <3>1 DEF Grows, Known, Late, OfCounter
    <2>3. WindowOf(req[r].at) <= WindowOf(req'[r].at)
      BY <2>2, WindowOrder
    <2>4. WindowOf(req[r].at) \in Nat /\ WindowOf(req'[r].at) \in Nat
      BY <2>2, WindowNat
    <2> QED
      BY <1>1, <2>2, <2>3, <2>4 DEF Late, OfCounter
  <1>2. ASSUME NEW r \in Reqs, OfCounter(r, k, w), req[r].resent
        PROVE  OfCounter(r, k, w)' /\ req'[r].resent
    BY <1>2, GrowsStep DEF Grows, OfCounter
  <1>3. ASSUME NEW r \in Executed(k, w)
        PROVE  r \in Executed(k, w)'
    BY GrowsStep DEF Grows, OfCounter, Executed
  <1> QED
    BY <1>1, <1>2, <1>3

\* What a step makes of the clock and of the counters.
LEMMA TimesStep ==
    ASSUME [Next]_vars
    PROVE  /\ UNCHANGED store
           /\ clock' = clock \/ clock' = clock + 1
           /\ \/ UNCHANGED counter
              \/ \E r \in Reqs : Incr(r)
           /\ \/ UNCHANGED expires
              \/ \E r \in Reqs : Incr(r) \/ FirstHit(r)
  <1>1. CASE Tick \/ UNCHANGED vars
    BY <1>1 DEF Tick, vars
  <1>2. CASE Arrival
    BY <1>2 DEF Arrival, Arrive
  <1>3. ASSUME NEW s \in Servers,
               Listen(s) \/ Shutdown(s) \/ Stopping(s) \/ Kill(s)
        PROVE  UNCHANGED <<store, clock, counter, expires>>
    BY <1>3 DEF Listen, Shutdown, Stopping, Release, Exit, Kill, Gone
  <1>4. ASSUME NEW r \in Reqs, Continue(r) \/ Resend(r)
        PROVE  /\ clock' = clock /\ UNCHANGED store
               /\ UNCHANGED counter \/ Incr(r)
               /\ UNCHANGED expires \/ Incr(r) \/ FirstHit(r)
    BY <1>4 DEF Continue, Incr, FirstHit, LaterHit, OverLimit, RedisFails,
                Respond, Resend
  <1> QED
    BY <1>1, <1>2, <1>3, <1>4 DEF Next

LEMMA ExpiryStep ==
    ASSUME TypeOK, Asking, Ruling, Expiry, [Next]_vars
    PROVE  Expiry'
  <1>0. clock \in Nat /\ Window \in Nat
    BY ClockNat, GatewayAssumption
  <1>1. CASE UNCHANGED expires
    <2>1. clock' \in Nat /\ clock' >= clock
      <3>1. clock' = clock \/ clock' = clock + 1
        BY TimesStep
      <3> QED
        BY <1>0, <3>1
    <2>2. \A k \in Keys, w \in Windows : expires[k][w] \in Nat \cup {Never}
      BY DEF TypeOK
    <2> QED
      BY <1>0, <1>1, <2>1, <2>2 DEF Expiry, Never
  <1>2. ASSUME NEW r \in Reqs, Incr(r)
        PROVE  Expiry'
    <2>1. \A k \in Keys, w \in Windows :
            expires'[k][w] \in {Never, expires[k][w]}
      BY <1>2 DEF TypeOK, Incr
    <2> QED
      BY <1>2, <2>1 DEF Expiry, Incr
  <1>3. ASSUME NEW r \in Reqs, FirstHit(r)
        PROVE  Expiry'
    <2>1. req[r].win <= WindowOf(clock) /\ req[r].win \in Nat
      <3>1. req[r] \in Request /\ Known(req[r], clock)
        BY DEF TypeOK, Ruling
      <3> QED
        BY <1>3, <3>1, RequestNumbers DEF Known, FirstHit
    <2>2. WindowOf(clock + Window) > req[r].win
      BY <1>0, <2>1, WindowNext, WindowNat
    <2>3. clock' = clock
      BY <1>3 DEF FirstHit
    <2>4. \A k \in Keys, w \in Windows :
            \/ expires'[k][w] = expires[k][w]
            \/ w = req[r].win /\ expires'[k][w] = clock + Window
      BY <1>3 DEF TypeOK, FirstHit
    <2>5. ASSUME NEW k \in Keys, NEW w \in Windows, expires'[k][w] # Never
          PROVE  /\ WindowOf(expires'[k][w]) > w
                 /\ expires'[k][w] <= clock + Window
      BY <1>0, <2>2, <2>4, <2>5 DEF Expiry
    <2> QED
      BY <2>3, <2>5 DEF Expiry
  <1> QED
    BY <1>1, <1>2, <1>3, TimesStep

\* What a step that is not an INCR makes of a request.
Settles(p) ==
    /\ req'[p].stage = "counted" => UNCHANGED req[p]
    /\ req'[p].verdict = "admitted" =>
            /\ Same(req'[p], req[p])
            /\ \/ req[p].verdict = "admitted"
               \/ /\ req[p].stage = "counted"
                  /\ req[p].count <= LimitOfKey(req[p].key)
    /\ req'[p].verdict = "refused" =>
            \/ Same(req'[p], req[p]) /\ Told(req'[p], req[p])
            \/ OverLimit(p)

LEMMA SettlesStep ==
    ASSUME TypeOK, Asking, Ruling, store = "redis", [Next]_vars,
           \A r \in Reqs : ~Incr(r), NEW p \in Reqs
    PROVE  Settles(p) /\ UNCHANGED counter
  <1>1. req[p] \in Request /\ Known(req[p], clock)
    BY DEF TypeOK, Ruling
  <1>2. ASSUME UNCHANGED req[p]
        PROVE  Settles(p)
    BY <1>2 DEF Settles, Same, Told
  <1>3. CASE Arrival
    <2>1. PICK r \in Reqs, q \in Request :
            /\ req[r].stage = "idle" /\ UNCHANGED counter
            /\ q.stage = "incr" /\ q.verdict = None
            /\ \/ req' = [req EXCEPT ![r] = Answered]
               \/ store = "memory"
               \/ req' = [req EXCEPT ![r] = q]
      BY <1>3, ArriveEffect
    <2>2. \/ UNCHANGED req[p]
          \/ req'[p] = Answered
          \/ req'[p] = q
      BY <2>1 DEF TypeOK
    <2>3. None # "admitted" /\ None # "refused"
      BY GatewayAssumption
    <2> QED
      BY <1>2, <2>1, <2>2, <2>3, FreshFields DEF Settles
  <1>4. ASSUME NEW s \in Servers, Exit(s) \/ Kill(s)
        PROVE  Settles(p) /\ UNCHANGED counter
    <2>1. \/ req'[p] = req[p]
          \/ /\ Same(req'[p], req[p]) /\ Told(req'[p], req[p])
             /\ req'[p].stage = "cut"
      BY <1>4, CutEffect DEF Exit, Kill
    <2> QED
      BY <1>2, <1>4, <2>1 DEF Settles, Told, Exit, Kill, Gone
  <1>5. ASSUME NEW r \in Reqs, Continue(r) \/ Resend(r)
        PROVE  Settles(p) /\ UNCHANGED counter
    <2>0. UNCHANGED counter
      BY <1>5 DEF Continue, FirstHit, LaterHit, OverLimit, RedisFails,
                  Respond, Resend
    <2>1. CASE FirstHit(r) \/ LaterHit(r)
      <3>1. PICK x : /\ req' = [req EXCEPT ![r] = x] /\ Same(x, req[r])
                     /\ x.stage = "handler" /\ x.verdict = "admitted"
        BY <2>1, HitEffect
      <3>2. UNCHANGED req[p] \/ (p = r /\ req'[p] = x)
        BY <3>1 DEF TypeOK
      <3>3. /\ req[r].stage = "counted"
            /\ req[r].count <= LimitOfKey(req[r].key)
        <4>1. /\ req[r].stage = "counted" /\ Known(req[r], clock)
              /\ \/ req[r].count = 1
                 \/ req[r].count \in 2 .. LimitOf(req[r].route)
          BY <2>1 DEF FirstHit, LaterHit, Ruling
        <4>2. LimitOfKey(req[r].key) \in Nat \ {0}
          BY KeyLimitType
        <4> QED
          BY <4>1, <4>2 DEF Known
      <3> QED
        BY <1>2, <2>0, <3>1, <3>2, <3>3 DEF Settles
    <2>2. CASE OverLimit(r)
      <3>1. PICK x : /\ req' = [req EXCEPT ![r] = x]
                     /\ x.stage = "done" /\ x.verdict = "refused"
        BY <2>2, OverEffect
      <3>2. UNCHANGED req[p] \/ (p = r /\ req'[p] = x)
        BY <3>1 DEF TypeOK
      <3> QED
        BY <1>2, <2>0, <2>2, <3>1, <3>2 DEF Settles
    <2>3. CASE RedisFails(r) \/ Respond(r)
      <3>1. PICK x : /\ req' = [req EXCEPT ![r] = x] /\ x.stage = "done"
                     /\ Same(x, req[r]) /\ Told(x, req[r])
        BY <2>3, EndEffect
      <3>2. UNCHANGED req[p] \/ (p = r /\ req'[p] = x)
        BY <3>1 DEF TypeOK
      <3> QED
        BY <1>2, <2>0, <3>1, <3>2 DEF Settles, Told
    <2>4. CASE Resend(r)
      <3>1. PICK x : /\ req' = [req EXCEPT ![r] = x] /\ x.stage = "incr"
                     /\ x.verdict = req[r].verdict
        BY <2>4, ResendEffect
      <3>2. UNCHANGED req[p] \/ (p = r /\ req'[p] = x)
        BY <3>1 DEF TypeOK
      <3>3. req[r].verdict = None /\ None # "admitted" /\ None # "refused"
        BY <2>4, GatewayAssumption DEF Asking, Resend
      <3> QED
        BY <1>2, <2>0, <3>1, <3>2, <3>3 DEF Settles
    <2> QED
      BY <1>5, <2>1, <2>2, <2>3, <2>4 DEF Continue
  <1>6. CASE Tick \/ UNCHANGED vars
    BY <1>2, <1>6 DEF Tick, vars
  <1>7. ASSUME NEW s \in Servers, Listen(s) \/ Shutdown(s) \/ Release(s)
        PROVE  Settles(p) /\ UNCHANGED counter
    BY <1>2, <1>7 DEF Listen, Shutdown, Release
  <1> QED
    BY <1>3, <1>4, <1>5, <1>6, <1>7 DEF Next, Stopping

LEMMA OneMore ==
    ASSUME NEW S, IsFiniteSet(S), NEW x, NEW U, U \subseteq S \cup {x}
    PROVE  IsFiniteSet(U) /\ Cardinality(U) <= Cardinality(S) + 1
  <1>1. /\ IsFiniteSet(S \cup {x}) /\ Cardinality(S) \in Nat
        /\ Cardinality(S \cup {x}) =
                IF x \in S THEN Cardinality(S) ELSE Cardinality(S) + 1
    BY FS_AddElement, FS_CardinalityType
  <1>2. IsFiniteSet(U) /\ Cardinality(U) <= Cardinality(S \cup {x})
    BY <1>1, FS_Subset
  <1>3. Cardinality(U) \in Nat
    BY <1>2, FS_CardinalityType
  <1> QED
    BY <1>1, <1>2, <1>3

LEMMA CounterSets ==
    ASSUME NEW k, NEW w
    PROVE  /\ IsFiniteSet(Through(k, w)) /\ IsFiniteSet(Executed(k, w))
           /\ Cardinality(Through(k, w)) \in Nat
           /\ Cardinality(Executed(k, w)) \in Nat
  <1>1. Through(k, w) \subseteq Reqs /\ Executed(k, w) \subseteq Reqs
    BY DEF Through, Executed
  <1>2. IsFiniteSet(Reqs)
    BY GatewayAssumption
  <1> QED
    BY <1>1, <1>2, FS_Subset, FS_CardinalityType

LEMMA CounterSetsNext ==
    ASSUME NEW k, NEW w
    PROVE  /\ IsFiniteSet(Through(k, w)') /\ IsFiniteSet(Executed(k, w)')
           /\ Cardinality(Through(k, w)') \in Nat
           /\ Cardinality(Executed(k, w)') \in Nat
  <1>1. Through(k, w)' \subseteq Reqs /\ Executed(k, w)' \subseteq Reqs
    BY DEF Through, Executed
  <1>2. IsFiniteSet(Reqs)
    BY GatewayAssumption
  <1> QED
    BY <1>1, <1>2, FS_Subset, FS_CardinalityType

\* Within its window a counter has not expired.
LEMMA CounterLives ==
    ASSUME TypeOK, Expiry, NEW k \in Keys, NEW w \in Windows,
           WindowOf(clock) <= w
    PROVE  LiveCount(k, w) = counter[k][w]
  <1>1. clock \in Nat /\ w \in Nat /\ expires[k][w] \in Nat \cup {Never}
    BY ClockNat, WindowNumbers DEF TypeOK
  <1>2. ASSUME expires[k][w] # Never, expires[k][w] <= clock
        PROVE  FALSE
    <2>1. /\ WindowOf(expires[k][w]) > w /\ expires[k][w] \in Nat
          /\ WindowOf(expires[k][w]) <= WindowOf(clock)
      BY <1>1, <1>2, WindowOrder DEF Expiry
    <2>2. WindowOf(expires[k][w]) \in Nat /\ WindowOf(clock) \in Nat
      BY <1>1, <2>1, WindowNat
    <2> QED
      BY <1>1, <2>1, <2>2
  <1> QED
    BY <1>2 DEF LiveCount

LEMMA LiveBound ==
    ASSUME TypeOK, NEW k \in Keys, NEW w \in Windows
    PROVE  LiveCount(k, w) \in Nat /\ LiveCount(k, w) <= counter[k][w]
  BY DEF TypeOK, LiveCount

\* INCR and the counters it leaves alone.
LEMMA IncrCounter ==
    ASSUME TypeOK, Asking, NEW r \in Reqs, Incr(r),
           NEW k \in Keys, NEW w \in Windows
    PROVE  counter'[k][w] = IF OfCounter(r, k, w) THEN LiveCount(k, w) + 1
                            ELSE counter[k][w]
  <1>1. req[r].key \in Keys /\ req[r].win \in Windows
    BY AskingRequest DEF Incr
  <1> QED
    BY <1>1 DEF TypeOK, Incr, OfCounter

LEMMA CountsStep ==
    ASSUME TypeOK, TypeOK', Asking, Ruling, Expiry, Counts, [Next]_vars
    PROVE  Counts'
  <1> SUFFICES ASSUME store' = "redis", NEW k \in Keys, NEW w \in Windows,
                      ~(\E r \in Reqs : OfCounter(r, k, w) /\ Late(r))'
               PROVE  /\ Cardinality(Through(k, w)') <= counter'[k][w]
                      /\ Cardinality(Through(k, w)') <= LimitOfKey(k)
    BY DEF Counts, CountOf
  <1> DEFINE T == Through(k, w)
             limit == LimitOfKey(k)
  <1>1. store = "redis"
    BY TimesStep
  <1>2. Cardinality(T) <= counter[k][w] /\ Cardinality(T) <= limit
    BY <1>1, GrowthKept DEF Counts, CountOf
  <1>3. /\ IsFiniteSet(T) /\ Cardinality(T) \in Nat
        /\ Cardinality(T') \in Nat /\ limit \in Nat
        /\ counter[k][w] \in Nat
    BY CounterSets, CounterSetsNext, KeyLimitType DEF TypeOK
  <1>4. ASSUME T' \subseteq T
        PROVE  Cardinality(T') <= Cardinality(T)
    BY <1>3, <1>4, FS_Subset
  <1>5. ASSUME NEW r \in Reqs, Incr(r)
        PROVE  /\ Cardinality(T') <= counter'[k][w]
               /\ Cardinality(T') <= limit
    <2>1. PICK x : /\ req' = [req EXCEPT ![r] = x] /\ Same(x, req[r])
                   /\ x.at = clock /\ x.stage = "counted"
                   /\ x.count = LiveCount(req[r].key, req[r].win) + 1
                   /\ x.verdict = None
      BY <1>5, IncrEffect
    <2>2. \A p \in Reqs : p # r => req'[p] = req[p]
      BY <2>1 DEF TypeOK
    <2>3. req'[r] = x
      BY <2>1 DEF TypeOK
    <2>4. T' \subseteq T \cup {r}
      BY <2>2 DEF Through, OfCounter
    <2>5. CASE ~OfCounter(r, k, w)
      <3>1. T' \subseteq T
        BY <2>1, <2>3, <2>4, <2>5 DEF Through, OfCounter, Same
      <3>2. counter'[k][w] = counter[k][w]
        BY <1>5, <2>5, IncrCounter
      <3> QED
        BY <1>2, <1>3, <1>4, <3>1, <3>2
    <2>6. CASE OfCounter(r, k, w)
      <3>1. WindowOf(clock) = w
        <4>1. ~Late(r)'
          BY <2>1, <2>3, <2>6 DEF OfCounter, Same
        <4>2. req'[r].at = clock /\ req'[r].win = w /\ clock # Never
          BY <2>1, <2>3, <2>6, ClockNat DEF OfCounter, Same, Never
        <4> QED
          BY <4>1, <4>2 DEF Late
      <3>2. LiveCount(k, w) = counter[k][w]
        BY <3>1, CounterLives, ClockNat, WindowNat
      <3>3. counter'[k][w] = counter[k][w] + 1 /\ x.count = counter[k][w] + 1
        BY <1>5, <2>1, <2>6, <3>2, IncrCounter DEF OfCounter
      <3>4. CASE x.count <= limit
        <4>1. Cardinality(T') <= Cardinality(T) + 1
          BY <1>3, <2>4, OneMore
        <4> QED
          BY <1>2, <1>3, <3>3, <3>4, <4>1
      <3>5. CASE ~(x.count <= limit)
        <4>1. r \notin T'
          BY <2>1, <2>3, <3>5, GatewayAssumption DEF Through
        <4>2. T' \subseteq T
          BY <2>4, <4>1
        <4> QED
          BY <1>2, <1>3, <1>4, <3>3, <4>2
      <3> QED
        BY <3>4, <3>5
    <2> QED
      BY <2>5, <2>6
  <1>6. ASSUME \A r \in Reqs : ~Incr(r)
        PROVE  /\ Cardinality(T') <= counter'[k][w]
               /\ Cardinality(T') <= limit
    <2>1. \A p \in Reqs : Settles(p) /\ UNCHANGED counter
      BY <1>1, <1>6, SettlesStep
    <2>2. T' \subseteq T
      BY <2>1 DEF Through, OfCounter, Settles, Same
    <2>3. counter'[k][w] = counter[k][w]
      BY <1>6, TimesStep
    <2> QED
      BY <1>2, <1>3, <1>4, <2>2, <2>3
  <1> QED
    BY <1>5, <1>6

LEMMA RepliesStep ==
    ASSUME TypeOK, TypeOK', Asking, Ruling, Replies, [Next]_vars
    PROVE  Replies'
  <1> SUFFICES ASSUME store' = "redis", NEW k \in Keys, NEW w \in Windows,
                      ~(\E r \in Reqs : OfCounter(r, k, w) /\ req[r].resent)'
               PROVE  /\ counter'[k][w] <= Cardinality(Executed(k, w)')
                      /\ \A r \in Executed(k, w)' :
                            req'[r].stage = "counted" =>
                              req'[r].count <= Cardinality(Executed(k, w)')
    BY DEF Replies, ReplyOf
  <1> DEFINE E == Executed(k, w)
  <1>1. store = "redis"
    BY TimesStep
  <1>2. /\ counter[k][w] <= Cardinality(E)
        /\ \A r \in E : req[r].stage = "counted" =>
                            req[r].count <= Cardinality(E)
    BY <1>1, GrowthKept DEF Replies, ReplyOf
  <1>3. /\ IsFiniteSet(E') /\ IsFiniteSet(E)
        /\ Cardinality(E) \in Nat /\ Cardinality(E') \in Nat
        /\ counter[k][w] \in Nat
    BY CounterSets, CounterSetsNext DEF TypeOK
  <1>4. E \subseteq E' /\ Cardinality(E) <= Cardinality(E')
    <2>1. E \subseteq E'
      BY GrowthKept
    <2> QED
      BY <1>3, <2>1, FS_Subset
  <1>5. \A r \in Reqs : req[r] \in Request /\ req[r].count \in Nat
    BY RequestNumbers DEF TypeOK
  <1>6. ASSUME NEW r \in Reqs, Incr(r)
        PROVE  /\ counter'[k][w] <= Cardinality(E')
               /\ \A p \in E' : req'[p].stage = "counted" =>
                                    req'[p].count <= Cardinality(E')
    <2>1. PICK x : /\ req' = [req EXCEPT ![r] = x] /\ Same(x, req[r])
                   /\ x.at = clock
                   /\ x.count = LiveCount(req[r].key, req[r].win) + 1
                   /\ x.resent = req[r].resent
      BY <1>6, IncrEffect
    <2>2. /\ \A p \in Reqs : p # r => req'[p] = req[p]
          /\ req'[r] = x
      BY <2>1 DEF TypeOK
    <2>3. \A p \in E' : p # r => p \in E
      BY <2>2 DEF Executed, OfCounter
    <2>4. \A p \in E' : p # r /\ req'[p].stage = "counted" =>
                            req'[p].count <= Cardinality(E')
      BY <1>2, <1>3, <1>4, <1>5, <2>2, <2>3 DEF Executed
    <2>5. CASE ~OfCounter(r, k, w)
      <3>1. r \notin E' /\ counter'[k][w] = counter[k][w]
        BY <1>6, <2>1, <2>2, <2>5, IncrCounter
        DEF Executed, OfCounter, Same
      <3> QED
        BY <1>2, <1>3, <1>4, <2>4, <3>1
    <2>6. CASE OfCounter(r, k, w)
      <3>1. OfCounter(r, k, w)'
        BY <2>1, <2>2, <2>6 DEF OfCounter, Same
      <3>2. ~req[r].resent
        BY <2>1, <2>2, <3>1
      <3>3. r \notin E
        BY <1>6, <3>2 DEF Ruling, Known, Incr, Executed
      <3>4. r \in E'
        BY <2>1, <2>2, <3>1, ClockNat DEF Executed, Never
      <3>5. Cardinality(E') >= Cardinality(E) + 1
        <4>1. /\ IsFiniteSet(E \cup {r})
              /\ Cardinality(E \cup {r}) = Cardinality(E) + 1
          BY <1>3, <3>3, FS_AddElement
        <4>2. Cardinality(E \cup {r}) <= Cardinality(E')
          BY <1>3, <1>4, <3>4, FS_Subset
        <4> QED
          BY <1>3, <4>1, <4>2
      <3>6. LiveCount(k, w) \in Nat /\ LiveCount(k, w) <= counter[k][w]
        BY LiveBound
      <3>7. counter'[k][w] = LiveCount(k, w) + 1 /\ x.count = counter'[k][w]
        BY <1>6, <2>1, <2>6, IncrCounter DEF OfCounter
      <3> QED
        BY <1>2, <1>3, <2>2, <2>4, <3>5, <3>6, <3>7
    <2> QED
      BY <2>5, <2>6
  <1>7. ASSUME \A r \in Reqs : ~Incr(r)
        PROVE  /\ counter'[k][w] <= Cardinality(E')
               /\ \A p \in E' : req'[p].stage = "counted" =>
                                    req'[p].count <= Cardinality(E')
    <2>1. counter'[k][w] = counter[k][w]
      BY <1>7, TimesStep
    <2>2. ASSUME NEW p \in E', req'[p].stage = "counted"
          PROVE  req'[p].count <= Cardinality(E')
      <3>1. p \in Reqs /\ req'[p] = req[p]
        BY <1>1, <1>7, <2>2, SettlesStep DEF Settles, Executed
      <3>2. p \in E
        BY <3>1 DEF Executed, OfCounter
      <3> QED
        BY <1>2, <1>3, <1>4, <1>5, <2>2, <3>1, <3>2
    <2> QED
      BY <1>2, <1>3, <1>4, <2>1, <2>2
  <1> QED
    BY <1>6, <1>7

\* What PTTL answers a refused request with.
LEMMA TtlBound ==
    ASSUME TypeOK, Asking, Ruling, Expiry, NEW r \in Reqs, OverLimit(r)
    PROVE  LET ttl == Ttl(req[r].key, req[r].win)
               wait == IF ttl > 0 THEN ttl ELSE Window
           IN  wait <= Window /\ WindowOf(clock + wait) > req[r].win
  <1> DEFINE k == req[r].key
             w == req[r].win
             ttl == Ttl(k, w)
  <1>1. k \in Keys /\ w \in Windows /\ w \in Nat /\ w <= WindowOf(clock)
    <2>1. Known(req[r], clock) /\ req[r].stage = "counted"
      BY DEF Ruling, OverLimit
    <2> QED
      BY <2>1, AskingRequest, WindowNumbers DEF Known
  <1>2. clock \in Nat /\ Window \in Nat \ {0} /\ WindowOf(clock) \in Nat
    BY ClockNat, GatewayAssumption, WindowNat
  <1>3. expires[k][w] \in Nat \cup {Never}
    BY <1>1 DEF TypeOK
  <1>4. CASE ttl > 0
    <2>1. /\ ttl = expires[k][w] - clock /\ expires[k][w] # Never
          /\ expires[k][w] \in Nat
      BY <1>2, <1>3, <1>4 DEF Ttl
    <2>2. WindowOf(expires[k][w]) > w /\ expires[k][w] <= clock + Window
      BY <1>1, <2>1 DEF Expiry
    <2>3. clock + ttl = expires[k][w]
      BY <1>2, <2>1
    <2> QED
      BY <1>2, <1>4, <2>1, <2>2, <2>3
  <1>5. CASE ~(ttl > 0)
    BY <1>1, <1>2, <1>5, WindowNext
  <1> QED
    BY <1>4, <1>5

LEMMA RedisRefusalsStep ==
    ASSUME TypeOK, TypeOK', Asking, Ruling, Expiry, Replies, RedisRefusals,
           [Next]_vars
    PROVE  RedisRefusals'
  <1> SUFFICES ASSUME store' = "redis", NEW r \in Reqs,
                      req'[r].verdict = "refused"
               PROVE  /\ EarnedInRedis(r)'
                      /\ req'[r].retry <= Window
                      /\ WindowOf(req'[r].decided + req'[r].retry)
                            > req'[r].win
    BY DEF RedisRefusals, Ruled
  <1> DEFINE k == req[r].key
             w == req[r].win
  <1>1. store = "redis"
    BY TimesStep
  <1>2. req[r] \in Request /\ req'[r] \in Request /\ Known(req[r], clock)
    BY DEF TypeOK, Ruling
  <1>3. ASSUME EarnedInRedis(r), Same(req'[r], req[r])
        PROVE  EarnedInRedis(r)'
    <2>1. k' = k /\ w' = w
      BY <1>3 DEF Same
    <2>2. CASE \E q \in Reqs : SameCounter(q, r) /\ req[q].resent
      <3>1. \E q \in Reqs : OfCounter(q, k, w) /\ req[q].resent
        BY <2>2 DEF OfCounter, SameCounter
      <3>2. PICK q \in Reqs :
                req'[q].key = k /\ req'[q].win = w /\ req'[q].resent
        BY <3>1, GrowsStep DEF Grows, OfCounter
      <3>3. SameCounter(q, r)'
        BY <2>1, <3>2 DEF SameCounter
      <3> QED
        BY <3>2, <3>3 DEF EarnedInRedis
    <2>3. CASE Cardinality(Executed(k, w) \ {r}) >= LimitOfKey(k)
      <3> DEFINE E == Executed(k, w)
      <3> DEFINE F == {p \in Reqs : /\ req'[p].key = k
                                    /\ req'[p].win = w
                                    /\ req'[p].at # Never}
      <3>1. E \subseteq F
        BY GrowsStep DEF Executed, OfCounter, Grows
      <3>2. F \subseteq Reqs /\ IsFiniteSet(Reqs)
        BY GatewayAssumption
      <3>3. IsFiniteSet(F)
        BY <3>2, FS_Subset
      <3> HIDE DEF E, F
      <3>4. IsFiniteSet(F \ {r}) /\ IsFiniteSet(E \ {r})
        BY <3>1, <3>3, FS_Subset
      <3>5. /\ Cardinality(E \ {r}) <= Cardinality(F \ {r})
            /\ Cardinality(F \ {r}) \in Nat /\ Cardinality(E \ {r}) \in Nat
        BY <3>1, <3>3, <3>4, FS_Subset, FS_CardinalityType
      <3>6. Cardinality(F \ {r}) >= LimitOfKey(k)
        BY <2>3, <3>5, KeyLimitType DEF E
      <3>7. F = Executed(req[r].key, req[r].win)'
        BY <2>1 DEF F, Executed, OfCounter
      <3> QED
        BY <2>1, <3>6, <3>7 DEF EarnedInRedis
    <2> QED
      BY <1>3, <2>2, <2>3 DEF EarnedInRedis
  <1>4. CASE req[r].verdict = "refused" /\ Told(req'[r], req[r])
                /\ Same(req'[r], req[r])
    <2>1. EarnedInRedis(r) /\ req[r].retry <= Window
              /\ WindowOf(req[r].decided + req[r].retry) > req[r].win
      BY <1>1, <1>4 DEF RedisRefusals, Ruled
    <2> QED
      BY <1>3, <1>4, <2>1 DEF Told, Same
  <1>5. CASE OverLimit(r)
    <2>1. PICK x : /\ req' = [req EXCEPT ![r] = x] /\ Same(x, req[r])
                   /\ x.decided = clock
                   /\ x.retry = IF Ttl(k, w) > 0 THEN Ttl(k, w) ELSE Window
      BY <1>5, OverEffect
    <2>2. req'[r] = x
      BY <2>1 DEF TypeOK
    <2>3. x.retry <= Window /\ WindowOf(clock + x.retry) > req[r].win
      BY <1>5, <2>1, TtlBound
    <2>4. EarnedInRedis(r)
      <3>1. /\ req[r].stage = "counted" /\ k \in Keys /\ w \in Windows
            /\ LimitOfKey(k) \in Nat /\ req[r].count > LimitOfKey(k)
            /\ req[r].count \in Nat /\ req[r].at # Never
        BY <1>2, <1>5, AskingRequest, KeyLimitType, RequestNumbers
        DEF OverLimit, Known
      <3> DEFINE E == Executed(k, w)
      <3>2. CASE \E q \in Reqs : OfCounter(q, k, w) /\ req[q].resent
        BY <3>2 DEF EarnedInRedis, SameCounter, OfCounter
      <3>3. CASE ~\E q \in Reqs : OfCounter(q, k, w) /\ req[q].resent
        <4>1. r \in E
          BY <3>1 DEF Executed, OfCounter
        <4>2. req[r].count <= Cardinality(E)
          BY <1>1, <3>1, <3>3, <4>1 DEF Replies, ReplyOf
        <4>3. Cardinality(E \ {r}) = Cardinality(E) - 1
          BY <4>1, CounterSets, FS_RemoveElement
        <4>4. Cardinality(E) \in Nat
          BY CounterSets
        <4>5. Cardinality(E \ {r}) >= LimitOfKey(k)
          BY <3>1, <4>2, <4>3, <4>4
        <4> QED
          BY <4>5 DEF EarnedInRedis
      <3> QED
        BY <3>2, <3>3
    <2> QED
      BY <1>3, <2>1, <2>2, <2>3, <2>4 DEF Same
  <1>6. \/ Same(req'[r], req[r]) /\ Told(req'[r], req[r])
        \/ OverLimit(r)
    <2>1. CASE \A q \in Reqs : ~Incr(q)
      BY <1>1, <2>1, SettlesStep DEF Settles
    <2>2. ASSUME NEW q \in Reqs, Incr(q)
          PROVE  Same(req'[r], req[r]) /\ Told(req'[r], req[r])
      <3>1. PICK x : req' = [req EXCEPT ![q] = x] /\ x.verdict = None
        BY <2>2, IncrEffect
      <3>2. req'[r] = req[r]
        BY <3>1, GatewayAssumption DEF TypeOK
      <3> QED
        BY <3>2 DEF Same, Told
    <2> QED
      BY <2>1, <2>2
  <1> QED
    BY <1>4, <1>5, <1>6 DEF Told

-----------------------------------------------------------------------------
(* Memory: whom a bucket has admitted.                                     *)

\* Those a process has admitted to the bucket of a key between two times.
Admissions(s, n, k, lo, hi) ==
    {r \in Reqs :
        /\ req[r].verdict = "admitted"
        /\ req[r].srv = s /\ req[r].life = n /\ req[r].key = k
        /\ req[r].at \in lo .. hi}

\* A call in memory is one step: nobody waits for a verdict.
MemoryRuling ==
    store = "memory" =>
        \A r \in Reqs :
            /\ req[r].stage \notin {"incr", "counted"}
            /\ req[r].verdict # None =>
                    /\ req[r].srv \in Servers
                    /\ req[r].life <= server[req[r].srv].life
            /\ req[r].verdict = "refused" =>
                    req[r].decided = req[r].at /\ req[r].retry \in 1 .. Window

\* No bucket, as after a window without a call.
Emptied(s, n, k) ==
    /\ Admissions(s, n, k, clock, MaxTime) = {}
    /\ \A t \in Times :
        t > clock - Window =>
            Cardinality(Admissions(s, n, k, t, MaxTime)) <= LimitOfKey(k)

\* A bucket never admits more than it was filled with, and none after it is
\* due; the one before it admitted no more in the length of a window.
Filled(s, n, k, b) ==
    /\ Admissions(s, n, k, b.refilledAt + Window, MaxTime) = {}
    /\ Cardinality(Admissions(s, n, k, b.refilledAt, MaxTime)) + b.tokens
            <= LimitOfKey(k)
    /\ \A t \in Times :
        t > b.refilledAt - Window =>
            Cardinality(Admissions(s, n, k, t, b.refilledAt - 1))
                <= LimitOfKey(k)

\* What is missing in a bucket was given to somebody.
Spent(s, n, k, b) ==
    /\ b.refilledAt <= clock
    /\ Cardinality(Admissions(s, n, k, b.refilledAt, MaxTime)) + b.tokens
            >= LimitOfKey(k)

Room(s, n, k, b) ==
    /\ b # None => Spent(s, n, k, b)
    /\ <<s, n, k>> \notin crowded =>
            /\ b = None => Emptied(s, n, k)
            /\ b # None => Filled(s, n, k, b)

\* The life and the bucket that belong together.
Rooms ==
    store = "memory" =>
        \A s \in Servers, k \in Keys, n \in Nat, b \in Bucket \cup {None} :
            n = server[s].life /\ b = bucket[s][k] =>
                /\ server[s].phase = "down" => b = None
                /\ server[s].phase # "down" => Room(s, n, k, b)

SpacedOf(s, n, k) ==
    \A t \in Times :
        <<s, n, k>> \notin crowded =>
            Cardinality(Admissions(s, n, k, t, t + Window - 1))
                <= 2 * LimitOfKey(k)

Spaced ==
    store = "memory" =>
        \A s \in Servers, n \in Nat, k \in Keys : SpacedOf(s, n, k)

\* The refused request q came after as many admissions as the limit.
EarnedInMemory(q) ==
    Cardinality(Admissions(q.srv, q.life, q.key, q.at - Window + 1, q.at))
        >= LimitOfKey(q.key)

\* A bucket b keeps what the refused request q was told.
Keeps(b, q) ==
    /\ b = None => clock >= q.decided + q.retry
    /\ b # None => \/ b.refilledAt > q.decided
                   \/ b.refilledAt + Window = q.decided + q.retry

Promised(q) ==
    \/ q.life # server[q.srv].life
    \/ server[q.srv].phase = "down"
    \/ <<q.srv, q.life, q.key>> \in crowded
    \/ Keeps(bucket[q.srv][q.key], q)

MemoryRefusals ==
    store = "memory" =>
        \A r \in Reqs, q \in Request :
            q = req[r] /\ q.verdict = "refused" =>
                EarnedInMemory(q) /\ Promised(q)

LEMMA AdmissionsFinite ==
    ASSUME NEW s, NEW n, NEW k, NEW lo, NEW hi
    PROVE  /\ IsFiniteSet(Admissions(s, n, k, lo, hi))
           /\ Cardinality(Admissions(s, n, k, lo, hi)) \in Nat
           /\ Admissions(s, n, k, lo, hi) = {} =>
                Cardinality(Admissions(s, n, k, lo, hi)) = 0
           /\ IsFiniteSet(Admissions(s, n, k, lo, hi)')
           /\ Cardinality(Admissions(s, n, k, lo, hi)') \in Nat
  <1>1. Admissions(s, n, k, lo, hi) \subseteq Reqs
    BY DEF Admissions
  <1>2. Admissions(s, n, k, lo, hi)' \subseteq Reqs
    BY DEF Admissions
  <1>3. IsFiniteSet(Reqs)
    BY GatewayAssumption
  <1> QED
    BY <1>1, <1>2, <1>3, FS_Subset, FS_CardinalityType, FS_EmptySet

LEMMA AdmissionsOrder ==
    ASSUME NEW s, NEW n, NEW k, NEW lo \in Int, NEW hi \in Int,
           NEW lo1 \in Int, NEW hi1 \in Int, lo <= lo1, hi1 <= hi
    PROVE  /\ Admissions(s, n, k, lo1, hi1) \subseteq
                Admissions(s, n, k, lo, hi)
           /\ Cardinality(Admissions(s, n, k, lo1, hi1)) <=
                Cardinality(Admissions(s, n, k, lo, hi))
  <1>1. Admissions(s, n, k, lo1, hi1) \subseteq Admissions(s, n, k, lo, hi)
    BY DEF Admissions
  <1> QED
    BY <1>1, AdmissionsFinite, FS_Subset

LEMMA StaleDue == Window * StaleFactor >= Window
  BY GatewayAssumption

\* A bucket that is due leaves nothing behind.
LEMMA DueEmptied ==
    ASSUME TypeOK, NEW s, NEW n, NEW k, NEW b \in Bucket, Filled(s, n, k, b),
           clock >= b.refilledAt + Window
    PROVE  Emptied(s, n, k)
  <1>1. /\ clock \in Nat /\ b.refilledAt \in Nat /\ b.tokens \in Nat
        /\ Window \in Nat \ {0} /\ MaxTime \in Nat
    BY ClockNat, GatewayAssumption DEF Bucket, Times
  <1>2. Admissions(s, n, k, clock, MaxTime) = {}
    <2>1. Admissions(s, n, k, clock, MaxTime) \subseteq
            Admissions(s, n, k, b.refilledAt + Window, MaxTime)
      BY <1>1 DEF Admissions
    <2> QED
      BY <2>1 DEF Filled
  <1>3. ASSUME NEW t \in Times, t > clock - Window
        PROVE  Cardinality(Admissions(s, n, k, t, MaxTime)) <= LimitOfKey(k)
    <2>1. t \in Nat /\ t >= b.refilledAt
      BY <1>1, <1>3, GatewayAssumption DEF Times
    <2>2. Cardinality(Admissions(s, n, k, t, MaxTime)) <=
            Cardinality(Admissions(s, n, k, b.refilledAt, MaxTime))
      BY <1>1, <2>1, AdmissionsOrder
    <2>3. /\ Cardinality(Admissions(s, n, k, t, MaxTime)) \in Nat
          /\ Cardinality(Admissions(s, n, k, b.refilledAt, MaxTime)) \in Nat
          /\ LimitOfKey(k) \in Nat
      BY AdmissionsFinite, KeyLimitType
    <2>4. Cardinality(Admissions(s, n, k, b.refilledAt, MaxTime)) + b.tokens
            <= LimitOfKey(k)
      BY DEF Filled
    <2> QED
      BY <1>1, <2>2, <2>3, <2>4
  <1> QED
    BY <1>2, <1>3 DEF Emptied

\* A bucket that is new, or filled again.
LEMMA EmptiedFilled ==
    ASSUME TypeOK, NEW s, NEW n, NEW k, Emptied(s, n, k), NEW b \in Bucket,
           b.tokens = LimitOfKey(k), b.refilledAt = clock
    PROVE  Filled(s, n, k, b)
  <1>1. clock \in Nat /\ Window \in Nat \ {0} /\ MaxTime \in Nat
    BY ClockNat, GatewayAssumption
  <1>2. Admissions(s, n, k, clock + Window, MaxTime) = {}
    <2>1. Admissions(s, n, k, clock + Window, MaxTime) \subseteq
            Admissions(s, n, k, clock, MaxTime)
      BY <1>1 DEF Admissions
    <2> QED
      BY <2>1 DEF Emptied
  <1>3. Cardinality(Admissions(s, n, k, clock, MaxTime)) + b.tokens
            <= LimitOfKey(k)
    <2>1. Cardinality(Admissions(s, n, k, clock, MaxTime)) = 0
      BY AdmissionsFinite DEF Emptied
    <2> QED
      BY <2>1, KeyLimitType
  <1>4. ASSUME NEW t \in Times, t > clock - Window
        PROVE  Cardinality(Admissions(s, n, k, t, clock - 1)) <= LimitOfKey(k)
    <2>1. t \in Nat /\ clock - 1 <= MaxTime
      BY <1>1, ClockNat, GatewayAssumption DEF Times
    <2>2. Cardinality(Admissions(s, n, k, t, clock - 1)) <=
            Cardinality(Admissions(s, n, k, t, MaxTime))
      BY <1>1, <2>1, AdmissionsOrder
    <2>3. /\ Cardinality(Admissions(s, n, k, t, clock - 1)) \in Nat
          /\ Cardinality(Admissions(s, n, k, t, MaxTime)) \in Nat
          /\ LimitOfKey(k) \in Nat
      BY AdmissionsFinite, KeyLimitType
    <2>4. Cardinality(Admissions(s, n, k, t, MaxTime)) <= LimitOfKey(k)
      BY <1>4 DEF Emptied
    <2> QED
      BY <2>2, <2>3, <2>4
  <1> QED
    BY <1>2, <1>3, <1>4 DEF Filled

\* What the bucket found for a key holds.
LEMMA FoundRoom ==
    ASSUME TypeOK, NEW s \in Servers, NEW n, NEW k \in Keys,
           Room(s, n, k, bucket[s][k])
    PROVE  LET f == Found(bucket[s], k, LimitOfKey(k))
           IN  /\ f \in Bucket
               /\ f.refilledAt <= clock /\ f.refilledAt > clock - Window
               /\ Spent(s, n, k, f)
               /\ <<s, n, k>> \notin crowded /\ k \notin Dropped(bucket[s]) =>
                        Filled(s, n, k, f)
               /\ \/ f = bucket[s][k] /\ bucket[s][k] # None
                  \/ /\ f.refilledAt = clock
                     /\ \/ bucket[s][k] = None
                        \/ k \in Dropped(bucket[s])
                        \/ clock >= bucket[s][k].refilledAt + Window
  <1> DEFINE b == bucket[s]
             limit == LimitOfKey(k)
             f == Found(b, k, limit)
  <1>1. /\ f \in Bucket /\ limit \in Nat
        /\ clock \in Nat /\ clock \in Times /\ Window \in Nat \ {0}
    BY FoundType, KeyLimitType, ClockNat, GatewayAssumption
  <1>2. b[k] \in Bucket \cup {None}
    BY DEF TypeOK
  <1>3. ASSUME b[k] # None
        PROVE  b[k] \in Bucket /\ b[k].refilledAt \in Nat
                 /\ b[k].refilledAt <= clock
    BY <1>2, <1>3, GatewayAssumption DEF Bucket, Times, Room, Spent
  <1>4. ASSUME f.tokens = limit, f.refilledAt = clock
        PROVE  Spent(s, n, k, f)
    BY <1>1, <1>4, AdmissionsFinite DEF Spent
  <1>5. ASSUME f.tokens = limit, f.refilledAt = clock, b[k] # None,
               clock >= b[k].refilledAt + Window, <<s, n, k>> \notin crowded
        PROVE  Filled(s, n, k, f)
    BY <1>1, <1>3, <1>5, DueEmptied, EmptiedFilled DEF Room
  <1>6. CASE k \notin Kept(b)
    <2>1. f.tokens = limit /\ f.refilledAt = clock
      BY <1>6 DEF Found
    <2>2. CASE b[k] = None
      <3>1. <<s, n, k>> \notin crowded => Filled(s, n, k, f)
        BY <1>1, <2>1, <2>2, EmptiedFilled DEF Room
      <3> QED
        BY <1>1, <1>4, <2>1, <2>2, <3>1
    <2>3. CASE b[k] # None /\ k \in Stale(b)
      <3>1. clock >= b[k].refilledAt + Window
        BY <1>1, <1>3, <2>3, StaleDue, GatewayAssumption DEF Stale
      <3> QED
        BY <1>1, <1>4, <1>5, <2>1, <2>3, <3>1
    <2>4. CASE b[k] # None /\ k \notin Stale(b)
      <3>1. k \in Dropped(b)
        BY <1>6, <2>4 DEF Dropped
      <3> QED
        BY <1>1, <1>4, <2>1, <3>1
    <2> QED
      BY <2>2, <2>3, <2>4
  <1>7. CASE k \in Kept(b) /\ clock - b[k].refilledAt >= Window
    <2>1. b[k] # None
      BY <1>7 DEF Kept
    <2>2. f.tokens = limit /\ f.refilledAt = clock
      BY <1>3, <1>7, <2>1 DEF Found, Bucket
    <2>3. clock >= b[k].refilledAt + Window
      BY <1>1, <1>3, <1>7, <2>1
    <2> QED
      BY <1>1, <1>4, <1>5, <2>1, <2>2, <2>3
  <1>8. CASE k \in Kept(b) /\ ~(clock - b[k].refilledAt >= Window)
    <2>1. b[k] # None
      BY <1>8 DEF Kept
    <2>2. f = b[k]
      BY <1>8 DEF Found
    <2> QED
      BY <1>1, <1>3, <1>8, <2>1, <2>2 DEF Room
  <1> QED
    BY <1>6, <1>7, <1>8

\* A request whose ruling a step leaves as it is.
Still(x, q) ==
    /\ \/ Same(x, q) /\ Told(x, q)
       \/ x.verdict = None /\ q.verdict = None
    /\ x.stage \in {"incr", "counted"} => x.stage = q.stage

AllStill == \A r \in Reqs : Still(req'[r], req[r])

LEMMA StillAdmissions ==
    ASSUME AllStill, NEW s, NEW n, NEW k, NEW lo, NEW hi
    PROVE  Admissions(s, n, k, lo, hi)' = Admissions(s, n, k, lo, hi)
  <1>1. None # "admitted"
    BY GatewayAssumption
  <1> QED
    BY <1>1 DEF AllStill, Still, Same, Told, Admissions

\* A step that rules on no request.
Passing(s) ==
    /\ AllStill /\ crowded' = crowded
    /\ \A p \in Servers : p # s => UNCHANGED <<server[p], bucket[p]>>
    /\ \/ /\ UNCHANGED bucket
          /\ clock' >= clock
          /\ server'[s].life = server[s].life
          /\ server'[s].phase = "down" <=> server[s].phase = "down"
       \/ /\ clock' = clock /\ UNCHANGED bucket
          /\ server[s].phase = "down"
          /\ server'[s].life = server[s].life + 1
       \/ /\ clock' = clock
          /\ server'[s].phase = "down"
          /\ server'[s].life = server[s].life
          /\ \A k \in Keys : bucket'[s][k] = None

\* A step that rules on the request r, which asks as q does.
Rules(r, q) ==
    /\ q \in Request /\ q.srv \in Servers /\ q.key \in Keys
    /\ req[r].verdict = None
    /\ server[q.srv].phase = "listening" /\ q.life = server[q.srv].life
    /\ UNCHANGED <<clock, server>>
    /\ ConsumeMemory(r, q, LimitOfKey(q.key))

LEMMA MemoryStep ==
    ASSUME TypeOK, Asking, Ruling, MemoryRuling, store = "memory",
           [Next]_vars
    PROVE  \/ \E s : Passing(s)
           \/ \E r \in Reqs, q \in Request : Rules(r, q)
  <1>0. clock \in Nat
    BY ClockNat
  <1>1. CASE Tick \/ UNCHANGED vars
    <2>1. AllStill
      BY <1>1 DEF AllStill, Still, Same, Told, Tick, vars
    <2>2. PICK s : s = None
      OBVIOUS
    <2>3. Passing(s)
      BY <1>0, <1>1, <2>1 DEF Passing, Tick, vars
    <2> QED
      BY <2>3
  <1>2. CASE Arrival
    <2>1. PICK r \in Reqs, q \in Request :
            /\ req[r].stage = "idle"
            /\ UNCHANGED <<clock, store, server, counter, expires>>
            /\ q.srv \in Servers /\ q.key \in Keys
            /\ server[q.srv].phase = "listening"
            /\ q.life = server[q.srv].life
            /\ \/ /\ req' = [req EXCEPT ![r] = Answered]
                  /\ UNCHANGED <<bucket, crowded>>
               \/ /\ store = "memory"
                  /\ ConsumeMemory(r, q, LimitOfKey(q.key))
               \/ store = "redis"
      BY <1>2, ArriveEffect
    <2>2. req[r].verdict = None
      BY <2>1 DEF Ruling, Known
    <2>3. CASE ConsumeMemory(r, q, LimitOfKey(q.key))
      BY <2>1, <2>2, <2>3 DEF Rules
    <2>4. CASE /\ req' = [req EXCEPT ![r] = Answered]
               /\ UNCHANGED <<bucket, crowded>>
      <3>1. AllStill
        BY <2>2, <2>4, FreshFields DEF TypeOK, AllStill, Still, Same, Told
      <3>2. Passing(q.srv)
        BY <1>0, <2>1, <2>4, <3>1 DEF Passing
      <3> QED
        BY <2>1, <3>2
    <2> QED
      BY <2>1, <2>3, <2>4
  <1>3. ASSUME NEW s \in Servers, Listen(s) \/ Shutdown(s) \/ Release(s)
        PROVE  Passing(s)
    <2>1. AllStill
      BY <1>3 DEF AllStill, Still, Same, Told, Listen, Shutdown, Release
    <2>2. server[s] \in [phase : {"down", "listening", "closing"},
                         life : Nat, stops : SUBSET Steps]
      BY DEF TypeOK
    <2>3. CASE Listen(s)
      <3>1. server' = [server EXCEPT ![s] =
                         Process("listening", server[s].life + 1)]
        BY <2>3 DEF Listen
      <3>2. server'[s].life = server[s].life + 1
        BY <3>1 DEF TypeOK, Process
      <3>3. \A p \in Servers : p # s => server'[p] = server[p]
        BY <3>1 DEF TypeOK
      <3> QED
        BY <2>1, <2>3, <3>2, <3>3 DEF Passing, Listen
    <2>4. CASE Shutdown(s)
      <3>1. /\ server'[s].life = server[s].life
            /\ server'[s].phase # "down" /\ server[s].phase # "down"
            /\ \A p \in Servers : p # s => server'[p] = server[p]
        BY <2>2, <2>4 DEF TypeOK, Shutdown
      <3>2. UNCHANGED <<clock, bucket, crowded>>
        BY <2>4 DEF Shutdown
      <3> QED
        BY <1>0, <2>1, <3>1, <3>2 DEF Passing
    <2>5. CASE Release(s)
      <3>1. /\ server'[s].life = server[s].life
            /\ server'[s].phase = server[s].phase
            /\ \A p \in Servers : p # s => server'[p] = server[p]
        BY <2>2, <2>5 DEF TypeOK, Release
      <3> QED
        BY <1>0, <2>1, <2>5, <3>1 DEF Passing, Release
    <2> QED
      BY <1>3, <2>3, <2>4, <2>5
  <1>4. ASSUME NEW s \in Servers, Exit(s) \/ Kill(s)
        PROVE  Passing(s)
    <2>1. Gone(s)
      BY <1>4 DEF Exit, Kill
    <2>2. AllStill
      <3>1. \A r \in Reqs : \/ req'[r] = req[r]
                            \/ /\ Same(req'[r], req[r]) /\ Told(req'[r], req[r])
                               /\ req'[r].stage = "cut"
        BY <2>1, CutEffect
      <3> QED
        BY <3>1 DEF AllStill, Still, Same, Told
    <2>3. /\ server'[s].phase = "down" /\ server'[s].life = server[s].life
          /\ \A p \in Servers : p # s => server'[p] = server[p]
      BY <2>1 DEF TypeOK, Gone, Process
    <2>4. /\ \A k \in Keys : bucket'[s][k] = None
          /\ \A p \in Servers : p # s => bucket'[p] = bucket[p]
      BY <2>1 DEF TypeOK, Gone
    <2> QED
      BY <2>1, <2>2, <2>3, <2>4 DEF Passing, Gone
  <1>5. ASSUME NEW r \in Reqs, Continue(r) \/ Resend(r)
        PROVE  \E s : Passing(s)
    <2>1. req[r].stage \notin {"incr", "counted"}
      BY DEF MemoryRuling
    <2>2. Respond(r)
      BY <1>5, <2>1 DEF Continue, Incr, FirstHit, LaterHit, OverLimit,
                        RedisFails, Resend
    <2>3. PICK x : /\ req' = [req EXCEPT ![r] = x] /\ x.stage = "done"
                   /\ Same(x, req[r]) /\ Told(x, req[r])
      BY <2>2, EndEffect
    <2>4. AllStill
      BY <2>3 DEF TypeOK, AllStill, Still, Same, Told
    <2>5. PICK s : s = None
      OBVIOUS
    <2>6. Passing(s)
      BY <1>0, <2>2, <2>4 DEF Passing, Respond
    <2> QED
      BY <2>6
  <1> QED
    BY <1>1, <1>2, <1>3, <1>4, <1>5 DEF Next, Stopping

\* The request r is ruled on, asking as q does, and becomes x.
Gives(r, x, q) ==
    /\ req[r].verdict = None
    /\ req' = [req EXCEPT ![r] = x]
    /\ Same(x, q) /\ x.at = clock

\* What the request q, which found the bucket f, does to the buckets.
Consumes(q, f) ==
    /\ bucket'[q.srv][q.key] =
            IF f.tokens > 0 THEN [f EXCEPT !.tokens = @ - 1] ELSE f
    /\ \A k \in Keys :
        k # q.key => bucket'[q.srv][k] = IF k \in Kept(bucket[q.srv])
                                         THEN bucket[q.srv][k] ELSE None
    /\ \A p \in Servers : p # q.srv => bucket'[p] = bucket[p]
    /\ crowded' = crowded \cup
                    {<<q.srv, q.life, k>> : k \in Dropped(bucket[q.srv])}

LEMMA RulesEffect ==
    ASSUME TypeOK, NEW r \in Reqs, NEW q, Rules(r, q)
    PROVE  \E x, f : /\ f = Found(bucket[q.srv], q.key, LimitOfKey(q.key))
                     /\ Gives(r, x, q) /\ Outcome(x, q, f) /\ Consumes(q, f)
  <1>1. PICK f : f = Found(bucket[q.srv], q.key, LimitOfKey(q.key))
    OBVIOUS
  <1> DEFINE b == bucket[q.srv]
             spent == [f EXCEPT !.tokens = @ - 1]
  <1>2. /\ q \in Request /\ q.srv \in Servers /\ q.key \in Keys
        /\ LimitOfKey(q.key) \in Nat
        /\ ConsumeMemory(r, q, LimitOfKey(q.key))
    BY KeyLimitType DEF Rules
  <1>3. PICK x : req' = [req EXCEPT ![r] = x] /\ Outcome(x, q, f)
    BY <1>1, <1>2, MemoryRuled
  <1>4. /\ bucket' = [bucket EXCEPT ![q.srv] =
                        [k \in Keys |->
                            IF k = q.key
                            THEN IF f.tokens > 0 THEN spent ELSE f
                            ELSE IF k \in Kept(b) THEN b[k] ELSE None]]
        /\ crowded' = crowded \cup
                        {<<q.srv, q.life, k>> : k \in Dropped(b)}
    BY <1>1, <1>2 DEF ConsumeMemory
  <1> HIDE DEF spent, b
  <1>5. /\ bucket'[q.srv][q.key] = IF f.tokens > 0 THEN spent ELSE f
        /\ \A k \in Keys : k # q.key =>
              bucket'[q.srv][k] = IF k \in Kept(b) THEN b[k] ELSE None
        /\ \A p \in Servers : p # q.srv => bucket'[p] = bucket[p]
    BY <1>2, <1>4 DEF TypeOK
  <1>6. Consumes(q, f)
    BY <1>4, <1>5 DEF Consumes, spent, b
  <1>7. Gives(r, x, q)
    BY <1>3 DEF Gives, Rules, Outcome
  <1> QED
    BY <1>1, <1>3, <1>6, <1>7

LEMMA RuledAdmissions ==
    ASSUME TypeOK, NEW r \in Reqs, NEW x, NEW q, Gives(r, x, q),
           NEW s, NEW n, NEW k, NEW lo, NEW hi
    PROVE  LET A == Admissions(s, n, k, lo, hi)
           IN  /\ r \notin A /\ A \subseteq A' /\ A' \subseteq A \cup {r}
               /\ r \in A' <=> /\ x.verdict = "admitted"
                              /\ s = q.srv /\ n = q.life /\ k = q.key
                              /\ clock \in lo .. hi
  <1>1. /\ req'[r] = x
        /\ \A p \in Reqs : p # r => req'[p] = req[p]
    BY DEF TypeOK, Gives
  <1>2. r \notin Admissions(s, n, k, lo, hi)
    BY GatewayAssumption DEF Admissions, Gives
  <1> QED
    BY <1>1, <1>2 DEF Admissions, Same, Gives

LEMMA RuledElsewhere ==
    ASSUME TypeOK, NEW r \in Reqs, NEW x, NEW q, Gives(r, x, q),
           NEW s, NEW n, NEW k, NEW lo, NEW hi,
           \/ x.verdict # "admitted"
           \/ s # q.srv \/ k # q.key \/ n # q.life
           \/ clock \notin lo .. hi
    PROVE  Admissions(s, n, k, lo, hi)' = Admissions(s, n, k, lo, hi)
  <1> DEFINE A == Admissions(s, n, k, lo, hi)
  <1>1. /\ r \notin A' /\ A \subseteq A' /\ A' \subseteq A \cup {r}
    BY RuledAdmissions
  <1> QED
    BY <1>1

LEMMA RuledHere ==
    ASSUME TypeOK, NEW r \in Reqs, NEW x, NEW q, Gives(r, x, q),
           NEW s, NEW n, NEW k, NEW lo, NEW hi, x.verdict = "admitted",
           s = q.srv, n = q.life, k = q.key, clock \in lo .. hi
    PROVE  Cardinality(Admissions(s, n, k, lo, hi)') =
                Cardinality(Admissions(s, n, k, lo, hi)) + 1
  <1> DEFINE A == Admissions(s, n, k, lo, hi)
  <1>1. r \notin A /\ A' = A \cup {r}
    <2>1. /\ r \notin A /\ A \subseteq A' /\ A' \subseteq A \cup {r}
          /\ r \in A'
      BY RuledAdmissions
    <2> QED
      BY <2>1
  <1>2. IsFiniteSet(A)
    BY AdmissionsFinite
  <1> HIDE DEF A
  <1>3. Cardinality(A \cup {r}) = Cardinality(A) + 1
    BY <1>1, <1>2, FS_AddElement
  <1>4. Cardinality(A') = Cardinality(A) + 1
    BY <1>1, <1>3
  <1> QED
    BY <1>4 DEF A

NobodyNew(s, n, k) ==
    \A lo, hi :
        Admissions(s, n, k, lo, hi)' = Admissions(s, n, k, lo, hi)

\* The window behind a later clock starts later.
LEMMA WindowMovesOn ==
    ASSUME NEW now \in Nat, NEW later \in Nat, later >= now
    PROVE  \A t \in Times : t > later - Window => t > now - Window
  <1>1. Window \in Nat /\ Times \subseteq Nat
    BY GatewayAssumption DEF Times
  <1>2. \A t \in Nat : t > later - Window => t > now - Window
    BY <1>1
  <1> QED
    BY <1>1, <1>2

\* What a room holds it keeps while nobody is admitted to it.
LEMMA RoomKept ==
    ASSUME TypeOK, NEW s, NEW n, NEW k, NEW b \in Bucket \cup {None},
           Room(s, n, k, b), clock' \in Nat, clock' >= clock,
           crowded \subseteq crowded',
           NobodyNew(s, n, k)
    PROVE  Room(s, n, k, b)'
  <1>1. clock \in Nat /\ MaxTime \in Nat /\ Window \in Nat \ {0}
    BY ClockNat, GatewayAssumption
  <1>2. ASSUME b # None
        PROVE  Spent(s, n, k, b)'
    <2>1. b.refilledAt \in Nat
      BY <1>2, GatewayAssumption DEF Bucket, Times
    <2> QED
      BY <1>1, <1>2, <2>1 DEF Room, Spent, NobodyNew
  <1>3. ASSUME b # None, <<s, n, k>> \notin crowded
        PROVE  Filled(s, n, k, b)'
    BY <1>3 DEF Room, Filled, NobodyNew
  <1>4. ASSUME b = None, <<s, n, k>> \notin crowded
        PROVE  Emptied(s, n, k)'
    <2>1. Emptied(s, n, k)
      BY <1>4 DEF Room
    <2>2. Admissions(s, n, k, clock', MaxTime) \subseteq
            Admissions(s, n, k, clock, MaxTime)
      BY <1>1 DEF Admissions
    <2>3. Admissions(s, n, k, clock', MaxTime) = {}
      BY <2>1, <2>2 DEF Emptied
    <2>4. \A t \in Times : t > clock' - Window => t > clock - Window
      BY <1>1, WindowMovesOn
    <2>5. \A c : c = clock' =>
            Admissions(s, n, k, c, MaxTime)' = Admissions(s, n, k, c, MaxTime)
      BY DEF NobodyNew
    <2>6. Admissions(s, n, k, clock, MaxTime)' = {}
      BY <2>3, <2>5
    <2>7. \A t \in Times : Admissions(s, n, k, t, MaxTime)' =
                                Admissions(s, n, k, t, MaxTime)
      BY DEF NobodyNew
    <2> QED
      BY <2>1, <2>4, <2>6, <2>7 DEF Emptied
  <1> QED
    BY <1>2, <1>3, <1>4 DEF Room

\* What a request that is ruled on finds.
RuledOn(q, f) ==
    /\ f \in Bucket
    /\ f.refilledAt <= clock /\ f.refilledAt > clock - Window
    /\ Spent(q.srv, q.life, q.key, f)
    /\ <<q.srv, q.life, q.key>> \notin crowded' =>
            Filled(q.srv, q.life, q.key, f)
    /\ LET b == bucket[q.srv][q.key]
       IN  \/ f = b /\ b # None
           \/ /\ f.refilledAt = clock
              /\ \/ b = None
                 \/ <<q.srv, q.life, q.key>> \in crowded'
                 \/ clock >= b.refilledAt + Window

LEMMA RoomOf ==
    ASSUME TypeOK, Rooms, store = "memory", NEW s \in Servers, NEW k \in Keys
    PROVE  /\ server[s].phase = "down" => bucket[s][k] = None
           /\ server[s].phase # "down" =>
                    Room(s, server[s].life, k, bucket[s][k])
  <1>1. server[s].life \in Nat /\ bucket[s][k] \in Bucket \cup {None}
    BY DEF TypeOK
  <1> QED
    BY <1>1 DEF Rooms

LEMMA RulesFound ==
    ASSUME TypeOK, Rooms, store = "memory", NEW r \in Reqs, NEW q, Rules(r, q)
    PROVE  RuledOn(q, Found(bucket[q.srv], q.key, LimitOfKey(q.key)))
  <1> DEFINE s == q.srv
             k == q.key
             f == Found(bucket[s], k, LimitOfKey(k))
  <1>1. /\ s \in Servers /\ k \in Keys /\ q.life = server[s].life
        /\ server[s].phase # "down"
    BY DEF Rules
  <1>2. Room(s, q.life, k, bucket[s][k])
    BY <1>1, RoomOf
  <1>3. /\ f \in Bucket
        /\ f.refilledAt <= clock /\ f.refilledAt > clock - Window
        /\ Spent(s, q.life, k, f)
        /\ <<s, q.life, k>> \notin crowded /\ k \notin Dropped(bucket[s]) =>
                Filled(s, q.life, k, f)
        /\ \/ f = bucket[s][k] /\ bucket[s][k] # None
           \/ /\ f.refilledAt = clock
              /\ \/ bucket[s][k] = None
                 \/ k \in Dropped(bucket[s])
                 \/ clock >= bucket[s][k].refilledAt + Window
    BY <1>1, <1>2, FoundRoom
  <1>4. /\ crowded \subseteq crowded'
        /\ k \in Dropped(bucket[s]) => <<s, q.life, k>> \in crowded'
    <2>1. crowded' = crowded \cup {<<s, q.life, j>> : j \in Dropped(bucket[s])}
      <3>1. PICK x, g : Consumes(q, g)
        BY RulesEffect
      <3> QED
        BY <3>1 DEF Consumes
    <2> QED
      BY <2>1
  <1> HIDE DEF f
  <1> QED
    BY <1>3, <1>4 DEF RuledOn, f

LEMMA MemoryRulingStep ==
    ASSUME TypeOK, Asking, Ruling, MemoryRuling, Rooms, [Next]_vars
    PROVE  MemoryRuling'
  <1> SUFFICES ASSUME store' = "memory", NEW p \in Reqs
               PROVE  /\ req'[p].stage \notin {"incr", "counted"}
                      /\ req'[p].verdict # None =>
                            /\ req'[p].srv \in Servers
                            /\ req'[p].life <= server'[req'[p].srv].life
                      /\ req'[p].verdict = "refused" =>
                            /\ req'[p].decided = req'[p].at
                            /\ req'[p].retry \in 1 .. Window
    BY DEF MemoryRuling
  <1>1. store = "memory"
    BY TimesStep
  <1>2. /\ req[p].stage \notin {"incr", "counted"}
        /\ req[p].verdict # None =>
              /\ req[p].srv \in Servers
              /\ req[p].life <= server[req[p].srv].life
        /\ req[p].verdict = "refused" =>
              req[p].decided = req[p].at /\ req[p].retry \in 1 .. Window
    BY <1>1 DEF MemoryRuling
  <1>3. /\ req[p].life \in Nat
        /\ \A s \in Servers : server[s].life \in Nat
    BY DEF TypeOK, Request
  <1>4. None # "refused"
    BY GatewayAssumption
  <1>5. ASSUME NEW s, Passing(s)
        PROVE  /\ req'[p].stage \notin {"incr", "counted"}
               /\ req'[p].verdict # None =>
                      /\ req'[p].srv \in Servers
                      /\ req'[p].life <= server'[req'[p].srv].life
               /\ req'[p].verdict = "refused" =>
                      /\ req'[p].decided = req'[p].at
                      /\ req'[p].retry \in 1 .. Window
    <2>1. Still(req'[p], req[p])
      BY <1>5 DEF Passing, AllStill
    <2>2. \A t \in Servers : server'[t].life >= server[t].life
                              /\ server'[t].life \in Nat
      BY <1>3, <1>5 DEF Passing
    <2> QED
      BY <1>2, <1>3, <1>4, <2>1, <2>2 DEF Still, Same, Told
  <1>6. ASSUME NEW r \in Reqs, NEW q \in Request, Rules(r, q)
        PROVE  /\ req'[p].stage \notin {"incr", "counted"}
               /\ req'[p].verdict # None =>
                      /\ req'[p].srv \in Servers
                      /\ req'[p].life <= server'[req'[p].srv].life
               /\ req'[p].verdict = "refused" =>
                      /\ req'[p].decided = req'[p].at
                      /\ req'[p].retry \in 1 .. Window
    <2>1. PICK x, f : /\ f = Found(bucket[q.srv], q.key, LimitOfKey(q.key))
                      /\ Gives(r, x, q) /\ Outcome(x, q, f)
      BY <1>6, RulesEffect
    <2>2. RuledOn(q, f)
      BY <1>1, <1>6, <2>1, RulesFound
    <2>3. /\ q.srv \in Servers /\ q.life = server[q.srv].life
          /\ server' = server
      BY <1>6 DEF Rules
    <2>4. UNCHANGED req[p] \/ (p = r /\ req'[p] = x)
      BY <2>1 DEF TypeOK, Gives
    <2>5. f.refilledAt \in Nat /\ clock \in Nat /\ Window \in Nat
      BY <2>2, ClockNat, GatewayAssumption DEF RuledOn, Bucket, Times
    <2>6. Window - (clock - f.refilledAt) \in 1 .. Window
      BY <2>2, <2>5 DEF RuledOn
    <2>7. Positive(Window - (clock - f.refilledAt)) \in 1 .. Window
      BY <2>5, <2>6 DEF Positive
    <2>8. CASE UNCHANGED req[p]
      BY <1>2, <2>3, <2>8
    <2>9. CASE p = r /\ req'[p] = x
      BY <1>3, <2>1, <2>3, <2>7, <2>9 DEF Outcome, Same
    <2> QED
      BY <2>4, <2>8, <2>9
  <1> QED
    BY <1>1, <1>5, <1>6, MemoryStep

LEMMA RoomsStep ==
    ASSUME TypeOK, TypeOK', Asking, Ruling, MemoryRuling, Rooms, [Next]_vars
    PROVE  Rooms'
  <1> SUFFICES ASSUME store' = "memory", NEW s \in Servers, NEW k \in Keys,
                      NEW n \in Nat, NEW b \in Bucket \cup {None},
                      n = server'[s].life, b = bucket'[s][k]
               PROVE  /\ server'[s].phase = "down" => b = None
                      /\ server'[s].phase # "down" => Room(s, n, k, b)'
    BY DEF Rooms
  <1>1. store = "memory"
    BY TimesStep
  <1>2. /\ clock \in Nat /\ clock' \in Nat
        /\ MaxTime \in Nat /\ Window \in Nat \ {0}
    BY ClockNat, GatewayAssumption DEF TypeOK, Times
  <1>3. bucket[s][k] \in Bucket \cup {None} /\ b \in Bucket \cup {None}
    BY DEF TypeOK
  <1>4. /\ server[s].phase = "down" => bucket[s][k] = None
        /\ server[s].phase # "down" =>
                Room(s, server[s].life, k, bucket[s][k])
    BY <1>1, RoomOf
  <1>5. ASSUME server[s].phase # "down", bucket[s][k] = b,
               server[s].life = n, NobodyNew(s, n, k),
               crowded \subseteq crowded', clock' >= clock
        PROVE  Room(s, n, k, b)'
    BY <1>2, <1>3, <1>4, <1>5, RoomKept
  <1>6. ASSUME NEW p, Passing(p)
        PROVE  /\ server'[s].phase = "down" => b = None
               /\ server'[s].phase # "down" => Room(s, n, k, b)'
    <2>1. /\ NobodyNew(s, n, k) /\ crowded \subseteq crowded'
          /\ clock' >= clock
      BY <1>2, <1>6, StillAdmissions DEF Passing, NobodyNew
    <2>2. CASE /\ UNCHANGED bucket
               /\ server'[s].life = server[s].life
               /\ server'[s].phase = "down" <=> server[s].phase = "down"
      BY <1>4, <1>5, <2>1, <2>2
    <2>3. CASE /\ s = p /\ UNCHANGED bucket /\ server[s].phase = "down"
               /\ server'[s].life = server[s].life + 1
      <3>1. b = None
        BY <1>4, <2>3
      <3>2. ASSUME NEW lo, NEW hi
            PROVE  Admissions(s, n, k, lo, hi)' = {}
        <4>1. Admissions(s, n, k, lo, hi) = {}
          <5>1. server[s].life \in Nat /\ n = server[s].life + 1
            BY <2>3 DEF TypeOK
          <5>2. ASSUME NEW r \in Reqs, req[r].verdict = "admitted",
                       req[r].srv = s
                PROVE  req[r].life # n
            <6>1. req[r].life <= server[s].life /\ req[r].life \in Nat
              BY <1>1, <5>2, GatewayAssumption
              DEF MemoryRuling, TypeOK, Request
            <6> QED
              BY <5>1, <6>1
          <5> QED
            BY <5>2 DEF Admissions
        <4> QED
          BY <2>1, <4>1 DEF NobodyNew
      <3>3. Emptied(s, n, k)'
        <4>1. Admissions(s, n, k, clock, MaxTime)' = {}
          <5>1. \A c : Admissions(s, n, k, c, MaxTime)' = {}
            BY <3>2
          <5>2. PICK c : c = clock'
            OBVIOUS
          <5> QED
            BY <5>1, <5>2 DEF Admissions
        <4>2. \A t \in Times :
                Cardinality(Admissions(s, n, k, t, MaxTime)') <= LimitOfKey(k)
          BY <3>2, FS_EmptySet, KeyLimitType
        <4> QED
          BY <4>1, <4>2 DEF Emptied
      <3> QED
        BY <3>1, <3>3 DEF Room
    <2>4. CASE server'[s].phase = "down" /\ b = None
      BY <2>4
    <2>5. CASE s # p
      <3>1. server'[s] = server[s] /\ bucket'[s] = bucket[s]
        BY <1>6, <2>5 DEF Passing
      <3> QED
        BY <1>4, <1>5, <2>1, <3>1
    <2> QED
      BY <1>6, <2>2, <2>3, <2>4, <2>5 DEF Passing
  <1>7. ASSUME NEW r \in Reqs, NEW q \in Request, Rules(r, q)
        PROVE  /\ server'[s].phase = "down" => b = None
               /\ server'[s].phase # "down" => Room(s, n, k, b)'
    <2>1. PICK x, f : /\ f = Found(bucket[q.srv], q.key, LimitOfKey(q.key))
                      /\ Gives(r, x, q) /\ Outcome(x, q, f)
                      /\ Consumes(q, f)
      BY <1>7, RulesEffect
    <2>2. RuledOn(q, f)
      BY <1>1, <1>7, <2>1, RulesFound
    <2>3. server[q.srv].phase = "listening"
      BY <1>7 DEF Rules
    <2>4. server' = server /\ clock' = clock /\ crowded \subseteq crowded'
      BY <1>7, <2>1 DEF Rules, Consumes
    <2>5. ASSUME ~(s = q.srv /\ k = q.key)
          PROVE  NobodyNew(s, n, k)
      <3>1. ASSUME NEW lo, NEW hi
            PROVE  Admissions(s, n, k, lo, hi)' = Admissions(s, n, k, lo, hi)
        BY <2>1, <2>5, RuledElsewhere
      <3> QED
        BY <3>1 DEF NobodyNew
    <2>6. CASE s # q.srv
      <3>1. b = bucket[s][k]
        BY <2>1, <2>6 DEF Consumes
      <3> QED
        BY <1>2, <1>4, <1>5, <2>4, <2>5, <2>6, <3>1
    <2>7. CASE s = q.srv /\ k # q.key
      <3>1. /\ b = IF k \in Kept(bucket[s]) THEN bucket[s][k] ELSE None
            /\ crowded' = crowded \cup
                    {<<s, q.life, j>> : j \in Dropped(bucket[s])}
        BY <2>1, <2>7 DEF Consumes
      <3>2. /\ n = server[s].life /\ n = q.life /\ server[s].phase # "down"
            /\ NobodyNew(s, n, k) /\ clock' >= clock
        BY <1>2, <1>7, <2>4, <2>5, <2>7 DEF Rules
      <3>3. CASE b = bucket[s][k]
        BY <1>5, <2>4, <3>2, <3>3
      <3>4. CASE b # bucket[s][k]
        <4>1. b = None /\ bucket[s][k] # None /\ k \notin Kept(bucket[s])
          BY <3>1, <3>4
        <4>2. ASSUME <<s, n, k>> \notin crowded'
              PROVE  Emptied(s, n, k)
          <5>1. /\ <<s, n, k>> \notin crowded /\ k \notin Dropped(bucket[s])
            BY <3>1, <3>2, <4>2
          <5>2. k \in Stale(bucket[s])
            BY <4>1, <5>1 DEF Dropped
          <5>3. /\ Filled(s, n, k, bucket[s][k])
                /\ bucket[s][k] \in Bucket /\ bucket[s][k].refilledAt \in Nat
            BY <1>3, <1>4, <3>2, <4>1, <5>1, GatewayAssumption
            DEF Room, Bucket, Times
          <5>4. clock >= bucket[s][k].refilledAt + Window
            BY <1>2, <5>2, <5>3, StaleDue, GatewayAssumption DEF Stale
          <5> QED
            BY <5>3, <5>4, DueEmptied
        <4>3. CASE <<s, n, k>> \in crowded'
          BY <4>1, <4>3 DEF Room
        <4>4. CASE <<s, n, k>> \notin crowded'
          <5>1. Room(s, n, k, None)
            BY <4>2, <4>4 DEF Room
          <5> QED
            BY <1>2, <2>4, <3>2, <4>1, <5>1, RoomKept
        <4> QED
          BY <4>3, <4>4
      <3> QED
        BY <3>3, <3>4
    <2>8. CASE s = q.srv /\ k = q.key
      <3>1. /\ b = IF f.tokens > 0 THEN [f EXCEPT !.tokens = @ - 1] ELSE f
            /\ n = q.life
        BY <1>7, <2>1, <2>4, <2>8 DEF Rules, Consumes
      <3>2. /\ f \in Bucket /\ f.refilledAt \in Nat /\ f.tokens \in Nat
            /\ f.refilledAt <= clock /\ clock < f.refilledAt + Window
            /\ clock <= MaxTime
            /\ Spent(s, n, k, f)
            /\ <<s, n, k>> \notin crowded' => Filled(s, n, k, f)
        <4>1. f \in Bucket /\ f.refilledAt \in Nat /\ f.tokens \in Nat
          BY <2>2, GatewayAssumption DEF RuledOn, Bucket, Times
        <4>2. clock <= MaxTime
          BY ClockNat, GatewayAssumption DEF Times
        <4> QED
          BY <1>2, <2>2, <2>8, <3>1, <4>1, <4>2 DEF RuledOn
      <3>3. /\ b \in Bucket /\ b # None
            /\ b.refilledAt = f.refilledAt
            /\ f.tokens > 0 => b.tokens = f.tokens - 1
            /\ f.tokens = 0 => b.tokens = 0
        BY <3>1, <3>2, NoneApart DEF Bucket
      <3> DEFINE R == f.refilledAt
      <3>4. ASSUME NEW lo, NEW hi, clock \notin lo .. hi
            PROVE  Admissions(s, n, k, lo, hi)' = Admissions(s, n, k, lo, hi)
        BY <2>1, <3>4, RuledElsewhere
      <3>5. Cardinality(Admissions(s, n, k, R, MaxTime)') + b.tokens =
                Cardinality(Admissions(s, n, k, R, MaxTime)) + f.tokens
        <4>1. Cardinality(Admissions(s, n, k, R, MaxTime)) \in Nat
          BY AdmissionsFinite
        <4>2. CASE f.tokens > 0
          <5>1. clock \in R .. MaxTime /\ x.verdict = "admitted"
            BY <1>2, <2>1, <3>2, <4>2 DEF Outcome
          <5>2. Cardinality(Admissions(s, n, k, R, MaxTime)') =
                    Cardinality(Admissions(s, n, k, R, MaxTime)) + 1
            BY <2>1, <2>8, <3>1, <5>1, RuledHere
          <5> QED
            BY <3>2, <3>3, <4>1, <4>2, <5>2
        <4>3. CASE f.tokens = 0
          <5>1. x.verdict # "admitted"
            BY <2>1, <4>3 DEF Outcome
          <5>2. Admissions(s, n, k, R, MaxTime)' =
                    Admissions(s, n, k, R, MaxTime)
            BY <2>1, <5>1, RuledElsewhere
          <5> QED
            BY <3>3, <4>3, <5>2
        <4> QED
          BY <3>2, <4>2, <4>3
      <3>6. Spent(s, n, k, b)'
        BY <2>4, <3>2, <3>3, <3>5 DEF Spent
      <3>7. ASSUME <<s, n, k>> \notin crowded'
            PROVE  Filled(s, n, k, b)'
        <4>1. Filled(s, n, k, f)
          BY <3>2, <3>7
        <4>2. Admissions(s, n, k, R + Window, MaxTime)' = {}
          <5>1. clock \notin (R + Window) .. MaxTime
            BY <1>2, <3>2
          <5> QED
            BY <3>4, <4>1, <5>1 DEF Filled
        <4>3. ASSUME NEW t \in Times, t > R - Window
              PROVE  Cardinality(Admissions(s, n, k, t, R - 1)')
                        <= LimitOfKey(k)
          <5>1. clock \notin t .. R - 1
            BY <1>2, <3>2
          <5>2. Admissions(s, n, k, t, R - 1)' = Admissions(s, n, k, t, R - 1)
            BY <3>4, <5>1
          <5> QED
            BY <4>1, <4>3, <5>2 DEF Filled
        <4>4. Cardinality(Admissions(s, n, k, R, MaxTime)') + b.tokens
                <= LimitOfKey(k)
          BY <3>5, <4>1 DEF Filled
        <4> QED
          BY <3>3, <4>2, <4>3, <4>4 DEF Filled
      <3> QED
        BY <2>3, <2>4, <2>8, <3>3, <3>6, <3>7 DEF Room
    <2> QED
      BY <2>6, <2>7, <2>8
  <1> QED
    BY <1>1, <1>6, <1>7, MemoryStep

LEMMA UnionBound ==
    ASSUME NEW S, NEW T, IsFiniteSet(S), IsFiniteSet(T),
           NEW U, U \subseteq S \cup T
    PROVE  Cardinality(U) <= Cardinality(S) + Cardinality(T)
  <1>1. /\ IsFiniteSet(S \cup T) /\ IsFiniteSet(S \cap T)
        /\ Cardinality(S \cup T) =
                Cardinality(S) + Cardinality(T) - Cardinality(S \cap T)
    BY FS_Union, FS_Intersection
  <1>2. IsFiniteSet(U) /\ Cardinality(U) <= Cardinality(S \cup T)
    BY <1>1, FS_Subset
  <1>3. /\ Cardinality(S) \in Nat /\ Cardinality(T) \in Nat
        /\ Cardinality(S \cap T) \in Nat /\ Cardinality(U) \in Nat
    BY <1>1, <1>2, FS_CardinalityType
  <1> QED
    BY <1>1, <1>2, <1>3

LEMMA SpacedStep ==
    ASSUME TypeOK, Asking, Ruling, MemoryRuling, Rooms, Spaced, [Next]_vars
    PROVE  Spaced'
  <1> SUFFICES ASSUME store' = "memory", NEW s \in Servers, NEW n \in Nat,
                      NEW k \in Keys, NEW t \in Times,
                      <<s, n, k>> \notin crowded'
               PROVE  Cardinality(Admissions(s, n, k, t, t + Window - 1)')
                        <= 2 * LimitOfKey(k)
    BY DEF Spaced, SpacedOf
  <1> DEFINE u == t + Window - 1
  <1>1. store = "memory"
    BY TimesStep
  <1>2. /\ clock \in Nat /\ clock <= MaxTime /\ MaxTime \in Nat
        /\ Window \in Nat \ {0} /\ t \in Nat /\ LimitOfKey(k) \in Nat
    BY ClockNat, GatewayAssumption, KeyLimitType DEF Times
  <1>3. <<s, n, k>> \notin crowded =>
            Cardinality(Admissions(s, n, k, t, u)) <= 2 * LimitOfKey(k)
    BY <1>1 DEF Spaced, SpacedOf
  <1>4. ASSUME NEW p, Passing(p)
        PROVE  Cardinality(Admissions(s, n, k, t, u)') <= 2 * LimitOfKey(k)
    BY <1>3, <1>4, StillAdmissions DEF Passing
  <1>5. ASSUME NEW r \in Reqs, NEW q \in Request, Rules(r, q)
        PROVE  Cardinality(Admissions(s, n, k, t, u)') <= 2 * LimitOfKey(k)
    <2>1. PICK x, f : /\ f = Found(bucket[q.srv], q.key, LimitOfKey(q.key))
                      /\ Gives(r, x, q) /\ Outcome(x, q, f)
                      /\ Consumes(q, f)
      BY <1>5, RulesEffect
    <2>2. RuledOn(q, f)
      BY <1>1, <1>5, <2>1, RulesFound
    <2>3. <<s, n, k>> \notin crowded
      BY <2>1 DEF Consumes
    <2>4. CASE \/ x.verdict # "admitted"
               \/ s # q.srv \/ k # q.key \/ n # q.life
               \/ clock \notin t .. u
      <3>1. Admissions(s, n, k, t, u)' = Admissions(s, n, k, t, u)
        BY <2>1, <2>4, RuledElsewhere
      <3> QED
        BY <1>3, <2>3, <3>1
    <2>5. CASE /\ x.verdict = "admitted"
               /\ s = q.srv /\ k = q.key /\ n = q.life
               /\ clock \in t .. u
      <3> DEFINE R == f.refilledAt
                 A == Admissions(s, n, k, t, R - 1)
                 B == Admissions(s, n, k, R, MaxTime)
      <3>1. /\ Filled(s, n, k, f) /\ f \in Bucket
            /\ R \in Nat /\ R <= clock /\ f.tokens \in Nat /\ f.tokens > 0
        BY <2>1, <2>2, <2>5, GatewayAssumption
        DEF RuledOn, Bucket, Times, Outcome
      <3>2. t > R - Window
        BY <1>2, <2>5, <3>1
      <3>3. /\ Cardinality(A) <= LimitOfKey(k)
            /\ Cardinality(B) + f.tokens <= LimitOfKey(k)
        BY <3>1, <3>2 DEF Filled
      <3>4. Admissions(s, n, k, t, u) \subseteq A \cup B
        <4>1. ASSUME NEW p \in Admissions(s, n, k, t, u)
              PROVE  p \in A \cup B
          <5>1. p \in Reqs /\ req[p].at \in t .. u /\ req[p] \in Request
            BY DEF TypeOK, Admissions
          <5>2. req[p].at \in Nat /\ req[p].at <= MaxTime
            BY <1>2, <5>1, GatewayAssumption DEF Request, Times, Never
          <5>3. req[p].at \in t .. R - 1 \/ req[p].at \in R .. MaxTime
            BY <1>2, <3>1, <5>1, <5>2
          <5> QED
            BY <5>3 DEF Admissions
        <4> QED
          BY <4>1
      <3>5. IsFiniteSet(A) /\ IsFiniteSet(B)
            /\ Cardinality(A) \in Nat /\ Cardinality(B) \in Nat
            /\ Cardinality(Admissions(s, n, k, t, u)) \in Nat
        BY AdmissionsFinite
      <3>6. Cardinality(Admissions(s, n, k, t, u))
                <= Cardinality(A) + Cardinality(B)
        BY <3>4, <3>5, UnionBound
      <3>7. Cardinality(Admissions(s, n, k, t, u)') =
                Cardinality(Admissions(s, n, k, t, u)) + 1
        BY <2>1, <2>5, RuledHere
      <3> HIDE DEF A, B
      <3> QED
        BY <1>2, <3>1, <3>3, <3>5, <3>6, <3>7
    <2> QED
      BY <2>4, <2>5
  <1> QED
    BY <1>1, <1>4, <1>5, MemoryStep

\* The promise made to a refused request is kept by every step.
LEMMA PromiseKept ==
    ASSUME TypeOK, TypeOK', Rooms, store = "memory", NEW z \in Request,
           z.srv \in Servers, z.key \in Keys, z.retry \in 1 .. Window,
           z.life <= server[z.srv].life, Promised(z),
           \/ \E s : Passing(s)
           \/ \E r \in Reqs, q \in Request : Rules(r, q)
    PROVE  Promised(z)'
  <1> DEFINE s == z.srv
             k == z.key
             B == bucket[s][k]
  <1>1. /\ clock \in Nat /\ Window \in Nat /\ z.decided \in Nat
        /\ z.retry \in Nat /\ z.retry >= 1 /\ z.retry <= Window
        /\ z.life \in Nat /\ server[s].life \in Nat
    BY ClockNat, GatewayAssumption, RequestNumbers DEF TypeOK, Request
  <1>2. B \in Bucket \cup {None} /\ (B # None => B.refilledAt \in Nat)
    BY GatewayAssumption DEF TypeOK, Bucket, Times
  <1>3. ASSUME NEW p, Passing(p)
        PROVE  Promised(z)'
    <2>1. crowded' = crowded /\ clock' >= clock
      BY <1>1, <1>3 DEF Passing
    <2>2. CASE bucket'[s][k] = B /\ server'[s].life = server[s].life
                /\ (server'[s].phase = "down" <=> server[s].phase = "down")
      <3>1. Keeps(B, z) => Keeps(bucket[s][k], z)'
        <4>1. clock' \in Nat
          BY GatewayAssumption DEF TypeOK, Times
        <4> QED
          BY <1>1, <2>1, <2>2, <4>1 DEF Keeps
      <3> QED
        BY <2>1, <2>2, <3>1 DEF Promised
    <2>3. CASE server'[s].life = server[s].life + 1
      BY <1>1, <2>3 DEF Promised
    <2>4. CASE server'[s].phase = "down"
      BY <2>4 DEF Promised
    <2>5. \/ /\ bucket'[s][k] = B /\ server'[s].life = server[s].life
             /\ (server'[s].phase = "down" <=> server[s].phase = "down")
          \/ server'[s].life = server[s].life + 1
          \/ server'[s].phase = "down"
      BY <1>3 DEF Passing
    <2> QED
      BY <2>2, <2>3, <2>4, <2>5
  <1>4. ASSUME NEW r \in Reqs, NEW q \in Request, Rules(r, q)
        PROVE  Promised(z)'
    <2>1. PICK x, f : /\ f = Found(bucket[q.srv], q.key, LimitOfKey(q.key))
                      /\ Consumes(q, f)
      BY <1>4, RulesEffect
    <2>2. RuledOn(q, f)
      BY <1>4, <2>1, RulesFound
    <2>3. server' = server /\ clock' = clock /\ crowded \subseteq crowded'
      BY <1>4, <2>1 DEF Rules, Consumes
    <2>4. SUFFICES ASSUME Keeps(B, z), z.life = server[s].life,
                          server[s].phase # "down",
                          <<s, z.life, k>> \notin crowded'
                   PROVE  Keeps(bucket[s][k], z)'
      BY <2>3 DEF Promised
    <2>5. CASE bucket'[s][k] = B
      BY <2>3, <2>4, <2>5 DEF Keeps
    <2>6. B # None /\ clock >= B.refilledAt + Window =>
                clock >= z.decided + z.retry
      BY <1>1, <1>2, <2>4 DEF Keeps
    <2>7. CASE s = q.srv /\ k # q.key
      <3>1. /\ bucket'[s][k] = IF k \in Kept(bucket[s]) THEN B ELSE None
            /\ k \notin Dropped(bucket[s])
        BY <1>4, <2>1, <2>4, <2>7 DEF Consumes, Rules
      <3>2. CASE B # None /\ k \notin Kept(bucket[s])
        <4>1. k \in Stale(bucket[s])
          BY <3>1, <3>2 DEF Dropped
        <4>2. clock >= B.refilledAt + Window
          BY <1>1, <1>2, <3>2, <4>1, StaleDue, GatewayAssumption DEF Stale
        <4> QED
          BY <2>3, <2>6, <3>1, <3>2, <4>2 DEF Keeps
      <3> QED
        BY <2>5, <3>1, <3>2
    <2>8. CASE s = q.srv /\ k = q.key
      <3>1. /\ bucket'[s][k] # None
            /\ bucket'[s][k].refilledAt = f.refilledAt
        BY <2>1, <2>2, <2>8, NoneApart DEF Consumes, RuledOn, Bucket
      <3>2. z.life = q.life
        BY <1>4, <2>4, <2>8 DEF Rules
      <3>3. \/ f = B /\ B # None
            \/ /\ f.refilledAt = clock
               /\ B = None \/ clock >= B.refilledAt + Window
        BY <2>2, <2>4, <2>8, <3>2 DEF RuledOn
      <3>4. CASE f = B /\ B # None
        BY <2>4, <3>1, <3>4 DEF Keeps
      <3>5. CASE /\ f.refilledAt = clock
                 /\ B = None \/ clock >= B.refilledAt + Window
        <4>1. clock >= z.decided + z.retry
          BY <2>4, <2>6, <3>5 DEF Keeps
        <4>2. clock > z.decided
          BY <1>1, <4>1
        <4> QED
          BY <3>1, <3>5, <4>2 DEF Keeps
      <3> QED
        BY <3>3, <3>4, <3>5
    <2>9. CASE s # q.srv
      BY <2>1, <2>5, <2>9 DEF Consumes
    <2> QED
      BY <2>7, <2>8, <2>9
  <1> QED
    BY <1>3, <1>4

LEMMA MemoryRefusalsStep ==
    ASSUME TypeOK, TypeOK', Asking, Ruling, MemoryRuling, Rooms,
           MemoryRefusals, [Next]_vars
    PROVE  MemoryRefusals'
  <1> SUFFICES ASSUME store' = "memory", NEW p \in Reqs, NEW y \in Request,
                      y = req'[p], y.verdict = "refused"
               PROVE  EarnedInMemory(y)' /\ Promised(y)'
    BY DEF MemoryRefusals
  <1>1. store = "memory"
    BY TimesStep
  <1>2. \/ \E s : Passing(s)
        \/ \E r \in Reqs, q \in Request : Rules(r, q)
    BY <1>1, MemoryStep
  <1> DEFINE lo == y.at - Window + 1
             A == Admissions(y.srv, y.life, y.key, lo, y.at)
  <1>3. ASSUME NEW z \in Request, z = req[p], Same(y, z), Told(y, z)
        PROVE  EarnedInMemory(y)' /\ Promised(y)'
    <2>1. /\ z.verdict = "refused" /\ EarnedInMemory(z) /\ Promised(z)
          /\ z.srv \in Servers /\ z.key \in Keys
          /\ z.retry \in 1 .. Window /\ z.life <= server[z.srv].life
      BY <1>1, <1>3, GatewayAssumption
      DEF MemoryRefusals, MemoryRuling, Ruling, Known, Told
    <2>2. Promised(z)'
      BY <1>1, <1>2, <2>1, PromiseKept
    <2>3. Promised(y)'
      BY <1>3, <2>2 DEF Promised, Keeps, Same, Told
    <2>4. Cardinality(A) >= LimitOfKey(y.key)
      BY <1>3, <2>1 DEF EarnedInMemory, Same, Told
    <2>5. A \subseteq A'
      <3>1. ASSUME NEW s, Passing(s)
            PROVE  A \subseteq A'
        BY <3>1, StillAdmissions DEF Passing
      <3>2. ASSUME NEW r \in Reqs, NEW q \in Request, Rules(r, q)
            PROVE  A \subseteq A'
        <4>1. PICK x : Gives(r, x, q)
          BY <3>2, RulesEffect
        <4> QED
          BY <4>1, RuledAdmissions
      <3> QED
        BY <1>2, <3>1, <3>2
    <2>6. Cardinality(A') >= LimitOfKey(y.key)
      <3>1. /\ IsFiniteSet(A') /\ Cardinality(A) \in Nat
            /\ Cardinality(A') \in Nat /\ LimitOfKey(y.key) \in Nat
        BY AdmissionsFinite, KeyLimitType
      <3>2. Cardinality(A) <= Cardinality(A')
        BY <2>5, <3>1, FS_Subset
      <3> QED
        BY <2>4, <3>1, <3>2
    <2> QED
      BY <2>3, <2>6 DEF EarnedInMemory
  <1>4. CASE \E s : Passing(s)
    <2>1. Still(y, req[p]) /\ req[p] \in Request
      BY <1>4 DEF TypeOK, Passing, AllStill
    <2>2. Same(y, req[p]) /\ Told(y, req[p])
      BY <2>1, GatewayAssumption DEF Still
    <2> QED
      BY <1>3, <2>1, <2>2
  <1>5. ASSUME NEW r \in Reqs, NEW q \in Request, Rules(r, q)
        PROVE  EarnedInMemory(y)' /\ Promised(y)'
    <2>1. PICK x, f : /\ f = Found(bucket[q.srv], q.key, LimitOfKey(q.key))
                      /\ Gives(r, x, q) /\ Outcome(x, q, f)
                      /\ Consumes(q, f)
      BY <1>5, RulesEffect
    <2>2. RuledOn(q, f)
      BY <1>1, <1>5, <2>1, RulesFound
    <2>3. y = req[p] \/ (p = r /\ y = x)
      BY <2>1 DEF TypeOK, Gives
    <2>4. CASE y = req[p]
      <3>1. Same(y, req[p]) /\ Told(y, req[p])
        BY <2>4 DEF Same, Told
      <3> QED
        BY <1>3, <2>4, <3>1
    <2>5. CASE p = r /\ y = x
      <3> DEFINE R == f.refilledAt
                 B == Admissions(q.srv, q.life, q.key, R, MaxTime)
      <3>1. /\ f \in Bucket /\ R \in Nat /\ f.tokens = 0
            /\ R <= clock /\ R > clock - Window
            /\ clock \in Nat /\ Window \in Nat /\ MaxTime \in Nat
        BY <2>1, <2>2, <2>5, ClockNat, GatewayAssumption
        DEF RuledOn, Bucket, Times, Outcome
      <3>2. /\ y.srv = q.srv /\ y.life = q.life /\ y.key = q.key
            /\ y.at = clock /\ y.decided = clock
            /\ y.retry = Positive(Window - (clock - R))
        BY <2>1, <2>5 DEF Outcome, Same
      <3>3. y.retry = Window - (clock - R)
        BY <3>1, <3>2 DEF Positive
      <3>4. Cardinality(B) >= LimitOfKey(q.key)
        <4>1. Cardinality(B) \in Nat
          BY AdmissionsFinite
        <4>2. Cardinality(B) + f.tokens >= LimitOfKey(q.key)
          BY <2>2 DEF RuledOn, Spent
        <4> QED
          BY <3>1, <4>1, <4>2
      <3>5. B \subseteq A
        <4>1. ASSUME NEW g \in B
              PROVE  g \in A
          <5>1. /\ g \in Reqs /\ req[g].at \in R .. MaxTime
                /\ Known(req[g], clock)
            BY DEF Admissions, Ruling
          <5>2. req[g].at \in Nat /\ req[g].at <= clock
            BY <3>1, <5>1 DEF Known, Never
          <5>3. req[g].at \in lo .. y.at
            BY <3>1, <3>2, <5>1, <5>2
          <5> QED
            BY <3>2, <5>3 DEF Admissions
        <4> QED
          BY <4>1
      <3>6. A' = A
        BY <2>1, <2>5, RuledElsewhere, GatewayAssumption
      <3>7. Cardinality(A) >= LimitOfKey(q.key)
        <4>1. /\ IsFiniteSet(A) /\ Cardinality(A) \in Nat
              /\ Cardinality(B) \in Nat /\ LimitOfKey(q.key) \in Nat
          BY AdmissionsFinite, KeyLimitType
        <4>2. Cardinality(B) <= Cardinality(A)
          BY <3>5, <4>1, FS_Subset
        <4> QED
          BY <3>4, <4>1, <4>2
      <3>8. EarnedInMemory(y)'
        BY <3>2, <3>6, <3>7 DEF EarnedInMemory
      <3>9. bucket'[q.srv][q.key] = f /\ f # None
        BY <2>1, <3>1, NoneApart DEF Consumes
      <3>10. f.refilledAt + Window = y.decided + y.retry
        BY <3>1, <3>2, <3>3
      <3>11. Promised(y)'
        BY <3>2, <3>9, <3>10 DEF Promised, Keeps
      <3> QED
        BY <3>8, <3>11
    <2> QED
      BY <2>3, <2>4, <2>5
  <1> QED
    BY <1>2, <1>4, <1>5

-----------------------------------------------------------------------------
(* What follows.                                                           *)

\* The whole invariant: what is known of requests, and what each store keeps.
RateLimitInv ==
    /\ GatewayInv /\ Ruling /\ Expiry
    /\ Counts /\ Replies /\ RedisRefusals
    /\ MemoryRuling /\ Rooms /\ Spaced /\ MemoryRefusals

LEMMA RateLimitInit ==
    ASSUME Init
    PROVE  RateLimitInv
  <1>1. GatewayInv /\ TypeOK
    BY InitInv DEF GatewayInv
  <1>2. \A r \in Reqs : /\ req[r].verdict = None /\ req[r].at = Never
                        /\ req[r].stage = "idle" /\ ~req[r].resent
    BY FreshFields DEF Init
  <1>3. None # "admitted" /\ None # "refused"
    BY GatewayAssumption
  <1>4. Ruling
    BY <1>2 DEF Ruling, Known
  <1>5. Expiry
    BY DEF Init, Expiry
  <1>6. \A k \in Keys, w \in Windows : Through(k, w) = {} /\ counter[k][w] = 0
    BY <1>2, <1>3 DEF Init, Through
  <1>7. Counts
    BY <1>6, FS_EmptySet, KeyLimitType DEF Counts, CountOf
  <1>8. Replies
    <2>1. ASSUME NEW k \in Keys, NEW w \in Windows
          PROVE  ReplyOf(k, w)
      <3>1. Executed(k, w) = {}
        BY <1>2 DEF Executed
      <3> QED
        BY <1>6, <3>1, FS_EmptySet DEF ReplyOf
    <2> QED
      BY <2>1 DEF Replies
  <1>9. RedisRefusals /\ MemoryRefusals
    BY <1>2, <1>3 DEF RedisRefusals, MemoryRefusals, Ruled
  <1>10. MemoryRuling
    BY <1>2, <1>3 DEF MemoryRuling
  <1>11. Rooms
    BY DEF Init, Process, Rooms
  <1>12. Spaced
    <2>1. ASSUME NEW s, NEW n, NEW k, NEW lo, NEW hi
          PROVE  Cardinality(Admissions(s, n, k, lo, hi)) = 0
      <3>1. Admissions(s, n, k, lo, hi) = {}
        BY <1>2, <1>3 DEF Admissions
      <3> QED
        BY <3>1, FS_EmptySet
    <2> QED
      BY <2>1, KeyLimitType DEF Spaced, SpacedOf
  <1> QED
    BY <1>1, <1>4, <1>5, <1>7, <1>8, <1>9, <1>10, <1>11, <1>12
    DEF RateLimitInv

LEMMA RateLimitStep ==
    ASSUME RateLimitInv, [Next]_vars
    PROVE  RateLimitInv'
  <1>1. GatewayInv' /\ TypeOK' /\ TypeOK /\ Asking
    BY StepInv DEF RateLimitInv, GatewayInv
  <1>2. Ruling' /\ Expiry'
    BY <1>1, RulingStep, ExpiryStep DEF RateLimitInv
  <1>3. Counts' /\ Replies' /\ RedisRefusals'
    BY <1>1, CountsStep, RepliesStep, RedisRefusalsStep DEF RateLimitInv
  <1>4. MemoryRuling' /\ Rooms'
    BY <1>1, MemoryRulingStep, RoomsStep DEF RateLimitInv
  <1>5. Spaced' /\ MemoryRefusals'
    BY <1>1, SpacedStep, MemoryRefusalsStep DEF RateLimitInv
  <1> QED
    BY <1>1, <1>2, <1>3, <1>4, <1>5 DEF RateLimitInv

(* The invariant, with what every bucket and every counter has given away, *)
(* holds of both stores.                                                   *)
THEOREM RateLimitInvariant == Spec => []RateLimitInv
  BY RateLimitInit, RateLimitStep, PTL DEF Spec

LEMMA StoreOf ==
    ASSUME RateLimitInv
    PROVE  /\ TypeOK /\ Ruling
           /\ store = "memory" \/ store = "redis"
  BY GatewayAssumption DEF RateLimitInv, GatewayInv, TypeOK
\* Who was ruled on has a bucket and a time, and a limit known by its key.
LEMMA RuledFields ==
    ASSUME RateLimitInv, NEW r \in Reqs, req[r].verdict # None
    PROVE  /\ req[r].key \in Keys /\ req[r].at \in Times
           /\ req[r].at \in Nat /\ req[r].life \in Nat
           /\ req[r].win \in Windows
           /\ req[r].win \in Nat
           /\ LimitOf(req[r].route) = LimitOfKey(req[r].key)
           /\ store = "memory" => req[r].srv \in Servers
  <1>1. TypeOK /\ Ruling /\ MemoryRuling
    BY StoreOf DEF RateLimitInv
  <1>2. req[r].at \in Times /\ req[r].key \in Keys
    <2>1. req[r].key \in Keys /\ req[r].at # Never
      BY <1>1 DEF Ruling, Known
    <2>2. req[r].at \in Times \cup {Never}
      BY <1>1 DEF TypeOK, Request
    <2> QED
      BY <2>1, <2>2
  <1>3. req[r].at \in Nat
    BY <1>2, GatewayAssumption DEF Times
  <1>4. req[r].win \in Windows /\ req[r].win \in Nat
    BY <1>1, WindowNumbers DEF TypeOK, Request
  <1> QED
    BY <1>1, <1>2, <1>3, <1>4
    DEF TypeOK, Request, Ruling, Known, MemoryRuling

LEMMA Verdicts == None # "admitted" /\ None # "refused"
  BY GatewayAssumption

LEMMA BudgetFollows ==
    ASSUME RateLimitInv
    PROVE  BudgetHolds
  <1> SUFFICES ASSUME NEW r \in Reqs, req[r].verdict = "admitted"
               PROVE  IF store = "memory"
        THEN \/ <<req[r].srv, req[r].life, req[r].key>> \in crowded
             \/ Cardinality({q \in Ruled("admitted") :
                    /\ SameBucket(q, r)
                    /\ req[q].at \in req[r].at .. req[r].at + Window - 1})
                        <= 2 * LimitOf(req[r].route)
        ELSE \/ \E q \in Reqs : SameCounter(q, r) /\ Late(q)
             \/ Cardinality({q \in Ruled("admitted") : SameCounter(q, r)})
                    <= LimitOf(req[r].route)
    BY DEF BudgetHolds, Ruled
  <1>1. /\ req[r].key \in Keys /\ req[r].at \in Times
        /\ req[r].life \in Nat /\ req[r].win \in Windows
        /\ LimitOf(req[r].route) = LimitOfKey(req[r].key)
        /\ store = "memory" => req[r].srv \in Servers
    BY RuledFields, Verdicts
  <1>2. CASE store = "memory"
    <2> DEFINE s == req[r].srv
               n == req[r].life
               k == req[r].key
               t == req[r].at
    <2>1. {q \in Ruled("admitted") :
            SameBucket(q, r) /\ req[q].at \in t .. t + Window - 1}
                = Admissions(s, n, k, t, t + Window - 1)
      BY DEF Ruled, SameBucket, Admissions
    <2>2. SpacedOf(s, n, k)
      BY <1>1, <1>2 DEF RateLimitInv, Spaced
    <2>3. \/ <<s, n, k>> \in crowded
          \/ Cardinality(Admissions(s, n, k, t, t + Window - 1))
                <= 2 * LimitOfKey(k)
      BY <1>1, <2>2 DEF SpacedOf
    <2> QED
      BY <1>1, <1>2, <2>1, <2>3
  <1>3. CASE store # "memory"
    <2> DEFINE k == req[r].key
               w == req[r].win
    <2>1. CountOf(k, w)
      BY <1>1, <1>3, StoreOf DEF RateLimitInv, Counts
    <2>2. ASSUME NEW q \in Reqs, OfCounter(q, k, w), Late(q)
          PROVE  \E x \in Reqs : SameCounter(x, r) /\ Late(x)
      BY <2>2 DEF OfCounter, SameCounter
    <2>3. ASSUME Cardinality(Through(k, w)) <= LimitOfKey(k)
          PROVE  Cardinality({q \in Ruled("admitted") : SameCounter(q, r)})
                    <= LimitOf(req[r].route)
      <3> DEFINE A == {q \in Ruled("admitted") : SameCounter(q, r)}
      <3>1. A \subseteq Through(k, w) /\ Through(k, w) \subseteq Reqs
        BY DEF Ruled, SameCounter, Through, OfCounter
      <3>2. IsFiniteSet(Through(k, w)) /\ IsFiniteSet(A)
        BY <3>1, FS_Subset, GatewayAssumption
      <3>3. /\ Cardinality(A) <= Cardinality(Through(k, w))
            /\ Cardinality(A) \in Nat /\ Cardinality(Through(k, w)) \in Nat
        BY <3>1, <3>2, FS_Subset, FS_CardinalityType
      <3> QED
        BY <1>1, <2>3, <3>3, KeyLimitType
    <2> QED
      BY <1>3, <2>1, <2>2, <2>3 DEF CountOf
  <1> QED
    BY <1>2, <1>3

LEMMA RefusalsFollow ==
    ASSUME RateLimitInv
    PROVE  RefusalIsEarned
  <1> SUFFICES ASSUME NEW r \in Reqs, req[r].verdict = "refused"
               PROVE  IF store = "memory"
        THEN Cardinality({q \in Ruled("admitted") :
                /\ SameBucket(q, r)
                /\ req[q].at > req[r].at - Window /\ req[q].at <= req[r].at})
                    >= LimitOf(req[r].route)
        ELSE \/ \E q \in Reqs : SameCounter(q, r) /\ req[q].resent
             \/ Cardinality({q \in Reqs \ {r} :
                    SameCounter(q, r) /\ req[q].at # Never})
                        >= LimitOf(req[r].route)
    BY DEF RefusalIsEarned, Ruled
  <1>1. /\ req[r].at \in Nat /\ req[r] \in Request
        /\ LimitOf(req[r].route) = LimitOfKey(req[r].key)
    BY RuledFields, Verdicts, StoreOf DEF TypeOK
  <1>2. CASE store = "memory"
    <2> DEFINE t == req[r].at
    <2>1. ASSUME NEW q \in Reqs
          PROVE  req[q].at > t - Window /\ req[q].at <= t
                    <=> req[q].at \in t - Window + 1 .. t
      <3>1. req[q].at \in Int /\ Window \in Nat
        BY StoreOf, GatewayAssumption DEF TypeOK, Request, Times, Never
      <3> QED
        BY <1>1, <3>1
    <2>2. {q \in Ruled("admitted") :
            SameBucket(q, r) /\ req[q].at > t - Window /\ req[q].at <= t}
                = Admissions(req[r].srv, req[r].life, req[r].key,
                             t - Window + 1, t)
      BY <2>1 DEF Ruled, SameBucket, Admissions
    <2>3. EarnedInMemory(req[r])
      BY <1>1, <1>2 DEF RateLimitInv, MemoryRefusals
    <2> QED
      BY <1>1, <1>2, <2>2, <2>3 DEF EarnedInMemory
  <1>3. CASE store # "memory"
    <2>1. EarnedInRedis(r)
      BY <1>3, StoreOf DEF RateLimitInv, RedisRefusals, Ruled
    <2>2. {q \in Reqs \ {r} : SameCounter(q, r) /\ req[q].at # Never}
            = Executed(req[r].key, req[r].win) \ {r}
      BY DEF Executed, OfCounter, SameCounter
    <2> QED
      BY <1>1, <1>3, <2>1, <2>2 DEF EarnedInRedis
  <1> QED
    BY <1>2, <1>3

LEMMA WaitingFollows ==
    ASSUME RateLimitInv
    PROVE  WaitingIsEnough
  <1> SUFFICES ASSUME NEW r \in Reqs, req[r].verdict = "refused"
               PROVE
        /\ req[r].retry <= Window
        /\ clock >= req[r].decided + req[r].retry =>
            IF store = "redis" THEN WindowOf(clock) > req[r].win
            ELSE \/ req[r].life # server[req[r].srv].life
                 \/ <<req[r].srv, req[r].life, req[r].key>> \in crowded
                 \/ bucket[req[r].srv][req[r].key] = None
                 \/ bucket[req[r].srv][req[r].key].refilledAt > req[r].decided
                 \/ clock - bucket[req[r].srv][req[r].key].refilledAt
                        >= Window
    BY DEF WaitingIsEnough, Ruled
  <1>1. /\ req[r].key \in Keys /\ req[r].win \in Nat
        /\ store = "memory" => req[r].srv \in Servers
    BY RuledFields, Verdicts
  <1>2. /\ TypeOK /\ clock \in Nat /\ Window \in Nat \ {0}
        /\ req[r] \in Request
        /\ req[r].decided \in Nat /\ req[r].retry \in Nat
    BY StoreOf, ClockNat, GatewayAssumption DEF TypeOK, Request
  <1>3. CASE store = "redis"
    <2>1. /\ req[r].retry <= Window
          /\ WindowOf(req[r].decided + req[r].retry) > req[r].win
      BY <1>3 DEF RateLimitInv, RedisRefusals, Ruled
    <2>2. ASSUME clock >= req[r].decided + req[r].retry
          PROVE  WindowOf(clock) > req[r].win
      <3>1. req[r].decided + req[r].retry \in Nat
        BY <1>2
      <3>2. WindowOf(req[r].decided + req[r].retry) <= WindowOf(clock)
        BY <1>2, <2>2, <3>1, WindowOrder
      <3>3. /\ WindowOf(clock) \in Nat
            /\ WindowOf(req[r].decided + req[r].retry) \in Nat
        BY <1>2, <3>1, WindowNat
      <3> QED
        BY <1>1, <2>1, <3>2, <3>3
    <2> QED
      BY <1>3, <2>1, <2>2
  <1>4. CASE store = "memory"
    <2> DEFINE s == req[r].srv
               k == req[r].key
    <2>1. req[r].retry <= Window
      BY <1>2, <1>4 DEF RateLimitInv, MemoryRuling
    <2>2. Promised(req[r])
      BY <1>2, <1>4 DEF RateLimitInv, MemoryRefusals
    <2>3. ASSUME server[s].phase = "down"
          PROVE  bucket[s][k] = None
      BY <1>1, <1>2, <1>4, <2>3, RoomOf DEF RateLimitInv
    <2>4. ASSUME clock >= req[r].decided + req[r].retry,
                 Keeps(bucket[s][k], req[r])
          PROVE  \/ bucket[s][k] = None
                 \/ bucket[s][k].refilledAt > req[r].decided
                 \/ clock - bucket[s][k].refilledAt >= Window
      <3>1. CASE bucket[s][k] # None
        <4>1. bucket[s][k].refilledAt \in Nat
          BY <1>1, <1>2, <1>4, <3>1, GatewayAssumption
          DEF TypeOK, Bucket, Times
        <4> QED
          BY <1>2, <2>4, <3>1, <4>1 DEF Keeps
      <3> QED
        BY <3>1
    <2> QED
      BY <1>4, <2>1, <2>2, <2>3, <2>4 DEF Promised
  <1> QED
    BY <1>3, <1>4, StoreOf

(* A window admits what it may: in memory at most twice the limit in the   *)
(* length of a window, in Redis the limit, but for the two exceptions the  *)
(* property names (in-memory.store.ts, redis.store.ts).                    *)
THEOREM BudgetIsKept == Spec => []BudgetHolds
  BY RateLimitInvariant, BudgetFollows, PTL

(* Whoever is refused came after as many others as the limit.              *)
THEOREM RefusalsAreEarned == Spec => []RefusalIsEarned
  BY RateLimitInvariant, RefusalsFollow, PTL

(* Who waits as long as Retry-After says finds a window that lets it in.   *)
THEOREM WaitingSuffices == Spec => []WaitingIsEnough
  BY RateLimitInvariant, WaitingFollows, PTL
================================================================================
