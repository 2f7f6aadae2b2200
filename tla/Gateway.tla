-------------------------------- MODULE Gateway --------------------------------
(***************************************************************************)
(* The way of an HTTP request to its handler: the guards of its route, the *)
(* rate limiter over its two stores, and the life of the processes that    *)
(* run them. The handler itself is opaque here (Completion, Accounts,      *)
(* ChatLists and FlagService say what handlers do).                        *)
(*                                                                         *)
(* The guards and the memory store run without an await: they are one step *)
(* with the arrival. The Redis store awaits two commands; each is executed *)
(* when it reaches Redis, which may be late, twice, or never.              *)
(***************************************************************************)
EXTENDS Integers, FiniteSets

CONSTANTS
    Reqs,
    Servers,
    Callers,        \* who calls: the address and, with a token, the user
    Clients,        \* values of x-client-type
    Stores,         \* which stores a deployment may use
    Routes(_),      \* bound: the classes of routes called, by store
    PublicLimit,    \* AUTH.RATE_LIMIT_PER_MINUTE
    FlagLimit,      \* the flag RATE_LIMIT_PER_MINUTE
    Window,         \* windowMs, in ticks of the clock
    StaleFactor,    \* RATE_LIMIT.STALE_FACTOR
    MaxBuckets,     \* RATE_LIMIT.MAX_BUCKETS
    MaxTime,        \* bound: ticks of the clock
    MaxFaults,      \* bound: restarts, and calls that send a command again
    None

AllRoutes == {"public", "own", "completion", "admin"}

Keys ==
    {<<"ip", c>> : c \in Callers}
        \cup {<<"user", c>> : c \in Callers}
        \cup {<<"user", c, t>> : c \in Callers, t \in Clients}

Times == 0 .. MaxTime
WindowOf(t) == t \div Window
Windows == {WindowOf(t) : t \in Times}

ASSUME GatewayAssumption ==
    /\ IsFiniteSet(Reqs)
    /\ Stores \subseteq {"memory", "redis"}
    /\ \A x \in Stores : Routes(x) \subseteq AllRoutes
    /\ PublicLimit \in Nat \ {0} /\ FlagLimit \in Nat \ {0}
    /\ Window \in Nat \ {0} /\ StaleFactor \in Nat \ {0}
    /\ MaxBuckets \in Nat \ {0}
    /\ MaxTime \in Nat /\ MaxFaults \in Nat
    /\ None \notin Keys \cup Servers \cup Callers \cup AllRoutes
    /\ None \notin [tokens : Nat, refilledAt : Times, born : Nat]
    /\ None \notin {"admitted", "refused"}

VARIABLES
    clock,
    store,      \* the store DI has picked for every process
    server,     \* phase and life of a process, its shutdowns under way
    bucket,     \* memory: per process and key, None where there is none
    counter,    \* Redis: per key and window, the count (0: no such key)
    expires,    \* Redis: when the key goes, Never before PEXPIRE
    req,        \* per request: where it stands and what it was told
    crowded     \* history: buckets dropped because there were too many

vars == <<clock, store, server, bucket, counter, expires, req, crowded>>

Never == -1

--------------------------------------------------------------------------------
(* Routes: the guards before the limiter, and whose bucket it asks for.     *)

\* What a request brings: whether its App Check token is the configured one,
\* whose JWT it carries, whether its parameters and body satisfy the schemas;
\* and whether the flag of its route is on.
Inputs ==
    [app : BOOLEAN, jwt : {"none", "user", "admin"}, valid : BOOLEAN,
     enabled : BOOLEAN]

AppCheck(i) == i.app
Auth(i) == i.jwt # "none"
RequireRole(i) == Auth(i) /\ i.jwt = "admin"
FeatureFlagGuard(i) == i.enabled
ValidateRequest(i) == i.valid

\* The guards of each class of routes. All of them run before the limiter; the
\* first one a request fails answers it, and which one that is does not matter
\* to what follows.
PublicRoute(i) == AppCheck(i) /\ ValidateRequest(i)
OwnRoute(i) == AppCheck(i) /\ Auth(i) /\ ValidateRequest(i)
CompletionRoute(i) == OwnRoute(i) /\ FeatureFlagGuard(i)
AdminRoute(i) == OwnRoute(i) /\ RequireRole(i)

Passes(route, i) ==
    IF route = "public" THEN PublicRoute(i)
    ELSE IF route = "own" THEN OwnRoute(i)
    ELSE IF route = "completion" THEN CompletionRoute(i) ELSE AdminRoute(i)

KeyBy(route) ==
    IF route = "public" THEN "ip"
    ELSE IF route = "completion" THEN "user+client" ELSE "user"

LimitOf(route) == IF route = "public" THEN PublicLimit ELSE FlagLimit

\* req.user is there when the auth guard has run.
Authenticated(route) == route # "public"

BuildKey(route, c, t) ==
    IF KeyBy(route) = "user" /\ Authenticated(route) THEN <<"user", c>>
    ELSE IF KeyBy(route) = "user+client" /\ Authenticated(route)
         THEN <<"user", c, t>>
    ELSE <<"ip", c>>

--------------------------------------------------------------------------------
(* State                                                                   *)

Stages == {"idle", "incr", "counted", "handler", "done", "cut"}

Fresh ==
    [stage |-> "idle", route |-> None, key |-> None, srv |-> None,
     life |-> 0, win |-> 0, at |-> Never, count |-> 0, resent |-> FALSE,
     verdict |-> None, decided |-> 0, retry |-> 0]

\* A request a guard has answered, or one that ended without a decision.
Answered == [Fresh EXCEPT !.stage = "done"]

\* What a shutdown under way does next.
Steps == {"release", "exit"}

Process(phase, n) == [phase |-> phase, life |-> n, stops |-> {}]

Init ==
    /\ clock = 0
    /\ store \in Stores
    /\ server = [s \in Servers |-> Process("down", 0)]
    /\ bucket = [s \in Servers |-> [k \in Keys |-> None]]
    /\ counter = [k \in Keys |-> [w \in Windows |-> 0]]
    /\ expires = [k \in Keys |-> [w \in Windows |-> Never]]
    /\ req = [r \in Reqs |-> Fresh]
    /\ crowded = {}

\* Restarts and calls that sent a command again, so far.
Faults ==
    Cardinality({r \in Reqs : req[r].resent})
        + Cardinality({e \in Servers \X (1 .. MaxFaults) :
                        e[2] < server[e[1]].life})

Arrived == {r \in Reqs : req[r].stage # "idle"}

Tick ==
    /\ clock < MaxTime
    /\ clock' = clock + 1
    /\ UNCHANGED <<store, server, bucket, counter, expires, req, crowded>>

--------------------------------------------------------------------------------
(* The life of a process                                                   *)

InFlight(s) ==
    {r \in Reqs : req[r].srv = s /\ req[r].life = server[s].life
                    /\ req[r].stage \in {"incr", "counted", "handler"}}

Cut(s) ==
    req' = [r \in Reqs |-> IF r \in InFlight(s)
                           THEN [req[r] EXCEPT !.stage = "cut"] ELSE req[r]]

\* The process ends with what its memory holds.
Gone(s) ==
    /\ server' = [server EXCEPT ![s] = Process("down", server[s].life)]
    /\ bucket' = [bucket EXCEPT ![s] = [k \in Keys |-> None]]
    /\ Cut(s)
    /\ UNCHANGED <<clock, store, counter, expires, crowded>>

\* main(): connect, build the container, first reload, listen. A start that
\* fails leaves nothing behind.
Listen(s) ==
    /\ server[s].phase = "down"
    /\ server[s].life > 0 => Faults < MaxFaults
    /\ server' = [server EXCEPT ![s] =
                    Process("listening", server[s].life + 1)]
    /\ UNCHANGED <<clock, store, bucket, counter, expires, req, crowded>>

\* A signal or an error nobody caught begins a shutdown, another one if one is
\* under way; server.close() refuses new connections and is not awaited.
Shutdown(s) ==
    /\ server[s].phase \in {"listening", "closing"}
    /\ server' = [server EXCEPT ![s].phase = "closing",
                                ![s].stops = @ \cup {"release"}]
    /\ UNCHANGED <<clock, store, bucket, counter, expires, req, crowded>>

\* container.shutdown() gives up Redis; its failure is logged.
Release(s) ==
    /\ "release" \in server[s].stops
    /\ server' = [server EXCEPT ![s].stops = (@ \ {"release"}) \cup {"exit"}]
    /\ UNCHANGED <<clock, store, bucket, counter, expires, req, crowded>>

\* The database is left, then the first shutdown that gets here ends the
\* process.
Exit(s) ==
    /\ "exit" \in server[s].stops
    /\ Gone(s)

\* The platform ends the process without asking it.
Kill(s) ==
    /\ server[s].phase # "down"
    /\ Gone(s)

\* The connection to Redis has been given up by a shutdown.
Released(s) == "exit" \in server[s].stops

--------------------------------------------------------------------------------
(* The memory store                                                        *)

Size(b) == Cardinality({k \in Keys : b[k] # None})

Stale(b) ==
    {k \in Keys : b[k] # None
                    /\ clock - b[k].refilledAt > Window * StaleFactor}

\* What is left when stale buckets are gone, and the oldest ones beyond the
\* limit: those with at least MaxBuckets younger ones.
Kept(b) ==
    LET live == {k \in Keys : b[k] # None} \ Stale(b)
    IN  {k \in live :
            Cardinality({j \in live : b[j].born > b[k].born}) < MaxBuckets}

Dropped(b) == {k \in Keys : b[k] # None} \ (Kept(b) \cup Stale(b))

\* The bucket a call finds: a new one, a refilled one, or the one there is.
Found(b, k, limit) ==
    IF k \notin Kept(b)
    THEN [tokens |-> limit, refilledAt |-> clock,
          born |-> Cardinality(Arrived)]
    ELSE IF clock - b[k].refilledAt >= Window
         THEN [b[k] EXCEPT !.tokens = limit, !.refilledAt = clock]
         ELSE b[k]

Positive(n) == IF n > 0 THEN n ELSE 0

Admitted(q) ==
    [q EXCEPT !.stage = "handler", !.verdict = "admitted", !.count = 0]

\* Mutant of Refused: Retry-After is rounded down.
RefusedRoundedDown(q, wait) ==
    [q EXCEPT !.stage = "done", !.verdict = "refused", !.count = 0,
              !.decided = clock, !.retry = wait - 1]

Refused(q, wait) ==
    [q EXCEPT !.stage = "done", !.verdict = "refused", !.count = 0,
              !.decided = clock, !.retry = wait]

ConsumeMemory(r, q, limit) ==
    LET b == bucket[q.srv]
        k == q.key
        f == Found(b, k, limit)
        ok == f.tokens > 0
    IN  /\ bucket' = [bucket EXCEPT ![q.srv] =
                        [j \in Keys |->
                            IF j = k
                            THEN IF ok THEN [f EXCEPT !.tokens = @ - 1] ELSE f
                            ELSE IF j \in Kept(b) THEN b[j] ELSE None]]
        /\ crowded' = crowded \cup
                        {<<q.srv, q.life, j>> : j \in Dropped(b)}
        /\ req' = [req EXCEPT ![r] =
                    LET c == [q EXCEPT !.at = clock]
                    IN  IF ok THEN Admitted(c)
                        ELSE Refused(c,
                                Positive(Window - (clock - f.refilledAt)))]

--------------------------------------------------------------------------------
(* Requests                                                                *)

\* A request arrives. A guard answers it, or the limiter is asked.
Arrive(r, s, route, c, t, i) ==
    /\ req[r].stage = "idle"
    /\ server[s].phase = "listening"
    /\ UNCHANGED <<clock, store, server, counter, expires>>
    /\ LET q == [Fresh EXCEPT !.stage = "incr", !.route = route, !.srv = s,
                    !.key = BuildKey(route, c, t), !.life = server[s].life,
                    !.win = WindowOf(clock)]
       IN  IF ~Passes(route, i)
           THEN /\ req' = [req EXCEPT ![r] = Answered]
                /\ UNCHANGED <<bucket, crowded>>
           ELSE IF store = "memory"
                THEN ConsumeMemory(r, q, LimitOf(route))
                ELSE /\ req' = [req EXCEPT ![r] = q]
                     /\ UNCHANGED <<bucket, crowded>>

\* A key past its time is gone for the next command.
LiveCount(k, w) ==
    IF expires[k][w] # Never /\ expires[k][w] <= clock
    THEN 0 ELSE counter[k][w]

\* Redis executes INCR; the reply is under way.
Incr(r) ==
    LET k == req[r].key
        w == req[r].win
        n == LiveCount(k, w) + 1
    IN  /\ req[r].stage = "incr"
        /\ counter' = [counter EXCEPT ![k][w] = n]
        /\ expires' = [expires EXCEPT ![k][w] = IF n = 1 THEN Never ELSE @]
        /\ req' = [req EXCEPT ![r].stage = "counted", ![r].count = n,
                              ![r].at = clock]
        /\ UNCHANGED <<clock, store, server, bucket, crowded>>

\* The connection drops before the reply: ioredis sends the command again.
Resend(r) ==
    /\ req[r].stage = "counted"
    /\ Faults < MaxFaults
    /\ ~Released(req[r].srv)
    /\ req' = [req EXCEPT ![r].stage = "incr", ![r].resent = TRUE]
    /\ UNCHANGED <<clock, store, server, bucket, counter, expires, crowded>>

\* Mutant of FirstHit: the window's first hit does not set the time.
FirstHitTimeless(r) ==
    /\ req[r].stage = "counted"
    /\ req[r].count = 1
    /\ ~Released(req[r].srv)
    /\ req' = [req EXCEPT ![r] = Admitted(@)]
    /\ UNCHANGED <<clock, store, server, bucket, counter, expires, crowded>>

\* The reply says 1: PEXPIRE is executed, then the call is over.
FirstHit(r) ==
    LET k == req[r].key
        w == req[r].win
    IN  /\ req[r].stage = "counted"
        /\ req[r].count = 1
        /\ ~Released(req[r].srv)
        /\ expires' = [expires EXCEPT ![k][w] =
                        IF LiveCount(k, w) > 0 THEN clock + Window ELSE @]
        /\ req' = [req EXCEPT ![r] = Admitted(@)]
        /\ UNCHANGED <<clock, store, server, bucket, counter, crowded>>

\* Mutant of LaterHit: the limit is compared with what was there before.
LaterHitOneMore(r) ==
    /\ req[r].stage = "counted"
    /\ req[r].count \in 2 .. LimitOf(req[r].route) + 1
    /\ req' = [req EXCEPT ![r] = Admitted(@)]
    /\ UNCHANGED <<clock, store, server, bucket, counter, expires, crowded>>

\* Any other reply within the limit.
LaterHit(r) ==
    /\ req[r].stage = "counted"
    /\ req[r].count \in 2 .. LimitOf(req[r].route)
    /\ req' = [req EXCEPT ![r] = Admitted(@)]
    /\ UNCHANGED <<clock, store, server, bucket, counter, expires, crowded>>

Ttl(k, w) ==
    IF LiveCount(k, w) = 0 THEN -2
    ELSE IF expires[k][w] = Never THEN -1 ELSE expires[k][w] - clock

\* Mutant of OverLimit: the limit itself is refused.
OverLimitEarly(r) ==
    LET ttl == Ttl(req[r].key, req[r].win)
    IN  /\ req[r].stage = "counted"
        /\ req[r].count >= LimitOf(req[r].route)
        /\ ~Released(req[r].srv)
        /\ req' = [req EXCEPT ![r] =
                    Refused(@, IF ttl > 0 THEN ttl ELSE Window)]
        /\ UNCHANGED <<clock, store, server, bucket, counter, expires, crowded>>

\* Beyond the limit: PTTL is executed and answered.
OverLimit(r) ==
    LET ttl == Ttl(req[r].key, req[r].win)
    IN  /\ req[r].stage = "counted"
        /\ req[r].count > LimitOf(req[r].route)
        /\ ~Released(req[r].srv)
        /\ req' = [req EXCEPT ![r] =
                    Refused(@, IF ttl > 0 THEN ttl ELSE Window)]
        /\ UNCHANGED <<clock, store, server, bucket, counter, expires, crowded>>

\* A command is rejected, executed or not: the middleware passes the error on.
RedisFails(r) ==
    /\ req[r].stage \in {"incr", "counted"}
    /\ req' = [req EXCEPT ![r].stage = "done"]
    /\ UNCHANGED <<clock, store, server, bucket, counter, expires, crowded>>

\* The handler answers, with a result or with an error.
Respond(r) ==
    /\ req[r].stage = "handler"
    /\ req' = [req EXCEPT ![r].stage = "done"]
    /\ UNCHANGED <<clock, store, server, bucket, counter, expires, crowded>>

--------------------------------------------------------------------------------

Arrival ==
    \E r \in Reqs, s \in Servers, route \in Routes(store), c \in Callers,
       t \in Clients, i \in Inputs :
           Arrive(r, s, route, c, t, i)

Stopping(s) == Release(s) \/ Exit(s)

Continue(r) ==
    \/ Incr(r)
    \/ FirstHit(r)
    \/ LaterHit(r)
    \/ OverLimit(r)
    \/ RedisFails(r)
    \/ Respond(r)

Next ==
    \/ Tick
    \/ Arrival
    \/ \E s \in Servers :
        Listen(s) \/ Shutdown(s) \/ Stopping(s) \/ Kill(s)
    \/ \E r \in Reqs : Continue(r) \/ Resend(r)

Spec == Init /\ [][Next]_vars

--------------------------------------------------------------------------------
(* Properties                                                              *)

Bucket == [tokens : Nat, refilledAt : Times, born : Nat]

Request ==
    [stage : Stages, route : AllRoutes \cup {None}, key : Keys \cup {None},
     srv : Servers \cup {None}, life : Nat, win : Windows,
     at : Times \cup {Never}, count : Nat, resent : BOOLEAN,
     verdict : {None, "admitted", "refused"}, decided : Nat, retry : Nat]

TypeOK ==
    /\ clock \in Times
    /\ store \in Stores
    /\ server \in [Servers -> [phase : {"down", "listening", "closing"},
                              life : Nat, stops : SUBSET Steps]]
    /\ bucket \in [Servers -> [Keys -> Bucket \cup {None}]]
    /\ counter \in [Keys -> [Windows -> Nat]]
    /\ expires \in [Keys -> [Windows -> Nat \cup {Never}]]
    /\ req \in [Reqs -> Request]
    /\ crowded \subseteq Servers \X Nat \X Keys

Ruled(verdict) == {r \in Reqs : req[r].verdict = verdict}

SameBucket(q, r) ==
    /\ req[q].key = req[r].key
    /\ req[q].srv = req[r].srv /\ req[q].life = req[r].life

SameCounter(q, r) == req[q].key = req[r].key /\ req[q].win = req[r].win

\* INCR reached Redis after its window was over.
Late(r) == req[r].at # Never /\ WindowOf(req[r].at) # req[r].win

(* A window admits what it may: in memory a process admits to one bucket at *)
(* most twice the limit within the length of a window, unless it has thrown *)
(* the bucket out for want of room (in-memory.store.ts); over all processes *)
(* a Redis window admits the limit, unless an INCR came after its end       *)
(* (redis.store.ts).                                                        *)
BudgetHolds ==
    \A r \in Ruled("admitted") :
        IF store = "memory"
        THEN \/ <<req[r].srv, req[r].life, req[r].key>> \in crowded
             \/ Cardinality({q \in Ruled("admitted") :
                    /\ SameBucket(q, r)
                    /\ req[q].at \in req[r].at .. req[r].at + Window - 1})
                        <= 2 * LimitOf(req[r].route)
        ELSE \/ \E q \in Reqs : SameCounter(q, r) /\ Late(q)
             \/ Cardinality({q \in Ruled("admitted") : SameCounter(q, r)})
                    <= LimitOf(req[r].route)

(* Nobody is refused for nothing: in memory a refusal follows as many       *)
(* admissions as the limit within the last window; in Redis as many calls   *)
(* of the same key in the same window, unless a command was sent twice.     *)
RefusalIsEarned ==
    \A r \in Ruled("refused") :
        IF store = "memory"
        THEN Cardinality({q \in Ruled("admitted") :
                /\ SameBucket(q, r)
                /\ req[q].at > req[r].at - Window /\ req[q].at <= req[r].at})
                    >= LimitOf(req[r].route)
        ELSE \/ \E q \in Reqs : SameCounter(q, r) /\ req[q].resent
             \/ Cardinality({q \in Reqs \ {r} :
                    SameCounter(q, r) /\ req[q].at # Never})
                        >= LimitOf(req[r].route)

(* Retry-After is enough and never more than a window: when the time a      *)
(* refused caller was told has passed, its bucket is gone, was refilled     *)
(* since or is due for it, or its window is over. A bucket thrown out for   *)
(* want of room promises nothing: one made for the same key at once may     *)
(* have nothing left when that time has passed.                             *)
WaitingIsEnough ==
    \A r \in Ruled("refused") :
        LET q == req[r]
            b == bucket[q.srv][q.key]
        IN  /\ q.retry <= Window
            /\ clock >= q.decided + q.retry =>
                IF store = "redis" THEN WindowOf(clock) > q.win
                ELSE \/ q.life # server[q.srv].life
                     \/ <<q.srv, q.life, q.key>> \in crowded
                     \/ b = None
                     \/ b.refilledAt > q.decided
                     \/ clock - b.refilledAt >= Window

(* A counter that never expires is one whose first caller is about to give  *)
(* it its time, or was ended or failed between INCR and PEXPIRE, or one     *)
(* whose INCR was executed twice (redis.store.ts:26-34).                    *)
CountersExpire ==
    \A k \in Keys, w \in Windows :
        counter[k][w] > 0 /\ expires[k][w] = Never =>
            \E r \in Reqs :
                /\ req[r].key = k /\ req[r].win = w
                /\ \/ req[r].stage = "counted" /\ req[r].count = 1
                   \/ /\ req[r].stage \in {"cut", "done"}
                      /\ req[r].count = 1
                      /\ req[r].verdict = None
                   \/ req[r].resent

================================================================================
