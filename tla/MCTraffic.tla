----------------------------- MODULE MCTraffic ------------------------------
(***************************************************************************)
(* What decides whether a call may go ahead, on a few callers: the circuit *)
(* breakers of preparation/probe6 and double_circuit_breaker, the buckets  *)
(* of token_bucket and the load balancer of preparation/probe7.  A program *)
(* constructs one of them; the variables of the others stay as they are.   *)
(* The asyncio bucket is used in all its ways, or only by gets and fills,  *)
(* or only by reservations and fills.                                      *)
(***************************************************************************)
EXTENDS TokenBucket, CircuitBreaker, TLC, FiniteSetTheorems,
        WellFoundedInduction, TLAPS

CONSTANTS
    Tiers,
    SimpleCallers, SimpleThreshold, SimpleCooldown, MaxLag,
    Acquirers, AcquirerWants, ThreadedCapacity, MaxTries,
    Servers, BalancerCapacity,
    g1, g2, f1, t1, r1, r2, w1, w2, w3, c1, c2, c3, a1, a2, s1, s2, s3

VARIABLES
    tier,
    simple_state, failure_count, since_opened, simple_at, simple_read, simple_healthy,
    tokens, since_refill, filling, acquirer, timer, tries, level,
    servers, strategy, index, outcome

simple_vars ==
    <<simple_state, failure_count, since_opened, simple_at, simple_read, simple_healthy>>
threaded_vars == <<tokens, since_refill, filling, acquirer, timer, tries, level>>
balancer_vars == <<servers, strategy, index, outcome>>
all == <<tier, vars, breaker_vars, simple_vars, threaded_vars, balancer_vars>>

OneGetter == {g1}
TwoGetters == {g1, g2}
OneFiller == {f1}
OneTrier == {t1}
NoTasks == {}
TwoReservations == {r1, r2}
TwoCallers == {c1, c2}
ThreeCallers == {c1, c2, c3}

\* r1 is waited for twice
ThreeWaits == {w1, w2, w3}
WaitsOf == w1 :> r1 @@ w2 :> r2 @@ w3 :> r1
NoWaits == [w \in {} |-> r1]

\* the capacity is 3
WantsMixed == g1 :> 2 @@ g2 :> 1 @@ t1 :> 2 @@ r1 :> 2 @@ r2 :> 3
WantsGetAndTry == g1 :> 1 @@ t1 :> 4

TwoAcquirers == {a1, a2}
WantsOfAcquirers == a1 :> 3 @@ a2 :> 2
ThreeServers == {s1, s2, s3}

AllOfTheBucket == {"all"}
OnlyReservations == {"reservations"}
OnlyTheBalancer == {"balancer"}
EveryTier ==
    {"gets", "reservations", "breaker", "simple_breaker", "threaded", "balancer"}

SimpleBreaker == INSTANCE SimpleCircuitBreaker WITH
    Callers <- SimpleCallers, FailureThreshold <- SimpleThreshold, Cooldown <- SimpleCooldown,
    state <- simple_state, at <- simple_at, read <- simple_read, healthy <- simple_healthy

Threaded == INSTANCE ConcurrentTokenBucket WITH
    Wants <- AcquirerWants, MaxCapacity <- ThreadedCapacity, earned <- since_refill

Balancer == INSTANCE LoadBalancer WITH Capacity <- BalancerCapacity

ASSUME TierConstants ==
    /\ Tiers \subseteq EveryTier \union AllOfTheBucket
    /\ SimpleBreaker!SimpleBreakerConstants
    /\ Threaded!ConcurrentBucketConstants
    /\ Balancer!LoadBalancerConstants

TrafficInit ==
    /\ tier \in Tiers
    /\ Init /\ BreakerInit /\ SimpleBreaker!Init /\ Threaded!Init /\ Balancer!Init
    \* one initial state for what is not constructed
    /\ tier # "breaker" => cooled
    /\ tier # "simple_breaker" => since_opened = 0
    /\ tier # "threaded" => filling
    /\ tier # "balancer" => strategy = "random"

Produces == ~spinning /\ (Tick \/ \E f \in Fillers : Fill(f))
GetsOnly == ~spinning /\ \E g \in Getters : Get(g)
ReservesOnly ==
    /\ ~spinning
    /\ \/ \E r \in Reservations : ReserveRefused(r) \/ Reserve(r) \/ Cancel(r)
       \/ \E w \in Waits : Wait(w)

AllStep == tier = "all" /\ Next
GetsStep == tier = "gets" /\ (Produces \/ GetsOnly)
ReservationsStep == tier = "reservations" /\ (Produces \/ ReservesOnly)
BreakerStep == tier = "breaker" /\ BreakerNext
SimpleBreakerStep == tier = "simple_breaker" /\ SimpleBreaker!Next
ThreadedStep == tier = "threaded" /\ Threaded!Next
BalancerStep == tier = "balancer" /\ Balancer!Next

AsyncioBucket == {"all", "gets", "reservations"}

OthersRest ==
    /\ UNCHANGED tier
    /\ tier \notin AsyncioBucket => UNCHANGED vars
    /\ tier # "breaker" => UNCHANGED breaker_vars
    /\ tier # "simple_breaker" => UNCHANGED simple_vars
    /\ tier # "threaded" => UNCHANGED threaded_vars
    /\ tier # "balancer" => UNCHANGED balancer_vars

TrafficNext ==
    /\ \/ AllStep \/ GetsStep \/ ReservationsStep
       \/ BreakerStep \/ SimpleBreakerStep \/ ThreadedStep \/ BalancerStep
    /\ OthersRest

\* Time passes and every coroutine and thread that can go on does; fill is
\* called again and again, get once by each, a reservation is waited for,
\* and somebody keeps calling through the breakers.
TrafficSpec ==
    /\ TrafficInit /\ [][TrafficNext]_all
    /\ WF_vars(tier \in AsyncioBucket /\ ~spinning /\ Tick)
    /\ \A f \in Fillers : WF_vars(tier \in AsyncioBucket /\ ~spinning /\ Fill(f))
    /\ \A g \in Getters : WF_vars(tier \in {"all", "gets"} /\ ~spinning /\ Get(g))
    /\ \A w \in Waits : WF_vars(tier \in {"all", "reservations"} /\ ~spinning /\ Wait(w))
    /\ WF_breaker_vars(tier = "breaker" /\ Cool)
    /\ WF_breaker_vars(tier = "breaker" /\ \E c \in Callers : Call(c))
    /\ \A c \in Callers : WF_breaker_vars(tier = "breaker" /\ End(c))
    /\ WF_simple_vars(tier = "simple_breaker" /\ SimpleBreaker!Tick)
    /\ WF_simple_vars(tier = "simple_breaker" /\ \E c \in SimpleCallers : SimpleBreaker!Call(c))
    /\ \A c \in SimpleCallers :
          WF_simple_vars(tier = "simple_breaker" /\ SimpleBreaker!Proceed(c))
    /\ WF_threaded_vars(tier = "threaded" /\ Threaded!Tick)
    /\ \A a \in Acquirers : WF_threaded_vars(tier = "threaded" /\ Threaded!Acquire(a))

-----------------------------------------------------------------------------
(* Properties *)

\* Every variable has its type, the asyncio bucket never overflows and the
\* threaded one never overspends.
TrafficIsSound ==
    /\ TypeOK /\ BreakerTypeOK /\ SimpleBreaker!TypeOK /\ Threaded!TypeOK /\ Balancer!TypeOK
    /\ Threaded!NeverOverspends

\* A breaker that is closed has fewer failures than open it, the one without a
\* lock as soon as its callers have finished what they began to write.
ClosedAreHealthy == ClosedIsHealthy /\ SimpleBreaker!ClosedIsHealthy

\* Both breakers close for good once the dependency is healthy.
BothCloseWhenHealthy ==
    /\ tier = "breaker" => ClosesWhenHealthy
    /\ tier = "simple_breaker" => SimpleBreaker!ClosesWhenHealthy

\* Gets return as long as nobody reserves and nobody refills behind the back
\* of fill, reservations that fit the capacity are honoured, and the threads
\* of the threaded bucket get their tokens.
CallersAreServed ==
    /\ tier = "gets" => GetReturns
    /\ tier = "reservations" => ReservationIsHonoured
    /\ tier = "threaded" => Threaded!AcquireReturns

\* Round robin hands out a server whenever one is registered.
GetFailsOnlyWhenEmpty == Balancer!GetFailsOnlyWhenEmpty

-----------------------------------------------------------------------------
(* What is proved of them, for every value of the constants: first of the  *)
(* asyncio bucket                                                          *)

\* in wait(), past its check
Waiting == {"sleeping", "parked", "woken"}

\* The bucket with calls that do not overlap: what is promised is what open
\* reservations claim; a wait is of a reservation that was made, one that is
\* past its sleep of an open one, and no reservation is waited for twice.
WaitsInv ==
    /\ \A w \in Waits : task[w] \in Waiting => Of[w] \in reserved
    /\ \A w \in Waits : task[w] \in {"parked", "woken"} => Of[w] \in Outstanding
    /\ \A w, x \in Waits :
          Of[w] = Of[x] /\ task[w] \in Waiting /\ task[x] \in Waiting => w = x

BucketInv ==
    /\ TypeOK
    /\ IsFiniteSet(Claimed(Outstanding)) /\ PromisedIsOutstanding
    /\ WaitsInv

\* What is read of the lesser and of the greater of two numbers.
LEMMA TwoNumbers ==
    ASSUME NEW m \in Int, NEW n \in Int
    PROVE  /\ Min({m, n}) = IF m <= n THEN m ELSE n
           /\ Max({m, n}) = IF m >= n THEN m ELSE n
<1>1. Min({m, n}) \in {m, n} /\ \A x \in {m, n} : Min({m, n}) <= x
  <2>1. \E y \in {m, n} : \A x \in {m, n} : y <= x
    OBVIOUS
  <2> QED BY <2>1 DEF Min
<1>2. Max({m, n}) \in {m, n} /\ \A x \in {m, n} : Max({m, n}) >= x
  <2>1. \E y \in {m, n} : \A x \in {m, n} : y >= x
    OBVIOUS
  <2> QED BY <2>1 DEF Max
<1> QED BY <1>1, <1>2

\* A reservation that joins the open ones claims what it asks for.
LEMMA ClaimsAddUp ==
    ASSUME NEW rs \in SUBSET Reservations, IsFiniteSet(Claimed(rs)),
           NEW r \in Reservations, r \notin rs
    PROVE  /\ IsFiniteSet(Claimed(rs \union {r}))
           /\ Cardinality(Claimed(rs \union {r})) = Cardinality(Claimed(rs)) + Wants[r]
<1> DEFINE own == {r} \X (1 .. Wants[r])
<1>1. PICK n \in Nat : n = Wants[r]
  BY TokenBucketAssumption
<1>2. IsFiniteSet(own) /\ Cardinality(own) = n
  <2>1. IsFiniteSet(1 .. n) /\ Cardinality(1 .. n) = n
    BY FS_Interval
  <2>2. IsFiniteSet({r}) /\ Cardinality({r}) = 1
    BY FS_Singleton
  <2>3. IsFiniteSet({r} \X (1 .. n)) /\ Cardinality({r} \X (1 .. n)) = 1 * n
    BY ZenonT(60), <2>1, <2>2, FS_Product
  <2>4. 1 * n = n
    OBVIOUS
  <2> QED BY <1>1, <2>3, <2>4, Zenon
<1>3. Claimed(rs \union {r}) = Claimed(rs) \union own
  BY DEF Claimed
<1>4. Claimed(rs) \intersect own = {}
  BY DEF Claimed
<1>5. /\ IsFiniteSet(Claimed(rs) \union own)
      /\ Cardinality(Claimed(rs) \union own) =
            Cardinality(Claimed(rs)) + Cardinality(own) - Cardinality({})
  <2> HIDE DEF own
  <2> QED BY <1>2, <1>4, FS_Union
<1>6. Cardinality(Claimed(rs)) \in Nat /\ Cardinality({}) = 0
  BY FS_CardinalityType, FS_EmptySet
<1> HIDE DEF own
<1>7. Cardinality(Claimed(rs) \union own) = Cardinality(Claimed(rs)) + n
  <2>1. \A m \in Nat : m + n - 0 = m + n
    BY <1>1
  <2> QED BY <1>2, <1>5, <1>6, <2>1
<1> QED BY <1>1, <1>3, <1>5, <1>7, Zenon

\* And one that leaves them takes its claim along.
LEMMA ClaimsGoAway ==
    ASSUME NEW rs \in SUBSET Reservations, IsFiniteSet(Claimed(rs)), NEW r \in rs
    PROVE  /\ IsFiniteSet(Claimed(rs \ {r}))
           /\ Cardinality(Claimed(rs \ {r})) = Cardinality(Claimed(rs)) - Wants[r]
<1> DEFINE ss == rs \ {r}
<1>1. ss \in SUBSET Reservations /\ rs = ss \union {r} /\ r \notin ss
  OBVIOUS
<1>2. IsFiniteSet(Claimed(ss))
  <2>1. Claimed(ss) \subseteq Claimed(rs)
    BY <1>1 DEF Claimed
  <2> QED BY <2>1, FS_Subset
<1>3. Cardinality(Claimed(rs)) = Cardinality(Claimed(ss)) + Wants[r]
  <2> HIDE DEF ss
  <2> QED BY <1>1, <1>2, ClaimsAddUp
<1>4. Cardinality(Claimed(ss)) \in Nat /\ Wants[r] \in Nat
  BY <1>2, FS_CardinalityType, TokenBucketAssumption
<1>5. Cardinality(Claimed(ss)) = Cardinality(Claimed(rs)) - Wants[r]
  <2>1. \A m, n, k \in Int : k = m + n => m = k - n
    OBVIOUS
  <2>2. Cardinality(Claimed(rs)) \in Int
    BY FS_CardinalityType
  <2> HIDE DEF ss
  <2> QED BY <1>3, <1>4, <2>1, <2>2
<1> QED BY <1>2, <1>5

\* A refill adds no more than was earned and fits.
LEMMA RefillsFit ==
    ASSUME TypeOK
    PROVE  /\ Minted \in 0 .. earned /\ Refilled \in bucket .. max_capacity
           /\ earned - Minted \in 0 .. MaxEarned
<1>1. /\ earned \in Nat /\ earned <= MaxEarned /\ MaxEarned \in Nat
      /\ bucket \in Nat /\ bucket <= max_capacity /\ max_capacity \in Nat
  BY TokenBucketAssumption DEF TypeOK
<1>2. Minted = IF earned <= max_capacity - bucket THEN earned ELSE max_capacity - bucket
  BY <1>1, TwoNumbers DEF Minted
<1> QED BY <1>1, <1>2 DEF Refilled

\* What is promised is a number of tokens.
LEMMA PromisesAreTokens ==
    ASSUME BucketInv
    PROVE  promised \in Nat
  BY FS_CardinalityType DEF BucketInv, PromisedIsOutstanding

\* As long as no claim is settled, the invariant of the waits is kept by a
\* step that does not touch a wait, or wakes it.
LEMMA WaitsStay ==
    ASSUME WaitsInv, reserved \subseteq reserved', UNCHANGED <<consumed, cancelled>>,
           \A w \in Waits : task'[w] # task[w] => task[w] = "parked" /\ task'[w] = "woken"
    PROVE  WaitsInv'
<1>1. \A w \in Waits : task'[w] \in Waiting => task[w] \in Waiting
  BY DEF Waiting
<1>2. \A w \in Waits : task'[w] \in {"parked", "woken"} => task[w] \in {"parked", "woken"}
  OBVIOUS
<1>3. Outstanding \subseteq Outstanding'
  BY DEF Outstanding
<1> QED BY <1>1, <1>2, <1>3 DEF WaitsInv

\* The claims stay what they are when nothing is reserved or settled.
LEMMA ClaimsStay ==
    ASSUME BucketInv, UNCHANGED <<promised, reserved, consumed, cancelled>>
    PROVE  IsFiniteSet(Claimed(Outstanding))' /\ PromisedIsOutstanding'
<1>1. Outstanding' = Outstanding
  BY DEF Outstanding
<1> QED BY <1>1 DEF BucketInv, PromisedIsOutstanding, Claimed

\* Time earns tokens and brings the reservations nearer.
LEMMA TickKeeps == ASSUME BucketInv, Tick PROVE BucketInv'
<1>1. earned' \in 0 .. MaxEarned
  <2>1. earned \in Nat /\ earned <= MaxEarned /\ MaxEarned \in Nat
    BY TokenBucketAssumption DEF BucketInv, TypeOK
  <2>2. earned' = IF earned + 1 <= MaxEarned THEN earned + 1 ELSE MaxEarned
    BY <2>1, TwoNumbers DEF Tick
  <2> QED BY <2>1, <2>2
<1>2. due' \in [Reservations -> 0 .. MaxWait]
  <2>1. ASSUME NEW r \in Reservations PROVE Max({due[r] - 1, 0}) \in 0 .. MaxWait
    <3>1. due[r] \in Nat /\ due[r] <= MaxWait /\ MaxWait \in Nat
      BY TokenBucketAssumption DEF BucketInv, TypeOK
    <3>2. PICK n \in Int : n = due[r] - 1
      BY <3>1
    <3>3. Max({n, 0}) = IF n >= 0 THEN n ELSE 0
      BY TwoNumbers
    <3> QED BY <3>1, <3>2, <3>3
  <2> QED BY <2>1 DEF Tick
<1>3. TypeOK'
  BY <1>1, <1>2 DEF BucketInv, TypeOK, Tick
<1>4. WaitsInv'
  BY WaitsStay DEF BucketInv, Tick
<1> QED BY <1>3, <1>4, ClaimsStay DEF BucketInv, Tick
\* Where a coroutine goes that neither waits for a reservation nor did.
LEMMA TaskMoves ==
    ASSUME TypeOK, NEW t \in Getters \union Fillers, NEW waiters,
           NEW to \in {"idle", "parked", "done"},
           \/ task' = [task EXCEPT ![t] = to]
           \/ task' = Notified(waiters, [task EXCEPT ![t] = to])
    PROVE  /\ task' \in [Tasks -> {"idle", "sleeping", "parked", "woken", "done", "none"}]
           /\ \A w \in Waits : task'[w] # task[w] => task[w] = "parked" /\ task'[w] = "woken"
<1>1. task \in [Tasks -> {"idle", "sleeping", "parked", "woken", "done", "none"}]
  BY DEF TypeOK
<1>2. t \in Tasks /\ t \notin Waits /\ Waits \subseteq Tasks
  BY TokenBucketAssumption DEF Tasks
<1> QED BY <1>1, <1>2 DEF Notified

\* Filling keeps what the bucket promises.
LEMMA FillKeeps == ASSUME BucketInv, NEW f \in Fillers, Fill(f) PROVE BucketInv'
<1>1. /\ task' \in [Tasks -> {"idle", "sleeping", "parked", "woken", "done", "none"}]
      /\ \A w \in Waits : task'[w] # task[w] => task[w] = "parked" /\ task'[w] = "woken"
  BY TaskMoves DEF Fill, FillParks, Fills, BucketInv
<1>2. bucket' \in 0 .. max_capacity /\ earned' \in 0 .. MaxEarned
  <2>1. bucket \in Nat /\ bucket \in 0 .. max_capacity /\ earned \in 0 .. MaxEarned
    BY DEF BucketInv, TypeOK
  <2>2. Refilled \in 0 .. max_capacity /\ earned - Minted \in 0 .. MaxEarned
    BY <2>1, RefillsFit DEF BucketInv
  <2> QED BY <2>1, <2>2 DEF Fill, FillParks, Fills, Credit
<1>3. UNCHANGED <<promised, got, claims, spinning>>
  BY DEF Fill, FillParks, Fills
<1>4. TypeOK'
  BY <1>1, <1>2, <1>3 DEF BucketInv, TypeOK, claims
<1>5. WaitsInv'
  BY <1>1, <1>3, WaitsStay DEF BucketInv, claims
<1> QED BY <1>3, <1>4, <1>5, ClaimsStay DEF BucketInv, claims

\* Getting takes no more than is free.
LEMMA GetKeeps == ASSUME BucketInv, NEW g \in Getters, Get(g) PROVE BucketInv'
<1>1. CASE GetParks(g)
  <2>1. /\ task' \in [Tasks -> {"idle", "sleeping", "parked", "woken", "done", "none"}]
        /\ \A w \in Waits : task'[w] # task[w] => task[w] = "parked" /\ task'[w] = "woken"
    BY <1>1, TaskMoves DEF GetParks, BucketInv
  <2>2. TypeOK'
    BY <1>1, <2>1 DEF GetParks, claims, BucketInv, TypeOK
  <2>3. WaitsInv'
    BY <1>1, <2>1, WaitsStay DEF GetParks, claims, BucketInv
  <2> QED BY <1>1, <2>2, <2>3, ClaimsStay DEF GetParks, claims, BucketInv
<1>2. CASE GetTakes(g)
  <2> DEFINE taken == Min({Wants[g] - got[g], bucket - promised})
  <2>1. /\ bucket \in Nat /\ bucket <= max_capacity /\ max_capacity \in Nat /\ promised \in Nat
        /\ got[g] \in Nat /\ got[g] <= Wants[g] /\ Wants[g] \in Nat
        /\ got \in [Getters -> Nat]
    BY PromisesAreTokens, TokenBucketAssumption DEF BucketInv, TypeOK
  <2>2. taken \in 0 .. bucket /\ got[g] + taken <= Wants[g] /\ got[g] + taken \in Nat
    <3>1. PICK m \in Nat : m = Wants[g] - got[g]
      BY <2>1
    <3>2. PICK n \in Nat : n = bucket - promised /\ n <= bucket
      BY <1>2, <2>1 DEF GetTakes
    <3>3. taken = IF m <= n THEN m ELSE n
      BY <3>1, <3>2, TwoNumbers
    <3> QED BY <2>1, <3>1, <3>2, <3>3
  <2>3. bucket' = bucket - taken /\ got' = [got EXCEPT ![g] = @ + taken]
    BY <1>2 DEF GetTakes
  <2>4. bucket' \in 0 .. max_capacity
    <3> HIDE DEF taken
    <3> QED BY <2>1, <2>2, <2>3
  <2>5. got' \in [Getters -> Nat] /\ \A h \in Getters : got'[h] <= Wants[h]
    <3>1. \A h \in Getters : got[h] <= Wants[h]
      BY DEF BucketInv, TypeOK
    <3> HIDE DEF taken
    <3> QED BY <2>1, <2>2, <2>3, <3>1
  <2>6. /\ task' \in [Tasks -> {"idle", "sleeping", "parked", "woken", "done", "none"}]
        /\ \A w \in Waits : task'[w] # task[w] => task[w] = "parked" /\ task'[w] = "woken"
    <3>1. PICK to \in {"done", "parked"} : task' = Notified(DoAllocate, [task EXCEPT ![g] = to])
      BY <1>2 DEF GetTakes
    <3> QED BY <3>1, TaskMoves DEF BucketInv
  <2>7. UNCHANGED <<earned, promised, claims, spinning>>
    BY <1>2 DEF GetTakes
  <2>8. TypeOK'
    BY <2>4, <2>5, <2>6, <2>7 DEF BucketInv, TypeOK, claims
  <2>9. WaitsInv'
    BY <2>6, <2>7, WaitsStay DEF BucketInv, claims
  <2> QED BY <2>7, <2>8, <2>9, ClaimsStay DEF BucketInv, claims
<1>3. CASE GetSpins(g)
  <2>1. TypeOK'
    BY <1>3 DEF GetSpins, claims, BucketInv, TypeOK
  <2>2. WaitsInv'
    BY <1>3, WaitsStay DEF GetSpins, claims, BucketInv
  <2> QED BY <1>3, <2>1, <2>2, ClaimsStay DEF GetSpins, claims, BucketInv
<1> QED BY <1>1, <1>2, <1>3 DEF Get
\* Trying takes its tokens out of what is free.
LEMMA TryKeeps == ASSUME BucketInv, NEW t \in Triers, Try(t) PROVE BucketInv'
<1>1. /\ Refilled \in Nat /\ Refilled <= max_capacity /\ max_capacity \in Nat
      /\ earned - Minted \in 0 .. MaxEarned /\ promised \in Nat /\ Wants[t] \in Nat
  BY RefillsFit, PromisesAreTokens, TokenBucketAssumption DEF BucketInv, TypeOK
<1>2. bucket' \in 0 .. max_capacity /\ earned' \in 0 .. MaxEarned
  <2>1. CASE TryTakesNothing(t)
    BY <1>1, <2>1 DEF TryTakesNothing, Credit
  <2>2. CASE TryRaises(t)
    BY <1>1, <2>2 DEF TryRaises, Credit
  <2> QED BY <2>1, <2>2 DEF Try
<1>3. UNCHANGED <<promised, task, got, claims, spinning>>
  BY DEF Try, TryTakesNothing, TryRaises
<1>4. TypeOK'
  BY <1>2, <1>3 DEF BucketInv, TypeOK, claims
<1>5. WaitsInv'
  BY <1>3, WaitsStay DEF BucketInv, claims
<1> QED BY <1>3, <1>4, <1>5, ClaimsStay DEF BucketInv, claims

\* A reservation that is refused promises nothing, one that is made what it
\* asks for.
LEMMA ReserveKeeps ==
    ASSUME BucketInv, NEW r \in Reservations, ReserveRefused(r) \/ Reserve(r)
    PROVE  BucketInv'
<1>1. /\ Refilled \in Nat /\ Refilled <= max_capacity /\ max_capacity \in Nat
      /\ earned - Minted \in 0 .. MaxEarned /\ promised \in Nat
      /\ Wants[r] \in Nat /\ MaxWait \in Nat
  BY RefillsFit, PromisesAreTokens, TokenBucketAssumption DEF BucketInv, TypeOK
<1>2. bucket' \in 0 .. max_capacity /\ earned' \in 0 .. MaxEarned
  BY <1>1 DEF ReserveRefused, Reserve, Credit
<1>3. UNCHANGED <<task, got, consumed, cancelled, spinning>> /\ r \notin reserved
  BY DEF ReserveRefused, Reserve, claims
<1>4. CASE ReserveRefused(r)
  <2>1. UNCHANGED <<promised, reserved, due>>
    BY <1>4 DEF ReserveRefused, claims
  <2>2. TypeOK'
    BY <1>2, <1>3, <2>1 DEF BucketInv, TypeOK
  <2>3. WaitsInv'
    BY <1>3, <2>1, WaitsStay DEF BucketInv
  <2> QED BY <1>3, <2>1, <2>2, <2>3, ClaimsStay DEF BucketInv
<1>5. CASE Reserve(r)
  <2>1. Max({Shortfall(r), 0}) \in 0 .. MaxWait
    <3>1. PICK n \in Int : n = Shortfall(r) /\ n <= MaxWait
      BY <1>1, <1>5 DEF Shortfall, Reserve
    <3>2. Max({n, 0}) = IF n >= 0 THEN n ELSE 0
      BY TwoNumbers
    <3> QED BY <1>1, <3>1, <3>2
  <2>2. due' \in [Reservations -> 0 .. MaxWait]
    BY <1>5, <2>1 DEF Reserve, BucketInv, TypeOK
  <2>3. reserved' = reserved \union {r} /\ promised' = promised + Wants[r]
    BY <1>5 DEF Reserve
  <2>4. TypeOK'
    BY <1>1, <1>2, <1>3, <2>2, <2>3 DEF BucketInv, TypeOK
  <2>5. WaitsInv'
    BY <1>3, <2>3, WaitsStay DEF BucketInv
  <2>6. Outstanding' = Outstanding \union {r} /\ r \notin Outstanding
        /\ Outstanding \in SUBSET Reservations
    BY <1>3, <2>3 DEF Outstanding, BucketInv, TypeOK
  <2>7. /\ IsFiniteSet(Claimed(Outstanding'))
        /\ Cardinality(Claimed(Outstanding')) = Cardinality(Claimed(Outstanding)) + Wants[r]
    BY <2>6, ClaimsAddUp DEF BucketInv
  <2>8. IsFiniteSet(Claimed(Outstanding))' /\ PromisedIsOutstanding'
    BY <2>3, <2>7 DEF BucketInv, PromisedIsOutstanding, Claimed
  <2> QED BY <2>4, <2>5, <2>8 DEF BucketInv
<1> QED BY <1>4, <1>5

\* What it takes for a claim to be settled, one way or the other.
LEMMA ClaimSettled ==
    ASSUME BucketInv, NEW r \in Outstanding, UNCHANGED reserved,
           promised' = promised - Wants[r],
           \/ consumed' = consumed \union {r} /\ UNCHANGED cancelled
           \/ cancelled' = cancelled \union {r} /\ UNCHANGED consumed
    PROVE  /\ IsFiniteSet(Claimed(Outstanding))' /\ PromisedIsOutstanding'
           /\ promised' \in Int /\ consumed' \union cancelled' \subseteq reserved'
           /\ Outstanding' = Outstanding \ {r}
<1>1. Outstanding' = Outstanding \ {r} /\ Outstanding \in SUBSET Reservations
  BY DEF Outstanding, BucketInv, TypeOK
<1>2. /\ IsFiniteSet(Claimed(Outstanding'))
      /\ Cardinality(Claimed(Outstanding')) = Cardinality(Claimed(Outstanding)) - Wants[r]
  BY <1>1, ClaimsGoAway DEF BucketInv
<1>3. IsFiniteSet(Claimed(Outstanding))' /\ PromisedIsOutstanding'
  BY <1>2 DEF BucketInv, PromisedIsOutstanding, Claimed
<1>4. promised \in Int /\ Wants[r] \in Nat
  BY <1>1, TokenBucketAssumption DEF BucketInv, TypeOK
<1> QED BY <1>1, <1>3, <1>4 DEF Outstanding, BucketInv, TypeOK

\* A reservation is cancelled while nobody is past the sleep of its wait.
LEMMA CancelKeeps ==
    ASSUME BucketInv, ~CallsOverlap, NEW r \in Reservations, Cancel(r)
    PROVE  BucketInv'
<1>1. r \in Outstanding
  BY DEF Cancel, Outstanding
<1>2. /\ IsFiniteSet(Claimed(Outstanding))' /\ PromisedIsOutstanding'
      /\ promised' \in Int /\ consumed' \union cancelled' \subseteq reserved'
      /\ Outstanding' = Outstanding \ {r}
  BY <1>1, ClaimSettled DEF Cancel
<1>3. /\ task' \in [Tasks -> {"idle", "sleeping", "parked", "woken", "done", "none"}]
      /\ \A w \in Waits : task'[w] # task[w] => task[w] = "parked" /\ task'[w] = "woken"
  <2>1. task \in [Tasks -> {"idle", "sleeping", "parked", "woken", "done", "none"}]
    BY DEF BucketInv, TypeOK
  <2> QED BY <2>1 DEF Cancel, Notified, Tasks
<1>4. TypeOK'
  BY <1>2, <1>3 DEF Cancel, BucketInv, TypeOK
<1>5. WaitsInv'
  <2>1. \A w \in Waits : task'[w] \in Waiting => task[w] \in Waiting
    BY <1>3 DEF Waiting
  <2>2. \A w \in Waits : task'[w] \in {"parked", "woken"} => task[w] \in {"parked", "woken"}
    BY <1>3
  <2>3. \A w \in Waits : task[w] \in {"parked", "woken"} => Of[w] # r
    BY DEF Cancel
  <2>4. UNCHANGED reserved
    BY DEF Cancel
  <2> QED BY <1>2, <2>1, <2>2, <2>3, <2>4 DEF WaitsInv, BucketInv
<1> QED BY <1>2, <1>4, <1>5 DEF BucketInv
\* A wait goes to sleep, or returns nothing.
LEMMA WaitMoves ==
    ASSUME BucketInv, ~CallsOverlap, NEW w \in Waits, WaitSleeps(w) \/ WaitReturnsNone(w)
    PROVE  BucketInv'
<1>1. w \in Tasks /\ task \in [Tasks -> {"idle", "sleeping", "parked", "woken", "done", "none"}]
  BY DEF BucketInv, TypeOK, Tasks
<1>2. UNCHANGED <<bucket, earned, promised, got, claims, spinning>>
  BY DEF WaitSleeps, WaitReturnsNone
<1>3. PICK to \in {"sleeping", "none"} : task' = [task EXCEPT ![w] = to]
  BY DEF WaitSleeps, WaitReturnsNone
<1>4. TypeOK'
  BY <1>1, <1>2, <1>3 DEF BucketInv, TypeOK, claims
<1>5. WaitsInv'
  <2>1. \A x \in Waits : x # w => task'[x] = task[x]
    BY <1>1, <1>3 DEF Tasks
  <2>2. task'[w] \in Waiting => Of[w] \in reserved /\ ~Awaited(Of[w])
    <3>1. task'[w] = to
      BY <1>1, <1>3
    <3>2. CASE WaitSleeps(w)
      BY <3>2 DEF WaitSleeps
    <3>3. CASE WaitReturnsNone(w)
      <4>1. task'[w] = "none"
        BY <3>3, <1>1 DEF WaitReturnsNone
      <4> QED BY <4>1 DEF Waiting
    <3> QED BY <3>2, <3>3
  <2>3. task'[w] \notin {"parked", "woken"}
    BY <1>1, <1>3
  <2>4. UNCHANGED <<reserved, Outstanding>>
    BY <1>2 DEF claims, Outstanding
  <2>5. \A x \in Waits : x # w /\ task'[w] \in Waiting /\ task'[x] \in Waiting => Of[x] # Of[w]
    BY <2>1, <2>2 DEF Awaited, Waiting
  <2>6. WaitsInv
    BY DEF BucketInv
  <2>7. \A x \in Waits : task'[x] \in Waiting => Of[x] \in reserved'
    BY <2>1, <2>2, <2>4, <2>6 DEF WaitsInv
  <2>8. \A x \in Waits : task'[x] \in {"parked", "woken"} => Of[x] \in Outstanding'
    BY <2>1, <2>3, <2>4, <2>6 DEF WaitsInv
  <2>9. \A x, y \in Waits :
          Of[x] = Of[y] /\ task'[x] \in Waiting /\ task'[y] \in Waiting => x = y
    BY <2>1, <2>5, <2>6 DEF WaitsInv
  <2> QED BY <2>7, <2>8, <2>9 DEF WaitsInv
<1> QED BY <1>2, <1>4, <1>5, ClaimsStay DEF BucketInv, claims

\* A wait that has slept takes its tokens and settles its claim, which nobody
\* else waits for, or waits on.
LEMMA CollectsKeeps ==
    ASSUME BucketInv, NEW w \in Waits, task[w] \in Waiting, Of[w] \in Outstanding,
           NEW b \in 0 .. max_capacity, Collects(w, b), earned' \in 0 .. MaxEarned,
           UNCHANGED <<got, due, reserved, cancelled, spinning>>
    PROVE  BucketInv'
<1>1. w \in Tasks /\ task \in [Tasks -> {"idle", "sleeping", "parked", "woken", "done", "none"}]
  BY DEF BucketInv, TypeOK, Tasks
<1>2. WaitsInv
  BY DEF BucketInv
<1>3. CASE b < Wants[Of[w]]
  <2>1. bucket' = b /\ task' = [task EXCEPT ![w] = "parked"] /\ UNCHANGED <<promised, consumed>>
    BY <1>3 DEF Collects
  <2>2. TypeOK'
    BY <1>1, <2>1 DEF BucketInv, TypeOK
  <2>3. UNCHANGED <<reserved, Outstanding>>
    BY <2>1 DEF Outstanding
  <2>4. \A x \in Waits : x # w => task'[x] = task[x]
    BY <1>1, <2>1 DEF Tasks
  <2>5. \A x \in Waits : task'[x] \in Waiting => task[x] \in Waiting
    BY <2>4
  <2>6. \A x \in Waits : task'[x] \in {"parked", "woken"} => Of[x] \in Outstanding
    BY <1>2, <2>4 DEF WaitsInv
  <2>7. WaitsInv'
    BY <1>2, <2>3, <2>5, <2>6 DEF WaitsInv
  <2> QED BY <2>1, <2>2, <2>7, ClaimsStay DEF BucketInv
<1>4. CASE ~(b < Wants[Of[w]])
  <2>1. /\ bucket' = b - Wants[Of[w]] /\ promised' = promised - Wants[Of[w]]
        /\ consumed' = consumed \union {Of[w]}
        /\ task' = Notified(DoAllocate, [task EXCEPT ![w] = "done"])
    BY <1>4 DEF Collects
  <2>2. Of[w] \in Reservations /\ Wants[Of[w]] \in Nat
    BY TokenBucketAssumption
  <2>3. bucket' \in 0 .. max_capacity
    BY <1>4, <2>1, <2>2, TokenBucketAssumption
  <2>4. /\ IsFiniteSet(Claimed(Outstanding))' /\ PromisedIsOutstanding'
        /\ promised' \in Int /\ consumed' \union cancelled' \subseteq reserved'
        /\ Outstanding' = Outstanding \ {Of[w]}
    BY <2>1, ClaimSettled
  <2>5. w \notin DoAllocate /\ \A x \in Waits : x \in Tasks /\ x \notin DoAllocate
    BY TokenBucketAssumption DEF DoAllocate, Tasks
  <2>6. /\ task' \in [Tasks -> {"idle", "sleeping", "parked", "woken", "done", "none"}]
        /\ task'[w] = "done" /\ \A x \in Waits : x # w => task'[x] = task[x]
    BY <1>1, <2>1, <2>5 DEF Notified
  <2>7. TypeOK'
    BY <2>3, <2>4, <2>6 DEF BucketInv, TypeOK
  <2>8. \A x \in Waits : task'[x] \in Waiting => task[x] \in Waiting /\ x # w /\ task[x] = task'[x]
    BY <2>6 DEF Waiting
  <2>9. \A x \in Waits : task'[x] \in Waiting => Of[x] # Of[w]
    BY <1>2, <2>8 DEF WaitsInv
  <2>10. \A x \in Waits : task'[x] \in {"parked", "woken"} => Of[x] \in Outstanding'
    <3>1. \A x \in Waits : task'[x] \in {"parked", "woken"} => task'[x] \in Waiting
      BY DEF Waiting
    <3> QED BY <1>2, <2>4, <2>8, <2>9, <3>1 DEF WaitsInv
  <2>11. WaitsInv'
    BY <1>2, <2>8, <2>10 DEF WaitsInv
  <2> QED BY <2>4, <2>7, <2>11 DEF BucketInv
<1> QED BY <1>3, <1>4

\* Waiting for a reservation settles an open claim or none.
LEMMA WaitKeeps ==
    ASSUME BucketInv, ~CallsOverlap, NEW w \in Waits, Wait(w)
    PROVE  BucketInv'
<1>1. CASE WaitWakes(w)
  <2>1. task[w] \in Waiting /\ Of[w] \in Outstanding
    BY <1>1 DEF WaitWakes, Waiting, BucketInv, WaitsInv, Outstanding
  <2>2. Refilled \in 0 .. max_capacity /\ earned' \in 0 .. MaxEarned
    <3>1. bucket \in Nat
      BY DEF BucketInv, TypeOK
    <3>2. Refilled \in bucket .. max_capacity /\ earned - Minted \in 0 .. MaxEarned
      BY RefillsFit DEF BucketInv
    <3> QED BY <1>1, <3>1, <3>2 DEF WaitWakes, Credit
  <2> QED BY <1>1, <2>1, <2>2, CollectsKeeps DEF WaitWakes
<1>2. CASE WaitChecksAgain(w)
  <2>1. task[w] \in Waiting /\ Of[w] \in Outstanding
    BY <1>2 DEF WaitChecksAgain, Waiting, BucketInv, WaitsInv
  <2>2. bucket \in 0 .. max_capacity /\ earned' \in 0 .. MaxEarned
    BY <1>2 DEF WaitChecksAgain, BucketInv, TypeOK
  <2> QED BY <1>2, <2>1, <2>2, CollectsKeeps DEF WaitChecksAgain
<1> QED BY <1>1, <1>2, WaitMoves DEF Wait

\* The bucket starts empty, with nothing promised.
LEMMA BucketStarts == Init => BucketInv
<1> SUFFICES ASSUME Init PROVE BucketInv
  OBVIOUS
<1>1. TypeOK
  <2>1. 0 \in 0 .. max_capacity /\ 0 \in 0 .. MaxEarned /\ 0 \in 0 .. MaxWait
    BY TokenBucketAssumption
  <2>2. \A g \in Getters : 0 <= Wants[g]
    BY TokenBucketAssumption
  <2>3. task \in [Tasks -> {"idle", "sleeping", "parked", "woken", "done", "none"}]
    BY DEF Init
  <2>4. got \in [Getters -> Nat] /\ \A g \in Getters : got[g] <= Wants[g]
    BY <2>2 DEF Init
  <2>5. due \in [Reservations -> 0 .. MaxWait]
    BY <2>1 DEF Init
  <2>6. /\ bucket \in 0 .. max_capacity /\ earned \in 0 .. MaxEarned /\ promised \in Int
        /\ consumed \union cancelled \subseteq reserved /\ reserved \subseteq Reservations
    BY <2>1 DEF Init
  <2>7. spinning \in BOOLEAN
    BY Zenon DEF Init
  <2> QED BY <2>3, <2>4, <2>5, <2>6, <2>7 DEF TypeOK
<1>2. Outstanding = {} /\ Claimed(Outstanding) = {}
  BY DEF Init, Outstanding, Claimed
<1>3. IsFiniteSet(Claimed(Outstanding)) /\ PromisedIsOutstanding
  BY <1>2, FS_EmptySet DEF Init, PromisedIsOutstanding
<1>4. \A w \in Waits : task[w] = "idle"
  BY DEF Init, Tasks
<1>5. WaitsInv
  BY <1>4 DEF WaitsInv, Waiting
<1> QED BY <1>1, <1>3, <1>5 DEF BucketInv

\* Every step of the bucket keeps what it promises, if calls do not overlap.
LEMMA BucketStepKeeps ==
    ASSUME BucketInv, ~CallsOverlap, [Next]_vars
    PROVE  BucketInv'
<1>1. CASE UNCHANGED vars
  <2>1. TypeOK'
    BY <1>1 DEF vars, BucketInv, TypeOK
  <2>2. WaitsInv'
    BY <1>1, WaitsStay DEF vars, BucketInv
  <2> QED BY <1>1, <2>1, <2>2, ClaimsStay DEF vars, BucketInv
<1>2. CASE Next
  BY <1>2, TickKeeps, FillKeeps, GetKeeps, TryKeeps, ReserveKeeps, CancelKeeps, WaitKeeps DEF Next
<1> QED BY <1>1, <1>2
\* Only the wait of a reservation takes what is promised.
LEMMA TakesAreFree ==
    ASSUME BucketInv, BucketInv', [Next]_vars, bucket' < bucket, consumed' = consumed
    PROVE  bucket' >= promised'
<1>1. /\ bucket \in Nat /\ bucket' \in Nat /\ promised \in Nat
      /\ Refilled \in Nat /\ Refilled >= bucket
  BY RefillsFit, PromisesAreTokens DEF BucketInv, TypeOK
<1>2. bucket' # bucket /\ ~(bucket' >= bucket)
  <2>1. bucket' # bucket
    BY <1>1
  <2>2. bucket' >= bucket => FALSE
    BY <1>1
  <2> QED BY <2>1, <2>2
<1>3. Next
  BY <1>2 DEF vars
<1>4. CASE Tick \/ \E r \in Reservations : Cancel(r)
  BY <1>2, <1>4 DEF Tick, Cancel
<1>5. CASE \E f \in Fillers : Fill(f)
  BY <1>1, <1>2, <1>5 DEF Fill, FillParks, Fills
<1>6. ASSUME NEW g \in Getters, Get(g) PROVE bucket' >= promised'
  <2>1. GetTakes(g)
    BY <1>2, <1>6 DEF Get, GetParks, GetSpins
  <2>2. PICK m \in Int : m = Wants[g] - got[g]
    BY TokenBucketAssumption DEF BucketInv, TypeOK
  <2>3. PICK n \in Int : n = bucket - promised
    BY <1>1
  <2>4. bucket' = bucket - Min({m, n}) /\ promised' = promised
    BY <2>1, <2>2, <2>3 DEF GetTakes
  <2>5. Min({m, n}) = IF m <= n THEN m ELSE n
    BY TwoNumbers
  <2> QED BY <1>1, <2>3, <2>4, <2>5
<1>7. ASSUME NEW t \in Triers, Try(t) PROVE bucket' >= promised'
  <2>1. TryRaises(t)
    BY <1>1, <1>2, <1>7 DEF Try, TryTakesNothing
  <2>2. Wants[t] \in Nat
    BY TokenBucketAssumption
  <2> QED BY <1>1, <2>1, <2>2 DEF TryRaises
<1>8. CASE \E r \in Reservations : ReserveRefused(r) \/ Reserve(r)
  BY <1>1, <1>2, <1>8 DEF ReserveRefused, Reserve
<1>9. ASSUME NEW w \in Waits, Wait(w) PROVE FALSE
  <2>1. CASE WaitSleeps(w) \/ WaitReturnsNone(w)
    BY <1>2, <2>1 DEF WaitSleeps, WaitReturnsNone
  <2>2. ASSUME NEW b \in Nat, b >= bucket, Collects(w, b), Of[w] \notin consumed PROVE FALSE
    <3>1. CASE b < Wants[Of[w]]
      BY <1>2, <2>2, <3>1 DEF Collects
    <3>2. CASE ~(b < Wants[Of[w]])
      BY <2>2, <3>2 DEF Collects
    <3> QED BY <3>1, <3>2
  <2>3. CASE WaitWakes(w)
    BY <1>1, <2>2, <2>3 DEF WaitWakes
  <2>4. CASE WaitChecksAgain(w)
    <3>1. Of[w] \notin consumed
      BY <2>4 DEF WaitChecksAgain, BucketInv, WaitsInv, Outstanding
    <3> QED BY <1>1, <2>2, <2>4, <3>1 DEF WaitChecksAgain
  <2> QED BY <1>9, <2>1, <2>3, <2>4 DEF Wait
<1> QED BY <1>3, <1>4, <1>5, <1>6, <1>7, <1>8, <1>9 DEF Next
-----------------------------------------------------------------------------
(* The threaded bucket *)

\* The threaded bucket and the bucket it is compared with hold the same.
ThreadedInv == Threaded!TypeOK /\ Threaded!NeverOverspends

\* What is read of the lesser and of the greater of two numbers there.
LEMMA TwoNumbersThreaded ==
    ASSUME NEW m \in Int, NEW n \in Int
    PROVE  /\ Threaded!Min({m, n}) = IF m <= n THEN m ELSE n
           /\ Threaded!Max({m, n}) = IF m >= n THEN m ELSE n
  BY TwoNumbers DEF Threaded!Min, Threaded!Max, Min, Max

\* Refilling and taking n tokens that are there takes n from both buckets.
LEMMA RefillsExactly ==
    ASSUME ThreadedInv, Threaded!ConcurrentBucketConstants, NEW n \in 0 .. ThreadedCapacity,
           Threaded!Refills(n), Threaded!Enough(n), level' = level - n
    PROVE  /\ tokens' \in 0 .. ThreadedCapacity /\ since_refill' \in 0 .. ThreadedCapacity
           /\ Threaded!NeverOverspends'
<1>1. /\ tokens \in Nat /\ tokens <= ThreadedCapacity /\ since_refill \in Nat
      /\ ThreadedCapacity \in Nat /\ n \in Nat /\ n <= ThreadedCapacity
  BY DEF ThreadedInv, Threaded!TypeOK, Threaded!ConcurrentBucketConstants
<1>2. PICK sum \in Nat : sum = tokens + since_refill
  BY <1>1
<1>3. PICK full \in Nat : full = (IF sum <= ThreadedCapacity THEN sum ELSE ThreadedCapacity)
  BY <1>1
<1>4. Threaded!Min({sum, ThreadedCapacity}) = full
  BY <1>1, <1>3, TwoNumbersThreaded
<1>5. level = full /\ n <= full
  BY <1>1, <1>2, <1>3, <1>4 DEF ThreadedInv, Threaded!NeverOverspends, Threaded!Enough
<1>6. tokens' = full - n /\ since_refill' = 0
  BY <1>2, <1>4 DEF Threaded!Refills
<1>7. tokens' \in Nat /\ tokens' <= ThreadedCapacity
  BY <1>1, <1>3, <1>5, <1>6
<1>8. Threaded!Min({tokens' + since_refill', ThreadedCapacity}) = tokens'
  <2>1. Threaded!Min({tokens', ThreadedCapacity}) = tokens'
    BY <1>1, <1>7, TwoNumbersThreaded
  <2> QED BY <1>6, <1>7, <2>1
<1>9. Threaded!NeverOverspends'
  <2>1. level' = tokens' /\ level' >= 0
    BY <1>1, <1>3, <1>5, <1>6
  <2> QED BY <1>8, <2>1 DEF Threaded!NeverOverspends, Threaded!Min
<1> QED BY <1>1, <1>6, <1>7, <1>9

\* Both buckets earn a token with time, or are full.
LEMMA ThreadedTicks ==
    ASSUME ThreadedInv, Threaded!ConcurrentBucketConstants, Threaded!Tick
    PROVE  ThreadedInv'
<1>1. /\ tokens \in Nat /\ tokens <= ThreadedCapacity /\ since_refill \in Nat
      /\ since_refill <= ThreadedCapacity /\ ThreadedCapacity \in Nat
      /\ timer \in [Acquirers -> 0 .. ThreadedCapacity]
  BY DEF ThreadedInv, Threaded!TypeOK, Threaded!ConcurrentBucketConstants
<1>2. level = IF tokens + since_refill <= ThreadedCapacity
              THEN tokens + since_refill ELSE ThreadedCapacity
  <2>1. PICK sum \in Nat : sum = tokens + since_refill
    BY <1>1
  <2> QED BY <1>1, <2>1, TwoNumbersThreaded DEF ThreadedInv, Threaded!NeverOverspends
<1>3. level \in Nat /\ level <= ThreadedCapacity
  BY <1>1, <1>2
<1>4. /\ since_refill' = IF since_refill + 1 <= ThreadedCapacity
                         THEN since_refill + 1 ELSE ThreadedCapacity
      /\ level' = IF level + 1 <= ThreadedCapacity THEN level + 1 ELSE ThreadedCapacity
      /\ UNCHANGED <<tokens, filling, acquirer, tries>>
  <2>1. PICK m \in Nat, n \in Nat : m = since_refill + 1 /\ n = level + 1
    BY <1>1, <1>3
  <2> QED BY <1>1, <2>1, TwoNumbersThreaded DEF Threaded!Tick
<1>5. since_refill' \in Nat /\ since_refill' <= ThreadedCapacity
  BY <1>1, <1>4
<1>6. timer' \in [Acquirers -> 0 .. ThreadedCapacity]
  <2>1. ASSUME NEW a \in Acquirers PROVE Threaded!Max({timer[a] - 1, 0}) \in 0 .. ThreadedCapacity
    <3>1. PICK n \in Int : n = timer[a] - 1 /\ n <= ThreadedCapacity
      BY <1>1
    <3>2. Threaded!Max({n, 0}) = IF n >= 0 THEN n ELSE 0
      BY TwoNumbersThreaded
    <3> QED BY <1>1, <3>1, <3>2
  <2> QED BY <2>1 DEF Threaded!Tick
<1>7. Threaded!TypeOK'
  BY <1>1, <1>4, <1>5, <1>6 DEF ThreadedInv, Threaded!TypeOK
<1>8. Threaded!NeverOverspends'
  <2>1. PICK sum \in Nat : sum = tokens' + since_refill'
    BY <1>1, <1>4, <1>5
  <2>2. Threaded!Min({sum, ThreadedCapacity}) = level'
    <3>1. Threaded!Min({sum, ThreadedCapacity}) =
            IF sum <= ThreadedCapacity THEN sum ELSE ThreadedCapacity
      BY <1>1, TwoNumbersThreaded
    <3> QED BY <1>1, <1>2, <1>4, <2>1, <3>1
  <2>3. level' >= 0
    BY <1>1, <1>3, <1>4
  <2> QED BY <2>1, <2>2, <2>3 DEF Threaded!NeverOverspends, Threaded!Min
<1> QED BY <1>7, <1>8 DEF ThreadedInv
\* Where the thread of an acquire goes, and which others go with it.
LEMMA AcquirersMove ==
    ASSUME Threaded!TypeOK, NEW s \in [Acquirers -> {"idle", "waiting", "woken", "done"}],
           acquirer' = Threaded!Notified(s)
    PROVE  acquirer' \in [Acquirers -> {"idle", "waiting", "woken", "done"}]
  BY DEF Threaded!Notified

\* Trying takes what is there, or nothing.
LEMMA ThreadedTries ==
    ASSUME ThreadedInv, Threaded!ConcurrentBucketConstants,
           NEW n \in 1 .. ThreadedCapacity, Threaded!TryAcquire(n)
    PROVE  ThreadedInv'
<1>1. /\ acquirer \in [Acquirers -> {"idle", "waiting", "woken", "done"}]
      /\ tries \in 0 .. MaxTries /\ MaxTries \in Nat /\ ThreadedCapacity \in Nat /\ level \in Int
  <2>1. level \in Int
    <3>1. tokens + since_refill \in Int /\ ThreadedCapacity \in Int
      BY DEF ThreadedInv, Threaded!TypeOK, Threaded!ConcurrentBucketConstants
    <3> QED BY <3>1, TwoNumbersThreaded DEF ThreadedInv, Threaded!NeverOverspends
  <2> QED BY <2>1 DEF ThreadedInv, Threaded!TypeOK, Threaded!ConcurrentBucketConstants
<1>2. /\ tokens' \in 0 .. ThreadedCapacity /\ since_refill' \in 0 .. ThreadedCapacity
      /\ Threaded!NeverOverspends'
  <2>1. CASE Threaded!Takes(n, acquirer)
    BY <1>1, <2>1, RefillsExactly DEF Threaded!Takes
  <2>2. CASE ~Threaded!Enough(n) /\ Threaded!Refills(0) /\ UNCHANGED <<acquirer, level>>
    <3>1. level' = level - 0 /\ 0 \in 0 .. ThreadedCapacity
      BY <1>1, <2>2
    <3>2. Threaded!Enough(0)
      BY DEF Threaded!Enough, ThreadedInv, Threaded!TypeOK
    <3> QED BY <2>2, <3>1, <3>2, RefillsExactly
  <2> QED BY <2>1, <2>2 DEF Threaded!TryAcquire
<1>3. acquirer' \in [Acquirers -> {"idle", "waiting", "woken", "done"}]
  BY <1>1, AcquirersMove DEF Threaded!TryAcquire, Threaded!Takes, ThreadedInv
<1>4. tries' \in 0 .. MaxTries /\ UNCHANGED <<timer, filling>>
  BY <1>1 DEF Threaded!TryAcquire
<1> QED BY <1>2, <1>3, <1>4 DEF ThreadedInv, Threaded!TypeOK

\* An acquire takes what it asks for, or waits no longer than that takes.
LEMMA ThreadedAcquires ==
    ASSUME ThreadedInv, Threaded!ConcurrentBucketConstants,
           NEW a \in Acquirers, Threaded!Acquire(a)
    PROVE  ThreadedInv'
<1>1. /\ acquirer \in [Acquirers -> {"idle", "waiting", "woken", "done"}]
      /\ timer \in [Acquirers -> 0 .. ThreadedCapacity] /\ ThreadedCapacity \in Nat
      /\ AcquirerWants[a] \in 1 .. ThreadedCapacity /\ level \in Int
      /\ tokens \in Nat /\ since_refill \in Nat
  <2>1. level \in Int
    <3>1. tokens + since_refill \in Int /\ ThreadedCapacity \in Int
      BY DEF ThreadedInv, Threaded!TypeOK, Threaded!ConcurrentBucketConstants
    <3> QED BY <3>1, TwoNumbersThreaded DEF ThreadedInv, Threaded!NeverOverspends
  <2> QED BY <2>1 DEF ThreadedInv, Threaded!TypeOK, Threaded!ConcurrentBucketConstants
<1>2. CASE Threaded!AcquireTakes(a)
  <2>1. AcquirerWants[a] \in 0 .. ThreadedCapacity
    BY <1>1
  <2>2. /\ tokens' \in 0 .. ThreadedCapacity /\ since_refill' \in 0 .. ThreadedCapacity
        /\ Threaded!NeverOverspends'
    BY <1>2, <2>1, RefillsExactly DEF Threaded!AcquireTakes, Threaded!Takes
  <2>3. acquirer' \in [Acquirers -> {"idle", "waiting", "woken", "done"}]
    <3>1. [acquirer EXCEPT ![a] = "done"] \in [Acquirers -> {"idle", "waiting", "woken", "done"}]
      BY <1>1
    <3> QED BY <1>2, <3>1, AcquirersMove DEF Threaded!AcquireTakes, Threaded!Takes, ThreadedInv
  <2>4. timer' \in [Acquirers -> 0 .. ThreadedCapacity] /\ UNCHANGED <<filling, tries>>
    BY <1>1, <1>2 DEF Threaded!AcquireTakes
  <2> QED BY <2>2, <2>3, <2>4 DEF ThreadedInv, Threaded!TypeOK
<1>3. CASE Threaded!AcquireWaits(a)
  <2>1. level' = level - 0 /\ 0 \in 0 .. ThreadedCapacity /\ Threaded!Enough(0)
    BY <1>1, <1>3 DEF Threaded!AcquireWaits, Threaded!Enough
  <2>2. /\ tokens' \in 0 .. ThreadedCapacity /\ since_refill' \in 0 .. ThreadedCapacity
        /\ Threaded!NeverOverspends'
    BY <1>3, <2>1, RefillsExactly DEF Threaded!AcquireWaits
  <2>3. tokens' <= AcquirerWants[a]
    <3>1. PICK sum \in Nat : sum = tokens + since_refill /\ sum < AcquirerWants[a]
      BY <1>1, <1>3 DEF Threaded!AcquireWaits, Threaded!Enough
    <3>2. Threaded!Min({sum, ThreadedCapacity}) = sum
      BY <1>1, <3>1, TwoNumbersThreaded
    <3>3. tokens' = sum - 0
      BY <1>3, <3>1, <3>2 DEF Threaded!AcquireWaits, Threaded!Refills
    <3> QED BY <1>1, <3>1, <3>3
  <2>4. (IF filling THEN AcquirerWants[a] - tokens' ELSE 0) \in 0 .. ThreadedCapacity
    BY <1>1, <2>2, <2>3
  <2>5. timer' \in [Acquirers -> 0 .. ThreadedCapacity] /\ UNCHANGED <<filling, tries>>
    BY <1>1, <1>3, <2>4 DEF Threaded!AcquireWaits
  <2>6. acquirer' \in [Acquirers -> {"idle", "waiting", "woken", "done"}]
    BY <1>1, <1>3 DEF Threaded!AcquireWaits
  <2> QED BY <2>2, <2>5, <2>6 DEF ThreadedInv, Threaded!TypeOK
<1> QED BY <1>2, <1>3 DEF Threaded!Acquire

\* The threaded bucket starts full.
LEMMA ThreadedStarts ==
    ASSUME Threaded!ConcurrentBucketConstants, Threaded!Init
    PROVE  ThreadedInv
<1>1. ThreadedCapacity \in Nat /\ MaxTries \in Nat
  BY DEF Threaded!ConcurrentBucketConstants
<1>2. Threaded!TypeOK
  BY <1>1 DEF Threaded!Init, Threaded!TypeOK
<1>3. Threaded!Min({ThreadedCapacity, ThreadedCapacity}) = ThreadedCapacity
  BY <1>1, TwoNumbersThreaded
<1>4. tokens + since_refill = ThreadedCapacity /\ level = ThreadedCapacity /\ level >= 0
  BY <1>1 DEF Threaded!Init
<1> QED BY <1>2, <1>3, <1>4 DEF ThreadedInv, Threaded!NeverOverspends

\* Every step of the threaded bucket keeps it level with the other.
LEMMA ThreadedStepKeeps ==
    ASSUME ThreadedInv, Threaded!ConcurrentBucketConstants, Threaded!Next \/ UNCHANGED threaded_vars
    PROVE  ThreadedInv'
<1>1. CASE UNCHANGED threaded_vars
  BY <1>1 DEF threaded_vars, ThreadedInv, Threaded!TypeOK, Threaded!NeverOverspends, Threaded!Min
<1> QED BY <1>1, ThreadedTicks, ThreadedTries, ThreadedAcquires DEF Threaded!Next
-----------------------------------------------------------------------------
(* The load balancer *)

\* A set of numbers that is not empty has a least member.
LEMMA LeastNumber ==
    ASSUME NEW P \in SUBSET Nat, P # {}
    PROVE  \E v \in P : \A u \in P : v <= u
<1> DEFINE R == OpToRel(<, Nat)
<1>1. IsWellFoundedOn(R, Nat)
  BY NatLessThanWellFounded
<1>2. PICK v \in P : \A u \in P : ~(<<u, v>> \in R)
  <2> HIDE DEF R
  <2> QED BY <1>1, WFMin
<1>3. \A u \in P : <<u, v>> \in R <=> u < v
  BY DEF OpToRel
<1>4. \A u \in P : ~(u < v)
  <2> HIDE DEF R
  <2> QED BY <1>2, <1>3
<1> QED BY <1>4

\* The balancer with its list of servers, which is a sequence.
BalancerInv == servers \in Seq(Servers) /\ Balancer!TypeOK

\* Where the first occurrence of a server is, the list is closed up.
LEMMA RemovedOnce ==
    ASSUME NEW s \in Servers, servers \in Seq(Servers), s \in Balancer!ToSet(servers)
    PROVE  \E k \in 1 .. Len(servers) :
             /\ Balancer!RemoveFirst(servers, s) \in Seq(Servers)
             /\ Len(Balancer!RemoveFirst(servers, s)) = Len(servers) - 1
             /\ \A i \in 1 .. Len(servers) - 1 :
                  Balancer!RemoveFirst(servers, s)[i] = servers[IF i < k THEN i ELSE i + 1]
<1> DEFINE I == {i \in 1 .. Len(servers) : servers[i] = s}
<1>1. I # {} /\ I \in SUBSET Nat
  BY DEF Balancer!ToSet
<1>2. PICK k \in I : k = Balancer!Min(I)
  <2>1. \E k \in I : \A i \in I : k <= i
    <3> HIDE DEF I
    <3> QED BY <1>1, LeastNumber
  <2> HIDE DEF I
  <2> QED BY <2>1 DEF Balancer!Min
<1>3. k \in 1 .. Len(servers)
  OBVIOUS
<1>4. Balancer!RemoveFirst(servers, s) = Balancer!RemoveAt(servers, k)
  BY <1>1, <1>2 DEF Balancer!RemoveFirst, Balancer!SelectInSeq
<1> HIDE DEF I
<1> DEFINE front == SubSeq(servers, 1, k - 1)
           back == SubSeq(servers, k + 1, Len(servers))
<1>5. Len(servers) \in Nat /\ k \in Nat /\ k >= 1 /\ k <= Len(servers)
  BY <1>3
<1>6. /\ front \in Seq(Servers) /\ Len(front) = k - 1
      /\ \A i \in 1 .. k - 1 : front[i] = servers[i]
  BY <1>5
<1>7. /\ back \in Seq(Servers) /\ Len(back) = Len(servers) - k
      /\ \A i \in 1 .. Len(servers) - k : back[i] = servers[k + i]
  BY <1>5
<1>8. Balancer!RemoveFirst(servers, s) = front \o back
  BY <1>4 DEF Balancer!RemoveAt
<1> HIDE DEF front, back
<1>9. front \o back \in Seq(Servers) /\ Len(front \o back) = Len(servers) - 1
  <2>1. front \o back \in Seq(Servers) /\ Len(front \o back) = Len(front) + Len(back)
    <3>1. \A x, y \in Seq(Servers) : x \o y \in Seq(Servers) /\ Len(x \o y) = Len(x) + Len(y)
      OBVIOUS
    <3> QED BY <1>6, <1>7, <3>1, Zenon
  <2>2. (k - 1) + (Len(servers) - k) = Len(servers) - 1
    BY <1>5
  <2> QED BY <1>6, <1>7, <2>1, <2>2
<1>10. ASSUME NEW i \in 1 .. Len(servers) - 1
       PROVE  (front \o back)[i] = servers[IF i < k THEN i ELSE i + 1]
  <2>1. CASE i < k
    BY <1>5, <1>6, <1>7, <2>1
  <2>2. CASE ~(i < k)
    <3>1. i - (k - 1) \in 1 .. Len(servers) - k /\ (front \o back)[i] = back[i - (k - 1)]
      BY <1>5, <1>6, <1>7, <2>2
    <3>2. k + (i - (k - 1)) = i + 1
      BY <1>5
    <3> QED BY <1>7, <2>2, <3>1, <3>2
  <2> QED BY <2>1, <2>2
<1> QED BY <1>3, <1>8, <1>9, <1>10

\* A server leaves the list once and is gone.
LEMMA UnregisterKeeps ==
    ASSUME BalancerInv, Balancer!LoadBalancerConstants,
           NEW s \in Servers, Balancer!Unregister(s)
    PROVE  BalancerInv'
<1>1. /\ servers \in Seq(Servers) /\ Len(servers) \in Nat
      /\ \A i, j \in 1 .. Len(servers) : servers[i] = servers[j] => i = j
  BY DEF BalancerInv, Balancer!TypeOK, Balancer!IsInjective
<1>2. s \in Balancer!ToSet(servers) /\ servers' = Balancer!RemoveFirst(servers, s)
  BY DEF Balancer!Unregister
<1>3. PICK k \in 1 .. Len(servers) :
        /\ servers' \in Seq(Servers) /\ Len(servers') = Len(servers) - 1
        /\ \A i \in 1 .. Len(servers) - 1 : servers'[i] = servers[IF i < k THEN i ELSE i + 1]
  BY <1>1, <1>2, RemovedOnce
<1> DEFINE old(i) == IF i < k THEN i ELSE i + 1
<1>4. \A i \in 1 .. Len(servers) - 1 : old(i) \in 1 .. Len(servers) /\ servers'[i] = servers[old(i)]
  BY <1>1, <1>3
<1>5. \A i, j \in 1 .. Len(servers) - 1 : old(i) = old(j) => i = j
  BY <1>1
<1>6. DOMAIN servers' = 1 .. Len(servers) - 1
  BY <1>3
<1> HIDE DEF old
<1>7. Balancer!IsInjective(servers')
  BY SMTT(30), <1>1, <1>4, <1>5, <1>6 DEF Balancer!IsInjective
<1>8. Balancer!ToSet(servers') \subseteq Servers
  BY <1>3 DEF Balancer!ToSet
<1>9. Len(servers') <= BalancerCapacity
  BY <1>1, <1>3 DEF BalancerInv, Balancer!TypeOK, Balancer!LoadBalancerConstants
<1>10. UNCHANGED <<strategy, index, outcome>>
  BY DEF Balancer!Unregister
<1> QED BY <1>3, <1>7, <1>8, <1>9, <1>10
        DEF BalancerInv, Balancer!TypeOK, Balancer!IsInjective, Balancer!ToSet
\* A server that is registered was not in the list.
LEMMA RegisterKeeps ==
    ASSUME BalancerInv, Balancer!LoadBalancerConstants,
           NEW s \in Servers, Balancer!Register(s)
    PROVE  BalancerInv'
<1>1. /\ servers \in Seq(Servers) /\ Len(servers) \in Nat
      /\ \A i, j \in 1 .. Len(servers) : servers[i] = servers[j] => i = j
      /\ Len(servers) < BalancerCapacity /\ BalancerCapacity \in Nat
  BY DEF BalancerInv, Balancer!TypeOK, Balancer!IsInjective, Balancer!Register,
         Balancer!LoadBalancerConstants
<1>2. /\ servers' \in Seq(Servers) /\ Len(servers') = Len(servers) + 1
      /\ servers'[Len(servers) + 1] = s /\ \A i \in 1 .. Len(servers) : servers'[i] = servers[i]
      /\ DOMAIN servers' = 1 .. Len(servers) + 1
  BY <1>1 DEF Balancer!Register
<1>3. \A i \in 1 .. Len(servers) : servers[i] # s
  BY <1>1 DEF Balancer!Register, Balancer!ToSet
<1>4. \A i \in 1 .. Len(servers) + 1 : i \in 1 .. Len(servers) \/ i = Len(servers) + 1
  BY <1>1
<1>5. Balancer!IsInjective(servers')
  BY <1>1, <1>2, <1>3, <1>4, Zenon DEF Balancer!IsInjective
<1>6. Balancer!ToSet(servers') \subseteq Servers
  BY <1>2 DEF Balancer!ToSet
<1>7. Len(servers') <= BalancerCapacity
  BY <1>1, <1>2
<1>8. UNCHANGED <<strategy, index, outcome>>
  BY DEF Balancer!Register
<1> QED BY <1>2, <1>5, <1>6, <1>7, <1>8
        DEF BalancerInv, Balancer!TypeOK, Balancer!IsInjective, Balancer!ToSet

\* Whoever is chosen is registered, and the next one follows.
LEMMA ChoiceKeeps ==
    ASSUME BalancerInv, Balancer!LoadBalancerConstants, Balancer!Get
    PROVE  BalancerInv'
<1>1. /\ servers \in Seq(Servers) /\ Len(servers) \in Nat /\ Len(servers) <= BalancerCapacity
      /\ BalancerCapacity \in Nat /\ index \in 0 .. BalancerCapacity
  BY DEF BalancerInv, Balancer!TypeOK, Balancer!LoadBalancerConstants
<1>2. UNCHANGED <<servers, strategy>>
  BY DEF Balancer!Get, Balancer!GetRaises, Balancer!ChooseRandom, Balancer!ChooseNext
<1>3. /\ outcome' \in Servers \union {"none", "ValueError", "IndexError"}
      /\ index' \in 0 .. BalancerCapacity
  <2>1. CASE Balancer!GetRaises \/ Balancer!ChooseRandom
    BY <1>1, <2>1 DEF Balancer!GetRaises, Balancer!ChooseRandom, Balancer!ToSet
  <2>2. CASE Balancer!ChooseNext
    <3>1. CASE index < Len(servers)
      <4>1. index + 1 \in 1 .. Len(servers) /\ servers[index + 1] \in Servers
        BY <1>1, <3>1
      <4>2. index % Len(servers) \in 0 .. Len(servers) - 1
        BY <1>1, <3>1
      <4>3. outcome' = servers[index + 1] /\ index' = (index % Len(servers)) + 1
        BY <2>2, <3>1 DEF Balancer!ChooseNext
      <4> QED BY <1>1, <4>1, <4>2, <4>3
    <3>2. CASE ~(index < Len(servers))
      BY <1>1, <2>2, <3>2 DEF Balancer!ChooseNext
    <3> QED BY <3>1, <3>2
  <2> QED BY <2>1, <2>2 DEF Balancer!Get
<1> QED BY <1>2, <1>3 DEF BalancerInv, Balancer!TypeOK, Balancer!IsInjective, Balancer!ToSet

\* The balancer starts without servers and keeps its list.
LEMMA BalancerKeeps ==
    ASSUME Balancer!LoadBalancerConstants
    PROVE  /\ Balancer!Init => BalancerInv
           /\ BalancerInv /\ (Balancer!Next \/ UNCHANGED balancer_vars) => BalancerInv'
<1>1. ASSUME Balancer!Init PROVE BalancerInv
  <2>1. servers = <<>> /\ index = 0 /\ 0 \in 0 .. BalancerCapacity /\ 0 <= BalancerCapacity
    BY <1>1 DEF Balancer!Init, Balancer!LoadBalancerConstants
  <2>2. servers \in Seq(Servers) /\ Len(servers) = 0 /\ DOMAIN servers = {}
    BY <2>1
  <2> QED BY <1>1, <2>1, <2>2
          DEF Balancer!Init, BalancerInv, Balancer!TypeOK, Balancer!IsInjective, Balancer!ToSet
<1>2. ASSUME BalancerInv, UNCHANGED balancer_vars PROVE BalancerInv'
  BY <1>2 DEF balancer_vars, BalancerInv, Balancer!TypeOK, Balancer!IsInjective, Balancer!ToSet
<1> QED BY <1>1, <1>2, RegisterKeeps, UnregisterKeeps, ChoiceKeeps DEF Balancer!Next

-----------------------------------------------------------------------------
(* The breakers *)

\* The breaker without a lock: types, and who still has to settle a count that
\* is too high for a closed breaker.
SimpleInv == SimpleBreaker!TypeOK /\ SimpleBreaker!ClosedIsHealthy

\* The steps that leave the count and the instants alone.
LEMMA SimpleStateMoves ==
    ASSUME SimpleInv, NEW c \in SimpleCallers,
           \/ SimpleBreaker!Call(c) \/ SimpleBreaker!Promote(c)
           \/ SimpleBreaker!Raise(c) \/ SimpleBreaker!TestCount(c) \/ SimpleBreaker!Open(c)
           \/ SimpleBreaker!Return(c) \/ SimpleBreaker!Close(c)
    PROVE  SimpleInv'
<1> USE DEF SimpleInv, SimpleBreaker!Goto
<1>1. PICK to \in SimpleBreaker!Places :
          /\ simple_at' = [simple_at EXCEPT ![c] = to]
          /\ to \notin {"store", "compare", "stamp"}
  BY DEF SimpleBreaker!Places, SimpleBreaker!Call, SimpleBreaker!Promote, SimpleBreaker!Raise,
         SimpleBreaker!TestCount, SimpleBreaker!Open, SimpleBreaker!Return, SimpleBreaker!Close
<1>2. /\ UNCHANGED <<failure_count, since_opened, simple_read, simple_healthy>>
      /\ simple_state' \in {"CLOSED", "OPEN", "HALF_OPEN"}
  BY DEF SimpleBreaker!TypeOK, SimpleBreaker!Call, SimpleBreaker!Promote, SimpleBreaker!Raise,
         SimpleBreaker!TestCount, SimpleBreaker!Open, SimpleBreaker!Return, SimpleBreaker!Close
<1>3. SimpleBreaker!TypeOK'
  BY <1>1, <1>2 DEF SimpleBreaker!TypeOK, SimpleBreaker!HoldsClock
<1>4. simple_at \in [SimpleCallers -> SimpleBreaker!Places]
  BY DEF SimpleBreaker!TypeOK
<1>5. CASE SimpleBreaker!Close(c)
  BY <1>3, <1>4, <1>5 DEF SimpleBreaker!Close, SimpleBreaker!ClosedIsHealthy
<1>6. CASE SimpleBreaker!TestCount(c)
  BY <1>3, <1>4, <1>6 DEF SimpleBreaker!TestCount, SimpleBreaker!ClosedIsHealthy
<1>7. CASE SimpleBreaker!Promote(c) \/ SimpleBreaker!Open(c)
  BY <1>3, <1>7 DEF SimpleBreaker!Promote, SimpleBreaker!Open, SimpleBreaker!ClosedIsHealthy
<1>8. CASE SimpleBreaker!Call(c) \/ SimpleBreaker!Raise(c) \/ SimpleBreaker!Return(c)
  BY <1>3, <1>4, <1>8
     DEF SimpleBreaker!Call, SimpleBreaker!Raise, SimpleBreaker!Return, SimpleBreaker!ClosedIsHealthy
<1> QED BY <1>5, <1>6, <1>7, <1>8

\* The steps that read and write the count or opened_at.
LEMMA SimpleCountMoves ==
    ASSUME SimpleBreaker!SimpleBreakerConstants, SimpleInv, NEW c \in SimpleCallers,
           \/ SimpleBreaker!ReadClock(c) \/ SimpleBreaker!Compare(c) \/ SimpleBreaker!Stamp(c)
           \/ SimpleBreaker!LoadCount(c) \/ SimpleBreaker!StoreCount(c) \/ SimpleBreaker!Reset(c)
    PROVE  SimpleInv'
<1> USE DEF SimpleInv, SimpleBreaker!Goto, SimpleBreaker!Keeps
<1>1. /\ SimpleThreshold \in Nat \ {0} /\ SimpleCooldown \in Nat /\ MaxLag \in Nat
      /\ simple_at \in [SimpleCallers -> SimpleBreaker!Places]
      /\ simple_read \in [SimpleCallers -> Nat]
      /\ failure_count \in 0 .. SimpleThreshold
  BY DEF SimpleBreaker!SimpleBreakerConstants, SimpleBreaker!TypeOK
<1>2. CASE SimpleBreaker!ReadClock(c)
  <2>1. SimpleBreaker!TypeOK'
    BY <1>1, <1>2
       DEF SimpleBreaker!ReadClock, SimpleBreaker!TypeOK, SimpleBreaker!Places, SimpleBreaker!HoldsClock
  <2> QED BY <1>1, <1>2, <2>1 DEF SimpleBreaker!ReadClock, SimpleBreaker!ClosedIsHealthy
<1>3. CASE SimpleBreaker!Compare(c)
  <2>1. SimpleBreaker!TypeOK'
    BY <1>1, <1>3
       DEF SimpleBreaker!Compare, SimpleBreaker!TypeOK, SimpleBreaker!Places, SimpleBreaker!HoldsClock
  <2> QED BY <1>1, <1>3, <2>1 DEF SimpleBreaker!Compare, SimpleBreaker!ClosedIsHealthy
<1>4. CASE SimpleBreaker!Stamp(c)
  <2>1. simple_read[c] \in 0 .. SimpleBreaker!OldEnough
    BY <1>1, <1>4 DEF SimpleBreaker!Stamp, SimpleBreaker!TypeOK, SimpleBreaker!HoldsClock,
                      SimpleBreaker!OldEnough
  <2>2. SimpleBreaker!TypeOK'
    BY <1>1, <1>4, <2>1
       DEF SimpleBreaker!Stamp, SimpleBreaker!TypeOK, SimpleBreaker!Places, SimpleBreaker!HoldsClock
  <2> QED BY <1>1, <1>4, <2>2 DEF SimpleBreaker!Stamp, SimpleBreaker!ClosedIsHealthy
<1>5. CASE SimpleBreaker!LoadCount(c)
  <2>1. SimpleBreaker!TypeOK'
    BY <1>1, <1>5
       DEF SimpleBreaker!LoadCount, SimpleBreaker!TypeOK, SimpleBreaker!Places, SimpleBreaker!HoldsClock
  <2> QED BY <1>1, <1>5, <2>1 DEF SimpleBreaker!LoadCount, SimpleBreaker!ClosedIsHealthy
<1>6. CASE SimpleBreaker!StoreCount(c)
  <2>1. PICK n \in Nat : n = simple_read[c] + 1
    BY <1>1
  <2>2. SimpleBreaker!Min({n, SimpleThreshold}) = IF n <= SimpleThreshold THEN n ELSE SimpleThreshold
    BY <1>1, TwoNumbers DEF SimpleBreaker!Min, Min
  <2>3. failure_count' \in 0 .. SimpleThreshold
    BY <1>1, <1>6, <2>1, <2>2 DEF SimpleBreaker!StoreCount
  <2>4. SimpleBreaker!TypeOK'
    BY <1>1, <1>6, <2>3
       DEF SimpleBreaker!StoreCount, SimpleBreaker!TypeOK, SimpleBreaker!Places, SimpleBreaker!HoldsClock
  <2>5. simple_at'[c] = "test"
    BY <1>1, <1>6 DEF SimpleBreaker!StoreCount
  <2> QED BY <2>4, <2>5 DEF SimpleBreaker!ClosedIsHealthy
<1>7. CASE SimpleBreaker!Reset(c)
  <2>1. SimpleBreaker!TypeOK'
    BY <1>1, <1>7
       DEF SimpleBreaker!Reset, SimpleBreaker!TypeOK, SimpleBreaker!Places, SimpleBreaker!HoldsClock
  <2> QED BY <1>1, <1>7, <2>1 DEF SimpleBreaker!Reset, SimpleBreaker!ClosedIsHealthy
<1> QED BY <1>2, <1>3, <1>4, <1>5, <1>6, <1>7

\* The clock and the dependency touch neither the state nor the count.
LEMMA SimpleWorldMoves ==
    ASSUME SimpleBreaker!SimpleBreakerConstants, SimpleInv,
           SimpleBreaker!Tick \/ SimpleBreaker!Recover \/ UNCHANGED simple_vars
    PROVE  SimpleInv'
<1> USE DEF SimpleInv
<1>1. CASE SimpleBreaker!Recover \/ UNCHANGED simple_vars
  BY <1>1 DEF SimpleBreaker!Recover, simple_vars, SimpleBreaker!TypeOK, SimpleBreaker!HoldsClock,
              SimpleBreaker!ClosedIsHealthy
<1>2. CASE SimpleBreaker!Tick
  <2>1. SimpleCooldown \in Nat /\ MaxLag \in Nat /\ SimpleBreaker!OldEnough \in Nat
    BY DEF SimpleBreaker!SimpleBreakerConstants, SimpleBreaker!OldEnough
  <2>2. since_opened' \in 0 .. SimpleBreaker!OldEnough
    <3>1. PICK n \in Nat : n = since_opened + 1
      BY <2>1 DEF SimpleBreaker!TypeOK
    <3>2. SimpleBreaker!Min({n, SimpleBreaker!OldEnough}) =
              IF n <= SimpleBreaker!OldEnough THEN n ELSE SimpleBreaker!OldEnough
      <4> HIDE DEF SimpleBreaker!OldEnough
      <4> QED BY <2>1, TwoNumbers DEF SimpleBreaker!Min, Min
    <3> QED BY <1>2, <2>1, <3>1, <3>2 DEF SimpleBreaker!Tick
  <2>3. /\ simple_read' \in [SimpleCallers -> Nat]
        /\ \A d \in SimpleCallers : SimpleBreaker!HoldsClock(d) => simple_read'[d] <= MaxLag
        /\ \A d \in SimpleCallers : ~SimpleBreaker!HoldsClock(d) => simple_read'[d] = simple_read[d]
    BY <1>2, <2>1 DEF SimpleBreaker!Tick, SimpleBreaker!TypeOK
  <2>4. SimpleBreaker!TypeOK'
    BY <1>2, <2>2, <2>3 DEF SimpleBreaker!Tick, SimpleBreaker!TypeOK, SimpleBreaker!HoldsClock
  <2> QED BY <1>2, <2>4 DEF SimpleBreaker!Tick, SimpleBreaker!ClosedIsHealthy
<1> QED BY <1>1, <1>2

\* The breaker without a lock starts and goes on as its invariant says.
LEMMA SimpleBreakerKeeps ==
    ASSUME SimpleBreaker!SimpleBreakerConstants
    PROVE  /\ SimpleBreaker!Init => SimpleInv
           /\ SimpleInv /\ (SimpleBreaker!Next \/ UNCHANGED simple_vars) => SimpleInv'
<1>1. ASSUME SimpleBreaker!Init PROVE SimpleInv
  <2>1. 0 \in 0 .. SimpleThreshold /\ ~(0 >= SimpleThreshold)
    BY DEF SimpleBreaker!SimpleBreakerConstants
  <2> QED BY <1>1, <2>1
          DEF SimpleInv, SimpleBreaker!Init, SimpleBreaker!TypeOK, SimpleBreaker!Places,
              SimpleBreaker!HoldsClock, SimpleBreaker!ClosedIsHealthy
<1> QED BY <1>1, SimpleStateMoves, SimpleCountMoves, SimpleWorldMoves
        DEF SimpleBreaker!Next, SimpleBreaker!Proceed

\* The breaker of probe6.
BreakerInv == BreakerTypeOK /\ ClosedIsHealthy

\* Where a window fails, another one does, at most one place later: then it
\* has no fewer failures.
LEMMA FewerFailures ==
    ASSUME NEW s \in Seq(BOOLEAN), NEW t \in Seq(BOOLEAN), NEW d \in {0, 1},
           \A i \in 1 .. Len(t) : ~t[i] => i + d \in 1 .. Len(s) /\ ~s[i + d]
    PROVE  Failures(t) <= Failures(s)
<1> DEFINE S == {i \in 1 .. Len(s) : ~s[i]}
           T == {i \in 1 .. Len(t) : ~t[i]}
           f == [i \in T |-> i + d]
<1>1. IsFiniteSet(S)
  <2>1. Len(s) \in Nat /\ IsFiniteSet(1 .. Len(s))
    BY FS_Interval
  <2> QED BY <2>1, FS_Subset
<1>2. f \in Injection(T, S)
  <2>1. f \in [T -> S]
    OBVIOUS
  <2>2. \A i, j \in T : f[i] = f[j] => i = j
    OBVIOUS
  <2> QED BY <2>1, <2>2 DEF Injection, IsInjective
<1>3. Cardinality(T) <= Cardinality(S)
  BY <1>1, <1>2, FS_Injection
<1> QED BY <1>3 DEF Failures

\* What the end of a window reads.
LEMMA TailReads ==
    ASSUME NEW S, NEW s \in Seq(S), s # <<>>
    PROVE  /\ Tail(s) \in Seq(S) /\ Len(Tail(s)) = Len(s) - 1
           /\ \A i \in 1 .. Len(s) - 1 : Tail(s)[i] = s[i + 1]
  OBVIOUS

\* A success that is pushed adds no failure to the window.
LEMMA SuccessAddsNoFailure ==
    ASSUME BreakerTypeOK
    PROVE  /\ Pushed(TRUE) \in Seq(BOOLEAN) /\ Len(Pushed(TRUE)) <= MaxReqs
           /\ Failures(Pushed(TRUE)) <= Failures(reqs)
<1> DEFINE r == Append(reqs, TRUE)
<1>1. reqs \in Seq(BOOLEAN) /\ Len(reqs) <= MaxReqs /\ MaxReqs \in Nat \ {0}
  BY CircuitBreakerAssumption DEF BreakerTypeOK
<1>2. r \in Seq(BOOLEAN) /\ Len(r) = Len(reqs) + 1 /\ r[Len(reqs) + 1] = TRUE
  BY <1>1
<1>3. \A i \in 1 .. Len(reqs) : r[i] = reqs[i]
  BY <1>1
<1>4. CASE Len(r) > MaxReqs
  <2>1. Pushed(TRUE) = Tail(r)
    BY <1>4 DEF Pushed
  <2>2. /\ Tail(r) \in Seq(BOOLEAN) /\ Len(Tail(r)) = Len(reqs)
        /\ \A i \in 1 .. Len(reqs) : Tail(r)[i] = r[i + 1]
    <3> HIDE DEF r
    <3>1. r # <<>> /\ Len(r) - 1 = Len(reqs)
      BY <1>1, <1>2
    <3> QED BY <3>1, <1>2, TailReads
  <2>3. ASSUME NEW i \in 1 .. Len(Tail(r)), ~Tail(r)[i]
        PROVE  i + 1 \in 1 .. Len(reqs) /\ ~reqs[i + 1]
    <3> HIDE DEF r
    <3>1. i \in 1 .. Len(reqs) /\ i + 1 \in 1 .. Len(reqs) + 1
      <4>1. i \in 1 .. Len(reqs)
        BY <2>2
      <4> QED BY <4>1, <1>1
    <3>3. ~r[i + 1]
      BY <2>2, <2>3, <3>1, Zenon
    <3>2. i + 1 # Len(reqs) + 1
      BY <3>3, <1>2
    <3>4. i + 1 \in 1 .. Len(reqs)
      BY <3>1, <3>2, <1>1
    <3> QED BY <3>3, <3>4, <1>3, Zenon
  <2>4. Failures(Tail(r)) <= Failures(reqs)
    BY <2>2, <2>3, <1>1, FewerFailures
  <2> QED BY <2>1, <2>2, <2>4, <1>1
<1>5. CASE ~(Len(r) > MaxReqs)
  <2>1. Pushed(TRUE) = r
    BY <1>5 DEF Pushed
  <2>2. ASSUME NEW i \in 1 .. Len(r), ~r[i]
        PROVE  i + 0 \in 1 .. Len(reqs) /\ ~reqs[i + 0]
    <3>1. i # Len(reqs) + 1
      BY <2>2, <1>2
    <3> QED BY <3>1, <2>2, <1>1, <1>2, <1>3
  <2>3. Failures(r) <= Failures(reqs)
    BY <2>2, <1>1, <1>2, FewerFailures
  <2>4. Len(r) <= MaxReqs
    BY <1>1, <1>2, <1>5
  <2> QED BY <2>1, <2>3, <2>4, <1>2, Zenon
<1> QED BY <1>4, <1>5

\* The failures of a window are counted.
LEMMA FailuresAreANumber == ASSUME NEW r \in Seq(BOOLEAN) PROVE Failures(r) \in Nat
<1>1. Len(r) \in Nat
  OBVIOUS
<1>2. IsFiniteSet(1 .. Len(r))
  BY <1>1, FS_Interval
<1>3. IsFiniteSet({i \in 1 .. Len(r) : ~r[i]})
  BY <1>2, FS_Subset
<1> QED BY <1>3, FS_CardinalityType DEF Failures

\* An empty window has no failure.
LEMMA NoFailureInEmpty == Failures(<<>>) = 0
<1>1. {i \in 1 .. Len(<<>>) : ~<<>>[i]} = {}
  OBVIOUS
<1> QED BY <1>1, FS_EmptySet DEF Failures

\* The window keeps its length, whatever is pushed.
LEMMA PushedType ==
    ASSUME BreakerTypeOK, NEW ok \in BOOLEAN
    PROVE  Pushed(ok) \in Seq(BOOLEAN) /\ Len(Pushed(ok)) <= MaxReqs
<1> DEFINE r == Append(reqs, ok)
<1>1. reqs \in Seq(BOOLEAN) /\ Len(reqs) <= MaxReqs /\ MaxReqs \in Nat \ {0}
  BY CircuitBreakerAssumption DEF BreakerTypeOK
<1>2. r \in Seq(BOOLEAN) /\ Len(r) = Len(reqs) + 1
  BY <1>1
<1>3. r # <<>> /\ Len(r) - 1 = Len(reqs)
  BY <1>1, <1>2
<1>4. Tail(r) \in Seq(BOOLEAN) /\ Len(Tail(r)) <= MaxReqs
  <2> HIDE DEF r
  <2> QED BY <1>1, <1>2, <1>3, TailReads
<1>5. ~(Len(r) > MaxReqs) => Len(r) <= MaxReqs
  BY <1>1, <1>2
<1> QED BY <1>2, <1>4, <1>5, Zenon DEF Pushed
\* At the start the window is empty.
LEMMA BreakerInitInv == BreakerInit => BreakerInv
<1> SUFFICES ASSUME BreakerInit PROVE BreakerInv
  OBVIOUS
<1>1. reqs \in Seq(BOOLEAN) /\ Len(reqs) = 0
  BY DEF BreakerInit
<1>2. BreakerTypeOK
  <2>1. 0 \in 0 .. SuccessThreshold - 1 /\ 0 \in 0 .. ProbeQuota /\ 0 <= MaxReqs
    BY CircuitBreakerAssumption
  <2>2. running \in [Callers -> {"none", "CLOSED", "HALF_OPEN"}]
    BY DEF BreakerInit
  <2> QED BY <1>1, <2>1, <2>2 DEF BreakerInit, BreakerTypeOK
<1>3. ClosedIsHealthy
  BY NoFailureInEmpty, CircuitBreakerAssumption DEF BreakerInit, ClosedIsHealthy
<1> QED BY <1>2, <1>3 DEF BreakerInv

\* An admitted call changes no result.
LEMMA CallInv == ASSUME BreakerInv, NEW c \in Callers, Call(c) PROVE BreakerInv'
<1>1. UNCHANGED reqs /\ (state' = "CLOSED" => state = "CLOSED")
  BY DEF Call, Promote, AdmitProbe, PassThrough
<1>2. ClosedIsHealthy'
  BY <1>1 DEF BreakerInv, ClosedIsHealthy, Failures
<1>3. BreakerTypeOK'
  BY CircuitBreakerAssumption DEF BreakerInv, BreakerTypeOK, Call, Promote, AdmitProbe, PassThrough
<1> QED BY <1>2, <1>3 DEF BreakerInv

\* A call that ends takes back no more places than there are.
LEMMA ReturnedType ==
    ASSUME BreakerTypeOK, NEW c \in Callers, Returned(c)
    PROVE  /\ running' \in [Callers -> {"none", "CLOSED", "HALF_OPEN"}]
           /\ probes_in_flight' \in 0 .. ProbeQuota
  BY CircuitBreakerAssumption DEF BreakerTypeOK, Returned

\* A success either empties the window or adds no failure to it.
LEMMA SucceedInv == ASSUME BreakerInv, NEW c \in Callers, Succeed(c) PROVE BreakerInv'
<1> USE DEF BreakerInv
<1>1. CASE state = "HALF_OPEN" /\ probe_success + 1 >= SuccessThreshold
  <2>1. reqs' = <<>> /\ probe_success' = 0 /\ state' = "CLOSED" /\ UNCHANGED <<cooled, healthy>>
    BY <1>1 DEF Succeed
  <2>2. Failures(reqs') = 0
    BY <2>1, NoFailureInEmpty
  <2>3. ClosedIsHealthy'
    BY <2>2, CircuitBreakerAssumption DEF ClosedIsHealthy, Failures
  <2>4. reqs' \in Seq(BOOLEAN) /\ Len(reqs') = 0
    BY <2>1
  <2>5. BreakerTypeOK'
    BY <2>1, <2>4, ReturnedType, CircuitBreakerAssumption DEF Succeed, BreakerTypeOK
  <2> QED BY <2>3, <2>5
<1>2. CASE ~(state = "HALF_OPEN" /\ probe_success + 1 >= SuccessThreshold)
  <2>1. /\ reqs' = Pushed(TRUE) /\ UNCHANGED <<state, cooled, healthy>>
        /\ probe_success' = probe_success + (IF state = "HALF_OPEN" THEN 1 ELSE 0)
    BY <1>2 DEF Succeed
  <2>2. /\ reqs' \in Seq(BOOLEAN) /\ Len(reqs') <= MaxReqs
        /\ Failures(reqs') <= Failures(reqs)
    BY <2>1, SuccessAddsNoFailure
  <2>3. probe_success' \in 0 .. SuccessThreshold - 1
    BY <2>1, <1>2, CircuitBreakerAssumption DEF BreakerTypeOK
  <2>4. BreakerTypeOK'
    BY <2>1, <2>2, <2>3, ReturnedType DEF Succeed, BreakerTypeOK
  <2>5. Failures(reqs) \in Int /\ Failures(reqs') \in Int
    BY <2>2, FailuresAreANumber DEF BreakerTypeOK
  <2>6. ClosedIsHealthy'
    <3> SUFFICES ASSUME state' = "CLOSED" PROVE Failures(reqs') < FailureThreshold
      BY DEF ClosedIsHealthy, Failures
    <3>1. Failures(reqs) < FailureThreshold
      BY <2>1 DEF ClosedIsHealthy
    <3> QED BY <2>2, <2>5, <3>1, CircuitBreakerAssumption
  <2> QED BY <2>4, <2>6
<1> QED BY <1>1, <1>2

\* A failure that makes the window too bad opens the breaker with it.
LEMMA FailInv == ASSUME BreakerInv, NEW c \in Callers, Fail(c) PROVE BreakerInv'
<1> USE DEF BreakerInv
<1>1. reqs' \in Seq(BOOLEAN) /\ Len(reqs') <= MaxReqs
  <2>1. reqs' = Pushed(FALSE)
    BY DEF Fail
  <2> QED BY <2>1, PushedType
<1>2. BreakerTypeOK'
  BY <1>1, ReturnedType DEF Fail, BreakerTypeOK
<1>3. ClosedIsHealthy'
  <2> SUFFICES ASSUME state' = "CLOSED" PROVE Failures(reqs') < FailureThreshold
    BY DEF ClosedIsHealthy, Failures
  <2>1. state = "CLOSED" /\ ~(Failures(reqs') >= FailureThreshold)
    BY <1>2 DEF Fail, BreakerTypeOK
  <2>2. Failures(reqs') \in Int
    BY <1>1, FailuresAreANumber
  <2> QED BY <2>1, <2>2, CircuitBreakerAssumption
<1> QED BY <1>2, <1>3

\* Every step keeps a closed breaker healthy.
LEMMA BreakerStepInv == ASSUME BreakerInv, [BreakerNext]_breaker_vars PROVE BreakerInv'
<1>1. CASE Cool \/ Recover \/ UNCHANGED breaker_vars
  BY <1>1 DEF Cool, Recover, breaker_vars, BreakerInv, BreakerTypeOK, ClosedIsHealthy, Failures
<1>2. ASSUME NEW c \in Callers, Call(c) \/ End(c) PROVE BreakerInv'
  BY <1>2, CallInv, SucceedInv, FailInv DEF End
<1> QED BY <1>1, <1>2 DEF BreakerNext

\* Every step of it is a move of the diagram in breaker.py or leaves its state
\* alone.
LEMMA BreakerMoves ==
    ASSUME BreakerInv, [BreakerNext]_breaker_vars
    PROVE  [States!Next]_(States!vars)
<1> USE DEF States!Next, States!vars
<1>1. CASE Cool \/ Recover \/ UNCHANGED breaker_vars
  BY <1>1 DEF Cool, Recover, breaker_vars, States!Elapse
<1>2. ASSUME NEW c \in Callers, Call(c) PROVE [States!Next]_States!vars
  BY <1>2 DEF Call, Promote, AdmitProbe, PassThrough, States!Promote
<1>3. ASSUME NEW c \in Callers, Succeed(c) PROVE [States!Next]_States!vars
  BY <1>3 DEF Succeed, States!Close
<1>4. ASSUME NEW c \in Callers, Fail(c) PROVE [States!Next]_States!vars
  BY <1>4 DEF Fail, States!Trip
<1> QED BY <1>1, <1>2, <1>3, <1>4 DEF BreakerNext, End

-----------------------------------------------------------------------------
(* The whole *)

\* A step of the program is, for every part of it, one of its steps or none of
\* its variables change.
LEMMA TrafficTakesSteps ==
    ASSUME [TrafficNext]_all
    PROVE  /\ [Next]_vars /\ [BreakerNext]_breaker_vars
           /\ SimpleBreaker!Next \/ UNCHANGED simple_vars
           /\ Threaded!Next \/ UNCHANGED threaded_vars
           /\ Balancer!Next \/ UNCHANGED balancer_vars
<1>1. CASE UNCHANGED all
  BY <1>1 DEF all
<1>2. CASE TrafficNext
  <2>1. GetsStep => Next
    BY DEF GetsStep, Produces, GetsOnly, Next
  <2>2. ReservationsStep => Next
    BY DEF ReservationsStep, Produces, ReservesOnly, Next
  <2> QED BY <1>2, <2>1, <2>2, Zenon
          DEF TrafficNext, OthersRest, AsyncioBucket, AllStep, GetsStep, ReservationsStep,
              BreakerStep, SimpleBreakerStep, ThreadedStep, BalancerStep
<1> QED BY <1>1, <1>2

\* What all parts keep, if calls do not overlap.
TrafficInv == BucketInv /\ BreakerInv /\ SimpleInv /\ ThreadedInv /\ BalancerInv

\* Every part starts and goes on as its invariant says.
LEMMA TrafficInductive ==
    /\ TrafficInit => TrafficInv
    /\ TrafficInv /\ ~CallsOverlap /\ [TrafficNext]_all => TrafficInv'
<1>1. /\ SimpleBreaker!SimpleBreakerConstants /\ Threaded!ConcurrentBucketConstants
      /\ Balancer!LoadBalancerConstants
  BY TierConstants
<1>2. ASSUME TrafficInit PROVE TrafficInv
  BY <1>1, <1>2, BucketStarts, BreakerInitInv, SimpleBreakerKeeps, ThreadedStarts, BalancerKeeps
     DEF TrafficInit, TrafficInv
<1>3. ASSUME TrafficInv, ~CallsOverlap, [TrafficNext]_all PROVE TrafficInv'
  <2>1. BucketInv'
    BY <1>3, TrafficTakesSteps, BucketStepKeeps DEF TrafficInv
  <2>2. BreakerInv'
    BY <1>3, TrafficTakesSteps, BreakerStepInv DEF TrafficInv
  <2>3. SimpleInv'
    BY <1>1, <1>3, TrafficTakesSteps, SimpleBreakerKeeps DEF TrafficInv
  <2>4. ThreadedInv'
    BY <1>1, <1>3, TrafficTakesSteps, ThreadedStepKeeps DEF TrafficInv
  <2>5. BalancerInv'
    BY <1>1, <1>3, TrafficTakesSteps, BalancerKeeps DEF TrafficInv
  <2> QED BY <2>1, <2>2, <2>3, <2>4, <2>5 DEF TrafficInv
<1> QED BY <1>2, <1>3

\* As long as nobody waits twice for a reservation or cancels it while somebody
\* waits, no bucket overflows or overspends, and every variable of every part
\* has its type, for any capacity, waits and callers.
THEOREM TrafficIsSoundAlways ==
    ASSUME ~CallsOverlap
    PROVE  TrafficSpec => []TrafficIsSound
<1>1. TrafficInv => TrafficIsSound
  BY DEF TrafficInv, TrafficIsSound, BucketInv, BreakerInv, SimpleInv, ThreadedInv, BalancerInv
<1>2. TrafficInv /\ [TrafficNext]_all => TrafficInv'
  BY TrafficInductive
<1> QED BY <1>1, <1>2, TrafficInductive, PTL DEF TrafficSpec

\* Under the same condition the asyncio bucket holds no more than its capacity
\* and no less than nothing, and no get takes more than it asks for.
THEOREM BucketKeepsItsBounds ==
    ASSUME ~CallsOverlap
    PROVE  TrafficSpec => []TypeOK
<1>1. TrafficInv => TypeOK
  BY DEF TrafficInv, BucketInv
<1>2. TrafficInv /\ [TrafficNext]_all => TrafficInv'
  BY TrafficInductive
<1> QED BY <1>1, <1>2, TrafficInductive, PTL DEF TrafficSpec

\* Then _promised is what the open reservations claim.
THEOREM PromisedIsOutstandingAlways ==
    ASSUME ~CallsOverlap
    PROVE  TrafficSpec => []PromisedIsOutstanding
<1>1. TrafficInv => PromisedIsOutstanding
  BY DEF TrafficInv, BucketInv
<1>2. TrafficInv /\ [TrafficNext]_all => TrafficInv'
  BY TrafficInductive
<1> QED BY <1>1, <1>2, TrafficInductive, PTL DEF TrafficSpec

\* And what is promised is taken by nobody but the wait of a reservation.
THEOREM ClaimsAreAlwaysProtected ==
    ASSUME ~CallsOverlap
    PROVE  TrafficSpec => ClaimsAreProtected
<1>1. TrafficInv /\ [TrafficNext]_all => TrafficInv'
  BY TrafficInductive
<1>2. ASSUME TrafficInv, TrafficInv', [TrafficNext]_all
      PROVE  [bucket' < bucket /\ consumed' = consumed => bucket' >= promised']_vars
  BY <1>2, TrafficTakesSteps, TakesAreFree DEF TrafficInv
<1> QED BY <1>1, <1>2, TrafficInductive, PTL DEF TrafficSpec, ClaimsAreProtected

\* A closed breaker of probe6 has fewer failures in its window than open it, and
\* the one without a lock counts as many only while a caller is about to open it
\* or to reset the count, for every window, threshold and number of callers.
THEOREM ClosedStayHealthy == TrafficSpec => []ClosedAreHealthy
<1> DEFINE Both == BreakerInv /\ SimpleInv
<1>1. SimpleBreaker!SimpleBreakerConstants
  BY TierConstants
<1>2. TrafficInit => Both
  BY <1>1, BreakerInitInv, SimpleBreakerKeeps DEF TrafficInit
<1>3. Both /\ [TrafficNext]_all => Both'
  BY <1>1, TrafficTakesSteps, BreakerStepInv, SimpleBreakerKeeps
<1>4. Both => ClosedAreHealthy
  BY DEF BreakerInv, SimpleInv, ClosedAreHealthy
<1> QED BY <1>2, <1>3, <1>4, PTL DEF TrafficSpec

\* The breaker of probe6, whose phases are locked, moves as in the diagram,
\* whatever calls end late.
THEOREM BreakerFollowsDiagram == TrafficSpec => FollowsTheDiagram
<1>1. TrafficInit => BreakerInv /\ States!Init
  BY BreakerInitInv DEF TrafficInit, BreakerInit, States!Init
<1>2. BreakerInv /\ [TrafficNext]_all => BreakerInv'
  BY TrafficTakesSteps, BreakerStepInv
<1>3. BreakerInv /\ [TrafficNext]_all => [States!Next]_(States!vars)
  BY TrafficTakesSteps, BreakerMoves
<1> QED BY <1>1, <1>2, <1>3, PTL DEF TrafficSpec, FollowsTheDiagram, States!Spec
=============================================================================
