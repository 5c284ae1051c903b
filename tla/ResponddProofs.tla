--------------------------- MODULE ResponddProofs ---------------------------
(***************************************************************************)
(* respondd's limiter keeps to its rate, its replies are as fresh as the   *)
(* clock allows, and every struct in them has its node_id: for any rate,   *)
(* burst, caching time and any number of clock changes.                    *)
(***************************************************************************)
EXTENDS Respondd, TLAPS

Struct == [age : Int, back : Int, id : {"mac"}]

\* The bucket, with the time it has yet to count, is never fuller than the bucket
\* that misses nothing, which has a whole token more until the first call.
Ahead ==
  /\ level \in Int /\ level >= 0
  /\ called => level >= Least(bucket + since, Capacity)
  /\ ~called => level >= Capacity + Period

\* A struct in the cache has its node_id; the clock can only hide so much of its age.
CacheOK ==
  /\ shifts \in Nat
  /\ cache = None \/ (cache \in Struct /\ cache.back <= Shift * shifts)
  /\ answer \subseteq Struct

IInv == TypeOK /\ Ahead /\ CacheOK /\ Fresh

\* The numbers the limiter computes with.
LEMMA CapacityType == Capacity \in Nat /\ Period \in Nat /\ Period > 0 /\ MaxSince \in Int
<1>1. Burst \in Nat /\ Period \in Nat /\ Period > 0
  BY RateAssumption
<1>2. Capacity \in Nat
  BY <1>1, SMT DEF Capacity
<1>3. Shift * MaxShifts \in Nat
  <2>1. Shift \in Nat /\ MaxShifts \in Nat
    BY ClockAssumption
  <2> QED BY <2>1, SMT
<1> QED BY <1>1, <1>2, <1>3, SMT DEF MaxSince

LEMMA LeastType ==
  ASSUME NEW a \in Int, NEW b \in Int
  PROVE  Least(a, b) \in Int /\ Least(a, b) <= a /\ Least(a, b) <= b
BY DEF Least

\* One more change of the clock allows one more Shift.
LEMMA ShiftMore ==
  ASSUME NEW n \in Nat
  PROVE  Shift \in Nat /\ Shift * n \in Nat /\ Shift * (n + 1) = Shift * n + Shift
<1>1. Shift \in Nat
  BY ClockAssumption
<1> QED BY <1>1, SMT

\* The process starts with a full bucket and an empty cache.
LEMMA InitIInv == Init => IInv
<1> SUFFICES ASSUME Init PROVE IInv
  OBVIOUS
<1>1. TypeOK
  <2>1. /\ tools \in BOOLEAN /\ iface \in BOOLEAN /\ bridge \in BOOLEAN
        /\ up \in BOOLEAN /\ granted \in BOOLEAN
        /\ called \in BOOLEAN /\ ~granted /\ ~called
    BY Zenon DEF Init
  <2>2. kind \in Kind /\ bucket = Capacity /\ since = 0 /\ said = "none"
    BY Zenon DEF Init
  <2> QED BY <2>1, <2>2, CapacityType DEF TypeOK
<1>2. Ahead
  <2>1. level = Capacity + Period /\ ~called
    BY Zenon DEF Init
  <2> QED BY <2>1, CapacityType DEF Ahead
<1>3. CacheOK /\ Fresh
  BY DEF Init, CacheOK, Fresh
<1> QED BY <1>1, <1>2, <1>3 DEF IInv

\* A step that leaves the limiter and the cache alone, and adds no struct.
LEMMA QuietStep ==
  ASSUME IInv, UNCHANGED <<limiter, cache>>, shifts' = shifts, answer' \subseteq answer,
         TypeOK'
  PROVE  IInv'
<1>1. Ahead'
  BY DEF IInv, Ahead, limiter, Least
<1>2. CacheOK' /\ Fresh'
  BY DEF IInv, CacheOK, Fresh
<1> QED BY <1>1, <1>2 DEF IInv

\* limit() takes its token from both buckets.
LEMMA AskStep ==
  ASSUME IInv, Ask
  PROVE  IInv'
<1> DEFINE full == Refill
<1>1. /\ bucket \in Int /\ since \in Int /\ level \in Int /\ called \in BOOLEAN
      /\ full \in Int /\ full <= Capacity /\ Least(bucket + since, Capacity) = full
  BY CapacityType, LeastType DEF IInv, TypeOK, Ahead, Refill
<1>2. called' /\ called' \in BOOLEAN
  BY Zenon DEF Ask, Limit
<1>3. bucket' \in Int /\ bucket' <= Capacity /\ said' \in {"granted", "refused"}
  BY <1>1, CapacityType DEF Ask, Limit, IInv, TypeOK
<1>4. TypeOK'
  <2>1. granted' \in BOOLEAN /\ (granted' => todo' # <<>>)
    BY Zenon DEF Ask, IInv, TypeOK
  <2>2. since' = 0
    BY Zenon DEF Ask, Limit
  <2> QED BY <1>2, <1>3, <2>1, <2>2 DEF Ask, IInv, TypeOK
<1>5. Ahead'
  <2>1. Least(bucket' + since', Capacity) = bucket'
    <3>1. Least(bucket', Capacity) = bucket'
      BY <1>3 DEF Least
    <3>2. \A n \in Int : n + 0 = n
      OBVIOUS
    <3>3. since' = 0
      BY Zenon DEF Ask, Limit
    <3> QED BY <3>1, <3>2, <3>3, <1>3, Zenon
  <2>2. CASE ~called
    BY <2>1, <2>2, <1>1, <1>2, <1>3, CapacityType DEF Ask, Limit, IInv, TypeOK, Ahead
  <2>3. CASE called /\ full >= Period
    BY <2>1, <2>3, <1>1, <1>2, <1>3, CapacityType DEF Ask, Limit, IInv, Ahead
  <2>4. CASE called /\ full < Period
    BY <2>1, <2>4, <1>1, <1>2, <1>3, CapacityType DEF Ask, Limit, IInv, Ahead
  <2> QED BY <2>2, <2>3, <2>4, <1>1, CapacityType
<1>6. CacheOK' /\ Fresh'
  BY DEF Ask, IInv, CacheOK, Fresh, bounds
<1> QED BY <1>4, <1>5, <1>6 DEF IInv

\* A struct from the cache seems no older than `caching`.
LEMMA FromCacheStep ==
  ASSUME IInv, FromCache
  PROVE  IInv'
<1>1. TypeOK'
  BY DEF FromCache, Done, limiter, IInv, TypeOK
<1>2. Ahead'
  BY DEF FromCache, limiter, IInv, Ahead, Least
<1>3. /\ cache \in Struct /\ cache.age \in Int /\ cache.back \in Int
      /\ cache.back <= Shift * shifts /\ cache.age - cache.back <= Caching
  BY DEF FromCache, Hit, IInv, CacheOK, Struct
<1>4. cache.age <= Caching + Shift * shifts
  <2>1. Caching \in Nat /\ shifts \in Nat
    BY ClockAssumption DEF IInv, CacheOK
  <2>2. Shift * shifts \in Nat
    BY <2>1, ShiftMore
  <2> QED BY <1>3, <2>1, <2>2
<1>5. CacheOK'
  BY <1>3 DEF FromCache, bounds, IInv, CacheOK
<1>6. Fresh'
  BY <1>4 DEF FromCache, bounds, IInv, Fresh
<1> QED BY <1>1, <1>2, <1>5, <1>6 DEF IInv

\* A collected struct is new, and complete when it is cached for longer than a step.
LEMMA CollectStep ==
  ASSUME IInv, Collect
  PROVE  IInv'
<1>1. TypeOK'
  BY DEF Collect, Done, limiter, IInv, TypeOK
<1>2. Ahead'
  BY DEF Collect, limiter, IInv, Ahead, Least
<1>3. cache' \in Struct /\ cache'.age = 0 /\ cache'.back = 0
  BY DEF Collect, Collected, Struct, IInv, TypeOK
<1>4. Caching \in Nat /\ shifts \in Nat /\ Shift * shifts \in Nat
  BY ClockAssumption, ShiftMore DEF IInv, CacheOK
<1>5. CacheOK'
  BY <1>3, <1>4 DEF Collect, bounds, IInv, CacheOK
<1>6. Fresh'
  <2>1. answer' = answer \cup {cache'} /\ shifts' = shifts
    BY DEF Collect, bounds
  <2> QED BY <2>1, <1>3, <1>4 DEF IInv, Fresh
<1> QED BY <1>1, <1>2, <1>5, <1>6 DEF IInv

\* An exception empties the cache and drops what was collected.
LEMMA DiesStep ==
  ASSUME IInv, Dies, UNCHANGED <<kind, tools, iface, bridge, limiter, bounds>>
  PROVE  IInv'
<1>1. TypeOK'
  BY DEF Dies, limiter, IInv, TypeOK
<1>2. Ahead'
  BY DEF limiter, IInv, Ahead, Least
<1>3. CacheOK' /\ Fresh'
  BY DEF Dies, bounds, IInv, CacheOK, Fresh
<1> QED BY <1>1, <1>2, <1>3 DEF IInv

\* A new process begins with a full bucket.
LEMMA RestartStep ==
  ASSUME IInv, Restart
  PROVE  IInv'
<1>1. /\ up' \in BOOLEAN /\ called' \in BOOLEAN /\ ~called'
      /\ since' = 0 /\ bucket' = Capacity /\ said' = "none" /\ level' = Capacity + Period
  BY Zenon DEF Restart
<1>2. TypeOK'
  <2>1. UNCHANGED <<kind, tools, iface, bridge, todo, granted>>
    BY Zenon DEF Restart
  <2> QED BY <1>1, <2>1, CapacityType DEF IInv, TypeOK
<1>3. Ahead'
  BY <1>1, CapacityType DEF Ahead
<1>4. CacheOK' /\ Fresh'
  BY DEF Restart, bounds, IInv, CacheOK, Fresh
<1> QED BY <1>2, <1>3, <1>4 DEF IInv

\* Time that passes fills both buckets alike; a clock set back empties only one.
LEMMA PassesAhead ==
  ASSUME IInv, NEW seconds \in Int, NEW real \in Int, Passes(seconds, real),
         UNCHANGED <<called, bucket>>
  PROVE  Ahead' /\ since' \in Int
<1>1. /\ bucket \in Int /\ since \in Int /\ level \in Int /\ called \in BOOLEAN
      /\ Capacity \in Nat /\ Period \in Nat /\ MaxSince \in Int /\ bucket <= Capacity
      /\ level >= 0
  BY CapacityType DEF IInv, TypeOK, Ahead
<1>2. CASE seconds > 0
  BY <1>1, <1>2 DEF Passes, IInv, Ahead, Least
<1>3. CASE ~(seconds > 0)
  BY <1>1, <1>3 DEF Passes, IInv, Ahead, Least
<1> QED BY <1>2, <1>3

\* The ages of the cache move with the clock and the time.
LEMMA PassesCache ==
  ASSUME IInv, NEW seconds \in Int, NEW real \in Int, Passes(seconds, real),
         NEW more \in Int, shifts' \in Nat, Shift * shifts' = Shift * shifts + more,
         real - seconds <= more, answer' = answer, more >= 0
  PROVE  CacheOK' /\ Fresh'
<1>1. Caching \in Nat /\ shifts \in Nat /\ Shift * shifts \in Nat
  BY ClockAssumption, ShiftMore DEF IInv, CacheOK
<1>2. MaxAge \in Int
  <2>1. Shift \in Nat /\ MaxShifts \in Nat /\ Caching \in Nat
    BY ClockAssumption
  <2>2. Shift * MaxShifts \in Nat
    BY <2>1, ShiftMore
  <2> QED BY <2>1, <2>2 DEF MaxAge
<1>3. cache' = None \/ (cache' \in Struct /\ cache'.back <= Shift * shifts')
  <2>1. CASE cache = None
    BY <2>1 DEF Passes
  <2>2. CASE cache # None
    <3>1. cache \in Struct /\ cache.back <= Shift * shifts
      BY <2>2 DEF IInv, CacheOK
    <3>2. cache' = [cache EXCEPT !.age = Least(cache.age + real, MaxAge),
                                 !.back = cache.back + real - seconds]
      BY <2>2 DEF Passes
    <3>3. cache.age \in Int /\ cache.back \in Int
      BY <3>1 DEF Struct
    <3>4. Least(cache.age + real, MaxAge) \in Int
      BY <3>3, <1>2 DEF Least
    <3>5. cache.back + real - seconds \in Int
      BY <3>3
    <3>6. cache' \in Struct /\ cache'.back = cache.back + real - seconds
      BY <3>1, <3>2, <3>4, <3>5 DEF Struct
    <3> QED BY <3>1, <3>3, <3>6, <1>1
  <2> QED BY <2>1, <2>2
<1>4. CacheOK'
  BY <1>3 DEF IInv, CacheOK
<1>5. Fresh'
  <2> SUFFICES ASSUME NEW s \in answer PROVE s.age <= Caching + Shift * shifts'
    BY DEF Fresh
  <2>1. s.age <= Caching + Shift * shifts /\ s.age \in Int
    BY DEF IInv, Fresh, CacheOK, Struct
  <2> QED BY <2>1, <1>1
<1> QED BY <1>4, <1>5

LEMMA TickStep ==
  ASSUME IInv, Tick
  PROVE  IInv'
<1>1. Ahead' /\ since' \in Int
  BY PassesAhead DEF Tick
<1>2. CacheOK' /\ Fresh'
  <2>1. shifts \in Nat /\ Shift * shifts \in Nat
    BY ShiftMore DEF IInv, CacheOK
  <2>2. /\ Passes(1, 1) /\ shifts' \in Nat /\ Shift * shifts' = Shift * shifts + 0
        /\ answer' = answer /\ 1 - 1 <= 0
    BY <2>1 DEF Tick, bounds
  <2> QED BY <2>2, PassesCache
<1>3. TypeOK'
  BY <1>1 DEF Tick, IInv, TypeOK
<1> QED BY <1>1, <1>2, <1>3 DEF IInv

LEMMA SetClockStep ==
  ASSUME IInv, SetClock
  PROVE  IInv'
<1>1. /\ Shift \in Nat /\ shifts \in Nat /\ shifts' = shifts + 1
      /\ Shift * shifts' = Shift * shifts + Shift
  BY ShiftMore DEF SetClock, IInv, CacheOK
<1>2. CASE Passes(Shift, 0)
  <2>1. Ahead' /\ since' \in Int
    BY <1>1, <1>2, PassesAhead DEF SetClock
  <2>2. CacheOK' /\ Fresh'
    BY <1>1, <1>2, PassesCache DEF SetClock
  <2>3. TypeOK'
    BY <2>1 DEF SetClock, IInv, TypeOK
  <2> QED BY <2>1, <2>2, <2>3 DEF IInv
<1>3. CASE Passes(-Shift, 0)
  <2>1. Ahead' /\ since' \in Int
    BY <1>1, <1>3, PassesAhead DEF SetClock
  <2>2. CacheOK' /\ Fresh'
    <3>1. -Shift \in Int /\ 0 - (-Shift) <= Shift
      BY <1>1
    <3> QED BY <1>1, <1>3, <3>1, PassesCache DEF SetClock
  <2>3. TypeOK'
    BY <2>1 DEF SetClock, IInv, TypeOK
  <2> QED BY <2>1, <2>2, <2>3 DEF IInv
<1> QED BY <1>2, <1>3 DEF SetClock

\* Every step keeps the invariant.
LEMMA NextIInv == IInv /\ [Next]_vars => IInv'
<1> SUFFICES ASSUME IInv, [Next]_vars PROVE IInv'
  OBVIOUS
<1>1. ASSUME NEW words \in Messages, Receive(words) PROVE IInv'
  <2>1. TypeOK'
    BY <1>1 DEF Receive, limiter, IInv, TypeOK
  <2> QED BY <2>1, <1>1, QuietStep DEF Receive, bounds
<1>2. CASE Garbage
  BY <1>2, DiesStep DEF Garbage
<1>3. CASE Ask
  BY <1>3, AskStep
<1>4. CASE Unknown
  <2>1. TypeOK'
    BY <1>4 DEF Unknown, Done, limiter, IInv, TypeOK
  <2> QED BY <2>1, <1>4, QuietStep DEF Unknown, bounds
<1>5. CASE FromCache
  BY <1>5, FromCacheStep
<1>6. CASE Collect
  BY <1>6, CollectStep
<1>7. CASE CollectFails
  BY <1>7, DiesStep DEF CollectFails
<1>8. CASE Restart
  BY <1>8, RestartStep
<1>9. CASE Tick
  BY <1>9, TickStep
<1>10. CASE SetClock
  BY <1>10, SetClockStep
<1>11. CASE Trouble
  <2>1. TypeOK'
    BY <1>11 DEF Trouble, limiter, IInv, TypeOK
  <2> QED BY <2>1, <1>11, QuietStep DEF Trouble
<1>12. CASE UNCHANGED vars
  <2>1. TypeOK'
    BY <1>12 DEF vars, limiter, IInv, TypeOK
  <2> QED BY <2>1, <1>12, QuietStep DEF vars, bounds
<1> QED BY <1>1, <1>2, <1>3, <1>4, <1>5, <1>6, <1>7, <1>8, <1>9, <1>10, <1>11, <1>12
        DEF Next

LEMMA SpecIInv == Spec => []IInv
BY InitIInv, NextIInv, PTL DEF Spec

\* respondd's state has its types: the bucket never holds more than the burst (limit).
THEOREM Typed == Spec => []TypeOK
<1>1. IInv => TypeOK
  BY DEF IInv
<1> QED BY SpecIInv, <1>1, PTL

\* For every rate and burst, and however the clock is set, limit() lets no more words
\* pass in a stretch of time than the burst, the free first call and the rate allow.
THEOREM RateKept == Spec => []RateBounded
<1>1. IInv => RateBounded
  BY DEF IInv, Ahead, RateBounded
<1> QED BY SpecIInv, <1>1, PTL

\* For every caching time, no reply holds a struct older than that, except for what
\* changes of the clock hide (getStruct).
THEOREM RepliesFresh == Spec => []Fresh
<1>1. IInv => Fresh
  BY DEF IInv
<1> QED BY SpecIInv, <1>1, PTL

\* No reply holds a struct without its node_id, although the cache holds one for a
\* moment: whatever stops getNodeID stops the process and its cache (getStruct).
THEOREM RepliesComplete == Spec => []HasNodeId
<1>1. IInv => HasNodeId
  BY DEF IInv, CacheOK, HasNodeId, Struct
<1> QED BY SpecIInv, <1>1, PTL
=============================================================================
