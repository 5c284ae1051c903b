------------------------------ MODULE Respondd ------------------------------
(***************************************************************************)
(* respondd-tmpl: a process that answers queries about a gateway, one      *)
(* datagram after the other (lib/respondd_client.py), behind a token       *)
(* bucket (lib/ratelimit.py) and with a cache for each kind of data        *)
(* (lib/respondd.py).  An exception ends the process and systemd starts it *)
(* again.  The bucket and the cache read the wall clock, which may be set. *)
(*                                                                         *)
(* Time is kept as ages: the seconds since the last call of limit() and    *)
(* since the data in the cache was collected.  The bucket is counted in    *)
(* seconds: one token is worth Period = 60 / rate_limit of them.  Kinds of *)
(* data have nothing but the bucket in common, so clients ask for one kind *)
(* here, in company of words that respondd does not know.                  *)
(***************************************************************************)
EXTENDS Integers, Sequences

CONSTANTS
  Kind,       \* the kinds of data clients may ask for
  Messages,   \* datagrams, as sequences of words
  Alias,      \* alias.json names a node_id
  Period,     \* 60 / rate_limit
  Burst,      \* rate_limit_burst
  Caching,    \* caching
  Shift,      \* by how much the clock is set back or forward
  MaxShifts,  \* bound: how often
  MaxTroubles \* bound: changes of what the system provides

ASSUME RateAssumption == Period \in Nat \ {0} /\ Burst \in Nat \ {0}

ASSUME ClockAssumption == {Caching, Shift, MaxShifts} \subseteq Nat /\ Alias \in BOOLEAN

VARIABLES
  kind,      \* what clients ask for
  tools,     \* batctl, lsb_release, ethtool and the rest work
  iface,     \* the batman interface is there, with its address
  bridge,    \* the bridge interface is there
  up,        \* the process runs
  called,    \* rateLimit: limit() was called before (tLast is not None)
  bucket, since,  \* rateLimit: the bucket and the seconds since tLast
  cache,     \* Respondd: the cached struct (None)
  todo,      \* the words of the datagram that are still to be answered
  granted,   \* limit() let the next word pass
  answer,    \* the structs collected for the reply
  said,      \* the last result of limit()
  level,     \* a bucket of one token more, that never misses time
  shifts, troubles

limiter == <<called, bucket, since, said, level>>
bounds == <<shifts, troubles>>
vars == <<kind, tools, iface, bridge, up, limiter, cache, todo, granted, answer, bounds>>

None == [none |-> TRUE]

Least(a, b) == IF a <= b THEN a ELSE b

\* A full bucket.
Capacity == Burst * Period

\* Longer ages make no difference.
MaxSince == Capacity + Period + Shift * MaxShifts

MaxAge == Caching + Shift * MaxShifts + 1

-----------------------------------------------------------------------------
(* ratelimit.py *)

\* Mutant: a refused call loses the time that has passed.
RefillForgetful ==
  IF bucket + since >= Period THEN Least(bucket + since, Capacity) ELSE bucket

\* Mutant: nothing caps the bucket.
RefillUncapped == bucket + since

\* The bucket after the time that has passed; the clock may have been set back.
Refill == Least(bucket + since, Capacity)

\* limit(): the first call is free.
Limit ==
  LET full == Refill IN
  /\ called' = TRUE /\ since' = 0
  /\ \/ ~called /\ said' = "granted" /\ UNCHANGED bucket
     \/ called /\ full >= Period /\ said' = "granted" /\ bucket' = full - Period
     \/ called /\ full < Period /\ said' = "refused" /\ bucket' = full

-----------------------------------------------------------------------------
(* respondd.py and its subclasses *)

\* Mutant: a struct is used up to a second longer.
HitLate == cache # None /\ cache.age - cache.back <= Caching + 1

\* getStruct takes the cached struct; after the clock was set back it seems newer.
Hit == cache # None /\ cache.age - cache.back <= Caching

\* _get: Nodeinfo takes the first line of what commands print and raises without.
GetRaises == kind = "nodeinfo" /\ ~(tools /\ iface)

\* Statistics and Neighbours make do with nothing (and cache it), but Statistics raises
\* when ethtool prints what it does not expect or fastd does not answer.
GetMayRaise == GetRaises \/ (kind = "statistics" /\ ~tools)

Collected == [age |-> 0, back |-> 0, id |-> "none"]

\* getNodeID: the id of alias.json, or the address of the interface; without one it
\* raises.
NodeIdRaises == ~Alias /\ ~iface

-----------------------------------------------------------------------------
(* The process *)

Init ==
  /\ kind \in Kind
  /\ tools = TRUE /\ iface = TRUE /\ bridge = TRUE
  /\ up = TRUE
  /\ called = FALSE /\ bucket = Capacity /\ since = 0
  /\ said = "none"
  /\ level = Capacity + Period
  /\ cache = None
  /\ todo = <<>> /\ granted = FALSE /\ answer = {}
  /\ shifts = 0 /\ troubles = 0

\* start: the next datagram; "GET" takes several words.
Receive(words) ==
  /\ up /\ todo = <<>>
  /\ todo' = words
  /\ answer' = {}
  /\ UNCHANGED <<kind, tools, iface, bridge, up, limiter, cache, granted, bounds>>

\* A datagram that is not UTF-8 raises.
Dies == up' = FALSE /\ todo' = <<>> /\ granted' = FALSE /\ answer' = {} /\ cache' = None

Garbage ==
  /\ up /\ todo = <<>>
  /\ Dies
  /\ UNCHANGED <<kind, tools, iface, bridge, limiter, bounds>>

\* buildStruct asks the limiter first.
Ask ==
  /\ up /\ todo # <<>> /\ ~granted
  /\ Limit
  /\ level' = IF said' = "granted" THEN level - Period ELSE level
  /\ IF said' = "granted"
       THEN granted' = TRUE /\ UNCHANGED todo
       ELSE UNCHANGED granted /\ todo' = Tail(todo)
  /\ UNCHANGED <<kind, tools, iface, bridge, up, cache, answer, bounds>>

Done == granted' = FALSE /\ todo' = Tail(todo)

\* buildStruct does not know the word.
Unknown ==
  /\ up /\ granted /\ Head(todo) = "unknown"
  /\ Done
  /\ UNCHANGED <<kind, tools, iface, bridge, up, limiter, cache, answer, bounds>>

FromCache ==
  /\ up /\ granted /\ Head(todo) = "known"
  /\ Hit
  /\ Done
  /\ answer' = answer \cup {cache}
  /\ UNCHANGED <<kind, tools, iface, bridge, up, limiter, cache, bounds>>

\* The struct goes into the cache before it gets its node_id.  (The cache holds
\* the very dict that is completed afterwards.)
Collect ==
  /\ up /\ granted /\ Head(todo) = "known"
  /\ ~Hit /\ ~GetRaises /\ ~NodeIdRaises
  /\ Done
  /\ cache' = [Collected EXCEPT !.id = "mac"]
  /\ answer' = answer \cup {cache'}
  /\ UNCHANGED <<kind, tools, iface, bridge, up, limiter, bounds>>

\* Mutant: an exception in a request is caught and the loop goes on.
CollectFailsCaught ==
  /\ up /\ granted /\ Head(todo) = "known"
  /\ ~Hit /\ (GetMayRaise \/ NodeIdRaises)
  /\ cache' = IF NodeIdRaises /\ ~GetRaises THEN Collected ELSE cache
  /\ Done
  /\ UNCHANGED <<kind, tools, iface, bridge, up, limiter, answer, bounds>>

\* _get or getNodeID raises, the latter with the struct in the cache already.
CollectFails ==
  /\ up /\ granted /\ Head(todo) = "known"
  /\ ~Hit /\ (GetMayRaise \/ NodeIdRaises)
  /\ Dies
  /\ UNCHANGED <<kind, tools, iface, bridge, limiter, bounds>>

\* systemd starts the process again; start raises as long as the bridge is missing.
Restart ==
  /\ ~up /\ bridge
  /\ up' = TRUE
  /\ called' = FALSE /\ bucket' = Capacity /\ since' = 0
  /\ said' = "none"
  /\ level' = Capacity + Period
  /\ UNCHANGED <<kind, tools, iface, bridge, cache, todo, granted, answer, bounds>>

-----------------------------------------------------------------------------
(* The system around it *)

\* What a second, or setting the clock, does to the ages.
Passes(seconds, real) ==
  /\ since' = IF called THEN Least(since + seconds, MaxSince) ELSE 0
  /\ level' = IF seconds > 0 THEN Least(level + seconds, Capacity + Period) ELSE level
  /\ cache' = IF cache = None THEN None
              ELSE [cache EXCEPT !.age = Least(@ + real, MaxAge), !.back = @ + real - seconds]

Tick ==
  /\ Passes(1, 1)
  /\ UNCHANGED <<kind, tools, iface, bridge, up, called, bucket, said, todo, granted, answer, bounds>>

SetClock ==
  /\ shifts < MaxShifts /\ shifts' = shifts + 1
  /\ Passes(Shift, 0) \/ Passes(-Shift, 0)
  /\ UNCHANGED <<kind, tools, iface, bridge, up, called, bucket, said, todo, granted, answer, troubles>>

\* Commands fail or work again, an interface goes or comes back.
Trouble ==
  /\ troubles < MaxTroubles /\ troubles' = troubles + 1
  /\ \/ tools' = ~tools /\ UNCHANGED <<iface, bridge>>
     \/ iface' = ~iface /\ UNCHANGED <<tools, bridge>>
     \/ bridge' = ~bridge /\ UNCHANGED <<tools, iface>>
  /\ UNCHANGED <<kind, up, limiter, cache, todo, granted, answer, shifts>>

Build == Ask \/ Unknown \/ FromCache \/ Collect \/ CollectFails

Next ==
  \/ \E words \in Messages : Receive(words)
  \/ Garbage
  \/ Ask \/ Unknown \/ FromCache \/ Collect \/ CollectFails
  \/ Restart \/ Tick \/ SetClock \/ Trouble

Spec == Init /\ [][Next]_vars

\* Time passes, datagrams keep coming, the process goes on and is restarted.
FairSpec ==
  /\ Spec
  /\ WF_vars(Tick)
  /\ SF_vars(\E words \in Messages : Receive(words))
  /\ WF_vars(Build) /\ WF_vars(Restart)

-----------------------------------------------------------------------------
(* Properties *)

TypeOK ==
  /\ kind \in Kind
  /\ {tools, iface, bridge, up, granted} \subseteq BOOLEAN
  /\ bucket \in Int /\ bucket <= Capacity
  /\ since \in Int /\ called \in BOOLEAN
  /\ said \in {"none", "granted", "refused"}
  /\ granted => todo # <<>>

\* "rate limit like iptables limit (per minutes)" (ratelimit.py:6): in any stretch of
\* time of the clock it reads, a process lets pass no more words than the burst, one
\* for the free first call, and those the rate allows for that time.
RateBounded == level >= 0

\* A struct in a reply was collected no longer ago than `caching`, plus all that the
\* clock was ever set by, however often clients ask (getStruct).
Fresh == \A s \in answer : s.age <= Caching + Shift * shifts

\* Every struct in a reply has its node_id, although it is cached before it has one
\* and getNodeID may raise (getStruct).
HasNodeId == \A s \in answer : s.id = "mac"

\* The limiter never locks clients out for good: words pass again and again, although
\* refused calls move tLast and a clock that was set back leaves the bucket in debt,
\* unless the bridge stays away and the process cannot start (limit).
LimiterRecovers == []<>bridge => []<><<Ask /\ said' = "granted">>_vars
=============================================================================
