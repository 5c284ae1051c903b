-------------------------- MODULE SignedRoomsProofs --------------------------
(***************************************************************************)
(* Safety of Prosody's side of a reserved room, for every life of a room,  *)
(* any number of clients, all times and timeouts of the configuration and  *)
(* every order in which lookups end, fail or overtake each other.          *)
(***************************************************************************)
EXTENDS SignedRooms, FiniteSetTheorems, TLAPS

-----------------------------------------------------------------------------
(* The invariant *)

\* What is known of the state s of a room at time t, when version m of the record
\* is current and its predecessors were replaced at `ends`: a signer had it from a
\* version that was replaced at most the replication lag and d before.
Known(l, t, m, ends, s, d) ==
  s # NoState =>
    /\ s.at <= t
    /\ \E v \in 1 .. m :
         /\ v = m \/ s.at <= ends[v] + l.lag + d
         /\ s.gen = l.versions[v].gen
         /\ s.status = "active" => l.versions[v].status = "active"
         /\ ~HasRecord(s) => l.versions[v].status = "none"
         /\ s.status = "unknown" => ~l.legacy

\* A lookup lasts no longer than its timeout.  Its answer is younger than its
\* question, the entry it may fall back to was within the grace period.
InFlight(l, t, m, ends, q) ==
  q # NoLook =>
    /\ q.at <= t /\ t <= q.at + Timeout
    /\ Known(l, t, m, ends, q.reply, 0)
    /\ q.reply # NoState => q.at <= q.reply.at
    /\ Known(l, t, m, ends, q.cached, Timeout)
    /\ q.cached # NoState => q.at < q.cached.at + Grace

Sources == /\ Known(life, now, ver, sup, cache, Timeout)
           /\ \A k \in Looker : InFlight(life, now, ver, sup, look[k])

\* Sessions have tokens that were issued.
Tokens ==
  /\ \A c \in Client : sess[c] \in {NoGen} \cup Issued
  /\ \A c \in Client : look[c] # NoLook /\ look[c].op = "login" => look[c].gen \in Issued

\* The sweep is never late, and its lookup is the one of the last sweep.
Times ==
  /\ now >= 1 /\ now <= nextSweep /\ nextSweep <= now + SweepEvery
  /\ \A v \in DOMAIN Versions : sup[v] <= now
  /\ \A u, v \in 1 .. ver : u < v /\ v < ver => sup[u] <= sup[v]
  /\ look[Sweeper] # NoLook => look[Sweeper].at + SweepEvery = nextSweep

\* A v1 room seen with a record is remembered as long as its name is valid.
Retired ==
  /\ migrated \in {0, NameEnd}
  /\ seen /\ Legacy => migrated = NameEnd \/ NameEnd < now

\* Since when a deleted room is open and all signers know that it is deleted.
Since == LET known == sup[ver - 1] + Lag IN IF room > known THEN room ELSE known

\* The next sweep closes a deleted room, or this one is about to.
Closing ==
  ~MayFail /\ room # 0 /\ Versions[ver].status = "deleted" =>
    \/ nextSweep <= Since + SweepEvery
    \/ /\ look[Sweeper] # NoLook /\ look[Sweeper].op = "sweep"
       /\ Since < look[Sweeper].at /\ look[Sweeper].at <= Since + SweepEvery
       /\ look[Sweeper].reply # NoState => look[Sweeper].reply.status = "deleted"

IInv == TypeOK /\ Times /\ Sources /\ Tokens /\ Retired /\ Closing

-----------------------------------------------------------------------------
(* Facts about a life, and about numbers *)

\* A set of numbers with a bound has a largest.
LEMMA HasMax ==
  ASSUME NEW n \in Nat, NEW S \in SUBSET (0 .. n), S # {}
  PROVE  \E m \in S : \A x \in S : x <= m
<1> DEFINE T == {n - x : x \in S}
           R == OpToRel(<, Nat)
<1>1. \A x \in S : x \in Nat /\ x <= n /\ n - x \in Nat
  OBVIOUS
<1>2. T \subseteq Nat /\ T # {}
  BY <1>1
<1>3. IsWellFoundedOn(R, Nat)
  BY NatLessThanWellFounded
<1>4. \E t \in T : \A y \in T : ~(<<y, t>> \in R)
  <2> HIDE DEF T, R
  <2> QED BY <1>2, <1>3, WFMin
<1>5. PICK t \in T : \A y \in T : ~(<<y, t>> \in R)
  BY <1>4
<1>6. \A y \in T : ~(y < t)
  BY <1>2, <1>5 DEF OpToRel
<1>7. PICK m \in S : t = n - m
  OBVIOUS
<1>8. ASSUME NEW x \in S PROVE x <= m
  <2>1. ~(n - x < n - m)
    BY <1>6, <1>7
  <2> QED BY <2>1, <1>1
<1> QED BY <1>8

LEMMA LifeFacts ==
  ASSUME TypeOK
  PROVE  /\ Len(Versions) \in Nat /\ DOMAIN Versions = 1 .. Len(Versions)
         /\ 1 \in DOMAIN Versions
         /\ \A v \in DOMAIN Versions :
              /\ Versions[v].status \in {"none", "active", "deleted"}
              /\ Versions[v].gen \in Nat /\ Versions[v].gen \in Gens
              /\ Versions[v].expires \in Nat
         /\ Lag \in Nat /\ NameEnd \in Nat /\ Legacy \in BOOLEAN /\ MayFail \in BOOLEAN
         /\ ver \in Nat /\ 1 <= ver /\ ver <= Len(Versions)
<1> DEFINE R == [status : {"none", "active", "deleted"}, gen : Nat, expires : Nat]
<1>1. Versions \in Seq(R) /\ Versions # <<>>
  BY LivesAssumption DEF TypeOK, Versions
<1>2. Lag \in Nat /\ NameEnd \in Nat
  BY LivesAssumption DEF TypeOK, Lag, NameEnd
<1>3. Legacy \in BOOLEAN /\ MayFail \in BOOLEAN
  BY LivesAssumption, Zenon DEF TypeOK, Legacy, MayFail
<1> HIDE DEF R
<1>4. Len(Versions) \in Nat /\ DOMAIN Versions = 1 .. Len(Versions) /\ Len(Versions) # 0
  BY <1>1
<1>5. 1 \in DOMAIN Versions
  BY <1>4
<1>6. \A v \in DOMAIN Versions : Versions[v] \in R
  BY <1>1, <1>4
<1>7. \A v \in DOMAIN Versions : Versions[v].gen \in Gens
  BY DEF Gens
<1>8. ver \in DOMAIN Versions
  BY DEF TypeOK
<1> QED BY <1>2, <1>3, <1>4, <1>5, <1>6, <1>7, <1>8 DEF R

LEMMA IssuedType ==
  ASSUME TypeOK
  PROVE  Issued \subseteq Gens /\ Versions[1].gen \in Gens
<1>1. 1 .. ver \subseteq DOMAIN Versions
  BY LifeFacts
<1>2. Issued \subseteq Gens
  BY <1>1 DEF Issued, Gens
<1> QED BY <1>2, LifeFacts

LEMMA SameLife ==
  ASSUME life' = life
  PROVE  /\ Legacy' = Legacy /\ NameEnd' = NameEnd /\ Versions' = Versions /\ Lag' = Lag
         /\ MayFail' = MayFail /\ Gens' = Gens /\ State' = State /\ Look' = Look
BY DEF Legacy, NameEnd, Versions, Lag, MayFail, Gens, State, Look

LEMMA StateFacts ==
  ASSUME NEW s \in State
  PROVE  s # NoState /\ s.status # "none" /\ s.at \in Nat
BY DEF State, Status, NoState

LEMMA LookFacts ==
  ASSUME NEW q \in Look
  PROVE  /\ q # NoLook /\ q.op # "idle" /\ q.at \in Nat /\ q.gen \in Gens
         /\ q.cached \in State \cup {NoState} /\ q.reply \in State \cup {NoState}
BY DEF Look, NoLook

LEMMA ReplyType ==
  ASSUME TypeOK, NEW v \in 1 .. ver
  PROVE  Reply(v) \in State
<1>1. v \in DOMAIN Versions
  BY LifeFacts
<1>2. now \in Nat
  BY DEF TypeOK
<1> QED BY <1>1, <1>2, LifeFacts DEF Reply, State, Status

-----------------------------------------------------------------------------
(* Types *)

LEMMA StoreType ==
  ASSUME TypeOK, NEW s \in State \cup {NoState}, Store(s)
  PROVE  cache' \in State \cup {NoState} /\ migrated' \in Nat /\ seen' \in BOOLEAN
<1>1. CASE s = NoState
  BY <1>1 DEF Store, TypeOK
<1>2. CASE s # NoState
  <2>1. s \in State /\ now \in Nat /\ migrated \in Nat /\ NameEnd \in Nat
    BY <1>2, LifeFacts DEF TypeOK
  <2>2. cache' \in State
    BY <1>2, <2>1 DEF Store, State
  <2>3. migrated' \in Nat
    BY <1>2, <2>1 DEF Store
  <2>4. seen' \in BOOLEAN
    BY <1>2, Zenon DEF Store
  <2> QED BY <2>2, <2>3, <2>4
<1> QED BY <1>1, <1>2

LEMMA DecideType ==
  ASSUME TypeOK, NEW c \in Client, NEW op, NEW g \in Gens, NEW s, Decide(c, op, g, s)
  PROVE  /\ sess' \in [Client -> Gens \cup {NoGen}] /\ wanted' \in BOOLEAN
         /\ joined' \subseteq Client
<1>0. sess \in [Client -> Gens \cup {NoGen}] /\ wanted \in BOOLEAN /\ joined \subseteq Client
  BY DEF TypeOK
<1>1. CASE Login(c, g, s)
  BY <1>0, <1>1 DEF Login
<1>2. CASE Conference(c, s)
  <2>1. wanted' \in BOOLEAN
    BY <1>2, Zenon DEF Conference
  <2> QED BY <1>0, <1>2, <2>1 DEF Conference
<1>3. CASE Enter(c, s)
  BY <1>0, <1>3 DEF Enter
<1> QED BY <1>1, <1>2, <1>3 DEF Decide

\* The lookup of k after a signer's answer.
LEMMA Served ==
  ASSUME TypeOK, NEW k \in Looker, NEW v, Serve(k, v)
  PROVE  /\ v \in Visible /\ v \in 1 .. ver /\ look[k] \in Look /\ look[k].reply = NoState
         /\ look' = [look EXCEPT ![k] = look'[k]]
         /\ look'[k] \in Look /\ look'[k].reply = Reply(v)
         /\ look'[k].op = look[k].op /\ look'[k].gen = look[k].gen
         /\ look'[k].at = look[k].at /\ look'[k].cached = look[k].cached
         /\ UNCHANGED <<life, now, ver, sup, cache, migrated, sess, wanted, room, joined,
                        nextSweep, seen>>
<1>1. /\ v \in Visible /\ look[k] # NoLook /\ look[k].reply = NoState
      /\ look' = [look EXCEPT ![k].reply = Reply(v)]
      /\ UNCHANGED <<life, now, ver, sup, cache, migrated, sess, wanted, room, joined,
                     nextSweep, seen>>
  BY DEF Serve
<1>2. v \in 1 .. ver
  BY <1>1 DEF Visible
<1>3. look \in [Looker -> Look \cup {NoLook}]
  BY DEF TypeOK
<1>4. look[k] \in Look
  BY <1>1, <1>3
<1> DEFINE q == look[k]
           r == Reply(v)
           n == [q EXCEPT !.reply = r]
<1>5. look' = [look EXCEPT ![k] = n]
  BY <1>1
<1>6. r \in State
  BY <1>2, ReplyType
<1>7. q = [op |-> q.op, gen |-> q.gen, at |-> q.at, cached |-> q.cached, reply |-> q.reply]
  BY <1>4 DEF Look
<1> HIDE DEF r
<1>8. n = [op |-> q.op, gen |-> q.gen, at |-> q.at, cached |-> q.cached, reply |-> r]
  BY <1>7
<1>9. n \in Look
  BY <1>4, <1>6, <1>8 DEF Look
<1>10. /\ n.reply = r /\ n.op = q.op /\ n.gen = q.gen /\ n.at = q.at /\ n.cached = q.cached
  BY <1>8
<1> HIDE DEF n
<1>11. look'[k] = n
  BY <1>3, <1>5
<1> QED BY <1>1, <1>2, <1>4, <1>5, <1>9, <1>10, <1>11 DEF r

\* The sweep's lookup after everybody has left.
LEMMA Left ==
  ASSUME TypeOK, Leave
  PROVE  /\ room # 0 /\ room' = 0 /\ joined' = {}
         /\ look' = [look EXCEPT ![Sweeper] = look'[Sweeper]]
         /\ look[Sweeper] = NoLook => look'[Sweeper] = NoLook
         /\ look[Sweeper] # NoLook =>
              /\ look[Sweeper] \in Look /\ look'[Sweeper] \in Look
              /\ look'[Sweeper].op = "gone" /\ look'[Sweeper].gen = look[Sweeper].gen
              /\ look'[Sweeper].at = look[Sweeper].at
              /\ look'[Sweeper].cached = look[Sweeper].cached
              /\ look'[Sweeper].reply = look[Sweeper].reply
         /\ UNCHANGED <<life, now, ver, sup, cache, migrated, sess, wanted, nextSweep, seen>>
<1>1. /\ room # 0 /\ room' = 0 /\ joined' = {}
      /\ look' = IF look[Sweeper] = NoLook THEN look ELSE [look EXCEPT ![Sweeper].op = "gone"]
      /\ UNCHANGED <<life, now, ver, sup, cache, migrated, sess, wanted, nextSweep, seen>>
  BY DEF Leave
<1>2. look \in [Looker -> Look \cup {NoLook}] /\ Sweeper \in Looker
  BY DEF TypeOK, Looker
<1>3. CASE look[Sweeper] = NoLook
  BY <1>1, <1>2, <1>3
<1>4. CASE look[Sweeper] # NoLook
  <2> DEFINE q == look[Sweeper]
             n == [q EXCEPT !.op = "gone"]
  <2>1. q \in Look
    BY <1>2, <1>4
  <2>2. look' = [look EXCEPT ![Sweeper] = n]
    BY <1>1, <1>4
  <2>3. q = [op |-> q.op, gen |-> q.gen, at |-> q.at, cached |-> q.cached, reply |-> q.reply]
    BY <2>1 DEF Look
  <2>4. n = [op |-> "gone", gen |-> q.gen, at |-> q.at, cached |-> q.cached, reply |-> q.reply]
    BY <2>3
  <2>5. n \in Look
    BY <2>1, <2>4 DEF Look
  <2>6. n.op = "gone" /\ n.gen = q.gen /\ n.at = q.at /\ n.cached = q.cached /\ n.reply = q.reply
    BY <2>4
  <2> HIDE DEF n
  <2>7. look'[Sweeper] = n
    BY <1>2, <2>2
  <2> QED BY <1>1, <1>4, <2>1, <2>2, <2>5, <2>6, <2>7
<1> QED BY <1>3, <1>4

\* A lookup that a session starts.
LEMMA Asked ==
  ASSUME TypeOK, NEW c \in Client, NEW op \in {"login", "conference", "join"},
         NEW g \in Gens, Miss(c, op, g)
  PROVE  /\ look[c] = NoLook /\ look' = [look EXCEPT ![c] = look'[c]]
         /\ look'[c] \in Look /\ look'[c].op = op /\ look'[c].gen = g /\ look'[c].at = now
         /\ look'[c].cached = Cached(cache) /\ look'[c].reply = NoState
         /\ UNCHANGED <<life, now, ver, sup, cache, migrated, sess, wanted, room, joined,
                        nextSweep, seen>>
<1> DEFINE n == [op |-> op, gen |-> g, at |-> now, cached |-> Cached(cache), reply |-> NoState]
<1>1. /\ look[c] = NoLook /\ look' = [look EXCEPT ![c] = n]
      /\ UNCHANGED <<life, now, ver, sup, cache, migrated, sess, wanted, room, joined,
                     nextSweep, seen>>
  BY DEF Miss, Can
<1>2. look \in [Looker -> Look \cup {NoLook}] /\ c \in Looker /\ now \in Nat
  BY DEF TypeOK, Looker
<1>3. Cached(cache) \in State \cup {NoState}
  BY DEF TypeOK, Cached
<1>4. n \in Look
  BY <1>2, <1>3 DEF Look
<1>5. /\ n.op = op /\ n.gen = g /\ n.at = now /\ n.cached = Cached(cache) /\ n.reply = NoState
  OBVIOUS
<1> HIDE DEF n
<1>6. look'[c] = n
  BY <1>1, <1>2
<1> QED BY <1>1, <1>4, <1>5, <1>6

\* The lookup that the sweep starts.
LEMMA Swept ==
  ASSUME TypeOK, Sweep
  PROVE  /\ now = nextSweep /\ migrated' = Forget /\ nextSweep' = now + SweepEvery
         /\ look' = [look EXCEPT ![Sweeper] = look'[Sweeper]]
         /\ room = 0 => look'[Sweeper] = look[Sweeper]
         /\ room # 0 =>
              /\ look'[Sweeper] \in Look /\ look'[Sweeper].op = "sweep"
              /\ look'[Sweeper].at = now /\ look'[Sweeper].cached = NoState
              /\ look'[Sweeper].reply = NoState
         /\ UNCHANGED <<life, now, ver, sup, cache, sess, wanted, room, joined, seen>>
<1>1. /\ now = nextSweep /\ migrated' = Forget /\ nextSweep' = now + SweepEvery
      /\ look' = IF room # 0 THEN [look EXCEPT ![Sweeper] = SweepLook] ELSE look
      /\ UNCHANGED <<life, now, ver, sup, cache, sess, wanted, room, joined, seen>>
  BY DEF Sweep
<1>2. look \in [Looker -> Look \cup {NoLook}] /\ Sweeper \in Looker /\ now \in Nat
  BY DEF TypeOK, Looker
<1>3. Versions[1].gen \in Gens
  BY LifeFacts
<1>4. SweepLook \in Look
  BY <1>2, <1>3 DEF SweepLook, Look
<1>5. /\ SweepLook.op = "sweep" /\ SweepLook.at = now
      /\ SweepLook.cached = NoState /\ SweepLook.reply = NoState
  BY DEF SweepLook
<1>6. room # 0 => look'[Sweeper] = SweepLook
  BY <1>1, <1>2
<1> QED BY <1>1, <1>2, <1>4, <1>5, <1>6

\* What a lookup can end with.
LEMMA EndsType ==
  ASSUME TypeOK, NEW k \in Looker, NEW s, Ends(look[k], s)
  PROVE  /\ look[k] \in Look /\ s \in State \cup {NoState}
         /\ s # NoState => s = look[k].reply
         /\ s = NoState => MayFail
<1>1. look[k] \in Look
  BY DEF TypeOK, Ends
<1> QED BY <1>1, LookFacts DEF Ends

LEMMA NextType ==
  ASSUME TypeOK, [Next]_vars
  PROVE  TypeOK' /\ life' = life
<1> DEFINE LookType(f) == f \in [Looker -> Look \cup {NoLook}]
<1>0. /\ life \in Lives /\ now \in Nat /\ ver \in DOMAIN Versions
      /\ sup \in [DOMAIN Versions -> Nat] /\ cache \in State \cup {NoState}
      /\ migrated \in Nat /\ LookType(look) /\ sess \in [Client -> Gens \cup {NoGen}]
      /\ wanted \in BOOLEAN /\ room \in Nat /\ joined \subseteq Client
      /\ nextSweep \in Nat /\ seen \in BOOLEAN
  BY DEF TypeOK
<1> USE <1>0
<1>1. SUFFICES /\ life' = life
               /\ now' \in Nat /\ ver' \in DOMAIN Versions
               /\ sup' \in [DOMAIN Versions -> Nat] /\ cache' \in State \cup {NoState}
               /\ migrated' \in Nat /\ LookType(look') /\ sess' \in [Client -> Gens \cup {NoGen}]
               /\ wanted' \in BOOLEAN /\ room' \in Nat /\ joined' \subseteq Client
               /\ nextSweep' \in Nat /\ seen' \in BOOLEAN
  <2>1. Versions' = Versions /\ Gens' = Gens /\ State' = State /\ Look' = Look
    BY <1>1, SameLife
  <2>2. life' \in Lives /\ ver' \in DOMAIN Versions' /\ sup' \in [DOMAIN Versions' -> Nat]
    BY <1>1, <2>1
  <2>3. cache' \in State' \cup {NoState} /\ sess' \in [Client -> Gens' \cup {NoGen}]
    BY <1>1, <2>1
  <2>4. look' \in [Looker -> Look' \cup {NoLook}]
    BY <1>1, <2>1
  <2> QED BY <1>1, <2>2, <2>3, <2>4, Zenon DEF TypeOK
<1>2. CASE Advance
  <2>1. ver + 1 \in DOMAIN Versions
    <3>1. ver \in Nat /\ Len(Versions) \in Nat /\ DOMAIN Versions = 1 .. Len(Versions)
      BY LifeFacts
    <3>2. ver < Len(Versions)
      BY <1>2 DEF Advance
    <3> QED BY <3>1, <3>2
  <2> QED BY <1>2, <2>1 DEF Advance
<1>3. CASE \E k \in Looker : \E v \in Visible : Serve(k, v)
  BY <1>3, Served
<1>4. ASSUME NEW c \in Client, NEW op \in {"login", "conference", "join"}, NEW g \in Gens,
             Hit(c, op, g) \/ Miss(c, op, g)
      PROVE  /\ life' = life
             /\ now' \in Nat /\ ver' \in DOMAIN Versions
             /\ sup' \in [DOMAIN Versions -> Nat] /\ cache' \in State \cup {NoState}
             /\ migrated' \in Nat /\ LookType(look') /\ sess' \in [Client -> Gens \cup {NoGen}]
             /\ wanted' \in BOOLEAN /\ room' \in Nat /\ joined' \subseteq Client
             /\ nextSweep' \in Nat /\ seen' \in BOOLEAN
  <2>1. CASE Hit(c, op, g)
    <3>1. sess' \in [Client -> Gens \cup {NoGen}] /\ wanted' \in BOOLEAN /\ joined' \subseteq Client
      BY <2>1, DecideType DEF Hit
    <3> QED BY <2>1, <3>1 DEF Hit
  <2>2. CASE Miss(c, op, g)
    BY <2>2, Asked DEF Looker
  <2> QED BY <1>4, <2>1, <2>2
<1>5. Issued \subseteq Gens /\ Versions[1].gen \in Gens
  BY IssuedType
<1>6. CASE \E c \in Client, g \in Issued : Hit(c, "login", g) \/ Miss(c, "login", g)
  BY <1>4, <1>5, <1>6
<1>7. CASE \E c \in Client, op \in {"conference", "join"} :
             Hit(c, op, Versions[1].gen) \/ Miss(c, op, Versions[1].gen)
  BY <1>4, <1>5, <1>7
<1>8. CASE \E c \in Client : \E s \in Replies(c) : Resume(c, s)
  <2>0. PICK c \in Client : \E s \in Replies(c) : Resume(c, s)
    BY <1>8
  <2>1. PICK s \in Replies(c) : Resume(c, s)
    BY <2>0
  <2>2. c \in Looker /\ Ends(look[c], s) /\ Store(s)
        /\ Decide(c, look[c].op, look[c].gen, Best(look[c], s))
        /\ look' = [look EXCEPT ![c] = NoLook] /\ UNCHANGED <<life, now, ver, sup, room, nextSweep>>
    BY <2>1 DEF Resume, Looker
  <2>3. look[c] \in Look /\ s \in State \cup {NoState}
    BY <2>2, EndsType
  <2>4. cache' \in State \cup {NoState} /\ migrated' \in Nat /\ seen' \in BOOLEAN
    BY <2>2, <2>3, StoreType
  <2>5. sess' \in [Client -> Gens \cup {NoGen}] /\ wanted' \in BOOLEAN /\ joined' \subseteq Client
    BY <2>2, <2>3, LookFacts, DecideType
  <2> QED BY <2>2, <2>4, <2>5
<1>9. CASE \E s \in Replies(Sweeper) : SweepEnds(s)
  <2>1. PICK s : SweepEnds(s)
    BY <1>9
  <2>2. /\ Sweeper \in Looker /\ Ends(look[Sweeper], s) /\ Store(s)
        /\ look' = [look EXCEPT ![Sweeper] = NoLook]
        /\ UNCHANGED <<life, now, ver, sup, sess, wanted, nextSweep>>
        /\ room' \in {0, room} /\ joined' \in {{}, joined}
    BY <2>1 DEF SweepEnds, Looker
  <2>3. cache' \in State \cup {NoState} /\ migrated' \in Nat /\ seen' \in BOOLEAN
    BY <2>2, EndsType, StoreType
  <2> QED BY <2>2, <2>3
<1>10. CASE \E c \in Client : View(c)
  BY <1>10 DEF View
<1>11. CASE Create
  <2>1. wanted' \in BOOLEAN
    BY <1>11, Zenon DEF Create
  <2> QED BY <1>11, <2>1 DEF Create
<1>12. CASE Leave
  BY <1>12, Left
<1>13. CASE Sweep
  <2>1. Forget \in Nat
    BY DEF Forget
  <2> QED BY <1>13, <2>1, Swept, TimesAssumption
<1>14. CASE Evict
  BY <1>14 DEF Evict
<1>15. CASE Tick
  BY <1>15 DEF Tick
<1>16. CASE UNCHANGED vars
  BY <1>16 DEF vars
<1> QED BY <1>2, <1>3, <1>6, <1>7, <1>8, <1>9, <1>10, <1>11, <1>12, <1>13, <1>14, <1>15, <1>16
        DEF Next

-----------------------------------------------------------------------------
(* Where states come from *)

\* A state that is known stays known...
LEMMA KnownTick ==
  ASSUME NEW l, NEW t \in Nat, NEW m, NEW ends, NEW s \in State \cup {NoState}, NEW d,
         Known(l, t, m, ends, s, d)
  PROVE  Known(l, t + 1, m, ends, s, d)
<1>1. CASE s = NoState
  BY <1>1 DEF Known
<1>2. CASE s # NoState
  <2>1. s.at \in Nat
    BY <1>2, StateFacts
  <2> QED BY <1>2, <2>1 DEF Known
<1> QED BY <1>1, <1>2

LEMMA KnownAdvance ==
  ASSUME NEW l, l.lag \in Nat, NEW t \in Nat, NEW m \in Nat \ {0}, NEW D, 1 .. m \subseteq D,
         NEW ends \in [D -> Nat], NEW s \in State \cup {NoState}, NEW d \in Nat,
         Known(l, t, m, ends, s, d)
  PROVE  Known(l, t, m + 1, [ends EXCEPT ![m] = t], s, d)
<1>1. CASE s = NoState
  BY <1>1 DEF Known
<1>2. CASE s # NoState
  <2>1. s.at \in Nat /\ s.at <= t
    BY <1>2, StateFacts DEF Known
  <2>2. PICK v \in 1 .. m : /\ v = m \/ s.at <= ends[v] + l.lag + d
                            /\ s.gen = l.versions[v].gen
                            /\ s.status = "active" => l.versions[v].status = "active"
                            /\ ~HasRecord(s) => l.versions[v].status = "none"
                            /\ s.status = "unknown" => ~l.legacy
    BY <1>2 DEF Known
  <2> DEFINE e == [ends EXCEPT ![m] = t]
  <2>3. v \in 1 .. m + 1 /\ v \in D /\ m \in D
    BY <2>2
  <2>4. e[v] = IF v = m THEN t ELSE ends[v]
    BY <2>3
  <2> HIDE DEF e
  <2>5. s.at <= e[v] + l.lag + d
    BY <2>1, <2>2, <2>3, <2>4
  <2>6. Known(l, t, m + 1, e, s, d)
    BY <2>1, <2>2, <2>3, <2>5 DEF Known
  <2> QED BY <2>6 DEF e
<1> QED BY <1>1, <1>2

\* ... and is older by the time its lookup took when it gets into the cache.
LEMMA KnownStored ==
  ASSUME NEW l, l.lag \in Nat, NEW t \in Nat, NEW m \in Nat, NEW D, 1 .. m \subseteq D,
         NEW ends \in [D -> Nat], NEW s \in State, NEW a \in Nat,
         Known(l, t, m, ends, s, 0), a <= s.at, t <= a + Timeout
  PROVE  Known(l, t, m, ends, [s EXCEPT !.at = t], Timeout)
<1> DEFINE n == [s EXCEPT !.at = t]
<1>1. s.at \in Nat /\ s # NoState
  BY StateFacts
<1>2. n.at = t /\ n.gen = s.gen /\ n.status = s.status
  BY DEF State
<1>3. PICK v \in 1 .. m : /\ v = m \/ s.at <= ends[v] + l.lag + 0
                          /\ s.gen = l.versions[v].gen
                          /\ s.status = "active" => l.versions[v].status = "active"
                          /\ ~HasRecord(s) => l.versions[v].status = "none"
                          /\ s.status = "unknown" => ~l.legacy
  BY <1>1 DEF Known
<1>4. ends[v] \in Nat
  OBVIOUS
<1>5. v = m \/ t <= ends[v] + l.lag + Timeout
  BY <1>1, <1>3, <1>4, TimesAssumption
<1>6. HasRecord(n) <=> HasRecord(s)
  BY <1>2 DEF HasRecord
<1> HIDE DEF n
<1>7. Known(l, t, m, ends, n, Timeout)
  BY <1>2, <1>3, <1>5, <1>6 DEF Known
<1> QED BY <1>7 DEF n

\* A signer's answer is known.
LEMMA KnownReply ==
  ASSUME TypeOK, NEW v \in Visible
  PROVE  Known(life, now, ver, sup, Reply(v), 0) /\ Reply(v).at = now
<1> DEFINE r == Reply(v)
<1>1. v \in 1 .. ver /\ (v = ver \/ now <= sup[v] + Lag)
  BY DEF Visible
<1>2. v \in DOMAIN Versions /\ Versions[v].status \in {"none", "active", "deleted"}
  BY <1>1, LifeFacts
<1>3. r.at = now /\ r.gen = Versions[v].gen
  BY DEF Reply
<1>4. /\ Versions[v].status = "none" => r.status = (IF Legacy THEN "legacy" ELSE "unknown")
      /\ Versions[v].status = "deleted" => r.status = "deleted"
      /\ Versions[v].status = "active" => r.status \in {"expired", "active"}
  BY <1>2 DEF Reply
<1>5. /\ r.status = "active" => Versions[v].status = "active"
      /\ ~HasRecord(r) => Versions[v].status = "none"
      /\ r.status = "unknown" => ~Legacy
  BY <1>2, <1>4 DEF HasRecord
<1>6. sup[v] \in Nat /\ Lag \in Nat /\ now \in Nat
  BY <1>2, LifeFacts DEF TypeOK
<1> HIDE DEF r
<1>7. Known(life, now, ver, sup, r, 0)
  BY <1>1, <1>3, <1>5, <1>6 DEF Known, Versions, Lag, Legacy
<1> QED BY <1>3, <1>7 DEF r

\* One lookup changes, or none.
LEMMA SourcesFrame ==
  ASSUME TypeOK, Sources, UNCHANGED <<life, now, ver, sup>>,
         Known(life, now, ver, sup, cache', Timeout), NEW k \in Looker,
         look' = [look EXCEPT ![k] = look'[k]], InFlight(life, now, ver, sup, look'[k])
  PROVE  Sources'
<1>1. \A j \in Looker : look'[j] = look[j] \/ j = k
  BY DEF TypeOK
<1> QED BY <1>1 DEF Sources

\* The entry a lookup starts with, and the empty one it leaves.
LEMMA KnownCached ==
  ASSUME NEW l, NEW t, NEW m, NEW ends, NEW d, Known(l, t, m, ends, cache, d)
  PROVE  /\ Known(l, t, m, ends, Cached(cache), d) /\ Known(l, t, m, ends, NoState, d)
         /\ InFlight(l, t, m, ends, NoLook)
BY DEF Known, Cached, InFlight

\* A lookup ends and its answer is stored.
LEMMA StoreSources ==
  ASSUME TypeOK, Sources, NEW k \in Looker, NEW s, Ends(look[k], s), Store(s),
         look' = [look EXCEPT ![k] = NoLook], UNCHANGED <<life, now, ver, sup>>
  PROVE  Sources'
<1>1. /\ look[k] \in Look /\ s \in State \cup {NoState} /\ (s # NoState => s = look[k].reply)
  BY EndsType
<1>2. InFlight(life, now, ver, sup, look[k]) /\ Known(life, now, ver, sup, cache, Timeout)
  BY DEF Sources
<1>3. Known(life, now, ver, sup, cache', Timeout)
  <2>1. CASE s = NoState
    BY <1>2, <2>1 DEF Store
  <2>2. CASE s # NoState
    <3>1. s \in State /\ s = look[k].reply /\ cache' = [s EXCEPT !.at = now]
      BY <1>1, <2>2 DEF Store
    <3>2. /\ Known(life, now, ver, sup, s, 0) /\ look[k].at <= s.at
          /\ now <= look[k].at + Timeout /\ look[k].at \in Nat
      BY <1>1, <1>2, <2>2, <3>1, LookFacts DEF InFlight
    <3>3. /\ now \in Nat /\ sup \in [DOMAIN Versions -> Nat] /\ life.lag \in Nat
          /\ ver \in Nat /\ 1 .. ver \subseteq DOMAIN Versions
      BY LifeFacts DEF TypeOK, Lag
    <3> QED BY <3>1, <3>2, <3>3, KnownStored
  <2> QED BY <2>1, <2>2
<1>4. InFlight(life, now, ver, sup, NoLook)
  BY DEF InFlight
<1>5. look'[k] = NoLook
  BY DEF TypeOK
<1> QED BY <1>3, <1>4, <1>5, SourcesFrame

LEMMA NextSources ==
  ASSUME TypeOK, Sources, [Next]_vars
  PROVE  Sources'
<1>0. /\ now \in Nat /\ ver \in Nat \ {0} /\ sup \in [DOMAIN Versions -> Nat]
      /\ 1 .. ver \subseteq DOMAIN Versions /\ life.lag \in Nat
      /\ cache \in State \cup {NoState} /\ Sweeper \in Looker
      /\ look \in [Looker -> Look \cup {NoLook}]
  BY LifeFacts DEF TypeOK, Lag, Looker
<1>1. ASSUME UNCHANGED <<life, now, ver, sup, cache, look>> PROVE Sources'
  BY <1>1 DEF Sources
<1>2. CASE Advance
  <2>1. /\ ver' = ver + 1 /\ sup' = [sup EXCEPT ![ver] = now]
        /\ UNCHANGED <<life, now, cache, look>>
    BY <1>2 DEF Advance
  <2>2. ASSUME NEW s \in State \cup {NoState}, NEW d \in Nat, Known(life, now, ver, sup, s, d)
        PROVE  Known(life, now, ver', sup', s, d)
    BY <1>0, <2>1, <2>2, KnownAdvance
  <2>3. ASSUME NEW k \in Looker PROVE InFlight(life, now, ver', sup', look[k])
    <3>1. CASE look[k] = NoLook
      BY <3>1 DEF InFlight
    <3>2. CASE look[k] # NoLook
      <4>1. look[k] \in Look
        BY <1>0, <3>2
      <4>2. look[k].reply \in State \cup {NoState} /\ look[k].cached \in State \cup {NoState}
        BY <4>1, LookFacts
      <4>3. InFlight(life, now, ver, sup, look[k])
        BY DEF Sources
      <4> QED BY <2>2, <3>2, <4>2, <4>3, TimesAssumption DEF InFlight
    <3> QED BY <3>1, <3>2
  <2>4. Known(life, now, ver', sup', cache, Timeout)
    BY <1>0, <2>2, TimesAssumption DEF Sources
  <2> QED BY <2>1, <2>3, <2>4 DEF Sources
<1>3. CASE \E k \in Looker : \E v \in Visible : Serve(k, v)
  <2>1. PICK k \in Looker, v \in Visible : Serve(k, v)
    BY <1>3
  <2>2. /\ look[k] \in Look /\ look' = [look EXCEPT ![k] = look'[k]]
        /\ look'[k] \in Look /\ look'[k].reply = Reply(v)
        /\ look'[k].at = look[k].at /\ look'[k].cached = look[k].cached
        /\ UNCHANGED <<life, now, ver, sup, cache>>
    BY <2>1, Served
  <2>3. Known(life, now, ver, sup, Reply(v), 0) /\ Reply(v).at = now
    BY KnownReply
  <2>4. InFlight(life, now, ver, sup, look[k]) /\ look[k] # NoLook
    BY <2>2, LookFacts DEF Sources
  <2>5. InFlight(life, now, ver, sup, look'[k])
    BY <2>2, <2>3, <2>4 DEF InFlight
  <2> QED BY <2>2, <2>5, SourcesFrame DEF Sources
<1>4. ASSUME NEW c \in Client, NEW op \in {"login", "conference", "join"}, NEW g \in Gens,
             Miss(c, op, g)
      PROVE  Sources'
  <2>1. /\ look' = [look EXCEPT ![c] = look'[c]] /\ look'[c] \in Look
        /\ look'[c].at = now /\ look'[c].cached = Cached(cache) /\ look'[c].reply = NoState
        /\ UNCHANGED <<life, now, ver, sup, cache>>
    BY <1>4, Asked
  <2>2. /\ Known(life, now, ver, sup, Cached(cache), Timeout)
        /\ Known(life, now, ver, sup, NoState, 0)
    BY KnownCached DEF Sources, Known
  <2>3. Cached(cache) # NoState => now < Cached(cache).at + Grace
    <3>1. cache # NoState => cache.at \in Nat
      BY <1>0, StateFacts
    <3> QED BY <1>0, <3>1, TimesAssumption DEF Cached
  <2>4. InFlight(life, now, ver, sup, look'[c])
    BY <1>0, <2>1, <2>2, <2>3, TimesAssumption DEF InFlight
  <2> QED BY <2>1, <2>4, SourcesFrame DEF Sources, Looker
<1>5. Issued \subseteq Gens /\ Versions[1].gen \in Gens
  BY IssuedType
<1>6. CASE \E c \in Client, g \in Issued : Hit(c, "login", g) \/ Miss(c, "login", g)
  BY <1>1, <1>4, <1>5, <1>6 DEF Hit
<1>7. CASE \E c \in Client, op \in {"conference", "join"} :
             Hit(c, op, Versions[1].gen) \/ Miss(c, op, Versions[1].gen)
  BY <1>1, <1>4, <1>5, <1>7 DEF Hit
<1>8. CASE \E c \in Client : \E s \in Replies(c) : Resume(c, s)
  BY <1>8, StoreSources DEF Resume, Looker
<1>9. CASE \E s \in Replies(Sweeper) : SweepEnds(s)
  BY <1>0, <1>9, StoreSources DEF SweepEnds
<1>10. CASE \E c \in Client : View(c)
  BY <1>1, <1>10 DEF View
<1>11. CASE Create
  BY <1>1, <1>11 DEF Create
<1>12. CASE Leave
  <2>1. /\ look' = [look EXCEPT ![Sweeper] = look'[Sweeper]]
        /\ UNCHANGED <<life, now, ver, sup, cache>>
    BY <1>12, Left
  <2>2. InFlight(life, now, ver, sup, look'[Sweeper])
    <3>1. CASE look[Sweeper] = NoLook
      BY <1>12, <3>1, Left DEF InFlight
    <3>2. CASE look[Sweeper] # NoLook
      <4>1. /\ look'[Sweeper].at = look[Sweeper].at
            /\ look'[Sweeper].cached = look[Sweeper].cached
            /\ look'[Sweeper].reply = look[Sweeper].reply
        BY <1>12, <3>2, Left
      <4>2. InFlight(life, now, ver, sup, look[Sweeper])
        BY <1>0 DEF Sources
      <4> QED BY <3>2, <4>1, <4>2 DEF InFlight
    <3> QED BY <3>1, <3>2
  <2> QED BY <1>0, <2>1, <2>2, SourcesFrame DEF Sources
<1>13. CASE Sweep
  <2>1. /\ look' = [look EXCEPT ![Sweeper] = look'[Sweeper]]
        /\ UNCHANGED <<life, now, ver, sup, cache>>
    BY <1>13, Swept
  <2>2. InFlight(life, now, ver, sup, look'[Sweeper])
    <3>1. CASE room = 0
      BY <1>0, <1>13, <3>1, Swept DEF Sources
    <3>2. CASE room # 0
      BY <1>0, <1>13, <3>2, Swept, TimesAssumption DEF InFlight, Known
    <3> QED BY <3>1, <3>2
  <2> QED BY <1>0, <2>1, <2>2, SourcesFrame DEF Sources
<1>14. CASE Evict
  <2>1. cache' = NoState /\ UNCHANGED <<life, now, ver, sup, look>>
    BY <1>14 DEF Evict
  <2> QED BY <2>1 DEF Sources, Known
<1>15. CASE Tick
  <2>1. /\ now' = now + 1 /\ UNCHANGED <<life, ver, sup, cache, look>>
        /\ \A k \in Looker : look[k] # NoLook => now < look[k].at + Timeout
    BY <1>15 DEF Tick
  <2>2. ASSUME NEW k \in Looker PROVE InFlight(life, now + 1, ver, sup, look[k])
    <3>1. CASE look[k] = NoLook
      BY <3>1 DEF InFlight
    <3>2. CASE look[k] # NoLook
      <4>1. look[k] \in Look
        BY <1>0, <3>2
      <4>2. /\ look[k].reply \in State \cup {NoState} /\ look[k].cached \in State \cup {NoState}
            /\ look[k].at \in Nat
        BY <4>1, LookFacts
      <4>3. InFlight(life, now, ver, sup, look[k]) /\ now < look[k].at + Timeout
        BY <2>1, <3>2 DEF Sources
      <4>4. /\ Known(life, now + 1, ver, sup, look[k].reply, 0)
            /\ Known(life, now + 1, ver, sup, look[k].cached, Timeout)
        BY <1>0, <3>2, <4>2, <4>3, KnownTick DEF InFlight
      <4>5. look[k].at <= now + 1 /\ now + 1 <= look[k].at + Timeout
        BY <1>0, <3>2, <4>2, <4>3, TimesAssumption DEF InFlight
      <4> QED BY <3>2, <4>3, <4>4, <4>5 DEF InFlight
    <3> QED BY <3>1, <3>2
  <2>3. Known(life, now + 1, ver, sup, cache, Timeout)
    BY <1>0, KnownTick DEF Sources
  <2> QED BY <2>1, <2>2, <2>3 DEF Sources
<1>16. CASE UNCHANGED vars
  BY <1>1, <1>16 DEF vars
<1> QED BY <1>2, <1>3, <1>6, <1>7, <1>8, <1>9, <1>10, <1>11, <1>12, <1>13, <1>14, <1>15, <1>16
        DEF Next

-----------------------------------------------------------------------------
(* Times, tokens and v1 rooms *)

LEMMA NextTimes ==
  ASSUME TypeOK, Times, Sources, [Next]_vars
  PROVE  Times'
<1>0. /\ now \in Nat /\ nextSweep \in Nat /\ ver \in Nat \ {0} /\ Sweeper \in Looker
      /\ sup \in [DOMAIN Versions -> Nat] /\ 1 .. ver \subseteq DOMAIN Versions
      /\ look \in [Looker -> Look \cup {NoLook}] /\ Versions' = Versions
      /\ Timeout \in Nat /\ SweepEvery \in Nat /\ Timeout < SweepEvery
  BY LifeFacts, NextType, SameLife, TimesAssumption DEF TypeOK, Looker
<1>1. ASSUME UNCHANGED <<now, ver, sup, nextSweep>>,
             \/ look'[Sweeper] = look[Sweeper]
             \/ look'[Sweeper] = NoLook
             \/ look[Sweeper] # NoLook /\ look'[Sweeper].at = look[Sweeper].at
      PROVE  Times'
  BY <1>0, <1>1 DEF Times
<1>2. CASE Advance
  <2>1. ver' = ver + 1 /\ sup' = [sup EXCEPT ![ver] = now] /\ UNCHANGED <<now, look, nextSweep>>
    BY <1>2 DEF Advance
  <2>2. \A v \in DOMAIN Versions : sup'[v] = (IF v = ver THEN now ELSE sup[v])
    BY <1>0, <2>1
  <2>3. \A v \in DOMAIN Versions : sup'[v] <= now
    BY <1>0, <2>2 DEF Times
  <2>4. ASSUME NEW u \in 1 .. ver + 1, NEW v \in 1 .. ver + 1, u < v, v < ver + 1
        PROVE  sup'[u] <= sup'[v]
    <3>1. u \in 1 .. ver /\ v \in 1 .. ver /\ u < ver /\ u \in DOMAIN Versions /\ v \in DOMAIN Versions
      BY <1>0, <2>4
    <3>2. sup[u] <= now /\ (v < ver => sup[u] <= sup[v])
      BY <2>4, <3>1 DEF Times
    <3> QED BY <1>0, <2>2, <2>4, <3>1, <3>2
  <2> QED BY <1>0, <2>1, <2>3, <2>4 DEF Times
<1>3. CASE \E k \in Looker : \E v \in Visible : Serve(k, v)
  <2>1. PICK k \in Looker, v \in Visible : Serve(k, v)
    BY <1>3
  <2>2. /\ look[k] \in Look /\ look' = [look EXCEPT ![k] = look'[k]]
        /\ look'[k].at = look[k].at /\ UNCHANGED <<now, ver, sup, nextSweep>>
    BY <2>1, Served
  <2>3. CASE k = Sweeper
    BY <1>1, <2>2, <2>3, LookFacts
  <2>4. CASE k # Sweeper
    BY <1>0, <1>1, <2>2, <2>4
  <2> QED BY <2>3, <2>4
<1>4. ASSUME NEW k \in Looker, UNCHANGED <<now, ver, sup, nextSweep>>,
             look' = [look EXCEPT ![k] = look'[k]], k # Sweeper \/ look'[k] = NoLook
      PROVE  Times'
  <2>1. look'[Sweeper] = look[Sweeper] \/ look'[Sweeper] = NoLook
    BY <1>0, <1>4
  <2> QED BY <1>1, <1>4, <2>1
<1>5. ASSUME NEW c \in Client, NEW op \in {"login", "conference", "join"}, NEW g \in Gens,
             Miss(c, op, g)
      PROVE  Times'
  <2>1. look[c] = NoLook /\ look' = [look EXCEPT ![c] = look'[c]] /\ UNCHANGED <<now, ver, sup, nextSweep>>
    BY <1>5, Asked
  <2>2. CASE c = Sweeper
    BY <2>2, ClientAssumption DEF Sweeper
  <2>3. CASE c # Sweeper
    BY <1>4, <2>1, <2>3 DEF Looker
  <2> QED BY <2>2, <2>3
<1>6. Issued \subseteq Gens /\ Versions[1].gen \in Gens
  BY IssuedType
<1>7. CASE \E c \in Client, g \in Issued : Hit(c, "login", g) \/ Miss(c, "login", g)
  BY <1>1, <1>5, <1>6, <1>7 DEF Hit
<1>8. CASE \E c \in Client, op \in {"conference", "join"} :
             Hit(c, op, Versions[1].gen) \/ Miss(c, op, Versions[1].gen)
  BY <1>1, <1>5, <1>6, <1>8 DEF Hit
<1>9. CASE \E c \in Client : \E s \in Replies(c) : Resume(c, s)
  <2>1. PICK c \in Client : look' = [look EXCEPT ![c] = NoLook] /\ UNCHANGED <<now, ver, sup, nextSweep>>
    BY <1>9 DEF Resume
  <2>2. c \in Looker /\ look'[c] = NoLook
    BY <1>0, <2>1 DEF Looker
  <2> QED BY <1>4, <2>1, <2>2
<1>10. CASE \E s \in Replies(Sweeper) : SweepEnds(s)
  <2>1. look' = [look EXCEPT ![Sweeper] = NoLook] /\ UNCHANGED <<now, ver, sup, nextSweep>>
    BY <1>10 DEF SweepEnds
  <2>2. look'[Sweeper] = NoLook
    BY <1>0, <2>1
  <2> QED BY <1>1, <2>1, <2>2
<1>11. CASE (\E c \in Client : View(c)) \/ Create \/ Evict \/ UNCHANGED vars
  BY <1>1, <1>11 DEF View, Create, Evict, vars
<1>12. CASE Leave
  BY <1>1, <1>12, Left
<1>13. CASE Sweep
  <2>1. /\ now = nextSweep /\ nextSweep' = now + SweepEvery /\ UNCHANGED <<now, ver, sup>>
        /\ room = 0 => look'[Sweeper] = look[Sweeper]
        /\ room # 0 => look'[Sweeper].at = now
    BY <1>13, Swept
  <2>2. look[Sweeper] = NoLook
    <3> SUFFICES ASSUME look[Sweeper] # NoLook PROVE FALSE
      OBVIOUS
    <3>1. look[Sweeper].at \in Nat
      BY <1>0, LookFacts
    <3>2. look[Sweeper].at + SweepEvery = nextSweep /\ now <= look[Sweeper].at + Timeout
      BY <1>0 DEF Times, Sources, InFlight
    <3> QED BY <1>0, <2>1, <3>1, <3>2
  <2>3. look'[Sweeper] # NoLook => look'[Sweeper].at + SweepEvery = nextSweep'
    BY <2>1, <2>2
  <2> QED BY <1>0, <2>1, <2>3 DEF Times
<1>14. CASE Tick
  <2>1. now' = now + 1 /\ now < nextSweep /\ UNCHANGED <<ver, sup, look, nextSweep>>
    BY <1>14 DEF Tick
  <2>2. now + 1 >= 1 /\ now + 1 <= nextSweep /\ nextSweep <= now + 1 + SweepEvery
    BY <1>0, <2>1 DEF Times
  <2>3. \A v \in DOMAIN Versions : sup[v] <= now + 1
    BY <1>0 DEF Times
  <2> QED BY <1>0, <2>1, <2>2, <2>3 DEF Times
<1> QED BY <1>2, <1>3, <1>7, <1>8, <1>9, <1>10, <1>11, <1>12, <1>13, <1>14 DEF Next

LEMMA NextRetired ==
  ASSUME TypeOK, Retired, Times, [Next]_vars
  PROVE  Retired'
<1>0. /\ now \in Nat /\ migrated \in Nat /\ NameEnd \in Nat /\ NameEnd' = NameEnd /\ Legacy' = Legacy
      /\ seen \in BOOLEAN
  BY LifeFacts, NextType, SameLife DEF TypeOK
<1>1. ASSUME UNCHANGED <<now, migrated, seen>> PROVE Retired'
  BY <1>0, <1>1 DEF Retired
<1>2. ASSUME NEW s, Store(s), UNCHANGED now PROVE Retired'
  <2>1. CASE s = NoState
    BY <1>1, <1>2, <2>1 DEF Store
  <2>2. CASE s # NoState
    <3>1. /\ migrated' = (IF Legacy /\ HasRecord(s) THEN NameEnd ELSE migrated)
          /\ seen' => seen \/ HasRecord(s)
      BY <1>2, <2>2 DEF Store
    <3> QED BY <1>0, <1>2, <3>1 DEF Retired
  <2> QED BY <2>1, <2>2
<1>3. CASE Advance
  BY <1>1, <1>3 DEF Advance
<1>4. CASE \E k \in Looker : \E v \in Visible : Serve(k, v)
  BY <1>1, <1>4 DEF Serve
<1>5. CASE \E c \in Client, g \in Issued : Hit(c, "login", g) \/ Miss(c, "login", g)
  BY <1>1, <1>5 DEF Hit, Miss
<1>6. CASE \E c \in Client, op \in {"conference", "join"} :
             Hit(c, op, Versions[1].gen) \/ Miss(c, op, Versions[1].gen)
  BY <1>1, <1>6 DEF Hit, Miss
<1>7. CASE \E c \in Client : \E s \in Replies(c) : Resume(c, s)
  BY <1>2, <1>7 DEF Resume
<1>8. CASE \E s \in Replies(Sweeper) : SweepEnds(s)
  BY <1>2, <1>8 DEF SweepEnds
<1>9. CASE (\E c \in Client : View(c)) \/ Create \/ Leave \/ Evict \/ UNCHANGED vars
  BY <1>1, <1>9 DEF View, Create, Leave, Evict, vars
<1>10. CASE Sweep
  <2>1. migrated' = Forget /\ UNCHANGED <<now, seen>>
    BY <1>10 DEF Sweep
  <2>2. (migrated' = 0 /\ migrated < now) \/ migrated' = migrated
    BY <2>1 DEF Forget
  <2> QED BY <1>0, <2>1, <2>2 DEF Retired
<1>11. CASE Tick
  <2>1. now' = now + 1 /\ UNCHANGED <<migrated, seen>>
    BY <1>11 DEF Tick
  <2> QED BY <1>0, <2>1 DEF Retired
<1> QED BY <1>3, <1>4, <1>5, <1>6, <1>7, <1>8, <1>9, <1>10, <1>11 DEF Next

\* Whom a hook lets in, and with which token.
LEMMA Decided ==
  ASSUME TypeOK, NEW c \in Client, NEW op, NEW g, NEW s, Decide(c, op, g, s)
  PROVE  /\ \A b \in Client :
              \/ sess'[b] \in {sess[b], NoGen}
              \/ b = c /\ op = "login" /\ sess'[b] = g
         /\ \A b \in joined' \ joined : b = c /\ op = "join" /\ Allowed(s, sess[b])
<1>0. sess \in [Client -> Gens \cup {NoGen}]
  BY DEF TypeOK
<1>1. CASE op = "login" /\ Login(c, g, s)
  BY <1>0, <1>1 DEF Login
<1>2. CASE Conference(c, s)
  BY <1>2 DEF Conference
<1>3. CASE op = "join" /\ Enter(c, s)
  BY <1>3 DEF Enter
<1> QED BY <1>1, <1>2, <1>3 DEF Decide

LEMMA IssuedGrows ==
  ASSUME TypeOK, [Next]_vars
  PROVE  Issued \subseteq Issued'
<1>1. Versions' = Versions /\ Legacy' = Legacy /\ ver \in Nat
  BY NextType, SameLife, LifeFacts
<1>2. ver' \in {ver, ver + 1}
  BY DEF Next, Advance, Serve, Hit, Miss, Resume, SweepEnds, View, Create, Leave, Sweep, Evict,
         Tick, vars
<1>3. 1 .. ver \subseteq 1 .. ver'
  BY <1>1, <1>2
<1> QED BY <1>1, <1>3 DEF Issued

LEMMA NextTokens ==
  ASSUME TypeOK, Tokens, [Next]_vars
  PROVE  Tokens'
<1>0. /\ look \in [Looker -> Look \cup {NoLook}] /\ Client \subseteq Looker
      /\ Issued \subseteq Issued' /\ Issued \subseteq Gens
  BY IssuedGrows, IssuedType DEF TypeOK, Looker
<1> DEFINE SessOK(b) == sess'[b] \in {NoGen} \cup Issued
           LookOK(b) == look'[b] # NoLook /\ look'[b].op = "login" => look'[b].gen \in Issued
<1>1. SUFFICES ASSUME NEW b \in Client PROVE SessOK(b) /\ LookOK(b)
  BY <1>0 DEF Tokens
<1>2. sess'[b] = sess[b] => SessOK(b)
  BY DEF Tokens
<1>3. \/ look'[b] = look[b] \/ look'[b] = NoLook
      \/ look[b] # NoLook /\ look'[b].op = look[b].op /\ look'[b].gen = look[b].gen
      => LookOK(b)
  BY DEF Tokens
<1> HIDE DEF SessOK, LookOK
<1>4. CASE Advance
  BY <1>2, <1>3, <1>4 DEF Advance
<1>5. CASE \E k \in Looker : \E v \in Visible : Serve(k, v)
  <2>1. PICK k \in Looker, v \in Visible : Serve(k, v)
    BY <1>5
  <2>2. /\ look[k] \in Look /\ look' = [look EXCEPT ![k] = look'[k]] /\ sess' = sess
        /\ look'[k].op = look[k].op /\ look'[k].gen = look[k].gen
    BY <2>1, Served
  <2>3. b = k \/ look'[b] = look[b]
    BY <1>0, <2>2
  <2> QED BY <1>2, <1>3, <2>2, <2>3, LookFacts
<1>6. ASSUME NEW c \in Client, NEW op \in {"login", "conference", "join"}, NEW g \in Gens,
             op = "login" => g \in Issued, Hit(c, op, g) \/ Miss(c, op, g)
      PROVE  SessOK(b) /\ LookOK(b)
  <2>1. CASE Hit(c, op, g)
    <3>1. Decide(c, op, g, cache) /\ look' = look
      BY <2>1 DEF Hit
    <3>2. sess'[b] \in {sess[b], NoGen} \/ (op = "login" /\ sess'[b] = g)
      BY <3>1, Decided
    <3>3. SessOK(b)
      BY <1>2, <1>6, <3>2 DEF SessOK
    <3> QED BY <1>3, <3>1, <3>3
  <2>2. CASE Miss(c, op, g)
    <3>1. /\ look' = [look EXCEPT ![c] = look'[c]] /\ look'[c].op = op /\ look'[c].gen = g
          /\ sess' = sess
      BY <2>2, Asked
    <3>2. b = c \/ look'[b] = look[b]
      BY <1>0, <3>1
    <3>3. LookOK(b)
      BY <1>3, <1>6, <3>1, <3>2 DEF LookOK
    <3> QED BY <1>2, <3>1, <3>3
  <2> QED BY <1>6, <2>1, <2>2
<1>7. CASE \E c \in Client, g \in Issued : Hit(c, "login", g) \/ Miss(c, "login", g)
  BY <1>0, <1>6, <1>7
<1>8. CASE \E c \in Client, op \in {"conference", "join"} :
             Hit(c, op, Versions[1].gen) \/ Miss(c, op, Versions[1].gen)
  BY <1>6, <1>8, IssuedType
<1>9. CASE \E c \in Client : \E s \in Replies(c) : Resume(c, s)
  <2>0. PICK c \in Client : \E s \in Replies(c) : Resume(c, s)
    BY <1>9
  <2>1. PICK s \in Replies(c) : Resume(c, s)
    BY <2>0
  <2>2. /\ Ends(look[c], s) /\ Decide(c, look[c].op, look[c].gen, Best(look[c], s))
        /\ look' = [look EXCEPT ![c] = NoLook]
    BY <2>1 DEF Resume
  <2>3. look[c] # NoLook
    BY <2>2 DEF Ends
  <2>4. \/ sess'[b] \in {sess[b], NoGen}
        \/ look[c].op = "login" /\ sess'[b] = look[c].gen
    BY <2>2, Decided
  <2>5. SessOK(b)
    BY <1>2, <2>3, <2>4 DEF SessOK, Tokens
  <2>6. look'[b] = look[b] \/ look'[b] = NoLook
    BY <1>0, <2>2
  <2> QED BY <1>3, <2>5, <2>6
<1>10. CASE \E s \in Replies(Sweeper) : SweepEnds(s)
  <2>1. sess' = sess /\ look' = [look EXCEPT ![Sweeper] = NoLook]
    BY <1>10 DEF SweepEnds
  <2>2. look'[b] = look[b] \/ look'[b] = NoLook
    BY <1>0, <2>1
  <2> QED BY <1>2, <1>3, <2>1, <2>2
<1>11. CASE (\E c \in Client : View(c)) \/ Create \/ Evict \/ Tick \/ UNCHANGED vars
  BY <1>2, <1>3, <1>11 DEF View, Create, Evict, Tick, vars
<1>12. CASE Leave
  <2>1. sess' = sess /\ look' = [look EXCEPT ![Sweeper] = look'[Sweeper]]
    BY <1>12, Left
  <2>2. look'[b] = look[b]
    BY <1>0, <2>1, ClientAssumption DEF Sweeper
  <2> QED BY <1>2, <1>3, <2>1, <2>2
<1>13. CASE Sweep
  <2>1. sess' = sess /\ look' = [look EXCEPT ![Sweeper] = look'[Sweeper]]
    BY <1>13, Swept
  <2>2. look'[b] = look[b]
    BY <1>0, <2>1, ClientAssumption DEF Sweeper
  <2> QED BY <1>2, <1>3, <2>1, <2>2
<1> QED BY <1>4, <1>5, <1>7, <1>8, <1>9, <1>10, <1>11, <1>12, <1>13 DEF Next

-----------------------------------------------------------------------------
(* Deleted rooms *)

\* A deleted room has a predecessor, whose end is known.
LEMMA SinceType ==
  ASSUME TypeOK, Versions[ver].status = "deleted"
  PROVE  /\ ver > 1 /\ ver - 1 \in 1 .. ver /\ sup[ver - 1] \in Nat
         /\ Since \in Nat /\ Since >= room /\ Since >= sup[ver - 1] + Lag
<1>1. ver \in DOMAIN Versions /\ life \in Lives /\ room \in Nat
  BY DEF TypeOK
<1>2. ver > 1
  BY <1>1, RecordAssumption DEF Versions
<1>3. ver \in Nat /\ ver <= Len(Versions) /\ DOMAIN Versions = 1 .. Len(Versions) /\ Lag \in Nat
      /\ Len(Versions) \in Nat
  BY LifeFacts
<1>4. ver - 1 \in 1 .. ver /\ ver - 1 \in DOMAIN Versions
  BY <1>2, <1>3
<1>5. sup[ver - 1] \in Nat
  BY <1>4 DEF TypeOK
<1> QED BY <1>1, <1>2, <1>3, <1>4, <1>5 DEF Since

\* When all signers know, the answer is that the room is deleted.
LEMMA KnownDeleted ==
  ASSUME TypeOK, Times, Versions[ver].status = "deleted", NEW v \in Visible,
         now > sup[ver - 1] + Lag
  PROVE  Reply(v).status = "deleted"
<1>1. ver \in Nat /\ now \in Nat /\ Lag \in Nat /\ 1 .. ver \subseteq DOMAIN Versions
      /\ sup \in [DOMAIN Versions -> Nat]
  BY LifeFacts DEF TypeOK
<1>2. ver - 1 \in 1 .. ver /\ sup[ver - 1] \in Nat
  BY SinceType
<1>3. v \in 1 .. ver /\ (v = ver \/ now <= sup[v] + Lag)
  BY DEF Visible
<1>4. v = ver
  <2> SUFFICES ASSUME v # ver PROVE FALSE
    OBVIOUS
  <2>1. v \in Nat /\ v <= ver - 1 /\ sup[v] \in Nat
    BY <1>1, <1>3
  <2>2. sup[v] <= sup[ver - 1]
    <3>1. CASE v = ver - 1
      BY <1>2, <3>1
    <3>2. CASE v < ver - 1
      BY <1>1, <1>2, <1>3, <3>2 DEF Times
    <3> QED BY <1>1, <2>1, <3>1, <3>2
  <2> QED BY <1>1, <1>2, <1>3, <2>1, <2>2
<1> QED BY <1>4 DEF Reply

LEMMA NextClosing ==
  ASSUME TypeOK, Times, Sources, Closing, [Next]_vars
  PROVE  Closing'
<1>0. /\ now \in Nat /\ room \in Nat /\ nextSweep \in Nat /\ ver \in Nat /\ Sweeper \in Looker
      /\ look \in [Looker -> Look \cup {NoLook}] /\ SweepEvery \in Nat
      /\ Versions' = Versions /\ Lag' = Lag /\ MayFail' = MayFail /\ Lag \in Nat /\ TypeOK'
      /\ nextSweep <= now + SweepEvery
  BY LifeFacts, NextType, SameLife, TimesAssumption DEF TypeOK, Looker, Times
<1> DEFINE Soon == nextSweep <= Since + SweepEvery
           Now == /\ look[Sweeper] # NoLook /\ look[Sweeper].op = "sweep"
                  /\ Since < look[Sweeper].at /\ look[Sweeper].at <= Since + SweepEvery
                  /\ look[Sweeper].reply # NoState => look[Sweeper].reply.status = "deleted"
<1>1. SUFFICES ASSUME ~MayFail, room' # 0, Versions[ver'].status = "deleted"
               PROVE  Soon' \/ Now'
  BY <1>0 DEF Closing
<1>2. ASSUME room = room', ver' = ver PROVE Soon \/ Now
  BY <1>1, <1>2 DEF Closing
<1>3. ASSUME UNCHANGED <<room, ver, sup, nextSweep>>, look'[Sweeper] = look[Sweeper]
      PROVE  Soon' \/ Now'
  <2>1. Since' = Since
    BY <1>0, <1>3 DEF Since
  <2> QED BY <1>2, <1>3, <2>1
<1>4. CASE Advance
  <2>1. /\ ver' = ver + 1 /\ sup' = [sup EXCEPT ![ver] = now]
        /\ UNCHANGED <<now, look, room, nextSweep>>
    BY <1>4 DEF Advance
  <2>2. sup'[ver' - 1] = now
    BY <1>0, <2>1 DEF TypeOK
  <2>3. Since' = IF room > now + Lag THEN room ELSE now + Lag
    BY <1>0, <2>1, <2>2 DEF Since
  <2>4. Since' \in Nat /\ Since' >= now
    BY <1>0, <2>3
  <2>5. nextSweep' <= Since' + SweepEvery
    <3>1. \A x \in Nat : x >= now => nextSweep <= x + SweepEvery
      BY <1>0
    <3>2. nextSweep <= Since' + SweepEvery
      BY <2>4, <3>1, Zenon
    <3> QED BY <2>1, <3>2
  <2> QED BY <2>5
<1>5. CASE \E k \in Looker : \E v \in Visible : Serve(k, v)
  <2>1. PICK k \in Looker, v \in Visible : Serve(k, v)
    BY <1>5
  <2>2. /\ look[k] \in Look /\ look' = [look EXCEPT ![k] = look'[k]]
        /\ look'[k] \in Look /\ look'[k].reply = Reply(v)
        /\ look'[k].op = look[k].op /\ look'[k].at = look[k].at
        /\ UNCHANGED <<life, now, ver, sup, room, nextSweep>>
    BY <2>1, Served
  <2>3. CASE k # Sweeper
    BY <1>0, <1>3, <2>2, <2>3
  <2>4. CASE k = Sweeper
    <3>1. Since' = Since
      BY <1>0, <2>2 DEF Since
    <3>2. CASE Soon
      BY <2>2, <3>1, <3>2
    <3>3. CASE Now
      <4>1. Since \in Nat /\ Since >= sup[ver - 1] + Lag /\ sup[ver - 1] \in Nat
        BY <1>1, <2>2, SinceType
      <4>2. look[Sweeper].at \in Nat /\ look[Sweeper].at <= now
        BY <2>2, <2>4, LookFacts DEF Sources, InFlight
      <4>3. Reply(v).status = "deleted"
        BY <1>0, <1>1, <2>2, <3>3, <4>1, <4>2, KnownDeleted
      <4> QED BY <2>2, <2>4, <3>1, <3>3, <4>3, LookFacts
    <3> QED BY <1>2, <2>2, <3>2, <3>3
  <2> QED BY <2>3, <2>4
<1>6. ASSUME NEW c \in Client, look' = [look EXCEPT ![c] = look'[c]],
             UNCHANGED <<room, ver, sup, nextSweep>>
      PROVE  Soon' \/ Now'
  <2>1. look'[Sweeper] = look[Sweeper]
    BY <1>0, <1>6, ClientAssumption DEF Sweeper
  <2> QED BY <1>3, <1>6, <2>1
<1>7. ASSUME NEW c \in Client, NEW op \in {"login", "conference", "join"}, NEW g \in Gens,
             Hit(c, op, g) \/ Miss(c, op, g)
      PROVE  Soon' \/ Now'
  <2>1. CASE Hit(c, op, g)
    BY <1>3, <2>1 DEF Hit
  <2>2. CASE Miss(c, op, g)
    BY <1>6, <2>2, Asked
  <2> QED BY <1>7, <2>1, <2>2
<1>8. CASE \E c \in Client, g \in Issued : Hit(c, "login", g) \/ Miss(c, "login", g)
  BY <1>7, <1>8, IssuedType
<1>9. CASE \E c \in Client, op \in {"conference", "join"} :
             Hit(c, op, Versions[1].gen) \/ Miss(c, op, Versions[1].gen)
  BY <1>7, <1>9, IssuedType
<1>10. CASE \E c \in Client : \E s \in Replies(c) : Resume(c, s)
  <2>1. PICK c \in Client : look' = [look EXCEPT ![c] = NoLook] /\ UNCHANGED <<room, ver, sup, nextSweep>>
    BY <1>10 DEF Resume
  <2>2. look'[c] = NoLook
    BY <1>0, <2>1 DEF Looker
  <2> QED BY <1>6, <2>1, <2>2
<1>11. CASE \E s \in Replies(Sweeper) : SweepEnds(s)
  <2>1. PICK s \in Replies(Sweeper) : SweepEnds(s)
    BY <1>11
  <2>2. /\ Ends(look[Sweeper], s) /\ UNCHANGED <<ver, sup, nextSweep>>
        /\ IF s.status = "deleted" /\ look[Sweeper].op = "sweep" THEN room' = 0 ELSE room' = room
    BY <2>1 DEF SweepEnds
  <2>3. s # NoState /\ s = look[Sweeper].reply
    BY <1>0, <1>1, <2>2, EndsType
  <2>4. ~Now /\ room' = room
    BY <1>1, <2>2, <2>3
  <2>5. Since' = Since
    BY <1>0, <2>2, <2>4 DEF Since
  <2> QED BY <1>2, <2>2, <2>4, <2>5
<1>12. CASE (\E c \in Client : View(c)) \/ Evict \/ Tick \/ UNCHANGED vars
  BY <1>3, <1>12 DEF View, Evict, Tick, vars
<1>13. CASE Create
  <2>1. room' = now /\ UNCHANGED <<ver, sup, look, nextSweep>>
    BY <1>1, <1>13 DEF Create
  <2>2. sup[ver - 1] \in Nat
    BY <1>1, <2>1, SinceType
  <2>3. Since' = IF now > sup[ver - 1] + Lag THEN now ELSE sup[ver - 1] + Lag
    BY <1>0, <2>1 DEF Since
  <2>4. Since' \in Nat /\ Since' >= now
    BY <1>0, <2>2, <2>3
  <2>5. nextSweep' <= Since' + SweepEvery
    <3>1. \A x \in Nat : x >= now => nextSweep <= x + SweepEvery
      BY <1>0
    <3>2. nextSweep <= Since' + SweepEvery
      BY <2>4, <3>1, Zenon
    <3> QED BY <2>1, <3>2
  <2> QED BY <2>5
<1>14. CASE Leave
  BY <1>1, <1>14 DEF Leave
<1>15. CASE Sweep
  <2>1. /\ now = nextSweep /\ nextSweep' = now + SweepEvery /\ UNCHANGED <<now, ver, sup, room>>
        /\ look'[Sweeper] \in Look /\ look'[Sweeper].op = "sweep"
        /\ look'[Sweeper].at = now /\ look'[Sweeper].reply = NoState
    BY <1>1, <1>15, Swept DEF Sweep
  <2>2. Since' = Since /\ Since \in Nat
    BY <1>0, <1>1, <2>1, SinceType DEF Since
  <2>3. ~Now
    <3> SUFFICES ASSUME Now PROVE FALSE
      OBVIOUS
    <3>1. look[Sweeper].at \in Nat
      BY <1>0, LookFacts
    <3>2. look[Sweeper].at + SweepEvery = nextSweep /\ now <= look[Sweeper].at + Timeout
      BY <1>0 DEF Times, Sources, InFlight
    <3> QED BY <1>0, <2>1, <3>1, <3>2, TimesAssumption
  <2>4. Soon
    BY <1>2, <2>1, <2>3
  <2>5. CASE now <= Since
    BY <1>0, <2>1, <2>2, <2>5
  <2>6. CASE now > Since
    <3>1. look'[Sweeper] # NoLook
      BY <2>1, <1>0, SameLife, NextType DEF Look, NoLook
    <3> QED BY <1>0, <2>1, <2>2, <2>4, <2>6, <3>1
  <2> QED BY <1>0, <2>2, <2>5, <2>6
<1> QED BY <1>4, <1>5, <1>8, <1>9, <1>10, <1>11, <1>12, <1>13, <1>14, <1>15 DEF Next

LEMMA ClosingCloses ==
  ASSUME IInv
  PROVE  DeletedCloses
<1> SUFFICES ASSUME ~MayFail, room # 0, Versions[ver].status = "deleted"
             PROVE  now <= Since + SweepEvery + Timeout
  BY DEF DeletedCloses, Since
<1>1. /\ now \in Nat /\ nextSweep \in Nat /\ SweepEvery \in Nat /\ Timeout \in Nat
      /\ now <= nextSweep /\ Since \in Nat /\ Sweeper \in Looker
  BY SinceType, TimesAssumption DEF IInv, TypeOK, Times, Looker
<1>2. CASE nextSweep <= Since + SweepEvery
  BY <1>1, <1>2
<1>3. CASE look[Sweeper] # NoLook /\ look[Sweeper].at <= Since + SweepEvery
  <2>1. look[Sweeper].at \in Nat
    BY <1>1, <1>3, LookFacts DEF IInv, TypeOK
  <2>2. now <= look[Sweeper].at + Timeout
    BY <1>1, <1>3 DEF IInv, Sources, InFlight
  <2> QED BY <1>1, <1>3, <2>1, <2>2
<1> QED BY <1>2, <1>3 DEF IInv, Closing

-----------------------------------------------------------------------------
(* Replaced links *)

\* GrantedUntil is at least the end of any version that granted the generation.
LEMMA Granted ==
  ASSUME TypeOK, Times, NEW g, NEW v \in 1 .. ver, Grants(v, g)
  PROVE  /\ GrantedUntil(g) \in Nat /\ sup[v] \in Nat /\ sup[v] <= GrantedUntil(g)
         /\ v = ver => GrantedUntil(g) = now
<1> DEFINE vs == {u \in 1 .. ver : Grants(u, g)}
           T == {0} \cup {sup[u] : u \in vs}
<1>1. now \in Nat /\ \A u \in 1 .. ver : sup[u] \in Nat /\ sup[u] <= now
  <2>1. 1 .. ver \subseteq DOMAIN Versions
    BY LifeFacts
  <2> QED BY <2>1 DEF TypeOK, Times
<1>2. GrantedUntil(g) = IF ver \in vs THEN now ELSE CHOOSE t \in T : \A u \in vs : sup[u] <= t
  BY DEF GrantedUntil
<1>3. v \in vs /\ vs \subseteq 1 .. ver
  OBVIOUS
<1> HIDE DEF vs
<1>4. CASE ver \in vs
  BY <1>1, <1>2, <1>3, <1>4
<1>5. CASE ver \notin vs
  <2>1. T \in SUBSET (0 .. now) /\ T # {}
    BY <1>1, <1>3
  <2>2. \A u \in vs : sup[u] \in T
    OBVIOUS
  <2> HIDE DEF T
  <2>3. \E t \in T : \A x \in T : x <= t
    BY <1>1, <2>1, HasMax
  <2>4. \E t \in T : \A u \in vs : sup[u] <= t
    BY <2>2, <2>3
  <2> DEFINE t == CHOOSE t \in T : \A u \in vs : sup[u] <= t
  <2>5. t \in T /\ \A u \in vs : sup[u] <= t
    BY <2>4
  <2>6. GrantedUntil(g) = t
    BY <1>2, <1>5
  <2> HIDE DEF t
  <2> QED BY <1>1, <1>3, <1>5, <2>1, <2>5, <2>6
<1> QED BY <1>4, <1>5

\* An issued generation was granted by some version.
LEMMA IssuedGranted ==
  ASSUME TypeOK, Legacy, NEW g \in Issued
  PROVE  \E u \in 1 .. ver : Grants(u, g)
<1>1. PICK v \in 1 .. ver : Versions[v].gen = g
  BY DEF Issued
<1>2. v \in DOMAIN Versions /\ life \in Lives /\ ver \in Nat
  BY LifeFacts DEF TypeOK
<1>3. CASE Versions[v].status = "deleted"
  <2>1. v > 1 /\ Versions[v - 1].status # "deleted" /\ Versions[v - 1].gen = g
    BY <1>1, <1>2, <1>3, RecordAssumption DEF Versions
  <2>2. v - 1 \in 1 .. ver
    BY <1>1, <1>2, <2>1
  <2>3. Versions[v - 1].status \in {"none", "active"}
    BY <2>1, <2>2, LifeFacts
  <2>4. Grants(v - 1, g)
    BY <2>1, <2>3 DEF Grants
  <2> QED BY <2>2, <2>4
<1>4. CASE Versions[v].status # "deleted"
  <2>1. Versions[v].status \in {"none", "active"}
    BY <1>2, <1>4, LifeFacts
  <2> QED BY <1>1, <2>1 DEF Grants
<1> QED BY <1>3, <1>4

\* A state that lets a session in is not older than its generation allows.
LEMMA AllowedGranted ==
  ASSUME TypeOK, Times, NEW s \in State, NEW d \in Nat, Known(life, now, ver, sup, s, d),
         NEW g \in Issued, g # NoGen, Allowed(s, g)
  PROVE  /\ GrantedUntil(g) \in Nat
         /\ GrantedUntil(g) = now \/ s.at <= GrantedUntil(g) + Lag + d
<1>1. s.at \in Nat /\ s # NoState
  BY StateFacts
<1>2. PICK v \in 1 .. ver : /\ v = ver \/ s.at <= sup[v] + Lag + d
                            /\ s.gen = Versions[v].gen
                            /\ s.status = "active" => Versions[v].status = "active"
                            /\ ~HasRecord(s) => Versions[v].status = "none"
  BY <1>1 DEF Known, Lag, Versions
<1>3. Lag \in Nat /\ ver \in Nat /\ 1 .. ver \subseteq DOMAIN Versions /\ life \in Lives
  BY LifeFacts DEF TypeOK
<1>4. CASE s.status = "active"
  <2>1. Grants(v, g)
    BY <1>2, <1>4 DEF Allowed, GenMatches, Grants
  <2>2. /\ GrantedUntil(g) \in Nat /\ sup[v] \in Nat /\ sup[v] <= GrantedUntil(g)
        /\ v = ver => GrantedUntil(g) = now
    BY <2>1, Granted
  <2> QED BY <1>1, <1>2, <1>3, <2>2
<1>5. CASE s.status # "active"
  <2>1. Legacy /\ ~HasRecord(s)
    BY <1>1, <1>5 DEF Allowed, Usable
  <2>2. v = 1
    BY <1>2, <1>3, <2>1, RecordAssumption DEF Versions
  <2>3. PICK u \in 1 .. ver : Grants(u, g)
    BY <2>1, IssuedGranted
  <2>4. /\ GrantedUntil(g) \in Nat /\ sup[u] \in Nat /\ sup[u] <= GrantedUntil(g)
        /\ u = ver => GrantedUntil(g) = now
    BY <2>3, Granted
  <2>5. CASE u = ver
    BY <2>4, <2>5
  <2>6. CASE u # ver
    <3>1. sup[v] \in Nat /\ sup[v] <= sup[u] /\ v # ver
      <4>1. sup[v] \in Nat
        BY <1>3 DEF TypeOK
      <4>2. v = u \/ (v < u /\ u < ver)
        BY <1>3, <2>2, <2>6
      <4> QED BY <1>3, <2>2, <2>4, <2>6, <4>1, <4>2 DEF Times
    <3> QED BY <1>1, <1>2, <1>3, <2>4, <3>1
  <2> QED BY <2>5, <2>6
<1> QED BY <1>4, <1>5

\* Without a state nobody is let in once a v1 room was seen to have a record.
LEMMA NoneRefused ==
  ASSUME TypeOK, Retired, Times, Legacy => seen
  PROVE  ~Usable(NoState)
<1>1. NoState.status = "none"
  BY DEF NoState
<1>2. now \in Nat /\ now >= 1 /\ NameEnd \in Nat /\ migrated \in Nat
  BY LifeFacts DEF TypeOK, Times
<1> QED BY <1>1, <1>2 DEF Usable, Retired

LEMMA NextRefused ==
  ASSUME IInv, [Next]_vars, Ttl # 0,
         NEW c \in joined' \ joined, sess[c] # NoGen, Legacy => seen
  PROVE  now < GrantedUntil(sess[c]) + Staleness
<1>0. /\ TypeOK /\ Times /\ Sources /\ Tokens /\ Retired
      /\ Ttl \in Nat /\ Grace \in Nat /\ Timeout \in Nat /\ Ttl <= Grace
      /\ Lag \in Nat /\ now \in Nat
  BY LifeFacts, TimesAssumption DEF IInv, TypeOK
<1> DEFINE G == GrantedUntil(sess[c])
           Slack == IF MayFail THEN Grace + Timeout ELSE Ttl
<1>1. Staleness = Lag + Timeout + Slack
  BY DEF Staleness
<1>2. Slack \in Nat /\ Slack >= Ttl /\ Slack > 0
  BY <1>0
<1>3. ASSUME NEW s \in State, NEW d \in Nat, Known(life, now, ver, sup, s, d), c \in Client,
             Allowed(s, sess[c]), NEW a \in Nat, now <= s.at + a, d + a < Timeout + Slack
      PROVE  now < G + Staleness
  <2>1. sess[c] \in Issued
    BY <1>0, <1>3 DEF Tokens
  <2>2. G \in Nat /\ (G = now \/ s.at <= G + Lag + d)
    BY <1>0, <1>3, <2>1, AllowedGranted
  <2>3. s.at \in Nat
    BY <1>3, StateFacts
  <2> HIDE DEF G, Slack
  <2> QED BY <1>0, <1>1, <1>2, <1>3, <2>2, <2>3
<1>4. ASSUME NEW b \in Client, NEW op, NEW g, Hit(b, op, g)
      PROVE  now < G + Staleness
  <2>1. /\ cache # NoState /\ now - cache.at < Ttl /\ Decide(b, op, g, cache)
    BY <1>4 DEF Hit, IsFresh
  <2>2. c = b /\ Allowed(cache, sess[c])
    BY <1>0, <2>1, Decided
  <2>3. cache \in State
    BY <1>0, <2>1 DEF TypeOK
  <2>4. cache.at \in Nat /\ Known(life, now, ver, sup, cache, Timeout)
    BY <1>0, <2>3, StateFacts DEF Sources
  <2>5. now <= cache.at + (Ttl - 1) /\ Ttl - 1 \in Nat /\ Timeout + (Ttl - 1) < Timeout + Slack
    BY <1>0, <1>2, <2>1, <2>4
  <2> HIDE DEF G, Slack
  <2> QED BY <1>0, <1>3, <2>2, <2>3, <2>4, <2>5
<1>5. ASSUME NEW b \in Client, NEW s, Resume(b, s)
      PROVE  now < G + Staleness
  <2> DEFINE q == look[b]
             r == Best(q, s)
  <2>1. b \in Looker /\ Ends(q, s) /\ Decide(b, q.op, q.gen, r)
    BY <1>5 DEF Resume, Looker
  <2>2. c = b /\ Allowed(r, sess[c])
    BY <1>0, <2>1, Decided
  <2>3. /\ q \in Look /\ s \in State \cup {NoState} /\ (s # NoState => s = q.reply)
        /\ (s = NoState => MayFail)
    BY <1>0, <2>1, EndsType
  <2>4. /\ q # NoLook /\ q.at \in Nat /\ q.cached \in State \cup {NoState}
        /\ InFlight(life, now, ver, sup, q)
    BY <1>0, <2>1, <2>3, LookFacts DEF Sources
  <2>5. now <= q.at + Timeout
    BY <2>4 DEF InFlight
  <2>6. CASE s # NoState
    <3>1. r = s /\ s \in State /\ s = q.reply
      BY <2>3, <2>6 DEF Best
    <3>2. Known(life, now, ver, sup, s, 0) /\ q.at <= s.at /\ s.at \in Nat
      BY <2>4, <2>6, <3>1, StateFacts DEF InFlight
    <3>3. now <= s.at + Timeout /\ 0 + Timeout < Timeout + Slack
      BY <1>0, <1>2, <2>4, <2>5, <3>2
    <3> HIDE DEF G, Slack, q, r
    <3> QED BY <1>0, <1>3, <2>2, <3>1, <3>2, <3>3
  <2>7. CASE s = NoState /\ q.cached # NoState
    <3>1. r = q.cached /\ r \in State /\ MayFail
      BY <2>3, <2>4, <2>7 DEF Best
    <3>2. Known(life, now, ver, sup, r, Timeout) /\ q.at < r.at + Grace /\ r.at \in Nat
      BY <2>4, <2>7, <3>1, StateFacts DEF InFlight
    <3>3. /\ Grace # 0 /\ now <= r.at + (Grace - 1 + Timeout) /\ Grace - 1 + Timeout \in Nat
          /\ Timeout + (Grace - 1 + Timeout) < Timeout + Slack
      BY <1>0, <2>4, <2>5, <3>1, <3>2
    <3> HIDE DEF G, Slack, q, r
    <3> QED BY <1>0, <1>3, <2>2, <3>1, <3>2, <3>3
  <2>8. CASE s = NoState /\ q.cached = NoState
    <3>1. r = NoState
      BY <2>8 DEF Best
    <3>2. ~Usable(NoState)
      BY <1>0, NoneRefused
    <3> QED BY <2>2, <3>1, <3>2 DEF Allowed
  <2> QED BY <2>6, <2>7, <2>8
<1>6. CASE \E b \in Client, g \in Issued : Hit(b, "login", g) \/ Miss(b, "login", g)
  BY <1>4, <1>6 DEF Miss
<1>7. CASE \E b \in Client, op \in {"conference", "join"} :
             Hit(b, op, Versions[1].gen) \/ Miss(b, op, Versions[1].gen)
  BY <1>4, <1>7 DEF Miss
<1>8. CASE \E b \in Client : \E s \in Replies(b) : Resume(b, s)
  BY <1>5, <1>8
<1>9. CASE \E b \in Client : View(b)
  BY <1>9 DEF View
<1>10. Advance \/ (\E k \in Looker : \E v \in Visible : Serve(k, v))
         \/ (\E s \in Replies(Sweeper) : SweepEnds(s)) \/ Create \/ Leave \/ Sweep \/ Evict
         \/ Tick \/ UNCHANGED vars => joined' \subseteq joined
  BY DEF Advance, Serve, SweepEnds, Create, Leave, Sweep, Evict, Tick, vars
<1> QED BY <1>6, <1>7, <1>8, <1>9, <1>10 DEF Next

-----------------------------------------------------------------------------
(* The theorems *)

LEMMA InitIInv == Init => IInv
<1> SUFFICES ASSUME Init PROVE IInv
  OBVIOUS
<1>1. /\ life \in Lives /\ now = 1 /\ ver = 1 /\ sup = [v \in DOMAIN Versions |-> 0]
      /\ cache = NoState /\ migrated = 0 /\ look = [k \in Looker |-> NoLook]
      /\ sess = [c \in Client |-> NoGen] /\ room = 0 /\ joined = {} /\ nextSweep = 1 + SweepEvery
  BY DEF Init
<1>2. wanted \in BOOLEAN /\ seen \in BOOLEAN /\ ~seen
  BY Zenon DEF Init
<1>3. Versions \in Seq([status : {"none", "active", "deleted"}, gen : Nat, expires : Nat])
      /\ Versions # <<>> /\ NameEnd \in Nat
  BY <1>1, LivesAssumption DEF Versions, NameEnd
<1>4. 1 \in DOMAIN Versions
  BY <1>3
<1>5. TypeOK
  BY <1>1, <1>2, <1>4, TimesAssumption DEF TypeOK
<1>6. Times
  BY <1>1, TimesAssumption DEF Times, Looker
<1>7. Sources
  BY <1>1 DEF Sources, Known, InFlight
<1>8. Tokens
  BY <1>1 DEF Tokens, Looker
<1>9. Retired
  BY <1>1, <1>2 DEF Retired
<1>10. Closing
  BY <1>1 DEF Closing
<1> QED BY <1>5, <1>6, <1>7, <1>8, <1>9, <1>10 DEF IInv

LEMMA SpecIInv == Spec => []IInv
<1>1. IInv /\ [Next]_vars => IInv'
  BY NextType, NextTimes, NextSources, NextTokens, NextRetired, NextClosing DEF IInv
<1> QED BY InitIInv, <1>1, PTL DEF Spec

\* The module's cache, sessions and lookups keep their types: nothing that a lookup
\* brings back, however late, is anything but a state of the room.
THEOREM Typed == Spec => []TypeOK
<1>1. IInv => TypeOK
  BY DEF IInv
<1> QED BY SpecIInv, <1>1, PTL

\* For every life of a room and every configuration: once some lookup has found the
\* record of a v1 room, its signature alone never opens it again while lookups fail,
\* although the sweep forgets rooms (migrated, room_usable, sweep).
THEOREM NeverFallsBack == Spec => []NoFallback
<1>1. IInv => NoFallback
  BY NoneRefused DEF IInv, NoFallback
<1> QED BY SpecIInv, <1>1, PTL

\* For every lookup_timeout below the sweep_interval: a deleted room is closed within
\* one sweep interval and one lookup of when it is open and all signers know (sweep).
THEOREM ClosesDeleted == Spec => []DeletedCloses
<1>1. IInv => DeletedCloses
  BY ClosingCloses
<1> QED BY SpecIInv, <1>1, PTL

\* For all times of the configuration but a lookup_ttl of zero, any number of sessions
\* and any replication lag: no session enters with a link that was replaced, or whose
\* room was deleted, longer than Staleness ago (room_state, fetch_state, verify_token,
\* session_valid).
THEOREM RefusesReplaced ==
  ASSUME Ttl # 0
  PROVE  Spec => ReplacedRefused
<1>1. ASSUME IInv, [Next]_vars
      PROVE  [\A c \in joined' \ joined : sess[c] # NoGen /\ (Legacy => seen) =>
                now < GrantedUntil(sess[c]) + Staleness]_vars
  BY <1>1, NextRefused
<1>2. IInv /\ [Next]_vars =>
        [\A c \in joined' \ joined : sess[c] # NoGen /\ (Legacy => seen) =>
           now < GrantedUntil(sess[c]) + Staleness]_vars
  BY <1>1
<1> QED BY SpecIInv, <1>2, PTL DEF Spec, ReplacedRefused
=============================================================================
