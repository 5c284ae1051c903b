-------------------------- MODULE CloudflareProofs --------------------------
(***************************************************************************)
(* CloudflareZone implements ZoneGoal: for all zones, lists of records and *)
(* page sizes, whatever fails and whoever interferes, a request that is    *)
(* carried out brings the zone closer to the list.  A run that nobody      *)
(* interferes with has none of its requests refused, takes no name out of  *)
(* service that shall be in it, and reports success only when the zone is  *)
(* what the list wants.                                                    *)
(***************************************************************************)
EXTENDS CloudflareZone, FiniteSetTheorems, TLAPS

-----------------------------------------------------------------------------
(* Records *)

LEMMA PureFacts ==
  ASSUME NEW r
  PROVE  Key(Pure(r)) = Key(r) /\ Pure(r).name = r.name /\ Pure(Pure(r)) = Pure(r)
BY DEF Pure, Key

LEMMA WithIdFacts ==
  ASSUME NEW r, NEW i
  PROVE  /\ Pure(WithId(r, i)) = Pure(r) /\ Key(WithId(r, i)) = Key(r)
         /\ WithId(r, i).id = i /\ WithId(r, i).name = r.name
         /\ WithId(WithId(r, i), i) = WithId(r, i)
BY DEF Pure, Key, WithId

LEMMA PureKey ==
  ASSUME NEW r, NEW s, Pure(r) = Pure(s)
  PROVE  Key(r) = Key(s)
BY PureFacts, Zenon

LEMMA GoalKey ==
  ASSUME NEW r
  PROVE  Goal!Key(r) = Key(r)
BY DEF Goal!Key, Key

LEMMA ViewOf ==
  ASSUME NEW z, NEW r
  PROVE  r \in View(z) <=> \E e \in z : r = Pure(e)
BY DEF View

-----------------------------------------------------------------------------
(* What diff computes *)

\* A list wants at most one record with a key.
LEMMA WantedOnce ==
  ASSUME NEW list \in Lists, NEW v \in Wanted(list), NEW w \in Wanted(list)
  PROVE  (Key(v) = Key(w) => v = w) /\ Pure(v) = v
<1> DEFINE Last(j) == /\ list[j].salt_managed
                      /\ \A k \in DOMAIN list :
                           k > j /\ list[k].salt_managed => Key(list[k]) # Key(list[j])
<1>1. PICK i \in DOMAIN list : Last(i) /\ v = Pure(list[i])
  BY DEF Wanted
<1>2. PICK j \in DOMAIN list : Last(j) /\ w = Pure(list[j])
  BY DEF Wanted
<1>3. i \in Nat /\ j \in Nat
  BY ListAssumption
<1>4. Key(v) = Key(list[i]) /\ Key(w) = Key(list[j]) /\ Pure(v) = v
  BY <1>1, <1>2, PureFacts
<1>5. ASSUME Key(v) = Key(w) PROVE v = w
  <2>1. ~(i < j) /\ ~(j < i)
    BY <1>1, <1>2, <1>3, <1>4, <1>5
  <2> QED BY <2>1, <1>1, <1>2, <1>3
<1> QED BY <1>4, <1>5

\* An operation that brings a zone closer to a list...
Sound(op, list) ==
  \/ op.action = "add" /\ op.id = 0 /\ op.record \in Wanted(list)
  \/ /\ op.action = "remove" /\ op.id \in Id
     /\ op.record.name \notin Excluded \cup Skipped(list)
     /\ \A w \in Wanted(list) : Key(w) # Key(op.record)
  \/ op.action = "update" /\ op.id \in Id /\ op.record \in Wanted(list)

\* ... provided that it meets the record e.
Meets(op, e) ==
  /\ op.action = "remove" => Pure(e) = op.record
  /\ op.action = "update" => Key(e) = Key(op.record) /\ Pure(e) # op.record

\* A picture of the zone that is right about the records it has, as long as they
\* exist and nobody touches them.
Picture(read) ==
  /\ \A f \in read : /\ f.id \in Id /\ f = WithId(f, f.id) /\ f.name \notin Excluded
                     /\ \A e \in zone : e.id = f.id /\ e.id \notin touched => e = f
  /\ \A f, g \in read : f.id = g.id => f = g

LEMMA DiffSound ==
  ASSUME NEW list \in Lists, NEW read, Picture(read), NEW op \in Diff(read, list)
  PROVE  /\ Sound(op, list)
         /\ op.id # 0 => \E f \in read : f.id = op.id /\ Meets(op, f)
<1>1. CASE op \in Additions(read, list)
  BY <1>1 DEF Additions, Sound
<1>2. CASE op \in Removals(read, list)
  <2>1. PICK f \in read : /\ op = [action |-> "remove", record |-> Pure(f), id |-> f.id]
                          /\ \A w \in Wanted(list) : Key(w) # Key(f)
                          /\ f.name \notin Skipped(list)
    BY <1>2 DEF Removals, Existing
  <2>2. f.id \in Id /\ f.name \notin Excluded
    BY DEF Picture
  <2>3. op.action = "remove" /\ op.record = Pure(f) /\ op.id = f.id
    BY <2>1
  <2>4. op.record.name = f.name /\ Key(op.record) = Key(f)
    BY <2>3, PureFacts
  <2> QED BY <2>1, <2>2, <2>3, <2>4 DEF Sound, Meets
<1>3. CASE op \in Updates(read, list)
  <2>1. PICK f \in read, w \in Wanted(list) :
               /\ op = [action |-> "update", record |-> w, id |-> f.id]
               /\ Key(f) = Key(w) /\ Pure(f) # w
    BY <1>3 DEF Updates, Existing
  <2>2. f.id \in Id
    BY DEF Picture
  <2>3. op.action = "update" /\ op.record = w /\ op.id = f.id
    BY <2>1
  <2> QED BY <2>1, <2>2, <2>3 DEF Sound, Meets
<1> QED BY <1>1, <1>2, <1>3 DEF Diff

\* diff addresses a record at most once.
LEMMA DiffOnce ==
  ASSUME NEW list \in Lists, NEW read, Picture(read),
         NEW op \in Diff(read, list), NEW o \in Diff(read, list),
         op.id = o.id, op.id # 0
  PROVE  op = o
<1> DEFINE Rem(p, f) == /\ p = [action |-> "remove", record |-> Pure(f), id |-> f.id]
                        /\ \A w \in Wanted(list) : Key(w) # Key(f)
           Upd(p, f) == \E w \in Wanted(list) :
                          /\ p = [action |-> "update", record |-> w, id |-> f.id]
                          /\ Key(f) = Key(w)
<1>1. ASSUME NEW p \in Diff(read, list), p.id # 0
      PROVE  \E f \in read : p.id = f.id /\ (Rem(p, f) \/ Upd(p, f))
  <2>1. p \notin Additions(read, list)
    BY <1>1 DEF Additions
  <2>2. CASE p \in Removals(read, list)
    BY <2>2 DEF Removals, Existing
  <2>3. CASE p \in Updates(read, list)
    BY <2>3 DEF Updates, Existing
  <2> QED BY <2>1, <2>2, <2>3 DEF Diff
<1>2. PICK f \in read : op.id = f.id /\ (Rem(op, f) \/ Upd(op, f))
  BY <1>1
<1>3. PICK g \in read : o.id = g.id /\ (Rem(o, g) \/ Upd(o, g))
  BY <1>1
<1>4. f = g
  BY <1>2, <1>3 DEF Picture
<1> QED BY <1>2, <1>3, <1>4, WantedOnce

\* A page is part of the zone, so the picture stays right.
LEMMA ReadPicture ==
  ASSUME Proper(zone), Picture(found), NEW p
  PROVE  Picture(Read(p))
<1> DEFINE new == Listed(p)
<1>1. new \subseteq zone /\ \A e \in new : e.name \notin Excluded
  BY DEF Listed, PageOf
<1>2. Read(p) = {e \in found : \A f \in new : f.id # e.id} \cup new
  BY DEF Read
<1> HIDE DEF new
<1>3. ASSUME NEW f \in Read(p)
      PROVE  /\ f.id \in Id /\ f = WithId(f, f.id) /\ f.name \notin Excluded
             /\ \A e \in zone : e.id = f.id /\ e.id \notin touched => e = f
  BY <1>1, <1>2 DEF Proper, Picture
<1>4. ASSUME NEW f \in Read(p), NEW g \in Read(p), f.id = g.id
      PROVE  f = g
  BY <1>1, <1>2, <1>4 DEF Proper, Picture
<1> QED BY <1>3, <1>4 DEF Picture

-----------------------------------------------------------------------------
(* The invariant *)

\* A request still to be sent is sound, and meets the record it addresses unless
\* that one is gone or was touched; no two requests address one record.
Plan ==
  /\ \A op \in todo :
       /\ Sound(op, desired)
       /\ \A e \in zone : e.id = op.id /\ e.id \notin touched => Meets(op, e)
  /\ \A op, o \in todo : op.id = o.id /\ op.id # 0 => op = o

\* A run keeps what it has read until it has a plan, and nothing after it.
Phases == (pc # "read" => found = {}) /\ (pc # "apply" => todo = {})

IInv == TypeOK /\ Picture(found) /\ Plan /\ Phases

\* Every operation of a group has a place in it.
LEMMA OrderType ==
  ASSUME NEW ops, NEW op, op.action \in {"add", "remove", "update"}
  PROVE  Order(ops, op) \in 0 .. 2
<1>1. RegularOrder[op.action] \in 0 .. 2
  BY DEF RegularOrder
<1>2. SpecialOrder[op.action] \in 0 .. 2
  BY DEF SpecialOrder
<1> QED BY <1>1, <1>2 DEF Order

\* The plan made from a right picture.
LEMMA RankedPlan ==
  ASSUME NEW read, Picture(read), desired \in Lists,
         NEW op \in Ranked(Diff(read, desired))
  PROVE  /\ Sound(op, desired)
         /\ \A e \in zone : e.id = op.id /\ e.id \notin touched => Meets(op, e)
         /\ op.action \in {"add", "remove", "update"}
         /\ IF op.action = "add" THEN op.id = 0 ELSE op.id \in Id
         /\ op.rank \in 0 .. 2
         /\ \A o \in Ranked(Diff(read, desired)) : op.id = o.id /\ op.id # 0 => op = o
<1> DEFINE ops == Diff(read, desired)
           Rank(o) == [action |-> o.action, record |-> o.record, id |-> o.id,
                       rank |-> Order(ops, o)]
<1>1. ASSUME NEW o \in Ranked(ops) PROVE \E q \in ops : o = Rank(q)
  BY DEF Ranked
<1>2. PICK q \in ops : op = Rank(q)
  BY <1>1
<1>3. /\ op.action = q.action /\ op.record = q.record /\ op.id = q.id
      /\ op.rank = Order(ops, q)
  BY <1>2
<1>4. Sound(q, desired) /\ (q.id # 0 => \E f \in read : f.id = q.id /\ Meets(q, f))
  BY DiffSound
<1>5. Sound(op, desired)
  BY <1>3, <1>4 DEF Sound
<1>6. /\ op.action \in {"add", "remove", "update"}
      /\ IF op.action = "add" THEN op.id = 0 ELSE op.id \in Id
  BY <1>5 DEF Sound
<1>7. op.rank \in 0 .. 2
  BY <1>3, <1>6, OrderType
<1>8. ASSUME NEW e \in zone, e.id = op.id, e.id \notin touched PROVE Meets(op, e)
  <2>1. CASE op.id = 0
    BY <2>1, <1>6, IdAssumption DEF Meets
  <2>2. CASE op.id # 0
    <3>1. PICK f \in read : f.id = q.id /\ Meets(q, f)
      BY <2>2, <1>3, <1>4
    <3>2. e = f
      BY <3>1, <1>3, <1>8 DEF Picture
    <3> QED BY <3>1, <3>2, <1>3 DEF Meets
  <2> QED BY <2>1, <2>2
<1>9. ASSUME NEW o \in Ranked(ops), op.id = o.id, op.id # 0 PROVE op = o
  <2>1. PICK q2 \in ops : o = Rank(q2)
    BY <1>1
  <2>2. q.id = q2.id /\ q.id # 0
    BY <1>3, <1>9, <2>1
  <2>3. q = q2
    BY <2>2, DiffOnce
  <2> QED BY <2>1, <2>3, <1>2
<1> QED BY <1>5, <1>6, <1>7, <1>8, <1>9

LEMMA InitIInv == Init => IInv
<1> SUFFICES ASSUME Init PROVE IInv
  OBVIOUS
<1>1. /\ Proper(zone) /\ desired \in Lists /\ pc = "idle" /\ page = 1 /\ found = {}
      /\ todo = {} /\ result = "none" /\ touched = {} /\ outside = 0 /\ edits = 0
  BY StartAssumption DEF Init
<1>2. calm \in BOOLEAN
  BY Zenon DEF Init
<1>3. TypeOK
  BY <1>1, <1>2 DEF TypeOK
<1>4. Picture(found) /\ Plan /\ Phases
  BY <1>1 DEF Picture, Plan, Phases
<1> QED BY <1>3, <1>4 DEF IInv

-----------------------------------------------------------------------------
(* A request is carried out *)

\* The zone an addition leaves, and what that is to the goal.
LEMMA AddEffect ==
  ASSUME IInv, NEW op \in todo, op.action = "add", Accepts(zone, op),
         NEW i \in IdFor(op), zone' = Effect(zone, op, i),
         UNCHANGED <<desired, touched, outside>>
  PROVE  /\ Proper(zone')
         /\ \A o \in todo \ {op}, e \in zone' :
              e.id = o.id /\ e.id \notin touched => Meets(o, e)
         /\ Goal!Put(op.record)
<1> DEFINE r == op.record
           n == WithId(r, i)
<1>1. /\ zone' = zone \cup {n}
      /\ \A e \in zone : Key(e) # Key(r)
      /\ i \in Id /\ i \notin Referred
  BY DEF Effect, Accepts, Clash, IdFor, Unused
<1>2. /\ \A e \in zone : e.id # i
      /\ \A o \in todo : o.id # i
  BY <1>1 DEF Referred
<1>3. r \in Wanted(desired) /\ Pure(r) = r
  BY WantedOnce DEF IInv, Plan, Sound, TypeOK
<1>4. n.id = i /\ Key(n) = Key(r) /\ Pure(n) = r /\ n = WithId(n, n.id)
  BY <1>3, WithIdFacts
<1> HIDE DEF r, n
<1>5. Proper(zone')
  BY <1>1, <1>2, <1>4 DEF Proper, IInv, TypeOK
<1>6. ASSUME NEW o \in todo, NEW e \in zone', e.id = o.id, e.id \notin touched
      PROVE  Meets(o, e)
  BY <1>1, <1>2, <1>4, <1>6 DEF IInv, Plan
<1>7. Goal!Put(r)
  <2>1. r \notin View(zone)
    BY <1>1, <1>3, ViewOf, PureKey
  <2>2. View(zone') = {s \in View(zone) : Goal!Key(s) # Goal!Key(r)} \cup {r}
    <3>1. ASSUME NEW s PROVE s \in View(zone') <=> s \in View(zone) \/ s = r
      BY <1>1, <1>4, ViewOf
    <3>2. ASSUME NEW s \in View(zone) PROVE Goal!Key(s) # Goal!Key(r)
      BY <1>1, GoalKey, ViewOf, PureFacts
    <3> QED BY <3>1, <3>2
  <2>3. Wanted(desired)' = Wanted(desired) /\ Kept' = Kept
    BY DEF Wanted, Kept, Skipped
  <2> QED BY <1>3, <2>1, <2>2, <2>3 DEF Goal!Put
<1> QED BY <1>5, <1>6, <1>7 DEF r

\* A removal hits the record it is meant for, or one that somebody has touched.
LEMMA RemoveEffect ==
  ASSUME IInv, NEW op \in todo, op.action = "remove", Accepts(zone, op),
         NEW i \in IdFor(op), zone' = Effect(zone, op, i),
         UNCHANGED <<desired, touched, outside>>
  PROVE  /\ Proper(zone')
         /\ \A o \in todo \ {op}, e \in zone' :
              e.id = o.id /\ e.id \notin touched => Meets(o, e)
         /\ \E r \in View(zone) : Goal!Drop(r) \/ Goal!Clobber(r)
<1>1. PICK e \in zone : e.id = op.id
  BY DEF Accepts
<1>2. zone' = zone \ {e}
  BY <1>1 DEF Effect, IInv, TypeOK, Proper
<1>3. Proper(zone')
  BY <1>2 DEF IInv, TypeOK, Proper
<1>4. \A o \in todo \ {op}, f \in zone' :
        f.id = o.id /\ f.id \notin touched => Meets(o, f)
  BY <1>2 DEF IInv, Plan
<1>5. Pure(e) \in View(zone)
  BY ViewOf
<1>6. View(zone') = View(zone) \ {Pure(e)}
  <2>1. ASSUME NEW f \in zone, Pure(f) = Pure(e) PROVE f = e
    BY <2>1, PureKey DEF IInv, TypeOK, Proper
  <2>2. ASSUME NEW s PROVE s \in View(zone') <=> s \in View(zone) /\ s # Pure(e)
    BY <1>2, <2>1, ViewOf
  <2> QED BY <2>2
<1>7. Wanted(desired)' = Wanted(desired) /\ Kept' = Kept
  BY DEF Wanted, Kept, Skipped
<1>8. CASE e.id \in touched
  <2>1. Pure(e) \in View({f \in zone : f.id \in touched})
    BY <1>8, ViewOf
  <2> QED BY <2>1, <1>3, <1>4, <1>5, <1>6, <1>7 DEF Goal!Clobber
<1>9. CASE e.id \notin touched
  <2>1. Pure(e) = op.record /\ Sound(op, desired)
    BY <1>1, <1>9 DEF IInv, Plan, Meets
  <2>2. Pure(e).name \notin Kept /\ \A w \in Wanted(desired) : Key(w) # Key(Pure(e))
    BY <2>1 DEF Sound, Kept
  <2>3. \A w \in Wanted(desired) : Goal!Key(w) # Goal!Key(Pure(e))
    BY <2>2, GoalKey
  <2>4. Goal!Drop(Pure(e))
    BY <2>2, <2>3, <1>5, <1>6, <1>7 DEF Goal!Drop
  <2> QED BY <2>4, <1>3, <1>4, <1>5
<1> QED BY <1>8, <1>9

\* An update changes the record it is meant for, or one that somebody has touched.
LEMMA UpdateEffect ==
  ASSUME IInv, NEW op \in todo, op.action = "update", Accepts(zone, op),
         NEW i \in IdFor(op), zone' = Effect(zone, op, i),
         UNCHANGED <<desired, touched, outside>>
  PROVE  /\ Proper(zone')
         /\ \A o \in todo \ {op}, e \in zone' :
              e.id = o.id /\ e.id \notin touched => Meets(o, e)
         /\ \/ Goal!Put(op.record)
            \/ \E r \in View(zone) : Goal!Clobber(r)
<1> DEFINE r == op.record
           n == WithId(r, op.id)
<1>1. PICK e \in zone : e.id = op.id /\ ~Clash(zone \ {e}, r)
  BY DEF Accepts
<1>2. zone' = (zone \ {e}) \cup {n}
  BY <1>1 DEF Effect, IInv, TypeOK, Proper
<1>3. r \in Wanted(desired) /\ Pure(r) = r /\ op.id \in Id
  BY WantedOnce DEF IInv, Plan, Sound, TypeOK
<1>4. op.id # 0
  BY <1>3, IdAssumption
<1>5. n.id = op.id /\ Key(n) = Key(r) /\ Pure(n) = r /\ n = WithId(n, n.id)
  BY <1>3, WithIdFacts
<1>6. \A f \in zone \ {e} : Key(f) # Key(r) /\ f.id # op.id
  BY <1>1 DEF Clash, IInv, TypeOK, Proper
<1> HIDE DEF r, n
<1>7. Proper(zone')
  BY <1>2, <1>3, <1>5, <1>6 DEF IInv, TypeOK, Proper
<1>8. ASSUME NEW o \in todo \ {op}, NEW f \in zone', f.id = o.id, f.id \notin touched
      PROVE  Meets(o, f)
  <2>1. o.id # op.id
    BY <1>4 DEF IInv, Plan
  <2> QED BY <2>1, <1>2, <1>5, <1>8 DEF IInv, Plan
<1>9. Wanted(desired)' = Wanted(desired) /\ Kept' = Kept
  BY DEF Wanted, Kept, Skipped
<1>10. View(zone') = (View(zone) \ {Pure(e)}) \cup {r} /\ Pure(e) \in View(zone)
  <2>1. ASSUME NEW f \in zone, Pure(f) = Pure(e) PROVE f = e
    BY <2>1, PureKey DEF IInv, TypeOK, Proper
  <2>2. ASSUME NEW s
        PROVE  s \in View(zone') <=> (s \in View(zone) /\ s # Pure(e)) \/ s = r
    BY <1>2, <1>5, <2>1, ViewOf
  <2>3. Pure(e) \in View(zone)
    BY ViewOf
  <2> QED BY <2>2, <2>3
<1>11. CASE e.id \in touched
  <2>1. Pure(e) \in View({f \in zone : f.id \in touched})
    BY <1>11, ViewOf
  <2>2. Goal!Clobber(Pure(e))
    BY <2>1, <1>3, <1>9, <1>10 DEF Goal!Clobber
  <2> QED BY <2>2, <1>7, <1>8, <1>10
<1>12. CASE e.id \notin touched
  <2>1. Key(e) = Key(r) /\ Pure(e) # r
    BY <1>1, <1>12 DEF IInv, Plan, Meets, r
  <2>2. r \notin View(zone)
    <3> SUFFICES ASSUME r \in View(zone) PROVE FALSE
      OBVIOUS
    <3>1. PICK f \in zone : r = Pure(f)
      BY ViewOf
    <3>2. Key(f) = Key(r)
      BY <3>1, PureFacts
    <3> QED BY <3>1, <3>2, <2>1, <1>6
  <2>3. ASSUME NEW s \in View(zone)
        PROVE  s # Pure(e) <=> Goal!Key(s) # Goal!Key(r)
    <3>1. PICK f \in zone : s = Pure(f)
      BY ViewOf
    <3>2. Goal!Key(s) = Key(f) /\ Goal!Key(r) = Key(e)
      BY <3>1, <2>1, GoalKey, PureFacts
    <3>3. Key(f) = Key(e) <=> f = e
      BY DEF IInv, TypeOK, Proper
    <3>4. Pure(f) = Pure(e) => Key(f) = Key(e)
      BY PureKey
    <3> QED BY <3>1, <3>2, <3>3, <3>4
  <2>4. View(zone') = {s \in View(zone) : Goal!Key(s) # Goal!Key(r)} \cup {r}
    BY <1>10, <2>3
  <2>5. Goal!Put(r)
    BY <1>3, <1>9, <2>2, <2>4 DEF Goal!Put
  <2> QED BY <2>5, <1>7, <1>8 DEF r
<1> QED BY <1>11, <1>12

\* What the goal allows a request to do.
Progress == \/ \E r \in Wanted(desired) : Goal!Put(r)
            \/ \E r \in View(zone) : Goal!Drop(r) \/ Goal!Clobber(r)

\* A request that is carried out, whether or not its answer arrives.
LEMMA EffectStep ==
  ASSUME IInv, NEW op \in todo, Accepts(zone, op), NEW i \in IdFor(op),
         zone' = Effect(zone, op, i), UNCHANGED <<desired, touched, outside>>
  PROVE  /\ Proper(zone')
         /\ \A o \in todo \ {op}, e \in zone' :
              e.id = o.id /\ e.id \notin touched => Meets(o, e)
         /\ Progress
<1>1. Sound(op, desired)
  BY DEF IInv, Plan
<1>2. CASE op.action = "add"
  <2>1. op.record \in Wanted(desired)
    BY <1>1, <1>2 DEF Sound
  <2> QED BY <1>2, <2>1, AddEffect DEF Progress
<1>3. CASE op.action = "remove"
  BY <1>3, RemoveEffect DEF Progress
<1>4. CASE op.action = "update"
  <2>1. op.record \in Wanted(desired)
    BY <1>1, <1>4 DEF Sound
  <2> QED BY <1>4, <2>1, UpdateEffect DEF Progress
<1> QED BY <1>1, <1>2, <1>3, <1>4 DEF Sound

-----------------------------------------------------------------------------
(* Steps of a run *)

\* Nothing of a run is left when it ends.
LEMMA EndStep ==
  ASSUME IInv, Proper(zone'), NEW what \in {"same", "test", "changed", "failed"},
         End(what), UNCHANGED <<desired, calm, touched, outside, edits>>
  PROVE  IInv'
<1>1. /\ pc' = "idle" /\ page' = 1 /\ found' = {} /\ todo' = {} /\ result' = what
  BY DEF End
<1>2. TypeOK'
  BY <1>1 DEF IInv, TypeOK, Proper
<1>3. Picture(found)' /\ Plan' /\ Phases'
  BY <1>1 DEF Picture, Plan, Phases
<1> QED BY <1>2, <1>3 DEF IInv

LEMMA BeginStep ==
  ASSUME IInv, Begin
  PROVE  IInv'
<1>1. /\ pc = "idle" /\ pc' = "read" /\ touched' = {} /\ result' = "none"
      /\ UNCHANGED <<zone, desired, page, found, todo, outside, edits>>
  BY DEF Begin
<1>2. calm' \in BOOLEAN
  BY Zenon DEF Begin
<1>3. found = {} /\ todo = {}
  BY <1>1 DEF IInv, Phases
<1>4. TypeOK'
  BY <1>1, <1>2 DEF IInv, TypeOK, Proper
<1>5. Picture(found)' /\ Plan' /\ Phases'
  BY <1>1, <1>3 DEF Picture, Plan, Phases
<1> QED BY <1>4, <1>5 DEF IInv

LEMMA ReadPageStep ==
  ASSUME IInv, ReadPage(page)
  PROVE  IInv'
<1>1. /\ pc = "read" /\ found' = Read(page) /\ page' = page + 1
      /\ UNCHANGED <<zone, desired, pc, todo, result, calm, touched, outside, edits>>
  BY DEF ReadPage
<1>2. Picture(Read(page))
  BY ReadPicture DEF IInv, TypeOK
<1>3. Picture(found)'
  BY <1>1, <1>2 DEF Picture
<1>4. TypeOK'
  BY <1>1, <1>3 DEF IInv, TypeOK, Proper, Picture
<1>5. Plan' /\ Phases'
  BY <1>1 DEF IInv, Plan, Phases
<1> QED BY <1>3, <1>4, <1>5 DEF IInv

LEMMA ReadLastStep ==
  ASSUME IInv, ReadLast(page)
  PROVE  IInv'
<1> DEFINE ops == Ranked(Diff(Read(page), desired))
<1>1. UNCHANGED <<zone, desired, calm, touched, outside, edits>>
  BY DEF ReadLast
<1>2. Proper(zone')
  BY <1>1 DEF IInv, TypeOK
<1>3. CASE End("same") \/ End("test")
  BY <1>1, <1>2, <1>3, EndStep
<1>4. CASE /\ pc' = "apply" /\ todo' = ops /\ page' = 1 /\ found' = {}
           /\ UNCHANGED <<group, result>>
  <2>1. Picture(Read(page)) /\ desired \in Lists
    BY ReadPicture DEF IInv, TypeOK
  <2>2. \A op \in ops :
          /\ Sound(op, desired)
          /\ \A e \in zone : e.id = op.id /\ e.id \notin touched => Meets(op, e)
          /\ op.action \in {"add", "remove", "update"}
          /\ IF op.action = "add" THEN op.id = 0 ELSE op.id \in Id
          /\ op.rank \in 0 .. 2
          /\ \A o \in ops : op.id = o.id /\ op.id # 0 => op = o
    BY <2>1, RankedPlan
  <2> HIDE DEF ops
  <2>3. TypeOK'
    BY <1>1, <1>4, <2>2 DEF IInv, TypeOK, Proper
  <2>4. Plan'
    <3>1. desired' = desired /\ zone' = zone /\ touched' = touched /\ todo' = ops
      BY <1>1, <1>4
    <3>2. \A op \in ops : Sound(op, desired)'
      BY <2>2, <3>1 DEF Sound, Wanted, Skipped
    <3> QED BY <3>1, <3>2, <2>2 DEF Plan
  <2>5. Picture(found)' /\ Phases'
    BY <1>4 DEF Picture, Phases
  <2> QED BY <2>3, <2>4, <2>5 DEF IInv
<1> QED BY <1>3, <1>4 DEF ReadLast

LEMMA ApplyStep ==
  ASSUME IInv, NEW op \in todo, NEW i \in Id, Apply(op, i)
  PROVE  IInv' /\ Progress
<1>1. /\ Accepts(zone, op) /\ i \in IdFor(op) /\ zone' = Effect(zone, op, i)
      /\ UNCHANGED <<desired, calm, touched, outside, edits>>
  BY DEF Apply
<1>2. /\ Proper(zone')
      /\ \A o \in todo \ {op}, e \in zone' :
           e.id = o.id /\ e.id \notin touched => Meets(o, e)
      /\ Progress
  BY <1>1, EffectStep
<1>3. CASE End("changed")
  BY <1>1, <1>2, <1>3, EndStep
<1>4. CASE todo' = todo \ {op} /\ UNCHANGED <<pc, page, found, result>>
  <2>1. pc = "apply"
    BY DEF Apply
  <2>2. found = {}
    BY <2>1 DEF IInv, Phases
  <2>3. TypeOK'
    BY <1>1, <1>2, <1>4 DEF IInv, TypeOK
  <2>4. Picture(found)' /\ Phases'
    BY <1>4, <2>1, <2>2 DEF Picture, Phases
  <2>5. Plan'
    <3>1. \A o \in todo : Sound(o, desired)'
      BY <1>1 DEF IInv, Plan, Sound, Wanted, Skipped
    <3> QED BY <1>1, <1>2, <1>4, <3>1 DEF IInv, Plan
  <2> QED BY <1>2, <2>3, <2>4, <2>5 DEF IInv
<1> QED BY <1>3, <1>4 DEF Apply

LEMMA ApplyLostStep ==
  ASSUME IInv, NEW op \in todo, NEW i \in Id, ApplyLost(op, i)
  PROVE  IInv' /\ Progress
<1>1. /\ Accepts(zone, op) /\ i \in IdFor(op) /\ zone' = Effect(zone, op, i)
      /\ End("failed") /\ UNCHANGED <<desired, calm, touched, outside, edits>>
  BY DEF ApplyLost
<1>2. Proper(zone') /\ Progress
  BY <1>1, EffectStep
<1> QED BY <1>1, <1>2, EndStep

-----------------------------------------------------------------------------
(* Steps of others *)

\* A change by others that leaves a proper zone, and no record that a run has read
\* or plans to change different from what it was, unless it is touched.
LEMMA OutsideStep ==
  ASSUME IInv, Outside, Proper(zone'), touched \subseteq touched', touched' \subseteq Id,
         \A e \in zone' : \/ e \in zone \/ e.id \in touched'
                         \/ /\ \A f \in found : f.id # e.id
                            /\ \A op \in todo : op.id # e.id
  PROVE  IInv'
<1>1. /\ outside' = outside + 1
      /\ UNCHANGED <<desired, pc, page, found, todo, group, result, edits>>
  BY DEF Outside
<1>2. calm' \in BOOLEAN
  BY Zenon DEF Outside
<1>3. TypeOK'
  BY <1>1, <1>2 DEF IInv, TypeOK
<1>4. Picture(found)'
  BY <1>1 DEF IInv, Picture
<1>5. Plan'
  <2>1. \A op \in todo : Sound(op, desired)'
    BY <1>1 DEF IInv, Plan, Sound, Wanted, Skipped
  <2> QED BY <1>1, <2>1 DEF IInv, Plan
<1>6. Phases'
  BY <1>1 DEF IInv, Phases
<1> QED BY <1>3, <1>4, <1>5, <1>6 DEF IInv

LEMMA OtherAddsStep ==
  ASSUME IInv, NEW r \in Universe, NEW i \in Id, OtherAdds(r, i)
  PROVE  IInv'
<1> DEFINE n == WithId(r, i)
<1>1. /\ \A e \in zone : Key(e) # Key(r)
      /\ i \notin Referred /\ zone' = zone \cup {n} /\ Outside /\ touched' = touched
  BY DEF OtherAdds, Clash, Unused
<1>2. n.id = i /\ Key(n) = Key(r) /\ n = WithId(n, n.id)
  BY WithIdFacts
<1> HIDE DEF n
<1>3. /\ \A e \in zone : e.id # i
      /\ \A e \in found : e.id # i
      /\ \A op \in todo : op.id # i
  BY <1>1 DEF Referred
<1>4. Proper(zone')
  BY <1>1, <1>2, <1>3 DEF IInv, TypeOK, Proper
<1>5. touched \subseteq Id
  BY DEF IInv, TypeOK
<1> QED BY <1>1, <1>2, <1>3, <1>4, <1>5, OutsideStep

LEMMA OtherRemovesStep ==
  ASSUME IInv, NEW e \in zone, OtherRemoves(e)
  PROVE  IInv'
<1>1. zone' = zone \ {e} /\ Outside /\ touched' = touched
  BY DEF OtherRemoves
<1>2. Proper(zone') /\ touched \subseteq Id
  BY <1>1 DEF IInv, TypeOK, Proper
<1> QED BY <1>1, <1>2, OutsideStep

LEMMA OtherChangesStep ==
  ASSUME IInv, NEW e \in zone, NEW r \in Universe, OtherChanges(e, r)
  PROVE  IInv'
<1> DEFINE n == WithId(r, e.id)
<1>1. /\ \A f \in zone \ {e} : Key(f) # Key(r)
      /\ zone' = (zone \ {e}) \cup {n} /\ Outside /\ touched' = touched \cup {e.id}
  BY DEF OtherChanges, Clash
<1>2. n.id = e.id /\ Key(n) = Key(r) /\ n = WithId(n, n.id)
  BY WithIdFacts
<1> HIDE DEF n
<1>3. e.id \in Id /\ touched \subseteq Id /\ \A f \in zone \ {e} : f.id # e.id
  BY DEF IInv, TypeOK, Proper
<1>4. Proper(zone')
  BY <1>1, <1>2, <1>3 DEF IInv, TypeOK, Proper
<1> QED BY <1>1, <1>2, <1>3, <1>4, OutsideStep

LEMMA EditStep ==
  ASSUME IInv, NEW list \in Lists, Edit(list)
  PROVE  IInv'
<1>1. /\ pc = "idle" /\ desired' = list /\ result' = "none" /\ edits' = edits + 1
      /\ UNCHANGED <<zone, pc, page, found, todo, group, calm, touched, outside>>
  BY DEF Edit
<1>2. found = {} /\ todo = {}
  BY <1>1 DEF IInv, Phases
<1>3. TypeOK'
  BY <1>1 DEF IInv, TypeOK, Proper
<1>4. Picture(found)' /\ Plan' /\ Phases'
  BY <1>1, <1>2 DEF Picture, Plan, Phases
<1> QED BY <1>3, <1>4 DEF IInv

-----------------------------------------------------------------------------
(* The theorems about any run *)

\* Every step keeps the invariant and is a step of the goal, or leaves its view of
\* the zone as it is.
LEMMA NextStep ==
  ASSUME IInv, [Next]_vars
  PROVE  IInv' /\ [Goal!Next]_(Goal!vars)
<1>1. ASSUME UNCHANGED <<zone, outside>> PROVE Goal!Next
  BY <1>1 DEF Goal!Next, Goal!Retarget, View
<1>2. ASSUME Progress PROVE Goal!Next
  BY <1>2 DEF Progress, Goal!Next
<1>3. ASSUME Outside PROVE Goal!Next
  <2>1. Wanted(desired)' = Wanted(desired) /\ Kept' = Kept
    BY <1>3 DEF Outside, Wanted, Kept, Skipped
  <2> QED BY <1>3, <2>1 DEF Outside, Goal!Next, Goal!Interfere
<1>4. ASSUME IInv, UNCHANGED zone PROVE Proper(zone')
  BY <1>4 DEF IInv, TypeOK
<1>5. CASE Refuse
  BY <1>5, <1>1, <1>4, EndStep DEF Refuse
<1>6. CASE Begin
  BY <1>6, <1>1, BeginStep DEF Begin
<1>7. CASE Fail
  BY <1>7, <1>1, <1>4, EndStep DEF Fail
<1>8. CASE Rejected
  BY <1>8, <1>1, <1>4, EndStep DEF Rejected
<1>9. CASE ReadPage(page)
  BY <1>9, <1>1, ReadPageStep DEF ReadPage
<1>10. CASE ReadLast(page)
  BY <1>10, <1>1, ReadLastStep DEF ReadLast
<1>11. CASE \E op \in todo, i \in Id : Apply(op, i) \/ ApplyLost(op, i)
  BY <1>11, <1>2, ApplyStep, ApplyLostStep
<1>12. CASE \E r \in Universe, i \in Id : OtherAdds(r, i)
  BY <1>12, <1>3, OtherAddsStep DEF OtherAdds
<1>13. CASE \E e \in zone : OtherRemoves(e)
  BY <1>13, <1>3, OtherRemovesStep DEF OtherRemoves
<1>14. CASE \E e \in zone, r \in Universe : OtherChanges(e, r)
  BY <1>14, <1>3, OtherChangesStep DEF OtherChanges
<1>15. CASE \E list \in Lists : Edit(list)
  BY <1>15, <1>1, EditStep DEF Edit
<1>16. CASE UNCHANGED vars
  <2>1. TypeOK' /\ Picture(found)' /\ Plan' /\ Phases'
    <3>1. \A op \in todo : Sound(op, desired)'
      BY <1>16 DEF vars, IInv, Plan, Sound, Wanted, Skipped
    <3> QED BY <1>16, <3>1 DEF vars, IInv, TypeOK, Proper, Picture, Plan, Phases
  <2> QED BY <2>1, <1>16, <1>1 DEF vars, IInv
<1> QED BY <1>5, <1>6, <1>7, <1>8, <1>9, <1>10, <1>11, <1>12, <1>13, <1>14, <1>15, <1>16
        DEF Next

LEMMA SpecIInv == Spec => []IInv
<1>1. IInv /\ [Next]_vars => IInv'
  BY NextStep
<1> QED BY InitIInv, <1>1, PTL DEF Spec

\* The zone never has two records with one id or one key, and what a run remembers
\* of it has its types: updates and removals carry an id, additions none (diff).
THEOREM Typed == Spec => []TypeOK
<1>1. IInv => TypeOK
  BY DEF IInv
<1> QED BY SpecIInv, <1>1, PTL

\* For every zone, list, page size and amount of interference, each request that is
\* carried out puts in a record that the list wants or takes one out that it does not
\* want and that salt manages; only a record that somebody has changed in place since
\* the run began can be hit by mistake (diff, _order, apply).
THEOREM Implements == Spec => OnlyTowardsGoal
<1>1. Init => Goal!Init
  BY DEF Init, Goal!Init
<1>2. IInv /\ [Next]_vars => [Goal!Next]_(Goal!vars)
  BY NextStep
<1> QED BY SpecIInv, <1>1, <1>2, PTL DEF Spec, OnlyTowardsGoal, Goal!Spec

-----------------------------------------------------------------------------
(* A run that nobody interferes with *)

\* What a run has read before page p of a zone that does not change.
SoFar(z, p) ==
  {e \in z : /\ e.name \notin Excluded
             /\ Cardinality({f \in z : f.id < e.id}) < (p - 1) * PerPage}

Visible(z) == {e \in z : e.name \notin Excluded}

\* The requests of T are what the zone z still lacks, no more and no less; about
\* a name that is excluded and yet wanted nothing is said.
Exact(z, T) ==
  /\ \A w \in Wanted(desired) :
       w.name \notin Excluded /\ (\A e \in z : Key(e) # Key(w)) =>
         \E op \in T : op.action = "add" /\ op.record = w
  /\ \A e \in z :
       e.name \notin Kept /\ (\A w \in Wanted(desired) : Key(w) # Key(e)) =>
         \E op \in T : op.action = "remove" /\ op.id = e.id /\ op.record = Pure(e)
  /\ \A e \in z, w \in Wanted(desired) :
       e.name \notin Excluded /\ Key(e) = Key(w) /\ Pure(e) # w =>
         \E op \in T : op.action = "update" /\ op.id = e.id
  /\ \A op \in T :
       /\ op.action = "add" /\ op.record.name \notin Excluded =>
            \A e \in z : Key(e) # Key(op.record)
       /\ op.action # "add" => op.record.name \notin Excluded /\ \E e \in z : e.id = op.id

\* What _order guarantees: around a CNAME removals come first; where there is
\* none, before or after, an address is removed after the new ones are there.
Ordered(T) ==
  /\ \A op, o \in T :
       Primary(op) /\ Group(o) = Group(op) /\ "CNAME" \in {op.record.type, o.record.type} =>
         op.rank = SpecialOrder[op.action] /\ o.rank = SpecialOrder[o.action]
  /\ \A op, o \in T :
       /\ op.action = "remove" /\ op.record.type \in Address
       /\ NoCname(Wanted(desired), op.record.name)
       /\ Group(o) = Group(op) /\ o.action = "add"
       => op.rank > o.rank
  /\ \A op, o \in T :
       op.action = "add" /\ o.action = "add" /\ op.record = o.record => op = o

\* The invariant of a run: while it is calm, what has been read is the beginning
\* of the zone and what is planned is what the zone lacks.
CalmInv ==
  /\ calm => touched = {}
  /\ pc # "read" => page = 1
  /\ pc # "idle" => Sane(desired) /\ result = "none"
  /\ pc = "read" /\ calm => found = SoFar(zone, page)
  /\ pc = "apply" /\ calm => Exact(zone, todo) /\ Ordered(todo)

KInv == Consistent(zone) /\ CalmInv /\ DoneMeansDesired

-----------------------------------------------------------------------------
(* Pages *)

\* A zone is finite, since its ids are.
LEMMA ZoneFinite ==
  ASSUME NEW z, Proper(z)
  PROVE  IsFiniteSet(z) /\ Cardinality(z) \in Nat
<1> DEFINE f == [e \in z |-> e.id]
<1>1. f \in Injection(z, Id)
  BY DEF Proper, Injection, IsInjective
<1>2. IsFiniteSet(z)
  BY <1>1, IdAssumption, FS_Injection
<1> QED BY <1>2, FS_CardinalityType

\* A record's place in the list of the zone is below the number of records.
LEMMA PlaceType ==
  ASSUME NEW z, Proper(z), NEW e \in z
  PROVE  /\ Cardinality({f \in z : f.id < e.id}) \in Nat
         /\ Cardinality({f \in z : f.id < e.id}) < Cardinality(z)
<1> DEFINE B == {f \in z : f.id < e.id}
<1>1. e.id \in Nat
  BY IdAssumption DEF Proper
<1>2. e \notin B /\ B \in SUBSET z
  BY <1>1
<1>3. IsFiniteSet(z) /\ Cardinality(z) \in Nat
  BY ZoneFinite
<1>4. IsFiniteSet(B) /\ Cardinality(B) <= Cardinality(z) /\ Cardinality(B) # Cardinality(z)
  BY <1>2, <1>3, FS_Subset
<1>5. Cardinality(B) \in Nat
  BY <1>4, FS_CardinalityType
<1> QED BY <1>3, <1>4, <1>5

\* One more page.
LEMMA ReadSoFar ==
  ASSUME Proper(zone), NEW p \in Nat \ {0}, found = SoFar(zone, p)
  PROVE  Read(p) = SoFar(zone, p + 1)
<1> DEFINE place(e) == Cardinality({f \in zone : f.id < e.id})
           lo == (p - 1) * PerPage
           hi == p * PerPage
<1>1. lo \in Nat /\ hi \in Nat /\ lo <= hi /\ (p + 1 - 1) * PerPage = hi
  BY PageAssumption
<1>2. \A e \in zone : place(e) \in Nat
  BY PlaceType
<1>3. PageOf(zone, p) = {e \in zone : place(e) >= lo /\ place(e) < hi}
  BY DEF PageOf
<1>4. SoFar(zone, p) = {e \in zone : e.name \notin Excluded /\ place(e) < lo}
  BY DEF SoFar
<1>5. SoFar(zone, p + 1) = {e \in zone : e.name \notin Excluded /\ place(e) < hi}
  BY <1>1 DEF SoFar
<1>6. /\ Read(p) = {e \in found : \A f \in Listed(p) : f.id # e.id} \cup Listed(p)
      /\ Listed(p) = {e \in PageOf(zone, p) : e.name \notin Excluded}
  BY DEF Read, Listed
<1> HIDE DEF place, lo, hi
<1>7. ASSUME NEW e \in found PROVE \A f \in PageOf(zone, p) : f.id # e.id
  <2> SUFFICES ASSUME NEW f \in PageOf(zone, p), f.id = e.id PROVE FALSE
    OBVIOUS
  <2>1. e \in zone /\ f \in zone /\ place(e) < lo /\ place(f) >= lo
    BY <1>3, <1>4
  <2>2. e = f
    BY <2>1 DEF Proper
  <2> QED BY <1>1, <1>2, <2>1, <2>2
<1>8. ASSUME NEW e
      PROVE  e \in Read(p) <=> e \in SoFar(zone, p + 1)
  BY <1>1, <1>2, <1>3, <1>4, <1>5, <1>6, <1>7
<1> QED BY <1>8

\* The pages are enough for all records.
LEMMA PagesSuffice ==
  ASSUME NEW n \in Nat, NEW k \in Nat \ {0}
  PROVE  (n + k - 1) \div k \in Nat /\ n <= ((n + k - 1) \div k) * k
<1> DEFINE q == (n + k - 1) \div k
           m == (n + k - 1) % k
<1>1. n + k - 1 \in Nat
  OBVIOUS
<1>2. q \in Int /\ m \in Int /\ 0 <= m /\ m < k /\ n + k - 1 = k * q + m
  BY <1>1
<1> QED BY <1>2

\* After the last page, everything has been read.
LEMMA ReadAll ==
  ASSUME Proper(zone), NEW p \in Nat \ {0}, found = SoFar(zone, p),
         p = TotalPages(zone) \/ TotalPages(zone) = 0
  PROVE  Read(p) = Visible(zone)
<1>1. Read(p) = SoFar(zone, p + 1)
  BY ReadSoFar
<1>2. Cardinality(zone) \in Nat
  BY ZoneFinite
<1>3. TotalPages(zone) \in Nat /\ Cardinality(zone) <= TotalPages(zone) * PerPage
  BY <1>2, PageAssumption, PagesSuffice DEF TotalPages
<1>4. Cardinality(zone) <= (p + 1 - 1) * PerPage /\ (p + 1 - 1) * PerPage \in Nat
  BY <1>2, <1>3, PageAssumption
<1>5. \A e \in zone : Cardinality({f \in zone : f.id < e.id}) < (p + 1 - 1) * PerPage
  BY <1>2, <1>4, PlaceType
<1> QED BY <1>1, <1>5 DEF SoFar, Visible

-----------------------------------------------------------------------------
(* The plan *)

\* Of records with distinct keys all count.
LEMMA ExistingAll ==
  ASSUME Proper(zone)
  PROVE  Existing(Visible(zone)) = Visible(zone)
<1>1. \A e \in zone : e.id \in Nat
  BY IdAssumption DEF Proper
<1> QED BY <1>1 DEF Existing, Visible, Proper

\* What is read without interference gives an exact plan.
LEMMA PlanExact ==
  ASSUME Proper(zone)
  PROVE  Exact(zone, Ranked(Diff(Visible(zone), desired)))
<1> DEFINE read == Visible(zone)
           ops == Diff(read, desired)
           Rank(o) == [action |-> o.action, record |-> o.record, id |-> o.id,
                       rank |-> Order(ops, o)]
           T == Ranked(ops)
<1>1. \A q \in ops : Rank(q) \in T
  BY DEF Ranked
<1>2. \A op \in T : \E q \in ops : op.action = q.action /\ op.record = q.record /\ op.id = q.id
  BY DEF Ranked
<1>3. Existing(read) = read /\ read \subseteq zone /\ \A e \in zone : e \in read <=> e.name \notin Excluded
  BY ExistingAll DEF Visible
<1> HIDE DEF read, T
<1>4. ASSUME NEW w \in Wanted(desired), w.name \notin Excluded, \A e \in zone : Key(e) # Key(w)
      PROVE  \E op \in T : op.action = "add" /\ op.record = w
  <2> DEFINE q == [action |-> "add", record |-> w, id |-> 0]
  <2>1. q \in ops
    BY <1>3, <1>4 DEF Diff, Additions
  <2>2. Rank(q) \in T /\ Rank(q).action = "add" /\ Rank(q).record = w
    BY <1>1, <2>1
  <2> QED BY <2>2
<1>5. ASSUME NEW e \in zone, e.name \notin Kept, \A w \in Wanted(desired) : Key(w) # Key(e)
      PROVE  \E op \in T : op.action = "remove" /\ op.id = e.id /\ op.record = Pure(e)
  <2> DEFINE q == [action |-> "remove", record |-> Pure(e), id |-> e.id]
  <2>1. q \in ops
    BY <1>3, <1>5 DEF Diff, Removals, Kept
  <2>2. Rank(q) \in T /\ Rank(q).action = "remove" /\ Rank(q).record = Pure(e) /\ Rank(q).id = e.id
    BY <1>1, <2>1
  <2> QED BY <2>2
<1>6. ASSUME NEW e \in zone, NEW w \in Wanted(desired),
             e.name \notin Excluded, Key(e) = Key(w), Pure(e) # w
      PROVE  \E op \in T : op.action = "update" /\ op.id = e.id
  <2> DEFINE q == [action |-> "update", record |-> w, id |-> e.id]
  <2> DEFINE P == {x \in Existing(read) \X Wanted(desired) :
                    Key(x[1]) = Key(x[2]) /\ Pure(x[1]) # x[2]}
  <2>1. <<e, w>> \in P
    BY <1>3, <1>6
  <2>2. q \in Updates(read, desired)
    <3>1. \A x \in P : [action |-> "update", record |-> x[2], id |-> x[1].id] \in Updates(read, desired)
      BY Zenon DEF Updates
    <3> HIDE DEF P
    <3>2. [action |-> "update", record |-> <<e, w>>[2], id |-> <<e, w>>[1].id] \in Updates(read, desired)
      BY <2>1, <3>1, Zenon
    <3>3. <<e, w>>[1] = e /\ <<e, w>>[2] = w
      OBVIOUS
    <3> QED BY <3>2, <3>3
  <2>3. Rank(q) \in T /\ Rank(q).action = "update" /\ Rank(q).id = e.id
    BY <1>1, <2>2 DEF Diff
  <2> QED BY <2>3
<1>7. ASSUME NEW op \in T
      PROVE  /\ op.action = "add" /\ op.record.name \notin Excluded =>
                  \A e \in zone : Key(e) # Key(op.record)
             /\ op.action # "add" => op.record.name \notin Excluded /\ \E e \in zone : e.id = op.id
  <2>1. PICK q \in ops : op.action = q.action /\ op.record = q.record /\ op.id = q.id
    BY <1>2
  <2>2. CASE q \in Additions(read, desired)
    <3>1. q.action = "add" /\ \A e \in read : Key(e) # Key(q.record)
      BY <2>2 DEF Additions
    <3>2. ASSUME NEW e \in zone, Key(e) = Key(q.record) PROVE e.name = q.record.name
      BY <3>2 DEF Key
    <3> QED BY <1>3, <2>1, <3>1, <3>2
  <2>3. CASE q \in Removals(read, desired)
    <3>1. PICK e \in read : q = [action |-> "remove", record |-> Pure(e), id |-> e.id]
      BY <2>3 DEF Removals, Existing
    <3>2. q.action = "remove" /\ q.record.name = e.name /\ q.id = e.id
      BY <3>1, PureFacts
    <3> QED BY <1>3, <2>1, <3>2
  <2>4. CASE q \in Updates(read, desired)
    <3>1. PICK e \in read, w \in Wanted(desired) :
                 q = [action |-> "update", record |-> w, id |-> e.id] /\ Key(e) = Key(w)
      BY <2>4 DEF Updates, Existing
    <3>2. q.action = "update" /\ q.record = w /\ q.id = e.id /\ w.name = e.name
      BY <3>1 DEF Key
    <3> QED BY <1>3, <2>1, <3>2
  <2> QED BY <2>2, <2>3, <2>4 DEF Diff
<1>8. Exact(zone, T)
  BY <1>4, <1>5, <1>6, <1>7 DEF Exact
<1> QED BY <1>8 DEF T, read

\* _order's ranks, for a zone in which no CNAME has company.
LEMMA PlanOrdered ==
  ASSUME Proper(zone), Consistent(zone)
  PROVE  Ordered(Ranked(Diff(Visible(zone), desired)))
<1> DEFINE read == Visible(zone)
           ops == Diff(read, desired)
           Rank(o) == [action |-> o.action, record |-> o.record, id |-> o.id,
                       rank |-> Order(ops, o)]
           T == Ranked(ops)
<1>1. \A op \in T : \E q \in ops :
        /\ op.action = q.action /\ op.record = q.record /\ op.id = q.id /\ op = Rank(q)
        /\ op.rank = Order(ops, q) /\ Primary(op) = Primary(q) /\ Group(op) = Group(q)
  BY DEF Ranked, Primary, Group
<1>2. /\ \A q \in ops : q.action \in {"add", "update"} => q.record \in Wanted(desired)
      /\ \A q \in ops : q.action = "remove" => \E e \in zone : q.record = Pure(e)
      /\ \A q \in ops : q.action \in {"add", "update", "remove"}
      /\ \A q \in ops : q.action = "add" => q = [action |-> "add", record |-> q.record, id |-> 0]
  BY DEF Diff, Additions, Removals, Updates, Existing, Visible
<1> HIDE DEF ops, T
<1>3. ASSUME NEW op \in T, NEW o \in T, Primary(op), Group(o) = Group(op),
             "CNAME" \in {op.record.type, o.record.type}
      PROVE  op.rank = SpecialOrder[op.action] /\ o.rank = SpecialOrder[o.action]
  <2>1. PICK q \in ops : /\ op.action = q.action /\ op.record = q.record
                         /\ op.rank = Order(ops, q) /\ Primary(op) = Primary(q)
                         /\ Group(op) = Group(q)
    BY <1>1
  <2>2. PICK r \in ops : /\ o.action = r.action /\ o.record = r.record
                         /\ o.rank = Order(ops, r) /\ Primary(o) = Primary(r)
                         /\ Group(o) = Group(r)
    BY <1>1
  <2>3. Primary(o) = Primary(op)
    BY <1>3 DEF Group
  <2>4. \E x \in ops : Group(x) = Group(q) /\ x.record.type = "CNAME"
    BY <1>3, <2>1, <2>2
  <2> QED BY <1>3, <2>1, <2>2, <2>3, <2>4 DEF Order
<1>4. ASSUME NEW op \in T, NEW o \in T, op.action = "remove", op.record.type \in Address,
             NoCname(Wanted(desired), op.record.name), Group(o) = Group(op), o.action = "add"
      PROVE  op.rank > o.rank
  <2>1. PICK q \in ops : /\ op.action = q.action /\ op.record = q.record
                         /\ op.rank = Order(ops, q) /\ Group(op) = Group(q)
    BY <1>1
  <2>2. PICK r \in ops : /\ o.action = r.action /\ o.record = r.record
                         /\ o.rank = Order(ops, r) /\ Group(o) = Group(r)
    BY <1>1
  <2>3. PICK e \in zone : q.record = Pure(e)
    BY <1>2, <1>4, <2>1
  <2>4. e.type \in Address /\ e.name = op.record.name
    BY <1>4, <2>1, <2>3 DEF Pure
  <2>5. ASSUME NEW x \in ops, Group(x) = Group(q), x.record.type = "CNAME"
        PROVE  FALSE
    <3>1. x.record.name = op.record.name
      BY <2>1, <2>5 DEF Group
    <3>2. CASE x.action \in {"add", "update"}
      BY <1>2, <1>4, <2>5, <3>1, <3>2 DEF NoCname
    <3>3. CASE x.action = "remove"
      <4>1. PICK f \in zone : x.record = Pure(f)
        BY <1>2, <3>3
      <4>2. f.type = "CNAME" /\ f.name = e.name
        BY <2>4, <2>5, <3>1, <4>1 DEF Pure
      <4>3. e # f
        BY <2>4, <4>2 DEF Address
      <4>4. Exclusive(f, e)
        BY <4>3 DEF Consistent
      <4> QED BY <2>4, <4>2, <4>4 DEF Exclusive
    <3> QED BY <1>2, <3>2, <3>3
  <2>6. op.rank = RegularOrder[q.action] /\ o.rank = RegularOrder[r.action]
    BY <1>4, <2>1, <2>2, <2>5 DEF Order
  <2>7. op.rank = 2 /\ o.rank = 0
    BY <1>4, <2>1, <2>2, <2>6 DEF RegularOrder
  <2> QED BY <2>7
<1>5. ASSUME NEW op \in T, NEW o \in T, op.action = "add", o.action = "add", op.record = o.record
      PROVE  op = o
  <2>1. PICK q \in ops : op.action = q.action /\ op.record = q.record /\ op = Rank(q)
    BY <1>1
  <2>2. PICK r \in ops : o.action = r.action /\ o.record = r.record /\ o = Rank(r)
    BY <1>1
  <2>3. q = r
    BY <1>2, <1>5, <2>1, <2>2
  <2> QED BY <2>1, <2>2, <2>3
<1>6. Ordered(T)
  BY <1>3, <1>4, <1>5 DEF Ordered
<1> QED BY <1>6 DEF T, ops

-----------------------------------------------------------------------------
(* What an exact plan gives *)

\* A wanted name that is not excluded is not skipped either, in a list that does
\* not contradict itself.
LEMMA WantedNotKept ==
  ASSUME Clean(desired), NEW w \in Wanted(desired)
  PROVE  w.name \notin Kept
<1>1. PICK i \in DOMAIN desired : desired[i].salt_managed /\ w = Pure(desired[i])
  BY DEF Wanted
<1>2. w.name = desired[i].name
  BY <1>1, PureFacts
<1>3. w.name \notin Excluded
  BY <1>2 DEF Clean, Names
<1>4. w.name \notin Skipped(desired)
  <2> SUFFICES ASSUME w.name \in Skipped(desired) PROVE FALSE
    OBVIOUS
  <2>1. PICK j \in DOMAIN desired : ~desired[j].salt_managed /\ desired[j].name = w.name
    BY DEF Skipped
  <2>2. desired[i].salt_managed = desired[j].salt_managed
    BY <1>2, <2>1 DEF Clean
  <2> QED BY <1>1, <2>1, <2>2
<1> QED BY <1>3, <1>4 DEF Kept

\* Nothing left to do: the zone is what the list wants.
LEMMA NothingLeft ==
  ASSUME NEW z, Exact(z, {}), Clean(desired)
  PROVE  View({e \in z : e.name \notin Kept}) = Wanted(desired)
<1> DEFINE mine == {e \in z : e.name \notin Kept}
<1>1. ASSUME NEW r \in View(mine) PROVE r \in Wanted(desired)
  <2>1. PICK e \in mine : r = Pure(e)
    BY ViewOf
  <2>2. PICK w \in Wanted(desired) : Key(w) = Key(e)
    BY <2>1 DEF Exact
  <2>3. e.name \notin Excluded
    BY <2>1 DEF Kept
  <2>4. Pure(e) = w
    BY <2>1, <2>2, <2>3 DEF Exact
  <2> QED BY <2>1, <2>4
<1>2. ASSUME NEW w \in Wanted(desired) PROVE w \in View(mine)
  <2>1. w.name \notin Kept /\ w.name \notin Excluded
    BY WantedNotKept DEF Kept
  <2>2. PICK e \in z : Key(e) = Key(w)
    BY <2>1 DEF Exact
  <2>3. e.name = w.name
    BY <2>2 DEF Key
  <2>4. Pure(e) = w
    BY <2>1, <2>2, <2>3 DEF Exact
  <2>5. e \in mine
    BY <2>1, <2>3
  <2> QED BY <2>4, <2>5, ViewOf
<1> QED BY <1>1, <1>2

\* What sanity_check has ruled out is not wanted.
LEMMA WantedSane ==
  ASSUME Sane(desired), NEW v \in Wanted(desired), NEW w \in Wanted(desired), v # w
  PROVE  Exclusive(v, w)
<1>1. PICK i \in DOMAIN desired : v = Pure(desired[i])
  BY DEF Wanted
<1>2. PICK j \in DOMAIN desired : w = Pure(desired[j])
  BY DEF Wanted
<1>3. Exclusive(desired[i], desired[j])
  BY <1>1, <1>2 DEF Sane
<1>4. /\ v.type = desired[i].type /\ v.name = desired[i].name
      /\ w.type = desired[j].type /\ w.name = desired[j].name
  BY <1>1, <1>2 DEF Pure
<1> QED BY <1>3, <1>4 DEF Exclusive

\* A record that is to be put in, and whose turn it is, bears with every other
\* record of the zone: one that does not has been removed before.
LEMMA NoCompany ==
  ASSUME IInv, KInv, pc = "apply", calm, Clean(desired), NEW op \in todo, MayGo(op),
         op.action \in {"add", "update"}, NEW e \in zone, Key(e) # Key(op.record)
  PROVE  Exclusive(e, op.record) /\ Exclusive(op.record, e)
<1> SUFFICES ASSUME ~(Exclusive(e, op.record) /\ Exclusive(op.record, e)) PROVE FALSE
  OBVIOUS
<1> DEFINE r == op.record
<1>1. /\ e.name = r.name /\ e.type \in Address \cup {"CNAME"}
      /\ r.type \in Address \cup {"CNAME"} /\ "CNAME" \in {e.type, r.type}
  BY DEF Exclusive
<1>2. r \in Wanted(desired)
  BY DEF IInv, Plan, Sound
<1>3. e.name \notin Kept
  BY <1>1, <1>2, WantedNotKept
<1>4. Exact(zone, todo) /\ Ordered(todo) /\ Sane(desired)
  BY DEF KInv, CalmInv
<1>5. CASE \E w \in Wanted(desired) : Key(w) = Key(e)
  <2>1. PICK w \in Wanted(desired) : Key(w) = Key(e)
    BY <1>5
  <2>2. w.type = e.type /\ w.name = e.name /\ w # r
    BY <2>1 DEF Key
  <2>3. Exclusive(w, r) /\ Exclusive(r, w)
    BY <1>2, <1>4, <2>2, WantedSane
  <2> QED BY <1>1, <2>2, <2>3 DEF Exclusive
<1>6. CASE \A w \in Wanted(desired) : Key(w) # Key(e)
  <2>1. PICK o \in todo : o.action = "remove" /\ o.record = Pure(e)
    BY <1>3, <1>4, <1>6 DEF Exact
  <2>2. o.record.type = e.type /\ o.record.name = e.name
    BY <2>1 DEF Pure
  <2>3. Primary(op) /\ Group(o) = Group(op)
    BY <1>1, <2>2 DEF Primary, Group
  <2>4. op.rank = SpecialOrder[op.action] /\ o.rank = SpecialOrder[o.action]
    BY <1>1, <1>4, <2>2, <2>3 DEF Ordered
  <2>5. op.rank \in {1, 2} /\ o.rank = 0
    BY <2>1, <2>4 DEF SpecialOrder
  <2>6. op.rank <= o.rank
    BY <2>3 DEF MayGo
  <2> QED BY <2>5, <2>6
<1> QED BY <1>5, <1>6

LEMMA CalmConflict ==
  ASSUME IInv, KInv
  PROVE  NoSelfConflict
<1> SUFFICES ASSUME pc = "apply", calm, Clean(desired), NEW op \in todo, MayGo(op)
             PROVE  Accepts(zone, op)
  BY DEF NoSelfConflict
<1>1. Exact(zone, todo) /\ touched = {}
  BY DEF KInv, CalmInv
<1>2. Sound(op, desired)
  BY DEF IInv, Plan
<1>3. CASE op.action = "add"
  <2>1. op.record.name \notin Excluded
    BY <1>2, <1>3, WantedNotKept DEF Sound, Kept
  <2>2. \A e \in zone : Key(e) # Key(op.record)
    BY <1>1, <1>3, <2>1 DEF Exact
  <2> QED BY <1>3, <2>2, NoCompany DEF Accepts, Clash
<1>4. CASE op.action = "remove"
  BY <1>1, <1>4 DEF Exact, Accepts
<1>5. CASE op.action = "update"
  <2>1. PICK e \in zone : e.id = op.id
    BY <1>1, <1>5 DEF Exact
  <2>2. Key(e) = Key(op.record)
    BY <1>1, <1>5, <2>1 DEF IInv, Plan, Meets
  <2>3. \A f \in zone \ {e} : Key(f) # Key(op.record)
    BY <2>2 DEF IInv, TypeOK, Proper
  <2>4. ~Clash(zone \ {e}, op.record)
    BY <1>5, <2>3, NoCompany DEF Clash
  <2> QED BY <1>5, <2>1, <2>4 DEF Accepts
<1> QED BY <1>2, <1>3, <1>4, <1>5 DEF Sound

-----------------------------------------------------------------------------
(* What a request leaves *)

\* The API keeps a zone consistent.
LEMMA ConsistentPut ==
  ASSUME NEW z, NEW y \in SUBSET z, Consistent(z), NEW r, NEW i, ~Clash(y, r)
  PROVE  Consistent(y \cup {WithId(r, i)})
<1> DEFINE n == WithId(r, i)
<1>1. n.type = r.type /\ n.name = r.name
  BY DEF WithId
<1> HIDE DEF n
<1>2. \A e \in y : Exclusive(e, n) /\ Exclusive(n, e)
  BY <1>1 DEF Clash, Exclusive
<1>3. \A e, f \in y : e # f => Exclusive(e, f)
  BY DEF Consistent
<1>4. Consistent(y \cup {n})
  BY <1>2, <1>3 DEF Consistent
<1> QED BY <1>4 DEF n

\* The zone after a request, in the words of the request.
LEMMA EffectCases ==
  ASSUME IInv, KInv, calm, NEW op \in todo, Accepts(zone, op), NEW i \in IdFor(op)
  PROVE  \/ /\ op.action = "add" /\ op.record \in Wanted(desired)
            /\ \A e \in zone : Key(e) # Key(op.record)
            /\ Effect(zone, op, i) = zone \cup {WithId(op.record, i)}
         \/ /\ op.action = "remove" /\ op.id # 0
            /\ op.record.name \notin Excluded
            /\ \A w \in Wanted(desired) : Key(w) # Key(op.record)
            /\ \E d \in zone : /\ d.id = op.id /\ Pure(d) = op.record
                               /\ Effect(zone, op, i) = zone \ {d}
         \/ /\ op.action = "update" /\ op.id # 0 /\ op.record \in Wanted(desired)
            /\ \E d \in zone : /\ d.id = op.id /\ Key(d) = Key(op.record)
                               /\ Effect(zone, op, i) = (zone \ {d}) \cup {WithId(op.record, op.id)}
<1>1. touched = {}
  BY DEF KInv, CalmInv
<1>2. Sound(op, desired) /\ \A e \in zone : e.id = op.id => Meets(op, e)
  BY <1>1 DEF IInv, Plan
<1>3. \A e, f \in zone : e.id = f.id => e = f
  BY DEF IInv, TypeOK, Proper
<1>4. CASE op.action = "add"
  BY <1>2, <1>4 DEF Sound, Accepts, Clash, Effect
<1>5. CASE op.action = "remove"
  <2>1. PICK d \in zone : d.id = op.id
    BY <1>5 DEF Accepts
  <2>2. Effect(zone, op, i) = zone \ {d}
    BY <1>3, <1>5, <2>1 DEF Effect
  <2>3. Pure(d) = op.record
    BY <1>2, <1>5, <2>1 DEF Meets
  <2>4. /\ op.id # 0 /\ op.record.name \notin Excluded
        /\ \A w \in Wanted(desired) : Key(w) # Key(op.record)
    BY <1>2, <1>5, IdAssumption DEF Sound
  <2> QED BY <1>5, <2>1, <2>2, <2>3, <2>4
<1>6. CASE op.action = "update"
  <2>1. PICK d \in zone : d.id = op.id
    BY <1>6 DEF Accepts
  <2>2. Effect(zone, op, i) = (zone \ {d}) \cup {WithId(op.record, op.id)}
    BY <1>3, <1>6, <2>1 DEF Effect
  <2>3. Key(d) = Key(op.record)
    BY <1>2, <1>6, <2>1 DEF Meets
  <2>4. op.id # 0 /\ op.record \in Wanted(desired)
    BY <1>2, <1>6, IdAssumption DEF Sound
  <2> QED BY <1>6, <2>1, <2>2, <2>3, <2>4
<1> QED BY <1>2, <1>4, <1>5, <1>6 DEF Sound

LEMMA ConsistentEffect ==
  ASSUME IInv, Consistent(zone), NEW op \in todo, Accepts(zone, op), NEW i \in IdFor(op)
  PROVE  Consistent(Effect(zone, op, i))
<1>1. CASE op.action = "add"
  <2>1. ~Clash(zone, op.record) /\ Effect(zone, op, i) = zone \cup {WithId(op.record, i)}
    BY <1>1 DEF Accepts, Effect
  <2> QED BY <2>1, ConsistentPut
<1>2. CASE op.action = "remove"
  <2>1. Effect(zone, op, i) \subseteq zone
    BY <1>2 DEF Effect
  <2> QED BY <2>1 DEF Consistent
<1>3. CASE op.action = "update"
  <2>1. PICK d \in zone : d.id = op.id /\ ~Clash(zone \ {d}, op.record)
    BY <1>3 DEF Accepts
  <2>2. Effect(zone, op, i) = (zone \ {d}) \cup {WithId(op.record, op.id)}
    BY <1>3, <2>1 DEF Effect, IInv, TypeOK, Proper
  <2>3. zone \ {d} \in SUBSET zone
    OBVIOUS
  <2> QED BY <2>1, <2>2, <2>3, ConsistentPut
<1>4. op.action \in {"add", "remove", "update"}
  BY DEF IInv, TypeOK
<1> QED BY <1>1, <1>2, <1>3, <1>4

\* After a request the rest of the plan is what the zone still lacks.
LEMMA ExactAdd ==
  ASSUME IInv, KInv, pc = "apply", calm, NEW op \in todo, Accepts(zone, op),
         NEW i \in IdFor(op), op.action = "add"
  PROVE  Exact(Effect(zone, op, i), todo \ {op})
<1> DEFINE r == op.record
           n == WithId(r, i)
           N == zone \cup {n}
           T == todo \ {op}
<1>1. /\ r \in Wanted(desired) /\ \A e \in zone : Key(e) # Key(r)
      /\ Effect(zone, op, i) = N
  BY EffectCases
<1>2. desired \in Lists /\ Exact(zone, todo) /\ Ordered(todo)
  BY DEF IInv, TypeOK, KInv, CalmInv
<1>3. Key(n) = Key(r) /\ n.name = r.name /\ Pure(n) = r
  BY <1>1, <1>2, WithIdFacts, WantedOnce
<1>4. \A w \in Wanted(desired) : Key(w) = Key(r) => w = r
  BY <1>1, <1>2, WantedOnce
<1>5. \A o \in todo : o.action # "add" => o \in T
  OBVIOUS
<1>6. \A o \in todo : o.action = "add" => o.record \in Wanted(desired)
  BY DEF IInv, Plan, Sound
<1>7. \A o \in T : o.action = "add" => o.record # r
  BY <1>2 DEF Ordered
<1> HIDE DEF n
<1>8. ASSUME NEW w \in Wanted(desired), w.name \notin Excluded, \A e \in N : Key(e) # Key(w)
      PROVE  \E o \in T : o.action = "add" /\ o.record = w
  <2>1. PICK o \in todo : o.action = "add" /\ o.record = w
    BY <1>2, <1>8 DEF Exact
  <2>2. w # r
    BY <1>3, <1>8
  <2> QED BY <2>1, <2>2
<1>9. ASSUME NEW e \in N, e.name \notin Kept, \A w \in Wanted(desired) : Key(w) # Key(e)
      PROVE  \E o \in T : o.action = "remove" /\ o.id = e.id /\ o.record = Pure(e)
  <2>1. e \in zone
    BY <1>1, <1>3, <1>9
  <2>2. PICK o \in todo : o.action = "remove" /\ o.id = e.id /\ o.record = Pure(e)
    BY <1>2, <1>9, <2>1 DEF Exact
  <2> QED BY <1>5, <2>2
<1>10. ASSUME NEW e \in N, NEW w \in Wanted(desired),
              e.name \notin Excluded, Key(e) = Key(w), Pure(e) # w
       PROVE  \E o \in T : o.action = "update" /\ o.id = e.id
  <2>1. e \in zone
    BY <1>3, <1>4, <1>10
  <2>2. PICK o \in todo : o.action = "update" /\ o.id = e.id
    BY <1>2, <1>10, <2>1 DEF Exact
  <2> QED BY <1>5, <2>2
<1>11. ASSUME NEW o \in T
       PROVE  /\ o.action = "add" /\ o.record.name \notin Excluded =>
                   \A e \in N : Key(e) # Key(o.record)
              /\ o.action # "add" => o.record.name \notin Excluded /\ \E e \in N : e.id = o.id
  <2>1. ASSUME o.action = "add", o.record.name \notin Excluded, NEW e \in N
        PROVE  Key(e) # Key(o.record)
    <3>1. CASE e \in zone
      BY <1>2, <2>1, <3>1 DEF Exact
    <3>2. CASE e = n
      BY <1>3, <1>4, <1>6, <1>7, <2>1, <3>2
    <3> QED BY <3>1, <3>2
  <2>2. ASSUME o.action # "add" PROVE o.record.name \notin Excluded /\ \E e \in N : e.id = o.id
    BY <1>2, <2>2 DEF Exact
  <2> QED BY <2>1, <2>2
<1>12. Exact(N, T)
  BY <1>8, <1>9, <1>10, <1>11 DEF Exact
<1> QED BY <1>1, <1>12

LEMMA ExactRemove ==
  ASSUME IInv, KInv, pc = "apply", calm, NEW op \in todo, Accepts(zone, op),
         NEW i \in IdFor(op), op.action = "remove"
  PROVE  Exact(Effect(zone, op, i), todo \ {op})
<1> DEFINE T == todo \ {op}
<1>1. /\ op.id # 0 /\ \A w \in Wanted(desired) : Key(w) # Key(op.record)
      /\ \E d \in zone : d.id = op.id /\ Pure(d) = op.record /\ Effect(zone, op, i) = zone \ {d}
  BY EffectCases
<1>2. PICK d \in zone : d.id = op.id /\ Pure(d) = op.record /\ Effect(zone, op, i) = zone \ {d}
  BY <1>1
<1> DEFINE N == zone \ {d}
<1>3. Exact(zone, todo)
  BY DEF KInv, CalmInv
<1>4. \A w \in Wanted(desired) : Key(w) # Key(d)
  BY <1>1, <1>2, PureFacts
<1>5. /\ \A o \in todo : o.id # op.id => o \in T
      /\ \A o \in T : o.id # op.id
      /\ \A e \in N : e.id # op.id
  BY <1>1, <1>2 DEF IInv, TypeOK, Proper, Plan
<1>6. ASSUME NEW w \in Wanted(desired), w.name \notin Excluded, \A e \in N : Key(e) # Key(w)
      PROVE  \E o \in T : o.action = "add" /\ o.record = w
  <2>1. \A e \in zone : Key(e) # Key(w)
    BY <1>4, <1>6
  <2>2. PICK o \in todo : o.action = "add" /\ o.record = w
    BY <1>3, <1>6, <2>1 DEF Exact
  <2> QED BY <2>2
<1>7. ASSUME NEW e \in N, e.name \notin Kept, \A w \in Wanted(desired) : Key(w) # Key(e)
      PROVE  \E o \in T : o.action = "remove" /\ o.id = e.id /\ o.record = Pure(e)
  <2>1. PICK o \in todo : o.action = "remove" /\ o.id = e.id /\ o.record = Pure(e)
    BY <1>3, <1>7 DEF Exact
  <2> QED BY <1>5, <2>1
<1>8. ASSUME NEW e \in N, NEW w \in Wanted(desired),
             e.name \notin Excluded, Key(e) = Key(w), Pure(e) # w
      PROVE  \E o \in T : o.action = "update" /\ o.id = e.id
  <2>1. PICK o \in todo : o.action = "update" /\ o.id = e.id
    BY <1>3, <1>8 DEF Exact
  <2> QED BY <1>5, <2>1
<1>9. ASSUME NEW o \in T
      PROVE  /\ o.action = "add" /\ o.record.name \notin Excluded =>
                  \A e \in N : Key(e) # Key(o.record)
             /\ o.action # "add" => o.record.name \notin Excluded /\ \E e \in N : e.id = o.id
  BY <1>2, <1>3, <1>5 DEF Exact
<1>10. Exact(N, T)
  BY <1>6, <1>7, <1>8, <1>9 DEF Exact
<1> QED BY <1>2, <1>10

LEMMA ExactUpdate ==
  ASSUME IInv, KInv, pc = "apply", calm, NEW op \in todo, Accepts(zone, op),
         NEW i \in IdFor(op), op.action = "update"
  PROVE  Exact(Effect(zone, op, i), todo \ {op})
<1> DEFINE r == op.record
           n == WithId(r, op.id)
           T == todo \ {op}
<1>1. /\ op.id # 0 /\ r \in Wanted(desired)
      /\ \E d \in zone : d.id = op.id /\ Key(d) = Key(r) /\ Effect(zone, op, i) = (zone \ {d}) \cup {n}
  BY EffectCases
<1>2. PICK d \in zone : d.id = op.id /\ Key(d) = Key(r) /\ Effect(zone, op, i) = (zone \ {d}) \cup {n}
  BY <1>1
<1> DEFINE N == (zone \ {d}) \cup {n}
<1>3. desired \in Lists /\ Exact(zone, todo)
  BY DEF IInv, TypeOK, KInv, CalmInv
<1>4. Key(n) = Key(r) /\ Pure(n) = r
  BY <1>1, <1>3, WithIdFacts, WantedOnce
<1>5. \A w \in Wanted(desired) : Key(w) = Key(r) => w = r
  BY <1>1, <1>3, WantedOnce
<1>6. /\ \A o \in todo : o.id # op.id => o \in T
      /\ \A o \in T : o.id # op.id
      /\ \A e \in zone \ {d} : e.id # op.id
  BY <1>1, <1>2 DEF IInv, TypeOK, Proper, Plan
<1> HIDE DEF n
<1>7. ASSUME NEW w \in Wanted(desired), w.name \notin Excluded, \A e \in N : Key(e) # Key(w)
      PROVE  \E o \in T : o.action = "add" /\ o.record = w
  <2>1. \A e \in zone : Key(e) # Key(w)
    BY <1>2, <1>4, <1>7
  <2>2. PICK o \in todo : o.action = "add" /\ o.record = w
    BY <1>3, <1>7, <2>1 DEF Exact
  <2> QED BY <2>2
<1>8. ASSUME NEW e \in N, e.name \notin Kept, \A w \in Wanted(desired) : Key(w) # Key(e)
      PROVE  \E o \in T : o.action = "remove" /\ o.id = e.id /\ o.record = Pure(e)
  <2>1. e \in zone \ {d}
    BY <1>1, <1>4, <1>8
  <2>2. PICK o \in todo : o.action = "remove" /\ o.id = e.id /\ o.record = Pure(e)
    BY <1>3, <1>8, <2>1 DEF Exact
  <2> QED BY <1>6, <2>1, <2>2
<1>9. ASSUME NEW e \in N, NEW w \in Wanted(desired),
             e.name \notin Excluded, Key(e) = Key(w), Pure(e) # w
      PROVE  \E o \in T : o.action = "update" /\ o.id = e.id
  <2>1. e \in zone \ {d}
    BY <1>4, <1>5, <1>9
  <2>2. PICK o \in todo : o.action = "update" /\ o.id = e.id
    BY <1>3, <1>9, <2>1 DEF Exact
  <2> QED BY <1>6, <2>1, <2>2
<1>10. ASSUME NEW o \in T
       PROVE  /\ o.action = "add" /\ o.record.name \notin Excluded =>
                   \A e \in N : Key(e) # Key(o.record)
              /\ o.action # "add" => o.record.name \notin Excluded /\ \E e \in N : e.id = o.id
  <2>1. ASSUME o.action = "add", o.record.name \notin Excluded, NEW e \in N
        PROVE  Key(e) # Key(o.record)
    BY <1>2, <1>3, <1>4, <2>1 DEF Exact
  <2>2. ASSUME o.action # "add" PROVE o.record.name \notin Excluded /\ \E e \in N : e.id = o.id
    BY <1>2, <1>3, <1>6, <2>2 DEF Exact
  <2> QED BY <2>1, <2>2
<1>11. Exact(N, T)
  BY <1>7, <1>8, <1>9, <1>10 DEF Exact
<1> QED BY <1>2, <1>11

LEMMA ExactEffect ==
  ASSUME IInv, KInv, pc = "apply", calm, NEW op \in todo, Accepts(zone, op), NEW i \in IdFor(op)
  PROVE  Exact(Effect(zone, op, i), todo \ {op}) /\ Ordered(todo \ {op})
<1>1. op.action \in {"add", "remove", "update"}
  BY DEF IInv, TypeOK
<1>2. Exact(Effect(zone, op, i), todo \ {op})
  BY <1>1, ExactAdd, ExactRemove, ExactUpdate
<1>3. Ordered(todo)
  BY DEF KInv, CalmInv
<1>4. Ordered(todo \ {op})
  BY <1>3 DEF Ordered
<1> QED BY <1>2, <1>4

\* An address goes only when another one, or the one that replaces it, is there.
LEMMA Resolves ==
  ASSUME IInv, KInv, pc = "apply", calm, NEW op \in todo, MayGo(op), Accepts(zone, op),
         NEW i \in IdFor(op), NEW n,
         HasAddress(zone, n), HasAddress(Wanted(desired), n),
         NoCname(zone, n), NoCname(Wanted(desired), n)
  PROVE  HasAddress(Effect(zone, op, i), n)
<1>1. PICK e \in zone : e.name = n /\ e.type \in Address
  BY DEF HasAddress, NoCname
<1>2. PICK w \in Wanted(desired) : w.name = n /\ w.type \in Address
  BY DEF HasAddress, NoCname
<1>3. op.action \in {"add", "remove", "update"}
  BY DEF IInv, TypeOK
<1>4. CASE op.action = "add"
  <2>1. e \in Effect(zone, op, i)
    BY <1>4, EffectCases
  <2> QED BY <1>1, <2>1 DEF HasAddress
<1>5. CASE op.action = "update"
  <2>1. PICK d \in zone : /\ Key(d) = Key(op.record)
                          /\ Effect(zone, op, i) = (zone \ {d}) \cup {WithId(op.record, op.id)}
    BY <1>5, EffectCases
  <2>2. CASE e # d
    BY <1>1, <2>1, <2>2 DEF HasAddress
  <2>3. CASE e = d
    <3>1. WithId(op.record, op.id).name = n /\ WithId(op.record, op.id).type \in Address
      BY <1>1, <2>1, <2>3 DEF WithId, Key
    <3> QED BY <2>1, <3>1 DEF HasAddress
  <2> QED BY <2>2, <2>3
<1>6. CASE op.action = "remove"
  <2>1. /\ op.record.name \notin Excluded
        /\ \A v \in Wanted(desired) : Key(v) # Key(op.record)
        /\ \E d \in zone : Pure(d) = op.record /\ Effect(zone, op, i) = zone \ {d}
    BY <1>6, EffectCases
  <2>2. PICK d \in zone : Pure(d) = op.record /\ Effect(zone, op, i) = zone \ {d}
    BY <2>1
  <2>3. CASE e # d
    BY <1>1, <2>2, <2>3 DEF HasAddress
  <2>4. CASE e = d
    <3>1. op.record.name = n /\ op.record.type \in Address /\ Key(op.record) = Key(e)
      BY <1>1, <2>2, <2>4 DEF Pure, Key
    <3>2. CASE \E f \in zone : Key(f) = Key(w)
      <4>1. PICK f \in zone : Key(f) = Key(w)
        BY <3>2
      <4>2. f # e
        BY <2>1, <3>1, <4>1
      <4>3. f.name = n /\ f.type \in Address
        BY <1>2, <4>1 DEF Key
      <4> QED BY <2>2, <2>4, <4>2, <4>3 DEF HasAddress
    <3>3. CASE \A f \in zone : Key(f) # Key(w)
      <4>1. Exact(zone, todo) /\ Ordered(todo)
        BY DEF KInv, CalmInv
      <4>2. PICK o \in todo : o.action = "add" /\ o.record = w
        BY <1>2, <2>1, <3>1, <3>3, <4>1 DEF Exact
      <4>3. Group(o) = Group(op)
        BY <1>2, <3>1, <4>2 DEF Group, Primary
      <4>4. op.rank > o.rank
        BY <1>6, <3>1, <4>1, <4>2, <4>3 DEF Ordered
      <4>5. op.rank <= o.rank /\ op.rank \in 0 .. 2 /\ o.rank \in 0 .. 2
        BY <4>3 DEF MayGo, IInv, TypeOK
      <4> QED BY <4>4, <4>5
    <3> QED BY <3>2, <3>3
  <2> QED BY <2>3, <2>4
<1> QED BY <1>3, <1>4, <1>5, <1>6

-----------------------------------------------------------------------------
(* Every step keeps the invariant of a run *)

LEMMA SameList ==
  ASSUME desired' = desired
  PROVE  /\ Wanted(desired)' = Wanted(desired) /\ Kept' = Kept
         /\ Sane(desired)' <=> Sane(desired)
         /\ Clean(desired)' <=> Clean(desired)
<1>1. Wanted(desired)' = Wanted(desired) /\ Kept' = Kept
  BY DEF Wanted, Kept, Skipped
<1>2. Sane(desired)' <=> Sane(desired)
  BY DEF Sane
<1>3. Clean(desired)' <=> Clean(desired)
  BY DEF Clean, Names
<1> QED BY <1>1, <1>2, <1>3

LEMMA SamePlan ==
  ASSUME desired' = desired, NEW z, z = zone', NEW T, T = todo', Exact(z, T), Ordered(T)
  PROVE  (Exact(zone, todo) /\ Ordered(todo))'
<1>1. Wanted(desired)' = Wanted(desired) /\ Kept' = Kept
  BY SameList
<1>2. Exact(zone, todo)'
  BY <1>1 DEF Exact
<1>3. Ordered(todo)'
  BY <1>1 DEF Ordered, NoCname
<1> QED BY <1>2, <1>3

LEMMA SameSync ==
  ASSUME desired' = desired, NEW z, z = zone',
         View({e \in z : e.name \notin Kept}) = Wanted(desired)
  PROVE  InSync'
<1>1. Wanted(desired)' = Wanted(desired) /\ Kept' = Kept
  BY SameList
<1> QED BY <1>1 DEF InSync, View

\* Before the first page nothing has been read.
LEMMA FirstPage ==
  ASSUME NEW z, Proper(z)
  PROVE  SoFar(z, 1) = {}
<1>1. (1 - 1) * PerPage = 0
  BY PageAssumption
<1> QED BY <1>1, PlaceType DEF SoFar

\* A run that ends without success promises nothing.
LEMMA EndKInv ==
  ASSUME KInv, Consistent(zone'), NEW what \in {"test", "failed"}, End(what),
         UNCHANGED <<desired, calm, touched>>
  PROVE  KInv'
<1>1. pc' = "idle" /\ page' = 1 /\ result' = what
  BY DEF End
<1>2. (calm => touched = {})'
  BY DEF KInv, CalmInv
<1>3. CalmInv'
  BY <1>1, <1>2 DEF CalmInv
<1>4. DoneMeansDesired'
  BY <1>1 DEF DoneMeansDesired
<1> QED BY <1>3, <1>4 DEF KInv

\* A run that ends with success.
LEMMA EndDone ==
  ASSUME KInv, Consistent(zone'), NEW what \in {"same", "changed"}, End(what),
         UNCHANGED <<desired, calm, touched>>, NEW z, z = zone', calm => Exact(z, {})
  PROVE  KInv'
<1>1. pc' = "idle" /\ page' = 1 /\ result' = what
  BY DEF End
<1>2. (calm => touched = {})'
  BY DEF KInv, CalmInv
<1>3. CalmInv'
  BY <1>1, <1>2 DEF CalmInv
<1>4. DoneMeansDesired'
  <2> SUFFICES ASSUME calm', Clean(desired)' PROVE InSync'
    BY DEF DoneMeansDesired
  <2>1. calm /\ Clean(desired)
    BY SameList
  <2> QED BY <2>1, NothingLeft, SameSync
<1> QED BY <1>3, <1>4 DEF KInv

LEMMA BeginKInv ==
  ASSUME IInv, KInv, Begin
  PROVE  KInv'
<1>1. /\ pc = "idle" /\ pc' = "read" /\ Sane(desired) /\ touched' = {} /\ result' = "none"
      /\ UNCHANGED <<zone, desired, page, found>>
  BY DEF Begin
<1>2. page = 1 /\ found = {}
  BY <1>1 DEF KInv, CalmInv, IInv, Phases
<1>3. SoFar(zone, page)' = {}
  BY <1>1, <1>2, FirstPage DEF IInv, TypeOK
<1>4. Sane(desired)'
  BY <1>1, SameList
<1>5. CalmInv'
  BY <1>1, <1>2, <1>3, <1>4 DEF CalmInv
<1>6. DoneMeansDesired'
  BY <1>1 DEF DoneMeansDesired
<1>7. Consistent(zone)'
  BY <1>1 DEF KInv
<1> QED BY <1>5, <1>6, <1>7 DEF KInv

LEMMA ReadPageKInv ==
  ASSUME IInv, KInv, ReadPage(page)
  PROVE  KInv'
<1>1. /\ pc = "read" /\ found' = Read(page) /\ page' = page + 1
      /\ UNCHANGED <<zone, desired, pc, todo, result, calm, touched>>
  BY DEF ReadPage
<1>2. Proper(zone) /\ page \in Nat \ {0}
  BY DEF IInv, TypeOK
<1>3. calm => found' = SoFar(zone, page + 1)
  BY <1>1, <1>2, ReadSoFar DEF KInv, CalmInv
<1>4. (pc = "read" /\ calm => found = SoFar(zone, page))'
  BY <1>1, <1>3
<1>5. (pc # "idle" => Sane(desired) /\ result = "none")'
  BY <1>1, SameList DEF KInv, CalmInv
<1>6. (calm => touched = {})' /\ (pc # "read" => page = 1)' /\ pc' # "apply"
  BY <1>1 DEF KInv, CalmInv
<1>7. CalmInv'
  BY <1>4, <1>5, <1>6 DEF CalmInv
<1>8. DoneMeansDesired'
  BY <1>1, <1>5 DEF DoneMeansDesired
<1>9. Consistent(zone)'
  BY <1>1 DEF KInv
<1> QED BY <1>7, <1>8, <1>9 DEF KInv

LEMMA ReadLastKInv ==
  ASSUME IInv, KInv, ReadLast(page)
  PROVE  KInv'
<1> DEFINE ops == Ranked(Diff(Read(page), desired))
<1>1. /\ pc = "read" /\ (page = TotalPages(zone) \/ TotalPages(zone) = 0)
      /\ UNCHANGED <<zone, desired, calm, touched, outside, edits>>
  BY DEF ReadLast
<1>2. Proper(zone) /\ page \in Nat \ {0} /\ Consistent(zone)
  BY DEF IInv, TypeOK, KInv
<1>3. ASSUME calm PROVE Exact(zone, ops) /\ Ordered(ops)
  <2>1. found = SoFar(zone, page)
    BY <1>1, <1>3 DEF KInv, CalmInv
  <2>2. Read(page) = Visible(zone)
    BY <1>1, <1>2, <2>1, ReadAll
  <2> QED BY <1>2, <2>2, PlanExact, PlanOrdered
<1>4. Consistent(zone')
  BY <1>1, <1>2
<1> HIDE DEF ops
<1>5. CASE ops = {} /\ End("same")
  BY <1>1, <1>3, <1>4, <1>5, EndDone
<1>6. CASE End("test")
  BY <1>1, <1>4, <1>6, EndKInv
<1>7. CASE pc' = "apply" /\ todo' = ops /\ page' = 1 /\ UNCHANGED <<group, result>>
  <2>1. (calm => Exact(zone, todo) /\ Ordered(todo))'
    BY <1>1, <1>3, <1>7, SamePlan
  <2>2. (Sane(desired) /\ result = "none")'
    BY <1>1, <1>7, SameList DEF KInv, CalmInv
  <2>3. (calm => touched = {})'
    BY <1>1 DEF KInv, CalmInv
  <2>4. CalmInv'
    BY <1>7, <2>1, <2>2, <2>3 DEF CalmInv
  <2>5. DoneMeansDesired'
    BY <2>2 DEF DoneMeansDesired
  <2> QED BY <1>4, <2>4, <2>5 DEF KInv
<1> QED BY <1>5, <1>6, <1>7 DEF ReadLast, ops

LEMMA ApplyKInv ==
  ASSUME IInv, KInv, NEW op \in todo, NEW i \in Id, Apply(op, i)
  PROVE  KInv'
<1>1. /\ pc = "apply" /\ Accepts(zone, op) /\ i \in IdFor(op) /\ zone' = Effect(zone, op, i)
      /\ UNCHANGED <<desired, calm, touched, outside, edits>>
  BY DEF Apply
<1>2. Consistent(zone')
  BY <1>1, ConsistentEffect DEF KInv
<1>3. calm => Exact(Effect(zone, op, i), todo \ {op}) /\ Ordered(todo \ {op})
  BY <1>1, ExactEffect
<1>4. CASE todo = {op} /\ End("changed")
  <2>1. todo \ {op} = {}
    BY <1>4
  <2> QED BY <1>1, <1>2, <1>3, <1>4, <2>1, EndDone
<1>5. CASE todo' = todo \ {op} /\ UNCHANGED <<pc, page, found, result>>
  <2>1. (calm => Exact(zone, todo) /\ Ordered(todo))'
    BY <1>1, <1>3, <1>5, SamePlan
  <2>2. (Sane(desired) /\ result = "none")'
    BY <1>1, <1>5, SameList DEF KInv, CalmInv
  <2>3. (calm => touched = {})' /\ pc' = "apply" /\ page' = 1
    BY <1>1, <1>5 DEF KInv, CalmInv
  <2>4. CalmInv'
    BY <2>1, <2>2, <2>3 DEF CalmInv
  <2>5. DoneMeansDesired'
    BY <2>2 DEF DoneMeansDesired
  <2> QED BY <1>2, <2>4, <2>5 DEF KInv
<1> QED BY <1>4, <1>5 DEF Apply

LEMMA ApplyLostKInv ==
  ASSUME IInv, KInv, NEW op \in todo, NEW i \in Id, ApplyLost(op, i)
  PROVE  KInv'
<1>1. /\ Accepts(zone, op) /\ i \in IdFor(op) /\ zone' = Effect(zone, op, i)
      /\ End("failed") /\ UNCHANGED <<desired, calm, touched, outside, edits>>
  BY DEF ApplyLost
<1>2. Consistent(zone')
  BY <1>1, ConsistentEffect DEF KInv
<1> QED BY <1>1, <1>2, EndKInv

\* After interference a run promises nothing.
LEMMA OutsideKInv ==
  ASSUME KInv, Outside, Consistent(zone')
  PROVE  KInv'
<1>1. ~calm' /\ UNCHANGED <<desired, pc, page, found, todo, group, result, edits>>
  BY Zenon DEF Outside
<1>2. (pc # "read" => page = 1)' /\ (pc # "idle" => Sane(desired) /\ result = "none")'
  BY <1>1, SameList DEF KInv, CalmInv
<1>3. CalmInv'
  BY <1>1, <1>2 DEF CalmInv
<1>4. DoneMeansDesired'
  BY <1>1 DEF DoneMeansDesired
<1> QED BY <1>3, <1>4 DEF KInv

LEMMA EditKInv ==
  ASSUME KInv, NEW list \in Lists, Edit(list)
  PROVE  KInv'
<1>1. /\ pc = "idle" /\ result' = "none" /\ UNCHANGED <<zone, pc, page, calm, touched>>
  BY DEF Edit
<1>2. CalmInv' /\ Consistent(zone)'
  BY <1>1 DEF KInv, CalmInv
<1>3. DoneMeansDesired'
  BY <1>1 DEF DoneMeansDesired
<1> QED BY <1>2, <1>3 DEF KInv

LEMMA StutterKInv ==
  ASSUME KInv, UNCHANGED vars
  PROVE  KInv'
<1>1. /\ zone' = zone /\ desired' = desired /\ pc' = pc /\ page' = page /\ found' = found
      /\ todo' = todo /\ result' = result /\ calm' = calm /\ touched' = touched
  BY DEF vars
<1>2. (calm => touched = {})' /\ (pc # "read" => page = 1)' /\ Consistent(zone)'
  BY <1>1 DEF KInv, CalmInv
<1>3. (pc # "idle" => Sane(desired) /\ result = "none")'
  BY <1>1, SameList DEF KInv, CalmInv
<1>4. (pc = "read" /\ calm => found = SoFar(zone, page))'
  BY <1>1 DEF KInv, CalmInv
<1>5. (pc = "apply" /\ calm => Exact(zone, todo) /\ Ordered(todo))'
  BY <1>1, SamePlan DEF KInv, CalmInv
<1>6. DoneMeansDesired'
  BY <1>1, SameList, SameSync DEF KInv, DoneMeansDesired, InSync
<1> QED BY <1>2, <1>3, <1>4, <1>5, <1>6 DEF KInv, CalmInv

LEMMA NextKInv ==
  ASSUME IInv, KInv, [Next]_vars
  PROVE  KInv'
<1>1. ASSUME UNCHANGED zone PROVE Consistent(zone')
  BY <1>1 DEF KInv
<1>2. CASE Refuse
  BY <1>1, <1>2, EndKInv DEF Refuse
<1>3. CASE Begin
  BY <1>3, BeginKInv
<1>4. CASE Fail
  BY <1>1, <1>4, EndKInv DEF Fail
<1>5. CASE Rejected
  BY <1>1, <1>5, EndKInv DEF Rejected
<1>6. CASE ReadPage(page)
  BY <1>6, ReadPageKInv
<1>7. CASE ReadLast(page)
  BY <1>7, ReadLastKInv
<1>8. CASE \E op \in todo, i \in Id : Apply(op, i) \/ ApplyLost(op, i)
  BY <1>8, ApplyKInv, ApplyLostKInv
<1>9. CASE \E r \in Universe, i \in Id : OtherAdds(r, i)
  <2>1. PICK r \in Universe, i \in Id : OtherAdds(r, i)
    BY <1>9
  <2>2. Consistent(zone \cup {WithId(r, i)})
    BY <2>1, ConsistentPut DEF OtherAdds, KInv
  <2> QED BY <2>1, <2>2, OutsideKInv DEF OtherAdds
<1>10. CASE \E e \in zone : OtherRemoves(e)
  <2>1. PICK e \in zone : OtherRemoves(e)
    BY <1>10
  <2>2. Consistent(zone \ {e})
    BY DEF KInv, Consistent
  <2> QED BY <2>1, <2>2, OutsideKInv DEF OtherRemoves
<1>11. CASE \E e \in zone, r \in Universe : OtherChanges(e, r)
  <2>1. PICK e \in zone, r \in Universe : OtherChanges(e, r)
    BY <1>11
  <2>2. zone \ {e} \in SUBSET zone
    OBVIOUS
  <2>3. Consistent((zone \ {e}) \cup {WithId(r, e.id)})
    BY <2>1, <2>2, ConsistentPut DEF OtherChanges, KInv
  <2> QED BY <2>1, <2>3, OutsideKInv DEF OtherChanges
<1>12. CASE \E list \in Lists : Edit(list)
  BY <1>12, EditKInv
<1>13. CASE UNCHANGED vars
  BY <1>13, StutterKInv
<1> QED BY <1>2, <1>3, <1>4, <1>5, <1>6, <1>7, <1>8, <1>9, <1>10, <1>11, <1>12, <1>13 DEF Next

LEMMA InitKInv == Init => KInv
<1> SUFFICES ASSUME Init PROVE KInv
  OBVIOUS
<1>1. Consistent(zone) /\ pc = "idle" /\ page = 1 /\ result = "none" /\ touched = {}
  BY StartAssumption DEF Init
<1> QED BY <1>1 DEF KInv, CalmInv, DoneMeansDesired

LEMMA SpecKInv == Spec => []KInv
<1>1. IInv /\ KInv /\ [Next]_vars => KInv'
  BY NextKInv
<1> QED BY SpecIInv, InitKInv, <1>1, PTL DEF Spec

-----------------------------------------------------------------------------
(* The theorems about such a run *)

\* For every zone, list that sanity_check accepts and page size: as long as nobody
\* else interferes, the API refuses no request of a run.  _order takes a record
\* out before one goes in that cannot be beside it (_order, apply).
THEOREM NeverInItsOwnWay == Spec => []NoSelfConflict
<1>1. IInv /\ KInv => NoSelfConflict
  BY CalmConflict
<1> QED BY SpecIInv, SpecKInv, <1>1, PTL

\* For every zone, list and page size: a run that reports success, and that nobody
\* has interfered with, has left the zone as the list wants it, however many
\* earlier runs broke off halfway (existing, diff, manage_zone_records).
THEOREM DoneIsDesired == Spec => []DoneMeansDesired
<1>1. KInv => DoneMeansDesired
  BY DEF KInv
<1> QED BY SpecKInv, <1>1, PTL

\* For every zone, list and page size: no request of an undisturbed run takes the
\* last address of a name that shall have one and has no CNAME before or after
\* (_order, "the order that minimizes the risk of downtime").
THEOREM NamesKeepResolving == Spec => KeepsResolving
<1> DEFINE Stays(n) == /\ HasAddress(zone, n) /\ HasAddress(Wanted(desired), n)
                       /\ NoCname(zone, n) /\ NoCname(Wanted(desired), n)
                       => HasAddress(zone', n)
           Act == pc = "apply" /\ calm /\ outside' = outside => \A n \in Names(desired) : Stays(n)
<1>1. ASSUME IInv, KInv, [Next]_vars PROVE [Act]_vars
  <2> SUFFICES ASSUME Next, pc = "apply", calm, outside' = outside, NEW n,
                      HasAddress(zone, n), HasAddress(Wanted(desired), n),
                      NoCname(zone, n), NoCname(Wanted(desired), n)
               PROVE  HasAddress(zone', n)
    BY <1>1
  <2>1. CASE zone' = zone
    BY <2>1
  <2>2. CASE \E op \in todo, i \in Id : Apply(op, i) \/ ApplyLost(op, i)
    BY <1>1, <2>2, Resolves DEF Apply, ApplyLost
  <2>3. CASE Outside
    BY <1>1, <2>3 DEF Outside, IInv, TypeOK
  <2>4. Refuse \/ Begin \/ Fail \/ Rejected \/ ReadPage(page) \/ ReadLast(page)
          \/ (\E list \in Lists : Edit(list)) => zone' = zone
    BY DEF Refuse, Begin, Fail, Rejected, ReadPage, ReadLast, Edit
  <2> QED BY <2>1, <2>2, <2>3, <2>4 DEF Next, OtherAdds, OtherRemoves, OtherChanges
<1>2. IInv /\ KInv /\ [Next]_vars => [Act]_vars
  BY <1>1
<1> QED BY SpecIInv, SpecKInv, <1>2, PTL DEF Spec, KeepsResolving
=============================================================================
