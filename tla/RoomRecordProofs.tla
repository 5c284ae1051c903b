--------------------------- MODULE RoomRecordProofs ---------------------------
(***************************************************************************)
(* Facts about the record's merge that hold for every set of links, every  *)
(* choice of tiebreaks and digests, and every MaxSecrets >= 2.             *)
(***************************************************************************)
EXTENDS RoomRecord, FiniteSetTheorems, TLAPS

GenOrNone == Generation \cup {NoGen}

\* What every copy of a record satisfies, wherever it is: a secret is never
\* newer than the record, carries the tiebreak of its own link, and a live
\* record holds both secrets of its generation.
SecretsFit(r) ==
  \A h \in Hash : r.Secrets[h] # NoGen =>
    /\ ~GenLess(r.Gen, r.Secrets[h])
    /\ r.Secrets[h].tie = Tie[h[1]]

Holds(r, l) == \A h \in Hash : h[1] = l => r.Secrets[h] = r.Gen

GoodRecord(r) ==
  /\ SecretsFit(r)
  /\ ~Known(r) => r.Gen = ZeroGen
  /\ Known(r) /\ r.Revoked = 0 => \E l \in Link : Holds(r, l)

-----------------------------------------------------------------------------
(* Generations are totally ordered *)

\* A generation, or its absence, is a record of two integers.
LEMMA GenShape ==
  ASSUME NEW a \in GenOrNone
  PROVE  /\ a = [ctr |-> a.ctr, tie |-> a.tie]
         /\ a.ctr \in Int /\ a.tie \in Nat
BY DEF GenOrNone, Generation, NoGen

\* Two generations neither of which is below the other are equal.
LEMMA GenTrichotomy ==
  ASSUME NEW a \in GenOrNone, NEW b \in GenOrNone,
         ~GenLess(a, b), ~GenLess(b, a)
  PROVE  a = b
<1>1. a.ctr = b.ctr /\ a.tie = b.tie
  BY GenShape DEF GenLess
<1> QED BY <1>1, GenShape

\* "Not below" is transitive.
LEMMA GenTransitive ==
  ASSUME NEW a \in GenOrNone, NEW b \in GenOrNone, NEW c \in GenOrNone,
         ~GenLess(a, b), ~GenLess(b, c)
  PROVE  ~GenLess(a, c)
BY GenShape DEF GenLess

\* MaxGen returns one of its arguments, and neither argument is above it.
LEMMA MaxGenBound ==
  ASSUME NEW a \in GenOrNone, NEW b \in GenOrNone
  PROVE  /\ MaxGen(a, b) \in {a, b}
         /\ ~GenLess(MaxGen(a, b), a)
         /\ ~GenLess(MaxGen(a, b), b)
BY GenShape DEF GenLess, MaxGen

\* The absent generation is below every present one.
LEMMA NoGenLowest ==
  ASSUME NEW a \in Generation
  PROVE  GenLess(NoGen, a) /\ a # NoGen
BY DEF GenLess, NoGen, Generation

-----------------------------------------------------------------------------
(* prune *)

\* prune leaves a secret as it is or removes it.
LEMMA PruneCases ==
  ASSUME NEW s \in SecretMap, NEW h \in Hash
  PROVE  Prune(s)[h] \in {s[h], NoGen}
BY DEF Prune, SecretMap

\* prune returns a map of secrets.
LEMMA PruneType ==
  ASSUME NEW s \in SecretMap
  PROVE  Prune(s) \in SecretMap
BY DEF Prune, SecretMap

\* prune keeps a secret that at most one other sorts before.
LEMMA PruneKeeps ==
  ASSUME NEW s \in SecretMap, NEW h \in Hash, NEW p,
         {k \in Held(s) : Before(s, k, h)} \subseteq {p}
  PROVE  Prune(s)[h] = s[h]
<1> DEFINE B == {k \in Held(s) : Before(s, k, h)}
<1>1. IsFiniteSet({p}) /\ Cardinality({p}) = 1
  BY FS_Singleton
<1>2. IsFiniteSet(B) /\ Cardinality(B) <= 1
  BY <1>1, FS_Subset
<1>3. Cardinality(B) \in Nat
  BY <1>2, FS_CardinalityType
<1>4. Cardinality(B) < MaxSecrets
  BY <1>2, <1>3, MaxSecretsAssumption
<1> QED BY <1>4 DEF Prune

-----------------------------------------------------------------------------
(* merge *)

\* The union of two maps of secrets is one.
LEMMA UnionType ==
  ASSUME NEW s \in SecretMap, NEW t \in SecretMap
  PROVE  Union(s, t) \in SecretMap
<1>1. \A h \in Hash : s[h] \in GenOrNone /\ t[h] \in GenOrNone
  BY DEF SecretMap, GenOrNone
<1>2. \A h \in Hash : MaxGen(s[h], t[h]) \in GenOrNone
  BY <1>1 DEF MaxGen
<1> QED BY <1>2 DEF Union, SecretMap, GenOrNone

\* Merging two records gives a record (record.merge).
LEMMA MergeType ==
  ASSUME NEW r \in Record, NEW o \in Record
  PROVE  Merge(r, o) \in Record
<1>1. Prune(Union(r.Secrets, o.Secrets)) \in SecretMap
  BY UnionType, PruneType DEF Record
<1>2. MaxGen(r.Gen, o.Gen) \in Generation
  BY DEF MaxGen, Record
<1>3. Earliest(r.Created, o.Created) \in Nat /\ Earliest(r.Revoked, o.Revoked) \in Nat
  BY DEF Earliest, Record
<1>4. Latest(r.Expires, o.Expires) \in Nat
  BY DEF Latest, Record
<1>5. (r.Legacy \/ o.Legacy) \in BOOLEAN
  BY DEF Record
<1> QED BY <1>1, <1>2, <1>3, <1>4, <1>5 DEF Merge, Record

\* In a record whose secrets fit, at most one secret sorts before a secret of
\* the record's generation: the other one of the same link.
LEMMA CurrentSortsFirst ==
  ASSUME NEW s \in SecretMap, NEW g \in Generation, NEW h \in Hash, s[h] = g,
         \A k \in Hash : s[k] # NoGen =>
            ~GenLess(g, s[k]) /\ s[k].tie = Tie[k[1]]
  PROVE  \E p : {k \in Held(s) : Before(s, k, h)} \subseteq {p}
<1> DEFINE p == <<h[1], IF h[2] = "host" THEN "speaker" ELSE "host">>
<1>1. ASSUME NEW k \in Held(s), Before(s, k, h)
      PROVE  k = p
  <2>1. k \in Hash /\ s[k] # NoGen
    BY <1>1 DEF Held
  <2>2. s[k] = g /\ HashRank[k] < HashRank[h]
    BY <1>1, <2>1 DEF Before
  <2>3. s[h] # NoGen
    BY NoGenLowest
  <2>4. k[1] \in Link /\ h[1] \in Link /\ Tie[k[1]] = Tie[h[1]]
    BY <2>1, <2>2, <2>3 DEF Hash
  <2>5. k[1] = h[1]
    BY <2>4, TieAssumption
  <2>6. HashRank[k] \in Nat /\ HashRank[h] \in Nat
    BY <2>1, HashAssumption
  <2>7. k # h
    BY <2>2, <2>6
  <2> QED BY <2>1, <2>5, <2>7 DEF Hash, Role
<1>2. {k \in Held(s) : Before(s, k, h)} \subseteq {p}
  BY <1>1
<1> QED BY <1>2

\* The union of the secrets of two fitting records fits the merged generation.
LEMMA UnionFits ==
  ASSUME NEW r \in Record, NEW o \in Record, SecretsFit(r), SecretsFit(o),
         NEW k \in Hash,
         Union(r.Secrets, o.Secrets)[k] # NoGen
  PROVE  /\ ~GenLess(MaxGen(r.Gen, o.Gen), Union(r.Secrets, o.Secrets)[k])
         /\ Union(r.Secrets, o.Secrets)[k].tie = Tie[k[1]]
<1> DEFINE u == MaxGen(r.Secrets[k], o.Secrets[k])
           g == MaxGen(r.Gen, o.Gen)
<1>1. Union(r.Secrets, o.Secrets)[k] = u
  BY DEF Union
<1>2. /\ r.Secrets[k] \in GenOrNone /\ o.Secrets[k] \in GenOrNone
      /\ r.Gen \in GenOrNone /\ o.Gen \in GenOrNone
  BY DEF Record, SecretMap, GenOrNone
<1>3. /\ u \in {r.Secrets[k], o.Secrets[k]}
      /\ g \in GenOrNone /\ ~GenLess(g, r.Gen) /\ ~GenLess(g, o.Gen)
  BY <1>2, MaxGenBound
<1>4. CASE u = r.Secrets[k]
  <2>1. ~GenLess(r.Gen, u) /\ u.tie = Tie[k[1]]
    BY <1>1, <1>4 DEF SecretsFit
  <2>2. ~GenLess(g, u)
    BY <1>2, <1>3, <1>4, <2>1, GenTransitive
  <2> QED BY <1>1, <2>1, <2>2
<1>5. CASE u = o.Secrets[k]
  <2>1. ~GenLess(o.Gen, u) /\ u.tie = Tie[k[1]]
    BY <1>1, <1>5 DEF SecretsFit
  <2>2. ~GenLess(g, u)
    BY <1>2, <1>3, <1>5, <2>1, GenTransitive
  <2> QED BY <1>1, <2>1, <2>2
<1> QED BY <1>3, <1>4, <1>5

\* prune never cuts a secret of the current generation.
LEMMA PruneKeepsCurrent ==
  ASSUME NEW s \in SecretMap, NEW g \in Generation, NEW h \in Hash, s[h] = g,
         \A k \in Hash : s[k] # NoGen =>
            ~GenLess(g, s[k]) /\ s[k].tie = Tie[k[1]]
  PROVE  Prune(s)[h] = g
<1>1. PICK p : {k \in Held(s) : Before(s, k, h)} \subseteq {p}
  BY CurrentSortsFirst
<1> QED BY <1>1, PruneKeeps

\* If the record with the winning generation holds both secrets of a link, the
\* merged record holds them too.
LEMMA MergeHolds ==
  ASSUME NEW r \in Record, NEW o \in Record, SecretsFit(r), SecretsFit(o),
         NEW l \in Link,
         \/ Holds(r, l) /\ MaxGen(r.Gen, o.Gen) = r.Gen
         \/ Holds(o, l) /\ MaxGen(r.Gen, o.Gen) = o.Gen
  PROVE  Holds(Merge(r, o), l)
<1> DEFINE s == Union(r.Secrets, o.Secrets)
           g == MaxGen(r.Gen, o.Gen)
<1>1. s \in SecretMap
  BY UnionType DEF Record
<1>2. g \in Generation
  BY DEF MaxGen, Record
<1>3. \A k \in Hash : s[k] # NoGen => ~GenLess(g, s[k]) /\ s[k].tie = Tie[k[1]]
  BY UnionFits
<1>4. ASSUME NEW h \in Hash, h[1] = l
      PROVE  Prune(s)[h] = g
  <2>1. g \in {r.Secrets[h], o.Secrets[h]}
    BY <1>4 DEF Holds
  <2>2. /\ r.Secrets[h] \in GenOrNone /\ o.Secrets[h] \in GenOrNone
        /\ s[h] \in GenOrNone /\ g \in GenOrNone
    BY <1>1, <1>2 DEF Record, SecretMap, GenOrNone
  <2>3. s[h] = MaxGen(r.Secrets[h], o.Secrets[h])
    BY DEF Union
  <2>4. ~GenLess(s[h], g)
    BY <2>1, <2>2, <2>3, MaxGenBound
  <2>5. s[h] # NoGen
    BY <1>2, <2>4, NoGenLowest
  <2>6. ~GenLess(g, s[h])
    BY <1>3, <2>5
  <2>7. s[h] = g
    BY <2>2, <2>4, <2>6, GenTrichotomy
  <2> QED BY <1>1, <1>2, <1>3, <2>7, PruneKeepsCurrent
<1> QED BY <1>4 DEF Holds, Merge

\* Merging a good record that exists into a good one gives a good one: whatever
\* is merged with whatever, nobody is locked out (record.merge, record.prune).
THEOREM MergeGood ==
  ASSUME NEW r \in Record, NEW o \in Record,
         GoodRecord(r), GoodRecord(o), Known(o)
  PROVE  GoodRecord(Merge(r, o)) /\ Known(Merge(r, o))
<1> DEFINE m == Merge(r, o)
           s == Union(r.Secrets, o.Secrets)
<1>1. SecretsFit(m)
  <2> SUFFICES ASSUME NEW h \in Hash, m.Secrets[h] # NoGen
               PROVE  ~GenLess(m.Gen, m.Secrets[h]) /\ m.Secrets[h].tie = Tie[h[1]]
    BY DEF SecretsFit
  <2>1. s \in SecretMap
    BY UnionType DEF Record
  <2>2. m.Secrets[h] = s[h] /\ m.Gen = MaxGen(r.Gen, o.Gen)
    BY <2>1, PruneCases DEF Merge
  <2> QED BY <2>2, UnionFits DEF GoodRecord
<1>2. Known(m)
  BY DEF Known, Merge, Earliest, Record
<1>3. ASSUME m.Revoked = 0
      PROVE  \E l \in Link : Holds(m, l)
  <2>1. r.Revoked = 0 /\ o.Revoked = 0
    BY <1>3 DEF Merge, Earliest, Record
  <2>2. PICK l \in Link : Holds(o, l)
    BY <2>1 DEF GoodRecord
  <2>3. CASE MaxGen(r.Gen, o.Gen) = o.Gen
    BY <2>2, <2>3, MergeHolds DEF GoodRecord
  <2>4. CASE MaxGen(r.Gen, o.Gen) # o.Gen
    <3>1. MaxGen(r.Gen, o.Gen) = r.Gen /\ ~GenLess(r.Gen, o.Gen) /\ r.Gen # o.Gen
      BY <2>4 DEF MaxGen
    <3>2. Known(r)
      <4> SUFFICES ASSUME ~Known(r) PROVE FALSE
        OBVIOUS
      <4>1. r.Gen = ZeroGen
        BY DEF GoodRecord
      <4>2. ~GenLess(o.Gen, r.Gen)
        BY <4>1 DEF GenLess, ZeroGen, Record, Generation
      <4>3. r.Gen \in GenOrNone /\ o.Gen \in GenOrNone
        BY DEF Record, GenOrNone
      <4> QED BY <3>1, <4>2, <4>3, GenTrichotomy
    <3>3. PICK k \in Link : Holds(r, k)
      BY <2>1, <3>2 DEF GoodRecord
    <3> QED BY <3>1, <3>3, MergeHolds DEF GoodRecord
  <2> QED BY <2>3, <2>4
<1> QED BY <1>1, <1>2, <1>3 DEF GoodRecord

\* Reading a good record back from the file gives a good one (load).
LEMMA LoadGood ==
  ASSUME NEW r \in Record, GoodRecord(r)
  PROVE  LET p == [r EXCEPT !.Secrets = Prune(@)] IN p \in Record /\ GoodRecord(p)
<1> DEFINE p == [r EXCEPT !.Secrets = Prune(@)]
<1>1. /\ p.Created = r.Created /\ p.Revoked = r.Revoked /\ p.Gen = r.Gen
      /\ p.Secrets = Prune(r.Secrets)
      /\ r.Secrets \in SecretMap /\ r.Gen \in Generation
  BY DEF Record
<1>2. p \in Record
  BY <1>1, PruneType DEF Record
<1>3. \A h \in Hash : p.Secrets[h] \in {r.Secrets[h], NoGen}
  BY <1>1, PruneCases
<1>4. SecretsFit(p)
  BY <1>1, <1>3 DEF GoodRecord, SecretsFit
<1>5. \A l \in Link : Holds(r, l) => Holds(p, l)
  BY <1>1, PruneKeepsCurrent DEF GoodRecord, SecretsFit, Holds
<1> QED BY <1>1, <1>2, <1>4, <1>5 DEF GoodRecord, Known
-----------------------------------------------------------------------------
(* How much prune keeps *)

\* The secrets that prune prefers to h.
AheadOf(s, h) == {k \in Held(s) : Before(s, k, h)}

Finite(s) == IsFiniteSet(Held(s))

\* What the store keeps: no more than MaxSecrets secrets.
Bounded(r) == Finite(r.Secrets) /\ Cardinality(Held(r.Secrets)) <= MaxSecrets

\* prune's order is total: it is decided for any two secrets, and only one way.
LEMMA BeforeTotal ==
  ASSUME NEW s \in SecretMap, NEW h \in Hash, NEW k \in Hash
  PROVE  /\ ~(Before(s, h, k) /\ Before(s, k, h))
         /\ ~Before(s, h, h)
         /\ h # k => Before(s, h, k) \/ Before(s, k, h)
<1>1. s[h] \in GenOrNone /\ s[k] \in GenOrNone
  BY DEF SecretMap, GenOrNone
<1>2. HashRank[h] \in Nat /\ HashRank[k] \in Nat /\ (HashRank[h] = HashRank[k] => h = k)
  BY HashAssumption
<1>3. s[h] = s[k] \/ GenLess(s[h], s[k]) \/ GenLess(s[k], s[h])
  BY <1>1, GenTrichotomy
<1>4. ~(GenLess(s[h], s[k]) /\ GenLess(s[k], s[h])) /\ ~GenLess(s[h], s[h])
  BY <1>1, GenShape DEF GenLess
<1>5. s[h] = s[k] => ~GenLess(s[h], s[k]) /\ ~GenLess(s[k], s[h])
  BY <1>4
<1> QED BY <1>2, <1>3, <1>4, <1>5 DEF Before

\* prune's order is transitive.
LEMMA BeforeTransitive ==
  ASSUME NEW s \in SecretMap, NEW h \in Hash, NEW k \in Hash, NEW j \in Hash,
         Before(s, j, k), Before(s, k, h)
  PROVE  Before(s, j, h)
<1>1. s[h] \in GenOrNone /\ s[k] \in GenOrNone /\ s[j] \in GenOrNone
  BY DEF SecretMap, GenOrNone
<1>2. HashRank[h] \in Nat /\ HashRank[k] \in Nat /\ HashRank[j] \in Nat
  BY HashAssumption
<1>3. GenLess(s[h], s[k]) /\ GenLess(s[k], s[j]) => GenLess(s[h], s[j])
  BY <1>1, GenShape DEF GenLess
<1> QED BY <1>2, <1>3 DEF Before

\* A secret that sorts later has strictly more ahead of it.
LEMMA AheadGrows ==
  ASSUME NEW s \in SecretMap, Finite(s), NEW h \in Hash, NEW k \in Held(s), Before(s, k, h)
  PROVE  /\ AheadOf(s, k) \subseteq AheadOf(s, h)
         /\ Cardinality(AheadOf(s, k)) \in Nat /\ Cardinality(AheadOf(s, h)) \in Nat
         /\ Cardinality(AheadOf(s, k)) < Cardinality(AheadOf(s, h))
<1>1. IsFiniteSet(AheadOf(s, k)) /\ IsFiniteSet(AheadOf(s, h))
  BY FS_Subset DEF Finite, AheadOf
<1>2. k \in Hash
  BY DEF Held
<1>3. AheadOf(s, k) \subseteq AheadOf(s, h)
  BY <1>2, BeforeTransitive DEF AheadOf, Held
<1>4. k \in AheadOf(s, h) /\ k \notin AheadOf(s, k)
  BY <1>2, BeforeTotal DEF AheadOf
<1>5. /\ Cardinality(AheadOf(s, k)) <= Cardinality(AheadOf(s, h))
      /\ Cardinality(AheadOf(s, k)) # Cardinality(AheadOf(s, h))
  BY <1>1, <1>3, <1>4, FS_Subset
<1>6. Cardinality(AheadOf(s, k)) \in Nat /\ Cardinality(AheadOf(s, h)) \in Nat
  BY <1>1, FS_CardinalityType
<1> QED BY <1>3, <1>5, <1>6

\* What prune does to any secret: it stays if fewer than MaxSecrets are ahead.
LEMMA PruneAhead ==
  ASSUME NEW s \in SecretMap, Finite(s), NEW h \in Hash
  PROVE  Prune(s)[h] = IF Cardinality(AheadOf(s, h)) < MaxSecrets THEN s[h] ELSE NoGen
<1>1. CASE s[h] = NoGen
  BY <1>1 DEF Prune
<1>2. CASE s[h] # NoGen
  <2>1. CASE Cardinality(Held(s)) <= MaxSecrets
    <3>1. h \in Held(s) /\ h \notin AheadOf(s, h) /\ AheadOf(s, h) \in SUBSET Held(s)
      BY <1>2, BeforeTotal DEF AheadOf, Held
    <3>2. /\ IsFiniteSet(AheadOf(s, h)) /\ Cardinality(AheadOf(s, h)) <= Cardinality(Held(s))
          /\ Cardinality(AheadOf(s, h)) # Cardinality(Held(s))
      BY <3>1, FS_Subset DEF Finite
    <3>3. Cardinality(AheadOf(s, h)) \in Nat /\ Cardinality(Held(s)) \in Nat
      BY <3>2, FS_CardinalityType DEF Finite
    <3>4. Cardinality(AheadOf(s, h)) < MaxSecrets
      BY <2>1, <3>2, <3>3, MaxSecretsAssumption
    <3>5. Prune(s) = s
      BY <2>1 DEF Prune
    <3> QED BY <3>4, <3>5
  <2>2. CASE ~(Cardinality(Held(s)) <= MaxSecrets)
    BY <2>2 DEF Prune, AheadOf
  <2> QED BY <2>1, <2>2
<1> QED BY <1>1, <1>2

\* There are n numbers below n.
LEMMA CountBelow ==
  ASSUME NEW n \in Nat
  PROVE  IsFiniteSet(0 .. n - 1) /\ Cardinality(0 .. n - 1) = n
<1>1. 0 \in Int /\ n - 1 \in Int
  OBVIOUS
<1>2. /\ IsFiniteSet(0 .. n - 1)
      /\ Cardinality(0 .. n - 1) = IF 0 > n - 1 THEN 0 ELSE (n - 1) - 0 + 1
  BY <1>1, FS_Interval, Zenon
<1> QED BY <1>2

\* Sorted by how many are ahead, the first MaxSecrets of a longer map are
\* exactly MaxSecrets many.
LEMMA FirstSecrets ==
  ASSUME NEW s \in SecretMap, Finite(s), Cardinality(Held(s)) > MaxSecrets
  PROVE  LET first == {h \in Held(s) : Cardinality(AheadOf(s, h)) < MaxSecrets}
         IN IsFiniteSet(first) /\ Cardinality(first) = MaxSecrets
<1> DEFINE S == Held(s)
           M == Cardinality(S)
           place == [h \in S |-> Cardinality(AheadOf(s, h))]
           first == {h \in S : Cardinality(AheadOf(s, h)) < MaxSecrets}
           placeIn == [h \in first |-> place[h]]
<1>1. IsFiniteSet(S) /\ M \in Nat /\ MaxSecrets \in Nat
  BY FS_CardinalityType, MaxSecretsAssumption DEF Finite
<1>2. ASSUME NEW h \in S PROVE place[h] \in 0 .. M - 1
  <2>1. h \notin AheadOf(s, h) /\ AheadOf(s, h) \in SUBSET S
    BY BeforeTotal DEF AheadOf, Held
  <2>2. /\ IsFiniteSet(AheadOf(s, h))
        /\ Cardinality(AheadOf(s, h)) <= M
        /\ Cardinality(AheadOf(s, h)) # M
    BY <1>1, <2>1, FS_Subset
  <2>3. Cardinality(AheadOf(s, h)) \in Nat
    BY <2>2, FS_CardinalityType
  <2> QED BY <1>1, <2>2, <2>3
<1>3. ASSUME NEW h \in S, NEW k \in S, place[h] = place[k] PROVE h = k
  <2> SUFFICES ASSUME h # k PROVE FALSE
    OBVIOUS
  <2>1. h \in Hash /\ k \in Hash
    BY DEF Held
  <2>2. CASE Before(s, h, k)
    BY <1>3, <2>1, <2>2, AheadGrows
  <2>3. CASE Before(s, k, h)
    BY <1>3, <2>1, <2>3, AheadGrows
  <2> QED BY <2>1, <2>2, <2>3, BeforeTotal
<1> HIDE DEF place
<1>4. place \in [S -> 0 .. M - 1]
  BY <1>2 DEF place
<1>5. place \in Injection(S, 0 .. M - 1)
  BY <1>3, <1>4 DEF Injection, IsInjective
<1>6. IsFiniteSet(0 .. M - 1) /\ Cardinality(0 .. M - 1) = M
  BY <1>1, CountBelow
<1>7. place \in Surjection(S, 0 .. M - 1)
  BY <1>5, <1>6, FS_Injection
<1>8. ASSUME NEW h \in first PROVE placeIn[h] \in 0 .. MaxSecrets - 1
  BY <1>1, <1>2, <1>8 DEF place
<1>9. placeIn \in [first -> 0 .. MaxSecrets - 1]
  BY <1>8
<1>10. placeIn \in Injection(first, 0 .. MaxSecrets - 1)
  BY <1>3, <1>9 DEF Injection, IsInjective
<1>11. \A n \in 0 .. MaxSecrets - 1 : \E h \in first : placeIn[h] = n
  <2> SUFFICES ASSUME NEW n \in 0 .. MaxSecrets - 1 PROVE \E h \in first : placeIn[h] = n
    OBVIOUS
  <2>1. n \in 0 .. M - 1
    BY <1>1
  <2>2. PICK h \in S : place[h] = n
    BY <1>7, <2>1 DEF Surjection
  <2>3. h \in first
    BY <1>1, <2>2 DEF place
  <2> QED BY <2>2, <2>3
<1>12. placeIn \in Surjection(first, 0 .. MaxSecrets - 1)
  BY <1>9, <1>11 DEF Surjection
<1>13. IsFiniteSet(0 .. MaxSecrets - 1) /\ Cardinality(0 .. MaxSecrets - 1) = MaxSecrets
  BY <1>1, CountBelow
<1> QED BY <1>10, <1>12, <1>13, FS_Injection

\* A pruned map holds at most MaxSecrets secrets.
LEMMA PruneBounds ==
  ASSUME NEW s \in SecretMap, Finite(s)
  PROVE  Finite(Prune(s)) /\ Cardinality(Held(Prune(s))) <= MaxSecrets
<1>1. CASE Cardinality(Held(s)) <= MaxSecrets
  BY <1>1 DEF Prune
<1>2. CASE ~(Cardinality(Held(s)) <= MaxSecrets)
  <2>1. Cardinality(Held(s)) > MaxSecrets
    BY <1>2, FS_CardinalityType, MaxSecretsAssumption DEF Finite
  <2>2. Held(Prune(s)) = {h \in Held(s) : Cardinality(AheadOf(s, h)) < MaxSecrets}
    BY PruneAhead DEF Held
  <2> QED BY <2>1, <2>2, FirstSecrets, MaxSecretsAssumption DEF Finite
<1> QED BY <1>1, <1>2

-----------------------------------------------------------------------------
(* Unions of secret maps, and prune inside a union *)

\* The larger of two generations, whichever comes first.
LEMMA MaxGenCommutes ==
  ASSUME NEW a \in GenOrNone, NEW b \in GenOrNone
  PROVE  MaxGen(a, b) = MaxGen(b, a)
<1>1. GenLess(a, b) \/ GenLess(b, a) \/ a = b
  BY GenTrichotomy
<1>2. ~(GenLess(a, b) /\ GenLess(b, a))
  BY GenShape DEF GenLess
<1> QED BY <1>1, <1>2 DEF MaxGen

\* The largest of three generations, however they are paired.
LEMMA MaxGenAssociates ==
  ASSUME NEW a \in GenOrNone, NEW b \in GenOrNone, NEW c \in GenOrNone
  PROVE  MaxGen(MaxGen(a, b), c) = MaxGen(a, MaxGen(b, c))
<1>1. GenLess(a, b) /\ GenLess(b, c) => GenLess(a, c)
  BY GenShape DEF GenLess
<1>2. ~GenLess(a, b) /\ ~GenLess(b, c) => ~GenLess(a, c)
  BY GenTransitive
<1> QED BY <1>1, <1>2 DEF MaxGen

\* A generation that is not below another is the larger of the two.
LEMMA MaxGenAbsorbs ==
  ASSUME NEW a \in GenOrNone, NEW b \in GenOrNone, ~GenLess(b, a)
  PROVE  MaxGen(a, b) = b /\ MaxGen(b, a) = b
BY GenTrichotomy, MaxGenCommutes DEF MaxGen

\* The values of a secret map are generations or absent.
LEMMA SecretValues ==
  ASSUME NEW s \in SecretMap, NEW h \in Hash
  PROVE  s[h] \in GenOrNone
BY DEF SecretMap, GenOrNone

\* A union holds what either side holds, so it is finite if both sides are.
LEMMA UnionHeld ==
  ASSUME NEW s \in SecretMap, NEW t \in SecretMap
  PROVE  /\ Held(Union(s, t)) = Held(s) \cup Held(t)
         /\ Finite(s) /\ Finite(t) => Finite(Union(s, t))
<1>1. ASSUME NEW h \in Hash
      PROVE  Union(s, t)[h] # NoGen <=> s[h] # NoGen \/ t[h] # NoGen
  <2>1. s[h] \in GenOrNone /\ t[h] \in GenOrNone
    BY SecretValues
  <2>2. s[h] = NoGen => ~GenLess(t[h], s[h])
    BY <2>1, GenShape DEF GenLess, NoGen, Generation, GenOrNone
  <2>3. s[h] # NoGen => GenLess(NoGen, s[h])
    BY <2>1, NoGenLowest DEF GenOrNone
  <2>4. s[h] # NoGen => MaxGen(s[h], t[h]) # NoGen
    BY <2>1, <2>3, MaxGenBound
  <2>5. s[h] = NoGen => MaxGen(s[h], t[h]) = t[h]
    BY <2>1, <2>2, MaxGenAbsorbs
  <2> QED BY <2>4, <2>5 DEF Union
<1>2. Held(Union(s, t)) = Held(s) \cup Held(t)
  BY <1>1 DEF Held
<1> QED BY <1>2, FS_Union DEF Finite

\* A secret with MaxSecrets others ahead of it is cut.
LEMMA PruneCuts ==
  ASSUME NEW s \in SecretMap, Finite(s), NEW h \in Hash,
         NEW K \in SUBSET AheadOf(s, h), Cardinality(K) = MaxSecrets
  PROVE  Prune(s)[h] = NoGen
<1>1. IsFiniteSet(AheadOf(s, h))
  BY FS_Subset DEF Finite, AheadOf
<1>2. MaxSecrets <= Cardinality(AheadOf(s, h)) /\ Cardinality(AheadOf(s, h)) \in Nat
  BY <1>1, FS_Subset, FS_CardinalityType
<1> QED BY <1>2, PruneAhead, MaxSecretsAssumption

\* Raising k, and leaving h where it is, keeps k ahead of h.
LEMMA RaisedStaysAhead ==
  ASSUME NEW s \in SecretMap, NEW t \in SecretMap, NEW h \in Hash, NEW k \in Hash,
         Before(s, k, h), ~GenLess(t[k], s[k]), t[h] = s[h]
  PROVE  Before(t, k, h)
<1>1. s[h] \in GenOrNone /\ s[k] \in GenOrNone /\ t[k] \in GenOrNone
  BY SecretValues
<1>2. GenLess(s[k], t[k]) \/ t[k] = s[k]
  BY <1>1, GenTrichotomy
<1>3. GenLess(s[h], s[k]) /\ GenLess(s[k], t[k]) => GenLess(s[h], t[k])
  BY <1>1, GenShape DEF GenLess
<1> QED BY <1>2, <1>3 DEF Before

\* What is cut before a union would have been cut after it: prune may be applied
\* to one side first (record.prune inside record.merge).
LEMMA PruneInsideUnion ==
  ASSUME NEW u \in SecretMap, Finite(u), NEW v \in SecretMap, Finite(v)
  PROVE  Prune(Union(Prune(u), v)) = Prune(Union(u, v))
<1> DEFINE p == Prune(u)
           w == Union(p, v)
           x == Union(u, v)
           K == {h \in Held(u) : Cardinality(AheadOf(u, h)) < MaxSecrets}
<1>1. CASE Cardinality(Held(u)) <= MaxSecrets
  BY <1>1 DEF Prune
<1>2. CASE ~(Cardinality(Held(u)) <= MaxSecrets)
  <2>1. Cardinality(Held(u)) > MaxSecrets
    BY <1>2, FS_CardinalityType, MaxSecretsAssumption DEF Finite
  <2>2. IsFiniteSet(K) /\ Cardinality(K) = MaxSecrets
    BY <2>1, FirstSecrets
  <2>3. /\ p \in SecretMap /\ Finite(p)
        /\ w \in SecretMap /\ Finite(w)
        /\ x \in SecretMap /\ Finite(x)
    BY PruneType, PruneBounds, UnionType, UnionHeld
  <2>4. \A h \in Hash : /\ p[h] \in {u[h], NoGen}
                        /\ p[h] # u[h] => u[h] # NoGen /\ h \notin K
                        /\ h \in K => p[h] = u[h] /\ u[h] # NoGen
    BY PruneAhead, PruneCases DEF Held
  <2>5. K \subseteq Hash
    BY DEF Held
  <2> HIDE DEF K, p
  <2>6. \A h \in Hash : w[h] = MaxGen(p[h], v[h]) /\ x[h] = MaxGen(u[h], v[h])
    BY DEF Union
  <2> HIDE DEF w, x
  <2>7. \A h \in Hash : /\ u[h] \in GenOrNone /\ v[h] \in GenOrNone /\ p[h] \in GenOrNone
                        /\ w[h] \in GenOrNone /\ x[h] \in GenOrNone
    BY <2>3, SecretValues
  \* A kept secret is raised by both unions alike.
  <2>8. ASSUME NEW k \in K
        PROVE  /\ w[k] = x[k] /\ ~GenLess(w[k], u[k]) /\ ~GenLess(x[k], u[k])
               /\ k \in Held(w) /\ k \in Held(x)
    <3>1. k \in Hash /\ p[k] = u[k] /\ u[k] # NoGen
      BY <2>4, <2>5
    <3>2. w[k] = x[k] /\ ~GenLess(w[k], u[k])
      BY <2>6, <2>7, <3>1, MaxGenBound
    <3>3. GenLess(NoGen, u[k])
      BY <2>7, <3>1, NoGenLowest DEF GenOrNone
    <3>4. w[k] # NoGen
      BY <3>2, <3>3
    <3> QED BY <3>1, <3>2, <3>4 DEF Held
  \* A kept secret is ahead of a cut one.
  <2>9. ASSUME NEW h \in Hash, p[h] # u[h], NEW k \in K
        PROVE  Before(u, k, h)
    <3>1. h \in Held(u) /\ k \in Held(u) /\ k \in Hash /\ h \notin K
      BY <2>4, <2>5, <2>9 DEF K, Held
    <3>2. CASE Before(u, h, k)
      <4>1. Cardinality(AheadOf(u, h)) < Cardinality(AheadOf(u, k))
        BY <3>1, <3>2, AheadGrows
      <4>2. Cardinality(AheadOf(u, h)) \in Nat /\ Cardinality(AheadOf(u, k)) \in Nat
        BY <3>1, <3>2, AheadGrows
      <4>3. Cardinality(AheadOf(u, h)) < MaxSecrets
        BY <4>1, <4>2, MaxSecretsAssumption DEF K
      <4> QED BY <3>1, <4>3 DEF K
    <3> QED BY <3>1, <3>2, BeforeTotal
  \* A secret that the cut changes loses in both unions.
  <2>10. ASSUME NEW h \in Hash, w[h] # x[h]
         PROVE  K \subseteq AheadOf(w, h) /\ K \subseteq AheadOf(x, h)
    <3>1. p[h] # u[h] /\ p[h] = NoGen
      BY <2>4, <2>6, <2>10
    <3>2. w[h] = v[h]
      <4>1. ~GenLess(v[h], NoGen)
        BY <2>7, GenShape DEF GenLess, NoGen, GenOrNone, Generation
      <4> QED BY <2>6, <2>7, <3>1, <4>1, MaxGenAbsorbs
    <3>3. x[h] = u[h] /\ GenLess(v[h], u[h])
      <4>1. x[h] = u[h]
        BY <2>6, <2>7, <2>10, <3>2, MaxGenBound
      <4>2. u[h] # v[h] /\ ~GenLess(u[h], v[h])
        BY <2>6, <2>7, <2>10, <3>2, <4>1, MaxGenBound
      <4> QED BY <2>7, <4>1, <4>2, GenTrichotomy
    <3>4. ASSUME NEW k \in K
          PROVE  k \in AheadOf(w, h) /\ k \in AheadOf(x, h)
      <4>1. k \in Hash /\ Before(u, k, h)
        BY <2>5, <2>9, <3>1
      <4>2. Before(x, k, h)
        BY <2>3, <2>8, <3>3, <4>1, RaisedStaysAhead
      <4>3. ~GenLess(u[k], u[h])
        BY <4>1, <2>7, GenShape DEF Before, GenLess
      <4>4. GenLess(v[h], w[k])
        <5>1. ~GenLess(w[k], u[h])
          BY <2>7, <2>8, <4>1, <4>3, GenTransitive
        <5> QED BY <2>7, <3>3, <4>1, <5>1, GenShape DEF GenLess
      <4>5. Before(w, k, h)
        BY <3>2, <4>4 DEF Before
      <4> QED BY <2>8, <4>2, <4>5 DEF AheadOf
    <3> QED BY <3>4
  <2>11. ASSUME NEW h \in Hash
         PROVE  Prune(w)[h] = Prune(x)[h]
    <3>1. CASE w[h] # x[h]
      BY <2>2, <2>3, <2>10, <3>1, PruneCuts
    <3>2. CASE w[h] = x[h] /\ AheadOf(w, h) = AheadOf(x, h)
      BY <2>3, <3>2, PruneAhead
    <3>3. CASE w[h] = x[h] /\ AheadOf(w, h) # AheadOf(x, h)
      <4>1. \A j \in Hash : ~GenLess(x[j], w[j])
        <5> SUFFICES ASSUME NEW j \in Hash PROVE ~GenLess(x[j], w[j])
          OBVIOUS
        <5>1. ~GenLess(u[j], NoGen) /\ ~GenLess(u[j], u[j])
          BY <2>7, GenShape DEF GenLess, NoGen, GenOrNone, Generation
        <5>2. ~GenLess(u[j], p[j])
          BY <2>4, <5>1
        <5>3. ~GenLess(x[j], u[j]) /\ ~GenLess(x[j], v[j])
          BY <2>6, <2>7, MaxGenBound
        <5>4. ~GenLess(x[j], p[j])
          BY <2>7, <5>2, <5>3, GenTransitive
        <5> QED BY <2>6, <2>7, <5>3, <5>4, MaxGenBound
      <4>2. AheadOf(w, h) \subseteq AheadOf(x, h)
        <5> SUFFICES ASSUME NEW j \in AheadOf(w, h) PROVE j \in AheadOf(x, h)
          OBVIOUS
        <5>1. j \in Hash /\ w[j] # NoGen /\ Before(w, j, h)
          BY DEF AheadOf, Held
        <5>2. Before(x, j, h)
          BY <2>3, <3>3, <4>1, <5>1, RaisedStaysAhead
        <5>3. x[j] # NoGen
          BY <2>7, <4>1, <5>1, NoGenLowest DEF GenOrNone
        <5> QED BY <5>1, <5>2, <5>3 DEF AheadOf, Held
      <4>3. PICK j \in AheadOf(x, h) : j \notin AheadOf(w, h)
        BY <3>3, <4>2
      <4>4. j \in Hash /\ Before(x, j, h) /\ x[j] # NoGen
        BY <4>3 DEF AheadOf, Held
      <4>5. w[j] # x[j]
        BY <3>3, <4>3, <4>4 DEF AheadOf, Before, Held
      <4>6. ASSUME NEW k \in K
            PROVE  k \in AheadOf(w, h) /\ k \in AheadOf(x, h)
        <5>1. k \in Hash /\ Before(x, k, j)
          BY <2>5, <2>10, <4>4, <4>5 DEF AheadOf
        <5>2. Before(x, k, h)
          BY <2>3, <4>4, <5>1, BeforeTransitive
        <5>3. Before(w, k, h)
          BY <2>8, <3>3, <5>2 DEF Before
        <5> QED BY <2>8, <5>2, <5>3 DEF AheadOf
      <4> QED BY <2>2, <2>3, <4>6, PruneCuts
    <3> QED BY <3>1, <3>2, <3>3
  <2>12. Prune(w) \in SecretMap /\ Prune(x) \in SecretMap
    BY <2>3, PruneType
  <2>13. Prune(w) = Prune(x)
    BY <2>11, <2>12 DEF SecretMap
  <2> QED BY <2>13 DEF w, x, p
<1> QED BY <1>1, <1>2

-----------------------------------------------------------------------------
(* The laws of a CRDT *)

\* A union does not depend on how its parts are grouped, ordered or repeated.
LEMMA UnionLaws ==
  ASSUME NEW s \in SecretMap, NEW t \in SecretMap, NEW u \in SecretMap
  PROVE  /\ Union(s, t) = Union(t, s)
         /\ Union(Union(s, t), u) = Union(s, Union(t, u))
         /\ Union(Union(s, t), t) = Union(s, t)
         /\ Union(s, s) = s
<1>1. \A h \in Hash : s[h] \in GenOrNone /\ t[h] \in GenOrNone /\ u[h] \in GenOrNone
  BY SecretValues
<1>2. Union(s, t) = Union(t, s)
  BY <1>1, MaxGenCommutes DEF Union
<1>3. Union(Union(s, t), u) = Union(s, Union(t, u))
  BY <1>1, MaxGenAssociates DEF Union
<1>4. \A h \in Hash : MaxGen(MaxGen(s[h], t[h]), t[h]) = MaxGen(s[h], t[h])
  <2> SUFFICES ASSUME NEW h \in Hash
               PROVE  MaxGen(MaxGen(s[h], t[h]), t[h]) = MaxGen(s[h], t[h])
    OBVIOUS
  <2>1. ~GenLess(MaxGen(s[h], t[h]), t[h])
    BY <1>1, MaxGenBound
  <2> QED BY <2>1 DEF MaxGen
<1>5. Union(Union(s, t), t) = Union(s, t)
  BY <1>4 DEF Union
<1>6. Union(s, s) = s
  BY DEF Union, MaxGen, SecretMap
<1> QED BY <1>2, <1>3, <1>5, <1>6

\* A map that is small enough already is not cut.
LEMMA PruneIdempotent ==
  ASSUME NEW s \in SecretMap, Finite(s)
  PROVE  Prune(Prune(s)) = Prune(s)
BY PruneBounds, PruneType DEF Prune

\* The minimum of two times, 0 meaning none, as an algebra.
LEMMA EarliestLaws ==
  ASSUME NEW a \in Nat, NEW b \in Nat, NEW c \in Nat
  PROVE  /\ Earliest(a, b) = Earliest(b, a)
         /\ Earliest(Earliest(a, b), c) = Earliest(a, Earliest(b, c))
         /\ Earliest(Earliest(a, b), b) = Earliest(a, b)
         /\ Earliest(a, a) = a
BY DEF Earliest

\* The maximum of two times, as an algebra.
LEMMA LatestLaws ==
  ASSUME NEW a \in Nat, NEW b \in Nat, NEW c \in Nat
  PROVE  /\ Latest(a, b) = Latest(b, a)
         /\ Latest(Latest(a, b), c) = Latest(a, Latest(b, c))
         /\ Latest(Latest(a, b), b) = Latest(a, b)
         /\ Latest(a, a) = a
BY DEF Latest

FiniteRecord == {r \in Record : Finite(r.Secrets)}

\* The fields of a record.
LEMMA RecordFields ==
  ASSUME NEW r \in FiniteRecord
  PROVE  /\ r \in Record
         /\ r.Created \in Nat /\ r.Expires \in Nat /\ r.Revoked \in Nat
         /\ r.Gen \in Generation /\ r.Gen \in GenOrNone
         /\ r.Legacy \in BOOLEAN
         /\ r.Secrets \in SecretMap /\ Finite(r.Secrets)
BY DEF FiniteRecord, Record, GenOrNone

\* Whatever is merged, the result is a record with at most MaxSecrets secrets
\* (record.merge prunes before it returns).
THEOREM MergeBounds ==
  ASSUME NEW r \in FiniteRecord, NEW o \in FiniteRecord
  PROVE  Merge(r, o) \in FiniteRecord /\ Bounded(Merge(r, o))
<1>1. Merge(r, o) \in Record
  BY RecordFields, MergeType
<1>2. Union(r.Secrets, o.Secrets) \in SecretMap /\ Finite(Union(r.Secrets, o.Secrets))
  BY RecordFields, UnionType, UnionHeld
<1>3. Merge(r, o).Secrets = Prune(Union(r.Secrets, o.Secrets))
  BY DEF Merge
<1> QED BY <1>1, <1>2, <1>3, PruneBounds DEF Bounded, FiniteRecord

\* Merging is commutative: two signers that exchange their records agree, the
\* cut secrets included (record.merge, record.prune).
THEOREM MergeCommutes ==
  ASSUME NEW r \in FiniteRecord, NEW o \in FiniteRecord
  PROVE  Merge(r, o) = Merge(o, r)
<1>1. Earliest(r.Created, o.Created) = Earliest(o.Created, r.Created)
      /\ Earliest(r.Revoked, o.Revoked) = Earliest(o.Revoked, r.Revoked)
  BY RecordFields, EarliestLaws
<1>2. Latest(r.Expires, o.Expires) = Latest(o.Expires, r.Expires)
  BY RecordFields, LatestLaws
<1>3. MaxGen(r.Gen, o.Gen) = MaxGen(o.Gen, r.Gen)
  BY RecordFields, MaxGenCommutes
<1>4. (r.Legacy \/ o.Legacy) = (o.Legacy \/ r.Legacy)
  BY RecordFields
<1>5. Union(r.Secrets, o.Secrets) = Union(o.Secrets, r.Secrets)
  BY RecordFields, UnionLaws
<1> QED BY <1>1, <1>2, <1>3, <1>4, <1>5 DEF Merge

\* Merging is associative: it does not matter which of three copies met first,
\* although each merge cuts what it had too many of (record.merge).
THEOREM MergeAssociates ==
  ASSUME NEW r \in FiniteRecord, NEW o \in FiniteRecord, NEW q \in FiniteRecord
  PROVE  Merge(Merge(r, o), q) = Merge(r, Merge(o, q))
<1> DEFINE a == r.Secrets
           b == o.Secrets
           c == q.Secrets
<1>1. /\ Earliest(Earliest(r.Created, o.Created), q.Created)
            = Earliest(r.Created, Earliest(o.Created, q.Created))
      /\ Earliest(Earliest(r.Revoked, o.Revoked), q.Revoked)
            = Earliest(r.Revoked, Earliest(o.Revoked, q.Revoked))
  BY RecordFields, EarliestLaws
<1>2. Latest(Latest(r.Expires, o.Expires), q.Expires)
        = Latest(r.Expires, Latest(o.Expires, q.Expires))
  BY RecordFields, LatestLaws
<1>3. MaxGen(MaxGen(r.Gen, o.Gen), q.Gen) = MaxGen(r.Gen, MaxGen(o.Gen, q.Gen))
  BY RecordFields, MaxGenAssociates
<1>4. ((r.Legacy \/ o.Legacy) \/ q.Legacy) = (r.Legacy \/ (o.Legacy \/ q.Legacy))
  BY RecordFields
<1>5. Prune(Union(Prune(Union(a, b)), c)) = Prune(Union(a, Prune(Union(b, c))))
  <2>1. /\ a \in SecretMap /\ b \in SecretMap /\ c \in SecretMap
        /\ Finite(a) /\ Finite(b) /\ Finite(c)
    BY RecordFields
  <2> HIDE DEF a, b, c
  <2>2. /\ Union(a, b) \in SecretMap /\ Union(b, c) \in SecretMap
        /\ Finite(Union(a, b)) /\ Finite(Union(b, c))
    BY <2>1, UnionType, UnionHeld
  <2>3. Prune(Union(Prune(Union(a, b)), c)) = Prune(Union(Union(a, b), c))
    BY <2>1, <2>2, PruneInsideUnion
  <2>4. Prune(Union(Prune(Union(b, c)), a)) = Prune(Union(Union(b, c), a))
    BY <2>1, <2>2, PruneInsideUnion
  <2>5. Union(a, Prune(Union(b, c))) = Union(Prune(Union(b, c)), a)
    BY <2>1, <2>2, PruneType, UnionLaws
  <2>6. Union(Union(a, b), c) = Union(Union(b, c), a)
    <3>1. Union(Union(a, b), c) = Union(a, Union(b, c))
      BY <2>1, UnionLaws
    <3>2. Union(a, Union(b, c)) = Union(Union(b, c), a)
      BY <2>1, <2>2, UnionLaws
    <3> QED BY <3>1, <3>2
  <2> QED BY <2>3, <2>4, <2>5, <2>6
<1> QED BY <1>1, <1>2, <1>3, <1>4, <1>5 DEF Merge

\* Merging the same copy twice changes nothing: a push that is repeated, or that
\* arrives after a pull brought it, is absorbed (record.merge).
THEOREM MergeAbsorbs ==
  ASSUME NEW r \in FiniteRecord, NEW o \in FiniteRecord
  PROVE  /\ Merge(Merge(r, o), o) = Merge(r, o)
         /\ Merge(r, Merge(r, o)) = Merge(r, o)
<1>1. ASSUME NEW a \in FiniteRecord, NEW b \in FiniteRecord
      PROVE  Merge(Merge(a, b), b) = Merge(a, b)
  <2>1. /\ Earliest(Earliest(a.Created, b.Created), b.Created) = Earliest(a.Created, b.Created)
        /\ Earliest(Earliest(a.Revoked, b.Revoked), b.Revoked) = Earliest(a.Revoked, b.Revoked)
        /\ Latest(Latest(a.Expires, b.Expires), b.Expires) = Latest(a.Expires, b.Expires)
    BY RecordFields, EarliestLaws, LatestLaws
  <2>2. MaxGen(MaxGen(a.Gen, b.Gen), b.Gen) = MaxGen(a.Gen, b.Gen)
    <3>1. ~GenLess(MaxGen(a.Gen, b.Gen), b.Gen)
      BY RecordFields, MaxGenBound
    <3> QED BY <3>1 DEF MaxGen
  <2>3. ((a.Legacy \/ b.Legacy) \/ b.Legacy) = (a.Legacy \/ b.Legacy)
    BY RecordFields
  <2>4. Prune(Union(Prune(Union(a.Secrets, b.Secrets)), b.Secrets))
          = Prune(Union(a.Secrets, b.Secrets))
    BY RecordFields, UnionType, UnionHeld, PruneInsideUnion, UnionLaws
  <2> QED BY <2>1, <2>2, <2>3, <2>4 DEF Merge
<1>2. /\ Merge(r, Merge(r, o)) = Merge(Merge(r, o), r)
      /\ Merge(r, o) = Merge(o, r)
  BY MergeBounds, MergeCommutes
<1> QED BY <1>1, <1>2

\* A record that is small enough is not changed by its own copy: reading a
\* store file back gives what was written.
LEMMA MergeSelf ==
  ASSUME NEW r \in FiniteRecord, Bounded(r)
  PROVE  Merge(r, r) = r /\ Prune(r.Secrets) = r.Secrets
<1>1. Prune(r.Secrets) = r.Secrets
  BY DEF Bounded, Prune
<1>2. Union(r.Secrets, r.Secrets) = r.Secrets
  BY RecordFields, UnionLaws
<1>3. Earliest(r.Created, r.Created) = r.Created /\ Earliest(r.Revoked, r.Revoked) = r.Revoked
      /\ Latest(r.Expires, r.Expires) = r.Expires
  BY RecordFields, EarliestLaws, LatestLaws
<1>4. MaxGen(r.Gen, r.Gen) = r.Gen
  BY DEF MaxGen
<1>5. r = [Created |-> r.Created, Expires |-> r.Expires, Gen |-> r.Gen,
           Revoked |-> r.Revoked, Legacy |-> r.Legacy, Secrets |-> r.Secrets]
  BY RecordFields DEF Record
<1>6. (r.Legacy \/ r.Legacy) = r.Legacy
  BY RecordFields
<1>7. Merge(r, r) = [Created |-> r.Created, Expires |-> r.Expires, Gen |-> r.Gen,
                     Revoked |-> r.Revoked, Legacy |-> r.Legacy, Secrets |-> r.Secrets]
  BY <1>1, <1>2, <1>3, <1>4, <1>6 DEF Merge
<1> QED BY <1>1, <1>5, <1>7
=============================================================================
