----------------------------- MODULE ReserveProofs -----------------------------
(***************************************************************************)
(* Two promises of meet-reserve that hold without the rest of the signer.  *)
(* store.go: any merge order gives the same result, for every set of       *)
(* replicas, every set of record copies and any length of run.  main.go: a *)
(* signer never accepts a challenge twice, for any clocks, any lifetime    *)
(* and any slack that covers the time a handler may take.                  *)
(***************************************************************************)
EXTENDS MergeOrder, ProofOfWork, RoomRecordProofs

\* What circulates are records, each with a finite set of secrets.
CopiesAreRecords == \A U \in Copies : U \subseteq FiniteRecord

-----------------------------------------------------------------------------
(* What one merged record says about the set of copies it is made of *)

IsEarliest(m, T) ==
  /\ m \in Nat
  /\ m = 0 => NonZero(T) = {}
  /\ m # 0 => m \in T /\ \A t \in NonZero(T) : m <= t

IsLatest(m, T) == m \in T /\ \A t \in T : t <= m

IsHighest(g, G) == g \in G /\ \A f \in G : ~GenLess(g, f)

\* s gives every secret its highest generation among the copies of S.
IsHighestHeld(s, S) ==
  /\ s \in SecretMap
  /\ Finite(s)
  /\ \A h \in Hash : IsHighest(s[h], {u.Secrets[h] : u \in S})

\* r has merged exactly the copies of S; of its secrets, what prune leaves.
IsMerge(r, S) ==
  /\ IsEarliest(r.Created, {u.Created : u \in S})
  /\ IsLatest(r.Expires, {u.Expires : u \in S})
  /\ IsHighest(r.Gen, {u.Gen : u \in S})
  /\ IsEarliest(r.Revoked, {u.Revoked : u \in S})
  /\ r.Legacy = \E u \in S : u.Legacy
  /\ \E s : IsHighestHeld(s, S) /\ Prune(r.Secrets) = Prune(s)

Merged ==
  /\ upd \in Copies
  /\ rec \in [Replica -> FiniteRecord]
  /\ seen \in [Replica -> SUBSET upd]
  /\ \A p \in Replica :
       /\ Prune(rec[p].Secrets) = rec[p].Secrets
       /\ seen[p] = {} => rec[p] = Blank
       /\ seen[p] # {} => IsMerge(rec[p], seen[p])

-----------------------------------------------------------------------------
(* The fields are functions of the set of copies *)

\* The earliest of a set of times is the one EarliestOf names.
LEMMA EarliestUnique ==
  ASSUME NEW T \in SUBSET Nat, NEW m, IsEarliest(m, T)
  PROVE  EarliestOf(T) = m
<1>1. CASE m = 0
  BY <1>1 DEF IsEarliest, EarliestOf
<1>2. CASE m # 0
  <2>1. m \in NonZero(T) /\ \A t \in NonZero(T) : m <= t
    BY <1>2 DEF IsEarliest, NonZero
  <2>2. NonZero(T) \subseteq Nat
    BY DEF NonZero
  <2>3. Min(NonZero(T)) = m
    BY <2>1, <2>2 DEF Min
  <2> QED BY <2>1, <2>3 DEF EarliestOf
<1> QED BY <1>1, <1>2

\* The latest of a set of times is its maximum.
LEMMA LatestUnique ==
  ASSUME NEW T \in SUBSET Nat, NEW m, IsLatest(m, T)
  PROVE  Max(T) = m
<1>1. m \in T /\ \A t \in T : m >= t
  BY DEF IsLatest
<1>2. ASSUME NEW t \in T, \A x \in T : t >= x
      PROVE  t = m
  BY <1>1, <1>2
<1> QED BY <1>1, <1>2 DEF Max

\* The highest of a set of generations is the one Highest names.
LEMMA HighestUnique ==
  ASSUME NEW G \in SUBSET GenOrNone, NEW g, IsHighest(g, G)
  PROVE  Highest(G) = g
<1>1. g \in G /\ \A f \in G : ~GenLess(g, f)
  BY DEF IsHighest
<1>2. ASSUME NEW e \in G, \A f \in G : ~GenLess(e, f)
      PROVE  e = g
  BY <1>1, <1>2, GenTrichotomy
<1> QED BY <1>1, <1>2 DEF Highest

\* prune leaves what store.go's comment says: the newest MaxSecrets secrets.
LEMMA NewestIsPruned ==
  ASSUME NEW s \in SecretMap, Finite(s)
  PROVE  Newest(s) = Prune(s)
<1> DEFINE n == Min({MaxSecrets, Cardinality(Held(s))})
           Good(L) == /\ Cardinality(L) = n
                      /\ \A k \in L, h \in Held(s) \ L : Before(s, k, h)
           kept == CHOOSE L \in SUBSET Held(s) : Good(L)
<1>1. IsFiniteSet(Held(s)) /\ Cardinality(Held(s)) \in Nat /\ MaxSecrets \in Nat
  BY FS_CardinalityType, MaxSecretsAssumption DEF Finite
<1>2. Newest(s) = [h \in Hash |-> IF h \in kept THEN s[h] ELSE NoGen]
  BY DEF Newest
<1>3. CASE Cardinality(Held(s)) <= MaxSecrets
  <2>1. n = Cardinality(Held(s))
    BY <1>1, <1>3 DEF Min
  <2>2. Good(Held(s))
    BY <2>1
  <2>3. ASSUME NEW L \in SUBSET Held(s), Good(L)
        PROVE  L = Held(s)
    BY <1>1, <2>1, <2>3, FS_Subset
  <2>4. kept = Held(s)
    BY <2>2, <2>3
  <2>5. \A h \in Hash : (IF h \in kept THEN s[h] ELSE NoGen) = s[h]
    BY <2>4 DEF Held
  <2>6. Newest(s) = s
    BY <1>2, <2>5 DEF SecretMap
  <2> QED BY <1>3, <2>6 DEF Prune
<1>4. CASE ~(Cardinality(Held(s)) <= MaxSecrets)
  <2> DEFINE K == {h \in Held(s) : Cardinality(AheadOf(s, h)) < MaxSecrets}
  <2>1. Cardinality(Held(s)) > MaxSecrets
    BY <1>1, <1>4
  <2>2. n = MaxSecrets
    BY <1>1, <2>1 DEF Min
  <2>3. IsFiniteSet(K) /\ Cardinality(K) = MaxSecrets
    BY <2>1, FirstSecrets
  <2>4. \A k \in K, h \in Held(s) \ K : Before(s, k, h)
    <3> SUFFICES ASSUME NEW k \in K, NEW h \in Held(s) \ K PROVE Before(s, k, h)
      OBVIOUS
    <3>1. k \in Hash /\ h \in Hash /\ h # k
      BY DEF Held
    <3>2. CASE Before(s, h, k)
      <4>1. Cardinality(AheadOf(s, h)) < Cardinality(AheadOf(s, k))
        BY <3>1, <3>2, AheadGrows
      <4>2. Cardinality(AheadOf(s, h)) \in Nat /\ Cardinality(AheadOf(s, k)) \in Nat
        BY <3>1, <3>2, AheadGrows
      <4> QED BY <1>1, <4>1, <4>2
    <3> QED BY <3>1, <3>2, BeforeTotal
  <2>5. Good(K) /\ K \in SUBSET Held(s)
    BY <2>2, <2>3, <2>4
  <2>6. ASSUME NEW L \in SUBSET Held(s), Good(L)
        PROVE  L = K
    <3>1. IsFiniteSet(L) /\ Cardinality(L) = Cardinality(K)
      BY <1>1, <2>2, <2>3, <2>6, FS_Subset
    <3>2. CASE K \subseteq L
      BY <3>1, <3>2, FS_Subset
    <3>3. CASE L \subseteq K
      BY <2>3, <3>1, <3>3, FS_Subset
    <3>4. CASE ~(K \subseteq L) /\ ~(L \subseteq K)
      <4>1. PICK a \in K : a \notin L
        BY <3>4
      <4>2. PICK b \in L : b \notin K
        BY <3>4
      <4>3. Before(s, a, b)
        BY <2>4, <4>1, <4>2
      <4>4. Before(s, b, a)
        BY <2>6, <4>1, <4>2
      <4>5. a \in Hash /\ b \in Hash
        BY <4>1, <4>2 DEF Held
      <4> QED BY <4>3, <4>4, <4>5, BeforeTotal
    <3> QED BY <3>2, <3>3, <3>4
  <2>7. kept = K
    <3> HIDE DEF K, Good
    <3> QED BY <2>5, <2>6
  <2>8. \A h \in Hash : (IF h \in K THEN s[h] ELSE NoGen) = Prune(s)[h]
    BY PruneAhead DEF Held
  <2>9. Prune(s) \in SecretMap
    BY PruneType
  <2> QED BY <1>2, <2>7, <2>8, <2>9 DEF SecretMap
<1> QED BY <1>3, <1>4

\* So a record that has merged the copies of S, and is pruned, is the reference
\* value for S.
LEMMA MergeIsExpected ==
  ASSUME NEW S \in SUBSET FiniteRecord, S # {}, NEW r \in FiniteRecord,
         Prune(r.Secrets) = r.Secrets, IsMerge(r, S)
  PROVE  r = Expected(S)
<1>1. /\ {u.Created : u \in S} \subseteq Nat /\ {u.Revoked : u \in S} \subseteq Nat
      /\ {u.Expires : u \in S} \subseteq Nat
      /\ {u.Gen : u \in S} \subseteq GenOrNone
      /\ \A h \in Hash : {u.Secrets[h] : u \in S} \subseteq GenOrNone
  BY RecordFields, SecretValues
<1>2. /\ EarliestOf({u.Created : u \in S}) = r.Created
      /\ EarliestOf({u.Revoked : u \in S}) = r.Revoked
  BY <1>1, EarliestUnique DEF IsMerge
<1>3. Max({u.Expires : u \in S}) = r.Expires
  BY <1>1, LatestUnique DEF IsMerge
<1>4. Highest({u.Gen : u \in S}) = r.Gen
  BY <1>1, HighestUnique DEF IsMerge
<1>5. PICK s : IsHighestHeld(s, S) /\ Prune(r.Secrets) = Prune(s)
  BY DEF IsMerge
<1>6. \A h \in Hash : Highest({u.Secrets[h] : u \in S}) = s[h]
  BY <1>1, <1>5, HighestUnique DEF IsHighestHeld
<1>7. HighestHeld(S) = s
  BY <1>5, <1>6 DEF HighestHeld, IsHighestHeld, SecretMap
<1>8. Newest(HighestHeld(S)) = r.Secrets
  BY <1>5, <1>7, NewestIsPruned DEF IsHighestHeld
<1>9. r = [Created |-> r.Created, Expires |-> r.Expires, Gen |-> r.Gen,
           Revoked |-> r.Revoked, Legacy |-> r.Legacy, Secrets |-> r.Secrets]
  BY RecordFields DEF Record
<1> QED BY <1>2, <1>3, <1>4, <1>8, <1>9 DEF Expected, IsMerge

-----------------------------------------------------------------------------
(* Every step keeps the invariant *)

\* A copy has merged itself.
LEMMA MergeOfOne ==
  ASSUME NEW u \in FiniteRecord
  PROVE  IsMerge(u, {u})
<1>1. IsEarliest(u.Created, {x.Created : x \in {u}})
  BY RecordFields DEF IsEarliest, NonZero
<1>2. IsEarliest(u.Revoked, {x.Revoked : x \in {u}})
  BY RecordFields DEF IsEarliest, NonZero
<1>3. IsLatest(u.Expires, {x.Expires : x \in {u}})
  BY RecordFields DEF IsLatest
<1>4. \A g \in GenOrNone : ~GenLess(g, g)
  BY GenShape DEF GenLess
<1>5. IsHighest(u.Gen, {x.Gen : x \in {u}})
  BY <1>4, RecordFields DEF IsHighest
<1>6. u.Legacy = \E x \in {u} : x.Legacy
  BY RecordFields
<1>7. IsHighestHeld(u.Secrets, {u})
  <2>1. u.Secrets \in SecretMap /\ Finite(u.Secrets)
    BY RecordFields
  <2>2. \A h \in Hash : ~GenLess(u.Secrets[h], u.Secrets[h])
    BY <1>4, <2>1, SecretValues
  <2> QED BY <2>1, <2>2 DEF IsHighestHeld, IsHighest
<1> QED BY <1>1, <1>2, <1>3, <1>5, <1>6, <1>7 DEF IsMerge

\* The earlier of two earliest times is the earliest of both sets.
LEMMA EarliestOfBoth ==
  ASSUME NEW S, NEW T, NEW m, NEW n, IsEarliest(m, S), IsEarliest(n, T),
         S \subseteq Nat, T \subseteq Nat
  PROVE  IsEarliest(Earliest(m, n), S \cup T)
BY DEF IsEarliest, Earliest, NonZero

\* The later of two latest times is the latest of both sets.
LEMMA LatestOfBoth ==
  ASSUME NEW S, NEW T, NEW m, NEW n, IsLatest(m, S), IsLatest(n, T),
         S \subseteq Nat, T \subseteq Nat
  PROVE  IsLatest(Latest(m, n), S \cup T)
<1>1. m \in Nat /\ n \in Nat
  BY DEF IsLatest
<1>2. ASSUME NEW t \in S \cup T PROVE t <= Latest(m, n)
  BY <1>1 DEF IsLatest, Latest
<1> QED BY <1>2 DEF IsLatest, Latest

\* The higher of two highest generations is the highest of both sets.
LEMMA HighestOfBoth ==
  ASSUME NEW S \in SUBSET GenOrNone, NEW T \in SUBSET GenOrNone, NEW g, NEW f,
         IsHighest(g, S), IsHighest(f, T)
  PROVE  IsHighest(MaxGen(g, f), S \cup T)
<1>1. /\ g \in S /\ g \in GenOrNone /\ \A e \in S : ~GenLess(g, e)
      /\ f \in T /\ f \in GenOrNone /\ \A e \in T : ~GenLess(f, e)
  BY DEF IsHighest
<1>2. /\ MaxGen(g, f) \in {g, f}
      /\ ~GenLess(MaxGen(g, f), g) /\ ~GenLess(MaxGen(g, f), f)
  BY <1>1, MaxGenBound
<1>3. MaxGen(g, f) \in GenOrNone
  BY <1>1, <1>2
<1>4. \A e \in S : ~GenLess(MaxGen(g, f), e)
  BY <1>1, <1>2, <1>3, GenTransitive
<1>5. \A e \in T : ~GenLess(MaxGen(g, f), e)
  BY <1>1, <1>2, <1>3, GenTransitive
<1> QED BY <1>1, <1>2, <1>4, <1>5 DEF IsHighest

\* Cutting both sides first does not change the cut of their union.
LEMMA PruneBothSides ==
  ASSUME NEW s \in SecretMap, Finite(s), NEW t \in SecretMap, Finite(t)
  PROVE  Prune(Union(Prune(s), Prune(t))) = Prune(Union(s, t))
<1>1. Prune(t) \in SecretMap /\ Finite(Prune(t))
  BY PruneType, PruneBounds
<1>2. Prune(Union(Prune(s), Prune(t))) = Prune(Union(s, Prune(t)))
  BY <1>1, PruneInsideUnion
<1>3. Union(s, Prune(t)) = Union(Prune(t), s)
  BY <1>1, UnionLaws
<1>4. Prune(Union(Prune(t), s)) = Prune(Union(t, s))
  BY PruneInsideUnion
<1>5. Union(t, s) = Union(s, t)
  BY UnionLaws
<1> QED BY <1>2, <1>3, <1>4, <1>5

\* Merging two records merges the sets of copies they are made of.
LEMMA MergeOfMerges ==
  ASSUME NEW S \in SUBSET FiniteRecord, NEW T \in SUBSET FiniteRecord,
         NEW r \in FiniteRecord, NEW o \in FiniteRecord,
         IsMerge(r, S), IsMerge(o, T)
  PROVE  IsMerge(Merge(r, o), S \cup T)
<1> DEFINE m == Merge(r, o)
<1>1. ASSUME NEW A \in SUBSET FiniteRecord
      PROVE  /\ {u.Created : u \in A} \subseteq Nat /\ {u.Revoked : u \in A} \subseteq Nat
             /\ {u.Expires : u \in A} \subseteq Nat /\ {u.Gen : u \in A} \subseteq GenOrNone
             /\ \A h \in Hash : {u.Secrets[h] : u \in A} \subseteq GenOrNone
  BY RecordFields, SecretValues
<1>2. IsEarliest(m.Created, {u.Created : u \in S \cup T})
  <2>1. IsEarliest(m.Created, {u.Created : u \in S} \cup {u.Created : u \in T})
    BY <1>1, EarliestOfBoth DEF IsMerge, Merge
  <2>2. {u.Created : u \in S} \cup {u.Created : u \in T} = {u.Created : u \in S \cup T}
    OBVIOUS
  <2> QED BY <2>1, <2>2
<1>3. IsEarliest(m.Revoked, {u.Revoked : u \in S \cup T})
  <2>1. IsEarliest(m.Revoked, {u.Revoked : u \in S} \cup {u.Revoked : u \in T})
    BY <1>1, EarliestOfBoth DEF IsMerge, Merge
  <2>2. {u.Revoked : u \in S} \cup {u.Revoked : u \in T} = {u.Revoked : u \in S \cup T}
    OBVIOUS
  <2> QED BY <2>1, <2>2
<1>4. IsLatest(m.Expires, {u.Expires : u \in S \cup T})
  <2>1. IsLatest(m.Expires, {u.Expires : u \in S} \cup {u.Expires : u \in T})
    BY <1>1, LatestOfBoth DEF IsMerge, Merge
  <2>2. {u.Expires : u \in S} \cup {u.Expires : u \in T} = {u.Expires : u \in S \cup T}
    OBVIOUS
  <2> QED BY <2>1, <2>2
<1>5. IsHighest(m.Gen, {u.Gen : u \in S \cup T})
  <2>1. IsHighest(m.Gen, {u.Gen : u \in S} \cup {u.Gen : u \in T})
    BY <1>1, HighestOfBoth DEF IsMerge, Merge
  <2>2. {u.Gen : u \in S} \cup {u.Gen : u \in T} = {u.Gen : u \in S \cup T}
    OBVIOUS
  <2> QED BY <2>1, <2>2
<1>6. m.Legacy = \E u \in S \cup T : u.Legacy
  <2>1. m.Legacy = (r.Legacy \/ o.Legacy)
    BY DEF Merge
  <2>2. r.Legacy = (\E u \in S : u.Legacy) /\ o.Legacy = (\E u \in T : u.Legacy)
    BY DEF IsMerge
  <2> QED BY <2>1, <2>2
<1>7. \E s : IsHighestHeld(s, S \cup T) /\ Prune(m.Secrets) = Prune(s)
  <2>1. PICK s : IsHighestHeld(s, S) /\ Prune(r.Secrets) = Prune(s)
    BY DEF IsMerge
  <2>2. PICK t : IsHighestHeld(t, T) /\ Prune(o.Secrets) = Prune(t)
    BY DEF IsMerge
  <2>3. s \in SecretMap /\ Finite(s) /\ t \in SecretMap /\ Finite(t)
    BY <2>1, <2>2 DEF IsHighestHeld
  <2>4. Union(s, t) \in SecretMap /\ Finite(Union(s, t))
    BY <2>3, UnionType, UnionHeld
  <2>5. \A h \in Hash : IsHighest(Union(s, t)[h], {u.Secrets[h] : u \in S \cup T})
    <3> SUFFICES ASSUME NEW h \in Hash
                 PROVE  IsHighest(Union(s, t)[h], {u.Secrets[h] : u \in S \cup T})
      OBVIOUS
    <3>1. IsHighest(MaxGen(s[h], t[h]), {u.Secrets[h] : u \in S} \cup {u.Secrets[h] : u \in T})
      BY <1>1, <2>1, <2>2, HighestOfBoth DEF IsHighestHeld
    <3>2. {u.Secrets[h] : u \in S} \cup {u.Secrets[h] : u \in T}
            = {u.Secrets[h] : u \in S \cup T}
      OBVIOUS
    <3> QED BY <3>1, <3>2 DEF Union
  <2>6. Prune(m.Secrets) = Prune(Union(s, t))
    <3>1. /\ r.Secrets \in SecretMap /\ Finite(r.Secrets)
          /\ o.Secrets \in SecretMap /\ Finite(o.Secrets)
      BY RecordFields
    <3>2. m.Secrets = Prune(Union(r.Secrets, o.Secrets))
      BY DEF Merge
    <3>3. Prune(m.Secrets) = m.Secrets
      BY <3>1, <3>2, UnionType, UnionHeld, PruneIdempotent
    <3>4. Prune(Union(r.Secrets, o.Secrets)) = Prune(Union(Prune(s), Prune(t)))
      BY <2>1, <2>2, <3>1, PruneBothSides
    <3> QED BY <2>3, <3>2, <3>3, <3>4, PruneBothSides
  <2> QED BY <2>4, <2>5, <2>6 DEF IsHighestHeld
<1> QED BY <1>2, <1>3, <1>4, <1>5, <1>6, <1>7 DEF IsMerge

\* The empty record an unknown room starts with adds nothing.
LEMMA MergeIntoBlank ==
  ASSUME NEW o \in FiniteRecord, NEW T \in SUBSET FiniteRecord, IsMerge(o, T)
  PROVE  IsMerge(Merge(Blank, o), T)
<1>1. Blank \in FiniteRecord /\ Blank.Secrets = NoSecrets
  <2>1. Held(NoSecrets) = {} /\ NoSecrets \in SecretMap
    BY DEF Held, NoSecrets, SecretMap
  <2> QED BY <2>1, FS_EmptySet
      DEF Blank, Record, FiniteRecord, Finite, ZeroGen, Generation
<1>2. /\ Earliest(0, o.Created) = o.Created /\ Earliest(0, o.Revoked) = o.Revoked
      /\ Latest(0, o.Expires) = o.Expires
  BY RecordFields DEF Earliest, Latest
<1>3. MaxGen(ZeroGen, o.Gen) = o.Gen
  <2>1. ~GenLess(o.Gen, ZeroGen)
    BY RecordFields DEF GenLess, ZeroGen, Generation
  <2> QED BY <2>1, RecordFields, MaxGenAbsorbs DEF ZeroGen, Generation, GenOrNone
<1>4. (FALSE \/ o.Legacy) = o.Legacy
  BY RecordFields
<1>5. Union(NoSecrets, o.Secrets) = o.Secrets
  <2>1. \A h \in Hash : MaxGen(NoGen, o.Secrets[h]) = o.Secrets[h]
    <3> SUFFICES ASSUME NEW h \in Hash
                 PROVE  MaxGen(NoGen, o.Secrets[h]) = o.Secrets[h]
      OBVIOUS
    <3>1. o.Secrets[h] \in GenOrNone /\ NoGen \in GenOrNone
      BY RecordFields, SecretValues DEF GenOrNone
    <3>2. ~GenLess(o.Secrets[h], NoGen)
      BY <3>1, GenShape DEF GenLess, NoGen, GenOrNone, Generation
    <3> QED BY <3>1, <3>2, MaxGenAbsorbs
  <2> QED BY <2>1, RecordFields DEF Union, NoSecrets, SecretMap
<1>6. Prune(Prune(o.Secrets)) = Prune(o.Secrets)
  BY RecordFields, PruneIdempotent
<1>7. /\ Merge(Blank, o).Created = o.Created
      /\ Merge(Blank, o).Expires = o.Expires
      /\ Merge(Blank, o).Gen = o.Gen
      /\ Merge(Blank, o).Revoked = o.Revoked
      /\ Merge(Blank, o).Legacy = o.Legacy
      /\ Merge(Blank, o).Secrets = Prune(o.Secrets)
  BY <1>2, <1>3, <1>4, <1>5 DEF Merge, Blank
<1> QED BY <1>6, <1>7 DEF IsMerge

\* Whatever a replica has merged so far, merging o adds the copies of o.
LEMMA MergeStep ==
  ASSUME NEW r \in FiniteRecord, NEW S \in SUBSET FiniteRecord,
         S = {} => r = Blank, S # {} => IsMerge(r, S),
         NEW o \in FiniteRecord, NEW T \in SUBSET FiniteRecord, IsMerge(o, T)
  PROVE  /\ Merge(r, o) \in FiniteRecord
         /\ Prune(Merge(r, o).Secrets) = Merge(r, o).Secrets
         /\ IsMerge(Merge(r, o), S \cup T)
<1>1. Merge(r, o) \in FiniteRecord
  BY MergeBounds
<1>2. Prune(Merge(r, o).Secrets) = Merge(r, o).Secrets
  BY RecordFields, UnionType, UnionHeld, PruneIdempotent DEF Merge
<1>3. CASE S = {}
  <2>1. S \cup T = T
    BY <1>3
  <2> QED BY <1>1, <1>2, <1>3, <2>1, MergeIntoBlank
<1>4. CASE S # {}
  BY <1>1, <1>2, <1>4, MergeOfMerges
<1> QED BY <1>3, <1>4

\* Replicas start with nothing.
LEMMA MergedInit ==
  ASSUME CopiesAreRecords
  PROVE  MergeInit => Merged
<1>1. Blank \in FiniteRecord /\ Prune(Blank.Secrets) = Blank.Secrets
  <2>1. Held(NoSecrets) = {} /\ NoSecrets \in SecretMap
    BY DEF Held, NoSecrets, SecretMap
  <2>2. Finite(NoSecrets) /\ Cardinality(Held(NoSecrets)) = 0
    BY <2>1, FS_EmptySet DEF Finite
  <2>3. Prune(NoSecrets) = NoSecrets
    BY <2>2, MaxSecretsAssumption DEF Prune
  <2> QED BY <2>1, <2>2, <2>3 DEF Blank, Record, FiniteRecord, ZeroGen, Generation
<1> QED BY <1>1 DEF MergeInit, Merged

\* A received copy, or a pulled record, keeps the invariant.
LEMMA MergedNext ==
  ASSUME CopiesAreRecords
  PROVE  Merged /\ [MergeNext]_mergeVars => Merged'
<1> SUFFICES ASSUME Merged, [MergeNext]_mergeVars PROVE Merged'
  OBVIOUS
<1>1. upd \subseteq FiniteRecord /\ \A p \in Replica : seen[p] \subseteq FiniteRecord
  BY DEF Merged, CopiesAreRecords
<1>2. ASSUME NEW p \in Replica, NEW o \in FiniteRecord, NEW T \in SUBSET upd, T # {},
             IsMerge(o, T),
             rec' = [rec EXCEPT ![p] = Merge(@, o)],
             seen' = [seen EXCEPT ![p] = @ \cup T],
             upd' = upd
      PROVE  Merged'
  <2>1. /\ Merge(rec[p], o) \in FiniteRecord
        /\ Prune(Merge(rec[p], o).Secrets) = Merge(rec[p], o).Secrets
        /\ IsMerge(Merge(rec[p], o), seen[p] \cup T)
    BY <1>1, <1>2, MergeStep DEF Merged
  <2>2. /\ rec' \in [Replica -> FiniteRecord] /\ seen' \in [Replica -> SUBSET upd']
        /\ upd' \in Copies
    BY <1>2, <2>1 DEF Merged
  <2>3. ASSUME NEW q \in Replica
        PROVE  /\ Prune(rec'[q].Secrets) = rec'[q].Secrets
               /\ seen'[q] = {} => rec'[q] = Blank
               /\ seen'[q] # {} => IsMerge(rec'[q], seen'[q])
    <3>1. CASE q = p
      <4>1. rec'[q] = Merge(rec[p], o) /\ seen'[q] = seen[p] \cup T
        BY <1>2, <3>1 DEF Merged
      <4>2. seen'[q] # {}
        BY <1>2, <4>1
      <4> QED BY <2>1, <4>1, <4>2
    <3>2. CASE q # p
      <4>1. rec'[q] = rec[q] /\ seen'[q] = seen[q]
        BY <1>2, <3>2 DEF Merged
      <4> QED BY <4>1 DEF Merged
    <3> QED BY <3>1, <3>2
  <2>4. Merged' <=> /\ upd' \in Copies
                  /\ rec' \in [Replica -> FiniteRecord]
                  /\ seen' \in [Replica -> SUBSET upd']
                  /\ \A q \in Replica :
                       /\ Prune(rec'[q].Secrets) = rec'[q].Secrets
                       /\ seen'[q] = {} => rec'[q] = Blank
                       /\ seen'[q] # {} => IsMerge(rec'[q], seen'[q])
    BY DEF Merged
  <2> QED BY <2>2, <2>3, <2>4
<1>3. ASSUME NEW p \in Replica, NEW u \in upd, Receive(p, u)
      PROVE  Merged'
  <2>1. u \in FiniteRecord /\ IsMerge(u, {u})
    BY <1>1, MergeOfOne
  <2>2. /\ rec' = [rec EXCEPT ![p] = Merge(@, u)]
        /\ seen' = [seen EXCEPT ![p] = @ \cup {u}] /\ upd' = upd
    BY <1>3 DEF Receive
  <2> QED BY <1>2, <2>1, <2>2
<1>4. ASSUME NEW p \in Replica, NEW q \in Replica, Pull(p, q)
      PROVE  Merged'
  <2>1. seen[q] # {}
    BY <1>4 DEF Pull, Merged, Known, Blank
  <2>2. /\ rec[q] \in FiniteRecord /\ seen[q] \in SUBSET upd
        /\ IsMerge(rec[q], seen[q])
    BY <2>1 DEF Merged
  <2>3. /\ rec' = [rec EXCEPT ![p] = Merge(@, rec[q])]
        /\ seen' = [seen EXCEPT ![p] = @ \cup seen[q]] /\ upd' = upd
    BY <1>4 DEF Pull
  <2> QED BY <1>2, <2>1, <2>2, <2>3
<1>5. CASE UNCHANGED mergeVars
  BY <1>5 DEF mergeVars, Merged, IsMerge
<1> QED BY <1>3, <1>4, <1>5 DEF MergeNext

\* The invariant gives the reference value.
LEMMA MergedIsOrderFree ==
  ASSUME CopiesAreRecords
  PROVE  Merged => MergeIsOrderFree
<1> SUFFICES ASSUME Merged, NEW p \in Replica, seen[p] # {}
             PROVE  rec[p] = Expected(seen[p])
  BY DEF MergeIsOrderFree
<1>1. seen[p] \in SUBSET FiniteRecord
  BY DEF Merged, CopiesAreRecords
<1>2. /\ rec[p] \in FiniteRecord /\ Prune(rec[p].Secrets) = rec[p].Secrets
      /\ IsMerge(rec[p], seen[p])
  BY DEF Merged
<1> QED BY <1>1, <1>2, MergeIsExpected

\* Any merge order gives the same result: in every reachable state of any number
\* of replicas, a replica's record is the field-wise minimum, maximum and
\* newest-secrets cut of the SET of copies it has received, directly or inside
\* another replica's record (record.merge, record.prune, store.go's header).
THEOREM OrderFree == MergeSpec => []MergeIsOrderFree
<1>0. CopiesAreRecords
  BY CopiesAssumption DEF CopiesAreRecords, FiniteRecord, Finite
<1>1. MergeInit => Merged
  BY <1>0, MergedInit
<1>2. Merged /\ [MergeNext]_mergeVars => Merged'
  BY <1>0, MergedNext
<1>3. Merged => MergeIsOrderFree
  BY <1>0, MergedIsOrderFree
<1> QED BY <1>1, <1>2, <1>3, PTL DEF MergeSpec

-----------------------------------------------------------------------------
(* Proof of work: a challenge is spent once *)

\* A spent challenge is remembered, or too old for every request in flight.
Remembered ==
  \A i \in Signer, ch \in Challenge : spent[i][ch] # 0 =>
    /\ issued[ch]
    /\ ch \in used[i] \/ Clock(i) > ts[ch] + TTL + Slack

\* A request in flight captured its clock at most MaxHold ago.
HeldBriefly ==
  \A c \in Client : req[c] # NoRequest =>
    /\ issued[req[c].ch]
    /\ Clock(req[c].at) <= req[c].t + MaxHold

Spending == TypeOK /\ SpentOnce /\ Remembered /\ HeldBriefly

\* The empty signer satisfies the invariant.
LEMMA InitSpending == Init => Spending
BY ClockAssumption, HoldAssumption
   DEF Init, Spending, TypeOK, SpentOnce, Remembered, HeldBriefly

\* A request is not idle exactly when it is being checked.
LEMMA RequestShape ==
  ASSUME TypeOK, NEW c \in Client, req[c] # NoRequest
  PROVE  req[c] \in Request /\ req[c].at \in Signer /\ req[c].ch \in Challenge
                            /\ req[c].t \in Int
BY DEF TypeOK, Request

\* newChallenge touches no spent challenge.
LEMMA NewChallengeStep ==
  ASSUME Spending, NEW i \in Signer, NEW ch \in Challenge, NewChallenge(i, ch)
  PROVE  Spending'
<1> USE DEF Spending, NewChallenge
<1>1. TypeOK'
  BY ClockAssumption DEF TypeOK, Clock
<1>2. SpentOnce' /\ HeldBriefly'
  BY RequestShape DEF SpentOnce, HeldBriefly, Clock, TypeOK
<1>3. Remembered'
  BY DEF Remembered, Clock, TypeOK
<1> QED BY <1>1, <1>2, <1>3

\* A new request has just captured its clock.
LEMMA ArriveStep ==
  ASSUME Spending, NEW c \in Client, NEW i \in Signer, NEW ch \in Challenge,
         Arrive(c, i, ch)
  PROVE  Spending'
<1> USE DEF Spending, Arrive
<1>1. Clock(i) \in Int
  BY ClockAssumption DEF Clock, TypeOK
<1>2. TypeOK'
  BY <1>1 DEF TypeOK, Request
<1>3. SpentOnce' /\ Remembered'
  BY DEF SpentOnce, Remembered, Clock
<1>4. HeldBriefly'
  BY <1>1, HoldAssumption DEF HeldBriefly, Clock, TypeOK
<1> QED BY <1>2, <1>3, <1>4

\* The heart: a challenge that passes the age check and is not in s.used has
\* not been spent, because it would be too old for the captured clock.
LEMMA AcceptStep ==
  ASSUME Spending, NEW c \in Client, Accept(c)
  PROVE  Spending'
<1> DEFINE q == req[c]
<1> USE DEF Spending
<1>1. q # NoRequest
  BY DEF Accept, NoRequest
<1>2. q.at \in Signer /\ q.ch \in Challenge /\ q.t \in Int
  BY <1>1, RequestShape
<1>3. /\ now \in Nat /\ Offset[q.at] \in Int /\ ts[q.ch] \in Int
      /\ TTL \in Nat /\ Slack \in Nat /\ MaxHold \in Nat /\ MaxHold <= Slack
  BY <1>2, ClockAssumption, HoldAssumption DEF TypeOK
<1>4. issued[q.ch] /\ Clock(q.at) <= q.t + MaxHold
  BY <1>1 DEF HeldBriefly
<1>5. q.t <= ts[q.ch] + TTL
  BY <1>2, <1>3 DEF Accept, Fresh
<1>6. ~(Clock(q.at) > ts[q.ch] + TTL + Slack)
  BY <1>2, <1>3, <1>4, <1>5 DEF Clock
<1>7. spent[q.at][q.ch] = 0
  BY <1>2, <1>6 DEF Remembered, Accept
<1>8. /\ used' = [used EXCEPT ![q.at] = @ \cup {q.ch}]
      /\ spent' = [spent EXCEPT ![q.at][q.ch] = 1]
      /\ req' = [req EXCEPT ![c] = NoRequest]
      /\ UNCHANGED <<now, issued, ts>>
  <2>1. spent[q.at][q.ch] + 1 = 1
    BY <1>7
  <2> QED BY <2>1 DEF Accept
<1>9. TypeOK'
  BY <1>2, <1>8 DEF TypeOK
<1>10. SpentOnce'
  BY <1>2, <1>8 DEF SpentOnce, TypeOK
<1>11. Remembered'
  BY <1>2, <1>4, <1>8 DEF Remembered, Clock, TypeOK
<1>12. HeldBriefly'
  BY <1>8 DEF HeldBriefly, Clock, TypeOK
<1> QED BY <1>9, <1>10, <1>11, <1>12

\* A refusal only ends the request.
LEMMA RejectStep ==
  ASSUME Spending, NEW c \in Client, Reject(c)
  PROVE  Spending'
BY DEF Spending, Reject, TypeOK, SpentOnce, Remembered, HeldBriefly, Clock

\* gc forgets only what is too old.
LEMMA GcStep ==
  ASSUME Spending, NEW i \in Signer, Gc(i)
  PROVE  Spending'
<1> USE DEF Spending, Gc
<1>1. TypeOK'
  BY DEF TypeOK
<1>2. SpentOnce' /\ HeldBriefly'
  BY DEF SpentOnce, HeldBriefly, Clock
<1>3. Remembered'
  BY DEF Remembered, Outdated, Clock, TypeOK
<1> QED BY <1>1, <1>2, <1>3

\* A restart forgets the count together with the challenges.
LEMMA RestartStep ==
  ASSUME Spending, NEW i \in Signer, Restart(i)
  PROVE  Spending'
<1> USE DEF Spending, Restart
<1>1. TypeOK'
  BY DEF TypeOK
<1>2. SpentOnce'
  BY DEF SpentOnce, TypeOK
<1>3. Remembered'
  BY DEF Remembered, Clock, TypeOK
<1>4. HeldBriefly'
  BY DEF HeldBriefly, Clock
<1> QED BY <1>1, <1>2, <1>3, <1>4

\* Time moves on, but not past a request's deadline.
LEMMA TickStep ==
  ASSUME Spending, Tick
  PROVE  Spending'
<1> USE DEF Spending
<1>1. /\ now' = now + 1 /\ now \in Nat
      /\ UNCHANGED <<issued, ts, used, req, spent>>
  BY DEF Tick, TypeOK
<1>2. TypeOK' /\ SpentOnce'
  BY <1>1 DEF TypeOK, SpentOnce
<1>3. Remembered'
  <2> SUFFICES ASSUME NEW i \in Signer, NEW ch \in Challenge, spent[i][ch] # 0
               PROVE  issued[ch] /\ (ch \in used[i] \/ (now + 1) + Offset[i] > ts[ch] + TTL + Slack)
    BY <1>1 DEF Remembered, Clock
  <2>1. issued[ch] /\ (ch \in used[i] \/ now + Offset[i] > ts[ch] + TTL + Slack)
    BY DEF Remembered, Clock
  <2>2. Offset[i] \in Int /\ ts[ch] \in Int /\ TTL \in Nat /\ Slack \in Nat
    BY ClockAssumption DEF TypeOK
  <2> QED BY <1>1, <2>1, <2>2
<1>4. HeldBriefly'
  <2> SUFFICES ASSUME NEW c \in Client, req[c] # NoRequest
               PROVE  issued[req[c].ch] /\ (now + 1) + Offset[req[c].at] <= req[c].t + MaxHold
    BY <1>1 DEF HeldBriefly, Clock
  <2>1. issued[req[c].ch] /\ now + Offset[req[c].at] < req[c].t + MaxHold
    BY DEF HeldBriefly, Tick, Clock
  <2>2. Offset[req[c].at] \in Int /\ req[c].t \in Int /\ MaxHold \in Nat
    BY RequestShape, ClockAssumption, HoldAssumption
  <2> QED BY <1>1, <2>1, <2>2
<1> QED BY <1>2, <1>3, <1>4

\* While a signer runs, it accepts every challenge at most once.
THEOREM NoReplay == Spec => []SpentOnce
<1>1. Spending /\ [Next]_vars => Spending'
  <2> SUFFICES ASSUME Spending, [Next]_vars PROVE Spending'
    OBVIOUS
  <2>1. CASE UNCHANGED vars
    BY <2>1 DEF vars, Spending, TypeOK, SpentOnce, Remembered, HeldBriefly, Clock
  <2> QED BY <2>1, NewChallengeStep, ArriveStep, AcceptStep, RejectStep, GcStep,
             RestartStep, TickStep DEF Next
<1>2. Spending => SpentOnce
  BY DEF Spending
<1> QED BY <1>1, <1>2, InitSpending, PTL DEF Spec

================================================================================
