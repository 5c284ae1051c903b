------------------------------ MODULE RoomRecord ------------------------------
(***************************************************************************)
(* The replicated room record of meet-reserve and its merge                *)
(* (src/stacks/build/meet-reserve/store.go).                               *)
(*                                                                         *)
(* A LINK is one random host secret; the speaker secret is derived from it *)
(* (main.go, speakerSecret), so the stored hash of a secret is modelled as *)
(* the pair <<link, role>>.  A generation is the 64-bit Gen of the code    *)
(* split into its two halves: the rotation counter and the random tiebreak.*)
(* The tiebreak is drawn together with the new link, hence Tie[link].      *)
(*                                                                         *)
(* A secret that a record does not hold has the generation NoGen, which is *)
(* below every other: the map lookup `cur, ok := r.Secrets[h]` followed by *)
(* "insert or raise" is then one maximum per hash.                         *)
(***************************************************************************)
EXTENDS Integers, FiniteSets

CONSTANTS Link,         \* host secrets that can ever be drawn
          FirstLink,    \* the one of the reservation (v1: the derived one)
          Tie,          \* link -> random low half of its generation
          HashRank,     \* hash -> place of the hex digest in string order
          MaxSecrets    \* maxSecrets

Role == {"host", "speaker"}

Hash == Link \X Role

ASSUME LinkAssumption == FirstLink \in Link

\* The tiebreaks of two rotations differ (32 random bits in the code); the
\* first links have generation 0.
ASSUME TieAssumption ==
  /\ Tie \in [Link -> Nat]
  /\ Tie[FirstLink] = 0
  /\ \A k, l \in Link : Tie[k] = Tie[l] => k = l

\* Digests of different secrets differ, so string order is strict on them.
ASSUME HashAssumption ==
  /\ HashRank \in [Hash -> Nat]
  /\ \A g, h \in Hash : HashRank[g] = HashRank[h] => g = h

\* The current host and speaker secret must fit.
ASSUME MaxSecretsAssumption == MaxSecrets \in Nat /\ MaxSecrets >= 2

-----------------------------------------------------------------------------
(* Generations *)

Generation == [ctr : Nat, tie : Nat]

ZeroGen == [ctr |-> 0, tie |-> 0]

NoGen == [ctr |-> 0 - 1, tie |-> 0]

GenLess(a, b) == a.ctr < b.ctr \/ (a.ctr = b.ctr /\ a.tie < b.tie)

MaxGen(a, b) == IF GenLess(a, b) THEN b ELSE a

\* Mutant: a generation without the random tiebreak.
NextGenCounterOnly(g, l) == [ctr |-> g.ctr + 1, tie |-> 0]

\* nextGen: counter up, fresh low bits.
NextGen(g, l) == [ctr |-> g.ctr + 1, tie |-> Tie[l]]

-----------------------------------------------------------------------------
(* Records *)

SecretMap == [Hash -> Generation \cup {NoGen}]

Record == [Created : Nat, Expires : Nat, Gen : Generation, Revoked : Nat,
           Legacy : BOOLEAN, Secrets : SecretMap]

NoSecrets == [h \in Hash |-> NoGen]

\* The empty record `update` and `mergeRemote` start an unknown room with.
\* Every stored record has a creation time, so it also stands for "no record".
Blank == [Created |-> 0, Expires |-> 0, Gen |-> ZeroGen, Revoked |-> 0,
          Legacy |-> FALSE, Secrets |-> NoSecrets]

Known(r) == r.Created # 0

Held(s) == {h \in Hash : s[h] # NoGen}

\* The two secrets that one reservation, migration or rotation writes.
LinkSecrets(l, g) == [h \in Hash |-> IF h[1] = l THEN g ELSE NoGen]

\* current: a secret of the record that still works.
Current(r, h) == r.Secrets[h] # NoGen /\ r.Secrets[h] = r.Gen

\* The earliest of two times, where 0 means "not set".
Earliest(a, b) == IF b # 0 /\ (a = 0 \/ b < a) THEN b ELSE a

Latest(a, b) == IF b > a THEN b ELSE a

\* prune's sort order: k is kept in preference to h.
Before(s, k, h) == \/ GenLess(s[h], s[k])
                   \/ s[k] = s[h] /\ HashRank[k] < HashRank[h]

\* Mutants: the cut keeps whichever secrets a map iteration meets first, or
\* the oldest ones.
PruneUnordered(s) ==
  LET held == Held(s)
      kept == CHOOSE K \in SUBSET held : Cardinality(K) = MaxSecrets
  IN IF Cardinality(held) <= MaxSecrets THEN s
     ELSE [h \in Hash |-> IF h \in kept THEN s[h] ELSE NoGen]

PruneOldestFirst(s) ==
  LET held == Held(s)
  IN IF Cardinality(held) <= MaxSecrets THEN s
     ELSE [h \in Hash |->
             IF Cardinality({k \in held : Before(s, h, k)}) < MaxSecrets
               THEN s[h] ELSE NoGen]

\* prune: beyond MaxSecrets, a secret stays when fewer than that sort before it.
Prune(s) ==
  LET held == Held(s)
  IN IF Cardinality(held) <= MaxSecrets THEN s
     ELSE [h \in Hash |->
             IF Cardinality({k \in held : Before(s, k, h)}) < MaxSecrets
               THEN s[h] ELSE NoGen]

Union(s, t) == [h \in Hash |-> MaxGen(s[h], t[h])]

\* merge: r with o folded in.
Merge(r, o) ==
  [Created |-> Earliest(r.Created, o.Created),
   Expires |-> Latest(r.Expires, o.Expires),
   Gen     |-> MaxGen(r.Gen, o.Gen),
   Revoked |-> Earliest(r.Revoked, o.Revoked),
   Legacy  |-> r.Legacy \/ o.Legacy,
   Secrets |-> Prune(Union(r.Secrets, o.Secrets))]

\* merge also reports a change when prune only cut off what o had brought.
Overflows(r, o) ==
  Cardinality({h \in Hash : r.Secrets[h] # NoGen \/ o.Secrets[h] # NoGen}) > MaxSecrets

-----------------------------------------------------------------------------
(* The records that the handlers hand to store.update *)

\* handleReserve (legacy = FALSE) and the migration of a v1 room.
Reservation(t, exp, legacy) ==
  [Created |-> t, Expires |-> exp, Gen |-> ZeroGen, Revoked |-> 0,
   Legacy |-> legacy, Secrets |-> LinkSecrets(FirstLink, ZeroGen)]

\* Mutant: the extension is not capped.
ExtendedUncapped(r, d, t, ahead) == [r EXCEPT !.Expires = @ + d]

\* handleExtend: d more, never further than `ahead` past the request's clock t.
Extended(r, d, t, ahead) ==
  LET wanted == r.Expires + d
      capped == IF wanted < t + ahead THEN wanted ELSE t + ahead
  IN [r EXCEPT !.Expires = Latest(@, capped)]

\* handleRotate: new generation, new host and speaker secret.
Rotated(r, l) ==
  LET g == NextGen(r.Gen, l)
  IN [r EXCEPT !.Gen = g,
               !.Secrets = [h \in Hash |-> IF h[1] = l THEN g ELSE @[h]]]

\* revoke: a v1 room nobody migrated gets a bare tombstone.
Tombstone(r, t) ==
  LET base == IF Known(r) THEN r ELSE [Blank EXCEPT !.Created = t, !.Legacy = TRUE]
  IN [base EXCEPT !.Revoked = IF @ = 0 THEN t ELSE @]
=============================================================================
