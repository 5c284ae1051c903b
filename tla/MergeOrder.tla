------------------------------ MODULE MergeOrder ------------------------------
(***************************************************************************)
(* store.go promises that records are "merged as a CRDT ... any merge      *)
(* order gives the same result".  Replicas of one room receive the same    *)
(* copies of its record, each in its own order, with repetition, directly  *)
(* or inside what another replica has already merged.                      *)
(***************************************************************************)
EXTENDS RoomRecord, FiniteSetsExt

CONSTANTS Replica,
          Copies    \* sets of record copies that signers can have sent

ASSUME CopiesAssumption ==
  \A U \in Copies : \A u \in U : u \in Record /\ IsFiniteSet(Held(u.Secrets))

VARIABLES upd,      \* the copies of this behaviour
          rec,      \* replica -> its merged record
          seen      \* replica -> the copies in it (history)

mergeVars == <<upd, rec, seen>>

MergeInit ==
  /\ upd \in Copies
  /\ rec = [p \in Replica |-> Blank]
  /\ seen = [p \in Replica |-> {}]

\* A push or a pulled page brings one copy.
Receive(p, u) ==
  /\ rec' = [rec EXCEPT ![p] = Merge(@, u)]
  /\ seen' = [seen EXCEPT ![p] = @ \cup {u}]
  /\ UNCHANGED upd

\* A pull brings what the other replica has merged so far.
Pull(p, q) ==
  /\ Known(rec[q])
  /\ rec' = [rec EXCEPT ![p] = Merge(@, rec[q])]
  /\ seen' = [seen EXCEPT ![p] = @ \cup seen[q]]
  /\ UNCHANGED upd

MergeNext == \/ \E p \in Replica, u \in upd : Receive(p, u)
             \/ \E p, q \in Replica : Pull(p, q)

MergeSpec == MergeInit /\ [][MergeNext]_mergeVars

-----------------------------------------------------------------------------
(* The reference: what store.go's header says of each field, as a function *)
(* of the SET of copies received.                                          *)

NonZero(T) == {t \in T : t # 0}

Highest(G) == CHOOSE g \in G : \A f \in G : ~GenLess(g, f)

HighestHeld(S) == [h \in Hash |-> Highest({u.Secrets[h] : u \in S})]

Newest(s) ==
  LET kept == CHOOSE K \in SUBSET Held(s) :
                /\ Cardinality(K) = Min({MaxSecrets, Cardinality(Held(s))})
                /\ \A k \in K, h \in Held(s) \ K : Before(s, k, h)
  IN [h \in Hash |-> IF h \in kept THEN s[h] ELSE NoGen]

EarliestOf(T) == IF NonZero(T) = {} THEN 0 ELSE Min(NonZero(T))

Expected(S) ==
  [Created |-> EarliestOf({u.Created : u \in S}),
   Expires |-> Max({u.Expires : u \in S}),
   Gen     |-> Highest({u.Gen : u \in S}),
   Revoked |-> EarliestOf({u.Revoked : u \in S}),
   Legacy  |-> \E u \in S : u.Legacy,
   Secrets |-> Newest(HighestHeld(S))]

\* Merging is order-free: whatever the order, the repetition and the detours, a
\* replica holds exactly the field-wise minimum, maximum and newest-secrets cut
\* of the copies it has received (record.merge and record.prune).
MergeIsOrderFree ==
  \A p \in Replica : seen[p] # {} => rec[p] = Expected(seen[p])
=============================================================================
