------------------------------ MODULE MCReserve ------------------------------
(* The two parts of meet-reserve that stand on their own, one at a time.     *)
(*                                                                           *)
(* The proof of work: two signers whose clocks differ by the slack, two      *)
(* requests at a time.  The merge of records: three copies out of those that *)
(* up to two rotations, an extension and deletions at different times leave  *)
(* behind.                                                                   *)
EXTENDS ProofOfWork, MergeOrder, TLC

CONSTANTS s1, s2, l0, la, lb

VARIABLE part

MCOffset == [i \in Signer |-> IF i = s1 THEN 0 ELSE 1]

MCSymmetry == Permutations(Client) \cup Permutations(Challenge)

MCTie == [l \in Link |-> CASE l = l0 -> 0 [] l = la -> 1 [] l = lb -> 2]

MCHashRank == [h \in Link \X {"host", "speaker"} |->
                 MCTie[h[1]] * 2 + (IF h[2] = "host" THEN 1 ELSE 0)]

First == {Reservation(1, 2, FALSE)}

\* r rotated with l, as update stores it.
RotateStored(r, l) == Merge(r, Rotated(r, l))

Once == {RotateStored(r, l) : r \in First, l \in {la, lb}}

Twice == {RotateStored(RotateStored(r, la), lb) : r \in First}
           \cup {RotateStored(RotateStored(r, lb), la) : r \in First}

Chains == First \cup Once \cup Twice

Stored ==
  Chains \cup {[r EXCEPT !.Expires = 3] : r \in First \cup Once}
         \cup {Tombstone(r, 2) : r \in Chains}
         \cup {Tombstone(r, 3) : r \in First \cup {Blank}}

MCCopies == {{a, b, c} : a, b, c \in Stored}

PartsInit ==
  /\ Init
  /\ \/ part = "merge" /\ MergeInit
     \/ /\ part = "work" /\ upd = {}
        /\ rec = [p \in Replica |-> Blank] /\ seen = [p \in Replica |-> {}]

PartsNext ==
  \/ part = "merge" /\ MergeNext /\ UNCHANGED <<part, vars>>
  \/ part = "work" /\ Next /\ UNCHANGED <<part, mergeVars>>

PartsSpec == PartsInit /\ [][PartsNext]_<<part, vars, mergeVars>>
=============================================================================
