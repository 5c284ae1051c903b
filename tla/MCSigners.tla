------------------------------ MODULE MCSigners ------------------------------
(* Two rotations after the first links, so that rotations can race, and a    *)
(* secret history of three, so that prune cuts through a pair of secrets.    *)
EXTENDS Signers, TLC

CONSTANTS l0, la, lb

MCTie == [l \in Link |-> CASE l = l0 -> 0 [] l = la -> 1 [] l = lb -> 2]

MCHashRank == [h \in Hash |->
                 MCTie[h[1]] * 2 + (IF h[2] = "host" THEN 1 ELSE 0)]

MCSymmetry == Permutations(Signer) \cup Permutations(Client)

Asks(ops) == \A c \in Client : Idle(c) \/ req[c].op \in ops

\* Where the room may be of either kind: what is left out of each, as the long window
\* of a v1 room leaves no space for more.  Its host uses one signer after the other.
V1Life ==
  /\ Asks({"manage"}) /\ Cardinality({c \in Client : ~Idle(c)}) <= 1
  /\ \A i \in Signer : rec[i].Revoked = 0

ShortLife == now <= 4 /\ Asks({"extend", "delete"})

EitherLife == IF legacy THEN V1Life ELSE ShortLife
=============================================================================
