---------------------------- MODULE MCSignedRooms ----------------------------
(* Lives of a room: rotated and deleted, or a v1 room that is migrated and    *)
(* then rotated.                                                              *)
EXTENDS SignedRooms, TLC

Active(g) == [status |-> "active", gen |-> g, expires |-> MaxTime]

Deleted(g) == [status |-> "deleted", gen |-> g, expires |-> MaxTime]

Unmigrated == [status |-> "none", gen |-> 0, expires |-> 0]

Rotated == <<Active(0), Active(1), Deleted(1)>>

Migrated == <<Unmigrated, Active(0), Active(1)>>

\* A v1 room whose lookups fail; a room whose signers lag.
MCLives ==
  {[legacy |-> TRUE, nameEnd |-> 3, versions |-> Migrated, lag |-> 0, mayFail |-> TRUE],
   [legacy |-> FALSE, nameEnd |-> 1, versions |-> Rotated, lag |-> 1, mayFail |-> FALSE]}

\* A v1 room whose lookups succeed.
MCMigrating ==
  {[legacy |-> TRUE, nameEnd |-> 4, versions |-> Migrated, lag |-> 0, mayFail |-> FALSE]}

MCSymmetry == Permutations(Client)
=============================================================================
