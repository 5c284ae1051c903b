------------------------------ MODULE ZoneGoal ------------------------------
(***************************************************************************)
(* What the Cloudflare state promises of a zone: "It adds missing records, *)
(* removes extra records and updates existing records"                     *)
(* (_states/cloudflare.py:6), whatever fails on the way.  Every change it  *)
(* makes puts one record into the zone as the goal has it, or takes one    *)
(* out that the goal does not have; names it must leave alone keep theirs. *)
(* A record that somebody else has changed in place since it was looked at *)
(* is the exception: requests name records by their ids.                   *)
(***************************************************************************)
EXTENDS Naturals

VARIABLES
  zone,     \* the records of the zone
  goal,     \* the records that should be there
  kept,     \* the names whose other records are left alone
  foreign,  \* the records that others have changed in place meanwhile
  others    \* changes made by others so far

vars == <<zone, goal, kept, foreign, others>>

Key(r) == <<r.type, r.name, r.content>>

Init == others = 0

\* A record comes in, in place of the one that differs only in its attributes.
Put(r) ==
  /\ r \in goal \ zone
  /\ zone' = {s \in zone : Key(s) # Key(r)} \cup {r}
  /\ UNCHANGED <<goal, kept, others>>

Drop(r) ==
  /\ r \in zone
  /\ r.name \notin kept
  /\ \A g \in goal : Key(g) # Key(r)
  /\ zone' = zone \ {r}
  /\ UNCHANGED <<goal, kept, others>>

\* A record that somebody changed is removed or written over.
Clobber(r) ==
  /\ r \in zone \cap foreign
  /\ \/ zone' = zone \ {r}
     \/ \E g \in goal : zone' = (zone \ {r}) \cup {g}
  /\ UNCHANGED <<goal, kept, others>>

\* Somebody wants something else.
Retarget == UNCHANGED <<zone, others>>

\* Somebody else changes the zone.
Interfere == others' = others + 1 /\ UNCHANGED <<goal, kept>>

Next == \/ \E r \in goal : Put(r)
        \/ \E r \in zone : Drop(r) \/ Clobber(r)
        \/ Retarget
        \/ Interfere

Spec == Init /\ [][Next]_vars
=============================================================================
