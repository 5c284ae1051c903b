----------------------------- MODULE MCPeerSync -----------------------------
(* s1 pulls from s2, whose clock may be wrong.  Pages of one record, so that   *)
(* two changes already need a second page, and a crash of either.             *)
EXTENDS PeerSync, TLC

CONSTANTS s1, s2,
          Ahead,      \* how far the clock of s2 may be ahead
          Behind      \* how far it may be behind

MCSkews == [i \in Signer |-> IF i = s2 THEN {0, Ahead, -Behind} ELSE {0}]

MCOneWay == {<<s1, s2>>}
=============================================================================
