------------------------------ MODULE MCDnsAuth -----------------------------
(* A host h with an alias c and a device d that only NetBox knows, at the    *)
(* addresses x and y; one of two reverse zones is served.                    *)
EXTENDS DnsAuth, TLC

MCPtrName(a) == IF a = "x" THEN "ptr-x" ELSE "ptr-y"

MCFqdnRank(n) == CASE n = "c" -> 1 [] n = "d" -> 2 [] n = "h" -> 3 [] n = "m" -> 4

RR(n, t, d, ttl) == [name |-> n, type |-> t, data |-> d, ttl |-> ttl]

Rec(n, t, d) == [name |-> n, type |-> t, data |-> d]

Cand(a, n, p) == [address |-> a, target |-> n, priority |-> p]

Device(n, ip4) == [name |-> n, ip4 |-> ip4, ip6 |-> ""]

MCPlans == {
  [own |-> <<Rec("h", "A", "x"), Rec("c", "CNAME", "h")>>,
   candidates |-> {Cand("x", "h", 40), Cand("x", "m", 10)},
   hosts |-> <<Device("d", "y")>>, records |-> <<>>, custom |-> <<>>],
  [own |-> <<>>,
   candidates |-> {Cand("x", "h", 10), Cand("y", "h", 40), Cand("y", "d", 40)},
   hosts |-> <<>>, records |-> <<Rec("h", "A", "y")>>, custom |-> <<<<"m", "x">>>>]}

MCZones == {
  {},
  {RR("h", "A", "y", 60), RR("ptr-x", "PTR", "d", 60)},
  {RR("h", "A", "x", 300), RR("c", "A", "x", 60)},
  {RR("h", "A", "x", 60), RR("h", "A", "y", 60)}}

\* Whatever an rrset holds beside ours has come there by an update.
MCEmptyZones == {{}}

MCReverseZones == <<"r2", "r1">>
=============================================================================
