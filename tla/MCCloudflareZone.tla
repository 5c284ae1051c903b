-------------------------- MODULE MCCloudflareZone --------------------------
(* A managed name n that changes between addresses and CNAMEs, a name e that *)
(* is excluded and a name u that salt skips.                                 *)
EXTENDS CloudflareZone, TLC

Rec(t, n, c, ttl) == [type |-> t, name |-> n, content |-> c, ttl |-> ttl, proxied |-> FALSE]

Known == <<Rec("A", "n", "x", 1), Rec("A", "e", "x", 1), Rec("CNAME", "n", "c", 1),
           Rec("TXT", "n", "t", 1), Rec("A", "u", "x", 1), Rec("A", "n", "y", 1)>>

MCUniverse == {Known[i] : i \in {1, 3}}

Item(t, n, c, ttl, m) == [type |-> t, name |-> n, content |-> c, ttl |-> ttl,
                          proxied |-> FALSE, salt_managed |-> m]

MCLists == {
  <<Item("A", "n", "x", 120, TRUE), Item("AAAA", "n", "z", 1, TRUE)>>,
  <<Item("CNAME", "n", "d", 1, TRUE), Item("TXT", "n", "t", 120, TRUE)>>,
  <<Item("A", "n", "y", 1, TRUE), Item("A", "u", "y", 1, FALSE)>>,
  <<Item("A", "n", "x", 1, FALSE), Item("A", "n", "y", 1, TRUE)>>,
  <<Item("A", "e", "y", 1, TRUE)>>,
  <<Item("A", "n", "x", 1, TRUE), Item("CNAME", "n", "c", 1, TRUE)>>}

MCStarts == {{WithId(Known[i], i) : i \in I} : I \in {{1, 2, 6}, {2, 3, 4}, {3, 4, 5}}}
=============================================================================
