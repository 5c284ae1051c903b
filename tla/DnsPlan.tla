------------------------------ MODULE DnsPlan -------------------------------
(***************************************************************************)
(* What dns-auth/init.sls renders: the records of the nodes and aliases,   *)
(* those of get_extra_dns_entries (extra_dns_entries.py), custom records   *)
(* and the PTR records of ptr_records (ffmuc_rdns.py).                     *)
(*                                                                         *)
(* A plan is [own, candidates, hosts, records, custom]: records of nodes   *)
(* and aliases, candidates for PTR records [address, target, priority],    *)
(* the devices NetBox lists [name, ip4, ip6] ("" for none), custom_records *)
(* and the pairs <<target, address>> that override candidates.             *)
(***************************************************************************)
EXTENDS Ddns

CONSTANTS
  Public,       \* addresses inside a configured reverse zone
  FqdnRank(_)   \* the order of names as strings

\* get_extra_dns_entries puts the devices into a dict: the last of a name counts.
Entries(hosts) ==
  {hosts[i] : i \in {j \in DOMAIN hosts : \A k \in DOMAIN hosts :
                       k > j => hosts[k].name # hosts[j].name}}

ExtraRecords(hosts) ==
  {[name |-> e.name, type |-> "A", data |-> e.ip4] : e \in {f \in Entries(hosts) : f.ip4 # ""}}
  \cup
  {[name |-> e.name, type |-> "AAAA", data |-> e.ip6] : e \in {f \in Entries(hosts) : f.ip6 # ""}}

ExtraCandidates(hosts) ==
  {[address |-> r.data, target |-> r.name, priority |-> 30] : r \in ExtraRecords(hosts)}

\* All that ptr_records is called with.
AllCandidates(plan) == plan.candidates \cup ExtraCandidates(plan.hosts)

\* Mutant: the highest priority number comes first.
BeforeReversed(c, d) == c.priority > d.priority

\* The sort key of ptr_records.
Before(c, d) ==
  \/ c.priority < d.priority
  \/ c.priority = d.priority /\ FqdnRank(c.target) < FqdnRank(d.target)

\* The candidates in their order.
Sorted(candidates) ==
  CHOOSE s \in SetToSeqs(candidates) : \A i, j \in DOMAIN s : i < j => ~Before(s[j], s[i])

\* selected: setdefault keeps the first candidate of an address, ...
Chosen(candidates) ==
  LET s == Sorted(candidates) IN
  {<<s[i].address, s[i].target>> :
     i \in {j \in DOMAIN s : \A k \in DOMAIN s : k < j => s[k].address # s[j].address}}

\* ... then the custom targets take the place of what is there, the last one for good.
Overridden(sel, custom) ==
  {s \in sel : \A i \in DOMAIN custom : custom[i][2] # s[1]} \cup
  {<<custom[i][2], custom[i][1]>> :
     i \in {j \in DOMAIN custom : \A k \in DOMAIN custom : k > j => custom[k][2] # custom[j][2]}}

\* ptr_records: one record for each address that has a reverse zone.
PtrRecords(candidates, custom) ==
  {[name |-> PtrName(s[1]), type |-> "PTR", data |-> s[2]] :
     s \in {t \in Overridden(Chosen(candidates), custom) : t[1] \in Public}}

\* _zone_for: the smallest reverse zone there is.
ZoneFor == ReverseZones[CHOOSE i \in DOMAIN ReverseZones :
                          /\ ReverseZones[i] \in Served
                          /\ \A j \in 1 .. i - 1 : ReverseZones[j] \notin Served]

\* All the ddns.present states, in the order of the file.
Rendered(plan) ==
  LET extra == ExtraRecords(plan.hosts)
      ptrs == PtrRecords(AllCandidates(plan), plan.custom)
      all == plan.own \o SetToSeq(extra) \o plan.records \o SetToSeq(ptrs)
      Zone(r) == IF r.type = "PTR" THEN ZoneFor ELSE "fwd"
  IN [i \in DOMAIN all |-> Job("update", Zone(all[i]), all[i].name, all[i].type,
                               all[i].data, FALSE, TRUE, {})]
=============================================================================
