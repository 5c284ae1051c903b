------------------------------ MODULE DnsAuth -------------------------------
(***************************************************************************)
(* An authoritative nameserver under salt.  A highstate builds the pillar  *)
(* from NetBox (_pillar/netbox.py), renders dns-auth/init.sls, and applies *)
(* one ddns.present (_states/ddns.py) after the other; an administrator    *)
(* calls the ddns module or the absent state beside it.  Each call asks    *)
(* the nameserver first and sends its update afterwards.                   *)
(***************************************************************************)
EXTENDS DnsPlan

CONSTANTS
  Plans,        \* what NetBox, the mine and the pillar may hold
  Zones,        \* contents of the nameserver to begin with
  Host, Address, \* what the administrator may name
  MaxCommands,  \* bound: commands of the administrator
  MaxEdits,     \* bound: changes of the plan
  MaxFaults     \* bound: failing requests

VARIABLES
  zone,      \* the records of the nameserver
  plan,      \* what should be rendered
  stage,     \* where the highstate is: a request to NetBox, "render", "apply" or "idle"
  work,      \* the jobs that salt and the administrator still have to do
  pending,   \* the message each is about to send
  red,       \* a state of this highstate has failed
  result,    \* how the last highstate ended
  settled,   \* ... it was green and complete, and nobody has changed anything since
  raced,     \* an rrset may hold data beside ours: it did to begin with, or an update
             \* was carried out although the answer before it was outdated
  calm,      \* no administrator has been at work, and no query was refused, since the
             \* highstate began
  commands, edits, faults

salt_vars == <<stage, red, result>>
bounds == <<commands, edits, faults>>
vars == <<zone, plan, salt_vars, work, pending, settled, raced, calm, bounds>>

Who == {"salt", "admin"}

NoMessage == [does |-> "none"]

-----------------------------------------------------------------------------
\* The records of each plan.
WantedOf == [p \in Plans |-> {RecordOf(job) : job \in ToSet(Rendered(p))}]

ASSUME PlanAssumption == \A p \in Plans : Cardinality(WantedOf[p]) > 0

\* Lists are lists, and no record is of the type that only queries have.
ASSUME ListAssumption ==
  \A p \in Plans :
    /\ p.own \in Seq(ToSet(p.own)) /\ p.records \in Seq(ToSet(p.records))
    /\ \A r \in ToSet(p.own) \cup ToSet(p.records) : r.type # "ANY"
    /\ p.hosts \in Seq(ToSet(p.hosts)) /\ p.custom \in Seq(ToSet(p.custom))

\* Priorities are numbers, and FqdnRank is the order of different strings.
ASSUME CandidateAssumption ==
  \A p \in Plans :
    /\ IsFiniteSet(p.candidates)
    /\ \A c, d \in AllCandidates(p) :
         /\ c.priority \in Nat /\ FqdnRank(c.target) \in Nat
         /\ FqdnRank(c.target) = FqdnRank(d.target) => c.target = d.target

ASSUME ReverseAssumption == ReverseZones \in Seq(ToSet(ReverseZones))

\* What a nameserver can hold (external): finitely many records, a CNAME alone at its
\* name, one ttl for an rrset.
WellFormed(z) ==
  /\ IsFiniteSet(z)
  /\ \A r \in z : r = [name |-> r.name, type |-> r.type, data |-> r.data, ttl |-> r.ttl]
  /\ \A r, s \in z :
       r.name = s.name => /\ (r.type = "CNAME") = (s.type = "CNAME")
                          /\ r.type = s.type => r.ttl = s.ttl

ASSUME ZoneAssumption == \A z \in Zones : WellFormed(z)

\* No rrset has two records.
Single(z) == \A r, s \in z : r.name = s.name /\ r.type = s.type => r = s

-----------------------------------------------------------------------------
(* The pillar *)

\* The requests of ext_pillar and what may follow each: a host that is no device is
\* searched among the virtual machines, it may have no address, and a virtual
\* machine need not belong to a site.
Following ==
  [device_search |-> {"vm_search", "device"}, vm_search |-> {"device"},
   device |-> {"services"}, services |-> {"interfaces"}, interfaces |-> {"addresses"},
   addresses |-> {"address_interface", "site", "platform"},
   address_interface |-> {"site", "platform"},
   site |-> {"prefixes"}, prefixes |-> {"platform"}, platform |-> {"render"}]

Stages == DOMAIN Following

\* What becomes of an answer with an error status: the pillar cannot be built, it
\* has no NetBox data, it lacks what comes later (tag_list), or nothing.
OnError(s) ==
  CASE s \in {"device_search", "device", "services"} -> "raised"
    [] s = "vm_search" -> "empty"
    [] s \in {"interfaces", "addresses", "address_interface"} -> "partial"
    [] s \in {"site", "prefixes", "platform"} -> "ignored"

\* ... and of no answer at all: the lines that log an error look for its status.
OnSilence(s) == IF s = "platform" THEN "ignored" ELSE "raised"

-----------------------------------------------------------------------------

Init ==
  /\ zone \in Zones
  /\ plan \in Plans
  /\ stage = "idle" /\ red = FALSE
  /\ result = "none"
  /\ work = [p \in Who |-> <<>>]
  /\ pending = [p \in Who |-> NoMessage]
  /\ settled = FALSE /\ raced = ~Single(zone) /\ calm = TRUE
  /\ commands = 0 /\ edits = 0 /\ faults = 0

\* The highstate is over.
Ends(how, full) ==
  /\ stage' = "idle" /\ red' = FALSE
  /\ result' = how
  /\ settled' = (how = "green" /\ full /\ calm)

Highstate ==
  /\ stage = "idle"
  /\ stage' = "device_search"
  /\ calm' = (work["admin"] = <<>>)
  /\ result' = "none"
  /\ UNCHANGED <<zone, plan, raced, red, work, pending, settled, bounds>>

Answers ==
  /\ stage \in Stages
  /\ stage' \in Following[stage]
  /\ UNCHANGED <<zone, plan, raced, red, result, work, pending, settled, calm, bounds>>

\* ext_pillar raises, or the file cannot be rendered: salt refuses the highstate.
Aborts == Ends("red", FALSE)

\* Without tag_list the file renders no records, and the highstate goes on.
Skips == Ends("green", FALSE)

FailsWith(outcome) ==
  \/ outcome = "raised" /\ Aborts
  \/ outcome \in {"empty", "partial"} /\ Skips
  \/ /\ outcome = "ignored"
     /\ stage' \in Following[stage]
     /\ UNCHANGED <<red, result, settled>>

NetBoxFails ==
  /\ stage \in Stages
  /\ faults < MaxFaults /\ faults' = faults + 1
  /\ FailsWith(OnError(stage)) \/ FailsWith(OnSilence(stage))
  /\ UNCHANGED <<zone, plan, raced, work, pending, calm, commands, edits>>

\* NetBox knows no such host, or two.
NotFound ==
  /\ stage \in {"device_search", "vm_search"}
  /\ faults < MaxFaults /\ faults' = faults + 1
  /\ Skips
  /\ UNCHANGED <<zone, plan, raced, work, pending, calm, commands, edits>>

\* get_extra_dns_entries is asked while the file is rendered.
Render ==
  /\ stage = "render"
  /\ stage' = "apply"
  /\ work' = [work EXCEPT !["salt"] = Rendered(plan)]
  /\ UNCHANGED <<zone, plan, raced, red, result, pending, settled, calm, bounds>>

RenderFails ==
  /\ stage = "render"
  /\ faults < MaxFaults /\ faults' = faults + 1
  /\ Aborts
  /\ UNCHANGED <<zone, plan, raced, work, pending, calm, commands, edits>>

\* With test=True no state calls the module.
TestMode ==
  /\ stage = "render"
  /\ Ends("test", FALSE)
  /\ UNCHANGED <<zone, plan, raced, work, pending, calm, bounds>>

-----------------------------------------------------------------------------
(* Calls of update and delete *)

\* Mutant: what was sent is not forgotten.
FinishKeepsPending(p, outcome) ==
  /\ work' = [work EXCEPT ![p] = Tail(@)]
  /\ UNCHANGED <<pending, salt_vars, settled>>

\* A call has ended, and with it perhaps the command.
Finish(p, outcome) ==
  LET job == Head(work[p])
      rest == IF outcome \in job.stop THEN <<>> ELSE Tail(work[p])
      failed == red \/ outcome \in {"refused", "raised"}
  IN /\ work' = [work EXCEPT ![p] = rest]
     /\ pending' = [pending EXCEPT ![p] = NoMessage]
     /\ IF p = "salt" /\ rest = <<>>
          THEN Ends(IF failed THEN "red" ELSE "green", TRUE)
          ELSE /\ red' = IF p = "salt" THEN failed ELSE red
               /\ UNCHANGED <<stage, result, settled>>

\* The nameserver answers the query, and the call decides what to send.
Ask(p) ==
  /\ work[p] # <<>> /\ pending[p] = NoMessage
  /\ LET job == Head(work[p])
         answer == Answer(zone, job.name, job.type)
     IN /\ job.op # "lookup"
        /\ IF Does(job, answer) = "none"
             THEN Finish(p, "nothing")
             ELSE /\ pending' = [pending EXCEPT ![p] = Message(job, answer)]
                  /\ UNCHANGED <<salt_vars, work, settled>>
  /\ UNCHANGED <<zone, plan, raced, calm, bounds>>

\* The nameserver answers the query with an error, which no call looks for: it reads
\* an answer without records.
AskRefused(p) ==
  LET job == Head(work[p]) IN
  /\ work[p] # <<>> /\ pending[p] = NoMessage
  /\ faults < MaxFaults /\ faults' = faults + 1
  /\ calm' = FALSE
  /\ \/ /\ job.op = "lookup"
        /\ work' = [work EXCEPT ![p] = DeleteHost(job.name, {})]
        /\ settled' = FALSE
        /\ UNCHANGED <<salt_vars, pending>>
     \/ job.op = "delete" /\ Finish(p, "nothing")
     \/ /\ job.op = "update"
        /\ pending' = [pending EXCEPT ![p] = Message(job, {})]
        /\ settled' = FALSE
        /\ UNCHANGED <<salt_vars, work>>
  /\ UNCHANGED <<zone, plan, raced, commands, edits>>

\* delete_host: the answer says which PTR records are to be deleted; if the name
\* is an alias, its items have no address and the call raises.
AskAddresses ==
  /\ work["admin"] # <<>> /\ Head(work["admin"]).op = "lookup"
  /\ LET h == Head(work["admin"]).name
         ips == {r.data : r \in RRset(zone, h, "A")}
     IN IF RRset(zone, h, "CNAME") # {}
          THEN Finish("admin", "raised")
          ELSE /\ work' = [work EXCEPT !["admin"] = DeleteHost(h, ips)]
               /\ UNCHANGED <<salt_vars, pending, settled>>
  /\ UNCHANGED <<zone, plan, raced, calm, bounds>>

\* The nameserver carries out the update.
Carried(m) ==
  /\ zone' = Applied(zone, m)
  /\ raced' = (raced \/ m.saw # Answer(zone, m.name, m.type))

\* The nameserver takes the update, or refuses a zone that it does not serve.
Send(p) ==
  /\ pending[p] # NoMessage
  /\ IF pending[p].zone \in Served
       THEN Carried(pending[p]) /\ Finish(p, "sent")
       ELSE UNCHANGED <<zone, raced>> /\ Finish(p, "refused")
  /\ UNCHANGED <<plan, calm, bounds>>

\* A query or an update is lost, or the answer to an update: dnspython raises.
TimesOut(p) ==
  /\ work[p] # <<>>
  /\ faults < MaxFaults /\ faults' = faults + 1
  /\ \/ UNCHANGED <<zone, raced>>
     \/ /\ pending[p] # NoMessage
        /\ pending[p].zone \in Served
        /\ Carried(pending[p])
  /\ Finish(p, "raised")
  /\ UNCHANGED <<plan, calm, commands, edits>>

\* The administrator calls add_host or delete_host, or the absent state.
Command ==
  /\ work["admin"] = <<>>
  /\ commands < MaxCommands /\ commands' = commands + 1
  /\ settled' = FALSE /\ calm' = FALSE
  /\ UNCHANGED <<zone, plan, raced, salt_vars, pending, edits, faults>>

CallAddHost(h, ip) == Command /\ work' = [work EXCEPT !["admin"] = AddHost(h, ip)]

CallDeleteHost(h) == Command /\ work' = [work EXCEPT !["admin"] = LookUp(h)]

Absent(n, t) ==
  /\ Command
  /\ work' = [work EXCEPT !["admin"] =
                 <<Job("delete", "fwd", n, t, "", FALSE, FALSE, {})>>]

\* NetBox, the mine or the pillar changes between two highstates.
Edit(new) ==
  /\ stage = "idle"
  /\ edits < MaxEdits /\ edits' = edits + 1
  /\ plan' = new
  /\ settled' = FALSE /\ result' = "none"
  /\ UNCHANGED <<zone, raced, stage, red, work, pending, calm, commands, faults>>

Step == Highstate \/ Answers \/ Render \/ Ask("salt") \/ Send("salt")

AdminStep == Ask("admin") \/ AskAddresses \/ Send("admin")

Next ==
  \/ Step \/ AdminStep
  \/ NetBoxFails \/ NotFound \/ RenderFails \/ TestMode
  \/ \E p \in Who : TimesOut(p) \/ AskRefused(p)
  \/ \E h \in Host : \/ CallDeleteHost(h)
                     \/ \E ip \in Address : CallAddHost(h, ip)
                     \/ \E t \in {"A", "CNAME"} : Absent(h, t)
  \/ \E new \in Plans : Edit(new)

Spec == Init /\ [][Next]_vars

\* The scheduler starts a highstate again and again and what was started goes on (a
\* step of salt is possible in every state); a test run happens only now and then.
Rendering == stage = "render" /\ stage' = "apply"

FairSpec == Spec /\ []<><<Step>>_vars /\ SF_stage(Rendering)

-----------------------------------------------------------------------------
(* Properties *)

Wanted == WantedOf[plan]

\* A plan with one record of a type for a name, and none beside a CNAME.
Consistent ==
  \A v, w \in Wanted :
    v # w /\ v.name = w.name => v.type # w.type /\ "CNAME" \notin {v.type, w.type}

\* Nothing at the name keeps the nameserver from taking the record.
Free(w) == \A r \in zone : r.name = w.name => (r.type = "CNAME") = (w.type = "CNAME")

\* Data beside ours was there from the beginning, or stems from an update that went
\* out too late.
InPlace(w) == w \in zone /\ (raced \/ RRset(zone, w.name, w.type) = {w})

TypeOK ==
  /\ stage \in Stages \cup {"idle", "render", "apply"}
  /\ result \in {"none", "green", "red", "test"}
  /\ (stage = "apply") = (work["salt"] # <<>>)
  /\ \A p \in Who : pending[p] # NoMessage =>
       work[p] # <<>> /\ pending[p].name = Head(work[p]).name
  /\ \A r \in zone : DOMAIN r = {"name", "type", "data", "ttl"}
  /\ {red, settled, raced, calm} \subseteq BOOLEAN

\* After a green highstate every record that was rendered is there with its ttl, and
\* the data it replaced is gone, whatever failed in earlier highstates; and it stays
\* so through the next one (present, replace_on_change in update).
GreenMeansServed == settled /\ Consistent => \A w \in Wanted : Free(w) => InPlace(w)

\* "If there are multiple RRs we delete them and add our new one" (update,
\* ddns.py:223): with replace_on_change, a green highstate leaves one record.
ReplacedOnChange ==
  settled /\ Consistent => \A w \in Wanted : Free(w) => RRset(zone, w.name, w.type) = {w}

\* A highstate after a green one has nothing to send ("already present", present,
\* ddns.py:49-53): every present recognises what the last one left behind.
QuietWhenSettled ==
  settled /\ Consistent /\ (\A w \in Wanted : Free(w)) => pending["salt"] = NoMessage

\* The PTR record of a public address after a green highstate: the custom target if
\* there is one, or else that of the candidate with the lowest priority, unless an
\* alias stands in its way.  "for duplicate addresses the lowest priority wins"
\* (ptr_records, ffmuc_rdns.py:25).
BestTargets(a) ==
  LET mine == {c \in AllCandidates(plan) : c.address = a}
      custom == {i \in DOMAIN plan.custom : plan.custom[i][2] = a}
  IN IF custom # {} THEN {plan.custom[i][1] : i \in {j \in custom : \A k \in custom : k <= j}}
     ELSE {c.target : c \in {d \in mine : \A e \in mine :
             /\ d.priority <= e.priority
             /\ d.priority = e.priority => FqdnRank(d.target) <= FqdnRank(e.target)}}

PtrIsBest ==
  settled /\ Consistent =>
    \A a \in Public : \A t \in BestTargets(a) :
      LET w == [name |-> PtrName(a), type |-> "PTR", data |-> t, ttl |-> Ttl]
      IN Free(w) => InPlace(w)

\* A name that answers for a type goes on answering while salt changes it, although
\* the decision rests on an older answer and updates are lost (update, ddns.py:235).
KeepsAnswering ==
  [][work'["admin"] = work["admin"] =>
       \A r \in zone : RRset(zone', r.name, r.type) # {}]_vars

\* In the end every record that can be is in place, whatever NetBox and the
\* nameserver failed to answer on the way.
Converges == <>[](Consistent => \A w \in Wanted : Free(w) => InPlace(w))
=============================================================================
