--------------------------- MODULE CloudflareZone ---------------------------
(***************************************************************************)
(* _states/cloudflare.py: one zone at Cloudflare is brought to the list of *)
(* records that salt renders.  A run reads the zone page by page, computes *)
(* the difference once and sends one request per change; any request may   *)
(* fail and ends the run.  Others change the zone at any time.             *)
(*                                                                         *)
(* The attributes of a record are its ttl and proxied; an MX priority is   *)
(* one more of the kind.  Contents are in the form the API lists them.     *)
(* The API itself is external: it refuses a record that the zone has, and  *)
(* a CNAME beside an address or another CNAME.                             *)
(***************************************************************************)
EXTENDS Naturals, Sequences, FiniteSets

CONSTANTS
  Id,           \* record ids
  Universe,     \* records that others may add
  Lists,        \* record lists that may be rendered
  Starts,       \* zones to begin with
  Excluded,     \* names that match a pattern of `exclude`
  PerPage,      \* records on a page
  MaxOutside,   \* bound: changes by others
  MaxEdits      \* bound: changes of the list

ASSUME PageAssumption == PerPage \in Nat \ {0}

ASSUME IdAssumption == Id \subseteq Nat /\ IsFiniteSet(Id) /\ 0 \notin Id

VARIABLES
  zone,      \* the records of the zone, with their ids
  desired,   \* zone["records"]: the list salt renders
  pc,        \* where the run is
  page,      \* the page it reads next
  found,     \* what it has read, by id
  todo,      \* the requests still to be sent
  group,     \* the group of the last request
  result,    \* what the last run reported
  calm,      \* nobody else has changed the zone since the run began
  touched,   \* ids of the records that others have changed in place since then
  outside,   \* changes by others so far
  edits      \* changes of the list so far

vars == <<zone, desired, pc, page, found, todo, group, result, calm, touched, outside, edits>>

-----------------------------------------------------------------------------
(* Records *)

Address == {"A", "AAAA"}

Pure(r) == [type |-> r.type, name |-> r.name, content |-> r.content,
            ttl |-> r.ttl, proxied |-> r.proxied]

WithId(r, i) == [id |-> i, type |-> r.type, name |-> r.name, content |-> r.content,
                 ttl |-> r.ttl, proxied |-> r.proxied]

Key(r) == <<r.type, r.name, r.content>>

\* Zone.desired, as diff puts it into a dict: of several records with one key
\* the last counts.  Records that are not salt_managed match nothing.
Wanted(list) ==
  {Pure(list[i]) : i \in {j \in DOMAIN list :
     /\ list[j].salt_managed
     /\ \A k \in DOMAIN list : k > j /\ list[k].salt_managed => Key(list[k]) # Key(list[j])}}

\* desired_salt_managed: the last record of a name speaks for the name.
Skipped(list) ==
  {list[i].name : i \in {j \in DOMAIN list :
     /\ ~list[j].salt_managed
     /\ \A k \in DOMAIN list : k > j => list[k].name # list[j].name}}

\* sanity_check of one record...
TtlOk(r) == /\ r.ttl = 1 \/ r.ttl >= 120
            /\ r.ttl = 1 \/ ~r.proxied

\* ... and of two: no name has several CNAMEs, or a CNAME and an address.
Exclusive(r, s) == r.name = s.name /\ r.type = "CNAME" => s.type \notin Address \cup {"CNAME"}

Sane(list) ==
  /\ \A i \in DOMAIN list : TtlOk(list[i])
  /\ \A i, j \in DOMAIN list : i # j => Exclusive(list[i], list[j])

ASSUME ListAssumption == \A list \in Lists : DOMAIN list \subseteq Nat

-----------------------------------------------------------------------------
(* The zone at Cloudflare (external) *)

\* Every record has an id of its own, and no record is there twice.
Proper(z) ==
  /\ \A e \in z : e.id \in Id /\ e = WithId(e, e.id)
  /\ \A e, f \in z : e.id = f.id \/ Key(e) = Key(f) => e = f

\* The API has never let a CNAME in beside an address or another CNAME.
Consistent(z) == \A e, f \in z : e # f => Exclusive(e, f)

ASSUME StartAssumption == \A z \in Starts : Proper(z) /\ Consistent(z)

Clash(z, r) == \E e \in z : \/ Key(e) = Key(r)
                            \/ ~Exclusive(e, r)
                            \/ ~Exclusive(r, e)

Accepts(z, op) ==
  \/ op.action = "add" /\ ~Clash(z, op.record)
  \/ op.action = "remove" /\ \E e \in z : e.id = op.id
  \/ op.action = "update" /\ \E e \in z : e.id = op.id /\ ~Clash(z \ {e}, op.record)

\* Ids are never used again; here: not while anything refers to them.
Referred == {e.id : e \in zone} \cup {e.id : e \in found} \cup {op.id : op \in todo}

Unused == {i \in Id \ Referred : \A j \in Id \ Referred : i <= j}

\* The id the record of a request gets, or has.
IdFor(op) == IF op.action = "add" THEN Unused ELSE {op.id}

Effect(z, op, i) ==
  IF op.action = "add"
    THEN z \cup {WithId(op.record, i)}
    ELSE {e \in z : e.id # op.id}
           \cup (IF op.action = "update" THEN {WithId(op.record, op.id)} ELSE {})

\* The records of page p, in the order of the ids.
PageOf(z, p) ==
  {e \in z : LET before == Cardinality({f \in z : f.id < e.id}) IN
               before >= (p - 1) * PerPage /\ before < p * PerPage}

TotalPages(z) == (Cardinality(z) + PerPage - 1) \div PerPage

-----------------------------------------------------------------------------
(* diff and _order *)

\* existing_tuples: of records with one key, the one read last counts.
Existing(read) == {e \in read : \A f \in read : Key(f) = Key(e) => f.id <= e.id}

Additions(read, list) ==
  {[action |-> "add", record |-> w, id |-> 0] :
     w \in {v \in Wanted(list) : \A e \in read : Key(e) # Key(v)}}

\* Mutant: names that salt does not manage are not skipped.
RemovalsAll(read, list) ==
  {[action |-> "remove", record |-> Pure(e), id |-> e.id] :
     e \in {f \in Existing(read) : \A w \in Wanted(list) : Key(w) # Key(f)}}

Removals(read, list) ==
  {[action |-> "remove", record |-> Pure(e), id |-> e.id] :
     e \in {f \in Existing(read) : /\ \A w \in Wanted(list) : Key(w) # Key(f)
                                   /\ f.name \notin Skipped(list)}}

\* Mutant: the record of an update is the desired one, which has no id.
UpdatesWithoutId(read, list) ==
  {[action |-> "update", record |-> p[2], id |-> 0] :
     p \in {q \in Existing(read) \X Wanted(list) :
              Key(q[1]) = Key(q[2]) /\ Pure(q[1]) # q[2]}}

Updates(read, list) ==
  {[action |-> "update", record |-> p[2], id |-> p[1].id] :
     p \in {q \in Existing(read) \X Wanted(list) :
              Key(q[1]) = Key(q[2]) /\ Pure(q[1]) # q[2]}}

Diff(read, list) ==
  Additions(read, list) \cup Removals(read, list) \cup Updates(read, list)

Primary(op) == op.record.type \in Address \cup {"CNAME"}

Group(op) == <<Primary(op), op.record.name>>

RegularOrder == [add |-> 0, update |-> 1, remove |-> 2]

SpecialOrder == [remove |-> 0, add |-> 1, update |-> 2]

\* Mutant: CNAMEs are treated like all others.
OrderRegular(ops, op) == RegularOrder[op.action]

\* Mutant: everything is removed first.
OrderRemoveFirst(ops, op) == SpecialOrder[op.action]

\* _order: where an operation stands within its group.
Order(ops, op) ==
  IF Primary(op) /\ \E o \in ops : Group(o) = Group(op) /\ o.record.type = "CNAME"
    THEN SpecialOrder[op.action]
    ELSE RegularOrder[op.action]

Ranked(ops) == {[action |-> op.action, record |-> op.record, id |-> op.id,
                 rank |-> Order(ops, op)] : op \in ops}

\* The operations that may come next: primary groups first, one group after the
\* other, within a group by rank.  What a dict or a set leaves open is open here.
MayGo(op) ==
  /\ op \in todo
  /\ \A o \in todo : /\ Primary(o) => Primary(op)
                     /\ Group(o) = group => Group(op) = group
                     /\ Group(o) = Group(op) => op.rank <= o.rank

-----------------------------------------------------------------------------
(* A run of manage_zone_records *)

NoGroup == <<FALSE, "">>

Init ==
  /\ zone \in Starts
  /\ desired \in Lists
  /\ pc = "idle"
  /\ page = 1 /\ found = {} /\ todo = {} /\ group = NoGroup
  /\ result = "none"
  /\ calm = TRUE /\ touched = {}
  /\ outside = 0 /\ edits = 0

\* The run is over; nothing of it is kept.
End(what) ==
  /\ pc' = "idle"
  /\ page' = 1 /\ found' = {} /\ todo' = {} /\ group' = NoGroup
  /\ result' = what

\* sanity_check raises.
Refuse ==
  /\ pc = "idle"
  /\ ~Sane(desired)
  /\ End("failed")
  /\ UNCHANGED <<zone, desired, calm, touched, outside, edits>>

Begin ==
  /\ pc = "idle"
  /\ Sane(desired)
  /\ pc' = "read"
  /\ calm' = TRUE /\ touched' = {}
  /\ result' = "none"
  /\ UNCHANGED <<zone, desired, page, found, todo, group, outside, edits>>

Listed(p) == {e \in PageOf(zone, p) : e.name \notin Excluded}

\* Mutant: the dict is emptied for every page.
ReadThis(p) == Listed(p)

\* What a page adds to the dict: by id, without the excluded names.
Read(p) == {e \in found : \A f \in Listed(p) : f.id # e.id} \cup Listed(p)

\* existing: one page of several.
ReadPage(p) ==
  /\ pc = "read" /\ page = p
  /\ p < TotalPages(zone)
  /\ found' = Read(p)
  /\ page' = p + 1
  /\ UNCHANGED <<zone, desired, pc, todo, group, result, calm, touched, outside, edits>>

\* existing ends with the last page, diff and _order follow.  With nothing to do,
\* or in test mode, the run ends here.
ReadLast(p) ==
  LET ops == Ranked(Diff(Read(p), desired)) IN
  /\ pc = "read" /\ page = p
  /\ p = TotalPages(zone) \/ TotalPages(zone) = 0
  /\ \/ ops = {} /\ End("same")
     \/ ops # {} /\ End("test")
     \/ /\ ops # {}
        /\ pc' = "apply"
        /\ todo' = ops
        /\ page' = 1 /\ found' = {}
        /\ UNCHANGED <<group, result>>
  /\ UNCHANGED <<zone, desired, calm, touched, outside, edits>>

\* apply: _add_record, _remove_record or _update_record is carried out and the
\* answer arrives.
Apply(op, i) ==
  /\ pc = "apply"
  /\ MayGo(op)
  /\ Accepts(zone, op)
  /\ i \in IdFor(op)
  /\ zone' = Effect(zone, op, i)
  /\ IF todo = {op}
       THEN End("changed")
       ELSE /\ todo' = todo \ {op}
            /\ group' = Group(op)
            /\ UNCHANGED <<pc, page, found, result>>
  /\ UNCHANGED <<desired, calm, touched, outside, edits>>

\* The request is carried out, but the answer is lost: _request raises.
ApplyLost(op, i) ==
  /\ pc = "apply"
  /\ MayGo(op)
  /\ Accepts(zone, op)
  /\ i \in IdFor(op)
  /\ zone' = Effect(zone, op, i)
  /\ End("failed")
  /\ UNCHANGED <<desired, calm, touched, outside, edits>>

\* A request fails or times out: _request raises.
Fail ==
  /\ pc # "idle"
  /\ End("failed")
  /\ UNCHANGED <<zone, desired, calm, touched, outside, edits>>

\* The API refuses a request, and _request raises.  A page beyond the last, after
\* records have gone between two pages, is taken to be refused.
Rejected ==
  /\ \/ pc = "apply" /\ \E op \in todo : MayGo(op) /\ ~Accepts(zone, op)
     \/ pc = "read" /\ TotalPages(zone) \in 1 .. page - 1
  /\ End("failed")
  /\ UNCHANGED <<zone, desired, calm, touched, outside, edits>>

\* Somebody else adds, removes or changes a record, in the dashboard or by the API.
Outside ==
  /\ outside < MaxOutside
  /\ outside' = outside + 1
  /\ calm' = FALSE
  /\ UNCHANGED <<desired, pc, page, found, todo, group, result, edits>>

OtherAdds(r, i) ==
  /\ ~Clash(zone, r)
  /\ i \in Unused
  /\ zone' = zone \cup {WithId(r, i)}
  /\ Outside
  /\ UNCHANGED touched

OtherRemoves(e) ==
  /\ zone' = zone \ {e}
  /\ Outside
  /\ UNCHANGED touched

\* The record keeps its id.
OtherChanges(e, r) ==
  /\ Pure(e) # r
  /\ ~Clash(zone \ {e}, r)
  /\ zone' = (zone \ {e}) \cup {WithId(r, e.id)}
  /\ Outside
  /\ touched' = touched \cup {e.id}

\* NetBox changes, and with it the list of the next run.
Edit(list) ==
  /\ pc = "idle"
  /\ edits < MaxEdits
  /\ desired' = list
  /\ result' = "none"
  /\ edits' = edits + 1
  /\ UNCHANGED <<zone, pc, page, found, todo, group, calm, touched, outside>>

Next ==
  \/ Refuse \/ Begin \/ Fail \/ Rejected
  \/ ReadPage(page) \/ ReadLast(page)
  \/ \E op \in todo, i \in Id : Apply(op, i) \/ ApplyLost(op, i)
  \/ \E r \in Universe, i \in Id : OtherAdds(r, i)
  \/ \E e \in zone : OtherRemoves(e) \/ \E r \in Universe : OtherChanges(e, r)
  \/ \E list \in Lists : Edit(list)

Spec == Init /\ [][Next]_vars

\* The state is applied again and again, and no request fails for ever.
FairSpec ==
  /\ Spec
  /\ WF_vars(Begin) /\ WF_vars(Rejected)
  /\ \A p \in 1 .. TotalPages(Id) : SF_vars((ReadPage(p) \/ ReadLast(p)) /\ result' # "test")
  /\ SF_vars(\E op \in todo, i \in Id : Apply(op, i))

-----------------------------------------------------------------------------
(* Properties *)

Names(list) == {list[i].name : i \in DOMAIN list}

\* A list that does not contradict itself: no wanted name is excluded, and the
\* records of a name agree whether salt manages them.
Clean(list) ==
  /\ Names(list) \cap Excluded = {}
  /\ \A i, j \in DOMAIN list :
       list[i].name = list[j].name => list[i].salt_managed = list[j].salt_managed

\* The records without their ids.
View(z) == {Pure(e) : e \in z}

Kept == Excluded \cup Skipped(desired)

\* The zone without what the run must leave alone is what the list wants.
InSync == View({e \in zone : e.name \notin Kept}) = Wanted(desired)

TypeOK ==
  /\ Proper(zone)
  /\ \A e \in found : e.id \in Id /\ e = WithId(e, e.id)
  /\ desired \in Lists
  /\ pc \in {"idle", "read", "apply"}
  /\ page \in Nat \ {0}
  /\ \A op \in todo : /\ op.action \in {"add", "remove", "update"}
                      /\ IF op.action = "add" THEN op.id = 0 ELSE op.id \in Id
                      /\ op.rank \in 0 .. 2
  /\ result \in {"none", "same", "test", "changed", "failed"}
  /\ calm \in BOOLEAN /\ touched \subseteq Id
  /\ outside \in Nat /\ edits \in Nat

\* A run never gets in its own way: as long as nobody else interferes, the API
\* refuses none of its requests, although every step passes through a zone that
\* is neither the old nor the new one.  "need to remove before adding"
\* (_order, cloudflare.py:500).
NoSelfConflict ==
  pc = "apply" /\ calm /\ Clean(desired) =>
    \A op \in todo : MayGo(op) => Accepts(zone, op)

\* A run that reports success has left the zone as the list wants it, after
\* whatever earlier runs that broke off (manage_zone_records, diff).
DoneMeansDesired ==
  result \in {"same", "changed"} /\ calm /\ Clean(desired) => InSync

HasAddress(z, n) == \E e \in z : e.name = n /\ e.type \in Address \cup {"CNAME"}

NoCname(z, n) == \A e \in z : e.name = n => e.type # "CNAME"

\* "executed in the order that minimizes the risk of downtime"
\* (cloudflare.py:9): a name that resolves and shall resolve, and is no CNAME
\* before or after, resolves all the time, even if the run breaks off.
KeepsResolving ==
  [][pc = "apply" /\ calm /\ outside' = outside =>
       \A n \in Names(desired) :
         /\ HasAddress(zone, n) /\ HasAddress(Wanted(desired), n)
         /\ NoCname(zone, n) /\ NoCname(Wanted(desired), n)
         => HasAddress(zone', n)]_vars

Goal == INSTANCE ZoneGoal WITH
          zone <- View(zone),
          goal <- Wanted(desired),
          kept <- Kept,
          foreign <- View({e \in zone : e.id \in touched}),
          others <- outside

\* Every request that is carried out, also one that works on an outdated picture
\* of the zone or whose answer is lost, brings the zone closer to the list and
\* touches no name that is excluded or skipped (diff, apply).  Only a record that
\* somebody has changed in place meanwhile can be hit by mistake.
OnlyTowardsGoal == Goal!Spec

\* Failing requests, lost answers, pages that shift and interference
\* notwithstanding, runs that are repeated bring the zone to the list.
Converges == <>[](Sane(desired) /\ Clean(desired) => InSync)
=============================================================================
