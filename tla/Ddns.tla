-------------------------------- MODULE Ddns --------------------------------
(***************************************************************************)
(* _modules/ddns.py: what one call asks the nameserver, what it makes of   *)
(* the answer and what it sends.  The nameserver is external and follows   *)
(* RFC 2136 and bind: an update is one message, a CNAME and other data     *)
(* never stand at one name, and what would break this is ignored without   *)
(* an error.                                                               *)
(*                                                                         *)
(* A record is [name, type, data, ttl].  A job is one call of update or    *)
(* delete; `stop` are the outcomes that end the command it belongs to.     *)
(***************************************************************************)
EXTENDS Naturals, Sequences, FiniteSets, SequencesExt

CONSTANTS
  Served,        \* zones the nameserver is authoritative for
  ReverseZones,  \* the reverse zones of an address, the smallest first
  Ttl,           \* the ttl of add_host, and of everything salt renders
  PtrName(_)     \* the reverse name of an address

-----------------------------------------------------------------------------
(* The nameserver (external) *)

RRset(z, n, t) == {r \in z : r.name = n /\ r.type = t}

\* The rrsets of an answer: a CNAME is followed one step.
Answer(z, n, t) ==
  LET alias == IF t = "CNAME" THEN {} ELSE RRset(z, n, "CNAME")
      sets == IF t = "ANY" THEN {RRset(z, n, u) : u \in {r.type : r \in z}}
                           ELSE {alias, RRset(z, n, t)} \cup
                                  {RRset(z, r.data, t) : r \in alias}
  IN sets \ {{}}

WithTtl(r, ttl) == [r EXCEPT !.ttl = ttl]

\* One ttl per rrset; a new CNAME takes the place of the old.
Added(z, r) ==
  IF \E s \in z : s.name = r.name /\ (s.type = "CNAME") # (r.type = "CNAME")
    THEN z
    ELSE (z \ RRset(z, r.name, r.type)) \cup {r} \cup
           {WithTtl(s, r.ttl) :
              s \in {q \in RRset(z, r.name, r.type) : r.type # "CNAME"}}

Replaced(z, r) == Added(z \ RRset(z, r.name, r.type), r)

Deleted(z, m) ==
  z \ {r \in z : /\ r.name = m.name
                 /\ m.type \in {"ANY", r.type}
                 /\ m.data \in {"", r.data}}

\* The record that a job or a message is about.
RecordOf(m) == [name |-> m.name, type |-> m.type, data |-> m.data, ttl |-> Ttl]

Applied(z, m) ==
  CASE m.does = "replace" -> Replaced(z, RecordOf(m))
    [] m.does = "add" -> Added(z, RecordOf(m))
    [] m.does = "delete" -> Deleted(z, m)

-----------------------------------------------------------------------------
(* update and delete *)

\* rdata in rrset.items
In(job, set) == \E r \in set : r.type = job.type /\ r.data = job.data

\* Mutant: the ttl does not matter.
IsExistAnyTtl(job, answer) == \E set \in answer : In(job, set)

\* is_exist
IsExist(job, answer) ==
  \E set \in answer : In(job, set) /\ \A r \in set : r.ttl = Ttl

\* Mutant: only several rrsets are replaced.
MustReplaceMany(job, answer) == job.replace \/ Cardinality(answer) >= 2

\* Mutant: every record that is there is replaced.
MustReplaceAlways(job, answer) == job.replace \/ job.replace_on_change

\* replace, after replace_on_change: several rrsets, or one without our data.
MustReplace(job, answer) ==
  \/ job.replace
  \/ job.replace_on_change /\ \/ Cardinality(answer) >= 2
                              \/ \E set \in answer : answer = {set} /\ ~In(job, set)

\* What the call sends after the answer, or "none".
Does(job, answer) ==
  IF job.op = "delete"
    THEN IF answer = {} THEN "none" ELSE "delete"
    ELSE IF MustReplace(job, answer) THEN "replace"
         ELSE IF IsExist(job, answer) THEN "none" ELSE "add"

\* Mutant: a replacement begins with a message that deletes.
MessageDeletes(job, answer) ==
  [does |-> IF Does(job, answer) = "replace" THEN "delete" ELSE Does(job, answer),
   zone |-> job.zone, name |-> job.name, type |-> job.type, data |-> "", saw |-> answer]

\* dns_update, with the answer it rests on.
Message(job, answer) ==
  [does |-> Does(job, answer), zone |-> job.zone, name |-> job.name, type |-> job.type,
   data |-> job.data, saw |-> answer]

Job(op, zone, n, t, d, replace, onChange, stop) ==
  [op |-> op, zone |-> zone, name |-> n, type |-> t, data |-> d,
   replace |-> replace, replace_on_change |-> onChange, stop |-> stop]

-----------------------------------------------------------------------------
(* add_host and delete_host: one job after the other *)

\* The port is passed where replace_on_change is expected, so that is always set.
\* A reverse zone that takes the record ends the search.
AddHost(h, ip) ==
  <<Job("update", "fwd", h, "A", ip, TRUE, TRUE, {"refused", "raised"})>>
    \o [i \in DOMAIN ReverseZones |->
          Job("update", ReverseZones[i], PtrName(ip), "PTR", h, TRUE, TRUE, {"sent", "raised"})]

\* The address records of the host are asked for first; then the name is deleted.
LookUp(h) == <<Job("lookup", "fwd", h, "A", "", FALSE, FALSE, {"raised"})>>

\* All the reverse zones are tried for every address that was found.
DeletePtrs(h, addresses) ==
  LET n == Len(ReverseZones) IN
  [i \in 1 .. n * Len(addresses) |->
     Job("delete", ReverseZones[((i - 1) % n) + 1], PtrName(addresses[((i - 1) \div n) + 1]),
         "PTR", h, FALSE, FALSE, {"raised"})]

DeleteHost(h, ips) ==
  <<Job("delete", "fwd", h, "ANY", "", FALSE, FALSE, {"raised"})>>
    \o DeletePtrs(h, SetToSeq(ips))
=============================================================================
