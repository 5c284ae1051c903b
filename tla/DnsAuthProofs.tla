---------------------------- MODULE DnsAuthProofs ----------------------------
(***************************************************************************)
(* Theorems about DnsAuth.                                                 *)
(***************************************************************************)
EXTENDS DnsAuth, FiniteSetTheorems, SequenceTheorems, WellFoundedInduction, TLAPS

-----------------------------------------------------------------------------
(* The inductive invariant *)

\* The record is in place unless something keeps the nameserver from taking it.
Done(w) == Free(w) => InPlace(w)

Shape ==
  /\ plan \in Plans
  /\ stage \in Stages \cup {"idle", "render", "apply"}
  /\ result \in {"none", "green", "red", "test"}
  /\ (stage = "apply") = (work["salt"] # <<>>)
  /\ red \in BOOLEAN /\ settled \in BOOLEAN /\ raced \in BOOLEAN /\ calm \in BOOLEAN

AdminJob(job) ==
  /\ job.op \in {"update", "delete", "lookup"}
  /\ job.op = "update" => job.replace = TRUE

\* Salt works off what it has rendered; the administrator's updates replace.
Queues ==
  /\ work = [p \in Who |-> work[p]] /\ pending = [p \in Who |-> pending[p]]
  /\ \A p \in Who : work[p] \in Seq(ToSet(work[p]))
  /\ ToSet(work["salt"]) \subseteq ToSet(Rendered(plan))
  /\ \A job \in ToSet(work["admin"]) : AdminJob(job)

\* A message stems from the call at the head and from the answer to it.
Messages ==
  \A p \in Who : pending[p] # NoMessage =>
    /\ work[p] # <<>> /\ Head(work[p]).op # "lookup"
    /\ Does(Head(work[p]), pending[p].saw) # "none"
    /\ pending[p] = Message(Head(work[p]), pending[p].saw)

ZoneOK == WellFormed(zone) /\ (~raced => Single(zone))

\* While nobody else is at work, what salt has seen is what is there.
Timely ==
  /\ settled => calm
  /\ calm => work["admin"] = <<>>
  /\ calm /\ pending["salt"] # NoMessage =>
       pending["salt"].saw = Answer(zone, pending["salt"].name, pending["salt"].type)

\* What has been worked off without a failure is in place.
Progress ==
  stage = "apply" /\ calm /\ ~red /\ Consistent =>
    \A job \in ToSet(Rendered(plan)) : job \in ToSet(work["salt"]) \/ Done(RecordOf(job))

\* After a green highstate only what cannot be in place is sent again.
Blocked ==
  settled /\ Consistent /\ pending["salt"] # NoMessage => ~Free(RecordOf(Head(work["salt"])))

IInv ==
  Shape /\ Queues /\ Messages /\ ZoneOK /\ Timely /\ Progress /\ GreenMeansServed /\ Blocked
-----------------------------------------------------------------------------
(* One update on the contents of the nameserver *)

\* The states that are rendered: an update with replace_on_change, never ending the
\* highstate.
SaltJob(job) ==
  /\ job.op = "update" /\ job.replace = FALSE /\ job.replace_on_change = TRUE
  /\ job.stop = {} /\ job.type # "ANY"

FreeIn(z, w) == \A r \in z : r.name = w.name => (r.type = "CNAME") = (w.type = "CNAME")

\* Every decision of a call is one of four.
LEMMA DoesCases ==
  ASSUME NEW job, NEW a
  PROVE  Does(job, a) \in {"none", "delete", "replace", "add"}
BY DEF Does

\* The image of a finite set is finite.
LEMMA ImageFinite ==
  ASSUME NEW S, IsFiniteSet(S), NEW T, NEW f \in [S -> T], T = {f[x] : x \in S}
  PROVE  IsFiniteSet(T)
<1>1. f \in Surjection(S, T)
  BY DEF Surjection
<1>2. QED
  BY <1>1, FS_Surjection

\* The set of two elements.
LEMMA Pair ==
  ASSUME NEW x, NEW y
  PROVE  IsFiniteSet({x, y}) /\ (x # y => Cardinality({x, y}) = 2)
<1>1. IsFiniteSet({x}) /\ Cardinality({x}) = 1
  BY FS_Singleton
<1>2. {x, y} = {x} \cup {y}
  OBVIOUS
<1>3. IsFiniteSet({x} \cup {y})
  BY <1>1, FS_AddElement
<1>4. x # y => Cardinality({x} \cup {y}) = Cardinality({x}) + 1
  BY <1>1, FS_AddElement
<1>5. QED
  BY <1>1, <1>2, <1>3, <1>4

\* The answer to an update of salt is finite.
LEMMA AnswerFinite ==
  ASSUME NEW z, IsFiniteSet(z), NEW n, NEW t, t # "ANY"
  PROVE  IsFiniteSet(Answer(z, n, t))
<1> DEFINE alias == IF t = "CNAME" THEN {} ELSE RRset(z, n, "CNAME")
           behind == {RRset(z, r.data, t) : r \in alias}
           sets == {alias, RRset(z, n, t)} \cup behind
<1>1. IsFiniteSet(alias)
  <2>1. alias \subseteq z
    BY DEF RRset
  <2>2. QED
    BY <2>1, FS_Subset
<1>2. IsFiniteSet(behind)
  <2> HIDE DEF alias
  <2> DEFINE f == [r \in alias |-> RRset(z, r.data, t)]
  <2>1. f \in [alias -> behind] /\ behind = {f[r] : r \in alias}
    OBVIOUS
  <2> HIDE DEF f, behind
  <2>2. QED
    BY <1>1, <2>1, ImageFinite
<1>3. IsFiniteSet({alias, RRset(z, n, t)})
  BY Pair
<1>4. IsFiniteSet(sets)
  <2> HIDE DEF alias, behind
  <2>1. QED
    BY <1>2, <1>3, FS_Union
<1>5. Answer(z, n, t) \subseteq sets
  BY DEF Answer
<1>6. QED
  <2> HIDE DEF sets
  <2>1. QED
    BY <1>4, <1>5, FS_Subset

\* An update of salt that does not replace has found nothing, or only the rrset of
\* the record, with its data in it.
LEMMA NoReplaceFound ==
  ASSUME NEW z, WellFormed(z), NEW job, SaltJob(job),
         ~MustReplace(job, Answer(z, job.name, job.type))
  PROVE  \/ Answer(z, job.name, job.type) = {} /\ RRset(z, job.name, job.type) = {}
         \/ /\ Answer(z, job.name, job.type) = {RRset(z, job.name, job.type)}
            /\ In(job, RRset(z, job.name, job.type))
<1> DEFINE a == Answer(z, job.name, job.type)
           mine == RRset(z, job.name, job.type)
           alias == IF job.type = "CNAME" THEN {} ELSE RRset(z, job.name, "CNAME")
<1>1. IsFiniteSet(a)
  BY AnswerFinite DEF WellFormed, SaltJob
<1>2. /\ alias # {} => alias \in a
      /\ mine # {} => mine \in a
      /\ alias = {} => a \subseteq {mine}
      /\ {} \notin a
  BY DEF Answer, SaltJob
<1>3. CASE a = {}
  BY <1>2, <1>3
<1>4. CASE a # {}
  <2>1. PICK set \in a : a = {set}
    <3>1. PICK set \in a : TRUE
      BY <1>4
    <3>2. ~(Cardinality(a) >= 2)
      BY DEF MustReplace, SaltJob
    <3>3. Cardinality(a) \in Nat
      BY <1>1, FS_CardinalityType
    <3>4. ASSUME NEW other \in a, other # set PROVE FALSE
      <4>1. {set, other} \subseteq a
        BY <3>4
      <4>2. Cardinality({set, other}) = 2
        BY <3>4, Pair
      <4>3. Cardinality({set, other}) <= Cardinality(a)
        BY <4>1, <1>1, FS_Subset
      <4>4. QED
        BY <4>2, <4>3, <3>2, <3>3
    <3>5. QED
      BY <3>1, <3>4
  <2>2. In(job, set)
    BY <2>1 DEF MustReplace, SaltJob
  <2>3. set # alias
    BY <2>2, <2>1, <1>2 DEF In, RRset
  <2>4. alias = {}
    BY <2>1, <2>3, <1>2
  <2>5. set = mine
    BY <2>1, <2>4, <1>2
  <2>6. QED
    BY <2>1, <2>2, <2>5
<1>5. QED
  BY <1>3, <1>4

\* Nothing is sent: the record is there, with its ttl.
LEMMA NothingToDo ==
  ASSUME NEW z, WellFormed(z), NEW job, SaltJob(job),
         Does(job, Answer(z, job.name, job.type)) = "none"
  PROVE  /\ RecordOf(job) \in z
         /\ Single(z) => RRset(z, job.name, job.type) = {RecordOf(job)}
<1> DEFINE a == Answer(z, job.name, job.type)
           mine == RRset(z, job.name, job.type)
<1>1. ~MustReplace(job, a) /\ IsExist(job, a)
  BY DEF Does, SaltJob
<1>2. In(job, mine) /\ \A r \in mine : r.ttl = Ttl
  BY <1>1, NoReplaceFound DEF IsExist
<1>3. PICK r \in mine : r.type = job.type /\ r.data = job.data
  BY <1>2 DEF In
<1>4. r \in z /\ r.name = job.name /\ r.ttl = Ttl
  BY <1>2, <1>3 DEF RRset
<1>5. r = RecordOf(job)
  BY <1>3, <1>4 DEF RecordOf, WellFormed
<1>6. QED
  BY <1>3, <1>4, <1>5 DEF Single, RRset

\* A record that is there and may be there is recognised.
LEMMA Recognised ==
  ASSUME NEW z, WellFormed(z), NEW job, SaltJob(job),
         RecordOf(job) \in z, FreeIn(z, RecordOf(job))
  PROVE  Does(job, Answer(z, job.name, job.type)) = "none"
<1> DEFINE a == Answer(z, job.name, job.type)
           mine == RRset(z, job.name, job.type)
           w == RecordOf(job)
<1>1. w \in mine /\ w.type = job.type /\ w.data = job.data /\ w.ttl = Ttl
  BY DEF RRset, RecordOf
<1>2. job.type # "CNAME" => RRset(z, job.name, "CNAME") = {}
  BY DEF FreeIn, RRset, RecordOf
<1>3. a = {mine}
  BY <1>1, <1>2 DEF Answer, SaltJob
<1>4. In(job, mine)
  BY <1>1 DEF In
<1>5. Cardinality(a) = 1
  BY <1>3, FS_Singleton
<1>6. ~MustReplace(job, a)
  <2> HIDE DEF mine
  <2>1. ~(Cardinality(a) >= 2)
    BY <1>5
  <2>2. \A set \in a : In(job, set)
    BY <1>3, <1>4
  <2>3. QED
    BY <2>1, <2>2 DEF MustReplace, SaltJob
<1>7. \A r \in mine : r.ttl = Ttl
  BY <1>1 DEF WellFormed, RRset
<1>8. IsExist(job, a)
  BY <1>3, <1>4, <1>7 DEF IsExist
<1>9. QED
  BY <1>6, <1>8 DEF Does, SaltJob

\* What is there at another name, or of another type, stays as it is.
LEMMA AddedElsewhere ==
  ASSUME NEW z, NEW r, NEW s, s.name # r.name \/ s.type # r.type
  PROVE  /\ s \in Added(z, r) <=> s \in z
         /\ s \in Replaced(z, r) <=> s \in z
<1>1. ASSUME NEW y PROVE s \in Added(y, r) <=> s \in y
  <2>1. \A q \in RRset(y, r.name, r.type) :
          r.type # "CNAME" /\ s = WithTtl(q, r.ttl) => s.name = r.name /\ s.type = r.type
    BY DEF RRset, WithTtl
  <2>2. QED
    BY <2>1 DEF Added, RRset
<1>2. s \in z \ RRset(z, r.name, r.type) <=> s \in z
  BY DEF RRset
<1>3. QED
  BY <1>1, <1>2 DEF Replaced

\* Something at the name keeps the nameserver from taking the record.
Conflict(z, r) == \E s \in z : s.name = r.name /\ (s.type = "CNAME") # (r.type = "CNAME")

\* What becomes of the rrset of the record.
LEMMA AddedHere ==
  ASSUME NEW z, \A s \in z : s = [name |-> s.name, type |-> s.type, data |-> s.data, ttl |-> s.ttl],
         NEW r, r = [name |-> r.name, type |-> r.type, data |-> r.data, ttl |-> r.ttl],
         NEW q, q.name = r.name, q.type = r.type
  PROVE  q \in Added(z, r) <=>
           IF Conflict(z, r) THEN q \in z
           ELSE \/ q = r
                \/ /\ r.type # "CNAME"
                   /\ \E s \in RRset(z, r.name, r.type) :
                        q = [name |-> s.name, type |-> s.type, data |-> s.data, ttl |-> r.ttl]
<1>1. \A s \in RRset(z, r.name, r.type) :
        WithTtl(s, r.ttl) = [name |-> s.name, type |-> s.type, data |-> s.data, ttl |-> r.ttl]
  BY DEF RRset, WithTtl
<1>2. CASE Conflict(z, r)
  BY <1>2 DEF Added, Conflict
<1>3. CASE ~Conflict(z, r)
  <2>1. Added(z, r) = (z \ RRset(z, r.name, r.type)) \cup {r} \cup
           {WithTtl(s, r.ttl) :
              s \in {p \in RRset(z, r.name, r.type) : r.type # "CNAME"}}
    BY <1>3 DEF Added, Conflict
  <2>2. q \notin z \ RRset(z, r.name, r.type)
    BY DEF RRset
  <2>3. QED
    BY <2>1, <2>2, <1>1, <1>3
<1>4. QED
  BY <1>2, <1>3

\* A replacement leaves the record alone, or what stands in its way.
LEMMA ReplacedHere ==
  ASSUME NEW z, \A s \in z : s = [name |-> s.name, type |-> s.type, data |-> s.data, ttl |-> s.ttl],
         NEW r, r = [name |-> r.name, type |-> r.type, data |-> r.data, ttl |-> r.ttl],
         NEW q, q.name = r.name, q.type = r.type
  PROVE  q \in Replaced(z, r) <=> ~Conflict(z, r) /\ q = r
<1> DEFINE y == z \ RRset(z, r.name, r.type)
<1>1. Conflict(y, r) <=> Conflict(z, r)
  BY DEF Conflict, RRset
<1>2. q \notin y /\ RRset(y, r.name, r.type) = {}
  BY DEF RRset
<1>3. \A s \in y : s = [name |-> s.name, type |-> s.type, data |-> s.data, ttl |-> s.ttl]
  OBVIOUS
<1> HIDE DEF y
<1>4. q \in Added(y, r) <=> IF Conflict(y, r) THEN q \in y ELSE q = r
  BY <1>2, <1>3, AddedHere
<1>5. QED
  BY <1>1, <1>2, <1>4 DEF Replaced, y

\* An update of one record keeps the contents well formed.
LEMMA AddedWellFormed ==
  ASSUME NEW z, WellFormed(z),
         NEW r, r = [name |-> r.name, type |-> r.type, data |-> r.data, ttl |-> r.ttl]
  PROVE  WellFormed(Added(z, r))
<1> DEFINE more == {WithTtl(s, r.ttl) :
                      s \in {q \in RRset(z, r.name, r.type) : r.type # "CNAME"}}
           y == Added(z, r)
<1>1. CASE Conflict(z, r)
  BY <1>1 DEF Added, Conflict
<1>2. CASE ~Conflict(z, r)
  <2>1. y = (z \ RRset(z, r.name, r.type)) \cup {r} \cup more
    BY <1>2 DEF Added, Conflict
  <2>2. IsFiniteSet(y)
    <3> DEFINE old == {q \in RRset(z, r.name, r.type) : r.type # "CNAME"}
               f == [s \in old |-> WithTtl(s, r.ttl)]
    <3>1. IsFiniteSet(old)
      <4>1. old \subseteq z
        BY DEF RRset
      <4>2. QED
        BY <4>1, FS_Subset DEF WellFormed
    <3>2. f \in [old -> more] /\ more = {f[s] : s \in old}
      OBVIOUS
    <3>3. IsFiniteSet(more)
      <4> HIDE DEF f, more, old
      <4>1. QED
        BY <3>1, <3>2, ImageFinite
    <3>4. IsFiniteSet(z \ RRset(z, r.name, r.type))
      BY FS_Subset DEF WellFormed
    <3>5. IsFiniteSet((z \ RRset(z, r.name, r.type)) \cup {r})
      BY <3>4, FS_AddElement
    <3>6. QED
      <4> HIDE DEF more, y
      <4>1. QED
        BY <2>1, <3>3, <3>5, FS_Union
  <2>3. \A s \in z : s = [name |-> s.name, type |-> s.type, data |-> s.data, ttl |-> s.ttl]
    BY DEF WellFormed
  <2>4. \A s \in more : /\ s = [name |-> s.name, type |-> s.type, data |-> s.data, ttl |-> s.ttl]
                        /\ s.name = r.name /\ s.type = r.type /\ s.ttl = r.ttl
    <3> SUFFICES ASSUME NEW q \in RRset(z, r.name, r.type)
                 PROVE  LET s == WithTtl(q, r.ttl) IN
                        /\ s = [name |-> s.name, type |-> s.type, data |-> s.data, ttl |-> s.ttl]
                        /\ s.name = r.name /\ s.type = r.type /\ s.ttl = r.ttl
      OBVIOUS
    <3>1. q = [name |-> q.name, type |-> q.type, data |-> q.data, ttl |-> q.ttl]
      BY <2>3 DEF RRset
    <3>2. WithTtl(q, r.ttl) = [name |-> q.name, type |-> q.type, data |-> q.data, ttl |-> r.ttl]
      BY <3>1 DEF WithTtl
    <3>3. q.name = r.name /\ q.type = r.type
      BY DEF RRset
    <3>4. QED
      BY <3>2, <3>3
  <2>5. \A s \in y : s = [name |-> s.name, type |-> s.type, data |-> s.data, ttl |-> s.ttl]
    <3> HIDE DEF more, y
    <3>1. QED
      BY <2>1, <2>3, <2>4
  <2>6. \A s \in y : \/ s.name = r.name /\ s.type = r.type /\ s.ttl = r.ttl
                     \/ s \in z /\ (s.name # r.name \/ s.type # r.type)
    <3> HIDE DEF more, y
    <3>1. QED
      BY <2>1, <2>4 DEF RRset
  <2>7. \A s \in z : s.name = r.name => (s.type = "CNAME") = (r.type = "CNAME")
    BY <1>2 DEF Conflict
  <2>8. ASSUME NEW s \in y, NEW t \in y, s.name = t.name
        PROVE  /\ (s.type = "CNAME") = (t.type = "CNAME")
               /\ s.type = t.type => s.ttl = t.ttl
    <3> HIDE DEF more, y
    <3>1. CASE s.name = r.name /\ s.type = r.type /\ s.ttl = r.ttl
      BY <2>6, <2>7, <2>8, <3>1
    <3>2. CASE t.name = r.name /\ t.type = r.type /\ t.ttl = r.ttl
      BY <2>6, <2>7, <2>8, <3>2
    <3>3. CASE s \in z /\ t \in z
      BY <2>8, <3>3 DEF WellFormed
    <3>4. QED
      BY <2>6, <3>1, <3>2, <3>3
  <2>9. QED
    <3> HIDE DEF more, y
    <3>1. WellFormed(y)
      BY <2>2, <2>5, <2>8 DEF WellFormed
    <3>2. QED
      BY <3>1 DEF y
<1>3. QED
  BY <1>1, <1>2

\* Deleting records keeps the contents well formed.
LEMMA SubsetWellFormed ==
  ASSUME NEW z, WellFormed(z), NEW y, y \subseteq z
  PROVE  WellFormed(y)
<1>1. IsFiniteSet(y)
  BY FS_Subset DEF WellFormed
<1>2. QED
  BY <1>1 DEF WellFormed

\* The record of a job or message has the four fields, and the ttl of salt.
LEMMA RecordShape ==
  ASSUME NEW m
  PROVE  LET r == RecordOf(m) IN
         /\ r = [name |-> r.name, type |-> r.type, data |-> r.data, ttl |-> r.ttl]
         /\ r.name = m.name /\ r.type = m.type /\ r.data = m.data /\ r.ttl = Ttl
BY DEF RecordOf

\* Every message keeps the contents well formed.
LEMMA AppliedWellFormed ==
  ASSUME NEW z, WellFormed(z), NEW m, m.does \in {"replace", "add", "delete"}
  PROVE  WellFormed(Applied(z, m))
<1> DEFINE r == RecordOf(m)
<1>0. r = [name |-> r.name, type |-> r.type, data |-> r.data, ttl |-> r.ttl]
  BY RecordShape
<1> HIDE DEF r
<1>1. CASE m.does = "replace"
  <2>1. WellFormed(z \ RRset(z, r.name, r.type))
    BY SubsetWellFormed
  <2>2. WellFormed(Replaced(z, r))
    BY <1>0, <2>1, AddedWellFormed DEF Replaced
  <2>3. QED
    BY <1>1, <2>2 DEF Applied, r
<1>2. CASE m.does = "add"
  <2>1. WellFormed(Added(z, r))
    BY <1>0, AddedWellFormed
  <2>2. QED
    BY <1>2, <2>1 DEF Applied, r
<1>3. CASE m.does = "delete"
  <2>1. Deleted(z, m) \subseteq z
    BY DEF Deleted
  <2>2. QED
    BY <1>3, <2>1, SubsetWellFormed DEF Applied
<1>4. QED
  BY <1>1, <1>2, <1>3

\* A message that does not delete leaves no rrset empty: what it takes away it replaces.
LEMMA AppliedKeepsRRsets ==
  ASSUME NEW z, WellFormed(z), NEW m, m.does \in {"replace", "add"}, NEW q \in z
  PROVE  RRset(Applied(z, m), q.name, q.type) # {}
<1> DEFINE r == RecordOf(m)
           y == Applied(z, m)
<1>0. r = [name |-> r.name, type |-> r.type, data |-> r.data, ttl |-> r.ttl]
  BY RecordShape
<1>1. \A s \in z : s = [name |-> s.name, type |-> s.type, data |-> s.data, ttl |-> s.ttl]
  BY DEF WellFormed
<1>2. y = Replaced(z, r) \/ y = Added(z, r)
  BY DEF Applied
<1> HIDE DEF r, y
<1>3. CASE q.name # r.name \/ q.type # r.type
  <2>1. q \in y
    BY <1>2, <1>3, AddedElsewhere
  <2>2. QED
    BY <2>1 DEF RRset, y
<1>4. CASE q.name = r.name /\ q.type = r.type
  <2>1. ~Conflict(z, r)
    BY <1>4 DEF Conflict, WellFormed
  <2>2. r \in y
    <3>1. r \in Added(z, r)
      BY <1>0, <1>1, <2>1, AddedHere
    <3>2. r \in Replaced(z, r)
      BY <1>0, <1>1, <2>1, ReplacedHere
    <3>3. QED
      BY <1>2, <3>1, <3>2
  <2>3. QED
    BY <1>4, <2>2 DEF RRset, y
<1>5. QED
  BY <1>3, <1>4

\* Replacing and deleting leave no rrset with two records.
LEMMA AppliedSingle ==
  ASSUME NEW z, WellFormed(z), Single(z), NEW m, m.does \in {"replace", "delete"}
  PROVE  Single(Applied(z, m))
<1>1. CASE m.does = "delete"
  <2>1. Deleted(z, m) \subseteq z
    BY DEF Deleted
  <2>2. QED
    BY <1>1, <2>1 DEF Applied, Single
<1>2. CASE m.does = "replace"
  <2> DEFINE r == RecordOf(m)
             y == Replaced(z, r)
  <2>0. r = [name |-> r.name, type |-> r.type, data |-> r.data, ttl |-> r.ttl]
    BY RecordShape
  <2>1. \A s \in z : s = [name |-> s.name, type |-> s.type, data |-> s.data, ttl |-> s.ttl]
    BY DEF WellFormed
  <2>2. Applied(z, m) = y
    BY <1>2 DEF Applied
  <2> HIDE DEF r
  <2>3. ASSUME NEW s \in y, NEW t \in y, s.name = t.name, s.type = t.type
        PROVE  s = t
    <3>1. CASE s.name = r.name /\ s.type = r.type
      <4>1. \A q : q.name = r.name /\ q.type = r.type => (q \in Replaced(z, r) => q = r)
        BY <2>0, <2>1, ReplacedHere
      <4>2. QED
        BY <2>3, <3>1, <4>1
    <3>2. CASE s.name # r.name \/ s.type # r.type
      BY <2>3, <3>2, AddedElsewhere DEF Single
    <3>3. QED
      BY <3>1, <3>2
  <2>4. QED
    BY <2>2, <2>3 DEF Single
<1>3. QED
  BY <1>1, <1>2

\* The message of salt for a job, after a timely answer: the record is in place or
\* something stands in its way.
LEMMA OwnInPlace ==
  ASSUME NEW z, WellFormed(z), NEW job, SaltJob(job),
         NEW a, a = Answer(z, job.name, job.type), NEW m, m = Message(job, a),
         Does(job, a) # "none"
  PROVE  LET y == Applied(z, m)
             w == RecordOf(job)
         IN /\ FreeIn(y, w) => w \in y /\ (Single(z) => RRset(y, w.name, w.type) = {w})
            /\ Single(z) => Single(y)
<1> DEFINE r == RecordOf(job)
           y == Applied(z, m)
<1>0. /\ r = [name |-> r.name, type |-> r.type, data |-> r.data, ttl |-> r.ttl]
      /\ r.name = job.name /\ r.type = job.type /\ r.data = job.data /\ r.ttl = Ttl
  BY RecordShape
<1>1. \A s \in z : s = [name |-> s.name, type |-> s.type, data |-> s.data, ttl |-> s.ttl]
  BY DEF WellFormed
<1>2. m.does = Does(job, a) /\ RecordOf(m) = r
  BY DEF Message, RecordOf
<1>3. Does(job, a) \in {"replace", "add"}
  BY DEF Does, SaltJob
<1>4. y = IF Does(job, a) = "replace" THEN Replaced(z, r) ELSE Added(z, r)
  BY <1>2, <1>3 DEF Applied
<1>5. Conflict(z, r) => ~FreeIn(y, r)
  <2> SUFFICES ASSUME NEW s \in z, s.name = r.name, (s.type = "CNAME") # (r.type = "CNAME")
               PROVE  ~FreeIn(y, r)
    BY DEF Conflict
  <2>1. s \in Added(z, r) /\ s \in Replaced(z, r)
    BY AddedElsewhere
  <2>2. s \in y
    BY <1>4, <2>1
  <2>3. QED
    BY <2>2 DEF FreeIn
<1>6. CASE Does(job, a) = "replace"
  <2>0. m.does = "replace"
    BY <1>2, <1>6
  <2>1. Single(z) => Single(y)
    BY <2>0, AppliedSingle
  <2>2. ASSUME ~Conflict(z, r) PROVE RRset(y, r.name, r.type) = {r}
    <3> HIDE DEF r
    <3>1. \A q : q.name = r.name /\ q.type = r.type => (q \in Replaced(z, r) <=> q = r)
      BY <1>0, <1>1, <2>2, ReplacedHere
    <3> HIDE DEF y
    <3>2. y = Replaced(z, r)
      BY <1>4, <1>6
    <3>3. QED
      BY <3>1, <3>2 DEF RRset
  <2>3. ~Conflict(z, r) => r \in y
    BY <2>2 DEF RRset
  <2>4. QED
    BY <1>5, <2>1, <2>2, <2>3
<1>7. CASE Does(job, a) = "add"
  <2>1. y = Added(z, r)
    BY <1>4, <1>7
  <2>2. ~MustReplace(job, Answer(z, job.name, job.type))
    BY <1>7 DEF Does, SaltJob
  <2>3. \/ RRset(z, r.name, r.type) = {}
        \/ In(job, RRset(z, r.name, r.type))
    BY <1>0, <2>2, NoReplaceFound
  <2>4. ~Conflict(z, r) => r \in y
    <3> HIDE DEF r
    <3>1. QED
      BY <1>0, <1>1, <2>1, AddedHere
  <2>5. ASSUME Single(z), NEW s \in RRset(z, r.name, r.type)
        PROVE  [name |-> s.name, type |-> s.type, data |-> s.data, ttl |-> r.ttl] = r
    <3>1. PICK p \in RRset(z, r.name, r.type) : p.data = job.data
      BY <2>3, <2>5 DEF In
    <3>2. p = s
      BY <2>5, <3>1 DEF Single, RRset
    <3>3. s.name = r.name /\ s.type = r.type
      BY <2>5 DEF RRset
    <3>4. QED
      BY <1>0, <3>1, <3>2, <3>3
  <2>6. ASSUME Single(z), ~Conflict(z, r) PROVE RRset(y, r.name, r.type) = {r}
    <3> HIDE DEF r
    <3>1. \A q : q.name = r.name /\ q.type = r.type => (q \in Added(z, r) => q = r)
      BY <1>0, <1>1, <2>5, <2>6, AddedHere
    <3> HIDE DEF y
    <3>2. QED
      BY <2>1, <2>4, <2>6, <3>1 DEF RRset
  <2>7. ASSUME Single(z) PROVE Single(y)
    <3>1. CASE Conflict(z, r)
      BY <2>1, <2>7, <3>1 DEF Added, Conflict
    <3>2. CASE ~Conflict(z, r)
      <4>1. RRset(y, r.name, r.type) = {r}
        BY <2>6, <2>7, <3>2
      <4> HIDE DEF y, r
      <4>2. \A s \in y : s.name = r.name /\ s.type = r.type => s = r
        BY <4>1 DEF RRset
      <4>3. \A s \in y : s.name # r.name \/ s.type # r.type => s \in z
        BY <2>1, AddedElsewhere
      <4>4. QED
        BY <2>7, <4>2, <4>3 DEF Single
    <3>3. QED
      BY <3>1, <3>2
  <2>8. QED
    BY <1>5, <2>4, <2>6, <2>7
<1>8. QED
  BY <1>3, <1>6, <1>7

\* ... and another record of a consistent plan is where it was.
LEMMA OthersStay ==
  ASSUME NEW z, NEW m, m.does \in {"replace", "add"}, NEW w,
         w.name = m.name => w.type # m.type /\ "CNAME" \notin {w.type, m.type}
  PROVE  LET y == Applied(z, m)
         IN /\ w \in y <=> w \in z
            /\ RRset(y, w.name, w.type) = RRset(z, w.name, w.type)
            /\ FreeIn(y, w) <=> FreeIn(z, w)
<1> DEFINE r == RecordOf(m)
           y == Applied(z, m)
<1>0. r.name = m.name /\ r.type = m.type
  BY RecordShape
<1>1. y = Replaced(z, r) \/ y = Added(z, r)
  BY DEF Applied
<1> HIDE DEF r, y
<1>2. \A s : s.name # r.name \/ s.type # r.type => (s \in y <=> s \in z)
  BY <1>1, AddedElsewhere
<1>3. w \in y <=> w \in z
  BY <1>0, <1>2
<1>4. RRset(y, w.name, w.type) = RRset(z, w.name, w.type)
  BY <1>0, <1>2 DEF RRset
<1>5. FreeIn(y, w) <=> FreeIn(z, w)
  <2>1. CASE w.name # r.name
    BY <1>2, <2>1 DEF FreeIn
  <2>2. CASE w.name = r.name
    <3>1. w.type # "CNAME" /\ r.type # "CNAME"
      BY <1>0, <2>2
    <3>2. \A s : s.type = "CNAME" => (s \in y <=> s \in z)
      BY <1>2, <3>1
    <3>3. QED
      BY <3>1, <3>2 DEF FreeIn
  <2>3. QED
    BY <2>1, <2>2
<1>6. QED
  BY <1>3, <1>4, <1>5 DEF y

-----------------------------------------------------------------------------
(* Sequences and what they are made of *)

IsSeq(s) == s \in Seq(ToSet(s))

\* A function on 1 .. n is a sequence.
LEMMA FunIsSeq ==
  ASSUME NEW S, NEW n \in Nat, NEW f \in [1 .. n -> S]
  PROVE  f \in Seq(S) /\ Len(f) = n /\ DOMAIN f = 1 .. n /\ IsSeq(f)
<1>1. f \in [1 .. n -> ToSet(f)]
  BY DEF ToSet
<1>2. QED
  BY <1>1 DEF IsSeq

\* The elements of a sequence are those at its positions.
LEMMA OfSeq ==
  ASSUME NEW S, NEW s \in Seq(S)
  PROVE  IsSeq(s) /\ ToSet(s) \subseteq S /\ DOMAIN s = 1 .. Len(s) /\ Len(s) \in Nat
<1>1. Len(s) \in Nat /\ s \in [1 .. Len(s) -> S] /\ DOMAIN s = 1 .. Len(s)
  BY LenProperties
<1>2. IsSeq(s)
  BY <1>1, FunIsSeq
<1>3. QED
  BY <1>1, <1>2 DEF ToSet

\* The empty queue.
LEMMA EmptyQueue == IsSeq(<<>>) /\ ToSet(<<>>) = {}
<1>1. ToSet(<<>>) = {}
  BY DEF ToSet
<1>2. IsSeq(<<>>)
  BY EmptySeq DEF IsSeq
<1>3. QED
  BY <1>1, <1>2

\* A queue holds its head and what its tail holds.
LEMMA QueueTail ==
  ASSUME NEW s, IsSeq(s), s # <<>>
  PROVE  /\ Head(s) \in ToSet(s) /\ IsSeq(Tail(s))
         /\ ToSet(Tail(s)) \subseteq ToSet(s)
         /\ ToSet(s) \subseteq {Head(s)} \cup ToSet(Tail(s))
         /\ Tail(s) # s
<1> DEFINE S == ToSet(s)
<1>1. s \in Seq(S)
  BY DEF IsSeq
<1> HIDE DEF S
<1>2. /\ Head(s) \in S /\ Tail(s) \in Seq(S) /\ Len(Tail(s)) = Len(s) - 1
      /\ \A i \in 1 .. Len(Tail(s)) : Tail(s)[i] = s[i + 1]
  BY <1>1, HeadTailProperties
<1>3. Len(s) \in Nat /\ DOMAIN s = 1 .. Len(s) /\ Head(s) = s[1]
  BY <1>1
<1>4. IsSeq(Tail(s)) /\ ToSet(Tail(s)) \subseteq S /\ DOMAIN Tail(s) = 1 .. Len(Tail(s))
  BY <1>2, OfSeq
<1>5. ASSUME NEW x \in S PROVE x \in {Head(s)} \cup ToSet(Tail(s))
  <2>1. PICK i \in 1 .. Len(s) : x = s[i]
    BY <1>3 DEF S, ToSet
  <2>2. CASE i = 1
    BY <1>3, <2>1, <2>2
  <2>3. CASE i # 1
    <3>1. i - 1 \in 1 .. Len(Tail(s)) /\ (i - 1) + 1 = i
      BY <1>2, <1>3, <2>1, <2>3
    <3>2. Tail(s)[i - 1] = x
      BY <1>2, <2>1, <3>1
    <3>3. QED
      BY <1>4, <3>1, <3>2 DEF ToSet
  <2>4. QED
    BY <2>2, <2>3
<1>6. Tail(s) # s
  <2> DEFINE k == Len(Tail(s))
             n == Len(s)
  <2>1. k = n - 1 /\ n \in Nat
    BY <1>2, <1>3
  <2>2. Tail(s) = s => k = n
    OBVIOUS
  <2> HIDE DEF k, n
  <2>3. QED
    BY <2>1, <2>2
<1>7. S \subseteq {Head(s)} \cup ToSet(Tail(s))
  BY <1>5
<1>8. QED
  BY <1>2, <1>4, <1>6, <1>7 DEF S

\* What two queues hold together.
LEMMA QueueConcat ==
  ASSUME NEW s, NEW t, IsSeq(s), IsSeq(t)
  PROVE  IsSeq(s \o t) /\ ToSet(s \o t) = ToSet(s) \cup ToSet(t)
<1> DEFINE S == ToSet(s) \cup ToSet(t)
<1>1. s \in Seq(S) /\ t \in Seq(S)
  BY DEF IsSeq
<1>2. /\ Len(s) \in Nat /\ Len(t) \in Nat
      /\ ToSet(s) = {s[i] : i \in 1 .. Len(s)} /\ ToSet(t) = {t[i] : i \in 1 .. Len(t)}
  BY <1>1 DEF ToSet
<1> HIDE DEF S
<1>3. /\ s \o t \in Seq(S) /\ Len(s \o t) = Len(s) + Len(t)
      /\ \A i \in 1 .. Len(s) + Len(t) : (s \o t)[i] = IF i <= Len(s) THEN s[i] ELSE t[i - Len(s)]
  BY <1>1, ConcatProperties
<1>4. IsSeq(s \o t) /\ ToSet(s \o t) \subseteq S /\ DOMAIN (s \o t) = 1 .. Len(s) + Len(t)
  BY <1>3, OfSeq
<1>5. ASSUME NEW x \in S PROVE x \in ToSet(s \o t)
  <2>1. CASE x \in ToSet(s)
    <3>1. PICK i \in 1 .. Len(s) : x = s[i]
      BY <1>2, <2>1
    <3>2. i \in 1 .. Len(s) + Len(t) /\ (s \o t)[i] = x
      BY <1>2, <1>3, <3>1
    <3>3. QED
      BY <1>4, <3>2 DEF ToSet
  <2>2. CASE x \in ToSet(t)
    <3>1. PICK i \in 1 .. Len(t) : x = t[i]
      BY <1>2, <2>2
    <3>2. i + Len(s) \in 1 .. Len(s) + Len(t) /\ ~(i + Len(s) <= Len(s)) /\ (i + Len(s)) - Len(s) = i
      BY <1>2, <3>1
    <3>3. (s \o t)[i + Len(s)] = x
      BY <1>3, <3>1, <3>2
    <3>4. QED
      BY <1>4, <3>2, <3>3 DEF ToSet
  <2>3. QED
    BY <2>1, <2>2 DEF S
<1>6. QED
  BY <1>4, <1>5 DEF S

\* An injective sequence as long as a finite set is large has all its elements.
LEMMA Enumerates ==
  ASSUME NEW S, IsFiniteSet(S), NEW f \in [1 .. Cardinality(S) -> S],
         \A i, j \in 1 .. Cardinality(S) : f[i] = f[j] => i = j
  PROVE  IsSeq(f) /\ ToSet(f) = S
<1> DEFINE n == Cardinality(S)
<1>1. n \in Nat
  BY FS_CardinalityType
<1> HIDE DEF n
<1>2. f \in Injection(1 .. n, S)
  BY DEF Injection, IsInjective, n
<1>3. Cardinality(1 .. n) = n
  <2>1. Cardinality(1 .. n) = IF 1 > n THEN 0 ELSE n - 1 + 1
    BY <1>1, FS_Interval
  <2>2. QED
    BY <1>1, <2>1
<1>4. f \in Surjection(1 .. n, S)
  BY <1>2, <1>3, FS_Injection DEF n
<1>5. ToSet(f) = S
  <2>1. DOMAIN f = 1 .. n /\ \A x \in S : \E i \in 1 .. n : f[i] = x
    BY <1>4 DEF Surjection, n
  <2>2. \A i \in 1 .. n : f[i] \in S
    BY DEF n
  <2>3. QED
    BY <2>1, <2>2 DEF ToSet
<1>6. QED
  BY <1>1, <1>5, FunIsSeq DEF n

\* SetToSeq enumerates a finite set.
LEMMA SetToSeqAll ==
  ASSUME NEW S, IsFiniteSet(S)
  PROVE  IsSeq(SetToSeq(S)) /\ ToSet(SetToSeq(S)) = S
<1> DEFINE n == Cardinality(S)
<1>1. ExistsBijection(1 .. n, S)
  BY FS_CardinalityType
<1>2. \E f \in [1 .. n -> S] : IsInjective(f)
  BY <1>1 DEF ExistsBijection, Bijection, Injection
<1>3. SetToSeq(S) \in [1 .. n -> S] /\ IsInjective(SetToSeq(S))
  BY <1>2 DEF SetToSeq
<1>4. \A i, j \in 1 .. n : SetToSeq(S)[i] = SetToSeq(S)[j] => i = j
  BY <1>3 DEF IsInjective
<1>5. QED
  BY <1>3, <1>4, Enumerates

-----------------------------------------------------------------------------
(* What is rendered *)

\* Every set of natural numbers that is not empty has a least one.
LEMMA HasMin ==
  ASSUME NEW S \in SUBSET Nat, S # {}
  PROVE  \E m \in S : \A x \in S : m <= x
<1> DEFINE R == OpToRel(<, Nat)
<1>1. IsWellFoundedOn(R, Nat)
  BY NatLessThanWellFounded
<1>2. \E m \in S : \A x \in S : ~(<<x, m>> \in R)
  <2> HIDE DEF R
  <2>1. QED
    BY <1>1, WFMin
<1>3. PICK m \in S : \A x \in S : ~(<<x, m>> \in R)
  BY <1>2
<1>4. \A x \in S : ~(x < m)
  BY <1>3 DEF OpToRel
<1>5. QED
  BY <1>4

\* Candidates whose priorities and names are numbers have a first one.
LEMMA FirstCandidate ==
  ASSUME NEW S, S # {}, \A c \in S : c.priority \in Nat /\ FqdnRank(c.target) \in Nat
  PROVE  \E m \in S : \A c \in S : ~Before(c, m)
<1> DEFINE P == {c.priority : c \in S}
<1>1. PICK p \in P : \A x \in P : p <= x
  <2>1. P \in SUBSET Nat /\ P # {}
    OBVIOUS
  <2> HIDE DEF P
  <2>2. QED
    BY <2>1, HasMin
<1> DEFINE low == {c \in S : c.priority = p}
           Q == {FqdnRank(c.target) : c \in low}
<1>2. PICK q \in Q : \A x \in Q : q <= x
  <2>1. Q \in SUBSET Nat /\ Q # {}
    BY <1>1
  <2> HIDE DEF Q
  <2>2. QED
    BY <2>1, HasMin
<1>3. PICK m \in low : FqdnRank(m.target) = q
  BY <1>2
<1>4. ASSUME NEW c \in S, Before(c, m) PROVE FALSE
  <2>1. p \in Nat /\ c.priority \in Nat /\ p <= c.priority /\ m.priority = p
    BY <1>1, <1>3
  <2>2. c.priority = p /\ FqdnRank(c.target) < FqdnRank(m.target)
    BY <1>4, <2>1 DEF Before
  <2>3. q <= FqdnRank(c.target)
    BY <1>2, <2>2
  <2>4. QED
    BY <1>3, <2>2, <2>3
<1>5. QED
  BY <1>3, <1>4

\* The first k candidates in their order.
IsBeginning(f, k, S) ==
  /\ f \in [1 .. k -> S]
  /\ \A i, j \in 1 .. k : f[i] = f[j] => i = j
  /\ \A i, j \in 1 .. k : i < j => ~Before(f[j], f[i])
  /\ \A i \in 1 .. k : \A c \in S : (\A j \in 1 .. k : f[j] # c) => ~Before(c, f[i])

\* One more candidate, the first of the others.
LEMMA PrefixGrows ==
  ASSUME NEW S, \A c \in S : c.priority \in Nat /\ FqdnRank(c.target) \in Nat,
         NEW k \in Nat, NEW f, IsBeginning(f, k, S),
         \E c \in S : \A j \in 1 .. k : f[j] # c
  PROVE  \E g : IsBeginning(g, k + 1, S)
<1> DEFINE rest == {c \in S : \A j \in 1 .. k : f[j] # c}
<1>1. PICK m \in rest : \A c \in rest : ~Before(c, m)
  <2>1. rest # {} /\ \A c \in rest : c.priority \in Nat /\ FqdnRank(c.target) \in Nat
    OBVIOUS
  <2> HIDE DEF rest
  <2>2. QED
    BY <2>1, FirstCandidate
<1> DEFINE g == [i \in 1 .. k + 1 |-> IF i = k + 1 THEN m ELSE f[i]]
<1>2. \A i \in 1 .. k : i \in 1 .. k + 1 /\ i # k + 1 /\ g[i] = f[i] /\ f[i] \in S
  BY DEF IsBeginning
<1>3. g[k + 1] = m /\ k + 1 \in 1 .. k + 1 /\ m \in S /\ \A j \in 1 .. k : f[j] # m
  OBVIOUS
<1>4. \A i \in 1 .. k + 1 : i \in 1 .. k \/ i = k + 1
  OBVIOUS
<1>5. g \in [1 .. k + 1 -> S]
  BY <1>2, <1>3, <1>4
<1> HIDE DEF g
<1>6. ASSUME NEW i \in 1 .. k + 1, NEW j \in 1 .. k + 1, g[i] = g[j] PROVE i = j
  <2>1. CASE i \in 1 .. k /\ j \in 1 .. k
    BY <1>2, <1>6, <2>1 DEF IsBeginning
  <2>2. QED
    BY <1>2, <1>3, <1>4, <1>6, <2>1
<1>7. ASSUME NEW i \in 1 .. k + 1, NEW j \in 1 .. k + 1, i < j PROVE ~Before(g[j], g[i])
  <2>1. i \in 1 .. k
    BY <1>7
  <2>2. CASE j \in 1 .. k
    BY <1>2, <1>7, <2>1, <2>2 DEF IsBeginning
  <2>3. CASE j = k + 1
    <3>1. ~Before(m, f[i])
      BY <1>3, <2>1 DEF IsBeginning
    <3>2. QED
      BY <1>2, <1>3, <2>1, <2>3, <3>1
  <2>4. QED
    BY <1>4, <2>2, <2>3
<1>8. ASSUME NEW i \in 1 .. k + 1, NEW c \in S, \A j \in 1 .. k + 1 : g[j] # c
      PROVE  ~Before(c, g[i])
  <2>1. \A j \in 1 .. k : f[j] # c
    BY <1>2, <1>8
  <2>2. CASE i \in 1 .. k
    BY <1>2, <2>1, <2>2 DEF IsBeginning
  <2>3. CASE i = k + 1
    BY <1>1, <1>3, <2>1, <2>3
  <2>4. QED
    BY <1>4, <2>2, <2>3
<1>9. IsBeginning(g, k + 1, S)
  BY <1>5, <1>6, <1>7, <1>8 DEF IsBeginning
<1>10. QED
  BY <1>9

\* All candidates can be put in order: there is no least length at which it fails.
LEMMA PrefixExists ==
  ASSUME NEW S, IsFiniteSet(S), \A c \in S : c.priority \in Nat /\ FqdnRank(c.target) \in Nat
  PROVE  \E f : IsBeginning(f, Cardinality(S), S)
<1> DEFINE n == Cardinality(S)
           T == {k \in 0 .. n : ~(\E f : IsBeginning(f, k, S))}
<1>0. n \in Nat
  BY FS_CardinalityType
<1> HIDE DEF n
<1>1. SUFFICES ASSUME T # {} PROVE FALSE
  BY <1>0 DEF n
<1>2. PICK k \in T : \A x \in T : k <= x
  <2>1. T \in SUBSET Nat
    BY <1>0
  <2> HIDE DEF T
  <2>2. QED
    BY <1>1, <2>1, HasMin
<1>3. k # 0
  <2>1. IsBeginning(<<>>, 0, S)
    <3>1. <<>> \in [1 .. 0 -> S] /\ 1 .. 0 = {}
      OBVIOUS
    <3>2. QED
      BY <3>1 DEF IsBeginning
  <2>2. QED
    BY <2>1
<1>4. k \in Nat /\ k - 1 \in Nat /\ k - 1 \in 0 .. n /\ k - 1 \notin T /\ k <= n /\ (k - 1) + 1 = k
  BY <1>0, <1>2, <1>3
<1>5. PICK f : IsBeginning(f, k - 1, S)
  BY <1>4
<1>6. \E c \in S : \A j \in 1 .. k - 1 : f[j] # c
  <2> SUFFICES ASSUME \A c \in S : \E j \in 1 .. k - 1 : f[j] = c PROVE FALSE
    OBVIOUS
  <2>1. f \in Surjection(1 .. k - 1, S)
    BY <1>5 DEF IsBeginning, Surjection
  <2>2. ExistsSurjection(1 .. k - 1, S)
    BY <2>1 DEF ExistsSurjection
  <2>3. n <= k - 1
    BY <1>4, <2>2, FS_SurjCardinalityBound DEF n
  <2>4. QED
    BY <1>0, <1>4, <2>3
<1>7. \E g : IsBeginning(g, (k - 1) + 1, S)
  BY <1>4, <1>5, <1>6, PrefixGrows
<1>8. QED
  BY <1>2, <1>4, <1>7

\* Sorting works: all the candidates, none before an earlier one.
LEMMA SortedAll ==
  ASSUME NEW S, IsFiniteSet(S), \A c \in S : c.priority \in Nat /\ FqdnRank(c.target) \in Nat
  PROVE  /\ ToSet(Sorted(S)) = S /\ DOMAIN Sorted(S) = 1 .. Cardinality(S)
         /\ Cardinality(S) \in Nat
         /\ \A i, j \in DOMAIN Sorted(S) : i < j => ~Before(Sorted(S)[j], Sorted(S)[i])
<1> DEFINE n == Cardinality(S)
           Good(s) == \A i, j \in DOMAIN s : i < j => ~Before(s[j], s[i])
<1>1. PICK f : IsBeginning(f, n, S)
  BY PrefixExists
<1>2. f \in SetToSeqs(S) /\ Good(f)
  <2>1. f \in [1 .. n -> S] /\ DOMAIN f = 1 .. n
    BY <1>1 DEF IsBeginning
  <2>2. QED
    BY <1>1, <2>1 DEF IsBeginning, SetToSeqs
<1>3. Sorted(S) \in SetToSeqs(S) /\ Good(Sorted(S))
  <2>1. \E s \in SetToSeqs(S) : Good(s)
    BY <1>2
  <2>2. Sorted(S) = CHOOSE s \in SetToSeqs(S) : Good(s)
    BY DEF Sorted
  <2> HIDE DEF Good
  <2>3. QED
    BY <2>1, <2>2
<1>4. /\ Sorted(S) \in [1 .. n -> S]
      /\ \A i, j \in 1 .. n : Sorted(S)[i] = Sorted(S)[j] => i = j
  BY <1>3 DEF SetToSeqs
<1>5. n \in Nat
  BY FS_CardinalityType
<1>6. ToSet(Sorted(S)) = S
  BY <1>4, Enumerates
<1>7. QED
  BY <1>3, <1>4, <1>5, <1>6

\* The devices, their records and the candidates they give are finitely many.
LEMMA ExtraFinite ==
  ASSUME NEW p \in Plans
  PROVE  IsFiniteSet(ExtraRecords(p.hosts)) /\ IsFiniteSet(AllCandidates(p))
<1> DEFINE hosts == p.hosts
           last == {j \in DOMAIN hosts : \A k \in DOMAIN hosts :
                      k > j => hosts[k].name # hosts[j].name}
           E == Entries(hosts)
           F4 == {e \in E : e.ip4 # ""}
           F6 == {e \in E : e.ip6 # ""}
           R4 == {[name |-> e.name, type |-> "A", data |-> e.ip4] : e \in F4}
           R6 == {[name |-> e.name, type |-> "AAAA", data |-> e.ip6] : e \in F6}
           R == ExtraRecords(hosts)
           C == {[address |-> r.data, target |-> r.name, priority |-> 30] : r \in R}
<1>1. IsFiniteSet(last)
  <2>1. hosts \in Seq(ToSet(hosts))
    BY ListAssumption
  <2>2. Len(hosts) \in Nat /\ DOMAIN hosts = 1 .. Len(hosts)
    BY <2>1, OfSeq
  <2>3. IsFiniteSet(1 .. Len(hosts))
    BY <2>2, FS_Interval
  <2>4. last \subseteq 1 .. Len(hosts)
    BY <2>2
  <2> HIDE DEF last
  <2>5. QED
    BY <2>3, <2>4, FS_Subset
<1>2. IsFiniteSet(E)
  <2> DEFINE f == [i \in last |-> hosts[i]]
  <2>1. f \in [last -> E] /\ E = {f[i] : i \in last}
    BY DEF Entries
  <2> HIDE DEF f, last, E
  <2>2. QED
    BY <1>1, <2>1, ImageFinite
<1>3. IsFiniteSet(R4)
  <2>1. IsFiniteSet(F4)
    <3> HIDE DEF E
    <3>1. F4 \subseteq E
      OBVIOUS
    <3>2. QED
      BY <1>2, <3>1, FS_Subset
  <2> HIDE DEF F4
  <2> DEFINE f == [e \in F4 |-> [name |-> e.name, type |-> "A", data |-> e.ip4]]
  <2>2. f \in [F4 -> R4] /\ R4 = {f[e] : e \in F4}
    OBVIOUS
  <2> HIDE DEF f, R4
  <2>3. QED
    BY <2>1, <2>2, ImageFinite
<1>4. IsFiniteSet(R6)
  <2>1. IsFiniteSet(F6)
    <3> HIDE DEF E
    <3>1. F6 \subseteq E
      OBVIOUS
    <3>2. QED
      BY <1>2, <3>1, FS_Subset
  <2> HIDE DEF F6
  <2> DEFINE f == [e \in F6 |-> [name |-> e.name, type |-> "AAAA", data |-> e.ip6]]
  <2>2. f \in [F6 -> R6] /\ R6 = {f[e] : e \in F6}
    OBVIOUS
  <2> HIDE DEF f, R6
  <2>3. QED
    BY <2>1, <2>2, ImageFinite
<1>5. IsFiniteSet(R)
  <2>1. R = R4 \cup R6
    BY DEF ExtraRecords
  <2> HIDE DEF R, R4, R6
  <2>2. QED
    BY <1>3, <1>4, <2>1, FS_Union
<1>6. IsFiniteSet(C)
  <2> HIDE DEF R
  <2> DEFINE f == [r \in R |-> [address |-> r.data, target |-> r.name, priority |-> 30]]
  <2>1. f \in [R -> C] /\ C = {f[r] : r \in R}
    OBVIOUS
  <2> HIDE DEF f, C
  <2>2. QED
    BY <1>5, <2>1, ImageFinite
<1>7. IsFiniteSet(AllCandidates(p))
  <2>1. AllCandidates(p) = p.candidates \cup C
    BY DEF AllCandidates, ExtraCandidates
  <2> HIDE DEF C
  <2>2. IsFiniteSet(p.candidates)
    BY CandidateAssumption
  <2>3. QED
    BY <1>6, <2>1, <2>2, FS_Union
<1>8. QED
  BY <1>5, <1>7

\* Candidates can be compared.
LEMMA CandidateFacts ==
  ASSUME NEW p \in Plans
  PROVE  \A c \in AllCandidates(p) : c.priority \in Nat /\ FqdnRank(c.target) \in Nat
BY CandidateAssumption

\* ... and so are the PTR records.
LEMMA PtrFinite ==
  ASSUME NEW p \in Plans
  PROVE  IsFiniteSet(PtrRecords(AllCandidates(p), p.custom))
<1> DEFINE all == AllCandidates(p)
           s == Sorted(all)
           first == {j \in DOMAIN s : \A k \in DOMAIN s : k < j => s[k].address # s[j].address}
           sel == Chosen(all)
           custom == p.custom
           last == {j \in DOMAIN custom : \A k \in DOMAIN custom : k > j => custom[k][2] # custom[j][2]}
           own == {<<custom[i][2], custom[i][1]>> : i \in last}
           kept == {t \in sel : \A i \in DOMAIN custom : custom[i][2] # t[1]}
           public == {t \in Overridden(sel, custom) : t[1] \in Public}
           ptrs == PtrRecords(all, custom)
<1>1. IsFiniteSet(first)
  <2>1. DOMAIN s = 1 .. Cardinality(all) /\ Cardinality(all) \in Nat
    BY ExtraFinite, CandidateFacts, SortedAll
  <2>2. IsFiniteSet(1 .. Cardinality(all))
    BY <2>1, FS_Interval
  <2>3. first \subseteq 1 .. Cardinality(all)
    BY <2>1
  <2> HIDE DEF first
  <2>4. QED
    BY <2>2, <2>3, FS_Subset
<1>2. IsFiniteSet(sel)
  <2> DEFINE f == [i \in first |-> <<s[i].address, s[i].target>>]
  <2>1. f \in [first -> sel] /\ sel = {f[i] : i \in first}
    BY DEF Chosen
  <2> HIDE DEF f, first, sel
  <2>2. QED
    BY <1>1, <2>1, ImageFinite
<1>3. IsFiniteSet(last)
  <2>1. custom \in Seq(ToSet(custom))
    BY ListAssumption
  <2>2. Len(custom) \in Nat /\ DOMAIN custom = 1 .. Len(custom)
    BY <2>1, OfSeq
  <2>3. IsFiniteSet(1 .. Len(custom))
    BY <2>2, FS_Interval
  <2>4. last \subseteq 1 .. Len(custom)
    BY <2>2
  <2> HIDE DEF last
  <2>5. QED
    BY <2>3, <2>4, FS_Subset
<1>4. IsFiniteSet(own)
  <2> HIDE DEF last
  <2> DEFINE f == [i \in last |-> <<custom[i][2], custom[i][1]>>]
  <2>1. f \in [last -> own] /\ own = {f[i] : i \in last}
    OBVIOUS
  <2> HIDE DEF f, own
  <2>2. QED
    BY <1>3, <2>1, ImageFinite
<1>5. IsFiniteSet(Overridden(sel, custom))
  <2>1. Overridden(sel, custom) = kept \cup own
    BY DEF Overridden
  <2>2. kept \subseteq sel
    OBVIOUS
  <2>3. IsFiniteSet(kept)
    <3> HIDE DEF kept, sel
    <3>1. QED
      BY <1>2, <2>2, FS_Subset
  <2> HIDE DEF kept, own, sel
  <2>4. QED
    BY <1>4, <2>1, <2>3, FS_Union
<1>6. IsFiniteSet(public)
  <2> HIDE DEF sel
  <2>1. public \subseteq Overridden(sel, custom)
    OBVIOUS
  <2>2. QED
    BY <1>5, <2>1, FS_Subset
<1>7. IsFiniteSet(ptrs)
  <2> DEFINE f == [t \in public |-> [name |-> PtrName(t[1]), type |-> "PTR", data |-> t[2]]]
  <2>1. ptrs = {[name |-> PtrName(t[1]), type |-> "PTR", data |-> t[2]] : t \in public}
    BY DEF PtrRecords
  <2> HIDE DEF public, ptrs
  <2>2. f \in [public -> ptrs] /\ ptrs = {f[t] : t \in public}
    BY <2>1
  <2> HIDE DEF f
  <2>3. QED
    BY <1>6, <2>2, ImageFinite
<1>8. QED
  BY <1>7

\* What is rendered: a state for every record, each of the kind SaltJob.
LEMMA RenderedFacts ==
  ASSUME NEW p \in Plans
  PROVE  /\ IsSeq(Rendered(p))
         /\ Rendered(p) # <<>>
         /\ \A job \in ToSet(Rendered(p)) : SaltJob(job)
         /\ \A r \in PtrRecords(AllCandidates(p), p.custom) :
              \E job \in ToSet(Rendered(p)) : RecordOf(job) = RecordOf(r)
<1> DEFINE extra == ExtraRecords(p.hosts)
           ptrs == PtrRecords(AllCandidates(p), p.custom)
           all == p.own \o SetToSeq(extra) \o p.records \o SetToSeq(ptrs)
           Zone(r) == IF r.type = "PTR" THEN ZoneFor ELSE "fwd"
           JobOf(r) == Job("update", Zone(r), r.name, r.type, r.data, FALSE, TRUE, {})
           s == Rendered(p)
<1>1. IsSeq(all) /\ ToSet(all) = ToSet(p.own) \cup extra \cup ToSet(p.records) \cup ptrs
  <2>1. IsSeq(p.own) /\ IsSeq(p.records)
    BY ListAssumption DEF IsSeq
  <2>2. IsSeq(SetToSeq(extra)) /\ ToSet(SetToSeq(extra)) = extra
    BY ExtraFinite, SetToSeqAll
  <2>3. IsSeq(SetToSeq(ptrs)) /\ ToSet(SetToSeq(ptrs)) = ptrs
    BY PtrFinite, SetToSeqAll
  <2> HIDE DEF extra, ptrs
  <2>4. /\ IsSeq(p.own \o SetToSeq(extra))
        /\ ToSet(p.own \o SetToSeq(extra)) = ToSet(p.own) \cup extra
    BY <2>1, <2>2, QueueConcat
  <2>5. /\ IsSeq(p.own \o SetToSeq(extra) \o p.records)
        /\ ToSet(p.own \o SetToSeq(extra) \o p.records) =
             ToSet(p.own) \cup extra \cup ToSet(p.records)
    BY <2>1, <2>4, QueueConcat
  <2>6. QED
    BY <2>3, <2>5, QueueConcat
<1>2. \A r \in ToSet(all) : r.type # "ANY"
  <2>1. \A r \in extra : r.type # "ANY"
    <3> SUFFICES ASSUME NEW r \in extra PROVE r.type # "ANY"
      OBVIOUS
    <3>1. \/ \E e \in Entries(p.hosts) : r = [name |-> e.name, type |-> "A", data |-> e.ip4]
          \/ \E e \in Entries(p.hosts) : r = [name |-> e.name, type |-> "AAAA", data |-> e.ip6]
      BY DEF ExtraRecords
    <3>2. QED
      BY <3>1
  <2>2. \A r \in ptrs : r.type # "ANY"
    BY DEF PtrRecords
  <2>3. \A r \in ToSet(p.own) \cup ToSet(p.records) : r.type # "ANY"
    BY ListAssumption
  <2> HIDE DEF extra, ptrs, all
  <2>4. QED
    BY <1>1, <2>1, <2>2, <2>3
<1>3. s = [i \in DOMAIN all |-> JobOf(all[i])]
  BY DEF Rendered
<1>4. Len(all) \in Nat /\ DOMAIN all = 1 .. Len(all)
  <2> HIDE DEF all
  <2>1. QED
    BY <1>1, OfSeq DEF IsSeq
<1> HIDE DEF all, s, extra, ptrs
<1>5. DOMAIN s = 1 .. Len(all) /\ \A i \in 1 .. Len(all) : s[i] = JobOf(all[i]) /\ all[i] \in ToSet(all)
  BY <1>3, <1>4 DEF ToSet
<1> HIDE DEF JobOf
<1>6. IsSeq(s)
  <2> DEFINE S == {JobOf(all[i]) : i \in 1 .. Len(all)}
  <2>1. s \in [1 .. Len(all) -> S]
    BY <1>3, <1>4
  <2> HIDE DEF S
  <2>2. QED
    BY <1>4, <2>1, FunIsSeq
<1>7. \A job \in ToSet(s) : \E r \in ToSet(all) : job = JobOf(r)
  BY <1>5 DEF ToSet
<1>8. \A r \in ToSet(all) : JobOf(r) \in ToSet(s)
  BY <1>4, <1>5 DEF ToSet
<1>9. \A r : /\ JobOf(r).op = "update" /\ JobOf(r).replace = FALSE
             /\ JobOf(r).replace_on_change = TRUE /\ JobOf(r).stop = {}
             /\ JobOf(r).type = r.type /\ RecordOf(JobOf(r)) = RecordOf(r)
  BY DEF JobOf, Job, RecordOf
<1>10. \A job \in ToSet(s) : SaltJob(job)
  BY <1>2, <1>7, <1>9 DEF SaltJob
<1>11. s # <<>>
  <2> SUFFICES ASSUME s = <<>> PROVE FALSE
    OBVIOUS
  <2>1. ToSet(s) = {}
    BY EmptyQueue
  <2>2. WantedOf[p] = {}
    BY <2>1 DEF WantedOf, s
  <2>3. Cardinality({}) = 0
    BY FS_EmptySet
  <2>4. Cardinality(WantedOf[p]) > 0
    BY PlanAssumption
  <2> HIDE DEF WantedOf
  <2>5. QED
    BY <2>2, <2>3, <2>4
<1>12. \A r \in ptrs : \E job \in ToSet(s) : RecordOf(job) = RecordOf(r)
  BY <1>1, <1>8, <1>9
<1>13. QED
  BY <1>6, <1>10, <1>11, <1>12 DEF s, ptrs

\* Sorting and setdefault select the best candidate of an address.
LEMMA ChosenBest ==
  ASSUME NEW p \in Plans, NEW d \in AllCandidates(p),
         \A e \in AllCandidates(p) : e.address = d.address =>
           /\ d.priority <= e.priority
           /\ d.priority = e.priority => FqdnRank(d.target) <= FqdnRank(e.target)
  PROVE  <<d.address, d.target>> \in Chosen(AllCandidates(p))
<1> DEFINE all == AllCandidates(p)
           s == Sorted(all)
           n == Cardinality(all)
           mine == {i \in 1 .. n : s[i].address = d.address}
<1>1. /\ ToSet(s) = all /\ DOMAIN s = 1 .. n /\ n \in Nat
      /\ \A i, j \in DOMAIN s : i < j => ~Before(s[j], s[i])
  BY ExtraFinite, CandidateFacts, SortedAll
<1> HIDE DEF s, n
<1>2. PICK j \in 1 .. n : s[j] = d
  BY <1>1 DEF ToSet
<1>3. PICK i \in mine : \A k \in mine : i <= k
  <2>1. mine \in SUBSET Nat /\ mine # {}
    BY <1>1, <1>2
  <2> HIDE DEF mine
  <2>2. QED
    BY <2>1, HasMin
<1>4. i \in DOMAIN s /\ \A k \in DOMAIN s : k < i => s[k].address # s[i].address
  BY <1>1, <1>3
<1>5. <<s[i].address, s[i].target>> \in Chosen(all)
  BY <1>4 DEF Chosen, s
<1>6. s[i] \in all /\ s[i].address = d.address
  BY <1>1, <1>3 DEF ToSet
<1>7. s[i].target = d.target
  <2>1. CASE i = j
    BY <1>2, <2>1
  <2>2. CASE i # j
    <3>1. i < j
      BY <1>1, <1>2, <1>3, <2>2
    <3>2. ~Before(d, s[i])
      BY <1>1, <1>2, <1>4, <3>1
    <3>3. /\ d.priority \in Nat /\ s[i].priority \in Nat
          /\ FqdnRank(d.target) \in Nat /\ FqdnRank(s[i].target) \in Nat
      BY <1>6, CandidateFacts
    <3>4. /\ d.priority <= s[i].priority
          /\ d.priority = s[i].priority => FqdnRank(d.target) <= FqdnRank(s[i].target)
      BY <1>6
    <3>5. FqdnRank(d.target) = FqdnRank(s[i].target)
      BY <3>2, <3>3, <3>4 DEF Before
    <3>6. QED
      BY <1>6, <3>5, CandidateAssumption
  <2>3. QED
    BY <2>1, <2>2
<1>8. QED
  BY <1>5, <1>6, <1>7

\* The PTR record of the best target of a public address is rendered.
LEMMA BestIsWanted ==
  ASSUME plan \in Plans, NEW a \in Public, NEW t \in BestTargets(a)
  PROVE  [name |-> PtrName(a), type |-> "PTR", data |-> t, ttl |-> Ttl] \in Wanted
<1> DEFINE all == AllCandidates(plan)
           mine == {c \in all : c.address = a}
           own == {i \in DOMAIN plan.custom : plan.custom[i][2] = a}
           r == [name |-> PtrName(a), type |-> "PTR", data |-> t]
<1>1. <<a, t>> \in Overridden(Chosen(all), plan.custom)
  <2>1. CASE own # {}
    <3>1. PICK i \in own : (\A k \in own : k <= i) /\ t = plan.custom[i][1]
      BY <2>1 DEF BestTargets
    <3>2. plan.custom \in Seq(ToSet(plan.custom))
      BY ListAssumption
    <3>3. Len(plan.custom) \in Nat /\ DOMAIN plan.custom = 1 .. Len(plan.custom)
      BY <3>2, OfSeq
    <3>4. \A k \in DOMAIN plan.custom : k > i => plan.custom[k][2] # plan.custom[i][2]
      BY <3>1, <3>3
    <3>5. QED
      BY <3>1, <3>4 DEF Overridden
  <2>2. CASE own = {}
    <3>1. PICK d \in mine : /\ \A e \in mine :
                                 /\ d.priority <= e.priority
                                 /\ d.priority = e.priority => FqdnRank(d.target) <= FqdnRank(e.target)
                            /\ t = d.target
      BY <2>2 DEF BestTargets
    <3>2. <<d.address, d.target>> \in Chosen(all)
      BY <3>1, ChosenBest
    <3>3. <<a, t>> \in Chosen(all)
      BY <3>1, <3>2
    <3>4. <<a, t>>[1] = a
      OBVIOUS
    <3>5. \A i \in DOMAIN plan.custom : plan.custom[i][2] # a
      BY <2>2
    <3>6. QED
      BY <3>3, <3>4, <3>5 DEF Overridden
  <2>3. QED
    BY <2>1, <2>2
<1>2. r \in PtrRecords(all, plan.custom)
  <2>1. <<a, t>>[1] = a /\ <<a, t>>[2] = t
    OBVIOUS
  <2>2. QED
    BY <1>1, <2>1 DEF PtrRecords
<1>3. PICK job \in ToSet(Rendered(plan)) : RecordOf(job) = RecordOf(r)
  BY <1>2, RenderedFacts
<1>4. RecordOf(r) = [name |-> PtrName(a), type |-> "PTR", data |-> t, ttl |-> Ttl]
  BY DEF RecordOf
<1>5. QED
  BY <1>3, <1>4 DEF Wanted, WantedOf

-----------------------------------------------------------------------------
(* The steps *)

\* The wanted records are those of the rendered states.
LEMMA WantedJobs ==
  ASSUME plan \in Plans
  PROVE  Wanted = {RecordOf(job) : job \in ToSet(Rendered(plan))}
BY DEF Wanted, WantedOf

\* The call that salt is at.
LEMMA SaltHead ==
  ASSUME IInv, work["salt"] # <<>>
  PROVE  LET job == Head(work["salt"]) IN
         /\ job \in ToSet(work["salt"]) /\ job \in ToSet(Rendered(plan))
         /\ SaltJob(job) /\ RecordOf(job) \in Wanted
         /\ plan \in Plans
<1>1. IsSeq(work["salt"])
  BY DEF IInv, Queues, Who, IsSeq
<1>2. Head(work["salt"]) \in ToSet(work["salt"])
  BY <1>1, QueueTail
<1>3. plan \in Plans
  BY DEF IInv, Shape
<1>4. Head(work["salt"]) \in ToSet(Rendered(plan))
  BY <1>2 DEF IInv, Queues
<1>5. SaltJob(Head(work["salt"]))
  BY <1>3, <1>4, RenderedFacts
<1>6. QED
  BY <1>2, <1>3, <1>4, <1>5, WantedJobs

\* Something about the plan that no step but Edit changes.
LEMMA SamePlan ==
  ASSUME plan' = plan
  PROVE  Wanted' = Wanted /\ (Consistent' <=> Consistent)
BY DEF Wanted, Consistent

\* ... and about the contents of the nameserver.
LEMMA SameZone ==
  ASSUME UNCHANGED <<zone, raced>>, NEW w
  PROVE  Done(w)' <=> Done(w)
BY DEF Done, Free, InPlace

\* Salt has ended a call: the inductive invariant survives if the contents of the
\* nameserver are in order and the record of the call is in place after a success.
LEMMA SaltFinish ==
  ASSUME IInv, work["salt"] # <<>>, NEW outcome, Finish("salt", outcome),
         plan' = plan, calm' = calm, ZoneOK', raced' \in BOOLEAN,
         calm /\ Consistent => \A w \in Wanted : Done(w) => Done(w)',
         calm /\ Consistent /\ outcome \notin {"refused", "raised"} =>
           \A w \in Wanted : w = RecordOf(Head(work["salt"])) => Done(w)'
  PROVE  IInv'
<1> DEFINE job == Head(work["salt"])
           rest == Tail(work["salt"])
           failed == red \/ outcome \in {"refused", "raised"}
<1>1. /\ job \in ToSet(work["salt"]) /\ job \in ToSet(Rendered(plan))
      /\ SaltJob(job) /\ RecordOf(job) \in Wanted
      /\ plan \in Plans
  BY SaltHead
<1>2. /\ work = [p \in Who |-> work[p]] /\ pending = [p \in Who |-> pending[p]]
      /\ \A p \in Who : IsSeq(work[p])
  BY DEF IInv, Queues, IsSeq
<1>3. /\ IsSeq(rest) /\ ToSet(rest) \subseteq ToSet(work["salt"])
      /\ ToSet(work["salt"]) \subseteq {job} \cup ToSet(rest)
  BY <1>2, QueueTail DEF Who
<1>4. /\ work' = [work EXCEPT !["salt"] = rest]
      /\ pending' = [pending EXCEPT !["salt"] = NoMessage]
  BY <1>1 DEF Finish, SaltJob
<1>5. IF rest = <<>> THEN Ends(IF failed THEN "red" ELSE "green", TRUE)
                     ELSE red' = failed /\ UNCHANGED <<stage, result, settled>>
  BY <1>1 DEF Finish, SaltJob
<1> HIDE DEF job, rest
<1>6. /\ work'["salt"] = rest /\ work'["admin"] = work["admin"]
      /\ pending'["salt"] = NoMessage /\ pending'["admin"] = pending["admin"]
      /\ work' = [p \in Who |-> work'[p]] /\ pending' = [p \in Who |-> pending'[p]]
  BY <1>2, <1>4 DEF Who
<1>7. stage = "apply"
  BY DEF IInv, Shape
<1>8. Wanted' = Wanted /\ (Consistent' <=> Consistent)
  BY SamePlan
<1>9. Shape'
  <2>1. red \in BOOLEAN /\ settled \in BOOLEAN /\ calm \in BOOLEAN /\ result \in {"none", "green", "red", "test"}
    BY DEF IInv, Shape
  <2>2. CASE rest = <<>>
    BY <1>1, <1>5, <1>6, <2>1, <2>2 DEF Shape, Ends
  <2>3. CASE rest # <<>>
    BY <1>1, <1>5, <1>6, <1>7, <2>1, <2>3 DEF Shape
  <2>4. QED
    BY <2>2, <2>3
<1>10. Queues'
  <2>1. \A p \in Who : IsSeq(work'[p])
    BY <1>2, <1>3, <1>6 DEF Who
  <2>2. ToSet(work'["salt"]) \subseteq ToSet(Rendered(plan'))
    BY <1>3, <1>6 DEF IInv, Queues
  <2>3. \A j \in ToSet(work'["admin"]) : AdminJob(j)
    BY <1>6 DEF IInv, Queues
  <2>4. QED
    BY <1>6, <2>1, <2>2, <2>3 DEF Queues, IsSeq
<1>11. Messages'
  BY <1>6 DEF IInv, Messages, Who
<1>12. settled' => calm
  BY <1>5 DEF Ends, IInv, Timely
<1>13. Timely'
  BY <1>6, <1>12 DEF IInv, Timely
<1>14. ASSUME calm, Consistent, ~red, outcome \notin {"refused", "raised"},
             NEW j \in ToSet(Rendered(plan))
      PROVE  j \in ToSet(rest) \/ Done(RecordOf(j))'
  <2>1. j \in ToSet(work["salt"]) \/ Done(RecordOf(j))
    BY <1>7, <1>14 DEF IInv, Progress
  <2>2. CASE j = job
    BY <1>1, <1>14, <2>2 DEF job
  <2>3. CASE j \in ToSet(work["salt"]) /\ j # job
    BY <1>3, <2>3
  <2>4. CASE Done(RecordOf(j))
    <3>1. RecordOf(j) \in Wanted
      BY <1>1, <1>14, WantedJobs
    <3>2. QED
      BY <1>14, <2>4, <3>1
  <2>5. QED
    BY <2>1, <2>2, <2>3, <2>4
<1>15. Progress'
  <2> SUFFICES ASSUME stage' = "apply", calm', ~red', Consistent', NEW j \in ToSet(Rendered(plan'))
               PROVE  j \in ToSet(work'["salt"]) \/ Done(RecordOf(j))'
    BY DEF Progress
  <2>1. rest # <<>>
    BY <1>5 DEF Ends
  <2>2. ~red /\ outcome \notin {"refused", "raised"}
    BY <1>5, <2>1
  <2>3. QED
    BY <1>6, <1>8, <1>14, <2>2
<1>16. GreenMeansServed'
  <2> SUFFICES ASSUME settled', Consistent', NEW w \in Wanted'
               PROVE  Done(w)'
    BY DEF GreenMeansServed, Done
  <2>0. calm /\ Consistent /\ w \in Wanted
    BY <1>8, <1>12
  <2>1. CASE rest = <<>>
    <3>1. ~red /\ outcome \notin {"refused", "raised"}
      BY <1>5, <2>1 DEF Ends
    <3>2. PICK j \in ToSet(Rendered(plan)) : w = RecordOf(j)
      BY <1>1, <2>0, WantedJobs
    <3>3. j \notin ToSet(rest)
      BY <2>1, EmptyQueue
    <3>4. Done(RecordOf(j))'
      BY <1>14, <2>0, <3>1, <3>3
    <3>5. QED
      BY <3>2, <3>4
  <2>2. CASE rest # <<>>
    <3>1. settled
      BY <1>5, <2>2
    <3>2. Done(w)
      BY <2>0, <3>1 DEF IInv, GreenMeansServed, Done
    <3>3. QED
      BY <2>0, <3>2
  <2>3. QED
    BY <2>1, <2>2
<1>17. Blocked'
  BY <1>6 DEF Blocked
<1>18. QED
  BY <1>9, <1>10, <1>11, <1>13, <1>15, <1>16, <1>17 DEF IInv

\* The administrator has ended a call: nothing is calm or settled.
LEMMA AdminFinish ==
  ASSUME IInv, work["admin"] # <<>>, NEW outcome, Finish("admin", outcome),
         plan' = plan, calm' = calm, ZoneOK', raced' \in BOOLEAN
  PROVE  IInv'
<1> DEFINE job == Head(work["admin"])
           rest == IF outcome \in job.stop THEN <<>> ELSE Tail(work["admin"])
<1>1. ~calm /\ ~settled
  BY DEF IInv, Timely
<1>2. /\ work = [p \in Who |-> work[p]] /\ pending = [p \in Who |-> pending[p]]
      /\ \A p \in Who : IsSeq(work[p])
  BY DEF IInv, Queues, IsSeq
<1>3. IsSeq(rest) /\ ToSet(rest) \subseteq ToSet(work["admin"])
  BY <1>2, QueueTail, EmptyQueue DEF Who
<1>4. /\ work' = [work EXCEPT !["admin"] = rest]
      /\ pending' = [pending EXCEPT !["admin"] = NoMessage]
      /\ red' = red /\ UNCHANGED <<stage, result, settled>>
  BY DEF Finish
<1> HIDE DEF job, rest
<1>5. /\ work'["admin"] = rest /\ work'["salt"] = work["salt"]
      /\ pending'["admin"] = NoMessage /\ pending'["salt"] = pending["salt"]
      /\ work' = [p \in Who |-> work'[p]] /\ pending' = [p \in Who |-> pending'[p]]
  BY <1>2, <1>4 DEF Who
<1>6. Shape'
  BY <1>4, <1>5 DEF IInv, Shape
<1>7. Queues'
  <2>1. \A p \in Who : IsSeq(work'[p])
    BY <1>2, <1>3, <1>5 DEF Who
  <2>2. ToSet(work'["salt"]) \subseteq ToSet(Rendered(plan'))
    BY <1>5 DEF IInv, Queues
  <2>3. \A j \in ToSet(work'["admin"]) : AdminJob(j)
    BY <1>3, <1>5 DEF IInv, Queues
  <2>4. QED
    BY <1>5, <2>1, <2>2, <2>3 DEF Queues, IsSeq
<1>8. Messages'
  BY <1>5 DEF IInv, Messages, Who
<1>9. ~calm' /\ ~settled'
  BY <1>1, <1>4
<1>10. QED
  BY <1>6, <1>7, <1>8, <1>9 DEF IInv, Timely, Progress, GreenMeansServed, Blocked

\* The message that a call is about to send.
LEMMA MessageFacts ==
  ASSUME IInv, NEW p \in Who, pending[p] # NoMessage
  PROVE  LET m == pending[p]
             job == Head(work[p])
         IN /\ work[p] # <<>> /\ job.op # "lookup" /\ job \in ToSet(work[p])
            /\ m = Message(job, m.saw) /\ m.does = Does(job, m.saw)
            /\ m.does \in {"delete", "replace", "add"}
            /\ m.name = job.name /\ m.type = job.type /\ RecordOf(m) = RecordOf(job)
<1> DEFINE m == pending[p]
           job == Head(work[p])
<1>1. /\ work[p] # <<>> /\ job.op # "lookup" /\ Does(job, m.saw) # "none"
      /\ m = Message(job, m.saw)
  BY DEF IInv, Messages
<1>2. IsSeq(work[p])
  BY DEF IInv, Queues, IsSeq
<1>3. job \in ToSet(work[p])
  BY <1>1, <1>2, QueueTail
<1> HIDE DEF m, job
<1>4. m.does = Does(job, m.saw) /\ m.name = job.name /\ m.type = job.type /\ m.data = job.data
  BY <1>1 DEF Message
<1>5. RecordOf(m) = RecordOf(job)
  BY <1>4 DEF RecordOf
<1>6. m.does \in {"delete", "replace", "add"}
  BY <1>1, <1>4, DoesCases
<1>7. QED
  BY <1>1, <1>3, <1>4, <1>5, <1>6 DEF m, job

\* The contents of the nameserver are in order after every update.
LEMMA CarriedZone ==
  ASSUME IInv, NEW p \in Who, pending[p] # NoMessage, Carried(pending[p])
  PROVE  ZoneOK' /\ raced' \in BOOLEAN
<1> DEFINE m == pending[p]
           job == Head(work[p])
<1>1. /\ work[p] # <<>> /\ job.op # "lookup" /\ job \in ToSet(work[p])
      /\ m = Message(job, m.saw) /\ m.does = Does(job, m.saw)
      /\ m.does \in {"delete", "replace", "add"}
      /\ m.name = job.name /\ m.type = job.type /\ RecordOf(m) = RecordOf(job)
  BY MessageFacts
<1>2. zone' = Applied(zone, m) /\ raced' = (raced \/ m.saw # Answer(zone, m.name, m.type))
  BY DEF Carried
<1>3. WellFormed(zone) /\ (~raced => Single(zone)) /\ raced \in BOOLEAN
  BY DEF IInv, ZoneOK, Shape
<1> HIDE DEF m, job
<1>4. WellFormed(zone')
  BY <1>1, <1>2, <1>3, AppliedWellFormed
<1>5. ASSUME ~raced' PROVE Single(zone')
  <2>1. Single(zone) /\ m.saw = Answer(zone, job.name, job.type)
    BY <1>1, <1>2, <1>3, <1>5
  <2>2. CASE p = "salt"
    <3>1. SaltJob(job)
      BY <1>1, <2>2, SaltHead DEF job
    <3>2. Does(job, m.saw) # "none"
      BY <1>1
    <3>3. Single(Applied(zone, m))
      BY <1>1, <1>3, <2>1, <3>1, <3>2, OwnInPlace
    <3>4. QED
      BY <1>2, <3>3
  <2>3. CASE p = "admin"
    <3>1. AdminJob(job)
      BY <1>1, <2>3 DEF IInv, Queues
    <3>2. m.does \in {"replace", "delete"}
      BY <1>1, <3>1 DEF AdminJob, Does, MustReplace
    <3>3. QED
      BY <1>2, <1>3, <2>1, <3>2, AppliedSingle
  <2>4. QED
    BY <2>2, <2>3 DEF Who
<1>6. raced' \in BOOLEAN
  BY <1>2, <1>3
<1>7. QED
  BY <1>4, <1>5, <1>6 DEF ZoneOK

\* While nobody else is at work an update of salt puts its record in place and leaves
\* the others of a consistent plan alone.
LEMMA CarriedDone ==
  ASSUME IInv, pending["salt"] # NoMessage, Carried(pending["salt"]), calm, Consistent,
         NEW w \in Wanted
  PROVE  /\ w = RecordOf(Head(work["salt"])) => Done(w)'
         /\ Done(w) => Done(w)'
<1> DEFINE m == pending["salt"]
           job == Head(work["salt"])
           r == RecordOf(job)
<1>1. /\ work["salt"] # <<>>
      /\ m = Message(job, m.saw) /\ m.does = Does(job, m.saw)
      /\ m.does \in {"delete", "replace", "add"}
      /\ m.name = job.name /\ m.type = job.type /\ RecordOf(m) = r
  BY MessageFacts DEF Who
<1>2. zone' = Applied(zone, m) /\ raced' = (raced \/ m.saw # Answer(zone, m.name, m.type))
  BY DEF Carried
<1>3. WellFormed(zone) /\ (~raced => Single(zone)) /\ raced \in BOOLEAN
  BY DEF IInv, ZoneOK, Shape
<1>4. m.saw = Answer(zone, job.name, job.type) /\ m.saw = Answer(zone, m.name, m.type)
  BY <1>1 DEF IInv, Timely
<1>5. SaltJob(job) /\ r \in Wanted
  BY <1>1, SaltHead
<1>6. r.name = job.name /\ r.type = job.type
  BY RecordShape
<1> HIDE DEF m, job, r
<1>7. raced' = raced
  BY <1>2, <1>3, <1>4
<1>8. m.does \in {"replace", "add"} /\ Does(job, m.saw) # "none"
  BY <1>1, <1>5 DEF Does, SaltJob
<1>9. LET y == Applied(zone, m)
          v == RecordOf(job)
      IN FreeIn(y, v) => v \in y /\ (Single(zone) => RRset(y, v.name, v.type) = {v})
  BY <1>1, <1>3, <1>4, <1>5, <1>8, OwnInPlace
<1>10. CASE w = r
  <2>1. FreeIn(zone', w) => w \in zone' /\ (raced' \/ RRset(zone', w.name, w.type) = {w})
    BY <1>2, <1>3, <1>7, <1>9, <1>10 DEF r
  <2>2. Done(w)'
    BY <2>1 DEF Done, Free, FreeIn, InPlace
  <2>3. QED
    BY <2>2
<1>11. CASE w # r
  <2>1. w.name = m.name => w.type # m.type /\ "CNAME" \notin {w.type, m.type}
    BY <1>1, <1>5, <1>6, <1>11 DEF Consistent
  <2>2. /\ w \in zone' <=> w \in zone
        /\ RRset(zone', w.name, w.type) = RRset(zone, w.name, w.type)
        /\ FreeIn(zone', w) <=> FreeIn(zone, w)
    BY <1>2, <1>8, <2>1, OthersStay
  <2>3. Done(w) => Done(w)'
    <3>1. Done(w) <=> (FreeIn(zone, w) => w \in zone /\ (raced \/ RRset(zone, w.name, w.type) = {w}))
      BY DEF Done, Free, FreeIn, InPlace
    <3>2. Done(w)' <=> (FreeIn(zone', w) => w \in zone' /\ (raced' \/ RRset(zone', w.name, w.type) = {w}))
      BY DEF Done, Free, FreeIn, InPlace
    <3>3. QED
      BY <1>7, <2>2, <3>1, <3>2
  <2>4. QED
    BY <1>11, <2>3 DEF r, job
<1>12. QED
  BY <1>10, <1>11

\* A call sends its message, the answer arrives or not.
LEMMA SendStep ==
  ASSUME IInv, NEW p \in Who, Send(p)
  PROVE  IInv'
<1>1. pending[p] # NoMessage /\ work[p] # <<>>
  BY DEF Send, IInv, Messages
<1>2. plan' = plan /\ calm' = calm
  BY DEF Send
<1>3. ZoneOK /\ raced \in BOOLEAN
  BY DEF IInv, Shape
<1>4. CASE pending[p].zone \in Served
  <2>1. Carried(pending[p]) /\ Finish(p, "sent")
    BY <1>4 DEF Send
  <2>2. ZoneOK' /\ raced' \in BOOLEAN
    BY <1>1, <2>1, CarriedZone
  <2>3. CASE p = "salt"
    <3>1. calm /\ Consistent => \A w \in Wanted : /\ w = RecordOf(Head(work["salt"])) => Done(w)'
                                                  /\ Done(w) => Done(w)'
      BY <1>1, <2>1, <2>3, CarriedDone
    <3>2. QED
      BY <1>1, <1>2, <2>1, <2>2, <2>3, <3>1, SaltFinish
  <2>4. CASE p = "admin"
    BY <1>1, <1>2, <2>1, <2>2, <2>4, AdminFinish
  <2>5. QED
    BY <2>3, <2>4 DEF Who
<1>5. CASE pending[p].zone \notin Served
  <2>1. UNCHANGED <<zone, raced>> /\ Finish(p, "refused")
    BY <1>5 DEF Send
  <2>2. ZoneOK' /\ raced' \in BOOLEAN
    BY <1>3, <2>1 DEF ZoneOK
  <2>3. \A w \in Wanted : Done(w) => Done(w)'
    BY <2>1, SameZone
  <2>4. CASE p = "salt"
    BY <1>1, <1>2, <2>1, <2>2, <2>3, <2>4, SaltFinish
  <2>5. CASE p = "admin"
    BY <1>1, <1>2, <2>1, <2>2, <2>5, AdminFinish
  <2>6. QED
    BY <2>4, <2>5 DEF Who
<1>6. QED
  BY <1>4, <1>5

\* A call fails: the query, the update or its answer is lost.
LEMMA TimesOutStep ==
  ASSUME IInv, NEW p \in Who, TimesOut(p)
  PROVE  IInv'
<1>1. work[p] # <<>> /\ plan' = plan /\ calm' = calm /\ Finish(p, "raised")
  BY DEF TimesOut
<1>2. ZoneOK /\ raced \in BOOLEAN
  BY DEF IInv, Shape
<1>3. \/ UNCHANGED <<zone, raced>>
      \/ pending[p] # NoMessage /\ Carried(pending[p])
  BY DEF TimesOut
<1>4. ZoneOK' /\ raced' \in BOOLEAN
  <2>1. CASE UNCHANGED <<zone, raced>>
    BY <1>2, <2>1 DEF ZoneOK
  <2>2. CASE pending[p] # NoMessage /\ Carried(pending[p])
    BY <2>2, CarriedZone
  <2>3. QED
    BY <1>3, <2>1, <2>2
<1>5. CASE p = "salt"
  <2>1. calm /\ Consistent => \A w \in Wanted : Done(w) => Done(w)'
    <3>1. CASE UNCHANGED <<zone, raced>>
      BY <3>1, SameZone
    <3>2. CASE pending[p] # NoMessage /\ Carried(pending[p])
      BY <1>5, <3>2, CarriedDone
    <3>3. QED
      BY <1>3, <3>1, <3>2
  <2>2. QED
    BY <1>1, <1>4, <1>5, <2>1, SaltFinish
<1>6. CASE p = "admin"
  BY <1>1, <1>4, <1>6, AdminFinish
<1>7. QED
  BY <1>5, <1>6 DEF Who

\* A call asks: there is nothing to do, or there is something to send.
LEMMA AskStep ==
  ASSUME IInv, NEW p \in Who, Ask(p)
  PROVE  IInv'
<1> DEFINE job == Head(work[p])
           a == Answer(zone, job.name, job.type)
<1>1. /\ work[p] # <<>> /\ pending[p] = NoMessage /\ job.op # "lookup"
      /\ UNCHANGED <<zone, plan, raced, calm>>
  BY DEF Ask
<1>2. ZoneOK /\ WellFormed(zone) /\ (~raced => Single(zone)) /\ raced \in BOOLEAN
  BY DEF IInv, Shape, ZoneOK
<1>3. ZoneOK' /\ raced' \in BOOLEAN
  BY <1>1, <1>2 DEF ZoneOK
<1>4. \A w \in Wanted : Done(w)' <=> Done(w)
  BY <1>1, SameZone
<1>5. CASE Does(job, a) = "none"
  <2>1. Finish(p, "nothing")
    BY <1>5 DEF Ask
  <2>2. CASE p = "salt"
    <3>1. SaltJob(job)
      BY <1>1, <2>2, SaltHead
    <3>2. /\ RecordOf(job) \in zone
          /\ Single(zone) => RRset(zone, job.name, job.type) = {RecordOf(job)}
      BY <1>2, <1>5, <3>1, NothingToDo
    <3>3. RecordOf(job).name = job.name /\ RecordOf(job).type = job.type
      BY RecordShape
    <3>4. InPlace(RecordOf(job))
      BY <1>2, <3>2, <3>3 DEF InPlace
    <3>5. \A w \in Wanted : w = RecordOf(Head(work["salt"])) => Done(w)'
      BY <1>4, <2>2, <3>4 DEF Done
    <3>6. QED
      BY <1>1, <1>3, <1>4, <2>1, <2>2, <3>5, SaltFinish
  <2>3. CASE p = "admin"
    BY <1>1, <1>3, <2>1, <2>3, AdminFinish
  <2>4. QED
    BY <2>2, <2>3 DEF Who
<1>6. CASE Does(job, a) # "none"
  <2> DEFINE m == Message(job, a)
  <2>1. /\ pending' = [pending EXCEPT ![p] = m]
        /\ UNCHANGED <<salt_vars, work, settled>>
    BY <1>6 DEF Ask
  <2>2. UNCHANGED <<stage, red, result>>
    BY <2>1 DEF salt_vars
  <2>3. m.saw = a /\ m.name = job.name /\ m.type = job.type
    BY DEF Message
  <2>4. pending = [q \in Who |-> pending[q]]
    BY DEF IInv, Queues
  <2> HIDE DEF m, job, a
  <2>5. pending'[p] = m /\ pending' = [q \in Who |-> pending'[q]]
        /\ \A q \in Who : q # p => pending'[q] = pending[q]
    BY <2>1, <2>4
  <2>6. Shape'
    BY <1>1, <2>1, <2>2 DEF IInv, Shape
  <2>7. Queues'
    BY <1>1, <2>1, <2>5 DEF IInv, Queues
  <2>8. Messages'
    <3> SUFFICES ASSUME NEW q \in Who, pending'[q] # NoMessage
                 PROVE  /\ work'[q] # <<>> /\ Head(work'[q]).op # "lookup"
                        /\ Does(Head(work'[q]), pending'[q].saw) # "none"
                        /\ pending'[q] = Message(Head(work'[q]), pending'[q].saw)
      BY DEF Messages
    <3>1. CASE q = p
      BY <1>1, <1>6, <2>1, <2>3, <2>5, <3>1 DEF job, m
    <3>2. CASE q # p
      BY <2>1, <2>5, <3>2 DEF IInv, Messages
    <3>3. QED
      BY <3>1, <3>2
  <2>9. Timely'
    <3>1. CASE p = "salt"
      BY <1>1, <2>1, <2>3, <2>5, <3>1 DEF IInv, Timely, a
    <3>2. CASE p = "admin"
      BY <1>1, <2>1, <2>5, <3>2 DEF IInv, Timely, Who
    <3>3. QED
      BY <3>1, <3>2 DEF Who
  <2>10. Wanted' = Wanted /\ (Consistent' <=> Consistent)
    BY <1>1, SamePlan
  <2>11. Progress'
    <3> SUFFICES ASSUME stage' = "apply", calm', ~red', Consistent', NEW j \in ToSet(Rendered(plan'))
                 PROVE  j \in ToSet(work'["salt"]) \/ Done(RecordOf(j))'
      BY DEF Progress
    <3>1. j \in ToSet(work["salt"]) \/ Done(RecordOf(j))
      BY <1>1, <2>2, <2>10 DEF IInv, Progress
    <3>2. Done(RecordOf(j)) => Done(RecordOf(j))'
      BY <1>1, SameZone
    <3>3. QED
      BY <2>1, <3>1, <3>2
  <2>12. GreenMeansServed'
    BY <1>4, <2>1, <2>10 DEF IInv, GreenMeansServed, Done
  <2>13. Blocked'
    <3> SUFFICES ASSUME settled, Consistent, pending'["salt"] # NoMessage
                 PROVE  ~Free(RecordOf(Head(work["salt"])))'
      BY <2>1, <2>10 DEF Blocked
    <3>1. work'["salt"] = work["salt"] /\ zone' = zone
      BY <1>1, <2>1
    <3>2. ~Free(RecordOf(Head(work["salt"])))
      <4>1. CASE p = "salt"
        <5>1. SaltJob(job) /\ RecordOf(job) \in Wanted
          BY <1>1, <4>1, SaltHead DEF job
        <5>2. Done(RecordOf(job))
          BY <5>1 DEF IInv, GreenMeansServed, Done
        <5>3. ASSUME Free(RecordOf(job)) PROVE FALSE
          <6>1. RecordOf(job) \in zone /\ FreeIn(zone, RecordOf(job))
            BY <5>2, <5>3 DEF Done, InPlace, Free, FreeIn
          <6>2. QED
            BY <1>2, <1>6, <5>1, <6>1, Recognised DEF a
        <5>4. QED
          BY <4>1, <5>3 DEF job
      <4>2. CASE p = "admin"
        BY <2>5, <4>2 DEF IInv, Blocked, Who
      <4>3. QED
        BY <4>1, <4>2 DEF Who
    <3>3. QED
      BY <3>1, <3>2 DEF Free
  <2>14. QED
    BY <1>3, <2>6, <2>7, <2>8, <2>9, <2>11, <2>12, <2>13 DEF IInv
<1>7. QED
  BY <1>5, <1>6

\* A step of the highstate outside of "apply": nothing is in work and nothing is sent.
LEMMA QuietStep ==
  ASSUME IInv, UNCHANGED <<zone, raced, work, pending>>, Shape',
         stage # "apply", stage' # "apply",
         calm' => work["admin"] = <<>>, settled' => settled /\ calm' /\ plan' = plan
  PROVE  IInv'
<1>1. work["salt"] = <<>> /\ pending["salt"] = NoMessage
  BY DEF IInv, Shape, Messages, Who
<1>2. Queues'
  <2>1. ToSet(work'["salt"]) \subseteq ToSet(Rendered(plan'))
    BY <1>1, EmptyQueue
  <2>2. QED
    BY <2>1 DEF IInv, Queues
<1>3. Messages'
  BY DEF IInv, Messages
<1>4. ZoneOK'
  BY DEF IInv, ZoneOK
<1>5. Timely'
  BY <1>1 DEF Timely
<1>6. Progress'
  BY DEF Progress
<1>7. GreenMeansServed'
  <2> SUFFICES ASSUME settled', Consistent', NEW w \in Wanted'
               PROVE  Done(w)'
    BY DEF GreenMeansServed, Done
  <2>1. Wanted' = Wanted /\ (Consistent' <=> Consistent)
    BY SamePlan
  <2>2. Done(w)
    BY <2>1 DEF IInv, GreenMeansServed, Done
  <2>3. QED
    BY <2>2, SameZone
<1>8. Blocked'
  BY <1>1 DEF Blocked
<1>9. QED
  BY <1>2, <1>3, <1>4, <1>5, <1>6, <1>7, <1>8 DEF IInv

\* The requests of ext_pillar lead to the next ones or to the rendering.
LEMMA StageFacts ==
  /\ \A s \in Stages : Following[s] \subseteq Stages \cup {"render"}
  /\ "device_search" \in Stages
  /\ \A s \in Stages : s \notin {"idle", "render", "apply"}
<1>1. Stages = {"device_search", "vm_search", "device", "services", "interfaces", "addresses",
                "address_interface", "site", "prefixes", "platform"}
  BY DEF Stages, Following
<1>2. \A s \in Stages : Following[s] \subseteq Stages \cup {"render"}
  <2> SUFFICES ASSUME NEW s \in Stages PROVE Following[s] \subseteq Stages \cup {"render"}
    OBVIOUS
  <2>1. CASE s \in {"device_search", "vm_search", "device"}
    BY <1>1, <2>1 DEF Following
  <2>2. CASE s \in {"services", "interfaces", "addresses"}
    BY <1>1, <2>2 DEF Following
  <2>3. CASE s \in {"address_interface", "site", "prefixes", "platform"}
    BY <1>1, <2>3 DEF Following
  <2>4. QED
    BY <1>1, <2>1, <2>2, <2>3
<1>3. QED
  BY <1>1, <1>2

\* The scheduler starts a highstate.
LEMMA HighstateStep ==
  ASSUME IInv, Highstate
  PROVE  IInv'
<1>1. /\ stage = "idle" /\ stage' = "device_search" /\ calm' = (work["admin"] = <<>>)
      /\ result' = "none"
      /\ UNCHANGED <<zone, plan, raced, red, work, pending, settled>>
  BY DEF Highstate
<1>2. Shape'
  BY <1>1, StageFacts DEF IInv, Shape
<1>3. settled => work["admin"] = <<>>
  BY DEF IInv, Timely
<1>4. QED
  BY <1>1, <1>2, <1>3, QuietStep

\* NetBox answers.
LEMMA AnswersStep ==
  ASSUME IInv, Answers
  PROVE  IInv'
<1>1. /\ stage \in Stages /\ stage' \in Following[stage]
      /\ UNCHANGED <<zone, plan, raced, red, result, work, pending, settled, calm>>
  BY DEF Answers
<1>2. stage # "apply" /\ stage' # "apply" /\ stage' \in Stages \cup {"render"}
  BY <1>1, StageFacts
<1>3. Shape'
  BY <1>1, <1>2 DEF IInv, Shape
<1>4. (calm => work["admin"] = <<>>) /\ (settled => calm)
  BY DEF IInv, Timely
<1>5. QED
  BY <1>1, <1>2, <1>3, <1>4, QuietStep

\* The highstate ends before anything is applied.
LEMMA EarlyEnd ==
  ASSUME IInv, stage # "apply", NEW how \in {"green", "red", "test"}, Ends(how, FALSE),
         UNCHANGED <<zone, plan, raced, work, pending, calm>>
  PROVE  IInv'
<1>1. stage' = "idle" /\ red' = FALSE /\ result' = how /\ settled' = FALSE
  BY DEF Ends
<1>2. Shape'
  BY <1>1 DEF IInv, Shape
<1>3. calm => work["admin"] = <<>>
  BY DEF IInv, Timely
<1>4. QED
  BY <1>1, <1>2, <1>3, QuietStep

\* NetBox answers with an error or not at all.
LEMMA NetBoxFailsStep ==
  ASSUME IInv, NetBoxFails
  PROVE  IInv'
<1>1. /\ stage \in Stages
      /\ UNCHANGED <<zone, plan, raced, work, pending, calm>>
      /\ \E outcome : FailsWith(outcome)
  BY DEF NetBoxFails
<1>2. stage # "apply"
  BY <1>1, StageFacts
<1>3. CASE Ends("red", FALSE)
  BY <1>1, <1>2, <1>3, EarlyEnd
<1>4. CASE Ends("green", FALSE)
  BY <1>1, <1>2, <1>4, EarlyEnd
<1>5. CASE stage' \in Following[stage] /\ UNCHANGED <<red, result, settled>>
  <2>1. stage' # "apply" /\ stage' \in Stages \cup {"render"}
    BY <1>1, <1>5, StageFacts
  <2>2. Shape'
    BY <1>1, <1>2, <1>5, <2>1 DEF IInv, Shape
  <2>3. (calm => work["admin"] = <<>>) /\ (settled => calm)
    BY DEF IInv, Timely
  <2>4. QED
    BY <1>1, <1>2, <1>5, <2>1, <2>2, <2>3, QuietStep
<1>6. QED
  BY <1>1, <1>3, <1>4, <1>5 DEF FailsWith, Aborts, Skips

\* The highstate ends because of the host, of the rendering or of test mode.
LEMMA OtherEnds ==
  ASSUME IInv, NotFound \/ RenderFails \/ TestMode
  PROVE  IInv'
<1>1. /\ stage # "apply"
      /\ UNCHANGED <<zone, plan, raced, work, pending, calm>>
      /\ Ends("green", FALSE) \/ Ends("red", FALSE) \/ Ends("test", FALSE)
  BY DEF NotFound, RenderFails, TestMode, Skips, Aborts
<1>2. QED
  BY <1>1, EarlyEnd

\* The plan changes between two highstates.
LEMMA EditStep ==
  ASSUME IInv, NEW new \in Plans, Edit(new)
  PROVE  IInv'
<1>1. /\ stage = "idle" /\ plan' = new /\ settled' = FALSE /\ result' = "none"
      /\ UNCHANGED <<zone, raced, stage, red, work, pending, calm>>
  BY DEF Edit
<1>2. Shape'
  BY <1>1 DEF IInv, Shape
<1>3. calm => work["admin"] = <<>>
  BY DEF IInv, Timely
<1>4. QED
  BY <1>1, <1>2, <1>3, QuietStep

\* The file is rendered: nothing is worked off yet.
LEMMA RenderStep ==
  ASSUME IInv, Render
  PROVE  IInv'
<1> DEFINE s == Rendered(plan)
<1>1. /\ stage = "render" /\ stage' = "apply" /\ work' = [work EXCEPT !["salt"] = s]
      /\ UNCHANGED <<zone, plan, raced, red, result, pending, settled, calm>>
  BY DEF Render
<1>2. plan \in Plans /\ work["salt"] = <<>>
  BY <1>1 DEF IInv, Shape
<1>3. pending["salt"] = NoMessage
  BY <1>2 DEF IInv, Messages, Who
<1>4. IsSeq(s) /\ s # <<>>
  BY <1>2, RenderedFacts
<1>5. work = [p \in Who |-> work[p]]
  BY DEF IInv, Queues
<1> HIDE DEF s
<1>6. /\ work'["salt"] = s /\ work'["admin"] = work["admin"]
      /\ work' = [p \in Who |-> work'[p]]
  BY <1>1, <1>5 DEF Who
<1>7. Shape'
  BY <1>1, <1>4, <1>6 DEF IInv, Shape
<1>8. Queues'
  <2>1. \A p \in Who : work'[p] \in Seq(ToSet(work'[p]))
    BY <1>4, <1>6 DEF IInv, Queues, Who, IsSeq
  <2>2. QED
    BY <1>1, <1>6, <2>1 DEF IInv, Queues, s
<1>9. Messages'
  BY <1>1, <1>3, <1>6 DEF IInv, Messages, Who
<1>10. ZoneOK'
  BY <1>1 DEF IInv, ZoneOK
<1>11. Timely'
  BY <1>1, <1>3, <1>6 DEF IInv, Timely
<1>12. Progress'
  BY <1>1, <1>6 DEF Progress, s
<1>13. GreenMeansServed'
  <2> SUFFICES ASSUME settled', Consistent', NEW w \in Wanted'
               PROVE  Done(w)'
    BY DEF GreenMeansServed, Done
  <2>1. Wanted' = Wanted /\ (Consistent' <=> Consistent)
    BY <1>1, SamePlan
  <2>2. Done(w)
    BY <1>1, <2>1 DEF IInv, GreenMeansServed, Done
  <2>3. QED
    BY <1>1, <2>2, SameZone
<1>14. Blocked'
  BY <1>1, <1>3 DEF Blocked
<1>15. QED
  BY <1>7, <1>8, <1>9, <1>10, <1>11, <1>12, <1>13, <1>14 DEF IInv

\* The administrator has new work, and nothing is calm or settled.
LEMMA AdminWork ==
  ASSUME IInv, NEW s, work' = [work EXCEPT !["admin"] = s], IsSeq(s),
         \A job \in ToSet(s) : AdminJob(job),
         UNCHANGED <<zone, plan, raced, salt_vars, pending>>, pending["admin"] = NoMessage,
         settled' = FALSE, calm' = FALSE
  PROVE  IInv'
<1>1. work = [p \in Who |-> work[p]]
  BY DEF IInv, Queues
<1>2. /\ work'["admin"] = s /\ work'["salt"] = work["salt"]
      /\ work' = [p \in Who |-> work'[p]]
  BY <1>1 DEF Who
<1>3. Shape'
  BY <1>2 DEF IInv, Shape, salt_vars
<1>4. Queues'
  <2>1. \A p \in Who : work'[p] \in Seq(ToSet(work'[p]))
    BY <1>2 DEF IInv, Queues, Who, IsSeq
  <2>2. QED
    BY <1>2, <2>1 DEF IInv, Queues
<1>5. Messages'
  BY <1>2 DEF IInv, Messages, Who
<1>6. ZoneOK'
  BY DEF IInv, ZoneOK
<1>7. QED
  BY <1>3, <1>4, <1>5, <1>6 DEF IInv, Timely, Progress, GreenMeansServed, Blocked

\* A list of calls of the administrator.
AdminSeq(s) == IsSeq(s) /\ \A job \in ToSet(s) : AdminJob(job)

\* A command of one call.
LEMMA OneJob ==
  ASSUME NEW job, AdminJob(job)
  PROVE  AdminSeq(<<job>>)
<1>1. <<job>> \in Seq({job})
  OBVIOUS
<1>2. IsSeq(<<job>>) /\ ToSet(<<job>>) \subseteq {job}
  BY <1>1, OfSeq
<1>3. QED
  BY <1>2 DEF AdminSeq

\* A command of numbered calls.
LEMMA JobList ==
  ASSUME NEW n \in Nat, NEW s, s = [i \in 1 .. n |-> s[i]], \A i \in 1 .. n : AdminJob(s[i])
  PROVE  AdminSeq(s)
<1>1. DOMAIN s = 1 .. n
  OBVIOUS
<1>2. s \in [1 .. n -> ToSet(s)]
  BY <1>1 DEF ToSet
<1>3. IsSeq(s)
  BY <1>2, FunIsSeq
<1>4. \A job \in ToSet(s) : \E i \in 1 .. n : job = s[i]
  BY <1>1 DEF ToSet
<1>5. QED
  BY <1>3, <1>4 DEF AdminSeq

\* A command of two parts.
LEMMA JobConcat ==
  ASSUME NEW s, NEW t, AdminSeq(s), AdminSeq(t)
  PROVE  AdminSeq(s \o t)
BY QueueConcat DEF AdminSeq

\* The administrator's calls either replace or are no updates.
LEMMA JobKinds ==
  ASSUME NEW z, NEW n, NEW t, NEW d, NEW onChange, NEW stop
  PROVE  /\ AdminJob(Job("update", z, n, t, d, TRUE, onChange, stop))
         /\ AdminJob(Job("delete", z, n, t, d, FALSE, onChange, stop))
         /\ AdminJob(Job("lookup", z, n, t, d, FALSE, onChange, stop))
BY DEF AdminJob, Job

\* The calls of add_host and delete_host, and of the absent state.
LEMMA AdminJobs ==
  ASSUME NEW h, NEW ip, NEW ips, IsFiniteSet(ips), NEW t
  PROVE  /\ AdminSeq(AddHost(h, ip))
         /\ AdminSeq(LookUp(h))
         /\ AdminSeq(DeleteHost(h, ips))
         /\ AdminSeq(<<Job("delete", "fwd", h, t, "", FALSE, FALSE, {})>>)
<1> DEFINE k == Len(ReverseZones)
<1>1. k \in Nat /\ DOMAIN ReverseZones = 1 .. k
  BY ReverseAssumption, OfSeq
<1>2. AdminSeq(AddHost(h, ip))
  <2> DEFINE first == Job("update", "fwd", h, "A", ip, TRUE, TRUE, {"refused", "raised"})
             s == [i \in DOMAIN ReverseZones |->
                     Job("update", ReverseZones[i], PtrName(ip), "PTR", h, TRUE, TRUE, {"sent", "raised"})]
  <2>1. AddHost(h, ip) = <<first>> \o s
    BY DEF AddHost
  <2>2. AdminJob(first)
    BY JobKinds
  <2>3. s = [i \in 1 .. k |-> s[i]]
    BY <1>1
  <2>4. \A i \in 1 .. k : AdminJob(s[i])
    BY <1>1, JobKinds
  <2> HIDE DEF first, s, k
  <2>5. AdminSeq(<<first>>) /\ AdminSeq(s)
    BY <1>1, <2>2, <2>3, <2>4, OneJob, JobList
  <2>6. QED
    BY <2>1, <2>5, JobConcat
<1>3. AdminSeq(LookUp(h))
  BY JobKinds, OneJob DEF LookUp
<1>4. AdminSeq(DeleteHost(h, ips))
  <2> DEFINE first == Job("delete", "fwd", h, "ANY", "", FALSE, FALSE, {"raised"})
             addresses == SetToSeq(ips)
             n == k * Len(addresses)
             s == DeletePtrs(h, addresses)
  <2>1. DeleteHost(h, ips) = <<first>> \o s
    BY DEF DeleteHost
  <2>2. AdminJob(first)
    BY JobKinds
  <2>3. n \in Nat
    <3>1. Len(addresses) \in Nat
      BY SetToSeqAll, OfSeq DEF IsSeq
    <3> HIDE DEF addresses, k
    <3>2. QED
      BY <1>1, <3>1
  <2>4. s = [i \in 1 .. n |->
               Job("delete", ReverseZones[((i - 1) % k) + 1], PtrName(addresses[((i - 1) \div k) + 1]),
                   "PTR", h, FALSE, FALSE, {"raised"})]
    BY DEF DeletePtrs
  <2> HIDE DEF first, s, n, k, addresses
  <2>5. s = [i \in 1 .. n |-> s[i]]
    BY <2>4
  <2>6. \A i \in 1 .. n : AdminJob(s[i])
    BY <2>4, JobKinds
  <2>7. AdminSeq(<<first>>) /\ AdminSeq(s)
    BY <2>2, <2>3, <2>5, <2>6, OneJob, JobList
  <2>8. QED
    BY <2>1, <2>7, JobConcat
<1>5. AdminSeq(<<Job("delete", "fwd", h, t, "", FALSE, FALSE, {})>>)
  BY JobKinds, OneJob
<1>6. QED
  BY <1>2, <1>3, <1>4, <1>5

\* delete_host learns the addresses and goes on.
LEMMA AskAddressesStep ==
  ASSUME IInv, AskAddresses
  PROVE  IInv'
<1> DEFINE h == Head(work["admin"]).name
           found == RRset(zone, h, "A")
           ips == {r.data : r \in found}
<1>1. /\ work["admin"] # <<>> /\ Head(work["admin"]).op = "lookup"
      /\ UNCHANGED <<zone, plan, raced, calm>>
  BY DEF AskAddresses
<1>2. calm = FALSE /\ settled = FALSE
  BY <1>1 DEF IInv, Timely, Shape
<1>3. pending["admin"] = NoMessage
  BY <1>1 DEF IInv, Messages, Who
<1>4. ZoneOK' /\ raced' \in BOOLEAN
  BY <1>1 DEF IInv, ZoneOK, Shape
<1>5. CASE RRset(zone, h, "CNAME") # {}
  <2>1. Finish("admin", "raised")
    BY <1>5 DEF AskAddresses
  <2>2. QED
    BY <1>1, <1>4, <2>1, AdminFinish
<1>6. CASE RRset(zone, h, "CNAME") = {}
  <2>1. /\ work' = [work EXCEPT !["admin"] = DeleteHost(h, ips)]
        /\ UNCHANGED <<salt_vars, pending, settled>>
    BY <1>6 DEF AskAddresses
  <2>2. IsFiniteSet(ips)
    <3>1. found \subseteq zone /\ IsFiniteSet(zone)
      BY DEF RRset, IInv, ZoneOK, WellFormed
    <3>2. IsFiniteSet(found)
      <4> HIDE DEF found
      <4>1. QED
        BY <3>1, FS_Subset
    <3> HIDE DEF found
    <3> DEFINE f == [r \in found |-> r.data]
    <3>3. f \in [found -> ips] /\ ips = {f[r] : r \in found}
      OBVIOUS
    <3> HIDE DEF f, ips
    <3>4. QED
      BY <3>2, <3>3, ImageFinite
  <2> HIDE DEF ips, h
  <2>3. AdminSeq(DeleteHost(h, ips))
    BY <2>2, AdminJobs
  <2>4. QED
    BY <1>1, <1>2, <1>3, <2>1, <2>3, AdminWork DEF AdminSeq
<1>7. QED
  BY <1>5, <1>6

\* A query that is refused: the highstate does not count any more.
LEMMA AskRefusedStep ==
  ASSUME IInv, NEW p \in Who, AskRefused(p)
  PROVE  IInv'
<1> DEFINE job == Head(work[p])
           m == Message(job, {})
<1>1. /\ work[p] # <<>> /\ pending[p] = NoMessage /\ calm' = FALSE
      /\ UNCHANGED <<zone, plan, raced>>
  BY DEF AskRefused
<1>2. p = "salt" => SaltJob(job)
  BY <1>1, SaltHead
<1>3. ZoneOK' /\ raced' \in BOOLEAN
  BY <1>1 DEF IInv, ZoneOK, Shape
<1>4. CASE /\ job.op = "lookup"
           /\ work' = [work EXCEPT ![p] = DeleteHost(job.name, {})]
           /\ settled' = FALSE
           /\ UNCHANGED <<salt_vars, pending>>
  <2>1. p = "admin"
    BY <1>2, <1>4 DEF SaltJob, Who
  <2>2. AdminSeq(DeleteHost(job.name, {}))
    BY FS_EmptySet, AdminJobs
  <2> HIDE DEF job
  <2>3. QED
    BY <1>1, <1>4, <2>1, <2>2, AdminWork DEF AdminSeq
<1>5. CASE job.op = "delete" /\ Finish(p, "nothing")
  <2>1. p = "admin"
    BY <1>2, <1>5 DEF SaltJob, Who
  <2>2. calm' = calm
    BY <1>1, <2>1 DEF IInv, Timely, Shape
  <2> HIDE DEF job
  <2>3. QED
    BY <1>1, <1>3, <1>5, <2>1, <2>2, AdminFinish
<1>6. CASE /\ job.op = "update"
           /\ pending' = [pending EXCEPT ![p] = m]
           /\ settled' = FALSE
           /\ UNCHANGED <<salt_vars, work>>
  <2>1. UNCHANGED <<stage, red, result>> /\ work' = work
    BY <1>6 DEF salt_vars
  <2>2. m.saw = {} /\ Does(job, {}) # "none"
    BY <1>6 DEF Message, Does, IsExist
  <2>3. pending = [q \in Who |-> pending[q]]
    BY DEF IInv, Queues
  <2> HIDE DEF m, job
  <2>4. pending'[p] = m /\ pending' = [q \in Who |-> pending'[q]]
        /\ \A q \in Who : q # p => pending'[q] = pending[q]
    BY <1>6, <2>3
  <2>5. Shape'
    BY <1>1, <1>6, <2>1 DEF IInv, Shape
  <2>6. Queues'
    BY <1>1, <2>1, <2>4 DEF IInv, Queues
  <2>7. Messages'
    <3> SUFFICES ASSUME NEW q \in Who, pending'[q] # NoMessage
                 PROVE  /\ work'[q] # <<>> /\ Head(work'[q]).op # "lookup"
                        /\ Does(Head(work'[q]), pending'[q].saw) # "none"
                        /\ pending'[q] = Message(Head(work'[q]), pending'[q].saw)
      BY DEF Messages
    <3>1. CASE q = p
      BY <1>1, <1>6, <2>1, <2>2, <2>4, <3>1 DEF job, m
    <3>2. CASE q # p
      BY <2>1, <2>4, <3>2 DEF IInv, Messages
    <3>3. QED
      BY <3>1, <3>2
  <2>8. Timely' /\ Progress' /\ GreenMeansServed' /\ Blocked'
    BY <1>1, <1>6 DEF Timely, Progress, GreenMeansServed, Blocked
  <2>9. QED
    BY <1>3, <2>5, <2>6, <2>7, <2>8 DEF IInv
<1>7. QED
  BY <1>4, <1>5, <1>6 DEF AskRefused

\* The administrator begins a command.
LEMMA CommandStep ==
  ASSUME IInv, NEW h, NEW ip, NEW t,
         CallAddHost(h, ip) \/ CallDeleteHost(h) \/ Absent(h, t)
  PROVE  IInv'
<1>1. /\ work["admin"] = <<>> /\ settled' = FALSE /\ calm' = FALSE
      /\ UNCHANGED <<zone, plan, raced, salt_vars, pending>>
  BY DEF CallAddHost, CallDeleteHost, Absent, Command
<1>2. pending["admin"] = NoMessage
  BY <1>1 DEF IInv, Messages, Who
<1>3. /\ AdminSeq(AddHost(h, ip)) /\ AdminSeq(LookUp(h))
      /\ AdminSeq(<<Job("delete", "fwd", h, t, "", FALSE, FALSE, {})>>)
  BY FS_EmptySet, AdminJobs
<1>4. PICK s : AdminSeq(s) /\ work' = [work EXCEPT !["admin"] = s]
  BY <1>3 DEF CallAddHost, CallDeleteHost, Absent
<1>5. QED
  BY <1>1, <1>2, <1>4, AdminWork DEF AdminSeq

\* Nothing is under way to begin with.
LEMMA InitIInv == Init => IInv
<1> SUFFICES ASSUME Init PROVE IInv
  OBVIOUS
<1>1. /\ zone \in Zones /\ plan \in Plans /\ stage = "idle" /\ red = FALSE /\ result = "none"
      /\ work = [p \in Who |-> <<>>] /\ pending = [p \in Who |-> NoMessage]
      /\ settled = FALSE /\ raced = ~Single(zone) /\ calm = TRUE
  BY DEF Init
<1>2. /\ \A p \in Who : work[p] = <<>> /\ pending[p] = NoMessage
      /\ work["salt"] = <<>> /\ work["admin"] = <<>> /\ pending["salt"] = NoMessage
  BY <1>1 DEF Who
<1>3. Shape
  BY <1>1, <1>2 DEF Shape
<1>4. Queues
  <2>1. \A p \in Who : work[p] \in Seq(ToSet(work[p])) /\ ToSet(work[p]) = {}
    BY <1>2, EmptyQueue DEF IsSeq
  <2>2. work = [p \in Who |-> work[p]] /\ pending = [p \in Who |-> pending[p]]
    BY <1>1
  <2>3. QED
    BY <2>1, <2>2 DEF Queues, Who
<1>5. Messages
  BY <1>2 DEF Messages
<1>6. ZoneOK
  BY <1>1, ZoneAssumption DEF ZoneOK
<1>7. Timely /\ Progress /\ GreenMeansServed /\ Blocked
  BY <1>1, <1>2 DEF Timely, Progress, GreenMeansServed, Blocked
<1>8. QED
  BY <1>3, <1>4, <1>5, <1>6, <1>7 DEF IInv

\* Every step preserves the inductive invariant.
LEMMA NextIInv == IInv /\ [Next]_vars => IInv'
<1> SUFFICES ASSUME IInv, [Next]_vars PROVE IInv'
  OBVIOUS
<1>1. CASE Highstate
  BY <1>1, HighstateStep
<1>2. CASE Answers
  BY <1>2, AnswersStep
<1>3. CASE Render
  BY <1>3, RenderStep
<1>4. CASE \E p \in Who : Ask(p)
  BY <1>4, AskStep
<1>5. CASE \E p \in Who : Send(p)
  BY <1>5, SendStep
<1>6. CASE AskAddresses
  BY <1>6, AskAddressesStep
<1>7. CASE NetBoxFails
  BY <1>7, NetBoxFailsStep
<1>8. CASE NotFound \/ RenderFails \/ TestMode
  BY <1>8, OtherEnds
<1>9. CASE \E p \in Who : TimesOut(p)
  BY <1>9, TimesOutStep
<1>10. CASE \E h \in Host : \/ CallDeleteHost(h)
                            \/ \E ip \in Address : CallAddHost(h, ip)
                            \/ \E t \in {"A", "CNAME"} : Absent(h, t)
  BY <1>10, CommandStep
<1>11. CASE \E new \in Plans : Edit(new)
  BY <1>11, EditStep
<1>12. CASE \E p \in Who : AskRefused(p)
  BY <1>12, AskRefusedStep
<1>13. CASE UNCHANGED vars
  <2>1. /\ UNCHANGED <<zone, plan, stage, red, result, work, pending, settled, raced, calm>>
    BY <1>13 DEF vars, salt_vars
  <2>2. Wanted' = Wanted /\ (Consistent' <=> Consistent)
    BY <2>1, SamePlan
  <2>3. \A w : Free(w)' <=> Free(w)
    BY <2>1 DEF Free
  <2>4. \A w : Done(w)' <=> Done(w)
    BY <2>1, SameZone
  <2>5. Shape' /\ Queues' /\ Messages' /\ ZoneOK' /\ Timely'
    BY <2>1 DEF IInv, Shape, Queues, Messages, ZoneOK, Timely
  <2>6. Progress'
    BY <2>1, <2>2, <2>4 DEF IInv, Progress
  <2>7. GreenMeansServed'
    BY <2>1, <2>2, <2>4 DEF IInv, GreenMeansServed, Done
  <2>8. Blocked'
    BY <2>1, <2>2, <2>3 DEF IInv, Blocked
  <2>9. QED
    BY <2>5, <2>6, <2>7, <2>8 DEF IInv
<1>14. QED
  BY <1>1, <1>2, <1>3, <1>4, <1>5, <1>6, <1>7, <1>8, <1>9, <1>10, <1>11, <1>12, <1>13
     DEF Next, Step, AdminStep, Who

\* The inductive invariant holds in every reachable state.
LEMMA Inductive == Spec => []IInv
BY InitIInv, NextIInv, PTL DEF Spec

-----------------------------------------------------------------------------
(* The theorems *)

\* The type invariant: salt is applying exactly while it has something left to do, and
\* a message belongs to the call at the head.
THEOREM Types == Spec => []TypeOK
<1>1. IInv => TypeOK
  <2> SUFFICES ASSUME IInv PROVE TypeOK
    OBVIOUS
  <2>1. \A p \in Who : pending[p] # NoMessage =>
          work[p] # <<>> /\ pending[p].name = Head(work[p]).name
    BY MessageFacts
  <2>2. \A r \in zone : DOMAIN r = {"name", "type", "data", "ttl"}
    <3> SUFFICES ASSUME NEW r \in zone PROVE DOMAIN r = {"name", "type", "data", "ttl"}
      OBVIOUS
    <3>1. r = [name |-> r.name, type |-> r.type, data |-> r.data, ttl |-> r.ttl]
      BY DEF IInv, ZoneOK, WellFormed
    <3> DEFINE n == r.name
               t == r.type
               d == r.data
               l == r.ttl
    <3>2. r = [name |-> n, type |-> t, data |-> d, ttl |-> l]
      BY <3>1
    <3> HIDE DEF n, t, d, l
    <3>3. DOMAIN [name |-> n, type |-> t, data |-> d, ttl |-> l] = {"name", "type", "data", "ttl"}
      OBVIOUS
    <3>4. QED
      BY <3>2, <3>3
  <2>3. QED
    BY <2>1, <2>2 DEF IInv, Shape, TypeOK
<1>2. QED
  BY <1>1, Inductive, PTL

\* After a green highstate every record that was rendered is in place, and it stays so.
THEOREM GreenServes == Spec => []GreenMeansServed
<1>1. IInv => GreenMeansServed
  BY DEF IInv
<1>2. QED
  BY <1>1, Inductive, PTL

\* A highstate after a green one has nothing to send.
THEOREM SettledIsQuiet == Spec => []QuietWhenSettled
<1>1. IInv => QuietWhenSettled
  <2> SUFFICES ASSUME IInv, settled, Consistent, \A w \in Wanted : Free(w),
                      pending["salt"] # NoMessage
               PROVE  FALSE
    BY DEF QuietWhenSettled
  <2>1. work["salt"] # <<>>
    BY MessageFacts DEF Who
  <2>2. RecordOf(Head(work["salt"])) \in Wanted
    BY <2>1, SaltHead
  <2>3. ~Free(RecordOf(Head(work["salt"])))
    BY DEF IInv, Blocked
  <2>4. QED
    BY <2>2, <2>3
<1>2. QED
  BY <1>1, Inductive, PTL

\* After a green highstate the PTR record of a public address names the best target.
THEOREM PtrNamesBest == Spec => []PtrIsBest
<1>1. IInv => PtrIsBest
  <2> SUFFICES ASSUME IInv, settled, Consistent, NEW a \in Public, NEW t \in BestTargets(a)
               PROVE  LET w == [name |-> PtrName(a), type |-> "PTR", data |-> t, ttl |-> Ttl]
                      IN Free(w) => InPlace(w)
    BY DEF PtrIsBest
  <2> DEFINE w == [name |-> PtrName(a), type |-> "PTR", data |-> t, ttl |-> Ttl]
  <2>1. w \in Wanted
    BY BestIsWanted DEF IInv, Shape
  <2> HIDE DEF w
  <2>2. Free(w) => InPlace(w)
    BY <2>1 DEF IInv, GreenMeansServed
  <2>3. QED
    BY <2>2 DEF w
<1>2. QED
  BY <1>1, Inductive, PTL

\* Only a step of the administrator can leave a name without an answer.
LEMMA AnsweringStep ==
  ASSUME IInv, [Next]_vars, work'["admin"] = work["admin"]
  PROVE  \A r \in zone : RRset(zone', r.name, r.type) # {}
<1>1. CASE zone' = zone
  BY <1>1 DEF RRset
<1>2. ASSUME NEW p \in Who, pending[p] # NoMessage, Carried(pending[p]),
             NEW outcome, Finish(p, outcome)
      PROVE  \A r \in zone : RRset(zone', r.name, r.type) # {}
  <2>1. p = "salt"
    <3> SUFFICES ASSUME p = "admin" PROVE FALSE
      BY DEF Who
    <3>1. work["admin"] # <<>>
      BY <1>2, MessageFacts
    <3>2. IsSeq(work["admin"]) /\ work = [q \in Who |-> work[q]]
      BY DEF IInv, Queues, Who, IsSeq
    <3>3. Tail(work["admin"]) # work["admin"]
      BY <3>1, <3>2, QueueTail
    <3>4. work'["admin"] = <<>> \/ work'["admin"] = Tail(work["admin"])
      BY <1>2, <3>2 DEF Finish, Who
    <3>5. QED
      BY <3>1, <3>3, <3>4
  <2>2. /\ work["salt"] # <<>> /\ pending["salt"].does = Does(Head(work["salt"]), pending["salt"].saw)
        /\ pending["salt"].does \in {"delete", "replace", "add"}
    BY <1>2, <2>1, MessageFacts
  <2>3. SaltJob(Head(work["salt"]))
    BY <2>2, SaltHead
  <2>4. pending["salt"].does \in {"replace", "add"}
    BY <2>2, <2>3 DEF Does, SaltJob
  <2>5. zone' = Applied(zone, pending["salt"]) /\ WellFormed(zone)
    BY <1>2, <2>1 DEF Carried, IInv, ZoneOK
  <2>6. QED
    BY <2>4, <2>5, AppliedKeepsRRsets
<1>3. CASE \E p \in Who : Send(p)
  BY <1>1, <1>2, <1>3 DEF Send
<1>4. CASE \E p \in Who : TimesOut(p)
  BY <1>1, <1>2, <1>4 DEF TimesOut
<1>5. QED
  BY <1>1, <1>3, <1>4 DEF Next, Step, AdminStep, Who, Highstate, Answers, Render, Ask,
     AskRefused, AskAddresses, NetBoxFails, NotFound, RenderFails, TestMode, CallDeleteHost, CallAddHost,
     Absent, Command, Edit, vars

\* A name that answers for a type goes on answering while salt changes it.
THEOREM SaltKeepsAnswering == Spec => KeepsAnswering
<1>1. IInv /\ [Next]_vars =>
        [work'["admin"] = work["admin"] => \A r \in zone : RRset(zone', r.name, r.type) # {}]_vars
  BY AnsweringStep
<1>2. QED
  BY <1>1, Inductive, PTL DEF Spec, KeepsAnswering

=============================================================================
