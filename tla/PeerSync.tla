------------------------------ MODULE PeerSync ------------------------------
(***************************************************************************)
(* Incremental replication between signers: the change stamps of store.go  *)
(* (stamp, since, load) and the pull cursors of peers.go (handleSync,      *)
(* pullPage).                                                              *)
(*                                                                         *)
(* A signer stamps every change of a record with its own clock, strictly   *)
(* increasing.  A peer asks for the records stamped after its cursor, page *)
(* by page, and then moves the cursor up to the present.  A change stamped *)
(* at or below a peer's cursor is never asked for again.                   *)
(*                                                                         *)
(* The contents of a record are the set of changes merged into it: merging *)
(* is union (RoomRecord, MergeOrder).  gc's collection is Signers' subject;*)
(* its flush of pending merges is here.  Time is in units of the stamp.    *)
(***************************************************************************)
EXTENDS Integers, FiniteSets

CONSTANTS Signer, Room,
          Change,       \* local changes that can ever be made
          PageSize,     \* syncPageSize
          Overlap,      \* syncOverlap
          Skews,        \* signer -> the errors its clock may show
          Pulls,        \* bound: who pulls from whom, else only pushes
          Writers,      \* bound: who makes local changes
          Timeout,      \* client.Timeout: how long a sync request may take
          MaxCrashes,   \* bound: crashes
          MaxTime       \* bound: end of modelled time

ASSUME SizeAssumption == PageSize \in Nat \ {0} /\ Overlap \in Nat \ {0}

ASSUME RoomAssumption == IsFiniteSet(Room) /\ Room # {}

ASSUME PullsAssumption ==
  /\ Pulls \subseteq {p \in Signer \X Signer : p[1] # p[2]}
  /\ Writers \subseteq Signer

\* 5 s against 10 s: an answer is never older than the overlap.
ASSUME TimeoutAssumption == Timeout \in Nat /\ Timeout < Overlap

ASSUME TimeAssumption ==
  /\ Skews \in [Signer -> SUBSET Int] /\ \A i \in Signer : 0 \in Skews[i]
  /\ MaxCrashes \in Nat /\ MaxTime \in Nat

VARIABLES
  now,      \* true time
  skew,     \* signer -> error of its clock
  rec,      \* signer -> room -> changes in its record, {} if it has none
  upd,      \* signer -> room -> record.Updated
  last,     \* signer -> store.last
  disk,     \* signer -> rooms.json
  cursor,   \* signer -> peer -> peer.cursor
  call,     \* signer -> peer -> its sync request in flight
  pushes,   \* pushes sent so far, delivered any number of times or never
  made,     \* changes made so far
  crashes,  \* crashes so far
  paging    \* signer -> peer -> where the cursor stands (history)

vars == <<now, skew, rec, upd, last, disk, cursor, call, pushes, made, crashes,
          paging>>

Contents == [Room -> SUBSET Change]

Stamps == [Room -> Nat]

Snapshot == [rec : Contents, upd : Stamps]

NoCall == [pc |-> "idle"]

Call == {NoCall} \cup [pc : {"serving"}, at : Nat, now : Nat]
          \cup [pc : {"answer"}, at : Nat, now : Nat, rooms : SUBSET Room,
                rec : Contents, upd : Stamps, more : BOOLEAN]

TypeOK ==
  /\ now \in Nat
  /\ skew \in [Signer -> Int]
  /\ rec \in [Signer -> Contents]
  /\ upd \in [Signer -> Stamps]
  /\ last \in [Signer -> Nat]
  /\ disk \in [Signer -> Snapshot]
  /\ cursor \in [Signer -> [Signer -> Nat]]
  /\ call \in [Signer -> [Signer -> Call]]
  /\ pushes \in SUBSET [from : Signer, room : Room, rec : SUBSET Change]
  /\ made \in SUBSET Change
  /\ crashes \in Nat
  /\ paging \in [Signer -> [Signer -> {"done", "midway", "torn"}]]

Empty == [rec |-> [r \in Room |-> {}], upd |-> [r \in Room |-> 0]]

Init ==
  /\ now = 1
  /\ skew = [i \in Signer |-> 0]
  /\ rec = [i \in Signer |-> Empty.rec]
  /\ upd = [i \in Signer |-> Empty.upd]
  /\ last = [i \in Signer |-> 0]
  /\ disk = [i \in Signer |-> Empty]
  /\ cursor = [i \in Signer |-> [j \in Signer |-> 0]]
  /\ call = [i \in Signer |-> [j \in Signer |-> NoCall]]
  /\ pushes = {}
  /\ made = {}
  /\ crashes = 0
  /\ paging = [i \in Signer |-> [j \in Signer |-> "done"]]

Clock(i) == now + skew[i]

AtLeast(a, b) == IF a < b THEN b ELSE a

AtMost(a, b) == IF a < b THEN a ELSE b

-----------------------------------------------------------------------------
(* store.go *)

\* Mutant: the clock alone, so two changes may share a stamp.
StampClockOnly(i) == Clock(i)

\* stamp: the clock, or just above the last stamp.
Stamp(i) == AtLeast(Clock(i), last[i] + 1)

\* Rooms nobody has ever changed are all alike, and so are changes nobody has made.
Touched(r) == \E p \in pushes : p.room = r

\* update: merge, stamp, save everything, push.  A failed save is only logged; it
\* matters as long as a crash is still to come.
Update(i, r, saved) ==
  LET c  == CHOOSE c \in Change : c \notin made
      to == rec[i][r] \cup {c} IN
  /\ made # Change
  /\ Touched(r) \/ r = CHOOSE q \in Room : ~Touched(q)
  /\ saved \/ crashes < MaxCrashes
  /\ rec' = [rec EXCEPT ![i][r] = to]
  /\ upd' = [upd EXCEPT ![i][r] = Stamp(i)]
  /\ last' = [last EXCEPT ![i] = Stamp(i)]
  /\ disk' = IF saved THEN [disk EXCEPT ![i] = [rec |-> rec'[i], upd |-> upd'[i]]]
                      ELSE disk
  /\ pushes' = pushes \cup {[from |-> i, room |-> r, rec |-> to]}
  /\ made' = made \cup {c}
  /\ UNCHANGED <<now, skew, cursor, call, crashes, paging>>

\* mergeRemote of the records of `rooms`, in the order of their stamps `order`:
\* every record that changes gets a stamp of its own, nothing is saved.
MergeRemote(i, rooms, got, order) ==
  LET news == {r \in rooms : ~(got[r] \subseteq rec[i][r])}
      rank(r) == Cardinality({q \in news : order[q] < order[r]})
  IN /\ rec' = [rec EXCEPT ![i] =
                  [r \in Room |-> IF r \in news THEN @[r] \cup got[r] ELSE @[r]]]
     /\ upd' = [upd EXCEPT ![i] =
                  [r \in Room |-> IF r \in news THEN Stamp(i) + rank(r) ELSE @[r]]]
     /\ last' = [last EXCEPT ![i] =
                  IF news = {} THEN @ ELSE Stamp(i) + Cardinality(news) - 1]

\* handlePush
Receive(i, p) ==
  /\ p.from # i
  /\ ~(p.rec \subseteq rec[i][p.room])
  /\ MergeRemote(i, {p.room}, [r \in Room |-> p.rec], Empty.upd)
  /\ UNCHANGED <<now, skew, disk, cursor, call, pushes, made, crashes, paging>>

\* gc flushes pending merges.
Flush(i) ==
  /\ disk[i] # [rec |-> rec[i], upd |-> upd[i]]
  /\ disk' = [disk EXCEPT ![i] = [rec |-> rec[i], upd |-> upd[i]]]
  /\ UNCHANGED <<now, skew, rec, upd, last, cursor, call, pushes, made, crashes, paging>>

\* Mutant: the record at the cursor is sent again.
ChangedFrom(j, ms) == {r \in Room : rec[j][r] # {} /\ upd[j][r] >= ms}

\* since: the records stamped after ms, and the first PageSize of them.
Changed(j, ms) == {r \in Room : upd[j][r] > ms}

Page(j, ms) ==
  LET news == Changed(j, ms) IN
  CHOOSE page \in SUBSET news :
    /\ Cardinality(page) = AtMost(PageSize, Cardinality(news))
    /\ \A r \in page, q \in news \ page : upd[j][r] <= upd[j][q]

\* syncResponse: copies of the records of the page.
Response(j, q, ms) ==
  LET page == Page(j, ms) IN
  [pc |-> "answer", at |-> q.at, now |-> q.now, rooms |-> page,
   rec |-> [r \in Room |-> IF r \in page THEN rec[j][r] ELSE {}],
   upd |-> [r \in Room |-> IF r \in page THEN upd[j][r] ELSE 0],
   more |-> Cardinality(Changed(j, ms)) > PageSize]

-----------------------------------------------------------------------------
(* peers.go *)

\* pullPage sends its request and handleSync at j reads the clock...
Ask(i, j) ==
  /\ call[i][j] = NoCall
  /\ call' = [call EXCEPT ![i][j] = [pc |-> "serving", at |-> now, now |-> Clock(j)]]
  /\ UNCHANGED <<now, skew, rec, upd, last, disk, cursor, pushes, made, crashes, paging>>

\* ... and then the records.
Answer(i, j) ==
  /\ call[i][j].pc = "serving"
  /\ call' = [call EXCEPT ![i][j] = Response(j, call[i][j], cursor[i][j])]
  /\ UNCHANGED <<now, skew, rec, upd, last, disk, cursor, pushes, made, crashes, paging>>

\* Mutants: no overlap; the peer's clock is believed; no lower end.
CursorNoOverlap(i, a) == AtMost(a.now, Clock(i))

CursorTrusting(i, a) == AtLeast(0, a.now - Overlap)

CursorBelowZero(i, a) == AtMost(a.now, Clock(i)) - Overlap

\* Where the last page leaves the cursor.
CursorAtEnd(i, a) == AtLeast(0, AtMost(a.now, Clock(i)) - Overlap)

\* A full page is continued after its last record.
NextCursor(i, a) ==
  IF a.more
    THEN CHOOSE ms \in {a.upd[r] : r \in a.rooms} :
           \A r \in a.rooms : a.upd[r] <= ms
    ELSE CursorAtEnd(i, a)

\* A cursor after a full page stands midway between two pages (history).
Reached(a) == IF a.more THEN "midway" ELSE "done"

\* pullPage takes the answer.
Deliver(i, j) ==
  LET a == call[i][j] IN
  /\ a.pc = "answer"
  /\ MergeRemote(i, a.rooms, a.rec, a.upd)
  /\ cursor' = [cursor EXCEPT ![i][j] = NextCursor(i, a)]
  /\ call' = [call EXCEPT ![i][j] = NoCall]
  /\ paging' = [paging EXCEPT ![i][j] =
                  IF @ = "torn" THEN @ ELSE Reached(a)]
  /\ UNCHANGED <<now, skew, disk, pushes, made, crashes>>

\* The request fails or times out; the cursor stays.
Fail(i, j) ==
  /\ call[i][j] # NoCall
  /\ call' = [call EXCEPT ![i][j] = NoCall]
  /\ UNCHANGED <<now, skew, rec, upd, last, disk, cursor, pushes, made, crashes, paging>>

-----------------------------------------------------------------------------
(* Faults and time *)

Highest(s) == CHOOSE n \in {s[r] : r \in Room} : \A r \in Room : s[r] <= n

\* The pages that a has from b are not complete, or will not be with the answer on
\* the way.
Midway(a, b) ==
  \/ paging[a][b] = "midway"
  \/ call[a][b].pc = "answer" /\ Reached(call[a][b]) = "midway"

\* The points up to which a signer takes a peer's changes for known: its cursor, and
\* where the answer to the request in flight may yet put it.
Ends(q) ==
  IF q = NoCall THEN {}
  ELSE IF q.pc = "answer" /\ q.more THEN {q.upd[r] : r \in q.rooms}
  ELSE {AtMost(q.now, q.at + Timeout) - Overlap}

Reach(a, b) == {cursor[a][b]} \cup Ends(call[a][b])

\* b's clock or its last stamp has gone back to where a no longer looks.
GoneBack(a, b) == \E c \in Reach(a, b) : Stamp(b)' <= c

\* A signer dies and comes back: load finds the last snapshot.  What it has answered
\* may still arrive.  While it is down, requests to it fail and pushes are not
\* delivered.
Restart(i, cursors) ==
  /\ crashes < MaxCrashes
  /\ UNCHANGED <<now, skew, disk, pushes, made>>
  /\ rec' = [rec EXCEPT ![i] = disk[i].rec]
  /\ upd' = [upd EXCEPT ![i] = disk[i].upd]
  /\ last' = [last EXCEPT ![i] = Highest(disk[i].upd)]
  /\ cursor' = [cursor EXCEPT ![i] = cursors]
  /\ call' = [a \in Signer |-> [b \in Signer |->
                IF a = i \/ (b = i /\ call[a][b].pc = "serving")
                  THEN NoCall ELSE call[a][b]]]
  /\ paging' = [a \in Signer |-> [b \in Signer |->
                  CASE a = i -> "done"
                    [] a # i /\ b = i /\ (Midway(a, b) \/ GoneBack(a, b)) -> "torn"
                    [] OTHER -> paging[a][b]]]
  /\ crashes' = crashes + 1

\* Mutant: cursors that survive, unlike the merges they stand for.
CrashKeepsCursors(i) == Restart(i, cursor[i])

\* The cursors are in memory only.
Crash(i) == Restart(i, [j \in Signer |-> 0])

\* A clock goes wrong, forwards or backwards, or is corrected.  It shows a time after
\* the epoch.
Adjust(i, s) ==
  /\ s \in Skews[i] \ {skew[i]}
  /\ now + s > 0
  /\ skew' = [skew EXCEPT ![i] = s]
  /\ UNCHANGED <<now, rec, upd, last, disk, cursor, call, pushes, made, crashes>>
  /\ paging' = [a \in Signer |-> [b \in Signer |->
                  IF a # i /\ b = i /\ GoneBack(a, b) THEN "torn" ELSE paging[a][b]]]

Tick ==
  /\ now < MaxTime
  /\ \A p \in Pulls : LET q == call[p[1]][p[2]] IN q # NoCall => now < q.at + Timeout
  /\ now' = now + 1
  /\ UNCHANGED <<skew, rec, upd, last, disk, cursor, call, pushes, made, crashes, paging>>

Next ==
  \/ \E i \in Writers, r \in Room, s \in BOOLEAN : Update(i, r, s)
  \/ \E i \in Signer, p \in pushes : Receive(i, p)
  \/ \E i \in Signer : Flush(i) \/ Crash(i)
  \/ \E p \in Pulls : \/ Ask(p[1], p[2]) \/ Answer(p[1], p[2])
                     \/ Deliver(p[1], p[2]) \/ Fail(p[1], p[2])
  \/ \E i \in Signer : \E s \in Skews[i] : Adjust(i, s)
  \/ Tick

Spec == Init /\ [][Next]_vars

\* loop pulls from every peer every 30 s, a failed request is tried again in
\* the next round and does not fail for ever.
FairSpec ==
  /\ Spec
  /\ \A p \in Pulls : /\ WF_vars(Ask(p[1], p[2]))
                     /\ SF_vars(Answer(p[1], p[2]))
                     /\ SF_vars(Deliver(p[1], p[2]))

-----------------------------------------------------------------------------
(* Properties *)

\* The clocks of these signers are right or behind, never ahead.
NeverAhead(i) == \A s \in Skews[i] : s <= 0

\* No change is skipped for good: what a peer has stamped at or below a signer's
\* cursor is already in the signer's own record, so that "missed pushes are caught up
\* by the next pull" (peers.go).  Excepted are pairs that are torn: the peer crashed
\* between two pages, or went back, by its clock or by stamps lost in a crash, to or
\* behind a point the signer has passed (see CaughtUp).  A peer may be ahead, behind
\* or corrected otherwise.  Meant for signers whose own clock is never ahead
\* (pullPage, handleSync, stamp, load).
CursorSafe ==
  \A i, j \in Signer : i # j /\ NeverAhead(i) /\ paging[i][j] # "torn" =>
    \A r \in Room : upd[j][r] <= cursor[i][j] => rec[j][r] \subseteq rec[i][r]

\* What a peer knows arrives in the end, although every push may be lost,
\* requests fail and a signer crashes between two steps, with the same exceptions
\* (loop, pullOne, pullPage).
Converges ==
  <>[](\A p \in Pulls, r \in Room :
         paging[p[1]][p[2]] # "torn" => rec[p[2]][r] \subseteq rec[p[1]][r])

\* Nothing is wrong with the clocks any more.
ClocksRight == \A i \in Signer : skew[i] = 0

\* The same without exceptions, if all clocks are right in the end: "missed pushes are
\* caught up by the next pull" (peers.go, push).
CaughtUp ==
  <>[]ClocksRight =>
    <>[](\A p \in Pulls, r \in Room : rec[p[2]][r] \subseteq rec[p[1]][r])
=============================================================================
