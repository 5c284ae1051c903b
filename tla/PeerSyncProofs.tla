--------------------------- MODULE PeerSyncProofs ---------------------------
(***************************************************************************)
(* The cursors of the signers are safe, for any number of signers, rooms   *)
(* and changes, any page size, and pushes and requests that are lost, late *)
(* or repeated.  The clocks of the peers may be ahead, behind or corrected *)
(* at any time, except to or behind a point that a cursor has passed.      *)
(***************************************************************************)
EXTENDS PeerSync, FiniteSetTheorems, TLAPS

-----------------------------------------------------------------------------
(* The invariant *)

\* Only rooms without a record have no stamp, and no two rooms have the same.
Orderly(s) ==
  /\ \A r \in Room : s.upd[r] = 0 => s.rec[r] = {}
  /\ \A r, q \in Room : s.upd[r] = s.upd[q] /\ s.upd[r] # 0 => r = q

Current(i) == [rec |-> rec[i], upd |-> upd[i]]

\* A signer's stamps are orderly, in memory and on disk, and none is above the last.
\* The disk holds nothing that memory does not.
Stamped ==
  \A i \in Signer :
    /\ Orderly(Current(i)) /\ Orderly(disk[i])
    /\ \A r \in Room : upd[i][r] <= last[i] /\ disk[i].rec[r] \subseteq rec[i][r]

\* Clocks are past the epoch, and a request is no older than its timeout.
Timely ==
  /\ now >= 1
  /\ \A i \in Signer : skew[i] \in Skews[i] /\ Clock(i) >= 1
  /\ \A i, j \in Signer : call[i][j] # NoCall =>
       /\ <<i, j>> \in Pulls
       /\ call[i][j].at >= 1 /\ call[i][j].at <= now /\ now <= call[i][j].at + Timeout

\* An answer has the records of its page, with different stamps; if there are more,
\* the page is full.
Paged ==
  \A i, j \in Signer : LET a == call[i][j] IN
    a.pc = "answer" =>
      /\ \A r \in Room \ a.rooms : a.rec[r] = {}
      /\ \A r, q \in a.rooms : a.upd[r] = a.upd[q] => r = q
      /\ a.more => a.rooms # {}

\* i may leave its cursor for j at c when it has merged `got`: i has what is stamped
\* up to c, now and, unless c is midway between two pages, when j comes back.
Covers(i, j, c, got, page) ==
  \A r \in Room :
    /\ upd[j][r] <= c => rec[j][r] \subseteq rec[i][r] \cup got[r]
    /\ page # "midway" /\ disk[j].upd[r] <= c => disk[j].rec[r] \subseteq rec[i][r] \cup got[r]

\* Where an answer may put the cursor.
Leads(a, c) ==
  IF a.more THEN \E r \in a.rooms : c = a.upd[r]
            ELSE c = 0 \/ c <= AtMost(a.now, a.at + Timeout) - Overlap

\* j's later changes get stamps above every point up to which i takes them for known.
Ahead(i, j) == \A c \in Reach(i, j) : c < Stamp(j)

\* For signers whose clock is never ahead, unless the pair is torn: the peer stamps
\* ahead of their cursors, these cover what lies below them, and so will the answers on
\* the way.
Covered ==
  \A i, j \in Signer : i # j /\ NeverAhead(i) /\ paging[i][j] # "torn" =>
    /\ Ahead(i, j)
    /\ Covers(i, j, cursor[i][j], Empty.rec, paging[i][j])
    /\ call[i][j].pc = "answer" =>
         \A c \in Nat : Leads(call[i][j], c) =>
           Covers(i, j, c, call[i][j].rec, Reached(call[i][j]))

IInv == TypeOK /\ Stamped /\ Timely /\ Paged /\ Covered

-----------------------------------------------------------------------------
(* Numbers and pages *)

LEMMA HasMin ==
  ASSUME NEW S \in SUBSET Nat, S # {}
  PROVE  \E m \in S : \A x \in S : m <= x
<1> DEFINE R == OpToRel(<, Nat)
<1>1. IsWellFoundedOn(R, Nat)
  BY NatLessThanWellFounded
<1>2. \E m \in S : \A x \in S : ~(<<x, m>> \in R)
  <2> HIDE DEF R
  <2> QED BY <1>1, WFMin
<1>3. PICK m \in S : \A x \in S : ~(<<x, m>> \in R)
  BY <1>2
<1>4. \A x \in S : ~(x < m)
  BY <1>3 DEF OpToRel
<1> QED BY <1>4

\* A set of rooms that is not empty has one with the lowest and one with the
\* highest stamp.
LEMMA Extremes ==
  ASSUME NEW S \in SUBSET Room, S # {}, NEW s \in Stamps
  PROVE  /\ \E m \in S : \A r \in S : s[m] <= s[r]
         /\ \E m \in S : \A r \in S : s[r] <= s[m]
<1>1. \A r \in S : s[r] \in Nat
  BY DEF Stamps
<1>2. \E m \in S : \A r \in S : s[m] <= s[r]
  <2>1. {s[r] : r \in S} \subseteq Nat /\ {s[r] : r \in S} # {}
    BY <1>1
  <2>2. PICK n \in {s[r] : r \in S} : \A x \in {s[r] : r \in S} : n <= x
    BY <2>1, HasMin
  <2> QED BY <2>2
<1> DEFINE Above(r) == {q \in S : s[q] > s[r]}
           N == {Cardinality(Above(r)) : r \in S}
<1>3. \A r \in S : IsFiniteSet(Above(r)) /\ Cardinality(Above(r)) \in Nat
  <2>1. IsFiniteSet(S)
    BY RoomAssumption, FS_Subset
  <2>2. \A r \in S : Above(r) \subseteq S
    OBVIOUS
  <2>3. \A r \in S : IsFiniteSet(Above(r))
    <3> HIDE DEF Above
    <3> QED BY <2>1, <2>2, FS_Subset
  <2> HIDE DEF Above
  <2> QED BY <2>3, FS_CardinalityType
<1>4. PICK n \in N : \A x \in N : n <= x
  <2>1. N \subseteq Nat /\ N # {}
    <3> HIDE DEF Above
    <3> QED BY <1>3
  <2> HIDE DEF N
  <2> QED BY <2>1, HasMin
<1>5. PICK m \in S : n = Cardinality(Above(m))
  OBVIOUS
<1>6. ASSUME NEW r \in S PROVE s[r] <= s[m]
  <2>1. SUFFICES ASSUME s[r] > s[m] PROVE FALSE
    BY <1>1
  <2>2. Above(r) \subseteq Above(m) /\ r \in Above(m) /\ r \notin Above(r)
    BY <1>1, <2>1
  <2>3. Cardinality(Above(r)) < Cardinality(Above(m))
    <3> HIDE DEF Above
    <3>1. Cardinality(Above(r)) <= Cardinality(Above(m)) /\ Above(r) # Above(m)
      BY <1>3, <2>2, FS_Subset
    <3>2. Cardinality(Above(r)) # Cardinality(Above(m))
      BY <1>3, <2>2, <3>1, FS_Subset
    <3> QED BY <1>3, <3>1, <3>2
  <2>4. n <= Cardinality(Above(r))
    BY <1>4
  <2> HIDE DEF Above
  <2> QED BY <1>3, <1>5, <2>3, <2>4
<1> QED BY <1>2, <1>6

LEMMA RoomSets ==
  ASSUME NEW S \in SUBSET Room
  PROVE  IsFiniteSet(S) /\ Cardinality(S) \in Nat /\ Cardinality(S) <= Cardinality(Room)
         /\ Cardinality(Room) \in Nat
BY RoomAssumption, FS_Subset, FS_CardinalityType

\* The page of `since` that Page chooses: the lowest stamps, as many as fit.
IsPage(page, news, s, n) ==
  /\ page \in SUBSET news /\ Cardinality(page) = n
  /\ \A r \in page, q \in news \ page : s[r] <= s[q]

LEMMA PageExists ==
  ASSUME NEW news \in SUBSET Room, NEW s \in Stamps, NEW n \in Nat, n <= Cardinality(news)
  PROVE  \E page \in SUBSET news : IsPage(page, news, s, n)
<1> DEFINE T == {k \in 0 .. n : ~(\E page \in SUBSET news : IsPage(page, news, s, k))}
<1>1. SUFFICES ASSUME T # {} PROVE FALSE
  OBVIOUS
<1>2. PICK k \in T : \A x \in T : k <= x
  <2>1. T \subseteq Nat
    OBVIOUS
  <2> HIDE DEF T
  <2> QED BY <1>1, <2>1, HasMin
<1>3. k # 0
  <2>1. IsPage({}, news, s, 0)
    BY FS_EmptySet DEF IsPage
  <2> QED BY <2>1
<1>4. k \in Nat /\ k - 1 \in 0 .. n /\ k - 1 \notin T /\ k <= n
  BY <1>2, <1>3
<1>5. PICK page \in SUBSET news : IsPage(page, news, s, k - 1)
  BY <1>4
<1>6. news \ page # {}
  BY <1>4, <1>5, RoomSets DEF IsPage
<1>7. PICK m \in news \ page : \A r \in news \ page : s[m] <= s[r]
  BY <1>6, Extremes
<1>8. Cardinality(page \cup {m}) = k
  <2>1. IsFiniteSet(page) /\ m \notin page
    BY <1>7, RoomSets
  <2>2. Cardinality(page \cup {m}) = Cardinality(page) + 1
    BY <2>1, FS_AddElement
  <2> QED BY <1>4, <1>5, <2>2 DEF IsPage
<1>9. IsPage(page \cup {m}, news, s, k)
  BY <1>5, <1>7, <1>8 DEF IsPage
<1> QED BY <1>2, <1>9

-----------------------------------------------------------------------------
(* Merging *)

\* What a step without a crash does to the records: they grow, and what changes
\* gets a stamp that is not below the next one.
GrowsAt(i) ==
  /\ last[i] <= last'[i]
  /\ \A r \in Room :
       /\ rec[i][r] \subseteq rec'[i][r]
       /\ \/ upd'[i][r] = upd[i][r] /\ rec'[i][r] = rec[i][r]
          \/ Stamp(i) <= upd'[i][r]

Grows ==
  /\ now' \in Nat /\ now <= now'
  /\ \A i \in Signer : GrowsAt(i) /\ disk'[i] \in {disk[i], Current(i)'}

LEMMA StampType ==
  ASSUME TypeOK, NEW i \in Signer
  PROVE  /\ Stamp(i) \in Nat /\ Stamp(i) > last[i] /\ Stamp(i) >= Clock(i) /\ Stamp(i) > 0
         /\ now \in Nat /\ last[i] \in Nat /\ Clock(i) \in Int
BY DEF TypeOK, Stamp, Clock, AtLeast

LEMMA StoreType ==
  ASSUME TypeOK, NEW i \in Signer
  PROVE  /\ rec[i] \in Contents /\ upd[i] \in Stamps
         /\ disk[i].rec \in Contents /\ disk[i].upd \in Stamps
         /\ \A r \in Room : /\ rec[i][r] \in SUBSET Change /\ upd[i][r] \in Nat
                            /\ disk[i].rec[r] \in SUBSET Change /\ disk[i].upd[r] \in Nat
<1>1. rec[i] \in Contents /\ upd[i] \in Stamps /\ disk[i] \in Snapshot
  BY DEF TypeOK
<1>2. disk[i].rec \in Contents /\ disk[i].upd \in Stamps
  BY <1>1 DEF Snapshot
<1> QED BY <1>1, <1>2 DEF Contents, Stamps

LEMMA EmptyType == Empty \in Snapshot
BY DEF Empty, Snapshot, Contents, Stamps

\* The stamps of a merge: the ranks of the records that change.
Rank(news, order, r) == Cardinality({q \in news : order[q] < order[r]})

LEMMA Ranks ==
  ASSUME NEW news \in SUBSET Room, NEW order \in Stamps, NEW r \in news
  PROVE  /\ Rank(news, order, r) \in Nat /\ Rank(news, order, r) < Cardinality(news)
         /\ \A q \in news : order[r] < order[q] => Rank(news, order, r) < Rank(news, order, q)
<1> DEFINE Below(x) == {q \in news : order[q] < order[x]}
<1>1. \A x \in news : order[x] \in Nat
  BY DEF Stamps
<1>2. ASSUME NEW A \in SUBSET news, NEW B \in SUBSET news, A \subseteq B, NEW x \in B, x \notin A
      PROVE  Cardinality(A) \in Nat /\ Cardinality(A) < Cardinality(B)
  <2>1. IsFiniteSet(A) /\ IsFiniteSet(B) /\ Cardinality(A) \in Nat /\ Cardinality(B) \in Nat
    BY RoomSets
  <2>2. Cardinality(A) <= Cardinality(B) /\ Cardinality(A) # Cardinality(B)
    BY <1>2, <2>1, FS_Subset
  <2> QED BY <2>1, <2>2
<1>3. Below(r) \in SUBSET news /\ r \notin Below(r)
  BY <1>1
<1>4. Cardinality(Below(r)) \in Nat /\ Cardinality(Below(r)) < Cardinality(news)
  <2> HIDE DEF Below
  <2> QED BY <1>2, <1>3
<1>5. ASSUME NEW q \in news, order[r] < order[q]
      PROVE  Cardinality(Below(r)) < Cardinality(Below(q))
  <2>1. Below(q) \in SUBSET news /\ Below(r) \subseteq Below(q) /\ r \in Below(q)
    BY <1>1, <1>5
  <2> HIDE DEF Below
  <2> QED BY <1>2, <1>3, <2>1
<1> QED BY <1>4, <1>5 DEF Rank

\* mergeRemote of records with different stamps.
LEMMA Merged ==
  ASSUME TypeOK, Stamped, NEW i \in Signer, NEW rooms \in SUBSET Room,
         NEW got \in Contents, NEW order \in Stamps,
         \A r, q \in rooms : order[r] = order[q] => r = q,
         MergeRemote(i, rooms, got, order)
  PROVE  /\ rec' \in [Signer -> Contents] /\ upd' \in [Signer -> Stamps]
         /\ last' \in [Signer -> Nat]
         /\ \A k \in Signer : /\ GrowsAt(k) /\ Orderly(Current(k))'
                              /\ \A r \in Room : upd'[k][r] <= last'[k]
         /\ \A r \in rooms : got[r] \subseteq rec'[i][r]
<1> DEFINE news == {r \in rooms : ~(got[r] \subseteq rec[i][r])}
           n == Cardinality(news)
<1>1. /\ rec' = [rec EXCEPT ![i] = [r \in Room |-> IF r \in news THEN rec[i][r] \cup got[r] ELSE rec[i][r]]]
      /\ upd' = [upd EXCEPT ![i] = [r \in Room |-> IF r \in news THEN Stamp(i) + Rank(news, order, r)
                                                   ELSE upd[i][r]]]
      /\ last' = [last EXCEPT ![i] = IF news = {} THEN last[i] ELSE Stamp(i) + n - 1]
  BY DEF MergeRemote, Rank
<1>2. /\ news \in SUBSET Room /\ n \in Nat /\ (news # {} => n >= 1)
      /\ \A r \in rooms \ news : got[r] \subseteq rec[i][r]
      /\ \A r, q \in news : order[r] = order[q] => r = q
  <2>1. news \in SUBSET Room
    OBVIOUS
  <2>2. n \in Nat /\ (news # {} => n # 0)
    <3> HIDE DEF news
    <3> QED BY <2>1, RoomSets, FS_EmptySet
  <2> QED BY <2>1, <2>2
<1> HIDE DEF news, n
<1>3. /\ rec'[i] = [r \in Room |-> IF r \in news THEN rec[i][r] \cup got[r] ELSE rec[i][r]]
      /\ upd'[i] = [r \in Room |-> IF r \in news THEN Stamp(i) + Rank(news, order, r) ELSE upd[i][r]]
      /\ last'[i] = IF news = {} THEN last[i] ELSE Stamp(i) + n - 1
      /\ \A k \in Signer \ {i} : rec'[k] = rec[k] /\ upd'[k] = upd[k] /\ last'[k] = last[k]
  BY <1>1 DEF TypeOK
<1>4. \A r \in news : /\ Rank(news, order, r) \in Nat /\ Rank(news, order, r) < n
                      /\ \A q \in news : order[r] < order[q] =>
                           Rank(news, order, r) < Rank(news, order, q)
  BY <1>2, Ranks DEF n
<1>5. /\ Stamp(i) \in Nat /\ Stamp(i) > last[i] /\ Stamp(i) > 0 /\ last[i] \in Nat
      /\ \A r \in Room : rec[i][r] \in SUBSET Change /\ upd[i][r] \in Nat /\ upd[i][r] <= last[i]
                         /\ got[r] \in SUBSET Change /\ order[r] \in Nat
  BY StampType, StoreType DEF Stamped, Contents, Stamps
<1>6. /\ rec'[i] \in Contents /\ upd'[i] \in Stamps /\ last'[i] \in Nat /\ last[i] <= last'[i]
  <2>1. rec'[i] \in Contents
    BY <1>3, <1>5 DEF Contents
  <2>2. upd'[i] \in Stamps
    BY <1>2, <1>3, <1>4, <1>5 DEF Stamps
  <2> QED BY <1>2, <1>3, <1>5, <2>1, <2>2
<1>7. /\ rec' \in [Signer -> Contents] /\ upd' \in [Signer -> Stamps] /\ last' \in [Signer -> Nat]
  <2>1. rec' = [rec EXCEPT ![i] = rec'[i]] /\ upd' = [upd EXCEPT ![i] = upd'[i]]
        /\ last' = [last EXCEPT ![i] = last'[i]]
    BY <1>1, <1>3
  <2> QED BY <1>6, <2>1 DEF TypeOK
<1>8. ASSUME NEW r \in Room
      PROVE  /\ upd'[i][r] <= last'[i] /\ rec[i][r] \subseteq rec'[i][r]
             /\ \/ upd'[i][r] = upd[i][r] /\ rec'[i][r] = rec[i][r]
                \/ Stamp(i) <= upd'[i][r]
             /\ r \in rooms => got[r] \subseteq rec'[i][r]
             /\ upd'[i][r] = 0 => rec'[i][r] = {}
  <2>1. CASE r \in news
    BY <1>2, <1>3, <1>4, <1>5, <2>1
  <2>2. CASE r \notin news
    <3>1. upd[i][r] = 0 => rec[i][r] = {}
      BY DEF Stamped, Orderly, Current
    <3>2. rec'[i][r] = rec[i][r] /\ upd'[i][r] = upd[i][r]
      BY <1>3, <2>2
    <3> QED BY <1>2, <1>5, <1>3, <1>6, <2>2, <3>1, <3>2
  <2> QED BY <2>1, <2>2
<1>9. ASSUME NEW r \in Room, NEW q \in Room, upd'[i][r] = upd'[i][q], upd'[i][r] # 0
      PROVE  r = q
  <2>1. \A x \in news : upd'[i][x] = Stamp(i) + Rank(news, order, x)
    BY <1>2, <1>3
  <2>2. \A x \in Room \ news : upd'[i][x] = upd[i][x]
    BY <1>3
  <2>3. CASE r \in news /\ q \in news
    <3>1. Rank(news, order, r) = Rank(news, order, q)
      BY <1>4, <1>5, <1>9, <2>1, <2>3
    <3>2. ~(order[r] < order[q]) /\ ~(order[q] < order[r])
      BY <1>4, <2>3, <3>1
    <3> QED BY <1>2, <1>5, <2>3, <3>2
  <2>4. CASE r \notin news /\ q \notin news
    BY <1>9, <2>2, <2>4 DEF Stamped, Orderly, Current
  <2>5. CASE ~(r \in news <=> q \in news)
    BY <1>4, <1>5, <1>9, <2>1, <2>2, <2>5
  <2> QED BY <2>3, <2>4, <2>5
<1>10. Orderly(Current(i))'
  BY <1>8, <1>9 DEF Orderly, Current
<1>11. ASSUME NEW k \in Signer \ {i}
       PROVE  /\ last[k] <= last'[k] /\ Orderly(Current(k))'
              /\ \A r \in Room : upd'[k][r] <= last'[k] /\ upd'[k][r] = upd[k][r]
                                 /\ rec'[k][r] = rec[k][r]
  <2>1. Orderly(Current(k)) /\ \A r \in Room : upd[k][r] <= last[k]
    BY DEF Stamped
  <2>2. last[k] \in Nat
    BY DEF TypeOK
  <2> QED BY <1>3, <2>1, <2>2 DEF Orderly, Current
<1>12. GrowsAt(i) /\ \A k \in Signer \ {i} : GrowsAt(k)
  BY <1>6, <1>8, <1>11 DEF GrowsAt
<1>13. \A k \in Signer : /\ GrowsAt(k) /\ Orderly(Current(k))'
                          /\ \A r \in Room : upd'[k][r] <= last'[k]
  BY <1>8, <1>10, <1>11, <1>12, Zenon
<1> QED BY <1>7, <1>8, <1>13

-----------------------------------------------------------------------------
(* Requests and answers *)

LEMMA CallFacts ==
  ASSUME TypeOK, NEW i \in Signer, NEW j \in Signer
  PROVE  /\ call[i][j] \in Call /\ cursor[i][j] \in Nat
         /\ call[i][j] # NoCall => call[i][j].at \in Nat /\ call[i][j].now \in Nat
         /\ call[i][j].pc = "serving" => call[i][j] # NoCall
         /\ call[i][j].pc = "answer" =>
              LET a == call[i][j] IN
              /\ a # NoCall
              /\ a.rooms \in SUBSET Room /\ a.rec \in Contents /\ a.upd \in Stamps
              /\ a.more \in BOOLEAN /\ \A r \in Room : a.upd[r] \in Nat /\ a.rec[r] \in SUBSET Change
<1>1. call[i][j] \in Call /\ cursor[i][j] \in Nat
  BY DEF TypeOK
<1>2. NoCall.pc = "idle"
  BY DEF NoCall
<1>3. CASE call[i][j] = NoCall
  BY <1>1, <1>2, <1>3
<1>4. CASE call[i][j] \in [pc : {"serving"}, at : Nat, now : Nat]
  BY <1>1, <1>2, <1>4
<1>5. CASE call[i][j] \in [pc : {"answer"}, at : Nat, now : Nat, rooms : SUBSET Room,
                           rec : Contents, upd : Stamps, more : BOOLEAN]
  <2>1. /\ call[i][j].pc = "answer" /\ call[i][j].at \in Nat /\ call[i][j].now \in Nat
        /\ call[i][j].rooms \in SUBSET Room /\ call[i][j].rec \in Contents
        /\ call[i][j].upd \in Stamps
    BY <1>5
  <2>2. call[i][j].more \in BOOLEAN
    BY <1>5, Zenon
  <2> QED BY <1>1, <1>2, <2>1, <2>2 DEF Contents, Stamps
<1> QED BY <1>1, <1>3, <1>4, <1>5 DEF Call

\* A page has what is stamped after the cursor, or at least all of it up to its last
\* stamp.
LEMMA PageFacts ==
  ASSUME TypeOK, Stamped, NEW j \in Signer, NEW ms \in Nat
  PROVE  LET page == Page(j, ms)
             more == Cardinality(Changed(j, ms)) > PageSize IN
         /\ page \in SUBSET Room
         /\ \A r \in page : upd[j][r] > ms
         /\ more => page # {}
         /\ ~more => \A r \in Room : upd[j][r] > ms => r \in page
         /\ \A r \in page, q \in Room : upd[j][q] > ms /\ upd[j][q] <= upd[j][r] => q \in page
<1> DEFINE news == Changed(j, ms)
           n == AtMost(PageSize, Cardinality(news))
           page == Page(j, ms)
<1>1. news \in SUBSET Room /\ upd[j] \in Stamps /\ \A r \in Room : upd[j][r] \in Nat
  BY StoreType DEF Changed
<1>2. /\ Cardinality(news) \in Nat /\ n \in Nat /\ n <= Cardinality(news) /\ PageSize \in Nat \ {0}
      /\ Cardinality(news) <= Cardinality(Room) /\ Cardinality(Room) \in Nat
      /\ Cardinality(news) > PageSize => n = PageSize
      /\ ~(Cardinality(news) > PageSize) => n = Cardinality(news)
  BY <1>1, RoomSets, SizeAssumption DEF AtMost
<1>3. \E p \in SUBSET news : IsPage(p, news, upd[j], n)
  <2> HIDE DEF news, n
  <2> QED BY <1>1, <1>2, PageExists
<1>4. page = CHOOSE p \in SUBSET news : IsPage(p, news, upd[j], n)
  BY DEF Page, IsPage
<1>5. page \in SUBSET news /\ IsPage(page, news, upd[j], n)
  <2> HIDE DEF page, news, n
  <2> QED BY <1>3, <1>4
<1>6. Cardinality(page) = n /\ \A r \in page, q \in news \ page : upd[j][r] <= upd[j][q]
  <2> HIDE DEF page, news, n
  <2> QED BY <1>5 DEF IsPage
<1>7. \A r \in Room : r \in news <=> upd[j][r] > ms
  BY DEF Changed
<1>8. \A r, q \in Room : upd[j][r] = upd[j][q] /\ upd[j][r] # 0 => r = q
  BY DEF Stamped, Orderly, Current
<1> HIDE DEF page, news, n
<1>9. Cardinality(news) > PageSize => page # {}
  <2>1. Cardinality({}) = 0
    BY FS_EmptySet
  <2> QED BY <1>2, <1>6, <2>1
<1>10. ~(Cardinality(news) > PageSize) => page = news
  <2>1. IsFiniteSet(news) /\ IsFiniteSet(page)
    BY <1>1, <1>5, RoomSets
  <2> QED BY <1>2, <1>5, <1>6, <2>1, FS_Subset
<1>11. ASSUME NEW r \in page, NEW q \in Room, upd[j][q] > ms, upd[j][q] <= upd[j][r]
       PROVE  q \in page
  <2>1. SUFFICES ASSUME q \notin page PROVE FALSE
    OBVIOUS
  <2>2. upd[j][r] <= upd[j][q]
    BY <1>6, <1>7, <1>11, <2>1
  <2>3. upd[j][q] = upd[j][r] /\ upd[j][q] # 0
    BY <1>1, <1>5, <1>11, <2>2
  <2> QED BY <1>1, <1>5, <1>8, <2>1, <2>3
<1> QED BY <1>1, <1>5, <1>7, <1>9, <1>10, <1>11 DEF news, page

LEMMA Responded ==
  ASSUME TypeOK, Stamped, NEW i \in Signer, NEW j \in Signer,
         call[i][j].pc = "serving"
  PROVE  LET a == Response(j, call[i][j], cursor[i][j]) IN
         /\ a \in Call /\ a # NoCall /\ a.pc = "answer" /\ a.at = call[i][j].at
         /\ a.rooms = Page(j, cursor[i][j])
         /\ a.more <=> Cardinality(Changed(j, cursor[i][j])) > PageSize
         /\ \A r \in Room : a.rec[r] = IF r \in a.rooms THEN rec[j][r] ELSE {}
         /\ \A r \in a.rooms : a.upd[r] = upd[j][r]
<1> DEFINE a == Response(j, call[i][j], cursor[i][j])
           page == Page(j, cursor[i][j])
           more == Cardinality(Changed(j, cursor[i][j])) > PageSize
           R == [r \in Room |-> IF r \in page THEN rec[j][r] ELSE {}]
           U == [r \in Room |-> IF r \in page THEN upd[j][r] ELSE 0]
<1>1. a = [pc |-> "answer", at |-> call[i][j].at, now |-> call[i][j].now, rooms |-> page,
           rec |-> R, upd |-> U, more |-> more]
  BY DEF Response
<1>2. page \in SUBSET Room
  BY CallFacts, PageFacts
<1>3. call[i][j].at \in Nat /\ call[i][j].now \in Nat
  BY CallFacts
<1>4. R \in Contents /\ U \in Stamps
  <2> HIDE DEF page
  <2> QED BY <1>2, StoreType DEF Contents, Stamps
<1>5. more \in BOOLEAN
  OBVIOUS
<1>6. /\ \A r \in Room : R[r] = IF r \in page THEN rec[j][r] ELSE {}
      /\ \A r \in page : U[r] = upd[j][r]
  <2> HIDE DEF page
  <2> QED BY <1>2
<1>7. /\ a.pc = "answer" /\ a.at = call[i][j].at /\ a.rooms = page /\ a.rec = R /\ a.upd = U
      /\ a.more = more
  <2> HIDE DEF a, page, more, R, U
  <2> QED BY <1>1
<1>8. a # NoCall
  <2>1. NoCall.pc = "idle"
    BY DEF NoCall
  <2> HIDE DEF a, page, more, R, U
  <2> QED BY <1>7, <2>1
<1>9. a \in Call
  <2> HIDE DEF a, page, more, R, U
  <2> QED BY <1>1, <1>2, <1>3, <1>4, <1>5 DEF Call
<1>10. (a.more <=> more) /\ \A r \in Room : a.rec[r] = IF r \in a.rooms THEN rec[j][r] ELSE {}
  <2> HIDE DEF a, page, more, R, U
  <2> QED BY <1>6, <1>7
<1>11. \A r \in a.rooms : a.upd[r] = upd[j][r]
  <2> HIDE DEF a, page, more, R, U
  <2> QED BY <1>6, <1>7
<1> HIDE DEF a, R, U
<1> QED BY <1>7, <1>8, <1>9, <1>10, <1>11 DEF a

\* Where an answer puts the cursor.
LEMMA CursorMoves ==
  ASSUME TypeOK, Timely, Paged, NEW i \in Signer, NEW j \in Signer, call[i][j].pc = "answer"
  PROVE  /\ NextCursor(i, call[i][j]) \in Nat
         /\ NeverAhead(i) => Leads(call[i][j], NextCursor(i, call[i][j]))
<1> DEFINE a == call[i][j]
<1>1. /\ a # NoCall /\ a.at \in Nat /\ a.now \in Nat /\ a.rooms \in SUBSET Room /\ a.upd \in Stamps
      /\ \A r \in Room : a.upd[r] \in Nat
  BY CallFacts
<1>2. a.at >= 1 /\ now <= a.at + Timeout /\ now \in Nat /\ skew[i] \in Int /\ skew[i] \in Skews[i]
  BY <1>1 DEF Timely, TypeOK
<1>3. Timeout \in Nat /\ Overlap \in Nat /\ Timeout < Overlap
  BY TimeoutAssumption, SizeAssumption
<1> HIDE DEF a
<1>4. CASE a.more
  <2>1. a.rooms # {}
    BY <1>4 DEF Paged, a
  <2>2. \E ms \in {a.upd[r] : r \in a.rooms} : \A r \in a.rooms : a.upd[r] <= ms
    <3>1. PICK m \in a.rooms : \A r \in a.rooms : a.upd[r] <= a.upd[m]
      BY <1>1, <2>1, Extremes
    <3> QED BY <3>1
  <2>3. NextCursor(i, a) \in {a.upd[r] : r \in a.rooms}
    BY <1>4, <2>2 DEF NextCursor
  <2> QED BY <1>1, <1>4, <2>3 DEF Leads, a
<1>5. CASE ~a.more
  <2>1. NextCursor(i, a) = CursorAtEnd(i, a)
    BY <1>5 DEF NextCursor
  <2>2. CursorAtEnd(i, a) \in Nat
    BY <1>1, <1>2, <1>3 DEF CursorAtEnd, AtLeast, AtMost, Clock
  <2>3. ASSUME NeverAhead(i)
        PROVE  \/ CursorAtEnd(i, a) = 0
               \/ CursorAtEnd(i, a) <= AtMost(a.now, a.at + Timeout) - Overlap
    <3>1. Clock(i) <= now /\ Clock(i) \in Int
      BY <1>2, <2>3 DEF Clock, NeverAhead
    <3> QED BY <1>1, <1>2, <1>3, <3>1 DEF CursorAtEnd, AtLeast, AtMost
  <2> QED BY <1>5, <2>1, <2>2, <2>3 DEF Leads, a
<1> QED BY <1>4, <1>5

-----------------------------------------------------------------------------
(* Types and stamps, action by action *)

LEMMA GrowsStamped ==
  ASSUME TypeOK, Stamped, Grows,
         \A i \in Signer : Orderly(Current(i))' /\ \A r \in Room : upd'[i][r] <= last'[i]
  PROVE  Stamped'
<1>1. SUFFICES ASSUME NEW i \in Signer
               PROVE  Orderly(disk[i])' /\ \A r \in Room : disk'[i].rec[r] \subseteq rec'[i][r]
  BY DEF Stamped
<1>2. Orderly(Current(i))' /\ Orderly(disk[i]) /\ \A r \in Room : disk[i].rec[r] \subseteq rec[i][r]
  BY DEF Stamped
<1>3. disk'[i] \in {disk[i], Current(i)'} /\ \A r \in Room : rec[i][r] \subseteq rec'[i][r]
  BY DEF Grows, GrowsAt
<1>4. CASE disk'[i] = disk[i]
  BY <1>2, <1>3, <1>4 DEF Orderly
<1>5. CASE disk'[i] = Current(i)'
  <2>1. disk'[i].rec = rec'[i] /\ disk'[i].upd = upd'[i]
    BY <1>5 DEF Current
  <2> QED BY <1>2, <2>1 DEF Orderly, Current
<1> QED BY <1>3, <1>4, <1>5

\* Steps that leave the records alone.
LEMMA SameStore ==
  ASSUME TypeOK, Stamped, UNCHANGED <<rec, upd, last>>, now' \in Nat, now <= now',
         \A i \in Signer : disk'[i] \in {disk[i], Current(i)'}
  PROVE  Grows /\ Stamped'
<1>1. Grows
  <2>1. \A i \in Signer : last[i] \in Nat
    BY DEF TypeOK
  <2> QED BY <2>1 DEF Grows, GrowsAt
<1>2. \A i \in Signer : Orderly(Current(i))' /\ \A r \in Room : upd'[i][r] <= last'[i]
  BY DEF Stamped, Orderly, Current
<1> QED BY <1>1, <1>2, GrowsStamped

LEMMA UpdateStep ==
  ASSUME TypeOK, Stamped, NEW i \in Signer, NEW r \in Room, NEW saved \in BOOLEAN,
         Update(i, r, saved)
  PROVE  TypeOK' /\ Grows /\ Stamped'
<1> DEFINE c == CHOOSE c \in Change : c \notin made
           to == rec[i][r] \cup {c}
<1>0. c \in Change
  <2>1. \E x \in Change : x \notin made
    BY DEF Update, TypeOK
  <2> QED BY <2>1
<1>1. /\ rec' = [rec EXCEPT ![i] = [rec[i] EXCEPT ![r] = to]]
      /\ upd' = [upd EXCEPT ![i] = [upd[i] EXCEPT ![r] = Stamp(i)]]
      /\ last' = [last EXCEPT ![i] = Stamp(i)]
      /\ disk' = [disk EXCEPT ![i] = [rec |-> rec'[i], upd |-> upd'[i]]] \/ disk' = disk
      /\ pushes' = pushes \cup {[from |-> i, room |-> r, rec |-> to]}
      /\ made' = made \cup {c}
      /\ UNCHANGED <<now, skew, cursor, call, crashes, paging>>
  BY DEF Update
<1> HIDE DEF c
<1>2. /\ Stamp(i) \in Nat /\ Stamp(i) > last[i] /\ Stamp(i) > 0 /\ last[i] \in Nat /\ now \in Nat
      /\ rec[i] \in Contents /\ upd[i] \in Stamps /\ to \in SUBSET Change
      /\ \A q \in Room : upd[i][q] \in Nat /\ upd[i][q] <= last[i]
  BY <1>0, StampType, StoreType DEF Stamped
<1> HIDE DEF to
<1>3. /\ rec'[i] = [rec[i] EXCEPT ![r] = to] /\ upd'[i] = [upd[i] EXCEPT ![r] = Stamp(i)]
      /\ last'[i] = Stamp(i) /\ disk'[i] \in {disk[i], [rec |-> rec'[i], upd |-> upd'[i]]}
      /\ \A k \in Signer \ {i} : rec'[k] = rec[k] /\ upd'[k] = upd[k] /\ last'[k] = last[k]
                                 /\ disk'[k] = disk[k]
  BY <1>1 DEF TypeOK
<1>4. /\ rec'[i][r] = to /\ upd'[i][r] = Stamp(i)
      /\ \A q \in Room \ {r} : rec'[i][q] = rec[i][q] /\ upd'[i][q] = upd[i][q]
      /\ rec'[i] \in Contents /\ upd'[i] \in Stamps
  BY <1>2, <1>3 DEF Contents, Stamps
<1>5. TypeOK'
  <2>1. [rec |-> rec'[i], upd |-> upd'[i]] \in Snapshot
    BY <1>4 DEF Snapshot
  <2>2. rec' = [rec EXCEPT ![i] = rec'[i]] /\ upd' = [upd EXCEPT ![i] = upd'[i]]
    BY <1>1, <1>3
  <2>3. rec' \in [Signer -> Contents] /\ upd' \in [Signer -> Stamps] /\ disk' \in [Signer -> Snapshot]
    <3>1. rec' \in [Signer -> Contents] /\ upd' \in [Signer -> Stamps]
      BY <1>4, <2>2 DEF TypeOK
    <3>2. CASE disk' = [disk EXCEPT ![i] = [rec |-> rec'[i], upd |-> upd'[i]]]
      BY <2>1, <3>1, <3>2 DEF TypeOK
    <3>3. CASE disk' = disk
      BY <3>1, <3>3 DEF TypeOK
    <3> QED BY <1>1, <3>2, <3>3
  <2>4. last' \in [Signer -> Nat] /\ made' \in SUBSET Change
    BY <1>0, <1>1, <1>2 DEF TypeOK
  <2>5. pushes' \in SUBSET [from : Signer, room : Room, rec : SUBSET Change]
    BY <1>1, <1>2 DEF TypeOK
  <2>6. UNCHANGED <<now, skew, cursor, call, crashes, paging>>
    BY <1>1
  <2> QED BY <2>3, <2>4, <2>5, <2>6 DEF TypeOK
<1>6. Grows
  <2>1. now' = now /\ \A k \in Signer : last[k] <= last'[k]
    BY <1>1, <1>2, <1>3 DEF TypeOK
  <2>2. \A k \in Signer : disk'[k] \in {disk[k], Current(k)'}
    BY <1>3 DEF Current
  <2>3. \A q \in Room : /\ rec[i][q] \subseteq rec'[i][q]
                        /\ \/ upd'[i][q] = upd[i][q] /\ rec'[i][q] = rec[i][q]
                           \/ Stamp(i) <= upd'[i][q]
    BY <1>2, <1>4 DEF to
  <2>4. \A k \in Signer \ {i}, q \in Room : upd'[k][q] = upd[k][q] /\ rec'[k][q] = rec[k][q]
    BY <1>3
  <2>5. now' \in Nat /\ now <= now'
    BY <1>2, <2>1
  <2>6. \A k \in Signer, q \in Room :
          /\ rec[k][q] \subseteq rec'[k][q]
          /\ \/ upd'[k][q] = upd[k][q] /\ rec'[k][q] = rec[k][q]
             \/ Stamp(k) <= upd'[k][q]
    BY <2>3, <2>4, Zenon
  <2> QED BY <2>1, <2>2, <2>5, <2>6, Zenon DEF Grows, GrowsAt
<1>7. ASSUME NEW k \in Signer
      PROVE  Orderly(Current(k))' /\ \A q \in Room : upd'[k][q] <= last'[k]
  <2>1. Orderly(Current(k)) /\ \A q \in Room : upd[k][q] <= last[k]
    BY DEF Stamped
  <2>2. CASE k = i
    <3>1. /\ \A q \in Room : upd[i][q] = 0 => rec[i][q] = {}
          /\ \A q, x \in Room : upd[i][q] = upd[i][x] /\ upd[i][q] # 0 => q = x
      BY <2>1, <2>2 DEF Orderly, Current
    <3>2. \A q \in Room : upd'[i][q] = 0 => rec'[i][q] = {}
      BY <1>2, <1>4, <3>1
    <3>3. \A q \in Room : q # r => upd'[i][q] # upd'[i][r]
      BY <1>2, <1>4
    <3>4. \A q, x \in Room : upd'[i][q] = upd'[i][x] /\ upd'[i][q] # 0 => q = x
      BY <1>4, <3>1, <3>3
    <3>5. \A q \in Room : upd'[i][q] <= last'[i]
      BY <1>2, <1>3, <1>4
    <3> QED BY <2>2, <3>2, <3>4, <3>5 DEF Orderly, Current
  <2>3. CASE k # i
    BY <1>3, <2>1, <2>3 DEF Orderly, Current
  <2> QED BY <2>2, <2>3
<1> QED BY <1>5, <1>6, <1>7, GrowsStamped

LEMMA MergeStep ==
  ASSUME TypeOK, Stamped, NEW i \in Signer, NEW rooms \in SUBSET Room,
         NEW got \in Contents, NEW order \in Stamps,
         \A r, q \in rooms : order[r] = order[q] => r = q,
         MergeRemote(i, rooms, got, order), UNCHANGED <<now, disk>>
  PROVE  /\ rec' \in [Signer -> Contents] /\ upd' \in [Signer -> Stamps] /\ last' \in [Signer -> Nat]
         /\ Grows /\ Stamped'
         /\ \A r \in rooms : got[r] \subseteq rec'[i][r]
<1>1. now' \in Nat /\ now <= now' /\ \A k \in Signer : disk'[k] = disk[k]
  BY DEF TypeOK
<1>2. Grows
  <2>1. \A k \in Signer : GrowsAt(k)
    BY Merged
  <2> QED BY <1>1, <2>1, Zenon DEF Grows
<1>3. \A k \in Signer : Orderly(Current(k))' /\ \A r \in Room : upd'[k][r] <= last'[k]
  BY Merged
<1>4. Stamped'
  BY <1>2, <1>3, GrowsStamped
<1> QED BY <1>2, <1>4, Merged

LEMMA ReceiveStep ==
  ASSUME TypeOK, Stamped, NEW i \in Signer, NEW p \in pushes, Receive(i, p)
  PROVE  TypeOK' /\ Grows /\ Stamped'
<1>1. p.room \in Room /\ p.rec \in SUBSET Change
  BY DEF TypeOK
<1>2. /\ MergeRemote(i, {p.room}, [r \in Room |-> p.rec], Empty.upd)
      /\ UNCHANGED <<now, skew, disk, cursor, call, pushes, made, crashes, paging>>
  BY DEF Receive
<1>3. [r \in Room |-> p.rec] \in Contents /\ Empty.upd \in Stamps
  BY <1>1, EmptyType DEF Contents, Snapshot
<1>4. /\ rec' \in [Signer -> Contents] /\ upd' \in [Signer -> Stamps] /\ last' \in [Signer -> Nat]
      /\ Grows /\ Stamped'
  <2> DEFINE got == [r \in Room |-> p.rec]
             order == Empty.upd
             rooms == {p.room}
  <2>1. rooms \in SUBSET Room /\ \A r, q \in rooms : order[r] = order[q] => r = q
    BY <1>1
  <2>2. got \in Contents /\ order \in Stamps /\ MergeRemote(i, rooms, got, order)
    BY <1>2, <1>3
  <2> HIDE DEF got, order, rooms
  <2> QED BY <1>2, <2>1, <2>2, MergeStep
<1> QED BY <1>2, <1>4 DEF TypeOK

LEMMA DeliverStep ==
  ASSUME TypeOK, Stamped, Timely, Paged, NEW i \in Signer, NEW j \in Signer, Deliver(i, j)
  PROVE  /\ TypeOK' /\ Grows /\ Stamped'
         /\ \A r \in Room : call[i][j].rec[r] \subseteq rec'[i][r]
<1> DEFINE a == call[i][j]
<1>1. /\ a.pc = "answer" /\ MergeRemote(i, a.rooms, a.rec, a.upd)
      /\ cursor' = [cursor EXCEPT ![i] = [cursor[i] EXCEPT ![j] = NextCursor(i, a)]]
      /\ call' = [call EXCEPT ![i] = [call[i] EXCEPT ![j] = NoCall]]
      /\ paging' = [paging EXCEPT ![i] = [paging[i] EXCEPT ![j] =
                      IF paging[i][j] = "torn" THEN paging[i][j] ELSE Reached(a)]]
      /\ UNCHANGED <<now, skew, disk, pushes, made, crashes>>
  BY DEF Deliver
<1>2. a.rooms \in SUBSET Room /\ a.rec \in Contents /\ a.upd \in Stamps
  BY <1>1, CallFacts
<1>3. /\ \A r, q \in a.rooms : a.upd[r] = a.upd[q] => r = q
      /\ \A r \in Room \ a.rooms : a.rec[r] = {}
  BY <1>1 DEF Paged
<1>4. NextCursor(i, a) \in Nat
  BY <1>1, CursorMoves
<1> HIDE DEF a
<1>5. /\ rec' \in [Signer -> Contents] /\ upd' \in [Signer -> Stamps] /\ last' \in [Signer -> Nat]
      /\ Grows /\ Stamped' /\ \A r \in a.rooms : a.rec[r] \subseteq rec'[i][r]
  <2> DEFINE rooms == a.rooms
             got == a.rec
             order == a.upd
  <2>1. /\ rooms \in SUBSET Room /\ got \in Contents /\ order \in Stamps
        /\ \A r, q \in rooms : order[r] = order[q] => r = q
    BY <1>2, <1>3
  <2>2. MergeRemote(i, rooms, got, order) /\ UNCHANGED <<now, disk>>
    BY <1>1
  <2> HIDE DEF rooms, got, order
  <2>3. /\ rec' \in [Signer -> Contents] /\ upd' \in [Signer -> Stamps] /\ last' \in [Signer -> Nat]
        /\ Grows /\ Stamped' /\ \A r \in rooms : got[r] \subseteq rec'[i][r]
    BY <2>1, <2>2, MergeStep
  <2> QED BY <2>3 DEF rooms, got
<1>6. cursor' \in [Signer -> [Signer -> Nat]] /\ call' \in [Signer -> [Signer -> Call]]
  <2>1. NoCall \in Call /\ cursor[i] \in [Signer -> Nat] /\ call[i] \in [Signer -> Call]
    BY DEF Call, TypeOK
  <2> QED BY <1>1, <1>4, <2>1 DEF TypeOK
<1>7. paging' \in [Signer -> [Signer -> {"done", "midway", "torn"}]]
  BY <1>1 DEF TypeOK, Reached
<1> QED BY <1>1, <1>3, <1>5, <1>6, <1>7 DEF TypeOK, a

LEMMA FlushStep ==
  ASSUME TypeOK, Stamped, NEW i \in Signer, Flush(i)
  PROVE  TypeOK' /\ Grows /\ Stamped'
<1>1. /\ disk' = [disk EXCEPT ![i] = [rec |-> rec[i], upd |-> upd[i]]]
      /\ UNCHANGED <<now, skew, rec, upd, last, cursor, call, pushes, made, crashes, paging>>
  BY DEF Flush
<1>2. [rec |-> rec[i], upd |-> upd[i]] \in Snapshot
  BY StoreType DEF Snapshot
<1>3. TypeOK'
  BY <1>1, <1>2 DEF TypeOK
<1>4. \A k \in Signer : disk'[k] \in {disk[k], Current(k)'}
  BY <1>1 DEF TypeOK, Current
<1>5. now' \in Nat /\ now <= now'
  BY <1>1 DEF TypeOK
<1> QED BY <1>1, <1>3, <1>4, <1>5, SameStore

\* Ask, Answer and Fail.
LEMMA CallStep ==
  ASSUME TypeOK, Stamped, Timely, NEW i \in Signer, NEW j \in Signer,
         Ask(i, j) \/ Answer(i, j) \/ Fail(i, j)
  PROVE  /\ TypeOK' /\ Grows /\ Stamped'
         /\ call' = [call EXCEPT ![i] = [call[i] EXCEPT ![j] = call'[i][j]]]
         /\ UNCHANGED <<now, skew, rec, upd, last, disk, cursor, paging>>
<1>0. call[i] \in [Signer -> Call] /\ call \in [Signer -> [Signer -> Call]]
  BY DEF TypeOK
<1>1. /\ call' = [call EXCEPT ![i] = [call[i] EXCEPT ![j] = call'[i][j]]]
      /\ call'[i][j] \in Call
      /\ UNCHANGED <<now, skew, rec, upd, last, disk, cursor, pushes, made, crashes, paging>>
  <2>1. CASE Ask(i, j)
    <3>1. [pc |-> "serving", at |-> now, now |-> Clock(j)] \in Call
      BY StampType DEF Call, Timely
    <3> QED BY <1>0, <2>1, <3>1 DEF Ask
  <2>2. CASE Answer(i, j)
    <3>1. Response(j, call[i][j], cursor[i][j]) \in Call
      BY <2>2, Responded DEF Answer
    <3> QED BY <1>0, <2>2, <3>1 DEF Answer
  <2>3. CASE Fail(i, j)
    <3>1. NoCall \in Call
      BY DEF Call
    <3> QED BY <1>0, <2>3, <3>1 DEF Fail
  <2> QED BY <2>1, <2>2, <2>3
<1>2. TypeOK'
  <2>1. [call[i] EXCEPT ![j] = call'[i][j]] \in [Signer -> Call]
    BY <1>0, <1>1
  <2>2. call' \in [Signer -> [Signer -> Call]]
    BY <1>0, <1>1, <2>1
  <2> QED BY <1>1, <2>2 DEF TypeOK
<1>3. \A k \in Signer : disk'[k] \in {disk[k], Current(k)'}
  BY <1>1
<1>4. now' \in Nat /\ now <= now'
  BY <1>1 DEF TypeOK
<1> QED BY <1>1, <1>2, <1>3, <1>4, SameStore

LEMMA AdjustStep ==
  ASSUME TypeOK, Stamped, NEW i \in Signer, NEW s \in Skews[i], Adjust(i, s)
  PROVE  TypeOK' /\ Grows /\ Stamped'
<1>1. /\ skew' = [skew EXCEPT ![i] = s]
      /\ UNCHANGED <<now, rec, upd, last, disk, cursor, call, pushes, made, crashes>>
      /\ paging' = [a \in Signer |-> [b \in Signer |->
                      IF a # i /\ b = i /\ GoneBack(a, b) THEN "torn" ELSE paging[a][b]]]
  BY DEF Adjust
<1>2. s \in Int
  BY TimeAssumption
<1>3. TypeOK'
  <2>1. \A a, b \in Signer : paging[a][b] \in {"done", "midway", "torn"}
    BY DEF TypeOK
  <2>2. paging' \in [Signer -> [Signer -> {"done", "midway", "torn"}]]
    BY <1>1, <2>1
  <2> QED BY <1>1, <1>2, <2>2 DEF TypeOK
<1>4. now' \in Nat /\ now <= now'
  BY <1>1 DEF TypeOK
<1> QED BY <1>1, <1>3, <1>4, SameStore

LEMMA TickStep ==
  ASSUME TypeOK, Stamped, Tick
  PROVE  TypeOK' /\ Grows /\ Stamped'
<1>1. /\ now' = now + 1
      /\ UNCHANGED <<skew, rec, upd, last, disk, cursor, call, pushes, made, crashes, paging>>
  BY DEF Tick
<1>2. TypeOK'
  BY <1>1 DEF TypeOK
<1>3. now' \in Nat /\ now <= now'
  BY <1>1 DEF TypeOK
<1> QED BY <1>1, <1>2, <1>3, SameStore

LEMMA CrashStep ==
  ASSUME TypeOK, Stamped, NEW i \in Signer, Crash(i)
  PROVE  TypeOK' /\ Stamped'
<1>1. /\ rec' = [rec EXCEPT ![i] = disk[i].rec] /\ upd' = [upd EXCEPT ![i] = disk[i].upd]
      /\ last' = [last EXCEPT ![i] = Highest(disk[i].upd)]
      /\ cursor' = [cursor EXCEPT ![i] = [j \in Signer |-> 0]]
      /\ call' = [a \in Signer |-> [b \in Signer |->
                    IF a = i \/ (b = i /\ call[a][b].pc = "serving") THEN NoCall ELSE call[a][b]]]
      /\ crashes' = crashes + 1 /\ UNCHANGED <<now, skew, disk, pushes, made>>
      /\ paging' = [a \in Signer |-> [b \in Signer |->
                      CASE a = i -> "done"
                        [] a # i /\ b = i /\ (Midway(a, b) \/ GoneBack(a, b)) -> "torn"
                        [] OTHER -> paging[a][b]]]
  BY DEF Crash, Restart
<1>2. /\ disk[i].rec \in Contents /\ disk[i].upd \in Stamps
      /\ \A r \in Room : disk[i].upd[r] \in Nat
  BY StoreType
<1>3. Highest(disk[i].upd) \in Nat /\ \A r \in Room : disk[i].upd[r] <= Highest(disk[i].upd)
  <2>1. PICK m \in Room : \A r \in Room : disk[i].upd[r] <= disk[i].upd[m]
    BY <1>2, RoomAssumption, Extremes
  <2>2. \E n \in {disk[i].upd[r] : r \in Room} : \A r \in Room : disk[i].upd[r] <= n
    BY <2>1
  <2>3. /\ Highest(disk[i].upd) \in {disk[i].upd[r] : r \in Room}
        /\ \A r \in Room : disk[i].upd[r] <= Highest(disk[i].upd)
    BY <2>2 DEF Highest
  <2> QED BY <1>2, <2>3
<1>4. TypeOK'
  <2>1. NoCall \in Call /\ \A a, b \in Signer : call[a][b] \in Call
    BY DEF Call, TypeOK
  <2>2. call' \in [Signer -> [Signer -> Call]]
    BY <1>1, <2>1
  <2>3. cursor' \in [Signer -> [Signer -> Nat]]
    BY <1>1 DEF TypeOK
  <2>4. paging' \in [Signer -> [Signer -> {"done", "midway", "torn"}]]
    <3>1. \A a, b \in Signer : paging[a][b] \in {"done", "midway", "torn"}
      BY DEF TypeOK
    <3> QED BY <1>1, <3>1
  <2> QED BY <1>1, <1>2, <1>3, <2>2, <2>3, <2>4 DEF TypeOK
<1>5. ASSUME NEW k \in Signer
      PROVE  /\ Orderly(Current(k))' /\ Orderly(disk[k])'
             /\ \A r \in Room : upd'[k][r] <= last'[k] /\ disk'[k].rec[r] \subseteq rec'[k][r]
  <2>1. /\ Orderly(Current(k)) /\ Orderly(disk[k]) /\ disk'[k] = disk[k]
        /\ \A r \in Room : upd[k][r] <= last[k] /\ disk[k].rec[r] \subseteq rec[k][r]
    BY <1>1 DEF Stamped
  <2>2. Orderly(disk[k])'
    BY <1>1, <2>1 DEF Orderly
  <2>3. CASE k = i
    <3>1. rec'[k] = disk[k].rec /\ upd'[k] = disk[k].upd /\ last'[k] = Highest(disk[k].upd)
      BY <1>1, <2>3 DEF TypeOK
    <3> QED BY <1>3, <2>1, <2>2, <2>3, <3>1 DEF Orderly, Current
  <2>4. CASE k # i
    <3>1. rec'[k] = rec[k] /\ upd'[k] = upd[k] /\ last'[k] = last[k]
      BY <1>1, <2>4 DEF TypeOK
    <3> QED BY <2>1, <2>2, <3>1 DEF Orderly, Current
  <2> QED BY <2>3, <2>4
<1> QED BY <1>4, <1>5 DEF Stamped

-----------------------------------------------------------------------------
(* The invariant is preserved *)

LEMMA NextStored ==
  ASSUME TypeOK, Stamped, Timely, Paged, [Next]_vars
  PROVE  TypeOK' /\ Stamped' /\ (Grows \/ \E i \in Signer : Crash(i))
<1>1. CASE \E i \in Writers, r \in Room, s \in BOOLEAN : Update(i, r, s)
  BY <1>1, UpdateStep, PullsAssumption
<1>2. CASE \E i \in Signer, p \in pushes : Receive(i, p)
  BY <1>2, ReceiveStep
<1>3. CASE \E i \in Signer : Flush(i)
  BY <1>3, FlushStep
<1>4. CASE \E i \in Signer : Crash(i)
  BY <1>4, CrashStep
<1>5. CASE \E p \in Pulls : Ask(p[1], p[2]) \/ Answer(p[1], p[2]) \/ Fail(p[1], p[2])
  <2>1. PICK p \in Pulls : Ask(p[1], p[2]) \/ Answer(p[1], p[2]) \/ Fail(p[1], p[2])
    BY <1>5
  <2>2. p[1] \in Signer /\ p[2] \in Signer
    BY PullsAssumption
  <2> QED BY <2>1, <2>2, CallStep
<1>6. CASE \E p \in Pulls : Deliver(p[1], p[2])
  <2>1. PICK p \in Pulls : Deliver(p[1], p[2])
    BY <1>6
  <2>2. p[1] \in Signer /\ p[2] \in Signer
    BY PullsAssumption
  <2> QED BY <2>1, <2>2, DeliverStep
<1>7. CASE \E i \in Signer : \E s \in Skews[i] : Adjust(i, s)
  BY <1>7, AdjustStep
<1>8. CASE Tick
  BY <1>8, TickStep
<1>9. CASE UNCHANGED vars
  <2>1. /\ UNCHANGED <<now, skew, rec, upd, last, disk, cursor, call, pushes, made, crashes, paging>>
    BY <1>9 DEF vars
  <2>2. TypeOK'
    BY <2>1 DEF TypeOK
  <2>3. now' \in Nat /\ now <= now'
    BY <2>1 DEF TypeOK
  <2> QED BY <2>1, <2>2, <2>3, SameStore
<1> QED BY <1>1, <1>2, <1>3, <1>4, <1>5, <1>6, <1>7, <1>8, <1>9 DEF Next

\* What can become of a request, of a cursor and of the time.
LEMMA NextCalls ==
  ASSUME TypeOK, [Next]_vars, NEW a \in Signer, NEW b \in Signer
  PROVE  /\ \/ call'[a][b] = call[a][b] \/ call'[a][b] = NoCall
            \/ /\ <<a, b>> \in Pulls /\ Ask(a, b)
               /\ call'[a][b] = [pc |-> "serving", at |-> now, now |-> Clock(b)]
            \/ Answer(a, b)
         /\ \/ /\ cursor'[a][b] = cursor[a][b] /\ ~Crash(a)
               /\ paging'[a][b] \in {paging[a][b], "torn"}
            \/ Crash(a) /\ cursor'[a][b] = 0 /\ paging'[a][b] = "done"
            \/ Deliver(a, b)
         /\ UNCHANGED now \/ (Tick /\ call' = call)
<1>1. CASE (\E i \in Writers, r \in Room, s \in BOOLEAN : Update(i, r, s))
           \/ (\E i \in Signer, p \in pushes : Receive(i, p)) \/ (\E i \in Signer : Flush(i))
           \/ Tick \/ UNCHANGED vars
  <2>1. UNCHANGED <<cursor, call, crashes, paging>> /\ (UNCHANGED now \/ Tick)
    BY <1>1 DEF Update, Receive, Flush, Tick, vars
  <2>2. ~Crash(a)
    BY <2>1 DEF Crash, Restart, TypeOK
  <2> QED BY <2>1, <2>2
<1>4. CASE \E i \in Signer : \E s \in Skews[i] : Adjust(i, s)
  <2>1. PICK i \in Signer : \E s \in Skews[i] : Adjust(i, s)
    BY <1>4
  <2>2. /\ UNCHANGED <<now, cursor, call, crashes>>
        /\ paging' = [x \in Signer |-> [y \in Signer |->
                        IF x # i /\ y = i /\ GoneBack(x, y) THEN "torn" ELSE paging[x][y]]]
    BY <2>1 DEF Adjust
  <2>3. paging'[a][b] \in {paging[a][b], "torn"}
    BY <2>2
  <2>4. ~Crash(a)
    BY <2>2 DEF Crash, Restart, TypeOK
  <2> QED BY <2>2, <2>3, <2>4
<1>2. CASE \E i \in Signer : Crash(i)
  <2>1. PICK i \in Signer : Crash(i)
    BY <1>2
  <2>2. /\ cursor' = [cursor EXCEPT ![i] = [j \in Signer |-> 0]] /\ UNCHANGED now
        /\ call' = [x \in Signer |-> [y \in Signer |->
                      IF x = i \/ (y = i /\ call[x][y].pc = "serving") THEN NoCall ELSE call[x][y]]]
    BY <2>1 DEF Crash, Restart
  <2>3. call'[a][b] = call[a][b] \/ call'[a][b] = NoCall
    BY <2>2
  <2>6. paging'[a][b] = IF a = i THEN "done"
                        ELSE IF b = i /\ (Midway(a, b) \/ GoneBack(a, b))
                          THEN "torn" ELSE paging[a][b]
    <3>1. paging' = [x \in Signer |-> [y \in Signer |->
                       CASE x = i -> "done"
                         [] x # i /\ y = i /\ (Midway(x, y) \/ GoneBack(x, y)) -> "torn"
                         [] OTHER -> paging[x][y]]]
      BY <2>1 DEF Crash, Restart
    <3> QED BY <3>1
  <2>4. CASE a = i
    <3>1. cursor'[a][b] = 0
      BY <2>2, <2>4 DEF TypeOK
    <3> QED BY <2>1, <2>2, <2>3, <2>4, <2>6, <3>1
  <2>5. CASE a # i
    <3>1. cursor'[a][b] = cursor[a][b]
      BY <2>2, <2>5 DEF TypeOK
    <3>2. ASSUME Crash(a) PROVE cursor'[a][b] = 0 /\ paging'[a][b] = "done"
      <4>1. /\ cursor' = [cursor EXCEPT ![a] = [j \in Signer |-> 0]]
            /\ paging' = [x \in Signer |-> [y \in Signer |->
                            CASE x = a -> "done"
                              [] x # a /\ y = a /\ (Midway(x, y) \/ GoneBack(x, y)) -> "torn"
                              [] OTHER -> paging[x][y]]]
        BY <3>2 DEF Crash, Restart
      <4> QED BY <4>1 DEF TypeOK
    <3> QED BY <2>2, <2>3, <2>5, <2>6, <3>1, <3>2
  <2> QED BY <2>4, <2>5
<1>3. CASE \E p \in Pulls : \/ Ask(p[1], p[2]) \/ Answer(p[1], p[2])
                            \/ Deliver(p[1], p[2]) \/ Fail(p[1], p[2])
  <2>1. PICK p \in Pulls : \/ Ask(p[1], p[2]) \/ Answer(p[1], p[2])
                           \/ Deliver(p[1], p[2]) \/ Fail(p[1], p[2])
    BY <1>3
  <2>2. p[1] \in Signer /\ p[2] \in Signer /\ p = <<p[1], p[2]>>
    BY PullsAssumption
  <2>3. UNCHANGED <<now, crashes>>
    BY <2>1 DEF Ask, Answer, Deliver, Fail
  <2>4. ~Crash(a)
    BY <2>3 DEF Crash, Restart, TypeOK
  <2>5. CASE a = p[1] /\ b = p[2]
    <3>1. CASE Ask(a, b)
      BY <2>2, <2>3, <2>4, <2>5, <3>1 DEF Ask, TypeOK
    <3>2. CASE Answer(a, b)
      BY <2>3, <2>4, <3>2 DEF Answer
    <3>3. CASE Fail(a, b)
      <4>1. call' = [call EXCEPT ![a][b] = NoCall] /\ cursor' = cursor /\ paging' = paging
        BY <3>3 DEF Fail
      <4>2. call'[a][b] = NoCall
        BY <4>1 DEF TypeOK
      <4> QED BY <2>3, <2>4, <4>1, <4>2
    <3>4. CASE Deliver(a, b)
      <4>1. call' = [call EXCEPT ![a][b] = NoCall]
        BY <3>4 DEF Deliver
      <4>2. call'[a][b] = NoCall
        BY <4>1 DEF TypeOK
      <4> QED BY <2>3, <3>4, <4>2
    <3> QED BY <2>1, <2>5, <3>1, <3>2, <3>3, <3>4
  <2>6. CASE ~(a = p[1] /\ b = p[2])
    <3>1. /\ \E q : call' = [call EXCEPT ![p[1]][p[2]] = q]
          /\ \E c : cursor' = [cursor EXCEPT ![p[1]][p[2]] = c] \/ cursor' = cursor
          /\ \E c : paging' = [paging EXCEPT ![p[1]][p[2]] = c] \/ paging' = paging
      BY <2>1 DEF Ask, Answer, Deliver, Fail
    <3>2. call'[a][b] = call[a][b]
      BY <2>2, <2>6, <3>1 DEF TypeOK
    <3>3. cursor'[a][b] = cursor[a][b]
      BY <2>2, <2>6, <3>1 DEF TypeOK
    <3>4. paging'[a][b] = paging[a][b]
      BY <2>2, <2>6, <3>1 DEF TypeOK
    <3> QED BY <2>3, <2>4, <3>2, <3>3, <3>4
  <2> QED BY <2>5, <2>6
<1> QED BY <1>1, <1>2, <1>3, <1>4 DEF Next

LEMMA NextTimely ==
  ASSUME TypeOK, Stamped, Timely, Paged, [Next]_vars
  PROVE  Timely'
<1>1. now' >= 1 /\ now \in Nat /\ (UNCHANGED now \/ (now' = now + 1 /\ call' = call /\ Tick))
  <2>1. CASE Tick
    BY <2>1 DEF Tick, Timely, TypeOK
  <2>2. CASE ~Tick
    <3>1. UNCHANGED now
      BY <2>2 DEF Next, Update, Receive, Flush, Crash, Restart, Ask, Answer, Deliver, Fail, Adjust, vars
    <3> QED BY <3>1 DEF Timely, TypeOK
  <2> QED BY <2>1, <2>2
<1>2. ASSUME NEW i \in Signer PROVE skew'[i] \in Skews[i] /\ now' + skew'[i] >= 1
  <2>0. now \in Nat /\ skew[i] \in Int /\ skew[i] \in Skews[i] /\ now + skew[i] >= 1
    BY DEF Timely, TypeOK, Clock
  <2>1. CASE \E k \in Signer : \E s \in Skews[k] : Adjust(k, s)
    <3>0. PICK k \in Signer : \E s \in Skews[k] : Adjust(k, s)
      BY <2>1
    <3>1. PICK s \in Skews[k] : Adjust(k, s)
      BY <3>0
    <3>2. skew' = [skew EXCEPT ![k] = s] /\ now + s > 0 /\ now' = now /\ s \in Int
      BY <3>1, TimeAssumption DEF Adjust
    <3> QED BY <2>0, <3>2 DEF TypeOK
  <2>2. CASE ~(\E k \in Signer : \E s \in Skews[k] : Adjust(k, s))
    <3>1. skew' = skew
      BY <2>2 DEF Next, Update, Receive, Flush, Crash, Restart, Ask, Answer, Deliver, Fail, Tick, vars
    <3> QED BY <1>1, <2>0, <3>1
  <2> QED BY <2>1, <2>2
<1>3. ASSUME NEW i \in Signer, NEW j \in Signer, call'[i][j] # NoCall
      PROVE  /\ <<i, j>> \in Pulls
             /\ call'[i][j].at >= 1 /\ call'[i][j].at <= now' /\ now' <= call'[i][j].at + Timeout
  <2>0. /\ now \in Nat /\ now >= 1 /\ Timeout \in Nat
        /\ call[i][j] # NoCall => /\ <<i, j>> \in Pulls /\ call[i][j].at \in Nat
                                  /\ call[i][j].at >= 1 /\ call[i][j].at <= now
                                  /\ now <= call[i][j].at + Timeout
    BY CallFacts, TimeoutAssumption DEF Timely, TypeOK
  <2>1. CASE call'[i][j] = call[i][j]
    <3>1. CASE UNCHANGED now
      BY <1>3, <2>0, <2>1, <3>1
    <3>2. CASE now' = now + 1 /\ Tick
      <4>1. now < call[i][j].at + Timeout
        <5>1. <<i, j>> \in Pulls /\ call[i][j] # NoCall
          BY <1>3, <2>0, <2>1
        <5>2. \A p \in Pulls : call[p[1]][p[2]] # NoCall => now < call[p[1]][p[2]].at + Timeout
          BY <3>2 DEF Tick
        <5> QED BY <5>1, <5>2
      <4> QED BY <1>3, <2>0, <2>1, <3>2, <4>1
    <3> QED BY <1>1, <3>1, <3>2
  <2>2. CASE /\ <<i, j>> \in Pulls /\ Ask(i, j)
             /\ call'[i][j] = [pc |-> "serving", at |-> now, now |-> Clock(j)]
    BY <2>0, <2>2 DEF Ask
  <2>3. CASE Answer(i, j)
    <3>1. call[i][j].pc = "serving" /\ call[i][j] # NoCall /\ UNCHANGED now
      BY <2>3, CallFacts DEF Answer
    <3>2. call'[i][j] = Response(j, call[i][j], cursor[i][j])
      BY <2>3 DEF Answer, TypeOK
    <3>3. call'[i][j].at = call[i][j].at
      BY <3>1, <3>2, Responded
    <3> QED BY <2>0, <3>1, <3>3
  <2> QED BY <1>3, <2>1, <2>2, <2>3, NextCalls
<1> QED BY <1>1, <1>2, <1>3 DEF Timely, Clock

LEMMA NextPaged ==
  ASSUME TypeOK, Stamped, Timely, Paged, [Next]_vars
  PROVE  Paged'
<1>1. SUFFICES ASSUME NEW i \in Signer, NEW j \in Signer, call'[i][j].pc = "answer"
               PROVE  LET a == call'[i][j] IN
                      /\ \A r \in Room \ a.rooms : a.rec[r] = {}
                      /\ \A r, q \in a.rooms : a.upd[r] = a.upd[q] => r = q
                      /\ a.more => a.rooms # {}
  BY DEF Paged
<1>2. CASE call'[i][j] = call[i][j]
  BY <1>1, <1>2 DEF Paged
<1>3. CASE Answer(i, j)
  <2> DEFINE a == call'[i][j]
             ms == cursor[i][j]
  <2>1. /\ call[i][j].pc = "serving" /\ a = Response(j, call[i][j], ms) /\ ms \in Nat
    BY <1>3, CallFacts DEF Answer, TypeOK
  <2>2. /\ a.rooms = Page(j, ms) /\ (a.more <=> Cardinality(Changed(j, ms)) > PageSize)
        /\ \A r \in Room : a.rec[r] = IF r \in a.rooms THEN rec[j][r] ELSE {}
        /\ \A r \in a.rooms : a.upd[r] = upd[j][r]
    BY <2>1, Responded
  <2>3. /\ a.rooms \in SUBSET Room /\ (a.more => a.rooms # {})
        /\ \A r \in a.rooms : upd[j][r] > ms
    BY <2>1, <2>2, PageFacts
  <2>4. \A r \in Room : upd[j][r] \in Nat
    BY StoreType
  <2>5. \A r, q \in Room : upd[j][r] = upd[j][q] /\ upd[j][r] # 0 => r = q
    BY DEF Stamped, Orderly, Current
  <2> HIDE DEF a, ms
  <2>6. \A r, q \in a.rooms : a.upd[r] = a.upd[q] => r = q
    BY <2>1, <2>2, <2>3, <2>4, <2>5
  <2> QED BY <2>2, <2>3, <2>6 DEF a
<1>4. CASE call'[i][j] = NoCall \/ call'[i][j] = [pc |-> "serving", at |-> now, now |-> Clock(j)]
  <2>1. NoCall.pc = "idle"
    BY DEF NoCall
  <2> QED BY <1>1, <1>4, <2>1
<1> QED BY <1>2, <1>3, <1>4, NextCalls

\* Later stamps are above a covered cursor, so what is covered stays covered.
LEMMA GrowsCovers ==
  ASSUME TypeOK, TypeOK', Grows, NEW i \in Signer, NEW j \in Signer, NEW c \in Nat,
         NEW got \in Contents, NEW page, c < Stamp(j), Covers(i, j, c, got, page)
  PROVE  Covers(i, j, c, got, page)'
<1>1. /\ Stamp(j) \in Nat /\ Stamp(j) > last[j] /\ last[j] \in Nat /\ now \in Nat
  BY StampType
<1>3. /\ now' \in Nat /\ now <= now' /\ last[j] <= last'[j] /\ last'[j] \in Nat
      /\ disk'[j] = disk[j] \/ disk'[j] = Current(j)'
      /\ \A r \in Room :
           /\ rec[i][r] \subseteq rec'[i][r]
           /\ upd'[j][r] \in Nat
           /\ \/ upd'[j][r] = upd[j][r] /\ rec'[j][r] = rec[j][r]
              \/ Stamp(j) <= upd'[j][r]
  <2>1. /\ now' \in Nat /\ now <= now' /\ GrowsAt(i) /\ GrowsAt(j)
        /\ disk'[j] \in {disk[j], Current(j)'}
    BY DEF Grows
  <2>2. last'[j] \in Nat /\ \A r \in Room : upd'[j][r] \in Nat
    BY DEF TypeOK, Stamps
  <2> QED BY <2>1, <2>2 DEF GrowsAt
<1>5. ASSUME NEW r \in Room
      PROVE  upd'[j][r] <= c => rec'[j][r] \subseteq rec'[i][r] \cup got[r]
  <2>1. upd[j][r] <= c => rec[j][r] \subseteq rec[i][r] \cup got[r]
    BY DEF Covers
  <2> QED BY <1>1, <1>3, <2>1
<1>6. ASSUME NEW r \in Room, page # "midway"
      PROVE  disk'[j].upd[r] <= c => disk'[j].rec[r] \subseteq rec'[i][r] \cup got[r]
  <2>1. CASE disk'[j] = disk[j]
    BY <1>3, <1>6, <2>1 DEF Covers
  <2>2. CASE disk'[j] = Current(j)'
    <3>1. disk'[j].upd = upd'[j] /\ disk'[j].rec = rec'[j]
      BY <2>2 DEF Current
    <3> QED BY <1>5, <3>1
  <2> QED BY <1>3, <2>1, <2>2
<1> QED BY <1>5, <1>6 DEF Covers

\* An answer covers what it leads to.
LEMMA AnswerCovers ==
  ASSUME TypeOK, Stamped, Timely, NEW i \in Signer, NEW j \in Signer,
         call[i][j].pc = "serving", Covers(i, j, cursor[i][j], Empty.rec, paging[i][j]),
         NEW c \in Nat, Leads(Response(j, call[i][j], cursor[i][j]), c)
  PROVE  LET a == Response(j, call[i][j], cursor[i][j]) IN Covers(i, j, c, a.rec, Reached(a))
<1> DEFINE a == Response(j, call[i][j], cursor[i][j])
           ms == cursor[i][j]
<1>1. /\ a.at = call[i][j].at /\ a.rooms = Page(j, ms)
      /\ (a.more <=> Cardinality(Changed(j, ms)) > PageSize)
      /\ \A r \in Room : a.rec[r] = IF r \in a.rooms THEN rec[j][r] ELSE {}
      /\ \A r \in a.rooms : a.upd[r] = upd[j][r]
  BY Responded
<1>2. ms \in Nat /\ call[i][j] # NoCall /\ call[i][j].at \in Nat
  BY CallFacts
<1>3. /\ a.rooms \in SUBSET Room
      /\ ~a.more => \A r \in Room : upd[j][r] > ms => r \in a.rooms
      /\ \A r \in a.rooms, q \in Room : upd[j][q] > ms /\ upd[j][q] <= upd[j][r] => q \in a.rooms
  BY <1>1, <1>2, PageFacts
<1>4. Leads(a, c)
  OBVIOUS
<1>5. /\ a.at <= now /\ now \in Nat /\ last[j] \in Nat
      /\ \A r \in Room : /\ upd[j][r] \in Nat /\ upd[j][r] <= last[j]
                         /\ disk[j].rec[r] \subseteq rec[j][r]
  BY <1>1, <1>2, StoreType DEF Timely, TypeOK, Stamped
<1>6. /\ \A r \in Room : upd[j][r] <= ms => rec[j][r] \subseteq rec[i][r]
  BY DEF Covers, Empty
<1> HIDE DEF a, ms
<1>8. ASSUME NEW r \in Room, r \in a.rooms \/ upd[j][r] <= ms
      PROVE  rec[j][r] \subseteq rec[i][r] \cup a.rec[r]
  BY <1>1, <1>6, <1>8
<1>9. ASSUME NEW r \in Room, upd[j][r] <= c PROVE r \in a.rooms \/ upd[j][r] <= ms
  <2>1. CASE a.more
    <3>1. PICK q \in a.rooms : c = a.upd[q]
      BY <1>4, <2>1 DEF Leads
    <3>2. c = upd[j][q]
      BY <1>1, <3>1
    <3> QED BY <1>2, <1>3, <1>5, <1>9, <3>2
  <2>2. CASE ~a.more
    BY <1>2, <1>3, <1>5, <2>2
  <2> QED BY <2>1, <2>2
<1>10. ASSUME NEW r \in Room, Reached(a) # "midway" PROVE r \in a.rooms \/ upd[j][r] <= ms
  BY <1>2, <1>3, <1>5, <1>10 DEF Reached
<1>11. \A r \in Room : Reached(a) # "midway" => disk[j].rec[r] \subseteq rec[i][r] \cup a.rec[r]
  BY <1>5, <1>8, <1>10
<1>12. Covers(i, j, c, a.rec, Reached(a))
  BY <1>8, <1>9, <1>11 DEF Covers
<1> QED BY <1>12 DEF a, ms

\* A crash of the peer brings back its disk, which is covered too, except midway between
\* two pages; nothing is above the present.
LEMMA CrashCovers ==
  ASSUME TypeOK, NEW k \in Signer, Crash(k), NEW i \in Signer, NEW j \in Signer, i # k,
         NEW c \in Nat, NEW got \in Contents, NEW page, j = k => page # "midway",
         Covers(i, j, c, got, page)
  PROVE  Covers(i, j, c, got, page)'
<1>1. /\ rec' = [rec EXCEPT ![k] = disk[k].rec] /\ upd' = [upd EXCEPT ![k] = disk[k].upd]
      /\ last' = [last EXCEPT ![k] = Highest(disk[k].upd)] /\ UNCHANGED <<now, disk>>
  BY DEF Crash, Restart
<1>2. rec'[i] = rec[i]
  BY <1>1 DEF TypeOK
<1>3. CASE j = k
  <2>1. rec'[j] = disk[j].rec /\ upd'[j] = disk[j].upd /\ disk'[j] = disk[j]
    BY <1>1, <1>3 DEF TypeOK
  <2> QED BY <1>1, <1>2, <1>3, <2>1 DEF Covers
<1>4. CASE j # k
  <2>1. rec'[j] = rec[j] /\ upd'[j] = upd[j] /\ last'[j] = last[j] /\ disk'[j] = disk[j]
    BY <1>1, <1>4 DEF TypeOK
  <2> QED BY <1>1, <1>2, <2>1 DEF Covers
<1> QED BY <1>3, <1>4

LEMMA ZeroCovers ==
  ASSUME TypeOK, Stamped, Timely, NEW i \in Signer, NEW j \in Signer
  PROVE  Covers(i, j, 0, Empty.rec, "done")
<1>1. now \in Nat /\ now >= 1
  BY DEF Timely, TypeOK
<1>2. \A r \in Room : /\ upd[j][r] \in Nat /\ disk[j].upd[r] \in Nat
                      /\ upd[j][r] = 0 => rec[j][r] = {}
                      /\ disk[j].upd[r] = 0 => disk[j].rec[r] = {}
  BY StoreType DEF Stamped, Orderly, Current
<1> QED BY <1>1, <1>2 DEF Covers

\* A pair of signers that a crash of the peer does not tear was not between two pages.
LEMMA CrashTears ==
  ASSUME NEW k \in Signer, Crash(k), NEW i \in Signer, NEW j \in Signer, i # k,
         paging'[i][j] # "torn"
  PROVE  /\ paging'[i][j] = paging[i][j]
         /\ j = k => /\ paging[i][j] # "midway" /\ ~GoneBack(i, j)
                     /\ call[i][j].pc = "answer" => Reached(call[i][j]) # "midway"
<1>1. paging' = [a \in Signer |-> [b \in Signer |->
                   CASE a = k -> "done"
                     [] a # k /\ b = k /\ (Midway(a, b) \/ GoneBack(a, b)) -> "torn"
                     [] OTHER -> paging[a][b]]]
  BY DEF Crash, Restart
<1>2. paging'[i][j] = IF j = k /\ (Midway(i, j) \/ GoneBack(i, j)) THEN "torn"
                                                                ELSE paging[i][j]
  BY <1>1
<1>3. ~(j = k /\ (Midway(i, j) \/ GoneBack(i, j)))
  BY <1>2
<1> QED BY <1>2, <1>3 DEF Midway

\* The points that a request in flight may lead to.
LEMMA EndsOf ==
  ASSUME NEW q
  PROVE  /\ Ends(NoCall) = {}
         /\ q # NoCall /\ q.pc = "answer" /\ q.more => Ends(q) = {q.upd[r] : r \in q.rooms}
         /\ q # NoCall /\ ~(q.pc = "answer" /\ q.more) =>
              Ends(q) = {AtMost(q.now, q.at + Timeout) - Overlap}
BY DEF Ends

LEMMA ReachType ==
  ASSUME TypeOK, NEW i \in Signer, NEW j \in Signer, NEW c \in Reach(i, j)
  PROVE  c \in Int
<1> DEFINE q == call[i][j]
<1>1. /\ cursor[i][j] \in Nat /\ Overlap \in Nat /\ Timeout \in Nat
      /\ q # NoCall => q.at \in Nat /\ q.now \in Nat
      /\ q.pc = "answer" => q.rooms \in SUBSET Room /\ \A r \in Room : q.upd[r] \in Nat
  BY CallFacts, SizeAssumption, TimeoutAssumption
<1>2. c = cursor[i][j] \/ c \in Ends(q)
  BY DEF Reach
<1> HIDE DEF q
<1>3. CASE c \in Ends(q)
  <2>1. q # NoCall
    BY <1>3, EndsOf
  <2>2. CASE q.pc = "answer" /\ q.more
    BY <1>1, <1>3, <2>1, <2>2, EndsOf
  <2>3. CASE ~(q.pc = "answer" /\ q.more)
    <3>1. c = AtMost(q.now, q.at + Timeout) - Overlap
      BY <1>3, <2>1, <2>3, EndsOf
    <3> QED BY <1>1, <2>1, <3>1 DEF AtMost
  <2> QED BY <2>2, <2>3
<1> QED BY <1>1, <1>2, <1>3

\* Where an answer may put the cursor is below whatever is above those points.
LEMMA LeadsBelow ==
  ASSUME TypeOK, NEW i \in Signer, NEW j \in Signer, call[i][j].pc = "answer",
         NEW n \in Nat \ {0}, \A c \in Reach(i, j) : c < n,
         NEW c \in Nat, Leads(call[i][j], c)
  PROVE  c < n
<1> DEFINE q == call[i][j]
<1>1. /\ q # NoCall /\ q.pc = "answer" /\ q.at \in Nat /\ q.now \in Nat
      /\ Overlap \in Nat /\ Timeout \in Nat /\ Leads(q, c)
      /\ \A x \in Ends(q) : x < n
  BY CallFacts, SizeAssumption, TimeoutAssumption DEF Reach
<1> HIDE DEF q
<1>2. CASE q.more
  BY <1>1, <1>2, EndsOf DEF Leads
<1>3. CASE ~q.more
  <2> DEFINE e == AtMost(q.now, q.at + Timeout) - Overlap
  <2>1. e < n /\ e \in Int
    BY <1>1, <1>3, EndsOf DEF AtMost
  <2>2. c = 0 \/ c <= e
    BY <1>1, <1>3 DEF Leads
  <2> HIDE DEF e
  <2> QED BY <2>1, <2>2
<1> QED BY <1>2, <1>3

\* A pair of signers that is not torn by a clock that is set was not passed by it.
LEMMA AdjustTears ==
  ASSUME NEW k \in Signer, NEW s \in Skews[k], Adjust(k, s), NEW i \in Signer, i # k,
         paging'[i][k] # "torn"
  PROVE  ~GoneBack(i, k)
<1>1. paging' = [a \in Signer |-> [b \in Signer |->
                   IF a # k /\ b = k /\ GoneBack(a, b) THEN "torn" ELSE paging[a][b]]]
  BY DEF Adjust
<1>2. paging'[i][k] = IF GoneBack(i, k) THEN "torn" ELSE paging[i][k]
  BY <1>1
<1> QED BY <1>2

\* The peer keeps stamping ahead of the points up to which its changes are taken for
\* known.
LEMMA NextAhead ==
  ASSUME TypeOK, Stamped, Timely, Paged, TypeOK', [Next]_vars,
         Grows \/ \E k \in Signer : Crash(k),
         NEW i \in Signer, NEW j \in Signer, i # j, NeverAhead(i),
         paging'[i][j] # "torn", paging[i][j] # "torn" => Ahead(i, j)
  PROVE  Ahead(i, j)'
<1>1. /\ Stamp(j) \in Nat /\ Stamp(j) > last[j] /\ Stamp(j) >= Clock(j) /\ last[j] \in Nat
      /\ Clock(j) \in Int /\ now \in Nat /\ skew[j] \in Int /\ Overlap \in Nat \ {0} /\ Timeout \in Nat
  BY StampType, SizeAssumption, TimeoutAssumption DEF TypeOK
<1>2. /\ Stamp(j)' = AtLeast(now' + skew'[j], last'[j] + 1) /\ Stamp(j)' \in Nat \ {0}
      /\ now' \in Nat /\ skew'[j] \in Int /\ last'[j] \in Nat
  BY DEF Stamp, Clock, AtLeast, TypeOK
<1>3. ASSUME ~Crash(i) PROVE \A c \in Reach(i, j) : c < Stamp(j)'
  <2>1. CASE Crash(j)
    <3>1. ~GoneBack(i, j)
      BY <2>1, CrashTears
    <3> QED BY <1>2, <3>1, ReachType DEF GoneBack
  <2>2. CASE \E s \in Skews[j] : Adjust(j, s)
    <3>1. ~GoneBack(i, j)
      BY <2>2, AdjustTears
    <3> QED BY <1>2, <3>1, ReachType DEF GoneBack
  <2>3. CASE ~Crash(j) /\ ~(\E s \in Skews[j] : Adjust(j, s))
    <3>1. skew'[j] = skew[j] /\ now <= now'
      <4>1. CASE \E k \in Signer : \E s \in Skews[k] : Adjust(k, s)
        <5>1. PICK k \in Signer : \E s \in Skews[k] : Adjust(k, s)
          BY <4>1
        <5>2. k # j
          BY <2>3, <5>1
        <5> QED BY <1>1, <5>1, <5>2 DEF Adjust, TypeOK
      <4>2. CASE ~(\E k \in Signer : \E s \in Skews[k] : Adjust(k, s))
        <5>1. skew' = skew
          BY <4>2 DEF Next, Update, Receive, Flush, Crash, Restart, Ask, Answer, Deliver, Fail, Tick, vars
        <5>2. now' = now \/ now' = now + 1
          BY NextCalls DEF Tick
        <5> QED BY <1>1, <5>1, <5>2
      <4> QED BY <4>1, <4>2
    <3>2. last[j] <= last'[j]
      <4>1. CASE Grows
        BY <4>1 DEF Grows, GrowsAt
      <4>2. CASE \E k \in Signer : Crash(k)
        <5>1. PICK k \in Signer : Crash(k)
          BY <4>2
        <5>2. k # j
          BY <2>3, <5>1
        <5>3. last' = [last EXCEPT ![k] = Highest(disk[k].upd)]
          BY <5>1 DEF Crash, Restart
        <5> QED BY <1>1, <5>2, <5>3 DEF TypeOK
      <4> QED BY <4>1, <4>2
    <3>3. Stamp(j) <= Stamp(j)'
      <4>1. Stamp(j) = AtLeast(now + skew[j], last[j] + 1)
        BY DEF Stamp, Clock
      <4> QED BY <1>1, <1>2, <3>1, <3>2, <4>1 DEF AtLeast
    <3>4. paging[i][j] # "torn"
      <4>1. CASE Deliver(i, j)
        BY <4>1 DEF Deliver, TypeOK
      <4>2. CASE ~Deliver(i, j)
        BY <1>3, <4>2, NextCalls
      <4> QED BY <4>1, <4>2
    <3>5. ASSUME NEW c \in Reach(i, j) PROVE c < Stamp(j)'
      <4>1. c < Stamp(j) /\ c \in Int
        BY <3>4, ReachType DEF Ahead
      <4> QED BY <1>1, <1>2, <3>3, <4>1
    <3> QED BY <3>5
  <2> QED BY <2>1, <2>2, <2>3
<1>4. SUFFICES ASSUME NEW c, c = cursor'[i][j] \/ c \in Ends(call'[i][j])
               PROVE  c < Stamp(j)'
  <2>1. Ends(call[i][j])' = Ends(call'[i][j])
    BY DEF Ends
  <2> QED BY <2>1 DEF Ahead, Reach
<1>5. CASE c = cursor'[i][j]
  <2>1. CASE cursor'[i][j] = cursor[i][j] /\ ~Crash(i)
    BY <1>3, <1>5, <2>1 DEF Reach
  <2>2. CASE cursor'[i][j] = 0
    BY <1>2, <1>5, <2>2
  <2>3. CASE Deliver(i, j)
    <3>1. call[i][j].pc = "answer" /\ cursor'[i][j] = NextCursor(i, call[i][j]) /\ UNCHANGED crashes
      BY <2>3 DEF Deliver, TypeOK
    <3>2. ~Crash(i)
      BY <3>1 DEF Crash, Restart, TypeOK
    <3>3. NextCursor(i, call[i][j]) \in Nat /\ Leads(call[i][j], NextCursor(i, call[i][j]))
      BY <3>1, CursorMoves
    <3>4. \A x \in Reach(i, j) : x < Stamp(j)'
      BY <1>3, <3>2
    <3> DEFINE n == Stamp(j)'
    <3>5. n \in Nat \ {0} /\ \A x \in Reach(i, j) : x < n
      BY <1>2, <3>4
    <3> HIDE DEF n
    <3>6. NextCursor(i, call[i][j]) < n
      BY <3>1, <3>3, <3>5, LeadsBelow
    <3> QED BY <1>5, <3>1, <3>6 DEF n
  <2> QED BY <2>1, <2>2, <2>3, NextCalls
<1>6. CASE c \in Ends(call'[i][j])
  <2>0. call'[i][j] # NoCall
    BY <1>6, EndsOf
  <2>1. ~Crash(i)
    <3>1. SUFFICES ASSUME Crash(i) PROVE FALSE
      OBVIOUS
    <3>2. call'[i][j] = NoCall
      BY <3>1 DEF Crash, Restart
    <3> QED BY <2>0, <3>2
  <2>2. CASE call'[i][j] = call[i][j]
    BY <1>3, <1>6, <2>1, <2>2 DEF Reach
  <2>3. CASE Ask(i, j) /\ call'[i][j] = [pc |-> "serving", at |-> now, now |-> Clock(j)]
    <3>1. c = AtMost(Clock(j), now + Timeout) - Overlap
      <4> DEFINE q == call'[i][j]
      <4>1. q # NoCall /\ q.pc = "serving" /\ q.at = now /\ q.now = Clock(j) /\ c \in Ends(q)
        BY <1>6, <2>0, <2>3
      <4> HIDE DEF q
      <4> QED BY <4>1, EndsOf
    <3>2. UNCHANGED <<now, skew, last>>
      BY <2>3 DEF Ask
    <3>3. Stamp(j)' = Stamp(j)
      BY <1>2, <3>2 DEF Stamp, Clock
    <3> QED BY <1>1, <3>1, <3>3 DEF AtMost
  <2>4. CASE Answer(i, j)
    <3> DEFINE q == call[i][j]
               a == call'[i][j]
    <3>1. /\ q.pc = "serving" /\ a = Response(j, q, cursor[i][j])
          /\ UNCHANGED <<now, skew, last>>
      BY <2>4 DEF Answer, TypeOK
    <3>2. /\ a # NoCall /\ a.pc = "answer" /\ a.at = q.at /\ a.rooms = Page(j, cursor[i][j])
          /\ \A r \in a.rooms : a.upd[r] = upd[j][r]
      BY <3>1, Responded
    <3>3. a.now = q.now
      BY <3>1 DEF Response
    <3>4. q # NoCall /\ a.rooms \in SUBSET Room /\ \A r \in Room : upd[j][r] \in Nat /\ upd[j][r] <= last[j]
      BY <3>1, <3>2, CallFacts, PageFacts, StoreType DEF Stamped
    <3>5. Stamp(j)' = Stamp(j)
      BY <1>2, <3>1 DEF Stamp, Clock
    <3>6. \A x \in Ends(q) : x < Stamp(j)'
      BY <1>3, <2>1 DEF Reach
    <3>7. c \in Ends(a)
      BY <1>6
    <3> HIDE DEF q, a
    <3>8. CASE a.more
      <4>1. PICK r \in a.rooms : c = upd[j][r]
        BY <3>2, <3>7, <3>8, EndsOf
      <4> QED BY <1>1, <3>4, <3>5, <4>1
    <3>9. CASE ~a.more
      <4>1. c = AtMost(a.now, a.at + Timeout) - Overlap
        BY <3>2, <3>7, <3>9, EndsOf
      <4>2. Ends(q) = {AtMost(q.now, q.at + Timeout) - Overlap}
        BY <3>1, <3>4, EndsOf
      <4> QED BY <3>2, <3>3, <3>6, <4>1, <4>2
    <3> QED BY <3>8, <3>9
  <2> QED BY <2>0, <2>2, <2>3, <2>4, NextCalls
<1> QED BY <1>4, <1>5, <1>6

LEMMA NextCovered ==
  ASSUME IInv, [Next]_vars
  PROVE  Covered'
<1>0. /\ TypeOK /\ Stamped /\ Timely /\ Paged /\ TypeOK' /\ Stamped' /\ Timely' /\ Paged'
      /\ Grows \/ \E i \in Signer : Crash(i)
  BY NextStored, NextTimely, NextPaged DEF IInv
<1>1. SUFFICES ASSUME NEW i \in Signer, NEW j \in Signer, i # j, NeverAhead(i),
                      paging'[i][j] # "torn"
               PROVE  /\ Ahead(i, j)'
                      /\ Covers(i, j, cursor[i][j], Empty.rec, paging[i][j])'
                      /\ call'[i][j].pc = "answer" =>
                           \A c \in Nat : Leads(call'[i][j], c) =>
                             Covers(i, j, c, call[i][j].rec, Reached(call[i][j]))'
  BY DEF Covered
<1>2. /\ cursor[i][j] \in Nat /\ Empty.rec \in Contents
      /\ call[i][j].pc = "answer" => call[i][j].rec \in Contents
      /\ paging[i][j] # "torn" =>
           /\ Ahead(i, j)
           /\ Covers(i, j, cursor[i][j], Empty.rec, paging[i][j])
           /\ call[i][j].pc = "answer" =>
                \A c \in Nat : Leads(call[i][j], c) =>
                  Covers(i, j, c, call[i][j].rec, Reached(call[i][j]))
  BY <1>0, <1>1, CallFacts, EmptyType DEF IInv, Covered, Snapshot
<1>3. ASSUME NEW c \in Nat, NEW got \in Contents, NEW page, Covers(i, j, c, got, page), ~Crash(i),
             Crash(j) => page # "midway", c < Stamp(j)
      PROVE  \A r \in Room :
               /\ upd'[j][r] <= c => rec'[j][r] \subseteq rec'[i][r] \cup got[r]
               /\ page # "midway" /\ disk'[j].upd[r] <= c =>
                    disk'[j].rec[r] \subseteq rec'[i][r] \cup got[r]
  <2>1. CASE Grows
    <3>1. Covers(i, j, c, got, page)'
      BY <1>0, <1>3, <2>1, GrowsCovers
    <3> QED BY <3>1 DEF Covers
  <2>2. CASE \E k \in Signer : Crash(k)
    <3>1. Covers(i, j, c, got, page)'
      BY <1>0, <1>3, <2>2, CrashCovers
    <3> QED BY <3>1 DEF Covers
  <2> QED BY <1>0, <2>1, <2>2
<1>6. Stamp(j) \in Nat \ {0}
  BY <1>0, StampType
<1>7. Ahead(i, j)'
  BY <1>0, <1>1, <1>2, NextAhead
<1>4. Covers(i, j, cursor[i][j], Empty.rec, paging[i][j])'
  <2>1. CASE cursor'[i][j] = cursor[i][j] /\ ~Crash(i) /\ paging'[i][j] \in {paging[i][j], "torn"}
    <3> DEFINE c == cursor[i][j]
               page == paging[i][j]
    <3>1. paging'[i][j] = page /\ cursor'[i][j] = c /\ (Crash(j) => page # "midway")
      BY <1>1, <2>1, CrashTears
    <3>2. Covers(i, j, c, Empty.rec, page) /\ c \in Nat /\ Empty.rec \in Contents /\ c < Stamp(j)
      BY <1>1, <1>2, <3>1 DEF Ahead, Reach
    <3> HIDE DEF c, page
    <3>3. \A r \in Room :
               /\ upd'[j][r] <= c => rec'[j][r] \subseteq rec'[i][r] \cup Empty.rec[r]
               /\ page # "midway" /\ disk'[j].upd[r] <= c =>
                    disk'[j].rec[r] \subseteq rec'[i][r] \cup Empty.rec[r]
      BY <1>3, <2>1, <3>1, <3>2
    <3> QED BY <3>1, <3>3 DEF Covers, Empty
  <2>2. CASE Crash(i) /\ cursor'[i][j] = 0 /\ paging'[i][j] = "done"
    <3>1. now' >= 1 /\ now' \in Nat
      BY <1>0 DEF Timely, TypeOK
    <3>2. disk'[j] \in Snapshot /\ upd'[j] \in Stamps
      BY <1>0 DEF TypeOK
    <3>3. \A r \in Room : upd'[j][r] \in Nat /\ disk'[j].upd[r] \in Nat
      BY <3>2 DEF Snapshot, Stamps
    <3>4. \A r \in Room : /\ upd'[j][r] = 0 => rec'[j][r] = {}
                          /\ disk'[j].upd[r] = 0 => disk'[j].rec[r] = {}
      <4>1. Orderly(Current(j))' /\ Orderly(disk[j])'
        BY <1>0 DEF Stamped
      <4> QED BY <4>1 DEF Orderly, Current
    <3> QED BY <2>2, <3>1, <3>3, <3>4 DEF Covers
  <2>3. CASE Deliver(i, j)
    <3> DEFINE a == call[i][j]
               c == NextCursor(i, a)
               page == Reached(a)
    <3>1. a.pc = "answer" /\ cursor'[i][j] = c /\ UNCHANGED crashes
      BY <1>0, <2>3 DEF Deliver, TypeOK
    <3>2. paging[i][j] # "torn" /\ paging'[i][j] = page
      <4>1. paging'[i][j] = IF paging[i][j] = "torn" THEN paging[i][j] ELSE page
        BY <1>0, <2>3 DEF Deliver, TypeOK
      <4> QED BY <1>1, <4>1
    <3>3. c \in Nat /\ Leads(a, c)
      BY <1>0, <1>1, <3>1, CursorMoves
    <3>4. ~Crash(i) /\ ~Crash(j)
      <4>1. crashes \in Nat /\ \A k \in Signer : Crash(k) => crashes' = crashes + 1
        BY <1>0 DEF Crash, Restart, TypeOK
      <4> QED BY <3>1, <4>1
    <3>5. Covers(i, j, c, a.rec, page) /\ a.rec \in Contents
      BY <1>2, <3>1, <3>2, <3>3
    <3>8. c < Stamp(j)
      BY <1>0, <1>2, <1>6, <3>1, <3>2, <3>3, LeadsBelow DEF Ahead
    <3>6. \A r \in Room : a.rec[r] \subseteq rec'[i][r]
      BY <1>0, <2>3, DeliverStep
    <3> HIDE DEF a, c, page
    <3>7. \A r \in Room :
               /\ upd'[j][r] <= c => rec'[j][r] \subseteq rec'[i][r] \cup a.rec[r]
               /\ page # "midway" /\ disk'[j].upd[r] <= c =>
                    disk'[j].rec[r] \subseteq rec'[i][r] \cup a.rec[r]
      BY <1>3, <3>3, <3>4, <3>5, <3>8
    <3> QED BY <3>1, <3>2, <3>6, <3>7 DEF Covers
  <2> QED BY <1>0, <2>1, <2>2, <2>3, NextCalls
<1>5. ASSUME call'[i][j].pc = "answer", NEW c \in Nat, Leads(call'[i][j], c)
      PROVE  Covers(i, j, c, call[i][j].rec, Reached(call[i][j]))'
  <2>1. NoCall.pc = "idle"
    BY DEF NoCall
  <2>2. ~Crash(i)
    <3>1. SUFFICES ASSUME Crash(i) PROVE FALSE
      OBVIOUS
    <3>2. call'[i][j] = NoCall
      BY <3>1 DEF Crash, Restart
    <3> QED BY <1>5, <2>1, <3>2
  <2>3. paging[i][j] # "torn"
    <3>1. CASE Deliver(i, j)
      BY <1>0, <1>1, <3>1 DEF Deliver, TypeOK
    <3>2. CASE ~Deliver(i, j)
      BY <1>0, <1>1, <2>2, <3>2, NextCalls
    <3> QED BY <3>1, <3>2
  <2>4. CASE call'[i][j] = call[i][j]
    <3> DEFINE a == call[i][j]
               page == Reached(a)
    <3>1. Covers(i, j, c, a.rec, page) /\ a.rec \in Contents
      BY <1>2, <1>5, <2>3, <2>4
    <3>5. c < Stamp(j)
      BY <1>0, <1>2, <1>5, <1>6, <2>3, <2>4, LeadsBelow DEF Ahead
    <3>2. Crash(j) => page # "midway"
      BY <1>1, <1>5, <2>4, CrashTears
    <3>3. call'[i][j] = a /\ Reached(a)' = page
      BY <2>4 DEF Reached
    <3> HIDE DEF a, page
    <3>4. \A r \in Room :
               /\ upd'[j][r] <= c => rec'[j][r] \subseteq rec'[i][r] \cup a.rec[r]
               /\ page # "midway" /\ disk'[j].upd[r] <= c =>
                    disk'[j].rec[r] \subseteq rec'[i][r] \cup a.rec[r]
      BY <1>3, <2>2, <3>1, <3>2, <3>5
    <3> QED BY <2>4, <3>4 DEF Covers, Reached, a, page
  <2>5. CASE Answer(i, j)
    <3>1. /\ call[i][j].pc = "serving" /\ call'[i][j] = Response(j, call[i][j], cursor[i][j])
          /\ UNCHANGED <<now, rec, upd, last, disk>>
      BY <1>0, <2>5 DEF Answer, TypeOK
    <3> DEFINE a == Response(j, call[i][j], cursor[i][j])
    <3>2. Covers(i, j, c, a.rec, Reached(a))
      BY <1>0, <1>2, <1>5, <2>3, <3>1, AnswerCovers
    <3> HIDE DEF a
    <3>3. call'[i][j] = a
      BY <3>1 DEF a
    <3> QED BY <3>1, <3>2, <3>3 DEF Covers, Reached
  <2>6. CASE call'[i][j] = NoCall \/ call'[i][j] = [pc |-> "serving", at |-> now, now |-> Clock(j)]
    BY <1>5, <2>1, <2>6
  <2> QED BY <1>0, <2>4, <2>5, <2>6, NextCalls
<1> QED BY <1>1, <1>4, <1>5, <1>7

LEMMA InitIInv ==
  ASSUME Init PROVE IInv
<1>1. /\ now = 1 /\ skew = [i \in Signer |-> 0] /\ rec = [i \in Signer |-> Empty.rec]
      /\ upd = [i \in Signer |-> Empty.upd] /\ last = [i \in Signer |-> 0]
      /\ disk = [i \in Signer |-> Empty] /\ cursor = [i \in Signer |-> [j \in Signer |-> 0]]
      /\ call = [i \in Signer |-> [j \in Signer |-> NoCall]] /\ pushes = {} /\ made = {}
      /\ crashes = 0 /\ paging = [i \in Signer |-> [j \in Signer |-> "done"]]
  BY DEF Init
<1>2. Empty \in Snapshot /\ Empty.rec \in Contents /\ Empty.upd \in Stamps /\ NoCall \in Call
  BY EmptyType DEF Snapshot, Call
<1>3. TypeOK
  BY <1>1, <1>2 DEF TypeOK
<1>4. \A r \in Room : Empty.rec[r] = {} /\ Empty.upd[r] = 0
  BY DEF Empty
<1>5. Stamped
  BY <1>1, <1>4 DEF Stamped, Orderly, Current
<1>6. Timely
  BY <1>1, TimeAssumption DEF Timely, Clock
<1>7. NoCall.pc = "idle" /\ \A i, j \in Signer : /\ call[i][j] = NoCall /\ cursor[i][j] = 0
                                                    /\ paging[i][j] = "done"
  BY <1>1 DEF NoCall
<1>8. Paged
  BY <1>7 DEF Paged
<1>9. \A i, j \in Signer : Ahead(i, j)
  BY <1>3, <1>7, StampType, EndsOf DEF Ahead, Reach
<1>10. Covered
  BY <1>3, <1>5, <1>6, <1>7, <1>9, ZeroCovers DEF Covered
<1> QED BY <1>3, <1>5, <1>6, <1>8, <1>10 DEF IInv

\* PeerSync's variables keep their types: above all, every answer has a page, every
\* page a last record, and no cursor is below zero (since, pullPage, load).
THEOREM Typed == Spec => []TypeOK
<1>1. Init => IInv
  BY InitIInv
<1>2. IInv /\ [Next]_vars => IInv'
  BY NextStored, NextTimely, NextPaged, NextCovered DEF IInv
<1>3. IInv => TypeOK
  BY DEF IInv
<1> QED BY <1>1, <1>2, <1>3, PTL DEF Spec

\* A signer whose clock is not ahead never skips a change of a peer, whatever pushes,
\* requests and saves fail, for any number of pages, whether the peer's clock is ahead,
\* behind or corrected, and for any crashes: except while the pair is torn, by a crash
\* of the peer between two pages, or by the peer going back to or behind a point that
\* the signer has passed (pullPage, handleSync, stamp, load).
THEOREM CursorIsSafe == Spec => []CursorSafe
<1>1. Init => IInv
  BY InitIInv
<1>2. IInv /\ [Next]_vars => IInv'
  BY NextStored, NextTimely, NextPaged, NextCovered DEF IInv
<1>3. IInv => CursorSafe
  BY DEF IInv, Covered, Covers, CursorSafe, Empty
<1> QED BY <1>1, <1>2, <1>3, PTL DEF Spec
=============================================================================
