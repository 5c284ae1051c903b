---------------------------- MODULE SignersProofs ----------------------------
(***************************************************************************)
(* Safety of the signers for any number of signers, clients and links, any *)
(* configuration, any number of faults and no bound on time.               *)
(*                                                                         *)
(* The inductive invariant says of every copy of the record (in memory, on *)
(* disk, in a push) what RoomRecordProofs shows merge to preserve, and     *)
(* ties memory to disk and to the index.                                   *)
(***************************************************************************)
EXTENDS Signers, RoomRecordProofs

CopiesGood ==
  /\ \A i \in Signer : GoodRecord(rec[i]) /\ GoodRecord(disk[i])
  /\ \A m \in net : GoodRecord(m.rec) /\ Known(m.rec)

\* A deletion on disk is also in memory.
DeletedInMemory == \A i \in Signer : disk[i].Revoked # 0 => rec[i].Revoked # 0

StoreType ==
  /\ legacy \in Kinds
  /\ rec \in [Signer -> Record]
  /\ idx \in [Signer -> SUBSET Hash]
  /\ disk \in [Signer -> Record]
  /\ dirty \in [Signer -> BOOLEAN]
  /\ net \in SUBSET Message
  /\ faults \in Nat
  /\ dropped \in BOOLEAN

ControlType ==
  /\ wedged \in [Signer -> BOOLEAN]
  /\ now \in Nat \ {0}
  /\ req \in [Client -> Request \cup {NoRequest}]
  /\ drawn \in SUBSET Link
  /\ tokens \in SUBSET Token

StoreInv == StoreType /\ CopiesGood /\ IndexExact /\ DeletedInMemory

IInv == StoreInv /\ ControlType

\* What is shown of every step: the invariant holds after it, and a deletion on
\* disk is still there.
DeletionKept == \A i \in Signer : disk[i].Revoked # 0 => disk'[i].Revoked # 0

StoreStep == StoreInv' /\ DeletionKept

Step == StoreStep /\ ControlType'

-----------------------------------------------------------------------------
(* The records that handlers pass to update *)

\* The empty record is good.
LEMMA BlankGood == Blank \in Record /\ GoodRecord(Blank)
<1>1. NoSecrets \in SecretMap
  BY DEF NoSecrets, SecretMap
<1>2. Blank \in Record
  BY <1>1 DEF Blank, Record, ZeroGen, Generation
<1> QED BY <1>2 DEF Blank, GoodRecord, SecretsFit, Known, NoSecrets

\* A reservation or migration writes a good record.
LEMMA ReservationGood ==
  ASSUME NEW t \in Nat \ {0}, NEW exp \in Nat, NEW b \in BOOLEAN
  PROVE  LET r == Reservation(t, exp, b)
         IN r \in Record /\ GoodRecord(r) /\ Known(r)
<1> DEFINE r == Reservation(t, exp, b)
<1>1. ZeroGen \in Generation
  BY DEF ZeroGen, Generation
<1>2. LinkSecrets(FirstLink, ZeroGen) \in SecretMap
  BY <1>1 DEF LinkSecrets, SecretMap
<1>3. r \in Record /\ Known(r)
  BY <1>1, <1>2 DEF Reservation, Record, Known
<1>4. /\ r.Gen = ZeroGen
      /\ \A h \in Hash : r.Secrets[h] = IF h[1] = FirstLink THEN ZeroGen ELSE NoGen
  BY DEF Reservation, LinkSecrets
<1>5. SecretsFit(r)
  BY <1>1, <1>4, TieAssumption DEF SecretsFit, GenLess, ZeroGen
<1>6. Holds(r, FirstLink)
  BY <1>4 DEF Holds
<1> QED BY <1>3, <1>5, <1>6, LinkAssumption DEF GoodRecord

\* Raising the expiry keeps a record good.
LEMMA ExpiresGood ==
  ASSUME NEW r \in Record, GoodRecord(r), NEW e \in Nat
  PROVE  LET s == [r EXCEPT !.Expires = e]
         IN s \in Record /\ GoodRecord(s) /\ (Known(s) <=> Known(r))
BY DEF Record, GoodRecord, SecretsFit, Known, Holds

\* An extension keeps a record good.
LEMMA ExtendedGood ==
  ASSUME NEW r \in Record, GoodRecord(r), NEW d \in Nat, NEW t \in Nat
  PROVE  LET s == Extended(r, d, t, MaxAhead)
         IN s \in Record /\ GoodRecord(s) /\ (Known(s) <=> Known(r))
<1> DEFINE capped == IF r.Expires + d < t + MaxAhead THEN r.Expires + d ELSE t + MaxAhead
<1>1. r.Expires \in Nat /\ MaxAhead \in Nat
  BY ConfigAssumption DEF Record
<1>2. capped \in Nat
  BY <1>1
<1>3. Latest(r.Expires, capped) \in Nat
  BY <1>1, <1>2 DEF Latest
<1>4. Extended(r, d, t, MaxAhead) = [r EXCEPT !.Expires = Latest(r.Expires, capped)]
  BY DEF Extended, Record
<1> QED BY <1>3, <1>4, ExpiresGood

\* A rotation writes both secrets of a generation above all others.
LEMMA RotatedGood ==
  ASSUME NEW r \in Record, GoodRecord(r), Known(r), NEW l \in Link
  PROVE  LET s == Rotated(r, l) IN s \in Record /\ GoodRecord(s) /\ Known(s)
<1> DEFINE g == NextGen(r.Gen, l)
           s == Rotated(r, l)
<1>1. g \in Generation
  BY TieAssumption DEF NextGen, Record, Generation
<1>2. s.Gen = g /\ s.Created = r.Created /\ s.Revoked = r.Revoked
  BY DEF Rotated, Record
<1>3. \A h \in Hash : s.Secrets[h] = IF h[1] = l THEN g ELSE r.Secrets[h]
  BY DEF Rotated, Record
<1>4. s \in Record
  <2>1. [h \in Hash |-> IF h[1] = l THEN g ELSE r.Secrets[h]] \in SecretMap
    BY <1>1 DEF Record, SecretMap
  <2> QED BY <1>1, <2>1 DEF Rotated, Record
<1>5. SecretsFit(s)
  <2> SUFFICES ASSUME NEW h \in Hash, s.Secrets[h] # NoGen
               PROVE  ~GenLess(g, s.Secrets[h]) /\ s.Secrets[h].tie = Tie[h[1]]
    BY <1>2 DEF SecretsFit
  <2>1. CASE h[1] = l
    BY <1>1, <1>3, <2>1 DEF NextGen, GenLess, Generation
  <2>2. CASE h[1] # l
    <3>1. s.Secrets[h] = r.Secrets[h]
      BY <1>3, <2>2
    <3>2. ~GenLess(r.Gen, r.Secrets[h]) /\ r.Secrets[h].tie = Tie[h[1]]
      BY <3>1 DEF GoodRecord, SecretsFit
    <3>3. r.Gen \in GenOrNone /\ r.Secrets[h] \in GenOrNone /\ g \in GenOrNone
      BY <1>1 DEF Record, SecretMap, GenOrNone
    <3>4. ~GenLess(g, r.Gen)
      BY <3>3, GenShape DEF NextGen, GenLess
    <3>5. ~GenLess(g, r.Secrets[h])
      BY <3>2, <3>3, <3>4, GenTransitive
    <3> QED BY <3>1, <3>2, <3>5
  <2> QED BY <2>1, <2>2
<1>6. Holds(s, l)
  BY <1>2, <1>3 DEF Holds
<1>7. Known(s)
  BY <1>2 DEF Known
<1> QED BY <1>4, <1>5, <1>6, <1>7 DEF GoodRecord

\* A deletion keeps the secrets and is never live.
LEMMA TombstoneGood ==
  ASSUME NEW r \in Record, GoodRecord(r), NEW t \in Nat \ {0}
  PROVE  LET s == Tombstone(r, t)
         IN s \in Record /\ GoodRecord(s) /\ Known(s) /\ s.Revoked # 0
<1> DEFINE base == IF Known(r) THEN r ELSE [Blank EXCEPT !.Created = t, !.Legacy = TRUE]
           s == Tombstone(r, t)
<1>1. base \in Record /\ SecretsFit(base) /\ Known(base)
  <2>1. CASE Known(r)
    BY <2>1 DEF GoodRecord
  <2>2. CASE ~Known(r)
    BY <2>2, BlankGood DEF GoodRecord, SecretsFit, Blank, Record, Known
  <2> QED BY <2>1, <2>2
<1>2. s = [base EXCEPT !.Revoked = IF base.Revoked = 0 THEN t ELSE base.Revoked]
  BY <1>1 DEF Tombstone, Record
<1>3. s \in Record /\ s.Revoked # 0 /\ Known(s) /\ SecretsFit(s)
  BY <1>1, <1>2 DEF Record, Known, SecretsFit
<1> QED BY <1>3 DEF GoodRecord

\* What gc leaves is good, and stays deleted if it was.
LEMMA CollectedGood ==
  ASSUME NEW r \in Record, GoodRecord(r)
  PROVE  LET s == Collected(r)
         IN s \in Record /\ GoodRecord(s) /\ (s.Revoked # 0 <=> r.Revoked # 0)
                         /\ Held(s.Secrets) = {}
<1>1. NoSecrets \in SecretMap /\ Held(NoSecrets) = {}
  BY DEF NoSecrets, SecretMap, Held
<1>2. CASE r.Revoked # 0
  <2>1. Collected(r) = [r EXCEPT !.Secrets = NoSecrets]
    BY <1>2 DEF Collected
  <2> QED BY <1>1, <1>2, <2>1 DEF GoodRecord, SecretsFit, Known, Record, NoSecrets
<1>3. CASE r.Revoked = 0
  BY <1>1, <1>3, BlankGood DEF Collected, Blank
<1> QED BY <1>2, <1>3

-----------------------------------------------------------------------------
(* The operations of the store *)

\* index, given the hashes the room had in the index before, leaves exactly the
\* ones the record holds.
LEMMA IndexFollows ==
  ASSUME NEW before \in SUBSET Hash, NEW r \in Record
  PROVE  /\ Index(before, r, before) = Held(r.Secrets)
         /\ Index({}, r, {}) = Held(r.Secrets)
         /\ Held(r.Secrets) \in SUBSET Hash
BY DEF Index, Held

\* update preserves the store's invariant if the handler's record is good.
LEMMA UpdateStep ==
  ASSUME StoreInv, NEW i \in Signer, NEW saved \in BOOLEAN,
         NEW next \in Record, GoodRecord(next), Known(next),
         Update(i, next, saved)
  PROVE  StoreStep
<1> DEFINE stored == Merge(rec[i], next)
<1> USE DEF StoreInv, StoreType
<1>1. rec[i] \in Record /\ GoodRecord(rec[i])
  BY DEF CopiesGood
<1>2. stored \in Record /\ GoodRecord(stored) /\ Known(stored)
  BY <1>1, MergeType, MergeGood
<1>3. /\ rec' = [rec EXCEPT ![i] = stored]
      /\ idx' = [idx EXCEPT ![i] = Index(idx[i], stored, Held(rec[i].Secrets))]
      /\ disk' = IF saved THEN [disk EXCEPT ![i] = stored] ELSE disk
      /\ dirty' = [dirty EXCEPT ![i] = ~saved]
      /\ net' = net \cup {[from |-> i, rec |-> stored]}
      /\ faults' \in {faults, faults + 1}
      /\ dropped' = dropped /\ legacy' = legacy
  BY DEF Update, Save, Fault
<1>10. /\ Index(idx[i], stored, Held(rec[i].Secrets)) = Held(stored.Secrets)
       /\ Held(stored.Secrets) \in SUBSET Hash
  <2>1. idx[i] = Held(rec[i].Secrets) /\ idx[i] \in SUBSET Hash
    BY DEF IndexExact
  <2>2. /\ Index(idx[i], stored, idx[i]) = Held(stored.Secrets)
        /\ Held(stored.Secrets) \in SUBSET Hash
    BY <1>2, <2>1, IndexFollows
  <2> QED BY <2>1, <2>2
<1>4. StoreType'
  <2>2. [from |-> i, rec |-> stored] \in Message
    BY <1>2 DEF Message
  <2> QED BY <1>2, <1>3, <1>10, <2>2
<1>5. CopiesGood'
  BY <1>2, <1>3 DEF CopiesGood
<1>6. IndexExact'
  BY <1>2, <1>3, <1>10 DEF IndexExact
<1>7. DeletedInMemory'
  <2>1. rec[i].Revoked # 0 => stored.Revoked # 0
    BY <1>1 DEF Merge, Earliest, Record
  <2> QED BY <1>3, <2>1 DEF DeletedInMemory
<1>9. DeletionKept
  <2>1. rec[i].Revoked # 0 => stored.Revoked # 0
    BY <1>1 DEF Merge, Earliest, Record
  <2> QED BY <1>3, <2>1 DEF DeletionKept, DeletedInMemory
<1> QED BY <1>4, <1>5, <1>6, <1>7, <1>9 DEF StoreStep

\* mergeRemote preserves it for any good copy.
LEMMA MergeRemoteStep ==
  ASSUME IInv, NEW i \in Signer,
         NEW o \in Record, GoodRecord(o), Known(o),
         MergeRemote(i, o)
  PROVE  Step
<1> DEFINE stored == Merge(rec[i], o)
<1> USE DEF IInv, StoreInv, StoreType
<1>1. rec[i] \in Record /\ GoodRecord(rec[i])
  BY DEF CopiesGood
<1>2. stored \in Record /\ GoodRecord(stored)
  BY <1>1, MergeType, MergeGood
<1>3. /\ rec' = [rec EXCEPT ![i] = stored]
      /\ idx' = [idx EXCEPT ![i] = Index(idx[i], stored, Held(rec[i].Secrets))]
      /\ dirty' = [dirty EXCEPT ![i] = TRUE]
      /\ UNCHANGED <<legacy, disk, wedged, net, now, req, drawn, tokens, faults, dropped>>
  BY DEF MergeRemote
<1>10. /\ Index(idx[i], stored, Held(rec[i].Secrets)) = Held(stored.Secrets)
       /\ Held(stored.Secrets) \in SUBSET Hash
  <2>1. idx[i] = Held(rec[i].Secrets) /\ idx[i] \in SUBSET Hash
    BY DEF IndexExact
  <2>2. /\ Index(idx[i], stored, idx[i]) = Held(stored.Secrets)
        /\ Held(stored.Secrets) \in SUBSET Hash
    BY <1>2, <2>1, IndexFollows
  <2> QED BY <2>1, <2>2
<1>4. StoreType'
  BY <1>2, <1>3, <1>10
<1>5. CopiesGood'
  BY <1>2, <1>3 DEF CopiesGood
<1>6. IndexExact'
  BY <1>2, <1>3, <1>10 DEF IndexExact
<1>7. DeletedInMemory'
  <2>1. rec[i].Revoked # 0 => stored.Revoked # 0
    BY <1>1 DEF Merge, Earliest, Record
  <2> QED BY <1>3, <2>1 DEF DeletedInMemory
<1>8. ControlType'
  BY <1>3 DEF ControlType
<1>9. DeletionKept
  BY <1>3 DEF DeletionKept
<1> QED BY <1>4, <1>5, <1>6, <1>7, <1>8, <1>9 DEF Step, StoreStep

\* gc preserves it.
LEMMA GcStep ==
  ASSUME IInv, NEW i \in Signer, NEW saved \in BOOLEAN, Gc(i, saved)
  PROVE  Step
<1> DEFINE left == IF Collectable(rec[i]) THEN Collected(rec[i]) ELSE rec[i]
<1> USE DEF IInv, StoreInv, StoreType
<1>1. rec[i] \in Record /\ GoodRecord(rec[i])
  BY DEF CopiesGood
<1>2. left \in Record /\ GoodRecord(left) /\ (rec[i].Revoked # 0 => left.Revoked # 0)
  BY <1>1, CollectedGood
<1>3. /\ rec' = [rec EXCEPT ![i] = left]
      /\ idx' = [idx EXCEPT ![i] =
                   IF Collectable(rec[i]) THEN idx[i] \ Held(rec[i].Secrets) ELSE idx[i]]
      /\ disk' = IF saved THEN [disk EXCEPT ![i] = left] ELSE disk
      /\ dirty' = [dirty EXCEPT ![i] = ~saved]
      /\ faults' \in {faults, faults + 1}
      /\ dropped' \in BOOLEAN
      /\ UNCHANGED <<legacy, wedged, net, now, req, drawn, tokens>>
  BY DEF Gc, Save, Fault, Forget
<1>4. StoreType'
  BY <1>2, <1>3
<1>5. CopiesGood'
  BY <1>2, <1>3 DEF CopiesGood
<1>6. IndexExact'
  <2>1. Collectable(rec[i]) => Held(left.Secrets) = {}
    BY <1>1, CollectedGood
  <2> QED BY <1>3, <2>1 DEF IndexExact
<1>7. DeletedInMemory'
  BY <1>2, <1>3 DEF DeletedInMemory
<1>8. ControlType'
  BY <1>3 DEF ControlType
<1>9. DeletionKept
  BY <1>2, <1>3 DEF DeletionKept, DeletedInMemory
<1> QED BY <1>4, <1>5, <1>6, <1>7, <1>8, <1>9 DEF Step, StoreStep

\* A crash and restart preserve it.
LEMMA CrashStep ==
  ASSUME IInv, NEW i \in Signer, Crash(i)
  PROVE  Step
<1> DEFINE loaded == [disk[i] EXCEPT !.Secrets = Prune(@)]
<1> USE DEF IInv, StoreInv, StoreType
<1>1. disk[i] \in Record /\ GoodRecord(disk[i])
  BY DEF CopiesGood
<1>2. loaded \in Record /\ GoodRecord(loaded) /\ loaded.Revoked = disk[i].Revoked
  BY <1>1, LoadGood DEF Record
<1>3. /\ rec' = [rec EXCEPT ![i] = loaded]
      /\ idx' = [idx EXCEPT ![i] = Index({}, loaded, {})]
      /\ dirty' = [dirty EXCEPT ![i] = FALSE]
      /\ wedged' = [wedged EXCEPT ![i] = FALSE]
      /\ req' = [c \in Client |-> IF ~Idle(c) /\ req[c].at = i THEN NoRequest
                                                              ELSE req[c]]
      /\ faults' = faults + 1
      /\ UNCHANGED <<legacy, disk, net, now, drawn, tokens, dropped>>
  BY DEF Crash, Fault
<1>4. StoreType'
  BY <1>2, <1>3, IndexFollows
<1>5. CopiesGood'
  BY <1>2, <1>3 DEF CopiesGood
<1>6. IndexExact'
  BY <1>2, <1>3, IndexFollows DEF IndexExact
<1>7. DeletedInMemory'
  BY <1>2, <1>3 DEF DeletedInMemory
<1>8. ControlType'
  BY <1>3 DEF ControlType
<1>9. DeletionKept
  BY <1>3 DEF DeletionKept
<1> QED BY <1>4, <1>5, <1>6, <1>7, <1>8, <1>9 DEF Step, StoreStep

-----------------------------------------------------------------------------
(* The handlers *)

\* After keeps requests well formed.
LEMMA AfterType ==
  ASSUME NEW q \in Request, NEW r \in Record
  PROVE  After(q, r) \in Request \cup {NoRequest}
BY DEF After, Request

\* Mint keeps tokens well formed.
LEMMA MintType ==
  ASSUME NEW q \in Request, NEW r \in Record, tokens \in SUBSET Token, Mint(q, r)
  PROVE  tokens' \in SUBSET Token
<1>1. [link |-> q.link, gen |-> r.Gen] \in Token
  BY DEF Token, Request, Record, Role
<1> QED BY <1>1 DEF Mint

\* A step that leaves the store and the pushes alone preserves its invariant.
LEMMA StoreUnchanged ==
  ASSUME StoreInv, UNCHANGED <<store, net>>
  PROVE  StoreStep
BY DEF store, StoreStep, DeletionKept, StoreInv, StoreType, CopiesGood, IndexExact, DeletedInMemory

\* handleReserve preserves the invariant.
LEMMA ReserveStep ==
  ASSUME IInv, NEW i \in Signer, NEW d \in Durations, NEW saved \in BOOLEAN,
         Reserve(i, d, saved)
  PROVE  Step
<1>1. now \in Nat \ {0} /\ now + d \in Nat
  BY ConfigAssumption DEF IInv, ControlType
<1>2. StoreStep
  BY <1>1, ReservationGood, UpdateStep DEF Reserve, IInv
<1>3. ControlType'
  BY LinkAssumption DEF Reserve, IInv, ControlType
<1> QED BY <1>2, <1>3 DEF Step, IInv

\* resolve with a host secret preserves the invariant.
LEMMA ResolveStep ==
  ASSUME IInv, NEW c \in Client, NEW i \in Signer, NEW op \in OpKind, NEW l \in Link,
         Resolve(c, i, op, l)
  PROVE  Step
<1> DEFINE q == [pc |-> "update", op |-> op, at |-> i, link |-> l, t |-> now, exp |-> 0]
<1>1. q \in Request /\ rec[i] \in Record
  BY DEF Request, IInv, ControlType, StoreInv, StoreType
<1>2. After(q, rec[i]) \in Request \cup {NoRequest}
  BY <1>1, AfterType
<1>3. StoreStep
  BY StoreUnchanged DEF Resolve, IInv
<1>4. ControlType'
  BY <1>2 DEF Resolve, IInv, ControlType
<1> QED BY <1>3, <1>4 DEF Step, IInv

\* handleJoin preserves the invariant.
LEMMA JoinStep ==
  ASSUME IInv, NEW i \in Signer, NEW h \in Hash, Join(i, h)
  PROVE  Step
<1>1. [link |-> h[1], gen |-> rec[i].Gen] \in Token
  BY DEF Token, Hash, IInv, StoreInv, StoreType, Record
<1>2. StoreStep
  BY StoreUnchanged DEF Join, IInv
<1>3. ControlType'
  BY <1>1 DEF Join, IInv, ControlType
<1> QED BY <1>2, <1>3 DEF Step, IInv

\* resolve with a v1 host token preserves the invariant.
LEMMA ResolveV1Step ==
  ASSUME IInv, NEW c \in Client, NEW i \in Signer, NEW op \in OpKind,
         NEW e \in TokenExps, ResolveV1(c, i, op, e)
  PROVE  Step
<1> DEFINE exp == Min2(e, NameExp + LegacyMaxExt)
           q == [pc |-> "update", op |-> op, at |-> i, link |-> FirstLink,
                 t |-> now, exp |-> exp]
<1>1. exp \in Nat
  BY ConfigAssumption DEF Min2
<1>2. q \in Request /\ rec[i] \in Record
  BY <1>1, LinkAssumption DEF Request, IInv, ControlType, StoreInv, StoreType
<1>3. /\ After(q, rec[i]) \in Request \cup {NoRequest}
      /\ [q EXCEPT !.pc = "bump"] \in Request
      /\ [q EXCEPT !.pc = "migrate"] \in Request
  BY <1>2, AfterType DEF Request
<1>4. StoreStep
  BY StoreUnchanged DEF ResolveV1, IInv
<1>5. req' \in [Client -> Request \cup {NoRequest}]
  BY <1>3 DEF ResolveV1, IInv, ControlType
<1>6. tokens' \in SUBSET Token
  BY <1>2, MintType DEF ResolveV1, IInv, ControlType
<1> QED BY <1>4, <1>5, <1>6 DEF Step, ResolveV1, IInv, ControlType

\* The update that raises a v1 record's expiry preserves the invariant.
LEMMA BumpStep ==
  ASSUME IInv, NEW c \in Client, NEW saved \in BOOLEAN, Bump(c, saved)
  PROVE  Step
<1> DEFINE q == req[c]
           i == q.at
           next == [rec[i] EXCEPT !.Expires = q.exp]
<1>1. q \in Request /\ i \in Signer
  BY DEF Bump, IInv, ControlType, Request, NoRequest
<1>2. rec[i] \in Record /\ GoodRecord(rec[i])
  BY <1>1 DEF IInv, StoreInv, StoreType, CopiesGood
<1>3. /\ next \in Record /\ GoodRecord(next) /\ (Known(next) <=> Known(rec[i]))
      /\ Merge(rec[i], next) \in Record
  BY <1>1, <1>2, ExpiresGood, MergeType DEF Request
<1>4. CASE ~Known(rec[i])
  <2>1. UNCHANGED <<store, net, tokens, now, drawn>> /\ Finish(c)
        /\ wedged' = [wedged EXCEPT ![i] = TRUE]
    BY <1>4 DEF Bump
  <2>2. StoreStep
    BY <2>1, StoreUnchanged DEF IInv
  <2> QED BY <2>1, <2>2 DEF Step, IInv, ControlType, Finish
<1>5. CASE Known(rec[i])
  <2>1. /\ Update(i, next, saved) /\ Mint(q, Merge(rec[i], next))
        /\ req' = [req EXCEPT ![c] = After(q, Merge(rec[i], next))]
        /\ UNCHANGED <<wedged, now, drawn>>
    BY <1>5 DEF Bump
  <2>2. StoreStep
    BY <1>1, <1>3, <1>5, <2>1, UpdateStep DEF IInv
  <2>3. tokens' \in SUBSET Token
    BY <1>1, <1>3, <2>1, MintType DEF IInv, ControlType
  <2>4. After(q, Merge(rec[i], next)) \in Request \cup {NoRequest}
    BY <1>1, <1>3, AfterType
  <2> QED BY <2>1, <2>2, <2>3, <2>4 DEF Step, IInv, ControlType
<1> QED BY <1>4, <1>5

\* The update that creates a v1 record preserves the invariant.
LEMMA MigrateStep ==
  ASSUME IInv, NEW c \in Client, NEW saved \in BOOLEAN, Migrate(c, saved)
  PROVE  Step
<1> DEFINE q == req[c]
           i == q.at
           next == Reservation(q.t, q.exp, TRUE)
<1>1. q \in Request /\ i \in Signer
  BY DEF Migrate, IInv, ControlType, Request, NoRequest
<1>2. next \in Record /\ GoodRecord(next) /\ Known(next)
  BY <1>1, ReservationGood DEF Request
<1>3. Merge(rec[i], next) \in Record
  BY <1>1, <1>2, MergeType DEF IInv, StoreInv, StoreType
<1>4. StoreStep
  BY <1>1, <1>2, UpdateStep DEF Migrate, IInv
<1>5. tokens' \in SUBSET Token
  BY <1>1, <1>3, MintType DEF Migrate, IInv, ControlType
<1>6. After(q, Merge(rec[i], next)) \in Request \cup {NoRequest}
  BY <1>1, <1>3, AfterType
<1> QED BY <1>4, <1>5, <1>6 DEF Step, Migrate, IInv, ControlType

\* The update of handleExtend preserves the invariant.
LEMMA ExtendStep ==
  ASSUME IInv, NEW c \in Client, NEW d \in Durations, NEW saved \in BOOLEAN,
         Extend(c, d, saved)
  PROVE  Step
<1> DEFINE i == req[c].at
<1>1. req[c] \in Request /\ i \in Signer
  BY DEF Extend, Pending, IInv, ControlType, Request, NoRequest
<1>2. rec[i] \in Record /\ GoodRecord(rec[i]) /\ Known(rec[i])
  BY <1>1 DEF Extend, IInv, StoreInv, StoreType, CopiesGood
<1>3. d \in Nat /\ req[c].t \in Nat
  BY <1>1, ConfigAssumption DEF Request
<1>4. StoreStep
  BY <1>1, <1>2, <1>3, ExtendedGood, UpdateStep DEF Extend, IInv
<1> QED BY <1>4 DEF Step, Extend, Finish, IInv, ControlType

\* The update of handleRotate preserves the invariant.
LEMMA RotateStep ==
  ASSUME IInv, NEW c \in Client, NEW l \in Link, NEW saved \in BOOLEAN,
         Rotate(c, l, saved)
  PROVE  Step
<1> DEFINE i == req[c].at
<1>1. req[c] \in Request /\ i \in Signer
  BY DEF Rotate, Pending, IInv, ControlType, Request, NoRequest
<1>2. rec[i] \in Record /\ GoodRecord(rec[i]) /\ Known(rec[i])
  BY <1>1 DEF Rotate, IInv, StoreInv, StoreType, CopiesGood
<1>3. StoreStep
  BY <1>1, <1>2, RotatedGood, UpdateStep DEF Rotate, IInv
<1> QED BY <1>3 DEF Step, Rotate, Finish, IInv, ControlType

\* revoke preserves the store's invariant.
LEMMA RevokeStep ==
  ASSUME IInv, NEW i \in Signer, NEW t \in Nat \ {0}, NEW saved \in BOOLEAN,
         Revoke(i, t, saved)
  PROVE  StoreStep
<1>1. rec[i] \in Record /\ GoodRecord(rec[i])
  BY DEF IInv, StoreInv, StoreType, CopiesGood
<1> QED BY <1>1, TombstoneGood, UpdateStep DEF Step, Revoke, IInv

\* The update of handleDelete preserves the invariant.
LEMMA DeleteStep ==
  ASSUME IInv, NEW c \in Client, NEW saved \in BOOLEAN, Delete(c, saved)
  PROVE  Step
<1>1. req[c] \in Request
  BY DEF Delete, Pending, IInv, ControlType, Request, NoRequest
<1>2. StoreStep
  BY <1>1, RevokeStep DEF Delete, Request
<1> QED BY <1>2 DEF Step, Delete, Finish, IInv, ControlType

\* handleAdminRevoke preserves the invariant.
LEMMA AdminRevokeStep ==
  ASSUME IInv, NEW i \in Signer, NEW saved \in BOOLEAN, AdminRevoke(i, saved)
  PROVE  Step
<1>1. StoreStep
  BY RevokeStep DEF AdminRevoke, IInv, ControlType
<1> QED BY <1>1 DEF Step, AdminRevoke, IInv, ControlType

-----------------------------------------------------------------------------
(* The specification *)

\* Empty stores satisfy the invariant.
LEMMA InitIInv == Init => IInv
<1> SUFFICES ASSUME Init PROVE IInv
  OBVIOUS
<1>1. StoreType
  BY BlankGood DEF Init, StoreType
<1>2. CopiesGood
  BY BlankGood DEF Init, CopiesGood
<1>3. IndexExact
  BY DEF Init, IndexExact, Blank, NoSecrets, Held
<1>4. DeletedInMemory
  BY DEF Init, DeletedInMemory, Blank
<1>5. ControlType
  BY LinkAssumption DEF Init, ControlType
<1> QED BY <1>1, <1>2, <1>3, <1>4, <1>5 DEF IInv, StoreInv

\* Every step preserves it and keeps deletions.
LEMMA NextStep == IInv /\ [Next]_vars => Step
<1> SUFFICES ASSUME IInv, [Next]_vars PROVE Step
  OBVIOUS
<1>1. CASE \E i \in Signer, s \in BOOLEAN : \E d \in Durations : Reserve(i, d, s)
  BY <1>1, ReserveStep
<1>2. CASE \E i \in Signer, s \in BOOLEAN : AdminRevoke(i, s)
  BY <1>2, AdminRevokeStep
<1>3. CASE \E i \in Signer, s \in BOOLEAN : Gc(i, s)
  BY <1>3, GcStep
<1>4. CASE \E c \in Client, i \in Signer, op \in Ops \ {"reserve", "revoke", "join"},
             l \in Link : Resolve(c, i, op, l)
  BY <1>4, ResolveStep, ConfigAssumption
<1>5. CASE \E c \in Client, i \in Signer, op \in Ops \ {"reserve", "revoke"},
             e \in TokenExps : ResolveV1(c, i, op, e)
  BY <1>5, ResolveV1Step, ConfigAssumption
<1>6. CASE \E c \in Client, s \in BOOLEAN : Bump(c, s)
  BY <1>6, BumpStep
<1>7. CASE \E c \in Client, s \in BOOLEAN : Migrate(c, s)
  BY <1>7, MigrateStep
<1>8. CASE \E c \in Client, s \in BOOLEAN : \E d \in Durations : Extend(c, d, s)
  BY <1>8, ExtendStep
<1>9. CASE \E c \in Client, s \in BOOLEAN : \E l \in Link : Rotate(c, l, s)
  BY <1>9, RotateStep
<1>10. CASE \E c \in Client, s \in BOOLEAN : Delete(c, s)
  BY <1>10, DeleteStep
<1>11. CASE \E c \in Client : Refuse(c)
  <2>1. StoreStep
    BY <1>11, StoreUnchanged DEF Refuse, IInv
  <2> QED BY <1>11, <2>1 DEF Step, Refuse, Finish, IInv, ControlType
<1>12. CASE \E i \in Signer, h \in Hash : Join(i, h)
  BY <1>12, JoinStep
<1>13. CASE \E i \in Signer, m \in net : Receive(i, m)
  <2>1. PICK i \in Signer, m \in net : Receive(i, m)
    BY <1>13
  <2>2. m.rec \in Record /\ GoodRecord(m.rec) /\ Known(m.rec)
    BY DEF IInv, StoreInv, StoreType, CopiesGood, Message
  <2> QED BY <2>1, <2>2, MergeRemoteStep DEF Receive
<1>14. CASE \E i, j \in Signer : Pull(i, j)
  <2>1. PICK i \in Signer, j \in Signer : Pull(i, j)
    BY <1>14
  <2>2. rec[j] \in Record /\ GoodRecord(rec[j])
    BY DEF IInv, StoreInv, StoreType, CopiesGood
  <2> QED BY <2>1, <2>2, MergeRemoteStep DEF Pull
<1>15. CASE \E i \in Signer : Crash(i)
  BY <1>15, CrashStep
<1>16. CASE Tick
  <2>1. StoreStep
    BY <1>16, StoreUnchanged DEF Tick, IInv
  <2> QED BY <1>16, <2>1 DEF Step, Tick, IInv, ControlType
<1>17. CASE UNCHANGED vars
  <2>1. StoreStep
    BY <1>17, StoreUnchanged DEF vars, store, IInv
  <2> QED BY <1>17, <2>1 DEF Step, vars, IInv, ControlType
<1> QED BY <1>1, <1>2, <1>3, <1>4, <1>5, <1>6, <1>7, <1>8, <1>9, <1>10, <1>11,
           <1>12, <1>13, <1>14, <1>15, <1>16, <1>17 DEF Next

\* The inductive invariant holds in every reachable state.
THEOREM Invariance == Spec => []IInv
<1>1. IInv /\ [Next]_vars => IInv'
  BY NextStep DEF Step, StoreStep, IInv
<1> QED BY <1>1, InitIInv, PTL DEF Spec

\* Types are respected whatever the handlers, the peers and the faults do.
THEOREM TypeCorrect == Spec => []TypeOK
<1>1. IInv => TypeOK
  BY ConfigAssumption DEF IInv, StoreInv, StoreType, ControlType, TypeOK
<1> QED BY <1>1, Invariance, PTL

\* No interleaving of rotations, merges, prunes, crashes and lost pushes leaves
\* a live record without a working host and speaker link.
THEOREM NobodyLockedOut == Spec => []NeverLockedOut
<1>1. ASSUME NEW r \in Record, GoodRecord(r) PROVE HasLinks(r)
  <2> SUFFICES ASSUME Known(r), r.Revoked = 0
               PROVE  \E l \in Link : Current(r, <<l, "host">>)
                                      /\ Current(r, <<l, "speaker">>)
    BY DEF HasLinks
  <2>1. PICK l \in Link : Holds(r, l)
    BY <1>1 DEF GoodRecord
  <2>2. <<l, "host">> \in Hash /\ <<l, "speaker">> \in Hash
    BY DEF Hash, Role
  <2>3. r.Secrets[<<l, "host">>] = r.Gen /\ r.Secrets[<<l, "speaker">>] = r.Gen
    BY <2>1, <2>2 DEF Holds
  <2>4. r.Gen # NoGen
    BY <1>1, NoGenLowest DEF Record
  <2> QED BY <2>3, <2>4 DEF Current
<1>2. IInv => NeverLockedOut
  <2> SUFFICES ASSUME IInv PROVE NeverLockedOut
    OBVIOUS
  <2>1. \A i \in Signer : /\ rec[i] \in Record /\ disk[i] \in Record
                          /\ GoodRecord(rec[i]) /\ GoodRecord(disk[i])
    BY DEF IInv, StoreInv, StoreType, CopiesGood
  <2>2. \A m \in net : m.rec \in Record /\ GoodRecord(m.rec)
    BY DEF IInv, StoreInv, StoreType, CopiesGood, Message
  <2> QED BY <1>1, <2>1, <2>2 DEF NeverLockedOut
<1> QED BY <1>2, Invariance, PTL

\* Signers that agree on the generation accept the links of one rotation only.
THEOREM OneRotationWins == Spec => []OneWinner
<1>1. IInv => OneWinner
  <2> SUFFICES ASSUME IInv, NEW i \in Signer, NEW j \in Signer, rec[i].Gen = rec[j].Gen,
                      NEW g \in Hash, NEW h \in Hash,
                      Current(rec[i], g), Current(rec[j], h)
               PROVE  g[1] = h[1]
    BY DEF OneWinner
  <2>1. SecretsFit(rec[i]) /\ SecretsFit(rec[j])
    BY DEF IInv, StoreInv, CopiesGood, GoodRecord
  <2>2. Tie[g[1]] = Tie[h[1]]
    BY <2>1 DEF SecretsFit, Current
  <2>3. g[1] \in Link /\ h[1] \in Link
    BY DEF Hash
  <2> QED BY <2>2, <2>3, TieAssumption
<1> QED BY <1>1, Invariance, PTL

\* The secret index of every signer is exact.
THEOREM IndexIsExact == Spec => []IndexExact
<1>1. IInv => IndexExact
  BY DEF IInv, StoreInv
<1> QED BY <1>1, Invariance, PTL

\* A deletion on a signer's disk is final: no step removes it from the disk or
\* leaves the signer with a live record.
THEOREM DeletionIsFinal == Spec => DeletionSticks
<1> DEFINE Kept == \A i \in Signer : disk[i].Revoked # 0 =>
                     disk'[i].Revoked # 0 /\ rec'[i].Revoked # 0
<1>1. IInv /\ [Next]_vars => [Kept]_vars
  <2> SUFFICES ASSUME IInv, [Next]_vars PROVE Kept
    OBVIOUS
  <2>1. DeletionKept /\ DeletedInMemory'
    BY NextStep DEF Step, StoreStep, StoreInv
  <2> QED BY <2>1 DEF DeletionKept, DeletedInMemory
<1>2. [][Kept]_vars => DeletionSticks
  BY PTL DEF DeletionSticks
<1> QED BY <1>1, <1>2, Invariance, PTL DEF Spec

-----------------------------------------------------------------------------
(* What the store keeps: a second invariant, about sizes, times and kinds of *)
(* records, and about the requests in flight                                 *)

\* A record reaches no further than n allows.
InTime(r, n) == r.Expires <= Latest(n + MaxAhead, LegacyLimit(r))

\* Every record of a v1 room says so.
SameKind(r, k) == k /\ Known(r) => r.Legacy

\* What update may be handed at time n, and what every stored copy satisfies.
InputFits(r, n, k) == r \in FiniteRecord /\ InTime(r, n) /\ SameKind(r, k)

CopyFits(r, n, k) == InputFits(r, n, k) /\ Bounded(r)

CopiesFit ==
  /\ \A i \in Signer : CopyFits(rec[i], now, legacy) /\ CopyFits(disk[i], now, legacy)
  /\ \A m \in net : CopyFits(m.rec, now, legacy)

\* A request is not from the future and not older than MaxHold; what a v1
\* request will write is inside the v1 window.
RequestFits(q, n, k) ==
  q.pc # "idle" =>
    /\ q.t <= n /\ n <= q.t + MaxHold
    /\ q.pc \in {"bump", "migrate"} => k /\ q.exp <= NameExp + LegacyMaxExt
    /\ q.pc = "migrate" => q.t < NameExp + LegacyMaxExt

RequestsFit == \A c \in Client : RequestFits(req[c], now, legacy)

\* gc drops a v1 record only when its whole window is Keep in the past.
DroppedLate == dropped => NameExp + LegacyMaxExt + Keep < now

TokensFit == ~legacy => TokensMatchLinks

KeptInv == CopiesFit /\ CleanMeansSaved /\ DroppedLate

JInv == KeptInv /\ RequestsFit /\ TokensFit

\* What is shown of every step besides: the stored record moves forward.
Forward ==
  \A i \in Signer : \/ rec'[i] = rec[i]
                    \/ Merge(rec[i], rec'[i]) = rec'[i]
                    \/ rec'[i] = disk[i]
                    \/ rec'[i] = Collected(rec[i])

KeptStep == KeptInv' /\ Forward /\ legacy' = legacy

\* The constants as numbers.
LEMMA Numbers ==
  /\ MaxAhead \in Nat /\ NameExp \in Nat /\ LegacyMaxExt \in Nat
  /\ Keep \in Nat /\ MaxHold \in Nat /\ MaxHold <= Keep
  /\ \A d \in Durations : d \in Nat /\ d <= MaxAhead
  /\ \A e \in TokenExps : e \in Nat
BY ConfigAssumption

\* The end of a v1 room's window is a time.
LEMMA LimitType ==
  ASSUME NEW r \in FiniteRecord
  PROVE  LegacyLimit(r) \in Nat /\ (r.Legacy => LegacyLimit(r) = NameExp + LegacyMaxExt)
BY Numbers DEF LegacyLimit

\* What fits now fits later.
LEMMA FitsLater ==
  ASSUME NEW r, NEW k, NEW n \in Nat, NEW m \in Nat, n <= m
  PROVE  /\ InputFits(r, n, k) => InputFits(r, m, k)
         /\ CopyFits(r, n, k) => CopyFits(r, m, k)
<1>1. ASSUME InputFits(r, n, k) PROVE InputFits(r, m, k)
  <2>1. r.Expires \in Nat /\ LegacyLimit(r) \in Nat /\ MaxAhead \in Nat
    BY <1>1, RecordFields, LimitType, Numbers DEF InputFits
  <2> HIDE DEF LegacyLimit
  <2>2. r.Expires <= Latest(n + MaxAhead, LegacyLimit(r))
    BY <1>1 DEF InputFits, InTime
  <2>3. Latest(n + MaxAhead, LegacyLimit(r)) <= Latest(m + MaxAhead, LegacyLimit(r))
        /\ Latest(m + MaxAhead, LegacyLimit(r)) \in Nat
        /\ Latest(n + MaxAhead, LegacyLimit(r)) \in Nat
    BY <2>1 DEF Latest
  <2> QED BY <1>1, <2>1, <2>2, <2>3 DEF InputFits, InTime
<1> QED BY <1>1 DEF CopyFits

\* Merging two copies that fit gives one that fits, and moves forward.
LEMMA MergeFits ==
  ASSUME NEW k, NEW n \in Nat, NEW r, InputFits(r, n, k), NEW o, InputFits(o, n, k)
  PROVE  CopyFits(Merge(r, o), n, k) /\ Merge(r, Merge(r, o)) = Merge(r, o)
<1> DEFINE m == Merge(r, o)
<1>1. /\ r \in FiniteRecord /\ o \in FiniteRecord
      /\ InTime(r, n) /\ InTime(o, n) /\ SameKind(r, k) /\ SameKind(o, k)
  BY DEF InputFits
<1>2. m \in FiniteRecord /\ Bounded(m) /\ Merge(r, m) = m
  BY <1>1, MergeBounds, MergeAbsorbs
<1>3. InTime(m, n)
  <2>1. /\ r.Expires \in Nat /\ o.Expires \in Nat
        /\ r.Legacy \in BOOLEAN /\ o.Legacy \in BOOLEAN
    BY <1>1, RecordFields
  <2>2. m.Expires = Latest(r.Expires, o.Expires) /\ m.Legacy = (r.Legacy \/ o.Legacy)
    BY DEF Merge
  <2>3. n + MaxAhead \in Nat /\ NameExp + LegacyMaxExt \in Nat
    BY Numbers
  <2>4. LegacyLimit(r) <= LegacyLimit(m) /\ LegacyLimit(o) <= LegacyLimit(m)
        /\ LegacyLimit(r) \in Nat /\ LegacyLimit(o) \in Nat /\ LegacyLimit(m) \in Nat
    BY <2>1, <2>2, <2>3 DEF LegacyLimit
  <2>5. /\ r.Expires <= Latest(n + MaxAhead, LegacyLimit(r))
        /\ o.Expires <= Latest(n + MaxAhead, LegacyLimit(o))
    BY <1>1 DEF InTime
  <2> HIDE DEF LegacyLimit, m
  <2> QED BY <2>1, <2>2, <2>3, <2>4, <2>5 DEF InTime, Latest
<1>4. SameKind(m, k)
  <2>1. m.Legacy = (r.Legacy \/ o.Legacy) /\ (Known(m) => Known(r) \/ Known(o))
    BY <1>1, RecordFields DEF Merge, Known, Earliest
  <2> QED BY <1>1, <2>1 DEF SameKind
<1> QED BY <1>2, <1>3, <1>4 DEF CopyFits, InputFits

-----------------------------------------------------------------------------
(* The records that handlers pass to update fit *)

\* Two secrets are finitely many.
LEMMA LinkIsFinite ==
  ASSUME NEW l \in Link
  PROVE  IsFiniteSet({h \in Hash : h[1] = l})
<1>1. {h \in Hash : h[1] = l} \subseteq {<<l, "host">>, <<l, "speaker">>}
  BY DEF Hash, Role
<1>2. IsFiniteSet({<<l, "host">>} \cup {<<l, "speaker">>})
  BY FS_Singleton, FS_Union
<1>3. {<<l, "host">>} \cup {<<l, "speaker">>} = {<<l, "host">>, <<l, "speaker">>}
  OBVIOUS
<1> QED BY <1>1, <1>2, <1>3, FS_Subset

\* The empty record fits at any time.
LEMMA BlankFits ==
  ASSUME NEW k, NEW n \in Nat
  PROVE  CopyFits(Blank, n, k)
<1>1. Held(NoSecrets) = {}
  BY DEF Held, NoSecrets
<1>2. Finite(NoSecrets) /\ Cardinality(Held(NoSecrets)) <= MaxSecrets
  BY <1>1, FS_EmptySet, MaxSecretsAssumption DEF Finite
<1>3. Blank \in FiniteRecord /\ Bounded(Blank)
  BY <1>2, BlankGood DEF FiniteRecord, Bounded, Blank
<1>4. InTime(Blank, n)
  BY Numbers DEF InTime, Latest, LegacyLimit, Blank
<1>5. SameKind(Blank, k)
  BY DEF SameKind, Known, Blank
<1> QED BY <1>3, <1>4, <1>5 DEF CopyFits, InputFits

\* A reservation's or a migration's record fits if its expiry does.
LEMMA ReservationFits ==
  ASSUME NEW k, NEW n \in Nat, NEW t \in Nat \ {0}, NEW exp \in Nat, NEW b \in BOOLEAN,
         k => b,
         exp <= n + MaxAhead \/ (b /\ exp <= NameExp + LegacyMaxExt)
  PROVE  InputFits(Reservation(t, exp, b), n, k)
<1> DEFINE r == Reservation(t, exp, b)
<1>1. r \in Record
  BY ReservationGood
<1>2. Held(r.Secrets) \subseteq {h \in Hash : h[1] = FirstLink}
  BY DEF Held, Reservation, LinkSecrets
<1>3. Finite(r.Secrets)
  BY <1>2, LinkIsFinite, LinkAssumption, FS_Subset DEF Finite
<1>4. r.Expires = exp /\ r.Legacy = b
  BY DEF Reservation
<1> HIDE DEF r
<1>5. InTime(r, n)
  BY <1>4, Numbers DEF InTime, Latest, LegacyLimit
<1>6. SameKind(r, k)
  BY <1>4 DEF SameKind
<1>7. InputFits(r, n, k)
  BY <1>1, <1>3, <1>5, <1>6 DEF InputFits, FiniteRecord
<1> QED BY <1>7 DEF r

\* A v1 record whose expiry moves inside the v1 window fits.
LEMMA BumpFits ==
  ASSUME NEW k, NEW n \in Nat, NEW r, InputFits(r, n, k), r.Legacy, NEW e \in Nat,
         e <= NameExp + LegacyMaxExt
  PROVE  InputFits([r EXCEPT !.Expires = e], n, k)
<1> DEFINE s == [r EXCEPT !.Expires = e]
<1>1. r \in FiniteRecord
  BY DEF InputFits
<1>2. s \in FiniteRecord /\ s.Expires = e /\ s.Legacy = r.Legacy
  BY <1>1 DEF FiniteRecord, Record
<1> HIDE DEF s
<1>3. InTime(s, n)
  BY <1>2, Numbers DEF InTime, Latest, LegacyLimit
<1>4. InputFits(s, n, k)
  BY <1>2, <1>3 DEF InputFits, SameKind
<1> QED BY <1>4 DEF s

\* handleExtend's record fits: the cap is at MaxAhead past an earlier clock.
LEMMA ExtendedFits ==
  ASSUME NEW k, NEW n \in Nat, NEW r, InputFits(r, n, k), NEW d \in Nat, NEW t \in Nat, t <= n
  PROVE  InputFits(Extended(r, d, t, MaxAhead), n, k)
<1> DEFINE capped == IF r.Expires + d < t + MaxAhead THEN r.Expires + d ELSE t + MaxAhead
           s == Extended(r, d, t, MaxAhead)
<1>1. r \in FiniteRecord /\ r.Expires \in Nat /\ r \in Record
  BY RecordFields DEF InputFits
<1>2. capped \in Nat /\ capped <= n + MaxAhead
  BY <1>1, Numbers
<1>3. s = [r EXCEPT !.Expires = Latest(r.Expires, capped)]
  BY <1>1 DEF Extended, Record
<1> HIDE DEF capped, s
<1>4. Latest(r.Expires, capped) \in Nat
  BY <1>1, <1>2 DEF Latest
<1>5. /\ s \in FiniteRecord /\ s.Expires = Latest(r.Expires, capped)
      /\ s.Legacy = r.Legacy /\ s.Created = r.Created
  BY <1>1, <1>3, <1>4 DEF FiniteRecord, Record
<1>6. InTime(s, n)
  <2>1. r.Expires <= Latest(n + MaxAhead, LegacyLimit(r)) /\ LegacyLimit(s) = LegacyLimit(r)
    BY <1>5 DEF InputFits, InTime, LegacyLimit
  <2>2. LegacyLimit(r) \in Nat /\ n + MaxAhead \in Nat
    BY <1>1, LimitType, Numbers
  <2> HIDE DEF LegacyLimit
  <2>3. Latest(r.Expires, capped) <= Latest(n + MaxAhead, LegacyLimit(r))
    BY <1>1, <1>2, <2>1, <2>2 DEF Latest
  <2> QED BY <1>5, <2>1, <2>3 DEF InTime
<1>7. SameKind(s, k)
  BY <1>5 DEF InputFits, SameKind, Known
<1>8. InputFits(s, n, k)
  BY <1>5, <1>6, <1>7 DEF InputFits
<1> QED BY <1>8 DEF s

\* handleRotate's record fits: two more secrets, the same times.
LEMMA RotatedFits ==
  ASSUME NEW k, NEW n \in Nat, NEW r, InputFits(r, n, k), GoodRecord(r), Known(r), NEW l \in Link
  PROVE  InputFits(Rotated(r, l), n, k)
<1> DEFINE s == Rotated(r, l)
<1>1. r \in FiniteRecord /\ r \in Record /\ Finite(r.Secrets)
  BY RecordFields DEF InputFits
<1>2. s \in Record
  BY <1>1, RotatedGood
<1>3. Held(s.Secrets) \subseteq Held(r.Secrets) \cup {h \in Hash : h[1] = l}
  BY <1>1 DEF Held, Rotated, Record, SecretMap
<1>4. IsFiniteSet(Held(r.Secrets) \cup {h \in Hash : h[1] = l})
  BY <1>1, LinkIsFinite, FS_Union DEF Finite
<1>5. Finite(s.Secrets)
  BY <1>3, <1>4, FS_Subset DEF Finite
<1>6. s.Expires = r.Expires /\ s.Legacy = r.Legacy /\ s.Created = r.Created
  BY <1>1 DEF Rotated, Record
<1> HIDE DEF s
<1>7. InputFits(s, n, k)
  BY <1>2, <1>5, <1>6 DEF InputFits, FiniteRecord, InTime, LegacyLimit, SameKind, Known
<1> QED BY <1>7 DEF s

\* A tombstone fits: burying an unknown v1 room writes no expiry at all.
LEMMA TombstoneFits ==
  ASSUME NEW k, NEW n \in Nat, NEW r, InputFits(r, n, k), GoodRecord(r), NEW t \in Nat \ {0}
  PROVE  InputFits(Tombstone(r, t), n, k)
<1> DEFINE s == Tombstone(r, t)
<1>1. r \in FiniteRecord /\ r \in Record /\ Finite(r.Secrets)
  BY RecordFields DEF InputFits
<1>2. s \in Record
  BY <1>1, TombstoneGood
<1>3. CASE Known(r)
  <2>1. /\ s.Expires = r.Expires /\ s.Legacy = r.Legacy /\ s.Created = r.Created
        /\ s.Secrets = r.Secrets
    BY <1>1, <1>3 DEF Tombstone, Record
  <2> HIDE DEF s
  <2>2. InputFits(s, n, k)
    BY <1>1, <1>2, <2>1 DEF InputFits, FiniteRecord, InTime, LegacyLimit, SameKind, Known
  <2> QED BY <2>2 DEF s
<1>4. CASE ~Known(r)
  <2>1. s.Expires = 0 /\ s.Legacy = TRUE /\ s.Secrets = NoSecrets
    BY <1>4 DEF Tombstone, Blank
  <2>2. Finite(NoSecrets)
    BY BlankFits DEF CopyFits, Bounded, Blank
  <2> HIDE DEF s
  <2>3. InTime(s, n)
    BY <2>1, Numbers DEF InTime, Latest, LegacyLimit
  <2>4. InputFits(s, n, k)
    BY <1>2, <2>1, <2>2, <2>3 DEF InputFits, FiniteRecord, SameKind
  <2> QED BY <2>4 DEF s
<1> QED BY <1>3, <1>4

\* What gc leaves fits.
LEMMA CollectedFits ==
  ASSUME NEW k, NEW n \in Nat, NEW r, CopyFits(r, n, k)
  PROVE  CopyFits(Collected(r), n, k)
<1>1. CASE r.Revoked # 0
  <2> DEFINE s == [r EXCEPT !.Secrets = NoSecrets]
  <2>1. r \in FiniteRecord /\ r \in Record
    BY RecordFields DEF CopyFits, InputFits
  <2>2. Blank \in FiniteRecord /\ Bounded(Blank)
    BY BlankFits DEF CopyFits, InputFits
  <2>3. Finite(NoSecrets) /\ NoSecrets \in SecretMap /\ Cardinality(Held(NoSecrets)) <= MaxSecrets
    BY <2>2, RecordFields DEF Bounded, Blank
  <2>4. /\ s \in Record /\ s.Expires = r.Expires /\ s.Legacy = r.Legacy
        /\ s.Created = r.Created /\ s.Secrets = NoSecrets
    BY <2>1, <2>3 DEF Record
  <2> HIDE DEF s
  <2>5. CopyFits(s, n, k)
    BY <2>3, <2>4 DEF CopyFits, InputFits, FiniteRecord, InTime, LegacyLimit, SameKind, Known, Bounded
  <2> QED BY <1>1, <2>5 DEF s, Collected
<1>2. CASE r.Revoked = 0
  BY <1>2, BlankFits DEF Collected
<1> QED BY <1>1, <1>2

-----------------------------------------------------------------------------
(* Every operation keeps the second invariant *)

\* update stores, saves and pushes a copy that fits, and moves forward.
LEMMA UpdateKeeps ==
  ASSUME IInv, JInv, NEW i \in Signer, NEW saved \in BOOLEAN,
         NEW next, InputFits(next, now, legacy), Update(i, next, saved), now' = now
  PROVE  KeptStep
<1> DEFINE stored == Merge(rec[i], next)
<1> USE DEF JInv, KeptInv
<1>1. now \in Nat /\ InputFits(rec[i], now, legacy)
  BY DEF IInv, ControlType, CopiesFit, CopyFits
<1>2. CopyFits(stored, now, legacy) /\ Merge(rec[i], stored) = stored
  BY <1>1, MergeFits
<1>3. /\ rec' = [rec EXCEPT ![i] = stored]
      /\ disk' = IF saved THEN [disk EXCEPT ![i] = stored] ELSE disk
      /\ dirty' = [dirty EXCEPT ![i] = ~saved]
      /\ net' = net \cup {[from |-> i, rec |-> stored]}
      /\ dropped' = dropped /\ legacy' = legacy
  BY DEF Update, Save
<1>4. /\ rec \in [Signer -> Record] /\ disk \in [Signer -> Record]
      /\ dirty \in [Signer -> BOOLEAN]
  BY DEF IInv, StoreInv, StoreType
<1> HIDE DEF stored
<1>5. \A j \in Signer : rec'[j] = IF j = i THEN stored ELSE rec[j]
  BY <1>3, <1>4
<1>6. CopiesFit'
  BY <1>2, <1>3, <1>4, <1>5 DEF CopiesFit
<1>7. CleanMeansSaved'
  BY <1>3, <1>4, <1>5 DEF CleanMeansSaved
<1>8. DroppedLate'
  BY <1>3 DEF DroppedLate
<1>9. Forward
  BY <1>2, <1>5 DEF Forward
<1> QED BY <1>3, <1>6, <1>7, <1>8, <1>9 DEF KeptStep

\* mergeRemote leaves the store dirty and moves forward.
LEMMA MergeRemoteKeeps ==
  ASSUME IInv, JInv, NEW i \in Signer, NEW o, InputFits(o, now, legacy), MergeRemote(i, o)
  PROVE  KeptStep
<1> DEFINE stored == Merge(rec[i], o)
<1> USE DEF JInv, KeptInv
<1>1. now \in Nat /\ InputFits(rec[i], now, legacy)
  BY DEF IInv, ControlType, CopiesFit, CopyFits
<1>2. CopyFits(stored, now, legacy) /\ Merge(rec[i], stored) = stored
  BY <1>1, MergeFits
<1>3. /\ rec' = [rec EXCEPT ![i] = stored]
      /\ dirty' = [dirty EXCEPT ![i] = TRUE]
      /\ UNCHANGED <<legacy, disk, net, now, dropped>>
  BY DEF MergeRemote
<1>4. rec \in [Signer -> Record] /\ dirty \in [Signer -> BOOLEAN]
  BY DEF IInv, StoreInv, StoreType
<1> HIDE DEF stored
<1>5. \A j \in Signer : rec'[j] = IF j = i THEN stored ELSE rec[j]
  BY <1>3, <1>4
<1>6. CopiesFit'
  BY <1>2, <1>3, <1>5 DEF CopiesFit
<1>7. CleanMeansSaved'
  BY <1>3, <1>4, <1>5 DEF CleanMeansSaved
<1>8. DroppedLate'
  BY <1>3 DEF DroppedLate
<1>9. Forward
  BY <1>2, <1>5 DEF Forward
<1> QED BY <1>3, <1>6, <1>7, <1>8, <1>9 DEF KeptStep

\* gc drops a v1 record only after its window.
LEMMA GcKeeps ==
  ASSUME IInv, JInv, NEW i \in Signer, NEW saved \in BOOLEAN, Gc(i, saved)
  PROVE  KeptStep
<1> DEFINE left == IF Collectable(rec[i]) THEN Collected(rec[i]) ELSE rec[i]
<1> USE DEF JInv, KeptInv
<1>1. now \in Nat /\ CopyFits(rec[i], now, legacy)
  BY DEF IInv, ControlType, CopiesFit
<1>2. CopyFits(left, now, legacy) /\ (left = rec[i] \/ left = Collected(rec[i]))
  BY <1>1, CollectedFits
<1>3. /\ rec' = [rec EXCEPT ![i] = left]
      /\ disk' = IF saved THEN [disk EXCEPT ![i] = left] ELSE disk
      /\ dirty' = [dirty EXCEPT ![i] = ~saved]
      /\ dropped' = (dropped \/ (legacy /\ Known(rec[i]) /\ ~Known(left)))
      /\ UNCHANGED <<legacy, net, now>>
  BY DEF Gc, Save
<1>4. /\ rec \in [Signer -> Record] /\ disk \in [Signer -> Record]
      /\ dirty \in [Signer -> BOOLEAN]
  BY DEF IInv, StoreInv, StoreType
<1>5. ASSUME legacy, Known(rec[i]), ~Known(left)
      PROVE  NameExp + LegacyMaxExt + Keep < now
  <2>1. Collectable(rec[i]) /\ rec[i].Legacy
    BY <1>1, <1>5 DEF CopyFits, InputFits, SameKind
  <2>2. rec[i] \in FiniteRecord /\ rec[i].Expires \in Nat /\ rec[i].Revoked \in Nat
    BY <1>1, RecordFields DEF CopyFits, InputFits
  <2>3. LegacyLimit(rec[i]) = NameExp + LegacyMaxExt
    BY <2>1 DEF LegacyLimit
  <2> QED BY <1>1, <2>1, <2>2, <2>3, Numbers DEF Collectable, Latest
<1> HIDE DEF left
<1>6. \A j \in Signer : rec'[j] = IF j = i THEN left ELSE rec[j]
  BY <1>3, <1>4
<1>7. CopiesFit'
  BY <1>2, <1>3, <1>4, <1>6 DEF CopiesFit
<1>8. CleanMeansSaved'
  BY <1>3, <1>4, <1>6 DEF CleanMeansSaved
<1>9. DroppedLate'
  BY <1>3, <1>5 DEF DroppedLate
<1>10. Forward
  BY <1>2, <1>6 DEF Forward
<1> QED BY <1>3, <1>7, <1>8, <1>9, <1>10 DEF KeptStep

\* load finds a file that is small enough already: memory is exactly the disk.
LEMMA CrashKeeps ==
  ASSUME IInv, JInv, NEW i \in Signer, Crash(i)
  PROVE  JInv' /\ Forward
<1> USE DEF JInv, KeptInv
<1>1. now \in Nat /\ CopyFits(disk[i], now, legacy)
  BY DEF IInv, ControlType, CopiesFit
<1>2. disk[i] \in FiniteRecord /\ Bounded(disk[i])
  BY <1>1 DEF CopyFits, InputFits
<1>3. [disk[i] EXCEPT !.Secrets = Prune(@)] = disk[i]
  <2>1. Prune(disk[i].Secrets) = disk[i].Secrets /\ disk[i] \in Record
    BY <1>2, MergeSelf, RecordFields
  <2> QED BY <2>1 DEF Record
<1>4. /\ rec' = [rec EXCEPT ![i] = disk[i]]
      /\ dirty' = [dirty EXCEPT ![i] = FALSE]
      /\ req' = [c \in Client |-> IF ~Idle(c) /\ req[c].at = i THEN NoRequest
                                                              ELSE req[c]]
      /\ UNCHANGED <<legacy, disk, net, now, drawn, tokens, dropped>>
  BY <1>3 DEF Crash
<1>5. rec \in [Signer -> Record] /\ dirty \in [Signer -> BOOLEAN]
  BY DEF IInv, StoreInv, StoreType
<1>6. \A j \in Signer : rec'[j] = IF j = i THEN disk[j] ELSE rec[j]
  BY <1>4, <1>5
<1>7. CopiesFit'
  BY <1>1, <1>4, <1>6 DEF CopiesFit
<1>8. CleanMeansSaved'
  BY <1>4, <1>5, <1>6 DEF CleanMeansSaved
<1>9. DroppedLate'
  BY <1>4 DEF DroppedLate
<1>10. RequestsFit'
  BY <1>4 DEF RequestsFit, RequestFits, NoRequest
<1>11. TokensFit'
  BY <1>4 DEF TokensFit, TokensMatchLinks
<1>12. Forward
  BY <1>6 DEF Forward
<1> QED BY <1>7, <1>8, <1>9, <1>10, <1>11, <1>12

\* A step that touches neither the store nor the clock.
LEMMA StoreStands ==
  ASSUME JInv, UNCHANGED <<store, net, now>>
  PROVE  KeptStep
BY DEF store, KeptStep, JInv, KeptInv, CopiesFit, CleanMeansSaved, DroppedLate, Forward

\* One client's request changes to one that fits.
LEMMA RequestStep ==
  ASSUME IInv, JInv, NEW c \in Client, NEW q, RequestFits(q, now, legacy),
         req' = [req EXCEPT ![c] = q], now' = now, legacy' = legacy
  PROVE  RequestsFit'
BY DEF JInv, IInv, ControlType, RequestsFit

\* A finished request fits.
LEMMA FinishFits ==
  ASSUME NEW n, NEW k
  PROVE  RequestFits(NoRequest, n, k)
BY DEF RequestFits, NoRequest

\* What resolve leaves of a request that fits, fits.
LEMMA AfterFits ==
  ASSUME NEW q \in Request, NEW r, NEW n, NEW k, q.t <= n, n <= q.t + MaxHold
  PROVE  RequestFits(After(q, r), n, k)
<1>1. [q EXCEPT !.pc = "update"].t = q.t /\ [q EXCEPT !.pc = "update"].pc = "update"
  BY DEF Request
<1> QED BY <1>1, FinishFits DEF After, RequestFits

\* A token minted for a v1 caller is not about a reserved room.
LEMMA TokensOfV1 ==
  ASSUME JInv, legacy, legacy' = legacy
  PROVE  TokensFit'
BY DEF TokensFit

-----------------------------------------------------------------------------
(* The handlers keep the second invariant *)

\* handleReserve
LEMMA ReserveKeeps ==
  ASSUME IInv, JInv, NEW i \in Signer, NEW d \in Durations, NEW saved \in BOOLEAN,
         Reserve(i, d, saved)
  PROVE  JInv' /\ Forward
<1>1. /\ now \in Nat \ {0} /\ ~legacy /\ Update(i, Reservation(now, now + d, FALSE), saved)
      /\ UNCHANGED <<now, req, tokens>>
  BY DEF Reserve, IInv, ControlType
<1>2. now + d \in Nat /\ now + d <= now + MaxAhead
  BY <1>1, Numbers
<1>3. InputFits(Reservation(now, now + d, FALSE), now, legacy)
  BY <1>1, <1>2, ReservationFits
<1>4. KeptStep
  BY <1>1, <1>3, UpdateKeeps
<1>5. RequestsFit' /\ TokensFit'
  BY <1>1, <1>4 DEF KeptStep, JInv, RequestsFit, TokensFit, TokensMatchLinks
<1> QED BY <1>4, <1>5 DEF KeptStep, JInv

\* resolve with a host secret
LEMMA ResolveKeeps ==
  ASSUME IInv, JInv, NEW c \in Client, NEW i \in Signer, NEW op \in OpKind, NEW l \in Link,
         Resolve(c, i, op, l)
  PROVE  JInv' /\ Forward
<1> DEFINE q == [pc |-> "update", op |-> op, at |-> i, link |-> l, t |-> now, exp |-> 0]
<1>1. /\ q \in Request /\ now \in Nat
      /\ q.t = now /\ q.pc = "update"
  BY DEF Request, IInv, ControlType
<1>2. req' = [req EXCEPT ![c] = After(q, rec[i])] /\ UNCHANGED <<store, net, now, tokens>>
  BY DEF Resolve
<1> HIDE DEF q
<1>3. RequestFits(After(q, rec[i]), now, legacy)
  BY <1>1, AfterFits, Numbers
<1>4. RequestsFit'
  BY <1>2, <1>3, RequestStep DEF store
<1>5. KeptStep /\ TokensFit'
  BY <1>2, StoreStands DEF store, JInv, TokensFit, TokensMatchLinks
<1> QED BY <1>4, <1>5 DEF KeptStep, JInv

\* handleJoin and resolveJoin: the token's generation is that of the link,
\* because the secret is current.
LEMMA JoinKeeps ==
  ASSUME IInv, JInv, NEW i \in Signer, NEW h \in Hash, Join(i, h)
  PROVE  JInv' /\ Forward
<1> DEFINE k == [link |-> h[1], gen |-> rec[i].Gen]
<1>1. /\ Current(rec[i], h) /\ tokens' = tokens \cup {k}
      /\ UNCHANGED <<store, net, now, req>>
  BY DEF Join
<1>2. k.gen.tie = Tie[k.link]
  <2>1. SecretsFit(rec[i])
    BY DEF IInv, StoreInv, CopiesGood, GoodRecord
  <2> QED BY <1>1, <2>1 DEF SecretsFit, Current
<1> HIDE DEF k
<1>3. TokensFit'
  BY <1>1, <1>2 DEF store, JInv, TokensFit, TokensMatchLinks
<1>4. KeptStep /\ RequestsFit'
  BY <1>1, StoreStands DEF store, JInv, RequestsFit
<1> QED BY <1>3, <1>4 DEF KeptStep, JInv

\* resolve with a v1 host token: what it will write is cut at the v1 window.
LEMMA ResolveV1Keeps ==
  ASSUME IInv, JInv, NEW c \in Client, NEW i \in Signer, NEW op \in OpKind,
         NEW e \in TokenExps, ResolveV1(c, i, op, e)
  PROVE  JInv' /\ Forward
<1> DEFINE exp == Min2(e, NameExp + LegacyMaxExt)
           q == [pc |-> "update", op |-> op, at |-> i, link |-> FirstLink,
                 t |-> now, exp |-> exp]
<1>1. exp \in Nat /\ exp <= NameExp + LegacyMaxExt /\ now \in Nat \ {0}
  BY Numbers DEF Min2, IInv, ControlType
<1>2. q \in Request /\ q.t = now /\ q.exp = exp /\ q.pc = "update"
  BY <1>1, LinkAssumption DEF Request
<1>3. /\ legacy /\ UNCHANGED <<store, net, now>>
      /\ \/ req' = [req EXCEPT ![c] = After(q, rec[i])]
         \/ req' = [req EXCEPT ![c] = [q EXCEPT !.pc = "bump"]]
         \/ exp > now /\ req' = [req EXCEPT ![c] = [q EXCEPT !.pc = "migrate"]]
  BY DEF ResolveV1
<1>4. /\ [q EXCEPT !.pc = "bump"].t = now /\ [q EXCEPT !.pc = "bump"].exp = exp
      /\ [q EXCEPT !.pc = "bump"].pc = "bump"
      /\ [q EXCEPT !.pc = "migrate"].t = now /\ [q EXCEPT !.pc = "migrate"].exp = exp
      /\ [q EXCEPT !.pc = "migrate"].pc = "migrate"
  OBVIOUS
<1> HIDE DEF q, exp
<1>5. RequestFits(After(q, rec[i]), now, legacy)
  BY <1>1, <1>2, AfterFits, Numbers
<1>6. RequestFits([q EXCEPT !.pc = "bump"], now, legacy)
  BY <1>1, <1>3, <1>4, Numbers DEF RequestFits
<1>7. exp > now => RequestFits([q EXCEPT !.pc = "migrate"], now, legacy)
  BY <1>1, <1>3, <1>4, Numbers DEF RequestFits
<1>8. RequestsFit'
  BY <1>3, <1>5, <1>6, <1>7, RequestStep DEF store
<1>9. KeptStep /\ TokensFit'
  BY <1>3, StoreStands, TokensOfV1 DEF store
<1> QED BY <1>8, <1>9 DEF KeptStep, JInv

\* The update that raises a v1 record's expiry
LEMMA BumpKeeps ==
  ASSUME IInv, JInv, NEW c \in Client, NEW saved \in BOOLEAN, Bump(c, saved)
  PROVE  JInv' /\ Forward
<1> DEFINE q == req[c]
           i == q.at
           next == [rec[i] EXCEPT !.Expires = q.exp]
<1>1. q \in Request /\ i \in Signer /\ q.exp \in Nat /\ q.pc = "bump" /\ now \in Nat
  BY DEF Bump, IInv, ControlType, Request, NoRequest
<1>2. legacy /\ q.exp <= NameExp + LegacyMaxExt /\ q.t <= now /\ now <= q.t + MaxHold
  BY <1>1 DEF JInv, RequestsFit, RequestFits
<1>3. InputFits(rec[i], now, legacy)
  BY <1>1 DEF JInv, KeptInv, CopiesFit, CopyFits
<1>4. TokensFit'
  BY <1>2, TokensOfV1 DEF Bump, Update, store
<1>5. CASE ~Known(rec[i])
  <2>1. UNCHANGED <<store, net, now>> /\ req' = [req EXCEPT ![c] = NoRequest]
    BY <1>5 DEF Bump, Finish
  <2>2. KeptStep /\ RequestsFit'
    BY <2>1, StoreStands, RequestStep, FinishFits DEF store
  <2> QED BY <1>4, <2>2 DEF KeptStep, JInv
<1>6. CASE Known(rec[i])
  <2>1. /\ Update(i, next, saved) /\ now' = now
        /\ req' = [req EXCEPT ![c] = After(q, Merge(rec[i], next))]
    BY <1>6 DEF Bump
  <2>2. rec[i].Legacy
    BY <1>2, <1>3, <1>6 DEF InputFits, SameKind
  <2>3. InputFits(next, now, legacy)
    BY <1>1, <1>2, <1>3, <2>2, BumpFits
  <2>4. KeptStep
    BY <1>1, <2>1, <2>3, UpdateKeeps
  <2>5. RequestFits(After(q, Merge(rec[i], next)), now, legacy)
    BY <1>1, <1>2, AfterFits
  <2>6. RequestsFit'
    BY <2>1, <2>4, <2>5, RequestStep DEF KeptStep
  <2> QED BY <1>4, <2>4, <2>6 DEF KeptStep, JInv
<1> QED BY <1>5, <1>6

\* The update that creates a v1 record
LEMMA MigrateKeeps ==
  ASSUME IInv, JInv, NEW c \in Client, NEW saved \in BOOLEAN, Migrate(c, saved)
  PROVE  JInv' /\ Forward
<1> DEFINE q == req[c]
           i == q.at
           next == Reservation(q.t, q.exp, TRUE)
<1>1. /\ q \in Request /\ i \in Signer /\ q.exp \in Nat /\ q.t \in Nat \ {0}
      /\ q.pc = "migrate" /\ now \in Nat
  BY DEF Migrate, IInv, ControlType, Request, NoRequest
<1>2. legacy /\ q.exp <= NameExp + LegacyMaxExt /\ q.t <= now /\ now <= q.t + MaxHold
  BY <1>1 DEF JInv, RequestsFit, RequestFits
<1>3. /\ Update(i, next, saved) /\ now' = now
      /\ req' = [req EXCEPT ![c] = After(q, Merge(rec[i], next))]
  BY DEF Migrate
<1>4. InputFits(next, now, legacy)
  BY <1>1, <1>2, ReservationFits
<1>5. KeptStep
  BY <1>1, <1>3, <1>4, UpdateKeeps
<1>6. RequestFits(After(q, Merge(rec[i], next)), now, legacy)
  BY <1>1, <1>2, AfterFits
<1>7. RequestsFit'
  BY <1>3, <1>5, <1>6, RequestStep DEF KeptStep
<1>8. TokensFit'
  BY <1>2, <1>5, TokensOfV1 DEF KeptStep
<1> QED BY <1>5, <1>7, <1>8 DEF KeptStep, JInv

\* The updates of handleExtend, handleRotate and handleDelete end the request.
LEMMA FinishKeeps ==
  ASSUME IInv, JInv, NEW c \in Client, Finish(c), UNCHANGED <<now, tokens>>, KeptStep
  PROVE  JInv' /\ Forward
<1>1. RequestsFit'
  BY RequestStep, FinishFits DEF Finish, KeptStep
<1>2. TokensFit'
  BY DEF KeptStep, JInv, TokensFit, TokensMatchLinks
<1> QED BY <1>1, <1>2 DEF KeptStep, JInv

\* handleExtend
LEMMA ExtendKeeps ==
  ASSUME IInv, JInv, NEW c \in Client, NEW d \in Durations, NEW saved \in BOOLEAN,
         Extend(c, d, saved)
  PROVE  JInv' /\ Forward
<1> DEFINE i == req[c].at
<1>1. /\ req[c] \in Request /\ i \in Signer /\ req[c].pc = "update"
      /\ req[c].t \in Nat /\ now \in Nat
  BY DEF Extend, Pending, IInv, ControlType, Request, NoRequest
<1>2. req[c].t <= now
  BY <1>1 DEF JInv, RequestsFit, RequestFits
<1>3. InputFits(rec[i], now, legacy)
  BY <1>1 DEF JInv, KeptInv, CopiesFit, CopyFits
<1>4. InputFits(Extended(rec[i], d, req[c].t, MaxAhead), now, legacy)
  BY <1>1, <1>2, <1>3, Numbers, ExtendedFits
<1>5. /\ Update(i, Extended(rec[i], d, req[c].t, MaxAhead), saved)
      /\ Finish(c) /\ UNCHANGED <<now, tokens>>
  BY DEF Extend
<1>6. KeptStep
  BY <1>1, <1>4, <1>5, UpdateKeeps
<1> QED BY <1>5, <1>6, FinishKeeps

\* handleRotate
LEMMA RotateKeeps ==
  ASSUME IInv, JInv, NEW c \in Client, NEW l \in Link, NEW saved \in BOOLEAN,
         Rotate(c, l, saved)
  PROVE  JInv' /\ Forward
<1> DEFINE i == req[c].at
<1>1. req[c] \in Request /\ i \in Signer /\ now \in Nat
  BY DEF Rotate, Pending, IInv, ControlType, Request, NoRequest
<1>2. InputFits(rec[i], now, legacy) /\ GoodRecord(rec[i])
  BY <1>1 DEF JInv, KeptInv, CopiesFit, CopyFits, IInv, StoreInv, CopiesGood
<1>3. /\ Known(rec[i]) /\ Update(i, Rotated(rec[i], l), saved)
      /\ Finish(c) /\ UNCHANGED <<now, tokens>>
  BY DEF Rotate
<1>4. InputFits(Rotated(rec[i], l), now, legacy)
  BY <1>1, <1>2, <1>3, RotatedFits
<1>5. KeptStep
  BY <1>1, <1>3, <1>4, UpdateKeeps
<1> QED BY <1>3, <1>5, FinishKeeps

\* revoke
LEMMA RevokeKeeps ==
  ASSUME IInv, JInv, NEW i \in Signer, NEW t \in Nat \ {0}, NEW saved \in BOOLEAN,
         Revoke(i, t, saved), now' = now
  PROVE  KeptStep
<1>1. now \in Nat /\ InputFits(rec[i], now, legacy) /\ GoodRecord(rec[i])
  BY DEF JInv, KeptInv, CopiesFit, CopyFits, IInv, ControlType, StoreInv, CopiesGood
<1>2. InputFits(Tombstone(rec[i], t), now, legacy)
  BY <1>1, TombstoneFits
<1> QED BY <1>2, UpdateKeeps DEF Revoke

\* handleDelete
LEMMA DeleteKeeps ==
  ASSUME IInv, JInv, NEW c \in Client, NEW saved \in BOOLEAN, Delete(c, saved)
  PROVE  JInv' /\ Forward
<1>1. req[c] \in Request /\ req[c].at \in Signer /\ req[c].t \in Nat \ {0}
  BY DEF Delete, Pending, IInv, ControlType, Request, NoRequest
<1>2. /\ Revoke(req[c].at, req[c].t, saved)
      /\ Finish(c) /\ UNCHANGED <<now, tokens>>
  BY DEF Delete
<1>3. KeptStep
  BY <1>1, <1>2, RevokeKeeps
<1> QED BY <1>2, <1>3, FinishKeeps

\* handleAdminRevoke
LEMMA AdminRevokeKeeps ==
  ASSUME IInv, JInv, NEW i \in Signer, NEW saved \in BOOLEAN, AdminRevoke(i, saved)
  PROVE  JInv' /\ Forward
<1>1. now \in Nat \ {0} /\ Revoke(i, now, saved) /\ UNCHANGED <<now, req, tokens>>
  BY DEF AdminRevoke, IInv, ControlType
<1>2. KeptStep
  BY <1>1, RevokeKeeps
<1> QED BY <1>1, <1>2 DEF KeptStep, JInv, RequestsFit, TokensFit, TokensMatchLinks

\* Time passes: nothing that fitted stops fitting, and no request is overtaken.
LEMMA TickKeeps ==
  ASSUME IInv, JInv, Tick
  PROVE  JInv' /\ Forward
<1>1. /\ now \in Nat /\ now' = now + 1
      /\ \A c \in Client : req[c].pc # "idle" => now < req[c].t + MaxHold
      /\ UNCHANGED <<legacy, rec, disk, dirty, dropped, net, req, tokens>>
  BY DEF Tick, store, Idle, IInv, ControlType
<1>2. CopiesFit'
  BY <1>1, FitsLater DEF JInv, KeptInv, CopiesFit
<1>3. CleanMeansSaved'
  BY <1>1 DEF JInv, KeptInv, CleanMeansSaved
<1>4. DroppedLate'
  BY <1>1, Numbers DEF JInv, KeptInv, DroppedLate
<1>5. RequestsFit'
  <2> SUFFICES ASSUME NEW c \in Client, req[c].pc # "idle" PROVE RequestFits(req[c], now', legacy')
    BY <1>1 DEF RequestsFit, RequestFits
  <2>1. req[c] \in Request /\ req[c].t \in Nat
    BY DEF IInv, ControlType, Request, NoRequest
  <2>2. RequestFits(req[c], now, legacy)
    BY DEF JInv, RequestsFit
  <2>3. req[c].t <= now' /\ now' <= req[c].t + MaxHold
    BY <1>1, <2>1, <2>2, Numbers DEF RequestFits
  <2> QED BY <1>1, <2>2, <2>3 DEF RequestFits
<1>6. TokensFit' /\ Forward
  BY <1>1 DEF JInv, TokensFit, TokensMatchLinks, Forward
<1> QED BY <1>2, <1>3, <1>4, <1>5, <1>6 DEF JInv, KeptInv

-----------------------------------------------------------------------------
(* The second invariant, and what follows from it *)

\* Empty stores satisfy it.
LEMMA InitJInv == Init => JInv
<1> SUFFICES ASSUME Init PROVE JInv
  OBVIOUS
<1>1. CopiesFit
  BY BlankFits DEF Init, CopiesFit
<1> QED BY <1>1 DEF Init, JInv, KeptInv, CleanMeansSaved, DroppedLate, RequestsFit,
                    RequestFits, NoRequest, TokensFit, TokensMatchLinks

\* Every step keeps it, and moves the stored records forward.
LEMMA NextKeeps == IInv /\ JInv /\ [Next]_vars => JInv' /\ Forward
<1> SUFFICES ASSUME IInv, JInv, [Next]_vars PROVE JInv' /\ Forward
  OBVIOUS
<1>1. CASE \E i \in Signer, s \in BOOLEAN : \E d \in Durations : Reserve(i, d, s)
  BY <1>1, ReserveKeeps
<1>2. CASE \E i \in Signer, s \in BOOLEAN : AdminRevoke(i, s)
  BY <1>2, AdminRevokeKeeps
<1>3. CASE \E i \in Signer, s \in BOOLEAN : Gc(i, s)
  <2>1. PICK i \in Signer, s \in BOOLEAN : Gc(i, s)
    BY <1>3
  <2>2. KeptStep /\ UNCHANGED <<now, req, tokens>>
    BY <2>1, GcKeeps DEF Gc
  <2> QED BY <2>2 DEF KeptStep, JInv, RequestsFit, TokensFit, TokensMatchLinks
<1>4. CASE \E c \in Client, i \in Signer, op \in Ops \ {"reserve", "revoke", "join"},
             l \in Link : Resolve(c, i, op, l)
  BY <1>4, ResolveKeeps, ConfigAssumption
<1>5. CASE \E c \in Client, i \in Signer, op \in Ops \ {"reserve", "revoke"},
             e \in TokenExps : ResolveV1(c, i, op, e)
  BY <1>5, ResolveV1Keeps, ConfigAssumption
<1>6. CASE \E c \in Client, s \in BOOLEAN : Bump(c, s)
  BY <1>6, BumpKeeps
<1>7. CASE \E c \in Client, s \in BOOLEAN : Migrate(c, s)
  BY <1>7, MigrateKeeps
<1>8. CASE \E c \in Client, s \in BOOLEAN : \E d \in Durations : Extend(c, d, s)
  BY <1>8, ExtendKeeps
<1>9. CASE \E c \in Client, s \in BOOLEAN : \E l \in Link : Rotate(c, l, s)
  BY <1>9, RotateKeeps
<1>10. CASE \E c \in Client, s \in BOOLEAN : Delete(c, s)
  BY <1>10, DeleteKeeps
<1>11. CASE \E c \in Client : Refuse(c)
  <2>1. PICK c \in Client : Refuse(c)
    BY <1>11
  <2>2. UNCHANGED <<store, net, now, tokens>> /\ Finish(c)
    BY <2>1 DEF Refuse
  <2> QED BY <2>2, StoreStands, FinishKeeps
<1>12. CASE \E i \in Signer, h \in Hash : Join(i, h)
  BY <1>12, JoinKeeps
<1>13. CASE \E i \in Signer, o \in FiniteRecord : InputFits(o, now, legacy) /\ MergeRemote(i, o)
  <2>1. PICK i \in Signer, o \in FiniteRecord : InputFits(o, now, legacy) /\ MergeRemote(i, o)
    BY <1>13
  <2>2. KeptStep /\ UNCHANGED <<now, req, tokens>>
    BY <2>1, MergeRemoteKeeps DEF MergeRemote
  <2> QED BY <2>2 DEF KeptStep, JInv, RequestsFit, TokensFit, TokensMatchLinks
<1>14. CASE \E i \in Signer, m \in net : Receive(i, m)
  BY <1>13, <1>14 DEF Receive, JInv, KeptInv, CopiesFit, CopyFits, InputFits
<1>15. CASE \E i, j \in Signer : Pull(i, j)
  BY <1>13, <1>15 DEF Pull, JInv, KeptInv, CopiesFit, CopyFits, InputFits
<1>16. CASE \E i \in Signer : Crash(i)
  BY <1>16, CrashKeeps
<1>17. CASE Tick
  BY <1>17, TickKeeps
<1>18. CASE UNCHANGED vars
  <2>1. UNCHANGED <<store, net, now>> /\ UNCHANGED <<now, req, tokens>>
    BY <1>18 DEF vars, store
  <2> QED BY <2>1, StoreStands DEF KeptStep, JInv, RequestsFit, TokensFit, TokensMatchLinks
<1> QED BY <1>1, <1>2, <1>3, <1>4, <1>5, <1>6, <1>7, <1>8, <1>9, <1>10, <1>11,
           <1>12, <1>14, <1>15, <1>16, <1>17, <1>18 DEF Next

\* Sizes, times, kinds and requests stay as the second invariant says.
THEOREM Keeping == Spec => []JInv
BY InitJInv, NextKeeps, Invariance, PTL DEF Spec

\* A store that is not dirty has its whole record in the file, so a crash loses
\* nothing: load cuts nothing off, since what was saved had been pruned (dirty,
\* saveLocked, load).
THEOREM CleanStoresAreSaved == Spec => []CleanMeansSaved
<1>1. JInv => CleanMeansSaved
  BY DEF JInv, KeptInv
<1> QED BY <1>1, Keeping, PTL

\* However extensions, v1 tokens, late pushes and slow requests combine, no
\* signer's record reaches past maxAhead from now or past the v1 window
\* (handleExtend, resolve).
THEOREM ExpiryIsBounded == Spec => []ExpiryBounded
<1>1. JInv => ExpiryBounded
  BY DEF JInv, KeptInv, CopiesFit, CopyFits, InputFits, InTime, ExpiryBounded
<1> QED BY <1>1, Keeping, PTL

\* Once some gc has dropped a v1 room's record, no request is left, and none can
\* start, that would migrate the room afresh (gc's legacyLimit, resolve).
THEOREM MigratedOnce == Spec => []NoSecondMigration
<1>1. IInv /\ JInv => NoSecondMigration
  <2> SUFFICES ASSUME IInv, JInv, NEW c \in Client, req[c].pc = "migrate", dropped
               PROVE  FALSE
    BY DEF NoSecondMigration
  <2>1. req[c] \in Request /\ req[c].t \in Nat /\ now \in Nat
    BY DEF IInv, ControlType, Request, NoRequest
  <2>2. now <= req[c].t + MaxHold /\ req[c].t < NameExp + LegacyMaxExt
    BY DEF JInv, RequestsFit, RequestFits
  <2>3. NameExp + LegacyMaxExt + Keep < now
    BY DEF JInv, KeptInv, DroppedLate
  <2> QED BY <2>1, <2>2, <2>3, Numbers
<1> QED BY <1>1, Invariance, Keeping, PTL

\* In a reserved room every token carries the generation of the very link it was
\* minted for, whatever rotations and merges run meanwhile (handleJoin,
\* resolveJoin).  A v1 host token is no link of a generation, and is let in
\* with the record's, so the theorem is about rooms that are not v1.
THEOREM TokensMatch ==
  ASSUME TRUE \notin Kinds
  PROVE  Spec => []TokensMatchLinks
<1>1. IInv /\ JInv => TokensMatchLinks
  <2>1. IInv => legacy = FALSE
    BY ConfigAssumption DEF IInv, StoreInv, StoreType
  <2> QED BY <2>1 DEF JInv, TokensFit
<1> QED BY <1>1, Invariance, Keeping, PTL

\* Handlers, pushes and pulls only ever move a stored record up in the order of
\* merge; the two exceptions are a restart, which rereads the file, and gc
\* (update, mergeRemote).
THEOREM RecordsMoveForward == Spec => OnlyForward
<1>1. IInv /\ JInv /\ [Next]_vars => [Forward]_vars
  BY NextKeeps
<1>2. [][Forward]_vars => OnlyForward
  BY PTL DEF OnlyForward, Forward
<1> QED BY <1>1, <1>2, Invariance, Keeping, PTL DEF Spec
=============================================================================
