------------------------------- MODULE Signers -------------------------------
(***************************************************************************)
(* The meet-reserve signers serving one reserved room: the HTTP handlers   *)
(* of main.go on top of the replicated store of store.go, with pushes and  *)
(* pulls of peers.go between the signers.                                  *)
(*                                                                         *)
(* A handler is not atomic.  It captures `now`, authenticates the caller   *)
(* against a COPY of the record (resolve), releases the lock, and changes  *)
(* the record later in store.update, on whatever the record has become.    *)
(* Each client request is therefore a small process (req); everything else *)
(* (pushes, pulls, gc, crashes, time) can happen between its steps.        *)
(*                                                                         *)
(* Messages are never removed from `net`: a message may be delivered late, *)
(* repeatedly, out of order or never.                                      *)
(***************************************************************************)
EXTENDS RoomRecord

CONSTANTS Signer, Client,
          Ops,           \* request kinds in play, see OpKind
          Kinds,         \* what the room may be: TRUE stands for a v1 room
          NameExp,       \* v1: the expiry embedded in the name
          LegacyMaxExt,  \* legacyMaxExt
          TokenExps,     \* v1: expiries of the host tokens in circulation
          Durations,     \* durations
          MaxAhead,      \* maxAhead
          Keep,          \* gcKeep
          MaxFaults,     \* bound: crashes plus failed saves
          MaxHold,       \* bound: how long a request may stay in flight
          ReserveBy,     \* bound: latest time of the reservation
          MaxTime        \* bound: end of modelled time

OpKind == {"reserve", "manage", "extend", "rotate", "delete", "join", "revoke"}

ASSUME ConfigAssumption ==
  /\ Ops \subseteq OpKind
  /\ Kinds \subseteq BOOLEAN
  /\ NameExp \in Nat /\ LegacyMaxExt \in Nat /\ TokenExps \subseteq Nat
  /\ MaxAhead \in Nat
  /\ Durations \subseteq 1..MaxAhead          \* loadConfig
  /\ MaxFaults \in Nat
  /\ MaxHold \in Nat /\ ReserveBy \in Nat /\ MaxTime \in Nat
  /\ Keep \in Nat /\ MaxHold <= Keep        \* a request against 30 days

VARIABLES
  legacy,   \* the room has a long signed v1 name; never changes
  rec,      \* signer -> the room's record in memory, Blank if there is none
  idx,      \* signer -> hashes that s.secrets maps to the room
  disk,     \* signer -> the record in rooms.json
  dirty,    \* signer -> s.dirty
  wedged,   \* signer -> a handler panicked while holding s.mu
  net,      \* pushes sent so far
  now,      \* seconds
  req,      \* client -> its request in flight
  drawn,    \* links drawn so far
  tokens,   \* tokens minted so far (history)
  faults,   \* crashes and failed saves so far
  dropped   \* some gc has dropped the record of this v1 room (history)

store == <<legacy, rec, idx, disk, dirty, faults, dropped>>
vars == <<legacy, rec, idx, disk, dirty, wedged, net, now, req, drawn, tokens,
          faults, dropped>>

Message == [from : Signer, rec : Record]

\* The role in a token is left out: it is the link's, or less (handleAPIJoin).
Token == [link : Link, gen : Generation]

Request == [pc : {"bump", "migrate", "update"}, op : OpKind, at : Signer,
            link : Link, t : Nat \ {0}, exp : Nat]

NoRequest == [pc |-> "idle"]

Idle(c) == req[c].pc = "idle"

TypeOK ==
  /\ legacy \in BOOLEAN
  /\ rec \in [Signer -> Record]
  /\ idx \in [Signer -> SUBSET Hash]
  /\ disk \in [Signer -> Record]
  /\ dirty \in [Signer -> BOOLEAN]
  /\ wedged \in [Signer -> BOOLEAN]
  /\ net \in SUBSET Message
  /\ now \in Nat \ {0}
  /\ req \in [Client -> Request \cup {NoRequest}]
  /\ drawn \in SUBSET Link
  /\ tokens \in SUBSET Token
  /\ faults \in Nat
  /\ dropped \in BOOLEAN

Init ==
  /\ legacy \in Kinds
  /\ rec = [i \in Signer |-> Blank]
  /\ idx = [i \in Signer |-> {}]
  /\ disk = [i \in Signer |-> Blank]
  /\ dirty = [i \in Signer |-> FALSE]
  /\ wedged = [i \in Signer |-> FALSE]
  /\ net = {}
  /\ now = 1
  /\ req = [c \in Client |-> NoRequest]
  \* a v1 link is older than the store
  /\ drawn = IF legacy THEN {FirstLink} ELSE {}
  /\ tokens = {}
  /\ faults = 0
  /\ dropped = FALSE

-----------------------------------------------------------------------------
(* store.go *)

Fault == faults < MaxFaults /\ faults' = faults + 1

\* Mutant: the dirty flag is cleared even though the write failed.
SaveClearsDirty(i, r, saved) ==
  /\ disk' = IF saved THEN [disk EXCEPT ![i] = r] ELSE disk
  /\ dirty' = [dirty EXCEPT ![i] = FALSE]
  /\ IF saved THEN UNCHANGED faults ELSE Fault

\* saveLocked's outcome: a failure is logged and leaves the old file in place.
Save(i, r, saved) ==
  /\ disk' = IF saved THEN [disk EXCEPT ![i] = r] ELSE disk
  /\ dirty' = [dirty EXCEPT ![i] = ~saved]
  /\ IF saved THEN UNCHANGED faults ELSE Fault

\* Mutant: the index never forgets a secret that prune cut.
IndexForgetsNothing(ix, r, before) == ix \cup Held(r.Secrets)

\* index: forget the hashes of `before` that the record no longer holds, then
\* enter the ones it does.  s.secrets[h] is this room or nothing here.
Index(ix, r, before) ==
  LET held == Held(r.Secrets) IN (ix \ (before \ held)) \cup held

\* Mutant: the handler's record replaces the stored one.
UpdateReplaces(i, next, saved) ==
  /\ rec' = [rec EXCEPT ![i] = next]
  /\ idx' = [idx EXCEPT ![i] = Index(@, next, Held(rec[i].Secrets))]
  /\ Save(i, next, saved)
  /\ net' = net \cup {[from |-> i, rec |-> next]}
  /\ UNCHANGED <<legacy, dropped>>

\* update: merge, index, save, push.
Update(i, next, saved) ==
  LET stored == Merge(rec[i], next) IN
  /\ rec' = [rec EXCEPT ![i] = stored]
  /\ idx' = [idx EXCEPT ![i] = Index(@, stored, Held(rec[i].Secrets))]
  /\ Save(i, stored, saved)
  /\ net' = net \cup {[from |-> i, rec |-> stored]}
  /\ UNCHANGED <<legacy, dropped>>

\* mergeRemote: nothing is saved until gc flushes; an unchanged record is
\* left alone.
MergeRemote(i, o) ==
  LET stored == Merge(rec[i], o) IN
  /\ ~wedged[i]
  /\ stored # rec[i] \/ Overflows(rec[i], o)
  /\ rec' = [rec EXCEPT ![i] = stored]
  /\ idx' = [idx EXCEPT ![i] = Index(@, stored, Held(rec[i].Secrets))]
  /\ dirty' = [dirty EXCEPT ![i] = TRUE]
  /\ UNCHANGED <<legacy, disk, wedged, net, now, req, drawn, tokens, faults, dropped>>

\* handlePush
Receive(i, m) == m.from # i /\ MergeRemote(i, m.rec)

\* handleSync at j and pullPage at i.  A slow answer is a late copy of the
\* record like a late push; what the cursor asks for is PeerSync's subject.
Pull(i, j) == ~wedged[j] /\ Known(rec[j]) /\ MergeRemote(i, rec[j])

LegacyLimit(r) == IF r.Legacy THEN NameExp + LegacyMaxExt ELSE 0

\* Mutant: gc looks at the record's own end only.
CollectableAtEnd(r) ==
  /\ Known(r)
  /\ Latest(r.Expires, r.Revoked) + Keep < now

\* gc: `end >= cut` keeps the record.
Collectable(r) ==
  /\ Known(r)
  /\ Latest(Latest(r.Expires, r.Revoked), LegacyLimit(r)) + Keep < now

\* Mutants: gc drops tombstones too; gc leaves a nil map of secrets behind.
CollectedAll(r) == Blank

CollectedNilMap(r) ==
  IF r.Revoked # 0 THEN [r EXCEPT !.Secrets = <<>>] ELSE Blank

\* What gc leaves of a record that ended long ago.
Collected(r) == IF r.Revoked # 0 THEN [r EXCEPT !.Secrets = NoSecrets] ELSE Blank

\* Mutant: the index keeps the secrets of a collected record.
ForgetNothing(ix, r) == ix

\* gc deletes every secret of a record it collects from the index.
Forget(ix, r) == ix \ Held(r.Secrets)

Gc(i, saved) ==
  LET left == IF Collectable(rec[i]) THEN Collected(rec[i]) ELSE rec[i] IN
  /\ ~wedged[i]
  /\ dirty[i] \/ left # rec[i]
  /\ rec' = [rec EXCEPT ![i] = left]
  /\ idx' = [idx EXCEPT ![i] =
                IF Collectable(rec[i]) THEN Forget(@, rec[i]) ELSE @]
  /\ Save(i, left, saved)
  /\ dropped' = (dropped \/ (legacy /\ Known(rec[i]) /\ ~Known(left)))
  /\ UNCHANGED <<legacy, wedged, net, now, req, drawn, tokens>>

\* A signer dies and comes back: load reads the last snapshot, its requests
\* are gone.  The catch-up pull before serving is best effort (Pull).
Crash(i) ==
  LET loaded == [disk[i] EXCEPT !.Secrets = Prune(@)] IN
  /\ Fault
  /\ rec' = [rec EXCEPT ![i] = loaded]
  /\ idx' = [idx EXCEPT ![i] = Index({}, loaded, {})]
  /\ dirty' = [dirty EXCEPT ![i] = FALSE]
  /\ wedged' = [wedged EXCEPT ![i] = FALSE]
  /\ req' = [c \in Client |-> IF ~Idle(c) /\ req[c].at = i THEN NoRequest
                                                          ELSE req[c]]
  /\ UNCHANGED <<legacy, disk, net, now, drawn, tokens, dropped>>

-----------------------------------------------------------------------------
(* main.go *)

Finish(c) == req' = [req EXCEPT ![c] = NoRequest]

Min2(a, b) == IF a < b THEN a ELSE b

\* What the handlers demand of the record r that resolve returned: extend and
\* join look at it again, rotate and delete go straight on to their update.
Proceeds(op, r, t) ==
  op \in {"extend", "join"} => r.Revoked = 0 /\ r.Expires > t

\* The request after resolve returned r: manage only shows it, join mints a
\* token from it, the others go on to their update.
After(q, r) ==
  IF q.op \in {"extend", "rotate", "delete"} /\ Proceeds(q.op, r, q.t)
    THEN [q EXCEPT !.pc = "update"] ELSE NoRequest

\* handleAPIJoin: the token carries the record's generation.
Mint(q, r) ==
  tokens' = IF q.op = "join" /\ Proceeds(q.op, r, q.t)
              THEN tokens \cup {[link |-> q.link, gen |-> r.Gen]}
              ELSE tokens

\* handleReserve: a fresh room name, hence no record anywhere yet.
Reserve(i, d, saved) ==
  /\ "reserve" \in Ops /\ ~legacy
  /\ ~wedged[i]
  /\ now <= ReserveBy
  /\ drawn = {}
  /\ ~Known(rec[i])
  /\ Update(i, Reservation(now, now + d, FALSE), saved)
  /\ drawn' = {FirstLink}
  /\ UNCHANGED <<wedged, now, req, tokens>>

\* resolve with the host secret of a link; an unknown, replaced or speaker
\* secret is refused and changes nothing.
Resolve(c, i, op, l) ==
  /\ Idle(c) /\ ~wedged[i]
  /\ <<l, "host">> \in idx[i]
  /\ Current(rec[i], <<l, "host">>)
  /\ req' = [req EXCEPT ![c] =
               After([pc |-> "update", op |-> op, at |-> i, link |-> l,
                      t |-> now, exp |-> 0], rec[i])]
  /\ UNCHANGED <<store, wedged, net, now, drawn, tokens>>

\* Mutant: any secret of the room's history joins.
JoinHeld(i, h) ==
  /\ "join" \in Ops /\ ~wedged[i]
  /\ h \in idx[i]
  /\ rec[i].Revoked = 0
  /\ rec[i].Expires > now
  /\ tokens' = tokens \cup {[link |-> h[1], gen |-> rec[i].Gen]}
  /\ UNCHANGED <<store, wedged, net, now, req, drawn>>

\* handleJoin and resolveJoin with a host or speaker secret.
Join(i, h) ==
  /\ "join" \in Ops /\ ~wedged[i]
  /\ h \in idx[i]
  /\ rec[i].Revoked = 0
  /\ Current(rec[i], h)
  /\ rec[i].Expires > now
  /\ tokens' = tokens \cup {[link |-> h[1], gen |-> rec[i].Gen]}
  /\ UNCHANGED <<store, wedged, net, now, req, drawn>>

\* resolve with a v1 host token that expires at e: look at the record, then
\* maybe raise its expiry or create it in an update of its own.
ResolveV1(c, i, op, e) ==
  LET exp == Min2(e, NameExp + LegacyMaxExt)
      r   == rec[i]
      q   == [pc |-> "update", op |-> op, at |-> i, link |-> FirstLink,
              t |-> now, exp |-> exp]
  IN /\ legacy /\ Idle(c) /\ ~wedged[i]
     /\ \/ /\ Known(r) /\ r.Revoked = 0
           /\ Current(r, <<FirstLink, "host">>)
           /\ IF exp <= r.Expires
                THEN /\ req' = [req EXCEPT ![c] = After(q, r)]
                     /\ Mint(q, r)
                ELSE /\ req' = [req EXCEPT ![c] = [q EXCEPT !.pc = "bump"]]
                     /\ UNCHANGED tokens
        \/ /\ ~Known(r)
           /\ exp > now
           /\ req' = [req EXCEPT ![c] = [q EXCEPT !.pc = "migrate"]]
           /\ UNCHANGED tokens
     /\ UNCHANGED <<store, wedged, net, now, drawn>>

\* The update of a v1 record whose link is newer than the migration.  The
\* closure dereferences the record, which may be gone by now.
Bump(c, saved) ==
  LET q == req[c]
      i == q.at
      next == [rec[i] EXCEPT !.Expires = q.exp]
  IN /\ q.pc = "bump" /\ ~wedged[i]
     /\ \/ /\ ~Known(rec[i])
           /\ wedged' = [wedged EXCEPT ![i] = TRUE]
           /\ Finish(c)
           /\ UNCHANGED <<store, net, tokens>>
        \/ /\ Known(rec[i])
           /\ Update(i, next, saved)
           /\ req' = [req EXCEPT ![c] = After(q, Merge(rec[i], next))]
           /\ Mint(q, Merge(rec[i], next))
           /\ UNCHANGED wedged
     /\ UNCHANGED <<now, drawn>>

\* The update that creates a v1 record ignores what is there; merging keeps it.
Migrate(c, saved) ==
  LET q == req[c]
      i == q.at
      next == Reservation(q.t, q.exp, TRUE)
  IN /\ q.pc = "migrate" /\ ~wedged[i]
     /\ Update(i, next, saved)
     /\ req' = [req EXCEPT ![c] = After(q, Merge(rec[i], next))]
     /\ Mint(q, Merge(rec[i], next))
     /\ UNCHANGED <<wedged, now, drawn>>

Pending(c, op) == req[c].pc = "update" /\ req[c].op = op /\ ~wedged[req[c].at]

\* handleExtend's update, which checks the record again.
Extend(c, d, saved) ==
  LET i == req[c].at IN
  /\ Pending(c, "extend")
  /\ Known(rec[i]) /\ rec[i].Revoked = 0
  /\ rec[i].Expires > req[c].t
  /\ Update(i, Extended(rec[i], d, req[c].t, MaxAhead), saved)
  /\ Finish(c)
  /\ UNCHANGED <<wedged, now, drawn, tokens>>

\* handleRotate's update: the record must still be there, the caller's link
\* need not be current any more.
Rotate(c, l, saved) ==
  LET i == req[c].at IN
  /\ Pending(c, "rotate")
  /\ l \notin drawn
  /\ Known(rec[i]) /\ rec[i].Revoked = 0
  /\ Update(i, Rotated(rec[i], l), saved)
  /\ drawn' = drawn \cup {l}
  /\ Finish(c)
  /\ UNCHANGED <<wedged, now, tokens>>

\* revoke: an unknown short room is refused, an unknown v1 room is buried.
Revoke(i, t, saved) ==
  /\ Known(rec[i]) \/ legacy
  /\ Update(i, Tombstone(rec[i], t), saved)

Delete(c, saved) ==
  /\ Pending(c, "delete")
  /\ Revoke(req[c].at, req[c].t, saved)
  /\ Finish(c)
  /\ UNCHANGED <<wedged, now, drawn, tokens>>

AdminRevoke(i, saved) ==
  /\ "revoke" \in Ops /\ ~wedged[i]
  /\ Revoke(i, now, saved)
  /\ UNCHANGED <<wedged, now, req, drawn, tokens>>

\* The proof of work fails, the update refuses, or the client goes away.
Refuse(c) ==
  /\ req[c].pc = "update"
  /\ Finish(c)
  /\ UNCHANGED <<store, wedged, net, now, drawn, tokens>>

Tick ==
  /\ now < MaxTime
  /\ \A c \in {d \in Client : ~Idle(d)} : now < req[c].t + MaxHold
  /\ now' = now + 1
  /\ UNCHANGED <<store, wedged, net, req, drawn, tokens>>

Next ==
  \/ \E i \in Signer, s \in BOOLEAN :
       \/ \E d \in Durations : Reserve(i, d, s)
       \/ AdminRevoke(i, s)
       \/ Gc(i, s)
  \/ \E c \in Client, i \in Signer, op \in Ops \ {"reserve", "revoke", "join"}, l \in Link :
       Resolve(c, i, op, l)
  \/ \E c \in Client, i \in Signer, op \in Ops \ {"reserve", "revoke"}, e \in TokenExps :
       ResolveV1(c, i, op, e)
  \/ \E c \in Client, s \in BOOLEAN :
       \/ Bump(c, s)
       \/ Migrate(c, s)
       \/ \E d \in Durations : Extend(c, d, s)
       \/ \E l \in Link : Rotate(c, l, s)
       \/ Delete(c, s)
  \/ \E c \in Client : Refuse(c)
  \/ \E i \in Signer, h \in Hash : Join(i, h)
  \/ \E i \in Signer, m \in net : Receive(i, m)
  \/ \E i, j \in Signer : Pull(i, j)
  \/ \E i \in Signer : Crash(i)
  \/ Tick

Spec == Init /\ [][Next]_vars

-----------------------------------------------------------------------------
(* Properties *)

\* Nobody is locked out: a live record, in memory, on disk or in a message,
\* always holds the host and the speaker secret of its own generation, however
\* merges, prunes and rotations interleave (handleRotate, merge, prune).
HasLinks(r) ==
  Known(r) /\ r.Revoked = 0 =>
    \E l \in Link : Current(r, <<l, "host">>) /\ Current(r, <<l, "speaker">>)

NeverLockedOut ==
  /\ \A i \in Signer : HasLinks(rec[i]) /\ HasLinks(disk[i])
  /\ \A m \in net : HasLinks(m.rec)

\* Concurrent rotations have one winner: signers that agree on the generation
\* accept the links of one and the same rotation (store.go's header,
\* handleRotate, record.current).
OneWinner ==
  \A i, j \in Signer : rec[i].Gen = rec[j].Gen =>
    \A g, h \in Hash : Current(rec[i], g) /\ Current(rec[j], h) => g[1] = h[1]

\* A deletion that reached a signer's disk stays: no late push, crash, gc,
\* migration or concurrent handler gives that signer a live record again
\* (revoke, gc's tombstones, load).
DeletionSticks ==
  [][\A i \in Signer : disk[i].Revoked # 0 =>
       disk'[i].Revoked # 0 /\ rec'[i].Revoked # 0]_vars

\* s.secrets is exactly the index of the stored record, so bySecret finds every
\* held secret and no pruned or collected one (index, gc).
IndexExact == \A i \in Signer : idx[i] = Held(rec[i].Secrets)

\* A store that is not dirty loses nothing in a crash (dirty, saveLocked).
CleanMeansSaved == \A i \in Signer : ~dirty[i] => disk[i] = rec[i]

\* No room reaches further than maxAhead past the present, or than the v1
\* window, however extensions on several signers combine (handleExtend).
ExpiryBounded ==
  \A i \in Signer : rec[i].Expires <= Latest(now + MaxAhead, LegacyLimit(rec[i]))

\* A v1 room whose record some gc has dropped is never migrated afresh, which
\* would revive links replaced long ago (gc's legacyLimit, resolve).
NoSecondMigration ==
  \A c \in Client : req[c].pc = "migrate" => ~dropped

\* Every token carries the generation of the link it was minted for
\* (handleJoin, handleAPIJoin, resolveJoin).
TokensMatchLinks == \A k \in tokens : k.gen.tie = Tie[k.link]

\* No handler panics inside store.update, where it would keep the store lock
\* for good (update, resolve).
NeverWedged == \A i \in Signer : ~wedged[i]

\* The stored record never moves backwards, except when a crash rereads the
\* file or gc collects (update merges instead of replacing).
OnlyForward ==
  [][\A i \in Signer : \/ rec'[i] = rec[i]
                       \/ Merge(rec[i], rec'[i]) = rec'[i]
                       \/ rec'[i] = disk[i]
                       \/ rec'[i] = Collected(rec[i])]_vars
=============================================================================
