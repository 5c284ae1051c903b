----------------------------- MODULE SignedRooms -----------------------------
(***************************************************************************)
(* Prosody's side of a reserved room (mod_ffmuc_signed_rooms.lua): the     *)
(* cached lookups of the room's state at meet-reserve, and what logging in,*)
(* asking for a conference, creating the room, joining it and the sweep    *)
(* decide from them.                                                       *)
(*                                                                         *)
(* Every hook may suspend its session in a lookup and decide later, from   *)
(* the answer or, if the lookup failed, from the cache entry it had read   *)
(* BEFORE it waited.  Several lookups of one room can be in flight and end *)
(* in any order; each overwrites the cache.                                *)
(*                                                                         *)
(* meet-reserve is its sequence of states of the room, Versions.  A signer *)
(* may answer from a version that was replaced up to Lag ago.              *)
(***************************************************************************)
EXTENDS Integers, Sequences

CONSTANTS Client,
          Lives,       \* rooms and their surroundings, one of which is modelled
          Ttl,         \* lookup_ttl
          Grace,       \* lookup_grace
          Timeout,     \* lookup_timeout
          SweepEvery,  \* sweep_interval
          MaxTime      \* bound: end of modelled time

ASSUME ClientAssumption == "sweep" \notin Client

ASSUME TimesAssumption ==
  /\ Ttl \in Nat /\ Grace \in Nat /\ Ttl <= Grace       \* math.max
  /\ Timeout \in Nat /\ MaxTime \in Nat
  /\ SweepEvery \in Nat /\ Timeout < SweepEvery

ASSUME LivesAssumption ==
  \A l \in Lives : /\ l.legacy \in BOOLEAN /\ l.mayFail \in BOOLEAN
                   /\ l.nameEnd \in Nat /\ l.lag \in Nat
                   /\ l.versions \in Seq([status : {"none", "active", "deleted"},
                                          gen : Nat, expires : Nat])
                   /\ l.versions # <<>>

\* There is no record before the first change and always one after it; a room
\* that is deleted keeps its generation and is not deleted again.
ASSUME RecordAssumption ==
  \A l \in Lives : \A v \in DOMAIN l.versions :
    /\ l.versions[v].status = "none" => v = 1
    /\ l.versions[v].status = "deleted" =>
         /\ v > 1 /\ l.versions[v - 1].status # "deleted"
         /\ l.versions[v - 1].gen = l.versions[v].gen

VARIABLE life     \* which of them

Legacy == life.legacy       \* the room has a long signed v1 name

NameEnd == life.nameEnd     \* v1: expiry in the name plus max_extension

Versions == life.versions   \* the states of the room's record, in order

Lag == life.lag             \* replication lag between the signers

MayFail == life.mayFail     \* lookups may fail or time out

Sweeper == "sweep"

Looker == Client \cup {Sweeper}

Gens == {Versions[v].gen : v \in DOMAIN Versions}

Status == {"active", "deleted", "expired", "legacy", "unknown"}

State == [status : Status, gen : Gens, expires : Nat, at : Nat]

NoState == [status |-> "none"]

NoLook == [op |-> "idle"]

Look == [op : {"login", "conference", "join", "sweep", "gone"}, gen : Gens, at : Nat,
         cached : State \cup {NoState}, reply : State \cup {NoState}]

NoGen == -1     \* no token: a viewer

VARIABLES
  now,        \* os.time()
  ver, sup,   \* meet-reserve: the current version, when versions were replaced
  cache,      \* states[name]
  migrated,   \* migrated[name], 0 if absent
  look,       \* lookups in flight
  sess,       \* client -> generation of its session's token, or NoGen
  wanted,     \* a conference request passed, jicofo is about to create the room
  room,       \* when the MUC room was created, 0 if there is none
  joined,     \* clients in it
  nextSweep,  \* when the sweep timer fires
  seen        \* some lookup has found a record (history)

vars == <<life, now, ver, sup, cache, migrated, look, sess, wanted, room, joined,
          nextSweep, seen>>

TypeOK ==
  /\ life \in Lives
  /\ now \in Nat
  /\ ver \in DOMAIN Versions
  /\ sup \in [DOMAIN Versions -> Nat]
  /\ cache \in State \cup {NoState}
  /\ migrated \in Nat
  /\ look \in [Looker -> Look \cup {NoLook}]
  /\ sess \in [Client -> Gens \cup {NoGen}]
  /\ wanted \in BOOLEAN
  /\ room \in Nat
  /\ joined \subseteq Client
  /\ nextSweep \in Nat
  /\ seen \in BOOLEAN

Init ==
  /\ life \in Lives
  /\ now = 1
  /\ ver = 1
  /\ sup = [v \in DOMAIN Versions |-> 0]
  /\ cache = NoState
  /\ migrated = 0
  /\ look = [k \in Looker |-> NoLook]
  /\ sess = [c \in Client |-> NoGen]
  /\ wanted = FALSE
  /\ room = 0
  /\ joined = {}
  /\ nextSweep = 1 + SweepEvery
  /\ seen = FALSE

-----------------------------------------------------------------------------
(* meet-reserve *)

\* The record is created, rotated, extended or deleted.
Advance ==
  /\ ver < Len(Versions)
  /\ ver' = ver + 1
  /\ sup' = [sup EXCEPT ![ver] = now]
  /\ UNCHANGED <<life, now, cache, migrated, look, sess, wanted, room, joined, nextSweep, seen>>

\* The generations of the tokens in circulation.
Issued == {Versions[v].gen : v \in {u \in 1..ver : Versions[u].status = "active" \/ Legacy}}

\* The versions a signer may still answer from.
Visible == {v \in 1..ver : v = ver \/ now <= sup[v] + Lag}

\* Mutant: an unmigrated v1 room has no status of its own.
ReplyBare(v) ==
  LET r == Versions[v] IN
  [status |-> r.status, gen |-> r.gen, expires |-> r.expires, at |-> now]

\* handleRoom
Reply(v) ==
  LET r == Versions[v] IN
  [status |-> CASE r.status = "none" -> (IF Legacy THEN "legacy" ELSE "unknown")
                [] r.status = "deleted" -> "deleted"
                [] r.status = "active" -> (IF r.expires <= now THEN "expired" ELSE "active"),
   gen |-> r.gen, expires |-> r.expires, at |-> now]

\* A signer answers a lookup.
Serve(k, v) ==
  /\ look[k] # NoLook /\ look[k].reply = NoState
  /\ v \in Visible
  /\ look' = [look EXCEPT ![k].reply = Reply(v)]
  /\ UNCHANGED <<life, now, ver, sup, cache, migrated, sess, wanted, room, joined, nextSweep, seen>>

-----------------------------------------------------------------------------
(* The cache *)

HasRecord(s) == s.status \notin {"legacy", "unknown"}

IsFresh == cache # NoState /\ now - cache.at < Ttl

\* Mutant: the last answer is used for as long as lookups fail.
CachedForever(e) == e

\* What room_state falls back to: a cache entry e that is not too old.
Cached(e) == IF e # NoState /\ now - e.at < Grace THEN e ELSE NoState

\* room_usable, once room_state has returned s.
Usable(s) ==
  IF ~Legacy \/ (s # NoState /\ HasRecord(s))
    THEN s.status = "active" /\ s.expires >= now
    ELSE ~(s = NoState /\ migrated # 0) /\ NameEnd >= now

\* verify_token and session_valid: only the current generation counts.
GenMatches(s, g) == s.status = "active" => s.gen = g

\* The room may be used, by a session with a token of generation g if any.
Allowed(s, g) == Usable(s) /\ (g # NoGen => GenMatches(s, g))

\* fetch_state's finish
Store(s) ==
  IF s = NoState THEN UNCHANGED <<cache, migrated, seen>>
  ELSE /\ cache' = [s EXCEPT !.at = now]
       /\ migrated' = IF Legacy /\ HasRecord(s) THEN NameEnd ELSE migrated
       /\ seen' = (seen \/ HasRecord(s))

-----------------------------------------------------------------------------
(* The hooks *)

\* What a hook does once it knows the state s of the room.
Login(c, g, s) ==
  /\ sess' = [sess EXCEPT ![c] = IF Allowed(s, g) THEN g ELSE NoGen]
  /\ UNCHANGED <<wanted, joined>>

\* pre-iq/host: the room, then the session by the cache alone.
Conference(c, s) ==
  /\ wanted' = (wanted \/ (Usable(s) /\ (sess[c] # NoGen => Allowed(Cached(cache'), sess[c]))))
  /\ UNCHANGED <<sess, joined>>

\* muc-occupant-pre-join
Enter(c, s) ==
  /\ joined' = IF room # 0 /\ Allowed(s, sess[c]) THEN joined \cup {c} ELSE joined
  /\ UNCHANGED <<sess, wanted>>

Decide(c, op, g, s) ==
  \/ op = "login" /\ Login(c, g, s)
  \/ op = "conference" /\ Conference(c, s)
  \/ op = "join" /\ Enter(c, s)

\* Whether a client can do op now: a join needs the room and a session.
Can(c, op) ==
  /\ look[c] = NoLook
  /\ c \notin joined
  /\ op = "login" => sess[c] = NoGen
  /\ op = "join" => room # 0 /\ sess[c] # NoGen

\* A hook with a fresh cache entry decides at once.
Hit(c, op, g) ==
  /\ Can(c, op)
  /\ IsFresh
  /\ UNCHANGED <<life, now, ver, sup, cache, migrated, look, room, nextSweep, seen>>
  /\ Decide(c, op, g, cache)

\* Otherwise it starts a lookup and suspends its session.
Miss(c, op, g) ==
  /\ Can(c, op)
  /\ ~IsFresh
  /\ look' = [look EXCEPT ![c] = [op |-> op, gen |-> g, at |-> now,
                                  cached |-> Cached(cache), reply |-> NoState]]
  /\ UNCHANGED <<life, now, ver, sup, cache, migrated, sess, wanted, room, joined, nextSweep, seen>>

\* Mutant: the old entry is preferred to the answer.
BestOld(q, s) == IF q.cached # NoState THEN q.cached ELSE s

\* fresh or cached
Best(q, s) == IF s # NoState THEN s ELSE q.cached

\* A lookup ends with its answer, or without one (an error or the timeout).
Ends(q, s) ==
  /\ q # NoLook
  /\ \/ s # NoState /\ s = q.reply
     \/ s = NoState /\ MayFail

\* The session goes on with what the lookup brought, or the entry it had before.
Resume(c, s) ==
  LET q == look[c] IN
  /\ Ends(q, s)
  /\ Store(s)
  /\ Decide(c, q.op, q.gen, Best(q, s))
  /\ look' = [look EXCEPT ![c] = NoLook]
  /\ UNCHANGED <<life, now, ver, sup, room, nextSweep>>

\* A viewer needs no token and joins without a check of its own.
View(c) ==
  /\ look[c] = NoLook /\ sess[c] = NoGen
  /\ room # 0
  /\ joined' = joined \cup {c}
  /\ UNCHANGED <<life, now, ver, sup, cache, migrated, look, sess, wanted, room, nextSweep, seen>>

\* muc-room-pre-create in jicofo's session: only the cache, no waiting.
Create ==
  /\ wanted /\ room = 0
  /\ room' = IF Usable(Cached(cache)) THEN now ELSE 0
  /\ wanted' = FALSE
  /\ UNCHANGED <<life, now, ver, sup, cache, migrated, look, sess, joined, nextSweep, seen>>

\* Everybody leaves and the room goes away; a sweep that is looking it up holds
\* on to the old room.
Leave ==
  /\ room # 0
  /\ room' = 0
  /\ joined' = {}
  /\ look' = IF look[Sweeper] = NoLook THEN look ELSE [look EXCEPT ![Sweeper].op = "gone"]
  /\ UNCHANGED <<life, now, ver, sup, cache, migrated, sess, wanted, nextSweep, seen>>

\* Mutant: a v1 room is forgotten in the last second of its window.
ForgetEarly == IF migrated <= now THEN 0 ELSE migrated

\* The sweep forgets v1 rooms whose window is over.
Forget == IF migrated < now THEN 0 ELSE migrated

SweepLook == [op |-> "sweep", gen |-> Versions[1].gen, at |-> now,
              cached |-> NoState, reply |-> NoState]

\* Mutant: the sweep trusts a fresh cache entry.
SweepTrustsCache ==
  /\ now = nextSweep
  /\ migrated' = Forget
  /\ nextSweep' = now + SweepEvery
  /\ look' = IF room # 0 /\ ~IsFresh THEN [look EXCEPT ![Sweeper] = SweepLook] ELSE look
  /\ UNCHANGED <<life, now, ver, sup, cache, sess, wanted, room, joined, seen>>

\* The sweep timer: prune, then look the room up if it is open.
Sweep ==
  /\ now = nextSweep
  /\ migrated' = Forget
  /\ nextSweep' = now + SweepEvery
  /\ look' = IF room # 0 THEN [look EXCEPT ![Sweeper] = SweepLook] ELSE look
  /\ UNCHANGED <<life, now, ver, sup, cache, sess, wanted, room, joined, seen>>

\* The sweep's callback closes a deleted room, if it is still the same room.
SweepEnds(s) ==
  LET q == look[Sweeper] IN
  /\ Ends(q, s)
  /\ Store(s)
  /\ IF s.status = "deleted" /\ q.op = "sweep"
       THEN room' = 0 /\ joined' = {}
       ELSE UNCHANGED <<room, joined>>
  /\ look' = [look EXCEPT ![Sweeper] = NoLook]
  /\ UNCHANGED <<life, now, ver, sup, sess, wanted, nextSweep>>

\* The cache of 4096 rooms drops its oldest entry.
Evict ==
  /\ cache # NoState
  /\ cache' = NoState
  /\ UNCHANGED <<life, now, ver, sup, migrated, look, sess, wanted, room, joined, nextSweep, seen>>

\* Time passes; lookups end by their timeout, the sweep fires on time.
Tick ==
  /\ now < MaxTime
  /\ now < nextSweep
  /\ \A k \in Looker : look[k] # NoLook => now < look[k].at + Timeout
  /\ now' = now + 1
  /\ UNCHANGED <<life, ver, sup, cache, migrated, look, sess, wanted, room, joined, nextSweep, seen>>

Replies(k) == {NoState} \cup (IF look[k] = NoLook THEN {} ELSE {look[k].reply})

Next ==
  \/ Advance
  \/ \E k \in Looker : \E v \in Visible : Serve(k, v)
  \/ \E c \in Client, g \in Issued : Hit(c, "login", g) \/ Miss(c, "login", g)
  \/ \E c \in Client, op \in {"conference", "join"} :
       Hit(c, op, Versions[1].gen) \/ Miss(c, op, Versions[1].gen)
  \/ \E c \in Client : \E s \in Replies(c) : Resume(c, s)
  \/ \E s \in Replies(Sweeper) : SweepEnds(s)
  \/ \E c \in Client : View(c)
  \/ Create \/ Leave \/ Sweep \/ Evict \/ Tick

Spec == Init /\ [][Next]_vars

-----------------------------------------------------------------------------
(* Properties *)

\* Version v of the record grants generation g; the links of an unmigrated v1
\* room are of the first one.
Grants(v, g) ==
  /\ Versions[v].status \in {"active"} \cup (IF Legacy THEN {"none"} ELSE {})
  /\ Versions[v].gen = g

\* The last time at which the record granted generation g.
GrantedUntil(g) ==
  LET vs == {v \in 1..ver : Grants(v, g)} IN
  IF ver \in vs THEN now
  ELSE CHOOSE t \in {0} \cup {sup[v] : v \in vs} : \A v \in vs : sup[v] <= t

\* How old a decision can be: an answer is out of date by the replication lag
\* and the way here, and then lives in the cache; if lookups fail, for the grace
\* period and the time of one more lookup.
Staleness == Lag + Timeout + (IF MayFail THEN Grace + Timeout ELSE Ttl)

\* Replaced and deleted links stop working: no host or speaker session enters
\* later than Staleness after its generation was rotated away or the room was
\* deleted, whatever lookups are lost, late or overtaken (room_state,
\* fetch_state, verify_token, session_valid).  A v1 room follows the v1 rules
\* until some lookup has found its record.
ReplacedRefused ==
  [][\A c \in joined' \ joined : sess[c] # NoGen /\ (Legacy => seen) =>
       now < GrantedUntil(sess[c]) + Staleness]_vars

\* Deleted rooms are closed within a sweep interval, counted from when all
\* signers know and the room is open, plus the lookup, if lookups succeed (sweep).
DeletedCloses ==
  ~MayFail /\ room # 0 /\ Versions[ver].status = "deleted" =>
    LET known == sup[ver - 1] + Lag IN
    now <= (IF room > known THEN room ELSE known) + SweepEvery + Timeout

\* While lookups fail, a v1 room that was seen to have a record is never
\* authorised by its signature again, although the sweep forgets old rooms
\* (migrated, room_usable).
NoFallback == seen /\ Legacy => ~Usable(NoState)

\* Once a v1 room has a record, the signature alone never authorises it again
\* (the comment on migrated).
SignatureRetired ==
  seen /\ cache # NoState => ~(~HasRecord(cache) /\ Usable(Cached(cache)))
=============================================================================
