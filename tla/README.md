# Models and proofs of ffmuc-salt-public

This directory holds TLA+ models of those parts of the repository that are programs
with state, concurrency or failure of their own:

* **meet-reserve**, the replicated signer behind `https://meet.ffmuc.net/reserve`, and
  the **Prosody module** that decides from its answers who may open and enter a
  reserved room;
* the two reconciliation loops of the DNS: the **Cloudflare state**, and the **dynamic
  DNS** state and module with what renders their records (NetBox pillar, extra entries,
  PTR records);
* **respondd**, the daemon that answers queries about a gateway.

The rest of the repository is declarative configuration and short scripts; the
inventory below lists it.

Paths are relative to the repository; `store.go`, `peers.go` and `main.go` are in
`stacks/build/meet-reserve/`, *the lua* is
`jitsi/prosody/files/mod_ffmuc_signed_rooms.lua`, `cloudflare.py` is in `_states/`,
`ddns.py` in `_modules/` (and in `_states/`, where said), and the files of respondd are
in `respondd/respondd-tmpl/`.

## 1. The system

### meet-reserve

Four signers (docker04 to docker07) run the same program behind haproxy. Each has
a store of room records in memory and in `rooms.json`.

| part | state | operations |
|---|---|---|
| record (`store.go:14-115`) | Created, Expires, Gen, Revoked, Legacy, up to `maxSecrets` hashed secrets with their generation | `merge`, `prune`, `current` |
| store (`store.go:117-373`) | `rooms`, the index `secrets`, `dirty`, `last`, the file | `load`, `saveLocked`, `update`, `mergeRemote`, `since`, `gc` |
| handlers (`main.go:724-1229`) | none of their own; they hold a copy of a record and a clock reading between two locked sections | reserve, manage, extend, rotate, delete, join, admin revoke, migration of v1 rooms |
| proof of work (`main.go:446-518`) | `used`, in memory only | `newChallenge`, `checkPoW`, `gc` |
| peer sync (`peers.go`) | one cursor per peer | `push`, `handlePush`, `pullPage`, `handleSync`, `loop` |

A host gets a *host link* and a *speaker link*; their secrets are stored as hashes
with the generation they belong to. Rotating the links raises the record's
generation, so the old secrets stop being current. A deletion leaves a tombstone.
*v1 rooms* are older: their long names carry a signature and an expiry, their links
are tokens, and no record exists until somebody uses a v1 link ("migration").

Signers exchange records in two ways: a best-effort push after every local change,
and pulls every 30 s (or on demand) of everything stamped after a cursor. Both end in
`mergeRemote`. There is no coordination beyond that, so every property of a room
rests on the merge.

### The Prosody module

Prosody keeps a cache of room states (`states`), the table `migrated` of v1 rooms
known to have a record, and in each session the generation of its token. It asks
`/reserve/api/room/<name>` (`handleRoom`) when a client logs in, asks for a
conference or joins, each time suspending that session, and every `sweep_interval`
for every open reserved room.

### The Cloudflare state

`manage_zone_records` checks the rendered list (`sanity_check`), reads the zone page by
page (`existing`), computes what to add, remove and update (`diff`), orders it
(`_order`) and sends one request for each change (`apply`). It keeps nothing between
runs. Any request may fail, which ends the run wherever it is, and people edit the
zone in the dashboard at the same time.

### Dynamic DNS

A highstate of an authoritative nameserver builds the pillar (`ext_pillar` in
`_pillar/netbox.py`, up to a dozen requests to NetBox), renders `dns-auth/init.sls` (which
calls `get_extra_dns_entries` and `ptr_records`) and applies one `ddns.present` for each
record. Each asks the nameserver, decides, and sends one update. Administrators call
`add_host`, `delete_host` and the state `absent` beside it. The state is the
nameserver's.

### respondd

One process per site answers datagrams one by one. It keeps a token bucket
(`lib/ratelimit.py`) and a cached struct for each kind of data (`lib/respondd.py`), both on
the wall clock. An exception anywhere ends the process, and systemd starts it again.

### Where it is hard

* A handler authenticates against a copy, unlocks, and changes the record later, when
  it may have been rotated, deleted, collected or merged.
* Copies of records arrive late, repeatedly, in any order or never.
* A crash loses merges that gc had not flushed yet; the reloaded stamps are older
  than those already given out.
* Clocks differ and step; cursors, challenges, expiries, limits and caches are computed
  from them.
* Lookups of one room overtake each other, and a hook may decide from what it read
  before it waited.
* DNS changes are made one request at a time, from a picture that was taken earlier;
  requests fail in the middle, answers are lost although the request was carried out,
  and somebody else changes the same names.

`PROJECT.json` lists these hazards one by one, with line and property. Smaller ones that no
property covers: two concurrent rotations may draw the same 32 random bits (`main.go:366`,
excluded by an assumption); a sync answer longer than `syncMaxBody` would be asked for again for
ever (`peers.go:130`); services and addresses are asked of NetBox without a limit, so that later
pages are missing (`_pillar/netbox.py:193`); a failing command leaves holes in respondd's data,
which are cached (`lib/helper.py:15`); the ACME hook ignores the outcome at all servers but the
last (`certs/files/update-dns.sh.jinja:25`); a failed start of the new DHCP server leaves none
(`dhcp-server/guardian.sls:31`).

### What is not modelled

*Of the modelled parts*: owner rights in Prosody (lua:391-415) and a restart of Prosody,
request signatures (`verifySync`), encoded sizes, metrics, HTML, static files and app
links; the contents of SRV and CAA records; the fields that `ext_pillar` copies and its
proxy section; TSIG keys; what the structs of respondd contain.

*Other components*, with the reasons in `PROJECT.json`: the DHCP switch (an order of salt
requisites, carried out by salt), pool statistics, context import and the small salt
modules (pure conversions of one answer), downloaders, ACME hooks, backups, monitoring,
haproxy, GeoIP maps (shell scripts and generators without state of their own), salt
states and compose stacks (declarative).

## 2. The modules

| module | models | checked by |
|---|---|---|
| `RoomRecord` | the record, `merge`, `prune`, generations, the records handlers write (pure operators) | used by the next two |
| `MergeOrder` (EXTENDS `RoomRecord`) | replicas of one record that receive copies in any order | `MCReserve` |
| `Signers` (EXTENDS `RoomRecord`) | store and handlers of all signers for one room, pushes, pulls, gc, crashes, failed saves | `MCSigners` |
| `ProofOfWork` | challenges, the replay table and its gc | `MCReserve` |
| `PeerSync` | stamps, pages, cursors, pushes, pulls, crashes, failed saves and wrong clocks for several rooms | `MCPeerSync` |
| `SignedRooms` | the Prosody module for one room, in front of a meet-reserve that lags | `MCSignedRooms` |
| `CloudflareZone` | runs of the Cloudflare state against a zone that others change | `MCCloudflareZone` |
| `ZoneGoal` | what that state promises (abstract specification) | `CloudflareZone!OnlyTowardsGoal` |
| `Ddns` | what one call of the ddns module asks, decides and sends (pure operators), and the nameserver | used by the next two |
| `DnsPlan` (EXTENDS `Ddns`) | the records that are rendered, with the choice of PTR targets (pure operators) | used by the next |
| `DnsAuth` (EXTENDS `DnsPlan`) | highstates: pillar, rendering, one state after the other, and an administrator | `MCDnsAuth` |
| `Respondd` | the loop over datagrams, limiter, cache, restarts, the clock | `MCRespondd` |
| `RoomRecordProofs`, `ReserveProofs` (of `MergeOrder` and `ProofOfWork`), `SignersProofs`, `PeerSyncProofs`, `SignedRoomsProofs`, `CloudflareProofs`, `DnsAuthProofs`, `ResponddProofs` | theorems | TLAPS |

`MCReserve` extends the two small modules `MergeOrder` and `ProofOfWork` and runs one at a time
(its variable `part` says which); they share nothing. The kind of the room in `Signers`, short or
v1, is the variable `legacy`: it is one of `Kinds` and never changes. The run `room` takes both.

The models meet at named abstractions. `Signers` treats a pull as "the peer's present
record arrives"; which records a pull asks for is `PeerSync`. `PeerSync` treats a
record as the set of changes merged into it; that merging behaves like a union is
`MergeOrder`. `SignedRooms` treats meet-reserve as a sequence of states of which a
signer may report one that was replaced up to `Lag` ago; where those states come from
is `Signers`.

### RoomRecord

A *link* is one random host secret. The speaker secret is derived from it, so a hash
is the pair of link and role. The 64-bit `Gen` is a pair of counter and tie; the tie is
drawn together with the new link, hence the constant `Tie`. A secret that is not in the
map has generation `NoGen`, below all others, which turns the code's "insert or raise"
into one maximum per hash. `Blank` is the record without a creation time and also stands
for "no record"; all stored records have one. `Prune` keeps a secret if fewer than
`MaxSecrets` sort before it, the meaning of sorting and cutting the slice.

### Signers

One action per locked section. A request (`req[c]`) remembers what the handler
remembers: operation, signer, link, clock reading, and how far it has come. `Resolve` and
`ResolveV1` are the authentication; `Bump`, `Migrate`, `Extend`, `Rotate`, `Delete`
the updates. `Update` is `store.update` as a whole: merge, index, save (which may fail),
push. The index `idx` is kept as the code keeps it: `Index` takes out what was held before and is
no longer, and puts in what is held now; `Forget` is gc's deletes; `Crash` builds it anew, as
`load` does. `net` only grows, so a message can be late, lost, repeated or reordered. `Crash`
is dying and loading. A handler that panics inside `update` leaves the mutex locked
(`wedged`). One clock serves all signers here; wrong clocks are the subject of
`ProofOfWork` and `PeerSync`. `tokens` and `dropped` are history.

### ProofOfWork

`Arrive` reads the clock, `Accept` and `Reject` use that reading later, `Gc` uses the
present; the model has the time between them. A restart empties the table. Other
signers have tables of their own: haproxy's `balance source` keeps a client at one
signer, and the property is stated per signer and between restarts, as the code
intends.

### PeerSync

`Ask` and `Answer` split `handleSync` between reading the clock and reading the records.
`Deliver` is the rest of `pullPage`: merge, then move the cursor to the last record
of a full page or to the present minus the overlap. `Fail` is every way in which a
request ends without an answer. The save of `Update` may fail, which the code only logs. `Adjust`
makes a clock wrong, forwards or backwards, and right again.

`paging` is history: whether a cursor was left at the end of the last page, midway between two
pages, or whether the pair of puller and peer is *torn*. Two things tear it: the peer crashes while
the puller is midway, or the peer's next stamp falls to or below a point that the puller has passed
(`GoneBack`), because its clock was set back or because a crash lost its last stamps while the
clock was behind. `Reach` are those points: the cursor, and where the answer to a request in flight may
put it. A torn pair stays torn until the puller restarts.

### SignedRooms

A client's hook either decides at once from a fresh cache entry (`Hit`) or starts a
lookup (`Miss`), is served (`Serve`) and goes on (`Resume`) with the answer or with the
entry it had before. The timeout is the guard of `Tick`. `SweepEnds` closes only the room
that the sweep saw. Token expiry is left out, which only admits more sessions. Viewers
need no token and are never checked on joining, as in the code.

The room and its surroundings are a record `life`: whether it is a v1 room, the versions of
its record, the lag of the signers and whether lookups may fail. One run takes several.

### CloudflareZone

`zone` is the zone at Cloudflare, a set of records with ids; `desired` the rendered list,
with duplicates, unmanaged and excluded names as in the pillar. `Refuse`, `Begin`,
`ReadPage`, `ReadLast` (which contains `diff`, `_order` and test mode), `Apply` and `Fail`
are the run; `ApplyLost` is a request that was carried out but whose answer is lost;
`Rejected` one that the API refuses, a page beyond the last among them (what the API does there is
not in the repository; on an empty page `existing` would ask for the next one, without end). `Read`
enters the records of a page under their ids; one that was read before and is read again under an
excluded name keeps its old entry, as in the code. `_order` is the rank of an operation in its group;
the order of groups and of equal ranks, which Python's sets and dicts leave open, is open.
The API is external: it refuses duplicates and a CNAME beside an address or another
CNAME, gives out ids that are not used again, and lists records in the order of ids, so
that pages shift when a record goes. `calm` and `touched` are history: whether, and which
records in place, somebody else has changed since the run began.

### DnsAuth

`stage` is where a highstate is: at one of the requests of `ext_pillar`, at rendering or
at applying. `Following` is the order of the requests; `OnError` and `OnSilence` say what
each failure leaves: the pillar raises and salt refuses the highstate, or it lacks
`tag_list`, and `init.sls` renders no records while the highstate stays green, or nothing
comes of it. `work` holds the calls that salt and the administrator still have to make,
`pending` the update that a call has decided on and not yet sent. So `Ask` and `Send` are
two steps, between which the other may act. `TimesOut` loses the query, the update, or
only its answer. `AskRefused` is an answer to the query with an error code, which no call looks at:
it is read as one without records. `calm` says that since the highstate began no administrator was
at work and no query was refused. The nameserver follows RFC 2136: an update is atomic, and a record that
would stand beside a CNAME is ignored without an error. `raced` says that an rrset may hold
records beside ours: it did to begin with, or an update rested on an outdated answer.

Sorting the candidates is any order of them that `Before` allows (`Sorted`); the first one of an
address counts (`Chosen`), unless a custom target takes its place (`Overridden`). Dicts that are
filled in a loop are read as "the last one of a name" (`Entries`, `Overridden`).

### Respondd

`tools`, `iface` and `bridge` are what the system provides: without the bridge the process cannot
start, without the batman interface there is no `node_id` (unless `alias.json` names one, `Alias`),
and without the tools collecting nodeinfo raises and collecting statistics may (`GetMayRaise`).
Times are ages. The bucket is counted in seconds, so that no fractions arise: a token is
worth `Period`. `SetClock` moves the clock without time passing. `level` is a second,
ideal bucket that holds one token more and never loses time; that it does not run dry is
the bound on the rate. A struct carries its age and how much of it the clock hides
(`back`). The cached dict and the one that gets its `node_id` are the same object, so
`Collect` puts the completed one into the cache, and `CollectFails` ends the process
with whatever is in it.

## 3. What the runs check

| run | question | result |
|---|---|---|
| `reserve` | does any order and repetition of copies give what store.go's header promises? Can a challenge be spent twice at one signer? | yes; no |
| `rotate` | racing rotations, full history, crashes: one winner, nobody locked out, index exact, tokens of the right generation? | yes |
| `room` | can concurrent extensions pass `maxAhead`? Do deletions stick through late pushes, crashes, failed saves and gc? Is a clean store saved? Does the index follow gc? Is a collected v1 room ever migrated again? Can a migration undo what a peer's copy brought? | no; yes; yes; yes; no; no |
| `v1_panic` | can a handler panic with the store locked? | **yes**, finding 1 |
| `sync` | is a change ever skipped when answers have several pages, the peer's clock is ahead, behind or corrected, saves fail and signers crash, and does everything arrive in the end without pushes? | no; yes; both unless the pair is torn |
| `sync_clock` | does everything arrive without that exception, if all clocks are right in the end? | **no**, finding 2 |
| `rooms` | how long can a replaced session still get in? Does a migrated v1 room fall back to its signature while lookups fail? Is a deleted room closed in time? | Lag + Ttl + one lookup, or Lag + Grace + two when lookups fail; no; yes |
| `rooms_v1_race` | does a migrated v1 room fall back to its signature at any other time? | **yes**, finding 3 |
| `cloudflare` | does a run get in its own way? Does success mean that the zone is right? Do names keep resolving? Is every request a step towards the list? Do repeated runs arrive? | no; yes; yes; yes; yes |
| `dns_auth` | does a green highstate mean that the records are served, and is the next one quiet? Do PTR records name the best candidate? Do names keep answering? Do the records arrive in the end? | yes to all |
| `dns_race` | does `replace_on_change` leave only our record? | **not always**, finding 4 |
| `respondd` | does the limiter keep the rate and let clients in again, whatever the clock does? Are replies fresh and complete? | yes; yes |

Every property of a passing run has a mutant: a variant of one operator, defined before
the original (`PruneOldestFirst` before `Prune`), that a plausible slip in the code
would give and under which the property fails.

`OnlyTowardsGoal` is a refinement: `CloudflareZone` implements `ZoneGoal` with the records
without their ids as the zone. `ZoneGoal` knows no runs, pages or plans; a step puts in one
record of the goal (in place of one that differs only in its attributes) or takes one out
that the goal does not have and whose name is not to be left alone. Requests name records
by id, so a record that somebody has changed in place since it was read can be removed
or written over; `Clobber` allows this for such records only.

### Findings

1. **v1_panic** (`main.go:767`). `resolve` looks at the v1 record, then raises its
   expiry in `update`. The closure assumes that there is a record; gc may have dropped it.
   The nil dereference happens under the store's mutex, which nothing unlocks.
2. **sync_clock** (`peers.go:141`, `store.go:225`). "Missed pushes are caught up by the next pull",
   says the comment on `push` (`peers.go:195`). A puller's cursor is the present minus 10 s; a
   change is stamped by the peer's clock. While that clock stands back by more than 10 s (up to 2
   minutes are tolerated), a change gets a stamp at or below the cursor. Its push is lost, and the
   clock is right again, or has gone on for 10 s, before the next pull has ended: from then on every
   cursor is above the stamp. A further change of the room, a restart of the puller or another
   peer that got the push repairs it. The run is the shortest case, with a clock that is right
   before and after.
3. **rooms_v1_race** (lua:166, 257). `migrated` protects a v1 room only while there is no
   state at all. An overtaken or lagging answer "legacy" is a state, and with it the
   signature authorises the room until the entry is older than `lookup_ttl`.
4. **dns_race** (`ddns.py:224`). "If there are multiple RRs we delete them and add our new
   one", says the comment, but the code counts RRsets. If `add_host` gets in between the
   query and the update of `ddns.present`, one RRset with two records is left, and every
   later highstate finds its own among them and leaves both, as it leaves two records that were
   there before salt came. `GreenMeansServed` therefore allows foreign data in these two cases
   (`raced`). The run begins with an empty nameserver, so that it shows the race.

Observed while modelling, without a run of their own:

* `peers.go:137`, `store.go:294`: "missed pushes are caught up by the next pull", says the
  comment on `push` (`peers.go:195`). A record with a saved change (stamp 1) is changed again by
  a remote merge (stamp 3), which is not saved, and so belongs to the page after the one that
  ends at stamp 2. The peer crashes after it has answered with that page and comes back with
  stamp 1, below the cursor, so the record is not asked for again. In the code it needs more than
  2000 changed records, as in the first pull after a start; a further change, the puller's restart
  or another peer repairs it. The history variable `paging` calls such a pair of signers "torn",
  and `CursorSafe` and `Converges` are stated of the others. Without this exception TLC
  violates `CursorSafe` in seconds for three changes, both signers writing, right clocks and
  `MaxTime` 3. The other exception is finding 2, by a clock that is set back or by a crash that loses
  stamps while the clock is behind. `CursorIsSafe` (section 6) says that a puller whose own clock
  is never ahead skips nothing else.
* `main.go:775`: `resolve` sees no record of a v1 room and migrates it. If a peer's copy with
  a rotation arrives before the update, the merged record is of the new generation and
  the old link is served as if it were current. TLC shows it in a few seconds when
  `TokensMatchLinks` is checked with v1 links and rotations.
* `cloudflare.py:445`: a wanted name that matches a pattern of `exclude` is added again in
  every run and refused; with records of one name that disagree about `salt_managed`, the
  last one speaks for the name (line 440). The properties are stated for lists without
  either (`Clean`), the run has both. An SRV record that is written with its priority never
  equals what the API lists (line 187), so it is replaced in every run.
* `ddns.py`: a record that would stand beside a CNAME is ignored by the nameserver, and
  `present` reports an update every time (`Free` in the properties). Two wanted records of
  one name and type replace each other in every highstate (`Consistent`). `delete_host`
  returns the outcome of the last reverse zone only (line 167).
* `_pillar/netbox.py`: an error of NetBox at the interfaces or later leaves a pillar without
  `tag_list`, and the highstate is green without touching the DNS, which
  `extra_dns_entries.py` calls a reason to "fail closed" for its own request. The loop variable at
  line 208 hides the module `ipaddress`, so the proxy section never succeeds for a host
  with addresses.

## 4. Bounds

* Two signers everywhere. Three are beyond TLC for `Signers`; the theorems cover any
  number, and `MergeOrder` covers detours through third parties by letting replicas
  pull merged records.
* Three links and `MaxSecrets` 3: two rotations can race and the cut of `prune` goes
  through a pair of secrets (`rotate`). In the code `maxSecrets` is 8.
* `MaxFaults` bounds crashes plus failed saves, `MaxTime` ends time, `ReserveBy` is the
  latest reservation. `MaxHold` bounds how long a request is in flight and is at most
  `Keep`, as a request lasts seconds and `gcKeep` 30 days. Times are small, but all
  comparisons of the code meet both sides and the tie.
* `PeerSync`: two rooms, two changes, one puller (`Pulls`) and changes at the other signer
  (`Writers`); the other direction is covered by symmetry of the code. Pages of one record, so
  that two changes take two pages, and one crash (`MaxCrashes`); saves fail only while that crash is
  to come, since nothing else would tell. Rooms that nobody has changed are alike, and so are changes
  that nobody has made, so `Update` takes any of them. The peer's clock is right, 3 ahead or 2
  behind (`Ahead`, `Behind`), and changes between the three at any time; the puller's is right. With an
  overlap of 2, 3 ahead is beyond it and 2 behind reaches the cursor. `Timeout` is below `Overlap` as in
  the code (5 s and 10 s); `TimeoutAssumption` says so. `MaxTime` 3 lets a cursor pass
  a change (both are 1 then); `sync_clock` takes 5, for a clock that is 3 behind.
* `SignedRooms`: two lives of a room (`MCLives`); one client suffices because the sweep and
  stale lookups are concurrent with it; the race needs two. `Ttl` 2, `Grace` 3, `Timeout` 1 keep the
  order of the real values, and `Timeout < SweepEvery`.
* `CloudflareZone`: seven ids (`Id`, a pool from which unused ones are given out), pages of
  two, zones of three records, so that a run reads two pages and a change moves records
  between them; one change by others (`MaxOutside`) and one of the list (`MaxEdits`). The lists
  cover a changed ttl, A to CNAME and back, several addresses, unmanaged and excluded
  names and one that is refused.
* `DnsAuth`: two plans and four contents of the nameserver (empty, outdated data, a wrong ttl
  and an address where a CNAME is wanted, two addresses of one name), one command of the administrator
  (`MaxCommands`), one change of plan, two failing or refused requests (`MaxFaults`).
* `Respondd`: two kinds of data (one whose collection may raise, one that makes do), two
  seconds a token and a burst of two, a cache of one second, one clock change by two
  seconds, two troubles with tools or interfaces. `Alias` is FALSE: the deployed `alias.json` names no
  `node_id`. Ages above which nothing changes are capped (`MaxSince`, `MaxAge`).
* Deadlock is checked everywhere but in `Signers` and `SignedRooms`, which may rest when time
  is over and nobody wants anything, so `CHECK_DEADLOCK FALSE`.
* The run `room` has a state constraint (`EitherLife`), because with the long times that gc needs in
  a v1 room more is beyond TLC. A v1 room (`V1Life`) is only looked at, which migrates it or raises
  its expiry, by one request at a time, until time 8, and is followed no further once it is deleted.
  A short room (`ShortLife`) is extended and deleted by both clients and the operator, until time 4.
  `v1_panic` has no deletions. The theorems cover v1 rooms with all of it, but for `TokensMatch`.
* Symmetry over interchangeable signers, clients and challenges in the safety runs; not
  where liveness is checked.

## 5. Fairness

* `PeerSync`: `loop` pulls from every peer every 30 s, so `Ask` is weakly fair. An answer can
  fail any number of times but not for ever, because every round asks again, so `Answer`
  and `Deliver` are strongly fair. Nothing is assumed of pushes, of gc or of clients. Clocks may go
  wrong at any time and for ever; `Converges` excepts the pairs that this has torn, and `CaughtUp` is
  conditional on clocks that are right in the end.
* `CloudflareZone`: salt applies the state again and again (`Begin`), and although any request
  may fail, not all attempts at a page or at a change fail for ever (strong fairness; not
  all runs are test runs). Nothing is assumed of others.
* `DnsAuth`: the scheduler starts highstates again and again and a started one goes on
  (infinitely many steps of salt); failures are bounded by `MaxFaults`, and not every
  highstate is a test run.
* `Respondd`: time passes, datagrams keep coming, the process goes on with what it has
  begun, and systemd restarts it (`Restart=on-failure`, without a start limit) while the
  bridge is there, the only thing `start` cannot do without. `LimiterRecovers` is conditional on the
  bridge coming back.

## 6. What is proved

For every number of signers, clients, links, rooms, lists and all settings that satisfy the
named assumptions, without bounds on time or (where not said) faults:

| theorem | says |
|---|---|
| `RoomRecordProofs!MergeGood` | merging good records gives a good record |
| `RoomRecordProofs!MergeBounds`, `MergeCommutes`, `MergeAssociates`, `MergeAbsorbs` | merged records have at most `maxSecrets` secrets; `merge` is commutative and associative, and a copy that is already merged changes nothing |
| `ReserveProofs!OrderFree` | `MergeIsOrderFree` |
| `SignersProofs!TypeCorrect` | `TypeOK` |
| `SignersProofs!NobodyLockedOut` | `NeverLockedOut` |
| `SignersProofs!OneRotationWins` | `OneWinner` |
| `SignersProofs!IndexIsExact` | `IndexExact` |
| `SignersProofs!DeletionIsFinal` | `DeletionSticks` |
| `SignersProofs!CleanStoresAreSaved` | `CleanMeansSaved` |
| `SignersProofs!ExpiryIsBounded` | `ExpiryBounded` |
| `SignersProofs!MigratedOnce` | `NoSecondMigration` |
| `SignersProofs!TokensMatch` | `TokensMatchLinks`, for rooms that are not v1 rooms |
| `SignersProofs!RecordsMoveForward` | `OnlyForward` |
| `ReserveProofs!NoReplay` | `SpentOnce` |
| `PeerSyncProofs!Typed` | `TypeOK` |
| `PeerSyncProofs!CursorIsSafe` | `CursorSafe` |
| `SignedRoomsProofs!Typed` | `TypeOK` |
| `SignedRoomsProofs!NeverFallsBack` | `NoFallback` |
| `SignedRoomsProofs!ClosesDeleted` | `DeletedCloses` |
| `SignedRoomsProofs!RefusesReplaced` | `ReplacedRefused`, for a cache lifetime above zero |
| `CloudflareProofs!Typed` | `TypeOK`: no two records of the zone share an id or a key, and requests name ids |
| `CloudflareProofs!Implements` | `OnlyTowardsGoal`: `CloudflareZone` implements `ZoneGoal` |
| `CloudflareProofs!NeverInItsOwnWay` | `NoSelfConflict` |
| `CloudflareProofs!DoneIsDesired` | `DoneMeansDesired` |
| `CloudflareProofs!NamesKeepResolving` | `KeepsResolving` |
| `DnsAuthProofs!Types` | `TypeOK` |
| `DnsAuthProofs!GreenServes` | `GreenMeansServed` |
| `DnsAuthProofs!SettledIsQuiet` | `QuietWhenSettled` |
| `DnsAuthProofs!PtrNamesBest` | `PtrIsBest` |
| `DnsAuthProofs!SaltKeepsAnswering` | `KeepsAnswering` |
| `ResponddProofs!Typed` | `TypeOK`, with the bucket never above the burst |
| `ResponddProofs!RateKept` | `RateBounded` |
| `ResponddProofs!RepliesFresh` | `Fresh` |
| `ResponddProofs!RepliesComplete` | `HasNodeId` |

**Assumptions.** Ties of different links differ (32 random bits in the code); digests
differ; `MaxSecrets >= 2`; copies of records have finitely many secrets;
`Keep >= MaxHold`; for the proof of work
`MaxHold <= Slack` (a handler waits 3 s at most, the slack is a minute). For peer sync: names of
rooms are finitely many, pages are not empty, a request takes less than the overlap, and clocks show
a time after the epoch (`Adjust`). For
Prosody: a life is a sequence of versions of a record, of which only the first may say that there
is no record, and a deletion keeps the generation (`RecordAssumption`; `Tombstone` in
`RoomRecord`); clients are not called `sweep`. For the zone: ids are positive numbers from a
finite set, pages are not empty, lists are sequences, and the zone is to begin with what the API
allows (`Proper`, `Consistent`); a page beyond the last is refused (`Rejected`).
For the dynamic DNS: what the pillar lists are lists, no record is
of type ANY, there are finitely many candidates with numbers as priorities, different targets
differ as strings, every plan wants a record, and the nameserver holds to begin with what a nameserver can
hold (`WellFormed`: finitely many records, a CNAME alone at its name, one ttl for an rrset). Any
number of records may be in an rrset. For respondd: rate and burst are positive, times are
natural numbers. They are `ASSUME`s of the modules, so TLC evaluates them in every run.

**Hypotheses of single theorems.** They say where the property really ends. `TokensMatch`
leaves v1 rooms out of `Kinds`, for which it is false (section 3). `RefusesReplaced` needs `Ttl # 0`, since
with no cache at all an answer that arrives in the last tick is one tick too late for the bound;
`lookup_ttl` is 60. `CursorSafe` speaks of pullers whose clock is never ahead (`NeverAhead`), since
`pullPage` guards against the peer's clock with its own, and of pairs that are not torn. In
`GreenMeansServed` and `QuietWhenSettled` a highstate counts if it rendered the records, nobody
disturbed it and none of its queries was refused (`settled`, `calm`); a green highstate without
records, or one whose updates rest on a refused query, is outside, and `Converges` only says
that a later one makes up for it.

**The argument for the merge.** Created, Expires, Gen, Revoked and Legacy are minima and maxima.
The secrets are not: `prune` cuts the map after every merge, and what one signer has cut another
may still hold. `PruneInsideUnion` is the key: cutting one side before a union, and again after it,
leaves what cutting once after it leaves, because a secret that has `MaxSecrets` better ones on
its own side has at least as many in the union. The laws follow field by field.
For `OrderFree` no induction over the sequence of copies is needed. The invariant relates a
replica's record to the *set* of copies it has seen: every field is the extreme one of the set, and
the secrets are the cut of a map that gives every secret its highest generation
(`IsMerge`). A merge of two such records is one for the union of the sets, and the
field-wise reference of `MergeOrder` is the only record of this kind.

**The argument for the signers.** `NeverLockedOut` is not inductive: a merge of two
records that hold their own links could still cut them. `GoodRecord` strengthens it to
what `merge` preserves: a live record holds both secrets of its generation, no
secret is newer than the generation, and secrets of that generation belong to the link whose
tie it carries. Then the secrets of the winning generation sort first, there are only
two of them (this is where distinct ties are needed), and `prune` keeps them
(`CurrentSortsFirst`, `PruneKeepsCurrent`, `MergeHolds`, `MergeGood`). The inductive
invariant `IInv` says this of every copy in memory, on disk and in flight
(`CopiesGood`), that the index is exact (the update
needs it: `Index` takes out only what the record held before), that a deletion on disk is also in memory
(`DeletedInMemory`, without which gc or a save could lose it), and the types. Each
action has one lemma; `NextStep` puts them together. `OneWinner` follows from the
link that a generation's tie determines, `DeletionSticks` from `DeletionKept`, which is
shown of every step along with the invariant.

The second invariant, `JInv`, builds on the first. Every copy, wherever it is, is finite and cut, in
time and of the room's kind (`CopiesFit`): `ExpiryBounded` of the stored records alone would be
lost with the next push. A request in flight read its clock at most `MaxHold` ago, and what
a v1 request will write lies inside the v1 window (`RequestsFit`); gc has dropped a v1 record only
when that window ended more than `Keep` ago (`DroppedLate`). So no request that still
wants to migrate can have been accepted after a collection. `OnlyForward` is shown of every step
with the laws of the merge: `update` and `mergeRemote` store `Merge(rec, ...)`, and that
absorbs `rec`.

**The argument for the proof of work.** A spent challenge is in the table, or older than
lifetime plus slack (`Remembered`); a request in flight read its clock at most `MaxHold`
ago (`HeldBriefly`). So whatever gc has forgotten fails the age check.

**The argument for peer sync.** `CursorSafe` is not inductive, as an answer on its way will move
the cursor, and a change still to come may get a stamp below it. `Ahead` says that the peer's next
stamp is above every point of `Reach`, where the puller takes things for known; a step that would
break this tears the pair. `Covers` says that what the peer has stamped up to a point is in the puller's
record or in the answer. `Covered` says it of every cursor and of every position to which an answer
on its way may lead (`Leads`). An answer without a further page leads to a time before it was asked
for, by `Timeout < Overlap` and the puller's clock, which is not ahead, and the peer has stamped
above that time since; one with a further page leads to its highest stamp, and no record outside
the page shares that stamp (`Stamped`: the ranks of a merge keep stamps apart). `PageExists` shows that
`since` has a page to choose. A crash of the peer brings back the disk, so `Covers` also speaks of
the saved stamps, except where the cursor or the answer stands midway between two pages: there
it cannot, and a crash tears the pair. The last page restores it, as the puller then has all
that the peer had when it answered.

**The argument for Prosody.** `Sources` traces every state that the module holds or waits for back
to a version of the record: a signer had it from a version that was replaced at most `Lag` before
(and, in the cache, one lookup earlier), and a lookup is no older than its timeout
(`Known`, `InFlight`). Sessions have tokens that were issued (`Tokens`). Whoever gets in does so on
such a state, so its generation was the current one not long ago, which is `ReplacedRefused`.
`Retired` says that `migrated` outlives the name of every v1 room seen with a record, `Times` that
the sweep is never late, and `Closing` that for an open deleted room either the next sweep comes
in time or this one already asks signers that all know.

**The argument for the zone.** That a request is a step of `ZoneGoal` depends on when its
record was read. `Picture` says that whatever a run has read and nobody has changed in place
since is still in the zone as it was read, or gone. `Plan` says the same of the requests that
are left: each is sound for the list (an addition is wanted, a removal is neither wanted nor
of a name to be left alone, an update has the key of its record), and its id leads to a
record that it fits, unless somebody touched it. `DiffSound` derives `Plan` from `Picture`;
`Phases` says that what was read is dropped with the plan, and the plan with the run,
since the list may change in between. With `IInv` (these three and the types) each action
has one lemma for the invariant and one for the step of `ZoneGoal`; an addition is a `Put`
because the API refuses duplicates, and `Unused` keeps ids apart.

`KInv` is about runs that nobody interferes with. While such a run reads, it has seen exactly the
beginning of the zone (`SoFar`), so after the last page all of it; while it applies, the requests
left are exactly what the zone lacks (`Exact`), and they keep the order of `_order`
(`Ordered`). No conflict can then arise: whatever would be in the way of an addition is
itself to be removed, and that request goes first. When no request is left, the zone lacks
nothing.

**The argument for the dynamic DNS.** `GreenMeansServed` is about the end of a highstate; what
leads there is `Progress`: while a highstate applies that nobody has disturbed and in which
nothing has failed, every rendered record is either still in salt's queue or in place, or something
stands in its way. A record gets there because the answer its update rests on is still true
(`Timely`: a highstate is calm only while the administrator does nothing), and the message is what
`update` makes of this answer (`Messages`). It stays because the other updates of a consistent
plan touch other rrsets (`OthersStay`). `OwnInPlace` is the heart: for each of the three outcomes of
`update` - replace, add, nothing - the rrset afterwards is ours alone, unless several
records were in it (`raced`), provided that an rrset has one ttl and a CNAME stands alone
(`ZoneOK`, which every message preserves). `NoReplaceFound` and `NothingToDo` say what the answer
must have been. In the highstate that follows, the calls recognise the record (`Recognised`), so only what
cannot be in place is sent (`Blocked`), which gives `QuietWhenSettled`. `Queues` says that salt
works off a part of what it has rendered and that the administrator's updates replace, so that
they too leave one record. For `KeepsAnswering` the answer may be outdated: a
message that does not delete leaves no rrset empty, whatever it finds (`AppliedKeepsRRsets`), and salt
sends no other.

`PtrIsBest` needs that the candidates can be sorted at all, since `Sorted` chooses an order that
might not exist. That is induction over their number, which is done as a search for the least
number at which it fails (`HasMin`, `FirstCandidate`, `PrefixGrows`, `PrefixExists`). Then the
first candidate of an address is its best one (`ChosenBest`), and its PTR record is
rendered (`BestIsWanted`).

**The argument for respondd.** `RateBounded` is not inductive. `Ahead` says that the ideal
bucket `level` holds at least what the real one will hold when it is next looked at, and
one token more before the free first call; setting the clock back only widens the gap.
`Fresh` needs `CacheOK`: the clock hides at most `Shift` seconds of the cached struct's age
for each time it was set. `CacheOK` also says that a cached struct has its `node_id`, which
holds because the process does not survive the exception that would leave it without.

**Only model-checked.** Liveness and everything under fairness (`Converges` of three modules,
`LimiterRecovers`, and the violated `CaughtUp`), which is out of the prover's reach.
Every invariant and every action property of the passing runs is also a theorem; two are proved
with a hypothesis (`TokensMatch`, `RefusesReplaced`), which the runs satisfy.

## 7. Plan

The modules were built in the order of the table in section 2. What is left, models:
owners and affiliations in Prosody (lua:391-415) and a restart of Prosody, in
`SignedRooms`; an abstract room that `Signers` implements for a single signer.

Proofs: of `Signers`, that its pulls are what `PeerSync` delivers.

## Running

    tlc -workers 2 -config MCSignersRotate.cfg MCSigners
    tlapm SignersProofs.tla

Every passing run takes less than four minutes on two cores.
