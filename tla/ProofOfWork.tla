----------------------------- MODULE ProofOfWork -----------------------------
(***************************************************************************)
(* The proof of work in front of reserve and extend (main.go, checkPoW and *)
(* the part of server.gc that forgets spent challenges).                   *)
(*                                                                         *)
(* A challenge carries its issue time and a MAC that every signer accepts. *)
(* A signer remembers the ones it has seen spent until they are too old to *)
(* pass the age check, and forgets them in a restart.  The age is computed *)
(* from the `now` that the handler captured when the request came in, gc   *)
(* uses the present; the one minute on top of the lifetime has to cover    *)
(* the difference.                                                         *)
(***************************************************************************)
EXTENDS Integers

CONSTANTS Signer, Client, Challenge,
          Offset,     \* signer -> its clock minus the true time
          TTL,        \* challengeTTL
          Slack,      \* the minute in both comparisons
          MaxHold,    \* bound: how long a handler takes before checkPoW
          MaxTime     \* bound: end of modelled time

ASSUME ClockAssumption ==
  /\ Offset \in [Signer -> Int]
  /\ TTL \in Nat /\ Slack \in Nat /\ MaxTime \in Nat

\* Between `now := time.Now()` and checkPoW a handler waits at most for one
\* pullSoon (3 s), which is less than the minute.
ASSUME HoldAssumption == MaxHold \in Nat /\ MaxHold <= Slack

VARIABLES
  now,      \* true time
  issued,   \* challenge -> whether it was handed out
  ts,       \* challenge -> the issue time it carries
  used,     \* signer -> the keys of s.used
  req,      \* client -> its request in flight
  spent     \* signer -> challenge -> times accepted since the last start (history)

vars == <<now, issued, ts, used, req, spent>>

Clock(i) == now + Offset[i]

Request == [pc : {"check"}, at : Signer, ch : Challenge, t : Int]

NoRequest == [pc |-> "idle"]

TypeOK ==
  /\ now \in Nat
  /\ issued \in [Challenge -> BOOLEAN]
  /\ ts \in [Challenge -> Int]
  /\ used \in [Signer -> SUBSET Challenge]
  /\ req \in [Client -> Request \cup {NoRequest}]
  /\ spent \in [Signer -> [Challenge -> Nat]]

Init ==
  /\ now = 0
  /\ issued = [ch \in Challenge |-> FALSE]
  /\ ts = [ch \in Challenge |-> 0]
  /\ used = [i \in Signer |-> {}]
  /\ req = [c \in Client |-> NoRequest]
  /\ spent = [i \in Signer |-> [ch \in Challenge |-> 0]]

\* newChallenge: random, so never one that exists.
NewChallenge(i, ch) ==
  /\ ~issued[ch]
  /\ issued' = [issued EXCEPT ![ch] = TRUE]
  /\ ts' = [ts EXCEPT ![ch] = Clock(i)]
  /\ UNCHANGED <<now, used, req, spent>>

\* A reserve or extend request with a solved challenge reaches a signer; the
\* same solution may be sent any number of times and to any signer.
Arrive(c, i, ch) ==
  /\ req[c] = NoRequest
  /\ issued[ch]
  /\ req' = [req EXCEPT ![c] = [pc |-> "check", at |-> i, ch |-> ch, t |-> Clock(i)]]
  /\ UNCHANGED <<now, issued, ts, used, spent>>

\* The age check.
Fresh(q) == /\ q.t - ts[q.ch] >= -Slack
            /\ q.t - ts[q.ch] <= TTL

\* checkPoW lets the request pass and remembers the challenge.
Accept(c) ==
  LET q == req[c] IN
  /\ q.pc = "check"
  /\ Fresh(q)
  /\ q.ch \notin used[q.at]
  /\ used' = [used EXCEPT ![q.at] = @ \cup {q.ch}]
  /\ spent' = [spent EXCEPT ![q.at][q.ch] = @ + 1]
  /\ req' = [req EXCEPT ![c] = NoRequest]
  /\ UNCHANGED <<now, issued, ts>>

\* checkPoW refuses it: expired or a replay.
Reject(c) ==
  LET q == req[c] IN
  /\ q.pc = "check"
  /\ ~Fresh(q) \/ q.ch \in used[q.at]
  /\ req' = [req EXCEPT ![c] = NoRequest]
  /\ UNCHANGED <<now, issued, ts, used, spent>>

\* Mutant: a challenge is forgotten as soon as its lifetime is over.
OutdatedAtTTL(i, ch) == Clock(i) > ts[ch] + TTL

\* The expiry stored with a spent challenge has passed.
Outdated(i, ch) == Clock(i) > ts[ch] + TTL + Slack

\* server.gc
Gc(i) ==
  /\ \E ch \in used[i] : Outdated(i, ch)
  /\ used' = [used EXCEPT ![i] = {ch \in @ : ~Outdated(i, ch)}]
  /\ UNCHANGED <<now, issued, ts, req, spent>>

\* s.used lives in memory only.
Restart(i) ==
  /\ used' = [used EXCEPT ![i] = {}]
  /\ spent' = [spent EXCEPT ![i] = [ch \in Challenge |-> 0]]
  /\ req' = [c \in Client |-> IF req[c] # NoRequest /\ req[c].at = i
                                THEN NoRequest ELSE req[c]]
  /\ UNCHANGED <<now, issued, ts>>

\* Time passes, but no handler is held up longer than MaxHold.
Tick ==
  /\ now < MaxTime
  /\ \A c \in {d \in Client : req[d] # NoRequest} :
       Clock(req[c].at) < req[c].t + MaxHold
  /\ now' = now + 1
  /\ UNCHANGED <<issued, ts, used, req, spent>>

Next ==
  \/ \E i \in Signer, ch \in Challenge : NewChallenge(i, ch)
  \/ \E c \in Client, i \in Signer, ch \in Challenge : Arrive(c, i, ch)
  \/ \E c \in Client : Accept(c) \/ Reject(c)
  \/ \E i \in Signer : Gc(i) \/ Restart(i)
  \/ Tick

Spec == Init /\ [][Next]_vars

\* While a signer runs it accepts a challenge at most once, even though gc
\* forgets spent ones while requests with an older `now` are in flight
\* (checkPoW, server.gc).
SpentOnce == \A i \in Signer, ch \in Challenge : spent[i][ch] <= 1
=============================================================================
