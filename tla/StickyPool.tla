---------------------------- MODULE StickyPool ----------------------------
(***************************************************************************)
(* A load-balance group with sticky sessions under concurrent requests     *)
(* (scheduler/sticky.go, LoadBalanceStrategy.executeStickyLoop), the two   *)
(* layers of buckets every attempt pays (RateLimit), and Apply, which      *)
(* gives the handlers new rules and the scheduler a new manager, but       *)
(* leaves the process-wide sticky store as it is.                          *)
(*                                                                         *)
(* A request reads the rules when it is materialized and the scheduler     *)
(* when it is executed: an Apply may come in between.  Its clock readings  *)
(* are the start of the schedule, for the look-up, and the moment of       *)
(* success, for the binding.                                               *)
(*                                                                         *)
(* Control of a request: idle, materialized, pick, admit, sent.            *)
(***************************************************************************)
EXTENDS RateLimit, Sequences, SequencesExt

CONSTANTS
  Slots,          \* requests at the same time
  Keys, NoKey,    \* key names, and the absence of one
  Candidates,     \* the group's leaves, in configuration order
  Provider,       \* of a candidate
  Weight,         \* of a candidate
  Rules,          \* the rulesets of successive Applies: qpm of providers and of candidates
  IdleTimeout, PruneInterval,
  MaxRequests, MaxClock, MaxFailures   \* bounds of the model

Cands == ToSet(Candidates)

\* A group has a leaf (executeGroup refuses one without), and a rate for each.
ASSUME PoolAssumption ==
  /\ IsFiniteSet(Slots)
  /\ NoKey \notin Keys
  /\ Candidates \in Seq(Cands) /\ Candidates # <<>> /\ "nobody" \notin Cands
  /\ Weight \in [Cands -> Nat \ {0}]
  /\ DOMAIN Provider = Cands
  /\ Rules \in Seq(ToSet(Rules)) /\ Rules # <<>>
  /\ \A v \in DOMAIN Rules :
       /\ \A p \in DOMAIN Rules[v].providers : Rules[v].providers[p] \in Nat
       /\ Rules[v].models \in [Cands -> Nat]
  /\ IdleTimeout \in Nat \ {0} /\ PruneInterval \in Nat
  /\ MaxRequests \in Nat /\ MaxClock \in Nat /\ MaxFailures \in Nat

VARIABLES
  clock,
  version,     \* of the rules in force and of the scheduler that goes with them
  manager,     \* the manager of each version
  stickies,    \* affinity to [candidate, expiresAt]
  successCnt,
  lastPrune,
  req,
  served,      \* history: successes of each candidate
  swayed,      \* history: a binding, a failure or a refusal has had a say in a pick
  last,        \* history: the last success of a key, [candidate, at]
  given,       \* history: the permits of each version's identities, [at, rules]
  started, failures

store == <<stickies, successCnt, lastPrune>>
history == <<served, swayed, last, given>>
vars == <<clock, version, manager, store, req, history, started, failures>>

Nobody == "nobody"
Idle == [pc |-> "idle", key |-> NoKey, rules |-> 1, sched |-> 1, now |-> 0, remaining |-> {},
         picked |-> Nobody]
Managers == DOMAIN Rules
NoPermits == [v \in Managers |-> [c \in Cands |-> <<>>]]

TypeOK ==
  /\ version \in Managers /\ DOMAIN manager = 1 .. version
  /\ DOMAIN stickies \subseteq Keys /\ successCnt \in [Cands -> Nat]
  /\ \A s \in Slots :
       /\ req[s].pc \in {"idle", "materialized", "pick", "admit", "sent"}
       /\ req[s].remaining \subseteq Cands /\ req[s].picked \in Cands \cup {Nobody}

Init ==
  /\ clock = 0 /\ version = 1
  /\ manager = <<NewManager(Rules[1].providers)>>
  /\ stickies = <<>> /\ successCnt = [c \in Cands |-> 0] /\ lastPrune = 0
  /\ req = [s \in Slots |-> Idle]
  /\ served = [c \in Cands |-> 0] /\ swayed = FALSE
  /\ last = [k \in Keys |-> [candidate |-> Nobody, at |-> 0]]
  /\ given = NoPermits
  /\ started = 0 /\ failures = 0

------------------------------------------------------------------------------
(* StickyStore *)

Unexpired(bindings, now) ==
  {k \in DOMAIN bindings : now < bindings[k].expiresAt}
Only(bindings, keys) == [k \in keys |-> bindings[k]]

\* Every access prunes, once an interval.
Pruned(now) ==
  IF now < lastPrune + PruneInterval THEN stickies ELSE Only(stickies, Unexpired(stickies, now))
PrunedAt(now) == IF now < lastPrune + PruneInterval THEN lastPrune ELSE now

Lookup(key, now) ==
  IF key \in Unexpired(stickies, now) THEN stickies[key].candidate ELSE Nobody

\* The least successes for its weight, then the greater weight, then the order.
Place(c) == CHOOSE i \in DOMAIN Candidates : Candidates[i] = c
PickDeficit(remaining) ==
  LET Score(a, b) == successCnt[a] * Weight[b]
      Better(a, b) ==
        \/ Score(a, b) < Score(b, a)
        \/ Score(a, b) = Score(b, a) /\ Weight[a] > Weight[b]
  IN CHOOSE c \in remaining :
       \A d \in remaining \ {c} : Better(c, d) \/ (~ Better(d, c) /\ Place(c) < Place(d))

PickStickyOrDeficit(r) ==
  LET bound == Lookup(r.key, r.now)
  IN IF r.key # NoKey /\ bound \in r.remaining THEN bound ELSE PickDeficit(r.remaining)

------------------------------------------------------------------------------
(* Requests *)

\* A handler materializes the plan: the leaves carry the qpm of the rules it sees.
Materialize(s) ==
  /\ req[s].pc = "idle" /\ started < MaxRequests
  /\ started' = started + 1
  /\ \E k \in Keys \cup {NoKey} :
       req' = [req EXCEPT ![s] = [Idle EXCEPT !.pc = "materialized", !.key = k, !.rules = version]]
  /\ UNCHANGED <<clock, version, manager, store, history, failures>>

\* LoadBalanceStrategy.execute: the healthy leaves, at the time of the start, with the
\* scheduler in force by now.
Execute(s) ==
  /\ req[s].pc = "materialized"
  /\ \E down \in SUBSET Cands :
       /\ \/ down = {} /\ UNCHANGED <<failures, swayed>>
          \/ /\ down # {} /\ down # Cands /\ failures < MaxFailures
             /\ failures' = failures + 1 /\ swayed' = TRUE
       /\ req' = [req EXCEPT ![s].pc = "pick", ![s].sched = version, ![s].now = clock,
                             ![s].remaining = Cands \ down]
  /\ UNCHANGED <<clock, version, manager, store, served, last, given, started>>

Pick(s) ==
  LET r == req[s]
      bound == Lookup(r.key, r.now)
  IN /\ r.pc = "pick"
     /\ req' = [req EXCEPT ![s].pc = "admit", ![s].picked = PickStickyOrDeficit(r)]
     /\ swayed' = (swayed \/ (r.key # NoKey /\ bound # Nobody))
     /\ IF r.key = NoKey THEN UNCHANGED <<stickies, lastPrune>>
        ELSE stickies' = Only(Pruned(r.now), DOMAIN Pruned(r.now) \ ({r.key} \ Unexpired(stickies, r.now)))
             /\ lastPrune' = PrunedAt(r.now)
     /\ UNCHANGED <<clock, version, manager, successCnt, served, last, given, started, failures>>

\* The candidate is out for this request; without another one it ends.
Removed(r) ==
  IF r.remaining = {r.picked} THEN Idle
  ELSE [r EXCEPT !.pc = "pick", !.remaining = @ \ {r.picked}, !.picked = Nobody]

\* executeTask pays once: a refusal leaves the candidate's health alone.
Admit(s) ==
  LET r == req[s]
      qpm == Rules[r.rules].models[r.picked]
      allowed == Allow(manager[r.sched], Provider[r.picked], r.picked, qpm)
  IN /\ r.pc = "admit"
     /\ manager' = [manager EXCEPT ![r.sched] = allowed.manager]
     /\ req' = [req EXCEPT ![s] = IF allowed.ok THEN [r EXCEPT !.pc = "sent"] ELSE Removed(r)]
     /\ given' = IF allowed.ok /\ qpm > 0
                  THEN [given EXCEPT ![r.sched][r.picked] = Append(@, [at |-> clock, rules |-> r.rules])]
                  ELSE given
     /\ swayed' = (swayed \/ ~ allowed.ok)
     /\ UNCHANGED <<clock, version, store, served, last, started, failures>>

Fails(s) ==
  /\ req[s].pc = "sent" /\ failures < MaxFailures
  /\ failures' = failures + 1 /\ swayed' = TRUE
  /\ req' = [req EXCEPT ![s] = Removed(req[s])]
  /\ UNCHANGED <<clock, version, manager, store, served, last, given, started>>

Remembered(s, expiresAt) ==
  [k \in DOMAIN Pruned(clock) \cup {req[s].key} |->
     IF k = req[s].key THEN [candidate |-> req[s].picked, expiresAt |-> expiresAt] ELSE stickies[k]]

IncrSuccess(c) == successCnt' = [successCnt EXCEPT ![c] = @ + 1]

\* What a success leaves behind, whatever is recorded of it.
Noted(s) ==
  LET r == req[s]
  IN /\ r.pc = "sent"
     /\ served' = [served EXCEPT ![r.picked] = @ + 1]
     /\ last' = IF r.key = NoKey THEN last ELSE [last EXCEPT ![r.key] = [candidate |-> r.picked, at |-> clock]]
     /\ req' = [req EXCEPT ![s] = Idle]
     /\ UNCHANGED <<clock, version, manager, swayed, given, started, failures>>

\* mutant: the binding lasts from the start of the request.
RecordAtStart(s) ==
  /\ Noted(s)
  /\ IncrSuccess(req[s].picked)
  /\ IF req[s].key = NoKey THEN UNCHANGED <<stickies, lastPrune>>
     ELSE stickies' = Remembered(s, req[s].now + IdleTimeout) /\ lastPrune' = PrunedAt(clock)

\* mutant: only requests with a key are counted.
RecordWithKey(s) ==
  /\ Noted(s)
  /\ IF req[s].key = NoKey THEN UNCHANGED store
     ELSE /\ IncrSuccess(req[s].picked)
          /\ stickies' = Remembered(s, clock + IdleTimeout) /\ lastPrune' = PrunedAt(clock)

\* The attempt succeeds, recordStickySuccess: the count grows, and a key is bound from now on.
RecordStickySuccess(s) ==
  /\ Noted(s)
  /\ IncrSuccess(req[s].picked)
  /\ IF req[s].key = NoKey THEN UNCHANGED <<stickies, lastPrune>>
     ELSE stickies' = Remembered(s, clock + IdleTimeout) /\ lastPrune' = PrunedAt(clock)

Apply ==
  /\ version < Len(Rules)
  /\ version' = version + 1
  /\ manager' = Append(manager, NewManager(Rules[version + 1].providers))
  /\ UNCHANGED <<clock, store, req, history, started, failures>>

Tick ==
  /\ clock < MaxClock
  /\ clock' = clock + 1
  /\ manager' = [v \in DOMAIN manager |-> ManagerRefilled(manager[v])]
  /\ UNCHANGED <<version, store, req, history, started, failures>>

Request(s) ==
  \/ Materialize(s) \/ Execute(s) \/ Pick(s) \/ Admit(s)
  \/ Fails(s) \/ RecordStickySuccess(s)

Next == (\E s \in Slots : Request(s)) \/ Apply \/ Tick

Spec == Init /\ [][Next]_vars

------------------------------------------------------------------------------
(* Properties *)

\* Successes are shared by weight: while nothing but the deficit decides, no candidate
\* is ahead of another by more than the requests in flight, although a count grows
\* only when its attempt is over (PickDeficit, IncrSuccess).
FairShare ==
  ~ swayed =>
    \A a, b \in Cands :
      served[a] * Weight[b] <= served[b] * Weight[a] + Cardinality(Slots) * Weight[b]

\* A session stays where it was last served: a request of a key whose last success is
\* less than the idle timeout ago goes back to that candidate if it may, whatever other
\* requests of the key have bound, pruned or lost meanwhile (Lookup, Remember).
SessionStays ==
  [][\A s \in Slots :
       LET r == req[s]
           home == IF r.key \in Keys THEN last[r.key] ELSE [candidate |-> Nobody, at |-> 0]
       IN r.pc = "pick" /\ req'[s].pc = "admit" /\ home.candidate \in r.remaining
            /\ clock < home.at + IdleTimeout
          => req'[s].picked = home.candidate]_vars

\* Between any two permits of an identity, the requests of all rules together are given no
\* more than its burst and what its rate makes in that time.
Keeps(permits, rate) ==
  \A i, j \in DOMAIN permits :
    i <= j => PermitCost * (j + 1 - i) <= Full(rate) + rate * (permits[j].at - permits[i].at)

\* In any length of time an identity is given no more permits than one rate allows, by
\* requests of whatever rules: that of the rules the first of them was materialized with,
\* which an Apply may have replaced before the manager was made (Allow, modelLimiter).
\* Requests without a qpm and providers the manager does not know are not limited.
WithinRate ==
  \A v \in DOMAIN manager : \A c \in DOMAIN manager[v].modelLimiters :
    Keeps(given[v][c], Rules[given[v][c][1].rules].models[c])

\* What the comment of modelLimiter says, and a request late after an Apply breaks: the
\* rate is the one of the rules the manager came with. Not an invariant.
OwnRate ==
  \A v \in DOMAIN manager : \A c \in DOMAIN manager[v].modelLimiters :
    Keeps(given[v][c], Rules[v].models[c])
=============================================================================
