----------------------------- MODULE HubSession -----------------------------
(***************************************************************************)
(* Which spoke connection a cascade hub holds (cascade/hub.go, health.go,  *)
(* hub_registry.go) while spokes connect, are replaced and are lost, and   *)
(* while Admin Apply swaps the hub for a new one                           *)
(* (cmd/oh-my-api/cascade_runtime.go, swapHub).  Hubs are numbered in the  *)
(* order they are built; the registry tells the /cascade route and the     *)
(* provider clients which one is current.                                  *)
(*                                                                         *)
(* The hub writes the health keys of its provider as sessions come and go, *)
(* and so do the jobs' attempts, through the same checker (Breaker).  The  *)
(* pin of a missing session is an override of 365 days, so it does not run *)
(* out here; an ordinary cooldown does.  ReportSessionHealthy and          *)
(* ReportSessionUnhealthy loop over the protocols; the keys are            *)
(* independent, so an instance has one.                                    *)
(***************************************************************************)
EXTENDS Breaker

CONSTANTS Conns,       \* connections spokes open to /cascade
          None,        \* no session
          MaxApplies,  \* bound of the model: Applies
          MaxJobs      \* bound of the model: attempts that report to the checker

ASSUME HubAssumption ==
  None \notin Conns /\ MaxApplies \in Nat /\ MaxJobs \in Nat

VARIABLES
  pinned,     \* keys whose override is the pin
  registry,   \* the current hub (HubRegistry, cascadeRuntime.hub)
  apply,      \* control of swapHub: "off", "built", "closing", "tearing", "pinning"
  torn,       \* the session Hub.Close took out and has yet to close
  session,    \* [Hubs -> Conns or None]: Hub.session
  pc, hub,    \* [Conns -> control of ServeHTTP and runSession], and the hub serving
  closed,     \* connections whose Session is closed
  lost,       \* connections whose websocket is down
  started, running   \* attempts through the cascade provider: ever, under way

Hubs == 0 .. MaxApplies

healthVars == <<breakerVars, pinned>>
applyVars == <<registry, apply, torn>>
connVars == <<pc, hub>>
jobVars == <<started, running>>
vars == <<healthVars, applyVars, session, connVars, closed, lost, jobVars>>

\* SetHealthChecker of the first hub finds no session and pins.
Init ==
  /\ failureCounts = [k \in Keys |-> 0]
  /\ healthy = [k \in Keys |-> FALSE]
  /\ pinned = Keys
  /\ registry = 0 /\ apply = "off" /\ torn = None
  /\ session = [h \in Hubs |-> None]
  /\ pc = [c \in Conns |-> "idle"]
  /\ hub = [c \in Conns |-> 0]
  /\ closed = {} /\ lost = {}
  /\ started = 0 /\ running = 0

SessionHealthy ==
  /\ failureCounts' = [k \in Keys |-> 0]
  /\ healthy' = [k \in Keys |-> TRUE]
  /\ pinned' = {}

SessionUnhealthy ==
  /\ failureCounts' = [k \in Keys |-> 0]
  /\ healthy' = [k \in Keys |-> FALSE]
  /\ pinned' = Keys

Goes(c, to) == pc' = [pc EXCEPT ![c] = to]

CloseKeepsConn(C) == closed' = closed \cup C /\ UNCHANGED lost   \* mutant: no conn.Close

\* Session.closeWithReason: the first call closes the websocket.
CloseSession(C) == closed' = closed \cup C /\ lost' = lost \cup C

------------------------------------------------------------------------------
(* ServeHTTP and runSession of a connection *)

Dial(c) ==
  /\ pc[c] = "idle"
  /\ Goes(c, "dialed") /\ hub' = [hub EXCEPT ![c] = registry]
  /\ UNCHANGED <<healthVars, applyVars, session, closed, lost, jobVars>>

\* What replaceSession does to the session the hub held.
Replace(h) == CloseSession({session[h]} \ {None})

\* handleRegister up to replaceSession, which holds the hub's lock.
Register(c) ==
  /\ pc[c] = "dialed" /\ c \notin lost
  /\ Replace(hub[c])
  /\ session' = [session EXCEPT ![hub[c]] = c]
  /\ SessionHealthy
  /\ Goes(c, "registered")
  /\ UNCHANGED <<applyVars, hub, jobVars>>

\* A bad frame, a wrong token, no frame in time.
RegisterFails(c) ==
  /\ pc[c] = "dialed"
  /\ Goes(c, "over") /\ lost' = lost \cup {c}
  /\ UNCHANGED <<healthVars, applyVars, session, hub, closed, jobVars>>

ClearRegardless(c) ==              \* mutant: without the test h.session == session
  session' = [session EXCEPT ![hub[c]] = None] /\ SessionUnhealthy

ClearKeepsHealth(c) ==             \* mutant: the keys are not pinned
  /\ session' = [session EXCEPT ![hub[c]] = IF @ = c THEN None ELSE @]
  /\ UNCHANGED healthVars

ClearNever(c) == UNCHANGED <<session, healthVars>>   \* mutant: no clearSession

\* clearSession: only the hub's own session is taken out.
Clear(c) ==
  \/ /\ session[hub[c]] = c
     /\ session' = [session EXCEPT ![hub[c]] = None]
     /\ SessionUnhealthy
  \/ session[hub[c]] # c /\ UNCHANGED <<session, healthVars>>

\* The register timeout may be over by now: the websocket is closed, the
\* Session is not (nobody fails its jobs).
Start(c) ==
  /\ pc[c] = "registered"
  /\ \/ Goes(c, "running") /\ UNCHANGED <<session, healthVars, lost>>
     \/ Goes(c, "over") /\ Clear(c) /\ lost' = lost \cup {c}
  /\ UNCHANGED <<applyVars, hub, closed, jobVars>>

RunEnds(c) ==
  /\ pc[c] = "running"
  /\ c \in lost
  /\ CloseSession({c})
  /\ Goes(c, "ending")
  /\ UNCHANGED <<healthVars, applyVars, session, hub, jobVars>>

RunClears(c) ==
  /\ pc[c] = "ending"
  /\ Clear(c)
  /\ Goes(c, "over")
  /\ UNCHANGED <<applyVars, hub, closed, lost, jobVars>>

Lose(c) ==
  /\ pc[c] \in {"dialed", "registered", "running"} /\ c \notin lost
  /\ lost' = lost \cup {c}
  /\ UNCHANGED <<healthVars, applyVars, session, connVars, closed, jobVars>>

Serve(c) == Start(c) \/ RunEnds(c) \/ RunClears(c)

------------------------------------------------------------------------------
(* swapHub *)

Old == registry - 1

\* buildHubLocked: a new hub has no session, and its SetHealthChecker says so.
Build ==
  /\ apply = "off" /\ registry < MaxApplies
  /\ apply' = "built"
  /\ SessionUnhealthy
  /\ UNCHANGED <<registry, torn, session, connVars, closed, lost, jobVars>>

SetRegistry ==
  /\ apply = "built"
  /\ registry' = registry + 1
  /\ apply' = "closing"
  /\ UNCHANGED <<healthVars, torn, session, connVars, closed, lost, jobVars>>

\* Hub.Close, in three steps: take the session out, close it, pin.
CloseTakes ==
  /\ apply = "closing"
  /\ torn' = session[Old]
  /\ session' = [session EXCEPT ![Old] = None]
  /\ apply' = "tearing"
  /\ UNCHANGED <<healthVars, registry, connVars, closed, lost, jobVars>>

CloseTears ==
  /\ apply = "tearing"
  /\ CloseSession({torn} \ {None})
  /\ torn' = None
  /\ apply' = "pinning"
  /\ UNCHANGED <<healthVars, registry, session, connVars, jobVars>>

ClosePins ==
  /\ apply = "pinning"
  /\ SessionUnhealthy
  /\ apply' = "off"
  /\ UNCHANGED <<registry, torn, session, connVars, closed, lost, jobVars>>

Swap == SetRegistry \/ CloseTakes \/ CloseTears \/ ClosePins

------------------------------------------------------------------------------
(* Attempts through the cascade provider, and the clock *)

\* CascadeReady lets the attempt through.
StartJob ==
  /\ started < MaxJobs
  /\ session[registry] # None
  /\ started' = started + 1 /\ running' = running + 1
  /\ UNCHANGED <<healthVars, applyVars, session, connVars, closed, lost>>

\* Its outcome reaches the checker later, whatever became of the session.  The
\* Threshold-th failure puts an ordinary cooldown in the place of the override.
ReportJob(k) ==
  /\ running > 0 /\ running' = running - 1
  /\ \/ ReportSuccess(k) /\ pinned' = pinned \ {k}
     \/ /\ ReportFailure(k)
        /\ pinned' = IF Bump(failureCounts[k]) < Threshold THEN pinned ELSE pinned \ {k}
  /\ UNCHANGED <<applyVars, session, connVars, closed, lost, started>>

\* A cooldown that is not a pin runs out.
Cool(k) ==
  /\ k \notin pinned
  /\ Recover(k)
  /\ UNCHANGED <<pinned, applyVars, session, connVars, closed, lost, jobVars>>

Next ==
  \/ \E c \in Conns : Dial(c) \/ Register(c) \/ RegisterFails(c) \/ Lose(c) \/ Serve(c)
  \/ Build \/ Swap
  \/ StartJob \/ \E k \in Keys : ReportJob(k) \/ Cool(k)

\* The hub's goroutines run; spokes, Applies and jobs need not come, and that the read
\* loop of a connection that is down comes to see it is not assumed (RunEnds;
\* LostSessionCleared).
Spec ==
  /\ Init /\ [][Next]_vars
  /\ WF_vars(Swap) /\ \A c \in Conns : WF_vars(Start(c) \/ RunClears(c))

------------------------------------------------------------------------------
TypeOK ==
  /\ BreakerTypeOK /\ pinned \subseteq Keys
  /\ registry \in Hubs /\ torn \in Conns \cup {None}
  /\ apply \in {"off", "built", "closing", "tearing", "pinning"}
  /\ session \in [Hubs -> Conns \cup {None}]
  /\ pc \in [Conns -> {"idle", "dialed", "registered", "running", "ending", "over"}]
  /\ hub \in [Conns -> Hubs]
  /\ closed \subseteq lost /\ lost \subseteq Conns
  /\ started \in 0 .. MaxJobs /\ running \in 0 .. started

\* A hub points to a connection it serves and never to one it has finished with,
\* so CascadeReady never lets a job through to a session nobody will ever close.
SessionServed ==
  \A h \in Hubs : session[h] # None =>
    hub[session[h]] = h /\ pc[session[h]] \in {"registered", "running", "ending"}

\* The converse: a connection that is up and served is its hub's session, unless
\* Close is about to close it.  The late end of a replaced connection does not
\* take its successor out, and no two connections of a hub are up together.
LiveConnServes ==
  \A c \in Conns :
    (pc[c] \in {"registered", "running"} /\ c \notin lost)
      => (session[hub[c]] = c \/ torn = c)

\* Until the first Apply and the first job, the keys say exactly whether there is
\* a session, whichever connections came, were replaced and were lost.
HealthFollowsSession ==
  registry = 0 /\ apply = "off" /\ started = 0 =>
    \A k \in Keys : healthy[k] <=> session[registry] # None

\* The read loop of c does not run on for ever over a connection that is down.  It can:
\* deliverResult writes to the pipe of a job (job.go:86), and where the job's waiter was
\* taken out of the map before it was failed nobody ever reads that pipe (TornDown of
\* CascadeJob).
LoopReturns(c) == []<>~ (pc[c] = "running" /\ c \in lost)

\* A session whose connection is lost does not stay, and jobs stop being sent to it,
\* however its registration, its replacement, a hub swap and the end of other
\* connections interleave: if its own read loop returns, whatever holds the others.
LostSessionCleared ==
  \A c \in Conns : LoopReturns(c) =>
    ((session[hub[c]] = c /\ c \in lost) ~> session[hub[c]] # c)

\* After an Apply the old hub holds no session: its spoke has to reconnect
\* (README.md:188).
OldHubEmpty == apply = "off" => \A h \in Hubs : h < registry => session[h] = None

\* The hub's session, the connections and the health keys tell the same story, though
\* each is written under another lock (Hub.mu, the connection's, the checker's).
SessionAgrees == TypeOK /\ SessionServed /\ LiveConnServes /\ HealthFollowsSession
==============================================================================
