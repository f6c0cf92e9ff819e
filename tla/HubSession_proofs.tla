-------------------------- MODULE HubSession_proofs --------------------------
(***************************************************************************)
(* For any connections, keys, number of Applies and of jobs: the hub's     *)
(* session, the connections and the health keys tell the same story, as    *)
(* the run hub_session checks of three connections and one Apply.          *)
(***************************************************************************)
EXTENDS HubSession, TLAPS

\* Hub.Close has a session in hand between taking it out and closing it only, and
\* what it closes is the hub before the current one.
SwapInv ==
  /\ torn # None => apply = "tearing"
  /\ apply \in {"closing", "tearing", "pinning"} => registry > 0
  /\ apply = "built" => registry < MaxApplies

\* A connection is served by a hub that was current when it came.
HubsBuilt == \A c \in Conns : hub[c] <= registry

\* Before the first job reports, nothing but the pin makes a key unhealthy: no
\* cooldown can run out while there is no session.
PinsOnly == started = 0 => \A k \in Keys : healthy[k] \/ k \in pinned

\* What the run checks, and what makes it inductive.
IInv == SessionAgrees /\ SwapInv /\ HubsBuilt /\ PinsOnly

------------------------------------------------------------------------------
(* The parts that several actions share *)

Story == SessionServed /\ LiveConnServes

\* ReportSessionHealthy and ReportSessionUnhealthy write every key of the hub.
LEMMA SessionHealthySays ==
  ASSUME SessionHealthy
  PROVE  /\ BreakerTypeOK' /\ pinned' \subseteq Keys
         /\ \A k \in Keys : healthy'[k]
BY BreakerAssumption DEF SessionHealthy, BreakerTypeOK, BreakerAssumption

LEMMA SessionUnhealthySays ==
  ASSUME SessionUnhealthy
  PROVE  /\ BreakerTypeOK' /\ pinned' \subseteq Keys
         /\ \A k \in Keys : ~ healthy'[k] /\ k \in pinned'
BY BreakerAssumption DEF SessionUnhealthy, BreakerTypeOK, BreakerAssumption

\* A step that leaves the session and the health alone, and the Applies, keeps what
\* relates them.
LEMMA HealthKept ==
  ASSUME IInv, UNCHANGED <<healthVars, registry, apply, session, started>>
  PROVE  HealthFollowsSession' /\ PinsOnly'
BY DEF IInv, SessionAgrees, HealthFollowsSession, PinsOnly, healthVars, breakerVars

\* clearSession takes the session out of c's hub if it is c, and nothing else; the
\* keys follow.
LEMMA ClearSays ==
  ASSUME IInv, NEW c \in Conns, Clear(c), UNCHANGED <<registry, apply, started>>
  PROVE  /\ session' \in [Hubs -> Conns \cup {None}]
         /\ session'[hub[c]] # c
         /\ \A h \in Hubs : session'[h] = session[h] \/ (session[h] = c /\ session'[h] = None)
         /\ BreakerTypeOK' /\ pinned' \subseteq Keys
         /\ HealthFollowsSession' /\ PinsOnly'
<1>0. /\ TypeOK /\ HubAssumption /\ hub[c] \in Hubs /\ None \notin Conns
      /\ registry \in Nat /\ hub[c] <= registry
      /\ HealthFollowsSession /\ PinsOnly
  BY HubAssumption DEF IInv, SessionAgrees, TypeOK, HubAssumption, Hubs, HubsBuilt
<1>1. CASE session[hub[c]] = c
  <2>1. session' = [session EXCEPT ![hub[c]] = None] /\ SessionUnhealthy
    BY <1>1 DEF Clear
  <2>2. registry = 0 => hub[c] = registry
    BY <1>0 DEF Hubs
  <2>3. HealthFollowsSession'
    BY <1>0, <2>1, <2>2, SessionUnhealthySays DEF HealthFollowsSession, TypeOK
  <2>4. PinsOnly'
    BY <2>1, SessionUnhealthySays DEF PinsOnly
  <2>5. /\ session' \in [Hubs -> Conns \cup {None}]
        /\ session'[hub[c]] # c
        /\ \A h \in Hubs : session'[h] = session[h] \/ (session[h] = c /\ session'[h] = None)
    BY <1>0, <1>1, <2>1 DEF TypeOK
  <2> QED BY <2>1, <2>3, <2>4, <2>5, SessionUnhealthySays
<1>2. CASE session[hub[c]] # c /\ UNCHANGED <<session, healthVars>>
  <2>1. HealthFollowsSession' /\ PinsOnly'
    BY <1>2, HealthKept
  <2>2. BreakerTypeOK' /\ pinned' \subseteq Keys
    BY <1>0, <1>2 DEF TypeOK, healthVars, breakerVars, BreakerTypeOK
  <2> QED BY <1>0, <1>2, <2>1, <2>2 DEF TypeOK
<1> QED BY <1>1, <1>2 DEF Clear

------------------------------------------------------------------------------
(* ServeHTTP and runSession *)

LEMMA Initially == Init => IInv
<1> SUFFICES ASSUME Init PROVE IInv
  OBVIOUS
<1> USE HubAssumption, BreakerAssumption DEF Init, HubAssumption, BreakerAssumption, Hubs
<1>1. TypeOK
  BY DEF TypeOK, BreakerTypeOK
<1>2. SessionServed /\ LiveConnServes
  BY DEF SessionServed, LiveConnServes
<1>3. HealthFollowsSession /\ SwapInv /\ HubsBuilt /\ PinsOnly
  BY DEF HealthFollowsSession, SwapInv, HubsBuilt, PinsOnly
<1> QED BY <1>1, <1>2, <1>3 DEF IInv, SessionAgrees

LEMMA DialKeeps ==
  ASSUME IInv, NEW c \in Conns, Dial(c)
  PROVE  IInv'
<1>0. TypeOK /\ Story /\ SwapInv /\ HubsBuilt
  BY DEF IInv, SessionAgrees, Story
<1>1. TypeOK'
  BY <1>0 DEF TypeOK, Dial, Goes, healthVars, breakerVars, applyVars, jobVars, BreakerTypeOK
<1>2. SessionServed' /\ LiveConnServes'
  BY <1>0 DEF TypeOK, Story, SessionServed, LiveConnServes, Dial, Goes, applyVars
<1>3. HealthFollowsSession' /\ PinsOnly'
  BY HealthKept DEF Dial, applyVars, jobVars
<1>4. SwapInv' /\ HubsBuilt'
  BY <1>0 DEF TypeOK, Hubs, SwapInv, HubsBuilt, Dial, applyVars
<1> QED BY <1>1, <1>2, <1>3, <1>4 DEF IInv, SessionAgrees

\* A connection that registers is its hub's session from then on, and whichever
\* connection was is closed with it.
LEMMA RegisterKeeps ==
  ASSUME IInv, NEW c \in Conns, Register(c)
  PROVE  IInv'
<1>0. /\ TypeOK /\ Story /\ SwapInv /\ HubsBuilt /\ HealthFollowsSession
      /\ None \notin Conns /\ hub[c] \in Hubs /\ session[hub[c]] \in Conns \cup {None}
  BY HubAssumption DEF IInv, SessionAgrees, Story, TypeOK, HubAssumption
<1>1. TypeOK'
  BY <1>0, SessionHealthySays
  DEF TypeOK, Register, Goes, Replace, CloseSession, applyVars, jobVars
<1>2. SessionServed'
  BY <1>0 DEF TypeOK, Story, SessionServed, Register, Goes, applyVars
<1>3. LiveConnServes'
  BY <1>0 DEF TypeOK, Story, LiveConnServes, Register, Goes, Replace, CloseSession, applyVars
<1>4. SwapInv' /\ HubsBuilt'
  BY <1>0 DEF SwapInv, HubsBuilt, Register, applyVars
<1>5. PinsOnly'
  BY SessionHealthySays DEF PinsOnly, Register
<1>6. HealthFollowsSession'
  <2>1. registry = 0 => hub[c] = registry
    BY <1>0 DEF TypeOK, Hubs, HubsBuilt
  <2>2. session'[hub[c]] = c /\ UNCHANGED registry
    BY <1>0 DEF TypeOK, Register, applyVars
  <2> QED BY <1>0, <2>1, <2>2, SessionHealthySays DEF HealthFollowsSession, Register
<1> QED BY <1>1, <1>2, <1>3, <1>4, <1>5, <1>6 DEF IInv, SessionAgrees

LEMMA RegisterFailsKeeps ==
  ASSUME IInv, NEW c \in Conns, RegisterFails(c)
  PROVE  IInv'
<1>0. TypeOK /\ Story /\ SwapInv /\ HubsBuilt
  BY DEF IInv, SessionAgrees, Story
<1>1. TypeOK'
  BY <1>0 DEF TypeOK, RegisterFails, Goes, healthVars, breakerVars, applyVars, jobVars, BreakerTypeOK
<1>2. SessionServed' /\ LiveConnServes'
  BY <1>0 DEF TypeOK, Story, SessionServed, LiveConnServes, RegisterFails, Goes, applyVars
<1>3. HealthFollowsSession' /\ PinsOnly'
  BY HealthKept DEF RegisterFails, applyVars, jobVars
<1>4. SwapInv' /\ HubsBuilt'
  BY <1>0 DEF SwapInv, HubsBuilt, RegisterFails, applyVars
<1> QED BY <1>1, <1>2, <1>3, <1>4 DEF IInv, SessionAgrees

LEMMA LoseKeeps ==
  ASSUME IInv, NEW c \in Conns, Lose(c)
  PROVE  IInv'
<1>0. TypeOK /\ Story /\ SwapInv /\ HubsBuilt
  BY DEF IInv, SessionAgrees, Story
<1>1. TypeOK'
  BY <1>0 DEF TypeOK, Lose, healthVars, breakerVars, applyVars, connVars, jobVars, BreakerTypeOK
<1>2. SessionServed' /\ LiveConnServes'
  BY <1>0 DEF TypeOK, Story, SessionServed, LiveConnServes, Lose, connVars, applyVars
<1>3. HealthFollowsSession' /\ PinsOnly'
  BY HealthKept DEF Lose, applyVars, jobVars
<1>4. SwapInv' /\ HubsBuilt'
  BY <1>0 DEF SwapInv, HubsBuilt, Lose, applyVars, connVars
<1> QED BY <1>1, <1>2, <1>3, <1>4 DEF IInv, SessionAgrees

\* A connection that ends after clearSession is nobody's session any more.
LEMMA ClearedKeeps ==
  ASSUME IInv, NEW c \in Conns, pc[c] \in {"registered", "ending"},
         Clear(c), Goes(c, "over"), lost \subseteq lost', lost' \subseteq Conns,
         UNCHANGED <<applyVars, hub, closed, jobVars>>
  PROVE  IInv'
<1>0. TypeOK /\ Story /\ SwapInv /\ HubsBuilt /\ None \notin Conns
  BY HubAssumption DEF IInv, SessionAgrees, Story, HubAssumption
<1>1. /\ session' \in [Hubs -> Conns \cup {None}]
      /\ session'[hub[c]] # c
      /\ \A h \in Hubs : session'[h] = session[h] \/ (session[h] = c /\ session'[h] = None)
      /\ BreakerTypeOK' /\ pinned' \subseteq Keys
      /\ HealthFollowsSession' /\ PinsOnly'
  BY ClearSays DEF applyVars, jobVars
<1>2. TypeOK'
  BY <1>0, <1>1 DEF TypeOK, Goes, applyVars, jobVars
<1>3. SessionServed'
  BY <1>0, <1>1 DEF TypeOK, Story, SessionServed, Goes
<1>4. LiveConnServes'
  <2> SUFFICES ASSUME NEW d \in Conns, pc'[d] \in {"registered", "running"}, d \notin lost'
               PROVE  session'[hub[d]] = d \/ torn = d
    BY DEF LiveConnServes, applyVars
  <2>1. d # c /\ pc[d] = pc'[d] /\ d \notin lost
    BY <1>0 DEF TypeOK, Goes
  <2> QED BY <1>0, <1>1, <2>1 DEF TypeOK, Story, LiveConnServes
<1>5. SwapInv' /\ HubsBuilt'
  BY <1>0 DEF SwapInv, HubsBuilt, applyVars
<1> QED BY <1>1, <1>2, <1>3, <1>4, <1>5 DEF IInv, SessionAgrees

LEMMA ServeKeeps ==
  ASSUME IInv, NEW c \in Conns, Serve(c)
  PROVE  IInv'
<1>0. TypeOK /\ Story /\ SwapInv /\ HubsBuilt /\ lost \subseteq Conns
  BY DEF IInv, SessionAgrees, Story, TypeOK
<1>1. CASE Start(c)
  <2>1. CASE Goes(c, "running") /\ UNCHANGED <<session, healthVars, lost>>
    <3>1. TypeOK'
      BY <1>0, <1>1, <2>1
      DEF TypeOK, Start, Goes, healthVars, breakerVars, applyVars, jobVars, BreakerTypeOK
    <3>2. SessionServed' /\ LiveConnServes'
      BY <1>0, <1>1, <2>1 DEF TypeOK, Story, SessionServed, LiveConnServes, Start, Goes, applyVars
    <3>3. HealthFollowsSession' /\ PinsOnly'
      BY <1>1, <2>1, HealthKept DEF Start, applyVars, jobVars
    <3>4. SwapInv' /\ HubsBuilt'
      BY <1>0, <1>1 DEF SwapInv, HubsBuilt, Start, applyVars
    <3> QED BY <3>1, <3>2, <3>3, <3>4 DEF IInv, SessionAgrees
  <2>2. CASE Goes(c, "over") /\ Clear(c) /\ lost' = lost \cup {c}
    BY <1>0, <1>1, <2>2, ClearedKeeps DEF Start
  <2> QED BY <1>1, <2>1, <2>2 DEF Start
<1>2. CASE RunEnds(c)
  <2>1. TypeOK'
    BY <1>0, <1>2
    DEF TypeOK, RunEnds, Goes, CloseSession, healthVars, breakerVars, applyVars, jobVars, BreakerTypeOK
  <2>2. SessionServed' /\ LiveConnServes'
    BY <1>0, <1>2
    DEF TypeOK, Story, SessionServed, LiveConnServes, RunEnds, Goes, CloseSession, applyVars
  <2>3. HealthFollowsSession' /\ PinsOnly'
    BY <1>2, HealthKept DEF RunEnds, applyVars, jobVars
  <2>4. SwapInv' /\ HubsBuilt'
    BY <1>0, <1>2 DEF SwapInv, HubsBuilt, RunEnds, applyVars
  <2> QED BY <2>1, <2>2, <2>3, <2>4 DEF IInv, SessionAgrees
<1>3. CASE RunClears(c)
  BY <1>0, <1>3, ClearedKeeps DEF RunClears
<1> QED BY <1>1, <1>2, <1>3 DEF Serve

------------------------------------------------------------------------------
(* swapHub *)

\* From its first step to its last an Apply says nothing of the health of the hub
\* it builds, and after it there is a hub before the current one.
LEMMA BuildKeeps ==
  ASSUME IInv, Build
  PROVE  IInv'
<1>0. TypeOK /\ Story /\ SwapInv /\ HubsBuilt
  BY DEF IInv, SessionAgrees, Story
<1>1. TypeOK'
  BY <1>0, SessionUnhealthySays DEF TypeOK, Build, connVars, jobVars
<1>2. SessionServed' /\ LiveConnServes'
  BY <1>0 DEF Story, SessionServed, LiveConnServes, Build, connVars
<1>3. HealthFollowsSession' /\ PinsOnly'
  BY SessionUnhealthySays DEF HealthFollowsSession, PinsOnly, Build
<1>4. SwapInv' /\ HubsBuilt'
  BY <1>0 DEF SwapInv, HubsBuilt, Build, connVars
<1> QED BY <1>1, <1>2, <1>3, <1>4 DEF IInv, SessionAgrees

LEMMA SetRegistryKeeps ==
  ASSUME IInv, SetRegistry
  PROVE  IInv'
<1>0. TypeOK /\ Story /\ SwapInv /\ HubsBuilt /\ PinsOnly /\ MaxApplies \in Nat
      /\ registry \in Nat /\ \A c \in Conns : hub[c] \in Nat
  BY HubAssumption DEF IInv, SessionAgrees, Story, HubAssumption, TypeOK, Hubs
<1>1. TypeOK'
  BY <1>0 DEF TypeOK, SetRegistry, Hubs, SwapInv, healthVars, breakerVars, connVars, jobVars, BreakerTypeOK
<1>2. SessionServed' /\ LiveConnServes'
  BY <1>0 DEF Story, SessionServed, LiveConnServes, SetRegistry, connVars
<1>3. HealthFollowsSession' /\ PinsOnly'
  BY <1>0 DEF HealthFollowsSession, PinsOnly, SetRegistry, healthVars, breakerVars, jobVars
<1>4. SwapInv' /\ HubsBuilt'
  BY <1>0 DEF SwapInv, HubsBuilt, SetRegistry, connVars
<1> QED BY <1>1, <1>2, <1>3, <1>4 DEF IInv, SessionAgrees

LEMMA CloseTakesKeeps ==
  ASSUME IInv, CloseTakes
  PROVE  IInv'
<1>0. /\ TypeOK /\ Story /\ SwapInv /\ HubsBuilt /\ PinsOnly
      /\ None \notin Conns /\ torn = None /\ registry > 0 /\ Old \in Hubs
  BY HubAssumption
  DEF IInv, SessionAgrees, Story, HubAssumption, CloseTakes, SwapInv, TypeOK, Hubs, Old
<1>1. TypeOK'
  BY <1>0 DEF TypeOK, CloseTakes, healthVars, breakerVars, connVars, jobVars, BreakerTypeOK
<1>2. SessionServed' /\ LiveConnServes'
  BY <1>0 DEF TypeOK, Story, SessionServed, LiveConnServes, CloseTakes, connVars
<1>3. HealthFollowsSession' /\ PinsOnly'
  BY <1>0 DEF HealthFollowsSession, PinsOnly, CloseTakes, healthVars, breakerVars, jobVars
<1>4. SwapInv' /\ HubsBuilt'
  BY <1>0 DEF SwapInv, HubsBuilt, CloseTakes, connVars
<1> QED BY <1>1, <1>2, <1>3, <1>4 DEF IInv, SessionAgrees

LEMMA CloseTearsKeeps ==
  ASSUME IInv, CloseTears
  PROVE  IInv'
<1>0. TypeOK /\ Story /\ SwapInv /\ HubsBuilt /\ PinsOnly /\ None \notin Conns
  BY HubAssumption DEF IInv, SessionAgrees, Story, HubAssumption
<1>1. TypeOK'
  BY <1>0
  DEF TypeOK, CloseTears, CloseSession, healthVars, breakerVars, connVars, jobVars, BreakerTypeOK
<1>2. SessionServed' /\ LiveConnServes'
  BY <1>0 DEF TypeOK, Story, SessionServed, LiveConnServes, CloseTears, CloseSession, connVars
<1>3. HealthFollowsSession' /\ PinsOnly'
  BY <1>0 DEF HealthFollowsSession, PinsOnly, CloseTears, healthVars, breakerVars, jobVars
<1>4. SwapInv' /\ HubsBuilt'
  BY <1>0 DEF SwapInv, HubsBuilt, CloseTears, connVars
<1> QED BY <1>1, <1>2, <1>3, <1>4 DEF IInv, SessionAgrees

LEMMA ClosePinsKeeps ==
  ASSUME IInv, ClosePins
  PROVE  IInv'
<1>0. TypeOK /\ Story /\ SwapInv /\ HubsBuilt
  BY DEF IInv, SessionAgrees, Story
<1>1. TypeOK'
  BY <1>0, SessionUnhealthySays DEF TypeOK, ClosePins, connVars, jobVars
<1>2. SessionServed' /\ LiveConnServes'
  BY <1>0 DEF Story, SessionServed, LiveConnServes, ClosePins, connVars
<1>3. HealthFollowsSession' /\ PinsOnly'
  BY <1>0, SessionUnhealthySays DEF SwapInv, HealthFollowsSession, PinsOnly, ClosePins
<1>4. SwapInv' /\ HubsBuilt'
  BY <1>0 DEF SwapInv, HubsBuilt, ClosePins, connVars
<1> QED BY <1>1, <1>2, <1>3, <1>4 DEF IInv, SessionAgrees

------------------------------------------------------------------------------
(* The attempts and the clock *)

LEMMA StartJobKeeps ==
  ASSUME IInv, StartJob
  PROVE  IInv'
<1>0. TypeOK /\ Story /\ SwapInv /\ HubsBuilt /\ MaxJobs \in Nat
  BY HubAssumption DEF IInv, SessionAgrees, Story, HubAssumption
<1>1. TypeOK' /\ started' # 0
  BY <1>0 DEF TypeOK, StartJob, healthVars, breakerVars, applyVars, connVars, BreakerTypeOK
<1>2. SessionServed' /\ LiveConnServes'
  BY <1>0 DEF Story, SessionServed, LiveConnServes, StartJob, connVars, applyVars
<1>3. HealthFollowsSession' /\ PinsOnly'
  BY <1>1 DEF HealthFollowsSession, PinsOnly
<1>4. SwapInv' /\ HubsBuilt'
  BY <1>0 DEF SwapInv, HubsBuilt, StartJob, applyVars, connVars
<1> QED BY <1>1, <1>2, <1>3, <1>4 DEF IInv, SessionAgrees

\* A report that comes late may lift the pin: the health of the key follows the
\* session only as long as no job has been started.
LEMMA ReportJobKeeps ==
  ASSUME IInv, NEW k \in Keys, ReportJob(k)
  PROVE  IInv'
<1>0. TypeOK /\ Story /\ SwapInv /\ HubsBuilt /\ MaxJobs \in Nat
  BY HubAssumption DEF IInv, SessionAgrees, Story, HubAssumption
<1>1. BreakerTypeOK'
  <2>1. Bump(failureCounts[k]) \in 0 .. Threshold
    BY <1>0, BreakerAssumption DEF TypeOK, BreakerTypeOK, BreakerAssumption, Bump
  <2>2. \/ ReportSuccess(k)
        \/ ReportFailure(k)
    BY DEF ReportJob
  <2>3. failureCounts' \in [Keys -> 0 .. Threshold]
    BY <1>0, <2>1, <2>2, BreakerAssumption
    DEF TypeOK, BreakerTypeOK, BreakerAssumption, ReportSuccess, ReportFailure
  <2>4. healthy' \in [Keys -> BOOLEAN]
    BY <1>0, <2>2, Zenon DEF TypeOK, BreakerTypeOK, ReportSuccess, ReportFailure
  <2> QED BY <2>3, <2>4 DEF BreakerTypeOK
<1>2. pinned' \subseteq Keys
  BY <1>0 DEF TypeOK, ReportJob
<1>3. TypeOK' /\ started' # 0
  BY <1>0, <1>1, <1>2 DEF TypeOK, ReportJob, applyVars, connVars
<1>4. SessionServed' /\ LiveConnServes'
  BY <1>0 DEF Story, SessionServed, LiveConnServes, ReportJob, connVars, applyVars
<1>5. HealthFollowsSession' /\ PinsOnly'
  BY <1>3 DEF HealthFollowsSession, PinsOnly
<1>6. SwapInv' /\ HubsBuilt'
  BY <1>0 DEF SwapInv, HubsBuilt, ReportJob, applyVars, connVars
<1> QED BY <1>3, <1>4, <1>5, <1>6 DEF IInv, SessionAgrees

\* A pin does not run out.
LEMMA CoolKeeps ==
  ASSUME IInv, NEW k \in Keys, Cool(k)
  PROVE  IInv'
<1>0. TypeOK /\ Story /\ SwapInv /\ HubsBuilt /\ PinsOnly
  BY DEF IInv, SessionAgrees, Story
<1>1. started # 0 /\ UNCHANGED started
  BY <1>0 DEF PinsOnly, Cool, Recover, jobVars
<1>2. TypeOK'
  BY <1>0 DEF TypeOK, BreakerTypeOK, Cool, Recover, applyVars, connVars, jobVars
<1>3. SessionServed' /\ LiveConnServes'
  BY <1>0 DEF Story, SessionServed, LiveConnServes, Cool, connVars, applyVars
<1>4. HealthFollowsSession' /\ PinsOnly'
  BY <1>1 DEF HealthFollowsSession, PinsOnly
<1>5. SwapInv' /\ HubsBuilt'
  BY <1>0 DEF SwapInv, HubsBuilt, Cool, applyVars, connVars
<1> QED BY <1>2, <1>3, <1>4, <1>5 DEF IInv, SessionAgrees

LEMMA Stuttering ==
  ASSUME IInv, UNCHANGED vars
  PROVE  IInv'
<1>1. UNCHANGED <<healthVars, applyVars, session, connVars, closed, lost, jobVars>>
  BY DEF vars
<1>2. TypeOK'
  BY <1>1
  DEF IInv, SessionAgrees, TypeOK, healthVars, breakerVars, applyVars, connVars, jobVars, BreakerTypeOK
<1>3. SessionServed' /\ LiveConnServes'
  BY <1>1 DEF IInv, SessionAgrees, SessionServed, LiveConnServes, connVars, applyVars
<1>4. HealthFollowsSession' /\ PinsOnly'
  BY <1>1, HealthKept DEF applyVars, jobVars
<1>5. SwapInv' /\ HubsBuilt'
  BY <1>1 DEF IInv, SwapInv, HubsBuilt, applyVars, connVars
<1> QED BY <1>2, <1>3, <1>4, <1>5 DEF IInv, SessionAgrees

------------------------------------------------------------------------------
(* The theorem *)

\* Every step keeps the inductive invariant.
LEMMA Inductive == IInv /\ [Next]_vars => IInv'
<1> SUFFICES ASSUME IInv, [Next]_vars PROVE IInv'
  OBVIOUS
<1>1. CASE \E c \in Conns : Dial(c) \/ Register(c) \/ RegisterFails(c) \/ Lose(c) \/ Serve(c)
  BY <1>1, DialKeeps, RegisterKeeps, RegisterFailsKeeps, LoseKeeps, ServeKeeps
<1>2. CASE Build \/ Swap
  BY <1>2, BuildKeeps, SetRegistryKeeps, CloseTakesKeeps, CloseTearsKeeps, ClosePinsKeeps DEF Swap
<1>3. CASE StartJob \/ \E k \in Keys : ReportJob(k) \/ Cool(k)
  BY <1>3, StartJobKeeps, ReportJobKeeps, CoolKeeps
<1>4. CASE UNCHANGED vars
  BY <1>4, Stuttering
<1> QED BY <1>1, <1>2, <1>3, <1>4 DEF Next

\* However connections come, are replaced, are lost and end late, and through any
\* number of Applies: a hub's session is a connection it still serves, a connection
\* that is up and served is its hub's session or about to be closed by Hub.Close,
\* and until the first Apply and the first job the health keys tell which.
THEOREM SessionsAgree == Spec => []SessionAgrees
<1>1. IInv => SessionAgrees
  BY DEF IInv
<1> QED BY <1>1, Initially, Inductive, PTL DEF Spec
==============================================================================
