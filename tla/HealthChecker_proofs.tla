------------------------ MODULE HealthChecker_proofs ------------------------
(***************************************************************************)
(* For every set of keys and all cooldowns: the type invariant of the      *)
(* Checker, the exclusion of the two ways to be marked, the cap on the     *)
(* cooldown and its escalation once per window, and that the Checker       *)
(* implements the Breaker of the schedulers.                               *)
(***************************************************************************)
EXTENDS HealthChecker, TLAPS

\* The inductive invariant.  OverrideOrThreshold is what makes the refinement
\* step of an ignored quota error go through, and the last conjunct (the history
\* never exceeds the cap) is what bounds the next doubling.
IInv == TypeOK /\ OverrideOrThreshold /\ CooldownCapped

\* The next cooldown of a quota error is a quota cooldown again: positive and
\* within the cap (NextLevel of MarkUnhealthyEscalating).
LEMMA NextLevelBounded ==
  ASSUME NEW prev \in Nat
  PROVE  NextLevel(prev) \in 1 .. QuotaMax
BY HealthAssumption DEF HealthAssumption, NextLevel

\* The initial state has no marks.
LEMMA InitInvariant == Init => IInv
BY HealthAssumption
DEF HealthAssumption, Init, IInv, TypeOK, OverrideOrThreshold, CooldownCapped

\* A quota cooldown installed on one key keeps the invariant.
LEMMA EscalateInvariant ==
  ASSUME IInv, NEW k \in Keys, NEW c \in 1 .. QuotaMax, Escalate(k, c)
  PROVE  IInv'
<1>1. TypeOK'
  BY HealthAssumption DEF HealthAssumption, IInv, TypeOK, Escalate, Mark
<1>2. OverrideOrThreshold'
  BY HealthAssumption
  DEF HealthAssumption, IInv, TypeOK, OverrideOrThreshold, Escalate, Mark
<1>3. CooldownCapped'
  BY HealthAssumption
  DEF HealthAssumption, IInv, TypeOK, CooldownCapped, Escalate, Mark
<1> QED BY <1>1, <1>2, <1>3 DEF IInv

\* Every step of the Checker keeps the invariant.
LEMMA StepInvariant == IInv /\ [Next]_vars => IInv'
<1> SUFFICES ASSUME IInv, [Next]_vars PROVE IInv'
  OBVIOUS
<1> USE HealthAssumption
<1>1. ASSUME NEW k \in Keys, ReportSuccess(k) PROVE IInv'
  <2>1. TypeOK'
    BY <1>1 DEF HealthAssumption, IInv, TypeOK, ReportSuccess
  <2>2. OverrideOrThreshold' /\ CooldownCapped'
    BY <1>1 DEF HealthAssumption, IInv, TypeOK, OverrideOrThreshold,
                CooldownCapped, ReportSuccess
  <2> QED BY <2>1, <2>2 DEF IInv
<1>2. ASSUME NEW k \in Keys, ReportFailure(k) PROVE IInv'
  <2>1. CASE Bump(failureCounts[k]) >= Threshold
    <3>0. /\ Bump(failureCounts[k]) = Threshold
          /\ Mark(k, 0)
      <4>1. Bump(failureCounts[k]) = Threshold
        BY <2>1 DEF HealthAssumption, IInv, TypeOK, Bump
      <4>2. Mark(k, 0)
        BY <1>2, <2>1 DEF ReportFailure
      <4> QED BY <4>1, <4>2
    <3>1. TypeOK'
      <4>1. failureCounts' \in [Keys -> 0 .. Threshold]
        BY <1>2, <3>0 DEF HealthAssumption, IInv, TypeOK, ReportFailure
      <4>2. /\ unhealthyAt' \in [Keys -> BOOLEAN]
            /\ age' \in [Keys -> 0 .. AgeCap]
            /\ cooldownOverride' \in [Keys -> 0 .. AgeCap]
        BY <3>0 DEF HealthAssumption, IInv, TypeOK, Mark
      <4>3. quotaLevel' \in [Keys -> 0 .. QuotaMax]
        BY <1>2 DEF IInv, TypeOK, ReportFailure
      <4> QED BY <4>1, <4>2, <4>3 DEF TypeOK
    <3>2. OverrideOrThreshold' /\ CooldownCapped'
      BY <1>2, <2>1 DEF HealthAssumption, IInv, TypeOK, OverrideOrThreshold,
                        CooldownCapped, ReportFailure, Mark, Bump
    <3> QED BY <3>1, <3>2 DEF IInv
  <2>2. CASE ~ (Bump(failureCounts[k]) >= Threshold)
    <3>1. TypeOK'
      BY <1>2, <2>2 DEF HealthAssumption, IInv, TypeOK, ReportFailure, Bump
    <3>2. OverrideOrThreshold' /\ CooldownCapped'
      BY <1>2, <2>2 DEF HealthAssumption, IInv, TypeOK, OverrideOrThreshold,
                        CooldownCapped, ReportFailure, Bump
    <3> QED BY <3>1, <3>2 DEF IInv
  <2> QED BY <2>1, <2>2
<1>3. ASSUME NEW k \in Keys, MarkUnhealthyFor(k, PinFor) PROVE IInv'
  <2>1. TypeOK'
    BY <1>3 DEF HealthAssumption, IInv, TypeOK, MarkUnhealthyFor, Mark
  <2>2. OverrideOrThreshold' /\ CooldownCapped'
    BY <1>3 DEF HealthAssumption, IInv, TypeOK, OverrideOrThreshold,
                CooldownCapped, MarkUnhealthyFor, Mark
  <2> QED BY <2>1, <2>2 DEF IInv
<1>4. ASSUME NEW k \in Keys, MarkUnhealthyEscalating(k) PROVE IInv'
  <2>1. CASE UNCHANGED vars
    BY <2>1 DEF vars, IInv, TypeOK, OverrideOrThreshold, CooldownCapped
  <2>2. CASE Escalate(k, QuotaBase)
    BY <2>2, EscalateInvariant DEF HealthAssumption
  <2>3. CASE Escalate(k, NextLevel(cooldownOverride[k]))
    <3>1. cooldownOverride[k] \in Nat
      BY DEF HealthAssumption, IInv, TypeOK
    <3> QED BY <2>3, <3>1, NextLevelBounded, EscalateInvariant
  <2> QED BY <1>4, <2>1, <2>2, <2>3 DEF MarkUnhealthyEscalating
<1>5. CASE Tick
  <2>1. TypeOK'
    BY <1>5 DEF HealthAssumption, IInv, TypeOK, Tick
  <2>2. OverrideOrThreshold' /\ CooldownCapped'
    BY <1>5 DEF IInv, TypeOK, OverrideOrThreshold, CooldownCapped, Tick
  <2> QED BY <2>1, <2>2 DEF IInv
<1>6. CASE UNCHANGED vars
  BY <1>6 DEF vars, IInv, TypeOK, OverrideOrThreshold, CooldownCapped
<1> QED BY <1>1, <1>2, <1>3, <1>4, <1>5, <1>6 DEF Next

\* The invariant holds throughout.
THEOREM Invariant == Spec => []IInv
BY InitInvariant, StepInvariant, PTL DEF Spec

\* Type correctness of the Checker's maps.
THEOREM TypeCorrect == Spec => []TypeOK
BY Invariant, PTL DEF IInv

\* A mark is either the threshold breaker's or has its own cooldown, for any
\* interleaving of reports on any number of keys.
THEOREM MarksExclusive == Spec => []OverrideOrThreshold
BY Invariant, PTL DEF IInv

\* No cooldown ever exceeds the cap, except the pin of a cascade key.
THEOREM Capped == Spec => []CooldownCapped
BY Invariant, PTL DEF IInv

\* However many requests in flight report a quota error of the same upstream, on any
\* number of keys: a quota cooldown gives way to a longer one only when it has run out.
THEOREM OneEscalationPerWindow == Spec => EscalatesOncePerWindow
<1> DEFINE Step == \A k \in Keys :
                     /\ quotaLevel[k] > 0 /\ cooldownOverride[k] = quotaLevel[k]
                     /\ quotaLevel'[k] > quotaLevel[k]
                     => age[k] > cooldownOverride[k]
<1>1. IInv /\ [Next]_vars => [Step]_vars
  <2> SUFFICES ASSUME IInv, Next, NEW k \in Keys,
                      quotaLevel[k] > 0, cooldownOverride[k] = quotaLevel[k],
                      quotaLevel'[k] > quotaLevel[k]
               PROVE  age[k] > cooldownOverride[k]
    OBVIOUS
  <2>1. /\ quotaLevel \in [Keys -> 0 .. QuotaMax] /\ age[k] \in Nat /\ QuotaMax \in Nat
        /\ cooldownOverride[k] > 0 /\ unhealthyAt[k]
    BY HealthAssumption DEF HealthAssumption, IInv, TypeOK, OverrideOrThreshold
  <2>2. \E j \in Keys : MarkUnhealthyEscalating(j) /\ quotaLevel' # quotaLevel
    <3>1. quotaLevel' # quotaLevel
      BY <2>1
    <3>2. ASSUME NEW j \in Keys, ReportSuccess(j) PROVE FALSE
      BY <2>1, <3>2 DEF ReportSuccess
    <3> QED BY <3>1, <3>2 DEF Next, ReportFailure, MarkUnhealthyFor, Tick
  <2>3. PICK j \in Keys : MarkUnhealthyEscalating(j) /\ quotaLevel' # quotaLevel
    BY <2>2
  <2>4. ASSUME NEW c, Escalate(j, c) PROVE j = k
    BY <2>1, <2>4 DEF Escalate
  <2>5. ~ InCooldown(k)
    BY <2>1, <2>3, <2>4 DEF MarkUnhealthyEscalating, vars
  <2> QED BY <2>1, <2>5 DEF InCooldown, Window
<1> QED BY <1>1, Invariant, PTL DEF Spec, EscalatesOncePerWindow
------------------------------------------------------------------------------
(* The Checker implements the Breaker. *)

\* The breaker's view of the Checker's state.
View == [k \in Keys |-> IsHealthy(k)]

\* A change of one key's maps shows in the view at that key only.
LEMMA ViewLocal ==
  ASSUME NEW k \in Keys,
         \A j \in Keys : j # k => IsHealthy(j)' = IsHealthy(j)
  PROVE  View' = [View EXCEPT ![k] = IsHealthy(k)']
<1>1. View' = [j \in Keys |-> IF j = k THEN IsHealthy(k)' ELSE IsHealthy(j)]
  BY DEF View
<1>2. View = [j \in Keys |-> IsHealthy(j)]
  BY DEF View
<1> HIDE DEF View
<1> QED BY <1>1, <1>2

\* A report that touches only key k leaves the other keys' health alone.
LEMMA OthersUntouched ==
  ASSUME IInv, NEW k \in Keys, NEW j \in Keys, j # k,
         \/ ReportSuccess(k) \/ ReportFailure(k)
         \/ MarkUnhealthyFor(k, PinFor)
         \/ \E c \in 1 .. QuotaMax : Escalate(k, c)
  PROVE  IsHealthy(j)' = IsHealthy(j)
<1>1. /\ unhealthyAt'[j] = unhealthyAt[j]
      /\ age'[j] = age[j]
      /\ cooldownOverride'[j] = cooldownOverride[j]
  BY DEF IInv, TypeOK, ReportSuccess, ReportFailure, MarkUnhealthyFor,
         Escalate, Mark
<1> QED BY <1>1 DEF IsHealthy, InCooldown, Window

\* A key just marked is in its cooldown.
LEMMA MarkedIsUnhealthy ==
  ASSUME IInv, NEW k \in Keys, NEW c \in 0 .. AgeCap, Mark(k, c)
  PROVE  ~ IsHealthy(k)'
<1>1. unhealthyAt'[k] = TRUE /\ age'[k] = 0 /\ cooldownOverride'[k] = c
  BY DEF IInv, TypeOK, Mark
<1> QED BY <1>1, HealthAssumption DEF HealthAssumption, IsHealthy, InCooldown, Window

\* Every step of the Checker is a step of the Breaker or leaves it alone.
LEMMA StepRefines ==
  IInv /\ [Next]_vars => [B!BreakerNext]_(B!breakerVars)
<1> SUFFICES ASSUME IInv, [Next]_vars
             PROVE  [B!BreakerNext]_(B!breakerVars)
  OBVIOUS
<1>0. B!breakerVars = <<failureCounts, View>> /\ View = [k \in Keys |-> IsHealthy(k)]
  BY DEF B!breakerVars, View
<1>1. ASSUME NEW k \in Keys, ReportSuccess(k) PROVE B!ReportSuccess(k)
  <2>1. IsHealthy(k)' = TRUE
    BY <1>1 DEF IInv, TypeOK, ReportSuccess, IsHealthy, InCooldown
  <2>2. View' = [View EXCEPT ![k] = TRUE]
    BY <1>1, <2>1, ViewLocal, OthersUntouched
  <2> QED BY <1>1, <2>2 DEF ReportSuccess, B!ReportSuccess, View
<1>2. ASSUME NEW k \in Keys, ReportFailure(k) PROVE B!ReportFailure(k)
  <2>1. failureCounts' = [failureCounts EXCEPT ![k] = B!Bump(@)]
    BY <1>2 DEF ReportFailure, Bump, B!Bump
  <2>2. CASE Bump(failureCounts[k]) >= Threshold
    <3>1. ~ IsHealthy(k)'
      BY <1>2, <2>2, MarkedIsUnhealthy, HealthAssumption
      DEF HealthAssumption, ReportFailure
    <3>2. View' = [View EXCEPT ![k] = FALSE]
      BY <1>2, <3>1, ViewLocal, OthersUntouched
    <3>3. ~ (B!Bump(failureCounts[k]) < Threshold)
      BY <2>2, HealthAssumption DEF HealthAssumption, IInv, TypeOK, Bump, B!Bump
    <3>4. View' = [View EXCEPT ![k] = @ /\ B!Bump(failureCounts[k]) < Threshold]
      BY <3>2, <3>3
    <3> QED BY <2>1, <3>4 DEF B!ReportFailure, View
  <2>3. CASE ~ (Bump(failureCounts[k]) >= Threshold)
    <3>1. UNCHANGED <<unhealthyAt, age, cooldownOverride>>
      BY <1>2, <2>3 DEF ReportFailure
    <3>2. View' = View
      BY <3>1 DEF View, IsHealthy, InCooldown, Window
    <3>3. B!Bump(failureCounts[k]) < Threshold
      BY <2>3, HealthAssumption DEF HealthAssumption, IInv, TypeOK, Bump, B!Bump
    <3>4. View[k] \in BOOLEAN
      BY DEF View, IsHealthy, InCooldown
    <3>5. View' = [View EXCEPT ![k] = @ /\ B!Bump(failureCounts[k]) < Threshold]
      BY <3>2, <3>3, <3>4 DEF View
    <3> QED BY <2>1, <3>5 DEF B!ReportFailure, View
  <2> QED BY <2>2, <2>3
<1>3. ASSUME NEW k \in Keys, NEW c \in 0 .. AgeCap, Mark(k, c),
             failureCounts' = [failureCounts EXCEPT ![k] = 0],
             \A j \in Keys : j # k => IsHealthy(j)' = IsHealthy(j)
      PROVE  B!MarkUnhealthy(k)
  <2>1. ~ IsHealthy(k)'
    BY <1>3, MarkedIsUnhealthy
  <2>2. View' = [View EXCEPT ![k] = FALSE]
    BY <1>3, <2>1, ViewLocal
  <2> QED BY <1>3, <2>2 DEF B!MarkUnhealthy, View
<1>4. ASSUME NEW k \in Keys, MarkUnhealthyFor(k, PinFor) PROVE B!MarkUnhealthy(k)
  <2>1. \A j \in Keys : j # k => IsHealthy(j)' = IsHealthy(j)
    BY <1>4, OthersUntouched
  <2>2. PinFor \in 0 .. AgeCap
    BY HealthAssumption DEF HealthAssumption
  <2> QED BY <1>4, <2>1, <2>2, <1>3 DEF MarkUnhealthyFor
<1>5. ASSUME NEW k \in Keys, NEW c \in 1 .. QuotaMax, Escalate(k, c)
      PROVE  B!MarkUnhealthy(k)
  <2>1. \A j \in Keys : j # k => IsHealthy(j)' = IsHealthy(j)
    BY <1>5, OthersUntouched
  <2>2. c \in 0 .. AgeCap
    BY HealthAssumption DEF HealthAssumption
  <2> QED BY <1>5, <2>1, <2>2, <1>3 DEF Escalate
<1>6. ASSUME NEW k \in Keys, MarkUnhealthyEscalating(k)
      PROVE  B!MarkUnhealthy(k) \/ UNCHANGED vars
  <2>1. cooldownOverride[k] \in Nat
    BY HealthAssumption DEF HealthAssumption, IInv, TypeOK
  <2>2. NextLevel(cooldownOverride[k]) \in 1 .. QuotaMax /\ QuotaBase \in 1 .. QuotaMax
    BY <2>1, NextLevelBounded, HealthAssumption DEF HealthAssumption
  <2> QED BY <1>6, <2>2, <1>5 DEF MarkUnhealthyEscalating
<1>7. CASE Tick
  <2>1. \A k \in Keys : IsHealthy(k) => IsHealthy(k)'
    BY <1>7, HealthAssumption
    DEF HealthAssumption, IInv, TypeOK, Tick, IsHealthy, InCooldown, Window
  <2>2. View' \in [Keys -> BOOLEAN]
    BY DEF View, IsHealthy, InCooldown
  <2>3. \A k \in Keys : View[k] => View'[k]
    BY <2>1 DEF View
  <2>4. B!BreakerRecover
    BY <1>7, <2>2, <2>3 DEF Tick, B!BreakerRecover, View
  <2> QED BY <2>4 DEF B!BreakerNext
<1>8. CASE UNCHANGED vars
  <2>1. View' = View /\ failureCounts' = failureCounts
    BY <1>8 DEF vars, View, IsHealthy, InCooldown, Window
  <2> QED BY <2>1, <1>0 DEF View, B!breakerVars
<1>9. ASSUME NEW k \in Keys, B!MarkUnhealthy(k) \/ B!ReportSuccess(k) \/ B!ReportFailure(k)
      PROVE  B!BreakerNext
  BY <1>9 DEF B!BreakerNext, B!BreakerReport
<1> QED BY <1>1, <1>2, <1>4, <1>6, <1>7, <1>8, <1>9 DEF Next

\* The schedulers may rely on the Breaker: no clock, no cooldown length.
THEOREM Refinement == Spec => ImplementsBreaker
<1>1. Init => B!BreakerInit
  BY DEF Init, B!BreakerInit, IsHealthy, InCooldown
<1>2. IInv /\ [Next]_vars => [B!BreakerNext]_(B!breakerVars)
  BY StepRefines
<1> QED BY <1>1, <1>2, Invariant, PTL DEF Spec, ImplementsBreaker, B!BreakerSpec
==============================================================================
