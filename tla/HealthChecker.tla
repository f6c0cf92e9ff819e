---------------------------- MODULE HealthChecker ----------------------------
(***************************************************************************)
(* internal/health/checker.go: the Checker shared by every request, every  *)
(* scheduler (they are rebuilt on Apply, the Checker is not) and the       *)
(* cascade hubs.  Each method runs under Checker.mu, so it is one action;  *)
(* reports of concurrent requests interleave freely.                       *)
(*                                                                         *)
(* Time: the code stores time.Now() and asks time.Since.  The model keeps  *)
(* the time elapsed since the mark, counted in Tick steps and saturated at *)
(* AgeCap, which lies beyond every cooldown: comparisons with a cooldown   *)
(* are exact and behaviours are not bounded in time.                       *)
(***************************************************************************)
EXTENDS Naturals

CONSTANTS Keys,        \* health keys (provider, protocol)
          Threshold,   \* NewChecker's threshold
          Cooldown,    \* NewChecker's default cooldown
          QuotaBase,   \* quotaBaseCooldown, the only base ever passed
          QuotaMax,    \* quotaMaxCooldown, the only cap ever passed
          PinFor,      \* pinnedUnhealthyCooldown, the only MarkUnhealthyFor argument
          AgeCap       \* where ages saturate (bound of the model)

ASSUME HealthAssumption ==
  /\ Threshold \in Nat \ {0}
  /\ Cooldown \in Nat \ {0}
  /\ PinFor \in Nat \ {0}
  /\ QuotaMax \in Nat
  /\ QuotaBase \in 1 .. QuotaMax
  /\ AgeCap \in Nat
  /\ Cooldown < AgeCap /\ QuotaMax < AgeCap /\ PinFor < AgeCap

VARIABLES failureCounts,     \* failures in a row, saturated at Threshold
          unhealthyAt,       \* is there a mark?
          age,               \* time since the mark (0 without one)
          cooldownOverride,  \* the key's own cooldown, 0 when it has none
          quotaLevel         \* history: the last cooldown a quota error set since
                             \* the last success, 0 when there is none

vars == <<failureCounts, unhealthyAt, age, cooldownOverride, quotaLevel>>

TypeOK ==
  /\ failureCounts \in [Keys -> 0 .. Threshold]
  /\ unhealthyAt \in [Keys -> BOOLEAN]
  /\ age \in [Keys -> 0 .. AgeCap]
  /\ cooldownOverride \in [Keys -> 0 .. AgeCap]
  /\ quotaLevel \in [Keys -> 0 .. QuotaMax]

Init ==
  /\ failureCounts = [k \in Keys |-> 0]
  /\ unhealthyAt = [k \in Keys |-> FALSE]
  /\ age = [k \in Keys |-> 0]
  /\ cooldownOverride = [k \in Keys |-> 0]
  /\ quotaLevel = [k \in Keys |-> 0]

Bump(n) == IF n < Threshold THEN n + 1 ELSE n

\* The cooldown in force: the override when there is one.
Window(k) == IF cooldownOverride[k] > 0 THEN cooldownOverride[k] ELSE Cooldown

InCooldown(k) == unhealthyAt[k] /\ age[k] <= Window(k)

IsHealthy(k) == ~ InCooldown(k)

\* A fresh mark on key k with the given override (0: the default cooldown).
Mark(k, override) ==
  /\ unhealthyAt' = [unhealthyAt EXCEPT ![k] = TRUE]
  /\ age' = [age EXCEPT ![k] = 0]
  /\ cooldownOverride' = [cooldownOverride EXCEPT ![k] = override]

ReportSuccess(k) ==
  /\ failureCounts' = [failureCounts EXCEPT ![k] = 0]
  /\ unhealthyAt' = [unhealthyAt EXCEPT ![k] = FALSE]
  /\ age' = [age EXCEPT ![k] = 0]
  /\ cooldownOverride' = [cooldownOverride EXCEPT ![k] = 0]
  /\ quotaLevel' = [quotaLevel EXCEPT ![k] = 0]

ReportFailureKeepsOverride(k) ==     \* mutant: the override is not deleted
  /\ failureCounts' = [failureCounts EXCEPT ![k] = Bump(@)]
  /\ IF Bump(failureCounts[k]) >= Threshold
       THEN Mark(k, cooldownOverride[k])
       ELSE UNCHANGED <<unhealthyAt, age, cooldownOverride>>
  /\ UNCHANGED quotaLevel

\* At the threshold the default cooldown starts anew and replaces an override.
ReportFailure(k) ==
  /\ failureCounts' = [failureCounts EXCEPT ![k] = Bump(@)]
  /\ IF Bump(failureCounts[k]) >= Threshold
       THEN Mark(k, 0)
       ELSE UNCHANGED <<unhealthyAt, age, cooldownOverride>>
  /\ UNCHANGED quotaLevel

MarkUnhealthyForKeepsCount(k, cooldown) ==   \* mutant: the count is not reset
  /\ Mark(k, cooldown)
  /\ UNCHANGED <<failureCounts, quotaLevel>>

MarkUnhealthyFor(k, cooldown) ==
  /\ failureCounts' = [failureCounts EXCEPT ![k] = 0]
  /\ Mark(k, cooldown)
  /\ UNCHANGED quotaLevel

\* The cooldown after prev: QuotaBase first, then doubled up to QuotaMax.
NextLevel(prev) ==
  IF prev = 0 THEN QuotaBase
  ELSE IF 2 * prev > QuotaMax THEN QuotaMax ELSE 2 * prev

\* Installs a quota cooldown and restarts the count.
Escalate(k, cooldown) ==
  /\ failureCounts' = [failureCounts EXCEPT ![k] = 0]
  /\ Mark(k, cooldown)
  /\ quotaLevel' = [quotaLevel EXCEPT ![k] = cooldown]

MarkUnhealthyEscalatingAlways(k) ==  \* mutant: no check for a running override
  Escalate(k, NextLevel(cooldownOverride[k]))

MarkUnhealthyEscalating(k) ==
  \/ /\ InCooldown(k) /\ cooldownOverride[k] > 0   \* a mark of the same window
     /\ UNCHANGED vars
  \/ /\ InCooldown(k) /\ cooldownOverride[k] = 0   \* upgrades the threshold breaker
     /\ Escalate(k, QuotaBase)
  \/ /\ ~ InCooldown(k)
     /\ Escalate(k, NextLevel(cooldownOverride[k]))

Tick ==
  /\ age' = [k \in Keys |-> IF unhealthyAt[k] /\ age[k] < AgeCap
                              THEN age[k] + 1 ELSE age[k]]
  /\ UNCHANGED <<failureCounts, unhealthyAt, cooldownOverride, quotaLevel>>

Next ==
  \/ \E k \in Keys :
       \/ ReportSuccess(k)
       \/ ReportFailure(k)
       \/ MarkUnhealthyFor(k, PinFor)
       \/ MarkUnhealthyEscalating(k)
  \/ Tick

Spec == Init /\ [][Next]_vars

------------------------------------------------------------------------------
(* Properties *)

\* The two ways to be marked exclude each other: a mark without an override is
\* the threshold breaker's and holds the full count, a mark with an override has
\* a count that started afresh (checker.go: every writer of one field must keep
\* the other two in step, across every order of the four reports).
OverrideOrThreshold ==
  \A k \in Keys :
    IF cooldownOverride[k] > 0
      THEN unhealthyAt[k] /\ failureCounts[k] < Threshold
      ELSE unhealthyAt[k] => failureCounts[k] = Threshold

\* No key is taken out for longer than the longest cooldown there is, whatever
\* marks accumulate on it (the cap of MarkUnhealthyEscalating holds also when the
\* previous override came from a cascade pin).
CooldownCapped ==
  \A k \in Keys : cooldownOverride[k] > QuotaMax => cooldownOverride[k] = PinFor

\* A quota cooldown is replaced by a longer one only when it has run out: the
\* quota errors of many requests in flight escalate once per window, not once
\* each (doc of MarkUnhealthyEscalating).
EscalatesOncePerWindow ==
  [][\A k \in Keys :
       /\ quotaLevel[k] > 0 /\ cooldownOverride[k] = quotaLevel[k]
       /\ quotaLevel'[k] > quotaLevel[k]
       => age[k] > cooldownOverride[k]]_vars

\* The breaker the schedulers rely on.
B == INSTANCE Breaker WITH healthy <- [k \in Keys |-> IsHealthy(k)]
ImplementsBreaker == B!BreakerSpec
==============================================================================
