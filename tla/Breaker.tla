------------------------------- MODULE Breaker -------------------------------
(***************************************************************************)
(* What the rest of the gateway may rely on of internal/health: a breaker  *)
(* per health key (a provider and an outbound protocol, health/key.go),    *)
(* without clocks and cooldown lengths.  HealthChecker implements it; the  *)
(* scheduling modules extend it and report attempts to it.                 *)
(*                                                                         *)
(* failureCounts is kept modulo "at least threshold": the code only        *)
(* compares it with the threshold and resets it, so the saturated counter  *)
(* is exact.                                                               *)
(***************************************************************************)
EXTENDS Naturals

CONSTANTS Keys,        \* health keys
          Threshold    \* consecutive failures that open the breaker (3 in serve.go)

ASSUME BreakerAssumption == Threshold \in Nat \ {0}

VARIABLES failureCounts,   \* Checker.failureCounts, saturated at Threshold
          healthy          \* what Checker.IsHealthy answers

breakerVars == <<failureCounts, healthy>>

Bump(n) == IF n < Threshold THEN n + 1 ELSE n

BreakerInit ==
  /\ failureCounts = [k \in Keys |-> 0]
  /\ healthy = [k \in Keys |-> TRUE]

\* The success of any attempt closes the breaker at once.
ReportSuccess(k) ==
  /\ failureCounts' = [failureCounts EXCEPT ![k] = 0]
  /\ healthy' = [healthy EXCEPT ![k] = TRUE]

\* The Threshold-th failure in a row opens it; every further one keeps it open.
ReportFailure(k) ==
  /\ failureCounts' = [failureCounts EXCEPT ![k] = Bump(@)]
  /\ healthy' = [healthy EXCEPT ![k] = @ /\ Bump(failureCounts[k]) < Threshold]

\* A quota error, or a cascade hub without a session: open regardless of the
\* count, which starts afresh.
MarkUnhealthy(k) ==
  /\ failureCounts' = [failureCounts EXCEPT ![k] = 0]
  /\ healthy' = [healthy EXCEPT ![k] = FALSE]

\* A cooldown runs out.  The count survives: one more failure reopens a
\* breaker that had opened on the threshold.
Recover(k) ==
  /\ ~ healthy[k]
  /\ healthy' = [healthy EXCEPT ![k] = TRUE]
  /\ UNCHANGED failureCounts

BreakerReport(k) ==
  ReportSuccess(k) \/ ReportFailure(k) \/ MarkUnhealthy(k)

\* One tick of the clock can end the cooldown of several keys at once.
BreakerRecover ==
  /\ UNCHANGED failureCounts
  /\ healthy' \in [Keys -> BOOLEAN]
  /\ \A k \in Keys : healthy[k] => healthy'[k]

BreakerNext == (\E k \in Keys : BreakerReport(k)) \/ BreakerRecover

BreakerSpec == BreakerInit /\ [][BreakerNext]_breakerVars

BreakerTypeOK ==
  /\ failureCounts \in [Keys -> 0 .. Threshold]
  /\ healthy \in [Keys -> BOOLEAN]
==============================================================================
