------------------------------ MODULE Scheduler ------------------------------
(***************************************************************************)
(* A request scheduled over a group in the group's mode (scheduler/        *)
(* strategy.go executeByMode, execute_node.go), for the modes that try one *)
(* child at a time: failover, load-balance, adaptive.  Race has the        *)
(* concurrent mode.  The request, what it asks for and what it does to the *)
(* shared health checker are LeafAttempt's; each mode adds its own loop.   *)
(***************************************************************************)
EXTENDS Failover, LoadBalance, Adaptive

VARIABLE mode    \* of the group

loopVars == <<mode, failoverVars, remaining, adaptiveVars>>
vars == <<leafVars, loopVars>>

\* Adaptive groups only have leaves.
Init ==
  /\ LeafInit
  /\ mode \in {"failover", "load-balance", "adaptive"}
  /\ mode = "adaptive" => ~ Mixed
  /\ FailoverInit /\ BalanceInit /\ AdaptiveInit

\* executeByMode: the loop of the mode.
Loop ==
  /\ \/ mode = "failover" /\ FailoverLoop /\ UNCHANGED <<remaining, adaptiveVars>>
     \/ mode = "load-balance" /\ BalanceLoop /\ UNCHANGED <<failoverVars, adaptiveVars>>
     \/ mode = "adaptive" /\ AdaptiveLoop /\ UNCHANGED <<failoverVars, remaining>>
  /\ UNCHANGED <<requestInput, mode>>

Schedule == Loop \/ (LeafStep /\ UNCHANGED loopVars)

Next == Schedule \/ (Environment /\ UNCHANGED loopVars)

\* What the goroutine does by itself.
Runs == Loop \/ (LeafRuns /\ UNCHANGED loopVars)

\* The goroutine runs, and a limiter's Wait ends by the next token or the request's
\* deadline; that an attempt comes back is not assumed (Answered).
Spec == Init /\ [][Next]_vars /\ WF_vars(Runs)

------------------------------------------------------------------------------
TypeOK ==
  /\ LeafTypeOK
  /\ mode \in {"failover", "load-balance", "adaptive"}
  /\ FailoverTypeOK /\ BalanceTypeOK /\ AdaptiveTypeOK

\* A schedule that ends in failure has given every child its turn or a reason.
\* (Adaptive does not: removing the siblings of an unhealthy leaf moves the slice
\* under its index, and the leaf after it can be skipped.)
NobodyPassedOver == mode # "adaptive" => NobodyForgotten
==============================================================================
