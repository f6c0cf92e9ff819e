----------------------------- MODULE LeafAttempt -----------------------------
(***************************************************************************)
(* One request, the execution of one child for it (scheduler/retry.go      *)
(* executeTask, attempt.go, soft_failure.go; execute_node.go executeNode)  *)
(* and the bookkeeping the sequential modes share (failover.go             *)
(* sequentialFallback, context_abort.go stopSequential).  Failover,        *)
(* LoadBalance and Adaptive extend it with their loops.  Other requests    *)
(* act on the shared health.Checker (Breaker) at any moment.  A child      *)
(* group's own schedule is a single step: it comes back with anything      *)
(* ScheduleContract lets it answer.                                        *)
(*                                                                         *)
(* Control: entry -> loop -> (node ->) send -> waiting -> (retry -> send   *)
(* ...) -> outcome -> loop ... -> done.                                    *)
(***************************************************************************)
EXTENDS AttemptOutcome, Sequences

CONSTANTS Retries,    \* [leaves -> Nat]: leafRetryBudget of a leaf
          Unsteady,   \* leaves whose schedulability may change meanwhile
          Order       \* Cands; a group's children are configured in this order

ASSUME LeafAssumption ==
  /\ Retries \in [Cands \ Groups -> Nat]
  /\ Unsteady \subseteq Cands \ Groups
  /\ Order \in Seq(Cands)
  /\ \A i, k \in DOMAIN Order : Order[i] = Order[k] => i = k
  /\ \A c \in Cands : \E i \in DOMAIN Order : Order[i] = c

VARIABLES
  client,    \* the request's context: "live" or "gone" (cancelled, or past its deadline)
  ready,     \* leaves isLeafSchedulable accepts (time range, cascade session)
  phase,     \* control, see above
  cur,       \* the child being executed
  round,     \* attempt number within executeTask
  last,      \* lastResult/lastErr of executeTask, then what it returned
  fallback,  \* sequentialFallback: [hard, soft]
  open,      \* results whose upstream stream this request still holds
  permits,   \* rate limiter permits of cur that were granted and not yet used
  tried,     \* history: children that had their turn
  passed,    \* history: children the loop passed over without a turn
  answer     \* what the caller got

requestVars == <<requestInput, phase, cur, round, last, fallback, open, permits, tried,
                 passed, answer>>
leafVars == <<client, ready, requestVars, breakerVars>>

NoFallback == [hard |-> Nothing, soft |-> Nothing]

LeafInit ==
  /\ BreakerInit
  /\ RequestInit
  /\ client = "live"
  /\ ready \in SUBSET Leaves
  /\ phase = "entry"
  /\ cur = "nobody"
  /\ round = 0
  /\ last = Nothing
  /\ fallback = NoFallback
  /\ open = {}
  /\ permits = 0
  /\ tried = {}
  /\ passed = {}
  /\ answer = Nothing

------------------------------------------------------------------------------
(* Bookkeeping shared by the sequential modes. *)

Finish(a) == phase' = "done" /\ answer' = a

\* RecordHardResult / RecordHardError: the last hard failure wins; a soft result
\* in hand is discarded and its body closed.
RecordHard(r) ==
  /\ fallback' = [hard |-> Kept(r), soft |-> Nothing]
  /\ open' = open \ {fallback.soft}

RecordSoftLeaksPrevious(r) ==        \* mutant: the replaced body stays open
  /\ fallback' = [fallback EXCEPT !.soft = r]
  /\ UNCHANGED open

\* RecordSoftResult: the last soft result wins, the replaced one is closed.
RecordSoft(r) ==
  /\ fallback' = [fallback EXCEPT !.soft = r]
  /\ open' = open \ {fallback.soft}

FinalPrefersSoft ==                  \* mutant: a soft result outranks a hard one
  IF fallback.soft # Nothing THEN fallback.soft
  ELSE IF fallback.hard # Nothing THEN fallback.hard
  ELSE Said("rateLimited")

\* Final: the last hard failure, else the last soft result, else "rate limited".
FinalAnswer ==
  IF fallback.hard # Nothing THEN fallback.hard
  ELSE IF fallback.soft # Nothing THEN fallback.soft
  ELSE Said("rateLimited")

Final ==
  /\ Finish(FinalAnswer)
  /\ open' = IF fallback.hard # Nothing THEN open \ {fallback.soft} ELSE open
  /\ fallback' = NoFallback

\* stopSequential when it stops: the soft result is discarded, and the abort
\* outranks whatever failed before.
StopScheduling ==
  /\ Finish(Said("abort"))
  /\ open' = open \ {fallback.soft}
  /\ fallback' = NoFallback

ShouldStopSchedulingOnTimeout ==     \* mutant: an attempt's timeout counts as well
  last.kind \in {"abort", "timeout"} \/ (last.kind \in Errors /\ client = "gone")

\* ShouldStopScheduling of an error: a context error, or any once the context is
\* done.
ShouldStopScheduling ==
  last.kind = "abort" \/ (last.kind \in Errors /\ client = "gone")

\* What a loop does with the outcome of cur: the tail of every loop body
\* (handleAttemptOutcome, handleNodeOutcome and their inlined copies).
RecordOutcome ==
  \/ /\ last.kind = "success"
     /\ Finish(last)
     /\ open' = open \ {fallback.soft}
     /\ fallback' = NoFallback
  \/ /\ last.kind = "soft"
     /\ RecordSoft(last)
     /\ phase' = "loop" /\ UNCHANGED answer
  \/ /\ last.kind \in Failures
     /\ RecordHard(last)
     /\ phase' = "loop" /\ UNCHANGED answer
  \/ ShouldStopScheduling /\ StopScheduling
  \/ /\ last.kind \in Errors /\ ~ ShouldStopScheduling
     /\ RecordHard(last)
     /\ phase' = "loop" /\ UNCHANGED answer

------------------------------------------------------------------------------
(* executeNode and executeTask *)

\* The loop gives child c its turn.  A leaf comes with the permit just taken; in
\* a mixed group executeNode looks at the child once more.
Begin(c) ==
  /\ phase' = IF Mixed THEN "node" ELSE "send"
  /\ cur' = c
  /\ round' = 0
  /\ last' = Nothing
  /\ permits' = IF c \in Groups THEN 0 ELSE 1

\* The turn of cur ends with r, without a word to the health checker.
TurnEnds(r) ==
  /\ phase' = "outcome"
  /\ last' = r
  /\ tried' = tried \cup {cur}
  /\ permits' = 0

\* executeTask returns r: the last attempt, and only it, is reported.
LeafReturns(r) == TurnEnds(r) /\ ApplyHealth(r, KeyOf[cur])

Result(k) == [kind |-> k, of |-> cur]

\* executeNode: entryAbort, then a leaf must (still) be schedulable.
EnterNode ==
  /\ phase = "node"
  /\ \/ client = "gone" /\ TurnEnds(Result("abort"))
     \/ /\ client = "live"
        /\ cur \notin Groups \cup ready
        /\ TurnEnds(Result("unavailable"))
     \/ /\ client = "live"
        /\ cur \in Groups \cup ready
        /\ phase' = IF cur \in Groups THEN "waiting" ELSE "send"
        /\ UNCHANGED <<last, tried, permits>>
  /\ UNCHANGED <<client, ready, cur, round, fallback, open, passed, answer>>
  /\ UNCHANGED breakerVars

SpendNothing == UNCHANGED permits    \* mutant: a permit serves several requests

\* A request uses up the permit that was taken for it.
SpendPermit == permits' = permits - 1

\* executeOnce's request; net/http starts none on a context that is done.
Send ==
  /\ phase = "send"
  /\ \/ /\ client = "live"
        /\ phase' = "waiting"
        /\ SpendPermit
        /\ UNCHANGED <<last, tried, breakerVars>>
     \/ /\ client = "gone"
        /\ LeafReturns(Result("abort"))
  /\ UNCHANGED <<client, ready, cur, round, fallback, open, passed, answer>>

\* isRetryableAttempt
Retryable(r) == r.kind \in {"hard5xx", "transport"} /\ client = "live"

ResponseArrives ==
  /\ phase = "waiting"
  /\ \E k \in Arrivals(cur) :
       LET r == Result(k) IN
       /\ open' = open \/ (MayHold(r) /\ open' = open \cup {Kept(r)})
       /\ IF cur \in Groups
            THEN TurnEnds(r) /\ UNCHANGED <<round, breakerVars>>
            ELSE IF Retryable(r) /\ round < Retries[cur]
            THEN /\ phase' = "retry" /\ last' = r /\ round' = round + 1
                 /\ UNCHANGED <<tried, permits, breakerVars>>
            ELSE LeafReturns(r) /\ UNCHANGED round
  /\ UNCHANGED <<client, ready, cur, fallback, passed, answer>>

TakeNoPermit == UNCHANGED permits    \* mutant: the limiter is not asked

\* The limiter's Allow grants a permit.
TakePermit == permits' = permits + 1

\* Before another attempt on the same leaf: abort check, then a permit.
Retry ==
  /\ phase = "retry"
  /\ \/ /\ client = "gone"           \* the failure seen goes unreported
        /\ TurnEnds(Result("abort"))
        /\ open' = open \ {Kept(last)}
        /\ UNCHANGED breakerVars
     \/ /\ client = "live"           \* no permit: the failure stands
        /\ LeafReturns(last)
        /\ UNCHANGED open
     \/ /\ client = "live"
        /\ TakePermit
        /\ phase' = "send"
        /\ last' = Nothing
        /\ open' = open \ {Kept(last)}
        /\ UNCHANGED <<tried, breakerVars>>
  /\ UNCHANGED <<client, ready, cur, round, fallback, passed, answer>>

\* What the goroutine does by itself; the rest is the attempt's coming back.
LeafRuns == (EnterNode \/ Send \/ Retry) /\ UNCHANGED requestInput

LeafStep == LeafRuns \/ (ResponseArrives /\ UNCHANGED requestInput)

------------------------------------------------------------------------------
(* The environment of the request, while it runs. *)

\* The client disconnects, or server.timeout passes.
ClientGone ==
  /\ phase # "done"
  /\ client = "live" /\ client' = "gone"
  /\ UNCHANGED <<ready, breakerVars, requestVars>>

\* Other requests report on the same keys; a cooldown runs out.
OthersReport ==
  /\ phase # "done"
  /\ \E k \in Contended : BreakerReport(k) \/ Recover(k)
  /\ UNCHANGED <<client, ready, requestVars>>

\* A disabled time range begins or ends, a cascade spoke comes or goes.
ReadinessChanges ==
  /\ phase # "done"
  /\ \E c \in Unsteady \cap Leaves :
       ready' = IF c \in ready THEN ready \ {c} ELSE ready \cup {c}
  /\ UNCHANGED <<client, breakerVars, requestVars>>

Environment == ClientGone \/ OthersReport \/ ReadinessChanges

------------------------------------------------------------------------------
(* Properties of any sequential schedule. *)

LeafTypeOK ==
  /\ BreakerTypeOK
  /\ client \in {"live", "gone"}
  /\ children \subseteq Cands /\ stream \in BOOLEAN
  /\ ready \subseteq Leaves
  /\ phase \in {"entry", "loop", "permit", "node", "send", "waiting", "retry",
                "outcome", "done"}
  /\ cur \in Cands \cup {"nobody"}
  /\ round \in Nat
  /\ last \in Outcomes \cup {Nothing}
  /\ fallback \in [hard : Results \cup {Nothing}, soft : Results \cup {Nothing}]
  /\ open \subseteq Results
  /\ permits \in 0 .. 1
  /\ tried \subseteq Cands
  /\ passed \subseteq Cands

Standing ==
  IF phase = "outcome" /\ ~ (last.kind = "soft" /\ fallback.hard # Nothing)
    THEN Class(last)
    ELSE IF fallback.hard # Nothing THEN Class(fallback.hard) ELSE fallback.soft

Promise == INSTANCE ScheduleContract WITH best <- Standing, answer <- Class(answer)

\* Whichever mode serves it, no child has two turns though failover revisits its
\* list, load-balance takes siblings out with a child and adaptive walks by index
\* a slice it shrinks; nothing is tried after a success or an abort, and the
\* answer is the one the outcomes call for.
KeepsContract == Promise!Contract

\* The schedule itself never hangs: if no attempt does, the caller is answered,
\* whatever is deferred, limited, waited for, retried or removed.  That an attempt
\* comes back is a premise, not a fairness assumption: the budgets (attempt.go:13)
\* see to it up to the response's header, but at stream_probe.go:150 the probe of a
\* stream can wait for ever, and no timer of the schedule ends that.
Answered == []<>(phase # "waiting") => <>(phase = "done")

\* Each upstream request, retries included, is made with exactly one permit of
\* its leaf's rate limiter.  Every mode takes the permit in another place (the
\* failover loop, executeTask of load-balance and adaptive, executeLoadBalanceLeaf,
\* the retry loop); a second Allow on the way would burn one, which the comments
\* at loadbalance.go:30 and execute_node.go:447 warn of.
RequestsArePaid ==
  /\ phase = "send" => permits = 1
  /\ phase \in {"waiting", "retry"} => permits = 0

\* Once the caller has its answer, a successful or soft-failed stream is held
\* open only if it is that answer: a soft result that was overtaken by a success,
\* a hard failure, another soft result or an abort has been closed, whatever the
\* order.  (Streams that failed hard are not covered: RecordHardResult replaces
\* one without closing it.)
SoftStreamsReleased ==
  phase = "done" =>
    \A r \in open : r.kind \in {"success", "soft"} => r = answer

\* What stops a whole schedule while its client is there is never the budget of one
\* attempt (attempt.go:17: mapped "on purpose", else "later candidates never get their
\* turn"), nor a refused connection, a child group that could try nothing or a limiter:
\* only an error that IsContextAbort itself takes for the end of the context, in the
\* attempt that came back last.  (The code does take some for it that are not:
\* AbortOnlyWhenGone.)
AbortIsExplained ==
  answer = Said("abort") => client = "gone" \/ last.kind = "abort"

\* Does not hold: a limit of the transport that strikes before the attempt's budget (a
\* dial that times out, provider/client.go:34) stops the schedule with the client
\* there, and so does a buffered body that is still on the wire when
\* doNonStreamAttempt returns.
AbortOnlyWhenGone ==
  answer = Said("abort") => client = "gone"

\* An attempt that ends because the client went away, or the request's deadline
\* passed, is not held against the provider: no report reaches the health
\* checker from it (context_abort.go:127, "unless err is a context abort"); nor from
\* one with an error that only looks so.
AbortIsNobodysFault ==
  [][(phase \in {"send", "waiting", "retry"} /\ phase' = "outcome" /\ last'.kind = "abort")
       => UNCHANGED breakerVars]_leafVars

\* A schedule that ends in failure has given every child its turn or a reason:
\* no leaf that was schedulable, healthy and within its rate limit is forgotten.
NobodyForgotten ==
  phase = "done" /\ answer \notin {Said("abort"), Said("unavailable")} /\ answer.kind # "success" =>
    children \subseteq tried \cup passed
==============================================================================
