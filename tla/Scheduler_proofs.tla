-------------------------- MODULE Scheduler_proofs --------------------------
(***************************************************************************)
(* Theorems of the sequential modes, for every group, order, retry budget, *)
(* set of health keys and choice of the selector: what the run scheduler   *)
(* checks on one instance.  A part for each mode, then the whole.          *)
(***************************************************************************)
EXTENDS Scheduler, FiniteSetTheorems, TLAPS

------------------------------------------------------------------------------
(* What every mode keeps, whatever its loop does: the parts of an inductive   *)
(* invariant over the variables of LeafAttempt, kept by the steps they share  *)

\* The turn of a child: who may be executed at which phase, and with what in hand.
TurnInv ==
  /\ phase \in {"node", "send", "waiting", "retry", "outcome"} => cur \in children
  /\ phase \in {"send", "retry"} => cur \notin Groups
  /\ phase \in {"retry", "outcome"} => last \in Outcomes
  /\ phase = "retry" => last.kind \in {"hard5xx", "transport"} /\ last.of = cur

\* RequestsArePaid, with the permit a leaf brings to executeNode.
PaidInv ==
  /\ RequestsArePaid
  /\ phase = "node" => permits = IF cur \in Groups THEN 0 ELSE 1

\* Every stream worth reading that is open is the soft result in hand, the outcome
\* that was not recorded yet, or the answer.
StreamsInv ==
  \A r \in open : r.kind \in {"success", "soft"} =>
    \/ phase # "done" /\ r = fallback.soft
    \/ phase = "outcome" /\ r = last
    \/ phase = "done" /\ r = answer

\* What is in hand is a failure, and an abort in it none.
AbortInv ==
  /\ phase # "done" => answer = Nothing
  /\ fallback.hard.kind \notin {"success", "soft", "abort"}
  /\ fallback.soft = Nothing \/ fallback.soft.kind = "soft"
  /\ AbortIsExplained

\* Once a child had its turn, its failure is in hand.
MemoryInv ==
  /\ phase = "entry" => tried = {} /\ fallback = NoFallback
  /\ phase \notin {"outcome", "done"} /\ tried # {} => fallback # NoFallback

LeafInv == LeafTypeOK /\ TurnInv /\ PaidInv /\ StreamsInv /\ AbortInv /\ MemoryInv

------------------------------------------------------------------------------
(* The breaker *)

\* A report on a key keeps the types of the breaker's maps.
LEMMA ReportsTyped ==
  ASSUME BreakerTypeOK, NEW k \in Keys,
         BreakerReport(k) \/ Recover(k)
  PROVE  BreakerTypeOK'
<1> USE BreakerAssumption DEF BreakerAssumption, BreakerTypeOK
<1>1. CASE ReportSuccess(k)
  BY <1>1 DEF ReportSuccess
<1>2. CASE ReportFailure(k)
  <2>1. failureCounts' \in [Keys -> 0 .. Threshold]
    BY <1>2 DEF ReportFailure, Bump
  <2>2. (healthy[k] /\ Bump(failureCounts[k]) < Threshold) \in BOOLEAN
    OBVIOUS
  <2>3. healthy' \in [Keys -> BOOLEAN]
    BY <1>2, <2>2, Zenon DEF ReportFailure
  <2> QED BY <2>1, <2>3
<1>3. CASE MarkUnhealthy(k)
  BY <1>3 DEF MarkUnhealthy
<1>4. CASE Recover(k)
  BY <1>4 DEF Recover
<1> QED BY <1>1, <1>2, <1>3, <1>4 DEF BreakerReport

\* So does what applyAttemptHealth reports of an attempt.
LEMMA HealthTyped ==
  ASSUME BreakerTypeOK, NEW k \in Keys, NEW r, ApplyHealth(r, k)
  PROVE  BreakerTypeOK'
<1>1. \/ ReportSuccess(k) \/ ReportFailure(k) \/ MarkUnhealthy(k)
      \/ UNCHANGED breakerVars
  BY DEF ApplyHealth
<1>2. CASE UNCHANGED breakerVars
  BY <1>2 DEF breakerVars, BreakerTypeOK
<1> QED BY <1>1, <1>2, ReportsTyped DEF BreakerReport

\* applyAttemptHealth says nothing of an abort.
LEMMA AbortUnreported ==
  ASSUME NEW k, NEW r, r.kind = "abort", ApplyHealth(r, k)
  PROVE  UNCHANGED breakerVars
BY DEF ApplyHealth
------------------------------------------------------------------------------
(* Outcomes and what is kept of them *)

\* What is kept of an outcome is a result, and a stream worth reading is kept as
\* it is.
LEMMA KeptTyped ==
  ASSUME NEW r \in Outcomes
  PROVE  /\ Kept(r) \in Results
         /\ Kept(r).kind \in {"success", "soft"} => Kept(r) = r
         /\ r.kind \notin {"success", "soft", "abort"} =>
              Kept(r).kind \notin {"success", "soft", "abort", "nothing"}
BY DEF Kept, Outcomes, Results, Kinds, Failures, Errors

\* The outcomes of executing a child of the group are outcomes.
LEMMA ResultTyped ==
  ASSUME cur \in Cands, NEW k \in Kinds
  PROVE  Result(k) \in Outcomes /\ Result(k).kind = k
BY DEF Result, Outcomes

------------------------------------------------------------------------------
(* The steps of a turn *)

\* At the start nothing is held, paid or answered.
LEMMA LeafInitially ==
  ASSUME LeafInit
  PROVE  LeafInv
<1> USE DEF LeafInit
<1>1. LeafTypeOK
  BY BreakerAssumption, OutcomeAssumption
  DEF BreakerAssumption, OutcomeAssumption, LeafTypeOK, BreakerInit, BreakerTypeOK, RequestInit,
      NoFallback, Leaves
<1>2. TurnInv /\ PaidInv /\ StreamsInv
  BY DEF TurnInv, PaidInv, RequestsArePaid, StreamsInv, NoFallback
<1>3. AbortInv
  BY DEF AbortInv, AbortIsExplained, NoFallback, Nothing, Said
<1> QED BY <1>1, <1>2, <1>3 DEF LeafInv, MemoryInv

\* What ends a turn ends it in a good state: r is reported or not, and it is an
\* abort only if the client is gone.
LEMMA TurnEndsWell ==
  ASSUME LeafInv, NEW r \in Outcomes, TurnEnds(r),
         phase \in {"node", "send", "waiting", "retry"},
         open' \in SUBSET (open \cup {Kept(r)}), round' \in Nat, BreakerTypeOK',
         UNCHANGED <<client, ready, cur, fallback, passed, answer, requestInput>>
  PROVE  LeafInv'
<1> USE DEF LeafInv, TurnEnds, requestInput
<1>1. LeafTypeOK'
  <2>1. cur \in Cands
    BY DEF LeafTypeOK, TurnInv
  <2>2. open' \subseteq Results
    BY KeptTyped DEF LeafTypeOK
  <2> QED BY <2>1, <2>2 DEF LeafTypeOK, Leaves
<1>2. TurnInv' /\ PaidInv'
  BY DEF TurnInv, PaidInv, RequestsArePaid
<1>3. StreamsInv'
  BY KeptTyped DEF StreamsInv
<1>4. AbortInv'
  BY DEF AbortInv, AbortIsExplained, Said, Nothing
<1> QED BY <1>1, <1>2, <1>3, <1>4 DEF MemoryInv

\* A leaf's turn ends with a report on its own key.
LEMMA LeafReturnsTyped ==
  ASSUME LeafInv, NEW r, LeafReturns(r), cur \in Leaves
  PROVE  BreakerTypeOK'
<1>1. KeyOf[cur] \in Keys
  BY OutcomeAssumption DEF OutcomeAssumption, Leaves, LeafInv, LeafTypeOK
<1> QED BY <1>1, HealthTyped DEF LeafReturns, LeafInv, LeafTypeOK

\* executeNode keeps the invariant.
LEMMA EnterNodeKeeps ==
  ASSUME LeafInv, EnterNode, UNCHANGED requestInput
  PROVE  LeafInv'
<1> USE DEF EnterNode
<1>0. cur \in children /\ cur \in Cands
  BY DEF LeafInv, TurnInv, LeafTypeOK
<1>1. BreakerTypeOK'
  BY DEF LeafInv, LeafTypeOK, BreakerTypeOK, breakerVars
<1>2. round' \in Nat /\ open' \in SUBSET open
  BY DEF LeafInv, LeafTypeOK
<1>3. CASE client = "gone" /\ TurnEnds(Result("abort"))
  <2>1. Result("abort") \in Outcomes /\ Result("abort").kind = "abort"
    BY <1>0, ResultTyped DEF Kinds, Errors
  <2> QED BY <1>1, <1>2, <1>3, <2>1, TurnEndsWell
<1>4. CASE client = "live" /\ TurnEnds(Result("unavailable"))
  <2>1. Result("unavailable") \in Outcomes /\ Result("unavailable").kind = "unavailable"
    BY <1>0, ResultTyped DEF Kinds, Errors
  <2> QED BY <1>1, <1>2, <1>4, <2>1, TurnEndsWell
<1>5. CASE /\ client = "live" /\ cur \in Groups \cup ready
           /\ phase' = IF cur \in Groups THEN "waiting" ELSE "send"
           /\ UNCHANGED <<last, tried, permits>>
  <2> USE DEF LeafInv, requestInput
  <2>1. LeafTypeOK'
    BY <1>1, <1>5 DEF LeafTypeOK, Leaves
  <2>2. TurnInv' /\ PaidInv'
    BY <1>0, <1>5 DEF TurnInv, PaidInv, RequestsArePaid
  <2>3. StreamsInv' /\ AbortInv'
    BY <1>5 DEF StreamsInv, AbortInv, AbortIsExplained, Said, Nothing
  <2> QED BY <1>5, <2>1, <2>2, <2>3 DEF MemoryInv
<1> QED BY <1>3, <1>4, <1>5

\* executeOnce's request keeps it.
LEMMA SendKeeps ==
  ASSUME LeafInv, Send, UNCHANGED requestInput
  PROVE  LeafInv'
<1> USE DEF Send
<1>0. cur \in Leaves /\ cur \in Cands
  BY DEF LeafInv, TurnInv, LeafTypeOK, Leaves
<1>1. CASE client = "gone" /\ LeafReturns(Result("abort"))
  <2>1. Result("abort") \in Outcomes /\ Result("abort").kind = "abort"
    BY <1>0, ResultTyped DEF Kinds, Errors
  <2>2. round' \in Nat /\ open' \in SUBSET open
    BY DEF LeafInv, LeafTypeOK
  <2>3. BreakerTypeOK'
    BY <1>0, <1>1, LeafReturnsTyped
  <2> QED BY <1>1, <2>1, <2>2, <2>3, TurnEndsWell DEF LeafReturns
<1>2. CASE /\ client = "live" /\ phase' = "waiting" /\ SpendPermit
           /\ UNCHANGED <<last, tried, breakerVars>>
  <2> USE DEF LeafInv, requestInput, SpendPermit
  <2>1. permits = 1 /\ permits' = 0
    BY <1>2 DEF PaidInv, RequestsArePaid
  <2>2. BreakerTypeOK'
    BY <1>2 DEF LeafTypeOK, BreakerTypeOK, breakerVars
  <2>3. LeafTypeOK'
    BY <1>2, <2>1, <2>2 DEF LeafTypeOK, Leaves
  <2>4. TurnInv' /\ PaidInv'
    BY <1>2, <2>1 DEF TurnInv, PaidInv, RequestsArePaid
  <2>5. StreamsInv' /\ AbortInv'
    BY <1>2 DEF StreamsInv, AbortInv, AbortIsExplained, Said, Nothing
  <2> QED BY <1>2, <2>3, <2>4, <2>5 DEF MemoryInv
<1> QED BY <1>1, <1>2

\* An answer of the upstream keeps it.
LEMMA ResponseArrivesKeeps ==
  ASSUME LeafInv, ResponseArrives, UNCHANGED requestInput
  PROVE  LeafInv'
<1>0. cur \in Cands
  BY DEF ResponseArrives, LeafInv, TurnInv, LeafTypeOK
<1>1. PICK k \in Arrivals(cur) :
        /\ open' = open \/ (MayHold(Result(k)) /\ open' = open \cup {Kept(Result(k))})
        /\ IF cur \in Groups
             THEN TurnEnds(Result(k)) /\ UNCHANGED <<round, breakerVars>>
             ELSE IF Retryable(Result(k)) /\ round < Retries[cur]
             THEN /\ phase' = "retry" /\ last' = Result(k) /\ round' = round + 1
                  /\ UNCHANGED <<tried, permits, breakerVars>>
             ELSE LeafReturns(Result(k)) /\ UNCHANGED round
  BY DEF ResponseArrives
<1> DEFINE r == Result(k)
<1>2. r \in Outcomes /\ r.kind = k /\ r.of = cur
  BY <1>0, ResultTyped DEF Arrivals, Result
<1>4. /\ phase = "waiting"
      /\ UNCHANGED <<client, ready, cur, fallback, passed, answer, requestInput>>
  BY DEF ResponseArrives
<1>5. open' \in SUBSET (open \cup {Kept(r)})
  BY <1>1
<1>6. CASE TurnEnds(r) /\ UNCHANGED <<round, breakerVars>>
  <2>1. round' \in Nat /\ BreakerTypeOK'
    BY <1>6 DEF LeafInv, LeafTypeOK, BreakerTypeOK, breakerVars
  <2> QED BY <1>2, <1>4, <1>5, <1>6, <2>1, TurnEndsWell
<1>7. CASE cur \notin Groups /\ LeafReturns(r) /\ UNCHANGED round
  <2>1. cur \in Leaves
    BY <1>4, <1>7 DEF LeafInv, TurnInv, Leaves
  <2>2. BreakerTypeOK' /\ round' \in Nat
    BY <1>7, <2>1, LeafReturnsTyped DEF LeafInv, LeafTypeOK
  <2> QED BY <1>2, <1>4, <1>5, <1>7, <2>2, TurnEndsWell DEF LeafReturns
<1>8. CASE /\ cur \notin Groups /\ Retryable(r)
           /\ phase' = "retry" /\ last' = r /\ round' = round + 1
           /\ UNCHANGED <<tried, permits, breakerVars>>
  <2> USE DEF LeafInv, requestInput
  <2>1. Kept(r) \in Results /\ Kept(r).kind = "hard"
    BY <1>2, <1>8, KeptTyped DEF Kept, Retryable, Failures, Outcomes
  <2>2. BreakerTypeOK'
    BY <1>8 DEF LeafTypeOK, BreakerTypeOK, breakerVars
  <2>3. LeafTypeOK'
    BY <1>2, <1>4, <1>5, <1>8, <2>1, <2>2 DEF LeafTypeOK, Leaves
  <2>4. TurnInv' /\ PaidInv'
    BY <1>2, <1>4, <1>8 DEF TurnInv, PaidInv, RequestsArePaid, Retryable
  <2>5. StreamsInv' /\ AbortInv'
    BY <1>4, <1>5, <1>8, <2>1 DEF StreamsInv, AbortInv, AbortIsExplained, Said, Nothing
  <2> QED BY <1>4, <1>8, <2>3, <2>4, <2>5 DEF MemoryInv
<1> QED BY <1>1, <1>6, <1>7, <1>8

\* The step between two attempts on a leaf keeps it.
LEMMA RetryKeeps ==
  ASSUME LeafInv, Retry, UNCHANGED requestInput
  PROVE  LeafInv'
<1>0. /\ phase = "retry"
      /\ cur \in Leaves /\ cur \in Cands
      /\ last \in Outcomes /\ last.kind \in {"hard5xx", "transport"}
      /\ UNCHANGED <<client, ready, cur, round, fallback, passed, answer, requestInput>>
      /\ round' \in Nat
  BY DEF Retry, LeafInv, TurnInv, LeafTypeOK, Leaves
<1>1. CASE /\ client = "gone" /\ TurnEnds(Result("abort"))
           /\ open' = open \ {Kept(last)} /\ UNCHANGED breakerVars
  <2>1. Result("abort") \in Outcomes /\ Result("abort").kind = "abort"
    BY <1>0, ResultTyped DEF Kinds, Errors
  <2>2. BreakerTypeOK' /\ open' \in SUBSET open
    BY <1>1 DEF LeafInv, LeafTypeOK, BreakerTypeOK, breakerVars
  <2> QED BY <1>0, <1>1, <2>1, <2>2, TurnEndsWell
<1>2. CASE client = "live" /\ LeafReturns(last) /\ UNCHANGED open
  <2>1. BreakerTypeOK'
    BY <1>0, <1>2, LeafReturnsTyped
  <2> QED BY <1>0, <1>2, <2>1, TurnEndsWell DEF LeafReturns
<1>3. CASE /\ client = "live" /\ TakePermit /\ phase' = "send" /\ last' = Nothing
           /\ open' = open \ {Kept(last)} /\ UNCHANGED <<tried, breakerVars>>
  <2> USE DEF LeafInv, requestInput, TakePermit
  <2>1. permits = 0 /\ permits' = 1
    BY <1>0, <1>3 DEF PaidInv, RequestsArePaid
  <2>2. BreakerTypeOK'
    BY <1>3 DEF LeafTypeOK, BreakerTypeOK, breakerVars
  <2>3. LeafTypeOK'
    BY <1>0, <1>3, <2>1, <2>2 DEF LeafTypeOK, Leaves
  <2>4. TurnInv' /\ PaidInv'
    BY <1>0, <1>3, <2>1 DEF TurnInv, PaidInv, RequestsArePaid, Leaves
  <2>5. StreamsInv' /\ AbortInv'
    BY <1>0, <1>3 DEF StreamsInv, AbortInv, AbortIsExplained, Said, Nothing
  <2> QED BY <1>0, <1>3, <2>3, <2>4, <2>5 DEF MemoryInv
<1> QED BY <1>1, <1>2, <1>3 DEF Retry

\* So the whole turn of a child does.
LEMMA LeafStepKeeps ==
  ASSUME LeafInv, LeafStep
  PROVE  LeafInv'
BY EnterNodeKeeps, SendKeeps, ResponseArrivesKeeps, RetryKeeps DEF LeafStep, LeafRuns

------------------------------------------------------------------------------
(* The steps of a loop *)

\* What a step of a loop leaves alone, whatever it does.
Steady == UNCHANGED <<client, ready, requestInput, tried, breakerVars>>

\* A child of the group is given its turn.
LEMMA BeginsWell ==
  ASSUME LeafInv, NEW c \in children, Begin(c), phase \in {"loop", "permit"},
         Steady, UNCHANGED <<fallback, open, passed, answer>>
  PROVE  LeafInv'
<1> USE DEF LeafInv, Begin, Steady, requestInput
<1>1. LeafTypeOK'
  BY DEF LeafTypeOK, BreakerTypeOK, breakerVars, Leaves
<1>2. TurnInv' /\ PaidInv'
  BY DEF TurnInv, PaidInv, RequestsArePaid, Mixed
<1>3. StreamsInv' /\ AbortInv'
  BY DEF StreamsInv, AbortInv, AbortIsExplained, Said, Nothing
<1> QED BY <1>1, <1>2, <1>3 DEF MemoryInv

\* A leaf is sent off by the loop itself, with its permit.
LEMMA SendsWell ==
  ASSUME LeafInv, NEW c \in Leaves, phase = "loop", phase' = "send", cur' = c,
         round' = 0, last' = Nothing, permits' = 1,
         Steady, UNCHANGED <<fallback, open, passed, answer>>
  PROVE  LeafInv'
<1> USE DEF LeafInv, Steady, requestInput
<1>1. LeafTypeOK'
  BY DEF LeafTypeOK, BreakerTypeOK, breakerVars, Leaves
<1>2. TurnInv' /\ PaidInv'
  BY DEF TurnInv, PaidInv, RequestsArePaid, Leaves
<1>3. StreamsInv' /\ AbortInv'
  BY DEF StreamsInv, AbortInv, AbortIsExplained, Said, Nothing
<1> QED BY <1>1, <1>2, <1>3 DEF MemoryInv

\* A leaf is found out to be unavailable by the loop itself.
LEMMA UnavailableWell ==
  ASSUME LeafInv, NEW c \in Leaves, phase = "loop", phase' = "outcome", cur' = c,
         last' = [kind |-> "unavailable", of |-> c], round' = 0, permits' = 0,
         tried' = tried \cup {c},
         UNCHANGED <<client, ready, requestInput, breakerVars, fallback, open, passed, answer>>
  PROVE  LeafInv'
<1> USE DEF LeafInv, requestInput
<1>0. last' \in Outcomes /\ last'.kind = "unavailable" /\ c \in Cands
  BY DEF Outcomes, Kinds, Errors, LeafTypeOK, Leaves
<1>1. LeafTypeOK'
  BY <1>0 DEF LeafTypeOK, BreakerTypeOK, breakerVars, Leaves
<1>2. TurnInv' /\ PaidInv'
  BY <1>0 DEF TurnInv, PaidInv, RequestsArePaid, Leaves
<1>3. StreamsInv' /\ AbortInv'
  BY <1>0 DEF StreamsInv, AbortInv, AbortIsExplained, Said, Nothing
<1> QED BY <1>1, <1>2, <1>3 DEF MemoryInv

\* The loop goes on without a turn.
LEMMA LoopStays ==
  ASSUME LeafInv, phase \in {"entry", "loop", "permit"}, phase' \in {"loop", "permit"},
         passed' \subseteq Cands,
         Steady, UNCHANGED <<cur, round, last, fallback, open, permits, answer>>
  PROVE  LeafInv'
<1> USE DEF LeafInv, Steady, requestInput
<1>1. LeafTypeOK'
  BY DEF LeafTypeOK, BreakerTypeOK, breakerVars, Leaves
<1>2. TurnInv' /\ PaidInv'
  BY DEF TurnInv, PaidInv, RequestsArePaid
<1>3. StreamsInv' /\ AbortInv'
  BY DEF StreamsInv, AbortInv, AbortIsExplained, Said, Nothing
<1> QED BY <1>1, <1>2, <1>3 DEF MemoryInv

\* The schedule ends with answer a: every stream worth reading was closed with the
\* soft result in hand, or is the answer.
LEMMA FinishesWell ==
  ASSUME LeafInv, NEW a, Finish(a), phase # "done",
         a = Said("abort") => client = "gone" \/ last.kind = "abort",
         open' \subseteq open,
         \A r \in open' : r.kind \in {"success", "soft"} => r = a,
         fallback' \in {fallback, NoFallback},
         passed' \subseteq Cands, Steady, UNCHANGED <<cur, round, last, permits>>
  PROVE  LeafInv'
<1> USE DEF LeafInv, Finish, Steady, requestInput
<1>1. LeafTypeOK'
  BY DEF LeafTypeOK, BreakerTypeOK, breakerVars, Leaves, NoFallback
<1>2. TurnInv' /\ PaidInv'
  BY DEF TurnInv, PaidInv, RequestsArePaid
<1>3. StreamsInv' /\ AbortInv'
  BY DEF StreamsInv, AbortInv, AbortIsExplained, NoFallback, Nothing
<1> QED BY <1>1, <1>2, <1>3 DEF MemoryInv

\* The schedule is stopped by the end of the request's context, or what passes for it.
LEMMA StopsWell ==
  ASSUME LeafInv, StopScheduling, phase # "done",
         client = "gone" \/ last.kind = "abort",
         phase = "outcome" => last.kind \notin {"success", "soft"},
         passed' \subseteq Cands, Steady, UNCHANGED <<cur, round, last, permits>>
  PROVE  LeafInv'
<1>1. \A r \in open' : r.kind \notin {"success", "soft"}
  BY DEF LeafInv, StreamsInv, StopScheduling
<1> QED BY <1>1, FinishesWell DEF StopScheduling

\* It ends with what it has.
LEMMA FinalWell ==
  ASSUME LeafInv, Final, phase = "loop",
         passed' \subseteq Cands, Steady, UNCHANGED <<cur, round, last, permits>>
  PROVE  LeafInv'
<1>1. Finish(FinalAnswer) /\ FinalAnswer # Said("abort")
  BY DEF Final, FinalAnswer, LeafInv, AbortInv, Said, Nothing
<1>2. fallback.soft # Nothing => fallback.soft.kind = "soft"
  BY DEF LeafInv, AbortInv
<1>3. \A r \in open : r.kind \in {"success", "soft"} => r = fallback.soft /\ r # Nothing
  BY DEF LeafInv, LeafTypeOK, StreamsInv, Results, Nothing
<1>4. \A r \in open' : r.kind \in {"success", "soft"} => r = FinalAnswer
  BY <1>3 DEF Final, FinalAnswer
<1>5. open' \subseteq open /\ fallback' = NoFallback
  BY DEF Final
<1> QED BY <1>1, <1>4, <1>5, FinishesWell

\* A failure is recorded and the loop goes on.
LEMMA RecordsHardWell ==
  ASSUME LeafInv, RecordHard(last), phase = "outcome", phase' = "loop",
         last.kind \notin {"success", "soft", "abort"},
         passed' \subseteq Cands, Steady, UNCHANGED <<cur, round, last, permits, answer>>
  PROVE  LeafInv'
<1> USE DEF LeafInv, RecordHard, Steady, requestInput
<1>0. last \in Outcomes
  BY DEF TurnInv
<1>1. LeafTypeOK'
  BY <1>0, KeptTyped DEF LeafTypeOK, BreakerTypeOK, breakerVars, Leaves
<1>2. TurnInv' /\ PaidInv'
  BY DEF TurnInv, PaidInv, RequestsArePaid
<1>3. StreamsInv'
  BY DEF StreamsInv
<1>4. AbortInv'
  BY <1>0, KeptTyped DEF AbortInv, AbortIsExplained, Said, Nothing
<1>5. MemoryInv'
  BY <1>0, KeptTyped DEF MemoryInv, NoFallback, Nothing
<1> QED BY <1>1, <1>2, <1>3, <1>4, <1>5

\* A soft failure is.
LEMMA RecordsSoftWell ==
  ASSUME LeafInv, RecordSoft(last), phase = "outcome", phase' = "loop",
         last.kind = "soft",
         passed' \subseteq Cands, Steady, UNCHANGED <<cur, round, last, permits, answer>>
  PROVE  LeafInv'
<1> USE DEF LeafInv, RecordSoft, Steady, requestInput
<1>0. last \in Outcomes /\ last \in Results
  BY DEF TurnInv, Outcomes, Results
<1>1. fallback' = [hard |-> fallback.hard, soft |-> last]
  BY DEF LeafTypeOK
<1>2. LeafTypeOK'
  BY <1>0, <1>1 DEF LeafTypeOK, BreakerTypeOK, breakerVars, Leaves
<1>3. TurnInv' /\ PaidInv'
  BY DEF TurnInv, PaidInv, RequestsArePaid
<1>4. StreamsInv' /\ AbortInv'
  BY <1>1 DEF StreamsInv, AbortInv, AbortIsExplained, Said, Nothing
<1>5. MemoryInv'
  BY <1>1 DEF MemoryInv, NoFallback, Nothing
<1> QED BY <1>2, <1>3, <1>4, <1>5

\* Whatever a loop does with the outcome of a turn keeps the invariant.
LEMMA RecordsWell ==
  ASSUME LeafInv, RecordOutcome, phase = "outcome",
         passed' \subseteq Cands, Steady, UNCHANGED <<cur, round, last, permits>>
  PROVE  LeafInv'
<1>1. CASE /\ last.kind = "success" /\ Finish(last)
           /\ open' = open \ {fallback.soft} /\ fallback' = NoFallback
  <2>1. \A r \in open' : r.kind \in {"success", "soft"} => r = last
    BY <1>1 DEF LeafInv, StreamsInv
  <2>2. last # Said("abort")
    BY <1>1 DEF Said
  <2> QED BY <1>1, <2>1, <2>2, FinishesWell
<1>2. CASE ShouldStopScheduling /\ StopScheduling
  <2>1. last.kind \notin {"success", "soft"}
    BY <1>2 DEF ShouldStopScheduling, Errors
  <2>2. client = "gone" \/ last.kind = "abort"
    BY <1>2 DEF ShouldStopScheduling
  <2> QED BY <1>2, <2>1, <2>2, StopsWell
<1>3. CASE /\ last.kind \in Failures \cup Errors /\ last.kind # "abort"
           /\ RecordHard(last) /\ phase' = "loop" /\ UNCHANGED answer
  BY <1>3, RecordsHardWell DEF Failures, Errors
<1>4. CASE /\ last.kind = "soft"
           /\ RecordSoft(last) /\ phase' = "loop" /\ UNCHANGED answer
  BY <1>4, RecordsSoftWell
<1> QED BY <1>1, <1>2, <1>3, <1>4 DEF RecordOutcome, ShouldStopScheduling, Failures

\* Neither does anything that happens around the request disturb it.
LEMMA EnvironmentKeeps ==
  ASSUME LeafInv, Environment
  PROVE  LeafInv'
<1> USE DEF LeafInv, requestVars, requestInput
<1>1. CASE ClientGone
  <2>1. LeafTypeOK'
    BY <1>1 DEF ClientGone, LeafTypeOK, BreakerTypeOK, breakerVars, Leaves
  <2> QED
    BY <1>1, <2>1 DEF ClientGone, TurnInv, PaidInv, RequestsArePaid, StreamsInv, AbortInv,
                      AbortIsExplained, MemoryInv
<1>2. CASE OthersReport
  <2>1. BreakerTypeOK'
    BY <1>2, ReportsTyped, OutcomeAssumption DEF OutcomeAssumption, OthersReport, LeafTypeOK
  <2>2. LeafTypeOK'
    BY <1>2, <2>1 DEF OthersReport, LeafTypeOK, Leaves
  <2> QED
    BY <1>2, <2>2 DEF OthersReport, TurnInv, PaidInv, RequestsArePaid, StreamsInv, AbortInv,
                      AbortIsExplained, MemoryInv
<1>3. CASE ReadinessChanges
  <2>1. LeafTypeOK'
    BY <1>3 DEF ReadinessChanges, LeafTypeOK, BreakerTypeOK, breakerVars, Leaves
  <2> QED
    BY <1>3, <2>1 DEF ReadinessChanges, TurnInv, PaidInv, RequestsArePaid, StreamsInv, AbortInv,
                      AbortIsExplained, MemoryInv
<1> QED BY <1>1, <1>2, <1>3 DEF Environment

\* A step that changes nothing here, whatever the loop's own variables do.
LEMMA LeafStutters ==
  ASSUME LeafInv, UNCHANGED leafVars
  PROVE  LeafInv'
<1> USE DEF LeafInv, leafVars, requestVars, requestInput
<1>1. LeafTypeOK'
  BY DEF LeafTypeOK, BreakerTypeOK, breakerVars, Leaves
<1>2. TurnInv' /\ PaidInv' /\ StreamsInv' /\ AbortInv'
  BY DEF TurnInv, PaidInv, RequestsArePaid, StreamsInv, AbortInv, AbortIsExplained
<1> QED BY <1>1, <1>2 DEF MemoryInv

\* The parts of the invariant a caller sees.
LEMMA LeafPromises ==
  ASSUME LeafInv
  PROVE  RequestsArePaid /\ SoftStreamsReleased /\ AbortIsExplained
BY DEF LeafInv, PaidInv, StreamsInv, AbortInv, SoftStreamsReleased

------------------------------------------------------------------------------
(* Aborts and the health checker *)

\* A step that ends a turn in an abort makes no report.
LEMMA AbortsSilently ==
  ASSUME LeafInv, LeafStep, phase' = "outcome", last'.kind = "abort"
  PROVE  UNCHANGED breakerVars
<1>1. CASE EnterNode
  BY <1>1 DEF EnterNode
<1>2. CASE Send
  BY <1>2, AbortUnreported DEF Send, LeafReturns, TurnEnds
<1>3. CASE ResponseArrives
  BY <1>3, AbortUnreported DEF ResponseArrives, LeafReturns, TurnEnds
<1>4. CASE Retry
  <2>1. last.kind # "abort"
    BY <1>4 DEF Retry, LeafInv, TurnInv
  <2> QED BY <1>4, <2>1 DEF Retry, LeafReturns, TurnEnds
<1> QED BY <1>1, <1>2, <1>3, <1>4 DEF LeafStep, LeafRuns

------------------------------------------------------------------------------
(* The contract: what the steps of LeafAttempt are to ScheduleContract *)

ContractStep == [Promise!ContractNext]_(Promise!contractVars)

\* A failure that was recorded as hard is a hard one to the contract.
LEMMA HardInHand ==
  ASSUME LeafInv, fallback.hard # Nothing
  PROVE  Class(fallback.hard).kind = "hard"
<1> DEFINE h == fallback.hard
<1>1. h \in Results /\ h.kind \notin {"success", "soft", "abort"}
  BY DEF LeafInv, LeafTypeOK, AbortInv
<1>2. h.of # "nobody" /\ h.kind \in {"hard", "unavailable", "allLimited"}
  BY <1>1, OutcomeAssumption DEF OutcomeAssumption, Results
<1> QED BY <1>2 DEF Class, Kept, Failures

\* What is in hand before an outcome is there: nothing, a soft or a hard failure.
LEMMA StandingBefore ==
  ASSUME LeafInv, phase # "outcome"
  PROVE  /\ Standing = IF fallback.hard # Nothing THEN Class(fallback.hard) ELSE fallback.soft
         /\ fallback.hard # Nothing => Standing.kind = "hard"
         /\ fallback.hard = Nothing => Standing.kind \in {"nothing", "soft"}
         /\ fallback.hard = Nothing => Class(Standing) = Standing
<1>1. Standing = IF fallback.hard # Nothing THEN Class(fallback.hard) ELSE fallback.soft
  BY DEF Standing
<1>2. fallback.hard # Nothing => Class(fallback.hard).kind = "hard"
  BY HardInHand
<1>3. fallback.soft = Nothing \/ fallback.soft.kind = "soft"
  BY DEF LeafInv, AbortInv
<1>4. Class(fallback.soft) = fallback.soft
  BY <1>3 DEF Class, Kept, Nothing, Failures
<1> QED BY <1>1, <1>2, <1>3, <1>4 DEF Nothing

\* The class of an outcome is one of the four the contract knows.
LEMMA ClassOfOutcome ==
  ASSUME NEW r \in Outcomes
  PROVE  /\ r.of \in Cands
         /\ Class(r) = [kind |-> Class(r).kind, of |-> r.of]
         /\ Class(r).kind \in {"success", "soft", "hard", "abort"}
         /\ r.kind \in {"success", "soft", "abort"} => Class(r).kind = r.kind
         /\ Class(r).kind \in {"soft", "success", "abort"} => r.kind = Class(r).kind
         /\ Class(Kept(r)) = Class(r)
<1> DEFINE K == {"success", "soft", "abort"}
<1>1. /\ r.of \in Cands /\ r.of # "nobody" /\ r.kind \in Kinds
      /\ r = [kind |-> r.kind, of |-> r.of]
  BY OutcomeAssumption DEF OutcomeAssumption, Outcomes
<1>2. CASE r.kind \in K
  <2>1. Kept(r) = r /\ Class(r) = r
    BY <1>2 DEF Class, Kept, Failures
  <2> QED BY <1>1, <1>2, <2>1
<1>3. CASE r.kind \notin K
  <2>1. Class(r) = [kind |-> "hard", of |-> r.of]
    BY <1>1, <1>3 DEF Class, Kept, Kinds, Failures, Errors
  <2>2. Kept(r) = r \/ Kept(r) = [kind |-> "hard", of |-> r.of]
    BY <1>1 DEF Kept
  <2>3. Class([kind |-> "hard", of |-> r.of]) = [kind |-> "hard", of |-> r.of]
    BY DEF Class, Kept, Failures
  <2> QED BY <1>1, <1>3, <2>1, <2>2, <2>3
<1> QED BY <1>2, <1>3

\* The end of a child's first turn is a try.
LEMMA TurnIsTry ==
  ASSUME LeafInv, phase \notin {"outcome", "done"}, phase' = "outcome",
         NEW c \in Cands \ tried, last' \in Outcomes, last'.of = c,
         tried' = tried \cup {c}, UNCHANGED <<fallback, answer>>
  PROVE  ContractStep
<1> DEFINE new == Class(last')
<1>1. /\ new = [kind |-> new.kind, of |-> c]
      /\ new.kind \in {"success", "soft", "hard", "abort"}
      /\ last'.kind = "soft" <=> new.kind = "soft"
  BY ClassOfOutcome
<1>2. answer = Nothing /\ Class(Nothing) = Nothing /\ answer' = answer
  BY DEF LeafInv, AbortInv, Class, Kept, Nothing, Failures
<1>3. Class(answer) = Promise!Nothing /\ UNCHANGED Class(answer)
  BY <1>2 DEF Promise!Nothing, Nothing
<1>4. Standing.kind \notin {"success", "abort"}
  BY StandingBefore
<1>5. Standing' = IF last'.kind = "soft" /\ fallback.hard # Nothing THEN Standing ELSE new
  BY StandingBefore DEF Standing
<1>6. Standing' \in Promise!Standing(c, new.kind)
  BY <1>1, <1>5, StandingBefore DEF Promise!Standing
<1>7. Promise!Try(c)
  BY <1>1, <1>3, <1>4, <1>6 DEF Promise!Try
<1> QED BY <1>7 DEF ContractStep, Promise!ContractNext

\* The contract notices neither the turn as it goes on nor what is recorded of it.
LEMMA ContractStutters ==
  ASSUME Standing' = Standing, UNCHANGED <<tried, answer>>
  PROVE  ContractStep
BY DEF ContractStep, Promise!contractVars

\* Ending a schedule without an outcome leaves nothing in hand.
LEMMA NothingInHand ==
  ASSUME phase' = "done", fallback' = NoFallback
  PROVE  Standing' = Promise!Nothing
BY DEF Standing, NoFallback, Nothing, Promise!Nothing

\* An abort is a give-up.
LEMMA StopGivesUp ==
  ASSUME LeafInv, StopScheduling, phase # "done",
         phase = "outcome" => last.kind # "success", UNCHANGED tried
  PROVE  ContractStep
<1>1. Class(answer) = Promise!Nothing /\ Class(answer') = Promise!Said("abort")
  BY DEF LeafInv, AbortInv, StopScheduling, Finish, Class, Kept, Nothing, Said, Failures,
         Promise!Nothing, Promise!Said
<1>2. Standing.kind # "success"
  <2>1. CASE phase = "outcome"
    BY <2>1, ClassOfOutcome, HardInHand DEF Standing, LeafInv, TurnInv
  <2> QED BY <2>1, StandingBefore
<1>3. Standing' = Promise!Nothing
  BY NothingInHand DEF StopScheduling, Finish
<1>4. Promise!GiveUp
  BY <1>1, <1>2, <1>3 DEF Promise!GiveUp
<1> QED BY <1>4 DEF ContractStep, Promise!ContractNext

\* So is the abort before anything began, and that nothing could be tried is said
\* before anything was.
LEMMA EntryEnds ==
  ASSUME LeafInv, phase = "entry", NEW k \in {"abort", "unavailable"}, Finish(Said(k)),
         UNCHANGED <<fallback, tried>>
  PROVE  ContractStep
<1>1. /\ Class(answer) = Promise!Nothing /\ Class(answer') = Promise!Said(k)
  BY DEF LeafInv, AbortInv, Finish, Class, Kept, Nothing, Said, Failures, Promise!Nothing,
         Promise!Said
<1>2. tried = {} /\ fallback.soft = Nothing
  BY DEF LeafInv, MemoryInv, NoFallback
<1>3. fallback.hard = Nothing
  BY DEF LeafInv, MemoryInv, NoFallback
<1>4. Standing = Promise!Nothing /\ Standing' = Promise!Nothing
  BY <1>2, <1>3 DEF Standing, Finish, Nothing, Promise!Nothing
<1>5. CASE k = "abort"
  BY <1>1, <1>4, <1>5 DEF Promise!GiveUp, Promise!Nothing, ContractStep, Promise!ContractNext
<1>6. CASE k = "unavailable"
  BY <1>1, <1>2, <1>4, <1>6 DEF Promise!Return, ContractStep, Promise!ContractNext
<1> QED BY <1>5, <1>6

\* What Final answers is what the schedule stands on.
LEMMA FinalReturns ==
  ASSUME LeafInv, Final, phase = "loop", UNCHANGED tried
  PROVE  ContractStep
<1>1. Class(answer) = Promise!Nothing /\ answer' = FinalAnswer
  BY DEF LeafInv, AbortInv, Final, Finish, Class, Kept, Nothing, Failures, Promise!Nothing
<1>2. Standing' = Promise!Nothing
  BY NothingInHand DEF Final, Finish
<1>3. CASE fallback = NoFallback
  <2>1. tried = {}
    BY <1>3 DEF LeafInv, MemoryInv
  <2>2. Class(answer') = Promise!Said("rateLimited")
    BY <1>1, <1>3 DEF FinalAnswer, NoFallback, Said, Promise!Said, Class, Kept, Failures
  <2>3. Promise!Return
    BY <1>1, <1>2, <2>1, <2>2 DEF Promise!Return
  <2> QED BY <2>3 DEF ContractStep, Promise!ContractNext
<1>4. CASE fallback # NoFallback
  <2>1. fallback.hard # Nothing \/ fallback.soft # Nothing
    BY <1>4 DEF LeafInv, LeafTypeOK, NoFallback
  <2>2. Class(answer') = Standing /\ Standing.kind \in {"soft", "hard"}
    <3>1. CASE fallback.hard # Nothing
      BY <1>1, <3>1, StandingBefore DEF FinalAnswer
    <3>2. CASE fallback.hard = Nothing
      BY <1>1, <2>1, <3>2, StandingBefore DEF FinalAnswer, LeafInv, AbortInv
    <3> QED BY <3>1, <3>2
  <2>3. Promise!Return
    BY <1>1, <1>2, <2>2 DEF Promise!Return
  <2> QED BY <2>3 DEF ContractStep, Promise!ContractNext
<1> QED BY <1>3, <1>4

\* A step of a child's first turn is a try or nothing to the contract.
LEMMA LeafStepTries ==
  ASSUME LeafInv, LeafStep, cur \notin tried
  PROVE  ContractStep
<1>0. /\ phase \in {"node", "send", "waiting", "retry"}
      /\ cur \in Cands /\ UNCHANGED <<cur, fallback, answer>>
  BY DEF LeafStep, LeafRuns, EnterNode, Send, ResponseArrives, Retry, LeafInv, LeafTypeOK, TurnInv
<1>1. CASE phase' = "outcome"
  <2>1. tried' = tried \cup {cur}
    BY <1>0, <1>1 DEF LeafStep, LeafRuns, EnterNode, Send, ResponseArrives, Retry, LeafReturns, TurnEnds
  <2>2. last'.of = cur
    <3>1. CASE EnterNode \/ Send
      BY <1>0, <1>1, <3>1 DEF EnterNode, Send, LeafReturns, TurnEnds, Result
    <3>2. CASE ResponseArrives
      BY <1>0, <1>1, <3>2 DEF ResponseArrives, LeafReturns, TurnEnds, Result
    <3>3. CASE Retry
      BY <1>0, <1>1, <3>3 DEF Retry, LeafReturns, TurnEnds, Result, LeafInv, TurnInv
    <3> QED BY <3>1, <3>2, <3>3 DEF LeafStep, LeafRuns
  <2>3. last' \in Outcomes
    BY <1>1, LeafStepKeeps DEF LeafInv, TurnInv
  <2> QED BY <1>0, <1>1, <2>1, <2>2, <2>3, TurnIsTry
<1>2. CASE phase' # "outcome"
  <2>1. UNCHANGED tried
    BY <1>2 DEF LeafStep, LeafRuns, EnterNode, Send, ResponseArrives, Retry, LeafReturns, TurnEnds
  <2>2. Standing' = Standing
    BY <1>0, <1>2 DEF Standing
  <2> QED BY <1>0, <2>1, <2>2, ContractStutters
<1> QED BY <1>1, <1>2

\* What a loop does with an outcome is nothing to the contract, a return or a
\* give-up.
LEMMA RecordsFaithfully ==
  ASSUME LeafInv, RecordOutcome, phase = "outcome", UNCHANGED tried
  PROVE  ContractStep
<1>0. last \in Outcomes /\ last # Nothing /\ answer = Nothing
  BY DEF LeafInv, TurnInv, AbortInv, Outcomes, Kinds, Failures, Errors, Nothing
<1>1. CASE /\ last.kind = "success" /\ Finish(last) /\ fallback' = NoFallback
  <2>1. Class(last) = last /\ Standing = last
    BY <1>1 DEF Class, Kept, Failures, Standing
  <2>2. Class(answer) = Promise!Nothing /\ Class(answer') = Standing
    BY <1>0, <1>1, <2>1 DEF Finish, Class, Kept, Failures, Nothing, Promise!Nothing
  <2>3. Standing' = Promise!Nothing
    BY <1>1, NothingInHand DEF Finish
  <2> QED
    BY <1>1, <2>1, <2>2, <2>3 DEF Promise!Return, ContractStep, Promise!ContractNext
<1>2. CASE ShouldStopScheduling /\ StopScheduling
  <2>1. last.kind # "success"
    BY <1>2 DEF ShouldStopScheduling, Errors
  <2> QED BY <1>2, <2>1, StopGivesUp
<1>3. CASE /\ last.kind \in Failures \cup Errors /\ last.kind # "abort"
           /\ RecordHard(last) /\ phase' = "loop" /\ UNCHANGED answer
  <2>1. Kept(last) # Nothing
    BY <1>0, <1>3, KeptTyped DEF Nothing, Failures, Errors
  <2>2. Standing' = Class(last)
    BY <1>0, <1>3, <2>1, ClassOfOutcome DEF RecordHard, Standing
  <2>3. Standing = Class(last)
    BY <1>3 DEF Standing, Failures, Errors
  <2> QED BY <1>3, <2>2, <2>3, ContractStutters
<1>4. CASE /\ last.kind = "soft"
           /\ RecordSoft(last) /\ phase' = "loop" /\ UNCHANGED answer
  <2>1. fallback' = [hard |-> fallback.hard, soft |-> last]
    BY <1>4 DEF RecordSoft, LeafInv, LeafTypeOK
  <2>2. Class(last) = last
    BY <1>4 DEF Class, Kept, Failures
  <2>3. Standing' = Standing
    BY <1>4, <2>1, <2>2 DEF Standing
  <2> QED BY <1>4, <2>3, ContractStutters
<1> QED BY <1>1, <1>2, <1>3, <1>4 DEF RecordOutcome, ShouldStopScheduling, Failures

\* A step of a loop that begins a turn or goes on is nothing to the contract.
LEMMA LoopIsSilent ==
  ASSUME phase # "outcome", phase' # "outcome", UNCHANGED <<fallback, tried, answer>>
  PROVE  ContractStep
BY ContractStutters DEF Standing

\* Nor is what happens around the request.
LEMMA AroundIsSilent ==
  ASSUME UNCHANGED requestVars
  PROVE  ContractStep
BY ContractStutters DEF requestVars, Standing

------------------------------------------------------------------------------
(* Failover *)

Entries == [cand : Cands, wait : BOOLEAN]
Deferred == {deferred[j].cand : j \in DOMAIN deferred}

\* Both lists only hold children of the group, the second only leaves.
ListsInv ==
  /\ \A i \in todo : Order[i] \in children
  /\ Deferred \subseteq Leaves
  /\ phase = "entry" => deferred = <<>>
  /\ phase = "permit" => deferred # <<>>

\* While the schedule runs, a child had its turn, was passed over, has its turn, or
\* is still to come: in the first pass or in the second.
FailoverAccount ==
  phase \notin {"entry", "done"} =>
    \A ch \in children :
      \/ ch \in tried \cup passed \cup Deferred
      \/ \E i \in todo : Order[i] = ch
      \/ phase \in {"node", "send", "waiting", "retry"} /\ ch = cur

Distinct == \A j, k \in DOMAIN deferred : deferred[j].cand = deferred[k].cand => j = k

\* A child is in one list at most, once, and there only before its turn.
OnceInv ==
  /\ Distinct
  /\ Deferred \cap tried = {}
  /\ \A i \in todo : Order[i] \notin tried \cup Deferred
  /\ phase \in {"node", "send", "waiting", "retry"} =>
       cur \notin tried \cup Deferred /\ \A i \in todo : Order[i] # cur

FailoverInv ==
  LeafInv /\ FailoverTypeOK /\ ListsInv /\ FailoverAccount /\ OnceInv /\ NobodyForgotten

------------------------------------------------------------------------------
(* The list of the second pass *)

\* Putting a leaf off adds it, and only it.
LEMMA DeferAdds ==
  ASSUME FailoverTypeOK, NEW ch \in Cands, NEW w \in BOOLEAN,
         deferred' = Append(deferred, [cand |-> ch, wait |-> w])
  PROVE  /\ deferred' \in Seq(Entries) /\ Deferred' = Deferred \cup {ch}
         /\ Distinct /\ ch \notin Deferred => Distinct'
<1> DEFINE e == [cand |-> ch, wait |-> w]
<1>0. deferred \in Seq(Entries) /\ e \in Entries
  BY DEF FailoverTypeOK, Entries
<1>1. /\ deferred' \in Seq(Entries)
      /\ DOMAIN deferred' = DOMAIN deferred \cup {Len(deferred) + 1}
      /\ \A j \in DOMAIN deferred : deferred'[j] = deferred[j]
      /\ deferred'[Len(deferred) + 1] = e
      /\ Len(deferred) + 1 \notin DOMAIN deferred
  BY <1>0
<1>2. \A x : x \in Deferred' <=> x \in Deferred \/ x = ch
  BY <1>1 DEF Deferred
<1>3. ASSUME Distinct, ch \notin Deferred PROVE Distinct'
  BY <1>1, <1>3 DEF Distinct, Deferred
<1> QED BY <1>1, <1>2, <1>3

\* Moving on drops its head, and nothing but its head.
LEMMA NextDeferredDrops ==
  ASSUME FailoverTypeOK, deferred # <<>>, NextDeferred
  PROVE  /\ deferred' \in Seq(Entries)
         /\ Head(deferred) \in Entries
         /\ Head(deferred).cand \in Deferred
         /\ Deferred' \subseteq Deferred
         /\ Deferred \subseteq Deferred' \cup {Head(deferred).cand}
         /\ Distinct => Distinct' /\ Head(deferred).cand \notin Deferred'
<1>0. deferred \in Seq(Entries) /\ deferred' = Tail(deferred)
  BY DEF FailoverTypeOK, Entries, NextDeferred
<1>1. /\ deferred' \in Seq(Entries)
      /\ Head(deferred) \in Entries
      /\ 1 \in DOMAIN deferred /\ Head(deferred) = deferred[1]
      /\ Len(deferred') = Len(deferred) - 1
      /\ \A j \in DOMAIN deferred' : j + 1 \in DOMAIN deferred /\ deferred'[j] = deferred[j + 1]
  BY <1>0
<1>2. \A j \in DOMAIN deferred :
         j # 1 => j - 1 \in DOMAIN deferred' /\ deferred'[j - 1] = deferred[j]
  BY <1>0, <1>1
<1>3. Head(deferred).cand \in Deferred
  BY <1>1 DEF Deferred
<1>4. Deferred' \subseteq Deferred
  BY <1>1 DEF Deferred
<1>5. \A j \in DOMAIN deferred : deferred[j].cand \in Deferred' \cup {Head(deferred).cand}
  BY <1>1, <1>2 DEF Deferred
<1>6. Deferred \subseteq Deferred' \cup {Head(deferred).cand}
  BY <1>5 DEF Deferred
<1>7. ASSUME Distinct PROVE Distinct' /\ Head(deferred).cand \notin Deferred'
  <2>1. Distinct'
    BY <1>1, <1>7 DEF Distinct
  <2>2. \A j \in DOMAIN deferred' : deferred'[j].cand # deferred[1].cand
    BY <1>1, <1>7 DEF Distinct
  <2> QED BY <1>1, <2>1, <2>2 DEF Deferred
<1> QED BY <1>1, <1>3, <1>4, <1>6, <1>7

------------------------------------------------------------------------------
(* The actions of the loop *)

LEMMA FailoverInitially ==
  ASSUME LeafInit, FailoverInit
  PROVE  FailoverInv
<1>1. LeafInv
  BY LeafInitially
<1>2. deferred = <<>> /\ todo = {} /\ phase = "entry" /\ Deferred = {}
  BY DEF FailoverInit, LeafInit, Deferred
<1> QED
  BY <1>1, <1>2
  DEF FailoverInv, FailoverTypeOK, ListsInv, FailoverAccount, NobodyForgotten, OnceInv,
      Distinct, LeafInv

\* A schedule that ends with an abort, or without anything to try, ends well.
LEMMA FailoverStartKeeps ==
  ASSUME FailoverInv, FailoverStart, UNCHANGED requestInput
  PROVE  FailoverInv'
<1> USE DEF FailoverInv, FailoverStart, requestInput
<1>0. /\ phase = "entry" /\ LeafInv /\ Steady
      /\ UNCHANGED <<cur, round, last, fallback, open, permits, deferred>>
  BY DEF Steady
<1>1. \A r \in open : r.kind \notin {"success", "soft"}
  BY <1>0 DEF LeafInv, LeafTypeOK, StreamsInv, MemoryInv, NoFallback, Results, Nothing
<1>2. CASE client = "gone" /\ Finish(Said("abort")) /\ UNCHANGED <<todo, passed>>
  <2>1. LeafInv'
    BY <1>0, <1>1, <1>2, FinishesWell DEF LeafInv, LeafTypeOK
  <2> QED
    BY <1>0, <1>2, <2>1
    DEF LeafInv, Finish, Said, FailoverTypeOK, ListsInv, FailoverAccount, NobodyForgotten,
        OnceInv, Distinct,
        Deferred, Leaves
<1>3. CASE client = "live" /\ Finish(Said("unavailable")) /\ UNCHANGED <<todo, passed>>
  <2>1. LeafInv'
    BY <1>0, <1>1, <1>3, FinishesWell DEF Said, LeafInv, LeafTypeOK
  <2> QED
    BY <1>0, <1>3, <2>1
    DEF LeafInv, Finish, Said, FailoverTypeOK, ListsInv, FailoverAccount, NobodyForgotten,
        OnceInv, Distinct,
        Deferred, Leaves
<1>4. CASE /\ phase' = "loop"
           /\ todo' = {i \in DOMAIN Order : Order[i] \in IF Mixed THEN children ELSE ready}
           /\ passed' = IF Mixed THEN {} ELSE children \ ready
           /\ UNCHANGED answer
  <2>0. children \subseteq Cands /\ ready \subseteq children
    BY DEF LeafInv, LeafTypeOK, Leaves
  <2>1. LeafInv'
    BY <1>0, <1>4, <2>0, LoopStays
  <2>2. \A ch \in Cands : \E i \in DOMAIN Order : Order[i] = ch
    BY LeafAssumption DEF LeafAssumption
  <2>3. FailoverTypeOK' /\ ListsInv'
    BY <1>0, <1>4, <2>0, <2>1 DEF LeafInv, FailoverTypeOK, ListsInv, Deferred, Leaves
  <2>4. FailoverAccount'
    BY <1>4, <2>0, <2>2 DEF FailoverAccount
  <2>5. deferred = <<>> /\ tried = {} /\ UNCHANGED tried
    BY <1>0 DEF LeafInv, MemoryInv, ListsInv, Steady
  <2>6. OnceInv'
    BY <1>0, <1>4, <2>5 DEF OnceInv, Distinct, Deferred
  <2> QED BY <1>4, <2>1, <2>3, <2>4, <2>6 DEF NobodyForgotten
<1> QED BY <1>2, <1>3, <1>4

\* An abort answers for children that had no turn.
LEMMA AbortKeeps ==
  ASSUME FailoverInv, StopScheduling, phase \in {"loop", "permit"}, client = "gone",
         UNCHANGED <<cur, round, last, permits, passed, todo>>, Steady,
         deferred' \in Seq(Entries), Deferred' \subseteq Deferred, Distinct'
  PROVE  FailoverInv'
<1>1. LeafInv'
  BY StopsWell DEF FailoverInv, LeafInv, LeafTypeOK
<1>2. phase' = "done" /\ answer' = Said("abort")
  BY DEF StopScheduling, Finish
<1> QED
  BY <1>1, <1>2
  DEF FailoverInv, LeafInv, FailoverTypeOK, ListsInv, FailoverAccount, NobodyForgotten,
      OnceInv, Leaves, Steady,
      requestInput, Entries, Said

LEMMA FailoverAbortsKeeps ==
  ASSUME FailoverInv, FailoverAborts, UNCHANGED requestInput
  PROVE  FailoverInv'
<1>1. deferred' \in Seq(Entries) /\ Deferred' = Deferred /\ Distinct'
  BY DEF FailoverInv, FailoverTypeOK, OnceInv, FailoverAborts, Entries, Deferred, Distinct
<1> QED BY <1>1, AbortKeeps DEF FailoverAborts, Steady, requestInput

\* The first pass accounts for the child it takes from its list.
LEMMA FirstPassKeeps ==
  ASSUME FailoverInv, FirstPass, UNCHANGED requestInput
  PROVE  FailoverInv'
<1> USE DEF FailoverInv
<1>0. /\ phase = "loop" /\ LeafInv /\ Steady
      /\ UNCHANGED <<fallback, open, answer>>
  BY DEF FirstPass, Steady
<1>1. PICK i \in todo :
        /\ todo' = todo \ {i}
        /\ LET child == Order[i] IN
             \/ child \notin Groups \cup ready /\ Skip(child) /\ UNCHANGED deferred
             \/ child \in ready /\ ~ healthy[KeyOf[child]] /\ Defer(child, FALSE)
             \/ child \in ready /\ healthy[KeyOf[child]] /\ Defer(child, TRUE)
             \/ /\ child \in Groups \/ (child \in ready /\ healthy[KeyOf[child]])
                /\ Begin(child)
                /\ UNCHANGED <<passed, deferred>>
  BY DEF FirstPass
<1> DEFINE child == Order[i]
<1>2. child \in children /\ child \in Cands /\ children \subseteq Cands /\ ready \subseteq Leaves
  BY DEF ListsInv, LeafInv, LeafTypeOK
<1>3. todo' \subseteq DOMAIN Order /\ \A k \in todo' : Order[k] \in children
  BY <1>1 DEF FailoverTypeOK, ListsInv
<1>4. \A ch \in children : \/ ch \in tried \cup passed \cup Deferred \cup {child}
                          \/ \E k \in todo' : Order[k] = ch
  BY <1>0, <1>1 DEF FailoverAccount
<1>5. UNCHANGED <<children, tried>>
  BY <1>0 DEF Steady, requestInput
<1>9. child \notin tried \cup Deferred /\ \A k \in todo' : k \in todo /\ Order[k] # child
  BY <1>1, LeafAssumption DEF LeafAssumption, OnceInv, FailoverTypeOK
<1>6. CASE Skip(child) /\ UNCHANGED deferred
  <2>1. LeafInv'
    BY <1>0, <1>2, <1>6, LoopStays DEF Skip, LeafInv, LeafTypeOK
  <2> QED
    BY <1>0, <1>3, <1>4, <1>5, <1>6, <1>9, <2>1
    DEF LeafInv, FailoverTypeOK, ListsInv, FailoverAccount, NobodyForgotten, OnceInv,
        Distinct, Skip, Deferred,
        Leaves
<1>7. ASSUME NEW w \in BOOLEAN, Defer(child, w), child \in Leaves
      PROVE  FailoverInv'
  <2>1. LeafInv'
    BY <1>0, <1>7, LoopStays DEF Defer, LeafInv, LeafTypeOK
  <2>2. deferred' \in Seq(Entries) /\ Deferred' = Deferred \cup {child} /\ Distinct'
    BY <1>2, <1>7, <1>9, DeferAdds DEF Defer, OnceInv
  <2>3. phase' = "loop" /\ UNCHANGED passed
    BY <1>0, <1>7 DEF Defer
  <2> QED
    BY <1>3, <1>4, <1>5, <1>7, <1>9, <2>1, <2>2, <2>3
    DEF LeafInv, FailoverTypeOK, ListsInv, FailoverAccount, NobodyForgotten, OnceInv,
        Leaves, Entries
<1>8. CASE Begin(child) /\ UNCHANGED <<passed, deferred>>
  <2>1. LeafInv'
    BY <1>0, <1>2, <1>8, BeginsWell
  <2>2. phase' \in {"node", "send"} /\ cur' = child
    BY <1>8 DEF Begin
  <2> QED
    BY <1>3, <1>4, <1>5, <1>8, <1>9, <2>1, <2>2
    DEF LeafInv, FailoverTypeOK, ListsInv, FailoverAccount, NobodyForgotten, OnceInv,
        Distinct, Deferred, Leaves
<1> QED BY <1>1, <1>2, <1>6, <1>7, <1>8

\* A leaf that leaves the second list is passed over or begun.
LEMMA DeferredLeaves ==
  ASSUME FailoverInv, phase \in {"loop", "permit"}, deferred # <<>>, NextDeferred,
         Steady, UNCHANGED <<fallback, open, answer, todo>>,
         \/ Begin(Head(deferred).cand) /\ UNCHANGED passed
         \/ Skip(Head(deferred).cand)
  PROVE  FailoverInv'
<1> USE DEF FailoverInv
<1> DEFINE child == Head(deferred).cand
<1>1. /\ deferred' \in Seq(Entries) /\ child \in Deferred
      /\ Deferred' \subseteq Deferred /\ Deferred \subseteq Deferred' \cup {child}
      /\ Distinct' /\ child \notin Deferred'
  BY NextDeferredDrops DEF OnceInv
<1>2. child \in children /\ child \in Cands
  BY <1>1 DEF ListsInv, Leaves, LeafInv, LeafTypeOK
<1>3. UNCHANGED <<children, tried>>
  BY DEF Steady, requestInput
<1>4. CASE Begin(child) /\ UNCHANGED passed
  <2>1. LeafInv'
    BY <1>2, <1>4, BeginsWell
  <2>2. phase' \in {"node", "send"} /\ cur' = child
    BY <1>4 DEF Begin
  <2> QED
    BY <1>1, <1>3, <1>4, <2>1, <2>2
    DEF LeafInv, FailoverTypeOK, ListsInv, FailoverAccount, NobodyForgotten, OnceInv,
        Leaves, Entries
<1>5. CASE Skip(child)
  <2>1. LeafInv'
    BY <1>2, <1>5, LoopStays DEF Skip, LeafInv, LeafTypeOK
  <2> QED
    BY <1>1, <1>3, <1>5, <2>1
    DEF LeafInv, FailoverTypeOK, ListsInv, FailoverAccount, NobodyForgotten, OnceInv,
        Leaves, Entries, Skip
<1> QED BY <1>4, <1>5

LEMMA SecondPassKeeps ==
  ASSUME FailoverInv, SecondPass, UNCHANGED requestInput
  PROVE  FailoverInv'
<1>0. /\ phase = "loop" /\ deferred # <<>> /\ Steady
      /\ UNCHANGED <<fallback, open, answer, todo>>
  BY DEF SecondPass, Steady
<1>1. CASE /\ NextDeferred
           /\ \/ Begin(Head(deferred).cand) /\ UNCHANGED passed
              \/ Skip(Head(deferred).cand)
  BY <1>0, <1>1, DeferredLeaves
<1>2. CASE phase' = "permit" /\ UNCHANGED <<cur, round, last, permits, passed, deferred>>
  <2>1. LeafInv'
    BY <1>0, <1>2, LoopStays DEF FailoverInv, LeafInv, LeafTypeOK
  <2> QED
    BY <1>0, <1>2, <2>1
    DEF FailoverInv, LeafInv, FailoverTypeOK, ListsInv, FailoverAccount, NobodyForgotten,
        OnceInv, Distinct, Leaves,
      Deferred, Steady,
        requestInput
<1> QED BY <1>1, <1>2 DEF SecondPass

LEMMA WaitReturnsKeeps ==
  ASSUME FailoverInv, WaitReturns, UNCHANGED requestInput
  PROVE  FailoverInv'
<1>0. /\ phase = "permit" /\ deferred # <<>> /\ NextDeferred /\ Steady /\ UNCHANGED todo
  BY DEF WaitReturns, Steady, FailoverInv, ListsInv
<1>1. CASE /\ UNCHANGED <<fallback, open, answer>>
           /\ \/ Begin(Head(deferred).cand) /\ UNCHANGED passed
              \/ Skip(Head(deferred).cand)
  BY <1>0, <1>1, DeferredLeaves
<1>2. CASE client = "gone" /\ StopScheduling /\ UNCHANGED <<cur, round, last, permits, passed>>
  BY <1>0, <1>2, NextDeferredDrops, AbortKeeps DEF FailoverInv, OnceInv
<1> QED BY <1>1, <1>2 DEF WaitReturns

\* An outcome is recorded when its child has had its turn.
LEMMA FailoverOutcomeKeeps ==
  ASSUME FailoverInv, FailoverOutcome, UNCHANGED requestInput
  PROVE  FailoverInv'
<1>1. LeafInv'
  BY RecordsWell DEF FailoverInv, LeafInv, LeafTypeOK, FailoverOutcome, Steady
<1>2. \/ phase' = "loop"
      \/ phase' = "done" /\ (answer'.kind = "success" \/ answer' = Said("abort"))
  BY DEF FailoverOutcome, RecordOutcome, Finish, StopScheduling
<1> QED
  BY <1>1, <1>2
  DEF FailoverInv, LeafInv, FailoverOutcome, FailoverTypeOK, ListsInv, FailoverAccount,
      NobodyForgotten, OnceInv, Distinct, Leaves,
      Deferred,
      requestInput

\* With both lists empty every child is accounted for.
LEMMA FailoverExhaustedKeeps ==
  ASSUME FailoverInv, FailoverExhausted, UNCHANGED requestInput
  PROVE  FailoverInv'
<1>1. LeafInv'
  BY FinalWell DEF FailoverInv, LeafInv, LeafTypeOK, FailoverExhausted, Steady
<1>2. children \subseteq tried \cup passed
  BY DEF FailoverInv, FailoverExhausted, FailoverAccount, Deferred
<1> QED
  BY <1>1, <1>2
  DEF FailoverInv, LeafInv, FailoverExhausted, Final, Finish, FailoverTypeOK, ListsInv,
      FailoverAccount, NobodyForgotten,
      OnceInv, Distinct, Leaves, Deferred, requestInput

\* A step of the turn only moves its child from "has its turn" to tried.
LEMMA FailoverLeafKeeps ==
  ASSUME FailoverInv, LeafStep, UNCHANGED failoverVars
  PROVE  FailoverInv'
<1>1. LeafInv'
  BY LeafStepKeeps DEF FailoverInv
<1>2. /\ phase \in {"node", "send", "waiting", "retry"}
      /\ UNCHANGED <<passed, children, todo, deferred, cur>>
      /\ \/ phase' \in {"node", "send", "waiting", "retry"} /\ UNCHANGED tried
         \/ phase' = "outcome" /\ tried' = tried \cup {cur}
  BY
  DEF LeafStep, LeafRuns, requestInput, failoverVars, EnterNode, Send, ResponseArrives, Retry,
      LeafReturns, TurnEnds
<1> QED
  BY <1>1, <1>2
  DEF FailoverInv, LeafInv, FailoverTypeOK, ListsInv, FailoverAccount, NobodyForgotten,
      OnceInv, Distinct, Leaves,
      Deferred

\* Nothing of it depends on what happens around the request.
LEMMA FailoverRests ==
  ASSUME FailoverInv, LeafInv', UNCHANGED requestVars, UNCHANGED failoverVars
  PROVE  FailoverInv'
BY
DEF FailoverInv, LeafInv, FailoverTypeOK, ListsInv, FailoverAccount, NobodyForgotten,
    OnceInv, Distinct, Leaves,
       Deferred, requestVars, requestInput, failoverVars

LEMMA FailoverKeeps ==
  ASSUME FailoverInv, FailoverLoop, UNCHANGED requestInput
  PROVE  FailoverInv'
BY FailoverStartKeeps, FailoverAbortsKeeps, FirstPassKeeps, SecondPassKeeps,
   WaitReturnsKeeps,
   FailoverOutcomeKeeps, FailoverExhaustedKeeps DEF FailoverLoop

\* To the contract its steps are nothing, a return or a give-up, and who has its turn
\* has the first.
LEMMA FailoverPromises ==
  ASSUME FailoverInv, FailoverLoop, UNCHANGED requestInput
  PROVE  ContractStep
<1>0. LeafInv
  BY DEF FailoverInv
<1>1. CASE FailoverStart
  BY <1>0, <1>1, EntryEnds, LoopIsSilent DEF FailoverStart
<1>2. CASE FailoverAborts
  BY <1>0, <1>2, StopGivesUp DEF FailoverAborts
<1>3. CASE FirstPass
  BY <1>3, LoopIsSilent DEF FirstPass, Skip, Defer, Begin
<1>4. CASE SecondPass
  BY <1>4, LoopIsSilent DEF SecondPass, Skip, Begin
<1>5. CASE WaitReturns
  <2>1. CASE StopScheduling
    BY <1>0, <1>5, <2>1, StopGivesUp DEF WaitReturns
  <2>2. CASE ~ StopScheduling
    BY <1>5, <2>2, LoopIsSilent DEF WaitReturns, Skip, Begin
  <2> QED BY <2>1, <2>2
<1>6. CASE FailoverOutcome
  BY <1>0, <1>6, RecordsFaithfully DEF FailoverOutcome
<1>7. CASE FailoverExhausted
  BY <1>0, <1>7, FinalReturns DEF FailoverExhausted
<1> QED BY <1>1, <1>2, <1>3, <1>4, <1>5, <1>6, <1>7 DEF FailoverLoop

------------------------------------------------------------------------------
(* Load-balance *)

\* While the schedule runs, a child is in the selector, had its turn or was passed
\* over.  Of those in the selector only the one whose outcome is being recorded had
\* its turn, and whoever has its turn is in it.
BalanceAccount ==
  /\ remaining \subseteq children
  /\ phase = "outcome" => cur \in tried
  /\ phase \notin {"outcome", "done"} => remaining \cap tried = {}
  /\ phase = "outcome" => remaining \cap tried \subseteq {cur}
  /\ phase \in {"node", "send", "waiting", "retry"} => cur \in remaining
  /\ phase \notin {"entry", "done"} => children \subseteq tried \cup passed \cup remaining

BalanceInv == LeafInv /\ BalanceAccount /\ NobodyForgotten

------------------------------------------------------------------------------
(* Taking children out *)

\* With a child only leaves of its key go, and only those whose key is unhealthy.
LEMMA RemovedAccounted ==
  ASSUME NEW c, NEW d \in Removed(c), d # c
  PROVE  d \in remaining \ Groups /\ ~ healthy[KeyOf[d]]
BY DEF Removed

\* So who is taken out had its turn, is c, or is passed over.
LEMMA RemoveAccounts ==
  ASSUME NEW c \in children, children \subseteq Cands, remaining \subseteq children,
         passed \subseteq Cands, Remove(c)
  PROVE  /\ remaining' \subseteq remaining \ {c}
         /\ passed \subseteq passed' /\ passed' \subseteq Cands
         /\ remaining \subseteq remaining' \cup passed' \cup {c}
<1>1. Removed(c) \subseteq Cands
  BY RemovedAccounted
<1>2. \A d \in Removed(c) : d = c \/ d \in passed'
  BY RemovedAccounted DEF Remove
<1>3. c \in Removed(c)
  BY DEF Removed
<1> QED BY <1>1, <1>2, <1>3 DEF Remove

------------------------------------------------------------------------------
(* The actions *)

LEMMA BalanceInitially ==
  ASSUME LeafInit, BalanceInit
  PROVE  BalanceInv
<1>1. LeafInv
  BY LeafInitially
<1> QED BY <1>1 DEF BalanceInit, LeafInit, BalanceInv, BalanceAccount, NobodyForgotten

LEMMA BalanceStartKeeps ==
  ASSUME BalanceInv, BalanceStart, UNCHANGED requestInput
  PROVE  BalanceInv'
<1> DEFINE able == (children \cap Groups) \cup {c \in ready : healthy[KeyOf[c]]}
<1>0. /\ phase = "entry" /\ LeafInv /\ Steady
      /\ UNCHANGED <<cur, round, last, fallback, open, permits>>
      /\ children \subseteq Cands /\ passed \subseteq Cands /\ able \subseteq children
  BY DEF BalanceInv, BalanceStart, Steady, LeafInv, LeafTypeOK, Leaves
<1>1. \A r \in open : r.kind \notin {"success", "soft"}
  BY <1>0 DEF LeafInv, LeafTypeOK, StreamsInv, MemoryInv, NoFallback, Results, Nothing
<1>2. ASSUME Finish(Said("abort")), client = "gone", UNCHANGED <<remaining, passed>>
      PROVE  BalanceInv'
  <2>1. LeafInv'
    BY <1>0, <1>1, <1>2, FinishesWell
  <2> QED
    BY <1>0, <1>2, <2>1
    DEF BalanceInv, Finish, Said, BalanceAccount, NobodyForgotten, Steady, requestInput
<1>3. ASSUME Finish(Said("unavailable")), UNCHANGED <<remaining, passed>>
      PROVE  BalanceInv'
  <2>1. LeafInv'
    BY <1>0, <1>1, <1>3, FinishesWell DEF Said
  <2> QED
    BY <1>0, <1>3, <2>1
    DEF BalanceInv, Finish, Said, BalanceAccount, NobodyForgotten, Steady, requestInput
<1>4. ASSUME phase' = "loop", remaining' = able, passed' = children \ able, UNCHANGED answer
      PROVE  BalanceInv'
  <2>1. LeafInv'
    BY <1>0, <1>4, LoopStays
  <2>2. tried = {}
    BY <1>0 DEF LeafInv, MemoryInv
  <2> QED
    BY <1>0, <1>4, <2>1, <2>2
    DEF BalanceInv, BalanceAccount, NobodyForgotten, Steady, requestInput
<1> QED BY <1>2, <1>3, <1>4 DEF BalanceStart

LEMMA BalanceAbortsKeeps ==
  ASSUME BalanceInv, BalanceAborts, UNCHANGED requestInput
  PROVE  BalanceInv'
<1>1. LeafInv'
  BY StopsWell DEF BalanceInv, LeafInv, LeafTypeOK, BalanceAborts, Steady
<1>2. phase' = "done" /\ answer' = Said("abort")
  BY DEF BalanceAborts, StopScheduling, Finish
<1> QED
  BY <1>1, <1>2
  DEF BalanceInv, BalanceAccount, NobodyForgotten, BalanceAborts, requestInput, Said

\* A pick begins a turn, ends one at once, or takes the child out as limited.
LEMMA BalancePickKeeps ==
  ASSUME BalanceInv, BalancePick, UNCHANGED requestInput
  PROVE  BalanceInv'
<1>0. /\ phase = "loop" /\ LeafInv /\ BalanceAccount /\ children \subseteq Cands /\ passed \subseteq Cands
      /\ UNCHANGED <<client, ready, fallback, open, answer, breakerVars, children, stream>>
  BY DEF BalancePick, BalanceInv, LeafInv, LeafTypeOK, requestInput
<1>1. PICK c \in remaining :
        PickGroup(c) \/ PickUnavailable(c) \/ PickLeaf(c) \/ PickLimited(c)
  BY DEF BalancePick
<1>2. c \in children
  BY <1>0 DEF BalanceAccount
<1>3. CASE PickGroup(c)
  <2>1. LeafInv'
    BY <1>0, <1>2, <1>3, BeginsWell DEF PickGroup, Steady, requestInput
  <2>2. phase' \in {"node", "send"} /\ cur' = c
    BY <1>3 DEF PickGroup, Begin
  <2> QED
    BY <1>0, <1>3, <2>1, <2>2 DEF PickGroup, BalanceInv, BalanceAccount, NobodyForgotten
<1>4. CASE PickUnavailable(c)
  <2>1. c \in Leaves
    BY <1>2, <1>4 DEF PickUnavailable, Leaves
  <2>2. LeafInv'
    BY <1>0, <1>4, <2>1, UnavailableWell DEF PickUnavailable, requestInput
  <2> QED
    BY <1>0, <1>4, <2>2 DEF PickUnavailable, BalanceInv, BalanceAccount, NobodyForgotten
<1>5. CASE PickLeaf(c)
  <2>1. c \in Leaves
    BY <1>2, <1>5 DEF PickLeaf, Leaves
  <2>2. LeafInv'
    BY <1>0, <1>5, <2>1, SendsWell DEF PickLeaf, Steady, requestInput
  <2> QED BY <1>0, <1>5, <2>2 DEF PickLeaf, BalanceInv, BalanceAccount, NobodyForgotten
<1>6. CASE PickLimited(c)
  <2>1. Removed(c) \subseteq children /\ \A d \in Removed(c) : d \in passed'
    BY <1>0, <1>2, <1>6, RemovedAccounted DEF PickLimited, BalanceAccount
  <2>2. passed' \subseteq Cands /\ passed \subseteq passed'
    BY <1>0, <1>2, <1>6, <2>1 DEF PickLimited
  <2>3. LeafInv'
    BY <1>0, <1>6, <2>2, LoopStays DEF PickLimited, Steady, requestInput
  <2> QED
    BY <1>0, <1>6, <2>1, <2>2, <2>3
    DEF PickLimited, BalanceInv, BalanceAccount, NobodyForgotten
<1> QED BY <1>1, <1>3, <1>4, <1>5, <1>6

\* A failed child is taken out after its turn.
LEMMA BalanceOutcomeKeeps ==
  ASSUME BalanceInv, BalanceOutcome, UNCHANGED requestInput
  PROVE  BalanceInv'
<1>0. /\ phase = "outcome" /\ LeafInv /\ BalanceAccount /\ Steady
      /\ children \subseteq Cands /\ passed \subseteq Cands /\ cur \in children
      /\ RecordOutcome /\ UNCHANGED <<cur, round, last, permits, tried, children>>
  BY DEF BalanceOutcome, BalanceInv, LeafInv, LeafTypeOK, TurnInv, Steady, requestInput
<1>1. /\ remaining' \subseteq remaining
      /\ passed \subseteq passed' /\ passed' \subseteq Cands
      /\ remaining \subseteq remaining' \cup passed' \cup {cur}
      /\ last.kind = "success" \/ cur \notin remaining'
  <2>1. CASE last.kind = "success"
    BY <1>0, <2>1 DEF BalanceOutcome
  <2>2. CASE last.kind # "success"
    BY <1>0, <2>2, RemoveAccounts DEF BalanceOutcome, BalanceAccount
  <2> QED BY <2>1, <2>2
<1>2. LeafInv'
  BY <1>0, <1>1, RecordsWell
<1>3. \/ phase' = "loop" /\ last.kind # "success"
      \/ phase' = "done" /\ (answer'.kind = "success" \/ answer' = Said("abort"))
  BY <1>0 DEF RecordOutcome, Finish, StopScheduling, Failures, Errors
<1> QED BY <1>0, <1>1, <1>2, <1>3 DEF BalanceInv, BalanceAccount, NobodyForgotten

LEMMA BalanceExhaustedKeeps ==
  ASSUME BalanceInv, BalanceExhausted, UNCHANGED requestInput
  PROVE  BalanceInv'
<1>1. LeafInv'
  BY FinalWell DEF BalanceInv, LeafInv, LeafTypeOK, BalanceExhausted, Steady
<1> QED
  BY <1>1
  DEF BalanceInv, BalanceExhausted, Final, Finish, BalanceAccount, NobodyForgotten,
      requestInput

LEMMA BalanceLeafKeeps ==
  ASSUME BalanceInv, LeafStep, UNCHANGED remaining
  PROVE  BalanceInv'
<1>1. LeafInv'
  BY LeafStepKeeps DEF BalanceInv
<1>2. /\ phase \in {"node", "send", "waiting", "retry"}
      /\ UNCHANGED <<passed, children, remaining, cur>>
      /\ \/ phase' \in {"node", "send", "waiting", "retry"} /\ UNCHANGED tried
         \/ phase' = "outcome" /\ tried' = tried \cup {cur}
  BY
  DEF LeafStep, LeafRuns, requestInput, EnterNode, Send, ResponseArrives, Retry, LeafReturns,
      TurnEnds
<1> QED BY <1>1, <1>2 DEF BalanceInv, BalanceAccount, NobodyForgotten

\* Nothing of it depends on what happens around the request.
LEMMA BalanceRests ==
  ASSUME BalanceInv, LeafInv', UNCHANGED requestVars, UNCHANGED remaining
  PROVE  BalanceInv'
BY DEF BalanceInv, BalanceAccount, NobodyForgotten, requestVars, requestInput

LEMMA BalanceKeeps ==
  ASSUME BalanceInv, BalanceLoop, UNCHANGED requestInput
  PROVE  BalanceInv'
BY BalanceStartKeeps, BalanceAbortsKeeps, BalancePickKeeps, BalanceOutcomeKeeps,
   BalanceExhaustedKeeps
DEF BalanceLoop

\* To the contract a step of the loop is nothing, a return, a give-up, or the turn of a
\* leaf found to be unavailable.
LEMMA BalancePromises ==
  ASSUME BalanceInv, BalanceLoop, UNCHANGED requestInput
  PROVE  ContractStep
<1>0. LeafInv /\ BalanceAccount
  BY DEF BalanceInv
<1>1. CASE BalanceStart
  BY <1>0, <1>1, EntryEnds, LoopIsSilent DEF BalanceStart
<1>2. CASE BalanceAborts
  BY <1>0, <1>2, StopGivesUp DEF BalanceAborts
<1>3. CASE BalancePick
  <2>1. PICK c \in remaining :
          PickGroup(c) \/ PickUnavailable(c) \/ PickLeaf(c) \/ PickLimited(c)
    BY <1>3 DEF BalancePick
  <2>2. CASE PickUnavailable(c)
    <3>1. c \in Cands \ tried
      BY <1>0, <1>3, <2>1 DEF BalancePick, BalanceAccount, LeafInv, LeafTypeOK
    <3>2. last' \in Outcomes /\ last'.of = c
      BY <2>2, <3>1 DEF PickUnavailable, Outcomes, Kinds, Errors
    <3> QED BY <1>0, <1>3, <2>2, <3>1, <3>2, TurnIsTry DEF BalancePick, PickUnavailable
  <2>3. CASE PickGroup(c) \/ PickLeaf(c) \/ PickLimited(c)
    BY <1>3, <2>3, LoopIsSilent DEF BalancePick, PickGroup, PickLeaf, PickLimited, Begin
  <2> QED BY <2>1, <2>2, <2>3
<1>4. CASE BalanceOutcome
  BY <1>0, <1>4, RecordsFaithfully DEF BalanceOutcome
<1>5. CASE BalanceExhausted
  BY <1>0, <1>5, FinalReturns DEF BalanceExhausted
<1> QED BY <1>1, <1>2, <1>3, <1>4, <1>5 DEF BalanceLoop

------------------------------------------------------------------------------
(* Adaptive *)

\* The leaves of the slice are the group's, each once.
SliceInv ==
  /\ \A p \in places : ordered[p] \in children
  /\ \A p, q \in places : ordered[p] = ordered[q] => p = q

\* The place of cur in the slice is at the index; who comes behind it had no turn.
AtIndex(p) ==
  /\ Rank(p) = index /\ ordered[p] = cur
  /\ phase # "outcome" => cur \notin tried
  /\ \A q \in places : q > p => ordered[q] \notin tried

\* Nobody from the index on had a turn, though the slice shrinks on both sides of it.
\* Nothing was recorded before the index moved on.
WalkInv ==
  /\ phase \notin {"permit", "node"}
  /\ phase \in {"entry", "loop"} => \A p \in places : Rank(p) >= index => ordered[p] \notin tried
  /\ phase \in {"send", "waiting", "retry", "outcome"} => \E p \in places : AtIndex(p)
  /\ index = 1 /\ phase # "done" => fallback = NoFallback

\* The group is one of those asked for, of leaves only.
ChosenInv == children \in Families /\ ~ Mixed

AdaptiveInv == LeafInv /\ ChosenInv /\ AdaptiveTypeOK /\ SliceInv /\ WalkInv

------------------------------------------------------------------------------
(* Adaptive: the slice *)

\* Fewer numbers up to a smaller bound are fewer.
LEMMA Ranks ==
  ASSUME NEW n \in Nat, NEW S \in SUBSET (1 .. n), NEW T \in SUBSET S,
         NEW p \in 1 .. n, NEW q \in 1 .. n, q <= p
  PROVE  /\ Cardinality({x \in S : x <= p}) \in Nat
         /\ Cardinality({x \in T : x <= q}) \in Nat
         /\ Cardinality({x \in T : x <= q}) <= Cardinality({x \in S : x <= p})
<1> DEFINE A == {x \in S : x <= p}
           B == {x \in T : x <= q}
<1>1. IsFiniteSet(1 .. n)
  BY FS_Interval
<1>2. A \subseteq 1 .. n
  OBVIOUS
<1>5. ASSUME NEW x \in B PROVE x \in A
  <2>1. x \in S /\ x \in 1 .. n /\ x <= q
    OBVIOUS
  <2> QED BY <2>1
<1>3. IsFiniteSet(A)
  BY <1>1, <1>2, FS_Subset
<1>4. IsFiniteSet(B) /\ Cardinality(B) <= Cardinality(A)
  BY <1>3, <1>5, FS_Subset
<1> QED BY <1>3, <1>4, FS_CardinalityType

\* Behind the leaf at the index nobody has a place before it, whoever is taken out.
LEMMA BehindIndex ==
  ASSUME AdaptiveTypeOK, NEW T \in SUBSET places, NEW p \in places, NEW q \in T,
         Rank(p) = index, Cardinality({x \in T : x <= q}) >= index + 1
  PROVE  q > p
<1>1. PICK n \in Nat : DOMAIN ordered = 1 .. n
  BY DEF AdaptiveTypeOK
<1>2. places \subseteq 1 .. n /\ p \in 1 .. n /\ q \in 1 .. n /\ index \in Nat
  BY <1>1 DEF AdaptiveTypeOK
<1>3. ASSUME q <= p PROVE FALSE
  <2>1. /\ Cardinality({x \in places : x <= p}) \in Nat
        /\ Cardinality({x \in T : x <= q}) \in Nat
        /\ Cardinality({x \in T : x <= q}) <= Cardinality({x \in places : x <= p})
    BY <1>2, <1>3, Ranks
  <2>2. Cardinality({x \in places : x <= p}) = index
    BY DEF Rank
  <2> QED BY <2>1, <2>2
<1> QED BY <1>2, <1>3

\* Who is behind the leaf at the index has a rank that is at least its own.
LEMMA RankBehind ==
  ASSUME AdaptiveTypeOK, NEW p \in places, NEW q \in places, q > p
  PROVE  Rank(q) >= Rank(p)
<1>1. PICK n \in Nat : DOMAIN ordered = 1 .. n
  BY DEF AdaptiveTypeOK
<1>2. places \subseteq 1 .. n /\ p \in 1 .. n /\ q \in 1 .. n
  BY <1>1 DEF AdaptiveTypeOK
<1>3. p <= q
  BY <1>2
<1>4. /\ Cardinality({x \in places : x <= p}) \in Nat
      /\ Cardinality({x \in places : x <= q}) \in Nat
      /\ Cardinality({x \in places : x <= p}) <= Cardinality({x \in places : x <= q})
  <2>1. n \in Nat /\ places \in SUBSET (1 .. n) /\ places \in SUBSET places
    BY <1>1, <1>2
  <2>2. \A S \in SUBSET (1 .. n) : \A T \in SUBSET S : \A a, b \in 1 .. n :
          b <= a => /\ Cardinality({x \in S : x <= a}) \in Nat
                    /\ Cardinality({x \in T : x <= b}) \in Nat
                    /\ Cardinality({x \in T : x <= b}) <= Cardinality({x \in S : x <= a})
    BY <2>1, Ranks
  <2>3. \A a, b \in 1 .. n :
          b <= a => /\ Cardinality({x \in places : x <= a}) \in Nat
                    /\ Cardinality({x \in places : x <= b}) \in Nat
                    /\ Cardinality({x \in places : x <= b}) <= Cardinality({x \in places : x <= a})
    BY <2>1, <2>2
  <2> QED BY <1>2, <1>3, <2>3
<1> QED BY <1>4 DEF Rank

\* The first step beyond p takes the siblings out; nobody from the new index on had a
\* turn if nobody behind p had.
LEMMA ShrinkWalks ==
  ASSUME AdaptiveTypeOK, SliceInv, NEW p \in places, Rank(p) = index, NEW c, ShrinkAfter(c),
         \A q \in places : q > p => ordered[q] \notin tried,
         UNCHANGED <<tried, children>>
  PROVE  /\ AdaptiveTypeOK' /\ SliceInv'
         /\ \A q \in places' : Rank(q)' >= index' => ordered'[q] \notin tried'
         /\ index' > 1
<1>1. places' \subseteq places /\ index' = index + 1 /\ ordered' = ordered
  BY DEF ShrinkAfter
<1>2. AdaptiveTypeOK' /\ index' > 1
  BY <1>1 DEF AdaptiveTypeOK
<1>3. SliceInv'
  BY <1>1 DEF SliceInv
<1>4. ASSUME NEW q \in places', Rank(q)' >= index'
      PROVE  ordered'[q] \notin tried'
  <2>1. Cardinality({x \in places' : x <= q}) >= index + 1
    BY <1>1, <1>4 DEF Rank
  <2>2. q > p
    BY <1>1, <2>1, BehindIndex
  <2> QED BY <1>1, <2>2
<1> QED BY <1>2, <1>3, <1>4

------------------------------------------------------------------------------
(* Adaptive: the actions *)

LEMMA AdaptiveInitially ==
  ASSUME LeafInit, AdaptiveInit, ~ Mixed
  PROVE  AdaptiveInv
<1>1. LeafInv
  BY LeafInitially
<1> QED
  BY <1>1
  DEF AdaptiveInit, LeafInit, RequestInit, AdaptiveInv, ChosenInv, AdaptiveTypeOK, SliceInv,
      WalkInv

LEMMA AdaptiveStartKeeps ==
  ASSUME AdaptiveInv, AdaptiveStart, UNCHANGED requestInput
  PROVE  AdaptiveInv'
<1> DEFINE able == {c \in ready : healthy[KeyOf[c]]}
<1>0. /\ phase = "entry" /\ LeafInv /\ Steady /\ ChosenInv /\ ChosenInv'
      /\ UNCHANGED <<cur, round, last, fallback, open, permits, index>>
      /\ children \subseteq Cands /\ passed \subseteq Cands /\ able \subseteq children
  BY DEF AdaptiveInv, AdaptiveStart, Steady, LeafInv, LeafTypeOK, Leaves, ChosenInv, Mixed,
         requestInput
<1>1. \A r \in open : r.kind \notin {"success", "soft"}
  BY <1>0 DEF LeafInv, LeafTypeOK, StreamsInv, MemoryInv, NoFallback, Results, Nothing
<1>2. ASSUME Finish(Said("abort")), client = "gone", UNCHANGED <<ordered, places, passed>>
      PROVE  AdaptiveInv'
  <2>1. LeafInv'
    BY <1>0, <1>1, <1>2, FinishesWell
  <2> QED
    BY <1>0, <1>2, <2>1
    DEF AdaptiveInv, AdaptiveTypeOK, SliceInv, WalkInv, Finish, Steady, requestInput
<1>3. ASSUME Finish(Said("unavailable")), UNCHANGED <<ordered, places, passed>>
      PROVE  AdaptiveInv'
  <2>1. LeafInv'
    BY <1>0, <1>1, <1>3, FinishesWell DEF Said
  <2> QED
    BY <1>0, <1>3, <2>1
    DEF AdaptiveInv, AdaptiveTypeOK, SliceInv, WalkInv, Finish, Steady, requestInput
<1>4. ASSUME phase' = "loop", ordered' \in Bijection(1 .. Cardinality(able), able),
             places' = 1 .. Cardinality(able), passed' = children \ able, UNCHANGED answer
      PROVE  AdaptiveInv'
  <2>1. LeafInv'
    BY <1>0, <1>4, LoopStays
  <2>2. IsFiniteSet(able)
    <3>1. IsFiniteSet(children)
      BY <1>0, OutcomeAssumption DEF OutcomeAssumption, ChosenInv
    <3> QED BY <1>0, <3>1, FS_Subset
  <2> DEFINE n == Cardinality(able)
  <2>3. n \in Nat
    BY <2>2, FS_CardinalityType
  <2>4. /\ ordered' \in [1 .. n -> able]
        /\ \A p, q \in 1 .. n : ordered'[p] = ordered'[q] => p = q
    BY <1>4 DEF Bijection, Injection, IsInjective
  <2> HIDE DEF n
  <2>5. AdaptiveTypeOK'
    <3>1. able \subseteq Cands /\ index' \in Nat \ {0}
      BY <1>0 DEF AdaptiveTypeOK, AdaptiveInv
    <3>2. places' = 1 .. n
      BY <1>4 DEF n
    <3> HIDE DEF able
    <3>3. ordered' \in [1 .. n -> Cands] /\ DOMAIN ordered' = 1 .. n
      BY <2>4, <3>1
    <3> QED BY <2>3, <3>1, <3>2, <3>3 DEF AdaptiveTypeOK
  <2>6. SliceInv'
    <3>1. places' = 1 .. n
      BY <1>4 DEF n
    <3>3. able \subseteq children'
      <4>1. children' = children
        BY DEF requestInput
      <4> QED BY <1>0, <4>1
    <3> HIDE DEF able
    <3>2. \A p \in places' : ordered'[p] \in children'
      BY <2>4, <3>1, <3>3
    <3> QED BY <2>4, <3>1, <3>2 DEF SliceInv
  <2>7. tried' = {}
    BY <1>0 DEF LeafInv, MemoryInv, Steady
  <2>8. WalkInv'
    BY <1>0, <1>4, <2>7 DEF WalkInv, AdaptiveInv, LeafInv, MemoryInv
  <2> QED BY <1>0, <1>4, <2>1, <2>5, <2>6, <2>8 DEF AdaptiveInv
<1> QED BY <1>2, <1>3, <1>4 DEF AdaptiveStart

LEMMA AdaptiveAbortsKeeps ==
  ASSUME AdaptiveInv, AdaptiveAborts, UNCHANGED requestInput
  PROVE  AdaptiveInv'
<1>1. LeafInv'
  BY StopsWell DEF AdaptiveInv, LeafInv, LeafTypeOK, AdaptiveAborts, Steady
<1>2. phase' = "done"
  BY DEF AdaptiveAborts, StopScheduling, Finish
<1> QED
  BY <1>1, <1>2
  DEF AdaptiveInv, ChosenInv, Mixed, AdaptiveTypeOK, SliceInv, WalkInv, AdaptiveAborts,
      adaptiveVars,
      requestInput

\* The leaf at the index begins its turn, or is passed over, or its refusal is the
\* answer.
LEMMA AdaptivePickKeeps ==
  ASSUME AdaptiveInv, AdaptivePick, UNCHANGED requestInput
  PROVE  AdaptiveInv'
<1>0. /\ phase = "loop" /\ LeafInv /\ AdaptiveTypeOK /\ SliceInv /\ WalkInv /\ Steady
      /\ ChosenInv /\ ChosenInv' /\ children \subseteq Cands /\ passed \subseteq Cands
      /\ UNCHANGED <<fallback, open, tried, children>>
  BY
  DEF AdaptivePick, AdaptiveInv, ChosenInv, Mixed, LeafInv, LeafTypeOK, Steady,
      requestInput
<1>1. PICK p \in places : Rank(p) = index /\ (PickGranted(ordered[p]) \/ PickRefused(ordered[p]))
  BY DEF AdaptivePick
<1> DEFINE leaf == ordered[p]
<1>2. leaf \in children /\ leaf \notin Groups /\ leaf \notin tried
  <2>1. Rank(p) >= index
    BY <1>0, <1>1 DEF AdaptiveTypeOK
  <2> QED BY <1>0, <2>1 DEF SliceInv, WalkInv, ChosenInv, Mixed
<1>3. \A q \in places : q > p => ordered[q] \notin tried
  BY <1>0, <1>1, RankBehind DEF WalkInv
<1>4. CASE PickGranted(leaf)
  <2>1. LeafInv'
    BY <1>0, <1>2, <1>4, BeginsWell DEF PickGranted
  <2>2. phase' = "send" /\ cur' = leaf /\ UNCHANGED adaptiveVars
    BY <1>0, <1>4 DEF PickGranted, Begin, ChosenInv
  <2>3. AtIndex(p)'
    BY <1>0, <1>1, <1>2, <1>3, <2>2 DEF AtIndex, Rank, adaptiveVars
  <2>4. WalkInv'
    BY <1>0, <2>2, <2>3 DEF WalkInv, adaptiveVars
  <2> QED
    BY <1>0, <2>1, <2>2, <2>4 DEF AdaptiveInv, AdaptiveTypeOK, SliceInv, adaptiveVars
<1>5. Siblings(leaf) \subseteq Cands
  BY <1>0 DEF Siblings, SliceInv
<1>6. CASE ShrinkAfter(leaf) /\ passed' = passed \cup {leaf} \cup Siblings(leaf)
           /\ UNCHANGED <<phase, cur, round, last, permits, answer>>
  <2>1. LeafInv'
    BY <1>0, <1>2, <1>5, <1>6, LoopStays
  <2>2. /\ AdaptiveTypeOK' /\ SliceInv' /\ index' > 1
        /\ \A q \in places' : Rank(q)' >= index' => ordered'[q] \notin tried'
    BY <1>0, <1>1, <1>3, <1>6, ShrinkWalks
  <2>3. WalkInv'
    BY <1>0, <1>6, <2>2 DEF WalkInv
  <2> QED BY <1>0, <2>1, <2>2, <2>3 DEF AdaptiveInv
<1>7. CASE Single /\ Finish(Said("rateLimited")) /\ passed' = passed \cup {leaf}
           /\ UNCHANGED <<cur, round, last, permits, adaptiveVars>>
  <2>1. \A r \in open : r.kind \notin {"success", "soft"}
    BY <1>0, <1>7
    DEF Single, WalkInv, LeafInv, LeafTypeOK, StreamsInv, NoFallback, Results, Nothing
  <2>2. LeafInv'
    BY <1>0, <1>2, <1>7, <2>1, FinishesWell DEF Said
  <2> QED
    BY <1>0, <1>7, <2>2
    DEF AdaptiveInv, AdaptiveTypeOK, SliceInv, WalkInv, Finish, adaptiveVars
<1> QED BY <1>1, <1>4, <1>6, <1>7 DEF PickRefused

\* An outcome is recorded, and the index moves on with the slice.
LEMMA AdaptiveOutcomeKeeps ==
  ASSUME AdaptiveInv, AdaptiveOutcome, UNCHANGED requestInput
  PROVE  AdaptiveInv'
<1>0. /\ phase = "outcome" /\ LeafInv /\ AdaptiveTypeOK /\ SliceInv /\ WalkInv /\ Steady
      /\ ChosenInv /\ ChosenInv' /\ children \subseteq Cands /\ passed \subseteq Cands
      /\ RecordOutcome /\ UNCHANGED <<cur, round, last, permits, tried, children>>
  BY
  DEF AdaptiveOutcome, AdaptiveInv, ChosenInv, Mixed, LeafInv, LeafTypeOK, Steady,
      requestInput
<1>1. passed' \subseteq Cands
  BY <1>0 DEF AdaptiveOutcome, Siblings, SliceInv
<1>2. LeafInv'
  BY <1>0, <1>1, RecordsWell
<1>3. CASE last.kind = "success"
  <2>1. phase' = "done" /\ UNCHANGED adaptiveVars
    BY <1>0, <1>3
    DEF AdaptiveOutcome, RecordOutcome, Finish, StopScheduling, ShouldStopScheduling,
        Failures, Errors
  <2> QED
    BY <1>0, <1>2, <2>1 DEF AdaptiveInv, AdaptiveTypeOK, SliceInv, WalkInv, adaptiveVars
<1>4. CASE last.kind # "success"
  <2>1. ShrinkAfter(cur)
    BY <1>4 DEF AdaptiveOutcome
  <2>2. PICK p \in places : AtIndex(p)
    BY <1>0 DEF WalkInv
  <2>3. /\ AdaptiveTypeOK' /\ SliceInv' /\ index' > 1
        /\ \A q \in places' : Rank(q)' >= index' => ordered'[q] \notin tried'
    BY <1>0, <2>1, <2>2, ShrinkWalks DEF AtIndex
  <2>4. phase' \in {"loop", "done"}
    BY <1>0 DEF RecordOutcome, Finish, StopScheduling
  <2>5. WalkInv'
    BY <2>3, <2>4 DEF WalkInv
  <2> QED BY <1>0, <1>2, <2>3, <2>5 DEF AdaptiveInv
<1> QED BY <1>3, <1>4

\* The outcome of the only leaf is the answer.
LEMMA SingleOutcomeKeeps ==
  ASSUME AdaptiveInv, SingleOutcome, UNCHANGED requestInput
  PROVE  AdaptiveInv'
<1> DEFINE a == IF last.kind = "abort" THEN Said("abort") ELSE Kept(last)
<1>0. /\ phase = "outcome" /\ Single /\ LeafInv /\ Steady /\ Finish(a)
      /\ ChosenInv /\ ChosenInv' /\ passed' \subseteq Cands /\ fallback = NoFallback
      /\ UNCHANGED <<cur, round, last, fallback, open, permits, passed, children, adaptiveVars>>
  BY
  DEF SingleOutcome, Single, AdaptiveInv, ChosenInv, WalkInv, Mixed, LeafInv, LeafTypeOK,
      Steady,
         requestInput
<1>1. last \in Outcomes
  BY <1>0 DEF LeafInv, TurnInv
<1>2. \A r \in open : r.kind \in {"success", "soft"} => r = last
  BY <1>0 DEF LeafInv, LeafTypeOK, StreamsInv, NoFallback, Nothing, Results
<1>3. last.kind \in {"success", "soft"} => a = last
  BY <1>1, KeptTyped DEF Kept, Failures
<1>4. \A r \in open : r.kind \in {"success", "soft"} => r = a
  BY <1>2, <1>3
<1>5. a = Said("abort") => client = "gone" \/ last.kind = "abort"
  BY <1>0, <1>1, KeptTyped, OutcomeAssumption
  DEF OutcomeAssumption, LeafInv, AbortInv, Said, Results
<1>6. LeafInv'
  BY <1>0, <1>4, <1>5, FinishesWell
<1>7. phase' = "done"
  BY <1>0 DEF Finish
<1> QED
  BY <1>0, <1>6, <1>7 DEF AdaptiveInv, AdaptiveTypeOK, SliceInv, WalkInv, adaptiveVars

LEMMA AdaptiveExhaustedKeeps ==
  ASSUME AdaptiveInv, AdaptiveExhausted, UNCHANGED requestInput
  PROVE  AdaptiveInv'
<1>1. LeafInv'
  BY FinalWell DEF AdaptiveInv, LeafInv, LeafTypeOK, AdaptiveExhausted, Steady
<1>2. phase' = "done"
  BY DEF AdaptiveExhausted, Final, Finish
<1> QED
  BY <1>1, <1>2
  DEF AdaptiveInv, ChosenInv, Mixed, AdaptiveTypeOK, SliceInv, WalkInv, AdaptiveExhausted,
      adaptiveVars,
      requestInput

LEMMA AdaptiveKeeps ==
  ASSUME AdaptiveInv, AdaptiveLoop, UNCHANGED requestInput
  PROVE  AdaptiveInv'
BY AdaptiveStartKeeps, AdaptiveAbortsKeeps, AdaptivePickKeeps, AdaptiveOutcomeKeeps,
   SingleOutcomeKeeps, AdaptiveExhaustedKeeps DEF AdaptiveLoop

\* A turn goes on at the index, and ends there.
LEMMA AdaptiveLeafKeeps ==
  ASSUME AdaptiveInv, LeafStep, UNCHANGED adaptiveVars
  PROVE  AdaptiveInv'
<1>1. LeafInv'
  BY LeafStepKeeps DEF AdaptiveInv
<1>2. /\ phase \in {"node", "send", "waiting", "retry"}
      /\ UNCHANGED <<fallback, children, stream, cur, ordered, places, index>>
      /\ \/ phase' \in {"send", "waiting", "retry"} /\ UNCHANGED tried
         \/ phase' = "outcome" /\ tried' = tried \cup {cur}
  BY
  DEF LeafStep, LeafRuns, requestInput, EnterNode, Send, ResponseArrives, Retry, LeafReturns,
      TurnEnds,
         adaptiveVars
<1>3. PICK p \in places : AtIndex(p)
  BY <1>2 DEF AdaptiveInv, WalkInv
<1>4. \A q \in places : q > p => ordered[q] # cur
  BY <1>3 DEF AdaptiveInv, SliceInv, AdaptiveTypeOK, AtIndex
<1>5. AtIndex(p)'
  BY <1>2, <1>3, <1>4 DEF AtIndex, Rank
<1>6. WalkInv'
  BY <1>2, <1>3, <1>5 DEF WalkInv, AdaptiveInv
<1> QED
  BY <1>1, <1>2, <1>6 DEF AdaptiveInv, ChosenInv, Mixed, AdaptiveTypeOK, SliceInv

\* Nothing of it depends on what happens around the request.
LEMMA AdaptiveRests ==
  ASSUME AdaptiveInv, LeafInv', UNCHANGED requestVars, UNCHANGED adaptiveVars
  PROVE  AdaptiveInv'
<1>1. WalkInv'
  BY DEF AdaptiveInv, WalkInv, AtIndex, Rank, requestVars, adaptiveVars
<1> QED
  BY <1>1
  DEF AdaptiveInv, ChosenInv, Mixed, AdaptiveTypeOK, SliceInv, requestVars, requestInput,
      adaptiveVars

\* To the contract a step of the loop is nothing, a return or a give-up; the answer of a
\* single leaf is what its schedule stands on.
LEMMA AdaptivePromises ==
  ASSUME AdaptiveInv, AdaptiveLoop, UNCHANGED requestInput
  PROVE  ContractStep
<1>0. LeafInv /\ WalkInv
  BY DEF AdaptiveInv
<1>1. CASE AdaptiveStart
  BY <1>0, <1>1, EntryEnds, LoopIsSilent DEF AdaptiveStart
<1>2. CASE AdaptiveAborts
  BY <1>0, <1>2, StopGivesUp DEF AdaptiveAborts
<1>3. CASE AdaptivePick
  <2>1. PICK p \in places : PickGranted(ordered[p]) \/ PickRefused(ordered[p])
    BY <1>3 DEF AdaptivePick
  <2>2. CASE Single /\ Finish(Said("rateLimited"))
    <3>1. tried = {} /\ fallback = NoFallback
      BY <1>0, <1>3, <2>2 DEF AdaptivePick, Single, WalkInv, LeafInv, MemoryInv
    <3>2. Class(answer) = Promise!Nothing /\ Class(answer') = Promise!Said("rateLimited")
      BY <1>0, <1>3, <2>2
      DEF AdaptivePick, LeafInv, AbortInv, Finish, Class, Kept, Nothing, Said, Failures,
          Promise!Nothing, Promise!Said
    <3>3. Standing' = Promise!Nothing
      BY <1>3, <2>2, <3>1, NothingInHand DEF AdaptivePick, Finish
    <3>4. Promise!Return
      BY <1>3, <3>1, <3>2, <3>3 DEF AdaptivePick, Promise!Return
    <3> QED BY <3>4 DEF ContractStep, Promise!ContractNext
  <2>3. CASE ~ (Single /\ Finish(Said("rateLimited")))
    BY <1>3, <2>1, <2>3, LoopIsSilent DEF AdaptivePick, PickGranted, PickRefused, Begin
  <2> QED BY <2>2, <2>3
<1>4. CASE AdaptiveOutcome
  BY <1>0, <1>4, RecordsFaithfully DEF AdaptiveOutcome
<1>5. CASE SingleOutcome
  <2>1. /\ phase = "outcome" /\ last \in Outcomes /\ fallback = NoFallback /\ answer = Nothing
        /\ UNCHANGED <<tried, fallback>> /\ phase' = "done"
        /\ answer' = IF last.kind = "abort" THEN Said("abort") ELSE Kept(last)
    BY <1>0, <1>5 DEF SingleOutcome, Single, WalkInv, LeafInv, TurnInv, AbortInv, Finish
  <2>2. Standing = Class(last)
    BY <2>1 DEF Standing, NoFallback
  <2>3. Standing' = Promise!Nothing
    BY <2>1, NothingInHand
  <2>4. Class(answer) = Promise!Nothing
    BY <2>1 DEF Class, Kept, Nothing, Failures, Promise!Nothing
  <2>5. CASE last.kind = "abort"
    <3>1. Class(answer') = Promise!Said("abort")
      BY <2>1, <2>5 DEF Class, Kept, Said, Failures, Promise!Said
    <3>2. Standing.kind # "success"
      BY <2>1, <2>2, <2>5, ClassOfOutcome
    <3>3. Promise!GiveUp
      BY <2>1, <2>3, <2>4, <3>1, <3>2 DEF Promise!GiveUp
    <3> QED BY <3>3 DEF ContractStep, Promise!ContractNext
  <2>6. CASE last.kind # "abort"
    <3>1. Class(answer') = Standing
      BY <2>1, <2>2, <2>6, ClassOfOutcome
    <3>2. Standing.kind \in {"success", "soft", "hard"}
      BY <2>1, <2>2, <2>6, ClassOfOutcome
    <3>3. Promise!Return
      BY <2>1, <2>3, <2>4, <3>1, <3>2 DEF Promise!Return
    <3> QED BY <3>3 DEF ContractStep, Promise!ContractNext
  <2> QED BY <2>5, <2>6
<1>6. CASE AdaptiveExhausted
  BY <1>0, <1>6, FinalReturns DEF AdaptiveExhausted
<1> QED BY <1>1, <1>2, <1>3, <1>4, <1>5, <1>6 DEF AdaptiveLoop

------------------------------------------------------------------------------
(* The theorems *)

\* Each mode keeps its own part, and lets the variables of the others alone.
IInv ==
  /\ mode \in {"failover", "load-balance", "adaptive"}
  /\ mode = "failover" => FailoverInv
  /\ mode = "load-balance" => BalanceInv
  /\ mode = "adaptive" => AdaptiveInv

LEMMA IsLeafInv ==
  ASSUME IInv
  PROVE  LeafInv
BY DEF IInv, FailoverInv, BalanceInv, AdaptiveInv

LEMMA Initially == Init => IInv
BY FailoverInitially, BalanceInitially, AdaptiveInitially DEF Init, IInv

\* Every step keeps the inductive invariant.
LEMMA Inductive == IInv /\ [Next]_vars => IInv'
<1> SUFFICES ASSUME IInv, [Next]_vars PROVE IInv'
  OBVIOUS
<1> USE DEF IInv
<1>1. CASE Loop
  BY <1>1, FailoverKeeps, BalanceKeeps, AdaptiveKeeps DEF Loop
<1>2. CASE LeafStep /\ UNCHANGED loopVars
  BY <1>2, FailoverLeafKeeps, BalanceLeafKeeps, AdaptiveLeafKeeps DEF loopVars
<1>3. ASSUME LeafInv', UNCHANGED requestVars, UNCHANGED loopVars
      PROVE  IInv'
  BY <1>3, FailoverRests, BalanceRests, AdaptiveRests DEF loopVars
<1>4. CASE Environment /\ UNCHANGED loopVars
  BY <1>3, <1>4, IsLeafInv, EnvironmentKeeps
  DEF Environment, ClientGone, OthersReport, ReadinessChanges
<1>5. CASE UNCHANGED vars
  BY <1>3, <1>5, IsLeafInv, LeafStutters DEF vars, leafVars
<1> QED BY <1>1, <1>2, <1>4, <1>5 DEF Next, Schedule

LEMMA Invariant == Spec => []IInv
BY Initially, Inductive, PTL DEF Spec

\* The state of the request and of the three loops keeps its types: a mode does not touch
\* the lists of the others.
THEOREM TypeCorrect == Spec => []TypeOK
<1>1. Init => TypeOK
  <2>1. Init => IInv
    BY Initially
  <2> QED
    BY <2>1, IsLeafInv
    DEF Init, IInv, TypeOK, LeafInv, FailoverInit, FailoverTypeOK, Entries, BalanceInit,
        BalanceTypeOK, AdaptiveInit, AdaptiveTypeOK
<1>2. IInv /\ TypeOK /\ [Next]_vars => TypeOK'
  <2> SUFFICES ASSUME IInv, TypeOK, [Next]_vars PROVE TypeOK'
    OBVIOUS
  <2>1. IInv' /\ LeafTypeOK' /\ mode' \in {"failover", "load-balance", "adaptive"}
    <3>1. IInv'
      BY Inductive
    <3> QED BY <3>1 DEF IInv, FailoverInv, BalanceInv, AdaptiveInv, LeafInv
  <2>2. /\ mode' = mode
        /\ mode = "failover" \/ UNCHANGED failoverVars
        /\ mode = "load-balance" \/ UNCHANGED remaining
        /\ mode = "adaptive" \/ UNCHANGED adaptiveVars
    BY DEF Next, Schedule, Loop, loopVars, vars
  <2>3. FailoverTypeOK'
    <3>1. CASE mode = "failover"
      BY <2>1, <2>2, <3>1 DEF IInv, FailoverInv
    <3>2. CASE UNCHANGED failoverVars
      BY <3>2 DEF TypeOK, FailoverTypeOK, failoverVars
    <3> QED BY <2>2, <3>1, <3>2
  <2>4. BalanceTypeOK'
    <3>1. CASE mode = "load-balance"
      BY <2>1, <2>2, <3>1 DEF IInv, BalanceInv, BalanceAccount, BalanceTypeOK, LeafInv, LeafTypeOK
    <3>2. CASE UNCHANGED remaining
      BY <3>2 DEF TypeOK, BalanceTypeOK
    <3> QED BY <2>2, <3>1, <3>2
  <2>5. AdaptiveTypeOK'
    <3>1. CASE mode = "adaptive"
      BY <2>1, <2>2, <3>1 DEF IInv, AdaptiveInv
    <3>2. CASE UNCHANGED adaptiveVars
      BY <3>2 DEF TypeOK, AdaptiveTypeOK, adaptiveVars
    <3> QED BY <2>2, <3>1, <3>2
  <2> QED BY <2>1, <2>3, <2>4, <2>5 DEF TypeOK
<1> QED BY <1>1, <1>2, Invariant, PTL DEF Spec

\* No request goes upstream without its permit, and none takes two, though every mode
\* takes it in another place.
THEOREM Paid == Spec => []RequestsArePaid
<1>1. IInv => RequestsArePaid
  BY IsLeafInv, LeafPromises
<1> QED BY <1>1, Invariant, PTL

\* No stream worth reading is left open but the answer.
THEOREM StreamsReleased == Spec => []SoftStreamsReleased
<1>1. IInv => SoftStreamsReleased
  BY IsLeafInv, LeafPromises
<1> QED BY <1>1, Invariant, PTL

\* No budget of an attempt, refusal or limiter stops a schedule: only the end of the
\* request's context, or an error that is taken for it, in the last attempt.
THEOREM AbortsAreExplained == Spec => []AbortIsExplained
<1>1. IInv => AbortIsExplained
  BY IsLeafInv, LeafPromises
<1> QED BY <1>1, Invariant, PTL

\* A schedule of failover or load-balance that fails has given every child its turn or a
\* reason: neither deferral, the end of a wait nor the removal of siblings loses one.
THEOREM NobodyIsPassedOver == Spec => []NobodyPassedOver
<1>1. IInv => NobodyPassedOver
  BY DEF IInv, FailoverInv, BalanceInv, NobodyPassedOver
<1> QED BY <1>1, Invariant, PTL

\* An attempt the client aborted is not held against the provider.
THEOREM AbortsUnreported == Spec => AbortIsNobodysFault
<1> DEFINE Silent == (phase \in {"send", "waiting", "retry"} /\ phase' = "outcome"
                        /\ last'.kind = "abort") => UNCHANGED breakerVars
<1>1. IInv /\ [Next]_vars => [Silent]_leafVars
  <2> SUFFICES ASSUME IInv, [Next]_vars,
                      phase \in {"send", "waiting", "retry"}, phase' = "outcome",
                      last'.kind = "abort"
               PROVE  UNCHANGED breakerVars
    OBVIOUS
  <2>1. CASE LeafStep
    BY <2>1, IsLeafInv, AbortsSilently
  <2>2. ~ FailoverLoop
    BY DEF FailoverLoop, FailoverStart, FailoverAborts, FirstPass, SecondPass, WaitReturns,
           FailoverOutcome, FailoverExhausted
  <2>3. ~ BalanceLoop
    BY
    DEF BalanceLoop, BalanceStart, BalanceAborts, BalancePick, BalanceOutcome,
        BalanceExhausted
  <2>4. ~ AdaptiveLoop
    BY
    DEF AdaptiveLoop, AdaptiveStart, AdaptiveAborts, AdaptivePick, AdaptiveOutcome,
        SingleOutcome,
           AdaptiveExhausted
  <2>5. ~ Environment
    BY DEF Environment, ClientGone, OthersReport, ReadinessChanges, requestVars
  <2>6. CASE UNCHANGED vars
    BY <2>6 DEF vars, leafVars
  <2> QED BY <2>1, <2>2, <2>3, <2>4, <2>5, <2>6 DEF Next, Schedule, Loop
<1> QED BY <1>1, Invariant, PTL DEF Spec, AbortIsNobodysFault

\* Every sequential mode does what the callers of the scheduler are promised: in
\* particular, no child has two turns, though failover walks its list twice, load-balance
\* takes siblings out with a child and adaptive shrinks its slice on both sides of the
\* index.
THEOREM Contract == Spec => KeepsContract
<1>1. Init => Promise!ContractInit
  <2> SUFFICES ASSUME Init PROVE Promise!ContractInit
    OBVIOUS
  <2>1. Standing = Nothing /\ Class(answer) = Nothing /\ tried = {}
    BY DEF Init, LeafInit, Standing, NoFallback, Class, Kept, Nothing, Failures
  <2> QED BY <2>1 DEF Promise!ContractInit, Promise!Nothing, Nothing
<1>2. IInv /\ [Next]_vars => ContractStep
  <2> SUFFICES ASSUME IInv, [Next]_vars PROVE ContractStep
    OBVIOUS
  <2>1. CASE Loop
    BY <2>1, FailoverPromises, BalancePromises, AdaptivePromises DEF Loop, IInv
  <2>2. CASE LeafStep
    <3>1. phase \in {"node", "send", "waiting", "retry"}
      BY <2>2 DEF LeafStep, LeafRuns, EnterNode, Send, ResponseArrives, Retry
    <3>2. cur \notin tried
      BY <3>1
      DEF IInv, FailoverInv, OnceInv, BalanceInv, BalanceAccount, AdaptiveInv, WalkInv,
          AtIndex
    <3> QED BY <2>2, <3>2, IsLeafInv, LeafStepTries
  <2>3. CASE UNCHANGED requestVars
    BY <2>3, AroundIsSilent
  <2> QED
    BY <2>1, <2>2, <2>3
    DEF Next, Schedule, Environment, ClientGone, OthersReport, ReadinessChanges, vars,
        leafVars
<1> QED
  BY <1>1, <1>2, Invariant, PTL DEF Spec, KeepsContract, Promise!Contract, ContractStep
==============================================================================
