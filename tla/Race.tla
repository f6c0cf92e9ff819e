-------------------------------- MODULE Race --------------------------------
(***************************************************************************)
(* Concurrent (scheduler/concurrent.go ConcurrentStrategy, execute_node.go *)
(* executeConcurrentNodes): every child for which the limiter has a permit *)
(* runs in a goroutine of its own, under a context of its own; the first   *)
(* success wins and the others are cancelled.  Breakers are ignored but    *)
(* reported to, so what other requests report meanwhile is left out.       *)
(* executeTask is one step here (LeafAttempt has its parts).               *)
(*                                                                         *)
(* Goroutine of a child: off -> running -> returned -> over.               *)
(***************************************************************************)
EXTENDS AttemptOutcome, Sequences

VARIABLES
  client,     \* the request's context: "live" or "gone"
  phase,      \* "entry", "permit" (Wait for the only leaf), "alone", "racing",
              \* "won" (a success was received), "done"
  worker,     \* [Cands -> state of the goroutine]
  attemptCtx, \* children whose own context is not cancelled
  result,     \* [Cands -> what executeTask returned]
  ch,         \* the outcomes in the channel (buffered for all of them)
  lost,       \* markLost was called
  heard,      \* children whose outcome was received
  held,       \* lastHardResult, lastHardErr, lastSoftResult
  open,       \* results whose body nobody closed
  answer

vars == <<requestInput, client, phase, worker, attemptCtx, result, ch, lost, heard,
          held, open, answer, breakerVars>>

NothingHeld == [hard |-> Nothing, err |-> Nothing, soft |-> Nothing]

Init ==
  /\ BreakerInit
  /\ RequestInit
  /\ client = "live"
  /\ phase = "entry"
  /\ worker = [c \in Cands |-> "off"]
  /\ attemptCtx = {}
  /\ result = [c \in Cands |-> Nothing]
  /\ ch = <<>>
  /\ lost = FALSE
  /\ heard = {}
  /\ held = NothingHeld
  /\ open = {}
  /\ answer = Nothing

Racers == {c \in Cands : worker[c] # "off"}

Finish(a) == phase' = "done" /\ answer' = a

\* lost is derived from the request's context.
Lost == lost \/ client = "gone"

Runs(S) ==
  /\ worker' = [c \in Cands |-> IF c \in S THEN "running" ELSE "off"]
  /\ attemptCtx' = S

\* entryAbort; the schedulable children; the limiter's Allow for each of them (a
\* single leaf waits for its permit); one goroutine for each that has one.
Start ==
  /\ phase = "entry"
  /\ \/ client = "gone" /\ Finish(Said("abort")) /\ UNCHANGED <<worker, attemptCtx>>
     \/ /\ client = "live"
        /\ \E able \in SUBSET children :
             /\ children \cap Groups \subseteq able
             /\ \/ able = {} /\ Finish(Said("unavailable"))
                   /\ UNCHANGED <<worker, attemptCtx>>
                \/ /\ Cardinality(able) = 1 /\ ~ Mixed
                   /\ phase' = "permit" /\ Runs(able)
                   /\ UNCHANGED answer
                \/ /\ Cardinality(able) > 1 \/ Mixed
                   /\ \E granted \in SUBSET able :
                        /\ children \cap Groups \subseteq granted
                        /\ \/ /\ granted = {}
                              /\ Finish(Said("rateLimited"))
                              /\ UNCHANGED <<worker, attemptCtx>>
                           \/ /\ granted # {}
                              /\ phase' = IF Cardinality(granted) = 1 THEN "alone" ELSE "racing"
                              /\ Runs(granted)
                              /\ UNCHANGED answer
  /\ UNCHANGED <<client, result, ch, lost, heard, held, open, breakerVars>>

\* The only leaf: Wait grants the permit; or the context ended; or the wait would
\* outlive the deadline, which is reported as a failure of the provider.
WaitReturns ==
  /\ phase = "permit"
  /\ \/ phase' = "alone" /\ UNCHANGED <<worker, answer, breakerVars>>
     \/ /\ client = "gone"
        /\ Finish(Said("abort"))
        /\ worker' = [c \in Cands |-> "off"]
        /\ UNCHANGED breakerVars
     \/ /\ client = "live"
        /\ Finish(Said("rateLimited"))
        /\ worker' = [c \in Cands |-> "off"]
        /\ \E c \in Racers : ReportFailure(KeyOf[c])
  /\ UNCHANGED <<client, attemptCtx, result, ch, lost, heard, held, open>>

\* executeTask (executeNode for a group) returns in the goroutine of c.
Returns(c) ==
  /\ worker[c] = "running"
  /\ phase # "permit"
  /\ \E k \in Arrivals(c) :
       LET r == [kind |-> k, of |-> c] IN
       /\ result' = [result EXCEPT ![c] = r]
       /\ open' = open \/ (MayHold(r) /\ open' = open \cup {r})
       /\ IF c \in Groups THEN UNCHANGED breakerVars ELSE ApplyHealth(r, KeyOf[c])
  /\ worker' = [worker EXCEPT ![c] = "returned"]
  /\ UNCHANGED <<client, phase, attemptCtx, ch, lost, heard, held, answer>>

DeliversUnbuffered(c) ==             \* mutant: the send needs a receiver
  /\ worker[c] = "returned"
  /\ phase = "racing"
  /\ ch' = Append(ch, result[c])
  /\ worker' = [worker EXCEPT ![c] = "over"]
  /\ UNCHANGED <<client, phase, attemptCtx, result, lost, heard, held, open,
                 answer, breakerVars>>

\* The select of the goroutine: the send never blocks; once the race is lost it
\* may as well close the body and drop the outcome.
Delivers(c) ==
  /\ worker[c] = "returned"
  /\ phase # "alone"
  /\ \/ ch' = Append(ch, result[c]) /\ UNCHANGED open
     \/ Lost /\ open' = open \ {result[c]} /\ UNCHANGED ch
  /\ worker' = [worker EXCEPT ![c] = "over"]
  /\ UNCHANGED <<client, phase, attemptCtx, result, lost, heard, held, answer,
                 breakerVars>>

\* With one child there is no race: what it returns is the answer.
AloneReturns ==
  /\ phase = "alone"
  /\ \E c \in Racers :
       /\ worker[c] = "returned"
       /\ worker' = [worker EXCEPT ![c] = "over"]
       /\ heard' = {c}
       /\ Finish(result[c])
  /\ UNCHANGED <<client, attemptCtx, result, ch, lost, held, open, breakerVars>>

HearResult(r) ==                     \* mutant: an error is not counted
  heard' = IF r.kind \in Errors THEN heard ELSE heard \cup {r.of}

\* One outcome less to wait for.
Hear(r) == heard' = heard \cup {r.of}

\* The aggregation loop receives an outcome.
Receive ==
  /\ phase = "racing"
  /\ ch # <<>>
  /\ LET r == Head(ch) IN
       /\ Hear(r)
       /\ \/ /\ r.kind = "success"
             /\ phase' = "won"
             /\ lost' = TRUE
             /\ held' = [NothingHeld EXCEPT !.hard = r]
             /\ open' = open \ {held.hard, held.soft}
          \/ /\ r.kind = "soft"
             /\ held' = [held EXCEPT !.soft = r]
             /\ open' = open \ {held.soft}
             /\ UNCHANGED <<phase, lost>>
          \/ /\ r.kind \in Failures
             /\ held' = [held EXCEPT !.hard = r]
             /\ open' = open \ {held.hard}
             /\ UNCHANGED <<phase, lost>>
          \/ /\ r.kind \in Errors
             /\ held' = [held EXCEPT !.err = r]
             /\ UNCHANGED <<phase, lost, open>>
  /\ ch' = Tail(ch)
  /\ UNCHANGED <<client, worker, attemptCtx, result, answer, breakerVars>>

HeldPrefersSoft ==                   \* mutant: a soft result outranks an error
  IF held.hard # Nothing THEN held.hard
  ELSE IF held.soft # Nothing THEN held.soft
  ELSE held.err

HeldForgetsErrors ==                 \* mutant: errors are not kept
  IF held.hard # Nothing THEN held.hard ELSE held.soft

\* The last hard result, else the last error, else the last soft result.
Held ==
  IF held.hard # Nothing THEN held.hard
  ELSE IF held.err # Nothing THEN held.err
  ELSE held.soft

CancelAll(r) == attemptCtx' = {}     \* mutant: keepIndex is not set

CancelNone(r) == UNCHANGED attemptCtx   \* mutant: the deferred cancel is forgotten

\* keepIndex and the deferred cancelLosers: every attempt's context is cancelled
\* except that of the result r; an error keeps none.
CancelLosers(r) ==
  attemptCtx' = IF r.kind \in Errors THEN {} ELSE attemptCtx \cap {r.of}

\* The race is won, or all were heard and none succeeded.
Conclude ==
  /\ phase = "won" \/ (phase = "racing" /\ heard = Racers)
  /\ Finish(Held)
  /\ CancelLosers(Held)
  /\ open' = open \ ({held.soft} \ {Held})
  /\ lost' = TRUE
  /\ held' = NothingHeld
  /\ UNCHANGED <<client, worker, result, ch, heard, breakerVars>>

\* The request's context ended while outcomes are awaited (finishRaceAbort).
RaceAborts ==
  /\ phase = "racing"
  /\ heard # Racers
  /\ client = "gone"
  /\ Finish(Said("abort"))
  /\ lost' = TRUE
  /\ attemptCtx' = {}
  /\ open' = open \ {held.hard, held.soft}
  /\ held' = NothingHeld
  /\ UNCHANGED <<client, worker, result, ch, heard, breakerVars>>

ClientGone ==
  /\ phase # "done"
  /\ client = "live" /\ client' = "gone"
  /\ UNCHANGED <<requestInput, phase, worker, attemptCtx, result, ch, lost, heard,
                 held, open, answer, breakerVars>>

Goroutine(c) == (Returns(c) \/ Delivers(c)) /\ UNCHANGED requestInput

Schedule ==
  /\ Start \/ WaitReturns \/ AloneReturns \/ Receive \/ Conclude \/ RaceAborts
  /\ UNCHANGED requestInput

Next == Schedule \/ (\E c \in Cands : Goroutine(c)) \/ ClientGone

\* The scheduler's goroutine and each racer's run; that executeTask comes back to a
\* racer is not assumed.
Spec ==
  /\ Init /\ [][Next]_vars
  /\ WF_vars(Schedule)
  /\ \A c \in Cands : WF_vars(Delivers(c) /\ UNCHANGED requestInput)

------------------------------------------------------------------------------
TypeOK ==
  /\ BreakerTypeOK
  /\ client \in {"live", "gone"}
  /\ phase \in {"entry", "permit", "alone", "racing", "won", "done"}
  /\ worker \in [Cands -> {"off", "running", "returned", "over"}]
  /\ attemptCtx \subseteq Cands
  /\ result \in [Cands -> Outcomes \cup {Nothing}]
  /\ ch \in Seq(Outcomes)
  /\ lost \in BOOLEAN
  /\ heard \subseteq Cands
  /\ held \in [hard : Outcomes \cup {Nothing}, err : Outcomes \cup {Nothing},
               soft : Outcomes \cup {Nothing}]
  /\ open \subseteq Outcomes
  /\ answer \in Outcomes \cup {Said(k) : k \in {"abort", "rateLimited", "unavailable", "nothing"}}
  /\ phase = "done" => answer # Nothing

\* While the client reads the answer of a race, nothing that ends the race
\* (cancelLosers, a loser's cleanup, a held result's close) takes its connection
\* away: the winner's context lives as long as the request's
\* (concurrent.go:70-71, "otherwise the SSE body is cut off").
WinnerReadable ==
  phase = "done" /\ client = "live" /\ answer.kind \in {"success", "soft"} \cup Failures =>
    answer.of \in attemptCtx

\* No loser keeps an upstream connection: after the race every other stream is
\* closed, or its request's context is cancelled.
LosersReleased ==
  phase = "done" /\ client = "live" =>
    \A r \in open : r = answer \/ r.of \notin attemptCtx

\* A child that lost, or whose client left, is not blamed for being cancelled.
CancelledNotBlamed ==
  [][\A c \in Cands :
       (worker[c] = "running" /\ worker'[c] = "returned" /\ result'[c].kind = "abort")
         => UNCHANGED breakerVars]_vars

\* However the race ends, a goroutine whose attempt comes back, before that end or
\* long after it, comes to its own, also where another racer hangs.  (That every
\* attempt comes back is not said: at stream_probe.go:150 the probe of a stream can
\* wait for ever, its context cancelled or not, and keeps the racer's goroutine.)
NoGoroutineLeft == <>[](\A c \in Cands : worker[c] # "returned")

\* A racer's context error is one more failure to the aggregation.
Raced(r) == IF r.kind = "abort" /\ r.of # "nobody" THEN [r EXCEPT !.kind = "hard"] ELSE Class(r)

Alone == {c \in Racers : phase = "alone" /\ worker[c] = "returned"}

Standing == Raced(IF Alone # {} THEN result[CHOOSE c \in Alone : TRUE] ELSE Held)

Promise == INSTANCE ScheduleContract
  WITH tried <- heard \cup Alone, best <- Standing, answer <- Raced(answer)

\* Whatever the order in which the racers return, deliver or are dropped, the
\* race keeps the contract of a schedule: the first success received is the
\* answer, a soft result never outranks a hard one, and an abort ends it.
KeepsContract == Promise!Contract

\* The client of a race is answered if every racer comes back; and once one comes back
\* with a success, whether the others do or not.
Answered ==
  /\ []<>(\A c \in Cands : worker[c] # "running") => <>(phase = "done")
  /\ (\E c \in Cands : worker[c] = "returned" /\ result[c].kind = "success") ~> phase = "done"

\* However the race ends, its answer can be read and nothing else of it is held,
\* whoever hears of the losers and whenever the client leaves.
OneStreamLeft == TypeOK /\ WinnerReadable /\ LosersReleased

\* But for that of an attempt that never comes back (stream_probe.go:150), everybody's
\* wait ends: the client's, and that of a racer with an outcome nobody is left to
\* receive.
AllEnd == Answered /\ NoGoroutineLeft
==============================================================================
