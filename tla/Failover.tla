------------------------------ MODULE Failover ------------------------------
(***************************************************************************)
(* Failover (scheduler/failover.go FailoverStrategy, execute_node.go       *)
(* executeFailoverNodes): the children in configured order; an unhealthy   *)
(* or rate-limited leaf is deferred to a second pass, which tries the      *)
(* unhealthy ones regardless and waits for the permit of the limited ones. *)
(***************************************************************************)
EXTENDS LeafAttempt

VARIABLES
  todo,      \* the first pass: positions in Order it has not reached
  deferred   \* the second pass: [cand, wait], in the order they were deferred

failoverVars == <<todo, deferred>>

FailoverInit ==
  /\ todo = {}
  /\ deferred = <<>>

\* entryAbort; buildTasksFromLeaves keeps the schedulable leaves (flat form).
FailoverStart ==
  /\ phase = "entry"
  /\ \/ /\ client = "gone"
        /\ Finish(Said("abort"))
        /\ UNCHANGED <<todo, passed>>
     \/ /\ client = "live"
        /\ ~ Mixed /\ ready = {}
        /\ Finish(Said("unavailable"))
        /\ UNCHANGED <<todo, passed>>
     \/ /\ client = "live"
        /\ Mixed \/ ready # {}
        /\ phase' = "loop"
        /\ todo' = {i \in DOMAIN Order : Order[i] \in IF Mixed THEN children ELSE ready}
        /\ passed' = IF Mixed THEN {} ELSE children \ ready
        /\ UNCHANGED answer
  /\ UNCHANGED <<client, ready, cur, round, last, fallback, open, permits,
                 tried, breakerVars, deferred>>

\* Either pass: stopSequential at the head of the loop body.
FailoverAborts ==
  /\ phase = "loop"
  /\ todo # {} \/ deferred # <<>>
  /\ client = "gone"
  /\ StopScheduling
  /\ UNCHANGED <<client, ready, cur, round, last, permits, tried, passed,
                 breakerVars, todo, deferred>>

\* Leaf c is put off to the second pass, to wait for a permit or to take its chance.
Defer(c, wait) ==
  /\ deferred' = Append(deferred, [cand |-> c, wait |-> wait])
  /\ UNCHANGED <<phase, cur, round, last, permits, passed>>

Skip(c) ==
  /\ passed' = passed \cup {c}
  /\ phase' = "loop"
  /\ UNCHANGED <<cur, round, last, permits>>

\* The first pass: a leaf is skipped, deferred or begun, a group is begun.
\* Allow's answer is the limiter's: either, at any time.
FirstPass ==
  /\ phase = "loop"
  /\ todo # {}
  /\ client = "live"
  /\ \E i \in todo :
       /\ \A k \in todo : i <= k
       /\ todo' = todo \ {i}
       /\ LET child == Order[i] IN
            \/ child \notin Groups \cup ready /\ Skip(child) /\ UNCHANGED deferred
            \/ child \in ready /\ ~ healthy[KeyOf[child]] /\ Defer(child, FALSE)
            \/ child \in ready /\ healthy[KeyOf[child]] /\ Defer(child, TRUE)
            \/ /\ child \in Groups \/ (child \in ready /\ healthy[KeyOf[child]])
               /\ Begin(child)
               /\ UNCHANGED <<passed, deferred>>
  /\ UNCHANGED <<client, ready, fallback, open, tried, answer, breakerVars>>

SameDeferred == UNCHANGED deferred   \* mutant: the second pass stays at its entry

\* The second pass moves on to the next entry.
NextDeferred == deferred' = Tail(deferred)

\* The second pass: Allow grants the permit, or refuses it: then a leaf that was
\* deferred as unhealthy is skipped, a limited one waits in Wait.
SecondPass ==
  /\ phase = "loop"
  /\ todo = {} /\ deferred # <<>>
  /\ client = "live"
  /\ LET d == Head(deferred) IN
       \/ Begin(d.cand) /\ NextDeferred /\ UNCHANGED passed
       \/ ~ d.wait /\ Skip(d.cand) /\ NextDeferred
       \/ /\ d.wait
          /\ phase' = "permit"
          /\ UNCHANGED <<cur, round, last, permits, passed, deferred>>
  /\ UNCHANGED <<client, ready, fallback, open, tried, answer, breakerVars, todo>>

\* ratelimit.Wait returns: with a permit, because the context ended, or at once
\* because it would outlive the context's deadline.
WaitReturns ==
  /\ phase = "permit"
  /\ LET leaf == Head(deferred).cand IN
       \/ Begin(leaf) /\ UNCHANGED <<passed, fallback, open, answer>>
       \/ client = "live" /\ Skip(leaf) /\ UNCHANGED <<fallback, open, answer>>
       \/ /\ client = "gone"
          /\ StopScheduling
          /\ UNCHANGED <<cur, round, last, permits, passed>>
  /\ NextDeferred
  /\ UNCHANGED <<client, ready, tried, breakerVars, todo>>

FailoverOutcome ==
  /\ phase = "outcome"
  /\ RecordOutcome
  /\ UNCHANGED <<client, ready, cur, round, last, permits, tried, passed,
                 breakerVars, todo, deferred>>

FailoverExhausted ==
  /\ phase = "loop"
  /\ todo = {} /\ deferred = <<>>
  /\ Final
  /\ UNCHANGED <<client, ready, cur, round, last, permits, tried, passed,
                 breakerVars, todo, deferred>>

FailoverLoop ==
  \/ FailoverStart
  \/ FailoverAborts
  \/ FirstPass
  \/ SecondPass
  \/ WaitReturns
  \/ FailoverOutcome
  \/ FailoverExhausted

FailoverTypeOK ==
  /\ todo \subseteq DOMAIN Order
  /\ deferred \in Seq([cand : Cands, wait : BOOLEAN])
==============================================================================
