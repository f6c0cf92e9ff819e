------------------------------ MODULE Adaptive ------------------------------
(***************************************************************************)
(* Adaptive (scheduler/adaptive.go AdaptiveStrategy): the healthy leaves   *)
(* in the order of their latency scores, walked by index while             *)
(* removeUnhealthyFromRemaining may shrink the slice.  The scores          *)
(* (adaptive_score.go) are not modelled: any order.  Adaptive groups only  *)
(* have leaves (config/validate.go).                                       *)
(***************************************************************************)
EXTENDS LeafAttempt, Functions

VARIABLES
  ordered,   \* orderedTasks, as it was at first
  places,    \* positions of ordered whose leaves are still in the slice
  index      \* i, from 1

adaptiveVars == <<ordered, places, index>>

AdaptiveInit ==
  /\ ordered = <<>>
  /\ places = {}
  /\ index = 1

\* Where the slice has its element at position p of ordered.
Rank(p) == Cardinality({q \in places : q <= p})

\* entryAbort, filterHealthy, then the order: RankCandidates, reorderByScores.
AdaptiveStart ==
  /\ phase = "entry"
  /\ LET able == {c \in ready : healthy[KeyOf[c]]} IN
       \/ client = "gone" /\ Finish(Said("abort")) /\ UNCHANGED <<ordered, places, passed>>
       \/ /\ client = "live" /\ able = {}
          /\ Finish(Said("unavailable"))
          /\ UNCHANGED <<ordered, places, passed>>
       \/ /\ client = "live" /\ able # {}
          /\ phase' = "loop"
          /\ ordered' \in Bijection(1 .. Cardinality(able), able)
          /\ places' = 1 .. Cardinality(able)
          /\ passed' = children \ able
          /\ UNCHANGED answer
  /\ UNCHANGED <<client, ready, cur, round, last, fallback, open, permits,
                 tried, breakerVars, index>>

\* A single healthy leaf is executed without a loop: its outcome, or the
\* limiter's refusal, is the answer.  (The slice only shrinks once index > 1.)
Single == Cardinality(places) = 1 /\ index = 1

AdaptiveAborts ==
  /\ phase = "loop"
  /\ index <= Cardinality(places)
  /\ ~ Single
  /\ client = "gone"
  /\ StopScheduling
  /\ UNCHANGED <<client, ready, cur, round, last, permits, tried, passed,
                 breakerVars, adaptiveVars>>

\* removeUnhealthyFromRemaining removes the siblings of c, those before it as well
\* as those after it, if their key is unhealthy now.
Siblings(c) ==
  {d \in {ordered[p] : p \in places} :
     d # c /\ KeyOf[d] = KeyOf[c] /\ ~ healthy[KeyOf[c]]}

ShrinkStaysPut(c) ==                 \* mutant: the index does not move on
  /\ places' = {p \in places : ordered[p] \notin Siblings(c)}
  /\ UNCHANGED <<ordered, index>>

ShrinkAfter(c) ==
  /\ places' = {p \in places : ordered[p] \notin Siblings(c)}
  /\ index' = index + 1
  /\ UNCHANGED ordered

\* The limiter grants the leaf its permit.
PickGranted(leaf) == Begin(leaf) /\ UNCHANGED <<answer, passed, adaptiveVars>>

\* It refuses: the only leaf's refusal is the answer, another one is passed over.
PickRefused(leaf) ==
  \/ /\ ~ Single
     /\ ShrinkAfter(leaf)
     /\ passed' = passed \cup {leaf} \cup Siblings(leaf)
     /\ UNCHANGED <<phase, cur, round, last, permits, answer>>
  \/ /\ Single
     /\ Finish(Said("rateLimited"))
     /\ passed' = passed \cup {leaf}
     /\ UNCHANGED <<cur, round, last, permits, adaptiveVars>>

\* executeTask of the leaf at index.
AdaptivePick ==
  /\ phase = "loop"
  /\ client = "live" \/ Single
  /\ \E p \in places : Rank(p) = index /\ (PickGranted(ordered[p]) \/ PickRefused(ordered[p]))
  /\ UNCHANGED <<client, ready, fallback, open, tried, breakerVars>>

AdaptiveOutcome ==
  /\ phase = "outcome"
  /\ ~ Single
  /\ RecordOutcome
  /\ IF last.kind = "success"
       THEN UNCHANGED <<adaptiveVars, passed>>
       ELSE ShrinkAfter(cur) /\ passed' = passed \cup Siblings(cur)
  /\ UNCHANGED <<client, ready, cur, round, last, permits, tried, breakerVars>>

SingleOutcome ==
  /\ phase = "outcome"
  /\ Single
  /\ Finish(IF last.kind = "abort" THEN Said("abort") ELSE Kept(last))
  /\ UNCHANGED <<client, ready, cur, round, last, fallback, open, permits,
                 tried, passed, breakerVars, adaptiveVars>>

AdaptiveExhausted ==
  /\ phase = "loop"
  /\ index > Cardinality(places)
  /\ Final
  /\ UNCHANGED <<client, ready, cur, round, last, permits, tried, passed,
                 breakerVars, adaptiveVars>>

AdaptiveLoop ==
  \/ AdaptiveStart
  \/ AdaptiveAborts
  \/ AdaptivePick
  \/ AdaptiveOutcome
  \/ SingleOutcome
  \/ AdaptiveExhausted

AdaptiveTypeOK ==
  /\ ordered \in Seq(Cands)
  /\ places \subseteq DOMAIN ordered
  /\ index \in Nat \ {0}
==============================================================================
