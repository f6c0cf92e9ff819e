----------------------------- MODULE LoadBalance -----------------------------
(***************************************************************************)
(* Load-balance (scheduler/loadbalance.go execute and executeStickyLoop,   *)
(* execute_node.go executeLoadBalanceNodes): the healthy children compete; *)
(* one is picked, and taken out when it fails or is limited, with every    *)
(* leaf of its health key if that key is unhealthy by then.  Weighted      *)
(* random, sticky and deficit picks (selector.go, sticky.go) differ in     *)
(* which of the remaining children comes next: any of them here.           *)
(***************************************************************************)
EXTENDS LeafAttempt

VARIABLE remaining      \* children still in the selector

BalanceInit == remaining = {}

\* entryAbort, then filterHealthy / filterHealthyNodes: groups always stay.
BalanceStart ==
  /\ phase = "entry"
  /\ LET able == (children \cap Groups) \cup {c \in ready : healthy[KeyOf[c]]} IN
       \/ client = "gone" /\ Finish(Said("abort")) /\ UNCHANGED <<remaining, passed>>
       \/ /\ client = "live" /\ able = {}
          /\ Finish(Said("unavailable"))
          /\ UNCHANGED <<remaining, passed>>
       \/ /\ client = "live" /\ able # {}
          /\ phase' = "loop"
          /\ remaining' = able
          /\ passed' = children \ able
          /\ UNCHANGED answer
  /\ UNCHANGED <<client, ready, cur, round, last, fallback, open, permits,
                 tried, breakerVars>>

BalanceAborts ==
  /\ phase = "loop"
  /\ remaining # {}
  /\ client = "gone"
  /\ StopScheduling
  /\ UNCHANGED <<client, ready, cur, round, last, permits, tried, passed,
                 breakerVars, remaining>>

RemovedRegardless(c) ==              \* mutant: the key is not asked whether it is unhealthy
  {c} \cup {d \in remaining \ Groups : c \notin Groups /\ KeyOf[d] = KeyOf[c]}

\* RemoveTask, and RemoveByHealthKey if the key is unhealthy now.
Removed(c) ==
  {c} \cup {d \in remaining \ Groups :
              c \notin Groups /\ KeyOf[d] = KeyOf[c] /\ ~ healthy[KeyOf[c]]}

\* Child c is out of the selector, and its siblings with it.
Remove(c) ==
  /\ remaining' = remaining \ Removed(c)
  /\ passed' = passed \cup {d \in Removed(c) \ Groups : ~ healthy[KeyOf[d]]}

PickGroup(c) ==
  /\ c \in Groups
  /\ Begin(c)
  /\ UNCHANGED <<tried, passed, remaining>>

\* executeLoadBalanceLeaf of a leaf that is no longer schedulable.
PickUnavailable(c) ==
  /\ Mixed /\ c \notin Groups \cup ready
  /\ phase' = "outcome" /\ cur' = c
  /\ last' = [kind |-> "unavailable", of |-> c]
  /\ round' = 0 /\ permits' = 0
  /\ tried' = tried \cup {c}
  /\ UNCHANGED <<passed, remaining>>

\* The limiter grants the permit, and the request is sent.
PickLeaf(c) ==
  /\ c \notin Groups /\ (Mixed => c \in ready)
  /\ phase' = "send" /\ cur' = c
  /\ last' = Nothing
  /\ round' = 0 /\ permits' = 1
  /\ UNCHANGED <<tried, passed, remaining>>

\* The limiter refuses it: the leaf is taken out without a turn.
PickLimited(c) ==
  /\ c \notin Groups /\ (Mixed => c \in ready)
  /\ remaining' = remaining \ Removed(c)
  /\ passed' = passed \cup {c} \cup {d \in Removed(c) : ~ healthy[KeyOf[d]]}
  /\ UNCHANGED <<phase, cur, round, last, permits, tried>>

\* The selector picks one of the children.
BalancePick ==
  /\ phase = "loop"
  /\ client = "live"
  /\ \E c \in remaining :
       PickGroup(c) \/ PickUnavailable(c) \/ PickLeaf(c) \/ PickLimited(c)
  /\ UNCHANGED <<client, ready, fallback, open, answer, breakerVars>>

BalanceOutcome ==
  /\ phase = "outcome"
  /\ RecordOutcome
  /\ IF last.kind = "success" THEN UNCHANGED <<remaining, passed>> ELSE Remove(cur)
  /\ UNCHANGED <<client, ready, cur, round, last, permits, tried, breakerVars>>

BalanceExhausted ==
  /\ phase = "loop"
  /\ remaining = {}
  /\ Final
  /\ UNCHANGED <<client, ready, cur, round, last, permits, tried, passed,
                 breakerVars, remaining>>

BalanceLoop ==
  BalanceStart \/ BalanceAborts \/ BalancePick \/ BalanceOutcome \/ BalanceExhausted

BalanceTypeOK == remaining \subseteq Cands
==============================================================================
