--------------------------- MODULE AttemptOutcome ---------------------------
(***************************************************************************)
(* A request for a group, what an attempt on one of its children can come  *)
(* back with (scheduler/strategy.go Result, soft_failure.go), and what the *)
(* health checker is told of it (retry.go applyAttemptHealth).             *)
(*                                                                         *)
(* A group without child groups is served by the "flat" strategies, one    *)
(* with child groups by the node forms of execute_node.go.                 *)
(***************************************************************************)
EXTENDS Breaker, FiniteSets

CONSTANTS Cands,      \* leaves and groups a group may have as children
          Groups,     \* those that are groups themselves
          KeyOf,      \* [leaves -> Keys]: health key of a leaf
          Families,   \* the groups asked for: each the set of its children
          Contended   \* bound of the model: keys other requests report on meanwhile

ASSUME OutcomeAssumption ==
  /\ "nobody" \notin Cands
  /\ Groups \subseteq Cands
  /\ KeyOf \in [Cands \ Groups -> Keys]
  /\ Families \subseteq SUBSET Cands
  /\ \A F \in Families : IsFiniteSet(F)
  /\ Contended \subseteq Keys

\* What the request asks for; it does not change.
VARIABLES
  children,  \* of the group
  stream     \* TRUE if it is to be answered with an event stream

requestInput == <<children, stream>>

RequestInit == children \in Families /\ stream \in BOOLEAN

Mixed == children \cap Groups # {}
Leaves == children \ Groups

Failures == {"hard4xx", "hard5xx", "quota"}                          \* responses
Errors == {"transport", "timeout", "unavailable", "allLimited", "abort"}
Kinds == {"success", "soft"} \cup Failures \cup Errors

Nothing == [kind |-> "nothing", of |-> "nobody"]
Said(k) == [kind |-> k, of |-> "nobody"]
Outcomes == [kind : Kinds, of : Cands]

\* What is kept of an outcome: which failure it was only matters to the health
\* checker and to the retry loop.
Kept(r) ==
  IF r.kind \in Failures \cup {"transport", "timeout"} THEN [r EXCEPT !.kind = "hard"] ELSE r

Results ==
  [kind : {"success", "soft", "hard", "unavailable", "allLimited", "abort"}, of : Cands]

\* Its class in ScheduleContract: that a child could not try anything is, for its
\* parent, an error of that child like any other.
Class(r) ==
  IF r.of # "nobody" /\ r.kind \in {"unavailable", "allLimited"}
    THEN [r EXCEPT !.kind = "hard"]
    ELSE Kept(r)

\* What child c can come back with.  "timeout" is the attempt's own budget
\* (ErrPrefillTimeout, ErrAttemptTimeout); "abort" is any error IsContextAbort takes
\* for the end of the request's context.  With the client still there that is also
\* what a limit of the transport returns (net.Dialer.Timeout, ResponseHeaderTimeout,
\* http.Client.Timeout: such an error Is context.DeadlineExceeded, and is not mapped),
\* and the read of a buffered body, whose context doNonStreamAttempt has cancelled.
Arrivals(c) == {k \in Kinds : k \in {"unavailable", "allLimited"} => c \in Groups}

\* An event stream keeps its connection; every other body was read into memory.
MayHold(r) == stream /\ r.kind \in {"success", "soft", "hard4xx", "hard5xx"}

ApplyHealthCountsAborts(r, k) ==     \* mutant: an abort is held against the provider
  CASE r.kind = "success" -> ReportSuccess(k)
    [] r.kind \in {"hard5xx", "transport", "timeout", "abort"} -> ReportFailure(k)
    [] r.kind = "quota" -> MarkUnhealthy(k)
    [] OTHER -> UNCHANGED breakerVars

\* applyAttemptHealth.  A quota error while the quota cooldown runs changes
\* nothing (MarkUnhealthyEscalating).
ApplyHealth(r, k) ==
  CASE r.kind = "success" -> ReportSuccess(k)
    [] r.kind \in {"hard5xx", "transport", "timeout"} -> ReportFailure(k)
    [] r.kind = "quota" -> MarkUnhealthy(k) \/ (~ healthy[k] /\ UNCHANGED breakerVars)
    [] OTHER -> UNCHANGED breakerVars
==============================================================================
