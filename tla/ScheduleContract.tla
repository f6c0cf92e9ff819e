-------------------------- MODULE ScheduleContract --------------------------
(***************************************************************************)
(* What internal/scheduler promises its callers (the handlers) about one   *)
(* request scheduled over the children of a group, whichever mode serves   *)
(* it:                                                                     *)
(*   - a child gets its turn at most once (its own retries included),      *)
(*   - the first success ends the schedule and is the answer,              *)
(*   - otherwise the answer is a hard failure that was seen, and a soft    *)
(*     one only if no child failed hard,                                   *)
(*   - an abort (the client is gone, the request's deadline passed, or an  *)
(*     attempt's error is taken for that) outranks every failure, and no   *)
(*     child gets a turn after it,                                         *)
(*   - "nothing could be tried" is only answered when no child had a turn. *)
(***************************************************************************)
CONSTANTS Cands

VARIABLES tried,    \* children that had their turn
          best,     \* the answer if the schedule ended now
          answer    \* what the caller got

contractVars == <<tried, best, answer>>

Nothing == [kind |-> "nothing", of |-> "nobody"]
Said(k) == [kind |-> k, of |-> "nobody"]

\* What the schedule may stand on after child c came back with outcome k.
Standing(c, k) ==
  LET new == [kind |-> k, of |-> c] IN
  CASE k = "soft" /\ best.kind = "hard" -> {best}
    [] k = "hard" /\ best.kind = "hard" -> {best, new}
    [] OTHER -> {new}

ContractInit ==
  /\ tried = {}
  /\ best = Nothing
  /\ answer = Nothing

Try(c) ==
  /\ answer = Nothing
  /\ c \notin tried
  /\ best.kind \notin {"success", "abort"}
  /\ tried' = tried \cup {c}
  /\ \E k \in {"success", "soft", "hard", "abort"} : best' \in Standing(c, k)
  /\ UNCHANGED answer

Return ==
  /\ answer = Nothing
  /\ \/ best.kind \in {"success", "soft", "hard"} /\ answer' = best
     \/ tried = {} /\ \E k \in {"rateLimited", "unavailable"} : answer' = Said(k)
  /\ best' = Nothing
  /\ UNCHANGED tried

\* The context of the request ended, or is taken to have; no success was in hand.
GiveUp ==
  /\ answer = Nothing
  /\ best.kind # "success"
  /\ answer' = Said("abort")
  /\ best' = Nothing
  /\ UNCHANGED tried

ContractNext == (\E c \in Cands : Try(c)) \/ Return \/ GiveUp

Contract == ContractInit /\ [][ContractNext]_contractVars
==============================================================================
