----------------------------- MODULE MCStickyPool -----------------------------
(* Two requests at a time on two models of one provider, one of them limited. *)
EXTENDS StickyPool, TLC

Ruleset(provider, a, b) ==
  [providers |-> "p" :> provider, models |-> "a" :> a @@ "b" :> b]
MCRules == <<Ruleset(180, 120, 0), Ruleset(0, 60, 0)>>
MCCandidates == <<"b", "a">>
MCProvider == "a" :> "p" @@ "b" :> "p"
MCSymmetry == Permutations(Slots)
MCWeight == "a" :> 2 @@ "b" :> 1
=============================================================================
