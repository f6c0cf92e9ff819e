--------------------------- MODULE MCHealthChecker ---------------------------
(* Instances of HealthChecker for TLC: cooldowns of a few ticks that keep the *)
(* order of the real ones (30 s < 1 h < 12 h < 365 d), 12 h off the doublings *)
(* of 1 h.                                                                    *)
EXTENDS HealthChecker, TLC

CONSTANTS k1, k2

KeySymmetry == Permutations({k1, k2})
==============================================================================
