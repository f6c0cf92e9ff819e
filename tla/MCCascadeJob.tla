---------------------------- MODULE MCCascadeJob ----------------------------
(* Instances of CascadeJob for TLC: one job that streams, and one that does  *)
(* not, or the first of them alone.                                          *)
EXTENDS CascadeJob, TLC

CONSTANTS s, n
==============================================================================
