------------------------------- MODULE MCRace -------------------------------
(* An instance of Race for TLC: a race of three leaves on one health key, or *)
(* of a leaf and a child group.                                              *)
EXTENDS Race, TLC

CONSTANTS a, b, c, g, k

MCKeyOf == [x \in Cands \ Groups |-> k]
==============================================================================
