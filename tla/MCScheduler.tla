---------------------------- MODULE MCScheduler ----------------------------
(* An instance of Scheduler for TLC: two leaves on one health key with a     *)
(* leaf on a key of its own, or a child group, between them; a can be        *)
(* retried once, and other requests fail on either key.                      *)
EXTENDS Scheduler, TLC

CONSTANTS a, b, c, g, k1, k2

MCOrder == <<a, c, g, b>>
MCKeyOf == a :> k1 @@ b :> k1 @@ c :> k2
MCRetries == a :> 1 @@ b :> 0 @@ c :> 0
=============================================================================
