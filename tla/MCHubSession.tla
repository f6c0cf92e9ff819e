---------------------------- MODULE MCHubSession ----------------------------
(* Instances of HubSession for TLC: two or three connections and a key.      *)
EXTENDS HubSession, TLC

CONSTANTS c1, c2, c3, k
==============================================================================
