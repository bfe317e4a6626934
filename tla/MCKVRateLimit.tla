---------------------------- MODULE MCKVRateLimit ----------------------------
(* KVRateLimit on its own: see WeightCounted.cfg.                          *)
EXTENDS KVRateLimit, TLC

Symmetry == Permutations(Requests)
=============================================================================
