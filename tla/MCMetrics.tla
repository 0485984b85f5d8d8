----------------------------- MODULE MCMetrics -----------------------------
(* Two sessions on two topics, and two buckets: one latency falls into the   *)
(* first, and one, exactly on its bound, into the one without a bound.       *)
EXTENDS Metrics, TLC

MCBounds == <<100>>
MCLatencies == {99, 100}

Symmetry == Permutations(Sessions) \union Permutations(Topics)
=============================================================================
