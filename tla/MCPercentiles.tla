--------------------------- MODULE MCPercentiles ---------------------------
(* An instance of Percentiles for TLC: three latencies, two in one bucket. *)
EXTENDS Percentiles, TLC

CONSTANTS j1, j2

MCBucket == <<0, 1, 1>>

Symmetry == Permutations(Jobs)
=============================================================================
