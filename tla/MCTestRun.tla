----------------------------- MODULE MCTestRun -----------------------------
(* Instances of TestRun for TLC. *)
EXTENDS TestRun, TLC

CONSTANTS w1, w2

Symmetry == Permutations(Workers)
=============================================================================
