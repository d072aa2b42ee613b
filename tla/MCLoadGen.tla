----------------------------- MODULE MCLoadGen -----------------------------
(* Instances of LoadGen for TLC. *)
EXTENDS LoadGen, TLC

CONSTANTS v1, v2

=============================================================================
