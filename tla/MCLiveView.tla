---------------------------- MODULE MCLiveView ----------------------------
(* Instances of LiveView for TLC. *)
EXTENDS LiveView, TLC

CONSTANTS v1, v2

=============================================================================
