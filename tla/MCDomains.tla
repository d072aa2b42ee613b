----------------------------- MODULE MCDomains -----------------------------
(***************************************************************************)
(* An instance of Domains for TLC: two users who verify the same domain,   *)
(* so that each replaces the other's challenge, and one of them another.   *)
(***************************************************************************)
EXTENDS Domains, TLC

MCAbout == [v \in Verifies |-> IF v = 3 THEN "b.example" ELSE "a.example"]
MCAsker == [v \in Verifies |-> IF v = 2 THEN "bob" ELSE "ann"]
=============================================================================
