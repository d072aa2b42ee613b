----------------------------- MODULE MCHistory -----------------------------
(* Instances of History for TLC. *)
EXTENDS History, TLC

CONSTANTS t1, t2, c1, c2, c3, ann, bob

\* Every test is ann's; bob's calls are about tests that are not his.
MCOwner == [t \in Tests |-> ann]

MCUrl == [t \in Tests |-> "shop"]

\* Calls are alike, and so are tests of one owner and one target.
Symmetry == Permutations(Calls) \cup Permutations(Tests)
=============================================================================
