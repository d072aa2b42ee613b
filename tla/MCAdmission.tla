---------------------------- MODULE MCAdmission ----------------------------
(* Instances of Admission for TLC. *)
EXTENDS Admission, TLC

CONSTANTS w1, w2, p1, p2, ann, bob

Good(o, vus, workers) ==
    [owner |-> o, host |-> "own", vus |-> vus, seconds |-> 2, pattern |-> "ramp",
     workers |-> workers]

\* Two requests to be split, one of which asks for more sub-jobs than it has
\* virtual users, one for an open host, and one that breaks each rule: the
\* authorization of the host, the limits, the patterns.
MCRequests ==
    LET r == Good(ann, 3, 2) IN
    {r, Good(ann, 1, 9), [Good(bob, 3, 0) EXCEPT !.host = "open"],
     Good(bob, 3, 2), [r EXCEPT !.vus = 4], [r EXCEPT !.pattern = "other"]}

MCVerified == {<<"own", ann>>}

Symmetry == Permutations(Workers) \cup Permutations(Posts)
=============================================================================
