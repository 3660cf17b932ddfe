------------------------ MODULE MCPreRequestLimits ------------------------
(* Instances of PreRequestLimits for TLC. *)
EXTENDS PreRequestLimits, TLC

CONSTANTS p, q1, q2, q3

\* The requests to come of one customer are interchangeable.
Symmetry == Permutations(Requests \ Past)
=============================================================================
