------------------------ MODULE MCConcurrencySlots ------------------------
(* Instances of ConcurrencySlots for TLC. *)
EXTENDS ConcurrencySlots, TLC

CONSTANTS q1, q2, q3, q4

\* Requests of one account are interchangeable.
Symmetry == Permutations(Calls)
=============================================================================
