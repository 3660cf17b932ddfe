------------------------ MODULE MCCallbackDelivery ------------------------
(* Instances of CallbackDelivery for TLC. *)
EXTENDS CallbackDelivery, TLC

CONSTANTS d1, d2, p1, p2

\* Debits are interchangeable, and so are gateway processes.
Symmetry == Permutations(Debits) \cup Permutations(Processes)
=============================================================================
