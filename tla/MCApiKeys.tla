----------------------------- MODULE MCApiKeys -----------------------------
(* Instances of ApiKeys for TLC. *)
EXTENDS ApiKeys, TLC

CONSTANTS k1, k2, k3, v1, m1, m2

\* Raw keys and operations are interchangeable.
Symmetry == Permutations(Secrets) \cup Permutations(Managers)
=============================================================================
