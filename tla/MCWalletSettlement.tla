------------------------ MODULE MCWalletSettlement ------------------------
(* Instances of WalletSettlement for TLC. *)
EXTENDS WalletSettlement, TLC

CONSTANTS r1, r2, r3

\* Requests of one customer are interchangeable.
Symmetry == Permutations(Requests)
=============================================================================
