--------------------------- MODULE MCUsageRollup ---------------------------
(* Instances of UsageRollup for TLC. *)
EXTENDS UsageRollup, TLC

CONSTANTS j1, j2

\* Jobs are interchangeable.
Symmetry == Permutations(Jobs)

\* A success, and a failure of another customer on a free model.
MCDims ==
  {[group |-> "g", user |-> "u1", model |-> "m", mode |-> "unlimited", prefix |-> "p",
    status |-> "success", code |-> ""],
   [group |-> "g", user |-> "u2", model |-> "f", mode |-> "credit_package", prefix |-> "p",
    status |-> "failed", code |-> "http_error"]}
=============================================================================
