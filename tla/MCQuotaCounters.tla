-------------------------- MODULE MCQuotaCounters --------------------------
(* Instances of QuotaCounters for TLC. *)
EXTENDS QuotaCounters, TLC

CONSTANTS q1, q2, q3, e1, e2, s1, s2

\* Requests are interchangeable, and so are syncs and values of period_end.
Symmetry ==
  Permutations(Requests) \cup Permutations(Ends) \cup Permutations(Syncs)

=============================================================================
