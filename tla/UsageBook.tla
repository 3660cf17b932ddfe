----------------------------- MODULE UsageBook -----------------------------
(***************************************************************************)
(* What the usage history promises: a book with one total per day and      *)
(* dimension tuple, to which requests are added and from which nothing is  *)
(* ever taken.                                                             *)
(***************************************************************************)
EXTENDS Integers

CONSTANTS
  Days, Dims,
  Amounts    \* token counts a request may have

VARIABLE book

Init == book = [d \in Days |-> [g \in Dims |-> [requests |-> 0, tokens |-> 0]]]

Add(d, g, n) ==
  book' = [book EXCEPT ![d][g] = [requests |-> @.requests + 1, tokens |-> @.tokens + n]]

Next == \E d \in Days, g \in Dims, n \in Amounts : Add(d, g, n)

Spec == Init /\ [][Next]_book
=============================================================================
