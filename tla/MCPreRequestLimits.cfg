\* Overlapping requests of one customer, one of them already in the ledger;
\* Redis may lose its keys, a command may fail and the process may die.
SPECIFICATION Spec
CONSTANTS
  p = p
  q1 = q1
  q2 = q2
  q3 = q3
  Requests = {p, q1, q2, q3}
  Past = {p}
  Seeded = TRUE
  RPP = 2
  Mult = 2
  Debt = 2
  RPD = 1
  Resets = {TRUE, FALSE}
  MaxDay = 2
  MaxMishaps = 2
SYMMETRY Symmetry
CHECK_DEADLOCK FALSE
INVARIANTS PeriodCapHolds SlotsAccounted DayCapHolds
