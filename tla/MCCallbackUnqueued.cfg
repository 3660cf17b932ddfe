\* The callback the HTTP server builds: no queue behind it.
SPECIFICATION Spec
CONSTANTS
  d1 = d1
  d2 = d2
  p1 = p1
  p2 = p2
  Debits = {d1}
  Processes = {p1}
  Attempts = 3
  MaxRetry = 2
  Batch = 1
  Queue = FALSE
  MaxEvents = 0
CHECK_DEADLOCK FALSE
INVARIANT NoDebitForgotten
