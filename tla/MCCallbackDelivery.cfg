\* Two processes with their workers, lost answers, failing marks, a crash and a
\* replay; genfity-app may stay down for good.
SPECIFICATION FairSpec
CONSTANTS
  d1 = d1
  d2 = d2
  p1 = p1
  p2 = p2
  Debits = {d1, d2}
  Processes = {p1, p2}
  Attempts = 1
  MaxRetry = 2
  Batch = 2
  Queue = TRUE
  MaxEvents = 1
CHECK_DEADLOCK FALSE
INVARIANTS ForgottenOnlyUnqueued AbandonedAfterMaxRetry
PROPERTY QueueDrains
