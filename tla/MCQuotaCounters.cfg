\* Two requests, two changes of the expiry that may overlap, and a fault.
SPECIFICATION Spec
CONSTANTS
  q1 = q1
  q2 = q2
  q3 = q3
  e1 = e1
  e2 = e2
  s1 = s1
  s2 = s2
  Requests = {q1, q2}
  Ends = {e1, e2}
  Limit = 3
  MaxTokens = 2
  Syncs = {s1, s2}
  MaxFaults = 1
SYMMETRY Symmetry
CHECK_DEADLOCK FALSE
INVARIANTS TypeOK UsageConserved QuotaKept
