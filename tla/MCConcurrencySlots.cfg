\* A busy account, lost expiries, failing commands and a crash.
SPECIFICATION SlotFairSpec
CONSTANTS
  q1 = q1
  q2 = q2
  q3 = q3
  q4 = q4
  Calls = {q1, q2, q3}
  Limit = 2
  SlotTTL = 2
  Recycle = TRUE
  MaxDeaths = 1
  MaxFailures = 2
INVARIANTS NoPhantomSlots
PROPERTY LeakHealed
