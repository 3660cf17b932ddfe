\* Both routes, every kind of failing statement, a crash,
\* overrunning charges, a balance push and legacy debits; handlers may hang.
SPECIFICATION FairSpec
CONSTANTS
  r1 = r1
  r2 = r2
  r3 = r3
  Requests = {r1, r2}
  Routes = {"chat", "messages"}
  Faults = {"record", "finalize", "lost_reply"}
  Grants = {2}
  Pushes = {1}
  LegacyCosts = {1}
  MaxHold = 1
  MaxCharge = 2
  StaleAfter = 1
  MaxCrashes = 1
INVARIANTS TypeOK DebitRecorded
PROPERTY OrphansReleased
