\* Both routes, every kind of failing statement, a crash, the sweeper taking
\* holds of requests that are still running, charges above and below the
\* estimate, a balance push, and legacy debits.
SPECIFICATION Spec
CONSTANTS
  r1 = r1
  r2 = r2
  r3 = r3
  Requests = {r1, r2}
  Routes = {"chat", "messages"}
  Faults = {"record", "finalize", "lost_reply"}
  Grants = {3}
  Pushes = {2}
  LegacyCosts = {1}
  MaxHold = 2
  MaxCharge = 2
  StaleAfter = 1
  MaxCrashes = 1
SYMMETRY Symmetry
INVARIANTS HoldsCovered NoLeak Solvent BilledInFull
