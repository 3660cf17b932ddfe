\* One chat request that outlives the sweeper threshold; nothing fails.
SPECIFICATION Spec
CONSTANTS
  r1 = r1
  r2 = r2
  r3 = r3
  Requests = {r1, r2}
  Routes = {"chat"}
  Faults = {}
  Grants = {2}
  Pushes = {}
  LegacyCosts = {}
  MaxHold = 2
  MaxCharge = 2
  StaleAfter = 1
  MaxCrashes = 0
INVARIANT HoldsUntouched
