SPECIFICATION Spec
CONSTANTS
  Models <- MCModels
  Prefixed <- MCPrefixed
  Payloads <- MCPayloads
  Targets = {"t1", "t2"}
  Amounts = {"a1"}
  None = None
  Syncs = {s1, s2}
  Admins = {e1}
  MaxSyncs = 2
  MaxEdits = 1
  MaxFaults = 1
INVARIANTS TypeOK SyncedExact RetiredInert 
SYMMETRY MCSymmetry
CHECK_DEADLOCK FALSE
