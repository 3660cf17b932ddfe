\* Requests, two overlapping operations, one failing command.
SPECIFICATION Spec
CONSTANTS
  k1 = k1
  k2 = k2
  k3 = k3
  v1 = v1
  m1 = m1
  m2 = m2
  NoRow = NoRow
  None = None
  Secrets = {k1, k2, k3}
  Sources = {"subscription", "credit"}
  Statuses = {"active", "revoked"}
  Validators = {v1}
  Managers = {m1, m2}
  TTL = 2
  MaxDelay = 1
  MaxOps = 2
  MaxFaults = 1
SYMMETRY Symmetry
INVARIANTS CacheCoherent SettingsKept
PROPERTIES AnswersTimely
