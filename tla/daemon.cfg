SPECIFICATION Spec
CONSTANTS
  Pids = {p1, p2, p3}
  None = None
  Clients = {a}
  NumProfiles = 1
  Attempts = 2
  MaxCommands = 2
  MaxFaults = 2
  Faults = {"kill", "recycle", "replace", "unit", "byhand", "fail"}
INVARIANTS ServingIsReady
PROPERTIES OnlyOwnStopped UpgradeRestores DoctorSeesServer
SYMMETRY MCSymmetry
CHECK_DEADLOCK FALSE
