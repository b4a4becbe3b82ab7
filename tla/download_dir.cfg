SPECIFICATION Spec
CONSTANTS
  Targets = {"dir"}
  Multi = {"dir"}
  Checked = {"dir"}
  Versions = {1, 2}
  Size = 1
  MaxJobs = 2
  Faults = {"network", "record", "crash", "delete", "change"}
INVARIANTS ActiveIsBusy StageIsCleared
PROPERTIES PublishedIsVerified
