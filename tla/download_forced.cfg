SPECIFICATION Spec
CONSTANTS
  Targets = {"file"}
  Multi = {}
  Checked = {"file"}
  Versions = {1}
  Size = 1
  MaxJobs = 2
  Faults = {"crash"}
INVARIANTS CompletedIsFetched
