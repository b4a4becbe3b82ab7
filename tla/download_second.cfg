SPECIFICATION DSpec
CONSTANTS
  Targets = {"file"}
  Multi = {}
  Checked = {"file"}
  Versions = {1}
  Size = 2
  MaxJobs = 1
  Faults = {"duplicate"}
INVARIANTS OneWriter
