SPECIFICATION MCSpec
CONSTANTS
  Targets = {"file", "dir"}
  Multi = {"dir"}
  Checked = {"file", "dir"}
  Versions = {1, 2}
  Size = 2
  MaxJobs = 2
  Faults = {"network", "record", "crash", "delete", "change", "norange", "duplicate"}
INVARIANTS ActiveIsBusy RecordsAgreeAlone
PROPERTIES PublishedAlone CancelEnds
