SPECIFICATION Spec
CONSTANTS
  Versions = {"v1", "v2", "v3", "dud", "odd"}
  Pinned = "v1"
  Accels = {"cpu", "cuda"}
  Releases <- MCReleases
  MaxOps = 4
  Faults = {"network", "write", "crash", "host"}
INVARIANTS RetentionIsExact ActiveSurvives
PROPERTIES RecordedIsProbed
