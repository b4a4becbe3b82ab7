SPECIFICATION FairSpec
CONSTANTS
  Lists <- MCLists
  BackendOf <- MCBackendOf
  Backends <- MCBackends
  ModelsOf <- MCModelsOf
  TargetOf <- MCTargetOf
  Missing <- MCMissing
  Sessions <- MCSessions
  MaxJobs = 2
  MaxWork = 3
  MaxFaults = 1
INVARIANTS ExitReflectsJob
PROPERTIES ConfirmedIsShown ShownEventually
CHECK_DEADLOCK FALSE
