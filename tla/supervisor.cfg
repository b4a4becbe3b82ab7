SPECIFICATION Spec
CONSTANTS
  PIDs = {1, 2}
  MaxGen = 3
  Faults = {"spawn", "write", "timeout", "signal", "mismatch", "crash", "reuse"}
INVARIANTS EngineIsAccountedFor OneEngineAcrossRestarts OnlyKnownSignalled
PROPERTIES StopMeansGone
