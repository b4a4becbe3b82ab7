SPECIFICATION Spec
CONSTANTS
  PIDs = {1, 2}
  MaxGen = 2
  Faults = {"reuse"}
INVARIANTS OnlyOwnSignalled
