SPECIFICATION Spec
CONSTANTS
  c1 = c1
  c2 = c2
  p = p
  q = q
  NoDir = NoDir
  EmptyDir = EmptyDir
  NoFile = NoFile
  Names = {p, q}
  Docs <- MCDocs
  Paths = {"m1"}
  Target <- MCTarget
  Singles = {}
  Services = {"web", "bogus"}
  HandCfgs <- MCHandCfgs
  Callers = {c1, c2}
  Kinds = {"put", "create", "cleanup"}
  MaxCalls = 2
  Faults = {}
PROPERTIES CleanupSpares
CHECK_DEADLOCK FALSE
SYMMETRY Symmetry
