SPECIFICATION Spec
CONSTANTS
  p1 = p1
  p2 = p2
  None = None
  Callers = {c1, c2}
  Profiles <- MCProfiles
  Backends <- MCBackends
  Routers <- MCRouters
  Addrs <- MCAddrs
  Docs <- MCDocs
  InitStore <- StoreMixed
  Puts <- NoPuts
  Kinds = {"start", "replace", "restart", "stop", "reset", "delete", "shutdown"}
  Faults = {"stop", "exit", "io"}
  MaxOps = 2
INVARIANTS SingleOwner OneEngine FreeSlotMeansNoEngine
PROPERTIES ImplementsLifecycle
SYMMETRY Symmetry
