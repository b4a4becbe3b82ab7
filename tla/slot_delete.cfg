SPECIFICATION Spec
CONSTANTS
  p1 = p1
  p2 = p2
  None = None
  Callers = {c1, c2}
  Profiles <- MCProfiles
  Backends <- MCBackends
  Routers <- MCRouters
  Addrs <- MCAddrs
  Docs <- MCDocs
  InitStore <- StoreShared
  Puts <- NoPuts
  Kinds = {"start", "restart", "delete", "shutdown"}
  Faults = {"io", "orphan"}
  MaxOps = 2
INVARIANTS HeldOnce FreeSlotMeansNoEngine
PROPERTIES ImplementsLifecycle
SYMMETRY Symmetry
