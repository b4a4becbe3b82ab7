SPECIFICATION FairSpec
CONSTANTS
  p1 = p1
  p2 = p2
  None = None
  Callers = {c1, c2}
  Profiles <- MCProfiles
  Backends <- MCBackends
  Routers <- MCRouters
  Addrs <- MCAddrs
  Docs <- MCDocs
  InitStore <- StoreShared
  Puts <- PutOne
  Kinds = {"start", "stop", "put"}
  Faults = {"stop", "start", "orphan"}
  MaxOps = 3
INVARIANTS HeldOnce FreeSlotMeansNoEngine
PROPERTIES TransitionsEnd
