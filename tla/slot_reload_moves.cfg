SPECIFICATION Spec
CONSTANTS
  p1 = p1
  p2 = p2
  None = None
  Callers = {c1, c2}
  Profiles <- MCProfiles
  Backends <- MCBackends
  Routers <- MCRouters
  Addrs <- MCAddrs
  Docs <- MCDocs
  InitStore <- StoreShared
  Puts <- PutAddr
  Kinds = {"start", "put"}
  Faults = {}
  MaxOps = 3
INVARIANTS AddressIsReal
