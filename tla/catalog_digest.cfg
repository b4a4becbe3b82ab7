SPECIFICATION Spec
CONSTANTS
  Keys = {"k"}
  Listings <- MCListings
  Hosts <- MCHosts
  Files = {"f"}
  Contents = {1, 2}
  KVOf <- MCKVOf
  Trees <- MCTrees
  Weights = {"w"}
  Unsafe = {"../x"}
  Overhead = 1
  TTL = 1
  Cap = 1
  MaxVersions = 2
  MaxClock = 2
  MaxWork = 4
  MaxFaults = 1
INVARIANTS DownloadedIsVerifiable
CHECK_DEADLOCK FALSE
