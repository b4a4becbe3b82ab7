SPECIFICATION Spec
CONSTANTS
  NoFile = NoFile
  g = g
  h = h
  Operations = {g, h}
  EventLimit = 2
  ChanCap = 1
  JournalLimit = 1
  Chunk = 2
  MaxRead = 4
  DefaultLines = 1
  MaxTailLines = 2
  MaxEvents = 4
  MaxCells = 6
  MaxFiles = 2
  MaxWork = 7
  Faults = {"crash", "full"}
INVARIANTS WatcherMissesNothing JournalKeepsNewest NothingLost FollowedWhole TailShowsLatest
CHECK_DEADLOCK FALSE
SYMMETRY MCSymmetry
