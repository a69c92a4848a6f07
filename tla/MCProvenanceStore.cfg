SPECIFICATION StoreSpec
CONSTANTS
  p1 = p1
  p2 = p2
  Processes = {p1, p2}
  Labels = {"q0", "x_q0", "y_q0", "drift"}
  Contents = {"c1", "c2", "c3", "empty"}
  Empty = "empty"
  Experiments <- MCExperiments
  MaxEntries <- MCMaxEntries
  MaxStores = 4
INVARIANTS
  RecentKept
  
PROPERTIES
  StoreBounded
CHECK_DEADLOCK FALSE
