SPECIFICATION PoolsSpec
CONSTANTS
  Disks = {d1, d2}
  Names = {n1, n2}
  FSes = {f1, f2, f3}
  Ops = {o1, o2}
  d1 = d1
  d2 = d2
  f1 = f1
  f2 = f2
  f3 = f3
  n1 = n1
  n2 = n2
  InitFS = f1
  InitName = n1
  InitDisks <- MCInitDisks
  MaxCrashes = 1
  MaxLayers = 2
  MaxRequests = 3
  Flaky = TRUE
  Drives = {1, 2}
  Nvme = {}
  Mirrors = {"raid1"}
  MaxHealthEvents = 2
  MaxHealthFaults = 1
  LogWindow = 1
  LogLimit = 2
  LogDay = 2
  LogKept = 2
  LastTick = 5
  MaxLogAsked = 1
  MaxLogMishaps = 1
  Bays = {1, 2, 3, 4}
  Sizes = {0, 1, 2, 4}
  Layouts = {"single", "raid1", "raid1c3", "raid10"}
  None = None
  Dangling = Dangling
INVARIANTS PoolsTypesOK PoolsConsistent 
PROPERTIES RowsAreReal DataIsSpared
SYMMETRY MCSymmetry
CHECK_DEADLOCK FALSE
