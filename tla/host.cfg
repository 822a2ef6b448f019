SPECIFICATION HostSpec
CONSTANTS
  Apps = {a1, a2}
  a1 = a1
  a2 = a2
  Singles = {a2}
  Fixed = {}
  Pool = {30, 31}
  Hard = {80}
  Preferred <- MCPreferred
  Workers = {1, 2}
  Ops = {o1}
  Passes = {p1}
  MaxRequests = 2
  MaxFailures = 1
  None = None
  Empty = Empty
  Scrubs = {1, 2}
  MaxChanges = 2
  Jobs = {j1}
  Sources = {1}
  Source <- MCSource
  Retain <- MCRetain
  SnapshotMax = 1
  MaxSnaps = 2
  MaxJobRequests = 2
  MaxJobFaults = 1
  MaxHostRequests = 3
  MaxHostFaults = 2
  Nil = Nil
INVARIANTS HostTypesOK LastHasArrived
PROPERTIES OrphansReimported GhostsSwept UpdatesEnd ScrubEnds WatchedOutcomeIsReal ChangeIsBackedUp RunningIsResolved
CHECK_DEADLOCK FALSE
