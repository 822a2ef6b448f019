SPECIFICATION JobsSpec
CONSTANTS
  Jobs = {j1, j2}
  Sources = {1}
  Source <- MCSource
  Retain <- MCRetain
  SnapshotMax = 2
  MaxSnaps = 4
  MaxJobRequests = 0
  MaxJobFaults = 0
  MaxHostRequests = 0
  MaxHostFaults = 0
  Nil = Nil
PROPERTY IncrementalFromExisting
CHECK_DEADLOCK FALSE
