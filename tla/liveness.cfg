\* One pool, one spare, two operations of any type, one failure; SQLite writes and
\* btrfs readings succeed, no disk dies.
SPECIFICATION FairSpec
CONSTANTS
  a = a
  b = b
  x = x
  y = y
  z = z
  o1 = o1
  o2 = o2
  Pools = {a}
  Devices = {x, y, z}
  Ops = {o1, o2}
  None = None
  External = External
  Kinds = {"add_device", "remove_device", "replace_device", "convert_profile"}
  InitMembers <- OnePool
  InitProfile = "raid1"
  MaxCrashes = 1
  MaxDead = 0
  Flaky = FALSE
  Manual = TRUE
INVARIANT OpenIsAttended
PROPERTIES
  ImplementsFairLock
  SQLiteCatchesUp
CHECK_DEADLOCK FALSE
