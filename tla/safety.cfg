\* One pool, one spare, two operations of any type, one failure, one dead disk;
\* SQLite writes and btrfs readings may fail, pools are renamed, balances run by hand.
SPECIFICATION Spec
CONSTANTS
  a = a
  b = b
  x = x
  y = y
  z = z
  o1 = o1
  o2 = o2
  Pools = {a}
  Devices = {x, y, z}
  Ops = {o1, o2}
  None = None
  External = External
  Kinds = {"add_device", "remove_device", "replace_device", "convert_profile"}
  InitMembers <- OnePool
  InitProfile = "raid1"
  MaxCrashes = 1
  MaxDead = 1
  Flaky = TRUE
  Manual = TRUE
SYMMETRY Symmetry
INVARIANTS
  TypeOK
  OneLayoutOpPerPool
  DriverHoldsLock
PROPERTIES
  CompletionIsReal
  TerminalIsFinal
  ImplementsLock
CHECK_DEADLOCK FALSE
