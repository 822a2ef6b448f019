SPECIFICATION Spec
CONSTANTS
  a = a
  b = b
  x = x
  y = y
  z = z
  o1 = o1
  o2 = o2
  Pools = {a}
  Devices = {x, y, z}
  Ops = {o1, o2}
  None = None
  External = External
  Kinds = {"convert_profile"}
  InitMembers <- OnePool
  InitProfile = "raid1"
  MaxCrashes = 1
  MaxDead = 0
  Flaky = FALSE
  Manual = TRUE
PROPERTY LockOutlivesBalance
CHECK_DEADLOCK FALSE
