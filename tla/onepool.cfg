SPECIFICATION Spec
CONSTANTS
  a = a
  b = b
  x = x
  y = y
  z = z
  o1 = o1
  o2 = o2
  Pools = {a, b}
  Devices = {x, y, z}
  Ops = {o1, o2}
  None = None
  External = External
  Kinds = {"remove_device", "add_device"}
  InitMembers <- TwoPools
  InitProfile = "single"
  MaxCrashes = 0
  MaxDead = 0
  Flaky = FALSE
  Manual = FALSE
INVARIANT DeviceInOnePool
CHECK_DEADLOCK FALSE
