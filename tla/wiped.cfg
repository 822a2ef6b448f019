SPECIFICATION Spec
CONSTANTS
  Disks = {d1, d2}
  Names = {n1, n2}
  FSes = {f1, f2, f3}
  Ops = {o1, o2}
  d1 = d1
  d2 = d2
  f1 = f1
  f2 = f2
  f3 = f3
  n1 = n1
  n2 = n2
  InitFS = f1
  InitName = n1
  InitDisks <- MCInitDisks
  MaxCrashes = 1
  MaxLayers = 2
  MaxRequests = 3
  Flaky = TRUE
  None = None
  Dangling = Dangling

PROPERTY WipeSparesManaged
SYMMETRY MCSymmetry
CHECK_DEADLOCK FALSE
