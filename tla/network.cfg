SPECIFICATION FairSpec
CONSTANTS
  Tick = tick
  Forced = {f1}
  Ops = {1, 2, 3, 4, 5, 6}
  Threshold = 2
  Apps = {a1}
  Clients = {c1, c2}
  Routes = {r1, r2}
  PortChoices = {{80, 443}, {22, 443}}
  DefaultPorts = {80, 443}
  SSH = 22
  MaxRequests = 2
  MaxDdnsFaults = 2
  MaxExposureFaults = 1
  None = None
INVARIANTS NetworkTypesOK OpenOperationAttended RowAndSecretTogether FailuresAreConsecutive OpenedPortsAreTracked
PROPERTIES ResultsStayWithTheirRow EntryConverges NoLostUpdate  ExposureConverges
CHECK_DEADLOCK FALSE
