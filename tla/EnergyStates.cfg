SPECIFICATION Spec
CONSTANTS
  Floor = 0
  Ceiling = 1000
  ChargeMax = 1
  DischargeMax = 1
  ImportCap = 100
  ExportCap = 100
  Eta = 1
  Million = 1
  LossMax = 0
  Tolerance = 0
  FallbackLow = 0
  FallbackHigh = 0
  Tau = 2
  Window = 6
  StaleBound = 2
  TimeBound = 100
  EnergyBound = 1000
  PowerBound = 100
  Proposals <- MCCommands
  Loads = {0}
  Pvs = {0}
  Energies = {500}
  Regimes <- MCRegimes
INVARIANTS TypeOK AppliesKnownState CommandEndsInWindow
PROPERTIES SnapshotAfterChange
CHECK_DEADLOCK FALSE
