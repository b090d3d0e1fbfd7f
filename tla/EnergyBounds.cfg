SPECIFICATION Spec
CONSTANTS
  Floor = 10
  Ceiling = 31
  ChargeMax = 1
  DischargeMax = 1
  ImportCap = 3
  ExportCap = 2
  Eta = 1
  Million = 2
  LossMax = 1
  Tolerance = 1
  FallbackLow <- MCFallback
  FallbackHigh = 0
  Tau = 1
  Window = 3
  StaleBound = 2
  TimeBound = 100
  EnergyBound = 1000
  PowerBound = 100
  Proposals <- MCPlans
  Loads = {0, 1}
  Pvs = {0, 1}
  Energies = {25, 28}
  Regimes <- MCNoFaults
INVARIANTS WithinOrFallback
CHECK_DEADLOCK FALSE
