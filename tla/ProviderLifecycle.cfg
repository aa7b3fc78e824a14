SPECIFICATION ProviderFairSpec
CONSTANTS
  Claims = {"data"}
  Inputs <- MachineInputs
  InitiallyGiven <- AtStart
  Deletions = {"cluster"}
  Foreign = {}
  SameName = FALSE
  FaultKinds = {}
  MaxFaults = 0
  MaxPods = 1
  Endpoints = {e}
  None = None
  Teardowns = {"cluster", "namespace"}
INVARIANTS
  WaitsForCluster
PROPERTIES
  TeardownCompletes
  ClusterComesUp
CHECK_DEADLOCK FALSE
