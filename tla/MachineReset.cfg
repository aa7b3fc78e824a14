SPECIFICATION FairSpec
CONSTANTS
  Claims = {"data"}
  Inputs <- ControlPlanes
  InitiallyGiven <- Prereqs
  Deletions = {"default"}
  Foreign = {}
  SameName = FALSE
  FaultKinds = {}
  MaxFaults = 0
  MaxPods = 1
PROPERTIES
  ResetBeforePodGoes
CHECK_DEADLOCK FALSE
