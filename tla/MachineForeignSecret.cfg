SPECIFICATION FairSpec
CONSTANTS
  Claims = {"data"}
  Inputs <- NoRecreation
  InitiallyGiven <- Prereqs
  Deletions = {}
  Foreign = {"secret"}
  SameName = FALSE
  FaultKinds = {}
  MaxFaults = 0
  MaxPods = 1
PROPERTIES
  BootsFromOwnSecret
CHECK_DEADLOCK FALSE
