SPECIFICATION FairSpec
CONSTANTS
  Claims = {"data"}
  Inputs <- NoRecreation
  InitiallyGiven <- Prereqs
  Deletions = {"default", "cluster"}
  Foreign = {}
  SameName = FALSE
  FaultKinds = {"call", "hang"}
  MaxFaults = 1
  MaxPods = 1
PROPERTIES
  Provisioned
  DeletionCompletesWithoutReset
  NothingLeftBehind
CHECK_DEADLOCK FALSE
