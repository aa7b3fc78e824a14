SPECIFICATION Spec
CONSTANTS
  Claims = {"data"}
  Inputs <- StartupInputs
  InitiallyGiven = {}
  Deletions = {"default"}
  Foreign = {"pod", "secret"}
  SameName = FALSE
  FaultKinds = {"pause", "pod"}
  MaxFaults = 1
  MaxPods = 1
INVARIANTS
  NoLostWakeup
PROPERTIES
  ForeignPodUntouched
CHECK_DEADLOCK FALSE
