SPECIFICATION FairSpec
CONSTANTS
  Claims = {"data"}
  Inputs <- Recreation
  InitiallyGiven <- Prereqs
  Deletions = {}
  Foreign = {}
  SameName = FALSE
  FaultKinds = {"pod", "call", "crash"}
  MaxFaults = 3
  MaxPods = 3
INVARIANTS
  NoLostWakeup
  PhaseSettles
PROPERTIES
  ImplementsLifecycle
  Heals
CHECK_DEADLOCK FALSE
