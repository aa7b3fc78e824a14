SPECIFICATION Spec
CONSTANTS
  Claims = {"data"}
  Inputs <- DefaultInputs
  InitiallyGiven <- Prereqs
  Deletions = {"default", "background"}
  Foreign = {}
  SameName = FALSE
  FaultKinds = {"call", "crash", "pod"}
  MaxFaults = 2
  MaxPods = 2
INVARIANTS
  TypeOK
  MemberNotAbandoned
  ReadyIsBacked
  SurvivesV1alpha2
  NoLostWakeup
PROPERTIES
  NoReplacementOnceReady
  ImplementsLifecycle
CHECK_DEADLOCK FALSE
