SPECIFICATION FairSpec
CONSTANTS
  Machines = {"cp1", "cp2", "md"}
  ControlPlanes = {"cp1", "cp2"}
  Established = {"cp1"}
  Deletable = {"cp1", "md"}
  MaxHangs = 1
  MaxBroken = 1
PROPERTIES
  MachinesComeUp
  DeletionsComplete
  ImplementsLifecycles
CHECK_DEADLOCK FALSE
