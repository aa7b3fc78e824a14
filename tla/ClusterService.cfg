SPECIFICATION Spec
CONSTANTS
  Hosts <- TwoHosts
  Ports <- TwoPorts
  Unallocatable = {}
  Unservable = {}
  Types = {"", "LoadBalancer"}
  Requested <- TwoRequests
  Foreign = TRUE
  Deletions = {"default"}
  FaultKinds = {"service", "pause", "call"}
  MaxFaults = 2
INVARIANTS
  SettlesOnServiceEndpoint
  PhaseSettles
CHECK_DEADLOCK FALSE
