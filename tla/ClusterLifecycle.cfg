SPECIFICATION FairSpec
CONSTANTS
  Hosts <- HostAndName
  Ports <- PortAndNone
  Unallocatable <- Name
  Unservable <- NoPort
  Types = {"", "LoadBalancer"}
  Requested <- SomeRequests
  Foreign = TRUE
  Deletions = {"default", "background"}
  FaultKinds = {"call", "crash"}
  MaxFaults = 1
INVARIANTS
  TypeOK
  V1alpha2Agrees
PROPERTIES
  EndpointIsStable
  ImplementsLifecycle
  Provisioned
  DeletionCompletes
  NothingLeftBehind
CHECK_DEADLOCK FALSE
