SPECIFICATION Spec
CONSTANTS
  Specs <- SomeSpecs
  ClaimTemplates <- SomeClaims
INVARIANTS
  SoundSpecIsCreated
  UserStorageKept
  EtcdOnItsClaim
  NeverBestEffort
  ClassAsDocumented
  ProjectedKeysExist
CHECK_DEADLOCK FALSE
