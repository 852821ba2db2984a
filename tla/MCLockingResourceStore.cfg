SPECIFICATION FairSpec
CONSTANTS
  doc = doc
  acl = acl
  Resources <- MCResources
  Auxiliaries <- MCAuxiliaries
  Associated <- MCAssociated
  Calls <- MCCalls
  MaxCalls = 3
  Chunks = 2
INVARIANTS
  TypeOK
  OverlapOnlyAfterExpiry
  HeldLocksCanExpire
  ReadableStreamsAreLocked
PROPERTIES
  ExpiredCallsFail
  LocksAreReleased
CHECK_DEADLOCK FALSE
