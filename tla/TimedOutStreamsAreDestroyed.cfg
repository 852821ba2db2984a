SPECIFICATION Spec
CONSTANTS
  doc = doc
  acl = acl
  Resources <- MCResources
  Auxiliaries <- MCAuxiliaries
  Associated <- MCAssociated
  Calls <- MCCalls
  MaxCalls = 3
  Chunks = 2
INVARIANTS
  TimedOutStreamsAreDestroyed
CHECK_DEADLOCK FALSE
