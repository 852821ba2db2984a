SPECIFICATION FairSpec
CONSTANTS
  Requests = {r1, r2, r3}
INVARIANTS
  TypeOK
  MutualExclusion
  CountIsExact
  LocksHaveOwners
  OwnersAreExclusive
  NoReaderIsTrapped
  QueuesHoldTheWaiting
PROPERTIES
  ReadersAreServed
  WritersAreServed
  ImplementsReadWriteLock
CONSTANTS
  r1 = r1
  r2 = r2
  r3 = r3
