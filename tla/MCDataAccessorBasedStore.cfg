SPECIFICATION FairSpec
CONSTANTS
  Identifiers <- MCIdentifiers
  Containers <- MCContainers
  Root = "/"
  Parent <- MCParent
  Ancestors <- MCAncestors
  Twin <- MCTwin
  Auxiliaries <- MCAuxiliaries
  Associated <- MCAssociated
  Calls <- MCCalls
  MaxCalls = 3
  Initial <- MCInitial
INVARIANTS
  TypeOK
  TreeIsClosed
  AuxiliariesGoFirst
PROPERTIES
  SlashesAreRespected
  WritesSpareOthers
  DeletesSpareOthers
  NotFoundIsTrue
  WritesAreKept
  CallsReturn
CHECK_DEADLOCK FALSE
