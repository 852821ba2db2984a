SPECIFICATION Spec
CONSTANTS
  Identifiers <- MCIdentifiers
  Containers <- MCContainers
  Root = "/"
  Parent <- MCParent
  Ancestors <- MCAncestors
  Twin <- MCTwin
  Auxiliaries <- MCAuxiliaries
  Associated <- MCAssociated
  Calls <- MCCalls
  MaxCalls = 3
  Initial <- MCInitial
INVARIANTS
  SlashesAreUnique
CHECK_DEADLOCK FALSE
