SPECIFICATION Spec
CONSTANTS
  One <- MCOne
  QValue <- MCQValue
  Languages = {"en"}
  Scenarios <- MCScenarios
  Tolerance = 40
  Root = "/"
  Containers <- MCContainers
  Parent <- MCParent
  NewPaths = {"/n", "/c/n"}
  RdfWeights <- MCRdfWeights
INVARIANTS
  TypeOK
  GrantsWereEffective
  AnswersAreAcceptable
  SubscribersHearOfChanges
CHECK_DEADLOCK FALSE
