SPECIFICATION Spec
CONSTANTS
  One <- MCOne
  QValue <- MCQValue
  Languages = {"en"}
  Scenarios <- MCWorse
  Tolerance = 40
  Root = "/"
  Containers <- MCContainers
  Parent <- MCParent
  NewPaths = {"/n", "/c/n"}
  RdfWeights <- MCRdfWeights
INVARIANT ChainsAreBest
CHECK_DEADLOCK FALSE
