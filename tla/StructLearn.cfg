SPECIFICATION Spec
CONSTANTS
  N = 4
  VAncestor <- Slice0
  VDescent <- Slice1
  Discrete <- DiscreteNodes
  Continuous <- ContinuousNodes
  FanIn = 2
  Fixed = {}
  PriorParents <- Chain
CHECK_DEADLOCK FALSE
INVARIANTS MatrixExact StaysDAG MovesExact PriorFitsUnlessRestarted
PROPERTIES TypesKeepOrder RandomCreateADAGReturns
