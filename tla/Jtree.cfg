SPECIFICATION Spec
CONSTANTS
  Node <- MCNode
  DiscreteNode <- MCDiscrete
  NumberOfClqs = 5
  NodeContent <- MCContent
  Factor <- MCFactor
  FactorDomain <- MCDomain
  SparseFactor <- MCSparse
  Evidence <- MCEvidence
  Query <- MCQuery
  MaximizeFlag = {FALSE, TRUE}
INVARIANTS EvidencePropagated LogLikExactWhenDense QueryExact MergeSucceeds
PROPERTIES ImplementsPropagation EnterEvidenceReturns
