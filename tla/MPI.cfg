SPECIFICATION Spec
CONSTANTS
  Node <- MCNode
  DiscreteNode <- MCNode
  NumberOfClqs = 4
  NodeContent <- MCContent
  Factor <- MCFactor
  FactorDomain <- MCDomain
  SparseFactor = {}
  NumberOfProcesses = 3
  CollectRanks <- ThirdAndFirst
  NodeSize <- MCNodeSize
  Evidence <- MCEvidence
INVARIANTS FactorsCollected NoMessageLeft
PROPERTIES ImplementsPropagation EnterEvidenceReturns
