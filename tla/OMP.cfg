SPECIFICATION Spec
CONSTANTS
  Node <- MCNode
  DiscreteNode = {"A", "B"}
  NumberOfClqs = 4
  NodeContent <- MCContent
  Factor <- MCFactor
  FactorDomain <- MCDomain
  SparseFactor = {}
  Thread = {t1, t2}
  Evidence <- MCEvidence
  NewRoot = {3}
INVARIANTS EvidencePropagated PropagationRaceFree
PROPERTIES ImplementsPropagation EnterEvidenceReturns
