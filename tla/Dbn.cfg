SPECIFICATION Spec
CONSTANTS
  MaxTime = 7
  MaxLag = 3
INVARIANTS SmoothedExact EvidenceExact EvidenceAlive
