SPECIFICATION BuildSpec
CONSTANTS
  N = 5
  Models <- MCModels
  Wanted <- MCWanted
CHECK_DEADLOCK FALSE
INVARIANTS CliquesExact DomainsCovered RunningIntersection
PROPERTIES TriangulatesIfNeeded ConstructionEnds
