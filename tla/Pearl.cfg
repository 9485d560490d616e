SPECIFICATION Spec
CONSTANTS
  N = 4
  NP = 2
  Problems <- MCProblems
CHECK_DEADLOCK FALSE
INVARIANTS RoundsAgree ExactIfAllTell NothingLeft
PROPERTIES EngineEnds
