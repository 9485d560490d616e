SPECIFICATION Spec
CONSTANTS
  N = 6
  NP = 1
  Problems <- ChainProblems
CHECK_DEADLOCK FALSE
INVARIANT ResultExact
