SPECIFICATION QuerySpec
CONSTANT N = 4
CHECK_DEADLOCK FALSE
INVARIANTS ParentsFirst DConnectionCovers
