SPECIFICATION Spec
CONSTANTS
  Domain = {d1, d2}
  Model = {m1, m2}
  Factor = {f1, f2, f3}
  NULL = NULL
  Capacity = 2
SYMMETRY Symmetry
INVARIANTS HeapSound DeletedOnce DomainOutlivesModels
