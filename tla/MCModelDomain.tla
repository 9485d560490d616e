--------------------------- MODULE MCModelDomain ---------------------------
(* Two domains, two models and three addresses for factors: a cell can be    *)
(* reused while a factor with the same number lives in the other domain.     *)
EXTENDS ModelDomain, TLC

Symmetry == Permutations(Domain) \cup Permutations(Model) \cup Permutations(Factor)
=============================================================================
