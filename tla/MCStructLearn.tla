---------------------------- MODULE MCStructLearn ----------------------------
(* Two slices of two nodes: nodes 0 and 1 are the prior slice, nodes 2 and 3  *)
(* the next one; 0 and 2 are discrete, 1 and 3 continuous.                    *)
EXTENDS StructLearn

Slice0 == {0, 1}
Slice1 == {2, 3}
DiscreteNodes == {0, 2}
ContinuousNodes == {1, 3}
Chain == [n \in Slice0 |-> IF n = 1 THEN {0} ELSE {}]
=============================================================================
