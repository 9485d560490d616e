--------------------------------- MODULE Nodes ---------------------------------
(* The nodes of a graph (CGraph) are numbered from 0. *)
EXTENDS Integers

CONSTANT N   \* number of nodes

ASSUME NodesAssumption == N \in Nat \ {0}

Node == 0 .. N-1

SmallestOf(S) == CHOOSE n \in S : \A k \in S : n <= k
=============================================================================
