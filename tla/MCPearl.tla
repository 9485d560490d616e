------------------------------- MODULE MCPearl -------------------------------
(* All models on N nodes whose links make a tree, as a BNet and as an MRF2; the  *)
(* observed nodes, and the hidden nodes that tell something: none or all.        *)
EXTENDS PearlResult

Links == {e \in Node \X Node : e[1] < e[2]}

RECURSIVE Joined(_, _)
Joined(E, S) ==
  LET T == S \cup {n \in Node : \E k \in S : <<k, n>> \in E \/ <<n, k>> \in E}
  IN IF T = S THEN S ELSE Joined(E, T)

Trees == {E \in SUBSET Links : Cardinality(E) = N - 1 /\ Joined(E, {0}) = Node}

MCProblems ==
  {[model |-> [type |-> t, links |-> E], observed |-> O, telling |-> H] :
     t \in {"BNet", "MRF2"}, E \in Trees, O \in {S \in SUBSET Node : Cardinality(S) < N - 1},
     H \in {{}, Node}}
=============================================================================
