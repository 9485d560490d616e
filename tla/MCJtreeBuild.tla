----------------------------- MODULE MCJtreeBuild -----------------------------
(* Every connected BNet on N nodes, and every undirected graph on N nodes as an *)
(* MNet of pairs (with a factor on every node, so that a node may be alone).    *)
EXTENDS JtreeBuild

Pairs == {e \in SUBSET Node : Cardinality(e) = 2}

RECURSIVE SeqOf(_)
SeqOf(S) == IF S = {} THEN <<>> ELSE LET x == CHOOSE x \in S : TRUE IN <<x>> \o SeqOf(S \ {x})

RECURSIVE Reach(_, _)
Reach(E, S) ==
  LET T == S \cup UNION {e \in E : e \cap S # {}} IN IF T = S THEN S ELSE Reach(E, T)

BNetOf(E) ==
  [type |-> "BNet",
   domain |-> [k \in 1 .. N |-> {k-1} \cup {p \in 0 .. k-2 : {p, k-1} \in E}]]

MNetOf(E) == [type |-> "MNet", domain |-> SeqOf(E \cup {{n} : n \in Node})]

MCModels ==
  {BNetOf(E) : E \in {D \in SUBSET Pairs : Reach(D, {0}) = Node}} \cup
  {MNetOf(E) : E \in SUBSET Pairs}

MCWanted == {{}, {{0, N-1}}, {{0, 2}, {1, 3, N-1}}}
=============================================================================
