---------------------------- MODULE MCPropagation ----------------------------
(* A tree of four cliques: 1 is joined to 0, 2 and 3. *)
EXTENDS Propagation, FiniteSets

MCClq == 0 .. 3
MCLink == {{0, 1}, {1, 2}, {1, 3}}

RECURSIVE MCBehind(_, _, _)
MCBehind(m, i, j) ==
  IF {i, j} \in m THEN {}
  ELSE {i} \cup UNION {MCBehind(m, k, i) : k \in {d \in MCClq : {d, i} \in MCLink /\ d \notin {i, j}}}

(* two factors in one clique, one in a leaf, none in the two other cliques *)
MCFactor == {"f1", "f2", "f3"}
MCHome == [f \in MCFactor |-> IF f = "f3" THEN 3 ELSE 0]
==============================================================================
