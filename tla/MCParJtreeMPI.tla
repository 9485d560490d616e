----------------------------- MODULE MCParJtreeMPI -----------------------------
(***************************************************************************)
(* Three processes on a tree of four cliques, 3 - 0 - 1 - 2.  The large    *)
(* nodes D and E make DivideNodes cut it at both ends when they are hidden *)
(* (then the route to clique 2 passes through clique 1, which is another   *)
(* process's) and into two parts, for BalanceTree, when one is observed.   *)
(***************************************************************************)
EXTENDS ParJtreeMPI

MCNode == {"A", "B", "C", "D", "E"}
MCContent == [c \in 0 .. 3 |-> CASE c = 0 -> {"A", "B"} [] c = 1 -> {"B", "C"}
                                 [] c = 2 -> {"C", "D"} [] c = 3 -> {"A", "E"}]
MCFactor == {"ab", "c", "d", "e"}
MCDomain == [f \in MCFactor |-> CASE f = "ab" -> {"A", "B"} [] f = "c" -> {"B", "C"}
                                  [] f = "d" -> {"C", "D"} [] f = "e" -> {"A", "E"}]

MCNodeSize == [n \in MCNode |-> IF n \in {"D", "E"} THEN 12 ELSE 2]
ThirdAndFirst == <<2, 0>>
MCEvidence == {{}, {"A"}, {"A", "D", "E"}, MCNode}
===============================================================================
