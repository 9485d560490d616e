----------------------------- MODULE MCParJtreeOMP -----------------------------
(***************************************************************************)
(* Two threads on a tree of four cliques that branches at clique 1: the    *)
(* root has a child with two children of its own, so that both queues hold *)
(* several cliques and two children compete for one parent.  Evidence on A *)
(* and B leaves a continuous tree, evidence on C, D and E a discrete one,  *)
(* and with evidence on B alone the engine meets both kinds.               *)
(***************************************************************************)
EXTENDS ParJtreeOMP

MCNode == {"A", "B", "C", "D", "E"}
MCContent == [c \in 0 .. 3 |-> CASE c = 0 -> {"A", "B"} [] c = 1 -> {"B", "C"}
                                 [] c = 2 -> {"C", "D"} [] c = 3 -> {"C", "E"}]
MCFactor == {"ab", "c", "d", "e"}
MCDomain == [f \in MCFactor |-> CASE f = "ab" -> {"A", "B"} [] f = "c" -> {"B", "C"}
                                  [] f = "d" -> {"C", "D"} [] f = "e" -> {"C", "E"}]
MCEvidence == {{"B"}, {"A", "B"}, {"C", "D", "E"}, MCNode}
===============================================================================
