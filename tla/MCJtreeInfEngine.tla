--------------------------- MODULE MCJtreeInfEngine ---------------------------
(***************************************************************************)
(* A Markov network of two parts.  The first is discrete: its tree         *)
(* branches at B, one of its potentials is a sparse table, and one lies on *)
(* B alone.  The second is one continuous clique, which BuildTreeStructure *)
(* hangs on the last link that it made.                                    *)
(***************************************************************************)
EXTENDS JtreeInfEngine

MCNode == {"A", "B", "C", "D", "E", "X", "Y"}
MCDiscrete == {"A", "B", "C", "D", "E"}
MCContent == [c \in 0 .. 4 |-> CASE c = 0 -> {"A", "B"} [] c = 1 -> {"B", "C"}
                                 [] c = 2 -> {"B", "D"} [] c = 3 -> {"D", "E"}
                                 [] c = 4 -> {"X", "Y"}]
MCFactor == {"b", "ab", "bc", "bd", "de", "xy"}
MCDomain == [f \in MCFactor |-> CASE f = "b" -> {"B"} [] f = "ab" -> {"A", "B"}
                                 [] f = "bc" -> {"B", "C"} [] f = "bd" -> {"B", "D"}
                                 [] f = "de" -> {"D", "E"} [] f = "xy" -> {"X", "Y"}]
MCSparse == {"de"}
MCEvidence == {{"C", "Y"}, {"A", "B"}}
MCQuery == {{"D"}, {"A", "E"}, {"A", "X"}}
===============================================================================
