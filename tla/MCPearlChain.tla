----------------------------- MODULE MCPearlChain -----------------------------
(* One model whose only news, after a while, is at an observed node.             *)
EXTENDS PearlResult

\* Two observed nodes with three links between them, and two nodes behind the
\* second one, a child of both sides: 0 -> 1 -> 2 -> 5 <- 3 -> 4.
ChainProblems ==
  {[model |-> [type |-> "BNet", links |-> {<<0, 1>>, <<1, 2>>, <<2, 5>>, <<3, 5>>, <<3, 4>>}],
    observed |-> O, telling |-> {}] : O \in SUBSET {0, 5} \ {{}}}
=============================================================================
