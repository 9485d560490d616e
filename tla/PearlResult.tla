------------------------------- MODULE PearlResult -------------------------------
(* What the result of Pearl's engines should be: the nodes that tell of n along a *)
(* path that is not blocked.  In a graph without loops a path is found by not      *)
(* turning back.                                                                   *)
EXTENDS Pearl

RECURSIVE WithAncestors(_, _)
WithAncestors(m, S) ==
  LET T == S \cup UNION {ParentsOf(m, n) : n \in S} IN IF T = S THEN S ELSE WithAncestors(m, T)

\* Whether a path may pass y from x to z
Open(p, x, y, z) ==
  IF {x, z} \subseteq ParentsOf(p.model, y) THEN y \in WithAncestors(p.model, p.observed)
  ELSE y \notin p.observed

RECURSIVE Walk(_, _)
Walk(p, R) ==
  LET T == R \cup {d \in Directions(p.model) :
                     \E b \in R : b[2] = d[1] /\ b[1] # d[2] /\ Open(p, b[1], d[1], d[2])}
  IN IF T = R THEN R ELSE Walk(p, T)

\* Evidence leaves a node to all sides, its own distribution not to its parents.
FirstSteps(p, s) ==
  {d \in Directions(p.model) :
     /\ d[1] = s
     /\ s \in p.observed \/ (s \in p.telling /\ d[2] \notin ParentsOf(p.model, s))}

ExactBelief(p, n) ==
  IF n \in p.observed THEN {n}
  ELSE {s \in Node : \E d \in Walk(p, FirstSteps(p, s)) : d[2] = n}
       \cup (IF p.model.type = "BNet" THEN Told(p, n) ELSE {})

\* When the distribution of every hidden node tells something, the test for
\* convergence does not stop too early: the result is exact, on the main process
\* for all nodes.  (ParallelProtocol, CollectBeliefsOnProcess)
ExactIfAllTell ==
  Finished /\ Hidden \subseteq problem.telling =>
    \A n \in Node : beliefs[Main][n] = ExactBelief(problem, n)

\* "the result of inference is exact, if the graph of the input model does not
\* have undirected loops in it"
ResultExact == Finished => \A n \in Node : beliefs[Main][n] = ExactBelief(problem, n)
=============================================================================
