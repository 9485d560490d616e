------------------------------ MODULE PearlMessages ------------------------------
(* The messages of Pearl's propagation (CPearlInfEngine::ComputeMessage,          *)
(* ComputeBelief) on a model without loops.  A message is modelled by the set of   *)
(* nodes whose evidence or whose own distribution it depends on; the uniform       *)
(* message is the empty set.                                                       *)
EXTENDS Integers, FiniteSets

CONSTANT N   \* number of nodes

ASSUME PearlMessagesAssumption == N \in Nat /\ N >= 2

Node == 0 .. N-1

\* A model: "BNet", whose links lead from a parent to a child with a larger
\* number, or "MRF2".
ParentsOf(m, n) == IF m.type = "BNet" THEN {p \in Node : <<p, n>> \in m.links} ELSE {}
ChildrenOf(m, n) == IF m.type = "BNet" THEN {c \in Node : <<n, c>> \in m.links} ELSE {}

Directions(m) == m.links \cup {<<e[2], e[1]>> : e \in m.links}
NeighborsOf(m, n) == {k \in Node : <<n, k>> \in Directions(m)}

\* The messages to n from the nodes of S; in[<<k, n>>] is the message from k to n.
From(in, S, n) == UNION {in[<<k, n>>] : k \in S}

\* What tells of n by itself: its observed value, or its distribution where that
\* is not uniform for uniform parents (for an MRF2: where its messages are not).
\* A problem p holds the model, the observed nodes and the telling ones.
SelfMessage(p, n) == IF n \in p.observed THEN {n} ELSE {}
Told(p, n) == IF n \in p.telling THEN {n} ELSE {}

\* An observed node sends and believes its value, whatever it received.
ComputeProductPi(p, in, n) ==
  IF p.model.type = "BNet" THEN Told(p, n) \cup From(in, ParentsOf(p.model, n), n) ELSE {}

\* Mutant: the message of the node that is sent to is multiplied in.
MutAllLambdas(p, in, n, except) ==
  IF n \in p.observed THEN {n} ELSE From(in, NeighborsOf(p.model, n) \ ParentsOf(p.model, n), n)

ProductLambdaMsgs(p, in, n, except) ==
  IF n \in p.observed THEN {n}
  ELSE From(in, (NeighborsOf(p.model, n) \ ParentsOf(p.model, n)) \ {except}, n)

NoNode == -1

\* The message of source to destination: to a child, to a parent (where the
\* parents are summed out with a uniform function, it is uniform), to a neighbour.
ComputeMessage(p, in, source, destination) ==
  LET lambda == ProductLambdaMsgs(p, in, source, destination) IN
  IF source \in p.observed /\ destination \notin ParentsOf(p.model, source) THEN {source} ELSE
  CASE destination \in ChildrenOf(p.model, source) -> ComputeProductPi(p, in, source) \cup lambda
    [] destination \in ParentsOf(p.model, source) ->
         IF lambda = {} THEN {}
         ELSE lambda \cup From(in, ParentsOf(p.model, source) \ {destination}, source)
    [] OTHER -> Told(p, source) \cup lambda

ComputeBelief(p, in, n) ==
  IF n \in p.observed THEN {n}
  ELSE ComputeProductPi(p, in, n) \cup ProductLambdaMsgs(p, in, n, NoNode)

Uniform(m) == [d \in Directions(m) |-> {}]

\* m_beliefs after InitMessages
FirstBeliefs(p) == [n \in Node |-> SelfMessage(p, n)]

\* The messages that the nodes of S send
MessagesOf(p, in, S) ==
  [d \in {e \in Directions(p.model) : e[1] \in S} |-> ComputeMessage(p, in, d[1], d[2])]
=============================================================================
