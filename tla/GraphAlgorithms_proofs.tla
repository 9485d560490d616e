------------------------- MODULE GraphAlgorithms_proofs -------------------------
(* The algorithms on graphs, for every number of nodes.  Structure learning     *)
(* (StructLearn): for every number of slices, node types, limit of parents and *)
(* graph of the prior slice, first the moves of a DAG and its matrix of        *)
(* ancestors, then the searches.  Construction of a junction tree (JtreeBuild): *)
(* for every model and every wanted clique, the maximum cardinality search,    *)
(* the triangulation, the links, and why a chordal graph is never triangulated. *)
(* Queries (Graph): the topological order and the d-connections of every        *)
(* acyclic graph.                                                               *)
EXTENDS StructLearn, JtreeBuild, Graph, FiniteSetTheorems, WellFoundedInduction, TLAPS

-----------------------------------------------------------------------------
(* Ancestors.                                                                 *)

\* The ancestors of a node are nodes, among them its parents.
LEMMA AncestorsType ==
  ASSUME NEW par \in [Node -> SUBSET Node], NEW n \in Node
  PROVE  /\ AncestorsIn(par, n) \subseteq Node
         /\ par[n] \subseteq AncestorsIn(par, n)
  BY DEF AncestorsIn

\* The parents of an ancestor are ancestors.
LEMMA AncestorsClosed ==
  ASSUME NEW par \in [Node -> SUBSET Node], NEW n \in Node
  PROVE  ClosedIn(par, AncestorsIn(par, n))
  BY DEF AncestorsIn, ClosedIn

\* Every closed set with the parents of a node has its ancestors.
LEMMA AncestorsLeast ==
  ASSUME NEW par \in [Node -> SUBSET Node], NEW n \in Node,
         NEW S \in SUBSET Node, par[n] \subseteq S, ClosedIn(par, S)
  PROVE  AncestorsIn(par, n) \subseteq S
  BY DEF AncestorsIn

\* The ancestors of an ancestor are ancestors.
LEMMA AncestorsTransitive ==
  ASSUME NEW par \in [Node -> SUBSET Node], NEW n \in Node, NEW a \in AncestorsIn(par, n)
  PROVE  AncestorsIn(par, a) \subseteq AncestorsIn(par, n)
<1>1. a \in Node /\ AncestorsIn(par, n) \in SUBSET Node
  BY AncestorsType
<1>2. par[a] \subseteq AncestorsIn(par, n)
  BY AncestorsClosed DEF ClosedIn
<1> QED
  BY <1>1, <1>2, AncestorsClosed, AncestorsLeast

\* The ancestors of a node are its parents and their ancestors.
LEMMA AncestorsByParents ==
  ASSUME NEW par \in [Node -> SUBSET Node], NEW n \in Node
  PROVE  AncestorsIn(par, n) = par[n] \cup UNION {AncestorsIn(par, p) : p \in par[n]}
<1> DEFINE S == par[n] \cup UNION {AncestorsIn(par, p) : p \in par[n]}
<1>1. \A p \in par[n] : p \in Node /\ AncestorsIn(par, p) \subseteq Node
  BY AncestorsType
<1>2. S \in SUBSET Node /\ par[n] \subseteq S
  BY <1>1
<1>3. ClosedIn(par, S)
  <2> SUFFICES ASSUME NEW x \in S PROVE par[x] \subseteq S
    BY DEF ClosedIn
  <2>1. CASE x \in par[n]
    BY <2>1, <1>1, AncestorsType
  <2>2. CASE \E p \in par[n] : x \in AncestorsIn(par, p)
    <3>1. PICK p \in par[n] : x \in AncestorsIn(par, p)
      BY <2>2
    <3>2. par[x] \subseteq AncestorsIn(par, p)
      BY <3>1, <1>1, AncestorsClosed DEF ClosedIn
    <3> QED
      BY <3>2
  <2> QED
    BY <2>1, <2>2
<1>4. AncestorsIn(par, n) \subseteq S
  BY <1>2, <1>3, AncestorsLeast
<1>5. \A p \in par[n] : p \in AncestorsIn(par, n) /\ AncestorsIn(par, p) \subseteq AncestorsIn(par, n)
  BY AncestorsType, AncestorsTransitive
<1> QED
  BY <1>4, <1>5

\* With more parents a node has more ancestors.
LEMMA AncestorsMonotone ==
  ASSUME NEW par \in [Node -> SUBSET Node], NEW more \in [Node -> SUBSET Node],
         \A x \in Node : par[x] \subseteq more[x], NEW n \in Node
  PROVE  AncestorsIn(par, n) \subseteq AncestorsIn(more, n)
<1>1. par[n] \subseteq AncestorsIn(more, n)
  BY AncestorsType
<1>2. ClosedIn(par, AncestorsIn(more, n)) /\ AncestorsIn(more, n) \in SUBSET Node
  BY AncestorsClosed, AncestorsType DEF ClosedIn
<1> QED
  BY <1>1, <1>2, AncestorsLeast

\* Below a node, every node has a child of it as an ancestor or is one.
LEMMA ChildOnTheWay ==
  ASSUME NEW par \in [Node -> SUBSET Node], NEW h \in Node, NEW n \in Node,
         h \in AncestorsIn(par, n)
  PROVE  \/ h \in par[n]
         \/ \E c \in AncestorsIn(par, n) : h \in par[c]
<1> SUFFICES ASSUME h \notin par[n], \A c \in AncestorsIn(par, n) : h \notin par[c]
             PROVE  FALSE
  OBVIOUS
<1> DEFINE S == AncestorsIn(par, n) \ {h}
<1>1. S \in SUBSET Node /\ par[n] \subseteq S
  BY AncestorsType
<1>2. ClosedIn(par, S)
  BY AncestorsClosed DEF ClosedIn
<1>3. AncestorsIn(par, n) \subseteq S
  BY <1>1, <1>2, AncestorsLeast
<1> QED
  BY <1>3

\* A node that does not descend from j keeps its ancestors whatever happens to the
\* parents of j.
LEMMA AncestorsUnaffected ==
  ASSUME NEW par \in [Node -> SUBSET Node], NEW less \in [Node -> SUBSET Node],
         NEW j \in Node, \A x \in Node : x # j => less[x] = par[x],
         NEW n \in Node, n # j, j \notin AncestorsIn(less, n)
  PROVE  AncestorsIn(par, n) \subseteq AncestorsIn(less, n)
<1>1. par[n] \subseteq AncestorsIn(less, n)
  BY AncestorsType
<1>2. ClosedIn(par, AncestorsIn(less, n)) /\ AncestorsIn(less, n) \in SUBSET Node
  BY AncestorsClosed, AncestorsType DEF ClosedIn
<1> QED
  BY <1>1, <1>2, AncestorsLeast

-----------------------------------------------------------------------------
(* One edge more or less.                                                     *)

WithEdge(par, i, j) == [par EXCEPT ![j] = @ \cup {i}]
WithoutEdge(par, i, j) == [par EXCEPT ![j] = @ \ {i}]

\* An edge from i to j gives j and its descendants i and the ancestors of i.
LEMMA AncestorsWithEdge ==
  ASSUME NEW par \in [Node -> SUBSET Node], NEW i \in Node, NEW j \in Node, NEW n \in Node
  PROVE  AncestorsIn(WithEdge(par, i, j), n) =
           IF n = j \/ j \in AncestorsIn(par, n)
           THEN AncestorsIn(par, n) \cup AncestorsIn(par, j) \cup {i} \cup AncestorsIn(par, i)
           ELSE AncestorsIn(par, n)
<1> DEFINE more == WithEdge(par, i, j)
           Below == n = j \/ j \in AncestorsIn(par, n)
           All == AncestorsIn(par, n) \cup AncestorsIn(par, j) \cup {i} \cup AncestorsIn(par, i)
           S == IF Below THEN All ELSE AncestorsIn(par, n)
<1>1. /\ more \in [Node -> SUBSET Node]
      /\ \A x \in Node : more[x] = IF x = j THEN par[x] \cup {i} ELSE par[x]
  BY DEF WithEdge
<1>2. S \in SUBSET Node
  BY AncestorsType
<1>3. more[n] \subseteq S
  BY <1>1, AncestorsType
<1>4. ClosedIn(more, S)
  <2> SUFFICES ASSUME NEW x \in S PROVE more[x] \subseteq S
    BY DEF ClosedIn
  <2>1. x \in Node
    BY <1>2
  <2>2. par[x] \subseteq S
    <3>1. \A y \in {n, i, j} : x \in AncestorsIn(par, y) => par[x] \subseteq AncestorsIn(par, y)
      BY AncestorsClosed DEF ClosedIn
    <3>2. par[i] \subseteq AncestorsIn(par, i)
      BY AncestorsType
    <3> QED
      BY <3>1, <3>2
  <2>3. x = j => i \in S
    OBVIOUS
  <2> HIDE DEF S, more
  <2> QED
    BY <1>1, <2>1, <2>2, <2>3
<1>5. AncestorsIn(more, n) \subseteq S
  <2> HIDE DEF S, more
  <2> QED
    BY <1>1, <1>2, <1>3, <1>4, AncestorsLeast
<1>6. \A x \in Node : AncestorsIn(par, x) \subseteq AncestorsIn(more, x)
  <2> HIDE DEF more
  <2>1. \A x \in Node : par[x] \subseteq more[x]
    BY <1>1
  <2> QED
    BY <1>1, <2>1, AncestorsMonotone
<1>7. i \in AncestorsIn(more, j)
  <2> HIDE DEF more
  <2> QED
    BY <1>1, AncestorsType
<1>8. AncestorsIn(more, i) \subseteq AncestorsIn(more, j)
  <2> HIDE DEF more
  <2> QED
    BY <1>1, <1>7, AncestorsTransitive
<1>9. Below => AncestorsIn(more, j) \subseteq AncestorsIn(more, n)
  <2> HIDE DEF more
  <2>1. CASE n = j
    BY <2>1
  <2>2. CASE j \in AncestorsIn(par, n)
    BY <2>2, <1>1, <1>6, AncestorsTransitive
  <2> QED
    BY <2>1, <2>2
<1>10. S \subseteq AncestorsIn(more, n)
  <2> HIDE DEF more
  <2> QED
    BY <1>6, <1>7, <1>8, <1>9
<1> QED
  BY <1>5, <1>10

\* An edge keeps a graph acyclic exactly if its end is not above its start.
LEMMA AcyclicWithEdge ==
  ASSUME NEW par \in [Node -> SUBSET Node], NEW i \in Node, NEW j \in Node, AcyclicIn(par)
  PROVE  AcyclicIn(WithEdge(par, i, j)) <=> i # j /\ j \notin AncestorsIn(par, i)
<1> DEFINE more == WithEdge(par, i, j)
<1>1. ASSUME i # j, j \notin AncestorsIn(par, i) PROVE AcyclicIn(more)
  <2> SUFFICES ASSUME NEW n \in Node, n \in AncestorsIn(more, n) PROVE FALSE
    BY DEF AcyclicIn
  <2>1. n \notin AncestorsIn(par, n) /\ j \notin AncestorsIn(par, j)
    BY DEF AcyclicIn
  <2>2. /\ n = j \/ j \in AncestorsIn(par, n)
        /\ n \in AncestorsIn(par, j) \cup {i} \cup AncestorsIn(par, i)
    BY <2>1, AncestorsWithEdge
  <2>3. CASE n \in AncestorsIn(par, j)
    BY <2>1, <2>2, <2>3, AncestorsTransitive
  <2>4. CASE n = i
    BY <1>1, <2>2, <2>4
  <2>5. CASE n \in AncestorsIn(par, i)
    BY <1>1, <2>2, <2>5, AncestorsTransitive
  <2> QED
    BY <2>2, <2>3, <2>4, <2>5
<1>2. ASSUME i = j \/ j \in AncestorsIn(par, i) PROVE ~ AcyclicIn(more)
  <2>1. i \in AncestorsIn(more, i)
    BY <1>2, AncestorsWithEdge
  <2> QED
    BY <2>1 DEF AcyclicIn
<1> QED
  BY <1>1, <1>2

\* A graph without an edge is acyclic, and what is not below the end of the edge
\* keeps its ancestors.
LEMMA AncestorsWithoutEdge ==
  ASSUME NEW par \in [Node -> SUBSET Node], NEW i \in Node, NEW j \in Node
  PROVE  /\ \A n \in Node : AncestorsIn(WithoutEdge(par, i, j), n) \subseteq AncestorsIn(par, n)
         /\ AcyclicIn(par) => AcyclicIn(WithoutEdge(par, i, j))
         /\ \A n \in Node : \/ n = j
                            \/ j \in AncestorsIn(WithoutEdge(par, i, j), n)
                            \/ AncestorsIn(WithoutEdge(par, i, j), n) = AncestorsIn(par, n)
<1> DEFINE less == WithoutEdge(par, i, j)
<1>1. /\ less \in [Node -> SUBSET Node]
      /\ \A x \in Node : less[x] = IF x = j THEN par[x] \ {i} ELSE par[x]
  BY DEF WithoutEdge
<1> HIDE DEF less
<1>2. \A x \in Node : less[x] \subseteq par[x]
  BY <1>1
<1>3. \A n \in Node : AncestorsIn(less, n) \subseteq AncestorsIn(par, n)
  BY <1>1, <1>2, AncestorsMonotone
<1>4. AcyclicIn(par) => AcyclicIn(less)
  BY <1>3 DEF AcyclicIn
<1>5. \A n \in Node : n # j /\ j \notin AncestorsIn(less, n) => AncestorsIn(par, n) \subseteq AncestorsIn(less, n)
  BY <1>1, AncestorsUnaffected
<1> QED
  BY <1>3, <1>4, <1>5 DEF less

-----------------------------------------------------------------------------
(* The inductive invariant of the moves.                                      *)

\* The nodes that the queue still has to visit.
Queued(q) == {q[k] : k \in DOMAIN q}

\* The row of every node has all its ancestors.
MatrixCovers == \A n \in Node : AncestorsIn(parents, n) \subseteq anc[n]

\* A row with more than the ancestors belongs to a node in the queue, or below one.
StaleBelowQueue ==
  \A n \in Node : anc[n] # AncestorsIn(parents, n) =>
    n \in Queued(queue) \/ AncestorsIn(parents, n) \cap Queued(queue) # {}

\* The edge that a reversal has still to add closes no cycle.
ReversalFits == \A e \in toAdd : e[1] # e[2] /\ e[2] \notin AncestorsIn(parents, e[1])

DAGInv == DAGTypeOK /\ StaysDAG /\ MatrixCovers /\ StaleBelowQueue /\ ReversalFits

\* When the queue is empty the matrix is exact.
LEMMA ExactWhenQueueEmpty ==
  ASSUME DAGInv, queue = <<>>
  PROVE  /\ \A n \in Node : anc[n] = AncestorsIn(parents, n)
         /\ MatrixExact
<1>1. Queued(queue) = {}
  BY DEF Queued
<1>2. \A n \in Node : anc[n] = AncestorsIn(parents, n)
  BY <1>1 DEF DAGInv, StaleBelowQueue
<1>3. anc = [n \in Node |-> AncestorsIn(parents, n)]
  BY <1>2 DEF DAGInv, DAGTypeOK
<1> QED
  BY <1>2, <1>3 DEF MatrixExact, CreateAncestorMatrix

\* The nodes in a queue from which the first is taken and some are added.
LEMMA QueueSteps ==
  ASSUME NEW q \in Seq(Node), NEW s \in Seq(Node), q # <<>>
  PROVE  /\ Head(q) \in Node
         /\ Tail(q) \o s \in Seq(Node)
         /\ Queued(Tail(q) \o s) = Queued(Tail(q)) \cup Queued(s)
         /\ Queued(q) = {Head(q)} \cup Queued(Tail(q))
<1>1. Head(q) \in Node /\ Tail(q) \in Seq(Node) /\ Tail(q) \o s \in Seq(Node)
  OBVIOUS
<1>2. ASSUME NEW t \in Seq(Node) PROVE Queued(t \o s) = Queued(t) \cup Queued(s)
  <2>1. /\ Len(t) \in Nat /\ Len(s) \in Nat /\ Len(t \o s) = Len(t) + Len(s)
        /\ DOMAIN t = 1 .. Len(t) /\ DOMAIN s = 1 .. Len(s) /\ DOMAIN (t \o s) = 1 .. Len(t) + Len(s)
        /\ \A k \in 1 .. Len(t) + Len(s) : (t \o s)[k] = IF k <= Len(t) THEN t[k] ELSE s[k - Len(t)]
    OBVIOUS
  <2>2. \A k \in DOMAIN t : k \in DOMAIN (t \o s) /\ (t \o s)[k] = t[k]
    BY <2>1
  <2>3. \A k \in DOMAIN s : Len(t) + k \in DOMAIN (t \o s) /\ (t \o s)[Len(t) + k] = s[k]
    BY <2>1
  <2>4. \A k \in DOMAIN (t \o s) : \/ k \in DOMAIN t /\ (t \o s)[k] = t[k]
                                   \/ k - Len(t) \in DOMAIN s /\ (t \o s)[k] = s[k - Len(t)]
    BY <2>1
  <2> DEFINE u == t \o s
  <2>5. /\ \A k \in DOMAIN t : k \in DOMAIN u /\ u[k] = t[k]
        /\ \A k \in DOMAIN s : Len(t) + k \in DOMAIN u /\ u[Len(t) + k] = s[k]
        /\ \A k \in DOMAIN u : \/ k \in DOMAIN t /\ u[k] = t[k]
                               \/ k - Len(t) \in DOMAIN s /\ u[k] = s[k - Len(t)]
    BY <2>2, <2>3, <2>4
  <2> HIDE DEF u
  <2>6. Queued(u) = Queued(t) \cup Queued(s)
    <3>1. ASSUME NEW x \in Queued(u) PROVE x \in Queued(t) \cup Queued(s)
      BY <2>5, <3>1 DEF Queued
    <3>2. ASSUME NEW x \in Queued(t) PROVE x \in Queued(u)
      BY <2>5, <3>2 DEF Queued
    <3>3. ASSUME NEW x \in Queued(s) PROVE x \in Queued(u)
      BY <2>5, <3>3 DEF Queued
    <3> QED
      BY <3>1, <3>2, <3>3
  <2> QED
    BY <2>6 DEF u
<1>3. Queued(q) = {Head(q)} \cup Queued(Tail(q))
  <2>1. /\ Len(q) \in Nat \ {0} /\ DOMAIN q = 1 .. Len(q) /\ Head(q) = q[1]
        /\ DOMAIN Tail(q) = 1 .. Len(q) - 1
        /\ \A k \in 1 .. Len(q) - 1 : Tail(q)[k] = q[k + 1]
    OBVIOUS
  <2>2. \A k \in DOMAIN q : k = 1 \/ (k - 1 \in DOMAIN Tail(q) /\ q[k] = Tail(q)[k - 1])
    BY <2>1
  <2>3. \A k \in DOMAIN Tail(q) : k + 1 \in DOMAIN q /\ Tail(q)[k] = q[k + 1]
    BY <2>1
  <2>4. ASSUME NEW x \in Queued(q) PROVE x \in {Head(q)} \cup Queued(Tail(q))
    BY <2>1, <2>2, <2>4 DEF Queued
  <2>5. ASSUME NEW x \in Queued(Tail(q)) PROVE x \in Queued(q)
    BY <2>3, <2>5 DEF Queued
  <2>6. Head(q) \in Queued(q)
    BY <2>1 DEF Queued
  <2> QED
    BY <2>4, <2>5, <2>6
<1> QED
  BY <1>1, <1>2, <1>3

-----------------------------------------------------------------------------
(* The steps of a move.                                                       *)

\* AddEdge makes an edge known at both ends, or finds it there.
LEMMA AddEdgeParents ==
  ASSUME DAGInv, NEW i \in Node, NEW j \in Node, i # j, j \notin AncestorsIn(parents, i),
         AddEdge(i, j)
  PROVE  /\ parents' = WithEdge(parents, i, j)
         /\ parents' \in [Node -> SUBSET Node]
         /\ children' \in [Node -> SUBSET Node]
         /\ \A x, y \in Node : x \in parents'[y] <=> y \in children'[x]
<1> USE DEF DAGInv, DAGTypeOK
<1>1. j \notin parents[i]
  BY AncestorsType
<1>2. \A x, y \in Node : x \in parents[y] <=> y \in children[x]
  BY DEF StaysDAG
<1>3. /\ j \in Neighbors(i) <=> j \in children[i]
      /\ i \in Neighbors(j) <=> i \in parents[j]
      /\ i \in parents[j] <=> j \in children[i]
  BY <1>1, <1>2 DEF Neighbors
<1>4. /\ parents' = WithEdge(parents, i, j)
      /\ children' = [children EXCEPT ![i] = @ \cup {j}]
  <2>1. CASE j \in children[i]
    BY <2>1, <1>3 DEF AddEdge, WithEdge
  <2>2. CASE j \notin children[i]
    BY <2>2, <1>3 DEF AddEdge, WithEdge
  <2> QED
    BY <2>1, <2>2
<1>5. /\ parents' \in [Node -> SUBSET Node]
      /\ children' \in [Node -> SUBSET Node]
  BY <1>4 DEF WithEdge
<1>6. \A x, y \in Node : x \in parents'[y] <=> y \in children'[x]
  BY <1>4, <1>2 DEF WithEdge
<1> QED
  BY <1>4, <1>5, <1>6

\* Adding an edge to a matrix that is exact keeps it exact.
LEMMA AddStep ==
  ASSUME DAGInv, queue = <<>>, NEW i \in Node, NEW j \in Node, i # j,
         j \notin AncestorsIn(parents, i),
         AddEdge(i, j), anc' = AddAncestors(anc, i, j), queue' = queue, toAdd' = {}
  PROVE  DAGInv' /\ parents' = WithEdge(parents, i, j)
<1>1. /\ parents' = WithEdge(parents, i, j)
      /\ parents' \in [Node -> SUBSET Node]
      /\ children' \in [Node -> SUBSET Node]
      /\ \A x, y \in Node : x \in parents'[y] <=> y \in children'[x]
  BY AddEdgeParents
<1>2. /\ parents \in [Node -> SUBSET Node] /\ anc \in [Node -> SUBSET Node]
      /\ AcyclicIn(parents)
  BY DEF DAGInv, DAGTypeOK, StaysDAG
<1>3. AcyclicIn(parents')
  BY <1>1, <1>2, AcyclicWithEdge
<1>4. \A n \in Node : anc[n] = AncestorsIn(parents, n)
  BY ExactWhenQueueEmpty
<1>5. anc' \in [Node -> SUBSET Node]
  BY <1>2 DEF AddAncestors
<1>6. \A n \in Node : anc'[n] = AncestorsIn(parents', n)
  <2> SUFFICES ASSUME NEW n \in Node PROVE anc'[n] = AncestorsIn(WithEdge(parents, i, j), n)
    BY <1>1
  <2>1. anc'[n] = IF n = j \/ j \in anc[n] THEN anc[n] \cup anc[j] \cup {i} \cup anc[i] ELSE anc[n]
    BY DEF AddAncestors
  <2> QED
    BY <2>1, <1>2, <1>4, AncestorsWithEdge
<1>7. (DAGTypeOK /\ StaysDAG)'
  BY <1>1, <1>3, <1>5 DEF DAGInv, DAGTypeOK, StaysDAG
<1>8. (MatrixCovers /\ StaleBelowQueue /\ ReversalFits)'
  BY <1>6 DEF MatrixCovers, StaleBelowQueue, ReversalFits
<1> QED
  BY <1>1, <1>7, <1>8 DEF DAGInv

\* Removing an edge leaves only the rows of its end, and of what is below it, with
\* too much.
LEMMA RemoveStep ==
  ASSUME DAGInv, queue = <<>>, NEW i \in Node, NEW j \in Node,
         RemoveEdge(i, j), anc' = anc, queue' = <<j>>,
         \/ toAdd' = {}
         \/ toAdd' = {<<j, i>>} /\ i # j /\ \A p \in parents[j] : p # i => i \notin anc[p]
  PROVE  DAGInv' /\ parents' = WithoutEdge(parents, i, j)
<1>1. /\ parents \in [Node -> SUBSET Node] /\ children \in [Node -> SUBSET Node]
      /\ anc \in [Node -> SUBSET Node]
      /\ AcyclicIn(parents)
      /\ \A x, y \in Node : x \in parents[y] <=> y \in children[x]
  BY DEF DAGInv, DAGTypeOK, StaysDAG
<1>2. /\ parents' = WithoutEdge(parents, i, j)
      /\ parents' \in [Node -> SUBSET Node]
      /\ children' \in [Node -> SUBSET Node]
      /\ \A x, y \in Node : x \in parents'[y] <=> y \in children'[x]
      /\ parents'[j] = parents[j] \ {i}
  BY <1>1 DEF RemoveEdge, WithoutEdge
<1>3. /\ AcyclicIn(parents')
      /\ \A n \in Node : AncestorsIn(parents', n) \subseteq AncestorsIn(parents, n)
      /\ \A n \in Node : n = j \/ j \in AncestorsIn(parents', n)
                           \/ AncestorsIn(parents', n) = AncestorsIn(parents, n)
  BY <1>1, <1>2, AncestorsWithoutEdge
<1>4. \A n \in Node : anc[n] = AncestorsIn(parents, n)
  BY ExactWhenQueueEmpty
<1>5. queue' \in Seq(Node) /\ Queued(queue') = {j}
  BY DEF Queued
<1>6. (DAGTypeOK /\ StaysDAG)'
  BY <1>1, <1>2, <1>3, <1>5 DEF DAGTypeOK, StaysDAG
<1>7. MatrixCovers'
  BY <1>3, <1>4 DEF MatrixCovers
<1>8. StaleBelowQueue'
  BY <1>3, <1>4, <1>5 DEF StaleBelowQueue
<1>9. ReversalFits'
  <2> SUFFICES ASSUME toAdd' = {<<j, i>>}, i # j, \A p \in parents[j] : p # i => i \notin anc[p]
               PROVE  i \notin AncestorsIn(parents', j)
    BY DEF ReversalFits
  <2>1. \A p \in parents'[j] : p \in Node /\ i \notin AncestorsIn(parents', p)
    BY <1>2, <1>3, <1>4
  <2>2. i \notin parents'[j]
    BY <1>2
  <2> QED
    BY <2>1, <2>2, <1>2, AncestorsByParents
<1> QED
  BY <1>2, <1>6, <1>7, <1>8, <1>9 DEF DAGInv

\* A visit makes the row of a node exact unless one of its parents, or a node above
\* it, is still to be visited.
LEMMA QueueStep ==
  ASSUME DAGInv, UpdateRemoveNodes
  PROVE  DAGInv'
<1> DEFINE h == Head(queue)
<1>1. PICK s \in Listings(children[h]) : queue' = Tail(queue) \o s
  BY DEF UpdateRemoveNodes
<1>2. /\ queue # <<>> /\ queue \in Seq(Node)
      /\ parents' = parents /\ children' = children /\ toAdd' = toAdd
      /\ anc' = [anc EXCEPT ![h] = RowFromParents(h)]
      /\ parents \in [Node -> SUBSET Node] /\ children \in [Node -> SUBSET Node]
      /\ anc \in [Node -> SUBSET Node] /\ toAdd \subseteq Node \X Node
      /\ AcyclicIn(parents)
      /\ \A x, y \in Node : x \in parents[y] <=> y \in children[x]
  BY DEF UpdateRemoveNodes, DAGInv, DAGTypeOK, StaysDAG, graph
<1>3. h \in Node
  BY <1>2
<1> HIDE DEF h
<1>4. s \in Seq(Node) /\ children[h] \subseteq Queued(s)
  <2>1. s \in [1 .. Cardinality(children[h]) -> children[h]] /\ \A x \in children[h] : \E k \in DOMAIN s : s[k] = x
    BY DEF Listings
  <2>2. children[h] \subseteq Node /\ IsFiniteSet(children[h])
    <3>1. children[h] \in SUBSET Node
      BY <1>2, <1>3
    <3>2. IsFiniteSet(Node)
      BY NodesAssumption, FS_Interval DEF NodesAssumption, Node
    <3> QED
      BY <3>1, <3>2, FS_Subset
  <2>3. Cardinality(children[h]) \in Nat
    BY <2>2, FS_CardinalityType
  <2>4. s \in Seq(Node)
    BY <2>1, <2>2, <2>3
  <2>5. children[h] \subseteq Queued(s)
    BY <2>1 DEF Queued
  <2> QED
    BY <2>4, <2>5
<1>5. /\ queue' \in Seq(Node)
      /\ Queued(queue) \ {h} \subseteq Queued(queue')
      /\ children[h] \subseteq Queued(queue')
  BY <1>1, <1>2, <1>4, QueueSteps DEF h
<1>6. RowFromParents(h) = parents[h] \cup UNION {anc[p] : p \in parents[h]}
  BY DEF RowFromParents
<1>7. AncestorsIn(parents, h) = parents[h] \cup UNION {AncestorsIn(parents, p) : p \in parents[h]}
  BY <1>2, <1>3, AncestorsByParents
<1>8. \A p \in parents[h] : p \in Node /\ p # h /\ h \notin AncestorsIn(parents, p)
  <2> SUFFICES ASSUME NEW p \in parents[h]
               PROVE  p \in Node /\ p # h /\ h \notin AncestorsIn(parents, p)
    OBVIOUS
  <2>1. p \in Node /\ p \in AncestorsIn(parents, h)
    BY <1>2, <1>3, AncestorsType
  <2>2. AncestorsIn(parents, p) \subseteq AncestorsIn(parents, h)
    BY <2>1, <1>2, <1>3, AncestorsTransitive
  <2> QED
    BY <2>1, <2>2, <1>2, <1>3 DEF AcyclicIn
<1>9. \A n \in Node : anc'[n] = IF n = h THEN RowFromParents(h) ELSE anc[n]
  BY <1>2, <1>3
<1>10. (DAGTypeOK /\ StaysDAG)'
  <2>1. RowFromParents(h) \subseteq Node
    BY <1>2, <1>3, <1>6
  <2> QED
    BY <2>1, <1>2, <1>5 DEF DAGTypeOK, StaysDAG
<1>11. MatrixCovers'
  BY <1>2, <1>6, <1>7, <1>8, <1>9 DEF MatrixCovers, DAGInv
<1>12. StaleBelowQueue'
  <2> SUFFICES ASSUME NEW n \in Node, anc'[n] # AncestorsIn(parents, n)
               PROVE  n \in Queued(queue') \/ AncestorsIn(parents, n) \cap Queued(queue') # {}
    BY <1>2 DEF StaleBelowQueue
  <2>1. CASE n = h
    <3>1. PICK p \in parents[h] : anc[p] # AncestorsIn(parents, p)
      BY <2>1, <1>6, <1>7, <1>9
    <3>2. p \in Queued(queue) \/ AncestorsIn(parents, p) \cap Queued(queue) # {}
      BY <3>1, <1>8 DEF DAGInv, StaleBelowQueue
    <3>3. p \in Queued(queue') \/ AncestorsIn(parents, p) \cap Queued(queue') # {}
      BY <3>2, <1>5, <1>8
    <3> QED
      BY <3>1, <3>3, <2>1, <1>7
  <2>2. CASE n # h
    <3>1. n \in Queued(queue) \/ AncestorsIn(parents, n) \cap Queued(queue) # {}
      BY <2>2, <1>9 DEF DAGInv, StaleBelowQueue
    <3>2. CASE h \in AncestorsIn(parents, n)
      <4>1. h \in parents[n] \/ \E c \in AncestorsIn(parents, n) : h \in parents[c]
        BY <3>2, <1>2, <1>3, ChildOnTheWay
      <4>2. AncestorsIn(parents, n) \subseteq Node
        BY <1>2, AncestorsType
      <4>3. \A c \in Node : h \in parents[c] => c \in Queued(queue')
        BY <1>2, <1>3, <1>5
      <4> QED
        BY <4>1, <4>2, <4>3
    <3>3. CASE h \notin AncestorsIn(parents, n)
      BY <3>1, <3>3, <2>2, <1>5
    <3> QED
      BY <3>2, <3>3
  <2> QED
    BY <2>1, <2>2
<1>13. ReversalFits'
  BY <1>2 DEF DAGInv, ReversalFits
<1> QED
  BY <1>10, <1>11, <1>12, <1>13 DEF DAGInv

\* The second half of a reversal.
LEMMA ReversalStep ==
  ASSUME DAGInv, AddReversed
  PROVE  /\ DAGInv'
         /\ toAdd' = {}
         /\ \E e \in toAdd : parents' = WithEdge(parents, e[1], e[2])
<1>1. PICK e \in toAdd : AddEdge(e[1], e[2]) /\ anc' = AddAncestors(anc, e[1], e[2])
  BY DEF AddReversed
<1>2. /\ e[1] \in Node /\ e[2] \in Node
      /\ e[1] # e[2] /\ e[2] \notin AncestorsIn(parents, e[1])
  BY DEF DAGInv, DAGTypeOK, ReversalFits
<1>3. queue = <<>> /\ queue' = queue /\ toAdd' = {}
  BY DEF AddReversed
<1> QED
  BY <1>1, <1>2, <1>3, AddStep

\* What DoMove does after its first step.
LEMMA ContinueStep ==
  ASSUME DAGInv, ContinueMove
  PROVE  /\ DAGInv'
         /\ \/ parents' = parents /\ toAdd' = toAdd
            \/ toAdd' = {} /\ \E e \in toAdd : parents' = WithEdge(parents, e[1], e[2])
<1>1. CASE UpdateRemoveNodes
  BY <1>1, QueueStep DEF UpdateRemoveNodes, graph
<1>2. CASE AddReversed
  BY <1>2, ReversalStep
<1> QED
  BY <1>1, <1>2 DEF ContinueMove

\* A move between two nodes, up to the walk over the descendants.
LEMMA MoveStep ==
  ASSUME DAGInv, Settled, NEW op \in EdgeOps, op.start # op.end, DoMove(op)
  PROVE  /\ DAGInv'
         /\ parents' = IF op.change = "ADD" THEN WithEdge(parents, op.start, op.end)
                       ELSE WithoutEdge(parents, op.start, op.end)
         /\ toAdd' = IF op.change = "REV" THEN {<<op.end, op.start>>} ELSE {}
<1> DEFINE i == op.start
           j == op.end
<1>1. i \in Node /\ j \in Node /\ op.change \in {"ADD", "DEL", "REV"}
  BY DEF EdgeOps
<1>2. queue = <<>> /\ toAdd = {} /\ IsValidMove(op)
  BY DEF Settled, DoMove
<1>3. CASE op.change = "ADD"
  <2>1. j \notin AncestorsIn(parents, i)
    BY <1>1, <1>2, <1>3 DEF IsValidMove, DAGInv, MatrixCovers
  <2>2. AddEdge(i, j) /\ anc' = AddAncestors(anc, i, j) /\ queue' = queue /\ toAdd' = {}
    BY <1>2, <1>3 DEF DoMove
  <2> QED
    BY <1>1, <1>2, <1>3, <2>1, <2>2, AddStep
<1>4. CASE op.change # "ADD"
  <2>1. /\ RemoveEdge(i, j) /\ anc' = anc /\ queue' = <<j>>
        /\ toAdd' = IF op.change = "REV" THEN {<<j, i>>} ELSE {}
    BY <1>4 DEF DoMove
  <2>2. op.change = "REV" => \A p \in parents[j] : p # i => i \notin anc[p]
    BY <1>2 DEF IsValidMove, IsValidRev
  <2> QED
    BY <1>1, <1>2, <1>4, <2>1, <2>2, RemoveStep
<1> QED
  BY <1>3, <1>4

\* What a step that leaves the graph alone keeps.
LEMMA MoveStutter ==
  ASSUME DAGInv, UNCHANGED dagVars
  PROVE  DAGInv'
  BY DEF DAGInv, DAGTypeOK, StaysDAG, MatrixCovers, StaleBelowQueue, ReversalFits, dagVars, graph

\* An edge more, node by node.
LEMMA WithEdgeAt ==
  ASSUME NEW par \in [Node -> SUBSET Node], NEW i \in Node, NEW j \in Node
  PROVE  /\ WithEdge(par, i, j) \in [Node -> SUBSET Node]
         /\ \A n \in Node : WithEdge(par, i, j)[n] = par[n] \cup IF n = j THEN {i} ELSE {}
  BY DEF WithEdge

\* An edge less, node by node.
LEMMA WithoutEdgeAt ==
  ASSUME NEW par \in [Node -> SUBSET Node], NEW i \in Node, NEW j \in Node
  PROVE  WithoutEdge(par, i, j) \in [Node -> SUBSET Node]
  BY DEF WithoutEdge

\* The parents after a move, by kinds of moves.
LEMMA ParentsAfterMove ==
  ASSUME DAGInv, NEW op \in EdgeOps
  PROVE  ParentsAfter(op) =
           CASE op.change = "ADD" -> WithEdge(parents, op.start, op.end)
             [] op.change = "DEL" -> WithoutEdge(parents, op.start, op.end)
             [] op.change = "REV" -> WithEdge(WithoutEdge(parents, op.start, op.end), op.end, op.start)
<1> DEFINE i == op.start
           j == op.end
<1>1. i \in Node /\ j \in Node /\ op.change \in {"ADD", "DEL", "REV"}
  BY DEF EdgeOps
<1>2. parents \in [Node -> SUBSET Node]
  BY DEF DAGInv, DAGTypeOK
<1>3. CASE op.change = "ADD"
  <2> DEFINE new(n) == {x \in Node : <<x, n>> \in {<<i, j>>}}
  <2>1. ParentsAfter(op) = [n \in Node |-> parents[n] \cup new(n)]
    BY <1>3 DEF ParentsAfter, NewEdge
  <2>2. \A n \in Node : new(n) = IF n = j THEN {i} ELSE {}
    BY <1>1
  <2> HIDE DEF new
  <2>3. /\ WithEdge(parents, i, j) \in [Node -> SUBSET Node]
        /\ \A n \in Node : WithEdge(parents, i, j)[n] = parents[n] \cup new(n)
    BY <1>1, <1>2, <2>2, WithEdgeAt
  <2>4. ParentsAfter(op) = WithEdge(parents, i, j)
    BY <2>1, <2>3
  <2> QED
    BY <1>3, <2>4
<1>4. CASE op.change = "DEL"
  <2> DEFINE new(n) == {x \in Node : <<x, n>> \in {}}
  <2>1. ParentsAfter(op) = [n \in Node |-> WithoutEdge(parents, i, j)[n] \cup new(n)]
    BY <1>4 DEF ParentsAfter, NewEdge, WithoutEdge
  <2>2. \A n \in Node : new(n) = {}
    OBVIOUS
  <2> HIDE DEF new
  <2>3. WithoutEdge(parents, i, j) \in [Node -> SUBSET Node]
    BY <1>1, <1>2, WithoutEdgeAt
  <2>4. ParentsAfter(op) = WithoutEdge(parents, i, j)
    BY <2>1, <2>2, <2>3
  <2> QED
    BY <1>4, <2>4
<1>5. CASE op.change = "REV"
  <2> DEFINE new(n) == {x \in Node : <<x, n>> \in {<<j, i>>}}
  <2>1. ParentsAfter(op) = [n \in Node |-> WithoutEdge(parents, i, j)[n] \cup new(n)]
    BY <1>5 DEF ParentsAfter, NewEdge, WithoutEdge
  <2>2. \A n \in Node : new(n) = IF n = i THEN {j} ELSE {}
    BY <1>1
  <2> HIDE DEF new
  <2> DEFINE less == WithoutEdge(parents, i, j)
  <2>3. less \in [Node -> SUBSET Node] /\ ParentsAfter(op) = [n \in Node |-> less[n] \cup new(n)]
    BY <1>1, <1>2, <2>1, WithoutEdgeAt
  <2> HIDE DEF less
  <2>4. /\ WithEdge(less, j, i) \in [Node -> SUBSET Node]
        /\ \A n \in Node : WithEdge(less, j, i)[n] = less[n] \cup IF n = i THEN {j} ELSE {}
    BY <1>1, <2>3, WithEdgeAt
  <2>5. \A n \in Node : WithEdge(less, j, i)[n] = less[n] \cup new(n)
    BY <2>2, <2>4
  <2> DEFINE back == WithEdge(less, j, i)
  <2>6. back = [n \in Node |-> back[n]]
    BY <2>4
  <2>7. \A n \in Node : back[n] = less[n] \cup new(n)
    BY <2>5
  <2> HIDE DEF back
  <2>8. ParentsAfter(op) = back
    BY <2>3, <2>6, <2>7
  <2> QED
    BY <1>5, <2>8 DEF less, back
<1> QED
  BY <1>1, <1>3, <1>4, <1>5

\* IsValidMove refuses exactly the moves that close a cycle.
LEMMA MovesExactByInv ==
  ASSUME DAGInv
  PROVE  MovesExact
<1> SUFFICES ASSUME Settled, NEW op \in EdgeOps, IsCandidate(op)
             PROVE  IsValidMove(op) <=> AcyclicIn(ParentsAfter(op))
  BY DEF MovesExact
<1> DEFINE i == op.start
           j == op.end
           less == WithoutEdge(parents, i, j)
<1>1. /\ i \in Node /\ j \in Node /\ i # j
      /\ op.change \in {"ADD", "DEL", "REV"}
      /\ op.change # "ADD" => j \in children[i]
  BY DEF EdgeOps, IsCandidate
<1>2. /\ parents \in [Node -> SUBSET Node] /\ AcyclicIn(parents)
      /\ j \in children[i] <=> i \in parents[j]
      /\ \A n \in Node : anc[n] = AncestorsIn(parents, n)
  BY <1>1, ExactWhenQueueEmpty DEF DAGInv, DAGTypeOK, StaysDAG, Settled
<1>3. CASE op.change = "ADD"
  BY <1>1, <1>2, <1>3, ParentsAfterMove, AcyclicWithEdge DEF IsValidMove
<1>4. CASE op.change = "DEL"
  BY <1>1, <1>2, <1>4, ParentsAfterMove, AncestorsWithoutEdge DEF IsValidMove, Neighbors
<1>5. CASE op.change = "REV"
  <2>1. /\ less \in [Node -> SUBSET Node]
        /\ less[j] = parents[j] \ {i}
        /\ AcyclicIn(less)
    BY <1>1, <1>2, AncestorsWithoutEdge DEF WithoutEdge
  <2> HIDE DEF less
  <2>2. \A p \in parents[j] : AncestorsIn(less, p) = AncestorsIn(parents, p)
    <3> SUFFICES ASSUME NEW p \in parents[j] PROVE AncestorsIn(less, p) = AncestorsIn(parents, p)
      OBVIOUS
    <3>1. p \in Node /\ p \in AncestorsIn(parents, j)
      BY <1>1, <1>2, AncestorsType
    <3>2. AncestorsIn(parents, p) \subseteq AncestorsIn(parents, j)
      BY <1>1, <1>2, <3>1, AncestorsTransitive
    <3>3. p # j /\ j \notin AncestorsIn(parents, p)
      BY <1>1, <1>2, <3>1, <3>2 DEF AcyclicIn
    <3> QED
      BY <1>1, <1>2, <3>1, <3>3, AncestorsWithoutEdge DEF less
  <2>3. i \notin AncestorsIn(less, j) <=> IsValidRev(i, j)
    <3>1. AncestorsIn(less, j) = less[j] \cup UNION {AncestorsIn(less, p) : p \in less[j]}
      BY <1>1, <2>1, AncestorsByParents
    <3>2. parents[j] \subseteq Node
      BY <1>1, <1>2
    <3> QED
      BY <1>2, <2>1, <2>2, <3>1, <3>2 DEF IsValidRev
  <2>4. IsValidMove(op) <=> IsValidRev(i, j)
    BY <1>1, <1>5 DEF IsValidMove, Neighbors
  <2>5. AcyclicIn(WithEdge(less, j, i)) <=> i \notin AncestorsIn(less, j)
    BY <1>1, <2>1, AcyclicWithEdge
  <2> QED
    BY <1>5, <2>3, <2>4, <2>5, ParentsAfterMove DEF less
<1> QED
  BY <1>1, <1>3, <1>4, <1>5

-----------------------------------------------------------------------------
(* The inductive invariant of the searches.                                   *)

\* Edges to be treated join two nodes, and only the search reverses edges.
EdgesLegal ==
  /\ \A e \in undo \cup todo : e \in Node \X Node /\ e[1] # e[2]
  /\ toAdd # {} => phase = "Search"

\* Until a restart no edge leads from the second slice to the first, and SetSubDag
\* leaves between the nodes of the first slice only edges of the prior graph.
PriorKept ==
  ~restarted =>
    /\ undo = {} /\ phase \notin {"Group", "Link", "Failed"}
    /\ \A n \in VAncestor : parents[n] \cap VDescent = {}
    /\ \A e \in toAdd : ~(e[1] \in VDescent /\ e[2] \in VAncestor)
    /\ phase = "Remove" => InnerEdges(VAncestor, parents) \subseteq todo
    /\ phase = "Add" => /\ todo \subseteq InnerEdges(VAncestor, Prior)
                        /\ \A n \in VAncestor : parents[n] \subseteq Prior[n]

\* An edge that does not end a path from a continuous node to a discrete one.
Harmless(par, i, j) ==
  ~ /\ \E a \in Discrete : a = j \/ j \in AncestorsIn(par, a)
    /\ \E d \in Continuous : d = i \/ d \in AncestorsIn(par, i)

\* SEM does nothing but search, and the edge that its reversal adds is harmless.
OrderKept ==
  engine = "SEM" => /\ phase \in {"Search", "Found"} /\ undo = {}
                    /\ \A e \in toAdd : Harmless(parents, e[1], e[2])

LearnInv == DAGInv /\ TypeOK /\ EdgesLegal /\ PriorKept /\ OrderKept

-----------------------------------------------------------------------------
(* Facts about single edges.                                                  *)

\* The fields of a move.
LEMMA AddOp ==
  ASSUME NEW i \in Node, NEW j \in Node, NEW change \in {"ADD", "DEL", "REV"}
  PROVE  /\ Op(change, i, j) \in EdgeOps
         /\ Op(change, i, j).start = i
         /\ Op(change, i, j).end = j
         /\ Op(change, i, j).change = change
  BY DEF Op, EdgeOps

\* A harmless edge keeps the order of the types.
LEMMA OrderedWithEdge ==
  ASSUME NEW par \in [Node -> SUBSET Node], NEW i \in Node, NEW j \in Node,
         Ordered(par), Harmless(par, i, j)
  PROVE  Ordered(WithEdge(par, i, j))
<1> SUFFICES ASSUME NEW a \in Discrete, NEW c \in Continuous, c \in AncestorsIn(WithEdge(par, i, j), a)
             PROVE  FALSE
  BY DEF Ordered
<1>1. a \in Node
  BY StructLearnAssumption DEF StructLearnAssumption
<1>2. c \notin AncestorsIn(par, a)
  BY DEF Ordered
<1>3. /\ a = j \/ j \in AncestorsIn(par, a)
      /\ c \in AncestorsIn(par, j) \cup {i} \cup AncestorsIn(par, i)
  BY <1>1, <1>2, AncestorsWithEdge
<1>4. c \notin AncestorsIn(par, j)
  BY <1>1, <1>2, <1>3, AncestorsTransitive
<1> QED
  BY <1>3, <1>4 DEF Harmless

\* Removing an edge keeps the order of the types.
LEMMA OrderedWithoutEdge ==
  ASSUME NEW par \in [Node -> SUBSET Node], NEW i \in Node, NEW j \in Node, Ordered(par)
  PROVE  Ordered(WithoutEdge(par, i, j))
<1>1. Discrete \subseteq Node
  BY StructLearnAssumption DEF StructLearnAssumption
<1>2. \A a \in Node : AncestorsIn(WithoutEdge(par, i, j), a) \subseteq AncestorsIn(par, a)
  BY AncestorsWithoutEdge
<1> QED
  BY <1>1, <1>2 DEF Ordered

\* A graph that has, in the first slice, only edges of the prior graph lets every
\* other edge of it in.
LEMMA PriorEdgeFits ==
  ASSUME NEW par \in [Node -> SUBSET Node], \A n \in VAncestor : par[n] \subseteq Prior[n],
         NEW e \in InnerEdges(VAncestor, Prior)
  PROVE  e[2] \notin AncestorsIn(par, e[1])
<1>1. /\ VAncestor \subseteq Node
      /\ Prior \in [Node -> SUBSET Node]
      /\ \A n \in Node : Prior[n] \subseteq VAncestor
      /\ AcyclicIn(Prior)
  BY StructLearnAssumption DEF StructLearnAssumption, Prior
<1>2. e[1] \in VAncestor /\ e[2] \in VAncestor /\ e[1] \in Prior[e[2]]
  BY DEF InnerEdges
<1> DEFINE S == AncestorsIn(Prior, e[1])
<1>3. S \subseteq VAncestor
  <2>1. Prior[e[1]] \subseteq VAncestor /\ ClosedIn(Prior, VAncestor)
    BY <1>1, <1>2 DEF ClosedIn
  <2> QED
    BY <1>1, <1>2, <2>1, AncestorsLeast
<1>4. Prior[e[1]] \subseteq S /\ ClosedIn(Prior, S)
  BY <1>1, <1>2, AncestorsType, AncestorsClosed
<1>5. par[e[1]] \subseteq S /\ ClosedIn(par, S)
  BY <1>2, <1>3, <1>4 DEF ClosedIn
<1>6. AncestorsIn(par, e[1]) \subseteq S
  BY <1>1, <1>2, <1>3, <1>5, AncestorsLeast
<1>7. e[1] \in AncestorsIn(Prior, e[2])
  BY <1>1, <1>2, AncestorsType
<1>8. S \subseteq AncestorsIn(Prior, e[2])
  BY <1>1, <1>2, <1>7, AncestorsTransitive
<1> QED
  BY <1>1, <1>2, <1>6, <1>8 DEF AcyclicIn

\* What the search knows of a move that it takes.
LEMMA MovesLegal ==
  ASSUME TypeOK, NEW op \in Moves
  PROVE  /\ op \in EdgeOps /\ op.start # op.end
         /\ \A e \in NewEdge(op) : ~(e[1] \in VDescent /\ e[2] \in VAncestor)
         /\ engine = "SEM" /\ Discrete # {} /\ Continuous # {} => CheckValid(Discrete, Continuous, op)
<1>1. op \in GetAllValidMove(VDescent, VAncestor)
  BY DEF Moves, GetAllValidMoveFanIn
<1>2. /\ op \in EdgeOps /\ op.start # op.end
      /\ VDescent # {} /\ VAncestor # {} => CheckValid2(VDescent, VAncestor, op)
  BY <1>1 DEF GetAllValidMove, IsCandidate
<1>3. \A e \in NewEdge(op) : ~(e[1] \in VDescent /\ e[2] \in VAncestor)
  BY <1>2 DEF CheckValid2
<1>4. engine = "SEM" /\ Discrete # {} /\ Continuous # {} => CheckValid(Discrete, Continuous, op)
  BY DEF Moves, GetAllValidMoveFanIn
<1> QED
  BY <1>2, <1>3, <1>4

-----------------------------------------------------------------------------
(* Every step keeps the invariant.                                            *)

\* The graph of a model and its fresh matrix.
LEMMA InitInv ==
  ASSUME Init
  PROVE  LearnInv
<1> USE DEF Init
<1>1. /\ \A n \in Node : anc[n] = AncestorsIn(parents, n)
      /\ anc \in [Node -> SUBSET Node]
  BY AncestorsType DEF CreateAncestorMatrix
<1>2. DAGTypeOK
  BY <1>1 DEF DAGTypeOK
<1>3. \A i, j \in Node : i \in parents[j] <=> j \in children[i]
  OBVIOUS
<1>4. StaysDAG
  BY <1>3 DEF StaysDAG, LegalStart
<1>5. MatrixCovers /\ StaleBelowQueue /\ ReversalFits
  BY <1>1 DEF MatrixCovers, StaleBelowQueue, ReversalFits
<1>6. TypeOK /\ EdgesLegal
  BY <1>2 DEF TypeOK, EdgesLegal
<1>7. PriorKept /\ OrderKept
  BY DEF PriorKept, OrderKept, LegalStart
<1> QED
  BY <1>2, <1>4, <1>5, <1>6, <1>7 DEF LearnInv, DAGInv

\* In a graph without edges nobody has ancestors, whatever is in the queue.
LEMMA EmptyGraphStep ==
  ASSUME DAGInv, parents' = [n \in Node |-> {}], children' = [n \in Node |-> {}],
         anc' = [n \in Node |-> {}], queue' = queue, toAdd' = toAdd
  PROVE  DAGInv'
<1>1. \A n \in Node : AncestorsIn(parents', n) = {}
  <2> SUFFICES ASSUME NEW n \in Node
               PROVE  AncestorsIn(parents', n) \subseteq {}
    OBVIOUS
  <2>1. parents'[n] \subseteq {} /\ ClosedIn(parents', {}) /\ {} \in SUBSET Node
    BY DEF ClosedIn
  <2>2. parents' \in [Node -> SUBSET Node]
    OBVIOUS
  <2> QED
    BY <2>1, <2>2, AncestorsLeast
<1>2. DAGTypeOK'
  BY DEF DAGInv, DAGTypeOK
<1>3. StaysDAG' /\ MatrixCovers' /\ StaleBelowQueue'
  BY <1>1 DEF StaysDAG, AcyclicIn, MatrixCovers, StaleBelowQueue
<1>4. ReversalFits'
  BY <1>1 DEF DAGInv, DAGTypeOK, ReversalFits
<1> QED
  BY <1>2, <1>3, <1>4 DEF DAGInv

\* An edge that does not lead from the second slice to the first leaves none that does.
LEMMA SlicesKept ==
  ASSUME NEW par \in [Node -> SUBSET Node], NEW i \in Node, NEW j \in Node,
         \A n \in VAncestor : par[n] \cap VDescent = {}
  PROVE  /\ \A n \in VAncestor : WithoutEdge(par, i, j)[n] \cap VDescent = {}
         /\ ~(i \in VDescent /\ j \in VAncestor) =>
              \A n \in VAncestor : WithEdge(par, i, j)[n] \cap VDescent = {}
<1>1. VAncestor \subseteq Node
  BY StructLearnAssumption DEF StructLearnAssumption
<1> QED
  BY <1>1 DEF WithEdge, WithoutEdge

\* The walk over the descendants, and the second half of a reversal.
LEMMA ContinueInv ==
  ASSUME LearnInv, Continue
  PROVE  LearnInv'
<1>1. /\ DAGInv'
      /\ \/ parents' = parents /\ toAdd' = toAdd
         \/ toAdd' = {} /\ \E e \in toAdd : parents' = WithEdge(parents, e[1], e[2])
  BY ContinueStep DEF LearnInv, Continue
<1>2. UNCHANGED learnVars
  BY DEF Continue
<1>3. TypeOK'
  BY <1>1, <1>2 DEF LearnInv, TypeOK, DAGInv, learnVars
<1>4. EdgesLegal'
  BY <1>1, <1>2 DEF LearnInv, EdgesLegal, learnVars
<1>5. PriorKept'
  <2>1. CASE parents' = parents /\ toAdd' = toAdd
    BY <1>2, <2>1 DEF LearnInv, PriorKept, learnVars
  <2>2. CASE toAdd' = {} /\ \E e \in toAdd : parents' = WithEdge(parents, e[1], e[2])
    <3> SUFFICES ASSUME ~restarted
                 PROVE  PriorKept'
      BY <1>2 DEF PriorKept, learnVars
    <3>1. PICK e \in toAdd : parents' = WithEdge(parents, e[1], e[2])
      BY <2>2
    <3>2. /\ phase = "Search"
          /\ ~(e[1] \in VDescent /\ e[2] \in VAncestor)
          /\ e[1] \in Node /\ e[2] \in Node
          /\ parents \in [Node -> SUBSET Node]
          /\ \A n \in VAncestor : parents[n] \cap VDescent = {}
      BY <3>1 DEF LearnInv, EdgesLegal, PriorKept, TypeOK, DAGTypeOK
    <3>3. \A n \in VAncestor : parents'[n] \cap VDescent = {}
      BY <3>1, <3>2, SlicesKept
    <3> QED
      BY <1>2, <2>2, <3>2, <3>3 DEF LearnInv, PriorKept, learnVars
  <2> QED
    BY <1>1, <2>1, <2>2
<1>6. OrderKept'
  BY <1>1, <1>2 DEF LearnInv, OrderKept, learnVars
<1> QED
  BY <1>1, <1>3, <1>4, <1>5, <1>6 DEF LearnInv

\* What the checks of SEM say of the new edge of a move.
LEMMA CheckedHarmless ==
  ASSUME DAGInv, queue = <<>>, NEW op \in EdgeOps,
         Discrete # {} /\ Continuous # {} => CheckValid(Discrete, Continuous, op)
  PROVE  /\ op.change = "ADD" => Harmless(parents, op.start, op.end)
         /\ op.change = "REV" => Harmless(WithoutEdge(parents, op.start, op.end), op.end, op.start)
<1> DEFINE i == op.start
           j == op.end
<1>1. /\ \A n \in Node : anc[n] = AncestorsIn(parents, n)
      /\ Discrete \subseteq Node
      /\ i \in Node /\ j \in Node
  BY ExactWhenQueueEmpty, StructLearnAssumption DEF StructLearnAssumption, EdgeOps
<1>2. CASE Discrete = {} \/ Continuous = {}
  BY <1>2 DEF Harmless
<1>3. CASE Discrete # {} /\ Continuous # {}
  <2>1. ASSUME op.change = "ADD"
        PROVE  Harmless(parents, i, j)
    <3>1. ~ /\ \E a \in Discrete : a = j \/ j \in anc[a]
            /\ \E d \in Continuous : d = i \/ d \in anc[i]
      BY <1>3, <2>1 DEF CheckValid, NewEdge
    <3> QED
      BY <1>1, <3>1 DEF Harmless
  <2>2. ASSUME op.change = "REV"
        PROVE  Harmless(WithoutEdge(parents, i, j), j, i)
    <3> DEFINE less == WithoutEdge(parents, i, j)
               m == CreateAncestorMatrix(less)
    <3>1. ~ /\ \E a \in Discrete : a = i \/ i \in m[a]
            /\ \E d \in Continuous : d = j \/ d \in m[j]
      BY <1>3, <2>2 DEF CheckValid, NewEdge, WithoutEdge
    <3>2. \A n \in Node : m[n] = AncestorsIn(less, n)
      BY DEF CreateAncestorMatrix
    <3> QED
      BY <1>1, <3>1, <3>2 DEF Harmless
  <2> QED
    BY <2>1, <2>2
<1> QED
  BY <1>2, <1>3

\* A move of the search.
LEMMA SearchInv ==
  ASSUME LearnInv, SearchStep
  PROVE  LearnInv'
<1>1. /\ phase = "Search" /\ Settled /\ UNCHANGED learnVars
      /\ DAGInv /\ TypeOK /\ parents \in [Node -> SUBSET Node]
  BY DEF SearchStep, LearnInv, TypeOK, DAGTypeOK
<1>2. PICK op \in Moves : DoMove(op)
  BY DEF SearchStep
<1> DEFINE i == op.start
           j == op.end
<1>3. /\ op \in EdgeOps /\ i # j
      /\ \A e \in NewEdge(op) : ~(e[1] \in VDescent /\ e[2] \in VAncestor)
      /\ engine = "SEM" /\ Discrete # {} /\ Continuous # {} => CheckValid(Discrete, Continuous, op)
  BY <1>1, MovesLegal
<1>4. /\ DAGInv'
      /\ parents' = IF op.change = "ADD" THEN WithEdge(parents, i, j) ELSE WithoutEdge(parents, i, j)
      /\ toAdd' = IF op.change = "REV" THEN {<<j, i>>} ELSE {}
  BY <1>1, <1>2, <1>3, MoveStep
<1>5. i \in Node /\ j \in Node
  BY <1>3 DEF EdgeOps
<1>6. TypeOK' /\ EdgesLegal'
  BY <1>1, <1>4 DEF LearnInv, TypeOK, EdgesLegal, DAGInv, learnVars
<1>7. PriorKept'
  <2> SUFFICES ASSUME ~restarted
               PROVE  PriorKept'
    BY <1>1 DEF PriorKept, learnVars
  <2>1. \A n \in VAncestor : parents[n] \cap VDescent = {}
    BY DEF LearnInv, PriorKept
  <2>2. /\ op.change = "ADD" => ~(i \in VDescent /\ j \in VAncestor)
        /\ op.change = "REV" => ~(j \in VDescent /\ i \in VAncestor)
    BY <1>3 DEF NewEdge
  <2>3. \A n \in VAncestor : parents'[n] \cap VDescent = {}
    BY <1>1, <1>4, <1>5, <2>1, <2>2, SlicesKept
  <2>4. \A e \in toAdd' : ~(e[1] \in VDescent /\ e[2] \in VAncestor)
    BY <1>4, <2>2
  <2> QED
    BY <1>1, <2>3, <2>4 DEF LearnInv, PriorKept, learnVars
<1>8. OrderKept'
  <2> SUFFICES ASSUME engine = "SEM"
               PROVE  OrderKept'
    BY <1>1 DEF OrderKept, learnVars
  <2>1. op.change = "REV" => Harmless(parents', j, i)
    BY <1>1, <1>3, <1>4, CheckedHarmless DEF Settled
  <2>2. \A e \in toAdd' : Harmless(parents', e[1], e[2])
    BY <1>4, <2>1
  <2> QED
    BY <1>1, <2>2 DEF LearnInv, OrderKept, learnVars
<1> QED
  BY <1>4, <1>6, <1>7, <1>8 DEF LearnInv

\* The end of a search.
LEMMA StopInv ==
  ASSUME LearnInv, StopSearch
  PROVE  LearnInv'
<1>1. /\ DAGInv' /\ phase' = "Found"
      /\ UNCHANGED <<dagVars, engine, restarted, group, linked, undo, links, todo>>
      /\ toAdd = {}
  BY MoveStutter DEF StopSearch, LearnInv, Settled
<1>2. TypeOK' /\ EdgesLegal'
  BY <1>1 DEF LearnInv, TypeOK, EdgesLegal, DAGInv, dagVars
<1>3. PriorKept' /\ OrderKept'
  BY <1>1 DEF LearnInv, PriorKept, OrderKept, dagVars, graph
<1> QED
  BY <1>1, <1>2, <1>3 DEF LearnInv

\* The random graph is built, and its edges replaced, by "HC" only.
LEMMA RestartedSearch ==
  ASSUME LearnInv
  PROVE  /\ phase \in {"Group", "Link"} \/ undo # {} => restarted /\ engine = "HC"
         /\ phase \in {"Remove", "Add"} => engine = "HC"
  BY DEF LearnInv, TypeOK, PriorKept, OrderKept

\* A restart throws the graph away.
LEMMA RestartInv ==
  ASSUME LearnInv, Restart
  PROVE  LearnInv'
<1>1. /\ DAGInv' /\ UNCHANGED <<queue, toAdd, engine, undo, links, todo>>
      /\ phase' = "Group" /\ restarted' = TRUE /\ group' = FirstGroup /\ linked' = {}
      /\ engine = "HC" /\ toAdd = {}
  BY EmptyGraphStep DEF Restart, LearnInv, EdgesLegal
<1>2. FirstGroup \subseteq Node
  BY StructLearnAssumption DEF StructLearnAssumption, FirstGroup
<1>3. TypeOK' /\ EdgesLegal'
  BY <1>1, <1>2 DEF LearnInv, TypeOK, EdgesLegal, DAGInv
<1>4. PriorKept' /\ OrderKept'
  BY <1>1 DEF PriorKept, OrderKept
<1> QED
  BY <1>1, <1>3, <1>4 DEF LearnInv

\* An edge that is tried, and perhaps taken back by the next step.
LEMMA TryEdgeStep ==
  ASSUME DAGInv, Settled, NEW i \in Node, NEW j \in Node, i # j, NEW limit, TryEdge(i, j, limit)
  PROVE  DAGInv' /\ toAdd' = {} /\ undo' \subseteq {<<i, j>>}
<1>1. DoMove(Op("ADD", i, j)) /\ undo' \subseteq {<<i, j>>}
  BY DEF TryEdge
<1>2. /\ Op("ADD", i, j) \in EdgeOps /\ Op("ADD", i, j).change = "ADD"
      /\ Op("ADD", i, j).start = i /\ Op("ADD", i, j).end = j
  BY AddOp
<1> QED
  BY <1>1, <1>2, MoveStep

\* An edge inside a group.
LEMMA PickInv ==
  ASSUME LearnInv, PickInGroup
  PROVE  LearnInv'
<1>1. /\ UNCHANGED <<engine, phase, restarted, group, links, todo>>
      /\ restarted /\ engine = "HC" /\ Settled /\ DAGInv /\ TypeOK
  BY RestartedSearch DEF PickInGroup, LearnInv
<1>2. PICK i \in group, j \in group :
        /\ i # j /\ TryEdge(i, j, GroupFanIn)
        /\ linked' = IF undo' = {} THEN linked \cup {i, j} ELSE linked
  BY DEF PickInGroup
<1>3. i \in Node /\ j \in Node
  BY <1>1 DEF TypeOK
<1>4. DAGInv' /\ toAdd' = {} /\ undo' \subseteq {<<i, j>>}
  BY <1>1, <1>2, <1>3, TryEdgeStep
<1>5. TypeOK' /\ EdgesLegal'
  BY <1>1, <1>2, <1>3, <1>4 DEF LearnInv, TypeOK, EdgesLegal, DAGInv
<1>6. PriorKept' /\ OrderKept'
  BY <1>1 DEF PriorKept, OrderKept
<1> QED
  BY <1>4, <1>5, <1>6 DEF LearnInv

\* An edge that gave a node too many parents is removed again.
LEMMA TakeBackInv ==
  ASSUME LearnInv, TakeBack
  PROVE  LearnInv'
<1>1. /\ UNCHANGED <<engine, phase, restarted, group, linked, links, todo>> /\ undo' = {}
      /\ restarted /\ engine = "HC" /\ Settled /\ DAGInv
  BY RestartedSearch DEF TakeBack, LearnInv
<1>2. PICK e \in undo : DoMove(Op("DEL", e[1], e[2]))
  BY DEF TakeBack
<1>3. e[1] \in Node /\ e[2] \in Node /\ e[1] # e[2]
  BY <1>2 DEF LearnInv, EdgesLegal
<1>4. /\ Op("DEL", e[1], e[2]) \in EdgeOps /\ Op("DEL", e[1], e[2]).change = "DEL"
      /\ Op("DEL", e[1], e[2]).start = e[1] /\ Op("DEL", e[1], e[2]).end = e[2]
  BY <1>3, AddOp
<1>5. DAGInv' /\ toAdd' = {}
  BY <1>1, <1>2, <1>3, <1>4, MoveStep
<1>6. TypeOK' /\ EdgesLegal'
  BY <1>1, <1>5 DEF LearnInv, TypeOK, EdgesLegal, DAGInv
<1>7. PriorKept' /\ OrderKept'
  BY <1>1 DEF PriorKept, OrderKept
<1> QED
  BY <1>5, <1>6, <1>7 DEF LearnInv

\* The number of links that a group leaves to be made is at least 1.
LEMMA GroupDoneInv ==
  ASSUME LearnInv, GroupDone
  PROVE  LearnInv'
<1>1. /\ UNCHANGED <<dagVars, engine, restarted, undo, todo>> /\ linked' = {}
      /\ restarted /\ engine = "HC" /\ toAdd = {} /\ DAGInv'
  BY RestartedSearch, MoveStutter DEF GroupDone, LearnInv, Settled
<1>2. Cardinality(Discrete) * Cardinality(Continuous) - 1 \in Int
  <2>1. IsFiniteSet(Node)
    BY NodesAssumption, FS_Interval DEF NodesAssumption, Node
  <2>2. Discrete \subseteq Node /\ Continuous \subseteq Node
    BY StructLearnAssumption DEF StructLearnAssumption
  <2>3. Cardinality(Discrete) \in Nat /\ Cardinality(Continuous) \in Nat
    BY <2>1, <2>2, FS_Subset, FS_CardinalityType
  <2> QED
    BY <2>3
<1>3. /\ phase' \in {"Search", "Group", "Link"}
      /\ group' \in {{}, Continuous}
      /\ links' \in Nat
  BY <1>2 DEF GroupDone, LearnInv, TypeOK
<1>4. TypeOK'
  BY <1>1, <1>3, StructLearnAssumption
  DEF LearnInv, TypeOK, DAGInv, dagVars, StructLearnAssumption
<1>5. EdgesLegal'
  BY <1>1 DEF LearnInv, EdgesLegal, dagVars
<1>6. PriorKept' /\ OrderKept'
  BY <1>1 DEF PriorKept, OrderKept
<1> QED
  BY <1>1, <1>4, <1>5, <1>6 DEF LearnInv

\* A link between a discrete and a continuous node, or none.
LEMMA AddLinkInv ==
  ASSUME LearnInv, AddLink
  PROVE  LearnInv'
<1>1. /\ UNCHANGED <<engine, phase, restarted, group, linked, todo>>
      /\ restarted /\ engine = "HC" /\ Settled /\ DAGInv /\ undo = {}
      /\ links' \in Nat
  BY RestartedSearch DEF AddLink, LearnInv, TypeOK
<1>2. /\ DAGInv' /\ toAdd' = {}
      /\ \A e \in undo' : e \in Node \X Node /\ e[1] # e[2]
  <2>1. PICK i \in Discrete, j \in Continuous : \E e \in {<<i, j>>, <<j, i>>} :
          IF IsValidMove(Op("ADD", e[1], e[2])) THEN TryEdge(e[1], e[2], FanIn)
          ELSE UNCHANGED <<dagVars, undo>>
    BY DEF AddLink
  <2>2. PICK e \in {<<i, j>>, <<j, i>>} :
          IF IsValidMove(Op("ADD", e[1], e[2])) THEN TryEdge(e[1], e[2], FanIn)
          ELSE UNCHANGED <<dagVars, undo>>
    BY <2>1
  <2>3. e = <<e[1], e[2]>> /\ e[1] \in Node /\ e[2] \in Node /\ e[1] # e[2]
    BY StructLearnAssumption DEF StructLearnAssumption
  <2>4. CASE TryEdge(e[1], e[2], FanIn)
    BY <1>1, <2>3, <2>4, TryEdgeStep
  <2>5. CASE UNCHANGED <<dagVars, undo>>
    BY <1>1, <2>5, MoveStutter DEF Settled, dagVars
  <2> QED
    BY <2>2, <2>4, <2>5
<1>3. TypeOK' /\ EdgesLegal'
  BY <1>1, <1>2 DEF LearnInv, TypeOK, EdgesLegal, DAGInv
<1>4. PriorKept' /\ OrderKept'
  BY <1>1 DEF PriorKept, OrderKept
<1> QED
  BY <1>2, <1>3, <1>4 DEF LearnInv

\* The random graph is complete.
LEMMA LinksDoneInv ==
  ASSUME LearnInv, LinksDone
  PROVE  LearnInv'
<1>1. /\ UNCHANGED <<dagVars, engine, restarted, group, linked, undo, links, todo>>
      /\ phase' = "Search" /\ restarted /\ engine = "HC" /\ toAdd = {} /\ DAGInv'
  BY RestartedSearch, MoveStutter DEF LinksDone, LearnInv, Settled
<1>2. TypeOK' /\ EdgesLegal'
  BY <1>1 DEF LearnInv, TypeOK, EdgesLegal, DAGInv, dagVars
<1>3. PriorKept' /\ OrderKept'
  BY <1>1 DEF PriorKept, OrderKept
<1> QED
  BY <1>1, <1>2, <1>3 DEF LearnInv

\* An edge of a graph without cycles joins two nodes.
LEMMA InnerEdgesLegal ==
  ASSUME NEW par \in [Node -> SUBSET Node], AcyclicIn(par),
         NEW e \in InnerEdges(VAncestor, par)
  PROVE  e \in Node \X Node /\ e[1] # e[2]
<1>1. e \in Node \X Node /\ e[1] \in par[e[2]]
  BY StructLearnAssumption DEF StructLearnAssumption, InnerEdges
<1> QED
  BY <1>1, AncestorsType DEF AcyclicIn

\* The edges to be removed are those between nodes of the first slice.
LEMMA SetSubDagInv ==
  ASSUME LearnInv, SetSubDag
  PROVE  LearnInv'
<1>1. /\ UNCHANGED <<dagVars, engine, restarted, group, linked, undo, links>>
      /\ phase' = "Remove" /\ todo' = InnerEdges(VAncestor, parents)
      /\ phase = "Found" /\ engine = "HC" /\ DAGInv'
  BY MoveStutter DEF SetSubDag, LearnInv
<1>2. \A e \in todo' : e \in Node \X Node /\ e[1] # e[2]
  BY <1>1, InnerEdgesLegal DEF LearnInv, DAGInv, StaysDAG, DAGTypeOK
<1>3. TypeOK' /\ EdgesLegal'
  BY <1>1, <1>2 DEF LearnInv, TypeOK, EdgesLegal, DAGInv, dagVars
<1>4. parents' = parents /\ toAdd' = toAdd
  BY <1>1 DEF dagVars, graph
<1>5. PriorKept' /\ OrderKept'
  BY <1>1, <1>4 DEF LearnInv, PriorKept, OrderKept
<1> QED
  BY <1>1, <1>3, <1>5 DEF LearnInv

\* When no edge is left in the first slice, its nodes have no parents at all.
LEMMA NothingLeft ==
  ASSUME LearnInv, ~restarted, phase = "Remove", todo = {}, NEW n \in VAncestor
  PROVE  parents[n] = {}
<1> SUFFICES ASSUME NEW p \in parents[n]
             PROVE  FALSE
  OBVIOUS
<1>1. /\ parents[n] \cap VDescent = {}
      /\ InnerEdges(VAncestor, parents) = {}
      /\ parents \in [Node -> SUBSET Node]
  BY DEF LearnInv, PriorKept, TypeOK, DAGTypeOK
<1>2. VAncestor \cup VDescent = Node
  BY StructLearnAssumption DEF StructLearnAssumption
<1>3. p \in VAncestor
  BY <1>1, <1>2
<1>4. <<p, n>> \in InnerEdges(VAncestor, parents)
  BY <1>3 DEF InnerEdges
<1> QED
  BY <1>1, <1>4

\* An old edge of the first slice is removed, or none is left.
LEMMA RemoveOldInv ==
  ASSUME LearnInv, RemoveOld
  PROVE  LearnInv'
<1>1. /\ UNCHANGED <<engine, restarted, group, linked, undo, links>>
      /\ phase = "Remove" /\ engine = "HC" /\ Settled /\ DAGInv
      /\ parents \in [Node -> SUBSET Node]
  BY RestartedSearch DEF RemoveOld, LearnInv, DAGInv, DAGTypeOK
<1>2. CASE todo = {} /\ phase' = "Add" /\ todo' = InnerEdges(VAncestor, Prior) /\ UNCHANGED dagVars
  <2>1. DAGInv' /\ parents' = parents /\ toAdd' = {}
    BY <1>1, <1>2, MoveStutter DEF dagVars, graph, Settled
  <2>2. Prior \in [Node -> SUBSET Node] /\ AcyclicIn(Prior)
    BY StructLearnAssumption DEF StructLearnAssumption, Prior
  <2>3. \A e \in todo' : e \in Node \X Node /\ e[1] # e[2]
    BY <1>2, <2>2, InnerEdgesLegal
  <2>4. TypeOK' /\ EdgesLegal'
    BY <1>1, <1>2, <2>1, <2>3 DEF LearnInv, TypeOK, EdgesLegal, DAGInv
  <2>5. ~restarted => \A n \in VAncestor : parents[n] = {}
    BY <1>1, <1>2, NothingLeft
  <2>6. PriorKept' /\ OrderKept'
    BY <1>1, <1>2, <2>1, <2>5 DEF LearnInv, PriorKept, OrderKept
  <2> QED
    BY <2>1, <2>4, <2>6 DEF LearnInv
<1>3. ASSUME NEW e \in todo, DoMove(Op("DEL", e[1], e[2])), todo' = todo \ {e}, phase' = phase
      PROVE  LearnInv'
  <2>1. e \in Node \X Node /\ e[1] # e[2]
    BY DEF LearnInv, EdgesLegal
  <2>2. /\ Op("DEL", e[1], e[2]) \in EdgeOps /\ Op("DEL", e[1], e[2]).change = "DEL"
        /\ Op("DEL", e[1], e[2]).start = e[1] /\ Op("DEL", e[1], e[2]).end = e[2]
    BY <2>1, AddOp
  <2>3. DAGInv' /\ toAdd' = {} /\ parents' = WithoutEdge(parents, e[1], e[2])
    BY <1>1, <1>3, <2>1, <2>2, MoveStep
  <2>4. TypeOK' /\ EdgesLegal'
    BY <1>1, <1>3, <2>3 DEF LearnInv, TypeOK, EdgesLegal, DAGInv
  <2>5. InnerEdges(VAncestor, parents') \subseteq InnerEdges(VAncestor, parents) \ {e}
    <3>1. VAncestor \subseteq Node
      BY StructLearnAssumption DEF StructLearnAssumption
    <3> QED
      BY <1>1, <2>1, <2>3, <3>1 DEF InnerEdges, WithoutEdge
  <2>6. ~restarted => \A n \in VAncestor : parents'[n] \cap VDescent = {}
    BY <1>1, <2>1, <2>3, SlicesKept DEF LearnInv, PriorKept
  <2>7. PriorKept' /\ OrderKept'
    BY <1>1, <1>3, <2>3, <2>5, <2>6 DEF LearnInv, PriorKept, OrderKept
  <2> QED
    BY <2>3, <2>4, <2>7 DEF LearnInv
<1> QED
  BY <1>2, <1>3 DEF RemoveOld

\* A new edge of the first slice fits, unless the graph was random.
LEMMA AddNewInv ==
  ASSUME LearnInv, AddNew
  PROVE  LearnInv'
<1>1. /\ UNCHANGED <<engine, restarted, group, linked, undo, links>>
      /\ phase = "Add" /\ engine = "HC" /\ Settled /\ DAGInv
      /\ parents \in [Node -> SUBSET Node]
  BY RestartedSearch DEF AddNew, LearnInv, DAGInv, DAGTypeOK
<1>2. CASE phase' = "Done" /\ UNCHANGED <<dagVars, todo>>
  <2>1. DAGInv' /\ parents' = parents /\ toAdd' = {}
    BY <1>1, <1>2, MoveStutter DEF dagVars, graph, Settled
  <2>2. TypeOK' /\ EdgesLegal'
    BY <1>1, <1>2, <2>1 DEF LearnInv, TypeOK, EdgesLegal, DAGInv
  <2>3. PriorKept' /\ OrderKept'
    BY <1>1, <1>2, <2>1 DEF LearnInv, PriorKept, OrderKept
  <2> QED
    BY <2>1, <2>2, <2>3 DEF LearnInv
<1>3. ASSUME NEW e \in todo,
             LET op == Op("ADD", e[1], e[2]) IN
             IF IsValidMove(op)
             THEN DoMove(op) /\ todo' = todo \ {e} /\ UNCHANGED phase
             ELSE phase' = "Failed" /\ UNCHANGED <<dagVars, todo>>
      PROVE  LearnInv'
  <2> DEFINE op == Op("ADD", e[1], e[2])
  <2>1. e \in Node \X Node /\ e[1] # e[2]
    BY DEF LearnInv, EdgesLegal
  <2>2. op \in EdgeOps /\ op.change = "ADD" /\ op.start = e[1] /\ op.end = e[2]
    BY <2>1, AddOp
  <2>3. CASE DoMove(op) /\ todo' = todo \ {e} /\ UNCHANGED phase
    <3>1. DAGInv' /\ toAdd' = {} /\ parents' = WithEdge(parents, e[1], e[2])
      BY <1>1, <2>1, <2>2, <2>3, MoveStep
    <3>2. TypeOK' /\ EdgesLegal'
      BY <1>1, <2>3, <3>1 DEF LearnInv, TypeOK, EdgesLegal, DAGInv
    <3>3. PriorKept'
      <4> SUFFICES ASSUME ~restarted
                   PROVE  PriorKept'
        BY <1>1 DEF PriorKept
      <4>1. /\ e \in InnerEdges(VAncestor, Prior)
            /\ \A n \in VAncestor : parents[n] \subseteq Prior[n]
            /\ \A n \in VAncestor : parents[n] \cap VDescent = {}
        BY <1>1 DEF LearnInv, PriorKept
      <4>2. e[1] \in VAncestor /\ e[1] \in Prior[e[2]]
        BY <4>1 DEF InnerEdges
      <4>3. e[1] \notin VDescent
        BY <4>2, StructLearnAssumption DEF StructLearnAssumption
      <4>4. \A n \in VAncestor : parents'[n] \cap VDescent = {}
        BY <1>1, <2>1, <3>1, <4>1, <4>3, SlicesKept
      <4>5. \A n \in VAncestor : parents'[n] \subseteq Prior[n]
        <5>1. VAncestor \subseteq Node
          BY StructLearnAssumption DEF StructLearnAssumption
        <5> QED
          BY <1>1, <3>1, <4>1, <4>2, <5>1 DEF WithEdge
      <4> QED
        BY <1>1, <2>3, <3>1, <4>4, <4>5 DEF LearnInv, PriorKept
    <3>4. OrderKept'
      BY <1>1 DEF OrderKept
    <3> QED
      BY <3>1, <3>2, <3>3, <3>4 DEF LearnInv
  <2>4. CASE ~IsValidMove(op) /\ phase' = "Failed" /\ UNCHANGED <<dagVars, todo>>
    <3>1. DAGInv' /\ toAdd' = {}
      BY <1>1, <2>4, MoveStutter DEF dagVars, Settled
    <3>2. TypeOK' /\ EdgesLegal'
      BY <1>1, <2>4, <3>1 DEF LearnInv, TypeOK, EdgesLegal, DAGInv
    <3>3. restarted
      <4> SUFFICES ASSUME ~restarted
                   PROVE  FALSE
        OBVIOUS
      <4>1. /\ e \in InnerEdges(VAncestor, Prior)
            /\ \A n \in VAncestor : parents[n] \subseteq Prior[n]
        BY <1>1 DEF LearnInv, PriorKept
      <4>2. e[2] \in anc[e[1]]
        BY <2>2, <2>4 DEF IsValidMove
      <4>3. anc[e[1]] = AncestorsIn(parents, e[1])
        BY <1>1, <2>1, ExactWhenQueueEmpty DEF Settled
      <4> QED
        BY <1>1, <4>1, <4>2, <4>3, PriorEdgeFits
    <3>4. PriorKept' /\ OrderKept'
      BY <1>1, <3>3 DEF PriorKept, OrderKept
    <3> QED
      BY <3>1, <3>2, <3>4 DEF LearnInv
  <2> QED
    BY <1>3, <2>3, <2>4
<1> QED
  BY <1>2, <1>3 DEF AddNew

\* All steps.
LEMMA LearnStep ==
  ASSUME LearnInv, [Next]_vars
  PROVE  LearnInv'
<1>1. CASE UNCHANGED vars
  <2>1. DAGInv' /\ UNCHANGED <<dagVars, learnVars>>
    BY <1>1, MoveStutter DEF LearnInv, vars
  <2>2. TypeOK' /\ EdgesLegal' /\ PriorKept' /\ OrderKept'
    BY <2>1 DEF LearnInv, TypeOK, EdgesLegal, PriorKept, OrderKept, DAGInv, dagVars, graph, learnVars
  <2> QED
    BY <2>1, <2>2 DEF LearnInv
<1> QED
  BY <1>1, ContinueInv, SearchInv, StopInv, RestartInv, PickInv, TakeBackInv, GroupDoneInv,
     AddLinkInv, LinksDoneInv, SetSubDagInv, RemoveOldInv, AddNewInv DEF Next

-----------------------------------------------------------------------------
(* The theorems.                                                              *)

\* The invariant of every search, restart and replacement of a slice.
THEOREM LearnInvariance == Spec => []LearnInv
<1>1. Init => LearnInv
  BY InitInv
<1>2. LearnInv /\ [Next]_vars => LearnInv'
  BY LearnStep
<1> QED
  BY <1>1, <1>2, PTL DEF Spec

\* The variables keep their types: rows of the matrix stay sets of nodes, and the
\* number of links still to be made never falls below zero.
THEOREM LearnTypeCorrect == Spec => []TypeOK
<1>1. LearnInv => TypeOK
  BY DEF LearnInv
<1> QED
  BY <1>1, LearnInvariance, PTL

\* No search, restart or replacement of a slice ever makes a cycle or leaves an
\* edge that only one of its nodes knows.
THEOREM GraphStaysDAG == Spec => []StaysDAG
<1>1. LearnInv => StaysDAG
  BY DEF LearnInv, DAGInv
<1> QED
  BY <1>1, LearnInvariance, PTL

\* The matrix of ancestors, updated in place, is exact between two moves.
THEOREM AncestorMatrixExact == Spec => []MatrixExact
<1>1. LearnInv => MatrixExact
  BY ExactWhenQueueEmpty DEF LearnInv, MatrixExact, Settled
<1> QED
  BY <1>1, LearnInvariance, PTL

\* The checks of moves refuse a move if and only if it makes a cycle.
THEOREM ValidMovesExact == Spec => []MovesExact
<1>1. LearnInv => MovesExact
  BY MovesExactByInv DEF LearnInv
<1> QED
  BY <1>1, LearnInvariance, PTL

\* The prior slice takes the graph that was learned for it, unless the search was
\* restarted from a random graph.
THEOREM PriorSliceFits == Spec => []PriorFitsUnlessRestarted
<1>1. LearnInv => PriorFitsUnlessRestarted
  BY DEF LearnInv, PriorKept, PriorFitsUnlessRestarted
<1> QED
  BY <1>1, LearnInvariance, PTL

\* One step of the structural search keeps discrete nodes above continuous ones.
LEMMA OrderStep ==
  ASSUME LearnInv, [Next]_vars, engine = "SEM", Ordered(parents)
  PROVE  Ordered(parents')
<1>1. /\ phase \in {"Search", "Found"} /\ undo = {} /\ DAGInv
      /\ \A e \in toAdd : Harmless(parents, e[1], e[2])
      /\ parents \in [Node -> SUBSET Node] /\ toAdd \subseteq Node \X Node
  BY DEF LearnInv, OrderKept, TypeOK, DAGTypeOK
<1>2. CASE parents' = parents
  BY <1>2
<1>3. CASE Continue
  <2>1. \/ parents' = parents
        \/ \E e \in toAdd : parents' = WithEdge(parents, e[1], e[2])
    BY <1>1, <1>3, ContinueStep DEF Continue
  <2>2. ASSUME NEW e \in toAdd
        PROVE  Ordered(WithEdge(parents, e[1], e[2]))
    <3>1. e[1] \in Node /\ e[2] \in Node
      BY <1>1
    <3> QED
      BY <1>1, <3>1, OrderedWithEdge
  <2> QED
    BY <1>2, <2>1, <2>2
<1>4. CASE SearchStep
  <2>1. Settled /\ \E op \in Moves : DoMove(op)
    BY <1>4 DEF SearchStep
  <2>2. PICK op \in Moves : DoMove(op)
    BY <2>1
  <2>3. /\ op \in EdgeOps /\ op.start # op.end
        /\ Discrete # {} /\ Continuous # {} => CheckValid(Discrete, Continuous, op)
    BY MovesLegal DEF LearnInv
  <2>4. op.start \in Node /\ op.end \in Node
    BY <2>3 DEF EdgeOps
  <2>5. parents' = IF op.change = "ADD" THEN WithEdge(parents, op.start, op.end)
                   ELSE WithoutEdge(parents, op.start, op.end)
    BY <1>1, <2>1, <2>2, <2>3, MoveStep
  <2>6. op.change = "ADD" => Harmless(parents, op.start, op.end)
    BY <1>1, <2>1, <2>3, CheckedHarmless DEF Settled
  <2> QED
    BY <1>1, <2>4, <2>5, <2>6, OrderedWithEdge, OrderedWithoutEdge
<1> QED
  <2>1. UNCHANGED vars \/ StopSearch => parents' = parents
    BY DEF vars, dagVars, graph, StopSearch
  <2>2. ~(PickInGroup \/ TakeBack \/ AddLink \/ GroupDone \/ LinksDone)
    BY <1>1 DEF PickInGroup, TakeBack, AddLink, GroupDone, LinksDone
  <2>3. ~(Restart \/ SetSubDag \/ RemoveOld \/ AddNew)
    BY <1>1 DEF Restart, SetSubDag, RemoveOld, AddNew
  <2> QED
    BY <1>2, <1>3, <1>4, <2>1, <2>2, <2>3 DEF Next

\* The structural search never makes a continuous node an ancestor of a discrete
\* one: what CheckValid judges on a clone stays true through both halves of a
\* reversal.
THEOREM NodeTypesKeepOrder == Spec => TypesKeepOrder
<1>1. LearnInv /\ [Next]_vars =>
        [engine = "SEM" /\ Ordered(parents) => Ordered(parents')]_vars
  BY OrderStep
<1> QED
  BY <1>1, LearnInvariance, PTL DEF Spec, TypesKeepOrder

-----------------------------------------------------------------------------
(***************************************************************************)
(* Construction of a junction tree.                                        *)
(***************************************************************************)

(* What the search keeps true, said of a graph g, a list nu of numbered nodes,  *)
(* the set V of them, the clique cl that the search is at and the list cs of    *)
(* the cliques before it.                                                       *)

\* Edges have two ends.
IsGraph(g) ==
  /\ g \in [Node -> SUBSET Node]
  /\ \A a, b \in Node : a \in g[b] => b \in g[a] /\ a # b

First(nu, i) == {nu[j] : j \in 1 .. i}

\* No node is numbered twice.
IsOrder(nu) ==
  /\ nu \in Seq(Node)
  /\ \A i, j \in DOMAIN nu : nu[i] = nu[j] => i = j

\* How many of the nodes in V are neighbours of n.
Degree(g, n, V) == Cardinality(g[n] \cap V)

\* Every node was numbered when none of the others had more numbered neighbours.
IsMaxOrder(g, nu) ==
  \A i \in DOMAIN nu : i # 1 => \A k \in Node \ First(nu, i-1) :
    Degree(g, k, First(nu, i-1)) <= Degree(g, nu[i], First(nu, i-1))

\* Numbered nodes that are joined to one another share a clique; the exception is
\* a first node without neighbours.
Covers(g, V, cl, cs) ==
  \A S \in SUBSET V : IsComplete(g, S) =>
    (0 \in S /\ g[0] = {}) \/ S \subseteq cl \/ \E c \in DOMAIN cs : S \subseteq cs[c]

CliquesIn(V, cs) == \A c \in DOMAIN cs : cs[c] \subseteq V

IsMaximalIn(g, S) ==
  /\ S # {} /\ IsComplete(g, S)
  /\ \A n \in Node \ S : ~IsComplete(g, S \cup {n})

CliquesMaximal(g, cs) == g[0] # {} => \A c \in DOMAIN cs : IsMaximalIn(g, cs[c])

CliquesDiffer(cs) == \A c, d \in DOMAIN cs : cs[c] = cs[d] => c = d

\* One of the cliques before k holds whatever cl shares with any of them.
HangsOn(cl, cs, k) ==
  \E c \in DOMAIN cs : c < k /\ \A d \in DOMAIN cs : d < k => cl \cap cs[d] \subseteq cs[c]

CliquesHang(cs) == \A k \in DOMAIN cs : k # 1 => HangsOn(cs[k], cs, k)

\* The cliques listed so far.
CliquesFit(g, V, cs) ==
  /\ cs \in Seq(SUBSET Node)
  /\ CliquesIn(V, cs) /\ CliquesMaximal(g, cs) /\ CliquesDiffer(cs) /\ CliquesHang(cs)

\* The clique that the search is at, after it numbered node n last and V before.
CliqueFits(g, n, V, cl, cs) ==
  /\ cl = (g[n] \cap V) \cup {n}
  /\ IsComplete(g, cl)
  /\ cs # <<>> => HangsOn(cl, cs, Len(cs) + 1)

Last == numbering[Len(numbering)]
Before == First(numbering, Len(numbering) - 1)

NumberingInv ==
  pc = "Search" =>
    /\ Len(numbering) \in 1 .. N-1 /\ numbering[1] = 0
    /\ IsMaxOrder(nbrs, numbering)
    /\ CliquesFit(nbrs, Before, cliques)
    /\ Len(numbering) = 1 => clique = {} /\ lastCard = 0 /\ cliques = <<>>
    /\ Len(numbering) # 1 =>
         /\ CliqueFits(nbrs, Last, Before, clique, cliques)
         /\ lastCard = Degree(nbrs, Last, Before)
         /\ Covers(nbrs, Numbered, clique, cliques)

\* The neighbours that an eliminated node had left are joined to one another.
TriangulateInv ==
  pc = "Triangulate" =>
    /\ Len(numbering) <= N
    /\ \A i \in DOMAIN numbering : IsComplete(nbrs, nbrs[numbering[i]] \ First(numbering, i))

\* Clique k is linked to an earlier one that holds all it shares with earlier ones.
IsLink(cs, k, c) ==
  /\ k \in DOMAIN cs /\ c \in DOMAIN cs /\ c < k
  /\ \A d \in DOMAIN cs : d < k => cs[k] \cap cs[d] \subseteq cs[c]

LinksFit(cs, t, K) ==
  /\ IsFiniteSet(t)
  /\ K = Cardinality(t) + 1
  /\ K <= Len(cs)
  /\ \A e \in t : e[1] \in 2 .. K /\ IsLink(cs, e[1], e[2])
  /\ \A k \in 2 .. K : \E e \in t : e[1] = k
  /\ \A d, e \in t : d[1] = e[1] => d = e

LinkInv ==
  /\ pc \in {"Link", "Built"} =>
       /\ CliquesFit(nbrs, Node, cliques)
       /\ Covers(nbrs, Node, {}, cliques)
       /\ connectTo \in 1 .. Cardinality(tree) + 1
       /\ LinksFit(cliques, tree, Cardinality(tree) + 1)
  /\ pc = "Built" => Cardinality(tree) + 1 = Len(cliques)
  /\ pc \notin {"Link", "Built"} => tree = {} /\ connectTo = 1

DomainsComplete ==
  /\ model \in Models /\ wanted \in Wanted
  /\ \A k \in DOMAIN model.domain : IsComplete(nbrs, model.domain[k])
  /\ pc # "Connect" => \A W \in wanted : IsComplete(nbrs, W)

BuildInv ==
  /\ BuildTypeOK
  /\ IsGraph(nbrs) /\ IsOrder(numbering)
  /\ DomainsComplete /\ NumberingInv /\ TriangulateInv /\ LinkInv
-----------------------------------------------------------------------------
(* Finite sets and sequences.                                                   *)

LEMMA NodesFinite ==
  ASSUME NEW S \in SUBSET Node
  PROVE  IsFiniteSet(S) /\ Cardinality(S) \in Nat /\ IsFiniteSet(Node) /\ Cardinality(Node) = N
<1>1. IsFiniteSet(Node) /\ Cardinality(Node) = N
  BY NodesAssumption, FS_Interval DEF Node
<1> QED
  BY <1>1, FS_Subset, FS_CardinalityType

\* A set is as large as one that holds it only if they are equal.
LEMMA NodesSubset ==
  ASSUME NEW T \in SUBSET Node, NEW S \in SUBSET T
  PROVE  /\ Cardinality(S) \in Nat /\ Cardinality(T) \in Nat
         /\ Cardinality(S) <= Cardinality(T)
         /\ Cardinality(S) >= Cardinality(T) => S = T
<1>1. IsFiniteSet(T) /\ Cardinality(T) \in Nat /\ Cardinality(S) \in Nat
  BY NodesFinite
<1>2. Cardinality(S) <= Cardinality(T) /\ (Cardinality(S) = Cardinality(T) => S = T)
  BY <1>1, FS_Subset
<1> QED
  BY <1>1, <1>2

LEMMA NodesRemove ==
  ASSUME NEW S \in SUBSET Node, NEW n \in S
  PROVE  Cardinality(S) \in Nat /\ Cardinality(S \ {n}) = Cardinality(S) - 1
<1>1. IsFiniteSet(S) /\ Cardinality(S) \in Nat
  BY NodesFinite
<1> QED
  BY <1>1, FS_RemoveElement

LEMMA SameSize ==
  ASSUME NEW S, NEW T, IsFiniteSet(S), NEW f \in Bijection(S, T)
  PROVE  IsFiniteSet(T) /\ Cardinality(T) = Cardinality(S)
  BY FS_Bijection DEF ExistsBijection

\* A nonempty set of numbers has a least element.
LEMMA LeastNat ==
  ASSUME NEW T \in SUBSET Nat, T # {}
  PROVE  \E n \in T : \A k \in T : n <= k
<1> DEFINE Less == {p \in Nat \X Nat : p[1] < p[2]}
<1>1. OpToRel(<, Nat) = Less
  BY Zenon DEF OpToRel
<1>2. IsWellFoundedOn(Less, Nat)
  BY <1>1, NatLessThanWellFounded, Zenon
<1>3. \E n \in T : \A k \in T : ~ (<<k, n>> \in Less)
  <2> HIDE DEF Less
  <2> QED
    BY <1>2, WFMin, Zenon
<1>4. PICK n \in T : \A k \in T : ~ (<<k, n>> \in Less)
  BY <1>3
<1>5. ASSUME NEW k \in T PROVE n <= k
  <2>1. <<k, n>> \in Nat \X Nat
    OBVIOUS
  <2>2. ~ (k < n)
    BY <1>4, <2>1
  <2> QED
    BY <2>1, <2>2
<1> QED
  BY <1>5

\* A nonempty set of numbers with an upper bound has a greatest element.
LEMMA GreatestNat ==
  ASSUME NEW b \in Nat, NEW T \in SUBSET (0 .. b), T # {}
  PROVE  \E n \in T : \A k \in T : k <= n
<1> DEFINE D == {b - k : k \in T}
<1>1. D \in SUBSET Nat /\ D # {}
  <2>1. \A k \in T : b - k \in Nat
    OBVIOUS
  <2> QED
    BY <2>1
<1>2. PICK d \in D : \A e \in D : d <= e
  BY <1>1, LeastNat
<1>3. PICK n \in T : d = b - n
  OBVIOUS
<1>4. \A k \in T : k <= n
  BY <1>2, <1>3
<1> QED
  BY <1>4

LEMMA AppendItems ==
  ASSUME NEW T, NEW s \in Seq(T), NEW e \in T
  PROVE  /\ Append(s, e) \in Seq(T) /\ Len(Append(s, e)) = Len(s) + 1 /\ Len(s) \in Nat
         /\ DOMAIN s = 1 .. Len(s) /\ DOMAIN Append(s, e) = 1 .. Len(s) + 1
         /\ \A i \in 1 .. Len(s) : Append(s, e)[i] = s[i] /\ s[i] \in T
         /\ Append(s, e)[Len(s) + 1] = e
  OBVIOUS

-----------------------------------------------------------------------------
(* Graphs.                                                                      *)

\* FormCliqueFromSubgraph only adds edges, and joins the nodes of the sets.
LEMMA WithCliquesJoins ==
  ASSUME NEW g, IsGraph(g), NEW C \in SUBSET SUBSET Node
  PROVE  /\ IsGraph(WithCliques(g, C))
         /\ \A S \in SUBSET Node : IsComplete(g, S) => IsComplete(WithCliques(g, C), S)
         /\ \A S \in C : IsComplete(WithCliques(g, C), S)
<1> DEFINE h == WithCliques(g, C)
<1>1. h \in [Node -> SUBSET Node]
  BY DEF WithCliques, IsGraph
<1>2. \A n \in Node : h[n] = g[n] \cup {k \in Node : k # n /\ \E S \in C : {n, k} \subseteq S}
  BY DEF WithCliques
<1> HIDE DEF h
<1>3. IsGraph(h)
  <2> SUFFICES ASSUME NEW a \in Node, NEW b \in Node, a \in h[b] PROVE b \in h[a] /\ a # b
    BY <1>1 DEF IsGraph
  <2>1. CASE a \in g[b]
    BY <2>1, <1>2 DEF IsGraph
  <2>2. CASE a \notin g[b]
    <3>1. PICK S \in C : {b, a} \subseteq S /\ a # b
      BY <2>2, <1>2
    <3> QED
      BY <3>1, <1>2
  <2> QED
    BY <2>1, <2>2
<1>4. \A S \in SUBSET Node : IsComplete(g, S) => IsComplete(h, S)
  BY <1>2 DEF IsComplete
<1>5. \A S \in C : IsComplete(h, S)
  BY <1>2 DEF IsComplete
<1> QED
  BY <1>3, <1>4, <1>5 DEF h

\* A part of a complete set is complete.
LEMMA CompletePart ==
  ASSUME NEW g, NEW S, NEW T \in SUBSET S, IsComplete(g, S)
  PROVE  IsComplete(g, T)
  BY DEF IsComplete

\* A node and neighbours of it that are complete.
LEMMA CompleteWith ==
  ASSUME NEW g, IsGraph(g), NEW n \in Node, NEW S \in SUBSET g[n], IsComplete(g, S)
  PROVE  IsComplete(g, S \cup {n})
  BY DEF IsComplete, IsGraph

-----------------------------------------------------------------------------
(* Orders.                                                                      *)

LEMMA FirstNodes ==
  ASSUME NEW nu \in Seq(Node), NEW i \in 0 .. Len(nu)
  PROVE  /\ First(nu, i) \in SUBSET Node
         /\ \A j \in 1 .. i : nu[j] \in First(nu, i)
         /\ First(nu, 0) = {}
         /\ First(nu, Len(nu)) = {nu[k] : k \in DOMAIN nu}
         /\ i # 0 => First(nu, i) = First(nu, i-1) \cup {nu[i]}
  BY DEF First

\* In an order the nodes before one do not have it.
LEMMA OrderFirst ==
  ASSUME NEW nu, IsOrder(nu), NEW i \in DOMAIN nu
  PROVE  nu[i] \in Node /\ nu[i] \notin First(nu, i-1)
  BY DEF IsOrder, First

LEMMA OrderAppend ==
  ASSUME NEW nu, IsOrder(nu), NEW n \in Node, n \notin First(nu, Len(nu))
  PROVE  /\ IsOrder(Append(nu, n))
         /\ Append(nu, n)[Len(nu) + 1] = n /\ Len(Append(nu, n)) = Len(nu) + 1
         /\ \A i \in 1 .. Len(nu) : Append(nu, n)[i] = nu[i]
         /\ \A i \in 0 .. Len(nu) : First(Append(nu, n), i) = First(nu, i)
         /\ First(Append(nu, n), Len(nu) + 1) = First(nu, Len(nu)) \cup {n}
<1> DEFINE mu == Append(nu, n)
<1>1. nu \in Seq(Node)
  BY DEF IsOrder
<1>2. /\ mu \in Seq(Node) /\ Len(mu) = Len(nu) + 1 /\ Len(nu) \in Nat
      /\ DOMAIN nu = 1 .. Len(nu) /\ DOMAIN mu = 1 .. Len(nu) + 1
      /\ \A i \in 1 .. Len(nu) : mu[i] = nu[i]
      /\ mu[Len(nu) + 1] = n
  BY <1>1, AppendItems
<1> HIDE DEF mu
<1>3. \A i \in 0 .. Len(nu) : First(mu, i) = First(nu, i)
  BY <1>2 DEF First
<1>4. First(mu, Len(nu) + 1) = First(mu, Len(nu)) \cup {mu[Len(nu) + 1]}
  BY <1>2, FirstNodes
<1>5. IsOrder(mu)
  BY <1>2 DEF IsOrder, First
<1> QED
  BY <1>2, <1>3, <1>4, <1>5 DEF mu

\* An order of as many nodes as there are has them all.
LEMMA OrderCount ==
  ASSUME NEW nu, IsOrder(nu)
  PROVE  /\ Cardinality(First(nu, Len(nu))) = Len(nu)
         /\ Len(nu) = N => First(nu, Len(nu)) = Node
<1>1. nu \in Seq(Node) /\ Len(nu) \in Nat /\ DOMAIN nu = 1 .. Len(nu)
  BY DEF IsOrder
<1>2. First(nu, Len(nu)) \in SUBSET Node
  BY <1>1, FirstNodes
<1>3. IsFiniteSet(1 .. Len(nu)) /\ Cardinality(1 .. Len(nu)) = Len(nu)
  BY <1>1, FS_Interval
<1>4. nu \in Bijection(1 .. Len(nu), First(nu, Len(nu)))
  BY <1>1 DEF IsOrder, First, Bijection, Injection, Surjection, IsInjective
<1>5. Cardinality(First(nu, Len(nu))) = Len(nu)
  BY <1>3, <1>4, SameSize
<1>6. Cardinality(Node) = N
  BY <1>2, NodesFinite
<1>7. Len(nu) = N => First(nu, Len(nu)) = Node
  BY <1>1, <1>2, <1>5, <1>6, NodesSubset, NodesAssumption
<1> QED
  BY <1>5, <1>7

-----------------------------------------------------------------------------
(* One step of the search.                                                      *)

\* One more clique.
LEMMA AppendClique ==
  ASSUME NEW g, NEW V, NEW cs, CliquesFit(g, V, cs),
         NEW W \in SUBSET Node, V \subseteq W, NEW cl \in SUBSET W,
         g[0] # {} => IsMaximalIn(g, cl),
         \A c \in DOMAIN cs : cs[c] # cl,
         cs # <<>> => HangsOn(cl, cs, Len(cs) + 1)
  PROVE  CliquesFit(g, W, Append(cs, cl))
<1> DEFINE bs == Append(cs, cl)
<1>1. cs \in Seq(SUBSET Node)
  BY DEF CliquesFit
<1>2. /\ bs \in Seq(SUBSET Node) /\ Len(cs) \in Nat
      /\ DOMAIN cs = 1 .. Len(cs) /\ DOMAIN bs = 1 .. Len(cs) + 1
      /\ \A i \in 1 .. Len(cs) : bs[i] = cs[i]
      /\ bs[Len(cs) + 1] = cl
  BY <1>1, AppendItems
<1> HIDE DEF bs
<1>3. CliquesIn(W, bs)
  BY <1>2 DEF CliquesFit, CliquesIn
<1>4. CliquesMaximal(g, bs)
  BY <1>2 DEF CliquesFit, CliquesMaximal
<1>5. CliquesDiffer(bs)
  BY <1>2 DEF CliquesFit, CliquesDiffer
<1>6. CliquesHang(bs)
  <2> SUFFICES ASSUME NEW k \in DOMAIN bs, k # 1 PROVE HangsOn(bs[k], bs, k)
    BY DEF CliquesHang
  <2>1. CASE k = Len(cs) + 1
    <3>1. cs # <<>>
      BY <2>1, <1>2
    <3> QED
      BY <3>1, <2>1, <1>2 DEF HangsOn
  <2>2. CASE k # Len(cs) + 1
    <3>1. k \in DOMAIN cs /\ HangsOn(cs[k], cs, k)
      BY <2>2, <1>2 DEF CliquesFit, CliquesHang
    <3>2. PICK c \in DOMAIN cs : c < k /\ \A d \in DOMAIN cs : d < k => cs[k] \cap cs[d] \subseteq cs[c]
      BY <3>1 DEF HangsOn
    <3>3. c \in DOMAIN bs /\ \A d \in DOMAIN bs : d < k => bs[k] \cap bs[d] \subseteq bs[c]
      BY <3>1, <3>2, <1>2
    <3> QED
      BY <3>2, <3>3 DEF HangsOn
  <2> QED
    BY <2>1, <2>2
<1> QED
  BY <1>2, <1>3, <1>4, <1>5, <1>6 DEF CliquesFit, bs

\* A set of nodes that lies in one of the cliques hangs on it.
LEMMA HangsInside ==
  ASSUME NEW cs \in Seq(SUBSET Node), NEW c \in DOMAIN cs, NEW S, S \subseteq cs[c], NEW n,
         \A d \in DOMAIN cs : n \notin cs[d]
  PROVE  HangsOn(S \cup {n}, cs, Len(cs) + 1)
<1>1. DOMAIN cs = 1 .. Len(cs) /\ Len(cs) \in Nat
  OBVIOUS
<1>2. c < Len(cs) + 1 /\ \A d \in DOMAIN cs : (S \cup {n}) \cap cs[d] \subseteq cs[c]
  BY <1>1
<1> QED
  BY <1>2 DEF HangsOn

\* V is B and one node more.
Extends(V, B, last) == last \in Node /\ last \notin B /\ V = B \cup {last}

\* The neighbours of n in V.
IsMet(g, n, V, met) == met = g[n] \cap V

\* The numbered neighbours of the next node hold the whole clique, and are it,
\* unless there are no more of them than the last node had.
LEMMA CliqueGrows ==
  ASSUME NEW g, IsGraph(g), NEW B \in SUBSET Node, NEW last, NEW V, Extends(V, B, last),
         NEW cl, cl = (g[last] \cap B) \cup {last},
         NEW n \in Node, n \notin V, NEW met, IsMet(g, n, V, met),
         Degree(g, n, B) <= Degree(g, last, B),
         IsComplete(g, met),
         Degree(g, n, V) >= Degree(g, last, B) + 1
  PROVE  met = cl
<1>0. PICK old : old = g[last] \cap B
  OBVIOUS
<1>1. met \in SUBSET Node /\ old \in SUBSET Node
  BY <1>0 DEF IsGraph, Extends, IsMet
<1>2. Cardinality(met) \in Nat /\ Cardinality(old) \in Nat
  BY <1>1, NodesFinite
<1>3. last \in met
  <2> SUFFICES ASSUME last \notin met PROVE FALSE
    OBVIOUS
  <2>1. met = g[n] \cap B /\ met = g[n] \cap V
    BY DEF Extends, IsMet
  <2>2. Degree(g, n, V) = Degree(g, n, B)
    BY <2>1 DEF Degree
  <2>3. Degree(g, n, B) \in Nat /\ Degree(g, last, B) \in Nat
    BY <2>1, <1>0, <1>2 DEF Degree
  <2> QED
    BY <2>2, <2>3
<1>4. Cardinality(met \ {last}) = Cardinality(met) - 1
  BY <1>1, <1>3, NodesRemove
<1>5. met \ {last} \subseteq old
  BY <1>0, <1>3 DEF Extends, IsMet, IsComplete, IsGraph
<1>6. Cardinality(met \ {last}) >= Cardinality(old)
  BY <1>0, <1>2, <1>4 DEF Degree, IsMet
<1>7. met \ {last} = old
  BY <1>1, <1>5, <1>6, NodesSubset
<1> QED
  BY <1>0, <1>3, <1>7

\* A clique that the search ends cannot be enlarged.
LEMMA CliqueEnds ==
  ASSUME NEW g, IsGraph(g), NEW B \in SUBSET Node, NEW last, NEW V, Extends(V, B, last),
         NEW cl, cl = (g[last] \cap B) \cup {last}, IsComplete(g, cl),
         \A k \in Node \ V : Degree(g, k, V) < Degree(g, last, B) + 1
  PROVE  IsMaximalIn(g, cl)
<1> SUFFICES ASSUME NEW k \in Node \ cl, IsComplete(g, cl \cup {k}) PROVE FALSE
  BY DEF IsMaximalIn
<1>0. PICK met, old : met = g[k] \cap V /\ old = g[last] \cap B
  OBVIOUS
<1>1. old \in SUBSET Node /\ cl \in SUBSET Node /\ met \in SUBSET Node /\ old = cl \ {last}
  BY <1>0 DEF IsGraph, Extends, IsMet
<1>2. k \notin B
  BY <1>0 DEF Extends, IsMet, IsComplete, IsGraph
<1>3. k \in Node \ V
  BY <1>2 DEF Extends
<1>4. cl \subseteq met
  BY <1>0 DEF Extends, IsMet, IsComplete, IsGraph
<1>5. Cardinality(cl) <= Cardinality(met) /\ Cardinality(cl) \in Nat /\ Cardinality(met) \in Nat
  BY <1>1, <1>4, NodesSubset
<1>6. Cardinality(old) = Cardinality(cl) - 1
  BY <1>1, NodesRemove
<1>7. Cardinality(met) < Cardinality(old) + 1
  BY <1>0, <1>3 DEF Degree
<1> QED
  BY <1>5, <1>6, <1>7

\* What stays true of the numbered nodes when another one is numbered.
LEMMA CoversNext ==
  ASSUME NEW g, IsGraph(g), NEW V \in SUBSET Node, NEW cl, NEW cs, Covers(g, V, cl, cs),
         NEW n \in Node, NEW met, IsMet(g, n, V, met), NEW bs,
         cl \subseteq met \/ \E c \in DOMAIN bs : bs[c] = cl,
         \A c \in DOMAIN cs : \E d \in DOMAIN bs : bs[d] = cs[c]
  PROVE  Covers(g, V \cup {n}, met \cup {n}, bs)
<1> SUFFICES ASSUME NEW S \in SUBSET (V \cup {n}), IsComplete(g, S),
                    ~(S \subseteq met \cup {n}), ~(0 \in S /\ g[0] = {})
             PROVE  \E c \in DOMAIN bs : S \subseteq bs[c]
  BY DEF Covers
<1>1. n \notin S
  <2> SUFFICES ASSUME n \in S PROVE FALSE
    OBVIOUS
  <2>1. \A k \in S : k # n => k \in g[n]
    BY DEF IsComplete
  <2> QED
    BY <2>1 DEF IsMet
<1>2. S \in SUBSET V
  BY <1>1
<1>3. S \subseteq cl \/ \E c \in DOMAIN cs : S \subseteq cs[c]
  BY <1>2 DEF Covers
<1> QED
  BY <1>3

\* What the search has listed when it goes on to the next node: with the clique it
\* is at, if the numbered neighbours of the next node do not hold that clique.
IsListed(g, n, V, cl, lc, cs, bs) ==
  bs = IF Degree(g, n, V) < lc + 1 THEN Append(cs, cl) ELSE cs

\* The search goes on from a node with others before it.
LEMMA NumberingStep ==
  ASSUME NEW g, IsGraph(g), NEW B \in SUBSET Node, NEW last, NEW V, Extends(V, B, last),
         NEW cl, NEW cs,
         CliquesFit(g, B, cs), CliqueFits(g, last, B, cl, cs), Covers(g, V, cl, cs),
         \A k \in Node \ B : Degree(g, k, B) <= Degree(g, last, B),
         NEW n \in Node \ V, \A k \in Node \ V : Degree(g, k, V) <= Degree(g, n, V),
         NEW met, IsMet(g, n, V, met), IsComplete(g, met),
         NEW bs, IsListed(g, n, V, cl, Degree(g, last, B), cs, bs)
  PROVE  /\ CliquesFit(g, V, bs)
         /\ CliqueFits(g, n, V, met \cup {n}, bs)
         /\ Covers(g, V \cup {n}, met \cup {n}, bs)
<1>1. /\ V \in SUBSET Node /\ met \in SUBSET Node /\ n \notin met /\ met \in SUBSET V
      /\ cl \in SUBSET V /\ cl \in SUBSET Node /\ last \in cl /\ B \subseteq V /\ last \notin B
      /\ IsComplete(g, cl) /\ cs \in Seq(SUBSET Node)
      /\ n \in Node /\ n \notin V /\ last \in Node
  BY DEF Extends, IsMet, IsGraph, CliqueFits, CliquesFit
<1>2. IsComplete(g, met \cup {n})
  BY DEF IsMet, IsComplete, IsGraph
<1>3. \A k \in Node : Degree(g, k, V) \in Nat /\ Degree(g, k, B) \in Nat
  <2> TAKE k \in Node
  <2>1. g[k] \cap V \in SUBSET Node /\ g[k] \cap B \in SUBSET Node
    BY <1>1
  <2> QED
    BY <2>1, NodesFinite DEF Degree
<1>4. cs # <<>> => HangsOn(cl, cs, Len(cs) + 1)
  BY DEF CliqueFits
<1>5. /\ Append(cs, cl) \in Seq(SUBSET Node) /\ Len(cs) \in Nat
      /\ DOMAIN cs = 1 .. Len(cs) /\ DOMAIN Append(cs, cl) = 1 .. Len(cs) + 1
      /\ \A i \in 1 .. Len(cs) : Append(cs, cl)[i] = cs[i]
      /\ Append(cs, cl)[Len(cs) + 1] = cl
  BY <1>1, AppendItems
<1>6. CASE Degree(g, n, V) < Degree(g, last, B) + 1
  <2>1. bs = Append(cs, cl)
    BY <1>6 DEF IsListed
  <2>2. \A k \in Node \ V : Degree(g, k, V) < Degree(g, last, B) + 1
    <3> TAKE k \in Node \ V
    <3>1. Degree(g, k, V) <= Degree(g, n, V) /\ k \in Node
      OBVIOUS
    <3> QED
      BY <3>1, <1>1, <1>3, <1>6
  <2>3. IsMaximalIn(g, cl)
    <3>1. cl = (g[last] \cap B) \cup {last}
      BY DEF CliqueFits
    <3> QED
      BY <1>1, <2>2, <3>1, CliqueEnds
  <2>4. \A c \in DOMAIN cs : cs[c] # cl
    BY <1>1 DEF CliquesFit, CliquesIn
  <2>5. CliquesFit(g, V, bs)
    BY <2>1, <2>3, <2>4, <1>1, <1>4, AppendClique
  <2>6. /\ cl \subseteq met \/ \E c \in DOMAIN bs : bs[c] = cl
        /\ \A c \in DOMAIN cs : \E d \in DOMAIN bs : bs[d] = cs[c]
    BY <2>1, <1>5
  <2>7. Covers(g, V \cup {n}, met \cup {n}, bs)
    BY <1>1, <2>6, CoversNext
  <2>8. \E c \in DOMAIN bs : met \subseteq bs[c]
    <3>1. (0 \in met /\ g[0] = {}) \/ met \subseteq cl \/ \E c \in DOMAIN cs : met \subseteq cs[c]
      BY <1>1 DEF Covers
    <3>2. ~(0 \in met /\ g[0] = {})
      BY <1>1 DEF IsGraph, IsMet
    <3> QED
      BY <3>1, <3>2, <2>6, <2>1, <1>5
  <2>9. HangsOn(met \cup {n}, bs, Len(bs) + 1)
    <3>1. PICK c \in DOMAIN bs : met \subseteq bs[c]
      BY <2>8
    <3>2. bs \in Seq(SUBSET Node) /\ \A d \in DOMAIN bs : n \notin bs[d]
      BY <2>5, <1>1 DEF CliquesFit, CliquesIn
    <3> QED
      BY <3>1, <3>2, HangsInside
  <2> QED
    BY <2>5, <2>7, <2>9, <1>2 DEF CliqueFits, IsMet
<1>7. CASE ~(Degree(g, n, V) < Degree(g, last, B) + 1)
  <2>1. bs = cs
    BY <1>7 DEF IsListed
  <2>2. Degree(g, n, V) >= Degree(g, last, B) + 1
    BY <1>1, <1>3, <1>7
  <2>3. met = cl
    <3>1. Degree(g, n, B) <= Degree(g, last, B)
      BY <1>1
    <3>2. cl = (g[last] \cap B) \cup {last}
      BY DEF CliqueFits
    <3> QED
      BY <1>1, <2>2, <3>1, <3>2, CliqueGrows
  <2>4. CliquesFit(g, V, bs)
    BY <2>1, <1>1 DEF CliquesFit, CliquesIn
  <2>5. Covers(g, V \cup {n}, met \cup {n}, bs)
    <3>1. cl \subseteq met \/ \E c \in DOMAIN bs : bs[c] = cl
      BY <2>3
    <3>2. \A c \in DOMAIN cs : \E d \in DOMAIN bs : bs[d] = cs[c]
      BY <2>1
    <3> QED
      BY <1>1, <3>1, <3>2, CoversNext
  <2>6. bs # <<>> => HangsOn(met \cup {n}, bs, Len(bs) + 1)
    <3> SUFFICES ASSUME bs # <<>> PROVE HangsOn(met \cup {n}, bs, Len(bs) + 1)
      OBVIOUS
    <3>1. PICK c \in DOMAIN bs : c < Len(bs) + 1 /\ \A d \in DOMAIN bs : d < Len(bs) + 1 => cl \cap bs[d] \subseteq bs[c]
      BY <1>4, <2>1 DEF HangsOn
    <3>2. \A d \in DOMAIN bs : n \notin bs[d]
      BY <2>4, <1>1 DEF CliquesFit, CliquesIn
    <3>3. \A d \in DOMAIN bs : d < Len(bs) + 1 => (met \cup {n}) \cap bs[d] \subseteq bs[c]
      <4> TAKE d \in DOMAIN bs
      <4>1. n \notin bs[d] /\ (d < Len(bs) + 1 => met \cap bs[d] \subseteq bs[c])
        BY <3>1, <3>2, <2>3
      <4> QED
        BY <4>1
    <3> QED
      BY <3>1, <3>3 DEF HangsOn
  <2> QED
    BY <2>4, <2>5, <2>6, <1>2 DEF CliqueFits, IsMet
<1> QED
  BY <1>6, <1>7

\* The search goes on from the first node.
LEMMA SearchFirst ==
  ASSUME NEW g, IsGraph(g), 0 \in Node, NEW n \in Node, n # 0,
         \A k \in Node \ {0} : Degree(g, k, {0}) <= Degree(g, n, {0}),
         NEW met, met = g[n] \cap {0},
         NEW bs, IsListed(g, n, {0}, {}, 0, <<>>, bs)
  PROVE  /\ CliquesFit(g, {0}, bs)
         /\ CliqueFits(g, n, {0}, met \cup {n}, bs)
         /\ Covers(g, {0, n}, met \cup {n}, bs)
<1>1. IsComplete(g, met \cup {n})
  BY DEF IsComplete, IsGraph
<1>2. Cardinality({}) = 0 /\ Cardinality({0}) = 1
  BY FS_EmptySet, FS_Singleton
<1>3. \A k \in Node : Degree(g, k, {0}) = IF 0 \in g[k] THEN 1 ELSE 0
  <2> TAKE k \in Node
  <2>1. g[k] \cap {0} = IF 0 \in g[k] THEN {0} ELSE {}
    OBVIOUS
  <2> QED
    BY <2>1, <1>2 DEF Degree
<1>4. CliquesFit(g, {0}, <<>>) /\ CliquesFit(g, {}, <<>>)
  BY DEF CliquesFit, CliquesIn, CliquesMaximal, CliquesDiffer, CliquesHang
<1>5. CASE 0 \in g[n]
  <2>1. bs = <<>> /\ met = {0}
    BY <1>3, <1>5 DEF IsListed
  <2>2. Covers(g, {0, n}, met \cup {n}, bs)
    BY <2>1 DEF Covers
  <2> QED
    BY <1>1, <1>4, <2>1, <2>2 DEF CliqueFits
<1>6. CASE 0 \notin g[n]
  <2>1. g[0] = {}
    <3> SUFFICES ASSUME NEW k \in g[0] PROVE FALSE
      OBVIOUS
    <3>1. k \in Node \ {0} /\ 0 \in g[k]
      BY DEF IsGraph
    <3> QED
      BY <3>1, <1>1, <1>3, <1>6
  <2>2. bs = Append(<<>>, {}) /\ met = {}
    BY <1>3, <1>6 DEF IsListed
  <2>3. CliquesFit(g, {0}, bs)
    <3>1. {} \in SUBSET {0} /\ {0} \in SUBSET Node /\ (g[0] # {} => IsMaximalIn(g, {}))
      BY <2>1
    <3>2. \A c \in DOMAIN <<>> : <<>>[c] # {}
      OBVIOUS
    <3> QED
      BY <1>4, <2>2, <3>1, <3>2, AppendClique
  <2>4. Covers(g, {0, n}, met \cup {n}, bs)
    BY <2>1, <2>2 DEF Covers, IsComplete
  <2>5. bs \in Seq(SUBSET Node) /\ 1 \in DOMAIN bs /\ met \subseteq bs[1] /\ \A d \in DOMAIN bs : n \notin bs[d]
    <3>1. <<>> \in Seq(SUBSET Node) /\ {} \in SUBSET Node
      OBVIOUS
    <3>2. bs \in Seq(SUBSET Node) /\ DOMAIN bs = 1 .. 1 /\ bs[1] = {}
      BY <2>2, <3>1
    <3> QED
      BY <2>2, <3>2
  <2>6. HangsOn(met \cup {n}, bs, Len(bs) + 1)
    BY <2>5, HangsInside
  <2> QED
    BY <1>1, <2>3, <2>4, <2>6 DEF CliqueFits
<1> QED
  BY <1>5, <1>6

\* The search lists the clique of the last node.
LEMMA SearchLast ==
  ASSUME NEW g, IsGraph(g), NEW V, NEW n \in Node, n \notin V, V \cup {n} = Node,
         NEW cl, NEW cs,
         CliquesFit(g, V, cs), CliqueFits(g, n, V, cl, cs), Covers(g, Node, cl, cs)
  PROVE  /\ CliquesFit(g, Node, Append(cs, cl))
         /\ Covers(g, Node, {}, Append(cs, cl))
         /\ Len(Append(cs, cl)) >= 1
<1>1. /\ V \in SUBSET Node /\ cl = (g[n] \cap V) \cup {n} /\ cl \in SUBSET Node
      /\ IsComplete(g, cl) /\ cs \in Seq(SUBSET Node)
  BY DEF CliqueFits, CliquesFit
<1>2. IsMaximalIn(g, cl)
  BY <1>1 DEF IsMaximalIn, IsComplete, IsGraph
<1>3. \A c \in DOMAIN cs : cs[c] # cl
  BY <1>1 DEF CliquesFit, CliquesIn
<1>4. cs # <<>> => HangsOn(cl, cs, Len(cs) + 1)
  BY DEF CliqueFits
<1>5. CliquesFit(g, Node, Append(cs, cl))
  BY <1>1, <1>2, <1>3, <1>4, AppendClique
<1>6. /\ Append(cs, cl) \in Seq(SUBSET Node) /\ Len(cs) \in Nat /\ Len(Append(cs, cl)) = Len(cs) + 1
      /\ DOMAIN cs = 1 .. Len(cs) /\ DOMAIN Append(cs, cl) = 1 .. Len(cs) + 1
      /\ \A i \in 1 .. Len(cs) : Append(cs, cl)[i] = cs[i]
      /\ Append(cs, cl)[Len(cs) + 1] = cl
  BY <1>1, AppendItems
<1>7. Covers(g, Node, {}, Append(cs, cl))
  BY <1>6 DEF Covers
<1> QED
  BY <1>5, <1>6, <1>7

-----------------------------------------------------------------------------
(* The links.                                                                   *)

\* The first of some cliques.
LEMMA Smallest ==
  ASSUME NEW S \in SUBSET Nat, S # {}
  PROVE  SmallestOf(S) \in S
  BY LeastNat DEF SmallestOf

\* The clique with the largest overlap holds all that a clique shares with earlier
\* ones, if one of them does.
LEMMA BestIsLink ==
  ASSUME BuildTypeOK, NEW k \in DOMAIN cliques, k # 1,
         HangsOn(cliques[k], cliques, k), connectTo \in 1 .. k-1
  PROVE  IsLink(cliques, k, BestLink(k))
<1> DEFINE best == {c \in 1 .. k-1 : Overlap(c, k) > 0 /\ \A d \in 1 .. k-1 : Overlap(d, k) <= Overlap(c, k)}
<1>1. /\ k \in Nat /\ DOMAIN cliques = 1 .. Len(cliques) /\ Len(cliques) \in Nat
      /\ \A c \in DOMAIN cliques : cliques[c] \in SUBSET Node
  BY DEF BuildTypeOK
<1>2. PICK c \in DOMAIN cliques : c < k /\ \A d \in DOMAIN cliques : d < k => cliques[k] \cap cliques[d] \subseteq cliques[c]
  BY DEF HangsOn
<1>3. \A d \in 1 .. k-1 : d \in DOMAIN cliques /\ d < k /\ Overlap(d, k) \in Nat
  <2> TAKE d \in 1 .. k-1
  <2>1. d \in DOMAIN cliques /\ d < k
    BY <1>1
  <2>2. cliques[d] \cap cliques[k] \in SUBSET Node
    BY <2>1, <1>1
  <2> QED
    BY <2>1, <2>2, NodesFinite DEF Overlap
<1>4. c \in 1 .. k-1 /\ \A d \in 1 .. k-1 : Overlap(d, k) <= Overlap(c, k)
  <2>1. c \in 1 .. k-1
    BY <1>1, <1>2
  <2>2. \A d \in 1 .. k-1 : Overlap(d, k) <= Overlap(c, k)
    <3> TAKE d \in 1 .. k-1
    <3>1. PICK S, T : S = cliques[d] \cap cliques[k] /\ T = cliques[c] \cap cliques[k]
      OBVIOUS
    <3>2. S \in SUBSET T /\ T \in SUBSET Node
      BY <3>1, <1>1, <1>2, <1>3
    <3> QED
      BY <3>1, <3>2, NodesSubset DEF Overlap
  <2> QED
    BY <2>1, <2>2
<1>5. CASE best = {}
  <2>1. BestLink(k) = connectTo
    BY <1>5 DEF BestLink
  <2>2. Overlap(c, k) = 0
    BY <1>3, <1>4, <1>5
  <2>3. \A d \in DOMAIN cliques : d < k => cliques[k] \cap cliques[d] = {}
    <3> SUFFICES ASSUME NEW d \in DOMAIN cliques, d < k PROVE cliques[k] \cap cliques[d] = {}
      OBVIOUS
    <3>1. PICK S : S = cliques[d] \cap cliques[k]
      OBVIOUS
    <3>2. d \in 1 .. k-1
      BY <1>1
    <3>3. Cardinality(S) = 0
      BY <3>1, <3>2, <1>3, <1>4, <2>2 DEF Overlap
    <3>4. S \in SUBSET Node
      BY <3>1, <1>1
    <3>5. S = {}
      BY <3>3, <3>4, NodesFinite, FS_EmptySet
    <3> QED
      BY <3>1, <3>5
  <2>4. connectTo \in DOMAIN cliques /\ connectTo < k
    BY <1>3
  <2> QED
    BY <2>1, <2>3, <2>4 DEF IsLink
<1>6. CASE best # {}
  <2>1. best \in SUBSET Nat /\ BestLink(k) = SmallestOf(best)
    BY <1>6 DEF BestLink
  <2> HIDE DEF best
  <2>2. BestLink(k) \in best
    BY <1>6, <2>1, Smallest
  <2>3. PICK b : b = BestLink(k)
    OBVIOUS
  <2>4. b \in 1 .. k-1 /\ Overlap(c, k) <= Overlap(b, k)
    BY <2>2, <2>3, <1>4 DEF best
  <2>5. PICK S, T : S = cliques[b] \cap cliques[k] /\ T = cliques[c] \cap cliques[k]
    OBVIOUS
  <2>6. S \in SUBSET T /\ T \in SUBSET Node
    BY <2>4, <2>5, <1>1, <1>2, <1>3
  <2>7. Cardinality(S) >= Cardinality(T)
    BY <2>4, <2>5, <2>6, NodesSubset DEF Overlap
  <2>8. S = T
    BY <2>6, <2>7, NodesSubset
  <2>9. \A d \in DOMAIN cliques : d < k => cliques[k] \cap cliques[d] \subseteq cliques[b]
    BY <2>5, <2>8, <1>2
  <2> QED
    BY <2>3, <2>4, <2>9, <1>3 DEF IsLink
<1> QED
  BY <1>5, <1>6

\* The first clique needs no link.
LEMMA LinksStart ==
  ASSUME NEW cs, Len(cs) \in Nat, Len(cs) >= 1
  PROVE  LinksFit(cs, {}, Cardinality({}) + 1) /\ Cardinality({}) = 0
  BY FS_EmptySet DEF LinksFit

WithLink(t, k, c) == t \cup {<<k, c>>}

\* The links with one more.
LEMMA LinksNext ==
  ASSUME NEW cs \in Seq(SUBSET Node), NEW t, NEW K \in Nat, NEW k \in Nat, NEW c,
         LinksFit(cs, t, K), k = K + 1, IsLink(cs, k, c)
  PROVE  LinksFit(cs, WithLink(t, k, c), k) /\ Cardinality(WithLink(t, k, c)) = K
<1> DEFINE u == WithLink(t, k, c)
<1>0. u = t \cup {<<K + 1, c>>}
  BY DEF WithLink
<1>1. /\ IsFiniteSet(t) /\ K = Cardinality(t) + 1 /\ Cardinality(t) \in Nat
      /\ DOMAIN cs = 1 .. Len(cs) /\ Len(cs) \in Nat
  BY FS_CardinalityType DEF LinksFit
<1>2. <<K + 1, c>> \notin t
  BY <1>1 DEF LinksFit
<1>3. IsFiniteSet(u) /\ Cardinality(u) = K
  BY <1>0, <1>1, <1>2, FS_AddElement
<1>4. K + 1 <= Len(cs)
  BY <1>1 DEF IsLink
<1>5. \A e \in u : e[1] \in 2 .. K + 1 /\ IsLink(cs, e[1], e[2])
  BY <1>0, <1>1 DEF LinksFit
<1>6. \A j \in 2 .. K + 1 : \E e \in u : e[1] = j
  <2> TAKE j \in 2 .. K + 1
  <2>1. CASE j = K + 1
    <3>1. <<K + 1, c>> \in u /\ <<K + 1, c>>[1] = K + 1
      BY <1>0
    <3> QED
      BY <2>1, <3>1
  <2>2. CASE j # K + 1
    <3>1. j \in 2 .. K
      BY <2>2, <1>1
    <3> QED
      BY <3>1, <1>0 DEF LinksFit
  <2> QED
    BY <2>1, <2>2
<1>7. \A d, e \in u : d[1] = e[1] => d = e
  BY <1>0, <1>1 DEF LinksFit
<1> HIDE DEF u
<1>8. LinksFit(cs, u, k)
  BY <1>1, <1>3, <1>4, <1>5, <1>6, <1>7 DEF LinksFit
<1> QED
  BY <1>3, <1>8 DEF u

CliquesWith(cs, n) == {k \in DOMAIN cs : n \in cs[k]}
LinksAmong(t, at) == {e \in t : e[1] \in at /\ e[2] \in at}

\* The cliques of a node hang together: each of them but the first is linked to
\* another one.
LEMMA LinksJoin ==
  ASSUME NEW cs \in Seq(SUBSET Node), NEW t, NEW n \in Node, NEW at,
         LinksFit(cs, t, Len(cs)), at = CliquesWith(cs, n), at # {}
  PROVE  Cardinality(LinksAmong(t, at)) = Cardinality(at) - 1
<1>0. at = {k \in DOMAIN cs : n \in cs[k]}
  BY DEF CliquesWith
<1>1. DOMAIN cs = 1 .. Len(cs) /\ Len(cs) \in Nat /\ IsFiniteSet(t)
  BY DEF LinksFit
<1>2. IsFiniteSet(at) /\ Cardinality(at) \in Nat /\ at \in SUBSET Nat
  <2>1. at \in SUBSET (1 .. Len(cs)) /\ at \in SUBSET Nat
    BY <1>0, <1>1
  <2>2. IsFiniteSet(1 .. Len(cs))
    BY <1>1, FS_Interval
  <2> QED
    BY <2>1, <2>2, FS_Subset, FS_CardinalityType
<1>3. PICK first \in at : \A k \in at : first <= k
  BY <1>2, LeastNat
<1>4. PICK among : among = LinksAmong(t, at) /\ among = {e \in t : e[1] \in at /\ e[2] \in at}
  BY DEF LinksAmong
<1>5. \A k \in at \ {first} : \E e \in among : e[1] = k
  <2> TAKE k \in at \ {first}
  <2>1. k \in 2 .. Len(cs) /\ first < k
    BY <1>0, <1>1, <1>3
  <2>2. PICK e \in t : e[1] = k
    BY <2>1 DEF LinksFit
  <2>3. IsLink(cs, k, e[2])
    BY <2>2 DEF LinksFit
  <2>4. e[2] \in at
    BY <2>1, <2>3, <1>0 DEF IsLink
  <2> QED
    BY <2>2, <2>4, <1>4
<1>6. \A e \in among : e[1] \in at \ {first}
  <2> SUFFICES ASSUME NEW e \in among PROVE e[1] \in at \ {first}
    OBVIOUS
  <2>1. e \in t /\ e[1] \in at /\ e[2] \in at
    BY <1>4
  <2>2. IsLink(cs, e[1], e[2])
    BY <2>1 DEF LinksFit
  <2>3. e[2] < e[1] /\ first <= e[2] /\ e[2] \in Nat /\ e[1] \in Nat /\ first \in Nat
    BY <2>1, <2>2, <1>2, <1>3 DEF IsLink
  <2>4. e[1] # first
    BY <2>3
  <2> QED
    BY <2>1, <2>4
<1>7. \A d, e \in among : d[1] = e[1] => d = e
  BY <1>4 DEF LinksFit
<1>8. IsFiniteSet(among)
  BY <1>1, <1>4, FS_Subset
<1>9. PICK f : f = [e \in among |-> e[1]]
  OBVIOUS
<1>10. f \in Bijection(among, at \ {first})
  <2>1. f \in [among -> at \ {first}]
    BY <1>6, <1>9
  <2>2. \A d, e \in among : f[d] = f[e] => d = e
    BY <1>7, <1>9
  <2>3. \A k \in at \ {first} : \E e \in among : f[e] = k
    BY <1>5, <1>9
  <2> QED
    BY <2>1, <2>2, <2>3 DEF Bijection, Injection, Surjection, IsInjective
<1>11. Cardinality(at \ {first}) = Cardinality(among)
  BY <1>8, <1>10, SameSize
<1>12. Cardinality(at \ {first}) = Cardinality(at) - 1
  BY <1>2, FS_RemoveElement
<1> QED
  BY <1>4, <1>11, <1>12

-----------------------------------------------------------------------------
(* The invariant.                                                               *)

\* The nodes numbered so far, and the next one.
LEMMA NumberedFirst ==
  ASSUME BuildTypeOK
  PROVE  /\ Numbered = First(numbering, Len(numbering)) /\ Numbered \in SUBSET Node
         /\ numbering \in Seq(Node) /\ Len(numbering) \in Nat
         /\ DOMAIN numbering = 1 .. Len(numbering)
  BY FirstNodes DEF BuildTypeOK, Numbered

LEMMA NextHighest ==
  ASSUME BuildTypeOK, Numbered # Node
  PROVE  /\ NextToNumber \in Node \ Numbered
         /\ \A k \in Node \ Numbered : Degree(nbrs, k, Numbered) <= Degree(nbrs, NextToNumber, Numbered)
<1>1. Numbered \in SUBSET Node
  BY NumberedFirst
<1>2. PICK left : left = Node \ Numbered
  OBVIOUS
<1>3. left \in SUBSET Node /\ left # {} /\ left \in SUBSET Nat
  <2>1. Node \in SUBSET Nat
    BY NodesAssumption DEF Node
  <2> QED
    BY <2>1, <1>1, <1>2
<1>4. \A k \in left : Cardinal(k) \in Nat /\ Cardinal(k) <= N /\ Cardinal(k) = Degree(nbrs, k, Numbered)
  <2> TAKE k \in left
  <2>1. PICK S : S = nbrs[k] \cap Numbered
    OBVIOUS
  <2>2. S \in SUBSET Node /\ Cardinality(Node) = N /\ Node \in SUBSET Node
    BY <2>1, <1>1, NodesFinite
  <2>3. Cardinality(S) \in Nat /\ Cardinality(S) <= N
    BY <2>2, NodesSubset
  <2> QED
    BY <2>1, <2>3 DEF Cardinal, Degree
<1>5. \E n \in left : \A k \in left : Cardinal(k) <= Cardinal(n)
  <2> DEFINE T == {N - Cardinal(k) : k \in left}
  <2>1. T \in SUBSET Nat /\ T # {}
    <3>1. \A k \in left : N - Cardinal(k) \in Nat
      BY <1>4, NodesAssumption
    <3> QED
      BY <3>1, <1>3
  <2> HIDE DEF T
  <2>2. PICK m \in T : \A k \in T : m <= k
    BY <2>1, LeastNat
  <2>3. PICK n \in left : m = N - Cardinal(n)
    BY DEF T
  <2>4. \A k \in left : N - Cardinal(k) \in T
    BY DEF T
  <2> QED
    BY <2>2, <2>3, <2>4, <1>4, NodesAssumption
<1>6. PICK S : S = {n \in left : \A k \in left : Cardinal(k) <= Cardinal(n)}
  OBVIOUS
<1>7. S \in SUBSET Nat /\ S # {}
  BY <1>3, <1>5, <1>6
<1>8. SmallestOf(S) \in S
  BY <1>7, Smallest
<1>9. NextToNumber = SmallestOf(S)
  BY <1>2, <1>6 DEF NextToNumber
<1> QED
  BY <1>2, <1>4, <1>6, <1>8, <1>9

LEMMA ConnectKeeps ==
  ASSUME BuildInv, AssureSubGraphsConnectedInCliques
  PROVE  BuildInv'
<1> USE DEF BuildInv
<1>1. /\ pc = "Connect" /\ pc' = "Search" /\ nbrs' = WithCliques(nbrs, wanted)
      /\ numbering' = <<0>> /\ clique' = {} /\ lastCard' = 0 /\ cliques' = <<>>
      /\ UNCHANGED <<model, wanted, connectTo, tree>>
  BY DEF AssureSubGraphsConnectedInCliques, StartSearch
<1>2. 0 \in Node /\ N \in Nat /\ N >= 2
  BY NodesAssumption, JtreeBuildAssumption DEF Node
<1>3. wanted \in SUBSET SUBSET Node
  BY JtreeBuildAssumption DEF DomainsComplete
<1>4. /\ IsGraph(nbrs')
      /\ \A S \in SUBSET Node : IsComplete(nbrs, S) => IsComplete(nbrs', S)
      /\ \A S \in wanted : IsComplete(nbrs', S)
  BY <1>1, <1>3, WithCliquesJoins
<1>5. BuildTypeOK'
  BY <1>1, <1>2, <1>4 DEF BuildTypeOK, IsGraph
<1>6. IsOrder(numbering)'
  BY <1>1, <1>2 DEF IsOrder
<1>7. DomainsComplete'
  <2>1. \A k \in DOMAIN model.domain : model.domain[k] \in SUBSET Node
    BY JtreeBuildAssumption DEF DomainsComplete, IsModel
  <2> QED
    BY <2>1, <1>1, <1>4 DEF DomainsComplete
<1>8. NumberingInv'
  <2>1. Len(numbering') = 1 /\ numbering'[1] = 0 /\ DOMAIN numbering' = 1 .. 1
    BY <1>1
  <2>2. IsMaxOrder(nbrs, numbering)'
    BY <2>1 DEF IsMaxOrder
  <2>3. CliquesFit(nbrs', First(numbering', 0), <<>>)
    BY DEF CliquesFit, CliquesIn, CliquesMaximal, CliquesDiffer, CliquesHang
  <2> QED
    BY <2>1, <2>2, <2>3, <1>1, <1>2 DEF NumberingInv, Before
<1>9. TriangulateInv' /\ LinkInv'
  BY <1>1 DEF TriangulateInv, LinkInv
<1> QED
  BY <1>4, <1>5, <1>6, <1>7, <1>8, <1>9

LEMMA NumberKeeps ==
  ASSUME BuildInv, NumberNode
  PROVE  BuildInv'
<1> USE DEF BuildInv
<1>1. pc = "Search" /\ Len(numbering) < N /\ StaysChordal(NextToNumber)
  BY DEF NumberNode
<1>2. PICK V, m : V = Numbered /\ m = Len(numbering)
  OBVIOUS
<1>3. PICK node, met : node = NextToNumber /\ met = nbrs[node] \cap V
  OBVIOUS
<1>4. PICK before : before = IF EndsClique(Cardinality(met)) THEN Append(cliques, clique) ELSE cliques
  OBVIOUS
<1>5. /\ numbering' = Append(numbering, node) /\ clique' = met \cup {node}
      /\ lastCard' = Cardinality(met)
      /\ cliques' = IF m = N - 1 THEN Append(before, met \cup {node}) ELSE before
      /\ pc' = IF m = N - 1 THEN "Link" ELSE "Search"
      /\ UNCHANGED <<model, wanted, nbrs, connectTo, tree>>
  BY <1>2, <1>3, <1>4 DEF NumberNode
<1>6. /\ V = First(numbering, m) /\ V \in SUBSET Node /\ numbering \in Seq(Node)
      /\ DOMAIN numbering = 1 .. m /\ m \in 1 .. N-1 /\ N \in Nat /\ N >= 2
  BY <1>1, <1>2, NumberedFirst, NodesAssumption, JtreeBuildAssumption DEF NumberingInv
<1>7. V # Node
  <2>1. Cardinality(V) = m /\ Cardinality(Node) = N
    BY <1>2, <1>6, OrderCount, NodesFinite
  <2> QED
    BY <2>1, <1>6
<1>8. node \in Node \ V /\ \A k \in Node \ V : Degree(nbrs, k, V) <= Degree(nbrs, node, V)
  BY <1>2, <1>3, <1>7, NextHighest
<1>9. PICK mu : mu = Append(numbering, node)
  OBVIOUS
<1>10. /\ IsOrder(mu) /\ mu[m + 1] = node /\ Len(mu) = m + 1
       /\ \A i \in 1 .. m : mu[i] = numbering[i]
       /\ \A i \in 0 .. m : First(mu, i) = First(numbering, i)
       /\ First(mu, m + 1) = V \cup {node}
  BY <1>2, <1>6, <1>8, <1>9, OrderAppend
<1>11. IsMaxOrder(nbrs, mu)
  <2> SUFFICES ASSUME NEW i \in DOMAIN mu, i # 1, NEW k \in Node \ First(mu, i-1)
               PROVE  Degree(nbrs, k, First(mu, i-1)) <= Degree(nbrs, mu[i], First(mu, i-1))
    BY DEF IsMaxOrder
  <2>1. DOMAIN mu = 1 .. m + 1
    BY <1>10 DEF IsOrder
  <2>2. CASE i = m + 1
    BY <2>2, <1>6, <1>8, <1>10
  <2>3. CASE i # m + 1
    <3>1. i \in DOMAIN numbering /\ i - 1 \in 0 .. m /\ mu[i] = numbering[i] /\ First(mu, i-1) = First(numbering, i-1)
      BY <2>1, <2>3, <1>6, <1>10
    <3>2. IsMaxOrder(nbrs, numbering)
      BY <1>1 DEF NumberingInv
    <3> QED
      BY <3>1, <3>2 DEF IsMaxOrder
  <2> QED
    BY <2>2, <2>3
<1>12. IsListed(nbrs, node, V, clique, lastCard, cliques, before)
  BY <1>3, <1>4 DEF IsListed, EndsClique, Degree
<1>13. /\ CliquesFit(nbrs, V, before)
       /\ CliqueFits(nbrs, node, V, met \cup {node}, before)
       /\ Covers(nbrs, V \cup {node}, met \cup {node}, before)
  <2>1. CASE m = 1
    <3>1. V = {0} /\ 0 \in Node /\ clique = {} /\ lastCard = 0 /\ cliques = <<>>
      <4>1. numbering[1] = 0 /\ clique = {} /\ lastCard = 0 /\ cliques = <<>>
        BY <2>1, <1>1, <1>2 DEF NumberingInv
      <4>2. First(numbering, 1) = {numbering[1]}
        BY DEF First
      <4> QED
        BY <4>1, <4>2, <2>1, <1>6
    <3>2. node \in Node /\ node # 0 /\ {0, node} = V \cup {node}
      BY <3>1, <1>8
    <3>3. met = nbrs[node] \cap {0}
      BY <3>1, <1>3
    <3>4. IsListed(nbrs, node, {0}, {}, 0, <<>>, before)
      BY <3>1, <1>12
    <3>5. \A k \in Node \ {0} : Degree(nbrs, k, {0}) <= Degree(nbrs, node, {0})
      BY <3>1, <1>8
    <3>6. /\ CliquesFit(nbrs, {0}, before)
          /\ CliqueFits(nbrs, node, {0}, met \cup {node}, before)
          /\ Covers(nbrs, {0, node}, met \cup {node}, before)
      BY <3>1, <3>2, <3>3, <3>4, <3>5, SearchFirst
    <3> QED
      BY <3>1, <3>2, <3>6
  <2>2. CASE m # 1
    <3>1. PICK B, last : B = First(numbering, m - 1) /\ last = numbering[m]
      OBVIOUS
    <3>2. /\ CliquesFit(nbrs, B, cliques) /\ CliqueFits(nbrs, last, B, clique, cliques)
          /\ Covers(nbrs, V, clique, cliques) /\ lastCard = Degree(nbrs, last, B)
          /\ IsMaxOrder(nbrs, numbering)
      BY <2>2, <3>1, <1>1, <1>2 DEF NumberingInv, Before, Last
    <3>3. m \in DOMAIN numbering /\ m # 0 /\ m \in 0 .. Len(numbering) /\ m - 1 \in 0 .. Len(numbering)
      BY <1>2, <1>6
    <3>4. Extends(V, B, last) /\ B \in SUBSET Node
      BY <3>1, <3>3, <1>6, FirstNodes, OrderFirst DEF Extends
    <3>5. \A k \in Node \ B : Degree(nbrs, k, B) <= Degree(nbrs, last, B)
      BY <3>1, <3>2, <3>3, <2>2 DEF IsMaxOrder
    <3>6. IsMet(nbrs, node, V, met) /\ IsComplete(nbrs, met)
      BY <1>1, <1>2, <1>3 DEF IsMet, StaysChordal
    <3>7. IsListed(nbrs, node, V, clique, Degree(nbrs, last, B), cliques, before)
      BY <3>2, <1>12
    <3> QED
      BY <3>2, <3>4, <3>5, <3>6, <3>7, <1>8, NumberingStep
  <2> QED
    BY <2>1, <2>2
<1>14. before \in Seq(SUBSET Node) /\ IsGraph(nbrs) /\ met \in SUBSET Node
  BY <1>3, <1>6, <1>13 DEF CliquesFit
<1>15. Cardinality(met) \in 0 .. N-1 /\ Cardinality(met) = Degree(nbrs, node, V)
  <2>1. PICK rest : rest = Node \ {node}
    OBVIOUS
  <2>2. rest \in SUBSET Node /\ met \in SUBSET rest /\ node \in Node
    BY <2>1, <1>3, <1>8, <1>14
  <2>3. Cardinality(rest) = N - 1
    <3>1. Node \in SUBSET Node /\ Cardinality(Node) = N
      BY NodesFinite
    <3> QED
      BY <2>1, <2>2, <3>1, NodesRemove
  <2>4. Cardinality(met) \in Nat /\ Cardinality(met) <= N - 1
    BY <2>2, <2>3, NodesSubset
  <2> QED
    BY <2>4, <1>3, <1>6 DEF Degree
<1>16. IsOrder(numbering)' /\ numbering' = mu
  BY <1>5, <1>9, <1>10
<1>17. DomainsComplete' /\ IsGraph(nbrs)'
  <2>1. pc # "Connect" /\ nbrs' = nbrs /\ model' = model /\ wanted' = wanted
    BY <1>1, <1>5
  <2> QED
    BY <2>1 DEF DomainsComplete
<1>18. CASE m = N - 1
  <2>1. pc' = "Link" /\ cliques' = Append(before, met \cup {node})
    BY <1>5, <1>18
  <2>2. V \cup {node} = Node
    BY <1>6, <1>10, <1>18, OrderCount
  <2>3. /\ CliquesFit(nbrs, Node, cliques') /\ Covers(nbrs, Node, {}, cliques') /\ Len(cliques') >= 1
    <3>1. Covers(nbrs, Node, met \cup {node}, before)
      BY <2>2, <1>13
    <3> QED
      BY <2>1, <2>2, <3>1, <1>8, <1>13, <1>14, SearchLast
  <2>4. tree' = {} /\ connectTo' = 1
    BY <1>1, <1>5 DEF LinkInv
  <2>5. cliques' \in Seq(SUBSET Node)
    BY <2>3 DEF CliquesFit
  <2>6. Len(cliques') \in Nat
    BY <2>5
  <2>7. LinksFit(cliques', {}, Cardinality({}) + 1) /\ Cardinality({}) = 0
    BY <2>3, <2>6, LinksStart
  <2>8. LinkInv'
    BY <2>1, <2>3, <2>4, <2>7, <1>5 DEF LinkInv
  <2>9. NumberingInv' /\ TriangulateInv'
    BY <2>1 DEF NumberingInv, TriangulateInv
  <2>10. BuildTypeOK'
    BY <2>1, <2>5, <1>5, <1>8, <1>14, <1>15, <1>16 DEF BuildTypeOK, IsOrder
  <2> QED
    BY <2>8, <2>9, <2>10, <1>16, <1>17
<1>19. CASE m # N - 1
  <2>1. pc' = "Search" /\ cliques' = before
    BY <1>5, <1>19
  <2>2. Len(numbering') = m + 1 /\ m + 1 \in 1 .. N-1 /\ m + 1 # 1 /\ m + 1 \in Nat
    BY <1>6, <1>10, <1>16, <1>19
  <2>3. Before' = V /\ Last' = node
    <3>1. First(mu, m) = V
      BY <1>6, <1>10
    <3> QED
      BY <3>1, <2>2, <1>6, <1>10, <1>16 DEF Before, Last
  <2>4. Numbered' = V \cup {node}
    <3>1. mu \in Seq(Node) /\ m + 1 \in 0 .. Len(mu)
      BY <1>6, <1>10 DEF IsOrder
    <3>2. First(mu, Len(mu)) = {mu[k] : k \in DOMAIN mu}
      BY <3>1, FirstNodes
    <3> QED
      BY <3>2, <1>10, <1>16 DEF Numbered
  <2>5. numbering'[1] = 0
    <3>1. numbering[1] = 0 /\ 1 \in 1 .. m
      BY <1>1, <1>6 DEF NumberingInv
    <3> QED
      BY <3>1, <1>10, <1>16
  <2>6. nbrs' = nbrs /\ clique' = met \cup {node} /\ lastCard' = Degree(nbrs, node, V)
    BY <1>5, <1>15
  <2>7. NumberingInv'
    BY <2>1, <2>2, <2>3, <2>4, <2>5, <2>6, <1>11, <1>13, <1>16 DEF NumberingInv
  <2>8. TriangulateInv' /\ LinkInv'
    BY <2>1, <1>1, <1>5 DEF TriangulateInv, LinkInv
  <2>9. BuildTypeOK'
    BY <2>1, <1>5, <1>8, <1>14, <1>15, <1>16 DEF BuildTypeOK, IsOrder
  <2> QED
    BY <2>7, <2>8, <2>9, <1>16, <1>17
<1> QED
  BY <1>18, <1>19

LEMMA FailKeeps ==
  ASSUME BuildInv, FailSearch
  PROVE  BuildInv'
<1> USE DEF BuildInv
<1>1. /\ pc = "Search" /\ pc' = "Triangulate" /\ numbering' = <<>> /\ cliques' = <<>>
      /\ UNCHANGED <<model, wanted, nbrs, clique, lastCard, connectTo, tree>>
  BY DEF FailSearch
<1>2. N \in Nat
  BY NodesAssumption
<1>3. BuildTypeOK' /\ IsOrder(numbering)' /\ IsGraph(nbrs)'
  BY <1>1 DEF BuildTypeOK, IsOrder
<1>4. DomainsComplete'
  BY <1>1 DEF DomainsComplete
<1>5. NumberingInv' /\ LinkInv'
  BY <1>1 DEF NumberingInv, LinkInv
<1>6. TriangulateInv'
  BY <1>1, <1>2 DEF TriangulateInv
<1> QED
  BY <1>3, <1>4, <1>5, <1>6

\* Some node needs no more fill-ins than any other, and is eliminated.
LEMMA EliminatedNode ==
  ASSUME BuildTypeOK, Numbered # Node,
         NEW node, node = SmallestOf({n \in Node \ Numbered : \A k \in Node \ Numbered : FillIns(n) <= FillIns(k)})
  PROVE  node \in Node \ Numbered
<1>1. Numbered \in SUBSET Node
  BY NumberedFirst
<1>2. PICK left : left = Node \ Numbered
  OBVIOUS
<1>3. left \in SUBSET Node /\ left # {} /\ left \in SUBSET Nat
  <2>1. Node \in SUBSET Nat
    BY NodesAssumption DEF Node
  <2> QED
    BY <2>1, <1>1, <1>2
<1>4. \A k \in left : FillIns(k) \in Nat
  <2> TAKE k \in left
  <2>1. PICK S, R : R = Remaining(k) /\ S = {e \in R \X R : e[1] < e[2] /\ e[2] \notin nbrs[e[1]]}
    OBVIOUS
  <2>2. R \in SUBSET Node
    BY <2>1, <1>3 DEF BuildTypeOK, Remaining
  <2>3. IsFiniteSet(R \X R)
    BY <2>2, NodesFinite, FS_Product
  <2>4. IsFiniteSet(S)
    BY <2>1, <2>3, FS_Subset
  <2>5. Cardinality(S) \in Nat
    BY <2>4, FS_CardinalityType
  <2> QED
    BY <2>1, <2>5 DEF FillIns
<1>5. \E n \in left : \A k \in left : FillIns(n) <= FillIns(k)
  <2> DEFINE T == {FillIns(k) : k \in left}
  <2>1. T \in SUBSET Nat /\ T # {}
    BY <1>3, <1>4
  <2> HIDE DEF T
  <2>2. PICK m \in T : \A k \in T : m <= k
    BY <2>1, LeastNat
  <2>3. PICK n \in left : m = FillIns(n)
    BY DEF T
  <2>4. \A k \in left : FillIns(k) \in T
    BY DEF T
  <2> QED
    BY <2>2, <2>3, <2>4
<1>6. PICK S : S = {n \in left : \A k \in left : FillIns(n) <= FillIns(k)}
  OBVIOUS
<1>7. S \in SUBSET Nat /\ S # {}
  BY <1>3, <1>5, <1>6
<1>8. SmallestOf(S) \in S
  BY <1>7, Smallest
<1>9. node = SmallestOf(S)
  BY <1>2, <1>6
<1> QED
  BY <1>2, <1>6, <1>8, <1>9

LEMMA EliminateKeeps ==
  ASSUME BuildInv, EliminateNode
  PROVE  BuildInv'
<1> USE DEF BuildInv
<1>1. pc = "Triangulate" /\ Len(numbering) < N
  BY DEF EliminateNode
<1>2. PICK node : node = SmallestOf({n \in Node \ Numbered : \A k \in Node \ Numbered : FillIns(n) <= FillIns(k)})
  OBVIOUS
<1>3. /\ nbrs' = WithCliques(nbrs, {Remaining(node)}) /\ numbering' = Append(numbering, node)
      /\ UNCHANGED <<model, wanted, pc, clique, lastCard, cliques, connectTo, tree>>
  BY <1>2 DEF EliminateNode, FillFor
<1>4. PICK V, m : V = First(numbering, Len(numbering)) /\ m = Len(numbering)
  OBVIOUS
<1>5. /\ V = Numbered /\ V \in SUBSET Node /\ numbering \in Seq(Node)
      /\ DOMAIN numbering = 1 .. m /\ m \in 0 .. N-1 /\ N \in Nat
  BY <1>1, <1>4, NumberedFirst, NodesAssumption
<1>6. node \in Node \ V
  <2>1. Cardinality(V) = m /\ Cardinality(Node) = N
    BY <1>4, <1>5, OrderCount, NodesFinite
  <2>2. Numbered # Node
    BY <2>1, <1>5
  <2> QED
    BY <2>2, <1>2, <1>5, EliminatedNode
<1>7. PICK mu : mu = Append(numbering, node)
  OBVIOUS
<1>8. /\ IsOrder(mu) /\ mu[m + 1] = node /\ Len(mu) = m + 1
      /\ \A i \in 1 .. m : mu[i] = numbering[i]
      /\ \A i \in 0 .. m : First(mu, i) = First(numbering, i)
      /\ First(mu, m + 1) = V \cup {node}
  BY <1>4, <1>6, <1>7, OrderAppend
<1>9. PICK g, h, R : g = nbrs /\ R = Remaining(node) /\ h = WithCliques(nbrs, {R})
  OBVIOUS
<1>10. R \in SUBSET Node /\ R = g[node] \ V /\ IsGraph(g)
  BY <1>5, <1>6, <1>9 DEF Remaining, IsGraph
<1>11. /\ IsGraph(h) /\ IsComplete(h, R)
       /\ \A S \in SUBSET Node : IsComplete(g, S) => IsComplete(h, S)
  <2>1. {R} \in SUBSET SUBSET Node
    BY <1>10
  <2> QED
    BY <2>1, <1>9, <1>10, WithCliquesJoins
<1>12. \A n \in V \cup {node} : h[n] = g[n]
  <2> TAKE n \in V \cup {node}
  <2>1. n \in Node /\ n \notin R
    BY <1>5, <1>6, <1>10 DEF IsGraph
  <2>2. h[n] = g[n] \cup {k \in Node : k # n /\ \E S \in {R} : {n, k} \subseteq S}
    BY <2>1, <1>9 DEF WithCliques
  <2> QED
    BY <2>1, <2>2
<1>13. nbrs' = h /\ numbering' = mu
  BY <1>3, <1>7, <1>9
<1>14. BuildTypeOK'
  BY <1>3, <1>8, <1>11, <1>13 DEF BuildTypeOK, IsGraph, IsOrder
<1>15. IsGraph(nbrs)' /\ IsOrder(numbering)'
  BY <1>8, <1>11, <1>13
<1>16. DomainsComplete'
  <2>1. \A k \in DOMAIN model.domain : model.domain[k] \in SUBSET Node
    BY JtreeBuildAssumption DEF DomainsComplete, IsModel
  <2>2. \A W \in wanted : W \in SUBSET Node
    BY JtreeBuildAssumption DEF DomainsComplete
  <2>3. model' = model /\ wanted' = wanted /\ pc' = pc
    BY <1>3
  <2> QED
    BY <2>1, <2>2, <2>3, <1>1, <1>9, <1>11, <1>13 DEF DomainsComplete
<1>17. NumberingInv' /\ LinkInv'
  BY <1>1, <1>3 DEF NumberingInv, LinkInv
<1>18. TriangulateInv'
  <2> SUFFICES ASSUME NEW i \in DOMAIN mu PROVE IsComplete(h, h[mu[i]] \ First(mu, i))
    BY <1>5, <1>8, <1>13 DEF TriangulateInv
  <2>1. DOMAIN mu = 1 .. m + 1
    BY <1>8 DEF IsOrder
  <2>2. CASE i = m + 1
    <3>1. h[mu[i]] \ First(mu, i) \in SUBSET R
      BY <2>2, <1>8, <1>10, <1>12
    <3> QED
      BY <3>1, <1>11, CompletePart
  <2>3. CASE i # m + 1
    <3>1. i \in 1 .. m /\ i \in 0 .. m
      BY <2>1, <2>3, <1>5
    <3>2. mu[i] = numbering[i] /\ First(mu, i) = First(numbering, i) /\ numbering[i] \in V
      BY <3>1, <1>4, <1>8 DEF First
    <3>3. IsComplete(g, g[numbering[i]] \ First(numbering, i))
      BY <3>1, <1>1, <1>5, <1>9 DEF TriangulateInv
    <3>4. g[numbering[i]] \ First(numbering, i) \in SUBSET Node
      BY <3>2, <1>5, <1>10 DEF IsGraph
    <3>5. h[numbering[i]] = g[numbering[i]]
      BY <3>2, <1>12
    <3> QED
      BY <3>2, <3>3, <3>4, <3>5, <1>11
  <2> QED
    BY <2>2, <2>3
<1> QED
  BY <1>14, <1>15, <1>16, <1>17, <1>18

LEMMA AgainKeeps ==
  ASSUME BuildInv, SearchAgain
  PROVE  BuildInv'
<1> USE DEF BuildInv
<1>1. /\ pc = "Triangulate" /\ pc' = "Search"
      /\ numbering' = <<0>> /\ clique' = {} /\ lastCard' = 0 /\ cliques' = <<>>
      /\ UNCHANGED <<model, wanted, nbrs, connectTo, tree>>
  BY DEF SearchAgain, StartSearch
<1>2. 0 \in Node /\ N \in Nat /\ N >= 2
  BY NodesAssumption, JtreeBuildAssumption DEF Node
<1>3. BuildTypeOK' /\ IsGraph(nbrs)'
  BY <1>1, <1>2 DEF BuildTypeOK
<1>4. IsOrder(numbering)'
  BY <1>1, <1>2 DEF IsOrder
<1>5. DomainsComplete'
  BY <1>1 DEF DomainsComplete
<1>6. NumberingInv'
  <2>1. Len(numbering') = 1 /\ numbering'[1] = 0 /\ DOMAIN numbering' = 1 .. 1
    BY <1>1
  <2>2. IsMaxOrder(nbrs, numbering)'
    BY <2>1 DEF IsMaxOrder
  <2>3. CliquesFit(nbrs', First(numbering', 0), <<>>)
    BY DEF CliquesFit, CliquesIn, CliquesMaximal, CliquesDiffer, CliquesHang
  <2> QED
    BY <2>1, <2>2, <2>3, <1>1, <1>2 DEF NumberingInv, Before
<1>7. TriangulateInv' /\ LinkInv'
  BY <1>1 DEF TriangulateInv, LinkInv
<1> QED
  BY <1>3, <1>4, <1>5, <1>6, <1>7

LEMMA LinkKeeps ==
  ASSUME BuildInv, LinkClique
  PROVE  BuildInv'
<1> USE DEF BuildInv
<1>1. pc = "Link" /\ UNCHANGED <<model, wanted, nbrs, search>>
  BY DEF LinkClique
<1>2. PICK K : K = Cardinality(tree) + 1
  OBVIOUS
<1>3. /\ CliquesFit(nbrs, Node, cliques) /\ Covers(nbrs, Node, {}, cliques)
      /\ connectTo \in 1 .. K /\ LinksFit(cliques, tree, K)
  BY <1>1, <1>2 DEF LinkInv
<1>4. /\ K \in Nat /\ K >= 1 /\ K <= Len(cliques) /\ Len(cliques) \in Nat
      /\ DOMAIN cliques = 1 .. Len(cliques) /\ cliques \in Seq(SUBSET Node)
  BY <1>3, FS_CardinalityType DEF LinksFit, CliquesFit
<1>5. numbering' = numbering /\ clique' = clique /\ lastCard' = lastCard /\ cliques' = cliques /\ nbrs' = nbrs
  BY <1>1 DEF search
<1>6. CASE K + 1 <= Len(cliques)
  <2>1. Cardinality(tree) + 2 = K + 1
    BY <1>2, <1>3, FS_CardinalityType DEF LinksFit
  <2>2. connectTo' = BestLink(K + 1) /\ tree' = tree \cup {<<K + 1, BestLink(K + 1)>>} /\ pc' = pc
    BY <2>1, <1>6 DEF LinkClique
  <2>3. K + 1 \in DOMAIN cliques /\ K + 1 # 1 /\ K + 1 - 1 = K
    BY <1>4, <1>6
  <2>4. HangsOn(cliques[K + 1], cliques, K + 1)
    BY <2>3, <1>3 DEF CliquesFit, CliquesHang
  <2>5. IsLink(cliques, K + 1, BestLink(K + 1))
    <3>1. connectTo \in 1 .. (K + 1) - 1
      BY <1>3, <1>4
    <3> QED
      BY <2>3, <2>4, <3>1, BestIsLink
  <2>6. LinksFit(cliques, tree', Cardinality(tree') + 1) /\ Cardinality(tree') = K
    <3>1. PICK c, k : c = BestLink(K + 1) /\ k = K + 1 /\ k \in Nat
      BY <1>4
    <3>2. IsLink(cliques, k, c) /\ tree' = WithLink(tree, k, c)
      BY <3>1, <2>2, <2>5 DEF WithLink
    <3>3. LinksFit(cliques, WithLink(tree, k, c), k) /\ Cardinality(WithLink(tree, k, c)) = K
      BY <3>1, <3>2, <1>3, <1>4, LinksNext
    <3> QED
      BY <3>1, <3>2, <3>3
  <2>7. BestLink(K + 1) \in 1 .. K
    BY <2>5, <1>4 DEF IsLink
  <2>8. connectTo' \in 1 .. Cardinality(tree') + 1
    BY <2>2, <2>6, <2>7, <1>4
  <2>9. LinkInv'
    BY <2>2, <2>6, <2>8, <1>1, <1>3, <1>5 DEF LinkInv
  <2>10. BuildTypeOK'
    <3>1. tree' \in SUBSET (Nat \X Nat) /\ connectTo' \in Nat
      BY <2>2, <2>7, <1>4 DEF BuildTypeOK
    <3> QED
      BY <3>1, <2>2, <1>1, <1>5 DEF BuildTypeOK
  <2>11. NumberingInv' /\ TriangulateInv' /\ DomainsComplete' /\ IsGraph(nbrs)' /\ IsOrder(numbering)'
    BY <2>2, <1>1, <1>5 DEF NumberingInv, TriangulateInv, DomainsComplete
  <2> QED
    BY <2>9, <2>10, <2>11
<1>7. CASE ~(K + 1 <= Len(cliques))
  <2>1. Cardinality(tree) + 2 = K + 1 /\ Cardinality(tree) \in Nat
    BY <1>2, <1>3, FS_CardinalityType DEF LinksFit
  <2>2. pc' = "Built" /\ connectTo' = connectTo /\ tree' = tree
    BY <2>1, <1>7 DEF LinkClique
  <2>3. K = Len(cliques)
    <3>1. \A a, b \in Nat : a <= b /\ ~(a + 1 <= b) => a = b
      OBVIOUS
    <3> QED
      BY <3>1, <1>4, <1>7
  <2>4. LinkInv'
    BY <2>2, <2>3, <1>2, <1>3, <1>5 DEF LinkInv
  <2>5. BuildTypeOK'
    BY <2>2, <1>1, <1>5 DEF BuildTypeOK
  <2>6. NumberingInv' /\ TriangulateInv' /\ DomainsComplete' /\ IsGraph(nbrs)' /\ IsOrder(numbering)'
    BY <2>2, <1>1, <1>5 DEF NumberingInv, TriangulateInv, DomainsComplete
  <2> QED
    BY <2>4, <2>5, <2>6
<1> QED
  BY <1>6, <1>7

LEMMA BuildStarts ==
  ASSUME BuildInit
  PROVE  BuildInv
<1>1. /\ model \in Models /\ wanted \in Wanted /\ pc = "Connect" /\ nbrs = GraphOf(model)
      /\ numbering = <<>> /\ clique = {} /\ lastCard = 0 /\ cliques = <<>>
      /\ connectTo = 1 /\ tree = {}
  BY DEF BuildInit
<1>2. IsModel(model)
  BY <1>1, JtreeBuildAssumption
<1>3. IsGraph(NoEdges)
  BY DEF IsGraph, NoEdges
<1>4. \A k \in DOMAIN model.domain : model.domain[k] \in SUBSET Node
  BY <1>2 DEF IsModel
<1>5. PICK C : C = {model.domain[k] : k \in DOMAIN model.domain}
  OBVIOUS
<1>6. C \in SUBSET SUBSET Node
  BY <1>4, <1>5
<1>7. nbrs = WithCliques(NoEdges, C)
  <2>1. CASE model.type = "BNet"
    <3>1. DOMAIN model.domain = 1 .. N /\ N \in Nat
      BY <2>1, <1>2, NodesAssumption DEF IsModel
    <3>2. C = {model.domain[n+1] : n \in Node}
      <4>1. \A k \in 1 .. N : k - 1 \in Node /\ k = (k - 1) + 1
        BY <3>1 DEF Node
      <4>2. \A n \in Node : n + 1 \in 1 .. N
        BY <3>1 DEF Node
      <4> QED
        BY <4>1, <4>2, <3>1, <1>5
    <3> QED
      BY <3>2, <2>1, <1>1 DEF GraphOf, MoralizeGraph
  <2>2. CASE model.type # "BNet"
    BY <2>2, <1>1, <1>5 DEF GraphOf
  <2> QED
    BY <2>1, <2>2
<1>8. IsGraph(nbrs) /\ \A S \in C : IsComplete(nbrs, S)
  BY <1>3, <1>6, <1>7, WithCliquesJoins
<1>9. DomainsComplete
  BY <1>1, <1>5, <1>8 DEF DomainsComplete
<1>10. BuildTypeOK
  BY <1>1, <1>8, NodesAssumption DEF BuildTypeOK, IsGraph
<1>11. IsOrder(numbering) /\ NumberingInv /\ TriangulateInv /\ LinkInv
  BY <1>1 DEF IsOrder, NumberingInv, TriangulateInv, LinkInv
<1> QED
  BY <1>8, <1>9, <1>10, <1>11 DEF BuildInv

\* The invariant holds of every construction.
THEOREM BuildInvariant == BuildSpec => []BuildInv
<1>1. BuildInv /\ [BuildNext]_buildVars => BuildInv'
  <2> SUFFICES ASSUME BuildInv, [BuildNext]_buildVars PROVE BuildInv'
    OBVIOUS
  <2>1. CASE AssureSubGraphsConnectedInCliques
    BY <2>1, ConnectKeeps
  <2>2. CASE NumberNode
    BY <2>2, NumberKeeps
  <2>3. CASE FailSearch
    BY <2>3, FailKeeps
  <2>4. CASE EliminateNode
    BY <2>4, EliminateKeeps
  <2>5. CASE SearchAgain
    BY <2>5, AgainKeeps
  <2>6. CASE LinkClique
    BY <2>6, LinkKeeps
  <2>7. CASE UNCHANGED buildVars
    BY <2>7 DEF buildVars, BuildInv, BuildTypeOK, DomainsComplete, NumberingInv, TriangulateInv,
                LinkInv, Before, Last, Numbered
  <2> QED
    BY <2>1, <2>2, <2>3, <2>4, <2>5, <2>6, <2>7 DEF BuildNext
<1> QED
  BY <1>1, BuildStarts, PTL DEF BuildSpec

-----------------------------------------------------------------------------
(* What is built.                                                               *)

\* The type invariant.
THEOREM BuildTypeCorrect == BuildSpec => []BuildTypeOK
<1>1. BuildInv => BuildTypeOK
  BY DEF BuildInv
<1> QED
  BY <1>1, BuildInvariant, PTL

\* The cliques are the maximal cliques of the graph, each once.
THEOREM BuildListsCliques == BuildSpec => []CliquesExact
<1>1. BuildInv => CliquesExact
  <2> SUFFICES ASSUME BuildInv, pc = "Built", nbrs[0] # {}
               PROVE  /\ Cliques = {S \in SUBSET Node : IsMaximalClique(S)}
                      /\ Cardinality(Cliques) = Len(cliques)
    BY DEF CliquesExact, FirstNodeAlone
  <2>1. CliquesFit(nbrs, Node, cliques) /\ Covers(nbrs, Node, {}, cliques)
    BY DEF BuildInv, LinkInv
  <2>2. /\ cliques \in Seq(SUBSET Node) /\ DOMAIN cliques = 1 .. Len(cliques) /\ Len(cliques) \in Nat
    BY <2>1 DEF CliquesFit
  <2>3. \A c \in DOMAIN cliques : cliques[c] \in SUBSET Node /\ IsMaximalClique(cliques[c])
    BY <2>1, <2>2 DEF CliquesFit, CliquesMaximal, IsMaximalIn, IsMaximalClique
  <2>4. \A S \in SUBSET Node : IsMaximalClique(S) => S \in Cliques
    <3> SUFFICES ASSUME NEW S \in SUBSET Node, IsMaximalClique(S) PROVE S \in Cliques
      OBVIOUS
    <3>1. S # {} /\ IsComplete(nbrs, S)
      BY DEF IsMaximalClique
    <3>2. PICK c \in DOMAIN cliques : S \subseteq cliques[c]
      BY <2>1, <3>1 DEF Covers
    <3>3. IsComplete(nbrs, cliques[c])
      BY <2>3 DEF IsMaximalClique
    <3>4. cliques[c] \subseteq S
      <4> SUFFICES ASSUME NEW n \in cliques[c], n \notin S PROVE FALSE
        OBVIOUS
      <4>1. n \in Node \ S /\ S \cup {n} \in SUBSET cliques[c]
        BY <2>3, <3>2
      <4>2. IsComplete(nbrs, S \cup {n})
        BY <3>3, <4>1, CompletePart
      <4> QED
        BY <4>1, <4>2 DEF IsMaximalClique
    <3>5. S = cliques[c]
      BY <3>2, <3>4
    <3> QED
      BY <3>5 DEF Cliques
  <2>5. Cliques = {S \in SUBSET Node : IsMaximalClique(S)}
    BY <2>3, <2>4 DEF Cliques
  <2>6. cliques \in Bijection(1 .. Len(cliques), Cliques)
    <3>1. \A c, d \in 1 .. Len(cliques) : cliques[c] = cliques[d] => c = d
      BY <2>1, <2>2 DEF CliquesFit, CliquesDiffer
    <3>2. cliques \in [1 .. Len(cliques) -> Cliques] /\ \A S \in Cliques : \E c \in 1 .. Len(cliques) : cliques[c] = S
      BY <2>2 DEF Cliques
    <3> QED
      BY <3>1, <3>2 DEF Bijection, Injection, Surjection, IsInjective
  <2>7. IsFiniteSet(1 .. Len(cliques)) /\ Cardinality(1 .. Len(cliques)) = Len(cliques)
    BY <2>2, FS_Interval
  <2>8. Cardinality(Cliques) = Len(cliques)
    BY <2>6, <2>7, SameSize
  <2> QED
    BY <2>5, <2>8
<1> QED
  BY <1>1, BuildInvariant, PTL

\* Every factor, and every set of nodes asked for, has a clique.
THEOREM BuildCoversDomains == BuildSpec => []DomainsCovered
<1>1. BuildInv => DomainsCovered
  <2> SUFFICES ASSUME BuildInv, pc = "Built", nbrs[0] # {}
               PROVE  /\ \A k \in DOMAIN model.domain : \E S \in Cliques : model.domain[k] \subseteq S
                      /\ \A W \in wanted : \E S \in Cliques : W \subseteq S
    BY DEF DomainsCovered, FirstNodeAlone
  <2>1. \A S \in SUBSET Node : IsComplete(nbrs, S) => S = {} \/ \E T \in Cliques : S \subseteq T
    BY DEF BuildInv, LinkInv, Covers, Cliques
  <2>2. /\ \A k \in DOMAIN model.domain : model.domain[k] \in SUBSET Node /\ model.domain[k] # {}
        /\ \A W \in wanted : W \in SUBSET Node /\ W # {}
    <3>1. \A k \in DOMAIN model.domain : model.domain[k] \in SUBSET Node /\ model.domain[k] # {}
      BY JtreeBuildAssumption DEF BuildInv, DomainsComplete, IsModel
    <3>2. ASSUME NEW W \in wanted PROVE W \in SUBSET Node /\ W # {}
      <4>1. W \subseteq Node /\ Cardinality(W) >= 2
        BY JtreeBuildAssumption DEF BuildInv, DomainsComplete
      <4> QED
        BY <4>1, FS_EmptySet
    <3> QED
      BY <3>1, <3>2
  <2>3. /\ \A k \in DOMAIN model.domain : IsComplete(nbrs, model.domain[k])
        /\ \A W \in wanted : IsComplete(nbrs, W)
    BY DEF BuildInv, DomainsComplete
  <2> QED
    BY <2>1, <2>2, <2>3
<1> QED
  BY <1>1, BuildInvariant, PTL

\* The links make a tree in which the cliques of every node hang together.
THEOREM BuildRunningIntersection == BuildSpec => []RunningIntersection
<1>1. BuildInv => RunningIntersection
  <2> SUFFICES ASSUME BuildInv, pc = "Built" PROVE RunningIntersection
    BY DEF RunningIntersection
  <2>1. /\ cliques \in Seq(SUBSET Node) /\ LinksFit(cliques, tree, Len(cliques))
        /\ Cardinality(tree) + 1 = Len(cliques)
    BY DEF BuildInv, LinkInv, CliquesFit
  <2>2. Cardinality(tree) = Len(cliques) - 1
    <3>1. Cardinality(tree) \in Nat
      BY <2>1, FS_CardinalityType DEF LinksFit
    <3> QED
      BY <2>1, <3>1
  <2>3. ASSUME NEW n \in UNION Cliques, NEW at, at = CliquesWith(cliques, n)
        PROVE  Cardinality(LinksAmong(tree, at)) = Cardinality(at) - 1
    <3>1. n \in Node /\ at # {}
      BY <2>1, <2>3 DEF Cliques, CliquesWith
    <3> QED
      BY <2>1, <2>3, <3>1, LinksJoin
  <2> QED
    BY <2>2, <2>3 DEF RunningIntersection, CliquesWith, LinksAmong
<1> QED
  BY <1>1, BuildInvariant, PTL

-----------------------------------------------------------------------------
(* Cycles without a chord.                                                      *)

\* A path without a chord: nodes of it are neighbours just if one follows the
\* other.
IsPath(g, r, p) ==
  /\ p \in [0 .. r -> Node]
  /\ \A x, y \in 0 .. r : p[x] = p[y] => x = y
  /\ \A x, y \in 0 .. r : p[x] \in g[p[y]] <=> (x = y + 1 \/ y = x + 1)

\* A path that leaves the first i nodes of an order and comes back.
Leaves(g, nu, i, r, p) ==
  /\ IsPath(g, r, p)
  /\ p[0] \in First(nu, i) /\ p[r] \in First(nu, i)
  /\ \A x \in 1 .. r-1 : p[x] \notin First(nu, i)

\* It can be walked in the other direction.
LEMMA PathBack ==
  ASSUME NEW g, NEW nu, NEW i, NEW r \in Nat, NEW p, Leaves(g, nu, i, r, p)
  PROVE  \E q : Leaves(g, nu, i, r, q) /\ q[0] = p[r] /\ q[r] = p[0]
<1>1. PICK q : q = [x \in 0 .. r |-> p[r - x]]
  OBVIOUS
<1>2. \A x \in 0 .. r : r - x \in 0 .. r /\ q[x] = p[r - x]
  BY <1>1
<1>3. q \in [0 .. r -> Node]
  BY <1>1, <1>2 DEF Leaves, IsPath
<1>4. \A x, y \in 0 .. r : q[x] = q[y] => x = y
  <2> SUFFICES ASSUME NEW x \in 0 .. r, NEW y \in 0 .. r, q[x] = q[y] PROVE x = y
    OBVIOUS
  <2>1. r - x = r - y
    BY <1>2 DEF Leaves, IsPath
  <2> QED
    BY <2>1
<1>5. \A x, y \in 0 .. r : q[x] \in g[q[y]] <=> (x = y + 1 \/ y = x + 1)
  <2> TAKE x, y \in 0 .. r
  <2>1. PICK a, b \in 0 .. r : a = r - x /\ b = r - y
    BY <1>2
  <2>2. p[a] \in g[p[b]] <=> (a = b + 1 \/ b = a + 1)
    BY DEF Leaves, IsPath
  <2>3. q[x] = p[a] /\ q[y] = p[b]
    BY <2>1, <1>2
  <2>4. (a = b + 1 \/ b = a + 1) <=> (x = y + 1 \/ y = x + 1)
    BY <2>1
  <2> QED
    BY <2>2, <2>3, <2>4
<1>6. q[0] = p[r] /\ q[r] = p[0]
  BY <1>2
<1>7. \A x \in 1 .. r-1 : q[x] \notin First(nu, i)
  <2> TAKE x \in 1 .. r-1
  <2>1. r - x \in 1 .. r-1 /\ q[x] = p[r - x]
    BY <1>2
  <2> QED
    BY <2>1 DEF Leaves
<1> QED
  BY <1>3, <1>4, <1>5, <1>6, <1>7 DEF Leaves, IsPath

\* A node off the path that has the ends of a stretch of it, and no node between
\* them, among its neighbours closes a cycle without a chord.
LEMMA NoCycle ==
  ASSUME NEW g, NEW r \in Nat, NEW t \in Nat, NEW p, NEW w \in Node,
         IsGraph(g), Chordal(g), t + 2 <= r, IsPath(g, r, p),
         \A x \in 0 .. r : w # p[x],
         \A x \in t .. r : w \in g[p[x]] <=> (x = t \/ x = r)
  PROVE  FALSE
<1> DEFINE S == {w} \cup {p[x] : x \in t .. r}
<1>1. \A x \in t .. r : x \in 0 .. r /\ x \in Nat /\ p[x] \in Node
  BY DEF IsPath
<1>2. /\ t \in t .. r /\ t + 1 \in t .. r /\ r \in t .. r /\ r - 1 \in t .. r
      /\ t # r /\ t + 1 # r /\ r - 1 # t /\ r # t + 1
  OBVIOUS
<1>3. \A x, y \in t .. r : p[x] \in g[p[y]] <=> (x = y + 1 \/ y = x + 1)
  BY <1>1 DEF IsPath
<1>4. \A x, y \in t .. r : p[x] = p[y] => x = y
  BY <1>1 DEF IsPath
<1>5. \A x \in t .. r : p[x] \in g[w] <=> (x = t \/ x = r)
  BY <1>1 DEF IsGraph
<1>6. w \notin g[w]
  BY DEF IsGraph
<1>7. S \in (SUBSET Node) \ {{}}
  BY <1>1
<1>8. PICK n \in S : \A a, b \in Node : a # b /\ g[n] \cap S = {a, b} => a \in g[b]
  BY <1>7 DEF Chordal
<1>9. CASE n = w
  <2>1. g[n] \cap S = {p[t], p[r]}
    BY <1>2, <1>5, <1>6, <1>9
  <2>2. p[t] # p[r] /\ p[t] \notin g[p[r]]
    BY <1>2, <1>3, <1>4
  <2> QED
    BY <2>1, <2>2, <1>1, <1>2, <1>8
<1>10. CASE n # w
  <2>1. PICK y \in t .. r : n = p[y]
    BY <1>10
  <2>2. CASE y = t
    <3>1. g[n] \cap S = {w, p[t+1]}
      <4>1. \A x \in t .. r : p[x] \in g[n] <=> x = t + 1
        BY <2>1, <2>2, <1>1, <1>3
      <4>2. w \in g[n]
        BY <2>1, <2>2
      <4> QED
        BY <4>1, <4>2, <1>2
    <3>2. w # p[t+1] /\ w \notin g[p[t+1]]
      BY <1>1, <1>2
    <3> QED
      BY <3>1, <3>2, <1>1, <1>2, <1>8
  <2>3. CASE y = r
    <3>1. g[n] \cap S = {w, p[r-1]}
      <4>1. \A x \in t .. r : p[x] \in g[n] <=> x = r - 1
        BY <2>1, <2>3, <1>1, <1>3
      <4>2. w \in g[n]
        BY <2>1, <2>3
      <4> QED
        BY <4>1, <4>2, <1>2
    <3>2. w # p[r-1] /\ w \notin g[p[r-1]]
      BY <1>1, <1>2
    <3> QED
      BY <3>1, <3>2, <1>1, <1>2, <1>8
  <2>4. CASE y # t /\ y # r
    <3>1. y + 1 \in t .. r /\ y - 1 \in t .. r
      BY <2>4
    <3>2. g[n] \cap S = {p[y-1], p[y+1]}
      <4>1. \A x \in t .. r : p[x] \in g[n] <=> (x = y - 1 \/ x = y + 1)
        BY <2>1, <1>1, <1>3
      <4>2. w \notin g[n]
        BY <2>1, <2>4
      <4> QED
        BY <4>1, <4>2, <3>1
    <3>3. y - 1 # y + 1 /\ ~(y - 1 = (y + 1) + 1 \/ y + 1 = (y - 1) + 1)
      OBVIOUS
    <3>4. p[y-1] # p[y+1] /\ p[y-1] \notin g[p[y+1]]
      BY <3>1, <3>3, <1>3, <1>4
    <3> QED
      BY <3>1, <3>2, <3>4, <1>1, <1>8
  <2> QED
    BY <2>2, <2>3, <2>4
<1> QED
  BY <1>9, <1>10

\* The path q of length s: node w, then the nodes of p from number t to number r.
IsJoined(q, s, w, p, t, r) ==
  /\ s = r - t + 1
  /\ q = [y \in 0 .. s |-> IF y = 0 THEN w ELSE p[t + y - 1]]

\* A node off the path whose last neighbour on it is number t: with the rest of the
\* path it makes a path.
LEMMA PathFrom ==
  ASSUME NEW g, NEW r \in Nat, NEW t \in Nat, NEW p, NEW w \in Node, NEW q, NEW s,
         IsGraph(g), t <= r, IsPath(g, r, p),
         \A x \in 0 .. r : w # p[x],
         \A x \in t .. r : w \in g[p[x]] <=> x = t,
         IsJoined(q, s, w, p, t, r)
  PROVE  IsPath(g, s, q)
<1>1. s \in Nat /\ q[0] = w /\ 0 \in 0 .. s
  BY DEF IsJoined
<1>2. \A y \in 1 .. s : y \in 0 .. s /\ t + y - 1 \in t .. r /\ t + y - 1 \in 0 .. r /\ q[y] = p[t + y - 1]
  BY DEF IsJoined
<1>3. q \in [0 .. s -> Node]
  BY <1>1, <1>2 DEF IsPath, IsJoined
<1>4. \A x \in t .. r : p[x] \in g[w] <=> x = t
  BY DEF IsGraph, IsPath
<1>5. ASSUME NEW x \in 0 .. s, NEW y \in 0 .. s
      PROVE  (q[x] = q[y] => x = y) /\ (q[x] \in g[q[y]] <=> (x = y + 1 \/ y = x + 1))
  <2>1. CASE x = 0 /\ y = 0
    BY <2>1, <1>1 DEF IsGraph
  <2>2. CASE x = 0 /\ y # 0
    <3>1. y \in 1 .. s
      BY <2>2, <1>1
    <3>2. q[y] = p[t + y - 1] /\ w # q[y] /\ (w \in g[q[y]] <=> t + y - 1 = t)
      BY <3>1, <1>2
    <3>3. t + y - 1 = t <=> y = 1
      OBVIOUS
    <3>4. (x = y + 1 \/ y = x + 1) <=> y = 1
      BY <2>2, <3>1
    <3> QED
      BY <2>2, <3>2, <3>3, <3>4, <1>1
  <2>3. CASE x # 0 /\ y = 0
    <3>1. x \in 1 .. s
      BY <2>3, <1>1
    <3>2. q[x] = p[t + x - 1] /\ w # q[x] /\ (q[x] \in g[w] <=> t + x - 1 = t)
      BY <3>1, <1>2, <1>4
    <3>3. t + x - 1 = t <=> x = 1
      OBVIOUS
    <3>4. (x = y + 1 \/ y = x + 1) <=> x = 1
      BY <2>3, <3>1
    <3> QED
      BY <2>3, <3>2, <3>3, <3>4, <1>1
  <2>4. CASE x # 0 /\ y # 0
    <3>1. x \in 1 .. s /\ y \in 1 .. s
      BY <2>4, <1>1
    <3>2. PICK a, b \in 0 .. r : a = t + x - 1 /\ b = t + y - 1
      BY <3>1, <1>2
    <3>3. q[x] = p[a] /\ q[y] = p[b]
      BY <3>1, <3>2, <1>2
    <3>4. (p[a] = p[b] => a = b) /\ (p[a] \in g[p[b]] <=> (a = b + 1 \/ b = a + 1))
      BY DEF IsPath
    <3>5. (a = b => x = y) /\ ((a = b + 1 \/ b = a + 1) <=> (x = y + 1 \/ y = x + 1))
      BY <3>2
    <3> QED
      BY <3>3, <3>4, <3>5
  <2> QED
    BY <2>1, <2>2, <2>3, <2>4
<1> QED
  BY <1>3, <1>5 DEF IsPath

\* A path that leaves the nodes up to number i and ends there in node i can be
\* rerouted: it leaves the nodes before i.
LEMMA PathShrinks ==
  ASSUME NEW g, NEW nu, NEW i \in DOMAIN nu, NEW r \in Nat, NEW p,
         IsGraph(g), IsOrder(nu), IsMaxOrder(g, nu), Chordal(g),
         r >= 2, Leaves(g, nu, i, r, p), p[0] = nu[i]
  PROVE  \E s \in Nat : \E q : s >= 2 /\ Leaves(g, nu, i-1, s, q)
<1>1. nu \in Seq(Node) /\ i \in 1 .. Len(nu) /\ i - 1 \in 0 .. Len(nu) /\ i \in 0 .. Len(nu) /\ Len(nu) \in Nat
  BY DEF IsOrder
<1>2. PICK W : W = First(nu, i-1)
  OBVIOUS
<1>3. W \in SUBSET Node /\ First(nu, i) = W \cup {p[0]} /\ p[0] \notin W
  BY <1>1, <1>2, FirstNodes, OrderFirst
<1>4. /\ 0 \in 0 .. r /\ r \in 0 .. r /\ r - 1 \in 0 .. r /\ r - 1 \in 1 .. r-1
      /\ r # 0 /\ r # 1 /\ r # r - 1
  OBVIOUS
<1>5. IsPath(g, r, p) /\ \A x \in 0 .. r : p[x] \in Node
  BY DEF Leaves, IsPath
<1>6. \A x \in 1 .. r-1 : p[x] \notin W /\ p[x] # p[0]
  BY <1>3 DEF Leaves
<1>7. p[r] \in W
  <2>1. p[r] # p[0]
    BY <1>4, <1>5 DEF IsPath
  <2> QED
    BY <2>1, <1>3 DEF Leaves
<1>8. i # 1
  <2>1. First(nu, 0) = {}
    BY <1>1, FirstNodes
  <2> QED
    BY <2>1, <1>2, <1>7
<1>9. p[r] \in g[p[r-1]] /\ p[r] \notin g[p[0]]
  <2>1. r = (r - 1) + 1 /\ ~(r = 0 + 1 \/ 0 = r + 1)
    BY <1>4
  <2> QED
    BY <2>1, <1>4, <1>5 DEF IsPath
<1>10. PICK w \in W : w \in g[p[0]] /\ w \notin g[p[r-1]]
  <2>1. SUFFICES ASSUME \A w \in W : w \in g[p[0]] => w \in g[p[r-1]] PROVE FALSE
    OBVIOUS
  <2>2. Degree(g, p[r-1], W) <= Degree(g, p[0], W)
    BY <1>2, <1>4, <1>5, <1>6, <1>8 DEF IsMaxOrder
  <2>3. PICK S, T : S = g[p[0]] \cap W /\ T = g[p[r-1]] \cap W
    OBVIOUS
  <2>4. T \in SUBSET Node /\ S \in SUBSET T /\ p[r] \in T /\ p[r] \notin S
    BY <2>1, <2>3, <1>3, <1>7, <1>9
  <2>5. Cardinality(S) >= Cardinality(T)
    <3>1. Cardinality(S) \in Nat /\ Cardinality(T) \in Nat
      BY <2>4, NodesSubset
    <3> QED
      BY <3>1, <2>2, <2>3 DEF Degree
  <2>6. S = T
    BY <2>4, <2>5, NodesSubset
  <2> QED
    BY <2>4, <2>6
<1>11. w \in Node /\ \A x \in 0 .. r : w # p[x]
  <2>1. w \in Node
    BY <1>3
  <2>2. ASSUME NEW x \in 0 .. r PROVE w # p[x]
    <3>1. x = 0 \/ x = r \/ x \in 1 .. r-1
      OBVIOUS
    <3> QED
      BY <3>1, <1>3, <1>6, <1>9, <1>10
  <2> QED
    BY <2>1, <2>2
<1>12. PICK t \in 0 .. r-1 : w \in g[p[t]] /\ \A x \in 0 .. r-1 : w \in g[p[x]] => x <= t
  <2> DEFINE T == {x \in 0 .. r-1 : w \in g[p[x]]}
  <2>1. r - 1 \in Nat /\ T \in SUBSET (0 .. r-1) /\ T # {}
    <3>1. 0 \in T
      BY <1>4, <1>10
    <3> QED
      BY <3>1
  <2>2. \E n \in T : \A k \in T : k <= n
    <3> HIDE DEF T
    <3>1. PICK b \in Nat : b = r - 1
      BY <2>1
    <3> QED
      BY <2>1, <3>1, GreatestNat
  <2> QED
    BY <2>2
<1>13. t \in Nat /\ t + 2 <= r /\ t <= r
  <2>1. t # r - 1
    BY <1>10, <1>12
  <2> QED
    BY <2>1
<1>14. \A x \in t .. r : x # r => (w \in g[p[x]] <=> x = t)
  <2> SUFFICES ASSUME NEW x \in t .. r, x # r PROVE w \in g[p[x]] <=> x = t
    OBVIOUS
  <2>1. x \in 0 .. r-1
    BY <1>13
  <2> QED
    BY <2>1, <1>12
<1>15. CASE w \in g[p[r]]
  <2>1. \A x \in t .. r : w \in g[p[x]] <=> (x = t \/ x = r)
    BY <1>14, <1>15
  <2> QED
    BY <2>1, <1>5, <1>11, <1>13, NoCycle
<1>16. CASE w \notin g[p[r]]
  <2>1. \A x \in t .. r : w \in g[p[x]] <=> x = t
    BY <1>13, <1>14, <1>16
  <2>2. PICK q, s : IsJoined(q, s, w, p, t, r)
    BY DEF IsJoined
  <2>3. IsPath(g, s, q)
    BY <2>1, <2>2, <1>5, <1>11, <1>13, PathFrom
  <2>4. s \in Nat /\ s >= 2 /\ q[0] = w /\ q[s] = p[r]
    BY <2>2, <1>13 DEF IsJoined
  <2>5. ASSUME NEW y \in 1 .. s-1 PROVE q[y] \notin W
    <3>1. t + y - 1 \in 0 .. r-1 /\ q[y] = p[t + y - 1]
      BY <2>2, <1>13 DEF IsJoined
    <3>2. t + y - 1 = 0 \/ t + y - 1 \in 1 .. r-1
      BY <3>1
    <3> QED
      BY <3>1, <3>2, <1>3, <1>6
  <2>6. Leaves(g, nu, i-1, s, q)
    BY <2>3, <2>4, <2>5, <1>2, <1>7, <1>10 DEF Leaves
  <2> QED
    BY <2>4, <2>6
<1> QED
  BY <1>15, <1>16

\* In a chordal graph no path without a chord leaves the numbered nodes: the search
\* has every numbered part closed under such paths.
LEMMA NeverLeaves ==
  ASSUME NEW g, NEW nu, IsGraph(g), IsOrder(nu), IsMaxOrder(g, nu), Chordal(g),
         NEW k \in 0 .. Len(nu), NEW m \in Nat, NEW o, m >= 2
  PROVE  ~Leaves(g, nu, k, m, o)
<1> SUFFICES ASSUME Leaves(g, nu, k, m, o) PROVE FALSE
  OBVIOUS
<1>1. nu \in Seq(Node) /\ Len(nu) \in Nat /\ DOMAIN nu = 1 .. Len(nu)
  BY DEF IsOrder
<1> DEFINE Left(i) == \E r \in Nat : \E p : r >= 2 /\ Leaves(g, nu, i, r, p)
<1>2. PICK i \in 0 .. Len(nu) : Left(i) /\ \A j \in 0 .. Len(nu) : Left(j) => i <= j
  <2> DEFINE T == {i \in 0 .. Len(nu) : Left(i)}
  <2>1. T \in SUBSET Nat /\ T # {}
    BY <1>1
  <2>2. \E i \in T : \A j \in T : i <= j
    <3> HIDE DEF T
    <3> QED
      BY <2>1, LeastNat
  <2> QED
    BY <2>2
<1>3. PICK r, p : r \in Nat /\ r >= 2 /\ Leaves(g, nu, i, r, p)
  BY <1>2
<1>4. i # 0
  BY <1>1, <1>3, FirstNodes DEF Leaves
<1>5. /\ i \in DOMAIN nu /\ i - 1 \in 0 .. Len(nu) /\ ~(i <= i - 1)
      /\ First(nu, i) = First(nu, i-1) \cup {nu[i]}
  BY <1>1, <1>4, FirstNodes
<1>6. ~Left(i-1)
  BY <1>2, <1>5
<1>7. CASE p[0] = nu[i]
  <2>1. \E s \in Nat : \E q : s >= 2 /\ Leaves(g, nu, i-1, s, q)
    BY <1>3, <1>5, <1>7, PathShrinks
  <2> QED
    BY <2>1, <1>6
<1>8. CASE p[r] = nu[i]
  <2>1. PICK q : Leaves(g, nu, i, r, q) /\ q[0] = nu[i]
    BY <1>3, <1>8, PathBack
  <2>2. \E s \in Nat : \E u : s >= 2 /\ Leaves(g, nu, i-1, s, u)
    BY <2>1, <1>3, <1>5, PathShrinks
  <2> QED
    BY <2>2, <1>6
<1>9. CASE p[0] # nu[i] /\ p[r] # nu[i]
  <2>1. Leaves(g, nu, i-1, r, p)
    BY <1>3, <1>5, <1>9 DEF Leaves
  <2> QED
    BY <2>1, <1>3, <1>6
<1> QED
  BY <1>7, <1>8, <1>9

\* A node with two numbered neighbours that are not joined leaves the numbered
\* nodes on the path between them.
LEMMA FailsForCause ==
  ASSUME BuildInv, FailSearch
  PROVE  ~Chordal(nbrs)
<1> SUFFICES ASSUME Chordal(nbrs) PROVE FALSE
  OBVIOUS
<1>1. /\ BuildTypeOK /\ IsGraph(nbrs) /\ IsOrder(numbering) /\ IsMaxOrder(nbrs, numbering)
      /\ Len(numbering) < N /\ ~StaysChordal(NextToNumber)
  BY DEF BuildInv, NumberingInv, FailSearch
<1>2. /\ Numbered = First(numbering, Len(numbering)) /\ Numbered \in SUBSET Node
      /\ Len(numbering) \in Nat /\ Len(numbering) \in 0 .. Len(numbering)
  BY <1>1, NumberedFirst
<1>3. Numbered # Node
  <2>1. Cardinality(Numbered) = Len(numbering) /\ Cardinality(Node) = N
    BY <1>1, <1>2, OrderCount, NodesFinite
  <2> QED
    BY <2>1, <1>1, NodesAssumption
<1>4. PICK v \in Node \ Numbered : v = NextToNumber
  BY <1>1, <1>3, NextHighest
<1>5. PICK a, b \in nbrs[v] \cap Numbered : a # b /\ a \notin nbrs[b]
  BY <1>1, <1>4 DEF StaysChordal, IsComplete
<1>6. /\ a \in Node /\ b \in Node /\ v # a /\ v # b
      /\ a \in nbrs[v] /\ v \in nbrs[a] /\ b \in nbrs[v] /\ v \in nbrs[b]
      /\ b \notin nbrs[a] /\ a \notin nbrs[a] /\ b \notin nbrs[b] /\ v \notin nbrs[v]
  BY <1>1, <1>2, <1>4, <1>5 DEF IsGraph
<1>7. PICK p : p = [x \in 0 .. 2 |-> IF x = 0 THEN a ELSE IF x = 1 THEN v ELSE b]
  OBVIOUS
<1>8. /\ p \in [0 .. 2 -> Node] /\ p[0] = a /\ p[1] = v /\ p[2] = b
      /\ \A x \in 0 .. 2 : x = 0 \/ x = 1 \/ x = 2
      /\ \A x \in 1 .. 2-1 : x = 1
  BY <1>6, <1>7
<1>9. \A x, y \in 0 .. 2 : p[x] = p[y] => x = y
  BY <1>5, <1>6, <1>8
<1>10. ASSUME NEW x \in 0 .. 2, NEW y \in 0 .. 2
       PROVE  p[x] \in nbrs[p[y]] <=> (x = y + 1 \/ y = x + 1)
  <2>1. CASE x = 0
    BY <2>1, <1>5, <1>6, <1>8
  <2>2. CASE x = 1
    BY <2>2, <1>5, <1>6, <1>8
  <2>3. CASE x = 2
    BY <2>3, <1>5, <1>6, <1>8
  <2> QED
    BY <2>1, <2>2, <2>3, <1>8
<1>11. IsPath(nbrs, 2, p)
  BY <1>8, <1>9, <1>10 DEF IsPath
<1>12. Leaves(nbrs, numbering, Len(numbering), 2, p)
  BY <1>2, <1>4, <1>5, <1>8, <1>11 DEF Leaves
<1>13. 2 \in Nat /\ 2 >= 2
  OBVIOUS
<1> QED
  BY <1>1, <1>2, <1>12, <1>13, NeverLeaves

\* The first node of a set that was eliminated had left neighbours that are joined.
LEMMA EliminationSuffices ==
  ASSUME BuildInv, SearchAgain
  PROVE  Chordal(nbrs)
<1>1. /\ BuildTypeOK /\ IsGraph(nbrs) /\ IsOrder(numbering) /\ Len(numbering) = N
      /\ \A i \in DOMAIN numbering : IsComplete(nbrs, nbrs[numbering[i]] \ First(numbering, i))
  BY DEF BuildInv, TriangulateInv, SearchAgain
<1>2. DOMAIN numbering = 1 .. Len(numbering) /\ Len(numbering) \in Nat
  BY <1>1, NumberedFirst
<1>3. First(numbering, Len(numbering)) = Node
  BY <1>1, OrderCount
<1> SUFFICES ASSUME NEW S \in (SUBSET Node) \ {{}}
             PROVE  \E n \in S : \A a, b \in Node : a # b /\ nbrs[n] \cap S = {a, b} => a \in nbrs[b]
  BY DEF Chordal
<1>4. PICK i \in DOMAIN numbering :
        numbering[i] \in S /\ \A j \in DOMAIN numbering : numbering[j] \in S => i <= j
  <2> DEFINE T == {i \in DOMAIN numbering : numbering[i] \in S}
  <2>1. T \in SUBSET Nat /\ T # {}
    <3>1. PICK n \in S : n \in First(numbering, Len(numbering))
      BY <1>3
    <3> QED
      BY <3>1, <1>2 DEF First
  <2>2. \E i \in T : \A j \in T : i <= j
    <3> HIDE DEF T
    <3> QED
      BY <2>1, LeastNat
  <2> QED
    BY <2>2
<1>5. ASSUME NEW a \in Node, NEW b \in Node, a # b, nbrs[numbering[i]] \cap S = {a, b}
      PROVE  a \in nbrs[b]
  <2>1. \A c \in S : c \in First(numbering, i) => c = numbering[i]
    <3> SUFFICES ASSUME NEW c \in S, c \in First(numbering, i) PROVE c = numbering[i]
      OBVIOUS
    <3>1. PICK j \in 1 .. i : c = numbering[j]
      BY DEF First
    <3>2. j \in DOMAIN numbering
      BY <3>1, <1>2
    <3>3. i <= j
      BY <3>1, <3>2, <1>4
    <3> QED
      BY <3>1, <3>3, <1>2
  <2>2. numbering[i] \in Node /\ numbering[i] \notin nbrs[numbering[i]]
    BY <1>1, OrderFirst DEF IsGraph
  <2>3. a \in S /\ b \in S /\ a \in nbrs[numbering[i]] /\ b \in nbrs[numbering[i]]
    BY <1>5
  <2>4. {a, b} \subseteq nbrs[numbering[i]] \ First(numbering, i)
    BY <2>1, <2>2, <2>3
  <2> QED
    BY <2>4, <1>1, <1>5 DEF IsComplete
<1> QED
  BY <1>4, <1>5

\* The search never takes a chordal graph for one that is not, and the elimination
\* leaves a chordal one.
THEOREM BuildTriangulatesIfNeeded == BuildSpec => TriangulatesIfNeeded
<1>1. BuildInv /\ [BuildNext]_buildVars =>
        [(FailSearch => ~Chordal(nbrs)) /\ (SearchAgain => Chordal(nbrs))]_buildVars
  BY FailsForCause, EliminationSuffices
<1> QED
  BY <1>1, BuildInvariant, PTL DEF BuildSpec, TriangulatesIfNeeded

-----------------------------------------------------------------------------
(***************************************************************************)
(* Queries on a directed graph.                                            *)
(***************************************************************************)

(* What the walks of GetTopologicalOrder keep true: the list is an order with   *)
(* parents first, and the parents of a node that lie before the position kept   *)
(* in its list of neighbours all have a place.                                  *)
OrderInv ==
  /\ edges \subseteq Node \X Node /\ Acyclic(edges)
  /\ IsOrder(order) /\ ParentsFirst
  /\ job = "Order" =>
       /\ Len(order) < N
       /\ here \in Node \ Placed /\ cogs \in [Node -> Node]
       /\ \A n \in Node : \A p \in ParentsOf(edges, n) : p < cogs[n] => p \in Placed

\* Edge e lets nobody go on from node n along an edge that was not met.
IsExpanded(e, n) ==
  /\ pattern[n] = "Folk" /\ n \in {e[1], e[2]} => Incident(unmet, {n}) = {}
  /\ pattern[n] = "Separator" /\ n = e[2] => \A d \in unmet : d[2] # n
  /\ pattern[n] = "Swamp" /\ n = e[1] => Incident(unmet, {n}) = {}
  /\ pattern[n] = "Swamp" /\ n = e[2] => \A d \in unmet : d[1] # n

(* What the levels of GetDReachableSubgraph keep true.  Edges met before the     *)
(* last level are expanded at both ends; those of the last level at the nodes    *)
(* that this level has been at.                                                  *)
ReachInv ==
  job \in {"List", "Table", "Answered"} =>
    /\ (\A n \in Node : pattern[n] # "Number") => pattern = PatternOfList(separator)
    /\ unmet \subseteq edges /\ cur \subseteq edges \ unmet /\ nxt \subseteq edges \ unmet
    /\ level \in -1 .. N-1
    /\ from \subseteq mark /\ Incident(unmet, from) = {}
    /\ EndsOf(edges \ unmet) \subseteq mark
    /\ prev = Cardinality(unmet \cup nxt)
    /\ \A e \in edges \ (unmet \cup nxt) : \A n \in Node :
         (e \in cur => level < n) => IsExpanded(e, n)
    /\ job = "Answered" => level = -1 /\ nxt = {}

QueryInv == OrderInv /\ ReachInv

LEMMA ChoosesSmallest ==
  ASSUME NEW S \in SUBSET Node, S # {}
  PROVE  SmallestOf(S) \in S /\ \A k \in S : SmallestOf(S) <= k
<1>1. S \in SUBSET Nat
  BY NodesAssumption DEF Node
<1> QED
  BY <1>1, LeastNat DEF SmallestOf

LEMMA PlacedFirst ==
  ASSUME IsOrder(order)
  PROVE  /\ Placed = First(order, Len(order)) /\ Placed \in SUBSET Node
         /\ Len(order) \in Nat /\ DOMAIN order = 1 .. Len(order)
         /\ Cardinality(Placed) = Len(order)
<1>1. order \in Seq(Node) /\ Len(order) \in Nat /\ DOMAIN order = 1 .. Len(order)
  BY DEF IsOrder
<1>2. Placed = First(order, Len(order))
  BY <1>1, FirstNodes DEF Placed
<1>3. First(order, Len(order)) \in SUBSET Node
  BY <1>1, FirstNodes
<1> QED
  BY <1>1, <1>2, <1>3, OrderCount

LEMMA QueriesStart == QueryInit => QueryInv
<1> SUFFICES ASSUME QueryInit PROVE QueryInv
  OBVIOUS
<1>1. edges \subseteq Node \X Node /\ Acyclic(edges) /\ job = "Idle" /\ order = <<>>
  BY DEF QueryInit
<1>2. order \in Seq(Node) /\ DOMAIN order = {}
  BY <1>1
<1>3. IsOrder(order) /\ ParentsFirst
  BY <1>2 DEF IsOrder, ParentsFirst
<1> QED
  BY <1>1, <1>3 DEF QueryInv, OrderInv, ReachInv

LEMMA StartOrderKeeps ==
  ASSUME QueryInv, StartOrder
  PROVE  QueryInv'
<1>1. /\ edges \subseteq Node \X Node /\ Acyclic(edges) /\ IsOrder(order) /\ ParentsFirst
      /\ order = <<>> /\ job' = "Order" /\ here' = 0 /\ cogs' = [n \in Node |-> 0]
      /\ edges' = edges /\ order' = order
  BY DEF QueryInv, OrderInv, StartOrder
<1>2. 0 \in Node /\ Node \in SUBSET Nat /\ N \in Nat /\ 0 < N
  BY NodesAssumption DEF Node
<1>3. Placed' = {} /\ Len(order') < N
  BY <1>1, <1>2 DEF Placed
<1>4. IsOrder(order') /\ ParentsFirst' /\ Acyclic(edges')
  BY <1>1 DEF ParentsFirst
<1>5. \A n \in Node : \A p \in ParentsOf(edges', n) : ~(p < cogs'[n])
  BY <1>1, <1>2 DEF ParentsOf
<1>6. cogs' \in [Node -> Node] /\ here' \in Node \ Placed'
  BY <1>1, <1>2, <1>3
<1> QED
  BY <1>1, <1>3, <1>4, <1>5, <1>6 DEF QueryInv, OrderInv, ReachInv

LEMMA GoToParentKeeps ==
  ASSUME QueryInv, GoToParent
  PROVE  QueryInv'
<1>1. /\ edges \subseteq Node \X Node /\ Acyclic(edges) /\ IsOrder(order) /\ ParentsFirst
      /\ Len(order) < N /\ here \in Node \ Placed /\ cogs \in [Node -> Node]
      /\ \A n \in Node : \A q \in ParentsOf(edges, n) : q < cogs[n] => q \in Placed
      /\ job = "Order" /\ job' = "Order" /\ edges' = edges /\ order' = order
      /\ Open(here) # {}
  BY DEF QueryInv, OrderInv, GoToParent
<1>2. PICK p : p = SmallestOf(Open(here))
  OBVIOUS
<1>3. here' = p /\ cogs' = [cogs EXCEPT ![here] = p]
  BY <1>2 DEF GoToParent, LookedAt
<1>4. Open(here) \in SUBSET Node
  BY DEF Open, ParentsOf
<1>5. p \in Open(here) /\ \A k \in Open(here) : p <= k
  BY <1>1, <1>2, <1>4, ChoosesSmallest
<1>6. p \in Node \ Placed
  BY <1>4, <1>5 DEF Open
<1>7. Placed' = Placed
  BY <1>1 DEF Placed
<1>8. \A n \in Node : \A q \in ParentsOf(edges, n) : q < cogs'[n] => q \in Placed
  <2> SUFFICES ASSUME NEW n \in Node, NEW q \in ParentsOf(edges, n), q < cogs'[n] PROVE q \in Placed
    OBVIOUS
  <2>1. CASE n = here
    <3>1. cogs'[n] = p /\ cogs[n] \in Node /\ q \in Node
      BY <2>1, <1>1, <1>3 DEF ParentsOf
    <3>2. p \in Int /\ q \in Int /\ cogs[n] \in Int
      BY <3>1, <1>6 DEF Node
    <3>3. q \notin Open(here)
      BY <3>1, <3>2, <1>5
    <3>4. q \in Placed \/ ~(q >= cogs[here])
      BY <3>3, <2>1 DEF Open
    <3> QED
      BY <3>2, <3>4, <2>1, <1>1
  <2>2. CASE n # here
    BY <2>2, <1>1, <1>3
  <2> QED
    BY <2>1, <2>2
<1>9. IsOrder(order') /\ ParentsFirst' /\ Acyclic(edges') /\ cogs' \in [Node -> Node]
  BY <1>1, <1>3, <1>6 DEF ParentsFirst
<1> QED
  BY <1>1, <1>3, <1>6, <1>7, <1>8, <1>9 DEF QueryInv, OrderInv, ReachInv

LEMMA PlaceKeeps ==
  ASSUME QueryInv, Place
  PROVE  QueryInv'
<1>1. /\ edges \subseteq Node \X Node /\ Acyclic(edges) /\ IsOrder(order) /\ ParentsFirst
      /\ Len(order) < N /\ here \in Node \ Placed /\ cogs \in [Node -> Node]
      /\ \A n \in Node : \A q \in ParentsOf(edges, n) : q < cogs[n] => q \in Placed
      /\ job = "Order" /\ edges' = edges /\ cogs' = cogs
      /\ Open(here) = {} /\ order' = Append(order, here)
  BY DEF QueryInv, OrderInv, Place
<1>2. /\ Placed = First(order, Len(order)) /\ Placed \in SUBSET Node
      /\ Len(order) \in Nat /\ DOMAIN order = 1 .. Len(order)
  BY <1>1, PlacedFirst
<1>3. /\ IsOrder(order')
      /\ order'[Len(order) + 1] = here /\ Len(order') = Len(order) + 1
      /\ \A k \in 1 .. Len(order) : order'[k] = order[k]
      /\ \A k \in 0 .. Len(order) : First(order', k) = First(order, k)
      /\ First(order', Len(order) + 1) = Placed \cup {here}
  BY <1>1, <1>2, OrderAppend
<1>4. DOMAIN order' = 1 .. Len(order) + 1 /\ Placed' = Placed \cup {here}
  <2>1. order' \in Seq(Node) /\ Len(order') \in 0 .. Len(order')
    BY <1>3 DEF IsOrder
  <2>2. First(order', Len(order')) = {order'[k] : k \in DOMAIN order'}
    BY <2>1, FirstNodes
  <2> QED
    BY <2>1, <2>2, <1>3 DEF Placed
<1>5. ParentsOf(edges, here) \subseteq Placed
  <2> SUFFICES ASSUME NEW q \in ParentsOf(edges, here), q \notin Placed PROVE FALSE
    OBVIOUS
  <2>1. q \in Node /\ cogs[here] \in Node
    BY <1>1 DEF ParentsOf
  <2>2. q \in Int /\ cogs[here] \in Int
    BY <2>1 DEF Node
  <2>3. ~(q < cogs[here])
    BY <1>1
  <2> QED
    BY <2>2, <2>3, <1>1 DEF Open
<1>6. ParentsFirst'
  <2>1. \A k, l \in DOMAIN order' : order'[k] = order'[l] => k = l
    BY <1>3 DEF IsOrder
  <2>2. ASSUME NEW l \in DOMAIN order' PROVE ParentsOf(edges, order'[l]) \subseteq First(order', l-1)
    <3>1. CASE l = Len(order) + 1
      <4>1. l - 1 = Len(order) /\ l - 1 \in 0 .. Len(order)
        BY <3>1, <1>2
      <4> QED
        BY <4>1, <3>1, <1>2, <1>3, <1>5
    <3>2. CASE l # Len(order) + 1
      <4>1. l \in DOMAIN order /\ l - 1 \in 0 .. Len(order)
        BY <3>2, <1>2, <1>4
      <4>2. ParentsOf(edges, order[l]) \subseteq First(order, l-1)
        BY <4>1, <1>1 DEF ParentsFirst, First
      <4> QED
        BY <4>1, <4>2, <1>2, <1>3
    <3> QED
      BY <3>1, <3>2
  <2> QED
    BY <2>1, <2>2, <1>1 DEF ParentsFirst, First
<1>7. CASE Len(order) = N - 1
  <2>1. job' = "Idle"
    BY <1>7 DEF Place
  <2> QED
    BY <2>1, <1>1, <1>3, <1>6 DEF QueryInv, OrderInv, ReachInv
<1>8. CASE Len(order) # N - 1
  <2>1. job' = "Order" /\ here' = SmallestOf(Node \ (Placed \cup {here}))
    BY <1>1, <1>8 DEF Place
  <2>2. Len(order') < N
    BY <1>1, <1>2, <1>3, <1>8, NodesAssumption
  <2>3. Placed' # Node
    <3>1. Cardinality(Placed') = Len(order')
      BY <1>3, <1>4, OrderCount
    <3>2. Cardinality(Node) = N
      BY <1>2, NodesFinite
    <3> QED
      BY <3>1, <3>2, <2>2, <1>2, <1>3, NodesAssumption
  <2>4. Node \ Placed' \in SUBSET Node /\ Node \ Placed' # {}
    BY <2>3, <1>1, <1>2, <1>4
  <2>5. here' \in Node \ Placed'
    BY <2>1, <2>4, <1>4, ChoosesSmallest
  <2>6. \A n \in Node : \A q \in ParentsOf(edges, n) : q < cogs[n] => q \in Placed'
    BY <1>1, <1>4
  <2> QED
    BY <2>1, <2>2, <2>5, <2>6, <1>1, <1>3, <1>6 DEF QueryInv, OrderInv, ReachInv
<1> QED
  BY <1>7, <1>8

-------------------------------------------------------------------------------
(***************************************************************************)
(* Functions that are computed step by step.                               *)
(***************************************************************************)

\* A set that contains 0 and with a number the next one contains them all.
LEMMA UpTo ==
  ASSUME NEW b \in Nat, NEW T, 0 \in T, \A n \in 0 .. b : n \in T /\ n # b => n + 1 \in T
  PROVE  \A n \in 0 .. b : n \in T
<1> SUFFICES ASSUME NEW n \in 0 .. b, n \notin T PROVE FALSE
  OBVIOUS
<1> DEFINE F == {k \in 0 .. b : k \notin T}
<1>1. F \in SUBSET Nat /\ F # {}
  OBVIOUS
<1>2. PICK k \in F : \A e \in F : k <= e
  <2> HIDE DEF F
  <2> QED
    BY <1>1, LeastNat
<1>3. k # 0 /\ k - 1 \in 0 .. b /\ k - 1 # b /\ (k - 1) + 1 = k
  OBVIOUS
<1>4. k - 1 \in T
  BY <1>2, <1>3
<1> QED
  BY <1>3, <1>4

\* f starts at base and goes on by step
Iterates(f, b, S, base, step) ==
  /\ f \in [0 .. b -> S]
  /\ f[0] = base
  /\ \A n \in 1 .. b : f[n] = step[f[n - 1]]

LEMMA Iteration ==
  ASSUME NEW b \in Nat, NEW S, NEW base \in S, NEW step \in [S -> S]
  PROVE  \E f : Iterates(f, b, S, base, step)
<1> DEFINE IsUpTo(f, k) == Iterates(f, k, S, base, step)
           T == {k \in 0 .. b : \E f : IsUpTo(f, k)}
<1>1. 0 \in T
  <2> DEFINE f == [n \in 0 .. 0 |-> base]
  <2>1. IsUpTo(f, 0)
    BY DEF Iterates
  <2> HIDE DEF f, IsUpTo
  <2> QED
    BY <2>1
<1>2. ASSUME NEW k \in 0 .. b, k \in T, k # b PROVE k + 1 \in T
  <2>1. PICK f : IsUpTo(f, k)
    BY <1>2
  <2> DEFINE g == [n \in 0 .. k + 1 |-> IF n = k + 1 THEN step[f[k]] ELSE f[n]]
  <2>2. f[k] \in S /\ step[f[k]] \in S
    BY <2>1 DEF Iterates
  <2>3. g \in [0 .. k + 1 -> S] /\ g[0] = base
    BY <2>1, <2>2 DEF Iterates
  <2>4. ASSUME NEW n \in 1 .. k + 1 PROVE g[n] = step[g[n - 1]]
    <3>1. CASE n = k + 1
      <4>1. g[n - 1] = f[k] /\ g[n] = step[f[k]]
        BY <3>1
      <4> QED
        BY <3>1, <4>1
    <3>2. CASE n # k + 1
      <4>1. n \in 1 .. k /\ g[n] = f[n] /\ g[n - 1] = f[n - 1]
        BY <3>2
      <4> QED
        BY <2>1, <4>1 DEF Iterates
    <3> QED
      BY <3>1, <3>2
  <2>5. IsUpTo(g, k + 1)
    BY <2>3, <2>4 DEF Iterates
  <2>6. k + 1 \in 0 .. b
    BY <1>2
  <2> HIDE DEF g, IsUpTo
  <2> QED
    BY <2>5, <2>6
<1>3. b \in T
  <2> HIDE DEF T
  <2> QED
    BY <1>1, <1>2, UpTo
<1> QED
  BY <1>3

\* What a component holds.
LEMMA ComponentOfNodes ==
  ASSUME NEW E \in SUBSET (Node \X Node), NEW S, NEW n \in Node
  PROVE  Component(E, S, n) \in SUBSET Node
<1> DEFINE IsNear(f) == f = [k \in 0 .. N |-> IF k = 0 THEN {n} ELSE WithNeighbors(E, S, f[k-1])]
           near == CHOOSE f : IsNear(f)
           step == [C \in SUBSET Node |-> WithNeighbors(E, S, C)]
           T == {k \in 0 .. N : near[k] \subseteq Node}
<1>1. Component(E, S, n) = near[N]
  BY DEF Component
<1>2. N \in Nat /\ N \in 0 .. N
  BY NodesAssumption
<1>0. ASSUME NEW C \in SUBSET Node PROVE WithNeighbors(E, S, C) \in SUBSET Node
  BY DEF WithNeighbors, EndsOf, Incident
<1>3. step \in [SUBSET Node -> SUBSET Node]
  BY <1>0
<1>4. PICK f : Iterates(f, N, SUBSET Node, {n}, step)
  <2> HIDE DEF step
  <2> QED
    BY <1>2, <1>3, Iteration
<1>5. f \in [0 .. N -> SUBSET Node] /\ f[0] = {n} /\ \A k \in 1 .. N : f[k] = WithNeighbors(E, S, f[k-1])
  <2>1. f \in [0 .. N -> SUBSET Node] /\ f[0] = {n} /\ \A k \in 1 .. N : f[k] = step[f[k-1]]
    BY <1>4 DEF Iterates
  <2> SUFFICES ASSUME NEW k \in 1 .. N PROVE f[k] = WithNeighbors(E, S, f[k-1])
    BY <2>1
  <2>2. f[k-1] \in SUBSET Node
    BY <2>1, <1>2
  <2> QED
    BY <2>1, <2>2
<1>6. IsNear(f)
  <2>1. \A k \in 0 .. N : f[k] = IF k = 0 THEN {n} ELSE WithNeighbors(E, S, f[k-1])
    BY <1>2, <1>5
  <2> QED
    BY <2>1, <1>5
<1>7. IsNear(near)
  <2> HIDE DEF IsNear
  <2> QED
    BY <1>6
<1>8. near[0] = {n} /\ \A k \in 1 .. N : near[k] = WithNeighbors(E, S, near[k-1])
  <2> HIDE DEF near, T, step
  <2>1. \A k \in 0 .. N : near[k] = IF k = 0 THEN {n} ELSE WithNeighbors(E, S, near[k-1])
    BY <1>7
  <2> QED
    BY <1>2, <2>1
<1> HIDE DEF near
<1>9. 0 \in T
  BY <1>2, <1>8
<1>10. ASSUME NEW k \in 0 .. N, k \in T, k # N PROVE k + 1 \in T
  <2>1. k + 1 \in 1 .. N /\ (k + 1) - 1 = k
    BY <1>2, <1>10
  <2>2. near[k + 1] = WithNeighbors(E, S, near[k])
    BY <1>8, <2>1
  <2> QED
    BY <1>0, <1>10, <2>1, <2>2
<1>11. N \in T
  <2> HIDE DEF T
  <2> QED
    BY <1>2, <1>9, <1>10, UpTo
<1> QED
  BY <1>1, <1>11

LEMMA FiniteEdges ==
  ASSUME edges \subseteq Node \X Node
  PROVE  \A E \in SUBSET edges : IsFiniteSet(E) /\ Cardinality(E) \in Nat
<1>1. N - 1 \in Int /\ IsFiniteSet(Node)
  BY FS_Interval, NodesAssumption DEF Node
<1>2. IsFiniteSet(Node \X Node)
  BY <1>1, FS_Product
<1> QED
  BY <1>2, FS_Subset, FS_CardinalityType

LEMMA ReachStarts ==
  ASSUME NEW S \in SUBSET Node, NEW pat, StartReach(S, pat),
         QueryInv, job \notin {"Order"}, job' \in {"List", "Table"},
         (\A n \in Node : pat[n] # "Number") => pat = PatternOfList(separator'),
         UNCHANGED <<edges, orderVars>>
  PROVE  QueryInv'
<1>1. /\ edges' = edges /\ from' = S /\ pattern' = pat /\ cur' = Incident(edges, S)
      /\ unmet' = edges \ cur' /\ nxt' = {} /\ level' = N - 1
      /\ prev' = Cardinality(unmet') /\ mark' = S \cup EndsOf(cur')
  BY DEF StartReach
<1>2. OrderInv'
  BY DEF QueryInv, OrderInv, ParentsFirst, orderVars
<1>3. edges \subseteq Node \X Node
  BY DEF QueryInv, OrderInv
<1>4. cur' \subseteq edges /\ edges' \ unmet' = cur' /\ unmet' \cup nxt' = unmet'
  BY <1>1 DEF Incident
<1>5. (\A n \in Node : pattern'[n] # "Number") => pattern' = PatternOfList(separator)'
  BY <1>1 DEF PatternOfList, GetAncestry
<1>6. level' \in -1 .. N-1 /\ \A n \in Node : ~(level' < n)
  BY <1>1, NodesAssumption DEF Node
<1>7. Incident(unmet', from') = {}
  BY <1>1 DEF Incident
<1>8. EndsOf(edges' \ unmet') \subseteq mark'
  BY <1>1, <1>4
<1>9. \A e \in edges' \ (unmet' \cup nxt') : e \in cur'
  BY <1>4
<1> QED
  BY <1>1, <1>2, <1>4, <1>5, <1>6, <1>7, <1>8, <1>9 DEF QueryInv, ReachInv

LEMMA ListKeeps ==
  ASSUME QueryInv, NEW n \in Node, NEW sep \in SUBSET Node, GetDConnectionList(n, sep)
  PROVE  QueryInv'
<1>1. /\ job = "Idle" /\ job' = "List" /\ separator' = sep
      /\ StartReach({n}, PatternOfList(sep)) /\ UNCHANGED <<edges, orderVars>>
  BY DEF GetDConnectionList
<1> QED
  BY <1>1, ReachStarts

LEMMA TableKeeps ==
  ASSUME QueryInv, NEW n \in Node, NEW sep \in SUBSET Node, GetDConnectionTable(n, sep)
  PROVE  QueryInv'
<1> DEFINE folk == GetAncestry(edges, sep)
           pat == [k \in Node |-> IF k \in folk THEN "Number" ELSE PatternOfList(sep)[k]]
           S == IF n \in folk THEN Component(edges, folk, n) ELSE {n}
<1>1. /\ job = "Idle" /\ job' = "Table" /\ separator' = sep
      /\ StartReach(S, pat) /\ UNCHANGED <<edges, orderVars>>
  BY DEF GetDConnectionTable
<1>2. ASSUME \A k \in Node : pat[k] # "Number" PROVE pat = PatternOfList(sep)
  <2>1. \A k \in Node : k \notin folk
    BY <1>2
  <2> QED
    BY <2>1 DEF PatternOfList
<1>3. S \in SUBSET Node
  <2>1. edges \in SUBSET (Node \X Node)
    BY DEF QueryInv, OrderInv
  <2>2. Component(edges, folk, n) \in SUBSET Node
    BY <2>1, ComponentOfNodes
  <2> QED
    BY <2>2
<1> QED
  BY <1>1, <1>2, <1>3, ReachStarts

LEMMA ExpandKeeps ==
  ASSUME QueryInv, ExpandNode
  PROVE  QueryInv'
<1>1. /\ job \in {"List", "Table"} /\ job' = job /\ level >= 0 /\ level' = level - 1
      /\ edges' = edges /\ from' = from /\ separator' = separator /\ pattern' = pattern
      /\ cur' = cur /\ prev' = prev
  BY DEF ExpandNode
<1>2. PICK T : T = Taken(level)
  OBVIOUS
<1>3. unmet' = unmet \ T /\ nxt' = nxt \cup T /\ mark' = mark \cup EndsOf(T)
  BY <1>2 DEF ExpandNode
<1>4. /\ (\A n \in Node : pattern[n] # "Number") => pattern = PatternOfList(separator)
      /\ unmet \subseteq edges /\ cur \subseteq edges \ unmet /\ nxt \subseteq edges \ unmet
      /\ level \in -1 .. N-1
      /\ from \subseteq mark /\ Incident(unmet, from) = {}
      /\ EndsOf(edges \ unmet) \subseteq mark
      /\ prev = Cardinality(unmet \cup nxt)
      /\ \A e \in edges \ (unmet \cup nxt) : \A n \in Node :
           (e \in cur => level < n) => IsExpanded(e, n)
  BY <1>1 DEF QueryInv, ReachInv
<1>5. T \subseteq unmet
  BY <1>2 DEF Taken, Incident
<1>6. OrderInv'
  BY <1>1 DEF QueryInv, OrderInv, ParentsFirst, orderVars, ExpandNode
<1>7. unmet' \cup nxt' = unmet \cup nxt
  BY <1>3, <1>5
<1>8. level \in Node /\ level' \in -1 .. N-1 /\ level \in Int
  BY <1>1, <1>4, NodesAssumption DEF Node
<1>9. (\A n \in Node : pattern'[n] # "Number") => pattern' = PatternOfList(separator)'
  BY <1>1, <1>4 DEF PatternOfList, GetAncestry
<1>10. Incident(unmet', from') = {} /\ from' \subseteq mark'
  BY <1>1, <1>3, <1>4 DEF Incident
<1>11. EndsOf(edges' \ unmet') \subseteq mark'
  BY <1>1, <1>3, <1>4 DEF EndsOf
<1>12. ASSUME NEW e \in cur, NEW n \in Node, n = level PROVE IsExpanded(e, n)'
  <2>1. e \in Node \X Node /\ e = <<e[1], e[2]>>
    BY <1>4 DEF QueryInv, OrderInv
  <2>2. ASSUME pattern[n] = "Folk", n \in {e[1], e[2]} PROVE T = Incident(unmet, {n})
    <3>1. Incident(cur, {n}) # {}
      BY <2>2 DEF Incident
    <3> QED
      BY <2>2, <3>1, <1>2, <1>12 DEF Taken
  <2>3. ASSUME pattern[n] = "Separator", n = e[2] PROVE T = {d \in unmet : d[2] = n}
    <3>1. ParentsOf(cur, n) # {}
      BY <2>1, <2>3 DEF ParentsOf
    <3> QED
      BY <2>3, <3>1, <1>2, <1>12 DEF Taken
  <2>4. ASSUME pattern[n] = "Swamp", n = e[1] PROVE T = Incident(unmet, {n})
    <3>1. ChildrenOf(cur, n) # {}
      BY <2>1, <2>4 DEF ChildrenOf
    <3> QED
      BY <2>4, <3>1, <1>2, <1>12 DEF Taken
  <2>5. ASSUME pattern[n] = "Swamp", n = e[2] PROVE {d \in unmet : d[1] = n} \subseteq T
    <3>1. ParentsOf(cur, n) # {}
      BY <2>1, <2>5 DEF ParentsOf
    <3>2. T = Incident(unmet, {n}) \/ T = {d \in unmet : d[1] = n}
      BY <2>5, <3>1, <1>2, <1>12 DEF Taken
    <3> QED
      BY <3>2 DEF Incident
  <2> QED
    BY <2>2, <2>3, <2>4, <2>5, <1>1, <1>3 DEF IsExpanded, Incident
<1>13. ASSUME NEW e, NEW n \in Node, IsExpanded(e, n) PROVE IsExpanded(e, n)'
  BY <1>13, <1>1, <1>3 DEF IsExpanded, Incident
<1>14. ASSUME NEW e \in edges' \ (unmet' \cup nxt'), NEW n \in Node, e \in cur' => level' < n
       PROVE  IsExpanded(e, n)'
  <2>1. e \in edges \ (unmet \cup nxt)
    BY <1>1, <1>7
  <2>2. CASE e \in cur /\ n = level
    BY <2>2, <1>12
  <2>3. CASE ~(e \in cur /\ n = level)
    <3>1. n \in Int
      BY DEF Node
    <3>2. e \in cur => level < n
      BY <3>1, <2>3, <1>1, <1>8, <1>14
    <3> QED
      BY <2>1, <3>2, <1>4, <1>13
  <2> QED
    BY <2>2, <2>3
<1>15. unmet' \subseteq edges' /\ cur' \subseteq edges' \ unmet' /\ nxt' \subseteq edges' \ unmet'
  BY <1>1, <1>3, <1>4, <1>5
<1> QED
  BY <1>1, <1>4, <1>6, <1>7, <1>8, <1>9, <1>10, <1>11, <1>14, <1>15 DEF QueryInv, ReachInv

LEMMA NextLevelKeeps ==
  ASSUME QueryInv, NextLevel
  PROVE  QueryInv'
<1>1. /\ job \in {"List", "Table"} /\ level < 0 /\ edges' = edges /\ cur' = nxt /\ nxt' = {}
      /\ from' = from /\ separator' = separator /\ pattern' = pattern
      /\ unmet' = unmet /\ mark' = mark
  BY DEF NextLevel
<1>2. /\ (\A n \in Node : pattern[n] # "Number") => pattern = PatternOfList(separator)
      /\ unmet \subseteq edges /\ cur \subseteq edges \ unmet /\ nxt \subseteq edges \ unmet
      /\ level \in -1 .. N-1
      /\ from \subseteq mark /\ Incident(unmet, from) = {}
      /\ EndsOf(edges \ unmet) \subseteq mark
      /\ prev = Cardinality(unmet \cup nxt)
      /\ \A e \in edges \ (unmet \cup nxt) : \A n \in Node :
           (e \in cur => level < n) => IsExpanded(e, n)
  BY <1>1 DEF QueryInv, ReachInv
<1>3. OrderInv'
  BY <1>1 DEF QueryInv, OrderInv, ParentsFirst, orderVars, NextLevel
<1>4. (\A n \in Node : pattern'[n] # "Number") => pattern' = PatternOfList(separator)'
  BY <1>1, <1>2 DEF PatternOfList, GetAncestry
<1>5. level = -1 /\ \A n \in Node : n \in Int /\ level < n
  BY <1>1, <1>2, NodesAssumption DEF Node
<1>6. ASSUME NEW e \in edges \ (unmet \cup nxt), NEW n \in Node PROVE IsExpanded(e, n)'
  <2>1. IsExpanded(e, n)
    BY <1>2, <1>5
  <2> QED
    BY <2>1, <1>1 DEF IsExpanded
<1>7. CASE prev = Cardinality(unmet)
  <2>1. job' = "Answered" /\ level' = level /\ prev' = prev
    BY <1>7 DEF NextLevel
  <2>2. nxt = {}
    <3>1. edges \subseteq Node \X Node
      BY DEF QueryInv, OrderInv
    <3>2. unmet \cup nxt \in SUBSET edges
      BY <1>2
    <3>3. IsFiniteSet(unmet \cup nxt)
      BY <3>1, <3>2, FiniteEdges
    <3>4. unmet \in SUBSET (unmet \cup nxt) /\ Cardinality(unmet) = Cardinality(unmet \cup nxt)
      BY <1>2, <1>7
    <3>5. unmet = unmet \cup nxt
      BY <3>3, <3>4, FS_Subset
    <3> QED
      BY <3>5, <1>2
  <2> QED
    BY <2>1, <2>2, <1>1, <1>2, <1>3, <1>4, <1>5, <1>6, NodesAssumption DEF QueryInv, ReachInv
<1>8. CASE prev # Cardinality(unmet)
  <2>1. level' = N - 1 /\ prev' = Cardinality(unmet) /\ job' = job
    BY <1>8 DEF NextLevel
  <2>2. level' \in -1 .. N-1 /\ \A n \in Node : ~(level' < n)
    BY <2>1, NodesAssumption DEF Node
  <2>3. unmet' \cup nxt' = unmet
    BY <1>1
  <2>4. ASSUME NEW e \in edges' \ (unmet' \cup nxt'), NEW n \in Node, e \in cur' => level' < n
        PROVE  IsExpanded(e, n)'
    BY <2>2, <2>3, <2>4, <1>1, <1>6
  <2> QED
    BY <2>1, <2>2, <2>3, <2>4, <1>1, <1>2, <1>3, <1>4 DEF QueryInv, ReachInv
<1> QED
  BY <1>7, <1>8

\* What the order and the levels of a d-connection keep true holds in every state.
\* (GetTopologicalOrder, GetDReachableSubgraph)
THEOREM QueryInvariant == QuerySpec => []QueryInv
<1>1. QueryInit => QueryInv
  BY QueriesStart
<1>2. QueryInv /\ [QueryNext]_queryVars => QueryInv'
  <2> SUFFICES ASSUME QueryInv, [QueryNext]_queryVars PROVE QueryInv'
    OBVIOUS
  <2>1. CASE StartOrder
    BY <2>1, StartOrderKeeps
  <2>2. CASE GoToParent
    BY <2>2, GoToParentKeeps
  <2>3. CASE Place
    BY <2>3, PlaceKeeps
  <2>4. CASE \E n \in Node, sep \in SUBSET Node : GetDConnectionList(n, sep) \/ GetDConnectionTable(n, sep)
    <3>1. PICK n \in Node, sep \in SUBSET Node : GetDConnectionList(n, sep) \/ GetDConnectionTable(n, sep)
      BY <2>4
    <3> QED
      BY <3>1, ListKeeps, TableKeeps
  <2>5. CASE ExpandNode
    BY <2>5, ExpandKeeps
  <2>6. CASE NextLevel
    BY <2>6, NextLevelKeeps
  <2>7. CASE UNCHANGED queryVars
    <3>1. /\ edges' = edges /\ job' = job /\ order' = order /\ here' = here /\ cogs' = cogs
          /\ from' = from /\ separator' = separator /\ pattern' = pattern /\ unmet' = unmet
          /\ cur' = cur /\ nxt' = nxt /\ level' = level /\ prev' = prev /\ mark' = mark
      BY <2>7 DEF queryVars, orderVars, dVars
    <3>2. OrderInv'
      BY <3>1 DEF QueryInv, OrderInv, ParentsFirst, Placed
    <3>3. (\A n \in Node : pattern'[n] # "Number") /\ pattern = PatternOfList(separator)
             => pattern' = PatternOfList(separator)'
      BY <3>1 DEF PatternOfList, GetAncestry
    <3>4. \A e, n : IsExpanded(e, n) => IsExpanded(e, n)'
      BY <3>1 DEF IsExpanded
    <3> QED
      BY <3>1, <3>2, <3>3, <3>4 DEF QueryInv, ReachInv
  <2> QED
    BY <2>1, <2>2, <2>3, <2>4, <2>5, <2>6, <2>7 DEF QueryNext
<1> QED
  BY <1>1, <1>2, PTL DEF QuerySpec

\* The variables of the queries keep their types.  (CGraph)
THEOREM QueryTypeCorrect == QuerySpec => []QueryTypeOK
<1> DEFINE Patterns == {"Folk", "Separator", "Swamp", "Number"}
<1>1. QueryInit => QueryTypeOK
  <2> SUFFICES ASSUME QueryInit PROVE QueryTypeOK
    OBVIOUS
  <2>1. 0 \in Node /\ -1 \in -1 .. N-1 /\ order \in Seq(Node)
    BY NodesAssumption DEF QueryInit, Node
  <2> QED
    BY <2>1 DEF QueryInit, QueryTypeOK
<1>2. QueryTypeOK /\ QueryInv /\ [QueryNext]_queryVars => QueryTypeOK'
  <2> SUFFICES ASSUME QueryTypeOK, QueryInv, [QueryNext]_queryVars PROVE QueryTypeOK'
    OBVIOUS
  <2>1. /\ edges \in SUBSET (Node \X Node) /\ 0 \in Node
        /\ \A E \in SUBSET edges : EndsOf(E) \subseteq Node /\ Cardinality(E) \in Nat
        /\ \A sep : PatternOfList(sep) \in [Node -> Patterns]
    <3>1. edges \subseteq Node \X Node /\ 0 \in Node
      BY NodesAssumption DEF QueryTypeOK, Node
    <3> QED
      BY <3>1, FiniteEdges DEF EndsOf, PatternOfList
  <2>2. ASSUME NEW S \in SUBSET Node, NEW pat \in [Node -> Patterns], StartReach(S, pat)
        PROVE  /\ from' \subseteq Node /\ pattern' \in [Node -> Patterns]
               /\ cur' \subseteq edges /\ nxt' \subseteq edges /\ unmet' \subseteq edges
               /\ level' \in -1 .. N-1 /\ prev' \in Nat /\ mark' \subseteq Node
    <3>1. Incident(edges, S) \in SUBSET edges /\ edges \ Incident(edges, S) \in SUBSET edges
      BY DEF Incident
    <3> QED
      BY <2>1, <2>2, <3>1, NodesAssumption DEF StartReach
  <2>3. CASE StartOrder
    BY <2>1, <2>3 DEF StartOrder, QueryTypeOK, dVars
  <2>4. CASE GoToParent
    <3>1. PICK p : p = SmallestOf(Open(here))
      OBVIOUS
    <3>2. Open(here) \in SUBSET Node /\ Open(here) # {}
      BY <2>4 DEF Open, ParentsOf, GoToParent
    <3>3. p \in Node
      BY <3>1, <3>2, ChoosesSmallest
    <3> QED
      BY <2>4, <3>1, <3>3 DEF GoToParent, LookedAt, QueryTypeOK, dVars
  <2>5. CASE Place
    <3>1. here' \in Node
      <4>1. job' = "Order" => here' \in Node
        <5>1. QueryInv'
          BY <2>5, PlaceKeeps
        <5> QED
          BY <5>1 DEF QueryInv, OrderInv
      <4>2. job' # "Order" => here' = here
        BY <2>5 DEF Place
      <4> QED
        BY <4>1, <4>2 DEF QueryTypeOK
    <3>2. order' \in Seq(Node) /\ job' \in {"Idle", "Order"}
      BY <2>5 DEF Place, QueryTypeOK
    <3> QED
      BY <2>5, <3>1, <3>2 DEF Place, QueryTypeOK, dVars
  <2>6. CASE \E n \in Node, sep \in SUBSET Node : GetDConnectionList(n, sep) \/ GetDConnectionTable(n, sep)
    <3>1. PICK n \in Node, sep \in SUBSET Node : GetDConnectionList(n, sep) \/ GetDConnectionTable(n, sep)
      BY <2>6
    <3>2. \E S \in SUBSET Node, pat \in [Node -> Patterns] : StartReach(S, pat)
      <4>1. CASE GetDConnectionList(n, sep)
        <5>1. {n} \in SUBSET Node /\ StartReach({n}, PatternOfList(sep))
          BY <4>1 DEF GetDConnectionList
        <5> QED
          BY <5>1, <2>1
      <4>2. CASE GetDConnectionTable(n, sep)
        <5> DEFINE folk == GetAncestry(edges, sep)
                   pat == [k \in Node |-> IF k \in folk THEN "Number" ELSE PatternOfList(sep)[k]]
                   S == IF n \in folk THEN Component(edges, folk, n) ELSE {n}
        <5>1. StartReach(S, pat)
          BY <4>2 DEF GetDConnectionTable
        <5>2. S \in SUBSET Node
          BY <2>1, ComponentOfNodes
        <5>3. pat \in [Node -> Patterns]
          BY <2>1
        <5> QED
          BY <5>1, <5>2, <5>3
      <4> QED
        BY <3>1, <4>1, <4>2
    <3>3. separator' = sep /\ job' \in {"List", "Table"} /\ UNCHANGED <<edges, orderVars>>
      BY <3>1 DEF GetDConnectionList, GetDConnectionTable
    <3> QED
      BY <2>2, <3>2, <3>3 DEF QueryTypeOK, orderVars
  <2>7. CASE ExpandNode
    <3>1. PICK T : T = Taken(level)
      OBVIOUS
    <3>2. T \in SUBSET unmet
      BY <3>1 DEF Taken, Incident
    <3>3. T \in SUBSET edges
      BY <3>2 DEF QueryTypeOK
    <3>4. EndsOf(T) \subseteq Node
      BY <2>1, <3>3
    <3>5. level' \in -1 .. N-1
      BY <2>7, NodesAssumption DEF ExpandNode, QueryTypeOK
    <3>6. /\ unmet' = unmet \ T /\ nxt' = nxt \cup T /\ mark' = mark \cup EndsOf(T)
          /\ UNCHANGED <<edges, job, orderVars, from, separator, pattern, cur, prev>>
      BY <2>7, <3>1 DEF ExpandNode
    <3> QED
      BY <3>3, <3>4, <3>5, <3>6 DEF QueryTypeOK, orderVars
  <2>8. CASE NextLevel
    <3>1. Cardinality(unmet) \in Nat
      BY <2>1 DEF QueryTypeOK
    <3>2. level' \in -1 .. N-1 /\ prev' \in Nat
      BY <2>8, <3>1, NodesAssumption DEF NextLevel, QueryTypeOK
    <3>3. job' \in {"List", "Table", "Answered"}
      BY <2>8 DEF NextLevel
    <3> QED
      BY <2>8, <3>2, <3>3 DEF NextLevel, QueryTypeOK, orderVars
  <2>9. CASE UNCHANGED queryVars
    BY <2>9 DEF QueryTypeOK, queryVars, orderVars, dVars
  <2> QED
    BY <2>3, <2>4, <2>5, <2>6, <2>7, <2>8, <2>9 DEF QueryNext
<1> QED
  BY <1>1, <1>2, QueryInvariant, PTL DEF QuerySpec

\* The topological order lists parents first, of any number of nodes and edges.
\* (GetTopologicalOrder)
THEOREM OrderPutsParentsFirst == QuerySpec => []ParentsFirst
<1>1. QueryInv => ParentsFirst
  BY DEF QueryInv, OrderInv
<1> QED
  BY <1>1, QueryInvariant, PTL

\* No two nodes are each other's parents.
LEMMA OneDirection ==
  ASSUME NEW E \in SUBSET (Node \X Node), Acyclic(E), NEW x, NEW y, <<x, y>> \in E
  PROVE  <<y, x>> \notin E
<1> SUFFICES ASSUME <<y, x>> \in E PROVE FALSE
  OBVIOUS
<1>1. x \in Node /\ y \in Node
  OBVIOUS
<1>2. {x, y} \in (SUBSET Node) \ {{}}
  BY <1>1
<1>3. PICK n \in {x, y} : ParentsOf(E, n) \cap {x, y} = {}
  BY <1>2 DEF Acyclic
<1>4. y \in ParentsOf(E, x) /\ x \in ParentsOf(E, y)
  BY <1>1 DEF ParentsOf
<1> QED
  BY <1>3, <1>4

\* The arcs of edges met, in both directions.
MetArcs == {a \in Arcs : a \in edges \ unmet \/ <<a[2], a[1]>> \in edges \ unmet}

LEMMA ArcsAreArcs ==
  ASSUME edges \subseteq Node \X Node
  PROVE  /\ Arcs \in SUBSET (Node \X Node) /\ Cardinality(Arcs) \in Nat
         /\ \A a \in Arcs : a = <<a[1], a[2]>> /\ (a \in edges \/ <<a[2], a[1]>> \in edges)
<1>1. Arcs \in SUBSET (Node \X Node)
  BY DEF Arcs
<1>2. N - 1 \in Int /\ IsFiniteSet(Node)
  BY FS_Interval, NodesAssumption DEF Node
<1>3. Cardinality(Arcs) \in Nat
  BY <1>1, <1>2, FS_Product, FS_Subset, FS_CardinalityType
<1>4. ASSUME NEW a \in Arcs PROVE a = <<a[1], a[2]>> /\ (a \in edges \/ <<a[2], a[1]>> \in edges)
  <2>1. CASE a \in edges
    BY <2>1
  <2>2. CASE a \notin edges
    <3>1. PICK e \in edges : a = <<e[2], e[1]>>
      BY <2>2 DEF Arcs
    <3>2. e = <<e[1], e[2]>>
      OBVIOUS
    <3>3. a[1] = e[2] /\ a[2] = e[1]
      BY <3>1
    <3> QED
      BY <3>1, <3>2, <3>3
  <2> QED
    BY <2>1, <2>2
<1> QED
  BY <1>1, <1>3, <1>4

\* A walk that comes along a met edge and passes a node goes on along a met edge.
LEMMA WalkStaysMet ==
  ASSUME QueryInv, job = "Answered", \A n \in Node : pattern[n] # "Number",
         NEW b \in MetArcs, NEW a \in Arcs, b[2] = a[1], b[1] # a[2],
         Passes(b[1], b[2], a[2], separator, AncestralClosure(edges, separator))
  PROVE  a \in MetArcs
<1>1. /\ edges \in SUBSET (Node \X Node) /\ Acyclic(edges) /\ pattern = PatternOfList(separator)
      /\ \A e \in edges \ unmet : \A n \in Node : IsExpanded(e, n)
  BY NodesAssumption DEF QueryInv, OrderInv, ReachInv, Node
<1>2. PICK x, y, z : x = b[1] /\ y = b[2] /\ y = a[1] /\ z = a[2]
  OBVIOUS
<1>3. /\ b = <<x, y>> /\ a = <<y, z>> /\ y \in Node
      /\ <<y, z>> \in edges \/ <<z, y>> \in edges
      /\ <<x, y>> \in edges \ unmet \/ <<y, x>> \in edges \ unmet
  BY <1>1, <1>2, ArcsAreArcs DEF MetArcs
<1>4. Passes(x, y, z, separator, AncestralClosure(edges, separator))
  BY <1>2
<1>5. PICK e : e \in edges \ unmet /\ e \in {<<x, y>>, <<y, x>>}
  BY <1>3
<1>6. PICK d : d \in edges /\ d \in {<<y, z>>, <<z, y>>}
  BY <1>3
<1>7. /\ <<x, y>> \in edges => <<y, x>> \notin edges
      /\ <<z, y>> \in edges => <<y, z>> \notin edges
  BY <1>1, OneDirection
<1>8. IsExpanded(e, y) /\ y \in {e[1], e[2]} /\ y \in {d[1], d[2]}
  BY <1>1, <1>3, <1>5, <1>6
<1>9. d \notin unmet
  <2>1. CASE y \in separator
    <3>1. pattern[y] = "Separator"
      BY <2>1, <1>1, <1>3 DEF PatternOfList
    <3>2. <<x, y>> \in edges /\ <<z, y>> \in edges
      BY <2>1, <1>4 DEF Passes
    <3>3. e = <<x, y>> /\ d = <<z, y>>
      BY <3>2, <1>5, <1>6, <1>7
    <3> QED
      BY <3>1, <3>3, <1>8 DEF IsExpanded
  <2>2. CASE y \in GetAncestry(edges, separator)
    <3>1. pattern[y] = "Folk"
      BY <2>2, <1>1, <1>3 DEF PatternOfList, GetAncestry
    <3> QED
      BY <3>1, <1>8 DEF IsExpanded, Incident
  <2>3. CASE y \notin separator /\ y \notin GetAncestry(edges, separator)
    <3>1. pattern[y] = "Swamp"
      BY <2>3, <1>1, <1>3 DEF PatternOfList
    <3>2. ~(<<x, y>> \in edges /\ <<z, y>> \in edges)
      BY <2>3, <1>4 DEF Passes, GetAncestry
    <3>3. CASE e = <<y, x>>
      BY <3>1, <3>3, <1>8 DEF IsExpanded, Incident
    <3>4. CASE e = <<x, y>>
      <4>1. d = <<y, z>>
        BY <3>2, <3>4, <1>5, <1>6
      <4> QED
        BY <3>1, <3>4, <4>1, <1>8 DEF IsExpanded
    <3> QED
      BY <3>3, <3>4, <1>5
  <2> QED
    BY <2>1, <2>2, <2>3
<1> QED
  BY <1>2, <1>3, <1>6, <1>9 DEF MetArcs

LEMMA WalksAreMet ==
  ASSUME QueryInv, job = "Answered", \A n \in Node : pattern[n] # "Number"
  PROVE  Walk(from, separator) \subseteq MetArcs
<1> DEFINE passed == AncestralClosure(edges, separator)
           c == Cardinality(Arcs)
           base == {a \in Arcs : a[1] \in from}
           IsWalk(f) == f = [k \in 0 .. c |-> IF k = 0 THEN base ELSE WalkOn(f[k-1], separator, passed)]
           walk == CHOOSE f : IsWalk(f)
           step == [R \in SUBSET Arcs |-> WalkOn(R, separator, passed)]
           T == {k \in 0 .. c : walk[k] \subseteq MetArcs}
<1>1. Walk(from, separator) = walk[c]
  BY DEF Walk
<1>2. c \in Nat /\ c \in 0 .. c
  BY ArcsAreArcs DEF QueryInv, OrderInv
<1>3. base \in SUBSET Arcs /\ \A R \in SUBSET Arcs : WalkOn(R, separator, passed) \in SUBSET Arcs
  BY DEF WalkOn
<1>4. step \in [SUBSET Arcs -> SUBSET Arcs]
  BY <1>3
<1>5. base \subseteq MetArcs
  <2> SUFFICES ASSUME NEW a \in Arcs, a[1] \in from PROVE a \in MetArcs
    OBVIOUS
  <2>1. a = <<a[1], a[2]>> /\ (a \in edges \/ <<a[2], a[1]>> \in edges)
    BY ArcsAreArcs DEF QueryInv, OrderInv
  <2>2. Incident(unmet, from) = {}
    BY DEF QueryInv, ReachInv
  <2>3. a \notin unmet /\ <<a[2], a[1]>> \notin unmet
    BY <2>2 DEF Incident
  <2> QED
    BY <2>1, <2>3 DEF MetArcs
<1>6. ASSUME NEW R \in SUBSET MetArcs PROVE WalkOn(R, separator, passed) \subseteq MetArcs
  <2> SUFFICES ASSUME NEW a \in Arcs, NEW b \in R, b[2] = a[1], b[1] # a[2],
                      Passes(b[1], b[2], a[2], separator, passed)
               PROVE  a \in MetArcs
    BY DEF WalkOn
  <2> QED
    BY WalkStaysMet
<1> HIDE DEF c, base, passed
<1>7. PICK f : Iterates(f, c, SUBSET Arcs, base, step)
  <2> HIDE DEF step
  <2> QED
    BY <1>2, <1>3, <1>4, Iteration
<1>8. /\ f \in [0 .. c -> SUBSET Arcs] /\ f[0] = base
      /\ \A k \in 1 .. c : f[k] = WalkOn(f[k-1], separator, passed)
  <2>1. f \in [0 .. c -> SUBSET Arcs] /\ f[0] = base /\ \A k \in 1 .. c : f[k] = step[f[k-1]]
    BY <1>7 DEF Iterates
  <2> SUFFICES ASSUME NEW k \in 1 .. c PROVE f[k] = WalkOn(f[k-1], separator, passed)
    BY <2>1
  <2>2. f[k-1] \in SUBSET Arcs
    BY <2>1, <1>2
  <2> QED
    BY <2>1, <2>2
<1>9. IsWalk(f)
  <2>1. \A k \in 0 .. c : f[k] = IF k = 0 THEN base ELSE WalkOn(f[k-1], separator, passed)
    BY <1>2, <1>8
  <2> QED
    BY <2>1, <1>8
<1>10. IsWalk(walk)
  <2> HIDE DEF IsWalk
  <2> QED
    BY <1>9
<1> HIDE DEF walk
<1>11. walk[0] = base /\ \A k \in 1 .. c : walk[k] = WalkOn(walk[k-1], separator, passed)
  <2> HIDE DEF T, step
  <2>1. \A k \in 0 .. c : walk[k] = IF k = 0 THEN base ELSE WalkOn(walk[k-1], separator, passed)
    BY <1>10
  <2> QED
    BY <1>2, <2>1
<1>12. 0 \in T
  BY <1>2, <1>5, <1>11
<1>13. ASSUME NEW k \in 0 .. c, k \in T, k # c PROVE k + 1 \in T
  <2>1. k + 1 \in 1 .. c /\ (k + 1) - 1 = k
    BY <1>2, <1>13
  <2>2. walk[k + 1] = WalkOn(walk[k], separator, passed)
    BY <1>11, <2>1
  <2> QED
    BY <1>6, <1>13, <2>1, <2>2
<1>14. c \in T
  <2> HIDE DEF T
  <2> QED
    BY <1>2, <1>12, <1>13, UpTo
<1> QED
  BY <1>1, <1>14

\* Every node that the separator leaves connected, by a walk of any length, is
\* reached, although each edge is met in one direction only.  (GetDReachableSubgraph)
THEOREM NoConnectionMissed == QuerySpec => []DConnectionCovers
<1>1. QueryInv => DConnectionCovers
  <2> SUFFICES ASSUME QueryInv, job = "Answered", \A n \in Node : pattern[n] # "Number"
               PROVE  DConnected(from, separator) \subseteq mark
    BY DEF DConnectionCovers
  <2>1. from \subseteq mark /\ EndsOf(edges \ unmet) \subseteq mark
    BY DEF QueryInv, ReachInv
  <2>2. ASSUME NEW a \in Walk(from, separator) PROVE a[2] \in mark
    <3>1. a \in MetArcs
      BY WalksAreMet
    <3>2. a[2] \in EndsOf(edges \ unmet)
      BY <3>1 DEF MetArcs, EndsOf
    <3> QED
      BY <2>1, <3>2
  <2> QED
    BY <2>1, <2>2 DEF DConnected
<1> QED
  BY <1>1, QueryInvariant, PTL
=============================================================================
