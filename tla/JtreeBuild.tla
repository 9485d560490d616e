------------------------------- MODULE JtreeBuild -------------------------------
(* Construction of a junction tree (CJunctionTree::ConstructJTree): the model's *)
(* graph is made moral, the nodes that the user wants in one clique are joined,  *)
(* a maximum cardinality search either lists the cliques or finds that the       *)
(* graph is not chordal and has it triangulated, and every clique is linked to   *)
(* an earlier one.                                                               *)
EXTENDS Nodes, Sequences, FiniteSets

CONSTANTS
  Models,    \* the models to build trees for, see IsModel
  Wanted     \* the possible subGrToConnect

\* A model: its type, and the domains of its factors.  The factor of node n of a
\* BNet, entry n, is over n and its parents, which have smaller numbers.
IsModel(m) ==
  /\ m.type \in {"BNet", "MNet"}
  /\ m.domain \in Seq((SUBSET Node) \ {{}})
  /\ m.type = "BNet" =>
       Len(m.domain) = N /\ \A n \in Node : n \in m.domain[n+1] /\ m.domain[n+1] \subseteq 0 .. n

ASSUME JtreeBuildAssumption ==
  /\ N >= 2
  /\ \A m \in Models : IsModel(m)
  /\ \A w \in Wanted : \A S \in w : S \subseteq Node /\ Cardinality(S) >= 2

VARIABLES
  model,        \* the model the tree is built for
  wanted,       \* subGrToConnect
  pc,           \* "Connect", "Search", "Triangulate", "Link" or "Built"
  nbrs,         \* m_pMoralGraph
  numbering,    \* m_perfectNumbering; during a triangulation, the eliminated nodes
  clique,       \* the clique that the search is at
  lastCard,     \* numbered neighbours of the last node
  cliques,      \* m_nodeContents
  connectTo,    \* the clique that the last one was linked to
  tree          \* the links of m_pGraph, later clique first

buildVars == <<model, wanted, pc, nbrs, numbering, clique, lastCard, cliques, connectTo, tree>>
search == <<numbering, clique, lastCard, cliques>>

Numbered == {numbering[k] : k \in DOMAIN numbering}

IsComplete(g, S) == \A a, b \in S : a # b => a \in g[b]

\* FormCliqueFromSubgraph for every set of C
WithCliques(g, C) == [n \in Node |-> g[n] \cup {k \in Node : k # n /\ \E S \in C : {n, k} \subseteq S}]

NoEdges == [n \in Node |-> {}]

-----------------------------------------------------------------------------
\* Mutant: the parents of a node are not joined.
MutNoMarriage(m) ==
  [n \in Node |-> {k \in Node : k # n /\ (k \in m.domain[n+1] \/ n \in m.domain[k+1])}]

\* MoralizeGraph: every node with its parents, and its parents with one another.
MoralizeGraph(m) == WithCliques(NoEdges, {m.domain[n+1] : n \in Node})

\* The graph of an MNet was made from the domains of its factors.
GraphOf(m) ==
  IF m.type = "BNet" THEN MoralizeGraph(m)
  ELSE WithCliques(NoEdges, {m.domain[k] : k \in DOMAIN m.domain})

BuildInit ==
  /\ model \in Models
  /\ wanted \in Wanted
  /\ pc = "Connect"
  /\ nbrs = GraphOf(model)
  /\ numbering = <<>> /\ clique = {} /\ lastCard = 0 /\ cliques = <<>>
  /\ connectTo = 1
  /\ tree = {}

\* The search starts at node 0.
StartSearch ==
  /\ numbering' = <<0>>
  /\ clique' = {} /\ lastCard' = 0 /\ cliques' = <<>>

AssureSubGraphsConnectedInCliques ==
  /\ pc = "Connect"
  /\ nbrs' = WithCliques(nbrs, wanted)
  /\ pc' = "Search"
  /\ StartSearch
  /\ UNCHANGED <<model, wanted, connectTo, tree>>

(* MaximumCardinalitySearch.                                                  *)

\* c[n], and the first of the nodes for which it is largest
Cardinal(n) == Cardinality(nbrs[n] \cap Numbered)

NextToNumber ==
  SmallestOf({n \in Node \ Numbered : \A k \in Node \ Numbered : Cardinal(k) <= Cardinal(n)})

\* Mutant: a clique ends only where the number of numbered neighbours falls.
MutFall(card) == card < lastCard

\* The numbered neighbours do not contain the last clique.
EndsClique(card) == card < lastCard + 1

\* Mutant: all neighbours of the node must be complete.
MutAllNeighbors(node) == IsComplete(nbrs, nbrs[node])

StaysChordal(node) == IsComplete(nbrs, nbrs[node] \cap Numbered)

NumberNode ==
  /\ pc = "Search" /\ Len(numbering) < N
  /\ LET node == NextToNumber  met == nbrs[node] \cap Numbered
         before == IF EndsClique(Cardinality(met)) THEN Append(cliques, clique) ELSE cliques
     IN
     /\ StaysChordal(node)
     /\ numbering' = Append(numbering, node)
     /\ clique' = met \cup {node}
     /\ lastCard' = Cardinality(met)
     /\ cliques' = IF Len(numbering) = N - 1 THEN Append(before, met \cup {node}) ELSE before
  /\ pc' = IF Len(numbering) = N - 1 THEN "Link" ELSE "Search"
  /\ UNCHANGED <<model, wanted, nbrs, connectTo, tree>>

\* The search meets a node with two numbered neighbours that are not joined.
FailSearch ==
  /\ pc = "Search" /\ Len(numbering) < N
  /\ ~StaysChordal(NextToNumber)
  /\ numbering' = <<>> /\ cliques' = <<>>
  /\ pc' = "Triangulate"
  /\ UNCHANGED <<model, wanted, nbrs, clique, lastCard, connectTo, tree>>

(* RunTriangulation.                                                          *)

Remaining(n) == nbrs[n] \ Numbered

FillIns(n) == Cardinality({e \in Remaining(n) \X Remaining(n) : e[1] < e[2] /\ e[2] \notin nbrs[e[1]]})

\* Mutant: the neighbours of the eliminated node are joined to it alone.
MutNoFill(node) == WithCliques(nbrs, {{node, k} : k \in Remaining(node)})

FillFor(node) == WithCliques(nbrs, {Remaining(node)})

EliminateNode ==
  /\ pc = "Triangulate" /\ Len(numbering) < N
  /\ LET left == Node \ Numbered
         node == SmallestOf({n \in left : \A k \in left : FillIns(n) <= FillIns(k)})
     IN
     /\ nbrs' = FillFor(node)
     /\ numbering' = Append(numbering, node)
  /\ UNCHANGED <<model, wanted, pc, clique, lastCard, cliques, connectTo, tree>>

SearchAgain ==
  /\ pc = "Triangulate" /\ Len(numbering) = N
  /\ pc' = "Search"
  /\ StartSearch
  /\ UNCHANGED <<model, wanted, nbrs, connectTo, tree>>

(* BuildTreeStructure.                                                        *)

Overlap(a, b) == Cardinality(cliques[a] \cap cliques[b])

\* Mutant: the clique before.
MutLast(k) == k - 1

\* The first of the earlier cliques that share most nodes with clique k; without
\* any shared node, the clique that the last one was linked to.
BestLink(k) ==
  LET best == {c \in 1 .. k-1 : Overlap(c, k) > 0 /\ \A d \in 1 .. k-1 : Overlap(d, k) <= Overlap(c, k)}
  IN IF best = {} THEN connectTo ELSE SmallestOf(best)

LinkClique ==
  /\ pc = "Link"
  /\ LET k == Cardinality(tree) + 2 IN
     IF k <= Len(cliques)
     THEN /\ connectTo' = BestLink(k)
          /\ tree' = tree \cup {<<k, BestLink(k)>>}
          /\ pc' = pc
     ELSE pc' = "Built" /\ UNCHANGED <<connectTo, tree>>
  /\ UNCHANGED <<model, wanted, nbrs, search>>

BuildNext ==
  \/ AssureSubGraphsConnectedInCliques
  \/ NumberNode \/ FailSearch
  \/ EliminateNode \/ SearchAgain
  \/ LinkClique

\* ConstructJTree runs in its caller's thread and waits for nothing.
BuildSpec == BuildInit /\ [][BuildNext]_buildVars /\ WF_buildVars(BuildNext)
-----------------------------------------------------------------------------
(* Properties.                                                                *)

Cliques == {cliques[k] : k \in DOMAIN cliques}

\* A search that starts at a node without neighbours puts it in no clique and
\* lists an empty one; an MNet can be so.
FirstNodeAlone == nbrs[0] = {}

IsMaximalClique(S) ==
  /\ S # {} /\ IsComplete(nbrs, S)
  /\ \A n \in Node \ S : ~IsComplete(nbrs, S \cup {n})

BuildTypeOK ==
  /\ pc \in {"Connect", "Search", "Triangulate", "Link", "Built"}
  /\ nbrs \in [Node -> SUBSET Node]
  /\ numbering \in Seq(Node)
  /\ clique \subseteq Node /\ lastCard \in 0 .. N-1
  /\ cliques \in Seq(SUBSET Node)
  /\ connectTo \in Nat /\ tree \subseteq (Nat \X Nat)

\* The search, which only compares the sizes of sets of neighbours, lists every
\* maximal clique of the final graph exactly once.  (MaximumCardinalitySearch)
CliquesExact ==
  pc = "Built" /\ ~FirstNodeAlone =>
    /\ Cliques = {S \in SUBSET Node : IsMaximalClique(S)}
    /\ Cardinality(Cliques) = Len(cliques)

\* Every factor of the model, and every set of nodes that the user asked for, has
\* a clique that holds it: AssignFactorsToClq will find one.  (MoralizeGraph,
\* AssureSubGraphsConnectedInCliques, RunTriangulation)
DomainsCovered ==
  pc = "Built" /\ ~FirstNodeAlone =>
    /\ \A k \in DOMAIN model.domain : \E S \in Cliques : model.domain[k] \subseteq S
    /\ \A W \in wanted : \E S \in Cliques : W \subseteq S

\* The links make a tree, and the cliques of a node hang together in it: between
\* the cliques of a node there is one link less than there are cliques.  A link to
\* a clique that merely shares some node would not do.  (BuildTreeStructure)
RunningIntersection ==
  pc = "Built" =>
    /\ Cardinality(tree) = Len(cliques) - 1
    /\ \A n \in UNION Cliques :
         LET at == {k \in DOMAIN cliques : n \in cliques[k]}
         IN Cardinality({e \in tree : e[1] \in at /\ e[2] \in at}) = Cardinality(at) - 1

\* Every cycle of four or more nodes has a chord: in no set has every node just
\* two neighbours that are not neighbours of each other.
Chordal(g) ==
  \A S \in (SUBSET Node) \ {{}} : \E n \in S :
    \A a, b \in Node : a # b /\ g[n] \cap S = {a, b} => a \in g[b]

\* A graph is triangulated only if it has to be, and one triangulation is enough:
\* the search never takes a chordal graph for one that is not, and the elimination
\* leaves a chordal one.  (MaximumCardinalitySearch, RunTriangulation)
TriangulatesIfNeeded ==
  [][(FailSearch => ~Chordal(nbrs)) /\ (SearchAgain => Chordal(nbrs))]_buildVars

\* while( !MaximumCardinalitySearch() ) RunTriangulation(); ends.
ConstructionEnds == <>(pc = "Built")
=============================================================================
