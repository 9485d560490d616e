--------------------------------- MODULE Graph ---------------------------------
(* Queries on the directed graph of a model (CGraph): an order of the nodes   *)
(* with parents first (GetTopologicalOrder), and the nodes d-connected to a    *)
(* node by a separator (GetDConnectionList, GetDConnectionTable), which the    *)
(* code finds by moving edges, level by level, from the rest of the graph to   *)
(* the graph of edges it came along.                                           *)
EXTENDS Nodes, Sequences, FiniteSets

VARIABLES
  edges,      \* the directed edges of the graph, which no query changes
  job,        \* the query that runs, or "Idle"
  order,      \* NewToOldMap of GetTopologicalOrder
  here,       \* the node its walk is at
  cogs,       \* the neighbour of each node that the walk looks at next
  from,       \* subgraph, the nodes that the d-connection is asked for
  separator,  \* the separating nodes
  pattern,    \* the pattern of each node
  unmet,      \* tgr[2]: edges not met yet
  cur, nxt,   \* tgr[a] and tgr[1-a]: edges met in the last level and in this one
  level,      \* the node the level is at
  prev,       \* edges in tgr[2] when the level began
  mark        \* the nodes reached

orderVars == <<order, here, cogs>>
dVars == <<from, separator, pattern, unmet, cur, nxt, level, prev, mark>>
queryVars == <<edges, job, orderVars, dVars>>

ParentsOf(E, n) == {p \in Node : <<p, n>> \in E}
ChildrenOf(E, n) == {c \in Node : <<n, c>> \in E}
Incident(E, S) == {e \in E : e[1] \in S \/ e[2] \in S}
EndsOf(E) == {e[1] : e \in E} \cup {e[2] : e \in E}

WithParents(E, S) == S \cup UNION {ParentsOf(E, n) : n \in S}

\* GetAncestralClosure: a set with its parents, their parents and so on.
AncestralClosure(E, S) ==
  LET up[k \in 0 .. N] == IF k = 0 THEN S ELSE WithParents(E, up[k-1])
  IN up[N]

GetAncestry(E, S) == AncestralClosure(E, S) \ S

WithNeighbors(E, S, C) == C \cup (EndsOf(Incident(E, C)) \cap S)

\* GetSubgraphConnectivityComponents: the component of n in the graph over S.
Component(E, S, n) ==
  LET near[k \in 0 .. N] == IF k = 0 THEN {n} ELSE WithNeighbors(E, S, near[k-1])
  IN near[N]

\* Every set of nodes has one without parents in it.
Acyclic(E) == \A S \in (SUBSET Node) \ {{}} : \E n \in S : ParentsOf(E, n) \cap S = {}

-----------------------------------------------------------------------------
QueryInit ==
  /\ edges \in {E \in SUBSET (Node \X Node) : Acyclic(E)}
  /\ job = "Idle"
  /\ order = <<>> /\ here = 0 /\ cogs = [n \in Node |-> 0]
  /\ from = {} /\ separator = {}
  /\ pattern = [n \in Node |-> "Swamp"]
  /\ unmet = {} /\ cur = {} /\ nxt = {}
  /\ level = -1
  /\ prev = 0
  /\ mark = {}

(* GetTopologicalOrder.                                                        *)

Placed == {order[k] : k \in DOMAIN order}

\* The parents of n without a place, from the neighbour on that was looked at last.
Open(n) == {p \in ParentsOf(edges, n) \ Placed : p >= cogs[n]}

\* Mutant: the neighbour after the one that the walk goes to.
MutNextNeighbor(p) == p + 1

\* Neighbours are sorted by number: the neighbour that the walk goes to.
LookedAt(p) == p

StartOrder ==
  /\ job = "Idle" /\ order = <<>>
  /\ job' = "Order"
  /\ here' = 0 /\ cogs' = [n \in Node |-> 0]
  /\ UNCHANGED <<edges, order, dVars>>

GoToParent ==
  /\ job = "Order"
  /\ Open(here) # {}
  /\ LET p == SmallestOf(Open(here)) IN
     /\ here' = p
     /\ cogs' = [cogs EXCEPT ![here] = LookedAt(p)]
  /\ UNCHANGED <<edges, job, order, dVars>>

\* The next walk starts at cog, the smallest node without a place.
Place ==
  /\ job = "Order"
  /\ Open(here) = {}
  /\ order' = Append(order, here)
  /\ IF Len(order) = N - 1
     THEN job' = "Idle" /\ UNCHANGED here
     ELSE here' = SmallestOf(Node \ (Placed \cup {here})) /\ UNCHANGED job
  /\ UNCHANGED <<edges, cogs, dVars>>

(* GetDConnectionList and GetDConnectionTable.                                 *)

\* BNets keep their nodes sorted: parents have smaller numbers.
Sorted == \A e \in edges : e[1] < e[2]

\* The beginning of GetDReachableSubgraph: a takes its edges.
StartReach(S, pat) ==
  /\ from' = S
  /\ pattern' = pat
  /\ cur' = Incident(edges, S)
  /\ unmet' = edges \ cur'
  /\ nxt' = {}
  /\ level' = N - 1
  /\ prev' = Cardinality(unmet')
  /\ mark' = S \cup EndsOf(cur')

PatternOfList(sep) ==
  [n \in Node |-> IF n \in sep THEN "Separator"
                  ELSE IF n \in GetAncestry(edges, sep) THEN "Folk" ELSE "Swamp"]

GetDConnectionList(n, sep) ==
  /\ job = "Idle" /\ Sorted /\ mark = {} /\ order = <<>>
  /\ job' = "List"
  /\ separator' = sep
  /\ StartReach({n}, PatternOfList(sep))
  /\ UNCHANGED <<edges, orderVars>>

\* The table starts from a whole component of the folk, whose nodes get the number
\* of their component as pattern: no pattern that GetDReachableSubgraph knows.
GetDConnectionTable(n, sep) ==
  /\ job = "Idle" /\ Sorted /\ mark = {} /\ order = <<>>
  /\ job' = "Table"
  /\ separator' = sep
  /\ LET folk == GetAncestry(edges, sep)  pat == PatternOfList(sep) IN
     StartReach(IF n \in folk THEN Component(edges, folk, n) ELSE {n},
                [k \in Node |-> IF k \in folk THEN "Number" ELSE pat[k]])
  /\ UNCHANGED <<edges, orderVars>>

\* Mutant: the edges from a child that lead to other parents are not followed.
MutTakenDown(n) ==
  CASE pattern[n] = "Folk" /\ Incident(cur, {n}) # {} -> Incident(unmet, {n})
    [] pattern[n] = "Separator" /\ ParentsOf(cur, n) # {} -> {e \in unmet : e[2] = n}
    [] pattern[n] = "Swamp" /\ Incident(cur, {n}) # {} -> {e \in unmet : e[1] = n}
    [] OTHER -> {}

\* The unmet edges that node n takes in this level.
Taken(n) ==
  CASE pattern[n] = "Folk" /\ Incident(cur, {n}) # {} -> Incident(unmet, {n})
    [] pattern[n] = "Separator" /\ ParentsOf(cur, n) # {} -> {e \in unmet : e[2] = n}
    [] pattern[n] = "Swamp" /\ ChildrenOf(cur, n) # {} -> Incident(unmet, {n})
    [] pattern[n] = "Swamp" /\ ChildrenOf(cur, n) = {} /\ ParentsOf(cur, n) # {} ->
         {e \in unmet : e[1] = n}
    [] OTHER -> {}

ExpandNode ==
  /\ job \in {"List", "Table"}
  /\ level >= 0
  /\ unmet' = unmet \ Taken(level)
  /\ nxt' = nxt \cup Taken(level)
  /\ mark' = mark \cup EndsOf(Taken(level))
  /\ level' = level - 1
  /\ UNCHANGED <<edges, job, orderVars, from, separator, pattern, cur, prev>>

\* The end of a level; the last level met no edge.
NextLevel ==
  /\ job \in {"List", "Table"}
  /\ level < 0
  /\ cur' = nxt
  /\ nxt' = {}
  /\ IF prev = Cardinality(unmet)
     THEN job' = "Answered" /\ UNCHANGED <<level, prev>>
     ELSE /\ level' = N - 1
          /\ prev' = Cardinality(unmet)
          /\ UNCHANGED job
  /\ UNCHANGED <<edges, orderVars, from, separator, pattern, unmet, mark>>

QueryNext ==
  \/ StartOrder \/ GoToParent \/ Place
  \/ \E n \in Node, sep \in SUBSET Node : GetDConnectionList(n, sep) \/ GetDConnectionTable(n, sep)
  \/ ExpandNode \/ NextLevel

QuerySpec == QueryInit /\ [][QueryNext]_queryVars
-----------------------------------------------------------------------------
(* d-connection by definition: a walk along the edges that passes a node with  *)
(* both arrows pointing at it only in the separator or its ancestry, and any   *)
(* other node only outside the separator.                                      *)
Arcs == edges \cup {<<e[2], e[1]>> : e \in edges}

Passes(x, y, z, sep, anc) ==
  IF <<x, y>> \in edges /\ <<z, y>> \in edges THEN y \in anc ELSE y \notin sep

WalkOn(R, sep, anc) ==
  R \cup {a \in Arcs : \E b \in R : b[2] = a[1] /\ b[1] # a[2] /\ Passes(b[1], b[2], a[2], sep, anc)}

\* The arcs of walks that start in S.
Walk(S, sep) ==
  LET anc == AncestralClosure(edges, sep)
      walk[k \in 0 .. Cardinality(Arcs)] ==
        IF k = 0 THEN {a \in Arcs : a[1] \in S} ELSE WalkOn(walk[k-1], sep, anc)
  IN walk[Cardinality(Arcs)]

DConnected(S, sep) == S \cup {a[2] : a \in Walk(S, sep)}

(* Properties.                                                                 *)

QueryTypeOK ==
  /\ edges \subseteq Node \X Node
  /\ job \in {"Idle", "Order", "List", "Table", "Answered"}
  /\ order \in Seq(Node) /\ here \in Node /\ cogs \in [Node -> Node]
  /\ from \subseteq Node /\ separator \subseteq Node
  /\ pattern \in [Node -> {"Folk", "Separator", "Swamp", "Number"}]
  /\ cur \subseteq edges /\ nxt \subseteq edges /\ unmet \subseteq edges
  /\ level \in -1 .. N-1
  /\ prev \in Nat
  /\ mark \subseteq Node

\* The order lists every node once, after its parents, in graphs whose nodes are
\* numbered in any way.  (GetTopologicalOrder)
ParentsFirst ==
  /\ \A k, l \in DOMAIN order : order[k] = order[l] => k = l
  /\ \A l \in DOMAIN order : ParentsOf(edges, order[l]) \subseteq {order[k] : k \in 1 .. l-1}

\* Although every edge is walked in one direction only, no node that the separator
\* leaves connected is missed; the table misses none if the separator has no
\* ancestors outside.  (GetDReachableSubgraph)
DConnectionCovers ==
  job = "Answered" /\ (\A n \in Node : pattern[n] # "Number") =>
    DConnected(from, separator) \subseteq mark

\* The list holds the nodes that are d-connected and no other.
DConnectionExact ==
  job = "Answered" /\ (\A n \in Node : pattern[n] # "Number") =>
    mark = DConnected(from, separator)
=============================================================================
