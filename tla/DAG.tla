---------------------------------- MODULE DAG ----------------------------------
(* CDAG: a directed graph kept at both ends of every edge (CGraph's lists of  *)
(* neighbours and their types), and a matrix of ancestors that every move     *)
(* updates in place.  A move is DoMove of the code.  Removing an edge walks   *)
(* over the descendants with a queue, one step of the queue at a time; a      *)
(* reversal removes the edge and then adds the reversed one.                  *)
EXTENDS Nodes, Sequences, FiniteSets

VARIABLES
  parents,   \* the neighbours of a node that its types call ntParent
  children,  \* the neighbours of a node that its types call ntChild
  anc,       \* the rows of m_pAncesstorMatrix
  queue,     \* descendantsQueue of UpdateAncestorMatrix
  toAdd      \* the edge that a reversal has still to add, as a set

graph == <<parents, children>>
dagVars == <<parents, children, anc, queue, toAdd>>

\* No move is in progress.
Settled == queue = <<>> /\ toAdd = {}

Edges == {e \in Node \X Node : e[2] \in children[e[1]]}

MaxFanIn(n) == \A i \in Node : Cardinality(parents[i]) <= n

(* Ancestors by definition: the least set that holds the parents of n and     *)
(* with a node its parents.                                                   *)
ClosedIn(par, S) == \A x \in S : par[x] \subseteq S

AncestorsIn(par, n) ==
  {a \in Node : \A S \in SUBSET Node : par[n] \subseteq S /\ ClosedIn(par, S) => a \in S}

\* CreateAncestorMatrix: the nodes that the queue reaches.
CreateAncestorMatrix(par) == [n \in Node |-> AncestorsIn(par, n)]

AcyclicIn(par) == \A n \in Node : n \notin AncestorsIn(par, n)

-----------------------------------------------------------------------------
(* The matrix of ancestors.                                                   *)

\* Mutant: the ancestors of the end of the new edge, not of what lies below it.
MutAddOneRow(m, i, j) == [m EXCEPT ![j] = @ \cup {i} \cup m[i]]

\* UpdateAncestorMatrix(i, j, DAG_ADD) on a matrix m.
AddAncestors(m, i, j) ==
  LET row == m[j] \cup {i} \cup m[i] IN
  [n \in Node |-> IF n = j THEN row
                  ELSE IF j \in m[n] THEN m[n] \cup row ELSE m[n]]

\* UpdateRemoveNodes: the row of a node from its parents and their rows.
RowFromParents(n) == parents[n] \cup UNION {anc[p] : p \in parents[n]}

\* The lists of the members of a set.  (GetChildren lists the children by number;
\* nothing here depends on the order.)
Listings(S) == {s \in [1 .. Cardinality(S) -> S] : \A x \in S : \E k \in DOMAIN s : s[k] = x}

\* Mutant: only the node that lost a parent is updated.
MutNoDescendants ==
  /\ queue # <<>>
  /\ anc' = [anc EXCEPT ![Head(queue)] = RowFromParents(Head(queue))]
  /\ queue' = Tail(queue)
  /\ UNCHANGED <<graph, toAdd>>

\* One round of the loop of UpdateAncestorMatrix(i, j, DAG_DEL).
UpdateRemoveNodes ==
  /\ queue # <<>>
  /\ anc' = [anc EXCEPT ![Head(queue)] = RowFromParents(Head(queue))]
  /\ \E s \in Listings(children[Head(queue)]) : queue' = Tail(queue) \o s
  /\ UNCHANGED <<graph, toAdd>>

-----------------------------------------------------------------------------
(* Moves.                                                                     *)

Neighbors(i) == parents[i] \cup children[i]

\* CGraph::AddEdge: a node that is a neighbour already stays what it was.
AddEdge(i, j) ==
  /\ children' = IF j \in Neighbors(i) THEN children ELSE [children EXCEPT ![i] = @ \cup {j}]
  /\ parents' = IF i \in Neighbors(j) THEN parents ELSE [parents EXCEPT ![j] = @ \cup {i}]

\* CGraph::RemoveEdge of an edge from i to j
RemoveEdge(i, j) ==
  /\ children' = [children EXCEPT ![i] = @ \ {j}]
  /\ parents' = [parents EXCEPT ![j] = @ \ {i}]

\* Mutant: parents for ancestors.
MutRevParentsOnly(i, j) == \A p \in parents[j] : p # i => i \notin parents[p]

\* No parent of j but i is a descendant of i.
IsValidRev(i, j) == \A p \in parents[j] : p # i => i \notin anc[p]

\* IsValidMove for the edges that callers move: ADD where i and j differ, DEL and
\* REV where GetEdgeDirect(i, j) is 1.
IsValidMove(op) ==
  CASE op.change = "ADD" -> op.end \notin anc[op.start]
    [] op.change = "DEL" -> op.end \in Neighbors(op.start)
    [] op.change = "REV" -> op.end \in Neighbors(op.start) /\ IsValidRev(op.start, op.end)

EdgeOps == [start : Node, end : Node, change : {"ADD", "DEL", "REV"}]

Op(change, i, j) == [start |-> i, end |-> j, change |-> change]

\* DoMove of a valid move, up to the walk over the descendants.
DoMove(op) ==
  LET i == op.start  j == op.end IN
  /\ IsValidMove(op)
  /\ IF op.change = "ADD"
     THEN /\ AddEdge(i, j)
          /\ anc' = AddAncestors(anc, i, j)
          /\ UNCHANGED <<queue, toAdd>>
     ELSE /\ RemoveEdge(i, j)
          /\ queue' = <<j>>
          /\ toAdd' = IF op.change = "REV" THEN {<<j, i>>} ELSE {}
          /\ UNCHANGED anc

\* The second half of a reversal.
AddReversed ==
  /\ queue = <<>>
  /\ \E e \in toAdd :
       /\ AddEdge(e[1], e[2])
       /\ anc' = AddAncestors(anc, e[1], e[2])
  /\ toAdd' = {}
  /\ UNCHANGED queue

\* What DoMove does after its first step.
ContinueMove == UpdateRemoveNodes \/ AddReversed

-----------------------------------------------------------------------------
(* Which moves GetAllValidMove returns.                                       *)

\* The edges that GetAllValidMove tries.
IsCandidate(op) ==
  /\ op.start # op.end
  /\ IF op.change = "ADD" THEN op.end \notin Neighbors(op.start) ELSE op.end \in children[op.start]

\* The edge that the move leaves.
NewEdge(op) ==
  CASE op.change = "ADD" -> {<<op.start, op.end>>}
    [] op.change = "REV" -> {<<op.end, op.start>>}
    [] OTHER -> {}

\* Mutant: the ends of a reversed edge are not swapped.
MutCheckStart(notParents, notChild, op) ==
  op.change = "DEL" \/ ~(op.start \in notParents /\ op.end \in notChild)

CheckValid2(notParents, notChild, op) ==
  \A e \in NewEdge(op) : ~(e[1] \in notParents /\ e[2] \in notChild)

\* Mutant: a reversal is not checked.
MutCheckAddOnly(vAnc, vDesc, op) ==
  op.change = "ADD" =>
    ~ /\ \E a \in vAnc : a = op.end \/ op.end \in anc[a]
      /\ \E d \in vDesc : d = op.start \/ d \in anc[op.start]

\* CheckValid(vAnc, vDesc, op): the new edge must not end a path from vDesc to
\* vAnc.  A reversal is judged by the matrix of a clone without the edge.
CheckValid(vAnc, vDesc, op) ==
  LET par == [parents EXCEPT ![op.end] = @ \ {op.start}]
      m == IF op.change = "REV" THEN CreateAncestorMatrix(par) ELSE anc
  IN \A e \in NewEdge(op) :
       ~ /\ \E a \in vAnc : a = e[2] \/ e[2] \in m[a]
         /\ \E d \in vDesc : d = e[1] \/ d \in m[e[1]]

\* The first GetAllValidMove; an empty set switches its check off.
GetAllValidMove(notParents, notChild) ==
  {op \in EdgeOps :
     /\ IsCandidate(op)
     /\ IsValidMove(op)
     /\ notParents # {} /\ notChild # {} => CheckValid2(notParents, notChild, op)}

\* The second GetAllValidMove.
GetAllValidMoveFanIn(fixed, fanIn, vAnc, vDesc, notParents, notChild) ==
  {op \in GetAllValidMove(notParents, notChild) :
     /\ {op.start, op.end} \cap fixed = {}
     /\ vAnc # {} /\ vDesc # {} => CheckValid(vAnc, vDesc, op)
     /\ \A e \in NewEdge(op) : Cardinality(parents[e[2]]) < fanIn}

-----------------------------------------------------------------------------
(* Properties of the moves.                                                   *)

DAGTypeOK ==
  /\ parents \in [Node -> SUBSET Node]
  /\ children \in [Node -> SUBSET Node]
  /\ anc \in [Node -> SUBSET Node]
  /\ queue \in Seq(Node)
  /\ toAdd \subseteq Node \X Node

\* Between two moves the matrix says exactly who is an ancestor of whom, whatever
\* moves led here.  (UpdateAncestorMatrix, UpdateRemoveNodes)
MatrixExact == Settled => anc = CreateAncestorMatrix(parents)

\* The graph has no cycle, in the middle of a reversal too, and both ends of an
\* edge agree on it.  (IsValidMove, DoMove, AddEdge)
StaysDAG ==
  /\ AcyclicIn(parents)
  /\ \A i, j \in Node : i \in parents[j] <=> j \in children[i]

\* The parents after a move.
ParentsAfter(op) ==
  LET par == IF op.change = "ADD" THEN parents ELSE [parents EXCEPT ![op.end] = @ \ {op.start}]
  IN [n \in Node |-> par[n] \cup {i \in Node : <<i, n>> \in NewEdge(op)}]

\* IsValidMove refuses exactly the moves that close a cycle: the search loses no
\* neighbour of the current graph.  (IsValidMove, GetAllValidMove)
MovesExact ==
  Settled => \A op \in EdgeOps : IsCandidate(op) => (IsValidMove(op) <=> AcyclicIn(ParentsAfter(op)))
=============================================================================
