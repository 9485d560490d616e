------------------------------ MODULE StructLearn ------------------------------
(* The search for a structure: hill climbing from the graph of a model        *)
(* (CMlStaticStructLearnHC), its restarts from random graphs                  *)
(* (CDAG::RandomCreateADAG), the moves of the structural EM search            *)
(* (CStaticStructLearnSEM) and the last step of dynamic learning              *)
(* (CMlDynamicStructLearn), which replaces the prior slice of the two-slice   *)
(* graph that was learned (CDAG::SetSubDag).                                  *)
(*                                                                            *)
(* Scores are numbers of data, which are left out: any valid move may be the  *)
(* best one, and the search may stop after any step.                          *)
EXTENDS DAG

CONSTANTS
  VAncestor, VDescent,     \* the slices, or two empty sets for a static model
  Discrete, Continuous,    \* the nodes by type
  FanIn,                   \* m_nMaxFanIn
  Fixed,                   \* nodes of mixtures, which SEM leaves alone
  PriorParents             \* the parents in the DAG learned for the prior slice

\* The DAG of the prior slice, among all nodes.
Prior == [n \in Node |-> IF n \in VAncestor THEN PriorParents[n] ELSE {}]

ASSUME StructLearnAssumption ==
  /\ VAncestor \cup VDescent \in {{}, Node}
  /\ VAncestor \cap VDescent = {}
  /\ Discrete \cup Continuous = Node /\ Discrete \cap Continuous = {}
  /\ FanIn \in Nat
  /\ Fixed \subseteq Node
  /\ PriorParents \in [VAncestor -> SUBSET VAncestor]
  /\ AcyclicIn(Prior)

VARIABLES
  engine,    \* "HC" or "SEM"
  phase,     \* what Learn is doing
  restarted, \* some restart was made
  group,     \* vSubNodes of RandomCreateASubDAG
  linked,    \* pLinked
  undo,      \* the edge DoMove takes back when it broke the limit of parents
  links,     \* links between the groups still to be made
  todo       \* edges that SetSubDag has still to treat

learnVars == <<engine, phase, restarted, group, linked, undo, links, todo>>
vars == <<dagVars, learnVars>>

\* The graph a model may have: limited parents, and no edge from the second slice
\* to the first.
LegalStart(par) ==
  /\ AcyclicIn(par)
  /\ \A n \in Node : Cardinality(par[n]) <= FanIn
  /\ \A n \in VAncestor : par[n] \cap VDescent = {}

Init ==
  /\ parents \in [Node -> SUBSET Node]
  /\ LegalStart(parents)
  /\ children = [i \in Node |-> {j \in Node : i \in parents[j]}]
  /\ anc = CreateAncestorMatrix(parents)
  /\ queue = <<>>
  /\ toAdd = {}
  /\ engine \in {"HC", "SEM"}
  /\ phase = "Search"
  /\ restarted = FALSE
  /\ group = {} /\ linked = {} /\ undo = {}
  /\ links = 0
  /\ todo = {}

-----------------------------------------------------------------------------
(* The search.                                                                *)

\* The moves that the search scores.
Moves ==
  IF engine = "HC"
  THEN {op \in GetAllValidMove(VDescent, VAncestor) :
          \A e \in NewEdge(op) : Cardinality(parents[e[2]]) < FanIn}
  ELSE GetAllValidMoveFanIn(Fixed, FanIn, Discrete, Continuous, VDescent, VAncestor)

\* One round of LearnInOneStart, or of the search of SEM.
SearchStep ==
  /\ phase = "Search" /\ Settled
  /\ \E op \in Moves : DoMove(op)
  /\ UNCHANGED learnVars

\* No move makes enough progress, or m_nSteps moves are done.
StopSearch ==
  /\ phase = "Search" /\ Settled
  /\ phase' = "Found"
  /\ UNCHANGED <<dagVars, engine, restarted, group, linked, undo, links, todo>>

-----------------------------------------------------------------------------
(* RandomCreateADAG(m_nNodes, m_nMaxFanIn, vDiscrete, vContinuous).           *)

\* The limit inside a group and the group that is filled first.
FirstGroup == IF Discrete = {} \/ Continuous = {} THEN Node ELSE Discrete
GroupFanIn == IF group = Node THEN FanIn ELSE FanIn - 1

\* Learn restarts.  RandomCreateASubDAG does not return from a group of one node,
\* or when a node may have no parent: then there is no restart to speak of.
Restart ==
  /\ phase = "Found" /\ engine = "HC"
  /\ IF FirstGroup = Node THEN N >= 2 /\ FanIn >= 1
     ELSE Cardinality(Discrete) >= 2 /\ Cardinality(Continuous) >= 2 /\ FanIn >= 2
  /\ phase' = "Group"
  /\ restarted' = TRUE
  /\ group' = FirstGroup
  /\ linked' = {}
  /\ parents' = [n \in Node |-> {}]
  /\ children' = [n \in Node |-> {}]
  /\ anc' = [n \in Node |-> {}]
  /\ UNCHANGED <<queue, toAdd, engine, undo, links, todo>>

\* Mutant: >= for >.
MutTryEdge(i, j, limit) ==
  /\ DoMove(Op("ADD", i, j))
  /\ undo' = IF \E n \in Node : Cardinality(parents'[n]) >= limit THEN {<<i, j>>} ELSE {}

\* DoMove(i, j, DAG_ADD), taken back by the next step when GetMaxFanIn > limit.
TryEdge(i, j, limit) ==
  /\ DoMove(Op("ADD", i, j))
  /\ undo' = IF \E n \in Node : Cardinality(parents'[n]) > limit THEN {<<i, j>>} ELSE {}

\* A round of RandomCreateASubDAG that adds an edge, or meets it again.
PickInGroup ==
  /\ phase = "Group" /\ Settled /\ undo = {}
  /\ linked # group
  /\ \E i, j \in group :
       /\ i # j
       /\ TryEdge(i, j, GroupFanIn)
       /\ linked' = IF undo' = {} THEN linked \cup {i, j} ELSE linked
  /\ UNCHANGED <<engine, phase, restarted, group, links, todo>>

\* DoMove(i, j, DAG_DEL)
TakeBack ==
  /\ Settled /\ undo # {}
  /\ \E e \in undo : DoMove(Op("DEL", e[1], e[2]))
  /\ undo' = {}
  /\ UNCHANGED <<engine, phase, restarted, group, linked, links, todo>>

\* The next group, or the links between the groups: GetARandomNum picks their
\* number, and 0 is made 1.
GroupDone ==
  /\ phase = "Group" /\ Settled /\ undo = {}
  /\ linked = group
  /\ linked' = {}
  /\ CASE group = Node -> phase' = "Search" /\ group' = {} /\ UNCHANGED links
       [] group = Discrete /\ group # Node -> group' = Continuous /\ UNCHANGED <<phase, links>>
       [] OTHER -> /\ phase' = "Link"
                   /\ group' = {}
                   /\ links' \in 1 .. Cardinality(Discrete) * Cardinality(Continuous) - 1
  /\ UNCHANGED <<dagVars, engine, restarted, undo, todo>>

\* A link between the groups, in either orientation, that DoMove may refuse.
AddLink ==
  /\ phase = "Link" /\ Settled /\ undo = {}
  /\ links > 0
  /\ \E i \in Discrete, j \in Continuous : \E e \in {<<i, j>>, <<j, i>>} :
       IF IsValidMove(Op("ADD", e[1], e[2])) THEN TryEdge(e[1], e[2], FanIn)
       ELSE UNCHANGED <<dagVars, undo>>
  /\ links' = links - 1
  /\ UNCHANGED <<engine, phase, restarted, group, linked, todo>>

LinksDone ==
  /\ phase = "Link" /\ Settled /\ undo = {}
  /\ links = 0
  /\ phase' = "Search"
  /\ UNCHANGED <<dagVars, engine, restarted, group, linked, undo, links, todo>>

-----------------------------------------------------------------------------
(* SetSubDag(vAncestor, DAG of the prior slice).                              *)

InnerEdges(V, par) == {e \in V \X V : e[1] \in par[e[2]]}

SetSubDag ==
  /\ phase = "Found" /\ engine = "HC"
  /\ VAncestor # {}
  /\ phase' = "Remove"
  /\ todo' = InnerEdges(VAncestor, parents)
  /\ UNCHANGED <<dagVars, engine, restarted, group, linked, undo, links>>

\* The nested loops meet the edges in some order.
RemoveOld ==
  /\ phase = "Remove" /\ Settled
  /\ \/ /\ todo = {}
        /\ phase' = "Add"
        /\ todo' = InnerEdges(VAncestor, Prior)
        /\ UNCHANGED dagVars
     \/ \E e \in todo :
          /\ DoMove(Op("DEL", e[1], e[2]))
          /\ todo' = todo \ {e}
          /\ UNCHANGED phase
  /\ UNCHANGED <<engine, restarted, group, linked, undo, links>>

\* When a move is refused no graph is learned and this one is not used again:
\* SetSubDag returns false, or is lost in the loop over vBakUpOPs, which runs while
\* k <= 0: not at all after two moves or more, else below the start of the vector.
AddNew ==
  /\ phase = "Add" /\ Settled
  /\ \/ todo = {} /\ phase' = "Done" /\ UNCHANGED <<dagVars, todo>>
     \/ \E e \in todo :
          LET op == Op("ADD", e[1], e[2]) IN
          IF IsValidMove(op)
          THEN DoMove(op) /\ todo' = todo \ {e} /\ UNCHANGED phase
          ELSE phase' = "Failed" /\ UNCHANGED <<dagVars, todo>>
  /\ UNCHANGED <<engine, restarted, group, linked, undo, links>>

Continue == ContinueMove /\ UNCHANGED learnVars

Next ==
  \/ Continue
  \/ SearchStep \/ StopSearch \/ Restart
  \/ PickInGroup \/ TakeBack \/ GroupDone \/ AddLink \/ LinksDone
  \/ SetSubDag \/ RemoveOld \/ AddNew

(* Fairness: the thread that learns goes on with what it does, but the search  *)
(* need not restart; and GetARandomNum does not for ever avoid the pairs that  *)
(* link another node.                                                          *)
Build == Continue \/ PickInGroup \/ TakeBack \/ GroupDone \/ AddLink \/ LinksDone

PickUnlinked == PickInGroup /\ linked' # linked

Spec == Init /\ [][Next]_vars /\ WF_vars(Build) /\ SF_vars(PickUnlinked)
-----------------------------------------------------------------------------
(* Properties.                                                                *)

TypeOK ==
  /\ DAGTypeOK
  /\ engine \in {"HC", "SEM"}
  /\ phase \in {"Search", "Found", "Group", "Link", "Remove", "Add", "Done", "Failed"}
  /\ restarted \in BOOLEAN
  /\ group \subseteq Node /\ linked \subseteq group
  /\ undo \subseteq Node \X Node
  /\ links \in Nat
  /\ todo \subseteq Node \X Node

\* RandomCreateADAG returns from groups of two nodes and more: there is always an
\* edge that links another node and keeps the limit of parents, whatever was added
\* and taken back before.  (RandomCreateASubDAG)
RandomCreateADAGReturns == phase \in {"Group", "Link"} ~> phase = "Search"

\* Without restarts the graph learned for two slices has no path from the second
\* slice to the first, so that the DAG of the prior slice fits.
\* (CheckValid2, SetSubDag)
PriorFitsUnlessRestarted == ~restarted => phase # "Failed"

\* Discrete nodes have no continuous ancestors.
Ordered(par) == \A a \in Discrete : AncestorsIn(par, a) \cap Continuous = {}

\* SEM never makes a continuous node an ancestor of a discrete one, in the middle
\* of a reversal neither, if none was.  (CheckValid)
TypesKeepOrder == [][engine = "SEM" /\ Ordered(parents) => Ordered(parents')]_vars
=============================================================================
