----------------------------- MODULE JunctionTree -----------------------------
(***************************************************************************)
(* The static part of CJunctionTree (pnlJunctionTree.cpp): how the cliques *)
(* of a triangulated model are connected into a tree, which clique every   *)
(* factor of the model is multiplied into, and what a piece of evidence    *)
(* makes of cliques and separators.                                        *)
(*                                                                         *)
(* A clique is its number, as in the code; the nodes of the graphical      *)
(* model are model values.  Numeric tables are abstracted to the factors   *)
(* of the model that have been multiplied into them: a potential is a      *)
(* function from factors to the integer power with which the factor occurs *)
(* in it.  Multiplying potentials adds the powers, dividing subtracts      *)
(* them, and marginalising or normalising keeps them.                      *)
(***************************************************************************)
EXTENDS Integers, FiniteSets

CONSTANTS
  Node,            \* nodes of the graphical model
  DiscreteNode,    \* those with CNodeType::IsDiscrete()
  NumberOfClqs,    \* m_numberOfNodes, the number of cliques
  NodeContent,     \* m_nodeContents: the model nodes in every clique
  Factor,          \* factors (CPDs or potentials) of the model
  FactorDomain,    \* the domain of every factor
  SparseFactor     \* factors with CFactor::IsSparse()

Clq == 0 .. NumberOfClqs - 1

ASSUME JunctionTreeAssumption ==
  /\ DiscreteNode \subseteq Node
  /\ NumberOfClqs \in Nat \ {0}
  /\ NodeContent \in [Clq -> SUBSET Node]
  /\ FactorDomain \in [Factor -> SUBSET Node]
  /\ SparseFactor \subseteq Factor
  \* AssignFactorsToClq throws when no clique matches the domain of a factor
  /\ \A f \in Factor : \E c \in Clq : FactorDomain[f] \subseteq NodeContent[c]

(***************************************************************************)
(* BuildTreeStructure.  Clique c is connected to the first earlier clique  *)
(* that shares most nodes with it.  connectTo is not reset between         *)
(* cliques: a clique that shares nothing goes where its predecessor went.  *)
(***************************************************************************)
Shared(c, d) == Cardinality(NodeContent[c] \cap NodeContent[d])

Closest(c) ==
  {d \in 0 .. c - 1 : /\ Shared(c, d) > 0
                      /\ \A e \in 0 .. c - 1 :
                           IF e < d THEN Shared(c, e) < Shared(c, d)
                                    ELSE Shared(c, e) <= Shared(c, d)}

\* the clique, c or one before it, that set connectTo last
SetBy(c) == CHOOSE d \in 1 .. c : /\ Closest(d) # {}
                                 /\ \A e \in d + 1 .. c : Closest(e) = {}

ConnectTo == [c \in 1 .. NumberOfClqs - 1 |->
                IF \A d \in 1 .. c : Closest(d) = {} THEN 0
                ELSE CHOOSE d \in Closest(SetBy(c)) : TRUE]

Link == {{c, ConnectTo[c]} : c \in 1 .. NumberOfClqs - 1}

Arc == {a \in Clq \X Clq : {a[1], a[2]} \in Link}

Nbrs(c) == {d \in Clq : {c, d} \in Link}

Separator(l) == {n \in Node : \A c \in l : n \in NodeContent[c]}

(***************************************************************************)
(* AssignFactorsToClq.  The loop over the cliques does not stop at the     *)
(* first match, so that the last matching clique gets the factor.          *)
(***************************************************************************)
FactAssignToClq(f) ==
  CHOOSE c \in Clq : /\ FactorDomain[f] \subseteq NodeContent[c]
                     /\ \A d \in Clq : FactorDomain[f] \subseteq NodeContent[d] => d <= c

(***************************************************************************)
(* What evidence on the set obs of nodes makes of the tree.  A domain that *)
(* is observed as a whole has the distribution type dtScalar, which        *)
(* carries no value; SetNodeTypes accepts a clique only when its hidden    *)
(* nodes are all discrete or all continuous.                               *)
(***************************************************************************)
IsDiscrete(c, obs) == (NodeContent[c] \ obs) \subseteq DiscreteNode

IsValidEvidence(obs) ==
  \A c \in Clq : IsDiscrete(c, obs) \/ (NodeContent[c] \ obs) \cap DiscreteNode = {}

IsScalar(l, obs) == Separator(l) \subseteq obs

IsSparse(c, obs) == /\ \E f \in SparseFactor : FactAssignToClq(f) = c
                    /\ ~ NodeContent[c] \subseteq obs

IsDense(l, obs) == \A c \in l : IsDiscrete(c, obs) /\ ~ IsSparse(c, obs)

(***************************************************************************)
(* InitNodePotsFromBNet and InitNodePotsFromMNet: every factor that is not *)
(* observed as a whole is multiplied once into its clique, whose potential *)
(* starts as a unit function.                                              *)
(***************************************************************************)
Potential == [Factor -> Int]
Unit == [f \in Factor |-> 0]
Times(p, q) == [f \in Factor |-> p[f] + q[f]]
Over(p, q) == [f \in Factor |-> p[f] - q[f]]

LiveFactors(obs) == {f \in Factor : ~ FactorDomain[f] \subseteq obs}

ScalarLinks(obs) == {l \in Link : IsScalar(l, obs)}

InitNodePot(c, obs) ==
  [f \in Factor |-> IF f \in LiveFactors(obs) /\ FactAssignToClq(f) = c THEN 1 ELSE 0]

(***************************************************************************)
(* The cliques on the far side of an arc whose charge can reach its end    *)
(* when the links in mute carry nothing: the least set with the start i of *)
(* the arc that no other link leads out of.                                *)
(***************************************************************************)
IsClosed(S, cut) == \A x \in S : \A y \in Nbrs(x) : {x, y} \in cut \/ y \in S

Behind(mute, i, j) ==
  IF {i, j} \in mute THEN {}
  ELSE {c \in Clq : \A S \in SUBSET Clq :
          i \in S /\ IsClosed(S, mute \cup {{i, j}}) => c \in S}

\* the joint distribution as a clique should hold it under evidence obs: every
\* live factor that can reach the clique, once
Component(c, obs) == {c} \cup UNION {Behind(ScalarLinks(obs), k, c) : k \in Nbrs(c)}

JointPotential(c, obs) ==
  [f \in Factor |-> IF f \in LiveFactors(obs) /\ FactAssignToClq(f) \in Component(c, obs)
                    THEN 1 ELSE 0]

===============================================================================
