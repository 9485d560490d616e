------------------------------ MODULE ParJtreeMPI ------------------------------
(***************************************************************************)
(* CParJtreeInfEngine::EnterEvidence (pnlParJtreeInferenceEngine.cpp): the *)
(* junction tree engine on MPI processes, all of which call it with the    *)
(* same evidence and hold a copy of the whole tree.                        *)
(*                                                                         *)
(* DivideNodes gives every process a subtree.  CollectEvidence passes      *)
(* ratios up the tree, to another process when the parent lives there;     *)
(* DistributeEvidence passes them down, first along the routes between the *)
(* roots of the subtrees, then inside every subtree; then every process of *)
(* m_CollectRanks gathers the clique potentials of all others.             *)
(*                                                                         *)
(* CollectCommCreate and CollectFactorsOnProcess create communicators,     *)
(* which no process does before all have come there: the processes start   *)
(* together, and gather together.  A message (a size and its data) is      *)
(* received as a whole.                                                    *)
(***************************************************************************)
EXTENDS JtreeRoot

CONSTANTS
  NumberOfProcesses,
  CollectRanks,      \* m_CollectRanks
  NodeSize,          \* number of values, or dimension, of every node
  Evidence           \* sets of nodes that evidence may observe

Rank == 0 .. NumberOfProcesses - 1

ASSUME ProcessAssumption ==
  /\ NumberOfProcesses \in Nat \ {0}
  /\ CollectRanks \in Seq(Rank)
  /\ NodeSize \in [Node -> Nat \ {0}]
  /\ \A e \in Evidence : IsValidEvidence(e)

VARIABLES
  eager,         \* does this MPI copy a message before MPI_Isend or MPI_Send returns,
                 \* or is it read when the receiver asks for it?
  obs,
  root, collectSequence,   \* the main root, and what follows from it
  nbrsTypes,     \* m_NbrsTypes: the parent of every clique
  roots,         \* m_Roots, of the used processes
  owner,         \* m_NodeProcesses
  clq, sep,      \* the potentials in the copy of every process
  pc,            \* where a process is
  queue,         \* m_QueueNodes
  cond, left,    \* m_NodeConditions, as in ParJtreeOMP, at the owner of the clique
  ratio,         \* m_UpdateRatios, at the owner of the parent
  net,           \* ratios on their way to another process
  todo,          \* arcs of the routes that ProcessRoutes has still to follow
  done,          \* cliques of a process that have heard from their parent
  round,         \* how many of m_CollectRanks have gathered
  chan,          \* potentials on their way to the process that gathers
  given,         \* cliques whose potential has been sent to it, and
  gathered,      \* received by it
  got            \* arcs along which a ratio has been taken (history)

tree == <<root, collectSequence, nbrsTypes>>
plan == <<eager, obs, tree, roots, owner>>
pots == <<clq, sep, got>>
collecting == <<queue, cond, left, ratio>>
distributing == <<todo, done>>
gathering == <<round, chan, given, gathered>>
vars == <<plan, pots, pc, collecting, net, distributing, gathering>>

UsedProcesses == DOMAIN roots
NodesOfProcess(p) == {c \in Clq : owner[c] = p}
AllAt(where) == \A p \in Rank : pc[p] = where

Init ==
  /\ eager \in BOOLEAN
  /\ obs = Node /\ root = 0
  /\ collectSequence = RebuildTreeFromRoot(0)
  /\ nbrsTypes = NbrsTypes(RebuildTreeFromRoot(0))
  /\ roots = <<>> /\ owner = [c \in Clq |-> 0]
  /\ clq = [p \in Rank |-> [c \in Clq |-> Unit]]
  /\ sep = [p \in Rank |-> [l \in Link |-> Unit]]
  /\ got = {}
  /\ pc = [p \in Rank |-> "idle"]
  /\ queue = [p \in Rank |-> <<>>]
  /\ cond = [a \in Arc |-> 0] /\ left = [c \in Clq |-> 0]
  /\ ratio = [c \in Clq |-> Unit]
  /\ net = {}
  /\ todo = [p \in Rank |-> <<>>] /\ done = [p \in Rank |-> {}]
  /\ round = 0 /\ chan = [p \in Rank |-> <<>>] /\ given = {} /\ gathered = {}

ShrinkObserved(e) ==
  /\ obs' = e
  /\ clq' = [p \in Rank |-> [c \in Clq |-> InitNodePot(c, e)]]
  /\ sep' = [p \in Rank |-> [l \in Link |-> Unit]]
  /\ got' = {}

EnterEvidence(e) ==
  /\ AllAt("idle")
  /\ ShrinkObserved(e)
  /\ \/ JTreeType(e) = "dtScalar" /\ UNCHANGED <<pc, roots>>
     \/ /\ JTreeType(e) # "dtScalar"
        /\ pc' = [p \in Rank |-> "divide"]
        /\ roots' = <<>>
  /\ round' = 0
  /\ UNCHANGED <<eager, tree, owner, collecting, net, distributing, chan, given, gathered>>

-------------------------------------------------------------------------------
(***************************************************************************)
(* DivideNodesWithMinimumDeviationSearch: which subtree a process gets.    *)
(***************************************************************************)
IsScalarClq(c) == NodeContent[c] \subseteq obs

BaseWeight(c) == FoldFunctionOnSet(LAMBDA x, y : x * y, 1, NodeSize, NodeContent[c] \ obs)

\* only the root's weight counts its neighbours: the else belongs to the inner if
WeightOfTabularClq(c) ==
  BaseWeight(c) * (IF c = root /\ Nbrs(c) # {} THEN 3 * Cardinality(Nbrs(c)) ELSE 1)

WeightOfContinuousClq(c) ==
  LET size == SumFunctionOnSet(NodeSize, NodeContent[c])
  IN  (size + 1) * size

WeightOfClq(c) ==
  IF IsScalarClq(c) THEN 0
  ELSE IF IsDiscrete(c, obs) THEN WeightOfTabularClq(c) ELSE WeightOfContinuousClq(c)

FarSide == [a \in Arc |-> Behind({}, a[1], a[2])]

SubTree(c) == IF c = root THEN Clq ELSE FarSide[c, nbrsTypes[c]]

SubTreeWeight(c, used) ==
  SumFunctionOnSet([d \in Clq |-> WeightOfClq(d)], SubTree(c) \ used)

\* m_UsedNodes
UsedNodes == UNION {SubTree(roots[n]) : n \in UsedProcesses}

\* the first clique whose subtree comes nearest to what is left per process
NodeWithMinimumDeviation ==
  LET p == NumberOfProcesses - Cardinality(UsedProcesses)
      Weight == [c \in Clq |-> SubTreeWeight(c, UsedNodes)]
      Deviation(c) == LET d == Weight[root] - p * Weight[c] IN Max({d, -d})
      Best == {c \in Clq : /\ Weight[c] # 0
                           /\ \A d \in Clq : Weight[d] # 0 => Deviation(c) <= Deviation(d)}
  IN  IF root \in Best THEN root ELSE Min(Best)

\* one round of the loop: a process gets what is left of the subtree of its root
DivideNodes ==
  /\ AllAt("divide")
  /\ UsedNodes # Clq
  /\ LET p == Cardinality(UsedProcesses)
         A == NodeWithMinimumDeviation
     IN  /\ roots' = (p :> A) @@ roots
         /\ owner' = [c \in Clq |-> IF c \in SubTree(A) \ UsedNodes THEN p ELSE owner[c]]
  /\ UNCHANGED <<eager, obs, tree, pots, pc, collecting, net, distributing, gathering>>

(***************************************************************************)
(* BalanceTree: with two processes one end of the link between the two     *)
(* subtrees becomes the main root.  Weights are scaled by the numbers of   *)
(* neighbours of both ends, which the code divides by.                     *)
(***************************************************************************)
NewMainRoot ==
  LET sub == roots[0]
      up == nbrsTypes[sub]
      Weight(c) == IF JTreeType(obs) = "dtTabular" THEN WeightOfTabularClq(c)
                                                 ELSE WeightOfContinuousClq(c)
      n1 == Cardinality(Nbrs(up))
      n2 == Cardinality(Nbrs(sub))
      scale == n1 * n2
      tau1 == n2 * (Weight(up) + 2 * BaseWeight(up))
      tau2 == n1 * (Weight(sub) + 2 * BaseWeight(sub))
      half == scale * SubTreeWeight(sub, {})
      rest == scale * (SubTreeWeight(root, {}) - 2 * BaseWeight(root)) - half
      w1 == rest + 2 * scale * BaseWeight(up)
      w2 == half + 2 * scale * BaseWeight(sub)
      t1 == IF half > w1 - tau1 THEN half + tau1 ELSE w1
      t2 == IF rest > w2 - tau2 THEN rest + tau2 ELSE w2
  IN  IF t2 < t1 THEN sub ELSE up

\* SetJTreeRootNode and SetNbrsTypes; m_NodeProcesses is left as it is
BalanceTree ==
  /\ AllAt("divide")
  /\ UsedNodes = Clq /\ Cardinality(UsedProcesses) = 2
  /\ root' = NewMainRoot
  /\ roots' = [roots EXCEPT ![1] = nbrsTypes[roots[0]]]
  /\ collectSequence' = RebuildTreeFromRoot(root')
  /\ pc' = [p \in Rank |-> "balanced"]
  /\ UNCHANGED <<eager, obs, nbrsTypes, owner, pots, collecting, net, distributing, gathering>>

\* CollectEvidence up to its loop
StartCollect ==
  /\ \/ AllAt("divide") /\ UsedNodes = Clq /\ Cardinality(UsedProcesses) # 2
     \/ AllAt("balanced")
  /\ pc' = [p \in Rank |-> "collect"]
  /\ nbrsTypes' = NbrsTypes(collectSequence)
  /\ queue' = [p \in Rank |-> SelectSeq(collectSequence, LAMBDA c : owner[c] = p)]
  /\ cond' = [a \in Arc |-> 0]
  /\ left' = [c \in Clq |-> NumOfChildren(c, root)]
  /\ ratio' = [c \in Clq |-> Unit]
  /\ UNCHANGED <<eager, obs, root, collectSequence, roots, owner, pots, net, distributing, gathering>>

-------------------------------------------------------------------------------
(***************************************************************************)
(* CollectEvidence.                                                        *)
(***************************************************************************)
\* what is taken from a clique for a neighbour: a scalar separator keeps nothing
Marginal(p, i, j) == IF IsScalar({i, j}, obs) THEN Unit ELSE clq[p][i]

\* MPI_Isend of a Gaussian ratio reads a buffer that the sender deletes at once
Garbage == [f \in Factor |-> NumberOfClqs]
Delivered(m) ==
  IF eager \/ IsDiscrete(m.from, obs) THEN {m.data} ELSE {m.data, Garbage}

ReceiveRatio(p) ==
  /\ pc[p] = "collect" /\ queue[p] # <<>>
  /\ \E m \in net : \E d \in Delivered(m) :
       /\ m.tag = "collect" /\ owner[m.to] = p
       /\ cond' = [cond EXCEPT ![m.to, m.from] = 1]
       /\ sep' = [sep EXCEPT ![p][{m.from, m.to}] = d]
       /\ ratio' = [ratio EXCEPT ![m.from] = d]
       /\ net' = net \ {m}
  /\ UNCHANGED <<plan, clq, got, pc, queue, left, distributing, gathering>>

\* a leaf, or a clique that has collected from all its children
SendToParent(p) ==
  /\ pc[p] = "collect" /\ queue[p] # <<>>
  /\ LET c == Head(queue[p])
         up == nbrsTypes[c]
         new == Marginal(p, c, up)
         update == Over(new, sep[p][{c, up}])
     IN  /\ c # root /\ left[c] = 0
         /\ sep' = [sep EXCEPT ![p][{c, up}] = new]
         /\ got' = got \cup {<<c, up>>}
         /\ IF owner[up] = p
            THEN /\ ratio' = [ratio EXCEPT ![c] = update]
                 /\ cond' = [cond EXCEPT ![up, c] = 1]
                 /\ UNCHANGED net
            ELSE \* nothing is sent for a clique that is neither tabular nor Gaussian
                 /\ net' = IF IsScalarClq(c) THEN net
                           ELSE net \cup {[tag |-> "collect", from |-> c, to |-> up, data |-> update]}
                 /\ UNCHANGED <<ratio, cond>>
  /\ queue' = [queue EXCEPT ![p] = Tail(@)]
  /\ UNCHANGED <<plan, clq, pc, left, distributing, gathering>>

Reported(c) == {k \in Nbrs(c) : cond[c, k] = 1}

MultiplyRatios(p) ==
  /\ pc[p] = "collect" /\ queue[p] # <<>>
  /\ LET c == Head(queue[p])
         new == left[c] - Cardinality(Reported(c))
     IN  /\ c = root \/ left[c] # 0
         /\ clq' = [clq EXCEPT ![p][c] =
                      [f \in Factor |-> @[f] + SumFunctionOnSet([k \in Clq |-> ratio[k][f]], Reported(c))]]
         /\ cond' = [a \in Arc |-> IF a[1] = c /\ cond[a] = 1 THEN 2 ELSE cond[a]]
         /\ left' = [left EXCEPT ![c] = new]
         /\ queue' = [queue EXCEPT ![p] = IF new > 0 THEN Append(Tail(@), c)
                                          ELSE IF c = root THEN Tail(@) ELSE @]
  /\ UNCHANGED <<plan, sep, got, pc, ratio, net, distributing, gathering>>

-------------------------------------------------------------------------------
(***************************************************************************)
(* DistributeEvidence.                                                     *)
(***************************************************************************)
\* BuildRoutes: from the root of a subtree up to the next root
Route(p) ==
  LET Up[c \in Clq, n \in 0 .. NumberOfClqs] ==
        IF n > 0 /\ \E q \in UsedProcesses : roots[q] = c THEN <<c>>
        ELSE <<c>> \o Up[nbrsTypes[c], n + 1]
  IN  Up[roots[p], 0]

RouteEnd(p) == Last(Route(p))

\* the arcs of a route, downwards
RouteArcs(p) ==
  LET r == Reverse(Route(p))
  IN  [n \in 1 .. Len(r) - 1 |-> <<r[n], r[n + 1]>>]

\* mutant: the search for routes stops at the first
MutFirstRouteOnly(p) ==
  LET all == SelectSeq([n \in 1 .. Cardinality(UsedProcesses) |-> n - 1],
                       LAMBDA q : roots[q] # root /\ RouteEnd(q) = roots[p])
  IN  SubSeq(all, 1, Min({1, Len(all)}))

\* the routes that a process has to follow, in the order of m_Routes
RoutesFrom(p) ==
  SelectSeq([n \in 1 .. Cardinality(UsedProcesses) |-> n - 1],
            LAMBDA q : roots[q] # root /\ RouteEnd(q) = roots[p])

StartDistribute(p) ==
  /\ pc[p] = "collect" /\ queue[p] = <<>>
  /\ IF NodesOfProcess(p) = {}
     THEN /\ pc' = [pc EXCEPT ![p] = "ready"]
          /\ UNCHANGED distributing
     ELSE /\ pc' = [pc EXCEPT ![p] = IF roots[p] = root THEN "routes" ELSE "await"]
          /\ todo' = [todo EXCEPT ![p] = FlattenSeq([n \in 1 .. Len(RoutesFrom(p)) |->
                                                     RouteArcs(RoutesFrom(p)[n])])]
          /\ done' = [done EXCEPT ![p] = {roots[p]}]
  /\ UNCHANGED <<plan, pots, collecting, net, gathering>>

\* mutant: the separator is looked at instead of the sender's clique
MutAwaitSeparator(p) ==
  /\ pc[p] = "await"
  /\ LET up == nbrsTypes[roots[p]]
     IN  \/ /\ IsScalar({up, roots[p]}, obs)
            /\ UNCHANGED <<clq, net>>
         \/ \E m \in net :
              /\ m.tag = "distribute" /\ m.from = up /\ m.to = roots[p]
              /\ clq' = [clq EXCEPT ![p][roots[p]] = Times(@, m.data)]
              /\ net' = net \ {m}
  /\ pc' = [pc EXCEPT ![p] = "routes"]
  /\ UNCHANGED <<plan, sep, got, collecting, distributing, gathering>>

\* ProcessRoutes: a process waits for the ratio of the last link of its route
AwaitRatio(p) ==
  /\ pc[p] = "await"
  /\ LET up == nbrsTypes[roots[p]]
     IN  \/ /\ IsScalarClq(up)
            /\ UNCHANGED <<clq, net>>
         \/ \E m \in net :
              /\ m.tag = "distribute" /\ m.from = up /\ m.to = roots[p]
              /\ clq' = [clq EXCEPT ![p][roots[p]] = Times(@, m.data)]
              /\ net' = net \ {m}
  /\ pc' = [pc EXCEPT ![p] = "routes"]
  /\ UNCHANGED <<plan, sep, got, collecting, distributing, gathering>>

\* PropagateBetweenClqs of CJtreeInfEngine, in the copy of one process
PropagateBetweenClqs(p, i, j) ==
  LET l == {i, j}
      update == Over(clq[p][i], sep[p][l])
  IN  /\ got' = got \cup {<<i, j>>}
      /\ IF IsScalar(l, obs) \/ (IsDense(l, obs) /\ clq[p][i] = Unit)
         THEN UNCHANGED <<clq, sep>>
         ELSE /\ clq' = [clq EXCEPT ![p][j] = Times(@, update)]
              /\ sep' = [sep EXCEPT ![p][l] = IF IsDense(l, obs) THEN update ELSE clq[p][i]]

\* mutant: m_IsPropagated is not set
MutForgetPropagated(p) ==
  /\ pc[p] = "routes" /\ todo[p] # <<>>
  /\ LET i == Head(todo[p])[1]
         j == Head(todo[p])[2]
     IN  /\ owner[j] = p
         /\ PropagateBetweenClqs(p, i, j)
  /\ todo' = [todo EXCEPT ![p] = Tail(@)]
  /\ UNCHANGED <<plan, pc, collecting, net, done, gathering>>

FollowRoute(p) ==
  /\ pc[p] = "routes" /\ todo[p] # <<>>
  /\ LET i == Head(todo[p])[1]
         j == Head(todo[p])[2]
     IN  /\ owner[j] = p
         /\ PropagateBetweenClqs(p, i, j)
         /\ done' = [done EXCEPT ![p] = @ \cup {j}]
  /\ todo' = [todo EXCEPT ![p] = Tail(@)]
  /\ UNCHANGED <<plan, pc, collecting, net, gathering>>

\* mutant: the marginal is sent, not the ratio
MutSendMarginal(p) ==
  /\ pc[p] = "routes" /\ todo[p] # <<>>
  /\ LET i == Head(todo[p])[1]
         j == Head(todo[p])[2]
         new == Marginal(p, i, j)
     IN  /\ owner[j] # p
         /\ sep' = [sep EXCEPT ![p][{i, j}] = new]
         /\ got' = got \cup {<<i, j>>}
         /\ net' = IF IsScalarClq(i) THEN net
                   ELSE net \cup {[tag |-> "distribute", from |-> i, to |-> j,
                                  data |-> new]}
  /\ pc' = [pc EXCEPT ![p] = "sending"]
  /\ UNCHANGED <<plan, clq, collecting, distributing, gathering>>

\* the last link of a route leads to another process
SendAlongRoute(p) ==
  /\ pc[p] = "routes" /\ todo[p] # <<>>
  /\ LET i == Head(todo[p])[1]
         j == Head(todo[p])[2]
         new == Marginal(p, i, j)
     IN  /\ owner[j] # p
         /\ sep' = [sep EXCEPT ![p][{i, j}] = new]
         /\ got' = got \cup {<<i, j>>}
         /\ net' = IF IsScalarClq(i) THEN net
                   ELSE net \cup {[tag |-> "distribute", from |-> i, to |-> j,
                                  data |-> Over(new, sep[p][{i, j}])]}
  /\ pc' = [pc EXCEPT ![p] = "sending"]
  /\ UNCHANGED <<plan, clq, collecting, distributing, gathering>>

\* MPI_Send returns
Sent(p) ==
  /\ pc[p] = "sending"
  /\ eager \/ \A m \in net : <<m.from, m.to>> # Head(todo[p])
  /\ todo' = [todo EXCEPT ![p] = Tail(@)]
  /\ pc' = [pc EXCEPT ![p] = "routes"]
  /\ UNCHANGED <<plan, pots, collecting, net, done, gathering>>

(***************************************************************************)
(* The rest of DistributeEvidence, inside the subtree; the order of its    *)
(* queue source is abstracted to any order from the root downwards.  A     *)
(* clique that ProcessRoutes has been to is not propagated to again.       *)
(***************************************************************************)
Spread(p) ==
  /\ pc[p] = "routes" /\ todo[p] = <<>>
  /\ \E a \in Arc :
       /\ a[1] \in done[p] /\ a[2] \in NodesOfProcess(p) \ done[p]
       /\ PropagateBetweenClqs(p, a[1], a[2])
       /\ done' = [done EXCEPT ![p] = @ \cup {a[2]}]
  /\ UNCHANGED <<plan, pc, collecting, net, todo, gathering>>

FinishDistribute(p) ==
  /\ pc[p] = "routes" /\ todo[p] = <<>>
  /\ NodesOfProcess(p) \subseteq done[p]
  /\ pc' = [pc EXCEPT ![p] = "ready"]
  /\ UNCHANGED <<plan, pots, collecting, net, distributing, gathering>>

-------------------------------------------------------------------------------
(***************************************************************************)
(* CollectFactorsOnProcess, for one process of m_CollectRanks after the    *)
(* other: it receives the cliques of every other process, the processes    *)
(* one by one in their order.                                              *)
(***************************************************************************)
Gathering == CollectRanks[round]

StartCollectFactors ==
  /\ AllAt("ready")
  /\ round < Len(CollectRanks)
  /\ round' = round + 1
  /\ given' = {} /\ gathered' = {}
  /\ pc' = [p \in Rank |-> IF Cardinality(UsedProcesses) = 1 THEN "ready"
                           ELSE IF p = CollectRanks[round + 1] THEN "gather" ELSE "give"]
  /\ UNCHANGED <<plan, pots, collecting, net, distributing, chan>>

\* the cliques of a process in the order of m_NodesOfProcess, here by number
ToGive(p) == NodesOfProcess(p) \ given

GiveFactor(p) ==
  /\ pc[p] = "give" /\ ToGive(p) # {}
  /\ eager \/ chan[p] = <<>>
  /\ LET c == Min(ToGive(p))
     IN  /\ chan' = [chan EXCEPT ![p] = Append(@, [node |-> c, data |-> clq[p][c]])]
         /\ given' = given \cup {c}
  /\ UNCHANGED <<plan, pots, pc, collecting, net, distributing, round, gathered>>

FinishGiving(p) ==
  /\ pc[p] = "give" /\ ToGive(p) = {}
  /\ eager \/ chan[p] = <<>>
  /\ pc' = [pc EXCEPT ![p] = "ready"]
  /\ UNCHANGED <<plan, pots, collecting, net, distributing, gathering>>

ToGather(p) == {q \in UsedProcesses \ {p} : ~ NodesOfProcess(q) \subseteq gathered}

\* of a scalar clique only the number is sent; its copy is a scalar already
GatherFactor(p) ==
  /\ pc[p] = "gather" /\ ToGather(p) # {}
  /\ LET q == Min(ToGather(p))
         m == Head(chan[q])
     IN  /\ chan[q] # <<>>
         /\ clq' = [clq EXCEPT ![p][m.node] = m.data]
         /\ gathered' = gathered \cup {m.node}
         /\ chan' = [chan EXCEPT ![q] = Tail(@)]
  /\ UNCHANGED <<plan, sep, got, pc, collecting, net, distributing, round, given>>

FinishGathering(p) ==
  /\ pc[p] = "gather" /\ ToGather(p) = {}
  /\ pc' = [pc EXCEPT ![p] = "ready"]
  /\ UNCHANGED <<plan, pots, collecting, net, distributing, gathering>>

Return ==
  /\ AllAt("ready")
  /\ round = Len(CollectRanks)
  /\ pc' = [p \in Rank |-> "idle"]
  /\ UNCHANGED <<plan, pots, collecting, net, distributing, gathering>>

-------------------------------------------------------------------------------
ProcessStep(p) ==
  \/ SendToParent(p) \/ MultiplyRatios(p)
  \/ StartDistribute(p) \/ AwaitRatio(p) \/ FollowRoute(p) \/ SendAlongRoute(p) \/ Sent(p)
  \/ Spread(p) \/ FinishDistribute(p)
  \/ GiveFactor(p) \/ FinishGiving(p) \/ GatherFactor(p) \/ FinishGathering(p)

\* what the processes do at the same time
Together ==
  DivideNodes \/ BalanceTree \/ StartCollect \/ StartCollectFactors \/ Return

Next ==
  \/ \E e \in Evidence : EnterEvidence(e)
  \/ \E p \in Rank : ReceiveRatio(p) \/ ProcessStep(p)
  \/ Together

\* every process runs, and MPI_Iprobe finds a message in the end
Fairness ==
  /\ \A p \in Rank : WF_vars(ReceiveRatio(p)) /\ WF_vars(ProcessStep(p))
  /\ WF_vars(Together)

Spec == Init /\ [][Next]_vars /\ Fairness

-------------------------------------------------------------------------------
TypeOK ==
  /\ obs \subseteq Node /\ root \in Clq /\ got \subseteq Arc
  /\ UsedProcesses \subseteq Rank /\ roots \in [UsedProcesses -> Clq]
  /\ owner \in [Clq -> Rank]
  /\ clq \in [Rank -> [Clq -> Potential]] /\ sep \in [Rank -> [Link -> Potential]]
  /\ queue \in [Rank -> Seq(Clq)]
  /\ cond \in [Arc -> 0 .. 2] /\ left \in [Clq -> 0 .. NumberOfClqs]
  /\ ratio \in [Clq -> Potential]
  /\ net \subseteq [tag : {"collect", "distribute"}, from : Clq, to : Clq, data : Potential]
  /\ todo \in [Rank -> Seq(Arc)] /\ done \in [Rank -> SUBSET Clq]
  /\ round \in 0 .. Len(CollectRanks)
  /\ chan \in [Rank -> Seq([node : Clq, data : Potential])]

(***************************************************************************)
(* After EnterEvidence every process of m_CollectRanks holds the product   *)
(* of the factors of the whole model in every clique, each factor once:    *)
(* the tree was cut up and put together again without losing or repeating  *)
(* a message, whichever processes the subtrees went to.                    *)
(***************************************************************************)
FactorsCollected ==
  (AllAt("idle") /\ round > 0) =>
    \A n \in DOMAIN CollectRanks : \A c \in Clq :
      clq[CollectRanks[n]][c] = JointPotential(c, obs)

(***************************************************************************)
(* No message outlives the call it belongs to.  ProcessRoutes receives     *)
(* with MPI_ANY_TAG: a ratio left over from one call would be multiplied   *)
(* into the potentials of the next.                                        *)
(***************************************************************************)
NoMessageLeft ==
  AllAt("ready") => net = {} /\ \A p \in Rank : chan[p] = <<>>

(***************************************************************************)
(* The processes together send the messages of Propagation.  A ratio that  *)
(* has been taken counts as multiplied into its sink, although it may be   *)
(* in m_UpdateRatios or under way to another process: no process uses the  *)
(* sink as a source before it has multiplied all ratios into it.           *)
(***************************************************************************)
Pending(c, f) ==
  SumFunctionOnSet([k \in Clq |-> ratio[k][f]], Reported(c))
    + MapThenSumSet(LAMBDA m : m.data[f], {m \in net : m.to = c})

\* the process whose copy of a separator was written last
SeparatorAt(l) ==
  LET c == CHOOSE c \in l : nbrsTypes[c] \in l
      up == nbrsTypes[c]
  IN  owner[IF <<up, c>> \in got THEN up ELSE c]

P == INSTANCE Propagation WITH
       Home <- [f \in Factor |-> FactAssignToClq(f)],
       live <- LiveFactors(obs), mute <- ScalarLinks(obs),
       clq <- [c \in Clq |-> [f \in Factor |-> clq[owner[c]][c][f] + Pending(c, f)]],
       sep <- [l \in Link |-> sep[SeparatorAt(l)][l]]

ImplementsPropagation == P!Init /\ [][P!Next]_P!vars

\* EnterEvidence returns on all processes.
EnterEvidenceReturns == AllAt("divide") ~> AllAt("idle")

===============================================================================
