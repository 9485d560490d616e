# OpenPNL: a TLA+ development of its inference and learning core

OpenPNL (Probabilistic Networks Library, `src/c_pgmtk`) represents Bayesian and
Markov networks, answers queries about them and learns them from data. This
directory models

- the construction of a junction tree and propagation of evidence in it, by
  three engines (sequential, OpenMP threads, MPI processes) that are checked to
  implement one abstract specification;
- Pearl's message passing engine, sequential and with MPI;
- inference in dynamic models, slice by slice;
- the graph algorithms underneath, and the search for a structure with its
  incrementally updated matrix of ancestors;
- who owns and deletes the factors of a model,

with machine-checked proofs about propagation, the construction of the junction
tree and its rooting, the sequential and the OpenMP engine, Pearl's engines,
dynamic inference, structure learning, the queries on graphs and ownership.
`PROJECT.json` maps every definition to its lines.

## 1. Inventory

State, operations, interactions and difficulties, by component. The last column
names the modules; reasons for what is left out are in section 6 and in
`PROJECT.json`.

| Component (files `src/c_pgmtk/src/pnl*.cpp`) | State and operations | What is hard; what makes it correct | |
|---|---|---|---|
| `JunctionTree` | cliques, links, `m_nodePots`, `m_separatorPots`, `m_factAssignToClq`; built once per model, `InitCharge`/`ClearCharge` per evidence | maximal cliques of a chordal graph; running intersection; every factor in exactly one clique that covers it | JtreeBuild (from the model to the tree), JunctionTree (assignment, evidence) |
| `JtreeInferenceEngine` | root and `m_collectSequence`, copies of the charged tree, `m_norm`, `m_pQueryJPD`, `m_pPotMPE`; `EnterEvidence`, `SetJTreeRootNode`, `MarginalNodes`, `GetLogLik` | the order of messages; what an old separator holds when it is divided by; queries over several cliques; the scale lost to normalisation | JtreeRoot, JtreeInfEngine |
| `ParJtreeInferenceEngine`, `PAR_OMP` | the queues `m_QueueNodes` and `source`, `m_NodeConditions`, `Count`, `IsEndPar`, four kinds of locks | unlocked reads, one clique with several children, termination of the team | ParJtreeOMP |
| `ParJtreeInferenceEngine`, `PAR_MPI` | division of cliques (`m_NodeProcesses`, `m_Roots`), `m_Routes`, `m_UpdateRatios`, `m_IsPropagated` | every process holds a copy of the tree, only part of which is up to date; sends and receives must pair; MPI may or may not buffer | ParJtreeMPI |
| `PearlInferenceEngine`, `ParPearlInferenceEngine` | messages read and written in a round, beliefs; division of the nodes | rounds must not mix between processes; when to stop | PearlMessages, Pearl |
| `1_5SliceJtreeInferenceEngine`, `2TBNInferenceEngine`, `Ring` | rings of trees, separator potentials and evidences; procedures | backward steps on trees that the next call goes on from; evidence replaced while referred to; iterators that move separately | Dbn |
| `Graph` | neighbour lists with types, kept twice per edge; orders, ancestors, components, d-connection | positions kept across a goto; edges walked one way only | Graph |
| `DAG` | moves (add, delete, reverse) and a matrix of ancestors updated in place; `IsValidMove`, `RandomCreateADAG`, `SetSubDag` | one stale row makes every later validity test wrong | DAG |
| `MlStaticStructLearnHC`, `StaticStructLearnSEM`, `MlDynamicStructLearn` | the current graph, restarts, the prior slice | moves that are legal one by one and not together; slices; loops of random draws | StructLearn |
| `ModelDomain`, `ReferenceCounter`, `GraphicalModel` | factor heap, free numbers, references; `AttachFactor`, `ReleaseFactor`, `AddRef`, `Release` | each live factor in one slot, deleted once; a number reused while somebody still holds it; a domain that deletes itself | ModelDomain |
| `Factor`, `Factors`, `FactorGraph`, `StaticGraphicalModel`, `BNet` | ownership passes from the domain to a model; a model deletes its factors | double release, factors nobody deletes | ModelDomain |
| `EmLearningEngine`, `ParEm...`, `EmLearningEngineDBN` | expected statistics, loop until numbers converge | sums of numbers | not modelled |
| `GibbsSampling...`, `ParGibbs...`, `GibbsWithAnnealing...` | a random state and its statistics | distributions | not modelled |
| `BKInferenceEngine`, `2TPFInferenceEngine` | approximate slices | nothing exact to compare with | not modelled |
| `LWSampling`, `FGSumMax`, `Naive`, `LIMID`, `SpecPearl`, `Ex` | samples, one product, expected utility | numeric | not modelled |
| parameter learning, scores | statistics | numeric | not modelled |
| distribution functions, potentials, CPDs, matrices, RNG | numbers | numeric | abstracted, see 2.1 |
| models and evidence (`BNet`, `MNet`, `DBN`, `Evidence`) | containers read by the engines | | inputs of the modules |
| persistence, context, XML, log, exceptions, memory tracking | files, streams | conversion in one pass | not modelled |
| high-level API, wrappers (`high`, `PNLM`, `R`, `graphviz`), vendored `cxcore`, `trs`, `cvcart` | strings over the core; third party | | not modelled |

**How they interact.** A graphical model shares a `CModelDomain` with others and
owns factors. An engine asks the model for a junction tree (`ConstructJTree`),
copies it for every evidence, assigns the factors to cliques and multiplies them
in. `EnterEvidence` = `ShrinkObserved` (build and charge the copy),
`CollectEvidence` (messages to the root), `DistributeEvidence` (messages from
the root). One message is `PropagateBetweenClqs(source, sink)`. A dynamic engine
holds one such engine per slice in a ring and passes potentials on the
separators between them. Structure learning moves edges in a `CDAG`, asks it
which moves are valid, and has a score computed for each.

All calls are synchronous: concurrency exists only inside `EnterEvidence` of the
parallel engines (a team of threads, or processes that all make the same call).
Nothing of this is persistent; there are no timeouts and no retries, so there is
no fault model beyond what MPI may do with messages.

## 2. The modules

    Propagation            what every junction tree engine promises
      Propagation_proofs
    JunctionTree           tree, separators, factors and evidence (pure)
      JtreeRoot            the order a root gives to the tree (pure)
        JtreeRoot_proofs   the links are a tree, the sequence goes up it
        JtreeInfEngine     sequential engine  } each instantiates Propagation
        ParJtreeOMP        OpenMP engine      } and is checked to implement it
        ParJtreeMPI        MPI engine         }
          JtreeInfEngine_proofs, ParJtreeOMP_proofs
    PearlMessages          Pearl's messages (pure)
      Pearl                the rounds of both engines
        Pearl_proofs
        PearlResult        what their results should be
    Dbn                    slices and rings
      Dbn_proofs
    Nodes                  the numbers of the nodes
      JtreeBuild           from a model to a tree with running intersection
      Graph                order and d-connection
      DAG                  moves and the matrix of ancestors
        StructLearn        the searches over it
      GraphAlgorithms_proofs   of JtreeBuild, Graph, DAG and StructLearn
    ModelDomain            ownership of factors
      ModelDomain_proofs
    MC...                  instances for TLC

### 2.1 The abstraction of potentials

A potential is a product of factors of the model, so it is modelled as the
*power* of every factor in it, `[Factor -> Int]`: multiplication adds, division
subtracts, a unit function is all zeros. Marginalisation keeps the powers. A
factor that is in a potential twice, or not at all, is exactly what a wrong
order of messages or a wrong division produces, whatever the tables hold. A
separator observed as a whole is a scalar and keeps nothing (`IsScalar`).
The scale that normalisation removes is followed the same way (`scale`, `norm`).
What this cannot see: rounding, underflow, 0/0, and the numeric code of the
distribution functions.

Evidence is a set of observed nodes; its values do not matter to the powers. It
decides which factors are live, which separators are scalars, and whether a link
takes the *dense* path (both cliques discrete and not sparse, `DoPropagate`) or
the *general* path of `PropagateBetweenClqs`.

### 2.2 Propagation

`clq`, `sep` are the potentials, `got` the arcs messages have gone along. One
action starts a new evidence (`ShrinkObserved`), two send a message, through an
ordinary separator (`PropagateBetweenClqs`) or a scalar one (`PropagateScalar`).
A clique may send to `j` when it has heard from all neighbours but `j`. The
separator then holds the marginal or the ratio: the code does both.

### 2.3 JunctionTree, JtreeRoot

`ConnectTo` is `BuildTreeStructure` (first earlier clique with most nodes in
common; a clique that shares none inherits the last answer), `FactAssignToClq`
the last clique that covers the factor (the loop has no break), `InitNodePot` the
charge. `SetBy(c)` are the cliques that `ConnectTo` looks back over to repeat an
answer; `IsClosed` and `Behind` say what a message can carry through an arc.
`RebuildTreeFromRoot` is `m_collectSequence`: the code's layers joined are one
queue, which starts with the `Leaves` and is looked at in order (`LookAt`); a
clique that is looked at lets at most one neighbour `Follow`. `NbrsTypes` is `SetNbrsTypes`/`GetParents`, `JTreeType` is `GetJTreeType`.

### 2.4 JtreeInfEngine

`pc` says which member function runs. `EnterEvidence` charges the tree;
`CollectEvidence` sends from one clique of `rest` to its first neighbour that
has not sent; `DistributeEvidence`/`PopSource` work off the queue `source`, for
the clique in front the set `nbrs` of neighbours still to be served, smallest
first as they are in the neighbour list;
`FinishEvidence` returns. Between calls `SetJTreeRootNode` and `MarginalNodes`
may be called in any order (the checks of `m_lastOpDone` are commented out in
the source). A query inside a clique is `MarginalizeCliqueToQuery`, with its
exception; any other is `ShrinkJTreeCliques` and `MergeCliques`. `jpd` and `mpe`
are the answers, with the evidence they were given under.

### 2.5 ParJtreeOMP

The master's steps are `EnterEvidenceOMP`, the messages of `CollectEvidenceOMP`
(discrete trees), and the starts and ends of the parallel sections. A thread's
step is one critical section or one access outside of any; a propagation is a
read step and a write step, so that a lost update or a torn order can be seen.
`todo[t]` are the neighbours a thread has still to look at, smallest first.
The pc values follow the text of `CollectEvidenceOMP_gau` and
`DistributeEvidenceOMP`. The lock that is modelled as state is
`parents_lock`, because a thread keeps it during a propagation.
The scalar `m_norm` is not followed here (see the hazards).

### 2.6 ParJtreeMPI

`clq[p]`, `sep[p]` are the copies of process `p`. `DivideNodes` gives out one
subtree per step with the code's weights (integer arithmetic, scaled where
`BalanceTree` divides); only the default algorithm of the division is modelled, the others are
unused. `BalanceTree` moves the main root when two processes are used. Then
each process runs by itself: `ReceiveRatio`, `SendToParent`, `MultiplyRatios`
(CollectEvidence); `AwaitRatio`, `FollowRoute`, `SendAlongRoute`, `Sent`
(ProcessRoutes); `Spread` (the rest of DistributeEvidence); `GiveFactor`,
`GatherFactor` (CollectFactorsOnProcess). Creating a communicator is collective,
so the processes start and gather together. `eager`, chosen in `Init`, tells an MPI that
copies messages from one where `MPI_Send` returns when the receiver has taken the
message. A size and its data are received as one message. The ratio of a
Gaussian clique is in a buffer that the code deletes right after `MPI_Isend`
(`Delivered`). Delta functions and the gathering of separators (the code has
none) are left out.

### 2.7 JtreeBuild

`pc` goes through `ConstructJTree`: `AssureSubGraphsConnectedInCliques` (the
moral graph is made in `Init`), one node of `MaximumCardinalitySearch` per step
(`NumberNode`, or `FailSearch` when the graph turns out not to be chordal), one
node of `RunTriangulation` per step (`EliminateNode`, then `SearchAgain`), one
link of `BuildTreeStructure` per step (`LinkClique`). The search tells the end
of a clique only by comparing numbers of neighbours, as the code does, and ties
go to the smallest number. What the run shows of its results is what the MC
modules of the engines assume of their trees.

### 2.8 PearlMessages, Pearl, PearlResult

A message is the set of nodes whose evidence or distribution it depends on, the
empty set is the uniform message; a belief is exact when it depends on all that
bears on its node. `Pearl` has the *parallel* protocol, which `EnterEvidence`
uses by default: in each round all nodes compute messages from those of the
round before, then beliefs, and the loop ends when no belief of a hidden node
changed. `CPearlRound` and `CPearlDeliver` are the sequential engine. With MPI a
process computes its nodes' messages, sends a bundle to each partner, receives
as many bundles as it has partners in the order of arrival (`MPI_ANY_SOURCE`,
`MPI_ANY_TAG`), and `AllReduce` joins the flags of convergence; then beliefs are
collected at process 0. `MPI_Send` is taken to buffer: if it does not, partners
that send to each other wait for ever, in the code as well. Each process has
nodes that hang together, as the division makes it. `Round` is the reference for
the rounds: what the messages are when all nodes send at once, `k` times.
`PearlResult` has the reference for the result: the nodes that tell of a node
along a path that is not blocked. It is a module of its own because it is
recursive, and the proofs about `Pearl` may not reach it.

### 2.9 Dbn

What a slice's tree has computed is its `power`: how often the distributions
and the evidence of each slice are multiplied into it. `DefineProcedure`
clears the rings; `EnterEvidence` puts an evidence into its slot and finds the
interface under the numbers of the slice before (`ArrayOfNodes`); `ForwardStep`,
`SmoothingStep` and `FixLagStep` are single steps of the loops, so that the
trees put back between the backward steps of fixed-lag smoothing are visible.
`QuerySlots` is what `MarginalNodes` accepts, with the tree it takes: for smoothing
the slices 0 to `m_Lag`, because the check includes its right border.
Three restrictions on the caller: fixed-lag smoothing with a positive lag sees
hidden interfaces only (otherwise `BackwardFixLag` dereferences NULL), filtering
does not go on after `Prediction`, which the API does not foresee, and a marginal
is asked for when a step forward has been made (`MarginalNodes` checks only that
the evidence is there, and before the first step the trees are NULL).

### 2.10 Graph

`GetTopologicalOrder` goes to one parent or places one node per step: `here` is the
node the walk is at (the code's `i`), `cogs` the neighbour each node was left at
(the lists of neighbours are sorted, so a position and a number say the same), and
the `goto` that comes back to a node goes on from there (`GoToParent`, `Place`).
`GetDConnectionList` and
`GetDConnectionTable` set patterns and then expand one node per step
(`ExpandNode`, `level`), level by level, moving edges from `tgr[2]` (`unmet`) to the
two other graphs as `GetDReachableSubgraph` does. `Walk` is the reference: the arcs
of walks that the separator does not block, as often as there are arcs.

### 2.11 DAG, StructLearn

`DAG` has both lists of neighbours and the matrix. `UpdateRemoveNodes` is one
round of the queue of `UpdateAncestorMatrix`; a reversal removes an edge and
then adds the reverse one (`AddReversed`), so that the states between are seen.
`StructLearn` adds the control of the learners: any valid move may be the best
one (`SearchStep`), the search may stop or restart from a random graph
(`RandomCreateADAG`: groups of discrete and continuous nodes, edges added and
taken back when a limit is broken, links between the groups), and for two slices
`SetSubDag` removes the inner edges of the prior slice and adds those learned
for it, one of which may be refused (`phase = "Failed"`).

### 2.12 ModelDomain

A factor is an address that may be reused. `CreateFactor` and `AllocFactor`
attach to the heap of the domain; `AddFactor` takes the factor out of it when
the domain owns it (`IsAFactorOwner`); copies of models, `ChangeOwnerToGraphicalModel`
and the destructors `~CFactors` and `~CModelDomain` go factor by factor; the last
`Release` of a domain deletes it with the factors left in its heap. The client
does what the API asks of it: a factor belongs to one model, and only factors
that no model holds are deleted or moved by hand. The sequential build is
modelled (no locks).

## 3. Properties

*Types.* Every module with state has one type invariant. They are proved where
there are theorems, and otherwise were checked on the instances of section 4;
the runs are kept for what could be wrong.

*Propagation.*
- `AccountedOnce`, `Calibrated`, `IInv`: no factor counted twice or lost,
  whatever the order of messages; neighbours agree in the end.
- `ImplementsPropagation` (all three engines): the engine's steps are steps of
  Propagation or change nothing it can see. For the OpenMP engine this is
  where the unlocked tests, the locks and the claims are examined; for the MPI
  engine a ratio in flight or in `m_UpdateRatios` counts as multiplied, and the
  copy of the owner is the clique.
- `EvidencePropagated`, `FactorsCollected`: at the return of the call every
  clique holds every factor that can reach it, once; on every rank of
  `m_CollectRanks`.
- `PropagationRaceFree`: no two threads use one clique potential unless both
  only read it.
- `NoMessageLeft`: no MPI message survives its call (receives use
  `MPI_ANY_TAG`).
- `QueryExact`, `MergeSucceeds`, `LogLikExactWhenDense`: what holds of answers
  and of the log likelihood.
- `EnterEvidenceReturns` (liveness): a call returns or throws. For the OpenMP
  engine it is claimed of calls that find `m_NbrsTypes` as the root has it.

*Construction of the tree.* `CliquesExact` (all maximal cliques, once each),
`DomainsCovered`, `RunningIntersection`, `TriangulatesIfNeeded` (an action
property: the search never refuses a chordal graph, and the triangulation leaves a
chordal one), `ConstructionEnds`. The
first two are claimed when node 0 has a neighbour. `Chordal` is stated by cycles:
in no set of nodes has every node just two neighbours, which are not neighbours of
each other. It does not mention an order of elimination, which is what the
algorithms look for.

*Pearl.* `RoundsAgree` (each process computes the rounds of the sequential
engine, and what either engine leaves on the main process are the beliefs of every
hidden node after the number of rounds it counted), `ExactIfAllTell`, `NothingLeft`, `EngineEnds`.

*Slices.* `SmoothedExact` (every slice that bears on the one asked for, once),
`EvidenceExact`, both of the slices that the procedure has (`SliceQueries`);
`EvidenceAlive` (no tree that is used refers to a deleted evidence), of every query
that is accepted.

*Graphs.* `ParentsFirst`; `DConnectionCovers`. `MatrixExact`, `StaysDAG`,
`MovesExact` (`IsValidMove` accepts just the moves that keep the graph acyclic),
`PriorFitsUnlessRestarted`, `TypesKeepOrder` (an action property of SEM),
`RandomCreateADAGReturns`.

*Ownership.* `HeapSound`, `DeletedOnce`, `DomainOutlivesModels`.

*Fairness.* Sequential engines and the construction: the caller's thread runs
(`WF` of the engine's own steps, none of the API calls). OpenMP: every thread of
the team is scheduled (`WF` per thread), nothing about who gets a lock first.
MPI: every process runs, and a message that has been sent is found by
`MPI_Iprobe` in the end (`WF` of `ReceiveRatio`). Pearl: some process that can go on does
(`WF` of the whole next-state relation); every behaviour of that module is
finite, so no more is needed. Strong fairness is used once, in
`StructLearn`: `RandomCreateASubDAG` draws pairs of nodes until all are linked,
and `SF` of `PickUnlinked` says that the random numbers do not for ever avoid
the pairs that link another node.

## 4. Runs

| run | instance | states | what it shows |
|---|---|---|---|
| propagation | 4 cliques with a branch, 3 factors, every set of live factors and scalar separators | 1,555 | IInv is an invariant and implies the rest |
| jtree | 5 cliques: dense, sparse and Gaussian parts; 2 evidences, all roots, both `maximize`, 3 queries | 13,620 | the engine implements Propagation whatever links alternate; answers and scale are right where they should be |
| omp | 2 threads; a tree that branches, with a discrete and a continuous part; 4 evidences select discrete, Gaussian, scalar and mixed trees; root moved | 209,394 | both collections, the distribution, every choice of `GetJTreeType` |
| mpi | 3 processes on a chain of 4 cliques; MPI that copies and MPI that blocks; 4 evidences; gathered at ranks 2 and 0 | 4,508 | balancing, a route through a clique of another process, nothing left behind |
| build | all connected BNets and all MNets of pairs on 5 nodes, 3 sets of wanted subgraphs | 53,265 | search, triangulation and links |
| pearl | all polytrees of 4 nodes as BNet and MRF2, all evidences that leave 2 nodes hidden, all divisions between 2 processes | 347,941 | rounds of the MPI engine, convergence |
| dbn | up to 7 slices, lags up to 3, any observed interfaces | 5,432 | forward and backward passes over the rings |
| graph | all DAGs of 4 nodes, all queries of one node, all separators | 67,000 | order and d-connection |
| learn | 2 slices of 2 nodes, of both types, at most 2 parents, from every legal start | 9,344 | the searches, restarts, the prior slice |
| domain | 2 domains, 2 models of at most 2 factors, 3 factors, with symmetry | 306,000 | ownership |

*Why these bounds.* Four cliques are the smallest tree in which a clique has a
parent and two children (competition for a parent, several entries in a queue, a
route with an inner clique). Two threads suffice for every pair of unlocked
accesses; three processes are the least for a route that passes a subtree.
Evidences are chosen so that a separator, a clique or the whole tree is
observed, and calls repeat without bound, so that stale state of one call meets
the next. A cycle without a chord needs four nodes, and a second fill-in and a
chordal part beside it a fifth. Two processes that divide four nodes have
several messages for each other, and chains long enough for one to be a round
ahead. Seven slices let a ring of four turn over nearly twice. On four nodes a
removed edge has descendants that are reached along two paths, and a
reversal has a third node to go through. Three addresses let a cell be reused
while a factor with the same number lives in the other domain.

The bounds named in guards are `MaxTime` and `MaxLag` (Dbn), `N` rounds (Pearl;
the code's default limit is the number of nodes as well), and in `CopyModel` the number of free
addresses. Deadlock is checked except in build, graph, learn and pearl, where
the computation modelled comes to its end.

Each property of a passing run comes with a mutant of a mapped definition (a
dropped guard, an old separator not divided by, a lock on the wrong clique)
under which TLC finds it violated.

### Runs that show a disagreement

| run | the code | the documentation |
|---|---|---|
| graph_dconnection | `GetDReachableSubgraph` lets a walk go on to a second parent through a node that has no descendant among the separating nodes | the nodes found are those d-connected |
| pearl_exact | the loop stops when beliefs rest for a round, although a message is still on its way (6 nodes, 2 observed) | the result is exact in graphs without loops |

The quotations are in `PROJECT.json` under "findings".

### Known defects that the models keep away from or work around

They are listed as hazards, each at its line; the properties say what holds
beside them.

- A query over several cliques divides by separators that hold ratios, not
  marginals, after the dense path (`QueryExact` is confined to the rest).
- `GetLogLik` misses the scale of messages on scalar and general links.
- `SetJTreeRootNode` leaves `m_NbrsTypes` stale; the next `EnterEvidenceOMP` on a
  discrete tree never returns.
- Two MPI routes over one link propagate over it twice; a fully observed
  clique sends nothing to a parent on another process, which waits for ever; the
  buffer of a Gaussian ratio is deleted after `MPI_Isend`.
- A factor whose constructor throws after it was attached stays in the heap.
- `SetSubDag` cannot go back over its moves: its loop is never entered, or runs
  below the start of the vector; after a random restart the refusal that leads
  there is possible. A group of one node makes `RandomCreateASubDAG` draw for
  ever.
- An isolated node 0 gets an empty clique.
- In smoothing a query for slice `m_Lag`, one past the last, is answered from slice
  0 instead of being refused: `PNL_CHECK_RANGES` includes its right border, while the
  manual (`pnl_refText.htm:6919`) says that `m_Lag` is the number of slices.
  `SmoothedExact` and `EvidenceExact` are false there and claimed of the slices
  before it; `SliceZeroAnswers` (section 5) says what is answered.
- An MPI process of Pearl's engine without nodes sends an empty bundle of beliefs
  that the main process does not count on; run pearl gives nodes to every process.
- `Prediction` deletes the evidence its tree refers to; `BackwardFixLag`
  dereferences NULL when an interface is observed.

## 5. Proofs

TLC checks small instances; the following is proved for all values of the
constants, with no assumption but the named ones of the modules, which TLC
evaluates on every run. Every inductive invariant was first checked by TLC on
the instance of its component's run.

Where an argument would go by induction over a tree, a queue or a number of
rounds, the proofs take a least counterexample instead: the least number (or
clique) at which the claim fails, from a lemma that every nonempty set of
natural numbers has a least element (`LeastNat` of `JtreeRoot_proofs`).

**Propagation_proofs** — every tree, every number of factors, every sequence of
evidences and messages: `Invariance` (`Spec => []IInv`), `TypeCorrect`,
`FactorsAccountedOnce`, `TreeCalibrated`.

*Assumptions.* `TreeAssumption`: factors have a home clique; `Behind(m, i, j)`,
the cliques whose charge can come through the arc from `i` to `j` when the links
in `m` are scalars, satisfies the recursion along the tree, and the parts
behind different links of a clique are disjoint and do not contain the clique:
this is what being a tree means here.

*Argument.* `AccountedOnce` alone is not inductive: that a division takes out
exactly what went up needs to know what the separator holds. `IInv` adds
`SeparatorHoldsMessage` (between the two messages of a link its separator holds
the first one, `Charge(Behind)`) and `SentInOrder` (who has sent has heard from
all others). The step `PropagateBetweenClqs` then rests on three lemmas: when a
clique sends, it has received everything behind it or both sides
(`ReceivedWhenSending`); the ratio is therefore the charge behind the arc
(`RatioIsMessage`); and that set is disjoint from what the sink has received
(`ReceivedDisjoint`), so that powers add up to one. `Calibrated` follows from
`AccountedOnce` when all arcs have been used.

**JtreeRoot_proofs** — every set of cliques, links between any of them, every
root:
- `LinksFormTree`: the links that `BuildTreeStructure` makes are a tree. What
  lies `Behind` an arc satisfies the recursion along it, and the parts behind
  different links of a clique are disjoint. This is `TreeAssumption` of module
  Propagation, which the engines therefore discharge instead of assuming it.
- `CollectSequenceOrder`: `RebuildTreeFromRoot(r)` lists every clique once, each
  before the one neighbour of it that is on the way to `r` (`Up(r, c)`).
- `NbrsTypesPointUp`: `SetNbrsTypes` finds that neighbour.

*Assumption.* `JunctionTreeAssumption`: there is a clique, cliques are sets of
nodes, and every factor's domain is covered by one.

*Argument.* A clique is connected to one with a smaller number
(`ConnectToEarlier`), so a set of cliques that no link leaves is empty or the
whole (`Connected`), and a link is a bridge: its far side is the set of what was
connected, directly or not, to its later end (`Bridge`). `Up(r, c)` is the
neighbour behind whose arc the root lies; of two neighbours exactly one is `Up`
of the other (`UpOrDown`). The loop keeps an invariant over the queue
(`LookAtUpwards`): listed cliques have all neighbours but `Up` listed before, and
a clique that could follow waits behind one that is still to be looked at; when
the queue has been looked at, a clique that is missing would have a child that is
missing, and so on without end (`UpwardsComplete`).

**JtreeInfEngine_proofs** — every junction tree, every root, every sequence of
calls: `Invariance`, `EngineImplementsPropagation`, `CliquesHoldJoint`
(`EvidencePropagated`), `LogLikExact` (`LogLikExactWhenDense`), and
`CliqueAnswersExact`, the part of `QueryExact` that is about answers from one
clique.

*Assumption.* Beside those about the data, `TriangulationAssumption`: what a clique
shares with an earlier one is in the clique it is connected to. The construction
guarantees it for every graph: it is `LinksFit` in the invariant that
GraphAlgorithms_proofs proves of JtreeBuild. Only `CliqueAnswersExact` uses it.

*Argument.* `IInv` is the invariant of Propagation, instantiated, and what the
control does to it: in the collect phase a prefix of the collect sequence has
been visited and exactly its cliques but the root have sent up (`Collecting`);
in the distribute phase a clique is served when the one above it is out of the
queue, or in front of it and done with the clique (`Distributing`). So when a
clique is to send, `CanSend` of Propagation holds, and one call of
`PropagateBetweenClqs`, along the dense or the general path, is one step of the
abstract specification (`MessageRefines`). `Scaled` follows the scale of a
factor that is in a clique with dense links only: it is in that clique until the
clique is normalised, and then in `m_norm`, once. For the answers: a `Component`
is the least set of cliques that is closed under links which are not scalar
(`ComponentLeast`), so cliques of one component have the same (`ComponentSame`);
the cliques that hold a hidden node lie in one component, by the assumption and
induction along the numbers of the cliques (`HiddenNodeJoins`). Hence what one
clique holds by `CliquesHoldJoint` is all that any node of the query depends on.

**ParJtreeOMP_proofs** — every junction tree, every root and any finite team of
threads: `Invariance`, `TeamImplementsPropagation`, `TeamLeavesJoint`,
`NoDataRace` (`PropagationRaceFree`).

*Assumption.* `TeamAssumption`: the team is a nonempty finite set.

*Argument.* `Gathering` is about `CollectEvidenceOMP_gau`: a clique is in the
queue, or one thread has it, or it has sent up (`Queueing`);
`m_NodeConditions` of a child is 0 until it has sent and 2 when its parent has
counted it, and the parent's counter is the number of the others
(`Signalling`); a thread that sends holds the lock of the clique above, whose
potential is what it has read (`Uploading`). `Distributing` is about
`DistributeEvidenceOMP`: what is in the queue has heard from above, and
`m_NbrsTypes` is right about it even when another root was set since
(`Downloading`); no two threads have claimed the same neighbour (`Claiming`);
the counter is ahead of the messages by the threads that have still to decrement
it, so the team does not stop early (`Counting`). That a sender reads what it
then writes is what makes read and write together one step of Propagation; the
race freedom follows, because two threads that use one clique's potential are
either both downwards readers of it, or would hold one lock, or one claim.

**Dbn_proofs** — any number of slices, any lag: `Invariance`, `SmoothedOnce`
(`SmoothedExact`) and `EvidenceRight` (`EvidenceExact`) of every slice that the
procedure has, `SliceZeroAnswers` of the one query more that is accepted (slice
`m_Lag` in smoothing gets the tree of slice 0), `EvidenceKept` (`EvidenceAlive`) of
all accepted queries.

*Assumption.* `DbnAssumption`: `MaxTime` and `MaxLag` are natural numbers.

*Argument.* `IInv` says of the tree of every slice that is still in the ring what
it has been multiplied with: what comes before it up to an observed interface
(`Past`), and after a backward step what comes after it as well (`Whole`), up to
the last slice the trees have heard from (`TreesOK`); of every separator still in
its ring that it has what passes its interface (`SepsOK`); where the iterators
are (`IteratorsOK`), which evidence is in which cell (`EvidencesOK`), and what
the backward steps of fixed-lag smoothing have to put back (`CopiesOK`).
`Progress` bounds how far the entered slices are ahead of the propagated ones.
The rings have different lengths and their iterators move separately, so a cell
is found by remainders: `RingWrite` says that writing slice `i` into a ring of `n`
cells keeps every slice less than `n` away from it.

**Pearl_proofs** — every model, with or without loops, every evidence, any number of
processes and any division of the nodes between them: `Invariance`, `TypeCorrect`,
`RoundsAlwaysAgree` (`RoundsAgree`), `NothingIsLeft` (`NothingLeft`).

*Assumptions.* `PearlMessagesAssumption`, `PearlAssumption`: there are two nodes or
more and one process or more, and links join nodes.

*Argument.* What is computed at a node depends on the messages to it alone
(`MessageSame`, `BeliefSame`), and what comes into a process's nodes comes from its
own nodes or from those of a partner (`PartnersFacts`). `Step` says what a process
has in a round: before it computes, all messages into its nodes as they were after
the round before; then the messages out of its nodes, and those of every partner
whose bundle it has taken (`Here`). It has still to take as many bundles as are
`Missing`; `Underway` says that a channel holds at most the one bundle of this
round, so the count, and not the source, tells when all have come. When all
processes wait in `MPI_Allreduce` nothing is missing, so nothing is under way, and
all go on alike. `Given` does the same for the shares of the beliefs: each is with
its owner, in the channel, or with the main process, once. The messages after `k`
rounds are a recursive function; that it has a value for every `k` up to `N`
(`RoundFacts`) is proved by the least number without one.

**GraphAlgorithms_proofs, structure learning** — every number of nodes, slices,
types and limits: `LearnInvariance`, `LearnTypeCorrect`, `GraphStaysDAG`, `AncestorMatrixExact`, `ValidMovesExact`, `PriorSliceFits`,
`NodeTypesKeepOrder`.

*Assumptions.* `NodesAssumption` (there is a node), `StructLearnAssumption`: the slices and the types
partition the nodes, and the learned prior graph is acyclic.

*Argument.* That the matrix is exact is not inductive, since it is false while
the queue of descendants is worked off. `DAGInv` says what is true then: every
row contains the true ancestors (`MatrixCovers`); a row that has more belongs to
a node that is in the queue or below one (`StaleBelowQueue`); and the edge that a
reversal has still to add closes no cycle (`ReversalFits`). One round of the
queue makes the row of its head the union of its parents' rows, and puts its
children behind it, so whatever is still stale is still below the queue; with an
empty queue nothing is. That a move is tested by the matrix of before the move,
and that the added edge extends the rows of exactly the descendants, are the lemmas
of its first part; they use that ancestors are the least closed set, instead of
induction over paths. `PriorKept` says that until a
restart no edge leads from the second slice to the first and that while
`SetSubDag` runs the prior slice has only edges of the prior graph. `OrderKept`
says that the edge a reversal of SEM is about to add cannot put a continuous
node above a discrete one (`Harmless`).

**GraphAlgorithms_proofs, construction of the junction tree** — every model, directed or
not, any number of nodes and any wanted subgraphs: `BuildInvariant`,
`BuildTypeCorrect`, `BuildListsCliques` (`CliquesExact`), `BuildCoversDomains`
(`DomainsCovered`), `BuildRunningIntersection` (`RunningIntersection`),
`BuildTriangulatesIfNeeded` (`TriangulatesIfNeeded`).

*Assumptions.* `NodesAssumption` and `JtreeBuildAssumption`: two nodes or more, models
and wanted subgraphs are over these nodes, and a wanted subgraph has two nodes or more.

*Argument.* `NumberingInv` describes a search under way: the order is one of maximum
cardinality (`IsMaxOrder`), the clique under way is the last node with its numbered
neighbours and is complete, and the cliques listed before it are maximal in the whole
graph, differ, and each hangs on an earlier one, which holds all it shares with
earlier ones (`CliquesFit`). Numbered nodes that are joined to one another share a
clique (`Covers`). That the end of a clique can be told from two counts follows: the
next node has one numbered neighbour more than the last had exactly when it joins the
clique, and when it does not, no other node could, so the clique is maximal. A listed
clique is linked to the earlier one that it shares most with, and the one it hangs on
shares most; so every link keeps the cliques of each node together with one link fewer
than there are of them (`LinksFit`). Edges are only ever added, so the domain of every
factor stays complete and lies in a clique (`DomainsComplete`).

That a chordal graph is not refused is about paths without a chord. If the next node
has two numbered neighbours that are not joined, the three are such a path that leaves
the numbered nodes and comes back (`Leaves`). Take the least number of nodes that a
path leaves: one of its ends is the node numbered last, and since that node was chosen
with the most numbered neighbours, it has one that the node after it on the path has not.
From there the path can be rerouted so that it leaves fewer nodes, or it closes to a
cycle without a chord (`PathFrom`, `PathShrinks`, `NoCycle`); so in a chordal graph
there is none (`NeverLeaves`, `FailsForCause`). After an elimination the graph is
chordal because of any set of nodes the first that was eliminated left its neighbours
joined (`EliminationSuffices`).

**GraphAlgorithms_proofs, queries** — every acyclic graph: `QueryInvariant`,
`QueryTypeCorrect`, `OrderPutsParentsFirst` (`ParentsFirst`), `NoConnectionMissed`
(`DConnectionCovers`).

*Assumption.* `NodesAssumption`.

*Argument.* `OrderInv`: the parents of a node that come before the kept position are
all placed, so a node that finds no parent from there on has none left. `ReachInv`
is about an edge once it was met: after its level has passed an end of it, whatever
the pattern lets a walk do there leads to edges that are met as well (`IsExpanded`); the
edges of the last level are still waiting at the nodes that this level has not
been at, and the edges of this level at all. `prev` counts the edges that were unmet
or met in this level, so the loop ends only when a level has met none; then every met
edge is expanded at both ends. A walk that the separator does not block then
never leaves the met edges (`WalkStaysMet`, by the pattern of the node that is
passed: the collider rule at a separator and at its ancestry, the other rule elsewhere),
however long it is (`WalksAreMet`). Acyclicity is used for one thing: no two nodes
are each other's parents (`OneDirection`).

**ModelDomain_proofs** — any domains, any finite set of models, any factors,
any capacity: `DomainInvariance`, `DomainTypeCorrect`, `HeapsSound`,
`FactorsDeletedOnce`, `DomainsOutliveModels`.

*Assumptions.* `DomainAssumption`; that there are finitely many models is needed
to count references.

*Argument.* The three properties support each other: `DeletedOnce` needs the
heap to know its factors, `HeapSound` needs a factor's domain to exist.
`Progress` says what holds in the middle of a call (the new factor of `AddFactor` is on
no list; the copies of a set are the domain's until `ChangeOwnerToGraphicalModel` has
passed them; what `~CFactors` has passed is gone and not owned; the cells
`~CModelDomain` has passed are empty, and nothing else lives on that domain).
`NoModelNoFactors` ties lists to models. Lemmas about one heap and one queue of
numbers (taking a cell, clearing one) carry the sequences, and lemmas about
`Cardinality` the references.

*Only model-checked.*
- `MergeSucceeds` of the sequential engine, and of `QueryExact` what it says of
  answers that are merged from several cliques: the operators fold over the collect
  sequence, potential by potential.
- `ExactIfAllTell` of Pearl's engines, whose reference walks over the graph
  recursively.
- The MPI engine: `FactorsCollected`, `NoMessageLeft` and that it implements
  Propagation. The division of the cliques and the routes are recursive definitions.
- Everything temporal under fairness (all liveness properties), and whatever
  needs ENABLED.
- `TypeOK` of the three engines and of Dbn as they are stated for TLC; the
  invariants above contain the types that the proofs need.

## 6. Not modelled

Numeric components: EM and parameter learning, Gibbs sampling, likelihood weighting
and the particle filter, Boyen-Koller, the factor-graph and naive engines, influence
diagrams, scores, distribution functions, potentials, CPDs and matrices. What
could be wrong there are values of tables, sums and distributions, which the
abstraction to powers does not see and TLC cannot evaluate; their control is a
loop over evidences or samples. `SpecPearl` repeats Pearl's protocol for grids.

No protocol state: persistence, context and XML (text from objects in one pass),
log, exceptions, memory tracking, evidence and value containers, the
high-level API and the wrappers for other languages.

Third party or generated: `cxcore`, `cvcart`, `trs`, build files, documentation.
These parts make up by far the most of the repository's lines, which is why the
share of lines that `map` names is small.

Within the modelled components: numeric content, rounding and underflow,
`EnterEvidenceProbability`, mixtures of Gaussians, SoftMax nodes and the node
types they change in the shared domain, unit and delta functions of Gaussians,
`Copy` and `Release` of engines, the locks of the OpenMP build of `ModelDomain`,
Pearl's tree protocol (never the default), `TopologicalCreateDAG`,
`SymmetricDifference` and dumps. `AssignFactorsToClqOMP` behaves like
`AssignFactorsToClq` on triangulated trees; `ClearChargeOMP` is dead code.

## 7. Plan

Done, in this order: Propagation with its proofs (the most important behaviour
and what all engines share), JunctionTree and JtreeRoot, the three junction tree
engines; then ModelDomain, DAG and StructLearn with their proofs, JtreeBuild,
Graph, Pearl and Dbn; then the proofs about the rooted tree, the sequential and
the OpenMP engine, Dbn and Pearl's engines, and last those about JtreeBuild and
Graph.

What remains worth doing:
1. Proofs: `QueryExact` for merged answers and `MergeSucceeds`; that any number of MPI processes
   implement Propagation and leave no message.
2. Node types of `ModelDomain` and the copies that the OpenMP build keeps per
   thread, with the engines that change them.
3. The tree protocol of Pearl's engine, and the grids of `SpecPearl`.
4. Division of evidences and of nodes in ParEM and ParGibbs, should an
   abstraction of their sums be found that a wrong division would show in.
