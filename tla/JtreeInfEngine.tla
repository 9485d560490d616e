---------------------------- MODULE JtreeInfEngine ----------------------------
(***************************************************************************)
(* CJtreeInfEngine (pnlJtreeInferenceEngine.cpp), the sequential junction  *)
(* tree engine, as its callers use it through CInfEngine: EnterEvidence    *)
(* runs ShrinkObserved, CollectEvidence and DistributeEvidence to their    *)
(* end; between two calls the root may be moved and queries asked.         *)
(*                                                                         *)
(* One step is one message of the propagation or one API call.  Besides    *)
(* the powers of the factors in every potential the module follows where   *)
(* the scale of every factor goes, because GetLogLik reports the scale     *)
(* that normalisation has taken out of the potentials.                     *)
(***************************************************************************)
EXTENDS JtreeRoot

CONSTANTS
  Evidence,      \* sets of nodes that evidence may observe
  Query,         \* sets of nodes that MarginalNodes may be asked for
  MaximizeFlag   \* values of the argument maximize

ASSUME EngineAssumption ==
  /\ Evidence \subseteq SUBSET Node
  /\ \A e \in Evidence : IsValidEvidence(e)
  /\ Query \subseteq (SUBSET Node) \ {{}}
  /\ MaximizeFlag \subseteq BOOLEAN

\* The cliques are those of a triangulated graph, in the order of the search: what one
\* shares with an earlier clique is in the clique it is connected to (JtreeBuild).
ASSUME TriangulationAssumption ==
  \A c \in 1 .. NumberOfClqs - 1 : \A d \in 0 .. c - 1 :
    NodeContent[c] \cap NodeContent[d] \subseteq NodeContent[ConnectTo[c]]

VARIABLES
  obs,              \* m_actuallyObsNodes
  maximize,         \* m_bMaximize
  clq,              \* m_pJTree->m_nodePots
  sep,              \* m_pJTree->m_separatorPots
  scale,            \* the scale left in every clique potential
  norm,             \* m_norm: NotCollected (-1) or the scale taken out so far
  root,             \* m_JTreeRootNode
  collectSequence,  \* m_collectSequence, its layers joined
  pc,               \* which member function is running
  rest,             \* what CollectEvidence has still to visit
  sent,             \* nodesSentMessages
  source,           \* the queue of DistributeEvidence
  nbrs,             \* neighbours of its front still to be visited
  jpd, mpe,         \* m_pQueryJPD and m_pPotMPE
  got               \* arcs propagated along since ShrinkObserved (history)

tree == <<obs, maximize, root, collectSequence>>
pots == <<clq, sep, scale, norm, got>>
answers == <<jpd, mpe>>
control == <<pc, rest, sent, source, nbrs>>
vars == <<tree, pots, answers, control>>

NotCollected == [f \in Factor |-> -1]
NoQuery == {}
NoPot == [query |-> NoQuery, obs |-> {}, max |-> FALSE, pot |-> Unit]

Init ==
  /\ obs = Node
  /\ maximize = FALSE
  /\ clq = [c \in Clq |-> Unit]
  /\ sep = [l \in Link |-> Unit]
  /\ scale = [c \in Clq |-> Unit]
  /\ norm = NotCollected
  /\ root = 0
  /\ collectSequence = RebuildTreeFromRoot(0)
  /\ pc = "created"
  /\ rest = <<>> /\ sent = {} /\ source = <<>> /\ nbrs = {}
  /\ jpd = NoPot /\ mpe = NoPot
  /\ got = {}

Idle == pc \in {"created", "done"}

SetJTreeRootNode(r) ==
  /\ Idle
  /\ r # root
  /\ root' = r
  /\ collectSequence' = RebuildTreeFromRoot(r)
  /\ UNCHANGED <<obs, maximize, pots, answers, control>>

\* EnterEvidence: ShrinkObserved, and the first statements of CollectEvidence
EnterEvidence(e, mx) ==
  /\ Idle
  /\ obs' = e
  /\ maximize' = mx
  /\ clq' = [c \in Clq |-> InitNodePot(c, e)]
  /\ scale' = [c \in Clq |-> InitNodePot(c, e)]
  /\ sep' = [l \in Link |-> Unit]
  /\ norm' = Unit
  /\ got' = {}
  /\ pc' = "collect"
  /\ rest' = collectSequence
  /\ sent' = {}
  /\ UNCHANGED <<root, collectSequence, source, nbrs, answers>>

(***************************************************************************)
(* PropagateBetweenClqs.  The dense path (GetDataForMargAndMult and        *)
(* DoPropagate) ignores the old separator while collecting, leaves the     *)
(* ratio in it while distributing and accounts for the scale it takes out  *)
(* while collecting.  It does nothing but normalise the sink when the      *)
(* source is a unit function or the separator a scalar.  The general path  *)
(* leaves the marginal in the separator and never accounts for the scale.  *)
(***************************************************************************)
\* mutant: only the scale of the sink is accounted for
MutNormOfSink(i, j, isCollect) ==
  LET message == IF isCollect THEN clq[i] ELSE Over(clq[i], sep[{i, j}])
  IN  /\ sep' = [sep EXCEPT ![{i, j}] = message]
      /\ clq' = [clq EXCEPT ![j] = Times(clq[j], message)]
      /\ norm' = IF isCollect THEN Times(norm, scale[j]) ELSE norm

DoPropagate(i, j, isCollect) ==
  LET l == {i, j}
      message == IF isCollect THEN clq[i] ELSE Over(clq[i], sep[l])
  IN  /\ sep' = [sep EXCEPT ![l] = message]
      /\ clq' = [clq EXCEPT ![j] = Times(clq[j], message)]
      /\ norm' = IF isCollect THEN Times(norm, Times(scale[i], scale[j])) ELSE norm

\* mutant: the old separator is replaced before it is divided by
MutSeparatorFirst(i, j) ==
  /\ sep' = [sep EXCEPT ![{i, j}] = clq[i]]
  /\ UNCHANGED <<clq, norm>>

PropagateGeneral(i, j) ==
  LET l == {i, j}
  IN  /\ sep' = [sep EXCEPT ![l] = clq[i]]
      /\ clq' = [clq EXCEPT ![j] = Times(clq[j], Over(clq[i], sep[l]))]
      /\ UNCHANGED norm

IsDensePath(l) == IsDense(l, obs) /\ ~ maximize

PropagateBetweenClqs(i, j, isCollect) ==
  LET l == {i, j}
      nothing == IsScalar(l, obs) \/ (IsDensePath(l) /\ clq[i] = Unit)
  IN  /\ \/ nothing /\ UNCHANGED <<sep, clq, norm>>
         \/ ~ nothing /\ IsDensePath(l) /\ DoPropagate(i, j, isCollect)
         \/ ~ nothing /\ ~ IsDensePath(l) /\ PropagateGeneral(i, j)
      /\ scale' = [scale EXCEPT ![j] = Unit]    \* the sink is always normalised
      /\ got' = got \cup {<<i, j>>}

\* one clique of the collect sequence: to its first neighbour that has not sent
CollectEvidence ==
  /\ pc = "collect"
  /\ rest # <<>>
  /\ LET i == Head(rest)
         targets == Nbrs(i) \ sent
     IN  /\ IF targets = {} THEN UNCHANGED pots
            ELSE PropagateBetweenClqs(i, Min(targets), TRUE)
         /\ sent' = sent \cup {i}
  /\ rest' = Tail(rest)
  /\ UNCHANGED <<tree, answers, pc, source, nbrs>>

StartDistribute ==
  /\ pc = "collect"
  /\ rest = <<>>
  /\ pc' = "distribute"
  /\ sent' = {}
  /\ source' = <<root>>
  /\ nbrs' = Nbrs(root)
  /\ UNCHANGED <<tree, pots, answers, rest>>

\* mutant: a neighbour that has sent stops the loop over the neighbours
MutStuckAtSender ==
  /\ pc = "distribute"
  /\ nbrs # {}
  /\ LET j == Min(nbrs)
     IN  IF j \in sent THEN UNCHANGED <<pots, source, nbrs>>
         ELSE /\ PropagateBetweenClqs(Head(source), j, FALSE)
              /\ source' = IF Cardinality(Nbrs(j)) > 1 THEN Append(source, j) ELSE source
              /\ nbrs' = nbrs \ {j}
  /\ UNCHANGED <<tree, answers, pc, rest, sent>>

\* one neighbour of the clique at the front of the queue
DistributeEvidence ==
  /\ pc = "distribute"
  /\ nbrs # {}
  /\ LET j == Min(nbrs)
     IN  /\ IF j \in sent THEN UNCHANGED <<pots, source>>
            ELSE /\ PropagateBetweenClqs(Head(source), j, FALSE)
                 /\ source' = IF Cardinality(Nbrs(j)) > 1 THEN Append(source, j) ELSE source
         /\ nbrs' = nbrs \ {j}
  /\ UNCHANGED <<tree, answers, pc, rest, sent>>

PopSource ==
  /\ pc = "distribute"
  /\ nbrs = {}
  /\ source # <<>>
  /\ sent' = sent \cup {Head(source)}
  /\ source' = Tail(source)
  /\ nbrs' = IF Tail(source) = <<>> THEN {} ELSE Nbrs(Head(Tail(source)))
  /\ UNCHANGED <<tree, pots, answers, pc, rest>>

FinishEvidence ==
  /\ pc = "distribute"
  /\ source = <<>>
  /\ pc' = "done"
  /\ UNCHANGED <<tree, pots, answers, rest, sent, source, nbrs>>

(***************************************************************************)
(* MarginalNodes.  A query inside a clique is answered from the potential  *)
(* of the root if the root contains it and of the first such clique        *)
(* otherwise; any other query from the product of the cliques that the     *)
(* query cannot do without, divided by their separators.                   *)
(***************************************************************************)
GetClqNumsContainingSubset(q) == {c \in Clq : q \subseteq NodeContent[c]}

AnsweringClq(q) ==
  LET C == GetClqNumsContainingSubset(q) IN IF root \in C THEN root ELSE Min(C)

\* ShrinkJTreeCliques: the cliques that stay, m_NodesAfterShrink
ShrinkJTreeCliques(q) ==
  FoldLeft(
    LAMBDA s, i :
      LET targets == Nbrs(i) \ s.sent
          trimmed == /\ targets # {}
                     /\ (Nbrs(i) \ {Min(targets)}) \cap s.kept = {}
                     /\ NodeContent[i] \cap q \subseteq Separator({i, Min(targets)})
      IN  [sent |-> s.sent \cup {i},
           kept |-> IF trimmed THEN s.kept \ {i} ELSE s.kept],
    [sent |-> {}, kept |-> Clq], collectSequence).kept

\* mutant: the separators to the remaining neighbours are forgotten
MutSeparatorsOnly(q, c, kept) == UNION {Separator({c, d}) : d \in Nbrs(c) \cap kept}

\* the domain that is kept of a clique's potential: the query, and what it
\* shares with the neighbours that are still there
UsefulDomain(q, c, kept) ==
  q \cup UNION {Separator({c, d}) : d \in Nbrs(c) \cap kept}

\* mutant: what two cliques share is counted in both
MutMergeUndivided(p, q, l) == Times(p, q)

MergeOverSeparator(p, q, l) == Over(Times(p, q), sep[l])

\* MergeCliques: the merged potential, if one covers the query (else PNL_THROW)
MergeCliques(q) ==
  LET Merge(s, i, j) ==
        LET bigPot == MergeOverSeparator(s.pot[j], s.pot[i], {i, j})
            kept == s.kept \ {i}
            dom == (s.dom[i] \cup s.dom[j]) \cap UsefulDomain(q, j, kept)
        IN  [kept |-> kept, sent |-> s.sent,
             pot |-> [s.pot EXCEPT ![j] = bigPot],
             dom |-> [s.dom EXCEPT ![j] = dom],
             ret |-> IF q \subseteq dom THEN {bigPot} ELSE {}]
      Visit(s, i) ==
        IF s.ret # {} \/ i \notin s.kept THEN s
        ELSE LET t == FoldLeft(LAMBDA u, j :
                        IF u.ret = {} /\ j \in u.kept \ u.sent THEN Merge(u, i, j) ELSE u,
                        s, SetToSortSeq(Nbrs(i), <))
             IN  [t EXCEPT !.sent = @ \cup {i}]
      stay == ShrinkJTreeCliques(q)
  IN  FoldLeft(Visit,
        [kept |-> stay, sent |-> {}, pot |-> clq,
         dom |-> [c \in Clq |-> NodeContent[c] \cap UsefulDomain(q, c, stay)],
         ret |-> {}], collectSequence).ret

Answer(q, p) == [query |-> q, obs |-> obs, max |-> maximize, pot |-> p]

\* MarginalizeCliqueToQuery cannot expand an observed node of the other kind
IsExpandAllowed(q, c) ==
  LET hidden == NodeContent[c] \ obs
  IN  hidden # {} =>
        q \cap obs \subseteq (IF hidden \subseteq DiscreteNode THEN DiscreteNode
                                                            ELSE Node \ DiscreteNode)

MarginalizeCliqueToQuery(q, notExpandJPD) ==
  /\ pc = "done"
  /\ GetClqNumsContainingSubset(q) # {}
  /\ LET c == AnsweringClq(q)
         throws == ~ notExpandJPD /\ ~ IsExpandAllowed(q, c)
     IN  /\ jpd' = IF throws \/ maximize THEN NoPot ELSE Answer(q, clq[c])
         /\ mpe' = IF throws \/ ~ maximize THEN NoPot ELSE Answer(q, clq[c])
  /\ UNCHANGED <<tree, pots, control>>

\* the branch for all other queries: m_pPotMPE is left as it is
MarginalizeMergedCliques(q) ==
  /\ pc = "done"
  /\ GetClqNumsContainingSubset(q) = {}
  /\ LET ret == MergeCliques(q)
     IN  jpd' = IF ret = {} THEN NoPot ELSE Answer(q, CHOOSE p \in ret : TRUE)
  /\ UNCHANGED <<tree, pots, mpe, control>>

MarginalNodes(q) ==
  \/ \E notExpandJPD \in BOOLEAN : MarginalizeCliqueToQuery(q, notExpandJPD)
  \/ MarginalizeMergedCliques(q)

Propagate == CollectEvidence \/ StartDistribute \/ DistributeEvidence \/ PopSource \/ FinishEvidence

Next ==
  \/ \E r \in Clq : SetJTreeRootNode(r)
  \/ \E e \in Evidence, mx \in MaximizeFlag : EnterEvidence(e, mx)
  \/ Propagate
  \/ \E q \in Query : MarginalNodes(q)

Spec == Init /\ [][Next]_vars /\ WF_vars(Propagate)

-------------------------------------------------------------------------------
TypeOK ==
  /\ obs \subseteq Node /\ maximize \in BOOLEAN
  /\ clq \in [Clq -> Potential] /\ sep \in [Link -> Potential]
  /\ scale \in [Clq -> Potential] /\ norm \in Potential
  /\ root \in Clq /\ collectSequence \in Seq(Clq)
  /\ pc \in {"created", "collect", "distribute", "done"}
  /\ rest \in Seq(Clq) /\ sent \subseteq Clq /\ source \in Seq(Clq) /\ nbrs \subseteq Clq
  /\ \A a \in {jpd, mpe} \ {NoPot} : a.query \in Query /\ a.pot \in Potential
  /\ got \subseteq Arc

(***************************************************************************)
(* The engine sends every message of the propagation when it is due, once, *)
(* and the division by the separator takes out exactly what went up: the   *)
(* order of RebuildTreeFromRoot, the choice of the first neighbour that    *)
(* has not sent (CollectEvidence) and the queue of DistributeEvidence      *)
(* together implement Propagation for every root and every evidence.       *)
(***************************************************************************)
P == INSTANCE Propagation WITH
       Home <- [f \in Factor |-> FactAssignToClq(f)],
       live <- LiveFactors(obs), mute <- ScalarLinks(obs)

ImplementsPropagation == P!Init /\ [][P!Next]_P!vars

(***************************************************************************)
(* When EnterEvidence returns every clique holds the joint distribution:   *)
(* each factor that can reach it past scalar separators, with power one.   *)
(***************************************************************************)
EvidencePropagated ==
  pc = "done" =>
    \A c \in Clq : clq[c] = JointPotential(c, obs)

\* A call of EnterEvidence returns.
EnterEvidenceReturns == (pc = "collect") ~> (pc = "done")

(***************************************************************************)
(* An answer is the joint distribution of the query: no factor enters it   *)
(* more than once, and every factor that is not cut off from the hidden    *)
(* nodes of the query by the evidence enters it.                           *)
(***************************************************************************)
IsJointDistribution(a) ==
  \A f \in LiveFactors(a.obs) :
    /\ a.pot[f] \in {0, 1}
    /\ (\E c \in Clq : /\ (NodeContent[c] \cap a.query) \ a.obs # {}
                       /\ FactAssignToClq(f) \in Component(c, a.obs))
         => a.pot[f] = 1

(***************************************************************************)
(* Answers from one clique are joint distributions, and so are the merged  *)
(* ones when no separator on the way was left with the ratio of the dense  *)
(* path.                                                                   *)
(***************************************************************************)
QueryExact ==
  /\ mpe # NoPot => IsJointDistribution(mpe)
  /\ jpd # NoPot =>
       \/ IsJointDistribution(jpd)
       \/ /\ GetClqNumsContainingSubset(jpd.query) = {}
          /\ ~ jpd.max
          /\ \E l \in Link : IsDense(l, jpd.obs) /\ ~ IsScalar(l, jpd.obs)

\* A query that spans several cliques finds its merged potential: the PNL_THROW
\* at the end of MergeCliques is never reached.
MergeSucceeds ==
  pc = "done" =>
    \A q \in Query : GetClqNumsContainingSubset(q) = {} => MergeCliques(q) # {}

(***************************************************************************)
(* GetLogLik reports the logarithm of m_norm, and adds the factors that    *)
(* are observed as a whole itself: the likelihood of the evidence is the   *)
(* scale of all live factors.                                              *)
(***************************************************************************)
Likelihood == [f \in Factor |-> IF f \in LiveFactors(obs) THEN 1 ELSE 0]

\* It is so for a factor when every message of the collect phase that enters or
\* leaves its clique takes the dense path and brings something.
SentDensely(c) ==
  /\ Nbrs(c) # {} /\ InitNodePot(c, obs) # Unit
  /\ \A k \in Nbrs(c) : /\ IsDensePath({c, k}) /\ ~ IsScalar({c, k}, obs)
                        /\ InitNodePot(k, obs) # Unit

LogLikExactWhenDense ==
  pc = "done" =>
    \A f \in Factor : SentDensely(FactAssignToClq(f)) => norm[f] = Likelihood[f]

===============================================================================
