------------------------------ MODULE ParJtreeOMP ------------------------------
(***************************************************************************)
(* CParJtreeInfEngine::EnterEvidenceOMP (pnlParJtreeInferenceEngine.cpp):  *)
(* the junction tree engine with a team of OpenMP threads.                 *)
(*                                                                         *)
(* A discrete tree is collected by the master thread, message by message   *)
(* (CollectEvidenceOMP); a Gaussian tree by all threads from the queue     *)
(* m_QueueNodes (CollectEvidenceOMP_gau).  Both are distributed by all     *)
(* threads from the queue source (DistributeEvidenceOMP).  A parallel      *)
(* section ends when all threads have left its loop.                       *)
(*                                                                         *)
(* A step of a thread is one critical section or one access to a shared    *)
(* variable outside of any.  PropagateBetweenClqs runs outside of          *)
(* queue_lock, find_zero_lock and count_lock, in two steps: what it reads  *)
(* of source and sink, and what it writes.                                 *)
(***************************************************************************)
EXTENDS JtreeRoot

CONSTANTS
  Thread,      \* the team
  Evidence,    \* sets of nodes that evidence may observe
  NewRoot      \* cliques that the user may make the root

Free == "free"

ASSUME TeamAssumption ==
  /\ Thread # {} /\ IsFiniteSet(Thread) /\ Free \notin Thread
  /\ Evidence \subseteq SUBSET Node
  /\ \A e \in Evidence : IsValidEvidence(e)
  /\ NewRoot \subseteq Clq

VARIABLES
  obs, clq, sep,     \* evidence, m_nodePots, m_separatorPots
  root, collectSequence,
  nbrsTypes,         \* m_NbrsTypes: the parent of every clique
  phase,             \* what the master thread is doing
  rest,              \* what CollectEvidenceOMP has still to visit
  queue,             \* m_QueueNodes
  source,            \* the queue of DistributeEvidenceOMP
  cond,              \* m_NodeConditions of every arc: 0, 1 or 2
  left,              \* the last entry of m_NodeConditions: children to deal with
  count, isEndPar,
  parentsLock,       \* who holds parents_lock[c]
  pc,                \* where a thread is
  node,              \* its sender or currNode
  todo,              \* the neighbours of node it has still to visit
  msg,               \* what it has read of source and sink
  got                \* arcs propagated along since ShrinkObservedOMP (history)

tree == <<obs, root, collectSequence, nbrsTypes>>
pots == <<clq, sep, got>>
shared == <<queue, source, cond, left, count, isEndPar, parentsLock>>
local == <<pc, node, todo, msg>>
vars == <<tree, pots, shared, local, phase, rest>>

NoMsg == [source |-> Unit, sink |-> Unit]
AllOut == \A t \in Thread : pc[t] = "out"
Idle == phase \in {"idle", "thrown"}

InitNodeConditions ==
  /\ cond' = [a \in Arc |-> 0]
  /\ left' = [c \in Clq |-> NumOfChildren(c, root)]

Init ==
  /\ obs = Node
  /\ clq = [c \in Clq |-> Unit] /\ sep = [l \in Link |-> Unit] /\ got = {}
  /\ root = 0
  /\ collectSequence = RebuildTreeFromRoot(0)
  /\ nbrsTypes = NbrsTypes(RebuildTreeFromRoot(0))
  /\ phase = "idle" /\ rest = <<>>
  /\ queue = <<>> /\ source = <<>>
  /\ cond = [a \in Arc |-> 0] /\ left = [c \in Clq |-> 0]
  /\ count = 0 /\ isEndPar = FALSE
  /\ parentsLock = [c \in Clq |-> Free]
  /\ pc = [t \in Thread |-> "out"]
  /\ node = [t \in Thread |-> 0] /\ todo = [t \in Thread |-> {}]
  /\ msg = [t \in Thread |-> NoMsg]

\* inherited from CJtreeInfEngine: m_NbrsTypes is left as it is
SetJTreeRootNode(r) ==
  /\ Idle
  /\ r # root
  /\ root' = r
  /\ collectSequence' = RebuildTreeFromRoot(r)
  /\ UNCHANGED <<obs, nbrsTypes, pots, shared, local, phase, rest>>

-------------------------------------------------------------------------------
(***************************************************************************)
(* The master thread: EnterEvidenceOMP.                                    *)
(***************************************************************************)

ShrinkObservedOMP(e) ==
  /\ obs' = e
  /\ clq' = [c \in Clq |-> InitNodePot(c, e)]
  /\ sep' = [l \in Link |-> Unit]
  /\ got' = {}

EnterTabular(e) ==
  /\ JTreeType(e) = "dtTabular"
  /\ phase' = "CollectEvidenceOMP"
  /\ rest' = collectSequence
  /\ UNCHANGED <<nbrsTypes, shared, local>>

\* CollectEvidenceOMP_gau up to its parallel section
EnterGaussian(e) ==
  /\ JTreeType(e) = "dtGaussian"
  /\ phase' = "CollectEvidenceOMP_gau"
  /\ queue' = queue \o collectSequence
  /\ InitNodeConditions
  /\ nbrsTypes' = NbrsTypes(collectSequence)
  /\ pc' = [t \in Thread |-> "test"]
  /\ UNCHANGED <<rest, source, count, isEndPar, parentsLock, node, todo, msg>>

EnterScalar(e) ==
  /\ JTreeType(e) = "dtScalar"
  /\ phase' = "idle"
  /\ UNCHANGED <<nbrsTypes, shared, local, rest>>

EnterEvidenceOMP(e) ==
  /\ Idle
  /\ ShrinkObservedOMP(e)
  /\ EnterTabular(e) \/ EnterGaussian(e) \/ EnterScalar(e)
  /\ UNCHANGED <<root, collectSequence>>

\* what PropagateBetweenClqs leaves in separator and sink
Write(i, j, isCollect, src, sink) ==
  LET l == {i, j}
      ratio == Over(src, sep[l])
      dense == IF isCollect THEN src ELSE ratio
  IN  /\ got' = got \cup {<<i, j>>}
      /\ \/ /\ IsScalar(l, obs) \/ (IsDense(l, obs) /\ src = Unit)
            /\ UNCHANGED <<clq, sep>>
         \/ /\ ~ IsScalar(l, obs) /\ IsDense(l, obs) /\ src # Unit
            /\ clq' = [clq EXCEPT ![j] = Times(sink, dense)]
            /\ sep' = [sep EXCEPT ![l] = dense]
         \/ /\ ~ IsScalar(l, obs) /\ ~ IsDense(l, obs)
            /\ clq' = [clq EXCEPT ![j] = Times(sink, ratio)]
            /\ sep' = [sep EXCEPT ![l] = src]

\* one clique of the sequence; PropagateBetweenClqsOMP knows dense cliques only
CollectEvidenceOMP ==
  /\ phase = "CollectEvidenceOMP"
  /\ rest # <<>>
  /\ LET i == Head(rest)
         sent == {collectSequence[n] : n \in 1 .. NumberOfClqs - Len(rest)}
         targets == Nbrs(i) \ sent
         j == Min(targets)
     IN  \/ /\ targets = {}
            /\ UNCHANGED <<pots, phase>>
         \/ /\ targets # {} /\ IsDense({i, j}, obs)
            /\ Write(i, j, TRUE, clq[i], clq[j])
            /\ UNCHANGED phase
         \/ /\ targets # {} /\ ~ IsDense({i, j}, obs)
            /\ phase' = "thrown"
            /\ UNCHANGED pots
  /\ rest' = Tail(rest)
  /\ UNCHANGED <<tree, shared, local>>

\* the end of either collect phase, DistributeEvidenceOMP up to its parallel section
StartDistribute ==
  /\ \/ phase = "CollectEvidenceOMP" /\ rest = <<>>
     \/ phase = "CollectEvidenceOMP_gau" /\ AllOut
  /\ phase' = "DistributeEvidenceOMP"
  /\ source' = <<root>>
  /\ count' = NumberOfClqs - 1
  /\ isEndPar' = FALSE
  /\ InitNodeConditions
  /\ pc' = [t \in Thread |-> "loop"]
  /\ UNCHANGED <<tree, pots, queue, parentsLock, node, todo, msg, rest>>

\* the queue source is a local variable of DistributeEvidenceOMP
FinishEvidence ==
  /\ phase = "DistributeEvidenceOMP"
  /\ AllOut
  /\ phase' = "idle"
  /\ source' = <<>>
  /\ UNCHANGED <<tree, pots, queue, cond, left, count, isEndPar, parentsLock, local, rest>>

Master == CollectEvidenceOMP \/ StartDistribute \/ FinishEvidence

-------------------------------------------------------------------------------
\* the neighbour that a thread is at: it goes through them in ascending order
Sink(t) == Min(todo[t])

Goto(t, where) == pc' = [pc EXCEPT ![t] = where]

\* PropagateBetweenClqs(i, j): what it reads
Read(t, i, j, next) ==
  /\ msg' = [msg EXCEPT ![t] = [source |-> clq[i], sink |-> clq[j]]]
  /\ Goto(t, next)
  /\ UNCHANGED <<tree, pots, shared, node, todo, phase, rest>>

(***************************************************************************)
(* A thread in CollectEvidenceOMP_gau.                                     *)
(***************************************************************************)
\* while( !m_QueueNodes.empty() ), without a lock
TestQueue(t) ==
  /\ pc[t] = "test"
  /\ Goto(t, IF queue = <<>> THEN "out" ELSE "take")
  /\ UNCHANGED <<tree, pots, shared, node, todo, msg, phase, rest>>

TakeNode(t) ==
  /\ pc[t] = "take"
  /\ IF queue = <<>>
     THEN Goto(t, "test") /\ UNCHANGED <<queue, node>>
     ELSE /\ node' = [node EXCEPT ![t] = Head(queue)]
          /\ queue' = Tail(queue)
          /\ Goto(t, "check")
  /\ UNCHANGED <<tree, pots, source, cond, left, count, isEndPar, parentsLock,
                 todo, msg, phase, rest>>

\* mutant: a clique sends when one child has still to report
MutCheckEarly(t) ==
  /\ pc[t] = "check"
  /\ \/ left[node[t]] <= 1 /\ node[t] # root /\ Goto(t, "lock") /\ UNCHANGED todo
     \/ left[node[t]] <= 1 /\ node[t] = root /\ Goto(t, "test") /\ UNCHANGED todo
     \/ left[node[t]] > 1 /\ Goto(t, "scan") /\ todo' = [todo EXCEPT ![t] = Nbrs(node[t])]
  /\ UNCHANGED <<tree, pots, shared, node, msg, phase, rest>>

\* the test of m_NodeConditions, without a lock
CheckNode(t) ==
  /\ pc[t] = "check"
  /\ \/ left[node[t]] = 0 /\ node[t] # root /\ Goto(t, "lock") /\ UNCHANGED todo
     \/ left[node[t]] = 0 /\ node[t] = root /\ Goto(t, "test") /\ UNCHANGED todo
     \/ left[node[t]] # 0 /\ Goto(t, "scan") /\ todo' = [todo EXCEPT ![t] = Nbrs(node[t])]
  /\ UNCHANGED <<tree, pots, shared, node, msg, phase, rest>>

\* mutant: parents_lock is taken for the child, not for the parent
MutLockChild(t) ==
  /\ pc[t] = "lock"
  /\ Goto(t, "read up")
  /\ UNCHANGED <<tree, pots, shared, node, todo, msg, phase, rest>>

LockParent(t) ==
  /\ pc[t] = "lock"
  /\ parentsLock[nbrsTypes[node[t]]] = Free
  /\ parentsLock' = [parentsLock EXCEPT ![nbrsTypes[node[t]]] = t]
  /\ Goto(t, "read up")
  /\ UNCHANGED <<tree, pots, queue, source, cond, left, count, isEndPar,
                 node, todo, msg, phase, rest>>

ReadUp(t) ==
  /\ pc[t] = "read up"
  /\ Read(t, node[t], nbrsTypes[node[t]], "write up")

WriteUp(t) ==
  /\ pc[t] = "write up"
  /\ LET p == nbrsTypes[node[t]]
     IN  /\ Write(node[t], p, TRUE, msg[t].source, msg[t].sink)
         /\ parentsLock' = [parentsLock EXCEPT ![p] = Free]
  /\ Goto(t, "signal")
  /\ UNCHANGED <<tree, queue, source, cond, left, count, isEndPar, node, todo, msg, phase, rest>>

\* mutant: the entry of the parent in the child is set instead
MutSignalChild(t) ==
  /\ pc[t] = "signal"
  /\ cond' = [cond EXCEPT ![<<node[t], nbrsTypes[node[t]]>>] = 1]
  /\ Goto(t, "test")
  /\ UNCHANGED <<tree, pots, queue, source, left, count, isEndPar, parentsLock,
                 node, todo, msg, phase, rest>>

\* the parent is told, without a lock
SignalParent(t) ==
  /\ pc[t] = "signal"
  /\ cond' = [cond EXCEPT ![<<nbrsTypes[node[t]], node[t]>>] = 1]
  /\ Goto(t, "test")
  /\ UNCHANGED <<tree, pots, queue, source, left, count, isEndPar, parentsLock,
                 node, todo, msg, phase, rest>>

ScanCondition(t) ==
  /\ pc[t] = "scan"
  /\ todo[t] # {}
  /\ LET a == <<node[t], Sink(t)>>
     IN  IF cond[a] = 1
         THEN /\ cond' = [cond EXCEPT ![a] = 2]
              /\ left' = [left EXCEPT ![node[t]] = @ - 1]
         ELSE UNCHANGED <<cond, left>>
  /\ todo' = [todo EXCEPT ![t] = @ \ {Sink(t)}]
  /\ UNCHANGED <<tree, pots, queue, source, count, isEndPar, parentsLock,
                 pc, node, msg, phase, rest>>

RequeueNode(t) ==
  /\ pc[t] = "scan"
  /\ todo[t] = {}
  /\ queue' = Append(queue, node[t])
  /\ Goto(t, "test")
  /\ UNCHANGED <<tree, pots, source, cond, left, count, isEndPar, parentsLock,
                 node, todo, msg, phase, rest>>

CollectStep(t) ==
  \/ TestQueue(t) \/ TakeNode(t) \/ CheckNode(t) \/ LockParent(t) \/ ReadUp(t)
  \/ WriteUp(t) \/ SignalParent(t) \/ ScanCondition(t) \/ RequeueNode(t)

(***************************************************************************)
(* A thread in DistributeEvidenceOMP.                                      *)
(***************************************************************************)
\* while( IsEndPar == 0 ), without a lock
TestEndPar(t) ==
  /\ pc[t] = "loop"
  /\ Goto(t, IF isEndPar THEN "out" ELSE "front")
  /\ UNCHANGED <<tree, pots, shared, node, todo, msg, phase, rest>>

\* the front of the queue stays where it is: other threads may help with it
TakeFront(t) ==
  /\ pc[t] = "front"
  /\ IF source = <<>>
     THEN Goto(t, "loop") /\ UNCHANGED <<node, todo>>
     ELSE /\ node' = [node EXCEPT ![t] = Head(source)]
          /\ todo' = [todo EXCEPT ![t] = Nbrs(Head(source))]
          /\ Goto(t, "nbrs")
  /\ UNCHANGED <<tree, pots, shared, msg, phase, rest>>

SkipNbr(t) ==
  /\ pc[t] = "nbrs"
  /\ todo[t] # {}
  /\ Sink(t) = nbrsTypes[node[t]] \/ cond[<<node[t], Sink(t)>>] # 0
  /\ todo' = [todo EXCEPT ![t] = @ \ {Sink(t)}]
  /\ UNCHANGED <<tree, pots, shared, pc, node, msg, phase, rest>>

\* mutant: the claim does not look whether another thread was first
MutClaimAgain(t) ==
  /\ pc[t] = "nbrs"
  /\ todo[t] # {}
  /\ Sink(t) # nbrsTypes[node[t]]
  /\ cond' = [cond EXCEPT ![<<node[t], Sink(t)>>] = 1]
  /\ left' = [left EXCEPT ![node[t]] = @ - 1]
  /\ Goto(t, "read down")
  /\ UNCHANGED <<tree, pots, queue, source, count, isEndPar, parentsLock,
                 node, todo, msg, phase, rest>>

\* test and claim in one critical section of find_zero_lock
ClaimNbr(t) ==
  /\ pc[t] = "nbrs"
  /\ todo[t] # {}
  /\ Sink(t) # nbrsTypes[node[t]]
  /\ cond[<<node[t], Sink(t)>>] = 0
  /\ cond' = [cond EXCEPT ![<<node[t], Sink(t)>>] = 1]
  /\ left' = [left EXCEPT ![node[t]] = @ - 1]
  /\ Goto(t, "read down")
  /\ UNCHANGED <<tree, pots, queue, source, count, isEndPar, parentsLock,
                 node, todo, msg, phase, rest>>

ReadDown(t) ==
  /\ pc[t] = "read down"
  /\ Read(t, node[t], Sink(t), "write down")

WriteDown(t) ==
  /\ pc[t] = "write down"
  /\ Write(node[t], Sink(t), FALSE, msg[t].source, msg[t].sink)
  /\ Goto(t, "count")
  /\ UNCHANGED <<tree, shared, node, todo, msg, phase, rest>>

\* mutant: the count is tested before it is decremented
MutTestBeforeDec(t) ==
  /\ pc[t] = "count"
  /\ count' = count - 1
  /\ isEndPar' = (isEndPar \/ count = 0)
  /\ Goto(t, "push")
  /\ UNCHANGED <<tree, pots, queue, source, cond, left, parentsLock,
                 node, todo, msg, phase, rest>>

DecCount(t) ==
  /\ pc[t] = "count"
  /\ count' = count - 1
  /\ isEndPar' = (isEndPar \/ count = 1)
  /\ Goto(t, "push")
  /\ UNCHANGED <<tree, pots, queue, source, cond, left, parentsLock,
                 node, todo, msg, phase, rest>>

PushNbr(t) ==
  /\ pc[t] = "push"
  /\ source' = IF Cardinality(Nbrs(Sink(t))) > 1 THEN Append(source, Sink(t)) ELSE source
  /\ todo' = [todo EXCEPT ![t] = @ \ {Sink(t)}]
  /\ Goto(t, "nbrs")
  /\ UNCHANGED <<tree, pots, queue, cond, left, count, isEndPar, parentsLock,
                 node, msg, phase, rest>>

\* a tree of one clique; and the unlocked test of m_NodeConditions[sender]
NbrsDone(t) ==
  /\ pc[t] = "nbrs"
  /\ todo[t] = {}
  /\ isEndPar' = (isEndPar \/ Nbrs(node[t]) = {})
  /\ Goto(t, IF left[node[t]] = 0 THEN "pop" ELSE "loop")
  /\ UNCHANGED <<tree, pots, queue, source, cond, left, count, parentsLock,
                 node, todo, msg, phase, rest>>

PopFront(t) ==
  /\ pc[t] = "pop"
  /\ source' = IF source # <<>> /\ Head(source) = node[t] THEN Tail(source) ELSE source
  /\ Goto(t, "loop")
  /\ UNCHANGED <<tree, pots, queue, cond, left, count, isEndPar, parentsLock,
                 node, todo, msg, phase, rest>>

DistributeStep(t) ==
  \/ TestEndPar(t) \/ TakeFront(t) \/ SkipNbr(t) \/ ClaimNbr(t) \/ ReadDown(t)
  \/ WriteDown(t) \/ DecCount(t) \/ PushNbr(t) \/ NbrsDone(t) \/ PopFront(t)

ThreadStep(t) == CollectStep(t) \/ DistributeStep(t)

Next ==
  \/ \E r \in NewRoot : SetJTreeRootNode(r)
  \/ \E e \in Evidence : EnterEvidenceOMP(e)
  \/ Master
  \/ \E t \in Thread : ThreadStep(t)

\* the operating system schedules every thread of the team
Spec == Init /\ [][Next]_vars /\ WF_vars(Master) /\ \A t \in Thread : WF_vars(ThreadStep(t))

-------------------------------------------------------------------------------
TypeOK ==
  /\ obs \subseteq Node /\ got \subseteq Arc
  /\ clq \in [Clq -> Potential] /\ sep \in [Link -> Potential]
  /\ root \in Clq /\ collectSequence \in Seq(Clq)
  /\ nbrsTypes \in [Clq -> Clq \cup {NoClq}]
  /\ rest \in Seq(Clq) /\ queue \in Seq(Clq) /\ source \in Seq(Clq)
  /\ cond \in [Arc -> 0 .. 2] /\ left \in [Clq -> 0 .. NumberOfClqs]
  /\ count \in 0 .. NumberOfClqs - 1 /\ isEndPar \in BOOLEAN
  /\ parentsLock \in [Clq -> Thread \cup {Free}]
  /\ node \in [Thread -> Clq] /\ todo \in [Thread -> SUBSET Clq]

(***************************************************************************)
(* The team sends the same messages as any other engine: a clique is used  *)
(* as a source only when it has heard from all its other neighbours, and   *)
(* no update of a clique by one thread is lost to another thread.  The     *)
(* handshake between SignalParent, ScanCondition and CheckNode, the locks  *)
(* on parents, the claims under find_zero_lock and the push after the      *)
(* propagation together implement Propagation.                             *)
(***************************************************************************)
P == INSTANCE Propagation WITH
       Home <- [f \in Factor |-> FactAssignToClq(f)],
       live <- LiveFactors(obs), mute <- ScalarLinks(obs)

ImplementsPropagation == P!Init /\ [][P!Next]_P!vars

(***************************************************************************)
(* EnterEvidenceOMP returns only when all messages have been sent, although *)
(* a thread leaves CollectEvidenceOMP_gau as soon as it sees an empty queue *)
(* and DistributeEvidenceOMP as soon as it sees IsEndPar.                   *)
(***************************************************************************)
EvidencePropagated ==
  phase = "idle" =>
    \A c \in Clq : clq[c] = JointPotential(c, obs)

(***************************************************************************)
(* No two threads work on the same clique potential unless all of them     *)
(* only read it, and no two on the same separator: PropagateBetweenClqs,   *)
(* which takes no lock itself, is free of data races.                      *)
(***************************************************************************)
SourceOf(t) == node[t]
SinkOf(t) == IF pc[t] \in {"read up", "write up"} THEN nbrsTypes[node[t]] ELSE Sink(t)
Propagating(t) == pc[t] \in {"read up", "write up", "read down", "write down"}

PropagationRaceFree ==
  \A t, u \in Thread :
    t # u /\ Propagating(t) /\ Propagating(u) => SinkOf(t) \notin {SourceOf(u), SinkOf(u)}

(***************************************************************************)
(* A call of EnterEvidenceOMP returns or throws, no thread is left         *)
(* spinning, when m_NbrsTypes belongs to the root: CollectEvidenceOMP_gau  *)
(* computes it, CollectEvidenceOMP does not.                               *)
(***************************************************************************)
EnterEvidenceReturns ==
  /\ phase \in {"CollectEvidenceOMP", "CollectEvidenceOMP_gau"}
  /\ nbrsTypes = NbrsTypes(collectSequence)
  ~> Idle

===============================================================================
