--------------------------- MODULE ParJtreeOMP_proofs ---------------------------
(***************************************************************************)
(* Proofs about module ParJtreeOMP: for every junction tree, every root    *)
(* and every team of threads the OpenMP engine implements module           *)
(* Propagation, leaves the joint distribution in every clique when         *)
(* EnterEvidenceOMP returns, and PropagateBetweenClqs has no data race.    *)
(***************************************************************************)
EXTENDS ParJtreeOMP, JtreeRoot_proofs

PP == INSTANCE Propagation_proofs WITH
        Home <- [f \in Factor |-> FactAssignToClq(f)],
        live <- LiveFactors(obs), mute <- ScalarLinks(obs)

-------------------------------------------------------------------------------
(***************************************************************************)
(* The engine's tree and potentials are those of module Propagation.       *)
(***************************************************************************)

\* The arcs and neighbours of the two modules are the same.
LEMMA SameTree ==
  /\ PP!Arc = Arc /\ P!Arc = Arc
  /\ \A c \in Clq : PP!Nbrs(c) = Nbrs(c) /\ P!Nbrs(c) = Nbrs(c)
<1>1. \A c \in Clq : \A d \in Nbrs(c) : c # d
  BY NbrsSymmetric
<1>2. PP!Arc = Arc /\ P!Arc = Arc
  BY <1>1 DEF PP!Arc, P!Arc, Arc, Nbrs
<1> QED
  BY <1>2 DEF PP!Nbrs, P!Nbrs, Nbrs, Arc

\* The tree of the engine is one.
LEMMA EngineTree == PP!TreeAssumption
<1>1. [f \in Factor |-> FactAssignToClq(f)] \in [Factor -> Clq]
  BY FactorHasHome
<1>2. ASSUME NEW m \in SUBSET Link, NEW i \in Clq, NEW k \in Nbrs(i)
      PROVE  /\ i \notin Behind(m, k, i)
             /\ \A n \in Nbrs(i) \ {k} : Behind(m, k, i) \cap Behind(m, n, i) = {}
  BY LinksFormTree
<1>3. \A c \in Clq : PP!Nbrs(c) = Nbrs(c)
  BY SameTree
<1>4. \A m \in SUBSET Link : \A i \in Clq : \A j \in PP!Nbrs(i) :
        Behind(m, i, j) =
          IF {i, j} \in m THEN {} ELSE {i} \cup PP!Around(m, i, PP!Nbrs(i) \ {j})
  <2> SUFFICES ASSUME NEW m \in SUBSET Link, NEW i \in Clq, NEW j \in PP!Nbrs(i)
               PROVE  Behind(m, i, j) =
                        IF {i, j} \in m THEN {} ELSE {i} \cup PP!Around(m, i, PP!Nbrs(i) \ {j})
    OBVIOUS
  <2>1. j \in Nbrs(i) /\ PP!Nbrs(i) = Nbrs(i)
    BY <1>3
  <2>2. PP!Around(m, i, PP!Nbrs(i) \ {j}) = Around(m, i, Nbrs(i) \ {j})
    BY <2>1 DEF PP!Around, Around
  <2> QED
    BY <2>1, <2>2, LinksFormTree
<1>5. \A m \in SUBSET Link : \A i \in Clq : \A k \in PP!Nbrs(i) :
        /\ i \notin Behind(m, k, i)
        /\ \A n \in PP!Nbrs(i) \ {k} : Behind(m, k, i) \cap Behind(m, n, i) = {}
  BY <1>2, <1>3
<1> QED
  BY <1>1, <1>4, <1>5 DEF PP!TreeAssumption

\* Potentials are multiplied and divided alike.
LEMMA SamePotentials ==
  /\ PP!Unit = Unit /\ PP!Potential = Potential
  /\ \A p, q : PP!Times(p, q) = Times(p, q) /\ PP!Over(p, q) = Over(p, q)
  BY DEF PP!Unit, PP!Potential, PP!Times, PP!Over, Unit, Potential, Times, Over

\* Write leaves what one message of Propagation leaves when that may be sent, source
\* and sink are what the cliques hold, and the dense path that ignores the separator is
\* taken on the way up only.
LEMMA MessageRefines ==
  ASSUME PP!IInv, NEW i \in Clq, NEW j \in Clq, PP!CanSend(i, j),
         NEW isCollect \in BOOLEAN, isCollect => <<j, i>> \notin got,
         NEW src, NEW sink, src = clq[i], sink = clq[j],
         Write(i, j, isCollect, src, sink), obs' = obs
  PROVE  PP!PropagateScalar(i, j) \/ PP!PropagateBetweenClqs(i, j)
<1> DEFINE l == {i, j}
           ratio == Over(clq[i], sep[l])
<1>1. LiveFactors(obs)' = LiveFactors(obs) /\ ScalarLinks(obs)' = ScalarLinks(obs)
  OBVIOUS
<1>2. got' = got \cup {<<i, j>>}
  BY DEF Write
<1>3. /\ clq \in [Clq -> Potential] /\ sep \in [Link -> Potential] /\ l \in Link
      /\ (IsScalar(l, obs) <=> l \in ScalarLinks(obs))
  BY SamePotentials DEF PP!IInv, PP!TypeOK, PP!CanSend, PP!Arc, ScalarLinks
<1>4. CASE l \in ScalarLinks(obs)
  <2>1. UNCHANGED <<sep, clq>>
    BY <1>3, <1>4 DEF Write
  <2> QED
    BY <1>1, <1>2, <1>4, <2>1 DEF PP!PropagateScalar
<1>5. CASE l \notin ScalarLinks(obs)
  <2>1. SUFFICES /\ clq' = [clq EXCEPT ![j] = Times(clq[j], ratio)]
                 /\ \E s \in {clq[i], ratio} : sep' = [sep EXCEPT ![l] = s]
    BY <1>1, <1>2, <1>5, SamePotentials DEF PP!PropagateBetweenClqs
  <2>2. <<j, i>> \notin got \/ clq[i] = Unit => sep[l] = Unit /\ ratio = clq[i]
    <3>1. <<j, i>> \notin got \/ clq[i] = PP!Unit => sep[{i, j}] = PP!Unit
      BY <1>5, EngineTree, PP!SeparatorWhenSending
    <3> QED
      BY <1>3, <3>1, SamePotentials, UnitNeutral
  <2>3. CASE IsDense(l, obs) /\ clq[i] = Unit
    <3>1. UNCHANGED <<sep, clq>>
      BY <1>3, <1>5, <2>3 DEF Write
    <3>2. ratio = Unit /\ sep[l] = Unit
      BY <2>2, <2>3
    <3>3. Times(clq[j], ratio) = clq[j]
      BY <1>3, <3>2, UnitNeutral
    <3>4. clq' = [clq EXCEPT ![j] = Times(clq[j], ratio)] /\ sep' = [sep EXCEPT ![l] = ratio]
      BY <1>3, <3>1, <3>2, <3>3
    <3> QED
      BY <3>4
  <2>4. CASE IsDense(l, obs) /\ clq[i] # Unit
    <3> DEFINE dense == IF isCollect THEN clq[i] ELSE ratio
    <3>1. /\ clq' = [clq EXCEPT ![j] = Times(clq[j], dense)]
          /\ sep' = [sep EXCEPT ![l] = dense]
      BY <1>3, <1>5, <2>4 DEF Write
    <3>2. dense = ratio
      BY <2>2
    <3> QED
      BY <3>1, <3>2
  <2>5. CASE ~ IsDense(l, obs)
    BY <1>3, <1>5, <2>5 DEF Write
  <2> QED
    BY <2>3, <2>4, <2>5
<1> QED
  BY <1>4, <1>5

-------------------------------------------------------------------------------
(***************************************************************************)
(* The inductive invariant.                                                *)
(***************************************************************************)

\* a clique has sent up, and has heard from the clique above it
SentUp(c) == <<c, Up(root, c)>> \in got
Told(c) == <<Up(root, c), c>> \in got
Children(c) == {d \in Clq \ {root} : Up(root, d) = c}

ControlOK ==
  /\ obs \subseteq Node /\ root \in Clq
  /\ collectSequence = RebuildTreeFromRoot(root)
  /\ \E o \in Clq : nbrsTypes = NbrsTypes(RebuildTreeFromRoot(o))
  /\ phase \in {"idle", "thrown", "CollectEvidenceOMP", "CollectEvidenceOMP_gau",
                "DistributeEvidenceOMP"}
  /\ phase \in {"idle", "thrown", "CollectEvidenceOMP"} => AllOut
  /\ phase # "CollectEvidenceOMP_gau" => queue = <<>>
  /\ phase = "idle" => got = Arc \/ LiveFactors(obs) = {}

\* where a thread is in either parallel section
CollectPc == {"test", "take", "check", "lock", "read up", "write up", "signal", "scan", "out"}
DistributePc == {"loop", "front", "nbrs", "read down", "write down", "count", "push", "pop", "out"}

SharedOK ==
  /\ cond \in [Arc -> Int] /\ left \in [Clq -> Int]
  /\ parentsLock \in [Clq -> Thread \cup {Free}]
  /\ pc \in [Thread -> CollectPc \cup DistributePc] /\ node \in [Thread -> Clq]
  /\ todo \in [Thread -> SUBSET Clq]
  /\ msg \in [Thread -> [source : Potential, sink : Potential]]

\* CollectEvidenceOMP has dealt with a prefix of the collect sequence.
Collecting ==
  phase = "CollectEvidenceOMP" =>
    \E k \in 0 .. NumberOfClqs :
      /\ rest = Ahead(collectSequence, k)
      /\ got = UpArcs(root, Visited(collectSequence, k))

\* CollectEvidenceOMP_gau: a clique is in the queue, or one thread has it, or it has
\* sent up.
Among(q, c) == \E n \in 1 .. Len(q) : q[n] = c
Distinct(q) == \A m, n \in 1 .. Len(q) : q[m] = q[n] => m = n
Has(t) == pc[t] \in {"check", "lock", "read up", "write up", "signal", "scan"}

Queueing ==
  /\ queue \in Seq(Clq) /\ Distinct(queue)
  /\ queue # <<>> => ~ AllOut
  /\ \A t \in Thread : Has(t) => ~ Among(queue, node[t])
  /\ \A t, u \in Thread : Has(t) /\ Has(u) /\ node[t] = node[u] => t = u
  /\ \A c \in Clq \ {root} :
       SentUp(c) <=> ~ Among(queue, c) /\ \A t \in Thread : Has(t) /\ node[t] = c => pc[t] = "signal"

\* What m_NodeConditions says: 0 as long as the child is not known to have sent, 2
\* when the parent has counted it.
Signalling ==
  /\ \A c \in Clq \ {root} :
       /\ cond[<<c, Up(root, c)>>] = 0
       /\ cond[<<Up(root, c), c>>] # 0 =>
            SentUp(c) /\ \A t \in Thread : ~ (pc[t] = "signal" /\ node[t] = c)
  /\ \A c \in Clq : left[c] = Cardinality({d \in Children(c) : cond[<<c, d>>] # 2})

\* A thread that is about to send holds the lock of the clique above and has nobody left
\* to wait for.
Uploading(t) ==
  /\ pc[t] \in {"lock", "read up", "write up", "signal"} => node[t] # root
  /\ pc[t] \in {"lock", "read up", "write up"} => left[node[t]] = 0
  /\ pc[t] \in {"read up", "write up"} => parentsLock[Up(root, node[t])] = t
  /\ pc[t] = "write up" => /\ msg[t].source = clq[node[t]]
                           /\ msg[t].sink = clq[Up(root, node[t])]
  /\ pc[t] = "scan" => todo[t] \subseteq Nbrs(node[t])

Gathering ==
  phase = "CollectEvidenceOMP_gau" =>
    /\ nbrsTypes = NbrsTypes(RebuildTreeFromRoot(root))
    /\ got \subseteq UpArcs(root, Clq)
    /\ Queueing /\ Signalling
    /\ \A t \in Thread : pc[t] \in CollectPc /\ Uploading(t)

\* DistributeEvidenceOMP: who is worked on has heard from the clique above it, and
\* m_NbrsTypes is right about it, whatever root it was computed for.
Reached(c) == c = root \/ (nbrsTypes[c] = Up(root, c) /\ Told(c))

Busy(t) == pc[t] \in {"read down", "write down", "count", "push"}

Downloading(t) ==
  /\ pc[t] \in {"nbrs", "read down", "write down", "count", "push"} =>
       Reached(node[t]) /\ todo[t] \subseteq Nbrs(node[t])
  /\ Busy(t) => /\ todo[t] # {} /\ Sink(t) # nbrsTypes[node[t]]
                /\ cond[<<node[t], Sink(t)>>] # 0
                /\ <<node[t], Sink(t)>> \in got <=> pc[t] \in {"count", "push"}
  /\ pc[t] = "write down" => msg[t].source = clq[node[t]] /\ msg[t].sink = clq[Sink(t)]

\* no two threads have the same neighbour
Claiming == \A t, u \in Thread : Busy(t) /\ Busy(u) /\ Sink(t) = Sink(u) => t = u

\* the counter is ahead of the messages by the threads that have still to decrement it
Counting ==
  /\ count = Cardinality({c \in Clq \ {root} :
                            ~ Told(c) \/ \E t \in Thread : pc[t] = "count" /\ Sink(t) = c})
  /\ isEndPar => \A c \in Clq \ {root} : Told(c)
  /\ \A t \in Thread : pc[t] = "out" => isEndPar

Distributing ==
  phase = "DistributeEvidenceOMP" =>
    /\ UpArcs(root, Clq) \subseteq got
    /\ source \in Seq(Clq) /\ \A c \in Clq : Among(source, c) => Reached(c)
    /\ \A c \in Clq \ {root} : Told(c) => cond[<<Up(root, c), c>>] # 0
    /\ \A t \in Thread : pc[t] \in DistributePc /\ Downloading(t)
    /\ Claiming /\ Counting

IInv == PP!IInv /\ ControlOK /\ SharedOK /\ Collecting /\ Gathering /\ Distributing

-------------------------------------------------------------------------------
(***************************************************************************)
(* What the invariant says of a thread at work.                            *)
(***************************************************************************)

\* The clique above another one.
LEMMA Above ==
  ASSUME NEW r \in Clq, NEW c \in Clq \ {r}
  PROVE  /\ Up(r, c) \in Clq /\ Up(r, c) # c
         /\ Up(r, c) \in Nbrs(c) /\ c \in Nbrs(Up(r, c))
         /\ <<c, Up(r, c)>> \in Arc /\ <<Up(r, c), c>> \in Arc
<1>1. Up(r, c) \in Nbrs(c)
  BY UpFacts
<1> QED
  BY <1>1, NbrsSymmetric

\* A parallel section is in one phase.
LEMMA InPhase ==
  ASSUME IInv, NEW t \in Thread
  PROVE  /\ pc[t] \in CollectPc \ {"out"} => phase = "CollectEvidenceOMP_gau"
         /\ pc[t] \in DistributePc \ {"out"} => phase = "DistributeEvidenceOMP"
  BY DEF IInv, ControlOK, Gathering, Distributing, AllOut, CollectPc, DistributePc

\* CollectEvidenceOMP_gau has m_NbrsTypes of the root.
LEMMA ParentType ==
  ASSUME IInv, phase = "CollectEvidenceOMP_gau", NEW c \in Clq \ {root}
  PROVE  nbrsTypes[c] = Up(root, c)
<1>1. nbrsTypes = [d \in Clq |-> IF d = root THEN NoClq ELSE Up(root, d)]
  BY NbrsTypesPointUp DEF IInv, ControlOK, Gathering
<1> QED
  BY <1>1

\* From a clique that has been reached every neighbour that m_NbrsTypes lets through is
\* below it, and m_NbrsTypes is right about that one, too.
LEMMA LetThrough ==
  ASSUME ControlOK, NEW p \in Clq, Reached(p), NEW d \in Nbrs(p), d # nbrsTypes[p]
  PROVE  d \in Clq \ {root} /\ Up(root, d) = p /\ nbrsTypes[d] = p
<1>1. PICK o \in Clq : nbrsTypes = NbrsTypes(RebuildTreeFromRoot(o))
  BY DEF ControlOK
<1>2. nbrsTypes = [c \in Clq |-> IF c = o THEN NoClq ELSE Up(o, c)]
  BY <1>1, NbrsTypesPointUp
<1>3. d \in Clq /\ root \in Clq
  BY NbrsSymmetric DEF ControlOK
<1>4. d # o /\ Up(o, d) = p
  <2>1. ~ (p # o /\ Up(o, p) = d)
    BY <1>2
  <2> QED
    BY <2>1, UpOrDown
<1>5. d # root /\ Up(root, d) = p
  <2>1. ~ (p # root /\ Up(root, p) = d)
    BY DEF Reached
  <2> QED
    BY <1>3, <2>1, UpOrDown
<1> QED
  BY <1>2, <1>3, <1>4, <1>5

\* The neighbour that a thread is at is one it has still to visit.
LEMMA SinkInTodo ==
  ASSUME SharedOK, NEW t \in Thread, todo[t] # {}
  PROVE  Sink(t) \in todo[t]
<1> DEFINE T == todo[t]
<1>1. T \in SUBSET Nat /\ T # {}
  BY JunctionTreeAssumption DEF JunctionTreeAssumption, SharedOK, Clq
<1> HIDE DEF T
<1>2. Min(T) \in T
  BY <1>1, MinNat
<1> QED
  BY <1>2 DEF T, Sink

\* What CanSend asks for.
LEMMA SendWhen ==
  ASSUME NEW i \in Clq, NEW j \in Nbrs(i)
  PROVE  PP!CanSend(i, j) <=> <<i, j>> \notin got /\ \A k \in Nbrs(i) \ {j} : <<k, i>> \in got
<1>1. <<i, j>> \in Arc /\ j \in Clq
  BY NbrsSymmetric
<1> QED
  BY <1>1, SameTree DEF PP!CanSend

\* The counter of a clique is zero when all cliques below it have sent.
LEMMA NobodyLeft ==
  ASSUME IInv, phase = "CollectEvidenceOMP_gau", NEW c \in Clq, left[c] = 0
  PROVE  \A d \in Children(c) : SentUp(d)
<1> DEFINE S == {d \in Children(c) : cond[<<c, d>>] # 2}
<1>1. left[c] = Cardinality(S)
  BY DEF IInv, Gathering, Signalling
<1>2. IsFiniteSet(S)
  <2>1. S \in SUBSET Clq
    BY DEF Children
  <2> QED
    BY <2>1, FiniteCliques, FS_Subset
<1>3. S = {}
  BY <1>1, <1>2, FS_EmptySet
<1>4. ASSUME NEW d \in Children(c) PROVE SentUp(d)
  <2>1. d \in Clq \ {root} /\ Up(root, d) = c /\ cond[<<c, d>>] = 2
    BY <1>3, <1>4 DEF Children
  <2>2. cond[<<Up(root, d), d>>] # 0
    BY <2>1
  <2> QED
    BY <2>1, <2>2 DEF IInv, Gathering, Signalling
<1> QED
  BY <1>4

\* A thread that is between locking the parent and writing may send.
LEMMA UpReady ==
  ASSUME IInv, NEW t \in Thread, pc[t] \in {"lock", "read up", "write up"}
  PROVE  /\ phase = "CollectEvidenceOMP_gau" /\ node[t] \in Clq \ {root}
         /\ nbrsTypes[node[t]] = Up(root, node[t])
         /\ \A d \in Children(node[t]) : SentUp(d)
         /\ ~ SentUp(node[t]) /\ ~ Told(node[t])
         /\ PP!CanSend(node[t], Up(root, node[t]))
<1> DEFINE i == node[t]
           j == Up(root, i)
<1>1. phase = "CollectEvidenceOMP_gau"
  BY InPhase DEF CollectPc
<1>2. i \in Clq \ {root} /\ root \in Clq /\ left[i] = 0
  BY <1>1 DEF IInv, SharedOK, ControlOK, Gathering, Uploading
<1>3. \A d \in Children(i) : SentUp(d)
  BY <1>1, <1>2, NobodyLeft
<1>4. ~ SentUp(i)
  <2>1. Has(t) /\ pc[t] # "signal"
    BY DEF Has
  <2> QED
    BY <1>1, <1>2, <2>1 DEF IInv, Gathering, Queueing
<1>5. ~ Told(i)
  <2>1. ~ (j # root /\ Up(root, j) = i)
    BY <1>2, Above, UpOrDown
  <2>2. <<j, i>> \notin UpArcs(root, Clq)
    BY <2>1 DEF UpArcs
  <2> QED
    BY <1>1, <2>2 DEF IInv, Gathering, Told
<1>6. PP!CanSend(i, j)
  <2>1. ASSUME NEW k \in Nbrs(i) \ {j} PROVE <<k, i>> \in got
    <3>1. k \in Children(i)
      BY <1>2, <2>1, UpOrDown, NbrsSymmetric DEF Children
    <3> QED
      BY <1>3, <3>1 DEF SentUp, Children
  <2>2. j \in Nbrs(i)
    BY <1>2, Above
  <2> QED
    BY <1>2, <1>4, <2>1, <2>2, SendWhen DEF SentUp
<1> QED
  BY <1>1, <1>2, <1>3, <1>4, <1>5, <1>6, ParentType

\* A thread that is about to signal has sent, and the clique above has not been told.
LEMMA SignalReady ==
  ASSUME IInv, NEW t \in Thread, pc[t] = "signal"
  PROVE  /\ phase = "CollectEvidenceOMP_gau" /\ node[t] \in Clq \ {root}
         /\ nbrsTypes[node[t]] = Up(root, node[t])
         /\ <<nbrsTypes[node[t]], node[t]>> \in Arc
         /\ SentUp(node[t]) /\ ~ Among(queue, node[t])
         /\ \A u \in Thread : Has(u) /\ node[u] = node[t] => u = t
<1>1. phase = "CollectEvidenceOMP_gau"
  BY InPhase DEF CollectPc
<1>2. node[t] \in Clq \ {root} /\ root \in Clq
  BY <1>1 DEF IInv, SharedOK, ControlOK, Gathering, Uploading
<1>3. nbrsTypes[node[t]] = Up(root, node[t]) /\ <<nbrsTypes[node[t]], node[t]>> \in Arc
  BY <1>1, <1>2, ParentType, Above
<1>4. ~ Among(queue, node[t]) /\ \A u \in Thread : Has(u) /\ node[u] = node[t] => u = t
  BY <1>1 DEF IInv, Gathering, Queueing, Has
<1>5. SentUp(node[t])
  BY <1>1, <1>2, <1>4 DEF IInv, Gathering, Queueing
<1> QED
  BY <1>1, <1>2, <1>3, <1>4, <1>5

\* A thread that goes through the neighbours of a clique.
LEMMA NbrsReady ==
  ASSUME IInv, NEW t \in Thread, pc[t] = "nbrs", todo[t] # {}
  PROVE  /\ phase = "DistributeEvidenceOMP" /\ node[t] \in Clq /\ Reached(node[t])
         /\ Sink(t) \in todo[t] /\ Sink(t) \in Nbrs(node[t]) /\ Sink(t) \in Clq
         /\ <<node[t], Sink(t)>> \in Arc
<1>1. phase = "DistributeEvidenceOMP" /\ node[t] \in Clq
  BY InPhase DEF DistributePc, IInv, SharedOK
<1>2. Reached(node[t]) /\ todo[t] \subseteq Nbrs(node[t])
  BY <1>1 DEF IInv, Distributing, Downloading
<1>3. Sink(t) \in todo[t]
  BY SinkInTodo DEF IInv
<1> QED
  BY <1>1, <1>2, <1>3, NbrsSymmetric

\* A thread that has claimed an arc works downwards on it, and may send until it has
\* written.
LEMMA DownReady ==
  ASSUME IInv, NEW t \in Thread, Busy(t)
  PROVE  /\ phase = "DistributeEvidenceOMP" /\ node[t] \in Clq
         /\ Sink(t) \in todo[t] /\ Sink(t) \in Nbrs(node[t])
         /\ Sink(t) \in Clq \ {root} /\ Up(root, Sink(t)) = node[t]
         /\ nbrsTypes[Sink(t)] = node[t]
         /\ Told(Sink(t)) <=> pc[t] \in {"count", "push"}
         /\ pc[t] \in {"read down", "write down"} => PP!CanSend(node[t], Sink(t))
<1> DEFINE i == node[t]
           j == Sink(t)
<1>1. phase = "DistributeEvidenceOMP" /\ root \in Clq /\ i \in Clq
  BY InPhase DEF DistributePc, Busy, IInv, ControlOK, SharedOK
<1>2. /\ Reached(i) /\ todo[t] \subseteq Nbrs(i) /\ todo[t] # {} /\ j # nbrsTypes[i]
      /\ <<i, j>> \in got <=> pc[t] \in {"count", "push"}
  BY <1>1 DEF IInv, Distributing, Downloading, Busy
<1>3. j \in todo[t] /\ j \in Nbrs(i)
  <2>1. Sink(t) \in todo[t]
    BY <1>2, SinkInTodo DEF IInv
  <2> QED
    BY <1>2, <2>1
<1>4. j \in Clq \ {root} /\ Up(root, j) = i /\ nbrsTypes[j] = i
  BY <1>1, <1>2, <1>3, LetThrough DEF IInv
<1>5. ASSUME NEW k \in Nbrs(i) \ {j} PROVE <<k, i>> \in got
  <2>1. CASE i # root /\ Up(root, i) = k
    BY <1>2, <2>1 DEF Reached, Told
  <2>2. CASE k # root /\ Up(root, k) = i
    <3>1. k \in Clq
      BY <1>1, NbrsSymmetric
    <3> QED
      BY <1>1, <2>2, <3>1 DEF IInv, Distributing, UpArcs
  <2> QED
    BY <1>1, <2>1, <2>2, UpOrDown
<1>6. pc[t] \in {"read down", "write down"} => PP!CanSend(i, j)
  BY <1>1, <1>2, <1>3, <1>5, SendWhen
<1> QED
  BY <1>1, <1>2, <1>3, <1>4, <1>6 DEF Told

-------------------------------------------------------------------------------
(***************************************************************************)
(* Every step is a step of Propagation, or leaves the potentials alone.    *)
(***************************************************************************)

\* The master thread lets the next clique of the collect sequence send up when it is
\* due, and the root has nobody left to send to.
LEMMA CollectMaster ==
  ASSUME IInv, CollectEvidenceOMP
  PROVE  /\ Collecting'
         /\ \/ UNCHANGED pots
            \/ \E i \in Clq : \E j \in Nbrs(i) :
                 /\ Write(i, j, TRUE, clq[i], clq[j])
                 /\ PP!CanSend(i, j) /\ <<j, i>> \notin got
<1> DEFINE cs == collectSequence
           N == NumberOfClqs
<1>1. IsCollectSequence(cs, root) /\ root \in Clq
  BY CollectSequenceOrder DEF IInv, ControlOK
<1>2. N \in Nat \ {0} /\ phase = "CollectEvidenceOMP" /\ rest # <<>>
  BY JunctionTreeAssumption DEF JunctionTreeAssumption, CollectEvidenceOMP
<1>3. PICK k \in 0 .. N : rest = Ahead(cs, k) /\ got = UpArcs(root, Visited(cs, k))
  BY <1>2 DEF IInv, Collecting
<1> DEFINE sent == Visited(cs, k)
           i == cs[k + 1]
           j == Up(root, i)
<1>4. {cs[n] : n \in 1 .. N - Len(rest)} = sent
  <2>1. Len(rest) = N - k
    <3>1. cs \in Seq(Clq) /\ Len(cs) = N
      BY <1>1 DEF IsCollectSequence
    <3>2. \A n \in k + 1 .. N : cs[n] \in Clq
      BY <1>2, <3>1, ElementOfSeq
    <3>3. Len(SubSeq(cs, k + 1, N)) = IF k + 1 <= N THEN (N - (k + 1)) + 1 ELSE 0
      BY <1>2, <3>2, SubSeqProperties
    <3> QED
      BY <1>2, <1>3, <3>3 DEF Ahead
  <2>2. N - Len(rest) = k
    BY <1>2, <2>1
  <2> QED
    BY <2>2 DEF Visited
<1>5. i = cs[k + 1] /\ j = Up(root, i) /\ sent = Visited(cs, k)
  OBVIOUS
<1> HIDE DEF i, j, sent
<1>6. /\ k + 1 \in 0 .. N /\ Head(rest) = i /\ Tail(rest) = Ahead(cs, k + 1)
      /\ i \in Clq \ sent /\ sent \subseteq Clq
      /\ Visited(cs, k + 1) = sent \cup {i}
      /\ \A d \in Nbrs(i) : d \in sent <=> i = root \/ d # j
  BY <1>1, <1>2, <1>3, <1>5, CollectPlace
<1>7. /\ root' = root /\ cs' = cs /\ rest' = Ahead(cs, k + 1)
      /\ \/ Nbrs(i) \ sent = {} /\ UNCHANGED <<pots, phase>>
         \/ /\ Nbrs(i) \ sent # {} /\ phase' = phase
            /\ Write(i, Min(Nbrs(i) \ sent), TRUE, clq[i], clq[Min(Nbrs(i) \ sent)])
         \/ Nbrs(i) \ sent # {} /\ phase' = "thrown" /\ UNCHANGED pots
  BY <1>4, <1>6 DEF CollectEvidenceOMP, tree
<1>8. CASE i = root
  <2>1. UNCHANGED pots
    BY <1>6, <1>7, <1>8
  <2>2. got' = UpArcs(root', Visited(cs, k + 1))
    BY <1>3, <1>5, <1>6, <1>7, <1>8, <2>1 DEF UpArcs, pots
  <2>3. Collecting'
    BY <1>6, <1>7, <2>2 DEF Collecting
  <2> QED
    BY <2>1, <2>3
<1>9. CASE i # root
  <2>1. /\ j \in Nbrs(i) /\ j \in Clq
        /\ Nbrs(i) \ sent = {j} /\ Min(Nbrs(i) \ sent) = j
        /\ <<j, i>> \notin UpArcs(root, sent)
        /\ \A d \in Nbrs(i) \ {j} : <<d, i>> \in UpArcs(root, sent)
    BY <1>1, <1>5, <1>6, <1>9, CollectTarget
  <2>2. CASE phase' = "thrown"
    BY <1>2, <1>7, <2>1, <2>2 DEF Collecting
  <2>3. CASE phase' # "thrown"
    <3>1. Write(i, j, TRUE, clq[i], clq[j])
      BY <1>7, <2>1, <2>3
    <3>2. got' = UpArcs(root', Visited(cs, k + 1))
      <4>1. got' = got \cup {<<i, j>>}
        BY <3>1 DEF Write
      <4> QED
        BY <1>3, <1>5, <1>6, <1>7, <1>9, <4>1 DEF UpArcs
    <3>3. <<i, j>> \notin got
      BY <1>3, <1>5, <1>6 DEF UpArcs
    <3>4. PP!CanSend(i, j)
      BY <1>3, <1>5, <1>6, <2>1, <3>3, SendWhen
    <3>5. Collecting'
      BY <1>6, <1>7, <3>2 DEF Collecting
    <3> QED
      BY <1>3, <1>5, <1>6, <2>1, <3>1, <3>4, <3>5
  <2> QED
    BY <2>2, <2>3
<1> QED
  BY <1>8, <1>9

\* The writes of the threads.
LEMMA ThreadWrites ==
  ASSUME IInv, NEW t \in Thread
  PROVE  /\ WriteUp(t) =>
              /\ Write(node[t], Up(root, node[t]), TRUE, clq[node[t]], clq[Up(root, node[t])])
              /\ parentsLock' = [parentsLock EXCEPT ![Up(root, node[t])] = Free]
         /\ WriteDown(t) => Write(node[t], Sink(t), FALSE, clq[node[t]], clq[Sink(t)])
<1>1. ASSUME WriteUp(t)
      PROVE  /\ Write(node[t], Up(root, node[t]), TRUE, clq[node[t]], clq[Up(root, node[t])])
             /\ parentsLock' = [parentsLock EXCEPT ![Up(root, node[t])] = Free]
  <2>1. pc[t] = "write up" /\ nbrsTypes[node[t]] = Up(root, node[t])
        /\ phase = "CollectEvidenceOMP_gau"
    BY <1>1, UpReady DEF WriteUp
  <2>2. msg[t].source = clq[node[t]] /\ msg[t].sink = clq[Up(root, node[t])]
    BY <2>1 DEF IInv, Gathering, Uploading
  <2> QED
    BY <1>1, <2>1, <2>2 DEF WriteUp
<1>2. ASSUME WriteDown(t)
      PROVE  Write(node[t], Sink(t), FALSE, clq[node[t]], clq[Sink(t)])
  <2>1. pc[t] = "write down" /\ phase = "DistributeEvidenceOMP"
    BY <1>2, DownReady DEF WriteDown, Busy
  <2>2. msg[t].source = clq[node[t]] /\ msg[t].sink = clq[Sink(t)]
    BY <2>1 DEF IInv, Distributing, Downloading
  <2> QED
    BY <1>2, <2>2 DEF WriteDown
<1> QED
  BY <1>1, <1>2

\* No other step of a thread touches a potential.
LEMMA QuietSteps ==
  ASSUME NEW t \in Thread, ThreadStep(t)
  PROVE  /\ UNCHANGED <<tree, phase, rest>>
         /\ UNCHANGED pots \/ WriteUp(t) \/ WriteDown(t)
<1>1. CASE CollectStep(t)
  <2>1. CASE TestQueue(t) \/ TakeNode(t) \/ CheckNode(t) \/ LockParent(t) \/ ReadUp(t)
    BY <2>1 DEF TestQueue, TakeNode, CheckNode, LockParent, ReadUp, Read
  <2>2. CASE WriteUp(t) \/ SignalParent(t) \/ ScanCondition(t) \/ RequeueNode(t)
    BY <2>2 DEF WriteUp, SignalParent, ScanCondition, RequeueNode
  <2> QED
    BY <1>1, <2>1, <2>2 DEF CollectStep
<1>2. CASE DistributeStep(t)
  <2>1. CASE TestEndPar(t) \/ TakeFront(t) \/ SkipNbr(t) \/ ClaimNbr(t) \/ ReadDown(t)
    BY <2>1 DEF TestEndPar, TakeFront, SkipNbr, ClaimNbr, ReadDown, Read
  <2>2. CASE WriteDown(t) \/ DecCount(t) \/ PushNbr(t) \/ NbrsDone(t) \/ PopFront(t)
    BY <2>2 DEF WriteDown, DecCount, PushNbr, NbrsDone, PopFront
  <2> QED
    BY <1>2, <2>1, <2>2 DEF DistributeStep
<1> QED
  BY <1>1, <1>2 DEF ThreadStep

\* Every step of the engine refines a step of Propagation or none.
LEMMA StepRefines ==
  ASSUME IInv, [Next]_vars
  PROVE  [PP!Next]_PP!vars
<1>1. ASSUME UNCHANGED <<obs, clq, sep, got>> PROVE UNCHANGED PP!vars
  BY <1>1 DEF PP!vars
<1>2. ASSUME obs' = obs, NEW i \in Clq, NEW j \in Nbrs(i), NEW isCollect \in BOOLEAN,
             Write(i, j, isCollect, clq[i], clq[j]), PP!CanSend(i, j),
             isCollect => <<j, i>> \notin got
      PROVE  PP!Next
  <2>1. j \in Clq
    BY NbrsSymmetric
  <2>2. PP!PropagateScalar(i, j) \/ PP!PropagateBetweenClqs(i, j)
    BY <1>2, <2>1, MessageRefines DEF IInv
  <2> QED
    BY <2>1, <2>2 DEF PP!Next
<1>3. ASSUME NEW r \in NewRoot, SetJTreeRootNode(r) PROVE UNCHANGED PP!vars
  BY <1>1, <1>3 DEF SetJTreeRootNode, pots
<1>4. ASSUME NEW e \in Evidence, EnterEvidenceOMP(e) PROVE PP!Next
  <2>1. /\ obs' = e /\ clq' = [c \in Clq |-> InitNodePot(c, e)]
        /\ sep' = [l \in Link |-> Unit] /\ got' = {}
    BY <1>4 DEF EnterEvidenceOMP, ShrinkObservedOMP
  <2>2. LiveFactors(obs)' = LiveFactors(e) /\ ScalarLinks(obs)' = ScalarLinks(e)
    BY <2>1
  <2>3. LiveFactors(e) \in SUBSET Factor /\ ScalarLinks(e) \in SUBSET Link
    BY DEF LiveFactors, ScalarLinks
  <2>4. clq' = [c \in Clq |->
                  [f \in Factor |->
                     IF /\ f \in LiveFactors(e)
                        /\ [g \in Factor |-> FactAssignToClq(g)][f] = c
                     THEN 1 ELSE 0]]
    <3> SUFFICES ASSUME NEW c \in Clq
                 PROVE  InitNodePot(c, e) =
                          [f \in Factor |->
                             IF /\ f \in LiveFactors(e)
                                /\ [g \in Factor |-> FactAssignToClq(g)][f] = c
                             THEN 1 ELSE 0]
      BY <2>1
    <3> QED
      BY DEF InitNodePot
  <2>5. PP!ShrinkObserved
    BY <2>1, <2>2, <2>3, <2>4, SamePotentials DEF PP!ShrinkObserved
  <2> QED
    BY <2>5 DEF PP!Next
<1>5. CASE CollectEvidenceOMP
  <2>1. obs' = obs
    BY <1>5 DEF CollectEvidenceOMP, tree
  <2>2. CASE UNCHANGED pots
    BY <1>1, <2>1, <2>2 DEF pots
  <2>3. CASE ~ UNCHANGED pots
    <3>1. PICK i \in Clq : \E j \in Nbrs(i) :
                 Write(i, j, TRUE, clq[i], clq[j]) /\ PP!CanSend(i, j) /\ <<j, i>> \notin got
      BY <1>5, <2>3, CollectMaster
    <3> QED
      BY <1>2, <2>1, <3>1
  <2> QED
    BY <2>2, <2>3
<1>6. CASE StartDistribute \/ FinishEvidence
  BY <1>1, <1>6 DEF StartDistribute, FinishEvidence, tree, pots
<1>7. ASSUME NEW t \in Thread, ThreadStep(t) PROVE [PP!Next]_PP!vars
  <2>1. obs' = obs
    BY <1>7, QuietSteps DEF tree
  <2>2. CASE UNCHANGED pots
    BY <1>1, <2>1, <2>2 DEF pots
  <2>3. CASE WriteUp(t)
    <3>1. /\ node[t] \in Clq \ {root} /\ ~ Told(node[t])
          /\ PP!CanSend(node[t], Up(root, node[t]))
      BY <2>3, UpReady DEF WriteUp
    <3>2. Up(root, node[t]) \in Nbrs(node[t])
      BY <3>1, Above DEF IInv, ControlOK
    <3>3. <<Up(root, node[t]), node[t]>> \notin got
      BY <3>1 DEF Told
    <3>4. Write(node[t], Up(root, node[t]), TRUE, clq[node[t]], clq[Up(root, node[t])])
      BY <2>3, ThreadWrites
    <3> QED
      BY <1>2, <2>1, <3>1, <3>2, <3>3, <3>4
  <2>4. CASE WriteDown(t)
    <3>1. /\ node[t] \in Clq /\ Sink(t) \in Nbrs(node[t]) /\ PP!CanSend(node[t], Sink(t))
      BY <2>4, DownReady DEF WriteDown, Busy
    <3>2. Write(node[t], Sink(t), FALSE, clq[node[t]], clq[Sink(t)])
      BY <2>4, ThreadWrites
    <3> QED
      BY <1>2, <2>1, <3>1, <3>2
  <2> QED
    BY <1>7, <2>2, <2>3, <2>4, QuietSteps
<1>8. CASE UNCHANGED vars
  BY <1>1, <1>8 DEF vars, tree, pots
<1> QED
  BY <1>3, <1>4, <1>5, <1>6, <1>7, <1>8 DEF Next, Master

-------------------------------------------------------------------------------
(***************************************************************************)
(* The steps of CollectEvidenceOMP_gau.                                    *)
(***************************************************************************)

\* Every step keeps the types of what the threads share and have.
LEMMA SharedStep ==
  ASSUME IInv, NEW t \in Thread, ThreadStep(t)
  PROVE  SharedOK'
<1>0. root \in Clq
  BY DEF IInv, ControlOK
<1>1. SharedOK /\ clq \in [Clq -> Potential]
  BY SamePotentials DEF IInv, PP!IInv, PP!TypeOK
<1>2. cond \in [Arc -> Int] /\ left \in [Clq -> Int]
  BY <1>1 DEF SharedOK
<1>3. CASE CollectStep(t)
  <2>1. CASE TestQueue(t) \/ CheckNode(t)
    <3>1. UNCHANGED <<cond, left, parentsLock, node, msg>>
      BY <2>1 DEF TestQueue, CheckNode, shared
    <3>2. pc' \in [Thread -> CollectPc \cup DistributePc]
      <4>1. \E p \in {"out", "take", "lock", "test", "scan"} : Goto(t, p)
        BY <2>1 DEF TestQueue, CheckNode
      <4> QED
        BY <1>1, <4>1 DEF SharedOK, Goto, CollectPc, DistributePc
    <3>3. todo' \in [Thread -> SUBSET Clq]
      <4>1. Nbrs(node[t]) \in SUBSET Clq
        BY DEF Nbrs
      <4>2. todo' = todo \/ todo' = [todo EXCEPT ![t] = Nbrs(node[t])]
        BY <2>1 DEF TestQueue, CheckNode
      <4> QED
        BY <1>1, <4>1, <4>2 DEF SharedOK
    <3> QED
      BY <1>1, <3>1, <3>2, <3>3 DEF SharedOK
  <2>2. CASE TakeNode(t)
    <3>1. phase = "CollectEvidenceOMP_gau"
      BY <2>2, InPhase DEF TakeNode, CollectPc
    <3>2. queue = <<>> \/ Head(queue) \in Clq
      BY <3>1, EmptySeq, HeadTailProperties DEF IInv, Gathering, Queueing
    <3> QED
      BY <1>1, <2>2, <3>2 DEF TakeNode, SharedOK, Goto, CollectPc, DistributePc
  <2>3. CASE LockParent(t)
    <3>1. pc[t] = "lock" /\ nbrsTypes[node[t]] \in Clq
      <4>1. pc[t] = "lock"
        BY <2>3 DEF LockParent
      <4>2. node[t] \in Clq \ {root} /\ nbrsTypes[node[t]] = Up(root, node[t])
        BY <4>1, UpReady
      <4> QED
        BY <1>0, <4>1, <4>2, Above
    <3> QED
      BY <1>1, <2>3, <3>1 DEF LockParent, SharedOK, Goto, CollectPc, DistributePc
  <2>4. CASE ReadUp(t)
    <3>1. nbrsTypes[node[t]] \in Clq /\ node[t] \in Clq
      <4>1. pc[t] = "read up"
        BY <2>4 DEF ReadUp
      <4>2. node[t] \in Clq \ {root} /\ nbrsTypes[node[t]] = Up(root, node[t])
        BY <4>1, UpReady
      <4> QED
        BY <1>0, <4>2, Above
    <3> QED
      BY <1>1, <2>4, <3>1 DEF ReadUp, Read, SharedOK, shared, Goto, CollectPc, DistributePc
  <2>5. CASE WriteUp(t)
    <3>1. parentsLock' = [parentsLock EXCEPT ![Up(root, node[t])] = Free]
      BY <2>5, ThreadWrites
    <3> QED
      BY <1>1, <2>5, <3>1 DEF WriteUp, SharedOK, Goto, CollectPc, DistributePc
  <2>6. CASE SignalParent(t)
    <3>1. cond' \in [Arc -> Int]
      <4> DEFINE a == <<nbrsTypes[node[t]], node[t]>>
      <4>1. cond' = [cond EXCEPT ![a] = 1]
        BY <2>6 DEF SignalParent
      <4>2. a \in Arc
        BY <2>6, SignalReady DEF SignalParent
      <4> HIDE DEF a
      <4> QED
        BY <1>2, <4>1, <4>2
    <3> QED
      BY <1>1, <2>6, <3>1 DEF SignalParent, SharedOK, Goto, CollectPc, DistributePc
  <2>7. CASE ScanCondition(t)
    <3>1. cond' \in [Arc -> Int]
      BY <1>2, <2>7 DEF ScanCondition
    <3>2. left' \in [Clq -> Int]
      BY <1>2, <2>7 DEF ScanCondition
    <3> QED
      BY <1>1, <2>7, <3>1, <3>2 DEF ScanCondition, SharedOK
  <2>8. CASE RequeueNode(t)
    BY <1>1, <2>8 DEF RequeueNode, SharedOK, Goto, CollectPc, DistributePc
  <2> QED
    BY <1>3, <2>1, <2>2, <2>3, <2>4, <2>5, <2>6, <2>7, <2>8 DEF CollectStep
<1>4. CASE DistributeStep(t)
  <2>1. CASE TestEndPar(t)
    BY <1>1, <2>1 DEF TestEndPar, SharedOK, shared, Goto, CollectPc, DistributePc
  <2>2. CASE TakeFront(t)
    <3>1. phase = "DistributeEvidenceOMP"
      BY <2>2, InPhase DEF TakeFront, DistributePc
    <3>2. source = <<>> \/ Head(source) \in Clq
      BY <3>1, EmptySeq, HeadTailProperties DEF IInv, Distributing
    <3>3. Nbrs(Head(source)) \in SUBSET Clq
      BY DEF Nbrs
    <3> QED
      BY <1>1, <2>2, <3>2, <3>3 DEF TakeFront, SharedOK, shared, Goto, CollectPc, DistributePc
  <2>3. CASE SkipNbr(t)
    BY <1>1, <2>3 DEF SkipNbr, SharedOK, shared
  <2>4. CASE ClaimNbr(t)
    <3>1. cond' \in [Arc -> Int]
      <4> DEFINE a == <<node[t], Sink(t)>>
      <4>1. cond' = [cond EXCEPT ![a] = 1]
        BY <2>4 DEF ClaimNbr
      <4>2. a \in Arc
        BY <2>4, NbrsReady DEF ClaimNbr
      <4> HIDE DEF a
      <4> QED
        BY <1>2, <4>1, <4>2
    <3>2. left' \in [Clq -> Int]
      <4>1. node[t] \in Clq
        BY <1>1 DEF SharedOK
      <4>2. left' = [left EXCEPT ![node[t]] = left[node[t]] - 1]
        BY <2>4 DEF ClaimNbr
      <4> QED
        BY <1>2, <4>1, <4>2
    <3> QED
      BY <1>1, <2>4, <3>1, <3>2 DEF ClaimNbr, SharedOK, Goto, CollectPc, DistributePc
  <2>5. CASE ReadDown(t)
    <3>1. node[t] \in Clq /\ Sink(t) \in Clq
      BY <2>5, DownReady DEF ReadDown, Busy
    <3> QED
      BY <1>1, <2>5, <3>1 DEF ReadDown, Read, SharedOK, shared, Goto, CollectPc, DistributePc
  <2>6. CASE WriteDown(t)
    BY <1>1, <2>6 DEF WriteDown, SharedOK, shared, Goto, CollectPc, DistributePc
  <2>7. CASE DecCount(t)
    BY <1>1, <2>7 DEF DecCount, SharedOK, Goto, CollectPc, DistributePc
  <2>8. CASE PushNbr(t)
    BY <1>1, <2>8 DEF PushNbr, SharedOK, Goto, CollectPc, DistributePc
  <2>9. CASE NbrsDone(t) \/ PopFront(t)
    BY <1>1, <2>9 DEF NbrsDone, PopFront, SharedOK, Goto, CollectPc, DistributePc
  <2> QED
    BY <1>4, <2>1, <2>2, <2>3, <2>4, <2>5, <2>6, <2>7, <2>8, <2>9 DEF DistributeStep
<1> QED
  BY <1>3, <1>4 DEF ThreadStep

\* Who has which clique stays as it is, but for the root.
LEMMA QueueingSame ==
  ASSUME Queueing, UNCHANGED <<root, queue, got>>,
         \A u \in Thread : Has(u)' => Has(u) /\ node'[u] = node[u],
         \A u \in Thread : Has(u) /\ node[u] # root => Has(u)',
         \A u \in Thread : pc'[u] = "signal" <=> pc[u] = "signal",
         queue # <<>> => ~ AllOut'
  PROVE  Queueing'
<1>1. \A c \in Clq : Among(queue', c) = Among(queue, c) /\ SentUp(c)' = SentUp(c)
  BY DEF SentUp
<1>2. ASSUME NEW u \in Thread, Has(u)' PROVE ~ Among(queue', node[u])
  BY <1>2 DEF Queueing
<1>3. ASSUME NEW u \in Thread, NEW v \in Thread, Has(u)', Has(v)', node'[u] = node'[v]
      PROVE  u = v
  BY <1>3 DEF Queueing
<1>4. ASSUME NEW c \in Clq \ {root}
      PROVE  SentUp(c)' <=>
               ~ Among(queue', c) /\ \A u \in Thread : Has(u)' /\ node'[u] = c => pc'[u] = "signal"
  <2>1. \A u \in Thread : Has(u)' /\ node'[u] = c <=> Has(u) /\ node[u] = c
    OBVIOUS
  <2> QED
    BY <1>1, <2>1 DEF Queueing
<1> QED
  BY <1>2, <1>3, <1>4 DEF Queueing

\* What m_NodeConditions says stays right as long as nobody comes to signal.
LEMMA SignallingSame ==
  ASSUME Signalling, UNCHANGED <<root, got, cond, left>>,
         \A u \in Thread : pc'[u] = "signal" => pc[u] = "signal" /\ node'[u] = node[u]
  PROVE  Signalling'
<1>1. \A c \in Clq : Children(c)' = Children(c) /\ SentUp(c)' = SentUp(c)
  BY DEF Children, SentUp
<1>2. ASSUME NEW c \in Clq \ {root}
      PROVE  /\ cond'[<<c, Up(root, c)>>] = 0
             /\ cond'[<<Up(root, c), c>>] # 0 =>
                  SentUp(c)' /\ \A u \in Thread : ~ (pc'[u] = "signal" /\ node'[u] = c)
  BY <1>1 DEF Signalling
<1>3. \A c \in Clq : left'[c] = Cardinality({d \in Children(c)' : cond'[<<c, d>>] # 2})
  BY <1>1 DEF Signalling
<1> QED
  BY <1>2, <1>3 DEF Signalling

\* A thread that does nothing is not disturbed as long as the shared variables that it
\* relies on stay.
LEMMA UploadingSame ==
  ASSUME NEW u \in Thread, Uploading(u), root' = root,
         pc'[u] = pc[u], node'[u] = node[u], todo'[u] = todo[u], msg'[u] = msg[u],
         pc[u] \in {"lock", "read up", "write up"} => left'[node[u]] = left[node[u]],
         pc[u] \in {"read up", "write up"} =>
           parentsLock'[Up(root, node[u])] = parentsLock[Up(root, node[u])],
         pc[u] = "write up" => /\ clq'[node[u]] = clq[node[u]]
                               /\ clq'[Up(root, node[u])] = clq[Up(root, node[u])]
  PROVE  Uploading(u)'
  BY DEF Uploading

\* What a step of this phase has to keep.
LEMMA GatheringStep ==
  ASSUME IInv, phase = "CollectEvidenceOMP_gau", UNCHANGED <<tree, phase>>,
         got' \subseteq UpArcs(root, Clq), Queueing', Signalling',
         \A u \in Thread : pc'[u] \in CollectPc /\ Uploading(u)'
  PROVE  Gathering'
  BY DEF IInv, Gathering, tree, UpArcs

\* The steps that only look, and the lock.
LEMMA LookingStep ==
  ASSUME IInv, NEW t \in Thread, TestQueue(t) \/ CheckNode(t) \/ LockParent(t) \/ ReadUp(t)
  PROVE  Gathering'
<1>1. /\ phase = "CollectEvidenceOMP_gau" /\ UNCHANGED <<tree, phase>> /\ root' = root
      /\ UNCHANGED <<got, clq, queue, cond, left, node>>
  BY InPhase DEF CollectPc, TestQueue, CheckNode, LockParent, ReadUp, Read, tree, pots, shared
<1>2. /\ SharedOK /\ Queueing /\ Signalling /\ got \subseteq UpArcs(root, Clq)
      /\ \A u \in Thread : pc[u] \in CollectPc /\ Uploading(u)
  BY <1>1 DEF IInv, Gathering
<1>3. \A u \in Thread \ {t} : pc'[u] = pc[u] /\ todo'[u] = todo[u] /\ msg'[u] = msg[u]
  BY <1>2 DEF TestQueue, CheckNode, LockParent, ReadUp, Read, Goto, SharedOK
<1>4. /\ pc[t] \in {"test", "check", "lock", "read up"}
      /\ pc[t] = "test" => pc'[t] = IF queue = <<>> THEN "out" ELSE "take"
      /\ pc[t] = "check" =>
           \/ pc'[t] = "lock" /\ node[t] # root /\ left[node[t]] = 0
           \/ pc'[t] = "test" /\ node[t] = root
           \/ pc'[t] = "scan" /\ todo'[t] = Nbrs(node[t])
      /\ pc[t] = "lock" => /\ pc'[t] = "read up" /\ parentsLock[nbrsTypes[node[t]]] = Free
                           /\ parentsLock' = [parentsLock EXCEPT ![nbrsTypes[node[t]]] = t]
      /\ pc[t] = "read up" => /\ pc'[t] = "write up" /\ msg'[t].source = clq[node[t]]
                              /\ msg'[t].sink = clq[nbrsTypes[node[t]]]
      /\ pc[t] # "lock" => parentsLock' = parentsLock
  <2>1. SharedOK
    BY <1>2
  <2>2. CASE TestQueue(t)
    BY <2>1, <2>2 DEF TestQueue, Goto, SharedOK, shared
  <2>3. CASE CheckNode(t)
    BY <2>1, <2>3 DEF CheckNode, Goto, SharedOK, shared
  <2>4. CASE LockParent(t)
    BY <2>1, <2>4 DEF LockParent, Goto, SharedOK
  <2>5. CASE ReadUp(t)
    BY <2>1, <2>5 DEF ReadUp, Read, Goto, SharedOK, shared
  <2> QED
    BY <2>2, <2>3, <2>4, <2>5
<1>5. Queueing'
  <2>1. /\ \A u \in Thread : Has(u)' => Has(u) /\ node'[u] = node[u]
        /\ \A u \in Thread : Has(u) /\ node[u] # root => Has(u)'
        /\ \A u \in Thread : pc'[u] = "signal" <=> pc[u] = "signal"
    BY <1>1, <1>3, <1>4 DEF Has
  <2>2. queue # <<>> => ~ AllOut'
    BY <1>2, <1>4 DEF AllOut, CollectPc
  <2> QED
    BY <1>1, <1>2, <2>1, <2>2, QueueingSame
<1>6. Signalling'
  <2>1. \A u \in Thread : pc'[u] = "signal" => pc[u] = "signal" /\ node'[u] = node[u]
    BY <1>1, <1>3, <1>4
  <2> QED
    BY <1>1, <1>2, <2>1, SignallingSame
<1>7. ASSUME NEW u \in Thread PROVE pc'[u] \in CollectPc /\ Uploading(u)'
  <2>1. CASE u = t
    <3>1. CASE pc[t] \in {"test", "check"}
      BY <1>1, <1>4, <2>1, <3>1 DEF CollectPc, Uploading
    <3>2. CASE pc[t] \in {"lock", "read up"}
      <4>1. /\ node[t] \in Clq \ {root} /\ nbrsTypes[node[t]] = Up(root, node[t])
            /\ Up(root, node[t]) \in Clq
        BY <3>2, UpReady, Above DEF IInv, ControlOK
      <4>2. /\ node[t] # root /\ left[node[t]] = 0
            /\ pc[t] = "read up" => parentsLock[Up(root, node[t])] = t
        BY <1>2, <3>2 DEF Uploading
      <4>3. parentsLock'[Up(root, node[t])] = t
        BY <1>2, <1>4, <3>2, <4>1, <4>2 DEF SharedOK
      <4> QED
        BY <1>1, <1>4, <2>1, <3>2, <4>1, <4>2, <4>3 DEF CollectPc, Uploading
    <3> QED
      BY <1>4, <3>1, <3>2
  <2>2. CASE u # t
    <3>1. pc[u] \in {"read up", "write up"} =>
            parentsLock'[Up(root, node[u])] = parentsLock[Up(root, node[u])]
      <4>1. CASE pc[t] = "lock" /\ pc[u] \in {"read up", "write up"}
        <5>1. parentsLock[Up(root, node[u])] = u /\ u # Free
          BY <1>2, <4>1, TeamAssumption DEF Uploading, TeamAssumption
        <5>2. nbrsTypes[node[t]] # Up(root, node[u])
          BY <1>4, <4>1, <5>1
        <5>3. Up(root, node[u]) \in Clq
          BY <4>1, UpReady, Above DEF IInv, ControlOK
        <5> QED
          BY <1>2, <1>4, <4>1, <5>2, <5>3 DEF SharedOK
      <4> QED
        BY <1>4, <4>1
    <3> QED
      BY <1>1, <1>2, <1>3, <2>2, <3>1, UploadingSame
  <2> QED
    BY <2>1, <2>2
<1> QED
  BY <1>1, <1>2, <1>5, <1>6, <1>7, GatheringStep

\* Who is in a queue that the front is taken from, and in one that a clique is added to.
LEMMA TakenFromQueue ==
  ASSUME NEW q \in Seq(Clq), q # <<>>
  PROVE  /\ Head(q) \in Clq /\ Tail(q) \in Seq(Clq) /\ Among(q, Head(q))
         /\ \A c : Among(q, c) <=> c = Head(q) \/ Among(Tail(q), c)
         /\ Distinct(q) => Distinct(Tail(q)) /\ ~ Among(Tail(q), Head(q))
<1> DEFINE h == Head(q)
           r == Tail(q)
<1>1. /\ h \in Clq /\ h = q[1] /\ Len(q) \in Nat \ {0}
      /\ r \in Seq(Clq) /\ Len(r) = Len(q) - 1
      /\ \A n \in 1 .. Len(r) : r[n] = q[n + 1]
  BY HeadTailProperties, EmptySeq
<1> HIDE DEF h, r
<1>2. /\ \A n \in 1 .. Len(r) : n + 1 \in 1 .. Len(q) /\ n + 1 # 1
      /\ \A n \in 1 .. Len(q) : n = 1 \/ (n - 1 \in 1 .. Len(r) /\ (n - 1) + 1 = n)
      /\ 1 \in 1 .. Len(q)
  BY <1>1
<1>3. Among(q, h)
  BY <1>1, <1>2 DEF Among
<1>4. ASSUME NEW c, Among(r, c) PROVE Among(q, c)
  BY <1>1, <1>2, <1>4 DEF Among
<1>5. ASSUME NEW c, Among(q, c), c # h PROVE Among(r, c)
  <2>1. PICK n \in 1 .. Len(q) : q[n] = c
    BY <1>5 DEF Among
  <2>2. n - 1 \in 1 .. Len(r) /\ (n - 1) + 1 = n
    BY <1>1, <1>2, <1>5, <2>1
  <2>3. r[n - 1] = c
    BY <1>1, <2>1, <2>2
  <2> QED
    BY <2>2, <2>3 DEF Among
<1>6. ASSUME Distinct(q), NEW m \in 1 .. Len(r), NEW n \in 1 .. Len(r), r[m] = r[n] PROVE m = n
  <2>1. m + 1 \in 1 .. Len(q) /\ n + 1 \in 1 .. Len(q) /\ q[m + 1] = q[n + 1]
    BY <1>1, <1>2, <1>6
  <2>2. m + 1 = n + 1
    BY <1>6, <2>1 DEF Distinct
  <2> QED
    BY <2>2
<1>7. ASSUME Distinct(q) PROVE ~ Among(r, h)
  BY <1>1, <1>2, <1>7 DEF Among, Distinct
<1>8. \A c : Among(q, c) <=> c = h \/ Among(r, c)
  BY <1>3, <1>4, <1>5
<1>9. Distinct(q) => Distinct(r)
  BY <1>6 DEF Distinct
<1> QED
  BY <1>1, <1>3, <1>7, <1>8, <1>9 DEF h, r

LEMMA AddedToQueue ==
  ASSUME NEW q \in Seq(Clq), NEW x \in Clq
  PROVE  /\ Append(q, x) \in Seq(Clq) /\ Append(q, x) # <<>>
         /\ \A c : Among(Append(q, x), c) <=> c = x \/ Among(q, c)
         /\ Distinct(q) /\ ~ Among(q, x) => Distinct(Append(q, x))
<1> DEFINE r == Append(q, x)
<1>1. /\ r \in Seq(Clq) /\ Len(r) = Len(q) + 1 /\ r[Len(q) + 1] = x /\ Len(q) \in Nat
      /\ \A n \in 1 .. Len(q) : r[n] = q[n]
  BY AppendProperties
<1> HIDE DEF r
<1>2. 1 .. Len(r) = (1 .. Len(q)) \cup {Len(q) + 1} /\ r # <<>>
  BY <1>1, EmptySeq
<1>3. \A c : Among(r, c) <=> c = x \/ Among(q, c)
  BY <1>1, <1>2 DEF Among
<1>4. ASSUME Distinct(q), ~ Among(q, x) PROVE Distinct(r)
  BY <1>1, <1>2, <1>4 DEF Among, Distinct
<1> QED
  BY <1>1, <1>2, <1>3, <1>4 DEF r

\* A clique is taken from the queue.
LEMMA TakeNodeStep ==
  ASSUME IInv, NEW t \in Thread, TakeNode(t)
  PROVE  Gathering'
<1>1. /\ phase = "CollectEvidenceOMP_gau" /\ UNCHANGED <<tree, phase>> /\ root' = root
      /\ UNCHANGED <<got, clq, cond, left, parentsLock, todo, msg>>
  BY InPhase DEF CollectPc, TakeNode, tree, pots
<1>2. /\ SharedOK /\ Queueing /\ Signalling /\ got \subseteq UpArcs(root, Clq)
      /\ \A u \in Thread : pc[u] \in CollectPc /\ Uploading(u)
  BY <1>1 DEF IInv, Gathering
<1>3. pc[t] = "take" /\ \A u \in Thread \ {t} : pc'[u] = pc[u] /\ node'[u] = node[u]
  BY <1>2 DEF TakeNode, Goto, SharedOK
<1>4. \/ queue = <<>> /\ pc'[t] = "test" /\ UNCHANGED <<queue, node>>
      \/ /\ queue # <<>> /\ pc'[t] = "check"
         /\ node'[t] = Head(queue) /\ queue' = Tail(queue)
  BY <1>2 DEF TakeNode, Goto, SharedOK
<1>5. Queueing'
  <2>1. CASE queue = <<>>
    <3>1. /\ \A u \in Thread : Has(u)' => Has(u) /\ node'[u] = node[u]
          /\ \A u \in Thread : Has(u) /\ node[u] # root => Has(u)'
          /\ \A u \in Thread : pc'[u] = "signal" <=> pc[u] = "signal"
      BY <1>3, <1>4, <2>1 DEF Has
    <3> QED
      BY <1>1, <1>2, <1>4, <2>1, <3>1, QueueingSame
  <2>2. CASE queue # <<>>
    <3> DEFINE h == Head(queue)
    <3>1. /\ \A u \in Thread : Has(u)' <=> Has(u) \/ u = t
          /\ \A u \in Thread : Has(u) => u # t /\ node'[u] = node[u] /\ pc'[u] = pc[u]
          /\ node'[t] = h /\ pc'[t] = "check"
      BY <1>3, <1>4, <2>2 DEF Has
    <3>2. queue \in Seq(Clq) /\ Distinct(queue)
      BY <1>2 DEF Queueing
    <3>3. /\ h \in Clq /\ queue' \in Seq(Clq) /\ Distinct(queue') /\ Among(queue, h)
          /\ \A c : Among(queue, c) <=> c = h \/ Among(queue', c)
          /\ ~ Among(queue', h)
      <4>1. queue' = Tail(queue)
        BY <1>4, <2>2
      <4> QED
        BY <2>2, <3>2, <4>1, TakenFromQueue
    <3> HIDE DEF h
    <3>4. ASSUME NEW u \in Thread, Has(u) PROVE ~ Among(queue, node[u]) /\ node[u] # h
      BY <1>2, <3>3, <3>4 DEF Queueing
    <3>5. ASSUME NEW u \in Thread, Has(u)' PROVE ~ Among(queue', node'[u])
      BY <3>1, <3>3, <3>4, <3>5
    <3>6. ASSUME NEW u \in Thread, NEW v \in Thread, Has(u)', Has(v)', node'[u] = node'[v]
          PROVE  u = v
      BY <1>2, <3>1, <3>4, <3>6 DEF Queueing
    <3>7. ASSUME NEW c \in Clq \ {root}
          PROVE  SentUp(c)' <=>
                   ~ Among(queue', c) /\ \A u \in Thread : Has(u)' /\ node'[u] = c => pc'[u] = "signal"
      <4>1. /\ SentUp(c)' = SentUp(c)
            /\ SentUp(c) <=>
                 ~ Among(queue, c) /\ \A u \in Thread : Has(u) /\ node[u] = c => pc[u] = "signal"
        BY <1>1, <1>2 DEF SentUp, Queueing
      <4>2. CASE c = h
        BY <3>1, <3>3, <4>1, <4>2
      <4>3. CASE c # h
        BY <3>1, <3>3, <4>1, <4>3
      <4> QED
        BY <4>2, <4>3
    <3>8. ~ AllOut'
      BY <3>1 DEF AllOut
    <3> QED
      BY <1>1, <3>3, <3>5, <3>6, <3>7, <3>8 DEF Queueing
  <2> QED
    BY <2>1, <2>2
<1>6. Signalling'
  <2>1. \A u \in Thread : pc'[u] = "signal" => pc[u] = "signal" /\ node'[u] = node[u]
    BY <1>3, <1>4
  <2> QED
    BY <1>1, <1>2, <2>1, SignallingSame
<1>7. ASSUME NEW u \in Thread PROVE pc'[u] \in CollectPc /\ Uploading(u)'
  <2>1. CASE u = t
    BY <1>1, <1>4, <2>1 DEF CollectPc, Uploading
  <2>2. CASE u # t
    BY <1>1, <1>2, <1>3, <2>2, UploadingSame
  <2> QED
    BY <2>1, <2>2
<1> QED
  BY <1>1, <1>2, <1>5, <1>6, <1>7, GatheringStep

\* A clique that has still to wait goes back to the queue.
LEMMA RequeueNodeStep ==
  ASSUME IInv, NEW t \in Thread, RequeueNode(t)
  PROVE  Gathering'
<1> DEFINE i == node[t]
<1>1. /\ phase = "CollectEvidenceOMP_gau" /\ UNCHANGED <<tree, phase>> /\ root' = root
      /\ UNCHANGED <<got, clq, cond, left, parentsLock, node, todo, msg>>
  BY InPhase DEF CollectPc, RequeueNode, tree, pots
<1>2. /\ SharedOK /\ Queueing /\ Signalling /\ got \subseteq UpArcs(root, Clq)
      /\ \A u \in Thread : pc[u] \in CollectPc /\ Uploading(u)
  BY <1>1 DEF IInv, Gathering
<1>3. /\ pc[t] = "scan" /\ pc'[t] = "test" /\ queue' = Append(queue, i) /\ i \in Clq
      /\ \A u \in Thread \ {t} : pc'[u] = pc[u]
  BY <1>2 DEF RequeueNode, Goto, SharedOK
<1>4. Queueing'
  <2>1. /\ \A u \in Thread : Has(u) <=> Has(u)' \/ u = t
        /\ \A u \in Thread : Has(u)' => u # t /\ pc'[u] = pc[u]
    BY <1>3 DEF Has
  <2>2. queue \in Seq(Clq) /\ Distinct(queue) /\ ~ Among(queue, i)
    BY <1>2, <2>1 DEF Queueing
  <2>3. /\ queue' \in Seq(Clq) /\ Distinct(queue')
        /\ \A c : Among(queue', c) <=> c = i \/ Among(queue, c)
    BY <1>3, <2>2, AddedToQueue
  <2> HIDE DEF i
  <2>4. ASSUME NEW u \in Thread, Has(u)' PROVE ~ Among(queue, node[u]) /\ node[u] # i
    BY <1>2, <2>1, <2>4 DEF Queueing, i
  <2>5. ASSUME NEW u \in Thread, Has(u)' PROVE ~ Among(queue', node'[u])
    BY <1>1, <2>3, <2>4, <2>5
  <2>6. ASSUME NEW u \in Thread, NEW v \in Thread, Has(u)', Has(v)', node'[u] = node'[v]
        PROVE  u = v
    BY <1>1, <1>2, <2>1, <2>6 DEF Queueing
  <2>7. ASSUME NEW c \in Clq \ {root}
        PROVE  SentUp(c)' <=>
                 ~ Among(queue', c) /\ \A u \in Thread : Has(u)' /\ node'[u] = c => pc'[u] = "signal"
    <3>1. /\ SentUp(c)' = SentUp(c)
          /\ SentUp(c) <=>
               ~ Among(queue, c) /\ \A u \in Thread : Has(u) /\ node[u] = c => pc[u] = "signal"
      BY <1>1, <1>2 DEF SentUp, Queueing
    <3>2. CASE c = i
      BY <1>3, <2>1, <2>3, <3>1, <3>2 DEF i
    <3>3. CASE c # i
      BY <1>1, <2>1, <2>3, <3>1, <3>3 DEF i
    <3> QED
      BY <3>2, <3>3
  <2>8. ~ AllOut'
    BY <1>3 DEF AllOut
  <2> QED
    BY <1>1, <2>3, <2>5, <2>6, <2>7, <2>8 DEF Queueing
<1>5. Signalling'
  <2>1. \A u \in Thread : pc'[u] = "signal" => pc[u] = "signal" /\ node'[u] = node[u]
    BY <1>1, <1>3
  <2> QED
    BY <1>1, <1>2, <2>1, SignallingSame
<1>6. ASSUME NEW u \in Thread PROVE pc'[u] \in CollectPc /\ Uploading(u)'
  <2>1. CASE u = t
    BY <1>1, <1>3, <2>1 DEF CollectPc, Uploading
  <2>2. CASE u # t
    BY <1>1, <1>2, <1>3, <2>2, UploadingSame
  <2> QED
    BY <2>1, <2>2
<1> QED
  BY <1>1, <1>2, <1>4, <1>5, <1>6, GatheringStep

\* A clique sends up.
LEMMA WriteUpStep ==
  ASSUME IInv, NEW t \in Thread, WriteUp(t)
  PROVE  Gathering'
<1> DEFINE i == node[t]
           j == Up(root, i)
<1>1. /\ phase = "CollectEvidenceOMP_gau" /\ UNCHANGED <<tree, phase>> /\ root' = root
      /\ UNCHANGED <<queue, cond, left, node, todo, msg>> /\ pc[t] = "write up"
  BY InPhase DEF CollectPc, WriteUp, tree
<1>2. /\ SharedOK /\ Queueing /\ Signalling /\ got \subseteq UpArcs(root, Clq)
      /\ \A u \in Thread : pc[u] \in CollectPc /\ Uploading(u)
      /\ clq \in [Clq -> Potential] /\ root \in Clq
  BY <1>1, SamePotentials DEF IInv, ControlOK, Gathering, PP!IInv, PP!TypeOK
<1>3. pc'[t] = "signal" /\ \A u \in Thread \ {t} : pc'[u] = pc[u]
  BY <1>2 DEF WriteUp, Goto, SharedOK
<1>4. /\ i \in Clq \ {root} /\ ~ SentUp(i) /\ \A d \in Children(i) : SentUp(d)
      /\ j \in Clq /\ j # i
  BY <1>1, <1>2, UpReady, Above
<1>5. /\ got' = got \cup {<<i, j>>}
      /\ parentsLock' = [parentsLock EXCEPT ![j] = Free]
      /\ \A c \in Clq \ {j} : clq'[c] = clq[c]
  <2>1. /\ Write(i, j, TRUE, clq[i], clq[j])
        /\ parentsLock' = [parentsLock EXCEPT ![j] = Free]
    BY ThreadWrites
  <2> QED
    BY <1>2, <2>1 DEF Write
<1> HIDE DEF i, j
<1>6. \A c \in Clq \ {root} : SentUp(c)' <=> SentUp(c) \/ c = i
  BY <1>1, <1>5 DEF SentUp, j
<1>7. /\ ~ Among(queue, i) /\ \A u \in Thread : Has(u) <=> Has(u)'
      /\ Has(t) /\ \A u \in Thread : Has(u) /\ node[u] = i => u = t
  <2>1. Has(t) /\ \A u \in Thread : Has(u) <=> Has(u)'
    BY <1>1, <1>3 DEF Has
  <2> QED
    BY <1>2, <2>1 DEF Queueing, i
<1>8. Queueing'
  <2>1. ASSUME NEW c \in Clq \ {root}
        PROVE  SentUp(c)' <=>
                 /\ ~ Among(queue', c)
                 /\ \A u \in Thread : Has(u)' /\ node'[u] = c => pc'[u] = "signal"
    <3>1. SentUp(c) <=>
            ~ Among(queue, c) /\ \A u \in Thread : Has(u) /\ node[u] = c => pc[u] = "signal"
      BY <1>2 DEF Queueing
    <3>2. CASE c = i
      BY <1>1, <1>3, <1>6, <1>7, <3>2
    <3>3. CASE c # i
      BY <1>1, <1>3, <1>6, <1>7, <3>1, <3>3 DEF i
    <3> QED
      BY <3>2, <3>3
  <2>2. ~ AllOut'
    BY <1>3 DEF AllOut
  <2>3. /\ \A u \in Thread : Has(u)' => ~ Among(queue', node'[u])
        /\ \A u, v \in Thread : Has(u)' /\ Has(v)' /\ node'[u] = node'[v] => u = v
    BY <1>1, <1>2, <1>7 DEF Queueing
  <2> QED
    BY <1>1, <1>2, <2>1, <2>2, <2>3 DEF Queueing
<1>9. Signalling'
  <2>1. ASSUME NEW c \in Clq \ {root}, cond[<<Up(root, c), c>>] # 0
        PROVE  SentUp(c)' /\ \A u \in Thread : ~ (pc'[u] = "signal" /\ node'[u] = c)
    <3>1. SentUp(c) /\ \A u \in Thread : ~ (pc[u] = "signal" /\ node[u] = c)
      BY <1>2, <2>1 DEF Signalling
    <3>2. c # i
      BY <1>4, <3>1 DEF i
    <3> QED
      BY <1>1, <1>3, <1>6, <3>1, <3>2 DEF i
  <2>2. \A c \in Clq \ {root} : cond[<<c, Up(root, c)>>] = 0
    BY <1>2 DEF Signalling
  <2>3. \A c \in Clq : left'[c] = Cardinality({d \in Children(c)' : cond'[<<c, d>>] # 2})
    BY <1>1, <1>2 DEF Signalling, Children
  <2> QED
    BY <1>1, <2>1, <2>2, <2>3 DEF Signalling
<1>10. ASSUME NEW u \in Thread PROVE pc'[u] \in CollectPc /\ Uploading(u)'
  <2>1. CASE u = t
    BY <1>1, <1>3, <1>4, <2>1 DEF CollectPc, Uploading, i
  <2>2. CASE u # t
    <3>1. ASSUME pc[u] \in {"read up", "write up"}
          PROVE  /\ node[u] \in Clq \ {j} /\ Up(root, node[u]) \in Clq \ {j}
      <4>1. /\ node[u] \in Clq \ {root} /\ Up(root, node[u]) \in Clq
            /\ \A d \in Children(node[u]) : SentUp(d)
        BY <1>2, <3>1, UpReady, Above
      <4>2. node[u] # j
        BY <1>4, <4>1 DEF Children, i, j
      <4>3. Up(root, node[u]) # j
        BY <1>1, <1>2, <2>2, <3>1 DEF Uploading, i, j
      <4> QED
        BY <4>1, <4>2, <4>3
    <3>2. pc[u] \in {"read up", "write up"} =>
            parentsLock'[Up(root, node[u])] = parentsLock[Up(root, node[u])]
      BY <1>2, <1>5, <3>1 DEF SharedOK
    <3>3. pc[u] = "write up" => /\ clq'[node[u]] = clq[node[u]]
                                /\ clq'[Up(root, node[u])] = clq[Up(root, node[u])]
      BY <1>5, <3>1
    <3> QED
      BY <1>1, <1>2, <1>3, <2>2, <3>2, <3>3, UploadingSame
  <2> QED
    BY <2>1, <2>2
<1>11. got' \subseteq UpArcs(root, Clq)
  BY <1>2, <1>4, <1>5 DEF UpArcs, j
<1> QED
  BY <1>1, <1>8, <1>9, <1>10, <1>11, GatheringStep

\* The clique above is told.
LEMMA SignalParentStep ==
  ASSUME IInv, NEW t \in Thread, SignalParent(t)
  PROVE  Gathering'
<1> DEFINE i == node[t]
           j == Up(root, i)
           a == <<j, i>>
<1>1. /\ phase = "CollectEvidenceOMP_gau" /\ UNCHANGED <<tree, phase>> /\ root' = root
      /\ UNCHANGED <<got, clq, queue, left, parentsLock, node, todo, msg>> /\ pc[t] = "signal"
  BY InPhase DEF CollectPc, SignalParent, tree, pots
<1>2. /\ SharedOK /\ Queueing /\ Signalling /\ got \subseteq UpArcs(root, Clq)
      /\ \A u \in Thread : pc[u] \in CollectPc /\ Uploading(u)
      /\ root \in Clq
  BY <1>1 DEF IInv, ControlOK, Gathering
<1>3. pc'[t] = "test" /\ \A u \in Thread \ {t} : pc'[u] = pc[u]
  BY <1>2 DEF SignalParent, Goto, SharedOK
<1>4. /\ i \in Clq \ {root} /\ nbrsTypes[i] = j /\ a \in Arc /\ SentUp(i) /\ ~ Among(queue, i)
      /\ \A u \in Thread : Has(u) /\ node[u] = i => u = t
  BY <1>1, SignalReady
<1>5. cond' = [cond EXCEPT ![a] = 1] /\ cond[a] = 0 /\ cond \in [Arc -> Int]
  <2>1. cond' = [cond EXCEPT ![a] = 1]
    BY <1>4 DEF SignalParent
  <2>2. cond[a] = 0
    BY <1>1, <1>2, <1>4 DEF Signalling
  <2> QED
    BY <1>2, <2>1, <2>2 DEF SharedOK
<1>6. ~ (j # root /\ Up(root, j) = i) /\ j # i
  BY <1>2, <1>4, Above, UpOrDown
<1> DEFINE b(c, d) == <<c, d>>
<1>7. \A c, d : b(c, d) = a <=> c = j /\ d = i
  OBVIOUS
<1> HIDE DEF i, j, a
<1>8. \A c, d \in Clq : b(c, d) \in Arc => cond'[b(c, d)] = IF c = j /\ d = i THEN 1
                                                            ELSE cond[b(c, d)]
  BY <1>4, <1>5, <1>7
<1>9. Queueing'
  <2>1. \A u \in Thread : Has(u) <=> Has(u)' \/ u = t
    BY <1>1, <1>3 DEF Has
  <2>2. ASSUME NEW c \in Clq \ {root}
        PROVE  SentUp(c)' <=>
                 /\ ~ Among(queue', c)
                 /\ \A u \in Thread : Has(u)' /\ node'[u] = c => pc'[u] = "signal"
    <3>1. /\ SentUp(c)' = SentUp(c) /\ ~ Has(t)'
          /\ SentUp(c) <=>
               ~ Among(queue, c) /\ \A u \in Thread : Has(u) /\ node[u] = c => pc[u] = "signal"
      BY <1>1, <1>2, <1>3 DEF Queueing, SentUp, Has
    <3> QED
      BY <1>1, <1>3, <1>4, <2>1, <3>1 DEF i
  <2>3. ~ AllOut'
    BY <1>3 DEF AllOut
  <2>4. /\ \A u \in Thread : Has(u)' => ~ Among(queue', node'[u])
        /\ \A u, v \in Thread : Has(u)' /\ Has(v)' /\ node'[u] = node'[v] => u = v
    BY <1>1, <1>2, <2>1 DEF Queueing
  <2> QED
    BY <1>1, <1>2, <2>2, <2>3, <2>4 DEF Queueing
<1>10. Signalling'
  <2>1. ASSUME NEW c \in Clq \ {root}
        PROVE  /\ cond'[<<c, Up(root, c)>>] = 0
               /\ cond'[<<Up(root, c), c>>] # 0 =>
                    SentUp(c)' /\ \A u \in Thread : ~ (pc'[u] = "signal" /\ node'[u] = c)
    <3>1. /\ Up(root, c) \in Clq /\ b(c, Up(root, c)) \in Arc /\ b(Up(root, c), c) \in Arc
      BY <1>2, Above
    <3>2. /\ cond[<<c, Up(root, c)>>] = 0
          /\ cond[<<Up(root, c), c>>] # 0 =>
               SentUp(c) /\ \A u \in Thread : ~ (pc[u] = "signal" /\ node[u] = c)
      BY <1>2 DEF Signalling
    <3>3. cond'[<<c, Up(root, c)>>] = 0
      <4>1. ~ (c = j /\ Up(root, c) = i)
        BY <1>6
      <4> QED
        BY <1>8, <3>1, <3>2, <4>1
    <3>4. SentUp(c)' = SentUp(c)
      BY <1>1 DEF SentUp
    <3>5. CASE c = i
      BY <1>1, <1>3, <1>4, <3>3, <3>4, <3>5 DEF i, Has
    <3>6. CASE c # i
      <4>1. cond'[<<Up(root, c), c>>] = cond[<<Up(root, c), c>>]
        BY <1>8, <3>1, <3>6
      <4> QED
        BY <1>1, <1>3, <3>2, <3>3, <3>4, <3>6, <4>1 DEF i
    <3> QED
      BY <3>5, <3>6
  <2>2. ASSUME NEW c \in Clq
        PROVE  left'[c] = Cardinality({d \in Children(c)' : cond'[<<c, d>>] # 2})
    <3>1. ASSUME NEW d \in Children(c) PROVE cond'[<<c, d>>] # 2 <=> cond[<<c, d>>] # 2
      <4>1. d \in Clq /\ <<c, d>> \in Arc
        BY <1>2, <3>1, Above DEF Children
      <4>2. cond'[<<c, d>>] = IF c = j /\ d = i THEN 1 ELSE cond[<<c, d>>]
        BY <1>8, <4>1
      <4>3. c = j /\ d = i => cond[<<c, d>>] = 0
        BY <1>5 DEF a
      <4> QED
        BY <4>2, <4>3
    <3>2. Children(c)' = Children(c)
      BY <1>1 DEF Children
    <3>3. {d \in Children(c)' : cond'[<<c, d>>] # 2} = {d \in Children(c) : cond[<<c, d>>] # 2}
      BY <3>1, <3>2
    <3> QED
      BY <1>1, <1>2, <3>3 DEF Signalling
  <2> QED
    BY <1>1, <2>1, <2>2 DEF Signalling
<1>11. ASSUME NEW u \in Thread PROVE pc'[u] \in CollectPc /\ Uploading(u)'
  <2>1. CASE u = t
    BY <1>1, <1>3, <2>1 DEF CollectPc, Uploading
  <2>2. CASE u # t
    BY <1>1, <1>2, <1>3, <2>2, UploadingSame
  <2> QED
    BY <2>1, <2>2
<1> QED
  BY <1>1, <1>2, <1>9, <1>10, <1>11, GatheringStep

\* A clique counts a clique below it.
LEMMA ScanConditionStep ==
  ASSUME IInv, NEW t \in Thread, ScanCondition(t)
  PROVE  Gathering'
<1> DEFINE i == node[t]
           d == Sink(t)
           a == <<i, d>>
<1>1. /\ phase = "CollectEvidenceOMP_gau" /\ UNCHANGED <<tree, phase>> /\ root' = root
      /\ UNCHANGED <<got, clq, queue, parentsLock, pc, node, msg>> /\ pc[t] = "scan"
      /\ todo[t] # {}
  BY InPhase DEF CollectPc, ScanCondition, tree, pots
<1>2. /\ SharedOK /\ Queueing /\ Signalling /\ got \subseteq UpArcs(root, Clq)
      /\ \A u \in Thread : pc[u] \in CollectPc /\ Uploading(u)
      /\ root \in Clq
  BY <1>1 DEF IInv, ControlOK, Gathering
<1>3. /\ i \in Clq /\ d \in todo[t] /\ d \in Nbrs(i) /\ d \in Clq /\ a \in Arc
      /\ todo[t] \subseteq Nbrs(i)
  <2>1. i \in Clq /\ todo[t] \subseteq Nbrs(i)
    BY <1>1, <1>2 DEF SharedOK, Uploading
  <2> QED
    BY <1>1, <1>2, <2>1, SinkInTodo, NbrsSymmetric
<1>4. todo'[t] = todo[t] \ {d} /\ \A u \in Thread \ {t} : todo'[u] = todo[u]
  BY <1>2 DEF ScanCondition, SharedOK
<1>5. /\ cond \in [Arc -> Int] /\ left \in [Clq -> Int]
      /\ cond[a] # 1 => UNCHANGED <<cond, left>>
      /\ cond[a] = 1 => /\ cond' = [cond EXCEPT ![a] = 2]
                        /\ left' = [left EXCEPT ![i] = left[i] - 1]
  BY <1>2 DEF ScanCondition, SharedOK
<1> DEFINE b(c, e) == <<c, e>>
<1>6. \A c, e : b(c, e) = a <=> c = i /\ e = d
  OBVIOUS
<1> HIDE DEF i, d, a
<1>7. /\ \A c, e \in Clq : b(c, e) \in Arc => cond'[b(c, e)] = IF c = i /\ e = d /\ cond[a] = 1
                                                               THEN 2 ELSE cond[b(c, e)]
      /\ \A c \in Clq : left'[c] = IF c = i /\ cond[a] = 1 THEN left[c] - 1 ELSE left[c]
  BY <1>3, <1>5, <1>6
<1>8. Queueing'
  <2>1. /\ \A u \in Thread : Has(u)' <=> Has(u)
        /\ queue # <<>> => ~ AllOut'
    BY <1>1 DEF Has, AllOut
  <2> QED
    BY <1>1, <1>2, <2>1, QueueingSame
<1>9. cond[a] = 1 => d \in Clq \ {root} /\ Up(root, d) = i
  <2>1. i # root => cond[<<i, Up(root, i)>>] = 0
    BY <1>2, <1>3 DEF Signalling
  <2>2. cond[a] = 1 => ~ (i # root /\ Up(root, i) = d)
    BY <2>1 DEF a
  <2> QED
    BY <1>2, <1>3, <2>2, UpOrDown
<1>10. Signalling'
  <2>1. ASSUME NEW c \in Clq \ {root}
        PROVE  /\ cond'[<<c, Up(root, c)>>] = 0
               /\ cond'[<<Up(root, c), c>>] # 0 =>
                    SentUp(c)' /\ \A u \in Thread : ~ (pc'[u] = "signal" /\ node'[u] = c)
    <3>1. /\ Up(root, c) \in Clq /\ b(c, Up(root, c)) \in Arc /\ b(Up(root, c), c) \in Arc
      BY <1>2, Above
    <3>2. /\ cond[<<c, Up(root, c)>>] = 0
          /\ cond[<<Up(root, c), c>>] # 0 =>
               SentUp(c) /\ \A u \in Thread : ~ (pc[u] = "signal" /\ node[u] = c)
      BY <1>2 DEF Signalling
    <3>3. cond'[<<c, Up(root, c)>>] = 0
      <4>1. ~ (c = i /\ Up(root, c) = d /\ cond[a] = 1)
        BY <3>2 DEF a
      <4> QED
        BY <1>7, <3>1, <3>2, <4>1
    <3>4. SentUp(c)' = SentUp(c)
      BY <1>1 DEF SentUp
    <3>5. cond'[<<Up(root, c), c>>] # 0 => cond[<<Up(root, c), c>>] # 0
      <4>1. Up(root, c) = i /\ c = d /\ cond[a] = 1 => cond[<<Up(root, c), c>>] # 0
        BY DEF a
      <4> QED
        BY <1>7, <3>1, <4>1
    <3> QED
      BY <1>1, <3>2, <3>3, <3>4, <3>5
  <2>2. ASSUME NEW c \in Clq
        PROVE  left'[c] = Cardinality({e \in Children(c)' : cond'[<<c, e>>] # 2})
    <3> DEFINE S == {e \in Children(c) : cond[<<c, e>>] # 2}
               T == {e \in Children(c)' : cond'[<<c, e>>] # 2}
    <3>1. Children(c)' = Children(c)
      BY <1>1 DEF Children
    <3>2. ASSUME NEW e \in Children(c)
          PROVE  cond'[<<c, e>>] = IF c = i /\ e = d /\ cond[a] = 1 THEN 2 ELSE cond[<<c, e>>]
      <4>1. e \in Clq /\ <<c, e>> \in Arc
        BY <1>2, <3>2, Above DEF Children
      <4> QED
        BY <1>7, <4>1
    <3>3. left[c] = Cardinality(S) /\ IsFiniteSet(S)
      <4>1. S \in SUBSET Clq
        BY DEF Children
      <4>2. IsFiniteSet(S)
        BY <4>1, FiniteCliques, FS_Subset
      <4> QED
        BY <1>2, <4>2 DEF Signalling
    <3>4. CASE c = i /\ cond[a] = 1
      <4>1. d \in S
        BY <1>9, <3>4 DEF Children, a
      <4>2. T = S \ {d}
        BY <3>1, <3>2, <3>4
      <4>3. Cardinality(T) = Cardinality(S) - 1
        BY <3>3, <4>1, <4>2, FS_RemoveElement
      <4> QED
        BY <1>7, <3>3, <3>4, <4>3
    <3>5. CASE ~ (c = i /\ cond[a] = 1)
      <4>1. T = S
        BY <3>1, <3>2, <3>5
      <4> QED
        BY <1>7, <3>3, <3>5, <4>1
    <3> QED
      BY <3>4, <3>5
  <2> QED
    BY <1>1, <2>1, <2>2 DEF Signalling
<1>11. ASSUME NEW u \in Thread PROVE pc'[u] \in CollectPc /\ Uploading(u)'
  <2>1. CASE u = t
    BY <1>1, <1>2, <1>3, <1>4, <2>1 DEF CollectPc, Uploading, i
  <2>2. CASE u # t
    <3>1. pc[u] \in {"lock", "read up", "write up"} => left'[node[u]] = left[node[u]]
      <4>1. Has(t) /\ (pc[u] \in {"lock", "read up", "write up"} => Has(u))
        BY <1>1 DEF Has
      <4>2. pc[u] \in {"lock", "read up", "write up"} => node[u] # i
        BY <1>2, <2>2, <4>1 DEF Queueing, i
      <4> QED
        BY <1>2, <1>7, <4>2 DEF SharedOK
    <3> QED
      BY <1>1, <1>2, <1>4, <2>2, <3>1, UploadingSame
  <2> QED
    BY <2>1, <2>2
<1> QED
  BY <1>1, <1>2, <1>8, <1>10, <1>11, GatheringStep

-------------------------------------------------------------------------------
(***************************************************************************)
(* The steps of DistributeEvidenceOMP.                                     *)
(***************************************************************************)

\* A thread that does nothing is not disturbed as long as what it has claimed stays so
\* and what it has read is not written.
LEMMA DownloadingSame ==
  ASSUME NEW u \in Thread, Downloading(u), root' = root, nbrsTypes' = nbrsTypes,
         got \subseteq got',
         pc'[u] = pc[u], node'[u] = node[u], todo'[u] = todo[u], msg'[u] = msg[u],
         Busy(u) => /\ cond[<<node[u], Sink(u)>>] # 0 => cond'[<<node[u], Sink(u)>>] # 0
                    /\ <<node[u], Sink(u)>> \in got' => <<node[u], Sink(u)>> \in got,
         pc[u] = "write down" => clq'[node[u]] = clq[node[u]] /\ clq'[Sink(u)] = clq[Sink(u)]
  PROVE  Downloading(u)'
<1>1. Sink(u)' = Sink(u) /\ (Busy(u)' <=> Busy(u))
  BY DEF Sink, Busy
<1>2. pc[u] \in {"nbrs", "read down", "write down", "count", "push"} => Reached(node[u])'
  BY DEF Downloading, Reached, Told
<1>3. Busy(u) => <<node[u], Sink(u)>> \in got' <=> <<node[u], Sink(u)>> \in got
  OBVIOUS
<1> QED
  BY <1>1, <1>2, <1>3 DEF Downloading

\* The count is right as long as it is left alone.
LEMMA CountingSame ==
  ASSUME Counting, root' = root, got' = got, count' = count, isEndPar' <=> isEndPar,
         \A u \in Thread : pc'[u] = "count" <=> pc[u] = "count",
         \A u \in Thread : pc[u] = "count" => todo'[u] = todo[u],
         \A u \in Thread : pc'[u] = "out" => pc[u] = "out" \/ isEndPar
  PROVE  Counting'
<1> DEFINE S == {c \in Clq \ {root} : ~ Told(c) \/ \E t \in Thread : pc[t] = "count" /\ Sink(t) = c}
<1>1. ASSUME NEW c \in Clq
      PROVE  /\ Told(c)' <=> Told(c)
             /\ (\E t \in Thread : pc'[t] = "count" /\ Sink(t)' = c)
                  <=> (\E t \in Thread : pc[t] = "count" /\ Sink(t) = c)
  BY DEF Told, Sink
<1>2. S' = S
  BY <1>1
<1>3. isEndPar' => \A c \in Clq \ {root'} : Told(c)'
  BY <1>1 DEF Counting
<1>4. \A u \in Thread : pc'[u] = "out" => isEndPar'
  BY DEF Counting
<1> QED
  BY <1>2, <1>3, <1>4 DEF Counting

\* What a step of this phase has to keep.
LEMMA DistributingStep ==
  ASSUME IInv, phase = "DistributeEvidenceOMP", UNCHANGED <<tree, phase>>, got \subseteq got',
         source' \in Seq(Clq), \A c \in Clq : Among(source', c) => Among(source, c) \/ Reached(c),
         \A c \in Clq \ {root} : <<Up(root, c), c>> \in got' => cond'[<<Up(root, c), c>>] # 0,
         \A u \in Thread : pc'[u] \in DistributePc /\ Downloading(u)',
         Claiming', Counting'
  PROVE  Distributing'
<1>1. /\ UpArcs(root, Clq) \subseteq got /\ \A c \in Clq : Among(source, c) => Reached(c)
      /\ root' = root /\ nbrsTypes' = nbrsTypes
  BY DEF IInv, Distributing, tree
<1>2. ASSUME NEW c \in Clq, Reached(c) PROVE Reached(c)'
  BY <1>1, <1>2 DEF Reached, Told
<1>3. \A c \in Clq : Among(source', c) => Reached(c)'
  BY <1>1, <1>2
<1>4. \A c \in Clq \ {root'} : Told(c)' => cond'[<<Up(root', c), c>>] # 0
  BY <1>1 DEF Told
<1>5. UpArcs(root', Clq) \subseteq got'
  BY <1>1
<1> QED
  BY <1>3, <1>4, <1>5 DEF Distributing, Among

\* The steps that only look, and what a thread reads of source and sink.
LEMMA WaitingStep ==
  ASSUME IInv, NEW t \in Thread, TestEndPar(t) \/ TakeFront(t) \/ SkipNbr(t) \/ ReadDown(t)
  PROVE  Distributing'
<1>1. /\ phase = "DistributeEvidenceOMP" /\ UNCHANGED <<tree, phase>>
      /\ root' = root /\ nbrsTypes' = nbrsTypes
      /\ UNCHANGED <<got, clq, source, cond, count, isEndPar>>
  BY InPhase DEF DistributePc, TestEndPar, TakeFront, SkipNbr, ReadDown, Read, tree, pots, shared
<1>2. /\ SharedOK /\ source \in Seq(Clq) /\ \A c \in Clq : Among(source, c) => Reached(c)
      /\ \A c \in Clq \ {root} : Told(c) => cond[<<Up(root, c), c>>] # 0
      /\ \A u \in Thread : pc[u] \in DistributePc /\ Downloading(u)
      /\ Claiming /\ Counting
  BY <1>1 DEF IInv, Distributing
<1>3. \A u \in Thread \ {t} : /\ pc'[u] = pc[u] /\ node'[u] = node[u] /\ todo'[u] = todo[u]
                              /\ msg'[u] = msg[u]
  BY <1>2 DEF TestEndPar, TakeFront, SkipNbr, ReadDown, Read, Goto, SharedOK
<1>4. /\ pc[t] \in {"loop", "front", "nbrs", "read down"}
      /\ pc[t] = "loop" => pc'[t] = IF isEndPar THEN "out" ELSE "front"
      /\ pc[t] = "front" =>
           \/ pc'[t] = "loop"
           \/ /\ source # <<>> /\ pc'[t] = "nbrs" /\ node'[t] = Head(source)
              /\ todo'[t] = Nbrs(Head(source))
      /\ pc[t] = "nbrs" => /\ pc'[t] = "nbrs" /\ node'[t] = node[t] /\ todo'[t] \subseteq todo[t]
      /\ pc[t] = "read down" =>
           /\ pc'[t] = "write down" /\ node'[t] = node[t] /\ todo'[t] = todo[t]
           /\ msg'[t].source = clq[node[t]] /\ msg'[t].sink = clq[Sink(t)]
  <2>1. SharedOK
    BY <1>2
  <2>2. CASE TestEndPar(t)
    BY <2>1, <2>2 DEF TestEndPar, Goto, SharedOK
  <2>3. CASE TakeFront(t)
    BY <2>1, <2>3 DEF TakeFront, Goto, SharedOK
  <2>4. CASE SkipNbr(t)
    BY <2>1, <2>4 DEF SkipNbr, SharedOK
  <2>5. CASE ReadDown(t)
    BY <2>1, <2>5 DEF ReadDown, Read, Goto, SharedOK
  <2> QED
    BY <2>2, <2>3, <2>4, <2>5
<1>5. Claiming'
  <2>1. \A u \in Thread : Busy(u)' => Busy(u) /\ todo'[u] = todo[u]
    BY <1>3, <1>4 DEF Busy
  <2>2. \A u \in Thread : Busy(u)' => Busy(u) /\ Sink(u)' = Sink(u)
    BY <2>1 DEF Sink
  <2> QED
    BY <1>2, <2>2 DEF Claiming
<1>6. Counting'
  <2>1. /\ \A u \in Thread : pc'[u] = "count" <=> pc[u] = "count"
        /\ \A u \in Thread : pc[u] = "count" => todo'[u] = todo[u]
        /\ \A u \in Thread : pc'[u] = "out" => pc[u] = "out" \/ isEndPar
    BY <1>3, <1>4
  <2> QED
    BY <1>1, <1>2, <2>1, CountingSame
<1>7. ASSUME NEW u \in Thread PROVE pc'[u] \in DistributePc /\ Downloading(u)'
  <2>1. CASE u # t
    BY <1>1, <1>2, <1>3, <2>1, DownloadingSame
  <2>2. CASE u = t /\ pc[t] = "loop"
    BY <1>4, <2>2 DEF Downloading, Busy, DistributePc
  <2>3. CASE u = t /\ pc[t] = "front"
    <3>1. source # <<>> => Head(source) \in Clq /\ Among(source, Head(source))
      BY <1>2, EmptySeq, HeadTailProperties DEF Among
    <3>2. \A c \in Clq : Among(source, c) =>
            c = root' \/ (nbrsTypes'[c] = Up(root', c) /\ <<Up(root', c), c>> \in got')
      BY <1>1, <1>2 DEF Reached, Told
    <3>3. pc'[t] = "loop" \/ (Reached(node[t])' /\ todo'[t] \subseteq Nbrs(node'[t]))
      BY <1>4, <2>3, <3>1, <3>2 DEF Reached, Told
    <3> QED
      BY <1>4, <2>3, <3>3 DEF Downloading, Busy, DistributePc
  <2>4. CASE u = t /\ pc[t] = "nbrs"
    <3>1. Reached(node[t])' /\ todo'[t] \subseteq Nbrs(node'[t])
      BY <1>1, <1>2, <1>4, <2>4 DEF Downloading, Reached, Told
    <3> QED
      BY <1>4, <2>4, <3>1 DEF Downloading, Busy, DistributePc
  <2>5. CASE u = t /\ pc[t] = "read down"
    <3>1. Reached(node[t])' /\ todo'[t] \subseteq Nbrs(node'[t])
      BY <1>1, <1>2, <1>4, <2>5 DEF Downloading, Reached, Told
    <3>2. Sink(t)' = Sink(t) /\ Busy(t) /\ Busy(t)'
      BY <1>4, <2>5 DEF Sink, Busy
    <3> QED
      BY <1>1, <1>2, <1>4, <2>5, <3>1, <3>2 DEF Downloading, DistributePc
  <2> QED
    BY <1>4, <2>1, <2>2, <2>3, <2>4, <2>5
<1> QED
  BY <1>1, <1>2, <1>5, <1>6, <1>7, DistributingStep DEF Told

\* A thread claims a neighbour that nobody else has.
LEMMA ClaimNbrStep ==
  ASSUME IInv, NEW t \in Thread, ClaimNbr(t)
  PROVE  Distributing'
<1> DEFINE i == node[t]
           j == Sink(t)
           a == <<i, j>>
<1>1. /\ phase = "DistributeEvidenceOMP" /\ UNCHANGED <<tree, phase>>
      /\ root' = root /\ nbrsTypes' = nbrsTypes
      /\ UNCHANGED <<got, clq, source, count, isEndPar, node, todo, msg>>
      /\ pc[t] = "nbrs" /\ todo[t] # {} /\ j # nbrsTypes[i]
  BY InPhase DEF DistributePc, ClaimNbr, tree, pots
<1>2. /\ SharedOK /\ source \in Seq(Clq) /\ \A c \in Clq : Among(source, c) => Reached(c)
      /\ \A c \in Clq \ {root} : Told(c) => cond[<<Up(root, c), c>>] # 0
      /\ \A u \in Thread : pc[u] \in DistributePc /\ Downloading(u)
      /\ Claiming /\ Counting /\ root \in Clq
  BY <1>1 DEF IInv, ControlOK, Distributing
<1>3. pc'[t] = "read down" /\ \A u \in Thread \ {t} : pc'[u] = pc[u]
  BY <1>2 DEF ClaimNbr, Goto, SharedOK
<1>4. /\ i \in Clq /\ Reached(i) /\ j \in Nbrs(i) /\ j \in todo[t] /\ a \in Arc
      /\ j \in Clq \ {root} /\ Up(root, j) = i
  BY <1>1, NbrsReady, LetThrough DEF IInv
<1>5. cond' = [cond EXCEPT ![a] = 1] /\ cond[a] = 0 /\ cond \in [Arc -> Int]
  BY <1>2 DEF ClaimNbr, SharedOK
<1>6. ~ Told(j)
  BY <1>2, <1>4, <1>5 DEF a
<1>7. ASSUME NEW u \in Thread, Busy(u) PROVE Sink(u) # j
  <2>1. /\ Up(root, Sink(u)) = node[u] /\ cond[<<node[u], Sink(u)>>] # 0
    BY <1>2, <1>7, DownReady DEF Downloading
  <2> QED
    BY <1>4, <1>5, <2>1 DEF a
<1> HIDE DEF i, j, a
<1>8. \A b \in Arc : cond[b] # 0 => cond'[b] # 0
  BY <1>4, <1>5
<1>9. Claiming'
  <2>1. \A u \in Thread : Sink(u)' = Sink(u)
    BY <1>1 DEF Sink
  <2>2. \A u \in Thread : Busy(u)' => Busy(u) \/ u = t
    BY <1>3 DEF Busy
  <2> QED
    BY <1>2, <1>7, <2>1, <2>2 DEF Claiming, j
<1>10. Counting'
  <2>1. /\ \A u \in Thread : pc'[u] = "count" <=> pc[u] = "count"
        /\ \A u \in Thread : pc'[u] = "out" => pc[u] = "out" \/ isEndPar
    BY <1>1, <1>3
  <2> QED
    BY <1>1, <1>2, <2>1, CountingSame
<1>11. ASSUME NEW u \in Thread PROVE pc'[u] \in DistributePc /\ Downloading(u)'
  <2>1. CASE u # t
    <3>1. Busy(u) => <<node[u], Sink(u)>> \in Arc
      BY DownReady, NbrsSymmetric
    <3> QED
      BY <1>1, <1>2, <1>3, <1>8, <2>1, <3>1, DownloadingSame
  <2>2. CASE u = t
    <3>1. Sink(t)' = j /\ node'[t] = i /\ Busy(t)' /\ todo'[t] = todo[t]
      BY <1>1, <1>3 DEF Sink, Busy, i, j
    <3>2. Reached(node[t])' /\ todo'[t] \subseteq Nbrs(node'[t])
      BY <1>1, <1>2 DEF Downloading, Reached, Told
    <3>3. cond'[<<i, j>>] # 0 /\ <<i, j>> \notin got'
      BY <1>1, <1>4, <1>5, <1>6 DEF Told, a
    <3> QED
      BY <1>1, <1>3, <2>2, <3>1, <3>2, <3>3 DEF Downloading, DistributePc, i, j
  <2> QED
    BY <2>1, <2>2
<1>12. \A c \in Clq \ {root} : <<Up(root, c), c>> \in got' => cond'[<<Up(root, c), c>>] # 0
  BY <1>1, <1>2, <1>8, Above DEF Told
<1> QED
  BY <1>1, <1>2, <1>9, <1>10, <1>11, <1>12, DistributingStep

\* A clique sends down.
LEMMA WriteDownStep ==
  ASSUME IInv, NEW t \in Thread, WriteDown(t)
  PROVE  Distributing'
<1> DEFINE i == node[t]
           j == Sink(t)
<1>1. /\ phase = "DistributeEvidenceOMP" /\ UNCHANGED <<tree, phase>>
      /\ root' = root /\ nbrsTypes' = nbrsTypes
      /\ UNCHANGED <<source, cond, count, isEndPar, node, todo, msg>>
      /\ pc[t] = "write down"
  BY InPhase DEF DistributePc, WriteDown, tree, shared
<1>2. /\ SharedOK /\ source \in Seq(Clq) /\ \A c \in Clq : Among(source, c) => Reached(c)
      /\ \A c \in Clq \ {root} : Told(c) => cond[<<Up(root, c), c>>] # 0
      /\ \A u \in Thread : pc[u] \in DistributePc /\ Downloading(u)
      /\ Claiming /\ Counting /\ root \in Clq /\ clq \in [Clq -> Potential]
  BY <1>1, SamePotentials DEF IInv, ControlOK, Distributing, PP!IInv, PP!TypeOK
<1>3. pc'[t] = "count" /\ \A u \in Thread \ {t} : pc'[u] = pc[u]
  BY <1>2 DEF WriteDown, Goto, SharedOK
<1>4. /\ i \in Clq /\ j \in Clq \ {root} /\ Up(root, j) = i /\ nbrsTypes[j] = i /\ i # j
      /\ Busy(t) /\ ~ Told(j) /\ cond[<<i, j>>] # 0
  BY <1>1, <1>2, DownReady, Above DEF Busy, Downloading
<1>5. got' = got \cup {<<i, j>>} /\ \A c \in Clq \ {j} : clq'[c] = clq[c]
  <2>1. Write(i, j, FALSE, clq[i], clq[j])
    BY ThreadWrites
  <2> QED
    BY <1>2, <2>1 DEF Write
<1> HIDE DEF i, j
<1>6. \A c \in Clq \ {root} : Told(c)' <=> Told(c) \/ c = j
  BY <1>1, <1>4, <1>5 DEF Told
<1>7. \A u \in Thread : Sink(u)' = Sink(u) /\ (Busy(u)' <=> Busy(u))
  BY <1>1, <1>3 DEF Sink, Busy
<1>8. Claiming'
  BY <1>2, <1>7 DEF Claiming
<1>9. Counting'
  <2> DEFINE S == {c \in Clq \ {root} :
                     ~ Told(c) \/ \E u \in Thread : pc[u] = "count" /\ Sink(u) = c}
  <2>1. ASSUME NEW c \in Clq \ {root}
        PROVE  ~ Told(c)' \/ (\E u \in Thread : pc'[u] = "count" /\ Sink(u)' = c)
                 <=> ~ Told(c) \/ (\E u \in Thread : pc[u] = "count" /\ Sink(u) = c)
    <3>1. CASE c = j
      BY <1>3, <1>4, <1>7, <3>1 DEF j
    <3>2. CASE c # j
      BY <1>1, <1>3, <1>6, <1>7, <3>2 DEF j
    <3> QED
      BY <3>1, <3>2
  <2>2. S' = S
    BY <1>1, <2>1
  <2>3. isEndPar' => \A c \in Clq \ {root'} : Told(c)'
    BY <1>1, <1>2, <1>6 DEF Counting
  <2>4. \A u \in Thread : pc'[u] = "out" => isEndPar'
    BY <1>1, <1>2, <1>3 DEF Counting
  <2> QED
    BY <1>1, <1>2, <2>2, <2>3, <2>4 DEF Counting
<1>10. ASSUME NEW u \in Thread PROVE pc'[u] \in DistributePc /\ Downloading(u)'
  <2>1. CASE u # t
    <3>1. ASSUME Busy(u)
          PROVE  Sink(u) # j /\ (pc[u] = "write down" => node[u] \in Clq \ {j} /\ Sink(u) \in Clq)
      <4>1. Sink(u) # j
        BY <1>2, <1>4, <2>1, <3>1 DEF Claiming, j
      <4>2. node[u] \in Clq /\ Sink(u) \in Clq
        BY <3>1, DownReady
      <4>3. Reached(node[u])
        BY <1>2, <3>1 DEF Downloading, Busy
      <4>4. node[u] # j
        BY <1>4, <4>3 DEF Reached
      <4> QED
        BY <4>1, <4>2, <4>4
    <3>2. Busy(u) => <<node[u], Sink(u)>> # <<i, j>>
      BY <3>1
    <3>3. pc[u] = "write down" => clq'[node[u]] = clq[node[u]] /\ clq'[Sink(u)] = clq[Sink(u)]
      BY <1>5, <3>1 DEF Busy
    <3> QED
      BY <1>1, <1>2, <1>3, <1>5, <2>1, <3>2, <3>3, DownloadingSame
  <2>2. CASE u = t
    <3>1. Sink(t)' = j /\ node'[t] = i /\ Busy(t)' /\ todo'[t] = todo[t]
      BY <1>1, <1>4, <1>7 DEF i, j
    <3>2. Reached(node[t])' /\ todo'[t] \subseteq Nbrs(node'[t])
      BY <1>1, <1>2, <1>5 DEF Downloading, Reached, Told
    <3>3. cond'[<<i, j>>] # 0 /\ <<i, j>> \in got' /\ todo'[t] # {} /\ j # nbrsTypes'[i]
      BY <1>1, <1>2, <1>4, <1>5, <3>1 DEF Downloading, i, j
    <3> QED
      BY <1>3, <2>2, <3>1, <3>2, <3>3 DEF Downloading, DistributePc
  <2> QED
    BY <2>1, <2>2
<1>11. ASSUME NEW c \in Clq \ {root}, <<Up(root, c), c>> \in got'
       PROVE  cond'[<<Up(root, c), c>>] # 0
  <2>1. CASE c = j
    BY <1>1, <1>4, <2>1
  <2>2. CASE c # j
    BY <1>1, <1>2, <1>5, <1>11, <2>2 DEF Told
  <2> QED
    BY <2>1, <2>2
<1> QED
  BY <1>1, <1>2, <1>5, <1>8, <1>9, <1>10, <1>11, DistributingStep

\* A thread decrements the counter for the neighbour that it has sent to.
LEMMA DecCountStep ==
  ASSUME IInv, NEW t \in Thread, DecCount(t)
  PROVE  Distributing'
<1> DEFINE j == Sink(t)
           S == {c \in Clq \ {root} :
                   ~ Told(c) \/ \E u \in Thread : pc[u] = "count" /\ Sink(u) = c}
<1>1. /\ phase = "DistributeEvidenceOMP" /\ UNCHANGED <<tree, phase>>
      /\ root' = root /\ nbrsTypes' = nbrsTypes
      /\ UNCHANGED <<got, clq, source, cond, node, todo, msg>>
      /\ pc[t] = "count" /\ count' = count - 1 /\ isEndPar' = (isEndPar \/ count = 1)
  BY InPhase DEF DistributePc, DecCount, tree, pots
<1>2. /\ SharedOK /\ source \in Seq(Clq)
      /\ \A c \in Clq \ {root} : Told(c) => cond[<<Up(root, c), c>>] # 0
      /\ \A u \in Thread : pc[u] \in DistributePc /\ Downloading(u)
      /\ Claiming /\ Counting /\ root \in Clq
  BY <1>1 DEF IInv, ControlOK, Distributing
<1>3. pc'[t] = "push" /\ \A u \in Thread \ {t} : pc'[u] = pc[u]
  BY <1>2 DEF DecCount, Goto, SharedOK
<1>4. j \in Clq \ {root} /\ Told(j) /\ Busy(t)
  BY <1>1, DownReady DEF Busy
<1>5. \A u \in Thread : Sink(u)' = Sink(u) /\ (Busy(u)' <=> Busy(u))
  BY <1>1, <1>3 DEF Sink, Busy
<1> HIDE DEF j
<1>6. Claiming'
  BY <1>2, <1>5 DEF Claiming
<1>7. Counting'
  <2>1. ASSUME NEW c \in Clq \ {root}
        PROVE  ~ Told(c)' \/ (\E u \in Thread : pc'[u] = "count" /\ Sink(u)' = c)
                 <=> c # j /\ (~ Told(c) \/ \E u \in Thread : pc[u] = "count" /\ Sink(u) = c)
    <3>1. Told(c)' = Told(c)
      BY <1>1 DEF Told
    <3>2. CASE c = j
      <4>1. \A u \in Thread : pc'[u] = "count" => u # t /\ Busy(u)
        BY <1>3 DEF Busy
      <4>2. \A u \in Thread : pc'[u] = "count" => Sink(u) # Sink(t)
        BY <1>2, <1>4, <4>1 DEF Claiming
      <4> QED
        BY <1>4, <1>5, <3>1, <3>2, <4>2 DEF j
    <3>3. CASE c # j
      BY <1>1, <1>3, <1>5, <3>1, <3>3 DEF j
    <3> QED
      BY <3>2, <3>3
  <2>2. S' = S \ {j}
    BY <1>1, <2>1
  <2>3. IsFiniteSet(S) /\ count = Cardinality(S) /\ j \in S
    <3>1. S \in SUBSET Clq
      OBVIOUS
    <3>2. IsFiniteSet(S)
      BY <3>1, FiniteCliques, FS_Subset
    <3>3. j \in S
      BY <1>1, <1>4 DEF j
    <3> QED
      BY <1>2, <3>2, <3>3 DEF Counting
  <2>4. count' = Cardinality(S') /\ (count = 1 => S' = {})
    <3> HIDE DEF S
    <3>1. IsFiniteSet(S \ {j}) /\ Cardinality(S \ {j}) = Cardinality(S) - 1
      BY <2>3, FS_RemoveElement
    <3>2. count = 1 => S \ {j} = {}
      BY <2>3, <3>1, FS_EmptySet
    <3> QED
      BY <1>1, <2>2, <2>3, <3>1, <3>2
  <2>5. isEndPar' => \A c \in Clq \ {root'} : Told(c)'
    <3>1. CASE isEndPar
      BY <1>1, <1>2, <3>1 DEF Counting, Told
    <3>2. CASE count = 1
      <4>1. S' = {}
        BY <2>4, <3>2
      <4> QED
        BY <4>1
    <3> QED
      BY <1>1, <3>1, <3>2
  <2>6. \A u \in Thread : pc'[u] = "out" => isEndPar'
    BY <1>1, <1>2, <1>3 DEF Counting
  <2> QED
    BY <2>4, <2>5, <2>6 DEF Counting
<1>8. ASSUME NEW u \in Thread PROVE pc'[u] \in DistributePc /\ Downloading(u)'
  <2>1. CASE u # t
    BY <1>1, <1>2, <1>3, <2>1, DownloadingSame
  <2>2. CASE u = t
    <3>1. Reached(node[t])' /\ todo'[t] \subseteq Nbrs(node'[t])
      BY <1>1, <1>2 DEF Downloading, Reached, Told
    <3> QED
      BY <1>1, <1>2, <1>3, <1>4, <1>5, <2>2, <3>1 DEF Downloading, DistributePc
  <2> QED
    BY <2>1, <2>2
<1> QED
  BY <1>1, <1>2, <1>6, <1>7, <1>8, DistributingStep DEF Told

\* The neighbour is put into the queue, it has heard from above.
LEMMA PushNbrStep ==
  ASSUME IInv, NEW t \in Thread, PushNbr(t)
  PROVE  Distributing'
<1> DEFINE j == Sink(t)
<1>1. /\ phase = "DistributeEvidenceOMP" /\ UNCHANGED <<tree, phase>>
      /\ root' = root /\ nbrsTypes' = nbrsTypes
      /\ UNCHANGED <<got, clq, cond, count, isEndPar, node, msg>>
      /\ pc[t] = "push" /\ (source' = source \/ source' = Append(source, j))
  BY InPhase DEF DistributePc, PushNbr, tree, pots
<1>2. /\ SharedOK /\ source \in Seq(Clq)
      /\ \A c \in Clq \ {root} : Told(c) => cond[<<Up(root, c), c>>] # 0
      /\ \A u \in Thread : pc[u] \in DistributePc /\ Downloading(u)
      /\ Claiming /\ Counting
  BY <1>1 DEF IInv, Distributing
<1>3. /\ pc'[t] = "nbrs" /\ todo'[t] \subseteq todo[t]
      /\ \A u \in Thread \ {t} : pc'[u] = pc[u] /\ todo'[u] = todo[u]
  BY <1>2 DEF PushNbr, Goto, SharedOK
<1>4. j \in Clq /\ Reached(j)
  BY <1>1, DownReady DEF Busy, Reached
<1> HIDE DEF j
<1>5. source' \in Seq(Clq) /\ \A c \in Clq : Among(source', c) => Among(source, c) \/ Reached(c)
  <2>1. CASE source' = source
    BY <1>2, <2>1
  <2>2. CASE source' = Append(source, j)
    BY <1>2, <1>4, <2>2, AddedToQueue
  <2> QED
    BY <1>1, <2>1, <2>2
<1>6. Claiming'
  <2>1. \A u \in Thread : Busy(u)' => Busy(u) /\ Sink(u)' = Sink(u)
    BY <1>1, <1>3 DEF Busy, Sink
  <2> QED
    BY <1>2, <2>1 DEF Claiming
<1>7. Counting'
  <2>1. /\ \A u \in Thread : pc'[u] = "count" <=> pc[u] = "count"
        /\ \A u \in Thread : pc[u] = "count" => todo'[u] = todo[u]
        /\ \A u \in Thread : pc'[u] = "out" => pc[u] = "out" \/ isEndPar
    BY <1>1, <1>3
  <2> QED
    BY <1>1, <1>2, <2>1, CountingSame
<1>8. ASSUME NEW u \in Thread PROVE pc'[u] \in DistributePc /\ Downloading(u)'
  <2>1. CASE u # t
    BY <1>1, <1>2, <1>3, <2>1, DownloadingSame
  <2>2. CASE u = t
    <3>1. Reached(node[t])' /\ todo'[t] \subseteq Nbrs(node'[t])
      BY <1>1, <1>2, <1>3 DEF Downloading, Reached, Told
    <3> QED
      BY <1>3, <2>2, <3>1 DEF Downloading, Busy, DistributePc
  <2> QED
    BY <2>1, <2>2
<1> QED
  BY <1>1, <1>2, <1>5, <1>6, <1>7, <1>8, DistributingStep DEF Told

\* A thread is through with the neighbours of a clique, or takes the clique out of the
\* queue.
LEMMA DoneStep ==
  ASSUME IInv, NEW t \in Thread, NbrsDone(t) \/ PopFront(t)
  PROVE  Distributing'
<1>1. /\ phase = "DistributeEvidenceOMP" /\ UNCHANGED <<tree, phase>>
      /\ root' = root /\ nbrsTypes' = nbrsTypes
      /\ UNCHANGED <<got, clq, cond, count, node, todo, msg>>
      /\ pc[t] \in {"nbrs", "pop"}
      /\ source' = source \/ (source # <<>> /\ source' = Tail(source))
      /\ isEndPar' <=> (isEndPar \/ (pc[t] = "nbrs" /\ Nbrs(node[t]) = {}))
  <2>1. CASE NbrsDone(t)
    BY <2>1, InPhase DEF DistributePc, NbrsDone, tree, pots
  <2>2. CASE PopFront(t)
    BY <2>2, InPhase DEF DistributePc, PopFront, tree, pots
  <2> QED
    BY <2>1, <2>2
<1>2. /\ SharedOK /\ source \in Seq(Clq)
      /\ \A c \in Clq \ {root} : Told(c) => cond[<<Up(root, c), c>>] # 0
      /\ \A u \in Thread : pc[u] \in DistributePc /\ Downloading(u)
      /\ Claiming /\ Counting /\ root \in Clq
  BY <1>1 DEF IInv, ControlOK, Distributing
<1>3. pc'[t] \in {"pop", "loop"} /\ \A u \in Thread \ {t} : pc'[u] = pc[u]
  BY <1>2 DEF NbrsDone, PopFront, Goto, SharedOK
<1>4. source' \in Seq(Clq) /\ \A c \in Clq : Among(source', c) => Among(source, c)
  <2>1. CASE source' = source
    BY <1>2, <2>1
  <2>2. CASE source # <<>> /\ source' = Tail(source)
    BY <1>2, <2>2, TakenFromQueue
  <2> QED
    BY <1>1, <2>1, <2>2
<1>5. \A u \in Thread : Sink(u)' = Sink(u) /\ (Busy(u)' <=> Busy(u))
  BY <1>1, <1>3 DEF Sink, Busy
<1>6. Claiming'
  BY <1>2, <1>5 DEF Claiming
<1>7. Counting'
  <2>1. /\ \A u \in Thread : pc'[u] = "count" <=> pc[u] = "count"
        /\ \A u \in Thread : pc'[u] = "out" => pc[u] = "out"
    BY <1>1, <1>3
  <2>2. CASE isEndPar' <=> isEndPar
    BY <1>1, <1>2, <2>1, <2>2, CountingSame
  <2>3. CASE Nbrs(node[t]) = {}
    <3>1. Clq \ {root} = {}
      <4>1. node[t] \in Clq
        BY <1>2 DEF SharedOK
      <4>2. Clq = {node[t]} \cup UNION {Behind({}, k, node[t]) : k \in Nbrs(node[t])}
        BY <4>1, BehindAll
      <4> QED
        BY <1>2, <2>3, <4>2
    <3> DEFINE S == {c \in Clq \ {root} :
                       ~ Told(c) \/ \E u \in Thread : pc[u] = "count" /\ Sink(u) = c}
    <3>2. S = {} /\ S' = {}
      BY <1>1, <3>1
    <3>3. count' = Cardinality(S')
      BY <1>1, <1>2, <3>2 DEF Counting
    <3>4. \A u \in Thread : pc'[u] = "out" => isEndPar'
      BY <1>1, <1>2, <2>1 DEF Counting
    <3> QED
      BY <1>1, <3>1, <3>3, <3>4 DEF Counting
  <2> QED
    BY <1>1, <2>2, <2>3
<1>8. ASSUME NEW u \in Thread PROVE pc'[u] \in DistributePc /\ Downloading(u)'
  <2>1. CASE u # t
    BY <1>1, <1>2, <1>3, <2>1, DownloadingSame
  <2>2. CASE u = t
    BY <1>3, <2>2 DEF Downloading, Busy, DistributePc
  <2> QED
    BY <2>1, <2>2
<1> QED
  BY <1>1, <1>2, <1>4, <1>6, <1>7, <1>8, DistributingStep DEF Told

-------------------------------------------------------------------------------
(***************************************************************************)
(* The steps of the master thread.                                         *)
(***************************************************************************)

\* InitNodeConditions counts the cliques below every clique.
LEMMA ChildrenCount ==
  ASSUME root \in Clq, NEW c \in Clq
  PROVE  /\ NumOfChildren(c, root) = Cardinality(Children(c))
         /\ NumOfChildren(c, root) \in Int
<1>1. IsFiniteSet(Nbrs(c)) /\ Cardinality(Nbrs(c)) \in Nat
  BY FiniteCliques, FS_CardinalityType
<1>2. CASE c = root
  <2>1. Children(c) = Nbrs(c)
    BY <1>2, UpOrDown, UpFacts, NbrsSymmetric DEF Children
  <2> QED
    BY <1>1, <1>2, <2>1 DEF NumOfChildren
<1>3. CASE c # root
  <2>1. Up(root, c) \in Nbrs(c)
    BY <1>3, UpFacts
  <2>2. Children(c) = Nbrs(c) \ {Up(root, c)}
    <3>1. ASSUME NEW d \in Nbrs(c) \ {Up(root, c)} PROVE d \in Children(c)
      <4>1. d \in Nbrs(c) /\ d # Up(root, c)
        BY <3>1
      <4>2. d \in Clq
        BY <4>1, NbrsSymmetric
      <4>3. d # root /\ Up(root, d) = c
        BY <4>1, UpOrDown
      <4> QED
        BY <4>2, <4>3 DEF Children
    <3>2. ASSUME NEW d \in Children(c) PROVE d \in Nbrs(c) \ {Up(root, c)}
      <4>1. d \in Clq \ {root} /\ Up(root, d) = c
        BY <3>2 DEF Children
      <4>2. c \in Nbrs(d) /\ d \in Nbrs(c)
        BY <4>1, Above
      <4> QED
        BY <1>3, <4>1, <4>2, UpOrDown
    <3> QED
      BY <3>1, <3>2
  <2>3. Cardinality(Nbrs(c) \ {Up(root, c)}) = Cardinality(Nbrs(c)) - 1
    BY <1>1, <2>1, FS_RemoveElement
  <2> QED
    BY <1>1, <1>3, <2>2, <2>3 DEF NumOfChildren
<1> QED
  BY <1>2, <1>3

\* When EnterEvidenceOMP has nothing to propagate no factor is left.
LEMMA AllScalar ==
  ASSUME NEW e, JTreeType(e) = "dtScalar"
  PROVE  LiveFactors(e) = {}
<1>1. \A c \in Clq : NodeContent[c] \subseteq e
  BY DEF JTreeType, HiddenClq
<1> QED
  BY <1>1, FactorHasHome DEF LiveFactors

\* The first queue of CollectEvidenceOMP_gau.
LEMMA EnterGaussianStep ==
  ASSUME IInv, NEW e \in Evidence, EnterEvidenceOMP(e), EnterGaussian(e)
  PROVE  Gathering'
<1> DEFINE cs == collectSequence
<1>1. /\ root' = root /\ cs' = cs /\ got' = {} /\ queue' = <<>> \o cs
      /\ cond' = [a \in Arc |-> 0] /\ left' = [c \in Clq |-> NumOfChildren(c, root)]
      /\ nbrsTypes' = NbrsTypes(RebuildTreeFromRoot(root))
      /\ pc' = [t \in Thread |-> "test"] /\ root \in Clq /\ cs = RebuildTreeFromRoot(root)
  <2>1. queue = <<>> /\ root \in Clq /\ cs = RebuildTreeFromRoot(root)
    BY DEF EnterEvidenceOMP, Idle, IInv, ControlOK
  <2> QED
    BY <2>1 DEF EnterEvidenceOMP, ShrinkObservedOMP, EnterGaussian, InitNodeConditions
<1>2. IsCollectSequence(cs, root) /\ NumberOfClqs \in Nat
  BY <1>1, CollectSequenceOrder, JunctionTreeAssumption DEF JunctionTreeAssumption
<1>3. cs \in Seq(Clq) /\ queue' = cs
  BY <1>1, <1>2, ConcatEmptySeq DEF IsCollectSequence
<1>4. Distinct(cs) /\ \A c \in Clq : Among(cs, c)
  BY <1>2 DEF IsCollectSequence, Distinct, Among
<1> HIDE DEF cs
<1>5. \A t \in Thread : pc'[t] = "test"
  BY <1>1
<1>6. Queueing'
  <2>1. queue' \in Seq(Clq) /\ Distinct(queue') /\ \A c \in Clq : Among(queue', c)
    BY <1>3, <1>4
  <2>2. ~ AllOut'
    BY <1>5, TeamAssumption DEF AllOut, TeamAssumption
  <2>3. \A t \in Thread : ~ Has(t)'
    BY <1>5 DEF Has
  <2>4. \A c \in Clq \ {root'} : ~ SentUp(c)'
    BY <1>1 DEF SentUp
  <2> QED
    BY <2>1, <2>2, <2>3, <2>4 DEF Queueing
<1>7. Signalling'
  <2>1. ASSUME NEW c \in Clq \ {root'}
        PROVE  cond'[<<c, Up(root', c)>>] = 0 /\ cond'[<<Up(root', c), c>>] = 0
    BY <1>1, Above
  <2>2. ASSUME NEW c \in Clq
        PROVE  left'[c] = Cardinality({d \in Children(c)' : cond'[<<c, d>>] # 2})
    <3>1. Children(c)' = Children(c) /\ left'[c] = Cardinality(Children(c))
      BY <1>1, ChildrenCount DEF Children
    <3>2. \A d \in Children(c)' : cond'[<<c, d>>] = 0
      BY <1>1, <2>1 DEF Children
    <3>3. {d \in Children(c)' : cond'[<<c, d>>] # 2} = Children(c)
      BY <3>1, <3>2
    <3> QED
      BY <3>1, <3>3
  <2> QED
    BY <2>1, <2>2 DEF Signalling
<1>8. \A t \in Thread : pc'[t] \in CollectPc /\ Uploading(t)'
  BY <1>5 DEF CollectPc, Uploading
<1> QED
  BY <1>1, <1>6, <1>7, <1>8 DEF Gathering

\* EnterEvidenceOMP up to its first phase.
LEMMA EnterEvidenceStep ==
  ASSUME IInv, NEW e \in Evidence, EnterEvidenceOMP(e)
  PROVE  ControlOK' /\ SharedOK' /\ Collecting' /\ Gathering' /\ Distributing'
<1>1. /\ obs' = e /\ e \subseteq Node /\ got' = {} /\ root' = root
      /\ collectSequence' = collectSequence /\ phase \in {"idle", "thrown"}
  BY TeamAssumption DEF EnterEvidenceOMP, ShrinkObservedOMP, Idle, TeamAssumption
<1>2. /\ root \in Clq /\ collectSequence = RebuildTreeFromRoot(root) /\ AllOut /\ queue = <<>>
      /\ \E o \in Clq : nbrsTypes = NbrsTypes(RebuildTreeFromRoot(o))
      /\ SharedOK
  BY <1>1 DEF IInv, ControlOK
<1>3. CASE EnterTabular(e)
  <2>1. /\ phase' = "CollectEvidenceOMP" /\ rest' = collectSequence
        /\ UNCHANGED <<nbrsTypes, queue, cond, left, parentsLock, pc, node, todo, msg>>
    BY <1>3 DEF EnterTabular, shared, local
  <2>2. ControlOK' /\ SharedOK' /\ Gathering' /\ Distributing'
    BY <1>1, <1>2, <2>1 DEF ControlOK, SharedOK, AllOut, Gathering, Distributing
  <2>3. Collecting'
    <3>1. NumberOfClqs \in Nat
      BY JunctionTreeAssumption DEF JunctionTreeAssumption
    <3>2. collectSequence \in Seq(Clq) /\ Len(collectSequence) = NumberOfClqs
      BY <1>2, CollectSequenceOrder DEF IsCollectSequence
    <3>3. collectSequence = SubSeq(collectSequence, 1, NumberOfClqs)
      BY <3>2, SubSeqFull
    <3>4. /\ 0 \in 0 .. NumberOfClqs /\ rest' = Ahead(collectSequence', 0)
          /\ got' = UpArcs(root', Visited(collectSequence', 0))
      BY <1>1, <2>1, <3>1, <3>3 DEF UpArcs, Ahead, Visited
    <3> QED
      BY <3>4 DEF Collecting
  <2> QED
    BY <2>2, <2>3
<1>4. CASE EnterGaussian(e)
  <2>1. /\ phase' = "CollectEvidenceOMP_gau"
        /\ cond' = [a \in Arc |-> 0] /\ left' = [c \in Clq |-> NumOfChildren(c, root)]
        /\ nbrsTypes' = NbrsTypes(RebuildTreeFromRoot(root))
        /\ pc' = [t \in Thread |-> "test"] /\ UNCHANGED <<parentsLock, node, todo, msg>>
    BY <1>2, <1>4 DEF EnterGaussian, InitNodeConditions
  <2>2. ControlOK' /\ Collecting' /\ Distributing'
    BY <1>1, <1>2, <2>1 DEF ControlOK, Collecting, Distributing
  <2>3. SharedOK'
    <3>1. cond' \in [Arc -> Int] /\ left' \in [Clq -> Int]
      BY <1>2, <2>1, ChildrenCount
    <3>2. pc' \in [Thread -> CollectPc \cup DistributePc]
      BY <2>1 DEF CollectPc
    <3> QED
      BY <1>2, <2>1, <3>1, <3>2 DEF SharedOK
  <2> QED
    BY <1>4, <2>2, <2>3, EnterGaussianStep
<1>5. CASE EnterScalar(e)
  <2>1. /\ phase' = "idle" /\ UNCHANGED <<nbrsTypes, queue, cond, left, parentsLock, pc, node, todo, msg>>
        /\ JTreeType(e) = "dtScalar"
    BY <1>5 DEF EnterScalar, shared, local
  <2>2. LiveFactors(obs') = {}
    BY <1>1, <2>1, AllScalar
  <2> QED
    BY <1>1, <1>2, <2>1, <2>2 DEF ControlOK, SharedOK, AllOut, Collecting, Gathering, Distributing
<1> QED
  BY <1>3, <1>4, <1>5 DEF EnterEvidenceOMP

\* After either collect phase every clique has sent up and none has been told.
LEMMA CollectOver ==
  ASSUME IInv, StartDistribute
  PROVE  got = UpArcs(root, Clq) /\ queue = <<>>
<1>1. root \in Clq /\ collectSequence = RebuildTreeFromRoot(root)
  BY DEF IInv, ControlOK
<1>2. CASE phase = "CollectEvidenceOMP" /\ rest = <<>>
  <2>1. PICK k \in 0 .. NumberOfClqs :
          rest = Ahead(collectSequence, k) /\ got = UpArcs(root, Visited(collectSequence, k))
    BY <1>2 DEF IInv, Collecting
  <2>2. Visited(collectSequence, k) = Clq
    BY <1>1, <1>2, <2>1, CollectSequenceOrder, CollectDone
  <2> QED
    BY <1>2, <2>1, <2>2 DEF IInv, ControlOK
<1>3. CASE phase = "CollectEvidenceOMP_gau" /\ AllOut
  <2>1. Queueing /\ got \subseteq UpArcs(root, Clq)
    BY <1>3 DEF IInv, Gathering
  <2>2. queue = <<>> /\ \A t \in Thread : ~ Has(t)
    BY <1>3, <2>1 DEF Queueing, AllOut, Has
  <2>3. \A c \in Clq : ~ Among(queue, c)
    BY <2>2, EmptySeq DEF Among
  <2>4. \A c \in Clq \ {root} : SentUp(c)
    BY <2>1, <2>2, <2>3 DEF Queueing
  <2> QED
    BY <2>1, <2>2, <2>4 DEF UpArcs, SentUp
<1> QED
  BY <1>2, <1>3 DEF StartDistribute

\* DistributeEvidenceOMP up to its parallel section.
LEMMA StartDistributeStep ==
  ASSUME IInv, StartDistribute
  PROVE  ControlOK' /\ SharedOK' /\ Collecting' /\ Gathering' /\ Distributing'
<1>1. /\ phase' = "DistributeEvidenceOMP" /\ source' = <<root>> /\ count' = NumberOfClqs - 1
      /\ isEndPar' = FALSE /\ pc' = [t \in Thread |-> "loop"]
      /\ cond' = [a \in Arc |-> 0] /\ left' = [c \in Clq |-> NumOfChildren(c, root)]
      /\ UNCHANGED <<obs, root, collectSequence, nbrsTypes, got, queue, parentsLock, node, todo, msg>>
  BY DEF StartDistribute, InitNodeConditions, tree, pots
<1>2. SharedOK /\ root \in Clq /\ got = UpArcs(root, Clq) /\ queue = <<>>
  BY CollectOver DEF IInv, ControlOK
<1>3. ControlOK' /\ Collecting' /\ Gathering'
  BY <1>1, <1>2 DEF IInv, ControlOK, Collecting, Gathering
<1>4. SharedOK'
  <2>1. cond' \in [Arc -> Int] /\ left' \in [Clq -> Int]
    BY <1>1, <1>2, ChildrenCount
  <2>2. pc' \in [Thread -> CollectPc \cup DistributePc]
    BY <1>1 DEF DistributePc
  <2> QED
    BY <1>1, <1>2, <2>1, <2>2 DEF SharedOK
<1>5. \A c \in Clq \ {root'} : ~ Told(c)'
  <2>1. ASSUME NEW c \in Clq \ {root} PROVE <<Up(root, c), c>> \notin UpArcs(root, Clq)
    <3>1. Up(root, c) \in Nbrs(c)
      BY <1>2, UpFacts
    <3>2. ~ (Up(root, c) # root /\ Up(root, Up(root, c)) = c)
      BY <1>2, <3>1, UpOrDown
    <3> QED
      BY <3>2 DEF UpArcs
  <2> QED
    BY <1>1, <1>2, <2>1 DEF Told
<1>6. source' \in Seq(Clq) /\ \A c \in Clq : Among(source', c) => Reached(c)'
  BY <1>1, <1>2 DEF Among, Reached
<1>7. \A t \in Thread : pc'[t] = "loop" /\ ~ Busy(t)'
  BY <1>1 DEF Busy
<1>8. Counting'
  <2> DEFINE S == {c \in Clq \ {root} :
                     ~ Told(c) \/ \E u \in Thread : pc[u] = "count" /\ Sink(u) = c}
  <2>1. S' = Clq \ {root}
    BY <1>1, <1>5
  <2>2. count' = Cardinality(S')
    BY <1>1, <1>2, <2>1, FiniteCliques
  <2> QED
    BY <1>1, <1>7, <2>2 DEF Counting
<1>9. Distributing'
  <2>1. \A t \in Thread : pc'[t] \in DistributePc /\ Downloading(t)'
    BY <1>7 DEF Downloading, DistributePc
  <2>2. Claiming'
    BY <1>7 DEF Claiming
  <2>3. UpArcs(root', Clq) \subseteq got'
    BY <1>1, <1>2
  <2> QED
    BY <1>5, <1>6, <1>8, <2>1, <2>2, <2>3 DEF Distributing
<1> QED
  BY <1>3, <1>4, <1>9

\* The end of the parallel section of DistributeEvidenceOMP: all messages are sent.
LEMMA FinishEvidenceStep ==
  ASSUME IInv, FinishEvidence
  PROVE  ControlOK' /\ SharedOK' /\ Collecting' /\ Gathering' /\ Distributing'
<1>1. /\ phase = "DistributeEvidenceOMP" /\ AllOut /\ phase' = "idle"
      /\ UNCHANGED <<obs, root, collectSequence, nbrsTypes, got, queue, cond, left, parentsLock,
                     pc, node, todo, msg>>
  BY DEF FinishEvidence, tree, pots, local
<1>2. got = Arc
  <2>1. root \in Clq /\ got \subseteq Arc
    BY SameTree DEF IInv, ControlOK, PP!IInv, PP!TypeOK
  <2>2. PICK t : t \in Thread
    BY TeamAssumption DEF TeamAssumption
  <2>3. isEndPar
    BY <1>1, <2>2 DEF AllOut, IInv, Distributing, Counting
  <2>4. \A c \in Clq \ {root} : Told(c)
    BY <1>1, <2>3 DEF IInv, Distributing, Counting
  <2>5. UpArcs(root, Clq) \subseteq got /\ DownArcs(root, Clq) \subseteq got
    BY <1>1, <2>4 DEF IInv, Distributing, DownArcs, Told
  <2> QED
    BY <2>1, <2>5, AllArcs
<1>3. ControlOK'
  BY <1>1, <1>2 DEF IInv, ControlOK, AllOut
<1>4. SharedOK'
  BY <1>1 DEF IInv, SharedOK
<1> QED
  BY <1>1, <1>3, <1>4 DEF Collecting, Gathering, Distributing

\* What a thread does keeps the invariant.
LEMMA ThreadStepIInv ==
  ASSUME IInv, NEW t \in Thread, ThreadStep(t)
  PROVE  ControlOK' /\ SharedOK' /\ Collecting' /\ Gathering' /\ Distributing'
<1>1. UNCHANGED <<obs, root, collectSequence, nbrsTypes, phase, rest>>
  BY QuietSteps DEF tree
<1>2. CASE CollectStep(t)
  <2>1. phase = "CollectEvidenceOMP_gau"
    <3>1. pc[t] \in CollectPc \ {"out"}
      BY <1>2 DEF CollectStep, TestQueue, TakeNode, CheckNode, LockParent, ReadUp, WriteUp,
                  SignalParent, ScanCondition, RequeueNode, CollectPc
    <3> QED
      BY <3>1, InPhase
  <2>2. ControlOK' /\ Collecting' /\ Distributing'
    BY <1>1, <2>1 DEF IInv, ControlOK, Collecting, Distributing
  <2>3. Gathering'
    BY <1>2, LookingStep, TakeNodeStep, WriteUpStep, SignalParentStep, ScanConditionStep,
       RequeueNodeStep DEF CollectStep
  <2> QED
    BY <2>2, <2>3, SharedStep
<1>3. CASE DistributeStep(t)
  <2>1. phase = "DistributeEvidenceOMP" /\ queue' = queue
    <3>1. pc[t] \in DistributePc \ {"out"}
      BY <1>3 DEF DistributeStep, TestEndPar, TakeFront, SkipNbr, ClaimNbr, ReadDown, WriteDown,
                  DecCount, PushNbr, NbrsDone, PopFront, DistributePc
    <3>2. queue' = queue
      BY <1>3 DEF DistributeStep, TestEndPar, TakeFront, SkipNbr, ClaimNbr, ReadDown, Read,
                  WriteDown, DecCount, PushNbr, NbrsDone, PopFront, shared
    <3> QED
      BY <3>1, <3>2, InPhase
  <2>2. ControlOK' /\ Collecting' /\ Gathering'
    BY <1>1, <2>1 DEF IInv, ControlOK, Collecting, Gathering
  <2>3. Distributing'
    BY <1>3, WaitingStep, ClaimNbrStep, WriteDownStep, DecCountStep, PushNbrStep, DoneStep
       DEF DistributeStep
  <2> QED
    BY <2>2, <2>3, SharedStep
<1> QED
  BY <1>2, <1>3 DEF ThreadStep

-------------------------------------------------------------------------------
(***************************************************************************)
(* Initial states and steps.                                               *)
(***************************************************************************)

LEMMA InitIInv == Init => PP!Init /\ IInv
<1> SUFFICES ASSUME Init PROVE PP!Init /\ IInv
  OBVIOUS
<1>1. PP!Init
  <2>1. LiveFactors(obs) = {}
    BY JunctionTreeAssumption DEF Init, LiveFactors, JunctionTreeAssumption
  <2>2. ScalarLinks(obs) \in SUBSET Link
    BY DEF ScalarLinks
  <2> QED
    BY <2>1, <2>2, SamePotentials DEF Init, PP!Init
<1>2. PP!IInv
  BY <1>1, EngineTree, PP!InitIInv
<1>3. 0 \in Clq
  BY JunctionTreeAssumption DEF JunctionTreeAssumption, Clq
<1>4. LiveFactors(obs) = {}
  BY JunctionTreeAssumption DEF Init, LiveFactors, JunctionTreeAssumption
<1>5. ControlOK
  BY <1>3, <1>4 DEF Init, ControlOK, AllOut
<1>6. SharedOK
  BY <1>3 DEF Init, SharedOK, NoMsg, Unit, Potential, CollectPc
<1>7. Collecting /\ Gathering /\ Distributing
  BY DEF Init, Collecting, Gathering, Distributing
<1> QED
  BY <1>1, <1>2, <1>5, <1>6, <1>7 DEF IInv

\* Every step keeps the inductive invariant.
LEMMA NextIInv == IInv /\ [Next]_vars => IInv'
<1> SUFFICES ASSUME IInv, [Next]_vars PROVE IInv'
  OBVIOUS
<1>1. PP!IInv'
  <2>1. PP!IInv /\ [PP!Next]_PP!vars
    BY StepRefines DEF IInv
  <2> QED
    BY <2>1, EngineTree, PP!NextIInv
<1> SUFFICES ControlOK' /\ SharedOK' /\ Collecting' /\ Gathering' /\ Distributing'
  BY <1>1 DEF IInv
<1>2. ASSUME NEW r \in NewRoot, SetJTreeRootNode(r)
      PROVE  ControlOK' /\ SharedOK' /\ Collecting' /\ Gathering' /\ Distributing'
  <2>1. /\ r \in Clq /\ root' = r /\ collectSequence' = RebuildTreeFromRoot(r)
        /\ phase' = phase /\ phase \in {"idle", "thrown"}
        /\ UNCHANGED <<obs, nbrsTypes, got, queue, cond, left, parentsLock, pc, node, todo, msg>>
    BY <1>2, TeamAssumption DEF SetJTreeRootNode, Idle, pots, shared, local, TeamAssumption
  <2>2. ControlOK'
    BY <2>1 DEF IInv, ControlOK, AllOut
  <2>3. SharedOK'
    BY <2>1 DEF IInv, SharedOK
  <2> QED
    BY <2>1, <2>2, <2>3 DEF Collecting, Gathering, Distributing
<1>3. CASE CollectEvidenceOMP
  <2>1. /\ phase = "CollectEvidenceOMP" /\ phase' \in {phase, "thrown"}
        /\ UNCHANGED <<obs, root, collectSequence, nbrsTypes, queue, cond, left, parentsLock,
                       pc, node, todo, msg>>
    BY <1>3 DEF CollectEvidenceOMP, tree, shared, local
  <2>2. ControlOK'
    BY <2>1 DEF IInv, ControlOK, AllOut
  <2>3. SharedOK'
    BY <2>1 DEF IInv, SharedOK
  <2>4. Collecting'
    BY <1>3, CollectMaster
  <2> QED
    BY <2>1, <2>2, <2>3, <2>4 DEF Gathering, Distributing
<1>4. CASE UNCHANGED vars
  <2>1. UNCHANGED <<obs, clq, got, root, collectSequence, nbrsTypes, phase, rest, queue, source,
                    cond, left, count, isEndPar, parentsLock, pc, node, todo, msg>>
    BY <1>4 DEF vars, tree, pots, shared, local
  <2>2. ControlOK' /\ SharedOK' /\ Collecting'
    BY <2>1 DEF IInv, ControlOK, AllOut, SharedOK, Collecting
  <2>3. Gathering'
    <3> SUFFICES ASSUME phase = "CollectEvidenceOMP_gau" PROVE Gathering'
      BY <2>1 DEF Gathering
    <3>1. /\ Queueing /\ Signalling /\ got' \subseteq UpArcs(root, Clq)
          /\ \A u \in Thread : pc[u] \in CollectPc /\ Uploading(u)
      BY <2>1 DEF IInv, Gathering
    <3>2. Queueing' /\ Signalling'
      BY <2>1, <3>1, QueueingSame, SignallingSame DEF Has, AllOut, Queueing
    <3>3. \A u \in Thread : pc'[u] \in CollectPc /\ Uploading(u)'
      BY <2>1, <3>1, UploadingSame
    <3> QED
      BY <2>1, <3>1, <3>2, <3>3, GatheringStep DEF tree
  <2>4. Distributing'
    <3> SUFFICES ASSUME phase = "DistributeEvidenceOMP" PROVE Distributing'
      BY <2>1 DEF Distributing
    <3>1. /\ source \in Seq(Clq) /\ Claiming /\ Counting
          /\ \A c \in Clq \ {root} : Told(c) => cond[<<Up(root, c), c>>] # 0
          /\ \A u \in Thread : pc[u] \in DistributePc /\ Downloading(u)
      BY DEF IInv, Distributing
    <3>2. \A u \in Thread : pc'[u] \in DistributePc /\ Downloading(u)'
      BY <2>1, <3>1, DownloadingSame
    <3>3. Claiming'
      BY <2>1, <3>1 DEF Claiming, Busy, Sink
    <3>4. Counting'
      BY <2>1, <3>1, CountingSame DEF Counting
    <3> QED
      BY <2>1, <3>1, <3>2, <3>3, <3>4, DistributingStep DEF tree, Told
  <2> QED
    BY <2>2, <2>3, <2>4
<1> QED
  BY <1>2, <1>3, <1>4, EnterEvidenceStep, StartDistributeStep, FinishEvidenceStep, ThreadStepIInv
     DEF Next, Master

-------------------------------------------------------------------------------
(***************************************************************************)
(* The theorems.                                                           *)
(***************************************************************************)

THEOREM Invariance == Spec => []IInv
  BY InitIInv, NextIInv, PTL DEF Spec

\* However the threads of the team are scheduled, EnterEvidenceOMP sends every message
\* of the propagation when it is due and once, and no update of a clique is lost: the
\* queue, the conditions, the locks of the parents and the claims do what the sequential
\* engine does in its order.
THEOREM TeamImplementsPropagation == Spec => ImplementsPropagation
<1>1. PP!Init => P!Init
  BY DEF PP!Init, P!Init, PP!Unit, P!Unit
<1>2. [PP!Next]_PP!vars => [P!Next]_P!vars
  <2>1. PP!vars = P!vars /\ PP!vars' = P!vars'
    BY DEF PP!vars, P!vars
  <2>2. PP!ShrinkObserved => P!ShrinkObserved
    BY DEF PP!ShrinkObserved, P!ShrinkObserved, PP!Unit, P!Unit
  <2>3. ASSUME NEW i \in Clq, NEW j \in Clq
        PROVE  /\ PP!PropagateScalar(i, j) => P!PropagateScalar(i, j)
               /\ PP!PropagateBetweenClqs(i, j) => P!PropagateBetweenClqs(i, j)
    <3>1. PP!CanSend(i, j) <=> P!CanSend(i, j)
      BY SameTree DEF PP!CanSend, P!CanSend
    <3>2. \A p, q : PP!Times(p, q) = P!Times(p, q) /\ PP!Over(p, q) = P!Over(p, q)
      BY DEF PP!Times, P!Times, PP!Over, P!Over
    <3> QED
      BY <3>1, <3>2 DEF PP!PropagateScalar, P!PropagateScalar,
                        PP!PropagateBetweenClqs, P!PropagateBetweenClqs
  <2>4. PP!Next => P!Next
    <3>1. ASSUME NEW i \in Clq, NEW j \in Clq,
                 PP!PropagateScalar(i, j) \/ PP!PropagateBetweenClqs(i, j)
          PROVE  P!Next
      BY <2>3, <3>1 DEF P!Next
    <3>2. PP!ShrinkObserved => P!Next
      BY <2>2 DEF P!Next
    <3> QED
      BY <3>1, <3>2 DEF PP!Next
  <2> QED
    BY <2>1, <2>4
<1>3. IInv /\ [Next]_vars => [P!Next]_P!vars
  BY <1>2, StepRefines
<1>4. Init => P!Init
  BY <1>1, InitIInv
<1> QED
  BY <1>3, <1>4, Invariance, PTL DEF Spec, ImplementsPropagation

\* When EnterEvidenceOMP returns every clique holds the joint distribution, although the
\* threads leave the two parallel sections one by one.
THEOREM TeamLeavesJoint == Spec => []EvidencePropagated
<1>1. IInv => EvidencePropagated
  <2> SUFFICES ASSUME IInv, phase = "idle", NEW c \in Clq PROVE clq[c] = JointPotential(c, obs)
    BY DEF EvidencePropagated
  <2> DEFINE R == PP!Received(c)
             K == Component(c, obs)
  <2>1. clq[c] = PP!Charge(R)
    BY DEF IInv, PP!IInv, PP!AccountedOnce
  <2>2. PP!Charge(R) = [f \in Factor |-> IF f \in LiveFactors(obs) /\ FactAssignToClq(f) \in R
                                         THEN 1 ELSE 0]
    <3> HIDE DEF R
    <3> QED
      BY DEF PP!Charge
  <2>3. CASE LiveFactors(obs) = {}
    <3> HIDE DEF R
    <3> QED
      BY <2>1, <2>2, <2>3 DEF JointPotential
  <2>4. CASE got = Arc
    <3>1. \A d \in Nbrs(c) : <<d, c>> \in got
      BY <2>4, NbrsSymmetric
    <3>2. {d \in PP!Nbrs(c) : <<d, c>> \in got} = Nbrs(c)
      BY <3>1, SameTree
    <3>3. R = K
      BY <3>2 DEF PP!Received, PP!Around, Component
    <3> HIDE DEF R
    <3> QED
      BY <2>1, <2>2, <3>3 DEF JointPotential
  <2> QED
    BY <2>3, <2>4 DEF IInv, ControlOK
<1> QED
  BY <1>1, Invariance, PTL

\* PropagateBetweenClqs takes no lock, and needs none: no thread writes a clique that
\* another one reads or writes.
THEOREM NoDataRace == Spec => []PropagationRaceFree
<1>1. IInv => PropagationRaceFree
  <2> SUFFICES ASSUME IInv, NEW t \in Thread, NEW u \in Thread, t # u,
                      Propagating(t), Propagating(u)
               PROVE  SinkOf(t) # SourceOf(u) /\ SinkOf(t) # SinkOf(u)
    BY DEF PropagationRaceFree
  <2>1. CASE pc[t] \in {"read up", "write up"}
    <3>1. phase = "CollectEvidenceOMP_gau"
      BY <2>1, UpReady
    <3>2. pc[u] \in {"read up", "write up"}
      BY <3>1, DownReady DEF Propagating, Busy
    <3>3. /\ SinkOf(t) = Up(root, node[t]) /\ SinkOf(u) = Up(root, node[u])
          /\ node[t] \in Clq \ {root} /\ ~ SentUp(node[t])
          /\ \A d \in Children(node[u]) : SentUp(d)
      BY <2>1, <3>2, UpReady DEF SinkOf
    <3>4. parentsLock[Up(root, node[t])] = t /\ parentsLock[Up(root, node[u])] = u
      BY <2>1, <3>1, <3>2 DEF IInv, Gathering, Uploading
    <3> QED
      BY <3>3, <3>4 DEF SourceOf, Children
  <2>2. CASE pc[t] \in {"read down", "write down"}
    <3>1. phase = "DistributeEvidenceOMP" /\ Sink(t) # root /\ ~ Told(Sink(t))
      BY <2>2, DownReady DEF Busy
    <3>2. pc[u] \in {"read down", "write down"}
      BY <3>1, UpReady DEF Propagating
    <3>3. Claiming /\ Reached(node[u])
      BY <3>1, <3>2 DEF IInv, Distributing, Downloading
    <3> QED
      BY <2>2, <3>1, <3>2, <3>3 DEF Claiming, Busy, Reached, SourceOf, SinkOf
  <2> QED
    BY <2>1, <2>2 DEF Propagating
<1> QED
  BY <1>1, Invariance, PTL

===============================================================================
