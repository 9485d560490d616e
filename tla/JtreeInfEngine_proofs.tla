------------------------- MODULE JtreeInfEngine_proofs -------------------------
(***************************************************************************)
(* Proofs about module JtreeInfEngine: for every junction tree, every root *)
(* and every sequence of calls the sequential engine implements module     *)
(* Propagation, and leaves the joint distribution in every clique.         *)
(***************************************************************************)
EXTENDS JtreeInfEngine, JtreeRoot_proofs

PP == INSTANCE Propagation_proofs WITH
        Home <- [f \in Factor |-> FactAssignToClq(f)],
        live <- LiveFactors(obs), mute <- ScalarLinks(obs)

-------------------------------------------------------------------------------
(***************************************************************************)
(* The engine's tree and potentials are those of module Propagation.       *)
(***************************************************************************)

\* The arcs and neighbours of the two modules are the same.
LEMMA SameTree ==
  /\ PP!Arc = Arc /\ P!Arc = Arc
  /\ \A c \in Clq : PP!Nbrs(c) = Nbrs(c) /\ P!Nbrs(c) = Nbrs(c)
<1>1. \A c \in Clq : \A d \in Nbrs(c) : c # d
  BY NbrsSymmetric
<1>2. PP!Arc = Arc /\ P!Arc = Arc
  BY <1>1 DEF PP!Arc, P!Arc, Arc, Nbrs
<1> QED
  BY <1>2 DEF PP!Nbrs, P!Nbrs, Nbrs, Arc

\* The tree of the engine is one.
LEMMA EngineTree == PP!TreeAssumption
<1>1. [f \in Factor |-> FactAssignToClq(f)] \in [Factor -> Clq]
  BY FactorHasHome
<1>2. ASSUME NEW m \in SUBSET Link, NEW i \in Clq, NEW k \in Nbrs(i)
      PROVE  /\ i \notin Behind(m, k, i)
             /\ \A n \in Nbrs(i) \ {k} : Behind(m, k, i) \cap Behind(m, n, i) = {}
  BY LinksFormTree
<1>3. \A c \in Clq : PP!Nbrs(c) = Nbrs(c)
  BY SameTree
<1>4. \A m \in SUBSET Link : \A i \in Clq : \A j \in PP!Nbrs(i) :
        Behind(m, i, j) =
          IF {i, j} \in m THEN {} ELSE {i} \cup PP!Around(m, i, PP!Nbrs(i) \ {j})
  <2> SUFFICES ASSUME NEW m \in SUBSET Link, NEW i \in Clq, NEW j \in PP!Nbrs(i)
               PROVE  Behind(m, i, j) =
                        IF {i, j} \in m THEN {} ELSE {i} \cup PP!Around(m, i, PP!Nbrs(i) \ {j})
    OBVIOUS
  <2>1. j \in Nbrs(i) /\ PP!Nbrs(i) = Nbrs(i)
    BY <1>3
  <2>2. PP!Around(m, i, PP!Nbrs(i) \ {j}) = Around(m, i, Nbrs(i) \ {j})
    BY <2>1 DEF PP!Around, Around
  <2> QED
    BY <2>1, <2>2, LinksFormTree
<1>5. \A m \in SUBSET Link : \A i \in Clq : \A k \in PP!Nbrs(i) :
        /\ i \notin Behind(m, k, i)
        /\ \A n \in PP!Nbrs(i) \ {k} : Behind(m, k, i) \cap Behind(m, n, i) = {}
  BY <1>2, <1>3
<1> QED
  BY <1>1, <1>4, <1>5 DEF PP!TreeAssumption

\* Potentials are multiplied and divided alike.
LEMMA SamePotentials ==
  /\ PP!Unit = Unit /\ PP!Potential = Potential
  /\ \A p, q : PP!Times(p, q) = Times(p, q) /\ PP!Over(p, q) = Over(p, q)
  BY DEF PP!Unit, PP!Potential, PP!Times, PP!Over, Unit, Potential, Times, Over

\* PropagateBetweenClqs sends one message of Propagation when that may be sent and
\* the dense path that ignores the separator is taken on the way up only.
LEMMA MessageRefines ==
  ASSUME PP!IInv, NEW i \in Clq, NEW j \in Clq, PP!CanSend(i, j),
         NEW isCollect \in BOOLEAN, isCollect => <<j, i>> \notin got,
         PropagateBetweenClqs(i, j, isCollect), obs' = obs
  PROVE  PP!PropagateScalar(i, j) \/ PP!PropagateBetweenClqs(i, j)
<1> DEFINE l == {i, j}
           ratio == Over(clq[i], sep[l])
<1>1. LiveFactors(obs)' = LiveFactors(obs) /\ ScalarLinks(obs)' = ScalarLinks(obs)
  OBVIOUS
<1>2. got' = got \cup {<<i, j>>}
  BY DEF PropagateBetweenClqs
<1>3. /\ clq \in [Clq -> Potential] /\ sep \in [Link -> Potential] /\ l \in Link
      /\ (IsScalar(l, obs) <=> l \in ScalarLinks(obs))
  BY SamePotentials DEF PP!IInv, PP!TypeOK, PP!CanSend, PP!Arc, ScalarLinks
<1>4. CASE l \in ScalarLinks(obs)
  <2>1. UNCHANGED <<sep, clq>>
    BY <1>3, <1>4 DEF PropagateBetweenClqs
  <2> QED
    BY <1>1, <1>2, <1>4, <2>1 DEF PP!PropagateScalar
<1>5. CASE l \notin ScalarLinks(obs)
  <2>1. SUFFICES /\ clq' = [clq EXCEPT ![j] = Times(clq[j], ratio)]
                 /\ \E s \in {clq[i], ratio} : sep' = [sep EXCEPT ![l] = s]
    BY <1>1, <1>2, <1>5, SamePotentials DEF PP!PropagateBetweenClqs
  <2>2. <<j, i>> \notin got \/ clq[i] = Unit => sep[l] = Unit /\ ratio = clq[i]
    <3>1. <<j, i>> \notin got \/ clq[i] = PP!Unit => sep[{i, j}] = PP!Unit
      BY <1>5, EngineTree, PP!SeparatorWhenSending
    <3> QED
      BY <1>3, <3>1, SamePotentials, UnitNeutral
  <2>3. CASE IsDensePath(l) /\ clq[i] = Unit
    <3>1. UNCHANGED <<sep, clq>>
      BY <2>3 DEF PropagateBetweenClqs
    <3>2. ratio = Unit /\ sep[l] = Unit
      BY <2>2, <2>3
    <3>3. Times(clq[j], ratio) = clq[j]
      BY <1>3, <3>2, UnitNeutral
    <3>4. clq' = [clq EXCEPT ![j] = Times(clq[j], ratio)] /\ sep' = [sep EXCEPT ![l] = ratio]
      BY <1>3, <3>1, <3>2, <3>3
    <3> QED
      BY <3>4
  <2>4. CASE IsDensePath(l) /\ clq[i] # Unit
    <3>1. DoPropagate(i, j, isCollect)
      BY <1>3, <1>5, <2>4 DEF PropagateBetweenClqs
    <3> QED
      BY <2>2, <3>1 DEF DoPropagate
  <2>5. CASE ~ IsDensePath(l)
    <3>1. PropagateGeneral(i, j)
      BY <1>3, <1>5, <2>5 DEF PropagateBetweenClqs
    <3> QED
      BY <3>1 DEF PropagateGeneral
  <2> QED
    BY <2>3, <2>4, <2>5
<1> QED
  BY <1>4, <1>5

-------------------------------------------------------------------------------
(***************************************************************************)
(* The inductive invariant.  The collect phase has dealt with a prefix of  *)
(* the collect sequence, and every clique of it but the root has sent up.  *)
(* In the distribute phase a clique is served when the clique above it is  *)
(* out of the queue, or in front of it and done with the clique.           *)
(***************************************************************************)
ControlOK ==
  /\ obs \subseteq Node /\ maximize \in BOOLEAN /\ root \in Clq
  /\ collectSequence = RebuildTreeFromRoot(root)
  /\ pc \in {"created", "collect", "distribute", "done"}

Collecting ==
  pc = "collect" =>
    \E k \in 0 .. NumberOfClqs :
      /\ rest = Ahead(collectSequence, k)
      /\ sent = Visited(collectSequence, k)
      /\ got = UpArcs(root, sent)

Served == {c \in Clq \ {root} :
             \/ Up(root, c) \in sent
             \/ source # <<>> /\ Up(root, c) = Head(source) /\ c \notin nbrs}

Queued == {source[n] : n \in 1 .. Len(source)}

Distributing ==
  pc = "distribute" =>
    /\ source \in Seq(Clq) /\ sent \subseteq Clq
    /\ \A m, n \in 1 .. Len(source) : source[m] = source[n] => m = n
    /\ sent \cap Queued = {}
    /\ root \in sent \cup Queued
    /\ sent \cup Queued \subseteq {root} \cup Served
    /\ \A c \in Served : Cardinality(Nbrs(c)) > 1 => c \in sent \cup Queued
    /\ nbrs \subseteq (IF source = <<>> THEN {} ELSE Nbrs(Head(source)))
    /\ got = UpArcs(root, Clq) \cup DownArcs(root, Served)

Finished == pc = "done" => got = Arc

\* Where the scale of the factors of a clique is that sends and receives densely.
Taken(c) == \E a \in got : c \in {a[1], a[2]}

Scaled ==
  /\ scale \in [Clq -> Potential] /\ norm \in Potential
  /\ pc # "created" =>
       \A f \in Factor : SentDensely(FactAssignToClq(f)) =>
         LET c == FactAssignToClq(f)
         IN  /\ norm[f] = IF Taken(c) THEN Likelihood[f] ELSE 0
             /\ pc = "collect" =>
                  \A x \in Clq :
                    scale[x][f] = IF x = c /\ ~ \E a \in got : a[2] = c THEN Likelihood[f] ELSE 0

IInv == PP!IInv /\ ControlOK /\ Collecting /\ Distributing /\ Finished /\ Scaled

\* What CanSend asks for.
LEMMA SendWhen ==
  ASSUME NEW i \in Clq, NEW j \in Nbrs(i)
  PROVE  /\ PP!CanSend(i, j) <=>
              <<i, j>> \notin got /\ \A k \in Nbrs(i) \ {j} : <<k, i>> \in got
         /\ j \in Clq
<1>1. <<i, j>> \in Arc /\ j \in Clq
  BY NbrsSymmetric
<1> QED
  BY <1>1, SameTree DEF PP!CanSend

\* The next clique of the collect sequence sends up when it is due, and the root has
\* nobody left to send to.
LEMMA CollectStep ==
  ASSUME IInv, CollectEvidence
  PROVE  /\ Collecting'
         /\ \/ UNCHANGED pots
            \/ \E i \in Clq : \E j \in Nbrs(i) :
                 /\ PropagateBetweenClqs(i, j, TRUE)
                 /\ PP!CanSend(i, j) /\ <<j, i>> \notin got
<1> DEFINE cs == collectSequence
           N == NumberOfClqs
<1>1. IsCollectSequence(cs, root) /\ root \in Clq
  BY CollectSequenceOrder DEF IInv, ControlOK
<1>2. N \in Nat \ {0} /\ pc = "collect" /\ rest # <<>>
  BY JunctionTreeAssumption DEF JunctionTreeAssumption, CollectEvidence
<1>3. PICK k \in 0 .. N : /\ rest = Ahead(cs, k)
                          /\ sent = Visited(cs, k)
                          /\ got = UpArcs(root, sent)
  BY <1>2 DEF IInv, Collecting
<1> DEFINE i == cs[k + 1]
           j == Up(root, i)
<1>0. i = cs[k + 1] /\ j = Up(root, i)
  OBVIOUS
<1> HIDE DEF i, j
<1>4. /\ k + 1 \in 0 .. N /\ Head(rest) = i /\ Tail(rest) = Ahead(cs, k + 1)
      /\ i \in Clq \ sent /\ sent \subseteq Clq
      /\ Visited(cs, k + 1) = sent \cup {i}
      /\ i = root => Nbrs(i) \ sent = {}
      /\ i # root => /\ j \in Nbrs(i) /\ j \in Clq
                     /\ Nbrs(i) \ sent = {j} /\ Min(Nbrs(i) \ sent) = j
                     /\ <<j, i>> \notin UpArcs(root, sent)
                     /\ \A d \in Nbrs(i) \ {j} : <<d, i>> \in UpArcs(root, sent)
  <2>1. /\ k + 1 \in 0 .. N /\ Head(rest) = i /\ Tail(rest) = Ahead(cs, k + 1)
        /\ i \in Clq \ sent /\ sent \subseteq Clq
        /\ Visited(cs, k + 1) = sent \cup {i}
        /\ \A d \in Nbrs(i) : d \in sent <=> i = root \/ d # Up(root, i)
    BY <1>0, <1>1, <1>2, <1>3, CollectPlace
  <2>2. ASSUME i # root
        PROVE  /\ j \in Nbrs(i) /\ j \in Clq
               /\ Nbrs(i) \ sent = {j} /\ Min(Nbrs(i) \ sent) = j
               /\ <<j, i>> \notin UpArcs(root, sent)
               /\ \A d \in Nbrs(i) \ {j} : <<d, i>> \in UpArcs(root, sent)
    BY <1>0, <1>1, <2>1, <2>2, CollectTarget
  <2> QED
    BY <2>1, <2>2
<1>10. /\ sent' = Visited(cs, k + 1) /\ sent' = sent \cup {i}
       /\ rest' = Ahead(cs, k + 1)
       /\ root' = root /\ cs' = cs /\ pc' = pc
  BY <1>4 DEF CollectEvidence, tree
<1>11. CASE i = root
  <2>1. UNCHANGED pots
    BY <1>4, <1>11 DEF CollectEvidence
  <2>2. got' = UpArcs(root, sent)'
    BY <1>3, <1>10, <1>11, <2>1 DEF UpArcs, pots
  <2> QED
    BY <1>4, <1>10, <2>1, <2>2 DEF Collecting
<1>12. CASE i # root
  <2>1. PropagateBetweenClqs(i, j, TRUE)
    BY <1>4, <1>12 DEF CollectEvidence
  <2>2. got' = UpArcs(root, sent)'
    <3>1. got' = got \cup {<<i, j>>}
      BY <2>1 DEF PropagateBetweenClqs
    <3> QED
      BY <1>3, <1>10, <1>12, <3>1 DEF UpArcs, j
  <2>3. <<i, j>> \notin got
    BY <1>3, <1>4 DEF UpArcs
  <2>4. PP!CanSend(i, j)
    BY <1>3, <1>4, <1>12, <2>3, SendWhen
  <2>5. Collecting'
    BY <1>4, <1>10, <2>2 DEF Collecting
  <2> QED
    BY <1>3, <1>4, <1>12, <2>1, <2>4, <2>5
<1> QED
  BY <1>11, <1>12

\* The next clique of the queue sends to each of the cliques below it when it is due,
\* and skips the one above it.
LEMMA DistributeStep ==
  ASSUME IInv, DistributeEvidence
  PROVE  /\ Distributing'
         /\ \/ UNCHANGED pots
            \/ \E i \in Clq : \E j \in Nbrs(i) :
                 PropagateBetweenClqs(i, j, FALSE) /\ PP!CanSend(i, j)
<1> DEFINE i == Head(source)
           j == Min(nbrs)
<1>1. /\ pc = "distribute" /\ nbrs # {} /\ nbrs' = nbrs \ {j}
      /\ sent' = sent /\ root' = root /\ pc' = pc /\ root \in Clq
  BY DEF DistributeEvidence, tree, IInv, ControlOK
<1>2. /\ source \in Seq(Clq) /\ sent \subseteq Clq
      /\ \A m, n \in 1 .. Len(source) : source[m] = source[n] => m = n
      /\ sent \cap Queued = {} /\ root \in sent \cup Queued
      /\ sent \cup Queued \subseteq {root} \cup Served
      /\ \A c \in Served : Cardinality(Nbrs(c)) > 1 => c \in sent \cup Queued
      /\ nbrs \subseteq (IF source = <<>> THEN {} ELSE Nbrs(Head(source)))
      /\ got = UpArcs(root, Clq) \cup DownArcs(root, Served)
  BY <1>1 DEF IInv, Distributing
<1>3. source # <<>> /\ nbrs \subseteq Nbrs(i) /\ Len(source) \in Nat \ {0}
  BY <1>1, <1>2, EmptySeq
<1>4. i \in Clq /\ i \in Queued /\ i = source[1] /\ 1 \in 1 .. Len(source)
  BY <1>2, <1>3, ElementOfSeq DEF Queued
<1>5. j \in nbrs /\ j \in Nbrs(i) /\ j \in Clq
  <2>1. nbrs \in SUBSET Nat
    <3>1. NumberOfClqs \in Nat
      BY JunctionTreeAssumption DEF JunctionTreeAssumption
    <3>2. Nbrs(i) \subseteq Clq /\ Clq \subseteq Nat
      BY <3>1 DEF Nbrs, Clq
    <3> QED
      BY <1>3, <3>2
  <2>2. j \in nbrs
    BY <1>1, <2>1, MinNat
  <2> QED
    BY <1>3, <1>4, <2>2, NbrsSymmetric
<1> HIDE DEF i, j
<1>6. i \notin sent /\ (i # root => Up(root, i) \in sent)
  <2>1. i \notin sent
    BY <1>2, <1>4
  <2>2. ASSUME i # root PROVE Up(root, i) \in sent
    <3>1. i \in Served
      BY <1>2, <1>4, <2>2
    <3>2. Up(root, i) # i
      BY <1>1, <1>4, <2>2, UpFacts, NbrsSymmetric
    <3> QED
      BY <3>1, <3>2 DEF Served, i
  <2> QED
    BY <2>1, <2>2
<1>7. CASE j \in sent
  <2>1. UNCHANGED <<pots, source>>
    BY <1>7 DEF DistributeEvidence, j
  <2>2. Served' = Served
    <3>1. j = root \/ j \in Served
      BY <1>2, <1>7
    <3> QED
      BY <1>1, <2>1, <3>1 DEF Served
  <2>3. Queued' = Queued /\ got' = got
    BY <2>1 DEF Queued, pots
  <2>4. Distributing'
    BY <1>1, <1>2, <1>3, <2>1, <2>2, <2>3 DEF Distributing, UpArcs, DownArcs
  <2> QED
    BY <2>1, <2>4
<1>8. CASE j \notin sent
  <2>1. /\ PropagateBetweenClqs(i, j, FALSE)
        /\ source' = IF Cardinality(Nbrs(j)) > 1 THEN Append(source, j) ELSE source
    BY <1>8 DEF DistributeEvidence, j, i
  <2>2. j # root /\ Up(root, j) = i /\ j # i
    BY <1>1, <1>4, <1>5, <1>6, <1>8, UpOrDown, NbrsSymmetric
  <2>3. j \notin Served /\ j \notin Queued
    <3>1. j \notin Served
      BY <1>5, <1>6, <2>2 DEF Served, i
    <3> QED
      BY <1>2, <2>2, <3>1
  <2>4. <<i, j>> \notin got
    <3>1. ~ (i # root /\ Up(root, i) = j)
      BY <1>1, <1>4, <1>5, <2>2, UpOrDown
    <3> QED
      BY <1>2, <2>3, <3>1 DEF UpArcs, DownArcs
  <2>5. ASSUME NEW k \in Nbrs(i) \ {j} PROVE <<k, i>> \in got
    <3>1. k \in Clq
      BY <1>4, NbrsSymmetric
    <3>2. CASE i # root /\ Up(root, i) = k
      <4>1. i \in Served
        BY <1>2, <1>4, <3>2
      <4> QED
        BY <1>2, <3>2, <4>1 DEF DownArcs
    <3>3. CASE k # root /\ Up(root, k) = i
      BY <1>2, <3>1, <3>3 DEF UpArcs
    <3> QED
      BY <1>1, <1>4, <3>2, <3>3, UpOrDown
  <2>6. PP!CanSend(i, j)
    BY <1>4, <1>5, <2>4, <2>5, SendWhen
  <2>7. /\ source' \in Seq(Clq) /\ source' # <<>> /\ Head(source') = i
        /\ \A m, n \in 1 .. Len(source') : source'[m] = source'[n] => m = n
        /\ Queued' = IF Cardinality(Nbrs(j)) > 1 THEN Queued \cup {j} ELSE Queued
    <3>1. CASE Cardinality(Nbrs(j)) > 1
      <4>1. /\ source' \in Seq(Clq) /\ Len(source') = Len(source) + 1
            /\ source'[Len(source) + 1] = j
            /\ \A n \in 1 .. Len(source) : source'[n] = source[n]
        BY <1>2, <1>5, <2>1, <3>1, AppendProperties
      <4>2. source' # <<>> /\ Head(source') = i
        BY <1>3, <1>4, <4>1, EmptySeq
      <4>3. 1 .. Len(source') = (1 .. Len(source)) \cup {Len(source) + 1}
        BY <1>3, <4>1
      <4>4. Queued' = Queued \cup {j}
        BY <4>1, <4>3 DEF Queued
      <4>5. \A n \in 1 .. Len(source) : source[n] # j
        BY <2>3 DEF Queued
      <4>6. ASSUME NEW m \in 1 .. Len(source'), NEW n \in 1 .. Len(source'),
                   source'[m] = source'[n]
            PROVE  m = n
        BY <1>2, <4>1, <4>3, <4>5, <4>6
      <4> QED
        BY <3>1, <4>1, <4>2, <4>4, <4>6
    <3>2. CASE ~ Cardinality(Nbrs(j)) > 1
      <4>1. source' = source
        BY <2>1, <3>2
      <4> QED
        BY <1>2, <1>3, <3>2, <4>1 DEF Queued, i
    <3> QED
      BY <3>1, <3>2
  <2>8. Served' = Served \cup {j}
    <3>1. \A c \in Clq \ {root} :
            c \in Served' <=> Up(root, c) \in sent \/ (Up(root, c) = i /\ c \notin nbrs \ {j})
      BY <1>1, <2>7 DEF Served
    <3>2. \A c \in Clq \ {root} :
            c \in Served <=> Up(root, c) \in sent \/ (Up(root, c) = i /\ c \notin nbrs)
      BY <1>3 DEF Served, i
    <3>3. Served \subseteq Clq \ {root} /\ Served' \subseteq Clq \ {root}
      BY <1>1 DEF Served
    <3> QED
      BY <1>5, <2>2, <3>1, <3>2, <3>3
  <2>9. got' = UpArcs(root, Clq)' \cup DownArcs(root, Served)'
    <3>1. got' = got \cup {<<i, j>>}
      BY <2>1 DEF PropagateBetweenClqs
    <3> QED
      BY <1>1, <1>2, <2>2, <2>8, <3>1 DEF UpArcs, DownArcs
  <2>10. sent' \cup Queued' \subseteq {root'} \cup Served'
    BY <1>1, <1>2, <2>7, <2>8
  <2>11. \A c \in Served' : Cardinality(Nbrs(c)) > 1 => c \in sent' \cup Queued'
    BY <1>1, <1>2, <2>7, <2>8
  <2>12. sent' \cap Queued' = {} /\ root' \in sent' \cup Queued'
    BY <1>1, <1>2, <1>8, <2>7
  <2>13. nbrs' \subseteq (IF source' = <<>> THEN {} ELSE Nbrs(Head(source')))
    BY <1>1, <1>3, <2>7
  <2>14. Distributing'
    BY <1>1, <1>2, <2>7, <2>9, <2>10, <2>11, <2>12, <2>13 DEF Distributing
  <2> QED
    BY <1>4, <1>5, <2>1, <2>6, <2>14
<1> QED
  BY <1>7, <1>8

\* A clique that holds one of its own factors does not hold a unit function.
LEMMA OwnFactorHeld ==
  ASSUME PP!IInv, NEW c \in Clq, InitNodePot(c, obs) # Unit
  PROVE  clq[c] # Unit
<1>1. PICK f \in Factor : f \in LiveFactors(obs) /\ FactAssignToClq(f) = c
  BY DEF InitNodePot, Unit
<1>2. clq[c] = PP!Charge(PP!Received(c)) /\ c \in PP!Received(c)
  BY DEF PP!IInv, PP!AccountedOnce, PP!Received
<1>3. clq[c][f] = 1
  <2> DEFINE R == PP!Received(c)
  <2>1. FactAssignToClq(f) \in R
    BY <1>1, <1>2
  <2> HIDE DEF R
  <2>2. PP!Charge(R)[f] = 1
    BY <1>1, <2>1 DEF PP!Charge
  <2> QED
    BY <1>2, <2>2 DEF R
<1> QED
  BY <1>3 DEF Unit

\* What a message that comes up and brings something does to the scale of the factors
\* of its two cliques: it is taken out the first time.
LEMMA ScaledStep ==
  ASSUME IInv, pc = "collect", pc' = "collect", obs' = obs, maximize' = maximize,
         NEW i \in Clq, NEW j \in Nbrs(i),
         PropagateBetweenClqs(i, j, TRUE), PP!CanSend(i, j), <<j, i>> \notin got
  PROVE  Scaled'
<1>1. /\ j \in Clq /\ i # j /\ {i, j} = {j, i}
      /\ got' = got \cup {<<i, j>>} /\ got \subseteq Arc
      /\ scale' = [scale EXCEPT ![j] = Unit]
      /\ scale \in [Clq -> Potential] /\ norm \in Potential /\ Unit \in Potential
  <2>1. j \in Clq /\ i # j /\ {i, j} = {j, i}
    BY NbrsSymmetric
  <2>2. got' = got \cup {<<i, j>>} /\ scale' = [scale EXCEPT ![j] = Unit]
    BY DEF PropagateBetweenClqs
  <2>3. got \subseteq Arc
    BY SameTree DEF IInv, PP!IInv, PP!TypeOK
  <2>4. scale \in [Clq -> Potential] /\ norm \in Potential /\ Unit \in Potential
    BY DEF IInv, Scaled, Unit, Potential
  <2> QED
    BY <2>1, <2>2, <2>3, <2>4
<1>2. norm' \in {norm, Times(norm, Times(scale[i], scale[j]))}
  BY DEF PropagateBetweenClqs, DoPropagate, PropagateGeneral
<1>3. scale' \in [Clq -> Potential] /\ norm' \in Potential
  <2>1. Times(norm, Times(scale[i], scale[j])) \in Potential
    BY <1>1 DEF Times, Potential
  <2> QED
    BY <1>1, <1>2, <2>1
<1>4. SUFFICES ASSUME NEW f \in Factor, SentDensely(FactAssignToClq(f))
               PROVE  LET c == FactAssignToClq(f)
                      IN  /\ norm'[f] = IF \E a \in got' : c \in {a[1], a[2]}
                                        THEN Likelihood[f] ELSE 0
                          /\ \A x \in Clq :
                               scale'[x][f] = IF x = c /\ ~ \E a \in got' : a[2] = c
                                              THEN Likelihood[f] ELSE 0
  BY <1>3 DEF Scaled, SentDensely, IsDensePath, Likelihood, Taken
<1>c. PICK c \in Clq : c = FactAssignToClq(f)
  BY FactorHasHome
<1> DEFINE In == \E a \in got : a[2] = c
           L == Likelihood[f]
<1>5. /\ c \in Clq /\ SentDensely(c) /\ L \in Int
      /\ norm[f] = IF Taken(c) THEN L ELSE 0
      /\ \A x \in Clq : scale[x][f] = IF x = c /\ ~ In THEN L ELSE 0
  BY <1>4, <1>c DEF IInv, Scaled, Likelihood
<1> HIDE DEF L
<1>6. /\ (\E a \in got' : c \in {a[1], a[2]}) <=> Taken(c) \/ c \in {i, j}
      /\ (\E a \in got' : a[2] = c) <=> In \/ j = c
  <2> DEFINE b == <<i, j>>
  <2>1. b[1] = i /\ b[2] = j /\ got' = got \cup {b}
    BY <1>1
  <2> HIDE DEF b
  <2> QED
    BY <2>1 DEF Taken
<1>7. \A x \in Clq : scale'[x][f] = IF x = c /\ ~ (In \/ j = c) THEN L ELSE 0
  BY <1>1, <1>5 DEF Unit
<1>8. norm'[f] = IF Taken(c) \/ c \in {i, j} THEN L ELSE 0
  <2>1. Times(norm, Times(scale[i], scale[j]))[f] = norm[f] + (scale[i][f] + scale[j][f])
    BY DEF Times
  <2>2. CASE c \notin {i, j}
    <3>1. scale[i][f] = 0 /\ scale[j][f] = 0 /\ norm[f] \in Int
      BY <1>1, <1>5, <2>2
    <3>2. norm'[f] = norm[f]
      BY <1>2, <2>1, <3>1
    <3> QED
      BY <1>5, <2>2, <3>2
  <2>3. CASE c \in {i, j}
    <3>1. norm' = Times(norm, Times(scale[i], scale[j]))
      <4>1. PICK k \in Nbrs(c) : {i, j} = {c, k}
        BY <1>1, <2>3, NbrsSymmetric
      <4>2. IsDensePath({i, j}) /\ ~ IsScalar({i, j}, obs) /\ InitNodePot(i, obs) # Unit
        BY <1>5, <2>3, <4>1 DEF SentDensely
      <4>3. clq[i] # Unit
        BY <4>2, OwnFactorHeld DEF IInv
      <4> QED
        BY <4>2, <4>3 DEF PropagateBetweenClqs, DoPropagate
    <3>2. Taken(c) <=> In
      <4> SUFFICES ASSUME Taken(c), ~ In PROVE FALSE
        BY DEF Taken
      <4>1. PICK a \in got : a[1] = c
        BY DEF Taken
      <4> DEFINE d == a[2]
      <4>2. a = <<c, d>> /\ d \in Nbrs(c)
        BY <1>1, <4>1 DEF Arc, Nbrs
      <4>3. \A k \in Nbrs(c) \ {d} : <<k, c>> \in got
        <5>1. PP!Nbrs(c) = Nbrs(c) /\ <<c, d>> \in got
          BY <4>1, <4>2, SameTree
        <5>2. PP!SentInOrder
          BY DEF IInv, PP!IInv
        <5> QED
          BY <4>2, <5>1, <5>2 DEF PP!SentInOrder
      <4>4. ASSUME NEW k \in Nbrs(c) PROVE k = d
        <5> SUFFICES ASSUME k # d PROVE FALSE
          OBVIOUS
        <5> DEFINE b == <<k, c>>
        <5>1. b \in got /\ b[2] = c
          BY <4>3
        <5> HIDE DEF b
        <5> QED
          BY <5>1
      <4>5. CASE c = i
        <5>1. <<i, j>> \in got
          BY <4>2, <4>4, <4>5
        <5> QED
          BY <5>1, SendWhen
      <4>6. CASE c = j
        <5>1. <<j, i>> \in got
          BY <1>1, <4>2, <4>4, <4>6, NbrsSymmetric
        <5> QED
          BY <5>1
      <4> QED
        BY <2>3, <4>5, <4>6
    <3> QED
      BY <1>1, <1>5, <2>1, <2>3, <3>1, <3>2
  <2> QED
    BY <2>2, <2>3
<1> QED
  BY <1>c, <1>6, <1>7, <1>8 DEF L

\* On the way down the scale is not taken out any more.
LEMMA ScaledDown ==
  ASSUME IInv, pc = "distribute", pc' = "distribute", UNCHANGED tree,
         NEW i \in Clq, NEW j \in Nbrs(i), PropagateBetweenClqs(i, j, FALSE)
  PROVE  Scaled'
<1>1. norm' = norm /\ got \subseteq got' /\ scale' = [scale EXCEPT ![j] = Unit]
      /\ obs' = obs /\ maximize' = maximize
  <2>1. norm' = norm
    BY DEF PropagateBetweenClqs, DoPropagate, PropagateGeneral
  <2>2. got' = got \cup {<<i, j>>} /\ scale' = [scale EXCEPT ![j] = Unit]
    BY DEF PropagateBetweenClqs
  <2>3. obs' = obs /\ maximize' = maximize
    BY DEF tree
  <2> QED
    BY <2>1, <2>2, <2>3
<1>2. scale' \in [Clq -> Potential] /\ norm' \in Potential
  <2>1. scale \in [Clq -> Potential] /\ norm \in Potential
    BY DEF IInv, Scaled
  <2>2. Unit \in Potential
    BY DEF Unit, Potential
  <2> QED
    BY <1>1, <2>1, <2>2
<1>3. ASSUME NEW c \in Clq, Nbrs(c) # {} PROVE Taken(c)
  <2>1. PICK d : d \in Nbrs(c)
    BY <1>3
  <2>2. root \in Clq /\ UpArcs(root, Clq) \subseteq got /\ d \in Clq
    BY <2>1, NbrsSymmetric DEF IInv, ControlOK, Distributing
  <2>3. <<c, d>> \in UpArcs(root, Clq) \/ <<d, c>> \in UpArcs(root, Clq)
    BY <2>1, <2>2, UpOrDown DEF UpArcs
  <2> QED
    BY <2>2, <2>3 DEF Taken
<1>4. ASSUME NEW f \in Factor, SentDensely(FactAssignToClq(f)) PROVE norm'[f] = Likelihood[f]
  BY <1>1, <1>3, <1>4, FactorHasHome DEF IInv, Scaled, SentDensely
<1>5. \A c \in Clq : Nbrs(c) # {} => Taken(c)'
  BY <1>1, <1>3 DEF Taken
<1> QED
  BY <1>1, <1>2, <1>4, <1>5, FactorHasHome DEF Scaled, SentDensely, IsDensePath, Likelihood

\* When the queue is empty every clique has been served: what is served contains the
\* root and every neighbour of one of its cliques.
LEMMA AllServed ==
  ASSUME IInv, pc = "distribute", source = <<>>
  PROVE  Served = Clq \ {root}
<1>1. /\ root \in Clq /\ sent \subseteq Clq /\ Queued = {}
      /\ root \in sent /\ sent \subseteq {root} \cup Served
      /\ \A c \in Served : Cardinality(Nbrs(c)) > 1 => c \in sent
      /\ Served = {c \in Clq \ {root} : Up(root, c) \in sent}
  BY EmptySeq DEF IInv, ControlOK, Distributing, Queued, Served
<1> DEFINE S == {root} \cup Served
<1>2. ASSUME NEW x \in S, NEW y \in Nbrs(x) PROVE y \in S
  <2>1. x \in Clq /\ y \in Clq /\ x \in Nbrs(y)
    <3>1. x \in Clq
      BY <1>1, <1>2
    <3> QED
      BY <1>2, <3>1, NbrsSymmetric
  <2>2. CASE x # root /\ Up(root, x) = y
    BY <1>1, <1>2, <2>2
  <2>3. CASE y # root /\ Up(root, y) = x
    <3>1. x \in sent
      <4> SUFFICES ASSUME x # root PROVE Cardinality(Nbrs(x)) > 1
        BY <1>1, <1>2
      <4>1. Up(root, x) \in Nbrs(x) /\ Up(root, x) # y
        BY <1>1, <1>2, <2>1, <2>3, UpFacts, UpOrDown
      <4>2. IsFiniteSet(Nbrs(x)) /\ Cardinality(Nbrs(x)) \in Nat
        BY <2>1, FiniteCliques, FS_CardinalityType
      <4>3. Cardinality(Nbrs(x)) # 0
        BY <1>2, <4>2, FS_EmptySet
      <4>4. Cardinality(Nbrs(x)) # 1
        BY <1>2, <4>1, <4>2, FS_Singleton
      <4> QED
        BY <4>2, <4>3, <4>4
    <3> QED
      BY <1>1, <2>1, <2>3, <3>1
  <2> QED
    BY <1>1, <1>2, <2>1, <2>2, <2>3, UpOrDown
<1>3. S \in SUBSET Clq /\ S # {}
  BY <1>1
<1>4. IsClosed(S, {})
  BY <1>2 DEF IsClosed
<1>5. S = Clq
  <2> HIDE DEF S
  <2> QED
    BY <1>3, <1>4, Connected
<1> QED
  BY <1>1, <1>5

\* Every step of the engine is one of Propagation or changes nothing of it.
LEMMA StepRefines ==
  ASSUME IInv, [Next]_vars
  PROVE  [PP!Next]_PP!vars
<1>1. ASSUME UNCHANGED <<obs, clq, sep, got>> PROVE UNCHANGED PP!vars
  BY <1>1 DEF PP!vars
<1>2. ASSUME UNCHANGED tree, NEW i \in Clq, NEW j \in Nbrs(i), NEW isCollect \in BOOLEAN,
             PropagateBetweenClqs(i, j, isCollect), PP!CanSend(i, j),
             isCollect => <<j, i>> \notin got
      PROVE  PP!Next
  <2>1. PP!PropagateScalar(i, j) \/ PP!PropagateBetweenClqs(i, j)
    <3>1. j \in Clq
      BY <1>2, NbrsSymmetric
    <3>2. PP!IInv /\ obs' = obs
      BY <1>2 DEF IInv, tree
    <3> QED
      BY <1>2, <3>1, <3>2, MessageRefines
  <2>2. j \in Clq
    BY <1>2, NbrsSymmetric
  <2> QED
    BY <2>1, <2>2 DEF PP!Next
<1>3. ASSUME NEW r \in Clq, SetJTreeRootNode(r) PROVE UNCHANGED PP!vars
  BY <1>1, <1>3 DEF SetJTreeRootNode, pots
<1>4. ASSUME NEW e \in Evidence, NEW mx \in MaximizeFlag, EnterEvidence(e, mx) PROVE PP!Next
  <2>1. /\ obs' = e /\ clq' = [c \in Clq |-> InitNodePot(c, e)]
        /\ sep' = [l \in Link |-> Unit] /\ got' = {}
    BY <1>4 DEF EnterEvidence
  <2>2. LiveFactors(obs)' = LiveFactors(e) /\ ScalarLinks(obs)' = ScalarLinks(e)
    BY <2>1
  <2>3. LiveFactors(e) \in SUBSET Factor /\ ScalarLinks(e) \in SUBSET Link
    BY DEF LiveFactors, ScalarLinks
  <2>4. clq' = [c \in Clq |->
                  [f \in Factor |->
                     IF /\ f \in LiveFactors(e)
                        /\ [g \in Factor |-> FactAssignToClq(g)][f] = c
                     THEN 1 ELSE 0]]
    <3> SUFFICES ASSUME NEW c \in Clq
                 PROVE  InitNodePot(c, e) =
                          [f \in Factor |->
                             IF /\ f \in LiveFactors(e)
                                /\ [g \in Factor |-> FactAssignToClq(g)][f] = c
                             THEN 1 ELSE 0]
      BY <2>1
    <3> QED
      BY DEF InitNodePot
  <2>5. PP!ShrinkObserved
    BY <2>1, <2>2, <2>3, <2>4, SamePotentials DEF PP!ShrinkObserved
  <2> QED
    BY <2>5 DEF PP!Next
<1>5. CASE CollectEvidence
  <2>1. UNCHANGED tree
    BY <1>5 DEF CollectEvidence
  <2>2. CASE UNCHANGED pots
    BY <1>1, <2>1, <2>2 DEF tree, pots
  <2>3. CASE ~ UNCHANGED pots
    <3>1. PICK i \in Clq : \E j \in Nbrs(i) :
                 PropagateBetweenClqs(i, j, TRUE) /\ PP!CanSend(i, j) /\ <<j, i>> \notin got
      BY <1>5, <2>3, CollectStep
    <3> QED
      BY <1>2, <2>1, <3>1
  <2> QED
    BY <2>2, <2>3
<1>6. CASE DistributeEvidence
  <2>1. UNCHANGED tree
    BY <1>6 DEF DistributeEvidence
  <2>2. CASE UNCHANGED pots
    BY <1>1, <2>1, <2>2 DEF tree, pots
  <2>3. CASE ~ UNCHANGED pots
    <3>1. PICK i \in Clq : \E j \in Nbrs(i) :
                 PropagateBetweenClqs(i, j, FALSE) /\ PP!CanSend(i, j)
      BY <1>6, <2>3, DistributeStep
    <3> QED
      BY <1>2, <2>1, <3>1
  <2> QED
    BY <2>2, <2>3
<1>7. CASE StartDistribute \/ PopSource \/ FinishEvidence
  BY <1>1, <1>7 DEF StartDistribute, PopSource, FinishEvidence, tree, pots
<1>8. ASSUME NEW q \in Query, MarginalNodes(q) PROVE UNCHANGED PP!vars
  BY <1>1, <1>8 DEF MarginalNodes, MarginalizeCliqueToQuery, MarginalizeMergedCliques, tree, pots
<1>9. CASE UNCHANGED vars
  BY <1>1, <1>9 DEF vars, tree, pots
<1> QED
  BY <1>3, <1>4, <1>5, <1>6, <1>7, <1>8, <1>9 DEF Next, Propagate

\* Before the first evidence.
LEMMA InitIInv == Init => PP!Init /\ IInv
<1> SUFFICES ASSUME Init PROVE PP!Init /\ IInv
  OBVIOUS
<1>1. PP!Init
  <2>1. LiveFactors(obs) = {}
    BY JunctionTreeAssumption DEF Init, LiveFactors, JunctionTreeAssumption
  <2>2. ScalarLinks(obs) \in SUBSET Link
    BY DEF ScalarLinks
  <2> QED
    BY <2>1, <2>2, SamePotentials DEF Init, PP!Init
<1>2. PP!IInv
  BY <1>1, EngineTree, PP!InitIInv
<1>3. ControlOK
  <2>1. 0 \in Clq
    BY JunctionTreeAssumption DEF JunctionTreeAssumption, Clq
  <2> QED
    BY <2>1 DEF Init, ControlOK
<1>4. Collecting /\ Distributing /\ Finished
  BY DEF Init, Collecting, Distributing, Finished
<1>5. Scaled
  BY DEF Init, Scaled, Unit, NotCollected, Potential
<1> QED
  BY <1>1, <1>2, <1>3, <1>4, <1>5 DEF IInv

\* The first statements of CollectEvidence.
LEMMA EnterEvidenceIInv ==
  ASSUME IInv, NEW e \in Evidence, NEW mx \in MaximizeFlag, EnterEvidence(e, mx)
  PROVE  ControlOK' /\ Collecting' /\ Distributing' /\ Finished' /\ Scaled'
<1>1. /\ obs' = e /\ maximize' = mx /\ root' = root /\ collectSequence' = collectSequence
      /\ scale' = [c \in Clq |-> InitNodePot(c, e)] /\ norm' = Unit /\ got' = {}
      /\ pc' = "collect" /\ rest' = collectSequence /\ sent' = {}
  BY DEF EnterEvidence
<1>2. ControlOK'
  BY <1>1, EngineAssumption DEF IInv, ControlOK, EngineAssumption
<1>3. Collecting'
  <2>1. NumberOfClqs \in Nat
    BY JunctionTreeAssumption DEF JunctionTreeAssumption
  <2>2. collectSequence \in Seq(Clq) /\ Len(collectSequence) = NumberOfClqs
    BY CollectSequenceOrder DEF IInv, ControlOK, IsCollectSequence
  <2>3. collectSequence = SubSeq(collectSequence, 1, NumberOfClqs)
    BY <2>2, SubSeqFull
  <2>4. /\ 0 \in 0 .. NumberOfClqs /\ rest' = Ahead(collectSequence', 0)
        /\ sent' = Visited(collectSequence', 0) /\ got' = UpArcs(root, sent)'
    BY <1>1, <2>1, <2>3 DEF UpArcs, Ahead, Visited
  <2> QED
    BY <2>4 DEF Collecting
<1>4. Distributing' /\ Finished'
  BY <1>1 DEF Distributing, Finished
<1>5. Scaled'
  <2>1. scale' \in [Clq -> Potential] /\ norm' \in Potential
    BY <1>1 DEF InitNodePot, Unit, Potential
  <2>2. ASSUME NEW f \in Factor
        PROVE  LET c == FactAssignToClq(f)
               IN  /\ norm'[f] = IF Taken(c)' THEN Likelihood[f]' ELSE 0
                   /\ \A x \in Clq : scale'[x][f] = IF x = c /\ ~ \E a \in got' : a[2] = c
                                                    THEN Likelihood[f]' ELSE 0
    <3>1. norm'[f] = 0 /\ \A x \in Clq : scale'[x][f] = InitNodePot(x, e)[f]
      BY <1>1 DEF Unit
    <3>2. Likelihood[f]' = IF f \in LiveFactors(e) THEN 1 ELSE 0
      BY <1>1 DEF Likelihood
    <3>3. \A x \in Clq : InitNodePot(x, e)[f] =
                           IF f \in LiveFactors(e) /\ FactAssignToClq(f) = x THEN 1 ELSE 0
      BY DEF InitNodePot
    <3> QED
      BY <1>1, <3>1, <3>2, <3>3 DEF Taken
  <2> QED
    BY <2>1, <2>2 DEF Scaled
<1> QED
  BY <1>2, <1>3, <1>4, <1>5

\* Between the phases.
LEMMA BetweenPhases ==
  ASSUME IInv, StartDistribute \/ PopSource \/ FinishEvidence
  PROVE  ControlOK' /\ Collecting' /\ Distributing' /\ Finished'
<1>0. NumberOfClqs \in Nat \ {0}
  BY JunctionTreeAssumption DEF JunctionTreeAssumption
<1>1. ControlOK'
  BY DEF StartDistribute, PopSource, FinishEvidence, tree, IInv, ControlOK
<1>2. CASE StartDistribute
  <2>1. /\ pc = "collect" /\ rest = <<>> /\ pc' = "distribute" /\ sent' = {}
        /\ source' = <<root>> /\ nbrs' = Nbrs(root) /\ root' = root /\ got' = got
        /\ root \in Clq
    BY <1>2 DEF StartDistribute, tree, pots, IInv, ControlOK
  <2>2. IsCollectSequence(collectSequence, root)
    BY <2>1, CollectSequenceOrder DEF IInv, ControlOK
  <2>3. got = UpArcs(root, Clq)
    <3>1. PICK k \in 0 .. NumberOfClqs :
                 /\ rest = Ahead(collectSequence, k)
                 /\ sent = Visited(collectSequence, k)
                 /\ got = UpArcs(root, sent)
      BY <2>1 DEF IInv, Collecting
    <3>2. sent = Clq
      BY <2>1, <2>2, <3>1, CollectDone
    <3> QED
      BY <3>1, <3>2
  <2>4. Served' = {}
    <3>1. Head(source') = root
      BY <2>1
    <3>2. \A c \in Clq \ {root} : Up(root, c) = root => c \in Nbrs(root)
      BY <2>1, UpFacts, NbrsSymmetric
    <3> QED
      BY <2>1, <3>1, <3>2 DEF Served
  <2>5. source' \in Seq(Clq) /\ source' # <<>> /\ Len(source') = 1 /\ source'[1] = root
    BY <2>1
  <2>6. Queued' = {root}
    BY <2>5 DEF Queued
  <2>7. got' = UpArcs(root, Clq)' \cup DownArcs(root, Served)'
    BY <2>1, <2>3, <2>4 DEF UpArcs, DownArcs
  <2>8. Distributing'
    BY <2>1, <2>4, <2>5, <2>6, <2>7 DEF Distributing
  <2> QED
    BY <1>1, <2>1, <2>8 DEF Collecting, Finished
<1>3. CASE PopSource
  <2> DEFINE h == Head(source)
             t == Tail(source)
  <2>1. /\ pc = "distribute" /\ pc' = pc /\ nbrs = {} /\ source # <<>>
        /\ sent' = sent \cup {h} /\ source' = t
        /\ nbrs' = IF t = <<>> THEN {} ELSE Nbrs(Head(t))
        /\ root' = root /\ got' = got /\ root \in Clq
    BY <1>3 DEF PopSource, tree, pots, IInv, ControlOK
  <2>2. /\ source \in Seq(Clq) /\ sent \subseteq Clq
        /\ \A m, n \in 1 .. Len(source) : source[m] = source[n] => m = n
        /\ sent \cap Queued = {} /\ root \in sent \cup Queued
        /\ sent \cup Queued \subseteq {root} \cup Served
        /\ \A c \in Served : Cardinality(Nbrs(c)) > 1 => c \in sent \cup Queued
        /\ got = UpArcs(root, Clq) \cup DownArcs(root, Served)
    BY <2>1 DEF IInv, Distributing
  <2>3. /\ h \in Clq /\ h = source[1] /\ Len(source) \in Nat \ {0}
        /\ t \in Seq(Clq) /\ Len(t) = Len(source) - 1
        /\ \A n \in 1 .. Len(t) : t[n] = source[n + 1]
    BY <2>1, <2>2, HeadTailProperties, EmptySeq
  <2> HIDE DEF h, t
  <2>4. Queued = {h} \cup Queued' /\ h \notin Queued'
    <3>1. \A n \in 1 .. Len(t) : n + 1 \in 1 .. Len(source) /\ n + 1 # 1
      BY <2>3
    <3>2. \A n \in 1 .. Len(source) : n = 1 \/ (n - 1 \in 1 .. Len(t) /\ (n - 1) + 1 = n)
      BY <2>3
    <3>3. 1 \in 1 .. Len(source)
      BY <2>3
    <3>4. Queued' = {t[n] : n \in 1 .. Len(t)}
      BY <2>1 DEF Queued
    <3>5. h \notin Queued'
      BY <2>2, <2>3, <3>1, <3>3, <3>4
    <3>6. Queued' \subseteq Queued
      <4> SUFFICES ASSUME NEW n \in 1 .. Len(t) PROVE t[n] \in Queued
        BY <3>4
      <4>1. t[n] = source[n + 1] /\ n + 1 \in 1 .. Len(source)
        BY <2>3, <3>1
      <4> QED
        BY <4>1 DEF Queued
    <3>7. ASSUME NEW x \in Queued PROVE x = h \/ x \in Queued'
      <4>1. PICK n \in 1 .. Len(source) : x = source[n]
        BY DEF Queued
      <4>2. CASE n = 1
        BY <2>3, <4>1, <4>2
      <4>3. CASE n # 1
        <5>1. n - 1 \in 1 .. Len(t) /\ (n - 1) + 1 = n
          BY <3>2, <4>3
        <5>2. t[n - 1] = x
          BY <2>3, <4>1, <5>1
        <5> QED
          BY <3>4, <5>1, <5>2
      <4> QED
        BY <4>2, <4>3
    <3> QED
      BY <2>3, <3>3, <3>5, <3>6, <3>7 DEF Queued
  <2>5. Served' = Served
    <3>1. ASSUME t # <<>>, NEW c \in Clq \ {root}, Up(root, c) = Head(t) PROVE c \in nbrs'
      <4>1. Up(root, c) \in Nbrs(c)
        BY <2>1, UpFacts
      <4> QED
        BY <2>1, <3>1, <4>1, NbrsSymmetric
    <3> QED
      BY <2>1, <3>1 DEF Served, h
  <2>6. \A m, n \in 1 .. Len(t) : t[m] = t[n] => m = n
    <3> SUFFICES ASSUME NEW m \in 1 .. Len(t), NEW n \in 1 .. Len(t), t[m] = t[n] PROVE m = n
      OBVIOUS
    <3>1. m + 1 \in 1 .. Len(source) /\ n + 1 \in 1 .. Len(source)
      BY <2>3
    <3>2. m + 1 = n + 1
      BY <2>2, <2>3, <3>1
    <3> QED
      BY <3>2
  <2>7. got' = UpArcs(root, Clq)' \cup DownArcs(root, Served)'
    BY <2>1, <2>2, <2>5 DEF UpArcs, DownArcs
  <2>8. /\ sent' \subseteq Clq /\ sent' \cap Queued' = {} /\ root' \in sent' \cup Queued'
        /\ sent' \cup Queued' \subseteq {root'} \cup Served'
        /\ \A c \in Served' : Cardinality(Nbrs(c)) > 1 => c \in sent' \cup Queued'
    BY <2>1, <2>2, <2>3, <2>4, <2>5
  <2>9. Distributing'
    BY <2>1, <2>3, <2>6, <2>7, <2>8 DEF Distributing
  <2> QED
    BY <1>1, <2>1, <2>9 DEF Collecting, Finished
<1>4. CASE FinishEvidence
  <2>1. pc = "distribute" /\ source = <<>> /\ pc' = "done" /\ got' = got /\ root \in Clq
    BY <1>4 DEF FinishEvidence, pots, IInv, ControlOK
  <2>2. got = UpArcs(root, Clq) \cup DownArcs(root, Clq \ {root})
    BY <2>1, AllServed DEF IInv, Distributing
  <2>3. DownArcs(root, Clq \ {root}) = DownArcs(root, Clq)
    BY DEF DownArcs
  <2>4. got = Arc
    BY <2>1, <2>2, <2>3, AllArcs
  <2> QED
    BY <1>1, <2>1, <2>4 DEF Collecting, Distributing, Finished
<1> QED
  BY <1>2, <1>3, <1>4

\* Steps that leave the potentials alone.
LEMMA ScaledSame ==
  ASSUME IInv, UNCHANGED <<obs, maximize, scale, norm, got>>, pc' # "created" => pc # "created",
         pc' = "collect" => pc = "collect"
  PROVE  Scaled'
  BY DEF IInv, Scaled, SentDensely, IsDensePath, Taken, Likelihood

\* Every step keeps the inductive invariant.
LEMMA NextIInv == IInv /\ [Next]_vars => IInv'
<1> SUFFICES ASSUME IInv, [Next]_vars PROVE IInv'
  OBVIOUS
<1>1. PP!IInv'
  <2>1. PP!IInv /\ [PP!Next]_PP!vars
    BY StepRefines DEF IInv
  <2> QED
    BY <2>1, EngineTree, PP!NextIInv
<1> SUFFICES ControlOK' /\ Collecting' /\ Distributing' /\ Finished' /\ Scaled'
  BY <1>1 DEF IInv
<1>2. ASSUME UNCHANGED <<obs, maximize, root, collectSequence, pc, scale, norm, got, rest,
                         sent, source, nbrs>>
      PROVE  ControlOK' /\ Collecting' /\ Distributing' /\ Finished' /\ Scaled'
  <2>1. Scaled'
    BY <1>2, ScaledSame
  <2> QED
    BY <1>2, <2>1 DEF IInv, ControlOK, Collecting, Distributing, Finished, UpArcs, DownArcs,
                      Served, Queued
<1>3. ASSUME NEW r \in Clq, SetJTreeRootNode(r)
      PROVE  ControlOK' /\ Collecting' /\ Distributing' /\ Finished' /\ Scaled'
  <2>1. /\ UNCHANGED <<obs, maximize, scale, norm, got, pc>>
        /\ root' = r /\ collectSequence' = RebuildTreeFromRoot(r)
        /\ pc \in {"created", "done"}
    BY <1>3 DEF SetJTreeRootNode, Idle, pots, control
  <2>2. Scaled'
    BY <2>1, ScaledSame
  <2> QED
    BY <2>1, <2>2 DEF IInv, ControlOK, Collecting, Distributing, Finished
<1>4. CASE CollectEvidence
  <2>1. /\ pc = "collect" /\ pc' = "collect" /\ UNCHANGED tree
        /\ obs' = obs /\ maximize' = maximize
    BY <1>4 DEF CollectEvidence, tree
  <2>2. ControlOK' /\ Distributing' /\ Finished'
    BY <2>1 DEF IInv, ControlOK, Distributing, Finished, tree
  <2>3. Scaled'
    <3>1. CASE UNCHANGED pots
      BY <2>1, <3>1, ScaledSame DEF pots
    <3>2. CASE ~ UNCHANGED pots
      <4>1. PICK i \in Clq : \E j \in Nbrs(i) :
                   PropagateBetweenClqs(i, j, TRUE) /\ PP!CanSend(i, j) /\ <<j, i>> \notin got
        BY <1>4, <3>2, CollectStep
      <4> QED
        BY <2>1, <4>1, ScaledStep
    <3> QED
      BY <3>1, <3>2
  <2> QED
    BY <1>4, <2>2, <2>3, CollectStep
<1>5. CASE DistributeEvidence
  <2>1. pc = "distribute" /\ pc' = "distribute" /\ UNCHANGED tree
    BY <1>5 DEF DistributeEvidence
  <2>2. ControlOK' /\ Collecting' /\ Finished'
    BY <2>1 DEF IInv, ControlOK, Collecting, Finished, tree
  <2>3. Scaled'
    <3>1. CASE UNCHANGED pots
      BY <2>1, <3>1, ScaledSame DEF pots, tree
    <3>2. CASE ~ UNCHANGED pots
      <4>1. PICK i \in Clq : \E j \in Nbrs(i) :
                   PropagateBetweenClqs(i, j, FALSE) /\ PP!CanSend(i, j)
        BY <1>5, <3>2, DistributeStep
      <4> QED
        BY <2>1, <4>1, ScaledDown
    <3> QED
      BY <3>1, <3>2
  <2> QED
    BY <1>5, <2>2, <2>3, DistributeStep
<1>6. CASE StartDistribute \/ PopSource \/ FinishEvidence
  <2>1. UNCHANGED <<obs, maximize, scale, norm, got>> /\ pc' # "collect" /\ pc # "created"
    BY <1>6 DEF StartDistribute, PopSource, FinishEvidence, tree, pots
  <2> QED
    BY <1>6, <2>1, ScaledSame, BetweenPhases
<1>7. ASSUME NEW q \in Query, MarginalNodes(q)
      PROVE  ControlOK' /\ Collecting' /\ Distributing' /\ Finished' /\ Scaled'
  BY <1>2, <1>7 DEF MarginalNodes, MarginalizeCliqueToQuery, MarginalizeMergedCliques,
                    tree, pots, control
<1>8. CASE UNCHANGED vars
  BY <1>2, <1>8 DEF vars, tree, pots, control
<1>9. ASSUME NEW e \in Evidence, NEW mx \in MaximizeFlag, EnterEvidence(e, mx)
      PROVE  ControlOK' /\ Collecting' /\ Distributing' /\ Finished' /\ Scaled'
  BY <1>9, EnterEvidenceIInv
<1> QED
  BY <1>3, <1>4, <1>5, <1>6, <1>7, <1>8, <1>9 DEF Next, Propagate

-------------------------------------------------------------------------------
(***************************************************************************)
(* The theorems.                                                           *)
(***************************************************************************)

THEOREM Invariance == Spec => []IInv
  BY InitIInv, NextIInv, PTL DEF Spec

\* The engine sends every message of the propagation when it is due and once, whatever
\* the tree, the root and the evidence (CollectEvidence, DistributeEvidence and
\* PropagateBetweenClqs with its dense and its general path).
THEOREM EngineImplementsPropagation == Spec => ImplementsPropagation
<1>1. PP!Init => P!Init
  BY DEF PP!Init, P!Init, PP!Unit, P!Unit
<1>2. [PP!Next]_PP!vars => [P!Next]_P!vars
  <2>1. PP!vars = P!vars /\ PP!vars' = P!vars'
    BY DEF PP!vars, P!vars
  <2>2. PP!ShrinkObserved => P!ShrinkObserved
    BY DEF PP!ShrinkObserved, P!ShrinkObserved, PP!Unit, P!Unit
  <2>3. ASSUME NEW i \in Clq, NEW j \in Clq
        PROVE  /\ PP!PropagateScalar(i, j) => P!PropagateScalar(i, j)
               /\ PP!PropagateBetweenClqs(i, j) => P!PropagateBetweenClqs(i, j)
    <3>1. PP!CanSend(i, j) <=> P!CanSend(i, j)
      BY SameTree DEF PP!CanSend, P!CanSend
    <3>2. \A p, q : PP!Times(p, q) = P!Times(p, q) /\ PP!Over(p, q) = P!Over(p, q)
      BY DEF PP!Times, P!Times, PP!Over, P!Over
    <3> QED
      BY <3>1, <3>2 DEF PP!PropagateScalar, P!PropagateScalar,
                        PP!PropagateBetweenClqs, P!PropagateBetweenClqs
  <2>4. PP!Next => P!Next
    <3>1. ASSUME NEW i \in Clq, NEW j \in Clq,
                 PP!PropagateScalar(i, j) \/ PP!PropagateBetweenClqs(i, j)
          PROVE  P!Next
      BY <2>3, <3>1 DEF P!Next
    <3>2. PP!ShrinkObserved => P!Next
      BY <2>2 DEF P!Next
    <3> QED
      BY <3>1, <3>2 DEF PP!Next
  <2> QED
    BY <2>1, <2>4
<1>3. IInv /\ [Next]_vars => [P!Next]_P!vars
  BY <1>2, StepRefines
<1>4. Init => P!Init
  BY <1>1, InitIInv
<1> QED
  BY <1>3, <1>4, Invariance, PTL DEF Spec, ImplementsPropagation

\* When EnterEvidence returns every clique holds the joint distribution: each factor
\* that can reach it, once.
THEOREM CliquesHoldJoint == Spec => []EvidencePropagated
<1>1. IInv => EvidencePropagated
  <2> SUFFICES ASSUME IInv, pc = "done", NEW c \in Clq PROVE clq[c] = JointPotential(c, obs)
    BY DEF EvidencePropagated
  <2>1. clq[c] = PP!Charge(PP!Received(c))
    BY DEF IInv, PP!IInv, PP!AccountedOnce
  <2>2. got = Arc
    BY DEF IInv, Finished
  <2>3. \A d \in Nbrs(c) : <<d, c>> \in got
    BY <2>2, NbrsSymmetric
  <2>4. {d \in PP!Nbrs(c) : <<d, c>> \in got} = Nbrs(c)
    BY <2>3, SameTree
  <2>5. PP!Received(c) = Component(c, obs)
    BY <2>4 DEF PP!Received, PP!Around, Component
  <2> DEFINE R == Component(c, obs)
  <2>6. PP!Charge(R) = [f \in Factor |-> IF f \in LiveFactors(obs) /\ FactAssignToClq(f) \in R
                                         THEN 1 ELSE 0]
    <3> HIDE DEF R
    <3> QED
      BY DEF PP!Charge
  <2> QED
    BY <2>1, <2>5, <2>6 DEF JointPotential
<1> QED
  BY <1>1, Invariance, PTL

\* The scale of a factor whose clique sends and receives densely is counted once in
\* what GetLogLik reports.
THEOREM LogLikExact == Spec => []LogLikExactWhenDense
<1>1. IInv => LogLikExactWhenDense
  <2> SUFFICES ASSUME IInv, pc = "done", NEW f \in Factor, SentDensely(FactAssignToClq(f))
               PROVE  norm[f] = Likelihood[f]
    BY DEF LogLikExactWhenDense
  <2> DEFINE c == FactAssignToClq(f)
  <2>1. PICK d : d \in Nbrs(c)
    BY DEF SentDensely
  <2>2. <<c, d>> \in got
    BY <2>1, FactorHasHome, NbrsSymmetric DEF IInv, Finished
  <2>3. Taken(c)
    BY <2>2 DEF Taken
  <2> QED
    BY <2>3 DEF IInv, Scaled
<1> QED
  BY <1>1, Invariance, PTL

-------------------------------------------------------------------------------
(***************************************************************************)
(* Answers to queries inside a clique.                                     *)
(***************************************************************************)

\* The component of a clique is the least set with the clique that only scalar links
\* lead out of.
LEMMA ComponentLeast ==
  ASSUME NEW c \in Clq, NEW e
  PROVE  /\ Component(c, e) \in SUBSET Clq /\ c \in Component(c, e)
         /\ IsClosed(Component(c, e), ScalarLinks(e))
         /\ \A S \in SUBSET Clq : c \in S /\ IsClosed(S, ScalarLinks(e)) => Component(c, e) \subseteq S
<1>1. PICK m : m = ScalarLinks(e)
  OBVIOUS
<1>2. m \in SUBSET Link
  BY <1>1 DEF ScalarLinks
<1>3. PICK K : K = Component(c, e)
  OBVIOUS
<1>4. K = {c} \cup UNION {Behind(m, k, c) : k \in Nbrs(c)}
  BY <1>1, <1>3 DEF Component
<1>5. ASSUME NEW k \in Nbrs(c)
      PROVE  /\ k \in Clq /\ c \in Nbrs(k) /\ {k, c} = {c, k}
             /\ Behind(m, k, c) \in SUBSET Clq /\ c \notin Behind(m, k, c)
             /\ {k, c} \notin m => k \in Behind(m, k, c)
             /\ \A x \in Behind(m, k, c) : \A y \in Nbrs(x) :
                  {x, y} \in m \/ {x, y} = {k, c} \/ y \in Behind(m, k, c)
             /\ \A S \in SUBSET Clq : c \in S /\ IsClosed(S, m) => Behind(m, k, c) \subseteq S
  <2>1. k \in Clq /\ c \in Nbrs(k) /\ {k, c} = {c, k}
    BY NbrsSymmetric
  <2>2. c \notin Behind(m, k, c)
    BY <2>1, <1>2, BehindNotBack
  <2>3. CASE {k, c} \in m
    <3>1. Behind(m, k, c) = {}
      BY <2>1, <2>3, <1>2, BehindMute
    <3> QED
      BY <2>1, <2>3, <3>1
  <2>4. CASE {k, c} \notin m
    <3>1. /\ Behind(m, k, c) \in SUBSET Clq /\ k \in Behind(m, k, c)
          /\ \A x \in Behind(m, k, c) : \A y \in Nbrs(x) :
               {x, y} \in m \/ {x, y} = {k, c} \/ y \in Behind(m, k, c)
          /\ \A S \in SUBSET Clq :
               /\ k \in S
               /\ \A x \in S : \A y \in Nbrs(x) : {x, y} \in m \/ {x, y} = {k, c} \/ y \in S
               => Behind(m, k, c) \subseteq S
      BY <2>1, <2>4, <1>2, BehindLeast
    <3>2. ASSUME NEW S \in SUBSET Clq, c \in S, IsClosed(S, m) PROVE Behind(m, k, c) \subseteq S
      <4>1. \A x \in S : \A y \in Nbrs(x) : {x, y} \in m \/ y \in S
        BY <3>2 DEF IsClosed
      <4>2. k \in S
        BY <3>2, <4>1, <2>1, <2>4
      <4> QED
        BY <4>1, <4>2, <3>1
    <3> QED
      BY <2>1, <2>2, <3>1, <3>2
  <2> QED
    BY <2>3, <2>4
<1>10. c \in K /\ \A x \in K : x = c \/ \E k \in Nbrs(c) : x \in Behind(m, k, c)
  BY <1>4
<1>11. \A k \in Nbrs(c) : Behind(m, k, c) \in SUBSET Clq
  BY <1>5
<1>6. K \in SUBSET Clq /\ c \in K
  BY <1>10, <1>11
<1>7. ASSUME NEW x \in K, NEW y \in Nbrs(x), {x, y} \notin m PROVE y \in K
  <2>1. CASE x = c
    <3>1. y \in Nbrs(c) /\ {y, c} \notin m
      BY <2>1, <1>5, <1>7
    <3>2. y \in Behind(m, y, c)
      BY <3>1, <1>5
    <3> QED
      BY <3>1, <3>2, <1>4
  <2>2. CASE x # c
    <3>1. PICK k \in Nbrs(c) : x \in Behind(m, k, c)
      BY <2>2, <1>4
    <3>2. {x, y} = {k, c} \/ y \in Behind(m, k, c)
      BY <3>1, <1>5, <1>7
    <3>3. CASE {x, y} = {k, c}
      BY <2>2, <3>3, <1>6
    <3>4. CASE y \in Behind(m, k, c)
      BY <3>1, <3>4, <1>4
    <3> QED
      BY <3>2, <3>3, <3>4
  <2> QED
    BY <2>1, <2>2
<1>8. IsClosed(K, m)
  BY <1>7 DEF IsClosed
<1>9. ASSUME NEW S \in SUBSET Clq, c \in S, IsClosed(S, m) PROVE K \subseteq S
  <2>1. \A k \in Nbrs(c) : Behind(m, k, c) \subseteq S
    BY <1>5, <1>9
  <2> QED
    BY <1>9, <1>10, <2>1
<1> QED
  BY <1>1, <1>3, <1>6, <1>8, <1>9

\* Cliques of one component have the same.
LEMMA ComponentSame ==
  ASSUME NEW e, NEW a \in Clq, NEW b \in Component(a, e)
  PROVE  b \in Clq /\ Component(b, e) = Component(a, e)
<1>1. PICK m : m = ScalarLinks(e)
  OBVIOUS
<1>2. PICK A : A = Component(a, e)
  OBVIOUS
<1>3. /\ A \in SUBSET Clq /\ a \in A /\ b \in A /\ b \in Clq /\ IsClosed(A, m)
      /\ \A S \in SUBSET Clq : a \in S /\ IsClosed(S, m) => A \subseteq S
  BY <1>1, <1>2, ComponentLeast
<1>4. PICK B : B = Component(b, e)
  OBVIOUS
<1>5. /\ B \in SUBSET Clq /\ b \in B /\ IsClosed(B, m)
      /\ \A S \in SUBSET Clq : b \in S /\ IsClosed(S, m) => B \subseteq S
  BY <1>1, <1>3, <1>4, ComponentLeast
<1>6. B \subseteq A
  BY <1>3, <1>5
<1>7. a \in B
  <2> SUFFICES ASSUME a \notin B PROVE FALSE
    OBVIOUS
  <2>1. ASSUME NEW x \in Clq \ B, NEW y \in Nbrs(x), {x, y} \notin m, y \in B PROVE FALSE
    <3>1. x \in Nbrs(y) /\ {y, x} \notin m
      BY <2>1, NbrsSymmetric
    <3> QED
      BY <2>1, <3>1, <1>5 DEF IsClosed
  <2>2. IsClosed(Clq \ B, m)
    BY <2>1, NbrsSymmetric DEF IsClosed
  <2>3. A \subseteq Clq \ B
    BY <2>2, <1>3
  <2> QED
    BY <2>3, <1>3, <1>5
<1>8. A \subseteq B
  BY <1>3, <1>5, <1>7
<1> QED
  BY <1>2, <1>3, <1>4, <1>6, <1>8

\* Cliques that share a hidden node are not cut off from each other.
LEMMA HiddenNodeJoins ==
  ASSUME NEW e, NEW x, x \notin e, NEW a \in Clq, NEW b \in Clq,
         x \in NodeContent[a], x \in NodeContent[b]
  PROVE  Component(a, e) = Component(b, e)
<1> DEFINE T == {c \in Clq : x \in NodeContent[c]}
<1>1. NumberOfClqs \in Nat /\ Clq \in SUBSET Nat /\ NodeContent \in [Clq -> SUBSET Node]
  BY JunctionTreeAssumption DEF JunctionTreeAssumption, Clq
<1>2. T \in SUBSET Nat /\ T # {}
  BY <1>1
<1>3. PICK m \in T : \A c \in T : m <= c
  <2> HIDE DEF T
  <2> QED
    BY <1>2, LeastNat
<1>4. m \in Clq /\ x \in NodeContent[m] /\ \A c \in Clq : x \in NodeContent[c] => m <= c
  BY <1>3
<1>5. PICK M : M = Component(m, e)
  OBVIOUS
<1>6. M \in SUBSET Clq /\ m \in M /\ IsClosed(M, ScalarLinks(e))
  BY <1>4, <1>5, ComponentLeast
<1>7. T \subseteq M
  <2> SUFFICES ASSUME T \ M # {} PROVE FALSE
    OBVIOUS
  <2>1. T \ M \in SUBSET Nat
    BY <1>2
  <2>2. PICK c \in T \ M : \A k \in T \ M : c <= k
    <3> HIDE DEF T
    <3> QED
      BY <2>1, LeastNat
  <2>3. c \in Clq /\ x \in NodeContent[c] /\ c \notin M /\ \A k \in Clq : x \in NodeContent[k] /\ k \notin M => c <= k
    BY <2>2
  <2>4. c \in 1 .. NumberOfClqs - 1 /\ m \in 0 .. c - 1
    <3>1. m # c /\ m <= c /\ m \in Nat /\ c \in Nat /\ c <= NumberOfClqs - 1
      BY <1>1, <1>4, <1>6, <2>3 DEF Clq
    <3> QED
      BY <1>1, <3>1
  <2>5. PICK d : d = ConnectTo[c]
    OBVIOUS
  <2>6. d \in 0 .. c - 1 /\ d \in Clq /\ d < c /\ ~(c <= d)
    <3>1. d \in 0 .. c - 1
      BY <2>4, <2>5, ConnectToEarlier
    <3> QED
      BY <3>1, <2>4, <1>1 DEF Clq
  <2>7. x \in NodeContent[d]
    BY <1>4, <2>3, <2>4, <2>5, TriangulationAssumption DEF TriangulationAssumption
  <2>8. d \in M
    BY <2>3, <2>6, <2>7
  <2>9. {c, d} \in Link /\ c \in Nbrs(d) /\ {d, c} = {c, d}
    BY <2>3, <2>4, <2>5 DEF Link, Nbrs
  <2>10. {d, c} \notin ScalarLinks(e)
    <3>1. x \in Separator({c, d})
      BY <1>1, <2>3, <2>6, <2>7 DEF Separator
    <3> QED
      BY <2>9, <3>1 DEF ScalarLinks, IsScalar
  <2> QED
    BY <2>3, <2>8, <2>9, <2>10, <1>6 DEF IsClosed
<1>8. a \in M /\ b \in M
  BY <1>7
<1> QED
  BY <1>4, <1>5, <1>8, ComponentSame

\* The clique that answers contains the query.
LEMMA AnswersFromClique ==
  ASSUME NEW q, root \in Clq, GetClqNumsContainingSubset(q) # {}
  PROVE  AnsweringClq(q) \in Clq /\ q \subseteq NodeContent[AnsweringClq(q)]
<1> DEFINE C == GetClqNumsContainingSubset(q)
<1>1. C \in SUBSET Nat /\ C # {}
  BY DEF GetClqNumsContainingSubset, Clq
<1>2. Min(C) \in C
  <2> HIDE DEF C
  <2> QED
    BY <1>1, MinNat
<1>3. AnsweringClq(q) \in C
  BY <1>2 DEF AnsweringClq
<1> QED
  BY <1>3 DEF GetClqNumsContainingSubset

\* A clique's potential is the joint distribution of any query inside the clique.
LEMMA CliqueAnswersJoint ==
  ASSUME EvidencePropagated, pc = "done", NEW c \in Clq, NEW q, q \subseteq NodeContent[c]
  PROVE  IsJointDistribution(Answer(q, clq[c]))
<1> DEFINE a == Answer(q, clq[c])
<1>1. a.obs = obs /\ a.query = q /\ a.pot = JointPotential(c, obs)
  BY DEF Answer, EvidencePropagated
<1>2. ASSUME NEW f \in LiveFactors(obs), NEW d \in Clq, (NodeContent[d] \cap q) \ obs # {},
             FactAssignToClq(f) \in Component(d, obs)
      PROVE  FactAssignToClq(f) \in Component(c, obs)
  <2>1. PICK x : x \in NodeContent[d] /\ x \in q /\ x \notin obs
    BY <1>2
  <2>2. Component(d, obs) = Component(c, obs)
    BY <2>1, HiddenNodeJoins
  <2> QED
    BY <2>2, <1>2
<1>3. ASSUME NEW f \in LiveFactors(obs)
      PROVE  /\ f \in Factor
             /\ a.pot[f] = IF FactAssignToClq(f) \in Component(c, obs) THEN 1 ELSE 0
  BY <1>1 DEF JointPotential, LiveFactors
<1> HIDE DEF a
<1>4. IsJointDistribution(a)
  BY <1>1, <1>2, <1>3 DEF IsJointDistribution
<1> QED
  BY <1>4 DEF a

\* Every answer that one clique gives is the joint distribution of the query.
FromCliqueExact ==
  /\ mpe # NoPot => IsJointDistribution(mpe)
  /\ jpd # NoPot /\ GetClqNumsContainingSubset(jpd.query) # {} => IsJointDistribution(jpd)

\* A query inside a clique is answered with the joint distribution of its nodes, of
\* whatever evidence and root, and the answer stays right until the next one.
\* (MarginalNodes, MarginalizeCliqueToQuery)
THEOREM CliqueAnswersExact == Spec => []FromCliqueExact
<1>1. Init => FromCliqueExact
  BY DEF Init, FromCliqueExact
<1>2. IInv /\ EvidencePropagated /\ FromCliqueExact /\ [Next]_vars => FromCliqueExact'
  <2> SUFFICES ASSUME IInv, EvidencePropagated, FromCliqueExact, [Next]_vars PROVE FromCliqueExact'
    OBVIOUS
  <2>1. CASE UNCHANGED answers
    BY <2>1 DEF FromCliqueExact, answers, IsJointDistribution
  <2>2. ASSUME NEW q \in Query, NEW b \in BOOLEAN, MarginalizeCliqueToQuery(q, b) PROVE FromCliqueExact'
    <3>1. PICK p : p = Answer(q, clq[AnsweringClq(q)])
      OBVIOUS
    <3>2. jpd' \in {NoPot, p} /\ mpe' \in {NoPot, p}
      BY <2>2, <3>1 DEF MarginalizeCliqueToQuery
    <3>3. IsJointDistribution(p)
      <4>1. pc = "done" /\ GetClqNumsContainingSubset(q) # {} /\ root \in Clq
        BY <2>2 DEF MarginalizeCliqueToQuery, IInv, ControlOK
      <4> QED
        BY <4>1, <3>1, AnswersFromClique, CliqueAnswersJoint
    <3> QED
      BY <3>2, <3>3 DEF FromCliqueExact
  <2>3. ASSUME NEW q \in Query, MarginalizeMergedCliques(q) PROVE FromCliqueExact'
    <3>1. /\ mpe' = mpe /\ GetClqNumsContainingSubset(q) = {}
          /\ jpd' = NoPot \/ \E p : jpd' = Answer(q, p)
      BY <2>3 DEF MarginalizeMergedCliques
    <3>2. jpd' # NoPot => jpd'.query = q
      BY <3>1 DEF Answer
    <3> QED
      BY <3>1, <3>2 DEF FromCliqueExact
  <2>4. [Next]_vars => \/ UNCHANGED answers
                       \/ \E q \in Query : \/ \E b \in BOOLEAN : MarginalizeCliqueToQuery(q, b)
                                           \/ MarginalizeMergedCliques(q)
    BY DEF Next, vars, SetJTreeRootNode, EnterEvidence, Propagate, CollectEvidence, StartDistribute,
           DistributeEvidence, PopSource, FinishEvidence, MarginalNodes
  <2> QED
    BY <2>1, <2>2, <2>3, <2>4
<1> QED
  BY <1>1, <1>2, Invariance, CliquesHoldJoint, PTL DEF Spec

===============================================================================
