-------------------------- MODULE Propagation_proofs --------------------------
(***************************************************************************)
(* Proofs about module Propagation, for every tree that satisfies          *)
(* TreeAssumption, every assignment of factors to cliques and every        *)
(* sequence of evidences.                                                  *)
(***************************************************************************)
EXTENDS Propagation, TLAPS

\* What a message through a link that is not mute carries.
LEMMA BehindMessage ==
  \A m \in SUBSET Link : \A i \in Clq : \A j \in Nbrs(i) :
    Behind(m, i, j) =
      IF {i, j} \in m THEN {}
      ELSE {i} \cup Around(m, i, Nbrs(i) \ {j})
  BY TreeAssumption DEF TreeAssumption

\* Membership in what lies around a clique.
LEMMA AroundMember ==
  ASSUME NEW m, NEW c, NEW N, NEW x
  PROVE  x \in Around(m, c, N) <=> \E k \in N : x \in Behind(m, k, c)
  BY DEF Around

\* One more neighbour adds what lies behind its link.
LEMMA AroundOneMore ==
  ASSUME NEW m, NEW c, NEW N, NEW k
  PROVE  Around(m, c, N \cup {k}) = Around(m, c, N) \cup Behind(m, k, c)
  BY AroundMember

\* The parts of the tree behind the links of a clique are disjoint.
LEMMA BehindApart ==
  \A m \in SUBSET Link : \A i \in Clq : \A k \in Nbrs(i) :
    /\ i \notin Behind(m, k, i)
    /\ \A n \in Nbrs(i) \ {k} : Behind(m, k, i) \cap Behind(m, n, i) = {}
  BY TreeAssumption DEF TreeAssumption

\* The charge of a set of cliques is a potential.
LEMMA ChargeType ==
  ASSUME NEW C PROVE Charge(C) \in Potential
  BY DEF Charge, Potential

\* Multiplying the charges of two disjoint sets of cliques gives the charge of
\* their union.
LEMMA ChargeUnion ==
  ASSUME NEW C, NEW D, C \cap D = {}
  PROVE  Times(Charge(C), Charge(D)) = Charge(C \cup D)
  BY DEF Times, Charge

\* Dividing the charge of a set by that of a part of it leaves the rest.
LEMMA ChargeDifference ==
  ASSUME NEW C, NEW D, C \cap D = {}
  PROVE  Over(Charge(C \cup D), Charge(D)) = Charge(C)
  BY DEF Over, Charge

\* Dividing by a unit function changes nothing.
LEMMA OverUnit ==
  ASSUME NEW p \in Potential PROVE Over(p, Unit) = p
  BY DEF Over, Unit, Potential

\* What lies behind the two directions of a link has no clique in common.
LEMMA BehindDisjoint ==
  ASSUME NEW m \in SUBSET Link, NEW i \in Clq, NEW j \in Nbrs(i)
  PROVE  Behind(m, i, j) \cap Behind(m, j, i) = {}
<1>1. j \in Clq /\ i \in Nbrs(j) /\ {i, j} = {j, i}
  BY DEF Nbrs, Arc
<1>2. i \notin Behind(m, j, i)
  BY BehindApart
<1>3. \A k \in Nbrs(i) \ {j} : Behind(m, k, i) \cap Behind(m, j, i) = {}
  BY BehindApart
<1>4. Behind(m, i, j) \subseteq
        {i} \cup Around(m, i, Nbrs(i) \ {j})
  BY BehindMessage
<1> QED
  BY <1>2, <1>3, <1>4, AroundMember

\* A clique that has heard from all its neighbours but j has received exactly
\* what it may send to j, and what j has sent it if that has arrived.
LEMMA ReceivedWhenSending ==
  ASSUME TypeOK, NEW i \in Clq, NEW j \in Clq, CanSend(i, j), {i, j} \notin mute
  PROVE  Received(i) = Behind(mute, i, j)
                         \cup (IF <<j, i>> \in got THEN Behind(mute, j, i) ELSE {})
<1>1. mute \in SUBSET Link /\ j \in Nbrs(i)
  BY DEF TypeOK, CanSend, Nbrs, Arc
<1>2. Behind(mute, i, j) =
        {i} \cup Around(mute, i, Nbrs(i) \ {j})
  BY <1>1, BehindMessage
<1>3. \A k \in Nbrs(i) \ {j} : <<k, i>> \in got
  BY DEF CanSend
<1>4. CASE <<j, i>> \in got
  <2>1. {d \in Nbrs(i) : <<d, i>> \in got} = (Nbrs(i) \ {j}) \cup {j}
    BY <1>1, <1>3, <1>4
  <2>2. Around(mute, i, (Nbrs(i) \ {j}) \cup {j})
          = Around(mute, i, Nbrs(i) \ {j}) \cup Behind(mute, j, i)
    BY AroundOneMore
  <2> QED
    BY <1>2, <1>4, <2>1, <2>2 DEF Received
<1>5. CASE <<j, i>> \notin got
  <2>1. {d \in Nbrs(i) : <<d, i>> \in got} = Nbrs(i) \ {j}
    BY <1>3, <1>5
  <2> QED
    BY <1>2, <1>5, <2>1 DEF Received
<1> QED
  BY <1>4, <1>5

\* The ratio that travels is exactly the charge behind the arc it travels along.
LEMMA RatioIsMessage ==
  ASSUME IInv, NEW i \in Clq, NEW j \in Clq, CanSend(i, j), {i, j} \notin mute
  PROVE  /\ Over(clq[i], sep[{i, j}]) = Charge(Behind(mute, i, j))
         /\ <<j, i>> \notin got => clq[i] = Charge(Behind(mute, i, j))
<1>1. mute \in SUBSET Link /\ j \in Nbrs(i) /\ i \in Nbrs(j) /\ {i, j} = {j, i}
  BY DEF IInv, TypeOK, CanSend, Nbrs, Arc
<1>2. clq[i] = Charge(Received(i))
  BY DEF IInv, AccountedOnce
<1>3. <<i, j>> \notin got
  BY DEF CanSend
<1>4. CASE <<j, i>> \in got
  <2>1. clq[i] = Charge(Behind(mute, i, j) \cup Behind(mute, j, i))
    BY <1>2, <1>4, ReceivedWhenSending DEF IInv
  <2>2. sep[{i, j}] = Charge(Behind(mute, j, i))
    BY <1>1, <1>3, <1>4 DEF IInv, SeparatorHoldsMessage
  <2> QED
    BY <1>1, <1>4, <2>1, <2>2, BehindDisjoint, ChargeDifference
<1>5. CASE <<j, i>> \notin got
  <2>1. clq[i] = Charge(Behind(mute, i, j))
    BY <1>2, <1>5, ReceivedWhenSending DEF IInv
  <2>2. sep[{i, j}] = Unit
    BY <1>1, <1>3, <1>5 DEF IInv, SeparatorHoldsMessage
  <2> QED
    BY <1>5, <2>1, <2>2, OverUnit, ChargeType
<1> QED
  BY <1>4, <1>5

\* The sink has received nothing yet of what lies behind the arc.
LEMMA ReceivedDisjoint ==
  ASSUME TypeOK, NEW i \in Clq, NEW j \in Clq, CanSend(i, j)
  PROVE  Received(j) \cap Behind(mute, i, j) = {}
<1>1. mute \in SUBSET Link /\ i \in Nbrs(j)
  BY DEF TypeOK, CanSend, Nbrs, Arc
<1>2. j \notin Behind(mute, i, j)
  BY <1>1, BehindApart
<1>3. \A k \in Nbrs(j) \ {i} : Behind(mute, k, j) \cap Behind(mute, i, j) = {}
  BY <1>1, BehindApart
<1>4. <<i, j>> \notin got
  BY DEF CanSend
<1>5. {d \in Nbrs(j) : <<d, j>> \in got} \subseteq Nbrs(j) \ {i}
  BY <1>4
<1>6. Around(mute, j, {d \in Nbrs(j) : <<d, j>> \in got}) \cap Behind(mute, i, j) = {}
  <2> SUFFICES ASSUME NEW x \in Around(mute, j, {d \in Nbrs(j) : <<d, j>> \in got}),
                      x \in Behind(mute, i, j)
               PROVE  FALSE
    OBVIOUS
  <2>1. PICK k \in {d \in Nbrs(j) : <<d, j>> \in got} : x \in Behind(mute, k, j)
    BY AroundMember
  <2> QED
    BY <1>3, <1>5, <2>1
<1> QED
  BY <1>2, <1>6 DEF Received

\* Where no message has gone, or only that of a clique that holds nothing, the
\* separator is a unit function still.
LEMMA SeparatorWhenSending ==
  ASSUME IInv, NEW i \in Clq, NEW j \in Clq, CanSend(i, j), {i, j} \notin mute,
         <<j, i>> \notin got \/ clq[i] = Unit
  PROVE  sep[{i, j}] = Unit
<1>1. j \in Nbrs(i) /\ i \in Nbrs(j) /\ {i, j} = {j, i} /\ <<i, j>> \notin got
  BY DEF CanSend, Nbrs, Arc
<1>2. CASE <<j, i>> \notin got
  BY <1>1, <1>2 DEF IInv, SeparatorHoldsMessage
<1>3. CASE <<j, i>> \in got /\ clq[i] = Unit
  <2>1. sep[{i, j}] = Charge(Behind(mute, j, i))
    BY <1>1, <1>3 DEF IInv, SeparatorHoldsMessage
  <2>2. Charge(Received(i)) = Unit /\ Behind(mute, j, i) \subseteq Received(i)
    BY <1>3, ReceivedWhenSending DEF IInv, AccountedOnce
  <2>3. \A f \in Factor : ~ (f \in live /\ Home[f] \in Received(i))
    <3> SUFFICES ASSUME NEW f \in Factor, f \in live, Home[f] \in Received(i) PROVE FALSE
      OBVIOUS
    <3>1. Charge(Received(i))[f] = 1 /\ Unit[f] = 0
      BY DEF Charge, Unit
    <3> QED
      BY <2>2, <3>1
  <2>4. Charge(Behind(mute, j, i)) = Unit
    BY <2>2, <2>3 DEF Charge, Unit
  <2> QED
    BY <2>1, <2>4
<1> QED
  BY <1>2, <1>3

\* Before the first evidence nothing has been sent and nothing charged.
LEMMA InitIInv == Init => IInv
<1> SUFFICES ASSUME Init PROVE IInv
  OBVIOUS
<1>1. TypeOK
  BY DEF Init, TypeOK, Unit, Potential
<1>2. SentInOrder
  BY DEF Init, SentInOrder
<1>3. SeparatorHoldsMessage
  <2> SUFFICES ASSUME NEW i \in Clq, NEW j \in Nbrs(i) PROVE sep[{i, j}] = Unit
    BY DEF Init, SeparatorHoldsMessage
  <2>1. {i, j} \in Link
    BY DEF Nbrs, Arc
  <2> QED
    BY <2>1 DEF Init
<1>4. AccountedOnce
  BY DEF Init, AccountedOnce, Charge, Unit
<1> QED
  BY <1>1, <1>2, <1>3, <1>4 DEF IInv

\* A new evidence and a message of either kind keep the invariant.
LEMMA NextIInv == IInv /\ [Next]_vars => IInv'
<1> SUFFICES ASSUME IInv, [Next]_vars PROVE IInv'
  OBVIOUS
<1>0. TypeOK /\ SentInOrder /\ SeparatorHoldsMessage /\ AccountedOnce
  BY DEF IInv
<1>1. CASE ShrinkObserved
  <2>1. TypeOK'
    BY <1>1 DEF ShrinkObserved, TypeOK, Unit, Potential
  <2>2. SentInOrder'
    BY <1>1 DEF ShrinkObserved, SentInOrder
  <2>3. SeparatorHoldsMessage'
    <3> SUFFICES ASSUME NEW i \in Clq, NEW j \in Nbrs(i) PROVE sep'[{i, j}] = Unit
      BY <1>1 DEF ShrinkObserved, SeparatorHoldsMessage
    <3>1. {i, j} \in Link
      BY DEF Nbrs, Arc
    <3> QED
      BY <1>1, <3>1 DEF ShrinkObserved
  <2>4. AccountedOnce'
    <3> SUFFICES ASSUME NEW c \in Clq PROVE clq'[c] = Charge(Received(c))'
      BY DEF AccountedOnce
    <3>1. {d \in Nbrs(c) : <<d, c>> \in got'} = {}
      BY <1>1 DEF ShrinkObserved
    <3>2. Received(c)' = {c}
      BY <3>1, AroundMember DEF Received
    <3> QED
      BY <1>1, <3>2 DEF ShrinkObserved, Charge
  <2> QED
    BY <2>1, <2>2, <2>3, <2>4 DEF IInv
<1>2. ASSUME NEW i \in Clq, NEW j \in Clq, PropagateScalar(i, j)
      PROVE  IInv'
  <2>1. TypeOK'
    BY <1>0, <1>2 DEF PropagateScalar, CanSend, TypeOK
  <2>2. SentInOrder'
    BY <1>0, <1>2 DEF PropagateScalar, CanSend, SentInOrder
  <2>3. j \in Nbrs(i) /\ i \in Nbrs(j) /\ mute \in SUBSET Link /\ {i, j} = {j, i}
    BY <1>0, <1>2 DEF PropagateScalar, CanSend, TypeOK, Nbrs, Arc
  <2>4. Behind(mute, i, j) = {}
    BY <1>2, <2>3, BehindMessage DEF PropagateScalar
  <2>5. Behind(mute, j, i) = {}
    BY <1>2, <2>3, BehindMessage DEF PropagateScalar
  <2>6. SeparatorHoldsMessage'
    <3> SUFFICES ASSUME NEW a \in Clq, NEW b \in Nbrs(a), <<b, a>> \notin got'
                 PROVE  sep[{a, b}] = IF <<a, b>> \in got'
                                        THEN Charge(Behind(mute, a, b)) ELSE Unit
      BY <1>2 DEF PropagateScalar, SeparatorHoldsMessage, Charge
    <3>1. sep[{a, b}] = IF <<a, b>> \in got
                          THEN Charge(Behind(mute, a, b)) ELSE Unit
      BY <1>0, <1>2 DEF PropagateScalar, SeparatorHoldsMessage
    <3>2. CASE <<a, b>> = <<i, j>>
      <4>1. Charge(Behind(mute, a, b)) = Unit
        BY <2>4, <3>2 DEF Charge, Unit
      <4> QED
        BY <3>1, <4>1
    <3>3. CASE <<a, b>> # <<i, j>>
      BY <1>2, <3>1, <3>3 DEF PropagateScalar
    <3> QED
      BY <3>2, <3>3
  <2>7. AccountedOnce'
    <3> SUFFICES ASSUME NEW c \in Clq PROVE clq'[c] = Charge(Received(c))'
      BY DEF AccountedOnce
    <3>1. Received(c)' = Received(c)
      <4>1. CASE c = j
        <5>1. {d \in Nbrs(c) : <<d, c>> \in got'} = {d \in Nbrs(c) : <<d, c>> \in got} \cup {i}
          BY <1>2, <2>3, <4>1 DEF PropagateScalar
        <5>2. Around(mute, c, {d \in Nbrs(c) : <<d, c>> \in got} \cup {i})
                = Around(mute, c, {d \in Nbrs(c) : <<d, c>> \in got}) \cup Behind(mute, i, c)
          BY AroundOneMore
        <5> QED
          BY <1>2, <2>4, <4>1, <5>1, <5>2 DEF PropagateScalar, Received
      <4>2. CASE c # j
        BY <1>2, <4>2 DEF PropagateScalar, Received
      <4> QED
        BY <4>1, <4>2
    <3>2. Charge(Received(c))' = Charge(Received(c))
      BY <1>2, <3>1 DEF PropagateScalar, Charge
    <3> QED
      BY <1>0, <1>2, <3>2 DEF PropagateScalar, AccountedOnce
  <2> QED
    BY <2>1, <2>2, <2>6, <2>7 DEF IInv
<1>3. ASSUME NEW i \in Clq, NEW j \in Clq, PropagateBetweenClqs(i, j)
      PROVE  IInv'
  <2> DEFINE msg == Behind(mute, i, j)
             ratio == Over(clq[i], sep[{i, j}])
  <2>1. /\ CanSend(i, j) /\ {i, j} \notin mute
        /\ got' = got \cup {<<i, j>>} /\ live' = live /\ mute' = mute
        /\ clq' = [clq EXCEPT ![j] = Times(clq[j], ratio)]
        /\ \E s \in {clq[i], ratio} : sep' = [sep EXCEPT ![{i, j}] = s]
    BY <1>3 DEF PropagateBetweenClqs
  <2>2. j \in Nbrs(i) /\ {i, j} \in Link /\ <<i, j>> \in Arc
    BY <2>1 DEF CanSend, Nbrs, Arc
  <2>3. ratio = Charge(msg) /\ (<<j, i>> \notin got => clq[i] = Charge(msg))
    BY <2>1, RatioIsMessage
  <2>4. \A C : Charge(C)' = Charge(C)
    BY <2>1 DEF Charge
  <2> HIDE DEF ratio, msg
  <2>5. TypeOK'
    <3>1. Times(clq[j], ratio) \in Potential
      BY <1>0, <2>3, ChargeType DEF TypeOK, Times, Potential
    <3>2. ratio \in Potential /\ clq[i] \in Potential
      BY <1>0, <2>3, ChargeType DEF TypeOK
    <3> QED
      BY <1>0, <2>1, <2>2, <3>1, <3>2 DEF TypeOK
  <2>6. SentInOrder'
    BY <1>0, <2>1 DEF CanSend, SentInOrder
  <2>7. SeparatorHoldsMessage'
    <3> SUFFICES ASSUME NEW a \in Clq, NEW b \in Nbrs(a), <<b, a>> \notin got'
                 PROVE  sep'[{a, b}] = IF <<a, b>> \in got'
                                         THEN Charge(Behind(mute, a, b)) ELSE Unit
      BY <2>1, <2>4 DEF SeparatorHoldsMessage
    <3>1. sep[{a, b}] = IF <<a, b>> \in got
                          THEN Charge(Behind(mute, a, b)) ELSE Unit
      BY <1>0, <2>1 DEF SeparatorHoldsMessage
    <3>2. CASE a = i /\ b = j
      <4>1. sep'[{i, j}] = Charge(msg)
        BY <1>0, <2>1, <2>2, <2>3, <3>2 DEF TypeOK
      <4> QED
        BY <2>1, <3>2, <4>1 DEF msg
    <3>3. CASE ~ (a = i /\ b = j)
      <4>1. ~ (a = j /\ b = i)
        BY <2>1
      <4>2. {a, b} # {i, j}
        BY <3>3, <4>1
      <4>3. sep'[{a, b}] = sep[{a, b}]
        <5>1. {a, b} \in Link
          BY DEF Nbrs, Arc
        <5> QED
          BY <1>0, <2>1, <4>2, <5>1 DEF TypeOK
      <4> QED
        BY <2>1, <3>1, <3>3, <4>3
    <3> QED
      BY <3>2, <3>3
  <2>8. AccountedOnce'
    <3> SUFFICES ASSUME NEW c \in Clq PROVE clq'[c] = Charge(Received(c)')
      BY <2>1 DEF AccountedOnce, Charge
    <3>1. CASE c = j
      <4>1. Received(j)' = Received(j) \cup msg
        <5>1. {d \in Nbrs(j) : <<d, j>> \in got'} = {d \in Nbrs(j) : <<d, j>> \in got} \cup {i}
          <6>1. i \in Nbrs(j)
            BY <2>2 DEF Nbrs, Arc
          <6>2. \A d : <<d, j>> \in got' <=> <<d, j>> \in got \/ d = i
            BY <2>1
          <6> QED
            BY <6>1, <6>2
        <5>2. Around(mute, j, {d \in Nbrs(j) : <<d, j>> \in got} \cup {i})
                = Around(mute, j, {d \in Nbrs(j) : <<d, j>> \in got}) \cup msg
          BY AroundOneMore DEF msg
        <5>3. Received(j) = {j} \cup Around(mute, j, {d \in Nbrs(j) : <<d, j>> \in got})
          BY DEF Received
        <5>4. Received(j)' = {j} \cup Around(mute, j, {d \in Nbrs(j) : <<d, j>> \in got'})
          BY <2>1 DEF Received
        <5> QED
          BY <5>1, <5>2, <5>3, <5>4
      <4>2. Received(j) \cap msg = {}
        BY <1>0, <2>1, ReceivedDisjoint DEF msg
      <4>3. clq'[j] = Times(Charge(Received(j)), Charge(msg))
        BY <1>0, <2>1, <2>3 DEF TypeOK, AccountedOnce
      <4> QED
        BY <3>1, <4>1, <4>2, <4>3, ChargeUnion
    <3>2. CASE c # j
      <4>1. Received(c)' = Received(c)
        BY <2>1, <3>2 DEF Received
      <4> QED
        BY <1>0, <2>1, <3>2, <4>1 DEF TypeOK, AccountedOnce
    <3> QED
      BY <3>1, <3>2
  <2> QED
    BY <2>5, <2>6, <2>7, <2>8 DEF IInv
<1>4. CASE UNCHANGED vars
  <2>1. TypeOK' /\ SentInOrder'
    BY <1>0, <1>4 DEF vars, TypeOK, SentInOrder
  <2>2. SeparatorHoldsMessage'
    BY <1>0, <1>4 DEF vars, SeparatorHoldsMessage, Charge
  <2>3. AccountedOnce'
    BY <1>0, <1>4 DEF vars, AccountedOnce, Charge, Received
  <2> QED
    BY <2>1, <2>2, <2>3 DEF IInv
<1> QED
  BY <1>1, <1>2, <1>3, <1>4 DEF Next

\* The invariant of the propagation, for every tree and every schedule.
THEOREM Invariance == Spec => []IInv
  BY InitIInv, NextIInv, PTL DEF Spec

\* The variables keep their types: powers stay integers, messages stay on arcs.
THEOREM TypeCorrect == Spec => []TypeOK
<1>1. IInv => TypeOK
  BY DEF IInv
<1> QED
  BY <1>1, Invariance, PTL

\* No factor is ever lost or counted twice in a clique potential, in whatever
\* order the engines propagate.
THEOREM FactorsAccountedOnce == Spec => []AccountedOnce
<1>1. IInv => AccountedOnce
  BY DEF IInv
<1> QED
  BY <1>1, Invariance, PTL

\* After both passes neighbouring cliques agree, so that a query may be answered
\* from any clique that contains it.
THEOREM TreeCalibrated == Spec => []Calibrated
<1>1. IInv => Calibrated
  <2> SUFFICES ASSUME IInv, got = Arc, NEW i \in Clq, NEW j \in Nbrs(i), {i, j} \notin mute
               PROVE  clq[i] = clq[j]
    BY DEF Calibrated
  <2>1. /\ j \in Clq /\ i \in Nbrs(j) /\ {i, j} = {j, i} /\ mute \in SUBSET Link
    BY DEF IInv, TypeOK, Nbrs, Arc
  <2>2. \A c \in Clq : Received(c) = {c} \cup Around(mute, c, Nbrs(c))
    <3>1. \A c \in Clq : {d \in Nbrs(c) : <<d, c>> \in got} = Nbrs(c)
      BY DEF Nbrs, Arc
    <3> QED
      BY <3>1 DEF Received
  <2>3. Behind(mute, i, j) =
          {i} \cup Around(mute, i, Nbrs(i) \ {j})
    BY <2>1, BehindMessage
  <2>4. Behind(mute, j, i) =
          {j} \cup Around(mute, j, Nbrs(j) \ {i})
    BY <2>1, BehindMessage
  <2>5. Received(i) = Behind(mute, i, j) \cup Behind(mute, j, i)
    <3>1. Nbrs(i) = (Nbrs(i) \ {j}) \cup {j}
      OBVIOUS
    <3>2. Around(mute, i, (Nbrs(i) \ {j}) \cup {j})
            = Around(mute, i, Nbrs(i) \ {j}) \cup Behind(mute, j, i)
      BY AroundOneMore
    <3>3. Received(i) = {i} \cup Around(mute, i, Nbrs(i))
      BY <2>2
    <3> QED
      BY <2>3, <3>1, <3>2, <3>3
  <2>6. Received(j) = Behind(mute, i, j) \cup Behind(mute, j, i)
    <3>1. Nbrs(j) = (Nbrs(j) \ {i}) \cup {i}
      BY <2>1
    <3>2. Around(mute, j, (Nbrs(j) \ {i}) \cup {i})
            = Around(mute, j, Nbrs(j) \ {i}) \cup Behind(mute, i, j)
      BY AroundOneMore
    <3>3. Received(j) = {j} \cup Around(mute, j, Nbrs(j))
      BY <2>1, <2>2
    <3> QED
      BY <2>4, <3>1, <3>2, <3>3
  <2> QED
    BY <2>1, <2>5, <2>6 DEF IInv, AccountedOnce
<1> QED
  BY <1>1, Invariance, PTL

===============================================================================
