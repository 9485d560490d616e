---------------------------- MODULE JtreeRoot_proofs ----------------------------
(***************************************************************************)
(* What every junction tree and every root of it have in common, whatever  *)
(* the cliques contain: the links that BuildTreeStructure makes are a      *)
(* tree, so that what lies behind its arcs satisfies the assumption of     *)
(* module Propagation; and RebuildTreeFromRoot lists every clique once,    *)
(* each before its one neighbour on the way to the root.                   *)
(***************************************************************************)
EXTENDS JtreeRoot, SequenceTheorems, FiniteSetTheorems, TLAPS

-------------------------------------------------------------------------------
(***************************************************************************)
(* Least and greatest elements of sets of numbers.                         *)
(***************************************************************************)

\* A nonempty set of natural numbers has a least element.
LEMMA LeastNat ==
  ASSUME NEW T \in SUBSET Nat, T # {}
  PROVE  \E n \in T : \A k \in T : n <= k
<1> DEFINE Less == {p \in Nat \X Nat : p[1] < p[2]}
<1>1. OpToRel(<, Nat) = Less
  BY Zenon DEF OpToRel
<1>2. IsWellFoundedOn(Less, Nat)
  BY <1>1, NatLessThanWellFounded, Zenon
<1>3. \E n \in T : \A k \in T : ~ (<<k, n>> \in Less)
  <2> HIDE DEF Less
  <2> QED
    BY <1>2, WFMin, Zenon
<1>4. PICK n \in T : \A k \in T : ~ (<<k, n>> \in Less)
  BY <1>3
<1>5. ASSUME NEW k \in T PROVE n <= k
  <2>1. <<k, n>> \in Nat \X Nat
    OBVIOUS
  <2>2. ~ (k < n)
    BY <1>4, <2>1
  <2> QED
    BY <2>1, <2>2
<1> QED
  BY <1>5

\* Min chooses it.
LEMMA MinNat ==
  ASSUME NEW T \in SUBSET Nat, T # {}
  PROVE  Min(T) \in T /\ \A k \in T : Min(T) <= k
  BY LeastNat DEF Min

\* A nonempty set of numbers with an upper bound has a greatest element.
LEMMA GreatestNat ==
  ASSUME NEW b \in Nat, NEW T \in SUBSET (0 .. b), T # {}
  PROVE  \E n \in T : \A k \in T : k <= n
<1> DEFINE D == {b - k : k \in T}
<1>1. D \in SUBSET Nat /\ D # {}
  <2>1. \A k \in T : b - k \in Nat
    OBVIOUS
  <2> QED
    BY <2>1
<1>2. PICK d \in D : \A e \in D : d <= e
  BY <1>1, LeastNat
<1>3. PICK n \in T : d = b - n
  OBVIOUS
<1>4. \A k \in T : k <= n
  BY <1>2, <1>3
<1> QED
  BY <1>4

-------------------------------------------------------------------------------
(***************************************************************************)
(* The links are a tree.                                                   *)
(***************************************************************************)

\* BuildTreeStructure connects a clique to an earlier one.
LEMMA ConnectToEarlier ==
  ASSUME NEW c \in 1 .. NumberOfClqs - 1
  PROVE  ConnectTo[c] \in 0 .. c - 1
<1> USE JunctionTreeAssumption DEF JunctionTreeAssumption
<1>1. CASE \A d \in 1 .. c : Closest(d) = {}
  BY <1>1 DEF ConnectTo
<1>2. CASE \E d \in 1 .. c : Closest(d) # {}
  <2> DEFINE T == {d \in 1 .. c : Closest(d) # {}}
  <2>1. \E n \in T : \A k \in T : k <= n
    <3>1. T \in SUBSET (0 .. c) /\ T # {} /\ c \in Nat
      BY <1>2
    <3> HIDE DEF T
    <3> QED
      BY <3>1, GreatestNat
  <2>2. SetBy(c) \in 1 .. c /\ Closest(SetBy(c)) # {}
    <3>1. \E d \in 1 .. c : Closest(d) # {} /\ \A e \in d + 1 .. c : Closest(e) = {}
      BY <2>1
    <3> QED
      BY <3>1 DEF SetBy
  <2>3. ConnectTo[c] \in Closest(SetBy(c))
    BY <1>2, <2>2 DEF ConnectTo
  <2> QED
    BY <2>2, <2>3 DEF Closest
<1> QED
  BY <1>1, <1>2

\* A link joins a clique to the earlier one that it was connected to.
LEMMA LinkParts ==
  ASSUME NEW l \in Link
  PROVE  \E c \in 1 .. NumberOfClqs - 1 :
           /\ l = {c, ConnectTo[c]} /\ c \in Clq /\ ConnectTo[c] \in Clq
           /\ ConnectTo[c] < c
<1>1. PICK c \in 1 .. NumberOfClqs - 1 : l = {c, ConnectTo[c]}
  BY DEF Link
<1>2. ConnectTo[c] \in 0 .. c - 1
  BY ConnectToEarlier
<1>3. NumberOfClqs \in Nat
  BY JunctionTreeAssumption DEF JunctionTreeAssumption
<1> QED
  BY <1>1, <1>2, <1>3 DEF Clq

\* Neighbours are different cliques, and neighbours of each other.
LEMMA NbrsSymmetric ==
  ASSUME NEW i \in Clq, NEW j \in Nbrs(i)
  PROVE  /\ j \in Clq /\ i # j /\ i \in Nbrs(j)
         /\ {i, j} \in Link /\ {i, j} = {j, i}
         /\ <<i, j>> \in Arc /\ <<j, i>> \in Arc
<1>1. j \in Clq /\ {i, j} \in Link /\ {i, j} = {j, i}
  BY DEF Nbrs
<1>2. PICK c \in 1 .. NumberOfClqs - 1 :
        /\ {i, j} = {c, ConnectTo[c]} /\ c \in Clq /\ ConnectTo[c] \in Clq
        /\ ConnectTo[c] < c
  BY <1>1, LinkParts
<1>3. i # j
  <2>1. c # ConnectTo[c]
    BY <1>2 DEF Clq
  <2> QED
    BY <1>2, <2>1
<1> QED
  BY <1>1, <1>3 DEF Nbrs, Arc

\* The tree is connected: no part of it is closed but the whole.
LEMMA Connected ==
  ASSUME NEW S \in SUBSET Clq, S # {}, IsClosed(S, {})
  PROVE  S = Clq
<1> USE JunctionTreeAssumption DEF JunctionTreeAssumption
<1>1. ASSUME NEW T \in SUBSET Clq, T # {}, IsClosed(T, {})
      PROVE  0 \in T
  <2>1. T \in SUBSET Nat
    BY DEF Clq
  <2>2. PICK n \in T : \A k \in T : n <= k
    BY <1>1, <2>1, LeastNat
  <2>3. CASE n = 0
    BY <2>3
  <2>4. CASE n # 0
    <3>1. n \in 1 .. NumberOfClqs - 1
      BY <2>4 DEF Clq
    <3>2. ConnectTo[n] \in 0 .. n - 1
      BY <3>1, ConnectToEarlier
    <3>3. ConnectTo[n] \in Nbrs(n)
      BY <3>1, <3>2 DEF Nbrs, Link, Clq
    <3>4. ConnectTo[n] \in T
      BY <1>1, <3>3 DEF IsClosed
    <3> QED
      BY <2>1, <2>2, <3>2, <3>4
  <2> QED
    BY <2>3, <2>4
<1>2. IsClosed(Clq \ S, {})
  <2> SUFFICES ASSUME NEW x \in Clq \ S, NEW y \in Nbrs(x) PROVE y \in Clq \ S
    BY DEF IsClosed
  <2>1. y \in Clq /\ x \in Nbrs(y)
    BY NbrsSymmetric
  <2> QED
    BY <2>1 DEF IsClosed
<1>3. 0 \in S
  BY <1>1
<1>4. 0 \notin Clq \ S
  BY <1>3
<1>5. Clq \ S = {}
  BY <1>1, <1>2, <1>4
<1> QED
  BY <1>5

\* The cliques that hang below clique c on the tree as BuildTreeStructure made it.
Descendants(c) ==
  {x \in Clq : \A S \in SUBSET Clq :
     c \in S /\ (\A y \in 1 .. NumberOfClqs - 1 : ConnectTo[y] \in S => y \in S) => x \in S}

\* They contain whatever is connected to one of them, and what one of them but c
\* itself is connected to, but not what c is connected to.
LEMMA DescendantsFacts ==
  ASSUME NEW c \in 1 .. NumberOfClqs - 1
  PROVE  /\ Descendants(c) \in SUBSET Clq /\ c \in Descendants(c)
         /\ ConnectTo[c] \notin Descendants(c)
         /\ \A y \in 1 .. NumberOfClqs - 1 : ConnectTo[y] \in Descendants(c) => y \in Descendants(c)
         /\ \A x \in Descendants(c) \ {c} : ConnectTo[x] \in Descendants(c) /\ x # 0
<1> USE JunctionTreeAssumption DEF JunctionTreeAssumption
<1> DEFINE Below(S) == c \in S /\ \A y \in 1 .. NumberOfClqs - 1 : ConnectTo[y] \in S => y \in S
<1>1. Descendants(c) \in SUBSET Clq /\ c \in Descendants(c)
  BY DEF Descendants, Clq
<1>2. \A y \in 1 .. NumberOfClqs - 1 : ConnectTo[y] \in Descendants(c) => y \in Descendants(c)
  BY DEF Descendants, Clq
<1>3. \A S \in SUBSET Clq : Below(S) => Descendants(c) \subseteq S
  BY DEF Descendants
<1>4. Below({x \in Clq : x >= c})
  <2>1. c \in {x \in Clq : x >= c}
    BY DEF Clq
  <2>2. ASSUME NEW y \in 1 .. NumberOfClqs - 1, ConnectTo[y] \in {x \in Clq : x >= c}
        PROVE  y \in {x \in Clq : x >= c}
    BY <2>2, ConnectToEarlier DEF Clq
  <2> QED
    BY <2>1, <2>2
<1>5. \A x \in Descendants(c) : x >= c
  BY <1>3, <1>4
<1>6. ConnectTo[c] \notin Descendants(c)
  BY <1>5, ConnectToEarlier
<1>7. ASSUME NEW x \in Descendants(c) \ {c}
      PROVE  ConnectTo[x] \in Descendants(c) /\ x # 0
  <2>1. x # 0
    BY <1>5
  <2>2. ConnectTo[x] \in Descendants(c)
    <3> SUFFICES ASSUME ConnectTo[x] \notin Descendants(c) PROVE FALSE
      OBVIOUS
    <3>1. Below(Descendants(c) \ {x})
      BY <1>1, <1>2
    <3>2. Descendants(c) \ {x} \in SUBSET Clq
      BY <1>1
    <3> HIDE DEF Below
    <3>3. Descendants(c) \subseteq Descendants(c) \ {x}
      BY <1>3, <3>1, <3>2
    <3> QED
      BY <3>3
  <2> QED
    BY <2>1, <2>2
<1> QED
  BY <1>1, <1>2, <1>6, <1>7

\* Every link is a bridge: without it no link leads from one end to the other.
LEMMA Bridge ==
  ASSUME NEW i \in Clq, NEW j \in Nbrs(i)
  PROVE  \E D \in SUBSET Clq : i \in D /\ j \notin D /\ IsClosed(D, {{i, j}})
<1> USE JunctionTreeAssumption DEF JunctionTreeAssumption
<1>1. PICK c \in 1 .. NumberOfClqs - 1 :
        /\ {i, j} = {c, ConnectTo[c]} /\ c \in Clq /\ ConnectTo[c] \in Clq
        /\ ConnectTo[c] < c
  BY NbrsSymmetric, LinkParts
<1> DEFINE D == Descendants(c)
<1>2. /\ D \in SUBSET Clq /\ c \in D /\ ConnectTo[c] \notin D
      /\ \A y \in 1 .. NumberOfClqs - 1 : ConnectTo[y] \in D => y \in D
      /\ \A x \in D \ {c} : ConnectTo[x] \in D /\ x # 0
  BY DescendantsFacts
<1> HIDE DEF D
<1>3. IsClosed(D, {{i, j}})
  <2> SUFFICES ASSUME NEW x \in D, NEW y \in Nbrs(x), {x, y} # {i, j}
               PROVE  y \in D
    BY DEF IsClosed
  <2>1. PICK d \in 1 .. NumberOfClqs - 1 : {x, y} = {d, ConnectTo[d]}
    BY <1>2, NbrsSymmetric, LinkParts
  <2>2. CASE x = d /\ y = ConnectTo[d]
    <3>1. x # c
      BY <1>1, <2>2
    <3> QED
      BY <1>2, <2>2, <3>1
  <2>3. CASE y = d /\ x = ConnectTo[d]
    BY <1>2, <2>3
  <2> QED
    BY <2>1, <2>2, <2>3
<1>4. IsClosed(Clq \ D, {{i, j}})
  <2> SUFFICES ASSUME NEW x \in Clq \ D, NEW y \in Nbrs(x), {x, y} \notin {{i, j}}
               PROVE  y \in Clq \ D
    BY DEF IsClosed
  <2>1. y \in Clq /\ x \in Nbrs(y) /\ {x, y} = {y, x}
    BY NbrsSymmetric
  <2> QED
    BY <1>3, <2>1 DEF IsClosed
<1>5. CASE i = c /\ j = ConnectTo[c]
  BY <1>2, <1>3, <1>5
<1>6. CASE j = c /\ i = ConnectTo[c]
  <2>1. i \in Clq \ D /\ j \notin Clq \ D /\ Clq \ D \in SUBSET Clq
    BY <1>2, <1>6
  <2> QED
    BY <1>4, <2>1
<1> QED
  BY <1>1, <1>5, <1>6

-------------------------------------------------------------------------------
(***************************************************************************)
(* What lies behind an arc.                                                *)
(***************************************************************************)

\* Nothing lies behind a mute link.
LEMMA BehindMute ==
  ASSUME NEW m \in SUBSET Link, NEW i \in Clq, NEW j \in Nbrs(i), {i, j} \in m
  PROVE  Behind(m, i, j) = {}
  BY DEF Behind

\* Behind any other link lies the least closed set with the start of the arc.
LEMMA BehindLeast ==
  ASSUME NEW m \in SUBSET Link, NEW i \in Clq, NEW j \in Nbrs(i), {i, j} \notin m
  PROVE  /\ Behind(m, i, j) \in SUBSET Clq
         /\ i \in Behind(m, i, j)
         /\ \A x \in Behind(m, i, j) : \A y \in Nbrs(x) :
              {x, y} \in m \/ {x, y} = {i, j} \/ y \in Behind(m, i, j)
         /\ \A S \in SUBSET Clq :
              /\ i \in S
              /\ \A x \in S : \A y \in Nbrs(x) : {x, y} \in m \/ {x, y} = {i, j} \/ y \in S
              => Behind(m, i, j) \subseteq S
<1> DEFINE B == {c \in Clq : \A S \in SUBSET Clq :
                   i \in S /\ IsClosed(S, m \cup {{i, j}}) => c \in S}
<1>1. Behind(m, i, j) = B
  BY DEF Behind
<1>2. ASSUME NEW x \in B, NEW y \in Nbrs(x), {x, y} \notin m, {x, y} # {i, j}
      PROVE  y \in B
  <2> SUFFICES ASSUME NEW S \in SUBSET Clq, i \in S, IsClosed(S, m \cup {{i, j}})
               PROVE  y \in S
    BY <1>2 DEF Nbrs
  <2>1. x \in S
    OBVIOUS
  <2> QED
    BY <1>2, <2>1 DEF IsClosed
<1>3. ASSUME NEW S \in SUBSET Clq, i \in S,
             \A x \in S : \A y \in Nbrs(x) : {x, y} \in m \/ {x, y} = {i, j} \/ y \in S
      PROVE  B \subseteq S
  <2>1. IsClosed(S, m \cup {{i, j}})
    BY <1>3 DEF IsClosed
  <2> QED
    BY <1>3, <2>1
<1>4. B \in SUBSET Clq /\ i \in B
  OBVIOUS
<1> HIDE DEF B
<1> QED
  BY <1>1, <1>2, <1>3, <1>4

\* What is mute only takes away.
LEMMA BehindMonotone ==
  ASSUME NEW m \in SUBSET Link, NEW i \in Clq, NEW j \in Nbrs(i)
  PROVE  Behind(m, i, j) \subseteq Behind({}, i, j) /\ Behind({}, i, j) \in SUBSET Clq
<1> DEFINE B == Behind({}, i, j)
<1>1. {} \in SUBSET Link /\ {i, j} \notin {}
  OBVIOUS
<1>2. /\ B \in SUBSET Clq /\ i \in B
      /\ \A x \in B : \A y \in Nbrs(x) : {x, y} \in {} \/ {x, y} = {i, j} \/ y \in B
  BY <1>1, BehindLeast
<1>3. CASE {i, j} \in m
  BY <1>2, <1>3, BehindMute
<1>4. CASE {i, j} \notin m
  <2>1. \A x \in B : \A y \in Nbrs(x) : {x, y} \in m \/ {x, y} = {i, j} \/ y \in B
    BY <1>2
  <2> HIDE DEF B
  <2>2. Behind(m, i, j) \subseteq B
    BY <1>2, <1>4, <2>1, BehindLeast
  <2> QED
    BY <1>2, <2>2 DEF B
<1> QED
  BY <1>3, <1>4

\* The end of an arc does not lie behind it.
LEMMA BehindNotBack ==
  ASSUME NEW m \in SUBSET Link, NEW i \in Clq, NEW j \in Nbrs(i)
  PROVE  j \notin Behind(m, i, j)
<1>1. PICK D \in SUBSET Clq : i \in D /\ j \notin D /\ IsClosed(D, {{i, j}})
  BY Bridge
<1>2. CASE {i, j} \in m
  BY <1>2, BehindMute
<1>3. CASE {i, j} \notin m
  <2>1. \A x \in D : \A y \in Nbrs(x) : {x, y} \in m \/ {x, y} = {i, j} \/ y \in D
    BY <1>1 DEF IsClosed
  <2>2. Behind(m, i, j) \subseteq D
    BY <1>1, <1>3, <2>1, BehindLeast
  <2> QED
    BY <1>1, <2>2
<1> QED
  BY <1>2, <1>3

\* Behind the arcs that end in one clique lie different parts of the tree.
LEMMA BehindApart ==
  ASSUME NEW m \in SUBSET Link, NEW i \in Clq, NEW k \in Nbrs(i), NEW n \in Nbrs(i) \ {k}
  PROVE  Behind(m, k, i) \cap Behind(m, n, i) = {}
<1>0. /\ k \in Clq /\ n \in Clq /\ i \in Nbrs(k) /\ i \in Nbrs(n)
      /\ {k, i} = {i, k} /\ {n, i} = {i, n} /\ k # i /\ n # i
  BY NbrsSymmetric
<1>1. PICK D \in SUBSET Clq : k \in D /\ i \notin D /\ IsClosed(D, {{k, i}})
  BY <1>0, Bridge
<1>2. ASSUME {k, i} \notin m, {n, i} \notin m
      PROVE  Behind(m, k, i) \cap Behind(m, n, i) = {}
  <2>1. Behind(m, k, i) \subseteq D
    <3>1. \A x \in D : \A y \in Nbrs(x) : {x, y} \in m \/ {x, y} = {k, i} \/ y \in D
      BY <1>1 DEF IsClosed
    <3> QED
      BY <1>0, <1>1, <1>2, <3>1, BehindLeast
  <2> DEFINE B == Behind(m, n, i)
             T == B \ D
  <2>2. /\ B \in SUBSET Clq /\ n \in B /\ i \notin B
        /\ \A x \in B : \A y \in Nbrs(x) : {x, y} \in m \/ {x, y} = {n, i} \/ y \in B
    BY <1>0, <1>2, BehindLeast, BehindNotBack
  <2>3. n \notin D
    <3> SUFFICES ASSUME n \in D PROVE FALSE
      OBVIOUS
    <3>1. {n, i} # {k, i}
      BY <1>0
    <3> QED
      BY <1>0, <1>1, <3>1 DEF IsClosed
  <2> HIDE DEF B
  <2>4. ASSUME NEW x \in T, NEW y \in Nbrs(x), {x, y} \notin m, {x, y} # {n, i}
        PROVE  y \in T
    <3>1. x \in Clq /\ y \in Clq /\ x \in Nbrs(y) /\ {x, y} = {y, x}
      BY <2>2, NbrsSymmetric
    <3>2. y \in B /\ x \in B /\ x \notin D
      BY <2>2, <2>4
    <3>3. {y, x} # {k, i}
      BY <1>1, <2>2, <3>2
    <3>4. y \notin D
      BY <1>1, <3>1, <3>2, <3>3 DEF IsClosed
    <3> QED
      BY <3>2, <3>4
  <2>5. B \subseteq T
    <3>1. \A x \in T : \A y \in Nbrs(x) : {x, y} \in m \/ {x, y} = {n, i} \/ y \in T
      BY <2>4
    <3>2. n \in T /\ T \in SUBSET Clq
      BY <2>2, <2>3
    <3> HIDE DEF T
    <3> QED
      BY <1>0, <1>2, <3>1, <3>2, BehindLeast DEF B
  <2> QED
    BY <2>1, <2>5 DEF B
<1> QED
  BY <1>0, <1>2, BehindMute

\* What lies behind an arc is its start, and what lies behind the arcs that end
\* in its start, but for the arc back.
LEMMA BehindEquation ==
  ASSUME NEW m \in SUBSET Link, NEW i \in Clq, NEW j \in Nbrs(i), {i, j} \notin m
  PROVE  Behind(m, i, j) = {i} \cup UNION {Behind(m, k, i) : k \in Nbrs(i) \ {j}}
<1> DEFINE B == Behind(m, i, j)
           R == {i} \cup UNION {Behind(m, k, i) : k \in Nbrs(i) \ {j}}
<1>1. /\ B \in SUBSET Clq /\ i \in B
      /\ \A x \in B : \A y \in Nbrs(x) : {x, y} \in m \/ {x, y} = {i, j} \/ y \in B
  BY BehindLeast
<1>2. \A k \in Nbrs(i) : k \in Clq /\ i \in Nbrs(k) /\ {k, i} = {i, k} /\ k # i
  BY NbrsSymmetric
<1> HIDE DEF B
<1>3. ASSUME NEW k \in Nbrs(i) \ {j} PROVE Behind(m, k, i) \subseteq B
  <2>1. CASE {k, i} \in m
    BY <1>2, <2>1, BehindMute
  <2>2. CASE {k, i} \notin m
    <3> DEFINE S == Behind(m, k, i) \cap B
    <3>1. /\ Behind(m, k, i) \in SUBSET Clq /\ k \in Behind(m, k, i) /\ i \notin Behind(m, k, i)
          /\ \A x \in Behind(m, k, i) : \A y \in Nbrs(x) :
               {x, y} \in m \/ {x, y} = {k, i} \/ y \in Behind(m, k, i)
      BY <1>2, <2>2, BehindLeast, BehindNotBack
    <3>2. k \in B
      <4>1. {i, k} # {i, j}
        BY <1>2
      <4> QED
        BY <1>1, <1>2, <2>2, <4>1
    <3>3. j \notin Behind(m, k, i)
      <4> SUFFICES ASSUME j \in Behind(m, k, i) PROVE FALSE
        OBVIOUS
      <4>1. {j, i} # {k, i} /\ i \in Nbrs(j) /\ {j, i} = {i, j}
        BY <1>2
      <4> QED
        BY <3>1, <4>1
    <3>4. ASSUME NEW x \in S, NEW y \in Nbrs(x), {x, y} \notin m, {x, y} # {k, i}
          PROVE  y \in S
      <4>1. {x, y} # {i, j}
        BY <3>1, <3>3
      <4> QED
        BY <1>1, <3>1, <3>4, <4>1
    <3>5. S \in SUBSET Clq /\ k \in S
      BY <3>1, <3>2
    <3>6. \A x \in S : \A y \in Nbrs(x) : {x, y} \in m \/ {x, y} = {k, i} \/ y \in S
      BY <3>4
    <3> HIDE DEF S
    <3>7. Behind(m, k, i) \subseteq S
      BY <1>2, <2>2, <3>5, <3>6, BehindLeast
    <3> QED
      BY <3>7 DEF S
  <2> QED
    BY <2>1, <2>2
<1>4. R \subseteq B
  BY <1>1, <1>3
<1>5. R \in SUBSET Clq
  BY <1>1, <1>4
<1>6. ASSUME NEW x \in R, NEW y \in Nbrs(x), {x, y} \notin m, {x, y} # {i, j}
      PROVE  y \in R
  <2>1. CASE x = i
    <3>1. y \in Nbrs(i) \ {j} /\ {y, i} \notin m
      BY <1>6, <1>2, <2>1
    <3>2. y \in Behind(m, y, i)
      BY <1>2, <3>1, BehindLeast
    <3> QED
      BY <3>1, <3>2
  <2>2. CASE x # i
    <3>1. PICK k \in Nbrs(i) \ {j} : x \in Behind(m, k, i)
      BY <2>2
    <3>2. {k, i} \notin m
      BY <1>2, <3>1, BehindMute
    <3>3. {x, y} = {k, i} \/ y \in Behind(m, k, i)
      BY <1>2, <1>6, <3>1, <3>2, BehindLeast
    <3>4. k \in Behind(m, k, i)
      BY <1>2, <3>2, BehindLeast
    <3> QED
      BY <3>3, <3>4
  <2> QED
    BY <2>1, <2>2
<1>7. B \subseteq R
  <2>1. \A x \in R : \A y \in Nbrs(x) : {x, y} \in m \/ {x, y} = {i, j} \/ y \in R
    BY <1>6
  <2>2. i \in R
    OBVIOUS
  <2> HIDE DEF R
  <2> QED
    BY <1>5, <2>1, <2>2, BehindLeast DEF B
<1> QED
  BY <1>4, <1>7 DEF B

\* Around a clique lies the whole tree.
LEMMA BehindAll ==
  ASSUME NEW i \in Clq
  PROVE  Clq = {i} \cup UNION {Behind({}, k, i) : k \in Nbrs(i)}
<1> DEFINE R == {i} \cup UNION {Behind({}, k, i) : k \in Nbrs(i)}
<1>1. \A k \in Nbrs(i) : k \in Clq /\ i \in Nbrs(k) /\ {k, i} = {i, k}
  BY NbrsSymmetric
<1>2. {} \in SUBSET Link
  OBVIOUS
<1>3. \A k \in Nbrs(i) :
        /\ Behind({}, k, i) \in SUBSET Clq /\ k \in Behind({}, k, i)
        /\ \A x \in Behind({}, k, i) : \A y \in Nbrs(x) :
             {x, y} = {k, i} \/ y \in Behind({}, k, i)
  <2> SUFFICES ASSUME NEW k \in Nbrs(i)
               PROVE  /\ Behind({}, k, i) \in SUBSET Clq /\ k \in Behind({}, k, i)
                      /\ \A x \in Behind({}, k, i) : \A y \in Nbrs(x) :
                           {x, y} \in {} \/ {x, y} = {k, i} \/ y \in Behind({}, k, i)
    OBVIOUS
  <2>1. {k, i} \notin {}
    OBVIOUS
  <2> QED
    BY <1>1, <1>2, <2>1, BehindLeast
<1>4. R \in SUBSET Clq /\ R # {}
  BY <1>3
<1>5. IsClosed(R, {})
  <2> SUFFICES ASSUME NEW x \in R, NEW y \in Nbrs(x) PROVE y \in R
    BY DEF IsClosed
  <2>1. CASE x = i
    BY <1>3, <2>1
  <2>2. CASE x # i
    <3>1. PICK k \in Nbrs(i) : x \in Behind({}, k, i)
      BY <2>2
    <3>2. {x, y} = {k, i} \/ y \in Behind({}, k, i)
      BY <1>3, <3>1
    <3> QED
      BY <1>3, <3>2
  <2> QED
    BY <2>1, <2>2
<1> HIDE DEF R
<1>6. R = Clq
  BY <1>4, <1>5, Connected
<1> QED
  BY <1>6 DEF R

\* The last clique that contains the domain of a factor gets it.
LEMMA FactorHasHome ==
  ASSUME NEW f \in Factor
  PROVE  /\ FactAssignToClq(f) \in Clq
         /\ FactorDomain[f] \subseteq NodeContent[FactAssignToClq(f)]
<1> DEFINE T == {c \in Clq : FactorDomain[f] \subseteq NodeContent[c]}
<1>1. T # {} /\ T \in SUBSET (0 .. NumberOfClqs - 1) /\ NumberOfClqs - 1 \in Nat
  BY JunctionTreeAssumption DEF JunctionTreeAssumption, Clq
<1>2. \E n \in T : \A k \in T : k <= n
  <2> HIDE DEF T
  <2> QED
    BY <1>1, GreatestNat
<1>3. \E c \in Clq : /\ FactorDomain[f] \subseteq NodeContent[c]
                     /\ \A d \in Clq : FactorDomain[f] \subseteq NodeContent[d] => d <= c
  BY <1>2
<1> QED
  BY <1>3 DEF FactAssignToClq

-------------------------------------------------------------------------------
(***************************************************************************)
(* The way to the root.                                                    *)
(***************************************************************************)

\* the neighbour of clique c on the way to r
Up(r, c) == CHOOSE k \in Nbrs(c) : r \in Behind({}, k, c)

\* There is one such neighbour.
LEMMA UpFacts ==
  ASSUME NEW r \in Clq, NEW c \in Clq, c # r
  PROVE  /\ Up(r, c) \in Nbrs(c)
         /\ r \in Behind({}, Up(r, c), c)
         /\ \A k \in Nbrs(c) : r \in Behind({}, k, c) => k = Up(r, c)
<1>1. \E k \in Nbrs(c) : r \in Behind({}, k, c)
  BY BehindAll
<1>2. Up(r, c) \in Nbrs(c) /\ r \in Behind({}, Up(r, c), c)
  BY <1>1 DEF Up
<1>3. ASSUME NEW k \in Nbrs(c), r \in Behind({}, k, c) PROVE k = Up(r, c)
  <2>1. {} \in SUBSET Link
    OBVIOUS
  <2> QED
    BY <1>2, <1>3, <2>1, BehindApart
<1> QED
  BY <1>2, <1>3

\* Of two neighbours one is on the way from the other to the root.
LEMMA UpOrDown ==
  ASSUME NEW r \in Clq, NEW i \in Clq, NEW j \in Nbrs(i)
  PROVE  (i # r /\ Up(r, i) = j) <=> ~ (j # r /\ Up(r, j) = i)
<1>1. j \in Clq /\ i \in Nbrs(j) /\ i # j /\ {} \in SUBSET Link
  BY NbrsSymmetric
<1>2. Behind({}, i, j) = {i} \cup UNION {Behind({}, k, i) : k \in Nbrs(i) \ {j}}
  <2>1. {i, j} \notin {}
    OBVIOUS
  <2> QED
    BY <1>1, <2>1, BehindEquation
<1>3. \A k \in Nbrs(i) \ {j} : Behind({}, k, i) \cap Behind({}, j, i) = {}
  BY <1>1, BehindApart
<1>4. i \notin Behind({}, j, i) /\ j \notin Behind({}, i, j)
  BY <1>1, BehindNotBack
<1>5. Clq = {i} \cup UNION {Behind({}, k, i) : k \in Nbrs(i)}
  BY BehindAll
<1>6. CASE r \in Behind({}, j, i)
  <2>1. i # r /\ Up(r, i) = j
    BY <1>4, <1>6, UpFacts
  <2>2. r \notin Behind({}, i, j)
    BY <1>2, <1>3, <1>4, <1>6
  <2>3. ~ (j # r /\ Up(r, j) = i)
    BY <1>1, <2>2, UpFacts
  <2> QED
    BY <2>1, <2>3
<1>7. CASE r \notin Behind({}, j, i)
  <2>1. ~ (i # r /\ Up(r, i) = j)
    BY <1>7, UpFacts
  <2>2. r \in Behind({}, i, j)
    BY <1>2, <1>5, <1>7
  <2>3. j # r /\ Up(r, j) = i
    BY <1>1, <1>4, <2>2, UpFacts
  <2> QED
    BY <2>1, <2>3
<1> QED
  BY <1>6, <1>7

\* Cliques are finitely many.
LEMMA FiniteCliques ==
  /\ IsFiniteSet(Clq) /\ Cardinality(Clq) = NumberOfClqs
  /\ \A c \in Clq : IsFiniteSet(Nbrs(c))
  /\ \A r \in Clq : IsFiniteSet(Clq \ {r}) /\ Cardinality(Clq \ {r}) = NumberOfClqs - 1
<1>1. NumberOfClqs - 1 \in Nat /\ NumberOfClqs \in Nat
  BY JunctionTreeAssumption DEF JunctionTreeAssumption
<1>2. IsFiniteSet(Clq) /\ Cardinality(Clq) = NumberOfClqs
  BY <1>1, FS_Interval DEF Clq
<1>3. \A c \in Clq : IsFiniteSet(Nbrs(c))
  <2>1. \A c \in Clq : Nbrs(c) \in SUBSET Clq
    BY DEF Nbrs
  <2> QED
    BY <1>2, <2>1, FS_Subset
<1>4. \A r \in Clq : IsFiniteSet(Clq \ {r}) /\ Cardinality(Clq \ {r}) = NumberOfClqs - 1
  BY <1>2, FS_RemoveElement
<1> QED
  BY <1>2, <1>3, <1>4

\* what lies behind the links between clique c and its neighbours in N
Around(m, c, N) == UNION {Behind(m, k, c) : k \in N}

\* The links that BuildTreeStructure makes form a tree, whatever the cliques contain:
\* what lies behind an arc is its start and what lies behind the other arcs into it,
\* and no clique lies behind two arcs into the same clique.
THEOREM LinksFormTree ==
  /\ \A m \in SUBSET Link : \A i \in Clq : \A j \in Nbrs(i) :
       Behind(m, i, j) =
         IF {i, j} \in m THEN {}
         ELSE {i} \cup Around(m, i, Nbrs(i) \ {j})
  /\ \A m \in SUBSET Link : \A i \in Clq : \A k \in Nbrs(i) :
       /\ i \notin Behind(m, k, i)
       /\ \A n \in Nbrs(i) \ {k} : Behind(m, k, i) \cap Behind(m, n, i) = {}
<1>1. ASSUME NEW m \in SUBSET Link, NEW i \in Clq, NEW j \in Nbrs(i)
      PROVE  Behind(m, i, j) =
               IF {i, j} \in m THEN {}
               ELSE {i} \cup Around(m, i, Nbrs(i) \ {j})
  <2>1. CASE {i, j} \in m
    BY <2>1, BehindMute
  <2>2. CASE {i, j} \notin m
    <3>1. Behind(m, i, j) = {i} \cup UNION {Behind(m, k, i) : k \in Nbrs(i) \ {j}}
      BY <2>2, BehindEquation
    <3> QED
      BY <2>2, <3>1 DEF Around
  <2> QED
    BY <2>1, <2>2
<1>2. ASSUME NEW m \in SUBSET Link, NEW i \in Clq, NEW k \in Nbrs(i)
      PROVE  i \notin Behind(m, k, i)
  BY BehindNotBack, NbrsSymmetric
<1>3. ASSUME NEW m \in SUBSET Link, NEW i \in Clq, NEW k \in Nbrs(i), NEW n \in Nbrs(i) \ {k}
      PROVE  Behind(m, k, i) \cap Behind(m, n, i) = {}
  BY BehindApart
<1> QED
  BY <1>1, <1>2, <1>3

-------------------------------------------------------------------------------
(***************************************************************************)
(* Recursion along the numbers up to a bound.                              *)
(***************************************************************************)

\* A set that contains 0 and with a number the next one contains them all.
LEMMA UpTo ==
  ASSUME NEW b \in Nat, NEW T, 0 \in T, \A n \in 0 .. b : n \in T /\ n # b => n + 1 \in T
  PROVE  \A n \in 0 .. b : n \in T
<1> SUFFICES ASSUME NEW n \in 0 .. b, n \notin T PROVE FALSE
  OBVIOUS
<1> DEFINE F == {k \in 0 .. b : k \notin T}
<1>1. F \in SUBSET Nat /\ F # {}
  OBVIOUS
<1>2. PICK k \in F : \A e \in F : k <= e
  <2> HIDE DEF F
  <2> QED
    BY <1>1, LeastNat
<1>3. k # 0 /\ k - 1 \in 0 .. b /\ k - 1 # b /\ (k - 1) + 1 = k
  OBVIOUS
<1>4. k - 1 \in T
  BY <1>2, <1>3
<1> QED
  BY <1>3, <1>4

\* f follows the recursion from base by step
Follows(f, b, S, base, step) ==
  /\ f \in [0 .. b -> S]
  /\ f[0] = base
  /\ \A n \in 1 .. b : f[n] = step[<<f[n - 1], n>>]

\* A value is defined for every number by what it is at 0 and how it follows from
\* the one before.
LEMMA Recursion ==
  ASSUME NEW b \in Nat, NEW S, NEW base \in S, NEW step \in [S \X Nat -> S]
  PROVE  \E f : Follows(f, b, S, base, step)
<1> DEFINE IsUpTo(f, k) == Follows(f, k, S, base, step)
           T == {k \in 0 .. b : \E f : IsUpTo(f, k)}
<1>1. 0 \in T
  <2> DEFINE f == [n \in 0 .. 0 |-> base]
  <2>1. IsUpTo(f, 0)
    BY DEF Follows
  <2> HIDE DEF f, IsUpTo
  <2> QED
    BY <2>1
<1>2. ASSUME NEW k \in 0 .. b, k \in T, k # b PROVE k + 1 \in T
  <2>1. PICK f : IsUpTo(f, k)
    BY <1>2
  <2> DEFINE x == step[<<f[k], k + 1>>]
             g == [n \in 0 .. k + 1 |-> IF n = k + 1 THEN x ELSE f[n]]
  <2>2. f[k] \in S /\ x \in S
    <3>1. f[k] \in S
      BY <2>1 DEF Follows
    <3>2. <<f[k], k + 1>> \in S \X Nat
      BY <3>1
    <3> QED
      BY <3>1, <3>2
  <2>3. g \in [0 .. k + 1 -> S] /\ g[0] = base
    BY <2>1, <2>2 DEF Follows
  <2>4. ASSUME NEW n \in 1 .. k + 1 PROVE g[n] = step[<<g[n - 1], n>>]
    <3>1. CASE n = k + 1
      <4>1. g[n - 1] = f[k] /\ g[n] = x
        BY <3>1
      <4> QED
        BY <3>1, <4>1
    <3>2. CASE n # k + 1
      <4>1. n \in 1 .. k /\ g[n] = f[n] /\ g[n - 1] = f[n - 1]
        BY <3>2
      <4> QED
        BY <2>1, <4>1 DEF Follows
    <3> QED
      BY <3>1, <3>2
  <2>5. IsUpTo(g, k + 1)
    BY <2>3, <2>4 DEF Follows
  <2>6. k + 1 \in 0 .. b
    BY <1>2
  <2> HIDE DEF g, IsUpTo
  <2> QED
    BY <2>5, <2>6
<1>3. b \in T
  <2> HIDE DEF T
  <2> QED
    BY <1>1, <1>2, UpTo
<1> QED
  BY <1>3

-------------------------------------------------------------------------------
(***************************************************************************)
(* RebuildTreeFromRoot.                                                    *)
(***************************************************************************)

\* s lists the elements of S, each once
IsListOf(s, S) ==
  /\ s \in Seq(S)
  /\ \A x \in S : \E k \in 1 .. Len(s) : s[k] = x
  /\ \A j, k \in 1 .. Len(s) : s[j] = s[k] => j = k

\* One more element.
LEMMA ListAppend ==
  ASSUME NEW S, NEW s, IsListOf(s, S), NEW x, x \notin S
  PROVE  IsListOf(Append(s, x), S \cup {x})
<1> DEFINE U == S \cup {x}
           t == Append(s, x)
<1>1. s \in Seq(U) /\ x \in U
  <2>1. S \subseteq U
    OBVIOUS
  <2> QED
    BY <2>1, SeqMonotonic DEF IsListOf
<1>2. /\ t \in Seq(U) /\ Len(t) = Len(s) + 1 /\ t[Len(s) + 1] = x
      /\ \A k \in 1 .. Len(s) : t[k] = s[k]
  BY <1>1, AppendProperties
<1>3. Len(s) \in Nat /\ \A k \in 1 .. Len(s) : s[k] \in S
  BY LenProperties DEF IsListOf
<1> HIDE DEF t
<1>4. ASSUME NEW y \in U PROVE \E k \in 1 .. Len(t) : t[k] = y
  <2>1. CASE y \in S
    <3>1. PICK k \in 1 .. Len(s) : s[k] = y
      BY <2>1 DEF IsListOf
    <3>2. k \in 1 .. Len(t) /\ t[k] = y
      BY <1>2, <1>3, <3>1
    <3> QED
      BY <3>2
  <2>2. CASE y = x
    <3>1. Len(s) + 1 \in 1 .. Len(t)
      BY <1>2, <1>3
    <3> QED
      BY <1>2, <2>2, <3>1
  <2> QED
    BY <2>1, <2>2
<1>5. ASSUME NEW j \in 1 .. Len(t), NEW k \in 1 .. Len(t), t[j] = t[k] PROVE j = k
  <2>1. CASE j \in 1 .. Len(s) /\ k \in 1 .. Len(s)
    BY <1>2, <1>5, <2>1 DEF IsListOf
  <2>2. CASE j = Len(s) + 1
    BY <1>2, <1>3, <1>5, <2>2
  <2>3. CASE k = Len(s) + 1
    BY <1>2, <1>3, <1>5, <2>3
  <2> QED
    BY <1>2, <1>3, <2>1, <2>2, <2>3
<1>6. IsListOf(t, U)
  BY <1>2, <1>4, <1>5 DEF IsListOf
<1> QED
  BY <1>6 DEF t

\* The loop over all cliques lists the leaves.
LEMMA LeavesListed ==
  ASSUME NEW r \in Clq
  PROVE  IsListOf(Leaves(r), {c \in Clq : IsLeaf(c, r)})
<1> DEFINE F(f, n) == IF n = 0 THEN <<>>
                      ELSE IF IsLeaf(n - 1, r) THEN Append(f[n - 1], n - 1) ELSE f[n - 1]
           IsLoop(f) == f = [n \in 0 .. NumberOfClqs |-> F(f, n)]
           l == CHOOSE f : IsLoop(f)
<1>0. NumberOfClqs \in Nat
  BY JunctionTreeAssumption DEF JunctionTreeAssumption
<1>1. Leaves(r) = l[NumberOfClqs]
  BY DEF Leaves
<1>2. \E f : IsLoop(f)
  <2> DEFINE step == [p \in Seq(Nat) \X Nat |->
                        IF p[2] # 0 /\ IsLeaf(p[2] - 1, r) THEN Append(p[1], p[2] - 1) ELSE p[1]]
  <2>1. step \in [Seq(Nat) \X Nat -> Seq(Nat)]
    <3> SUFFICES ASSUME NEW s \in Seq(Nat), NEW n \in Nat, n # 0
                 PROVE  Append(s, n - 1) \in Seq(Nat)
      OBVIOUS
    <3>1. n - 1 \in Nat
      OBVIOUS
    <3> QED
      BY <3>1, AppendProperties
  <2> DEFINE start == <<>>
             N0 == Seq(Nat)
  <2>2. start \in N0
    BY EmptySeq
  <2>3. PICK f : Follows(f, NumberOfClqs, N0, start, step)
    <3> HIDE DEF step, start, N0
    <3>1. step \in [N0 \X Nat -> N0]
      BY <2>1 DEF N0
    <3> QED
      BY <1>0, <2>2, <3>1, Recursion
  <2>4. ASSUME NEW n \in 0 .. NumberOfClqs PROVE f[n] = F(f, n)
    <3>1. CASE n = 0
      BY <2>3, <3>1 DEF Follows
    <3>2. CASE n # 0
      <4>1. n \in 1 .. NumberOfClqs /\ n \in Nat /\ f[n - 1] \in Seq(Nat)
        BY <1>0, <2>3, <3>2 DEF Follows
      <4>2. step[<<f[n - 1], n>>] =
              IF IsLeaf(n - 1, r) THEN Append(f[n - 1], n - 1) ELSE f[n - 1]
        BY <3>2, <4>1
      <4> QED
        BY <2>3, <3>2, <4>1, <4>2 DEF Follows
    <3> QED
      BY <3>1, <3>2
  <2>5. IsLoop(f)
    <3>1. f \in [0 .. NumberOfClqs -> N0]
      BY <2>3 DEF Follows
    <3> HIDE DEF F, N0
    <3> QED
      BY <2>4, <3>1
  <2> HIDE DEF F, IsLoop
  <2> QED
    BY <2>5
<1>3. IsLoop(l)
  <2> HIDE DEF IsLoop
  <2> QED
    BY <1>2
<1>4. \A n \in 0 .. NumberOfClqs : l[n] = F(l, n)
  <2> HIDE DEF l, F
  <2> QED
    BY <1>3
<1> HIDE DEF l, IsLoop
<1> DEFINE Part(n) == {c \in Clq : IsLeaf(c, r) /\ c < n}
           T == {n \in 0 .. NumberOfClqs : IsListOf(l[n], Part(n))}
<1>5. 0 \in T
  <2>1. l[0] = <<>> /\ Part(0) = {} /\ 0 \in 0 .. NumberOfClqs
    BY <1>0, <1>4 DEF Clq
  <2>2. IsListOf(<<>>, {})
    BY EmptySeq DEF IsListOf
  <2> QED
    BY <2>1, <2>2
<1>6. ASSUME NEW n \in 0 .. NumberOfClqs, n \in T, n # NumberOfClqs PROVE n + 1 \in T
  <2>1. n + 1 \in 0 .. NumberOfClqs /\ n \in Clq /\ (n + 1) - 1 = n /\ n + 1 # 0
    BY <1>0, <1>6 DEF Clq
  <2>2. l[n + 1] = IF IsLeaf(n, r) THEN Append(l[n], n) ELSE l[n]
    BY <1>4, <2>1
  <2>3. Part(n + 1) = IF IsLeaf(n, r) THEN Part(n) \cup {n} ELSE Part(n)
    BY <2>1 DEF Clq
  <2>4. n \notin Part(n) /\ IsListOf(l[n], Part(n))
    BY <1>6 DEF Clq
  <2> HIDE DEF Part
  <2>5. IsListOf(l[n + 1], Part(n + 1))
    BY <2>2, <2>3, <2>4, ListAppend
  <2> QED
    BY <2>1, <2>5
<1>7. NumberOfClqs \in T
  <2>1. NumberOfClqs \in 0 .. NumberOfClqs
    BY <1>0
  <2> HIDE DEF T
  <2> QED
    BY <1>0, <1>5, <1>6, <2>1, UpTo
<1>8. Part(NumberOfClqs) = {c \in Clq : IsLeaf(c, r)}
  BY <1>0 DEF Clq
<1> QED
  BY <1>1, <1>7, <1>8

\* s lists a part of the cliques but r, each after its neighbours below it and
\* before the one on its way to r.
IsUpwards(s, r) ==
  /\ s \in Seq(Clq \ {r})
  /\ \A j, k \in 1 .. Len(s) : s[j] = s[k] => j = k
  /\ \A k \in 1 .. Len(s) : \A d \in Nbrs(s[k]) :
       d # Up(r, s[k]) <=> \E j \in 1 .. k - 1 : s[j] = d

\* A clique has one neighbour that is not listed when all but the one on its way to
\* r are; that one is not listed before the clique itself.
LEMMA OneNotListed ==
  ASSUME NEW r \in Clq, NEW s, IsUpwards(s, r), NEW m \in Clq \ {r}, m \notin Range(s)
  PROVE  /\ Up(r, m) \in Nbrs(m) \ Range(s)
         /\ Cardinality(Nbrs(m) \ Range(s)) = 1 <=> Nbrs(m) \ {Up(r, m)} \subseteq Range(s)
<1>0. Len(s) \in Nat /\ \A k \in 1 .. Len(s) : s[k] \in Clq \ {r}
  BY LenProperties DEF IsUpwards
<1>1. Range(s) = {s[k] : k \in 1 .. Len(s)}
  BY RangeEquality DEF IsUpwards
<1>2. Up(r, m) \in Nbrs(m)
  BY UpFacts
<1>3. Up(r, m) \notin Range(s)
  <2> SUFFICES ASSUME Up(r, m) \in Range(s) PROVE FALSE
    OBVIOUS
  <2>1. PICK k \in 1 .. Len(s) : s[k] = Up(r, m)
    BY <1>1
  <2>2. m \in Nbrs(s[k])
    BY <1>2, <2>1, NbrsSymmetric
  <2>3. m # Up(r, s[k])
    BY <1>0, <1>2, <2>1, UpOrDown
  <2>4. PICK j \in 1 .. k - 1 : s[j] = m
    BY <2>2, <2>3 DEF IsUpwards
  <2> QED
    BY <1>0, <1>1, <2>4
<1> DEFINE free == Nbrs(m) \ Range(s)
<1>4. IsFiniteSet(free)
  BY FiniteCliques, FS_Difference
<1>5. Cardinality(free) = 1 <=> \E x : free = {x}
  <2> HIDE DEF free
  <2> QED
    BY <1>4, FS_Singleton
<1>6. (\E x : free = {x}) <=> free = {Up(r, m)}
  BY <1>2, <1>3
<1>7. free = {Up(r, m)} <=> Nbrs(m) \ {Up(r, m)} \subseteq Range(s)
  BY <1>2, <1>3
<1> QED
  BY <1>2, <1>3, <1>5, <1>6, <1>7

\* The leaves.
LEMMA LeavesUpwards ==
  ASSUME NEW r \in Clq
  PROVE  /\ IsUpwards(Leaves(r), r)
         /\ \A m \in Clq \ {r} :
              m \notin Range(Leaves(r)) =>
                \E d \in Nbrs(m) : d # Up(r, m)
<1> DEFINE s == Leaves(r)
           L == {c \in Clq : IsLeaf(c, r)}
<1>1. IsListOf(s, L)
  BY LeavesListed
<1> HIDE DEF s
<1>2. /\ s \in Seq(L) /\ Len(s) \in Nat
      /\ \A k \in 1 .. Len(s) : s[k] \in L
      /\ \A j, k \in 1 .. Len(s) : s[j] = s[k] => j = k
      /\ \A x \in L : \E k \in 1 .. Len(s) : s[k] = x
  BY <1>1, LenProperties DEF IsListOf
<1>3. s \in Seq(Clq \ {r})
  <2>1. L \subseteq Clq \ {r}
    BY DEF IsLeaf
  <2> QED
    BY <1>2, <2>1, SeqMonotonic
<1>4. \A c \in L : Nbrs(c) = {Up(r, c)}
  <2> SUFFICES ASSUME NEW c \in L PROVE Nbrs(c) = {Up(r, c)}
    OBVIOUS
  <2>1. c \in Clq /\ c # r /\ Cardinality(Nbrs(c)) = 1
    BY DEF IsLeaf
  <2>2. \E x : Nbrs(c) = {x}
    BY <2>1, FiniteCliques, FS_Singleton
  <2>3. Up(r, c) \in Nbrs(c)
    BY <2>1, UpFacts
  <2> QED
    BY <2>2, <2>3
<1>5. ASSUME NEW k \in 1 .. Len(s), NEW d \in Nbrs(s[k])
      PROVE  d # Up(r, s[k]) <=> \E j \in 1 .. k - 1 : s[j] = d
  <2>1. s[k] \in L /\ s[k] \in Clq /\ s[k] # r /\ d = Up(r, s[k])
    BY <1>2, <1>4 DEF IsLeaf
  <2>2. ASSUME NEW j \in 1 .. k - 1, s[j] = d PROVE FALSE
    <3>1. d \in L /\ d # r
      BY <1>2, <2>2 DEF IsLeaf
    <3>2. s[k] = Up(r, d)
      BY <1>4, <2>1, <3>1, NbrsSymmetric
    <3> QED
      BY <2>1, <3>1, <3>2, UpOrDown
  <2> QED
    BY <2>1, <2>2
<1>6. ASSUME NEW m \in Clq \ {r}, m \notin Range(s) PROVE \E d \in Nbrs(m) : d # Up(r, m)
  <2> SUFFICES ASSUME \A d \in Nbrs(m) : d = Up(r, m) PROVE FALSE
    OBVIOUS
  <2>1. Nbrs(m) = {Up(r, m)}
    BY UpFacts
  <2>2. IsLeaf(m, r)
    BY <2>1, FS_Singleton DEF IsLeaf
  <2>3. m \in Range(s)
    BY <1>2, <1>3, <2>2, RangeEquality
  <2> QED
    BY <1>6, <2>3
<1> QED
  BY <1>2, <1>3, <1>5, <1>6 DEF IsUpwards, s

\* Every clique that may follow is a neighbour of one that has still to be looked at.
IsPending(s, r, n) ==
  \A m \in Clq \ {r} :
    m \notin Range(s) /\ Nbrs(m) \ {Up(r, m)} \subseteq Range(s) =>
      \E k \in n + 1 .. Len(s) : s[k] \in Nbrs(m)

\* Only the clique on the way to the root can follow.
LEMMA OneFollows ==
  ASSUME NEW r \in Clq, NEW s, IsUpwards(s, r), NEW n \in 1 .. Len(s)
  PROVE  /\ Follow(s[n], r, Range(s)) \subseteq {Up(r, s[n])}
         /\ \A m \in Nbrs(s[n]) \ {r} :
              m \notin Range(s) /\ Nbrs(m) \ {Up(r, m)} \subseteq Range(s)
                <=> m \in Follow(s[n], r, Range(s))
<1>1. Len(s) \in Nat /\ s[n] \in Clq \ {r} /\ Range(s) = {s[k] : k \in 1 .. Len(s)}
  BY LenProperties, RangeEquality DEF IsUpwards
<1>2. \A d \in Nbrs(s[n]) : d # Up(r, s[n]) => d \in Range(s)
  <2> SUFFICES ASSUME NEW d \in Nbrs(s[n]), d # Up(r, s[n]) PROVE d \in Range(s)
    OBVIOUS
  <2>1. PICK j \in 1 .. n - 1 : s[j] = d
    BY DEF IsUpwards
  <2>2. j \in 1 .. Len(s)
    BY <1>1
  <2> QED
    BY <1>1, <2>1, <2>2
<1>3. Follow(s[n], r, Range(s)) \subseteq {Up(r, s[n])}
  BY <1>2 DEF Follow
<1>4. ASSUME NEW m \in Nbrs(s[n]) \ {r}
      PROVE  m \notin Range(s) /\ Nbrs(m) \ {Up(r, m)} \subseteq Range(s)
               <=> m \in Follow(s[n], r, Range(s))
  <2>1. m \in Clq \ {r}
    BY <1>1, NbrsSymmetric
  <2>2. m \notin Range(s) =>
          (Cardinality(Nbrs(m) \ Range(s)) = 1 <=> Nbrs(m) \ {Up(r, m)} \subseteq Range(s))
    BY <2>1, OneNotListed
  <2> QED
    BY <2>2 DEF Follow
<1> QED
  BY <1>3, <1>4

\* Looking at the next clique keeps the order, and what may follow pending.
LEMMA LookAtUpwards ==
  ASSUME NEW r \in Clq, NEW s, IsUpwards(s, r), NEW n \in Nat \ {0}, IsPending(s, r, n - 1)
  PROVE  IsUpwards(LookAt(r, s, n), r) /\ IsPending(LookAt(r, s, n), r, n)
<1>1. Len(s) \in Nat /\ s \in Seq(Clq \ {r}) /\ Range(s) = {s[k] : k \in 1 .. Len(s)}
  BY LenProperties, RangeEquality DEF IsUpwards
<1> DEFINE F == Follow(s[n], r, Range(s))
<1>2. CASE n > Len(s)
  BY <1>1, <1>2 DEF LookAt, IsPending
<1>3. CASE n <= Len(s) /\ F = {}
  <2>1. LookAt(r, s, n) = s
    BY <1>3 DEF LookAt
  <2>2. ASSUME NEW m \in Clq \ {r}, m \notin Range(s), Nbrs(m) \ {Up(r, m)} \subseteq Range(s)
        PROVE  \E k \in n + 1 .. Len(s) : s[k] \in Nbrs(m)
    <3>1. PICK k \in (n - 1) + 1 .. Len(s) : s[k] \in Nbrs(m)
      BY <2>2 DEF IsPending
    <3>2. k # n
      <4> SUFFICES ASSUME k = n PROVE FALSE
        OBVIOUS
      <4>1. m \in Nbrs(s[n]) \ {r}
        BY <3>1, NbrsSymmetric
      <4>2. n \in 1 .. Len(s)
        BY <1>1, <1>3
      <4>3. m \in F
        BY <2>2, <4>1, <4>2, OneFollows
      <4> QED
        BY <1>3, <4>3
    <3> QED
      BY <1>1, <3>1, <3>2
  <2>3. IsPending(s, r, n)
    BY <2>2 DEF IsPending
  <2> QED
    BY <2>1, <2>3
<1>4. CASE n <= Len(s) /\ F # {}
  <2> DEFINE u == Min(F)
             t == Append(s, u)
  <2>0. n \in 1 .. Len(s) /\ s[n] \in Clq \ {r}
    BY <1>1, <1>4, LenProperties
  <2>1. F = {Up(r, s[n])} /\ u = Up(r, s[n]) /\ u \in F
    <3>1. F = {Up(r, s[n])}
      BY <1>4, <2>0, OneFollows
    <3>2. Up(r, s[n]) \in Nat
      <4>1. Up(r, s[n]) \in Nbrs(s[n])
        BY <2>0, UpFacts
      <4>2. Up(r, s[n]) \in Clq
        BY <2>0, <4>1, NbrsSymmetric
      <4>3. NumberOfClqs \in Nat
        BY JunctionTreeAssumption DEF JunctionTreeAssumption
      <4> QED
        BY <4>2, <4>3 DEF Clq
    <3>3. F \in SUBSET Nat
      BY <3>1, <3>2
    <3>4. Min(F) \in F
      <4> HIDE DEF F
      <4> QED
        BY <1>4, <3>3, MinNat
    <3> QED
      BY <3>1, <3>4
  <2>2. /\ u \in Clq \ {r} /\ u \in Nbrs(s[n]) \ {r} /\ u \notin Range(s)
        /\ Nbrs(u) \ {Up(r, u)} \subseteq Range(s)
    <3>1. u \in Nbrs(s[n]) /\ u # r /\ u \notin Range(s)
      BY <2>1 DEF Follow
    <3>2. u \in Clq
      BY <2>0, <3>1, NbrsSymmetric
    <3>3. Nbrs(u) \ {Up(r, u)} \subseteq Range(s)
      BY <2>0, <2>1, <3>1, OneFollows
    <3> QED
      BY <3>1, <3>2, <3>3
  <2>3. LookAt(r, s, n) = t
    BY <1>4 DEF LookAt
  <2> HIDE DEF u, F
  <2>4. /\ t \in Seq(Clq \ {r}) /\ Len(t) = Len(s) + 1 /\ t[Len(s) + 1] = u
        /\ \A k \in 1 .. Len(s) : t[k] = s[k]
    BY <1>1, <2>2, AppendProperties
  <2> HIDE DEF t
  <2>5. Range(t) = Range(s) \cup {u}
    <3>1. Range(t) = {t[k] : k \in 1 .. Len(t)}
      BY <2>4, RangeEquality
    <3>2. \A k \in 1 .. Len(t) : k \in 1 .. Len(s) \/ k = Len(s) + 1
      BY <1>1, <2>4
    <3>3. Len(s) + 1 \in 1 .. Len(t) /\ \A k \in 1 .. Len(s) : k \in 1 .. Len(t)
      BY <1>1, <2>4
    <3> QED
      BY <1>1, <2>4, <3>1, <3>2, <3>3
  <2>6. ASSUME NEW j \in 1 .. Len(t), NEW k \in 1 .. Len(t), t[j] = t[k] PROVE j = k
    <3>1. CASE j \in 1 .. Len(s) /\ k \in 1 .. Len(s)
      BY <2>4, <2>6, <3>1 DEF IsUpwards
    <3>2. CASE j = Len(s) + 1
      BY <1>1, <2>2, <2>4, <2>6, <3>2
    <3>3. CASE k = Len(s) + 1
      BY <1>1, <2>2, <2>4, <2>6, <3>3
    <3> QED
      BY <1>1, <2>4, <3>1, <3>2, <3>3
  <2>7. ASSUME NEW k \in 1 .. Len(t), NEW d \in Nbrs(t[k])
        PROVE  d # Up(r, t[k]) <=> \E j \in 1 .. k - 1 : t[j] = d
    <3>1. CASE k \in 1 .. Len(s)
      <4>1. d # Up(r, s[k]) <=> \E j \in 1 .. k - 1 : s[j] = d
        BY <2>4, <2>7, <3>1 DEF IsUpwards
      <4>2. \A j \in 1 .. k - 1 : t[j] = s[j]
        BY <1>1, <2>4, <3>1
      <4> QED
        BY <2>4, <3>1, <4>1, <4>2
    <3>2. CASE k = Len(s) + 1
      <4>1. \A j \in 1 .. k - 1 : t[j] = s[j]
        BY <1>1, <2>4, <3>2
      <4>2. (\E j \in 1 .. k - 1 : t[j] = d) <=> d \in Range(s)
        BY <1>1, <3>2, <4>1
      <4>3. Up(r, u) \notin Range(s)
        BY <2>2, OneNotListed
      <4> QED
        BY <2>2, <2>4, <2>7, <3>2, <4>2, <4>3
    <3> QED
      BY <1>1, <2>4, <3>1, <3>2
  <2>8. ASSUME NEW m \in Clq \ {r}, m \notin Range(t), Nbrs(m) \ {Up(r, m)} \subseteq Range(t)
        PROVE  \E k \in n + 1 .. Len(t) : t[k] \in Nbrs(m)
    <3>1. CASE u \in Nbrs(m)
      BY <1>1, <2>0, <2>4, <3>1
    <3>2. CASE u \notin Nbrs(m)
      <4>1. m \notin Range(s) /\ Nbrs(m) \ {Up(r, m)} \subseteq Range(s)
        BY <2>5, <2>8, <3>2
      <4>2. PICK k \in (n - 1) + 1 .. Len(s) : s[k] \in Nbrs(m)
        BY <4>1 DEF IsPending
      <4>3. k # n
        <5> SUFFICES ASSUME k = n PROVE FALSE
          OBVIOUS
        <5>1. m \in Nbrs(s[n]) \ {r}
          BY <4>2, NbrsSymmetric
        <5>2. m \in F
          BY <2>0, <4>1, <5>1, OneFollows DEF F
        <5> QED
          BY <2>1, <2>5, <2>8, <5>2
      <4> QED
        BY <1>1, <2>4, <4>2, <4>3
    <3> QED
      BY <3>1, <3>2
  <2>9. IsUpwards(t, r)
    BY <2>4, <2>6, <2>7 DEF IsUpwards
  <2>10. IsPending(t, r, n)
    BY <2>8 DEF IsPending
  <2> QED
    BY <2>3, <2>9, <2>10
<1>5. n > Len(s) \/ n <= Len(s)
  BY <1>1
<1> QED
  BY <1>2, <1>3, <1>4, <1>5

\* When nothing is pending any more every clique but the root is listed.
LEMMA UpwardsComplete ==
  ASSUME NEW r \in Clq, NEW s, IsUpwards(s, r), IsPending(s, r, NumberOfClqs)
  PROVE  Range(s) = Clq \ {r} /\ Len(s) = NumberOfClqs - 1
<1>0. NumberOfClqs \in Nat \ {0}
  BY JunctionTreeAssumption DEF JunctionTreeAssumption
<1>1. /\ Len(s) \in Nat /\ \A k \in 1 .. Len(s) : s[k] \in Clq \ {r}
      /\ Range(s) = {s[k] : k \in 1 .. Len(s)} /\ Range(s) \in SUBSET (Clq \ {r})
      /\ s \in [1 .. Len(s) -> Clq \ {r}]
  BY LenProperties, RangeEquality DEF IsUpwards
<1>2. IsFiniteSet(1 .. Len(s)) /\ Cardinality(1 .. Len(s)) = Len(s)
  <2>1. Len(s) \in Int /\ 1 \in Int /\ (1 > Len(s) => Len(s) = 0)
    BY <1>1
  <2>2. /\ IsFiniteSet(1 .. Len(s))
        /\ Cardinality(1 .. Len(s)) = IF 1 > Len(s) THEN 0 ELSE Len(s) - 1 + 1
    BY <2>1, FS_Interval, Zenon
  <2> QED
    BY <1>1, <2>1, <2>2
<1>3. Len(s) <= NumberOfClqs - 1
  <2>1. s \in Injection(1 .. Len(s), Clq \ {r})
    BY <1>1 DEF IsUpwards, Injection, IsInjective
  <2>2. IsFiniteSet(Clq \ {r}) /\ Cardinality(Clq \ {r}) = NumberOfClqs - 1
    BY FiniteCliques
  <2>3. Cardinality(1 .. Len(s)) <= Cardinality(Clq \ {r})
    BY <2>1, <2>2, FS_Injection
  <2> QED
    BY <1>2, <2>2, <2>3
<1> DEFINE U == (Clq \ {r}) \ Range(s)
           Size(m) == Cardinality(Behind({}, m, Up(r, m)))
<1>4. \A m \in Clq \ {r} : /\ IsFiniteSet(Behind({}, m, Up(r, m))) /\ Size(m) \in Nat
  <2> SUFFICES ASSUME NEW m \in Clq \ {r}
               PROVE  IsFiniteSet(Behind({}, m, Up(r, m))) /\ Size(m) \in Nat
    OBVIOUS
  <2>1. {} \in SUBSET Link /\ Up(r, m) \in Nbrs(m)
    BY UpFacts
  <2>2. Behind({}, m, Up(r, m)) \in SUBSET Clq
    BY <2>1, BehindMonotone
  <2> QED
    BY <2>2, FiniteCliques, FS_Subset, FS_CardinalityType
<1>5. ASSUME NEW m \in U PROVE \E d \in U : Size(d) < Size(m)
  <2>1. m \in Clq \ {r} /\ m \notin Range(s) /\ Up(r, m) \in Nbrs(m) /\ {} \in SUBSET Link
    BY UpFacts
  <2>2. PICK d \in Nbrs(m) \ {Up(r, m)} : d \notin Range(s)
    <3>1. ~ \E k \in NumberOfClqs + 1 .. Len(s) : s[k] \in Nbrs(m)
      BY <1>0, <1>1, <1>3
    <3> QED
      BY <2>1, <3>1 DEF IsPending
  <2>3. d \in Clq /\ d # r /\ Up(r, d) = m
    <3>1. d \in Clq /\ m \in Nbrs(d) /\ m \in Clq
      BY <2>1, <2>2, NbrsSymmetric
    <3>2. d # r /\ Up(r, d) = m
      BY <2>1, <2>2, <3>1, UpOrDown
    <3> QED
      BY <3>1, <3>2
  <2> DEFINE B == Behind({}, m, Up(r, m))
             C == Behind({}, d, m)
  <2>4. C \subseteq B \ {m} /\ m \in B
    <3>1. B = {m} \cup UNION {Behind({}, k, m) : k \in Nbrs(m) \ {Up(r, m)}}
      <4>1. {m, Up(r, m)} \notin {}
        OBVIOUS
      <4> QED
        BY <2>1, <4>1, BehindEquation
    <3>2. m \notin C
      BY <2>1, <2>2, <2>3, BehindNotBack, NbrsSymmetric
    <3> QED
      BY <2>2, <3>1, <3>2
  <2>5. IsFiniteSet(B) /\ Cardinality(B) \in Nat
    BY <1>4, <2>1
  <2> HIDE DEF B, C
  <2>6. IsFiniteSet(B \ {m}) /\ Cardinality(B \ {m}) = Cardinality(B) - 1
    BY <2>4, <2>5, FS_RemoveElement
  <2>7. Cardinality(C) <= Cardinality(B) - 1 /\ Cardinality(C) \in Nat
    BY <2>4, <2>6, FS_Subset, FS_CardinalityType
  <2>8. Cardinality(C) < Cardinality(B)
    BY <2>5, <2>7
  <2>9. Size(d) < Size(m)
    BY <2>3, <2>8 DEF B, C
  <2> QED
    BY <2>2, <2>3, <2>9
<1>6. U = {}
  <2> SUFFICES ASSUME U # {} PROVE FALSE
    OBVIOUS
  <2> DEFINE T == {Size(m) : m \in U}
  <2>1. T \in SUBSET Nat /\ T # {}
    BY <1>4
  <2>2. PICK k \in T : \A e \in T : k <= e
    <3> HIDE DEF T
    <3> QED
      BY <2>1, LeastNat
  <2>3. PICK m \in U : k = Size(m)
    OBVIOUS
  <2>4. PICK d \in U : Size(d) < Size(m)
    BY <1>5
  <2>5. Size(d) \in T
    OBVIOUS
  <2> HIDE DEF T
  <2>6. k \in Nat /\ Size(d) \in Nat /\ k <= Size(d)
    BY <2>1, <2>2, <2>5
  <2> HIDE DEF Size
  <2> QED
    BY <2>3, <2>4, <2>6
<1>7. Range(s) = Clq \ {r}
  BY <1>1, <1>6
<1>8. Len(s) = NumberOfClqs - 1
  <2>1. s \in Surjection(1 .. Len(s), Clq \ {r})
    BY <1>1, <1>7 DEF Surjection
  <2>2. Cardinality(Clq \ {r}) <= Cardinality(1 .. Len(s))
    BY <1>2, <2>1, FS_Surjection
  <2>3. Cardinality(Clq \ {r}) = NumberOfClqs - 1
    BY FiniteCliques
  <2> QED
    BY <1>0, <1>1, <1>2, <1>3, <2>2, <2>3
<1> QED
  BY <1>7, <1>8

\* Whatever the cliques are, the queue of looked at cliques is well formed.
LEMMA LookAtType ==
  ASSUME NEW r \in Clq, NEW s \in Seq(Nat), NEW n \in Nat \ {0}
  PROVE  LookAt(r, s, n) \in Seq(Nat)
<1> DEFINE F == Follow(s[n], r, Range(s))
<1>1. CASE n > Len(s) \/ F = {}
  BY <1>1 DEF LookAt
<1>2. CASE n <= Len(s) /\ F # {}
  <2>1. F \in SUBSET Nat
    <3>1. NumberOfClqs \in Nat
      BY JunctionTreeAssumption DEF JunctionTreeAssumption
    <3> QED
      BY <3>1 DEF Follow, Nbrs, Clq
  <2>2. Min(F) \in Nat
    <3> HIDE DEF F
    <3> QED
      BY <1>2, <2>1, MinNat
  <2>3. Len(s) \in Nat
    BY LenProperties
  <2>4. LookAt(r, s, n) = Append(s, Min(F))
    BY <1>2, <2>3 DEF LookAt
  <2> HIDE DEF F
  <2> QED
    BY <2>2, <2>4, AppendProperties
<1> QED
  BY <1>1, <1>2, LenProperties

\* The loop over the queue lists every clique but the root, upwards.
LEMMA CheckedUpwards ==
  ASSUME NEW r \in Clq
  PROVE  \E s : /\ RebuildTreeFromRoot(r) = Append(s, r)
                /\ IsUpwards(s, r) /\ IsPending(s, r, NumberOfClqs)
<1> DEFINE F(f, n) == IF n = 0 THEN Leaves(r) ELSE LookAt(r, f[n - 1], n)
           IsLoop(f) == f = [n \in 0 .. NumberOfClqs |-> F(f, n)]
           l == CHOOSE f : IsLoop(f)
<1>0. NumberOfClqs \in Nat
  BY JunctionTreeAssumption DEF JunctionTreeAssumption
<1>1. RebuildTreeFromRoot(r) = Append(l[NumberOfClqs], r)
  BY DEF RebuildTreeFromRoot
<1>2. \E f : IsLoop(f)
  <2> DEFINE step == [p \in Seq(Nat) \X Nat |-> IF p[2] = 0 THEN p[1] ELSE LookAt(r, p[1], p[2])]
             start == Leaves(r)
             N0 == Seq(Nat)
  <2>1. step \in [Seq(Nat) \X Nat -> Seq(Nat)]
    <3> SUFFICES ASSUME NEW s \in Seq(Nat), NEW n \in Nat, n # 0
                 PROVE  LookAt(r, s, n) \in Seq(Nat)
      OBVIOUS
    <3> QED
      BY LookAtType
  <2>2. start \in N0
    <3>1. start \in Seq({c \in Clq : IsLeaf(c, r)})
      BY LeavesListed DEF IsListOf
    <3>2. {c \in Clq : IsLeaf(c, r)} \subseteq Nat
      BY <1>0 DEF Clq
    <3> HIDE DEF start
    <3> QED
      BY <3>1, <3>2, SeqMonotonic
  <2>3. PICK f : Follows(f, NumberOfClqs, N0, start, step)
    <3> HIDE DEF step, start, N0
    <3>1. step \in [N0 \X Nat -> N0]
      BY <2>1 DEF N0
    <3> QED
      BY <1>0, <2>2, <3>1, Recursion
  <2>4. ASSUME NEW n \in 0 .. NumberOfClqs PROVE f[n] = F(f, n)
    <3>1. CASE n = 0
      BY <2>3, <3>1 DEF Follows
    <3>2. CASE n # 0
      <4>1. n \in 1 .. NumberOfClqs /\ n \in Nat /\ f[n - 1] \in Seq(Nat)
        BY <1>0, <2>3, <3>2 DEF Follows
      <4>2. step[<<f[n - 1], n>>] = LookAt(r, f[n - 1], n)
        BY <3>2, <4>1
      <4> QED
        BY <2>3, <3>2, <4>1, <4>2 DEF Follows
    <3> QED
      BY <3>1, <3>2
  <2>5. IsLoop(f)
    <3>1. f \in [0 .. NumberOfClqs -> N0]
      BY <2>3 DEF Follows
    <3> HIDE DEF F, N0
    <3> QED
      BY <2>4, <3>1
  <2> HIDE DEF F, IsLoop
  <2> QED
    BY <2>5
<1>3. IsLoop(l)
  <2> HIDE DEF IsLoop
  <2> QED
    BY <1>2
<1>4. \A n \in 0 .. NumberOfClqs : l[n] = F(l, n)
  <2> HIDE DEF l, F
  <2> QED
    BY <1>3
<1> HIDE DEF l, IsLoop
<1> DEFINE T == {n \in 0 .. NumberOfClqs : IsUpwards(l[n], r) /\ IsPending(l[n], r, n)}
<1>5. 0 \in T
  <2>1. 0 \in 0 .. NumberOfClqs /\ l[0] = Leaves(r)
    BY <1>0, <1>4
  <2>2. IsUpwards(l[0], r)
    BY <2>1, LeavesUpwards
  <2>3. IsPending(l[0], r, 0)
    <3> SUFFICES ASSUME NEW m \in Clq \ {r}, m \notin Range(l[0]),
                        Nbrs(m) \ {Up(r, m)} \subseteq Range(l[0])
                 PROVE  \E k \in 0 + 1 .. Len(l[0]) : l[0][k] \in Nbrs(m)
      BY DEF IsPending
    <3>1. PICK d \in Nbrs(m) : d # Up(r, m)
      BY <2>1, LeavesUpwards
    <3>2. d \in Range(l[0])
      BY <3>1
    <3>3. Range(l[0]) = {l[0][k] : k \in 1 .. Len(l[0])}
      BY <2>2, RangeEquality DEF IsUpwards
    <3> QED
      BY <3>1, <3>2, <3>3
  <2> QED
    BY <2>1, <2>2, <2>3
<1>6. ASSUME NEW n \in 0 .. NumberOfClqs, n \in T, n # NumberOfClqs PROVE n + 1 \in T
  <2>1. n + 1 \in 0 .. NumberOfClqs /\ n + 1 \in Nat \ {0} /\ (n + 1) - 1 = n
    BY <1>0, <1>6
  <2>2. l[n + 1] = LookAt(r, l[n], n + 1)
    BY <1>4, <2>1
  <2>3. IsUpwards(l[n], r) /\ IsPending(l[n], r, n)
    BY <1>6
  <2>4. IsUpwards(l[n + 1], r) /\ IsPending(l[n + 1], r, n + 1)
    BY <2>1, <2>2, <2>3, LookAtUpwards
  <2> QED
    BY <2>1, <2>4
<1>7. NumberOfClqs \in T
  <2>1. NumberOfClqs \in 0 .. NumberOfClqs
    BY <1>0
  <2> HIDE DEF T
  <2> QED
    BY <1>0, <1>5, <1>6, <2>1, UpTo
<1> QED
  BY <1>1, <1>7

\* The place of every clique in the collect sequence is after its neighbours below
\* it and before the one on its way to the root.
IsCollectSequence(s, r) ==
  /\ s \in Seq(Clq) /\ Len(s) = NumberOfClqs /\ s[NumberOfClqs] = r
  /\ \A j, k \in 1 .. NumberOfClqs : s[j] = s[k] => j = k
  /\ \A c \in Clq : \E k \in 1 .. NumberOfClqs : s[k] = c
  /\ \A k \in 1 .. NumberOfClqs : \A d \in Nbrs(s[k]) :
       (\E j \in 1 .. k - 1 : s[j] = d) <=> s[k] = r \/ d # Up(r, s[k])

\* RebuildTreeFromRoot lists every clique once, for every tree and every root: no
\* message of CollectEvidence is forgotten, sent twice or sent too early.
THEOREM CollectSequenceOrder ==
  ASSUME NEW r \in Clq
  PROVE  IsCollectSequence(RebuildTreeFromRoot(r), r)
<1>0. NumberOfClqs \in Nat \ {0}
  BY JunctionTreeAssumption DEF JunctionTreeAssumption
<1>1. PICK s : /\ RebuildTreeFromRoot(r) = Append(s, r)
               /\ IsUpwards(s, r) /\ IsPending(s, r, NumberOfClqs)
  BY CheckedUpwards
<1> DEFINE t == Append(s, r)
<1>2. /\ Range(s) = Clq \ {r} /\ Len(s) = NumberOfClqs - 1
      /\ Range(s) = {s[k] : k \in 1 .. Len(s)}
  <2>1. Range(s) = Clq \ {r} /\ Len(s) = NumberOfClqs - 1
    BY <1>1, UpwardsComplete
  <2>2. s \in Seq(Clq \ {r})
    BY <1>1 DEF IsUpwards
  <2> QED
    BY <2>1, <2>2, RangeEquality
<1>3. /\ t \in Seq(Clq) /\ Len(t) = NumberOfClqs /\ t[NumberOfClqs] = r
      /\ \A k \in 1 .. NumberOfClqs - 1 : t[k] = s[k] /\ s[k] \in Clq \ {r}
  <2>1. s \in Seq(Clq)
    <3>1. Clq \ {r} \subseteq Clq
      OBVIOUS
    <3> QED
      BY <1>1, <3>1, SeqMonotonic DEF IsUpwards
  <2>2. t \in Seq(Clq) /\ Len(t) = Len(s) + 1 /\ t[Len(s) + 1] = r
        /\ \A k \in 1 .. Len(s) : t[k] = s[k]
    BY <2>1, AppendProperties
  <2>3. Len(s) + 1 = NumberOfClqs /\ 1 .. Len(s) = 1 .. NumberOfClqs - 1
    BY <1>0, <1>2
  <2> QED
    BY <1>2, <2>2, <2>3
<1> HIDE DEF t
<1>4. ASSUME NEW j \in 1 .. NumberOfClqs, NEW k \in 1 .. NumberOfClqs, t[j] = t[k] PROVE j = k
  <2>1. CASE j \in 1 .. NumberOfClqs - 1 /\ k \in 1 .. NumberOfClqs - 1
    BY <1>1, <1>2, <1>3, <1>4, <2>1 DEF IsUpwards
  <2>2. CASE j = NumberOfClqs
    BY <1>0, <1>3, <1>4, <2>2
  <2>3. CASE k = NumberOfClqs
    BY <1>0, <1>3, <1>4, <2>3
  <2> QED
    BY <1>0, <2>1, <2>2, <2>3
<1>5. ASSUME NEW c \in Clq PROVE \E k \in 1 .. NumberOfClqs : t[k] = c
  <2>1. CASE c = r
    BY <1>0, <1>3, <2>1
  <2>2. CASE c # r
    <3>1. PICK k \in 1 .. NumberOfClqs - 1 : s[k] = c
      BY <1>2, <2>2
    <3> QED
      BY <1>0, <1>3, <3>1
  <2> QED
    BY <2>1, <2>2
<1>6. ASSUME NEW k \in 1 .. NumberOfClqs, NEW d \in Nbrs(t[k])
      PROVE  (\E j \in 1 .. k - 1 : t[j] = d) <=> t[k] = r \/ d # Up(r, t[k])
  <2>0. \A j \in 1 .. k - 1 : t[j] = s[j]
    BY <1>0, <1>3
  <2>1. CASE k \in 1 .. NumberOfClqs - 1
    <3>1. t[k] = s[k] /\ t[k] # r /\ k \in 1 .. Len(s) /\ d \in Nbrs(s[k])
      BY <1>2, <1>3, <1>6, <2>1
    <3>2. d # Up(r, s[k]) <=> \E j \in 1 .. k - 1 : s[j] = d
      BY <1>1, <3>1 DEF IsUpwards
    <3> QED
      BY <2>0, <3>1, <3>2
  <2>2. CASE k = NumberOfClqs
    <3>1. t[k] = r
      BY <1>3, <2>2
    <3>2. d \in Clq \ {r}
      BY <1>6, <3>1, NbrsSymmetric
    <3>3. PICK j \in 1 .. k - 1 : s[j] = d
      BY <1>2, <2>2, <3>2
    <3> QED
      BY <2>0, <3>1, <3>3
  <2> QED
    BY <1>0, <2>1, <2>2
<1>7. IsCollectSequence(t, r)
  BY <1>3, <1>4, <1>5, <1>6 DEF IsCollectSequence
<1> QED
  BY <1>1, <1>7 DEF t

\* SetNbrsTypes finds the parent of every clique: its one neighbour on the way to
\* the root, and none for the root.
THEOREM NbrsTypesPointUp ==
  ASSUME NEW r \in Clq
  PROVE  NbrsTypes(RebuildTreeFromRoot(r)) = [c \in Clq |-> IF c = r THEN NoClq ELSE Up(r, c)]
<1> DEFINE s == RebuildTreeFromRoot(r)
           Place(c) == CHOOSE n \in DOMAIN s : s[n] = c
           Later(c) == {d \in Nbrs(c) : Place(c) < Place(d)}
<1>0. NumberOfClqs \in Nat
  BY JunctionTreeAssumption DEF JunctionTreeAssumption
<1>1. NbrsTypes(s) = [c \in Clq |-> IF Later(c) = {} THEN NoClq ELSE Min(Later(c))]
  BY DEF NbrsTypes
<1>2. IsCollectSequence(s, r)
  BY CollectSequenceOrder
<1> HIDE DEF s
<1>3. DOMAIN s = 1 .. NumberOfClqs /\ \A k \in 1 .. NumberOfClqs : s[k] \in Clq
  BY <1>2, LenProperties DEF IsCollectSequence
<1>4. ASSUME NEW c \in Clq PROVE Place(c) \in 1 .. NumberOfClqs /\ s[Place(c)] = c
  BY <1>2, <1>3 DEF IsCollectSequence
<1>5. ASSUME NEW k \in 1 .. NumberOfClqs PROVE Place(s[k]) = k
  BY <1>2, <1>3, <1>4 DEF IsCollectSequence
<1> HIDE DEF Place
<1>6. ASSUME NEW c \in Clq, NEW d \in Nbrs(c)
      PROVE  Place(c) < Place(d) <=> c # r /\ d = Up(r, c)
  <2>1. d \in Clq /\ d # c /\ d \in Nbrs(s[Place(c)]) /\ Place(c) \in 1 .. NumberOfClqs
        /\ Place(d) \in 1 .. NumberOfClqs
    BY <1>4, NbrsSymmetric
  <2>2. (\E j \in 1 .. Place(c) - 1 : s[j] = d) <=> c = r \/ d # Up(r, c)
    BY <1>2, <1>4, <2>1 DEF IsCollectSequence
  <2>3. (\E j \in 1 .. Place(c) - 1 : s[j] = d) => Place(d) < Place(c)
    <3> SUFFICES ASSUME NEW j \in 1 .. Place(c) - 1, s[j] = d PROVE Place(d) < Place(c)
      OBVIOUS
    <3>1. j \in 1 .. NumberOfClqs
      BY <1>0, <2>1
    <3>2. Place(d) = j
      BY <1>5, <3>1
    <3> QED
      BY <2>1, <3>2
  <2>4. Place(d) < Place(c) => \E j \in 1 .. Place(c) - 1 : s[j] = d
    BY <1>4, <2>1
  <2>5. Place(c) # Place(d)
    BY <1>4, <2>1
  <2> QED
    BY <2>1, <2>2, <2>3, <2>4, <2>5
<1>7. ASSUME NEW c \in Clq
      PROVE  (IF Later(c) = {} THEN NoClq ELSE Min(Later(c))) = IF c = r THEN NoClq ELSE Up(r, c)
  <2>1. CASE c = r
    <3>1. Later(c) = {}
      BY <1>6, <2>1
    <3> QED
      BY <2>1, <3>1
  <2>2. CASE c # r
    <3>1. Up(r, c) \in Nbrs(c)
      BY <2>2, UpFacts
    <3>2. Later(c) = {Up(r, c)}
      BY <1>6, <2>2, <3>1
    <3>3. Up(r, c) \in Nat
      <4>1. Up(r, c) \in Clq
        BY <3>1, NbrsSymmetric
      <4> QED
        BY <1>0, <4>1 DEF Clq
    <3>4. Later(c) \in SUBSET Nat /\ Later(c) # {}
      BY <3>2, <3>3
    <3>5. Min(Later(c)) \in Later(c)
      <4> HIDE DEF Later
      <4> QED
        BY <3>4, MinNat
    <3> QED
      BY <2>2, <3>2, <3>4, <3>5
  <2> QED
    BY <2>1, <2>2
<1> HIDE DEF Later
<1> QED
  BY <1>1, <1>7 DEF s

-------------------------------------------------------------------------------
(***************************************************************************)
(* The messages of the two phases, for any engine.                         *)
(***************************************************************************)
UpArcs(r, C) == {<<c, Up(r, c)>> : c \in C \ {r}}
DownArcs(r, C) == {<<Up(r, c), c>> : c \in C \ {r}}

\* Up and down, that is every arc.
LEMMA AllArcs ==
  ASSUME NEW r \in Clq
  PROVE  UpArcs(r, Clq) \cup DownArcs(r, Clq) = Arc
<1>1. ASSUME NEW c \in Clq \ {r}
      PROVE  <<c, Up(r, c)>> \in Arc /\ <<Up(r, c), c>> \in Arc
  BY UpFacts, NbrsSymmetric
<1>2. ASSUME NEW x \in Clq, NEW y \in Clq, <<x, y>> \in Arc
      PROVE  <<x, y>> \in UpArcs(r, Clq) \cup DownArcs(r, Clq)
  <2>1. y \in Nbrs(x)
    BY <1>2 DEF Arc, Nbrs
  <2> QED
    BY <2>1, UpOrDown DEF UpArcs, DownArcs
<1>3. UpArcs(r, Clq) \cup DownArcs(r, Clq) \subseteq Arc
  BY <1>1 DEF UpArcs, DownArcs
<1>4. \A a \in Arc : \E x, y \in Clq : a = <<x, y>>
  BY DEF Arc
<1> QED
  BY <1>2, <1>3, <1>4

\* the first k cliques of the collect sequence s
Visited(s, k) == {s[n] : n \in 1 .. k}

\* what is left of it then
Ahead(s, k) == SubSeq(s, k + 1, NumberOfClqs)

\* The clique in front of what is left of the collect sequence: those of its neighbours
\* have been there that are not above it.
LEMMA CollectPlace ==
  ASSUME NEW r \in Clq, NEW s, NEW k \in 0 .. NumberOfClqs, NEW i,
         IsCollectSequence(s, r), Ahead(s, k) # <<>>, i = s[k + 1]
  PROVE  /\ k + 1 \in 0 .. NumberOfClqs
         /\ Head(Ahead(s, k)) = i /\ Tail(Ahead(s, k)) = Ahead(s, k + 1)
         /\ i \in Clq \ Visited(s, k) /\ Visited(s, k) \subseteq Clq
         /\ Visited(s, k + 1) = Visited(s, k) \cup {i}
         /\ \A d \in Nbrs(i) : d \in Visited(s, k) <=> i = r \/ d # Up(r, i)
<1> DEFINE N == NumberOfClqs
           rest == Ahead(s, k)
           sent == Visited(s, k)
<1>1. N \in Nat \ {0}
  BY JunctionTreeAssumption DEF JunctionTreeAssumption
<1>2. k + 1 \in 1 .. N
  <2>1. N < k + 1 => rest = <<>>
    BY <1>1, SubSeqEmpty DEF Ahead
  <2> QED
    BY <1>1, <2>1
<1>3. s \in Seq(Clq) /\ Len(s) = N /\ i \in Clq
  <2>1. s \in Seq(Clq) /\ Len(s) = N
    BY DEF IsCollectSequence
  <2> QED
    BY <1>2, <2>1, ElementOfSeq
<1>4. Head(rest) = i /\ Tail(rest) = Ahead(s, k + 1)
  <2>1. N \in k + 1 .. Len(s) /\ k + 1 \in 1 .. Len(s)
    BY <1>1, <1>2, <1>3
  <2> QED
    BY <1>3, <2>1, HeadTailOfSubSeq DEF Ahead
<1>5. i \notin sent /\ sent \subseteq Clq
  <2>1. \A n \in 1 .. k : n \in 1 .. N /\ n # k + 1 /\ s[n] \in Clq
    BY <1>1, <1>2, <1>3, ElementOfSeq
  <2> QED
    BY <1>2, <2>1 DEF IsCollectSequence, Visited
<1>6. Visited(s, k + 1) = sent \cup {i}
  <2>1. 1 .. k + 1 = (1 .. k) \cup {k + 1}
    BY <1>1
  <2> QED
    BY <2>1 DEF Visited
<1>7. ASSUME NEW d \in Nbrs(i) PROVE d \in sent <=> i = r \/ d # Up(r, i)
  <2>1. (\E n \in 1 .. (k + 1) - 1 : s[n] = d) <=> i = r \/ d # Up(r, i)
    BY <1>2 DEF IsCollectSequence
  <2>2. (k + 1) - 1 = k
    BY <1>1
  <2> QED
    BY <2>1, <2>2 DEF Visited
<1>8. k + 1 \in 0 .. N
  BY <1>2
<1> QED
  BY <1>3, <1>4, <1>5, <1>6, <1>7, <1>8

\* Such a clique has one neighbour to send to, and all the others have sent to it.
LEMMA CollectTarget ==
  ASSUME NEW r \in Clq, NEW i \in Clq \ {r}, NEW sent \in SUBSET Clq,
         \A d \in Nbrs(i) : d \in sent <=> d # Up(r, i)
  PROVE  /\ Up(r, i) \in Nbrs(i) /\ Up(r, i) \in Clq
         /\ Nbrs(i) \ sent = {Up(r, i)}
         /\ Min(Nbrs(i) \ sent) = Up(r, i)
         /\ <<Up(r, i), i>> \notin UpArcs(r, sent)
         /\ \A d \in Nbrs(i) \ {Up(r, i)} : <<d, i>> \in UpArcs(r, sent)
<1> DEFINE j == Up(r, i)
<1>1. NumberOfClqs \in Nat
  BY JunctionTreeAssumption DEF JunctionTreeAssumption
<1>2. j \in Nbrs(i) /\ j \in Clq
  <2>1. Up(r, i) \in Nbrs(i)
    BY UpFacts
  <2> QED
    BY <2>1, NbrsSymmetric
<1>3. Nbrs(i) \ sent = {j}
  BY <1>2
<1>4. Min({j}) = j
  <2> DEFINE S == {j}
  <2>1. S \in SUBSET Nat /\ S # {}
    BY <1>1, <1>2 DEF Clq
  <2> HIDE DEF S
  <2>2. Min(S) \in S
    BY <2>1, MinNat
  <2> QED
    BY <2>2 DEF S
<1>5. <<j, i>> \notin UpArcs(r, sent)
  <2>1. ~ (j # r /\ Up(r, j) = i)
    BY <1>2, UpOrDown
  <2> QED
    BY <2>1 DEF UpArcs
<1>6. ASSUME NEW d \in Nbrs(i) \ {j} PROVE <<d, i>> \in UpArcs(r, sent)
  <2>1. d \in sent
    BY <1>6
  <2>2. d # r /\ Up(r, d) = i
    BY <1>6, UpOrDown
  <2> QED
    BY <2>1, <2>2 DEF UpArcs
<1> QED
  BY <1>2, <1>3, <1>4, <1>5, <1>6

\* When nothing of the collect sequence is left every clique has been there.
LEMMA CollectDone ==
  ASSUME NEW r \in Clq, NEW s, NEW k \in 0 .. NumberOfClqs,
         IsCollectSequence(s, r), Ahead(s, k) = <<>>
  PROVE  Visited(s, k) = Clq
<1>1. NumberOfClqs \in Nat \ {0}
  BY JunctionTreeAssumption DEF JunctionTreeAssumption
<1>2. \A n \in 1 .. NumberOfClqs : s[n] \in Clq
  BY ElementOfSeq DEF IsCollectSequence
<1>3. k + 1 > NumberOfClqs
  <2>1. \A n \in k + 1 .. NumberOfClqs : s[n] \in Clq
    BY <1>1, <1>2
  <2>2. Len(SubSeq(s, k + 1, NumberOfClqs)) = 0
    BY EmptySeq DEF Ahead
  <2> QED
    BY <1>1, <2>1, <2>2, SubSeqProperties
<1>4. k = NumberOfClqs
  BY <1>1, <1>3
<1>5. \A c \in Clq : \E n \in 1 .. NumberOfClqs : s[n] = c
  BY DEF IsCollectSequence
<1> QED
  BY <1>2, <1>4, <1>5 DEF Visited

\* Dividing by a unit function and multiplying with it change nothing.
LEMMA UnitNeutral ==
  ASSUME NEW p \in Potential
  PROVE  Over(p, Unit) = p /\ Times(p, Unit) = p /\ Unit \in Potential
  BY DEF Over, Times, Unit, Potential

===============================================================================
