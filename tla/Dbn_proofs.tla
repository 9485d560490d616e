------------------------------- MODULE Dbn_proofs -------------------------------
(***************************************************************************)
(* Proofs about module Dbn: for every number of slices and every lag the   *)
(* trees that a query takes for a slice of the procedure have the          *)
(* distributions and the evidence of every slice that bears on it once,    *)
(* and the evidence of their own slice.                                    *)
(***************************************************************************)
EXTENDS Dbn, TLAPS, SequenceTheorems

-------------------------------------------------------------------------------
(***************************************************************************)
(* Remainders, and rings.                                                  *)
(***************************************************************************)
LEMMA Division ==
  ASSUME NEW n \in Nat \ {0}, NEW x \in Int
  PROVE  x % n \in 0 .. n - 1 /\ x \div n \in Int /\ x = n * (x \div n) + (x % n)
<1>1. x \div n \in Int
  OBVIOUS
<1>2. x = n * (x \div n) + (x % n)
  OBVIOUS
<1>3. x % n \in 0 .. n - 1
  OBVIOUS
<1> QED
  BY <1>1, <1>2, <1>3

LEMMA Remainder ==
  ASSUME NEW n \in Nat \ {0}, NEW x \in Int, NEW r \in 0 .. n - 1, NEW p \in Int, x = n * p + r
  PROVE  x % n = r
  OBVIOUS

\* Zero is the only small multiple of a number.
LEMMA SmallMultiple ==
  ASSUME NEW n \in Nat \ {0}, NEW d \in Int, -n < n * d, n * d < n
  PROVE  d = 0
<1>1. CASE d >= 1
  <2>1. n * d >= n * 1
    BY <1>1
  <2> QED
    BY <2>1
<1>2. CASE d <= -1
  <2>1. n * d <= n * (-1)
    BY <1>2
  <2> QED
    BY <2>1
<1> QED
  BY <1>1, <1>2

\* Numbers that are less than n apart have different remainders.
LEMMA ModUnique ==
  ASSUME NEW n \in Nat \ {0}, NEW x \in Int, NEW y \in Int, x <= y, y < x + n, x % n = y % n
  PROVE  x = y
<1>1. PICK p \in Int : x = n * p + (x % n)
  BY Division
<1>2. PICK q \in Int : y = n * q + (y % n)
  BY Division
<1>3. x % n \in Int /\ y % n \in Int /\ n * p \in Int /\ n * q \in Int
  BY Division
<1>4. n * (q - p) = n * q - n * p
  BY <1>3
<1>5. n * (q - p) = y - x
  BY <1>1, <1>2, <1>3, <1>4
<1>6. q - p = 0
  BY <1>5, SmallMultiple
<1> QED
  BY <1>5, <1>6

\* An iterator may be moved before or after the remainder is taken.
LEMMA ModStep ==
  ASSUME NEW n \in Nat \ {0}, NEW x \in Int, NEW d \in Int
  PROVE  ((x % n) + d) % n = (x + d) % n
<1>1. PICK p \in Int : x = n * p + (x % n)
  BY Division
<1>2. x % n \in Int
  BY Division
<1> DEFINE y == (x % n) + d
<1>3. y \in Int
  BY <1>2
<1> HIDE DEF y
<1>4. PICK q \in Int : y = n * q + (y % n)
  BY <1>3, Division
<1>5. y % n \in 0 .. n - 1
  BY <1>3, Division
<1>6. n * (p + q) = n * p + n * q /\ p + q \in Int /\ n * p \in Int /\ n * q \in Int
  OBVIOUS
<1>7. x + d = n * (p + q) + (y % n)
  <2>1. y = (x % n) + d
    BY DEF y
  <2> QED
    BY <1>1, <1>2, <1>3, <1>4, <1>5, <1>6, <2>1
<1> DEFINE r == y % n
           k == p + q
           z == x + d
<1>8. r \in 0 .. n - 1 /\ k \in Int /\ z \in Int /\ z = n * k + r
  BY <1>5, <1>6, <1>7
<1>9. z % n = r
  <2> HIDE DEF r, k, z
  <2> QED
    BY <1>8, Remainder
<1> QED
  BY <1>9 DEF y

\* The ring of n slots has x for the slice s.
Holds(ring, n, s, x) == ring[(s % n) + 1] = x

\* Where an iterator stands that has been moved along with the current time, and
\* what is found there
Stands(i, n, t) == i = (t - 1) % n

Finds(ring, n, i, t) ==
  /\ Slot(ring, i) = ((t - 1) % n) + 1
  /\ Slot(ring, i + 1) = (t % n) + 1 /\ (i + 1) % n = t % n
  /\ Slot(ring, i - 1) = ((t - 2) % n) + 1 /\ (i - 1) % n = (t - 2) % n
  /\ \A y : Holds(ring, n, t - 1, y) => At(ring, i) = y
  /\ \A y : Holds(ring, n, t - 2, y) => At(ring, i - 1) = y

LEMMA IteratorAt ==
  ASSUME NEW n \in Nat \ {0}, NEW ring, NEW t \in Int, NEW i, Len(ring) = n, Stands(i, n, t)
  PROVE  Finds(ring, n, i, t)
<1> DEFINE x == t - 1
<1>1. x \in Int /\ x + 1 = t /\ x - 1 = t - 2 /\ i = x % n
  BY DEF Stands
<1>2. t - 1 = x
  OBVIOUS
<1> HIDE DEF x
<1>3. i \in Int /\ i % n = x % n
  <2>1. i \in 0 .. n - 1
    BY <1>1, Division
  <2>2. i = n * 0 + i
    BY <2>1
  <2>3. i % n = i
    BY <2>1, <2>2, Remainder
  <2> QED
    BY <1>1, <2>1, <2>3
<1>4. (i + 1) % n = (x + 1) % n
  <2>1. 1 \in Int
    OBVIOUS
  <2>2. ((x % n) + 1) % n = (x + 1) % n
    BY <1>1, <2>1, ModStep, Zenon
  <2> QED
    BY <1>1, <2>2
<1>5. (i - 1) % n = (x - 1) % n
  <2>1. ((x % n) + (-1)) % n = (x + (-1)) % n
    <3> DEFINE d == -1
    <3>1. d \in Int
      OBVIOUS
    <3> HIDE DEF d
    <3>2. ((x % n) + d) % n = (x + d) % n
      BY <1>1, <3>1, ModStep
    <3> QED
      BY <3>2 DEF d
  <2>2. (x % n) + (-1) = i - 1 /\ x + (-1) = x - 1
    BY <1>1, <1>3
  <2> QED
    BY <2>1, <2>2
<1> QED
  BY <1>1, <1>2, <1>3, <1>4, <1>5 DEF Slot, At, Holds, Finds

\* The slot of slice i is written.
Write(ring, n, i, x) == [ring EXCEPT ![(i % n) + 1] = x]

LEMMA RingWrite ==
  ASSUME NEW n \in Nat \ {0}, NEW S, NEW ring \in Seq(S), NEW i \in Int, NEW x \in S, Len(ring) = n
  PROVE  /\ Write(ring, n, i, x) \in Seq(S) /\ Len(Write(ring, n, i, x)) = n
         /\ Holds(Write(ring, n, i, x), n, i, x)
         /\ \A s \in Int : \A y :
              (s < i /\ i < s + n) \/ (i < s /\ s < i + n) =>
                (Holds(ring, n, s, y) => Holds(Write(ring, n, i, x), n, s, y))
<1> DEFINE new == Write(ring, n, i, x)
<1>1. ASSUME NEW s \in Int PROVE (s % n) + 1 \in 1 .. n
  <2>1. s % n \in 0 .. n - 1
    BY Division
  <2> QED
    BY <2>1
<1>2. new \in Seq(S) /\ Len(new) = n
  BY <1>1 DEF Write
<1>3. \A k \in 1 .. n : new[k] = IF k = (i % n) + 1 THEN x ELSE ring[k]
  BY <1>1 DEF Write
<1>4. Holds(new, n, i, x)
  BY <1>1, <1>3 DEF Holds
<1>5. ASSUME NEW s \in Int, NEW y, (s < i /\ i < s + n) \/ (i < s /\ s < i + n),
             Holds(ring, n, s, y)
      PROVE  Holds(new, n, s, y)
  <2>2. s % n # i % n
    <3>1. CASE s < i /\ i < s + n
      <4>1. s <= i /\ i < s + n
        BY <3>1
      <4>2. s % n = i % n => s = i
        BY <4>1, ModUnique, Zenon
      <4> QED
        BY <3>1, <4>2
    <3>2. CASE i < s /\ s < i + n
      <4>1. i <= s /\ s < i + n
        BY <3>2
      <4>2. i % n = s % n => i = s
        BY <4>1, ModUnique, Zenon
      <4> QED
        BY <3>2, <4>2
    <3> QED
      BY <1>5, <3>1, <3>2
  <2>3. s % n \in Int /\ i % n \in Int
    BY <1>1
  <2>4. (s % n) + 1 # (i % n) + 1
    BY <2>2, <2>3
  <2> QED
    BY <1>1, <1>3, <1>5, <2>4 DEF Holds
<1> QED
  BY <1>2, <1>4, <1>5

-------------------------------------------------------------------------------
(***************************************************************************)
(* Powers: what a tree has when it has heard from the slices before it,    *)
(* and when it has heard from those after it, too.                         *)
(***************************************************************************)
Own(s) == [r \in Slice |-> IF r = s THEN 1 ELSE 0]

\* no interface between two slices is observed
Clear(o, a, b) == \A k \in a .. b - 1 : ~ o[k + 1]

Past(o, s) == [r \in Slice |-> IF r <= s /\ Clear(o, r, s) THEN 1 ELSE 0]

Whole(o, s, n) ==
  [r \in Slice |-> IF r <= n - 1 /\ Clear(o, r, s) /\ Clear(o, s, r) THEN 1 ELSE 0]

Power == [Slice -> Int]

LEMMA PowerType ==
  ASSUME NEW o, NEW s, NEW n
  PROVE  Past(o, s) \in Power /\ Whole(o, s, n) \in Power /\ Own(s) \in Power
  BY DEF Past, Whole, Own, Power

\* No potential is a NULL.
LEMMA NotNone ==
  ASSUME NEW s \in Slice, NEW p \in Power
  PROVE  p # None
<1>1. DOMAIN p = Slice
  BY DEF Power
<1>2. DOMAIN None = {}
  BY DEF None
<1> QED
  BY <1>1, <1>2

LEMMA PastFirst == ASSUME NEW o PROVE Past(o, 0) = Own(0)
<1> SUFFICES ASSUME NEW r \in Slice PROVE r <= 0 /\ Clear(o, r, 0) <=> r = 0
  BY DEF Past, Own
<1> QED
  BY DbnAssumption DEF DbnAssumption, Slice, Clear

\* A step forward.
LEMMA PastNext ==
  ASSUME NEW o, NEW s \in Slice, s # 0
  PROVE  Past(o, s) = IF o[s] THEN Own(s) ELSE Plus(Own(s), Past(o, s - 1))
<1>1. s \in Nat /\ s - 1 \in Nat /\ (s - 1) + 1 = s
  BY DbnAssumption DEF DbnAssumption, Slice
<1>2. ASSUME NEW r \in Slice
      PROVE  /\ r \in Nat
             /\ r <= s /\ Clear(o, r, s) <=> r = s \/ (r <= s - 1 /\ Clear(o, r, s - 1) /\ ~ o[s])
  <2>1. r \in Nat
    BY DbnAssumption DEF DbnAssumption, Slice
  <2>2. CASE r = s
    BY <1>1, <2>1, <2>2 DEF Clear
  <2>3. CASE r < s
    <3>1. r .. s - 1 = (r .. (s - 1) - 1) \cup {s - 1}
      BY <1>1, <2>1, <2>3
    <3> QED
      BY <1>1, <2>1, <2>3, <3>1 DEF Clear
  <2>4. CASE r > s
    BY <1>1, <2>1, <2>4
  <2> QED
    BY <1>1, <2>1, <2>2, <2>3, <2>4
<1>3. CASE o[s]
  BY <1>1, <1>2, <1>3 DEF Past, Own
<1>4. CASE ~ o[s]
  <2>1. ASSUME NEW r \in Slice PROVE Past(o, s)[r] = Own(s)[r] + Past(o, s - 1)[r]
    BY <1>1, <1>2, <1>4 DEF Past, Own
  <2> QED
    BY <1>4, <2>1 DEF Past, Plus
<1> QED
  BY <1>3, <1>4

\* The last slice has nothing after it.
LEMMA WholeLast ==
  ASSUME NEW o, NEW n \in Nat
  PROVE  Whole(o, n - 1, n) = Past(o, n - 1)
<1> SUFFICES ASSUME NEW r \in Slice, r <= n - 1 PROVE Clear(o, n - 1, r)
  BY DEF Whole, Past
<1> QED
  BY DbnAssumption DEF DbnAssumption, Slice, Clear

\* A step backward.
LEMMA WholeBefore ==
  ASSUME NEW o, NEW n \in Nat, NEW s \in Slice, s + 1 <= n - 1
  PROVE  Whole(o, s, n) =
           IF o[s + 1] THEN Past(o, s)
           ELSE Plus(Past(o, s), Divide(Whole(o, s + 1, n), Past(o, s)))
<1>1. s \in Nat
  BY DbnAssumption DEF DbnAssumption, Slice
<1>2. ASSUME NEW r \in Slice
      PROVE  /\ r \in Nat
             /\ r <= s => r <= n - 1 /\ Clear(o, s, r) /\ Clear(o, s + 1, r)
             /\ r <= s => (Clear(o, r, s + 1) <=> Clear(o, r, s) /\ ~ o[s + 1])
             /\ r > s => Clear(o, r, s) /\ Clear(o, r, s + 1)
             /\ r > s => (Clear(o, s, r) <=> Clear(o, s + 1, r) /\ ~ o[s + 1])
  <2>1. r \in Nat
    BY DbnAssumption DEF DbnAssumption, Slice
  <2>2. CASE r <= s
    <3>1. r .. (s + 1) - 1 = (r .. s - 1) \cup {s}
      BY <1>1, <2>1, <2>2
    <3> QED
      BY <1>1, <2>1, <2>2, <3>1 DEF Clear
  <2>3. CASE r > s
    <3>1. s .. r - 1 = {s} \cup ((s + 1) .. r - 1)
      BY <1>1, <2>1, <2>3
    <3> QED
      BY <1>1, <2>1, <2>3, <3>1 DEF Clear
  <2> QED
    BY <1>1, <2>1, <2>2, <2>3
<1>3. ASSUME NEW r \in Slice
      PROVE  Whole(o, s, n)[r] = IF o[s + 1] THEN Past(o, s)[r]
                                 ELSE Past(o, s)[r] + (Whole(o, s + 1, n)[r] - Past(o, s)[r])
  <2>1. CASE r <= s
    BY <1>1, <1>2, <2>1 DEF Whole, Past
  <2>2. CASE r > s
    BY <1>1, <1>2, <2>2 DEF Whole, Past
  <2> QED
    BY <1>1, <1>2, <2>1, <2>2
<1> QED
  BY <1>3 DEF Whole, Past, Plus, Divide

\* What evidence says of later slices has no bearing.
LEMMA SameObserved ==
  ASSUME NEW o, NEW p, NEW s \in Nat, NEW n \in Nat, s <= n, \A k \in 1 .. n : o[k] = p[k]
  PROVE  Past(o, s) = Past(p, s) /\ Whole(o, s, n + 1) = Whole(p, s, n + 1)
<1>1. ASSUME NEW a \in Nat, NEW b \in Nat, b <= n PROVE Clear(o, a, b) <=> Clear(p, a, b)
  BY <1>1 DEF Clear
<1>2. Slice \subseteq Nat
  BY DbnAssumption DEF DbnAssumption, Slice
<1>3. \A r \in Slice : Clear(o, r, s) <=> Clear(p, r, s)
  BY <1>1, <1>2
<1>4. \A r \in Slice : r <= (n + 1) - 1 => (Clear(o, s, r) <=> Clear(p, s, r))
  BY <1>1, <1>2
<1> QED
  BY <1>3, <1>4 DEF Past, Whole

-------------------------------------------------------------------------------
(***************************************************************************)
(* The inductive invariant.                                                *)
(***************************************************************************)
Places == {"Prior", "IntNdsPriorSlice", "RootNdsISlice", "Empty"}

Evidences == [slice : Int, from : Int, at : Places]

Trees == {None} \cup [evidence : Evidences, power : Power]

\* The evidence of a slice, and that of a slice that is predicted
Evid(s) ==
  [slice |-> s, from |-> s - 1,
   at |-> IF s = 0 THEN "Prior" ELSE IF s = 1 THEN "IntNdsPriorSlice" ELSE "RootNdsISlice"]

Empty(s) == [slice |-> s, from |-> -1, at |-> "Empty"]

TreeOf(e, p) == [evidence |-> e, power |-> p]

Size == IF procedure = "ptSmoothing" THEN lag ELSE lag + 1

\* How far the calls have come, for each procedure
Progress ==
  /\ procedure \in {"None", "ptFiltering", "ptFixLagSmoothing", "ptSmoothing"}
  /\ pc \in {"Idle", "Forward", "Backward", "BackwardFixLag"}
  /\ lag \in Nat /\ time \in Nat
  /\ observed \in Seq(BOOLEAN) /\ time <= Entered /\ Entered <= MaxTime
  /\ predicted \in BOOLEAN
  /\ predicted => procedure = "ptFiltering" /\ pc = "Idle" /\ Entered = time /\ time > 0
  /\ pc = "Forward" => time < Entered
  /\ procedure = "None" => pc = "Idle" /\ time = 0
  /\ procedure = "ptFiltering" =>
       lag = 0 /\ pc \in {"Idle", "Forward"} /\ Entered \in {time, time + 1}
  /\ procedure = "ptFixLagSmoothing" =>
       /\ pc # "Backward"
       /\ pc = "Idle" => \/ time = 0 /\ Entered <= lag + 1
                         \/ time >= lag + 1 /\ Entered \in {time, time + 1}
       /\ pc = "Forward" => \/ time <= lag /\ Entered = lag + 1
                            \/ time >= lag + 1 /\ Entered = time + 1
       /\ pc = "BackwardFixLag" =>
            lag > 0 /\ Entered >= lag + 1 /\ time >= Entered - lag + 1
  /\ procedure = "ptSmoothing" =>
       /\ lag >= 1 /\ Entered <= lag /\ pc # "BackwardFixLag"
       /\ pc = "Idle" => time = 0 \/ (time = 1 /\ Entered = lag)
       /\ pc = "Forward" => Entered = lag
       /\ pc = "Backward" => Entered = lag /\ time >= 2

\* The slices that the trees have heard from are those below Top.
Top ==
  IF pc \in {"Backward", "BackwardFixLag"} \/ (procedure = "ptSmoothing" /\ pc = "Idle" /\ time > 0)
  THEN Entered ELSE time

\* Whether the tree of a slice has heard from those after it
Calculated(s) ==
  \/ pc = "Backward" /\ s >= time - 1
  \/ pc = "BackwardFixLag" /\ s = time - 1
  \/ pc = "Idle" /\ procedure = "ptSmoothing"
  \/ pc = "Idle" /\ procedure = "ptFixLagSmoothing" /\ s = time - lag - 1

\* The slices whose trees are in the ring; a step forward overwrites the first one.
Kept == {s \in 0 .. Top - 1 : s > Top - Size \/ (s = Top - Size /\ pc # "Forward")}

TreeAt(s) ==
  TreeOf(IF predicted THEN Empty(s) ELSE Evid(s),
         IF Calculated(s) THEN Whole(observed, s, Top) ELSE Past(observed, s))

TreesOK ==
  procedure # "None" =>
    /\ jt \in Seq(Trees) /\ Len(jt) = Size
    /\ \A s \in Kept : Holds(jt, Size, s, TreeAt(s))

\* The potential on the interface after a slice
Interface(o, s) == IF o[s + 1] THEN None ELSE Past(o, s)

SepsOK ==
  procedure # "None" =>
    /\ sep \in Seq({None} \cup Power) /\ Len(sep) = lag + 1
    /\ \A s \in 0 .. Top - 1 : s >= Top - (lag + 1) => Holds(sep, lag + 1, s, Interface(observed, s))

IteratorsOK ==
  IF time = 0 THEN jtIter = 0 /\ sepIter = 0
  ELSE jtIter = (time - 1) % Size /\ sepIter = (time - 1) % (lag + 1)

EvidencesOK ==
  procedure # "None" /\ ~ predicted =>
    /\ ev \in Seq(Evidences) /\ Len(ev) = IF Entered <= Size THEN Entered ELSE Size
    /\ \A s \in 0 .. Entered - 1 : s >= Entered - Size => Holds(ev, Size, s, Evid(s))

\* What BackwardFixLag puts back
CopiesOK ==
  pc = "BackwardFixLag" =>
    /\ copy = TreeOf(Evid(time - 1), Past(observed, time - 1))
    /\ saved = <<Entered, (Entered - 1) % (lag + 1), (Entered - 1) % (lag + 1)>>

IInv == Progress /\ TreesOK /\ SepsOK /\ IteratorsOK /\ EvidencesOK /\ CopiesOK

LEMMA SliceNat == Slice \subseteq Nat
  BY DbnAssumption DEF DbnAssumption, Slice

LEMMA EvidenceTypes ==
  ASSUME NEW s \in Int
  PROVE  Evid(s) \in Evidences /\ Empty(s) \in Evidences
<1>1. Evid(s) \in Evidences
  BY DEF Evid, Evidences, Places
<1>2. Empty(s) \in Evidences
  BY DEF Empty, Evidences, Places
<1> QED
  BY <1>1, <1>2

\* Trees and their parts
LEMMA TreeTypes ==
  ASSUME NEW s \in Int, NEW p \in Power
  PROVE  TreeOf(Evid(s), p) \in Trees /\ TreeOf(Empty(s), p) \in Trees
<1>3. ASSUME NEW e \in Evidences PROVE TreeOf(e, p) \in Trees
  BY DEF TreeOf, Trees
<1> QED
  BY <1>3, EvidenceTypes

LEMMA TreeParts ==
  ASSUME NEW e, NEW p
  PROVE  TreeOf(e, p).evidence = e /\ TreeOf(e, p).power = p
  BY DEF TreeOf

\* A step forward takes the potential on the interface into the next tree.
LEMMA NextTree ==
  ASSUME NEW o, NEW s \in Slice, NEW e, e.slice = s, NEW old, NEW pot,
         pot = IF s = 0 THEN None ELSE Interface(o, s - 1)
  PROVE  Multiply(ShrinkObserved(old, e), pot) = TreeOf(e, Past(o, s))
<1> DEFINE own == ShrinkObserved(old, e)
<1>1. own = TreeOf(e, Own(s))
  BY DEF ShrinkObserved, TreeOf, Own
<1>2. CASE pot = None
  <2>1. Past(o, s) = Own(s)
    <3>1. CASE s = 0
      BY <3>1, PastFirst
    <3>2. CASE s # 0
      <4>1. s - 1 \in Slice /\ (s - 1) + 1 = s
        BY <3>2, DbnAssumption DEF DbnAssumption, Slice
      <4>2. Past(o, s - 1) # None
        BY <4>1, PowerType, NotNone
      <4>3. o[s]
        BY <1>2, <3>2, <4>1, <4>2 DEF Interface
      <4> QED
        BY <3>2, <4>3, PastNext
    <3> QED
      BY <3>1, <3>2
  <2> QED
    BY <1>1, <1>2, <2>1 DEF Multiply
<1>3. CASE pot # None
  <2>1. s # 0 /\ pot = Past(o, s - 1) /\ ~ o[s]
    <3>1. s # 0
      BY <1>3
    <3>2. (s - 1) + 1 = s
      BY SliceNat
    <3> QED
      BY <1>3, <3>1, <3>2 DEF Interface
  <2>2. Past(o, s) = Plus(Own(s), pot)
    BY <2>1, PastNext
  <2>3. Multiply(own, pot) = [own EXCEPT !.power = Plus(own.power, pot)]
    BY <1>3 DEF Multiply
  <2> QED
    BY <1>1, <2>2, <2>3 DEF TreeOf
<1> QED
  BY <1>2, <1>3

\* A step backward divides the potential out of the message.
LEMMA TreeBefore ==
  ASSUME NEW o, NEW n \in Nat, NEW s \in Slice, s + 1 <= n - 1, NEW e, NEW pot, NEW message,
         s + 1 \in Slice,
         pot = Interface(o, s),
         message = IF pot = None THEN None ELSE Divide(Whole(o, s + 1, n), pot)
  PROVE  Multiply(TreeOf(e, Past(o, s)), message) = TreeOf(e, Whole(o, s, n))
<1>1. CASE o[s + 1]
  <2>1. message = None
    BY <1>1 DEF Interface
  <2>2. Whole(o, s, n) = Past(o, s)
    BY <1>1, WholeBefore
  <2> QED
    BY <2>1, <2>2 DEF Multiply
<1>2. CASE ~ o[s + 1]
  <2>1. pot = Past(o, s) /\ pot # None
    BY <1>2, PowerType, NotNone DEF Interface
  <2>2. message = Divide(Whole(o, s + 1, n), Past(o, s))
    BY <2>1
  <2>3. message \in Power
    <3>1. Whole(o, s + 1, n) \in Power /\ Past(o, s) \in Power
      BY PowerType
    <3> QED
      BY <2>2, <3>1 DEF Power, Divide
  <2>4. message # None
    BY <2>3, NotNone
  <2>5. Whole(o, s, n) = Plus(Past(o, s), message)
    BY <1>2, <2>2, WholeBefore
  <2> DEFINE tree == TreeOf(e, Past(o, s))
  <2>6. Multiply(tree, message) = [tree EXCEPT !.power = Plus(tree.power, message)]
    BY <2>4 DEF Multiply
  <2> QED
    BY <2>5, <2>6 DEF TreeOf
<1> QED
  BY <1>1, <1>2

-------------------------------------------------------------------------------
(***************************************************************************)
(* What a step does to the rings.                                          *)
(***************************************************************************)
\* The sizes of the rings
LEMMA Sizes ==
  ASSUME Progress, procedure # "None"
  PROVE  Size \in Nat \ {0} /\ lag + 1 \in Nat \ {0} /\ Entered \in Nat /\ Top \in Nat /\ Top <= Entered
<1>1. Size \in Nat \ {0} /\ lag + 1 \in Nat \ {0}
  BY DEF Progress, Size
<1>2. Entered \in Nat
  BY DEF Progress, Entered
<1> QED
  BY <1>1, <1>2 DEF Progress, Top

\* A step forward
StepTaken(e, old, b) ==
  IF time = 0
  THEN LET tree == ShrinkObserved(old, e) IN
       /\ jt' = [jt EXCEPT ![Slot(jt, jtIter)] = tree]
       /\ sep' = [sep EXCEPT ![Slot(sep, sepIter)] = OnSep(tree, b)]
       /\ time' = 1 /\ UNCHANGED <<jtIter, sepIter>>
  ELSE LET tree == Multiply(ShrinkObserved(old, e), At(sep, sepIter)) IN
       /\ jtIter' = (jtIter + 1) % Len(jt)
       /\ sepIter' = (sepIter + 1) % Len(sep)
       /\ jt' = [jt EXCEPT ![Slot(jt, jtIter + 1)] = tree]
       /\ sep' = [sep EXCEPT ![Slot(sep, sepIter + 1)] = OnSep(tree, b)]
       /\ time' = time + 1

LEMMA StepForward ==
  ASSUME Progress, TreesOK, SepsOK, IteratorsOK, procedure # "None", time \in Slice,
         NEW e, NEW b \in BOOLEAN, NEW old, NEW o, e.slice = time,
         time > 0 => At(sep, sepIter) = Interface(o, time - 1),
         StepTaken(e, old, b)
  PROVE  /\ jt' = Write(jt, Size, time, TreeOf(e, Past(o, time)))
         /\ sep' = Write(sep, lag + 1, time, IF b THEN None ELSE Past(o, time))
         /\ time' = time + 1
         /\ jtIter' = time % Size /\ sepIter' = time % (lag + 1)
<1>1. Size \in Nat \ {0} /\ lag + 1 \in Nat \ {0} /\ time \in Nat /\ Len(jt) = Size /\ Len(sep) = lag + 1
  BY Sizes DEF Progress, TreesOK, SepsOK
<1>2. CASE time = 0
  <2>1. jtIter = 0 /\ sepIter = 0
    BY <1>2 DEF IteratorsOK
  <2>2. 0 % Size = 0 /\ 0 % (lag + 1) = 0
    <3>1. ASSUME NEW n \in Nat \ {0} PROVE 0 % n = 0
      <4>1. 0 \in 0 .. n - 1 /\ 0 = n * 0 + 0
        OBVIOUS
      <4> QED
        BY <4>1, Remainder
    <3> QED
      BY <1>1, <3>1
  <2>3. ShrinkObserved(old, e) = TreeOf(e, Past(o, 0))
    BY <1>2, PastFirst DEF ShrinkObserved, TreeOf, Own
  <2>4. OnSep(ShrinkObserved(old, e), b) = IF b THEN None ELSE Past(o, 0)
    BY <2>3, TreeParts DEF OnSep
  <2> QED
    BY <1>1, <1>2, <2>1, <2>2, <2>3, <2>4 DEF Slot, Write, StepTaken
<1>3. CASE time # 0
  <2> DEFINE n == Size
             q == lag + 1
             tree == Multiply(ShrinkObserved(old, e), At(sep, sepIter))
  <2>1. jtIter = (time - 1) % n /\ sepIter = (time - 1) % q
    BY <1>3 DEF IteratorsOK
  <2>2. tree = TreeOf(e, Past(o, time))
    <3>1. At(sep, sepIter) = Interface(o, time - 1)
      BY <1>1, <1>3
    <3> QED
      BY <1>3, <3>1, NextTree
  <2>3. OnSep(tree, b) = IF b THEN None ELSE Past(o, time)
    BY <2>2, TreeParts DEF OnSep
  <2>5. Slot(jt, jtIter + 1) = (time % n) + 1 /\ (jtIter + 1) % n = time % n
    <3> HIDE DEF n
    <3>1. n \in Nat \ {0} /\ Len(jt) = n /\ time \in Int
      BY <1>1 DEF n
    <3>2. Finds(jt, n, jtIter, time)
      BY <2>1, <3>1, IteratorAt DEF Stands
    <3> QED
      BY <3>2 DEF Finds
  <2>6. Slot(sep, sepIter + 1) = (time % q) + 1 /\ (sepIter + 1) % q = time % q
    <3> HIDE DEF q
    <3>1. q \in Nat \ {0} /\ Len(sep) = q /\ time \in Int
      BY <1>1 DEF q
    <3>2. Finds(sep, q, sepIter, time)
      BY <2>1, <3>1, IteratorAt DEF Stands
    <3> QED
      BY <3>2 DEF Finds
  <2>7. /\ jtIter' = (jtIter + 1) % n /\ sepIter' = (sepIter + 1) % q
        /\ jt' = [jt EXCEPT ![Slot(jt, jtIter + 1)] = tree]
        /\ sep' = [sep EXCEPT ![Slot(sep, sepIter + 1)] = OnSep(tree, b)]
        /\ time' = time + 1
    BY <1>1, <1>3 DEF StepTaken
  <2> HIDE DEF tree
  <2> QED
    BY <2>2, <2>3, <2>5, <2>6, <2>7 DEF Write
<1> QED
  BY <1>2, <1>3

\* A step backward
LEMMA StepBackward ==
  ASSUME Progress, TreesOK, SepsOK, IteratorsOK, pc \in {"Backward", "BackwardFixLag"}
  PROVE  /\ time - 1 \in Slice /\ time - 2 \in Slice /\ time >= 2 /\ procedure # "None" /\ ~ predicted
         /\ TreesAfterBackward =
              Write(jt, Size, time - 2, TreeOf(Evid(time - 2), Whole(observed, time - 2, Entered)))
         /\ At(jt, jtIter) = TreeOf(Evid(time - 1), Whole(observed, time - 1, Entered))
         /\ At(jt, jtIter - 1) = TreeOf(Evid(time - 2), Past(observed, time - 2))
         /\ Slot(jt, jtIter) = ((time - 1) % Size) + 1
         /\ (jtIter - 1) % Len(jt) = (time - 2) % Size
         /\ (sepIter - 1) % Len(sep) = (time - 2) % (lag + 1)
<1>1. /\ procedure \in {"ptFixLagSmoothing", "ptSmoothing"} /\ ~ predicted
      /\ time \in Nat /\ lag \in Nat /\ Entered \in Nat
  BY DEF Progress, Entered
<1>2. /\ time >= 2 /\ time <= Entered /\ Entered <= MaxTime /\ Size <= lag + 1
      /\ time - 2 >= Entered - Size /\ time - 2 >= Entered - (lag + 1)
  BY <1>1 DEF Progress, Size
<1>3. time - 1 \in Slice /\ time - 2 \in Slice
  BY <1>1, <1>2, DbnAssumption DEF DbnAssumption, Slice
<1>4. Top = Entered
  BY DEF Top
<1>5. Size \in Nat \ {0} /\ lag + 1 \in Nat \ {0} /\ Len(jt) = Size /\ Len(sep) = lag + 1
  BY <1>1, Sizes DEF TreesOK, SepsOK
<1>6. Stands(jtIter, Size, time) /\ Stands(sepIter, lag + 1, time)
  BY <1>1, <1>2 DEF IteratorsOK, Stands
<1>7. Finds(jt, Size, jtIter, time) /\ Finds(sep, lag + 1, sepIter, time)
  BY <1>1, <1>5, <1>6, IteratorAt
<1>8. /\ Holds(jt, Size, time - 1, TreeOf(Evid(time - 1), Whole(observed, time - 1, Entered)))
      /\ Holds(jt, Size, time - 2, TreeOf(Evid(time - 2), Past(observed, time - 2)))
  <2>1. Size \in Int
    BY <1>5
  <2>2. time - 1 \in Kept /\ time - 2 \in Kept
    BY <1>1, <1>2, <1>4, <2>1 DEF Kept
  <2>3. Calculated(time - 1) /\ ~ Calculated(time - 2)
    BY <1>1 DEF Calculated
  <2>4. /\ TreeAt(time - 1) = TreeOf(Evid(time - 1), Whole(observed, time - 1, Entered))
        /\ TreeAt(time - 2) = TreeOf(Evid(time - 2), Past(observed, time - 2))
    BY <1>1, <1>4, <2>3 DEF TreeAt
  <2>5. Holds(jt, Size, time - 1, TreeAt(time - 1)) /\ Holds(jt, Size, time - 2, TreeAt(time - 2))
    BY <1>1, <2>2 DEF TreesOK
  <2> QED
    BY <2>4, <2>5
<1>9. Holds(sep, lag + 1, time - 2, Interface(observed, time - 2))
  <2>1. time - 2 \in 0 .. Top - 1 /\ time - 2 >= Top - (lag + 1)
    BY <1>1, <1>2, <1>4
  <2> QED
    BY <1>1, <2>1 DEF SepsOK
<1> DEFINE last == At(jt, jtIter)
           tree == At(jt, jtIter - 1)
           pot == At(sep, sepIter - 1)
           message == IF pot = None THEN None ELSE Divide(last.power, pot)
<1>10. /\ last = TreeOf(Evid(time - 1), Whole(observed, time - 1, Entered))
       /\ tree = TreeOf(Evid(time - 2), Past(observed, time - 2))
       /\ pot = Interface(observed, time - 2)
  BY <1>7, <1>8, <1>9 DEF Finds
<1>11. (ConnectedNodes(time - 1) = "IntNdsPriorSlice") <=> (tree.evidence.at = "Prior")
  <2>1. tree.evidence = Evid(time - 2)
    BY <1>10, TreeParts
  <2>2. tree.evidence.at = "Prior" <=> time - 2 = 0
    BY <2>1 DEF Evid
  <2>3. ConnectedNodes(time - 1) = "IntNdsPriorSlice" <=> (time - 1) - 1 = 0
    BY DEF ConnectedNodes
  <2> QED
    BY <1>1, <2>2, <2>3
<1>12. Multiply(tree, message) = TreeOf(Evid(time - 2), Whole(observed, time - 2, Entered))
  <2>1. last.power = Whole(observed, time - 1, Entered)
    BY <1>10, TreeParts
  <2> DEFINE s == time - 2
  <2>2. s \in Slice /\ s + 1 = time - 1 /\ s + 1 \in Slice /\ s + 1 <= Entered - 1
    BY <1>1, <1>2, <1>3
  <2>3. message = IF pot = None THEN None ELSE Divide(Whole(observed, s + 1, Entered), pot)
    BY <2>1, <2>2
  <2>4. tree = TreeOf(Evid(s), Past(observed, s)) /\ pot = Interface(observed, s)
    BY <1>10
  <2> HIDE DEF s, message, tree, pot
  <2>5. Multiply(TreeOf(Evid(s), Past(observed, s)), message) = TreeOf(Evid(s), Whole(observed, s, Entered))
    BY <1>1, <2>2, <2>3, <2>4, TreeBefore
  <2>6. Multiply(tree, message) = TreeOf(Evid(s), Whole(observed, s, Entered))
    BY <2>4, <2>5
  <2> QED
    BY <2>6 DEF s
<1>13. TreesAfterBackward = [jt EXCEPT ![Slot(jt, jtIter - 1)] = Multiply(tree, message)]
  BY <1>11 DEF TreesAfterBackward
<1> HIDE DEF last, tree, pot, message
<1>14. TreesAfterBackward =
         Write(jt, Size, time - 2, TreeOf(Evid(time - 2), Whole(observed, time - 2, Entered)))
  BY <1>7, <1>12, <1>13 DEF Finds, Write
<1>15. /\ Slot(jt, jtIter) = ((time - 1) % Size) + 1
       /\ (jtIter - 1) % Len(jt) = (time - 2) % Size
       /\ (sepIter - 1) % Len(sep) = (time - 2) % (lag + 1)
  BY <1>5, <1>7 DEF Finds
<1> QED
  BY <1>1, <1>2, <1>3, <1>10, <1>14, <1>15 DEF last, tree

-------------------------------------------------------------------------------
(***************************************************************************)
(* Every step preserves the invariant.                                     *)
(***************************************************************************)
\* What the trees of a procedure have depends on the evidence below Top only.
LEMMA TreeTyped ==
  ASSUME NEW o, NEW s \in Int, NEW n
  PROVE  TreeOf(Evid(s), Past(o, s)) \in Trees /\ TreeOf(Evid(s), Whole(o, s, n)) \in Trees
         /\ TreeOf(Empty(s), Past(o, s)) \in Trees
  BY PowerType, TreeTypes

LEMMA InitInv == ASSUME Init PROVE IInv
<1>1. Progress
  <2>1. <<>> \in Seq(BOOLEAN) /\ Len(<<>>) = 0
    OBVIOUS
  <2>2. observed \in Seq(BOOLEAN) /\ Entered = 0
    BY <2>1 DEF Init, Entered
  <2>3. 0 <= MaxTime
    BY DbnAssumption DEF DbnAssumption
  <2>4. procedure = "None" /\ pc = "Idle" /\ lag = 0 /\ time = 0 /\ ~ predicted /\ predicted \in BOOLEAN
    BY DEF Init
  <2> QED
    BY <2>2, <2>3, <2>4 DEF Progress
<1>2. TreesOK /\ SepsOK /\ EvidencesOK /\ CopiesOK /\ IteratorsOK
  BY DEF Init, TreesOK, SepsOK, EvidencesOK, CopiesOK, IteratorsOK
<1> QED
  BY <1>1, <1>2 DEF IInv

LEMMA DefineProcedureInv ==
  ASSUME NEW type \in {"ptFiltering", "ptFixLagSmoothing", "ptSmoothing"}, NEW l \in Nat,
         IInv, DefineProcedure(type, l),
         type = "ptFiltering" => l = 0, type = "ptSmoothing" => l >= 1
  PROVE  IInv'
<1>1. /\ procedure' = type /\ lag' = l /\ time' = 0 /\ pc' = "Idle"
      /\ observed' = <<>> /\ predicted' = FALSE /\ ev' = <<>> /\ jtIter' = 0 /\ sepIter' = 0
      /\ sep' = Ring(l + 1)
  BY DEF DefineProcedure
<1>2. Entered' = 0 /\ Top' = 0
  BY <1>1 DEF Entered, Top
<1>3. Progress'
  <2>1. <<>> \in Seq(BOOLEAN)
    OBVIOUS
  <2>2. observed' \in Seq(BOOLEAN)
    BY <1>1, <2>1
  <2>3. 0 <= MaxTime
    BY DbnAssumption DEF DbnAssumption
  <2>4. (lag \in Nat /\ predicted \in BOOLEAN)'
    BY <1>1
  <2> QED
    BY <1>1, <1>2, <2>2, <2>3, <2>4 DEF Progress
<1>4. jt' = Ring(Size') /\ Size' \in Nat
  BY <1>1 DEF DefineProcedure, Size
<1>5. ASSUME NEW n \in Nat, NEW S, None \in S PROVE Ring(n) \in Seq(S) /\ Len(Ring(n)) = n
  BY <1>5 DEF Ring
<1>6. TreesOK'
  <2>1. Kept' = {}
    BY <1>2 DEF Kept
  <2>2. None \in Trees
    BY DEF Trees
  <2> QED
    BY <1>4, <1>5, <2>1, <2>2 DEF TreesOK
<1>7. SepsOK'
  <2>1. None \in {None} \cup Power /\ l + 1 \in Nat
    OBVIOUS
  <2>2. (0 .. Top - 1)' = {}
    BY <1>2
  <2> QED
    BY <1>1, <1>5, <2>1, <2>2 DEF SepsOK
<1>8. IteratorsOK' /\ CopiesOK'
  BY <1>1 DEF IteratorsOK, CopiesOK
<1>9. EvidencesOK'
  <2>1. ev' \in Seq(Evidences) /\ Len(ev') = 0
    BY <1>1
  <2>2. (0 .. Entered - 1)' = {}
    BY <1>2
  <2> QED
    BY <1>2, <1>4, <2>1, <2>2 DEF EvidencesOK
<1> QED
  BY <1>3, <1>6, <1>7, <1>8, <1>9 DEF IInv

\* The call begins with a step forward.
LEMMA StartInv == ASSUME IInv, Start PROVE IInv'
<1>1. /\ pc = "Idle" /\ pc' = "Forward" /\ procedure # "None" /\ ~ predicted
      /\ Len(ev) = Len(jt) /\ Entered > time /\ (procedure = "ptSmoothing" => time = 0)
  BY DEF Start
<1>2. UNCHANGED <<procedure, lag, time, jt, sep, ev, jtIter, sepIter, copy, saved, observed, predicted>>
  BY DEF Start, Still, iterators
<1>3. /\ Progress /\ TreesOK /\ SepsOK /\ IteratorsOK /\ EvidencesOK
      /\ Size \in Nat \ {0} /\ Entered \in Nat /\ time \in Nat /\ lag \in Nat
  BY <1>1, Sizes DEF IInv, Progress
<1>4. Size' = Size /\ Entered' = Entered
  BY <1>2 DEF Size, Entered
<1>5. Top' = time /\ Top = time
  BY <1>1, <1>2 DEF Top
<1>6. Progress'
  <2>1. Entered >= Size
    BY <1>1, <1>3 DEF TreesOK, EvidencesOK
  <2> QED
    BY <1>1, <1>2, <1>3, <1>4, <2>1 DEF Progress, Size
<1>7. TreesOK'
  <2> SUFFICES ASSUME NEW s \in Kept' PROVE Holds(jt, Size, s, TreeAt(s)')
    BY <1>1, <1>2, <1>3, <1>4 DEF TreesOK
  <2>1. s \in Kept /\ s # time - Size /\ s \in Int /\ time > 0
    BY <1>1, <1>2, <1>3, <1>4, <1>5 DEF Kept
  <2>2. ~ Calculated(s) /\ ~ Calculated(s)'
    BY <1>1, <1>2, <1>3, <2>1 DEF Calculated, Size
  <2>3. TreeAt(s)' = TreeAt(s)
    BY <1>2, <2>2 DEF TreeAt
  <2> QED
    BY <1>1, <1>3, <2>1, <2>3 DEF TreesOK
<1>8. SepsOK'
  BY <1>1, <1>2, <1>3, <1>5 DEF SepsOK
<1>9. IteratorsOK' /\ EvidencesOK' /\ CopiesOK'
  <2>1. IteratorsOK'
    BY <1>2, <1>3, <1>4 DEF IteratorsOK
  <2>2. EvidencesOK'
    BY <1>2, <1>3, <1>4 DEF EvidencesOK
  <2>3. CopiesOK'
    BY <1>1 DEF CopiesOK
  <2> QED
    BY <2>1, <2>2, <2>3
<1> QED
  BY <1>6, <1>7, <1>8, <1>9 DEF IInv

\* What evidence is entered later has no bearing on the trees.
LEMMA EvidenceLater ==
  ASSUME NEW o \in Seq(BOOLEAN), NEW b \in BOOLEAN, NEW n \in Nat, n <= Len(o)
  PROVE  /\ \A s \in 0 .. n - 1 : /\ Past(Append(o, b), s) = Past(o, s)
                                  /\ Whole(Append(o, b), s, n) = Whole(o, s, n)
                                  /\ Interface(Append(o, b), s) = Interface(o, s)
<1> SUFFICES ASSUME NEW s \in 0 .. n - 1
             PROVE  /\ Past(Append(o, b), s) = Past(o, s)
                    /\ Whole(Append(o, b), s, n) = Whole(o, s, n)
                    /\ Interface(Append(o, b), s) = Interface(o, s)
  OBVIOUS
<1> DEFINE p == Append(o, b)
           m == n - 1
<1>1. \A k \in 1 .. n : o[k] = p[k]
  BY AppendProperties
<1>2. s \in Nat /\ m \in Nat /\ s <= m /\ m + 1 = n /\ s + 1 \in 1 .. n
  OBVIOUS
<1>3. \A k \in 1 .. m : o[k] = p[k]
  BY <1>1, <1>2
<1> HIDE DEF p, m
<1>4. Past(o, s) = Past(p, s) /\ Whole(o, s, m + 1) = Whole(p, s, m + 1)
  BY <1>2, <1>3, SameObserved
<1>5. Interface(p, s) = Interface(o, s)
  BY <1>1, <1>2, <1>4 DEF Interface
<1>6. Past(p, s) = Past(o, s) /\ Whole(p, s, n) = Whole(o, s, n)
  BY <1>2, <1>4
<1> QED
  BY <1>5, <1>6 DEF p

\* The evidence of a slice is entered.
LEMMA EnterEvidenceInv ==
  ASSUME IInv, NEW o \in BOOLEAN, EnterEvidence(o)
  PROVE  IInv'
<1>1. /\ pc = "Idle" /\ Due /\ Entered < MaxTime /\ observed' = Append(observed, o)
      /\ UNCHANGED <<procedure, lag, time, jt, sep, jtIter, sepIter, pc, copy, saved, predicted>>
  BY DEF EnterEvidence
<1>2. /\ procedure \in {"ptFiltering", "ptFixLagSmoothing", "ptSmoothing"}
      /\ (procedure = "ptFiltering" => Entered = time /\ ~predicted)
      /\ (procedure = "ptFixLagSmoothing" => IF time = 0 THEN Entered <= lag ELSE Entered = time)
      /\ (procedure = "ptSmoothing" => time = 0 /\ Entered < lag)
  BY <1>1 DEF Due, IInv, Progress
<1>3. /\ Progress /\ TreesOK /\ SepsOK /\ IteratorsOK /\ EvidencesOK /\ ~ predicted
      /\ Size \in Nat \ {0} /\ Entered \in Nat /\ time \in Nat /\ lag \in Nat /\ time <= Entered
  BY <1>2, Sizes DEF IInv, Progress
<1>4. Size' = Size /\ Entered' = Entered + 1 /\ observed' \in Seq(BOOLEAN)
  BY <1>1, <1>3, AppendProperties DEF Size, Entered, Progress
<1>5. Top' = time /\ Top = time
  BY <1>1, <1>2 DEF Top
<1>6. Progress'
  <2>1. Entered + 1 <= MaxTime /\ time <= Entered + 1
    BY <1>1, <1>3, DbnAssumption DEF DbnAssumption
  <2>2. CASE procedure = "ptFiltering"
    BY <1>1, <1>2, <1>3, <1>4, <2>1, <2>2 DEF Progress
  <2>3. CASE procedure = "ptFixLagSmoothing"
    BY <1>1, <1>2, <1>3, <1>4, <2>1, <2>3 DEF Progress
  <2>4. CASE procedure = "ptSmoothing"
    BY <1>1, <1>2, <1>3, <1>4, <2>1, <2>4 DEF Progress
  <2> QED
    BY <1>2, <2>2, <2>3, <2>4
<1>7. \A s \in 0 .. time - 1 : /\ Past(observed', s) = Past(observed, s)
                               /\ Whole(observed', s, time) = Whole(observed, s, time)
                               /\ Interface(observed', s) = Interface(observed, s)
  BY <1>1, <1>3, EvidenceLater DEF Entered, Progress
<1>8. TreesOK'
  <2> SUFFICES ASSUME NEW s \in Kept' PROVE Holds(jt, Size, s, TreeAt(s)')
    BY <1>1, <1>2, <1>3, <1>4 DEF TreesOK
  <2>1. s \in Kept /\ s \in 0 .. time - 1
    BY <1>1, <1>4, <1>5 DEF Kept
  <2>2. Calculated(s)' <=> Calculated(s)
    BY <1>1 DEF Calculated
  <2>3. TreeAt(s)' = TreeAt(s)
    BY <1>1, <1>5, <1>7, <2>1, <2>2 DEF TreeAt
  <2> QED
    BY <1>2, <1>3, <2>1, <2>3 DEF TreesOK
<1>9. SepsOK'
  BY <1>1, <1>2, <1>3, <1>5, <1>7 DEF SepsOK
<1>10. IteratorsOK' /\ CopiesOK'
  <2>1. IteratorsOK'
    BY <1>1, <1>3, <1>4 DEF IteratorsOK
  <2>2. CopiesOK'
    BY <1>1 DEF CopiesOK
  <2> QED
    BY <2>1, <2>2
<1> DEFINE last == IF time = 0 THEN ev[Len(ev)] ELSE At(ev, time - 1)
           new == IF ev = <<>> THEN [slice |-> Entered, from |-> -1, at |-> "Prior"]
                  ELSE [slice |-> Entered, from |-> last.slice, at |-> ArrayOfNodes]
<1>11. ev' = IF Len(ev) < Len(jt) THEN Append(ev, new) ELSE [ev EXCEPT ![EvidenceSlot] = new]
  BY DEF EnterEvidence
<1>12. /\ ev \in Seq(Evidences) /\ Len(jt) = Size
       /\ Len(ev) = IF Entered <= Size THEN Entered ELSE Size
       /\ \A s \in 0 .. Entered - 1 : s >= Entered - Size => Holds(ev, Size, s, Evid(s))
  BY <1>2, <1>3 DEF EvidencesOK, TreesOK
\* The ring grows until it is full; then the current time is that of the evidence.
<1>13. Entered >= Size => Entered = time
  BY <1>2, <1>3 DEF Size, Progress
<1>14. time > 0 => Entered = time /\ Entered >= Size
  BY <1>1, <1>2, <1>3 DEF Size, Progress
<1>15. new = Evid(Entered)
  <2>1. CASE Entered = 0
    <3>1. ev = <<>>
      BY <1>3, <1>12, <2>1, EmptySeq
    <3> QED
      BY <2>1, <3>1 DEF Evid
  <2>2. CASE Entered > 0
    <3>1. ev # <<>>
      BY <1>3, <1>12, <2>2
    <3>2. last = Evid(Entered - 1)
      <4>1. Holds(ev, Size, Entered - 1, Evid(Entered - 1))
        BY <1>3, <1>12, <2>2
      <4>2. CASE time = 0
        <5>1. Len(ev) = Entered /\ Entered <= Size
          BY <1>3, <1>12, <1>13, <2>2, <4>2
        <5>2. (Entered - 1) % Size = Entered - 1
          <6>1. Entered - 1 \in 0 .. Size - 1 /\ Entered - 1 = Size * 0 + (Entered - 1)
            BY <1>3, <2>2, <5>1
          <6> QED
            BY <1>3, <6>1, Remainder
        <5> QED
          BY <1>3, <4>1, <4>2, <5>1, <5>2 DEF Holds
      <4>3. CASE time # 0
        <5>1. Entered = time /\ Len(ev) = Size
          BY <1>3, <1>12, <1>14, <4>3
        <5> QED
          BY <4>1, <4>3, <5>1 DEF Holds, At, Slot
      <4> QED
        BY <4>2, <4>3
    <3>3. ArrayOfNodes = IF Entered = 1 THEN "IntNdsPriorSlice" ELSE "RootNdsISlice"
      <4>1. Len(ev) = 1 \/ Len(ev) > 1
        BY <1>3, <1>12, <2>2
      <4>2. CASE time = 0
        BY <1>3, <1>12, <1>13, <2>2, <4>1, <4>2 DEF ArrayOfNodes
      <4>3. CASE time # 0
        BY <1>3, <1>12, <1>14, <4>1, <4>3 DEF ArrayOfNodes
      <4> QED
        BY <4>2, <4>3
    <3>4. last.slice = Entered - 1
      BY <3>2 DEF Evid
    <3>5. new = [slice |-> Entered, from |-> Entered - 1,
                 at |-> IF Entered = 1 THEN "IntNdsPriorSlice" ELSE "RootNdsISlice"]
      BY <3>1, <3>3, <3>4
    <3> QED
      BY <2>2, <3>5 DEF Evid
  <2> QED
    BY <1>3, <2>1, <2>2
<1> HIDE DEF new
<1>16. new \in Evidences
  BY <1>3, <1>15, EvidenceTypes
<1>17. EvidencesOK'
  <2>1. CASE Entered < Size
    <3>1. ev' = Append(ev, new) /\ Len(ev) = Entered
      BY <1>3, <1>11, <1>12, <2>1
    <3>2. /\ ev' \in Seq(Evidences) /\ Len(ev') = Entered + 1 /\ ev'[Entered + 1] = new
          /\ \A k \in 1 .. Entered : ev'[k] = ev[k]
      BY <1>12, <1>16, <3>1, AppendProperties
    <3>3. ASSUME NEW s \in 0 .. Entered PROVE s % Size = s
      <4>1. s \in 0 .. Size - 1 /\ s = Size * 0 + s
        BY <1>3, <2>1
      <4> QED
        BY <1>3, <4>1, Remainder
    <3>4. ASSUME NEW s \in 0 .. Entered PROVE Holds(ev', Size, s, Evid(s))
      <4>1. CASE s = Entered
        BY <1>15, <3>2, <3>3, <4>1 DEF Holds
      <4>2. CASE s # Entered
        <5>1. s \in 0 .. Entered - 1 /\ s + 1 \in 1 .. Entered /\ s >= Entered - Size
          BY <1>3, <2>1, <4>2
        <5>2. Holds(ev, Size, s, Evid(s))
          BY <1>12, <5>1
        <5> QED
          BY <3>2, <3>3, <5>1, <5>2 DEF Holds
      <4> QED
        BY <4>1, <4>2
    <3> QED
      BY <1>3, <1>4, <2>1, <3>2, <3>4 DEF EvidencesOK
  <2>2. CASE Entered >= Size
    <3>1. Len(ev) = Size /\ Entered = time
      BY <1>3, <1>12, <1>13, <2>2
    <3>2. ev' = Write(ev, Size, Entered, Evid(Entered))
      <4>1. ~ (Len(ev) < Len(jt))
        BY <1>3, <1>12, <3>1
      <4>2. ev' = [ev EXCEPT ![EvidenceSlot] = new]
        BY <1>11, <4>1
      <4>3. EvidenceSlot = (Entered % Size) + 1
        BY <3>1 DEF EvidenceSlot, Slot
      <4> QED
        BY <1>15, <4>2, <4>3 DEF Write
    <3>3. Entered \in Int /\ Evid(Entered) \in Evidences
      BY <1>3, <1>15, <1>16
    <3>4. /\ ev' \in Seq(Evidences) /\ Len(ev') = Size
          /\ Holds(ev', Size, Entered, Evid(Entered))
          /\ \A s \in Int : \A y :
               (s < Entered /\ Entered < s + Size) \/ (Entered < s /\ s < Entered + Size) =>
                 (Holds(ev, Size, s, y) => Holds(ev', Size, s, y))
      BY <1>3, <1>12, <3>1, <3>2, <3>3, RingWrite
    <3>5. ASSUME NEW s \in 0 .. Entered, s >= Entered + 1 - Size PROVE Holds(ev', Size, s, Evid(s))
      <4>1. CASE s = Entered
        BY <3>4, <4>1
      <4>2. CASE s # Entered
        <5>1. /\ s \in Int /\ s \in 0 .. Entered - 1 /\ s >= Entered - Size
              /\ s < Entered /\ Entered < s + Size
          BY <1>3, <3>5, <4>2
        <5>2. Holds(ev, Size, s, Evid(s))
          BY <1>12, <5>1
        <5> QED
          BY <3>4, <5>1, <5>2
      <4> QED
        BY <4>1, <4>2
    <3> QED
      BY <1>3, <1>4, <2>2, <3>4, <3>5 DEF EvidencesOK
  <2> QED
    BY <1>3, <2>1, <2>2
<1> QED
  BY <1>6, <1>8, <1>9, <1>10, <1>17 DEF IInv

\* A step forward, of a call or of Prediction, leaves the trees below Top as they are.
LEMMA TreesForward ==
  ASSUME IInv, procedure # "None", time \in Slice, NEW e, NEW b \in BOOLEAN, NEW old, NEW o,
         e.slice = time, e \in Evidences,
         time > 0 => At(sep, sepIter) = Interface(o, time - 1),
         StepTaken(e, old, b), Top = time, UNCHANGED <<procedure, lag>>
  PROVE  /\ jt' \in Seq(Trees) /\ Len(jt') = Size /\ Holds(jt', Size, time, TreeOf(e, Past(o, time)))
         /\ \A s \in Kept : s > time - Size => Holds(jt', Size, s, TreeAt(s))
         /\ sep' \in Seq({None} \cup Power) /\ Len(sep') = lag + 1
         /\ Holds(sep', lag + 1, time, IF b THEN None ELSE Past(o, time))
         /\ \A s \in 0 .. time - 1 : s > time - (lag + 1) =>
              Holds(sep', lag + 1, s, Interface(observed, s))
         /\ time' = time + 1 /\ IteratorsOK'
<1>1. /\ Progress /\ TreesOK /\ SepsOK /\ IteratorsOK
      /\ Size \in Nat \ {0} /\ lag + 1 \in Nat \ {0} /\ time \in Nat /\ lag \in Nat
  BY Sizes DEF IInv, Progress
<1>2. /\ jt \in Seq(Trees) /\ Len(jt) = Size /\ \A s \in Kept : Holds(jt, Size, s, TreeAt(s))
      /\ sep \in Seq({None} \cup Power) /\ Len(sep) = lag + 1
      /\ \A s \in 0 .. time - 1 : s >= time - (lag + 1) => Holds(sep, lag + 1, s, Interface(observed, s))
  BY <1>1 DEF TreesOK, SepsOK
<1> DEFINE tree == TreeOf(e, Past(o, time))
           pot == IF b THEN None ELSE Past(o, time)
           n == Size
           q == lag + 1
<1>3. /\ jt' = Write(jt, n, time, tree) /\ sep' = Write(sep, q, time, pot) /\ time' = time + 1
      /\ jtIter' = time % n /\ sepIter' = time % q
  BY <1>1, StepForward
<1>4. tree \in Trees /\ pot \in {None} \cup Power /\ time \in Int
  BY <1>1, PowerType DEF TreeOf, Trees
<1>5. n \in Nat \ {0} /\ q \in Nat \ {0} /\ Len(jt) = n /\ Len(sep) = q
  BY <1>1, <1>2
<1>6. IteratorsOK'
  <2>1. time' # 0 /\ time' - 1 = time
    BY <1>1, <1>3
  <2>2. Size' = n /\ (lag + 1)' = q
    BY DEF Size
  <2> QED
    BY <1>3, <2>1, <2>2 DEF IteratorsOK
<1>7. Kept \subseteq 0 .. time - 1
  BY DEF Kept
<1> HIDE DEF tree, pot, n, q
<1>8. /\ jt' \in Seq(Trees) /\ Len(jt') = n /\ Holds(jt', n, time, tree)
      /\ \A s \in Int : \A y :
           (s < time /\ time < s + n) \/ (time < s /\ s < time + n) =>
             (Holds(jt, n, s, y) => Holds(jt', n, s, y))
  BY <1>2, <1>3, <1>4, <1>5, RingWrite
<1>9. /\ sep' \in Seq({None} \cup Power) /\ Len(sep') = q /\ Holds(sep', q, time, pot)
      /\ \A s \in Int : \A y :
           (s < time /\ time < s + q) \/ (time < s /\ s < time + q) =>
             (Holds(sep, q, s, y) => Holds(sep', q, s, y))
  BY <1>2, <1>3, <1>4, <1>5, RingWrite
<1>10. ASSUME NEW s \in Kept, s > time - Size PROVE Holds(jt', Size, s, TreeAt(s))
  <2>1. s \in Int /\ s < time /\ time < s + n
    BY <1>1, <1>5, <1>7, <1>10 DEF n
  <2>2. Holds(jt, n, s, TreeAt(s))
    BY <1>2 DEF n
  <2>3. Holds(jt', n, s, TreeAt(s))
    BY <1>8, <2>1, <2>2
  <2> QED
    BY <2>3 DEF n
<1>11. ASSUME NEW s \in 0 .. time - 1, s > time - (lag + 1)
       PROVE  Holds(sep', lag + 1, s, Interface(observed, s))
  <2>1. s \in Int /\ s < time /\ time < s + q
    BY <1>1, <1>5, <1>11 DEF q
  <2>2. Holds(sep, q, s, Interface(observed, s))
    BY <1>1, <1>2, <1>11 DEF q
  <2>3. Holds(sep', q, s, Interface(observed, s))
    BY <1>9, <2>1, <2>2
  <2> QED
    BY <2>3 DEF q
<1> QED
  BY <1>3, <1>6, <1>8, <1>9, <1>10, <1>11 DEF tree, pot, n, q

LEMMA ForwardStepInv == ASSUME IInv, ForwardStep PROVE IInv'
<1>1. /\ pc = "Forward" /\ UNCHANGED <<procedure, lag, ev, observed, predicted>>
      /\ time' \in {1, time + 1}
  BY DEF ForwardStep, ForwardFirst, Forward, ForwardWith, Still
<1>2. /\ procedure \in {"ptFiltering", "ptFixLagSmoothing", "ptSmoothing"} /\ ~ predicted
      /\ Progress /\ TreesOK /\ SepsOK /\ IteratorsOK /\ EvidencesOK /\ time < Entered
  BY <1>1 DEF IInv, Progress
<1>3. /\ Size \in Nat \ {0} /\ Entered \in Nat /\ time \in Nat /\ lag \in Nat /\ Entered <= MaxTime
      /\ Top = time /\ Entered' = Entered /\ Size' = Size /\ observed \in Seq(BOOLEAN)
  BY <1>1, <1>2, Sizes DEF Progress, Top, Entered, Size
<1>4. time \in Slice
  BY <1>2, <1>3, DbnAssumption DEF DbnAssumption, Slice
<1> DEFINE e == Evid(time)
           old == IF time = 0 THEN None ELSE At(jt, jtIter + 1)
           b == IsObserved(time)
<1>5. At(ev, time) = e /\ e.slice = time /\ e.at # "Empty" /\ e \in Evidences
  <2>1. Entered >= Size /\ time >= Entered - Size
    BY <1>1, <1>2, <1>3 DEF Progress, Size
  <2>2. Len(ev) = Size /\ Holds(ev, Size, time, e)
    BY <1>2, <1>3, <2>1 DEF EvidencesOK
  <2>3. At(ev, time) = e
    BY <2>2 DEF At, Slot, Holds
  <2>4. e \in Evidences
    BY <1>3, EvidenceTypes
  <2> QED
    BY <2>3, <2>4 DEF Evid
<1>6. b \in BOOLEAN
  BY <1>2, <1>3 DEF IsObserved, Entered
<1>7. time > 0 => At(sep, sepIter) = Interface(observed, time - 1)
  <2> HAVE time > 0
  <2>1. Holds(sep, lag + 1, time - 1, Interface(observed, time - 1)) /\ Len(sep) = lag + 1
    BY <1>2, <1>3 DEF SepsOK
  <2>2. Stands(sepIter, lag + 1, time)
    BY <1>2, <1>3 DEF IteratorsOK, Stands
  <2>3. Finds(sep, lag + 1, sepIter, time)
    BY <1>3, <2>1, <2>2, IteratorAt
  <2> QED
    BY <2>1, <2>3 DEF Finds
<1>8. StepTaken(e, old, b)
  <2>1. CASE ForwardFirst
    BY <1>5, <2>1 DEF ForwardFirst, StepTaken
  <2>2. CASE Forward
    <3>1. time > 0 /\ time # 0 /\ ForwardWith(e)
      BY <1>3, <1>5, <2>2 DEF Forward
    <3> DEFINE tree == Multiply(ShrinkObserved(old, e), At(sep, sepIter))
    <3>2. (e.at # "Empty" /\ IsObserved(time)) = b
      BY <1>5, <1>6
    <3>3. At(jt, jtIter + 1) = old
      BY <3>1
    <3>4. /\ jtIter' = (jtIter + 1) % Len(jt)
          /\ sepIter' = (sepIter + 1) % Len(sep)
          /\ jt' = [jt EXCEPT ![Slot(jt, jtIter + 1)] = tree]
          /\ sep' = [sep EXCEPT ![Slot(sep, sepIter + 1)] =
                       OnSep(tree, e.at # "Empty" /\ IsObserved(time))]
          /\ time' = time + 1
      <4> HIDE DEF e, old, b
      <4> QED
        BY <3>1, <3>3 DEF ForwardWith
    <3>5. OnSep(tree, e.at # "Empty" /\ IsObserved(time)) = OnSep(tree, b)
      BY <3>2
    <3> HIDE DEF e, old, b
    <3> QED
      BY <3>1, <3>4, <3>5 DEF StepTaken
  <2> QED
    BY <2>1, <2>2 DEF ForwardStep
<1> HIDE DEF e, old, b
<1>9. /\ jt' \in Seq(Trees) /\ Len(jt') = Size /\ Holds(jt', Size, time, TreeOf(e, Past(observed, time)))
      /\ \A s \in Kept : s > time - Size => Holds(jt', Size, s, TreeAt(s))
      /\ sep' \in Seq({None} \cup Power) /\ Len(sep') = lag + 1
      /\ Holds(sep', lag + 1, time, IF b THEN None ELSE Past(observed, time))
      /\ \A s \in 0 .. time - 1 : s > time - (lag + 1) =>
           Holds(sep', lag + 1, s, Interface(observed, s))
      /\ time' = time + 1 /\ IteratorsOK'
  BY <1>1, <1>2, <1>3, <1>4, <1>5, <1>6, <1>7, <1>8, TreesForward
<1>10. /\ Holds(jt', Size, time, TreeOf(Evid(time), Past(observed, time)))
       /\ Holds(sep', lag + 1, time, Interface(observed, time))
  BY <1>9 DEF e, b, Interface, IsObserved
\* Where the call goes on
<1>11. \/ pc' = "Forward" /\ time + 1 < Entered
       \/ /\ pc' = "BackwardFixLag" /\ time + 1 = Entered /\ procedure = "ptFixLagSmoothing" /\ lag > 0
          /\ copy' = At(jt', jtIter') /\ saved' = <<time', jtIter', sepIter'>>
       \/ pc' = "Backward" /\ time + 1 = Entered /\ procedure = "ptSmoothing" /\ lag > 1
       \/ /\ pc' = "Idle" /\ time + 1 = Entered /\ (procedure = "ptFixLagSmoothing" => lag = 0)
          /\ (procedure = "ptSmoothing" => lag = 1)
  <2>1. CASE time' < Entered
    <3>1. pc' = "Forward"
      BY <2>1 DEF ForwardStep
    <3> QED
      BY <1>9, <2>1, <3>1
  <2>2. CASE ~ (time' < Entered)
    <3>1. time + 1 = Entered
      BY <1>2, <1>3, <1>9, <2>2
    <3>2. CASE procedure = "ptFixLagSmoothing" /\ lag > 0
      <4>1. pc' = "BackwardFixLag" /\ copy' = At(jt', jtIter') /\ saved' = <<time', jtIter', sepIter'>>
        BY <2>2, <3>2 DEF ForwardStep
      <4> QED
        BY <3>1, <3>2, <4>1
    <3>3. CASE procedure = "ptSmoothing" /\ lag > 1
      <4>1. pc' = "Backward"
        BY <2>2, <3>3 DEF ForwardStep
      <4> QED
        BY <3>1, <3>3, <4>1
    <3>4. CASE ~ (procedure = "ptFixLagSmoothing" /\ lag > 0) /\ ~ (procedure = "ptSmoothing" /\ lag > 1)
      <4>1. pc' = "Idle"
        BY <2>2, <3>4 DEF ForwardStep
      <4>2. procedure = "ptSmoothing" => lag >= 1
        BY <1>2 DEF Progress
      <4> QED
        BY <1>3, <3>1, <3>4, <4>1, <4>2
    <3> QED
      BY <3>2, <3>3, <3>4
  <2> QED
    BY <2>1, <2>2
<1>12. Top' = time + 1
  BY <1>3, <1>9, <1>11 DEF Top
<1>13. Progress'
  <2>1. /\ procedure' = procedure /\ lag' = lag /\ observed' = observed /\ predicted' = predicted
        /\ time' = time + 1
    BY <1>1, <1>9
  <2>2. CASE procedure = "ptFiltering"
    BY <1>1, <1>2, <1>3, <1>11, <2>1, <2>2 DEF Progress
  <2>3. CASE procedure = "ptFixLagSmoothing"
    BY <1>1, <1>2, <1>3, <1>11, <2>1, <2>3 DEF Progress
  <2>4. CASE procedure = "ptSmoothing"
    BY <1>1, <1>2, <1>3, <1>11, <2>1, <2>4 DEF Progress
  <2> QED
    BY <1>2, <2>2, <2>3, <2>4
<1>14. TreesOK'
  <2> SUFFICES ASSUME NEW s \in Kept' PROVE Holds(jt', Size, s, TreeAt(s)')
    BY <1>1, <1>2, <1>3, <1>9 DEF TreesOK
  <2>1. s \in 0 .. time /\ s >= time + 1 - Size
    BY <1>3, <1>12 DEF Kept
  <2>2. CASE s = time
    <3>1. TreeAt(s)' = TreeOf(Evid(time), Past(observed, time))
      <4>1. Whole(observed, time, time + 1) = Past(observed, time)
        <5> DEFINE m == time + 1
        <5>1. m \in Nat /\ m - 1 = time
          BY <1>3
        <5> HIDE DEF m
        <5>2. Whole(observed, m - 1, m) = Past(observed, m - 1)
          BY <5>1, WholeLast
        <5> QED
          BY <5>1, <5>2 DEF m
      <4> QED
        BY <1>1, <1>2, <1>12, <2>2, <4>1 DEF TreeAt
    <3> QED
      BY <1>10, <2>2, <3>1
  <2>3. CASE s # time
    <3>1. s \in Kept /\ s > time - Size /\ s < time
      BY <1>3, <2>1, <2>3 DEF Kept
    <3>2. ~ Calculated(s)
      BY <1>1 DEF Calculated
    <3>3. ~ Calculated(s)'
      BY <1>1, <1>3, <1>9, <1>11, <2>1, <3>1 DEF Calculated, Size
    <3>4. TreeAt(s)' = TreeAt(s)
      BY <1>1, <3>2, <3>3 DEF TreeAt
    <3> QED
      BY <1>9, <3>1, <3>4
  <2> QED
    BY <2>2, <2>3
<1>15. SepsOK'
  <2> SUFFICES ASSUME NEW s \in 0 .. time, s >= time + 1 - (lag + 1)
               PROVE  Holds(sep', lag + 1, s, Interface(observed, s))
    BY <1>1, <1>2, <1>3, <1>9, <1>12 DEF SepsOK
  <2>1. CASE s = time
    BY <1>10, <2>1
  <2>2. CASE s # time
    <3>1. s \in 0 .. time - 1 /\ s > time - (lag + 1)
      BY <1>3, <2>2
    <3> QED
      BY <1>9, <3>1
  <2> QED
    BY <2>1, <2>2
<1>16. EvidencesOK'
  BY <1>1, <1>2, <1>3 DEF EvidencesOK
<1>17. CopiesOK'
  <2> SUFFICES ASSUME pc' = "BackwardFixLag"
               PROVE  /\ copy' = TreeOf(Evid(time), Past(observed, time))
                      /\ saved' = <<Entered, (Entered - 1) % (lag + 1), (Entered - 1) % (lag + 1)>>
    <3>1. time' - 1 = time
      BY <1>3, <1>9
    <3> QED
      BY <1>1, <1>3, <3>1 DEF CopiesOK
  <2>1. /\ copy' = At(jt', jtIter') /\ saved' = <<time', jtIter', sepIter'>> /\ time + 1 = Entered
        /\ procedure = "ptFixLagSmoothing"
    BY <1>11
  <2>2. Size = lag + 1 /\ time = Entered - 1 /\ time' - 1 = time
    BY <1>3, <1>9, <2>1 DEF Size
  <2>3. jtIter' = time % Size /\ sepIter' = time % (lag + 1)
    <3>1. time' # 0
      BY <1>3, <1>9
    <3> QED
      BY <1>1, <1>3, <1>9, <2>2, <3>1 DEF IteratorsOK
  <2>4. saved' = <<Entered, (Entered - 1) % (lag + 1), (Entered - 1) % (lag + 1)>>
    BY <1>9, <2>1, <2>2, <2>3
  <2>5. copy' = TreeOf(Evid(time), Past(observed, time))
    <3> DEFINE x == TreeOf(Evid(time), Past(observed, time))
               t == time + 1
    <3>1. t \in Int /\ t - 1 = time
      BY <1>3
    <3>2. Stands(jtIter', Size, t)
      BY <2>3, <3>1 DEF Stands
    <3>3. Holds(jt', Size, t - 1, x)
      BY <1>10, <3>1
    <3> HIDE DEF x, t
    <3>4. Finds(jt', Size, jtIter', t)
      BY <1>3, <1>9, <3>1, <3>2, IteratorAt
    <3>5. At(jt', jtIter') = x
      BY <3>3, <3>4 DEF Finds
    <3> QED
      BY <2>1, <3>5 DEF x
  <2> QED
    BY <2>4, <2>5
<1> QED
  BY <1>9, <1>13, <1>14, <1>15, <1>16, <1>17 DEF IInv

\* Prediction
LEMMA PredictionInv == ASSUME IInv, Prediction PROVE IInv'
<1>1. /\ pc = "Idle" /\ procedure = "ptFiltering" /\ time > 0 /\ (predicted \/ Entered = time) /\ time < MaxTime
      /\ ForwardWith(NoEvidence)
      /\ observed' = Append(observed, FALSE) /\ predicted' = TRUE
      /\ UNCHANGED <<procedure, lag, ev, pc, copy, saved>>
  BY DEF Prediction
<1>2. /\ Progress /\ TreesOK /\ SepsOK /\ IteratorsOK /\ lag = 0
      /\ Size = 1 /\ time \in Nat /\ Entered = time /\ Top = time /\ observed \in Seq(BOOLEAN)
  BY <1>1 DEF IInv, Progress, Size, Top
<1>3. time \in Slice
  BY <1>1, <1>2, DbnAssumption DEF DbnAssumption, Slice
<1> DEFINE e == Empty(time)
           old == At(jt, jtIter + 1)
           o == observed'
<1>4. NoEvidence = e /\ e.slice = time /\ e.at = "Empty"
  BY DEF NoEvidence, Empty
<1>5. e \in Evidences
  BY <1>2, EvidenceTypes
<1>6. /\ o \in Seq(BOOLEAN) /\ Len(o) = time + 1 /\ o[time + 1] = FALSE
  BY <1>1, <1>2, AppendProperties DEF Entered
<1>7. Interface(o, time - 1) = Interface(observed, time - 1)
  <2>1. time - 1 \in 0 .. time - 1 /\ time <= Len(observed)
    BY <1>1, <1>2 DEF Entered
  <2>2. Interface(Append(observed, FALSE), time - 1) = Interface(observed, time - 1)
    BY <1>2, <2>1, EvidenceLater
  <2> QED
    BY <1>1, <2>2
<1>8. At(sep, sepIter) = Interface(o, time - 1)
  <2>1. Holds(sep, lag + 1, time - 1, Interface(observed, time - 1)) /\ Len(sep) = lag + 1
    BY <1>1, <1>2 DEF SepsOK
  <2>2. Stands(sepIter, lag + 1, time)
    BY <1>1, <1>2 DEF IteratorsOK, Stands
  <2>3. lag + 1 \in Nat \ {0} /\ time \in Int
    BY <1>2
  <2>4. Finds(sep, lag + 1, sepIter, time)
    BY <2>1, <2>2, <2>3, IteratorAt
  <2> QED
    BY <1>7, <2>1, <2>4 DEF Finds
<1>9. StepTaken(e, old, FALSE)
  <2> DEFINE tree == Multiply(ShrinkObserved(old, e), At(sep, sepIter))
  <2>1. /\ jtIter' = (jtIter + 1) % Len(jt)
        /\ sepIter' = (sepIter + 1) % Len(sep)
        /\ jt' = [jt EXCEPT ![Slot(jt, jtIter + 1)] = tree]
        /\ sep' = [sep EXCEPT ![Slot(sep, sepIter + 1)] =
                     OnSep(tree, e.at # "Empty" /\ IsObserved(time))]
        /\ time' = time + 1
    <3> HIDE DEF e
    <3> QED
      BY <1>1, <1>4 DEF ForwardWith
  <2>2. (e.at # "Empty" /\ IsObserved(time)) = FALSE
    BY <1>4
  <2>3. OnSep(tree, e.at # "Empty" /\ IsObserved(time)) = OnSep(tree, FALSE)
    BY <2>2
  <2>4. time # 0
    BY <1>1, <1>2
  <2> HIDE DEF e, old
  <2> QED
    BY <2>1, <2>3, <2>4 DEF StepTaken
<1> HIDE DEF e, old, o
<1>10. /\ jt' \in Seq(Trees) /\ Len(jt') = Size /\ Holds(jt', Size, time, TreeOf(e, Past(o, time)))
       /\ sep' \in Seq({None} \cup Power) /\ Len(sep') = lag + 1
       /\ Holds(sep', lag + 1, time, IF FALSE THEN None ELSE Past(o, time))
       /\ time' = time + 1 /\ IteratorsOK'
  <2>1. FALSE \in BOOLEAN /\ procedure # "None" /\ UNCHANGED <<procedure, lag>>
    BY <1>1
  <2> QED
    BY <1>2, <1>3, <1>4, <1>5, <1>8, <1>9, <2>1, TreesForward
<1>11. Entered' = time + 1 /\ Top' = time + 1 /\ Size' = 1
  BY <1>1, <1>2, <1>6, <1>10 DEF Entered, Top, Size, o
<1>12. Progress'
  <2>1. observed' \in Seq(BOOLEAN) /\ time + 1 <= MaxTime
    BY <1>1, <1>2, <1>6, DbnAssumption DEF o, DbnAssumption
  <2> QED
    BY <1>1, <1>2, <1>10, <1>11, <2>1 DEF Progress
<1>13. TreesOK'
  <2> SUFFICES ASSUME NEW s \in Kept' PROVE Holds(jt', 1, s, TreeAt(s)')
    BY <1>2, <1>10, <1>11 DEF TreesOK
  <2>1. s = time
    BY <1>2, <1>11 DEF Kept
  <2>2. TreeAt(s)' = TreeOf(Empty(time), Past(o, time))
    BY <1>1, <2>1 DEF TreeAt, Calculated, o
  <2> QED
    BY <1>2, <1>10, <2>1, <2>2 DEF e
<1>14. SepsOK'
  <2>0. (Top - 1)' = time /\ (Top - (lag + 1))' = time /\ (lag + 1)' = lag + 1
    BY <1>1, <1>2, <1>11
  <2> SUFFICES ASSUME NEW s \in 0 .. time, s >= time
               PROVE  Holds(sep', lag + 1, s, Interface(o, s))
    BY <1>10, <2>0 DEF SepsOK, o
  <2>1. s = time
    BY <1>2
  <2> QED
    BY <1>6, <1>10, <2>1 DEF Interface
<1>15. EvidencesOK' /\ CopiesOK'
  BY <1>1 DEF EvidencesOK, CopiesOK
<1> QED
  BY <1>10, <1>12, <1>13, <1>14, <1>15 DEF IInv

LEMMA SmoothingStepInv == ASSUME IInv, SmoothingStep PROVE IInv'
<1>1. /\ pc = "Backward" /\ jt' = TreesAfterBackward /\ time' = time - 1
      /\ jtIter' = (jtIter - 1) % Len(jt) /\ sepIter' = (sepIter - 1) % Len(sep)
      /\ pc' = IF time' = 1 THEN "Idle" ELSE "Backward"
      /\ UNCHANGED <<procedure, lag, sep, ev, copy, saved, observed, predicted>>
  BY DEF SmoothingStep, Backward, Still
<1>2. /\ Progress /\ TreesOK /\ SepsOK /\ IteratorsOK /\ EvidencesOK
      /\ procedure = "ptSmoothing" /\ Entered = lag /\ lag \in Nat /\ lag >= 1
      /\ time \in Nat /\ time >= 2 /\ time <= Entered /\ ~ predicted
  BY <1>1 DEF IInv, Progress
<1>3. Size = lag /\ Size' = lag /\ Top = lag /\ Entered' = Entered
  BY <1>1, <1>2 DEF Size, Top, Entered
<1>4. pc' \in {"Idle", "Backward"} /\ (pc' = "Idle" <=> time = 2) /\ Top' = lag
  <2>1. time - 1 = 1 <=> time = 2
    BY <1>2
  <2>2. pc' \in {"Idle", "Backward"} /\ (pc' = "Idle" <=> time = 2)
    BY <1>1, <2>1
  <2>3. Top' = Entered'
    BY <1>1, <1>2, <2>2 DEF Top
  <2> QED
    BY <1>2, <1>3, <2>2, <2>3
<1>5. Progress'
  BY <1>1, <1>2, <1>3, <1>4 DEF Progress
<1> DEFINE x == TreeOf(Evid(time - 2), Whole(observed, time - 2, Entered))
           n == Size
           i == time - 2
<1>6. /\ jt' = Write(jt, n, i, x) /\ jtIter' = (time - 2) % n /\ sepIter' = (time - 2) % (lag + 1)
  BY <1>1, <1>2, StepBackward
<1>7. jt \in Seq(Trees) /\ Len(jt) = n /\ n \in Nat \ {0} /\ i \in Int /\ x \in Trees
  BY <1>2, <1>3, TreeTyped DEF TreesOK
<1> HIDE DEF x, n, i
<1>8. /\ jt' \in Seq(Trees) /\ Len(jt') = n /\ Holds(jt', n, i, x)
      /\ \A s \in Int : \A y :
           (s < i /\ i < s + n) \/ (i < s /\ s < i + n) => (Holds(jt, n, s, y) => Holds(jt', n, s, y))
  BY <1>6, <1>7, RingWrite
<1>9. TreesOK'
  <2> SUFFICES ASSUME NEW s \in Kept' PROVE Holds(jt', n, s, TreeAt(s)')
    BY <1>3, <1>8 DEF TreesOK, n
  <2>1. s \in 0 .. lag - 1 /\ s \in Kept
    BY <1>1, <1>2, <1>3, <1>4 DEF Kept
  <2>2. Calculated(s)' <=> s >= time - 2
    BY <1>1, <1>2, <1>4, <2>1 DEF Calculated
  <2>3. CASE s = i
    <3>1. Calculated(s)'
      BY <1>2, <2>2, <2>3 DEF i
    <3>2. TreeAt(s)' = x
      BY <1>1, <1>2, <1>4, <2>3, <3>1 DEF TreeAt, x, i
    <3> QED
      BY <1>8, <2>3, <3>2
  <2>4. CASE s # i
    <3>1. Calculated(s)' <=> Calculated(s)
      BY <1>1, <1>2, <2>1, <2>2, <2>4 DEF Calculated, i
    <3>2. TreeAt(s)' = TreeAt(s)
      BY <1>1, <1>3, <1>4, <3>1 DEF TreeAt
    <3>3. Holds(jt, n, s, TreeAt(s))
      BY <1>2, <2>1 DEF TreesOK, n
    <3>4. s \in Int /\ ((s < i /\ i < s + n) \/ (i < s /\ s < i + n))
      BY <1>2, <1>3, <2>1, <2>4 DEF i, n
    <3> QED
      BY <1>8, <3>2, <3>3, <3>4
  <2> QED
    BY <2>3, <2>4
<1>10. SepsOK'
  <2>1. (0 .. Top - 1)' = 0 .. Top - 1 /\ (Top - (lag + 1))' = Top - (lag + 1)
    BY <1>1, <1>3, <1>4
  <2> QED
    BY <1>1, <1>2, <2>1 DEF SepsOK
<1>11. IteratorsOK'
  <2>1. time' # 0 /\ time' - 1 = time - 2
    BY <1>1, <1>2
  <2> QED
    BY <1>1, <1>3, <1>6, <2>1 DEF IteratorsOK, n
<1>12. EvidencesOK'
  BY <1>1, <1>2, <1>3 DEF EvidencesOK
<1>13. CopiesOK'
  BY <1>4 DEF CopiesOK
<1> QED
  BY <1>5, <1>9, <1>10, <1>11, <1>12, <1>13 DEF IInv

LEMMA FixLagStepInv == ASSUME IInv, FixLagStep PROVE IInv'
<1> DEFINE last == saved[1] - (time - 1) = lag
<1>1. /\ pc = "BackwardFixLag" /\ jt' = PutBack(TreesAfterBackward)
      /\ pc' = IF last THEN "Idle" ELSE "BackwardFixLag"
      /\ copy' = IF last THEN None ELSE At(jt, jtIter - 1)
      /\ time' = IF last THEN saved[1] ELSE time - 1
      /\ jtIter' = IF last THEN saved[2] ELSE (jtIter - 1) % Len(jt)
      /\ sepIter' = IF last THEN saved[3] ELSE (sepIter - 1) % Len(sep)
      /\ saved' = IF last THEN <<0, 0, 0>> ELSE saved
      /\ UNCHANGED <<procedure, lag, sep, ev, observed, predicted>>
  BY DEF FixLagStep, Still
<1>2. /\ Progress /\ TreesOK /\ SepsOK /\ IteratorsOK /\ EvidencesOK /\ CopiesOK
      /\ procedure = "ptFixLagSmoothing" /\ lag \in Nat /\ lag > 0 /\ Entered \in Nat /\ Entered >= lag + 1
      /\ time \in Nat /\ time >= Entered - lag + 1 /\ time >= 2 /\ time <= Entered /\ ~ predicted
      /\ observed \in Seq(BOOLEAN) /\ Entered <= MaxTime
  BY <1>1 DEF IInv, Progress, Entered
<1>3. Size = lag + 1 /\ Size' = lag + 1 /\ Top = Entered /\ Entered' = Entered
  BY <1>1, <1>2 DEF Size, Top, Entered
<1>4. /\ copy = TreeOf(Evid(time - 1), Past(observed, time - 1))
      /\ saved[1] = Entered /\ saved[2] = (Entered - 1) % (lag + 1) /\ saved[3] = (Entered - 1) % (lag + 1)
  BY <1>1, <1>2 DEF CopiesOK
<1>5. last <=> time = Entered - lag + 1
  BY <1>2, <1>4
<1> HIDE DEF last
<1>6. Top' = Entered
  BY <1>1, <1>2, <1>3, <1>4 DEF Top
<1>7. Progress'
  <2>1. CASE last
    BY <1>1, <1>2, <1>3, <1>4, <2>1 DEF Progress
  <2>2. CASE ~ last
    BY <1>1, <1>2, <1>3, <1>5, <2>2 DEF Progress
  <2> QED
    BY <2>1, <2>2
<1> DEFINE x == TreeOf(Evid(time - 2), Whole(observed, time - 2, Entered))
           n == Size
           i == time - 2
           j == time - 1
           between == Write(jt, n, i, x)
<1>8. /\ TreesAfterBackward = between
      /\ At(jt, jtIter - 1) = TreeOf(Evid(time - 2), Past(observed, time - 2))
      /\ Slot(jt, jtIter) = (j % n) + 1
      /\ (jtIter - 1) % Len(jt) = (time - 2) % n /\ (sepIter - 1) % Len(sep) = (time - 2) % (lag + 1)
  BY <1>1, <1>2, StepBackward
<1>9. jt' = Write(between, n, j, copy)
  <2> HIDE DEF between, n, j
  <2> QED
    BY <1>1, <1>8 DEF PutBack, Write
<1>10. /\ jt \in Seq(Trees) /\ Len(jt) = n /\ n \in Nat \ {0} /\ i \in Int /\ x \in Trees
       /\ j \in Int /\ copy \in Trees
  <2>1. i \in Int /\ j \in Int
    BY <1>2
  <2>2. jt \in Seq(Trees) /\ Len(jt) = n /\ n \in Nat \ {0}
    BY <1>2, <1>3 DEF TreesOK
  <2>3. TreeOf(Evid(j), Past(observed, j)) \in Trees /\ x \in Trees
    BY <2>1, TreeTyped
  <2> QED
    BY <1>4, <2>1, <2>2, <2>3
<1>11. i < j /\ j < i + n
  BY <1>2, <1>3
<1> HIDE DEF x, n, i, j
<1>12. /\ between \in Seq(Trees) /\ Len(between) = n /\ Holds(between, n, i, x)
       /\ \A s \in Int : \A y :
            (s < i /\ i < s + n) \/ (i < s /\ s < i + n) => (Holds(jt, n, s, y) => Holds(between, n, s, y))
  BY <1>10, RingWrite
<1> HIDE DEF between
<1>13. /\ jt' \in Seq(Trees) /\ Len(jt') = n /\ Holds(jt', n, j, copy)
       /\ \A s \in Int : \A y :
            (s < j /\ j < s + n) \/ (j < s /\ s < j + n) => (Holds(between, n, s, y) => Holds(jt', n, s, y))
  BY <1>9, <1>10, <1>12, RingWrite
<1>14. TreesOK'
  <2> SUFFICES ASSUME NEW s \in Kept' PROVE Holds(jt', n, s, TreeAt(s)')
    BY <1>3, <1>13 DEF TreesOK, n
  <2>1. s \in Kept /\ s \in 0 .. Entered - 1 /\ s >= Entered - n /\ s \in Int
    BY <1>1, <1>2, <1>3, <1>6 DEF Kept, n
  <2>2. Calculated(s)' <=> s = i
    <3>1. CASE last
      BY <1>1, <1>2, <1>4, <1>5, <2>1, <3>1 DEF Calculated, i
    <3>2. CASE ~ last
      BY <1>1, <1>2, <2>1, <3>2 DEF Calculated, i
    <3> QED
      BY <3>1, <3>2
  <2>3. CASE s = i
    <3>1. TreeAt(s)' = x
      BY <1>1, <1>2, <1>6, <2>2, <2>3 DEF TreeAt, x, i
    <3>2. Holds(between, n, s, x)
      BY <1>12, <2>3
    <3> QED
      BY <1>11, <1>13, <2>1, <2>3, <3>1, <3>2
  <2>4. CASE s = j
    <3>1. ~ Calculated(s)'
      BY <1>2, <2>2, <2>4 DEF i, j
    <3>2. TreeAt(s)' = copy
      BY <1>1, <1>2, <1>4, <2>4, <3>1 DEF TreeAt, j
    <3> QED
      BY <1>13, <2>4, <3>2
  <2>5. CASE s # i /\ s # j
    <3>1. ~ Calculated(s)' /\ ~ Calculated(s)
      BY <1>1, <2>2, <2>5 DEF Calculated, j
    <3>2. TreeAt(s)' = TreeAt(s)
      BY <1>1, <3>1 DEF TreeAt
    <3>3. Holds(jt, n, s, TreeAt(s))
      BY <1>2, <2>1 DEF TreesOK, n
    <3>4. /\ (s < i /\ i < s + n) \/ (i < s /\ s < i + n)
          /\ (s < j /\ j < s + n) \/ (j < s /\ s < j + n)
      BY <1>2, <1>3, <2>1, <2>5 DEF i, j, n
    <3>5. Holds(between, n, s, TreeAt(s))
      BY <1>12, <2>1, <3>3, <3>4
    <3> QED
      BY <1>13, <2>1, <3>2, <3>4, <3>5
  <2> QED
    BY <2>3, <2>4, <2>5
<1>15. SepsOK'
  <2>1. (0 .. Top - 1)' = 0 .. Top - 1 /\ (Top - (lag + 1))' = Top - (lag + 1)
    BY <1>1, <1>3, <1>6
  <2> QED
    BY <1>1, <1>2, <2>1 DEF SepsOK
<1>16. IteratorsOK'
  <2>1. CASE last
    <3>1. time' = Entered /\ time' # 0
      BY <1>1, <1>2, <1>4, <2>1
    <3> QED
      BY <1>1, <1>3, <1>4, <2>1, <3>1 DEF IteratorsOK
  <2>2. CASE ~ last
    <3>1. time' # 0 /\ time' - 1 = time - 2
      BY <1>1, <1>2, <2>2
    <3> QED
      BY <1>1, <1>3, <1>8, <2>2, <3>1 DEF IteratorsOK, n
  <2> QED
    BY <2>1, <2>2
<1>17. EvidencesOK'
  BY <1>1, <1>2, <1>3 DEF EvidencesOK
<1>18. CopiesOK'
  <2> SUFFICES ASSUME pc' = "BackwardFixLag"
               PROVE  (/\ copy = TreeOf(Evid(time - 1), Past(observed, time - 1))
                       /\ saved = <<Entered, (Entered - 1) % (lag + 1), (Entered - 1) % (lag + 1)>>)'
    BY DEF CopiesOK
  <2>1. ~ last
    BY <1>1
  <2>2. time' - 1 = time - 2
    BY <1>1, <1>2, <2>1
  <2>3. saved = <<Entered, (Entered - 1) % (lag + 1), (Entered - 1) % (lag + 1)>>
    BY <1>1, <1>2 DEF CopiesOK
  <2> QED
    BY <1>1, <1>3, <1>8, <2>1, <2>2, <2>3
<1> QED
  BY <1>7, <1>14, <1>15, <1>16, <1>17, <1>18 DEF IInv

-------------------------------------------------------------------------------
(***************************************************************************)
(* The theorems.                                                           *)
(***************************************************************************)
\* The inductive invariant holds.  (All of Dbn: EnterEvidence, ForwardFirst, Forward,
\* Backward, BackwardFixLag and the procedures that call them.)
THEOREM Invariance == Spec => []IInv
<1>1. Init => IInv
  BY InitInv
<1>2. IInv /\ [Next]_vars => IInv'
  <2> SUFFICES ASSUME IInv, [Next]_vars PROVE IInv'
    OBVIOUS
  <2>1. CASE DefineProcedure("ptFiltering", 0)
    BY <2>1, DefineProcedureInv
  <2>2. CASE \E l \in 0 .. MaxLag : DefineProcedure("ptFixLagSmoothing", l)
    <3>1. PICK l \in 0 .. MaxLag : DefineProcedure("ptFixLagSmoothing", l)
      BY <2>2
    <3>2. l \in Nat
      BY DbnAssumption DEF DbnAssumption
    <3> QED
      BY <3>1, <3>2, DefineProcedureInv
  <2>3. CASE \E l \in 1 .. MaxTime : DefineProcedure("ptSmoothing", l)
    <3>1. PICK l \in 1 .. MaxTime : DefineProcedure("ptSmoothing", l)
      BY <2>3
    <3>2. l \in Nat /\ l >= 1
      BY DbnAssumption DEF DbnAssumption
    <3> QED
      BY <3>1, <3>2, DefineProcedureInv
  <2>4. CASE \E o \in BOOLEAN : EnterEvidence(o)
    BY <2>4, EnterEvidenceInv
  <2>5. CASE Start
    BY <2>5, StartInv
  <2>6. CASE ForwardStep
    BY <2>6, ForwardStepInv
  <2>7. CASE SmoothingStep
    BY <2>7, SmoothingStepInv
  <2>8. CASE FixLagStep
    BY <2>8, FixLagStepInv
  <2>9. CASE Prediction
    BY <2>9, PredictionInv
  <2>10. CASE UNCHANGED vars
    <3>1. UNCHANGED <<procedure, lag, time, jt, sep, ev, jtIter, sepIter, pc, copy, saved,
                      observed, predicted>>
      BY <2>10 DEF vars
    <3>2. Progress' /\ TreesOK' /\ SepsOK' /\ IteratorsOK' /\ EvidencesOK' /\ CopiesOK'
      <4>1. Size' = Size /\ Entered' = Entered /\ Top' = Top
        BY <3>1 DEF Size, Entered, Top
      <4>2. Kept' = Kept
        BY <3>1, <4>1 DEF Kept
      <4>3. \A s : TreeAt(s)' = TreeAt(s)
        <5>1. \A s : Calculated(s)' <=> Calculated(s)
          BY <3>1 DEF Calculated
        <5> QED
          BY <3>1, <4>1, <5>1 DEF TreeAt
      <4>4. Progress'
        BY <3>1, <4>1 DEF IInv, Progress
      <4>5. TreesOK'
        BY <3>1, <4>1, <4>2, <4>3 DEF IInv, TreesOK
      <4>6. SepsOK'
        BY <3>1, <4>1 DEF IInv, SepsOK
      <4>7. IteratorsOK' /\ EvidencesOK' /\ CopiesOK'
        BY <3>1, <4>1 DEF IInv, IteratorsOK, EvidencesOK, CopiesOK
      <4> QED
        BY <4>4, <4>5, <4>6, <4>7
    <3> QED
      BY <3>2 DEF IInv
  <2> QED
    BY <2>1, <2>2, <2>3, <2>4, <2>5, <2>6, <2>7, <2>8, <2>9, <2>10 DEF Next
<1> QED
  BY <1>1, <1>2, PTL DEF Spec

\* The tree that a query for a slice of the procedure takes
LEMMA QueryTree ==
  ASSUME IInv, NEW q \in SliceQueries
  PROVE  /\ procedure # "None" /\ pc = "Idle" /\ LastSlice \in Nat /\ LastSlice < MaxTime
         /\ LastSlice + 1 = Top /\ q[2] \in 0 .. LastSlice /\ q[2] >= Top - Size
         /\ At(jt, q[1]) = TreeOf(IF predicted THEN Empty(q[2]) ELSE Evid(q[2]),
                                  Whole(observed, q[2], LastSlice + 1))
<1>0. q \in QuerySlots /\ q[2] <= LastSlice
  BY DEF SliceQueries
<1>1. pc = "Idle" /\ time # 0 /\ procedure # "None"
  BY <1>0 DEF QuerySlots, IInv, Progress
<1>2. /\ Progress /\ TreesOK /\ time \in Nat /\ lag \in Nat /\ Entered \in Nat /\ Top \in Nat
      /\ time <= Entered /\ Entered <= MaxTime
  BY <1>1, Sizes DEF IInv, Progress
<1>3. CASE procedure = "ptFiltering"
  <2>1. q = <<0, time - 1>> /\ lag = 0 /\ Size = 1 /\ Top = time /\ LastSlice = time - 1
    BY <1>0, <1>1, <1>2, <1>3 DEF QuerySlots, Progress, Size, Top, LastSlice
  <2>2. time - 1 \in Kept /\ ~ Calculated(time - 1)
    BY <1>1, <1>2, <1>3, <2>1 DEF Kept, Calculated
  <2>3. Holds(jt, 1, time - 1, TreeAt(time - 1)) /\ Len(jt) = 1
    BY <1>1, <1>2, <2>1, <2>2 DEF TreesOK
  <2>4. (time - 1) % 1 = 0 /\ 0 % 1 = 0
    BY <1>2
  <2>5. At(jt, 0) = TreeAt(time - 1)
    BY <2>3, <2>4 DEF Holds, At, Slot
  <2>6. Whole(observed, time - 1, time) = Past(observed, time - 1)
    BY <1>2, WholeLast
  <2>7. TreeAt(time - 1) = TreeOf(IF predicted THEN Empty(time - 1) ELSE Evid(time - 1),
                                  Whole(observed, time - 1, time))
    BY <2>2, <2>6 DEF TreeAt
  <2>8. q[1] = 0 /\ q[2] = time - 1
    BY <2>1
  <2>9. /\ LastSlice \in Nat /\ LastSlice < MaxTime /\ LastSlice + 1 = time
        /\ time - 1 \in 0 .. LastSlice /\ time - 1 >= time - Size
    BY <1>1, <1>2, <2>1, DbnAssumption DEF DbnAssumption
  <2>10. At(jt, q[1]) = TreeOf(IF predicted THEN Empty(q[2]) ELSE Evid(q[2]),
                               Whole(observed, q[2], LastSlice + 1))
    BY <2>5, <2>7, <2>8, <2>9
  <2> QED
    BY <1>1, <2>1, <2>8, <2>9, <2>10
<1>4. CASE procedure = "ptFixLagSmoothing"
  <2> DEFINE s == time - lag - 1
  <2>1. q = <<s, s>> /\ ~ predicted /\ Size = lag + 1 /\ Top = time /\ LastSlice = time - 1 /\ time >= lag + 1
    BY <1>0, <1>1, <1>2, <1>4 DEF QuerySlots, Progress, Size, Top, LastSlice
  <2>2. s \in Kept /\ Calculated(s)
    BY <1>1, <1>2, <1>4, <2>1 DEF Kept, Calculated
  <2>3. Holds(jt, Size, s, TreeAt(s)) /\ Len(jt) = Size
    BY <1>1, <1>2, <2>2 DEF TreesOK
  <2>4. At(jt, s) = TreeAt(s)
    BY <2>3 DEF Holds, At, Slot
  <2>5. TreeAt(s) = TreeOf(Evid(s), Whole(observed, s, time))
    BY <2>1, <2>2 DEF TreeAt
  <2>6. q[1] = s /\ q[2] = s
    BY <2>1
  <2>7. /\ LastSlice \in Nat /\ LastSlice < MaxTime /\ LastSlice + 1 = time
        /\ s \in 0 .. LastSlice /\ s >= time - Size
    BY <1>1, <1>2, <2>1, DbnAssumption DEF DbnAssumption
  <2>8. At(jt, q[1]) = TreeOf(IF predicted THEN Empty(q[2]) ELSE Evid(q[2]),
                              Whole(observed, q[2], LastSlice + 1))
    BY <2>1, <2>4, <2>5, <2>6, <2>7
  <2> HIDE DEF s
  <2> QED
    BY <1>1, <2>1, <2>6, <2>7, <2>8
<1>5. CASE procedure = "ptSmoothing"
  <2>1. PICK s \in 0 .. lag - 1 : q = <<s, s>>
    <3>1. PICK s \in 0 .. lag : q = <<s, s>>
      BY <1>0, <1>1, <1>5 DEF QuerySlots
    <3>2. s <= lag - 1
      BY <1>0, <1>2, <1>5, <3>1 DEF LastSlice
    <3> QED
      BY <1>2, <3>1, <3>2
  <2>2. ~ predicted /\ Size = lag /\ Top = lag /\ Entered = lag /\ LastSlice = lag - 1 /\ lag >= 1
    BY <1>1, <1>2, <1>5 DEF Progress, Size, Top, LastSlice
  <2>3. s \in Kept /\ Calculated(s)
    BY <1>1, <1>2, <1>5, <2>2 DEF Kept, Calculated
  <2>4. Holds(jt, Size, s, TreeAt(s)) /\ Len(jt) = Size
    BY <1>1, <1>2, <2>3 DEF TreesOK
  <2>5. At(jt, s) = TreeAt(s)
    BY <2>4 DEF Holds, At, Slot
  <2>6. TreeAt(s) = TreeOf(Evid(s), Whole(observed, s, lag))
    BY <2>2, <2>3 DEF TreeAt
  <2>7. q[1] = s /\ q[2] = s
    BY <2>1
  <2>8. /\ LastSlice \in Nat /\ LastSlice < MaxTime /\ LastSlice + 1 = lag
        /\ s \in 0 .. LastSlice /\ s >= lag - Size
    BY <1>2, <2>2, DbnAssumption DEF DbnAssumption
  <2>9. At(jt, q[1]) = TreeOf(IF predicted THEN Empty(q[2]) ELSE Evid(q[2]),
                              Whole(observed, q[2], LastSlice + 1))
    BY <2>2, <2>5, <2>6, <2>7, <2>8
  <2> QED
    BY <1>1, <2>2, <2>7, <2>8, <2>9
<1> QED
  BY <1>1, <1>2, <1>3, <1>4, <1>5 DEF Progress

\* A query that is accepted for a slice that the procedure does not have takes the tree
\* of slice 0.
LEMMA QueryWraps ==
  ASSUME IInv, NEW q \in QuerySlots, q \notin SliceQueries
  PROVE  /\ procedure = "ptSmoothing" /\ q[2] = lag
         /\ <<0, 0>> \in SliceQueries /\ At(jt, q[1]) = At(jt, 0)
<1>1. pc = "Idle" /\ time # 0 /\ procedure # "None" /\ ~ (q[2] <= LastSlice)
  BY DEF QuerySlots, SliceQueries, IInv, Progress
<1>2. /\ Progress /\ TreesOK /\ time \in Nat /\ lag \in Nat
  BY <1>1, Sizes DEF IInv, Progress
<1>3. procedure = "ptSmoothing"
  <2>1. CASE procedure = "ptFiltering"
    <3>1. q = <<0, time - 1>> /\ LastSlice = time - 1
      BY <1>1, <2>1 DEF QuerySlots, LastSlice
    <3> QED
      BY <1>1, <1>2, <3>1
  <2>2. CASE procedure = "ptFixLagSmoothing"
    <3>1. q = <<time - lag - 1, time - lag - 1>> /\ LastSlice = time - 1
      BY <1>1, <2>2 DEF QuerySlots, LastSlice
    <3> QED
      BY <1>1, <1>2, <3>1
  <2> QED
    BY <1>1, <1>2, <2>1, <2>2 DEF Progress
<1>4. PICK s \in 0 .. lag : q = <<s, s>>
  BY <1>1, <1>3 DEF QuerySlots
<1>5. LastSlice = lag - 1 /\ lag >= 1 /\ Size = lag /\ Len(jt) = lag
  BY <1>1, <1>2, <1>3 DEF LastSlice, Progress, Size, TreesOK
<1>6. q[1] = lag /\ q[2] = lag
  BY <1>1, <1>2, <1>4, <1>5
<1>7. lag % lag = 0 /\ 0 % lag = 0
  BY <1>2, <1>5
<1>8. At(jt, q[1]) = At(jt, 0)
  BY <1>5, <1>6, <1>7 DEF At, Slot
<1>9. <<0, 0>> \in QuerySlots
  BY <1>1, <1>2, <1>3 DEF QuerySlots
<1> QED
  BY <1>2, <1>3, <1>5, <1>6, <1>8, <1>9 DEF SliceQueries

\* Related says in terms of the program what Whole says.
LEMMA RelatedIsWhole ==
  ASSUME LastSlice \in Nat, LastSlice < MaxTime, NEW s \in 0 .. LastSlice
  PROVE  [r \in Slice |-> IF r \in Related(s) THEN 1 ELSE 0] = Whole(observed, s, LastSlice + 1)
<1> DEFINE m == LastSlice
<1>1. ASSUME NEW r \in Slice
      PROVE  r \in Related(s) <=>
               r <= (m + 1) - 1 /\ Clear(observed, r, s) /\ Clear(observed, s, r)
  <2>1. r \in Nat /\ s \in Nat /\ m \in Nat
    BY SliceNat
  <2>2. r <= (m + 1) - 1 <=> r \in 0 .. m
    BY <2>1
  <2>3. CASE r \in 0 .. m
    <3>1. Clear(observed, r, s) <=> \A k \in 0 .. m : r <= k /\ k < s => ~ IsObserved(k)
      BY <2>1, <2>3 DEF Clear, IsObserved
    <3>2. Clear(observed, s, r) <=> \A k \in 0 .. m : s <= k /\ k < r => ~ IsObserved(k)
      BY <2>1, <2>3 DEF Clear, IsObserved
    <3> QED
      BY <2>2, <2>3, <3>1, <3>2 DEF Related
  <2>4. CASE ~ (r \in 0 .. m)
    BY <2>2, <2>4 DEF Related
  <2> QED
    BY <2>3, <2>4
<1> QED
  BY <1>1 DEF Whole

\* Every marginal of a slice that the procedure has is computed from the distributions
\* and the evidence of each slice that bears on it, once; whatever the number of slices
\* and the lag.  (Forward, Backward,
\* BackwardFixLag)
THEOREM SmoothedOnce == Spec => []SmoothedExact
<1>1. IInv => SmoothedExact
  <2> SUFFICES ASSUME IInv, NEW q \in SliceQueries
               PROVE  At(jt, q[1]).power = [s \in Slice |-> IF s \in Related(q[2]) THEN 1 ELSE 0]
    BY DEF SmoothedExact
  <2>1. /\ LastSlice \in Nat /\ LastSlice < MaxTime /\ q[2] \in 0 .. LastSlice
        /\ At(jt, q[1]).power = Whole(observed, q[2], LastSlice + 1)
    BY QueryTree, TreeParts
  <2> QED
    BY <2>1, RelatedIsWhole
<1> QED
  BY <1>1, Invariance, PTL

\* The tree that a query for a slice of the procedure takes has the evidence of that
\* slice, with the values of the interface of the slice before under the right numbers.
\* (EnterEvidence)
THEOREM EvidenceRight == Spec => []EvidenceExact
<1>1. IInv => EvidenceExact
  <2> SUFFICES ASSUME IInv, NEW q \in SliceQueries, NEW e, e = At(jt, q[1]).evidence
               PROVE  /\ e.slice = q[2]
                      /\ e.at # "Empty" /\ e.slice > 0 =>
                           /\ e.from = e.slice - 1
                           /\ e.at = IF e.from = 0 THEN "IntNdsPriorSlice" ELSE "RootNdsISlice"
    BY DEF EvidenceExact
  <2>1. e = IF predicted THEN Empty(q[2]) ELSE Evid(q[2])
    BY QueryTree, TreeParts
  <2>2. q[2] \in Nat
    BY QueryTree
  <2> QED
    BY <2>1, <2>2 DEF Evid, Empty
<1> QED
  BY <1>1, Invariance, PTL

\* The query that MarginalNodes accepts for slice m_Lag in smoothing, one past the last,
\* is answered from the tree of slice 0, whatever the lag.  (PNL_CHECK_RANGES, CRing)
OnePastTheLast ==
  \A q \in QuerySlots \ SliceQueries :
    /\ procedure = "ptSmoothing" /\ q[2] = lag
    /\ <<0, 0>> \in SliceQueries /\ At(jt, q[1]) = At(jt, 0)

THEOREM SliceZeroAnswers == Spec => []OnePastTheLast
<1>1. IInv => OnePastTheLast
  BY QueryWraps DEF OnePastTheLast
<1> QED
  BY <1>1, Invariance, PTL

\* No tree that is asked, nor one whose evidence a backward step reads, refers to an
\* evidence that is deleted.  (EnterEvidence, CJtreeInfEngine::m_pEvidence)
THEOREM EvidenceKept == Spec => []EvidenceAlive
<1>1. ASSUME IInv, procedure # "None", ~ predicted, Entered >= Size,
             NEW s \in 0 .. Entered - 1, s >= Entered - Size
      PROVE  \E i \in 1 .. Len(ev) : ev[i] = Evid(s)
  <2>1. Size \in Nat \ {0} /\ Entered \in Nat
    BY <1>1, Sizes DEF IInv
  <2>2. Len(ev) = Size /\ Holds(ev, Size, s, Evid(s))
    BY <1>1, <2>1 DEF IInv, EvidencesOK
  <2>3. s % Size \in 0 .. Size - 1
    BY <1>1, <2>1, Division
  <2>4. (s % Size) + 1 \in 1 .. Len(ev)
    BY <2>1, <2>2, <2>3
  <2> QED
    BY <2>2, <2>4 DEF Holds
<1>2. IInv => EvidenceAlive
  <2> SUFFICES ASSUME IInv PROVE EvidenceAlive
    OBVIOUS
  <2>1. ASSUME Entered = time, NEW q \in QuerySlots, ~ predicted
        PROVE  \E i \in 1 .. Len(ev) : ev[i] = At(jt, q[1]).evidence
    <3>0. PICK p \in SliceQueries : At(jt, q[1]) = At(jt, p[1])
      <4>1. CASE q \in SliceQueries
        BY <4>1
      <4>2. CASE q \notin SliceQueries
        <5>1. <<0, 0>> \in SliceQueries /\ At(jt, q[1]) = At(jt, 0)
          BY <2>1, <4>2, QueryWraps
        <5> QED
          BY <5>1
      <4> QED
        BY <4>1, <4>2
    <3>1. /\ procedure # "None" /\ pc = "Idle" /\ p[2] \in 0 .. Top - 1 /\ p[2] >= Top - Size
          /\ At(jt, q[1]).evidence = Evid(p[2])
      BY <2>1, <3>0, QueryTree, TreeParts
    <3>2. Top = Entered /\ time # 0
      BY <2>1, <3>1 DEF Top, QuerySlots
    <3>3. Entered >= Size
      BY <2>1, <3>1, <3>2 DEF IInv, Progress, Size
    <3> QED
      BY <1>1, <2>1, <3>1, <3>2, <3>3
  <2>2. ASSUME pc \in {"Backward", "BackwardFixLag"}
        PROVE  \E i \in 1 .. Len(ev) : ev[i] = At(jt, jtIter).evidence
    <3>1. /\ procedure # "None" /\ ~ predicted
          /\ At(jt, jtIter) = TreeOf(Evid(time - 1), Whole(observed, time - 1, Entered))
      BY <2>2, StepBackward DEF IInv
    <3>2. At(jt, jtIter).evidence = Evid(time - 1)
      BY <3>1, TreeParts
    <3>3. Entered >= Size /\ time - 1 \in 0 .. Entered - 1 /\ time - 1 >= Entered - Size
      <4>1. procedure \in {"ptFixLagSmoothing", "ptSmoothing"} /\ Entered \in Nat
        BY <2>2 DEF IInv, Progress, Entered
      <4> QED
        BY <2>2, <4>1 DEF IInv, Progress, Size
    <3> QED
      BY <1>1, <3>1, <3>2, <3>3
  <2> QED
    BY <2>1, <2>2 DEF EvidenceAlive
<1> QED
  BY <1>2, Invariance, PTL

===============================================================================
