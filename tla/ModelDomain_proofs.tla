-------------------------- MODULE ModelDomain_proofs --------------------------
(* Who deletes a factor, and when a domain goes: proofs for any number of     *)
(* domains, models and factors, and any capacity of the sets of factors.      *)
EXTENDS ModelDomain, FiniteSetTheorems, TLAPS

-----------------------------------------------------------------------------
(* The inductive invariant.                                                   *)

Owned(f) == IsAFactorOwner(md[f], f)

\* A model that does not exist has no factors.
NoModelNoFactors == \A m \in Model : modelMD[m] = NULL => facts[m] = <<>>

\* What holds in the middle of a constructor, a copy or a destructor.
Progress ==
  /\ pc.at = "AddFactor" =>
       /\ pc.factor \in alive /\ ~Held(pc.factor)
       /\ modelMD[pc.model] # NULL /\ md[pc.factor] = modelMD[pc.model]
  /\ pc.at = "Copy" =>
       /\ pc.model # pc.from
       /\ modelMD[pc.from] # NULL /\ modelMD[pc.model] = modelMD[pc.from]
       /\ Len(facts[pc.model]) <= Len(facts[pc.from])
       /\ \A i \in DOMAIN facts[pc.model] : Owned(facts[pc.model][i])
  /\ pc.at = "ChangeOwner" =>
       /\ modelMD[pc.model] # NULL
       /\ \A i \in DOMAIN facts[pc.model] : i >= pc.next => Owned(facts[pc.model][i])
  /\ pc.at = "~CFactors" =>
       /\ modelMD[pc.model] # NULL
       /\ \A i \in DOMAIN facts[pc.model] : i < pc.next => facts[pc.model][i] \notin alive
  /\ pc.at = "~CModelDomain" =>
       /\ pc.domain \in domains /\ Models(pc.domain) = {}
       /\ \A i \in DOMAIN heap[pc.domain] : i < pc.next => heap[pc.domain][i] = NULL

DomainInv == TypeOK /\ HeapSound /\ DeletedOnce /\ DomainOutlivesModels /\ NoModelNoFactors /\ Progress

-----------------------------------------------------------------------------
(* One heap: its cells and the queue of free numbers.                         *)

Cell == Factor \cup {NULL}

FreeOK(cells, nums) ==
  /\ \A j \in DOMAIN nums : nums[j] \in DOMAIN cells /\ cells[nums[j]] = NULL
  /\ \A j, k \in DOMAIN nums : nums[j] = nums[k] => j = k

\* The pointer f is put into cell k, which held none, and no other cell changes.
Took(cells, cells2, k, f) ==
  /\ k \in Nat /\ k \in DOMAIN cells2 /\ cells2[k] = f
  /\ k \in DOMAIN cells => cells[k] = NULL
  /\ \A i \in DOMAIN cells2 : i # k => i \in DOMAIN cells /\ cells2[i] = cells[i]
  /\ DOMAIN cells \subseteq DOMAIN cells2

\* The heap grows by a cell.
LEMMA CellAppended ==
  ASSUME NEW cells \in Seq(Cell), NEW f \in Factor
  PROVE  /\ Append(cells, f) \in Seq(Cell)
         /\ Took(cells, Append(cells, f), Len(cells) + 1, f)
         /\ FreeOK(Append(cells, f), <<>>)
<1> DEFINE more == Append(cells, f)
           k == Len(cells) + 1
<1>1. f \in Cell
  BY DEF Cell
<1>2. /\ more \in Seq(Cell)
      /\ DOMAIN cells = 1 .. Len(cells) /\ Len(cells) \in Nat
      /\ DOMAIN more = 1 .. Len(cells) + 1
      /\ \A i \in DOMAIN more : more[i] = IF i = k THEN f ELSE cells[i]
  BY <1>1
<1> HIDE DEF more
<1>3. Took(cells, more, k, f)
  BY <1>2 DEF Took
<1>4. FreeOK(more, <<>>)
  BY DEF FreeOK
<1> QED
  BY <1>2, <1>3, <1>4 DEF more

\* The free cell that was queued first is used again.
LEMMA CellReused ==
  ASSUME NEW cells \in Seq(Cell), NEW nums \in Seq(Nat), FreeOK(cells, nums), nums # <<>>,
         NEW f \in Factor
  PROVE  /\ [cells EXCEPT ![Head(nums)] = f] \in Seq(Cell) /\ Tail(nums) \in Seq(Nat)
         /\ Took(cells, [cells EXCEPT ![Head(nums)] = f], Head(nums), f)
         /\ FreeOK([cells EXCEPT ![Head(nums)] = f], Tail(nums))
<1> DEFINE k == Head(nums)
           rest == Tail(nums)
           cells2 == [cells EXCEPT ![k] = f]
<1>1. /\ k = nums[1] /\ 1 \in DOMAIN nums /\ rest \in Seq(Nat)
      /\ \A j \in DOMAIN rest : j \in Nat /\ j + 1 \in DOMAIN nums /\ j + 1 # 1 /\ rest[j] = nums[j + 1]
  OBVIOUS
<1> HIDE DEF k, rest
<1>2. k \in DOMAIN cells /\ cells[k] = NULL /\ k \in Nat
  BY <1>1 DEF FreeOK
<1>3. f \in Cell
  BY DEF Cell
<1>4. /\ cells2 \in Seq(Cell) /\ DOMAIN cells2 = DOMAIN cells
      /\ \A i \in DOMAIN cells : cells2[i] = IF i = k THEN f ELSE cells[i]
  BY <1>2, <1>3
<1> HIDE DEF cells2
<1>5. Took(cells, cells2, k, f)
  BY <1>2, <1>4 DEF Took
<1>6. \A j \in DOMAIN rest : rest[j] # k /\ rest[j] \in DOMAIN cells /\ cells[rest[j]] = NULL
  BY <1>1 DEF FreeOK
<1>7. \A j, l \in DOMAIN rest : rest[j] = rest[l] => j = l
  <2> SUFFICES ASSUME NEW j \in DOMAIN rest, NEW l \in DOMAIN rest, rest[j] = rest[l]
               PROVE  j = l
    OBVIOUS
  <2>1. nums[j + 1] = nums[l + 1] /\ j + 1 \in DOMAIN nums /\ l + 1 \in DOMAIN nums
    BY <1>1
  <2>2. j + 1 = l + 1
    BY <2>1 DEF FreeOK
  <2> QED
    BY <1>1, <2>2
<1>8. FreeOK(cells2, rest)
  BY <1>4, <1>6, <1>7 DEF FreeOK
<1> QED
  BY <1>1, <1>4, <1>5, <1>8 DEF k, rest, cells2

\* A cell that held a pointer was not in the queue yet.
LEMMA CellFreed ==
  ASSUME NEW cells \in Seq(Cell), NEW nums \in Seq(Nat), FreeOK(cells, nums),
         NEW k \in DOMAIN cells, cells[k] # NULL
  PROVE  /\ [cells EXCEPT ![k] = NULL] \in Seq(Cell)
         /\ Append(nums, k) \in Seq(Nat)
         /\ FreeOK([cells EXCEPT ![k] = NULL], Append(nums, k))
<1> DEFINE cells2 == [cells EXCEPT ![k] = NULL]
           nums2 == Append(nums, k)
<1>1. /\ cells2 \in Seq(Cell) /\ DOMAIN cells2 = DOMAIN cells
      /\ \A i \in DOMAIN cells : cells2[i] = IF i = k THEN NULL ELSE cells[i]
      /\ k \in Nat
  BY DEF Cell
<1>2. /\ nums2 \in Seq(Nat)
      /\ DOMAIN nums = 1 .. Len(nums) /\ Len(nums) \in Nat /\ DOMAIN nums2 = 1 .. Len(nums) + 1
      /\ \A j \in DOMAIN nums2 : nums2[j] = IF j \in DOMAIN nums THEN nums[j] ELSE k
      /\ \A j \in DOMAIN nums2 : j \notin DOMAIN nums => j = Len(nums) + 1
  BY <1>1
<1>3. \A j \in DOMAIN nums : nums[j] # k
  BY DEF FreeOK
<1> HIDE DEF cells2, nums2
<1>4. \A j \in DOMAIN nums2 : nums2[j] \in DOMAIN cells2 /\ cells2[nums2[j]] = NULL
  BY <1>1, <1>2, <1>3 DEF FreeOK
<1>5. \A j, l \in DOMAIN nums2 : nums2[j] = nums2[l] => j = l
  BY <1>2, <1>3 DEF FreeOK
<1>6. FreeOK(cells2, nums2)
  BY <1>4, <1>5 DEF FreeOK
<1> QED
  BY <1>1, <1>2, <1>6 DEF cells2, nums2

-----------------------------------------------------------------------------
(* All heaps: what a constructor, a release and a destructor do to them.      *)

HeapState ==
  /\ heap \in [Domain -> Seq(Cell)]
  /\ freeNums \in [Domain -> Seq(Nat)]
  /\ alive \subseteq Factor
  /\ md \in [Factor -> Domain \cup {NULL}]
  /\ num \in [Factor -> Nat]
  /\ \A f \in alive : md[f] \in Domain
  /\ HeapSound

\* AttachFactor touches one heap.
LEMMA AttachStep ==
  ASSUME HeapState, NEW d \in Domain, NEW f \in Factor, AttachFactor(d, f)
  PROVE  /\ heap' \in [Domain -> Seq(Cell)] /\ freeNums' \in [Domain -> Seq(Nat)]
         /\ \A e \in Domain : e # d => heap'[e] = heap[e] /\ freeNums'[e] = freeNums[e]
         /\ FreeOK(heap'[d], freeNums'[d])
         /\ \E k \in Nat : num' = [num EXCEPT ![f] = k] /\ Took(heap[d], heap'[d], k, f)
<1> DEFINE cells == heap[d]
           nums == freeNums[d]
<1>1. /\ heap \in [Domain -> Seq(Cell)] /\ freeNums \in [Domain -> Seq(Nat)]
      /\ cells \in Seq(Cell) /\ nums \in Seq(Nat) /\ FreeOK(cells, nums)
  BY DEF HeapState, HeapSound, FreeOK
<1>2. num' = [num EXCEPT ![f] = NextNum(d)]
  BY DEF AttachFactor
<1>3. CASE nums = <<>>
  <2>1. /\ heap' = [heap EXCEPT ![d] = Append(cells, f)] /\ freeNums' = freeNums
        /\ NextNum(d) = Len(cells) + 1
    BY <1>3 DEF AttachFactor, NextNum
  <2>2. /\ Append(cells, f) \in Seq(Cell)
        /\ Took(cells, Append(cells, f), Len(cells) + 1, f)
        /\ FreeOK(Append(cells, f), <<>>)
    BY <1>1, CellAppended
  <2>3. Len(cells) + 1 \in Nat
    BY <2>2 DEF Took
  <2> HIDE DEF cells
  <2>4. heap'[d] = Append(cells, f) /\ \A e \in Domain : e # d => heap'[e] = heap[e]
    BY <1>1, <2>1
  <2>5. heap' \in [Domain -> Seq(Cell)]
    BY <1>1, <2>1, <2>2
  <2> QED
    BY <1>1, <1>2, <1>3, <2>1, <2>2, <2>3, <2>4, <2>5 DEF cells
<1>4. CASE nums # <<>>
  <2> DEFINE k == Head(nums)
             cells2 == [cells EXCEPT ![k] = f]
  <2>1. /\ heap' = [heap EXCEPT ![d] = cells2] /\ freeNums' = [freeNums EXCEPT ![d] = Tail(nums)]
        /\ NextNum(d) = k
    BY <1>1, <1>4 DEF AttachFactor, NextNum
  <2>2. /\ cells2 \in Seq(Cell) /\ Tail(nums) \in Seq(Nat)
        /\ Took(cells, cells2, k, f)
        /\ FreeOK(cells2, Tail(nums))
    BY <1>1, <1>4, CellReused
  <2>3. k \in Nat
    BY <2>2 DEF Took
  <2> HIDE DEF cells2, cells, nums, k
  <2>4. /\ heap'[d] = cells2 /\ freeNums'[d] = Tail(nums)
        /\ \A e \in Domain : e # d => heap'[e] = heap[e] /\ freeNums'[e] = freeNums[e]
    BY <1>1, <2>1
  <2>5. heap' \in [Domain -> Seq(Cell)] /\ freeNums' \in [Domain -> Seq(Nat)]
    BY <1>1, <2>1, <2>2
  <2> QED
    BY <1>2, <2>1, <2>2, <2>3, <2>4, <2>5 DEF cells
<1> QED
  BY <1>3, <1>4

\* A new factor is owned by its domain, and no other factor loses its cell.
LEMMA NewFactorStep ==
  ASSUME HeapState, NEW d \in Domain, NEW f \in Factor, NewFactor(d, f)
  PROVE  /\ HeapState' /\ f \notin alive /\ alive' = alive \cup {f} /\ md'[f] = d /\ Owned(f)'
         /\ \A g \in alive : md'[g] = md[g] /\ (Owned(g) => Owned(g)')
<1>1. /\ f \notin alive /\ alive' = alive \cup {f} /\ md' = [md EXCEPT ![f] = d]
      /\ AttachFactor(d, f)
  BY DEF NewFactor
<1>2. /\ heap' \in [Domain -> Seq(Cell)] /\ freeNums' \in [Domain -> Seq(Nat)]
      /\ \A e \in Domain : e # d => heap'[e] = heap[e] /\ freeNums'[e] = freeNums[e]
      /\ FreeOK(heap'[d], freeNums'[d])
      /\ \E k \in Nat : num' = [num EXCEPT ![f] = k] /\ Took(heap[d], heap'[d], k, f)
  BY <1>1, AttachStep
<1>3. PICK k \in Nat : num' = [num EXCEPT ![f] = k] /\ Took(heap[d], heap'[d], k, f)
  BY <1>2
<1>4. /\ md'[f] = d /\ num'[f] = k
      /\ \A g \in Factor : g # f => md'[g] = md[g] /\ num'[g] = num[g]
      /\ md' \in [Factor -> Domain \cup {NULL}] /\ num' \in [Factor -> Nat]
  BY <1>1, <1>3 DEF HeapState
<1>5. Owned(f)'
  BY <1>3, <1>4 DEF Owned, IsAFactorOwner, Took
<1>6. \A g \in alive : g # f /\ g \in Factor /\ g # NULL /\ md[g] \in Domain
  BY <1>1, DomainAssumption DEF HeapState, DomainAssumption
<1>7. ASSUME NEW g \in alive, Owned(g)
      PROVE  Owned(g)'
  <2>1. /\ md'[g] = md[g] /\ num'[g] = num[g] /\ md[g] \in Domain /\ g # NULL
        /\ num[g] \in DOMAIN heap[md[g]] /\ heap[md[g]][num[g]] = g
    BY <1>4, <1>6, <1>7 DEF Owned, IsAFactorOwner
  <2>2. CASE md[g] # d
    BY <1>2, <2>1, <2>2 DEF Owned, IsAFactorOwner
  <2>3. CASE md[g] = d
    <3>1. num[g] # k /\ num[g] \in DOMAIN heap'[d]
      BY <1>3, <2>1, <2>3 DEF Took
    <3>2. heap'[d][num[g]] = g
      BY <1>3, <2>1, <2>3, <3>1 DEF Took
    <3> QED
      BY <2>1, <2>3, <3>1, <3>2 DEF Owned, IsAFactorOwner
  <2> QED
    BY <2>2, <2>3
<1>8. HeapSound'
  <2>1. ASSUME NEW e \in Domain, NEW i \in DOMAIN heap'[e], heap'[e][i] # NULL
        PROVE  heap'[e][i] \in alive' /\ md'[heap'[e][i]] = e /\ num'[heap'[e][i]] = i
    <3>1. CASE e = d /\ i = k
      BY <1>1, <1>3, <1>4, <3>1 DEF Took
    <3>2. CASE e # d \/ i # k
      <4>1. i \in DOMAIN heap[e] /\ heap'[e][i] = heap[e][i]
        BY <1>2, <1>3, <3>2 DEF Took
      <4>2. heap[e][i] \in alive /\ md[heap[e][i]] = e /\ num[heap[e][i]] = i
        BY <2>1, <4>1 DEF HeapState, HeapSound
      <4> DEFINE g == heap[e][i]
      <4>3. g \in alive /\ md[g] = e /\ num[g] = i /\ heap'[e][i] = g
        BY <4>1, <4>2
      <4> HIDE DEF g
      <4> QED
        BY <1>1, <1>4, <1>6, <4>3
    <3> QED
      BY <3>1, <3>2
  <2>2. \A e \in Domain : FreeOK(heap'[e], freeNums'[e])
    <3>1. \A e \in Domain : FreeOK(heap[e], freeNums[e])
      BY DEF HeapState, HeapSound, FreeOK
    <3> QED
      BY <1>2, <3>1
  <2> SUFFICES ASSUME NEW e \in Domain
               PROVE  /\ \A i \in DOMAIN heap'[e] : heap'[e][i] # NULL =>
                           heap'[e][i] \in alive' /\ md'[heap'[e][i]] = e /\ num'[heap'[e][i]] = i
                      /\ FreeOK(heap'[e], freeNums'[e])
    BY DEF HeapSound, FreeOK
  <2> QED
    BY <2>1, <2>2
<1>9. HeapState'
  BY <1>1, <1>2, <1>4, <1>6, <1>8 DEF HeapState
<1> QED
  BY <1>1, <1>4, <1>5, <1>6, <1>7, <1>9

\* A cell is given back.  Nothing but the factor's own cell changes.
LEMMA ReleaseStep ==
  ASSUME HeapState, NEW f \in alive, Owned(f), ReleaseFactor(f)
  PROVE  /\ heap' \in [Domain -> Seq(Cell)] /\ freeNums' \in [Domain -> Seq(Nat)]
         /\ \A e \in Domain : /\ DOMAIN heap'[e] = DOMAIN heap[e]
                              /\ \A i \in DOMAIN heap[e] :
                                   heap'[e][i] = IF e = md[f] /\ i = num[f] THEN NULL ELSE heap[e][i]
                              /\ FreeOK(heap'[e], freeNums'[e])
<1> DEFINE d == md[f]
           k == num[f]
           cells2 == [heap[d] EXCEPT ![k] = NULL]
           nums2 == Append(freeNums[d], k)
<1>1. /\ heap \in [Domain -> Seq(Cell)] /\ freeNums \in [Domain -> Seq(Nat)]
      /\ d \in Domain /\ f # NULL
      /\ \A e \in Domain : FreeOK(heap[e], freeNums[e])
      /\ heap[d] \in Seq(Cell) /\ freeNums[d] \in Seq(Nat)
  BY DomainAssumption DEF HeapState, HeapSound, FreeOK, DomainAssumption
<1>2. k \in DOMAIN heap[d] /\ heap[d][k] # NULL
  BY <1>1 DEF Owned, IsAFactorOwner
<1>3. heap' = [heap EXCEPT ![d] = cells2] /\ freeNums' = [freeNums EXCEPT ![d] = nums2]
  BY <1>1 DEF ReleaseFactor
<1>4. cells2 \in Seq(Cell) /\ nums2 \in Seq(Nat) /\ FreeOK(cells2, nums2)
  BY <1>1, <1>2, CellFreed
<1>5. /\ DOMAIN cells2 = DOMAIN heap[d]
      /\ \A i \in DOMAIN heap[d] : cells2[i] = IF i = k THEN NULL ELSE heap[d][i]
  OBVIOUS
<1> HIDE DEF cells2, nums2, d, k
<1>6. /\ heap'[d] = cells2 /\ freeNums'[d] = nums2
      /\ \A e \in Domain : e # d => heap'[e] = heap[e] /\ freeNums'[e] = freeNums[e]
      /\ heap' \in [Domain -> Seq(Cell)] /\ freeNums' \in [Domain -> Seq(Nat)]
  BY <1>1, <1>3, <1>4
<1> SUFFICES ASSUME NEW e \in Domain
             PROVE  /\ DOMAIN heap'[e] = DOMAIN heap[e]
                    /\ \A i \in DOMAIN heap[e] :
                         heap'[e][i] = IF e = d /\ i = k THEN NULL ELSE heap[e][i]
                    /\ FreeOK(heap'[e], freeNums'[e])
  BY <1>6 DEF d, k
<1>7. CASE e = d
  BY <1>4, <1>5, <1>6, <1>7
<1>8. CASE e # d
  BY <1>1, <1>6, <1>8
<1> QED
  BY <1>7, <1>8

\* After a release every other factor is where it was.
LEMMA ReleaseKeeps ==
  ASSUME HeapState, NEW f \in alive, Owned(f), ReleaseFactor(f), UNCHANGED factorVars
  PROVE  /\ HeapState'
         /\ \A g \in alive : g # f /\ Owned(g) => Owned(g)'
<1>1. /\ heap' \in [Domain -> Seq(Cell)] /\ freeNums' \in [Domain -> Seq(Nat)]
      /\ \A e \in Domain : /\ DOMAIN heap'[e] = DOMAIN heap[e]
                           /\ \A i \in DOMAIN heap[e] :
                                heap'[e][i] = IF e = md[f] /\ i = num[f] THEN NULL ELSE heap[e][i]
                           /\ FreeOK(heap'[e], freeNums'[e])
  BY ReleaseStep
<1>2. alive' = alive /\ md' = md /\ num' = num
  BY DEF factorVars
<1>3. \A e \in Domain : \A i \in DOMAIN heap'[e] : heap'[e][i] # NULL =>
        heap'[e][i] \in alive /\ md[heap'[e][i]] = e /\ num[heap'[e][i]] = i
  BY <1>1 DEF HeapState, HeapSound
<1>4. HeapSound'
  BY <1>1, <1>2, <1>3 DEF HeapSound, FreeOK
<1>5. HeapState'
  BY <1>1, <1>2, <1>4 DEF HeapState
<1>6. ASSUME NEW g \in alive, g # f, Owned(g)
      PROVE  Owned(g)'
  <2>1. /\ md[g] \in Domain /\ num[g] \in DOMAIN heap[md[g]] /\ heap[md[g]][num[g]] = g
        /\ heap[md[f]][num[f]] = f
    BY <1>6 DEF Owned, IsAFactorOwner, HeapState
  <2>2. ~(md[g] = md[f] /\ num[g] = num[f])
    BY <1>6, <2>1
  <2> QED
    BY <1>1, <1>2, <2>1, <2>2 DEF Owned, IsAFactorOwner
<1> QED
  BY <1>5, <1>6

\* A destructor leaves no pointer behind, whoever had owned the factor.
LEMMA DestroyStep ==
  ASSUME HeapState, NEW f \in alive, DestroyFactor(f)
  PROVE  /\ HeapState' /\ alive' = alive \ {f}
         /\ \A g \in alive' : md'[g] = md[g] /\ (Owned(g) => Owned(g)')
         /\ \A e \in Domain : /\ DOMAIN heap'[e] = DOMAIN heap[e]
                              /\ \A i \in DOMAIN heap[e] :
                                   heap'[e][i] = IF heap[e][i] = f THEN NULL ELSE heap[e][i]
<1>1. /\ alive' = alive \ {f} /\ md' = [md EXCEPT ![f] = NULL] /\ num' = [num EXCEPT ![f] = 0]
      /\ f \in Factor /\ f # NULL /\ md[f] \in Domain
      /\ \A g \in alive' : g \in alive /\ g # f /\ md'[g] = md[g] /\ num'[g] = num[g] /\ md[g] \in Domain
      /\ md' \in [Factor -> Domain \cup {NULL}] /\ num' \in [Factor -> Nat]
  BY DomainAssumption DEF DestroyFactor, HeapState, DomainAssumption
<1>2. \A e \in Domain : \A i \in DOMAIN heap[e] :
        heap[e][i] = f <=> Owned(f) /\ e = md[f] /\ i = num[f]
  BY <1>1 DEF HeapState, HeapSound, Owned, IsAFactorOwner
<1>3. /\ heap' \in [Domain -> Seq(Cell)] /\ freeNums' \in [Domain -> Seq(Nat)]
      /\ \A e \in Domain : /\ DOMAIN heap'[e] = DOMAIN heap[e]
                           /\ \A i \in DOMAIN heap[e] :
                                heap'[e][i] = IF heap[e][i] = f THEN NULL ELSE heap[e][i]
                           /\ FreeOK(heap'[e], freeNums'[e])
  <2>1. CASE Owned(f)
    <3>1. ReleaseFactor(f)
      BY <2>1 DEF DestroyFactor, Owned
    <3>2. /\ heap' \in [Domain -> Seq(Cell)] /\ freeNums' \in [Domain -> Seq(Nat)]
          /\ \A e \in Domain : /\ DOMAIN heap'[e] = DOMAIN heap[e]
                               /\ \A i \in DOMAIN heap[e] :
                                    heap'[e][i] = IF e = md[f] /\ i = num[f] THEN NULL ELSE heap[e][i]
                               /\ FreeOK(heap'[e], freeNums'[e])
      BY <2>1, <3>1, ReleaseStep
    <3> QED
      BY <1>2, <2>1, <3>2
  <2>2. CASE ~Owned(f)
    <3>1. heap' = heap /\ freeNums' = freeNums
      BY <2>2 DEF DestroyFactor, Owned, heapVars
    <3>2. \A e \in Domain : FreeOK(heap[e], freeNums[e])
      BY DEF HeapState, HeapSound, FreeOK
    <3>3. heap \in [Domain -> Seq(Cell)] /\ freeNums \in [Domain -> Seq(Nat)]
      BY DEF HeapState
    <3> QED
      BY <1>2, <2>2, <3>1, <3>2, <3>3
  <2> QED
    BY <2>1, <2>2
<1>4. ASSUME NEW e \in Domain, NEW i \in DOMAIN heap'[e], heap'[e][i] # NULL
      PROVE  heap'[e][i] \in alive' /\ md'[heap'[e][i]] = e /\ num'[heap'[e][i]] = i
  <2> DEFINE g == heap[e][i]
  <2>1. i \in DOMAIN heap[e] /\ g # f /\ heap'[e][i] = g
    BY <1>3, <1>4
  <2>2. g \in alive /\ md[g] = e /\ num[g] = i
    BY <1>4, <2>1 DEF HeapState, HeapSound
  <2> HIDE DEF g
  <2> QED
    BY <1>1, <2>1, <2>2
<1>5. HeapSound'
  <2> SUFFICES ASSUME NEW e \in Domain
               PROVE  /\ \A i \in DOMAIN heap'[e] : heap'[e][i] # NULL =>
                           heap'[e][i] \in alive' /\ md'[heap'[e][i]] = e /\ num'[heap'[e][i]] = i
                      /\ FreeOK(heap'[e], freeNums'[e])
    BY DEF HeapSound, FreeOK
  <2> QED
    BY <1>3, <1>4
<1>6. HeapState'
  BY <1>1, <1>3, <1>5 DEF HeapState
<1>7. ASSUME NEW g \in alive', Owned(g)
      PROVE  Owned(g)'
  <2>1. md[g] \in Domain /\ num[g] \in DOMAIN heap[md[g]] /\ heap[md[g]][num[g]] = g /\ g # f
    BY <1>1, <1>7 DEF Owned, IsAFactorOwner
  <2> QED
    BY <1>1, <1>3, <2>1 DEF Owned, IsAFactorOwner
<1> QED
  BY <1>1, <1>3, <1>6, <1>7

-----------------------------------------------------------------------------
(* What the library is doing.                                                 *)

\* The fields of pc.
LEMMA Doing ==
  ASSUME pc \in PCs
  PROVE  /\ pc.at \in {"Idle", "AddFactor", "Copy", "ChangeOwner", "~CFactors", "~CModelDomain"}
         /\ pc.at = "Idle" <=> pc = Idle
         /\ pc.at = "AddFactor" => pc.model \in Model /\ pc.factor \in Factor
         /\ pc.at = "Copy" => pc.model \in Model /\ pc.from \in Model /\ pc.release \in BOOLEAN
         /\ pc.at \in {"ChangeOwner", "~CFactors"} => pc.model \in Model /\ pc.next \in Nat \ {0}
         /\ pc.at = "~CModelDomain" => pc.domain \in Domain /\ pc.next \in Nat \ {0}
  BY DEF PCs, Idle

\* A loop goes on to the next factor or cell.
LEMMA NextRound ==
  ASSUME pc \in PCs, pc.at \in {"ChangeOwner", "~CFactors", "~CModelDomain"},
         pc' = [pc EXCEPT !.next = @ + 1]
  PROVE  /\ pc' \in PCs /\ pc'.at = pc.at /\ pc'.next = pc.next + 1
         /\ pc.at \in {"ChangeOwner", "~CFactors"} => pc'.model = pc.model
         /\ pc.at = "~CModelDomain" => pc'.domain = pc.domain
<1>1. CASE pc.at \in {"ChangeOwner", "~CFactors"}
  <2>1. pc \in [at : {"ChangeOwner", "~CFactors"}, model : Model, next : Nat \ {0}]
    BY <1>1 DEF PCs, Idle
  <2> QED
    BY <1>1, <2>1 DEF PCs
<1>2. CASE pc.at = "~CModelDomain"
  <2>1. pc \in [at : {"~CModelDomain"}, domain : Domain, next : Nat \ {0}]
    BY <1>2 DEF PCs, Idle
  <2> QED
    BY <1>2, <2>1 DEF PCs
<1> QED
  BY <1>1, <1>2

-----------------------------------------------------------------------------
(* Models of a domain.                                                        *)

\* A model that is made is counted once more.
LEMMA ModelsAdded ==
  ASSUME TypeOK, NEW m \in Model, NEW d \in Domain, modelMD[m] = NULL,
         modelMD' = [modelMD EXCEPT ![m] = d]
  PROVE  /\ Cardinality(Models(d)') = Cardinality(Models(d)) + 1
         /\ \A e \in Domain : e # d => Models(e)' = Models(e)
<1>1. modelMD \in [Model -> Domain \cup {NULL}] /\ NULL \notin Domain /\ IsFiniteSet(Model)
  BY DomainAssumption DEF TypeOK, DomainAssumption
<1>2. Models(d)' = Models(d) \cup {m} /\ m \notin Models(d) /\ Models(d) \subseteq Model
  BY <1>1 DEF Models
<1>3. IsFiniteSet(Models(d))
  BY <1>1, <1>2, FS_Subset
<1>4. Cardinality(Models(d)') = Cardinality(Models(d)) + 1
  BY <1>2, <1>3, FS_AddElement
<1>5. \A e \in Domain : e # d => Models(e)' = Models(e)
  BY <1>1 DEF Models
<1> QED
  BY <1>4, <1>5

\* A model that goes is counted once less.
LEMMA ModelsRemoved ==
  ASSUME TypeOK, NEW m \in Model, NEW d \in Domain, modelMD[m] = d,
         modelMD' = [modelMD EXCEPT ![m] = NULL]
  PROVE  /\ Cardinality(Models(d)') = Cardinality(Models(d)) - 1
         /\ Cardinality(Models(d)) \in Nat \ {0}
         /\ m \in Models(d) /\ Models(d)' = Models(d) \ {m}
         /\ \A e \in Domain : e # d => Models(e)' = Models(e)
<1>1. modelMD \in [Model -> Domain \cup {NULL}] /\ NULL \notin Domain /\ IsFiniteSet(Model)
  BY DomainAssumption DEF TypeOK, DomainAssumption
<1>2. Models(d)' = Models(d) \ {m} /\ m \in Models(d) /\ Models(d) \subseteq Model
  BY <1>1 DEF Models
<1>3. IsFiniteSet(Models(d))
  BY <1>1, <1>2, FS_Subset
<1>4. Cardinality(Models(d)') = Cardinality(Models(d)) - 1
  BY <1>2, <1>3, FS_RemoveElement
<1>5. Cardinality(Models(d)) \in Nat \ {0}
  BY <1>2, <1>3, FS_CardinalityType, FS_EmptySet
<1>6. \A e \in Domain : e # d => Models(e)' = Models(e)
  BY <1>1 DEF Models
<1> QED
  BY <1>2, <1>4, <1>5, <1>6

\* The parts of the invariant that the heaps rest on.
LEMMA HeapStateByInv ==
  ASSUME DomainInv
  PROVE  HeapState
  BY DEF DomainInv, TypeOK, DomainOutlivesModels, HeapState, Cell

\* The types, as far as they are those of the heaps.
LEMMA TypesByHeapState ==
  ASSUME HeapState,
         domains \subseteq Domain, refs \in [Domain -> Nat], self \in [Domain -> BOOLEAN],
         modelMD \in [Model -> Domain \cup {NULL}], facts \in [Model -> Seq(Factor)], pc \in PCs
  PROVE  TypeOK /\ HeapSound
  BY DEF HeapState, TypeOK, Cell

\* In the beginning there are no domains, models or factors.
LEMMA DomainInitInv ==
  ASSUME Init
  PROVE  DomainInv
<1> USE DEF Init
<1>1. TypeOK
  <2>1. <<>> \in Seq(Factor \cup {NULL}) /\ <<>> \in Seq(Nat) /\ <<>> \in Seq(Factor)
    OBVIOUS
  <2>2. Idle \in PCs
    BY DEF PCs
  <2> QED
    BY <2>1, <2>2 DEF TypeOK
<1>2. HeapSound
  BY DEF HeapSound
<1>3. \A m \in Model : DOMAIN facts[m] = {}
  OBVIOUS
<1>4. DeletedOnce
  <2>1. \A m \in Model : ToDelete(m) = {}
    BY <1>3 DEF ToDelete
  <2>2. alive = {}
    OBVIOUS
  <2> QED
    BY <1>3, <2>1, <2>2 DEF DeletedOnce
<1>5. DomainOutlivesModels
  BY DEF DomainOutlivesModels
<1>6. NoModelNoFactors /\ Progress
  BY DEF NoModelNoFactors, Progress, Idle
<1> QED
  BY <1>1, <1>2, <1>4, <1>5, <1>6 DEF DomainInv

\* Outside ~CFactors every factor of a model has still to be deleted.
LEMMA AllToDelete ==
  ASSUME pc.at # "~CFactors"
  PROVE  \A m \in Model : ToDelete(m) = DOMAIN facts[m]
<1> SUFFICES ASSUME NEW m \in Model
             PROVE  ToDelete(m) = DOMAIN facts[m]
  OBVIOUS
<1> QED
  BY DEF ToDelete

\* DeletedOnce where no destructor of a model is at work.
LEMMA DeletedOnceOutside ==
  ASSUME pc.at # "~CFactors"
  PROVE  DeletedOnce <=>
           /\ \A m \in Model : \A i \in DOMAIN facts[m] :
                facts[m][i] \in alive /\ md[facts[m][i]] = modelMD[m]
           /\ \A m, n \in Model : \A i \in DOMAIN facts[m], j \in DOMAIN facts[n] :
                facts[m][i] = facts[n][j] => m = n /\ i = j
           /\ \A f \in alive : Held(f) \/ Owned(f)
<1>1. \A m \in Model : ToDelete(m) = DOMAIN facts[m]
  BY AllToDelete
<1> QED
  BY <1>1 DEF DeletedOnce, Owned

\* The same after a step.
LEMMA DeletedOnceAfter ==
  ASSUME pc'.at # "~CFactors",
         \A m \in Model : \A i \in DOMAIN facts'[m] :
           facts'[m][i] \in alive' /\ md'[facts'[m][i]] = modelMD'[m],
         \A m, n \in Model : \A i \in DOMAIN facts'[m], j \in DOMAIN facts'[n] :
           facts'[m][i] = facts'[n][j] => m = n /\ i = j,
         \A f \in alive' : Held(f)' \/ Owned(f)'
  PROVE  DeletedOnce'
<1>1. \A m \in Model : ToDelete(m)' = DOMAIN facts'[m]
  <2> SUFFICES ASSUME NEW m \in Model
               PROVE  ToDelete(m)' = DOMAIN facts'[m]
    OBVIOUS
  <2> QED
    BY DEF ToDelete
<1> QED
  BY <1>1 DEF DeletedOnce, Owned

\* The factors and lists do not change.
LEMMA FactorsStay ==
  ASSUME DomainInv, UNCHANGED <<heap, freeNums, alive, md, num, facts>>, pc.at # "~CFactors",
         pc'.at # "~CFactors", \A m \in Model : modelMD[m] # NULL => modelMD'[m] = modelMD[m]
  PROVE  DeletedOnce' /\ HeapSound'
<1>1. HeapSound'
  BY DEF DomainInv, HeapSound
<1>2. \A f : Held(f)' = Held(f) /\ Owned(f)' = Owned(f)
  BY DEF Held, Owned, IsAFactorOwner
<1>3. /\ \A m \in Model : \A i \in DOMAIN facts[m] :
           facts[m][i] \in alive /\ md[facts[m][i]] = modelMD[m]
      /\ \A m, n \in Model : \A i \in DOMAIN facts[m], j \in DOMAIN facts[n] :
           facts[m][i] = facts[n][j] => m = n /\ i = j
      /\ \A f \in alive : Held(f) \/ Owned(f)
  BY DeletedOnceOutside DEF DomainInv
<1>4. \A m \in Model : modelMD[m] = NULL => DOMAIN facts[m] = {}
  BY DEF DomainInv, NoModelNoFactors
<1>5. \A m \in Model : \A i \in DOMAIN facts'[m] :
        facts'[m][i] \in alive' /\ md'[facts'[m][i]] = modelMD'[m]
  BY <1>3, <1>4
<1>6. \A m, n \in Model : \A i \in DOMAIN facts'[m], j \in DOMAIN facts'[n] :
        facts'[m][i] = facts'[n][j] => m = n /\ i = j
  BY <1>3
<1>7. \A f \in alive' : Held(f)' \/ Owned(f)'
  BY <1>2, <1>3
<1> QED
  BY <1>1, <1>5, <1>6, <1>7, DeletedOnceAfter

\* The client makes a domain.
LEMMA CreateModelDomainInv ==
  ASSUME DomainInv, NEW d \in Domain, CreateModelDomain(d)
  PROVE  DomainInv'
<1>1. /\ pc = Idle /\ d \notin domains /\ domains' = domains \cup {d}
      /\ refs' = [refs EXCEPT ![d] = 1] /\ self' = [self EXCEPT ![d] = TRUE]
      /\ UNCHANGED <<heap, freeNums, alive, md, num, modelMD, facts, pc>>
  BY DEF CreateModelDomain, heapVars, factorVars, modelVars
<1>2. TypeOK'
  BY <1>1 DEF DomainInv, TypeOK
<1>3. NoModelNoFactors'
  BY <1>1 DEF DomainInv, NoModelNoFactors
<1>4. DeletedOnce' /\ HeapSound'
  BY <1>1, FactorsStay DEF Idle
<1>5. Models(d) = {}
  BY <1>1, DomainAssumption DEF DomainInv, DomainOutlivesModels, Models, DomainAssumption
<1>6. \A e \in Domain : Models(e)' = Models(e)
  BY <1>1 DEF Models
<1>7. Cardinality(Models(d)) = 0
  BY <1>5, FS_EmptySet
<1>8. DomainOutlivesModels'
  BY <1>1, <1>6, <1>7 DEF DomainInv, DomainOutlivesModels, TypeOK
<1>9. Progress'
  BY <1>1 DEF Progress, Idle
<1> QED
  BY <1>2, <1>3, <1>4, <1>8, <1>9 DEF DomainInv

\* A model on a domain of its own: the model is the only reference.
LEMMA CreateModelAndDomainInv ==
  ASSUME DomainInv, NEW m \in Model, NEW d \in Domain, CreateModelAndDomain(m, d)
  PROVE  DomainInv'
<1>1. /\ pc = Idle /\ modelMD[m] = NULL /\ d \notin domains /\ domains' = domains \cup {d}
      /\ refs' = [refs EXCEPT ![d] = 1] /\ self' = [self EXCEPT ![d] = FALSE]
      /\ modelMD' = [modelMD EXCEPT ![m] = d]
      /\ UNCHANGED <<heap, freeNums, alive, md, num, facts, pc>>
      /\ TypeOK
  BY DEF CreateModelAndDomain, heapVars, factorVars, DomainInv
<1>2. TypeOK'
  BY <1>1 DEF TypeOK
<1>3. \A n \in Model : modelMD'[n] = IF n = m THEN d ELSE modelMD[n]
  BY <1>1 DEF TypeOK
<1>4. NoModelNoFactors'
  BY <1>1, <1>3, DomainAssumption DEF DomainInv, NoModelNoFactors, DomainAssumption
<1>5. DeletedOnce' /\ HeapSound'
  BY <1>1, <1>3, FactorsStay DEF Idle
<1>6. Models(d) = {}
  BY <1>1, DomainAssumption DEF DomainInv, DomainOutlivesModels, Models, DomainAssumption
<1>7. /\ Cardinality(Models(d)') = 1
      /\ \A e \in Domain : e # d => Models(e)' = Models(e)
  <2>1. Cardinality(Models(d)) = 0
    BY <1>6, FS_EmptySet
  <2>2. /\ Cardinality(Models(d)') = Cardinality(Models(d)) + 1
        /\ \A e \in Domain : e # d => Models(e)' = Models(e)
    BY <1>1, ModelsAdded
  <2> QED
    BY <2>1, <2>2
<1>8. DomainOutlivesModels'
  BY <1>1, <1>3, <1>7 DEF DomainInv, DomainOutlivesModels, TypeOK
<1>9. Progress'
  BY <1>1 DEF Progress, Idle
<1> QED
  BY <1>2, <1>4, <1>5, <1>8, <1>9 DEF DomainInv

\* Another model on a domain that exists adds a reference.
LEMMA NewModelStep ==
  ASSUME DomainInv, pc = Idle, NEW m \in Model, NEW d \in domains, NewModel(m, d),
         UNCHANGED <<heap, freeNums, alive, md, num>>, pc' \in PCs, pc'.at # "~CFactors"
  PROVE  /\ TypeOK' /\ HeapSound' /\ DeletedOnce' /\ DomainOutlivesModels' /\ NoModelNoFactors'
         /\ facts' = facts /\ facts[m] = <<>>
         /\ \A n \in Model : modelMD'[n] = IF n = m THEN d ELSE modelMD[n]
<1>1. /\ modelMD[m] = NULL /\ domains' = domains /\ self' = self /\ facts' = facts
      /\ refs' = [refs EXCEPT ![d] = @ + 1]
      /\ modelMD' = [modelMD EXCEPT ![m] = d]
      /\ TypeOK /\ d \in Domain
  BY DEF NewModel, DomainInv, TypeOK
<1>2. TypeOK'
  BY <1>1 DEF TypeOK
<1>3. \A n \in Model : modelMD'[n] = IF n = m THEN d ELSE modelMD[n]
  BY <1>1 DEF TypeOK
<1>4. NoModelNoFactors' /\ facts[m] = <<>>
  BY <1>1, <1>3, DomainAssumption DEF DomainInv, NoModelNoFactors, DomainAssumption
<1>5. DeletedOnce' /\ HeapSound'
  BY <1>1, <1>3, FactorsStay DEF Idle
<1>6. /\ Cardinality(Models(d)') = Cardinality(Models(d)) + 1
      /\ \A e \in Domain : e # d => Models(e)' = Models(e)
  BY <1>1, ModelsAdded
<1>7. DomainOutlivesModels'
  <2>1. \A n \in Model : modelMD'[n] # NULL => modelMD'[n] \in domains'
    BY <1>1, <1>3 DEF DomainInv, DomainOutlivesModels
  <2>2. \A f \in alive' : md'[f] \in domains'
    BY <1>1 DEF DomainInv, DomainOutlivesModels
  <2>3. \A e \in domains' : refs'[e] = Cardinality(Models(e)') + (IF self'[e] THEN 1 ELSE 0)
    <3> SUFFICES ASSUME NEW e \in domains
                 PROVE  refs'[e] = Cardinality(Models(e)') + (IF self[e] THEN 1 ELSE 0)
      BY <1>1
    <3>1. refs[e] = Cardinality(Models(e)) + (IF self[e] THEN 1 ELSE 0)
      BY DEF DomainInv, DomainOutlivesModels
    <3>2. e \in Domain /\ refs \in [Domain -> Nat]
      BY <1>1 DEF TypeOK
    <3>3. CASE e = d
      <4>1. Cardinality(Models(d)) \in Nat
        <5>1. Models(d) \subseteq Model
          BY DEF Models
        <5> QED
          BY <5>1, DomainAssumption, FS_Subset, FS_CardinalityType DEF DomainAssumption
      <4> QED
        BY <1>1, <1>6, <3>1, <3>2, <3>3, <4>1
    <3>4. CASE e # d
      BY <1>1, <1>6, <3>1, <3>2, <3>4
    <3> QED
      BY <3>3, <3>4
  <2> QED
    BY <2>1, <2>2, <2>3 DEF DomainOutlivesModels
<1> QED
  BY <1>1, <1>2, <1>3, <1>4, <1>5, <1>7

\* The client makes a model.
LEMMA CreateModelInv ==
  ASSUME DomainInv, NEW m \in Model, NEW d \in Domain, CreateModel(m, d)
  PROVE  DomainInv'
<1>1. /\ pc = Idle /\ d \in domains /\ NewModel(m, d) /\ pc' = pc
      /\ UNCHANGED <<heap, freeNums, alive, md, num>>
  BY DEF CreateModel, heapVars, factorVars
<1>2. pc' \in PCs /\ pc'.at # "~CFactors"
  BY <1>1 DEF PCs, Idle
<1>3. Progress'
  BY <1>1 DEF Progress, Idle
<1> QED
  BY <1>1, <1>2, <1>3, NewModelStep DEF DomainInv

\* A copy of a model starts as a model without factors.
LEMMA CopyModelInv ==
  ASSUME DomainInv, NEW m \in Model, NEW from \in Model, NEW release \in BOOLEAN,
         CopyModel(m, from, release)
  PROVE  DomainInv'
<1>1. /\ pc = Idle /\ modelMD[from] # NULL /\ NewModel(m, modelMD[from])
      /\ pc' = [at |-> "Copy", model |-> m, from |-> from, release |-> release]
      /\ UNCHANGED <<heap, freeNums, alive, md, num>>
  BY DEF CopyModel, heapVars, factorVars
<1>2. pc' \in PCs /\ pc'.at = "Copy" /\ pc'.model = m /\ pc'.from = from
  BY <1>1 DEF PCs
<1> DEFINE d == modelMD[from]
<1>3. d \in domains
  BY <1>1 DEF DomainInv, DomainOutlivesModels
<1>4. /\ TypeOK' /\ HeapSound' /\ DeletedOnce' /\ DomainOutlivesModels' /\ NoModelNoFactors'
      /\ facts' = facts /\ facts[m] = <<>>
      /\ \A n \in Model : modelMD'[n] = IF n = m THEN d ELSE modelMD[n]
  BY <1>1, <1>2, <1>3, NewModelStep
<1>5. m # from
  BY <1>1 DEF NewModel
<1>6. facts[from] \in Seq(Factor)
  BY DEF DomainInv, TypeOK
<1>7. Progress'
  BY <1>1, <1>2, <1>4, <1>5, <1>6 DEF Progress
<1> QED
  BY <1>4, <1>7 DEF DomainInv

-----------------------------------------------------------------------------
(* Factors.                                                                   *)

\* A factor that no model holds yet.
LEMMA NewFactorInv ==
  ASSUME DomainInv, pc.at # "~CFactors", NEW d \in domains, NEW f \in Factor, NewFactor(d, f),
         UNCHANGED <<domainVars, modelVars>>, pc' \in PCs, pc'.at # "~CFactors"
  PROVE  /\ TypeOK' /\ HeapSound' /\ DeletedOnce' /\ DomainOutlivesModels' /\ NoModelNoFactors'
         /\ f \in alive' /\ md'[f] = d /\ ~Held(f)'
<1>1. UNCHANGED <<domains, refs, self, modelMD, facts>>
  BY DEF domainVars, modelVars
<1>2. HeapState /\ d \in Domain /\ TypeOK
  BY HeapStateByInv DEF DomainInv, TypeOK
<1>3. /\ HeapState' /\ f \notin alive /\ alive' = alive \cup {f} /\ md'[f] = d /\ Owned(f)'
      /\ \A g \in alive : md'[g] = md[g] /\ (Owned(g) => Owned(g)')
  BY <1>2, NewFactorStep
<1>4. TypeOK' /\ HeapSound'
  BY <1>1, <1>2, <1>3 DEF TypeOK, HeapState, Cell
<1>5. /\ \A m \in Model : \A i \in DOMAIN facts[m] :
           facts[m][i] \in alive /\ md[facts[m][i]] = modelMD[m]
      /\ \A m, n \in Model : \A i \in DOMAIN facts[m], j \in DOMAIN facts[n] :
           facts[m][i] = facts[n][j] => m = n /\ i = j
      /\ \A g \in alive : Held(g) \/ Owned(g)
  BY DeletedOnceOutside DEF DomainInv
<1>6. \A g : Held(g)' <=> Held(g)
  BY <1>1 DEF Held
<1>7. DeletedOnce'
  <2>1. \A m \in Model : \A i \in DOMAIN facts'[m] :
          facts'[m][i] \in alive' /\ md'[facts'[m][i]] = modelMD'[m]
    BY <1>1, <1>3, <1>5
  <2>2. \A m, n \in Model : \A i \in DOMAIN facts'[m], j \in DOMAIN facts'[n] :
          facts'[m][i] = facts'[n][j] => m = n /\ i = j
    BY <1>1, <1>5
  <2>3. \A g \in alive' : Held(g)' \/ Owned(g)'
    BY <1>3, <1>5, <1>6
  <2> QED
    BY <2>1, <2>2, <2>3, DeletedOnceAfter
<1>8. DomainOutlivesModels'
  <2>1. \A e \in domains : Models(e)' = Models(e)
    BY <1>1 DEF Models
  <2> QED
    BY <1>1, <1>3, <2>1 DEF DomainInv, DomainOutlivesModels
<1>9. NoModelNoFactors'
  BY <1>1 DEF DomainInv, NoModelNoFactors
<1>10. ~Held(f)
  BY <1>3, <1>5 DEF Held
<1> QED
  BY <1>3, <1>4, <1>6, <1>7, <1>8, <1>9, <1>10

\* The client makes a factor.
LEMMA CreateFactorInv ==
  ASSUME DomainInv, NEW d \in Domain, NEW f \in Factor, CreateFactor(d, f)
  PROVE  DomainInv'
<1>1. /\ pc = Idle /\ d \in domains /\ NewFactor(d, f) /\ pc' = pc
      /\ UNCHANGED <<domainVars, modelVars>>
  BY DEF CreateFactor
<1>2. pc' \in PCs /\ pc'.at # "~CFactors" /\ pc.at # "~CFactors" /\ Progress'
  BY <1>1 DEF PCs, Idle, Progress
<1> QED
  BY <1>1, <1>2, NewFactorInv DEF DomainInv

\* A model makes a factor, which it does not hold before AddFactor.
LEMMA AllocFactorInv ==
  ASSUME DomainInv, NEW m \in Model, NEW f \in Factor, AllocFactor(m, f)
  PROVE  DomainInv'
<1> DEFINE d == modelMD[m]
<1>1. /\ pc = Idle /\ d # NULL /\ NewFactor(d, f)
      /\ UNCHANGED <<domainVars, modelVars>>
      /\ pc' = [at |-> "AddFactor", model |-> m, factor |-> f]
  BY DEF AllocFactor
<1>2. /\ pc' \in PCs /\ pc'.at = "AddFactor" /\ pc'.model = m /\ pc'.factor = f
      /\ pc.at # "~CFactors"
  BY <1>1 DEF PCs, Idle
<1>3. d \in domains
  BY <1>1 DEF DomainInv, DomainOutlivesModels
<1>4. /\ TypeOK' /\ HeapSound' /\ DeletedOnce' /\ DomainOutlivesModels' /\ NoModelNoFactors'
      /\ f \in alive' /\ md'[f] = d /\ ~Held(f)'
  BY <1>1, <1>2, <1>3, NewFactorInv
<1>5. modelMD' = modelMD
  BY <1>1 DEF modelVars
<1>6. Progress'
  BY <1>1, <1>2, <1>4, <1>5 DEF Progress
<1> QED
  BY <1>4, <1>6 DEF DomainInv

\* A factor that no model holds is deleted.
LEMMA DestroyFactorInv ==
  ASSUME DomainInv, pc.at # "~CFactors", NEW f \in alive, ~Held(f), DestroyFactor(f),
         UNCHANGED <<domainVars, modelVars>>, pc' \in PCs, pc'.at # "~CFactors"
  PROVE  TypeOK' /\ HeapSound' /\ DeletedOnce' /\ DomainOutlivesModels' /\ NoModelNoFactors'
<1>1. UNCHANGED <<domains, refs, self, modelMD, facts>>
  BY DEF domainVars, modelVars
<1>2. HeapState /\ TypeOK
  BY HeapStateByInv DEF DomainInv
<1>3. /\ HeapState' /\ alive' = alive \ {f}
      /\ \A g \in alive' : md'[g] = md[g] /\ (Owned(g) => Owned(g)')
  BY <1>1, <1>2, DestroyStep
<1>4. TypeOK' /\ HeapSound'
  BY <1>1, <1>2, <1>3 DEF TypeOK, HeapState, Cell
<1>5. /\ \A m \in Model : \A i \in DOMAIN facts[m] :
           facts[m][i] \in alive /\ md[facts[m][i]] = modelMD[m]
      /\ \A m, n \in Model : \A i \in DOMAIN facts[m], j \in DOMAIN facts[n] :
           facts[m][i] = facts[n][j] => m = n /\ i = j
      /\ \A g \in alive : Held(g) \/ Owned(g)
  BY <1>2, DeletedOnceOutside DEF DomainInv
<1>6. \A g : Held(g)' <=> Held(g)
  BY <1>1 DEF Held
<1>7. DeletedOnce'
  <2>1. \A m \in Model : \A i \in DOMAIN facts'[m] :
          facts'[m][i] \in alive' /\ md'[facts'[m][i]] = modelMD'[m]
    BY <1>1, <1>3, <1>5 DEF Held
  <2>2. \A m, n \in Model : \A i \in DOMAIN facts'[m], j \in DOMAIN facts'[n] :
          facts'[m][i] = facts'[n][j] => m = n /\ i = j
    BY <1>1, <1>5
  <2>3. \A g \in alive' : Held(g)' \/ Owned(g)'
    BY <1>3, <1>5, <1>6
  <2> QED
    BY <1>2, <2>1, <2>2, <2>3, DeletedOnceAfter
<1>8. DomainOutlivesModels'
  <2>1. \A e \in domains : Models(e)' = Models(e)
    BY <1>1 DEF Models
  <2> QED
    BY <1>1, <1>3, <2>1 DEF DomainInv, DomainOutlivesModels
<1>9. NoModelNoFactors'
  BY <1>1 DEF DomainInv, NoModelNoFactors
<1> QED
  BY <1>4, <1>7, <1>8, <1>9

\* The client deletes a factor of its own.
LEMMA DeleteFactorInv ==
  ASSUME DomainInv, NEW f \in Factor, DeleteFactor(f)
  PROVE  DomainInv'
<1>1. /\ pc = Idle /\ f \in alive /\ ~Held(f) /\ DestroyFactor(f)
      /\ UNCHANGED <<domainVars, modelVars>> /\ pc' = Idle
  BY DEF DeleteFactor
<1>2. pc.at # "~CFactors" /\ pc'.at # "~CFactors" /\ pc' \in PCs /\ Progress'
  BY <1>1 DEF Idle, PCs, Progress
<1> QED
  BY <1>1, <1>2, DestroyFactorInv DEF DomainInv

\* SetModelDomain gives a cell back to one heap and takes one of another.
LEMMA SetModelDomainStep ==
  ASSUME HeapState, NEW f \in alive, NEW d \in Domain, d # md[f], Owned(f), SetModelDomain(f, d)
  PROVE  /\ HeapState' /\ alive' = alive /\ md'[f] = d /\ Owned(f)'
         /\ \A g \in alive : g # f => md'[g] = md[g] /\ (Owned(g) => Owned(g)')
<1> DEFINE b == md[f]
           l == num[f]
           k == NextNum(d)
           freed == [heap[b] EXCEPT ![l] = NULL]
           taken == IF freeNums[d] = <<>> THEN Append(heap[d], f)
                    ELSE [heap[d] EXCEPT ![Head(freeNums[d])] = f]
           rest == IF freeNums[d] = <<>> THEN freeNums[d] ELSE Tail(freeNums[d])
<1>1. /\ heap \in [Domain -> Seq(Cell)] /\ freeNums \in [Domain -> Seq(Nat)]
      /\ \A e \in Domain : /\ heap[e] \in Seq(Cell) /\ freeNums[e] \in Seq(Nat)
                           /\ FreeOK(heap[e], freeNums[e])
      /\ b \in Domain /\ b # d
      /\ f \in Factor /\ f # NULL
      /\ \A g \in alive : g \in Factor /\ g # NULL /\ md[g] \in Domain
      /\ md \in [Factor -> Domain \cup {NULL}] /\ num \in [Factor -> Nat]
  BY DomainAssumption DEF HeapState, HeapSound, FreeOK, DomainAssumption
<1>2. /\ l \in DOMAIN heap[b] /\ heap[b][l] = f
  BY DEF Owned, IsAFactorOwner
<1>3. /\ heap' = [heap EXCEPT ![b] = freed, ![d] = taken]
      /\ freeNums' = [freeNums EXCEPT ![b] = Append(freeNums[b], l), ![d] = rest]
      /\ md' = [md EXCEPT ![f] = d] /\ num' = [num EXCEPT ![f] = k] /\ alive' = alive
  BY <1>1 DEF SetModelDomain
<1>4. /\ freed \in Seq(Cell) /\ Append(freeNums[b], l) \in Seq(Nat)
      /\ FreeOK(freed, Append(freeNums[b], l))
  BY <1>1, <1>2, CellFreed
<1>5. /\ DOMAIN freed = DOMAIN heap[b]
      /\ \A i \in DOMAIN heap[b] : freed[i] = IF i = l THEN NULL ELSE heap[b][i]
  OBVIOUS
<1>6. /\ taken \in Seq(Cell) /\ rest \in Seq(Nat) /\ k \in Nat
      /\ Took(heap[d], taken, k, f) /\ FreeOK(taken, rest)
  <2>1. CASE freeNums[d] = <<>>
    <3>1. taken = Append(heap[d], f) /\ rest = <<>> /\ k = Len(heap[d]) + 1
      BY <2>1 DEF NextNum
    <3>2. /\ Append(heap[d], f) \in Seq(Cell)
          /\ Took(heap[d], Append(heap[d], f), Len(heap[d]) + 1, f)
          /\ FreeOK(Append(heap[d], f), <<>>)
      BY <1>1, CellAppended
    <3>3. <<>> \in Seq(Nat) /\ Len(heap[d]) + 1 \in Nat
      BY <3>2 DEF Took
    <3> QED
      BY <3>1, <3>2, <3>3
  <2>2. CASE freeNums[d] # <<>>
    <3>1. taken = [heap[d] EXCEPT ![k] = f] /\ rest = Tail(freeNums[d]) /\ k = Head(freeNums[d])
      BY <2>2 DEF NextNum
    <3>2. /\ [heap[d] EXCEPT ![Head(freeNums[d])] = f] \in Seq(Cell) /\ Tail(freeNums[d]) \in Seq(Nat)
          /\ Took(heap[d], [heap[d] EXCEPT ![Head(freeNums[d])] = f], Head(freeNums[d]), f)
          /\ FreeOK([heap[d] EXCEPT ![Head(freeNums[d])] = f], Tail(freeNums[d]))
      BY <1>1, <2>2, CellReused
    <3>3. k \in Nat
      BY <3>1, <3>2 DEF Took
    <3> QED
      BY <2>2, <3>1, <3>2, <3>3
  <2> QED
    BY <2>1, <2>2
<1> HIDE DEF b, l, k, freed, taken, rest
<1>7. /\ heap' \in [Domain -> Seq(Cell)] /\ freeNums' \in [Domain -> Seq(Nat)]
      /\ heap'[b] = freed /\ heap'[d] = taken
      /\ freeNums'[b] = Append(freeNums[b], l) /\ freeNums'[d] = rest
      /\ \A e \in Domain : e # b /\ e # d => heap'[e] = heap[e] /\ freeNums'[e] = freeNums[e]
  BY <1>1, <1>3, <1>4, <1>6
<1>8. /\ md'[f] = d /\ num'[f] = k
      /\ \A g \in Factor : g # f => md'[g] = md[g] /\ num'[g] = num[g]
      /\ md' \in [Factor -> Domain \cup {NULL}] /\ num' \in [Factor -> Nat]
  BY <1>1, <1>3, <1>6
<1>9. \A e \in Domain : FreeOK(heap'[e], freeNums'[e])
  BY <1>1, <1>4, <1>6, <1>7
<1>10. ASSUME NEW e \in Domain, NEW i \in DOMAIN heap'[e], heap'[e][i] # NULL
       PROVE  heap'[e][i] \in alive' /\ md'[heap'[e][i]] = e /\ num'[heap'[e][i]] = i
  <2>1. CASE e = d /\ i = k
    BY <1>3, <1>6, <1>7, <1>8, <2>1 DEF Took
  <2>2. CASE ~(e = d /\ i = k)
    <3> DEFINE g == heap[e][i]
    <3>1. i \in DOMAIN heap[e] /\ heap'[e][i] = g /\ ~(e = b /\ i = l)
      <4>1. CASE e = d
        BY <1>1, <1>6, <1>7, <2>2, <4>1 DEF Took
      <4>2. CASE e = b
        BY <1>1, <1>5, <1>7, <1>10, <4>2
      <4>3. CASE e # d /\ e # b
        BY <1>7, <4>3
      <4> QED
        BY <4>1, <4>2, <4>3
    <3>2. g \in alive /\ md[g] = e /\ num[g] = i
      BY <1>10, <3>1 DEF HeapState, HeapSound
    <3>3. g # f
      BY <3>1, <3>2 DEF b, l
    <3> HIDE DEF g
    <3> QED
      BY <1>1, <1>3, <1>8, <3>1, <3>2, <3>3
  <2> QED
    BY <2>1, <2>2
<1>11. HeapSound'
  <2> SUFFICES ASSUME NEW e \in Domain
               PROVE  /\ \A i \in DOMAIN heap'[e] : heap'[e][i] # NULL =>
                           heap'[e][i] \in alive' /\ md'[heap'[e][i]] = e /\ num'[heap'[e][i]] = i
                      /\ FreeOK(heap'[e], freeNums'[e])
    BY DEF HeapSound, FreeOK
  <2> QED
    BY <1>9, <1>10
<1>12. HeapState'
  BY <1>1, <1>3, <1>7, <1>8, <1>11 DEF HeapState
<1>13. Owned(f)'
  BY <1>6, <1>7, <1>8 DEF Owned, IsAFactorOwner, Took
<1>14. ASSUME NEW g \in alive, g # f, Owned(g)
       PROVE  Owned(g)'
  <2>1. /\ md'[g] = md[g] /\ num'[g] = num[g] /\ md[g] \in Domain /\ g # NULL
        /\ num[g] \in DOMAIN heap[md[g]] /\ heap[md[g]][num[g]] = g
    BY <1>1, <1>8, <1>14 DEF Owned, IsAFactorOwner
  <2>2. CASE md[g] = d
    <3>1. num[g] # k /\ num[g] \in DOMAIN taken
      BY <1>6, <2>1, <2>2 DEF Took
    <3>2. taken[num[g]] = g
      BY <1>6, <2>1, <2>2, <3>1 DEF Took
    <3> QED
      BY <1>7, <2>1, <2>2, <3>1, <3>2 DEF Owned, IsAFactorOwner
  <2>3. CASE md[g] = b
    <3>1. num[g] # l
      BY <1>2, <1>14, <2>1, <2>3
    <3>2. num[g] \in DOMAIN freed /\ freed[num[g]] = g
      BY <1>5, <2>1, <2>3, <3>1
    <3> QED
      BY <1>7, <2>1, <2>3, <3>2 DEF Owned, IsAFactorOwner
  <2>4. CASE md[g] # b /\ md[g] # d
    BY <1>7, <2>1, <2>4 DEF Owned, IsAFactorOwner
  <2> QED
    BY <2>2, <2>3, <2>4
<1> QED
  BY <1>1, <1>3, <1>8, <1>12, <1>13, <1>14

\* The client moves a factor of its own.
LEMMA SetModelDomainInv ==
  ASSUME DomainInv, NEW f \in Factor, NEW d \in Domain, SetModelDomain(f, d)
  PROVE  DomainInv'
<1>1. /\ pc = Idle /\ f \in alive /\ ~Held(f) /\ d \in domains /\ d # md[f]
      /\ UNCHANGED <<domains, refs, self, modelMD, facts, pc>>
  BY DEF SetModelDomain, domainVars, modelVars
<1>2. HeapState /\ TypeOK /\ pc.at # "~CFactors" /\ pc'.at # "~CFactors"
  BY <1>1, HeapStateByInv DEF DomainInv, Idle
<1>3. /\ \A m \in Model : \A i \in DOMAIN facts[m] :
           facts[m][i] \in alive /\ md[facts[m][i]] = modelMD[m]
      /\ \A m, n \in Model : \A i \in DOMAIN facts[m], j \in DOMAIN facts[n] :
           facts[m][i] = facts[n][j] => m = n /\ i = j
      /\ \A g \in alive : Held(g) \/ Owned(g)
  BY <1>2, DeletedOnceOutside DEF DomainInv
<1>4. /\ HeapState' /\ alive' = alive /\ md'[f] = d /\ Owned(f)'
      /\ \A g \in alive : g # f => md'[g] = md[g] /\ (Owned(g) => Owned(g)')
  BY <1>1, <1>2, <1>3, SetModelDomainStep
<1>5. TypeOK' /\ HeapSound'
  BY <1>1, <1>2, <1>4 DEF TypeOK, HeapState, Cell
<1>6. \A g : Held(g)' <=> Held(g)
  BY <1>1 DEF Held
<1>7. DeletedOnce'
  <2>1. \A m \in Model : \A i \in DOMAIN facts'[m] :
          facts'[m][i] \in alive' /\ md'[facts'[m][i]] = modelMD'[m]
    BY <1>1, <1>3, <1>4 DEF Held
  <2>2. \A m, n \in Model : \A i \in DOMAIN facts'[m], j \in DOMAIN facts'[n] :
          facts'[m][i] = facts'[n][j] => m = n /\ i = j
    BY <1>1, <1>3
  <2>3. \A g \in alive' : Held(g)' \/ Owned(g)'
    BY <1>3, <1>4, <1>6
  <2> QED
    BY <1>2, <2>1, <2>2, <2>3, DeletedOnceAfter
<1>8. DomainOutlivesModels'
  <2>1. \A e \in domains : Models(e)' = Models(e)
    BY <1>1 DEF Models
  <2> QED
    BY <1>1, <1>4, <2>1 DEF DomainInv, DomainOutlivesModels
<1>9. NoModelNoFactors' /\ Progress'
  BY <1>1 DEF DomainInv, NoModelNoFactors, Progress, Idle
<1> QED
  BY <1>5, <1>7, <1>8, <1>9 DEF DomainInv

-----------------------------------------------------------------------------
(* Factors of a model.                                                        *)

\* No factor is on two lists, or on one twice.
ListedOnce ==
  \A a, b \in Model : \A i \in DOMAIN facts[a], j \in DOMAIN facts[b] :
    facts[a][i] = facts[b][j] => a = b /\ i = j

\* Factor f is new at the end of the list of model m.
Grew(m, f) ==
  /\ facts' \in [Model -> Seq(Factor)]
  /\ \A n \in Model : n # m => facts'[n] = facts[n]
  /\ Len(facts'[m]) = Len(facts[m]) + 1
  /\ \A i \in DOMAIN facts'[m] : \/ i \in DOMAIN facts[m] /\ facts'[m][i] = facts[m][i]
                                 \/ i = Len(facts[m]) + 1 /\ facts'[m][i] = f
  /\ \A g : Held(g)' <=> Held(g) \/ g = f

\* A factor that is on no list is put at the end of one.
LEMMA ListGrows ==
  ASSUME facts \in [Model -> Seq(Factor)], NEW m \in Model, NEW f \in Factor, ~Held(f),
         facts' = [facts EXCEPT ![m] = Append(@, f)]
  PROVE  Grew(m, f) /\ (ListedOnce => ListedOnce')
<1> DEFINE list == facts[m]
           more == Append(list, f)
           k == Len(list) + 1
<1>1. /\ list \in Seq(Factor) /\ more \in Seq(Factor)
      /\ Len(list) \in Nat /\ Len(more) = k
      /\ DOMAIN list = 1 .. Len(list) /\ DOMAIN more = 1 .. k
      /\ \A i \in DOMAIN list : i \in DOMAIN more /\ more[i] = list[i]
      /\ k \in DOMAIN more /\ more[k] = f
      /\ \A i \in DOMAIN more : i \in DOMAIN list \/ i = k
  OBVIOUS
<1>2. facts' = [facts EXCEPT ![m] = more]
  OBVIOUS
<1> HIDE DEF list, more, k
<1>3. /\ facts' \in [Model -> Seq(Factor)] /\ facts'[m] = more
      /\ \A n \in Model : n # m => facts'[n] = facts[n]
  BY <1>1, <1>2
<1>4. \A i \in DOMAIN facts'[m] : \/ i \in DOMAIN list /\ facts'[m][i] = facts[m][i]
                                  \/ i = k /\ facts'[m][i] = f
  BY <1>1, <1>3 DEF list
<1>5. \A i \in DOMAIN facts[m] : i \in DOMAIN facts'[m] /\ facts'[m][i] = facts[m][i]
  BY <1>1, <1>3 DEF list
<1>6. ASSUME NEW g
      PROVE  Held(g)' <=> Held(g) \/ g = f
  <2>1. Held(g)' => Held(g) \/ g = f
    BY <1>3, <1>4 DEF Held, list
  <2>2. Held(g) => Held(g)'
    BY <1>3, <1>5 DEF Held
  <2>3. Held(f)'
    BY <1>1, <1>3 DEF Held
  <2>4. g = f => Held(g)'
    BY <2>3
  <2> QED
    BY <2>1, <2>2, <2>4
<1>7. ASSUME ListedOnce,
             NEW a \in Model, NEW b \in Model, NEW i \in DOMAIN facts'[a], NEW j \in DOMAIN facts'[b],
             facts'[a][i] = facts'[b][j]
      PROVE  a = b /\ i = j
  <2>1. \/ i \in DOMAIN facts[a] /\ facts'[a][i] = facts[a][i]
        \/ a = m /\ i = k /\ facts'[a][i] = f
    BY <1>3, <1>4, <1>7 DEF list
  <2>2. \/ j \in DOMAIN facts[b] /\ facts'[b][j] = facts[b][j]
        \/ b = m /\ j = k /\ facts'[b][j] = f
    BY <1>3, <1>4, <1>7 DEF list
  <2>3. \A n \in Model : \A x \in DOMAIN facts[n] : facts[n][x] # f
    BY DEF Held
  <2> QED
    BY <1>7, <2>1, <2>2, <2>3 DEF ListedOnce
<1>8. ListedOnce => ListedOnce'
  BY <1>7 DEF ListedOnce
<1> QED
  BY <1>1, <1>3, <1>4, <1>6, <1>8 DEF Grew, list, k

\* AddFactor: the model becomes the owner, and the domain is it no longer.
LEMMA AddFactorInv ==
  ASSUME DomainInv, pc.at # "~CFactors", NEW m \in Model, modelMD[m] # NULL,
         NEW f \in alive, ~Held(f), md[f] = modelMD[m],
         AddFactor(m, f), UNCHANGED <<domainVars, factorVars, modelMD>>, pc' = Idle
  PROVE  DomainInv'
<1>1. UNCHANGED <<domains, refs, self, alive, md, num, modelMD>> /\ factorVars' = factorVars
  BY DEF domainVars, factorVars
<1>2. HeapState /\ TypeOK /\ f \in Factor
  BY HeapStateByInv DEF DomainInv, TypeOK
<1>3. /\ \A n \in Model : \A i \in DOMAIN facts[n] :
           facts[n][i] \in alive /\ md[facts[n][i]] = modelMD[n]
      /\ \A n, b \in Model : \A i \in DOMAIN facts[n], j \in DOMAIN facts[b] :
           facts[n][i] = facts[b][j] => n = b /\ i = j
      /\ \A g \in alive : Held(g) \/ Owned(g)
  BY DeletedOnceOutside DEF DomainInv
<1>4. Owned(f) /\ ReleaseFactor(f)
  BY <1>3 DEF AddFactor, Owned
<1>5. HeapState' /\ \A g \in alive : g # f /\ Owned(g) => Owned(g)'
  BY <1>1, <1>2, <1>4, ReleaseKeeps
<1>6. facts \in [Model -> Seq(Factor)] /\ facts' = [facts EXCEPT ![m] = Append(@, f)]
  BY <1>2 DEF TypeOK, AddFactor
<1>7. /\ facts' \in [Model -> Seq(Factor)]
      /\ \A n \in Model : n # m => facts'[n] = facts[n]
      /\ \A i \in DOMAIN facts'[m] : \/ i \in DOMAIN facts[m] /\ facts'[m][i] = facts[m][i]
                                     \/ i = Len(facts[m]) + 1 /\ facts'[m][i] = f
      /\ \A g : Held(g)' <=> Held(g) \/ g = f
      /\ \A a, b \in Model : \A i \in DOMAIN facts'[a], j \in DOMAIN facts'[b] :
           facts'[a][i] = facts'[b][j] => a = b /\ i = j
  <2>1. ListedOnce
    BY <1>3 DEF ListedOnce
  <2>2. Grew(m, f) /\ ListedOnce'
    BY <1>2, <1>6, <2>1, ListGrows
  <2>3. \A a, b \in Model : \A i \in DOMAIN facts'[a], j \in DOMAIN facts'[b] :
          facts'[a][i] = facts'[b][j] => a = b /\ i = j
    BY <2>2 DEF ListedOnce
  <2> QED
    BY <2>2, <2>3 DEF Grew
<1>8. pc' \in PCs /\ pc'.at # "~CFactors" /\ Progress'
  BY DEF PCs, Idle, Progress
<1>9. TypeOK' /\ HeapSound'
  BY <1>1, <1>2, <1>5, <1>7, <1>8 DEF TypeOK, HeapState, Cell
<1>10. DeletedOnce'
  <2>1. \A n \in Model : \A i \in DOMAIN facts'[n] :
          facts'[n][i] \in alive' /\ md'[facts'[n][i]] = modelMD'[n]
    BY <1>1, <1>3, <1>7
  <2>2. \A g \in alive' : Held(g)' \/ Owned(g)'
    BY <1>1, <1>3, <1>5, <1>7
  <2> QED
    BY <1>7, <1>8, <2>1, <2>2, DeletedOnceAfter
<1>11. DomainOutlivesModels'
  <2>1. \A e \in domains : Models(e)' = Models(e)
    BY <1>1 DEF Models
  <2> QED
    BY <1>1, <2>1 DEF DomainInv, DomainOutlivesModels
<1>12. NoModelNoFactors'
  BY <1>1, <1>7 DEF DomainInv, NoModelNoFactors
<1> QED
  BY <1>8, <1>9, <1>10, <1>11, <1>12 DEF DomainInv

\* The client attaches a factor of its own.
LEMMA AttachToModelInv ==
  ASSUME DomainInv, NEW m \in Model, NEW f \in Factor, AttachToModel(m, f)
  PROVE  DomainInv'
<1>1. /\ pc = Idle /\ f \in alive /\ ~Held(f) /\ md[f] = modelMD[m] /\ AddFactor(m, f)
      /\ UNCHANGED <<domainVars, factorVars, modelMD>> /\ pc' = Idle
  BY DEF AttachToModel
<1>2. pc.at # "~CFactors"
  BY <1>1 DEF Idle
<1>3. modelMD[m] # NULL
  BY <1>1, DomainAssumption DEF DomainInv, TypeOK, DomainOutlivesModels, DomainAssumption
<1> QED
  BY <1>1, <1>2, <1>3, AddFactorInv

\* A factor that finds the set full stays with the domain.
LEMMA FinishAllocInv ==
  ASSUME DomainInv, FinishAlloc
  PROVE  DomainInv'
<1>1. /\ pc.at = "AddFactor" /\ pc' = Idle /\ UNCHANGED <<domainVars, factorVars, modelMD>>
      /\ pc.model \in Model /\ pc.factor \in alive /\ ~Held(pc.factor)
      /\ modelMD[pc.model] # NULL /\ md[pc.factor] = modelMD[pc.model]
  BY Doing DEF FinishAlloc, DomainInv, TypeOK, Progress
<1>2. CASE AddFactor(pc.model, pc.factor)
  <2>1. pc.at # "~CFactors"
    BY <1>1
  <2> QED
    BY <1>1, <1>2, <2>1, AddFactorInv
<1>3. CASE UNCHANGED <<heapVars, facts>>
  <2>1. UNCHANGED <<heap, freeNums, domains, refs, self, alive, md, num, modelMD, facts>>
    BY <1>1, <1>3 DEF heapVars, domainVars, factorVars
  <2>2. pc.at # "~CFactors" /\ pc'.at # "~CFactors" /\ pc' \in PCs /\ Progress'
    BY <1>1 DEF Idle, PCs, Progress
  <2>3. DeletedOnce' /\ HeapSound'
    BY <2>1, <2>2, FactorsStay
  <2>4. TypeOK' /\ NoModelNoFactors'
    BY <2>1, <2>2 DEF DomainInv, TypeOK, NoModelNoFactors
  <2>5. \A e \in domains : Models(e)' = Models(e)
    BY <2>1 DEF Models
  <2>6. DomainOutlivesModels'
    BY <2>1, <2>5 DEF DomainInv, DomainOutlivesModels
  <2> QED
    BY <2>2, <2>3, <2>4, <2>6 DEF DomainInv
<1> QED
  BY <1>2, <1>3 DEF FinishAlloc

\* CFactors::Copy makes a factor and puts it on the list of the copy.
LEMMA CopyFactorInv ==
  ASSUME DomainInv, NEW f \in Factor, CopyFactor(f)
  PROVE  DomainInv'
<1> DEFINE m == pc.model
           from == pc.from
           k == Len(facts[m]) + 1
           d == md[facts[from][k]]
<1>1. /\ pc.at = "Copy" /\ NewFactor(d, f) /\ Len(facts[m]) < Len(facts[from])
      /\ facts' = [facts EXCEPT ![m] = Append(@, f)]
      /\ UNCHANGED <<domains, refs, self, modelMD, pc>>
  BY DEF CopyFactor, domainVars
<1>2. /\ HeapState /\ TypeOK /\ pc.at # "~CFactors" /\ pc'.at # "~CFactors"
      /\ m \in Model /\ from \in Model /\ m # from
      /\ modelMD[from] # NULL /\ modelMD[m] = modelMD[from]
      /\ \A i \in DOMAIN facts[m] : Owned(facts[m][i])
      /\ facts \in [Model -> Seq(Factor)]
  BY <1>1, HeapStateByInv, Doing DEF DomainInv, TypeOK, Progress
<1>3. /\ \A n \in Model : \A i \in DOMAIN facts[n] :
           facts[n][i] \in alive /\ md[facts[n][i]] = modelMD[n]
      /\ \A n, b \in Model : \A i \in DOMAIN facts[n], j \in DOMAIN facts[b] :
           facts[n][i] = facts[b][j] => n = b /\ i = j
      /\ \A g \in alive : Held(g) \/ Owned(g)
  BY <1>2, DeletedOnceOutside DEF DomainInv
<1>4. d = modelMD[from] /\ d \in domains /\ d \in Domain
  <2>1. facts[m] \in Seq(Factor) /\ facts[from] \in Seq(Factor)
    BY <1>2
  <2>2. k \in DOMAIN facts[from]
    BY <1>1, <2>1
  <2> QED
    BY <1>2, <1>3, <2>2 DEF DomainInv, DomainOutlivesModels, TypeOK
<1> HIDE DEF m, from, k, d
<1>5. /\ HeapState' /\ f \notin alive /\ alive' = alive \cup {f} /\ md'[f] = d /\ Owned(f)'
      /\ \A g \in alive : md'[g] = md[g] /\ (Owned(g) => Owned(g)')
  BY <1>1, <1>2, <1>4, NewFactorStep
<1>6. ~Held(f)
  BY <1>3, <1>5 DEF Held
<1>7. /\ facts' \in [Model -> Seq(Factor)]
      /\ \A n \in Model : n # m => facts'[n] = facts[n]
      /\ Len(facts'[m]) = Len(facts[m]) + 1
      /\ \A i \in DOMAIN facts'[m] : \/ i \in DOMAIN facts[m] /\ facts'[m][i] = facts[m][i]
                                     \/ i = Len(facts[m]) + 1 /\ facts'[m][i] = f
      /\ \A g : Held(g)' <=> Held(g) \/ g = f
      /\ \A a, b \in Model : \A i \in DOMAIN facts'[a], j \in DOMAIN facts'[b] :
           facts'[a][i] = facts'[b][j] => a = b /\ i = j
  <2>1. ListedOnce
    BY <1>3 DEF ListedOnce
  <2>2. Grew(m, f) /\ ListedOnce'
    BY <1>1, <1>2, <1>6, <2>1, ListGrows
  <2>3. \A a, b \in Model : \A i \in DOMAIN facts'[a], j \in DOMAIN facts'[b] :
          facts'[a][i] = facts'[b][j] => a = b /\ i = j
    BY <2>2 DEF ListedOnce
  <2> QED
    BY <2>2, <2>3 DEF Grew
<1>8. TypeOK' /\ HeapSound'
  BY <1>1, <1>2, <1>5, <1>7 DEF TypeOK, HeapState, Cell
<1>9. DeletedOnce'
  <2>1. \A n \in Model : \A i \in DOMAIN facts'[n] :
          facts'[n][i] \in alive' /\ md'[facts'[n][i]] = modelMD'[n]
    <3> SUFFICES ASSUME NEW n \in Model, NEW i \in DOMAIN facts'[n]
                 PROVE  facts'[n][i] \in alive' /\ md'[facts'[n][i]] = modelMD[n]
      BY <1>1
    <3>1. CASE i \in DOMAIN facts[n] /\ facts'[n][i] = facts[n][i]
      BY <1>3, <1>5, <3>1
    <3>2. CASE n = m /\ facts'[n][i] = f
      BY <1>2, <1>4, <1>5, <3>2
    <3> QED
      BY <1>7, <3>1, <3>2
  <2>2. \A g \in alive' : Held(g)' \/ Owned(g)'
    BY <1>3, <1>5, <1>7
  <2> QED
    BY <1>2, <1>7, <2>1, <2>2, DeletedOnceAfter
<1>10. DomainOutlivesModels'
  <2>1. \A e \in domains : Models(e)' = Models(e)
    BY <1>1 DEF Models
  <2> QED
    BY <1>1, <1>4, <1>5, <2>1 DEF DomainInv, DomainOutlivesModels
<1>11. NoModelNoFactors'
  BY <1>1, <1>2, <1>7 DEF DomainInv, NoModelNoFactors
<1>12. Progress'
  <2>1. Len(facts'[m]) <= Len(facts'[from])
    <3>1. Len(facts[m]) \in Nat /\ Len(facts[from]) \in Nat
      BY <1>2
    <3> QED
      BY <1>1, <1>2, <1>7, <3>1 DEF m, from
  <2>2. \A g : Owned(g)' <=> num'[g] \in DOMAIN heap'[md'[g]] /\ heap'[md'[g]][num'[g]] = g
    BY DEF Owned, IsAFactorOwner
  <2>3. ASSUME NEW i \in DOMAIN facts'[m]
        PROVE  \E g : g = facts'[m][i] /\ Owned(g)'
    <3>1. CASE i \in DOMAIN facts[m] /\ facts'[m][i] = facts[m][i]
      BY <1>2, <1>3, <1>5, <3>1
    <3>2. CASE facts'[m][i] = f
      BY <1>5, <3>2
    <3> QED
      BY <1>7, <3>1, <3>2
  <2>4. ASSUME NEW i \in DOMAIN facts'[m]
        PROVE  Owned(facts[pc.model][i])'
    <3>1. facts'[m][i] = facts'[pc'.model][i]
      BY <1>1 DEF m
    <3> QED
      BY <2>2, <2>3, <3>1 DEF Owned, IsAFactorOwner
  <2>5. pc' = pc /\ pc.at = "Copy" /\ modelMD' = modelMD
    BY <1>1
  <2> QED
    BY <1>2, <2>1, <2>4, <2>5 DEF Progress, m, from
<1> QED
  BY <1>8, <1>9, <1>10, <1>11, <1>12 DEF DomainInv

\* Only pc changes, outside the destructor of a model.
LEMMA OnlyPcChanges ==
  ASSUME DomainInv, UNCHANGED <<heapVars, domainVars, factorVars, modelVars>>,
         pc.at # "~CFactors", pc' \in PCs, pc'.at # "~CFactors"
  PROVE  TypeOK' /\ HeapSound' /\ DeletedOnce' /\ DomainOutlivesModels' /\ NoModelNoFactors'
<1>1. UNCHANGED <<heap, freeNums, domains, refs, self, alive, md, num, modelMD, facts>>
  BY DEF heapVars, domainVars, factorVars, modelVars
<1>2. DeletedOnce' /\ HeapSound'
  BY <1>1, FactorsStay
<1>3. TypeOK' /\ NoModelNoFactors'
  BY <1>1 DEF DomainInv, TypeOK, NoModelNoFactors
<1>4. \A e \in domains : Models(e)' = Models(e)
  BY <1>1 DEF Models
<1>5. DomainOutlivesModels'
  BY <1>1, <1>4 DEF DomainInv, DomainOutlivesModels
<1> QED
  BY <1>2, <1>3, <1>5

\* The copy is complete: a factor graph takes its factors out of the heap.
LEMMA FinishCopyInv ==
  ASSUME DomainInv, FinishCopy
  PROVE  DomainInv'
<1>1. /\ pc.at = "Copy" /\ pc \in PCs
      /\ pc' = IF pc.release THEN [at |-> "ChangeOwner", model |-> pc.model, next |-> 1] ELSE Idle
      /\ UNCHANGED <<heapVars, domainVars, factorVars, modelVars>>
  BY DEF FinishCopy, DomainInv, TypeOK
<1>2. /\ pc.model \in Model /\ modelMD[pc.model] # NULL
      /\ \A i \in DOMAIN facts[pc.model] : Owned(facts[pc.model][i])
  BY <1>1, Doing DEF DomainInv, Progress
<1>3. UNCHANGED <<heap, md, num, modelMD, facts>>
  BY <1>1 DEF heapVars, factorVars, modelVars
<1>4. CASE pc' = Idle
  <2>1. pc' \in PCs /\ pc'.at # "~CFactors" /\ pc.at # "~CFactors" /\ Progress'
    BY <1>1, <1>4 DEF PCs, Idle, Progress
  <2> QED
    BY <1>1, <2>1, OnlyPcChanges DEF DomainInv
<1>5. CASE pc' = [at |-> "ChangeOwner", model |-> pc.model, next |-> 1]
  <2>1. /\ pc' \in PCs /\ pc'.at = "ChangeOwner" /\ pc'.model = pc.model
        /\ pc.at # "~CFactors" /\ pc'.at # "~CFactors"
    BY <1>1, <1>2, <1>5 DEF PCs
  <2>2. \A i \in DOMAIN facts'[pc'.model] : Owned(facts[pc.model][i])'
    BY <1>2, <1>3, <2>1 DEF Owned, IsAFactorOwner
  <2>3. Progress'
    BY <1>2, <1>3, <2>1, <2>2 DEF Progress
  <2> QED
    BY <1>1, <2>1, <2>3, OnlyPcChanges DEF DomainInv
<1> QED
  BY <1>1, <1>4, <1>5

\* One factor leaves the heap for its model.
LEMMA ChangeOwnerInv ==
  ASSUME DomainInv, ChangeOwnerToGraphicalModel
  PROVE  DomainInv'
<1> DEFINE m == pc.model
           k == pc.next
           f == facts[m][k]
<1>1. /\ pc.at = "ChangeOwner" /\ pc \in PCs /\ k <= Len(facts[m]) /\ ReleaseFactor(f)
      /\ pc' = [pc EXCEPT !.next = @ + 1]
      /\ UNCHANGED <<domains, refs, self, alive, md, num, modelMD, facts>> /\ UNCHANGED factorVars
  BY DEF ChangeOwnerToGraphicalModel, DomainInv, TypeOK, domainVars, factorVars, modelVars
<1>2. /\ HeapState /\ TypeOK /\ pc.at # "~CFactors"
      /\ m \in Model /\ k \in Nat \ {0} /\ modelMD[m] # NULL
      /\ \A i \in DOMAIN facts[m] : i >= k => Owned(facts[m][i])
  BY <1>1, HeapStateByInv, Doing DEF DomainInv, Progress
<1>3. /\ \A n \in Model : \A i \in DOMAIN facts[n] :
           facts[n][i] \in alive /\ md[facts[n][i]] = modelMD[n]
      /\ \A n, b \in Model : \A i \in DOMAIN facts[n], j \in DOMAIN facts[b] :
           facts[n][i] = facts[b][j] => n = b /\ i = j
      /\ \A g \in alive : Held(g) \/ Owned(g)
  BY <1>2, DeletedOnceOutside DEF DomainInv
<1>4. /\ pc' \in PCs /\ pc'.at = "ChangeOwner" /\ pc'.next = k + 1 /\ pc'.model = m
      /\ pc'.at # "~CFactors"
  BY <1>1, NextRound
<1>5. k \in DOMAIN facts[m] /\ DOMAIN facts[m] \subseteq Nat
  <2>1. facts[m] \in Seq(Factor)
    BY <1>2 DEF TypeOK
  <2> QED
    BY <1>1, <1>2, <2>1
<1>6. f \in alive /\ Owned(f) /\ Held(f)
  BY <1>2, <1>3, <1>5 DEF Held
<1> HIDE DEF m, k, f
<1>7. HeapState' /\ \A g \in alive : g # f /\ Owned(g) => Owned(g)'
  BY <1>1, <1>2, <1>6, ReleaseKeeps
<1>8. TypeOK' /\ HeapSound'
  BY <1>1, <1>2, <1>4, <1>7 DEF TypeOK, HeapState, Cell
<1>9. \A g : Held(g)' <=> Held(g)
  BY <1>1 DEF Held
<1>10. DeletedOnce'
  <2>1. \A n \in Model : \A i \in DOMAIN facts'[n] :
          facts'[n][i] \in alive' /\ md'[facts'[n][i]] = modelMD'[n]
    BY <1>1, <1>3
  <2>2. \A n, b \in Model : \A i \in DOMAIN facts'[n], j \in DOMAIN facts'[b] :
          facts'[n][i] = facts'[b][j] => n = b /\ i = j
    BY <1>1, <1>3
  <2>3. \A g \in alive' : Held(g)' \/ Owned(g)'
    BY <1>1, <1>3, <1>6, <1>7, <1>9
  <2> QED
    BY <1>4, <2>1, <2>2, <2>3, DeletedOnceAfter
<1>11. DomainOutlivesModels' /\ NoModelNoFactors'
  <2>1. \A e \in domains : Models(e)' = Models(e)
    BY <1>1 DEF Models
  <2> QED
    BY <1>1, <2>1 DEF DomainInv, DomainOutlivesModels, NoModelNoFactors
<1>12. Progress'
  <2>1. ASSUME NEW i \in DOMAIN facts[m], i >= k + 1
        PROVE  \E g : g = facts[m][i] /\ Owned(g)'
    <3>1. i > k /\ i # k /\ i >= k
      BY <1>2, <1>5, <2>1
    <3>2. facts[m][i] # f
      BY <1>2, <1>3, <1>5, <3>1 DEF f
    <3> QED
      BY <1>2, <1>3, <1>7, <3>1, <3>2
  <2>2. ASSUME NEW i \in DOMAIN facts'[pc'.model], i >= pc'.next
        PROVE  Owned(facts[pc.model][i])'
    <3>1. PICK g : g = facts[m][i] /\ Owned(g)'
      BY <1>1, <1>4, <2>1, <2>2
    <3>2. facts'[pc'.model][i] = g
      BY <1>1, <1>4, <3>1
    <3> QED
      BY <3>1, <3>2 DEF Owned, IsAFactorOwner
  <2>3. modelMD'[pc'.model] # NULL
    BY <1>1, <1>2, <1>4
  <2> QED
    BY <1>4, <2>2, <2>3 DEF Progress
<1> QED
  BY <1>8, <1>10, <1>11, <1>12 DEF DomainInv

\* All factors have changed their owner.
LEMMA FinishChangeOwnerInv ==
  ASSUME DomainInv, FinishChangeOwner
  PROVE  DomainInv'
<1>1. /\ pc.at # "~CFactors" /\ pc' \in PCs /\ pc'.at # "~CFactors" /\ Progress'
      /\ UNCHANGED <<heapVars, domainVars, factorVars, modelVars>>
  BY DEF FinishChangeOwner, PCs, Idle, Progress
<1> QED
  BY <1>1, OnlyPcChanges DEF DomainInv

-----------------------------------------------------------------------------
(* Destructors.                                                               *)

\* The destructor of a model begins.
LEMMA DeleteModelInv ==
  ASSUME DomainInv, NEW m \in Model, DeleteModel(m)
  PROVE  DomainInv'
<1>1. /\ pc = Idle /\ modelMD[m] # NULL
      /\ pc' = [at |-> "~CFactors", model |-> m, next |-> 1]
      /\ UNCHANGED <<heap, freeNums, domains, refs, self, alive, md, num, modelMD, facts>>
  BY DEF DeleteModel, heapVars, domainVars, factorVars, modelVars
<1>2. /\ pc' \in PCs /\ pc'.at = "~CFactors" /\ pc'.model = m /\ pc'.next = 1
      /\ pc.at # "~CFactors"
  BY <1>1 DEF PCs, Idle
<1>3. TypeOK' /\ HeapSound' /\ NoModelNoFactors'
  BY <1>1, <1>2 DEF DomainInv, TypeOK, HeapSound, NoModelNoFactors
<1>4. DomainOutlivesModels'
  <2>1. \A e \in domains : Models(e)' = Models(e)
    BY <1>1 DEF Models
  <2> QED
    BY <1>1, <2>1 DEF DomainInv, DomainOutlivesModels
<1>5. DeletedOnce'
  <2>1. /\ \A n \in Model : \A i \in DOMAIN facts[n] :
             facts[n][i] \in alive /\ md[facts[n][i]] = modelMD[n]
        /\ \A n, b \in Model : \A i \in DOMAIN facts[n], j \in DOMAIN facts[b] :
             facts[n][i] = facts[b][j] => n = b /\ i = j
        /\ \A g \in alive : Held(g) \/ Owned(g)
    BY <1>2, DeletedOnceOutside DEF DomainInv
  <2>2. \A n \in Model : ToDelete(n)' \subseteq DOMAIN facts[n]
    BY <1>1 DEF ToDelete
  <2>3. \A n \in Model : \A i \in ToDelete(n)' :
          facts'[n][i] \in alive' /\ md'[facts'[n][i]] = modelMD'[n]
    BY <1>1, <2>1, <2>2
  <2>4. \A n, b \in Model : \A i \in DOMAIN facts'[n], j \in DOMAIN facts'[b] :
          facts'[n][i] = facts'[b][j] => n = b /\ i = j
    BY <1>1, <2>1
  <2>5. \A g \in alive' : Held(g)' \/ Owned(g)'
    <3>1. \A g : (Held(g)' <=> Held(g)) /\ (Owned(g)' <=> Owned(g))
      BY <1>1 DEF Held, Owned, IsAFactorOwner
    <3> QED
      BY <1>1, <2>1, <3>1
  <2> QED
    BY <2>3, <2>4, <2>5 DEF DeletedOnce, Owned
<1>6. Progress'
  <2>1. \A i \in DOMAIN facts'[pc'.model] : ~(i < pc'.next)
    <3>1. facts[m] \in Seq(Factor)
      BY DEF DomainInv, TypeOK
    <3> QED
      BY <1>1, <1>2, <3>1
  <2> QED
    BY <1>1, <1>2, <2>1 DEF Progress
<1> QED
  BY <1>3, <1>4, <1>5, <1>6 DEF DomainInv

\* One factor of a model is deleted.
LEMMA DeleteNextInv ==
  ASSUME DomainInv, DeleteNext
  PROVE  DomainInv'
<1> DEFINE m == pc.model
           k == pc.next
           f == facts[m][k]
<1>1. /\ pc.at = "~CFactors" /\ pc \in PCs /\ k <= Len(facts[m]) /\ DestroyFactor(f)
      /\ pc' = [pc EXCEPT !.next = @ + 1]
      /\ UNCHANGED <<domains, refs, self, modelMD, facts>>
  BY DEF DeleteNext, DomainInv, TypeOK, domainVars, modelVars
<1>2. /\ HeapState /\ TypeOK
      /\ m \in Model /\ k \in Nat \ {0} /\ modelMD[m] # NULL
      /\ \A i \in DOMAIN facts[m] : i < k => facts[m][i] \notin alive
  BY <1>1, HeapStateByInv, Doing DEF DomainInv, Progress
<1>3. /\ \A n \in Model : \A i \in ToDelete(n) :
           facts[n][i] \in alive /\ md[facts[n][i]] = modelMD[n]
      /\ \A n, b \in Model : \A i \in DOMAIN facts[n], j \in DOMAIN facts[b] :
           facts[n][i] = facts[b][j] => n = b /\ i = j
      /\ \A g \in alive : Held(g) \/ Owned(g)
  BY DEF DomainInv, DeletedOnce, Owned
<1>4. /\ pc' \in PCs /\ pc'.at = "~CFactors" /\ pc'.next = k + 1 /\ pc'.model = m
  BY <1>1, NextRound
<1>5. k \in DOMAIN facts[m] /\ DOMAIN facts[m] \subseteq Nat
  <2>1. facts[m] \in Seq(Factor)
    BY <1>2 DEF TypeOK
  <2> QED
    BY <1>1, <1>2, <2>1
<1>6. f \in alive
  <2>1. k \in ToDelete(m)
    BY <1>1, <1>2, <1>5 DEF ToDelete
  <2> QED
    BY <1>2, <1>3, <2>1
<1>7. \A n \in Model : \A i \in ToDelete(n)' :
        i \in ToDelete(n) /\ (n = m => i # k)
  <2> SUFFICES ASSUME NEW n \in Model, NEW i \in ToDelete(n)'
               PROVE  i \in ToDelete(n) /\ (n = m => i # k)
    OBVIOUS
  <2>1. i \in DOMAIN facts[n] /\ (m = n => i >= k + 1)
    BY <1>1, <1>4 DEF ToDelete
  <2>2. CASE n = m
    <3>1. i \in Nat /\ i >= k /\ i # k
      BY <1>2, <1>5, <2>1, <2>2
    <3> QED
      BY <2>1, <2>2, <3>1 DEF ToDelete
  <2>3. CASE n # m
    BY <2>1, <2>3 DEF ToDelete
  <2> QED
    BY <2>2, <2>3
<1>8. \A n \in Model : ToDelete(n) \subseteq DOMAIN facts[n]
  BY DEF ToDelete
<1> HIDE DEF m, k
<1>9. \A n \in Model : \A i \in DOMAIN facts[n] : facts[n][i] = f => n = m /\ i = k
  BY <1>2, <1>3, <1>5
<1> HIDE DEF f
<1>10. /\ HeapState' /\ alive' = alive \ {f}
       /\ \A g \in alive' : md'[g] = md[g] /\ (Owned(g) => Owned(g)')
  BY <1>1, <1>2, <1>6, DestroyStep
<1>11. TypeOK' /\ HeapSound'
  BY <1>1, <1>2, <1>4, <1>10 DEF TypeOK, HeapState, Cell
<1>12. DeletedOnce'
  <2>1. ASSUME NEW n \in Model, NEW i \in ToDelete(n)'
        PROVE  facts'[n][i] \in alive' /\ md'[facts'[n][i]] = modelMD'[n]
    <3>1. i \in ToDelete(n) /\ i \in DOMAIN facts[n] /\ facts[n][i] # f
      BY <1>7, <1>8, <1>9
    <3> QED
      BY <1>1, <1>3, <1>10, <3>1
  <2>2. \A n, b \in Model : \A i \in DOMAIN facts'[n], j \in DOMAIN facts'[b] :
          facts'[n][i] = facts'[b][j] => n = b /\ i = j
    BY <1>1, <1>3
  <2>3. \A g \in alive' : Held(g)' \/ Owned(g)'
    <3>1. \A g : Held(g)' <=> Held(g)
      BY <1>1 DEF Held
    <3> QED
      BY <1>3, <1>10, <3>1
  <2> QED
    BY <2>1, <2>2, <2>3 DEF DeletedOnce, Owned
<1>13. DomainOutlivesModels' /\ NoModelNoFactors'
  <2>1. \A e \in domains : Models(e)' = Models(e)
    BY <1>1 DEF Models
  <2> QED
    BY <1>1, <1>10, <2>1 DEF DomainInv, DomainOutlivesModels, NoModelNoFactors
<1>14. Progress'
  <2>1. ASSUME NEW i \in DOMAIN facts[m], i < k + 1
        PROVE  facts[m][i] \notin alive'
    <3>1. CASE i < k
      BY <1>2, <1>10, <3>1
    <3>2. CASE i = k
      BY <1>10, <3>2 DEF f
    <3> QED
      BY <1>2, <1>5, <2>1, <3>1, <3>2
  <2>2. facts' = facts /\ modelMD' = modelMD
    BY <1>1
  <2> QED
    BY <1>2, <1>4, <2>1, <2>2 DEF Progress
<1> QED
  BY <1>11, <1>12, <1>13, <1>14 DEF DomainInv

\* The last model of a domain that the client does not own takes the domain along.
LEMMA ReleaseDomainInv ==
  ASSUME DomainInv, ReleaseDomain
  PROVE  DomainInv'
<1>1. /\ pc.at = "~CFactors" /\ pc \in PCs /\ pc.next > Len(facts[pc.model])
      /\ TypeOK
      /\ UNCHANGED <<heap, freeNums, domains, self, alive, md, num>>
  BY DEF ReleaseDomain, DomainInv, TypeOK, heapVars, factorVars
<1>2. PICK m \in Model : m = pc.model
  BY <1>1, Doing
<1>3. PICK d \in domains : d = modelMD[m]
  BY <1>1, <1>2 DEF DomainInv, DomainOutlivesModels, Progress
<1>4. /\ refs' = [refs EXCEPT ![d] = @ - 1]
      /\ pc' = IF refs[d] = 1 THEN [at |-> "~CModelDomain", domain |-> d, next |-> 1] ELSE Idle
      /\ modelMD' = [modelMD EXCEPT ![m] = NULL]
      /\ facts' = [facts EXCEPT ![m] = <<>>]
  BY <1>2, <1>3 DEF ReleaseDomain
<1>5. d \in Domain /\ modelMD \in [Model -> Domain \cup {NULL}] /\ refs \in [Domain -> Nat]
  BY <1>1 DEF TypeOK
<1>6. /\ Cardinality(Models(d)') = Cardinality(Models(d)) - 1
      /\ Cardinality(Models(d)) \in Nat \ {0}
      /\ m \in Models(d) /\ Models(d)' = Models(d) \ {m}
      /\ \A e \in Domain : e # d => Models(e)' = Models(e)
  BY <1>1, <1>3, <1>4, <1>5, ModelsRemoved
<1>7. refs[d] = Cardinality(Models(d)) + (IF self[d] THEN 1 ELSE 0)
  BY DEF DomainInv, DomainOutlivesModels
<1>8. /\ refs' \in [Domain -> Nat] /\ refs'[d] = refs[d] - 1
      /\ \A e \in Domain : e # d => refs'[e] = refs[e]
  BY <1>4, <1>5, <1>6, <1>7
<1>9. /\ facts' \in [Model -> Seq(Factor)] /\ facts'[m] = <<>> /\ DOMAIN facts'[m] = {}
      /\ modelMD' \in [Model -> Domain \cup {NULL}] /\ modelMD'[m] = NULL
      /\ \A n \in Model : n # m => facts'[n] = facts[n] /\ modelMD'[n] = modelMD[n]
  <2>1. <<>> \in Seq(Factor) /\ DOMAIN <<>> = {}
    OBVIOUS
  <2> QED
    BY <1>1, <1>4, <2>1 DEF TypeOK
<1>10. pc' \in PCs /\ pc'.at \in {"Idle", "~CModelDomain"}
  BY <1>4, <1>5 DEF PCs, Idle
<1>11. TypeOK' /\ HeapSound'
  BY <1>1, <1>8, <1>9, <1>10 DEF DomainInv, TypeOK, HeapSound
<1>12. \A i \in DOMAIN facts[m] : facts[m][i] \notin alive
  <2>1. /\ facts[m] \in Seq(Factor) /\ pc.next \in Nat
        /\ \A i \in DOMAIN facts[m] : i < pc.next => facts[m][i] \notin alive
    BY <1>1, <1>2, Doing DEF TypeOK, DomainInv, Progress
  <2>2. \A i \in DOMAIN facts[m] : i < pc.next
    BY <1>1, <1>2, <2>1
  <2> QED
    BY <2>1, <2>2
<1>13. DeletedOnce'
  <2>1. /\ \A n \in Model : \A i \in ToDelete(n) :
             facts[n][i] \in alive /\ md[facts[n][i]] = modelMD[n]
        /\ \A n, b \in Model : \A i \in DOMAIN facts[n], j \in DOMAIN facts[b] :
             facts[n][i] = facts[b][j] => n = b /\ i = j
        /\ \A g \in alive : Held(g) \/ Owned(g)
    BY DEF DomainInv, DeletedOnce, Owned
  <2>2. \A n \in Model : n # m => ToDelete(n) = DOMAIN facts[n]
    BY <1>2 DEF ToDelete
  <2>0. \A n \in Model : \A i \in DOMAIN facts'[n] :
          /\ n # m /\ i \in DOMAIN facts[n]
          /\ facts'[n][i] = facts[n][i] /\ modelMD'[n] = modelMD[n]
    <3> SUFFICES ASSUME NEW n \in Model, NEW i \in DOMAIN facts'[n]
                 PROVE  /\ n # m /\ i \in DOMAIN facts[n]
                        /\ facts'[n][i] = facts[n][i] /\ modelMD'[n] = modelMD[n]
      OBVIOUS
    <3>1. n # m
      BY <1>9
    <3> QED
      BY <1>9, <3>1
  <2>3. \A n \in Model : \A i \in DOMAIN facts'[n] :
          facts'[n][i] \in alive' /\ md'[facts'[n][i]] = modelMD'[n]
    BY <1>1, <1>9, <2>0, <2>1, <2>2
  <2>4. \A n, b \in Model : \A i \in DOMAIN facts'[n], j \in DOMAIN facts'[b] :
          facts'[n][i] = facts'[b][j] => n = b /\ i = j
    BY <2>0, <2>1
  <2>5. ASSUME NEW g \in alive, Held(g)
        PROVE  Held(g)'
    <3>1. PICK n \in Model : \E i \in DOMAIN facts[n] : facts[n][i] = g
      BY <2>5 DEF Held
    <3>2. n # m
      BY <1>12, <3>1
    <3> QED
      BY <1>9, <3>1, <3>2 DEF Held
  <2>6. \A g : Owned(g)' <=> Owned(g)
    BY <1>1 DEF Owned, IsAFactorOwner
  <2>7. \A g \in alive' : Held(g)' \/ Owned(g)'
    BY <1>1, <2>1, <2>5, <2>6
  <2>8. pc'.at # "~CFactors"
    BY <1>10
  <2> QED
    BY <2>3, <2>4, <2>7, <2>8, DeletedOnceAfter
<1>14. DomainOutlivesModels'
  <2>1. \A n \in Model : modelMD'[n] # NULL => modelMD'[n] \in domains
    BY <1>9 DEF DomainInv, DomainOutlivesModels
  <2>2. \A g \in alive' : md'[g] \in domains
    BY <1>1 DEF DomainInv, DomainOutlivesModels
  <2>3. ASSUME NEW e \in domains
        PROVE  refs'[e] = Cardinality(Models(e)') + (IF self[e] THEN 1 ELSE 0)
    <3>1. CASE e = d
      <4>1. Models(e)' = Models(d)'
        BY <3>1 DEF Models
      <4>2. refs'[d] = Cardinality(Models(d)') + (IF self[d] THEN 1 ELSE 0)
        BY <1>6, <1>7, <1>8
      <4> QED
        BY <3>1, <4>1, <4>2
    <3>2. CASE e # d
      <4>1. refs[e] = Cardinality(Models(e)) + (IF self[e] THEN 1 ELSE 0) /\ e \in Domain
        BY <1>1 DEF DomainInv, DomainOutlivesModels, TypeOK
      <4> QED
        BY <1>6, <1>8, <3>2, <4>1
    <3> QED
      BY <3>1, <3>2
  <2> QED
    BY <1>1, <2>1, <2>2, <2>3 DEF DomainOutlivesModels
<1>15. NoModelNoFactors'
  BY <1>9 DEF DomainInv, NoModelNoFactors
<1>16. Progress'
  <2>1. CASE pc' = Idle
    BY <2>1 DEF Progress, Idle
  <2>2. CASE pc' = [at |-> "~CModelDomain", domain |-> d, next |-> 1] /\ refs[d] = 1
    <3>1. pc'.at = "~CModelDomain" /\ pc'.domain = d /\ pc'.next = 1
      BY <2>2
    <3>2. Models(d)' = {}
      <4>1. Cardinality(Models(d)') = 0
        BY <1>6, <1>7, <2>2
      <4>2. IsFiniteSet(Models(d)')
        <5>1. Models(d)' \subseteq Model
          BY DEF Models
        <5> QED
          BY <5>1, DomainAssumption, FS_Subset DEF DomainAssumption
      <4> QED
        BY <4>1, <4>2, FS_EmptySet
    <3>3. Models(pc.domain)' = {}
      BY <3>1, <3>2 DEF Models
    <3>4. \A i \in DOMAIN heap'[d] : ~(i < 1)
      <4>1. heap[d] \in Seq(Factor \cup {NULL})
        BY <1>1, <1>5 DEF TypeOK
      <4> QED
        BY <1>1, <4>1
    <3> QED
      BY <1>1, <3>1, <3>3, <3>4 DEF Progress
  <2> QED
    BY <1>4, <2>1, <2>2
<1> QED
  BY <1>11, <1>13, <1>14, <1>15, <1>16 DEF DomainInv

\* The client deletes a domain: its own reference is the only one.
LEMMA DeleteModelDomainInv ==
  ASSUME DomainInv, NEW d \in Domain, DeleteModelDomain(d)
  PROVE  DomainInv'
<1>1. /\ pc = Idle /\ d \in domains /\ refs[d] = 1 /\ self[d]
      /\ pc' = [at |-> "~CModelDomain", domain |-> d, next |-> 1]
      /\ UNCHANGED <<heapVars, domainVars, factorVars, modelVars>>
  BY DEF DeleteModelDomain
<1>2. /\ pc' \in PCs /\ pc'.at = "~CModelDomain" /\ pc'.domain = d /\ pc'.next = 1
      /\ pc.at # "~CFactors" /\ pc'.at # "~CFactors"
  BY <1>1 DEF PCs, Idle
<1>3. UNCHANGED <<heap, domains, modelMD>>
  BY <1>1 DEF heapVars, domainVars, modelVars
<1>4. IsFiniteSet(Models(d))
  <2>1. Models(d) \subseteq Model
    BY DEF Models
  <2> QED
    BY <2>1, DomainAssumption, FS_Subset DEF DomainAssumption
<1>5. Models(d) = {}
  <2>1. refs[d] = Cardinality(Models(d)) + 1
    BY <1>1 DEF DomainInv, DomainOutlivesModels
  <2>2. Cardinality(Models(d)) = 0
    BY <1>1, <1>4, <2>1, FS_CardinalityType
  <2> QED
    BY <1>4, <2>2, FS_EmptySet
<1>6. Models(pc.domain)' = {}
  BY <1>2, <1>3, <1>5 DEF Models
<1>7. \A i \in DOMAIN heap'[d] : ~(i < 1)
  <2>1. heap[d] \in Seq(Factor \cup {NULL})
    BY DEF DomainInv, TypeOK
  <2> QED
    BY <1>3, <2>1
<1>8. Progress'
  BY <1>1, <1>2, <1>3, <1>6, <1>7 DEF Progress
<1> QED
  BY <1>1, <1>2, <1>8, OnlyPcChanges DEF DomainInv

\* One cell of the heap is deleted.
LEMMA DeleteCellInv ==
  ASSUME DomainInv, DeleteCell
  PROVE  DomainInv'
<1>1. /\ pc.at = "~CModelDomain" /\ pc \in PCs /\ pc.next <= Len(heap[pc.domain])
      /\ pc' = [pc EXCEPT !.next = @ + 1]
      /\ UNCHANGED <<domainVars, modelVars>>
  BY DEF DeleteCell, DomainInv, TypeOK
<1>2. PICK d \in domains, k \in Nat \ {0} : d = pc.domain /\ k = pc.next
  BY <1>1, Doing DEF DomainInv, Progress
<1>3. /\ pc' \in PCs /\ pc'.at = "~CModelDomain" /\ pc'.next = k + 1 /\ pc'.domain = d
      /\ pc.at # "~CFactors" /\ pc'.at # "~CFactors"
  BY <1>1, <1>2, NextRound
<1>4. /\ HeapState /\ TypeOK /\ d \in Domain /\ Models(d) = {}
      /\ \A i \in DOMAIN heap[d] : i < k => heap[d][i] = NULL
  BY <1>1, <1>2, HeapStateByInv DEF DomainInv, Progress, TypeOK
<1>5. k \in DOMAIN heap[d] /\ DOMAIN heap[d] \subseteq Nat
  <2>1. heap[d] \in Seq(Factor \cup {NULL})
    BY <1>4 DEF TypeOK
  <2> QED
    BY <1>1, <1>2, <2>1
<1> DEFINE f == heap[d][k]
<1>6. UNCHANGED <<domains, modelMD>>
  BY <1>1 DEF domainVars, modelVars
<1>7. Models(d)' = {}
  BY <1>4, <1>6 DEF Models
<1>8. ASSUME DOMAIN heap'[d] = DOMAIN heap[d],
             \A i \in DOMAIN heap[d] : heap[d][i] = NULL => heap'[d][i] = NULL,
             heap'[d][k] = NULL
      PROVE  Progress'
  <2>1. ASSUME NEW i \in DOMAIN heap[d], i < k + 1
        PROVE  heap'[d][i] = NULL
    <3>1. i < k \/ i = k
      BY <1>2, <1>5, <2>1
    <3> QED
      BY <1>4, <1>8, <3>1
  <2>2. Models(pc.domain)' = {}
    BY <1>3, <1>7 DEF Models
  <2> QED
    BY <1>3, <1>6, <1>8, <2>1, <2>2 DEF Progress
<1>9. CASE f = NULL
  <2>1. UNCHANGED <<heapVars, factorVars>>
    BY <1>2, <1>9 DEF DeleteCell
  <2>2. heap' = heap
    BY <2>1 DEF heapVars
  <2>3. Progress'
    BY <1>8, <1>9, <2>2
  <2> QED
    BY <1>1, <1>3, <2>1, <2>3, OnlyPcChanges DEF DomainInv
<1>10. CASE f # NULL
  <2>1. f \in alive /\ md[f] = d
    BY <1>4, <1>5, <1>10 DEF HeapState, HeapSound
  <2>2. DestroyFactor(f)
    BY <1>2, <1>10 DEF DeleteCell
  <2>3. \A m \in Model : \A i \in DOMAIN facts[m] :
          facts[m][i] \in alive /\ md[facts[m][i]] = modelMD[m]
    BY <1>3, DeletedOnceOutside DEF DomainInv
  <2> HIDE DEF f
  <2>4. ~Held(f)
    BY <1>4, <2>1, <2>3 DEF Held, Models
  <2>5. \A i \in DOMAIN heap[d] : heap'[d][i] = IF heap[d][i] = f THEN NULL ELSE heap[d][i]
    BY <1>4, <2>1, <2>2, DestroyStep
  <2>6. DOMAIN heap'[d] = DOMAIN heap[d]
    BY <1>4, <2>1, <2>2, DestroyStep
  <2>7. heap[d][k] = f
    BY DEF f
  <2>8. Progress'
    BY <1>5, <1>8, <2>5, <2>6, <2>7
  <2> QED
    BY <1>1, <1>3, <2>1, <2>2, <2>4, <2>8, DestroyFactorInv DEF DomainInv
<1> QED
  BY <1>9, <1>10

\* When the domain is gone no factor is left on it.
LEMMA FinishDomainInv ==
  ASSUME DomainInv, FinishDomain
  PROVE  DomainInv'
<1>1. /\ pc.at = "~CModelDomain" /\ pc \in PCs /\ pc.next > Len(heap[pc.domain])
      /\ pc' = Idle
      /\ UNCHANGED <<self, alive, md, num, modelMD, facts>>
  BY DEF FinishDomain, DomainInv, TypeOK, factorVars, modelVars
<1>2. PICK d \in domains : d = pc.domain
  BY <1>1 DEF DomainInv, Progress
<1>3. /\ HeapState /\ TypeOK /\ d \in Domain /\ Models(d) = {} /\ pc.next \in Nat
      /\ \A i \in DOMAIN heap[d] : i < pc.next => heap[d][i] = NULL
  BY <1>1, <1>2, HeapStateByInv, Doing DEF DomainInv, Progress, TypeOK
<1>4. \A i \in DOMAIN heap[d] : heap[d][i] = NULL
  <2>1. heap[d] \in Seq(Factor \cup {NULL})
    BY <1>3 DEF TypeOK
  <2>2. \A i \in DOMAIN heap[d] : i < pc.next
    BY <1>1, <1>2, <1>3, <2>1
  <2> QED
    BY <1>3, <2>2
<1>5. /\ domains' = domains \ {d} /\ refs' = [refs EXCEPT ![d] = 0]
      /\ heap' = [heap EXCEPT ![d] = <<>>] /\ freeNums' = [freeNums EXCEPT ![d] = <<>>]
  BY <1>2 DEF FinishDomain
<1>6. /\ pc.at # "~CFactors" /\ pc'.at # "~CFactors" /\ pc' \in PCs /\ Progress'
  BY <1>1 DEF PCs, Idle, Progress
<1>7. /\ \A n \in Model : \A i \in DOMAIN facts[n] :
           facts[n][i] \in alive /\ md[facts[n][i]] = modelMD[n]
      /\ \A n, b \in Model : \A i \in DOMAIN facts[n], j \in DOMAIN facts[b] :
           facts[n][i] = facts[b][j] => n = b /\ i = j
      /\ \A g \in alive : Held(g) \/ Owned(g)
  BY <1>6, DeletedOnceOutside DEF DomainInv
<1>8. \A g \in alive : g # NULL /\ g \in Factor
  BY DomainAssumption DEF DomainInv, TypeOK, DomainAssumption
<1>9. \A g \in alive : md[g] # d
  <2> SUFFICES ASSUME NEW g \in alive, md[g] = d
               PROVE  FALSE
    OBVIOUS
  <2>1. ~Held(g)
    BY <1>3, <1>7 DEF Held, Models
  <2>2. Owned(g)
    BY <1>7, <2>1
  <2> QED
    BY <1>4, <1>8, <2>2 DEF Owned, IsAFactorOwner
<1>10. /\ heap' \in [Domain -> Seq(Cell)] /\ freeNums' \in [Domain -> Seq(Nat)]
       /\ heap'[d] = <<>> /\ freeNums'[d] = <<>>
       /\ \A e \in Domain : e # d => heap'[e] = heap[e] /\ freeNums'[e] = freeNums[e]
  <2>1. <<>> \in Seq(Cell) /\ <<>> \in Seq(Nat)
    OBVIOUS
  <2> QED
    BY <1>3, <1>5, <2>1 DEF HeapState
<1>11. HeapSound'
  <2> SUFFICES ASSUME NEW e \in Domain
               PROVE  /\ \A i \in DOMAIN heap'[e] : heap'[e][i] # NULL =>
                           heap'[e][i] \in alive' /\ md'[heap'[e][i]] = e /\ num'[heap'[e][i]] = i
                      /\ FreeOK(heap'[e], freeNums'[e])
    BY DEF HeapSound, FreeOK
  <2>1. CASE e = d
    <3>1. FreeOK(<<>>, <<>>)
      BY DEF FreeOK
    <3>2. DOMAIN heap'[e] = {}
      BY <1>10, <2>1
    <3> QED
      BY <1>10, <2>1, <3>1, <3>2
  <2>2. CASE e # d
    <3>1. /\ \A i \in DOMAIN heap[e] : heap[e][i] # NULL =>
               heap[e][i] \in alive /\ md[heap[e][i]] = e /\ num[heap[e][i]] = i
          /\ FreeOK(heap[e], freeNums[e])
      BY DEF DomainInv, HeapSound, FreeOK
    <3> QED
      BY <1>1, <1>10, <2>2, <3>1
  <2> QED
    BY <2>1, <2>2
<1>12. TypeOK'
  <2>1. refs' \in [Domain -> Nat]
    BY <1>3, <1>5 DEF TypeOK
  <2> QED
    BY <1>1, <1>3, <1>5, <1>6, <1>10, <2>1 DEF TypeOK, Cell
<1>13. DeletedOnce'
  <2>1. \A n \in Model : \A i \in DOMAIN facts'[n] :
          facts'[n][i] \in alive' /\ md'[facts'[n][i]] = modelMD'[n]
    BY <1>1, <1>7
  <2>2. \A n, b \in Model : \A i \in DOMAIN facts'[n], j \in DOMAIN facts'[b] :
          facts'[n][i] = facts'[b][j] => n = b /\ i = j
    BY <1>1, <1>7
  <2>3. ASSUME NEW g \in alive
        PROVE  Held(g)' \/ Owned(g)'
    <3>1. Held(g)' <=> Held(g)
      BY <1>1 DEF Held
    <3>2. md[g] \in Domain /\ md[g] # d
      BY <1>3, <1>9 DEF HeapState
    <3>3. heap'[md[g]] = heap[md[g]]
      BY <1>10, <3>2
    <3>4. Owned(g) => Owned(g)'
      BY <1>1, <3>3 DEF Owned, IsAFactorOwner
    <3> QED
      BY <1>7, <3>1, <3>4
  <2>4. alive' = alive
    BY <1>1
  <2> QED
    BY <1>6, <2>1, <2>2, <2>3, <2>4, DeletedOnceAfter
<1>14. DomainOutlivesModels'
  <2>1. \A e \in domains : Models(e)' = Models(e)
    BY <1>1 DEF Models
  <2>2. \A n \in Model : modelMD[n] # d
    BY <1>3 DEF Models
  <2>3. \A e \in domains' : e \in domains /\ refs'[e] = refs[e]
    BY <1>3, <1>5 DEF TypeOK
  <2>4. \A n \in Model : modelMD'[n] # NULL => modelMD'[n] \in domains'
    BY <1>1, <1>5, <2>2 DEF DomainInv, DomainOutlivesModels
  <2>5. \A g \in alive' : md'[g] \in domains'
    BY <1>1, <1>5, <1>9 DEF DomainInv, DomainOutlivesModels
  <2>6. \A e \in domains' : refs'[e] = Cardinality(Models(e)') + (IF self'[e] THEN 1 ELSE 0)
    BY <1>1, <2>1, <2>3 DEF DomainInv, DomainOutlivesModels
  <2> QED
    BY <2>4, <2>5, <2>6 DEF DomainOutlivesModels
<1>15. NoModelNoFactors'
  BY <1>1 DEF DomainInv, NoModelNoFactors
<1> QED
  BY <1>6, <1>11, <1>12, <1>13, <1>14, <1>15 DEF DomainInv

\* Nothing changes.
LEMMA DomainStutterInv ==
  ASSUME DomainInv, UNCHANGED vars
  PROVE  DomainInv'
<1>1. UNCHANGED <<heap, freeNums, domains, refs, self, alive, md, num, modelMD, facts, pc>>
  BY DEF vars, heapVars, domainVars, factorVars, modelVars
<1>2. TypeOK' /\ HeapSound' /\ NoModelNoFactors'
  BY <1>1 DEF DomainInv, TypeOK, HeapSound, NoModelNoFactors
<1>3. /\ \A m \in Model : ToDelete(m)' = ToDelete(m)
      /\ \A g : (Held(g)' <=> Held(g)) /\ (Owned(g)' <=> Owned(g))
      /\ \A d : Models(d)' = Models(d)
  BY <1>1 DEF ToDelete, Held, Owned, IsAFactorOwner, Models
<1>4. DeletedOnce' /\ DomainOutlivesModels'
  BY <1>1, <1>3 DEF DomainInv, DeletedOnce, DomainOutlivesModels, Owned
<1>5. Progress'
  BY <1>1 DEF DomainInv, Progress, Held, Owned, IsAFactorOwner, Models
<1> QED
  BY <1>2, <1>4, <1>5 DEF DomainInv

-----------------------------------------------------------------------------
(* The theorems.                                                              *)

\* Every call of the library keeps the invariant, step by step.
LEMMA DomainStep ==
  ASSUME DomainInv, [Next]_vars
  PROVE  DomainInv'
  BY DomainStutterInv, CreateModelDomainInv, DeleteModelDomainInv, CreateModelAndDomainInv,
     CreateModelInv, CreateFactorInv, SetModelDomainInv, DeleteFactorInv, CopyFactorInv,
     AttachToModelInv, AllocFactorInv, CopyModelInv, DeleteModelInv, FinishAllocInv,
     FinishCopyInv, ChangeOwnerInv, FinishChangeOwnerInv, DeleteNextInv, ReleaseDomainInv,
     DeleteCellInv, FinishDomainInv DEF Next

\* The invariant of model domains, models and factors.
THEOREM DomainInvariance == Spec => []DomainInv
<1>1. Init => DomainInv
  BY DomainInitInv
<1>2. DomainInv /\ [Next]_vars => DomainInv'
  BY DomainStep
<1> QED
  BY <1>1, <1>2, PTL DEF Spec

\* The variables keep their types: counts of references never fall below zero, and
\* the loops of the destructors stay within what they delete.
THEOREM DomainTypeCorrect == Spec => []TypeOK
<1>1. DomainInv => TypeOK
  BY DEF DomainInv
<1> QED
  BY <1>1, DomainInvariance, PTL

\* A heap never holds a pointer to a factor that is gone or lives elsewhere, and
\* never hands out a cell that is in use.
THEOREM HeapsSound == Spec => []HeapSound
<1>1. DomainInv => HeapSound
  BY DEF DomainInv
<1> QED
  BY <1>1, DomainInvariance, PTL

\* Every factor is deleted by exactly one owner, in whatever order domains, models
\* and factors are deleted.
THEOREM FactorsDeletedOnce == Spec => []DeletedOnce
<1>1. DomainInv => DeletedOnce
  BY DEF DomainInv
<1> QED
  BY <1>1, DomainInvariance, PTL

\* No model and no factor outlives its domain.
THEOREM DomainsOutliveModels == Spec => []DomainOutlivesModels
<1>1. DomainInv => DomainOutlivesModels
  BY DEF DomainInv
<1> QED
  BY <1>1, DomainInvariance, PTL
=============================================================================
