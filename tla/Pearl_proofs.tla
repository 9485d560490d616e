------------------------------ MODULE Pearl_proofs ------------------------------
(* Proofs about module Pearl: for every model, every evidence, every number of    *)
(* processes and every division of the nodes between them the rounds of the MPI   *)
(* engine are those of the sequential one, and no message is left behind.         *)
EXTENDS Pearl, TLAPS, SequenceTheorems, FiniteSetTheorems

-----------------------------------------------------------------------------
(* The inductive invariant.                                                   *)

\* The messages after k rounds
R(k) == Round(problem)[k]

\* q has sent its bundle of this round to p; p has taken it
Sent(q, p) == pc[q] \in {"Receive", "Reduce"} \/ (pc[q] = "Send" /\ p \notin toSend[q])
Here(q, p) == Sent(q, p) /\ channel[q][p] = <<>>

Missing(p) == {q \in Partners(p) : ~ Here(q, p)}

\* A store has the messages of D as they are after k rounds.
Agrees(store, D, k) == \A d \in D : store[d] = R(k)[d]

Into(p) == {d \in Dirs : owner[d[2]] = p}
OutOf(p) == {d \in Dirs : owner[d[1]] = p}

\* What a process has, and has still to do, in a round
Step(p) ==
  /\ pc[p] \in {"Compute", "Send", "Receive", "Reduce"}
  /\ pc[p] = "Compute" => Agrees(msgs[p], Into(p), iter[p])
  /\ pc[p] # "Compute" => Agrees(msgs[p], OutOf(p), iter[p] + 1)
  /\ \A q \in Partners(p) : Here(q, p) =>
       pc[p] \in {"Receive", "Reduce"} /\ Agrees(msgs[p], FarMessages(q, p), iter[p] + 1)
  /\ toSend[p] \subseteq (IF pc[p] = "Send" THEN Partners(p) ELSE {})
  /\ pc[p] \in {"Send", "Receive"} => toReceive[p] = Cardinality(Missing(p))
  /\ pc[p] = "Reduce" =>
       /\ Missing(p) = {}
       /\ \A n \in NodesOf(p) \cap Hidden : beliefs[p][n] = ComputeBelief(problem, R(iter[p] + 1), n)

\* At most one bundle is under way from q to p.
Underway(q, p) ==
  channel[q][p] = <<>> \/
  /\ q \in Partners(p) /\ Sent(q, p)
  /\ channel[q][p] = <<[d \in FarMessages(q, p) |-> R(iter[q] + 1)[d]]>>

InRound ==
  /\ \A p \in Process : iter[p] = iter[Main] /\ Step(p)
  /\ iter[Main] < N
  /\ \A p, q \in Process : Underway(q, p)

\* p has the beliefs of the nodes of q as they are after the last round.
Final(p, q) ==
  \A n \in NodesOf(q) \cap Hidden : beliefs[p][n] = ComputeBelief(problem, R(iter[Main]), n)

Share(q) == [n \in NodesOf(q) |-> beliefs[q][n]]

\* The beliefs go to the main process, once each.
Given(q) ==
  /\ pc[q] = "Collect" => pc[Main] = "Collect" /\ channel[q][Main] = <<>> /\ q \notin toSend[Main]
  /\ pc[q] # "Collect" /\ pc[Main] = "Collect" => (channel[q][Main] = <<>> <=> q \in toSend[Main])
  /\ pc[Main] # "Collect" => channel[q][Main] = <<>>
  /\ pc[Main] # "Collect" \/ q \in toSend[Main] => Final(Main, q)
  /\ channel[q][Main] = <<>> \/ channel[q][Main] = <<Share(q)>>

InCollect ==
  /\ \A p \in Process : pc[p] \in {"Collect", "Barrier", "Done"} /\ Final(p, p)
  /\ \A p, q \in Process : pc[p] = "Done" => pc[q] = "Done"
  /\ \A p, q \in Process : p = Main \/ q # Main => channel[p][q] = <<>>
  /\ \A q \in Senders : Given(q)

\* CPearlInfEngine sends nothing; its new messages are those of the rounds done.
InCPearl ==
  /\ \A p \in Process : pc[p] \in {"Compute", "Deliver", "Done"} /\ (p # 0 => pc[p] = "Done")
  /\ pc[0] = "Compute" => iter[0] < N
  /\ pc[0] # "Done" => newMsgs[0] = R(iter[0]) /\ (iter[0] = 0 => msgs[0] = newMsgs[0])
  /\ pc[0] = "Done" => \A n \in Hidden : beliefs[0][n] = ComputeBelief(problem, R(iter[0]), n)
  /\ \A p, q \in Process : channel[p][q] = <<>>

IInv ==
  /\ TypeOK
  /\ engine = "CPearl" => InCPearl
  /\ engine = "ParPearl" => InRound \/ InCollect

-----------------------------------------------------------------------------
(* The model of a problem.                                                    *)

\* Directions join two nodes, and come in pairs.
LEMMA DirectionsFacts ==
  ASSUME NEW p \in Problems
  PROVE  /\ Directions(p.model) \subseteq Node \X Node
         /\ \A d \in Directions(p.model) : <<d[2], d[1]>> \in Directions(p.model)
         /\ \A n \in Node : \A k \in NeighborsOf(p.model, n) : <<k, n>> \in Directions(p.model)
         /\ \A n \in Node : /\ ParentsOf(p.model, n) \subseteq NeighborsOf(p.model, n)
                            /\ NeighborsOf(p.model, n) \subseteq Node
<1> DEFINE L == p.model.links
<1>1. L \subseteq Node \X Node
  BY PearlAssumption DEF PearlAssumption
<1>2. Directions(p.model) = L \cup {<<e[2], e[1]>> : e \in L}
  BY DEF Directions
<1> HIDE DEF L
<1>3. Directions(p.model) \subseteq Node \X Node
  BY <1>1, <1>2
<1>4. ASSUME NEW d \in Directions(p.model) PROVE <<d[2], d[1]>> \in Directions(p.model)
  <2>1. CASE d \in L
    BY <1>2, <2>1
  <2>2. CASE d \notin L
    <3>1. PICK e \in L : d = <<e[2], e[1]>>
      BY <1>2, <2>2
    <3>2. e = <<e[1], e[2]>>
      BY <1>1
    <3> QED
      BY <1>2, <3>1, <3>2
  <2> QED
    BY <2>1, <2>2
<1>5. ASSUME NEW n \in Node, NEW k \in NeighborsOf(p.model, n)
      PROVE  <<k, n>> \in Directions(p.model)
  <2>1. <<n, k>> \in Directions(p.model)
    BY DEF NeighborsOf
  <2> QED
    BY <1>4, <2>1
<1>6. ASSUME NEW n \in Node, NEW k \in ParentsOf(p.model, n) PROVE k \in NeighborsOf(p.model, n)
  <2>1. k \in Node /\ <<k, n>> \in L
    BY DEF ParentsOf, L
  <2>2. <<n, k>> \in Directions(p.model)
    BY <1>2, <1>4, <2>1
  <2> QED
    BY <2>1, <2>2 DEF NeighborsOf
<1> QED
  BY <1>3, <1>4, <1>5, <1>6 DEF NeighborsOf

-----------------------------------------------------------------------------
(* What is computed at a node depends on the messages to it alone.            *)
SameTo(p, in, other, n) == \A k \in NeighborsOf(p.model, n) : in[<<k, n>>] = other[<<k, n>>]

LEMMA FromSame ==
  ASSUME NEW p \in Problems, NEW in, NEW other, NEW n \in Node, NEW S,
         SameTo(p, in, other, n), S \subseteq NeighborsOf(p.model, n)
  PROVE  From(in, S, n) = From(other, S, n)
<1>1. {in[<<k, n>>] : k \in S} = {other[<<k, n>>] : k \in S}
  BY DEF SameTo
<1> QED
  BY <1>1 DEF From

LEMMA ProductsSame ==
  ASSUME NEW p \in Problems, NEW in, NEW other, NEW n \in Node, NEW x, SameTo(p, in, other, n)
  PROVE  /\ ComputeProductPi(p, in, n) = ComputeProductPi(p, other, n)
         /\ ProductLambdaMsgs(p, in, n, x) = ProductLambdaMsgs(p, other, n, x)
         /\ From(in, ParentsOf(p.model, n) \ {x}, n) = From(other, ParentsOf(p.model, n) \ {x}, n)
<1>1. ParentsOf(p.model, n) \subseteq NeighborsOf(p.model, n)
  BY DirectionsFacts
<1>2. From(in, ParentsOf(p.model, n), n) = From(other, ParentsOf(p.model, n), n)
  BY <1>1, FromSame
<1>3. From(in, (NeighborsOf(p.model, n) \ ParentsOf(p.model, n)) \ {x}, n)
        = From(other, (NeighborsOf(p.model, n) \ ParentsOf(p.model, n)) \ {x}, n)
  <2>1. (NeighborsOf(p.model, n) \ ParentsOf(p.model, n)) \ {x} \subseteq NeighborsOf(p.model, n)
    OBVIOUS
  <2> QED
    BY <2>1, FromSame
<1>4. From(in, ParentsOf(p.model, n) \ {x}, n) = From(other, ParentsOf(p.model, n) \ {x}, n)
  <2>1. ParentsOf(p.model, n) \ {x} \subseteq NeighborsOf(p.model, n)
    BY <1>1
  <2> QED
    BY <2>1, FromSame
<1>5. ComputeProductPi(p, in, n) = ComputeProductPi(p, other, n)
  BY <1>2 DEF ComputeProductPi
<1>6. ProductLambdaMsgs(p, in, n, x) = ProductLambdaMsgs(p, other, n, x)
  BY <1>3 DEF ProductLambdaMsgs
<1> QED
  BY <1>4, <1>5, <1>6

LEMMA MessageSame ==
  ASSUME NEW p \in Problems, NEW in, NEW other, NEW n \in Node, NEW x, SameTo(p, in, other, n)
  PROVE  ComputeMessage(p, in, n, x) = ComputeMessage(p, other, n, x)
<1>1. /\ ComputeProductPi(p, in, n) = ComputeProductPi(p, other, n)
      /\ ProductLambdaMsgs(p, in, n, x) = ProductLambdaMsgs(p, other, n, x)
      /\ From(in, ParentsOf(p.model, n) \ {x}, n) = From(other, ParentsOf(p.model, n) \ {x}, n)
  BY ProductsSame
<1> QED
  BY <1>1 DEF ComputeMessage

LEMMA BeliefSame ==
  ASSUME NEW p \in Problems, NEW in, NEW other, NEW n \in Node, SameTo(p, in, other, n)
  PROVE  ComputeBelief(p, in, n) = ComputeBelief(p, other, n)
<1>1. ASSUME NEW x
      PROVE  /\ ComputeProductPi(p, in, n) = ComputeProductPi(p, other, n)
             /\ ProductLambdaMsgs(p, in, n, x) = ProductLambdaMsgs(p, other, n, x)
             /\ From(in, ParentsOf(p.model, n) \ {x}, n) = From(other, ParentsOf(p.model, n) \ {x}, n)
  BY ProductsSame
<1> QED
  BY <1>1 DEF ComputeBelief

(* Types of what is computed.                                                  *)
LEMMA ComputedTypes ==
  ASSUME NEW p \in Problems, NEW in \in [Directions(p.model) -> SUBSET Node], NEW n \in Node, NEW x
  PROVE  /\ ComputeProductPi(p, in, n) \in SUBSET Node
         /\ ProductLambdaMsgs(p, in, n, x) \in SUBSET Node
         /\ ComputeMessage(p, in, n, x) \in SUBSET Node
         /\ ComputeBelief(p, in, n) \in SUBSET Node
<1>1. ASSUME NEW S, S \subseteq NeighborsOf(p.model, n) PROVE From(in, S, n) \in SUBSET Node
  <2>1. \A k \in S : <<k, n>> \in Directions(p.model)
    BY <1>1, DirectionsFacts
  <2> QED
    BY <2>1 DEF From
<1>2. ParentsOf(p.model, n) \subseteq NeighborsOf(p.model, n)
  BY DirectionsFacts
<1>3. Told(p, n) \in SUBSET Node /\ {n} \in SUBSET Node
  BY DEF Told
<1>4. ComputeProductPi(p, in, n) \in SUBSET Node
  BY <1>1, <1>2, <1>3 DEF ComputeProductPi
<1>5. \A y : ProductLambdaMsgs(p, in, n, y) \in SUBSET Node
  <2> SUFFICES ASSUME NEW y PROVE ProductLambdaMsgs(p, in, n, y) \in SUBSET Node
    OBVIOUS
  <2>1. From(in, (NeighborsOf(p.model, n) \ ParentsOf(p.model, n)) \ {y}, n) \in SUBSET Node
    BY <1>1
  <2> QED
    BY <1>3, <2>1 DEF ProductLambdaMsgs
<1>6. From(in, ParentsOf(p.model, n) \ {x}, n) \in SUBSET Node
  BY <1>1, <1>2
<1>7. ComputeMessage(p, in, n, x) \in SUBSET Node
  BY <1>3, <1>4, <1>5, <1>6 DEF ComputeMessage
<1>8. ComputeBelief(p, in, n) \in SUBSET Node
  BY <1>3, <1>4, <1>5 DEF ComputeBelief
<1> QED
  BY <1>4, <1>5, <1>7, <1>8

\* The messages that the nodes of a set send
LEMMA MessagesOfFacts ==
  ASSUME NEW p \in Problems, NEW in \in [Directions(p.model) -> SUBSET Node], NEW S
  PROVE  /\ DOMAIN MessagesOf(p, in, S) = {d \in Directions(p.model) : d[1] \in S}
         /\ \A d \in Directions(p.model) : d[1] \in S =>
              /\ MessagesOf(p, in, S)[d] = ComputeMessage(p, in, d[1], d[2])
              /\ MessagesOf(p, in, S)[d] \in SUBSET Node
         /\ MessagesOf(p, in, Node) \in [Directions(p.model) -> SUBSET Node]
<1> DEFINE D(T) == {d \in Directions(p.model) : d[1] \in T}
<1>1. /\ MessagesOf(p, in, S) = [d \in D(S) |-> ComputeMessage(p, in, d[1], d[2])]
      /\ MessagesOf(p, in, Node) = [d \in D(Node) |-> ComputeMessage(p, in, d[1], d[2])]
  BY DEF MessagesOf
<1>2. \A d \in Directions(p.model) : ComputeMessage(p, in, d[1], d[2]) \in SUBSET Node
  <2>1. \A d \in Directions(p.model) : d[1] \in Node
    BY DirectionsFacts
  <2> QED
    BY <2>1, ComputedTypes
<1>3. D(Node) = Directions(p.model)
  BY DirectionsFacts
<1>4. ASSUME NEW d \in Directions(p.model), d[1] \in S
      PROVE  MessagesOf(p, in, S)[d] = ComputeMessage(p, in, d[1], d[2])
  <2>1. d \in D(S)
    BY <1>4
  <2> HIDE DEF D
  <2> QED
    BY <1>1, <2>1
<1>5. DOMAIN MessagesOf(p, in, S) = D(S)
  <2> HIDE DEF D
  <2> QED
    BY <1>1
<1>6. MessagesOf(p, in, Node) \in [Directions(p.model) -> SUBSET Node]
  BY <1>1, <1>2, <1>3
<1> QED
  BY <1>2, <1>4, <1>5, <1>6

LEMMA OneMessage ==
  ASSUME NEW p \in Problems, NEW in \in [Directions(p.model) -> SUBSET Node], NEW S,
         NEW d \in Directions(p.model), d[1] \in S
  PROVE  /\ d \in DOMAIN MessagesOf(p, in, S)
         /\ MessagesOf(p, in, S)[d] = ComputeMessage(p, in, d[1], d[2])
         /\ MessagesOf(p, in, S)[d] \in SUBSET Node
<1>1. DOMAIN MessagesOf(p, in, S) = {e \in Directions(p.model) : e[1] \in S}
  BY DEF MessagesOf
<1>2. \A e \in Directions(p.model) : e[1] \in S =>
        /\ MessagesOf(p, in, S)[e] = ComputeMessage(p, in, e[1], e[2])
        /\ MessagesOf(p, in, S)[e] \in SUBSET Node
  BY MessagesOfFacts
<1> QED
  BY <1>1, <1>2

-----------------------------------------------------------------------------
(* The messages after k rounds.                                               *)

\* A nonempty set of natural numbers has a least element.
LEMMA LeastNat ==
  ASSUME NEW T \in SUBSET Nat, T # {}
  PROVE  \E n \in T : \A k \in T : n <= k
<1> DEFINE Less == {p \in Nat \X Nat : p[1] < p[2]}
<1>1. OpToRel(<, Nat) = Less
  BY Zenon DEF OpToRel
<1>2. IsWellFoundedOn(Less, Nat)
  BY <1>1, NatLessThanWellFounded, Zenon
<1>3. \E n \in T : \A k \in T : ~ (<<k, n>> \in Less)
  <2> HIDE DEF Less
  <2> QED
    BY <1>2, WFMin, Zenon
<1>4. PICK n \in T : \A k \in T : ~ (<<k, n>> \in Less)
  BY <1>3
<1>5. ASSUME NEW k \in T PROVE n <= k
  <2>1. <<k, n>> \in Nat \X Nat
    OBVIOUS
  <2>2. ~ (k < n)
    BY <1>4, <2>1
  <2> QED
    BY <2>1, <2>2
<1> QED
  BY <1>5

\* f has the messages of the first k rounds.
HasRounds(p, f, k) ==
  /\ f \in [0 .. k -> [Directions(p.model) -> SUBSET Node]]
  /\ f[0] = Uniform(p.model)
  /\ \A n \in 1 .. k : f[n] = MessagesOf(p, f[n - 1], Node)

LEMMA NumberOfNodes == N \in Nat /\ N >= 2 /\ N > 0
  BY PearlMessagesAssumption DEF PearlMessagesAssumption

LEMMA RoundsExist ==
  ASSUME NEW p \in Problems
  PROVE  \E f : HasRounds(p, f, N)
<1> DEFINE S == [Directions(p.model) -> SUBSET Node]
           F == {k \in 0 .. N : ~ \E f : HasRounds(p, f, k)}
<1>0. N \in Nat /\ N \in 0 .. N
  BY NumberOfNodes
<1> SUFFICES ASSUME F # {} PROVE FALSE
  BY <1>0
<1>1. F \in SUBSET Nat
  BY <1>0
<1>2. PICK k \in F : \A e \in F : k <= e
  <2> HIDE DEF F
  <2> QED
    BY <1>1, LeastNat
<1>3. \E f : HasRounds(p, f, 0)
  <2> DEFINE f == [n \in 0 .. 0 |-> Uniform(p.model)]
  <2>1. Uniform(p.model) \in S
    BY DEF Uniform
  <2>2. f \in [0 .. 0 -> S] /\ f[0] = Uniform(p.model)
    BY <2>1
  <2>3. \A n \in 1 .. 0 : f[n] = MessagesOf(p, f[n - 1], Node)
    OBVIOUS
  <2> HIDE DEF f
  <2> QED
    BY <2>2, <2>3 DEF HasRounds
<1>4. k \in 0 .. N /\ k # 0
  BY <1>3
<1>5. k - 1 \in 0 .. N /\ k - 1 \notin F /\ k \in Nat /\ k - 1 \in Nat
  BY <1>0, <1>2, <1>4
<1>6. PICK f : HasRounds(p, f, k - 1)
  BY <1>5
<1> DEFINE g == [n \in 0 .. k |-> IF n = k THEN MessagesOf(p, f[k - 1], Node) ELSE f[n]]
<1>7. f \in [0 .. k - 1 -> S] /\ f[k - 1] \in S
  BY <1>5, <1>6 DEF HasRounds
<1>8. MessagesOf(p, f[k - 1], Node) \in S
  BY <1>7, MessagesOfFacts
<1>9. g \in [0 .. k -> S]
  BY <1>5, <1>7, <1>8
<1>10. g[0] = Uniform(p.model)
  BY <1>4, <1>5, <1>6 DEF HasRounds
<1>11. ASSUME NEW n \in 1 .. k PROVE g[n] = MessagesOf(p, g[n - 1], Node)
  <2>1. CASE n = k
    <3>1. g[n] = MessagesOf(p, f[k - 1], Node)
      BY <1>5, <2>1
    <3>2. g[n - 1] = f[k - 1]
      BY <1>5, <2>1
    <3> QED
      BY <3>1, <3>2
  <2>2. CASE n # k
    <3>1. n \in 1 .. k - 1 /\ g[n] = f[n] /\ g[n - 1] = f[n - 1]
      BY <1>5, <2>2
    <3> QED
      BY <1>6, <3>1 DEF HasRounds
  <2> QED
    BY <2>1, <2>2
<1>12. HasRounds(p, g, k)
  <2> HIDE DEF g
  <2> QED
    BY <1>9, <1>10, <1>11 DEF HasRounds
<1> QED
  BY <1>12

LEMMA RoundFacts ==
  ASSUME NEW p \in Problems
  PROVE  /\ Round(p) \in [0 .. N -> [Directions(p.model) -> SUBSET Node]]
         /\ Round(p)[0] = Uniform(p.model)
         /\ \A k \in 1 .. N : Round(p)[k] = MessagesOf(p, Round(p)[k - 1], Node)
<1> DEFINE S == [Directions(p.model) -> SUBSET Node]
           F(f, k) == IF k = 0 THEN Uniform(p.model) ELSE MessagesOf(p, f[k - 1], Node)
           IsRound(f) == f = [k \in 0 .. N |-> F(f, k)]
           r == CHOOSE f : IsRound(f)
<1>1. Round(p) = r
  BY DEF Round
<1>2. \E f : IsRound(f)
  <2>1. PICK f : HasRounds(p, f, N)
    BY RoundsExist
  <2>2. \A k \in 0 .. N : f[k] = F(f, k)
    BY <2>1, NumberOfNodes DEF HasRounds
  <2>3. f \in [0 .. N -> S]
    BY <2>1 DEF HasRounds
  <2>4. IsRound(f)
    <3> HIDE DEF F, S
    <3> QED
      BY <2>2, <2>3
  <2> HIDE DEF IsRound
  <2> QED
    BY <2>4
<1>3. IsRound(r)
  <2> HIDE DEF IsRound
  <2> QED
    BY <1>2
<1>4. \A k \in 0 .. N : r[k] = F(r, k)
  <2> HIDE DEF r, F
  <2> QED
    BY <1>3
<1>5. r = [k \in 0 .. N |-> r[k]]
  <2>1. r = [k \in 0 .. N |-> F(r, k)]
    BY <1>3
  <2> HIDE DEF r, F
  <2> QED
    BY <1>4, <2>1
<1> HIDE DEF r, IsRound
<1> DEFINE B == {k \in 0 .. N : r[k] \notin S}
<1>6. B = {}
  <2> SUFFICES ASSUME B # {} PROVE FALSE
    OBVIOUS
  <2>1. B \in SUBSET Nat
    BY NumberOfNodes
  <2>2. PICK k \in B : \A e \in B : k <= e
    <3> HIDE DEF B
    <3> QED
      BY <2>1, LeastNat
  <2>3. Uniform(p.model) \in S
    BY DEF Uniform
  <2>4. k # 0
    BY <1>4, <2>2, <2>3
  <2>5. k - 1 \in 0 .. N /\ k - 1 \notin B
    BY <2>1, <2>2, <2>4, NumberOfNodes
  <2>6. MessagesOf(p, r[k - 1], Node) \in S
    BY <2>5, MessagesOfFacts
  <2> QED
    BY <1>4, <2>2, <2>4, <2>6
<1>7. r \in [0 .. N -> S]
  <2> HIDE DEF S
  <2> QED
    BY <1>5, <1>6
<1>8. r[0] = Uniform(p.model) /\ \A k \in 1 .. N : r[k] = MessagesOf(p, r[k - 1], Node)
  BY <1>4, NumberOfNodes
<1> QED
  BY <1>1, <1>7, <1>8

-----------------------------------------------------------------------------
(* Processes and their partners.                                              *)

LEMMA Processes ==
  /\ IsFiniteSet(Process) /\ Process \in SUBSET Nat /\ Main \in Process /\ 0 \in Process
<1>1. NP \in Nat \ {0}
  BY PearlAssumption DEF PearlAssumption
<1>2. IsFiniteSet(0 .. NP - 1)
  BY <1>1, FS_Interval
<1> QED
  BY <1>1, <1>2 DEF Process, Main

\* Partners send to each other; what is sent into a process comes from itself or from
\* a partner.
LEMMA PartnersFacts ==
  ASSUME TypeOK, NEW p \in Process
  PROVE  /\ Partners(p) \subseteq Process \ {p} /\ IsFiniteSet(Partners(p))
         /\ \A q \in Partners(p) : p \in Partners(q)
         /\ \A q : FarMessages(p, q) \subseteq OutOf(p)
         /\ \A d \in Into(p) : d \in OutOf(p) \/ \E q \in Partners(p) : d \in FarMessages(q, p)
<1>0. problem \in Problems /\ owner \in [Node -> Process]
  BY DEF TypeOK
<1>1. Partners(p) \subseteq Process \ {p} /\ IsFiniteSet(Partners(p))
  BY Processes, FS_Subset DEF Partners
<1>2. \A d \in Dirs : d[1] \in Node /\ d[2] \in Node /\ <<d[2], d[1]>> \in Dirs
  BY <1>0, DirectionsFacts DEF Dirs
<1>3. ASSUME NEW q \in Process, NEW r \in Process, NEW d \in FarMessages(q, r)
      PROVE  FarMessages(r, q) # {}
  <2> DEFINE e == <<d[2], d[1]>>
  <2>1. e[1] = d[2] /\ e[2] = d[1]
    OBVIOUS
  <2>2. d \in Dirs /\ owner[d[1]] = q /\ owner[d[2]] = r
    BY DEF FarMessages
  <2>3. e \in Dirs
    BY <1>2, <2>2
  <2> HIDE DEF e
  <2>4. e \in FarMessages(r, q)
    BY <2>1, <2>2, <2>3 DEF FarMessages
  <2> QED
    BY <2>4
<1>4. ASSUME NEW q \in Partners(p) PROVE p \in Partners(q)
  BY <1>3 DEF Partners
<1>5. \A q : FarMessages(p, q) \subseteq OutOf(p)
  BY DEF FarMessages, OutOf
<1>6. ASSUME NEW d \in Into(p), d \notin OutOf(p)
      PROVE  \E q \in Partners(p) : d \in FarMessages(q, p)
  <2> DEFINE q == owner[d[1]]
  <2>1. d \in Dirs /\ q \in Process \ {p} /\ owner[d[2]] = p
    BY <1>0, <1>2, <1>6 DEF Into, OutOf
  <2>2. d \in FarMessages(q, p)
    BY <2>1 DEF FarMessages
  <2> QED
    BY <1>3, <2>1, <2>2 DEF Partners
<1> QED
  BY <1>1, <1>4, <1>5, <1>6

\* The problem and the division stay what they are during a call.
LEMMA Fixed ==
  ASSUME problem' = problem, owner' = owner
  PROVE  /\ Dirs' = Dirs /\ Hidden' = Hidden /\ \A k : R(k)' = R(k)
         /\ \A p : /\ Partners(p)' = Partners(p) /\ NodesOf(p)' = NodesOf(p)
                   /\ Into(p)' = Into(p) /\ OutOf(p)' = OutOf(p)
                   /\ \A q : FarMessages(q, p)' = FarMessages(q, p)
<1>1. Dirs' = Dirs /\ Hidden' = Hidden /\ \A k : R(k)' = R(k)
  BY DEF Dirs, Hidden, R
<1>2. \A p : /\ NodesOf(p)' = NodesOf(p) /\ Into(p)' = Into(p) /\ OutOf(p)' = OutOf(p)
             /\ \A q : FarMessages(q, p)' = FarMessages(q, p)
  BY <1>1 DEF NodesOf, Into, OutOf, FarMessages
<1>3. \A p, q : FarMessages(p, q)' = FarMessages(p, q)
  BY <1>2
<1>4. \A p : Partners(p)' = Partners(p)
  BY <1>3 DEF Partners
<1> QED
  BY <1>1, <1>2, <1>4

\* A process that does nothing in a round, and from whose partners nothing arrives
LEMMA StepSame ==
  ASSUME NEW p \in Process, Step(p), problem' = problem, owner' = owner, iter' = iter,
         pc'[p] = pc[p], msgs'[p] = msgs[p], beliefs'[p] = beliefs[p],
         toSend'[p] = toSend[p], toReceive'[p] = toReceive[p],
         \A q \in Partners(p) : Here(q, p)' <=> Here(q, p)
  PROVE  Step(p)'
<1>1. Missing(p)' = Missing(p)
  BY Fixed DEF Missing
<1>2. \A store, D, k : Agrees(store, D, k)' <=> Agrees(store, D, k)
  BY Fixed DEF Agrees
<1>3. \A q \in Partners(p)' : Here(q, p)' =>
       pc'[p] \in {"Receive", "Reduce"} /\ Agrees(msgs[p], FarMessages(q, p), iter[p] + 1)
  BY Fixed DEF Step
<1>4. pc'[p] = "Reduce" =>
        \A n \in NodesOf(p)' \cap Hidden' :
          beliefs'[p][n] = ComputeBelief(problem', R(iter[p] + 1)', n)
  BY Fixed DEF Step
<1> QED
  BY <1>1, <1>2, <1>3, <1>4, Fixed DEF Step, Agrees

LEMMA UnderwaySame ==
  ASSUME NEW p \in Process, NEW q \in Process, Underway(q, p), problem' = problem, owner' = owner,
         iter' = iter, channel'[q][p] = channel[q][p],
         channel[q][p] # <<>> /\ Sent(q, p) => Sent(q, p)'
  PROVE  Underway(q, p)'
  BY Fixed DEF Underway

\* What a step of one process in a round has to keep
LEMMA InRoundStep ==
  ASSUME InRound, NEW a \in Process, UNCHANGED <<problem, owner, iter>>,
         \A p \in Process \ {a} :
           /\ pc'[p] = pc[p] /\ msgs'[p] = msgs[p] /\ beliefs'[p] = beliefs[p]
           /\ toSend'[p] = toSend[p] /\ toReceive'[p] = toReceive[p]
           /\ \A q \in Partners(p) : Here(q, p)' <=> Here(q, p),
         Step(a)', \A p, q \in Process : Underway(q, p)'
  PROVE  InRound'
<1>1. \A p \in Process : Step(p)'
  <2> SUFFICES ASSUME NEW p \in Process, p # a PROVE Step(p)'
    OBVIOUS
  <2>1. Step(p)
    BY DEF InRound
  <2> QED
    BY <2>1, StepSame
<1> QED
  BY <1>1 DEF InRound

\* A channel for every two processes; one cell of them is written.
Cells(c) == c = [p \in Process |-> [q \in Process |-> c[p][q]]]
Put(c, a, b, x) == [c EXCEPT ![a][b] = x]

LEMMA ChannelStep ==
  ASSUME NEW c, NEW a \in Process, NEW b \in Process, NEW x, Cells(c)
  PROVE  /\ Cells(Put(c, a, b, x)) /\ Put(c, a, b, x)[a][b] = x
         /\ \A p, q \in Process : p # a \/ q # b => Put(c, a, b, x)[p][q] = c[p][q]
<1> DEFINE d == Put(c, a, b, x)
<1>1. DOMAIN c = Process /\ \A p \in Process : DOMAIN c[p] = Process
  BY DEF Cells
<1>2. \A p \in Process : c[p] = [q \in Process |-> c[p][q]]
  BY DEF Cells
<1>3. d = [p \in Process |-> IF p = a THEN [c[a] EXCEPT ![b] = x] ELSE c[p]]
  BY <1>1 DEF Put
<1> HIDE DEF d
<1>4. d[a] = [q \in Process |-> IF q = b THEN x ELSE c[a][q]]
  BY <1>1, <1>3
<1>5. \A p \in Process \ {a} : d[p] = c[p]
  BY <1>3
<1>6. \A p \in Process : d[p] = [q \in Process |-> d[p][q]]
  BY <1>2, <1>4, <1>5
<1>7. d = [p \in Process |-> d[p]]
  BY <1>3
<1>8. Cells(d)
  BY <1>6, <1>7 DEF Cells
<1>9. d[a][b] = x /\ \A p, q \in Process : p # a \/ q # b => d[p][q] = c[p][q]
  BY <1>4, <1>5
<1> QED
  BY <1>8, <1>9 DEF d

-----------------------------------------------------------------------------
(* The steps of a round.                                                      *)

\* Which part of the invariant a stage belongs to
LEMMA InWhich ==
  ASSUME IInv, engine = "ParPearl", NEW p \in Process
  PROVE  /\ pc[p] \in {"Compute", "Send", "Receive", "Reduce"} => InRound
         /\ pc[p] \in {"Collect", "Barrier", "Done"} => InCollect
         /\ pc[p] # "Deliver"
  BY DEF IInv, InRound, Step, InCollect

\* Only the MPI engine has these stages.
LEMMA ParStages ==
  ASSUME IInv, NEW p \in Process, pc[p] \in {"Send", "Receive", "Reduce", "Collect", "Barrier"}
  PROVE  engine = "ParPearl"
  BY DEF IInv, TypeOK, InCPearl

\* From the messages of k rounds the nodes of a process compute those of the next one.
LEMMA NextMessages ==
  ASSUME TypeOK, NEW a \in Process, NEW store \in Store, NEW k \in 0 .. N - 1,
         Agrees(store, Into(a), k), NEW d \in OutOf(a)
  PROVE  ComputeMessage(problem, store, d[1], d[2]) = R(k + 1)[d]
<1>1. problem \in Problems /\ Dirs = Directions(problem.model) /\ owner \in [Node -> Process]
  BY DEF TypeOK, Dirs
<1>2. d \in Dirs /\ d[1] \in Node /\ owner[d[1]] = a
  BY <1>1, DirectionsFacts DEF OutOf
<1>3. k \in 0 .. N /\ k + 1 \in 1 .. N /\ (k + 1) - 1 = k
  BY NumberOfNodes
<1>4. R(k) \in [Dirs -> SUBSET Node] /\ R(k + 1) = MessagesOf(problem, R(k), Node)
  BY <1>1, <1>3, RoundFacts DEF R
<1>5. R(k + 1)[d] = ComputeMessage(problem, R(k), d[1], d[2])
  <2>1. R(k) \in [Directions(problem.model) -> SUBSET Node] /\ d \in Directions(problem.model)
    BY <1>1, <1>2, <1>4
  <2>2. MessagesOf(problem, R(k), Node)[d] = ComputeMessage(problem, R(k), d[1], d[2])
    BY <1>1, <1>2, <2>1, OneMessage
  <2> QED
    BY <1>4, <2>2
<1>6. SameTo(problem, store, R(k), d[1])
  <2> SUFFICES ASSUME NEW n \in NeighborsOf(problem.model, d[1])
               PROVE  store[<<n, d[1]>>] = R(k)[<<n, d[1]>>]
    BY DEF SameTo
  <2> DEFINE e == <<n, d[1]>>
  <2>1. e \in Dirs /\ e[2] = d[1]
    BY <1>1, <1>2, DirectionsFacts
  <2> HIDE DEF e
  <2>2. e \in Into(a)
    BY <1>2, <2>1 DEF Into
  <2>3. store[e] = R(k)[e]
    BY <2>2 DEF Agrees
  <2> QED
    BY <2>3 DEF e
<1>7. ComputeMessage(problem, store, d[1], d[2]) = ComputeMessage(problem, R(k), d[1], d[2])
  BY <1>1, <1>2, <1>6, MessageSame
<1> QED
  BY <1>5, <1>7

\* The beliefs of the nodes of a process
LEMMA NextBelief ==
  ASSUME TypeOK, NEW a \in Process, NEW store \in Store, NEW k,
         Agrees(store, Into(a), k), NEW n \in NodesOf(a)
  PROVE  ComputeBelief(problem, store, n) = ComputeBelief(problem, R(k), n)
<1>1. problem \in Problems /\ Dirs = Directions(problem.model) /\ n \in Node /\ owner[n] = a
  BY DEF TypeOK, Dirs, NodesOf
<1>2. SameTo(problem, store, R(k), n)
  <2> SUFFICES ASSUME NEW m \in NeighborsOf(problem.model, n)
               PROVE  store[<<m, n>>] = R(k)[<<m, n>>]
    BY DEF SameTo
  <2> DEFINE e == <<m, n>>
  <2>1. e \in Dirs /\ e[2] = n
    BY <1>1, DirectionsFacts
  <2> HIDE DEF e
  <2>2. e \in Into(a)
    BY <1>1, <2>1 DEF Into
  <2>3. store[e] = R(k)[e]
    BY <2>2 DEF Agrees
  <2> QED
    BY <2>3 DEF e
<1> QED
  BY <1>1, <1>2, BeliefSame

\* A process that has taken all bundles has all messages of the round.
LEMMA Arrived ==
  ASSUME TypeOK, NEW a \in Process, Step(a), pc[a] # "Compute", Missing(a) = {}
  PROVE  Agrees(msgs[a], Into(a), iter[a] + 1)
<1> SUFFICES ASSUME NEW d \in Into(a) PROVE msgs[a][d] = R(iter[a] + 1)[d]
  BY DEF Agrees
<1>1. CASE d \in OutOf(a)
  BY <1>1 DEF Step, Agrees
<1>2. CASE d \notin OutOf(a)
  <2>1. PICK q \in Partners(a) : d \in FarMessages(q, a)
    BY <1>2, PartnersFacts
  <2>2. Here(q, a)
    BY DEF Missing
  <2> QED
    BY <2>1, <2>2 DEF Step, Agrees
<1> QED
  BY <1>1, <1>2

LEMMA ComputeMessagesStep ==
  ASSUME IInv, NEW a \in Process, ComputeMessages(a)
  PROVE  InRound'
<1>1. /\ engine = "ParPearl" /\ pc[a] = "Compute" /\ UNCHANGED <<problem, owner, iter, beliefs, channel>>
      /\ pc' = [pc EXCEPT ![a] = "Send"] /\ toSend' = [toSend EXCEPT ![a] = Partners(a)]
      /\ toReceive' = [toReceive EXCEPT ![a] = Cardinality(Partners(a))]
      /\ msgs' = [msgs EXCEPT ![a] = Overwrite(newMsgs[a], MessagesOf(problem, msgs[a], NodesOf(a)))]
  BY DEF ComputeMessages
<1>2. TypeOK /\ InRound
  BY <1>1, InWhich DEF IInv
<1>3. /\ pc \in [Process -> Stage] /\ toSend \in [Process -> SUBSET Process]
      /\ toReceive \in [Process -> Nat] /\ msgs \in [Process -> Store] /\ newMsgs \in [Process -> Store]
      /\ problem \in Problems
  BY <1>2 DEF TypeOK
<1>4. Step(a) /\ iter[a] \in 0 .. N - 1
  BY <1>2, NumberOfNodes DEF InRound, TypeOK
<1>5. \A p \in Process \ {a} : /\ pc'[p] = pc[p] /\ msgs'[p] = msgs[p]
                               /\ toSend'[p] = toSend[p] /\ toReceive'[p] = toReceive[p]
  BY <1>1, <1>3
<1>6. /\ pc'[a] = "Send" /\ toSend'[a] = Partners(a) /\ toReceive'[a] = Cardinality(Partners(a))
  BY <1>1, <1>3
<1>7. \A p \in Partners(a) : ~ Sent(a, p) /\ ~ Sent(a, p)'
  BY <1>1, <1>6 DEF Sent
<1>8. ASSUME NEW p \in Process, NEW q \in Partners(p) PROVE Here(q, p)' <=> Here(q, p)
  <2>1. CASE q = a
    BY <1>2, <1>7, <2>1, PartnersFacts DEF Here
  <2>2. CASE q # a
    <3>1. q \in Process
      BY <1>2, PartnersFacts
    <3> QED
      BY <1>1, <1>5, <2>2, <3>1 DEF Here, Sent
  <2> QED
    BY <2>1, <2>2
<1>9. \A q \in Partners(a) : ~ Here(q, a)'
  BY <1>1, <1>4, <1>8 DEF Step
<1>10. \A d \in OutOf(a) : msgs'[a][d] = R(iter[a] + 1)[d]
  <2> SUFFICES ASSUME NEW d \in OutOf(a) PROVE msgs'[a][d] = R(iter[a] + 1)[d]
    OBVIOUS
  <2>1. msgs[a] \in Store /\ Agrees(msgs[a], Into(a), iter[a])
    BY <1>1, <1>3, <1>4 DEF Step
  <2>2. ComputeMessage(problem, msgs[a], d[1], d[2]) = R(iter[a] + 1)[d]
    BY <1>2, <1>4, <2>1, NextMessages
  <2>3. d \in Dirs /\ d[1] \in NodesOf(a) /\ Dirs = Directions(problem.model)
    BY <1>3, DirectionsFacts DEF OutOf, NodesOf, Dirs
  <2>4. /\ MessagesOf(problem, msgs[a], NodesOf(a))[d] = ComputeMessage(problem, msgs[a], d[1], d[2])
        /\ d \in DOMAIN MessagesOf(problem, msgs[a], NodesOf(a))
    <3>1. msgs[a] \in [Directions(problem.model) -> SUBSET Node] /\ d \in Directions(problem.model)
      BY <2>1, <2>3 DEF Store
    <3> QED
      BY <1>3, <2>3, <3>1, OneMessage
  <2>5. d \in DOMAIN newMsgs[a]
    BY <1>3, <2>3 DEF Store
  <2>6. msgs'[a] = Overwrite(newMsgs[a], MessagesOf(problem, msgs[a], NodesOf(a)))
    BY <1>1, <1>3
  <2> QED
    BY <2>2, <2>4, <2>5, <2>6 DEF Overwrite
<1>11. Step(a)'
  <2>1. Missing(a)' = Partners(a)
    BY <1>1, <1>9, Fixed DEF Missing
  <2> QED
    BY <1>1, <1>6, <1>9, <1>10, <2>1, Fixed DEF Step, Agrees
<1>12. ASSUME NEW p \in Process, NEW q \in Process PROVE Underway(q, p)'
  <2>1. Underway(q, p)
    BY <1>2 DEF InRound
  <2>2. Sent(q, p) => Sent(q, p)'
    BY <1>1, <1>5 DEF Sent
  <2> QED
    BY <1>1, <2>1, <2>2, UnderwaySame
<1> QED
  BY <1>1, <1>2, <1>5, <1>8, <1>11, <1>12, InRoundStep

LEMMA SendMessagesStep ==
  ASSUME IInv, NEW a \in Process, SendMessages(a)
  PROVE  InRound'
<1>1. /\ pc[a] = "Send"
      /\ UNCHANGED <<problem, engine, owner, msgs, beliefs, iter, toReceive>>
  BY DEF SendMessages
<1>2. engine = "ParPearl" /\ TypeOK /\ InRound
  BY <1>1, InWhich, ParStages DEF IInv
<1>3. /\ pc \in [Process -> Stage] /\ toSend \in [Process -> SUBSET Process]
  BY <1>2 DEF TypeOK
<1>4. Step(a) /\ toSend[a] \subseteq Partners(a) /\ \A q \in Partners(a) : ~ Here(q, a)
  BY <1>1, <1>2 DEF InRound, Step
<1>5. CASE toSend[a] = {}
  <2>1. /\ pc' = [pc EXCEPT ![a] = "Receive"] /\ UNCHANGED <<toSend, channel>>
    BY <1>5 DEF SendMessages
  <2>2. pc'[a] = "Receive" /\ \A p \in Process \ {a} : pc'[p] = pc[p]
    BY <1>3, <2>1
  <2>3. \A q, p \in Process : Sent(q, p)' <=> Sent(q, p)
    BY <1>1, <1>5, <2>1, <2>2 DEF Sent
  <2>4. \A q, p \in Process : Here(q, p)' <=> Here(q, p)
    BY <2>1, <2>3 DEF Here
  <2>5. \A p \in Process : Partners(p) \subseteq Process
    BY <1>2, PartnersFacts
  <2>6. Step(a)'
    <3>1. Missing(a)' = Missing(a)
      BY <1>1, <2>4, <2>5, Fixed DEF Missing
    <3>2. \A q \in Partners(a) : ~ Here(q, a)'
      BY <1>4, <2>4, <2>5
    <3>3. /\ Agrees(msgs[a], OutOf(a), iter[a] + 1) /\ toReceive[a] = Cardinality(Missing(a))
      BY <1>1, <1>4 DEF Step
    <3> QED
      BY <1>1, <1>5, <2>1, <2>2, <3>1, <3>2, <3>3, Fixed DEF Step, Agrees
  <2>7. \A p, q \in Process : Underway(q, p)'
    <3> SUFFICES ASSUME NEW p \in Process, NEW q \in Process PROVE Underway(q, p)'
      OBVIOUS
    <3>1. Underway(q, p)
      BY <1>2 DEF InRound
    <3> QED
      BY <1>1, <2>1, <2>3, <3>1, UnderwaySame
  <2> QED
    BY <1>1, <1>2, <2>1, <2>2, <2>4, <2>5, <2>6, <2>7, InRoundStep
<1>6. CASE toSend[a] # {}
  <2>0. Min(toSend[a]) \in toSend[a]
    <3>1. toSend[a] \in SUBSET Nat
      BY <1>3, Processes
    <3>2. \E n \in toSend[a] : \A k \in toSend[a] : n <= k
      BY <1>6, <3>1, LeastNat
    <3> QED
      BY <3>2 DEF Min
  <2>1. PICK b \in toSend[a] :
          /\ channel' = [channel EXCEPT ![a][b] = Append(channel[a][b], Bundle(a, b))]
          /\ toSend' = [toSend EXCEPT ![a] = toSend[a] \ {b}] /\ pc' = pc
    BY <1>6, <2>0 DEF SendMessages
  <2>2. b \in toSend[a]
    OBVIOUS
  <2>3. b \in Partners(a) /\ b \in Process /\ a \in Partners(b) /\ b # a
    BY <1>2, <1>4, <2>2, PartnersFacts
  <2>4. /\ toSend'[a] = toSend[a] \ {b} /\ \A p \in Process \ {a} : toSend'[p] = toSend[p]
    BY <1>3, <2>1
  <2>5. ~ Sent(a, b) /\ Sent(a, b)'
    BY <1>1, <2>1, <2>2, <2>4 DEF Sent
  <2>6. \A p, q \in Process : p # a \/ q # b => (Sent(p, q)' <=> Sent(p, q))
    BY <2>1, <2>4 DEF Sent
  <2>7. channel[a][b] = <<>>
    BY <1>2, <2>3, <2>5 DEF InRound, Underway
  <2>8. /\ channel'[a][b] = <<Bundle(a, b)>>
        /\ \A p, q \in Process : p # a \/ q # b => channel'[p][q] = channel[p][q]
    <3>1. channel' = Put(channel, a, b, <<Bundle(a, b)>>)
      BY <2>1, <2>7 DEF Put
    <3>2. Cells(channel)
      BY <1>2 DEF TypeOK, Cells
    <3> QED
      BY <2>3, <3>1, <3>2, ChannelStep
  <2>9. \A p, q \in Process : Here(p, q)' <=> Here(p, q)
    <3>1. ~ Here(a, b) /\ ~ Here(a, b)'
      BY <2>5, <2>8 DEF Here
    <3>2. \A p, q \in Process : p # a \/ q # b => (Here(p, q)' <=> Here(p, q))
      BY <2>6, <2>8 DEF Here
    <3> QED
      BY <3>1, <3>2
  <2>10. \A p \in Process : Partners(p) \subseteq Process
    BY <1>2, PartnersFacts
  <2>11. Agrees(msgs[a], OutOf(a), iter[a] + 1) /\ toReceive[a] = Cardinality(Missing(a))
    BY <1>1, <1>4 DEF Step
  <2>12. Step(a)'
    <3>1. Missing(a)' = Missing(a)
      BY <1>1, <2>9, <2>10, Fixed DEF Missing
    <3>2. \A q \in Partners(a) : ~ Here(q, a)'
      BY <1>4, <2>9, <2>10
    <3> QED
      BY <1>1, <1>4, <2>1, <2>4, <2>11, <3>1, <3>2, Fixed DEF Step, Agrees
  <2>13. \A p, q \in Process : Underway(q, p)'
    <3> SUFFICES ASSUME NEW p \in Process, NEW q \in Process PROVE Underway(q, p)'
      OBVIOUS
    <3>1. Underway(q, p)
      BY <1>2 DEF InRound
    <3>2. CASE q # a \/ p # b
      BY <1>1, <2>6, <2>8, <3>1, <3>2, UnderwaySame
    <3>3. CASE q = a /\ p = b
      <4>1. FarMessages(a, b) \subseteq OutOf(a)
        BY <1>2, PartnersFacts
      <4>2. Bundle(a, b) = [d \in FarMessages(a, b) |-> R(iter[a] + 1)[d]]
        BY <2>11, <4>1 DEF Bundle, Agrees
      <4> QED
        BY <1>1, <2>3, <2>5, <2>8, <3>3, <4>2, Fixed DEF Underway
    <3> QED
      BY <3>2, <3>3
  <2> QED
    BY <1>1, <1>2, <2>1, <2>4, <2>9, <2>10, <2>12, <2>13, InRoundStep
<1> QED
  BY <1>5, <1>6

LEMMA ReceiveMessagesStep ==
  ASSUME IInv, NEW a \in Process, ReceiveMessages(a)
  PROVE  InRound'
<1>1. /\ pc[a] = "Receive" /\ toReceive[a] > 0
      /\ UNCHANGED <<problem, engine, owner, pc, beliefs, iter, toSend>>
      /\ toReceive' = [toReceive EXCEPT ![a] = toReceive[a] - 1]
  BY DEF ReceiveMessages
<1>2. engine = "ParPearl" /\ TypeOK /\ InRound
  BY <1>1, InWhich, ParStages DEF IInv
<1>3. /\ toReceive \in [Process -> Nat] /\ msgs \in [Process -> Store]
  BY <1>2 DEF TypeOK
<1>4. Step(a) /\ Cells(channel)
  BY <1>2 DEF InRound, TypeOK, Cells
<1>5. PICK b \in Process :
        /\ channel[b][a] # <<>>
        /\ msgs' = [msgs EXCEPT ![a] = Overwrite(msgs[a], Head(channel[b][a]))]
        /\ channel' = [channel EXCEPT ![b][a] = Tail(channel[b][a])]
  BY DEF ReceiveMessages
<1>6. PICK new : new = [d \in FarMessages(b, a) |-> R(iter[a] + 1)[d]]
  OBVIOUS
<1>7. b \in Partners(a) /\ Sent(b, a) /\ channel[b][a] = <<new>> /\ b # a
  <2>1. Underway(b, a) /\ iter[b] = iter[a]
    BY <1>2 DEF InRound
  <2> QED
    BY <1>2, <1>5, <1>6, <2>1, PartnersFacts DEF Underway
<1>8. /\ channel'[b][a] = <<>>
      /\ \A p, q \in Process : p # b \/ q # a => channel'[p][q] = channel[p][q]
  <2>1. channel' = Put(channel, b, a, <<>>)
    BY <1>5, <1>7 DEF Put
  <2> QED
    BY <1>4, <2>1, ChannelStep
<1>9. msgs'[a] = Overwrite(msgs[a], new)
  BY <1>3, <1>5, <1>7
<1>10. /\ \A p \in Process \ {a} : msgs'[p] = msgs[p] /\ toReceive'[p] = toReceive[p]
       /\ toReceive'[a] = toReceive[a] - 1
  BY <1>1, <1>3, <1>5
<1>11. \A p, q \in Process : Sent(p, q)' <=> Sent(p, q)
  BY <1>1 DEF Sent
<1>12. /\ ~ Here(b, a) /\ Here(b, a)'
       /\ \A p, q \in Process : p # b \/ q # a => (Here(p, q)' <=> Here(p, q))
  BY <1>5, <1>7, <1>8, <1>11 DEF Here
<1>13. \A p \in Process : Partners(p) \subseteq Process /\ IsFiniteSet(Partners(p))
  BY <1>2, PartnersFacts
<1>14. Agrees(msgs'[a], OutOf(a), iter[a] + 1)
  <2> SUFFICES ASSUME NEW d \in OutOf(a) PROVE msgs'[a][d] = R(iter[a] + 1)[d]
    BY DEF Agrees
  <2>1. msgs[a][d] = R(iter[a] + 1)[d]
    BY <1>1, <1>4 DEF Step, Agrees
  <2>2. d \in DOMAIN msgs[a] /\ d \notin DOMAIN new
    BY <1>3, <1>6, <1>7 DEF Store, OutOf, FarMessages
  <2> QED
    BY <1>9, <2>1, <2>2 DEF Overwrite
<1>15. ASSUME NEW q \in Partners(a), Here(q, a)'
       PROVE  Agrees(msgs'[a], FarMessages(q, a), iter[a] + 1)
  <2> SUFFICES ASSUME NEW d \in FarMessages(q, a) PROVE msgs'[a][d] = R(iter[a] + 1)[d]
    BY DEF Agrees
  <2>1. d \in DOMAIN msgs[a]
    BY <1>3 DEF Store, FarMessages
  <2>2. CASE q = b
    BY <1>6, <1>9, <2>1, <2>2 DEF Overwrite
  <2>3. CASE q # b
    <3>1. Here(q, a)
      BY <1>12, <1>13, <1>15, <2>3
    <3>2. msgs[a][d] = R(iter[a] + 1)[d]
      BY <1>4, <3>1 DEF Step, Agrees
    <3>3. d \notin DOMAIN new
      BY <1>6, <2>3 DEF FarMessages
    <3> QED
      BY <1>9, <2>1, <3>2, <3>3 DEF Overwrite
  <2> QED
    BY <2>2, <2>3
<1>16. toReceive'[a] = Cardinality(Missing(a)')
  <2>1. Missing(a)' = Missing(a) \ {b} /\ b \in Missing(a)
    BY <1>1, <1>7, <1>12, <1>13, Fixed DEF Missing
  <2>2. IsFiniteSet(Missing(a))
    BY <1>13, FS_Subset DEF Missing
  <2>3. Cardinality(Missing(a) \ {b}) = Cardinality(Missing(a)) - 1
    BY <2>1, <2>2, FS_RemoveElement
  <2> QED
    BY <1>1, <1>4, <1>10, <2>1, <2>3 DEF Step
<1>17. Step(a)'
  <2>1. toSend[a] = {}
    BY <1>1, <1>4 DEF Step
  <2> QED
    BY <1>1, <1>14, <1>15, <1>16, <2>1, Fixed DEF Step, Agrees
<1>18. \A p, q \in Process : Underway(q, p)'
  <2> SUFFICES ASSUME NEW p \in Process, NEW q \in Process PROVE Underway(q, p)'
    OBVIOUS
  <2>1. CASE q = b /\ p = a
    BY <1>8, <2>1 DEF Underway
  <2>2. CASE q # b \/ p # a
    <3>1. Underway(q, p)
      BY <1>2 DEF InRound
    <3> QED
      BY <1>1, <1>8, <1>11, <2>2, <3>1, UnderwaySame
  <2> QED
    BY <2>1, <2>2
<1>19. \A p \in Process \ {a} : \A q \in Partners(p) : Here(q, p)' <=> Here(q, p)
  BY <1>12, <1>13
<1> QED
  BY <1>1, <1>2, <1>10, <1>17, <1>18, <1>19, InRoundStep

LEMMA ComputeBeliefsStep ==
  ASSUME IInv, NEW a \in Process, ComputeBeliefs(a)
  PROVE  InRound'
<1>1. /\ pc[a] = "Receive" /\ toReceive[a] = 0 /\ pc' = [pc EXCEPT ![a] = "Reduce"]
      /\ UNCHANGED <<problem, engine, owner, msgs, iter, toSend, toReceive, channel>>
      /\ beliefs' = [beliefs EXCEPT ![a] =
           [n \in Node |-> IF owner[n] = a /\ n \in Hidden
                           THEN ComputeBelief(problem, msgs[a], n) ELSE beliefs[a][n]]]
  BY DEF ComputeBeliefs
<1>2. engine = "ParPearl" /\ TypeOK /\ InRound
  BY <1>1, InWhich, ParStages DEF IInv
<1>3. /\ pc \in [Process -> Stage] /\ msgs \in [Process -> Store]
      /\ beliefs \in [Process -> [Node -> SUBSET Node]]
  BY <1>2 DEF TypeOK
<1>4. Step(a)
  BY <1>2 DEF InRound
<1>5. \A p \in Process : Partners(p) \subseteq Process /\ IsFiniteSet(Partners(p))
  BY <1>2, PartnersFacts
<1>6. Missing(a) = {}
  <2>1. IsFiniteSet(Missing(a)) /\ Cardinality(Missing(a)) = 0
    BY <1>1, <1>4, <1>5, FS_Subset DEF Missing, Step
  <2> QED
    BY <2>1, FS_EmptySet
<1>7. pc'[a] = "Reduce" /\ \A p \in Process \ {a} : pc'[p] = pc[p] /\ beliefs'[p] = beliefs[p]
  BY <1>1, <1>3
<1>8. \A p, q \in Process : (Sent(p, q)' <=> Sent(p, q)) /\ (Here(p, q)' <=> Here(p, q))
  BY <1>1, <1>7 DEF Sent, Here
<1>9. Agrees(msgs[a], Into(a), iter[a] + 1)
  BY <1>1, <1>2, <1>4, <1>6, Arrived
<1>10. \A n \in NodesOf(a) \cap Hidden : beliefs'[a][n] = ComputeBelief(problem, R(iter[a] + 1), n)
  <2> SUFFICES ASSUME NEW n \in NodesOf(a), n \in Hidden
               PROVE  beliefs'[a][n] = ComputeBelief(problem, R(iter[a] + 1), n)
    OBVIOUS
  <2>1. n \in Node /\ owner[n] = a /\ msgs[a] \in Store
    BY <1>3 DEF NodesOf
  <2>2. beliefs'[a][n] = ComputeBelief(problem, msgs[a], n)
    BY <1>1, <1>3, <2>1
  <2>3. ComputeBelief(problem, msgs[a], n) = ComputeBelief(problem, R(iter[a] + 1), n)
    BY <1>2, <1>9, <2>1, NextBelief
  <2> QED
    BY <2>2, <2>3
<1>11. Step(a)'
  <2>1. Missing(a)' = {}
    BY <1>1, <1>5, <1>6, <1>8, Fixed DEF Missing
  <2>2. toSend[a] = {} /\ Agrees(msgs[a], OutOf(a), iter[a] + 1)
    BY <1>1, <1>4 DEF Step
  <2>3. ASSUME NEW q \in Partners(a), Here(q, a)'
        PROVE  Agrees(msgs[a], FarMessages(q, a), iter[a] + 1)
    BY <1>4, <1>5, <1>8, <2>3 DEF Step
  <2> QED
    BY <1>1, <1>7, <1>10, <2>1, <2>2, <2>3, Fixed DEF Step, Agrees
<1>12. \A p, q \in Process : Underway(q, p)'
  <2> SUFFICES ASSUME NEW p \in Process, NEW q \in Process PROVE Underway(q, p)'
    OBVIOUS
  <2>1. Underway(q, p)
    BY <1>2 DEF InRound
  <2> QED
    BY <1>1, <1>8, <2>1, UnderwaySame
<1> QED
  BY <1>1, <1>2, <1>5, <1>7, <1>8, <1>11, <1>12, InRoundStep

LEMMA AllReduceStep ==
  ASSUME IInv, AllReduce
  PROVE  InRound' \/ InCollect'
<1>1. /\ engine = "ParPearl" /\ \A p \in Process : pc[p] = "Reduce"
      /\ iter' = [p \in Process |-> iter[p] + 1]
      /\ pc' = [p \in Process |->
                  IF Converged \/ iter[p] + 1 >= MaxNumberOfIterations THEN "Collect" ELSE "Compute"]
      /\ UNCHANGED <<problem, owner, msgs, beliefs, toSend, toReceive, channel>>
  BY DEF AllReduce
<1>2. TypeOK /\ InRound /\ Main \in Process
  BY <1>1, InWhich, Processes DEF IInv
<1>3. \A p \in Process : Step(p) /\ iter[p] = iter[Main]
  BY <1>2 DEF InRound
<1>4. \A p \in Process : Missing(p) = {} /\ toSend[p] = {}
  BY <1>1, <1>3 DEF Step
<1>5. ASSUME NEW p \in Process, NEW q \in Process PROVE channel[q][p] = <<>>
  <2>1. Underway(q, p)
    BY <1>2 DEF InRound
  <2>2. q \in Partners(p) => Here(q, p)
    BY <1>4 DEF Missing
  <2> QED
    BY <2>1, <2>2 DEF Underway, Here
<1>6. iter[Main] \in 0 .. N - 1 /\ iter[Main] + 1 \in Nat
  BY <1>2, NumberOfNodes DEF InRound, TypeOK
<1>7. CASE Converged \/ iter[Main] + 1 >= MaxNumberOfIterations
  <2>1. \A p \in Process : pc'[p] = "Collect"
    BY <1>1, <1>3, <1>7
  <2>2. \A p, q \in Process : channel'[p][q] = <<>> /\ toSend'[p] = {}
    BY <1>1, <1>4, <1>5
  <2>3. ASSUME NEW p \in Process PROVE Final(p, p)'
    <3>1. \A n \in NodesOf(p) \cap Hidden : beliefs[p][n] = ComputeBelief(problem, R(iter[p] + 1), n)
      BY <1>1, <1>3 DEF Step
    <3>2. iter'[Main] = iter[p] + 1
      BY <1>1, <1>2, <1>3
    <3> QED
      BY <1>1, <3>1, <3>2, Fixed DEF Final
  <2>4. \A q \in Senders : Given(q)'
    BY <1>2, <2>1, <2>2 DEF Given, Senders
  <2> QED
    BY <1>2, <2>1, <2>2, <2>3, <2>4 DEF InCollect
<1>8. CASE ~ (Converged \/ iter[Main] + 1 >= MaxNumberOfIterations)
  <2>1. \A p \in Process : pc'[p] = "Compute"
    BY <1>1, <1>3, <1>8
  <2>2. \A p \in Process : iter'[p] = iter[p] + 1 /\ iter'[p] = iter'[Main]
    BY <1>1, <1>2, <1>3
  <2>3. iter'[Main] < N
    BY <1>2, <1>6, <1>8, <2>2, NumberOfNodes DEF MaxNumberOfIterations
  <2>4. ASSUME NEW p \in Process PROVE Step(p)'
    <3>1. Agrees(msgs[p], Into(p), iter[p] + 1)
      BY <1>1, <1>2, <1>3, <1>4, Arrived
    <3>2. \A q \in Partners(p) : ~ Here(q, p)'
      BY <1>2, <2>1, PartnersFacts DEF Here, Sent
    <3> QED
      BY <1>1, <1>4, <2>1, <2>2, <3>1, <3>2, Fixed DEF Step, Agrees
  <2>5. \A p, q \in Process : Underway(q, p)'
    BY <1>1, <1>5 DEF Underway
  <2> QED
    BY <2>2, <2>3, <2>4, <2>5 DEF InRound
<1> QED
  BY <1>7, <1>8

-----------------------------------------------------------------------------
(* The steps of the collection.                                               *)

\* Beliefs that a step leaves alone
LEMMA FinalSame ==
  ASSUME UNCHANGED <<problem, owner, iter>>, NEW p, beliefs'[p] = beliefs[p]
  PROVE  Share(p)' = Share(p) /\ \A q : Final(p, q) => Final(p, q)'
BY Fixed DEF Final, Share

LEMMA GivenSame ==
  ASSUME UNCHANGED <<problem, owner, iter>>, NEW q, Given(q), pc'[q] = pc[q], pc'[Main] = pc[Main],
         channel'[q][Main] = channel[q][Main], q \in toSend'[Main] <=> q \in toSend[Main],
         beliefs'[q] = beliefs[q], Final(Main, q) => Final(Main, q)'
  PROVE  Given(q)'
<1>1. Share(q)' = Share(q)
  BY FinalSame
<1> QED
  BY <1>1 DEF Given

LEMMA SendBeliefsStep ==
  ASSUME IInv, NEW a \in Process, SendBeliefs(a)
  PROVE  InCollect'
<1>1. /\ engine = "ParPearl" /\ pc[a] = "Collect" /\ a # Main
      /\ channel' = [channel EXCEPT ![a][Main] = Append(channel[a][Main], Share(a))]
      /\ pc' = [pc EXCEPT ![a] = "Barrier"]
      /\ UNCHANGED <<problem, owner, iter, beliefs, toSend>>
  BY DEF SendBeliefs, Share
<1>2. TypeOK /\ InCollect /\ Main \in Process /\ a \in Senders
  BY <1>1, InWhich, Processes DEF IInv, Senders
<1>3. pc[Main] = "Collect" /\ channel[a][Main] = <<>> /\ a \notin toSend[Main]
  BY <1>1, <1>2 DEF InCollect, Given
<1>4. PICK b : b = Share(a)
  OBVIOUS
<1>5. /\ channel'[a][Main] = <<b>>
      /\ \A p, q \in Process : p # a \/ q # Main => channel'[p][q] = channel[p][q]
  <2>1. channel' = Put(channel, a, Main, <<b>>)
    BY <1>1, <1>3, <1>4 DEF Put
  <2>2. Cells(channel)
    BY <1>2 DEF TypeOK, Cells
  <2> QED
    BY <1>2, <2>1, <2>2, ChannelStep
<1>6. pc'[a] = "Barrier" /\ \A p \in Process \ {a} : pc'[p] = pc[p]
  BY <1>1, <1>2 DEF TypeOK
<1>7. \A p : Share(p)' = Share(p) /\ \A q : Final(p, q) => Final(p, q)'
  BY <1>1, FinalSame
<1>8. ASSUME NEW q \in Senders PROVE Given(q)'
  <2>1. Given(q) /\ q \in Process
    BY <1>2 DEF InCollect, Senders
  <2>2. CASE q = a
    <3>1. pc'[a] = "Barrier" /\ pc'[Main] = "Collect" /\ a \notin toSend'[Main]
      BY <1>1, <1>2, <1>3, <1>6
    <3>2. channel'[a][Main] # <<>> /\ channel'[a][Main] = <<Share(a)'>>
      BY <1>4, <1>5, <1>7
    <3> QED
      BY <2>2, <3>1, <3>2 DEF Given
  <2>3. CASE q # a
    BY <1>1, <1>2, <1>5, <1>6, <1>7, <2>1, <2>3, GivenSame
  <2> QED
    BY <2>2, <2>3
<1>9. \A p \in Process : pc[p] # "Done"
  BY <1>1, <1>2 DEF InCollect
<1> QED
  BY <1>1, <1>2, <1>5, <1>6, <1>7, <1>8, <1>9 DEF InCollect

LEMMA ReceiveBeliefsStep ==
  ASSUME IInv, NEW a \in Process, ReceiveBeliefs(a)
  PROVE  InCollect' /\ channel[a][Main] = <<Share(a)>>
<1>1. /\ pc[Main] = "Collect" /\ a # Main /\ channel[a][Main] # <<>>
      /\ channel' = [channel EXCEPT ![a][Main] = Tail(channel[a][Main])]
      /\ toSend' = [toSend EXCEPT ![Main] = toSend[Main] \cup {a}]
      /\ beliefs' = [beliefs EXCEPT ![Main] = Overwrite(beliefs[Main], Head(channel[a][Main]))]
      /\ UNCHANGED <<problem, owner, iter, pc>>
  BY DEF ReceiveBeliefs
<1>2. TypeOK /\ InCollect /\ Main \in Process /\ a \in Senders
  BY <1>1, InWhich, ParStages, Processes DEF IInv, Senders
<1>3. Given(a)
  BY <1>2 DEF InCollect
<1>4. channel[a][Main] = <<Share(a)>>
  BY <1>1, <1>3 DEF Given
<1>5. /\ channel'[a][Main] = <<>>
      /\ \A p, q \in Process : p # a \/ q # Main => channel'[p][q] = channel[p][q]
  <2>1. channel' = Put(channel, a, Main, <<>>)
    BY <1>1, <1>4 DEF Put
  <2>2. Cells(channel)
    BY <1>2 DEF TypeOK, Cells
  <2> QED
    BY <1>2, <2>1, <2>2, ChannelStep
<1>6. toSend'[Main] = toSend[Main] \cup {a}
  BY <1>1, <1>2 DEF TypeOK
<1>7. /\ \A p \in Process \ {Main} : beliefs'[p] = beliefs[p]
      /\ beliefs'[Main] = [n \in Node |-> IF owner[n] = a THEN beliefs[a][n] ELSE beliefs[Main][n]]
  <2>1. beliefs \in [Process -> [Node -> SUBSET Node]]
    BY <1>2 DEF TypeOK
  <2>2. beliefs'[Main] = Overwrite(beliefs[Main], Share(a))
    BY <1>1, <1>2, <1>4, <2>1
  <2>3. DOMAIN beliefs[Main] = Node
    BY <1>2, <2>1
  <2> QED
    BY <1>1, <1>2, <2>1, <2>2, <2>3 DEF Overwrite, Share, NodesOf
<1>8. \A p \in Process : Final(p, p)
  BY <1>2 DEF InCollect
<1>9. Final(Main, a)'
  BY <1>1, <1>7, <1>8, Fixed DEF Final, NodesOf
<1>10. ASSUME NEW q \in Process, q # a PROVE Final(Main, q) => Final(Main, q)'
  BY <1>1, <1>7, <1>10, Fixed DEF Final, NodesOf
<1>11. \A p \in Process : Final(p, p)'
  <2>1. \A p \in Process \ {Main} : Final(p, p)'
    BY <1>1, <1>7, <1>8, FinalSame
  <2>2. Final(Main, Main)'
    BY <1>1, <1>2, <1>8, <1>10
  <2> QED
    BY <2>1, <2>2
<1>12. ASSUME NEW q \in Senders PROVE Given(q)'
  <2>1. Given(q) /\ q \in Process /\ q # Main
    BY <1>2 DEF InCollect, Senders
  <2>2. CASE q = a
    <3>1. pc'[a] # "Collect"
      BY <1>1, <1>3 DEF Given
    <3> QED
      BY <1>1, <1>5, <1>6, <1>9, <2>2, <3>1 DEF Given
  <2>3. CASE q # a
    <3>1. q \in toSend'[Main] <=> q \in toSend[Main]
      BY <1>6, <2>3
    <3>2. Final(Main, q) => Final(Main, q)'
      BY <1>10, <2>1, <2>3
    <3>3. beliefs'[q] = beliefs[q] /\ channel'[q][Main] = channel[q][Main]
      BY <1>2, <1>5, <1>7, <2>1, <2>3
    <3> QED
      BY <1>1, <2>1, <3>1, <3>2, <3>3, GivenSame
  <2> QED
    BY <2>2, <2>3
<1>13. InCollect'
  BY <1>1, <1>2, <1>5, <1>11, <1>12 DEF InCollect
<1> QED
  BY <1>4, <1>13

LEMMA CollectedStep ==
  ASSUME IInv, Collected
  PROVE  InCollect'
<1>1. /\ engine = "ParPearl" /\ pc[Main] = "Collect" /\ toSend[Main] = Senders
      /\ pc' = [pc EXCEPT ![Main] = "Barrier"]
      /\ UNCHANGED <<problem, owner, iter, beliefs, channel>>
  BY DEF Collected
<1>2. TypeOK /\ InCollect /\ Main \in Process
  BY <1>1, InWhich, Processes DEF IInv
<1>3. pc'[Main] = "Barrier" /\ \A p \in Process \ {Main} : pc'[p] = pc[p]
  BY <1>1, <1>2 DEF TypeOK
<1>4. \A p : Share(p)' = Share(p) /\ \A q : Final(p, q) => Final(p, q)'
  BY <1>1, FinalSame
<1>5. ASSUME NEW q \in Senders PROVE Given(q)'
  <2>1. pc[q] # "Collect" /\ channel[q][Main] = <<>> /\ pc'[q] # "Collect" /\ Final(Main, q)
    BY <1>1, <1>2, <1>3 DEF InCollect, Given, Senders
  <2> QED
    BY <1>1, <1>3, <1>4, <2>1 DEF Given
<1>6. \A p \in Process : pc[p] # "Done"
  BY <1>1, <1>2 DEF InCollect
<1> QED
  BY <1>1, <1>2, <1>3, <1>4, <1>5, <1>6 DEF InCollect

LEMMA BarrierStep ==
  ASSUME IInv, Barrier
  PROVE  InCollect'
<1>1. /\ \A p \in Process : pc[p] = "Barrier"
      /\ pc' = [p \in Process |-> "Done"]
      /\ UNCHANGED <<problem, owner, iter, beliefs, channel, toSend>>
  BY DEF Barrier
<1>2. InCollect /\ Main \in Process
  BY <1>1, InWhich, ParStages, Processes
<1>3. \A p : Share(p)' = Share(p) /\ \A q : Final(p, q) => Final(p, q)'
  BY <1>1, FinalSame
<1>4. ASSUME NEW q \in Senders PROVE Given(q)'
  <2>1. q \in Process /\ channel[q][Main] = <<>> /\ Final(Main, q)
    BY <1>1, <1>2 DEF InCollect, Given, Senders
  <2> QED
    BY <1>1, <1>2, <1>3, <2>1 DEF Given
<1> QED
  BY <1>1, <1>2, <1>3, <1>4 DEF InCollect

-----------------------------------------------------------------------------
(* The sequential engine.                                                     *)

LEMMA RoundType ==
  ASSUME TypeOK, NEW k \in 0 .. N
  PROVE  R(k) \in Store
<1>1. problem \in Problems
  BY DEF TypeOK
<1>2. Round(problem) \in [0 .. N -> Store]
  BY <1>1, RoundFacts DEF Store, Dirs
<1> QED
  BY <1>2 DEF R

LEMMA CPearlStep ==
  ASSUME IInv, CPearlRound \/ CPearlDeliver
  PROVE  engine = "CPearl" /\ InCPearl'
<1>1. engine = "CPearl" /\ UNCHANGED <<problem, owner, channel>>
  BY DEF CPearlRound, CPearlDeliver
<1>2. TypeOK /\ InCPearl /\ 0 \in Process
  BY <1>1, Processes DEF IInv
<1>3. /\ problem \in Problems /\ pc \in [Process -> Stage] /\ iter \in [Process -> 0 .. N]
      /\ msgs \in [Process -> Store] /\ newMsgs \in [Process -> Store]
      /\ beliefs \in [Process -> [Node -> SUBSET Node]]
  BY <1>2 DEF TypeOK
<1>4. CASE CPearlRound
  <2>1. PICK stage \in {"Deliver", "Compute"} :
          /\ pc' = [pc EXCEPT ![0] = stage] /\ iter' = [iter EXCEPT ![0] = iter[0] + 1]
          /\ stage = "Compute" => ~ (iter[0] + 1 >= MaxNumberOfIterations)
    BY <1>4 DEF CPearlRound
  <2>2. /\ pc'[0] = stage /\ \A p \in Process \ {0} : pc'[p] = pc[p]
        /\ iter'[0] = iter[0] + 1 /\ iter[0] \in Nat
    BY <1>2, <1>3, <2>1
  <2>3. pc'[0] = "Compute" => iter'[0] < N
    BY <2>1, <2>2, NumberOfNodes DEF MaxNumberOfIterations
  <2>4. pc[0] = "Compute" /\ iter[0] < N /\ newMsgs[0] = R(iter[0]) /\ (iter[0] = 0 => msgs[0] = newMsgs[0])
    BY <1>2, <1>4 DEF InCPearl, CPearlRound
  <2>5. newMsgs'[0] = R(iter[0] + 1)
    <3>1. newMsgs'[0] = MessagesOf(problem, newMsgs[0], Node)
      BY <1>2, <1>3, <1>4, <2>4 DEF CPearlRound
    <3>2. iter[0] + 1 \in 1 .. N /\ (iter[0] + 1) - 1 = iter[0]
      BY <2>2, <2>4, NumberOfNodes
    <3>3. R(iter[0] + 1) = MessagesOf(problem, R(iter[0]), Node)
      BY <1>3, <3>2, RoundFacts DEF R
    <3> QED
      BY <2>4, <3>1, <3>3
  <2>6. iter[0] + 1 # 0
    BY <2>2
  <2> QED
    BY <1>1, <1>2, <2>1, <2>2, <2>3, <2>5, <2>6, Fixed DEF InCPearl
<1>5. CASE CPearlDeliver
  <2>1. /\ pc' = [pc EXCEPT ![0] = "Done"] /\ pc[0] = "Deliver" /\ iter' = iter
        /\ beliefs' = [beliefs EXCEPT ![0] = BeliefsWith(newMsgs[0], Node)]
    BY <1>5 DEF CPearlDeliver
  <2>2. pc'[0] = "Done" /\ \A p \in Process \ {0} : pc'[p] = pc[p]
    BY <1>2, <1>3, <2>1
  <2>3. \A n \in Hidden : beliefs'[0][n] = ComputeBelief(problem, R(iter[0]), n)
    <3>1. newMsgs[0] = R(iter[0])
      BY <1>2, <2>1 DEF InCPearl
    <3>2. beliefs'[0] = BeliefsWith(newMsgs[0], Node)
      BY <1>2, <1>3, <2>1
    <3> QED
      BY <3>1, <3>2 DEF BeliefsWith, Hidden
  <2> QED
    BY <1>1, <1>2, <2>1, <2>2, <2>3, Fixed DEF InCPearl
<1> QED
  BY <1>1, <1>4, <1>5

-----------------------------------------------------------------------------
(* Types.                                                                     *)

LEMMA OverwriteType ==
  ASSUME NEW D, NEW S, NEW in \in [D -> S], NEW new, \A d \in D : d \in DOMAIN new => new[d] \in S
  PROVE  Overwrite(in, new) \in [D -> S]
BY DEF Overwrite

\* The variables of the engines, one process of which writes its part
LEMMA StoreStep ==
  ASSUME NEW f \in [Process -> Store], NEW p \in Process, NEW s \in Store
  PROVE  [f EXCEPT ![p] = s] \in [Process -> Store]
OBVIOUS

LEMMA MessagesType ==
  ASSUME TypeOK, NEW in \in Store, NEW S
  PROVE  /\ MessagesOf(problem, in, Node) \in Store
         /\ \A d \in Dirs : d \in DOMAIN MessagesOf(problem, in, S) =>
              MessagesOf(problem, in, S)[d] \in SUBSET Node
<1>1. /\ problem \in Problems /\ Dirs = Directions(problem.model)
      /\ in \in [Directions(problem.model) -> SUBSET Node]
  BY DEF TypeOK, Dirs, Store
<1>2. MessagesOf(problem, in, Node) \in Store
  BY <1>1, MessagesOfFacts DEF Store
<1>3. ASSUME NEW d \in Directions(problem.model), d \in DOMAIN MessagesOf(problem, in, S)
      PROVE  MessagesOf(problem, in, S)[d] \in SUBSET Node
  <2>1. d[1] \in S
    BY <1>3 DEF MessagesOf
  <2> QED
    BY <1>1, <2>1, OneMessage
<1> QED
  BY <1>1, <1>2, <1>3

LEMMA BeliefType ==
  ASSUME TypeOK, NEW in \in Store, NEW n \in Node
  PROVE  ComputeBelief(problem, in, n) \in SUBSET Node
<1>1. problem \in Problems /\ in \in [Directions(problem.model) -> SUBSET Node]
  BY DEF TypeOK, Store, Dirs
<1> QED
  BY <1>1, ComputedTypes

LEMMA BeliefsWithType ==
  ASSUME TypeOK, NEW in \in Store, NEW S
  PROVE  BeliefsWith(in, S) \in [Node -> SUBSET Node]
<1>1. beliefs[0] \in [Node -> SUBSET Node]
  BY Processes DEF TypeOK
<1>2. \A n \in Node : ComputeBelief(problem, in, n) \in SUBSET Node
  BY BeliefType
<1> QED
  BY <1>1, <1>2 DEF BeliefsWith

LEMMA TypeStep ==
  ASSUME IInv, Next
  PROVE  TypeOK'
<1>0. /\ TypeOK /\ 0 \in Process /\ Main \in Process
      /\ N \in Nat /\ N >= 2
  BY Processes, NumberOfNodes DEF IInv
<1>1. /\ problem \in Problems /\ engine \in {"CPearl", "ParPearl"} /\ owner \in [Node -> Process]
      /\ pc \in [Process -> Stage]
      /\ msgs \in [Process -> Store] /\ newMsgs \in [Process -> Store]
      /\ beliefs \in [Process -> [Node -> SUBSET Node]] /\ changed \in [Process -> BOOLEAN]
      /\ iter \in [Process -> 0 .. N]
      /\ toSend \in [Process -> SUBSET Process] /\ toReceive \in [Process -> Nat]
  BY <1>0 DEF TypeOK
<1>2. Cells(channel)
  BY <1>0 DEF TypeOK, Cells
<1>3. UNCHANGED <<problem, engine, owner>>
  BY DEF Next, ProcessStep, CPearlRound, CPearlDeliver, ComputeMessages, SendMessages,
         ReceiveMessages, ComputeBeliefs, SendBeliefs, ReceiveBeliefs, AllReduce, Collected, Barrier
<1>4. Store' = Store
  BY <1>3, Fixed DEF Store
<1> SUFFICES /\ pc' \in [Process -> Stage]
             /\ msgs' \in [Process -> Store] /\ newMsgs' \in [Process -> Store]
             /\ beliefs' \in [Process -> [Node -> SUBSET Node]] /\ changed' \in [Process -> BOOLEAN]
             /\ iter' \in [Process -> 0 .. N]
             /\ toSend' \in [Process -> SUBSET Process] /\ toReceive' \in [Process -> Nat]
             /\ Cells(channel)'
  BY <1>1, <1>3, <1>4 DEF TypeOK, Cells
<1>5. CASE CPearlRound
  <2>1. UNCHANGED <<changed, toSend, toReceive, channel>>
    BY <1>5 DEF CPearlRound
  <2>2. PICK in \in Store : /\ msgs' = [msgs EXCEPT ![0] = in]
                            /\ newMsgs' = [newMsgs EXCEPT ![0] = MessagesOf(problem, in, Node)]
    BY <1>0, <1>1, <1>5 DEF CPearlRound
  <2>3. msgs' \in [Process -> Store] /\ newMsgs' \in [Process -> Store]
    BY <1>0, <1>1, <2>2, MessagesType, StoreStep
  <2>4. BeliefsWith(newMsgs[0], Node) \in [Node -> SUBSET Node]
    BY <1>0, <1>1, BeliefsWithType
  <2>5. beliefs' \in [Process -> [Node -> SUBSET Node]]
    <3>1. PICK b \in [Node -> SUBSET Node] : beliefs' = [beliefs EXCEPT ![0] = b]
      BY <1>0, <1>1, <1>5, <2>4 DEF CPearlRound
    <3> QED
      BY <1>0, <1>1, <3>1
  <2>6. iter' \in [Process -> 0 .. N] /\ pc' \in [Process -> Stage]
    <3>1. iter[0] < N
      BY <1>5 DEF CPearlRound, IInv, InCPearl
    <3>2. iter' = [iter EXCEPT ![0] = iter[0] + 1]
      BY <1>5 DEF CPearlRound
    <3>3. PICK stage \in {"Deliver", "Compute"} : pc' = [pc EXCEPT ![0] = stage]
      BY <1>5 DEF CPearlRound
    <3>4. pc' \in [Process -> Stage]
      BY <1>0, <1>1, <3>3 DEF Stage
    <3>5. iter[0] + 1 \in 0 .. N
      BY <1>0, <1>1, <3>1
    <3>6. iter' \in [Process -> 0 .. N]
      BY <1>0, <1>1, <3>2, <3>5
    <3> QED
      BY <3>4, <3>6
  <2> QED
    BY <1>1, <1>2, <2>1, <2>3, <2>5, <2>6 DEF Cells
<1>6. CASE CPearlDeliver
  <2>1. /\ UNCHANGED <<newMsgs, changed, iter, toSend, toReceive, channel>>
        /\ msgs' = [msgs EXCEPT ![0] = newMsgs[0]] /\ pc' = [pc EXCEPT ![0] = "Done"]
        /\ beliefs' = [beliefs EXCEPT ![0] = BeliefsWith(newMsgs[0], Node)]
    BY <1>6 DEF CPearlDeliver
  <2>2. BeliefsWith(newMsgs[0], Node) \in [Node -> SUBSET Node]
    BY <1>0, <1>1, BeliefsWithType
  <2>3. pc' \in [Process -> Stage]
    BY <1>0, <1>1, <2>1 DEF Stage
  <2> QED
    BY <1>0, <1>1, <1>2, <2>1, <2>2, <2>3 DEF Cells
<1>7. ASSUME NEW p \in Process, ComputeMessages(p)
      PROVE  /\ pc' \in [Process -> Stage]
             /\ msgs' \in [Process -> Store] /\ newMsgs' \in [Process -> Store]
             /\ toSend' \in [Process -> SUBSET Process] /\ toReceive' \in [Process -> Nat]
             /\ UNCHANGED <<beliefs, changed, iter, channel>>
  <2>1. /\ msgs' = [msgs EXCEPT ![p] = Overwrite(newMsgs[p], MessagesOf(problem, msgs[p], NodesOf(p)))]
        /\ newMsgs' = [newMsgs EXCEPT ![p] = msgs[p]] /\ pc' = [pc EXCEPT ![p] = "Send"]
        /\ toSend' = [toSend EXCEPT ![p] = Partners(p)]
        /\ toReceive' = [toReceive EXCEPT ![p] = Cardinality(Partners(p))]
        /\ UNCHANGED <<beliefs, changed, iter, channel>>
    BY <1>7 DEF ComputeMessages
  <2>2. Partners(p) \in SUBSET Process /\ Cardinality(Partners(p)) \in Nat
    BY <1>0, PartnersFacts, FS_CardinalityType
  <2>3. Overwrite(newMsgs[p], MessagesOf(problem, msgs[p], NodesOf(p))) \in Store
    <3>1. msgs[p] \in Store /\ newMsgs[p] \in [Dirs -> SUBSET Node]
      BY <1>1 DEF Store
    <3>2. \A d \in Dirs : d \in DOMAIN MessagesOf(problem, msgs[p], NodesOf(p)) =>
            MessagesOf(problem, msgs[p], NodesOf(p))[d] \in SUBSET Node
      BY <1>0, <3>1, MessagesType
    <3> QED
      BY <3>1, <3>2, OverwriteType DEF Store
  <2>4. pc' \in [Process -> Stage]
    BY <1>1, <2>1 DEF Stage
  <2> QED
    BY <1>1, <2>1, <2>2, <2>3, <2>4
<1>8. ASSUME NEW p \in Process, SendMessages(p)
      PROVE  /\ pc' \in [Process -> Stage] /\ toSend' \in [Process -> SUBSET Process] /\ Cells(channel)'
             /\ UNCHANGED <<msgs, newMsgs, beliefs, changed, iter, toReceive>>
  <2>1. UNCHANGED <<msgs, newMsgs, beliefs, changed, iter, toReceive>>
    BY <1>8 DEF SendMessages
  <2>2. CASE toSend[p] = {}
    <3>1. pc' = [pc EXCEPT ![p] = "Receive"] /\ UNCHANGED <<toSend, channel>>
      BY <1>8, <2>2 DEF SendMessages
    <3>2. pc' \in [Process -> Stage]
      BY <1>1, <3>1 DEF Stage
    <3> QED
      BY <1>1, <1>2, <2>1, <3>1, <3>2 DEF Cells
  <2>3. CASE toSend[p] # {}
    <3>1. PICK q, x : /\ channel' = [channel EXCEPT ![p][q] = x] /\ pc' = pc /\ q = Min(toSend[p])
                      /\ toSend' = [toSend EXCEPT ![p] = toSend[p] \ {q}]
      BY <1>8, <2>3 DEF SendMessages
    <3>2. q \in Process
      <4>1. toSend[p] \in SUBSET Nat /\ toSend[p] \subseteq Process
        BY <1>1, Processes
      <4>2. \E n \in toSend[p] : \A k \in toSend[p] : n <= k
        BY <2>3, <4>1, LeastNat
      <4> QED
        BY <3>1, <4>1, <4>2 DEF Min
    <3>3. Cells(channel)'
      <4>1. channel' = Put(channel, p, q, x)
        BY <3>1 DEF Put
      <4>2. Cells(channel')
        BY <1>2, <3>2, <4>1, ChannelStep
      <4> QED
        BY <4>2 DEF Cells
    <3>4. toSend' \in [Process -> SUBSET Process]
      BY <1>1, <3>1
    <3> QED
      BY <1>1, <2>1, <3>1, <3>3, <3>4
  <2> QED
    BY <2>2, <2>3
<1>9. ASSUME NEW p \in Process, ReceiveMessages(p)
      PROVE  /\ msgs' \in [Process -> Store] /\ toReceive' \in [Process -> Nat] /\ Cells(channel)'
             /\ UNCHANGED <<pc, newMsgs, beliefs, changed, iter, toSend>>
  <2>1. /\ UNCHANGED <<pc, newMsgs, beliefs, changed, iter, toSend>> /\ toReceive[p] > 0
        /\ toReceive' = [toReceive EXCEPT ![p] = toReceive[p] - 1] /\ pc[p] = "Receive"
    BY <1>9 DEF ReceiveMessages
  <2>2. PICK q \in Process :
          /\ channel[q][p] # <<>>
          /\ msgs' = [msgs EXCEPT ![p] = Overwrite(msgs[p], Head(channel[q][p]))]
          /\ channel' = [channel EXCEPT ![q][p] = Tail(channel[q][p])]
    BY <1>9 DEF ReceiveMessages
  <2>3. PICK new : channel[q][p] = <<new>> /\ new = [d \in FarMessages(q, p) |-> R(iter[q] + 1)[d]]
    <3>1. InRound
      BY <2>1, InWhich, ParStages
    <3>2. Underway(q, p)
      BY <3>1 DEF InRound
    <3> QED
      BY <2>2, <3>2 DEF Underway
  <2>4. R(iter[q] + 1) \in Store
    <3>1. InRound
      BY <2>1, InWhich, ParStages
    <3>2. iter[q] < N
      BY <3>1 DEF InRound
    <3>3. iter[q] + 1 \in 0 .. N
      BY <1>0, <1>1, <3>2
    <3> QED
      BY <1>0, <3>3, RoundType
  <2>5. Overwrite(msgs[p], new) \in Store
    <3>1. \A d \in Dirs : d \in DOMAIN new => new[d] \in SUBSET Node
      BY <2>3, <2>4 DEF Store
    <3>2. msgs[p] \in [Dirs -> SUBSET Node]
      BY <1>1 DEF Store
    <3> QED
      BY <3>1, <3>2, OverwriteType DEF Store
  <2>6. msgs' \in [Process -> Store]
    BY <1>1, <2>2, <2>3, <2>5
  <2>7. Cells(channel)'
    <3>1. channel' = Put(channel, q, p, Tail(channel[q][p]))
      BY <2>2 DEF Put
    <3>2. Cells(channel')
      BY <1>2, <3>1, ChannelStep
    <3> QED
      BY <3>2 DEF Cells
  <2>8. toReceive' \in [Process -> Nat]
    BY <1>1, <2>1
  <2> QED
    BY <2>1, <2>6, <2>7, <2>8
<1>10. ASSUME NEW p \in Process, ComputeBeliefs(p)
       PROVE  /\ beliefs' \in [Process -> [Node -> SUBSET Node]] /\ changed' \in [Process -> BOOLEAN]
              /\ pc' \in [Process -> Stage]
              /\ UNCHANGED <<msgs, newMsgs, iter, toSend, toReceive, channel>>
  <2>1. PICK after : /\ beliefs' = [beliefs EXCEPT ![p] = after]
                     /\ changed' = [changed EXCEPT ![p] = after # beliefs[p]]
                     /\ after = [n \in Node |-> IF owner[n] = p /\ n \in Hidden
                                  THEN ComputeBelief(problem, msgs[p], n) ELSE beliefs[p][n]]
    BY <1>10 DEF ComputeBeliefs
  <2>2. /\ pc' = [pc EXCEPT ![p] = "Reduce"]
        /\ UNCHANGED <<msgs, newMsgs, iter, toSend, toReceive, channel>>
    BY <1>10 DEF ComputeBeliefs
  <2>3. \A n \in Node : ComputeBelief(problem, msgs[p], n) \in SUBSET Node
    BY <1>0, <1>1, BeliefType
  <2>4. after \in [Node -> SUBSET Node]
    BY <1>1, <2>1, <2>3
  <2>5. beliefs' \in [Process -> [Node -> SUBSET Node]]
    BY <1>1, <2>1, <2>4
  <2>6. pc' \in [Process -> Stage]
    BY <1>1, <2>2 DEF Stage
  <2>7. changed' \in [Process -> BOOLEAN]
    BY <1>1, <2>1
  <2> QED
    BY <2>2, <2>5, <2>6, <2>7
<1>11. ASSUME NEW p \in Process, SendBeliefs(p)
       PROVE  /\ pc' \in [Process -> Stage] /\ Cells(channel)'
              /\ UNCHANGED <<msgs, newMsgs, beliefs, changed, iter, toSend, toReceive>>
  <2>1. PICK x : /\ channel' = Put(channel, p, Main, x) /\ pc' = [pc EXCEPT ![p] = "Barrier"]
                 /\ UNCHANGED <<msgs, newMsgs, beliefs, changed, iter, toSend, toReceive>>
    BY <1>11 DEF SendBeliefs, Put
  <2>2. Cells(channel')
    BY <1>0, <1>2, <2>1, ChannelStep
  <2>3. pc' \in [Process -> Stage]
    BY <1>1, <2>1 DEF Stage
  <2> QED
    BY <2>1, <2>2, <2>3 DEF Cells
<1>12. ASSUME NEW q \in Process, ReceiveBeliefs(q)
       PROVE  /\ beliefs' \in [Process -> [Node -> SUBSET Node]] /\ Cells(channel)'
              /\ toSend' \in [Process -> SUBSET Process]
              /\ UNCHANGED <<pc, msgs, newMsgs, changed, iter, toReceive>>
  <2>1. /\ beliefs' = [beliefs EXCEPT ![Main] = Overwrite(beliefs[Main], Head(channel[q][Main]))]
        /\ channel' = Put(channel, q, Main, Tail(channel[q][Main]))
        /\ toSend' = [toSend EXCEPT ![Main] = toSend[Main] \cup {q}]
        /\ UNCHANGED <<pc, msgs, newMsgs, changed, iter, toReceive>>
    BY <1>12 DEF ReceiveBeliefs, Put
  <2>2. PICK b : channel[q][Main] = <<b>> /\ b = [n \in NodesOf(q) |-> beliefs[q][n]]
    BY <1>12, ReceiveBeliefsStep DEF Share
  <2>3. Overwrite(beliefs[Main], b) \in [Node -> SUBSET Node]
    <3>1. /\ beliefs[Main] \in [Node -> SUBSET Node]
          /\ \A n \in Node : n \in DOMAIN b => b[n] \in SUBSET Node
      BY <1>0, <1>1, <2>2
    <3> QED
      BY <3>1, OverwriteType
  <2>4. beliefs' \in [Process -> [Node -> SUBSET Node]]
    BY <1>0, <1>1, <2>1, <2>2, <2>3
  <2>5. Cells(channel')
    BY <1>0, <1>2, <2>1, ChannelStep
  <2>6. toSend' \in [Process -> SUBSET Process]
    BY <1>0, <1>1, <2>1
  <2> QED
    BY <2>1, <2>4, <2>5, <2>6 DEF Cells
<1>13. CASE AllReduce
  <2>1. /\ iter' = [p \in Process |-> iter[p] + 1]
        /\ pc' = [p \in Process |->
                    IF Converged \/ iter[p] + 1 >= MaxNumberOfIterations THEN "Collect" ELSE "Compute"]
        /\ UNCHANGED <<msgs, newMsgs, beliefs, changed, toSend, toReceive, channel>>
    BY <1>13 DEF AllReduce
  <2>2. \A p \in Process : iter[p] < N
    <3>1. InRound
      BY <1>0, <1>13, InWhich DEF AllReduce
    <3> QED
      BY <3>1 DEF InRound
  <2>3. iter' \in [Process -> 0 .. N]
    BY <1>0, <1>1, <2>1, <2>2
  <2>4. pc' \in [Process -> Stage]
    BY <2>1 DEF Stage
  <2> QED
    BY <1>1, <1>2, <2>1, <2>3, <2>4 DEF Cells
<1>14. CASE Collected
  <2>1. /\ pc' = [pc EXCEPT ![Main] = "Barrier"] /\ toSend' = [toSend EXCEPT ![Main] = {}]
        /\ UNCHANGED <<msgs, newMsgs, beliefs, changed, iter, toReceive, channel>>
    BY <1>14 DEF Collected
  <2>2. pc' \in [Process -> Stage]
    BY <1>0, <1>1, <2>1 DEF Stage
  <2>3. toSend' \in [Process -> SUBSET Process]
    BY <1>0, <1>1, <2>1
  <2> QED
    BY <1>1, <1>2, <2>1, <2>2, <2>3 DEF Cells
<1>15. CASE Barrier
  <2>1. /\ pc' = [p \in Process |-> "Done"]
        /\ UNCHANGED <<msgs, newMsgs, beliefs, changed, iter, toSend, toReceive, channel>>
    BY <1>15 DEF Barrier
  <2>2. pc' \in [Process -> Stage]
    BY <2>1 DEF Stage
  <2> QED
    BY <1>1, <1>2, <2>1, <2>2 DEF Cells
<1>16. ASSUME NEW p \in Process, ProcessStep(p)
       PROVE  /\ pc' \in [Process -> Stage]
              /\ msgs' \in [Process -> Store] /\ newMsgs' \in [Process -> Store]
              /\ beliefs' \in [Process -> [Node -> SUBSET Node]] /\ changed' \in [Process -> BOOLEAN]
              /\ iter' \in [Process -> 0 .. N]
              /\ toSend' \in [Process -> SUBSET Process] /\ toReceive' \in [Process -> Nat]
              /\ Cells(channel)'
  <2>1. channel' = channel => Cells(channel)'
    BY <1>2 DEF Cells
  <2>2. CASE ComputeMessages(p)
    BY <1>1, <1>7, <2>1, <2>2
  <2>3. CASE SendMessages(p)
    BY <1>1, <1>8, <2>3
  <2>4. CASE ReceiveMessages(p)
    BY <1>1, <1>9, <2>4
  <2>5. CASE ComputeBeliefs(p)
    BY <1>1, <1>10, <2>1, <2>5
  <2>6. CASE SendBeliefs(p)
    BY <1>1, <1>11, <2>6
  <2>7. CASE ReceiveBeliefs(p)
    BY <1>1, <1>12, <2>7
  <2> QED
    BY <1>16, <2>2, <2>3, <2>4, <2>5, <2>6, <2>7 DEF ProcessStep
<1> QED
  BY <1>5, <1>6, <1>13, <1>14, <1>15, <1>16 DEF Next

-----------------------------------------------------------------------------
(* The invariant, and what follows from it.                                   *)

LEMMA InitIInv == Init => IInv
<1> SUFFICES ASSUME Init PROVE IInv
  OBVIOUS
<1>0. /\ N \in Nat /\ N >= 2 /\ N > 0 /\ 0 \in 0 .. N
      /\ 0 \in Process /\ Main \in Process
  BY NumberOfNodes, Processes
<1>1. /\ problem \in Problems /\ engine \in {"CPearl", "ParPearl"}
      /\ pc = [p \in Process |-> IF engine = "CPearl" /\ p # 0 THEN "Done" ELSE "Compute"]
      /\ msgs = [p \in Process |-> Uniform(problem.model)] /\ newMsgs = msgs
      /\ beliefs = [p \in Process |-> FirstBeliefs(problem)]
      /\ changed = [p \in Process |-> FALSE] /\ iter = [p \in Process |-> 0]
      /\ toSend = [p \in Process |-> {}] /\ toReceive = [p \in Process |-> 0]
      /\ channel = [p \in Process |-> [q \in Process |-> <<>>]]
  BY DEF Init
<1>2. owner \in [Node -> Process]
  BY <1>0 DEF Init, Divisions
<1>3. Uniform(problem.model) \in Store /\ R(0) = Uniform(problem.model)
  <2>1. Uniform(problem.model) \in Store
    BY DEF Uniform, Store, Dirs
  <2> QED
    BY <1>1, <2>1, RoundFacts DEF R
<1>4. FirstBeliefs(problem) \in [Node -> SUBSET Node]
  BY DEF FirstBeliefs, SelfMessage
<1>5. TypeOK
  <2>1. channel = [p \in Process |-> [q \in Process |-> channel[p][q]]]
    BY <1>1
  <2>2. pc \in [Process -> Stage]
    BY <1>1 DEF Stage
  <2>3. /\ msgs \in [Process -> Store] /\ newMsgs \in [Process -> Store]
        /\ beliefs \in [Process -> [Node -> SUBSET Node]]
    BY <1>1, <1>3, <1>4
  <2>4. /\ changed \in [Process -> BOOLEAN] /\ iter \in [Process -> 0 .. N]
        /\ toSend \in [Process -> SUBSET Process] /\ toReceive \in [Process -> Nat]
    BY <1>0, <1>1
  <2> QED
    BY <1>1, <1>2, <2>1, <2>2, <2>3, <2>4 DEF TypeOK
<1>6. ASSUME engine = "CPearl" PROVE InCPearl
  BY <1>0, <1>1, <1>6 DEF InCPearl
<1>7. ASSUME engine = "ParPearl" PROVE InRound
  <2>1. \A p \in Process : pc[p] = "Compute"
    BY <1>1, <1>7
  <2>2. ASSUME NEW p \in Process PROVE Step(p)
    <3>1. Agrees(msgs[p], Into(p), iter[p])
      BY <1>1, <1>3 DEF Agrees
    <3>2. \A q \in Partners(p) : ~ Here(q, p)
      BY <1>5, <2>1, PartnersFacts DEF Here, Sent
    <3> QED
      BY <1>1, <2>1, <3>1, <3>2 DEF Step
  <2>3. \A p, q \in Process : Underway(q, p)
    BY <1>1 DEF Underway
  <2> QED
    BY <1>0, <1>1, <2>2, <2>3 DEF InRound
<1> QED
  BY <1>5, <1>6, <1>7 DEF IInv

LEMMA NextIInv == IInv /\ [Next]_vars => IInv'
<1> SUFFICES ASSUME IInv, [Next]_vars PROVE IInv'
  OBVIOUS
<1>1. CASE Next
  <2>1. TypeOK'
    BY <1>1, TypeStep
  <2>2. engine' = engine
    BY <1>1 DEF Next, ProcessStep, CPearlRound, CPearlDeliver, ComputeMessages, SendMessages,
           ReceiveMessages, ComputeBeliefs, SendBeliefs, ReceiveBeliefs, AllReduce, Collected, Barrier
  <2>3. CASE CPearlRound \/ CPearlDeliver
    BY <2>1, <2>2, <2>3, CPearlStep DEF IInv
  <2>4. ASSUME InRound' \/ InCollect', engine = "ParPearl" PROVE IInv'
    BY <2>1, <2>2, <2>4 DEF IInv
  <2>5. ASSUME NEW p \in Process, ProcessStep(p) PROVE InRound' \/ InCollect'
    <3>1. CASE ComputeMessages(p)
      BY <3>1, ComputeMessagesStep
    <3>2. CASE SendMessages(p)
      BY <3>2, SendMessagesStep
    <3>3. CASE ReceiveMessages(p)
      BY <3>3, ReceiveMessagesStep
    <3>4. CASE ComputeBeliefs(p)
      BY <3>4, ComputeBeliefsStep
    <3>5. CASE SendBeliefs(p)
      BY <3>5, SendBeliefsStep
    <3>6. CASE ReceiveBeliefs(p)
      BY <3>6, ReceiveBeliefsStep
    <3> QED
      BY <2>5, <3>1, <3>2, <3>3, <3>4, <3>5, <3>6 DEF ProcessStep
  <2>6. ASSUME NEW p \in Process, ProcessStep(p) PROVE engine = "ParPearl"
    <3>1. CASE ComputeMessages(p)
      BY <3>1 DEF ComputeMessages
    <3>2. CASE pc[p] \in {"Send", "Receive", "Collect"}
      BY <3>2, ParStages
    <3>3. CASE ReceiveBeliefs(p)
      BY <3>3, ParStages, Processes DEF ReceiveBeliefs
    <3> QED
      BY <2>6, <3>1, <3>2, <3>3
         DEF ProcessStep, SendMessages, ReceiveMessages, ComputeBeliefs, SendBeliefs
  <2>7. CASE AllReduce
    BY <2>4, <2>7, AllReduceStep DEF AllReduce
  <2>8. CASE Collected
    BY <2>4, <2>8, CollectedStep DEF Collected
  <2>9. CASE Barrier
    <3>1. engine = "ParPearl"
      BY <2>9, ParStages, Processes DEF Barrier
    <3> QED
      BY <2>4, <2>9, <3>1, BarrierStep
  <2> QED
    BY <1>1, <2>3, <2>4, <2>5, <2>6, <2>7, <2>8, <2>9 DEF Next
<1>2. CASE UNCHANGED vars
  <2>1. UNCHANGED <<problem, engine, owner, pc, msgs, newMsgs, beliefs, changed, iter,
                    toSend, toReceive, channel>>
    BY <1>2 DEF vars
  <2>2. TypeOK' <=> TypeOK
    <3>1. Store' = Store
      BY <2>1, Fixed DEF Store
    <3> QED
      BY <2>1, <3>1 DEF TypeOK
  <2>3. \A p, q : (Sent(p, q)' <=> Sent(p, q)) /\ (Here(p, q)' <=> Here(p, q))
    BY <2>1 DEF Sent, Here
  <2>4. InCPearl => InCPearl'
    BY <2>1, Fixed DEF InCPearl
  <2>5. InRound => InRound'
    <3> SUFFICES ASSUME InRound PROVE InRound'
      OBVIOUS
    <3>1. ASSUME NEW p \in Process PROVE Step(p)'
      <4>1. Step(p)
        BY DEF InRound
      <4> QED
        BY <2>1, <2>3, <4>1, StepSame
    <3>2. ASSUME NEW p \in Process, NEW q \in Process PROVE Underway(q, p)'
      <4>1. Underway(q, p)
        BY DEF InRound
      <4> QED
        BY <2>1, <2>3, <4>1, UnderwaySame
    <3> QED
      BY <2>1, <3>1, <3>2 DEF InRound
  <2>6. InCollect => InCollect'
    <3> SUFFICES ASSUME InCollect PROVE InCollect'
      OBVIOUS
    <3>1. \A p : Final(p, p) => Final(p, p)'
      BY <2>1, FinalSame
    <3>2. ASSUME NEW q \in Senders PROVE Given(q)'
      <4>1. Given(q) /\ (Final(Main, q) => Final(Main, q)')
        BY <2>1, FinalSame DEF InCollect
      <4> QED
        BY <2>1, <4>1, GivenSame
    <3> QED
      BY <2>1, <3>1, <3>2 DEF InCollect
  <2> QED
    BY <2>1, <2>2, <2>4, <2>5, <2>6 DEF IInv
<1> QED
  BY <1>1, <1>2

\* The inductive invariant holds in every reachable state of both engines.
THEOREM Invariance == Spec => []IInv
<1> QED
  BY InitIInv, NextIInv, PTL DEF Spec

\* The variables keep their types.
THEOREM TypeCorrect == Spec => []TypeOK
<1>1. IInv => TypeOK
  BY DEF IInv
<1> QED
  BY <1>1, Invariance, PTL

LEMMA AgreeInEachRound == IInv => InEachRound
<1> SUFFICES ASSUME IInv, NEW p \in Process, engine = "ParPearl", pc[p] = "Reduce",
                    NEW n \in NodesOf(p) \cap Hidden
             PROVE  beliefs[p][n] = ComputeBelief(problem, Round(problem)[iter[p] + 1], n)
  BY DEF InEachRound
<1>1. Step(p)
  BY InWhich DEF InRound
<1> QED
  BY <1>1 DEF Step, R

LEMMA AgreeInTheEnd == IInv => ResultOfOneRound
<1> SUFFICES ASSUME IInv, Finished, NEW n \in Hidden
             PROVE  beliefs[Main][n] = ComputeBelief(problem, Round(problem)[iter[Main]], n)
  BY DEF ResultOfOneRound
<1>1. Main \in Process /\ pc[Main] = "Done"
  BY Processes DEF Finished
<1>2. TypeOK /\ n \in Node
  BY DEF IInv, Hidden
<1>3. CASE engine = "CPearl"
  BY <1>1, <1>3 DEF IInv, InCPearl, R, Main
<1>4. CASE engine = "ParPearl"
  <2>1. InCollect
    BY <1>1, <1>4, InWhich
  <2>2. owner[n] \in Process /\ n \in NodesOf(owner[n])
    BY <1>2 DEF TypeOK, NodesOf
  <2>3. Final(Main, owner[n])
    BY <1>1, <2>1, <2>2 DEF InCollect, Given, Senders
  <2> QED
    BY <2>2, <2>3 DEF Final, R
<1> QED
  BY <1>2, <1>3, <1>4 DEF TypeOK

\* For any model, evidence, number of processes and division of the nodes between
\* them: in each round every process computes the beliefs of its nodes from the
\* messages of just that round, as one process would, and what either engine leaves
\* on the main process are the beliefs of one and the same round for all hidden
\* nodes; so the two agree whenever they stop after as many.
\* (CParPearlInfEngine::ParallelProtocol, CollectBeliefsOnProcess)
THEOREM RoundsAlwaysAgree == Spec => []RoundsAgree
<1>1. IInv => RoundsAgree
  BY AgreeInEachRound, AgreeInTheEnd DEF RoundsAgree
<1> QED
  BY <1>1, Invariance, PTL

\* No engine ends with a message that nobody has received.
\* (CParPearlInfEngine::ParallelProtocol, CollectBeliefsOnProcess)
THEOREM NothingIsLeft == Spec => []NothingLeft
<1>1. IInv => NothingLeft
  <2> SUFFICES ASSUME IInv, Finished, NEW p \in Process, NEW q \in Process
               PROVE  channel[p][q] = <<>>
    BY DEF NothingLeft
  <2>1. pc[p] = "Done" /\ pc[Main] = "Done"
    BY Processes DEF Finished
  <2>2. CASE engine = "CPearl"
    BY <2>2 DEF IInv, InCPearl
  <2>3. CASE engine = "ParPearl"
    <3>1. InCollect
      BY <2>1, <2>3, InWhich
    <3> QED
      BY <2>1, <3>1 DEF InCollect, Given, Senders
  <2> QED
    BY <2>2, <2>3 DEF IInv, TypeOK
<1> QED
  BY <1>1, Invariance, PTL
=============================================================================
