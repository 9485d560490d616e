------------------------------ MODULE Propagation ------------------------------
(***************************************************************************)
(* Evidence propagation in a junction tree, whatever the schedule: the     *)
(* specification that the sequential engine, the OpenMP engine and the MPI *)
(* engine are shown to implement.                                          *)
(*                                                                         *)
(* A message travels along each link of the tree once in each direction.   *)
(* PropagateBetweenClqs marginalises the potential of the source clique to *)
(* the separator, divides by what the separator held, multiplies the ratio *)
(* into the sink and leaves either the marginal (general path) or the      *)
(* ratio (dense path, DoPropagate) in the separator.  A clique may send    *)
(* along a link as soon as it has heard from all its other neighbours.     *)
(*                                                                         *)
(* Potentials are powers of factors, as in module JunctionTree.            *)
(***************************************************************************)
EXTENDS Integers

CONSTANTS
  Clq,      \* cliques
  Link,     \* links of the tree, as sets of two cliques
  Factor,   \* factors of the model
  Home,     \* the clique each factor is multiplied into
  Behind(_, _, _) \* Behind(m, i, j): the cliques whose charge a message from i to j
                  \* carries when the links in m have scalar separators

Arc == {a \in Clq \X Clq : a[1] # a[2] /\ {a[1], a[2]} \in Link}

Nbrs(c) == {d \in Clq : <<c, d>> \in Arc}

\* what lies behind the links between clique c and its neighbours in N
Around(m, c, N) == UNION {Behind(m, k, c) : k \in N}

ASSUME TreeAssumption ==
  /\ Home \in [Factor -> Clq]
  /\ \A m \in SUBSET Link : \A i \in Clq : \A j \in Nbrs(i) :
       Behind(m, i, j) =
         IF {i, j} \in m THEN {}
         ELSE {i} \cup Around(m, i, Nbrs(i) \ {j})
  /\ \A m \in SUBSET Link : \A i \in Clq : \A k \in Nbrs(i) :
       /\ i \notin Behind(m, k, i)
       /\ \A n \in Nbrs(i) \ {k} : Behind(m, k, i) \cap Behind(m, n, i) = {}

VARIABLES
  live,     \* the factors that are not observed as a whole
  mute,     \* the links whose separator is a scalar: nothing passes them
  clq,      \* m_nodePots
  sep,      \* m_separatorPots
  got       \* arcs along which PropagateBetweenClqs has been called
            \* since the last ShrinkObserved

vars == <<live, mute, clq, sep, got>>

Potential == [Factor -> Int]
Unit == [f \in Factor |-> 0]
Times(p, q) == [f \in Factor |-> p[f] + q[f]]
Over(p, q) == [f \in Factor |-> p[f] - q[f]]

\* the product of the live factors that live in the cliques of C, each once
Charge(C) == [f \in Factor |-> IF f \in live /\ Home[f] \in C THEN 1 ELSE 0]

Init ==
  /\ live = {}
  /\ mute \in SUBSET Link
  /\ clq = [c \in Clq |-> Unit]
  /\ sep = [l \in Link |-> Unit]
  /\ got = {}

\* ClearCharge and InitCharge for some evidence
ShrinkObserved ==
  /\ live' \in SUBSET Factor
  /\ mute' \in SUBSET Link
  /\ clq' = [c \in Clq |-> [f \in Factor |-> IF f \in live' /\ Home[f] = c THEN 1 ELSE 0]]
  /\ sep' = [l \in Link |-> Unit]
  /\ got' = {}

\* mutant: a clique sends before it has heard from its other neighbours
MutSendEarly(i, j) == <<i, j>> \in Arc \ got

CanSend(i, j) ==
  /\ <<i, j>> \in Arc \ got
  /\ \A k \in Nbrs(i) \ {j} : <<k, i>> \in got

\* mutant: the message that went up is not divided out of the one that goes down
MutNoDivision(i, j) ==
  /\ CanSend(i, j)
  /\ {i, j} \notin mute
  /\ got' = got \cup {<<i, j>>}
  /\ clq' = [clq EXCEPT ![j] = Times(clq[j], clq[i])]
  /\ sep' = [sep EXCEPT ![{i, j}] = clq[i]]
  /\ UNCHANGED <<live, mute>>

\* mutant: the sink gets what the separator held instead of the ratio
MutOldSeparator(i, j) ==
  /\ CanSend(i, j)
  /\ {i, j} \notin mute
  /\ got' = got \cup {<<i, j>>}
  /\ clq' = [clq EXCEPT ![j] = Times(clq[j], sep[{i, j}])]
  /\ sep' = [sep EXCEPT ![{i, j}] = clq[i]]
  /\ UNCHANGED <<live, mute>>

\* a message through a scalar separator changes nothing but the scale
PropagateScalar(i, j) ==
  /\ CanSend(i, j)
  /\ {i, j} \in mute
  /\ got' = got \cup {<<i, j>>}
  /\ UNCHANGED <<live, mute, clq, sep>>

PropagateBetweenClqs(i, j) ==
  /\ CanSend(i, j)
  /\ {i, j} \notin mute
  /\ got' = got \cup {<<i, j>>}
  /\ LET ratio == Over(clq[i], sep[{i, j}])
     IN  /\ clq' = [clq EXCEPT ![j] = Times(clq[j], ratio)]
         /\ \E s \in {clq[i], ratio} : sep' = [sep EXCEPT ![{i, j}] = s]
  /\ UNCHANGED <<live, mute>>

Next ==
  \/ ShrinkObserved
  \/ \E i \in Clq, j \in Clq : PropagateScalar(i, j) \/ PropagateBetweenClqs(i, j)

Spec == Init /\ [][Next]_vars

-------------------------------------------------------------------------------
TypeOK ==
  /\ live \subseteq Factor
  /\ mute \subseteq Link
  /\ clq \in [Clq -> Potential]
  /\ sep \in [Link -> Potential]
  /\ got \subseteq Arc

Received(c) ==
  {c} \cup Around(mute, c, {d \in Nbrs(c) : <<d, c>> \in got})

(***************************************************************************)
(* Whatever the order in which the messages travel, the potential of a     *)
(* clique is at any moment the product of its own factors and of those     *)
(* behind the links it has heard from, each with power one: no factor is   *)
(* counted twice when the message that comes back down a link is divided   *)
(* by the one that went up (PropagateBetweenClqs).                         *)
(***************************************************************************)
AccountedOnce == \A c \in Clq : clq[c] = Charge(Received(c))

(***************************************************************************)
(* When all messages have been sent, two cliques joined by a separator     *)
(* that is not a scalar hold the product of the same factors: their        *)
(* marginals on the separator agree, so that MarginalNodes may answer a    *)
(* query from whichever clique contains it.                                *)
(***************************************************************************)
Calibrated ==
  got = Arc =>
    \A i \in Clq : \A j \in Nbrs(i) : {i, j} \notin mute => clq[i] = clq[j]

-------------------------------------------------------------------------------
\* Between the two messages of a link its separator holds the first one.
SeparatorHoldsMessage ==
  \A i \in Clq : \A j \in Nbrs(i) :
    <<j, i>> \notin got =>
      sep[{i, j}] = IF <<i, j>> \in got THEN Charge(Behind(mute, i, j)) ELSE Unit

\* A clique that has sent a message has heard from all its other neighbours.
SentInOrder ==
  \A i \in Clq : \A j \in Nbrs(i) :
    <<i, j>> \in got => \A k \in Nbrs(i) \ {j} : <<k, i>> \in got

IInv == TypeOK /\ SentInOrder /\ SeparatorHoldsMessage /\ AccountedOnce

===============================================================================
