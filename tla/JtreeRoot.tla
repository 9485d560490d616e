------------------------------- MODULE JtreeRoot -------------------------------
(***************************************************************************)
(* The order that a root gives to a junction tree: the collect sequence of *)
(* CJtreeInfEngine and the types of neighbours that CParJtreeInfEngine     *)
(* derives from it.                                                        *)
(***************************************************************************)
EXTENDS JunctionTree, Sequences, SequencesExt

(***************************************************************************)
(* RebuildTreeFromRoot: leaves first, then layer by layer every clique of  *)
(* which all neighbours but one are checked, the root last.  The layers    *)
(* joined are one queue: a clique is looked at in the order in which it    *)
(* was checked.  Of its neighbours, which were all checked but one when it *)
(* was, one can follow at most.                                            *)
(***************************************************************************)
IsLeaf(c, r) == Cardinality(Nbrs(c)) = 1 /\ c # r

\* mutant: the layers are not ordered by their distance from the leaves
MutRebuildUnordered(r) == SetToSortSeq(Clq \ {r}, >) \o <<r>>

Leaves(r) ==
  LET l[n \in 0 .. NumberOfClqs] ==
        IF n = 0 THEN <<>>
        ELSE IF IsLeaf(n - 1, r) THEN Append(l[n - 1], n - 1) ELSE l[n - 1]
  IN  l[NumberOfClqs]

Follow(c, r, checked) ==
  {m \in Nbrs(c) \ (checked \cup {r}) : Cardinality(Nbrs(m) \ checked) = 1}

\* the n-th clique of the queue s is looked at
LookAt(r, s, n) ==
  IF n > Len(s) \/ Follow(s[n], r, Range(s)) = {} THEN s
  ELSE Append(s, Min(Follow(s[n], r, Range(s))))

RebuildTreeFromRoot(r) ==
  LET checked[n \in 0 .. NumberOfClqs] ==
        IF n = 0 THEN Leaves(r) ELSE LookAt(r, checked[n - 1], n)
  IN  Append(checked[NumberOfClqs], r)

(***************************************************************************)
(* SetNbrsTypes and GetParents of CParJtreeInfEngine: the parent of a      *)
(* clique is its first neighbour that comes later in the collect sequence; *)
(* the root has none (-1).                                                 *)
(***************************************************************************)
NoClq == -1

NbrsTypes(sequence) ==
  LET Place(c) == CHOOSE n \in DOMAIN sequence : sequence[n] = c
      Later(c) == {d \in Nbrs(c) : Place(c) < Place(d)}
  IN  [c \in Clq |-> IF Later(c) = {} THEN NoClq ELSE Min(Later(c))]

\* InitNodeConditions: how many children a clique has still to deal with
NumOfChildren(c, r) == IF c = r THEN Cardinality(Nbrs(c)) ELSE Cardinality(Nbrs(c)) - 1

\* GetJTreeType: the distribution type of the first clique that is not a scalar
HiddenClq(e) == {c \in Clq : ~ NodeContent[c] \subseteq e}
JTreeType(e) ==
  IF HiddenClq(e) = {} THEN "dtScalar"
  ELSE IF IsDiscrete(Min(HiddenClq(e)), e) THEN "dtTabular" ELSE "dtGaussian"

===============================================================================
