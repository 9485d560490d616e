----------------------------------- MODULE Dbn -----------------------------------
(* Inference in a dynamic model slice by slice: C2TBNInfEngine and                *)
(* C1_5SliceJtreeInfEngine, with their rings of evidences, junction trees and      *)
(* potentials on the separators between slices.  What a junction tree has computed *)
(* is abstracted to its power: how often the distributions and the evidence of     *)
(* each slice are multiplied into it (Propagation has what a tree promises).       *)
EXTENDS Integers, Sequences

CONSTANTS
  MaxTime,   \* bound: number of slices of one procedure
  MaxLag     \* bound: lag of fixed-lag smoothing

ASSUME DbnAssumption == MaxTime \in Nat /\ MaxLag \in Nat

Slice == 0 .. MaxTime-1

None == <<>>   \* a NULL of a ring

VARIABLES
  procedure,   \* m_ProcedureType
  lag,         \* m_Lag
  time,        \* m_CurrentTime
  jt,          \* m_CRingJtreeInf
  sep,         \* m_CRingDistrOnSep
  ev,          \* m_CRingpEv
  jtIter,      \* m_JTreeInfIter
  sepIter,     \* m_DistrOnSepIter
  pc,          \* the next step of the call that is going on
  copy,        \* pCRingJtreeInfTmp: the tree that is put back after the next step
  saved,       \* m_CurrentTime and the iterators at the beginning of BackwardFixLag
  observed,    \* what the evidence says: whether the interface nodes of a slice are
               \* observed
  predicted    \* Prediction has been called

vars == <<procedure, lag, time, jt, sep, ev, jtIter, sepIter, pc, copy, saved,
          observed, predicted>>

iterators == <<time, jtIter, sepIter>>

\* CRing
Slot(ring, i) == (i % Len(ring)) + 1
At(ring, i) == ring[Slot(ring, i)]

Init ==
  /\ procedure = "None" /\ lag = 0 /\ time = 0
  /\ jt = <<>> /\ sep = <<>> /\ ev = <<>>
  /\ jtIter = 0 /\ sepIter = 0
  /\ pc = "Idle" /\ copy = None /\ saved = <<0, 0, 0>>
  /\ observed = <<>> /\ predicted = FALSE

Ring(n) == [i \in 1 .. n |-> None]

\* Everything of the last procedure is deleted.
DefineProcedure(type, l) ==
  /\ pc = "Idle"
  /\ procedure' = type /\ lag' = l /\ time' = 0
  /\ jt' = Ring(IF type = "ptSmoothing" THEN l ELSE l + 1)
  /\ sep' = Ring(l + 1)
  /\ ev' = <<>>
  /\ jtIter' = 0 /\ sepIter' = 0
  /\ observed' = <<>> /\ predicted' = FALSE
  /\ UNCHANGED <<pc, copy, saved>>

\* Slice of the next evidence
Entered == Len(observed)

\* Whether the caller has evidence to enter: online one slice at a time, for
\* smoothing those of all slices.
Due ==
  CASE procedure = "None"              -> FALSE
    [] procedure = "ptFiltering"       -> Entered = time /\ ~predicted
    [] procedure = "ptFixLagSmoothing" -> IF time = 0 THEN Entered <= lag ELSE Entered = time
    [] procedure = "ptSmoothing"       -> time = 0 /\ Entered < lag

\* Mutants: the nodes of the prior slice are taken for every second evidence of a
\* ring; the slot after that of the current time is replaced.
MutArrayOfNodes == IF Len(ev) = 1 THEN "IntNdsPriorSlice" ELSE "RootNdsISlice"

MutEvidenceSlot == Slot(ev, time + 1)

\* The interface nodes as they are numbered in the evidence of the last slice
ArrayOfNodes ==
  IF (Len(ev) = 1 /\ time \in {0, 1}) \/ (Len(ev) > 1 /\ time = 1)
  THEN "IntNdsPriorSlice" ELSE "RootNdsISlice"

EvidenceSlot == Slot(ev, time)

\* EnterEvidence, one slice of its loop: the evidence for the prior slice, or that
\* for a slice with the interface nodes of the last one.  BackwardFixLag reads the
\* type of potentials that are NULL where an interface is observed.
EnterEvidence(isObserved) ==
  /\ pc = "Idle" /\ Due /\ Entered < MaxTime
  /\ procedure = "ptFixLagSmoothing" /\ lag > 0 => ~isObserved
  /\ LET last == IF time = 0 THEN ev[Len(ev)] ELSE At(ev, time - 1)
         new == IF ev = <<>> THEN [slice |-> Entered, from |-> -1, at |-> "Prior"]
                ELSE [slice |-> Entered, from |-> last.slice, at |-> ArrayOfNodes]
     IN ev' = IF Len(ev) < Len(jt) THEN Append(ev, new) ELSE [ev EXCEPT ![EvidenceSlot] = new]
  /\ observed' = Append(observed, isObserved)
  /\ UNCHANGED <<procedure, lag, time, jt, sep, jtIter, sepIter, pc, copy, saved, predicted>>

-----------------------------------------------------------------------------
(* The steps: ForwardFirst, Forward, BackwardT, Backward.                       *)

Plus(f, g) == [s \in Slice |-> f[s] + g[s]]
Divide(f, g) == [s \in Slice |-> f[s] - g[s]]

\* A copy of the tree of the prior or of the 1.5-slice model with the evidence
\* of one slice; in place of the tree of an earlier slice, whose potentials are
\* deleted.
ShrinkObserved(old, evidence) ==
  [evidence |-> evidence, power |-> [s \in Slice |-> IF s = evidence.slice THEN 1 ELSE 0]]

Multiply(tree, pot) == IF pot = None THEN tree ELSE [tree EXCEPT !.power = Plus(@, pot)]

\* The potential on the interface nodes that are not observed
OnSep(tree, isObserved) == IF isObserved THEN None ELSE tree.power

IsObserved(slice) == observed[slice + 1]

NoEvidence == [slice |-> time, from |-> -1, at |-> "Empty"]

ForwardFirst ==
  /\ pc = "Forward" /\ time = 0
  /\ LET tree == ShrinkObserved(None, At(ev, 0)) IN
     /\ jt' = [jt EXCEPT ![Slot(jt, jtIter)] = tree]
     /\ sep' = [sep EXCEPT ![Slot(sep, sepIter)] = OnSep(tree, IsObserved(0))]
  /\ time' = 1
  /\ UNCHANGED <<jtIter, sepIter>>

ForwardWith(evidence) ==
  LET old == At(jt, jtIter + 1)
      tree == Multiply(ShrinkObserved(old, evidence), At(sep, sepIter))
  IN
  /\ jtIter' = (jtIter + 1) % Len(jt)
  /\ sepIter' = (sepIter + 1) % Len(sep)
  /\ jt' = [jt EXCEPT ![Slot(jt, jtIter + 1)] = tree]
  /\ sep' = [sep EXCEPT ![Slot(sep, sepIter + 1)] = OnSep(tree, evidence.at # "Empty" /\ IsObserved(time))]
  /\ time' = time + 1

Forward == pc = "Forward" /\ time > 0 /\ ForwardWith(At(ev, time))

ConnectedNodes(t) == IF t - 1 # 0 THEN "RootNdsISlice" ELSE "IntNdsPriorSlice"

\* The message back is multiplied into the tree of the slice before, at the
\* interface nodes as they are numbered there (anywhere else it is lost).
TreesAfterBackward ==
  LET last == At(jt, jtIter)
      tree == At(jt, jtIter - 1)
      pot == At(sep, sepIter - 1)
      message == IF pot = None THEN None ELSE Divide(last.power, pot)
      right == (ConnectedNodes(time - 1) = "IntNdsPriorSlice") <=> (tree.evidence.at = "Prior")
  IN [jt EXCEPT ![Slot(jt, jtIter - 1)] = IF right THEN Multiply(tree, message) ELSE tree]

Backward ==
  /\ jt' = TreesAfterBackward
  /\ time' = time - 1
  /\ jtIter' = (jtIter - 1) % Len(jt)
  /\ sepIter' = (sepIter - 1) % Len(sep)
  /\ UNCHANGED sep

-----------------------------------------------------------------------------
(* The procedures.  BackwardT, the distribution in the last tree, leaves its power *)
(* as it is.                                                                      *)

Still == UNCHANGED <<procedure, lag, ev, observed>>

\* Filtering, Smoothing (FindMPE), FixLagSmoothing are called when all evidence is
\* there.
Start ==
  /\ pc = "Idle" /\ procedure # "None" /\ ~predicted
  /\ Len(ev) = Len(jt) /\ Entered > time
  /\ procedure = "ptSmoothing" => time = 0
  /\ pc' = "Forward"
  /\ Still /\ UNCHANGED <<iterators, jt, sep, copy, saved, predicted>>

\* One forward step of the procedure; after the last one the backward steps begin.
ForwardStep ==
  /\ ForwardFirst \/ Forward
  /\ IF time' < Entered THEN pc' = "Forward" /\ UNCHANGED <<copy, saved>>
     ELSE CASE procedure = "ptFixLagSmoothing" /\ lag > 0 ->
                 /\ pc' = "BackwardFixLag"
                 /\ copy' = At(jt', jtIter')
                 /\ saved' = <<time', jtIter', sepIter'>>
            [] procedure = "ptSmoothing" /\ lag > 1 -> pc' = "Backward" /\ UNCHANGED <<copy, saved>>
            [] OTHER -> pc' = "Idle" /\ UNCHANGED <<copy, saved>>
  /\ Still /\ UNCHANGED predicted

SmoothingStep ==
  /\ pc = "Backward"
  /\ Backward
  /\ pc' = IF time' = 1 THEN "Idle" ELSE "Backward"
  /\ Still /\ UNCHANGED <<copy, saved, predicted>>

\* Mutant: the tree of the step is left as the backward step finds it.
MutPutBack(trees) == trees

\* The tree of the step is deleted; its copy of before the procedure takes its place.
PutBack(trees) == [trees EXCEPT ![Slot(jt, jtIter)] = copy]

\* One step of the loop of BackwardFixLag: the tree before is copied, and the last
\* one is put back after the step.
FixLagStep ==
  /\ pc = "BackwardFixLag"
  /\ jt' = PutBack(TreesAfterBackward)
  /\ LET last == saved[1] - (time - 1) = lag IN
     /\ pc' = IF last THEN "Idle" ELSE "BackwardFixLag"
     /\ copy' = IF last THEN None ELSE At(jt, jtIter - 1)
     /\ time' = IF last THEN saved[1] ELSE time - 1
     /\ jtIter' = IF last THEN saved[2] ELSE (jtIter - 1) % Len(jt)
     /\ sepIter' = IF last THEN saved[3] ELSE (sepIter - 1) % Len(sep)
     /\ saved' = IF last THEN <<0, 0, 0>> ELSE saved
  /\ Still /\ UNCHANGED <<sep, predicted>>

\* Prediction by one slice, after filtering: a step forward with an evidence that
\* is deleted at once.
Prediction ==
  /\ pc = "Idle" /\ procedure = "ptFiltering"
  /\ time > 0 /\ (predicted \/ Entered = time) /\ time < MaxTime
  /\ ForwardWith(NoEvidence)
  /\ observed' = Append(observed, FALSE)
  /\ predicted' = TRUE
  /\ UNCHANGED <<procedure, lag, ev, pc, copy, saved>>

Next ==
  \/ DefineProcedure("ptFiltering", 0)
  \/ \E l \in 0 .. MaxLag : DefineProcedure("ptFixLagSmoothing", l)
  \/ \E l \in 1 .. MaxTime : DefineProcedure("ptSmoothing", l)
  \/ \E o \in BOOLEAN : EnterEvidence(o)
  \/ Start \/ ForwardStep \/ SmoothingStep \/ FixLagStep
  \/ Prediction

Spec == Init /\ [][Next]_vars
-----------------------------------------------------------------------------
(* Properties.                                                                *)

\* What MarginalNodes accepts once a step forward has been made: slot and slice of
\* the tree that it takes.  For smoothing PNL_CHECK_RANGES lets m_Lag itself pass,
\* although there are only m_Lag slices.
QuerySlots ==
  IF pc # "Idle" \/ time = 0 THEN {} ELSE
  CASE procedure = "ptFiltering"       -> {<<0, time - 1>>}
    [] procedure = "ptFixLagSmoothing" -> {<<time - lag - 1, time - lag - 1>>}
    [] procedure = "ptSmoothing"       -> {<<s, s>> : s \in 0 .. lag}

LastSlice == IF procedure = "ptSmoothing" THEN lag - 1 ELSE time - 1

\* The queries for slices that the procedure has: not the one for slice m_Lag, which
\* the ring answers from slice 0.
SliceQueries == {q \in QuerySlots : q[2] <= LastSlice}

\* The slices of the procedure that no observed interface separates from a slice
Related(s) ==
  {r \in 0 .. LastSlice :
     \A k \in 0 .. LastSlice : (r <= k /\ k < s) \/ (s <= k /\ k < r) => ~IsObserved(k)}

\* Every marginal of a slice that the procedure has is computed from the distributions
\* and the evidence of each slice that bears on it, those after it included, and each
\* of them goes in once: the backward steps of the last call, and of the calls before,
\* leave nothing in the trees that the next one uses.  (Forward, Backward,
\* BackwardFixLag)
SmoothedExact ==
  \A q \in SliceQueries :
    At(jt, q[1]).power = [s \in Slice |-> IF s \in Related(q[2]) THEN 1 ELSE 0]

\* The tree that is asked for a slice of the procedure has the evidence of that slice,
\* and the values of the interface come from the slice before, where they are found
\* under the numbers that they have in that slice.  (EnterEvidence; Prediction enters
\* no values for the interface, even where they are known.)
EvidenceExact ==
  \A q \in SliceQueries :
    LET e == At(jt, q[1]).evidence IN
    /\ e.slice = q[2]
    /\ e.at # "Empty" /\ e.slice > 0 =>
         /\ e.from = e.slice - 1
         /\ e.at = IF e.from = 0 THEN "IntNdsPriorSlice" ELSE "RootNdsISlice"

\* Until the evidence of the next slice is entered, the tree that is asked does not
\* refer to an evidence that is deleted; nor do the trees whose evidence a backward
\* step reads.  (EnterEvidence, CJtreeInfEngine::m_pEvidence)
EvidenceAlive ==
  /\ Entered = time =>
       \A q \in QuerySlots :
         \/ predicted
         \/ \E i \in 1 .. Len(ev) : ev[i] = At(jt, q[1]).evidence
  /\ pc \in {"Backward", "BackwardFixLag"} =>
       \E i \in 1 .. Len(ev) : ev[i] = At(jt, jtIter).evidence
=============================================================================
