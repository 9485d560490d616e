----------------------------- MODULE ModelDomain -----------------------------
(* Who owns a factor and who deletes it: CModelDomain (sequential build),    *)
(* CReferenceCounter, the constructors and destructors of CFactor, CFactors, *)
(* CStaticGraphicalModel and CFactorGraph.                                   *)
(*                                                                           *)
(* A factor is an address: after its deletion the address is free for        *)
(* another factor.  One thread calls the library, so every loop over factors *)
(* (copying a set, a destructor) is a sequence of steps of pc, and the calls *)
(* of the API are enabled when pc is Idle.  Cells of the heap are numbered   *)
(* from 1.  The client keeps to what the API expects: it attaches a factor   *)
(* to one model, deletes or moves only factors that no model holds, and      *)
(* gives every constructor arguments that it accepts.                        *)
EXTENDS Integers, Sequences, FiniteSets

CONSTANTS Domain, Model, Factor,
          NULL,            \* the null pointer
          Capacity         \* m_capacity of a CFactors

ASSUME DomainAssumption ==
  /\ NULL \notin Domain \cup Model \cup Factor
  /\ Capacity \in Nat
  /\ IsFiniteSet(Model)

VARIABLES
  domains,   \* model domains that exist
  heap,      \* m_factorsHeap
  freeNums,  \* m_freeNumsInHeap, a queue
  refs,      \* m_refCounter
  self,      \* m_bSelfCreated
  alive,     \* factors that exist
  md, num,   \* m_pMD and m_factNumInHeap of a factor
  modelMD,   \* m_pMD of a model, NULL when there is no such model
  facts,     \* m_pParams of a model
  pc         \* what the library is doing

heapVars   == <<heap, freeNums>>
domainVars == <<domains, refs, self>>
factorVars == <<alive, md, num>>
modelVars  == <<modelMD, facts>>
vars == <<heapVars, domainVars, factorVars, modelVars, pc>>

Idle == [at |-> "Idle"]

Models(d) == {m \in Model : modelMD[m] = d}

\* A factor that some model will delete.
Held(f) == \E m \in Model : \E i \in DOMAIN facts[m] : facts[m][i] = f

-----------------------------------------------------------------------------
(* The heap.                                                                 *)

\* The cell that AttachFactor takes.
NextNum(d) == IF freeNums[d] = <<>> THEN Len(heap[d]) + 1 ELSE Head(freeNums[d])

\* Mutant: the number stays in the queue.
MutAttachKeepsNumber(d, f) ==
  /\ heap' = [heap EXCEPT ![d] = IF NextNum(d) \in DOMAIN @ THEN [@ EXCEPT ![NextNum(d)] = f]
                                 ELSE Append(@, f)]
  /\ num' = [num EXCEPT ![f] = NextNum(d)]
  /\ UNCHANGED freeNums

AttachFactor(d, f) ==
  /\ IF freeNums[d] = <<>>
     THEN /\ heap' = [heap EXCEPT ![d] = Append(@, f)]
          /\ UNCHANGED freeNums
     ELSE /\ heap' = [heap EXCEPT ![d][Head(freeNums[d])] = f]
          /\ freeNums' = [freeNums EXCEPT ![d] = Tail(@)]
  /\ num' = [num EXCEPT ![f] = NextNum(d)]

ReleaseFactor(f) ==
  /\ heap' = [heap EXCEPT ![md[f]][num[f]] = NULL]
  /\ freeNums' = [freeNums EXCEPT ![md[f]] = Append(@, num[f])]

\* Mutant: the pointer is not compared.
MutIsAFactorOwner(d, f) == num[f] \in DOMAIN heap[d] /\ heap[d][num[f]] # NULL

IsAFactorOwner(d, f) == num[f] \in DOMAIN heap[d] /\ heap[d][num[f]] = f

\* new CFactor(..., d) that does not throw, at an address that is free.
NewFactor(d, f) ==
  /\ f \notin alive
  /\ alive' = alive \cup {f}
  /\ md' = [md EXCEPT ![f] = d]
  /\ AttachFactor(d, f)

\* ~CFactor
DestroyFactor(f) ==
  /\ IF IsAFactorOwner(md[f], f) THEN ReleaseFactor(f) ELSE UNCHANGED heapVars
  /\ alive' = alive \ {f}
  /\ md' = [md EXCEPT ![f] = NULL]
  /\ num' = [num EXCEPT ![f] = 0]

-----------------------------------------------------------------------------
Init ==
  /\ domains = {}
  /\ heap = [d \in Domain |-> <<>>]
  /\ freeNums = [d \in Domain |-> <<>>]
  /\ refs = [d \in Domain |-> 0]
  /\ self = [d \in Domain |-> FALSE]
  /\ alive = {}
  /\ md = [f \in Factor |-> NULL]
  /\ num = [f \in Factor |-> 0]
  /\ modelMD = [m \in Model |-> NULL]
  /\ facts = [m \in Model |-> <<>>]
  /\ pc = Idle

(* Model domains and models.                                                 *)

\* CModelDomain::Create called by the client.
CreateModelDomain(d) ==
  /\ pc = Idle
  /\ d \notin domains
  /\ domains' = domains \cup {d}
  /\ refs' = [refs EXCEPT ![d] = 1]
  /\ self' = [self EXCEPT ![d] = TRUE]
  /\ UNCHANGED <<heapVars, factorVars, modelVars, pc>>

\* A model that is given node types makes its own domain.
CreateModelAndDomain(m, d) ==
  /\ pc = Idle
  /\ modelMD[m] = NULL
  /\ d \notin domains
  /\ domains' = domains \cup {d}
  /\ refs' = [refs EXCEPT ![d] = 1]
  /\ self' = [self EXCEPT ![d] = FALSE]
  /\ modelMD' = [modelMD EXCEPT ![m] = d]
  /\ UNCHANGED <<heapVars, factorVars, facts, pc>>

\* Mutant: no AddRef.
MutNoAddRef(m, d) ==
  /\ modelMD[m] = NULL
  /\ modelMD' = [modelMD EXCEPT ![m] = d]
  /\ UNCHANGED <<domainVars, facts>>

\* CGraphicalModel(pMD)
NewModel(m, d) ==
  /\ modelMD[m] = NULL
  /\ modelMD' = [modelMD EXCEPT ![m] = d]
  /\ refs' = [refs EXCEPT ![d] = @ + 1]
  /\ UNCHANGED <<domains, self, facts>>

CreateModel(m, d) ==
  /\ pc = Idle
  /\ d \in domains
  /\ NewModel(m, d)
  /\ UNCHANGED <<heapVars, factorVars, pc>>

(* Factors.                                                                  *)

CreateFactor(d, f) ==
  /\ pc = Idle
  /\ d \in domains
  /\ NewFactor(d, f)
  /\ UNCHANGED <<domainVars, modelVars, pc>>

DeleteFactor(f) ==
  /\ pc = Idle
  /\ f \in alive
  /\ ~Held(f)
  /\ DestroyFactor(f)
  /\ UNCHANGED <<domainVars, modelVars, pc>>

SetModelDomain(f, d) ==
  /\ pc = Idle
  /\ f \in alive
  /\ ~Held(f)
  /\ d \in domains \ {md[f]}
  /\ heap' = [heap EXCEPT ![md[f]][num[f]] = NULL,
                          ![d] = IF freeNums[d] = <<>> THEN Append(@, f)
                                 ELSE [@ EXCEPT ![Head(freeNums[d])] = f]]
  /\ freeNums' = [freeNums EXCEPT ![md[f]] = Append(@, num[f]),
                                  ![d] = IF @ = <<>> THEN @ ELSE Tail(@)]
  /\ md' = [md EXCEPT ![f] = d]
  /\ num' = [num EXCEPT ![f] = NextNum(d)]
  /\ UNCHANGED <<alive, domainVars, modelVars, pc>>

(* Factors of a model.                                                       *)

\* CFactors::AddFactor for a set with room
AddFactor(m, f) ==
  /\ facts' = [facts EXCEPT ![m] = Append(@, f)]
  /\ IF IsAFactorOwner(md[f], f) THEN ReleaseFactor(f) ELSE UNCHANGED heapVars

\* AttachFactor of a model; a full set throws and changes nothing.
AttachToModel(m, f) ==
  /\ pc = Idle
  /\ f \in alive
  /\ ~Held(f)
  /\ md[f] = modelMD[m]
  /\ Len(facts[m]) < Capacity
  /\ AddFactor(m, f)
  /\ UNCHANGED <<domainVars, factorVars, modelMD, pc>>

\* _AllocFactor creates a factor, then adds it: AddFactor takes the cell back
\* at once, or throws when the set is full and leaves the factor to the domain.
AllocFactor(m, f) ==
  /\ pc = Idle
  /\ modelMD[m] # NULL
  /\ NewFactor(modelMD[m], f)
  /\ pc' = [at |-> "AddFactor", model |-> m, factor |-> f]
  /\ UNCHANGED <<domainVars, modelVars>>

FinishAlloc ==
  /\ pc.at = "AddFactor"
  /\ IF Len(facts[pc.model]) < Capacity
     THEN AddFactor(pc.model, pc.factor)
     ELSE UNCHANGED <<heapVars, facts>>
  /\ pc' = Idle
  /\ UNCHANGED <<domainVars, factorVars, modelMD>>

\* CBNet::Copy, CFactorGraph::Copy (release is FALSE): CFactors::Copy leaves the
\* copies in the heap.  CFactorGraph::Create takes them out afterwards.
CopyModel(m, from, release) ==
  /\ pc = Idle
  /\ modelMD[from] # NULL
  /\ Len(facts[from]) <= Cardinality(Factor \ alive)   \* bound: addresses suffice
  /\ NewModel(m, modelMD[from])
  /\ pc' = [at |-> "Copy", model |-> m, from |-> from, release |-> release]
  /\ UNCHANGED <<heapVars, factorVars>>

CopyFactor(f) ==
  /\ pc.at = "Copy"
  /\ Len(facts[pc.model]) < Len(facts[pc.from])
  /\ NewFactor(md[facts[pc.from][Len(facts[pc.model]) + 1]], f)
  /\ facts' = [facts EXCEPT ![pc.model] = Append(@, f)]
  /\ UNCHANGED <<domainVars, modelMD, pc>>

FinishCopy ==
  /\ pc.at = "Copy"
  /\ Len(facts[pc.model]) = Len(facts[pc.from])
  /\ pc' = IF pc.release THEN [at |-> "ChangeOwner", model |-> pc.model, next |-> 1] ELSE Idle
  /\ UNCHANGED <<heapVars, domainVars, factorVars, modelVars>>

ChangeOwnerToGraphicalModel ==
  /\ pc.at = "ChangeOwner"
  /\ pc.next <= Len(facts[pc.model])
  /\ ReleaseFactor(facts[pc.model][pc.next])
  /\ pc' = [pc EXCEPT !.next = @ + 1]
  /\ UNCHANGED <<domainVars, factorVars, modelVars>>

FinishChangeOwner ==
  /\ pc.at = "ChangeOwner"
  /\ pc.next > Len(facts[pc.model])
  /\ pc' = Idle
  /\ UNCHANGED <<heapVars, domainVars, factorVars, modelVars>>

(* Destructors.                                                              *)

DeleteModel(m) ==
  /\ pc = Idle
  /\ modelMD[m] # NULL
  /\ pc' = [at |-> "~CFactors", model |-> m, next |-> 1]
  /\ UNCHANGED <<heapVars, domainVars, factorVars, modelVars>>

\* One round of the loop of ~CFactors.
DeleteNext ==
  /\ pc.at = "~CFactors"
  /\ pc.next <= Len(facts[pc.model])
  /\ DestroyFactor(facts[pc.model][pc.next])
  /\ pc' = [pc EXCEPT !.next = @ + 1]
  /\ UNCHANGED <<domainVars, modelVars>>

\* ~CGraphicalModel: Release(this), which deletes the domain at count 0.
ReleaseDomain ==
  /\ pc.at = "~CFactors"
  /\ pc.next > Len(facts[pc.model])
  /\ LET d == modelMD[pc.model] IN
     /\ refs' = [refs EXCEPT ![d] = @ - 1]
     /\ pc' = IF refs[d] = 1 THEN [at |-> "~CModelDomain", domain |-> d, next |-> 1] ELSE Idle
  /\ modelMD' = [modelMD EXCEPT ![pc.model] = NULL]
  /\ facts' = [facts EXCEPT ![pc.model] = <<>>]
  /\ UNCHANGED <<heapVars, domains, self, factorVars>>

\* The client deletes a domain it created, after the models on it; ~CModelDomain
\* throws when there are more references.
DeleteModelDomain(d) ==
  /\ pc = Idle
  /\ d \in domains
  /\ refs[d] = 1 /\ self[d]
  /\ pc' = [at |-> "~CModelDomain", domain |-> d, next |-> 1]
  /\ UNCHANGED <<heapVars, domainVars, factorVars, modelVars>>

\* One round of the loop of ~CModelDomain: delete of a null pointer does nothing.
DeleteCell ==
  /\ pc.at = "~CModelDomain"
  /\ pc.next <= Len(heap[pc.domain])
  /\ LET f == heap[pc.domain][pc.next] IN
     IF f = NULL THEN UNCHANGED <<heapVars, factorVars>> ELSE DestroyFactor(f)
  /\ pc' = [pc EXCEPT !.next = @ + 1]
  /\ UNCHANGED <<domainVars, modelVars>>

FinishDomain ==
  /\ pc.at = "~CModelDomain"
  /\ pc.next > Len(heap[pc.domain])
  /\ domains' = domains \ {pc.domain}
  /\ refs' = [refs EXCEPT ![pc.domain] = 0]
  /\ heap' = [heap EXCEPT ![pc.domain] = <<>>]
  /\ freeNums' = [freeNums EXCEPT ![pc.domain] = <<>>]
  /\ pc' = Idle
  /\ UNCHANGED <<self, factorVars, modelVars>>

Next ==
  \/ \E d \in Domain : CreateModelDomain(d) \/ DeleteModelDomain(d)
  \/ \E m \in Model, d \in Domain : CreateModelAndDomain(m, d) \/ CreateModel(m, d)
  \/ \E d \in Domain, f \in Factor :
       \/ CreateFactor(d, f)
       \/ SetModelDomain(f, d)
  \/ \E f \in Factor : DeleteFactor(f) \/ CopyFactor(f)
  \/ \E m \in Model, f \in Factor : AttachToModel(m, f) \/ AllocFactor(m, f)
  \/ \E m, from \in Model, release \in BOOLEAN : CopyModel(m, from, release)
  \/ \E m \in Model : DeleteModel(m)
  \/ FinishAlloc \/ FinishCopy \/ ChangeOwnerToGraphicalModel \/ FinishChangeOwner
  \/ DeleteNext \/ ReleaseDomain \/ DeleteCell \/ FinishDomain

Spec == Init /\ [][Next]_vars
-----------------------------------------------------------------------------
(* Properties.                                                               *)

\* The values of the variables.
PCs == {Idle}
  \cup [at : {"AddFactor"}, model : Model, factor : Factor]
  \cup [at : {"Copy"}, model : Model, from : Model, release : BOOLEAN]
  \cup [at : {"ChangeOwner", "~CFactors"}, model : Model, next : Nat \ {0}]
  \cup [at : {"~CModelDomain"}, domain : Domain, next : Nat \ {0}]

TypeOK ==
  /\ domains \subseteq Domain
  /\ heap \in [Domain -> Seq(Factor \cup {NULL})]
  /\ freeNums \in [Domain -> Seq(Nat)]
  /\ refs \in [Domain -> Nat]
  /\ self \in [Domain -> BOOLEAN]
  /\ alive \subseteq Factor
  /\ md \in [Factor -> Domain \cup {NULL}]
  /\ num \in [Factor -> Nat]
  /\ modelMD \in [Model -> Domain \cup {NULL}]
  /\ facts \in [Model -> Seq(Factor)]
  /\ pc \in PCs

\* A cell of m_factorsHeap that is in use holds a factor that exists and knows
\* its cell, so that IsAFactorOwner is exact and AttachFactor never overwrites
\* a pointer; a free number is queued once.  (AttachFactor, ReleaseFactor)
HeapSound ==
  \A d \in Domain :
    /\ \A i \in DOMAIN heap[d] : heap[d][i] # NULL =>
         heap[d][i] \in alive /\ md[heap[d][i]] = d /\ num[heap[d][i]] = i
    /\ \A j \in DOMAIN freeNums[d] :
         freeNums[d][j] \in DOMAIN heap[d] /\ heap[d][freeNums[d][j]] = NULL
    /\ \A j, k \in DOMAIN freeNums[d] : freeNums[d][j] = freeNums[d][k] => j = k

\* The factors of a model that its destructor has still to delete.
ToDelete(m) ==
  {i \in DOMAIN facts[m] : pc.at = "~CFactors" /\ pc.model = m => i >= pc.next}

\* Whatever a model still has to delete exists and is on the model's domain, no
\* factor is on two lists, and a factor that is on no list is in the heap of its
\* domain: nothing is deleted twice and nothing is left over.
DeletedOnce ==
  /\ \A m \in Model : \A i \in ToDelete(m) :
       facts[m][i] \in alive /\ md[facts[m][i]] = modelMD[m]
  /\ \A m, n \in Model : \A i \in DOMAIN facts[m], j \in DOMAIN facts[n] :
       facts[m][i] = facts[n][j] => m = n /\ i = j
  /\ \A f \in alive : Held(f) \/ IsAFactorOwner(md[f], f)

\* A domain lives as long as a model or a factor uses it, because m_refCounter
\* counts the models and the client.  (AddRef, Release, ~CModelDomain)
DomainOutlivesModels ==
  /\ \A m \in Model : modelMD[m] # NULL => modelMD[m] \in domains
  /\ \A f \in alive : md[f] \in domains
  /\ \A d \in domains :
       refs[d] = Cardinality(Models(d)) + (IF self[d] THEN 1 ELSE 0)
=============================================================================
