---------------------------------- MODULE Pearl ----------------------------------
(* Two engines that exchange Pearl's messages between all nodes at once, until    *)
(* the beliefs no longer change: CPearlInfEngine, and CParPearlInfEngine with MPI, *)
(* which divides the nodes between processes.  (Its OpenMP loop is that of one     *)
(* process: the threads write messages and products of different nodes.)           *)
EXTENDS PearlMessages, Sequences, FiniteSetsExt

CONSTANTS
  NP,         \* number of MPI processes; CPearlInfEngine is process 0
  Problems    \* a set of records: model, observed, telling

ASSUME PearlAssumption ==
  /\ NP \in Nat \ {0}
  /\ \A p \in Problems : p.model.links \subseteq Node \X Node

Process == 0 .. NP-1
Main == 0    \* m_CollectRanks

VARIABLES
  problem,    \* the model and the evidence
  engine,     \* "CPearl" or "ParPearl"
  owner,      \* m_NodeProcesses
  pc,         \* where each process is
  msgs,       \* messages that a process reads: GetCurMsgsFromNeighbors
  newMsgs,    \* and writes: GetNewMsgsFromNeighbors
  beliefs,
  changed,    \* an unobserved node of the process changed its belief
  iter,
  toSend,     \* the processes that it has still to send to
  toReceive,  \* how many bundles of messages it has still to receive
  channel     \* channel[p][q]: what p sent to q; MPI holds the bundle for q

vars == <<problem, engine, owner, pc, msgs, newMsgs, beliefs, changed, iter,
          toSend, toReceive, channel>>

MaxNumberOfIterations == N

Dirs == Directions(problem.model)
NodesOf(p) == {n \in Node : owner[n] = p}
Hidden == Node \ problem.observed

\* SetFarNeighbors: the messages from nodes of p to nodes of q, and the partners
\* of p.
FarMessages(p, q) == {d \in Dirs : owner[d[1]] = p /\ owner[d[2]] = q}
Partners(p) == {q \in Process \ {p} : FarMessages(p, q) # {}}

\* GetUnusedNodesInSubTree: every process has nodes that hang together, so that no
\* part of them but the whole has all its neighbors among them.
HangTogether(m, S) ==
  \A C \in SUBSET S :
    C # {} /\ (\A n \in C : NeighborsOf(m, n) \cap S \subseteq C) => C = S

Divisions(m) ==
  {f \in [Node -> Process] :
     \A p \in Process :
       LET S == {n \in Node : f[n] = p} IN S # {} /\ HangTogether(m, S)}

Init ==
  /\ problem \in Problems
  /\ \/ engine = "CPearl" /\ owner = [n \in Node |-> 0]
     \/ engine = "ParPearl" /\ owner \in Divisions(problem.model)
  /\ pc = [p \in Process |-> IF engine = "CPearl" /\ p # 0 THEN "Done" ELSE "Compute"]
  /\ msgs = [p \in Process |-> Uniform(problem.model)]
  /\ newMsgs = msgs
  /\ beliefs = [p \in Process |-> FirstBeliefs(problem)]
  /\ changed = [p \in Process |-> FALSE]
  /\ iter = [p \in Process |-> 0]
  /\ toSend = [p \in Process |-> {}]
  /\ toReceive = [p \in Process |-> 0]
  /\ channel = [p \in Process |-> [q \in Process |-> <<>>]]

Overwrite(in, new) == [d \in DOMAIN in |-> IF d \in DOMAIN new THEN new[d] ELSE in[d]]

BeliefsWith(in, S) ==
  [n \in Node |-> IF n \in S \ problem.observed THEN ComputeBelief(problem, in, n) ELSE beliefs[0][n]]

-----------------------------------------------------------------------------
(* CPearlInfEngine::ParallelProtocol: the messages of a round are delivered at the *)
(* beginning of the next one, those of the last round after the loop.              *)

\* One round of the loop but for its first half in round 0.
CPearlRound ==
  /\ engine = "CPearl" /\ pc[0] = "Compute"
  /\ LET in == IF iter[0] = 0 THEN msgs[0] ELSE newMsgs[0]
         after == IF iter[0] = 0 THEN beliefs[0] ELSE BeliefsWith(in, Node)
         converged == iter[0] > 0 /\ after = beliefs[0]
     IN
     /\ msgs' = [msgs EXCEPT ![0] = in]
     /\ beliefs' = [beliefs EXCEPT ![0] = after]
     /\ newMsgs' = [newMsgs EXCEPT ![0] = MessagesOf(problem, in, Node)]
     /\ iter' = [iter EXCEPT ![0] = @ + 1]
     /\ pc' = [pc EXCEPT ![0] =
                 IF converged \/ iter[0] + 1 >= MaxNumberOfIterations THEN "Deliver" ELSE "Compute"]
  /\ UNCHANGED <<problem, engine, owner, changed, toSend, toReceive, channel>>

\* What follows the loop
CPearlDeliver ==
  /\ engine = "CPearl" /\ pc[0] = "Deliver"
  /\ msgs' = [msgs EXCEPT ![0] = newMsgs[0]]
  /\ beliefs' = [beliefs EXCEPT ![0] = BeliefsWith(newMsgs[0], Node)]
  /\ pc' = [pc EXCEPT ![0] = "Done"]
  /\ UNCHANGED <<problem, engine, owner, newMsgs, changed, iter, toSend, toReceive, channel>>

-----------------------------------------------------------------------------
(* CParPearlInfEngine::ParallelProtocol.                                          *)

\* All messages of the nodes of p, and GoNextIteration: the two stores change roles.
ComputeMessages(p) ==
  /\ engine = "ParPearl" /\ pc[p] = "Compute"
  /\ msgs' = [msgs EXCEPT ![p] = Overwrite(newMsgs[p], MessagesOf(problem, msgs[p], NodesOf(p)))]
  /\ newMsgs' = [newMsgs EXCEPT ![p] = msgs[p]]
  /\ pc' = [pc EXCEPT ![p] = "Send"]
  /\ toSend' = [toSend EXCEPT ![p] = Partners(p)]
  /\ toReceive' = [toReceive EXCEPT ![p] = Cardinality(Partners(p))]
  /\ UNCHANGED <<problem, engine, owner, beliefs, changed, iter, channel>>

\* Mutant: the store that the next round writes is sent.
MutOldBundle(p, q) == [d \in FarMessages(p, q) |-> newMsgs[p][d]]

Bundle(p, q) == [d \in FarMessages(p, q) |-> msgs[p][d]]

\* MPI_Send to the next process, in the order of their ranks; the message fits in
\* a buffer of MPI.
SendMessages(p) ==
  /\ pc[p] = "Send"
  /\ IF toSend[p] = {}
     THEN /\ pc' = [pc EXCEPT ![p] = "Receive"]
          /\ UNCHANGED <<toSend, channel>>
     ELSE LET q == Min(toSend[p]) IN
          /\ channel' = [channel EXCEPT ![p][q] = Append(@, Bundle(p, q))]
          /\ toSend' = [toSend EXCEPT ![p] = @ \ {q}]
          /\ UNCHANGED pc
  /\ UNCHANGED <<problem, engine, owner, msgs, newMsgs, beliefs, changed, iter, toReceive>>

\* MPI_Probe of any source, and MPI_Recv from the source found
ReceiveMessages(p) ==
  /\ pc[p] = "Receive"
  /\ toReceive[p] > 0
  /\ \E q \in Process :
       /\ channel[q][p] # <<>>
       /\ msgs' = [msgs EXCEPT ![p] = Overwrite(@, Head(channel[q][p]))]
       /\ channel' = [channel EXCEPT ![q][p] = Tail(@)]
  /\ toReceive' = [toReceive EXCEPT ![p] = @ - 1]
  /\ UNCHANGED <<problem, engine, owner, pc, newMsgs, beliefs, changed, iter, toSend>>

\* The beliefs of the nodes of p, and whether one of them changed
ComputeBeliefs(p) ==
  /\ pc[p] = "Receive" /\ toReceive[p] = 0
  /\ LET after == [n \in Node |-> IF owner[n] = p /\ n \in Hidden
                                  THEN ComputeBelief(problem, msgs[p], n) ELSE beliefs[p][n]]
     IN /\ beliefs' = [beliefs EXCEPT ![p] = after]
        /\ changed' = [changed EXCEPT ![p] = after # beliefs[p]]
  /\ pc' = [pc EXCEPT ![p] = "Reduce"]
  /\ UNCHANGED <<problem, engine, owner, msgs, newMsgs, iter, toSend, toReceive, channel>>

\* MPI_Allreduce of changed
Converged == \A q \in Process : ~changed[q]

\* MPI_Allreduce lets no process go on before all have come to it.
AllReduce ==
  /\ engine = "ParPearl"
  /\ \A p \in Process : pc[p] = "Reduce"
  /\ iter' = [p \in Process |-> iter[p] + 1]
  /\ pc' = [p \in Process |->
              IF Converged \/ iter[p] + 1 >= MaxNumberOfIterations THEN "Collect" ELSE "Compute"]
  /\ UNCHANGED <<problem, engine, owner, msgs, newMsgs, beliefs, changed, toSend, toReceive, channel>>

(* CollectBeliefsOnProcess(Main).                                             *)

\* Mutants: a loop over one process too few, and one too many.
MutFewerSenders == Process \ {Main, NP-1}

MutMoreSenders == Process

\* The processes whose beliefs the main process waits for; toSend[Main] holds
\* those that have come.
Senders == Process \ {Main}

SendBeliefs(p) ==
  /\ engine = "ParPearl" /\ pc[p] = "Collect" /\ p # Main
  /\ channel' = [channel EXCEPT ![p][Main] = Append(@, [n \in NodesOf(p) |-> beliefs[p][n]])]
  /\ pc' = [pc EXCEPT ![p] = "Barrier"]
  /\ UNCHANGED <<problem, engine, owner, msgs, newMsgs, beliefs, changed, iter, toSend, toReceive>>

\* A bundle from each of the other processes, in the order in which they come
ReceiveBeliefs(q) ==
  /\ pc[Main] = "Collect" /\ q # Main
  /\ channel[q][Main] # <<>>
  /\ beliefs' = [beliefs EXCEPT ![Main] = Overwrite(@, Head(channel[q][Main]))]
  /\ channel' = [channel EXCEPT ![q][Main] = Tail(@)]
  /\ toSend' = [toSend EXCEPT ![Main] = @ \cup {q}]
  /\ UNCHANGED <<problem, engine, owner, pc, msgs, newMsgs, changed, iter, toReceive>>

Collected ==
  /\ engine = "ParPearl" /\ pc[Main] = "Collect"
  /\ toSend[Main] = Senders
  /\ pc' = [pc EXCEPT ![Main] = "Barrier"]
  /\ toSend' = [toSend EXCEPT ![Main] = {}]
  /\ UNCHANGED <<problem, engine, owner, msgs, newMsgs, beliefs, changed, iter, toReceive, channel>>

Barrier ==
  /\ \A p \in Process : pc[p] = "Barrier"
  /\ pc' = [p \in Process |-> "Done"]
  /\ UNCHANGED <<problem, engine, owner, msgs, newMsgs, beliefs, changed, iter, toSend, toReceive, channel>>

ProcessStep(p) ==
  \/ ComputeMessages(p) \/ SendMessages(p) \/ ReceiveMessages(p) \/ ComputeBeliefs(p)
  \/ SendBeliefs(p) \/ ReceiveBeliefs(p)

Next ==
  \/ CPearlRound \/ CPearlDeliver
  \/ \E p \in Process : ProcessStep(p)
  \/ AllReduce \/ Collected \/ Barrier

\* Every process runs, and MPI ends what all have entered.
Spec == Init /\ [][Next]_vars /\ WF_vars(Next)
-----------------------------------------------------------------------------
(* Properties.                                                                *)

Stage == {"Compute", "Deliver", "Send", "Receive", "Reduce", "Collect", "Barrier", "Done"}

\* A store of messages has one for every direction.
Store == [Dirs -> SUBSET Node]

TypeOK ==
  /\ problem \in Problems /\ engine \in {"CPearl", "ParPearl"} /\ owner \in [Node -> Process]
  /\ pc \in [Process -> Stage]
  /\ msgs \in [Process -> Store] /\ newMsgs \in [Process -> Store]
  /\ beliefs \in [Process -> [Node -> SUBSET Node]] /\ changed \in [Process -> BOOLEAN]
  /\ iter \in [Process -> 0 .. N]
  /\ toSend \in [Process -> SUBSET Process] /\ toReceive \in [Process -> Nat]
  /\ channel = [p \in Process |-> [q \in Process |-> channel[p][q]]]

Finished == \A p \in Process : pc[p] = "Done"

\* The messages after k rounds in which all nodes send at once
Round(p) ==
  LET r[k \in 0 .. N] == IF k = 0 THEN Uniform(p.model) ELSE MessagesOf(p, r[k-1], Node)
  IN  r

\* In a round a process computes for its nodes the beliefs of just that round.
InEachRound ==
  \A p \in Process : engine = "ParPearl" /\ pc[p] = "Reduce" =>
    \A n \in NodesOf(p) \cap Hidden :
      beliefs[p][n] = ComputeBelief(problem, Round(problem)[iter[p] + 1], n)

\* What either engine leaves on the main process are the beliefs of all nodes after
\* the same number of rounds, m_IterationCounter.
ResultOfOneRound ==
  Finished => \A n \in Hidden :
    beliefs[Main][n] = ComputeBelief(problem, Round(problem)[iter[Main]], n)

\* In every round each process computes the beliefs that a single process would:
\* no message of another round, no old one and none of a node that is not its own
\* gets in, in whatever order the bundles come, and all stop after the same round.
\* Nor does the result mix rounds, or lack the share of a process.
\* (ParallelProtocol, GoNextIteration, SetFarNeighbors, CollectBeliefsOnProcess)
RoundsAgree == InEachRound /\ ResultOfOneRound

\* Nothing that was sent is left for a later call of EnterEvidence, whose
\* MPI_Probe takes a message of any source and tag.
NothingLeft == Finished => \A p, q \in Process : channel[p][q] = <<>>

\* The loop ends, in all processes.
EngineEnds == <>Finished
=============================================================================
