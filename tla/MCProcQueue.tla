---------------------------- MODULE MCProcQueue ----------------------------
(***************************************************************************)
(* Instance of ProcQueue for TLC.  The variable abs holds the value of the *)
(* refinement mapping, so that TLC computes it once per state.             *)
(***************************************************************************)
EXTENDS ProcQueue, TLC

VARIABLE abs

MCInit == Init /\ abs = AbsQ
MCNext == Next /\ abs' = AbsQ'
MCSpec == MCInit /\ [][MCNext]_<<vars, abs>>

\* The two channels are interchangeable.
ChanSymmetry == Permutations(Chan)

Queues == INSTANCE QueueSpec WITH q <- abs

\* Every operation on the linked lists does to the queues what RunQueues says
\* it does: insert() and delete() at any place of a list, the merges of a
\* boost, and the loop of wakeup1() that relinks the list it walks along; and it
\* leaves the lists well formed.
ImplementsQueues ==
  Queues!Init /\ [][(Queues!Next \/ UNCHANGED Queues!vars) /\ WellLinked']_<<vars, abs>>
=============================================================================
