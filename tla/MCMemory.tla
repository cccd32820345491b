------------------------------ MODULE MCMemory ------------------------------
(***************************************************************************)
(* Memory, and the process manager that sets the limits on it, for TLC.    *)
(***************************************************************************)
EXTENDS Memory, PManager

\* A program with text and zeroed data, one with a segment that is not aligned.
MCPrograms == {<<[va |-> 0, end |-> 2, file |-> 2], [va |-> 2, end |-> 3, file |-> 2]>>,
               <<[va |-> 1, end |-> 2, file |-> 2]>>}
Sbrks == {3, -1, -4}

\* Five small worlds of memory, each on a machine on which the memory runs out in
\* places, and the manager; one is chosen at the start.
VARIABLE part
allVars == <<memVars, pmVars, part>>
Frames == [copy |-> 12, load |-> 15, thread |-> 17, limit |-> 17, race |-> 12, manager |-> 12]
Starts(p) ==
  \/ part \in {"copy", "limit", "race"} /\ \E n \in SbrkArgs : Grow(p, n) \/ Shrink(p, n)
  \/ part \in {"copy", "load", "race"} /\ ForkStart(p)
  \/ part \in {"copy", "load"} /\ (exit(p) \/ \E s \in Slot : wait(p, s))
  \/ part \in {"copy", "thread"} /\ \E v \in Page : Store(p, v)
  \/ part \in {"limit", "thread", "race"} /\ (ExecFails(p) \/ SpawnStart(p))
  \/ part = "limit" /\ \E s \in Slot, n \in Limits : setmemorylimit(p, s, n)
  \/ part \in {"load", "thread"} /\ \E prog \in Programs, n \in Stacks : ExecStart(p, prog, n)
GoesOn(p) ==
  \/ allocuvm(p) \/ GrowEnd(p) \/ copyuvm(p) \/ fork(p) \/ thread_create(p)
  \/ ExecNext(p) \/ ExecSegment(p) \/ exec(p) \/ ExecBad(p)
ManagedInit ==
  /\ part \in DOMAIN Frames
  /\ Start(Frames[part]) /\ (part \notin {"copy", "load"} => project = 2)
  /\ PmInit
ManagedNext ==
  /\ \/ part # "manager" /\ \E p \in Slot : Starts(p) \/ GoesOn(p)
     \/ part = "manager" /\ UNCHANGED memVars
  /\ \/ part = "manager" /\ PmNext
     \/ part # "manager" /\ UNCHANGED pmVars
  /\ UNCHANGED part
ManagedSpec == ManagedInit /\ [][ManagedNext]_allVars
=============================================================================
