----------------------------- MODULE QueueSpec -----------------------------
(***************************************************************************)
(* What the rest of proc.c relies on when it calls the queue operations:   *)
(* the queues of RunQueues, and one action for each way in which proc.c    *)
(* moves a process from queue to queue.  Levels and priorities are set     *)
(* freely here, as the callers decide about them.                          *)
(***************************************************************************)
EXTENDS RunQueues

CONSTANTS PRIO, Priorities, Chan

VARIABLES q, level, priority, chan

vars == <<q, level, priority, chan>>

Free(p) == q.on[p] = NoQ

\* pinit() and userinit(): all slots are unused but the first, off the queues.
Init ==
  /\ q = [on    |-> [p \in Proc |-> IF p = 1 THEN NoQ ELSE UnusedQ],
          ahead |-> {e \in Proc \X Proc : 1 < e[1] /\ e[1] < e[2]},
          count |-> [k \in Queue |-> IF k = UnusedQ THEN NPROC - 1 ELSE 0]]
  /\ level = [p \in Proc |-> 0]
  /\ priority = [p \in Proc |-> PRIO]
  /\ chan = [p \in Proc |-> 0]

\* scheduler() and allocproc() take the head of a queue.
Take(k, p) ==
  /\ IsHead(q, k, p)
  /\ q' = delete(q, k, p)
  /\ chan' = [chan EXCEPT ![p] = 0]
  /\ UNCHANGED <<level, priority>>

\* wait(), fork() and userinit() put a process with the defaults of
\* setproc_default() at the tail of a queue.
Put(k, p) ==
  /\ Free(p)
  /\ q' = insert(q, k, p, 0)
  /\ level' = [level EXCEPT ![p] = 0]
  /\ priority' = [priority EXCEPT ![p] = PRIO]
  /\ UNCHANGED chan

\* sleep()
Sleep(p, ch) ==
  /\ Free(p)
  /\ q' = insert(q, SleepQ, p, 0)
  /\ chan' = [chan EXCEPT ![p] = ch]
  /\ UNCHANGED <<level, priority>>

\* yield() for the holder of the scheduler lock.
PutFirst(p) ==
  /\ Free(p)
  /\ q' = insert_head(q, 0, p)
  /\ UNCHANGED <<level, priority, chan>>

\* yield() for any other process.
Requeue(p, l, v) ==
  /\ Free(p)
  /\ level' = [level EXCEPT ![p] = l]
  /\ priority' = [priority EXCEPT ![p] = v]
  /\ q' = requeue(q, p, level', priority')
  /\ UNCHANGED chan

\* setPrioity_arrangeQueue() for a process on L2.
Rearrange(p, v) ==
  /\ q.on[p] = 2
  /\ priority' = [priority EXCEPT ![p] = v]
  /\ q' = insert(delete(q, 2, p), 2, p, higherpriority_proc(q, p, priority'))
  /\ UNCHANGED <<level, chan>>

\* kill() for a process asleep.
Rouse(p) ==
  /\ q.on[p] = SleepQ
  /\ q' = requeue(delete(q, SleepQ, p), p, level, priority)
  /\ UNCHANGED <<level, priority, chan>>

\* wakeup1()
Wakeup(ch) ==
  /\ q' = requeue_all(q, {p \in Members(q, SleepQ) : chan[p] = ch}, level, priority)
  /\ UNCHANGED <<level, priority, chan>>

\* priority_boosting()
Boost ==
  LET merged == merge_queue(merge_queue(q, 1, 2), 0, 1)
      boosted == Members(merged, 0) \cup Members(merged, SleepQ)
  IN  /\ q' = merged
      /\ level' = [p \in Proc |-> IF p \in boosted THEN 0 ELSE level[p]]
      /\ priority' = [p \in Proc |-> IF p \in boosted THEN PRIO ELSE priority[p]]
      /\ UNCHANGED chan

Next ==
  \/ \E k \in Queue \ {SleepQ}, p \in Proc : Take(k, p)
  \/ \E k \in {0, UnusedQ}, p \in Proc : Put(k, p)
  \/ \E p \in Proc, ch \in Chan : Sleep(p, ch)
  \/ \E p \in Proc : PutFirst(p) \/ Rouse(p)
  \/ \E p \in Proc, l \in Level, v \in Priorities : Requeue(p, l, v)
  \/ \E p \in Proc, v \in Priorities : Rearrange(p, v)
  \/ \E ch \in Chan : Wakeup(ch)
  \/ Boost

Spec == Init /\ [][Next]_vars
=============================================================================
