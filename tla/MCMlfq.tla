------------------------------- MODULE MCMlfq -------------------------------
(***************************************************************************)
(* Instances of Mlfq for TLC.                                              *)
(***************************************************************************)
EXTENDS Mlfq

TwoCpus == {101, 102}

\* Three small worlds, one of which is chosen at the start: processes that come
\* and go on two CPUs; priorities and the scheduler lock, and sleeping with the
\* scheduler locked, on one CPU.
VARIABLE scenario
MCInit == Init /\ scenario \in {"life", "priority", "lock"}
Calls == CASE scenario = "life" -> {"fork", "exit", "wait", "kill"}
           [] scenario = "priority" -> {"fork", "setPriority", "yield", "schedulerLock", "schedulerUnlock"}
           [] scenario = "lock" -> {"fork", "sleep", "schedulerLock", "schedulerUnlock"}
\* In the first one the processes on the second CPU yield, and have no timer; in
\* the others there are two processes.
OneSlotLeft == \A s, t \in Proc : state[s] = "UNUSED" /\ state[t] = "UNUSED" => s = t
Outside(c) ==
  \/ scenario # "life" /\ OneSlotLeft /\ ForkAlloc(c)
  \/ scenario = "life" /\ c # BootCPU /\ Timer(c)
  \/ "exit" \notin Calls /\ ExitBegin(c) /\ ~killed[cpu[c]]
  \/ "wait" \notin Calls /\ (WaitReap(c) \/ WaitFails(c) \/ WaitSleep(c))
  \/ "kill" \notin Calls /\ \E t \in Proc : Kill(c, t)
  \/ "sleep" \notin Calls /\ \E ch \in {TICKS, EVENT} : Sleep(c, ch)
  \/ "setPriority" \notin Calls /\ \E t \in Proc, v \in Priorities : SetPriority(c, t, v)
  \/ "yield" \notin Calls /\ c = BootCPU /\ ~tick[c] /\ Yield(c)
  \/ "schedulerLock" \notin Calls /\ (SchedulerLock(c) \/ SchedulerUnlock(c))
MCNext ==
  /\ sound
  /\ \/ Event
     \/ \E c \in CPU : /\ c = BootCPU \/ scenario = "life"
                       /\ Step(c) /\ ~Outside(c)
  /\ UNCHANGED scenario
MCSpec == MCInit /\ [][MCNext]_<<vars, scenario>>

\* What the calls promise where they are used as they are meant.  Where nobody
\* locks the scheduler, no process outruns its time slice.  On one CPU the queues
\* stay in order and setPriority() unlinks a process only from the queue it is on,
\* also with the lock; and the holder of the lock runs, or will run next.
PromisesKept ==
  /\ scenario = "life" => WithinQuantum
  /\ scenario = "priority" => QueuesInOrder /\ DeleteContract
  /\ scenario = "lock" => LevelMatchesQueue /\ HolderFirst
=============================================================================
