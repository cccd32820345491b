----------------------------- MODULE MCThreads -----------------------------
\* Instances of Threads for model checking.
EXTENDS Threads

OneCpu == {101}

\* The timer interrupts a process in user mode, in thread_create() with the slot
\* taken, and in thread_exit() and exit() before they take ptable.lock.
Interrupted == {"user", "thread", "thread_exit", "exit"}

\* Two small worlds, one of which is chosen at the start: fork(), exit(), wait()
\* and blocking calls of processes with one thread; threads, without wait().
\* In the first one the timer interrupts user mode only, and nobody blocks any more
\* when one slot or none is left.
OneSlotLeft == \A s, t \in Slot : state[s] = "UNUSED" /\ state[t] = "UNUSED" => s = t
VARIABLE scenario
MCInit == Init /\ scenario \in {"life", "family"}
MCNext ==
  /\ \/ Event
     \/ \E c \in CPU :
          /\ Step(c)
          /\ IF scenario = "family" THEN ~WaitEnter(c) /\ ~Block(c)
             ELSE /\ OneSlotLeft => ~Block(c)
                  /\ cpu[c] # 0 /\ at[cpu[c]] # "user" => ~Yield(c)
                  /\ ~ThreadAlloc(c) /\ ~exec(c) /\ ~ThreadExitBegin(c)
                  /\ \A t \in Slot : ~JoinEnter(c, t)
                  /\ \A v \in 1..(NPROC + 1) : ~Kill(c, v)
  /\ UNCHANGED scenario
MCSpec == MCInit /\ [][MCNext]_<<vars, scenario>>

\* Nobody sleeps for something that has happened: a parent in wait() for a child
\* that has exited, a thread in thread_join() for one that has ended, a process
\* that was killed.
WaitersWoken == NoLostWakeup /\ JoinerWoken /\ KilledAwake

\* The threads of a process are one chain: no two processes have the same share,
\* and th_last, to which thread_create() appends, is the end of the chain.
\* Processes with one thread keep a living parent: exit() passes the children on
\* to init.
FamilyLinked == TypeOK /\ ShareUnique /\ LastIsTail /\ (scenario = "life" => NoOrphan)
=============================================================================
