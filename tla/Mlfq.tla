-------------------------------- MODULE Mlfq --------------------------------
(***************************************************************************)
(* The process life cycle and the multi-level feedback queue scheduler of  *)
(* Project1 (proc.c, the timer path of trap.c, the wrappers of sysproc.c). *)
(*                                                                         *)
(* One action is one critical section under ptable.lock.  A process that   *)
(* gives up its CPU keeps the lock through swtch() into scheduler(), which *)
(* checks for a priority boost before it releases the lock, so that check  *)
(* is part of the action of yield(), sleep(), exit() and wait().           *)
(***************************************************************************)
EXTENDS RunQueues

CONSTANTS
  CPU,       \* the processors
  BootCPU,   \* cpuid() = 0: its timer interrupt advances ticks
  BOOST,     \* global ticks between priority boosts (100 in the code)
  QBASE,     \* time quantum of level l is l * QSTEP + QBASE (l*2 + 4)
  QSTEP,
  PRIO,      \* priority of a new or boosted process (3)
  Priorities,\* the priorities user programs pass to setPriority()
  Syscalls   \* the system calls user programs make

ASSUME CPUAssumption == BootCPU \in CPU /\ 0 \notin CPU
ASSUME TickAssumption == /\ BOOST \in Nat \ {0} /\ QBASE \in Nat \ {0}
                         /\ QSTEP \in Nat /\ PRIO \in Int
ASSUME PriorityAssumption == Priorities \subseteq Int

SyscallNames == {"fork", "exit", "wait", "sleep", "block", "yield", "kill", "kill0",
                 "setPriority", "schedulerLock", "schedulerUnlock"}
ASSUME SyscallAssumption == Syscalls \subseteq SyscallNames

State == {"UNUSED", "EMBRYO", "SLEEPING", "RUNNABLE", "RUNNING", "ZOMBIE"}
Alive == {"SLEEPING", "RUNNABLE", "RUNNING"}
initproc == 1

\* Sleep channels: 0 is none, p the channel of wait() in process p, TICKS is
\* &ticks, EVENT any other address a system call sleeps on.
TICKS == NPROC + 1
EVENT == NPROC + 2
Chan == 0..EVENT

\* Where a process is: in user mode, in a blocking system call, in fork()
\* after allocproc(), in exit() before the table is locked, in wait()'s loop.
Place == {"user", "kernel", "fork", "exit", "wait"}

VARIABLES
  state, parent, chan, killed,      \* fields of struct proc
  haspid,                           \* p->pid is not 0
  priority, queuelevel, ticks,      \* the scheduler's fields of struct proc
  at, child,                        \* where the process is; the child fork() is building
  q,                                \* the queues, see RunQueues
  global_ticks, lockproc, unlockproc, \* struct mlfq
  cpu,                              \* cpu[c]: c->proc, 0 when c is in scheduler()
  tick,                             \* c is in a timer interrupt that will end in yield()
  ptlock,                           \* the CPU that wait()'s loop resumed on, ptable.lock held
  sound                             \* FALSE once delete() was called on a queue p is not on

procVars == <<state, parent, chan, killed, haspid, at, child>>
schedVars == <<priority, queuelevel, ticks, q, global_ticks, lockproc>>
vars == <<state, parent, chan, killed, haspid, priority, queuelevel, ticks, at, child, q,
          global_ticks, lockproc, unlockproc, cpu, tick, ptlock, sound>>

-----------------------------------------------------------------------------
(***************************************************************************)
(* The state main() leaves: pinit() has queued every slot as unused and    *)
(* userinit() has taken the first one for the first process.               *)
(***************************************************************************)
Init ==
  /\ state = [p \in Proc |-> IF p = initproc THEN "RUNNABLE" ELSE "UNUSED"]
  /\ parent = [p \in Proc |-> 0]
  /\ chan = [p \in Proc |-> 0]
  /\ killed = [p \in Proc |-> FALSE]
  /\ haspid = [p \in Proc |-> p = initproc]
  /\ priority = [p \in Proc |-> IF p = initproc THEN PRIO ELSE 0]
  /\ queuelevel = [p \in Proc |-> 0]
  /\ ticks = [p \in Proc |-> 0]
  /\ at = [p \in Proc |-> "user"]
  /\ child = [p \in Proc |-> 0]
  /\ q = [on    |-> [p \in Proc |-> IF p = initproc THEN 0 ELSE UnusedQ],
          ahead |-> {e \in Proc \X Proc : initproc < e[1] /\ e[1] < e[2]},
          count |-> [k \in Queue |-> IF k = 0 THEN 1
                                     ELSE IF k = UnusedQ THEN NPROC - 1 ELSE 0]]
  /\ global_ticks = 0
  /\ lockproc = 0
  /\ unlockproc = 0
  /\ cpu = [c \in CPU |-> 0]
  /\ tick = [c \in CPU |-> FALSE]
  /\ ptlock = 0
  /\ sound = TRUE

\* CPU c runs a process that may go on at place a.
RunsAt(c, a) == cpu[c] # 0 /\ ~tick[c] /\ at[cpu[c]] = a

\* The process of CPU c enters system call s: trap() lets it in unless killed.
Enters(c, s) == s \in Syscalls /\ RunsAt(c, "user") /\ ~killed[cpu[c]]

\* The process of CPU c raises trap s (T_MLFQLOCK, T_MLFQUNLOCK) or makes the
\* system call of that name; the trap looks at killed only afterwards.
Traps(c, s) == s \in Syscalls /\ RunsAt(c, "user")
AfterTrap(p) == [at EXCEPT ![p] = IF killed[p] THEN "exit" ELSE @]

-----------------------------------------------------------------------------
(***************************************************************************)
(* priority_boosting(): L1 and L2 go behind L0, and the processes found    *)
(* there and in the sleep queue start afresh.                              *)
(***************************************************************************)
MergedLevels_L1Only(q1) == merge_queue(q1, 0, 1)
MergedLevels(q1) == merge_queue(merge_queue(q1, 1, 2), 0, 1)
Boosted_Sleepers(q1) == Members(q1, SleepQ)
Boosted(q1) == Members(q1, SleepQ) \cup Members(q1, 0)
Reset(S, f, v) == [p \in Proc |-> IF p \in S THEN v ELSE f[p]]

\* The second half of scheduler()'s loop, after swtch() returned: boost when
\* BOOST ticks have passed, and drop the scheduler lock then.  The arguments
\* are the values the process that gave up CPU c left.
BackInScheduler(c, q1, level1, priority1, ticks1, global1, lock1) ==
  LET merged == MergedLevels(q1)
      boosted == Boosted(merged)
  IN  /\ \/ /\ global1 = BOOST
            /\ q' = merged
            /\ queuelevel' = Reset(boosted, level1, 0)
            /\ priority' = Reset(boosted, priority1, PRIO)
            /\ ticks' = Reset(boosted, ticks1, 0)
            /\ global_ticks' = 0
            /\ lockproc' = 0
         \/ /\ global1 # BOOST
            /\ q' = q1
            /\ queuelevel' = level1
            /\ priority' = priority1
            /\ ticks' = ticks1
            /\ global_ticks' = global1
            /\ lockproc' = lock1
      /\ cpu' = [cpu EXCEPT ![c] = 0]

\* The first half of the loop: run the head of the first run queue that has
\* one.  The process resumes in sched(), in forkret() or in sleep(), which
\* clears its channel; only wait() then still holds ptable.lock.
Dispatch(c) ==
  /\ cpu[c] = 0
  /\ ptlock = 0
  /\ \E k \in Level, p \in Proc :
       /\ IsHead(q, k, p)
       /\ \A j \in Level : j < k => queue_is_empty(q, j)
       /\ q' = delete(q, k, p)
       /\ state' = [state EXCEPT ![p] = "RUNNING"]
       /\ chan' = [chan EXCEPT ![p] = 0]
       /\ cpu' = [cpu EXCEPT ![c] = p]
       /\ ptlock' = IF at[p] = "wait" THEN c ELSE 0
  /\ UNCHANGED <<parent, killed, haspid, at, child, priority, queuelevel, ticks,
                 global_ticks, lockproc, unlockproc, tick, sound>>

\* The time quantum of level l, and the level below it.
Quantum(l) == l * QSTEP + QBASE
Demoted_Unbounded(l) == l + 1
Demoted(l) == IF l = 0 THEN 1 ELSE 2

\* p->ticks is only compared with the quanta and reset: beyond the longest
\* quantum all values are alike, so the model stops counting there.
TickCap == Quantum(2) + 1
Charged(t) == IF t = TickCap THEN TickCap ELSE t + 1

\* yield() keeps p first: it holds the scheduler lock, or has just given it up.
Keeps_Unlocked(p) == unlockproc = p
Keeps(p) == lockproc = p \/ unlockproc = p

\* yield(): the tick is charged to the process and to the scheduler; the
\* holder of the scheduler lock goes back to the head of L0, any other
\* process to the queue of its level, one level down at the end of its quantum.
Yield(c) ==
  LET p == cpu[c]
      t == Charged(ticks[p])
      spent == ~Keeps(p) /\ t = Quantum(queuelevel[p])
      level1 == [queuelevel EXCEPT ![p] = IF spent THEN Demoted(@) ELSE @]
      priority1 == [priority EXCEPT ![p] = IF spent /\ queuelevel[p] = 2 /\ @ # 0 THEN @ - 1 ELSE @]
      ticks1 == [ticks EXCEPT ![p] = IF spent THEN 0 ELSE t]
      q1 == IF Keeps(p) THEN insert_head(q, 0, p) ELSE requeue(q, p, level1, priority1)
  IN  /\ cpu[c] # 0
      /\ ptlock = 0
      /\ tick[c] \/ Enters(c, "yield")
      /\ state' = [state EXCEPT ![p] = "RUNNABLE"]
      /\ unlockproc' = IF unlockproc = p THEN 0 ELSE unlockproc
      /\ tick' = [tick EXCEPT ![c] = FALSE]
      /\ BackInScheduler(c, q1, level1, priority1, ticks1, global_ticks + 1, lockproc)
      /\ UNCHANGED <<parent, chan, killed, haspid, at, child, ptlock, sound>>

\* sleep() on channel ch.  releasemlfq() clears the scheduler lock whoever
\* holds it.
GoToSleep(c, ch, place) ==
  LET p == cpu[c]
  IN  /\ state' = [state EXCEPT ![p] = "SLEEPING"]
      /\ chan' = [chan EXCEPT ![p] = ch]
      /\ at' = [at EXCEPT ![p] = place]
      /\ BackInScheduler(c, insert(q, SleepQ, p, 0), queuelevel, priority, ticks,
                         global_ticks, 0)

\* A system call other than wait() sleeps, sys_sleep() on &ticks and the
\* others on what they wait for; or its loop sleeps once more; or exit() sleeps
\* while it closes files.
Sleep(c, ch) ==
  LET call == IF ch = TICKS THEN "sleep" ELSE "block"
  IN  /\ ptlock = 0
      /\ \/ Enters(c, call)
         \/ call \in Syscalls /\ RunsAt(c, "kernel")
         \/ ch = EVENT /\ RunsAt(c, "exit")
      /\ GoToSleep(c, ch, IF RunsAt(c, "exit") THEN "exit" ELSE "kernel")
      /\ UNCHANGED <<parent, killed, haspid, child, unlockproc, tick, ptlock, sound>>

\* A blocking system call returns to user mode.
SyscallReturn(c) ==
  /\ RunsAt(c, "kernel")
  /\ at' = [at EXCEPT ![cpu[c]] = "user"]
  /\ UNCHANGED <<state, parent, chan, killed, haspid, child, schedVars, unlockproc, cpu,
                 tick, ptlock, sound>>

-----------------------------------------------------------------------------
\* wakeup1(): the processes asleep on ch, and the queues once they are awake.
Sleepers(ch) == {p \in Members(q, SleepQ) : chan[p] = ch}

WakeState_First(S) == [p \in Proc |-> IF p \in S /\ \A x \in S : p <= x THEN "RUNNABLE" ELSE state[p]]
WakeState(S) == [p \in Proc |-> IF p \in S THEN "RUNNABLE" ELSE state[p]]

\* wakeup(): from an interrupt handler or on behalf of another process.
Wakeup(ch) ==
  /\ ptlock = 0
  /\ state' = WakeState(Sleepers(ch))
  /\ q' = requeue_all(q, Sleepers(ch), queuelevel, priority)

Event ==
  /\ Wakeup(EVENT)
  /\ UNCHANGED <<parent, chan, killed, haspid, at, child, priority, queuelevel, ticks,
                 global_ticks, lockproc, unlockproc, cpu, tick, ptlock, sound>>

\* The timer interrupt of CPU c, up to its call of yield(); a killed process
\* in user mode goes to exit() instead.  A kill() after that check comes too
\* late to stop the yield().
Timer(c) ==
  /\ ptlock # c
  /\ ~tick[c]
  /\ tick' = [tick EXCEPT ![c] = cpu[c] # 0 /\ ~(killed[cpu[c]] /\ at[cpu[c]] = "user")]
  /\ \/ c = BootCPU /\ Wakeup(TICKS)
     \/ c # BootCPU /\ UNCHANGED <<state, q>>
  /\ UNCHANGED <<parent, chan, killed, haspid, at, child, priority, queuelevel, ticks,
                 global_ticks, lockproc, unlockproc, cpu, ptlock, sound>>

-----------------------------------------------------------------------------
\* allocproc() up to its release of the lock, called from fork().
ForkAlloc(c) ==
  /\ Enters(c, "fork")
  /\ ptlock = 0
  /\ \E np \in Proc :
       /\ IsHead(q, UnusedQ, np)
       /\ q' = delete(q, UnusedQ, np)
       /\ state' = [state EXCEPT ![np] = "EMBRYO"]
       /\ haspid' = [haspid EXCEPT ![np] = TRUE]
       /\ priority' = [priority EXCEPT ![np] = PRIO]
       /\ queuelevel' = [queuelevel EXCEPT ![np] = 0]
       /\ ticks' = [ticks EXCEPT ![np] = 0]
       /\ child' = [child EXCEPT ![cpu[c]] = np]
  /\ at' = [at EXCEPT ![cpu[c]] = "fork"]
  /\ UNCHANGED <<parent, chan, killed, global_ticks, lockproc, unlockproc, cpu, tick,
                 ptlock, sound>>

\* kalloc() or copyuvm() found no memory: the slot is given back, its pid
\* stays and ptable.lock is not taken.
ForkFail(c) ==
  LET np == child[cpu[c]]
  IN  /\ RunsAt(c, "fork")
      /\ state' = [state EXCEPT ![np] = "UNUSED"]
      /\ q' = insert(q, UnusedQ, np, 0)
      /\ child' = [child EXCEPT ![cpu[c]] = 0]
      /\ at' = [at EXCEPT ![cpu[c]] = "user"]
      /\ UNCHANGED <<parent, chan, killed, haspid, priority, queuelevel, ticks,
                     global_ticks, lockproc, unlockproc, cpu, tick, ptlock, sound>>

\* The child is complete: it enters L0.
ForkDone(c) ==
  LET np == child[cpu[c]]
  IN  /\ RunsAt(c, "fork")
      /\ ptlock = 0
      /\ parent' = [parent EXCEPT ![np] = cpu[c]]
      /\ state' = [state EXCEPT ![np] = "RUNNABLE"]
      /\ q' = insert(q, 0, np, 0)
      /\ child' = [child EXCEPT ![cpu[c]] = 0]
      /\ at' = [at EXCEPT ![cpu[c]] = "user", ![np] = "user"]
      /\ UNCHANGED <<chan, killed, haspid, priority, queuelevel, ticks,
                     global_ticks, lockproc, unlockproc, cpu, tick, ptlock, sound>>

\* exit() is entered by the system call, by a wrong password to the scheduler
\* lock calls, or by trap() for a killed process in user mode.  The first
\* process must not exit (panic "init exiting").
ExitBegin(c) ==
  LET p == cpu[c]
  IN  /\ RunsAt(c, "user")
      /\ p # initproc
      /\ killed[p] \/ "exit" \in Syscalls
      /\ at' = [at EXCEPT ![p] = "exit"]
      /\ UNCHANGED <<state, parent, chan, killed, haspid, child, schedVars, unlockproc,
                     cpu, tick, ptlock, sound>>

Kids(p) == {x \in Proc : parent[x] = p}
ZombieKids(p) == {x \in Kids(p) : state[x] = "ZOMBIE"}

\* exit() passes the children of p to init, and wakes it if one is a zombie.
Reparented_Live(p) == [x \in Proc |-> IF x \in Kids(p) \ ZombieKids(p) THEN initproc ELSE parent[x]]
Reparented(p) == [x \in Proc |-> IF x \in Kids(p) THEN initproc ELSE parent[x]]
WakesInit(p) == ZombieKids(p) # {}

\* The locked part of exit(): wake the parent, pass on the children, become a
\* zombie, drop the scheduler lock whoever holds it.
ExitFinish(c) ==
  LET p == cpu[c]
      woken1 == Sleepers(parent[p])
      woken2 == IF WakesInit(p) THEN Sleepers(initproc) \ woken1 ELSE {}
      q1 == requeue_all(requeue_all(q, woken1, queuelevel, priority), woken2, queuelevel, priority)
  IN  /\ RunsAt(c, "exit")
      /\ ptlock = 0
      /\ parent' = Reparented(p)
      /\ state' = [WakeState(woken1 \cup woken2) EXCEPT ![p] = "ZOMBIE"]
      /\ BackInScheduler(c, q1, queuelevel, priority, ticks, global_ticks, 0)
      /\ UNCHANGED <<chan, killed, haspid, at, child, unlockproc, tick, ptlock, sound>>

-----------------------------------------------------------------------------
\* The process of CPU c scans the table in wait(), on entry or woken up.
Waits(c) == (Enters(c, "wait") /\ ptlock = 0) \/ (RunsAt(c, "wait") /\ ptlock = c)

\* wait() does not wait any longer: no child, or killed.
GivesUp_Childless(p) == Kids(p) = {}
GivesUp(p) == Kids(p) = {} \/ killed[p]

\* The first zombie child in table order is freed.
WaitReap(c) ==
  LET p == cpu[c]
  IN  /\ Waits(c)
      /\ \E z \in ZombieKids(p) :
           /\ \A x \in ZombieKids(p) : z <= x
           /\ state' = [state EXCEPT ![z] = "UNUSED"]
           /\ haspid' = [haspid EXCEPT ![z] = FALSE]
           /\ parent' = [parent EXCEPT ![z] = 0]
           /\ killed' = [killed EXCEPT ![z] = FALSE]
           /\ priority' = [priority EXCEPT ![z] = PRIO]
           /\ queuelevel' = [queuelevel EXCEPT ![z] = 0]
           /\ ticks' = [ticks EXCEPT ![z] = 0]
           /\ q' = insert(q, UnusedQ, z, 0)
      /\ at' = [at EXCEPT ![p] = "user"]
      /\ ptlock' = 0
      /\ UNCHANGED <<chan, child, global_ticks, lockproc, unlockproc, cpu, tick, sound>>

\* wait() returns -1.
WaitFails(c) ==
  LET p == cpu[c]
  IN  /\ Waits(c)
      /\ ZombieKids(p) = {}
      /\ GivesUp(p)
      /\ at' = [at EXCEPT ![p] = "user"]
      /\ ptlock' = 0
      /\ UNCHANGED <<state, parent, chan, killed, haspid, child, schedVars, unlockproc, cpu,
                     tick, sound>>

\* Children, none of them a zombie: sleep on the own channel.
WaitSleep(c) ==
  LET p == cpu[c]
  IN  /\ Waits(c)
      /\ ZombieKids(p) = {}
      /\ ~GivesUp(p)
      /\ GoToSleep(c, p, "wait")
      /\ ptlock' = 0
      /\ UNCHANGED <<parent, killed, haspid, child, unlockproc, tick, sound>>

-----------------------------------------------------------------------------
\* kill() of a process with a pid; killing init is excluded (it would panic).
Kill(c, t) ==
  /\ Enters(c, "kill")
  /\ ptlock = 0
  /\ haspid[t] /\ t # initproc
  /\ killed' = [killed EXCEPT ![t] = TRUE]
  /\ \/ /\ state[t] = "SLEEPING"
        /\ state' = [state EXCEPT ![t] = "RUNNABLE"]
        /\ q' = requeue(delete(q, SleepQ, t), t, queuelevel, priority)
     \/ /\ state[t] # "SLEEPING"
        /\ UNCHANGED <<state, q>>
  /\ UNCHANGED <<parent, chan, haspid, priority, queuelevel, ticks, at, child,
                 global_ticks, lockproc, unlockproc, cpu, tick, ptlock, sound>>

\* kill(0) matches the first slot without a pid.
KillZero(c, t) ==
  /\ Enters(c, "kill0")
  /\ ptlock = 0
  /\ ~haspid[t]
  /\ \A x \in Proc : ~haspid[x] => t <= x
  /\ killed' = [killed EXCEPT ![t] = TRUE]
  /\ UNCHANGED <<state, parent, chan, haspid, at, child, schedVars, unlockproc, cpu, tick,
                 ptlock, sound>>

\* setPrioity_arrangeQueue() has to move t within L2.
Moves(t) == queuelevel[t] = 2 /\ state[t] = "RUNNABLE"

\* setPriority(): a RUNNABLE process of level 2 is moved to its new place in
\* L2.  delete() is told that it is there; the code does not check it.
SetPriority(c, t, v) ==
  LET priority1 == [priority EXCEPT ![t] = v]
      base == higherpriority_proc(q, t, priority1)
  IN  /\ Enters(c, "setPriority")
      /\ ptlock = 0
      /\ haspid[t] /\ state[t] # "UNUSED"
      /\ priority' = priority1
      /\ q' = IF Moves(t) THEN insert(delete(q, 2, t), 2, t, base) ELSE q
      /\ sound' = (Moves(t) => q.on[t] = 2)
      /\ UNCHANGED <<procVars, queuelevel, ticks, global_ticks, lockproc, unlockproc, cpu,
                     tick, ptlock>>

\* schedulerLock() with the right password, as a system call or trap 129.
SchedulerLock(c) ==
  /\ Traps(c, "schedulerLock")
  /\ ptlock = 0
  /\ lockproc = 0
  /\ lockproc' = cpu[c]
  /\ global_ticks' = 0
  /\ at' = AfterTrap(cpu[c])
  /\ UNCHANGED <<state, parent, chan, killed, haspid, child, priority, queuelevel, ticks, q, unlockproc, cpu, tick, ptlock,
                 sound>>

\* schedulerUnlock() with the right password, as a system call or trap 130.
SchedulerUnlock(c) ==
  LET p == cpu[c]
  IN  /\ Traps(c, "schedulerUnlock")
      /\ ptlock = 0
      /\ lockproc # 0
      /\ lockproc' = 0
      /\ unlockproc' = p
      /\ queuelevel' = [queuelevel EXCEPT ![p] = 0]
      /\ priority' = [priority EXCEPT ![p] = PRIO]
      /\ ticks' = [ticks EXCEPT ![p] = 0]
      /\ at' = AfterTrap(p)
      /\ UNCHANGED <<state, parent, chan, killed, haspid, child, q, global_ticks, cpu, tick,
                     ptlock, sound>>

-----------------------------------------------------------------------------
Step(c) ==
  \/ Dispatch(c)
  \/ Yield(c)
  \/ \E ch \in {TICKS, EVENT} : Sleep(c, ch)
  \/ SyscallReturn(c)
  \/ Timer(c)
  \/ ForkAlloc(c)
  \/ ForkFail(c)
  \/ ForkDone(c)
  \/ ExitBegin(c)
  \/ ExitFinish(c)
  \/ WaitReap(c)
  \/ WaitFails(c)
  \/ WaitSleep(c)
  \/ \E t \in Proc : Kill(c, t)
  \/ \E t \in Proc : KillZero(c, t)
  \/ \E t \in Proc, v \in Priorities : SetPriority(c, t, v)
  \/ SchedulerLock(c)
  \/ SchedulerUnlock(c)

\* After a broken contract the linked lists are no ordered sets any more:
\* the model ends there.
Next == sound /\ (Event \/ \E c \in CPU : Step(c))

Spec == Init /\ [][Next]_vars

-----------------------------------------------------------------------------
\* The type invariant of the process table, the scheduler and the CPUs.
TypeOK ==
  /\ state \in [Proc -> State]
  /\ parent \in [Proc -> Proc \cup {0}]
  /\ chan \in [Proc -> Chan]
  /\ killed \in [Proc -> BOOLEAN]
  /\ haspid \in [Proc -> BOOLEAN]
  /\ priority \in [Proc -> Int]
  /\ queuelevel \in [Proc -> Level]
  /\ ticks \in [Proc -> 0..TickCap]
  /\ at \in [Proc -> Place]
  /\ child \in [Proc -> Proc \cup {0}]
  /\ q \in QueuesType
  /\ global_ticks \in 0..(BOOST - 1)
  /\ lockproc \in Proc \cup {0}
  /\ unlockproc \in Proc \cup {0}
  /\ cpu \in [CPU -> Proc \cup {0}]
  /\ tick \in [CPU -> BOOLEAN]
  /\ ptlock \in CPU \cup {0}
  /\ sound \in BOOLEAN

\* A process is linked into exactly the queue its state calls for: whatever
\* allocproc(), wakeup1(), kill(), yield(), the boost and wait() do in
\* between, no process is RUNNABLE and unqueued (it would never run again) or
\* queued and not RUNNABLE (it would be run without a context).
QueuesMatchStates ==
  \A p \in Proc :
    /\ state[p] = "UNUSED"   <=> q.on[p] = UnusedQ
    /\ state[p] = "SLEEPING" <=> q.on[p] = SleepQ
    /\ state[p] = "RUNNABLE" <=> q.on[p] \in Level

\* A process is RUNNING exactly when some CPU runs it, and no two CPUs run
\* the same process on its one kernel stack.
OneCpuEach ==
  /\ \A p \in Proc : state[p] = "RUNNING" <=> \E c \in CPU : cpu[c] = p
  /\ \A c, d \in CPU : cpu[c] = cpu[d] /\ cpu[c] # 0 => c = d

\* The slot fork() is filling is its own: allocproc() has given it to one
\* caller only, and it is on no queue, so nobody runs, reaps or reuses it.
SlotOwned ==
  /\ \A p \in Proc : at[p] = "fork" => child[p] # 0 /\ state[child[p]] = "EMBRYO"
  /\ \A p, r \in Proc : child[p] # 0 /\ child[p] = child[r] => p = r

\* Nobody sleeps through the exit of a child: a process asleep in wait() has
\* a child, none of its children is a zombie, it was not killed, and it sleeps
\* on the channel that exit() wakes.
NoLostWakeup ==
  \A p \in Proc : state[p] = "SLEEPING" /\ at[p] = "wait" =>
    /\ chan[p] = p
    /\ Kids(p) # {}
    /\ ZombieKids(p) = {}
    /\ ~killed[p]

\* Every process but the first has a parent that can still wait() for it:
\* exit() leaves no child behind, so no zombie keeps its slot for ever.
NoOrphan ==
  \A p \in Proc \ {initproc} :
    state[p] \in Alive \cup {"ZOMBIE"} => parent[p] # 0 /\ state[parent[p]] \in Alive

\* A process is in fork() only while it has a CPU or waits for one.
ForkPlaces ==
  \A p \in Proc : /\ child[p] # 0 => at[p] = "fork"
                  /\ at[p] = "fork" => state[p] \in {"RUNNING", "RUNNABLE"}

\* A slot without a process has no parent, every process has a pid and none is
\* its own parent, and the first process stays.
InitStays ==
  /\ \A p \in Proc : state[p] \in {"UNUSED", "EMBRYO"} => parent[p] = 0
  /\ \A p \in Proc : (state[p] # "UNUSED" => haspid[p]) /\ parent[p] # p
  /\ state[initproc] \in Alive /\ parent[initproc] = 0 /\ at[initproc] # "exit"
  /\ ~killed[initproc]

\* The inductive invariant of the process life cycle.
IInv ==
  /\ TypeOK
  /\ QueuesMatchStates
  /\ OneCpuEach
  /\ SlotOwned /\ ForkPlaces
  /\ InitStays /\ NoOrphan
  /\ NoLostWakeup

\* The queues stay ordered sets with an exact count, and L2 in order of
\* priority, as long as delete() is only called on the queue a process is on.
QueuesInOrder ==
  sound => /\ Ordered(q)
           /\ SortedL2(q, priority)
           /\ \A k \in Queue : q.count[k] = Cardinality(Members(q, k))

\* A RUNNABLE process waits in the queue of its level; the only exception is
\* a process that yield() put at the head of L0 as holder, or last holder, of
\* the scheduler lock, and it is there only until the next dispatch.
LevelMatchesQueue ==
  \A p \in Proc : state[p] = "RUNNABLE" /\ q.on[p] # queuelevel[p] =>
    IsHead(q, 0, p) /\ \A c \in CPU : cpu[c] = 0

\* setPriority() never unlinks a process from a queue it is not on.
DeleteContract == sound

\* The holder of the scheduler lock is running, or will run next.
HolderFirst ==
  lockproc # 0 => state[lockproc] = "RUNNING" \/ IsHead(q, 0, lockproc)

\* While a process holds the scheduler lock, no other process is dispatched.
DispatchesHolder == \A c \in CPU : lockproc # 0 /\ cpu[c] = 0 /\ cpu'[c] # 0 => cpu'[c] = lockproc
LockExclusive == [][DispatchesHolder]_vars

\* Two processes that wait in one run queue keep their order for as long as
\* both wait, through wakeups and the merges of a boost; only setPriority()
\* may change it, and only that of the process it is called for.
KeepsOrder ==
  \A x, y \in Proc : /\ <<x, y>> \in q.ahead
                     /\ q.on[x] \in Level
                     /\ q'.on[x] \in Level /\ q'.on[y] \in Level
                     => \/ <<x, y>> \in q'.ahead
                        \/ \E c \in CPU, t \in {x, y}, v \in Priorities : SetPriority(c, t, v)
OrderKept == [][KeepsOrder]_vars

\* No process outruns its time slice: the ticks it has used at its level stay
\* below the quantum of the level (proc.h: "upto L0: 4ticks, L1: 6ticks, L2:
\* 8ticks").
WithinQuantum == \A p \in Proc : ticks[p] < Quantum(queuelevel[p])

\* A boost reaches every process that is waiting to run or asleep.
Boosts ==
  global_ticks = BOOST - 1 /\ global_ticks' = 0 /\ lockproc' = 0 =>
    \A p \in Proc : state'[p] \in {"RUNNABLE", "SLEEPING"} =>
      queuelevel'[p] = 0 /\ priority'[p] = PRIO /\ ticks'[p] = 0
BoostReachesAll == [][Boosts]_vars

-----------------------------------------------------------------------------
(***************************************************************************)
(* Fairness.  A CPU keeps going: scheduler() dispatches when there is a    *)
(* process to run, a timer handler goes on to yield(), wait() woken up     *)
(* goes on and leaves its critical section, a killed process in user mode  *)
(* is taken to exit() by the next trap.  That is weak fairness of actions  *)
(* that end their own enabling condition, so each is stated as "the        *)
(* condition is false again and again".  The clock ticks periodically      *)
(* whoever runs, so that processes which keep the CPU busy in turns are    *)
(* not missed by it for ever: that is strong fairness of a Timer step that *)
(* interrupts a process.  Nothing is assumed of the system calls.          *)
(***************************************************************************)
CanDispatch(c) == cpu[c] = 0 /\ \E k \in Level : ~queue_is_empty(q, k)
KilledInUser(p) == killed[p] /\ at[p] = "user"
Interruptible(c) == cpu[c] # 0 /\ ~tick[c] /\ ptlock # c /\ ~KilledInUser(cpu[c])

Fairness ==
  \A c \in CPU :
    /\ []<>~CanDispatch(c)
    /\ []<>~tick[c]
    /\ []<>(ptlock # c)
    /\ \A p \in Proc : []<>~(cpu[c] = p /\ KilledInUser(p))
    /\ []<>Interruptible(c) => []<>tick[c]

FairSpec == Spec /\ Fairness

\* No process that is ready to run waits for ever, as long as no process
\* takes the scheduler lock: a process stuck in L1 or L2 behind others is
\* boosted, and in L0 the others go behind it.
StarvationFree == \A p \in Proc : state[p] = "RUNNABLE" ~> state[p] = "RUNNING"

\* kill() is not forgotten: a process killed in user mode or inside wait()
\* gets to exit(), even if it was asleep in wait() with live children.
KilledExits ==
  \A p \in Proc : killed[p] /\ at[p] \in {"user", "wait"} /\ state[p] \in Alive ~> at[p] = "exit"
=============================================================================
