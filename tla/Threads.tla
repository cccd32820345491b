------------------------------ MODULE Threads ------------------------------
(***************************************************************************)
(* Processes and light-weight threads of Project2 (proc.c, kill_threads()  *)
(* of exec.c).  A thread is a slot of the process table; the threads of    *)
(* one process share a th_share record, which has the parent, and the      *)
(* family list of the threads linked by th_next.                           *)
(*                                                                         *)
(* One action is one critical section under ptable.lock; the code of       *)
(* fork() and thread_create() that runs without the lock has actions of    *)
(* its own.                                                                *)
(***************************************************************************)
EXTENDS Integers, FiniteSets

CONSTANTS
  NPROC,        \* slots of ptable.proc, and of ptable.th_share
  CPU,          \* the processors
  Syscalls,     \* the system calls user programs make
  Preemptible   \* the places at which the timer interrupts a process

Slot == 1..NPROC
ASSUME ThreadAssumption == NPROC \in Nat \ {0} /\ 0 \notin CPU

\* "fork" and "spawn" are fork() and thread_create() called by the first
\* thread of a process, "fork2" and "spawn2" by another one; "block" is any
\* call that sleeps in the kernel.
SyscallNames == {"fork", "fork2", "exit", "wait", "kill", "block", "exec", "spawn", "spawn2",
                 "thread_exit", "thread_join"}
ASSUME CallAssumption == Syscalls \subseteq SyscallNames

State == {"UNUSED", "EMBRYO", "SLEEPING", "RUNNABLE", "RUNNING", "ZOMBIE"}
Alive == {"SLEEPING", "RUNNABLE", "RUNNING"}
initproc == 1

\* Sleep channels: 0 is none, p the address of slot p (wait() and
\* thread_join() sleep there), EVENT any other address.
EVENT == NPROC + 1

\* Where a thread is: in user mode; asleep in a system call or back from it;
\* in fork() with a slot, with a slot and a share it has found but not yet
\* marked, with all of the child complete; in thread_create() with a slot; in
\* exit() and thread_exit() before the lock; in the loops of wait() and
\* thread_join().
Place == {"user", "kernel", "fork", "share", "forked", "thread", "exit", "thread_exit",
          "wait", "join"}
ASSUME PreemptAssumption == Preemptible \subseteq Place

VARIABLES
  state, killed, chan, pid,      \* fields of struct proc
  th_next, th_main, shared_info, \* the thread fields of struct proc
  used, parent, hd, last,        \* struct th_share: state = USING, th_family_hd, th_last
  at, child, target,             \* where a thread is; the slot it fills; the one it joins
  cpu,                           \* c->proc
  ptlock                         \* the CPU on which wait() or thread_join() goes on with the lock

shareVars == <<used, parent, hd, last>>
threadVars == <<pid, th_next, th_main, shared_info>>
vars == <<state, killed, chan, pid, th_next, th_main, shared_info, used, parent, hd, last,
          at, child, target, cpu, ptlock>>

\* The state userinit() leaves.
Init ==
  /\ state = [p \in Slot |-> IF p = initproc THEN "RUNNABLE" ELSE "UNUSED"]
  /\ killed = [p \in Slot |-> FALSE]
  /\ chan = [p \in Slot |-> 0]
  /\ pid = [p \in Slot |-> IF p = initproc THEN 1 ELSE 0]
  /\ th_next = [p \in Slot |-> 0]
  /\ th_main = [p \in Slot |-> IF p = initproc THEN p ELSE 0]
  /\ shared_info = [p \in Slot |-> IF p = initproc THEN 1 ELSE 0]
  /\ used = [s \in Slot |-> s = 1]
  /\ parent = [s \in Slot |-> 0]
  /\ hd = [s \in Slot |-> IF s = 1 THEN initproc ELSE 0]
  /\ last = [s \in Slot |-> IF s = 1 THEN initproc ELSE 0]
  /\ at = [p \in Slot |-> "user"]
  /\ child = [p \in Slot |-> 0]
  /\ target = [p \in Slot |-> 0]
  /\ cpu = [c \in CPU |-> 0]
  /\ ptlock = 0

RunsAt(c, a) == cpu[c] # 0 /\ at[cpu[c]] = a
Enters(c, s) == s \in Syscalls /\ RunsAt(c, "user") /\ ~killed[cpu[c]]
Min(S) == CHOOSE x \in S : \A y \in S : x <= y
MaxOf(S) == CHOOSE x \in S : \A y \in S : y <= x

\* The threads on the family list that starts at slot h.
Family(h) ==
  LET walk[n \in 0..NPROC] ==
        IF n = 0 THEN {h} \ {0}
        ELSE walk[n - 1] \cup ({th_next[x] : x \in walk[n - 1]} \ {0})
  IN  walk[NPROC]

-----------------------------------------------------------------------------
\* scheduler(): any RUNNABLE thread runs; the loop over the table only decides
\* which one is first.  A thread woken in sleep() has its channel cleared.
Dispatch(c) ==
  /\ cpu[c] = 0
  /\ ptlock = 0
  /\ \E p \in Slot :
       /\ state[p] = "RUNNABLE"
       /\ state' = [state EXCEPT ![p] = "RUNNING"]
       /\ chan' = [chan EXCEPT ![p] = 0]
       /\ cpu' = [cpu EXCEPT ![c] = p]
       /\ ptlock' = IF at[p] \in {"wait", "join"} THEN c ELSE 0
  /\ UNCHANGED <<killed, threadVars, shareVars, at, child, target>>

\* The timer interrupt: yield(), for a thread that is still RUNNING.  A
\* killed thread in user mode goes to exit() instead.
Yield(c) ==
  LET p == cpu[c]
  IN  /\ p # 0
      /\ at[p] \in Preemptible
      /\ ptlock = 0
      /\ state[p] = "RUNNING"
      /\ ~(killed[p] /\ at[p] = "user")
      /\ state' = [state EXCEPT ![p] = "RUNNABLE"]
      /\ cpu' = [cpu EXCEPT ![c] = 0]
      /\ UNCHANGED <<killed, chan, threadVars, shareVars, at, child, target, ptlock>>

\* sleep() of the thread of CPU c.
GoToSleep(c, ch, place) ==
  /\ state' = [state EXCEPT ![cpu[c]] = "SLEEPING"]
  /\ chan' = [chan EXCEPT ![cpu[c]] = ch]
  /\ at' = [at EXCEPT ![cpu[c]] = place]
  /\ cpu' = [cpu EXCEPT ![c] = 0]
  /\ ptlock' = 0

\* A system call sleeps in the kernel, perhaps again and again, and returns.
Block(c) ==
  /\ Enters(c, "block") \/ ("block" \in Syscalls /\ RunsAt(c, "kernel"))
  /\ ptlock = 0
  /\ GoToSleep(c, EVENT, "kernel")
  /\ UNCHANGED <<killed, threadVars, shareVars, child, target>>

SyscallReturn(c) ==
  /\ RunsAt(c, "kernel")
  /\ at' = [at EXCEPT ![cpu[c]] = "user"]
  /\ UNCHANGED <<state, killed, chan, threadVars, shareVars, child, target, cpu, ptlock>>

\* wakeup1(): the state of the threads once those asleep on ch are awake.
wakeup1_AnyState(st, ch) == [p \in Slot |-> IF chan[p] = ch THEN "RUNNABLE" ELSE st[p]]
wakeup1(st, ch) ==
  [p \in Slot |-> IF st[p] = "SLEEPING" /\ chan[p] = ch THEN "RUNNABLE" ELSE st[p]]

Event ==
  /\ ptlock = 0
  /\ state' = wakeup1(state, EVENT)
  /\ UNCHANGED <<killed, chan, threadVars, shareVars, at, child, target, cpu, ptlock>>

-----------------------------------------------------------------------------
\* allocproc(): the first UNUSED slot, with the next pid.  Pids are only
\* compared for equality: the next one is any number no slot has.
FirstUnused(x) == state[x] = "UNUSED" /\ \A y \in Slot : y < x => state[y] # "UNUSED"
FreshPid == Min({v \in 1..(NPROC + 1) : \A x \in Slot : pid[x] # v})

allocproc(c, place) ==
  \E x \in Slot :
    /\ ptlock = 0
    /\ FirstUnused(x)
    /\ state' = [state EXCEPT ![x] = "EMBRYO"]
    /\ pid' = [pid EXCEPT ![x] = FreshPid]
    /\ th_next' = [th_next EXCEPT ![x] = 0]
    /\ th_main' = [th_main EXCEPT ![x] = x]
    /\ child' = [child EXCEPT ![cpu[c]] = x, ![x] = 0]
    /\ at' = [at EXCEPT ![cpu[c]] = place, ![x] = "user"]
    /\ UNCHANGED <<killed, chan, shared_info, shareVars, target, cpu, ptlock>>

FirstThread(c) == th_main[cpu[c]] = cpu[c]

ForkAlloc(c) ==
  /\ cpu[c] # 0
  /\ Enters(c, IF FirstThread(c) THEN "fork" ELSE "fork2")
  /\ allocproc(c, "fork")

\* The first process has one thread.
ThreadAlloc(c) ==
  /\ cpu[c] \notin {0, initproc}
  /\ Enters(c, IF FirstThread(c) THEN "spawn" ELSE "spawn2")
  /\ allocproc(c, "thread")

\* kalloc() or copyuvm() found no memory: the slot is UNUSED again; its pid
\* stays and ptable.lock is not taken.
AllocFail(c) ==
  /\ RunsAt(c, "fork") \/ RunsAt(c, "thread")
  /\ state' = [state EXCEPT ![child[cpu[c]]] = "UNUSED"]
  /\ child' = [child EXCEPT ![cpu[c]] = 0]
  /\ at' = [at EXCEPT ![cpu[c]] = "user"]
  /\ UNCHANGED <<killed, chan, threadVars, shareVars, target, cpu, ptlock>>

\* alloc_th_share() in fork(): the first EMPTY share, which is not yet marked.
\* "No more thread share table entry. It's not possible": the machine stops.
Empty == {s \in Slot : ~used[s]}
FindShare(c) ==
  LET s == Min(Empty)
  IN  /\ RunsAt(c, "fork")
      /\ Empty # {}
      /\ shared_info' = [shared_info EXCEPT ![child[cpu[c]]] = s]
      /\ parent' = [parent EXCEPT ![s] = 0]
      /\ hd' = [hd EXCEPT ![s] = 0]
      /\ last' = [last EXCEPT ![s] = 0]
      /\ at' = [at EXCEPT ![cpu[c]] = "share"]
      /\ UNCHANGED <<state, killed, chan, pid, th_next, th_main, used, child, target, cpu, ptlock>>

\* fork() marks the share and fills it, without a lock.
Marked(s) == [used EXCEPT ![s] = TRUE]
FillShare(c) ==
  LET np == child[cpu[c]]
      s == shared_info[np]
  IN  /\ RunsAt(c, "share")
      /\ used' = Marked(s)
      /\ hd' = [hd EXCEPT ![s] = np]
      /\ last' = [last EXCEPT ![s] = np]
      /\ parent' = [parent EXCEPT ![s] = cpu[c]]
      /\ at' = [at EXCEPT ![cpu[c]] = "forked"]
      /\ UNCHANGED <<state, killed, chan, threadVars, child, target, cpu, ptlock>>

ForkDone(c) ==
  /\ RunsAt(c, "forked")
  /\ ptlock = 0
  /\ state' = [state EXCEPT ![child[cpu[c]]] = "RUNNABLE"]
  /\ child' = [child EXCEPT ![cpu[c]] = 0]
  /\ at' = [at EXCEPT ![cpu[c]] = "user"]
  /\ UNCHANGED <<killed, chan, threadVars, shareVars, target, cpu, ptlock>>

-----------------------------------------------------------------------------
\* The locked part of thread_create(): the new thread joins the process and is
\* linked behind the last of the family; or allocuvm() found no memory and the
\* slot is UNUSED again, with the pid of the process.
thread_create(c) ==
  LET p == cpu[c]
      x == child[p]
      s == shared_info[p]
  IN  /\ RunsAt(c, "thread")
      /\ ptlock = 0
      /\ pid' = [pid EXCEPT ![x] = pid[p]]
      /\ shared_info' = [shared_info EXCEPT ![x] = s]
      /\ th_main' = [th_main EXCEPT ![x] = p]
      /\ \/ /\ state' = [state EXCEPT ![x] = "RUNNABLE"]
            /\ hd' = [hd EXCEPT ![s] = IF @ = 0 THEN x ELSE @]
            /\ last' = [last EXCEPT ![s] = x]
            /\ th_next' = [q \in Slot |-> IF q = x THEN 0
                                          ELSE IF hd[s] # 0 /\ q = last[s] THEN x
                                          ELSE th_next[q]]
         \/ /\ state' = [state EXCEPT ![x] = "UNUSED"]
            /\ th_next' = [th_next EXCEPT ![x] = 0]
            /\ UNCHANGED <<hd, last>>
      /\ child' = [child EXCEPT ![p] = 0]
      /\ at' = [at EXCEPT ![p] = "user"]
      /\ UNCHANGED <<killed, chan, used, parent, target, cpu, ptlock>>

\* thread_exit() is refused to the first thread, and to one that exec() made
\* the first.
ThreadExitBegin(c) ==
  /\ Enters(c, "thread_exit")
  /\ th_main[cpu[c]] # cpu[c]
  /\ at' = [at EXCEPT ![cpu[c]] = "thread_exit"]
  /\ UNCHANGED <<state, killed, chan, threadVars, shareVars, child, target, cpu, ptlock>>

JoinWakeup_None(p) == 0
JoinWakeup(p) == th_main[p]
thread_exit(c) ==
  LET p == cpu[c]
  IN  /\ RunsAt(c, "thread_exit")
      /\ ptlock = 0
      /\ state' = [wakeup1(state, JoinWakeup(p)) EXCEPT ![p] = "ZOMBIE"]
      /\ cpu' = [cpu EXCEPT ![c] = 0]
      /\ UNCHANGED <<killed, chan, threadVars, shareVars, at, child, target, ptlock>>

\* The slots R are given back: whoever joins one of them waits for a thread
\* id that no slot has any more.
Forget(R, field) == [x \in Slot |-> IF x \in R THEN 0 ELSE field[x]]
Reap(R) ==
  /\ state' = [x \in Slot |-> IF x \in R THEN "UNUSED" ELSE state[x]]
  /\ killed' = [x \in Slot |-> killed[x] /\ x \notin R]
  /\ pid' = Forget(R, pid)
  /\ th_main' = Forget(R, th_main)

\* delete_thread(): x is unlinked from its family.  thread_join() has cleared
\* x's th_next before, so the list ends where x was.
Before(x) == {y \in Family(hd[shared_info[x]]) : th_next[y] = x}
NewLast_Kept(x, s) == last[s]
NewLast(x, s) == IF hd[s] \in {0, x} THEN last[s]
                 ELSE IF Before(x) # {} THEN Min(Before(x))
                 ELSE MaxOf({y \in Family(hd[s]) : th_next[y] = 0})
delete_thread(x) ==
  LET s == shared_info[x]
  IN  /\ hd' = [hd EXCEPT ![s] = IF @ = x THEN 0 ELSE @]
      /\ last' = [last EXCEPT ![s] = NewLast(x, s)]
      /\ th_next' = Forget({x} \cup Before(x), th_next)

\* thread_join() of a thread of the own process.  The loop looks through the
\* table, then sleeps on the joiner's th_main.
JoinEnter(c, t) ==
  /\ Enters(c, "thread_join")
  /\ t # cpu[c] /\ th_main[t] # t /\ pid[t] = pid[cpu[c]] /\ state[t] \in Alive \cup {"ZOMBIE"}
  /\ ptlock = 0
  /\ ptlock' = c
  /\ at' = [at EXCEPT ![cpu[c]] = "join"]
  /\ target' = [target EXCEPT ![cpu[c]] = t]
  /\ UNCHANGED <<state, killed, chan, threadVars, shareVars, child, cpu>>

Joinable(p) == target[p] # 0 /\ state[target[p]] = "ZOMBIE"
JoinReap(c) ==
  LET p == cpu[c]
      t == target[p]
  IN  /\ RunsAt(c, "join") /\ ptlock = c
      /\ Joinable(p)
      /\ Reap({t})
      /\ delete_thread(t)
      /\ target' = [x \in Slot |-> IF target[x] = t THEN 0 ELSE target[x]]
      /\ at' = [at EXCEPT ![p] = "user"]
      /\ ptlock' = 0
      /\ UNCHANGED <<chan, shared_info, used, parent, child, cpu>>

JoinFails(c) ==
  /\ RunsAt(c, "join") /\ ptlock = c
  /\ ~Joinable(cpu[c]) /\ killed[cpu[c]]
  /\ target' = [target EXCEPT ![cpu[c]] = 0]
  /\ at' = [at EXCEPT ![cpu[c]] = "user"]
  /\ ptlock' = 0
  /\ UNCHANGED <<state, killed, chan, threadVars, shareVars, child, cpu>>

JoinSleep(c) ==
  /\ RunsAt(c, "join") /\ ptlock = c
  /\ ~Joinable(cpu[c]) /\ ~killed[cpu[c]]
  /\ GoToSleep(c, th_main[cpu[c]], "join")
  /\ UNCHANGED <<killed, threadVars, shareVars, child, target>>

-----------------------------------------------------------------------------
\* exit() by the system call or by trap() for a killed thread.  The first
\* process must not exit (panic "init exiting").
ExitBegin(c) ==
  /\ RunsAt(c, "user")
  /\ cpu[c] # initproc
  /\ killed[cpu[c]] \/ "exit" \in Syscalls
  /\ at' = [at EXCEPT ![cpu[c]] = "exit"]
  /\ UNCHANGED <<state, killed, chan, threadVars, shareVars, child, target, cpu, ptlock>>

\* The slots whose share has parent p, UNUSED slots included that still point
\* to it.  (Slots never used have no share.)
Kids(p) == {x \in Slot : shared_info[x] # 0 /\ parent[shared_info[x]] = p}

\* exit() passes the shares of the children to init, at the first slot it
\* meets of each; only if that slot is a zombie it wakes init.
FirstKids(p) == {x \in Kids(p) : \A y \in Kids(p) : shared_info[y] = shared_info[x] => x <= y}
WakesInit(p) == \E x \in FirstKids(p) : state[x] = "ZOMBIE"
PassedOn(p) == [s \in Slot |-> IF \E x \in Kids(p) : shared_info[x] = s THEN initproc ELSE parent[s]]

\* The locked part of exit(): the whole family becomes zombies.  A thread
\* that is not on its own family list would run into sched()'s panic "sched
\* running": the machine stops.
Exiting(p) == Family(hd[shared_info[p]])
exit(c) ==
  LET p == cpu[c]
      st1 == wakeup1(state, parent[shared_info[p]])
      st2 == IF WakesInit(p) THEN wakeup1(st1, initproc) ELSE st1
  IN  /\ RunsAt(c, "exit")
      /\ ptlock = 0
      /\ p \in Exiting(p)
      /\ parent' = PassedOn(p)
      /\ state' = [x \in Slot |-> IF x \in Exiting(p) THEN "ZOMBIE" ELSE st2[x]]
      /\ cpu' = [cpu EXCEPT ![c] = 0]
      /\ UNCHANGED <<killed, chan, threadVars, used, hd, last, at, child, target, ptlock>>

\* wait() is entered, or goes on, with ptable.lock.
WaitEnter(c) ==
  /\ Enters(c, "wait")
  /\ ptlock = 0
  /\ ptlock' = c
  /\ at' = [at EXCEPT ![cpu[c]] = "wait"]
  /\ UNCHANGED <<state, killed, chan, threadVars, shareVars, child, target, cpu>>

ZombieKids(p) == {x \in Kids(p) : state[x] = "ZOMBIE"}

\* wait() reaps every zombie it finds and frees the share of the last one.
WaitReap(c) ==
  LET p == cpu[c]
      Z == ZombieKids(p)
      s == shared_info[MaxOf(Z)]
  IN  /\ RunsAt(c, "wait") /\ ptlock = c
      /\ Z # {}
      /\ Reap(Z)
      /\ th_next' = Forget(Z, th_next)
      /\ used' = [used EXCEPT ![s] = FALSE]
      /\ parent' = [parent EXCEPT ![s] = 0]
      /\ hd' = [hd EXCEPT ![s] = 0]
      /\ last' = [last EXCEPT ![s] = 0]
      /\ target' = [x \in Slot |-> IF target[x] \in Z THEN 0 ELSE target[x]]
      /\ at' = [at EXCEPT ![p] = "user"]
      /\ ptlock' = 0
      /\ UNCHANGED <<chan, shared_info, child, cpu>>

WaitFails(c) ==
  /\ RunsAt(c, "wait") /\ ptlock = c
  /\ ZombieKids(cpu[c]) = {}
  /\ Kids(cpu[c]) = {} \/ killed[cpu[c]]
  /\ at' = [at EXCEPT ![cpu[c]] = "user"]
  /\ ptlock' = 0
  /\ UNCHANGED <<state, killed, chan, threadVars, shareVars, child, target, cpu>>

WaitChan(p) == p
WaitSleep(c) ==
  /\ RunsAt(c, "wait") /\ ptlock = c
  /\ ZombieKids(cpu[c]) = {}
  /\ Kids(cpu[c]) # {} /\ ~killed[cpu[c]]
  /\ GoToSleep(c, WaitChan(cpu[c]), "wait")
  /\ UNCHANGED <<killed, threadVars, shareVars, child, target>>

-----------------------------------------------------------------------------
\* kill(): the first slot with that pid, and the threads of its family.
KillWakes(F) == Family(hd[shared_info[F]])
Kill(c, v) ==
  LET F == Min({x \in Slot : pid[x] = v})
      K == Family(hd[shared_info[F]])
  IN  /\ Enters(c, "kill")
      /\ \E t \in Slot : pid[t] = v /\ state[t] \in Alive \cup {"ZOMBIE"} /\ t # initproc
      /\ ptlock = 0
      /\ killed' = [x \in Slot |-> killed[x] \/ x = F \/ x \in K]
      /\ state' = [x \in Slot |-> IF x \in KillWakes(F) /\ state[x] = "SLEEPING" THEN "RUNNABLE" ELSE state[x]]
      /\ UNCHANGED <<chan, threadVars, shareVars, at, child, target, cpu, ptlock>>

\* The threads that kill_threads() ends when p calls exec().
OtherThreads(p) == Family(hd[shared_info[p]]) \ {p}

\* exec(): kill_threads() makes zombies of the other threads, without the
\* lock; the program is then loaded, which sleeps, or is found to be bad.
exec(c) ==
  LET p == cpu[c]
      s == shared_info[p]
  IN  /\ Enters(c, "exec")
      /\ p # initproc
      /\ state' = [x \in Slot |-> IF x \in OtherThreads(p) THEN "ZOMBIE" ELSE state[x]]
      /\ last' = [last EXCEPT ![s] = p]
      /\ hd' = [hd EXCEPT ![s] = p]
      /\ th_main' = [th_main EXCEPT ![p] = p]
      /\ th_next' = [th_next EXCEPT ![p] = 0]
      /\ at' = [at EXCEPT ![p] = "kernel"]
      /\ UNCHANGED <<killed, chan, pid, shared_info, used, parent, child, target, cpu, ptlock>>

-----------------------------------------------------------------------------
Step(c) ==
  \/ Dispatch(c) \/ Yield(c) \/ Block(c) \/ SyscallReturn(c)
  \/ ForkAlloc(c) \/ AllocFail(c) \/ FindShare(c) \/ FillShare(c) \/ ForkDone(c)
  \/ ThreadAlloc(c) \/ thread_create(c)
  \/ ThreadExitBegin(c) \/ thread_exit(c)
  \/ \E t \in Slot : JoinEnter(c, t)
  \/ JoinReap(c) \/ JoinFails(c) \/ JoinSleep(c)
  \/ ExitBegin(c) \/ exit(c)
  \/ WaitEnter(c) \/ WaitReap(c) \/ WaitFails(c) \/ WaitSleep(c)
  \/ \E v \in 1..(NPROC + 1) : Kill(c, v)
  \/ exec(c)

Next == Event \/ \E c \in CPU : Step(c)
Spec == Init /\ [][Next]_vars

-----------------------------------------------------------------------------
\* The type invariant of the process table, the shares and the CPUs.
TypeOK ==
  /\ state \in [Slot -> State]
  /\ killed \in [Slot -> BOOLEAN]
  /\ chan \in [Slot -> 0..EVENT]
  /\ pid \in [Slot -> 0..(NPROC + 1)]
  /\ {th_next, th_main, shared_info, parent, hd, last, child, target}
       \subseteq [Slot -> 0..NPROC]
  /\ used \in [Slot -> BOOLEAN]
  /\ at \in [Slot -> Place]
  /\ cpu \in [CPU -> 0..NPROC]
  /\ ptlock \in CPU \cup {0}

\* "An exited process remains in the zombie state until its parent calls
\* wait()": no step brings a zombie back to life.
ZombieStays ==
  [][\A p \in Slot : state[p] = "ZOMBIE" => state'[p] \in {"ZOMBIE", "UNUSED"}]_vars

\* The processes that have not been reaped, and the threads of one of them.
Threads(v) == {x \in Slot : pid[x] = v /\ state[x] \in Alive \cup {"ZOMBIE"}}
Exited(v) == Threads(v) # {} /\ \A x \in Threads(v) : state[x] = "ZOMBIE"

\* Nobody sleeps in wait() while a child has exited.
NoLostWakeup ==
  \A p \in Slot : state[p] = "SLEEPING" /\ at[p] = "wait" =>
    \A x \in ZombieKids(p) : ~Exited(pid[x])

\* Every process but the first has a parent that is alive: exit() passes the
\* children on to init.
NoOrphan ==
  \A x \in Slot \ {initproc} : state[x] \in Alive =>
    parent[shared_info[x]] # 0 /\ state[parent[shared_info[x]]] \in Alive

\* Two processes never share a th_share record.
ShareUnique ==
  \A x, y \in Slot :
    state[x] \in Alive /\ state[y] \in Alive /\ shared_info[x] = shared_info[y] => pid[x] = pid[y]

\* th_last is the end of the family list, so that thread_create() links every
\* new thread where exit(), kill() and exec() find it.
LastIsTail ==
  \A s \in Slot : used[s] => last[s] \in Family(hd[s]) /\ th_next[last[s]] = 0

\* A thread that is on the list of its process.
Listed(p) == shared_info[p] # 0 /\ p \in Family(hd[shared_info[p]])

\* No thread on the list of its process sleeps in thread_join() of a thread
\* on the list that has exited.
JoinerWoken ==
  \A p \in Slot : /\ state[p] = "SLEEPING" /\ at[p] = "join" /\ Listed(p)
                  /\ target[p] # 0 /\ Listed(target[p])
                 => state[target[p]] # "ZOMBIE"

\* A killed thread that its process can still find does not sleep on in
\* wait() or thread_join(), wherever the kill() fell between its looking at
\* killed and its sleep().
KilledAwake ==
  \A p \in Slot : killed[p] /\ at[p] \in {"wait", "join"} /\ Listed(p) => state[p] # "SLEEPING"

\* exit() makes zombies of all threads of the process.
ExitEndsAll ==
  [][\A p \in Slot : state[p] = "RUNNING" /\ at[p] = "exit" /\ state'[p] = "ZOMBIE" =>
       \A x \in Threads(pid[p]) : state'[x] = "ZOMBIE"]_vars
=============================================================================
