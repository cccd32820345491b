-------------------------------- MODULE Boot --------------------------------
(***************************************************************************)
(* The start of the kernel: main.c, entryother.S, the processor table of   *)
(* mp.c and the two phases of kalloc.c.  The boot processor starts the     *)
(* others one by one, handing each its stack through one word of memory,   *)
(* while those already started run the scheduler; until kinit2() is done   *)
(* the page allocator works without its lock.                              *)
(*                                                                         *)
(* kalloc() and kfree() are two steps each, the read of the list and the   *)
(* write: another CPU comes between unless the lock keeps it out.          *)
(***************************************************************************)
EXTENDS Integers, Sequences, FiniteSets

CONSTANTS
  Tables,   \* tables of the BIOS: APIC ids, and 0 for an entry of another known type, -1 of an unknown one
  BSP,      \* the APIC id of the boot processor
  NCPU,
  LOWFRAMES, NFRAMES,   \* frames 1..LOWFRAMES are below 4 MB
  MaxTasks  \* the most processes

VARIABLES
  mptable, cpus,      \* the table, and the processors taken from it
  bat,                \* where main() is
  c,                  \* the index in startothers(), or the next frame of kinit2()
  word,               \* the word at code-4
  hw,                 \* APIC id -> where that processor is, its stack, "started"
  use_lock, kmlock,   \* kmem.use_lock, who holds kmem.lock
  freelist, nextf,    \* the head of the list, r->next
  mem,                \* APIC id -> the call of kalloc() or kfree() that it is in
  ready, tasks,       \* processes that can run, that exist
  held                \* frame -> how many times it is in use
bootVars == <<mptable, cpus, bat, c, word, hw, use_lock, kmlock, freelist, nextf, mem, ready, tasks, held>>

Apic == UNION {{t[k] : k \in DOMAIN t} : t \in Tables} \ {0, -1}
Frames == 1..NFRAMES
NoCall == [op |-> "none", r |-> 0, for |-> "none"]

BootInit ==
  /\ mptable \in Tables /\ cpus = <<>>
  /\ bat = "kinit1" /\ c = 0 /\ word = 0
  /\ hw = [x \in Apic |-> [at |-> IF x = BSP THEN "main" ELSE "off", stack |-> 0, started |-> FALSE]]
  /\ use_lock = FALSE /\ kmlock = 0
  /\ freelist = 0 /\ nextf = [f \in Frames |-> 0]
  /\ mem = [x \in Apic |-> NoCall]
  /\ ready = 0 /\ tasks = 0
  /\ held = [f \in Frames |-> 0]

\* kinit1(): freerange() of the low frames, while no other processor runs.
kinit1 ==
  /\ bat = "kinit1" /\ bat' = "mpinit"
  /\ freelist' = LOWFRAMES
  /\ nextf' = [f \in Frames |-> IF f <= LOWFRAMES THEN f - 1 ELSE 0]
  /\ UNCHANGED <<mptable, cpus, c, word, hw, use_lock, kmlock, mem, ready, tasks, held>>

\* mpinit(): the first NCPU processors of the table.  At an entry of an unknown
\* type the loop does not advance, and never ends, like the one of panic().
IsProc(e) == e > 0
Spin ==
  /\ \/ bat = "mpinit" /\ \E k \in DOMAIN mptable : mptable[k] = -1
     \/ bat = "panic: unknown apicid"
  /\ UNCHANGED bootVars
FirstOf(s, n) == SubSeq(s, 1, IF Len(s) < n THEN Len(s) ELSE n)
mpinit ==
  /\ bat = "mpinit" /\ \A k \in DOMAIN mptable : mptable[k] # -1
  /\ cpus' = FirstOf(SelectSeq(mptable, IsProc), NCPU)
  /\ bat' = "init"
  /\ UNCHANGED <<mptable, c, word, hw, use_lock, kmlock, freelist, nextf, mem, ready, tasks, held>>

\* lapicinit() to ideinit(); the first of them that calls mycpu() finds out
\* whether this processor is among those taken.
Known(x) == \E k \in DOMAIN cpus : cpus[k] = x
Devices ==
  /\ bat = "init"
  /\ bat' = IF Known(BSP) THEN "startothers" ELSE "panic: unknown apicid"
  /\ c' = 1
  /\ UNCHANGED <<mptable, cpus, word, hw, use_lock, kmlock, freelist, nextf, mem, ready, tasks, held>>

-----------------------------------------------------------------------------
\* The first half of kalloc() and of kfree(f).
Read(x, op, f, for) ==
  /\ mem[x] = NoCall /\ (use_lock => kmlock = 0)
  /\ kmlock' = IF use_lock THEN x ELSE kmlock
  /\ mem' = [mem EXCEPT ![x] = [op |-> op, r |-> IF op = "kalloc" THEN freelist ELSE f, for |-> for]]
  /\ nextf' = IF op = "kfree" THEN [nextf EXCEPT ![f] = freelist] ELSE nextf
\* The second half: the head becomes r->next, or r.
Write(x) ==
  /\ freelist' = IF mem[x].op = "kfree" THEN mem[x].r
                 ELSE IF mem[x].r # 0 THEN nextf[mem[x].r] ELSE freelist
  /\ kmlock' = IF kmlock = x THEN 0 ELSE kmlock
  /\ mem' = [mem EXCEPT ![x] = NoCall]
Given(x, n) == held' = [held EXCEPT ![mem[x].r] = @ + n]
InCall(x, for) == mem[x].for = for

\* startothers(): the next processor that is not this one gets a stack.
Ends(k) == k > Len(cpus)
StartNext ==
  /\ bat = "startothers" /\ mem[BSP] = NoCall
  /\ \/ /\ Ends(c) /\ bat' = "kinit2" /\ c' = LOWFRAMES + 1 /\ UNCHANGED <<kmlock, nextf, mem>>
     \/ /\ ~Ends(c) /\ cpus[c] = BSP /\ c' = c + 1 /\ UNCHANGED <<bat, kmlock, nextf, mem>>
     \/ /\ ~Ends(c) /\ cpus[c] # BSP /\ Read(BSP, "kalloc", 0, "stack") /\ UNCHANGED <<bat, c>>
  /\ UNCHANGED <<mptable, cpus, word, hw, use_lock, freelist, ready, tasks, held>>
\* lapicstartap(): INIT and STARTUP; the processor starts at the entry code.
lapicstartap(x) == hw' = [hw EXCEPT ![x].at = "start"]
StartAp ==
  /\ bat = "startothers" /\ InCall(BSP, "stack")
  /\ word' = mem[BSP].r
  /\ Given(BSP, 1) /\ Write(BSP)
  /\ lapicstartap(cpus[c])
  /\ bat' = "started?"
  /\ UNCHANGED <<mptable, cpus, c, use_lock, nextf, ready, tasks>>
\* while(c->started == 0)
IsUp_Ignored(x) == TRUE
IsUp(x) == hw[x].started
WaitStarted ==
  /\ bat = "started?" /\ IsUp(cpus[c])
  /\ bat' = "startothers" /\ c' = c + 1
  /\ UNCHANGED <<mptable, cpus, word, hw, use_lock, kmlock, freelist, nextf, mem, ready, tasks, held>>

\* entryother.S loads the stack; mpenter() and mpmain(), and "started".
EntryOther(x) ==
  /\ hw[x].at = "start"
  /\ hw' = [hw EXCEPT ![x].at = "mpenter", ![x].stack = word]
  /\ UNCHANGED <<mptable, cpus, bat, c, word, use_lock, kmlock, freelist, nextf, mem, ready, tasks, held>>
mpmain(x) ==
  /\ hw[x].at = "mpenter"
  /\ hw' = [hw EXCEPT ![x].at = "scheduler", ![x].started = TRUE]
  /\ UNCHANGED <<mptable, cpus, bat, c, word, use_lock, kmlock, freelist, nextf, mem, ready, tasks, held>>

LockOn == TRUE
\* kinit2(): the other frames, one by one, and then the lock.
kinit2 ==
  /\ bat = "kinit2"
  /\ \/ c <= NFRAMES /\ Read(BSP, "kfree", c, "range") /\ c' = c + 1 /\ UNCHANGED <<bat, freelist, use_lock>>
     \/ InCall(BSP, "range") /\ Write(BSP) /\ UNCHANGED <<bat, c, nextf, use_lock>>
     \/ /\ c > NFRAMES /\ mem[BSP] = NoCall
        /\ use_lock' = LockOn /\ bat' = "userinit" /\ UNCHANGED <<c, kmlock, freelist, nextf, mem>>
  /\ UNCHANGED <<mptable, cpus, word, hw, ready, tasks, held>>

\* userinit(): memory for the first process, which any processor may then run.
userinit ==
  /\ bat = "userinit"
  /\ \/ Read(BSP, "kalloc", 0, "user") /\ UNCHANGED <<bat, freelist, ready, tasks, held>>
     \/ /\ InCall(BSP, "user") /\ Given(BSP, 1) /\ Write(BSP)
        /\ ready' = 1 /\ tasks' = 1 /\ bat' = "mpmain" /\ UNCHANGED nextf
  /\ UNCHANGED <<mptable, cpus, c, word, hw, use_lock>>
\* The boot processor joins the others.
MainEnds ==
  /\ bat = "mpmain" /\ bat' = "done"
  /\ hw' = [hw EXCEPT ![BSP].at = "scheduler", ![BSP].started = TRUE]
  /\ UNCHANGED <<mptable, cpus, c, word, use_lock, kmlock, freelist, nextf, mem, ready, tasks, held>>

-----------------------------------------------------------------------------
\* scheduler(): a process that can run; and back.
Dispatch(x) ==
  /\ hw[x].at = "scheduler" /\ ready > 0
  /\ ready' = ready - 1 /\ hw' = [hw EXCEPT ![x].at = "process"]
  /\ UNCHANGED <<mptable, cpus, bat, c, word, use_lock, kmlock, freelist, nextf, mem, tasks, held>>
Preempt(x) ==
  /\ hw[x].at = "process" /\ mem[x] = NoCall
  /\ ready' = ready + 1 /\ hw' = [hw EXCEPT ![x].at = "scheduler"]
  /\ UNCHANGED <<mptable, cpus, bat, c, word, use_lock, kmlock, freelist, nextf, mem, tasks, held>>
\* A process takes a page for itself or for a child, or gives one back.
InUse == {f \in Frames : held[f] > 0} \ {hw[x].stack : x \in Apic}
ProcessAsks(x) ==
  /\ hw[x].at = "process"
  /\ \/ Cardinality(InUse) < MaxTasks + 1 /\ \E for \in {"page", "fork"} :
          (for = "fork" => tasks < MaxTasks) /\ Read(x, "kalloc", 0, for) /\ UNCHANGED <<tasks, held>>
     \/ \E f \in InUse : /\ Cardinality(InUse) > tasks /\ Read(x, "kfree", f, "page")
                         /\ held' = [held EXCEPT ![f] = @ - 1] /\ UNCHANGED tasks
  /\ UNCHANGED <<mptable, cpus, bat, c, word, hw, use_lock, freelist, ready>>
ProcessGets(x) ==
  /\ hw[x].at = "process" /\ mem[x] # NoCall
  /\ IF mem[x].op = "kfree" \/ mem[x].r = 0 THEN UNCHANGED <<held, ready, tasks>>
     ELSE /\ Given(x, 1)
          /\ IF mem[x].for = "fork" THEN ready' = ready + 1 /\ tasks' = tasks + 1
             ELSE UNCHANGED <<ready, tasks>>
  /\ Write(x)
  /\ UNCHANGED <<mptable, cpus, bat, c, word, hw, use_lock, nextf>>

MainStep ==
  \/ kinit1 \/ mpinit \/ Devices \/ StartNext \/ StartAp \/ WaitStarted
  \/ kinit2 \/ userinit \/ MainEnds
OtherStep(x) == EntryOther(x) \/ mpmain(x)
TaskStep(x) == Dispatch(x) \/ Preempt(x) \/ ProcessAsks(x) \/ ProcessGets(x)
BootNext == MainStep \/ Spin \/ \E x \in Apic : OtherStep(x) \/ TaskStep(x)
BootSpec == BootInit /\ [][BootNext]_bootVars

-----------------------------------------------------------------------------
\* The frames on the list, as far as NFRAMES of them.
Listed == LET upto[k \in 0..NFRAMES] == IF k = 0 THEN freelist
                                        ELSE IF upto[k - 1] = 0 THEN 0 ELSE nextf[upto[k - 1]]
          IN  {upto[k] : k \in 0..NFRAMES} \ {0}
Stacks == {hw[x].stack : x \in Apic} \ {0}

\* The processors have stacks of their own, which the page table that they start
\* with maps, and no frame is given out twice or while it is on the list,
\* although the list has no lock while the others already run.
BootSafe ==
  /\ \A x, y \in Apic : x # y /\ hw[x].stack = hw[y].stack => hw[x].stack = 0
  /\ Stacks \subseteq 1..LOWFRAMES
  /\ \A f \in Frames : held[f] <= 1 /\ (held[f] = 1 => f \notin Listed \/ \E x \in Apic : mem[x].r = f)

\* A table that mpinit() can read, with the boot processor in it.
Suitable ==
  LET procs == FirstOf(SelectSeq(mptable, IsProc), NCPU)
  IN  /\ \A k \in DOMAIN mptable : mptable[k] # -1
      /\ \E k \in DOMAIN procs : procs[k] = BSP
AllUp == bat = "done" /\ \A k \in DOMAIN cpus : hw[cpus[k]].started
=============================================================================
