------------------------------- MODULE Memory -------------------------------
(***************************************************************************)
(* Memory: the page allocator (kalloc.c), the page tables (vm.c), and what *)
(* sbrk(), fork(), exec(), exec2(), thread_create(), exit() and wait() do  *)
(* with them, in both projects: in Project2 an address space belongs to a  *)
(* family of threads, which are preempted between any two pages.           *)
(*                                                                         *)
(* Addresses count units of PGSIZE \div 2 or so: PGSIZE is small.  A frame *)
(* has one value for its whole content.  There is one CPU: a thread that   *)
(* exit() or exec() ends stops at once, and nobody else runs while         *)
(* thread_create() has ptable.lock.                                        *)
(***************************************************************************)
EXTENDS Integers, Sequences, FiniteSets

CONSTANTS
  NPROC,
  Sizes,      \* numbers of page frames that a machine may have
  PGSIZE,
  NPT,        \* pages of one page table (NPTENTRIES)
  KTAB,       \* page tables of the kernel's part of an address space
  KERNBASE,   \* where the user part ends
  WORD,       \* uint counts modulo WORD (2^32 in the code)
  SbrkArgs, Limits, Stacks,  \* arguments of sbrk(), setmemorylimit(), exec2()
  Programs,   \* the files that exec() loads: sequences of segments
  Projects    \* the projects, {1, 2}

\* userinit() finds memory: a kernel stack, a directory with the kernel's tables,
\* a page and the table for it.
ASSUME MemAssumption ==
  /\ {NPROC, PGSIZE, NPT, KERNBASE, WORD} \subseteq Nat \ {0} /\ KTAB \in Nat /\ PGSIZE < KERNBASE
  /\ \E n \in Sizes : \A k \in Sizes : k <= n
  /\ \A n \in Sizes : n \in Nat /\ n >= KTAB + 4
  /\ SbrkArgs \subseteq Int /\ Limits \cup Stacks \subseteq Nat
  /\ Programs \subseteq Seq([va : Nat, end : Nat, file : Nat])
  /\ Projects \subseteq {1, 2}

Slot == 1..NPROC
Frame == 1..(CHOOSE n \in Sizes : \A k \in Sizes : k <= n)
Page == 0..((KERNBASE - 1) \div PGSIZE)
Table == {v \div NPT : v \in Page}
Absent == [f |-> 0, u |-> FALSE]
Zero == 0
Junk == -1
Text == -2
NoSpace == [kt |-> {}, pt |-> [i \in Table |-> 0], pte |-> [v \in Page |-> Absent]]
NoJob == [op |-> "no", at |-> "no", dir |-> 0, a |-> 0, old |-> 0, to |-> 0,
          child |-> 0, prog |-> <<>>, stack |-> 1]

PGROUNDUP(a) == ((a + PGSIZE - 1) \div PGSIZE) * PGSIZE
Lowest(S) == CHOOSE x \in S : \A y \in S : x <= y

VARIABLES
  project,    \* which project's kernel runs
  m,          \* memory: the frames of this machine, the free ones, the frames' content, the
              \* address space at a pgdir
  st,         \* p->state
  kstack, pgdir, share,      \* fields of struct proc
  sz, limit, parent, head,   \* fields of struct th_share (Project1: of struct proc); th_family_hd
  job,        \* the memory call that p is in
  torn,       \* "raced": threads of one process overlapped in memory calls, one was
              \* ended in one, or its limit was set meanwhile; "reused": wait() took the th_share of a living process
  panicked
memVars == <<project, m, st, kstack, pgdir, share, sz, limit, parent, head, job, torn, panicked>>

-----------------------------------------------------------------------------
\* kalloc(): a free frame; the caller has seen that there is one.
kalloc(x) == Lowest(x.free)
Out(x) == x.free = {}
Took(x, f, v) == [x EXCEPT !.free = @ \ {f}, !.content[f] = v]

\* kfree() of some frames: the content becomes junk.
kfree(x, F) == [x EXCEPT !.free = @ \cup F,
                         !.content = [f \in Frame |-> IF f \in F THEN Junk ELSE @[f]]]

\* walkpgdir(): the page table for page v, which may have to be allocated.
NoTable(x, d, v) == x.space[d].pt[v \div NPT] = 0
walkpgdir(x, d, v) ==
  IF ~NoTable(x, d, v) THEN x
  ELSE [Took(x, kalloc(x), Zero) EXCEPT !.space[d].pt[v \div NPT] = kalloc(x)]

\* mappages() of one page.  "res" is "ok", "full" or "remap".
mappages(x, d, v, f, u) ==
  CASE NoTable(x, d, v) /\ Out(x) -> [res |-> "full", x |-> x]
    [] x.space[d].pte[v] # Absent -> [res |-> "remap", x |-> x]
    [] OTHER -> [res |-> "ok", x |-> [walkpgdir(x, d, v) EXCEPT !.space[d].pte[v] = [f |-> f, u |-> u]]]

\* One page for address space d, with content c: a round of the loops of
\* allocuvm() and copyuvm().
NewPage_KeepMem(x, d, v, c, u) ==
  LET f == kalloc(x)
      r == mappages(Took(x, f, c), d, v, f, u)
  IN  IF Out(x) THEN [res |-> "full", x |-> x] ELSE r
NewPage(x, d, v, c, u) ==
  LET f == kalloc(x)
      r == mappages(Took(x, f, c), d, v, f, u)
  IN  IF Out(x) THEN [res |-> "full", x |-> x]
      ELSE IF r.res = "full" THEN [r EXCEPT !.x = kfree(r.x, {f})] ELSE r

\* deallocuvm(): the pages from PGROUNDUP(new) up to old.
Dropped(old, new) == {v \in Page : v * PGSIZE >= PGROUNDUP(new) /\ v * PGSIZE < old}
deallocuvm(x, d, old, new) ==
  LET gone == Dropped(old, new)
  IN  kfree([x EXCEPT !.space[d].pte = [v \in Page |-> IF v \in gone THEN Absent ELSE @[v]]],
            {x.space[d].pte[v].f : v \in gone} \ {0})

\* freevm(): the pages, the page tables and the directory.
Tables(s) == s.kt \cup ({s.pt[i] : i \in Table} \ {0})
freevm(x, d) ==
  LET y == deallocuvm(x, d, KERNBASE, 0)
  IN  [kfree(y, {d} \cup Tables(y.space[d])) EXCEPT !.space[d] = NoSpace]

\* setupkvm(): a directory with the kernel's page tables, or nothing.
KernelFits(x) == Cardinality(x.free) > KTAB
setupkvm(x) ==
  LET d == kalloc(x)
      F == {f \in x.free \ {d} : Cardinality({g \in x.free \ {d} : g < f}) < KTAB}
  IN  [dir |-> d, x |-> [x EXCEPT !.free = @ \ ({d} \cup F), !.space[d] = [NoSpace EXCEPT !.kt = F]]]

-----------------------------------------------------------------------------
\* userinit(): the first process has one page of text.
inituvm(x, d) == NewPage(x, d, 0, Text, TRUE)
Start(n) ==
  LET x == [frames |-> 1..n, free |-> 1..n, content |-> [f \in Frame |-> Junk],
            space |-> [f \in Frame \cup {0} |-> NoSpace]]
      k == kalloc(x)
      s == setupkvm(Took(x, k, Zero))
      y == inituvm(s.x, s.dir)
  IN  /\ project \in Projects
      /\ m = y.x
      /\ st = [p \in Slot |-> IF p = 1 THEN "run" ELSE "unused"]
      /\ kstack = [p \in Slot |-> IF p = 1 THEN k ELSE 0]
      /\ pgdir = [p \in Slot |-> IF p = 1 THEN s.dir ELSE 0]
      /\ share = [p \in Slot |-> p]
      /\ sz = [p \in Slot |-> IF p = 1 THEN PGSIZE ELSE 0]
      /\ limit = [p \in Slot |-> 0]
      /\ parent = [p \in Slot |-> 0]
      /\ head = [p \in Slot |-> IF p = 1 THEN 1 ELSE 0]
      /\ job = [p \in Slot |-> NoJob]
      /\ torn = "no"
      /\ panicked = "no"
Init == \E n \in Sizes : Start(n)

Family(p) == {x \in Slot : st[x] \in {"run", "zombie"} /\ share[x] = share[p]}
\* The other threads that are in a memory call.
Busy(p) == {x \in Family(p) \ {p} : st[x] = "run" /\ job[x].op # "no"}
Tears(p) == torn' = IF Busy(p) # {} THEN "raced" ELSE torn
\* A process whose text is gone faults at its next instruction.  After a race the
\* calls that take part in it go on, and the model ends.
On == panicked = "no" /\ torn # "reused"
\* thread_create() has ptable.lock, and the CPU has its interrupts off.
Quiet(p) == \A x \in Slot \ {p} : job[x].op # "spawn"
Runs(p) == /\ On /\ torn = "no" /\ Quiet(p)
           /\ st[p] = "run" /\ job[p].op = "no" /\ m.space[pgdir[p]].pte[0] # Absent
Goes(p, op, at) == On /\ Quiet(p) /\ st[p] = "run" /\ job[p].op = op /\ job[p].at = at
Idle(p) == job' = [job EXCEPT ![p] = NoJob]

\* allocuvm(): refuses the kernel's part, and does nothing to shrink.  A size of
\* 0 is what an error returns.
Alloc(j, op, d, old, new) ==
  [j EXCEPT !.op = op, !.dir = d, !.old = old, !.to = IF new < old THEN old ELSE new,
            !.a = PGROUNDUP(old),
            !.at = IF new >= KERNBASE \/ (new = 0 /\ old = 0) THEN "failed" ELSE "alloc"]
\* The memset() of a new page.
Cleared_Not(x) == IF Out(x) THEN Zero ELSE x.content[kalloc(x)]
Cleared(x) == Zero
AllocOps == {"sbrk", "spawn", "segment", "stack"}
allocuvm(p) ==
  LET j == job[p]
      r == NewPage(m, j.dir, j.a \div PGSIZE, Cleared(m), TRUE)
  IN  \E op \in AllocOps :
        /\ Goes(p, op, "alloc")
        /\ \/ /\ j.a >= j.to
              /\ job' = [job EXCEPT ![p].at = "done"] /\ UNCHANGED <<m, panicked>>
           \/ /\ j.a < j.to /\ r.res = "ok"
              /\ m' = r.x
              /\ job' = [job EXCEPT ![p].a = @ + PGSIZE] /\ UNCHANGED panicked
           \/ /\ j.a < j.to /\ r.res = "full"
              /\ m' = deallocuvm(r.x, j.dir, j.to, j.old)
              /\ job' = [job EXCEPT ![p].at = "failed"] /\ UNCHANGED panicked
           \/ /\ j.a < j.to /\ r.res = "remap"
              /\ panicked' = "remap" /\ UNCHANGED <<m, job>>
        /\ UNCHANGED <<project, st, kstack, pgdir, share, sz, limit, parent, head, torn>>

\* User code stores into a page that it may write.
Store(p, v) ==
  LET e == m.space[pgdir[p]].pte[v]
  IN  /\ Runs(p) /\ e.u /\ v > 0
      /\ m' = [m EXCEPT !.content[e.f] = share[p]]
      /\ Tears(p)
      /\ UNCHANGED <<project, st, kstack, pgdir, share, sz, limit, parent, head, job, panicked>>

\* growproc(): the size and the limit are read, then pages are allocated, or
\* freed, and then the size is written.
Refused(s, n) == limit[s] # 0 /\ (sz[s] + n) % WORD > limit[s]
Grow(p, n) ==
  LET s == share[p]
  IN  /\ Runs(p) /\ n > 0 /\ ~Refused(s, n)
      /\ job' = [job EXCEPT ![p] = Alloc(NoJob, "sbrk", pgdir[p], sz[s], (sz[s] + n) % WORD)]
      /\ Tears(p)
      /\ UNCHANGED <<project, m, st, kstack, pgdir, share, sz, limit, parent, head, panicked>>
GrowEnd(p) ==
  \/ /\ Goes(p, "sbrk", "done")
     /\ sz' = [sz EXCEPT ![share[p]] = job[p].to]
     /\ Idle(p)
     /\ UNCHANGED <<project, m, st, kstack, pgdir, share, limit, parent, head, torn, panicked>>
  \/ /\ Goes(p, "sbrk", "failed")
     /\ Idle(p)
     /\ UNCHANGED <<project, m, st, kstack, pgdir, share, sz, limit, parent, head, torn, panicked>>
\* The end of the memory is freed; if that is all of it, the size is not written.
Shrink(p, n) ==
  LET s == share[p]
      new == (sz[s] + n) % WORD
  IN  /\ Runs(p) /\ n < 0 /\ ~Refused(s, n) /\ new < sz[s]
      /\ m' = deallocuvm(m, pgdir[p], sz[s], new)
      /\ job' = [job EXCEPT ![p] = [NoJob EXCEPT !.op = "sbrk", !.to = new,
                                                 !.at = IF new = 0 THEN "failed" ELSE "done"]]
      /\ Tears(p)
      /\ UNCHANGED <<project, st, kstack, pgdir, share, sz, limit, parent, head, panicked>>

\* setmemorylimit() of any process: not below its size, which may be about to
\* grow.
setmemorylimit(p, s, n) ==
  /\ project = 2 /\ Runs(p)
  /\ \E x \in Slot : share[x] = s /\ st[x] \in {"run", "zombie"}
  /\ sz[s] <= n /\ limit[s] # n
  /\ limit' = [limit EXCEPT ![s] = n]
  /\ torn' = IF \E x \in Slot : share[x] = s /\ job[x].op # "no" THEN "raced" ELSE torn
  /\ UNCHANGED <<project, m, st, kstack, pgdir, share, sz, parent, head, job, panicked>>

-----------------------------------------------------------------------------
\* allocproc(): a slot and its kernel stack, for fork() or thread_create().
CanAlloc == (\E c \in Slot : st[c] = "unused") /\ ~Out(m)
NewSlot == Lowest({c \in Slot : st[c] = "unused"})
WithStack == Took(m, kalloc(m), Zero)

\* fork(): allocproc() and the setupkvm() of copyuvm(); without the memory, all
\* is given back.
ForkStart(p) ==
  LET c == NewSlot
      s == setupkvm(WithStack)
  IN  /\ Runs(p) /\ CanAlloc /\ KernelFits(WithStack)
      /\ m' = s.x
      /\ st' = [st EXCEPT ![c] = "embryo"]
      /\ kstack' = [kstack EXCEPT ![c] = kalloc(m)]
      /\ job' = [job EXCEPT ![p] = [NoJob EXCEPT !.op = "fork", !.at = "copy", !.dir = s.dir,
                                                 !.to = sz[share[p]], !.child = c]]
      /\ Tears(p)
      /\ UNCHANGED <<project, pgdir, share, sz, limit, parent, head, panicked>>

\* A round of copyuvm(): the content and the permissions of one page.
Returned(x, c, d) == kfree(freevm(x, d), {kstack[c]})
copyuvm(p) ==
  LET j == job[p]
      e == m.space[pgdir[p]].pte[j.a \div PGSIZE]
      r == NewPage(m, j.dir, j.a \div PGSIZE, m.content[e.f], e.u)
  IN  /\ Goes(p, "fork", "copy") /\ j.a < j.to
      /\ \/ /\ e = Absent
            /\ panicked' = "copyuvm: page not present" /\ UNCHANGED <<m, st, job>>
         \/ /\ e # Absent /\ r.res = "ok"
            /\ m' = r.x
            /\ job' = [job EXCEPT ![p].a = @ + PGSIZE] /\ UNCHANGED <<st, panicked>>
         \/ /\ e # Absent /\ r.res = "full"
            /\ m' = Returned(r.x, j.child, j.dir)
            /\ st' = [st EXCEPT ![j.child] = "unused"]
            /\ Idle(p) /\ UNCHANGED panicked
      /\ UNCHANGED <<project, kstack, pgdir, share, sz, limit, parent, head, torn>>

\* The rest of fork(): the child has a th_share of its own, with no limit, and
\* the size that its parent has now.
fork(p) ==
  LET c == job[p].child
  IN  /\ Goes(p, "fork", "copy") /\ job[p].a >= job[p].to
      /\ st' = [st EXCEPT ![c] = "run"]
      /\ pgdir' = [pgdir EXCEPT ![c] = job[p].dir]
      /\ share' = [share EXCEPT ![c] = c]
      /\ sz' = [sz EXCEPT ![c] = sz[share[p]]]
      /\ limit' = [limit EXCEPT ![c] = 0]
      /\ parent' = [parent EXCEPT ![c] = p]
      /\ head' = [head EXCEPT ![c] = c]
      /\ Idle(p)
      /\ UNCHANGED <<project, m, kstack, torn, panicked>>

\* thread_create(): the limit is compared with the size as it is, and then two
\* pages are allocated from the next page on.
OverLimit_Off(s) == limit[s] # 0 /\ limit[s] < sz[s] + PGSIZE
OverLimit(s) == limit[s] # 0 /\ limit[s] < sz[s] + 2 * PGSIZE
SpawnStart(p) ==
  LET c == NewSlot
      s == share[p]
      old == PGROUNDUP(sz[s])
  IN  /\ project = 2 /\ Runs(p) /\ ~OverLimit(s) /\ CanAlloc
      /\ m' = WithStack
      /\ st' = [st EXCEPT ![c] = "embryo"]
      /\ kstack' = [kstack EXCEPT ![c] = kalloc(m)]
      /\ job' = [job EXCEPT ![p] = Alloc([NoJob EXCEPT !.child = c], "spawn", pgdir[p],
                                         old, old + 2 * PGSIZE)]
      /\ Tears(p)
      /\ UNCHANGED <<project, pgdir, share, sz, limit, parent, head, panicked>>
Guard(x, d, a) == [x EXCEPT !.space[d].pte[a \div PGSIZE].u = FALSE]
thread_create(p) ==
  LET c == job[p].child
  IN  \/ /\ Goes(p, "spawn", "done")
         /\ m' = Guard(m, job[p].dir, job[p].old)
         /\ st' = [st EXCEPT ![c] = "run"]
         /\ pgdir' = [pgdir EXCEPT ![c] = job[p].dir]
         /\ share' = [share EXCEPT ![c] = share[p]]
         /\ sz' = [sz EXCEPT ![share[p]] = job[p].to]
         /\ Idle(p)
         /\ UNCHANGED <<project, kstack, limit, parent, head, torn, panicked>>
      \/ /\ Goes(p, "spawn", "failed")
         /\ m' = kfree(m, {kstack[c]})
         /\ st' = [st EXCEPT ![c] = "unused"]
         /\ Idle(p)
         /\ UNCHANGED <<project, kstack, pgdir, share, sz, limit, parent, head, torn, panicked>>

-----------------------------------------------------------------------------
\* kill_threads(), at the start of Project2's exec(): the other threads become
\* zombies and leave the family, and the limit is gone, whether exec() succeeds or
\* not.
Others(p) == IF project = 2 THEN Family(p) \ {p} ELSE {}
Ended(p) ==
  /\ st' = [x \in Slot |-> IF x \in Others(p) THEN "zombie"
                           ELSE IF \E y \in Others(p) : job[y].child = x THEN "lost" ELSE st[x]]
  /\ limit' = IF project = 2 THEN [limit EXCEPT ![share[p]] = 0] ELSE limit
  /\ head' = [head EXCEPT ![share[p]] = p]
  /\ torn' = IF Busy(p) # {} THEN "raced" ELSE torn

\* exec() finds no program, or no memory for a directory.
ExecFails(p) ==
  /\ Runs(p) /\ Others(p) \cup {s \in {share[p]} : limit[s] # 0} # {}
  /\ Ended(p)
  /\ job' = [x \in Slot |-> IF x \in Others(p) THEN NoJob ELSE job[x]]
  /\ UNCHANGED <<project, m, kstack, pgdir, share, sz, parent, panicked>>

\* sys_exec2(): the stack alone is compared with the limit.
sys_exec2(p, n) == project = 2 /\ ~(limit[share[p]] > 0 /\ limit[share[p]] < n * PGSIZE)

\* exec() and, with another number of stack pages, exec2().
ExecStart(p, prog, n) ==
  LET s == setupkvm(m)
  IN  /\ Runs(p) /\ KernelFits(m)
      /\ n # 1 => sys_exec2(p, n)
      /\ m' = s.x
      /\ Ended(p)
      /\ job' = [x \in Slot |-> IF x \in Others(p) THEN NoJob
                                ELSE IF x = p THEN [NoJob EXCEPT !.op = "exec", !.at = "load", !.dir = s.dir,
                                                                 !.prog = prog, !.stack = n]
                                ELSE job[x]]
      /\ UNCHANGED <<project, kstack, pgdir, share, sz, parent, panicked>>

\* A segment with its memory, or the stack behind the last one.
ExecNext(p) ==
  LET j == job[p]
      top == PGROUNDUP(j.to)
  IN  /\ Goes(p, "exec", "load")
      /\ job' = [job EXCEPT ![p] =
                   IF j.prog # <<>> THEN Alloc(j, "segment", j.dir, j.to, j.prog[1].end)
                   ELSE Alloc(j, "stack", j.dir, top, top + (1 + j.stack) * PGSIZE)]
      /\ UNCHANGED <<project, m, st, kstack, pgdir, share, sz, limit, parent, head, torn, panicked>>

\* loaduvm(): the pages of the file become text.
Loaded(x, d, g) ==
  [x EXCEPT !.content = [f \in Frame |->
     IF \E v \in Page : x.space[d].pte[v].f = f /\ v * PGSIZE >= g.va /\ v * PGSIZE < g.file
     THEN Text ELSE @[f]]]
ExecSegment(p) ==
  LET j == job[p]
      g == j.prog[1]
  IN  /\ Goes(p, "segment", "done") /\ g.va % PGSIZE = 0
      /\ m' = Loaded(m, j.dir, g)
      /\ job' = [job EXCEPT ![p].op = "exec", ![p].at = "load", ![p].prog = Tail(@)]
      /\ UNCHANGED <<project, st, kstack, pgdir, share, sz, limit, parent, head, torn, panicked>>

\* The new image is complete, its arguments fit on the stack: commit.
Committed(x, p) == freevm(Guard(x, job[p].dir, job[p].old), pgdir[p])
exec(p) ==
  LET j == job[p]
  IN  /\ Goes(p, "stack", "done") /\ j.stack > 0
      /\ m' = Committed(m, p)
      /\ pgdir' = [pgdir EXCEPT ![p] = j.dir]
      /\ sz' = [sz EXCEPT ![share[p]] = j.to]
      /\ Idle(p)
      /\ UNCHANGED <<project, st, kstack, share, limit, parent, head, torn, panicked>>

\* "bad": out of memory, a segment that is not aligned or cannot be read, or
\* arguments that do not fit.
ExecBad(p) ==
  /\ \/ Goes(p, "segment", "failed") \/ Goes(p, "stack", "failed")
     \/ Goes(p, "segment", "done") \/ Goes(p, "stack", "done")
  /\ m' = freevm(m, job[p].dir)
  /\ Idle(p)
  /\ UNCHANGED <<project, st, kstack, pgdir, share, sz, limit, parent, head, torn, panicked>>

-----------------------------------------------------------------------------
\* exit(), also after a fault: the children go to init, the family are zombies.
exit(p) ==
  /\ On /\ torn = "no" /\ Quiet(p) /\ st[p] = "run" /\ job[p].op = "no" /\ p # 1
  /\ st' = [x \in Slot |-> IF x \in Family(p) THEN "zombie"
                           ELSE IF \E y \in Family(p) : job[y].child = x THEN "lost" ELSE st[x]]
  /\ parent' = [s \in Slot |-> IF parent[s] = p THEN 1 ELSE parent[s]]
  /\ job' = [x \in Slot |-> IF x \in Family(p) THEN NoJob ELSE job[x]]
  /\ Tears(p)
  /\ UNCHANGED <<project, m, kstack, pgdir, share, sz, limit, head, panicked>>

\* wait(): kernel stacks of zombies are freed.  In Project1 so is the address
\* space; in Project2 that code is behind "p->th_main == p", just after
\* "p->th_main = 0", and the th_share goes even when a thread lives.
Freed(x, p, Z) ==
  LET y == kfree(x, {kstack[z] : z \in Z})
  IN  IF project = 2 THEN y ELSE freevm(y, pgdir[p])
wait(p, s) ==
  LET Z == {x \in Slot : st[x] = "zombie" /\ share[x] = s}
  IN  /\ Runs(p) /\ parent[s] = p /\ Z # {}
      /\ m' = Freed(m, s, Z)
      /\ st' = [x \in Slot |-> IF x \in Z THEN "unused" ELSE st[x]]
      /\ sz' = [sz EXCEPT ![s] = 0]
      /\ limit' = [limit EXCEPT ![s] = 0]
      /\ parent' = [parent EXCEPT ![s] = 0]
      /\ head' = [head EXCEPT ![s] = 0]
      /\ torn' = IF \E x \in Slot \ Z : st[x] = "run" /\ share[x] = s THEN "reused" ELSE torn
      /\ UNCHANGED <<project, kstack, pgdir, share, job, panicked>>

Next == \E p \in Slot :
  \/ allocuvm(p) \/ (\E v \in Page : Store(p, v))
  \/ (\E n \in SbrkArgs : Grow(p, n) \/ Shrink(p, n)) \/ GrowEnd(p)
  \/ \E s \in Slot, n \in Limits : setmemorylimit(p, s, n)
  \/ ForkStart(p) \/ copyuvm(p) \/ fork(p)
  \/ SpawnStart(p) \/ thread_create(p)
  \/ ExecFails(p) \/ (\E prog \in Programs, n \in Stacks : ExecStart(p, prog, n))
  \/ ExecNext(p) \/ ExecSegment(p) \/ exec(p) \/ ExecBad(p)
  \/ exit(p) \/ \E s \in Slot : wait(p, s)
Spec == Init /\ [][Next]_memVars

-----------------------------------------------------------------------------
\* Where the frames are: the address spaces of processes that exist and those
\* that fork() and exec() are building, and the kernel stacks.
Spaces == {pgdir[p] : p \in {x \in Slot : st[x] = "run" \/ (st[x] = "zombie" /\ head[share[x]] = x)}}
          \cup {job[p].dir : p \in {x \in Slot : job[x].op \in {"fork", "exec", "segment", "stack"}}}
FramesOf(d) ==
  {d} \cup Tables(m.space[d]) \cup ({m.space[d].pte[v].f : v \in Page} \ {0})
KStacks == {kstack[p] : p \in {x \in Slot : st[x] # "unused"}}
Places == (UNION {FramesOf(d) : d \in Spaces}) \cup KStacks

\* No frame is used for two things or is free while it is used, whatever call
\* runs out of memory half-way; in Project1 every frame that nothing uses is
\* free.
FramesExact ==
  torn = "no" =>
    /\ Places \cap m.free = {}
    /\ \A d, e \in Spaces : d # e => FramesOf(d) \cap FramesOf(e) = {}
    /\ \A d \in Spaces : FramesOf(d) \cap KStacks = {}
    /\ \A d \in Spaces : \A v, w \in Page :
         m.space[d].pte[v].f = m.space[d].pte[w].f /\ v # w => m.space[d].pte[v] = Absent
    /\ project = 1 => Places \cup m.free = m.frames

\* Project2, too, gives back all the memory of a process that wait() reaps: "//
\* Free pgdir" (Project2/proc.c).
WaitFrees == torn = "no" => Places \cup m.free = m.frames

\* The kernel's own checks, "remap" and "page not present", fail only when two
\* threads of a process are in memory calls at the same time.
OnlyRacesPanic == panicked # "no" => torn # "no"

\* Frames have one use at a time and panics have races, through every failure of
\* every call.
MemorySound == FramesExact /\ OnlyRacesPanic

\* A process outgrows its memory limit by less than a page, and only because
\* thread_create() rounds its size up after comparing it.
LimitKept ==
  torn = "no" => \A p \in Slot :
    st[p] = "run" /\ limit[share[p]] # 0 => sz[share[p]] < limit[share[p]] + PGSIZE

\* What user code sees of an address space.
Seen(d) == LET vs == {v \in Page : m.space[d].pte[v].u}
           IN  [v \in vs |-> m.content[m.space[d].pte[v].f]]
User == [s \in Slot |->
  IF \E x \in Slot : st[x] = "run" /\ share[x] = s
  THEN Seen(pgdir[CHOOSE x \in Slot : st[x] = "run" /\ share[x] = s]) ELSE Seen(0)]
AS == INSTANCE AddressSpaces WITH Proc <- Slot, mem <- User

\* Processes have memory of their own: no page shows what another process has
\* written, a fork() copies exactly, a failed exec() or sbrk() changes nothing.
\* What threads do to themselves by overlapping calls is left open.
ImplementsAddressSpaces == AS!Init /\ [][torn' # "no" \/ AS!Next]_User
=============================================================================
