------------------------------ MODULE BufCache ------------------------------
(***************************************************************************)
(* The buffer cache (bio.c) with its sleep locks (sleeplock.c) and the     *)
(* disk driver below it (ide.c).  The two projects have the same files.    *)
(*                                                                         *)
(* One action is one critical section under bcache.lock, under the spin    *)
(* lock of a sleep lock, or under idelock.                                 *)
(***************************************************************************)
EXTENDS Integers, Sequences, FiniteSets

CONSTANTS
  Proc,        \* the processes that use the cache, one buffer at a time
  Block,       \* the blocks of the disk
  Val,         \* the contents of a block
  NBUF,        \* the number of buffers
  DiskErrors,  \* TRUE when a read of the disk may fail
  NoProc, NoBlock, NoVal

Buf == 1..NBUF
ASSUME CacheAssumption ==
  /\ IsFiniteSet(Proc) /\ NBUF \in Nat \ {0} /\ DiskErrors \in BOOLEAN
  /\ NoProc \notin Proc /\ NoBlock \notin Block /\ NoVal \notin Val

VARIABLES
  blockno, valid, dirty, refcnt, data,  \* struct buf: B_VALID and B_DIRTY are flags
  holder,     \* the process that has the sleep lock of a buffer (locked, pid)
  lru,        \* the list behind bcache.head, most recently used first
  idequeue,   \* the buffers with a request, the active one first
  active,     \* the disk has been given a request that it has not answered
  disk,       \* the contents of the disk
  at, want, use  \* where a process is, the block it asks for, the buffer it has found

bufVars == <<blockno, valid, dirty, refcnt, data>>
vars == <<blockno, valid, dirty, refcnt, data, holder, lru, idequeue, active, disk, at, want, use>>

\* In acquiresleep(), asleep there; in bread() with the lock; in iderw() to
\* read, asleep there, woken up; with the buffer; in iderw() to write...;
\* between releasesleep() and the rest of brelse().
Place == {"idle", "lock", "lsleep", "locked", "read", "rsleep", "rwoken",
          "have", "write", "wsleep", "wwoken", "release"}

\* What binit() leaves.
Init ==
  /\ blockno = [x \in Buf |-> NoBlock]
  /\ valid = [x \in Buf |-> FALSE]
  /\ dirty = [x \in Buf |-> FALSE]
  /\ refcnt = [x \in Buf |-> 0]
  /\ data = [x \in Buf |-> NoVal]
  /\ holder = [x \in Buf |-> NoProc]
  /\ lru = [i \in Buf |-> NBUF + 1 - i]
  /\ idequeue = <<>>
  /\ active = FALSE
  /\ disk \in [Block -> Val]
  /\ at = [p \in Proc |-> "idle"]
  /\ want = [p \in Proc |-> NoBlock]
  /\ use = [p \in Proc |-> 0]

Goes(p, place) == at' = [at EXCEPT ![p] = place]

-----------------------------------------------------------------------------
\* bget(): the buffer of the block, or the least recently used one that is
\* free.  "bget: no buffers" stops the machine.
Cached(b) == {x \in Buf : blockno[x] = b}
Free_Dirty(x) == refcnt[x] = 0
Free(x) == refcnt[x] = 0 /\ ~dirty[x]
Referenced(x) == [refcnt EXCEPT ![x] = @ + 1]

BgetHit(p, b) ==
  /\ at[p] = "idle"
  /\ \E x \in Cached(b) :
       /\ refcnt' = Referenced(x)
       /\ use' = [use EXCEPT ![p] = x]
  /\ want' = [want EXCEPT ![p] = b]
  /\ Goes(p, "lock")
  /\ UNCHANGED <<blockno, valid, dirty, data, holder, lru, idequeue, active, disk>>

Recycled == LET i == CHOOSE i \in 1..NBUF : Free(lru[i]) /\ \A j \in (i + 1)..NBUF : ~Free(lru[j])
            IN  lru[i]
BgetMiss(p, b) ==
  /\ at[p] = "idle"
  /\ Cached(b) = {}
  /\ \E x \in Buf : Free(x)
  /\ blockno' = [blockno EXCEPT ![Recycled] = b]
  /\ valid' = [valid EXCEPT ![Recycled] = FALSE]
  /\ dirty' = [dirty EXCEPT ![Recycled] = FALSE]
  /\ refcnt' = [refcnt EXCEPT ![Recycled] = 1]
  /\ use' = [use EXCEPT ![p] = Recycled]
  /\ want' = [want EXCEPT ![p] = b]
  /\ Goes(p, "lock")
  /\ UNCHANGED <<data, holder, lru, idequeue, active, disk>>

\* The loop of acquiresleep().
Taken(x) == holder[x] # NoProc
acquiresleep(p) ==
  /\ at[p] = "lock"
  /\ \/ /\ Taken(use[p])
        /\ Goes(p, "lsleep")
        /\ UNCHANGED holder
     \/ /\ ~Taken(use[p])
        /\ holder' = [holder EXCEPT ![use[p]] = p]
        /\ Goes(p, "locked")
  /\ UNCHANGED <<bufVars, lru, idequeue, active, disk, want, use>>

\* bread() with the locked buffer: it is read from disk if it is not valid.
bread(p) ==
  /\ at[p] = "locked"
  /\ Goes(p, IF valid[use[p]] THEN "have" ELSE "read")
  /\ UNCHANGED <<bufVars, holder, lru, idequeue, active, disk, want, use>>

\* The caller modifies the buffer and calls bwrite(), or log_write(), which
\* keeps it in the cache with B_DIRTY.
Modify(p, v) ==
  /\ at[p] = "have"
  /\ data' = [data EXCEPT ![use[p]] = v]
  /\ dirty' = [dirty EXCEPT ![use[p]] = TRUE]
  /\ \/ Goes(p, "write")
     \/ UNCHANGED at
  /\ UNCHANGED <<blockno, valid, refcnt, holder, lru, idequeue, active, disk, want, use>>

\* commit() writes a buffer that log_write() has kept.
bwrite(p) ==
  /\ at[p] = "have" /\ dirty[use[p]]
  /\ Goes(p, "write")
  /\ UNCHANGED <<bufVars, holder, lru, idequeue, active, disk, want, use>>

-----------------------------------------------------------------------------
\* iderw(): the buffer is queued, the disk started if it is idle, and the
\* caller sleeps until the request is done.
Pending(x) == ~valid[x] \/ dirty[x]
iderw(p) ==
  /\ at[p] \in {"read", "write"}
  /\ Pending(use[p])
  /\ active' = (active \/ idequeue = <<>>)
  /\ idequeue' = Append(idequeue, use[p])
  /\ Goes(p, IF at[p] = "read" THEN "rsleep" ELSE "wsleep")
  /\ UNCHANGED <<bufVars, holder, lru, disk, want, use>>

IderwLoop(p) ==
  /\ at[p] \in {"rwoken", "wwoken"}
  /\ Goes(p, IF ~Pending(use[p]) THEN "have"
             ELSE IF at[p] = "rwoken" THEN "rsleep" ELSE "wsleep")
  /\ UNCHANGED <<bufVars, holder, lru, idequeue, active, disk, want, use>>

Woken(place) == CASE place = "rsleep" -> "rwoken" [] place = "wsleep" -> "wwoken"
                  [] place = "lsleep" -> "lock" [] OTHER -> place

\* wakeup(b) of ideintr().
WakeUsers_Readers(x) == [p \in Proc |-> IF at[p] = "rsleep" /\ use[p] = x THEN "rwoken" ELSE at[p]]
WakeUsers(x) == [p \in Proc |-> IF at[p] \in {"rsleep", "wsleep"} /\ use[p] = x
                                THEN Woken(at[p]) ELSE at[p]]

\* "Start disk on next buf in queue."
Restarts_Not(queue) == FALSE
Restarts(queue) == queue # <<>>

\* The interrupt of the disk: the active request is done.  A read that fails
\* leaves the data as they are.
ideintr ==
  /\ active /\ idequeue # <<>>
  /\ active' = Restarts(Tail(idequeue))
  /\ LET x == Head(idequeue)
     IN  /\ idequeue' = Tail(idequeue)
         /\ \/ /\ dirty[x]
               /\ disk' = [disk EXCEPT ![blockno[x]] = data[x]]
               /\ UNCHANGED data
            \/ /\ ~dirty[x]
               /\ \E v \in {disk[blockno[x]]} \cup (IF DiskErrors THEN {data[x]} ELSE {}) :
                    data' = [data EXCEPT ![x] = v]
               /\ UNCHANGED disk
         /\ valid' = [valid EXCEPT ![x] = TRUE]
         /\ dirty' = [dirty EXCEPT ![x] = FALSE]
         /\ at' = WakeUsers(x)
  /\ UNCHANGED <<blockno, refcnt, holder, lru, want, use>>

\* kill() of a process that sleeps for a lock or for the disk.
Kill(p) ==
  /\ at[p] \in {"lsleep", "rsleep", "wsleep"}
  /\ Goes(p, Woken(at[p]))
  /\ UNCHANGED <<bufVars, holder, lru, idequeue, active, disk, want, use>>

-----------------------------------------------------------------------------
\* brelse(): releasesleep(), then the reference under bcache.lock.
WakeLockers(x) == [p \in Proc |-> IF at[p] = "lsleep" /\ use[p] = x THEN "lock" ELSE at[p]]
releasesleep(p) ==
  /\ at[p] = "have"
  /\ holder' = [holder EXCEPT ![use[p]] = NoProc]
  /\ at' = [WakeLockers(use[p]) EXCEPT ![p] = "release"]
  /\ want' = [want EXCEPT ![p] = NoBlock]
  /\ UNCHANGED <<bufVars, lru, idequeue, active, disk, use>>

ToFront(x) == LET k == CHOOSE k \in Buf : lru[k] = x
              IN  [i \in Buf |-> IF i = 1 THEN x ELSE IF i <= k THEN lru[i - 1] ELSE lru[i]]
brelse(p) ==
  /\ at[p] = "release"
  /\ refcnt' = [refcnt EXCEPT ![use[p]] = @ - 1]
  /\ lru' = IF refcnt'[use[p]] = 0 THEN ToFront(use[p]) ELSE lru
  /\ use' = [use EXCEPT ![p] = 0]
  /\ Goes(p, "idle")
  /\ UNCHANGED <<blockno, valid, dirty, data, holder, idequeue, active, disk, want>>

-----------------------------------------------------------------------------
Step(p) == acquiresleep(p) \/ bread(p) \/ iderw(p) \/ IderwLoop(p) \/ releasesleep(p) \/ brelse(p)
Next ==
  \/ \E p \in Proc : Step(p) \/ bwrite(p) \/ Kill(p)
  \/ \E p \in Proc, b \in Block : BgetHit(p, b) \/ BgetMiss(p, b)
  \/ \E p \in Proc, v \in Val : Modify(p, v)
  \/ ideintr

Spec == Init /\ [][Next]_vars

\* The disk answers the active request, and the scheduler runs a process that
\* can go on.  No lock is fair, and no process has to ask for a block.
Fairness == WF_vars(ideintr) /\ \A p \in Proc : WF_vars(Step(p))
FairSpec == Spec /\ Fairness

-----------------------------------------------------------------------------
\* The type invariant of the buffers, the list, the queue and the processes.
TypeOK ==
  /\ blockno \in [Buf -> Block \cup {NoBlock}]
  /\ valid \in [Buf -> BOOLEAN] /\ dirty \in [Buf -> BOOLEAN]
  /\ refcnt \in [Buf -> Nat]
  /\ data \in [Buf -> Val \cup {NoVal}]
  /\ holder \in [Buf -> Proc \cup {NoProc}]
  /\ lru \in [Buf -> Buf]
  /\ idequeue \in Seq(Buf) /\ active \in BOOLEAN
  /\ disk \in [Block -> Val]
  /\ at \in [Proc -> Place]
  /\ want \in [Proc -> Block \cup {NoBlock}]
  /\ use \in [Proc -> 0..NBUF]

\* The block that a process uses: it has got through bread() and not yet
\* called brelse().
Uses(p, b) == want[p] = b /\ at[p] \in {"have", "write", "wsleep", "wwoken"}

\* The value of a block, its user, and what a process sees in the block it uses.
Content == [b \in Block |-> IF \E x \in Cached(b) : valid[x]
                            THEN data[CHOOSE x \in Cached(b) : valid[x]] ELSE disk[b]]
Owner == [b \in Block |-> IF \E p \in Proc : Uses(p, b)
                          THEN CHOOSE p \in Proc : Uses(p, b) ELSE NoProc]
Seen == [p \in Proc |-> IF \E b \in Block : Uses(p, b) THEN data[use[p]] ELSE NoVal]

\* The cache is a store of blocks: one user at a time, who sees what the last
\* one left, although buffers are recycled, shared, kept dirty by the log and
\* written by a disk with a queue.  This needs a disk that does not fail: a
\* read that fails is not told from one that succeeds (DiskErrors).
Store == INSTANCE BlockStore WITH content <- Content, owner <- Owner, seen <- Seen
ImplementsBlockStore == Store!Spec

\* Whoever sleeps for the disk has its buffer in the queue, and the queue has
\* no other buffers and none twice: every interrupt finds who it is for.
QueueExact ==
  /\ \A p \in Proc : at[p] \in {"rsleep", "wsleep"} => \E i \in 1..Len(idequeue) : idequeue[i] = use[p]
  /\ \A i, j \in 1..Len(idequeue) : idequeue[i] = idequeue[j] => i = j
  /\ \A i \in 1..Len(idequeue) : Pending(idequeue[i]) /\ holder[idequeue[i]] # NoProc

\* Nobody sleeps for a buffer that is not locked.
LockersWoken == \A p \in Proc : at[p] = "lsleep" => holder[use[p]] # NoProc

\* The lists, counts and queues of the cache and the driver are what they should
\* be, and nobody is left asleep, whoever is woken early by kill().
CacheSound == TypeOK /\ QueueExact /\ LockersWoken

\* Whoever sleeps in iderw() gets its buffer back, however many requests are
\* queued before its own and however often kill() wakes it up early.
DiskAnswers == \A p \in Proc : at[p] \in {"rsleep", "wsleep"} ~> at[p] = "have"
=============================================================================
