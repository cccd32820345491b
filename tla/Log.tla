-------------------------------- MODULE Log --------------------------------
(***************************************************************************)
(* The write-ahead log of the file system: log.c, with what it relies on   *)
(* from the buffer cache (bio.c) and the disk.  The two projects have the  *)
(* same log.c.                                                             *)
(*                                                                         *)
(* One action is one critical section under log.lock, or one write of a    *)
(* block to the disk; the machine may crash between any two of them.       *)
(***************************************************************************)
EXTENDS Integers, Sequences, FiniteSets

CONSTANTS
  Proc,         \* the processes that make file system calls
  Block,        \* the disk blocks outside the log
  Val,          \* the contents of a block
  MAXOPBLOCKS,  \* "max # of blocks any FS op writes"
  LOGSIZE,      \* the length of the arrays lh.block, and what begin_op() reserves
  NLOG,         \* log.size: the blocks of the on-disk log, its header included
  NoVal,        \* no contents, and no block
  NoBlock

ASSUME LogAssumption ==
  /\ MAXOPBLOCKS \in Nat \ {0} /\ LOGSIZE \in Nat /\ NLOG \in Nat \ {0}
  /\ MAXOPBLOCKS <= LOGSIZE   \* LOGSIZE is MAXOPBLOCKS*3 in param.h
  /\ IsFiniteSet(Proc) /\ IsFiniteSet(Block)
  /\ NoVal \notin Val /\ NoBlock \notin Block

VARIABLES
  disk,        \* the home locations of the blocks
  logblk,      \* the blocks of the on-disk log behind its header
  hdr,         \* the header on disk: the block numbers of a committed transaction
  cache,       \* the buffer cache: contents of b, NoVal when b is not cached
  dirty,       \* the buffers with B_DIRTY
  lh,          \* log.lh: the block numbers of the transaction in memory
  outstanding, \* log.outstanding
  committing,  \* log.committing
  phase,       \* what commit() or recover_from_log() does next
  tail,        \* the loop index of write_log() and install_trans()
  at,          \* what each process does
  buf,         \* the buffer a process has locked and modified
  touched      \* the blocks the current call of a process has modified

diskVars == <<disk, logblk, hdr>>
opVars == <<at, buf, touched>>
vars == <<disk, logblk, hdr, cache, dirty, lh, outstanding, committing, phase, tail,
          at, buf, touched>>

\* "read" and the recovery that follows it end in "run"; a commit in "done".
Phase == {"run", "log", "head", "install", "clear", "done", "read"}

Init ==
  /\ disk \in [Block -> Val]
  /\ logblk = [i \in 1..LOGSIZE |-> NoVal]
  /\ hdr = <<>>
  /\ cache = [b \in Block |-> NoVal]
  /\ dirty = {}
  /\ lh = <<>>
  /\ outstanding = 0
  /\ committing = FALSE
  /\ phase = "read"
  /\ tail = 1
  /\ at = [p \in Proc |-> "idle"]
  /\ buf = [p \in Proc |-> NoBlock]
  /\ touched = [p \in Proc |-> {}]

-----------------------------------------------------------------------------
\* bread(): the cached contents, or those of the disk.
bread(b) == IF cache[b] # NoVal THEN cache[b] ELSE disk[b]

\* bget() recycles the buffer of b: only when nobody uses it and it is clean.
Pinned_Never(b) == FALSE
Pinned(b) == b \in dirty
Evict(b) ==
  /\ cache[b] # NoVal
  /\ ~Pinned(b)
  /\ \A p \in Proc : buf[p] # b
  /\ cache' = [cache EXCEPT ![b] = NoVal]
  /\ UNCHANGED <<diskVars, dirty, lh, outstanding, committing, phase, tail, opVars>>

-----------------------------------------------------------------------------
\* begin_op() has to wait: a commit is going on, or the calls in progress may
\* need all of the log.
NoSpace(n, calls) == n + (calls + 1) * MAXOPBLOCKS > LOGSIZE
Started(calls) == calls + 1
MustWait == committing \/ NoSpace(Len(lh), outstanding)

begin_op(p) ==
  /\ committing \/ phase = "run"
  /\ at[p] \in {"idle", "woken"}
  /\ \/ /\ MustWait
        /\ at' = [at EXCEPT ![p] = "asleep"]
        /\ UNCHANGED outstanding
     \/ /\ ~MustWait
        /\ at' = [at EXCEPT ![p] = "op"]
        /\ outstanding' = Started(outstanding)
  /\ UNCHANGED <<diskVars, cache, dirty, lh, committing, phase, tail, buf, touched>>

\* The calls that sleep in begin_op() try again.
wakeup_None(a) == a
wakeup(a) == [p \in Proc |-> IF a[p] = "asleep" THEN "woken" ELSE a[p]]

\* The call of p modifies a buffer that it has locked, and log_write() looks,
\* without log.lock, whether there is room ("too big a transaction" stops the
\* machine).  A call modifies at most MAXOPBLOCKS blocks.
LogFull == Len(lh) >= LOGSIZE \/ Len(lh) >= NLOG - 1
Modify(p, b, v) ==
  /\ at[p] = "op"
  /\ \A r \in Proc : buf[r] # b
  /\ Cardinality(touched[p] \cup {b}) <= MAXOPBLOCKS
  /\ ~LogFull
  /\ cache' = [cache EXCEPT ![b] = v]
  /\ buf' = [buf EXCEPT ![p] = b]
  /\ touched' = [touched EXCEPT ![p] = @ \cup {b}]
  /\ at' = [at EXCEPT ![p] = "write"]
  /\ UNCHANGED <<diskVars, dirty, lh, outstanding, committing, phase, tail>>

\* The rest of log_write(), under log.lock: a block that is in the transaction
\* already is absorbed.  Then the buffer is released.
Logged(b) == \E i \in 1..Len(lh) : lh[i] = b
log_write(p) ==
  /\ at[p] = "write"
  /\ lh' = IF Logged(buf[p]) THEN lh ELSE Append(lh, buf[p])
  /\ dirty' = dirty \cup {buf[p]}
  /\ buf' = [buf EXCEPT ![p] = NoBlock]
  /\ at' = [at EXCEPT ![p] = "op"]
  /\ UNCHANGED <<diskVars, cache, outstanding, committing, phase, tail, touched>>

\* end_op(): the last call in progress commits what all of them have logged.
LastOp(n) == n = 0
end_op(p) ==
  /\ at[p] = "op"
  /\ outstanding' = outstanding - 1
  /\ touched' = [touched EXCEPT ![p] = {}]
  /\ \/ /\ LastOp(outstanding')
        /\ committing' = TRUE
        /\ phase' = IF lh = <<>> THEN "done" ELSE "log"
        /\ tail' = 1
        /\ at' = [at EXCEPT ![p] = "commit"]
     \/ /\ ~LastOp(outstanding')
        /\ at' = wakeup([at EXCEPT ![p] = "idle"])
        /\ UNCHANGED <<committing, phase, tail>>
  /\ UNCHANGED <<diskVars, cache, dirty, lh, buf>>

-----------------------------------------------------------------------------
\* The loop of write_log(): the cached blocks go to the log.
write_log ==
  /\ phase = "log"
  /\ logblk' = [logblk EXCEPT ![tail] = bread(lh[tail])]
  /\ tail' = IF tail = Len(lh) THEN 1 ELSE tail + 1
  /\ phase' = IF tail = Len(lh) THEN "head" ELSE "log"
  /\ UNCHANGED <<disk, hdr, cache, dirty, lh, outstanding, committing, opVars>>

\* write_head() of commit(): "the true point at which the current transaction
\* commits".
write_head ==
  /\ phase = "head"
  /\ hdr' = lh
  /\ phase' = "install"
  /\ UNCHANGED <<disk, logblk, cache, dirty, lh, outstanding, committing, tail, opVars>>

\* The loop of install_trans(): bwrite() leaves the buffer clean.
install_trans ==
  /\ phase = "install"
  /\ \/ /\ tail <= Len(lh)
        /\ disk' = [disk EXCEPT ![lh[tail]] = logblk[tail]]
        /\ cache' = [cache EXCEPT ![lh[tail]] = logblk[tail]]
        /\ dirty' = dirty \ {lh[tail]}
        /\ tail' = tail + 1
        /\ UNCHANGED phase
     \/ /\ tail > Len(lh)
        /\ phase' = "clear"
        /\ UNCHANGED <<disk, cache, dirty, tail>>
  /\ UNCHANGED <<logblk, hdr, lh, outstanding, committing, opVars>>

\* log.lh.n = 0 and write_head(): the transaction is erased from the log.
ClearLog ==
  /\ phase = "clear"
  /\ lh' = <<>>
  /\ hdr' = <<>>
  /\ phase' = IF committing THEN "done" ELSE "run"
  /\ UNCHANGED <<disk, logblk, cache, dirty, outstanding, committing, tail, opVars>>

\* The end of end_op() after commit().
CommitDone(p) ==
  /\ phase = "done"
  /\ at[p] = "commit"
  /\ committing' = FALSE
  /\ phase' = "run"
  /\ at' = wakeup([at EXCEPT ![p] = "idle"])
  /\ UNCHANGED <<diskVars, cache, dirty, lh, outstanding, tail, buf, touched>>

-----------------------------------------------------------------------------
\* The machine loses its memory and starts again.
Crash ==
  /\ cache' = [b \in Block |-> NoVal]
  /\ dirty' = {}
  /\ lh' = <<>>
  /\ outstanding' = 0
  /\ committing' = FALSE
  /\ phase' = "read"
  /\ at' = [p \in Proc |-> "idle"]
  /\ buf' = [p \in Proc |-> NoBlock]
  /\ touched' = [p \in Proc |-> {}]
  /\ UNCHANGED <<diskVars, tail>>

\* read_head(), then recover_from_log() goes on with install_trans().
AfterRead == "install"
read_head ==
  /\ phase = "read"
  /\ lh' = hdr
  /\ tail' = 1
  /\ phase' = AfterRead
  /\ UNCHANGED <<diskVars, cache, dirty, outstanding, committing, opVars>>

-----------------------------------------------------------------------------
Next ==
  \/ \E b \in Block : Evict(b)
  \/ \E p \in Proc : begin_op(p) \/ log_write(p) \/ end_op(p) \/ CommitDone(p)
  \/ \E p \in Proc, b \in Block, v \in Val : Modify(p, b, v)
  \/ write_log \/ write_head \/ install_trans \/ ClearLog
  \/ Crash \/ read_head

Spec == Init /\ [][Next]_vars

-----------------------------------------------------------------------------
\* The type invariant of the log, the buffer cache and the calls.
TypeOK ==
  /\ disk \in [Block -> Val]
  /\ logblk \in [1..LOGSIZE -> Val \cup {NoVal}]
  /\ hdr \in Seq(Block) /\ lh \in Seq(Block)
  /\ cache \in [Block -> Val \cup {NoVal}]
  /\ dirty \subseteq Block
  /\ outstanding \in Nat /\ committing \in BOOLEAN
  /\ phase \in Phase /\ tail \in 1..(LOGSIZE + 1)
  /\ at \in [Proc -> {"idle", "asleep", "woken", "op", "write", "commit"}]
  /\ buf \in [Proc -> Block \cup {NoBlock}]
  /\ touched \in [Proc -> SUBSET Block]

\* What is on the disk after a crash now, once the log has been replayed.
Recovered == [b \in Block |-> IF \E i \in 1..Len(hdr) : hdr[i] = b
                              THEN logblk[CHOOSE i \in 1..Len(hdr) : hdr[i] = b]
                              ELSE disk[b]]
Recovering == ~committing /\ phase # "run"

\* What the calls read, and what they are doing as far as the store tells.
Current == IF Recovering THEN Recovered ELSE [b \in Block |-> bread(b)]
CallState == [p \in Proc |-> CASE at[p] \in {"op", "write"} -> "op"
                               [] at[p] = "commit" -> "commit"
                               [] OTHER -> "idle"]

\* log.c implements a store with atomic commits: whenever the machine stops,
\* during a commit or during the recovery from an earlier crash too, the disk
\* holds all the updates of the last commit and none of a later call.
Store == INSTANCE AtomicDisk WITH durable <- Recovered, current <- Current, st <- CallState
ImplementsAtomicDisk == Store!Spec

\* Nobody sleeps in begin_op() unless a call is in progress or committing,
\* whose end_op() will wake it up.
SleepersWoken == \A p \in Proc : at[p] = "asleep" => committing \/ outstanding > 0

\* The calls in progress, and the places in the log kept for the blocks that they
\* may still add to the transaction: MAXOPBLOCKS each, less what they have logged.
InOp == {p \in Proc : at[p] \in {"op", "write"}}
LoggedBy(p) == {b \in touched[p] : Logged(b)}
Kept == {e \in Proc \X (1..MAXOPBLOCKS) : e[1] \in InOp /\ e[2] > Cardinality(LoggedBy(e[1]))}
Reserved == Cardinality(Kept)

\* begin_op() admits no more calls than the arrays lh.block of the header have
\* room for: whatever the calls in progress still write, in whatever order and
\* with whatever absorption, the transaction fits, although log_write() looks
\* at lh.n before it takes log.lock.
HeaderFits == Len(lh) + Reserved <= LOGSIZE

\* The log never has more blocks than its header, and nobody waits for it in vain,
\* through every crash and recovery.
LogSafe == TypeOK /\ HeaderFits /\ SleepersWoken

\* The transaction fits into the blocks of the on-disk log: write_log() never
\* writes behind it, where the inodes are.
LogFits == Len(lh) <= NLOG - 1
=============================================================================
