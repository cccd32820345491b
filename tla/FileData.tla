------------------------------ MODULE FileData ------------------------------
(***************************************************************************)
(* The content of inodes: the block bitmap, bmap() with its indirect block,*)
(* readi(), writei() and itrunc() of fs.c, under the loop of filewrite()   *)
(* (file.c), which cuts a long write into transactions.                    *)
(*                                                                         *)
(* A write has the inode's lock for one transaction, and takes one action  *)
(* for each block; other processes allocate blocks meanwhile.              *)
(***************************************************************************)
EXTENDS Integers, Sequences, FiniteSets

CONSTANTS
  Writer,     \* the processes; the byte that a process writes is its number
  File,       \* the inodes
  NDIRECT, NINDIRECT, BSIZE,
  NBLOCKS,    \* data blocks 1..NBLOCKS
  MaxOp,      \* bytes of one transaction: "max" of filewrite()
  WORD,       \* uint counts modulo WORD (2^32 in the code)
  WriteLens, ReadLens,   \* the lengths write() and read() are called with
  MaxCalls    \* how many calls are made

MAXFILE == NDIRECT + NINDIRECT

\* An indirect block has room for its addresses, a uint for every offset of a
\* file and every length, and filewrite() writes something at a time.
ASSUME DataAssumption ==
  /\ NDIRECT \in Nat /\ NINDIRECT \in Nat /\ BSIZE \in Nat \ {0} /\ NBLOCKS \in Nat
  /\ NINDIRECT <= BSIZE
  /\ WORD \in Nat /\ MAXFILE * BSIZE < WORD
  /\ MaxOp \in 1..(WORD - 1) /\ WriteLens \subseteq Int /\ ReadLens \subseteq 0..(WORD - 1)

Block == 1..NBLOCKS
Lowest(S) == CHOOSE x \in S : \A y \in S : x <= y

VARIABLES
  bitmap,     \* the blocks in use
  block,      \* block -> what is in it: BSIZE bytes, or NINDIRECT addresses
  addrs,      \* ip->addrs: NDIRECT addresses and that of the indirect block
  size,       \* ip->size
  fd,         \* p's open file: the inode and f->off
  job,        \* p's write in progress
  got,        \* what a read() has read, until the next call
  calls,      \* how many calls there were
  diskPanic
dataVars == <<bitmap, block, addrs, size, fd, job, got, calls, diskPanic>>

Zero == [i \in 1..BSIZE |-> 0]
NoJob == [at |-> "no", left |-> 0, n1 |-> 0, off |-> 0]
NoAddrs == [i \in 0..NDIRECT |-> 0]

DataInit ==
  /\ bitmap = {}
  /\ block = [b \in Block |-> Zero]
  /\ addrs = [f \in File |-> NoAddrs]
  /\ size = [f \in File |-> 0]
  /\ fd \in [Writer -> [f : File, off : {0}]]
  /\ job = [p \in Writer |-> NoJob]
  /\ got = <<>>
  /\ calls = 0
  /\ diskPanic = "no"

LockedBy(f) == {p \in Writer : job[p].at = "block" /\ fd[p].f = f}

\* The state of the disk that bmap() and balloc() work on.
Disk == [bitmap |-> bitmap, block |-> block, addrs |-> addrs]

\* balloc(): the first free block, zeroed.  With none, it panics.
NoneFree(d) == Block \ d.bitmap = {}
balloc_Dirty(d) ==
  LET b == Lowest(Block \ d.bitmap) IN [b |-> b, d |-> [d EXCEPT !.bitmap = @ \cup {b}]]
balloc(d) ==
  LET b == Lowest(Block \ d.bitmap)
  IN  [b |-> b, d |-> [d EXCEPT !.bitmap = @ \cup {b}, !.block[b] = Zero]]

\* bmap(): the address of block bn of f, and the disk with what it allocates
\* on the way; "b" is 0 when balloc() panics.
Direct(bn) == bn < NDIRECT
bmap(d, f, bn) ==
  LET k   == IF Direct(bn) THEN bn ELSE NDIRECT
      top == d.addrs[f][k]
      a1  == IF top = 0 THEN balloc(d) ELSE [b |-> top, d |-> d]
      d1  == [a1.d EXCEPT !.addrs[f][k] = a1.b]
      e   == bn - NDIRECT + 1
      a2  == balloc(d1)
  IN  IF top = 0 /\ NoneFree(d) THEN [b |-> 0, d |-> d]
      ELSE IF Direct(bn) THEN [b |-> a1.b, d |-> d1]
      ELSE IF d1.block[a1.b][e] # 0 THEN [b |-> d1.block[a1.b][e], d |-> d1]
      ELSE IF NoneFree(d1) THEN [b |-> 0, d |-> d1]
      ELSE [b |-> a2.b, d |-> [a2.d EXCEPT !.block[a1.b][e] = a2.b]]

\* The n bytes of f at off.
ByteAt(d, f, i) == d.block[bmap(d, f, i \div BSIZE).b][(i % BSIZE) + 1]
Bytes(d, f, off, n) == [i \in 1..n |-> ByteAt(d, f, off + i - 1)]

-----------------------------------------------------------------------------
Call(p) == diskPanic = "no" /\ job[p].at = "no" /\ calls < MaxCalls /\ calls' = calls + 1

\* filewrite(): the loop starts.
WriteStart(p, n) ==
  /\ Call(p) /\ n > 0
  /\ job' = [job EXCEPT ![p] = [at |-> "begin", left |-> n, n1 |-> 0, off |-> 0]]
  /\ got' = <<>> /\ UNCHANGED <<bitmap, block, addrs, size, fd, diskPanic>>

\* begin_op(), ilock() and the tests of writei(); a write that would leave a
\* hole, wrap around or exceed the largest file ends the loop.
TooFar(f, off, n) ==
  off > size[f] \/ (off + n) % WORD < off \/ (off + n) % WORD > MAXFILE * BSIZE
writei(p) ==
  LET f == fd[p].f
      n == IF job[p].left > MaxOp THEN MaxOp ELSE job[p].left
  IN  /\ diskPanic = "no" /\ job[p].at = "begin" /\ LockedBy(f) = {}
      /\ \/ /\ TooFar(f, fd[p].off, n)
            /\ job' = [job EXCEPT ![p] = NoJob]
         \/ /\ ~TooFar(f, fd[p].off, n)
            /\ job' = [job EXCEPT ![p].at = "block", ![p].n1 = n, ![p].off = fd[p].off]
      /\ UNCHANGED <<bitmap, block, addrs, size, fd, got, calls, diskPanic>>

\* One round of the loop of writei(): bmap(), and a piece of one block.
WriteBlock(p) ==
  LET f == fd[p].f
      off == job[p].off
      o == off % BSIZE
      m == IF job[p].n1 < BSIZE - o THEN job[p].n1 ELSE BSIZE - o
      a == bmap(Disk, f, off \div BSIZE)
  IN  /\ diskPanic = "no" /\ job[p].at = "block" /\ job[p].n1 > 0
      /\ bitmap' = a.d.bitmap /\ addrs' = [addrs EXCEPT ![f] = a.d.addrs[f]]
      /\ \/ /\ a.b = 0
            /\ diskPanic' = "balloc: out of blocks"
            /\ block' = a.d.block /\ UNCHANGED job
         \/ /\ a.b # 0
            /\ block' = [a.d.block EXCEPT ![a.b] =
                           [i \in 1..BSIZE |-> IF i > o /\ i <= o + m THEN p ELSE @[i]]]
            /\ job' = [job EXCEPT ![p].off = off + m, ![p].n1 = @ - m, ![p].left = @ - m]
            /\ UNCHANGED diskPanic
      /\ got' = <<>> /\ UNCHANGED <<size, fd, calls>>

\* The end of writei() and of the round of filewrite(): the size, f->off.
GrownTo_Always(f, off) == off
GrownTo(f, off) == IF off > size[f] THEN off ELSE size[f]
WriteEnd(p) ==
  LET f == fd[p].f
      off == job[p].off
  IN  /\ diskPanic = "no" /\ job[p].at = "block" /\ job[p].n1 = 0
      /\ size' = [size EXCEPT ![f] = GrownTo(f, off)]
      /\ fd' = [fd EXCEPT ![p].off = off]
      /\ job' = [job EXCEPT ![p] = IF job[p].left = 0 THEN NoJob
                                   ELSE [NoJob EXCEPT !.at = "begin", !.left = job[p].left]]
      /\ UNCHANGED <<bitmap, block, addrs, got, calls, diskPanic>>

\* fileread() and readi(): an n that wraps around is refused.
readi(p, n) ==
  LET f == fd[p].f
      off == fd[p].off
      m == IF off + n > size[f] THEN size[f] - off ELSE n
  IN  /\ Call(p) /\ LockedBy(f) = {}
      /\ \/ /\ off > size[f] \/ (off + n) % WORD < off
            /\ got' = <<>> /\ UNCHANGED fd
         \/ /\ off <= size[f] /\ (off + n) % WORD >= off
            /\ got' = Bytes(Disk, f, off, m)
            /\ fd' = [fd EXCEPT ![p].off = off + m]
      /\ UNCHANGED <<bitmap, block, addrs, size, job, diskPanic>>

\* open() of either file: f->off is 0.
Reopen(p, f) ==
  /\ Call(p)
  /\ fd' = [fd EXCEPT ![p] = [f |-> f, off |-> 0]]
  /\ got' = <<>> /\ UNCHANGED <<bitmap, block, addrs, size, job, diskPanic>>

\* itrunc(), by the iput() of a file that nobody has open.
Indirect(f) ==
  IF addrs[f][NDIRECT] = 0 THEN {}
  ELSE {block[addrs[f][NDIRECT]][i] : i \in 1..NINDIRECT} \ {0}
BlocksOf(f) == ({addrs[f][i] : i \in 0..NDIRECT} \ {0}) \cup Indirect(f)
itrunc(f) ==
  /\ diskPanic = "no" /\ \A p \in Writer : fd[p].f # f
  /\ bitmap' = bitmap \ BlocksOf(f)
  /\ addrs' = [addrs EXCEPT ![f] = NoAddrs]
  /\ size' = [size EXCEPT ![f] = 0]
  /\ got' = <<>> /\ UNCHANGED <<block, fd, job, calls, diskPanic>>

DataNext ==
  \/ \E p \in Writer :
       \/ \E n \in WriteLens : WriteStart(p, n)
       \/ \E n \in ReadLens : readi(p, n)
       \/ writei(p) \/ WriteBlock(p) \/ WriteEnd(p)
       \/ \E f \in File : Reopen(p, f)
  \/ \E f \in File : itrunc(f)
DataSpec == DataInit /\ [][DataNext]_dataVars

-----------------------------------------------------------------------------
\* The bitmap has exactly the blocks of the files, and no block is in two files
\* or twice in one, also when two files grow at the same time.
BlocksExact ==
  /\ bitmap = UNION {BlocksOf(f) : f \in File}
  /\ \A f, g \in File : f # g => BlocksOf(f) \cap BlocksOf(g) = {}
  /\ \A f \in File :
       Cardinality(BlocksOf(f)) =
         Cardinality({i \in 0..NDIRECT : addrs[f][i] # 0})
         + (IF addrs[f][NDIRECT] = 0 THEN 0
            ELSE Cardinality({i \in 1..NINDIRECT : block[addrs[f][NDIRECT]][i] # 0}))

\* The blocks, direct and indirect, are one sequence of bytes: a write puts the
\* bytes at the offset and nowhere else, and a new block shows no old bytes.
Grown(f) == LET ends == {size[f]} \cup {job[p].off : p \in LockedBy(f)}
            IN  CHOOSE x \in ends : \A y \in ends : y <= x
FileBytes == [f \in File |-> Bytes(Disk, f, 0, Grown(f))]
Contents == INSTANCE ByteFile WITH Byte <- Writer, MaxPiece <- BSIZE, content <- FileBytes
ImplementsByteFile == Contents!Init /\ [][UNCHANGED dataVars \/ Contents!Next]_(Contents!vars)
=============================================================================
