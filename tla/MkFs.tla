-------------------------------- MODULE MkFs --------------------------------
(***************************************************************************)
(* mkfs.c: the program that builds the image of the file system.  Files    *)
(* are numbered from 2 as they come, 1 is the root directory; byte k of    *)
(* file i is the number 100 * i + k, an entry of the directory is the      *)
(* number of the file, DSIZE times.                                        *)
(***************************************************************************)
EXTENDS Integers, Sequences, FiniteSets

CONSTANTS BSIZE, NDIRECT,
          DSIZE,      \* sizeof(struct dirent)
          NMETA,      \* nmeta: blocks 0..NMETA-1 are not for data
          FSSIZE,
          BITS,       \* bits of the one block of the bitmap that balloc() writes
          FileLens,   \* lengths of the files in the arguments
          MaxFiles    \* how many files there are, less than NINODES

NINDIRECT == BSIZE
MAXFILE == NDIRECT + NINDIRECT
Root == 1

VARIABLES
  fs,       \* the image: freeblock, the inodes made so far, the blocks' content
  marked,   \* the blocks that the bitmap says are in use
  lens,     \* the lengths of the files added
  mkat      \* where main() is
mkfsVars == <<fs, marked, lens, mkat>>

Zeroes == [k \in 1..BSIZE |-> 0]
NoBlocks == [k \in 0..NDIRECT |-> 0]
MkfsInit ==
  /\ fs = [freeblock |-> NMETA, din |-> <<>>, blk |-> [b \in NMETA..(FSSIZE - 1) |-> Zeroes], ok |-> TRUE]
  /\ marked = {}
  /\ lens = <<>>
  /\ mkat = "start"

\* ialloc(): the next inode.
ialloc(f) == [f EXCEPT !.din = Append(@, [size |-> 0, addrs |-> NoBlocks])]

\* The block for byte "off" of inode i, allocated if needed; rsect() fails
\* beyond the end of the image.
Fresh(f) == [f EXCEPT !.freeblock = @ + 1, !.ok = @ /\ f.freeblock < FSSIZE]
IsDirect_OffByOne(fbn) == fbn <= NDIRECT
IsDirect(fbn) == fbn < NDIRECT
WithAddr(f, i, k) ==
  IF f.din[i].addrs[k] # 0 THEN f
  ELSE [Fresh(f) EXCEPT !.din[i].addrs[k] = f.freeblock]
WithIndirect(f, b, k) ==
  IF ~f.ok \/ f.blk[b][k] # 0 THEN f
  ELSE [Fresh(f) EXCEPT !.blk[b][k] = f.freeblock]
Mapped(f, i, fbn) ==
  LET f1 == WithAddr(f, i, IF IsDirect(fbn) THEN fbn ELSE NDIRECT)
      b == f1.din[i].addrs[NDIRECT]
      k == fbn - NDIRECT + 1
      f2 == WithIndirect(f1, b, k)
  IN  IF IsDirect(fbn) THEN [fs |-> f1, x |-> f1.din[i].addrs[fbn]]
      ELSE [fs |-> f2, x |-> IF f2.ok THEN f2.blk[b][k] ELSE 0]

\* iappend(): the bytes p, a piece for each block.
RECURSIVE iappend(_, _, _)
iappend(f, i, p) ==
  LET off == f.din[i].size
      fbn == off \div BSIZE
      n1 == IF Len(p) < (fbn + 1) * BSIZE - off THEN Len(p) ELSE (fbn + 1) * BSIZE - off
      m == Mapped(f, i, fbn)
      o == off % BSIZE
  IN  IF p = <<>> \/ ~f.ok THEN f
      ELSE IF fbn >= MAXFILE \/ ~m.fs.ok THEN [f EXCEPT !.ok = FALSE]
      ELSE iappend([m.fs EXCEPT
                      !.blk[m.x] = [k \in 1..BSIZE |-> IF k \in (o + 1)..(o + n1) THEN p[k - o] ELSE @[k]],
                      !.din[i].size = off + n1], i, SubSeq(p, n1 + 1, Len(p)))

Dirent(i) == [k \in 1..DSIZE |-> i]
Bytes(i, n) == [k \in 1..n |-> 100 * i + k]
Or(f, at) == IF f.ok THEN at ELSE "failed"

\* main(): the root directory with . and ..
MakeRoot ==
  LET f == iappend(ialloc(fs), Root, Dirent(Root) \o Dirent(Root))
  IN  /\ mkat = "start"
      /\ fs' = f /\ mkat' = Or(f, "files") /\ UNCHANGED <<marked, lens>>

\* The next file: its inode, its entry, its bytes.
AddFile(n) ==
  LET i == Len(fs.din) + 1
      f == iappend(iappend(ialloc(fs), Root, Dirent(i)), i, Bytes(i, n))
  IN  /\ mkat = "files" /\ Len(lens) < MaxFiles
      /\ fs' = f /\ mkat' = Or(f, "files")
      /\ lens' = Append(lens, n) /\ UNCHANGED marked

\* The size of the root is rounded, and balloc() writes the bitmap.
Used(f) == 0..(f.freeblock - 1)
Finish ==
  LET f == [fs EXCEPT !.din[Root].size = ((@ \div BSIZE) + 1) * BSIZE, !.ok = fs.freeblock < BITS]
  IN  /\ mkat = "files"
      /\ fs' = f /\ mkat' = Or(f, "done")
      /\ marked' = Used(f) /\ UNCHANGED lens

MkfsNext == MakeRoot \/ Finish \/ \E n \in FileLens : AddFile(n)
MkfsSpec == MkfsInit /\ [][MkfsNext]_mkfsVars

-----------------------------------------------------------------------------
\* The finished image is one the kernel can use: the bitmap has the blocks of
\* the files and the metadata and no others, no block is in two places, and the
\* files and the directory read back as they were given, across the indirect
\* block too.
Pointers(i) ==
  LET d == fs.din[i].addrs
  IN  {<<i, k, d[k]>> : k \in {k \in 0..NDIRECT : d[k] # 0}}
      \cup (IF d[NDIRECT] = 0 THEN {}
            ELSE {<<i, NDIRECT + k, fs.blk[d[NDIRECT]][k]>> : k \in {k \in 1..NINDIRECT : fs.blk[d[NDIRECT]][k] # 0}})
AllPointers == UNION {Pointers(i) : i \in 1..Len(fs.din)}
ReadsAt(i, off) ==
  LET fbn == off \div BSIZE
      b == IF fbn < NDIRECT THEN fs.din[i].addrs[fbn] ELSE fs.blk[fs.din[i].addrs[NDIRECT]][fbn - NDIRECT + 1]
  IN  fs.blk[b][(off % BSIZE) + 1]
Reads(i, n) == [k \in 1..n |-> ReadsAt(i, k - 1)]
Entries == [k \in 1..(DSIZE * (Len(lens) + 2)) |-> LET e == (k - 1) \div DSIZE IN IF e < 2 THEN Root ELSE e]
ImageSound ==
  mkat = "done" =>
    /\ marked = (0..(NMETA - 1)) \cup {p[3] : p \in AllPointers}
    /\ {p[3] : p \in AllPointers} \cap 0..(NMETA - 1) = {}
    /\ \A p, q \in AllPointers : p[3] = q[3] => p = q
    /\ \A i \in 1..Len(lens) : fs.din[i + 1].size = lens[i] /\ Reads(i + 1, lens[i]) = Bytes(i + 1, lens[i])
    /\ fs.din[Root].size >= Len(Entries) /\ Reads(Root, Len(Entries)) = Entries
=============================================================================
