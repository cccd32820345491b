------------------------------ MODULE MCParts ------------------------------
(***************************************************************************)
(* Seven small components for TLC, one of which is chosen at the start:    *)
(* what programs talk through, what they are built on and made with.  They *)
(* share no state; the others stay as they were initialised.               *)
(***************************************************************************)
EXTENDS Pipe, SpinLock, Malloc, Shell, Grep, MkFs, Library, TLC

CONSTANTS p1, p2, byteA, byteB
TwoProcs == {p1, p2}
TwoBytes == {byteA, byteB}
PipeSymmetry == Permutations(Proc) \cup Permutations(Byte)

SeqsUpTo(S, n) == UNION {[1..k -> S] : k \in 0..n}
MCPatterns == SeqsUpTo({"a", ".", "*", "^", "$"}, 3)
MCInputs == {t \in SeqsUpTo({"a", "b", "nl"}, 4) : t # <<>> /\ t[Len(t)] = "nl"}

\* Memories with strings; formats; images of two segments, the second with
\* zeroes behind it, whose places in the file and in memory agree.
MCMems == {<<1, 2, 0, 1, 2, 2, 0, 1, 0>>, <<1, 1, 1, 2, 1, 0, 2, 0, 1>>, <<2, 0, 1, 2, 1, 2, 1, 2, 0>>}
MCFormats == SeqsUpTo({"a", "%", "d", "s"}, 4)
Sectors == [s \in 1..8 |-> [x \in 0..3 |-> 10 * s + x]]
Segment(pa, filesz, zeroes) == [paddr |-> pa, filesz |-> filesz, memsz |-> filesz + zeroes, off |-> pa]
MCImages == {[disk |-> Sectors, ph |-> <<Segment(4, f, 0), Segment(4 + f + gap, g, z)>>] :
               f \in 1..5, gap \in 0..2, g \in 1..4, z \in 0..3}

VARIABLE part
Parts == {"pipe", "spinlock", "malloc", "shell", "grep", "mkfs", "library"}
allVars == <<vars, spinVars, mallocVars, shellVars, grepVars, mkfsVars, libVars, part>>

PartsInit ==
  /\ part \in Parts
  /\ Init /\ (part # "pipe" => \A i, j \in DOMAIN data : data[i] = data[j])
  /\ SpinInit /\ MallocInit /\ ShellInit /\ GrepInit /\ MkfsInit /\ LibInit

PartsNext ==
  /\ \/ part = "pipe" /\ Next
     \/ part # "pipe" /\ UNCHANGED vars
  /\ \/ part = "spinlock" /\ SpinNext
     \/ part # "spinlock" /\ UNCHANGED spinVars
  /\ \/ part = "malloc" /\ MallocNext
     \/ part # "malloc" /\ UNCHANGED mallocVars
  /\ \/ part = "shell" /\ ShellNext
     \/ part # "shell" /\ UNCHANGED shellVars
  /\ \/ part = "grep" /\ GrepNext
     \/ part # "grep" /\ UNCHANGED grepVars
  /\ \/ part = "mkfs" /\ MkfsNext
     \/ part # "mkfs" /\ UNCHANGED mkfsVars
  /\ \/ part = "library" /\ LibNext
     \/ part # "library" /\ UNCHANGED libVars
  /\ UNCHANGED part
PartsSpec == PartsInit /\ [][PartsNext]_allVars
=============================================================================
