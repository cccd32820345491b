-------------------------------- MODULE Pipe --------------------------------
(***************************************************************************)
(* A pipe: pipe.c, with the file table's reference counts (file.c) that    *)
(* decide when an end is closed, and kill() (proc.c).  The two projects    *)
(* have the same pipe.c and file.c.                                        *)
(*                                                                         *)
(* One action is one critical section under p->lock, from the acquire() to *)
(* the return or to the decision to sleep.                                 *)
(***************************************************************************)
EXTENDS Integers, Sequences

CONSTANTS
  Proc,       \* the processes
  Byte,       \* what a byte can be
  PIPESIZE,   \* the size of the ring
  WORD,       \* nread and nwrite count modulo WORD (2^32 in the code)
  MaxWrite,   \* the longest request of a write(), and of a read()
  MaxRead

ASSUME PipeAssumption ==
  /\ PIPESIZE \in Nat \ {0} /\ WORD \in Nat
  /\ WORD > PIPESIZE /\ WORD % PIPESIZE = 0
  /\ MaxWrite \in Nat \ {0} /\ MaxRead \in Nat \ {0}

VARIABLES
  data, nread, nwrite, readopen, writeopen,  \* struct pipe
  freed,         \* pipeclose() has given the page back
  rfd, wfd,      \* the processes with a descriptor of the read end, the write end
  at,            \* where each process is
  killed,        \* p->killed
  todo, want,    \* what is left of the request of its write(), its read()
  got, res       \* what its last call returned

pipeVars == <<data, nread, nwrite>>
endVars == <<readopen, writeopen, freed, rfd, wfd>>
callVars == <<todo, want, got, res>>
vars == <<data, nread, nwrite, readopen, writeopen, freed, rfd, wfd, at, killed,
          todo, want, got, res>>

\* "full" and "empty": with p->lock, about to sleep(); "wsleep" and "rsleep":
\* asleep on &p->nwrite and &p->nread; "wclose" and "rclose": in fileclose(),
\* as the last with a reference.
Place == {"none", "user", "write", "full", "wsleep", "read", "empty", "rsleep",
          "wclose", "rclose"}

\* What pipealloc() leaves, for one process that has both ends.
Init ==
  /\ data \in [0..(PIPESIZE - 1) -> Byte]
  /\ nread = 0 /\ nwrite = 0
  /\ readopen = TRUE /\ writeopen = TRUE
  /\ freed = FALSE
  /\ \E p \in Proc : /\ rfd = {p} /\ wfd = {p}
                     /\ at = [r \in Proc |-> IF r = p THEN "user" ELSE "none"]
  /\ killed = [p \in Proc |-> FALSE]
  /\ todo = [p \in Proc |-> <<>>]
  /\ want = [p \in Proc |-> 0]
  /\ got = [p \in Proc |-> <<>>]
  /\ res = [p \in Proc |-> "ok"]

LockFree == \A p \in Proc : at[p] \notin {"full", "empty"}

\* wakeup() of the processes asleep in piperead(), and in pipewrite().
WakeReaders_None(a) == a
WakeReaders(a) == [p \in Proc |-> IF a[p] = "rsleep" THEN "read" ELSE a[p]]
WakeWriters(a) == [p \in Proc |-> IF a[p] = "wsleep" THEN "write" ELSE a[p]]

-----------------------------------------------------------------------------
\* fork(): the child has the open files of its parent.
Fork(p, r) ==
  /\ at[p] = "user" /\ ~killed[p] /\ at[r] = "none"
  /\ at' = [at EXCEPT ![r] = "user"]
  /\ rfd' = IF p \in rfd THEN rfd \cup {r} ELSE rfd
  /\ wfd' = IF p \in wfd THEN wfd \cup {r} ELSE wfd
  /\ UNCHANGED <<pipeVars, readopen, writeopen, freed, killed, callVars>>

Roused(place) == CASE place = "rsleep" -> "read" [] place = "wsleep" -> "write" [] OTHER -> place

\* kill() by anybody, from another CPU also between the test of killed in a
\* loop and the sleep() behind it: then nobody wakes the process.
Kill(p) ==
  /\ at[p] # "none" /\ ~killed[p]
  /\ killed' = [killed EXCEPT ![p] = TRUE]
  /\ at' = [at EXCEPT ![p] = Roused(@)]
  /\ UNCHANGED <<pipeVars, endVars, callVars>>

\* trap() lets no killed process start a system call: it goes to exit(), which
\* closes its files.
WriteEnter(p, s) ==
  /\ at[p] = "user" /\ ~killed[p] /\ p \in wfd
  /\ at' = [at EXCEPT ![p] = "write"]
  /\ todo' = [todo EXCEPT ![p] = s]
  /\ got' = [got EXCEPT ![p] = <<>>]
  /\ res' = [res EXCEPT ![p] = "busy"]
  /\ UNCHANGED <<pipeVars, endVars, killed, want>>

ReadEnter(p, n) ==
  /\ at[p] = "user" /\ ~killed[p] /\ p \in rfd
  /\ at' = [at EXCEPT ![p] = "read"]
  /\ want' = [want EXCEPT ![p] = n]
  /\ got' = [got EXCEPT ![p] = <<>>]
  /\ res' = [res EXCEPT ![p] = "busy"]
  /\ UNCHANGED <<pipeVars, endVars, killed, todo>>

-----------------------------------------------------------------------------
\* The loop of pipewrite() until the request is in the ring or the ring is
\* full: the number of bytes it puts, and the ring afterwards.
Full(w) == w = (nread + PIPESIZE) % WORD
Put(p) == CHOOSE k \in 0..Len(todo[p]) :
            /\ k = Len(todo[p]) \/ Full((nwrite + k) % WORD)
            /\ \A i \in 0..(k - 1) : ~Full((nwrite + i) % WORD)
Filled(s, k) ==
  [j \in 0..(PIPESIZE - 1) |->
     LET I == {i \in 0..(k - 1) : ((nwrite + i) % WORD) % PIPESIZE = j}
     IN  IF I = {} THEN data[j] ELSE s[1 + CHOOSE i \in I : \A m \in I : m <= i]]

GivesUp(p) == ~readopen \/ killed[p]
pipewrite(p) ==
  LET k == Put(p)
      n == Len(todo[p])
  IN  /\ at[p] = "write" /\ LockFree
      /\ data' = Filled(todo[p], k)
      /\ nwrite' = (nwrite + k) % WORD
      /\ \/ /\ k = n
            /\ at' = WakeReaders([at EXCEPT ![p] = "user"])
            /\ todo' = [todo EXCEPT ![p] = <<>>]
            /\ res' = [res EXCEPT ![p] = "ok"]
         \/ /\ k < n /\ GivesUp(p)
            /\ at' = [at EXCEPT ![p] = "user"]
            /\ todo' = [todo EXCEPT ![p] = <<>>]
            /\ res' = [res EXCEPT ![p] = "err"]
         \/ /\ k < n /\ ~GivesUp(p)
            /\ at' = WakeReaders([at EXCEPT ![p] = "full"])
            /\ todo' = [todo EXCEPT ![p] = SubSeq(@, k + 1, n)]
            /\ UNCHANGED res
      /\ UNCHANGED <<nread, endVars, killed, want, got>>

\* sleep(&p->nwrite, &p->lock).
WriteSleep(p) ==
  /\ at[p] = "full"
  /\ at' = [at EXCEPT ![p] = "wsleep"]
  /\ UNCHANGED <<pipeVars, endVars, killed, callVars>>

\* The loop of piperead() until it has what it wants or the ring is empty.
MustWait == nread = nwrite /\ writeopen
Taken_OneMore(p) == CHOOSE k \in 0..(want[p] + 1) :
              /\ k = want[p] + 1 \/ (nread + k) % WORD = nwrite
              /\ \A i \in 0..(k - 1) : (nread + i) % WORD # nwrite
Taken(p) == CHOOSE k \in 0..want[p] :
              /\ k = want[p] \/ (nread + k) % WORD = nwrite
              /\ \A i \in 0..(k - 1) : (nread + i) % WORD # nwrite
piperead(p) ==
  LET k == Taken(p)
  IN  /\ at[p] = "read" /\ LockFree
      /\ \/ /\ MustWait /\ ~killed[p]
            /\ at' = [at EXCEPT ![p] = "empty"]
            /\ UNCHANGED <<nread, want, got, res>>
         \/ /\ MustWait /\ killed[p]
            /\ at' = [at EXCEPT ![p] = "user"]
            /\ want' = [want EXCEPT ![p] = 0]
            /\ res' = [res EXCEPT ![p] = "err"]
            /\ UNCHANGED <<nread, got>>
         \/ /\ ~MustWait
            /\ got' = [got EXCEPT ![p] =
                         [i \in 1..k |-> data[((nread + i - 1) % WORD) % PIPESIZE]]]
            /\ nread' = (nread + k) % WORD
            /\ at' = WakeWriters([at EXCEPT ![p] = "user"])
            /\ want' = [want EXCEPT ![p] = 0]
            /\ res' = [res EXCEPT ![p] = "ok"]
      /\ UNCHANGED <<data, nwrite, endVars, killed, todo>>

\* sleep(&p->nread, &p->lock).
ReadSleep(p) ==
  /\ at[p] = "empty"
  /\ at' = [at EXCEPT ![p] = "rsleep"]
  /\ UNCHANGED <<pipeVars, endVars, killed, callVars>>

-----------------------------------------------------------------------------
\* fileclose() of one descriptor: the last reference goes on to pipeclose().
LastRef(S) == S = {}
CloseRead(p) ==
  /\ at[p] = "user" /\ p \in rfd
  /\ rfd' = rfd \ {p}
  /\ at' = [at EXCEPT ![p] = IF LastRef(rfd') THEN "rclose" ELSE "user"]
  /\ UNCHANGED <<pipeVars, readopen, writeopen, freed, wfd, killed, callVars>>

CloseWrite(p) ==
  /\ at[p] = "user" /\ p \in wfd
  /\ wfd' = wfd \ {p}
  /\ at' = [at EXCEPT ![p] = IF LastRef(wfd') THEN "wclose" ELSE "user"]
  /\ UNCHANGED <<pipeVars, readopen, writeopen, freed, rfd, killed, callVars>>

\* pipeclose(): the second of the two gives the page back.
BothClosed(r, w) == ~r /\ ~w
pipeclose(p) ==
  /\ LockFree
  /\ \/ /\ at[p] = "wclose"
        /\ writeopen' = FALSE
        /\ at' = WakeReaders([at EXCEPT ![p] = "user"])
        /\ UNCHANGED readopen
     \/ /\ at[p] = "rclose"
        /\ readopen' = FALSE
        /\ at' = WakeWriters([at EXCEPT ![p] = "user"])
        /\ UNCHANGED writeopen
  /\ freed' = (freed \/ BothClosed(readopen', writeopen'))
  /\ UNCHANGED <<pipeVars, rfd, wfd, killed, callVars>>

-----------------------------------------------------------------------------
Requests == UNION {[1..n -> Byte] : n \in 1..MaxWrite}
Next ==
  \E p \in Proc :
    \/ \E r \in Proc : Fork(p, r)
    \/ \E s \in Requests : WriteEnter(p, s)
    \/ \E n \in 1..MaxRead : ReadEnter(p, n)
    \/ Kill(p)
    \/ pipewrite(p) \/ WriteSleep(p) \/ piperead(p) \/ ReadSleep(p)
    \/ CloseRead(p) \/ CloseWrite(p) \/ pipeclose(p)

Spec == Init /\ [][Next]_vars

-----------------------------------------------------------------------------
\* The number of bytes in the ring.
Count == (nwrite - nread) % WORD

\* The type invariant of the pipe and the calls.
TypeOK ==
  /\ data \in [0..(PIPESIZE - 1) -> Byte]
  /\ nread \in 0..(WORD - 1) /\ nwrite \in 0..(WORD - 1)
  /\ Count <= PIPESIZE
  /\ {readopen, writeopen, freed} \subseteq BOOLEAN
  /\ rfd \subseteq Proc /\ wfd \subseteq Proc
  /\ at \in [Proc -> Place]
  /\ killed \in [Proc -> BOOLEAN]
  /\ todo \in [Proc -> {<<>>} \cup Requests]
  /\ want \in [Proc -> 0..MaxRead]
  /\ got \in [Proc -> Seq(Byte)]
  /\ res \in [Proc -> {"busy", "ok", "err"}]

\* The bytes in the ring, oldest first, and the ends that are open.
Stored == [i \in 1..Count |-> data[(nread + i - 1) % PIPESIZE]]
OpenEnds == {e \in {"read", "write"} : (e = "read" /\ readopen) \/ (e = "write" /\ writeopen)}

\* The ring with its wrapping counters is a queue of bytes: nothing is lost,
\* repeated or reordered, also when a write has to wait again and again at a full
\* ring, and the end of the stream is not reported while bytes are left.
Stream == INSTANCE ByteStream WITH q <- Stored, open <- OpenEnds
ImplementsByteStream == Stream!Init /\ [][UNCHANGED vars \/ Stream!Next]_(Stream!vars)

\* Nobody uses the page after pipeclose() has given it back, and it is given
\* back when nobody can use it any more.
FreedWhenUnused ==
  freed <=> /\ rfd = {} /\ wfd = {}
            /\ \A p \in Proc : at[p] \in {"none", "user"}

\* "pipe-empty": nobody sleeps in piperead() while there is something to read,
\* or the write end is closed.  The exception is in the code: a killed writer
\* leaves pipewrite() without waking the readers of the bytes it has put.
ReadersWait ==
  (\A p \in Proc : ~killed[p]) =>
    \A p \in Proc : at[p] = "rsleep" => nread = nwrite /\ writeopen

\* "pipewrite-full": nobody sleeps in pipewrite() while there is room, or the
\* read end is closed.  With ReadersWait: a reader and a writer never wait for
\* each other.
WritersWait == \A p \in Proc : at[p] = "wsleep" => Full(nwrite) /\ readopen

\* Whatever descriptors are copied and closed in whatever order, the page of the
\* pipe is freed exactly when nobody can use it, nobody is left asleep, and the
\* ring never has more than PIPESIZE bytes, also when its counters wrap around.
PipeSafe == TypeOK /\ FreedWhenUnused /\ ReadersWait /\ WritersWait
=============================================================================
