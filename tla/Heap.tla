------------------------------- MODULE Heap --------------------------------
(***************************************************************************)
(* What malloc() and free() promise: blocks that do not overlap, and no    *)
(* unit of memory lost.  The memory grows only when no free run of units   *)
(* is long enough.                                                         *)
(***************************************************************************)
EXTENDS Integers, FiniteSets

CONSTANTS HSIZE,   \* bytes of a unit: sizeof(Header)
          MINCORE, \* the least number of units asked of sbrk()
          TOP,     \* units 1..TOP can be had
          Sizes    \* the sizes asked for, in bytes
VARIABLES avail,   \* the units that are free
          given,   \* the blocks the program has: first unit and length
          brk      \* units 1..brk have been handed out by sbrk()
heapVars == <<avail, given, brk>>

Run(at, n) == at..(at + n - 1)
Fits(n) == \E at \in avail : Run(at, n) \subseteq avail
\* A header and room for nbytes.
Units(nbytes) == CHOOSE n \in 1..(nbytes + 1) : (n - 1) * HSIZE \in nbytes..(nbytes + HSIZE - 1)

Init == avail = {} /\ given = {} /\ brk = 0

malloc(at, nbytes) ==
  LET n == Units(nbytes)
      more == IF n < MINCORE THEN MINCORE ELSE n
      new == IF Fits(n) THEN avail ELSE avail \cup Run(brk + 1, more)
  IN  /\ Run(at, n) \subseteq new
      /\ given' = given \cup {[at |-> at, n |-> n]}
      /\ avail' = new \ Run(at, n)
      /\ brk' = IF Fits(n) THEN brk ELSE brk + more

freeBlock(b) ==
  /\ given' = given \ {b}
  /\ avail' = avail \cup Run(b.at, b.n)
  /\ UNCHANGED brk

\* The program calls sbrk() itself: the heap has a hole.
Hole(n) == brk' = brk + n /\ UNCHANGED <<avail, given>>

Next ==
  \/ \E at \in 1..TOP, r \in Sizes : malloc(at, r)
  \/ \E b \in given : freeBlock(b)
  \/ \E n \in 1..TOP : Hole(n)
HeapSpec == Init /\ [][Next]_heapVars
=============================================================================
