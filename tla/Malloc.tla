------------------------------- MODULE Malloc -------------------------------
(***************************************************************************)
(* umalloc.c: the free blocks are a circular list in address order, linked *)
(* through their headers.  An address counts units of sizeof(Header); unit *)
(* 0 is "base", the empty block that the list starts with.  Memory that is *)
(* not, or no longer, a header is the program's: the model forgets it.     *)
(***************************************************************************)
EXTENDS Integers, FiniteSets

CONSTANTS HSIZE, MINCORE, TOP,
          Sizes,    \* the nbytes malloc() is called with
          UINT,     \* uint counts modulo UINT (2^32 in the code)
          HoleLens  \* the units the program asks of sbrk() itself

Base == 0
NULL == -1

VARIABLES
  hdr,    \* the header at each address: ptr and size
  freep,  \* where the last search ended
  top,    \* the program break
  given   \* the headers of the blocks the program has
mallocVars == <<hdr, freep, top, given>>

NoHeader == [ptr |-> Base, size |-> 0]
MallocInit ==
  /\ hdr = [a \in 0..TOP |-> NoHeader]
  /\ freep = NULL
  /\ top = 0
  /\ given = {}

\* The loop of free(): the block of the list after which bp belongs.
RECURSIVE Before(_, _, _)
Before(h, p, bp) ==
  LET next == h[p].ptr
      between == bp > p /\ bp < next
      atEnd == p >= next /\ (bp > p \/ bp < next)
  IN  IF between \/ atEnd THEN p ELSE Before(h, next, bp)

\* The rest of free(): bp is joined with the block that follows and with the
\* one before, and linked.
JoinsNext_Never(h, bp, next) == FALSE
JoinsNext(h, bp, next) == bp + h[bp].size = next
Linked(h, p, bp) ==
  LET next == h[p].ptr
      h1 == IF JoinsNext(h, bp, next)
            THEN [h EXCEPT ![bp] = [ptr |-> h[next].ptr, size |-> @.size + h[next].size],
                           ![next] = NoHeader]
            ELSE [h EXCEPT ![bp].ptr = next]
  IN  IF p + h1[p].size = bp
      THEN [h1 EXCEPT ![p] = [ptr |-> h1[bp].ptr, size |-> @.size + h1[bp].size],
                      ![bp] = NoHeader]
      ELSE [h1 EXCEPT ![p].ptr = bp]

free(bp) ==
  /\ bp \in given
  /\ LET p == Before(hdr, freep, bp) IN hdr' = Linked(hdr, p, bp) /\ freep' = p
  /\ given' = given \ {bp} /\ UNCHANGED top

\* morecore(): units of sbrk() as one more free block.
CoreUnits(nu) == IF nu < MINCORE THEN MINCORE ELSE nu
morecore(h, fp, nu) ==
  LET bp == top + 1
      h1 == [h EXCEPT ![bp].size = CoreUnits(nu)]
      p == Before(h1, fp, bp)
  IN  [hdr |-> Linked(h1, p, bp), freep |-> p]

\* The search of malloc(): the predecessor of the first block that is long
\* enough, or NULL when the search is back at freep.
RECURSIVE Find(_, _, _, _)
Find(h, fp, prevp, n) ==
  LET p == h[prevp].ptr
  IN  CASE h[p].size >= n -> prevp
        [] h[p].size < n /\ p = fp -> NULL
        [] OTHER -> Find(h, fp, p, n)

\* The block that is handed out: all of it, or its tail.
CutAt(h, p, n) == p + h[p].size - n
Cut(h, prevp, n) ==
  LET p == h[prevp].ptr
      at == CutAt(h, p, n)
  IN  IF h[p].size = n
      THEN [at |-> p, hdr |-> [[h EXCEPT ![prevp].ptr = h[p].ptr] EXCEPT ![p].ptr = Base]]
      ELSE [at |-> at, hdr |-> [[h EXCEPT ![p].size = @ - n] EXCEPT ![at].size = n]]

nunits(nbytes) == (((nbytes + HSIZE - 1) % UINT) \div HSIZE) + 1

\* malloc(); sbrk() may fail, and then so does malloc().
malloc(nbytes) ==
  LET n == nunits(nbytes)
      fp == IF freep = NULL THEN Base ELSE freep
      found == Find(hdr, fp, fp, n)
      core == morecore(hdr, fp, n)
      grown == Find(core.hdr, core.freep, core.freep, n)
      h == IF found = NULL THEN core.hdr ELSE hdr
      prevp == IF found = NULL THEN grown ELSE found
      cut == Cut(h, prevp, n)
  IN  \/ /\ found # NULL \/ top + CoreUnits(n) <= TOP
         /\ hdr' = cut.hdr /\ freep' = prevp
         /\ given' = given \cup {cut.at}
         /\ top' = IF found = NULL THEN top + CoreUnits(n) ELSE top
      \/ /\ found = NULL
         /\ freep' = fp /\ UNCHANGED <<hdr, top, given>>

\* sbrk() by the program itself.
sbrk(n) ==
  /\ top + n <= TOP
  /\ top' = top + n /\ UNCHANGED <<hdr, freep, given>>

MallocNext ==
  \/ \E r \in Sizes : malloc(r)
  \/ \E bp \in given : free(bp)
  \/ \E n \in HoleLens : sbrk(n)
MallocSpec == MallocInit /\ [][MallocNext]_mallocVars

-----------------------------------------------------------------------------
\* The list of free blocks and the blocks of the program are a heap: nothing
\* overlaps or is lost, whatever the order of the calls, and neighbours that
\* are free are joined, so that no request asks for more memory needlessly.
RECURSIVE Chain(_)
Chain(p) == IF hdr[p].ptr = freep THEN {p} ELSE {p} \cup Chain(hdr[p].ptr)
FreeUnits == IF freep = NULL THEN {}
             ELSE UNION {b..(b + hdr[b].size - 1) : b \in Chain(freep)}
H == INSTANCE Heap WITH avail <- FreeUnits, brk <- top,
                        given <- {[at |-> b, n |-> hdr[b].size] : b \in given}
ImplementsHeap == H!Init /\ [][UNCHANGED mallocVars \/ H!Next]_(H!heapVars)
=============================================================================
