---------------------------- MODULE MemoryProofs ----------------------------
(***************************************************************************)
(* Frames, sizes, limits and what processes see of their memory, for any   *)
(* number of processes, machines of any size, and any geometry of the page *)
(* tables.                                                                 *)
(*                                                                         *)
(* The theorems are about behaviours without races of the threads of one   *)
(* process: torn = "no".  The invariant then says, for every address       *)
(* space, which frames it has (Good) and which pages are there (Exact),    *)
(* also in the middle of a call.                                           *)
(***************************************************************************)
EXTENDS Memory, FiniteSetTheorems, WellFoundedInduction, TLAPS

SpaceType == [kt : SUBSET Frame, pt : [Table -> Frame \cup {0}],
              pte : [Page -> [f : Frame \cup {0}, u : BOOLEAN]]]
MemType == [frames : SUBSET Frame, free : SUBSET Frame, content : [Frame -> Int],
            space : [Frame \cup {0} -> SpaceType]]
Segment == [va : Nat, end : Nat, file : Nat]
JobType == [op : {"no", "sbrk", "spawn", "fork", "exec", "segment", "stack"},
            at : {"no", "alloc", "done", "failed", "copy", "load"},
            dir : Frame \cup {0}, a : Nat, old : Nat, to : Nat, child : Slot \cup {0},
            prog : Seq(Segment), stack : Nat]

\* The frames of an address space: the directory and the tables, and the pages.
Fixed(x, d) == {d} \cup Tables(x.space[d])
Pages(x, d) == {x.space[d].pte[v].f : v \in Page} \ {0}
Uses(x, d) == Fixed(x, d) \cup Pages(x, d)

\* The address spaces D and the kernel stacks K have frames of their own.
Good(x, D, K) ==
  /\ x \in MemType /\ x.free \subseteq x.frames
  /\ D \subseteq Frame /\ K \subseteq x.frames \ x.free
  /\ \A d \in D : Uses(x, d) \subseteq (x.frames \ x.free) \ K
  /\ \A d, e \in D : d # e => Uses(x, d) \cap Uses(x, e) = {}
  /\ \A d \in D : Fixed(x, d) \cap Pages(x, d) = {}
  /\ \A d \in D : \A v, w \in Page :
       x.space[d].pte[v].f = x.space[d].pte[w].f /\ v # w => x.space[d].pte[v].f = 0
  /\ \A d \in D : \A v \in Page : x.space[d].pte[v].f = 0 => ~x.space[d].pte[v].u

\* All other frames are free.
AllUsed(x, D, K) == x.frames \subseteq x.free \cup K \cup UNION {Uses(x, d) : d \in D}

\* The pages below n are there, and no others.
Exact(x, d, n) == \A v \in Page : x.space[d].pte[v].f # 0 <=> v < n
PagesOf(size) == (size + PGSIZE - 1) \div PGSIZE

-----------------------------------------------------------------------------
Owners == {x \in Slot : st[x] = "run" \/ (st[x] = "zombie" /\ head[share[x]] = x)}
Building == {"fork", "exec", "segment", "stack"}
Execing == {"exec", "segment", "stack"}
Builders == {x \in Slot : job[x].op \in Building}
InUse == {x \in Slot : st[x] # "unused"}

MemTypes ==
  /\ project \in {1, 2} /\ panicked = "no"
  /\ st \in [Slot -> {"unused", "embryo", "run", "zombie"}]
  /\ kstack \in [Slot -> Frame \cup {0}] /\ pgdir \in [Slot -> Frame \cup {0}]
  /\ share \in [Slot -> Slot] /\ sz \in [Slot -> Nat] /\ limit \in [Slot -> Nat]
  /\ parent \in [Slot -> Slot \cup {0}] /\ head \in [Slot -> Slot \cup {0}]
  /\ job \in [Slot -> JobType]

\* The threads of a process: they have one address space, that of the head of
\* the family; when they have ended, the head stands for it.
Families ==
  /\ project = 1 => \A x \in Slot : /\ share[x] = x /\ limit[x] = 0
                                    /\ st[x] \in {"run", "zombie"} => head[x] = x
  /\ \A x \in Slot : st[x] \in {"run", "zombie"} =>
       st[share[x]] \in {"run", "zombie"} /\ share[share[x]] = share[x]
  /\ \A x \in Slot : st[x] = "run" =>
       LET h == head[share[x]]
       IN  h \in Slot /\ st[h] = "run" /\ share[h] = share[x] /\ pgdir[h] = pgdir[x]
  /\ \A x, y \in Owners : pgdir[x] = pgdir[y] => share[x] = share[y]

\* A thread in a call is alone with it in its process, and so are the slot and the
\* address space that the call is making.
Calls ==
  /\ \A x \in Slot : job[x].op = "no" => job[x] = NoJob
  /\ \A x \in Slot : job[x].op # "no" => st[x] = "run"
  /\ \A x, y \in Slot : job[x].op # "no" /\ job[y].op # "no" /\ share[x] = share[y] => x = y
  /\ \A x \in Slot : IF job[x].op \in {"fork", "spawn"} THEN st[job[x].child] = "embryo" /\ job[x].child # 0
                     ELSE job[x].child = 0
  /\ \A x, y \in Slot : job[x].child # 0 /\ job[x].child = job[y].child => x = y
  /\ \A x \in Builders, y \in Owners : job[x].dir # pgdir[y]
  /\ \A x, y \in Builders : job[x].dir = job[y].dir => x = y
  /\ \A x, y \in Slot : job[x].op \in Execing /\ st[y] = "run" /\ share[y] = share[x] => y = x

\* Which frames are used, and by what.
Framed ==
  /\ Good(m, Spaces, KStacks) /\ m.space[0] = NoSpace
  /\ \A x, y \in InUse : kstack[x] = kstack[y] => x = y
  /\ project = 1 => AllUsed(m, Spaces, KStacks)

\* Which pages are there: as many as the size says, or none after sbrk() has given
\* all back; in a call, as many as it has come to.
Sized(x) ==
  st[x] = "run" =>
    /\ sz[share[x]] < KERNBASE
    /\ (\A y \in Slot : job[y].op \in {"sbrk", "spawn"} => share[y] # share[x]) =>
         Exact(m, pgdir[x], PagesOf(sz[share[x]])) \/ Exact(m, pgdir[x], 0)
Progress(x) ==
  LET j == job[x]
      d == pgdir[x]
      size == sz[share[x]]
      n == j.a \div PGSIZE
  IN  /\ j.op = "sbrk" => /\ j.at \in {"alloc", "done", "failed"}
                          /\ j.at = "alloc" => j.dir = d /\ j.old = size
                          /\ j.at = "done" => j.to < KERNBASE /\ Exact(m, d, PagesOf(j.to))
                          /\ j.at = "failed" => Exact(m, d, PagesOf(size)) \/ Exact(m, d, 0)
      /\ j.op = "spawn" => /\ project = 2 /\ j.at \in {"alloc", "done", "failed"}
                           /\ j.dir = d /\ j.old = PGROUNDUP(size)
                           /\ j.at = "failed" => Exact(m, d, PagesOf(size))
      /\ j.op = "fork" => /\ j.at = "copy" /\ j.to = size /\ Exact(m, d, PagesOf(size))
                          /\ Exact(m, j.dir, n) /\ n <= PagesOf(size) /\ j.a = n * PGSIZE
      /\ j.op = "exec" => j.at = "load" /\ Exact(m, j.dir, PagesOf(j.to)) /\ j.to < KERNBASE
      /\ j.op = "segment" => j.at \in {"alloc", "done", "failed"} /\ j.prog # <<>>
      /\ j.op = "stack" => j.at \in {"alloc", "done", "failed"}
      /\ j.op \in AllocOps /\ j.at = "alloc" =>
           /\ Exact(m, j.dir, n) /\ n <= PagesOf(j.to) /\ j.a = n * PGSIZE
           /\ j.to < KERNBASE /\ PagesOf(j.old) <= n
      /\ j.op \in AllocOps \ {"sbrk"} /\ j.at = "done" => j.to < KERNBASE /\ Exact(m, j.dir, PagesOf(j.to))

\* What a call may still make of the size.
Limited(x) ==
  LET j == job[x]
      lim == limit[share[x]]
  IN  /\ st[x] = "run" /\ lim # 0 => sz[share[x]] < lim + PGSIZE
      /\ j.op \in {"sbrk", "spawn"} /\ j.at # "failed" /\ lim # 0 => j.to < lim + PGSIZE
      /\ j.op \in Execing => lim = 0

\* What is in the pages: fork() has copied those that it has come to, and exec()
\* has nothing but zeroes and text.
Copied(x) ==
  LET j == job[x]
      old == m.space[pgdir[x]]
      new == m.space[j.dir]
  IN  /\ j.op = "fork" => \A v \in Page : v < j.a \div PGSIZE =>
           new.pte[v].u = old.pte[v].u /\ m.content[new.pte[v].f] = m.content[old.pte[v].f]
      /\ j.op \in Execing => \A v \in Page : new.pte[v].f # 0 => m.content[new.pte[v].f] \in {Zero, Text}

Thread(x) == Sized(x) /\ Progress(x) /\ Limited(x) /\ Copied(x)

MInv == MemTypes /\ Families /\ Calls /\ Framed /\ \A x \in Slot : Thread(x)
IInv == torn = "no" => MInv

-----------------------------------------------------------------------------
\* Numbers of slots, frames and pages.

LEMMA Numbers ==
  /\ NPROC \in Nat \ {0} /\ PGSIZE \in Nat \ {0} /\ NPT \in Nat \ {0} /\ KERNBASE \in Nat \ {0}
  /\ WORD \in Nat \ {0} /\ KTAB \in Nat /\ PGSIZE < KERNBASE
  /\ Slot \subseteq Nat /\ 0 \notin Slot /\ 1 \in Slot
  /\ \A n \in Sizes : n \in Nat /\ n >= KTAB + 4 /\ 1..n \subseteq Frame
  /\ Frame \subseteq Nat /\ 0 \notin Frame
<1>1. (CHOOSE n \in Sizes : \A k \in Sizes : k <= n) \in Sizes
      /\ \A k \in Sizes : k <= (CHOOSE n \in Sizes : \A k1 \in Sizes : k1 <= n)
  BY MemAssumption, Zenon
<1>. QED  BY <1>1, MemAssumption DEF Slot, Frame

\* Division by the page size.
LEMMA PgDiv ==
  ASSUME NEW a \in Nat
  PROVE  /\ a \div PGSIZE \in Nat /\ (a \div PGSIZE) * PGSIZE <= a
         /\ a < (a \div PGSIZE) * PGSIZE + PGSIZE
BY Numbers

LEMMA PgMul ==
  ASSUME NEW v \in Nat, NEW w \in Nat
  PROVE  /\ v * PGSIZE \in Nat
         /\ v <= w <=> v * PGSIZE <= w * PGSIZE
         /\ v < w <=> v * PGSIZE < w * PGSIZE
         /\ (v + 1) * PGSIZE = v * PGSIZE + PGSIZE
BY Numbers

LEMMA PgOf ==
  ASSUME NEW v \in Nat
  PROVE  (v * PGSIZE) \div PGSIZE = v
<1>. DEFINE q == (v * PGSIZE) \div PGSIZE
<1>1. v * PGSIZE \in Nat
  BY Numbers
<1>2. q \in Nat /\ q * PGSIZE <= v * PGSIZE /\ v * PGSIZE < q * PGSIZE + PGSIZE
  BY <1>1, PgDiv
<1>. HIDE DEF q
<1>3. q <= v
  BY <1>2, PgMul
<1>4. q + 1 \in Nat /\ v * PGSIZE < (q + 1) * PGSIZE
  BY <1>2, PgMul
<1>5. v < q + 1
  BY <1>4, PgMul
<1>6. q = v
  BY <1>2, <1>3, <1>5
<1>. QED  BY <1>6 DEF q

\* The pages of a size are those that begin below it.
LEMMA PagesBelow ==
  ASSUME NEW size \in Nat
  PROVE  /\ PagesOf(size) \in Nat
         /\ \A v \in Nat : v < PagesOf(size) <=> v * PGSIZE < size
         /\ PGROUNDUP(size) = PagesOf(size) * PGSIZE
         /\ PGROUNDUP(size) \in Nat /\ size <= PGROUNDUP(size) /\ PGROUNDUP(size) < size + PGSIZE
         /\ PGROUNDUP(size) \div PGSIZE = PagesOf(size)
<1>. DEFINE n == PagesOf(size)
<1>1. size + PGSIZE - 1 \in Nat
  BY Numbers
<1>2. /\ n \in Nat /\ n * PGSIZE <= size + PGSIZE - 1 /\ size + PGSIZE - 1 < n * PGSIZE + PGSIZE
  BY <1>1, PgDiv DEF PagesOf
<1>3. PGROUNDUP(size) = n * PGSIZE
  BY DEF PGROUNDUP, PagesOf
<1>. HIDE DEF n
<1>4. n * PGSIZE \in Nat
  BY <1>2, PgMul
<1>5. ASSUME NEW v \in Nat PROVE v < n <=> v * PGSIZE < size
  <2>1. CASE v < n
    <3>1. v + 1 <= n /\ v + 1 \in Nat
      BY <1>2, <2>1
    <3>2. (v + 1) * PGSIZE <= n * PGSIZE /\ (v + 1) * PGSIZE = v * PGSIZE + PGSIZE /\ v * PGSIZE \in Nat
      BY <1>2, <3>1, PgMul
    <3>. QED  BY <1>2, <1>4, <2>1, <3>2, Numbers
  <2>2. CASE n <= v
    <3>1. n * PGSIZE <= v * PGSIZE /\ v * PGSIZE \in Nat
      BY <1>2, <2>2, PgMul
    <3>. QED  BY <1>2, <1>4, <2>2, <3>1, Numbers
  <2>. QED  BY <1>2, <2>1, <2>2
<1>6. PGROUNDUP(size) \div PGSIZE = n
  BY <1>2, <1>3, PgOf
<1>. QED  BY <1>2, <1>3, <1>4, <1>5, <1>6, Numbers DEF n

\* Rounding up adds no page.
LEMMA RoundedPages ==
  ASSUME NEW size \in Nat
  PROVE  PagesOf(PGROUNDUP(size)) = PagesOf(size)
<1>. DEFINE n == PagesOf(size)
            k == PagesOf(PGROUNDUP(size))
<1>1. /\ n \in Nat /\ PGROUNDUP(size) = n * PGSIZE /\ PGROUNDUP(size) \in Nat
  BY PagesBelow
<1>2. k \in Nat /\ \A v \in Nat : v < k <=> v * PGSIZE < n * PGSIZE
  BY <1>1, PagesBelow
<1>. HIDE DEF n, k
<1>3. \A v \in Nat : v < k <=> v < n
  BY <1>1, <1>2, PgMul, Zenon
<1>4. k = n
  BY <1>1, <1>2, <1>3
<1>. QED  BY <1>4 DEF n, k

\* More memory has more pages.
LEMMA MorePages ==
  ASSUME NEW s \in Nat, NEW t \in Nat, s <= t
  PROVE  PagesOf(s) <= PagesOf(t)
<1>. DEFINE n == PagesOf(s)
            k == PagesOf(t)
<1>1. n \in Nat /\ k \in Nat /\ (\A v \in Nat : v < n <=> v * PGSIZE < s) /\ (\A v \in Nat : v < k <=> v * PGSIZE < t)
  BY PagesBelow
<1>. HIDE DEF n, k
<1>2. ASSUME k < n PROVE FALSE
  <2>1. k * PGSIZE < s /\ ~(k * PGSIZE < t) /\ k * PGSIZE \in Nat
    BY <1>1, <1>2, PgMul
  <2>. QED  BY <2>1
<1>3. n <= k
  BY <1>1, <1>2
<1>. QED  BY <1>3 DEF n, k

\* A page that begins below the user part's end is a page.
LEMMA PageBelow ==
  ASSUME NEW n \in Nat, n * PGSIZE < KERNBASE
  PROVE  n \in Page
<1>. DEFINE k == (KERNBASE - 1) \div PGSIZE
<1>1. KERNBASE - 1 \in Nat /\ n * PGSIZE <= KERNBASE - 1 /\ n * PGSIZE \in Nat
  BY Numbers, PgMul
<1>2. k \in Nat /\ KERNBASE - 1 < k * PGSIZE + PGSIZE
  BY <1>1, PgDiv
<1>3. Page = 0..k
  BY DEF Page
<1>. HIDE DEF k
<1>4. (k + 1) * PGSIZE = k * PGSIZE + PGSIZE /\ k + 1 \in Nat /\ k * PGSIZE \in Nat
  BY <1>2, PgMul
<1>5. n * PGSIZE < (k + 1) * PGSIZE
  BY <1>1, <1>2, <1>4, Numbers
<1>6. n < k + 1
  BY <1>4, <1>5, PgMul
<1>. QED  BY <1>2, <1>3, <1>6

LEMMA PageNat == Page \subseteq Nat /\ 0 \in Page /\ \A v \in Page : v \div NPT \in Table
<1>1. KERNBASE - 1 \in Nat
  BY Numbers
<1>2. (KERNBASE - 1) \div PGSIZE \in Nat
  BY <1>1, PgDiv
<1>. QED  BY <1>2 DEF Page, Table

\* The lowest of some frames or slots is one of them.
LEMMA LowestIn ==
  ASSUME NEW S \in SUBSET Nat, S # {}
  PROVE  Lowest(S) \in S
<1>2. PICK x \in S : \A y \in S : ~(<<y, x>> \in OpToRel(<, Nat))
  BY NatLessThanWellFounded, WFMin, Zenon
<1>3. ASSUME NEW y \in S PROVE x <= y
  <2>1. <<y, x>> \in Nat \X Nat /\ ~(<<y, x>> \in {ss \in Nat \X Nat : ss[1] < ss[2]})
    BY <1>2, <1>3, Zenon DEF OpToRel
  <2>. QED  BY <2>1
<1>. QED  BY <1>3, Zenon DEF Lowest

-----------------------------------------------------------------------------
\* What the operators do to memory.

\* The content of a frame that was used and is used stays.
Untouched(y, x) == \A g \in Frame : g \notin x.free /\ g \notin y.free => y.content[g] = x.content[g]

LEMMA Values == Zero \in Int /\ Junk \in Int /\ Text \in Int /\ Zero # Text
BY DEF Zero, Junk, Text

LEMMA TookIs ==
  ASSUME NEW x \in MemType, NEW f \in Frame, NEW c \in Int, NEW y, y = Took(x, f, c)
  PROVE  /\ y \in MemType /\ y.frames = x.frames /\ y.free = x.free \ {f} /\ y.space = x.space
         /\ y.content = [x.content EXCEPT ![f] = c]
<1>1. /\ y.frames = x.frames /\ y.free = x.free \ {f} /\ y.space = x.space
      /\ y.content = [x.content EXCEPT ![f] = c]
  BY DEF Took, MemType
<1>2. y = [frames |-> y.frames, free |-> y.free, content |-> y.content, space |-> y.space]
  BY Zenon DEF Took, MemType
<1>. QED  BY <1>1, <1>2 DEF MemType

LEMMA kfreeIs ==
  ASSUME NEW x \in MemType, NEW F \in SUBSET Frame, NEW y, y = kfree(x, F)
  PROVE  /\ y \in MemType /\ y.frames = x.frames /\ y.free = x.free \cup F /\ y.space = x.space
         /\ \A g \in Frame : y.content[g] = IF g \in F THEN Junk ELSE x.content[g]
<1>1. /\ y.frames = x.frames /\ y.free = x.free \cup F /\ y.space = x.space
      /\ y.content = [f \in Frame |-> IF f \in F THEN Junk ELSE x.content[f]]
  BY DEF kfree, MemType
<1>2. y = [frames |-> y.frames, free |-> y.free, content |-> y.content, space |-> y.space]
  BY Zenon DEF kfree, MemType
<1>. QED  BY <1>1, <1>2, Values DEF MemType

\* Frames are taken for, and given back by, the kernel stacks.
LEMMA GoodTake ==
  ASSUME NEW x, NEW D, NEW K, Good(x, D, K), NEW R \in SUBSET x.free, NEW y \in MemType,
         y.frames = x.frames, y.space = x.space, y.free = x.free \ R
  PROVE  /\ Good(y, D, K \cup R)
         /\ AllUsed(x, D, K) => AllUsed(y, D, K \cup R)
<1>1. \A d : Uses(y, d) = Uses(x, d) /\ Fixed(y, d) = Fixed(x, d) /\ Pages(y, d) = Pages(x, d)
  BY DEF Uses, Fixed, Pages
<1>2. x \in MemType /\ x.free \subseteq x.frames /\ K \subseteq x.frames \ x.free
      /\ \A d \in D : Uses(x, d) \subseteq (x.frames \ x.free) \ K
  BY DEF Good
<1>3. y.free \subseteq y.frames /\ K \cup R \subseteq y.frames \ y.free
      /\ \A d \in D : Uses(y, d) \subseteq (y.frames \ y.free) \ (K \cup R)
  BY <1>1, <1>2
<1>4. Good(y, D, K \cup R)
  BY <1>1, <1>3 DEF Good
<1>5. ASSUME AllUsed(x, D, K) PROVE AllUsed(y, D, K \cup R)
  BY <1>1, <1>5 DEF AllUsed
<1>. QED  BY <1>4, <1>5

LEMMA GoodGive ==
  ASSUME NEW x, NEW D, NEW K, Good(x, D, K), NEW R \in SUBSET K, NEW y \in MemType,
         y.frames = x.frames, y.space = x.space, y.free = x.free \cup R
  PROVE  /\ Good(y, D, K \ R)
         /\ AllUsed(x, D, K) => AllUsed(y, D, K \ R)
<1>1. \A d : Uses(y, d) = Uses(x, d) /\ Fixed(y, d) = Fixed(x, d) /\ Pages(y, d) = Pages(x, d)
  BY DEF Uses, Fixed, Pages
<1>2. x \in MemType /\ x.free \subseteq x.frames /\ K \subseteq x.frames \ x.free
      /\ \A d \in D : Uses(x, d) \subseteq (x.frames \ x.free) \ K
  BY DEF Good
<1>3. y.free \subseteq y.frames /\ K \ R \subseteq y.frames \ y.free
      /\ \A d \in D : Uses(y, d) \subseteq (y.frames \ y.free) \ (K \ R)
  BY <1>1, <1>2
<1>4. Good(y, D, K \ R)
  BY <1>1, <1>3 DEF Good
<1>5. ASSUME AllUsed(x, D, K) PROVE AllUsed(y, D, K \ R)
  BY <1>1, <1>5 DEF AllUsed
<1>. QED  BY <1>4, <1>5

\* The content does not matter,
LEMMA GoodContent ==
  ASSUME NEW x, NEW D, NEW K, Good(x, D, K), NEW y \in MemType,
         y.frames = x.frames, y.space = x.space, y.free = x.free
  PROVE  /\ Good(y, D, K)
         /\ AllUsed(x, D, K) => AllUsed(y, D, K)
<1>1. \A d : Uses(y, d) = Uses(x, d) /\ Fixed(y, d) = Fixed(x, d) /\ Pages(y, d) = Pages(x, d)
  BY DEF Uses, Fixed, Pages
<1>4. Good(y, D, K)
  BY <1>1 DEF Good
<1>5. ASSUME AllUsed(x, D, K) PROVE AllUsed(y, D, K)
  BY <1>1, <1>5 DEF AllUsed
<1>. QED  BY <1>4, <1>5

\* and what is forgotten is lost.
LEMMA GoodFewer ==
  ASSUME NEW x, NEW D, NEW K, Good(x, D, K), NEW E \in SUBSET D
  PROVE  Good(x, E, K)
BY DEF Good

\* The parts of an address space.
LEMMA Parts ==
  ASSUME NEW x \in MemType, NEW d \in Frame
  PROVE  /\ x.space[d] \in SpaceType
         /\ Pages(x, d) \subseteq Frame /\ Fixed(x, d) \subseteq Frame
         /\ \A g \in Frame : g \in Pages(x, d) <=> \E v \in Page : x.space[d].pte[v].f = g
         /\ \A v \in Page : x.space[d].pte[v].f \in Frame \cup {0} /\ x.space[d].pte[v].u \in BOOLEAN
         /\ \A v \in Page : x.space[d].pte[v].f # 0 => x.space[d].pte[v].f \in Pages(x, d)
         /\ x.free \subseteq Frame
<1>1. x.space[d] \in SpaceType /\ x.free \subseteq Frame
  BY DEF MemType
<1>2. \A v \in Page : x.space[d].pte[v].f \in Frame \cup {0} /\ x.space[d].pte[v].u \in BOOLEAN
  BY <1>1 DEF SpaceType
<1>3. Pages(x, d) \subseteq Frame
      /\ (\A g \in Frame : g \in Pages(x, d) <=> \E v \in Page : x.space[d].pte[v].f = g)
      /\ \A v \in Page : x.space[d].pte[v].f # 0 => x.space[d].pte[v].f \in Pages(x, d)
  BY <1>2, Numbers DEF Pages
<1>4. Fixed(x, d) \subseteq Frame
  BY <1>1 DEF Fixed, Tables, SpaceType
<1>. QED  BY <1>1, <1>2, <1>3, <1>4

\* A new directory: its kernel tables are free frames, and it has no pages.
LEMMA setupkvmIs ==
  ASSUME NEW x, NEW D, NEW K, Good(x, D, K), x.free # {}, NEW s, s = setupkvm(x)
  PROVE  /\ s.dir \in x.free /\ s.dir \notin D /\ s.dir \in Frame
         /\ Good(s.x, D \cup {s.dir}, K)
         /\ AllUsed(x, D, K) => AllUsed(s.x, D \cup {s.dir}, K)
         /\ \A e \in D \cup {0} : s.x.space[e] = x.space[e]
         /\ Exact(s.x, s.dir, 0)
         /\ s.x.content = x.content
         /\ s.x.free \subseteq x.free
<1>. DEFINE d == kalloc(x)
            F == {f \in x.free \ {d} : Cardinality({g \in x.free \ {d} : g < f}) < KTAB}
            y == s.x
<1>1. x \in MemType /\ x.free \subseteq Frame /\ x.free \subseteq Nat /\ x.free \subseteq x.frames
  BY Numbers, Zenon DEF Good, MemType
<1>2. d \in x.free
  BY <1>1, LowestIn DEF kalloc
<1>3. F \subseteq x.free \ {d}
  OBVIOUS
<1>4. s.dir = d /\ y = [x EXCEPT !.free = @ \ ({d} \cup F), !.space[d] = [NoSpace EXCEPT !.kt = F]]
  BY DEF setupkvm
<1>. HIDE DEF d, F, y
<1>. DEFINE S == [NoSpace EXCEPT !.kt = F]
<1>5. /\ S.kt = F /\ S.pt = [i \in Table |-> 0] /\ S.pte = [v \in Page |-> Absent]
      /\ S = [kt |-> S.kt, pt |-> S.pt, pte |-> S.pte]
  BY DEF NoSpace
<1>6. S \in SpaceType
  <2>1. S.kt \in SUBSET Frame /\ S.pt \in [Table -> Frame \cup {0}]
    BY <1>1, <1>3, <1>5
  <2>2. S.pte \in [Page -> [f : Frame \cup {0}, u : BOOLEAN]]
    <3>1. Absent \in [f : Frame \cup {0}, u : BOOLEAN]
      BY DEF Absent
    <3>. QED  BY <1>5, <3>1
  <2>. HIDE DEF S
  <2>. QED  BY <1>5, <2>1, <2>2 DEF SpaceType
<1>. HIDE DEF S
<1>7. y = [x EXCEPT !.free = @ \ ({d} \cup F), !.space[d] = S]
  BY <1>4 DEF S
<1>8. /\ y.frames = x.frames /\ y.content = x.content /\ y.free = x.free \ ({d} \cup F)
      /\ y.space = [x.space EXCEPT ![d] = S]
      /\ y = [frames |-> y.frames, free |-> y.free, content |-> y.content, space |-> y.space]
  BY <1>1, <1>7, Zenon DEF MemType
<1>9. y \in MemType
  <2>1. y.space \in [Frame \cup {0} -> SpaceType]
    BY <1>1, <1>6, <1>8, Zenon DEF MemType
  <2>. QED  BY <1>1, <1>8, <2>1 DEF MemType
<1>10. d \in Frame /\ d \notin D /\ d # 0
  <2>1. \A e \in D : e \in Uses(x, e)
    BY DEF Uses, Fixed
  <2>. QED  BY <1>1, <1>2, <2>1, Numbers DEF Good
<1>11. y.space[d] = S /\ \A e \in Frame \cup {0} : e # d => y.space[e] = x.space[e]
  BY <1>1, <1>8, <1>10 DEF MemType
<1>12. D \subseteq Frame
  BY DEF Good
<1>13. \A e \in D : Uses(y, e) = Uses(x, e) /\ Fixed(y, e) = Fixed(x, e) /\ Pages(y, e) = Pages(x, e)
  BY <1>10, <1>11, <1>12 DEF Uses, Fixed, Pages
<1>14. \A v \in Page : y.space[d].pte[v].f = 0 /\ ~y.space[d].pte[v].u
  BY <1>5, <1>11 DEF Absent
<1>15. Pages(y, d) = {} /\ Fixed(y, d) = {d} \cup F /\ Uses(y, d) = {d} \cup F
  <2>1. Pages(y, d) = {}
    BY <1>14 DEF Pages
  <2>2. Fixed(y, d) = {d} \cup F
    BY <1>5, <1>11 DEF Fixed, Tables
  <2>. QED  BY <2>1, <2>2 DEF Uses
<1>16. Good(y, D \cup {d}, K)
  <2>1. y.free \subseteq y.frames /\ K \subseteq y.frames \ y.free /\ D \cup {d} \subseteq Frame
    BY <1>1, <1>8, <1>10, <1>12 DEF Good
  <2>2. \A e \in D : Uses(x, e) \subseteq (x.frames \ x.free) \ K
    BY DEF Good
  <2>3. \A e \in D \cup {d} : Uses(y, e) \subseteq (y.frames \ y.free) \ K
    <3>1. {d} \cup F \subseteq (x.frames \ y.free) \ K
      BY <1>1, <1>2, <1>3, <1>8 DEF Good
    <3>. QED  BY <1>8, <1>13, <1>15, <2>2, <3>1
  <2>4. \A e \in D : Uses(y, e) \cap Uses(y, d) = {}
    BY <1>2, <1>3, <1>13, <1>15, <2>2
  <2>5. \A e, f \in D \cup {d} : e # f => Uses(y, e) \cap Uses(y, f) = {}
    BY <1>13, <2>4 DEF Good
  <2>6. \A e \in D \cup {d} : Fixed(y, e) \cap Pages(y, e) = {}
    BY <1>13, <1>15 DEF Good
  <2>7. \A e \in D : y.space[e] = x.space[e]
    BY <1>10, <1>11, <1>12
  <2>8. \A e \in D \cup {d} : \A v, w \in Page :
          y.space[e].pte[v].f = y.space[e].pte[w].f /\ v # w => y.space[e].pte[v].f = 0
    BY <1>14, <2>7 DEF Good
  <2>9. \A e \in D \cup {d} : \A v \in Page : y.space[e].pte[v].f = 0 => ~y.space[e].pte[v].u
    BY <1>14, <2>7 DEF Good
  <2>. QED  BY <1>9, <2>1, <2>3, <2>5, <2>6, <2>8, <2>9 DEF Good
<1>17. ASSUME AllUsed(x, D, K) PROVE AllUsed(y, D \cup {d}, K)
  BY <1>8, <1>13, <1>15, <1>17 DEF AllUsed
<1>18. Exact(y, d, 0)
  BY <1>14, PageNat DEF Exact
<1>19. \A e \in D \cup {0} : y.space[e] = x.space[e]
  BY <1>10, <1>11, <1>12
<1>. QED  BY <1>2, <1>4, <1>8, <1>10, <1>16, <1>17, <1>18, <1>19 DEF y

\* Page v of d is now frame f, and the table for it may be new.
Paged(y, x, d, v, f, u) ==
  /\ y \in MemType /\ y.frames = x.frames /\ f \in x.free
  /\ \A e \in Frame \cup {0} : e # d => y.space[e] = x.space[e]
  /\ y.space[d].pte = [x.space[d].pte EXCEPT ![v] = [f |-> f, u |-> u]]
  /\ \E T \in SUBSET (x.free \ {f}) :
       y.free = x.free \ ({f} \cup T) /\ Fixed(y, d) = Fixed(x, d) \cup T

LEMMA GoodPaged ==
  ASSUME NEW x, NEW D, NEW K, Good(x, D, K), NEW d \in D, NEW v \in Page, NEW f, NEW u \in BOOLEAN,
         x.space[d].pte[v].f = 0, NEW y, Paged(y, x, d, v, f, u)
  PROVE  /\ Good(y, D, K)
         /\ AllUsed(x, D, K) => AllUsed(y, D, K)
<1>1. /\ x \in MemType /\ y \in MemType /\ D \subseteq Frame /\ f \in x.free /\ y.frames = x.frames
      /\ x.free \subseteq Frame /\ x.free \subseteq x.frames
  BY DEF Good, Paged, MemType
<1>2. PICK T \in SUBSET (x.free \ {f}) : y.free = x.free \ ({f} \cup T) /\ Fixed(y, d) = Fixed(x, d) \cup T
  BY DEF Paged
<1>3. \A e \in D : e # d => y.space[e] = x.space[e]
  BY <1>1 DEF Paged
<1>4. \A e \in D : e # d => Uses(y, e) = Uses(x, e) /\ Fixed(y, e) = Fixed(x, e) /\ Pages(y, e) = Pages(x, e)
  BY <1>3 DEF Uses, Fixed, Pages
<1>5. f # 0 /\ f \in Frame /\ d \in Frame
  BY <1>1, Numbers
<1>6. x.space[d] \in SpaceType
  BY <1>1 DEF MemType
<1>7. \A w \in Page : y.space[d].pte[w] = IF w = v THEN [f |-> f, u |-> u] ELSE x.space[d].pte[w]
  BY <1>6 DEF Paged, SpaceType
<1>8. \A w \in Page : y.space[d].pte[w].f = IF w = v THEN f ELSE x.space[d].pte[w].f
  BY <1>7
<1>9. Pages(y, d) = Pages(x, d) \cup {f}
  BY <1>5, <1>8 DEF Pages
<1>10. Uses(y, d) = Uses(x, d) \cup {f} \cup T
  BY <1>2, <1>9 DEF Uses
<1>11. \A e \in D : Uses(x, e) \subseteq (x.frames \ x.free) \ K
  BY DEF Good
<1>12. K \subseteq x.frames \ x.free
  BY DEF Good
<1>13. Good(y, D, K)
  <2>1. y.free \subseteq y.frames /\ K \subseteq y.frames \ y.free
    BY <1>1, <1>2, <1>12
  <2>2. \A e \in D : Uses(y, e) \subseteq (y.frames \ y.free) \ K
    <3>1. Uses(y, d) \subseteq (y.frames \ y.free) \ K
      BY <1>1, <1>2, <1>10, <1>11, <1>12
    <3>. QED  BY <1>1, <1>2, <1>4, <1>11, <3>1
  <2>3. \A e \in D : e # d => Uses(y, e) \cap Uses(y, d) = {}
    BY <1>1, <1>2, <1>4, <1>10, <1>11 DEF Good
  <2>4. \A e, g \in D : e # g => Uses(y, e) \cap Uses(y, g) = {}
    BY <1>4, <2>3 DEF Good
  <2>5. \A e \in D : Fixed(y, e) \cap Pages(y, e) = {}
    <3>1. Fixed(x, d) \cap Pages(x, d) = {}
      BY DEF Good
    <3>2. Fixed(x, d) \subseteq x.frames \ x.free /\ Pages(x, d) \subseteq x.frames \ x.free
      BY <1>11 DEF Uses
    <3>3. Fixed(y, d) \cap Pages(y, d) = {}
      BY <1>1, <1>2, <1>9, <3>1, <3>2
    <3>. QED  BY <1>4, <3>3 DEF Good
  <2>6. \A w \in Page : x.space[d].pte[w].f # f
    <3>1. \A w \in Page : x.space[d].pte[w].f # 0 => x.space[d].pte[w].f \in Uses(x, d)
      BY DEF Uses, Pages
    <3>. QED  BY <1>1, <1>5, <1>11, <3>1
  <2>7. \A w, z \in Page : y.space[d].pte[w].f = y.space[d].pte[z].f /\ w # z => y.space[d].pte[w].f = 0
    BY <1>8, <2>6 DEF Good
  <2>8. \A w \in Page : y.space[d].pte[w].f = 0 => ~y.space[d].pte[w].u
    BY <1>5, <1>7, <1>8 DEF Good
  <2>9. \A e \in D : \A w, z \in Page :
          y.space[e].pte[w].f = y.space[e].pte[z].f /\ w # z => y.space[e].pte[w].f = 0
    BY <1>3, <2>7 DEF Good
  <2>10. \A e \in D : \A w \in Page : y.space[e].pte[w].f = 0 => ~y.space[e].pte[w].u
    BY <1>3, <2>8 DEF Good
  <2>. QED  BY <1>1, <2>1, <2>2, <2>4, <2>5, <2>9, <2>10 DEF Good
<1>14. ASSUME AllUsed(x, D, K) PROVE AllUsed(y, D, K)
  <2>1. \A e \in D : Uses(x, e) \subseteq Uses(y, e)
    BY <1>4, <1>10
  <2>2. \A g \in x.free : g \in y.free \/ g \in Uses(y, d)
    BY <1>2, <1>10
  <2>. QED  BY <1>1, <1>14, <2>1, <2>2 DEF AllUsed
<1>. QED  BY <1>13, <1>14

\* One more page, or none for want of memory: kernel and tables stay as they are.
LEMMA NewPageIs ==
  ASSUME NEW x, NEW D, NEW K, Good(x, D, K), NEW d \in D, NEW v \in Page, NEW c \in Int,
         NEW u \in BOOLEAN, x.space[d].pte[v].f = 0, NEW r, r = NewPage(x, d, v, c, u)
  PROVE  /\ Untouched(r.x, x)
         /\ \/ /\ r.res = "ok"
               /\ \E f : Paged(r.x, x, d, v, f, u) /\ r.x.content[f] = c
            \/ /\ r.res = "full"
               /\ r.x \in MemType /\ r.x.frames = x.frames /\ r.x.space = x.space /\ r.x.free = x.free
<1>. DEFINE f == kalloc(x)
            y == Took(x, f, c)
            i == v \div NPT
            q == mappages(y, d, v, f, u)
<1>1. x \in MemType /\ x.free \subseteq Frame /\ Frame \subseteq Nat /\ d \in Frame /\ i \in Table
  BY Numbers, PageNat DEF Good, MemType
<1>2. r = IF Out(x) THEN [res |-> "full", x |-> x]
          ELSE IF q.res = "full" THEN [q EXCEPT !.x = kfree(q.x, {f})] ELSE q
  BY DEF NewPage
<1>3. CASE Out(x)
  BY <1>1, <1>2, <1>3 DEF Untouched
<1>4. CASE ~Out(x)
  <2>1. f \in x.free /\ f \in Frame
    BY <1>1, <1>4, LowestIn DEF kalloc, Out
  <2>2. /\ y \in MemType /\ y.frames = x.frames /\ y.free = x.free \ {f} /\ y.space = x.space
        /\ y.content = [x.content EXCEPT ![f] = c]
    <3>1. y = Took(x, f, c)
      OBVIOUS
    <3>2. x \in MemType /\ f \in Frame /\ c \in Int
      BY <1>1, <2>1
    <3>. HIDE DEF f, y
    <3>. QED  BY ONLY <3>1, <3>2, TookIs
  <2>3. x.space[d].pte[v] = Absent
    <3>1. x.space[d].pte[v] \in [f : Frame \cup {0}, u : BOOLEAN]
      BY <1>1 DEF MemType, SpaceType
    <3>2. ~x.space[d].pte[v].u
      BY DEF Good
    <3>. QED  BY <3>1, <3>2, Zenon DEF Absent
  <2>4. q = IF NoTable(y, d, v) /\ Out(y) THEN [res |-> "full", x |-> y]
            ELSE [res |-> "ok", x |-> [walkpgdir(y, d, v) EXCEPT !.space[d].pte[v] = [f |-> f, u |-> u]]]
    BY <2>2, <2>3 DEF mappages
  <2>. HIDE DEF f, y, q
  <2>5. CASE NoTable(y, d, v) /\ Out(y)
    <3>. DEFINE F == {f}
    <3>1. r.res = "full" /\ r.x = kfree(y, F)
      BY <1>2, <1>4, <2>4, <2>5
    <3>2. F \in SUBSET Frame /\ \A g : g \in F <=> g = f
      BY <2>1
    <3>. HIDE DEF F
    <3>3. /\ r.x \in MemType /\ r.x.frames = y.frames /\ r.x.free = y.free \cup F /\ r.x.space = y.space
          /\ \A g \in Frame : r.x.content[g] = IF g \in F THEN Junk ELSE y.content[g]
      <4>1. y \in MemType
        BY <2>2
      <4>. QED  BY <3>1, <3>2, <4>1, kfreeIs
    <3>4. r.x.free = x.free
      BY <2>1, <2>2, <3>2, <3>3
    <3>5. Untouched(r.x, x)
      BY <1>1, <2>1, <2>2, <3>2, <3>3 DEF Untouched, MemType
    <3>. QED  BY <2>2, <3>1, <3>3, <3>4, <3>5
  <2>6. CASE ~(NoTable(y, d, v) /\ Out(y))
    <3>. DEFINE w == walkpgdir(y, d, v)
                e == [f |-> f, u |-> u]
    <3>1. r.res = "ok" /\ r.x = [w EXCEPT !.space[d].pte[v] = e]
      BY <1>2, <1>4, <2>4, <2>6
    <3>2. e \in [f : Frame \cup {0}, u : BOOLEAN]
      BY <2>1
    <3>3. /\ w \in MemType /\ w.frames = x.frames /\ w.content[f] = c
          /\ \A z \in Frame \cup {0} : z # d => w.space[z] = x.space[z]
          /\ w.space[d].pte = x.space[d].pte
          /\ \A g \in Frame : g \notin x.free => w.content[g] = x.content[g]
          /\ \E T \in SUBSET (x.free \ {f}) : w.free = x.free \ ({f} \cup T) /\ Fixed(w, d) = Fixed(x, d) \cup T
      <4>1. CASE ~NoTable(y, d, v)
        <5>1. w = y
          BY <4>1 DEF walkpgdir
        <5>2. w.content[f] = c /\ \A g \in Frame : g \notin x.free => w.content[g] = x.content[g]
          BY <1>1, <2>1, <2>2, <5>1 DEF MemType
        <5>3. {} \in SUBSET (x.free \ {f}) /\ w.free = x.free \ ({f} \cup {}) /\ Fixed(w, d) = Fixed(x, d) \cup {}
          BY <2>2, <5>1 DEF Fixed
        <5>. HIDE DEF w
        <5>. QED  BY <2>2, <5>1, <5>2, <5>3, Zenon
      <4>2. CASE NoTable(y, d, v)
        <5>. DEFINE t == kalloc(y)
                    z == Took(y, t, Zero)
        <5>1. t \in y.free /\ t \in Frame /\ t # f /\ t # 0
          BY <1>1, <2>2, <2>6, <4>2, LowestIn, Numbers DEF kalloc, Out
        <5>2. w = [z EXCEPT !.space[d].pt[i] = t]
          BY <4>2 DEF walkpgdir
        <5>3. /\ z \in MemType /\ z.frames = x.frames /\ z.free = (x.free \ {f}) \ {t} /\ z.space = x.space
              /\ z.content = [y.content EXCEPT ![t] = Zero]
          BY <2>2, <5>1, TookIs, Values
        <5>4. x.space[d] \in SpaceType /\ x.space[d].pt[i] = 0
          BY <1>1, <2>2, <4>2 DEF NoTable, MemType
        <5>. HIDE DEF z, w, t
        <5>5. z.space[d] \in SpaceType
          BY <5>3, <5>4
        <5>. DEFINE S == [z.space[d] EXCEPT !.pt[i] = t]
        <5>6. /\ S.kt = x.space[d].kt /\ S.pte = x.space[d].pte /\ S.pt = [x.space[d].pt EXCEPT ![i] = t]
              /\ S = [kt |-> S.kt, pt |-> S.pt, pte |-> S.pte]
          BY <5>3, <5>5 DEF SpaceType
        <5>7. S \in SpaceType
          <6>1. S.kt \in SUBSET Frame /\ S.pte \in [Page -> [f : Frame \cup {0}, u : BOOLEAN]]
            BY <5>4, <5>6 DEF SpaceType
          <6>2. S.pt \in [Table -> Frame \cup {0}]
            <7>1. x.space[d].pt \in [Table -> Frame \cup {0}]
              BY <5>4 DEF SpaceType
            <7>2. S.pt = [x.space[d].pt EXCEPT ![i] = t] /\ t \in Frame \cup {0}
              BY <5>1, <5>6
            <7>. HIDE DEF S
            <7>. QED  BY ONLY <7>1, <7>2, Zenon
          <6>. HIDE DEF S
          <6>. QED  BY <5>6, <6>1, <6>2, Zenon DEF SpaceType
        <5>8. /\ w.frames = z.frames /\ w.free = z.free /\ w.content = z.content
              /\ w.space = [z.space EXCEPT ![d] = S]
              /\ w = [frames |-> w.frames, free |-> w.free, content |-> w.content, space |-> w.space]
          BY <5>2, <5>3, Zenon DEF MemType
        <5>. HIDE DEF S
        <5>9. w \in MemType
          <6>1. w.space \in [Frame \cup {0} -> SpaceType]
            BY <1>1, <5>3, <5>7, <5>8 DEF MemType
          <6>. QED  BY <5>3, <5>8, <6>1 DEF MemType
        <5>10. w.space[d] = S /\ \A b \in Frame \cup {0} : b # d => w.space[b] = x.space[b]
          BY <1>1, <5>3, <5>8 DEF MemType
        <5>11. Tables(S) = Tables(x.space[d]) \cup {t}
          <6>1. \A b \in Table : S.pt[b] = IF b = i THEN t ELSE x.space[d].pt[b]
            BY <5>4, <5>6 DEF SpaceType
          <6>2. {S.pt[b] : b \in Table} \ {0} = ({x.space[d].pt[b] : b \in Table} \ {0}) \cup {t}
            BY <1>1, <5>1, <5>4, <6>1
          <6>. QED  BY <5>6, <6>2 DEF Tables
        <5>12. Fixed(w, d) = Fixed(x, d) \cup {t}
          BY <5>10, <5>11 DEF Fixed
        <5>13. {t} \in SUBSET (x.free \ {f}) /\ w.free = x.free \ ({f} \cup {t})
          BY <2>2, <5>1, <5>3, <5>8
        <5>14. w.content[f] = c /\ \A g \in Frame : g \notin x.free => w.content[g] = x.content[g]
          BY <1>1, <2>1, <2>2, <5>1, <5>3, <5>8 DEF MemType
        <5>. QED  BY <5>3, <5>6, <5>8, <5>9, <5>10, <5>12, <5>13, <5>14, Zenon
      <4>. QED  BY <4>1, <4>2
    <3>. HIDE DEF w, e
    <3>4. w.space[d] \in SpaceType
      BY <1>1, <3>3 DEF MemType
    <3>. DEFINE S == [w.space[d] EXCEPT !.pte[v] = e]
    <3>5. /\ S.kt = w.space[d].kt /\ S.pt = w.space[d].pt /\ S.pte = [w.space[d].pte EXCEPT ![v] = e]
          /\ S = [kt |-> S.kt, pt |-> S.pt, pte |-> S.pte]
      BY <3>4 DEF SpaceType
    <3>6. S \in SpaceType
      <4>1. S.kt \in SUBSET Frame /\ S.pt \in [Table -> Frame \cup {0}]
        BY <3>4, <3>5 DEF SpaceType
      <4>2. S.pte \in [Page -> [f : Frame \cup {0}, u : BOOLEAN]]
        BY <3>2, <3>4, <3>5 DEF SpaceType
      <4>. HIDE DEF S
      <4>. QED  BY <3>5, <4>1, <4>2 DEF SpaceType
    <3>7. /\ r.x.frames = w.frames /\ r.x.free = w.free /\ r.x.content = w.content
          /\ r.x.space = [w.space EXCEPT ![d] = S]
          /\ r.x = [frames |-> r.x.frames, free |-> r.x.free, content |-> r.x.content, space |-> r.x.space]
      BY <3>1, <3>3 DEF MemType
    <3>. HIDE DEF S
    <3>8. r.x \in MemType
      <4>1. r.x.space \in [Frame \cup {0} -> SpaceType]
        BY <1>1, <3>3, <3>6, <3>7 DEF MemType
      <4>. QED  BY <3>3, <3>7, <4>1 DEF MemType
    <3>9. r.x.space[d] = S /\ \A b \in Frame \cup {0} : b # d => r.x.space[b] = x.space[b]
      BY <1>1, <3>3, <3>7, ZenonT(60) DEF MemType
    <3>10. Fixed(r.x, d) = Fixed(w, d)
      BY <3>5, <3>9 DEF Fixed, Tables
    <3>11. r.x.space[d].pte = [x.space[d].pte EXCEPT ![v] = [f |-> f, u |-> u]]
      BY <3>3, <3>5, <3>9 DEF e
    <3>12. Paged(r.x, x, d, v, f, u)
      BY <2>1, <3>3, <3>7, <3>8, <3>9, <3>10, <3>11, Zenon DEF Paged
    <3>13. Untouched(r.x, x)
      BY <3>3, <3>7 DEF Untouched
    <3>. QED  BY <3>1, <3>3, <3>7, <3>12, <3>13
  <2>. QED  BY <2>5, <2>6
<1>. QED  BY <1>3, <1>4

\* The pages G of d are gone.
Unpaged(y, x, d, G) ==
  /\ y \in MemType /\ y.frames = x.frames
  /\ \A e \in Frame \cup {0} : e # d => y.space[e] = x.space[e]
  /\ y.space[d].kt = x.space[d].kt /\ y.space[d].pt = x.space[d].pt
  /\ \A v \in Page : y.space[d].pte[v] = IF v \in G THEN Absent ELSE x.space[d].pte[v]
  /\ \A g \in Frame : g \in y.free <=> g \in x.free \/ \E v \in G : x.space[d].pte[v].f = g
  /\ \A g \in Frame : g \notin y.free => y.content[g] = x.content[g]

LEMMA GoodUnpaged ==
  ASSUME NEW x, NEW D, NEW K, Good(x, D, K), NEW d \in D, NEW G \in SUBSET Page,
         NEW y, Unpaged(y, x, d, G)
  PROVE  /\ Good(y, D, K)
         /\ AllUsed(x, D, K) => AllUsed(y, D, K)
         /\ Untouched(y, x)
<1>1. /\ x \in MemType /\ y \in MemType /\ D \subseteq Frame /\ y.frames = x.frames /\ d \in Frame
      /\ x.free \subseteq x.frames /\ x.frames \subseteq Frame /\ y.free \subseteq Frame
  BY DEF Good, Unpaged, MemType
<1>2. \A e \in D : e # d => y.space[e] = x.space[e]
  BY <1>1 DEF Unpaged
<1>3. \A e \in D : e # d => Uses(y, e) = Uses(x, e) /\ Fixed(y, e) = Fixed(x, e) /\ Pages(y, e) = Pages(x, e)
  BY <1>2 DEF Uses, Fixed, Pages
<1>4. Fixed(y, d) = Fixed(x, d)
  BY DEF Fixed, Tables, Unpaged
<1>5. \A v \in Page : /\ y.space[d].pte[v].f = IF v \in G THEN 0 ELSE x.space[d].pte[v].f
                      /\ v \in G => ~y.space[d].pte[v].u
                      /\ v \notin G => y.space[d].pte[v].u = x.space[d].pte[v].u
  BY DEF Unpaged, Absent
<1>6. \A v \in G : v \in Page
  OBVIOUS
<1>. DEFINE R == {g \in Frame : \E v \in G : x.space[d].pte[v].f = g}
<1>7. R \subseteq Pages(x, d) /\ 0 \notin R
  BY <1>1, <1>6, Parts, Numbers
<1>8. Pages(y, d) = Pages(x, d) \ R
  <2>1. \A g \in Frame : g \in Pages(y, d) <=> \E v \in Page : y.space[d].pte[v].f = g
    BY <1>1, Parts
  <2>2. \A g \in Frame : g \in Pages(x, d) <=> \E v \in Page : x.space[d].pte[v].f = g
    BY <1>1, Parts
  <2>3. Pages(y, d) \subseteq Frame /\ Pages(x, d) \subseteq Frame
    BY <1>1, Parts
  <2>4. \A v, w \in Page : x.space[d].pte[v].f = x.space[d].pte[w].f /\ v # w => x.space[d].pte[v].f = 0
    BY DEF Good
  <2>5. ASSUME NEW g \in Frame PROVE g \in Pages(y, d) <=> g \in Pages(x, d) /\ g \notin R
    <3>1. g # 0
      BY <2>5, Numbers
    <3>2. ASSUME g \in Pages(y, d) PROVE g \in Pages(x, d) /\ g \notin R
      <4>1. PICK v \in Page : y.space[d].pte[v].f = g
        BY <2>1, <2>5, <3>2
      <4>2. v \notin G /\ x.space[d].pte[v].f = g
        BY <1>5, <3>1, <4>1, Zenon
      <4>. QED  BY <1>6, <2>2, <2>4, <2>5, <3>1, <4>2
    <3>3. ASSUME g \in Pages(x, d), g \notin R PROVE g \in Pages(y, d)
      BY <1>5, <2>1, <2>2, <2>5, <3>3
    <3>. QED  BY <3>2, <3>3
  <2>. QED  BY <2>3, <2>5
<1>9. y.free = x.free \cup R
  BY <1>1 DEF Unpaged
<1>. HIDE DEF R
<1>10. Uses(x, d) = Fixed(x, d) \cup Pages(x, d) /\ Uses(y, d) = Fixed(x, d) \cup (Pages(x, d) \ R)
  BY <1>4, <1>8 DEF Uses
<1>11. \A e \in D : Uses(x, e) \subseteq (x.frames \ x.free) \ K
  BY DEF Good
<1>12. Fixed(x, d) \cap Pages(x, d) = {}
  BY DEF Good
<1>13. \A e \in D : e # d => Uses(x, e) \cap Uses(x, d) = {}
  BY DEF Good
<1>14. K \subseteq x.frames \ x.free
  BY DEF Good
<1>15. R \cap K = {} /\ R \subseteq x.frames
  BY <1>7, <1>10, <1>11
<1>16. Good(y, D, K)
  <2>1. y.free \subseteq y.frames /\ K \subseteq y.frames \ y.free
    BY <1>1, <1>9, <1>14, <1>15
  <2>2. \A e \in D : Uses(y, e) \subseteq (y.frames \ y.free) \ K
    <3>1. Uses(y, d) \subseteq (y.frames \ y.free) \ K
      BY <1>1, <1>7, <1>9, <1>10, <1>11, <1>12
    <3>2. \A e \in D : e # d => Uses(x, e) \cap R = {}
      BY <1>7, <1>10, <1>13
    <3>. QED  BY <1>1, <1>3, <1>9, <1>11, <3>1, <3>2
  <2>3. \A e \in D : e # d => Uses(y, e) \cap Uses(y, d) = {}
    BY <1>3, <1>10, <1>13
  <2>4. \A e, g \in D : e # g => Uses(y, e) \cap Uses(y, g) = {}
    BY <1>3, <2>3 DEF Good
  <2>5. \A e \in D : Fixed(y, e) \cap Pages(y, e) = {}
    BY <1>3, <1>4, <1>8, <1>12 DEF Good
  <2>6. \A v, w \in Page : y.space[d].pte[v].f = y.space[d].pte[w].f /\ v # w => y.space[d].pte[v].f = 0
    BY <1>5 DEF Good
  <2>7. \A v \in Page : y.space[d].pte[v].f = 0 => ~y.space[d].pte[v].u
    BY <1>5 DEF Good
  <2>8. \A e \in D : \A v, w \in Page :
          y.space[e].pte[v].f = y.space[e].pte[w].f /\ v # w => y.space[e].pte[v].f = 0
    BY <1>2, <2>6 DEF Good
  <2>9. \A e \in D : \A v \in Page : y.space[e].pte[v].f = 0 => ~y.space[e].pte[v].u
    BY <1>2, <2>7 DEF Good
  <2>. QED  BY <1>1, <2>1, <2>2, <2>4, <2>5, <2>8, <2>9 DEF Good
<1>17. ASSUME AllUsed(x, D, K) PROVE AllUsed(y, D, K)
  <2>1. \A g \in Uses(x, d) : g \in y.free \/ g \in Uses(y, d)
    BY <1>9, <1>10
  <2>. QED  BY <1>1, <1>3, <1>9, <1>17, <2>1 DEF AllUsed
<1>18. Untouched(y, x)
  BY DEF Untouched, Unpaged
<1>. QED  BY <1>16, <1>17, <1>18

\* deallocuvm() of the pages between two sizes.
LEMMA DroppedIs ==
  ASSUME NEW old \in Nat, NEW new \in Nat
  PROVE  /\ Dropped(old, new) = {v \in Page : PagesOf(new) <= v /\ v < PagesOf(old)}
         /\ Dropped(old, new) \in SUBSET Page
<1>1. /\ PGROUNDUP(new) = PagesOf(new) * PGSIZE /\ PagesOf(new) \in Nat
      /\ \A v \in Nat : v < PagesOf(old) <=> v * PGSIZE < old
  BY PagesBelow
<1>2. \A v \in Page : v * PGSIZE >= PGROUNDUP(new) <=> PagesOf(new) <= v
  <2>. TAKE v \in Page
  <2>1. v \in Nat /\ v * PGSIZE \in Nat /\ PagesOf(new) * PGSIZE \in Nat
    BY <1>1, PageNat, PgMul
  <2>2. PagesOf(new) <= v <=> PagesOf(new) * PGSIZE <= v * PGSIZE
    BY <1>1, <2>1, PgMul
  <2>. QED  BY <1>1, <2>1, <2>2
<1>3. \A v \in Page : v * PGSIZE < old <=> v < PagesOf(old)
  BY <1>1, PageNat
<1>. QED  BY <1>2, <1>3 DEF Dropped

LEMMA deallocuvmIs ==
  ASSUME NEW x \in MemType, NEW d \in Frame, NEW old \in Nat, NEW new \in Nat,
         NEW y, y = deallocuvm(x, d, old, new)
  PROVE  Unpaged(y, x, d, Dropped(old, new))
<1>. DEFINE G == Dropped(old, new)
            F == {x.space[d].pte[v].f : v \in G} \ {0}
            P == [v \in Page |-> IF v \in G THEN Absent ELSE x.space[d].pte[v]]
            z == [x EXCEPT !.space[d].pte = P]
<1>1. y = kfree(z, F)
  BY DEF deallocuvm
<1>2. G \in SUBSET Page
  BY DroppedIs
<1>. HIDE DEF G
<1>3. x.space[d] \in SpaceType
  BY DEF MemType
<1>4. P \in [Page -> [f : Frame \cup {0}, u : BOOLEAN]]
  <2>1. Absent \in [f : Frame \cup {0}, u : BOOLEAN]
    BY DEF Absent
  <2>. QED  BY <1>3, <2>1 DEF SpaceType
<1>5. F \in SUBSET Frame
  BY <1>2, <1>3 DEF SpaceType
<1>6. \A v \in Page : P[v] = IF v \in G THEN Absent ELSE x.space[d].pte[v]
  OBVIOUS
<1>7. \A g \in Frame : g \in F <=> \E v \in G : x.space[d].pte[v].f = g
  BY Numbers
<1>. HIDE DEF F, P
<1>. DEFINE S == [x.space[d] EXCEPT !.pte = P]
<1>8. S.kt = x.space[d].kt /\ S.pt = x.space[d].pt /\ S.pte = P /\ S = [kt |-> S.kt, pt |-> S.pt, pte |-> S.pte]
  BY <1>3 DEF SpaceType
<1>9. S \in SpaceType
  <2>1. S.kt \in SUBSET Frame /\ S.pt \in [Table -> Frame \cup {0}]
    BY <1>3, <1>8 DEF SpaceType
  <2>. HIDE DEF S
  <2>. QED  BY <1>4, <1>8, <2>1 DEF SpaceType
<1>10. /\ z.frames = x.frames /\ z.free = x.free /\ z.content = x.content /\ z.space = [x.space EXCEPT ![d] = S]
       /\ z = [frames |-> z.frames, free |-> z.free, content |-> z.content, space |-> z.space]
  BY DEF MemType
<1>. HIDE DEF S, z
<1>11. z \in MemType
  <2>1. z.space \in [Frame \cup {0} -> SpaceType]
    BY <1>9, <1>10 DEF MemType
  <2>. QED  BY <1>10, <2>1 DEF MemType
<1>12. z.space[d] = S /\ \A e \in Frame \cup {0} : e # d => z.space[e] = x.space[e]
  BY <1>10 DEF MemType
<1>13. /\ y \in MemType /\ y.frames = z.frames /\ y.free = z.free \cup F /\ y.space = z.space
       /\ \A g \in Frame : y.content[g] = IF g \in F THEN Junk ELSE z.content[g]
  BY <1>1, <1>5, <1>11, kfreeIs
<1>14. y.frames = x.frames /\ \A e \in Frame \cup {0} : e # d => y.space[e] = x.space[e]
  BY <1>10, <1>12, <1>13
<1>15. /\ y.space[d].kt = x.space[d].kt /\ y.space[d].pt = x.space[d].pt
       /\ \A v \in Page : y.space[d].pte[v] = IF v \in G THEN Absent ELSE x.space[d].pte[v]
  BY <1>6, <1>8, <1>12, <1>13
<1>16. \A g \in Frame : g \in y.free <=> g \in x.free \/ \E v \in G : x.space[d].pte[v].f = g
  BY <1>7, <1>10, <1>13
<1>17. \A g \in Frame : g \notin y.free => y.content[g] = x.content[g]
  BY <1>10, <1>13
<1>18. Unpaged(y, x, d, G)
  BY <1>13, <1>14, <1>15, <1>16, <1>17 DEF Unpaged
<1>. QED  BY <1>18 DEF G

\* freevm() gives back all of an address space.
LEMMA freevmIs ==
  ASSUME NEW x, NEW D, NEW K, Good(x, D, K), NEW d \in D, NEW y, y = freevm(x, d)
  PROVE  /\ Good(y, D \ {d}, K)
         /\ AllUsed(x, D, K) => AllUsed(y, D \ {d}, K)
         /\ \A e \in Frame \cup {0} : e # d => y.space[e] = x.space[e]
         /\ Untouched(y, x)
<1>. DEFINE z == deallocuvm(x, d, KERNBASE, 0)
            F == {d} \cup Tables(z.space[d])
            w == kfree(z, F)
<1>1. y = [w EXCEPT !.space[d] = NoSpace]
  BY DEF freevm
<1>2. x \in MemType /\ d \in Frame /\ KERNBASE \in Nat /\ 0 \in Nat /\ D \subseteq Frame
  BY Numbers DEF Good
<1>3. Unpaged(z, x, d, Dropped(KERNBASE, 0)) /\ Dropped(KERNBASE, 0) \in SUBSET Page
  BY <1>2, deallocuvmIs, DroppedIs
<1>. HIDE DEF z
<1>4. /\ Good(z, D, K) /\ (AllUsed(x, D, K) => AllUsed(z, D, K)) /\ z \in MemType
      /\ \A g \in Frame : g \notin z.free => z.content[g] = x.content[g]
  <2>1. Good(z, D, K) /\ (AllUsed(x, D, K) => AllUsed(z, D, K))
    BY <1>3, GoodUnpaged
  <2>. QED  BY <1>3, <2>1 DEF Unpaged
<1>5. F = Fixed(z, d) /\ F \in SUBSET Frame
  <2>1. F = Fixed(z, d)
    BY DEF Fixed
  <2>2. Fixed(z, d) \subseteq Frame
    BY <1>2, <1>4, Parts
  <2>. QED  BY <2>1, <2>2
<1>6. Pages(z, d) = {}
  <2>1. Page \subseteq Dropped(KERNBASE, 0)
    <3>1. ASSUME NEW v \in Page PROVE v * PGSIZE >= PGROUNDUP(0) /\ v * PGSIZE < KERNBASE
      <4>1. v \in Nat /\ v <= (KERNBASE - 1) \div PGSIZE /\ KERNBASE - 1 \in Nat
        BY PageNat, Numbers DEF Page
      <4>2. v * PGSIZE \in Nat
        BY <4>1, PgMul
      <4>3. /\ ((KERNBASE - 1) \div PGSIZE) \in Nat
            /\ ((KERNBASE - 1) \div PGSIZE) * PGSIZE <= KERNBASE - 1
        BY <4>1, PgDiv
      <4>4. v * PGSIZE <= ((KERNBASE - 1) \div PGSIZE) * PGSIZE
        BY <4>1, <4>3, PgMul
      <4>5. v * PGSIZE < KERNBASE
        <5>. DEFINE b == ((KERNBASE - 1) \div PGSIZE) * PGSIZE
        <5>1. b \in Nat
          BY <4>3, PgMul
        <5>. HIDE DEF b
        <5>2. v * PGSIZE <= b /\ b <= KERNBASE - 1
          BY <4>3, <4>4 DEF b
        <5>. QED  BY <4>2, <5>1, <5>2, Numbers
      <4>6. PGROUNDUP(0) = PagesOf(0) * PGSIZE /\ PagesOf(0) \in Nat /\ PGROUNDUP(0) \in Nat /\ ~(0 < PagesOf(0))
        <5>1. 0 * PGSIZE = 0
          BY Numbers
        <5>. QED  BY <5>1, PagesBelow
      <4>7. PagesOf(0) = 0
        BY <4>6
      <4>8. PGROUNDUP(0) = 0
        BY <4>6, <4>7, Numbers
      <4>. QED  BY <4>2, <4>5, <4>8
    <3>. QED  BY <3>1 DEF Dropped
  <2>2. \A v \in Page : z.space[d].pte[v].f = 0
    BY <1>3, <2>1 DEF Unpaged, Absent
  <2>. QED  BY <2>2 DEF Pages
<1>. HIDE DEF F
<1>7. /\ w \in MemType /\ w.frames = z.frames /\ w.free = z.free \cup F /\ w.space = z.space
      /\ \A g \in Frame : w.content[g] = IF g \in F THEN Junk ELSE z.content[g]
  <2>1. w = kfree(z, F)
    OBVIOUS
  <2>. HIDE DEF w
  <2>2. z \in MemType
    BY <1>4
  <2>. QED  BY <1>5, <2>1, <2>2, kfreeIs
<1>. HIDE DEF w
<1>8. NoSpace \in SpaceType
  <2>1. Absent \in [f : Frame \cup {0}, u : BOOLEAN]
    BY DEF Absent
  <2>. QED  BY <2>1 DEF SpaceType, NoSpace
<1>9. /\ y.frames = w.frames /\ y.free = w.free /\ y.content = w.content /\ y.space = [w.space EXCEPT ![d] = NoSpace]
      /\ y = [frames |-> y.frames, free |-> y.free, content |-> y.content, space |-> y.space]
  BY <1>1, <1>7 DEF MemType
<1>10. y \in MemType
  <2>1. y.space \in [Frame \cup {0} -> SpaceType]
    BY <1>7, <1>8, <1>9, ZenonT(60) DEF MemType
  <2>. QED  BY <1>7, <1>9, <2>1 DEF MemType
<1>11. \A e \in Frame \cup {0} : e # d => y.space[e] = z.space[e]
  BY <1>7, <1>9 DEF MemType
<1>12. \A e \in D \ {d} : Uses(y, e) = Uses(z, e) /\ Fixed(y, e) = Fixed(z, e) /\ Pages(y, e) = Pages(z, e)
  BY <1>2, <1>11 DEF Uses, Fixed, Pages
<1>13. Uses(z, d) = F
  BY <1>5, <1>6 DEF Uses
<1>14. y.free = z.free \cup F /\ y.frames = z.frames
  BY <1>7, <1>9
<1>15. \A e \in D : Uses(z, e) \subseteq (z.frames \ z.free) \ K
  BY <1>4 DEF Good
<1>16. \A e \in D \ {d} : Uses(z, e) \cap F = {}
  BY <1>4, <1>13 DEF Good
<1>17. z.free \subseteq z.frames /\ K \subseteq z.frames \ z.free
  BY <1>4 DEF Good
<1>18. Good(y, D \ {d}, K)
  <2>1. y.free \subseteq y.frames /\ K \subseteq y.frames \ y.free
    BY <1>13, <1>14, <1>15, <1>17
  <2>2. \A e \in D \ {d} : Uses(y, e) \subseteq (y.frames \ y.free) \ K
    BY <1>12, <1>14, <1>15, <1>16
  <2>3. \A e, g \in D \ {d} : e # g => Uses(y, e) \cap Uses(y, g) = {}
    BY <1>4, <1>12 DEF Good
  <2>4. \A e \in D \ {d} : Fixed(y, e) \cap Pages(y, e) = {}
    BY <1>4, <1>12 DEF Good
  <2>5. \A e \in D \ {d} : y.space[e] = z.space[e]
    BY <1>2, <1>11
  <2>6. /\ \A e \in D \ {d} : \A v, u \in Page :
             y.space[e].pte[v].f = y.space[e].pte[u].f /\ v # u => y.space[e].pte[v].f = 0
        /\ \A e \in D \ {d} : \A v \in Page : y.space[e].pte[v].f = 0 => ~y.space[e].pte[v].u
    BY <1>4, <2>5 DEF Good
  <2>. QED  BY <1>2, <1>10, <2>1, <2>2, <2>3, <2>4, <2>6 DEF Good
<1>19. ASSUME AllUsed(x, D, K) PROVE AllUsed(y, D \ {d}, K)
  <2>1. AllUsed(z, D, K)
    BY <1>4, <1>19
  <2>. QED  BY <1>12, <1>13, <1>14, <2>1 DEF AllUsed
<1>20. \A e \in Frame \cup {0} : e # d => y.space[e] = x.space[e]
  BY <1>3, <1>11 DEF Unpaged
<1>21. Untouched(y, x)
  BY <1>4, <1>7, <1>9, <1>14 DEF Untouched
<1>. QED  BY <1>18, <1>19, <1>20, <1>21

\* clearpteu(): a page is there, but not for the user.
Guarded(y, x, d, w) ==
  \A v \in Page : y.space[d].pte[v].u = IF v = w THEN FALSE ELSE x.space[d].pte[v].u

LEMMA GuardIs ==
  ASSUME NEW x, NEW D, NEW K, Good(x, D, K), NEW d \in D, NEW a \in Nat, NEW y, y = Guard(x, d, a)
  PROVE  /\ Good(y, D, K)
         /\ AllUsed(x, D, K) => AllUsed(y, D, K)
         /\ y.free = x.free /\ y.content = x.content
         /\ \A e \in Frame \cup {0} : e # d => y.space[e] = x.space[e]
         /\ \A v \in Page : y.space[d].pte[v].f = x.space[d].pte[v].f
         /\ Guarded(y, x, d, a \div PGSIZE)
<1>. DEFINE w == a \div PGSIZE
            e0 == [x.space[d].pte[w] EXCEPT !.u = FALSE]
            P == [x.space[d].pte EXCEPT ![w].u = FALSE]
            S == [x.space[d] EXCEPT !.pte = P]
<1>1. x \in MemType /\ d \in Frame /\ D \subseteq Frame
  BY DEF Good
<1>2. x.space[d] \in SpaceType
  BY <1>1 DEF MemType
<1>3. y = [x EXCEPT !.space[d].pte[w].u = FALSE]
  BY DEF Guard
<1>3a. y = [x EXCEPT !.space[d] = S]
  BY <1>1, <1>2, <1>3 DEF MemType, SpaceType
<1>. HIDE DEF w, P
<1>4. /\ S.kt = x.space[d].kt /\ S.pt = x.space[d].pt /\ S.pte = P
      /\ S = [kt |-> S.kt, pt |-> S.pt, pte |-> S.pte]
  BY <1>2 DEF SpaceType
<1>5. x.space[d].pte \in [Page -> [f : Frame \cup {0}, u : BOOLEAN]]
  BY <1>2 DEF SpaceType
<1>6. /\ S.pte \in [Page -> [f : Frame \cup {0}, u : BOOLEAN]]
      /\ \A v \in Page : /\ S.pte[v].f = x.space[d].pte[v].f
                         /\ S.pte[v].u = IF v = w THEN FALSE ELSE x.space[d].pte[v].u
  <2>. HIDE DEF S
  <2>1. CASE w \in Page
    <3>1. x.space[d].pte[w] \in [f : Frame \cup {0}, u : BOOLEAN]
      BY <1>5, <2>1
    <3>2. e0 \in [f : Frame \cup {0}, u : BOOLEAN] /\ e0.f = x.space[d].pte[w].f /\ e0.u = FALSE
      BY <3>1, Zenon
    <3>3. S.pte = [x.space[d].pte EXCEPT ![w] = e0]
      BY <1>4, <1>5, <2>1 DEF P
    <3>. HIDE DEF e0
    <3>. QED  BY <1>5, <2>1, <3>2, <3>3, Zenon
  <2>2. CASE w \notin Page
    <3>1. S.pte = x.space[d].pte
      BY <1>4, <1>5, <2>2, Zenon DEF P
    <3>. QED  BY <1>5, <2>2, <3>1, Zenon
  <2>. QED  BY <2>1, <2>2, Zenon
<1>7. S \in SpaceType
  <2>1. S.kt \in SUBSET Frame /\ S.pt \in [Table -> Frame \cup {0}]
    BY <1>2, <1>4 DEF SpaceType
  <2>. HIDE DEF S
  <2>. QED  BY <1>4, <1>6, <2>1 DEF SpaceType
<1>8. /\ y.frames = x.frames /\ y.free = x.free /\ y.content = x.content /\ y.space = [x.space EXCEPT ![d] = S]
      /\ y = [frames |-> y.frames, free |-> y.free, content |-> y.content, space |-> y.space]
  BY <1>1, <1>3a DEF MemType
<1>. HIDE DEF S
<1>9. y \in MemType
  <2>1. y.space \in [Frame \cup {0} -> SpaceType]
    BY <1>1, <1>7, <1>8 DEF MemType
  <2>. QED  BY <1>1, <1>8, <2>1 DEF MemType
<1>10. y.space[d] = S /\ \A e \in Frame \cup {0} : e # d => y.space[e] = x.space[e]
  BY <1>1, <1>8 DEF MemType
<1>11. \A v \in Page : /\ y.space[d].pte[v].f = x.space[d].pte[v].f
                       /\ y.space[d].pte[v].u = IF v = w THEN FALSE ELSE x.space[d].pte[v].u
  BY <1>6, <1>10, Zenon
<1>12. \A e \in D : Pages(y, e) = Pages(x, e)
  <2>1. Pages(y, d) = Pages(x, d)
    BY <1>11, Zenon DEF Pages
  <2>. QED  BY <1>1, <1>10, <2>1 DEF Pages
<1>13. \A e \in D : Fixed(y, e) = Fixed(x, e)
  <2>1. Tables(S) = Tables(x.space[d])
    BY <1>4 DEF Tables
  <2>. QED  BY <1>1, <1>10, <2>1 DEF Fixed
<1>14. \A e \in D : Uses(y, e) = Uses(x, e)
  BY <1>12, <1>13 DEF Uses
<1>15. \A e \in D : \A v \in Page : /\ y.space[e].pte[v].f = x.space[e].pte[v].f
                                    /\ y.space[e].pte[v].u => x.space[e].pte[v].u
  BY <1>1, <1>10, <1>11, Zenon
<1>16. Good(y, D, K)
  <2>1. /\ \A e \in D : Uses(y, e) \subseteq (y.frames \ y.free) \ K
        /\ \A e, g \in D : e # g => Uses(y, e) \cap Uses(y, g) = {}
        /\ \A e \in D : Fixed(y, e) \cap Pages(y, e) = {}
    BY <1>8, <1>12, <1>13, <1>14 DEF Good
  <2>2. /\ \A e \in D : \A v, u \in Page :
             y.space[e].pte[v].f = y.space[e].pte[u].f /\ v # u => y.space[e].pte[v].f = 0
        /\ \A e \in D : \A v \in Page : y.space[e].pte[v].f = 0 => ~y.space[e].pte[v].u
    BY <1>15, SMTT(30) DEF Good
  <2>3. y.free \subseteq y.frames /\ K \subseteq y.frames \ y.free
    BY <1>8 DEF Good
  <2>. QED  BY <1>1, <1>9, <2>1, <2>2, <2>3 DEF Good
<1>17. ASSUME AllUsed(x, D, K) PROVE AllUsed(y, D, K)
  BY <1>8, <1>14, <1>17 DEF AllUsed
<1>18. Guarded(y, x, d, w) /\ \A v \in Page : y.space[d].pte[v].f = x.space[d].pte[v].f
  BY <1>11, Zenon DEF Guarded
<1>. QED  BY <1>8, <1>10, <1>16, <1>17, <1>18 DEF w

\* An address space is as it was, with what is in its pages.
Same(y, x, d) ==
  /\ y.space[d] = x.space[d]
  /\ \A v \in Page : x.space[d].pte[v].f # 0 => y.content[x.space[d].pte[v].f] = x.content[x.space[d].pte[v].f]

LEMMA SameContent ==
  ASSUME NEW x, NEW D, NEW K, Good(x, D, K), NEW y, NEW E, NEW L, Good(y, E, L),
         NEW d \in D \cap E, Untouched(y, x), y.space[d] = x.space[d]
  PROVE  Same(y, x, d)
<1>1. x \in MemType /\ y \in MemType /\ d \in Frame
  BY DEF Good
<1>2. ASSUME NEW v \in Page, x.space[d].pte[v].f # 0
      PROVE  y.content[x.space[d].pte[v].f] = x.content[x.space[d].pte[v].f]
  <2>. DEFINE g == x.space[d].pte[v].f
  <2>1. g \in Frame /\ g \in Pages(x, d)
    BY <1>1, <1>2, Parts
  <2>2. Pages(y, d) = Pages(x, d)
    BY DEF Pages
  <2>3. g \in Uses(x, d) /\ g \in Uses(y, d)
    BY <2>1, <2>2 DEF Uses
  <2>4. g \notin x.free /\ g \notin y.free
    BY <2>3 DEF Good
  <2>. QED  BY <2>1, <2>4 DEF Untouched
<1>. QED  BY <1>2 DEF Same

-----------------------------------------------------------------------------
\* What a step of one thread leaves alone.

LEMMA Where ==
  ASSUME MInv
  PROVE  /\ Spaces = {pgdir[x] : x \in Owners} \cup {job[x].dir : x \in Builders}
         /\ KStacks = {kstack[x] : x \in InUse}
         /\ \A x \in Owners : pgdir[x] \in Spaces /\ pgdir[x] \in Frame
         /\ \A x \in Builders : job[x].dir \in Spaces /\ job[x].dir \in Frame
         /\ \A x \in InUse : kstack[x] \in KStacks /\ kstack[x] \in Frame /\ kstack[x] \notin m.free
         /\ \A x \in Slot : st[x] = "run" => x \in Owners /\ x \in InUse
         /\ m \in MemType /\ Spaces \subseteq Frame
         /\ project \in {1, 2} /\ panicked = "no"
<1>1. Spaces = {pgdir[x] : x \in Owners} \cup {job[x].dir : x \in Builders}
  BY DEF Spaces, Owners, Builders, Building
<1>2. KStacks = {kstack[x] : x \in InUse}
  BY DEF KStacks, InUse
<1>3. m \in MemType /\ Spaces \subseteq Frame /\ KStacks \subseteq m.frames \ m.free
  BY DEF MInv, Framed, Good
<1>4. m.frames \subseteq Frame
  BY <1>3 DEF MemType
<1>. QED  BY <1>1, <1>2, <1>3, <1>4 DEF Owners, InUse, MInv, MemTypes

LEMMA IdleThread ==
  ASSUME NEW x \in Slot, job'[x] = NoJob, st'[x] # "run"
  PROVE  Thread(x)'
BY DEF Thread, Sized, Progress, Limited, Copied, NoJob, Execing, AllocOps

\* A thread without a call is as well off as the one of its process that has one.
LEMMA Relative ==
  ASSUME Families', NEW p \in Slot, NEW x \in Slot, st'[p] = "run", st'[x] = "run",
         share'[x] = share'[p], job'[x] = NoJob, Thread(p)'
  PROVE  Thread(x)'
<1>1. pgdir'[x] = pgdir'[p]
  BY DEF Families
<1>2. Sized(x)'
  BY <1>1 DEF Thread, Sized
<1>3. Limited(x)'
  BY DEF Thread, Limited, NoJob, Execing
<1>4. Progress(x)' /\ Copied(x)'
  BY DEF Progress, Copied, NoJob, Execing, AllocOps
<1>. QED  BY <1>2, <1>3, <1>4 DEF Thread

\* A thread is as before if its fields, its pages and the calls of its process are.
Kept(x) ==
  /\ project' = project
  /\ st'[x] = st[x] /\ share'[x] = share[x] /\ pgdir'[x] = pgdir[x] /\ job'[x] = job[x]
  /\ sz'[share[x]] = sz[share[x]] /\ limit'[share[x]] = limit[share[x]]
  /\ \A y \in Slot : job[y].op \in {"sbrk", "spawn"} /\ share[y] = share[x] =>
                       job'[y].op \in {"sbrk", "spawn"} /\ share'[y] = share[x]
  /\ st[x] = "run" => Same(m', m, pgdir[x])
  /\ x \in Builders => Same(m', m, job[x].dir)

LEMMA KeptThread ==
  ASSUME MInv, NEW x \in Slot, Kept(x)
  PROVE  Thread(x)'
<1>1. Thread(x) /\ (job[x].op = "no" => job[x] = NoJob) /\ (job[x].op # "no" => st[x] = "run")
  BY DEF MInv, Calls
<1>2. CASE st[x] # "run"
  BY <1>1, <1>2, IdleThread, SMTT(30) DEF Kept
<1>3. CASE st[x] = "run"
  <2>1. m'.space[pgdir[x]] = m.space[pgdir[x]]
    BY <1>3, Zenon DEF Kept, Same
  <2>2. \A n : Exact(m, pgdir[x], n) => Exact(m', pgdir[x], n)
    BY <2>1 DEF Exact
  <2>3. x \in Builders => m'.space[job[x].dir] = m.space[job[x].dir]
    BY Zenon DEF Kept, Same
  <2>4. \A n : x \in Builders /\ Exact(m, job[x].dir, n) => Exact(m', job[x].dir, n)
    BY <2>3 DEF Exact
  <2>5. Sized(x)'
    BY <1>1, <2>2 DEF Thread, Sized, Kept
  <2>6. Limited(x)'
    BY <1>1 DEF Thread, Limited, Kept
  <2>7. job[x].op \in Building => x \in Builders
    BY DEF Builders
  <2>8. Progress(x)'
    <3>1. Progress(x)
      BY <1>1 DEF Thread
    <3>2. job[x].op \in {"spawn", "sbrk"} /\ job[x].at = "alloc" => job[x].dir = pgdir[x]
      BY <3>1 DEF Progress
    <3>3. job[x].op = "spawn" => job[x].dir = pgdir[x]
      BY <3>1 DEF Progress
    <3>4. job'[x] = job[x] /\ pgdir'[x] = pgdir[x] /\ sz'[share'[x]] = sz[share[x]] /\ project' = project
      BY DEF Kept
    <3>. QED  BY <2>2, <2>4, <2>7, <3>1, <3>2, <3>3, <3>4 DEF Progress, AllocOps, Building
  <2>9. Copied(x)'
    <3>1. Copied(x) /\ Progress(x)
      BY <1>1 DEF Thread
    <3>2. job'[x] = job[x] /\ pgdir'[x] = pgdir[x]
      BY SMTT(30) DEF Kept
    <3>3. CASE job[x].op = "fork"
      <4>1. x \in Builders
        BY <2>7, <3>3 DEF Building
      <4>2. Same(m', m, pgdir[x]) /\ Same(m', m, job[x].dir)
        BY <1>3, <4>1 DEF Kept
      <4>3. \A v \in Page : v < job[x].a \div PGSIZE =>
              m.space[pgdir[x]].pte[v].f # 0 /\ m.space[job[x].dir].pte[v].f # 0
        <5>1. /\ Exact(m, pgdir[x], PagesOf(sz[share[x]])) /\ Exact(m, job[x].dir, job[x].a \div PGSIZE)
              /\ job[x].a \div PGSIZE <= PagesOf(sz[share[x]])
          BY <3>1, <3>3 DEF Progress
        <5>2. PagesOf(sz[share[x]]) \in Nat /\ job[x].a \div PGSIZE \in Nat /\ Page \subseteq Nat
          <6>1. sz[share[x]] \in Nat /\ job[x].a \in Nat
            BY SMTT(30) DEF MInv, MemTypes, JobType
          <6>. QED  BY <6>1, PagesBelow, PgDiv, PageNat, ZenonT(60)
        <5>. QED  BY <5>1, <5>2 DEF Exact
      <4>4. \A v \in Page : v < job[x].a \div PGSIZE =>
              /\ m'.space[job[x].dir].pte[v].u = m'.space[pgdir[x]].pte[v].u
              /\ m'.content[m'.space[job[x].dir].pte[v].f] = m'.content[m'.space[pgdir[x]].pte[v].f]
        <5>. SUFFICES ASSUME NEW v \in Page, v < job[x].a \div PGSIZE
                      PROVE  /\ m'.space[job[x].dir].pte[v].u = m'.space[pgdir[x]].pte[v].u
                             /\ m'.content[m'.space[job[x].dir].pte[v].f] = m'.content[m'.space[pgdir[x]].pte[v].f]
          OBVIOUS
        <5>. DEFINE o == m.space[pgdir[x]].pte[v]
                    c == m.space[job[x].dir].pte[v]
        <5>1. c.u = o.u /\ m.content[c.f] = m.content[o.f]
          BY <3>1, <3>3, Zenon DEF Copied
        <5>2. o.f # 0 /\ c.f # 0
          BY ONLY <4>3, v \in Page, v < job[x].a \div PGSIZE, Zenon
        <5>3. m'.content[o.f] = m.content[o.f] /\ m'.content[c.f] = m.content[c.f]
          BY <4>2, <5>2, ZenonT(60) DEF Same
        <5>4. m'.space[job[x].dir] = m.space[job[x].dir] /\ m'.space[pgdir[x]] = m.space[pgdir[x]]
          BY <4>2, Zenon DEF Same
        <5>. QED  BY ONLY <5>1, <5>3, <5>4
      <4>. QED  BY <3>2, <3>3, <4>4 DEF Copied, Execing
    <3>4. CASE job[x].op \in Execing
      <4>1. Same(m', m, job[x].dir)
        BY <2>7, <3>4, SMTT(30) DEF Kept, Building, Execing
      <4>. QED  BY <3>1, <3>2, <3>4, <4>1, ZenonT(60) DEF Copied, Same, Execing
    <3>5. CASE job[x].op # "fork" /\ job[x].op \notin Execing
      BY <3>2, <3>5, Zenon DEF Copied
    <3>. QED  BY <3>3, <3>4, <3>5
  <2>. QED  BY <2>5, <2>6, <2>8, <2>9, SMTT(30) DEF Thread
<1>. QED  BY <1>2, <1>3

\* No other thread of the process is in a call.
Alone(p) == \A x \in Slot : x # p /\ share[x] = share[p] => job[x].op = "no"

LEMMA InCallAlone ==
  ASSUME MInv, NEW p \in Slot, job[p].op # "no"
  PROVE  Alone(p) /\ st[p] = "run"
BY DEF MInv, Calls, Alone

LEMMA TearsAlone ==
  ASSUME MInv, NEW p \in Slot, st[p] = "run", torn = "no", torn' = "no", Tears(p)
  PROVE  Alone(p)
<1>1. Busy(p) = {}
  BY DEF Tears
<1>2. \A x \in Slot : job[x].op # "no" => st[x] = "run"
  BY DEF MInv, Calls
<1>. QED  BY <1>1, <1>2 DEF Busy, Family, Alone

\* The threads of other processes.
LEMMA Elsewhere ==
  ASSUME MInv, project' = project, NEW p \in Slot, st[p] = "run", NEW x \in Slot, share[x] # share[p],
         st'[x] = st[x], share'[x] = share[x], pgdir'[x] = pgdir[x], job'[x] = job[x],
         sz'[share[x]] = sz[share[x]], limit'[share[x]] = limit[share[x]],
         \A y \in Slot : job[y].op \in {"sbrk", "spawn"} /\ share[y] = share[x] =>
                           job'[y] = job[y] /\ share'[y] = share[y],
         \A d \in Spaces : d # pgdir[p] /\ (p \in Builders => d # job[p].dir) => Same(m', m, d)
  PROVE  Thread(x)'
<1>1. p \in Owners /\ pgdir[p] \in Spaces
  BY Where
<1>2. st[x] = "run" => Same(m', m, pgdir[x])
  <2>. HAVE st[x] = "run"
  <2>1. x \in Owners /\ pgdir[x] \in Spaces
    BY Where
  <2>2. pgdir[x] # pgdir[p]
    BY <1>1, <2>1 DEF MInv, Families
  <2>3. p \in Builders => pgdir[x] # job[p].dir
    BY <2>1 DEF MInv, Calls
  <2>. QED  BY <2>1, <2>2, <2>3
<1>3. x \in Builders => Same(m', m, job[x].dir)
  <2>. HAVE x \in Builders
  <2>1. job[x].dir \in Spaces
    BY Where
  <2>2. job[x].dir # pgdir[p]
    BY <1>1 DEF MInv, Calls
  <2>3. p \in Builders => job[x].dir # job[p].dir
    BY DEF MInv, Calls
  <2>. QED  BY <2>1, <2>2, <2>3
<1>4. Kept(x)
  BY <1>2, <1>3 DEF Kept
<1>. QED  BY <1>4, KeptThread

\* A step of p in its call: p's job, the size and the limit of p's process, and what
\* is in the address spaces it works on.
LEMMA Local ==
  ASSUME MInv, NEW p \in Slot, st[p] = "run", Alone(p),
         UNCHANGED <<project, st, kstack, pgdir, share, parent, head, panicked>>,
         NEW j \in JobType, job' = [job EXCEPT ![p] = j], j.op = "no" => j = NoJob,
         j.op \in Building \/ job[p].op \in Building =>
           j.op \in Building /\ job[p].op \in Building /\ j.dir = job[p].dir,
         j.op \in Execing => job[p].op \in Execing,
         IF j.op \in {"fork", "spawn"} THEN job[p].op \in {"fork", "spawn"} /\ j.child = job[p].child ELSE j.child = 0,
         sz' \in [Slot -> Nat], limit' \in [Slot -> Nat], project = 1 => limit' = limit,
         \A x \in Slot : x # share[p] => sz'[x] = sz[x] /\ limit'[x] = limit[x],
         Good(m', Spaces, KStacks), AllUsed(m, Spaces, KStacks) => AllUsed(m', Spaces, KStacks),
         m'.space[0] = m.space[0],
         \A d \in Spaces : d # pgdir[p] /\ (p \in Builders => d # job[p].dir) => Same(m', m, d),
         Thread(p)'
  PROVE  MInv'
<1>1. job \in [Slot -> JobType] /\ share \in [Slot -> Slot]
  BY DEF MInv, MemTypes
<1>2. job'[p] = j /\ \A x \in Slot : x # p => job'[x] = job[x]
  BY <1>1
<1>3. MemTypes'
  BY <1>1 DEF MInv, MemTypes
<1>4. Owners' = Owners /\ InUse' = InUse
  BY DEF Owners, InUse
<1>5. Builders' = Builders /\ \A x \in Builders : job'[x].dir = job[x].dir
  BY <1>2 DEF Builders
<1>6. Spaces' = Spaces /\ KStacks' = KStacks
  <2>1. Spaces' = {pgdir'[x] : x \in Owners'} \cup {job'[x].dir : x \in Builders'}
    BY DEF Spaces, Owners, Builders, Building
  <2>2. {job'[x].dir : x \in Builders} = {job[x].dir : x \in Builders}
    BY <1>5
  <2>3. KStacks' = KStacks
    BY DEF KStacks
  <2>4. Spaces = {pgdir[x] : x \in Owners} \cup {job[x].dir : x \in Builders}
    BY Where
  <2>. QED  BY <1>4, <1>5, <2>1, <2>2, <2>3, <2>4
<1>7. Families'
  <2>1. project = 1 => \A x \in Slot : share[x] = x /\ limit'[x] = 0 /\ (st[x] \in {"run", "zombie"} => head[x] = x)
    BY DEF MInv, Families
  <2>. QED  BY <1>4, <2>1 DEF MInv, Families
<1>8. Calls'
  <2>1. Calls
    BY DEF MInv
  <2>2. /\ \A x \in Slot : job'[x].op = "no" => job'[x] = NoJob
        /\ \A x \in Slot : job'[x].op # "no" => st'[x] = "run"
    BY <1>2, <2>1 DEF Calls
  <2>3. \A x, y \in Slot : job'[x].op # "no" /\ job'[y].op # "no" /\ share'[x] = share'[y] => x = y
    BY <1>2, <2>1 DEF Calls, Alone
  <2>4. \A x \in Slot : IF job'[x].op \in {"fork", "spawn"} THEN st'[job'[x].child] = "embryo" /\ job'[x].child # 0
                        ELSE job'[x].child = 0
    BY <1>2, <2>1 DEF Calls
  <2>5. \A x, y \in Slot : job'[x].child # 0 /\ job'[x].child = job'[y].child => x = y
    BY <1>2, <2>1 DEF Calls
  <2>6. \A x \in Builders', y \in Owners' : job'[x].dir # pgdir'[y]
    BY <1>4, <1>5, <2>1 DEF Calls
  <2>7. \A x, y \in Builders' : job'[x].dir = job'[y].dir => x = y
    BY <1>5, <2>1 DEF Calls
  <2>8. \A x, y \in Slot : job'[x].op \in Execing /\ st'[y] = "run" /\ share'[y] = share'[x] => y = x
    BY <1>2, <2>1 DEF Calls
  <2>. QED  BY <2>2, <2>3, <2>4, <2>5, <2>6, <2>7, <2>8 DEF Calls
<1>9. Framed'
  <2>1. Framed
    BY DEF MInv
  <2>2. \A x, y \in InUse' : kstack'[x] = kstack'[y] => x = y
    BY <1>4, <2>1 DEF Framed
  <2>. QED  BY <1>6, <2>1, <2>2 DEF Framed
<1>10. ASSUME NEW x \in Slot PROVE Thread(x)'
  <2>1. CASE x = p
    BY <2>1
  <2>2. CASE x # p /\ share[x] = share[p]
    <3>1. job'[x] = NoJob
      BY <1>2, <2>2 DEF Alone, MInv, Calls
    <3>2. CASE st[x] = "run"
      BY <1>7, <2>2, <3>1, <3>2, Relative
    <3>3. CASE st[x] # "run"
      BY <3>1, <3>3, IdleThread
    <3>. QED  BY <3>2, <3>3
  <2>3. CASE share[x] # share[p]
    <3>1. share[x] \in Slot
      BY <1>1, SMTT(30)
    <3>2. \A y \in Slot : share[y] = share[x] => job'[y] = job[y] /\ share'[y] = share[y]
      BY <1>2, <2>3, SMTT(30)
    <3>. QED  BY <1>2, <2>3, <3>1, <3>2, Elsewhere
  <2>. QED  BY <2>1, <2>2, <2>3
<1>. QED  BY <1>3, <1>7, <1>8, <1>9, <1>10 DEF MInv

-----------------------------------------------------------------------------
\* What user code and loaduvm() do to the content of one address space.

LEMMA StoreIs ==
  ASSUME NEW x, NEW D, NEW K, Good(x, D, K), NEW d \in D, NEW v \in Page, x.space[d].pte[v].u,
         NEW c \in Int, NEW f, f = x.space[d].pte[v].f, NEW y, y = [x EXCEPT !.content[f] = c]
  PROVE  /\ Good(y, D, K)
         /\ AllUsed(x, D, K) => AllUsed(y, D, K)
         /\ y.space = x.space /\ y.free = x.free /\ f \in Frame
         /\ \A g \in Frame : y.content[g] = IF g = f THEN c ELSE x.content[g]
         /\ \A e \in D : e # d => Same(y, x, e)
<1>1. x \in MemType /\ D \subseteq Frame /\ d \in Frame
  BY DEF Good
<1>2. f # 0
  BY DEF Good
<1>3. f \in Frame /\ f \in Pages(x, d)
  BY <1>1, <1>2, Parts
<1>4. /\ y.frames = x.frames /\ y.free = x.free /\ y.space = x.space
      /\ y.content = [x.content EXCEPT ![f] = c]
      /\ y = [frames |-> y.frames, free |-> y.free, content |-> y.content, space |-> y.space]
  BY <1>1 DEF MemType
<1>5. y \in MemType
  BY <1>1, <1>3, <1>4 DEF MemType
<1>6. \A g \in Frame : y.content[g] = IF g = f THEN c ELSE x.content[g]
  BY <1>1, <1>3, <1>4 DEF MemType
<1>7. Good(y, D, K) /\ (AllUsed(x, D, K) => AllUsed(y, D, K))
  BY <1>4, <1>5, GoodContent, ZenonT(60)
<1>8. ASSUME NEW e \in D, e # d PROVE Same(y, x, e)
  <2>1. f \notin Pages(x, e)
    BY <1>3, <1>8 DEF Good, Uses
  <2>2. e \in Frame
    BY <1>1
  <2>3. \A w \in Page : x.space[e].pte[w].f # 0 => x.space[e].pte[w].f \in Pages(x, e) /\ x.space[e].pte[w].f \in Frame
    BY <1>1, <2>2, Parts
  <2>. QED  BY <1>4, <1>6, <2>1, <2>3 DEF Same
<1>. QED  BY <1>3, <1>4, <1>6, <1>7, <1>8

LEMMA LoadedIs ==
  ASSUME NEW x, NEW D, NEW K, Good(x, D, K), NEW d \in D, NEW s, NEW y, y = Loaded(x, d, s)
  PROVE  /\ Good(y, D, K)
         /\ AllUsed(x, D, K) => AllUsed(y, D, K)
         /\ y.space = x.space
         /\ \A g \in Frame : y.content[g] \in {Text, x.content[g]}
         /\ \A e \in D : e # d => Same(y, x, e)
<1>. DEFINE T == {f \in Frame : \E v \in Page : x.space[d].pte[v].f = f /\ v * PGSIZE >= s.va /\ v * PGSIZE < s.file}
            C == [f \in Frame |-> IF f \in T THEN Text ELSE x.content[f]]
<1>1. x \in MemType /\ D \subseteq Frame /\ d \in Frame
  BY DEF Good
<1>2. y = [x EXCEPT !.content = C]
  BY DEF Loaded
<1>3. T \subseteq Pages(x, d)
  BY <1>1, Parts
<1>. HIDE DEF T
<1>4. C \in [Frame -> Int] /\ \A g \in Frame : C[g] = IF g \in T THEN Text ELSE x.content[g]
  BY <1>1, Values DEF MemType
<1>. HIDE DEF C
<1>5. /\ y.frames = x.frames /\ y.free = x.free /\ y.space = x.space /\ y.content = C
      /\ y = [frames |-> y.frames, free |-> y.free, content |-> y.content, space |-> y.space]
  BY <1>1, <1>2 DEF MemType
<1>6. y \in MemType
  BY <1>1, <1>4, <1>5 DEF MemType
<1>7. Good(y, D, K) /\ (AllUsed(x, D, K) => AllUsed(y, D, K))
  BY <1>5, <1>6, GoodContent
<1>8. ASSUME NEW e \in D, e # d PROVE Same(y, x, e)
  <2>1. T \cap Pages(x, e) = {}
    BY <1>3, <1>8 DEF Good, Uses
  <2>2. e \in Frame
    BY <1>1
  <2>3. \A w \in Page : x.space[e].pte[w].f # 0 => x.space[e].pte[w].f \in Pages(x, e) /\ x.space[e].pte[w].f \in Frame
    BY <1>1, <2>2, Parts
  <2>. QED  BY <1>4, <1>5, <2>1, <2>3 DEF Same
<1>. QED  BY <1>4, <1>5, <1>7, <1>8

\* A change of one address space leaves the others, whatever frames it takes or frees.
LEMMA OthersSame ==
  ASSUME NEW x, NEW D, NEW K, Good(x, D, K), NEW y, NEW E, NEW L, Good(y, E, L), Untouched(y, x), NEW d,
         \A e \in Frame \cup {0} : e # d => y.space[e] = x.space[e]
  PROVE  \A e \in D \cap E : e # d => Same(y, x, e)
<1>1. D \subseteq Frame
  BY DEF Good
<1>. QED  BY <1>1, SameContent

-----------------------------------------------------------------------------
\* A thread that may make a call: its process has the pages of its size.
LEMMA RunsExact ==
  ASSUME MInv, NEW p \in Slot, Runs(p), Alone(p)
  PROVE  /\ st[p] = "run" /\ job[p] = NoJob /\ job[p].op = "no"
         /\ Exact(m, pgdir[p], PagesOf(sz[share[p]]))
         /\ sz[share[p]] < KERNBASE /\ sz[share[p]] \in Nat /\ share[p] \in Slot /\ limit[share[p]] \in Nat
         /\ p \in Owners /\ pgdir[p] \in Spaces /\ pgdir[p] \in Frame /\ p \notin Builders
         /\ PagesOf(sz[share[p]]) \in Nat
         /\ limit[share[p]] # 0 => sz[share[p]] < limit[share[p]] + PGSIZE
<1>1. st[p] = "run" /\ job[p] = NoJob /\ job[p].op = "no" /\ m.space[pgdir[p]].pte[0] # Absent
  BY DEF Runs, MInv, Calls
<1>2. sz[share[p]] \in Nat /\ share[p] \in Slot /\ limit[share[p]] \in Nat
  BY DEF MInv, MemTypes
<1>3. p \in Owners /\ pgdir[p] \in Spaces /\ pgdir[p] \in Frame
  BY <1>1, Where
<1>4. \A y \in Slot : job[y].op \in {"sbrk", "spawn"} => share[y] # share[p]
  BY <1>1 DEF Alone
<1>5. Thread(p)
  BY DEF MInv
<1>6. sz[share[p]] < KERNBASE /\ (Exact(m, pgdir[p], PagesOf(sz[share[p]])) \/ Exact(m, pgdir[p], 0))
  BY <1>1, <1>4, <1>5 DEF Thread, Sized
<1>7. ~Exact(m, pgdir[p], 0)
  <2>1. Good(m, Spaces, KStacks) /\ m \in MemType
    BY DEF MInv, Framed, Good
  <2>2. m.space[pgdir[p]].pte[0] \in [f : Frame \cup {0}, u : BOOLEAN]
    BY <1>3, <2>1, PageNat DEF MemType, SpaceType
  <2>3. m.space[pgdir[p]].pte[0].f = 0 => ~m.space[pgdir[p]].pte[0].u
    BY <1>3, <2>1, PageNat DEF Good
  <2>4. m.space[pgdir[p]].pte[0].f # 0
    BY <1>1, <2>2, <2>3, Zenon DEF Absent
  <2>. QED  BY <2>4, PageNat DEF Exact
<1>8. limit[share[p]] # 0 => sz[share[p]] < limit[share[p]] + PGSIZE
  BY <1>1, <1>5 DEF Thread, Limited
<1>9. p \notin Builders
  BY <1>1 DEF Builders, Building
<1>. QED  BY <1>1, <1>2, <1>3, <1>6, <1>7, <1>8, <1>9, PagesBelow

LEMMA IdleRunner ==
  ASSUME NEW p \in Slot, job'[p] = NoJob, Sized(p)',
         limit'[share'[p]] # 0 => sz'[share'[p]] < limit'[share'[p]] + PGSIZE
  PROVE  Thread(p)'
BY DEF Thread, Progress, Limited, Copied, NoJob, Execing, AllocOps

\* A new image has nothing but zeroes and text.
Clean(x, d) == \A v \in Page : x.space[d].pte[v].f # 0 => x.content[x.space[d].pte[v].f] \in {Zero, Text}

\* A thread that builds a new image for exec().
LEMMA ExecThread ==
  ASSUME MInv, NEW p \in Slot, st[p] = "run", Alone(p), UNCHANGED <<st, share, pgdir, sz, limit>>,
         job[p].op \in Execing, job'[p].op \in Execing, \A x \in Slot : x # p => job'[x] = job[x],
         Same(m', m, pgdir[p]), Progress(p)', Clean(m', job'[p].dir)
  PROVE  Thread(p)'
<1>1. Thread(p)
  BY DEF MInv
<1>2. \A y \in Slot : job[y].op \in {"sbrk", "spawn"} => share[y] # share[p]
  BY DEF Alone, Execing
<1>3. sz[share[p]] < KERNBASE /\ (Exact(m, pgdir[p], PagesOf(sz[share[p]])) \/ Exact(m, pgdir[p], 0))
  BY <1>1, <1>2 DEF Thread, Sized
<1>4. \A n : Exact(m, pgdir[p], n) => Exact(m', pgdir[p], n)
  BY DEF Exact, Same
<1>5. Sized(p)'
  BY <1>3, <1>4 DEF Sized
<1>6. Limited(p)'
  BY <1>1 DEF Thread, Limited, Execing
<1>7. Copied(p)'
  BY Zenon DEF Copied, Execing, Clean
<1>. QED  BY <1>5, <1>6, <1>7 DEF Thread

\* A call of allocuvm().
LEMMA AllocIs ==
  ASSUME NEW i \in JobType, NEW op \in AllocOps, NEW d \in Frame, NEW old \in Nat, NEW new \in Nat,
         old < KERNBASE \/ old <= new, NEW j, j = Alloc(i, op, d, old, new)
  PROVE  /\ j \in JobType /\ j.op = op /\ j.dir = d /\ j.old = old /\ j.child = i.child /\ j.prog = i.prog
         /\ j.to = (IF new < old THEN old ELSE new) /\ j.to \in Nat /\ j.a = PGROUNDUP(old)
         /\ j.at \in {"alloc", "failed"}
         /\ j.at = "alloc" => /\ j.a \div PGSIZE = PagesOf(old) /\ PagesOf(old) <= PagesOf(j.to)
                              /\ j.a = (j.a \div PGSIZE) * PGSIZE /\ j.to < KERNBASE
<1>1. /\ PGROUNDUP(old) \in Nat /\ PGROUNDUP(old) \div PGSIZE = PagesOf(old)
      /\ PGROUNDUP(old) = PagesOf(old) * PGSIZE
  BY PagesBelow
<1>. DEFINE at == IF new >= KERNBASE \/ (new = 0 /\ old = 0) THEN "failed" ELSE "alloc"
            to == IF new < old THEN old ELSE new
<1>2. to \in Nat /\ old <= to /\ at \in {"alloc", "failed"} /\ (at = "alloc" => to < KERNBASE)
  BY Numbers
<1>3. PagesOf(old) <= PagesOf(to)
  BY <1>2, MorePages
<1>4. j = [i EXCEPT !.op = op, !.dir = d, !.old = old, !.to = to, !.a = PGROUNDUP(old), !.at = at]
  BY DEF Alloc
<1>. HIDE DEF at, to
<1>5. /\ j.op = op /\ j.dir = d /\ j.old = old /\ j.child = i.child /\ j.prog = i.prog
      /\ j.to = to /\ j.a = PGROUNDUP(old) /\ j.at = at /\ j.stack = i.stack
      /\ j = [op |-> j.op, at |-> j.at, dir |-> j.dir, a |-> j.a, old |-> j.old, to |-> j.to,
              child |-> j.child, prog |-> j.prog, stack |-> j.stack]
  BY <1>4, Zenon DEF JobType
<1>6. j.op \in {"no", "sbrk", "spawn", "fork", "exec", "segment", "stack"} /\ j.at \in {"alloc", "failed"}
  BY <1>2, <1>5 DEF AllocOps
<1>7. j \in JobType
  <2>1. i.child \in Slot \cup {0} /\ i.prog \in Seq(Segment) /\ i.stack \in Nat
    BY DEF JobType
  <2>. QED  BY <1>1, <1>2, <1>5, <1>6, <2>1 DEF JobType
<1>8. j.to = (IF new < old THEN old ELSE new)
  BY <1>5 DEF to
<1>. QED  BY <1>1, <1>2, <1>3, <1>5, <1>6, <1>7, <1>8

LEMMA NoJobIs ==
  /\ NoJob \in JobType /\ NoJob.op = "no" /\ NoJob.at = "no" /\ NoJob.child = 0 /\ NoJob.a = 0 /\ NoJob.to = 0
  /\ NoJob.dir = 0 /\ NoJob.prog = <<>>
BY DEF NoJob, JobType

\* The state of memory that MInv describes.
LEMMA Sound ==
  ASSUME MInv
  PROVE  /\ Good(m, Spaces, KStacks) /\ m \in MemType /\ m.space[0] = NoSpace
         /\ sz \in [Slot -> Nat] /\ limit \in [Slot -> Nat] /\ share \in [Slot -> Slot] /\ job \in [Slot -> JobType]
         /\ st \in [Slot -> {"unused", "embryo", "run", "zombie"}]
BY DEF MInv, Framed, Good, MemTypes

LEMMA StoreStep ==
  ASSUME MInv, torn = "no", torn' = "no", NEW p \in Slot, NEW v \in Page, Store(p, v)
  PROVE  MInv'
<1>. DEFINE d == pgdir[p]
            f == m.space[d].pte[v].f
<1>1. Runs(p) /\ m.space[d].pte[v].u /\ m' = [m EXCEPT !.content[f] = share[p]] /\ Tears(p)
      /\ UNCHANGED <<project, st, kstack, pgdir, share, sz, limit, parent, head, job, panicked>>
  BY DEF Store
<1>2. Alone(p)
  BY <1>1, TearsAlone DEF Runs
<1>3. /\ st[p] = "run" /\ job[p] = NoJob /\ d \in Spaces /\ p \notin Builders /\ share[p] \in Slot
      /\ Exact(m, d, PagesOf(sz[share[p]])) /\ sz[share[p]] < KERNBASE
      /\ limit[share[p]] # 0 => sz[share[p]] < limit[share[p]] + PGSIZE
  BY <1>1, <1>2, RunsExact
<1>4. Good(m, Spaces, KStacks) /\ job \in [Slot -> JobType] /\ sz \in [Slot -> Nat] /\ limit \in [Slot -> Nat]
  BY Sound
<1>5. share[p] \in Int
  <2>1. share[p] \in Slot
    BY <1>3
  <2>2. \A i \in Slot : i \in Int
    BY DEF Slot
  <2>. QED  BY <2>1, <2>2
<1>6. /\ Good(m', Spaces, KStacks) /\ (AllUsed(m, Spaces, KStacks) => AllUsed(m', Spaces, KStacks))
      /\ m'.space = m.space
      /\ \A e \in Spaces : e # d => Same(m', m, e)
  <2>. HIDE DEF f
  <2>1. f = m.space[d].pte[v].f
    BY DEF f
  <2>. HIDE DEF d
  <2>2. m' = [m EXCEPT !.content[f] = share[p]] /\ m.space[d].pte[v].u
    BY <1>1
  <2>. QED  BY <1>3, <1>4, <1>5, <2>1, <2>2, StoreIs, SMTT(30)
<1>7. Exact(m', d, PagesOf(sz[share[p]]))
  BY <1>3, <1>6 DEF Exact
<1>8. Sized(p)'
  BY <1>1, <1>3, <1>7 DEF Sized
<1>9. Thread(p)'
  BY <1>1, <1>3, <1>8, IdleRunner
<1>10. job' = [job EXCEPT ![p] = NoJob]
  BY <1>1, <1>3, <1>4
<1>. QED  BY <1>1, <1>2, <1>3, <1>4, <1>6, <1>9, <1>10, NoJobIs, Local, Zenon DEF Building, Execing

\* The memory does not change.
LEMMA MemoryStays ==
  ASSUME MInv, m' = m
  PROVE  /\ Good(m', Spaces, KStacks) /\ (AllUsed(m, Spaces, KStacks) => AllUsed(m', Spaces, KStacks))
         /\ m'.space[0] = m.space[0] /\ \A d : Same(m', m, d)
BY Sound DEF Same

LEMMA GrowStep ==
  ASSUME MInv, torn = "no", torn' = "no", NEW p \in Slot, NEW n \in SbrkArgs, Grow(p, n)
  PROVE  MInv'
<1>. DEFINE s == share[p]
            d == pgdir[p]
            new == (sz[s] + n) % WORD
            j == Alloc(NoJob, "sbrk", d, sz[s], new)
<1>1. /\ Runs(p) /\ ~Refused(s, n) /\ Tears(p) /\ job' = [job EXCEPT ![p] = j] /\ m' = m
      /\ UNCHANGED <<project, m, st, kstack, pgdir, share, sz, limit, parent, head, panicked>>
  BY DEF Grow
<1>2. Alone(p)
  BY <1>1, TearsAlone DEF Runs
<1>3. /\ st[p] = "run" /\ job[p] = NoJob /\ d \in Spaces /\ d \in Frame /\ p \notin Builders /\ s \in Slot
      /\ Exact(m, d, PagesOf(sz[s])) /\ sz[s] < KERNBASE /\ sz[s] \in Nat /\ limit[s] \in Nat
      /\ limit[s] # 0 => sz[s] < limit[s] + PGSIZE
  BY <1>1, <1>2, RunsExact
<1>4. new \in Nat
  BY <1>3, Numbers, MemAssumption
<1>5. limit[s] # 0 => new <= limit[s]
  <2>1. ~(limit[s] # 0 /\ new > limit[s])
    BY <1>1 DEF Refused
  <2>. HIDE DEF new
  <2>. QED  BY <1>3, <1>4, <2>1
<1>. HIDE DEF new
<1>6. /\ j \in JobType /\ j.op = "sbrk" /\ j.dir = d /\ j.old = sz[s] /\ j.child = 0
      /\ j.to = (IF new < sz[s] THEN sz[s] ELSE new) /\ j.at \in {"alloc", "failed"}
      /\ j.at = "alloc" => /\ j.a \div PGSIZE = PagesOf(sz[s]) /\ PagesOf(sz[s]) <= PagesOf(j.to)
                           /\ j.a = (j.a \div PGSIZE) * PGSIZE /\ j.to < KERNBASE
  <2>1. "sbrk" \in AllocOps
    BY DEF AllocOps
  <2>. QED  BY <1>3, <1>4, <2>1, NoJobIs, AllocIs
<1>. HIDE DEF j
<1>7. job'[p] = j /\ job \in [Slot -> JobType] /\ sz \in [Slot -> Nat] /\ limit \in [Slot -> Nat]
  BY <1>1, Sound
<1>8. Progress(p)'
  <2>1. PagesOf(j.old) <= PagesOf(sz[s])
    BY <1>3, <1>6, PagesBelow
  <2>. QED  BY <1>1, <1>3, <1>6, <1>7, <2>1 DEF Progress, AllocOps
<1>9. Sized(p)'
  BY <1>1, <1>3, <1>6, <1>7 DEF Sized
<1>10. Limited(p)'
  <2>1. limit[s] # 0 => j.to < limit[s] + PGSIZE
    BY <1>3, <1>4, <1>5, <1>6, Numbers, SMTT(30)
  <2>. QED  BY <1>1, <1>3, <1>6, <1>7, <2>1 DEF Limited, Execing
<1>11. Copied(p)'
  BY <1>6, <1>7 DEF Copied, Execing
<1>12. Thread(p)'
  BY <1>8, <1>9, <1>10, <1>11 DEF Thread
<1>. QED  BY <1>1, <1>2, <1>3, <1>6, <1>7, <1>12, NoJobIs, MemoryStays, Local, Zenon DEF Building, Execing

LEMMA GrowEndStep ==
  ASSUME MInv, torn = "no", torn' = "no", NEW p \in Slot, GrowEnd(p)
  PROVE  MInv'
<1>. DEFINE s == share[p]
            d == pgdir[p]
<1>1. /\ job[p].op = "sbrk" /\ job[p].at \in {"done", "failed"} /\ m' = m
      /\ sz' = IF job[p].at = "done" THEN [sz EXCEPT ![s] = job[p].to] ELSE sz
      /\ job' = [job EXCEPT ![p] = NoJob]
      /\ UNCHANGED <<project, st, kstack, pgdir, share, limit, parent, head, panicked>>
  BY DEF GrowEnd, Goes, Idle
<1>2. Alone(p) /\ st[p] = "run"
  BY <1>1, InCallAlone
<1>3. job \in [Slot -> JobType] /\ sz \in [Slot -> Nat] /\ limit \in [Slot -> Nat] /\ s \in Slot
  BY Sound
<1>4. job'[p] = NoJob /\ job[p].to \in Nat
  BY <1>1, <1>3 DEF JobType
<1>5. Thread(p)
  BY DEF MInv
<1>6. /\ job[p].at = "done" => job[p].to < KERNBASE /\ Exact(m, d, PagesOf(job[p].to))
      /\ job[p].at = "failed" => Exact(m, d, PagesOf(sz[s])) \/ Exact(m, d, 0)
      /\ sz[s] < KERNBASE
      /\ limit[s] # 0 => sz[s] < limit[s] + PGSIZE /\ (job[p].at = "done" => job[p].to < limit[s] + PGSIZE)
  BY <1>1, <1>2, <1>5 DEF Thread, Progress, Sized, Limited
<1>7. sz'[s] = IF job[p].at = "done" THEN job[p].to ELSE sz[s]
  BY <1>1, <1>3
<1>8. Sized(p)'
  BY <1>1, <1>6, <1>7 DEF Sized
<1>9. Thread(p)'
  BY <1>1, <1>4, <1>6, <1>7, <1>8, IdleRunner
<1>10. sz' \in [Slot -> Nat] /\ \A x \in Slot : x # s => sz'[x] = sz[x]
  BY <1>1, <1>3, <1>4
<1>. QED  BY <1>1, <1>2, <1>3, <1>9, <1>10, NoJobIs, MemoryStays, Local, Zenon DEF Building, Execing

LEMMA ShrinkStep ==
  ASSUME MInv, torn = "no", torn' = "no", NEW p \in Slot, NEW n \in SbrkArgs, Shrink(p, n)
  PROVE  MInv'
<1>. DEFINE s == share[p]
            d == pgdir[p]
            new == (sz[s] + n) % WORD
            j == [NoJob EXCEPT !.op = "sbrk", !.to = new, !.at = IF new = 0 THEN "failed" ELSE "done"]
<1>1. /\ Runs(p) /\ ~Refused(s, n) /\ new < sz[s] /\ Tears(p) /\ job' = [job EXCEPT ![p] = j]
      /\ m' = deallocuvm(m, d, sz[s], new)
      /\ UNCHANGED <<project, st, kstack, pgdir, share, sz, limit, parent, head, panicked>>
  BY DEF Shrink
<1>2. Alone(p)
  BY <1>1, TearsAlone DEF Runs
<1>3. /\ st[p] = "run" /\ job[p] = NoJob /\ d \in Spaces /\ d \in Frame /\ p \notin Builders /\ s \in Slot
      /\ Exact(m, d, PagesOf(sz[s])) /\ sz[s] < KERNBASE /\ sz[s] \in Nat /\ limit[s] \in Nat
      /\ limit[s] # 0 => sz[s] < limit[s] + PGSIZE
  BY <1>1, <1>2, RunsExact
<1>4. new \in Nat
  BY <1>3, Numbers, MemAssumption
<1>5. limit[s] # 0 => new <= limit[s]
  <2>1. ~(limit[s] # 0 /\ new > limit[s])
    BY <1>1 DEF Refused
  <2>. HIDE DEF new
  <2>. QED  BY <1>3, <1>4, <2>1
<1>. HIDE DEF new
<1>6. /\ j \in JobType /\ j.op = "sbrk" /\ j.child = 0 /\ j.to = new
      /\ j.at = (IF new = 0 THEN "failed" ELSE "done")
  <2>. DEFINE at == IF new = 0 THEN "failed" ELSE "done"
  <2>1. at \in {"failed", "done"} /\ j = [NoJob EXCEPT !.op = "sbrk", !.to = new, !.at = at]
    OBVIOUS
  <2>. HIDE DEF at, j
  <2>2. /\ j.op = "sbrk" /\ j.to = new /\ j.at = at /\ j.dir = NoJob.dir /\ j.a = NoJob.a /\ j.old = NoJob.old
        /\ j.child = NoJob.child /\ j.prog = NoJob.prog /\ j.stack = NoJob.stack
        /\ j = [op |-> j.op, at |-> j.at, dir |-> j.dir, a |-> j.a, old |-> j.old, to |-> j.to,
                child |-> j.child, prog |-> j.prog, stack |-> j.stack]
    BY <2>1, NoJobIs, Zenon DEF JobType
  <2>3. j \in JobType
    BY <1>4, <2>1, <2>2, NoJobIs DEF JobType
  <2>. QED  BY <2>2, <2>3, NoJobIs DEF at
<1>. HIDE DEF j
<1>7. /\ job'[p] = j /\ job \in [Slot -> JobType] /\ sz \in [Slot -> Nat] /\ limit \in [Slot -> Nat]
      /\ Good(m, Spaces, KStacks) /\ m \in MemType
  BY <1>1, Sound
<1>8. Unpaged(m', m, d, Dropped(sz[s], new)) /\ Dropped(sz[s], new) \in SUBSET Page
      /\ Dropped(sz[s], new) = {v \in Page : PagesOf(new) <= v /\ v < PagesOf(sz[s])}
  BY <1>1, <1>3, <1>4, <1>7, deallocuvmIs, DroppedIs
<1>9. Good(m', Spaces, KStacks) /\ (AllUsed(m, Spaces, KStacks) => AllUsed(m', Spaces, KStacks)) /\ Untouched(m', m)
  BY <1>3, <1>7, <1>8, GoodUnpaged
<1>10. \A e \in Frame \cup {0} : e # d => m'.space[e] = m.space[e]
  BY <1>8 DEF Unpaged
<1>11. \A e \in Spaces : e # d => Same(m', m, e)
  BY <1>7, <1>9, <1>10, OthersSame
<1>12. PagesOf(new) \in Nat /\ PagesOf(sz[s]) \in Nat /\ PagesOf(new) <= PagesOf(sz[s]) /\ (new = 0 => PagesOf(new) = 0)
  <2>1. 0 * PGSIZE = 0
    BY Numbers
  <2>. QED  BY <1>1, <1>3, <1>4, <2>1, MorePages, PagesBelow
<1>13. Exact(m', d, PagesOf(new))
  <2>1. \A v \in Page : m'.space[d].pte[v].f = IF PagesOf(new) <= v /\ v < PagesOf(sz[s]) THEN 0 ELSE m.space[d].pte[v].f
    BY <1>8 DEF Unpaged, Absent
  <2>. QED  BY <1>3, <1>12, <2>1, PageNat DEF Exact
<1>14. Progress(p)'
  BY <1>1, <1>3, <1>4, <1>6, <1>7, <1>12, <1>13, Numbers, SMTT(30) DEF Progress, AllocOps
<1>15. Sized(p)'
  BY <1>1, <1>3, <1>6, <1>7 DEF Sized
<1>16. Limited(p)'
  BY <1>1, <1>3, <1>4, <1>5, <1>6, <1>7, Numbers DEF Limited, Execing
<1>17. Copied(p)'
  BY <1>6, <1>7 DEF Copied, Execing
<1>18. Thread(p)'
  BY <1>14, <1>15, <1>16, <1>17 DEF Thread
<1>19. m'.space[0] = m.space[0]
  BY <1>3, <1>10, Numbers
<1>. QED  BY <1>1, <1>2, <1>3, <1>6, <1>7, <1>9, <1>11, <1>18, <1>19, NoJobIs, Local, Zenon DEF Building, Execing

LEMMA setmemorylimitStep ==
  ASSUME MInv, torn = "no", torn' = "no", NEW p \in Slot, NEW s \in Slot, NEW n \in Limits, setmemorylimit(p, s, n)
  PROVE  MInv'
<1>1. /\ project = 2 /\ sz[s] <= n /\ limit' = [limit EXCEPT ![s] = n] /\ m' = m
      /\ \A x \in Slot : share[x] = s => job[x].op = "no"
      /\ UNCHANGED <<project, m, st, kstack, pgdir, share, sz, parent, head, job, panicked>>
  BY DEF setmemorylimit
<1>2. n \in Nat /\ job \in [Slot -> JobType] /\ sz \in [Slot -> Nat] /\ limit \in [Slot -> Nat] /\ share \in [Slot -> Slot]
  BY Sound, MemAssumption, Zenon
<1>3. limit' \in [Slot -> Nat] /\ limit'[s] = n /\ \A x \in Slot : x # s => limit'[x] = limit[x]
  BY <1>1, <1>2
<1>4. MemTypes'
  BY <1>1, <1>3 DEF MInv, MemTypes
<1>5. Owners' = Owners /\ InUse' = InUse /\ Builders' = Builders /\ Spaces' = Spaces /\ KStacks' = KStacks
  BY <1>1 DEF Owners, InUse, Builders, Spaces, KStacks
<1>6. Families' /\ Calls' /\ Framed'
  <2>1. Families'
    BY <1>1, <1>5 DEF MInv, Families
  <2>2. Calls'
    BY <1>1, <1>5 DEF MInv, Calls
  <2>3. Framed'
    BY <1>1, <1>5 DEF MInv, Framed
  <2>. QED  BY <2>1, <2>2, <2>3
<1>7. ASSUME NEW x \in Slot PROVE Thread(x)'
  <2>1. CASE share[x] # s
    <3>1. Kept(x)
      BY <1>1, <1>2, <1>3, <2>1, MemoryStays DEF Kept
    <3>. QED  BY <3>1, KeptThread
  <2>2. CASE share[x] = s
    <3>1. job'[x] = NoJob
      BY <1>1, <2>2 DEF MInv, Calls
    <3>2. Sized(x)'
      <4>1. Sized(x)
        BY DEF MInv, Thread
      <4>. QED  BY <1>1, <4>1 DEF Sized
    <3>3. sz'[share'[x]] < limit'[share'[x]] + PGSIZE
      BY <1>1, <1>2, <1>3, <2>2, Numbers
    <3>. QED  BY <3>1, <3>2, <3>3, IdleRunner
  <2>. QED  BY <2>1, <2>2
<1>. QED  BY <1>4, <1>6, <1>7 DEF MInv

-----------------------------------------------------------------------------
\* allocuvm(), one page at a time.

\* Page v of d is now frame f; the others are as they were.
OnePage(y, x, d, v, f) ==
  /\ f \in Frame /\ f # 0 /\ y.space[d].pte[v].f = f
  /\ \A w \in Page : w # v => y.space[d].pte[w] = x.space[d].pte[w]
  /\ \A w \in Page : w # v /\ x.space[d].pte[w].f # 0 =>
       y.content[x.space[d].pte[w].f] = x.content[x.space[d].pte[w].f]

LEMMA PagedContent ==
  ASSUME NEW x, NEW D, NEW K, Good(x, D, K), NEW d \in D, NEW v \in Page, NEW f, NEW u,
         x.space[d].pte[v].f = 0, NEW y, Paged(y, x, d, v, f, u), Untouched(y, x)
  PROVE  OnePage(y, x, d, v, f) /\ (Exact(x, d, v) => Exact(y, d, v + 1))
<1>1. x \in MemType /\ d \in Frame /\ x.free \subseteq Frame /\ f \in x.free /\ y.free \subseteq x.free
  BY DEF Good, MemType, Paged
<1>2. f \in Frame /\ f # 0
  BY <1>1, Numbers
<1>3. x.space[d].pte \in [Page -> [f : Frame \cup {0}, u : BOOLEAN]]
  BY <1>1 DEF MemType, SpaceType
<1>4. y.space[d].pte[v] = [f |-> f, u |-> u] /\ \A w \in Page : w # v => y.space[d].pte[w] = x.space[d].pte[w]
  BY <1>3 DEF Paged
<1>5. y.space[d].pte[v].f = f
  BY <1>4
<1>6. ASSUME NEW w \in Page, w # v, x.space[d].pte[w].f # 0
      PROVE  y.content[x.space[d].pte[w].f] = x.content[x.space[d].pte[w].f]
  <2>1. x.space[d].pte[w].f \in Frame /\ x.space[d].pte[w].f \in Pages(x, d)
    BY <1>1, <1>6, Parts
  <2>2. x.space[d].pte[w].f \notin x.free
    BY <2>1 DEF Good, Uses
  <2>. QED  BY <1>1, <2>1, <2>2 DEF Untouched
<1>7. ASSUME Exact(x, d, v) PROVE Exact(y, d, v + 1)
  BY <1>2, <1>4, <1>5, <1>7, PageNat DEF Exact
<1>8. OnePage(y, x, d, v, f)
  BY <1>2, <1>4, <1>5, <1>6 DEF OnePage
<1>. QED  BY <1>7, <1>8

\* Out of memory: allocuvm() gives back the pages it got.
LEMMA FullIs ==
  ASSUME NEW x, NEW D, NEW K, Good(x, D, K), NEW d \in D, NEW z \in MemType,
         z.frames = x.frames, z.space = x.space, z.free = x.free, Untouched(z, x),
         NEW n \in Nat, NEW old \in Nat, NEW to \in Nat, Exact(x, d, n), PagesOf(old) <= n, n <= PagesOf(to),
         NEW y, y = deallocuvm(z, d, to, old)
  PROVE  /\ Good(y, D, K)
         /\ AllUsed(x, D, K) => AllUsed(y, D, K)
         /\ Untouched(y, x)
         /\ \A e \in Frame \cup {0} : e # d => y.space[e] = x.space[e]
         /\ Exact(y, d, PagesOf(old))
         /\ \A v \in Page : y.space[d].pte[v] = IF v < PagesOf(old) THEN x.space[d].pte[v] ELSE Absent
         /\ \A v \in Page : v < PagesOf(old) =>
              y.content[x.space[d].pte[v].f] = x.content[x.space[d].pte[v].f]
<1>1. Good(z, D, K) /\ (AllUsed(x, D, K) => AllUsed(z, D, K))
  BY GoodContent
<1>2. d \in Frame /\ PagesOf(old) \in Nat /\ PagesOf(to) \in Nat /\ x \in MemType
  BY PagesBelow DEF Good
<1>3. /\ Unpaged(y, z, d, Dropped(to, old)) /\ Dropped(to, old) \in SUBSET Page
      /\ Dropped(to, old) = {v \in Page : PagesOf(old) <= v /\ v < PagesOf(to)}
  BY <1>2, deallocuvmIs, DroppedIs
<1>4. Good(y, D, K) /\ (AllUsed(z, D, K) => AllUsed(y, D, K)) /\ Untouched(y, z)
  BY <1>1, <1>3, GoodUnpaged
<1>5. Untouched(y, x)
  BY <1>4 DEF Untouched
<1>6. \A e \in Frame \cup {0} : e # d => y.space[e] = x.space[e]
  BY <1>3 DEF Unpaged
<1>7. \A v \in Page : x.space[d].pte[v].f = 0 => x.space[d].pte[v] = Absent
  <2>1. \A v \in Page : x.space[d].pte[v] \in [f : Frame \cup {0}, u : BOOLEAN]
    BY <1>2 DEF MemType, SpaceType
  <2>. QED  BY <2>1, Zenon DEF Good, Absent
<1>8. ASSUME NEW v \in Page
      PROVE  y.space[d].pte[v] = IF v < PagesOf(old) THEN x.space[d].pte[v] ELSE Absent
  <2>1. y.space[d].pte[v] = IF PagesOf(old) <= v /\ v < PagesOf(to) THEN Absent ELSE x.space[d].pte[v]
    BY <1>3 DEF Unpaged
  <2>2. v \in Nat
    BY PageNat
  <2>3. v >= PagesOf(to) => x.space[d].pte[v] = Absent
    BY <1>2, <1>7, <2>2 DEF Exact
  <2>. QED  BY <1>2, <2>1, <2>2, <2>3
<1>9. Exact(y, d, PagesOf(old))
  <2>1. \A v \in Page : v < PagesOf(old) => x.space[d].pte[v].f # 0
    BY <1>2, PageNat DEF Exact
  <2>. QED  BY <1>8, <2>1 DEF Exact, Absent
<1>10. ASSUME NEW v \in Page, v < PagesOf(old)
       PROVE  y.content[x.space[d].pte[v].f] = x.content[x.space[d].pte[v].f]
  <2>. DEFINE g == x.space[d].pte[v].f
  <2>1. g # 0
    BY <1>2, <1>10, PageNat DEF Exact
  <2>2. g \in Frame /\ g \in Pages(x, d)
    BY <1>2, <2>1, Parts, SMTT(30)
  <2>3. g \in Pages(y, d)
    BY <1>8, <1>10, <2>1 DEF Pages
  <2>4. g \notin x.free /\ g \notin y.free
    BY <1>4, <2>2, <2>3 DEF Good, Uses
  <2>. QED  BY <1>5, <2>2, <2>4 DEF Untouched
<1>. QED  BY <1>1, <1>4, <1>5, <1>6, <1>8, <1>9, <1>10

\* Where a thread in allocuvm() is.
LEMMA AllocAt ==
  ASSUME MInv, NEW p \in Slot, job[p].op \in AllocOps, job[p].at = "alloc", NEW n, n = job[p].a \div PGSIZE
  PROVE  /\ job[p].dir \in Spaces /\ job[p].dir \in Frame /\ job[p] \in JobType
         /\ job[p].op \in {"sbrk", "spawn"} => job[p].dir = pgdir[p] /\ p \notin Builders
         /\ job[p].op \in {"segment", "stack"} => p \in Builders /\ job[p].op \in Execing /\ job[p].dir # pgdir[p]
         /\ n \in Nat /\ job[p].a = n * PGSIZE /\ Exact(m, job[p].dir, n) /\ n <= PagesOf(job[p].to)
         /\ job[p].to < KERNBASE /\ PagesOf(job[p].old) <= n
         /\ job[p].a \in Nat /\ job[p].to \in Nat /\ job[p].old \in Nat
         /\ PagesOf(job[p].to) \in Nat /\ PagesOf(job[p].old) \in Nat
         /\ job[p].a >= job[p].to => n = PagesOf(job[p].to)
         /\ job[p].a < job[p].to => n \in Page /\ m.space[job[p].dir].pte[n].f = 0 /\ n + 1 <= PagesOf(job[p].to)
         /\ (job[p].a + PGSIZE) \div PGSIZE = n + 1 /\ job[p].a + PGSIZE = (n + 1) * PGSIZE
         /\ job[p].a + PGSIZE \in Nat
<1>. DEFINE j == job[p]
<1>1. j \in JobType /\ j.a \in Nat /\ j.to \in Nat /\ j.old \in Nat
  BY Sound DEF JobType
<1>2. Progress(p)
  BY DEF MInv, Thread
<1>3. st[p] = "run" /\ p \in Owners /\ pgdir[p] \in Spaces /\ pgdir[p] \in Frame
  BY InCallAlone, Where DEF AllocOps
<1>4. j.op \in {"sbrk", "spawn"} => j.dir = pgdir[p] /\ p \notin Builders
  BY <1>2 DEF Progress, Builders, Building
<1>5. j.op \in {"segment", "stack"} => p \in Builders /\ j.op \in Execing
  BY DEF Builders, Building, Execing
<1>6. p \in Builders => j.dir \in Spaces /\ j.dir \in Frame /\ j.dir # pgdir[p]
  BY <1>3, Where DEF MInv, Calls
<1>7. /\ Exact(m, j.dir, n) /\ n <= PagesOf(j.to) /\ j.a = n * PGSIZE /\ j.to < KERNBASE /\ PagesOf(j.old) <= n
  BY <1>2 DEF Progress
<1>8. /\ n \in Nat /\ PagesOf(j.to) \in Nat /\ PagesOf(j.old) \in Nat
      /\ (n < PagesOf(j.to) <=> n * PGSIZE < j.to)
  BY <1>1, PgDiv, PagesBelow
<1>9. j.a >= j.to => n = PagesOf(j.to)
  BY <1>1, <1>7, <1>8
<1>10. ASSUME j.a < j.to PROVE n \in Page /\ m.space[j.dir].pte[n].f = 0 /\ n + 1 <= PagesOf(j.to)
  <2>1. n * PGSIZE < KERNBASE
    BY <1>1, <1>7, <1>10, Numbers
  <2>2. n \in Page
    BY <1>8, <2>1, PageBelow, SMTT(30)
  <2>3. m.space[j.dir].pte[n].f = 0
    BY <1>7, <1>8, <2>2 DEF Exact
  <2>4. n < PagesOf(j.to)
    BY <1>7, <1>8, <1>10
  <2>5. n + 1 <= PagesOf(j.to)
    BY <1>8, <2>4
  <2>. QED  BY <2>2, <2>3, <2>5
<1>11. j.a + PGSIZE = (n + 1) * PGSIZE /\ n + 1 \in Nat /\ j.a + PGSIZE \in Nat
  BY <1>1, <1>7, <1>8, PgMul, Numbers
<1>12. (j.a + PGSIZE) \div PGSIZE = n + 1
  BY <1>11, PgOf
<1>. QED  BY <1>1, <1>3, <1>4, <1>5, <1>6, <1>7, <1>8, <1>9, <1>10, <1>11, <1>12, Zenon DEF AllocOps

\* The invariant for the thread, from how far the pages have come and what is in
\* them.
LEMMA AllocThread ==
  ASSUME MInv, NEW p \in Slot, job[p].op \in AllocOps, job[p].at = "alloc",
         UNCHANGED <<project, st, share, pgdir, sz, limit>>,
         NEW j, job' = [job EXCEPT ![p] = j], j.op = job[p].op, j.dir = job[p].dir, j.old = job[p].old,
         j.to = job[p].to, j.prog = job[p].prog, j.at \in {"alloc", "done", "failed"},
         \A e \in Spaces : e # job[p].dir => Same(m', m, e),
         j.at = "alloc" => /\ Exact(m', j.dir, j.a \div PGSIZE) /\ j.a \div PGSIZE <= PagesOf(j.to)
                           /\ j.a = (j.a \div PGSIZE) * PGSIZE /\ PagesOf(j.old) <= j.a \div PGSIZE,
         j.at = "done" => Exact(m', j.dir, PagesOf(j.to)),
         j.at = "failed" => Exact(m', j.dir, PagesOf(j.old)),
         j.op \in Execing => Clean(m', j.dir)
  PROVE  Thread(p)'
<1>1. st[p] = "run" /\ Alone(p) /\ Thread(p) /\ pgdir[p] \in Spaces /\ share[p] \in Slot /\ sz[share[p]] \in Nat
  BY InCallAlone, Where, Sound DEF AllocOps, MInv
<1>2. job'[p] = j /\ \A x \in Slot : x # p => job'[x] = job[x]
  BY Sound
<1>3. /\ job[p].to < KERNBASE
      /\ job[p].op \in {"sbrk", "spawn"} => job[p].dir = pgdir[p]
      /\ job[p].op \in {"segment", "stack"} => job[p].op \in Execing /\ job[p].dir # pgdir[p]
  BY AllocAt
<1>4. Progress(p) /\ Limited(p) /\ Sized(p)
  BY <1>1 DEF Thread
<1>5. Progress(p)'
  <2>1. CASE job[p].op = "sbrk"
    <3>1. job[p].old = sz[share[p]]
      BY <1>4, <2>1 DEF Progress
    <3>. QED  BY <1>2, <1>3, <2>1, <3>1 DEF Progress, AllocOps
  <2>2. CASE job[p].op = "spawn"
    <3>1. project = 2 /\ job[p].old = PGROUNDUP(sz[share[p]])
      BY <1>4, <2>2 DEF Progress
    <3>2. PagesOf(job[p].old) = PagesOf(sz[share[p]])
      BY <1>1, <3>1, RoundedPages
    <3>. QED  BY <1>2, <1>3, <2>2, <3>1, <3>2 DEF Progress, AllocOps
  <2>3. CASE job[p].op = "segment"
    <3>1. job[p].prog # <<>>
      BY <1>4, <2>3 DEF Progress
    <3>. QED  BY <1>2, <1>3, <2>3, <3>1 DEF Progress, AllocOps
  <2>4. CASE job[p].op = "stack"
    BY <1>2, <1>3, <2>4 DEF Progress, AllocOps
  <2>. QED  BY <2>1, <2>2, <2>3, <2>4 DEF AllocOps
<1>6. CASE job[p].op \in {"segment", "stack"}
  <2>1. Same(m', m, pgdir[p])
    BY <1>1, <1>3, <1>6
  <2>. QED  BY <1>1, <1>2, <1>3, <1>5, <1>6, <2>1, ExecThread
<1>7. CASE job[p].op \in {"sbrk", "spawn"}
  <2>1. Sized(p)'
    BY <1>1, <1>2, <1>4, <1>7 DEF Sized
  <2>2. Limited(p)'
    BY <1>2, <1>4, <1>7 DEF Limited, Execing
  <2>3. Copied(p)'
    BY <1>2, <1>7, Zenon DEF Copied, Execing
  <2>. QED  BY <1>5, <2>1, <2>2, <2>3 DEF Thread
<1>. QED  BY <1>6, <1>7 DEF AllocOps

LEMMA allocuvmStep ==
  ASSUME MInv, torn = "no", torn' = "no", NEW p \in Slot, allocuvm(p)
  PROVE  MInv'
<1>. DEFINE d == job[p].dir
            n == job[p].a \div PGSIZE
            u == TRUE
            r == NewPage(m, d, n, Zero, u)
<1>0. u \in BOOLEAN
  OBVIOUS
<1>1. /\ job[p].op \in AllocOps /\ job[p].at = "alloc"
      /\ UNCHANGED <<project, st, kstack, pgdir, share, sz, limit, parent, head>>
      /\ \/ job[p].a >= job[p].to /\ job' = [job EXCEPT ![p].at = "done"] /\ UNCHANGED <<m, panicked>>
         \/ job[p].a < job[p].to /\ r.res = "ok" /\ m' = r.x /\ job' = [job EXCEPT ![p].a = @ + PGSIZE] /\ UNCHANGED panicked
         \/ job[p].a < job[p].to /\ r.res = "full" /\ m' = deallocuvm(r.x, d, job[p].to, job[p].old)
              /\ job' = [job EXCEPT ![p].at = "failed"] /\ UNCHANGED panicked
         \/ job[p].a < job[p].to /\ r.res = "remap"
  BY ZenonT(60) DEF allocuvm, Goes, Cleared
<1>. HIDE DEF u
<1>2. /\ d \in Spaces /\ d \in Frame /\ job[p] \in JobType
      /\ job[p].op \in {"sbrk", "spawn"} => d = pgdir[p] /\ p \notin Builders
      /\ job[p].op \in {"segment", "stack"} => p \in Builders /\ job[p].op \in Execing
      /\ n \in Nat /\ job[p].a = n * PGSIZE /\ Exact(m, d, n) /\ n <= PagesOf(job[p].to)
      /\ PagesOf(job[p].old) <= n /\ job[p].to \in Nat /\ job[p].old \in Nat
      /\ PagesOf(job[p].to) \in Nat /\ PagesOf(job[p].old) \in Nat
      /\ job[p].a >= job[p].to => n = PagesOf(job[p].to)
      /\ job[p].a < job[p].to => n \in Page /\ m.space[d].pte[n].f = 0 /\ n + 1 <= PagesOf(job[p].to)
      /\ (job[p].a + PGSIZE) \div PGSIZE = n + 1 /\ job[p].a + PGSIZE = (n + 1) * PGSIZE
      /\ job[p].a + PGSIZE \in Nat
  BY <1>1, AllocAt
<1>3. Good(m, Spaces, KStacks) /\ m \in MemType /\ job \in [Slot -> JobType] /\ sz \in [Slot -> Nat] /\ limit \in [Slot -> Nat]
      /\ st[p] = "run" /\ Alone(p) /\ 0 \notin Frame
  BY <1>1, Sound, InCallAlone, Numbers DEF AllocOps
<1>4. \A v \in Page : job[p].op \in Execing /\ m.space[d].pte[v].f # 0 => m.content[m.space[d].pte[v].f] \in {Zero, Text}
  BY ZenonT(60) DEF MInv, Thread, Copied
\* What remains: the new job, and what the memory has become.
<1>5. ASSUME NEW j \in JobType, job' = [job EXCEPT ![p] = j], j.op = job[p].op, j.dir = d, j.old = job[p].old,
             j.to = job[p].to, j.prog = job[p].prog, j.child = job[p].child, panicked' = panicked,
             Good(m', Spaces, KStacks), AllUsed(m, Spaces, KStacks) => AllUsed(m', Spaces, KStacks),
             m'.space[0] = m.space[0], \A e \in Spaces : e # d => Same(m', m, e), Thread(p)'
      PROVE  MInv'
  <2>1. \A e \in Spaces : e # pgdir[p] /\ (p \in Builders => e # job[p].dir) => Same(m', m, e)
    BY <1>1, <1>2, <1>5 DEF AllocOps
  <2>2. IF j.op \in {"fork", "spawn"} THEN job[p].op \in {"fork", "spawn"} /\ j.child = job[p].child ELSE j.child = 0
    BY <1>5 DEF MInv, Calls
  <2>3. j.op # "no"
    BY <1>1, <1>5 DEF AllocOps
  <2>. HIDE DEF r, d, n
  <2>. QED  BY <1>1, <1>2, <1>3, <1>5, <2>1, <2>2, <2>3, Local, ZenonT(60) DEF d
<1>5a. job[p].a < job[p].to =>
         /\ Untouched(r.x, m)
         /\ \/ r.res = "ok" /\ \E f : Paged(r.x, m, d, n, f, u) /\ r.x.content[f] = Zero
            \/ /\ r.res = "full"
               /\ r.x \in MemType /\ r.x.frames = m.frames /\ r.x.space = m.space /\ r.x.free = m.free
  <2>. HAVE job[p].a < job[p].to
  <2>1. n \in Page /\ m.space[d].pte[n].f = 0
    BY <1>2
  <2>2. d \in Spaces /\ Good(m, Spaces, KStacks) /\ r = NewPage(m, d, n, Zero, u)
    BY <1>2, <1>3
  <2>. HIDE DEF d, n, r
  <2>. QED  BY <1>0, <2>1, <2>2, Values, NewPageIs
<1>6. CASE job[p].a >= job[p].to /\ job' = [job EXCEPT ![p].at = "done"] /\ UNCHANGED <<m, panicked>>
  <2>. DEFINE j == [job[p] EXCEPT !.at = "done"]
  <2>1. /\ j \in JobType /\ j.op = job[p].op /\ j.dir = d /\ j.old = job[p].old /\ j.at = "done"
        /\ j.to = job[p].to /\ j.prog = job[p].prog /\ j.child = job[p].child
    BY <1>2, Zenon DEF JobType
  <2>2. job' = [job EXCEPT ![p] = j]
    BY <1>6
  <2>3. Good(m', Spaces, KStacks) /\ (AllUsed(m, Spaces, KStacks) => AllUsed(m', Spaces, KStacks)) /\ m'.space[0] = m.space[0]
        /\ \A e \in Spaces : e # d => Same(m', m, e)
    BY <1>6, MemoryStays
  <2>4. m' = m /\ Exact(m', j.dir, PagesOf(j.to)) /\ (j.op \in Execing => Clean(m', j.dir))
    BY <1>2, <1>4, <1>6, <2>1, Zenon DEF Clean
  <2>. HIDE DEF j, r, n
  <2>5. Thread(p)'
    BY <1>1, <2>1, <2>2, <2>3, <2>4, AllocThread, Zenon
  <2>. QED  BY <1>5, <1>6, <2>1, <2>2, <2>3, <2>5, Zenon
<1>7. CASE job[p].a < job[p].to /\ r.res = "ok" /\ m' = r.x /\ job' = [job EXCEPT ![p].a = @ + PGSIZE] /\ UNCHANGED panicked
  <2>. DEFINE j == [job[p] EXCEPT !.a = @ + PGSIZE]
  <2>1. /\ j \in JobType /\ j.op = job[p].op /\ j.dir = d /\ j.old = job[p].old /\ j.at = "alloc"
        /\ j.to = job[p].to /\ j.prog = job[p].prog /\ j.child = job[p].child /\ j.a = job[p].a + PGSIZE
    BY <1>1, <1>2, Zenon DEF JobType
  <2>2. job' = [job EXCEPT ![p] = j]
    BY <1>7, SMTT(30)
  <2>. HIDE DEF j
  <2>3. n \in Page /\ m.space[d].pte[n].f = 0 /\ n + 1 <= PagesOf(job[p].to)
    BY <1>2, <1>7
  <2>4. PICK f : Paged(m', m, d, n, f, u) /\ m'.content[f] = Zero
    BY <1>5a, <1>7
  <2>5. Untouched(m', m)
    BY <1>5a, <1>7
  <2>. HIDE DEF r, n
  <2>6. Good(m', Spaces, KStacks) /\ (AllUsed(m, Spaces, KStacks) => AllUsed(m', Spaces, KStacks))
    <3>1. Good(m, Spaces, KStacks) /\ d \in Spaces
      BY <1>2, <1>3
    <3>. QED  BY <1>0, <2>3, <2>4, <3>1, GoodPaged
  <2>7. \A e \in Frame \cup {0} : e # d => m'.space[e] = m.space[e]
    BY <2>4 DEF Paged
  <2>8. m'.space[0] = m.space[0] /\ \A e \in Spaces : e # d => Same(m', m, e)
    <3>1. Good(m, Spaces, KStacks) /\ d # 0
      BY <1>2, <1>3
    <3>2. Good(m', Spaces, KStacks)
      BY <2>6
    <3>. HIDE DEF d
    <3>3. \A e \in Spaces \cap Spaces : e # d => Same(m', m, e)
      BY <2>5, <2>7, <3>1, <3>2, OthersSame
    <3>. QED  BY <2>7, <3>1, <3>3
  <2>9. /\ f \in Frame /\ f # 0
        /\ m'.space[d].pte[n].f = f
        /\ \A w \in Page : w # n => m'.space[d].pte[w] = m.space[d].pte[w]
        /\ \A w \in Page : w # n /\ m.space[d].pte[w].f # 0 =>
              m'.content[m.space[d].pte[w].f] = m.content[m.space[d].pte[w].f]
        /\ Exact(m', d, n + 1)
    <3>1. Good(m, Spaces, KStacks) /\ d \in Spaces /\ n \in Page /\ n \in Nat /\ m.space[d].pte[n].f = 0 /\ Exact(m, d, n)
      BY <1>2, <1>3, <2>3
    <3>. HIDE DEF d
    <3>2. Paged(m', m, d, n, f, u)
      BY <2>4
    <3>3. OnePage(m', m, d, n, f) /\ Exact(m', d, n + 1)
      BY <2>5, <3>1, <3>2, PagedContent
    <3>. QED  BY <3>3 DEF OnePage
  <2>10. job[p].op \in Execing => Clean(m', d)
    BY <1>4, <2>4, <2>9, Zenon DEF Clean
  <2>11. j.a \div PGSIZE = n + 1 /\ j.a = (n + 1) * PGSIZE /\ PagesOf(j.old) <= n + 1 /\ n + 1 <= PagesOf(j.to)
    BY <1>2, <2>1, <2>3
  <2>12. Thread(p)'
    BY <1>1, <2>1, <2>2, <2>8, <2>9, <2>10, <2>11, AllocThread, Zenon
  <2>. QED  BY <1>5, <1>7, <2>1, <2>2, <2>6, <2>8, <2>12, Zenon
<1>8. CASE job[p].a < job[p].to /\ r.res = "full" /\ m' = deallocuvm(r.x, d, job[p].to, job[p].old)
              /\ job' = [job EXCEPT ![p].at = "failed"] /\ UNCHANGED panicked
  <2>. DEFINE j == [job[p] EXCEPT !.at = "failed"]
              z == r.x
  <2>1. /\ j \in JobType /\ j.op = job[p].op /\ j.dir = d /\ j.old = job[p].old /\ j.at = "failed"
        /\ j.to = job[p].to /\ j.prog = job[p].prog /\ j.child = job[p].child
    BY <1>2, SMTT(30) DEF JobType
  <2>2. job' = [job EXCEPT ![p] = j]
    BY <1>8, SMTT(30)
  <2>. HIDE DEF j
  <2>3. n \in Page /\ m.space[d].pte[n].f = 0
    BY <1>2, <1>8
  <2>4. z \in MemType /\ z.frames = m.frames /\ z.space = m.space /\ z.free = m.free /\ Untouched(z, m)
    BY <1>5a, <1>8, SMTT(30)
  <2>5. m' = deallocuvm(z, d, job[p].to, job[p].old)
    BY <1>8, SMTT(30)
  <2>. HIDE DEF z, r, n
  <2>6. /\ Good(m', Spaces, KStacks) /\ (AllUsed(m, Spaces, KStacks) => AllUsed(m', Spaces, KStacks)) /\ Untouched(m', m)
        /\ \A e \in Frame \cup {0} : e # d => m'.space[e] = m.space[e]
        /\ Exact(m', d, PagesOf(job[p].old))
        /\ \A v \in Page : m'.space[d].pte[v] = IF v < PagesOf(job[p].old) THEN m.space[d].pte[v] ELSE Absent
        /\ \A v \in Page : v < PagesOf(job[p].old) =>
              m'.content[m.space[d].pte[v].f] = m.content[m.space[d].pte[v].f]
    <3>. HIDE DEF d
    <3>. QED  BY <1>2, <1>3, <2>4, <2>5, FullIs
  <2>7. m'.space[0] = m.space[0] /\ \A e \in Spaces : e # d => Same(m', m, e)
    BY <1>2, <1>3, <2>6, OthersSame, ZenonT(60)
  <2>8. job[p].op \in Execing => Clean(m', d)
    <3>. SUFFICES ASSUME job[p].op \in Execing, NEW v \in Page, m'.space[d].pte[v].f # 0
                  PROVE  m'.content[m'.space[d].pte[v].f] \in {Zero, Text}
      BY SMTT(30) DEF Clean
    <3>0. m'.space[d].pte[v] = IF v < PagesOf(job[p].old) THEN m.space[d].pte[v] ELSE Absent
      BY <2>6, Zenon
    <3>1. v < PagesOf(job[p].old) /\ m'.space[d].pte[v] = m.space[d].pte[v]
      BY <3>0 DEF Absent
    <3>2. m'.content[m.space[d].pte[v].f] = m.content[m.space[d].pte[v].f]
      BY <2>6, <3>1, Zenon
    <3>. QED  BY <1>4, <3>1, <3>2, Zenon
  <2>9. Thread(p)'
    BY <1>1, <2>1, <2>2, <2>6, <2>7, <2>8, AllocThread, Zenon
  <2>. QED  BY <1>5, <1>8, <2>1, <2>2, <2>6, <2>7, <2>9, ZenonT(60)
<1>9. CASE job[p].a < job[p].to /\ r.res = "remap"
  <2>1. n \in Page /\ m.space[d].pte[n].f = 0
    BY <1>2, <1>9
  <2>2. r.res \in {"ok", "full"}
    BY <1>5a, <1>9
  <2>. QED  BY <1>9, <2>2, SMTT(30)
<1>. QED  BY <1>1, <1>6, <1>7, <1>8, <1>9

-----------------------------------------------------------------------------
\* exec(): segments and the stack.

\* The thread's own address space stays while the new one is built.
LEMMA ExecAt ==
  ASSUME MInv, NEW p \in Slot, job[p].op \in Execing
  PROVE  /\ st[p] = "run" /\ Alone(p) /\ p \in Builders /\ p \in Owners
         /\ job[p] \in JobType /\ job[p].to \in Nat /\ job[p].stack \in Nat /\ job[p].prog \in Seq(Segment)
         /\ job[p].dir \in Spaces /\ job[p].dir \in Frame /\ job[p].dir # pgdir[p] /\ pgdir[p] \in Spaces /\ pgdir[p] \in Frame
         /\ job[p].child = 0 /\ limit[share[p]] = 0 /\ share[p] \in Slot
         /\ Clean(m, job[p].dir)
         /\ \A x \in Slot : st[x] = "run" /\ share[x] = share[p] => x = p
         /\ job[p].at = "done" => job[p].to < KERNBASE /\ Exact(m, job[p].dir, PagesOf(job[p].to))
<1>1. st[p] = "run" /\ Alone(p)
  BY InCallAlone DEF Execing
<1>2. p \in Builders /\ p \in Owners /\ pgdir[p] \in Spaces /\ pgdir[p] \in Frame
  BY <1>1, Where DEF Builders, Building, Execing
<1>3. job[p].dir \in Spaces /\ job[p].dir \in Frame /\ job[p].dir # pgdir[p]
  BY <1>2, Where DEF MInv, Calls
<1>4. job[p] \in JobType /\ job[p].to \in Nat /\ job[p].stack \in Nat /\ job[p].prog \in Seq(Segment) /\ share[p] \in Slot
  BY Sound DEF JobType
<1>5. job[p].child = 0 /\ \A x \in Slot : st[x] = "run" /\ share[x] = share[p] => x = p
  BY DEF MInv, Calls, Execing
<1>6. Progress(p) /\ Limited(p) /\ Copied(p)
  BY DEF MInv, Thread
<1>7. limit[share[p]] = 0 /\ Clean(m, job[p].dir)
  BY <1>6, Zenon DEF Limited, Copied, Clean
<1>8. job[p].at = "done" => job[p].to < KERNBASE /\ Exact(m, job[p].dir, PagesOf(job[p].to))
  BY <1>6 DEF Progress, Execing, AllocOps
<1>. QED  BY <1>1, <1>2, <1>3, <1>4, <1>5, <1>7, <1>8

LEMMA ExecNextStep ==
  ASSUME MInv, torn = "no", torn' = "no", NEW p \in Slot, ExecNext(p)
  PROVE  MInv'
<1>. DEFINE i == job[p]
            d == job[p].dir
            top == PGROUNDUP(i.to)
            op == IF i.prog # <<>> THEN "segment" ELSE "stack"
            old == IF i.prog # <<>> THEN i.to ELSE top
            new == IF i.prog # <<>> THEN i.prog[1].end ELSE top + (1 + i.stack) * PGSIZE
            j == Alloc(i, op, d, old, new)
<1>1. /\ i.op = "exec" /\ i.at = "load" /\ job' = [job EXCEPT ![p] = j] /\ m' = m
      /\ UNCHANGED <<project, m, st, kstack, pgdir, share, sz, limit, parent, head, panicked>>
  BY Zenon DEF ExecNext, Goes
<1>2. i.op \in Execing
  BY <1>1 DEF Execing
<1>3. /\ st[p] = "run" /\ Alone(p) /\ p \in Builders /\ i \in JobType /\ i.to \in Nat /\ i.stack \in Nat
      /\ i.prog \in Seq(Segment) /\ d \in Spaces /\ d \in Frame /\ d # pgdir[p] /\ i.child = 0
      /\ Clean(m, d)
  BY <1>2, ExecAt
<1>4. Exact(m, d, PagesOf(i.to)) /\ i.to < KERNBASE
  BY <1>1 DEF MInv, Thread, Progress
<1>5. /\ old \in Nat /\ new \in Nat /\ (old < KERNBASE \/ old <= new) /\ PagesOf(old) = PagesOf(i.to)
      /\ op \in AllocOps /\ op \in {"segment", "stack"} /\ (op = "segment" => i.prog # <<>>)
  <2>1. CASE i.prog # <<>>
    <3>1. i.prog[1] \in Segment
      BY <1>3, <2>1
    <3>2. i.prog[1].end \in Nat
      BY <3>1 DEF Segment
    <3>. QED  BY <1>3, <1>4, <2>1, <3>2 DEF AllocOps
  <2>2. CASE i.prog = <<>>
    <3>1. top \in Nat /\ PagesOf(top) = PagesOf(i.to)
      BY <1>3, PagesBelow, RoundedPages, Zenon
    <3>2. 1 + i.stack \in Nat /\ (1 + i.stack) * PGSIZE \in Nat
      <4>1. 1 + i.stack \in Nat
        BY <1>3
      <4>. QED  BY <4>1, PgMul
    <3>. HIDE DEF top
    <3>3. top + (1 + i.stack) * PGSIZE \in Nat /\ top <= top + (1 + i.stack) * PGSIZE
      BY <3>1, <3>2
    <3>. QED  BY <2>2, <3>1, <3>3 DEF AllocOps
  <2>. QED  BY <2>1, <2>2
<1>. HIDE DEF op, old, new, top
<1>6. /\ j \in JobType /\ j.op = op /\ j.dir = d /\ j.old = old /\ j.child = i.child /\ j.prog = i.prog
      /\ j.at \in {"alloc", "failed"}
      /\ j.at = "alloc" => /\ j.a \div PGSIZE = PagesOf(old) /\ PagesOf(old) <= PagesOf(j.to)
                           /\ j.a = (j.a \div PGSIZE) * PGSIZE /\ j.to < KERNBASE
  <2>1. i \in JobType /\ d \in Frame
    BY <1>3
  <2>2. j = Alloc(i, op, d, old, new)
    OBVIOUS
  <2>. HIDE DEF i, d, j
  <2>. QED  BY <1>5, <2>1, <2>2, AllocIs
<1>. HIDE DEF j
<1>7. job'[p] = j /\ \A x \in Slot : x # p => job'[x] = job[x]
  BY <1>1, Sound
<1>8. Progress(p)'
  <2>1. PagesOf(old) \in Nat
    BY <1>5, PagesBelow
  <2>2. j.at = "alloc" => PagesOf(j.old) <= j.a \div PGSIZE
    BY <1>6, <2>1
  <2>. QED  BY <1>1, <1>4, <1>5, <1>6, <1>7, <2>2 DEF Progress, AllocOps
<1>9. \A e : Same(m', m, e)
  BY <1>1, MemoryStays
<1>10. j.op \in Execing /\ j.op \in Building /\ i.op \in Building
  BY <1>1, <1>5, <1>6 DEF Execing, Building
<1>11. Thread(p)'
  <2>1. Clean(m', job'[p].dir) /\ job'[p].op \in Execing
    BY <1>1, <1>3, <1>6, <1>7, <1>10
  <2>2. st[p] = "run" /\ Alone(p) /\ Same(m', m, pgdir[p])
    BY <1>3, <1>9
  <2>. QED  BY <1>1, <1>2, <1>7, <1>8, <2>1, <2>2, ExecThread
<1>12. j.op # "no" /\ j.op \notin {"fork", "spawn"}
  BY <1>5, <1>6
<1>. QED  BY <1>1, <1>2, <1>3, <1>6, <1>10, <1>11, <1>12, Sound, MemoryStays, Local, Zenon

LEMMA ExecSegmentStep ==
  ASSUME MInv, torn = "no", torn' = "no", NEW p \in Slot, ExecSegment(p)
  PROVE  MInv'
<1>. DEFINE i == job[p]
            d == job[p].dir
            g == i.prog[1]
            j == [i EXCEPT !.op = "exec", !.at = "load", !.prog = Tail(@)]
<1>1. /\ i.op = "segment" /\ i.at = "done" /\ m' = Loaded(m, d, g)
      /\ job' = [job EXCEPT ![p] = j]
      /\ UNCHANGED <<project, st, kstack, pgdir, share, sz, limit, parent, head, panicked>>
  BY Zenon DEF ExecSegment, Goes
<1>2. i.op \in Execing
  BY <1>1 DEF Execing
<1>3. /\ st[p] = "run" /\ Alone(p) /\ p \in Builders /\ i \in JobType
      /\ i.prog \in Seq(Segment) /\ d \in Spaces /\ d \in Frame /\ d # pgdir[p] /\ pgdir[p] \in Spaces /\ i.child = 0
      /\ Clean(m, d)
      /\ i.to < KERNBASE /\ Exact(m, d, PagesOf(i.to))
  BY <1>1, <1>2, ExecAt
<1>4. i.prog # <<>>
  BY <1>1 DEF MInv, Thread, Progress
<1>5. Good(m, Spaces, KStacks) /\ m \in MemType /\ job \in [Slot -> JobType] /\ sz \in [Slot -> Nat] /\ limit \in [Slot -> Nat]
  BY Sound
<1>6. /\ Good(m', Spaces, KStacks) /\ (AllUsed(m, Spaces, KStacks) => AllUsed(m', Spaces, KStacks))
      /\ m'.space = m.space
      /\ \A f \in Frame : m'.content[f] \in {Text, m.content[f]}
      /\ \A e \in Spaces : e # d => Same(m', m, e)
  <2>1. d \in Spaces /\ m' = Loaded(m, d, g)
    BY <1>1, <1>3
  <2>. HIDE DEF d, g
  <2>. QED  BY <1>5, <2>1, LoadedIs
<1>7. /\ j \in JobType /\ j.op = "exec" /\ j.at = "load" /\ j.dir = d /\ j.child = 0 /\ j.to = i.to
  <2>1. Tail(i.prog) \in Seq(Segment)
    BY <1>3, <1>4
  <2>. DEFINE t == Tail(i.prog)
  <2>. HIDE DEF t
  <2>2. j = [i EXCEPT !.op = "exec", !.at = "load", !.prog = t]
    BY DEF t
  <2>. HIDE DEF j, i
  <2>3. i \in JobType /\ t \in Seq(Segment) /\ i.child = 0 /\ i.dir = d
    BY <1>3, <2>1 DEF t, i
  <2>. QED  BY <2>2, <2>3, Zenon DEF JobType
<1>. HIDE DEF j
<1>8. job'[p] = j /\ \A x \in Slot : x # p => job'[x] = job[x]
  BY <1>1, <1>5
<1>9. Progress(p)'
  <2>1. Exact(m', d, PagesOf(i.to))
    BY <1>3, <1>6, SMTT(30) DEF Exact
  <2>. QED  BY <1>3, <1>7, <1>8, <2>1 DEF Progress, AllocOps
<1>10. ASSUME NEW v \in Page, m'.space[d].pte[v].f # 0 PROVE m'.content[m'.space[d].pte[v].f] \in {Zero, Text}
  <2>1. m.space[d].pte[v].f \in Frame
    BY <1>3, <1>5, <1>6, <1>10, Parts
  <2>. QED  BY <1>3, <1>6, <1>10, <2>1 DEF Clean
<1>11. Same(m', m, pgdir[p])
  BY <1>3, <1>6
<1>12. j.op \in Execing /\ j.op \in Building /\ i.op \in Building
  BY <1>1, <1>7, SMTT(30) DEF Execing, Building
<1>13. Thread(p)'
  <2>1. Clean(m', job'[p].dir) /\ job'[p].op \in Execing
    BY <1>7, <1>8, <1>10, <1>12 DEF Clean
  <2>2. st[p] = "run" /\ Alone(p)
    BY <1>3
  <2>. QED  BY <1>1, <1>2, <1>8, <1>9, <1>11, <2>1, <2>2, ExecThread, SMTT(30)
<1>14. \A e \in Spaces : e # pgdir[p] /\ (p \in Builders => e # job[p].dir) => Same(m', m, e)
  BY <1>3, <1>6
<1>15. m'.space[0] = m.space[0]
  BY <1>6
<1>16. j.op # "no" /\ j.op \notin {"fork", "spawn"}
  BY <1>7
<1>. QED  BY <1>1, <1>2, <1>3, <1>5, <1>6, <1>7, <1>12, <1>13, <1>14, <1>15, <1>16, Local, Zenon

-----------------------------------------------------------------------------
\* Steps that begin or end a call: a slot and an address space come or go.

\* A thread that the step is not about.
LEMMA Bystander ==
  ASSUME MInv, project' = project, Families', NEW p \in Slot, st[p] = "run", st'[p] = "run", Alone(p), share'[p] = share[p], Thread(p)',
         NEW x \in Slot, x # p, st'[x] = st[x], share'[x] = share[x], pgdir'[x] = pgdir[x], job'[x] = job[x],
         share[x] # share[p] => sz'[share[x]] = sz[share[x]] /\ limit'[share[x]] = limit[share[x]],
         \A y \in Slot : y # p /\ job[y].op \in {"sbrk", "spawn"} => job'[y] = job[y] /\ share'[y] = share[y],
         \A d \in Spaces : d # pgdir[p] /\ (p \in Builders => d # job[p].dir) => Same(m', m, d)
  PROVE  Thread(x)'
<1>1. CASE share[x] = share[p]
  <2>1. job'[x] = NoJob
    BY <1>1 DEF Alone, MInv, Calls
  <2>2. CASE st[x] = "run"
    BY <1>1, <2>1, <2>2, Relative
  <2>3. CASE st[x] # "run"
    BY <2>1, <2>3, IdleThread
  <2>. QED  BY <2>2, <2>3
<1>2. CASE share[x] # share[p]
  <2>1. \A y \in Slot : job[y].op \in {"sbrk", "spawn"} /\ share[y] = share[x] =>
                           job'[y] = job[y] /\ share'[y] = share[y]
    BY <1>2
  <2>. QED  BY <1>2, <2>1, Elsewhere
<1>. QED  BY <1>1, <1>2

\* The address spaces, when the call of one thread changes.
LEMMA SpacesAre ==
  ASSUME MInv, NEW p \in Slot, Owners' = Owners, pgdir' = pgdir, NEW j, job' = [job EXCEPT ![p] = j]
  PROVE  Spaces' = (Spaces \ {job[x].dir : x \in Builders \cap {p}}) \cup {job'[x].dir : x \in Builders' \cap {p}}
<1>1. job'[p] = j /\ \A x \in Slot : x # p => job'[x] = job[x]
  BY Sound
<1>2. Spaces' = {pgdir'[x] : x \in Owners'} \cup {job'[x].dir : x \in Builders'}
  BY DEF Spaces, Owners, Builders, Building
<1>3. Spaces = {pgdir[x] : x \in Owners} \cup {job[x].dir : x \in Builders}
  BY Where
<1>4. \A x \in Slot : x # p => (x \in Builders' <=> x \in Builders)
  BY <1>1 DEF Builders
<1>5. Builders \subseteq Slot /\ Builders' \subseteq Slot
  BY DEF Builders
<1>6. /\ \A x \in Builders, y \in Owners : job[x].dir # pgdir[y]
      /\ \A x, y \in Builders : job[x].dir = job[y].dir => x = y
  BY DEF MInv, Calls
<1>7. {job'[x].dir : x \in Builders'} = {job[x].dir : x \in Builders \ {p}} \cup {job'[x].dir : x \in Builders' \cap {p}}
  BY <1>1, <1>4, <1>5
<1>8. {pgdir[x] : x \in Owners} \cup {job[x].dir : x \in Builders \ {p}} = Spaces \ {job[x].dir : x \in Builders \cap {p}}
  BY <1>3, <1>6
<1>. QED  BY <1>2, <1>7, <1>8

LEMMA Step ==
  ASSUME MInv, NEW p \in Slot, st[p] = "run", Alone(p),
         UNCHANGED <<project, pgdir, share, parent, head, panicked>>,
         NEW c \in Slot \cup {0}, c # p, st' \in [Slot -> {"unused", "embryo", "run", "zombie"}],
         c # 0 => st[c] \in {"unused", "embryo"} /\ st'[c] \in {"unused", "embryo"},
         kstack' \in [Slot -> Frame \cup {0}], \A x \in Slot : x # c => st'[x] = st[x] /\ kstack'[x] = kstack[x],
         NEW j \in JobType, job' = [job EXCEPT ![p] = j], j.op = "no" => j = NoJob,
         c # 0 => \A x \in Slot : x # p => job[x].child # c,
         IF j.op \in {"fork", "spawn"} THEN j.child = c /\ c # 0 /\ st'[c] = "embryo" ELSE j.child = 0,
         j.op \in Building => j.dir \notin Spaces \/ (p \in Builders /\ j.dir = job[p].dir),
         j.op \in Execing => job[p].op \in Execing,
         sz' \in [Slot -> Nat], limit' \in [Slot -> Nat], project = 1 => limit' = limit,
         \A x \in Slot : x # share[p] => sz'[x] = sz[x] /\ limit'[x] = limit[x],
         \A d \in Spaces : d # pgdir[p] /\ (p \in Builders => d # job[p].dir) => Same(m', m, d),
         Framed', Thread(p)'
  PROVE  MInv'
<1>1. job \in [Slot -> JobType] /\ share \in [Slot -> Slot]
  BY DEF MInv, MemTypes
<1>2. job'[p] = j /\ \A x \in Slot : x # p => job'[x] = job[x]
  BY <1>1
<1>3. MemTypes'
  BY <1>1 DEF MInv, MemTypes
<1>4. \A x \in Slot : (st[x] \in {"run", "zombie"} \/ st'[x] \in {"run", "zombie"}) => st'[x] = st[x]
  <2>. TAKE x \in Slot
  <2>1. CASE x = c
    <3>1. c # 0
      BY <2>1, Numbers
    <3>. QED  BY <2>1, <3>1
  <2>. QED  BY <2>1
<1>5. Owners' = Owners
  BY <1>4 DEF Owners
<1>6. Families'
  <2>1. Families
    BY DEF MInv
  <2>2. project = 1 => \A x \in Slot : share[x] = x /\ limit'[x] = 0 /\ (st'[x] \in {"run", "zombie"} => head[x] = x)
    BY <1>4, <2>1 DEF Families
  <2>3. \A x \in Slot : st'[x] \in {"run", "zombie"} =>
          st'[share[x]] \in {"run", "zombie"} /\ share[share[x]] = share[x]
    BY <1>1, <1>4, <2>1 DEF Families
  <2>4. \A x \in Slot : st'[x] = "run" =>
          head[share[x]] \in Slot /\ st'[head[share[x]]] = "run" /\ share[head[share[x]]] = share[x] /\ pgdir[head[share[x]]] = pgdir[x]
    BY <1>4, <2>1 DEF Families
  <2>. QED  BY <1>5, <2>1, <2>2, <2>3, <2>4 DEF Families
<1>7. Builders \subseteq Slot /\ \A x \in Slot : x # p => (x \in Builders' <=> x \in Builders)
  BY <1>2 DEF Builders
<1>8. p \in Builders' => j.dir \notin Spaces \/ (p \in Builders /\ j.dir = job[p].dir)
  BY <1>2 DEF Builders
<1>9. Calls'
  <2>1. Calls
    BY DEF MInv
  <2>2. /\ \A x \in Slot : job'[x].op = "no" => job'[x] = NoJob
        /\ \A x \in Slot : job'[x].op # "no" => st'[x] = "run"
    BY <1>2, <1>4, <2>1 DEF Calls
  <2>3. \A x, y \in Slot : job'[x].op # "no" /\ job'[y].op # "no" /\ share'[x] = share'[y] => x = y
    BY <1>2, <2>1 DEF Calls, Alone
  <2>4. ASSUME NEW x \in Slot
        PROVE  IF job'[x].op \in {"fork", "spawn"} THEN st'[job'[x].child] = "embryo" /\ job'[x].child # 0
               ELSE job'[x].child = 0
    <3>1. CASE x = p
      BY <1>2, <3>1
    <3>2. CASE x # p
      <4>1. job[x].child \in Slot \cup {0} /\ job'[x] = job[x]
        BY <1>1, <1>2, <3>2 DEF JobType
      <4>2. job[x].child # 0 => job[x].child # c
        BY <3>2
      <4>3. job[x].child # 0 => st'[job[x].child] = st[job[x].child]
        BY <4>1, <4>2
      <4>. QED  BY <2>1, <4>1, <4>3 DEF Calls
    <3>. QED  BY <3>1, <3>2
  <2>5. \A x, y \in Slot : job'[x].child # 0 /\ job'[x].child = job'[y].child => x = y
    BY <1>2, <2>1 DEF Calls
  <2>6. \A x \in Builders', y \in Owners' : job'[x].dir # pgdir'[y]
    <3>. TAKE x \in Builders', y \in Owners'
    <3>1. pgdir[y] \in Spaces
      BY <1>5, Where
    <3>2. x \in Slot
      BY DEF Builders
    <3>. QED  BY <1>2, <1>5, <1>7, <1>8, <2>1, <3>1, <3>2 DEF Calls
  <2>7. \A x, y \in Builders' : job'[x].dir = job'[y].dir => x = y
    <3>1. \A x \in Builders : job[x].dir \in Spaces
      BY Where
    <3>2. Builders' \subseteq Slot
      BY DEF Builders
    <3>. QED  BY <1>2, <1>7, <1>8, <2>1, <3>1, <3>2 DEF Calls
  <2>8. \A x, y \in Slot : job'[x].op \in Execing /\ st'[y] = "run" /\ share'[y] = share'[x] => y = x
    BY <1>2, <1>4, <2>1 DEF Calls
  <2>. QED  BY <2>2, <2>3, <2>4, <2>5, <2>6, <2>7, <2>8 DEF Calls
<1>10. ASSUME NEW x \in Slot PROVE Thread(x)'
  <2>1. CASE x = p
    BY <2>1
  <2>2. CASE x # p /\ x = c
    <3>1. st[x] # "run" /\ st'[x] # "run"
      BY <2>2, Numbers
    <3>2. job'[x] = NoJob
      BY <1>2, <2>2, <3>1 DEF MInv, Calls
    <3>. QED  BY <3>1, <3>2, IdleThread
  <2>3. CASE x # p /\ x # c
    <3>1. share[x] \in Slot
      BY <1>1
    <3>2. st'[p] = "run" /\ st'[x] = st[x] /\ job'[x] = job[x]
      BY <1>2, <2>3
    <3>3. share[x] # share[p] => sz'[share[x]] = sz[share[x]] /\ limit'[share[x]] = limit[share[x]]
      BY <3>1
    <3>. QED  BY <1>2, <1>6, <2>3, <3>2, <3>3, Bystander
  <2>. QED  BY <2>1, <2>2, <2>3
<1>. QED  BY <1>3, <1>6, <1>9, <1>10 DEF MInv

\* allocproc(): a slot that nothing else is making, and a frame for its kernel stack.
LEMMA AllocProc ==
  ASSUME MInv, CanAlloc, NEW c, c = NewSlot, NEW k, k = kalloc(m), NEW w, w = WithStack
  PROVE  /\ c \in Slot /\ c # 0 /\ st[c] = "unused" /\ (\A x \in Slot : job[x].child # c)
         /\ k \in m.free /\ k \in Frame
         /\ Good(w, Spaces, KStacks \cup {k})
         /\ AllUsed(m, Spaces, KStacks) => AllUsed(w, Spaces, KStacks \cup {k})
         /\ w.space = m.space /\ Untouched(w, m) /\ w.free \subseteq m.free
<1>1. c \in Slot /\ st[c] = "unused"
  <2>1. {x \in Slot : st[x] = "unused"} \in SUBSET Nat /\ {x \in Slot : st[x] = "unused"} # {}
    BY Numbers, Zenon DEF CanAlloc
  <2>2. c \in {x \in Slot : st[x] = "unused"}
    BY <2>1, LowestIn DEF NewSlot
  <2>. QED  BY <2>2
<1>2. c # 0 /\ \A x \in Slot : job[x].child # c
  <2>1. c # 0
    BY <1>1, Numbers
  <2>. QED  BY <1>1, <2>1 DEF MInv, Calls
<1>3. Good(m, Spaces, KStacks) /\ m \in MemType /\ m.free \subseteq Frame
  BY Sound DEF MemType
<1>4. k \in m.free /\ k \in Frame
  <2>1. m.free \in SUBSET Nat /\ m.free # {}
    BY <1>3, Numbers, Zenon DEF CanAlloc, Out
  <2>. QED  BY <1>3, <2>1, LowestIn DEF kalloc
<1>5. /\ w \in MemType /\ w.frames = m.frames /\ w.free = m.free \ {k} /\ w.space = m.space
      /\ w.content = [m.content EXCEPT ![k] = Zero]
  <2>1. w = Took(m, k, Zero)
    BY DEF WithStack
  <2>. QED  BY <1>3, <1>4, <2>1, Values, TookIs
<1>6. Good(w, Spaces, KStacks \cup {k}) /\ (AllUsed(m, Spaces, KStacks) => AllUsed(w, Spaces, KStacks \cup {k}))
  BY <1>3, <1>4, <1>5, GoodTake, Zenon
<1>7. Untouched(w, m)
  BY <1>3, <1>4, <1>5 DEF Untouched, MemType
<1>. QED  BY <1>1, <1>2, <1>4, <1>5, <1>6, <1>7

LEMMA StackTaken ==
  ASSUME MInv, NEW c \in Slot, st[c] = "unused", NEW k \in Frame, k \in m.free,
         st' = [st EXCEPT ![c] = "embryo"], kstack' = [kstack EXCEPT ![c] = k]
  PROVE  /\ KStacks' = KStacks \cup {k}
         /\ st' \in [Slot -> {"unused", "embryo", "run", "zombie"}] /\ st'[c] = "embryo"
         /\ kstack' \in [Slot -> Frame \cup {0}]
         /\ \A x \in Slot : x # c => st'[x] = st[x] /\ kstack'[x] = kstack[x]
         /\ \A x, y \in InUse' : kstack'[x] = kstack'[y] => x = y
         /\ Owners' = {x \in Slot : st[x] = "run" \/ (st[x] = "zombie" /\ head'[share'[x]] = x)}
<1>1. /\ st' \in [Slot -> {"unused", "embryo", "run", "zombie"}] /\ st'[c] = "embryo"
      /\ kstack' \in [Slot -> Frame \cup {0}] /\ kstack'[c] = k
      /\ \A x \in Slot : x # c => st'[x] = st[x] /\ kstack'[x] = kstack[x]
  BY DEF MInv, MemTypes
<1>2. InUse' = InUse \cup {c} /\ c \notin InUse /\ InUse \subseteq Slot
  BY <1>1 DEF InUse
<1>3. KStacks = {kstack[x] : x \in InUse} /\ KStacks' = {kstack'[x] : x \in InUse'}
  BY DEF KStacks, InUse
<1>4. KStacks' = KStacks \cup {k}
  BY <1>1, <1>2, <1>3
<1>5. \A x \in InUse : kstack[x] # k
  BY Where
<1>6. \A x, y \in InUse' : kstack'[x] = kstack'[y] => x = y
  BY <1>1, <1>2, <1>5 DEF MInv, Framed
<1>7. Owners' = {x \in Slot : st[x] = "run" \/ (st[x] = "zombie" /\ head'[share'[x]] = x)}
  BY <1>1 DEF Owners
<1>. QED  BY <1>1, <1>4, <1>6, <1>7

\* A slot goes back, and its kernel stack.
LEMMA StackGiven ==
  ASSUME MInv, NEW c \in Slot, st[c] = "embryo", st' = [st EXCEPT ![c] = "unused"], kstack' = kstack
  PROVE  /\ KStacks' = KStacks \ {kstack[c]} /\ kstack[c] \in KStacks /\ kstack[c] \in Frame
         /\ st' \in [Slot -> {"unused", "embryo", "run", "zombie"}] /\ st'[c] = "unused"
         /\ kstack' \in [Slot -> Frame \cup {0}]
         /\ \A x \in Slot : x # c => st'[x] = st[x]
         /\ \A x, y \in InUse' : kstack'[x] = kstack'[y] => x = y
         /\ Owners' = {x \in Slot : st[x] = "run" \/ (st[x] = "zombie" /\ head'[share'[x]] = x)}
<1>1. /\ st' \in [Slot -> {"unused", "embryo", "run", "zombie"}] /\ st'[c] = "unused"
      /\ kstack' \in [Slot -> Frame \cup {0}] /\ \A x \in Slot : x # c => st'[x] = st[x]
  BY DEF MInv, MemTypes
<1>2. InUse' = InUse \ {c} /\ c \in InUse /\ InUse \subseteq Slot
  BY <1>1 DEF InUse
<1>3. KStacks = {kstack[x] : x \in InUse} /\ KStacks' = {kstack[x] : x \in InUse'}
  BY DEF KStacks, InUse
<1>4. \A x, y \in InUse : kstack[x] = kstack[y] => x = y
  BY DEF MInv, Framed
<1>5. KStacks' = KStacks \ {kstack[c]} /\ kstack[c] \in KStacks
  BY <1>2, <1>3, <1>4
<1>6. kstack[c] \in Frame
  BY <1>2, Where
<1>7. Owners' = {x \in Slot : st[x] = "run" \/ (st[x] = "zombie" /\ head'[share'[x]] = x)}
  BY <1>1 DEF Owners
<1>. QED  BY <1>1, <1>2, <1>4, <1>5, <1>6, <1>7

LEMMA ForkStartStep ==
  ASSUME MInv, torn = "no", torn' = "no", NEW p \in Slot, ForkStart(p)
  PROVE  MInv'
<1>. DEFINE c == NewSlot
            k == kalloc(m)
            w == WithStack
            s == setupkvm(w)
            d == pgdir[p]
            size == sz[share[p]]
            j == [NoJob EXCEPT !.op = "fork", !.at = "copy", !.dir = s.dir, !.to = size, !.child = c]
<1>1. /\ Runs(p) /\ CanAlloc /\ KernelFits(w) /\ m' = s.x /\ Tears(p)
      /\ st' = [st EXCEPT ![c] = "embryo"] /\ kstack' = [kstack EXCEPT ![c] = k]
      /\ job' = [job EXCEPT ![p] = j]
      /\ UNCHANGED <<project, pgdir, share, sz, limit, parent, head, panicked>>
  BY DEF ForkStart
<1>2. Alone(p)
  BY <1>1, TearsAlone DEF Runs
<1>3. /\ st[p] = "run" /\ job[p] = NoJob /\ d \in Spaces /\ d \in Frame /\ p \notin Builders /\ share[p] \in Slot
      /\ Exact(m, d, PagesOf(size)) /\ size < KERNBASE /\ size \in Nat /\ PagesOf(size) \in Nat
      /\ limit[share[p]] # 0 => size < limit[share[p]] + PGSIZE
  BY <1>1, <1>2, RunsExact
<1>4. /\ c \in Slot /\ c # 0 /\ st[c] = "unused" /\ (\A x \in Slot : job[x].child # c)
      /\ k \in m.free /\ k \in Frame
      /\ Good(w, Spaces, KStacks \cup {k})
      /\ AllUsed(m, Spaces, KStacks) => AllUsed(w, Spaces, KStacks \cup {k})
      /\ w.space = m.space /\ Untouched(w, m) /\ w.free \subseteq m.free
  BY <1>1, AllocProc
<1>5. w.free # {}
  <2>1. Cardinality({}) = 0
    BY FS_EmptySet
  <2>2. Cardinality(w.free) > KTAB /\ KTAB \in Nat
    BY <1>1, Numbers DEF KernelFits
  <2>. QED  BY <2>1, <2>2
<1>. HIDE DEF c, k, w
<1>6. /\ s.dir \in w.free /\ s.dir \notin Spaces /\ s.dir \in Frame
      /\ Good(m', Spaces \cup {s.dir}, KStacks \cup {k})
      /\ AllUsed(w, Spaces, KStacks \cup {k}) => AllUsed(m', Spaces \cup {s.dir}, KStacks \cup {k})
      /\ \A e \in Spaces \cup {0} : m'.space[e] = w.space[e]
      /\ Exact(m', s.dir, 0)
      /\ m'.content = w.content
      /\ m'.free \subseteq w.free
  <2>1. Good(w, Spaces, KStacks \cup {k}) /\ s = setupkvm(w) /\ m' = s.x
    BY <1>1, <1>4
  <2>. HIDE DEF s
  <2>. QED  BY <1>5, <2>1, setupkvmIs
<1>. HIDE DEF s
<1>7. Good(m, Spaces, KStacks) /\ sz \in [Slot -> Nat] /\ limit \in [Slot -> Nat] /\ job \in [Slot -> JobType] /\ m.space[0] = NoSpace
  BY Sound
<1>8. Untouched(m', m)
  <2>1. m \in MemType /\ m'.content = w.content /\ w.free \subseteq m.free
    BY <1>4, <1>6, <1>7 DEF Good
  <2>. QED  BY <1>4, <2>1 DEF Untouched
<1>9. \A e \in Spaces : Same(m', m, e)
  <2>. TAKE e \in Spaces
  <2>1. e \in Spaces \cap (Spaces \cup {s.dir}) /\ m'.space[e] = m.space[e]
    BY <1>4, <1>6
  <2>2. Good(m', Spaces \cup {s.dir}, KStacks \cup {k})
    BY <1>6
  <2>. QED  BY <1>7, <1>8, <2>1, <2>2, SameContent
<1>10. /\ j \in JobType /\ j.op = "fork" /\ j.at = "copy" /\ j.dir = s.dir /\ j.to = size /\ j.child = c /\ j.a = 0
  <2>1. j = [NoJob EXCEPT !.op = "fork", !.at = "copy", !.dir = s.dir, !.to = size, !.child = c]
    OBVIOUS
  <2>2. s.dir \in Frame /\ size \in Nat /\ c \in Slot
    BY <1>3, <1>4, <1>6
  <2>. HIDE DEF j, size
  <2>3. /\ j.op = "fork" /\ j.at = "copy" /\ j.dir = s.dir /\ j.to = size /\ j.child = c /\ j.a = NoJob.a
        /\ j.old = NoJob.old /\ j.prog = NoJob.prog /\ j.stack = NoJob.stack
        /\ j = [op |-> j.op, at |-> j.at, dir |-> j.dir, a |-> j.a, old |-> j.old, to |-> j.to,
                child |-> j.child, prog |-> j.prog, stack |-> j.stack]
    BY <2>1, NoJobIs, Zenon DEF JobType
  <2>4. j \in JobType
    BY <2>2, <2>3, NoJobIs DEF JobType
  <2>. QED  BY <2>3, <2>4, NoJobIs
<1>. HIDE DEF j
<1>11. job'[p] = j
  BY <1>1, <1>7
<1>12. /\ KStacks' = KStacks \cup {k}
       /\ st' \in [Slot -> {"unused", "embryo", "run", "zombie"}] /\ st'[c] = "embryo"
       /\ kstack' \in [Slot -> Frame \cup {0}]
       /\ \A x \in Slot : x # c => st'[x] = st[x] /\ kstack'[x] = kstack[x]
       /\ \A x, y \in InUse' : kstack'[x] = kstack'[y] => x = y
       /\ Owners' = Owners
  <2>1. Owners = {x \in Slot : st[x] = "run" \/ (st[x] = "zombie" /\ head[share[x]] = x)}
    BY DEF Owners
  <2>. QED  BY <1>1, <1>4, <2>1, StackTaken, Zenon
<1>13. Spaces' = Spaces \cup {s.dir}
  <2>1. p \in Builders'
    BY <1>10, <1>11 DEF Builders, Building
  <2>2. Spaces' = (Spaces \ {job[x].dir : x \in Builders \cap {p}}) \cup {job'[x].dir : x \in Builders' \cap {p}}
    BY <1>1, <1>12, SpacesAre, Zenon
  <2>. QED  BY <1>3, <1>10, <1>11, <2>1, <2>2
<1>14. Framed'
  <2>1. project = 1 => AllUsed(m, Spaces, KStacks)
    BY DEF MInv, Framed
  <2>2. m'.space[0] = NoSpace
    BY <1>4, <1>6, <1>7
  <2>. QED  BY <1>1, <1>4, <1>6, <1>12, <1>13, <2>1, <2>2 DEF Framed
<1>15. Thread(p)'
  <2>1. Exact(m', d, PagesOf(size))
    BY <1>3, <1>9 DEF Exact, Same
  <2>2. 0 \div PGSIZE = 0 /\ 0 * PGSIZE = 0
    BY Numbers
  <2>3. Progress(p)'
    BY <1>1, <1>3, <1>6, <1>10, <1>11, <2>1, <2>2 DEF Progress, AllocOps
  <2>4. Sized(p)'
    BY <1>1, <1>3, <2>1 DEF Sized
  <2>5. Limited(p)'
    BY <1>1, <1>3, <1>10, <1>11, SMTT(30) DEF Limited, Execing
  <2>6. Copied(p)'
    <3>1. \A v \in Page : ~(v < 0)
      BY PageNat
    <3>. QED  BY <1>10, <1>11, <2>2, <3>1 DEF Copied, Execing
  <2>. QED  BY <2>3, <2>4, <2>5, <2>6 DEF Thread
<1>16. c # p /\ j.op # "no" /\ j.op \notin Execing
  BY <1>3, <1>4, <1>10 DEF Execing
<1>17. \A e \in Spaces : e # pgdir[p] /\ (p \in Builders => e # job[p].dir) => Same(m', m, e)
  BY <1>9
<1>18. /\ c \in Slot \cup {0} /\ c # p
       /\ c # 0 => st[c] \in {"unused", "embryo"} /\ st'[c] \in {"unused", "embryo"}
       /\ c # 0 => \A x \in Slot : x # p => job[x].child # c
       /\ IF j.op \in {"fork", "spawn"} THEN j.child = c /\ c # 0 /\ st'[c] = "embryo" ELSE j.child = 0
  BY <1>4, <1>10, <1>12, <1>16
<1>19. j \in JobType /\ (j.op = "no" => j = NoJob) /\ (j.op \in Execing => job[p].op \in Execing)
       /\ (j.op \in Building => j.dir \notin Spaces \/ (p \in Builders /\ j.dir = job[p].dir))
  BY <1>6, <1>10, <1>16
<1>20. /\ sz' \in [Slot -> Nat] /\ limit' \in [Slot -> Nat] /\ (project = 1 => limit' = limit)
       /\ \A x \in Slot : x # share[p] => sz'[x] = sz[x] /\ limit'[x] = limit[x]
  BY <1>1, <1>7
<1>21. st[p] = "run" /\ job' = [job EXCEPT ![p] = j] /\ UNCHANGED <<project, pgdir, share, parent, head, panicked>>
  BY <1>1, <1>3
<1>. QED  BY <1>2, <1>12, <1>14, <1>15, <1>17, <1>18, <1>19, <1>20, <1>21, Step, Zenon

LEMMA SpawnStartStep ==
  ASSUME MInv, torn = "no", torn' = "no", NEW p \in Slot, SpawnStart(p)
  PROVE  MInv'
<1>. DEFINE c == NewSlot
            k == kalloc(m)
            s == share[p]
            d == pgdir[p]
            old == PGROUNDUP(sz[s])
            i == [NoJob EXCEPT !.child = c]
            j == Alloc(i, "spawn", d, old, old + 2 * PGSIZE)
<1>1. /\ project = 2 /\ Runs(p) /\ ~OverLimit(s) /\ CanAlloc /\ m' = WithStack /\ Tears(p)
      /\ st' = [st EXCEPT ![c] = "embryo"] /\ kstack' = [kstack EXCEPT ![c] = k]
      /\ job' = [job EXCEPT ![p] = j]
      /\ UNCHANGED <<project, pgdir, share, sz, limit, parent, head, panicked>>
  BY DEF SpawnStart
<1>2. Alone(p)
  BY <1>1, TearsAlone DEF Runs
<1>3. /\ st[p] = "run" /\ job[p] = NoJob /\ d \in Spaces /\ d \in Frame /\ p \notin Builders /\ s \in Slot
      /\ Exact(m, d, PagesOf(sz[s])) /\ sz[s] < KERNBASE /\ sz[s] \in Nat /\ PagesOf(sz[s]) \in Nat
      /\ limit[s] \in Nat
      /\ limit[s] # 0 => sz[s] < limit[s] + PGSIZE
  BY <1>1, <1>2, RunsExact
<1>4. /\ c \in Slot /\ c # 0 /\ st[c] = "unused" /\ (\A x \in Slot : job[x].child # c)
      /\ k \in m.free /\ k \in Frame
      /\ Good(m', Spaces, KStacks \cup {k})
      /\ AllUsed(m, Spaces, KStacks) => AllUsed(m', Spaces, KStacks \cup {k})
      /\ m'.space = m.space /\ Untouched(m', m)
  BY <1>1, AllocProc
<1>. HIDE DEF c, k
<1>5. Good(m, Spaces, KStacks) /\ sz \in [Slot -> Nat] /\ limit \in [Slot -> Nat] /\ job \in [Slot -> JobType] /\ m.space[0] = NoSpace
  BY Sound
<1>6. /\ old \in Nat /\ sz[s] <= old /\ old < sz[s] + PGSIZE /\ old + 2 * PGSIZE \in Nat
      /\ PagesOf(old) = PagesOf(sz[s])
  <2>1. old \in Nat /\ sz[s] <= old /\ old < sz[s] + PGSIZE
    BY <1>3, PagesBelow
  <2>2. PagesOf(old) = PagesOf(sz[s])
    BY <1>3, RoundedPages
  <2>. HIDE DEF old
  <2>. QED  BY <2>1, <2>2, Numbers
<1>7. i \in JobType /\ i.child = c
  <2>1. i = [NoJob EXCEPT !.child = c]
    OBVIOUS
  <2>. HIDE DEF i
  <2>2. i.op = NoJob.op /\ i.at = NoJob.at /\ i.dir = NoJob.dir /\ i.a = NoJob.a /\ i.old = NoJob.old /\ i.to = NoJob.to
        /\ i.child = c /\ i.prog = NoJob.prog /\ i.stack = NoJob.stack
        /\ i = [op |-> i.op, at |-> i.at, dir |-> i.dir, a |-> i.a, old |-> i.old, to |-> i.to,
                child |-> i.child, prog |-> i.prog, stack |-> i.stack]
    BY <2>1, NoJobIs DEF JobType
  <2>. QED  BY <1>4, <2>2, NoJobIs DEF JobType
<1>. HIDE DEF i
<1>8. /\ j \in JobType /\ j.op = "spawn" /\ j.dir = d /\ j.old = old /\ j.child = c
      /\ j.to = old + 2 * PGSIZE /\ j.at \in {"alloc", "failed"}
      /\ j.at = "alloc" => /\ j.a \div PGSIZE = PagesOf(old) /\ PagesOf(old) <= PagesOf(j.to)
                           /\ j.a = (j.a \div PGSIZE) * PGSIZE /\ j.to < KERNBASE
  <2>1. "spawn" \in AllocOps
    BY DEF AllocOps
  <2>2. old \in Nat /\ old + 2 * PGSIZE \in Nat /\ old <= old + 2 * PGSIZE /\ ~(old + 2 * PGSIZE < old)
    BY <1>6, Numbers
  <2>3. d \in Frame /\ j = Alloc(i, "spawn", d, old, old + 2 * PGSIZE)
    BY <1>3
  <2>. HIDE DEF j, old, d
  <2>. QED  BY <1>7, <2>1, <2>2, <2>3, AllocIs
<1>. HIDE DEF j
<1>9. job'[p] = j
  BY <1>1, <1>5
<1>10. \A e \in Spaces : Same(m', m, e)
  <2>. TAKE e \in Spaces
  <2>1. Good(m', Spaces, KStacks \cup {k}) /\ m'.space[e] = m.space[e] /\ Untouched(m', m) /\ e \in Spaces \cap Spaces
    BY <1>4
  <2>. QED  BY <1>5, <2>1, SameContent
<1>11. /\ KStacks' = KStacks \cup {k}
       /\ st' \in [Slot -> {"unused", "embryo", "run", "zombie"}] /\ st'[c] = "embryo"
       /\ kstack' \in [Slot -> Frame \cup {0}]
       /\ \A x \in Slot : x # c => st'[x] = st[x] /\ kstack'[x] = kstack[x]
       /\ \A x, y \in InUse' : kstack'[x] = kstack'[y] => x = y
       /\ Owners' = Owners
  <2>1. Owners = {x \in Slot : st[x] = "run" \/ (st[x] = "zombie" /\ head[share[x]] = x)}
    BY DEF Owners
  <2>. QED  BY <1>1, <1>4, <2>1, StackTaken, Zenon
<1>12. Spaces' = Spaces
  <2>1. p \notin Builders'
    BY <1>8, <1>9 DEF Builders, Building
  <2>2. Spaces' = (Spaces \ {job[x].dir : x \in Builders \cap {p}}) \cup {job'[x].dir : x \in Builders' \cap {p}}
    BY <1>1, <1>11, SpacesAre, Zenon
  <2>. QED  BY <1>3, <2>1, <2>2
<1>13. Framed'
  <2>1. project = 1 => AllUsed(m, Spaces, KStacks)
    BY DEF MInv, Framed
  <2>. QED  BY <1>1, <1>4, <1>5, <1>11, <1>12, <2>1 DEF Framed
<1>14. Thread(p)'
  <2>1. Exact(m', d, PagesOf(sz[s]))
    BY <1>3, <1>4 DEF Exact
  <2>2. j.at = "alloc" => PagesOf(j.old) <= j.a \div PGSIZE
    BY <1>3, <1>6, <1>8
  <2>3. Progress(p)'
    BY <1>1, <1>6, <1>8, <1>9, <2>1, <2>2 DEF Progress, AllocOps
  <2>4. Sized(p)'
    BY <1>1, <1>3, <1>8, <1>9 DEF Sized
  <2>5. Limited(p)'
    <3>1. limit[s] # 0 => sz[s] + 2 * PGSIZE <= limit[s]
      BY <1>1, <1>3, Numbers DEF OverLimit
    <3>2. limit[s] # 0 => old + 2 * PGSIZE < limit[s] + PGSIZE
      <4>. HIDE DEF old
      <4>. QED  BY <1>3, <1>6, <3>1, Numbers, SMTT(30)
    <3>. QED  BY <1>1, <1>3, <1>8, <1>9, <3>2 DEF Limited, Execing
  <2>6. Copied(p)'
    BY <1>8, <1>9 DEF Copied, Execing
  <2>. QED  BY <2>3, <2>4, <2>5, <2>6 DEF Thread
<1>15. c # p /\ j.op # "no" /\ j.op \notin Execing /\ j.op \notin Building
  BY <1>3, <1>4, <1>8 DEF Execing, Building
<1>16. \A e \in Spaces : e # pgdir[p] /\ (p \in Builders => e # job[p].dir) => Same(m', m, e)
  BY <1>10
<1>17. /\ c \in Slot \cup {0} /\ c # p
       /\ c # 0 => st[c] \in {"unused", "embryo"} /\ st'[c] \in {"unused", "embryo"}
       /\ c # 0 => \A x \in Slot : x # p => job[x].child # c
       /\ IF j.op \in {"fork", "spawn"} THEN j.child = c /\ c # 0 /\ st'[c] = "embryo" ELSE j.child = 0
  BY <1>4, <1>8, <1>11, <1>15
<1>18. j \in JobType /\ (j.op = "no" => j = NoJob) /\ (j.op \in Execing => job[p].op \in Execing)
       /\ (j.op \in Building => j.dir \notin Spaces \/ (p \in Builders /\ j.dir = job[p].dir))
  BY <1>8, <1>15
<1>19. /\ sz' \in [Slot -> Nat] /\ limit' \in [Slot -> Nat] /\ (project = 1 => limit' = limit)
       /\ \A x \in Slot : x # share[p] => sz'[x] = sz[x] /\ limit'[x] = limit[x]
  BY <1>1, <1>5
<1>20. st[p] = "run" /\ job' = [job EXCEPT ![p] = j] /\ UNCHANGED <<project, pgdir, share, parent, head, panicked>>
  BY <1>1, <1>3
<1>. QED  BY <1>2, <1>11, <1>13, <1>14, <1>16, <1>17, <1>18, <1>19, <1>20, Step, Zenon

\* The same for the end of a call: p has none.
LEMMA CallEnds ==
  ASSUME MInv, NEW p \in Slot, job[p].op # "no",
         UNCHANGED <<project, pgdir, share, sz, limit, parent, head, panicked>>,
         NEW c \in Slot \cup {0}, c = job[p].child, st' \in [Slot -> {"unused", "embryo", "run", "zombie"}],
         c # 0 => st'[c] = "unused", \A x \in Slot : x # c => st'[x] = st[x], kstack' = kstack,
         job' = [job EXCEPT ![p] = NoJob],
         \A d \in Spaces : d # pgdir[p] /\ (p \in Builders => d # job[p].dir) => Same(m', m, d),
         Framed', Exact(m', pgdir[p], PagesOf(sz[share[p]])) \/ Exact(m', pgdir[p], 0)
  PROVE  MInv'
<1>1. st[p] = "run" /\ Alone(p)
  BY InCallAlone
<1>2. /\ c # p /\ (c # 0 => st[c] = "embryo") /\ (c # 0 => \A x \in Slot : x # p => job[x].child # c)
  BY <1>1, Numbers DEF MInv, Calls
<1>3. sz \in [Slot -> Nat] /\ limit \in [Slot -> Nat] /\ job \in [Slot -> JobType]
  BY Sound
<1>4. kstack' \in [Slot -> Frame \cup {0}]
  BY DEF MInv, MemTypes
<1>5. job'[p] = NoJob
  BY <1>3
<1>6. Thread(p)'
  <2>1. Sized(p) /\ Limited(p)
    BY DEF MInv, Thread
  <2>2. Sized(p)'
    BY <1>1, <2>1 DEF Sized
  <2>3. limit'[share'[p]] # 0 => sz'[share'[p]] < limit'[share'[p]] + PGSIZE
    BY <1>1, <2>1 DEF Limited
  <2>. QED  BY <1>5, <2>2, <2>3, IdleRunner
<1>7. /\ c # 0 => st[c] \in {"unused", "embryo"} /\ st'[c] \in {"unused", "embryo"}
      /\ \A x \in Slot : x # c => st'[x] = st[x] /\ kstack'[x] = kstack[x]
      /\ IF NoJob.op \in {"fork", "spawn"} THEN NoJob.child = c /\ c # 0 /\ st'[c] = "embryo" ELSE NoJob.child = 0
  BY <1>2, NoJobIs
<1>8. NoJob \in JobType /\ (NoJob.op = "no" => NoJob = NoJob) /\ (NoJob.op \in Execing => job[p].op \in Execing)
       /\ (NoJob.op \in Building => NoJob.dir \notin Spaces \/ (p \in Builders /\ NoJob.dir = job[p].dir))
  BY NoJobIs DEF Execing, Building
<1>9. /\ sz' \in [Slot -> Nat] /\ limit' \in [Slot -> Nat] /\ (project = 1 => limit' = limit)
      /\ \A x \in Slot : x # share[p] => sz'[x] = sz[x] /\ limit'[x] = limit[x]
  BY <1>3
<1>. QED  BY <1>1, <1>2, <1>4, <1>6, <1>7, <1>8, <1>9, Step, Zenon

LEMMA ExecBadStep ==
  ASSUME MInv, torn = "no", torn' = "no", NEW p \in Slot, ExecBad(p)
  PROVE  MInv'
<1>. DEFINE d == job[p].dir
            size == sz[share[p]]
<1>1. /\ job[p].op \in {"segment", "stack"} /\ m' = freevm(m, d) /\ job' = [job EXCEPT ![p] = NoJob]
      /\ UNCHANGED <<project, st, kstack, pgdir, share, sz, limit, parent, head, panicked>>
  BY DEF ExecBad, Goes, Idle
<1>2. job[p].op \in Execing
  BY <1>1 DEF Execing
<1>3. /\ st[p] = "run" /\ Alone(p) /\ p \in Builders /\ d \in Spaces /\ d \in Frame /\ d # pgdir[p]
      /\ pgdir[p] \in Spaces /\ job[p].child = 0
  BY <1>2, ExecAt
<1>4. Good(m, Spaces, KStacks) /\ job \in [Slot -> JobType] /\ m.space[0] = NoSpace
      /\ st \in [Slot -> {"unused", "embryo", "run", "zombie"}]
  BY Sound
<1>5. /\ Good(m', Spaces \ {d}, KStacks)
      /\ AllUsed(m, Spaces, KStacks) => AllUsed(m', Spaces \ {d}, KStacks)
      /\ \A e \in Frame \cup {0} : e # d => m'.space[e] = m.space[e]
      /\ Untouched(m', m)
  <2>1. d \in Spaces /\ m' = freevm(m, d)
    BY <1>1, <1>3
  <2>. HIDE DEF d
  <2>. QED  BY ONLY <1>4, <2>1, freevmIs
<1>6. \A e \in Spaces : e # d => Same(m', m, e)
  <2>1. Good(m', Spaces \ {d}, KStacks)
    BY <1>5
  <2>. HIDE DEF d
  <2>2. \A e \in Spaces \cap (Spaces \ {d}) : e # d => Same(m', m, e)
    BY <1>4, <1>5, <2>1, OthersSame
  <2>. QED  BY <2>2
<1>7. Owners' = Owners /\ KStacks' = KStacks /\ InUse' = InUse
  BY <1>1 DEF Owners, KStacks, InUse
<1>8. Spaces' = Spaces \ {d}
  <2>1. p \notin Builders'
    <3>1. job'[p] = NoJob
      BY <1>1, <1>4
    <3>. QED  BY <3>1, NoJobIs DEF Builders, Building
  <2>2. Spaces' = (Spaces \ {job[x].dir : x \in Builders \cap {p}}) \cup {job'[x].dir : x \in Builders' \cap {p}}
    BY <1>1, <1>7, SpacesAre, Zenon
  <2>. QED  BY <1>3, <2>1, <2>2
<1>9. Framed'
  <2>1. (project = 1 => AllUsed(m, Spaces, KStacks)) /\ \A x, y \in InUse : kstack[x] = kstack[y] => x = y
    BY DEF MInv, Framed
  <2>2. m'.space[0] = NoSpace
    BY <1>3, <1>4, <1>5, Numbers
  <2>. QED  BY <1>1, <1>5, <1>7, <1>8, <2>1, <2>2 DEF Framed
<1>10. Exact(m', pgdir[p], PagesOf(size)) \/ Exact(m', pgdir[p], 0)
  <2>1. \A y \in Slot : job[y].op \in {"sbrk", "spawn"} => share[y] # share[p]
    BY <1>2, <1>3 DEF Alone, Execing
  <2>2. Exact(m, pgdir[p], PagesOf(size)) \/ Exact(m, pgdir[p], 0)
    BY <1>3, <2>1 DEF MInv, Thread, Sized
  <2>3. Same(m', m, pgdir[p])
    BY <1>3, <1>6
  <2>. QED  BY <2>2, <2>3, Zenon DEF Exact, Same
<1>11. \A e \in Spaces : e # pgdir[p] /\ (p \in Builders => e # job[p].dir) => Same(m', m, e)
  BY <1>3, <1>6
<1>12. job[p].op # "no"
  BY <1>1
<1>. QED  BY <1>1, <1>3, <1>4, <1>9, <1>10, <1>11, <1>12, CallEnds, Zenon

\* Where a thread in fork() is.
LEMMA ForkAt ==
  ASSUME MInv, NEW p \in Slot, job[p].op = "fork", NEW n, n = job[p].a \div PGSIZE
  PROVE  /\ st[p] = "run" /\ Alone(p) /\ p \in Owners /\ p \in Builders /\ job[p] \in JobType
         /\ job[p].dir \in Spaces /\ job[p].dir \in Frame /\ job[p].dir # pgdir[p]
         /\ pgdir[p] \in Spaces /\ pgdir[p] \in Frame
         /\ job[p].child \in Slot /\ job[p].child # 0 /\ st[job[p].child] = "embryo"
         /\ share[p] \in Slot /\ sz[share[p]] \in Nat /\ sz[share[p]] < KERNBASE /\ PagesOf(sz[share[p]]) \in Nat
         /\ job[p].at = "copy" /\ job[p].to = sz[share[p]] /\ Exact(m, pgdir[p], PagesOf(sz[share[p]]))
         /\ Exact(m, job[p].dir, n) /\ n <= PagesOf(sz[share[p]]) /\ n \in Nat /\ job[p].a \in Nat
         /\ job[p].a = n * PGSIZE
         /\ job[p].a >= job[p].to => n = PagesOf(sz[share[p]])
         /\ job[p].a < job[p].to => /\ n \in Page /\ m.space[job[p].dir].pte[n].f = 0
                                    /\ m.space[pgdir[p]].pte[n].f # 0 /\ n + 1 <= PagesOf(sz[share[p]])
         /\ (job[p].a + PGSIZE) \div PGSIZE = n + 1 /\ job[p].a + PGSIZE = (n + 1) * PGSIZE
         /\ job[p].a + PGSIZE \in Nat
         /\ limit[share[p]] # 0 => sz[share[p]] < limit[share[p]] + PGSIZE
<1>. DEFINE j == job[p]
            size == sz[share[p]]
<1>1. st[p] = "run" /\ Alone(p)
  BY InCallAlone
<1>2. p \in Builders /\ p \in Owners /\ pgdir[p] \in Spaces /\ pgdir[p] \in Frame
  BY <1>1, Where DEF Builders, Building
<1>3. j.dir \in Spaces /\ j.dir \in Frame /\ j.dir # pgdir[p]
  BY <1>2, Where DEF MInv, Calls
<1>4. j \in JobType /\ j.a \in Nat /\ share[p] \in Slot /\ size \in Nat /\ j.child \in Slot \cup {0}
  BY Sound DEF JobType
<1>5. j.child # 0 /\ st[j.child] = "embryo"
  BY DEF MInv, Calls
<1>6. Progress(p) /\ Limited(p) /\ Sized(p)
  BY DEF MInv, Thread
<1>7. /\ j.at = "copy" /\ j.to = size /\ Exact(m, pgdir[p], PagesOf(size)) /\ Exact(m, j.dir, n)
      /\ n <= PagesOf(size) /\ j.a = n * PGSIZE /\ size < KERNBASE
      /\ limit[share[p]] # 0 => size < limit[share[p]] + PGSIZE
  BY <1>1, <1>6 DEF Progress, Limited, Sized
<1>8. n \in Nat /\ PagesOf(size) \in Nat /\ (n < PagesOf(size) <=> n * PGSIZE < size)
  BY <1>4, PgDiv, PagesBelow
<1>9. j.a >= j.to => n = PagesOf(size)
  BY <1>4, <1>7, <1>8, SMTT(30)
<1>10. ASSUME j.a < j.to
       PROVE  n \in Page /\ m.space[j.dir].pte[n].f = 0 /\ m.space[pgdir[p]].pte[n].f # 0 /\ n + 1 <= PagesOf(size)
  <2>1. n * PGSIZE < KERNBASE
    BY <1>4, <1>7, <1>10, Numbers
  <2>2. n \in Page
    BY <1>8, <2>1, PageBelow
  <2>3. n < PagesOf(size)
    BY <1>7, <1>8, <1>10
  <2>4. m.space[j.dir].pte[n].f = 0 /\ m.space[pgdir[p]].pte[n].f # 0
    <3>1. Exact(m, pgdir[p], PagesOf(size)) /\ Exact(m, j.dir, n) /\ n \in Nat
      BY <1>7, <1>8
    <3>. HIDE DEF j, size
    <3>. QED  BY ONLY <2>2, <2>3, <3>1 DEF Exact
  <2>5. n + 1 <= PagesOf(size)
    BY <1>8, <2>3
  <2>. QED  BY <2>2, <2>4, <2>5
<1>11. j.a + PGSIZE = (n + 1) * PGSIZE /\ n + 1 \in Nat /\ j.a + PGSIZE \in Nat
  BY <1>4, <1>7, <1>8, PgMul, Numbers
<1>12. (j.a + PGSIZE) \div PGSIZE = n + 1
  BY <1>11, PgOf
<1>. QED  BY <1>1, <1>2, <1>3, <1>4, <1>5, <1>7, <1>8, <1>9, <1>10, <1>11, <1>12, Zenon

\* The page that fork() copies next.
LEMMA ForkPage ==
  ASSUME MInv, NEW p \in Slot, job[p].op = "fork", job[p].a < job[p].to, NEW n, n = job[p].a \div PGSIZE
  PROVE  /\ n \in Page /\ m.space[job[p].dir].pte[n].f = 0
         /\ m.space[pgdir[p]].pte[n].f # 0 /\ m.space[pgdir[p]].pte[n].f \in Frame
         /\ m.space[pgdir[p]].pte[n].u \in BOOLEAN /\ m.space[pgdir[p]].pte[n] # Absent
         /\ m.content[m.space[pgdir[p]].pte[n].f] \in Int
<1>1. n \in Page /\ m.space[job[p].dir].pte[n].f = 0 /\ m.space[pgdir[p]].pte[n].f # 0 /\ pgdir[p] \in Frame
  BY ForkAt, SMTT(30)
<1>2. m \in MemType
  BY Sound, SMTT(30)
<1>3. m.space[pgdir[p]].pte[n].f \in Frame /\ m.space[pgdir[p]].pte[n].u \in BOOLEAN
  BY <1>1, <1>2, Parts, SMTT(30)
<1>4. m.content[m.space[pgdir[p]].pte[n].f] \in Int
  BY <1>2, <1>3 DEF MemType
<1>5. Absent.f = 0
  BY DEF Absent
<1>. QED  BY <1>1, <1>3, <1>4, <1>5, ZenonT(60)

\* A page for the child of fork(), or no memory for it.
LEMMA CopyPage ==
  ASSUME MInv, NEW p \in Slot, job[p].op = "fork", job[p].a < job[p].to, NEW n, n = job[p].a \div PGSIZE,
         NEW c \in Int, NEW u \in BOOLEAN, NEW r, r = NewPage(m, job[p].dir, n, c, u)
  PROVE  /\ Untouched(r.x, m)
         /\ \/ r.res = "ok" /\ \E f : Paged(r.x, m, job[p].dir, n, f, u) /\ r.x.content[f] = c
            \/ /\ r.res = "full"
               /\ r.x \in MemType /\ r.x.frames = m.frames /\ r.x.space = m.space /\ r.x.free = m.free
<1>. DEFINE d == job[p].dir
<1>1. n \in Page /\ m.space[d].pte[n].f = 0
  BY ForkPage
<1>2. d \in Spaces
  BY ForkAt
<1>3. Good(m, Spaces, KStacks)
  BY Sound
<1>4. r = NewPage(m, d, n, c, u)
  OBVIOUS
<1>5. /\ Untouched(r.x, m)
      /\ \/ r.res = "ok" /\ \E f : Paged(r.x, m, d, n, f, u) /\ r.x.content[f] = c
         \/ /\ r.res = "full"
            /\ r.x \in MemType /\ r.x.frames = m.frames /\ r.x.space = m.space /\ r.x.free = m.free
  <2>. HIDE DEF d
  <2>. QED  BY <1>1, <1>2, <1>3, <1>4, NewPageIs
<1>. QED  BY <1>5, ZenonT(60)

\* Page v of d is a copy, in frame f, of the one of e.
Copies(y, x, d, e, v, f) ==
  /\ y.space[d].pte[v].u = x.space[e].pte[v].u
  /\ y.content[f] = x.content[x.space[e].pte[v].f]

LEMMA CopiesIs ==
  ASSUME NEW x \in MemType, NEW d \in Frame, NEW v \in Page, NEW e, NEW f, NEW y,
         Paged(y, x, d, v, f, x.space[e].pte[v].u), y.content[f] = x.content[x.space[e].pte[v].f]
  PROVE  Copies(y, x, d, e, v, f)
<1>1. x.space[d].pte \in [Page -> [f : Frame \cup {0}, u : BOOLEAN]]
  BY DEF MemType, SpaceType
<1>2. y.space[d].pte = [x.space[d].pte EXCEPT ![v] = [f |-> f, u |-> x.space[e].pte[v].u]]
  BY Zenon DEF Paged
<1>3. y.space[d].pte[v] = [f |-> f, u |-> x.space[e].pte[v].u]
  BY <1>1, <1>2
<1>4. y.space[d].pte[v].u = x.space[e].pte[v].u
  BY <1>3
<1>. QED  BY <1>4, Zenon DEF Copies

\* fork() copies the next page,
LEMMA CopyOk ==
  ASSUME MInv, NEW p \in Slot, job[p].op = "fork", job[p].a < job[p].to, NEW n, n = job[p].a \div PGSIZE,
         NEW f, NEW u \in BOOLEAN, Paged(m', m, job[p].dir, n, f, u), Untouched(m', m),
         Copies(m', m, job[p].dir, pgdir[p], n, f),
         job' = [job EXCEPT ![p].a = @ + PGSIZE],
         UNCHANGED <<project, st, kstack, pgdir, share, sz, limit, parent, head, panicked>>
  PROVE  MInv'
<1>. DEFINE d == job[p].dir
            j == [job[p] EXCEPT !.a = @ + PGSIZE]
            size == sz[share[p]]
<1>1. /\ st[p] = "run" /\ Alone(p) /\ p \in Builders /\ job[p] \in JobType
      /\ d \in Spaces /\ d \in Frame /\ d # pgdir[p] /\ pgdir[p] \in Spaces /\ pgdir[p] \in Frame
      /\ share[p] \in Slot /\ size < KERNBASE /\ size \in Nat
      /\ job[p].at = "copy" /\ job[p].to = size /\ Exact(m, pgdir[p], PagesOf(size)) /\ Exact(m, d, n)
      /\ n \in Nat /\ (job[p].a + PGSIZE) \div PGSIZE = n + 1 /\ job[p].a + PGSIZE = (n + 1) * PGSIZE
      /\ job[p].a + PGSIZE \in Nat /\ n + 1 <= PagesOf(size)
      /\ limit[share[p]] # 0 => size < limit[share[p]] + PGSIZE
  BY ForkAt, SMTT(30)
<1>2. n \in Page /\ m.space[d].pte[n].f = 0
  BY ForkPage
<1>3. Good(m, Spaces, KStacks) /\ job \in [Slot -> JobType] /\ sz \in [Slot -> Nat] /\ limit \in [Slot -> Nat] /\ m \in MemType
  BY Sound
<1>4. /\ j \in JobType /\ j.op = "fork" /\ j.dir = d /\ j.at = "copy"
      /\ j.to = job[p].to /\ j.child = job[p].child /\ j.a = job[p].a + PGSIZE
  BY <1>1, Zenon DEF JobType
<1>5. job' = [job EXCEPT ![p] = j]
  OBVIOUS
<1>6. Paged(m', m, d, n, f, u)
  OBVIOUS
<1>. HIDE DEF j, d
<1>7. Good(m', Spaces, KStacks) /\ (AllUsed(m, Spaces, KStacks) => AllUsed(m', Spaces, KStacks))
  BY <1>1, <1>2, <1>3, <1>6, GoodPaged
<1>8. \A e \in Frame \cup {0} : e # d => m'.space[e] = m.space[e]
  BY <1>6 DEF Paged
<1>9. m'.space[0] = m.space[0]
  BY <1>1, <1>8, Numbers
<1>10. \A e \in Spaces : e # d => Same(m', m, e)
  <2>1. \A e \in Spaces \cap Spaces : e # d => Same(m', m, e)
    BY <1>3, <1>7, <1>8, OthersSame, Zenon
  <2>. QED  BY <2>1
<1>11. OnePage(m', m, d, n, f) /\ Exact(m', d, n + 1)
  BY <1>1, <1>2, <1>3, <1>6, PagedContent
<1>12. Same(m', m, pgdir[p])
  BY <1>1, <1>10
<1>13. job'[p] = j
  BY <1>3, <1>5, SMTT(30)
<1>14. Copied(p)'
  <2>. SUFFICES ASSUME NEW v \in Page, v < n + 1
                PROVE  /\ m'.space[d].pte[v].u = m'.space[pgdir[p]].pte[v].u
                       /\ m'.content[m'.space[d].pte[v].f] = m'.content[m'.space[pgdir[p]].pte[v].f]
    BY <1>1, <1>4, <1>13, ZenonT(60) DEF Copied, Execing
  <2>1. m'.space[pgdir[p]] = m.space[pgdir[p]]
    BY <1>12 DEF Same
  <2>2. m.space[pgdir[p]].pte[v].f # 0 /\ v \in Nat
    <3>1. v \in Nat /\ PagesOf(size) \in Nat
      BY <1>1, PageNat, PagesBelow
    <3>2. v < PagesOf(size)
      BY <1>1, <3>1, SMTT(30)
    <3>. QED  BY <1>1, <3>1, <3>2 DEF Exact
  <2>3. m'.content[m'.space[pgdir[p]].pte[v].f] = m.content[m.space[pgdir[p]].pte[v].f]
    BY <1>12, <2>1, <2>2, SMTT(30) DEF Same
  <2>4. CASE v = n
    <3>1. m'.space[d].pte[n].f = f
      BY <1>11 DEF OnePage
    <3>2. /\ m'.space[d].pte[n].u = m.space[pgdir[p]].pte[n].u
          /\ m'.content[f] = m.content[m.space[pgdir[p]].pte[n].f]
      BY Zenon DEF Copies, d
    <3>. QED  BY <2>1, <2>3, <2>4, <3>1, <3>2, ZenonT(60)
  <2>5. CASE v # n
    <3>1. v < n
      BY <1>1, <2>2, <2>5
    <3>2. Copied(p)
      BY DEF MInv, Thread
    <3>3. m.space[d].pte[v].u = m.space[pgdir[p]].pte[v].u
      BY <3>1, <3>2, Zenon DEF Copied, d
    <3>4. m.content[m.space[d].pte[v].f] = m.content[m.space[pgdir[p]].pte[v].f]
      BY <3>1, <3>2, ZenonT(60) DEF Copied, d
    <3>5. m'.space[d].pte[v] = m.space[d].pte[v] /\ m.space[d].pte[v].f # 0
      BY <1>1, <1>11, <2>5, <3>1, SMTT(30) DEF OnePage, Exact
    <3>6. m'.content[m.space[d].pte[v].f] = m.content[m.space[d].pte[v].f]
      BY <1>11, <2>5, <3>5, SMTT(30) DEF OnePage
    <3>. QED  BY <2>1, <2>3, <3>3, <3>4, <3>5, <3>6, Zenon
  <2>. QED  BY <2>4, <2>5, SMTT(30)
<1>15. Thread(p)'
  <2>1. Exact(m', pgdir[p], PagesOf(size))
    BY <1>1, <1>12 DEF Exact, Same
  <2>2. Progress(p)'
    BY <1>1, <1>4, <1>11, <1>13, <2>1, Zenon DEF Progress, AllocOps
  <2>3. Sized(p)'
    BY <1>1, <2>1 DEF Sized
  <2>4. Limited(p)'
    BY <1>1, <1>4, <1>13 DEF Limited, Execing
  <2>. QED  BY <1>14, <2>2, <2>3, <2>4, SMTT(30) DEF Thread
<1>16. \A e \in Spaces : e # pgdir[p] /\ (p \in Builders => e # job[p].dir) => Same(m', m, e)
  BY <1>1, <1>10 DEF d
<1>17. /\ j.op \in Building \/ job[p].op \in Building =>
            j.op \in Building /\ job[p].op \in Building /\ j.dir = job[p].dir
       /\ j.op \in Execing => job[p].op \in Execing
       /\ IF j.op \in {"fork", "spawn"} THEN job[p].op \in {"fork", "spawn"} /\ j.child = job[p].child ELSE j.child = 0
       /\ j.op = "no" => j = NoJob
  BY <1>4 DEF d, Building
<1>18. /\ sz' \in [Slot -> Nat] /\ limit' \in [Slot -> Nat] /\ (project = 1 => limit' = limit)
       /\ \A x \in Slot : x # share[p] => sz'[x] = sz[x] /\ limit'[x] = limit[x]
  BY <1>3
<1>19. st[p] = "run" /\ Alone(p) /\ j \in JobType
  BY <1>1, <1>4
<1>. QED  BY <1>5, <1>7, <1>9, <1>15, <1>16, <1>17, <1>18, <1>19, Local, Zenon

\* or gives everything back.
LEMMA CopyFull ==
  ASSUME MInv, NEW p \in Slot, job[p].op = "fork", NEW z \in MemType,
         z.frames = m.frames, z.space = m.space, z.free = m.free, Untouched(z, m),
         m' = Returned(z, job[p].child, job[p].dir), st' = [st EXCEPT ![job[p].child] = "unused"],
         job' = [job EXCEPT ![p] = NoJob],
         UNCHANGED <<project, kstack, pgdir, share, sz, limit, parent, head, panicked>>
  PROVE  MInv'
<1>. DEFINE d == job[p].dir
            c == job[p].child
            k == kstack[c]
            size == sz[share[p]]
            y == freevm(z, d)
<1>1. /\ st[p] = "run" /\ Alone(p) /\ p \in Builders /\ c \in Slot /\ c # 0 /\ st[c] = "embryo"
      /\ d \in Spaces /\ d \in Frame /\ d # pgdir[p] /\ pgdir[p] \in Spaces /\ pgdir[p] \in Frame
      /\ Exact(m, pgdir[p], PagesOf(size))
  BY ForkAt
<1>2. Good(m, Spaces, KStacks) /\ job \in [Slot -> JobType] /\ m \in MemType /\ m.space[0] = NoSpace
  BY Sound
<1>3. Good(z, Spaces, KStacks) /\ (AllUsed(m, Spaces, KStacks) => AllUsed(z, Spaces, KStacks))
  BY <1>2, GoodContent
<1>4. /\ KStacks' = KStacks \ {k} /\ k \in KStacks /\ k \in Frame
      /\ st' \in [Slot -> {"unused", "embryo", "run", "zombie"}] /\ st'[c] = "unused"
      /\ \A x \in Slot : x # c => st'[x] = st[x]
      /\ \A x, w \in InUse' : kstack'[x] = kstack'[w] => x = w
      /\ Owners' = Owners
  <2>1. Owners = {x \in Slot : st[x] = "run" \/ (st[x] = "zombie" /\ head[share[x]] = x)}
    BY DEF Owners
  <2>. QED  BY <1>1, <2>1, StackGiven, Zenon
<1>5. m' = kfree(y, {k})
  BY DEF Returned
<1>6. /\ Good(y, Spaces \ {d}, KStacks)
      /\ AllUsed(z, Spaces, KStacks) => AllUsed(y, Spaces \ {d}, KStacks)
      /\ \A e \in Frame \cup {0} : e # d => y.space[e] = m.space[e]
      /\ Untouched(y, z)
  <2>1. d \in Spaces /\ y = freevm(z, d)
    BY <1>1
  <2>. HIDE DEF d, y
  <2>. QED  BY <1>3, <2>1, freevmIs
<1>. HIDE DEF y, k, c
<1>7. /\ m' \in MemType /\ m'.frames = y.frames /\ m'.free = y.free \cup {k} /\ m'.space = y.space
      /\ \A g \in Frame : m'.content[g] = IF g \in {k} THEN Junk ELSE y.content[g]
  <2>1. y \in MemType /\ {k} \in SUBSET Frame
    BY <1>4, <1>6 DEF Good
  <2>. QED  BY <1>5, <2>1, kfreeIs
<1>8. Good(m', Spaces \ {d}, KStacks \ {k}) /\ (AllUsed(y, Spaces \ {d}, KStacks) => AllUsed(m', Spaces \ {d}, KStacks \ {k}))
  <2>1. {k} \in SUBSET KStacks /\ Good(y, Spaces \ {d}, KStacks)
    BY <1>4, <1>6
  <2>. HIDE DEF d
  <2>. QED  BY <1>7, <2>1, GoodGive, Zenon
<1>9. Untouched(m', m)
  BY <1>6, <1>7 DEF Untouched
<1>10. \A e \in Spaces : e # d => Same(m', m, e)
  <2>1. Good(m', Spaces \ {d}, KStacks \ {k})
    BY <1>8
  <2>2. \A e \in Frame \cup {0} : e # d => m'.space[e] = m.space[e]
    BY <1>6, <1>7
  <2>. HIDE DEF d
  <2>3. \A e \in Spaces \cap (Spaces \ {d}) : e # d => Same(m', m, e)
    BY <1>2, <1>9, <2>1, <2>2, OthersSame
  <2>. QED  BY <2>3
<1>11. Spaces' = Spaces \ {d}
  <2>1. p \notin Builders'
    <3>1. job'[p] = NoJob
      BY <1>2
    <3>. QED  BY <3>1, NoJobIs DEF Builders, Building
  <2>2. Spaces' = (Spaces \ {job[x].dir : x \in Builders \cap {p}}) \cup {job'[x].dir : x \in Builders' \cap {p}}
    BY <1>4, SpacesAre, Zenon
  <2>. QED  BY <1>1, <2>1, <2>2
<1>12. Framed'
  <2>1. project = 1 => AllUsed(m, Spaces, KStacks)
    BY DEF MInv, Framed
  <2>2. m'.space[0] = NoSpace
    BY <1>1, <1>2, <1>6, <1>7, Numbers, SMTT(30)
  <2>. QED  BY <1>3, <1>4, <1>6, <1>8, <1>11, <2>1, <2>2 DEF Framed
<1>13. Exact(m', pgdir[p], PagesOf(size))
  <2>1. Same(m', m, pgdir[p])
    BY <1>1, <1>10
  <2>. QED  BY <1>1, <2>1 DEF Exact, Same
<1>14. \A e \in Spaces : e # pgdir[p] /\ (p \in Builders => e # job[p].dir) => Same(m', m, e)
  BY <1>1, <1>10
<1>15. job[p].op # "no" /\ c \in Slot \cup {0} /\ c = job[p].child
  BY <1>1 DEF c
<1>16. /\ Exact(m', pgdir[p], PagesOf(sz[share[p]])) \/ Exact(m', pgdir[p], 0)
       /\ c # 0 => st'[c] = "unused"
       /\ st' \in [Slot -> {"unused", "embryo", "run", "zombie"}] /\ \A x \in Slot : x # c => st'[x] = st[x]
  BY <1>4, <1>13
<1>17. UNCHANGED <<project, pgdir, share, sz, limit, parent, head, panicked>> /\ kstack' = kstack /\ job' = [job EXCEPT ![p] = NoJob]
  OBVIOUS
<1>18. Framed' /\ p \in Slot /\ job[p].op # "no" /\ c \in Slot \cup {0} /\ c = job[p].child
  BY <1>12, <1>15
<1>. HIDE DEF d, size
<1>. QED  BY ONLY MInv, <1>14, <1>16, <1>17, <1>18, CallEnds, Zenon

LEMMA copyuvmStep ==
  ASSUME MInv, torn = "no", torn' = "no", NEW p \in Slot, copyuvm(p)
  PROVE  MInv'
<1>. DEFINE d == job[p].dir
            n == job[p].a \div PGSIZE
            e == m.space[pgdir[p]].pte[n]
            u == e.u
            c == m.content[e.f]
            r == NewPage(m, d, n, c, u)
            z == r.x
<1>1. /\ job[p].op = "fork" /\ job[p].a < job[p].to
      /\ UNCHANGED <<project, kstack, pgdir, share, sz, limit, parent, head>>
      /\ \/ e = Absent
         \/ r.res = "ok" /\ m' = z /\ job' = [job EXCEPT ![p].a = @ + PGSIZE] /\ UNCHANGED <<st, panicked>>
         \/ /\ r.res = "full" /\ m' = Returned(z, job[p].child, d) /\ st' = [st EXCEPT ![job[p].child] = "unused"]
            /\ job' = [job EXCEPT ![p] = NoJob] /\ UNCHANGED panicked
  BY Zenon DEF copyuvm, Goes, Idle
<1>2. n \in Page /\ e # Absent /\ u \in BOOLEAN /\ c \in Int /\ d \in Frame /\ m \in MemType
  <2>1. n \in Page /\ e # Absent /\ u \in BOOLEAN /\ c \in Int
    BY <1>1, ForkPage, ZenonT(60)
  <2>2. d \in Frame
    BY <1>1, ForkAt, Zenon
  <2>3. m \in MemType
    BY Sound, SMTT(30)
  <2>. QED  BY <2>1, <2>2, <2>3, Zenon
<1>3. /\ Untouched(z, m)
      /\ \/ r.res = "ok" /\ \E f : Paged(z, m, d, n, f, u) /\ z.content[f] = c
         \/ /\ r.res = "full"
            /\ z \in MemType /\ z.frames = m.frames /\ z.space = m.space /\ z.free = m.free
  <2>1. r = NewPage(m, job[p].dir, n, c, u)
    OBVIOUS
  <2>. HIDE DEF r, c, u, e
  <2>. QED  BY <1>1, <1>2, <2>1, CopyPage
<1>4. CASE r.res = "ok" /\ m' = z /\ job' = [job EXCEPT ![p].a = @ + PGSIZE] /\ UNCHANGED <<st, panicked>>
  <2>1. PICK f : Paged(m', m, d, n, f, u) /\ m'.content[f] = c
    BY <1>3, <1>4, Zenon
  <2>2. Copies(m', m, d, pgdir[p], n, f)
    <3>1. Paged(m', m, d, n, f, m.space[pgdir[p]].pte[n].u) /\ m'.content[f] = m.content[m.space[pgdir[p]].pte[n].f]
      BY <2>1, Zenon
    <3>. HIDE DEF d, n
    <3>. QED  BY <1>2, <3>1, CopiesIs, Zenon
  <2>3. Untouched(m', m)
    BY <1>3, <1>4, Zenon
  <2>4. UNCHANGED <<project, st, kstack, pgdir, share, sz, limit, parent, head, panicked>>
    BY <1>1, <1>4, Zenon
  <2>. HIDE DEF r, c, u, e, z
  <2>. QED  BY <1>1, <1>2, <1>4, <2>1, <2>2, <2>3, <2>4, CopyOk, ZenonT(60)
<1>5. CASE /\ r.res = "full" /\ m' = Returned(z, job[p].child, d) /\ st' = [st EXCEPT ![job[p].child] = "unused"]
           /\ job' = [job EXCEPT ![p] = NoJob] /\ UNCHANGED panicked
  <2>1. z \in MemType /\ z.frames = m.frames /\ z.space = m.space /\ z.free = m.free /\ Untouched(z, m)
    BY <1>3, <1>5, Zenon
  <2>2. m' = Returned(z, job[p].child, job[p].dir)
    BY <1>5, Zenon
  <2>. HIDE DEF r, c, u, e, z
  <2>. QED  BY <1>1, <1>5, <2>1, <2>2, CopyFull, ZenonT(60)
<1>. QED  BY <1>1, <1>2, <1>4, <1>5, Zenon

\* fork() and thread_create() end with a new thread, in a family of its own or in
\* that of its maker.
LEMMA Born ==
  ASSUME MInv, NEW p \in Slot, job[p].op \in {"fork", "spawn"}, NEW c, c = job[p].child,
         NEW s \in Slot, job[p].op = "fork" => s = c /\ head' = [head EXCEPT ![c] = c] /\ limit' = [limit EXCEPT ![c] = 0],
         job[p].op = "spawn" => s = share[p] /\ head' = head /\ limit' = limit,
         st' = [st EXCEPT ![c] = "run"], kstack' = kstack, pgdir' = [pgdir EXCEPT ![c] = job[p].dir],
         share' = [share EXCEPT ![c] = s],
         job' = [job EXCEPT ![p] = NoJob], project' = project, panicked' = panicked,
         parent' \in [Slot -> Slot \cup {0}], sz' \in [Slot -> Nat],
         \A x \in Slot : x # s => sz'[x] = sz[x],
         Good(m', Spaces, KStacks), AllUsed(m, Spaces, KStacks) => AllUsed(m', Spaces, KStacks),
         m'.space[0] = m.space[0],
         \A d \in Spaces : d # pgdir[p] /\ (p \in Builders => d # job[p].dir) => Same(m', m, d),
         Thread(p)', Thread(c)'
  PROVE  MInv'
<1>1. st[p] = "run" /\ Alone(p)
  BY InCallAlone
<1>2. /\ st \in [Slot -> {"unused", "embryo", "run", "zombie"}] /\ share \in [Slot -> Slot] /\ job \in [Slot -> JobType]
      /\ pgdir \in [Slot -> Frame \cup {0}] /\ head \in [Slot -> Slot \cup {0}] /\ limit \in [Slot -> Nat]
      /\ kstack \in [Slot -> Frame \cup {0}] /\ project \in {1, 2} /\ panicked = "no"
  BY DEF MInv, MemTypes
<1>3. c \in Slot /\ st[c] = "embryo" /\ c # p /\ \A x \in Slot : x # p => job[x].child # c
  <2>1. job[p].child \in Slot \cup {0}
    BY <1>2 DEF JobType
  <2>2. c # 0 /\ st[c] = "embryo"
    BY DEF MInv, Calls
  <2>. QED  BY <1>1, <2>1, <2>2 DEF MInv, Calls
<1>4. /\ job[p].op = "fork" => p \in Builders
      /\ job[p].op = "spawn" => p \notin Builders /\ job[p].dir = pgdir[p] /\ project = 2
  <2>1. Progress(p)
    BY DEF MInv, Thread
  <2>. QED  BY <2>1 DEF Progress, Builders, Building
<1>5. /\ st'[c] = "run" /\ pgdir'[c] = job[p].dir /\ share'[c] = s
      /\ \A x \in Slot : x # c => st'[x] = st[x] /\ pgdir'[x] = pgdir[x] /\ share'[x] = share[x]
      /\ \A x \in Slot : x # c => head'[x] = head[x] /\ limit'[x] = limit[x]
      /\ job[p].op = "fork" => head'[c] = c /\ limit'[c] = 0
      /\ job[p].op = "spawn" => head' = head /\ limit' = limit
      /\ job'[p] = NoJob /\ \A x \in Slot : x # p => job'[x] = job[x]
  BY <1>2, <1>3
<1>6. MemTypes'
  <2>1. job[p].dir \in Frame \cup {0}
    BY <1>2 DEF JobType
  <2>2. head' \in [Slot -> Slot \cup {0}] /\ limit' \in [Slot -> Nat]
    <3>1. CASE job[p].op = "fork"
      BY <1>2, <1>3, <3>1
    <3>2. CASE job[p].op = "spawn"
      BY <1>2, <3>2
    <3>. QED  BY <3>1, <3>2
  <2>3. /\ st' \in [Slot -> {"unused", "embryo", "run", "zombie"}] /\ share' \in [Slot -> Slot]
        /\ pgdir' \in [Slot -> Frame \cup {0}] /\ job' \in [Slot -> JobType]
    BY <1>2, <1>3, <2>1, NoJobIs, Zenon
  <2>. QED  BY <1>2, <2>2, <2>3 DEF MemTypes
<1>7. Families /\ Calls
  BY DEF MInv
<1>8. \A x \in Slot : st[x] \in {"run", "zombie"} => share[x] # c /\ x # c
  BY <1>3, <1>7 DEF Families
<1>9. Owners' = Owners \cup {c} /\ c \notin Owners /\ Owners \subseteq Slot /\ p \in Owners
  BY <1>1, <1>2, <1>3, <1>5, <1>8 DEF Owners
<1>10. Builders' = Builders \ {p} /\ Builders \subseteq Slot
  BY <1>5, NoJobIs DEF Builders, Building
<1>11. Spaces' = Spaces
  <2>1. Spaces' = {pgdir'[x] : x \in Owners'} \cup {job'[x].dir : x \in Builders'}
    BY DEF Spaces, Owners, Builders, Building
  <2>2. Spaces = {pgdir[x] : x \in Owners} \cup {job[x].dir : x \in Builders}
    BY Where
  <2>3. {pgdir'[x] : x \in Owners'} = {pgdir[x] : x \in Owners} \cup {job[p].dir}
    BY <1>5, <1>9
  <2>4. {job'[x].dir : x \in Builders'} = {job[x].dir : x \in Builders \ {p}}
    BY <1>5, <1>10
  <2>5. CASE job[p].op = "fork"
    <3>1. {job[x].dir : x \in Builders} = {job[x].dir : x \in Builders \ {p}} \cup {job[p].dir}
      BY <1>4, <2>5
    <3>. QED  BY <2>1, <2>2, <2>3, <2>4, <3>1, Zenon
  <2>6. CASE job[p].op = "spawn"
    <3>1. Builders \ {p} = Builders /\ job[p].dir = pgdir[p]
      BY <1>4, <2>6
    <3>2. {job'[x].dir : x \in Builders'} = {job[x].dir : x \in Builders}
      BY <2>4, <3>1, Zenon
    <3>3. job[p].dir \in {pgdir[x] : x \in Owners}
      BY <1>9, <3>1
    <3>4. {pgdir'[x] : x \in Owners'} = {pgdir[x] : x \in Owners}
      BY <2>3, <3>3, Zenon
    <3>. QED  BY <2>1, <2>2, <3>2, <3>4, Zenon
  <2>. QED  BY <2>5, <2>6
<1>12. InUse' = InUse /\ KStacks' = KStacks
  <2>1. InUse' = InUse
    BY <1>3, <1>5 DEF InUse
  <2>. QED  BY <2>1 DEF KStacks, InUse
<1>13. Framed'
  BY <1>11, <1>12 DEF MInv, Framed
<1>14. Families'
  <2>1. project = 1 => \A x \in Slot : /\ share'[x] = x /\ limit'[x] = 0
                                       /\ st'[x] \in {"run", "zombie"} => head'[x] = x
    BY <1>4, <1>5, <1>7 DEF Families
  <2>2. \A x \in Slot : st'[x] \in {"run", "zombie"} =>
          st'[share'[x]] \in {"run", "zombie"} /\ share'[share'[x]] = share'[x]
    <3>. SUFFICES ASSUME NEW x \in Slot, st'[x] \in {"run", "zombie"}
                  PROVE  st'[share'[x]] \in {"run", "zombie"} /\ share'[share'[x]] = share'[x]
      OBVIOUS
    <3>1. CASE x # c
      BY <1>2, <1>5, <1>7, <1>8, <3>1 DEF Families
    <3>2. CASE x = c
      BY <1>1, <1>2, <1>3, <1>5, <1>7, <1>8, <3>2 DEF Families
    <3>. QED  BY <3>1, <3>2
  <2>3. ASSUME NEW x \in Slot, st'[x] = "run"
        PROVE  /\ head'[share'[x]] \in Slot /\ st'[head'[share'[x]]] = "run"
               /\ share'[head'[share'[x]]] = share'[x] /\ pgdir'[head'[share'[x]]] = pgdir'[x]
    <3>1. CASE x # c
      BY <1>2, <1>5, <1>7, <1>8, <2>3, <3>1 DEF Families
    <3>2. CASE x = c /\ job[p].op = "fork"
      BY <1>3, <1>5, <3>2
    <3>3. CASE x = c /\ job[p].op = "spawn"
      <4>1. /\ head[share[p]] \in Slot /\ st[head[share[p]]] = "run" /\ share[head[share[p]]] = share[p]
            /\ pgdir[head[share[p]]] = pgdir[p]
        BY <1>1, <1>7 DEF Families
      <4>2. head[share[p]] # c
        BY <1>3, <4>1
      <4>. QED  BY <1>4, <1>5, <3>3, <4>1, <4>2
    <3>. QED  BY <3>1, <3>2, <3>3
  <2>4. ASSUME NEW x \in Owners', NEW y \in Owners', pgdir'[x] = pgdir'[y] PROVE share'[x] = share'[y]
    <3>0. \A z \in Owners : job[p].op = "fork" => job[p].dir # pgdir[z]
      BY <1>4, <1>7 DEF Calls
    <3>1. \A z, w \in Owners : pgdir[z] = pgdir[w] => share[z] = share[w]
      BY <1>7 DEF Families
    <3>2. \A z \in Owners : z # c /\ pgdir'[z] = pgdir[z] /\ share'[z] = share[z]
      BY <1>5, <1>9
    <3>3. \A z \in Owners : pgdir[z] = job[p].dir => share[z] = s
      BY <1>4, <1>9, <3>0, <3>1
    <3>. QED  BY <1>5, <1>9, <2>4, <3>1, <3>2, <3>3
  <2>. QED  BY <2>1, <2>2, <2>3, <2>4 DEF Families
<1>15. Calls'
  <2>0. \A x \in Slot : job'[x].op # "no" => x # p /\ x # c /\ job[x].op # "no" /\ st[x] = "run"
    BY <1>3, <1>5, <1>7, NoJobIs DEF Calls
  <2>1. \A x \in Slot : job'[x].op = "no" => job'[x] = NoJob
    BY <1>5, <1>7 DEF Calls
  <2>2. \A x \in Slot : job'[x].op # "no" => st'[x] = "run"
    BY <1>5, <2>0
  <2>3. \A x, y \in Slot : job'[x].op # "no" /\ job'[y].op # "no" /\ share'[x] = share'[y] => x = y
    BY <1>5, <1>7, <2>0 DEF Calls
  <2>4. ASSUME NEW x \in Slot
        PROVE  IF job'[x].op \in {"fork", "spawn"} THEN st'[job'[x].child] = "embryo" /\ job'[x].child # 0
               ELSE job'[x].child = 0
    <3>1. CASE x = p
      BY <1>5, <3>1, NoJobIs
    <3>2. CASE x # p
      <4>1. job[x].child \in Slot \cup {0} /\ job'[x] = job[x] /\ job[x].child # c
        BY <1>2, <1>3, <1>5, <3>2 DEF JobType
      <4>. QED  BY <1>5, <1>7, <4>1 DEF Calls
    <3>. QED  BY <3>1, <3>2
  <2>5. \A x, y \in Slot : job'[x].child # 0 /\ job'[x].child = job'[y].child => x = y
    BY <1>5, <1>7, NoJobIs DEF Calls
  <2>6. ASSUME NEW x \in Builders', NEW y \in Owners' PROVE job'[x].dir # pgdir'[y]
    <3>1. x \in Builders /\ x # p /\ job'[x] = job[x]
      BY <1>5, <1>10
    <3>2. CASE y \in Owners
      BY <1>5, <1>7, <1>9, <3>1, <3>2 DEF Calls
    <3>3. CASE y = c
      BY <1>4, <1>5, <1>7, <1>9, <3>1, <3>3 DEF Calls
    <3>. QED  BY <1>9, <3>2, <3>3
  <2>7. \A x, y \in Builders' : job'[x].dir = job'[y].dir => x = y
    BY <1>5, <1>7, <1>10 DEF Calls
  <2>8. ASSUME NEW x \in Slot, NEW y \in Slot, job'[x].op \in Execing, st'[y] = "run", share'[y] = share'[x]
        PROVE  y = x
    <3>1. x # p /\ x # c /\ job'[x] = job[x] /\ st[x] = "run" /\ share'[x] = share[x] /\ share[x] # c
      BY <1>5, <1>8, <2>0, <2>8 DEF Execing
    <3>2. CASE y # c
      BY <1>5, <1>7, <2>8, <3>1, <3>2 DEF Calls
    <3>3. CASE y = c
      <4>1. share[x] = share[p]
        BY <1>5, <2>8, <3>1, <3>3
      <4>. QED  BY <1>1, <1>7, <2>8, <3>1, <4>1 DEF Calls
    <3>. QED  BY <3>2, <3>3
  <2>. QED  BY <2>1, <2>2, <2>3, <2>4, <2>5, <2>6, <2>7, <2>8 DEF Calls
<1>16. ASSUME NEW x \in Slot PROVE Thread(x)'
  <2>1. CASE x = p \/ x = c
    BY <2>1
  <2>2. CASE x # p /\ x # c /\ st[x] # "run"
    <3>1. job'[x] = NoJob /\ st'[x] # "run"
      BY <1>5, <1>7, <2>2 DEF Calls
    <3>. QED  BY <3>1, IdleThread
  <2>3. CASE x # p /\ x # c /\ st[x] = "run"
    <3>1. share[x] # c /\ share[x] \in Slot
      BY <1>2, <1>8, <2>3
    <3>2. share[x] # share[p] => sz'[share[x]] = sz[share[x]] /\ limit'[share[x]] = limit[share[x]]
      BY <1>5, <3>1
    <3>3. \A y \in Slot : y # p /\ job[y].op \in {"sbrk", "spawn"} => job'[y] = job[y] /\ share'[y] = share[y]
      BY <1>3, <1>5, <1>7 DEF Calls
    <3>4. /\ st'[p] = "run" /\ share'[p] = share[p]
          /\ st'[x] = st[x] /\ share'[x] = share[x] /\ pgdir'[x] = pgdir[x] /\ job'[x] = job[x]
      BY <1>1, <1>3, <1>5, <2>3
    <3>. QED  BY ONLY MInv, p \in Slot, x \in Slot, project' = project, Thread(p)', <1>1, <1>14, <2>3, <3>2, <3>3, <3>4, Bystander,
               \A d \in Spaces : d # pgdir[p] /\ (p \in Builders => d # job[p].dir) => Same(m', m, d)
  <2>. QED  BY <2>1, <2>2, <2>3
<1>. QED  BY <1>6, <1>13, <1>14, <1>15, <1>16 DEF MInv

LEMMA ForkDone ==
  ASSUME MInv, NEW p \in Slot, job[p].op = "fork", job[p].a >= job[p].to, m' = m,
         NEW c, c = job[p].child, NEW d, d = job[p].dir, NEW size, size = sz[share[p]],
         st' = [st EXCEPT ![c] = "run"], pgdir' = [pgdir EXCEPT ![c] = d], share' = [share EXCEPT ![c] = c],
         sz' = [sz EXCEPT ![c] = size], limit' = [limit EXCEPT ![c] = 0], parent' = [parent EXCEPT ![c] = p],
         head' = [head EXCEPT ![c] = c], job' = [job EXCEPT ![p] = NoJob],
         UNCHANGED <<project, kstack, panicked>>
  PROVE  MInv'
<1>. DEFINE n == job[p].a \div PGSIZE
<1>2. /\ st[p] = "run" /\ Alone(p) /\ c \in Slot /\ st[c] = "embryo" /\ share[p] \in Slot
      /\ size \in Nat /\ size < KERNBASE /\ Exact(m, pgdir[p], PagesOf(size)) /\ Exact(m, d, PagesOf(size))
      /\ limit[share[p]] # 0 => size < limit[share[p]] + PGSIZE
  <2>1. n = PagesOf(size) /\ Exact(m, d, n)
    BY ForkAt
  <2>. QED  BY <2>1, ForkAt
<1>3. /\ sz \in [Slot -> Nat] /\ limit \in [Slot -> Nat] /\ job \in [Slot -> JobType] /\ share \in [Slot -> Slot]
      /\ parent \in [Slot -> Slot \cup {0}] /\ pgdir \in [Slot -> Frame \cup {0}]
      /\ st \in [Slot -> {"unused", "embryo", "run", "zombie"}]
  BY DEF MInv, MemTypes
<1>4. c # p /\ share[p] # c
  BY <1>2 DEF MInv, Families
<1>5. job[c] = NoJob
  BY <1>2 DEF MInv, Calls
<1>. HIDE DEF n
<1>6. /\ job'[p] = NoJob /\ job'[c] = NoJob /\ share'[c] = c /\ share'[p] = share[p] /\ pgdir'[c] = d /\ pgdir'[p] = pgdir[p]
      /\ sz'[c] = size /\ sz'[share[p]] = sz[share[p]] /\ limit'[c] = 0 /\ limit'[share[p]] = limit[share[p]]
      /\ st'[p] = "run" /\ st'[c] = "run"
  BY <1>2, <1>3, <1>4, <1>5
<1>7. Thread(p)'
  <2>1. Sized(p)'
    BY <1>2, <1>6 DEF Sized
  <2>2. limit'[share'[p]] # 0 => sz'[share'[p]] < limit'[share'[p]] + PGSIZE
    BY <1>2, <1>6
  <2>. QED  BY <1>6, <2>1, <2>2, IdleRunner
<1>8. Thread(c)'
  <2>1. Sized(c)'
    BY <1>2, <1>6 DEF Sized
  <2>2. limit'[share'[c]] # 0 => sz'[share'[c]] < limit'[share'[c]] + PGSIZE
    BY <1>6
  <2>. QED  BY <1>2, <1>6, <2>1, <2>2, IdleRunner
<1>9. /\ Good(m', Spaces, KStacks) /\ (AllUsed(m, Spaces, KStacks) => AllUsed(m', Spaces, KStacks))
      /\ m'.space[0] = m.space[0] /\ \A e : Same(m', m, e)
  BY MemoryStays
<1>10. /\ parent' \in [Slot -> Slot \cup {0}] /\ sz' \in [Slot -> Nat] /\ \A x \in Slot : x # c => sz'[x] = sz[x]
  BY <1>2, <1>3
<1>11. /\ c \in Slot /\ c = job[p].child
       /\ job[p].op = "fork" => c = c /\ head' = [head EXCEPT ![c] = c] /\ limit' = [limit EXCEPT ![c] = 0]
       /\ job[p].op = "spawn" => c = share[p] /\ head' = head /\ limit' = limit
       /\ job[p].op \in {"fork", "spawn"} /\ pgdir' = [pgdir EXCEPT ![c] = job[p].dir]
  BY <1>2
<1>12. \A e \in Spaces : e # pgdir[p] /\ (p \in Builders => e # job[p].dir) => Same(m', m, e)
  BY <1>9
<1>13. /\ st' = [st EXCEPT ![c] = "run"] /\ kstack' = kstack /\ share' = [share EXCEPT ![c] = c]
       /\ job' = [job EXCEPT ![p] = NoJob] /\ project' = project /\ panicked' = panicked
  OBVIOUS
<1>. QED  BY ONLY MInv, p \in Slot, <1>7, <1>8, <1>9, <1>10, <1>11, <1>12, <1>13, Born, Zenon

LEMMA forkStep ==
  ASSUME MInv, torn = "no", torn' = "no", NEW p \in Slot, fork(p)
  PROVE  MInv'
<1>. PICK c, d, size : c = job[p].child /\ d = job[p].dir /\ size = sz[share[p]]
  OBVIOUS
<1>1. /\ job[p].op = "fork" /\ job[p].a >= job[p].to /\ m' = m
      /\ st' = [st EXCEPT ![c] = "run"] /\ pgdir' = [pgdir EXCEPT ![c] = d] /\ share' = [share EXCEPT ![c] = c]
      /\ sz' = [sz EXCEPT ![c] = size] /\ limit' = [limit EXCEPT ![c] = 0] /\ parent' = [parent EXCEPT ![c] = p]
      /\ head' = [head EXCEPT ![c] = c] /\ job' = [job EXCEPT ![p] = NoJob]
      /\ UNCHANGED <<project, kstack, panicked>>
  BY DEF fork, Goes, Idle
<1>. QED  BY <1>1, ForkDone, Zenon

\* thread_create(): the new thread has the two pages, the lower one a guard page.
LEMMA SpawnDone ==
  ASSUME MInv, NEW p \in Slot, job[p].op = "spawn", job[p].at = "done",
         NEW c, c = job[p].child, NEW s, s = share[p], m' = Guard(m, job[p].dir, job[p].old), st' = [st EXCEPT ![c] = "run"],
         pgdir' = [pgdir EXCEPT ![c] = job[p].dir], share' = [share EXCEPT ![c] = share[p]],
         sz' = [sz EXCEPT ![share[p]] = job[p].to], job' = [job EXCEPT ![p] = NoJob],
         UNCHANGED <<project, kstack, limit, parent, head, panicked>>
  PROVE  MInv'
<1>. DEFINE d == job[p].dir
<1>1. st[p] = "run" /\ Alone(p)
  BY InCallAlone
<1>2. /\ sz \in [Slot -> Nat] /\ limit \in [Slot -> Nat] /\ job \in [Slot -> JobType] /\ share \in [Slot -> Slot]
      /\ parent \in [Slot -> Slot \cup {0}] /\ pgdir \in [Slot -> Frame \cup {0}]
      /\ st \in [Slot -> {"unused", "embryo", "run", "zombie"}]
  BY DEF MInv, MemTypes
<1>3. job[p].to \in Nat /\ job[p].old \in Nat /\ job[p].child \in Slot \cup {0} /\ s \in Slot
  BY <1>2 DEF JobType
<1>4. Progress(p) /\ Limited(p)
  BY DEF MInv, Thread
<1>5. d = pgdir[p] /\ job[p].to < KERNBASE /\ Exact(m, d, PagesOf(job[p].to))
  BY <1>4 DEF Progress, AllocOps
<1>6. limit[s] # 0 => job[p].to < limit[s] + PGSIZE
  BY <1>4 DEF Limited
<1>7. c \in Slot /\ st[c] = "embryo" /\ c # p /\ job[c] = NoJob
  BY <1>1, <1>3, Numbers DEF MInv, Calls
<1>8. d \in Spaces /\ d \in Frame
  BY <1>1, <1>5, Where
<1>9. Good(m, Spaces, KStacks) /\ p \notin Builders
  BY Sound DEF Builders, Building
<1>10. /\ Good(m', Spaces, KStacks) /\ (AllUsed(m, Spaces, KStacks) => AllUsed(m', Spaces, KStacks))
       /\ m'.free = m.free /\ m'.content = m.content
       /\ \A e \in Frame \cup {0} : e # d => m'.space[e] = m.space[e]
       /\ \A v \in Page : m'.space[d].pte[v].f = m.space[d].pte[v].f
  <2>1. m' = Guard(m, d, job[p].old)
    OBVIOUS
  <2>. HIDE DEF d
  <2>. QED  BY <1>3, <1>8, <1>9, <2>1, GuardIs, SMTT(30)
<1>11. Untouched(m', m)
  BY <1>10, SMTT(30) DEF Untouched
<1>12. m'.space[0] = m.space[0] /\ \A e \in Spaces : e # d => Same(m', m, e)
  <2>1. m'.space[0] = m.space[0]
    BY <1>8, <1>10, Numbers, SMTT(30)
  <2>2. \A e \in Spaces \cap Spaces : e # d => Same(m', m, e)
    BY <1>9, <1>10, <1>11, OthersSame, SMTT(30)
  <2>. QED  BY <2>1, <2>2, SMTT(30)
<1>13. Exact(m', d, PagesOf(job[p].to))
  BY <1>5, <1>10, Zenon DEF Exact
<1>. HIDE DEF d
<1>14. /\ job'[p] = NoJob /\ job'[c] = NoJob /\ share'[c] = s /\ share'[p] = s /\ pgdir'[c] = d /\ pgdir'[p] = d
       /\ sz'[s] = job[p].to /\ st'[p] = "run" /\ st'[c] = "run" /\ limit' = limit
  BY <1>1, <1>2, <1>3, <1>5, <1>7 DEF d
<1>15. Thread(p)'
  <2>1. Sized(p)'
    BY <1>5, <1>13, <1>14 DEF Sized
  <2>2. limit'[share'[p]] # 0 => sz'[share'[p]] < limit'[share'[p]] + PGSIZE
    BY <1>6, <1>14
  <2>. QED  BY <1>14, <2>1, <2>2, IdleRunner
<1>16. Thread(c)'
  <2>1. Sized(c)'
    BY <1>5, <1>13, <1>14 DEF Sized
  <2>2. limit'[share'[c]] # 0 => sz'[share'[c]] < limit'[share'[c]] + PGSIZE
    BY <1>6, <1>14
  <2>. QED  BY <1>7, <1>14, <2>1, <2>2, IdleRunner
<1>17. /\ parent' \in [Slot -> Slot \cup {0}] /\ sz' \in [Slot -> Nat] /\ \A x \in Slot : x # s => sz'[x] = sz[x]
  BY <1>2, <1>3
<1>18. /\ s \in Slot /\ c = job[p].child
       /\ job[p].op = "fork" => s = c /\ head' = [head EXCEPT ![c] = c] /\ limit' = [limit EXCEPT ![c] = 0]
       /\ job[p].op = "spawn" => s = share[p] /\ head' = head /\ limit' = limit
       /\ job[p].op \in {"fork", "spawn"} /\ pgdir' = [pgdir EXCEPT ![c] = job[p].dir]
  BY <1>3
<1>19. \A e \in Spaces : e # pgdir[p] /\ (p \in Builders => e # job[p].dir) => Same(m', m, e)
  BY <1>5, <1>12
<1>20. /\ st' = [st EXCEPT ![c] = "run"] /\ kstack' = kstack /\ share' = [share EXCEPT ![c] = s]
       /\ job' = [job EXCEPT ![p] = NoJob] /\ project' = project /\ panicked' = panicked
  OBVIOUS
<1>21. /\ Good(m', Spaces, KStacks) /\ (AllUsed(m, Spaces, KStacks) => AllUsed(m', Spaces, KStacks))
       /\ m'.space[0] = m.space[0]
  BY <1>10, <1>12
<1>. QED  BY ONLY MInv, p \in Slot, <1>15, <1>16, <1>17, <1>18, <1>19, <1>20, <1>21, Born, ZenonT(60)

LEMMA thread_createStep ==
  ASSUME MInv, torn = "no", torn' = "no", NEW p \in Slot, thread_create(p)
  PROVE  MInv'
<1>. DEFINE c == job[p].child
            k == kstack[c]
            size == sz[share[p]]
<1>1. CASE /\ Goes(p, "spawn", "done")
           /\ m' = Guard(m, job[p].dir, job[p].old)
           /\ st' = [st EXCEPT ![c] = "run"]
           /\ pgdir' = [pgdir EXCEPT ![c] = job[p].dir]
           /\ share' = [share EXCEPT ![c] = share[p]]
           /\ sz' = [sz EXCEPT ![share[p]] = job[p].to]
           /\ Idle(p)
           /\ UNCHANGED <<project, kstack, limit, parent, head, torn, panicked>>
  <2>1. job[p].op = "spawn" /\ job[p].at = "done" /\ job' = [job EXCEPT ![p] = NoJob]
    BY <1>1 DEF Goes, Idle
  <2>. PICK s : s = share[p]
    OBVIOUS
  <2>. HIDE DEF c
  <2>2. c = job[p].child
    BY DEF c
  <2>. QED  BY <1>1, <2>1, <2>2, SpawnDone, Zenon
<1>2. CASE /\ Goes(p, "spawn", "failed")
           /\ m' = kfree(m, {k})
           /\ st' = [st EXCEPT ![c] = "unused"]
           /\ Idle(p)
           /\ UNCHANGED <<project, kstack, pgdir, share, sz, limit, parent, head, torn, panicked>>
  <2>1. /\ job[p].op = "spawn" /\ job[p].at = "failed" /\ job' = [job EXCEPT ![p] = NoJob]
    BY <1>2 DEF Goes, Idle
  <2>2. st[p] = "run" /\ Alone(p)
    BY <2>1, InCallAlone
  <2>3. job \in [Slot -> JobType] /\ m \in MemType /\ Good(m, Spaces, KStacks) /\ m.space[0] = NoSpace
    BY Sound
  <2>4. c \in Slot /\ st[c] = "embryo" /\ c # 0
    <3>1. job[p].child \in Slot \cup {0}
      BY <2>3 DEF JobType
    <3>. QED  BY <2>1, <3>1 DEF MInv, Calls
  <2>5. pgdir[p] \in Spaces /\ Exact(m, pgdir[p], PagesOf(size)) /\ p \notin Builders
    <3>1. Progress(p)
      BY DEF MInv, Thread
    <3>. QED  BY <2>1, <2>2, <3>1, Where DEF Progress, Builders, Building
  <2>6. /\ KStacks' = KStacks \ {k} /\ k \in KStacks /\ k \in Frame
        /\ st' \in [Slot -> {"unused", "embryo", "run", "zombie"}] /\ st'[c] = "unused"
        /\ \A x \in Slot : x # c => st'[x] = st[x]
        /\ \A x, w \in InUse' : kstack'[x] = kstack'[w] => x = w
        /\ Owners' = Owners
    <3>1. Owners = {x \in Slot : st[x] = "run" \/ (st[x] = "zombie" /\ head[share[x]] = x)}
      BY DEF Owners
    <3>. QED  BY <1>2, <2>4, <3>1, StackGiven, Zenon
  <2>. HIDE DEF c, k
  <2>7. /\ m' \in MemType /\ m'.frames = m.frames /\ m'.free = m.free \cup {k} /\ m'.space = m.space
        /\ \A g \in Frame : m'.content[g] = IF g \in {k} THEN Junk ELSE m.content[g]
    <3>1. {k} \in SUBSET Frame
      BY <2>6
    <3>. QED  BY <1>2, <2>3, <3>1, kfreeIs
  <2>8. Good(m', Spaces, KStacks \ {k}) /\ (AllUsed(m, Spaces, KStacks) => AllUsed(m', Spaces, KStacks \ {k}))
    <3>1. {k} \in SUBSET KStacks
      BY <2>6
    <3>. QED  BY <2>3, <2>7, <3>1, GoodGive, Zenon
  <2>9. Untouched(m', m)
    BY <2>7 DEF Untouched
  <2>10. \A e \in Spaces : Same(m', m, e)
    <3>. TAKE e \in Spaces
    <3>1. e \in Spaces \cap Spaces /\ m'.space[e] = m.space[e] /\ Good(m', Spaces, KStacks \ {k})
      BY <2>7, <2>8
    <3>. QED  BY <2>3, <2>9, <3>1, SameContent
  <2>11. Spaces' = Spaces
    <3>1. p \notin Builders'
      <4>1. job'[p] = NoJob
        BY <2>1, <2>3
      <4>. QED  BY <4>1, NoJobIs DEF Builders, Building
    <3>2. Spaces' = (Spaces \ {job[x].dir : x \in Builders \cap {p}}) \cup {job'[x].dir : x \in Builders' \cap {p}}
      BY <1>2, <2>1, <2>6, SpacesAre, Zenon
    <3>. QED  BY <2>5, <3>1, <3>2
  <2>12. Framed'
    <3>1. project = 1 => AllUsed(m, Spaces, KStacks)
      BY DEF MInv, Framed
    <3>. QED  BY <1>2, <2>3, <2>6, <2>7, <2>8, <2>11, <3>1 DEF Framed
  <2>13. Exact(m', pgdir[p], PagesOf(sz[share[p]])) \/ Exact(m', pgdir[p], 0)
    BY <2>5, <2>7 DEF Exact
  <2>14. \A e \in Spaces : e # pgdir[p] /\ (p \in Builders => e # job[p].dir) => Same(m', m, e)
    BY <2>10
  <2>15. /\ UNCHANGED <<project, pgdir, share, sz, limit, parent, head, panicked>> /\ kstack' = kstack
         /\ job' = [job EXCEPT ![p] = NoJob] /\ job[p].op # "no" /\ c \in Slot \cup {0} /\ c = job[p].child
         /\ c # 0 => st'[c] = "unused"
         /\ st' \in [Slot -> {"unused", "embryo", "run", "zombie"}] /\ \A x \in Slot : x # c => st'[x] = st[x]
    BY <1>2, <2>1, <2>4, <2>6 DEF c
  <2>. QED  BY ONLY MInv, p \in Slot, <2>12, <2>13, <2>14, <2>15, CallEnds, Zenon
<1>. QED  BY <1>1, <1>2 DEF thread_create

\* exec() commits: the new image takes the place of the old one.
LEMMA ExecCommit ==
  ASSUME MInv, NEW p \in Slot, job[p].op = "stack", job[p].at = "done",
         NEW d, d = job[p].dir, NEW o, o = pgdir[p], NEW y, y = Guard(m, d, job[p].old), m' = freevm(y, o),
         pgdir' = [pgdir EXCEPT ![p] = d], sz' = [sz EXCEPT ![share[p]] = job[p].to],
         job' = [job EXCEPT ![p] = NoJob],
         UNCHANGED <<project, st, kstack, share, limit, parent, head, panicked>>
  PROVE  MInv'
<1>1. job[p].op \in Execing
  BY DEF Execing
<1>2. /\ st[p] = "run" /\ Alone(p) /\ p \in Builders /\ p \in Owners
      /\ d \in Spaces /\ d \in Frame /\ d # o /\ o \in Spaces /\ o \in Frame
      /\ limit[share[p]] = 0 /\ share[p] \in Slot /\ job[p].to \in Nat
      /\ \A x \in Slot : st[x] = "run" /\ share[x] = share[p] => x = p
      /\ job[p].to < KERNBASE /\ Exact(m, d, PagesOf(job[p].to))
  BY <1>1, ExecAt
<1>3. /\ st \in [Slot -> {"unused", "embryo", "run", "zombie"}] /\ share \in [Slot -> Slot] /\ job \in [Slot -> JobType]
      /\ pgdir \in [Slot -> Frame \cup {0}] /\ sz \in [Slot -> Nat]
  BY DEF MInv, MemTypes
<1>4. job[p].old \in Nat
  BY <1>3 DEF JobType
<1>5. Good(m, Spaces, KStacks) /\ m.space[0] = NoSpace
  BY Sound
<1>6. /\ Good(y, Spaces, KStacks) /\ (AllUsed(m, Spaces, KStacks) => AllUsed(y, Spaces, KStacks))
      /\ y.free = m.free /\ y.content = m.content
      /\ \A e \in Frame \cup {0} : e # d => y.space[e] = m.space[e]
      /\ \A v \in Page : y.space[d].pte[v].f = m.space[d].pte[v].f
  <2>1. d \in Spaces /\ y = Guard(m, d, job[p].old)
    BY <1>2
  <2>. QED  BY ONLY <1>4, <1>5, <2>1, GuardIs
<1>7. /\ Good(m', Spaces \ {o}, KStacks)
      /\ AllUsed(y, Spaces, KStacks) => AllUsed(m', Spaces \ {o}, KStacks)
      /\ \A e \in Frame \cup {0} : e # o => m'.space[e] = y.space[e]
      /\ Untouched(m', y)
  <2>1. o \in Spaces /\ m' = freevm(y, o)
    BY <1>2, SMTT(30)
  <2>2. Good(y, Spaces, KStacks)
    BY <1>6, SMTT(30)
  <2>. QED  BY ONLY <2>1, <2>2, freevmIs, SMTT(30)
<1>8. Untouched(m', m)
  BY <1>6, <1>7 DEF Untouched
<1>9. \A e \in Spaces : e # o /\ e # d => Same(m', m, e)
  <2>. TAKE e \in Spaces
  <2>. HAVE e # o /\ e # d
  <2>1. e \in Frame
    BY <1>5, SMTT(30) DEF Good
  <2>2. e \in Spaces \cap (Spaces \ {o}) /\ m'.space[e] = m.space[e] /\ Good(m', Spaces \ {o}, KStacks)
    BY <1>6, <1>7, <2>1, SMTT(30)
  <2>. QED  BY <1>5, <1>8, <2>2, SameContent
<1>10. m'.space[0] = NoSpace
  BY <1>2, <1>5, <1>6, <1>7, Numbers
<1>11. Exact(m', d, PagesOf(job[p].to))
  <2>1. m'.space[d] = y.space[d]
    BY <1>2, <1>7
  <2>2. \A v \in Page : m'.space[d].pte[v].f = m.space[d].pte[v].f
    BY <1>6, <2>1
  <2>. QED  BY ONLY <1>2, <2>2, SMTT(30) DEF Exact
<1>12. /\ pgdir'[p] = d /\ \A x \in Slot : x # p => pgdir'[x] = pgdir[x]
       /\ job'[p] = NoJob /\ \A x \in Slot : x # p => job'[x] = job[x]
       /\ sz'[share[p]] = job[p].to /\ \A x \in Slot : x # share[p] => sz'[x] = sz[x]
  BY <1>2, <1>3
<1>13. Families /\ Calls
  BY DEF MInv
<1>14. head[share[p]] = p /\ \A x \in Owners : share[x] = share[p] => x = p
  BY <1>2, <1>13 DEF Families, Owners
<1>15. Owners' = Owners /\ Owners \subseteq Slot /\ Builders' = Builders \ {p} /\ Builders \subseteq Slot
  BY <1>12, NoJobIs DEF Owners, Builders, Building
<1>16. \A x \in Owners : pgdir[x] = o => x = p
  BY <1>2, <1>13, <1>14 DEF Families
<1>17. Spaces' = Spaces \ {o}
  <2>1. Spaces' = {pgdir'[x] : x \in Owners'} \cup {job'[x].dir : x \in Builders'}
    BY DEF Spaces, Owners, Builders, Building
  <2>2. Spaces = {pgdir[x] : x \in Owners} \cup {job[x].dir : x \in Builders}
    BY Where
  <2>3. {pgdir'[x] : x \in Owners'} = {pgdir[x] : x \in Owners \ {p}} \cup {d}
    BY <1>2, <1>12, <1>15
  <2>4. {job'[x].dir : x \in Builders'} = {job[x].dir : x \in Builders \ {p}}
    BY <1>12, <1>15
  <2>5. {job[x].dir : x \in Builders} = {job[x].dir : x \in Builders \ {p}} \cup {d}
    BY <1>2
  <2>6. {pgdir[x] : x \in Owners} = {pgdir[x] : x \in Owners \ {p}} \cup {o}
    BY <1>2
  <2>7. o \notin {pgdir[x] : x \in Owners \ {p}} /\ o \notin {job[x].dir : x \in Builders}
    BY <1>2, <1>13, <1>16 DEF Calls
  <2>. QED  BY <1>2, <2>1, <2>2, <2>3, <2>4, <2>5, <2>6, <2>7, Zenon
<1>18. KStacks' = KStacks /\ InUse' = InUse
  BY SMTT(30) DEF KStacks, InUse
<1>19. Framed'
  BY <1>6, <1>7, <1>10, <1>17, <1>18 DEF MInv, Framed
<1>20. MemTypes'
  BY <1>2, <1>3, NoJobIs DEF MInv, MemTypes
<1>21. Families'
  <2>1. /\ project = 1 => \A x \in Slot : /\ share[x] = x /\ limit[x] = 0
                                          /\ st[x] \in {"run", "zombie"} => head[x] = x
        /\ \A x \in Slot : st[x] \in {"run", "zombie"} =>
             st[share[x]] \in {"run", "zombie"} /\ share[share[x]] = share[x]
    BY <1>13 DEF Families
  <2>2. ASSUME NEW x \in Slot, st[x] = "run"
        PROVE  head[share[x]] \in Slot /\ st[head[share[x]]] = "run" /\ share[head[share[x]]] = share[x] /\ pgdir'[head[share[x]]] = pgdir'[x]
    <3>1. head[share[x]] \in Slot /\ st[head[share[x]]] = "run" /\ share[head[share[x]]] = share[x] /\ pgdir[head[share[x]]] = pgdir[x]
      BY <1>13, <2>2 DEF Families
    <3>2. head[share[x]] = p <=> x = p
      BY <1>2, <1>14, <2>2, <3>1
    <3>. QED  BY <1>12, <3>1, <3>2
  <2>3. ASSUME NEW x \in Owners, NEW z \in Owners, pgdir'[x] = pgdir'[z] PROVE share[x] = share[z]
    <3>1. \A w \in Owners : d # pgdir[w]
      BY <1>2, <1>13 DEF Calls
    <3>. QED  BY <1>12, <1>13, <1>15, <2>3, <3>1 DEF Families
  <2>. QED  BY <1>15, <2>1, <2>2, <2>3 DEF Families
<1>22. Calls'
  <2>0. \A x \in Slot : job'[x].op # "no" => x # p /\ job[x].op # "no"
    BY <1>12, NoJobIs
  <2>1. /\ \A x \in Slot : job'[x].op = "no" => job'[x] = NoJob
        /\ \A x \in Slot : job'[x].op # "no" => st'[x] = "run"
    BY <1>12, <1>13, <2>0 DEF Calls
  <2>2. \A x, z \in Slot : job'[x].op # "no" /\ job'[z].op # "no" /\ share'[x] = share'[z] => x = z
    BY <1>13, <2>0 DEF Calls
  <2>3. \A x \in Slot : IF job'[x].op \in {"fork", "spawn"} THEN st'[job'[x].child] = "embryo" /\ job'[x].child # 0
                        ELSE job'[x].child = 0
    BY <1>12, <1>13, NoJobIs DEF Calls
  <2>4. \A x, z \in Slot : job'[x].child # 0 /\ job'[x].child = job'[z].child => x = z
    BY <1>12, <1>13, NoJobIs DEF Calls
  <2>5. ASSUME NEW x \in Builders', NEW z \in Owners' PROVE job'[x].dir # pgdir'[z]
    <3>1. x \in Builders /\ x # p /\ job'[x] = job[x]
      BY <1>12, <1>15
    <3>2. job[x].dir # d
      BY <1>2, <1>13, <3>1 DEF Calls
    <3>. QED  BY <1>12, <1>13, <1>15, <3>1, <3>2 DEF Calls
  <2>6. \A x, z \in Builders' : job'[x].dir = job'[z].dir => x = z
    BY <1>12, <1>13, <1>15 DEF Calls
  <2>7. \A x, z \in Slot : job'[x].op \in Execing /\ st'[z] = "run" /\ share'[z] = share'[x] => z = x
    BY <1>12, <1>13, <2>0 DEF Calls, Execing
  <2>. QED  BY <2>1, <2>2, <2>3, <2>4, <2>5, <2>6, <2>7 DEF Calls
<1>23. Thread(p)'
  <2>1. Sized(p)'
    BY <1>2, <1>11, <1>12 DEF Sized
  <2>2. limit'[share'[p]] # 0 => sz'[share'[p]] < limit'[share'[p]] + PGSIZE
    BY <1>2
  <2>. QED  BY <1>12, <2>1, <2>2, IdleRunner
<1>24. \A e \in Spaces : e # pgdir[p] /\ (p \in Builders => e # job[p].dir) => Same(m', m, e)
  BY <1>2, <1>9
<1>25. ASSUME NEW x \in Slot PROVE Thread(x)'
  <2>1. CASE x = p
    BY <1>23, <2>1
  <2>2. CASE x # p
    <3>1. share[x] \in Slot
      BY <1>3
    <3>2. share[x] # share[p] => sz'[share[x]] = sz[share[x]] /\ limit'[share[x]] = limit[share[x]]
      BY <1>12, <3>1
    <3>3. \A z \in Slot : z # p /\ job[z].op \in {"sbrk", "spawn"} => job'[z] = job[z] /\ share'[z] = share[z]
      BY <1>12
    <3>4. /\ st'[p] = "run" /\ share'[p] = share[p] /\ project' = project
          /\ st'[x] = st[x] /\ share'[x] = share[x] /\ pgdir'[x] = pgdir[x] /\ job'[x] = job[x]
      BY <1>2, <1>12, <2>2
    <3>. QED  BY ONLY MInv, p \in Slot, x \in Slot, <1>2, <1>21, <1>23, <1>24, <2>2, <3>2, <3>3, <3>4, Bystander
  <2>. QED  BY <2>1, <2>2
<1>. QED  BY <1>19, <1>20, <1>21, <1>22, <1>25 DEF MInv

LEMMA execStep ==
  ASSUME MInv, torn = "no", torn' = "no", NEW p \in Slot, exec(p)
  PROVE  MInv'
<1>. PICK d, o, y : d = job[p].dir /\ o = pgdir[p] /\ y = Guard(m, d, job[p].old)
  OBVIOUS
<1>1. /\ job[p].op = "stack" /\ job[p].at = "done" /\ m' = freevm(y, o)
      /\ pgdir' = [pgdir EXCEPT ![p] = d] /\ sz' = [sz EXCEPT ![share[p]] = job[p].to]
      /\ job' = [job EXCEPT ![p] = NoJob]
      /\ UNCHANGED <<project, st, kstack, share, limit, parent, head, panicked>>
  BY DEF exec, Goes, Idle, Committed
<1>. QED  BY <1>1, ExecCommit, Zenon

-----------------------------------------------------------------------------
\* Threads that end.

\* kill_threads() of exec(): p is the only thread of its process, and its head.
LEMMA EndedIs ==
  ASSUME MInv, torn = "no", torn' = "no", NEW p \in Slot, Runs(p), Ended(p), UNCHANGED <<project, share>>
  PROVE  /\ Alone(p) /\ st[p] = "run" /\ st'[p] = "run" /\ job[p] = NoJob /\ share[p] \in Slot
         /\ \A x \in Others(p) : job[x] = NoJob
         /\ st' \in [Slot -> {"unused", "embryo", "run", "zombie"}]
         /\ \A x \in Slot : share[x] # share[p] => st'[x] = st[x]
         /\ \A x \in Slot : st'[x] \in {"unused", "embryo"} \/ st[x] \in {"unused", "embryo"} => st'[x] = st[x]
         /\ \A x \in Slot : st'[x] = "run" /\ share[x] = share[p] => x = p
         /\ limit' \in [Slot -> Nat] /\ limit'[share[p]] = 0 /\ \A x \in Slot : x # share[p] => limit'[x] = limit[x]
         /\ head' = [head EXCEPT ![share[p]] = p]
<1>1. /\ st \in [Slot -> {"unused", "embryo", "run", "zombie"}] /\ share \in [Slot -> Slot] /\ job \in [Slot -> JobType]
      /\ limit \in [Slot -> Nat] /\ project \in {1, 2}
  BY DEF MInv, MemTypes
<1>2. st[p] = "run" /\ job[p].op = "no"
  BY DEF Runs
<1>3. Tears(p)
  BY DEF Ended, Tears
<1>4. Alone(p)
  BY <1>2, <1>3, TearsAlone
<1>5. Calls /\ Families
  BY DEF MInv
<1>6. Others(p) \subseteq Slot /\ \A x \in Others(p) : x # p /\ share[x] = share[p] /\ st[x] \in {"run", "zombie"}
  BY DEF Others, Family
<1>7. \A x \in Others(p) : job[x] = NoJob /\ job[x].child = 0
  <2>1. \A x \in Others(p) : job[x].op = "no"
    BY <1>4, <1>6 DEF Alone
  <2>. QED  BY <1>5, <1>6, <2>1, NoJobIs DEF Calls
<1>8. st' = [x \in Slot |-> IF x \in Others(p) THEN "zombie" ELSE st[x]]
  <2>1. \A x \in Slot : ~\E y \in Others(p) : job[y].child = x
    BY <1>7, Numbers
  <2>. QED  BY <2>1 DEF Ended
<1>9. \A x \in Slot : st'[x] = "run" /\ share[x] = share[p] => x = p
  <2>1. CASE project = 1
    BY <1>5, <2>1 DEF Families
  <2>2. CASE project = 2
    <3>1. \A x \in Slot : x # p /\ share[x] = share[p] /\ st[x] = "run" => x \in Others(p)
      BY <2>2 DEF Others, Family
    <3>. QED  BY <1>6, <1>8, <3>1
  <2>. QED  BY <1>1, <2>1, <2>2
<1>10. limit' \in [Slot -> Nat] /\ limit'[share[p]] = 0 /\ \A x \in Slot : x # share[p] => limit'[x] = limit[x]
  <2>1. CASE project = 1
    <3>1. limit[share[p]] = 0 /\ limit' = limit
      BY <1>1, <1>5, <2>1 DEF Families, Ended
    <3>. QED  BY <1>1, <3>1
  <2>2. CASE project = 2
    <3>1. limit' = [limit EXCEPT ![share[p]] = 0]
      BY <2>2 DEF Ended
    <3>. QED  BY <1>1, <3>1
  <2>. QED  BY <1>1, <2>1, <2>2
<1>11. st' \in [Slot -> {"unused", "embryo", "run", "zombie"}] /\ st'[p] = "run"
  BY <1>1, <1>2, <1>6, <1>8
<1>12. \A x \in Slot : share[x] # share[p] => st'[x] = st[x]
  BY <1>6, <1>8
<1>13. \A x \in Slot : st'[x] \in {"unused", "embryo"} \/ st[x] \in {"unused", "embryo"} => st'[x] = st[x]
  BY <1>6, <1>8
<1>14. job[p] = NoJob /\ share[p] \in Slot /\ head' = [head EXCEPT ![share[p]] = p]
  BY <1>1, <1>2, <1>5 DEF Calls, Ended
<1>. QED  BY <1>2, <1>4, <1>7, <1>9, <1>10, <1>11, <1>12, <1>13, <1>14

\* The processes have the address spaces that they had.
LEMMA EndedOwners ==
  ASSUME MInv, torn = "no", torn' = "no", NEW p \in Slot, Runs(p), Ended(p), UNCHANGED <<project, share, pgdir>>
  PROVE  /\ Owners' \subseteq Owners /\ p \in Owners' /\ {pgdir[x] : x \in Owners'} = {pgdir[x] : x \in Owners}
         /\ Families'
<1>1. /\ st[p] = "run" /\ st'[p] = "run" /\ share[p] \in Slot
      /\ st' \in [Slot -> {"unused", "embryo", "run", "zombie"}]
      /\ \A x \in Slot : share[x] # share[p] => st'[x] = st[x]
      /\ \A x \in Slot : st'[x] \in {"unused", "embryo"} \/ st[x] \in {"unused", "embryo"} => st'[x] = st[x]
      /\ \A x \in Slot : st'[x] = "run" /\ share[x] = share[p] => x = p
      /\ limit'[share[p]] = 0 /\ \A x \in Slot : x # share[p] => limit'[x] = limit[x]
      /\ head' = [head EXCEPT ![share[p]] = p]
  BY EndedIs
<1>2. /\ st \in [Slot -> {"unused", "embryo", "run", "zombie"}] /\ share \in [Slot -> Slot]
      /\ head \in [Slot -> Slot \cup {0}]
  BY DEF MInv, MemTypes
<1>3. head'[share[p]] = p /\ \A s \in Slot : s # share[p] => head'[s] = head[s]
  BY <1>1, <1>2
<1>4. Families
  BY DEF MInv
<1>5. ASSUME NEW x \in Slot PROVE x \in Owners' <=> (IF share[x] = share[p] THEN x = p ELSE x \in Owners)
  BY <1>1, <1>2, <1>3 DEF Owners
<1>6. Owners \subseteq Slot /\ Owners' \subseteq Slot /\ p \in Owners
  BY <1>1 DEF Owners
<1>7. Owners' \subseteq Owners /\ p \in Owners'
  BY <1>5, <1>6
<1>8. \A x \in Owners : share[x] = share[p] => pgdir[x] = pgdir[p]
  BY <1>1, <1>4 DEF Families, Owners
<1>9. {pgdir[x] : x \in Owners'} = {pgdir[x] : x \in Owners}
  BY <1>5, <1>6, <1>7, <1>8
<1>10. \A x \in Slot : st'[x] \in {"run", "zombie"} <=> st[x] \in {"run", "zombie"}
  BY <1>1, <1>2
<1>11. Families'
  <2>1. project = 1 => \A x \in Slot : /\ share[x] = x /\ limit'[x] = 0
                                       /\ st'[x] \in {"run", "zombie"} => head'[x] = x
    BY <1>1, <1>3, <1>4, <1>10 DEF Families
  <2>2. \A x \in Slot : st'[x] \in {"run", "zombie"} =>
          st'[share[x]] \in {"run", "zombie"} /\ share[share[x]] = share[x]
    BY <1>2, <1>4, <1>10 DEF Families
  <2>3. ASSUME NEW x \in Slot, st'[x] = "run"
        PROVE  head'[share[x]] \in Slot /\ st'[head'[share[x]]] = "run" /\ share[head'[share[x]]] = share[x] /\ pgdir[head'[share[x]]] = pgdir[x]
    <3>1. CASE share[x] = share[p]
      <4>1. x = p
        BY <1>1, <2>3, <3>1
      <4>. QED  BY <1>1, <1>3, <4>1
    <3>2. CASE share[x] # share[p]
      <4>1. st[x] = "run" /\ share[x] \in Slot /\ head'[share[x]] = head[share[x]]
        BY <1>1, <1>2, <1>3, <2>3, <3>2
      <4>2. head[share[x]] \in Slot /\ st[head[share[x]]] = "run" /\ share[head[share[x]]] = share[x] /\ pgdir[head[share[x]]] = pgdir[x]
        BY <1>4, <4>1 DEF Families
      <4>. QED  BY <1>1, <3>2, <4>1, <4>2
    <3>. QED  BY <3>1, <3>2
  <2>4. \A x, y \in Owners' : pgdir[x] = pgdir[y] => share[x] = share[y]
    BY <1>4, <1>7 DEF Families
  <2>. QED  BY <2>1, <2>2, <2>3, <2>4 DEF Families
<1>. QED  BY <1>7, <1>9, <1>11

LEMMA EndedStep ==
  ASSUME MInv, torn = "no", torn' = "no", NEW p \in Slot, Runs(p), Ended(p),
         UNCHANGED <<project, kstack, pgdir, share, sz, parent, panicked>>,
         NEW j \in JobType, job' = [job EXCEPT ![p] = j], j.op \in {"no", "exec"}, j.op = "no" => j = NoJob, j.child = 0,
         j.op = "exec" => j.dir \notin Spaces, \A e \in Spaces : Same(m', m, e), Framed', Thread(p)'
  PROVE  MInv'
<1>1. /\ Alone(p) /\ st[p] = "run" /\ st'[p] = "run" /\ job[p] = NoJob /\ share[p] \in Slot
      /\ st' \in [Slot -> {"unused", "embryo", "run", "zombie"}]
      /\ \A x \in Slot : share[x] # share[p] => st'[x] = st[x]
      /\ \A x \in Slot : st'[x] \in {"unused", "embryo"} \/ st[x] \in {"unused", "embryo"} => st'[x] = st[x]
      /\ \A x \in Slot : st'[x] = "run" /\ share[x] = share[p] => x = p
      /\ limit' \in [Slot -> Nat] /\ \A x \in Slot : x # share[p] => limit'[x] = limit[x]
      /\ head' = [head EXCEPT ![share[p]] = p]
  BY EndedIs
<1>2. Owners' \subseteq Owners /\ Families' /\ Owners \subseteq Slot
  BY EndedOwners DEF Owners
<1>3. job \in [Slot -> JobType] /\ share \in [Slot -> Slot] /\ head \in [Slot -> Slot \cup {0}]
  BY DEF MInv, MemTypes
<1>4. job'[p] = j /\ \A x \in Slot : x # p => job'[x] = job[x]
  BY <1>3
<1>5. MemTypes'
  <2>1. job' \in [Slot -> JobType] /\ head' \in [Slot -> Slot \cup {0}]
    BY <1>1, <1>3
  <2>. QED  BY <1>1, <2>1 DEF MInv, MemTypes
<1>6. Calls
  BY DEF MInv
<1>7. Builders \subseteq Slot /\ Builders' \subseteq Slot /\ p \notin Builders
      /\ (\A x \in Builders' : x # p => x \in Builders) /\ (p \in Builders' => j.dir \notin Spaces)
  BY <1>1, <1>4, NoJobIs DEF Builders, Building
<1>8. \A x \in Slot : x # p /\ job[x].op # "no" => share[x] # share[p] /\ st'[x] = st[x]
  BY <1>1 DEF Alone
<1>9. Calls'
  <2>1. /\ \A x \in Slot : job'[x].op = "no" => job'[x] = NoJob
        /\ \A x \in Slot : job'[x].op # "no" => st'[x] = "run"
    BY <1>1, <1>4, <1>6, <1>8 DEF Calls
  <2>2. \A x, y \in Slot : job'[x].op # "no" /\ job'[y].op # "no" /\ share'[x] = share'[y] => x = y
    BY <1>4, <1>6, <1>8 DEF Calls
  <2>3. ASSUME NEW x \in Slot
        PROVE  IF job'[x].op \in {"fork", "spawn"} THEN st'[job'[x].child] = "embryo" /\ job'[x].child # 0
               ELSE job'[x].child = 0
    <3>1. CASE x = p
      BY <1>4, <3>1
    <3>2. CASE x # p
      <4>1. job[x].child \in Slot \cup {0} /\ job'[x] = job[x]
        BY <1>3, <1>4, <3>2 DEF JobType
      <4>. QED  BY <1>1, <1>6, <4>1 DEF Calls
    <3>. QED  BY <3>1, <3>2
  <2>4. \A x, y \in Slot : job'[x].child # 0 /\ job'[x].child = job'[y].child => x = y
    BY <1>4, <1>6 DEF Calls
  <2>5. \A x \in Builders', y \in Owners' : job'[x].dir # pgdir'[y]
    <3>. TAKE x \in Builders', y \in Owners'
    <3>1. pgdir[y] \in Spaces /\ y \in Owners
      BY <1>2, Where
    <3>. QED  BY <1>4, <1>6, <1>7, <3>1 DEF Calls
  <2>6. \A x, y \in Builders' : job'[x].dir = job'[y].dir => x = y
    <3>1. \A x \in Builders : job[x].dir \in Spaces
      BY Where
    <3>. QED  BY <1>4, <1>6, <1>7, <3>1 DEF Calls
  <2>7. ASSUME NEW x \in Slot, NEW y \in Slot, job'[x].op \in Execing, st'[y] = "run", share'[y] = share'[x]
        PROVE  y = x
    <3>1. CASE x = p
      BY <1>1, <2>7, <3>1
    <3>2. CASE x # p
      <4>1. job[x].op \in Execing /\ share[x] # share[p]
        BY <1>4, <1>8, <2>7, <3>2 DEF Execing
      <4>. QED  BY <1>1, <1>6, <2>7, <4>1 DEF Calls
    <3>. QED  BY <3>1, <3>2
  <2>. QED  BY <2>1, <2>2, <2>3, <2>4, <2>5, <2>6, <2>7 DEF Calls
<1>10. ASSUME NEW x \in Slot PROVE Thread(x)'
  <2>1. CASE x = p
    BY <2>1
  <2>2. CASE x # p /\ share[x] = share[p]
    <3>1. st'[x] # "run"
      BY <1>1, <2>2
    <3>2. job'[x] = NoJob
      BY <1>1, <1>4, <1>6, <2>2 DEF Alone, Calls
    <3>. QED  BY <3>1, <3>2, IdleThread
  <2>3. CASE x # p /\ share[x] # share[p]
    <3>1. share[x] \in Slot
      BY <1>3
    <3>2. st'[x] = st[x] /\ job'[x] = job[x] /\ limit'[share[x]] = limit[share[x]]
      BY <1>1, <1>4, <2>3, <3>1
    <3>3. \A y \in Slot : job[y].op \in {"sbrk", "spawn"} /\ share[y] = share[x] =>
                            job'[y] = job[y] /\ share'[y] = share[y]
      BY <1>4, <2>3
    <3>4. \A d \in Spaces : d # pgdir[p] /\ (p \in Builders => d # job[p].dir) => Same(m', m, d)
      OBVIOUS
    <3>5. /\ share[x] # share[p] /\ share'[x] = share[x] /\ pgdir'[x] = pgdir[x] /\ project' = project
          /\ sz'[share[x]] = sz[share[x]]
      BY <2>3
    <3>. QED  BY ONLY MInv, p \in Slot, x \in Slot, <1>1, <3>2, <3>3, <3>4, <3>5, Elsewhere
  <2>. QED  BY <2>1, <2>2, <2>3
<1>. QED  BY <1>2, <1>5, <1>9, <1>10 DEF MInv

\* What the end of the other threads leaves.
LEMMA EndedFrames ==
  ASSUME MInv, torn = "no", torn' = "no", NEW p \in Slot, Runs(p), Ended(p),
         UNCHANGED <<project, kstack, pgdir, share, sz, parent, panicked>>,
         NEW j, job' = [job EXCEPT ![p] = j]
  PROVE  /\ KStacks' = KStacks /\ \A x, y \in InUse' : kstack'[x] = kstack'[y] => x = y
         /\ j.op = "no" => Spaces' = Spaces
         /\ j.op = "exec" => Spaces' = Spaces \cup {j.dir}
<1>1. /\ job[p] = NoJob /\ \A x \in Slot : st'[x] \in {"unused", "embryo"} \/ st[x] \in {"unused", "embryo"} => st'[x] = st[x]
  BY EndedIs
<1>2. {pgdir[x] : x \in Owners'} = {pgdir[x] : x \in Owners}
  BY EndedOwners, Zenon
<1>3. job'[p] = j /\ \A x \in Slot : x # p => job'[x] = job[x]
  BY Sound
<1>4. InUse' = InUse
  BY <1>1 DEF InUse
<1>5. KStacks' = KStacks
  BY <1>4 DEF KStacks, InUse
<1>6. \A x, y \in InUse' : kstack'[x] = kstack'[y] => x = y
  BY <1>4 DEF MInv, Framed
<1>7. p \notin Builders /\ Builders \subseteq Slot
  BY <1>1, NoJobIs DEF Builders, Building
<1>8. Spaces' = {pgdir[x] : x \in Owners'} \cup {job'[x].dir : x \in Builders'}
  BY DEF Spaces, Owners, Builders, Building
<1>9. Spaces = {pgdir[x] : x \in Owners} \cup {job[x].dir : x \in Builders}
  BY Where
<1>10. ASSUME j.op = "no" PROVE Spaces' = Spaces
  <2>1. Builders' = Builders
    BY <1>1, <1>3, <1>10, NoJobIs DEF Builders, Building
  <2>2. {job'[x].dir : x \in Builders'} = {job[x].dir : x \in Builders}
    BY <1>3, <1>7, <2>1
  <2>. QED  BY <1>2, <1>8, <1>9, <2>2, Zenon
<1>11. ASSUME j.op = "exec" PROVE Spaces' = Spaces \cup {j.dir}
  <2>1. Builders' = Builders \cup {p}
    BY <1>3, <1>11 DEF Builders, Building
  <2>2. {job'[x].dir : x \in Builders'} = {job[x].dir : x \in Builders} \cup {j.dir}
    BY <1>3, <1>7, <2>1
  <2>. QED  BY <1>2, <1>8, <1>9, <2>2, Zenon
<1>. QED  BY <1>5, <1>6, <1>10, <1>11

LEMMA ExecFailsStep ==
  ASSUME MInv, torn = "no", torn' = "no", NEW p \in Slot, ExecFails(p)
  PROVE  MInv'
<1>1. /\ Runs(p) /\ Ended(p) /\ m' = m
      /\ job' = [x \in Slot |-> IF x \in Others(p) THEN NoJob ELSE job[x]]
      /\ UNCHANGED <<project, kstack, pgdir, share, sz, parent, panicked>>
  BY DEF ExecFails
<1>2. /\ Alone(p) /\ st[p] = "run" /\ st'[p] = "run" /\ job[p] = NoJob /\ limit'[share[p]] = 0
      /\ \A x \in Others(p) : job[x] = NoJob
  BY <1>1, EndedIs
<1>3. job \in [Slot -> JobType] /\ m.space[0] = NoSpace
  BY Sound
<1>4. job' = job /\ job' = [job EXCEPT ![p] = NoJob]
  BY <1>1, <1>2, <1>3, Zenon
<1>5. /\ Good(m', Spaces, KStacks) /\ (AllUsed(m, Spaces, KStacks) => AllUsed(m', Spaces, KStacks))
      /\ m'.space[0] = m.space[0] /\ \A e : Same(m', m, e)
  BY <1>1, MemoryStays
<1>6. KStacks' = KStacks /\ Spaces' = Spaces /\ \A x, y \in InUse' : kstack'[x] = kstack'[y] => x = y
  BY <1>1, <1>4, NoJobIs, EndedFrames
<1>7. Framed'
  BY <1>1, <1>3, <1>5, <1>6 DEF MInv, Framed
<1>8. Thread(p)'
  <2>1. Sized(p)'
    BY <1>1, <1>2, <1>4 DEF MInv, Thread, Sized
  <2>2. limit'[share'[p]] # 0 => sz'[share'[p]] < limit'[share'[p]] + PGSIZE
    BY <1>1, <1>2
  <2>. QED  BY <1>2, <1>4, <2>1, <2>2, IdleRunner
<1>9. /\ NoJob \in JobType /\ NoJob.op \in {"no", "exec"} /\ (NoJob.op = "no" => NoJob = NoJob) /\ NoJob.child = 0
      /\ (NoJob.op = "exec" => NoJob.dir \notin Spaces) /\ \A e \in Spaces : Same(m', m, e)
  BY <1>5, NoJobIs
<1>. QED  BY ONLY MInv, torn = "no", torn' = "no", p \in Slot, <1>1, <1>4, <1>7, <1>8, <1>9, EndedStep

LEMMA ExecStartStep ==
  ASSUME MInv, torn = "no", torn' = "no", NEW p \in Slot, NEW prog \in Programs, NEW n \in Stacks, ExecStart(p, prog, n)
  PROVE  MInv'
<1>. PICK s : s = setupkvm(m)
  OBVIOUS
<1>. DEFINE j == [NoJob EXCEPT !.op = "exec", !.at = "load", !.dir = s.dir, !.prog = prog, !.stack = n]
<1>1. /\ Runs(p) /\ Ended(p) /\ m' = s.x /\ KernelFits(m)
      /\ job' = [x \in Slot |-> IF x \in Others(p) THEN NoJob ELSE IF x = p THEN j ELSE job[x]]
      /\ UNCHANGED <<project, kstack, pgdir, share, sz, parent, panicked>>
  BY DEF ExecStart
<1>2. /\ Alone(p) /\ st[p] = "run" /\ st'[p] = "run" /\ job[p] = NoJob /\ limit'[share[p]] = 0
      /\ \A x \in Others(p) : job[x] = NoJob
  BY <1>1, EndedIs
<1>3. job \in [Slot -> JobType] /\ m.space[0] = NoSpace /\ Good(m, Spaces, KStacks) /\ m \in MemType
  BY Sound
<1>4. job' = [job EXCEPT ![p] = j]
  <2>1. p \notin Others(p)
    BY DEF Others
  <2>. HIDE DEF j
  <2>. QED  BY <1>1, <1>2, <1>3, <2>1, Zenon
<1>5. m.free # {}
  <2>1. Cardinality({}) = 0
    BY FS_EmptySet
  <2>2. Cardinality(m.free) > KTAB /\ KTAB \in Nat
    BY <1>1, Numbers DEF KernelFits
  <2>. QED  BY <2>1, <2>2
<1>6. /\ s.dir \notin Spaces /\ s.dir \in Frame
      /\ Good(m', Spaces \cup {s.dir}, KStacks)
      /\ AllUsed(m, Spaces, KStacks) => AllUsed(m', Spaces \cup {s.dir}, KStacks)
      /\ \A e \in Spaces \cup {0} : m'.space[e] = m.space[e]
      /\ Exact(m', s.dir, 0)
      /\ m'.content = m.content
  <2>1. /\ s.dir \notin Spaces /\ s.dir \in Frame
        /\ Good(s.x, Spaces \cup {s.dir}, KStacks)
        /\ AllUsed(m, Spaces, KStacks) => AllUsed(s.x, Spaces \cup {s.dir}, KStacks)
        /\ \A e \in Spaces \cup {0} : s.x.space[e] = m.space[e]
        /\ Exact(s.x, s.dir, 0)
        /\ s.x.content = m.content
    <3>1. Good(m, Spaces, KStacks)
      BY <1>3
    <3>. QED  BY ONLY s = setupkvm(m), <1>5, <3>1, setupkvmIs
  <2>. QED  BY ONLY <1>1, <2>1
<1>7. \A e \in Spaces : Same(m', m, e)
  BY <1>6 DEF Same
<1>8. /\ j \in JobType /\ j.op = "exec" /\ j.at = "load" /\ j.dir = s.dir /\ j.to = 0 /\ j.child = 0
  <2>1. j = [NoJob EXCEPT !.op = "exec", !.at = "load", !.dir = s.dir, !.prog = prog, !.stack = n]
    OBVIOUS
  <2>2. s.dir \in Frame /\ prog \in Seq(Segment) /\ n \in Nat
    BY <1>6, MemAssumption DEF Segment
  <2>. HIDE DEF j
  <2>3. j.op = "exec" /\ j.at = "load" /\ j.dir = s.dir /\ j.a = NoJob.a /\ j.old = NoJob.old /\ j.to = NoJob.to
        /\ j.child = NoJob.child /\ j.prog = prog /\ j.stack = n
        /\ j = [op |-> j.op, at |-> j.at, dir |-> j.dir, a |-> j.a, old |-> j.old, to |-> j.to,
                child |-> j.child, prog |-> j.prog, stack |-> j.stack]
    BY ONLY <2>1, NoJobIs, Zenon DEF JobType
  <2>. QED  BY ONLY <2>2, <2>3, NoJobIs DEF JobType
<1>. HIDE DEF j
<1>9. KStacks' = KStacks /\ Spaces' = Spaces \cup {s.dir} /\ \A x, y \in InUse' : kstack'[x] = kstack'[y] => x = y
  BY <1>1, <1>4, <1>8, EndedFrames
<1>10. Framed'
  <2>1. project = 1 => AllUsed(m, Spaces, KStacks)
    BY DEF MInv, Framed
  <2>. QED  BY <1>1, <1>3, <1>6, <1>9, <2>1 DEF Framed
<1>11. job'[p] = j
  BY <1>3, <1>4
<1>12. Thread(p)'
  <2>1. \A y \in Slot : job[y].op \in {"sbrk", "spawn"} => share[y] # share[p]
    BY <1>2, NoJobIs DEF Alone
  <2>2. sz[share[p]] < KERNBASE /\ (Exact(m, pgdir[p], PagesOf(sz[share[p]])) \/ Exact(m, pgdir[p], 0))
    BY <1>2, <2>1 DEF MInv, Thread, Sized
  <2>3. Same(m', m, pgdir[p])
    BY <1>2, <1>7, Where
  <2>4. Exact(m', pgdir[p], PagesOf(sz[share[p]])) \/ Exact(m', pgdir[p], 0)
    BY <2>2, <2>3, Zenon DEF Exact, Same
  <2>5. Sized(p)'
    BY <1>1, <2>2, <2>4 DEF Sized
  <2>6. PagesOf(0) = 0
    BY PagesBelow, Numbers DEF PagesOf
  <2>7. Progress(p)'
    BY <1>6, <1>8, <1>11, <2>6, Numbers, SMTT(30) DEF Progress, AllocOps
  <2>8. Limited(p)'
    BY <1>1, <1>2, <1>8, <1>11, SMTT(30) DEF Limited
  <2>9. Copied(p)'
    <3>1. \A v \in Page : m'.space[s.dir].pte[v].f = 0
      <4>1. Exact(m', s.dir, 0)
        BY <1>6
      <4>2. \A v \in Page : ~(v < 0)
        BY ONLY PageNat
      <4>. QED  BY ONLY <4>1, <4>2, Zenon DEF Exact
    <3>. QED  BY <1>8, <1>11, <3>1 DEF Copied
  <2>. QED  BY <2>5, <2>7, <2>8, <2>9 DEF Thread
<1>13. /\ j \in JobType /\ j.op \in {"no", "exec"} /\ (j.op = "no" => j = NoJob) /\ j.child = 0
       /\ (j.op = "exec" => j.dir \notin Spaces)
  BY <1>6, <1>8
<1>. QED  BY ONLY MInv, torn = "no", torn' = "no", p \in Slot, <1>1, <1>4, <1>7, <1>10, <1>12, <1>13, EndedStep

\* exit(): the head of the family stands for the address space.
LEMMA exitStep ==
  ASSUME MInv, torn = "no", torn' = "no", NEW p \in Slot, exit(p)
  PROVE  MInv'
<1>. DEFINE h == head[share[p]]
<1>1. /\ st[p] = "run" /\ job[p].op = "no" /\ Tears(p)
      /\ st' = [x \in Slot |-> IF x \in Family(p) THEN "zombie"
                               ELSE IF \E y \in Family(p) : job[y].child = x THEN "lost" ELSE st[x]]
      /\ parent' = [s \in Slot |-> IF parent[s] = p THEN 1 ELSE parent[s]]
      /\ job' = [x \in Slot |-> IF x \in Family(p) THEN NoJob ELSE job[x]]
      /\ UNCHANGED <<project, m, kstack, pgdir, share, sz, limit, head, panicked>>
  BY DEF exit
<1>2. Alone(p)
  BY <1>1, TearsAlone
<1>3. /\ st \in [Slot -> {"unused", "embryo", "run", "zombie"}] /\ share \in [Slot -> Slot] /\ job \in [Slot -> JobType]
      /\ parent \in [Slot -> Slot \cup {0}]
  BY DEF MInv, MemTypes
<1>4. Calls /\ Families
  BY DEF MInv
<1>5. \A x \in Slot : share[x] = share[p] => job[x] = NoJob
  BY <1>1, <1>2, <1>4 DEF Alone, Calls
<1>6. Family(p) \subseteq Slot /\ \A x \in Slot : x \in Family(p) <=> st[x] \in {"run", "zombie"} /\ share[x] = share[p]
  BY DEF Family
<1>7. job' = job
  BY <1>1, <1>3, <1>5, <1>6
<1>8. \A x \in Slot : st'[x] = IF st[x] \in {"run", "zombie"} /\ share[x] = share[p] THEN "zombie" ELSE st[x]
  <2>1. \A x \in Slot : ~\E y \in Family(p) : job[y].child = x
    BY <1>5, <1>6, NoJobIs, Numbers, ZenonT(60)
  <2>. QED  BY <1>1, <1>6, <2>1
<1>9. st' \in [Slot -> {"unused", "embryo", "run", "zombie"}]
  <2>1. st' = [x \in Slot |-> st'[x]]
    BY <1>1
  <2>2. \A x \in Slot : st'[x] \in {"unused", "embryo", "run", "zombie"}
    BY <1>3, <1>8
  <2>. QED  BY <2>1, <2>2
<1>10. MemTypes'
  <2>1. parent' \in [Slot -> Slot \cup {0}]
    BY <1>1, <1>3, Numbers
  <2>. QED  BY <1>1, <1>7, <1>9, <2>1 DEF MInv, MemTypes
<1>11. h \in Slot /\ st[h] = "run" /\ share[h] = share[p] /\ pgdir[h] = pgdir[p] /\ head[share[h]] = h
  BY <1>1, <1>4 DEF Families
<1>12. \A x \in Slot : x \in Owners' <=> (IF share[x] = share[p] THEN x = h ELSE x \in Owners)
  BY <1>1, <1>8, <1>11 DEF Owners
<1>13. Owners \subseteq Slot /\ Owners' \subseteq Slot /\ h \in Owners
  BY <1>11 DEF Owners
<1>14. Owners' \subseteq Owners /\ h \in Owners'
  BY <1>11, <1>12, <1>13
<1>15. \A x \in Owners : share[x] = share[p] => pgdir[x] = pgdir[h]
  BY <1>4, <1>11 DEF Families, Owners
<1>16. {pgdir[x] : x \in Owners'} = {pgdir[x] : x \in Owners}
  BY <1>12, <1>13, <1>14, <1>15
<1>17. Spaces' = Spaces
  <2>1. Spaces' = {pgdir[x] : x \in Owners'} \cup {job[x].dir : x \in Builders}
    BY <1>1, <1>7, Zenon DEF Spaces, Owners, Builders, Building
  <2>. QED  BY <1>16, <2>1, Where
<1>18. InUse' = InUse
  BY <1>3, <1>8 DEF InUse
<1>19. KStacks' = KStacks
  BY <1>1, <1>18, Zenon DEF KStacks, InUse
<1>20. Framed'
  BY <1>1, <1>17, <1>18, <1>19 DEF MInv, Framed
<1>21. \A x \in Slot : st'[x] \in {"run", "zombie"} <=> st[x] \in {"run", "zombie"}
  BY <1>3, <1>8
<1>22. \A x \in Slot : share[x] # share[p] => st'[x] = st[x]
  BY <1>8
<1>23. \A x \in Slot : st'[x] = "run" => share[x] # share[p] /\ st[x] = "run"
  BY <1>8
<1>24. Families'
  <2>1. project = 1 => \A x \in Slot : /\ share[x] = x /\ limit[x] = 0
                                       /\ st'[x] \in {"run", "zombie"} => head[x] = x
    BY <1>4, <1>21 DEF Families
  <2>2. \A x \in Slot : st'[x] \in {"run", "zombie"} =>
          st'[share[x]] \in {"run", "zombie"} /\ share[share[x]] = share[x]
    BY <1>3, <1>4, <1>21 DEF Families
  <2>3. ASSUME NEW x \in Slot, st'[x] = "run"
        PROVE  head[share[x]] \in Slot /\ st'[head[share[x]]] = "run" /\ share[head[share[x]]] = share[x] /\ pgdir[head[share[x]]] = pgdir[x]
    BY <1>4, <1>22, <1>23, <2>3 DEF Families
  <2>4. \A x, y \in Owners' : pgdir[x] = pgdir[y] => share[x] = share[y]
    BY <1>4, <1>14 DEF Families
  <2>. QED  BY <1>1, <2>1, <2>2, <2>3, <2>4 DEF Families
<1>25. Calls'
  <2>0. \A x \in Slot : job[x].op # "no" => share[x] # share[p]
    BY <1>5, NoJobIs
  <2>1. \A x \in Slot : job[x].op # "no" => st'[x] = "run"
    BY <1>4, <1>22, <2>0 DEF Calls
  <2>2. ASSUME NEW x \in Slot
        PROVE  IF job[x].op \in {"fork", "spawn"} THEN st'[job[x].child] = "embryo" /\ job[x].child # 0
               ELSE job[x].child = 0
    <3>1. job[x].child \in Slot \cup {0}
      BY <1>3 DEF JobType
    <3>. QED  BY <1>4, <1>8, <3>1 DEF Calls
  <2>3. \A x, y \in Slot : job[x].op \in Execing /\ st'[y] = "run" /\ share[y] = share[x] => y = x
    BY <1>4, <1>23 DEF Calls
  <2>4. Builders' = Builders
    BY <1>7 DEF Builders
  <2>5. \A x \in Builders, y \in Owners' : job[x].dir # pgdir[y]
    BY <1>4, <1>14 DEF Calls
  <2>6. /\ \A x \in Slot : job[x].op = "no" => job[x] = NoJob
        /\ \A x, y \in Slot : job[x].op # "no" /\ job[y].op # "no" /\ share[x] = share[y] => x = y
        /\ \A x, y \in Slot : job[x].child # 0 /\ job[x].child = job[y].child => x = y
        /\ \A x, y \in Builders : job[x].dir = job[y].dir => x = y
    BY <1>4 DEF Calls
  <2>. QED  BY <1>1, <1>7, <2>1, <2>2, <2>3, <2>4, <2>5, <2>6 DEF Calls
<1>26. ASSUME NEW x \in Slot PROVE Thread(x)'
  <2>1. CASE share[x] = share[p]
    <3>1. job'[x] = NoJob /\ st'[x] # "run"
      BY <1>5, <1>7, <1>23, <2>1
    <3>. QED  BY <3>1, IdleThread
  <2>2. CASE share[x] # share[p]
    <3>1. /\ project' = project
          /\ st'[x] = st[x] /\ share'[x] = share[x] /\ pgdir'[x] = pgdir[x] /\ job'[x] = job[x]
          /\ sz'[share[x]] = sz[share[x]] /\ limit'[share[x]] = limit[share[x]]
          /\ \A y \in Slot : job[y].op \in {"sbrk", "spawn"} /\ share[y] = share[x] =>
                               job'[y].op \in {"sbrk", "spawn"} /\ share'[y] = share[x]
      BY <1>1, <1>7, <1>22, <2>2
    <3>2. \A e : Same(m', m, e)
      BY <1>1, MemoryStays
    <3>3. Kept(x)
      BY <3>1, <3>2 DEF Kept
    <3>. QED  BY <3>3, KeptThread
  <2>. QED  BY <2>1, <2>2
<1>. QED  BY <1>10, <1>20, <1>24, <1>25, <1>26 DEF MInv

\* wait(): the slots and the kernel stacks of the zombies, and in Project1 their
\* address space.
Zombies(s) == {x \in Slot : st[x] = "zombie" /\ share[x] = s}

LEMMA WaitStates ==
  ASSUME MInv, torn = "no", torn' = "no", NEW p \in Slot, NEW s \in Slot, wait(p, s),
         NEW Z, Z = Zombies(s)
  PROVE  /\ Z \subseteq Slot /\ Z # {} /\ Z \subseteq InUse
         /\ \A x \in Slot : st'[x] = IF x \in Z THEN "unused" ELSE st[x]
         /\ \A x \in Slot : st[x] \in {"run", "zombie"} => (x \in Z <=> share[x] = s)
         /\ \A x \in Slot : st'[x] \in {"run", "zombie"} <=> (st[x] \in {"run", "zombie"} /\ share[x] # s)
         /\ head'[s] = 0 /\ \A x \in Slot : x # s => head'[x] = head[x] /\ sz'[x] = sz[x] /\ limit'[x] = limit[x]
         /\ limit'[s] = 0 /\ share[p] # s
         /\ MemTypes' /\ Owners' = Owners \ Z /\ InUse' = InUse \ Z
<1>1. /\ Runs(p) /\ Z # {}
      /\ st' = [x \in Slot |-> IF x \in Z THEN "unused" ELSE st[x]]
      /\ sz' = [sz EXCEPT ![s] = 0] /\ limit' = [limit EXCEPT ![s] = 0]
      /\ parent' = [parent EXCEPT ![s] = 0] /\ head' = [head EXCEPT ![s] = 0]
      /\ torn' = IF \E x \in Slot \ Z : st[x] = "run" /\ share[x] = s THEN "reused" ELSE torn
      /\ UNCHANGED <<project, kstack, pgdir, share, job, panicked>>
  BY DEF wait, Zombies
<1>2. MemTypes
  BY DEF MInv
<1>3. \A x \in Slot : st[x] = "run" => share[x] # s
  BY <1>1 DEF Zombies
<1>4. Z \subseteq Slot /\ Z \subseteq InUse
  BY DEF InUse, Zombies
<1>5. \A x \in Slot : st'[x] = IF x \in Z THEN "unused" ELSE st[x]
  BY <1>1
<1>6. \A x \in Slot : st[x] \in {"run", "zombie"} => (x \in Z <=> share[x] = s)
  BY <1>3 DEF Zombies
<1>7. \A x \in Slot : st'[x] \in {"run", "zombie"} <=> (st[x] \in {"run", "zombie"} /\ share[x] # s)
  BY <1>5, <1>6 DEF Zombies
<1>8. /\ head'[s] = 0 /\ limit'[s] = 0
      /\ \A x \in Slot : x # s => head'[x] = head[x] /\ sz'[x] = sz[x] /\ limit'[x] = limit[x]
  BY <1>1, <1>2 DEF MemTypes
<1>9. share[p] # s
  BY <1>1, <1>3 DEF Runs
<1>10. MemTypes'
  <2>1. st' \in [Slot -> {"unused", "embryo", "run", "zombie"}]
    BY <1>1, <1>2 DEF MemTypes
  <2>2. /\ sz' \in [Slot -> Nat] /\ limit' \in [Slot -> Nat]
        /\ parent' \in [Slot -> Slot \cup {0}] /\ head' \in [Slot -> Slot \cup {0}]
    BY <1>1, <1>2 DEF MemTypes
  <2>. QED  BY <1>1, <1>2, <2>1, <2>2 DEF MemTypes
<1>11. Owners' = Owners \ Z
  <2>1. share \in [Slot -> Slot] /\ share' = share
    BY <1>1, <1>2 DEF MemTypes
  <2>2. \A x \in Slot : x \in Owners' <=> x \in Owners /\ x \notin Z
    <3>. TAKE x \in Slot
    <3>1. CASE x \in Z
      BY <1>5, <3>1 DEF Owners
    <3>2. CASE x \notin Z
      <4>1. st'[x] = st[x]
        BY <1>5, <3>2
      <4>2. st[x] = "zombie" => share[x] # s /\ head'[share[x]] = head[share[x]]
        BY <1>8, <2>1, <3>2 DEF Zombies
      <4>. QED  BY <2>1, <3>2, <4>1, <4>2 DEF Owners
    <3>. QED  BY <3>1, <3>2
  <2>3. Owners \subseteq Slot /\ Owners' \subseteq Slot
    BY DEF Owners
  <2>. QED  BY <2>2, <2>3
<1>12. InUse' = InUse \ Z
  BY <1>5 DEF InUse
<1>. QED  BY <1>1, <1>4, <1>5, <1>6, <1>7, <1>8, <1>9, <1>10, <1>11, <1>12

\* What is left of the address spaces.
LEMMA WaitSpaces ==
  ASSUME MInv, torn = "no", torn' = "no", NEW p \in Slot, NEW s \in Slot, wait(p, s)
  PROVE  /\ Framed' /\ Spaces' \subseteq Spaces
         /\ \A e \in Spaces' : Same(m', m, e)
<1>. PICK Z : Z = Zombies(s)
  OBVIOUS
<1>. PICK R : R = {kstack[z] : z \in Z}
  BY Zenon
<1>. PICK y : y = kfree(m, R)
  BY Zenon
<1>1. /\ m' = IF project = 2 THEN y ELSE freevm(y, pgdir[s])
      /\ UNCHANGED <<project, kstack, pgdir, share, job, panicked>>
  BY DEF wait, Freed, Zombies
<1>2. /\ Z \subseteq Slot /\ Z # {} /\ Z \subseteq InUse
      /\ Owners' = Owners \ Z /\ InUse' = InUse \ Z
      /\ \A x \in Slot : st[x] \in {"run", "zombie"} => (x \in Z <=> share[x] = s)
  BY WaitStates
<1>3. Good(m, Spaces, KStacks) /\ m \in MemType /\ m.space[0] = NoSpace
  BY Sound
<1>4. R \subseteq KStacks /\ R \subseteq Frame
  BY <1>2, Where
<1>5. KStacks' = KStacks \ R /\ \A x, z \in InUse' : kstack'[x] = kstack'[z] => x = z
  <2>1. KStacks = {kstack[x] : x \in InUse} /\ KStacks' = {kstack[x] : x \in InUse'}
    BY <1>1 DEF KStacks, InUse
  <2>2. \A x, z \in InUse : kstack[x] = kstack[z] => x = z
    BY DEF MInv, Framed
  <2>. QED  BY <1>1, <1>2, <2>1, <2>2
<1>6. /\ y \in MemType /\ y.frames = m.frames /\ y.free = m.free \cup R /\ y.space = m.space
      /\ \A g \in Frame : y.content[g] = IF g \in R THEN Junk ELSE m.content[g]
  <2>1. R \in SUBSET Frame
    BY <1>4
  <2>. QED  BY ONLY y = kfree(m, R), <1>3, <2>1, kfreeIs
<1>7. Good(y, Spaces, KStacks \ R) /\ (AllUsed(m, Spaces, KStacks) => AllUsed(y, Spaces, KStacks \ R))
  <2>1. R \in SUBSET KStacks
    BY <1>4
  <2>. QED  BY ONLY <1>3, <1>6, <2>1, GoodGive, Zenon
<1>8. Untouched(y, m)
  BY ONLY <1>6 DEF Untouched
<1>9. Spaces' = {pgdir[x] : x \in Owners \ Z} \cup {job[x].dir : x \in Builders}
  BY <1>1, <1>2 DEF Spaces, Owners, Builders, Building
<1>10. Spaces = {pgdir[x] : x \in Owners} \cup {job[x].dir : x \in Builders} /\ Spaces \subseteq Frame /\ project \in {1, 2}
  BY Where
<1>11. Spaces' \subseteq Spaces
  BY <1>9, <1>10
<1>12. CASE project = 2
  <2>1. m' = y
    BY <1>1, <1>12
  <2>2. Spaces' \in SUBSET Spaces
    BY <1>11
  <2>3. Good(m', Spaces', KStacks \ R)
    BY ONLY <1>7, <2>1, <2>2, GoodFewer
  <2>4. m'.space[0] = NoSpace
    BY <1>3, <1>6, <2>1
  <2>5. Framed'
    BY <1>1, <1>5, <1>12, <2>3, <2>4 DEF Framed
  <2>6. \A e \in Spaces' : Same(m', m, e)
    <3>. TAKE e \in Spaces'
    <3>1. e \in Spaces \cap Spaces' /\ m'.space[e] = m.space[e] /\ Untouched(m', m) /\ Good(m, Spaces, KStacks)
      BY <1>3, <1>6, <1>8, <1>11, <2>1
    <3>. QED  BY ONLY <2>3, <3>1, SameContent
  <2>. QED  BY <1>11, <2>5, <2>6
<1>13. CASE project = 1
  <2>. PICK o : o = pgdir[s]
    OBVIOUS
  <2>1. m' = freevm(y, o)
    BY <1>1, <1>13
  <2>2. Z = {s} /\ s \in Owners
    <3>1. Families
      BY DEF MInv
    <3>2. \A x \in Slot : share[x] = x /\ (st[x] \in {"run", "zombie"} => head[x] = x)
      BY <1>13, <3>1 DEF Families
    <3>3. s \in Z /\ \A x \in Z : x = s
      BY <1>2, <3>2 DEF Zombies
    <3>. QED  BY <3>2, <3>3 DEF Owners, Zombies
  <2>3. o \in Spaces
    BY <1>10, <2>2
  <2>4. \A x \in Owners \ Z : pgdir[x] # o
    <3>1. Families /\ Owners \subseteq Slot
      BY DEF MInv, Owners
    <3>. QED  BY <1>13, <2>2, <3>1 DEF Families
  <2>5. \A x \in Builders : job[x].dir # o
    BY <2>2 DEF MInv, Calls
  <2>6. Spaces' = Spaces \ {o}
    BY <1>9, <1>10, <2>2, <2>4, <2>5
  <2>7. /\ Good(m', Spaces \ {o}, KStacks \ R)
        /\ AllUsed(y, Spaces, KStacks \ R) => AllUsed(m', Spaces \ {o}, KStacks \ R)
        /\ \A e \in Frame \cup {0} : e # o => m'.space[e] = y.space[e]
        /\ Untouched(m', y)
    <3>1. Good(y, Spaces, KStacks \ R)
      BY <1>7
    <3>. QED  BY ONLY <2>1, <2>3, <3>1, freevmIs
  <2>8. m'.space[0] = NoSpace
    <3>1. o # 0
      BY <1>10, <2>3, Numbers
    <3>. QED  BY <1>3, <1>6, <2>7, <3>1
  <2>9. Framed'
    <3>1. AllUsed(m, Spaces, KStacks)
      BY <1>13 DEF MInv, Framed
    <3>. QED  BY <1>5, <1>7, <2>6, <2>7, <2>8, <3>1 DEF Framed
  <2>10. \A e \in Spaces' : Same(m', m, e)
    <3>. TAKE e \in Spaces'
    <3>1. e \in Spaces \cap (Spaces \ {o}) /\ e \in Spaces \cap Spaces /\ e \in Frame /\ e # o
      BY <1>10, <2>6
    <3>2. m'.space[e] = y.space[e] /\ y.space[e] = m.space[e]
      BY <1>6, <2>7, <3>1
    <3>3. Same(y, m, e)
      <4>1. Good(m, Spaces, KStacks) /\ Good(y, Spaces, KStacks \ R)
        BY <1>3, <1>7
      <4>. QED  BY ONLY <1>8, <3>1, <3>2, <4>1, SameContent
    <3>4. Same(m', y, e)
      <4>1. Good(y, Spaces, KStacks \ R) /\ Good(m', Spaces \ {o}, KStacks \ R) /\ Untouched(m', y)
        BY <1>7, <2>7
      <4>. QED  BY ONLY <3>1, <3>2, <4>1, SameContent
    <3>. QED  BY ONLY <3>2, <3>3, <3>4 DEF Same
  <2>. QED  BY <1>11, <2>9, <2>10
<1>. QED  BY <1>10, <1>12, <1>13

LEMMA waitStep ==
  ASSUME MInv, torn = "no", torn' = "no", NEW p \in Slot, NEW s \in Slot, wait(p, s)
  PROVE  MInv'
<1>. PICK Z : Z = Zombies(s)
  OBVIOUS
<1>1. UNCHANGED <<project, kstack, pgdir, share, job, panicked>>
  BY DEF wait
<1>2. /\ Z \subseteq Slot
      /\ \A x \in Slot : st'[x] = IF x \in Z THEN "unused" ELSE st[x]
      /\ \A x \in Slot : st[x] \in {"run", "zombie"} => (x \in Z <=> share[x] = s)
      /\ \A x \in Slot : st'[x] \in {"run", "zombie"} <=> (st[x] \in {"run", "zombie"} /\ share[x] # s)
      /\ \A x \in Slot : x # s => head'[x] = head[x] /\ sz'[x] = sz[x] /\ limit'[x] = limit[x]
      /\ limit'[s] = 0
      /\ MemTypes' /\ Owners' = Owners \ Z
  BY WaitStates
<1>3. Framed' /\ Spaces' \subseteq Spaces /\ \A e \in Spaces' : Same(m', m, e)
  BY WaitSpaces
<1>4. share \in [Slot -> Slot] /\ job \in [Slot -> JobType]
  BY Sound
<1>5. Families /\ Calls
  BY DEF MInv
<1>5a. \A x \in Z : st[x] = "zombie"
  BY DEF Zombies
<1>6. \A x \in Slot : st'[x] = "run" <=> st[x] = "run"
  BY <1>2, <1>5a
<1>6a. \A x \in Slot : st[x] = "run" => share[x] # s
  BY <1>2, <1>6
<1>7. Families'
  <2>1. project = 1 => \A x \in Slot : /\ share[x] = x /\ limit'[x] = 0
                                       /\ st'[x] \in {"run", "zombie"} => head'[x] = x
    BY <1>2, <1>5 DEF Families
  <2>2. \A x \in Slot : st'[x] \in {"run", "zombie"} =>
          st'[share[x]] \in {"run", "zombie"} /\ share[share[x]] = share[x]
    BY <1>2, <1>4, <1>5 DEF Families
  <2>3. ASSUME NEW x \in Slot, st'[x] = "run"
        PROVE  head'[share[x]] \in Slot /\ st'[head'[share[x]]] = "run" /\ share[head'[share[x]]] = share[x] /\ pgdir[head'[share[x]]] = pgdir[x]
    <3>1. st[x] = "run" /\ share[x] # s /\ share[x] \in Slot
      BY <1>4, <1>6, <1>6a, <2>3
    <3>2. head'[share[x]] = head[share[x]]
      BY <1>2, <3>1
    <3>. QED  BY <1>5, <1>6, <3>1, <3>2 DEF Families
  <2>4. \A x, y \in Owners' : pgdir[x] = pgdir[y] => share[x] = share[y]
    BY <1>2, <1>5 DEF Families
  <2>. QED  BY <1>1, <2>1, <2>2, <2>3, <2>4 DEF Families
<1>8. Calls'
  <2>1. \A x \in Slot : job[x].op # "no" => st'[x] = "run"
    BY <1>5, <1>6 DEF Calls
  <2>2. ASSUME NEW x \in Slot
        PROVE  IF job[x].op \in {"fork", "spawn"} THEN st'[job[x].child] = "embryo" /\ job[x].child # 0
               ELSE job[x].child = 0
    <3>1. job[x].child \in Slot \cup {0}
      BY <1>4 DEF JobType
    <3>. QED  BY <1>2, <1>5, <1>5a, <3>1 DEF Calls
  <2>3. \A x, y \in Slot : job[x].op \in Execing /\ st'[y] = "run" /\ share[y] = share[x] => y = x
    BY <1>5, <1>6 DEF Calls
  <2>4. Builders' = Builders
    BY <1>1 DEF Builders
  <2>5. \A x \in Builders, y \in Owners' : job[x].dir # pgdir[y]
    BY <1>2, <1>5 DEF Calls
  <2>6. /\ \A x \in Slot : job[x].op = "no" => job[x] = NoJob
        /\ \A x, y \in Slot : job[x].op # "no" /\ job[y].op # "no" /\ share[x] = share[y] => x = y
        /\ \A x, y \in Slot : job[x].child # 0 /\ job[x].child = job[y].child => x = y
        /\ \A x, y \in Builders : job[x].dir = job[y].dir => x = y
    BY <1>5 DEF Calls
  <2>. QED  BY <1>1, <2>1, <2>2, <2>3, <2>4, <2>5, <2>6 DEF Calls
<1>9. ASSUME NEW x \in Slot PROVE Thread(x)'
  <2>1. CASE st[x] # "run"
    <3>1. job'[x] = NoJob /\ st'[x] # "run"
      BY <1>1, <1>5, <1>6, <2>1 DEF Calls
    <3>. QED  BY <3>1, IdleThread
  <2>2. CASE st[x] = "run"
    <3>0. share[x] # s /\ share[x] \in Slot
      BY <1>4, <1>6a, <2>2
    <3>1. /\ project' = project
          /\ st'[x] = st[x] /\ share'[x] = share[x] /\ pgdir'[x] = pgdir[x] /\ job'[x] = job[x]
          /\ sz'[share[x]] = sz[share[x]] /\ limit'[share[x]] = limit[share[x]]
          /\ \A y \in Slot : job[y].op \in {"sbrk", "spawn"} /\ share[y] = share[x] =>
                               job'[y].op \in {"sbrk", "spawn"} /\ share'[y] = share[x]
      BY <1>1, <1>2, <1>6, <2>2, <3>0
    <3>2. Spaces' = {pgdir'[z] : z \in Owners'} \cup {job'[z].dir : z \in Builders'}
      BY DEF Spaces, Owners, Builders, Building
    <3>3. x \in Owners' /\ (x \in Builders => x \in Builders')
      BY <1>1, <1>6, <2>2 DEF Owners, Builders
    <3>4. pgdir[x] \in Spaces' /\ (x \in Builders => job[x].dir \in Spaces')
      BY <1>1, <3>2, <3>3
    <3>5. Kept(x)
      BY <1>3, <3>1, <3>4 DEF Kept
    <3>. QED  BY <3>5, KeptThread
  <2>. QED  BY <2>1, <2>2
<1>. QED  BY <1>2, <1>3, <1>7, <1>8, <1>9 DEF MInv

-----------------------------------------------------------------------------
\* userinit(): the memory suffices, and the invariant holds.

\* Two free frames are enough for a page.
LEMMA TwoFrames ==
  ASSUME NEW x \in MemType, NEW a \in x.free, NEW b \in x.free, a # b,
         NEW d, NEW v, NEW c \in Int, NEW u
  PROVE  NewPage(x, d, v, c, u).res # "full"
<1>. DEFINE f == kalloc(x)
            w == Took(x, f, c)
            r == mappages(w, d, v, f, u)
<1>1. x.free \subseteq Frame /\ x.free \in SUBSET Nat /\ x.free # {}
  BY Numbers, Zenon DEF MemType
<1>2. f \in x.free /\ f \in Frame
  BY <1>1, LowestIn DEF kalloc
<1>3. w.free = x.free \ {f}
  BY DEF Took, MemType
<1>4. ~Out(x) /\ ~Out(w)
  <2>. HIDE DEF w, f
  <2>. QED  BY <1>1, <1>2, <1>3 DEF Out
<1>5. r.res \in {"remap", "ok"}
  <2>. HIDE DEF w, f
  <2>. QED  BY <1>4 DEF mappages
<1>6. NewPage(x, d, v, c, u) = IF Out(x) THEN [res |-> "full", x |-> x]
                               ELSE IF r.res = "full" THEN [r EXCEPT !.x = kfree(r.x, {f})] ELSE r
  BY DEF NewPage
<1>. HIDE DEF r, w, f
<1>. QED  BY <1>4, <1>5, <1>6

\* The kernel's part takes the next KTAB frames.
LEMMA FirstFrames ==
  ASSUME NEW n \in Sizes, NEW w \in MemType, w.free = 2..n, NEW s, s = setupkvm(w)
  PROVE  KTAB + 3 \in s.x.free /\ KTAB + 4 \in s.x.free
<1>. DEFINE A == 3..n
            F == {f \in A : Cardinality({g \in A : g < f}) < KTAB}
<1>1. n \in Nat /\ n >= KTAB + 4 /\ KTAB \in Nat
  BY Numbers
<1>2. kalloc(w) = 2
  <2>1. Lowest(2..n) \in 2..n /\ \A y \in 2..n : Lowest(2..n) <= y
    <3>1. 2 \in 2..n /\ \A y \in 2..n : 2 <= y
      BY <1>1
    <3>. QED  BY <3>1, Zenon DEF Lowest
  <2>2. 2 \in 2..n
    BY <1>1
  <2>. QED  BY <1>1, <2>1, <2>2 DEF kalloc
<1>3. w.free \ {2} = A
  BY <1>1
<1>4. s.x.free = w.free \ ({2} \cup F)
  <2>1. F = {f \in w.free \ {2} : Cardinality({g \in w.free \ {2} : g < f}) < KTAB}
    BY <1>3, Zenon
  <2>2. s.x = [w EXCEPT !.free = @ \ ({2} \cup F), !.space[2] = [NoSpace EXCEPT !.kt = F]]
    BY <1>2, <2>1, Zenon DEF setupkvm
  <2>. HIDE DEF F
  <2>. QED  BY <2>2 DEF MemType
<1>5. ASSUME NEW f \in A PROVE f \in F => f < KTAB + 3
  <2>1. {g \in A : g < f} = 3..(f - 1)
    BY <1>1
  <2>2. Cardinality(3..(f - 1)) = f - 3
    <3>1. Cardinality(3..(f - 1)) = IF 3 > f - 1 THEN 0 ELSE (f - 1) - 3 + 1
      BY <1>1, FS_Interval
    <3>. QED  BY <1>1, <3>1
  <2>3. f \in F => f - 3 < KTAB
    BY <2>1, <2>2, Zenon
  <2>. HIDE DEF F
  <2>. QED  BY <1>1, <2>3
<1>. HIDE DEF F
<1>. QED  BY <1>1, <1>4, <1>5


\* The machine's memory before the first process.
Empty(n) == [frames |-> 1..n, free |-> 1..n, content |-> [f \in Frame |-> Junk],
             space |-> [f \in Frame \cup {0} |-> NoSpace]]

LEMMA EmptyIs ==
  ASSUME NEW n \in Sizes, NEW x, x = Empty(n), NEW k, k = kalloc(x), NEW w, w = Took(x, k, Zero)
  PROVE  /\ k \in Frame
         /\ Good(w, {}, {k}) /\ AllUsed(w, {}, {k}) /\ w.free = 2..n /\ w.space[0] = NoSpace
<1>1. n \in Nat /\ n >= KTAB + 4 /\ KTAB \in Nat /\ 1..n \subseteq Frame
  BY Numbers
<1>3. k = 1
  <2>1. Lowest(1..n) \in 1..n /\ \A y \in 1..n : Lowest(1..n) <= y
    <3>1. 1 \in 1..n /\ \A y \in 1..n : 1 <= y
      BY <1>1
    <3>. QED  BY <3>1, Zenon DEF Lowest
  <2>2. 1 \in 1..n
    BY <1>1
  <2>. QED  BY <1>1, <2>1, <2>2 DEF kalloc, Empty
<1>2. k \in Frame /\ k \in 1..n
  BY <1>1, <1>3
<1>4. NoSpace \in SpaceType
  BY DEF NoSpace, SpaceType, Absent
<1>5. x \in MemType
  BY <1>1, <1>4, Values DEF Empty, MemType
<1>6. x.free = 1..n /\ x.frames = 1..n /\ x.space[0] = NoSpace
  BY DEF Empty
<1>7. Good(x, {}, {}) /\ AllUsed(x, {}, {})
  BY <1>5, <1>6 DEF Good, AllUsed
<1>8. /\ w \in MemType /\ w.frames = x.frames /\ w.free = x.free \ {k} /\ w.space = x.space
      /\ w.content = [x.content EXCEPT ![k] = Zero]
  <2>1. Zero \in Int /\ k \in Frame
    BY <1>2, Values
  <2>. QED  BY ONLY <1>5, <2>1, w = Took(x, k, Zero), TookIs
<1>9. Good(w, {}, {} \cup {k}) /\ AllUsed(w, {}, {} \cup {k})
  <2>1. {k} \in SUBSET x.free
    BY <1>2, <1>6
  <2>. QED  BY ONLY <1>7, <1>8, <2>1, GoodTake
<1>10. {} \cup {k} = {k} /\ (1..n) \ {k} = 2..n
  BY <1>1, <1>3
<1>. QED  BY <1>2, <1>3, <1>6, <1>8, <1>9, <1>10, Zenon

\* The first process: its page of text.
OneProcess(x, d, k) ==
  /\ Good(x, {d}, {k}) /\ AllUsed(x, {d}, {k}) /\ x.space[0] = NoSpace /\ Exact(x, d, 1)
  /\ x.space[d].pte[0].u /\ x.content[x.space[d].pte[0].f] = Text

LEMMA FirstProcess ==
  ASSUME NEW n \in Sizes, NEW x, x = Empty(n), NEW k, k = kalloc(x), NEW w, w = Took(x, k, Zero),
         NEW s, s = setupkvm(w), NEW y, y = inituvm(s.x, s.dir), NEW d, d = s.dir
  PROVE  k \in Frame /\ d \in Frame /\ OneProcess(y.x, d, k)
<1>1. /\ k \in Frame
      /\ Good(w, {}, {k}) /\ AllUsed(w, {}, {k}) /\ w.free = 2..n /\ w.space[0] = NoSpace
  BY ONLY n \in Sizes, x = Empty(n), k = kalloc(x), w = Took(x, k, Zero), EmptyIs
<1>2. w.free # {} /\ w \in MemType
  <2>1. 2 \in 2..n
    BY Numbers
  <2>. QED  BY <1>1, <2>1 DEF Good
<1>3. /\ d \in Frame /\ Good(s.x, {} \cup {d}, {k}) /\ AllUsed(s.x, {} \cup {d}, {k})
      /\ s.x.space[0] = w.space[0] /\ Exact(s.x, d, 0)
  <2>2. Good(w, {}, {k}) /\ AllUsed(w, {}, {k})
    BY <1>1
  <2>1. /\ s.dir \in Frame /\ Good(s.x, {} \cup {s.dir}, {k}) /\ AllUsed(s.x, {} \cup {s.dir}, {k})
        /\ (\A e \in {} \cup {0} : s.x.space[e] = w.space[e]) /\ Exact(s.x, s.dir, 0)
    BY ONLY <1>2, <2>2, s = setupkvm(w), setupkvmIs
  <2>. QED  BY <2>1
<1>4. {} \cup {d} = {d}
  BY SMTT(30)
<1>5. Good(s.x, {d}, {k}) /\ AllUsed(s.x, {d}, {k}) /\ s.x \in MemType /\ d \in {d}
  <2>1. Good(s.x, {d}, {k}) /\ AllUsed(s.x, {d}, {k})
    BY ONLY <1>3, <1>4
  <2>. QED  BY <2>1, Zenon DEF Good
<1>6. 0 \in Page /\ s.x.space[d].pte[0].f = 0
  BY <1>3, PageNat DEF Exact
<1>7. PICK u \in BOOLEAN : u = TRUE
  BY Zenon
<1>8. y = NewPage(s.x, d, 0, Text, u)
  BY <1>7 DEF inituvm
<1>9. y.res # "full"
  <2>1. KTAB + 3 \in s.x.free /\ KTAB + 4 \in s.x.free
    BY ONLY n \in Sizes, <1>2, <1>1, s = setupkvm(w), FirstFrames
  <2>2. KTAB + 3 # KTAB + 4
    BY Numbers
  <2>3. NewPage(s.x, d, 0, Text, u).res # "full"
    BY ONLY <1>5, <2>1, <2>2, Values, TwoFrames
  <2>. QED  BY <1>8, <2>3
<1>10. Untouched(y.x, s.x) /\ \E f : Paged(y.x, s.x, d, 0, f, u) /\ y.x.content[f] = Text
  <2>1. /\ Untouched(y.x, s.x)
        /\ \/ y.res = "ok" /\ \E f : Paged(y.x, s.x, d, 0, f, u) /\ y.x.content[f] = Text
           \/ y.res = "full"
    BY ONLY <1>5, <1>6, <1>8, u \in BOOLEAN, Values, NewPageIs
  <2>. QED  BY <1>9, <2>1
<1>11. PICK f : Paged(y.x, s.x, d, 0, f, u) /\ y.x.content[f] = Text
  BY <1>10
<1>12. Good(y.x, {d}, {k}) /\ AllUsed(y.x, {d}, {k})
  BY ONLY <1>5, <1>6, <1>11, u \in BOOLEAN, GoodPaged
<1>13. OnePage(y.x, s.x, d, 0, f) /\ Exact(y.x, d, 0 + 1)
  BY ONLY <1>3, <1>5, <1>6, <1>10, <1>11, PagedContent, SMTT(30)
<1>14. y.x.space[0] = NoSpace
  <2>1. 0 # d /\ 0 \in Frame \cup {0}
    BY <1>3, Numbers, SMTT(30)
  <2>. QED  BY <1>1, <1>3, <1>11, <2>1, SMTT(30) DEF Paged
<1>15. y.x.space[d].pte[0] = [f |-> f, u |-> u]
  <2>1. y.x.space[d].pte = [s.x.space[d].pte EXCEPT ![0] = [f |-> f, u |-> u]]
    BY <1>11 DEF Paged
  <2>2. s.x.space[d].pte \in [Page -> [f : Frame \cup {0}, u : BOOLEAN]]
    BY <1>3, <1>5 DEF MemType, SpaceType
  <2>. QED  BY <1>6, <2>1, <2>2, SMTT(30)
<1>16. y.x.space[d].pte[0].u /\ y.x.content[y.x.space[d].pte[0].f] = Text
  BY <1>7, <1>11, <1>15
<1>17. Exact(y.x, d, 1)
  <2>1. 0 + 1 = 1
    OBVIOUS
  <2>. QED  BY ONLY <1>13, <2>1
<1>18. k \in Frame /\ d \in Frame
  BY <1>1, <1>3
<1>. QED  BY ONLY <1>18, <1>12, <1>14, <1>16, <1>17, Zenon DEF OneProcess


LEMMA OnePageSize == PagesOf(PGSIZE) = 1
<1>. DEFINE n == PagesOf(PGSIZE)
<1>1. PGSIZE \in Nat
  BY Numbers
<1>2. n \in Nat /\ \A v \in Nat : v < n <=> v * PGSIZE < PGSIZE
  BY <1>1, PagesBelow, Zenon
<1>. HIDE DEF n
<1>3. 0 < n
  <2>1. 0 \in Nat /\ 0 * PGSIZE < PGSIZE
    BY Numbers
  <2>. QED  BY <1>2, <2>1
<1>4. ~(1 < n)
  <2>1. 1 \in Nat /\ ~(1 * PGSIZE < PGSIZE)
    BY Numbers
  <2>. QED  BY <1>2, <2>1
<1>5. n = 1
  BY <1>2, <1>3, <1>4
<1>. QED  BY <1>5 DEF n

\* The first process's state, with the fields named.
LEMMA StartIs ==
  ASSUME Init
  PROVE  \E n \in Sizes, k \in Frame, d \in Frame :
           /\ OneProcess(m, d, k) /\ project \in {1, 2} /\ panicked = "no" /\ torn = "no"
           /\ st = [p \in Slot |-> IF p = 1 THEN "run" ELSE "unused"]
           /\ kstack = [p \in Slot |-> IF p = 1 THEN k ELSE 0]
           /\ pgdir = [p \in Slot |-> IF p = 1 THEN d ELSE 0]
           /\ share = [p \in Slot |-> p]
           /\ sz = [p \in Slot |-> IF p = 1 THEN PGSIZE ELSE 0]
           /\ limit = [p \in Slot |-> 0] /\ parent = [p \in Slot |-> 0]
           /\ head = [p \in Slot |-> IF p = 1 THEN 1 ELSE 0]
           /\ job = [p \in Slot |-> NoJob]
<1>1. PICK n \in Sizes : Start(n)
  BY DEF Init
<1>2. PICK x : x = Empty(n)
  OBVIOUS
<1>3. PICK k : k = kalloc(x)
  OBVIOUS
<1>4. PICK w : w = Took(x, k, Zero)
  OBVIOUS
<1>5. PICK s : s = setupkvm(w)
  OBVIOUS
<1>6. PICK d : d = s.dir
  OBVIOUS
<1>7. PICK y : y = inituvm(s.x, s.dir)
  OBVIOUS
<1>8. k \in Frame /\ d \in Frame /\ OneProcess(y.x, d, k)
  BY ONLY n \in Sizes, <1>2, <1>3, <1>4, <1>5, <1>6, <1>7, FirstProcess
<1>9. /\ m = y.x /\ project \in Projects /\ panicked = "no" /\ torn = "no"
      /\ st = [p \in Slot |-> IF p = 1 THEN "run" ELSE "unused"]
      /\ kstack = [p \in Slot |-> IF p = 1 THEN k ELSE 0]
      /\ pgdir = [p \in Slot |-> IF p = 1 THEN d ELSE 0]
      /\ share = [p \in Slot |-> p]
      /\ sz = [p \in Slot |-> IF p = 1 THEN PGSIZE ELSE 0]
      /\ limit = [p \in Slot |-> 0] /\ parent = [p \in Slot |-> 0]
      /\ head = [p \in Slot |-> IF p = 1 THEN 1 ELSE 0]
      /\ job = [p \in Slot |-> NoJob]
  BY <1>1, <1>2, <1>3, <1>4, <1>5, <1>6, <1>7 DEF Start, Empty
<1>10. Projects \subseteq {1, 2}
  BY MemAssumption
<1>11. project \in {1, 2}
  BY <1>9, <1>10
<1>12. OneProcess(m, d, k)
  BY <1>8, <1>9
<1>13. n \in Sizes /\ k \in Frame /\ d \in Frame
  BY <1>8
<1>. QED  BY ONLY <1>9, <1>11, <1>12, <1>13, Zenon

LEMMA InitInv ==
  ASSUME Init
  PROVE  MInv /\ torn = "no"
<1>1. PICK n \in Sizes, k \in Frame, d \in Frame :
           /\ OneProcess(m, d, k) /\ project \in {1, 2} /\ panicked = "no" /\ torn = "no"
           /\ st = [p \in Slot |-> IF p = 1 THEN "run" ELSE "unused"]
           /\ kstack = [p \in Slot |-> IF p = 1 THEN k ELSE 0]
           /\ pgdir = [p \in Slot |-> IF p = 1 THEN d ELSE 0]
           /\ share = [p \in Slot |-> p]
           /\ sz = [p \in Slot |-> IF p = 1 THEN PGSIZE ELSE 0]
           /\ limit = [p \in Slot |-> 0] /\ parent = [p \in Slot |-> 0]
           /\ head = [p \in Slot |-> IF p = 1 THEN 1 ELSE 0]
           /\ job = [p \in Slot |-> NoJob]
  BY StartIs
<1>2. /\ 1 \in Slot /\ 0 \notin Slot /\ PGSIZE \in Nat /\ PGSIZE < KERNBASE
  BY Numbers
<1>3. /\ NoJob \in JobType /\ NoJob.op = "no" /\ NoJob.child = 0
  BY NoJobIs
<1>4. /\ st[1] = "run" /\ kstack[1] = k /\ pgdir[1] = d /\ sz[1] = PGSIZE /\ head[1] = 1
      /\ \A p \in Slot : /\ p # 1 => st[p] = "unused" /\ head[p] = 0
                         /\ share[p] = p /\ limit[p] = 0 /\ job[p] = NoJob
  BY <1>1, <1>2
<1>5. MemTypes
  BY <1>1, <1>2, <1>3 DEF MemTypes
<1>6. Owners = {1} /\ Builders = {} /\ InUse = {1}
  BY <1>2, <1>3, <1>4 DEF Owners, Builders, InUse, Building
<1>7. Families
  BY <1>2, <1>4, <1>6 DEF Families
<1>8. Calls
  BY <1>2, <1>3, <1>4, <1>6 DEF Calls, Execing
<1>9. Spaces = {d} /\ KStacks = {k}
  <2>1. Spaces = {pgdir[p] : p \in Owners} \cup {job[p].dir : p \in Builders}
    BY DEF Spaces, Owners, Builders, Building
  <2>2. KStacks = {kstack[p] : p \in InUse}
    BY DEF KStacks, InUse
  <2>. QED  BY <1>4, <1>6, <2>1, <2>2
<1>10. Framed
  BY <1>1, <1>6, <1>9 DEF Framed, OneProcess
<1>11. ASSUME NEW x \in Slot PROVE Thread(x)
  <2>1. job[x] = NoJob /\ limit[share[x]] = 0 /\ share[x] = x
    BY <1>4
  <2>2. Sized(x)
    <3>1. CASE x = 1
      <4>1. pgdir[x] = d /\ sz[share[x]] = PGSIZE
        BY <1>4, <2>1, <3>1
      <4>2. Exact(m, pgdir[x], PagesOf(sz[share[x]]))
        BY <1>1, <4>1, OnePageSize, SMTT(30) DEF OneProcess
      <4>. QED  BY <1>2, <4>1, <4>2 DEF Sized
    <3>2. CASE x # 1
      BY <1>4, <3>2, SMTT(30) DEF Sized
    <3>. QED  BY <3>1, <3>2
  <2>3. Progress(x) /\ Limited(x) /\ Copied(x)
    BY <1>3, <2>1 DEF Progress, Limited, Copied, Execing, AllocOps
  <2>. QED  BY <2>2, <2>3 DEF Thread
<1>. QED  BY <1>1, <1>5, <1>7, <1>8, <1>10, <1>11 DEF MInv


-----------------------------------------------------------------------------
\* The invariant, and what it says.

\* A race is never forgotten.
LEMMA TornStays ==
  ASSUME Next, torn' = "no"
  PROVE  torn = "no"
<1>1. PICK p \in Slot :
        \/ allocuvm(p) \/ (\E v \in Page : Store(p, v))
        \/ (\E n \in SbrkArgs : Grow(p, n) \/ Shrink(p, n)) \/ GrowEnd(p)
        \/ \E s \in Slot, n \in Limits : setmemorylimit(p, s, n)
        \/ ForkStart(p) \/ copyuvm(p) \/ fork(p)
        \/ SpawnStart(p) \/ thread_create(p)
        \/ ExecFails(p) \/ (\E prog \in Programs, n \in Stacks : ExecStart(p, prog, n))
        \/ ExecNext(p) \/ ExecSegment(p) \/ exec(p) \/ ExecBad(p)
        \/ exit(p) \/ \E s \in Slot : wait(p, s)
  BY DEF Next
<1>2. CASE allocuvm(p)
  BY <1>2 DEF allocuvm
<1>3. CASE GrowEnd(p)
  BY <1>3 DEF GrowEnd
<1>4. CASE copyuvm(p)
  BY <1>4, Zenon DEF copyuvm
<1>5. CASE fork(p)
  BY <1>5 DEF fork
<1>6. CASE thread_create(p)
  BY <1>6 DEF thread_create
<1>7. CASE ExecNext(p)
  BY <1>7 DEF ExecNext
<1>8. CASE ExecSegment(p)
  BY <1>8 DEF ExecSegment
<1>9. CASE exec(p)
  BY <1>9 DEF exec
<1>10. CASE ExecBad(p)
  BY <1>10 DEF ExecBad
<1>11. CASE exit(p)
  BY <1>11 DEF exit
<1>12. ASSUME Runs(p) PROVE torn = "no"
  BY <1>12 DEF Runs
<1>13. CASE \E v \in Page : Store(p, v)
  BY <1>12, <1>13 DEF Store
<1>14. CASE \E n \in SbrkArgs : Grow(p, n)
  BY <1>12, <1>14 DEF Grow
<1>15. CASE \E n \in SbrkArgs : Shrink(p, n)
  BY <1>12, <1>15 DEF Shrink
<1>16. CASE \E s \in Slot, n \in Limits : setmemorylimit(p, s, n)
  BY <1>12, <1>16 DEF setmemorylimit
<1>17. CASE ForkStart(p)
  BY <1>12, <1>17 DEF ForkStart
<1>18. CASE SpawnStart(p)
  BY <1>12, <1>18 DEF SpawnStart
<1>19. CASE ExecFails(p)
  BY <1>12, <1>19 DEF ExecFails
<1>20. CASE \E prog \in Programs, n \in Stacks : ExecStart(p, prog, n)
  BY <1>12, <1>20 DEF ExecStart
<1>21. CASE \E s \in Slot : wait(p, s)
  BY <1>12, <1>21 DEF wait
<1>. QED  BY <1>1, <1>2, <1>3, <1>4, <1>5, <1>6, <1>7, <1>8, <1>9, <1>10, <1>11, <1>13, <1>14, <1>15,
             <1>16, <1>17, <1>18, <1>19, <1>20, <1>21

LEMMA NextInv ==
  ASSUME MInv, torn = "no", torn' = "no", Next
  PROVE  MInv'
<1>1. PICK p \in Slot :
        \/ allocuvm(p) \/ (\E v \in Page : Store(p, v))
        \/ (\E n \in SbrkArgs : Grow(p, n) \/ Shrink(p, n)) \/ GrowEnd(p)
        \/ \E s \in Slot, n \in Limits : setmemorylimit(p, s, n)
        \/ ForkStart(p) \/ copyuvm(p) \/ fork(p)
        \/ SpawnStart(p) \/ thread_create(p)
        \/ ExecFails(p) \/ (\E prog \in Programs, n \in Stacks : ExecStart(p, prog, n))
        \/ ExecNext(p) \/ ExecSegment(p) \/ exec(p) \/ ExecBad(p)
        \/ exit(p) \/ \E s \in Slot : wait(p, s)
  BY DEF Next
<1>2. CASE allocuvm(p)
  BY <1>2, allocuvmStep
<1>3. CASE GrowEnd(p)
  BY <1>3, GrowEndStep
<1>4. CASE copyuvm(p)
  BY <1>4, copyuvmStep
<1>5. CASE fork(p)
  BY <1>5, forkStep
<1>6. CASE thread_create(p)
  BY <1>6, thread_createStep
<1>7. CASE ExecNext(p)
  BY <1>7, ExecNextStep
<1>8. CASE ExecSegment(p)
  BY <1>8, ExecSegmentStep
<1>9. CASE exec(p)
  BY <1>9, execStep
<1>10. CASE ExecBad(p)
  BY <1>10, ExecBadStep
<1>11. CASE exit(p)
  BY <1>11, exitStep
<1>13. CASE \E v \in Page : Store(p, v)
  BY <1>13, StoreStep
<1>14. CASE \E n \in SbrkArgs : Grow(p, n)
  BY <1>14, GrowStep
<1>15. CASE \E n \in SbrkArgs : Shrink(p, n)
  BY <1>15, ShrinkStep
<1>16. CASE \E s \in Slot, n \in Limits : setmemorylimit(p, s, n)
  BY <1>16, setmemorylimitStep
<1>17. CASE ForkStart(p)
  BY <1>17, ForkStartStep
<1>18. CASE SpawnStart(p)
  BY <1>18, SpawnStartStep
<1>19. CASE ExecFails(p)
  BY <1>19, ExecFailsStep
<1>20. CASE \E prog \in Programs, n \in Stacks : ExecStart(p, prog, n)
  BY <1>20, ExecStartStep
<1>21. CASE \E s \in Slot : wait(p, s)
  BY <1>21, waitStep
<1>. QED  BY <1>1, <1>2, <1>3, <1>4, <1>5, <1>6, <1>7, <1>8, <1>9, <1>10, <1>11, <1>13, <1>14, <1>15,
             <1>16, <1>17, <1>18, <1>19, <1>20, <1>21

LEMMA StutterInv ==
  ASSUME MInv, UNCHANGED memVars
  PROVE  MInv'
<1>1. UNCHANGED <<project, m, st, kstack, pgdir, share, sz, limit, parent, head, job, panicked>>
  BY DEF memVars
<1>2. MemTypes' /\ Families' /\ Calls'
  BY <1>1 DEF MInv, MemTypes, Families, Calls, Owners, Builders
<1>3. Framed'
  BY <1>1 DEF MInv, Framed, Spaces, KStacks, InUse
<1>4. ASSUME NEW x \in Slot PROVE Thread(x)'
  <2>1. Same(m', m, pgdir[x]) /\ Same(m', m, job[x].dir)
    BY <1>1 DEF Same
  <2>2. Kept(x)
    BY <1>1, <2>1 DEF Kept
  <2>. QED  BY <2>2, KeptThread
<1>. QED  BY <1>2, <1>3, <1>4 DEF MInv

\* The memory is in order in every state that no race came before: with races, the
\* invariant says nothing.
THEOREM MemoryInv == Spec => []IInv
<1>1. Init => IInv
  BY InitInv DEF IInv
<1>2. IInv /\ [Next]_memVars => IInv'
  <2>. SUFFICES ASSUME IInv, [Next]_memVars, torn' = "no" PROVE MInv'
    BY DEF IInv
  <2>1. CASE Next
    <3>1. torn = "no"
      BY <2>1, TornStays
    <3>. QED  BY <2>1, <3>1, NextInv DEF IInv
  <2>2. CASE UNCHANGED memVars
    <3>1. torn = "no"
      BY <2>2 DEF memVars
    <3>. QED  BY <2>2, <3>1, StutterInv DEF IInv
  <2>. QED  BY <2>1, <2>2
<1>. QED  BY <1>1, <1>2, PTL DEF Spec

\* The parts of the invariant that MemorySound and LimitKept are about.
LEMMA SoundInv ==
  ASSUME IInv
  PROVE  MemorySound /\ LimitKept
<1>1. ASSUME torn = "no" PROVE MInv
  BY <1>1 DEF IInv
<1>2. FramesExact
  <2>. SUFFICES ASSUME torn = "no" PROVE FramesExact
    BY DEF FramesExact
  <2>1. MInv
    BY <1>1
  <2>2. Good(m, Spaces, KStacks) /\ (project = 1 => AllUsed(m, Spaces, KStacks)) /\ m \in MemType /\ Spaces \subseteq Frame
    BY <2>1, Where DEF MInv, Framed
  <2>3. \A d : FramesOf(d) = Uses(m, d)
    BY DEF FramesOf, Uses, Fixed, Pages
  <2>9. ASSUME NEW g PROVE g \in Places <=> g \in KStacks \/ \E d \in Spaces : g \in Uses(m, d)
    <3>1. g \in Places <=> g \in (UNION {FramesOf(d) : d \in Spaces}) \/ g \in KStacks
      BY DEF Places
    <3>2. g \in UNION {FramesOf(d) : d \in Spaces} <=> \E d \in Spaces : g \in FramesOf(d)
      BY Zenon
    <3>3. (\E d \in Spaces : g \in FramesOf(d)) <=> \E d \in Spaces : g \in Uses(m, d)
      BY <2>3, Zenon
    <3>. QED  BY <3>1, <3>2, <3>3
  <2>4. Places \cap m.free = {}
    BY <2>2, <2>9 DEF Good
  <2>5. \A d, e \in Spaces : d # e => FramesOf(d) \cap FramesOf(e) = {}
    BY <2>2, <2>3 DEF Good
  <2>6. \A d \in Spaces : FramesOf(d) \cap KStacks = {}
    BY <2>2, <2>3 DEF Good
  <2>7. ASSUME NEW d \in Spaces, NEW v \in Page, NEW w \in Page,
               m.space[d].pte[v].f = m.space[d].pte[w].f, v # w
        PROVE  m.space[d].pte[v] = Absent
    <3>1. m.space[d].pte[v].f = 0
      BY <2>2, <2>7 DEF Good
    <3>2. ~m.space[d].pte[v].u
      BY <2>2, <3>1, Zenon DEF Good
    <3>3. m.space[d].pte[v] \in [f : Frame \cup {0}, u : BOOLEAN]
      BY <2>2 DEF MemType, SpaceType
    <3>. HIDE DEF Spaces
    <3>. QED  BY <3>1, <3>2, <3>3, Zenon DEF Absent
  <2>8. ASSUME project = 1 PROVE Places \cup m.free = m.frames
    <3>1. Places \subseteq m.frames
      BY <2>2, <2>9 DEF Good
    <3>2. m.frames \subseteq Places \cup m.free
      <4>1. \A g : g \in UNION {Uses(m, d) : d \in Spaces} <=> \E d \in Spaces : g \in Uses(m, d)
        BY Zenon
      <4>. QED  BY <2>2, <2>8, <2>9, <4>1 DEF AllUsed
    <3>3. m.free \subseteq m.frames
      BY <2>2 DEF Good
    <3>. QED  BY <3>1, <3>2, <3>3
  <2>. QED  BY <2>4, <2>5, <2>6, <2>7, <2>8 DEF FramesExact
<1>3. OnlyRacesPanic
  BY <1>1 DEF OnlyRacesPanic, MInv, MemTypes
<1>4. LimitKept
  BY <1>1 DEF LimitKept, MInv, Thread, Limited
<1>. QED  BY <1>2, <1>3, <1>4 DEF MemorySound

\* Without races, no page frame has two uses or is free while it is used, whatever
\* allocuvm(), copyuvm(), fork(), exec(), thread_create() and wait() have to give
\* back half-way, and the kernel never panics.
THEOREM MemoryIsSound == Spec => []MemorySound
BY MemoryInv, SoundInv, PTL

\* Without races, growproc(), thread_create(), exec() and setmemorylimit() keep a
\* process within a page of its memory limit.
THEOREM LimitIsKept == Spec => []LimitKept
BY MemoryInv, SoundInv, PTL


-----------------------------------------------------------------------------
\* What user code sees of the memory, as a function of the state before or after
\* a step.

Usable(x, d) == {v \in Page : x.space[d].pte[v].u}
Held(x, d, v) == x.content[x.space[d].pte[v].f]
SeenOf(x, d) == [v \in Usable(x, d) |-> Held(x, d, v)]
UserOf(x, stt, shr, pgd) ==
  [s \in Slot |-> IF \E y \in Slot : stt[y] = "run" /\ shr[y] = s
                  THEN SeenOf(x, pgd[CHOOSE y \in Slot : stt[y] = "run" /\ shr[y] = s]) ELSE SeenOf(x, 0)]
OneDir(stt, shr, pgd) ==
  \A x, y \in Slot : stt[x] = "run" /\ stt[y] = "run" /\ shr[x] = shr[y] => pgd[x] = pgd[y]

LEMMA UserIs ==
  User = UserOf(m, st, share, pgdir) /\ User' = UserOf(m', st', share', pgdir')
<1>1. User = UserOf(m, st, share, pgdir)
  BY DEF User, UserOf, Seen, SeenOf, Usable, Held
<1>2. User' = UserOf(m', st', share', pgdir')
  BY DEF User, UserOf, Seen, SeenOf, Usable, Held
<1>. QED  BY <1>1, <1>2

\* A process sees the address space of any of its threads, and nothing when none
\* runs.
LEMMA UserOfIs ==
  ASSUME NEW x, NEW stt, NEW shr, NEW pgd, OneDir(stt, shr, pgd), x.space[0] = NoSpace, NEW s \in Slot
  PROVE  /\ \A y \in Slot : stt[y] = "run" /\ shr[y] = s => UserOf(x, stt, shr, pgd)[s] = SeenOf(x, pgd[y])
         /\ (\A y \in Slot : stt[y] = "run" => shr[y] # s) => UserOf(x, stt, shr, pgd)[s] = AS!Empty
         /\ DOMAIN UserOf(x, stt, shr, pgd) = Slot
<1>. DEFINE R(y) == stt[y] = "run" /\ shr[y] = s
            z == CHOOSE y \in Slot : R(y)
<1>1. UserOf(x, stt, shr, pgd)[s] = IF \E y \in Slot : R(y) THEN SeenOf(x, pgd[z]) ELSE SeenOf(x, 0)
  BY DEF UserOf
<1>2. (\E y \in Slot : R(y)) => z \in Slot /\ R(z)
  BY Zenon
<1>. HIDE DEF z
<1>3. ASSUME NEW y \in Slot, R(y) PROVE UserOf(x, stt, shr, pgd)[s] = SeenOf(x, pgd[y])
  <2>1. pgd[z] = pgd[y]
    BY <1>2, <1>3 DEF OneDir
  <2>. QED  BY <1>1, <1>3, <2>1
<1>4. SeenOf(x, 0) = AS!Empty
  <2>1. Usable(x, 0) = {}
    <3>. SUFFICES ASSUME NEW v \in Page, x.space[0].pte[v].u PROVE FALSE
      BY DEF Usable
    <3>1. x.space[0].pte[v] = Absent
      BY DEF NoSpace
    <3>2. x.space[0].pte[v].u = FALSE
      BY <3>1 DEF Absent
    <3>. QED  BY <3>2
  <2>2. SeenOf(x, 0) = [v \in {} |-> Held(x, 0, v)]
    BY <2>1 DEF SeenOf
  <2>. QED  BY <2>2 DEF AS!Empty
<1>5. DOMAIN UserOf(x, stt, shr, pgd) = Slot
  BY DEF UserOf
<1>. QED  BY <1>1, <1>3, <1>4, <1>5

\* The same pages with the same content look the same.
LEMMA SameSeen ==
  ASSUME NEW x, NEW D, NEW K, Good(x, D, K), NEW d \in D, NEW y, Same(y, x, d)
  PROVE  SeenOf(y, d) = SeenOf(x, d)
<1>1. y.space[d] = x.space[d]
  BY DEF Same
<1>2. Usable(y, d) = Usable(x, d)
  BY <1>1 DEF Usable
<1>3. ASSUME NEW v \in Usable(x, d) PROVE Held(y, d, v) = Held(x, d, v)
  <2>1. v \in Page /\ x.space[d].pte[v].u
    BY DEF Usable
  <2>2. x.space[d].pte[v].f # 0
    BY <2>1, Zenon DEF Good
  <2>3. v \in Page
    BY <2>1
  <2>. QED  BY ONLY <1>1, <2>2, <2>3, Same(y, x, d) DEF Same, Held
<1>. QED  BY <1>2, <1>3 DEF SeenOf

LEMMA OneDirs ==
  ASSUME MInv
  PROVE  OneDir(st, share, pgdir) /\ m.space[0] = NoSpace
<1>1. Families /\ m.space[0] = NoSpace
  BY DEF MInv, Framed
<1>2. ASSUME NEW x \in Slot, NEW y \in Slot, st[x] = "run", st[y] = "run", share[x] = share[y]
      PROVE  pgdir[x] = pgdir[y]
  BY <1>1, <1>2 DEF Families
<1>. QED  BY <1>1, <1>2 DEF OneDir

LEMMA OneDirsNext ==
  ASSUME MInv'
  PROVE  OneDir(st', share', pgdir') /\ m'.space[0] = NoSpace
<1>1. Families' /\ m'.space[0] = NoSpace
  BY DEF MInv, Framed
<1>2. ASSUME NEW x \in Slot, NEW y \in Slot, st'[x] = "run", st'[y] = "run", share'[x] = share'[y]
      PROVE  pgdir'[x] = pgdir'[y]
  BY <1>1, <1>2 DEF Families
<1>. QED  BY <1>1, <1>2 DEF OneDir

LEMMA Views ==
  ASSUME MInv
  PROVE  /\ \A y \in Slot : st[y] = "run" => User[share[y]] = SeenOf(m, pgdir[y])
         /\ \A s \in Slot : (\A y \in Slot : st[y] = "run" => share[y] # s) => User[s] = AS!Empty
         /\ DOMAIN User = Slot /\ User = [s \in Slot |-> User[s]]
<1>1. OneDir(st, share, pgdir) /\ m.space[0] = NoSpace
  BY OneDirs
<1>2. User = UserOf(m, st, share, pgdir)
  BY UserIs
<1>3. share \in [Slot -> Slot]
  BY Sound
<1>4. \A y \in Slot : st[y] = "run" => User[share[y]] = SeenOf(m, pgdir[y])
  BY <1>1, <1>2, <1>3, UserOfIs
<1>5. \A s \in Slot : (\A y \in Slot : st[y] = "run" => share[y] # s) => User[s] = AS!Empty
  BY <1>1, <1>2, UserOfIs
<1>6. User = [s \in Slot |-> User[s]] /\ DOMAIN User = Slot
  BY DEF User
<1>. QED  BY <1>4, <1>5, <1>6

LEMMA ViewsNext ==
  ASSUME MInv'
  PROVE  /\ \A y \in Slot : st'[y] = "run" => User'[share'[y]] = SeenOf(m', pgdir'[y])
         /\ \A s \in Slot : (\A y \in Slot : st'[y] = "run" => share'[y] # s) => User'[s] = AS!Empty
         /\ DOMAIN User' = Slot /\ User' = [s \in Slot |-> User'[s]]
<1>1. OneDir(st', share', pgdir') /\ m'.space[0] = NoSpace
  BY OneDirsNext
<1>2. User' = UserOf(m', st', share', pgdir')
  BY UserIs
<1>3. share' \in [Slot -> Slot]
  BY DEF MInv, MemTypes
<1>4. \A y \in Slot : st'[y] = "run" => User'[share'[y]] = SeenOf(m', pgdir'[y])
  BY <1>1, <1>2, <1>3, UserOfIs
<1>5. \A s \in Slot : (\A y \in Slot : st'[y] = "run" => share'[y] # s) => User'[s] = AS!Empty
  BY <1>1, <1>2, UserOfIs
<1>6. User' = [s \in Slot |-> User'[s]] /\ DOMAIN User' = Slot
  BY DEF User
<1>. QED  BY <1>4, <1>5, <1>6


\* What a process sees stays when its threads and their pages stay.
LEMMA ViewKept ==
  ASSUME MInv, MInv', NEW q \in Slot,
         \A x \in Slot : st'[x] = "run" /\ share'[x] = q => st[x] = "run" /\ share[x] = q,
         \A x \in Slot : st[x] = "run" /\ share[x] = q => \E y \in Slot : st'[y] = "run" /\ share'[y] = q,
         \A x \in Slot : st[x] = "run" /\ share[x] = q => pgdir'[x] = pgdir[x] /\ Same(m', m, pgdir[x])
  PROVE  User'[q] = User[q]
<1>1. CASE \E x \in Slot : st'[x] = "run" /\ share'[x] = q
  <2>1. PICK x \in Slot : st'[x] = "run" /\ share'[x] = q
    BY <1>1
  <2>2. st[x] = "run" /\ share[x] = q /\ pgdir'[x] = pgdir[x] /\ Same(m', m, pgdir[x])
    BY <2>1
  <2>3. User'[q] = SeenOf(m', pgdir'[x])
    BY ONLY MInv', x \in Slot, <2>1, ViewsNext
  <2>4. User[q] = SeenOf(m, pgdir[x])
    BY ONLY MInv, x \in Slot, <2>2, Views
  <2>5. Good(m, Spaces, KStacks) /\ pgdir[x] \in Spaces
    BY <2>2, Sound, Where
  <2>6. SeenOf(m', pgdir[x]) = SeenOf(m, pgdir[x])
    BY ONLY <2>2, <2>5, SameSeen
  <2>. QED  BY <2>2, <2>3, <2>4, <2>6
<1>2. CASE \A x \in Slot : st'[x] = "run" => share'[x] # q
  <2>1. \A x \in Slot : st[x] = "run" => share[x] # q
    BY <1>2
  <2>2. User'[q] = AS!Empty
    BY ONLY MInv', q \in Slot, <1>2, ViewsNext
  <2>3. User[q] = AS!Empty
    BY ONLY MInv, q \in Slot, <2>1, Views
  <2>. QED  BY <2>2, <2>3
<1>. QED  BY <1>1, <1>2

\* A step that no process sees.
LEMMA Unseen ==
  ASSUME MInv, MInv', UNCHANGED <<share, pgdir>>,
         \A x \in Slot : st'[x] = "run" => st[x] = "run",
         \A x \in Slot : st[x] = "run" => \E y \in Slot : st'[y] = "run" /\ share[y] = share[x],
         \A x \in Slot : st[x] = "run" => Same(m', m, pgdir[x])
  PROVE  User' = User
<1>1. ASSUME NEW q \in Slot PROVE User'[q] = User[q]
  <2>1. \A x \in Slot : st'[x] = "run" /\ share'[x] = q => st[x] = "run" /\ share[x] = q
    OBVIOUS
  <2>2. \A x \in Slot : st[x] = "run" /\ share[x] = q => \E y \in Slot : st'[y] = "run" /\ share'[y] = q
    OBVIOUS
  <2>3. \A x \in Slot : st[x] = "run" /\ share[x] = q => pgdir'[x] = pgdir[x] /\ Same(m', m, pgdir[x])
    OBVIOUS
  <2>. QED  BY ONLY MInv, MInv', q \in Slot, <2>1, <2>2, <2>3, ViewKept
<1>2. User = [s \in Slot |-> User[s]] /\ User' = [s \in Slot |-> User'[s]]
  BY Views, ViewsNext
<1>3. [s \in Slot |-> User[s]] = [s \in Slot |-> User'[s]]
  BY <1>1
<1>. QED  BY ONLY <1>2, <1>3

\* A step that one process sees.
LEMMA SeenBy ==
  ASSUME MInv, MInv', NEW q \in Slot, NEW e, User'[q] = e,
         \A x \in Slot : /\ st'[x] = "run" /\ share'[x] # q => st[x] = "run" /\ share[x] = share'[x]
                         /\ st[x] = "run" /\ share[x] # q => st'[x] = "run" /\ share'[x] = share[x],
         \A x \in Slot : st[x] = "run" /\ share[x] # q => pgdir'[x] = pgdir[x] /\ Same(m', m, pgdir[x])
  PROVE  User' = [User EXCEPT ![q] = e]
<1>1. ASSUME NEW s \in Slot, s # q PROVE User'[s] = User[s]
  <2>1. \A x \in Slot : st'[x] = "run" /\ share'[x] = s => st[x] = "run" /\ share[x] = s
    BY <1>1
  <2>2. \A x \in Slot : st[x] = "run" /\ share[x] = s => \E y \in Slot : st'[y] = "run" /\ share'[y] = s
    BY <1>1
  <2>3. \A x \in Slot : st[x] = "run" /\ share[x] = s => pgdir'[x] = pgdir[x] /\ Same(m', m, pgdir[x])
    BY <1>1
  <2>. QED  BY ONLY MInv, MInv', s \in Slot, <2>1, <2>2, <2>3, ViewKept
<1>2. User = [s \in Slot |-> User[s]] /\ User' = [s \in Slot |-> User'[s]] /\ DOMAIN User = Slot
  BY Views, ViewsNext
<1>3. [s \in Slot |-> User'[s]] = [s \in Slot |-> IF s = q THEN e ELSE User[s]]
  BY <1>1
<1>4. [User EXCEPT ![q] = e] = [s \in Slot |-> IF s = q THEN e ELSE User[s]]
  BY ONLY <1>2
<1>. QED  BY ONLY <1>2, <1>3, <1>4

\* Another process's address space is another one.
LEMMA Apart ==
  ASSUME MInv, NEW p \in Slot, st[p] = "run", NEW x \in Slot, st[x] = "run"
  PROVE  /\ share[x] # share[p] => pgdir[x] # pgdir[p]
         /\ p \in Builders => pgdir[x] # job[p].dir
         /\ pgdir[x] \in Spaces /\ pgdir[x] \in Frame
<1>1. x \in Owners /\ p \in Owners /\ pgdir[x] \in Spaces /\ pgdir[x] \in Frame
  BY Where
<1>. QED  BY <1>1 DEF MInv, Families, Calls

\* Memory that a call is building, or that nothing uses, is not seen.
LEMMA Builds ==
  ASSUME MInv, MInv', UNCHANGED <<share, pgdir>>,
         \A x \in Slot : st'[x] = "run" <=> st[x] = "run",
         NEW d, \A x \in Slot : st[x] = "run" => pgdir[x] # d,
         Untouched(m', m), \A e \in Spaces : e # d => m'.space[e] = m.space[e]
  PROVE  User' = User
<1>1. Good(m, Spaces, KStacks) /\ Good(m', Spaces', KStacks')
  BY Sound DEF MInv, Framed
<1>2. ASSUME NEW e \in Spaces \cap Spaces', e # d PROVE Same(m', m, e)
  <2>1. m'.space[e] = m.space[e]
    BY <1>2
  <2>. QED  BY ONLY <1>1, <2>1, e \in Spaces \cap Spaces', Untouched(m', m), SameContent
<1>3. \A x \in Slot : st[x] = "run" => Same(m', m, pgdir[x])
  <2>. TAKE x \in Slot
  <2>. HAVE st[x] = "run"
  <2>1. pgdir[x] \in Spaces
    BY Apart
  <2>2. pgdir'[x] \in Spaces'
    BY DEF Spaces
  <2>. QED  BY <1>2, <2>1, <2>2
<1>4. \A x \in Slot : st'[x] = "run" => st[x] = "run"
  OBVIOUS
<1>5. \A x \in Slot : st[x] = "run" => \E y \in Slot : st'[y] = "run" /\ share[y] = share[x]
  OBVIOUS
<1>. QED  BY ONLY MInv, MInv', UNCHANGED <<share, pgdir>>, <1>3, <1>4, <1>5, Unseen


LEMMA NothingSeen ==
  ASSUME UNCHANGED <<m, st, share, pgdir>>
  PROVE  User' = User
<1>1. User = UserOf(m, st, share, pgdir) /\ User' = UserOf(m', st', share', pgdir')
  BY UserIs
<1>. QED  BY <1>1

LEMMA ForkStartView ==
  ASSUME MInv, MInv', NEW p \in Slot, ForkStart(p)
  PROVE  User' = User
<1>1. PICK c : c = NewSlot
  OBVIOUS
<1>2. PICK k : k = kalloc(m)
  OBVIOUS
<1>3. PICK w : w = WithStack
  OBVIOUS
<1>4. PICK s : s = setupkvm(w)
  OBVIOUS
<1>5. /\ CanAlloc /\ KernelFits(w) /\ m' = s.x /\ st' = [st EXCEPT ![c] = "embryo"] /\ UNCHANGED <<share, pgdir>>
  BY <1>1, <1>3, <1>4 DEF ForkStart
<1>6. /\ c \in Slot /\ st[c] = "unused" /\ k \in Frame
      /\ Good(w, Spaces, KStacks \cup {k}) /\ w.space = m.space /\ Untouched(w, m) /\ w.free \subseteq m.free
  BY ONLY MInv, <1>1, <1>2, <1>3, <1>5, AllocProc
<1>7. w.free # {}
  <2>1. Cardinality(w.free) > KTAB /\ KTAB \in Nat
    BY <1>5, Numbers DEF KernelFits
  <2>2. Cardinality({}) = 0
    BY FS_EmptySet
  <2>. QED  BY <2>1, <2>2
<1>8. /\ s.dir \in w.free /\ s.dir \notin Spaces /\ s.dir \in Frame /\ s.x.content = w.content /\ s.x.free \subseteq w.free
      /\ \A e \in Spaces \cup {0} : s.x.space[e] = w.space[e]
  <2>0. PICK K : K = KStacks \cup {k}
    BY Zenon
  <2>2. Good(w, Spaces, K)
    BY <1>6, <2>0
  <2>1. /\ s.dir \in w.free /\ s.dir \notin Spaces /\ s.dir \in Frame
        /\ Good(s.x, Spaces \cup {s.dir}, K)
        /\ AllUsed(w, Spaces, K) => AllUsed(s.x, Spaces \cup {s.dir}, K)
        /\ \A e \in Spaces \cup {0} : s.x.space[e] = w.space[e]
        /\ Exact(s.x, s.dir, 0)
        /\ s.x.content = w.content
        /\ s.x.free \subseteq w.free
    BY ONLY <1>4, <1>7, <2>2, setupkvmIs
  <2>. QED  BY <2>1
<1>9. Untouched(m', m)
  BY <1>5, <1>6, <1>8 DEF Untouched
<1>10. \A e \in Spaces : e # s.dir => m'.space[e] = m.space[e]
  BY <1>5, <1>6, <1>8
<1>11. \A x \in Slot : st[x] = "run" => pgdir[x] # s.dir
  BY <1>8, Apart
<1>12. \A x \in Slot : st'[x] = "run" <=> st[x] = "run"
  BY <1>5, <1>6, Sound
<1>13. PICK d : d = s.dir
  OBVIOUS
<1>14. (\A x \in Slot : st[x] = "run" => pgdir[x] # d) /\ \A e \in Spaces : e # d => m'.space[e] = m.space[e]
  BY <1>10, <1>11, <1>13
<1>15. UNCHANGED <<share, pgdir>>
  BY <1>5
<1>. QED  BY ONLY MInv, MInv', <1>9, <1>12, <1>14, <1>15, Builds

LEMMA SpawnStartView ==
  ASSUME MInv, MInv', NEW p \in Slot, SpawnStart(p)
  PROVE  User' = User
<1>1. PICK c : c = NewSlot
  OBVIOUS
<1>2. PICK k : k = kalloc(m)
  OBVIOUS
<1>3. PICK w : w = WithStack
  OBVIOUS
<1>5. /\ CanAlloc /\ m' = w /\ st' = [st EXCEPT ![c] = "embryo"] /\ UNCHANGED <<share, pgdir>>
  BY <1>1, <1>3 DEF SpawnStart
<1>6. /\ c \in Slot /\ st[c] = "unused" /\ w.space = m.space /\ Untouched(w, m)
  BY ONLY MInv, <1>1, <1>2, <1>3, <1>5, AllocProc, Zenon
<1>9. Untouched(m', m)
  BY <1>5, <1>6
<1>12. \A x \in Slot : st'[x] = "run" <=> st[x] = "run"
  BY <1>5, <1>6, Sound
<1>14. (\A x \in Slot : st[x] = "run" => pgdir[x] # 0) /\ \A e \in Spaces : e # 0 => m'.space[e] = m.space[e]
  <2>1. \A x \in Slot : st[x] = "run" => pgdir[x] # 0
    BY Apart, Numbers
  <2>. QED  BY <1>5, <1>6, <2>1
<1>15. UNCHANGED <<share, pgdir>>
  BY <1>5
<1>. QED  BY ONLY MInv, MInv', <1>9, <1>12, <1>14, <1>15, Builds

LEMMA ExecStartView ==
  ASSUME MInv, MInv', torn = "no", torn' = "no", NEW p \in Slot, NEW prog, NEW n, ExecStart(p, prog, n)
  PROVE  User' = User
<1>1. PICK s : s = setupkvm(m)
  OBVIOUS
<1>2. /\ Runs(p) /\ KernelFits(m) /\ m' = s.x /\ Ended(p) /\ UNCHANGED <<project, share, pgdir>>
  BY <1>1 DEF ExecStart
<1>3. /\ st[p] = "run" /\ st'[p] = "run"
      /\ \A x \in Slot : share[x] # share[p] => st'[x] = st[x]
      /\ \A x \in Slot : st'[x] \in {"unused", "embryo"} \/ st[x] \in {"unused", "embryo"} => st'[x] = st[x]
      /\ \A x \in Slot : st'[x] = "run" /\ share[x] = share[p] => x = p
  BY <1>2, EndedIs
<1>4. m.free # {}
  <2>1. Cardinality(m.free) > KTAB /\ KTAB \in Nat
    BY <1>2, Numbers DEF KernelFits
  <2>2. Cardinality({}) = 0
    BY FS_EmptySet
  <2>. QED  BY <2>1, <2>2
<1>5. Good(m, Spaces, KStacks)
  BY Sound
<1>6. /\ s.x.content = m.content /\ \A e \in Spaces \cup {0} : s.x.space[e] = m.space[e]
  <2>1. /\ s.dir \in m.free /\ s.dir \notin Spaces /\ s.dir \in Frame
        /\ Good(s.x, Spaces \cup {s.dir}, KStacks)
        /\ AllUsed(m, Spaces, KStacks) => AllUsed(s.x, Spaces \cup {s.dir}, KStacks)
        /\ \A e \in Spaces \cup {0} : s.x.space[e] = m.space[e]
        /\ Exact(s.x, s.dir, 0)
        /\ s.x.content = m.content
        /\ s.x.free \subseteq m.free
    BY ONLY <1>1, <1>4, <1>5, setupkvmIs
  <2>. QED  BY <2>1
<1>7. \A x \in Slot : st[x] = "run" => Same(m', m, pgdir[x])
  BY <1>2, <1>6, Apart DEF Same
<1>8. \A x \in Slot : st'[x] = "run" => st[x] = "run"
  BY <1>3
<1>9. \A x \in Slot : st[x] = "run" => \E y \in Slot : st'[y] = "run" /\ share[y] = share[x]
  BY <1>3
<1>10. UNCHANGED <<share, pgdir>>
  BY <1>2
<1>. QED  BY ONLY MInv, MInv', <1>7, <1>8, <1>9, <1>10, Unseen

LEMMA ExecFailsView ==
  ASSUME MInv, MInv', torn = "no", torn' = "no", NEW p \in Slot, ExecFails(p)
  PROVE  User' = User
<1>2. /\ Runs(p) /\ m' = m /\ Ended(p) /\ UNCHANGED <<project, share, pgdir>>
  BY DEF ExecFails
<1>3. /\ st[p] = "run" /\ st'[p] = "run"
      /\ \A x \in Slot : share[x] # share[p] => st'[x] = st[x]
      /\ \A x \in Slot : st'[x] = "run" /\ share[x] = share[p] => x = p
  BY <1>2, EndedIs
<1>7. \A x \in Slot : st[x] = "run" => Same(m', m, pgdir[x])
  BY <1>2 DEF Same
<1>8. \A x \in Slot : st'[x] = "run" => st[x] = "run"
  BY <1>3
<1>9. \A x \in Slot : st[x] = "run" => \E y \in Slot : st'[y] = "run" /\ share[y] = share[x]
  BY <1>3
<1>10. UNCHANGED <<share, pgdir>>
  BY <1>2
<1>. QED  BY ONLY MInv, MInv', <1>7, <1>8, <1>9, <1>10, Unseen

LEMMA ExecSegmentView ==
  ASSUME MInv, MInv', NEW p \in Slot, ExecSegment(p)
  PROVE  User' = User
<1>1. PICK d : d = job[p].dir
  OBVIOUS
<1>2. PICK g : g = job[p].prog[1]
  OBVIOUS
<1>3. /\ m' = Loaded(m, d, g) /\ job[p].op = "segment" /\ UNCHANGED <<st, share, pgdir>>
  BY <1>1, <1>2 DEF ExecSegment, Goes
<1>4. job[p].op \in Execing
  BY <1>3 DEF Execing
<1>5. d \in Spaces /\ p \in Builders /\ st[p] = "run"
  BY <1>1, <1>4, ExecAt
<1>6. Good(m, Spaces, KStacks)
  BY Sound
<1>7. \A e \in Spaces : e # d => Same(m', m, e)
  BY ONLY <1>3, <1>5, <1>6, LoadedIs
<1>8. \A x \in Slot : st[x] = "run" => Same(m', m, pgdir[x])
  BY <1>1, <1>5, <1>7, Apart
<1>9. \A x \in Slot : st'[x] = "run" => st[x] = "run"
  BY <1>3
<1>10. \A x \in Slot : st[x] = "run" => \E y \in Slot : st'[y] = "run" /\ share[y] = share[x]
  BY <1>3
<1>11. UNCHANGED <<share, pgdir>>
  BY <1>3
<1>. QED  BY ONLY MInv, MInv', <1>8, <1>9, <1>10, <1>11, Unseen

LEMMA ExecBadView ==
  ASSUME MInv, MInv', NEW p \in Slot, ExecBad(p)
  PROVE  User' = User
<1>1. PICK d : d = job[p].dir
  OBVIOUS
<1>3. /\ m' = freevm(m, d) /\ job[p].op \in {"segment", "stack"} /\ UNCHANGED <<st, share, pgdir>>
  BY <1>1 DEF ExecBad, Goes
<1>4. job[p].op \in Execing
  BY <1>3 DEF Execing
<1>5. d \in Spaces /\ p \in Builders /\ st[p] = "run"
  BY <1>1, <1>4, ExecAt
<1>6. Good(m, Spaces, KStacks)
  BY Sound
<1>7. Untouched(m', m) /\ \A e \in Frame \cup {0} : e # d => m'.space[e] = m.space[e]
  <2>1. d \in Spaces /\ m' = freevm(m, d)
    BY <1>3, <1>5
  <2>2. /\ Good(m', Spaces \ {d}, KStacks)
        /\ AllUsed(m, Spaces, KStacks) => AllUsed(m', Spaces \ {d}, KStacks)
        /\ \A e \in Frame \cup {0} : e # d => m'.space[e] = m.space[e]
        /\ Untouched(m', m)
    BY ONLY <1>6, <2>1, freevmIs
  <2>. QED  BY <2>2
<1>8. \A x \in Slot : st[x] = "run" => pgdir[x] # d
  BY <1>1, <1>5, Apart
<1>9. \A e \in Spaces : e # d => m'.space[e] = m.space[e]
  BY <1>6, <1>7 DEF Good
<1>10. \A x \in Slot : st'[x] = "run" <=> st[x] = "run"
  BY <1>3
<1>11. UNCHANGED <<share, pgdir>>
  BY <1>3
<1>. QED  BY ONLY MInv, MInv', <1>7, <1>8, <1>9, <1>10, <1>11, Builds

LEMMA waitView ==
  ASSUME MInv, MInv', torn = "no", torn' = "no", NEW p \in Slot, NEW s \in Slot, wait(p, s)
  PROVE  User' = User
<1>1. PICK Z : Z = Zombies(s)
  OBVIOUS
<1>2. UNCHANGED <<share, pgdir>>
  BY DEF wait
<1>3. /\ \A x \in Slot : st'[x] = IF x \in Z THEN "unused" ELSE st[x]
      /\ \A x \in Slot : st[x] \in {"run", "zombie"} => (x \in Z <=> share[x] = s)
  BY ONLY MInv, torn = "no", torn' = "no", p \in Slot, s \in Slot, wait(p, s), <1>1, WaitStates
<1>4. \A x \in Slot : st'[x] = "run" <=> st[x] = "run"
  BY <1>1, <1>3 DEF Zombies
<1>5. \A e \in Spaces' : Same(m', m, e)
  BY WaitSpaces
<1>6. \A x \in Slot : st[x] = "run" => Same(m', m, pgdir[x])
  <2>. TAKE x \in Slot
  <2>. HAVE st[x] = "run"
  <2>1. pgdir'[x] \in Spaces'
    BY <1>4 DEF Spaces
  <2>. QED  BY <1>2, <1>5, <2>1
<1>7. \A x \in Slot : st'[x] = "run" => st[x] = "run"
  BY <1>4
<1>8. \A x \in Slot : st[x] = "run" => \E y \in Slot : st'[y] = "run" /\ share[y] = share[x]
  BY <1>4
<1>. QED  BY ONLY MInv, MInv', <1>2, <1>6, <1>7, <1>8, Unseen


LEMMA copyuvmView ==
  ASSUME MInv, MInv', NEW p \in Slot, copyuvm(p)
  PROVE  User' = User
<1>. DEFINE d == job[p].dir
            n == job[p].a \div PGSIZE
            e == m.space[pgdir[p]].pte[n]
            u == e.u
            c == m.content[e.f]
            r == NewPage(m, d, n, c, u)
            z == r.x
            k == kstack[job[p].child]
            y == freevm(z, d)
<1>1. /\ job[p].op = "fork" /\ job[p].a < job[p].to
      /\ UNCHANGED <<pgdir, share>>
      /\ \/ e = Absent
         \/ r.res = "ok" /\ m' = z /\ UNCHANGED st
         \/ r.res = "full" /\ m' = kfree(y, {k}) /\ st' = [st EXCEPT ![job[p].child] = "unused"]
  BY Zenon DEF copyuvm, Goes, Returned
<1>2. n \in Page /\ e # Absent /\ u \in BOOLEAN /\ c \in Int
  BY <1>1, ForkPage, ZenonT(60)
<1>3. d \in Frame /\ d \in Spaces /\ p \in Builders /\ st[p] = "run" /\ job[p].child \in Slot /\ st[job[p].child] = "embryo"
  BY <1>1, ForkAt, ZenonT(60)
<1>4. m \in MemType /\ Good(m, Spaces, KStacks) /\ st \in [Slot -> {"unused", "embryo", "run", "zombie"}]
  BY Sound
<1>5. /\ Untouched(z, m)
      /\ \/ r.res = "ok" /\ \E f : Paged(z, m, d, n, f, u) /\ z.content[f] = c
         \/ /\ r.res = "full"
            /\ z \in MemType /\ z.frames = m.frames /\ z.space = m.space /\ z.free = m.free
  <2>1. r = NewPage(m, job[p].dir, n, c, u)
    OBVIOUS
  <2>. HIDE DEF r, c, u, e
  <2>. QED  BY <1>1, <1>2, <2>1, CopyPage
<1>. HIDE DEF r, c, u, e, z, n, k, y
<1>6. CASE r.res = "ok" /\ m' = z /\ UNCHANGED st
  <2>1. Untouched(m', m) /\ \A q \in Spaces : q # d => m'.space[q] = m.space[q]
    BY <1>4, <1>5, <1>6, Zenon DEF Paged, Good
  <2>. QED  BY <1>1, <1>3, <1>6, <2>1, Apart, Builds
<1>7. CASE r.res = "full" /\ m' = kfree(y, {k}) /\ st' = [st EXCEPT ![job[p].child] = "unused"]
  <2>1. z \in MemType /\ z.frames = m.frames /\ z.space = m.space /\ z.free = m.free /\ Untouched(z, m)
    BY <1>5, <1>7
  <2>2. Good(z, Spaces, KStacks)
    BY ONLY <1>4, <2>1, GoodContent
  <2>3. /\ Good(y, Spaces \ {d}, KStacks)
        /\ AllUsed(z, Spaces, KStacks) => AllUsed(y, Spaces \ {d}, KStacks)
        /\ \A q \in Frame \cup {0} : q # d => y.space[q] = z.space[q]
        /\ Untouched(y, z)
    <3>1. d \in Spaces /\ y = freevm(z, d)
      BY <1>3 DEF y
    <3>. HIDE DEF d
    <3>. QED  BY ONLY <2>2, <3>1, freevmIs
  <2>4. k \in Frame
    <3>1. job[p].child \in InUse
      BY <1>3 DEF InUse
    <3>. QED  BY <3>1, Where DEF k
  <2>5. /\ m'.free = y.free \cup {k} /\ m'.space = y.space
        /\ \A g \in Frame : m'.content[g] = IF g \in {k} THEN Junk ELSE y.content[g]
    <3>1. y \in MemType /\ {k} \in SUBSET Frame
      BY <2>3, <2>4 DEF Good
    <3>2. m' = kfree(y, {k})
      BY <1>7
    <3>. QED  BY ONLY <3>1, <3>2, kfreeIs
  <2>6. Untouched(m', m) /\ \A q \in Spaces : q # d => m'.space[q] = m.space[q]
    BY <1>4, <2>1, <2>3, <2>5 DEF Untouched, Good
  <2>7. \A x \in Slot : st'[x] = "run" <=> st[x] = "run"
    BY <1>3, <1>4, <1>7
  <2>. QED  BY <1>1, <1>3, <2>6, <2>7, Apart, Builds
<1>. QED  BY <1>1, <1>2, <1>6, <1>7

LEMMA SpawnFailsView ==
  ASSUME MInv, MInv', NEW p \in Slot, job[p].op = "spawn",
         m' = kfree(m, {kstack[job[p].child]}), st' = [st EXCEPT ![job[p].child] = "unused"],
         UNCHANGED <<pgdir, share>>
  PROVE  User' = User
<1>. DEFINE c == job[p].child
            k == kstack[c]
<1>1. c \in Slot /\ st[c] = "embryo"
  <2>1. c \in Slot \cup {0}
    BY Sound DEF JobType
  <2>. QED  BY <2>1 DEF MInv, Calls
<1>2. k \in Frame
  <2>1. c \in InUse
    BY <1>1 DEF InUse
  <2>. QED  BY <2>1, Where
<1>3. m \in MemType /\ st \in [Slot -> {"unused", "embryo", "run", "zombie"}]
  BY Sound
<1>4. /\ m'.free = m.free \cup {k} /\ m'.space = m.space
      /\ \A g \in Frame : m'.content[g] = IF g \in {k} THEN Junk ELSE m.content[g]
  <2>1. {k} \in SUBSET Frame /\ m' = kfree(m, {k})
    BY <1>2
  <2>. HIDE DEF k
  <2>. QED  BY ONLY <1>3, <2>1, kfreeIs
<1>5. Untouched(m', m) /\ \A q \in Spaces : q # 0 => m'.space[q] = m.space[q]
  BY <1>4, Zenon DEF Untouched
<1>6. \A x \in Slot : st'[x] = "run" <=> st[x] = "run"
  BY <1>1, <1>3
<1>7. \A x \in Slot : st[x] = "run" => pgdir[x] # 0
  BY Apart, Numbers
<1>. QED  BY ONLY MInv, MInv', UNCHANGED <<pgdir, share>>, <1>5, <1>6, <1>7, Builds


\* A step that leaves the threads and all address spaces but one alone.
LEMMA OneSees ==
  ASSUME MInv, MInv', NEW p \in Slot, st[p] = "run", UNCHANGED <<st, share, pgdir>>,
         \A e \in Spaces : e # pgdir[p] => Same(m', m, e)
  PROVE  /\ User' = [User EXCEPT ![share[p]] = SeenOf(m', pgdir[p])]
         /\ User[share[p]] = SeenOf(m, pgdir[p]) /\ share[p] \in Slot
<1>1. share[p] \in Slot
  BY Sound
<1>2. User[share[p]] = SeenOf(m, pgdir[p])
  BY ONLY MInv, p \in Slot, st[p] = "run", Views
<1>3. User'[share[p]] = SeenOf(m', pgdir[p])
  <2>1. st'[p] = "run" /\ share'[p] = share[p] /\ pgdir'[p] = pgdir[p]
    OBVIOUS
  <2>2. User'[share'[p]] = SeenOf(m', pgdir'[p])
    BY ONLY MInv', p \in Slot, <2>1, ViewsNext
  <2>. QED  BY <2>1, <2>2
<1>4. \A x \in Slot : /\ st'[x] = "run" /\ share'[x] # share[p] => st[x] = "run" /\ share[x] = share'[x]
                      /\ st[x] = "run" /\ share[x] # share[p] => st'[x] = "run" /\ share'[x] = share[x]
  OBVIOUS
<1>5. \A x \in Slot : st[x] = "run" /\ share[x] # share[p] => pgdir'[x] = pgdir[x] /\ Same(m', m, pgdir[x])
  BY Apart
<1>6. PICK q : q = share[p]
  OBVIOUS
<1>7. PICK e : e = SeenOf(m', pgdir[p])
  OBVIOUS
<1>8. User' = [User EXCEPT ![q] = e]
  <2>1. q \in Slot /\ User'[q] = e
    BY <1>1, <1>3, <1>6, <1>7
  <2>2. \A x \in Slot : /\ st'[x] = "run" /\ share'[x] # q => st[x] = "run" /\ share[x] = share'[x]
                        /\ st[x] = "run" /\ share[x] # q => st'[x] = "run" /\ share'[x] = share[x]
    BY ONLY <1>4, <1>6
  <2>3. \A x \in Slot : st[x] = "run" /\ share[x] # q => pgdir'[x] = pgdir[x] /\ Same(m', m, pgdir[x])
    BY ONLY <1>5, <1>6
  <2>. QED  BY ONLY MInv, MInv', <2>1, <2>2, <2>3, SeenBy
<1>. QED  BY ONLY <1>1, <1>2, <1>6, <1>7, <1>8

\* A page that can be used is there, and in one place.
LEMMA UsableIs ==
  ASSUME NEW x, NEW D, NEW K, Good(x, D, K), NEW d \in D, NEW v \in Usable(x, d)
  PROVE  /\ v \in Page /\ x.space[d].pte[v].f # 0
         /\ \A w \in Page : w # v => x.space[d].pte[w].f # x.space[d].pte[v].f
<1>1. v \in Page /\ x.space[d].pte[v].u
  BY DEF Usable
<1>2. x.space[d].pte[v].f # 0
  BY <1>1, Zenon DEF Good
<1>3. v \in Page
  BY <1>1
<1>4. \A w \in Page : w # v => x.space[d].pte[w].f # x.space[d].pte[v].f
  BY <1>2, <1>3 DEF Good
<1>. QED  BY <1>2, <1>3, <1>4

LEMMA StoreView ==
  ASSUME MInv, MInv', NEW p \in Slot, NEW v \in Page, Store(p, v)
  PROVE  AS!Next
<1>1. PICK d : d = pgdir[p]
  OBVIOUS
<1>2. PICK f : f = m.space[d].pte[v].f
  OBVIOUS
<1>3. PICK q : q = share[p]
  OBVIOUS
<1>4. /\ st[p] = "run" /\ v \in Usable(m, d) /\ m' = [m EXCEPT !.content[f] = q] /\ UNCHANGED <<st, share, pgdir>>
  BY <1>1, <1>2, <1>3, Zenon DEF Store, Runs, Usable
<1>5. Good(m, Spaces, KStacks) /\ d \in Spaces /\ q \in Slot /\ q \in Int
  <2>1. q \in Slot /\ Slot \subseteq Nat
    BY <1>3, Sound, Numbers
  <2>2. d \in Spaces
    BY <1>1, <1>4, Apart
  <2>. QED  BY <2>1, <2>2, Sound
<1>6. m.space[d].pte[v].u
  BY <1>4 DEF Usable
<1>7. /\ m'.space = m.space
      /\ \A g \in Frame : m'.content[g] = IF g = f THEN q ELSE m.content[g]
      /\ \A e \in Spaces : e # d => Same(m', m, e)
  BY ONLY v \in Page, <1>2, <1>4, <1>5, <1>6, StoreIs, SMTT(30)
<1>8. m.space[d].pte[v].f # 0 /\ \A w \in Page : w # v => m.space[d].pte[w].f # f
  BY <1>2, <1>4, <1>5, UsableIs
<1>9. Usable(m', d) = Usable(m, d)
  BY <1>7 DEF Usable
<1>10. ASSUME NEW w \in Usable(m, d) PROVE Held(m', d, w) = IF w = v THEN q ELSE Held(m, d, w)
  <2>1. w \in Page /\ m.space[d].pte[w].f # 0
    BY <1>5, UsableIs
  <2>2. m.space[d].pte[w].f \in Frame
    <3>1. m \in MemType /\ d \in Frame
      BY <1>5 DEF Good
    <3>. QED  BY <2>1, <3>1, Parts
  <2>. QED  BY <1>2, <1>7, <1>8, <2>1, <2>2 DEF Held
<1>11. SeenOf(m', d) = [SeenOf(m, d) EXCEPT ![v] = q] /\ DOMAIN SeenOf(m, d) = Usable(m, d)
  BY <1>4, <1>9, <1>10, Zenon DEF SeenOf
<1>12. User' = [User EXCEPT ![share[p]] = SeenOf(m', pgdir[p])] /\ User[share[p]] = SeenOf(m, pgdir[p])
  <2>1. \A e \in Spaces : e # pgdir[p] => Same(m', m, e)
    BY ONLY <1>1, <1>7
  <2>2. st[p] = "run" /\ UNCHANGED <<st, share, pgdir>>
    BY <1>4
  <2>. QED  BY ONLY MInv, MInv', p \in Slot, <2>1, <2>2, OneSees
<1>13. User' = [User EXCEPT ![q] = [User[q] EXCEPT ![v] = q]] /\ v \in DOMAIN User[q]
  BY ONLY <1>1, <1>3, <1>4, <1>11, <1>12, Zenon
<1>14. AS!Store(q)
  BY <1>13, Zenon DEF AS!Store
<1>. QED  BY <1>5, <1>14 DEF AS!Next


\* Fewer pages, with what was in them.
LEMMA Fewer ==
  ASSUME NEW x, NEW y, NEW d, Usable(y, d) \subseteq Usable(x, d),
         \A v \in Usable(y, d) : Held(y, d, v) = Held(x, d, v),
         NEW q \in Slot, User[q] = SeenOf(x, d), User' = [User EXCEPT ![q] = SeenOf(y, d)]
  PROVE  AS!Next
<1>. DEFINE S == Usable(x, d) \ Usable(y, d)
<1>1. DOMAIN User[q] = Usable(x, d) /\ \A v \in Usable(x, d) : User[q][v] = Held(x, d, v)
  BY DEF SeenOf
<1>2. S \in SUBSET DOMAIN User[q] /\ DOMAIN User[q] \ S = Usable(y, d)
  BY <1>1
<1>3. [v \in DOMAIN User[q] \ S |-> User[q][v]] = SeenOf(y, d)
  <2>1. [v \in Usable(y, d) |-> User[q][v]] = SeenOf(y, d)
    BY <1>1 DEF SeenOf
  <2>. HIDE DEF S
  <2>. QED  BY ONLY <1>2, <2>1
<1>4. User' = [User EXCEPT ![q] = [v \in DOMAIN User[q] \ S |-> User[q][v]]]
  <2>. HIDE DEF S
  <2>. QED  BY ONLY <1>3, User' = [User EXCEPT ![q] = SeenOf(y, d)], Zenon
<1>. HIDE DEF S
<1>5. AS!DropPages(q)
  BY <1>2, <1>4, Zenon DEF AS!DropPages
<1>. QED  BY <1>5 DEF AS!Next

LEMMA UnpagedSeen ==
  ASSUME NEW x, NEW D, NEW K, Good(x, D, K), NEW d \in D, NEW G \in SUBSET Page, NEW y, Unpaged(y, x, d, G)
  PROVE  /\ Usable(y, d) \subseteq Usable(x, d) /\ \A v \in Usable(y, d) : Held(y, d, v) = Held(x, d, v)
         /\ \A e \in D : e # d => Same(y, x, e)
<1>1. Good(y, D, K) /\ Untouched(y, x)
  BY GoodUnpaged
<1>2. \A e \in D \cap D : e # d => Same(y, x, e)
  <2>1. \A e \in Frame \cup {0} : e # d => y.space[e] = x.space[e]
    BY DEF Unpaged
  <2>. QED  BY ONLY Good(x, D, K), <1>1, <2>1, OthersSame
<1>3. ASSUME NEW v \in Usable(y, d) PROVE v \in Usable(x, d) /\ Held(y, d, v) = Held(x, d, v)
  <2>1. v \in Page /\ y.space[d].pte[v].f # 0
    BY <1>1, UsableIs
  <2>2. y.space[d].pte[v] = IF v \in G THEN Absent ELSE x.space[d].pte[v]
    BY <2>1 DEF Unpaged
  <2>3. y.space[d].pte[v] = x.space[d].pte[v]
    BY <2>1, <2>2 DEF Absent
  <2>4. v \in Usable(x, d)
    BY <2>1, <2>3 DEF Usable
  <2>5. y.space[d].pte[v].f \in Frame /\ y.space[d].pte[v].f \notin y.free
    <3>1. y \in MemType /\ d \in Frame
      BY <1>1 DEF Good
    <3>2. y.space[d].pte[v].f \in Pages(y, d) /\ Pages(y, d) \subseteq Frame
      BY <2>1, <3>1, Parts
    <3>. QED  BY <1>1, <3>2 DEF Good, Uses
  <2>6. y.content[y.space[d].pte[v].f] = x.content[y.space[d].pte[v].f]
    BY <2>5 DEF Unpaged
  <2>. QED  BY <2>3, <2>4, <2>6 DEF Held
<1>. QED  BY <1>2, <1>3

LEMMA ShrinkView ==
  ASSUME MInv, MInv', NEW p \in Slot, NEW n \in SbrkArgs, Shrink(p, n)
  PROVE  AS!Next
<1>1. PICK d : d = pgdir[p]
  OBVIOUS
<1>2. PICK new : new = (sz[share[p]] + n) % WORD
  OBVIOUS
<1>3. PICK old : old = sz[share[p]]
  OBVIOUS
<1>4. /\ st[p] = "run" /\ m' = deallocuvm(m, d, old, new) /\ UNCHANGED <<st, share, pgdir>>
  BY <1>1, <1>2, <1>3 DEF Shrink, Runs
<1>5. old \in Nat /\ new \in Nat
  <2>1. share[p] \in Slot /\ sz[share[p]] \in Nat /\ n \in Int
    BY Sound, MemAssumption
  <2>2. WORD \in Nat \ {0}
    BY Numbers
  <2>. QED  BY <1>2, <1>3, <2>1, <2>2
<1>6. Good(m, Spaces, KStacks) /\ d \in Spaces /\ d \in Frame /\ m \in MemType
  BY <1>1, <1>4, Apart, Sound
<1>7. PICK G : G = Dropped(old, new)
  OBVIOUS
<1>8. G \in SUBSET Page
  BY <1>7 DEF Dropped
<1>9. Unpaged(m', m, d, G)
  <2>1. Unpaged(m', m, d, Dropped(old, new))
    BY ONLY <1>4, <1>5, <1>6, deallocuvmIs
  <2>. QED  BY ONLY <1>7, <2>1
<1>10. /\ Usable(m', d) \subseteq Usable(m, d) /\ \A v \in Usable(m', d) : Held(m', d, v) = Held(m, d, v)
       /\ \A e \in Spaces : e # d => Same(m', m, e)
  BY ONLY <1>6, <1>8, <1>9, UnpagedSeen
<1>11. /\ User' = [User EXCEPT ![share[p]] = SeenOf(m', pgdir[p])] /\ User[share[p]] = SeenOf(m, pgdir[p])
       /\ share[p] \in Slot
  <2>1. \A e \in Spaces : e # pgdir[p] => Same(m', m, e)
    BY ONLY <1>1, <1>10
  <2>2. st[p] = "run" /\ UNCHANGED <<st, share, pgdir>>
    BY <1>4
  <2>. QED  BY ONLY MInv, MInv', p \in Slot, <2>1, <2>2, OneSees
<1>12. PICK q : q = share[p]
  OBVIOUS
<1>13. User' = [User EXCEPT ![q] = SeenOf(m', d)] /\ User[q] = SeenOf(m, d) /\ q \in Slot
  BY ONLY <1>1, <1>11, <1>12
<1>. QED  BY ONLY <1>10, <1>13, Fewer, Zenon


\* A new page is one that was not there, and has zeroes.
LEMMA PagedSeen ==
  ASSUME NEW x, NEW D, NEW K, Good(x, D, K), NEW d \in D, NEW v \in Page, NEW f, NEW u, x.space[d].pte[v].f = 0,
         NEW y, Paged(y, x, d, v, f, u), v \in Usable(y, d), Untouched(y, x), NEW c, y.content[f] = c
  PROVE  /\ v \notin Usable(x, d) /\ Usable(y, d) = Usable(x, d) \cup {v}
         /\ Held(y, d, v) = c /\ \A w \in Usable(x, d) : Held(y, d, w) = Held(x, d, w)
<1>1. OnePage(y, x, d, v, f)
  BY ONLY Good(x, D, K), d \in D, v \in Page, x.space[d].pte[v].f = 0, Paged(y, x, d, v, f, u), Untouched(y, x), PagedContent
<1>2. v \notin Usable(x, d)
  BY UsableIs
<1>6. \A w \in Page : w # v => (w \in Usable(y, d) <=> w \in Usable(x, d))
  <2>1. \A w \in Page : w # v => y.space[d].pte[w] = x.space[d].pte[w]
    BY <1>1 DEF OnePage
  <2>. QED  BY ONLY <2>1, Zenon DEF Usable
<1>7. Usable(y, d) = Usable(x, d) \cup {v}
  <2>1. Usable(y, d) \subseteq Page /\ Usable(x, d) \subseteq Page
    BY DEF Usable
  <2>. QED  BY <1>6, <2>1
<1>8. Held(y, d, v) = c
  BY <1>1 DEF Held, OnePage
<1>9. ASSUME NEW w \in Usable(x, d) PROVE Held(y, d, w) = Held(x, d, w)
  <2>1. w \in Page /\ x.space[d].pte[w].f # 0 /\ w # v
    BY <1>2, UsableIs
  <2>2. y.space[d].pte[w] = x.space[d].pte[w] /\ y.content[x.space[d].pte[w].f] = x.content[x.space[d].pte[w].f]
    BY <1>1, <2>1 DEF OnePage
  <2>. QED  BY <2>2 DEF Held
<1>. QED  BY <1>2, <1>7, <1>8, <1>9

LEMMA PagedUsable ==
  ASSUME NEW x \in MemType, NEW d \in Frame, NEW v \in Page, NEW f, NEW y, Paged(y, x, d, v, f, TRUE)
  PROVE  v \in Usable(y, d)
<1>1. x.space[d].pte \in [Page -> [f : Frame \cup {0}, u : BOOLEAN]]
  BY ONLY x \in MemType, d \in Frame DEF MemType, SpaceType
<1>2. y.space[d].pte = [x.space[d].pte EXCEPT ![v] = [f |-> f, u |-> TRUE]]
  BY DEF Paged
<1>3. y.space[d].pte[v] = [f |-> f, u |-> TRUE]
  BY ONLY <1>1, <1>2, v \in Page
<1>4. y.space[d].pte[v].u
  BY ONLY <1>3
<1>. QED  BY <1>4 DEF Usable

LEMMA AddView ==
  ASSUME NEW x, NEW y, NEW d, NEW v \in Page, v \notin Usable(x, d), Usable(y, d) = Usable(x, d) \cup {v},
         Held(y, d, v) = Zero, \A w \in Usable(x, d) : Held(y, d, w) = Held(x, d, w),
         NEW q \in Slot, User[q] = SeenOf(x, d), User' = [User EXCEPT ![q] = SeenOf(y, d)]
  PROVE  AS!Next
<1>1. DOMAIN User[q] = Usable(x, d) /\ \A w \in Usable(x, d) : User[q][w] = Held(x, d, w)
  BY DEF SeenOf
<1>2. [w \in DOMAIN User[q] \cup {v} |-> IF w = v THEN Zero ELSE User[q][w]] = SeenOf(y, d)
  <2>1. [w \in Usable(y, d) |-> IF w = v THEN Zero ELSE User[q][w]] = SeenOf(y, d)
    BY <1>1 DEF SeenOf
  <2>. QED  BY ONLY <1>1, <2>1, Usable(y, d) = Usable(x, d) \cup {v}
<1>3. User' = [User EXCEPT ![q] = [w \in DOMAIN User[q] \cup {v} |-> IF w = v THEN Zero ELSE User[q][w]]]
  BY ONLY <1>2, User' = [User EXCEPT ![q] = SeenOf(y, d)], Zenon
<1>4. v \in Page \ DOMAIN User[q]
  BY <1>1
<1>5. AS!AddPage(q)
  BY <1>3, <1>4, ZenonT(60) DEF AS!AddPage
<1>. QED  BY <1>5 DEF AS!Next

\* allocuvm() gives up: the pages that it has added are gone.
LEMMA FullSeen ==
  ASSUME NEW x, NEW D, NEW K, Good(x, D, K), NEW d \in D, NEW y, NEW k,
         \A v \in Page : y.space[d].pte[v] = IF v < k THEN x.space[d].pte[v] ELSE Absent,
         \A v \in Page : v < k => y.content[x.space[d].pte[v].f] = x.content[x.space[d].pte[v].f]
  PROVE  Usable(y, d) \subseteq Usable(x, d) /\ \A v \in Usable(y, d) : Held(y, d, v) = Held(x, d, v)
<1>. SUFFICES ASSUME NEW v \in Usable(y, d) PROVE v \in Usable(x, d) /\ Held(y, d, v) = Held(x, d, v)
  OBVIOUS
<1>1. v \in Page /\ y.space[d].pte[v].u
  BY DEF Usable
<1>2. v < k
  <2>. SUFFICES ASSUME ~(v < k) PROVE FALSE
    OBVIOUS
  <2>1. y.space[d].pte[v] = Absent
    BY <1>1
  <2>2. y.space[d].pte[v].u = FALSE
    BY <2>1 DEF Absent
  <2>. QED  BY <1>1, <2>2
<1>3. y.space[d].pte[v] = x.space[d].pte[v] /\ y.content[x.space[d].pte[v].f] = x.content[x.space[d].pte[v].f]
  BY <1>1, <1>2
<1>. QED  BY <1>1, <1>3 DEF Usable, Held


LEMMA allocuvmView ==
  ASSUME MInv, MInv', NEW p \in Slot, allocuvm(p)
  PROVE  AS!Next \/ User' = User
<1>. DEFINE d == job[p].dir
            n == job[p].a \div PGSIZE
            u == TRUE
            r == NewPage(m, d, n, Zero, u)
            z == r.x
            to == job[p].to
            old == job[p].old
<1>0. u \in BOOLEAN
  BY SMTT(30)
<1>1. /\ job[p].op \in AllocOps /\ job[p].at = "alloc"
      /\ UNCHANGED <<st, pgdir, share>>
      /\ \/ job[p].a >= to /\ m' = m
         \/ job[p].a < to /\ r.res = "ok" /\ m' = z
         \/ job[p].a < to /\ r.res = "full" /\ m' = deallocuvm(z, d, to, old)
         \/ job[p].a < to /\ r.res = "remap"
  BY ZenonT(60) DEF allocuvm, Goes, Cleared
<1>. HIDE DEF u
<1>2. /\ d \in Spaces /\ d \in Frame
      /\ job[p].op \in {"sbrk", "spawn"} => d = pgdir[p]
      /\ job[p].op \in {"segment", "stack"} => p \in Builders
      /\ n \in Nat /\ Exact(m, d, n) /\ n <= PagesOf(to) /\ PagesOf(old) <= n /\ to \in Nat /\ old \in Nat
      /\ job[p].a < to => n \in Page /\ m.space[d].pte[n].f = 0
  BY <1>1, AllocAt
<1>3. Good(m, Spaces, KStacks) /\ m \in MemType /\ st[p] = "run"
  BY <1>1, Sound, InCallAlone DEF AllocOps
<1>4. job[p].a < to =>
         /\ Untouched(z, m)
         /\ \/ r.res = "ok" /\ \E f : Paged(z, m, d, n, f, u) /\ z.content[f] = Zero
            \/ r.res = "full" /\ z \in MemType /\ z.frames = m.frames /\ z.space = m.space /\ z.free = m.free
  <2>. HAVE job[p].a < to
  <2>1. n \in Page /\ m.space[d].pte[n].f = 0
    BY <1>2
  <2>2. d \in Spaces /\ Good(m, Spaces, KStacks) /\ r = NewPage(m, d, n, Zero, u)
    BY <1>2, <1>3
  <2>. HIDE DEF d, n, r
  <2>. QED  BY <1>0, <2>1, <2>2, Values, NewPageIs
\* A new image is not seen.
<1>5. ASSUME Untouched(m', m), \A e \in Spaces : e # d => m'.space[e] = m.space[e], job[p].op \in {"segment", "stack"}
      PROVE  User' = User
  <2>1. \A x \in Slot : st[x] = "run" => pgdir[x] # d
    BY <1>2, <1>3, <1>5, Apart
  <2>2. UNCHANGED <<share, pgdir>> /\ \A x \in Slot : st'[x] = "run" <=> st[x] = "run"
    BY <1>1
  <2>. HIDE DEF d
  <2>. QED  BY ONLY MInv, MInv', <1>5, <2>1, <2>2, Builds
\* The process sees its own pages.
<1>6. ASSUME Untouched(m', m), \A e \in Spaces : e # d => m'.space[e] = m.space[e], job[p].op \in {"sbrk", "spawn"}
      PROVE  /\ User' = [User EXCEPT ![share[p]] = SeenOf(m', d)]
             /\ User[share[p]] = SeenOf(m, d) /\ share[p] \in Slot
  <2>1. d = pgdir[p]
    BY <1>2, <1>6
  <2>2. UNCHANGED <<st, share, pgdir>>
    BY <1>1
  <2>3. Good(m', Spaces', KStacks')
    BY DEF MInv, Framed
  <2>4. ASSUME NEW e \in Spaces, e # pgdir[p], e \in Spaces' PROVE Same(m', m, e)
    <3>1. m'.space[e] = m.space[e] /\ e \in Spaces \cap Spaces'
      BY <1>6, <2>1, <2>4
    <3>. QED  BY ONLY <1>3, <1>6, <2>3, <3>1, SameContent
  <2>5. \A x \in Slot : st[x] = "run" => pgdir[x] \in Spaces /\ pgdir[x] \in Spaces'
    <3>. TAKE x \in Slot
    <3>. HAVE st[x] = "run"
    <3>1. pgdir'[x] \in Spaces'
      BY <2>2 DEF Spaces
    <3>. QED  BY <2>2, <3>1, Apart
  <2>6. PICK q : q = share[p]
    OBVIOUS
  <2>7. PICK e : e = SeenOf(m', d)
    OBVIOUS
  <2>8. q \in Slot /\ User[q] = SeenOf(m, d) /\ User'[q] = e
    <3>1. share[p] \in Slot
      BY Sound
    <3>2. User[share[p]] = SeenOf(m, pgdir[p])
      BY <1>3, Views
    <3>3. User'[share'[p]] = SeenOf(m', pgdir'[p])
      BY <1>3, <2>2, ViewsNext
    <3>. HIDE DEF d
    <3>. QED  BY ONLY <2>1, <2>2, <2>6, <2>7, <3>1, <3>2, <3>3
  <2>9. \A x \in Slot : /\ st'[x] = "run" /\ share'[x] # q => st[x] = "run" /\ share[x] = share'[x]
                        /\ st[x] = "run" /\ share[x] # q => st'[x] = "run" /\ share'[x] = share[x]
    BY ONLY <2>2
  <2>10. \A x \in Slot : st[x] = "run" /\ share[x] # q => pgdir'[x] = pgdir[x] /\ Same(m', m, pgdir[x])
    BY <1>3, <2>2, <2>4, <2>5, <2>6, Apart
  <2>11. User' = [User EXCEPT ![q] = e]
    BY ONLY MInv, MInv', <2>8, <2>9, <2>10, SeenBy
  <2>. HIDE DEF d
  <2>. QED  BY ONLY <2>6, <2>7, <2>8, <2>11
<1>7. job[p].op \in {"sbrk", "spawn"} \/ job[p].op \in {"segment", "stack"}
  BY <1>1 DEF AllocOps
<1>8. CASE job[p].a >= to /\ m' = m
  BY <1>1, <1>8, NothingSeen
<1>9. CASE job[p].a < to /\ r.res = "ok" /\ m' = z
  <2>1. n \in Page /\ m.space[d].pte[n].f = 0 /\ Untouched(m', m)
    BY <1>2, <1>4, <1>9
  <2>2. PICK f : Paged(m', m, d, n, f, u) /\ m'.content[f] = Zero
    BY <1>4, <1>9
  <2>3. \A e \in Spaces : e # d => m'.space[e] = m.space[e]
    BY <1>3, <2>2 DEF Paged, Good
  <2>4. CASE job[p].op \in {"sbrk", "spawn"}
    <3>1. /\ User' = [User EXCEPT ![share[p]] = SeenOf(m', d)]
          /\ User[share[p]] = SeenOf(m, d) /\ share[p] \in Slot
      BY <1>6, <2>1, <2>3, <2>4
    <3>2. d \in Spaces /\ Good(m, Spaces, KStacks)
      BY <1>2, <1>3
    <3>3. PICK q : q = share[p]
      OBVIOUS
    <3>7. n \in Usable(m', d)
      <4>1. Paged(m', m, d, n, f, TRUE)
        BY <2>2, Zenon DEF u
      <4>2. d \in Frame /\ m \in MemType /\ n \in Page
        BY <1>2, <1>3, <2>1
      <4>. HIDE DEF d, n, z, r
      <4>. QED  BY ONLY <4>1, <4>2, PagedUsable, Zenon
    <3>. HIDE DEF d, n, z, r
    <3>4. /\ n \notin Usable(m, d) /\ Usable(m', d) = Usable(m, d) \cup {n}
          /\ Held(m', d, n) = Zero /\ \A w \in Usable(m, d) : Held(m', d, w) = Held(m, d, w)
      BY ONLY <2>1, <2>2, <3>2, <3>7, PagedSeen
    <3>5. User' = [User EXCEPT ![q] = SeenOf(m', d)] /\ User[q] = SeenOf(m, d) /\ q \in Slot
      BY ONLY <3>1, <3>3
    <3>6. AS!Next
      BY ONLY <2>1, <3>4, <3>5, AddView, ZenonT(60)
    <3>. QED  BY <3>6
  <2>5. CASE job[p].op \in {"segment", "stack"}
    BY <1>5, <2>1, <2>3, <2>5
  <2>. QED  BY <1>7, <2>4, <2>5, SMTT(30)
<1>10. CASE job[p].a < to /\ r.res = "full" /\ m' = deallocuvm(z, d, to, old)
  <2>1. z \in MemType /\ z.frames = m.frames /\ z.space = m.space /\ z.free = m.free /\ Untouched(z, m)
    BY <1>4, <1>10
  <2>2. m' = deallocuvm(z, d, to, old)
    BY <1>10
  <2>3. /\ d \in Spaces /\ d \in Frame /\ n \in Nat /\ Exact(m, d, n) /\ n <= PagesOf(to) /\ PagesOf(old) <= n
        /\ to \in Nat /\ old \in Nat
    BY <1>2
  <2>. HIDE DEF z, r, n, to, old
  <2>4. /\ Untouched(m', m)
        /\ \A e \in Frame \cup {0} : e # d => m'.space[e] = m.space[e]
        /\ \A v \in Page : m'.space[d].pte[v] = IF v < PagesOf(old) THEN m.space[d].pte[v] ELSE Absent
        /\ \A v \in Page : v < PagesOf(old) =>
              m'.content[m.space[d].pte[v].f] = m.content[m.space[d].pte[v].f]
    <3>. HIDE DEF d
    <3>1. Good(m, Spaces, KStacks)
      BY <1>3, SMTT(30)
    <3>. QED  BY ONLY <2>1, <2>2, <2>3, <3>1, FullIs, SMTT(30)
  <2>5. \A e \in Spaces : e # d => m'.space[e] = m.space[e]
    BY <1>3, <2>4, SMTT(30) DEF Good
  <2>6. CASE job[p].op \in {"sbrk", "spawn"}
    <3>1. /\ User' = [User EXCEPT ![share[p]] = SeenOf(m', d)]
          /\ User[share[p]] = SeenOf(m, d) /\ share[p] \in Slot
      BY <1>6, <2>4, <2>5, <2>6
    <3>2. PICK q : q = share[p]
      OBVIOUS
    <3>3. PICK k : k = PagesOf(old)
      OBVIOUS
    <3>. HIDE DEF d
    <3>4. /\ \A v \in Page : m'.space[d].pte[v] = IF v < k THEN m.space[d].pte[v] ELSE Absent
          /\ \A v \in Page : v < k => m'.content[m.space[d].pte[v].f] = m.content[m.space[d].pte[v].f]
      BY ONLY <2>4, <3>3
    <3>5. Usable(m', d) \subseteq Usable(m, d) /\ \A v \in Usable(m', d) : Held(m', d, v) = Held(m, d, v)
      BY ONLY <1>3, <2>3, <3>4, FullSeen, SMTT(30)
    <3>6. User' = [User EXCEPT ![q] = SeenOf(m', d)] /\ User[q] = SeenOf(m, d) /\ q \in Slot
      BY ONLY <3>1, <3>2
    <3>7. AS!Next
      BY ONLY <3>5, <3>6, Fewer, Zenon
    <3>. QED  BY <3>7
  <2>7. CASE job[p].op \in {"segment", "stack"}
    BY <1>5, <2>4, <2>5, <2>7
  <2>. QED  BY <1>7, <2>6, <2>7
<1>11. CASE job[p].a < to /\ r.res = "remap"
  BY <1>4, <1>11
<1>. QED  BY <1>1, <1>8, <1>9, <1>10, <1>11


\* fork(): the child sees what its parent sees.
LEMMA CopiedSeen ==
  ASSUME MInv, NEW p \in Slot, job[p].op = "fork", job[p].a >= job[p].to
  PROVE  SeenOf(m, job[p].dir) = SeenOf(m, pgdir[p])
<1>1. PICK d : d = job[p].dir
  OBVIOUS
<1>2. PICK o : o = pgdir[p]
  OBVIOUS
<1>3. PICK n : n = job[p].a \div PGSIZE
  OBVIOUS
<1>4. /\ d \in Spaces /\ o \in Spaces /\ Exact(m, o, n) /\ Exact(m, d, n)
  <2>1. /\ job[p].dir \in Spaces /\ pgdir[p] \in Spaces /\ Exact(m, pgdir[p], PagesOf(sz[share[p]]))
        /\ Exact(m, job[p].dir, n) /\ n = PagesOf(sz[share[p]])
    BY ONLY MInv, p \in Slot, job[p].op = "fork", job[p].a >= job[p].to, <1>3, ForkAt
  <2>. QED  BY ONLY <1>1, <1>2, <2>1
<1>5. ASSUME NEW v \in Page, v < n
      PROVE  m.space[d].pte[v].u = m.space[o].pte[v].u /\ Held(m, d, v) = Held(m, o, v)
  <2>1. Copied(p)
    BY DEF MInv, Thread
  <2>2. /\ m.space[d].pte[v].u = m.space[o].pte[v].u
        /\ m.content[m.space[d].pte[v].f] = m.content[m.space[o].pte[v].f]
    BY <1>1, <1>2, <1>3, <1>5, <2>1, Zenon DEF Copied
  <2>. QED  BY <2>2, Zenon DEF Held
<1>6. Good(m, Spaces, KStacks)
  BY Sound
<1>7. ASSUME NEW v \in Page PROVE (v \in Usable(m, d) => v < n) /\ (v \in Usable(m, o) => v < n)
  BY <1>4, <1>6, UsableIs DEF Exact
<1>8. ASSUME NEW v \in Page PROVE v \in Usable(m, d) <=> v \in Usable(m, o)
  <2>1. CASE v < n
    BY <1>5, <2>1, Zenon DEF Usable
  <2>2. CASE ~(v < n)
    BY <1>7, <2>2
  <2>. QED  BY <2>1, <2>2
<1>9. Usable(m, d) = Usable(m, o)
  <2>1. Usable(m, d) \subseteq Page /\ Usable(m, o) \subseteq Page
    BY DEF Usable
  <2>. QED  BY <1>8, <2>1
<1>10. \A v \in Usable(m, o) : Held(m, d, v) = Held(m, o, v)
  <2>1. Usable(m, o) \subseteq Page
    BY DEF Usable
  <2>. QED  BY <1>5, <1>7, <2>1
<1>11. SeenOf(m, d) = SeenOf(m, o)
  BY ONLY <1>9, <1>10 DEF SeenOf
<1>. QED  BY ONLY <1>1, <1>2, <1>11

LEMMA forkView ==
  ASSUME MInv, MInv', NEW p \in Slot, fork(p)
  PROVE  AS!Next
<1>1. PICK c : c = job[p].child
  OBVIOUS
<1>2. PICK d : d = job[p].dir
  OBVIOUS
<1>3. /\ job[p].op = "fork" /\ job[p].a >= job[p].to /\ m' = m
      /\ st' = [st EXCEPT ![c] = "run"] /\ pgdir' = [pgdir EXCEPT ![c] = d] /\ share' = [share EXCEPT ![c] = c]
  BY <1>1, <1>2 DEF fork, Goes
<1>4. st[p] = "run" /\ c \in Slot /\ st[c] = "embryo" /\ share[p] \in Slot
  BY <1>1, <1>3, ForkAt
<1>5. /\ st \in [Slot -> {"unused", "embryo", "run", "zombie"}] /\ share \in [Slot -> Slot]
      /\ pgdir \in [Slot -> Frame \cup {0}]
  BY DEF MInv, MemTypes
<1>6. \A x \in Slot : st[x] = "run" => share[x] # c
  BY <1>4 DEF MInv, Families
<1>7. User[c] = AS!Empty /\ User[share[p]] = SeenOf(m, pgdir[p])
  BY <1>4, <1>6, Views
<1>8. st'[c] = "run" /\ share'[c] = c /\ pgdir'[c] = d
  BY <1>3, <1>4, <1>5
<1>9. User'[c] = SeenOf(m', pgdir'[c])
  BY ONLY MInv', <1>4, <1>8, ViewsNext
<1>10. User'[c] = User[share[p]]
  <2>1. SeenOf(m, d) = SeenOf(m, pgdir[p])
    BY <1>2, <1>3, CopiedSeen
  <2>. QED  BY ONLY <1>3, <1>7, <1>8, <1>9, <2>1
<1>11. \A x \in Slot : /\ st'[x] = "run" /\ share'[x] # c => st[x] = "run" /\ share[x] = share'[x]
                       /\ st[x] = "run" /\ share[x] # c => st'[x] = "run" /\ share'[x] = share[x]
  BY <1>3, <1>4, <1>5
<1>12. \A x \in Slot : st[x] = "run" /\ share[x] # c => pgdir'[x] = pgdir[x] /\ Same(m', m, pgdir[x])
  BY <1>3, <1>4, <1>5 DEF Same
<1>13. PICK e : e = User[share[p]]
  OBVIOUS
<1>14. User' = [User EXCEPT ![c] = e]
  <2>1. c \in Slot /\ User'[c] = e
    BY <1>4, <1>10, <1>13
  <2>. QED  BY ONLY MInv, MInv', <1>11, <1>12, <2>1, SeenBy
<1>15. AS!Fork(share[p], c)
  BY ONLY <1>7, <1>13, <1>14 DEF AS!Fork
<1>. QED  BY <1>4, <1>15 DEF AS!Next

LEMMA exitView ==
  ASSUME MInv, MInv', NEW p \in Slot, exit(p)
  PROVE  AS!Next
<1>1. /\ st[p] = "run" /\ m' = m /\ UNCHANGED <<share, pgdir>>
      /\ \A x \in Slot : st'[x] = IF x \in Family(p) THEN "zombie"
                                  ELSE IF \E y \in Family(p) : job[y].child = x THEN "lost" ELSE st[x]
  BY DEF exit
<1>2. share[p] \in Slot
  BY Sound
<1>3. \A x \in Slot : st[x] = "run" => (x \in Family(p) <=> share[x] = share[p])
  BY DEF Family
<1>4. \A x \in Slot : st[x] = "run" => ~\E y \in Family(p) : job[y].child = x
  <2>. SUFFICES ASSUME NEW x \in Slot, st[x] = "run", NEW y \in Family(p), job[y].child = x PROVE FALSE
    OBVIOUS
  <2>1. y \in Slot /\ 0 \notin Slot
    BY Numbers DEF Family
  <2>2. job[y].child # 0
    BY <2>1
  <2>3. st[job[y].child] = "embryo"
    BY <2>1, <2>2 DEF MInv, Calls
  <2>. QED  BY <2>3
<1>5. \A x \in Slot : st'[x] = "run" <=> st[x] = "run" /\ share[x] # share[p]
  BY <1>1, <1>3, <1>4
<1>6. PICK q : q = share[p]
  OBVIOUS
<1>7. q \in Slot /\ User'[q] = AS!Empty
  <2>1. \A y \in Slot : st'[y] = "run" => share'[y] # q
    BY <1>1, <1>5, <1>6
  <2>2. q \in Slot
    BY <1>2, <1>6
  <2>. QED  BY ONLY MInv', <2>1, <2>2, ViewsNext
<1>8. \A x \in Slot : /\ st'[x] = "run" /\ share'[x] # q => st[x] = "run" /\ share[x] = share'[x]
                      /\ st[x] = "run" /\ share[x] # q => st'[x] = "run" /\ share'[x] = share[x]
  BY <1>1, <1>5, <1>6
<1>9. \A x \in Slot : st[x] = "run" /\ share[x] # q => pgdir'[x] = pgdir[x] /\ Same(m', m, pgdir[x])
  BY <1>1 DEF Same
<1>10. PICK e : e = AS!Empty
  OBVIOUS
<1>11. User' = [User EXCEPT ![q] = e]
  <2>1. q \in Slot /\ User'[q] = e
    BY <1>7, <1>10
  <2>. QED  BY ONLY MInv, MInv', <1>8, <1>9, <2>1, SeenBy
<1>12. AS!End(q)
  BY ONLY <1>10, <1>11 DEF AS!End
<1>. QED  BY <1>7, <1>12 DEF AS!Next


LEMMA GuardSeen ==
  ASSUME NEW x, NEW y, NEW d, NEW w, y.content = x.content, Guarded(y, x, d, w),
         \A v \in Page : y.space[d].pte[v].f = x.space[d].pte[v].f
  PROVE  Usable(y, d) \subseteq Usable(x, d) /\ \A v \in Usable(y, d) : Held(y, d, v) = Held(x, d, v)
<1>. SUFFICES ASSUME NEW v \in Usable(y, d) PROVE v \in Usable(x, d) /\ Held(y, d, v) = Held(x, d, v)
  OBVIOUS
<1>1. v \in Page /\ y.space[d].pte[v].u
  BY DEF Usable
<1>2. y.space[d].pte[v].u = IF v = w THEN FALSE ELSE x.space[d].pte[v].u
  BY <1>1, Zenon DEF Guarded
<1>3. x.space[d].pte[v].u
  BY ONLY <1>1, <1>2, Zenon
<1>4. v \in Usable(x, d)
  BY <1>1, <1>3, Zenon DEF Usable
<1>5. v \in Page
  BY <1>1
<1>6. y.space[d].pte[v].f = x.space[d].pte[v].f
  BY <1>5
<1>7. Held(y, d, v) = Held(x, d, v)
  BY <1>6 DEF Held
<1>. QED  BY <1>4, <1>7

\* thread_create(): its guard page can no longer be used.
LEMMA SpawnView ==
  ASSUME MInv, MInv', NEW p \in Slot, job[p].op = "spawn", NEW c, c = job[p].child,
         m' = Guard(m, job[p].dir, job[p].old), st' = [st EXCEPT ![c] = "run"],
         pgdir' = [pgdir EXCEPT ![c] = job[p].dir], share' = [share EXCEPT ![c] = share[p]]
  PROVE  AS!Next
<1>1. PICK d : d = pgdir[p]
  OBVIOUS
<1>2. PICK q : q = share[p]
  OBVIOUS
<1>3. PICK a : a = job[p].old
  OBVIOUS
<1>4. /\ st \in [Slot -> {"unused", "embryo", "run", "zombie"}] /\ share \in [Slot -> Slot]
      /\ pgdir \in [Slot -> Frame \cup {0}] /\ job \in [Slot -> JobType]
  BY DEF MInv, MemTypes
<1>5. c \in Slot /\ st[c] = "embryo" /\ st[p] = "run" /\ a \in Nat /\ q \in Slot
  <2>1. c \in Slot \cup {0} /\ a \in Nat /\ q \in Slot
    BY <1>2, <1>3, <1>4 DEF JobType
  <2>2. st[p] = "run"
    BY InCallAlone
  <2>. QED  BY <2>1, <2>2 DEF MInv, Calls
<1>6. job[p].dir = d
  <2>1. Progress(p)
    BY DEF MInv, Thread
  <2>. QED  BY <1>1, <2>1 DEF Progress
<1>7. Good(m, Spaces, KStacks) /\ d \in Spaces
  BY <1>1, <1>5, Apart, Sound
<1>8. m' = Guard(m, d, a)
  BY <1>3, <1>6
<1>9. /\ Good(m', Spaces, KStacks)
      /\ AllUsed(m, Spaces, KStacks) => AllUsed(m', Spaces, KStacks)
      /\ m'.free = m.free /\ m'.content = m.content
      /\ \A e \in Frame \cup {0} : e # d => m'.space[e] = m.space[e]
      /\ \A v \in Page : m'.space[d].pte[v].f = m.space[d].pte[v].f
      /\ Guarded(m', m, d, a \div PGSIZE)
  BY ONLY <1>5, <1>7, <1>8, GuardIs
<1>10. Usable(m', d) \subseteq Usable(m, d) /\ \A v \in Usable(m', d) : Held(m', d, v) = Held(m, d, v)
  BY ONLY <1>9, GuardSeen
<1>11. \A e \in Spaces : e # d => Same(m', m, e)
  BY <1>7, <1>9, Zenon DEF Same, Good
<1>12. User[q] = SeenOf(m, d)
  BY <1>1, <1>2, <1>5, Views
<1>13. User'[q] = SeenOf(m', d)
  <2>1. st'[p] = "run" /\ share'[p] = q /\ pgdir'[p] = d
    BY <1>1, <1>2, <1>4, <1>5
  <2>. QED  BY ONLY MInv', p \in Slot, <2>1, ViewsNext
<1>14. \A x \in Slot : /\ st'[x] = "run" /\ share'[x] # q => st[x] = "run" /\ share[x] = share'[x]
                       /\ st[x] = "run" /\ share[x] # q => st'[x] = "run" /\ share'[x] = share[x]
  BY <1>2, <1>4, <1>5
<1>15. \A x \in Slot : st[x] = "run" /\ share[x] # q => pgdir'[x] = pgdir[x] /\ Same(m', m, pgdir[x])
  <2>. TAKE x \in Slot
  <2>. HAVE st[x] = "run" /\ share[x] # q
  <2>1. pgdir[x] \in Spaces /\ pgdir[x] # d
    BY <1>1, <1>2, <1>5, Apart
  <2>2. x # c
    BY <1>5
  <2>. QED  BY <1>4, <1>11, <2>1, <2>2
<1>16. PICK e : e = SeenOf(m', d)
  OBVIOUS
<1>17. User' = [User EXCEPT ![q] = e]
  <2>1. q \in Slot /\ User'[q] = e
    BY <1>5, <1>13, <1>16
  <2>. QED  BY ONLY MInv, MInv', <1>14, <1>15, <2>1, SeenBy
<1>18. User' = [User EXCEPT ![q] = SeenOf(m', d)] /\ q \in Slot
  BY ONLY <1>5, <1>16, <1>17
<1>. QED  BY ONLY <1>10, <1>12, <1>18, Fewer, Zenon

LEMMA thread_createView ==
  ASSUME MInv, MInv', NEW p \in Slot, thread_create(p)
  PROVE  AS!Next \/ User' = User
<1>1. PICK c : c = job[p].child
  OBVIOUS
<1>2. CASE /\ job[p].op = "spawn" /\ m' = Guard(m, job[p].dir, job[p].old) /\ st' = [st EXCEPT ![c] = "run"]
           /\ pgdir' = [pgdir EXCEPT ![c] = job[p].dir] /\ share' = [share EXCEPT ![c] = share[p]]
  <2>1. AS!Next
    BY ONLY MInv, MInv', p \in Slot, <1>1, <1>2, SpawnView, Zenon
  <2>. QED  BY <2>1
<1>3. CASE /\ job[p].op = "spawn" /\ m' = kfree(m, {kstack[job[p].child]})
           /\ st' = [st EXCEPT ![job[p].child] = "unused"] /\ UNCHANGED <<pgdir, share>>
  <2>1. User' = User
    BY ONLY MInv, MInv', p \in Slot, <1>3, SpawnFailsView, Zenon
  <2>. QED  BY <2>1
<1>. QED  BY <1>1, <1>2, <1>3 DEF thread_create, Goes

\* exec(): text and zeroes.
LEMMA execView ==
  ASSUME MInv, MInv', NEW p \in Slot, exec(p)
  PROVE  AS!Next
<1>1. PICK d : d = job[p].dir
  OBVIOUS
<1>2. PICK o : o = pgdir[p]
  OBVIOUS
<1>3. PICK a : a = job[p].old
  OBVIOUS
<1>4. PICK y : y = Guard(m, d, a)
  OBVIOUS
<1>5. PICK q : q = share[p]
  OBVIOUS
<1>6. /\ job[p].op = "stack" /\ m' = freevm(y, o) /\ pgdir' = [pgdir EXCEPT ![p] = d] /\ UNCHANGED <<st, share>>
  BY <1>1, <1>2, <1>3, <1>4 DEF exec, Goes, Committed
<1>7. job[p].op \in Execing
  BY <1>6 DEF Execing
<1>8. /\ st[p] = "run" /\ p \in Builders /\ d \in Spaces /\ d \in Frame /\ d # o /\ o \in Spaces /\ o \in Frame
      /\ q \in Slot /\ Clean(m, d) /\ a \in Nat
  <2>1. job[p] \in JobType
    BY Sound
  <2>2. a \in Nat
    BY <1>3, <2>1 DEF JobType
  <2>. QED  BY <1>1, <1>2, <1>5, <1>7, <2>2, ExecAt
<1>9. Good(m, Spaces, KStacks) /\ pgdir \in [Slot -> Frame \cup {0}]
  BY DEF MInv, Framed, MemTypes
<1>10. /\ Good(y, Spaces, KStacks)
       /\ AllUsed(m, Spaces, KStacks) => AllUsed(y, Spaces, KStacks)
       /\ y.free = m.free /\ y.content = m.content
       /\ \A e \in Frame \cup {0} : e # d => y.space[e] = m.space[e]
       /\ \A v \in Page : y.space[d].pte[v].f = m.space[d].pte[v].f
  BY ONLY <1>4, <1>8, <1>9, GuardIs
<1>11. /\ Good(m', Spaces \ {o}, KStacks)
       /\ AllUsed(y, Spaces, KStacks) => AllUsed(m', Spaces \ {o}, KStacks)
       /\ \A e \in Frame \cup {0} : e # o => m'.space[e] = y.space[e]
       /\ Untouched(m', y)
  <2>1. o \in Spaces /\ m' = freevm(y, o)
    BY <1>6, <1>8
  <2>2. Good(y, Spaces, KStacks)
    BY <1>10
  <2>. QED  BY ONLY <2>1, <2>2, freevmIs
<1>12. Untouched(m', m)
  BY <1>10, <1>11 DEF Untouched
<1>13. ASSUME NEW e \in Spaces, e # o, e # d PROVE Same(m', m, e)
  <2>1. e \in Frame
    BY <1>9 DEF Good
  <2>2. e \in Spaces \cap (Spaces \ {o}) /\ m'.space[e] = m.space[e] /\ Good(m', Spaces \ {o}, KStacks)
    BY <1>10, <1>11, <1>13, <2>1
  <2>. QED  BY ONLY <1>9, <1>12, <2>2, SameContent
<1>14. PICK e : e = SeenOf(m', d)
  OBVIOUS
<1>15. User'[q] = e
  <2>1. st'[p] = "run" /\ share'[p] = q /\ pgdir'[p] = d
    BY <1>5, <1>6, <1>8, <1>9
  <2>2. User'[q] = SeenOf(m', d)
    BY ONLY MInv', p \in Slot, <2>1, ViewsNext
  <2>. QED  BY <1>14, <2>2
<1>16. DOMAIN e \subseteq Page /\ \A v \in DOMAIN e : e[v] \in {Zero, Text}
  <2>1. DOMAIN e = Usable(m', d) /\ \A v \in Usable(m', d) : e[v] = Held(m', d, v)
    BY ONLY <1>14 DEF SeenOf
  <2>2. Usable(m', d) \subseteq Page
    BY DEF Usable
  <2>3. ASSUME NEW v \in Usable(m', d) PROVE Held(m', d, v) \in {Zero, Text}
    <3>1. d \in Spaces \ {o} /\ Good(m', Spaces \ {o}, KStacks)
      BY <1>8, <1>11
    <3>2. v \in Page /\ m'.space[d].pte[v].f # 0
      BY ONLY <3>1, v \in Usable(m', d), UsableIs
    <3>3. m'.space[d] = y.space[d]
      BY <1>8, <1>11
    <3>4. m'.space[d].pte[v].f = m.space[d].pte[v].f
      BY <1>10, <3>2, <3>3
    <3>5. m.content[m.space[d].pte[v].f] \in {Zero, Text}
      BY <1>8, <3>2, <3>4 DEF Clean
    <3>6. m'.space[d].pte[v].f \in Frame /\ m'.space[d].pte[v].f \notin m'.free
      <4>1. m' \in MemType /\ d \in Frame
        BY <1>8, <3>1 DEF Good
      <4>2. m'.space[d].pte[v].f \in Pages(m', d) /\ Pages(m', d) \subseteq Frame
        BY <3>2, <4>1, Parts
      <4>. QED  BY <3>1, <4>2 DEF Good, Uses
    <3>7. m.space[d].pte[v].f \notin m.free
      <4>1. m \in MemType
        BY <1>9 DEF Good
      <4>2. m.space[d].pte[v].f \in Pages(m, d)
        BY <1>8, <3>2, <3>4, <4>1, Parts
      <4>. QED  BY <1>8, <1>9, <4>2 DEF Good, Uses
    <3>8. m'.content[m'.space[d].pte[v].f] = m.content[m'.space[d].pte[v].f]
      BY <1>12, <3>4, <3>6, <3>7 DEF Untouched
    <3>. QED  BY <3>4, <3>5, <3>8 DEF Held
  <2>. QED  BY <2>1, <2>2, <2>3
<1>17. \A x \in Slot : /\ st'[x] = "run" /\ share'[x] # q => st[x] = "run" /\ share[x] = share'[x]
                       /\ st[x] = "run" /\ share[x] # q => st'[x] = "run" /\ share'[x] = share[x]
  BY <1>6
<1>18. \A x \in Slot : st[x] = "run" /\ share[x] # q => pgdir'[x] = pgdir[x] /\ Same(m', m, pgdir[x])
  <2>. TAKE x \in Slot
  <2>. HAVE st[x] = "run" /\ share[x] # q
  <2>1. pgdir[x] \in Spaces /\ pgdir[x] # o /\ pgdir[x] # d
    BY <1>1, <1>2, <1>5, <1>8, Apart
  <2>2. x # p
    BY <1>5
  <2>. QED  BY <1>6, <1>9, <1>13, <2>1, <2>2
<1>19. User' = [User EXCEPT ![q] = e]
  <2>1. q \in Slot
    BY <1>8
  <2>. QED  BY ONLY MInv, MInv', <1>15, <1>17, <1>18, <2>1, SeenBy
<1>20. AS!Exec(q)
  BY ONLY <1>15, <1>16, <1>19 DEF AS!Exec
<1>. QED  BY <1>8, <1>20 DEF AS!Next


LEMMA InitView ==
  ASSUME Init
  PROVE  AS!Init
<1>1. PICK n \in Sizes, k \in Frame, d \in Frame :
        /\ OneProcess(m, d, k)
        /\ st = [p \in Slot |-> IF p = 1 THEN "run" ELSE "unused"]
        /\ pgdir = [p \in Slot |-> IF p = 1 THEN d ELSE 0]
        /\ share = [p \in Slot |-> p]
  BY StartIs
<1>2. MInv
  BY InitInv
<1>3. 1 \in Slot
  BY Numbers
<1>4. PICK p : p = 1
  OBVIOUS
<1>5. /\ p \in Slot /\ st[p] = "run" /\ share[p] = p /\ pgdir[p] = d
      /\ \A x \in Slot : (st[x] = "run" => x = p) /\ share[x] = x
  BY <1>1, <1>3, <1>4
<1>6. Good(m, {d}, {k}) /\ Exact(m, d, 1) /\ m.content[m.space[d].pte[0].f] = Text /\ d \in {d}
  BY <1>1 DEF OneProcess
<1>7. m.space[d].pte[0].u
  BY <1>1 DEF OneProcess
<1>8. Usable(m, d) = {0}
  <2>1. 0 \in Usable(m, d)
    BY <1>7, PageNat DEF Usable
  <2>2. ASSUME NEW v \in Usable(m, d) PROVE v = 0
    <3>1. v \in Page /\ m.space[d].pte[v].f # 0
      BY <1>6, UsableIs
    <3>2. v < 1 /\ v \in Nat
      BY <1>6, <3>1, PageNat DEF Exact
    <3>. QED  BY <3>2
  <2>. QED  BY <2>1, <2>2
<1>9. SeenOf(m, d) = [v \in {0} |-> Text]
  <2>1. Held(m, d, 0) = Text
    BY <1>6 DEF Held
  <2>2. \A v \in {0} : Held(m, d, v) = Text
    BY <2>1
  <2>3. SeenOf(m, d) = [v \in {0} |-> Held(m, d, v)]
    BY ONLY <1>8 DEF SeenOf
  <2>. QED  BY ONLY <2>2, <2>3
<1>10. User[p] = [v \in {0} |-> Text]
  <2>1. User[share[p]] = SeenOf(m, pgdir[p])
    BY <1>2, <1>5, Views
  <2>. QED  BY ONLY <1>5, <1>9, <2>1
<1>11. ASSUME NEW s \in Slot, s # p PROVE User[s] = AS!Empty
  <2>1. \A y \in Slot : st[y] = "run" => share[y] # s
    BY <1>5, <1>11
  <2>. QED  BY ONLY <1>2, <2>1, s \in Slot, Views
<1>12. User = [s \in Slot |-> User[s]]
  BY <1>2, Views
<1>13. User = [q \in Slot |-> IF q = p THEN [v \in {0} |-> Text] ELSE AS!Empty]
  <2>1. [s \in Slot |-> User[s]] = [q \in Slot |-> IF q = p THEN [v \in {0} |-> Text] ELSE AS!Empty]
    BY ONLY <1>10, <1>11
  <2>. QED  BY ONLY <1>12, <2>1
<1>14. p \in Slot
  BY <1>5
<1>. QED  BY ONLY <1>13, <1>14 DEF AS!Init

LEMMA NextView ==
  ASSUME MInv, MInv', torn = "no", torn' = "no", Next
  PROVE  AS!Next \/ User' = User
<1>1. PICK p \in Slot :
        \/ allocuvm(p) \/ (\E v \in Page : Store(p, v))
        \/ (\E n \in SbrkArgs : Grow(p, n) \/ Shrink(p, n)) \/ GrowEnd(p)
        \/ \E s \in Slot, n \in Limits : setmemorylimit(p, s, n)
        \/ ForkStart(p) \/ copyuvm(p) \/ fork(p)
        \/ SpawnStart(p) \/ thread_create(p)
        \/ ExecFails(p) \/ (\E prog \in Programs, n \in Stacks : ExecStart(p, prog, n))
        \/ ExecNext(p) \/ ExecSegment(p) \/ exec(p) \/ ExecBad(p)
        \/ exit(p) \/ \E s \in Slot : wait(p, s)
  BY DEF Next
<1>2. CASE allocuvm(p)
  BY <1>2, allocuvmView
<1>3. CASE GrowEnd(p)
  BY <1>3, NothingSeen DEF GrowEnd
<1>4. CASE copyuvm(p)
  BY <1>4, copyuvmView
<1>5. CASE fork(p)
  BY <1>5, forkView
<1>6. CASE thread_create(p)
  BY <1>6, thread_createView
<1>7. CASE ExecNext(p)
  BY <1>7, NothingSeen DEF ExecNext
<1>8. CASE ExecSegment(p)
  BY <1>8, ExecSegmentView
<1>9. CASE exec(p)
  BY <1>9, execView
<1>10. CASE ExecBad(p)
  BY <1>10, ExecBadView
<1>11. CASE exit(p)
  BY <1>11, exitView
<1>13. CASE \E v \in Page : Store(p, v)
  BY <1>13, StoreView
<1>14. CASE \E n \in SbrkArgs : Grow(p, n)
  BY <1>14, NothingSeen DEF Grow
<1>15. CASE \E n \in SbrkArgs : Shrink(p, n)
  BY <1>15, ShrinkView
<1>16. CASE \E s \in Slot, n \in Limits : setmemorylimit(p, s, n)
  BY <1>16, NothingSeen DEF setmemorylimit
<1>17. CASE ForkStart(p)
  BY <1>17, ForkStartView
<1>18. CASE SpawnStart(p)
  BY <1>18, SpawnStartView
<1>19. CASE ExecFails(p)
  BY <1>19, ExecFailsView
<1>20. CASE \E prog \in Programs, n \in Stacks : ExecStart(p, prog, n)
  BY <1>20, ExecStartView
<1>21. CASE \E s \in Slot : wait(p, s)
  BY <1>21, waitView
<1>. QED  BY <1>1, <1>2, <1>3, <1>4, <1>5, <1>6, <1>7, <1>8, <1>9, <1>10, <1>11, <1>13, <1>14, <1>15,
             <1>16, <1>17, <1>18, <1>19, <1>20, <1>21

\* The memory system implements address spaces: through every step of sbrk(),
\* fork(), exec(), thread_create(), exit() and wait(), failed ones too, each process
\* sees the pages that AddressSpaces says, and no process those of another, until
\* threads of one process race in memory calls.
THEOREM MemoryImplements == Spec => ImplementsAddressSpaces
<1>1. Init => AS!Init
  BY InitView
<1>2. IInv /\ IInv' /\ [Next]_memVars => [torn' # "no" \/ AS!Next]_User
  <2>. SUFFICES ASSUME IInv, IInv', [Next]_memVars, torn' = "no" PROVE AS!Next \/ User' = User
    OBVIOUS
  <2>1. MInv'
    BY DEF IInv
  <2>2. CASE Next
    <3>1. torn = "no"
      BY <2>2, TornStays
    <3>2. MInv
      BY <3>1 DEF IInv
    <3>. QED  BY ONLY <2>1, <2>2, <3>1, <3>2, torn' = "no", NextView
  <2>3. CASE UNCHANGED memVars
    <3>1. User' = User
      BY <2>3, NothingSeen DEF memVars
    <3>. QED  BY <3>1
  <2>. QED  BY <2>2, <2>3
<1>. QED  BY <1>1, <1>2, MemoryInv, PTL DEF Spec, ImplementsAddressSpaces
=============================================================================
