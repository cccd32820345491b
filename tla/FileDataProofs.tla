--------------------------- MODULE FileDataProofs ---------------------------
(***************************************************************************)
(* The blocks of the files, and what the files have in them, for any       *)
(* number of processes and files and any geometry of the disk.             *)
(*                                                                         *)
(* An inode is seen as a row of slots: its direct addresses, that of the   *)
(* indirect block, and the addresses in it.  Everything rests on Good():   *)
(* the slots of all files have different blocks, and the bitmap has just   *)
(* these.  It lets bmap() find or make a block without touching another,   *)
(* and keeps the bytes that are written out of the indirect blocks.        *)
(***************************************************************************)
EXTENDS FileData, FiniteSetTheorems, SequenceTheorems, WellFoundedInduction, TLAPS

\* The places of an inode that can have the address of a block: NDIRECT direct
\* ones, that of the indirect block, and those in the indirect block.
Slot == 0..MAXFILE
SlotOf(bn) == IF bn < NDIRECT THEN bn ELSE bn + 1
Ptr(d, f, s) ==
  IF s <= NDIRECT THEN d.addrs[f][s]
  ELSE IF d.addrs[f][NDIRECT] = 0 THEN 0 ELSE d.block[d.addrs[f][NDIRECT]][s - NDIRECT]

Cell == Block \cup {0} \cup Writer
DiskType == [bitmap : SUBSET Block, block : [Block -> [1..BSIZE -> Cell]],
             addrs : [File -> [0..NDIRECT -> Block \cup {0}]]]

\* Every address is that of a block or 0, no block has two, and the bitmap has
\* exactly the blocks with one.
Good(d) ==
  /\ d \in DiskType
  /\ \A f \in File, s \in Slot : Ptr(d, f, s) \in Block \cup {0}
  /\ \A f, g \in File, s, t \in Slot :
       Ptr(d, f, s) # 0 /\ Ptr(d, f, s) = Ptr(d, g, t) => f = g /\ s = t
  /\ \A b \in Block : b \in d.bitmap <=> \E f \in File, s \in Slot : Ptr(d, f, s) = b

\* The sizes of the disk's parts.
LEMMA Sizes ==
  /\ NDIRECT \in Nat /\ NINDIRECT \in Nat /\ BSIZE \in Nat \ {0} /\ NBLOCKS \in Nat
  /\ NINDIRECT <= BSIZE /\ MAXFILE = NDIRECT + NINDIRECT /\ MAXFILE \in Nat
  /\ 0 \notin Block /\ NDIRECT \in Slot
BY DataAssumption DEF MAXFILE, Block, Slot

\* The lowest free block is one of the free blocks.
LEMMA LowestIn ==
  ASSUME NEW S \in SUBSET Block, S # {}
  PROVE  Lowest(S) \in S
<1>1. S \subseteq Nat
  BY Sizes DEF Block
<1>2. PICK x \in S : \A y \in S : ~(<<y, x>> \in OpToRel(<, Nat))
  BY <1>1, NatLessThanWellFounded, WFMin
<1>3. ASSUME NEW y \in S PROVE x <= y
  <2>1. <<y, x>> \in Nat \X Nat /\ ~(<<y, x>> \in {ss \in Nat \X Nat : ss[1] < ss[2]})
    BY <1>1, <1>2, <1>3, Zenon DEF OpToRel
  <2>. QED  BY <1>1, <2>1
<1>. QED  BY <1>3 DEF Lowest

\* balloc() gives a free block and zeroes it.
Balloced(e, d, b) ==
  /\ b \in Block \ d.bitmap
  /\ e \in DiskType
  /\ e.bitmap = d.bitmap \cup {b}
  /\ e.addrs = d.addrs
  /\ e.block = [d.block EXCEPT ![b] = Zero]

\* balloc() does so, and leaves the addresses.
LEMMA BallocIs ==
  ASSUME NEW d \in DiskType, ~NoneFree(d), NEW a, a = balloc(d)
  PROVE  Balloced(a.d, d, a.b)
<1>. DEFINE b == Lowest(Block \ d.bitmap)
<1>1. b \in Block \ d.bitmap
  BY LowestIn DEF NoneFree
<1>2. a.b = b /\ a.d = [d EXCEPT !.bitmap = @ \cup {b}, !.block[b] = Zero]
  BY DEF balloc
<1>. HIDE DEF b
<1>3. Zero \in [1..BSIZE -> Cell]
  BY DEF Zero, Cell
<1>4. /\ a.d.bitmap = d.bitmap \cup {b} /\ a.d.addrs = d.addrs
      /\ a.d.block = [d.block EXCEPT ![b] = Zero]
  BY <1>2 DEF DiskType
<1>5. a.d \in DiskType
  <2>1. [d.block EXCEPT ![b] = Zero] \in [Block -> [1..BSIZE -> Cell]]
    BY <1>1, <1>3 DEF DiskType
  <2>2. a.d = [bitmap |-> d.bitmap \cup {b}, block |-> [d.block EXCEPT ![b] = Zero], addrs |-> d.addrs]
    BY <1>2 DEF DiskType
  <2>. QED  BY <1>1, <2>1, <2>2 DEF DiskType
<1>. QED  BY <1>1, <1>2, <1>4, <1>5 DEF Balloced

\* From d to e a block b was allocated and its address put into slot s of f.
Linked(e, d, f, s, b) ==
  /\ e \in DiskType
  /\ b \in Block \ d.bitmap
  /\ e.bitmap = d.bitmap \cup {b}
  /\ Ptr(d, f, s) = 0
  /\ \A g \in File, t \in Slot : Ptr(e, g, t) = IF g = f /\ t = s THEN b ELSE Ptr(d, g, t)
  /\ \A g \in File \ {f} : e.addrs[g] = d.addrs[g]
  /\ \A x \in Block \ {b, d.addrs[f][NDIRECT]} : e.block[x] = d.block[x]

\* From d to e the disk has grown for f: nothing else has changed.
Extended(e, d, f) ==
  /\ Good(e)
  /\ \A g \in File, t \in Slot : Ptr(d, g, t) # 0 => Ptr(e, g, t) = Ptr(d, g, t)
  /\ \A g \in File \ {f} : e.addrs[g] = d.addrs[g]
  /\ \A g \in File, t \in Slot \ {NDIRECT} :
       Ptr(d, g, t) # 0 => e.block[Ptr(d, g, t)] = d.block[Ptr(d, g, t)]

\* Nothing done is nothing lost,
LEMMA ExtendedSelf == ASSUME NEW d, Good(d), NEW f PROVE Extended(d, d, f)
BY DEF Extended

\* and bmap() allocates twice: for the indirect block and for its entry.
LEMMA ExtendedTwice ==
  ASSUME NEW c, NEW d, NEW e, NEW f \in File, Good(c), Extended(d, c, f), Extended(e, d, f)
  PROVE  Extended(e, c, f)
BY Sizes DEF Extended, Slot

\* A new block in an empty slot keeps all blocks apart.
LEMMA LinkedGood ==
  ASSUME NEW d, Good(d), NEW f \in File, NEW s \in Slot, NEW b, NEW e, Linked(e, d, f, s, b)
  PROVE  Extended(e, d, f) /\ Ptr(e, f, s) = b /\ b # 0
<1>1. b \in Block /\ b # 0 /\ b \notin d.bitmap /\ Ptr(e, f, s) = b
  BY Sizes DEF Linked
<1>2. \A g \in File, t \in Slot : Ptr(e, g, t) \in Block \cup {0}
  BY <1>1 DEF Linked, Good
<1>3. \A g \in File, t \in Slot : Ptr(d, g, t) # b
  BY <1>1 DEF Good
<1>4. ASSUME NEW g \in File, NEW h \in File, NEW t \in Slot, NEW u \in Slot,
             Ptr(e, g, t) # 0, Ptr(e, g, t) = Ptr(e, h, u)
      PROVE  g = h /\ t = u
  BY <1>3, <1>4 DEF Linked, Good
<1>5. ASSUME NEW x \in Block
      PROVE  x \in e.bitmap <=> \E g \in File, t \in Slot : Ptr(e, g, t) = x
  <2>1. x \in e.bitmap <=> x \in d.bitmap \/ x = b
    BY DEF Linked
  <2>2. x \in d.bitmap <=> \E g \in File, t \in Slot : Ptr(d, g, t) = x
    BY <1>5 DEF Good
  <2>3. x # 0
    BY <1>5, Sizes
  <2>4. CASE x = b
    BY <1>1, <2>1, <2>4
  <2>5. CASE x # b
    BY <2>1, <2>2, <2>3, <2>5 DEF Linked
  <2>. QED  BY <2>4, <2>5
<1>6. Good(e)
  BY <1>2, <1>4, <1>5 DEF Good, Linked
<1>7. \A g \in File, t \in Slot : Ptr(d, g, t) # 0 => Ptr(e, g, t) = Ptr(d, g, t)
  BY DEF Linked
<1>8. ASSUME NEW g \in File, NEW t \in Slot \ {NDIRECT}, Ptr(d, g, t) # 0
      PROVE  e.block[Ptr(d, g, t)] = d.block[Ptr(d, g, t)]
  <2>1. Ptr(d, f, NDIRECT) = d.addrs[f][NDIRECT] /\ NDIRECT \in Slot
    BY Sizes DEF Ptr
  <2>2. Ptr(d, g, t) # d.addrs[f][NDIRECT]
    BY <1>8, <2>1 DEF Good
  <2>3. Ptr(d, g, t) \in Block
    BY <1>8 DEF Good
  <2>. QED  BY <1>3, <1>8, <2>2, <2>3 DEF Linked
<1>. QED  BY <1>1, <1>6, <1>7, <1>8 DEF Extended, Linked

\* The address of the new block goes into the inode.
LEMMA TopLinked ==
  ASSUME NEW d, Good(d), NEW f \in File, NEW k \in 0..NDIRECT, d.addrs[f][k] = 0,
         NEW b, NEW c, Balloced(c, d, b), NEW e, e = [c EXCEPT !.addrs[f][k] = b]
  PROVE  Linked(e, d, f, k, b)
<1>1. /\ d \in DiskType /\ c \in DiskType /\ b \in Block \ d.bitmap /\ c.addrs = d.addrs
      /\ c.bitmap = d.bitmap \cup {b} /\ c.block = [d.block EXCEPT ![b] = Zero]
  BY DEF Good, Balloced
<1>2. /\ e \in DiskType /\ e.bitmap = c.bitmap /\ e.block = c.block
      /\ e.addrs = [c.addrs EXCEPT ![f] = [c.addrs[f] EXCEPT ![k] = b]]
  BY <1>1 DEF DiskType
<1>3. \A g \in File, t \in 0..NDIRECT : e.addrs[g][t] = IF g = f /\ t = k THEN b ELSE d.addrs[g][t]
  BY <1>1, <1>2 DEF DiskType
<1>4. \A g \in File \ {f} : e.addrs[g] = d.addrs[g]
  BY <1>1, <1>2 DEF DiskType
<1>5. \A x \in Block : e.block[x] = IF x = b THEN Zero ELSE d.block[x]
  BY <1>1, <1>2 DEF DiskType
<1>6. k \in Slot /\ NDIRECT \in 0..NDIRECT /\ b # 0
  BY <1>1, Sizes DEF Slot
<1>7. Ptr(d, f, k) = 0
  BY Sizes DEF Ptr
<1>8. ASSUME NEW g \in File, NEW t \in Slot
      PROVE  Ptr(e, g, t) = IF g = f /\ t = k THEN b ELSE Ptr(d, g, t)
  <2>1. CASE t <= NDIRECT
    <3>1. t \in 0..NDIRECT
      BY <1>8, <2>1, Sizes DEF Slot
    <3>. QED  BY <1>3, <2>1, <3>1 DEF Ptr
  <2>2. CASE ~(t <= NDIRECT)
    <3>1. t # k /\ t - NDIRECT \in 1..BSIZE
      BY <1>8, <2>2, Sizes DEF Slot
    <3>. DEFINE y == d.addrs[g][NDIRECT]
                x == e.addrs[g][NDIRECT]
    <3>2. /\ Ptr(e, g, t) = IF x = 0 THEN 0 ELSE e.block[x][t - NDIRECT]
          /\ Ptr(d, g, t) = IF y = 0 THEN 0 ELSE d.block[y][t - NDIRECT]
      BY <2>2 DEF Ptr
    <3>3. x = IF g = f /\ NDIRECT = k THEN b ELSE y
      BY <1>3, <1>6
    <3>4. y = Ptr(d, g, NDIRECT) /\ NDIRECT \in Slot
      BY Sizes DEF Ptr
    <3>5. y # b /\ y \in Block \cup {0}
      BY <1>1, <3>4 DEF Good
    <3>. HIDE DEF x, y
    <3>6. CASE g = f /\ NDIRECT = k
      <4>1. y = 0
        BY <3>6 DEF y
      <4>2. Zero[t - NDIRECT] = 0
        BY <3>1 DEF Zero
      <4>. QED  BY <1>1, <1>5, <1>6, <3>1, <3>2, <3>3, <3>6, <4>1, <4>2
    <3>7. CASE ~(g = f /\ NDIRECT = k)
      BY <1>5, <3>1, <3>2, <3>3, <3>5, <3>7
    <3>. QED  BY <3>6, <3>7
  <2>. QED  BY <2>1, <2>2
<1>. QED  BY <1>1, <1>2, <1>4, <1>5, <1>7, <1>8 DEF Linked

\* The address of the new block goes into the indirect block.
LEMMA EntryLinked ==
  ASSUME NEW d, Good(d), NEW f \in File, NEW top, top = d.addrs[f][NDIRECT], top # 0,
         NEW n \in 1..NINDIRECT, d.block[top][n] = 0,
         NEW b, NEW c, Balloced(c, d, b), NEW e, e = [c EXCEPT !.block[top][n] = b]
  PROVE  Linked(e, d, f, NDIRECT + n, b)
<1>1. /\ d \in DiskType /\ c \in DiskType /\ b \in Block \ d.bitmap /\ c.addrs = d.addrs
      /\ c.bitmap = d.bitmap \cup {b} /\ c.block = [d.block EXCEPT ![b] = Zero]
  BY DEF Good, Balloced
<1>2. top = Ptr(d, f, NDIRECT) /\ NDIRECT \in Slot /\ n \in 1..BSIZE /\ NDIRECT + n \in Slot
  BY Sizes DEF Ptr, Slot
<1>3. top \in Block /\ top # b
  BY <1>1, <1>2 DEF Good
<1>4. b \in Cell
  BY <1>1 DEF Cell
<1>5. c.block[top] \in [1..BSIZE -> Cell]
  BY <1>1, <1>3 DEF DiskType
<1>6. [c.block[top] EXCEPT ![n] = b] \in [1..BSIZE -> Cell]
  BY <1>2, <1>4, <1>5
<1>7. /\ e.bitmap = c.bitmap /\ e.addrs = d.addrs
      /\ e.block = [c.block EXCEPT ![top] = [c.block[top] EXCEPT ![n] = b]]
  BY <1>1 DEF DiskType
<1>8. e \in DiskType
  BY <1>1, <1>3, <1>6 DEF DiskType
<1>9. \A x \in Block \ {b, top} : e.block[x] = d.block[x]
  BY <1>1, <1>7 DEF DiskType
<1>10. \A i \in 1..BSIZE : e.block[top][i] = IF i = n THEN b ELSE d.block[top][i]
  BY <1>1, <1>3, <1>5, <1>7 DEF DiskType
<1>11. Ptr(d, f, NDIRECT + n) = 0
  BY Sizes DEF Ptr
<1>12. ASSUME NEW g \in File, NEW t \in Slot
       PROVE  Ptr(e, g, t) = IF g = f /\ t = NDIRECT + n THEN b ELSE Ptr(d, g, t)
  <2>1. CASE t <= NDIRECT
    BY <1>7, <2>1, Sizes DEF Ptr
  <2>2. CASE ~(t <= NDIRECT)
    <3>. DEFINE y == d.addrs[g][NDIRECT]
    <3>1. t - NDIRECT \in 1..BSIZE /\ (t - NDIRECT = n <=> t = NDIRECT + n)
      BY <1>12, <2>2, Sizes DEF Slot
    <3>2. /\ Ptr(e, g, t) = IF y = 0 THEN 0 ELSE e.block[y][t - NDIRECT]
          /\ Ptr(d, g, t) = IF y = 0 THEN 0 ELSE d.block[y][t - NDIRECT]
      BY <1>7, <2>2 DEF Ptr
    <3>3. y = Ptr(d, g, NDIRECT)
      BY Sizes DEF Ptr
    <3>4. y # b /\ y \in Block \cup {0} /\ (y = top <=> g = f)
      BY <1>1, <1>2, <1>3, <3>3 DEF Good
    <3>. HIDE DEF y
    <3>5. CASE g = f
      BY <1>10, <3>1, <3>2, <3>4, <3>5
    <3>6. CASE g # f
      BY <1>9, <3>2, <3>4, <3>6
    <3>. QED  BY <3>5, <3>6
  <2>. QED  BY <2>1, <2>2
<1>. QED  BY <1>1, <1>2, <1>7, <1>8, <1>9, <1>11, <1>12 DEF Linked

\* bmap() finds the block, or allocates it and leaves the rest of the disk alone.
Mapped(r, d, f, bn) ==
  /\ Extended(r.d, d, f)
  /\ r.b \in Block \cup {0}
  /\ r.b # 0 => Ptr(r.d, f, SlotOf(bn)) = r.b
  /\ Ptr(d, f, SlotOf(bn)) # 0 => r.b = Ptr(d, f, SlotOf(bn))

\* bmap() does so, in each of its branches and on each of its panics.
LEMMA BmapIs ==
  ASSUME NEW d, Good(d), NEW f \in File, NEW bn \in 0..(MAXFILE - 1), NEW r, r = bmap(d, f, bn)
  PROVE  Mapped(r, d, f, bn)
<1>. DEFINE k   == IF Direct(bn) THEN bn ELSE NDIRECT
            top == d.addrs[f][k]
            a1  == IF top = 0 THEN balloc(d) ELSE [b |-> top, d |-> d]
            d1  == [a1.d EXCEPT !.addrs[f][k] = a1.b]
            n   == bn - NDIRECT + 1
            a2  == balloc(d1)
<1>1. r = IF top = 0 /\ NoneFree(d) THEN [b |-> 0, d |-> d]
          ELSE IF Direct(bn) THEN [b |-> a1.b, d |-> d1]
          ELSE IF d1.block[a1.b][n] # 0 THEN [b |-> d1.block[a1.b][n], d |-> d1]
          ELSE IF NoneFree(d1) THEN [b |-> 0, d |-> d1]
          ELSE [b |-> a2.b, d |-> [a2.d EXCEPT !.block[a1.b][n] = a2.b]]
  BY DEF bmap
<1>2. k \in 0..NDIRECT /\ k \in Slot /\ SlotOf(bn) \in Slot
  BY Sizes DEF Direct, SlotOf, Slot
<1>3. d \in DiskType
  BY DEF Good
<1>4. Direct(bn) => SlotOf(bn) = k
  BY DEF Direct, SlotOf
<1>5. ~Direct(bn) => k = NDIRECT /\ SlotOf(bn) = NDIRECT + n /\ n \in 1..NINDIRECT /\ n \in 1..BSIZE
  BY Sizes DEF Direct, SlotOf
<1>6. top = Ptr(d, f, k) /\ top \in Block \cup {0}
  BY <1>2, Sizes DEF Ptr, Good
<1>. HIDE DEF k, n
<1>7. CASE top = 0 /\ NoneFree(d)
  <2>1. r.b = 0 /\ r.d = d
    BY <1>1, <1>7
  <2>2. Ptr(d, f, SlotOf(bn)) = 0
    <3>1. CASE Direct(bn)
      BY <1>4, <1>6, <1>7, <3>1
    <3>2. CASE ~Direct(bn)
      BY <1>5, <1>7, <3>2, Sizes DEF Ptr
    <3>. QED  BY <3>1, <3>2
  <2>. QED  BY <2>1, <2>2, ExtendedSelf DEF Mapped
<1>8. CASE ~(top = 0 /\ NoneFree(d))
  \* The direct address, or that of the indirect block.
  <2>1. Extended(d1, d, f) /\ a1.b \in Block /\ Ptr(d1, f, k) = a1.b /\ (top # 0 => a1.b = top /\ d1 = d)
    <3>1. CASE top = 0
      <4>1. a1 = balloc(d)
        BY <3>1
      <4>2. Balloced(a1.d, d, a1.b)
        BY <1>3, <1>8, <3>1, <4>1, BallocIs
      <4>. HIDE DEF a1
      <4>3. Linked(d1, d, f, k, a1.b)
        BY <1>2, <3>1, <4>2, TopLinked
      <4>4. Extended(d1, d, f) /\ Ptr(d1, f, k) = a1.b
        BY <1>2, <4>3, LinkedGood
      <4>5. a1.b \in Block
        BY <4>2 DEF Balloced
      <4>. QED  BY <3>1, <4>4, <4>5
    <3>2. CASE top # 0
      <4>1. a1.b = top /\ a1.d = d
        BY <3>2
      <4>. HIDE DEF a1
      <4>2. [d.addrs EXCEPT ![f] = [d.addrs[f] EXCEPT ![k] = top]] = d.addrs
        BY <1>2, <1>3 DEF DiskType
      <4>3. d1 = d
        BY <1>3, <4>1, <4>2 DEF DiskType
      <4>. QED  BY <1>6, <3>2, <4>1, <4>3, ExtendedSelf
    <3>. QED  BY <3>1, <3>2
  <2>. DEFINE x == d1.block[a1.b][n]
              e2 == [a2.d EXCEPT !.block[a1.b][n] = a2.b]
  <2>2. r = IF Direct(bn) THEN [b |-> a1.b, d |-> d1]
            ELSE IF x # 0 THEN [b |-> x, d |-> d1]
            ELSE IF NoneFree(d1) THEN [b |-> 0, d |-> d1]
            ELSE [b |-> a2.b, d |-> e2]
    BY <1>1, <1>8
  <2>. HIDE DEF a1, d1, top
  <2>3. Good(d1) /\ a1.b # 0
    BY <2>1, Sizes DEF Extended
  <2>4. CASE Direct(bn)
    <3>1. r.b = a1.b /\ r.d = d1
      BY <2>2, <2>4
    <3>. QED  BY <1>4, <1>6, <2>1, <2>4, <3>1 DEF Mapped
  <2>5. CASE ~Direct(bn)
    <3>1. d1.addrs[f][NDIRECT] = a1.b
      BY <1>5, <2>1, <2>5, Sizes DEF Ptr
    <3>2. Ptr(d1, f, SlotOf(bn)) = x
      BY <1>5, <2>3, <2>5, <3>1, Sizes DEF Ptr
    <3>3. x \in Block \cup {0}
      <4>1. Ptr(d1, f, SlotOf(bn)) \in Block \cup {0}
        BY <1>2, <2>3 DEF Good
      <4>. QED  BY <3>2, <4>1
    <3>4. Ptr(d, f, SlotOf(bn)) # 0 => Ptr(d, f, SlotOf(bn)) = x
      BY <1>2, <2>1, <3>2 DEF Extended
    <3>. HIDE DEF x
    <3>5. CASE x # 0
      <4>1. r.b = x /\ r.d = d1
        BY <2>2, <2>5, <3>5
      <4>. QED  BY <2>1, <3>2, <3>3, <3>4, <4>1 DEF Mapped
    <3>6. CASE x = 0 /\ NoneFree(d1)
      <4>1. r.b = 0 /\ r.d = d1
        BY <2>2, <2>5, <3>6
      <4>. QED  BY <2>1, <3>4, <3>6, <4>1 DEF Mapped
    <3>7. CASE x = 0 /\ ~NoneFree(d1)
      <4>1. Balloced(a2.d, d1, a2.b)
        BY <2>3, <3>7, BallocIs DEF Good
      <4>. HIDE DEF a2
      <4>2. d1.block[a1.b][n] = 0
        BY <3>7 DEF x
      <4>3. Linked(e2, d1, f, NDIRECT + n, a2.b)
        BY <1>5, <2>3, <2>5, <3>1, <4>1, <4>2, EntryLinked
      <4>. HIDE DEF e2
      <4>4. Extended(e2, d1, f) /\ Ptr(e2, f, SlotOf(bn)) = a2.b /\ a2.b # 0
        BY <1>2, <1>5, <2>3, <2>5, <4>3, LinkedGood
      <4>5. r.b = a2.b /\ r.d = e2
        BY <2>2, <2>5, <3>7
      <4>6. Extended(e2, d, f)
        BY <2>1, <4>4, ExtendedTwice
      <4>7. a2.b \in Block
        BY <4>3 DEF Linked
      <4>. QED  BY <3>4, <3>7, <4>4, <4>5, <4>6, <4>7 DEF Mapped
    <3>. QED  BY <3>5, <3>6, <3>7
  <2>. QED  BY <2>4, <2>5
<1>. QED  BY <1>7, <1>8

-----------------------------------------------------------------------------
\* Writing the data of a block changes no address.
LEMMA Overwritten ==
  ASSUME NEW d, Good(d), NEW f \in File, NEW s \in Slot \ {NDIRECT}, Ptr(d, f, s) # 0,
         NEW new \in [1..BSIZE -> Cell], NEW e \in DiskType,
         e.bitmap = d.bitmap, e.addrs = d.addrs, e.block = [d.block EXCEPT ![Ptr(d, f, s)] = new]
  PROVE  Good(e) /\ \A g \in File, t \in Slot : Ptr(e, g, t) = Ptr(d, g, t)
<1>1. d \in DiskType /\ NDIRECT \in Slot
  BY Sizes DEF Good
<1>2. ASSUME NEW g \in File, NEW t \in Slot PROVE Ptr(e, g, t) = Ptr(d, g, t)
  <2>. DEFINE y == d.addrs[g][NDIRECT]
  <2>1. y = Ptr(d, g, NDIRECT)
    BY Sizes DEF Ptr
  <2>2. y \in Block \cup {0} /\ y # Ptr(d, f, s)
    BY <1>1, <2>1 DEF Good
  <2>3. y # 0 => e.block[y] = d.block[y]
    BY <1>1, <2>2 DEF DiskType
  <2>. QED  BY <2>3 DEF Ptr
<1>3. \A b \in Block : b \in e.bitmap <=> \E g \in File, t \in Slot : Ptr(e, g, t) = b
  BY <1>2 DEF Good
<1>4. \A g \in File, t \in Slot : Ptr(e, g, t) \in Block \cup {0}
  BY <1>2 DEF Good
<1>5. ASSUME NEW g \in File, NEW h \in File, NEW t \in Slot, NEW u \in Slot,
             Ptr(e, g, t) # 0, Ptr(e, g, t) = Ptr(e, h, u)
      PROVE  g = h /\ t = u
  BY <1>2, <1>5 DEF Good
<1>. QED  BY <1>2, <1>3, <1>4, <1>5 DEF Good

\* Division with remainder.
LEMMA Euclid ==
  ASSUME NEW w \in Nat \ {0}, NEW a \in Nat
  PROVE  /\ (a \div w) \in Nat /\ (a % w) \in 0..(w - 1)
         /\ a = w * (a \div w) + (a % w)
<1>1. a \div w \in Int /\ a = w * (a \div w) + (a % w)
  OBVIOUS
<1>2. (a % w) \in 0..(w - 1)
  OBVIOUS
<1>3. PICK q \in Int : q = a \div w
  BY <1>1
<1>4. PICK r \in 0..(w - 1) : r = (a % w)
  BY <1>2
<1>5. a = w * q + r
  BY <1>1, <1>3, <1>4
<1>6. q < 0 => w * q <= -w
  OBVIOUS
<1>7. q >= 0
  BY <1>5, <1>6
<1>. QED  BY <1>1, <1>2, <1>3, <1>7

\* What is put together with a remainder comes apart again.
LEMMA Quotient ==
  ASSUME NEW w \in Nat \ {0}, NEW q \in Nat, NEW s \in 0..(w - 1)
  PROVE  (w * q + s) \div w = q /\ (w * q + s) % w = s
OBVIOUS

\* An offset in a file of at most n blocks is in one of them.
LEMMA BlockOf ==
  ASSUME NEW w \in Nat \ {0}, NEW n \in Nat, NEW a \in Nat, a < n * w
  PROVE  (a \div w) \in 0..(n - 1)
<1>1. PICK q \in Nat, r \in 0..(w - 1) : q = a \div w /\ a = w * q + r
  BY Euclid
<1>2. q >= n => w * q >= w * n
  OBVIOUS
<1>3. w * n = n * w /\ w * q \in Nat /\ n * w \in Nat
  OBVIOUS
<1>4. q < n
  BY <1>1, <1>2, <1>3
<1>. QED  BY <1>1, <1>4

\* A piece that ends with the block it begins in.
LEMMA Piece ==
  ASSUME NEW w \in Nat \ {0}, NEW a \in Nat, NEW m \in Nat, m <= w - (a % w), NEW i \in Nat
  PROVE  (a <= i /\ i < a + m) <=>
         ((i \div w) = (a \div w) /\ (a % w) <= (i % w) /\ (i % w) < (a % w) + m)
<1>1. PICK q \in Nat, r \in 0..(w - 1) : q = a \div w /\ r = (a % w) /\ a = w * q + r
  BY Euclid
<1>2. PICK k \in Nat, s \in 0..(w - 1) : k = i \div w /\ s = (i % w) /\ i = w * k + s
  BY Euclid
<1>3. ASSUME a <= i, i < a + m PROVE k = q
  <2>1. PICK u \in Nat, v \in Nat : u = w * q /\ v = w * k
    OBVIOUS
  <2>2. (k > q => v >= u + w) /\ (k < q => u >= v + w)
    <3>1. k > q => w * k >= w * (q + 1)
      OBVIOUS
    <3>2. k < q => w * q >= w * (k + 1)
      OBVIOUS
    <3>3. w * (q + 1) = w * q + w /\ w * (k + 1) = w * k + w
      OBVIOUS
    <3>. QED  BY <2>1, <3>1, <3>2, <3>3
  <2>3. u + r <= v + s /\ v + s < u + r + m /\ m <= w - r
    BY <1>1, <1>2, <1>3, <2>1
  <2>. QED  BY <2>2, <2>3
<1>4. PICK u \in Nat : u = w * q
  OBVIOUS
<1>5. k = q => i = u + s /\ a = u + r
  BY <1>1, <1>2, <1>4
<1>. QED  BY <1>1, <1>2, <1>3, <1>5

-----------------------------------------------------------------------------
\* The largest size of a file.
Limit == MAXFILE * BSIZE
Job == [at : {"no", "begin", "block"}, left : Nat, n1 : Nat, off : Nat]
JobFits(j) == j.at = "block" => j.off + j.n1 <= Limit /\ j.n1 <= j.left
DataTypes ==
  /\ size \in [File -> 0..Limit]
  /\ fd \in [Writer -> [f : File, off : 0..Limit]]
  /\ job \in [Writer -> Job]
  /\ \A p \in Writer : JobFits(job[p])

\* The inode's lock: one process at a time is in the loop of writei().
OneWriter ==
  \A p, q \in Writer : job[p].at = "block" /\ job[q].at = "block" /\ fd[p].f = fd[q].f => p = q

\* A file has no hole: every byte of it, and every byte that a write has put
\* behind its end, is in a block.
Has(d, f, i) == Ptr(d, f, SlotOf(i \div BSIZE)) # 0
Reached(f, i) == i < size[f] \/ \E p \in Writer : job[p].at = "block" /\ fd[p].f = f /\ i < job[p].off
Filled == \A f \in File, i \in Nat : Reached(f, i) => Has(Disk, f, i)

\* The inductive invariant.
DataInv == Good(Disk) /\ DataTypes /\ OneWriter /\ Filled

\* A uint has room for every offset of a file.
LEMMA Limits ==
  Limit \in Nat /\ WORD \in Nat /\ Limit < WORD /\ MaxOp \in 1..(WORD - 1)
<1>1. PICK m \in Nat, b \in Nat \ {0} : m = MAXFILE /\ b = BSIZE
  BY Sizes
<1>2. m * b \in Nat
  OBVIOUS
<1>. QED  BY <1>1, <1>2, DataAssumption DEF Limit

\* The byte at an offset is in a block that bmap() is called for.
LEMMA OffsetBlock ==
  ASSUME NEW i \in Nat, i < Limit
  PROVE  /\ (i \div BSIZE) \in 0..(MAXFILE - 1)
         /\ SlotOf(i \div BSIZE) \in Slot \ {NDIRECT}
<1>1. (i \div BSIZE) \in 0..(MAXFILE - 1)
  BY Sizes, BlockOf DEF Limit
<1>. QED  BY <1>1, Sizes DEF SlotOf, Slot

\* Of two blocks of a file, the slots differ.
LEMMA SlotsDiffer ==
  ASSUME NEW i \in Nat, NEW j \in Nat, SlotOf(i) = SlotOf(j)
  PROVE  i = j
BY Sizes DEF SlotOf

\* What bmap() sees of the state.
LEMMA DiskIs ==
  Disk.bitmap = bitmap /\ Disk.block = block /\ Disk.addrs = addrs
BY DEF Disk

\* On an empty disk all this holds.
LEMMA InitInv == DataInit => DataInv
<1>. SUFFICES ASSUME DataInit PROVE DataInv
  OBVIOUS
<1>. USE DEF DataInit
<1>1. NoAddrs \in [0..NDIRECT -> Block \cup {0}] /\ \A s \in 0..NDIRECT : NoAddrs[s] = 0
  BY DEF NoAddrs
<1>2. Zero \in [1..BSIZE -> Cell]
  BY DEF Zero, Cell
<1>3. Disk \in DiskType
  BY <1>1, <1>2 DEF Disk, DiskType
<1>4. ASSUME NEW f \in File, NEW s \in Slot PROVE Ptr(Disk, f, s) = 0
  <2>1. Disk.addrs[f] = NoAddrs
    BY DEF Disk
  <2>. QED  BY <1>1, <2>1, Sizes DEF Ptr, Slot
<1>5. Disk.bitmap = {}
  BY DEF Disk
<1>6. Good(Disk)
  BY <1>3, <1>4, <1>5, Sizes DEF Good
<1>7. NoJob \in Job /\ NoJob.at = "no"
  BY DEF NoJob, Job
<1>8. DataTypes
  <2>1. 0 \in 0..Limit
    BY Limits
  <2>. QED  BY <1>7, <2>1 DEF DataTypes, JobFits
<1>9. OneWriter
  BY <1>7 DEF OneWriter
<1>10. Filled
  BY <1>7 DEF Filled, Reached
<1>. QED  BY <1>6, <1>8, <1>9, <1>10 DEF DataInv

\* What the types of the descriptors and the jobs say of one process.
LEMMA OfOne ==
  ASSUME DataTypes, NEW p \in Writer
  PROVE  /\ fd[p].f \in File /\ fd[p].off \in 0..Limit
         /\ job[p] \in Job /\ job[p].at \in {"no", "begin", "block"}
         /\ job[p].left \in Nat /\ job[p].n1 \in Nat /\ job[p].off \in Nat
         /\ JobFits(job[p])
BY DEF DataTypes, Job

\* A step that leaves the disk and the sizes, and sets the job and the offset of
\* a process that is in the loop of writei() neither before nor afterwards.
LEMMA Outside ==
  ASSUME DataInv, NEW p \in Writer, job[p].at # "block",
         UNCHANGED <<bitmap, block, addrs, size>>,
         NEW j \in Job, j.at # "block", job' = [job EXCEPT ![p] = j],
         NEW g \in File, NEW o \in 0..Limit, fd' = [fd EXCEPT ![p] = [f |-> g, off |-> o]]
  PROVE  DataInv'
<1>. USE DEF DataInv
<1>1. Disk' = Disk
  BY DEF Disk
<1>2. Good(Disk)'
  BY <1>1
<1>3. \A q \in Writer : /\ job'[q] = IF q = p THEN j ELSE job[q]
                        /\ q # p => fd'[q] = fd[q]
  BY DEF DataTypes
<1>4. DataTypes'
  <2>1. job' \in [Writer -> Job]
    BY DEF DataTypes
  <2>2. fd' \in [Writer -> [f : File, off : 0..Limit]]
    BY DEF DataTypes
  <2>3. \A q \in Writer : JobFits(job'[q])
    BY <1>3 DEF DataTypes, JobFits
  <2>. QED  BY <2>1, <2>2, <2>3 DEF DataTypes
<1>5. OneWriter'
  BY <1>3 DEF OneWriter
<1>6. \A f \in File, i \in Nat : Reached(f, i)' => Reached(f, i)
  BY <1>3 DEF Reached
<1>7. Filled'
  BY <1>1, <1>6 DEF Filled
<1>. QED  BY <1>2, <1>4, <1>5, <1>7

\* The loop of filewrite() starts outside of writei().
LEMMA WriteStartInv ==
  ASSUME DataInv, NEW p \in Writer, NEW n \in WriteLens, WriteStart(p, n)
  PROVE  DataInv'
<1>. DEFINE j == [at |-> "begin", left |-> n, n1 |-> 0, off |-> 0]
<1>1. n \in Nat
  BY DataAssumption DEF WriteStart
<1>2. j \in Job /\ j.at # "block"
  BY <1>1 DEF Job
<1>3. job[p].at # "block" /\ job' = [job EXCEPT ![p] = j] /\ UNCHANGED <<bitmap, block, addrs, size, fd>>
  BY DEF WriteStart, Call
<1>. HIDE DEF j
<1>4. fd[p].f \in File /\ fd[p].off \in 0..Limit /\ fd' = [fd EXCEPT ![p] = [f |-> fd[p].f, off |-> fd[p].off]]
  BY <1>3 DEF DataInv, DataTypes
<1>. QED  BY <1>2, <1>3, <1>4, Outside

\* open() sets the descriptor of a process that is not in writei().
LEMMA ReopenInv ==
  ASSUME DataInv, NEW p \in Writer, NEW f \in File, Reopen(p, f)
  PROVE  DataInv'
<1>1. job[p].at # "block" /\ job[p] \in Job /\ job' = [job EXCEPT ![p] = job[p]]
  BY DEF Reopen, Call, DataInv, DataTypes
<1>2. 0 \in 0..Limit
  BY Limits
<1>. QED  BY <1>1, <1>2, Outside DEF Reopen

\* readi() moves the offset, up to the end of the file.
LEMMA readiInv ==
  ASSUME DataInv, NEW p \in Writer, NEW n \in ReadLens, readi(p, n)
  PROVE  DataInv'
<1>. DEFINE f == fd[p].f
            off == fd[p].off
            m == IF off + n > size[f] THEN size[f] - off ELSE n
<1>1. job[p].at # "block" /\ job[p] \in Job /\ job' = [job EXCEPT ![p] = job[p]]
  BY DEF readi, Call, DataInv, DataTypes
<1>2. f \in File /\ off \in 0..Limit /\ size[f] \in 0..Limit /\ n \in Nat /\ Limit \in Nat
  BY DataAssumption, Limits DEF DataInv, DataTypes
<1>3. UNCHANGED <<bitmap, block, addrs, size>>
  BY DEF readi
<1>4. PICK o \in 0..Limit : fd' = [fd EXCEPT ![p] = [f |-> f, off |-> o]]
  <2>1. CASE UNCHANGED fd
    BY <1>2, <2>1 DEF DataInv, DataTypes
  <2>2. CASE off <= size[f] /\ fd' = [fd EXCEPT ![p].off = off + m]
    <3>1. off + m \in 0..Limit
      BY <1>2, <2>2
    <3>2. PICK o \in 0..Limit : o = off + m
      BY <3>1
    <3>3. fd' = [fd EXCEPT ![p].off = o]
      BY <2>2, <3>2
    <3>4. fd[p] \in [f : File, off : 0..Limit]
      BY DEF DataInv, DataTypes
    <3>5. [fd[p] EXCEPT !.off = o] = [f |-> fd[p].f, off |-> o]
      BY <3>4
    <3>. QED  BY <3>3, <3>5
  <2>. QED  BY <2>1, <2>2 DEF readi
<1>. QED  BY <1>1, <1>2, <1>3, <1>4, Outside

\* writei() begins only where the file ends or before, with all it writes below
\* the largest size, although the sum is a uint.
LEMMA NotTooFar ==
  ASSUME DataInv, NEW f \in File, NEW off \in 0..Limit, NEW n \in 0..MaxOp, ~TooFar(f, off, n)
  PROVE  off <= size[f] /\ off + n <= Limit
<1>1. PICK l \in Nat : l = Limit
  BY Limits
<1>2. PICK w \in Nat : w = WORD /\ l < w /\ n < w
  BY <1>1, Limits
<1>3. size[f] \in 0..l /\ off \in 0..l
  BY <1>1 DEF DataInv, DataTypes
<1>4. off <= size[f] /\ ~((off + n) % w < off) /\ ~((off + n) % w > l)
  BY <1>1, <1>2, <1>3 DEF TooFar, Limit
<1>5. PICK x \in Nat : x = off + n /\ x < w + w
  BY <1>2, <1>3
<1>6. w \in Nat \ {0}
  BY <1>2
<1>7. x < w => (x % w) = x
  <2>1. x < w => (w * 0 + x) % w = x
    BY <1>6, Quotient
  <2>2. w * 0 + x = x
    BY <1>6
  <2>. QED  BY <2>1, <2>2
<1>8. x >= w => (x % w) = x - w
  <2>1. x >= w => (w * 1 + (x - w)) % w = x - w
    <3>1. x >= w => x - w \in 0..(w - 1)
      BY <1>5, <1>6
    <3>. QED  BY <1>6, <3>1, Quotient
  <2>2. w * 1 + (x - w) = x
    BY <1>6
  <2>. QED  BY <2>1, <2>2
<1>9. ~((x % w) < off) /\ ~((x % w) > l)
  BY <1>4, <1>5
<1>10. CASE x < w
  BY <1>1, <1>4, <1>5, <1>7, <1>9, <1>10
<1>11. CASE x >= w
  <2>1. x - w < off
    BY <1>2, <1>3, <1>5
  <2>. QED  BY <1>8, <1>9, <1>11, <2>1
<1>. QED  BY <1>10, <1>11

\* The tests of writei() let a write in that stays within the largest file.
LEMMA writeiInv ==
  ASSUME DataInv, NEW p \in Writer, writei(p)
  PROVE  DataInv'
<1>. DEFINE f == fd[p].f
            off == fd[p].off
            n == IF job[p].left > MaxOp THEN MaxOp ELSE job[p].left
<1>1. /\ job[p].at = "begin" /\ LockedBy(f) = {} /\ UNCHANGED <<bitmap, block, addrs, size, fd>>
      /\ \/ job' = [job EXCEPT ![p] = NoJob]
         \/ /\ ~TooFar(f, off, n)
            /\ job' = [job EXCEPT ![p].at = "block", ![p].n1 = n, ![p].off = off]
  BY DEF writei
<1>2. f \in File /\ off \in 0..Limit /\ job[p] \in Job /\ job[p].left \in Nat /\ n \in 0..MaxOp /\ n <= job[p].left /\ n \in Nat
  BY OfOne, Limits DEF DataInv
<1>3. CASE job' = [job EXCEPT ![p] = NoJob]
  <2>1. NoJob \in Job /\ NoJob.at # "block"
    BY DEF NoJob, Job
  <2>2. fd' = [fd EXCEPT ![p] = [f |-> fd[p].f, off |-> fd[p].off]]
    BY <1>1 DEF DataInv, DataTypes
  <2>. QED  BY <1>1, <1>2, <1>3, <2>1, <2>2, Outside
<1>4. CASE ~TooFar(f, off, n) /\ job' = [job EXCEPT ![p].at = "block", ![p].n1 = n, ![p].off = off]
  <2>1. off <= size[f] /\ off + n <= Limit
    BY <1>2, <1>4, NotTooFar
  <2>2. PICK j \in Job : /\ j.at = "block" /\ j.n1 = n /\ j.off = off /\ j.left = job[p].left
                         /\ job' = [job EXCEPT ![p] = j]
    <3>. DEFINE h == [job[p] EXCEPT !.at = "block", !.n1 = n, !.off = off]
    <3>. HIDE DEF n
    <3>0. off \in Nat
      BY <1>2, Limits
    <3>1. h \in Job /\ h.at = "block" /\ h.n1 = n /\ h.off = off /\ h.left = job[p].left
      BY <1>2, <3>0 DEF Job
    <3>2. job' = [job EXCEPT ![p] = h]
      BY <1>4
    <3>. HIDE DEF h
    <3>. QED  BY <3>1, <3>2
  <2>. HIDE DEF n
  <2>3. \A q \in Writer : job'[q] = IF q = p THEN j ELSE job[q]
    BY <2>2 DEF DataInv, DataTypes
  <2>4. \A q \in Writer : job[q].at = "block" => fd[q].f # f
    BY <1>1 DEF LockedBy
  <2>5. Disk' = Disk
    BY <1>1 DEF Disk
  <2>6. DataTypes'
    <3>1. job' \in [Writer -> Job]
      BY <2>2 DEF DataInv, DataTypes
    <3>2. JobFits(j)
      BY <1>2, <2>1, <2>2 DEF JobFits
    <3>3. \A q \in Writer : JobFits(job'[q])
      BY <2>3, <3>2 DEF DataInv, DataTypes
    <3>. QED  BY <1>1, <3>1, <3>3 DEF DataInv, DataTypes
  <2>7. OneWriter'
    BY <1>1, <2>3, <2>4 DEF DataInv, OneWriter
  <2>8. Filled'
    <3>1. ASSUME NEW g \in File, NEW i \in Nat, Reached(g, i)'
          PROVE  Reached(g, i)
      <4>1. size[g] \in Nat /\ size' = size /\ fd' = fd
        BY <1>1, Limits DEF DataInv, DataTypes
      <4>2. CASE i < size[g]
        BY <4>2 DEF Reached
      <4>3. CASE ~(i < size[g])
        <5>1. PICK q \in Writer : job'[q].at = "block" /\ fd[q].f = g /\ i < job'[q].off
          BY <3>1, <4>1, <4>3 DEF Reached
        <5>2. q # p
          <6>1. q = p => g = f /\ i < off
            BY <2>2, <2>3, <5>1
          <6>. QED  BY <1>2, <2>1, <4>1, <4>3, <6>1
        <5>. QED  BY <2>3, <5>1, <5>2 DEF Reached
      <4>. QED  BY <4>2, <4>3
    <3>. QED  BY <2>5, <3>1 DEF DataInv, Filled
  <2>. QED  BY <2>5, <2>6, <2>7, <2>8 DEF DataInv
<1>. QED  BY <1>1, <1>3, <1>4

\* The end of writei() takes what is filled into the size.
LEMMA WriteEndInv ==
  ASSUME DataInv, NEW p \in Writer, WriteEnd(p)
  PROVE  DataInv'
<1>. DEFINE f == fd[p].f
            off == job[p].off
            j == IF job[p].left = 0 THEN NoJob ELSE [NoJob EXCEPT !.at = "begin", !.left = job[p].left]
<1>1. /\ job[p].at = "block" /\ job[p].n1 = 0 /\ UNCHANGED <<bitmap, block, addrs>>
      /\ size' = [size EXCEPT ![f] = GrownTo(f, off)]
      /\ fd' = [fd EXCEPT ![p].off = off]
      /\ job' = [job EXCEPT ![p] = j]
  BY DEF WriteEnd
<1>2. f \in File /\ job[p] \in Job /\ off \in 0..Limit /\ job[p].left \in Nat
  BY <1>1, OfOne, Limits DEF DataInv, JobFits
<1>3. j \in Job /\ j.at # "block"
  BY <1>2 DEF NoJob, Job
<1>. HIDE DEF j
<1>4. \A q \in Writer : job'[q] = IF q = p THEN j ELSE job[q]
  BY <1>1 DEF DataInv, DataTypes
<1>5. \A q \in Writer : fd'[q].f = fd[q].f
  BY <1>1 DEF DataInv, DataTypes
<1>6. \A g \in File : size'[g] = IF g = f THEN GrownTo(f, off) ELSE size[g]
  BY <1>1 DEF DataInv, DataTypes
<1>7. GrownTo(f, off) \in 0..Limit
  BY <1>2 DEF GrownTo, DataInv, DataTypes
<1>8. Disk' = Disk
  BY <1>1 DEF Disk
<1>9. DataTypes'
  <2>1. size' \in [File -> 0..Limit] /\ job' \in [Writer -> Job]
    BY <1>1, <1>3, <1>7 DEF DataInv, DataTypes
  <2>2. fd' \in [Writer -> [f : File, off : 0..Limit]]
    BY <1>1, <1>2 DEF DataInv, DataTypes
  <2>3. \A q \in Writer : JobFits(job'[q])
    BY <1>3, <1>4 DEF DataInv, DataTypes, JobFits
  <2>. QED  BY <2>1, <2>2, <2>3 DEF DataTypes
<1>10. OneWriter'
  BY <1>3, <1>4, <1>5 DEF DataInv, OneWriter
<1>11. Filled'
  <2>1. ASSUME NEW g \in File, NEW i \in Nat, Reached(g, i)'
        PROVE  Reached(g, i)
    <3>1. CASE i < size'[g] /\ ~(i < size[g])
      <4>1. g = f /\ i < off
        BY <1>2, <1>6, <3>1 DEF GrownTo
      <4>. QED  BY <1>1, <4>1 DEF Reached
    <3>2. CASE ~(i < size'[g])
      <4>1. PICK q \in Writer : job'[q].at = "block" /\ fd'[q].f = g /\ i < job'[q].off
        BY <2>1, <3>2 DEF Reached
      <4>. QED  BY <1>3, <1>4, <1>5, <4>1 DEF Reached
    <3>. QED  BY <3>1, <3>2 DEF Reached
  <2>. QED  BY <1>8, <2>1 DEF DataInv, Filled
<1>. QED  BY <1>8, <1>9, <1>10, <1>11 DEF DataInv

\* The blocks that itrunc() frees are those that the slots of f have the address of.
LEMMA BlocksOfIs ==
  ASSUME Good(Disk), NEW f \in File, NEW b \in Block
  PROVE  b \in BlocksOf(f) <=> \E s \in Slot : Ptr(Disk, f, s) = b
<1>1. b # 0 /\ Disk.addrs = addrs /\ Disk.block = block
  BY Sizes DEF Disk
<1>2. ASSUME NEW i \in 0..NDIRECT PROVE i \in Slot /\ Ptr(Disk, f, i) = addrs[f][i]
  BY <1>1, <1>2, Sizes DEF Slot, Ptr
<1>3. ASSUME NEW i \in 1..NINDIRECT, addrs[f][NDIRECT] # 0
      PROVE  NDIRECT + i \in Slot /\ Ptr(Disk, f, NDIRECT + i) = block[addrs[f][NDIRECT]][i]
  BY <1>1, <1>3, Sizes DEF Slot, Ptr
<1>4. ASSUME b \in BlocksOf(f) PROVE \E s \in Slot : Ptr(Disk, f, s) = b
  <2>1. CASE \E i \in 0..NDIRECT : addrs[f][i] = b
    BY <1>2, <2>1
  <2>2. CASE b \in Indirect(f)
    <3>1. PICK i \in 1..NINDIRECT : addrs[f][NDIRECT] # 0 /\ block[addrs[f][NDIRECT]][i] = b
      BY <2>2 DEF Indirect
    <3>. QED  BY <1>3, <3>1
  <2>. QED  BY <1>4, <2>1, <2>2 DEF BlocksOf
<1>5. ASSUME NEW s \in Slot, Ptr(Disk, f, s) = b PROVE b \in BlocksOf(f)
  <2>1. CASE s \in 0..NDIRECT
    BY <1>1, <1>2, <1>5, <2>1 DEF BlocksOf
  <2>2. CASE s \notin 0..NDIRECT
    <3>1. s - NDIRECT \in 1..NINDIRECT /\ ~(s <= NDIRECT)
      BY <1>5, <2>2, Sizes DEF Slot
    <3>2. addrs[f][NDIRECT] # 0 /\ block[addrs[f][NDIRECT]][s - NDIRECT] = b
      BY <1>1, <1>5, <3>1 DEF Ptr
    <3>. QED  BY <1>1, <3>1, <3>2 DEF BlocksOf, Indirect
  <2>. QED  BY <2>1, <2>2
<1>. QED  BY <1>4, <1>5

\* itrunc() frees the blocks of its file and no other.
LEMMA itruncInv ==
  ASSUME DataInv, NEW f \in File, itrunc(f)
  PROVE  DataInv'
<1>1. /\ \A p \in Writer : fd[p].f # f
      /\ bitmap' = bitmap \ BlocksOf(f) /\ addrs' = [addrs EXCEPT ![f] = NoAddrs]
      /\ size' = [size EXCEPT ![f] = 0] /\ UNCHANGED <<block, fd, job>>
  BY DEF itrunc
<1>2. Good(Disk) /\ Disk \in DiskType
  BY DEF DataInv, Good
<1>3. NoAddrs \in [0..NDIRECT -> Block \cup {0}] /\ \A s \in 0..NDIRECT : NoAddrs[s] = 0
  BY DEF NoAddrs
<1>4. Disk'.bitmap = Disk.bitmap \ BlocksOf(f) /\ Disk'.block = Disk.block /\ Disk'.addrs = [Disk.addrs EXCEPT ![f] = NoAddrs]
  BY <1>1 DEF Disk
<1>5. Disk' \in DiskType
  <2>1. Disk.bitmap \ BlocksOf(f) \in SUBSET Block
    BY <1>2 DEF DiskType
  <2>2. [Disk.addrs EXCEPT ![f] = NoAddrs] \in [File -> [0..NDIRECT -> Block \cup {0}]]
    BY <1>2, <1>3 DEF DiskType
  <2>3. Disk' = [bitmap |-> Disk'.bitmap, block |-> Disk'.block, addrs |-> Disk'.addrs]
    BY DEF Disk
  <2>4. Disk.block \in [Block -> [1..BSIZE -> Cell]]
    BY <1>2 DEF DiskType
  <2>. QED  BY <1>4, <2>1, <2>2, <2>3, <2>4 DEF DiskType
<1>6. \A g \in File : Disk'.addrs[g] = IF g = f THEN NoAddrs ELSE Disk.addrs[g]
  BY <1>2, <1>4 DEF DiskType
<1>7. ASSUME NEW g \in File, NEW t \in Slot PROVE Ptr(Disk', g, t) = IF g = f THEN 0 ELSE Ptr(Disk, g, t)
  <2>1. CASE g = f
    BY <1>3, <1>6, <1>7, <2>1, Sizes DEF Ptr, Slot
  <2>2. CASE g # f
    BY <1>4, <1>6, <1>7, <2>2 DEF Ptr
  <2>. QED  BY <2>1, <2>2
<1>8. ASSUME NEW b \in Block PROVE b \in BlocksOf(f) <=> \E s \in Slot : Ptr(Disk, f, s) = b
  BY <1>2, BlocksOfIs
<1>9. Good(Disk)'
  <2>1. \A g \in File, t \in Slot : Ptr(Disk', g, t) \in Block \cup {0}
    BY <1>2, <1>7 DEF Good
  <2>2. ASSUME NEW g \in File, NEW h \in File, NEW t \in Slot, NEW u \in Slot,
               Ptr(Disk', g, t) # 0, Ptr(Disk', g, t) = Ptr(Disk', h, u)
        PROVE  g = h /\ t = u
    BY <1>2, <1>7, <2>2 DEF Good
  <2>3. ASSUME NEW b \in Block PROVE b \in Disk'.bitmap <=> \E g \in File, t \in Slot : Ptr(Disk', g, t) = b
    <3>1. b # 0
      BY <2>3, Sizes
    <3>2. b \in Disk.bitmap <=> \E g \in File, t \in Slot : Ptr(Disk, g, t) = b
      BY <1>2, <2>3 DEF Good
    <3>3. ASSUME b \in BlocksOf(f), NEW g \in File, NEW t \in Slot, Ptr(Disk', g, t) = b PROVE FALSE
      <4>1. PICK s \in Slot : Ptr(Disk, f, s) = b
        BY <1>8, <3>3
      <4>2. g # f /\ Ptr(Disk, g, t) = b
        BY <1>7, <3>1, <3>3
      <4>. QED  BY <1>2, <3>1, <4>1, <4>2 DEF Good
    <3>4. ASSUME b \notin BlocksOf(f), NEW g \in File, NEW t \in Slot, Ptr(Disk, g, t) = b PROVE Ptr(Disk', g, t) = b
      BY <1>7, <1>8, <3>4
    <3>5. ASSUME NEW g \in File, NEW t \in Slot, Ptr(Disk', g, t) = b PROVE Ptr(Disk, g, t) = b
      BY <1>7, <3>1, <3>5
    <3>. QED  BY <1>4, <3>2, <3>3, <3>4, <3>5
  <2>. QED  BY <1>5, <2>1, <2>2, <2>3 DEF Good
<1>10. DataTypes'
  <2>1. 0 \in 0..Limit
    BY Limits
  <2>. QED  BY <1>1, <2>1 DEF DataInv, DataTypes
<1>11. OneWriter'
  BY <1>1 DEF DataInv, OneWriter
<1>12. Filled'
  <2>1. ASSUME NEW g \in File, NEW i \in Nat, Reached(g, i)'
        PROVE  g # f /\ Reached(g, i)
    <3>1. size'[g] = IF g = f THEN 0 ELSE size[g]
      BY <1>1 DEF DataInv, DataTypes
    <3>. QED  BY <1>1, <2>1, <3>1 DEF Reached
  <2>2. ASSUME NEW g \in File \ {f}, NEW i \in Nat, Has(Disk, g, i) PROVE Has(Disk', g, i)
    BY <1>4, <1>6, <2>2 DEF Has, Ptr
  <2>. QED  BY <2>1, <2>2 DEF DataInv, Filled
<1>. QED  BY <1>9, <1>10, <1>11, <1>12 DEF DataInv

-----------------------------------------------------------------------------
\* The byte of f at offset i.
Byte(d, f, i) == d.block[Ptr(d, f, SlotOf(i \div BSIZE))][(i % BSIZE) + 1]

\* From d to e, m bytes p have been put into f at off, and nothing else.
Put(e, d, p, f, off, m) ==
  /\ Good(e)
  /\ \A g \in File, t \in Slot : Ptr(d, g, t) # 0 => Ptr(e, g, t) = Ptr(d, g, t)
  /\ \A i \in Nat : off <= i /\ i < off + m => Has(e, f, i) /\ Byte(e, f, i) = p
  /\ \A g \in File, i \in Nat :
       i < Limit /\ Has(d, g, i) /\ ~(g = f /\ off <= i /\ i < off + m) => Byte(e, g, i) = Byte(d, g, i)

\* How many bytes a round of the loop of writei() writes.
PieceLen(p) ==
  LET o == job[p].off % BSIZE
  IN  IF job[p].n1 < BSIZE - o THEN job[p].n1 ELSE BSIZE - o

\* bmap() alone changes no byte.
LEMMA ExtendedPut ==
  ASSUME NEW d, Good(d), NEW f \in File, NEW e, Extended(e, d, f), NEW p, NEW off \in Nat
  PROVE  Put(e, d, p, f, off, 0)
<1>1. ASSUME NEW g \in File, NEW i \in Nat, i < Limit, Has(d, g, i)
      PROVE  Byte(e, g, i) = Byte(d, g, i)
  <2>1. PICK s \in Slot \ {NDIRECT} : s = SlotOf(i \div BSIZE)
    BY <1>1, OffsetBlock
  <2>2. Ptr(d, g, s) # 0
    BY <1>1, <2>1 DEF Has
  <2>3. Ptr(e, g, s) = Ptr(d, g, s) /\ e.block[Ptr(d, g, s)] = d.block[Ptr(d, g, s)]
    BY <2>2 DEF Extended
  <2>. QED  BY <2>1, <2>3 DEF Byte
<1>2. \A i \in Nat : ~(off <= i /\ i < off + 0)
  OBVIOUS
<1>. QED  BY <1>1, <1>2 DEF Put, Extended

\* A round of the loop puts its piece into the block that bmap() has found.
LEMMA PieceWritten ==
  ASSUME NEW d, Good(d), NEW f \in File, NEW off \in Nat, off < Limit,
         NEW m \in 0..BSIZE, m <= BSIZE - (off % BSIZE), NEW p \in Writer,
         NEW c, NEW x, x # 0, Extended(c, d, f), Ptr(c, f, SlotOf(off \div BSIZE)) = x,
         NEW e \in DiskType, e.bitmap = c.bitmap, e.addrs = c.addrs,
         e.block = [c.block EXCEPT ![x] =
                      [i \in 1..BSIZE |-> IF i > (off % BSIZE) /\ i <= (off % BSIZE) + m THEN p ELSE c.block[x][i]]]
  PROVE  Put(e, d, p, f, off, m)
<1>. DEFINE new == [i \in 1..BSIZE |-> IF i > (off % BSIZE) /\ i <= (off % BSIZE) + m THEN p ELSE c.block[x][i]]
<1>1. PICK s \in Slot \ {NDIRECT} : s = SlotOf(off \div BSIZE)
  BY OffsetBlock
<1>2. Good(c) /\ c \in DiskType /\ Ptr(c, f, s) = x /\ x \in Block
  BY <1>1 DEF Extended, Good
<1>3. new \in [1..BSIZE -> Cell]
  BY <1>2 DEF DiskType, Cell
<1>4. \A i \in 1..BSIZE : new[i] = IF i > (off % BSIZE) /\ i <= (off % BSIZE) + m THEN p ELSE c.block[x][i]
  OBVIOUS
<1>5. e.block = [c.block EXCEPT ![x] = new]
  OBVIOUS
<1>. HIDE DEF new
<1>6. Good(e) /\ \A g \in File, t \in Slot : Ptr(e, g, t) = Ptr(c, g, t)
  BY <1>2, <1>3, <1>5, Overwritten
<1>7. e.block[x] = new /\ \A b \in Block : b # x => e.block[b] = c.block[b]
  BY <1>2, <1>5 DEF DiskType
<1>8. BSIZE \in Nat \ {0} /\ (off % BSIZE) \in 0..(BSIZE - 1) /\ m \in Nat
  <2>1. BSIZE \in Nat \ {0} /\ m \in Nat
    BY Sizes
  <2>. QED  BY <2>1, Euclid
<1>9. ASSUME NEW i \in Nat, off <= i, i < off + m PROVE Has(e, f, i) /\ Byte(e, f, i) = p
  <2>1. (i \div BSIZE) = (off \div BSIZE) /\ (off % BSIZE) <= (i % BSIZE) /\ (i % BSIZE) < (off % BSIZE) + m
    BY <1>8, <1>9, Piece, Zenon
  <2>2. (i % BSIZE) \in 0..(BSIZE - 1)
    BY <1>8, Euclid
  <2>3. SlotOf(i \div BSIZE) = s /\ Ptr(e, f, s) = x
    BY <1>1, <1>2, <1>6, <2>1
  <2>4. new[(i % BSIZE) + 1] = p
    <3>1. PICK k \in 0..(BSIZE - 1), o \in 0..(BSIZE - 1) : k = (i % BSIZE) /\ o = (off % BSIZE)
      BY <1>8, <2>2
    <3>2. k + 1 \in 1..BSIZE /\ k + 1 > o /\ k + 1 <= o + m
      BY <1>8, <2>1, <3>1
    <3>. QED  BY <1>4, <3>1, <3>2
  <2>. QED  BY <1>7, <2>3, <2>4 DEF Has, Byte
<1>10. ASSUME NEW g \in File, NEW i \in Nat, i < Limit, Has(d, g, i), ~(g = f /\ off <= i /\ i < off + m)
       PROVE  Byte(e, g, i) = Byte(d, g, i)
  <2>1. PICK t \in Slot \ {NDIRECT} : t = SlotOf(i \div BSIZE)
    BY <1>10, OffsetBlock
  <2>2. Ptr(d, g, t) # 0
    BY <1>10, <2>1 DEF Has
  <2>3. Ptr(c, g, t) = Ptr(d, g, t) /\ c.block[Ptr(d, g, t)] = d.block[Ptr(d, g, t)] /\ Ptr(e, g, t) = Ptr(d, g, t)
    BY <1>6, <2>2 DEF Extended
  <2>4. Ptr(d, g, t) \in Block
    BY <2>2 DEF Good
  <2>5. CASE Ptr(d, g, t) # x
    BY <1>7, <2>1, <2>3, <2>4, <2>5 DEF Byte
  <2>6. CASE Ptr(d, g, t) = x
    <3>1. g = f /\ t = s
      BY <1>2, <2>2, <2>3, <2>6 DEF Good
    <3>2. (i \div BSIZE) = (off \div BSIZE)
      <4>1. (i \div BSIZE) \in Nat /\ (off \div BSIZE) \in Nat
        BY <1>8, Euclid
      <4>. QED  BY <1>1, <2>1, <3>1, <4>1, SlotsDiffer
    <3>3. ~((off % BSIZE) <= (i % BSIZE) /\ (i % BSIZE) < (off % BSIZE) + m)
      BY <1>8, <1>10, <3>1, <3>2, Piece, Zenon
    <3>4. PICK k \in 0..(BSIZE - 1), o \in 0..(BSIZE - 1) : k = (i % BSIZE) /\ o = (off % BSIZE)
      BY <1>8, Euclid
    <3>5. k + 1 \in 1..BSIZE /\ ~(k + 1 > o /\ k + 1 <= o + m)
      BY <1>8, <3>3, <3>4
    <3>6. new[k + 1] = c.block[x][k + 1]
      BY <1>4, <3>4, <3>5
    <3>. QED  BY <1>7, <2>1, <2>3, <2>6, <3>4, <3>6 DEF Byte
  <2>. QED  BY <2>5, <2>6
<1>11. \A g \in File, t \in Slot : Ptr(d, g, t) # 0 => Ptr(e, g, t) = Ptr(d, g, t)
  BY <1>6 DEF Extended
<1>. QED  BY <1>6, <1>9, <1>10, <1>11 DEF Put

\* A round of the loop goes on by its piece.
Advances(p) ==
  /\ PieceLen(p) \in 1..BSIZE /\ PieceLen(p) <= job[p].n1
  /\ job' \in [Writer -> Job]
  /\ \A q \in Writer \ {p} : job'[q] = job[q]
  /\ job'[p].at = "block" /\ job'[p].off = job[p].off + PieceLen(p)
  /\ job'[p].n1 = job[p].n1 - PieceLen(p) /\ job'[p].left = job[p].left - PieceLen(p)

\* The piece is never empty, and never longer than what is left.
LEMMA AdvancesIs ==
  ASSUME DataInv, NEW p \in Writer, job[p].at = "block", job[p].n1 > 0,
         job' = [job EXCEPT ![p].off = job[p].off + PieceLen(p), ![p].n1 = @ - PieceLen(p), ![p].left = @ - PieceLen(p)]
  PROVE  Advances(p)
<1>1. PICK j \in Job : /\ j = job[p] /\ j.at = "block" /\ j.n1 > 0 /\ j.n1 <= j.left
                       /\ j.off \in Nat /\ j.n1 \in Nat /\ j.left \in Nat
  BY OfOne DEF DataInv, JobFits
<1>2. PICK o \in 0..(BSIZE - 1) : o = (j.off % BSIZE) /\ BSIZE \in Nat \ {0}
  BY <1>1, Sizes, Euclid
<1>3. PieceLen(p) = IF j.n1 < BSIZE - o THEN j.n1 ELSE BSIZE - o
  BY <1>1, <1>2 DEF PieceLen
<1>4. PICK m \in 1..BSIZE : m = PieceLen(p) /\ m <= j.n1
  BY <1>1, <1>2, <1>3
<1>. DEFINE h == [j EXCEPT !.off = j.off + m, !.n1 = j.n1 - m, !.left = j.left - m]
<1>5. j.off + m \in Nat /\ j.n1 - m \in Nat /\ j.left - m \in Nat
  BY <1>1, <1>4
<1>6. h \in Job /\ h.at = "block" /\ h.off = j.off + m /\ h.n1 = j.n1 - m /\ h.left = j.left - m
  BY <1>1, <1>5 DEF Job
<1>7. job' = [job EXCEPT ![p] = h]
  BY <1>1, <1>4
<1>. HIDE DEF h
<1>8. job' \in [Writer -> Job] /\ job'[p] = h /\ \A q \in Writer \ {p} : job'[q] = job[q]
  <2>1. job \in [Writer -> Job]
    BY DEF DataInv, DataTypes
  <2>2. job' \in [Writer -> Job] /\ job'[p] = h
    BY <1>6, <1>7, <2>1
  <2>3. \A q \in Writer \ {p} : job'[q] = job[q]
    BY <1>7, <2>1
  <2>. QED  BY <2>2, <2>3
<1>. QED  BY <1>1, <1>4, <1>6, <1>8 DEF Advances

\* A round of the loop puts its piece, or panics.
LEMMA WriteBlockIs ==
  ASSUME DataInv, NEW p \in Writer, WriteBlock(p)
  PROVE  /\ job[p].at = "block" /\ job[p].n1 > 0 /\ UNCHANGED <<size, fd>> /\ got' = <<>>
         /\ \/ job' = job /\ Put(Disk', Disk, p, fd[p].f, job[p].off, 0)
            \/ Advances(p) /\ Put(Disk', Disk, p, fd[p].f, job[p].off, PieceLen(p))
<1>. DEFINE f == fd[p].f
            off == job[p].off
            a == bmap(Disk, f, off \div BSIZE)
            m == PieceLen(p)
            new == [i \in 1..BSIZE |-> IF i > (off % BSIZE) /\ i <= (off % BSIZE) + m THEN p ELSE a.d.block[a.b][i]]
<1>1. /\ job[p].at = "block" /\ job[p].n1 > 0 /\ UNCHANGED <<size, fd>> /\ got' = <<>>
      /\ bitmap' = a.d.bitmap /\ addrs' = [addrs EXCEPT ![f] = a.d.addrs[f]]
      /\ \/ a.b = 0 /\ block' = a.d.block /\ job' = job
         \/ /\ a.b # 0 /\ block' = [a.d.block EXCEPT ![a.b] = new]
            /\ job' = [job EXCEPT ![p].off = off + m, ![p].n1 = @ - m, ![p].left = @ - m]
  BY DEF WriteBlock, PieceLen
<1>2. f \in File /\ off \in Nat /\ off < Limit /\ Good(Disk)
  <2>1. f \in File /\ off \in Nat /\ job[p].n1 \in Nat /\ JobFits(job[p])
    BY OfOne DEF DataInv
  <2>2. off + job[p].n1 <= Limit /\ job[p].n1 > 0
    BY <1>1, <2>1 DEF JobFits
  <2>. HIDE DEF f, off, a
  <2>. QED  BY <2>1, <2>2, Limits DEF DataInv
<1>3. (off \div BSIZE) \in 0..(MAXFILE - 1) /\ SlotOf(off \div BSIZE) \in Slot
  BY <1>2, OffsetBlock
<1>4. Mapped(a, Disk, f, off \div BSIZE)
  BY <1>2, <1>3, BmapIs
<1>. HIDE DEF a, f, off, m, new
<1>5. /\ Extended(a.d, Disk, f) /\ Good(a.d) /\ a.d \in DiskType /\ a.b \in Block \cup {0}
      /\ a.b # 0 => Ptr(a.d, f, SlotOf(off \div BSIZE)) = a.b
  BY <1>4 DEF Mapped, Extended, Good
<1>6. addrs' = a.d.addrs
  <2>1. a.d.addrs \in [File -> [0..NDIRECT -> Block \cup {0}]] /\ addrs \in [File -> [0..NDIRECT -> Block \cup {0}]]
    BY <1>2, <1>5 DEF Good, DiskType, Disk
  <2>2. \A g \in File \ {f} : a.d.addrs[g] = addrs[g]
    BY <1>5 DEF Extended, Disk
  <2>. QED  BY <1>1, <1>2, <2>1, <2>2
<1>7. CASE a.b = 0 /\ block' = a.d.block /\ job' = job
  <2>1. Disk' = a.d
    BY <1>1, <1>5, <1>6, <1>7 DEF Disk, DiskType
  <2>2. Put(a.d, Disk, p, f, off, 0)
    BY <1>2, <1>5, ExtendedPut
  <2>. QED  BY <1>1, <1>7, <2>1, <2>2 DEF f, off
<1>8. CASE /\ a.b # 0 /\ block' = [a.d.block EXCEPT ![a.b] = new]
           /\ job' = [job EXCEPT ![p].off = off + m, ![p].n1 = @ - m, ![p].left = @ - m]
  <2>1. Advances(p)
    BY <1>1, <1>8, AdvancesIs DEF off, m
  <2>2. m \in 0..BSIZE /\ m <= BSIZE - (off % BSIZE)
    <3>1. PICK o \in 0..(BSIZE - 1), n \in Nat : o = (off % BSIZE) /\ n = job[p].n1 /\ BSIZE \in Nat \ {0}
      BY <1>2, Sizes, Euclid, OfOne DEF DataInv
    <3>2. m = IF n < BSIZE - o THEN n ELSE BSIZE - o
      BY <3>1 DEF m, PieceLen, off
    <3>. QED  BY <3>1, <3>2
  <2>3. new = [i \in 1..BSIZE |-> IF i > (off % BSIZE) /\ i <= (off % BSIZE) + m THEN p ELSE a.d.block[a.b][i]]
    BY DEF new
  <2>4. Disk'.bitmap = a.d.bitmap /\ Disk'.addrs = a.d.addrs /\ Disk'.block = [a.d.block EXCEPT ![a.b] = new]
    BY <1>1, <1>6, <1>8 DEF Disk
  <2>5. Disk' \in DiskType
    <3>1. new \in [1..BSIZE -> Cell]
      <4>1. a.d.block[a.b] \in [1..BSIZE -> Cell]
        BY <1>5, <1>8 DEF DiskType
      <4>2. p \in Cell
        BY DEF Cell
      <4>. QED  BY <2>3, <4>1, <4>2
    <3>2. [a.d.block EXCEPT ![a.b] = new] \in [Block -> [1..BSIZE -> Cell]]
      BY <1>5, <1>8, <3>1 DEF DiskType
    <3>3. Disk' = [bitmap |-> bitmap', block |-> block', addrs |-> addrs']
      BY DEF Disk
    <3>. QED  BY <1>1, <1>5, <1>6, <1>8, <3>2, <3>3 DEF DiskType
  <2>6. Put(Disk', Disk, p, f, off, m)
    BY <1>2, <1>5, <1>8, <2>2, <2>3, <2>4, <2>5, PieceWritten
  <2>. QED  BY <1>1, <2>1, <2>6 DEF f, off, m
<1>. QED  BY <1>1, <1>7, <1>8

\* A round of the loop keeps the blocks apart and fills what it passes.
LEMMA WriteBlockInv ==
  ASSUME DataInv, NEW p \in Writer, WriteBlock(p)
  PROVE  DataInv'
<1>. DEFINE f == fd[p].f
            off == job[p].off
<1>1. /\ job[p].at = "block" /\ job[p].n1 > 0 /\ UNCHANGED <<size, fd>>
      /\ \/ job' = job /\ Put(Disk', Disk, p, f, off, 0)
         \/ Advances(p) /\ Put(Disk', Disk, p, f, off, PieceLen(p))
  BY WriteBlockIs
<1>2. f \in File /\ job[p].left \in Nat /\ job[p].n1 \in Nat /\ off \in Nat /\ off + job[p].n1 <= Limit /\ job[p].n1 <= job[p].left
  BY <1>1, OfOne DEF DataInv, JobFits
<1>3. Good(Disk)'
  BY <1>1 DEF Put
<1>4. ASSUME NEW g \in File, NEW i \in Nat, i < Limit, Has(Disk, g, i) PROVE Has(Disk', g, i)
  <2>1. SlotOf(i \div BSIZE) \in Slot
    BY <1>4, OffsetBlock
  <2>. QED  BY <1>1, <1>4, <2>1 DEF Has, Put
<1>5. \A g \in File, i \in Nat : Reached(g, i) => i < Limit
  <2>1. ASSUME NEW g \in File, NEW i \in Nat, i < size[g] PROVE i < Limit
    BY <2>1, Limits DEF DataInv, DataTypes
  <2>2. ASSUME NEW q \in Writer, NEW i \in Nat, job[q].at = "block", i < job[q].off PROVE i < Limit
    BY <2>2, OfOne, Limits DEF DataInv, JobFits
  <2>. QED  BY <2>1, <2>2 DEF Reached
<1>6. CASE job' = job /\ Put(Disk', Disk, p, f, off, 0)
  <2>1. DataTypes' /\ OneWriter'
    BY <1>1, <1>6 DEF DataInv, DataTypes, OneWriter
  <2>2. \A g \in File, i \in Nat : Reached(g, i)' => Reached(g, i)
    BY <1>1, <1>6 DEF Reached
  <2>3. Filled'
    BY <1>4, <1>5, <2>2 DEF DataInv, Filled
  <2>. QED  BY <1>3, <2>1, <2>3 DEF DataInv
<1>7. CASE Advances(p) /\ Put(Disk', Disk, p, f, off, PieceLen(p))
  <2>1. PICK m \in Nat : /\ m = PieceLen(p) /\ m <= job[p].n1 /\ job'[p].at = "block" /\ job'[p].off = off + m
                         /\ job'[p].n1 = job[p].n1 - m /\ job'[p].left = job[p].left - m
    BY <1>7, Sizes DEF Advances
  <2>2. job' \in [Writer -> Job] /\ \A q \in Writer \ {p} : job'[q] = job[q]
    BY <1>7 DEF Advances
  <2>3. DataTypes'
    <3>1. JobFits(job'[p])
      BY <1>2, <2>1, Limits DEF JobFits
    <3>2. \A q \in Writer : JobFits(job'[q])
      BY <2>2, <3>1 DEF DataInv, DataTypes
    <3>. QED  BY <1>1, <2>2, <3>2 DEF DataInv, DataTypes
  <2>4. OneWriter'
    BY <1>1, <2>1, <2>2 DEF DataInv, OneWriter
  <2>5. ASSUME NEW g \in File, NEW i \in Nat, Reached(g, i)'
        PROVE  Reached(g, i) \/ (g = f /\ off <= i /\ i < off + m)
    <3>1. CASE i < size[g]
      BY <3>1 DEF Reached
    <3>2. CASE ~(i < size[g])
      <4>1. PICK q \in Writer : job'[q].at = "block" /\ fd[q].f = g /\ i < job'[q].off
        BY <1>1, <2>5, <3>2 DEF Reached
      <4>2. CASE q # p
        BY <2>2, <4>1, <4>2 DEF Reached
      <4>3. CASE q = p
        <5>1. g = f /\ i < off + m
          BY <2>1, <4>1, <4>3
        <5>2. CASE i < off
          BY <1>1, <5>1, <5>2 DEF Reached
        <5>. QED  BY <1>2, <5>1, <5>2
      <4>. QED  BY <4>2, <4>3
    <3>. QED  BY <3>1, <3>2
  <2>6. Filled'
    <3>1. ASSUME NEW g \in File, NEW i \in Nat, Reached(g, i)' PROVE Has(Disk', g, i)
      <4>1. CASE Reached(g, i)
        BY <1>4, <1>5, <4>1 DEF DataInv, Filled
      <4>2. CASE g = f /\ off <= i /\ i < off + m
        BY <1>7, <2>1, <4>2 DEF Put
      <4>. QED  BY <2>5, <3>1, <4>1, <4>2
    <3>. QED  BY <3>1 DEF Filled
  <2>. QED  BY <1>3, <2>3, <2>4, <2>6 DEF DataInv
<1>. QED  BY <1>1, <1>6, <1>7

\* Steps of other components.
LEMMA StutterInv == DataInv /\ UNCHANGED dataVars => DataInv'
<1>. SUFFICES ASSUME DataInv, UNCHANGED dataVars PROVE DataInv'
  OBVIOUS
<1>1. UNCHANGED <<bitmap, block, addrs, size, fd, job>>
  BY DEF dataVars
<1>2. Disk' = Disk
  BY <1>1 DEF Disk
<1>3. DataTypes' /\ OneWriter'
  BY <1>1 DEF DataInv, DataTypes, OneWriter
<1>4. \A f \in File, i \in Nat : Reached(f, i)' => Reached(f, i)
  BY <1>1 DEF Reached
<1>. QED  BY <1>2, <1>3, <1>4 DEF DataInv, Filled

\* No step of a write, a read or a truncation leaves the invariant.
LEMMA Invariance == DataSpec => []DataInv
<1>1. DataInv /\ [DataNext]_dataVars => DataInv'
  BY StutterInv, WriteStartInv, readiInv, writeiInv, WriteBlockInv, WriteEndInv, ReopenInv, itruncInv DEF DataNext
<1>. QED  BY <1>1, InitInv, PTL DEF DataSpec

-----------------------------------------------------------------------------
\* As many values as arguments, when no two arguments have the same value.
LEMMA SameNumber ==
  ASSUME NEW I, IsFiniteSet(I), NEW T, NEW h \in [I -> T],
         \A i, j \in I : h[i] = h[j] => i = j, \A x \in T : \E i \in I : h[i] = x
  PROVE  IsFiniteSet(T) /\ Cardinality(T) = Cardinality(I)
<1>1. h \in Bijection(I, T)
  BY DEF Bijection, Injection, Surjection, IsInjective
<1>2. ExistsBijection(I, T)
  BY <1>1 DEF ExistsBijection
<1>. QED  BY <1>2, FS_Bijection

\* A file has as many blocks as addresses, so that none is there twice.
LEMMA Counted ==
  ASSUME Good(Disk), NEW f \in File
  PROVE  Cardinality(BlocksOf(f)) =
           Cardinality({i \in 0..NDIRECT : addrs[f][i] # 0})
           + (IF addrs[f][NDIRECT] = 0 THEN 0
              ELSE Cardinality({i \in 1..NINDIRECT : block[addrs[f][NDIRECT]][i] # 0}))
<1>. DEFINE top == addrs[f][NDIRECT]
            I == {i \in 0..NDIRECT : addrs[f][i] # 0}
            A == {addrs[f][i] : i \in 0..NDIRECT} \ {0}
            J == {i \in 1..NINDIRECT : block[top][i] # 0}
            B == Indirect(f)
<1>1. ASSUME NEW i \in 0..NDIRECT PROVE i \in Slot /\ Ptr(Disk, f, i) = addrs[f][i]
  BY <1>1, Sizes, DiskIs DEF Slot, Ptr
<1>2. ASSUME NEW i \in 1..NINDIRECT, top # 0
      PROVE  NDIRECT + i \in Slot /\ NDIRECT + i \notin 0..NDIRECT /\ Ptr(Disk, f, NDIRECT + i) = block[top][i]
  BY <1>2, Sizes, DiskIs DEF Slot, Ptr
<1>3. IsFiniteSet(I) /\ IsFiniteSet(J)
  <2>1. IsFiniteSet(0..NDIRECT) /\ IsFiniteSet(1..NINDIRECT)
    BY Sizes, FS_Interval
  <2>2. I \in SUBSET (0..NDIRECT) /\ J \in SUBSET (1..NINDIRECT)
    OBVIOUS
  <2>. HIDE DEF I, J
  <2>. QED  BY <2>1, <2>2, FS_Subset
<1>4. IsFiniteSet(A) /\ Cardinality(A) = Cardinality(I)
  <2>. DEFINE h == [i \in I |-> addrs[f][i]]
  <2>1. h \in [I -> A] /\ \A x \in A : \E i \in I : h[i] = x
    OBVIOUS
  <2>2. ASSUME NEW i \in I, NEW j \in I, h[i] = h[j] PROVE i = j
    <3>1. i \in 0..NDIRECT /\ j \in 0..NDIRECT /\ addrs[f][i] # 0 /\ addrs[f][i] = addrs[f][j]
      BY <2>2
    <3>. QED  BY <1>1, <3>1 DEF Good
  <2>. HIDE DEF h, I, A
  <2>. QED  BY <1>3, <2>1, <2>2, SameNumber
<1>5. BlocksOf(f) = A \cup B
  BY DEF BlocksOf
<1>6. CASE top = 0
  <2>1. B = {}
    BY <1>6 DEF Indirect
  <2>2. Cardinality(A) \in Nat
    BY <1>4, FS_CardinalityType
  <2>. HIDE DEF A, B, I, J
  <2>. QED  BY <1>4, <1>5, <1>6, <2>1, <2>2 DEF I
<1>7. CASE top # 0
  <2>1. B = {block[top][i] : i \in 1..NINDIRECT} \ {0}
    BY <1>7 DEF Indirect
  <2>2. IsFiniteSet(B) /\ Cardinality(B) = Cardinality(J)
    <3>. DEFINE h == [i \in J |-> block[top][i]]
    <3>1. h \in [J -> B] /\ \A x \in B : \E i \in J : h[i] = x
      BY <2>1
    <3>2. ASSUME NEW i \in J, NEW j \in J, h[i] = h[j] PROVE i = j
      <4>1. i \in 1..NINDIRECT /\ j \in 1..NINDIRECT /\ block[top][i] # 0 /\ block[top][i] = block[top][j]
        BY <3>2
      <4>2. NDIRECT + i = NDIRECT + j
        BY <1>2, <1>7, <4>1 DEF Good
      <4>. QED  BY <4>1, <4>2, Sizes
    <3>. HIDE DEF h, J, B
    <3>. QED  BY <1>3, <3>1, <3>2, SameNumber
  <2>3. A \cap B = {}
    <3>1. ASSUME NEW i \in 0..NDIRECT, NEW j \in 1..NINDIRECT, addrs[f][i] # 0, addrs[f][i] = block[top][j] PROVE FALSE
      BY <1>1, <1>2, <1>7, <3>1 DEF Good
    <3>. QED  BY <2>1, <3>1
  <2>. HIDE DEF A, B, I, J
  <2>4. Cardinality(A) \in Nat /\ Cardinality(B) \in Nat
    BY <1>4, <2>2, FS_CardinalityType
  <2>5. Cardinality(A \cup B) = Cardinality(A) + Cardinality(B) - Cardinality(A \cap B)
    BY <1>4, <2>2, FS_Union
  <2>6. Cardinality(A \cap B) = 0
    BY <2>3, FS_EmptySet
  <2>. QED  BY <1>4, <1>5, <1>7, <2>2, <2>4, <2>5, <2>6 DEF I, J
<1>. QED  BY <1>6, <1>7

\* The blocks of a file are blocks.
LEMMA BlocksAre ==
  ASSUME Good(Disk), NEW f \in File
  PROVE  BlocksOf(f) \subseteq Block
<1>1. ASSUME NEW i \in 0..NDIRECT PROVE addrs[f][i] \in Block \cup {0}
  <2>1. i \in Slot /\ Ptr(Disk, f, i) = addrs[f][i]
    BY <1>1, Sizes, DiskIs DEF Slot, Ptr
  <2>. QED  BY <2>1 DEF Good
<1>2. ASSUME NEW i \in 1..NINDIRECT, addrs[f][NDIRECT] # 0 PROVE block[addrs[f][NDIRECT]][i] \in Block \cup {0}
  <2>1. NDIRECT + i \in Slot /\ Ptr(Disk, f, NDIRECT + i) = block[addrs[f][NDIRECT]][i]
    BY <1>2, Sizes, DiskIs DEF Slot, Ptr
  <2>. QED  BY <2>1 DEF Good
<1>3. Indirect(f) \subseteq Block
  BY <1>2 DEF Indirect
<1>. QED  BY <1>1, <1>3 DEF BlocksOf

\* Blocks that are apart are counted exactly by the bitmap.
LEMMA GoodExact == ASSUME Good(Disk) PROVE BlocksExact
<1>1. bitmap = UNION {BlocksOf(f) : f \in File}
  <2>1. bitmap \subseteq Block
    BY DEF Good, DiskType, Disk
  <2>2. ASSUME NEW b \in Block PROVE b \in bitmap <=> \E f \in File : b \in BlocksOf(f)
    BY <2>2, BlocksOfIs, DiskIs DEF Good
  <2>. QED  BY <2>1, <2>2, BlocksAre
<1>2. ASSUME NEW f \in File, NEW g \in File, f # g PROVE BlocksOf(f) \cap BlocksOf(g) = {}
  <2>1. ASSUME NEW b, b \in BlocksOf(f), b \in BlocksOf(g) PROVE FALSE
    <3>1. b \in Block /\ b # 0
      BY <2>1, BlocksAre, Sizes
    <3>2. PICK s \in Slot, t \in Slot : Ptr(Disk, f, s) = b /\ Ptr(Disk, g, t) = b
      BY <2>1, <3>1, BlocksOfIs
    <3>. QED  BY <1>2, <3>1, <3>2 DEF Good
  <2>. QED  BY <2>1
<1>. QED  BY <1>1, <1>2, Counted DEF BlocksExact

\* The bitmap has exactly the blocks of the files, and no block belongs to two
\* files or twice to one, while any number of processes write files, read them
\* and let them be truncated, also when one of them finds the disk full.
THEOREM Safety == DataSpec => []BlocksExact
<1>1. DataInv => BlocksExact
  BY GoodExact DEF DataInv
<1>. QED  BY <1>1, Invariance, PTL

-----------------------------------------------------------------------------
\* bmap() leads to the byte that the pointers lead to.
LEMMA ByteAtIs ==
  ASSUME NEW d, Good(d), NEW f \in File, NEW i \in Nat, i < Limit, Has(d, f, i)
  PROVE  ByteAt(d, f, i) = Byte(d, f, i) /\ Byte(d, f, i) \in Cell
<1>1. (i \div BSIZE) \in 0..(MAXFILE - 1) /\ SlotOf(i \div BSIZE) \in Slot
  BY OffsetBlock
<1>2. PICK bn \in 0..(MAXFILE - 1) : bn = i \div BSIZE
  BY <1>1
<1>3. PICK r : r = bmap(d, f, bn)
  OBVIOUS
<1>4. Mapped(r, d, f, bn)
  BY <1>3, BmapIs
<1>5. r.b = Ptr(d, f, SlotOf(bn)) /\ r.b \in Block
  BY <1>2, <1>4 DEF Mapped, Has
<1>6. PICK k \in 0..(BSIZE - 1) : k = (i % BSIZE) /\ BSIZE \in Nat \ {0}
  BY Sizes, Euclid
<1>7. d.block[r.b][k + 1] \in Cell
  BY <1>5, <1>6 DEF Good, DiskType
<1>8. ByteAt(d, f, i) = d.block[r.b][k + 1]
  BY <1>2, <1>3, <1>6 DEF ByteAt
<1>9. Byte(d, f, i) = d.block[r.b][k + 1]
  BY <1>2, <1>5, <1>6 DEF Byte
<1>. QED  BY <1>7, <1>8, <1>9

\* How long a file is, with what a write has put behind its end.
Longest(f, p) == IF job[p].off > size[f] THEN job[p].off ELSE size[f]
Lengths ==
  \A f \in File : /\ Grown(f) \in 0..Limit
                  /\ LockedBy(f) = {} => Grown(f) = size[f]
                  /\ \A p \in LockedBy(f) : Grown(f) = Longest(f, p)

\* What a file has in it.
Texts ==
  \A f \in File : /\ FileBytes[f] \in Seq(Cell) /\ Len(FileBytes[f]) = Grown(f)
                  /\ FileBytes[f] = [i \in 1..Grown(f) |-> Byte(Disk, f, i - 1)]
                  /\ \A i \in Nat : i < Grown(f) => i < Limit /\ Has(Disk, f, i)

\* The lengths, from the lock of the inode,
LEMMA LengthsAre == ASSUME DataInv PROVE Lengths
<1>. SUFFICES ASSUME NEW f \in File
              PROVE  /\ Grown(f) \in 0..Limit
                     /\ LockedBy(f) = {} => Grown(f) = size[f]
                     /\ \A p \in LockedBy(f) : Grown(f) = Longest(f, p)
  BY DEF Lengths
<1>. DEFINE ends == {size[f]} \cup {job[p].off : p \in LockedBy(f)}
<1>1. Grown(f) = CHOOSE x \in ends : \A y \in ends : y <= x
  BY DEF Grown
<1>2. size[f] \in 0..Limit /\ Limit \in Nat
  BY Limits DEF DataInv, DataTypes
<1>3. CASE LockedBy(f) = {}
  <2>1. ends = {size[f]}
    BY <1>3
  <2>. HIDE DEF ends
  <2>2. Grown(f) = size[f]
    BY <1>1, <1>2, <2>1
  <2>. QED  BY <1>2, <1>3, <2>2
<1>4. CASE LockedBy(f) # {}
  <2>1. PICK p \in Writer : p \in LockedBy(f)
    BY <1>4 DEF LockedBy
  <2>2. \A q \in LockedBy(f) : q = p
    BY <2>1 DEF LockedBy, DataInv, OneWriter
  <2>3. ends = {size[f], job[p].off}
    BY <2>1, <2>2
  <2>4. job[p].off \in 0..Limit
    <3>1. job[p].at = "block"
      BY <2>1 DEF LockedBy
    <3>. QED  BY <1>2, <3>1, OfOne DEF DataInv, JobFits
  <2>. HIDE DEF ends
  <2>5. Longest(f, p) \in ends /\ \A y \in ends : y <= Longest(f, p)
    BY <1>2, <2>3, <2>4 DEF Longest
  <2>6. \A x \in ends : x \in Nat
    BY <1>2, <2>3, <2>4
  <2>7. Grown(f) \in ends /\ \A y \in ends : y <= Grown(f)
    BY <1>1, <2>5
  <2>8. Grown(f) = Longest(f, p)
    BY <2>5, <2>6, <2>7
  <2>9. Longest(f, p) \in 0..Limit
    BY <1>2, <2>4 DEF Longest
  <2>. QED  BY <1>4, <2>2, <2>8, <2>9
<1>. QED  BY <1>3, <1>4

\* and the bytes: there is no hole for bmap() to fill while it reads.
LEMMA TextsAre == ASSUME DataInv PROVE Texts
<1>. SUFFICES ASSUME NEW f \in File
              PROVE  /\ FileBytes[f] \in Seq(Cell) /\ Len(FileBytes[f]) = Grown(f)
                     /\ FileBytes[f] = [i \in 1..Grown(f) |-> Byte(Disk, f, i - 1)]
                     /\ \A i \in Nat : i < Grown(f) => i < Limit /\ Has(Disk, f, i)
  BY DEF Texts
<1>1. PICK n \in 0..Limit : n = Grown(f)
  BY LengthsAre DEF Lengths
<1>2. n \in Nat /\ Limit \in Nat
  BY <1>1, Limits
<1>3. ASSUME NEW i \in Nat, i < n PROVE i < Limit /\ Has(Disk, f, i)
  <2>1. Reached(f, i)
    <3>1. CASE LockedBy(f) = {}
      BY <1>1, <1>3, <3>1, LengthsAre DEF Lengths, Reached
    <3>2. CASE LockedBy(f) # {}
      <4>1. PICK p \in Writer : p \in LockedBy(f) /\ job[p].at = "block" /\ fd[p].f = f
        BY <3>2 DEF LockedBy
      <4>2. n = Longest(f, p)
        BY <1>1, <4>1, LengthsAre DEF Lengths
      <4>3. i < job[p].off \/ i < size[f]
        BY <1>3, <4>2 DEF Longest
      <4>. QED  BY <4>1, <4>3 DEF Reached
    <3>. QED  BY <3>1, <3>2
  <2>. QED  BY <1>1, <1>2, <1>3, <2>1 DEF DataInv, Filled
<1>4. ASSUME NEW i \in 1..n PROVE ByteAt(Disk, f, i - 1) = Byte(Disk, f, i - 1) /\ Byte(Disk, f, i - 1) \in Cell
  <2>1. i - 1 \in Nat /\ i - 1 < n
    BY <1>2
  <2>2. i - 1 < Limit /\ Has(Disk, f, i - 1)
    BY <1>3, <2>1
  <2>. QED  BY <2>1, <2>2, ByteAtIs DEF DataInv
<1>. DEFINE s == [i \in 1..n |-> Byte(Disk, f, i - 1)]
<1>5. FileBytes[f] = s
  <2>1. FileBytes[f] = [i \in 1..n |-> ByteAt(Disk, f, 0 + i - 1)]
    BY <1>1 DEF FileBytes, Bytes
  <2>2. \A i \in 1..n : 0 + i - 1 = i - 1
    BY <1>2
  <2>. QED  BY <1>4, <2>1, <2>2
<1>6. s \in [1..n -> Cell]
  BY <1>4
<1>. HIDE DEF s
<1>7. s \in Seq(Cell) /\ Len(s) = n
  BY <1>2, <1>6
<1>. QED  BY <1>1, <1>3, <1>5, <1>7 DEF s

\* The same after a step.
LEMMA LengthsNext == DataInv' => Lengths'
BY LengthsAre, PTL
\* The same after a step.
LEMMA TextsNext == DataInv' => Texts'
BY TextsAre, PTL

\* Files of the same length with the same bytes.
LEMMA SameText ==
  ASSUME DataInv, DataInv', NEW f \in File, Grown(f)' = Grown(f),
         \A i \in Nat : i < Grown(f) => Byte(Disk', f, i) = Byte(Disk, f, i)
  PROVE  FileBytes'[f] = FileBytes[f]
<1>1. PICK n \in Nat : n = Grown(f)
  BY LengthsAre, Limits DEF Lengths
<1>2. FileBytes'[f] = [i \in 1..n |-> Byte(Disk', f, i - 1)] /\ FileBytes[f] = [i \in 1..n |-> Byte(Disk, f, i - 1)]
  BY <1>1, TextsAre, TextsNext DEF Texts
<1>3. ASSUME NEW i \in 1..n PROVE Byte(Disk', f, i - 1) = Byte(Disk, f, i - 1)
  <2>1. i - 1 \in Nat /\ i - 1 < n
    OBVIOUS
  <2>. QED  BY <1>1, <2>1
<1>. QED  BY <1>2, <1>3

\* A step that leaves the disk and the lengths leaves every file.
LEMMA SameTexts ==
  ASSUME DataInv, DataInv', UNCHANGED <<bitmap, block, addrs>>, \A f \in File : Grown(f)' = Grown(f)
  PROVE  FileBytes' = FileBytes
<1>1. Disk' = Disk
  BY DEF Disk
<1>2. \A f \in File : FileBytes'[f] = FileBytes[f]
  BY <1>1, SameText
<1>3. FileBytes = [f \in File |-> FileBytes[f]] /\ FileBytes' = [f \in File |-> FileBytes'[f]]
  BY DEF FileBytes
<1>. QED  BY <1>2, <1>3

\* The lengths depend on the sizes and on who is in the loop of writei().
LEMMA SameLengths ==
  ASSUME DataInv, DataInv', UNCHANGED size,
         \A q \in Writer : job'[q].at = "block" <=> job[q].at = "block",
         \A q \in Writer : job[q].at = "block" => job'[q].off = job[q].off /\ fd'[q].f = fd[q].f,
         NEW f \in File
  PROVE  Grown(f)' = Grown(f)
<1>1. LockedBy(f)' = LockedBy(f)
  BY DEF LockedBy
<1>2. CASE LockedBy(f) = {}
  BY <1>1, <1>2, LengthsAre, LengthsNext DEF Lengths
<1>3. CASE LockedBy(f) # {}
  <2>1. PICK p \in Writer : p \in LockedBy(f) /\ job[p].at = "block"
    BY <1>3 DEF LockedBy
  <2>2. Grown(f) = Longest(f, p)
    BY <2>1, LengthsAre DEF Lengths
  <2>3. Grown(f)' = Longest(f, p)'
    BY <1>1, <2>1, LengthsNext DEF Lengths
  <2>4. Longest(f, p)' = Longest(f, p)
    BY <2>1 DEF Longest
  <2>. QED  BY <2>2, <2>3, <2>4
<1>. QED  BY <1>2, <1>3

-----------------------------------------------------------------------------
\* A step of the files, or one that they do not see.
FileStep == Contents!Next \/ UNCHANGED <<FileBytes, got>>

\* A call that writes and reads nothing.
LEMMA ForgetStep ==
  ASSUME FileBytes' = FileBytes, got' = <<>>, NEW f \in File
  PROVE  FileStep
<1>1. Contents!Forget
  BY DEF Contents!Forget
<1>. QED  BY <1>1 DEF FileStep, Contents!Next

\* open() and the start of a write() change no file.
LEMMA CallRefines ==
  ASSUME DataInv, DataInv', NEW p \in Writer,
         (\E n \in WriteLens : WriteStart(p, n)) \/ \E f \in File : Reopen(p, f)
  PROVE  FileStep
<1>1. /\ UNCHANGED <<bitmap, block, addrs, size>> /\ got' = <<>> /\ job[p].at = "no"
      /\ job'[p].at # "block"
      /\ \A q \in Writer : q # p => job'[q] = job[q] /\ fd'[q] = fd[q]
  BY DEF WriteStart, Reopen, Call, DataInv, DataTypes
<1>2. \A f \in File : Grown(f)' = Grown(f)
  BY <1>1, SameLengths
<1>3. fd[p].f \in File
  BY OfOne DEF DataInv
<1>. QED  BY <1>1, <1>2, <1>3, SameTexts, ForgetStep

\* A file that p does not write keeps its length in a step of p.
LEMMA OtherLength ==
  ASSUME DataInv, DataInv', NEW p \in Writer, NEW g \in File, fd[p].f # g,
         size'[g] = size[g],
         \A q \in Writer : fd'[q].f = fd[q].f,
         \A q \in Writer : q # p => job'[q] = job[q]
  PROVE  Grown(g)' = Grown(g)
<1>1. LockedBy(g)' = LockedBy(g) /\ p \notin LockedBy(g)
  BY DEF LockedBy
<1>2. CASE LockedBy(g) = {}
  BY <1>1, <1>2, LengthsAre, LengthsNext DEF Lengths
<1>3. CASE LockedBy(g) # {}
  <2>1. PICK q \in Writer : q \in LockedBy(g) /\ q # p
    BY <1>1, <1>3 DEF LockedBy
  <2>2. Grown(g) = Longest(g, q)
    BY <2>1, LengthsAre DEF Lengths
  <2>3. Grown(g)' = Longest(g, q)'
    BY <1>1, <2>1, LengthsNext DEF Lengths
  <2>4. Longest(g, q)' = Longest(g, q)
    BY <2>1 DEF Longest
  <2>. QED  BY <2>2, <2>3, <2>4
<1>. QED  BY <1>2, <1>3

\* The tests of writei() change no file: a write starts inside it.
LEMMA writeiRefines ==
  ASSUME DataInv, DataInv', NEW p \in Writer, writei(p)
  PROVE  FileStep
<1>. DEFINE f == fd[p].f
            n == IF job[p].left > MaxOp THEN MaxOp ELSE job[p].left
<1>1. /\ job[p].at = "begin" /\ LockedBy(f) = {} /\ UNCHANGED <<bitmap, block, addrs, size, fd, got>>
      /\ \/ job' = [job EXCEPT ![p] = NoJob]
         \/ /\ ~TooFar(f, fd[p].off, n)
            /\ job' = [job EXCEPT ![p].at = "block", ![p].n1 = n, ![p].off = fd[p].off]
  BY DEF writei
<1>. HIDE DEF n
<1>2. \A q \in Writer : q # p => job'[q] = job[q]
  BY <1>1 DEF DataInv, DataTypes
<1>3. CASE job'[p].at # "block"
  <2>1. \A g \in File : Grown(g)' = Grown(g)
    BY <1>1, <1>2, <1>3, SameLengths
  <2>. QED  BY <1>1, <2>1, SameTexts DEF FileStep
<1>4. CASE job'[p].at = "block"
  <2>1. ~TooFar(f, fd[p].off, n) /\ job'[p].off = fd[p].off
    <3>1. job' # [job EXCEPT ![p] = NoJob]
      BY <1>4 DEF NoJob, DataInv, DataTypes
    <3>. QED  BY <1>1, <3>1 DEF DataInv, DataTypes, Job
  <2>2. fd[p].off <= size[f] /\ size[f] \in Nat /\ fd[p].off \in Nat
    BY <2>1, OfOne, Limits DEF DataInv, DataTypes, TooFar
  <2>3. ASSUME NEW g \in File PROVE Grown(g)' = Grown(g)
    <3>1. CASE g = f
      <4>1. p \in LockedBy(g)'
        BY <1>1, <1>4, <3>1 DEF LockedBy
      <4>2. Grown(g)' = Longest(g, p)'
        BY <4>1, LengthsNext DEF Lengths
      <4>3. Longest(g, p)' = size[g]
        BY <1>1, <2>1, <2>2, <3>1 DEF Longest
      <4>4. Grown(g) = size[g]
        BY <1>1, <3>1, LengthsAre DEF Lengths
      <4>. QED  BY <4>2, <4>3, <4>4
    <3>2. CASE g # f
      BY <1>1, <1>2, <3>2, OtherLength
    <3>. QED  BY <3>1, <3>2
  <2>. QED  BY <1>1, <2>3, SameTexts DEF FileStep
<1>. QED  BY <1>3, <1>4

\* The end of writei() changes no file: what it takes into the size is there.
LEMMA WriteEndRefines ==
  ASSUME DataInv, DataInv', NEW p \in Writer, WriteEnd(p)
  PROVE  FileStep
<1>. DEFINE f == fd[p].f
            off == job[p].off
            j == IF job[p].left = 0 THEN NoJob ELSE [NoJob EXCEPT !.at = "begin", !.left = job[p].left]
<1>1. /\ job[p].at = "block" /\ UNCHANGED <<bitmap, block, addrs, got>>
      /\ size' = [size EXCEPT ![f] = GrownTo(f, off)]
      /\ fd' = [fd EXCEPT ![p].off = off]
      /\ job' = [job EXCEPT ![p] = j]
  BY DEF WriteEnd
<1>2. j.at # "block"
  BY DEF NoJob
<1>. HIDE DEF j
<1>3. /\ \A q \in Writer : fd'[q].f = fd[q].f
      /\ \A q \in Writer : q # p => job'[q] = job[q]
      /\ job'[p].at # "block" /\ f \in File
      /\ \A g \in File : size'[g] = IF g = f THEN GrownTo(f, off) ELSE size[g]
  BY <1>1, <1>2 DEF DataInv, DataTypes
<1>4. ASSUME NEW g \in File PROVE Grown(g)' = Grown(g)
  <2>1. CASE g # f
    BY <1>3, <2>1, OtherLength
  <2>2. CASE g = f
    <3>1. p \in LockedBy(f) /\ \A q \in LockedBy(f) : q = p
      BY <1>1 DEF LockedBy, DataInv, OneWriter
    <3>2. LockedBy(f)' = {}
      BY <1>3, <3>1 DEF LockedBy
    <3>3. Grown(f) = Longest(f, p) /\ Grown(f)' = size'[f]
      BY <1>3, <3>1, <3>2, LengthsAre, LengthsNext DEF Lengths
    <3>. QED  BY <1>3, <2>2, <3>3 DEF Longest, GrownTo
  <2>. QED  BY <2>1, <2>2
<1>. QED  BY <1>1, <1>4, SameTexts DEF FileStep

\* itrunc() empties one file and leaves the others.
LEMMA itruncRefines ==
  ASSUME DataInv, DataInv', NEW f \in File, itrunc(f)
  PROVE  FileStep
<1>1. /\ \A p \in Writer : fd[p].f # f
      /\ addrs' = [addrs EXCEPT ![f] = NoAddrs] /\ size' = [size EXCEPT ![f] = 0]
      /\ UNCHANGED <<block, fd, job>> /\ got' = <<>>
  BY DEF itrunc
<1>2. \A g \in File : LockedBy(g)' = LockedBy(g)
  BY <1>1 DEF LockedBy
<1>3. \A g \in File : size'[g] = IF g = f THEN 0 ELSE size[g]
  BY <1>1 DEF DataInv, DataTypes
<1>4. FileBytes'[f] = <<>>
  <2>1. LockedBy(f)' = {}
    BY <1>1, <1>2 DEF LockedBy
  <2>2. Grown(f)' = 0
    BY <1>3, <2>1, LengthsNext DEF Lengths
  <2>3. FileBytes'[f] \in Seq(Cell) /\ Len(FileBytes'[f]) = 0
    BY <2>2, TextsNext DEF Texts
  <2>. QED  BY <2>3, EmptySeq
<1>5. ASSUME NEW g \in File, g # f PROVE FileBytes'[g] = FileBytes[g]
  <2>1. Grown(g)' = Grown(g)
    <3>1. CASE LockedBy(g) = {}
      BY <1>2, <1>3, <1>5, <3>1, LengthsAre, LengthsNext DEF Lengths
    <3>2. CASE LockedBy(g) # {}
      <4>1. PICK p \in Writer : p \in LockedBy(g)
        BY <3>2 DEF LockedBy
      <4>2. Grown(g) = Longest(g, p)
        BY <4>1, LengthsAre DEF Lengths
      <4>3. Grown(g)' = Longest(g, p)'
        BY <1>2, <4>1, LengthsNext DEF Lengths
      <4>4. Longest(g, p)' = Longest(g, p)
        BY <1>1, <1>3, <1>5 DEF Longest
      <4>. QED  BY <4>2, <4>3, <4>4
    <3>. QED  BY <3>1, <3>2
  <2>2. Disk'.addrs[g] = Disk.addrs[g] /\ Disk'.block = Disk.block
    <3>1. addrs'[g] = addrs[g]
      BY <1>1, <1>5 DEF DataInv, Good, DiskType, Disk
    <3>. QED  BY <1>1, <3>1 DEF Disk
  <2>3. ASSUME NEW i \in Nat PROVE Byte(Disk', g, i) = Byte(Disk, g, i)
    BY <2>2 DEF Byte, Ptr
  <2>. QED  BY <2>1, <2>3, SameText
<1>6. FileBytes' = [FileBytes EXCEPT ![f] = <<>>]
  <2>1. FileBytes = [g \in File |-> FileBytes[g]] /\ FileBytes' = [g \in File |-> FileBytes'[g]]
    BY DEF FileBytes
  <2>. QED  BY <1>4, <1>5, <2>1
<1>7. Contents!Truncate(f)
  BY <1>1, <1>6 DEF Contents!Truncate
<1>. QED  BY <1>7 DEF FileStep, Contents!Next

\* readi() returns the bytes at the offset, as far as the file goes.
LEMMA readiRefines ==
  ASSUME DataInv, DataInv', NEW p \in Writer, NEW n \in ReadLens, readi(p, n)
  PROVE  FileStep
<1>. DEFINE f == fd[p].f
            off == fd[p].off
            m == IF off + n > size[f] THEN size[f] - off ELSE n
<1>1. /\ job[p].at = "no" /\ LockedBy(f) = {} /\ UNCHANGED <<bitmap, block, addrs, size, job>>
      /\ \/ got' = <<>> /\ fd' = fd
         \/ /\ off <= size[f] /\ got' = Bytes(Disk, f, off, m)
            /\ fd' = [fd EXCEPT ![p].off = off + m]
  BY DEF readi, Call
<1>2. f \in File /\ off \in Nat /\ size[f] \in Nat /\ n \in Nat
  BY OfOne, DataAssumption, Limits DEF DataInv, DataTypes
<1>3. \A q \in Writer : fd'[q].f = fd[q].f
  <2>1. fd \in [Writer -> [f : File, off : 0..Limit]]
    BY DEF DataInv, DataTypes
  <2>. HIDE DEF m, off
  <2>. QED  BY <1>1, <2>1
<1>4. FileBytes' = FileBytes
  <2>1. \A g \in File : Grown(g)' = Grown(g)
    BY <1>1, <1>3, SameLengths
  <2>. QED  BY <1>1, <2>1, SameTexts
<1>5. CASE got' = <<>>
  BY <1>2, <1>4, <1>5, ForgetStep
<1>6. CASE off <= size[f] /\ got' = Bytes(Disk, f, off, m)
  <2>1. m \in Nat /\ off + m <= size[f]
    BY <1>2, <1>6
  <2>. DEFINE s == FileBytes[f]
  <2>2. /\ s \in Seq(Cell) /\ Len(s) = size[f] /\ s = [i \in 1..size[f] |-> Byte(Disk, f, i - 1)]
        /\ \A i \in Nat : i < size[f] => i < Limit /\ Has(Disk, f, i)
    <3>1. Grown(f) = size[f]
      BY <1>1, <1>2, LengthsAre DEF Lengths
    <3>. QED  BY <1>2, <3>1, TextsAre DEF Texts
  <2>. HIDE DEF s, m, f, off
  <2>. DEFINE t == SubSeq(s, off + 1, off + m)
              u == Bytes(Disk, f, off, m)
  <2>3. t \in Seq(Cell) /\ Len(t) = m /\ \A i \in 1..m : t[i] = s[off + i]
    <3>1. \A i \in (off + 1)..(off + m) : s[i] \in Cell
      BY <1>2, <2>1, <2>2
    <3>2. off + 1 \in Int /\ off + m \in Int
      BY <1>2, <2>1
    <3>3. /\ t \in Seq(Cell)
          /\ Len(t) = IF off + 1 <= off + m THEN (off + m) - (off + 1) + 1 ELSE 0
          /\ \A i \in 1..((off + m) - (off + 1) + 1) : t[i] = s[(off + 1) + i - 1]
      BY <3>1, <3>2, SubSeqProperties
    <3>. HIDE DEF t
    <3>4. (off + m) - (off + 1) + 1 = m /\ (off + 1 <= off + m <=> m >= 1)
      BY <1>2, <2>1
    <3>5. \A i \in 1..m : (off + 1) + i - 1 = off + i
      BY <1>2, <2>1
    <3>. QED  BY <2>1, <3>3, <3>4, <3>5
  <2>4. ASSUME NEW i \in 1..m PROVE u[i] = s[off + i] /\ u[i] \in Cell
    <3>1. off + i \in 1..size[f] /\ off + i - 1 \in Nat /\ off + i - 1 < size[f]
      BY <1>2, <2>1
    <3>2. u[i] = ByteAt(Disk, f, off + i - 1)
      BY DEF Bytes
    <3>3. ByteAt(Disk, f, off + i - 1) = Byte(Disk, f, off + i - 1) /\ Byte(Disk, f, off + i - 1) \in Cell
      BY <1>2, <2>2, <3>1, ByteAtIs DEF DataInv
    <3>4. s[off + i] = Byte(Disk, f, off + i - 1)
      <4>1. PICK k \in 1..size[f] : k = off + i
        BY <3>1
      <4>2. s[k] = Byte(Disk, f, k - 1)
        BY <2>2
      <4>3. k - 1 = off + i - 1
        BY <1>2, <2>1, <4>1
      <4>. QED  BY <4>1, <4>2, <4>3
    <3>. QED  BY <3>2, <3>3, <3>4
  <2>5. u \in Seq(Cell) /\ Len(u) = m
    <3>1. u = [i \in 1..m |-> u[i]]
      BY DEF Bytes
    <3>2. u \in [1..m -> Cell]
      BY <2>4, <3>1
    <3>. HIDE DEF u
    <3>. QED  BY <2>1, <3>2
  <2>. HIDE DEF t, u
  <2>6. u = t
    BY <2>3, <2>4, <2>5, SeqEqual
  <2>7. off \in 0..Len(s) /\ m \in 0..Len(s) /\ ~(off + m > Len(s))
    BY <1>2, <1>6, <2>1, <2>2
  <2>8. Contents!Read(f, off, m)
    BY <1>4, <1>6, <2>6, <2>7 DEF Contents!Read, s, t, u
  <2>. QED  BY <1>2, <2>7, <2>8 DEF FileStep, Contents!Next, s
<1>. QED  BY <1>1, <1>5, <1>6

\* A round of the loop of writei() is a piece of the sequence.
LEMMA WriteBlockRefines ==
  ASSUME DataInv, DataInv', NEW p \in Writer, WriteBlock(p)
  PROVE  FileStep
<1>0. PICK f \in File, off \in Nat : f = fd[p].f /\ off = job[p].off
  BY OfOne DEF DataInv
<1>1. /\ job[p].at = "block" /\ job[p].n1 > 0 /\ UNCHANGED <<size, fd>> /\ got' = <<>>
      /\ \/ job' = job /\ Put(Disk', Disk, p, f, off, 0)
         \/ Advances(p) /\ Put(Disk', Disk, p, f, off, PieceLen(p))
  BY <1>0, WriteBlockIs
<1>2. f \in File /\ off \in Nat /\ size[f] \in Nat
  BY Limits DEF DataInv, DataTypes
<1>3. p \in LockedBy(f) /\ p \in LockedBy(f)'
  BY <1>0, <1>1 DEF LockedBy, Advances
<1>4. Grown(f) = Longest(f, p) /\ Grown(f)' = Longest(f, p)'
  BY <1>2, <1>3, LengthsAre, LengthsNext DEF Lengths
<1>5. FileBytes = [g \in File |-> FileBytes[g]] /\ FileBytes' = [g \in File |-> FileBytes'[g]]
  BY DEF FileBytes
<1>6. CASE job' = job /\ Put(Disk', Disk, p, f, off, 0)
  <2>1. ASSUME NEW g \in File PROVE FileBytes'[g] = FileBytes[g]
    <3>1. Grown(g)' = Grown(g)
      BY <1>1, <1>6, SameLengths
    <3>2. ASSUME NEW i \in Nat, i < Grown(g) PROVE Byte(Disk', g, i) = Byte(Disk, g, i)
      <4>1. i < Limit /\ Has(Disk, g, i)
        BY <3>2, TextsAre DEF Texts
      <4>2. ~(off <= i /\ i < off + 0)
        BY <1>2
      <4>. QED  BY <1>6, <4>1, <4>2 DEF Put
    <3>. QED  BY <3>1, <3>2, SameText
  <2>. QED  BY <1>1, <1>2, <1>5, <2>1, ForgetStep
<1>7. CASE Advances(p) /\ Put(Disk', Disk, p, f, off, PieceLen(p))
  <2>1. PICK m \in 1..BSIZE : m = PieceLen(p) /\ job'[p].off = off + m
    BY <1>0, <1>7 DEF Advances
  <2>2. m \in Nat
    BY Sizes
  <2>3. ASSUME NEW g \in File, g # f PROVE FileBytes'[g] = FileBytes[g]
    <3>1. Grown(g)' = Grown(g)
      BY <1>0, <1>1, <1>7, <2>3, OtherLength DEF Advances
    <3>2. ASSUME NEW i \in Nat, i < Grown(g) PROVE Byte(Disk', g, i) = Byte(Disk, g, i)
      <4>1. i < Limit /\ Has(Disk, g, i)
        BY <3>2, TextsAre DEF Texts
      <4>. QED  BY <1>7, <2>3, <4>1 DEF Put
    <3>. QED  BY <3>1, <3>2, SameText
  <2>. DEFINE c == FileBytes[f]
              len == IF off + m > Len(c) THEN off + m ELSE Len(c)
  <2>4. Len(c) = Grown(f) /\ c = [i \in 1..Grown(f) |-> Byte(Disk, f, i - 1)]
    BY <1>2, TextsAre DEF Texts
  <2>5. Grown(f)' = len /\ off <= Len(c) /\ len \in Nat /\ Grown(f) \in Nat
    BY <1>0, <1>1, <1>2, <1>4, <2>1, <2>2, <2>4 DEF Longest
  <2>6. FileBytes'[f] = [i \in 1..len |-> Byte(Disk', f, i - 1)]
    BY <1>2, <2>5, TextsNext DEF Texts
  <2>. HIDE DEF c
  <2>7. ASSUME NEW i \in 1..len
        PROVE  Byte(Disk', f, i - 1) = IF i > off /\ i <= off + m THEN p ELSE c[i]
    <3>1. i - 1 \in Nat /\ (i > off /\ i <= off + m <=> off <= i - 1 /\ i - 1 < off + m)
      BY <1>2, <2>2, <2>5
    <3>2. CASE i > off /\ i <= off + m
      BY <1>7, <2>1, <3>1, <3>2 DEF Put
    <3>3. CASE ~(i > off /\ i <= off + m)
      <4>1. i \in 1..Grown(f) /\ i - 1 < Grown(f)
        BY <1>2, <2>2, <2>4, <2>5, <3>3
      <4>2. i - 1 < Limit /\ Has(Disk, f, i - 1)
        BY <1>2, <3>1, <4>1, TextsAre DEF Texts
      <4>3. Byte(Disk', f, i - 1) = Byte(Disk, f, i - 1)
        BY <1>2, <1>7, <2>1, <3>1, <3>3, <4>2 DEF Put
      <4>4. c[i] = Byte(Disk, f, i - 1)
        BY <2>4, <4>1
      <4>. QED  BY <3>3, <4>3, <4>4
    <3>. QED  BY <3>2, <3>3
  <2>8. FileBytes'[f] = Contents!Overlaid(c, off, m, p)
    BY <2>6, <2>7 DEF Contents!Overlaid
  <2>. HIDE DEF len
  <2>9. FileBytes' = [FileBytes EXCEPT ![f] = Contents!Overlaid(FileBytes[f], off, m, p)]
    BY <1>2, <1>5, <2>3, <2>8 DEF c
  <2>10. Contents!WritePiece(f, off, m, p)
    BY <1>1, <2>5, <2>9 DEF Contents!WritePiece, c
  <2>11. off \in 0..Len(FileBytes[f])
    BY <1>2, <2>4, <2>5 DEF c
  <2>. QED  BY <1>2, <2>10, <2>11 DEF FileStep, Contents!Next
<1>. QED  BY <1>1, <1>6, <1>7

\* The blocks that bmap() finds, direct and indirect, are one sequence of bytes
\* for each file: every round of writei() puts its bytes at its offset and
\* nowhere else, a new block shows no old bytes, and readi() returns what is
\* there, for any number of processes and files, and any geometry of the disk.
THEOREM OneSequence == DataSpec => ImplementsByteFile
<1>1. DataInit => Contents!Init
  <2>. SUFFICES ASSUME DataInit PROVE Contents!Init
    OBVIOUS
  <2>1. ASSUME NEW f \in File PROVE FileBytes[f] = <<>>
    <3>1. LockedBy(f) = {} /\ size[f] = 0
      BY DEF DataInit, LockedBy, NoJob
    <3>2. Grown(f) = 0
      BY <3>1, InitInv, LengthsAre DEF Lengths
    <3>3. FileBytes[f] \in Seq(Cell) /\ Len(FileBytes[f]) = 0
      BY <3>2, InitInv, TextsAre DEF Texts
    <3>. QED  BY <3>3, EmptySeq
  <2>2. FileBytes = [f \in File |-> FileBytes[f]]
    BY DEF FileBytes
  <2>3. FileBytes = [f \in File |-> <<>>]
    BY <2>1, <2>2
  <2>. QED  BY <2>3 DEF DataInit, Contents!Init
<1>2. DataInv /\ DataInv' /\ [DataNext]_dataVars => [UNCHANGED dataVars \/ Contents!Next]_(Contents!vars)
  <2>. SUFFICES ASSUME DataInv, DataInv', DataNext PROVE FileStep
    BY DEF FileStep, Contents!vars
  <2>. QED  BY CallRefines, readiRefines, writeiRefines, WriteBlockRefines, WriteEndRefines, itruncRefines DEF DataNext
<1>. QED  BY <1>1, <1>2, Invariance, PTL DEF DataSpec, ImplementsByteFile
=============================================================================
