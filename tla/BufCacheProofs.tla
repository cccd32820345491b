--------------------------- MODULE BufCacheProofs ---------------------------
(***************************************************************************)
(* Proofs about BufCache, for any number of processes, blocks and buffers: *)
(* the lists and queues of the cache and the disk driver are exact, nobody *)
(* is left asleep, and with a disk that does not fail the cache implements *)
(* a store of blocks with one user at a time.                              *)
(***************************************************************************)
EXTENDS BufCache, FiniteSetTheorems, WellFoundedInduction, TLAPS

\* The processes that have the sleep lock of their buffer, those that wait for
\* the disk, or have been woken up early, and those that use a buffer.
Holding(p) == at[p] \in {"locked", "read", "rsleep", "rwoken", "have", "write", "wsleep", "wwoken"}
Waiting(p) == at[p] \in {"rsleep", "rwoken", "wsleep", "wwoken"}
Users(x) == {p \in Proc : use[p] = x}

\* A process has a buffer from bget() to the end of brelse(), and it is the one
\* of its block until releasesleep(): refcnt keeps it from being recycled.
Pointers ==
  /\ \A p \in Proc : /\ at[p] = "idle" <=> use[p] = 0
                     /\ at[p] \in {"idle", "release"} <=> want[p] = NoBlock
                     /\ at[p] \notin {"idle", "release"} => blockno[use[p]] = want[p]
  /\ \A x \in Buf : refcnt[x] = Cardinality(Users(x))

\* One buffer for each block.
OneBuffer == \A x, y \in Buf : blockno[x] = blockno[y] /\ blockno[x] # NoBlock => x = y

\* The sleep locks.
Locks ==
  /\ \A p \in Proc : Holding(p) => holder[use[p]] = p
  /\ \A x \in Buf : holder[x] # NoProc => Holding(holder[x]) /\ use[holder[x]] = x

\* The list behind bcache.head has every buffer.
Listed == \A x \in Buf : \E i \in Buf : lru[i] = x

\* Whoever waits for the disk has a request in the queue as long as it is not
\* done, and only the locked buffers of those who wait are there.
InQueue(x) == \E i \in 1..Len(idequeue) : idequeue[i] = x
Queued == \A p \in Proc : Waiting(p) /\ Pending(use[p]) => InQueue(use[p])
Asleep == \A p \in Proc : at[p] \in {"rsleep", "wsleep"} => Pending(use[p])
NoTwice == \A i, j \in 1..Len(idequeue) : idequeue[i] = idequeue[j] => i = j
Served == \A x \in Buf : InQueue(x) => Pending(x) /\ holder[x] # NoProc /\ Waiting(holder[x])
Queue == Queued /\ Asleep /\ NoTwice /\ Served

\* A buffer is dirty only with contents, and whoever uses a buffer has read it.
Flags ==
  /\ \A x \in Buf : dirty[x] => valid[x] /\ data[x] \in Val
  /\ \A x \in Buf : valid[x] => blockno[x] \in Block
  /\ \A p \in Proc : at[p] \in {"have", "write", "wsleep", "wwoken"} => valid[use[p]]
  /\ \A p \in Proc : at[p] = "read" => ~valid[use[p]]
  /\ \A p \in Proc : at[p] = "write" => dirty[use[p]]

\* The inductive invariant.
IInv == TypeOK /\ Pointers /\ OneBuffer /\ Locks /\ Listed /\ Queue /\ Flags /\ LockersWoken

\* With a disk that does not fail, a clean buffer has what the disk has.
Fresh == \A x \in Buf : valid[x] /\ ~dirty[x] => data[x] = disk[blockno[x]]

-----------------------------------------------------------------------------
\* A nonempty set of buffer positions has a last one.
LEMMA LastExists ==
  ASSUME NEW S \in SUBSET Buf, S # {}
  PROVE  \E i \in S : \A j \in S : j <= i
<1>. DEFINE T == {NBUF - i : i \in S}
<1>1. T \subseteq Nat /\ T # {}
  BY CacheAssumption DEF Buf
<1>2. \E m \in T : \A n \in T : ~(<<n, m>> \in OpToRel(<, Nat))
  <2>. HIDE DEF T
  <2>. QED  BY <1>1, NatLessThanWellFounded, WFMin
<1>3. PICK m \in T : \A n \in T : ~(n < m)
  BY <1>1, <1>2 DEF OpToRel
<1>4. PICK i \in S : m = NBUF - i
  OBVIOUS
<1>5. ASSUME NEW j \in S PROVE j <= i
  <2>1. NBUF - j \in T
    OBVIOUS
  <2>2. ~(NBUF - j < NBUF - i)
    BY <1>3, <1>4, <2>1
  <2>. QED  BY <2>2, CacheAssumption DEF Buf
<1>. QED  BY <1>4, <1>5

\* bget() recycles a free buffer if there is one.
LEMMA RecycledFree ==
  ASSUME TypeOK, Listed, NEW x \in Buf, Free(x)
  PROVE  Recycled \in Buf /\ Free(Recycled)
<1>. DEFINE S == {i \in Buf : Free(lru[i])}
            Last(i) == Free(lru[i]) /\ \A j \in (i + 1)..NBUF : ~Free(lru[j])
<1>1. S # {}
  BY DEF Listed
<1>2. PICK i \in S : \A j \in S : j <= i
  BY <1>1, LastExists
<1>3. \E k \in 1..NBUF : Last(k)
  <2>1. ASSUME NEW j \in (i + 1)..NBUF PROVE ~Free(lru[j])
    <3>1. j \in Buf /\ ~(j <= i)
      BY CacheAssumption DEF Buf
    <3>. QED  BY <1>2, <3>1
  <2>. QED  BY <2>1 DEF Buf
<1>. DEFINE k == CHOOSE k \in 1..NBUF : Last(k)
<1>4. k \in 1..NBUF /\ Free(lru[k])
  BY <1>3
<1>5. Recycled = lru[k]
  BY DEF Recycled
<1>. QED  BY <1>4, <1>5 DEF TypeOK, Buf

\* Moving a buffer to the front keeps all of them in the list.
LEMMA FrontListed ==
  ASSUME TypeOK, Listed, NEW x \in Buf
  PROVE  ToFront(x) \in [Buf -> Buf] /\ \A y \in Buf : \E i \in Buf : ToFront(x)[i] = y
<1>. DEFINE k == CHOOSE k \in Buf : lru[k] = x
<1>1. k \in Buf /\ lru[k] = x
  BY DEF Listed
<1>2. ToFront(x) = [i \in Buf |-> IF i = 1 THEN x ELSE IF i <= k THEN lru[i - 1] ELSE lru[i]]
  BY DEF ToFront
<1>. HIDE DEF k
<1>3. ToFront(x) \in [Buf -> Buf]
  <2>1. ASSUME NEW i \in Buf PROVE ToFront(x)[i] \in Buf
    <3>1. CASE i = 1
      BY <1>2, <3>1
    <3>2. CASE i # 1 /\ i <= k
      <4>1. i - 1 \in Buf
        BY <1>1, <3>2, CacheAssumption DEF Buf
      <4>. QED  BY <1>2, <3>2, <4>1 DEF TypeOK
    <3>3. CASE i # 1 /\ ~(i <= k)
      BY <1>2, <3>3 DEF TypeOK
    <3>. QED  BY <3>1, <3>2, <3>3
  <2>. QED  BY <1>2, <2>1
<1>4. ASSUME NEW y \in Buf PROVE \E i \in Buf : ToFront(x)[i] = y
  <2>1. PICK j \in Buf : lru[j] = y
    BY DEF Listed
  <2>2. CASE j = k
    BY <1>1, <1>2, <2>1, <2>2, CacheAssumption DEF Buf
  <2>3. CASE j < k
    <3>1. j + 1 \in Buf /\ j + 1 # 1 /\ j + 1 <= k /\ (j + 1) - 1 = j
      BY <1>1, <2>3, CacheAssumption DEF Buf
    <3>2. ToFront(x)[j + 1] = y
      BY <1>2, <2>1, <3>1
    <3>. QED  BY <3>1, <3>2
  <2>4. CASE j > k
    <3>1. j # 1 /\ ~(j <= k)
      BY <1>1, <2>4, CacheAssumption DEF Buf
    <3>2. ToFront(x)[j] = y
      BY <1>2, <2>1, <3>1
    <3>. QED  BY <3>2
  <2>. QED  BY <1>1, <2>2, <2>3, <2>4, CacheAssumption DEF Buf
<1>. QED  BY <1>3, <1>4

\* A process that is not idle has a buffer, and an idle one has none.
LEMMA HasBuffer ==
  ASSUME TypeOK, Pointers, NEW p \in Proc
  PROVE  /\ at[p] # "idle" => use[p] \in Buf
         /\ at[p] = "idle" => \A x \in Buf : p \notin Users(x)
<1>1. use[p] \in 0..NBUF /\ (at[p] = "idle" <=> use[p] = 0)
  BY DEF TypeOK, Pointers
<1>2. use[p] # 0 => use[p] \in Buf
  BY <1>1, CacheAssumption DEF Buf
<1>3. 0 \notin Buf
  BY CacheAssumption DEF Buf
<1>. QED  BY <1>1, <1>2, <1>3 DEF Users

\* A buffer in the queue of the disk is locked by a process that waits for it,
\* and has a block.
LEMMA ServedBlock ==
  ASSUME IInv, NEW x \in Buf, InQueue(x)
  PROVE  /\ Pending(x) /\ holder[x] \in Proc /\ Waiting(holder[x]) /\ use[holder[x]] = x
         /\ blockno[x] \in Block
<1>1. Pending(x) /\ holder[x] \in Proc /\ Waiting(holder[x]) /\ use[holder[x]] = x
  BY DEF IInv, Queue, Served, Locks, TypeOK
<1>2. PICK h \in Proc : h = holder[x]
  BY <1>1
<1>3. at[h] \notin {"idle", "release"} /\ use[h] = x
  BY <1>1, <1>2 DEF Waiting
<1>4. blockno[x] \in Block
  BY <1>3 DEF IInv, Pointers, TypeOK
<1>. QED  BY <1>1, <1>4

\* The users of a buffer are finitely many; a buffer without a reference has none.
LEMMA UsersFinite ==
  ASSUME NEW x
  PROVE  IsFiniteSet(Users(x)) /\ Cardinality(Users(x)) \in Nat
         /\ (Cardinality(Users(x)) = 0 <=> Users(x) = {})
<1>1. Users(x) \in SUBSET Proc
  BY DEF Users
<1>. QED  BY <1>1, CacheAssumption, FS_Subset, FS_CardinalityType, FS_EmptySet

-----------------------------------------------------------------------------
\* bget() finds the block: its buffer gets one more user.
LEMMA BgetHitInv ==
  ASSUME IInv, NEW p \in Proc, NEW b \in Block, BgetHit(p, b)
  PROVE  IInv'
<1>. USE DEF IInv, BgetHit, Referenced, Cached, Goes, bufVars
<1>0. PICK x \in Buf : /\ blockno[x] = b /\ refcnt' = [refcnt EXCEPT ![x] = @ + 1]
                       /\ use' = [use EXCEPT ![p] = x]
  OBVIOUS
<1>a. x \in 0..NBUF /\ x # 0 /\ b # NoBlock
  BY CacheAssumption DEF Buf
<1>1. TypeOK'
  BY <1>0, <1>a DEF TypeOK, Place
<1>2. Pointers'
  <2>1. ASSUME NEW y \in Buf PROVE refcnt'[y] = Cardinality(Users(y)')
    <3>1. CASE y = x
      <4>1. Users(x)' = Users(x) \cup {p} /\ p \notin Users(x)
        BY <1>0, HasBuffer DEF Users, TypeOK
      <4>2. Cardinality(Users(x)') = Cardinality(Users(x)) + 1
        BY <4>1, UsersFinite, FS_AddElement
      <4>. QED  BY <1>0, <3>1, <4>2 DEF Pointers, TypeOK
    <3>2. CASE y # x
      <4>1. Users(y)' = Users(y)
        BY <1>0, <3>2, HasBuffer DEF Users, TypeOK
      <4>. QED  BY <1>0, <3>2, <4>1 DEF Pointers, TypeOK
    <3>. QED  BY <3>1, <3>2
  <2>. QED  BY <1>0, <1>a, <2>1 DEF Pointers, TypeOK
<1>3. OneBuffer'
  BY DEF OneBuffer, TypeOK
<1>4. Locks'
  BY DEF Locks, Holding, TypeOK
<1>5. Listed'
  BY DEF Listed, TypeOK
<1>6. Queued'
  <2>1. \A y \in Buf : (InQueue(y)' <=> InQueue(y)) /\ (Pending(y)' <=> Pending(y))
    BY DEF InQueue, Pending
  <2>2. ASSUME NEW q \in Proc, Waiting(q)' PROVE q # p /\ Waiting(q) /\ use'[q] = use[q] /\ use[q] \in Buf
    BY <1>0, <2>2, HasBuffer DEF Waiting, TypeOK
  <2>. QED  BY <2>1, <2>2 DEF Queue, Queued
<1>7. Asleep'
  BY DEF Queue, Asleep, Pending, TypeOK
<1>8. NoTwice'
  BY DEF Queue, NoTwice, TypeOK
<1>9. Served'
  BY DEF Queue, Served, InQueue, Pending, Waiting, TypeOK
<1>10. Flags'
  BY DEF Flags, TypeOK
<1>11. LockersWoken'
  BY DEF LockersWoken, TypeOK
<1>. QED  BY <1>1, <1>2, <1>3, <1>4, <1>5, <1>6, <1>7, <1>8, <1>9, <1>10, <1>11 DEF Queue

\* bget() recycles a buffer without users.
LEMMA BgetMissInv ==
  ASSUME IInv, NEW p \in Proc, NEW b \in Block, BgetMiss(p, b)
  PROVE  IInv'
<1>. USE DEF IInv, BgetMiss, Goes, bufVars
<1>0. PICK x \in Buf : x = Recycled /\ Free(x)
  BY RecycledFree
<1>a. x \in 0..NBUF /\ x # 0 /\ b # NoBlock /\ refcnt[x] = 0 /\ ~dirty[x]
  BY <1>0, CacheAssumption DEF Buf, Free
<1>b. \A r \in Proc : use[r] # x
  BY <1>0, <1>a, UsersFinite DEF Pointers, Users
<1>c. /\ blockno' = [blockno EXCEPT ![x] = b] /\ valid' = [valid EXCEPT ![x] = FALSE]
      /\ dirty' = [dirty EXCEPT ![x] = FALSE] /\ refcnt' = [refcnt EXCEPT ![x] = 1]
      /\ use' = [use EXCEPT ![p] = x]
  BY <1>0
<1>d. holder[x] = NoProc
  BY <1>0, <1>b DEF Locks, TypeOK
<1>1. TypeOK'
  BY <1>0, <1>a, <1>c DEF TypeOK, Place
<1>2. Pointers'
  <2>1. ASSUME NEW y \in Buf PROVE refcnt'[y] = Cardinality(Users(y)')
    <3>1. CASE y = x
      <4>1. Users(x)' = {p}
        BY <1>b, <1>c DEF Users, TypeOK
      <4>2. Cardinality(Users(x)') = 1
        BY <4>1, FS_Singleton
      <4>. QED  BY <1>c, <3>1, <4>2 DEF TypeOK
    <3>2. CASE y # x
      <4>1. Users(y)' = Users(y)
        BY <1>c, <3>2, HasBuffer DEF Users, TypeOK
      <4>. QED  BY <1>c, <3>2, <4>1 DEF Pointers, TypeOK
    <3>. QED  BY <3>1, <3>2
  <2>. QED  BY <1>0, <1>a, <1>b, <1>c, <2>1 DEF Pointers, TypeOK
<1>3. OneBuffer'
  BY <1>0, <1>c DEF OneBuffer, Cached, TypeOK
<1>4. Locks'
  BY DEF Locks, Holding, TypeOK
<1>5. Listed'
  BY DEF Listed, TypeOK
<1>6. Queued'
  <2>1. \A y \in Buf : InQueue(y)' <=> InQueue(y)
    BY DEF InQueue
  <2>2. ASSUME NEW q \in Proc, Waiting(q)'
        PROVE  q # p /\ Waiting(q) /\ use'[q] = use[q] /\ use[q] \in Buf /\ use[q] # x
    BY <1>b, <1>c, <2>2, HasBuffer DEF Waiting, TypeOK
  <2>3. \A y \in Buf : y # x => (Pending(y)' <=> Pending(y))
    BY <1>c DEF Pending, TypeOK
  <2>. QED  BY <2>1, <2>2, <2>3 DEF Queue, Queued
<1>7. Asleep'
  BY <1>b, <1>c DEF Queue, Asleep, Pending, TypeOK
<1>8. NoTwice'
  BY DEF Queue, NoTwice, TypeOK
<1>9. Served'
  BY <1>0, <1>c, <1>d DEF Queue, Served, InQueue, Pending, Waiting, TypeOK
<1>10. Flags'
  BY <1>0, <1>b, <1>c DEF Flags, TypeOK
<1>11. LockersWoken'
  BY DEF LockersWoken, TypeOK
<1>. QED  BY <1>1, <1>2, <1>3, <1>4, <1>5, <1>6, <1>7, <1>8, <1>9, <1>10, <1>11 DEF Queue

\* acquiresleep() takes a lock that nobody has, or sleeps.
LEMMA acquiresleepInv ==
  ASSUME IInv, NEW p \in Proc, acquiresleep(p)
  PROVE  IInv'
<1>. USE DEF IInv, acquiresleep, Taken, Goes, bufVars
<1>0. use[p] \in Buf /\ p # NoProc
  BY CacheAssumption, HasBuffer
<1>1. TypeOK'
  <2>1. at' \in [Proc -> Place]
    BY DEF TypeOK, Place
  <2>2. holder' \in [Buf -> Proc \cup {NoProc}]
    BY <1>0 DEF TypeOK
  <2>. QED  BY <2>1, <2>2 DEF TypeOK
<1>2. Pointers'
  BY DEF Pointers, Users, TypeOK
<1>3. OneBuffer'
  BY DEF OneBuffer, TypeOK
<1>4. Locks'
  <2>1. CASE Taken(use[p])
    <3>1. holder' = holder /\ use' = use /\ at' = [at EXCEPT ![p] = "lsleep"]
      BY <2>1
    <3>2. \A q \in Proc : Holding(q)' <=> Holding(q)
      BY <3>1 DEF Holding, TypeOK
    <3>. QED  BY <3>1, <3>2 DEF Locks, TypeOK
  <2>2. CASE ~Taken(use[p])
    <3>1. /\ holder' = [holder EXCEPT ![use[p]] = p] /\ use' = use
          /\ at' = [at EXCEPT ![p] = "locked"] /\ holder[use[p]] = NoProc
      BY <2>2
    <3>2. \A q \in Proc : Holding(q) => use[q] # use[p] /\ q # p
      BY <1>0, <3>1, CacheAssumption DEF Locks, Holding
    <3>. QED  BY <1>0, <3>1, <3>2 DEF Locks, Holding, TypeOK
  <2>. QED  BY <2>1, <2>2
<1>5. Listed'
  BY DEF Listed, TypeOK
<1>6. Queued'
  <2>1. \A q \in Proc : Waiting(q)' => Waiting(q)
    BY DEF Waiting, TypeOK
  <2>2. \A q \in Proc : (InQueue(use[q])' <=> InQueue(use[q])) /\ (Pending(use[q])' <=> Pending(use[q]))
    BY DEF InQueue, Pending
  <2>. QED  BY <2>1, <2>2 DEF Queue, Queued
<1>7. Asleep'
  BY DEF Queue, Asleep, Pending, TypeOK
<1>8. NoTwice'
  BY DEF Queue, NoTwice, TypeOK
<1>9. Served'
  <2>1. \A y \in Buf : (InQueue(y)' <=> InQueue(y)) /\ (Pending(y)' <=> Pending(y))
    BY DEF InQueue, Pending
  <2>2. ASSUME NEW y \in Buf, holder[y] # NoProc, Waiting(holder[y])
        PROVE  holder'[y] = holder[y] /\ Waiting(holder[y])'
    BY <1>0, <2>2 DEF Waiting, TypeOK
  <2>. QED  BY <2>1, <2>2 DEF Queue, Served
<1>10. Flags'
  BY DEF Flags, TypeOK
<1>11. LockersWoken'
  <2>1. CASE Taken(use[p])
    BY <2>1 DEF LockersWoken, TypeOK
  <2>2. CASE ~Taken(use[p])
    <3>1. holder' = [holder EXCEPT ![use[p]] = p] /\ use' = use /\ at' = [at EXCEPT ![p] = "locked"]
      BY <2>2
    <3>2. \A x \in Buf : holder[x] # NoProc => holder'[x] # NoProc
      BY <1>0, <3>1 DEF TypeOK
    <3>3. ASSUME NEW q \in Proc, at'[q] = "lsleep" PROVE at[q] = "lsleep" /\ use[q] \in Buf
      BY <3>1, <3>3, HasBuffer DEF TypeOK
    <3>. QED  BY <3>1, <3>2, <3>3 DEF LockersWoken
  <2>. QED  BY <2>1, <2>2
<1>. QED  BY <1>1, <1>2, <1>3, <1>4, <1>5, <1>6, <1>7, <1>8, <1>9, <1>10, <1>11 DEF Queue

\* bread() goes to the disk only for a buffer that is not valid.
LEMMA breadInv ==
  ASSUME IInv, NEW p \in Proc, bread(p)
  PROVE  IInv'
<1>. USE DEF IInv, bread, Goes, bufVars
<1>1. TypeOK'
  BY DEF TypeOK, Place, Buf
<1>2. Pointers'
  BY DEF Pointers, Users, TypeOK
<1>3. OneBuffer'
  BY DEF OneBuffer, TypeOK
<1>4. Locks'
  BY DEF Locks, Holding, TypeOK
<1>5. Listed'
  BY DEF Listed, TypeOK
<1>6. Queued'
  BY DEF Queue, Queued, InQueue, Pending, Waiting, TypeOK
<1>7. Asleep'
  BY DEF Queue, Asleep, Pending, TypeOK
<1>8. NoTwice'
  BY DEF Queue, NoTwice, TypeOK
<1>9. Served'
  BY DEF Queue, Served, InQueue, Pending, Waiting, TypeOK
<1>10. Flags'
  BY DEF Flags, TypeOK
<1>11. LockersWoken'
  BY DEF LockersWoken, TypeOK
<1>. QED  BY <1>1, <1>2, <1>3, <1>4, <1>5, <1>6, <1>7, <1>8, <1>9, <1>10, <1>11 DEF Queue

\* The user of a buffer modifies it, and may write it.
LEMMA ModifyInv ==
  ASSUME IInv, NEW p \in Proc, NEW v \in Val, Modify(p, v)
  PROVE  IInv'
<1>. USE DEF IInv, Modify, Goes, bufVars
<1>0. use[p] \in Buf /\ holder[use[p]] = p /\ valid[use[p]] /\ ~Waiting(p)
  BY HasBuffer DEF Locks, Holding, Flags, Waiting
<1>a. \/ at' = [at EXCEPT ![p] = "write"]
      \/ at' = at
  OBVIOUS
<1>b. /\ at' \in [Proc -> Place] /\ at'[p] \in {"have", "write"}
      /\ \A r \in Proc : r # p => at'[r] = at[r]
  BY <1>a DEF TypeOK, Place
<1>c. \A r \in Proc : r # p /\ Holding(r) => use[r] # use[p]
  BY <1>0 DEF Locks
<1>1. TypeOK'
  BY <1>b DEF TypeOK
<1>2. Pointers'
  BY <1>b DEF Pointers, Users, TypeOK
<1>3. OneBuffer'
  BY DEF OneBuffer, TypeOK
<1>4. Locks'
  <2>1. \A q \in Proc : Holding(q)' <=> Holding(q)
    BY <1>b DEF Holding
  <2>. QED  BY <2>1 DEF Locks, TypeOK
<1>5. Listed'
  BY DEF Listed, TypeOK
<1>6. Queued'
  <2>1. \A y \in Buf : (InQueue(y)' <=> InQueue(y)) /\ (y # use[p] => (Pending(y)' <=> Pending(y)))
    BY DEF InQueue, Pending, TypeOK
  <2>2. ASSUME NEW q \in Proc, Waiting(q)' PROVE Waiting(q) /\ use[q] # use[p] /\ use[q] \in Buf /\ use'[q] = use[q]
    BY <1>b, <1>c, <2>2, HasBuffer DEF Waiting, Holding, TypeOK
  <2>. QED  BY <2>1, <2>2 DEF Queue, Queued
<1>7. Asleep'
  BY <1>b, <1>c DEF Queue, Asleep, Pending, Holding, TypeOK
<1>8. NoTwice'
  BY DEF Queue, NoTwice, TypeOK
<1>9. Served'
  <2>1. \A y \in Buf : (InQueue(y)' <=> InQueue(y)) /\ (y # use[p] => (Pending(y)' <=> Pending(y)))
    BY DEF InQueue, Pending, TypeOK
  <2>2. ASSUME NEW y \in Buf, holder[y] # NoProc, Waiting(holder[y])
        PROVE  y # use[p] /\ Waiting(holder[y])'
    BY <1>0, <1>b, <2>2 DEF Waiting, TypeOK
  <2>. QED  BY <2>1, <2>2 DEF Queue, Served
<1>10. Flags'
  BY <1>0, <1>b DEF Flags, TypeOK
<1>11. LockersWoken'
  BY DEF LockersWoken, TypeOK
<1>. QED  BY <1>1, <1>2, <1>3, <1>4, <1>5, <1>6, <1>7, <1>8, <1>9, <1>10, <1>11 DEF Queue

\* bwrite() of a dirty buffer.
LEMMA bwriteInv ==
  ASSUME IInv, NEW p \in Proc, bwrite(p)
  PROVE  IInv'
<1>. USE DEF IInv, bwrite, Goes, bufVars
<1>1. TypeOK'
  BY DEF TypeOK, Place, Buf
<1>2. Pointers'
  BY DEF Pointers, Users, TypeOK
<1>3. OneBuffer'
  BY DEF OneBuffer, TypeOK
<1>4. Locks'
  BY DEF Locks, Holding, TypeOK
<1>5. Listed'
  BY DEF Listed, TypeOK
<1>6. Queued'
  BY DEF Queue, Queued, InQueue, Pending, Waiting, TypeOK
<1>7. Asleep'
  BY DEF Queue, Asleep, Pending, TypeOK
<1>8. NoTwice'
  BY DEF Queue, NoTwice, TypeOK
<1>9. Served'
  BY DEF Queue, Served, InQueue, Pending, Waiting, TypeOK
<1>10. Flags'
  BY DEF Flags, TypeOK
<1>11. LockersWoken'
  BY DEF LockersWoken, TypeOK
<1>. QED  BY <1>1, <1>2, <1>3, <1>4, <1>5, <1>6, <1>7, <1>8, <1>9, <1>10, <1>11 DEF Queue

\* iderw() queues a buffer that is not queued.
LEMMA iderwInv ==
  ASSUME IInv, NEW p \in Proc, iderw(p)
  PROVE  IInv'
<1>. USE DEF IInv, iderw, Goes, bufVars
<1>. DEFINE x == use[p]
<1>0. x \in Buf /\ holder[x] = p /\ Pending(x) /\ ~Waiting(p) /\ ~InQueue(x)
  BY HasBuffer DEF Locks, Holding, Waiting, Queue, Served
<1>a. /\ idequeue' \in Seq(Buf) /\ Len(idequeue') = Len(idequeue) + 1 /\ idequeue'[Len(idequeue) + 1] = x
      /\ \A i \in 1..Len(idequeue) : idequeue'[i] = idequeue[i]
  <2>1. idequeue \in Seq(Buf) /\ idequeue' = Append(idequeue, x)
    BY DEF TypeOK
  <2>. QED  BY <1>0, <2>1
<1>b. \A y \in Buf : InQueue(y)' <=> InQueue(y) \/ y = x
  BY <1>0, <1>a DEF InQueue, TypeOK
<1>c. at' = [at EXCEPT ![p] = at'[p]] /\ at'[p] \in {"rsleep", "wsleep"}
      /\ (at'[p] = "rsleep" <=> at[p] = "read") /\ (at'[p] = "wsleep" <=> at[p] = "write")
  BY DEF TypeOK
<1>1. TypeOK'
  BY <1>a, <1>c DEF TypeOK, Place
<1>2. Pointers'
  BY DEF Pointers, Users, TypeOK
<1>3. OneBuffer'
  BY DEF OneBuffer, TypeOK
<1>4. Locks'
  BY DEF Locks, Holding, TypeOK
<1>5. Listed'
  BY DEF Listed, TypeOK
<1>6. Queued'
  BY <1>0, <1>b, <1>c, HasBuffer DEF Queue, Queued, Pending, Waiting, TypeOK
<1>7. Asleep'
  BY <1>0, <1>c DEF Queue, Asleep, Pending, TypeOK
<1>8. NoTwice'
  BY <1>0, <1>a DEF Queue, NoTwice, InQueue, TypeOK
<1>9. Served'
  BY <1>0, <1>b, <1>c, CacheAssumption DEF Queue, Served, Pending, Waiting, TypeOK
<1>10. Flags'
  BY DEF Flags, TypeOK
<1>11. LockersWoken'
  BY DEF LockersWoken, TypeOK
<1>. QED  BY <1>1, <1>2, <1>3, <1>4, <1>5, <1>6, <1>7, <1>8, <1>9, <1>10, <1>11 DEF Queue

\* The loop of iderw() sleeps again while the request is not done.
LEMMA IderwLoopInv ==
  ASSUME IInv, NEW p \in Proc, IderwLoop(p)
  PROVE  IInv'
<1>. USE DEF IInv, IderwLoop, Goes, bufVars
<1>0. use[p] \in Buf
  BY HasBuffer
<1>1. TypeOK'
  BY DEF TypeOK, Place, Buf
<1>2. Pointers'
  BY DEF Pointers, Users, TypeOK
<1>3. OneBuffer'
  BY DEF OneBuffer, TypeOK
<1>4. Locks'
  BY DEF Locks, Holding, TypeOK
<1>5. Listed'
  BY DEF Listed, TypeOK
<1>6. Queued'
  BY <1>0 DEF Queue, Queued, InQueue, Pending, Waiting, TypeOK
<1>7. Asleep'
  BY DEF Queue, Asleep, Pending, TypeOK
<1>8. NoTwice'
  BY DEF Queue, NoTwice, TypeOK
<1>9. Served'
  BY <1>0 DEF Queue, Served, InQueue, Pending, Waiting, Locks, TypeOK
<1>10. Flags'
  BY <1>0 DEF Flags, Pending, TypeOK
<1>11. LockersWoken'
  BY DEF LockersWoken, TypeOK
<1>. QED  BY <1>1, <1>2, <1>3, <1>4, <1>5, <1>6, <1>7, <1>8, <1>9, <1>10, <1>11 DEF Queue

\* The interrupt wakes the one who waits for the buffer at the head of the queue.
LEMMA ideintrInv ==
  ASSUME IInv, ideintr
  PROVE  IInv'
<1>. USE DEF IInv, ideintr, Restarts, WakeUsers, Woken, Goes, bufVars
<1>0. PICK x \in Buf : x = Head(idequeue)
  BY DEF TypeOK
<1>a. /\ idequeue \in Seq(Buf) /\ Len(idequeue) >= 1 /\ x = idequeue[1]
      /\ idequeue' = Tail(idequeue) /\ idequeue' \in Seq(Buf) /\ Len(idequeue') = Len(idequeue) - 1
      /\ \A i \in 1..Len(idequeue') : idequeue'[i] = idequeue[i + 1]
  BY <1>0 DEF TypeOK
<1>b. /\ InQueue(x) /\ Pending(x) /\ holder[x] \in Proc /\ Waiting(holder[x]) /\ use[holder[x]] = x
      /\ blockno[x] \in Block
  <2>1. InQueue(x)
    BY <1>a DEF InQueue
  <2>. QED  BY <2>1, ServedBlock
<1>c. \A y \in Buf : InQueue(y)' <=> InQueue(y) /\ y # x
  <2>1. ASSUME NEW i \in 1..Len(idequeue') PROVE i + 1 \in 1..Len(idequeue) /\ idequeue[i + 1] # x
    BY <1>a DEF Queue, NoTwice
  <2>2. ASSUME NEW i \in 1..Len(idequeue), idequeue[i] # x
        PROVE  i - 1 \in 1..Len(idequeue') /\ idequeue'[i - 1] = idequeue[i]
    BY <1>a, <2>2
  <2>3. ASSUME NEW y \in Buf, InQueue(y)' PROVE InQueue(y) /\ y # x
    <3>1. PICK i \in 1..Len(idequeue') : idequeue'[i] = y
      BY <2>3 DEF InQueue
    <3>. QED  BY <1>a, <2>1, <3>1 DEF InQueue
  <2>4. ASSUME NEW y \in Buf, InQueue(y), y # x PROVE InQueue(y)'
    BY <2>2, <2>4 DEF InQueue
  <2>. QED  BY <2>3, <2>4
<1>d. /\ valid' = [valid EXCEPT ![x] = TRUE] /\ dirty' = [dirty EXCEPT ![x] = FALSE]
      /\ at' = WakeUsers(x)
  BY <1>0
<1>e. /\ data' \in [Buf -> Val \cup {NoVal}] /\ disk' \in [Block -> Val]
      /\ \A y \in Buf : y # x => data'[y] = data[y]
  <2>1. CASE dirty[x]
    BY <1>0, <1>b, <2>1 DEF Flags, TypeOK
  <2>2. CASE ~dirty[x]
    <3>1. PICK v \in {disk[blockno[x]]} \cup (IF DiskErrors THEN {data[x]} ELSE {}) :
                 data' = [data EXCEPT ![x] = v]
      BY <1>0, <2>2
    <3>2. v \in Val \cup {NoVal}
      BY <1>b, <3>1 DEF TypeOK
    <3>. QED  BY <1>0, <2>2, <3>1, <3>2 DEF TypeOK
  <2>. QED  BY <2>1, <2>2
<1>f. \A q \in Proc : at'[q] = IF at[q] \in {"rsleep", "wsleep"} /\ use[q] = x THEN Woken(at[q]) ELSE at[q]
  BY <1>d
<1>1. TypeOK'
  <2>1. at' \in [Proc -> Place]
    BY <1>d DEF TypeOK, Place
  <2>2. active' \in BOOLEAN /\ valid' \in [Buf -> BOOLEAN] /\ dirty' \in [Buf -> BOOLEAN]
    BY <1>d DEF TypeOK
  <2>. QED  BY <1>a, <1>e, <2>1, <2>2 DEF TypeOK
<1>2. Pointers'
  BY DEF Pointers, Users, TypeOK
<1>3. OneBuffer'
  BY DEF OneBuffer, TypeOK
<1>4. Locks'
  BY DEF Locks, Holding, TypeOK
<1>5. Listed'
  BY DEF Listed, TypeOK
<1>6. Queued'
  <2>1. ASSUME NEW q \in Proc, Waiting(q)' PROVE Waiting(q) /\ use[q] \in Buf
    BY <1>f, <2>1, HasBuffer DEF Waiting
  <2>2. \A y \in Buf : Pending(y)' => Pending(y) /\ y # x
    BY <1>d DEF Pending, TypeOK
  <2>. QED  BY <1>c, <2>1, <2>2 DEF Queue, Queued
<1>7. Asleep'
  BY <1>d, <1>f DEF Queue, Asleep, Pending, TypeOK
<1>8. NoTwice'
  BY <1>a DEF Queue, NoTwice
<1>9. Served'
  <2>1. ASSUME NEW q \in Proc, Waiting(q) PROVE Waiting(q)'
    BY <1>f, <2>1 DEF Waiting
  <2>2. \A y \in Buf : y # x => (Pending(y)' <=> Pending(y))
    BY <1>d DEF Pending, TypeOK
  <2>. QED  BY <1>c, <2>1, <2>2 DEF Queue, Served, TypeOK
<1>10. Flags'
  <2>1. ASSUME NEW q \in Proc
        PROVE  /\ at'[q] = "read" => at[q] = "read" /\ use[q] # x
               /\ at'[q] = "write" => at[q] = "write" /\ use[q] # x
               /\ at'[q] \in {"have", "write", "wsleep", "wwoken"} =>
                    at[q] \in {"have", "write", "wsleep", "wwoken"}
    BY <1>b, <1>f DEF Locks, Holding, Waiting
  <2>2. \A y \in Buf : y # x => (valid'[y] <=> valid[y]) /\ (dirty'[y] <=> dirty[y])
    BY <1>d DEF TypeOK
  <2>3. valid'[x] /\ ~dirty'[x]
    BY <1>d DEF TypeOK
  <2>4. \A q \in Proc : at[q] # "idle" => use[q] \in Buf
    BY HasBuffer
  <2>5. \A y \in Buf : /\ dirty'[y] => valid'[y] /\ data'[y] \in Val
                       /\ valid'[y] => blockno'[y] \in Block
    BY <1>b, <1>e, <2>2, <2>3 DEF Flags
  <2>6. ASSUME NEW q \in Proc
        PROVE  /\ at'[q] \in {"have", "write", "wsleep", "wwoken"} => valid'[use'[q]]
               /\ at'[q] = "read" => ~valid'[use'[q]]
               /\ at'[q] = "write" => dirty'[use'[q]]
    BY <2>1, <2>2, <2>3, <2>4 DEF Flags
  <2>. QED  BY <2>5, <2>6 DEF Flags
<1>11. LockersWoken'
  BY DEF LockersWoken, TypeOK
<1>. QED  BY <1>1, <1>2, <1>3, <1>4, <1>5, <1>6, <1>7, <1>8, <1>9, <1>10, <1>11 DEF Queue

\* kill() wakes a sleeper early: what it waits for goes on.
LEMMA KillInv ==
  ASSUME IInv, NEW p \in Proc, Kill(p)
  PROVE  IInv'
<1>. USE DEF IInv, Kill, Woken, Goes, bufVars
<1>1. TypeOK'
  BY DEF TypeOK, Place, Buf
<1>2. Pointers'
  BY DEF Pointers, Users, TypeOK
<1>3. OneBuffer'
  BY DEF OneBuffer, TypeOK
<1>4. Locks'
  BY DEF Locks, Holding, TypeOK
<1>5. Listed'
  BY DEF Listed, TypeOK
<1>6. Queued'
  BY DEF Queue, Queued, InQueue, Pending, Waiting, TypeOK
<1>7. Asleep'
  BY DEF Queue, Asleep, Pending, TypeOK
<1>8. NoTwice'
  BY DEF Queue, NoTwice, TypeOK
<1>9. Served'
  BY DEF Queue, Served, InQueue, Pending, Waiting, TypeOK
<1>10. Flags'
  BY DEF Flags, TypeOK
<1>11. LockersWoken'
  BY DEF LockersWoken, TypeOK
<1>. QED  BY <1>1, <1>2, <1>3, <1>4, <1>5, <1>6, <1>7, <1>8, <1>9, <1>10, <1>11 DEF Queue

\* releasesleep() wakes all that sleep for the lock.
LEMMA releasesleepInv ==
  ASSUME IInv, NEW p \in Proc, releasesleep(p)
  PROVE  IInv'
<1>. USE DEF IInv, releasesleep, WakeLockers, Goes, bufVars
<1>0. use[p] \in Buf /\ holder[use[p]] = p /\ ~Waiting(p)
  BY HasBuffer DEF Locks, Holding, Waiting
<1>1. TypeOK'
  BY DEF TypeOK, Place, Buf
<1>2. Pointers'
  BY DEF Pointers, Users, TypeOK
<1>3. OneBuffer'
  BY DEF OneBuffer, TypeOK
<1>4. Locks'
  BY DEF Locks, Holding, TypeOK
<1>5. Listed'
  BY DEF Listed, TypeOK
<1>6. Queued'
  BY DEF Queue, Queued, InQueue, Pending, Waiting, TypeOK
<1>7. Asleep'
  BY DEF Queue, Asleep, Pending, TypeOK
<1>8. NoTwice'
  BY DEF Queue, NoTwice, TypeOK
<1>9. Served'
  <2>1. \A y \in Buf : (InQueue(y)' <=> InQueue(y)) /\ (Pending(y)' <=> Pending(y))
    BY DEF InQueue, Pending
  <2>2. ASSUME NEW y \in Buf, holder[y] # NoProc, Waiting(holder[y])
        PROVE  holder'[y] = holder[y] /\ Waiting(holder[y])'
    BY <1>0, <2>2 DEF Waiting, TypeOK
  <2>. QED  BY <2>1, <2>2 DEF Queue, Served
<1>10. Flags'
  BY DEF Flags, TypeOK
<1>11. LockersWoken'
  BY DEF LockersWoken, TypeOK
<1>. QED  BY <1>1, <1>2, <1>3, <1>4, <1>5, <1>6, <1>7, <1>8, <1>9, <1>10, <1>11 DEF Queue

\* brelse() gives up the reference.
LEMMA brelseInv ==
  ASSUME IInv, NEW p \in Proc, brelse(p)
  PROVE  IInv'
<1>. USE DEF IInv, brelse, Goes, bufVars
<1>0. PICK x \in Buf : x = use[p]
  BY HasBuffer
<1>a. p \in Users(x) /\ refcnt[x] \in Nat \ {0} /\ refcnt[x] = Cardinality(Users(x))
  BY <1>0, UsersFinite DEF Users, Pointers
<1>b. /\ refcnt' = [refcnt EXCEPT ![x] = @ - 1] /\ use' = [use EXCEPT ![p] = 0]
      /\ lru' = ToFront(x) \/ lru' = lru
  BY <1>0
<1>1. TypeOK'
  <2>1. lru' \in [Buf -> Buf]
    BY <1>b, FrontListed DEF TypeOK
  <2>2. refcnt' \in [Buf -> Nat]
    <3>1. refcnt[x] - 1 \in Nat
      BY <1>a
    <3>. QED  BY <1>b, <3>1 DEF TypeOK
  <2>3. 0 \in 0..NBUF
    BY CacheAssumption
  <2>. QED  BY <1>b, <2>1, <2>2, <2>3 DEF TypeOK, Place
<1>2. Pointers'
  <2>1. ASSUME NEW y \in Buf PROVE refcnt'[y] = Cardinality(Users(y)')
    <3>1. CASE y = x
      <4>1. Users(x)' = Users(x) \ {p}
        <5>1. x # 0
          BY CacheAssumption DEF Buf
        <5>. QED  BY <1>b, <5>1 DEF Users, TypeOK
      <4>2. Cardinality(Users(x)') = Cardinality(Users(x)) - 1
        BY <1>a, <4>1, UsersFinite, FS_RemoveElement
      <4>. QED  BY <1>a, <1>b, <3>1, <4>2 DEF TypeOK
    <3>2. CASE y # x
      <4>1. Users(y)' = Users(y)
        <5>1. y # 0 /\ use[p] = x
          BY <1>0, CacheAssumption DEF Buf
        <5>. QED  BY <1>b, <3>2, <5>1 DEF Users, TypeOK
      <4>. QED  BY <1>b, <3>2, <4>1 DEF Pointers, TypeOK
    <3>. QED  BY <3>1, <3>2
  <2>. QED  BY <1>b, <2>1 DEF Pointers, TypeOK
<1>3. OneBuffer'
  BY DEF OneBuffer, TypeOK
<1>4. Locks'
  BY DEF Locks, Holding, TypeOK
<1>5. Listed'
  <2>1. CASE lru' = lru
    BY <2>1 DEF Listed
  <2>2. CASE lru' = ToFront(x)
    <3>1. \A y \in Buf : \E i \in Buf : ToFront(x)[i] = y
      BY FrontListed
    <3>. QED  BY <2>2, <3>1 DEF Listed
  <2>. QED  BY <1>b, <2>1, <2>2
<1>6. Queued'
  BY DEF Queue, Queued, InQueue, Pending, Waiting, TypeOK
<1>7. Asleep'
  BY DEF Queue, Asleep, Pending, TypeOK
<1>8. NoTwice'
  BY DEF Queue, NoTwice, TypeOK
<1>9. Served'
  BY DEF Queue, Served, InQueue, Pending, Waiting, TypeOK
<1>10. Flags'
  BY DEF Flags, TypeOK
<1>11. LockersWoken'
  BY DEF LockersWoken, TypeOK
<1>. QED  BY <1>1, <1>2, <1>3, <1>4, <1>5, <1>6, <1>7, <1>8, <1>9, <1>10, <1>11 DEF Queue

\* Each action of the cache and of the driver.
LEMMA StepInv ==
  ASSUME IInv, Next
  PROVE  IInv'
BY BgetHitInv, BgetMissInv, acquiresleepInv, breadInv, ModifyInv, bwriteInv, iderwInv, IderwLoopInv,
   ideintrInv, KillInv, releasesleepInv, brelseInv DEF Next, Step

\* binit() leaves a list of all the buffers, none of which has a block.
LEMMA InitInv ==
  ASSUME Init
  PROVE  IInv
<1>. USE CacheAssumption DEF Init
<1>1. ASSUME NEW i \in Buf PROVE NBUF + 1 - i \in Buf /\ NBUF + 1 - (NBUF + 1 - i) = i
  BY DEF Buf
<1>2. TypeOK
  <2>1. lru \in [Buf -> Buf]
    BY <1>1
  <2>2. idequeue \in Seq(Buf) /\ 0 \in 0..NBUF
    OBVIOUS
  <2>. QED  BY <2>1, <2>2 DEF TypeOK, Place
<1>3. Listed
  BY <1>1 DEF Listed
<1>4. Pointers
  <2>1. ASSUME NEW x \in Buf PROVE Cardinality(Users(x)) = 0
    <3>1. Users(x) = {}
      BY DEF Users, Buf
    <3>. QED  BY <3>1, FS_EmptySet
  <2>. QED  BY <2>1 DEF Pointers
<1>5. Len(idequeue) = 0
  OBVIOUS
<1>6. OneBuffer /\ Locks /\ Queue /\ Flags /\ LockersWoken
  BY <1>5 DEF OneBuffer, Locks, Holding, Queue, Queued, Asleep, NoTwice, Served, InQueue, Waiting,
     Flags, LockersWoken
<1>. QED  BY <1>2, <1>3, <1>4, <1>6 DEF IInv

\* The invariant holds of every state of the cache and the driver.
THEOREM Invariance == Spec => []IInv
<1>1. Init => IInv
  BY InitInv
<1>2. IInv /\ [Next]_vars => IInv'
  <2>1. CASE UNCHANGED vars
    BY <2>1 DEF vars, IInv, TypeOK, Pointers, Users, OneBuffer, Locks, Holding, Listed, Queue, Queued,
       Asleep, NoTwice, Served, InQueue, Waiting, Pending, Flags, LockersWoken
  <2>. QED  BY <2>1, StepInv
<1>. QED  BY <1>1, <1>2, PTL DEF Spec

\* The queue of ide.c has exactly the requests of those who sleep in iderw(),
\* each once, and nobody sleeps for a sleep lock that is free, with disk errors
\* and early wakeups by kill(): for any number of processes, blocks and buffers.
THEOREM Safety == Spec => []CacheSound
<1>1. IInv => CacheSound
  <2>. SUFFICES ASSUME IInv PROVE QueueExact
    BY DEF IInv, CacheSound
  <2>1. ASSUME NEW i \in 1..Len(idequeue) PROVE idequeue[i] \in Buf /\ InQueue(idequeue[i])
    BY DEF IInv, TypeOK, InQueue
  <2>. QED  BY <2>1 DEF IInv, Queue, Queued, Asleep, NoTwice, Served, InQueue, Waiting, QueueExact
<1>. QED  BY <1>1, Invariance, PTL

-----------------------------------------------------------------------------
\* A process that is between bread() and brelse().
Using(p) == at[p] \in {"have", "write", "wsleep", "wwoken"}

\* What the callers of the cache have, in terms of the buffers.
View ==
  /\ Content \in [Block -> Val]
  /\ \A x \in Buf : valid[x] => Content[blockno[x]] = data[x]
  /\ \A b \in Block : (\A x \in Buf : ~(valid[x] /\ blockno[x] = b)) => Content[b] = disk[b]
  /\ \A p \in Proc : Using(p) => want[p] \in Block /\ Owner[want[p]] = p /\ Seen[p] = data[use[p]]
  /\ \A b \in Block : (\A p \in Proc : ~Uses(p, b)) => Owner[b] = NoProc
  /\ \A p \in Proc : ~Using(p) => Seen[p] = NoVal

\* Two users of a block would have the same buffer, and its lock.
LEMMA OneUser ==
  ASSUME IInv, NEW p \in Proc, NEW q \in Proc, Using(p), Holding(q), want[q] = want[p]
  PROVE  q = p
<1>1. use[p] \in Buf /\ use[q] \in Buf /\ blockno[use[p]] = want[p] /\ blockno[use[q]] = want[p]
      /\ want[p] # NoBlock
  BY HasBuffer DEF IInv, Pointers, Using, Holding
<1>2. use[p] = use[q]
  BY <1>1 DEF IInv, OneBuffer
<1>. QED  BY <1>2 DEF IInv, Locks, Using, Holding

LEMMA Views == IInv /\ Fresh => View
<1>. SUFFICES ASSUME IInv, Fresh PROVE View
  OBVIOUS
<1>1. ASSUME NEW x \in Buf, valid[x] PROVE /\ data[x] \in Val /\ blockno[x] \in Block
                                           /\ Content[blockno[x]] = data[x]
  <2>1. data[x] \in Val /\ blockno[x] \in Block
    BY <1>1 DEF IInv, Flags, Fresh, TypeOK
  <2>. DEFINE b == blockno[x]
              y == CHOOSE y \in Cached(b) : valid[y]
  <2>2. y \in Cached(b) /\ valid[y]
    BY <1>1 DEF Cached
  <2>3. y = x
    BY <2>1, <2>2, CacheAssumption DEF Cached, IInv, OneBuffer
  <2>4. Content[b] = data[y]
    BY <1>1, <2>1 DEF Content, Cached
  <2>. QED  BY <2>1, <2>3, <2>4
<1>2. ASSUME NEW b \in Block, \A x \in Buf : ~(valid[x] /\ blockno[x] = b) PROVE Content[b] = disk[b]
  BY <1>2 DEF Content, Cached
<1>3. Content \in [Block -> Val]
  <2>1. ASSUME NEW b \in Block PROVE Content[b] \in Val
    BY <1>1, <1>2 DEF IInv, TypeOK
  <2>2. Content = [b \in Block |-> Content[b]]
    BY DEF Content
  <2>. QED  BY <2>1, <2>2
<1>4. ASSUME NEW p \in Proc, Using(p) PROVE want[p] \in Block /\ Owner[want[p]] = p /\ Seen[p] = data[use[p]]
  <2>1. want[p] \in Block /\ Uses(p, want[p])
    BY <1>4 DEF IInv, Pointers, TypeOK, Using, Uses
  <2>. DEFINE q == CHOOSE q \in Proc : Uses(q, want[p])
  <2>2. q \in Proc /\ Uses(q, want[p])
    BY <2>1
  <2>3. q = p
    <3>. HIDE DEF q
    <3>. QED  BY <1>4, <2>2, OneUser DEF Uses, Using, Holding
  <2>4. Owner[want[p]] = q
    BY <2>1 DEF Owner
  <2>. QED  BY <2>1, <2>3, <2>4 DEF Seen
<1>5. ASSUME NEW b \in Block, \A p \in Proc : ~Uses(p, b) PROVE Owner[b] = NoProc
  BY <1>5 DEF Owner
<1>6. ASSUME NEW p \in Proc, ~Using(p) PROVE Seen[p] = NoVal
  BY <1>6 DEF Seen, Uses, Using
<1>. QED  BY <1>1, <1>2, <1>3, <1>4, <1>5, <1>6 DEF View

LEMMA ViewsNext == IInv' /\ Fresh' => View'
BY Views, PTL

\* With a disk that does not fail a clean buffer has what the disk has.
LEMMA FreshStep ==
  ASSUME IInv, Fresh, Next, DiskErrors = FALSE
  PROVE  Fresh'
<1>1. ASSUME NEW p \in Proc, Step(p) \/ bwrite(p) \/ Kill(p) PROVE Fresh'
  <2>1. UNCHANGED <<bufVars, disk>> \/ UNCHANGED <<blockno, valid, dirty, data, disk>>
    BY <1>1 DEF Step, acquiresleep, bread, iderw, IderwLoop, releasesleep, brelse, bwrite, Kill
  <2>. QED  BY <2>1 DEF Fresh, bufVars
<1>2. ASSUME NEW p \in Proc, NEW b \in Block, BgetHit(p, b) PROVE Fresh'
  BY <1>2 DEF Fresh, BgetHit
<1>3. ASSUME NEW p \in Proc, NEW b \in Block, BgetMiss(p, b) PROVE Fresh'
  <2>1. Recycled \in Buf
    BY <1>3, RecycledFree DEF BgetMiss, IInv
  <2>. QED  BY <1>3, <2>1 DEF BgetMiss, Fresh, IInv, TypeOK
<1>4. ASSUME NEW p \in Proc, NEW v \in Val, Modify(p, v) PROVE Fresh'
  <2>1. use[p] \in Buf
    BY <1>4, HasBuffer DEF Modify, IInv
  <2>. QED  BY <1>4, <2>1 DEF Modify, Fresh, IInv, TypeOK
<1>5. ASSUME ideintr PROVE Fresh'
  <2>1. PICK x \in Buf : x = Head(idequeue)
    BY <1>5 DEF ideintr, IInv, TypeOK
  <2>2. /\ valid' = [valid EXCEPT ![x] = TRUE] /\ dirty' = [dirty EXCEPT ![x] = FALSE]
        /\ blockno' = blockno
    BY <1>5, <2>1 DEF ideintr
  <2>3. blockno[x] \in Block
    <3>1. InQueue(x)
      BY <1>5, <2>1 DEF ideintr, InQueue, IInv, TypeOK
    <3>. QED  BY <3>1, ServedBlock
  <2>4. CASE dirty[x]
    <3>1. disk' = [disk EXCEPT ![blockno[x]] = data[x]] /\ data' = data
      BY <1>5, <2>1, <2>4 DEF ideintr
    <3>2. ASSUME NEW y \in Buf, valid[y], y # x PROVE blockno[y] # blockno[x]
      BY <2>3, <3>2, CacheAssumption DEF IInv, OneBuffer
    <3>. QED  BY <2>2, <2>3, <3>1, <3>2 DEF Fresh, IInv, TypeOK, Flags
  <2>5. CASE ~dirty[x]
    <3>1. disk' = disk /\ data' = [data EXCEPT ![x] = disk[blockno[x]]]
      BY <1>5, <2>1, <2>5 DEF ideintr
    <3>. QED  BY <2>2, <2>3, <3>1 DEF Fresh, IInv, TypeOK
  <2>. QED  BY <2>4, <2>5
<1>. QED  BY <1>1, <1>2, <1>3, <1>4, <1>5 DEF Next

-----------------------------------------------------------------------------
\* A step of the cache is a step of the abstract store, or none of it.
StoreStep == Store!Next \/ UNCHANGED <<Content, Owner, Seen>>
Inv == IInv /\ Fresh

\* The contents of the blocks are those of the buffers and the disk.
LEMMA SameContent ==
  ASSUME Inv, Inv', disk' = disk,
         \A x \in Buf : blockno'[x] = blockno[x] /\ (valid'[x] <=> valid[x]) /\ data'[x] = data[x]
  PROVE  Content' = Content
<1>1. View /\ View'
  BY Views, ViewsNext DEF Inv
<1>2. \A b \in Block : Content'[b] = Content[b]
  BY <1>1 DEF View
<1>. QED  BY <1>1, <1>2 DEF View

\* Nothing changes for the users when they and their buffers stay the same.
LEMMA SameUse ==
  ASSUME Inv, Inv',
         \A p \in Proc : /\ Using(p)' <=> Using(p)
                         /\ Using(p) => want'[p] = want[p] /\ data'[use'[p]] = data[use[p]]
  PROVE  Owner' = Owner /\ Seen' = Seen
<1>1. View /\ View'
  BY Views, ViewsNext DEF Inv
<1>2. ASSUME NEW b \in Block PROVE Owner'[b] = Owner[b]
  <2>1. \A p \in Proc : Uses(p, b)' <=> Uses(p, b)
    BY DEF Uses, Using
  <2>2. CASE \E p \in Proc : Uses(p, b)
    BY <1>1, <2>1, <2>2 DEF View, Uses, Using
  <2>3. CASE ~\E p \in Proc : Uses(p, b)
    BY <1>1, <2>1, <2>3 DEF View
  <2>. QED  BY <2>2, <2>3
<1>3. ASSUME NEW p \in Proc PROVE Seen'[p] = Seen[p]
  BY <1>1 DEF View
<1>. QED  BY <1>2, <1>3 DEF Owner, Seen

\* Whoever gets a valid buffer with its lock becomes the user of the block.
LEMMA Acquires ==
  ASSUME Inv, Inv', NEW p \in Proc, Holding(p), ~Using(p), valid[use[p]],
         at' = [at EXCEPT ![p] = "have"], UNCHANGED <<bufVars, disk, want, use>>
  PROVE  Store!Acquire(p, want[p]) /\ want[p] \in Block
<1>. USE DEF bufVars
<1>1. View /\ View' /\ IInv /\ IInv'
  BY Views, ViewsNext DEF Inv
<1>2. Content' = Content
  BY SameContent
<1>3. /\ Using(p)' /\ use[p] \in Buf /\ want[p] \in Block /\ blockno[use[p]] = want[p]
      /\ \A q \in Proc : q # p => (Using(q)' <=> Using(q))
  BY <1>1, HasBuffer DEF IInv, Using, Holding, Pointers, TypeOK
<1>4. \A q \in Proc : ~Uses(q, want[p])
  BY <1>1, OneUser DEF Uses, Using, Holding
<1>5. Owner[want[p]] = NoProc /\ Seen[p] = NoVal /\ Content[want[p]] = data[use[p]]
  BY <1>1, <1>3, <1>4 DEF View
<1>6. Seen' = [Seen EXCEPT ![p] = Content[want[p]]]
  <2>1. \A q \in Proc : Seen'[q] = IF q = p THEN data[use[p]] ELSE Seen[q]
    BY <1>1, <1>3 DEF View
  <2>. QED  BY <1>5, <2>1 DEF Seen
<1>7. Owner' = [Owner EXCEPT ![want[p]] = p]
  <2>1. ASSUME NEW b \in Block PROVE Owner'[b] = IF b = want[p] THEN p ELSE Owner[b]
    <3>1. CASE b = want[p]
      BY <1>1, <1>3, <3>1 DEF View
    <3>2. CASE b # want[p]
      <4>1. \A q \in Proc : Uses(q, b)' <=> Uses(q, b)
        BY <1>3, <3>2 DEF Uses, Using
      <4>2. CASE \E q \in Proc : Uses(q, b)
        BY <1>1, <3>2, <4>1, <4>2 DEF View, Uses, Using
      <4>3. CASE ~\E q \in Proc : Uses(q, b)
        BY <1>1, <3>2, <4>1, <4>3 DEF View
      <4>. QED  BY <4>2, <4>3
    <3>. QED  BY <3>1, <3>2
  <2>. QED  BY <2>1 DEF Owner
<1>. QED  BY <1>2, <1>3, <1>5, <1>6, <1>7 DEF Store!Acquire

\* A step that leaves the buffers, the disk and who uses them alone.
LEMMA Stutters ==
  ASSUME Inv, Inv', disk' = disk,
         \A x \in Buf : blockno'[x] = blockno[x] /\ (valid'[x] <=> valid[x]) /\ data'[x] = data[x],
         \A p \in Proc : /\ Using(p)' <=> Using(p)
                         /\ Using(p) => want'[p] = want[p] /\ use'[p] = use[p]
  PROVE  StoreStep
<1>1. \A p \in Proc : Using(p) => data'[use'[p]] = data[use[p]]
  BY HasBuffer DEF Inv, IInv, Using
<1>. QED  BY <1>1, SameContent, SameUse DEF StoreStep

\* The steps of the cache and the driver that their callers do not see: those
\* of bget(), acquiresleep(), bwrite(), iderw() and the end of brelse().
LEMMA HiddenRefines ==
  ASSUME Inv, Inv', NEW p \in Proc,
         \/ acquiresleep(p) \/ bwrite(p) \/ iderw(p) \/ Kill(p) \/ brelse(p)
         \/ \E b \in Block : BgetHit(p, b)
  PROVE  StoreStep
<1>. USE DEF bufVars, Goes
<1>1. disk' = disk /\ blockno' = blockno /\ valid' = valid /\ data' = data
  BY DEF acquiresleep, bwrite, iderw, Kill, brelse, BgetHit
<1>2. \A q \in Proc : /\ Using(q)' <=> Using(q)
                      /\ Using(q) => want'[q] = want[q] /\ use'[q] = use[q]
  <2>. USE DEF Inv, IInv, TypeOK, Using
  <2>1. CASE acquiresleep(p)
    BY <2>1 DEF acquiresleep
  <2>2. CASE bwrite(p)
    BY <2>2 DEF bwrite
  <2>3. CASE iderw(p)
    BY <2>3 DEF iderw
  <2>4. CASE Kill(p)
    BY <2>4 DEF Kill, Woken
  <2>5. CASE brelse(p)
    BY <2>5 DEF brelse
  <2>6. CASE \E b \in Block : BgetHit(p, b)
    BY <2>6 DEF BgetHit
  <2>. QED  BY <2>1, <2>2, <2>3, <2>4, <2>5, <2>6
<1>. QED  BY <1>1, <1>2, Stutters

\* A recycled buffer has no user, and the block that loses it is on the disk.
LEMMA BgetMissRefines ==
  ASSUME Inv, Inv', NEW p \in Proc, NEW b \in Block, BgetMiss(p, b)
  PROVE  StoreStep
<1>. USE DEF BgetMiss, Goes
<1>1. View /\ View' /\ IInv /\ Fresh
  BY Views, ViewsNext DEF Inv
<1>2. PICK x \in Buf : x = Recycled /\ Free(x)
  BY <1>1, RecycledFree DEF IInv
<1>3. /\ ~valid'[x] /\ ~dirty[x] /\ disk' = disk /\ data' = data
      /\ \A y \in Buf : y # x => (valid'[y] <=> valid[y]) /\ blockno'[y] = blockno[y]
  BY <1>1, <1>2 DEF IInv, TypeOK, Free
<1>4. ASSUME NEW c \in Block PROVE Content'[c] = Content[c]
  <2>1. CASE \E y \in Buf : y # x /\ valid[y] /\ blockno[y] = c
    BY <1>1, <1>3, <2>1 DEF View
  <2>2. CASE \A y \in Buf : y # x => ~(valid[y] /\ blockno[y] = c)
    <3>1. Content'[c] = disk[c]
      BY <1>1, <1>3, <2>2 DEF View
    <3>2. Content[c] = disk[c]
      <4>1. CASE valid[x] /\ blockno[x] = c
        BY <1>1, <1>3, <4>1 DEF View, Fresh
      <4>2. CASE ~(valid[x] /\ blockno[x] = c)
        BY <1>1, <2>2, <4>2 DEF View
      <4>. QED  BY <4>1, <4>2
    <3>. QED  BY <3>1, <3>2
  <2>. QED  BY <2>1, <2>2
<1>5. Content' = Content
  BY <1>4 DEF Content
<1>6. \A q \in Proc : /\ Using(q)' <=> Using(q)
                      /\ Using(q) => want'[q] = want[q] /\ data'[use'[q]] = data[use[q]]
  BY <1>1, <1>3 DEF Using, IInv, TypeOK
<1>. QED  BY <1>5, <1>6, SameUse DEF StoreStep

\* bread() gets the block at once when the buffer is valid.
LEMMA breadRefines ==
  ASSUME Inv, Inv', NEW p \in Proc, bread(p)
  PROVE  StoreStep
<1>. USE DEF bread, Goes
<1>1. CASE valid[use[p]]
  <2>1. Store!Acquire(p, want[p]) /\ want[p] \in Block
    BY <1>1, Acquires DEF Holding, Using
  <2>. QED  BY <2>1 DEF StoreStep, Store!Next
<1>2. CASE ~valid[use[p]]
  BY <1>2, Stutters DEF Using, bufVars, Inv, IInv, TypeOK
<1>. QED  BY <1>1, <1>2

\* The loop of iderw() ends a read with the block, or a write.
LEMMA IderwLoopRefines ==
  ASSUME Inv, Inv', NEW p \in Proc, IderwLoop(p)
  PROVE  StoreStep
<1>. USE DEF IderwLoop, Goes
<1>1. CASE at[p] = "rwoken" /\ ~Pending(use[p])
  <2>1. Store!Acquire(p, want[p]) /\ want[p] \in Block
    BY <1>1, Acquires DEF Holding, Using, Pending
  <2>. QED  BY <2>1 DEF StoreStep, Store!Next
<1>2. CASE ~(at[p] = "rwoken" /\ ~Pending(use[p]))
  BY <1>2, Stutters DEF Using, bufVars, Inv, IInv, TypeOK
<1>. QED  BY <1>1, <1>2

\* The interrupt changes a buffer that nobody uses, or writes what its user sees.
LEMMA ideintrRefines ==
  ASSUME Inv, Inv', ideintr, DiskErrors = FALSE
  PROVE  StoreStep
<1>1. View /\ View' /\ IInv /\ Fresh
  BY Views, ViewsNext DEF Inv
<1>2. PICK x \in Buf : x = Head(idequeue)
  BY <1>1 DEF ideintr, IInv, TypeOK
<1>3. /\ Pending(x) /\ holder[x] \in Proc /\ Waiting(holder[x]) /\ use[holder[x]] = x
      /\ blockno[x] \in Block
  <2>1. InQueue(x)
    BY <1>1, <1>2 DEF ideintr, InQueue, IInv, TypeOK
  <2>. QED  BY <1>1, <2>1, ServedBlock
<1>4. /\ valid' = [valid EXCEPT ![x] = TRUE] /\ at' = WakeUsers(x)
      /\ UNCHANGED <<blockno, want, use>>
  BY <1>2 DEF ideintr
<1>5. \A q \in Proc : Using(q)' <=> Using(q)
  BY <1>4 DEF WakeUsers, Woken, Using
<1>6. CASE dirty[x]
  <2>1. valid[x] /\ disk' = [disk EXCEPT ![blockno[x]] = data[x]] /\ data' = data
    BY <1>1, <1>2, <1>6 DEF ideintr, IInv, Flags
  <2>2. \A y \in Buf : valid'[y] <=> valid[y]
    BY <1>1, <1>4, <2>1 DEF IInv, TypeOK
  <2>3. ASSUME NEW b \in Block PROVE Content'[b] = Content[b]
    <3>1. CASE \E y \in Buf : valid[y] /\ blockno[y] = b
      BY <1>1, <1>4, <2>1, <2>2, <3>1 DEF View
    <3>2. CASE \A y \in Buf : ~(valid[y] /\ blockno[y] = b)
      <4>1. disk'[b] = disk[b]
        BY <1>1, <2>1, <3>2 DEF IInv, TypeOK
      <4>. QED  BY <1>1, <1>4, <2>2, <3>2, <4>1 DEF View
    <3>. QED  BY <3>1, <3>2
  <2>4. Content' = Content
    BY <2>3 DEF Content
  <2>. QED  BY <1>4, <1>5, <2>1, <2>4, SameUse DEF StoreStep
<1>7. CASE ~dirty[x]
  <2>1. ~valid[x] /\ disk' = disk /\ data' = [data EXCEPT ![x] = disk[blockno[x]]]
    BY <1>2, <1>3, <1>7 DEF ideintr, Pending
  <2>2. valid'[x] /\ \A y \in Buf : y # x => (valid'[y] <=> valid[y]) /\ data'[y] = data[y]
    BY <1>1, <1>4, <2>1 DEF IInv, TypeOK
  <2>3. data'[x] = disk[blockno[x]]
    BY <1>1, <2>1 DEF IInv, TypeOK
  <2>4. \A y \in Buf : y # x /\ valid[y] => blockno[y] # blockno[x]
    BY <1>1, <1>3, CacheAssumption DEF IInv, OneBuffer
  <2>5. ASSUME NEW b \in Block PROVE Content'[b] = Content[b]
    <3>1. CASE b = blockno[x]
      BY <1>1, <1>4, <2>1, <2>2, <2>3, <2>4, <3>1 DEF View
    <3>2. CASE b # blockno[x] /\ \E y \in Buf : valid[y] /\ blockno[y] = b
      BY <1>1, <1>4, <2>2, <3>2 DEF View
    <3>3. CASE b # blockno[x] /\ \A y \in Buf : ~(valid[y] /\ blockno[y] = b)
      BY <1>1, <1>4, <2>1, <2>2, <3>3 DEF View
    <3>. QED  BY <3>1, <3>2, <3>3
  <2>6. Content' = Content
    BY <2>5 DEF Content
  <2>7. \A q \in Proc : Using(q) => use[q] \in Buf /\ use[q] # x
    BY <1>1, <2>1, HasBuffer DEF IInv, Using, Flags
  <2>. QED  BY <1>4, <1>5, <2>2, <2>6, <2>7, SameUse DEF StoreStep
<1>. QED  BY <1>6, <1>7

\* The user of a block changes it.
LEMMA ModifyRefines ==
  ASSUME Inv, Inv', NEW p \in Proc, NEW v \in Val, Modify(p, v)
  PROVE  StoreStep
<1>1. View /\ View' /\ IInv
  BY Views, ViewsNext DEF Inv
<1>. DEFINE b == want[p]
<1>2. /\ Using(p) /\ use[p] \in Buf /\ valid[use[p]] /\ b \in Block /\ blockno[use[p]] = b
      /\ holder[use[p]] = p
  BY <1>1, HasBuffer DEF Modify, Using, Holding, IInv, Flags, Pointers, Locks, TypeOK
<1>3. /\ data' = [data EXCEPT ![use[p]] = v] /\ UNCHANGED <<blockno, valid, disk, want, use>>
      /\ (at' = at \/ at' = [at EXCEPT ![p] = "write"])
  BY DEF Modify, Goes
<1>4. \A q \in Proc : Using(q)' <=> Using(q)
  BY <1>1, <1>3 DEF Using, Modify, IInv, TypeOK
<1>5. \A q \in Proc : q # p /\ Using(q) => use[q] \in Buf /\ use[q] # use[p]
  BY <1>1, <1>2, HasBuffer DEF IInv, Using, Holding, Locks
<1>6. data'[use[p]] = v /\ \A y \in Buf : y # use[p] => data'[y] = data[y]
  BY <1>1, <1>2, <1>3 DEF IInv, TypeOK
<1>7. Seen' = [Seen EXCEPT ![p] = v]
  <2>1. \A q \in Proc : Seen'[q] = IF q = p THEN v ELSE Seen[q]
    BY <1>1, <1>2, <1>3, <1>4, <1>5, <1>6 DEF View
  <2>. QED  BY <2>1 DEF Seen
<1>8. Content' = [Content EXCEPT ![b] = v]
  <2>1. ASSUME NEW c \in Block PROVE Content'[c] = IF c = b THEN v ELSE Content[c]
    <3>1. CASE c = b
      BY <1>1, <1>2, <1>3, <1>6, <3>1 DEF View
    <3>2. CASE c # b /\ \E y \in Buf : valid[y] /\ blockno[y] = c
      BY <1>1, <1>2, <1>3, <1>6, <3>2 DEF View
    <3>3. CASE c # b /\ \A y \in Buf : ~(valid[y] /\ blockno[y] = c)
      BY <1>1, <1>3, <3>3 DEF View
    <3>. QED  BY <3>1, <3>2, <3>3
  <2>. QED  BY <2>1 DEF Content
<1>9. Owner' = Owner
  <2>1. ASSUME NEW c \in Block PROVE Owner'[c] = Owner[c]
    <3>1. \A q \in Proc : Uses(q, c)' <=> Uses(q, c)
      BY <1>3, <1>4 DEF Uses, Using
    <3>2. CASE \E q \in Proc : Uses(q, c)
      BY <1>1, <1>3, <3>1, <3>2 DEF View, Uses, Using
    <3>3. CASE ~\E q \in Proc : Uses(q, c)
      BY <1>1, <3>1, <3>3 DEF View
    <3>. QED  BY <3>2, <3>3
  <2>. QED  BY <2>1 DEF Owner
<1>10. Store!Write(p, b, v)
  BY <1>1, <1>2, <1>7, <1>8, <1>9 DEF Store!Write, View
<1>. QED  BY <1>2, <1>10 DEF StoreStep, Store!Next

\* brelse() gives the block to the next user.
LEMMA releasesleepRefines ==
  ASSUME Inv, Inv', NEW p \in Proc, releasesleep(p)
  PROVE  StoreStep
<1>. USE DEF bufVars
<1>1. View /\ View' /\ IInv
  BY Views, ViewsNext DEF Inv
<1>. DEFINE b == want[p]
<1>2. Using(p) /\ b \in Block
  BY <1>1 DEF releasesleep, Using, IInv, Pointers, TypeOK
<1>3. UNCHANGED <<blockno, valid, data, disk, use>> /\ want' = [want EXCEPT ![p] = NoBlock]
  BY DEF releasesleep
<1>4. ~Using(p)' /\ \A q \in Proc : q # p => (Using(q)' <=> Using(q)) /\ want'[q] = want[q]
  BY <1>1 DEF releasesleep, WakeLockers, Using, IInv, TypeOK
<1>5. Content' = Content
  BY <1>3, SameContent
<1>6. Seen' = [Seen EXCEPT ![p] = NoVal]
  <2>1. \A q \in Proc : Seen'[q] = IF q = p THEN NoVal ELSE Seen[q]
    BY <1>1, <1>3, <1>4 DEF View
  <2>. QED  BY <2>1 DEF Seen
<1>7. Owner' = [Owner EXCEPT ![b] = NoProc]
  <2>1. ASSUME NEW c \in Block PROVE Owner'[c] = IF c = b THEN NoProc ELSE Owner[c]
    <3>1. CASE c = b
      <4>1. \A q \in Proc : ~Uses(q, c)'
        BY <1>1, <1>2, <1>4, <3>1, OneUser DEF Uses, Using, Holding
      <4>. QED  BY <1>1, <3>1, <4>1 DEF View
    <3>2. CASE c # b
      <4>1. \A q \in Proc : Uses(q, c)' <=> Uses(q, c)
        BY <1>4, <3>2 DEF Uses, Using
      <4>2. CASE \E q \in Proc : Uses(q, c)
        BY <1>1, <3>2, <4>1, <4>2 DEF View, Uses, Using
      <4>3. CASE ~\E q \in Proc : Uses(q, c)
        BY <1>1, <3>2, <4>1, <4>3 DEF View
      <4>. QED  BY <4>2, <4>3
    <3>. QED  BY <3>1, <3>2
  <2>. QED  BY <2>1 DEF Owner
<1>8. Store!Release(p, b)
  BY <1>1, <1>2, <1>5, <1>6, <1>7 DEF Store!Release, View
<1>. QED  BY <1>2, <1>8 DEF StoreStep, Store!Next

\* With a disk that does not fail, bio.c and ide.c implement a store of blocks:
\* bread() gives a block to one process at a time, with what the last one left
\* there, although buffers are shared, recycled and written back through a
\* queue: for any number of processes, blocks and buffers.
THEOREM OneStore ==
  ASSUME DiskErrors = FALSE
  PROVE  Spec => ImplementsBlockStore
<1>1. Init => Store!Init
  <2>. SUFFICES ASSUME Init PROVE Store!Init
    OBVIOUS
  <2>1. IInv /\ Fresh
    BY InitInv DEF Init, Fresh
  <2>2. Content \in [Block -> Val]
    BY <2>1, Views DEF View
  <2>3. Owner = [b \in Block |-> NoProc] /\ Seen = [p \in Proc |-> NoVal]
    BY DEF Init, Owner, Seen, Uses
  <2>. QED  BY <2>2, <2>3 DEF Store!Init
<1>2. Init => Fresh
  BY DEF Init, Fresh
<1>3. IInv /\ Fresh /\ [Next]_vars => Fresh'
  <2>1. CASE UNCHANGED vars
    BY <2>1 DEF vars, Fresh
  <2>. QED  BY <2>1, FreshStep
<1>4. Inv /\ Inv' /\ [Next]_vars => [Store!Next]_(Store!vars)
  <2>. SUFFICES ASSUME Inv, Inv', [Next]_vars PROVE StoreStep
    BY DEF StoreStep, Store!vars
  <2>1. CASE UNCHANGED vars
    BY <2>1 DEF vars, StoreStep, Content, Owner, Seen, Cached, Uses
  <2>2. CASE Next
    BY <2>2, HiddenRefines, BgetMissRefines, breadRefines, IderwLoopRefines, ideintrRefines,
       ModifyRefines, releasesleepRefines DEF Next, Step
  <2>. QED  BY <2>1, <2>2
<1>5. Inv <=> IInv /\ Fresh
  BY DEF Inv
<1>. QED  BY <1>1, <1>2, <1>3, <1>4, <1>5, Invariance, PTL DEF Spec, ImplementsBlockStore, Store!Spec
=============================================================================
