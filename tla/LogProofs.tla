----------------------------- MODULE LogProofs -----------------------------
(***************************************************************************)
(* Proofs about Log, for any number of processes and blocks and any size   *)
(* of the log: nothing is lost by a crash, the header never overflows and  *)
(* nobody is left asleep.                                                  *)
(***************************************************************************)
EXTENDS Log, FiniteSetTheorems, TLAPS

\* Who may do what when: calls are in progress only between commits and after
\* the recovery; a commit is the work of one process, the last call in progress.
Turns ==
  /\ outstanding = Cardinality(InOp)
  /\ InOp # {} => phase = "run"
  /\ committing => phase \in {"log", "head", "install", "clear", "done"}
  /\ ~committing => phase \in {"run", "read", "install", "clear"}
  /\ committing <=> \E p \in Proc : at[p] = "commit"
  /\ \A p, r \in Proc : at[p] = "commit" /\ at[r] = "commit" => p = r

\* What a call has modified: at most MAXOPBLOCKS blocks, one of which it may
\* have locked in log_write().
Calls ==
  \A p \in Proc :
    /\ p \notin InOp => touched[p] = {}
    /\ Cardinality(touched[p]) <= MAXOPBLOCKS
    /\ at[p] = "write" => buf[p] \in touched[p]
    /\ at[p] # "write" => buf[p] = NoBlock

\* The two headers and the loops over them.
Distinct(s) == \A i, j \in 1..Len(s) : s[i] = s[j] => i = j
Headers ==
  /\ Distinct(lh) /\ Distinct(hdr)
  /\ Len(hdr) <= LOGSIZE
  /\ phase \in {"run", "log", "head", "done"} => hdr = <<>>
  /\ phase \in {"install", "clear"} => hdr = lh
  /\ phase \in {"read", "done"} => lh = <<>>
  /\ phase = "run" /\ InOp = {} => lh = <<>>
  /\ phase = "log" => tail <= Len(lh)
  /\ phase = "head" => tail = 1
  /\ phase = "install" => tail <= Len(lh) + 1
  /\ phase = "clear" => tail = Len(lh) + 1

\* What the cache and the log have of each block: the log behind a committed
\* header, the copies that write_log() has made, the blocks outside of the
\* transaction, its own ones, which stay in the cache until they are installed,
\* those installed so far and those still to be, and the cache after a crash.
InLog == \A i \in 1..Len(hdr) : logblk[i] \in Val
Copied ==
  /\ phase = "log" => \A i \in 1..(tail - 1) : logblk[i] = bread(lh[i])
  /\ phase = "head" => \A i \in 1..Len(lh) : logblk[i] = bread(lh[i])
Clean ==
  \A b \in Block :
    ~Logged(b) /\ (\A p \in Proc : buf[p] # b) => cache[b] \in {NoVal, disk[b]}
Pins ==
  /\ \A p \in Proc : at[p] = "write" => cache[buf[p]] # NoVal
  /\ phase \in {"run", "log", "head"} =>
       \A i \in 1..Len(lh) : lh[i] \in dirty /\ cache[lh[i]] # NoVal
Installing ==
  phase \in {"install", "clear"} =>
    /\ \A i \in 1..(tail - 1) : disk[lh[i]] = logblk[i] /\ cache[lh[i]] \in {NoVal, logblk[i]}
    /\ \A i \in tail..Len(lh) : IF committing THEN lh[i] \in dirty /\ cache[lh[i]] = logblk[i]
                                ELSE cache[lh[i]] = NoVal
Cold == phase = "read" => \A b \in Block : cache[b] = NoVal
Contents == InLog /\ Copied /\ Clean /\ Pins /\ Installing /\ Cold

\* The inductive invariant.
IInv == TypeOK /\ Turns /\ Calls /\ Headers /\ Contents /\ HeaderFits /\ SleepersWoken

-----------------------------------------------------------------------------
\* The sets that the invariant counts are finite.
LEMMA Finite ==
  TypeOK => /\ IsFiniteSet(InOp) /\ Cardinality(InOp) \in Nat
            /\ IsFiniteSet(Kept) /\ Reserved \in Nat
            /\ \A p \in Proc : /\ IsFiniteSet(touched[p]) /\ Cardinality(touched[p]) \in Nat
                               /\ IsFiniteSet(LoggedBy(p)) /\ Cardinality(LoggedBy(p)) \in Nat
<1>. HAVE TypeOK
<1>1. IsFiniteSet(InOp)
  <2>1. InOp \in SUBSET Proc
    BY DEF InOp
  <2>. QED  BY <2>1, LogAssumption, FS_Subset
<1>2. IsFiniteSet(Kept)
  <2>1. IsFiniteSet(Proc \X (1..MAXOPBLOCKS))
    <3>1. IsFiniteSet(1..MAXOPBLOCKS)
      BY LogAssumption, FS_Interval
    <3>. QED  BY <3>1, LogAssumption, FS_Product
  <2>2. Kept \in SUBSET (Proc \X (1..MAXOPBLOCKS))
    BY DEF Kept
  <2>. QED  BY <2>1, <2>2, FS_Subset
<1>3. ASSUME NEW p \in Proc PROVE IsFiniteSet(touched[p]) /\ IsFiniteSet(LoggedBy(p))
  <2>1. touched[p] \in SUBSET Block /\ LoggedBy(p) \in SUBSET Block
    BY DEF TypeOK, LoggedBy
  <2>. QED  BY <2>1, LogAssumption, FS_Subset
<1>. QED  BY <1>1, <1>2, <1>3, FS_CardinalityType DEF Reserved

\* The same of the next state.
LEMMA FiniteNext ==
  TypeOK' => (/\ IsFiniteSet(InOp) /\ Cardinality(InOp) \in Nat
              /\ IsFiniteSet(Kept) /\ Reserved \in Nat
              /\ \A p \in Proc : /\ IsFiniteSet(touched[p]) /\ Cardinality(touched[p]) \in Nat
                                 /\ IsFiniteSet(LoggedBy(p)) /\ Cardinality(LoggedBy(p)) \in Nat)'
BY Finite, PTL

\* The transaction never has more blocks than the arrays of the header.
LEMMA LenBound ==
  ASSUME TypeOK, HeaderFits
  PROVE  Len(lh) \in 0..LOGSIZE
BY LogAssumption, Finite DEF TypeOK, HeaderFits

\* A step that gives up places and adds no block keeps the reservation.
LEMMA FewerKept ==
  ASSUME TypeOK, HeaderFits, TypeOK', Kept' \subseteq Kept, Len(lh') <= Len(lh)
  PROVE  HeaderFits'
<1>1. Reserved' <= Reserved
  <2>1. IsFiniteSet(Kept) /\ Kept' \in SUBSET Kept
    BY Finite
  <2>. QED  BY <2>1, FS_Subset DEF Reserved
<1>2. Reserved \in Nat /\ Reserved' \in Nat /\ Len(lh) \in Nat /\ Len(lh') \in Nat
  BY Finite, FiniteNext DEF TypeOK
<1>. QED  BY <1>1, <1>2, LogAssumption DEF HeaderFits

\* With no call in progress no place is kept.
LEMMA NoneKept ==
  ASSUME TypeOK', InOp' = {}, Len(lh') <= LOGSIZE
  PROVE  HeaderFits'
<1>1. Kept' = {}
  BY DEF Kept
<1>2. Reserved' = 0
  BY <1>1, FS_EmptySet DEF Reserved
<1>. QED  BY <1>2 DEF HeaderFits, TypeOK

\* What a call has logged stays logged, so it keeps no more places: neither the
\* transaction nor the set of blocks that it has modified shrinks.
LEMMA KeptShrinks ==
  ASSUME TypeOK, TypeOK', InOp' \subseteq InOp,
         \A p \in InOp' : LoggedBy(p) \subseteq LoggedBy(p)'
  PROVE  Kept' \subseteq Kept
<1>1. SUFFICES ASSUME NEW e \in Kept' PROVE e \in Kept
  OBVIOUS
<1>2. e \in Proc \X (1..MAXOPBLOCKS) /\ e[1] \in InOp' /\ e[2] > Cardinality(LoggedBy(e[1])')
  BY <1>1 DEF Kept
<1>3. e[1] \in Proc /\ e[2] \in Nat
  BY <1>2, LogAssumption
<1>4. IsFiniteSet(LoggedBy(e[1])')
  <2>1. LoggedBy(e[1])' \in SUBSET Block
    BY <1>3 DEF TypeOK, LoggedBy
  <2>. QED  BY <2>1, LogAssumption, FS_Subset
<1>5. Cardinality(LoggedBy(e[1])) <= Cardinality(LoggedBy(e[1])')
  <2>1. LoggedBy(e[1]) \in SUBSET (LoggedBy(e[1])')
    BY <1>2
  <2>. QED  BY <1>4, <2>1, FS_Subset
<1>6. Cardinality(LoggedBy(e[1])) \in Nat /\ Cardinality(LoggedBy(e[1])') \in Nat
  BY <1>3, <1>4, Finite, FS_CardinalityType
<1>7. e[2] > Cardinality(LoggedBy(e[1]))
  BY <1>2, <1>3, <1>5, <1>6
<1>. QED  BY <1>2, <1>7 DEF Kept

-----------------------------------------------------------------------------
\* bget() may recycle a clean buffer: the transaction is dirty.
LEMMA EvictInv ==
  ASSUME IInv, NEW b \in Block, Evict(b)
  PROVE  IInv'
<1>. USE DEF IInv, Evict, Pinned, diskVars, opVars
<1>1. TypeOK'
  BY DEF TypeOK, Phase
<1>2. Turns'
  BY DEF Turns, InOp, TypeOK
<1>3. Calls'
  BY DEF Calls, InOp, TypeOK
<1>4. Headers'
  BY DEF Headers, Distinct, InOp, TypeOK
<1>5. InLog'
  BY DEF Contents, InLog, TypeOK
<1>6. Copied'
  BY DEF Contents, Copied, Pins, bread, Headers, TypeOK
<1>7. Clean'
  BY DEF Contents, Clean, Logged, Headers, TypeOK
<1>8. Pins'
  BY DEF Contents, Pins, Logged, Headers, TypeOK
<1>9. Installing'
  BY DEF Contents, Installing, Headers, Distinct, TypeOK
<1>10. Cold'
  BY DEF Contents, Cold, TypeOK
<1>11. HeaderFits'
  BY DEF HeaderFits, Reserved, Kept, InOp, LoggedBy, Logged
<1>12. SleepersWoken'
  BY DEF SleepersWoken, TypeOK
<1>. QED  BY <1>1, <1>2, <1>3, <1>4, <1>5, <1>6, <1>7, <1>8, <1>9, <1>10, <1>11, <1>12 DEF Contents

\* begin_op() lets a call in only when the log has places for all of its blocks.
LEMMA begin_opInv ==
  ASSUME IInv, NEW p \in Proc, begin_op(p)
  PROVE  IInv'
<1>. USE DEF IInv, begin_op, MustWait, NoSpace, Started, diskVars, opVars
<1>1. TypeOK'
  BY DEF TypeOK, Phase
<1>2. Turns'
  <2>1. CASE MustWait
    <3>1. InOp' = InOp
      BY <2>1 DEF InOp, TypeOK
    <3>. QED  BY <2>1, <3>1 DEF Turns, TypeOK
  <2>2. CASE ~MustWait
    <3>1. InOp' = InOp \cup {p} /\ p \notin InOp
      BY <2>2 DEF InOp, TypeOK
    <3>2. Cardinality(InOp') = Cardinality(InOp) + 1
      BY <3>1, Finite, FS_AddElement
    <3>. QED  BY <2>2, <3>1, <3>2 DEF Turns, TypeOK
  <2>. QED  BY <2>1, <2>2
<1>3. Calls'
  BY DEF Calls, InOp, TypeOK
<1>4. Headers'
  BY DEF Headers, Distinct, InOp, TypeOK
<1>5. InLog'
  BY DEF Contents, InLog, TypeOK
<1>6. Copied'
  BY DEF Contents, Copied, bread, Headers, Distinct, TypeOK
<1>7. Clean'
  BY DEF Contents, Clean, Logged, Headers, TypeOK
<1>8. Pins'
  BY DEF Contents, Pins, Logged, Headers, TypeOK
<1>9. Installing'
  BY DEF Contents, Installing, Headers, Distinct, TypeOK
<1>10. Cold'
  BY DEF Contents, Cold, TypeOK
<1>11. HeaderFits'
  <2>1. CASE MustWait
    <3>1. Kept' \subseteq Kept
      BY <2>1, <1>1, KeptShrinks DEF InOp, LoggedBy, Logged, TypeOK
    <3>. QED  BY <1>1, <3>1, FewerKept DEF TypeOK
  <2>2. CASE ~MustWait
    <3>1. IsFiniteSet(1..MAXOPBLOCKS) /\ Cardinality(1..MAXOPBLOCKS) = MAXOPBLOCKS
      BY LogAssumption, FS_Interval
    <3>2. /\ IsFiniteSet(InOp' \X (1..MAXOPBLOCKS))
          /\ Cardinality(InOp' \X (1..MAXOPBLOCKS)) = Cardinality(InOp') * MAXOPBLOCKS
      BY <1>1, <3>1, FiniteNext, FS_Product
    <3>3. Kept' \in SUBSET (InOp' \X (1..MAXOPBLOCKS))
      BY DEF Kept
    <3>4. Reserved' <= Cardinality(InOp') * MAXOPBLOCKS
      BY <3>2, <3>3, FS_Subset DEF Reserved
    <3>5. Cardinality(InOp') = outstanding + 1
      BY <1>2, <2>2 DEF Turns, TypeOK
    <3>6. Reserved' <= (outstanding + 1) * MAXOPBLOCKS
      BY <3>4, <3>5
    <3>7. (outstanding + 1) * MAXOPBLOCKS \in Nat
      BY LogAssumption DEF TypeOK
    <3>8. Len(lh) + (outstanding + 1) * MAXOPBLOCKS <= LOGSIZE /\ lh' = lh
      BY <2>2, <3>7, LogAssumption DEF TypeOK
    <3>. QED  BY <1>1, <3>6, <3>7, <3>8, FiniteNext, LogAssumption DEF HeaderFits, TypeOK
  <2>. QED  BY <2>1, <2>2
<1>12. SleepersWoken'
  <2>1. CASE MustWait
    <3>1. CASE committing
      BY <3>1 DEF SleepersWoken
    <3>2. CASE ~committing
      <4>1. outstanding # 0
        <5>1. SUFFICES ASSUME outstanding = 0 PROVE FALSE
          OBVIOUS
        <5>2. InOp = {}
          BY <5>1, Finite, FS_EmptySet DEF Turns
        <5>3. Len(lh) = 0
          BY <3>2, <5>2 DEF Headers
        <5>. QED  BY <2>1, <3>2, <5>1, <5>3, LogAssumption
      <4>. QED  BY <2>1, <4>1 DEF SleepersWoken, TypeOK
    <3>. QED  BY <3>1, <3>2
  <2>2. CASE ~MustWait
    BY <2>2 DEF SleepersWoken, TypeOK
  <2>. QED  BY <2>1, <2>2
<1>. QED  BY <1>1, <1>2, <1>3, <1>4, <1>5, <1>6, <1>7, <1>8, <1>9, <1>10, <1>11, <1>12 DEF Contents

\* A modified buffer is locked until log_write() has added it to the transaction.
LEMMA ModifyInv ==
  ASSUME IInv, NEW p \in Proc, NEW b \in Block, NEW v \in Val, Modify(p, b, v)
  PROVE  IInv'
<1>. USE DEF IInv, Modify, diskVars, opVars
<1>0. /\ phase = "run" /\ buf[p] = NoBlock
      /\ v # NoVal /\ NoBlock \notin Block
  BY LogAssumption DEF Turns, Calls, InOp
<1>1. TypeOK'
  BY DEF TypeOK, Phase
<1>2. Turns'
  BY DEF Turns, InOp, TypeOK
<1>3. Calls'
  BY DEF Calls, InOp, TypeOK
<1>4. Headers'
  BY DEF Headers, Distinct, InOp, TypeOK
<1>5. InLog'
  BY DEF Contents, InLog, TypeOK
<1>6. Copied'
  BY <1>0 DEF Copied
<1>7. Clean'
  BY <1>0 DEF Contents, Clean, Logged, TypeOK
<1>8. Pins'
  BY <1>0 DEF Contents, Pins, TypeOK
<1>9. Installing'
  BY <1>0 DEF Installing
<1>10. Cold'
  BY <1>0 DEF Cold
<1>11. HeaderFits'
  <2>1. Kept' \subseteq Kept
    BY <1>1, KeptShrinks DEF InOp, LoggedBy, Logged, TypeOK
  <2>. QED  BY <1>1, <2>1, FewerKept DEF TypeOK
<1>12. SleepersWoken'
  BY DEF SleepersWoken, TypeOK
<1>. QED  BY <1>1, <1>2, <1>3, <1>4, <1>5, <1>6, <1>7, <1>8, <1>9, <1>10, <1>11, <1>12 DEF Contents

\* log_write() uses one of the places that begin_op() has kept for the call.
LEMMA log_writeInv ==
  ASSUME IInv, NEW p \in Proc, log_write(p)
  PROVE  IInv'
<1>. USE DEF IInv, log_write, Logged, diskVars, opVars
<1>. DEFINE b == buf[p]
<1>0. /\ phase = "run" /\ phase' = "run" /\ hdr = <<>> /\ NoBlock \notin Block
      /\ b \in Block /\ b \in touched[p] /\ p \in InOp
      /\ InOp' = InOp
  BY LogAssumption DEF Turns, Calls, InOp, Headers, TypeOK
<1>a. /\ lh' \in Seq(Block) /\ Len(lh') \in {Len(lh), Len(lh) + 1}
      /\ \A i \in 1..Len(lh) : lh'[i] = lh[i]
      /\ Len(lh') # Len(lh) => ~Logged(b) /\ lh'[Len(lh) + 1] = b
      /\ Logged(b) => lh' = lh
      /\ ~Logged(b) => Len(lh') = Len(lh) + 1
  <2>1. CASE Logged(b)
    <3>1. lh' = lh /\ lh \in Seq(Block)
      BY <2>1 DEF TypeOK
    <3>. QED  BY <2>1, <3>1
  <2>2. CASE ~Logged(b)
    <3>1. lh' = Append(lh, b) /\ lh \in Seq(Block) /\ b \in Block
      BY <1>0, <2>2 DEF TypeOK
    <3>. QED  BY <2>2, <3>1
  <2>. QED  BY <2>1, <2>2
<1>b. \A c \in Block : Logged(c)' <=> Logged(c) \/ c = b
  BY <1>0, <1>a DEF TypeOK
<1>1. TypeOK'
  BY <1>0, <1>a DEF TypeOK, Phase
<1>2. Turns'
  BY DEF Turns, InOp, TypeOK
<1>3. Calls'
  BY DEF Calls, InOp, TypeOK
<1>4. Headers'
  <2>1. Distinct(lh')
    BY <1>0, <1>a DEF Headers, Distinct, TypeOK
  <2>. QED  BY <1>0, <2>1 DEF Headers, Distinct, TypeOK
<1>5. InLog'
  BY DEF Contents, InLog, TypeOK
<1>6. Copied'
  BY <1>0 DEF Copied
<1>7. Clean'
  BY <1>0, <1>b DEF Contents, Clean, TypeOK
<1>8. Pins'
  BY <1>0, <1>a DEF Contents, Pins, TypeOK
<1>9. Installing'
  BY <1>0 DEF Installing
<1>10. Cold'
  BY DEF Contents, Cold, TypeOK
<1>11. HeaderFits'
  <2>1. \A r \in InOp' : LoggedBy(r) \subseteq LoggedBy(r)'
    BY <1>0, <1>b DEF LoggedBy, InOp, TypeOK
  <2>2. Kept' \subseteq Kept
    BY <1>0, <1>1, <2>1, KeptShrinks
  <2>3. CASE Logged(b)
    BY <1>1, <1>a, <2>2, <2>3, FewerKept DEF TypeOK
  <2>4. CASE ~Logged(b)
    <3>. DEFINE k == Cardinality(LoggedBy(p)) + 1
                e == <<p, k>>
    <3>1. LoggedBy(p)' = LoggedBy(p) \cup {b} /\ b \notin LoggedBy(p)
      BY <1>0, <1>b, <2>4 DEF LoggedBy, TypeOK
    <3>2. IsFiniteSet(LoggedBy(p)) /\ Cardinality(LoggedBy(p)) \in Nat
      BY Finite
    <3>3. Cardinality(LoggedBy(p)') = k
      BY <3>1, <3>2, FS_AddElement
    <3>4. k <= MAXOPBLOCKS
      <4>1. LoggedBy(p) \cup {b} \in SUBSET touched[p]
        BY <1>0 DEF LoggedBy
      <4>2. Cardinality(LoggedBy(p) \cup {b}) <= Cardinality(touched[p])
        BY <4>1, Finite, FS_Subset
      <4>3. Cardinality(touched[p]) <= MAXOPBLOCKS /\ Cardinality(touched[p]) \in Nat
        BY Finite DEF Calls
      <4>. QED  BY <3>1, <3>2, <3>3, <4>2, <4>3, LogAssumption
    <3>5. e \in Kept
      BY <1>0, <3>2, <3>4, LogAssumption DEF Kept
    <3>6. e \notin Kept'
      BY <3>2, <3>3 DEF Kept
    <3>7. Kept' \in SUBSET (Kept \ {e})
      BY <2>2, <3>6
    <3>8. IsFiniteSet(Kept \ {e}) /\ Cardinality(Kept \ {e}) = Reserved - 1
      BY <3>5, Finite, FS_RemoveElement DEF Reserved
    <3>9. Reserved' <= Reserved - 1
      BY <3>7, <3>8, FS_Subset DEF Reserved
    <3>10. Len(lh') = Len(lh) + 1 /\ Len(lh) \in Nat /\ Reserved \in Nat /\ Reserved' \in Nat
      BY <1>1, <1>a, <2>4, Finite, FiniteNext DEF TypeOK
    <3>. QED  BY <3>9, <3>10, LogAssumption DEF HeaderFits
  <2>. QED  BY <2>3, <2>4
<1>12. SleepersWoken'
  BY DEF SleepersWoken, TypeOK
<1>. QED  BY <1>1, <1>2, <1>3, <1>4, <1>5, <1>6, <1>7, <1>8, <1>9, <1>10, <1>11, <1>12 DEF Contents

\* end_op() gives up the places of its call; the last one leaves none.
LEMMA end_opInv ==
  ASSUME IInv, NEW p \in Proc, end_op(p)
  PROVE  IInv'
<1>. USE DEF IInv, end_op, LastOp, wakeup, diskVars, opVars
<1>0. /\ phase = "run" /\ ~committing /\ hdr = <<>> /\ p \in InOp
      /\ buf[p] = NoBlock /\ outstanding = Cardinality(InOp)
      /\ \A r \in Proc : at[r] # "commit"
  BY DEF Turns, Calls, InOp, Headers, TypeOK
<1>a. InOp' = InOp \ {p}
  BY DEF InOp, TypeOK
<1>b. outstanding' = Cardinality(InOp') /\ outstanding' \in Nat /\ outstanding \in Nat
  <2>1. IsFiniteSet(InOp \ {p}) /\ Cardinality(InOp \ {p}) = Cardinality(InOp) - 1
    BY <1>0, Finite, FS_RemoveElement
  <2>2. Cardinality(InOp \ {p}) \in Nat
    BY <2>1, FS_CardinalityType
  <2>. QED  BY <1>0, <1>a, <2>1, <2>2 DEF TypeOK
<1>c. outstanding' = 0 <=> InOp' = {}
  BY <1>a, <1>b, Finite, FS_RemoveElement, FS_EmptySet
<1>1. TypeOK'
  <2>1. CASE outstanding' = 0
    <3>1. tail' \in 1..(LOGSIZE + 1) /\ phase' \in Phase /\ committing' \in BOOLEAN
      <4>1. tail' = 1 /\ committing' = TRUE /\ phase' \in {"done", "log"}
        BY <2>1
      <4>. QED  BY <4>1, LogAssumption DEF Phase
    <3>. QED  BY <1>b, <2>1, <3>1 DEF TypeOK
  <2>2. CASE outstanding' # 0
    BY <1>b, <2>2 DEF TypeOK, Phase
  <2>. QED  BY <2>1, <2>2
<1>2. Turns'
  <2>1. CASE outstanding' = 0
    BY <1>0, <1>b, <1>c, <2>1 DEF Turns, TypeOK
  <2>2. CASE outstanding' # 0
    BY <1>0, <1>b, <1>c, <2>2 DEF Turns, TypeOK
  <2>. QED  BY <2>1, <2>2
<1>3. Calls'
  <2>1. Cardinality({}) = 0
    BY FS_EmptySet
  <2>. QED  BY <1>0, <1>a, <2>1, LogAssumption DEF Calls, InOp, TypeOK
<1>4. Headers'
  <2>1. CASE outstanding' = 0
    BY <1>0, <1>c, <2>1 DEF Headers, TypeOK
  <2>2. CASE outstanding' # 0
    BY <1>0, <1>c, <2>2 DEF Headers, TypeOK
  <2>. QED  BY <2>1, <2>2
<1>5. InLog'
  BY <1>0 DEF InLog
<1>6. Copied'
  BY <1>0 DEF Copied
<1>7. Clean'
  BY DEF Contents, Clean, Logged
<1>8. Pins'
  BY <1>0 DEF Contents, Pins, TypeOK
<1>9. Installing'
  BY <1>0 DEF Installing
<1>10. Cold'
  BY <1>0 DEF Cold
<1>11. HeaderFits'
  <2>1. \A r \in InOp' : LoggedBy(r) = LoggedBy(r)'
    BY <1>a DEF LoggedBy, Logged, InOp, TypeOK
  <2>2. Kept' \subseteq Kept
    BY <1>1, <1>a, <2>1, KeptShrinks
  <2>. QED  BY <1>1, <2>2, FewerKept DEF TypeOK
<1>12. SleepersWoken'
  BY DEF SleepersWoken, TypeOK
<1>. QED  BY <1>1, <1>2, <1>3, <1>4, <1>5, <1>6, <1>7, <1>8, <1>9, <1>10, <1>11, <1>12 DEF Contents

\* The end of a commit wakes those who sleep in begin_op().
LEMMA CommitDoneInv ==
  ASSUME IInv, NEW p \in Proc, CommitDone(p)
  PROVE  IInv'
<1>. USE DEF IInv, CommitDone, wakeup, diskVars, opVars
<1>1. TypeOK'
  BY DEF TypeOK, Phase
<1>2. Turns'
  BY DEF Turns, InOp, TypeOK
<1>3. Calls'
  BY DEF Calls, InOp, TypeOK
<1>4. Headers'
  BY DEF Headers, Distinct, InOp, TypeOK
<1>5. InLog'
  BY DEF Contents, InLog, TypeOK
<1>6. Copied'
  BY DEF Contents, Copied, bread, Headers, Distinct, TypeOK
<1>7. Clean'
  BY DEF Contents, Clean, Logged, Headers, TypeOK
<1>8. Pins'
  BY DEF Contents, Pins, Logged, Headers, TypeOK
<1>9. Installing'
  BY DEF Contents, Installing, Headers, Distinct, TypeOK
<1>10. Cold'
  BY DEF Contents, Cold, TypeOK
<1>11. HeaderFits'
  <2>1. InOp' = {} /\ Len(lh') = 0
    BY DEF Turns, InOp, Headers, TypeOK
  <2>. QED  BY <1>1, <2>1, NoneKept, LogAssumption
<1>12. SleepersWoken'
  BY DEF SleepersWoken, TypeOK
<1>. QED  BY <1>1, <1>2, <1>3, <1>4, <1>5, <1>6, <1>7, <1>8, <1>9, <1>10, <1>11, <1>12 DEF Contents

\* write_log() copies the transaction.
LEMMA write_logInv ==
  ASSUME IInv, write_log
  PROVE  IInv'
<1>. USE DEF IInv, write_log, diskVars, opVars
<1>0. /\ tail \in 1..Len(lh) /\ Len(lh) \in 0..LOGSIZE /\ hdr = <<>>
      /\ lh[tail] \in Block /\ bread(lh[tail]) \in Val \cup {NoVal}
  BY LenBound, LogAssumption DEF Headers, TypeOK, bread
<1>1. TypeOK'
  BY <1>0, LogAssumption DEF TypeOK, Phase
<1>2. Turns'
  BY DEF Turns, InOp, TypeOK
<1>3. Calls'
  BY DEF Calls, InOp, TypeOK
<1>4. Headers'
  BY DEF Headers, Distinct, InOp, TypeOK
<1>5. InLog'
  BY <1>0 DEF InLog
<1>6. Copied'
  <2>1. CASE tail = Len(lh)
    BY <1>0, <2>1 DEF Contents, Copied, bread, TypeOK
  <2>2. CASE tail # Len(lh)
    <3>1. phase' = "log" /\ tail' - 1 = tail /\ lh' = lh /\ cache' = cache /\ disk' = disk
      BY <1>0, <2>2
    <3>2. ASSUME NEW i \in 1..tail PROVE logblk'[i] = bread(lh[i])
      <4>1. CASE i = tail
        BY <1>0, <4>1, LogAssumption DEF TypeOK
      <4>2. CASE i # tail
        <5>1. i \in 1..(tail - 1) /\ i \in 1..LOGSIZE
          BY <1>0, <3>2, <4>2, LogAssumption DEF TypeOK
        <5>2. logblk'[i] = logblk[i]
          BY <4>2, <5>1 DEF TypeOK
        <5>. QED  BY <5>1, <5>2 DEF Contents, Copied
      <4>. QED  BY <4>1, <4>2
    <3>. QED  BY <3>1, <3>2 DEF Copied, bread
  <2>. QED  BY <2>1, <2>2
<1>7. Clean'
  BY DEF Contents, Clean, Logged, Headers, TypeOK
<1>8. Pins'
  BY DEF Contents, Pins, Logged, Headers, TypeOK
<1>9. Installing'
  BY DEF Contents, Installing, Headers, Distinct, TypeOK
<1>10. Cold'
  BY DEF Contents, Cold, TypeOK
<1>11. HeaderFits'
  BY DEF HeaderFits, Reserved, Kept, InOp, LoggedBy, Logged
<1>12. SleepersWoken'
  BY DEF SleepersWoken, TypeOK
<1>. QED  BY <1>1, <1>2, <1>3, <1>4, <1>5, <1>6, <1>7, <1>8, <1>9, <1>10, <1>11, <1>12 DEF Contents

\* write_head() commits exactly what write_log() has copied.
LEMMA write_headInv ==
  ASSUME IInv, write_head
  PROVE  IInv'
<1>. USE DEF IInv, write_head, diskVars, opVars
<1>0. /\ Len(lh) \in 0..LOGSIZE /\ tail = 1 /\ committing
      /\ \A i \in 1..Len(lh) : logblk[i] = cache[lh[i]] /\ cache[lh[i]] \in Val /\ lh[i] \in dirty
  BY LenBound DEF Headers, Turns, Contents, Copied, Pins, bread, TypeOK
<1>1. TypeOK'
  BY DEF TypeOK, Phase
<1>2. Turns'
  BY DEF Turns, InOp, TypeOK
<1>3. Calls'
  BY DEF Calls, InOp, TypeOK
<1>4. Headers'
  BY <1>0 DEF Headers, Distinct, TypeOK
<1>5. InLog'
  BY <1>0 DEF InLog
<1>6. Copied'
  BY DEF Contents, Copied, bread, Headers, Distinct, TypeOK
<1>7. Clean'
  BY DEF Contents, Clean, Logged, Headers, TypeOK
<1>8. Pins'
  BY DEF Contents, Pins, Logged, Headers, TypeOK
<1>9. Installing'
  BY <1>0 DEF Installing, TypeOK
<1>10. Cold'
  BY DEF Contents, Cold, TypeOK
<1>11. HeaderFits'
  BY DEF HeaderFits, Reserved, Kept, InOp, LoggedBy, Logged
<1>12. SleepersWoken'
  BY DEF SleepersWoken, TypeOK
<1>. QED  BY <1>1, <1>2, <1>3, <1>4, <1>5, <1>6, <1>7, <1>8, <1>9, <1>10, <1>11, <1>12 DEF Contents

\* install_trans() brings one block home, in a commit and in a recovery alike.
LEMMA install_transInv ==
  ASSUME IInv, install_trans
  PROVE  IInv'
<1>. USE DEF IInv, install_trans, diskVars, opVars
<1>0. /\ Len(lh) \in 0..LOGSIZE /\ hdr = lh /\ tail \in 1..(Len(lh) + 1)
      /\ \A i \in 1..Len(lh) : logblk[i] \in Val /\ lh[i] \in Block
  BY LenBound DEF Headers, Contents, InLog, TypeOK
<1>1. TypeOK'
  <2>1. CASE tail <= Len(lh)
    <3>1. lh[tail] \in Block /\ logblk[tail] \in Val /\ tail + 1 \in 1..(LOGSIZE + 1)
      BY <1>0, <2>1, LogAssumption
    <3>2. disk' \in [Block -> Val] /\ cache' \in [Block -> Val \cup {NoVal}]
      BY <2>1, <3>1 DEF TypeOK
    <3>. QED  BY <2>1, <3>1, <3>2 DEF TypeOK
  <2>2. CASE tail > Len(lh)
    BY <1>0, <2>2 DEF TypeOK, Phase
  <2>. QED  BY <1>0, <2>1, <2>2
<1>2. Turns'
  BY DEF Turns, InOp, TypeOK
<1>3. Calls'
  BY DEF Calls, InOp, TypeOK
<1>4. Headers'
  BY DEF Headers, Distinct, InOp, TypeOK
<1>5. InLog'
  BY DEF Contents, InLog, TypeOK
<1>6. Copied'
  BY DEF Contents, Copied, bread, Headers, Distinct, TypeOK
<1>7. Clean'
  BY DEF Contents, Clean, Logged, Headers, TypeOK
<1>8. Pins'
  BY DEF Contents, Pins, Turns, InOp
<1>9. Installing'
  BY DEF Contents, Installing, Headers, Distinct, TypeOK
<1>10. Cold'
  BY DEF Contents, Cold, TypeOK
<1>11. HeaderFits'
  BY DEF HeaderFits, Reserved, Kept, InOp, LoggedBy, Logged
<1>12. SleepersWoken'
  BY DEF SleepersWoken, TypeOK
<1>. QED  BY <1>1, <1>2, <1>3, <1>4, <1>5, <1>6, <1>7, <1>8, <1>9, <1>10, <1>11, <1>12 DEF Contents

\* The header is erased when every block is home.
LEMMA ClearLogInv ==
  ASSUME IInv, ClearLog
  PROVE  IInv'
<1>. USE DEF IInv, ClearLog, diskVars, opVars
<1>0. /\ InOp = {} /\ tail = Len(lh) + 1 /\ \A r \in Proc : at[r] # "write"
      /\ \A i \in 1..Len(lh) : disk[lh[i]] = logblk[i] /\ cache[lh[i]] \in {NoVal, logblk[i]}
  BY DEF Turns, InOp, Headers, Contents, Installing, TypeOK
<1>1. TypeOK'
  BY DEF TypeOK, Phase
<1>2. Turns'
  BY DEF Turns, InOp, TypeOK
<1>3. Calls'
  BY DEF Calls, InOp, TypeOK
<1>4. Headers'
  <2>1. Len(lh') = 0 /\ Len(hdr') = 0
    OBVIOUS
  <2>. QED  BY <2>1, LogAssumption DEF Headers, Distinct, TypeOK
<1>5. InLog'
  BY DEF Contents, InLog, TypeOK
<1>6. Copied'
  BY DEF Contents, Copied, bread, Headers, Distinct, TypeOK
<1>7. Clean'
  BY <1>0 DEF Contents, Clean, Logged, TypeOK
<1>8. Pins'
  BY DEF Contents, Pins, Logged, Headers, TypeOK
<1>9. Installing'
  BY DEF Contents, Installing, Headers, Distinct, TypeOK
<1>10. Cold'
  BY DEF Contents, Cold, TypeOK
<1>11. HeaderFits'
  <2>1. InOp' = {} /\ Len(lh') = 0
    BY <1>0 DEF InOp
  <2>. QED  BY <1>1, <2>1, NoneKept, LogAssumption
<1>12. SleepersWoken'
  BY DEF SleepersWoken, TypeOK
<1>. QED  BY <1>1, <1>2, <1>3, <1>4, <1>5, <1>6, <1>7, <1>8, <1>9, <1>10, <1>11, <1>12 DEF Contents

\* A crash leaves the disk and the log.
LEMMA CrashInv ==
  ASSUME IInv, Crash
  PROVE  IInv'
<1>. USE DEF IInv, Crash, diskVars, opVars
<1>0. InOp' = {} /\ Cardinality(InOp') = 0 /\ Cardinality({}) = 0
  BY FS_EmptySet DEF InOp
<1>1. TypeOK'
  <2>1. lh' \in Seq(Block)
    OBVIOUS
  <2>. QED  BY <2>1 DEF TypeOK, Phase
<1>2. Turns'
  BY <1>0 DEF Turns, TypeOK
<1>3. Calls'
  BY <1>0, LogAssumption DEF Calls, TypeOK
<1>4. Headers'
  BY DEF Headers, Distinct, InOp, TypeOK
<1>5. InLog'
  BY DEF Contents, InLog, TypeOK
<1>6. Copied'
  BY DEF Contents, Copied, bread, Headers, Distinct, TypeOK
<1>7. Clean'
  BY DEF Contents, Clean, Logged, Headers, TypeOK
<1>8. Pins'
  BY DEF Contents, Pins, Logged, Headers, TypeOK
<1>9. Installing'
  BY DEF Contents, Installing, Headers, Distinct, TypeOK
<1>10. Cold'
  BY DEF Contents, Cold, TypeOK
<1>11. HeaderFits'
  <2>1. Len(lh') = 0
    OBVIOUS
  <2>. QED  BY <1>0, <1>1, <2>1, NoneKept, LogAssumption
<1>12. SleepersWoken'
  BY DEF SleepersWoken, TypeOK
<1>. QED  BY <1>1, <1>2, <1>3, <1>4, <1>5, <1>6, <1>7, <1>8, <1>9, <1>10, <1>11, <1>12 DEF Contents

\* The recovery installs what the header names.
LEMMA read_headInv ==
  ASSUME IInv, read_head
  PROVE  IInv'
<1>. USE DEF IInv, read_head, AfterRead, diskVars, opVars
<1>1. TypeOK'
  BY LogAssumption DEF TypeOK, Phase
<1>2. Turns'
  BY DEF Turns, InOp, TypeOK
<1>3. Calls'
  BY DEF Calls, InOp, TypeOK
<1>4. Headers'
  BY DEF Headers, Distinct, InOp, TypeOK
<1>5. InLog'
  BY DEF Contents, InLog, TypeOK
<1>6. Copied'
  BY DEF Contents, Copied, bread, Headers, Distinct, TypeOK
<1>7. Clean'
  BY DEF Contents, Clean, Logged, Headers, TypeOK
<1>8. Pins'
  BY DEF Contents, Pins, Logged, Headers, TypeOK
<1>9. Installing'
  BY DEF Contents, Cold, Installing, Turns, TypeOK
<1>10. Cold'
  BY DEF Contents, Cold, TypeOK
<1>11. HeaderFits'
  <2>1. InOp' = {} /\ Len(lh') <= LOGSIZE
    BY DEF Turns, InOp, Headers, TypeOK
  <2>. QED  BY <1>1, <2>1, NoneKept
<1>12. SleepersWoken'
  BY DEF SleepersWoken, TypeOK
<1>. QED  BY <1>1, <1>2, <1>3, <1>4, <1>5, <1>6, <1>7, <1>8, <1>9, <1>10, <1>11, <1>12 DEF Contents

\* Each action of the log.
LEMMA StepInv ==
  ASSUME IInv, Next
  PROVE  IInv'
BY EvictInv, begin_opInv, ModifyInv, log_writeInv, end_opInv, CommitDoneInv, write_logInv,
   write_headInv, install_transInv, ClearLogInv, CrashInv, read_headInv DEF Next

\* The machine starts with an empty log, and recovers from it.
LEMMA InitInv ==
  ASSUME Init
  PROVE  IInv
<1>. USE LogAssumption DEF Init
<1>1. InOp = {} /\ Kept = {} /\ Len(lh) = 0 /\ Len(hdr) = 0
  BY DEF InOp, Kept
<1>2. Cardinality(InOp) = 0 /\ Reserved = 0 /\ Cardinality({}) = 0
  BY <1>1, FS_EmptySet DEF Reserved
<1>3. TypeOK
  <2>1. lh \in Seq(Block) /\ hdr \in Seq(Block)
    OBVIOUS
  <2>2. tail \in 1..(LOGSIZE + 1) /\ phase \in Phase
    BY DEF Phase
  <2>. QED  BY <2>1, <2>2 DEF TypeOK
<1>4. Turns /\ Calls
  BY <1>1, <1>2 DEF Turns, Calls
<1>5. Headers
  BY <1>1 DEF Headers, Distinct
<1>6. Contents
  BY <1>1 DEF Contents, InLog, Copied, Clean, Pins, Installing, Cold
<1>7. HeaderFits /\ SleepersWoken
  BY <1>1, <1>2 DEF HeaderFits, SleepersWoken
<1>. QED  BY <1>3, <1>4, <1>5, <1>6, <1>7 DEF IInv

\* The invariant holds whenever the machine may be looked at.
THEOREM Invariance == Spec => []IInv
<1>1. Init => IInv
  BY InitInv
<1>2. IInv /\ [Next]_vars => IInv'
  <2>1. CASE UNCHANGED vars
    BY <2>1 DEF vars, IInv, TypeOK, Turns, Calls, Headers, Distinct, Contents, InLog, Copied, Clean,
       Pins, Installing, Cold, HeaderFits, SleepersWoken, InOp, Reserved, Kept, LoggedBy, Logged, bread
  <2>. QED  BY <2>1, StepInv
<1>. QED  BY <1>1, <1>2, PTL DEF Spec

\* The transaction of log.c fits into its header, whatever the calls in progress
\* still write, and nobody sleeps in begin_op() without a call whose end_op()
\* wakes it, through crashes and recoveries: for any number of processes and
\* blocks, any MAXOPBLOCKS and any LOGSIZE.
THEOREM Safety == Spec => []LogSafe
<1>1. IInv => LogSafe
  BY DEF IInv, LogSafe
<1>. QED  BY <1>1, Invariance, PTL

-----------------------------------------------------------------------------
\* The header names no block twice, so each one has one place in the log.
LEMMA OnePlace ==
  ASSUME NEW h \in Seq(Block), Distinct(h), NEW i \in 1..Len(h)
  PROVE  (CHOOSE j \in 1..Len(h) : h[j] = h[i]) = i
BY DEF Distinct

\* What a recovery would bring back.
RecoveredIs ==
  /\ Recovered \in [Block -> Val]
  /\ \A i \in 1..Len(hdr) : Recovered[hdr[i]] = logblk[i]
  /\ \A b \in Block : (\A i \in 1..Len(hdr) : hdr[i] # b) => Recovered[b] = disk[b]

\* The committed blocks come from the log, the others from their homes.
LEMMA Recovery == IInv => RecoveredIs
<1>. SUFFICES ASSUME IInv PROVE RecoveredIs
  OBVIOUS
<1>1. hdr \in Seq(Block) /\ Distinct(hdr) /\ disk \in [Block -> Val]
      /\ \A i \in 1..Len(hdr) : logblk[i] \in Val
  BY DEF IInv, TypeOK, Headers, Contents, InLog
<1>2. ASSUME NEW i \in 1..Len(hdr) PROVE Recovered[hdr[i]] = logblk[i]
  <2>1. hdr[i] \in Block
    BY <1>1
  <2>2. Recovered[hdr[i]] = logblk[CHOOSE j \in 1..Len(hdr) : hdr[j] = hdr[i]]
    BY <2>1 DEF Recovered
  <2>. QED  BY <1>1, <2>2, OnePlace
<1>3. ASSUME NEW b \in Block, \A i \in 1..Len(hdr) : hdr[i] # b PROVE Recovered[b] = disk[b]
  BY <1>3 DEF Recovered
<1>4. ASSUME NEW b \in Block PROVE Recovered[b] \in Val
  <2>1. CASE \E i \in 1..Len(hdr) : hdr[i] = b
    BY <1>1, <1>2, <2>1
  <2>2. CASE ~\E i \in 1..Len(hdr) : hdr[i] = b
    BY <1>1, <1>3, <2>2
  <2>. QED  BY <2>1, <2>2
<1>5. Recovered = [b \in Block |-> Recovered[b]]
  BY DEF Recovered
<1>. QED  BY <1>2, <1>3, <1>4, <1>5 DEF RecoveredIs

LEMMA RecoveryNext == IInv' => RecoveredIs'
BY Recovery, PTL

-----------------------------------------------------------------------------
\* A step of the log is a step of the abstract store, or none of it.
StoreStep == Store!Next \/ UNCHANGED <<Recovered, Current, CallState>>

\* Outside of a recovery the calls see the cache before the disk.
LEMMA SeenIs == ~Recovering => Current = [b \in Block |-> bread(b)]
BY DEF Current

LEMMA SeenIsNext == (~Recovering => Current = [b \in Block |-> bread(b)])'
BY SeenIs, PTL

\* Recycling a buffer loses nothing: its block is home.
LEMMA EvictRefines ==
  ASSUME IInv, NEW b \in Block, Evict(b)
  PROVE  StoreStep
<1>. USE DEF IInv, Evict, Pinned, diskVars, opVars
<1>1. UNCHANGED <<Recovered, CallState, Recovering>>
  BY DEF Recovered, CallState, Recovering
<1>2. CASE Recovering
  BY <1>1, <1>2 DEF StoreStep, Current
<1>3. CASE ~Recovering
  <2>1. cache[b] = disk[b]
    <3>1. CASE Logged(b)
      BY <1>3, <3>1 DEF Recovering, Contents, Pins, Installing, Headers, Logged, Turns, TypeOK
    <3>2. CASE ~Logged(b)
      BY <3>2 DEF Contents, Clean
    <3>. QED  BY <3>1, <3>2
  <2>2. \A c \in Block : bread(c)' = bread(c)
    BY <2>1 DEF bread, TypeOK
  <2>. QED  BY <1>1, <1>3, <2>2, SeenIs, SeenIsNext DEF StoreStep
<1>. QED  BY <1>2, <1>3

\* begin_op() starts a call, or sleeps.
LEMMA begin_opRefines ==
  ASSUME IInv, NEW p \in Proc, begin_op(p)
  PROVE  StoreStep
<1>. USE DEF IInv, begin_op, diskVars
<1>1. UNCHANGED <<Recovered, Recovering>>
  BY DEF Recovered, Recovering
<1>2. UNCHANGED Current
  BY <1>1 DEF Current, bread
<1>3. CASE MustWait
  <2>1. UNCHANGED CallState
    BY <1>3 DEF CallState, TypeOK
  <2>. QED  BY <1>1, <1>2, <2>1 DEF StoreStep
<1>4. CASE ~MustWait
  <2>1. CallState' = [CallState EXCEPT ![p] = "op"] /\ CallState[p] = "idle"
    BY <1>4 DEF CallState, TypeOK
  <2>2. \A r \in Proc : CallState[r] # "commit"
    BY <1>4 DEF MustWait, Turns, CallState, TypeOK
  <2>. QED  BY <1>1, <1>2, <2>1, <2>2 DEF StoreStep, Store!Next, Store!Begin
<1>. QED  BY <1>3, <1>4

\* A modification is seen at once, and not durable.
LEMMA ModifyRefines ==
  ASSUME IInv, NEW p \in Proc, NEW b \in Block, NEW v \in Val, Modify(p, b, v)
  PROVE  StoreStep
<1>. USE DEF IInv, Modify, diskVars
<1>1. UNCHANGED <<Recovered, CallState>> /\ CallState[p] = "op"
  BY DEF Recovered, CallState, TypeOK
<1>2. ~Recovering /\ ~Recovering'
  BY DEF Recovering, Turns, InOp
<1>3. Current' = [Current EXCEPT ![b] = v]
  <2>1. \A c \in Block : bread(c)' = IF c = b THEN v ELSE bread(c)
    BY LogAssumption DEF bread, TypeOK
  <2>. QED  BY <1>2, <2>1, SeenIs, SeenIsNext
<1>. QED  BY <1>1, <1>3 DEF StoreStep, Store!Next, Store!Write

\* log_write() changes nothing that a call can see.
LEMMA log_writeRefines ==
  ASSUME IInv, NEW p \in Proc, log_write(p)
  PROVE  StoreStep
<1>. USE DEF IInv, log_write, diskVars
<1>1. UNCHANGED <<Recovered, CallState, Recovering>>
  BY DEF Recovered, CallState, Recovering, TypeOK
<1>. QED  BY <1>1 DEF StoreStep, Current, bread

\* The last call to end commits.
LEMMA end_opRefines ==
  ASSUME IInv, NEW p \in Proc, end_op(p)
  PROVE  StoreStep
<1>. USE DEF IInv, end_op, diskVars
<1>1. UNCHANGED Recovered
  BY DEF Recovered
<1>2. phase = "run" /\ p \in InOp /\ ~Recovering /\ ~Recovering'
  BY DEF Recovering, Turns, InOp, TypeOK
<1>3. UNCHANGED Current
  BY <1>2, SeenIs, SeenIsNext DEF bread
<1>4. outstanding' = 0 <=> InOp \ {p} = {}
  <2>1. IsFiniteSet(InOp \ {p}) /\ Cardinality(InOp \ {p}) = outstanding'
    BY <1>2, Finite, FS_RemoveElement DEF Turns
  <2>. QED  BY <2>1, FS_EmptySet
<1>5. CallState[p] = "op"
  BY DEF CallState
<1>6. (\E r \in Proc \ {p} : CallState[r] = "op") <=> InOp \ {p} # {}
  BY DEF CallState, InOp
<1>7. CallState' = [CallState EXCEPT ![p] = IF outstanding' = 0 THEN "commit" ELSE "idle"]
  BY DEF CallState, LastOp, wakeup, TypeOK
<1>8. Store!End(p)
  BY <1>1, <1>3, <1>4, <1>5, <1>6, <1>7 DEF Store!End
<1>. QED  BY <1>8 DEF StoreStep, Store!Next

\* The copies in the log are of no effect before write_head().
LEMMA write_logRefines ==
  ASSUME IInv, IInv', write_log
  PROVE  StoreStep
<1>. USE DEF IInv, write_log, diskVars, opVars
<1>1. UNCHANGED CallState
  BY DEF CallState
<1>2. hdr = <<>> /\ hdr' = <<>> /\ disk' = disk
  BY DEF Headers
<1>3. UNCHANGED Recovered
  BY <1>2 DEF Recovered
<1>4. ~Recovering /\ ~Recovering'
  BY DEF Recovering, Turns
<1>5. UNCHANGED Current
  BY <1>4, SeenIs, SeenIsNext DEF bread
<1>. QED  BY <1>1, <1>3, <1>5 DEF StoreStep

\* Without a call in progress, a block outside of the transaction is the same
\* in the cache and at home.
LEMMA HomeIsSeen ==
  ASSUME IInv, InOp = {}, NEW b \in Block, ~Logged(b)
  PROVE  bread(b) = disk[b]
<1>1. \A p \in Proc : buf[p] # b
  BY LogAssumption DEF IInv, Calls, InOp
<1>. QED  BY <1>1 DEF IInv, Contents, Clean, bread

\* write_head() makes durable exactly what the calls have left behind.
LEMMA write_headRefines ==
  ASSUME IInv, IInv', write_head
  PROVE  StoreStep
<1>. USE DEF write_head, diskVars, opVars
<1>1. UNCHANGED CallState /\ InOp = {} /\ committing /\ ~Recovering /\ ~Recovering'
  BY DEF CallState, Recovering, IInv, Turns, InOp
<1>2. PICK p \in Proc : CallState[p] = "commit"
  BY <1>1 DEF IInv, Turns, CallState
<1>3. UNCHANGED Current
  BY <1>1, SeenIs, SeenIsNext DEF bread
<1>4. ASSUME NEW b \in Block PROVE Recovered'[b] = bread(b)
  <2>1. CASE Logged(b)
    <3>1. PICK i \in 1..Len(lh) : lh[i] = b
      BY <2>1 DEF Logged
    <3>2. hdr' = lh /\ logblk' = logblk /\ logblk[i] = bread(b)
      BY <3>1 DEF IInv, Contents, Copied
    <3>. QED  BY <3>1, <3>2, RecoveryNext DEF RecoveredIs
  <2>2. CASE ~Logged(b)
    <3>1. Recovered'[b] = disk[b]
      BY <2>2, RecoveryNext DEF RecoveredIs, Logged
    <3>. QED  BY <1>1, <2>2, <3>1, HomeIsSeen
  <2>. QED  BY <2>1, <2>2
<1>5. Recovered' = Current
  BY <1>1, <1>4, SeenIs, RecoveryNext DEF RecoveredIs
<1>6. Store!Commit(p)
  BY <1>1, <1>2, <1>3, <1>5 DEF Store!Commit
<1>. QED  BY <1>6 DEF StoreStep, Store!Next

\* Installing a block changes neither what a recovery brings back nor what the
\* calls see.
LEMMA install_transRefines ==
  ASSUME IInv, IInv', install_trans
  PROVE  StoreStep
<1>. USE DEF install_trans, opVars
<1>1. UNCHANGED CallState
  BY DEF CallState
<1>2. hdr = lh /\ hdr' = lh /\ logblk' = logblk /\ lh' = lh /\ tail \in 1..(Len(lh) + 1)
  BY DEF IInv, Headers, TypeOK
<1>3. \A b \in Block : ~Logged(b) => disk'[b] = disk[b] /\ cache'[b] = cache[b]
  BY <1>2 DEF Logged, IInv, TypeOK
<1>4. ASSUME NEW b \in Block PROVE Recovered'[b] = Recovered[b]
  BY <1>2, <1>3, Recovery, RecoveryNext DEF RecoveredIs, Logged
<1>5. UNCHANGED Recovered
  BY <1>4, Recovery, RecoveryNext DEF RecoveredIs
<1>6. CASE ~committing
  <2>1. Recovering /\ Recovering'
    BY <1>6 DEF Recovering
  <2>. QED  BY <1>1, <1>5, <2>1 DEF StoreStep, Current
<1>7. CASE committing
  <2>1. ~Recovering /\ ~Recovering'
    BY <1>7 DEF Recovering
  <2>2. ASSUME NEW b \in Block PROVE bread(b)' = bread(b)
    <3>1. CASE tail <= Len(lh) /\ b = lh[tail]
      <4>1. cache[b] = logblk[tail] /\ cache'[b] = logblk[tail] /\ logblk[tail] \in Val
        BY <1>2, <1>7, <3>1 DEF IInv, Contents, Installing, InLog, TypeOK
      <4>. QED  BY <4>1, LogAssumption DEF bread
    <3>2. CASE ~(tail <= Len(lh) /\ b = lh[tail])
      BY <1>2, <3>2 DEF bread, IInv, TypeOK
    <3>. QED  BY <3>1, <3>2
  <2>. QED  BY <1>1, <1>5, <2>1, <2>2, SeenIs, SeenIsNext DEF StoreStep
<1>. QED  BY <1>6, <1>7

\* Erasing the header changes nothing either: every block is home.
LEMMA ClearLogRefines ==
  ASSUME IInv, IInv', ClearLog
  PROVE  StoreStep
<1>. USE DEF ClearLog, opVars
<1>1. UNCHANGED CallState
  BY DEF CallState
<1>2. /\ hdr = lh /\ hdr' = <<>> /\ lh' = <<>> /\ disk' = disk /\ cache' = cache /\ InOp = {}
      /\ tail = Len(lh) + 1
  BY DEF IInv, Headers, Turns, InOp
<1>3. \A i \in 1..Len(lh) : disk[lh[i]] = logblk[i] /\ cache[lh[i]] \in {NoVal, logblk[i]}
  BY <1>2 DEF IInv, Contents, Installing, TypeOK
<1>4. ASSUME NEW b \in Block PROVE Recovered[b] = disk[b] /\ Recovered'[b] = disk[b]
  BY <1>2, <1>3, Recovery, RecoveryNext DEF RecoveredIs
<1>5. UNCHANGED Recovered
  BY <1>4, Recovery, RecoveryNext DEF RecoveredIs
<1>6. ~Recovering'
  BY DEF Recovering
<1>7. CASE committing
  <2>1. ~Recovering
    BY <1>7 DEF Recovering
  <2>. QED  BY <1>1, <1>2, <1>5, <1>6, <2>1, SeenIs, SeenIsNext DEF StoreStep, bread
<1>8. CASE ~committing
  <2>1. Recovering
    BY <1>8 DEF Recovering
  <2>2. ASSUME NEW b \in Block PROVE bread(b)' = disk[b]
    <3>1. CASE Logged(b)
      BY <1>2, <1>3, <3>1 DEF Logged, bread
    <3>2. CASE ~Logged(b)
      BY <1>2, <3>2, HomeIsSeen DEF bread
    <3>. QED  BY <3>1, <3>2
  <2>3. Current' = Recovered
    BY <1>4, <1>5, <1>6, <2>2, SeenIsNext, Recovery DEF RecoveredIs
  <2>. QED  BY <1>1, <1>5, <2>1, <2>3 DEF StoreStep, Current
<1>. QED  BY <1>7, <1>8

\* end_op() of the last call returns when everything is durable.
LEMMA CommitDoneRefines ==
  ASSUME IInv, NEW p \in Proc, CommitDone(p)
  PROVE  StoreStep
<1>. USE DEF CommitDone, diskVars
<1>1. UNCHANGED Recovered
  BY DEF Recovered
<1>2. /\ hdr = <<>> /\ lh = <<>> /\ InOp = {} /\ ~Recovering /\ ~Recovering'
      /\ Len(hdr) = 0 /\ Len(lh) = 0
  BY DEF IInv, Headers, Turns, InOp, Recovering
<1>3. UNCHANGED Current
  BY <1>2, SeenIs, SeenIsNext DEF bread
<1>4. ASSUME NEW b \in Block PROVE Recovered[b] = bread(b)
  <2>1. Recovered[b] = disk[b]
    BY <1>2, Recovery DEF RecoveredIs
  <2>2. ~Logged(b)
    BY <1>2 DEF Logged
  <2>. QED  BY <1>2, <2>1, <2>2, HomeIsSeen
<1>5. Recovered = Current
  BY <1>2, <1>4, SeenIs, Recovery DEF RecoveredIs
<1>6. CallState[p] = "commit" /\ CallState' = [CallState EXCEPT ![p] = "idle"]
  BY DEF CallState, wakeup, IInv, TypeOK
<1>7. Store!Return(p)
  BY <1>1, <1>3, <1>5, <1>6 DEF Store!Return
<1>. QED  BY <1>7 DEF StoreStep, Store!Next

\* A crash takes the blocks back to what is durable.
LEMMA CrashRefines ==
  ASSUME IInv, Crash
  PROVE  StoreStep
<1>. USE DEF Crash, diskVars
<1>1. UNCHANGED Recovered
  BY DEF Recovered
<1>2. Recovering'
  BY DEF Recovering
<1>3. Current' = Recovered
  BY <1>1, <1>2 DEF Current
<1>4. CallState' = [p \in Proc |-> "idle"]
  BY DEF CallState
<1>5. Store!Crash
  BY <1>1, <1>3, <1>4 DEF Store!Crash
<1>. QED  BY <1>5 DEF StoreStep, Store!Next

\* The recovery only reads the header.
LEMMA read_headRefines ==
  ASSUME IInv, read_head
  PROVE  StoreStep
<1>. USE DEF read_head, diskVars, opVars
<1>1. UNCHANGED <<Recovered, CallState>>
  BY DEF Recovered, CallState
<1>2. Recovering /\ Recovering'
  BY DEF Recovering, IInv, Turns, AfterRead
<1>. QED  BY <1>1, <1>2 DEF StoreStep, Current

\* log.c implements the store with atomic commits: at every moment a crash
\* would leave the updates of the last commit, all of them and nothing else,
\* a crash in the middle of a commit or of the recovery from another crash
\* included.
THEOREM AtomicCommits == Spec => ImplementsAtomicDisk
<1>1. Init => Store!Init
  <2>. SUFFICES ASSUME Init PROVE Store!Init
    OBVIOUS
  <2>1. Recovering
    BY DEF Init, Recovering
  <2>2. Recovered \in [Block -> Val]
    BY InitInv, Recovery DEF RecoveredIs
  <2>3. CallState = [p \in Proc |-> "idle"]
    BY DEF Init, CallState
  <2>. QED  BY <2>1, <2>2, <2>3 DEF Store!Init, Current
<1>2. IInv /\ IInv' /\ [Next]_vars => [Store!Next]_(Store!vars)
  <2>. SUFFICES ASSUME IInv, IInv', [Next]_vars PROVE StoreStep
    BY DEF StoreStep, Store!vars
  <2>1. CASE UNCHANGED vars
    BY <2>1 DEF vars, StoreStep, Recovered, Current, CallState, Recovering, bread
  <2>2. CASE Next
    BY <2>2, EvictRefines, begin_opRefines, ModifyRefines, log_writeRefines, end_opRefines,
       CommitDoneRefines, write_logRefines, write_headRefines, install_transRefines,
       ClearLogRefines, CrashRefines, read_headRefines DEF Next
  <2>. QED  BY <2>1, <2>2
<1>. QED  BY <1>1, <1>2, Invariance, PTL DEF Spec, ImplementsAtomicDisk, Store!Spec
=============================================================================
