--------------------------- MODULE SpinLockProofs ---------------------------
(***************************************************************************)
(* Proofs about SpinLock, for any number of CPUs and locks: a lock has one *)
(* holder, the interrupt flag is off while a CPU has or waits for a lock   *)
(* and is restored behind the last one, and nothing panics.                *)
(***************************************************************************)
EXTENDS SpinLock, FiniteSetTheorems, SequenceTheorems, TLAPS

Code == {"run", "cli", "holding", "xchg", "own", "unlock", "popcli"}
Frames == [pc : Code, l : Int, ef : BOOLEAN, held : SUBSET Locks]
Depth(c) == Len(stack[c])
Below(c) == stack[c][1]

SpinTypes ==
  /\ lk \in [Locks -> [locked : BOOLEAN, cpu : CPUs \cup {NoCpu}]]
  /\ ie \in [CPUs -> BOOLEAN] /\ intena \in [CPUs -> BOOLEAN]
  /\ ncli \in [CPUs -> Nat]
  /\ stack \in [CPUs -> Seq(Frames)]
  /\ spinPanic = "no"

\* An interrupt comes only into code without locks, and into no handler.
Nesting ==
  \A c \in CPUs :
    /\ Depth(c) \in {1, 2}
    /\ Depth(c) = 2 => /\ Below(c).held = {} /\ Below(c).pc \in {"run", "cli"}
                       /\ Below(c).pc = "cli" => Below(c).ef /\ Below(c).l \in Locks

\* The lock that acquire() works on is above those that are held, the one that
\* release() works on is one of them.
Working ==
  \A c \in CPUs :
    LET f == Running(c)
    IN  /\ f.pc \in {"cli", "holding", "xchg"} => f.l \in Locks /\ \A k \in f.held : k < f.l
        /\ f.pc \in {"own", "unlock"} => f.l \in f.held
        /\ IsFiniteSet(f.held)

\* ncli counts the locks that the CPU has or is about to have.
Locking(c) == IF Running(c).pc \in {"holding", "xchg", "popcli"} THEN 1 ELSE 0
Counted == \A c \in CPUs : ncli[c] = Cardinality(Running(c).held) + Locking(c)

\* The flag is off under a lock and in a handler, and intena, or the eflags that
\* the first pushcli() has read, keep what it was.
Flagged ==
  \A c \in CPUs :
    /\ ie[c] <=> ncli[c] = 0 /\ Depth(c) = 1
    /\ ncli[c] > 0 => (intena[c] <=> Depth(c) = 1)
    /\ Running(c).pc = "cli" /\ ncli[c] = 0 => (Running(c).ef <=> Depth(c) = 1)

\* A locked lock is in the hands of one CPU, which is its cpu except at the ends
\* of acquire() and release().
Taken == \A l \in Locks : lk[l].locked <=> \E c \in CPUs : l \in Running(c).held
Exclusive == \A c, d \in CPUs : c # d => Running(c).held \cap Running(d).held = {}
Known == \A c \in CPUs, l \in Locks : lk[l].cpu = c => l \in Running(c).held
Midway(c, l) == Running(c).pc \in {"own", "unlock"} /\ Running(c).l = l
Owned == \A c \in CPUs : \A l \in Running(c).held : lk[l].cpu = IF Midway(c, l) THEN NoCpu ELSE c
Owning == Taken /\ Exclusive /\ Known /\ Owned

\* The inductive invariant.
IInv == SpinTypes /\ Nesting /\ Working /\ Counted /\ Flagged /\ Owning

-----------------------------------------------------------------------------
\* What a CPU runs.
LEMMA RunningIs ==
  ASSUME SpinTypes, Nesting, NEW c \in CPUs
  PROVE  /\ Running(c) \in Frames
         /\ stack[c] \in [1..Depth(c) -> Frames]
         /\ Depth(c) = 1 => Below(c) = Running(c)
<1>1. stack[c] \in Seq(Frames) /\ Depth(c) \in {1, 2}
  BY DEF SpinTypes, Nesting
<1>2. stack[c] \in [1..Depth(c) -> Frames]
  BY <1>1, LenProperties DEF Depth
<1>3. Running(c) \in Frames
  BY <1>1, <1>2 DEF Running
<1>4. Depth(c) = 1 => Below(c) = Running(c)
  BY DEF Running, Depth, Below
<1>. QED  BY <1>2, <1>3, <1>4

\* A step of the code on top of the stack leaves what it has interrupted.
LEMMA GoesIs ==
  ASSUME SpinTypes, Nesting, NEW c \in CPUs, NEW f \in Frames, Goes(c, f)
  PROVE  /\ stack' \in [CPUs -> Seq(Frames)]
         /\ \A d \in CPUs : /\ Running(d)' = IF d = c THEN f ELSE Running(d)
                            /\ Depth(d)' = Depth(d)
                            /\ Depth(d) = 2 => Below(d)' = Below(d)
<1>1. PICK s \in Seq(Frames), n \in {1, 2} : s = stack[c] /\ n = Depth(c) /\ s \in [1..n -> Frames]
  BY RunningIs DEF SpinTypes, Nesting
<1>2. PICK t \in [1..n -> Frames] : t = [s EXCEPT ![n] = f]
  BY <1>1
<1>3. n \in Nat /\ n \in 1..n
  BY <1>1
<1>4. t \in Seq(Frames) /\ Len(t) = n
  BY <1>2, <1>3, SeqDef, LenProperties
<1>5. t[n] = f /\ (n = 2 => t[1] = s[1])
  BY <1>1, <1>2, <1>3
<1>6. stack' = [stack EXCEPT ![c] = t]
  BY <1>1, <1>2 DEF Goes, Depth
<1>7. stack'[c] = t /\ \A d \in CPUs : d # c => stack'[d] = stack[d]
  BY <1>6 DEF SpinTypes
<1>8. stack' \in [CPUs -> Seq(Frames)]
  BY <1>4, <1>6 DEF SpinTypes
<1>. QED  BY <1>1, <1>4, <1>5, <1>7, <1>8 DEF Running, Depth, Below

\* The locks that a CPU holds are finitely many.
LEMMA Counting ==
  ASSUME NEW S, IsFiniteSet(S), NEW l
  PROVE  /\ Cardinality(S) \in Nat /\ IsFiniteSet(S \cup {l}) /\ IsFiniteSet(S \ {l})
         /\ l \notin S => Cardinality(S \cup {l}) = Cardinality(S) + 1
         /\ l \in S => Cardinality(S \ {l}) = Cardinality(S) - 1 /\ Cardinality(S) > 0
         /\ Cardinality(S) = 0 <=> S = {}
BY FS_CardinalityType, FS_AddElement, FS_RemoveElement, FS_EmptySet

\* A handler starts with nothing.
LEMMA FrameIs == Frame \in Frames /\ Frame.pc = "run" /\ Frame.held = {}
BY DEF Frame, Frames, Code

\* Nobody takes or gives back a lock: the locks taken are still those held.
LEMMA SameHeld ==
  ASSUME Owning,
         \A d \in CPUs : Running(d)'.held = Running(d).held,
         \A k \in Locks : lk'[k].locked <=> lk[k].locked
  PROVE  Taken' /\ Exclusive'
<1>1. Taken'
  BY DEF Owning, Taken
<1>2. Exclusive'
  BY DEF Owning, Exclusive
<1>. QED  BY <1>1, <1>2

-----------------------------------------------------------------------------
\* pushcli() reads the flags: an interrupt still can come.
LEMMA AcquireStartInv ==
  ASSUME IInv, NEW c \in CPUs, NEW l \in Locks, AcquireStart(c, l)
  PROVE  IInv'
<1>. USE DEF IInv
<1>a. PICK f \in Frames : f = Running(c)
  BY RunningIs
<1>b. /\ Goes(c, [f EXCEPT !.pc = "cli", !.l = l, !.ef = ie[c]])
      /\ f.pc = "run" /\ \A k \in f.held : k < l
      /\ UNCHANGED <<lk, ie, ncli, intena, spinPanic>>
  BY <1>a DEF AcquireStart, At
<1>c. PICK g \in Frames : /\ Goes(c, g)
                          /\ g.pc = "cli" /\ g.l = l /\ g.ef = ie[c]
                          /\ g.held = f.held
  <2>. DEFINE h == [f EXCEPT !.pc = "cli", !.l = l, !.ef = ie[c]]
  <2>1. "cli" \in Code /\ l \in Int /\ ie[c] \in BOOLEAN
    BY <1>a, SpinAssumption DEF Code, SpinTypes
  <2>2. /\ h \in Frames /\ h.pc = "cli" /\ h.l = l /\ h.ef = ie[c]
        /\ h.held = f.held
    BY <2>1 DEF Frames
  <2>3. Goes(c, h)
    BY <1>b
  <2>. HIDE DEF h
  <2>. QED  BY <2>2, <2>3
<1>d. /\ stack' \in [CPUs -> Seq(Frames)]
      /\ \A d \in CPUs : /\ Running(d)' = IF d = c THEN g ELSE Running(d)
                         /\ Depth(d)' = Depth(d)
                         /\ Depth(d) = 2 => Below(d)' = Below(d)
  BY <1>c, GoesIs
<1>e. IsFiniteSet(f.held) /\ Cardinality(f.held) \in Nat /\ ncli[c] \in Nat
  BY <1>a, FS_CardinalityType DEF Working, SpinTypes
<1>1. SpinTypes'
  BY <1>a, <1>b, <1>c, <1>d, <1>e DEF SpinTypes
<1>2. Nesting'
  BY <1>a, <1>b, <1>c, <1>d, <1>e DEF Nesting
<1>3. Working'
  BY <1>a, <1>b, <1>c, <1>d, <1>e DEF Working
<1>4. Counted'
  BY <1>a, <1>b, <1>c, <1>d, <1>e DEF Counted, Locking
<1>5. Flagged'
  BY <1>a, <1>b, <1>c, <1>d, <1>e DEF Flagged
<1>6. Taken' /\ Exclusive'
  <2>1. \A d \in CPUs : Running(d)'.held = Running(d).held
    BY <1>a, <1>c, <1>d
  <2>2. \A k \in Locks : lk'[k].locked <=> lk[k].locked
    BY <1>b
  <2>. QED  BY <2>1, <2>2, SameHeld
<1>8. Known'
  BY <1>a, <1>b, <1>c, <1>d, <1>e DEF Owning, Known
<1>9. Owned'
  <2>. SUFFICES ASSUME NEW d \in CPUs, NEW k \in Running(d)'.held
                PROVE  lk'[k].cpu = IF Midway(d, k)' THEN NoCpu ELSE d
    BY DEF Owned
  <2>1. lk' = lk /\ k \in Running(d).held
    BY <1>a, <1>b, <1>c, <1>d
  <2>2. Midway(d, k)' <=> Midway(d, k)
    BY <1>a, <1>b, <1>c, <1>d DEF Midway
  <2>. QED  BY <2>1, <2>2 DEF Owning, Owned
<1>. QED  BY <1>1, <1>2, <1>3, <1>4, <1>5, <1>6, <1>8, <1>9 DEF Owning

\* The flag is off, and the first pushcli() keeps what it was.
LEMMA PushCliInv ==
  ASSUME IInv, NEW c \in CPUs, PushCli(c)
  PROVE  IInv'
<1>. USE DEF IInv
<1>a. PICK f \in Frames : f = Running(c)
  BY RunningIs
<1>b. /\ Goes(c, [f EXCEPT !.pc = "holding"])
      /\ f.pc = "cli"
      /\ ie' = [ie EXCEPT ![c] = FALSE]
      /\ intena' = [intena EXCEPT ![c] = IF ncli[c] = 0 THEN f.ef ELSE intena[c]]
      /\ ncli' = [ncli EXCEPT ![c] = ncli[c] + 1]
      /\ UNCHANGED <<lk, spinPanic>>
  BY <1>a DEF PushCli, At, GoesTo, FlagsKept
<1>c. PICK g \in Frames : /\ Goes(c, g)
                          /\ g.pc = "holding" /\ g.l = f.l /\ g.ef = f.ef
                          /\ g.held = f.held
  <2>. DEFINE h == [f EXCEPT !.pc = "holding"]
  <2>1. "holding" \in Code
    BY DEF Code
  <2>2. /\ h \in Frames /\ h.pc = "holding" /\ h.l = f.l /\ h.ef = f.ef
        /\ h.held = f.held
    BY <2>1 DEF Frames
  <2>3. Goes(c, h)
    BY <1>b
  <2>. HIDE DEF h
  <2>. QED  BY <2>2, <2>3
<1>d. /\ stack' \in [CPUs -> Seq(Frames)]
      /\ \A d \in CPUs : /\ Running(d)' = IF d = c THEN g ELSE Running(d)
                         /\ Depth(d)' = Depth(d)
                         /\ Depth(d) = 2 => Below(d)' = Below(d)
  BY <1>c, GoesIs
<1>e. IsFiniteSet(f.held) /\ Cardinality(f.held) \in Nat /\ ncli[c] \in Nat
  BY <1>a, FS_CardinalityType DEF Working, SpinTypes
<1>f. /\ ie'[c] = FALSE /\ ncli'[c] = ncli[c] + 1
      /\ intena'[c] = IF ncli[c] = 0 THEN f.ef ELSE intena[c]
      /\ \A d \in CPUs : d # c => ie'[d] = ie[d] /\ ncli'[d] = ncli[d] /\ intena'[d] = intena[d]
  BY <1>b DEF SpinTypes
<1>g. ie' \in [CPUs -> BOOLEAN] /\ ncli' \in [CPUs -> Nat] /\ intena' \in [CPUs -> BOOLEAN]
  <2>1. f.ef \in BOOLEAN /\ ncli[c] + 1 \in Nat
    BY <1>e DEF Frames
  <2>. QED  BY <1>b, <2>1 DEF SpinTypes
<1>1. SpinTypes'
  BY <1>b, <1>d, <1>g DEF SpinTypes
<1>2. Nesting'
  BY <1>a, <1>b, <1>c, <1>d, <1>e DEF Nesting
<1>3. Working'
  BY <1>a, <1>b, <1>c, <1>d, <1>e DEF Working
<1>4. Counted'
  <2>1. ASSUME NEW d \in CPUs, d # c
        PROVE  ncli'[d] = Cardinality(Running(d)'.held) + Locking(d)'
    <3>1. Locking(d)' = Locking(d)
      BY <1>d, <2>1 DEF Locking
    <3>. QED  BY <1>b, <1>d, <2>1, <3>1, <1>f DEF Counted
  <2>2. Locking(c)' = 1 /\ Locking(c) = 0
    BY <1>a, <1>b, <1>c, <1>d DEF Locking
  <2>3. ncli[c] = Cardinality(f.held) + 0
    BY <1>a, <2>2 DEF Counted
  <2>4. ncli'[c] = Cardinality(g.held) + 1
    BY <1>b, <1>c, <1>e, <2>3, <1>f
  <2>5. ncli'[c] = Cardinality(Running(c)'.held) + Locking(c)'
    BY <1>d, <2>2, <2>4
  <2>. QED  BY <2>1, <2>5 DEF Counted
<1>5. Flagged'
  <2>1. ASSUME NEW d \in CPUs, d # c
        PROVE  /\ ie'[d] <=> ncli'[d] = 0 /\ Depth(d)' = 1
               /\ ncli'[d] > 0 => (intena'[d] <=> Depth(d)' = 1)
               /\ Running(d)'.pc = "cli" /\ ncli'[d] = 0 => (Running(d)'.ef <=> Depth(d)' = 1)
    BY <1>d, <1>f, <2>1 DEF Flagged
  <2>2. /\ ~ie'[c] /\ ncli'[c] > 0 /\ Running(c)'.pc = "holding" /\ Depth(c)' = Depth(c)
    BY <1>c, <1>d, <1>e, <1>f
  <2>3. intena'[c] <=> Depth(c) = 1
    BY <1>a, <1>b, <1>e, <1>f DEF Flagged
  <2>. QED  BY <1>e, <1>f, <2>1, <2>2, <2>3 DEF Flagged
<1>6. Taken' /\ Exclusive'
  <2>1. \A d \in CPUs : Running(d)'.held = Running(d).held
    BY <1>a, <1>c, <1>d
  <2>2. \A k \in Locks : lk'[k].locked <=> lk[k].locked
    BY <1>b
  <2>. QED  BY <2>1, <2>2, SameHeld
<1>8. Known'
  BY <1>a, <1>b, <1>c, <1>d, <1>e DEF Owning, Known
<1>9. Owned'
  <2>. SUFFICES ASSUME NEW d \in CPUs, NEW k \in Running(d)'.held
                PROVE  lk'[k].cpu = IF Midway(d, k)' THEN NoCpu ELSE d
    BY DEF Owned
  <2>1. lk' = lk /\ k \in Running(d).held
    BY <1>a, <1>b, <1>c, <1>d
  <2>2. Midway(d, k)' <=> Midway(d, k)
    BY <1>a, <1>b, <1>c, <1>d DEF Midway
  <2>. QED  BY <2>1, <2>2 DEF Owning, Owned
<1>. QED  BY <1>1, <1>2, <1>3, <1>4, <1>5, <1>6, <1>8, <1>9 DEF Owning

\* The CPU does not have the lock that it asks for.
LEMMA AcquireCheckedInv ==
  ASSUME IInv, NEW c \in CPUs, AcquireChecked(c)
  PROVE  IInv'
<1>. USE DEF IInv
<1>a. PICK f \in Frames : f = Running(c)
  BY RunningIs
<1>b. /\ Goes(c, [f EXCEPT !.pc = "xchg"])
      /\ f.pc = "holding"
      /\ spinPanic' = IF holding(c, f.l) THEN "acquire" ELSE "no"
      /\ UNCHANGED <<lk, ie, ncli, intena>>
  BY <1>a DEF AcquireChecked, At, GoesTo, PanicIf
<1>c. PICK g \in Frames : /\ Goes(c, g)
                          /\ g.pc = "xchg" /\ g.l = f.l /\ g.ef = f.ef
                          /\ g.held = f.held
  <2>. DEFINE h == [f EXCEPT !.pc = "xchg"]
  <2>1. "xchg" \in Code
    BY DEF Code
  <2>2. /\ h \in Frames /\ h.pc = "xchg" /\ h.l = f.l /\ h.ef = f.ef
        /\ h.held = f.held
    BY <2>1 DEF Frames
  <2>3. Goes(c, h)
    BY <1>b
  <2>. HIDE DEF h
  <2>. QED  BY <2>2, <2>3
<1>d. /\ stack' \in [CPUs -> Seq(Frames)]
      /\ \A d \in CPUs : /\ Running(d)' = IF d = c THEN g ELSE Running(d)
                         /\ Depth(d)' = Depth(d)
                         /\ Depth(d) = 2 => Below(d)' = Below(d)
  BY <1>c, GoesIs
<1>e. IsFiniteSet(f.held) /\ Cardinality(f.held) \in Nat /\ ncli[c] \in Nat
  BY <1>a, FS_CardinalityType DEF Working, SpinTypes
<1>f. ~holding(c, f.l)
  <2>1. f.l \in Locks /\ f.l \notin f.held
    BY <1>a, <1>b, SpinAssumption DEF Working
  <2>. QED  BY <1>a, <2>1 DEF holding, Owning, Known
<1>1. SpinTypes'
  BY <1>b, <1>d, <1>f DEF SpinTypes
<1>2. Nesting'
  BY <1>a, <1>b, <1>c, <1>d, <1>e DEF Nesting
<1>3. Working'
  BY <1>a, <1>b, <1>c, <1>d, <1>e DEF Working
<1>4. Counted'
  BY <1>a, <1>b, <1>c, <1>d, <1>e DEF Counted, Locking
<1>5. Flagged'
  BY <1>a, <1>b, <1>c, <1>d, <1>e DEF Flagged
<1>6. Taken' /\ Exclusive'
  <2>1. \A d \in CPUs : Running(d)'.held = Running(d).held
    BY <1>a, <1>c, <1>d
  <2>2. \A k \in Locks : lk'[k].locked <=> lk[k].locked
    BY <1>b
  <2>. QED  BY <2>1, <2>2, SameHeld
<1>8. Known'
  BY <1>a, <1>b, <1>c, <1>d, <1>e DEF Owning, Known
<1>9. Owned'
  <2>. SUFFICES ASSUME NEW d \in CPUs, NEW k \in Running(d)'.held
                PROVE  lk'[k].cpu = IF Midway(d, k)' THEN NoCpu ELSE d
    BY DEF Owned
  <2>1. lk' = lk /\ k \in Running(d).held
    BY <1>a, <1>b, <1>c, <1>d
  <2>2. Midway(d, k)' <=> Midway(d, k)
    BY <1>a, <1>b, <1>c, <1>d DEF Midway
  <2>. QED  BY <2>1, <2>2 DEF Owning, Owned
<1>. QED  BY <1>1, <1>2, <1>3, <1>4, <1>5, <1>6, <1>8, <1>9 DEF Owning

\* xchg() takes a lock that nobody has.
LEMMA XchgInv ==
  ASSUME IInv, NEW c \in CPUs, Xchg(c)
  PROVE  IInv'
<1>. USE DEF IInv
<1>a. PICK f \in Frames : f = Running(c)
  BY RunningIs
<1>b. /\ Goes(c, [f EXCEPT !.pc = "own", !.held = f.held \cup {f.l}])
      /\ f.pc = "xchg" /\ ~lk[f.l].locked
      /\ lk' = [lk EXCEPT ![f.l].locked = TRUE]
      /\ UNCHANGED <<ie, ncli, intena, spinPanic>>
  BY <1>a DEF Xchg, At
<1>c. PICK g \in Frames : /\ Goes(c, g)
                          /\ g.pc = "own" /\ g.l = f.l /\ g.ef = f.ef
                          /\ g.held = f.held \cup {f.l}
  <2>. DEFINE h == [f EXCEPT !.pc = "own", !.held = f.held \cup {f.l}]
  <2>1. "own" \in Code /\ f.held \cup {f.l} \in SUBSET Locks
    BY <1>a, <1>b, SpinAssumption DEF Code, Working, Frames
  <2>2. /\ h \in Frames /\ h.pc = "own" /\ h.l = f.l /\ h.ef = f.ef
        /\ h.held = f.held \cup {f.l}
    BY <2>1 DEF Frames
  <2>3. Goes(c, h)
    BY <1>b
  <2>. HIDE DEF h
  <2>. QED  BY <2>2, <2>3
<1>d. /\ stack' \in [CPUs -> Seq(Frames)]
      /\ \A d \in CPUs : /\ Running(d)' = IF d = c THEN g ELSE Running(d)
                         /\ Depth(d)' = Depth(d)
                         /\ Depth(d) = 2 => Below(d)' = Below(d)
  BY <1>c, GoesIs
<1>e. IsFiniteSet(f.held) /\ Cardinality(f.held) \in Nat /\ ncli[c] \in Nat
  BY <1>a, FS_CardinalityType DEF Working, SpinTypes
<1>f. f.l \in Locks /\ f.l \notin f.held /\ lk[f.l].cpu \notin CPUs
  <2>1. f.l \in Locks /\ f.l \notin f.held
    BY <1>a, <1>b, SpinAssumption DEF Working
  <2>. QED  BY <1>b, <2>1 DEF Owning, Taken, Known
<1>g. \A k \in Locks : /\ lk'[k].locked <=> k = f.l \/ lk[k].locked
                       /\ lk'[k].cpu = lk[k].cpu
  BY <1>b, <1>f DEF SpinTypes
<1>h. \A d \in CPUs : f.l \notin Running(d).held
  BY <1>b, <1>f DEF Owning, Taken
<1>i. IsFiniteSet(g.held) /\ Cardinality(g.held) = Cardinality(f.held) + 1
  BY <1>c, <1>e, <1>f, Counting
<1>1. SpinTypes'
  <2>1. lk' \in [Locks -> [locked : BOOLEAN, cpu : CPUs \cup {NoCpu}]]
    BY <1>b, <1>f DEF SpinTypes
  <2>. QED  BY <1>b, <1>d, <2>1 DEF SpinTypes
<1>2. Nesting'
  BY <1>a, <1>b, <1>c, <1>d, <1>e DEF Nesting
<1>3. Working'
  BY <1>c, <1>d, <1>i DEF Working
<1>4. Counted'
  <2>1. ASSUME NEW d \in CPUs, d # c
        PROVE  ncli'[d] = Cardinality(Running(d)'.held) + Locking(d)'
    <3>1. Locking(d)' = Locking(d)
      BY <1>d, <2>1 DEF Locking
    <3>. QED  BY <1>b, <1>d, <2>1, <3>1, <1>i DEF Counted
  <2>2. Locking(c)' = 0 /\ Locking(c) = 1
    BY <1>a, <1>b, <1>c, <1>d DEF Locking
  <2>3. ncli[c] = Cardinality(f.held) + 1
    BY <1>a, <2>2 DEF Counted
  <2>4. ncli'[c] = Cardinality(g.held) + 0
    BY <1>b, <1>c, <1>e, <2>3, <1>i
  <2>5. ncli'[c] = Cardinality(Running(c)'.held) + Locking(c)'
    BY <1>d, <2>2, <2>4
  <2>. QED  BY <2>1, <2>5 DEF Counted
<1>5. Flagged'
  BY <1>a, <1>b, <1>c, <1>d, <1>e DEF Flagged
<1>6. Taken'
  <2>. SUFFICES ASSUME NEW k \in Locks
                PROVE  lk'[k].locked <=> \E d \in CPUs : k \in Running(d)'.held
    BY DEF Taken
  <2>1. \A d \in CPUs : k \in Running(d)'.held <=> k \in Running(d).held \/ (d = c /\ k = f.l)
    BY <1>a, <1>c, <1>d
  <2>2. lk[k].locked <=> \E d \in CPUs : k \in Running(d).held
    BY DEF Owning, Taken
  <2>. QED  BY <1>g, <2>1, <2>2
<1>7. Exclusive'
  <2>. SUFFICES ASSUME NEW d \in CPUs, NEW e \in CPUs, d # e, NEW k,
                       k \in Running(d)'.held, k \in Running(e)'.held
                PROVE  FALSE
    BY DEF Exclusive
  <2>. QED  BY <1>a, <1>c, <1>d, <1>h DEF Owning, Exclusive
<1>8. Known'
  BY <1>a, <1>c, <1>d, <1>g DEF Owning, Known
<1>9. Owned'
  <2>. SUFFICES ASSUME NEW d \in CPUs, NEW k \in Running(d)'.held
                PROVE  lk'[k].cpu = IF Midway(d, k)' THEN NoCpu ELSE d
    BY DEF Owned
  <2>1. CASE d = c /\ k = f.l
    <3>1. Midway(d, k)' /\ lk[k].cpu = NoCpu
      BY <1>c, <1>d, <1>f, <2>1 DEF Midway, SpinTypes
    <3>. QED  BY <1>f, <1>g, <2>1, <3>1
  <2>2. CASE ~(d = c /\ k = f.l)
    <3>1. k \in Running(d).held /\ k \in Locks
      BY <1>a, <1>c, <1>d, <1>h, <2>2, RunningIs DEF Frames
    <3>2. Midway(d, k)' <=> Midway(d, k)
      BY <1>a, <1>b, <1>c, <1>d, <2>2 DEF Midway
    <3>. QED  BY <1>g, <3>1, <3>2 DEF Owning, Owned
  <2>. QED  BY <2>1, <2>2
<1>. QED  BY <1>1, <1>2, <1>3, <1>4, <1>5, <1>6, <1>7, <1>8, <1>9 DEF Owning

\* The lock knows its CPU.
LEMMA OwnInv ==
  ASSUME IInv, NEW c \in CPUs, Own(c)
  PROVE  IInv'
<1>. USE DEF IInv
<1>a. PICK f \in Frames : f = Running(c)
  BY RunningIs
<1>b. /\ Goes(c, [f EXCEPT !.pc = "run"])
      /\ f.pc = "own"
      /\ lk' = [lk EXCEPT ![f.l].cpu = c]
      /\ UNCHANGED <<ie, ncli, intena, spinPanic>>
  BY <1>a DEF Own, At, GoesTo
<1>c. PICK g \in Frames : /\ Goes(c, g)
                          /\ g.pc = "run" /\ g.l = f.l /\ g.ef = f.ef
                          /\ g.held = f.held
  <2>. DEFINE h == [f EXCEPT !.pc = "run"]
  <2>1. "run" \in Code
    BY DEF Code
  <2>2. /\ h \in Frames /\ h.pc = "run" /\ h.l = f.l /\ h.ef = f.ef
        /\ h.held = f.held
    BY <2>1 DEF Frames
  <2>3. Goes(c, h)
    BY <1>b
  <2>. HIDE DEF h
  <2>. QED  BY <2>2, <2>3
<1>d. /\ stack' \in [CPUs -> Seq(Frames)]
      /\ \A d \in CPUs : /\ Running(d)' = IF d = c THEN g ELSE Running(d)
                         /\ Depth(d)' = Depth(d)
                         /\ Depth(d) = 2 => Below(d)' = Below(d)
  BY <1>c, GoesIs
<1>e. IsFiniteSet(f.held) /\ Cardinality(f.held) \in Nat /\ ncli[c] \in Nat
  BY <1>a, FS_CardinalityType DEF Working, SpinTypes
<1>f. f.l \in Locks /\ f.l \in f.held
  BY <1>a, <1>b DEF Working, Frames
<1>g. \A k \in Locks : /\ lk'[k].locked <=> lk[k].locked
                       /\ lk'[k].cpu = IF k = f.l THEN c ELSE lk[k].cpu
  BY <1>b, <1>f DEF SpinTypes
<1>1. SpinTypes'
  BY <1>a, <1>b, <1>c, <1>d, <1>e DEF SpinTypes
<1>2. Nesting'
  BY <1>a, <1>b, <1>c, <1>d, <1>e DEF Nesting
<1>3. Working'
  BY <1>a, <1>b, <1>c, <1>d, <1>e DEF Working
<1>4. Counted'
  BY <1>a, <1>b, <1>c, <1>d, <1>e DEF Counted, Locking
<1>5. Flagged'
  BY <1>a, <1>b, <1>c, <1>d, <1>e DEF Flagged
<1>6. Taken' /\ Exclusive'
  <2>1. \A d \in CPUs : Running(d)'.held = Running(d).held
    BY <1>a, <1>c, <1>d
  <2>2. \A k \in Locks : lk'[k].locked <=> lk[k].locked
    BY <1>g
  <2>. QED  BY <2>1, <2>2, SameHeld
<1>8. Known'
  BY <1>a, <1>c, <1>d, <1>f, <1>g DEF Owning, Known
<1>9. Owned'
  <2>. SUFFICES ASSUME NEW d \in CPUs, NEW k \in Running(d)'.held
                PROVE  lk'[k].cpu = IF Midway(d, k)' THEN NoCpu ELSE d
    BY DEF Owned
  <2>1. k \in Running(d).held /\ k \in Locks
    BY <1>a, <1>c, <1>d, RunningIs DEF Frames
  <2>2. CASE k = f.l
    <3>1. d = c
      BY <1>a, <1>f, <2>1, <2>2 DEF Owning, Exclusive
    <3>2. ~Midway(d, k)'
      BY <1>c, <1>d, <3>1 DEF Midway
    <3>. QED  BY <1>f, <1>g, <2>2, <3>1, <3>2
  <2>3. CASE k # f.l
    <3>1. Midway(d, k)' <=> Midway(d, k)
      BY <1>a, <1>b, <1>c, <1>d, <2>3 DEF Midway
    <3>. QED  BY <1>g, <2>1, <2>3, <3>1 DEF Owning, Owned
  <2>. QED  BY <2>2, <2>3
<1>. QED  BY <1>1, <1>2, <1>3, <1>4, <1>5, <1>6, <1>8, <1>9 DEF Owning

\* The CPU has the lock that it gives back.
LEMMA ReleaseStartInv ==
  ASSUME IInv, NEW c \in CPUs, NEW l \in Locks, ReleaseStart(c, l)
  PROVE  IInv'
<1>. USE DEF IInv
<1>a. PICK f \in Frames : f = Running(c)
  BY RunningIs
<1>b. /\ Goes(c, [f EXCEPT !.pc = "unlock", !.l = l])
      /\ f.pc = "run" /\ l \in f.held
      /\ spinPanic' = IF ~holding(c, l) THEN "release" ELSE "no"
      /\ lk' = [lk EXCEPT ![l].cpu = NoCpu]
      /\ UNCHANGED <<ie, ncli, intena>>
  BY <1>a DEF ReleaseStart, At, PanicIf, Disowned
<1>c. PICK g \in Frames : /\ Goes(c, g)
                          /\ g.pc = "unlock" /\ g.l = l /\ g.ef = f.ef
                          /\ g.held = f.held
  <2>. DEFINE h == [f EXCEPT !.pc = "unlock", !.l = l]
  <2>1. "unlock" \in Code /\ l \in Int
    BY <1>a, SpinAssumption DEF Code
  <2>2. /\ h \in Frames /\ h.pc = "unlock" /\ h.l = l /\ h.ef = f.ef
        /\ h.held = f.held
    BY <2>1 DEF Frames
  <2>3. Goes(c, h)
    BY <1>b
  <2>. HIDE DEF h
  <2>. QED  BY <2>2, <2>3
<1>d. /\ stack' \in [CPUs -> Seq(Frames)]
      /\ \A d \in CPUs : /\ Running(d)' = IF d = c THEN g ELSE Running(d)
                         /\ Depth(d)' = Depth(d)
                         /\ Depth(d) = 2 => Below(d)' = Below(d)
  BY <1>c, GoesIs
<1>e. IsFiniteSet(f.held) /\ Cardinality(f.held) \in Nat /\ ncli[c] \in Nat
  BY <1>a, FS_CardinalityType DEF Working, SpinTypes
<1>f. lk[l].locked /\ lk[l].cpu = c
  BY <1>a, <1>b DEF Owning, Taken, Owned, Midway
<1>g. \A k \in Locks : /\ lk'[k].locked <=> lk[k].locked
                       /\ lk'[k].cpu = IF k = l THEN NoCpu ELSE lk[k].cpu
  BY <1>b DEF SpinTypes
<1>1. SpinTypes'
  <2>1. lk' \in [Locks -> [locked : BOOLEAN, cpu : CPUs \cup {NoCpu}]]
    BY <1>b DEF SpinTypes
  <2>2. spinPanic' = "no"
    BY <1>b, <1>f DEF holding
  <2>. QED  BY <1>b, <1>d, <2>1, <2>2 DEF SpinTypes
<1>2. Nesting'
  BY <1>a, <1>b, <1>c, <1>d, <1>e DEF Nesting
<1>3. Working'
  BY <1>a, <1>b, <1>c, <1>d, <1>e DEF Working
<1>4. Counted'
  BY <1>a, <1>b, <1>c, <1>d, <1>e DEF Counted, Locking
<1>5. Flagged'
  BY <1>a, <1>b, <1>c, <1>d, <1>e DEF Flagged
<1>6. Taken' /\ Exclusive'
  <2>1. \A d \in CPUs : Running(d)'.held = Running(d).held
    BY <1>a, <1>c, <1>d
  <2>2. \A k \in Locks : lk'[k].locked <=> lk[k].locked
    BY <1>g
  <2>. QED  BY <2>1, <2>2, SameHeld
<1>8. Known'
  <2>1. ASSUME NEW d \in CPUs, NEW k \in Locks, lk'[k].cpu = d
        PROVE  k \in Running(d)'.held
    <3>1. k # l /\ lk[k].cpu = d
      BY <1>g, <2>1, SpinAssumption
    <3>2. k \in Running(d).held
      BY <3>1 DEF Owning, Known
    <3>. QED  BY <1>a, <1>c, <1>d, <3>1, <3>2
  <2>. QED  BY <2>1 DEF Known
<1>9. Owned'
  <2>. SUFFICES ASSUME NEW d \in CPUs, NEW k \in Running(d)'.held
                PROVE  lk'[k].cpu = IF Midway(d, k)' THEN NoCpu ELSE d
    BY DEF Owned
  <2>1. k \in Running(d).held /\ k \in Locks
    BY <1>a, <1>c, <1>d, RunningIs DEF Frames
  <2>2. CASE k = l
    <3>1. d = c
      BY <1>a, <1>b, <2>1, <2>2 DEF Owning, Exclusive
    <3>2. Midway(d, k)'
      BY <1>c, <1>d, <2>2, <3>1 DEF Midway
    <3>. QED  BY <1>g, <2>2, <3>2
  <2>3. CASE k # l
    <3>1. Midway(d, k)' <=> Midway(d, k)
      BY <1>a, <1>b, <1>c, <1>d, <2>3 DEF Midway
    <3>. QED  BY <1>g, <2>1, <2>3, <3>1 DEF Owning, Owned
  <2>. QED  BY <2>2, <2>3
<1>. QED  BY <1>1, <1>2, <1>3, <1>4, <1>5, <1>6, <1>8, <1>9 DEF Owning

\* The lock is free before the flag is restored.
LEMMA UnlockInv ==
  ASSUME IInv, NEW c \in CPUs, Unlock(c)
  PROVE  IInv'
<1>. USE DEF IInv
<1>a. PICK f \in Frames : f = Running(c)
  BY RunningIs
<1>b. /\ Goes(c, [f EXCEPT !.pc = "popcli", !.held = f.held \ {f.l}])
      /\ f.pc = "unlock"
      /\ lk' = [lk EXCEPT ![f.l].locked = FALSE]
      /\ UNCHANGED <<ie, ncli, intena, spinPanic>>
  BY <1>a DEF Unlock, At
<1>c. PICK g \in Frames : /\ Goes(c, g)
                          /\ g.pc = "popcli" /\ g.l = f.l /\ g.ef = f.ef
                          /\ g.held = f.held \ {f.l}
  <2>. DEFINE h == [f EXCEPT !.pc = "popcli", !.held = f.held \ {f.l}]
  <2>1. "popcli" \in Code /\ f.held \ {f.l} \in SUBSET Locks
    BY <1>a, SpinAssumption DEF Code, Frames
  <2>2. /\ h \in Frames /\ h.pc = "popcli" /\ h.l = f.l /\ h.ef = f.ef
        /\ h.held = f.held \ {f.l}
    BY <2>1 DEF Frames
  <2>3. Goes(c, h)
    BY <1>b
  <2>. HIDE DEF h
  <2>. QED  BY <2>2, <2>3
<1>d. /\ stack' \in [CPUs -> Seq(Frames)]
      /\ \A d \in CPUs : /\ Running(d)' = IF d = c THEN g ELSE Running(d)
                         /\ Depth(d)' = Depth(d)
                         /\ Depth(d) = 2 => Below(d)' = Below(d)
  BY <1>c, GoesIs
<1>e. IsFiniteSet(f.held) /\ Cardinality(f.held) \in Nat /\ ncli[c] \in Nat
  BY <1>a, FS_CardinalityType DEF Working, SpinTypes
<1>f. f.l \in Locks /\ f.l \in f.held
  BY <1>a, <1>b DEF Working, Frames
<1>g. \A k \in Locks : /\ lk'[k].locked <=> k # f.l /\ lk[k].locked
                       /\ lk'[k].cpu = lk[k].cpu
  BY <1>b, <1>f DEF SpinTypes
<1>i. lk[f.l].cpu = NoCpu /\ \A d \in CPUs : d # c => f.l \notin Running(d).held
  BY <1>a, <1>b, <1>f DEF Owning, Owned, Midway, Exclusive
<1>h. IsFiniteSet(g.held) /\ Cardinality(g.held) = Cardinality(f.held) - 1
  BY <1>c, <1>e, <1>f, Counting
<1>1. SpinTypes'
  <2>1. lk' \in [Locks -> [locked : BOOLEAN, cpu : CPUs \cup {NoCpu}]]
    BY <1>b, <1>f DEF SpinTypes
  <2>. QED  BY <1>b, <1>d, <2>1 DEF SpinTypes
<1>2. Nesting'
  BY <1>a, <1>b, <1>c, <1>d, <1>e DEF Nesting
<1>3. Working'
  BY <1>c, <1>d, <1>h DEF Working
<1>4. Counted'
  <2>1. ASSUME NEW d \in CPUs, d # c
        PROVE  ncli'[d] = Cardinality(Running(d)'.held) + Locking(d)'
    <3>1. Locking(d)' = Locking(d)
      BY <1>d, <2>1 DEF Locking
    <3>. QED  BY <1>b, <1>d, <2>1, <3>1, <1>h DEF Counted
  <2>2. Locking(c)' = 1 /\ Locking(c) = 0
    BY <1>a, <1>b, <1>c, <1>d DEF Locking
  <2>3. ncli[c] = Cardinality(f.held) + 0
    BY <1>a, <2>2 DEF Counted
  <2>4. ncli'[c] = Cardinality(g.held) + 1
    BY <1>b, <1>c, <1>e, <2>3, <1>h
  <2>5. ncli'[c] = Cardinality(Running(c)'.held) + Locking(c)'
    BY <1>d, <2>2, <2>4
  <2>. QED  BY <2>1, <2>5 DEF Counted
<1>5. Flagged'
  BY <1>a, <1>b, <1>c, <1>d, <1>e DEF Flagged
<1>6. Taken'
  <2>. SUFFICES ASSUME NEW k \in Locks
                PROVE  lk'[k].locked <=> \E d \in CPUs : k \in Running(d)'.held
    BY DEF Taken
  <2>1. \A d \in CPUs : k \in Running(d)'.held <=> k # f.l /\ k \in Running(d).held
    BY <1>a, <1>c, <1>d, <1>i
  <2>. QED  BY <1>g, <2>1 DEF Owning, Taken
<1>7. Exclusive'
  BY <1>a, <1>c, <1>d DEF Owning, Exclusive
<1>8. Known'
  BY <1>a, <1>c, <1>d, <1>f, <1>g, <1>i, SpinAssumption DEF Owning, Known
<1>9. Owned'
  <2>. SUFFICES ASSUME NEW d \in CPUs, NEW k \in Running(d)'.held
                PROVE  lk'[k].cpu = IF Midway(d, k)' THEN NoCpu ELSE d
    BY DEF Owned
  <2>1. k \in Running(d).held /\ k \in Locks /\ k # f.l
    BY <1>a, <1>c, <1>d, <1>i, RunningIs DEF Frames
  <2>2. Midway(d, k)' <=> Midway(d, k)
    BY <1>a, <1>b, <1>c, <1>d, <2>1 DEF Midway
  <2>. QED  BY <1>g, <2>1, <2>2 DEF Owning, Owned
<1>. QED  BY <1>1, <1>2, <1>3, <1>4, <1>5, <1>6, <1>7, <1>8, <1>9 DEF Owning

\* The last popcli() restores the flag.
LEMMA PopCliInv ==
  ASSUME IInv, NEW c \in CPUs, PopCli(c)
  PROVE  IInv'
<1>. USE DEF IInv
<1>a. PICK f \in Frames : f = Running(c)
  BY RunningIs
<1>b. /\ Goes(c, [f EXCEPT !.pc = "run"])
      /\ f.pc = "popcli"
      /\ spinPanic' = IF ie[c] \/ ncli[c] = 0 THEN "popcli" ELSE "no"
      /\ ncli' = [ncli EXCEPT ![c] = ncli[c] - 1]
      /\ ie' = [ie EXCEPT ![c] = ncli[c] = 1 /\ intena[c]]
      /\ UNCHANGED <<lk, intena>>
  BY <1>a DEF PopCli, At, GoesTo, PanicIf
<1>c. PICK g \in Frames : /\ Goes(c, g)
                          /\ g.pc = "run" /\ g.l = f.l /\ g.ef = f.ef
                          /\ g.held = f.held
  <2>. DEFINE h == [f EXCEPT !.pc = "run"]
  <2>1. "run" \in Code
    BY DEF Code
  <2>2. /\ h \in Frames /\ h.pc = "run" /\ h.l = f.l /\ h.ef = f.ef
        /\ h.held = f.held
    BY <2>1 DEF Frames
  <2>3. Goes(c, h)
    BY <1>b
  <2>. HIDE DEF h
  <2>. QED  BY <2>2, <2>3
<1>d. /\ stack' \in [CPUs -> Seq(Frames)]
      /\ \A d \in CPUs : /\ Running(d)' = IF d = c THEN g ELSE Running(d)
                         /\ Depth(d)' = Depth(d)
                         /\ Depth(d) = 2 => Below(d)' = Below(d)
  BY <1>c, GoesIs
<1>e. IsFiniteSet(f.held) /\ Cardinality(f.held) \in Nat /\ ncli[c] \in Nat
  BY <1>a, FS_CardinalityType DEF Working, SpinTypes
<1>f. ncli[c] = Cardinality(f.held) + 1 /\ ~ie[c]
  <2>1. ncli[c] = Cardinality(f.held) + 1
    BY <1>a, <1>b DEF Counted, Locking
  <2>. QED  BY <1>e, <2>1 DEF Flagged
<1>g. /\ ie'[c] <=> ncli[c] = 1 /\ intena[c]
      /\ ncli'[c] = ncli[c] - 1 /\ intena' = intena
      /\ \A d \in CPUs : d # c => ie'[d] = ie[d] /\ ncli'[d] = ncli[d]
  BY <1>b DEF SpinTypes
<1>h. ie' \in [CPUs -> BOOLEAN] /\ ncli' \in [CPUs -> Nat] /\ spinPanic' = "no"
  <2>1. ncli[c] - 1 \in Nat /\ ncli[c] # 0
    BY <1>e, <1>f
  <2>2. spinPanic' = "no"
    BY <1>b, <1>f, <2>1
  <2>3. ncli' \in [CPUs -> Nat]
    BY <1>b, <2>1 DEF SpinTypes
  <2>4. ie' \in [CPUs -> BOOLEAN]
    BY <1>b DEF SpinTypes
  <2>. QED  BY <2>2, <2>3, <2>4
<1>1. SpinTypes'
  BY <1>b, <1>d, <1>h DEF SpinTypes
<1>2. Nesting'
  BY <1>a, <1>b, <1>c, <1>d, <1>e DEF Nesting
<1>3. Working'
  BY <1>a, <1>b, <1>c, <1>d, <1>e DEF Working
<1>4. Counted'
  BY <1>a, <1>b, <1>c, <1>d, <1>e, <1>f, <1>g DEF Counted, Locking
<1>5. Flagged'
  <2>1. ASSUME NEW d \in CPUs, d # c
        PROVE  /\ ie'[d] <=> ncli'[d] = 0 /\ Depth(d)' = 1
               /\ ncli'[d] > 0 => (intena'[d] <=> Depth(d)' = 1)
               /\ Running(d)'.pc = "cli" /\ ncli'[d] = 0 => (Running(d)'.ef <=> Depth(d)' = 1)
    BY <1>d, <1>g, <2>1 DEF Flagged
  <2>2. intena[c] <=> Depth(c) = 1
    BY <1>e, <1>f DEF Flagged
  <2>3. Running(c)'.pc = "run" /\ Depth(c)' = Depth(c) /\ (ncli'[c] = 0 <=> ncli[c] = 1)
    BY <1>c, <1>d, <1>e, <1>g
  <2>4. ie'[c] <=> ncli'[c] = 0 /\ Depth(c)' = 1
    BY <1>g, <2>2, <2>3
  <2>5. intena'[c] <=> Depth(c)' = 1
    BY <1>g, <2>2, <2>3
  <2>. QED  BY <2>1, <2>3, <2>4, <2>5 DEF Flagged
<1>6. Taken' /\ Exclusive'
  <2>1. \A d \in CPUs : Running(d)'.held = Running(d).held
    BY <1>a, <1>c, <1>d
  <2>2. \A k \in Locks : lk'[k].locked <=> lk[k].locked
    BY <1>b
  <2>. QED  BY <2>1, <2>2, SameHeld
<1>8. Known'
  BY <1>a, <1>b, <1>c, <1>d, <1>e DEF Owning, Known
<1>9. Owned'
  <2>. SUFFICES ASSUME NEW d \in CPUs, NEW k \in Running(d)'.held
                PROVE  lk'[k].cpu = IF Midway(d, k)' THEN NoCpu ELSE d
    BY DEF Owned
  <2>1. lk' = lk /\ k \in Running(d).held
    BY <1>a, <1>b, <1>c, <1>d
  <2>2. Midway(d, k)' <=> Midway(d, k)
    BY <1>a, <1>b, <1>c, <1>d DEF Midway
  <2>. QED  BY <2>1, <2>2 DEF Owning, Owned
<1>. QED  BY <1>1, <1>2, <1>3, <1>4, <1>5, <1>6, <1>8, <1>9 DEF Owning

\* An interrupt comes into code without locks, and starts a handler without any.
LEMMA InterruptInv ==
  ASSUME IInv, NEW c \in CPUs, Interrupt(c)
  PROVE  IInv'
<1>. USE DEF IInv
<1>a. PICK f \in Frames : f = Running(c)
  BY RunningIs
<1>b. /\ ie[c] /\ stack' = [stack EXCEPT ![c] = Append(stack[c], Frame)]
      /\ ie' = [ie EXCEPT ![c] = FALSE] /\ UNCHANGED <<lk, ncli, intena, spinPanic>>
  BY DEF Interrupt
<1>c. Depth(c) = 1 /\ ncli[c] = 0 /\ f.held = {} /\ f.pc \in {"run", "cli"} /\ (f.pc = "cli" => f.ef)
  <2>1. Depth(c) = 1 /\ ncli[c] = 0
    BY <1>b DEF Flagged
  <2>2. IsFiniteSet(f.held) /\ Cardinality(f.held) \in Nat /\ (Cardinality(f.held) = 0 <=> f.held = {})
    BY <1>a, Counting DEF Working
  <2>3. f.held = {} /\ f.pc \notin {"holding", "xchg", "popcli"}
    BY <1>a, <2>1, <2>2 DEF Counted, Locking
  <2>4. f.pc \in {"run", "cli"}
    BY <1>a, <2>3 DEF Frames, Code, Working
  <2>. QED  BY <1>a, <2>1, <2>3, <2>4 DEF Flagged
<1>d. PICK g \in Frames : g = Frame /\ g.pc = "run" /\ g.held = {}
  BY FrameIs
<1>e. PICK t \in Seq(Frames) : t = Append(stack[c], g) /\ Len(t) = 2 /\ t[2] = g /\ t[1] = f
  <2>1. stack[c] \in Seq(Frames) /\ Len(stack[c]) = 1 /\ stack[c][1] = f
    BY <1>a, <1>c DEF SpinTypes, Depth, Running
  <2>2. PICK s \in Seq(Frames) : s = stack[c]
    BY <2>1
  <2>3. /\ Append(s, g) \in Seq(Frames) /\ Len(Append(s, g)) = Len(s) + 1
        /\ Append(s, g)[Len(s) + 1] = g /\ \A i \in 1..Len(s) : Append(s, g)[i] = s[i]
    BY AppendProperties
  <2>4. Len(s) = 1
    BY <2>1, <2>2, Zenon
  <2>5. 1 + 1 = 2 /\ 1 \in 1..1
    OBVIOUS
  <2>6. Len(Append(s, g)) = 2 /\ Append(s, g)[2] = g /\ Append(s, g)[1] = s[1]
    <3>. DEFINE n == Len(s)
    <3>1. n = 1
      BY <2>4
    <3>2. Len(Append(s, g)) = n + 1 /\ Append(s, g)[n + 1] = g /\ \A i \in 1..n : Append(s, g)[i] = s[i]
      BY <2>3
    <3>. HIDE DEF n
    <3>. QED  BY <2>5, <3>1, <3>2
  <2>. QED  BY <2>1, <2>2, <2>3, <2>6
<1>f. stack' \in [CPUs -> Seq(Frames)] /\ stack'[c] = t /\ \A d \in CPUs : d # c => stack'[d] = stack[d]
  BY <1>b, <1>d, <1>e DEF SpinTypes
<1>g. /\ Running(c)' = g /\ Depth(c)' = 2 /\ Below(c)' = f
      /\ \A d \in CPUs : d # c => /\ Running(d)' = Running(d) /\ Depth(d)' = Depth(d)
                                  /\ Below(d)' = Below(d)
  BY <1>e, <1>f DEF Running, Depth, Below
<1>h. ~ie'[c] /\ \A d \in CPUs : d # c => ie'[d] = ie[d]
  BY <1>b DEF SpinTypes
<1>i. \A d \in CPUs : Running(d)'.held = Running(d).held
  BY <1>a, <1>c, <1>d, <1>g
<1>j. \A d \in CPUs, l \in Locks : l \in Running(d).held => (Midway(d, l)' <=> Midway(d, l))
  BY <1>a, <1>c, <1>g DEF Midway
<1>1. SpinTypes'
  BY <1>b, <1>f DEF SpinTypes
<1>2. Nesting'
  BY <1>a, <1>c, <1>g DEF Nesting, Working
<1>3. Working'
  <2>1. IsFiniteSet(g.held)
    BY <1>d, FS_EmptySet
  <2>. QED  BY <1>d, <1>g, <2>1 DEF Working
<1>4. Counted'
  <2>1. \A d \in CPUs : Locking(d)' = Locking(d)
    BY <1>a, <1>c, <1>d, <1>g DEF Locking
  <2>. QED  BY <1>b, <1>i, <2>1 DEF Counted
<1>5. Flagged'
  BY <1>b, <1>c, <1>d, <1>g, <1>h DEF Flagged
<1>6. Taken' /\ Exclusive' /\ Known'
  BY <1>b, <1>i DEF Owning, Taken, Exclusive, Known
<1>7. Owned'
  <2>1. \A d \in CPUs : Running(d).held \subseteq Locks
    BY RunningIs DEF Frames
  <2>. QED  BY <1>b, <1>i, <1>j, <2>1 DEF Owning, Owned
<1>. QED  BY <1>1, <1>2, <1>3, <1>4, <1>5, <1>6, <1>7 DEF Owning

\* A handler ends without locks, and what it has interrupted goes on with the flag set.
LEMMA IretInv ==
  ASSUME IInv, NEW c \in CPUs, Iret(c)
  PROVE  IInv'
<1>. USE DEF IInv
<1>a. PICK f \in Frames : f = Running(c)
  BY RunningIs
<1>b. /\ f.pc = "run" /\ f.held = {} /\ Depth(c) = 2
      /\ stack' = [stack EXCEPT ![c] = SubSeq(stack[c], 1, Len(stack[c]) - 1)]
      /\ ie' = [ie EXCEPT ![c] = TRUE] /\ UNCHANGED <<lk, ncli, intena, spinPanic>>
  <2>1. Depth(c) > 1 /\ Depth(c) \in {1, 2}
    BY DEF Iret, Depth, Nesting
  <2>2. Depth(c) = 2
    BY <2>1
  <2>. QED  BY <1>a, <2>2 DEF Iret, At
<1>c. ncli[c] = 0
  <2>1. Cardinality(f.held) = 0 /\ Locking(c) = 0
    BY <1>a, <1>b, FS_EmptySet DEF Locking
  <2>. QED  BY <1>a, <2>1 DEF Counted
<1>d. PICK g \in Frames : /\ g = Below(c) /\ g.held = {} /\ g.pc \in {"run", "cli"}
                          /\ g.pc = "cli" => g.ef /\ g.l \in Locks
  <2>1. Below(c) \in Frames
    BY <1>b, RunningIs DEF Below
  <2>. QED  BY <1>b, <2>1 DEF Nesting
<1>e. PICK t \in Seq(Frames) : t = SubSeq(stack[c], 1, 1) /\ Len(t) = 1 /\ t[1] = g
  <2>1. \A i \in 1..1 : stack[c][i] \in Frames
    BY <1>d DEF Below
  <2>2. /\ SubSeq(stack[c], 1, 1) \in Seq(Frames)
        /\ Len(SubSeq(stack[c], 1, 1)) = IF 1 <= 1 THEN 1 - 1 + 1 ELSE 0
        /\ \A i \in 1..(1 - 1 + 1) : SubSeq(stack[c], 1, 1)[i] = stack[c][1 + i - 1]
    BY <2>1, SubSeqProperties
  <2>3. 1 \in 1..(1 - 1 + 1) /\ 1 + 1 - 1 = 1 /\ 1 - 1 + 1 = 1
    OBVIOUS
  <2>4. Len(SubSeq(stack[c], 1, 1)) = 1 /\ SubSeq(stack[c], 1, 1)[1] = stack[c][1]
    BY <2>2, <2>3
  <2>. QED  BY <1>d, <2>2, <2>4 DEF Below
<1>f. stack' \in [CPUs -> Seq(Frames)] /\ stack'[c] = t /\ \A d \in CPUs : d # c => stack'[d] = stack[d]
  <2>1. Len(stack[c]) - 1 = 1
    BY <1>b DEF Depth
  <2>. QED  BY <1>b, <1>e, <2>1 DEF SpinTypes
<1>g. /\ Running(c)' = g /\ Depth(c)' = 1
      /\ \A d \in CPUs : d # c => /\ Running(d)' = Running(d) /\ Depth(d)' = Depth(d)
                                  /\ Below(d)' = Below(d)
  BY <1>e, <1>f DEF Running, Depth, Below
<1>h. ie'[c] /\ \A d \in CPUs : d # c => ie'[d] = ie[d]
  BY <1>b DEF SpinTypes
<1>i. \A d \in CPUs : Running(d)'.held = Running(d).held
  BY <1>a, <1>b, <1>d, <1>g
<1>j. \A d \in CPUs, l \in Locks : l \in Running(d).held => (Midway(d, l)' <=> Midway(d, l))
  BY <1>a, <1>b, <1>g DEF Midway
<1>1. SpinTypes'
  BY <1>b, <1>f DEF SpinTypes
<1>2. Nesting'
  BY <1>g DEF Nesting
<1>3. Working'
  <2>1. IsFiniteSet(g.held)
    BY <1>d, FS_EmptySet
  <2>. QED  BY <1>d, <1>g, <2>1 DEF Working
<1>4. Counted'
  <2>1. \A d \in CPUs : Locking(d)' = Locking(d)
    BY <1>a, <1>b, <1>d, <1>g DEF Locking
  <2>. QED  BY <1>b, <1>i, <2>1 DEF Counted
<1>5. Flagged'
  BY <1>b, <1>c, <1>d, <1>g, <1>h DEF Flagged
<1>6. Taken' /\ Exclusive' /\ Known'
  BY <1>b, <1>i DEF Owning, Taken, Exclusive, Known
<1>7. Owned'
  <2>1. \A d \in CPUs : Running(d).held \subseteq Locks
    BY RunningIs DEF Frames
  <2>. QED  BY <1>b, <1>i, <1>j, <2>1 DEF Owning, Owned
<1>. QED  BY <1>1, <1>2, <1>3, <1>4, <1>5, <1>6, <1>7 DEF Owning

-----------------------------------------------------------------------------
LEMMA InitInv == SpinInit => IInv
<1>. SUFFICES ASSUME SpinInit PROVE IInv
  OBVIOUS
<1>1. PICK f \in Frames : f = Frame /\ f.pc = "run" /\ f.held = {}
  BY FrameIs
<1>2. <<f>> \in Seq(Frames) /\ Len(<<f>>) = 1 /\ <<f>>[1] = f
  OBVIOUS
<1>3. \A c \in CPUs : Running(c) = f /\ Depth(c) = 1
  BY <1>1, <1>2 DEF SpinInit, Running, Depth
<1>4. SpinTypes
  BY <1>1, <1>2 DEF SpinInit, SpinTypes
<1>5. Cardinality({}) = 0 /\ IsFiniteSet({})
  BY FS_EmptySet
<1>6. Nesting /\ Working
  <2>1. ASSUME NEW c \in CPUs PROVE Depth(c) \in {1, 2} /\ Depth(c) # 2
    <3>1. Depth(c) = 1
      BY <1>3
    <3>. QED  BY <3>1
  <2>2. Nesting
    BY <2>1 DEF Nesting
  <2>3. IsFiniteSet(f.held)
    BY <1>1, <1>5
  <2>4. Working
    BY <1>1, <1>3, <2>3 DEF Working
  <2>. QED  BY <2>2, <2>4
<1>7. Counted /\ Flagged
  <2>1. \A c \in CPUs : ncli[c] = 0 /\ ie[c] = TRUE /\ Locking(c) = 0
    BY <1>1, <1>3 DEF SpinInit, Locking
  <2>2. Cardinality(f.held) = 0
    BY <1>1, <1>5
  <2>3. Counted
    <3>1. ASSUME NEW c \in CPUs PROVE ncli[c] = Cardinality(Running(c).held) + Locking(c)
      <4>1. ncli[c] = 0 /\ Cardinality(Running(c).held) = 0 /\ Locking(c) = 0
        BY <1>3, <2>1, <2>2
      <4>. QED  BY <4>1
    <3>. QED  BY <3>1 DEF Counted
  <2>4. Flagged
    <3>1. ASSUME NEW c \in CPUs
          PROVE  /\ ie[c] <=> ncli[c] = 0 /\ Depth(c) = 1
                 /\ ~(ncli[c] > 0) /\ Running(c).pc # "cli"
      <4>1. ncli[c] = 0 /\ ie[c] = TRUE /\ Depth(c) = 1 /\ Running(c).pc = "run"
        BY <1>1, <1>3, <2>1
      <4>. QED  BY <4>1
    <3>. QED  BY <3>1 DEF Flagged
  <2>. QED  BY <2>3, <2>4
<1>8. Owning
  BY <1>1, <1>3, SpinAssumption DEF SpinInit, Owning, Taken, Exclusive, Known, Owned
<1>. QED  BY <1>4, <1>6, <1>7, <1>8 DEF IInv

\* The inductive invariant holds in every state of the locks.
THEOREM Invariance == SpinSpec => []IInv
<1>1. IInv /\ SpinNext => IInv'
  BY AcquireStartInv, PushCliInv, AcquireCheckedInv, XchgInv, OwnInv, ReleaseStartInv, UnlockInv,
     PopCliInv, InterruptInv, IretInv DEF SpinNext
<1>2. IInv /\ UNCHANGED spinVars => IInv'
  BY DEF spinVars, IInv, SpinTypes, Nesting, Working, Counted, Locking, Flagged, Owning, Taken,
         Exclusive, Known, Owned, Midway, Running, Depth, Below
<1>. QED  BY <1>1, <1>2, InitInv, PTL DEF SpinSpec

\* A lock is held by one CPU; no interrupt comes in while a CPU holds or waits
\* for one, so that a handler never waits for its own CPU; code that has given
\* back its locks has the interrupt flag it started with; nothing panics: for
\* any number of CPUs and locks.
THEOREM Safety == SpinSpec => []SpinSafe
<1>1. ASSUME IInv, NEW c \in CPUs
      PROVE  /\ Held(c) = Running(c).held
             /\ Held(c) # {} \/ Running(c).pc \in {"holding", "xchg"} => ~ie[c]
             /\ Len(stack[c]) > 1 => stack[c][1].held = {}
             /\ Running(c).pc = "run" /\ Held(c) = {} => ie[c] = (Len(stack[c]) = 1)
  <2>. USE DEF IInv
  <2>1. Depth(c) \in {1, 2}
    BY <1>1 DEF Nesting
  <2>2. Depth(c) = 2 => stack[c][1].held = {}
    BY <1>1 DEF Nesting, Below
  <2>3. Held(c) = Running(c).held
    <3>1. CASE Depth(c) = 1
      <4>1. \A i : i \in 1..Len(stack[c]) <=> i = 1
        BY <3>1 DEF Depth
      <4>. QED  BY <3>1, <4>1 DEF Held, Running, Depth
    <3>2. CASE Depth(c) = 2
      <4>1. \A i : i \in 1..Len(stack[c]) <=> i = 1 \/ i = 2
        BY <3>2 DEF Depth
      <4>. QED  BY <2>2, <3>2, <4>1 DEF Held, Running, Depth
    <3>. QED  BY <2>1, <3>1, <3>2
  <2>4. IsFiniteSet(Running(c).held) /\ Cardinality(Running(c).held) \in Nat
        /\ (Cardinality(Running(c).held) = 0 <=> Running(c).held = {})
    BY <1>1, Counting DEF Working
  <2>5. ncli[c] = 0 <=> Held(c) = {} /\ Running(c).pc \notin {"holding", "xchg", "popcli"}
    BY <1>1, <2>3, <2>4 DEF Counted, Locking
  <2>6. ie[c] \in BOOLEAN /\ (ie[c] <=> ncli[c] = 0 /\ Depth(c) = 1)
    BY <1>1 DEF SpinTypes, Flagged
  <2>7. Held(c) # {} \/ Running(c).pc \in {"holding", "xchg"} => ~ie[c]
    BY <2>5, <2>6
  <2>8. Running(c).pc = "run" /\ Held(c) = {} => ie[c] = (Len(stack[c]) = 1)
    BY <2>5, <2>6 DEF Depth
  <2>9. Len(stack[c]) > 1 => stack[c][1].held = {}
    <3>1. Depth(c) > 1 => Depth(c) = 2
      BY <2>1
    <3>. QED  BY <2>2, <3>1 DEF Depth
  <2>. QED  BY <2>3, <2>7, <2>8, <2>9
<1>2. IInv => SpinSafe
  BY <1>1 DEF SpinSafe, IInv, SpinTypes, Owning, Exclusive
<1>. QED  BY <1>2, Invariance, PTL
=============================================================================
