------------------------------ MODULE SpinLock ------------------------------
(***************************************************************************)
(* spinlock.c, one action for each access to what CPUs share and for each  *)
(* point where an interrupt can come in.  Each CPU has a stack of what it  *)
(* runs: kernel code that takes locks in their order, and, on top of it,   *)
(* an interrupt handler that takes any one of them.                        *)
(***************************************************************************)
EXTENDS Integers, Sequences

CONSTANTS CPUs, Locks  \* locks are numbers, in the order in which they are taken
NoCpu == 0
ASSUME SpinAssumption == NoCpu \notin CPUs /\ Locks \subseteq Int

VARIABLES
  lk,      \* the locks: locked, and cpu for holding()
  ie,      \* is the interrupt flag of the CPU set
  ncli, intena,
  stack,   \* what runs: pc, the lock it works on, eflags as pushcli() read them, locks held
  spinPanic
spinVars == <<lk, ie, ncli, intena, stack, spinPanic>>

Frame == [pc |-> "run", l |-> 0, ef |-> FALSE, held |-> {}]
SpinInit ==
  /\ lk = [l \in Locks |-> [locked |-> FALSE, cpu |-> NoCpu]]
  /\ ie = [c \in CPUs |-> TRUE]
  /\ ncli = [c \in CPUs |-> 0]
  /\ intena = [c \in CPUs |-> FALSE]
  /\ stack = [c \in CPUs |-> <<Frame>>]
  /\ spinPanic = "no"

Running(c) == stack[c][Len(stack[c])]
At(c, pc) == spinPanic = "no" /\ Running(c).pc = pc
Goes(c, f) == stack' = [stack EXCEPT ![c][Len(stack[c])] = f]
GoesTo(c, pc) == Goes(c, [Running(c) EXCEPT !.pc = pc])
PanicIf(test, why) == spinPanic' = IF test THEN why ELSE "no"

\* acquire(): pushcli() reads the flags, and an interrupt may still come.
AcquireStart(c, l) ==
  /\ At(c, "run") /\ \A k \in Running(c).held : k < l
  /\ Goes(c, [Running(c) EXCEPT !.pc = "cli", !.l = l, !.ef = ie[c]])
  /\ UNCHANGED <<lk, ie, ncli, intena, spinPanic>>

\* The rest of pushcli().
FlagsKept_Late(c) == FALSE
FlagsKept(c) == Running(c).ef
PushCli(c) ==
  /\ At(c, "cli")
  /\ ie' = [ie EXCEPT ![c] = FALSE]
  /\ intena' = [intena EXCEPT ![c] = IF ncli[c] = 0 THEN FlagsKept(c) ELSE @]
  /\ ncli' = [ncli EXCEPT ![c] = @ + 1]
  /\ GoesTo(c, "holding") /\ UNCHANGED <<lk, spinPanic>>

holding(c, l) == lk[l].locked /\ lk[l].cpu = c
AcquireChecked(c) ==
  /\ At(c, "holding") /\ PanicIf(holding(c, Running(c).l), "acquire")
  /\ GoesTo(c, "xchg") /\ UNCHANGED <<lk, ie, ncli, intena>>

\* xchg(): it spins while the lock is taken.
Xchg(c) ==
  LET l == Running(c).l
  IN  /\ At(c, "xchg") /\ ~lk[l].locked
      /\ lk' = [lk EXCEPT ![l].locked = TRUE]
      /\ Goes(c, [Running(c) EXCEPT !.pc = "own", !.held = @ \cup {l}])
      /\ UNCHANGED <<ie, ncli, intena, spinPanic>>
Own(c) ==
  /\ At(c, "own") /\ GoesTo(c, "run")
  /\ lk' = [lk EXCEPT ![Running(c).l].cpu = c]
  /\ UNCHANGED <<ie, ncli, intena, spinPanic>>

\* release(): the test and lk->cpu, then the lock, then popcli().
Disowned(l) == NoCpu
ReleaseStart(c, l) ==
  /\ At(c, "run") /\ l \in Running(c).held /\ PanicIf(~holding(c, l), "release")
  /\ lk' = [lk EXCEPT ![l].cpu = Disowned(l)]
  /\ Goes(c, [Running(c) EXCEPT !.pc = "unlock", !.l = l])
  /\ UNCHANGED <<ie, ncli, intena>>
Unlock(c) ==
  LET l == Running(c).l
  IN  /\ At(c, "unlock")
      /\ lk' = [lk EXCEPT ![l].locked = FALSE]
      /\ Goes(c, [Running(c) EXCEPT !.pc = "popcli", !.held = @ \ {l}])
      /\ UNCHANGED <<ie, ncli, intena, spinPanic>>
PopCli(c) ==
  /\ At(c, "popcli") /\ PanicIf(ie[c] \/ ncli[c] = 0, "popcli")
  /\ ncli' = [ncli EXCEPT ![c] = @ - 1]
  /\ ie' = [ie EXCEPT ![c] = ncli[c] = 1 /\ intena[c]]
  /\ GoesTo(c, "run") /\ UNCHANGED <<lk, intena>>

\* An interrupt: the gate clears the flag, and iret restores it.
Interrupt(c) ==
  /\ spinPanic = "no" /\ ie[c]
  /\ stack' = [stack EXCEPT ![c] = Append(@, Frame)]
  /\ ie' = [ie EXCEPT ![c] = FALSE]
  /\ UNCHANGED <<lk, ncli, intena, spinPanic>>
Iret(c) ==
  /\ At(c, "run") /\ Len(stack[c]) > 1 /\ Running(c).held = {}
  /\ stack' = [stack EXCEPT ![c] = SubSeq(@, 1, Len(@) - 1)]
  /\ ie' = [ie EXCEPT ![c] = TRUE]
  /\ UNCHANGED <<lk, ncli, intena, spinPanic>>

SpinNext ==
  \E c \in CPUs :
    \/ \E l \in Locks : AcquireStart(c, l) \/ ReleaseStart(c, l)
    \/ PushCli(c) \/ AcquireChecked(c) \/ Xchg(c) \/ Own(c)
    \/ Unlock(c) \/ PopCli(c) \/ Interrupt(c) \/ Iret(c)
SpinSpec == SpinInit /\ [][SpinNext]_spinVars

-----------------------------------------------------------------------------
\* A lock is held by one CPU; no interrupt comes in while a CPU holds or waits
\* for one, so that a handler never waits for its own CPU; code that has given
\* back its locks has the interrupt flag it started with; nothing panics.
Held(c) == UNION {stack[c][i].held : i \in 1..Len(stack[c])}
SpinSafe ==
  /\ spinPanic = "no"
  /\ \A c, d \in CPUs : c # d => Held(c) \cap Held(d) = {}
  /\ \A c \in CPUs :
       /\ Held(c) # {} \/ Running(c).pc \in {"holding", "xchg"} => ~ie[c]
       /\ Len(stack[c]) > 1 => stack[c][1].held = {}
       /\ Running(c).pc = "run" /\ Held(c) = {} => ie[c] = (Len(stack[c]) = 1)
=============================================================================
