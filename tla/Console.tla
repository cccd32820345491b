------------------------------ MODULE Console ------------------------------
(***************************************************************************)
(* The input side of console.c: the ring that consoleintr() fills and      *)
(* edits, called for each key by the keyboard and the serial interrupt,    *)
(* and the readers in consoleread().                                       *)
(*                                                                         *)
(* A character is "x", "nl" (newline), "eof" (^D), "kill" (^U) or "bs" (^H *)
(* and DEL).  The echo and ^P, which prints the process table, are left    *)
(* out: neither changes the ring.                                          *)
(***************************************************************************)
EXTENDS Integers, Sequences

CONSTANTS
  Reader,      \* the processes
  INPUT_BUF,
  IWORD,       \* uint counts modulo IWORD (2^32 in the code)
  MaxAsk       \* read() asks for 1..MaxAsk bytes

ASSUME ConsoleAssumption ==
  /\ INPUT_BUF \in Nat \ {0} /\ IWORD \in Nat /\ IWORD > INPUT_BUF /\ IWORD % INPUT_BUF = 0
  /\ MaxAsk \in Nat
  /\ "free" \notin Reader

VARIABLES
  input,    \* the ring and its indices
  rd,       \* where each reader is
  conslock, \* who holds cons.lock
  conskill  \* the readers that were killed
consVars == <<input, rd, conslock, conskill>>

NotReading == [at |-> "user", n |-> 0, got |-> <<>>]
ConsInit ==
  /\ input = [buf |-> [i \in 0..(INPUT_BUF - 1) |-> "x"], r |-> 0, w |-> 0, e |-> 0]
  /\ rd = [p \in Reader |-> NotReading]
  /\ conslock = "free"
  /\ conskill = {}

\* Unsigned arithmetic on the indices.
Plus(i, k) == (i + k) % IWORD
RingAt(i) == i % INPUT_BUF
Count(from, to) == (to - from) % IWORD
Stored(from, to) == [k \in 1..Count(from, to) |-> input.buf[RingAt(Plus(from, k - 1))]]

\* wakeup(&input.r).
WakeConsole == rd' = [p \in Reader |-> IF rd[p].at = "asleep" THEN [rd[p] EXCEPT !.at = "woken"] ELSE rd[p]]

\* consoleintr() for a character to store.
Room == Count(input.r, input.e) < INPUT_BUF
TypeChar(c) ==
  LET e == Plus(input.e, 1)
      done == c \in {"nl", "eof"} \/ e = Plus(input.r, INPUT_BUF)
  IN  /\ conslock = "free" /\ Room
      /\ input' = [input EXCEPT !.buf[RingAt(input.e)] = c, !.e = e, !.w = IF done THEN e ELSE @]
      /\ IF done THEN WakeConsole ELSE UNCHANGED rd
      /\ UNCHANGED <<conslock, conskill>>

\* ^H.
Backspace ==
  /\ conslock = "free" /\ input.e # input.w
  /\ input' = [input EXCEPT !.e = Plus(@, -1)]
  /\ UNCHANGED <<rd, conslock, conskill>>

\* ^U: back to the last newline, or to what is complete.
KillTo == LET n == Count(input.w, input.e)
              stops == {k \in 1..n : Stored(input.w, input.e)[k] = "nl"}
          IN  IF stops = {} THEN input.w ELSE Plus(input.w, CHOOSE k \in stops : \A j \in stops : j <= k)
KillLine ==
  /\ conslock = "free" /\ input.e # input.w
  /\ input' = [input EXCEPT !.e = KillTo]
  /\ UNCHANGED <<rd, conslock, conskill>>

\* consoleread(): the lock is held from here to the end, but not asleep.
ReadStart(p, n) ==
  /\ conslock = "free"
  /\ \/ rd[p].at = "user" /\ rd' = [rd EXCEPT ![p] = [at |-> "loop", n |-> n, got |-> <<>>]]
     \/ rd[p].at = "woken" /\ n = rd[p].n /\ rd' = [rd EXCEPT ![p].at = "loop"]
  /\ conslock' = p /\ UNCHANGED <<input, conskill>>

Looping(p) == conslock = p /\ rd[p].at = "loop" /\ rd[p].n > 0

\* Nothing to read: a killed process gives up; kill() may come after the test.
ReadEmpty(p) ==
  /\ Looping(p) /\ input.r = input.w
  /\ \/ /\ p \in conskill
        /\ rd' = [rd EXCEPT ![p] = [NotReading EXCEPT !.at = "return"]]
     \/ /\ p \notin conskill
        /\ rd' = [rd EXCEPT ![p].at = "sleep"]
  /\ UNCHANGED <<input, conslock, conskill>>
ConsoleSleep(p) ==
  /\ conslock = p /\ rd[p].at = "sleep"
  /\ rd' = [rd EXCEPT ![p].at = "asleep"]
  /\ conslock' = "free" /\ UNCHANGED <<input, conskill>>

\* The next character; ^D is put back if the read() already has some.
PutBack_Never(p) == FALSE
PutBack(p) == rd[p].got # <<>>
ReadChar(p) ==
  LET c == input.buf[RingAt(input.r)]
      got == Append(rd[p].got, c)
  IN  /\ Looping(p) /\ input.r # input.w
      /\ input' = [input EXCEPT !.r = IF c = "eof" /\ PutBack(p) THEN @ ELSE Plus(@, 1)]
      /\ rd' = [rd EXCEPT ![p] = CASE c = "eof" -> [@ EXCEPT !.at = "return"]
                                   [] c = "nl" -> [@ EXCEPT !.at = "return", !.got = got, !.n = rd[p].n - 1]
                                   [] OTHER -> [@ EXCEPT !.got = got, !.n = rd[p].n - 1]]
      /\ UNCHANGED <<conslock, conskill>>

ReadReturn(p) ==
  /\ conslock = p /\ (rd[p].at = "return" \/ (rd[p].at = "loop" /\ rd[p].n = 0))
  /\ rd' = [rd EXCEPT ![p] = NotReading]
  /\ conslock' = "free" /\ UNCHANGED <<input, conskill>>

\* kill() wakes a sleeping process.
KillReader(p) ==
  /\ p \notin conskill
  /\ conskill' = conskill \cup {p}
  /\ rd' = [rd EXCEPT ![p].at = IF @ = "asleep" THEN "woken" ELSE @]
  /\ UNCHANGED <<input, conslock>>

ConsNext ==
  \/ \E c \in {"x", "nl", "eof"} : TypeChar(c)
  \/ Backspace \/ KillLine
  \/ \E p \in Reader :
       \/ \E n \in 1..MaxAsk : ReadStart(p, n)
       \/ ReadEmpty(p) \/ ConsoleSleep(p) \/ ReadChar(p) \/ ReadReturn(p) \/ KillReader(p)
ConsSpec == ConsInit /\ [][ConsNext]_consVars

-----------------------------------------------------------------------------
\* No reader sleeps while there is something complete to read.
LinesWaited == \A p \in Reader : rd[p].at = "asleep" => input.r = input.w

\* The ring is a line discipline, also when its indices wrap around: every read
\* gets the bytes of one line, in the order typed and as edited, never more than
\* a line and never part of a line that is still being edited; and no key that
\* completes a line is missed by the readers asleep.
LD == INSTANCE LineDiscipline WITH
  Proc <- Reader, SIZE <- INPUT_BUF,
  line <- Stored(input.w, input.e), ready <- Stored(input.r, input.w),
  got <- [p \in Reader |-> rd[p].got]
ImplementsLines == LD!Init /\ [][UNCHANGED consVars \/ LD!Next]_(LD!lineVars) /\ []LinesWaited
=============================================================================
