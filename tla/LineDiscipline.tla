--------------------------- MODULE LineDiscipline ---------------------------
(***************************************************************************)
(* What the console promises its readers: a line can be edited until it is *)
(* complete; complete lines are read in order, once, and a read() never    *)
(* goes beyond the end of a line or an end of file.                        *)
(***************************************************************************)
EXTENDS Sequences, Integers

CONSTANTS Proc, SIZE
VARIABLES
  line,   \* what is typed and may still be erased
  ready,  \* complete lines, not yet read
  got     \* what the read() of each process has taken so far, oldest first
lineVars == <<line, ready, got>>

Init == line = <<>> /\ ready = <<>> /\ got = [p \in Proc |-> <<>>]

\* consoleintr(): a character, if there is room.  A newline, an end of file or a
\* full buffer completes the line.
Type(c) ==
  LET new == Append(line, c)
      full == Len(ready) + Len(new) = SIZE
  IN  /\ Len(ready) + Len(line) < SIZE
      /\ IF c \in {"nl", "eof"} \/ full
         THEN line' = <<>> /\ ready' = ready \o new
         ELSE line' = new /\ UNCHANGED ready
      /\ UNCHANGED got

Erase ==
  /\ line # <<>>
  /\ line' = SubSeq(line, 1, Len(line) - 1) /\ UNCHANGED <<ready, got>>

KillLine == line' = <<>> /\ UNCHANGED <<ready, got>>

\* consoleread(): the next character; none after a newline.
Take(p) ==
  /\ ready # <<>> /\ Head(ready) # "eof"
  /\ got[p] # <<>> => got[p][Len(got[p])] # "nl"
  /\ ready' = Tail(ready)
  /\ got' = [got EXCEPT ![p] = Append(@, Head(ready))] /\ UNCHANGED line

\* An end of file is taken by a read() that has nothing else.
TakeEof(p) ==
  /\ ready # <<>> /\ Head(ready) = "eof" /\ got[p] = <<>>
  /\ ready' = Tail(ready) /\ UNCHANGED <<line, got>>

\* read() has returned.
Return(p) == got' = [got EXCEPT ![p] = <<>>] /\ UNCHANGED <<line, ready>>

Next ==
  \/ \E c \in {"x", "nl", "eof"} : Type(c)
  \/ Erase \/ KillLine
  \/ \E p \in Proc : Take(p) \/ TakeEof(p) \/ Return(p)
LineSpec == Init /\ [][Next]_lineVars
=============================================================================
