-------------------------------- MODULE Grep --------------------------------
(***************************************************************************)
(* grep.c: the matcher, and the loop that cuts what read() returns into    *)
(* lines.  read() returns any number of bytes, as it does for a pipe or a  *)
(* console.                                                                *)
(***************************************************************************)
EXTENDS Integers, Sequences, FiniteSets

CONSTANTS Patterns, Inputs,  \* what grep is called with, what it reads
          GBUF               \* sizeof(buf)

VARIABLES pat, src,  \* the pattern, and the whole input
          toRead,    \* how much of the input is still to be read
          gbuf,      \* the m bytes in buf
          gout,      \* the lines written
          cutLine,   \* has a read() returned bytes without an end of line
          gat        \* "start", "read" or "end"
grepVars == <<pat, src, toRead, gbuf, gout, cutLine, gat>>

From(s, k) == SubSeq(s, k, Len(s))

RECURSIVE matchhere(_, _), matchstar(_, _, _)
StarFirst_Greedy(c, re, text) == FALSE
StarFirst(c, re, text) == matchhere(re, text)
matchstar(c, re, text) ==
  \/ StarFirst(c, re, text)
  \/ /\ text # <<>> /\ (Head(text) = c \/ c = ".")
     /\ matchstar(c, re, Tail(text))
matchhere(re, text) ==
  CASE re = <<>> -> TRUE
    [] Len(re) > 1 /\ re[2] = "*" -> matchstar(re[1], From(re, 3), text)
    [] re = <<"$">> -> text = <<>>
    [] OTHER -> /\ text # <<>> /\ re[1] \in {".", Head(text)}
                /\ matchhere(Tail(re), Tail(text))
match(re, text) ==
  IF re # <<>> /\ Head(re) = "^" THEN matchhere(Tail(re), text)
  ELSE \E k \in 1..(Len(text) + 1) : matchhere(re, From(text, k))

-----------------------------------------------------------------------------
GrepInit ==
  /\ pat = <<>> /\ src = <<>> /\ toRead = <<>>
  /\ gbuf = <<>> /\ gout = <<>>
  /\ cutLine = FALSE /\ gat = "start"

GrepStart(re, in) ==
  /\ gat = "start"
  /\ pat' = re /\ src' = in /\ toRead' = in
  /\ gat' = "read" /\ UNCHANGED <<gbuf, gout, cutLine>>

\* The lines of s that are complete, and what is behind the last of them.
NewLines(s) == {k \in 1..Len(s) : s[k] = "nl"}
RECURSIVE LinesOf(_)
LinesOf(s) ==
  IF NewLines(s) = {} THEN <<>>
  ELSE LET q == CHOOSE k \in NewLines(s) : \A j \in NewLines(s) : k <= j
       IN  <<SubSeq(s, 1, q - 1)>> \o LinesOf(From(s, q + 1))
Rest(s) == LET ends == NewLines(s)
           IN  IF ends = {} THEN <<>>
               ELSE From(s, 1 + CHOOSE k \in ends : \A j \in ends : k >= j)

\* A round of the loop of grep().
GrepRead(n) ==
  LET new == SubSeq(toRead, 1, n)
      buf == gbuf \o new
  IN  /\ gat = "read" /\ n <= Len(toRead) /\ n <= GBUF - Len(gbuf) - 1
      /\ gout' = gout \o SelectSeq(LinesOf(buf), LAMBDA l : match(pat, l))
      /\ gbuf' = Rest(buf)
      /\ cutLine' = (cutLine \/ NewLines(buf) = {})
      /\ toRead' = From(toRead, n + 1) /\ UNCHANGED <<pat, src, gat>>

\* read() returns 0: the end of the input, or no room in buf.
GrepEnd ==
  /\ gat = "read" /\ (toRead = <<>> \/ Len(gbuf) = GBUF - 1)
  /\ cutLine' = (cutLine \/ toRead # <<>>)
  /\ gat' = "end" /\ UNCHANGED <<pat, src, toRead, gbuf, gout>>

GrepNext ==
  \/ \E re \in Patterns, in \in Inputs : GrepStart(re, in)
  \/ \E n \in 1..(GBUF - 1) : GrepRead(n)
  \/ GrepEnd
GrepSpec == GrepInit /\ [][GrepNext]_grepVars

-----------------------------------------------------------------------------
\* What a pattern matches: it is a sequence of items, each a character and
\* whether it may be repeated; the text is cut into as many pieces.
RECURSIVE Items(_)
Items(re) ==
  IF re = <<>> THEN <<>>
  ELSE IF Len(re) > 1 /\ re[2] = "*" THEN <<[c |-> re[1], star |-> TRUE]>> \o Items(From(re, 3))
  ELSE <<[c |-> re[1], star |-> FALSE]>> \o Items(Tail(re))
Fits(item, piece) ==
  /\ item.star \/ Len(piece) = 1
  /\ \A k \in 1..Len(piece) : item.c \in {".", piece[k]}
Matches(re, text) ==
  LET front == re # <<>> /\ Head(re) = "^"
      all == Items(IF front THEN Tail(re) ELSE re)
      back == all # <<>> /\ all[Len(all)] = [c |-> "$", star |-> FALSE]
      items == IF back THEN SubSeq(all, 1, Len(all) - 1) ELSE all
      N == Len(items)
  IN  \E cut \in [0..N -> 0..Len(text)] :
        /\ front => cut[0] = 0
        /\ back => cut[N] = Len(text)
        /\ \A k \in 1..N : cut[k - 1] <= cut[k] /\ Fits(items[k], SubSeq(text, cut[k - 1] + 1, cut[k]))

\* grep writes the lines that match, all of them and in order, whatever read()
\* returns, as long as no read() leaves buf without an end of line.
GrepSelects ==
  gat = "end" /\ ~cutLine => gout = SelectSeq(LinesOf(src), LAMBDA l : Matches(pat, l))
=============================================================================
