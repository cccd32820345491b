---------------------------- MODULE ShellMeaning ----------------------------
(***************************************************************************)
(* The meaning of a line, defined on the line itself by splitting it at    *)
(* the symbols outside parentheses; no commands, no descriptor tables.     *)
(***************************************************************************)
EXTENDS Integers, Sequences, FiniteSets

CONSTANTS MAXARGS, NFD
Word == {"a", "m"}
Redirs == {"<", ">", "+"}
Least(S) == CHOOSE x \in S : \A y \in S : x <= y

Bad == [ok |-> FALSE, runs |-> {}, done |-> {}]
Means(runs, done) == [ok |-> TRUE, runs |-> runs, done |-> done]
Both(x, y) == IF x.ok /\ y.ok THEN Means(x.runs \cup y.runs, x.done \cup y.done) ELSE Bad

\* t from i to j.  The places of symbols outside parentheses; the end of a block.
Depth(t, i, j) == Cardinality({k \in i..j : t[k] = "("}) - Cardinality({k \in i..j : t[k] = ")"})
Outside(t, i, j, sym) == {k \in i..j : t[k] = sym /\ Depth(t, i, k - 1) = 0}
Ends(t, i, j) == {k \in i..j : t[k] = ")" /\ Depth(t, i, k) = 0}

\* Words and redirections.  Of two redirections of the same descriptor the
\* first in the line counts, but all are opened.
WellRedirected(t, i, j) == \A k \in i..j : t[k] \in Redirs => k < j /\ t[k + 1] \in Word
Files(t, i, j, syms) == {k + 1 : k \in {k \in i..j : t[k] \in syms}}
Missing(t, i, j) == \E k \in Files(t, i, j, {"<"}) : t[k] = "m"
To(t, i, j, syms, old) == LET fs == Files(t, i, j, syms)
                          IN  IF fs = {} THEN old ELSE <<"file", Least(fs)>>
Args(t, i, j) == SelectSeq([n \in 1..(j - i + 1) |-> i + n - 1],
                           LAMBDA k : t[k] \in Word /\ (k = i \/ t[k - 1] \notin Redirs))

Runs(argv, in, out, after) ==
  LET fds == [d \in 0..(NFD - 1) |-> CASE d = 0 -> in [] d = 1 -> out [] d = 2 -> <<"console", 0>> [] OTHER -> <<"closed", 0>>]
  IN  IF argv = <<>> THEN Means({}, {})
      ELSE Means({[argv |-> argv, fds |-> fds, after |-> after]}, {argv[1]})

RECURSIVE List(_, _, _, _, _, _), Pipeline(_, _, _, _, _, _)

Simple(t, i, j, in, out, after) ==
  LET block == i <= j /\ t[i] = "("
      k == IF ~block THEN i - 1 ELSE IF Ends(t, i, j) = {} THEN j ELSE Least(Ends(t, i, j))
      argv == Args(t, k + 1, j)
      in2 == To(t, k + 1, j, {"<"}, in)
      out2 == To(t, k + 1, j, {">", "+"}, out)
      inner == IF block THEN List(t, i + 1, k - 1, in2, out2, after) ELSE Runs(argv, in2, out2, after)
  IN  IF \/ block /\ (Ends(t, i, j) = {} \/ argv # <<>> \/ ~inner.ok)
         \/ \E n \in (k + 1)..j : t[n] \notin Word \cup Redirs
         \/ ~WellRedirected(t, k + 1, j) \/ Len(argv) >= MAXARGS
      THEN Bad
      ELSE IF Missing(t, k + 1, j) THEN Means({}, {}) ELSE inner

Pipeline(t, i, j, in, out, after) ==
  LET bars == Outside(t, i, j, "|")
      k == Least(bars)
  IN  IF bars = {} THEN Simple(t, i, j, in, out, after)
      ELSE Both(Simple(t, i, k - 1, in, <<"write", k>>, after),
                Pipeline(t, k + 1, j, <<"read", k>>, out, after))

\* & is only at the end of a list's element, and nobody waits for it.
Element(t, i, j, in, out, after) ==
  LET ands == Outside(t, i, j, "&")
      k == Least(ands)
      p == Pipeline(t, i, k - 1, in, out, after)
  IN  IF ands = {} THEN Pipeline(t, i, j, in, out, after)
      ELSE IF p.ok /\ \A n \in k..j : t[n] = "&" THEN Means(p.runs, {}) ELSE Bad

List(t, i, j, in, out, after) ==
  LET semis == Outside(t, i, j, ";")
      k == Least(semis)
      l == Element(t, i, k - 1, in, out, after)
  IN  IF semis = {} THEN Element(t, i, j, in, out, after)
      ELSE IF ~l.ok THEN Bad
      ELSE Both(l, List(t, k + 1, j, in, out, after \cup l.done))

Meaning(t) == List(t, 1, Len(t), <<"console", 0>>, <<"console", 0>>, {})
=============================================================================
