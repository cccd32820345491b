------------------------------- MODULE Shell --------------------------------
(***************************************************************************)
(* sh.c: the recursive-descent parser and runcmd().                        *)
(*                                                                         *)
(* A line is a sequence of tokens, as gettoken() cuts them: words ("a", or *)
(* "m", the name of a file that does not exist) and < > + | & ; ( ), where *)
(* + stands for >>.  A word is known by its place in the line.  fork() and *)
(* pipe() succeed.                                                         *)
(***************************************************************************)
EXTENDS Integers, Sequences, FiniteSets

CONSTANTS Token,    \* the tokens of the lines that are typed
          MaxLine,  \* their longest length
          MAXARGS,
          NFD       \* descriptors 0..NFD-1 of a process

Word == {"a", "m"}
Redirs == {"<", ">", "+"}
Least(S) == CHOOSE x \in S : \A y \in S : x <= y

VARIABLES line,    \* the line that the shell has read
          shfds,   \* the descriptors of the shell itself
          shat,    \* where main() is
          outcome  \* what became of the line
shellVars == <<line, shfds, shat, outcome>>

-----------------------------------------------------------------------------
\* The constructors.
execcmd == [type |-> "exec", argv |-> <<>>]
redircmd(sub, file, missing, fd) ==
  [type |-> "redir", cmd |-> sub, file |-> file, missing |-> missing, fd |-> fd]
pipecmd(left, right, at) == [type |-> "pipe", left |-> left, right |-> right, at |-> at]
listcmd(left, right) == [type |-> "list", left |-> left, right |-> right]
backcmd(sub) == [type |-> "back", cmd |-> sub]

\* The parsers take the line t and a place s in it, and give the command and
\* the place after it; panic() ends the process.
Parsed(cmd, s) == [cmd |-> cmd, s |-> s]
Panic == Parsed([type |-> "panic"], 0)
Then(r, F(_)) == IF r = Panic THEN r ELSE F(r)

peek(t, s, toks) == s <= Len(t) /\ t[s] \in toks

RECURSIVE parseredirs(_, _, _), parseargs(_, _, _, _), parseline(_, _), parsepipe(_, _)

parseredirs(cmd, t, s) ==
  LET missing == t[s] = "<" /\ t[s + 1] = "m"
      fd == IF t[s] = "<" THEN 0 ELSE 1
  IN  IF ~peek(t, s, Redirs) THEN Parsed(cmd, s)
      ELSE IF ~peek(t, s + 1, Word) THEN Panic
      ELSE parseredirs(redircmd(cmd, s + 1, missing, fd), t, s + 2)

parseblock(t, s) ==
  Then(parseline(t, s + 1),
       LAMBDA r : IF peek(t, r.s, {")"}) THEN parseredirs(r.cmd, t, r.s + 1) ELSE Panic)

\* The argument goes to the innermost command, which parseexec() made first.
RECURSIVE WithArg(_, _)
WithArg(cmd, w) == IF cmd.type = "exec" THEN [cmd EXCEPT !.argv = Append(@, w)]
                   ELSE [cmd EXCEPT !.cmd = WithArg(@, w)]
TooMany(argc) == argc >= MAXARGS
parseargs(cmd, argc, t, s) ==
  IF s > Len(t) \/ peek(t, s, {"|", ")", "&", ";"}) THEN Parsed(cmd, s)
  ELSE IF ~peek(t, s, Word) \/ TooMany(argc + 1) THEN Panic
  ELSE Then(parseredirs(WithArg(cmd, s), t, s + 1), LAMBDA r : parseargs(r.cmd, argc + 1, t, r.s))
parseexec(t, s) ==
  IF peek(t, s, {"("}) THEN parseblock(t, s)
  ELSE Then(parseredirs(execcmd, t, s), LAMBDA r : parseargs(r.cmd, 0, t, r.s))

parsepipe(t, s) ==
  Then(parseexec(t, s), LAMBDA l :
    IF ~peek(t, l.s, {"|"}) THEN l
    ELSE Then(parsepipe(t, l.s + 1), LAMBDA r : Parsed(pipecmd(l.cmd, r.cmd, l.s), r.s)))

RECURSIVE Backs(_, _)
Backs(t, r) == IF peek(t, r.s, {"&"}) THEN Backs(t, Parsed(backcmd(r.cmd), r.s + 1)) ELSE r
parseline(t, s) ==
  Then(parsepipe(t, s), LAMBDA p :
    LET l == Backs(t, p)
    IN  IF ~peek(t, l.s, {";"}) THEN l
        ELSE Then(parseline(t, l.s + 1), LAMBDA r : Parsed(listcmd(l.cmd, r.cmd), r.s)))

\* Leftovers are an error.
parsecmd(t) == Then(parseline(t, 1), LAMBDA r : IF r.s <= Len(t) THEN Panic ELSE r)

-----------------------------------------------------------------------------
\* Descriptor tables.
Closed == <<"closed", 0>>
Lowest(f) == Least({d \in DOMAIN f : f[d] = Closed})
close(f, d) == [f EXCEPT ![d] = Closed]
open(f, what) == [f EXCEPT ![Lowest(f)] = what]

\* The descriptors of the two children of a pipe, out of those with p[0], p[1].
LeftEnd_Leak(f, p0, p1) == close(open(close(f, 1), f[p1]), p1)
LeftEnd(f, p0, p1) == close(close(open(close(f, 1), f[p1]), p0), p1)
RightEnd(f, p0, p1) == close(close(open(close(f, 0), f[p0]), p0), p1)

\* runcmd() with the descriptors f, after the programs "after" have ended: the
\* programs that it runs, and those that have ended when its process exits.
RECURSIVE runcmd(_, _, _)
runcmd(cmd, f, after) ==
  CASE cmd.type = "exec" ->
         IF cmd.argv = <<>> THEN [runs |-> {}, done |-> {}]
         ELSE [runs |-> {[argv |-> cmd.argv, fds |-> f, after |-> after]}, done |-> {cmd.argv[1]}]
    [] cmd.type = "redir" ->
         IF cmd.missing THEN [runs |-> {}, done |-> {}]
         ELSE runcmd(cmd.cmd, open(close(f, cmd.fd), <<"file", cmd.file>>), after)
    [] cmd.type = "list" ->
         LET l == runcmd(cmd.left, f, after)
             r == runcmd(cmd.right, f, after \cup l.done)
         IN  [runs |-> l.runs \cup r.runs, done |-> l.done \cup r.done]
    [] cmd.type = "pipe" ->
         LET f1 == open(f, <<"read", cmd.at>>)
             f2 == open(f1, <<"write", cmd.at>>)
             l == runcmd(cmd.left, LeftEnd(f2, Lowest(f), Lowest(f1)), after)
             r == runcmd(cmd.right, RightEnd(f2, Lowest(f), Lowest(f1)), after)
         IN  [runs |-> l.runs \cup r.runs, done |-> l.done \cup r.done]
    [] cmd.type = "back" -> [runs |-> runcmd(cmd.cmd, f, after).runs, done |-> {}]

-----------------------------------------------------------------------------
\* main(): the console is opened until three descriptors are open.
Nothing == [runs |-> {}, done |-> {}]
ShellInit ==
  /\ line = <<>>
  /\ shfds = [d \in 0..(NFD - 1) |-> Closed]
  /\ shat = "start"
  /\ outcome = Nothing
OpenConsole ==
  /\ shat = "start"
  /\ IF Lowest(shfds) < 3 THEN shfds' = open(shfds, <<"console", 0>>) /\ UNCHANGED shat
     ELSE shat' = "prompt" /\ UNCHANGED shfds
  /\ UNCHANGED <<line, outcome>>

\* A line is read; the child parses and runs it, and the shell waits.
getcmd(t) ==
  LET r == parsecmd(t)
  IN  /\ shat = "prompt"
      /\ line' = t
      /\ IF r = Panic THEN shat' = "syntax" /\ outcome' = Nothing
         ELSE shat' = "ran" /\ outcome' = runcmd(r.cmd, shfds, {})
      /\ UNCHANGED shfds
wait == /\ shat \in {"syntax", "ran"}
        /\ line' = <<>> /\ shat' = "prompt" /\ outcome' = Nothing /\ UNCHANGED shfds

ShellNext ==
  \/ OpenConsole \/ wait
  \/ \E n \in 0..MaxLine : \E t \in [1..n -> Token] : getcmd(t)
ShellSpec == ShellInit /\ [][ShellNext]_shellVars

-----------------------------------------------------------------------------
\* The parser and runcmd() agree with the meaning of every line: the programs
\* that run, their arguments, their descriptors (no end of a pipe is left open
\* in a program that does not use it), what has ended before each of them
\* starts, and what the shell waits for.
Reference == INSTANCE ShellMeaning
LinesMean ==
  shat \in {"syntax", "ran"} =>
    Reference!Meaning(line) = [ok |-> shat = "ran", runs |-> outcome.runs, done |-> outcome.done]
=============================================================================
