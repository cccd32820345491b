------------------------------ MODULE PManager ------------------------------
(***************************************************************************)
(* pmanager.c, Project2's process manager: a command is run by a child,    *)
(* for which the manager waits, and "execute" by a child of that child,    *)
(* for which nobody waits.                                                 *)
(*                                                                         *)
(* A line is the words that parsecmd() cuts it into; two spaces in a row   *)
(* give an empty word.  The kernel is here a table of processes, each with *)
(* its size, its mark of kill() and its memory limit.                      *)
(***************************************************************************)
EXTENDS Integers, Sequences, FiniteSets

CONSTANTS Pids,       \* the processes that commands can name
          PmWords,    \* the words that are typed
          MaxWords,   \* at most 4: the size of words[]
          MaxCmds     \* how many lines are typed

\* Pids are positive: 0 is that of no process.
ASSUME PmAssumption == Pids \subseteq Nat \ {0} /\ {MaxWords, MaxCmds} \subseteq Nat

VARIABLES
  pmat,      \* where main() is
  worker,    \* the manager's child
  jobs,      \* the children of its children: programs, and what is to become one
  table,     \* pid -> size, killed, limit
  asked,     \* the commands typed, and what they said about the process they name
  answered   \* what the commands have done, in order
pmVars == <<pmat, worker, jobs, table, asked, answered>>

NoWorker == [at |-> "none"]
PmInit ==
  /\ pmat = "prompt"
  /\ worker = NoWorker
  /\ jobs = <<>>
  /\ table = [p \in Pids |-> [size |-> p, killed |-> FALSE, limit |-> 0]]
  /\ asked = <<>> /\ answered = <<>>

\* parsecmd(): words[] is cleared first; atoi() of what is not a number is 0.
WordAt(ws, k) == IF k <= Len(ws) THEN ws[k] ELSE ""
atoi(w) == IF w \in {"1", "2"} THEN (IF w = "1" THEN 1 ELSE 2) ELSE 0

\* The constructors, and makecmd().
listcmd == [type |-> "list"]
killcmd(pid) == [type |-> "kill", pid |-> pid]
backcmd(sub) == [type |-> "back", cmd |-> sub]
executecmd(path, stacksize) == backcmd([type |-> "execute", path |-> path, stacksize |-> stacksize])
limitcmd(pid, limit) == [type |-> "limit", pid |-> pid, limit |-> limit]
NoCmd == [type |-> "error"]
makecmd(ws) ==
  CASE ws[1] = "list" -> listcmd
    [] ws[1] = "kill" -> killcmd(atoi(WordAt(ws, 2)))
    [] ws[1] = "execute" -> executecmd(WordAt(ws, 2), atoi(WordAt(ws, 3)))
    [] ws[1] = "memlim" -> limitcmd(atoi(WordAt(ws, 2)), atoi(WordAt(ws, 3)))
    [] OTHER -> NoCmd

\* main(): exit, and also a word that is no command, ends the manager.
getcmd(ws) ==
  LET cmd == makecmd(ws)
  IN  /\ pmat = "prompt" /\ Len(asked) < MaxCmds
      /\ IF cmd = NoCmd
         THEN pmat' = "gone" /\ UNCHANGED <<worker, asked>>
         ELSE /\ pmat' = "wait" /\ asked' = Append(asked, cmd)
              /\ worker' = [at |-> "run", cmd |-> cmd]
      /\ UNCHANGED <<jobs, table, answered>>

\* runcmd() in the child.  The calls of the kernel fail for a pid that is none;
\* pid 0 is that of the unused slots of the process table, where they may succeed.
Answer(cmd, ok) == answered' = Append(answered, [cmd |-> cmd, ok |-> ok])
Stands(pid, ok) == IF pid = 0 THEN ok \in BOOLEAN ELSE ok = (pid \in Pids)
RunList == worker.cmd.type = "list" /\ Answer(worker.cmd, TRUE) /\ UNCHANGED <<jobs, table>>
RunKill ==
  LET pid == worker.cmd.pid
  IN  /\ worker.cmd.type = "kill"
      /\ \E ok \in BOOLEAN : Stands(pid, ok) /\ Answer(worker.cmd, ok)
      /\ table' = [p \in Pids |-> IF p = pid THEN [table[p] EXCEPT !.killed = TRUE] ELSE table[p]]
      /\ UNCHANGED jobs
\* setmemorylimit() refuses less than the process has.
Accepts(p, limit) == table[p].size <= limit
RunLimit ==
  LET pid == worker.cmd.pid
      limit == worker.cmd.limit
      set == {p \in Pids : p = pid /\ Accepts(p, limit)}
  IN  /\ worker.cmd.type = "limit"
      /\ \E ok \in BOOLEAN : /\ IF pid \in Pids THEN ok = (set # {}) ELSE Stands(pid, ok)
                             /\ Answer(worker.cmd, ok)
      /\ table' = [p \in Pids |-> IF p \in set THEN [table[p] EXCEPT !.limit = limit] ELSE table[p]]
      /\ UNCHANGED jobs
RunBack ==
  /\ worker.cmd.type = "back" /\ Answer(worker.cmd, TRUE)
  /\ jobs' = Append(jobs, [at |-> "run", cmd |-> worker.cmd.cmd]) /\ UNCHANGED table
runcmd ==
  /\ worker.at = "run"
  /\ RunList \/ RunKill \/ RunLimit \/ RunBack
  /\ worker' = [at |-> "zombie"] /\ UNCHANGED <<pmat, asked>>

\* exec2() fails, and the child of the child exits, or it becomes the program,
\* which runs as long as it likes.
RunExecute(k) ==
  /\ jobs[k].at = "run"
  /\ \E at \in {"program", "gone"} : jobs' = [jobs EXCEPT ![k].at = at]
  /\ UNCHANGED <<pmat, worker, table, asked, answered>>
ProgramEnds(k) ==
  /\ jobs[k].at = "program" /\ jobs' = [jobs EXCEPT ![k].at = "gone"]
  /\ UNCHANGED <<pmat, worker, table, asked, answered>>

Reaped_Early == worker.at # "none"
Reaped == worker.at = "zombie"
WaitWorker ==
  /\ pmat = "wait" /\ Reaped
  /\ pmat' = "prompt" /\ worker' = NoWorker
  /\ UNCHANGED <<jobs, table, asked, answered>>

PmNext ==
  \/ \E n \in 1..MaxWords : \E ws \in [1..n -> PmWords] : getcmd(ws)
  \/ runcmd \/ WaitWorker
  \/ \E k \in 1..Len(jobs) : RunExecute(k) \/ ProgramEnds(k)
PmSpec == PmInit /\ [][PmNext]_pmVars

-----------------------------------------------------------------------------
\* At the prompt every command typed has been answered, once and in order, no
\* child is left behind, and the table of processes is what the commands that
\* succeeded say; meanwhile the manager never waits for a program that "execute"
\* has started.
Done(p, type) == {k \in 1..Len(asked) : /\ asked[k].type = type /\ asked[k].pid = p
                                        /\ answered[k].ok}
LimitAsked(p) == LET ks == Done(p, "limit")
                 IN  IF ks = {} THEN 0 ELSE asked[CHOOSE k \in ks : \A j \in ks : j <= k].limit
ManagerObeys ==
  /\ worker.at = "run" => worker.cmd.type # "execute"
  /\ pmat = "prompt" =>
       /\ worker = NoWorker
       /\ [k \in 1..Len(answered) |-> answered[k].cmd] = asked
       /\ \A p \in Pids : /\ table[p].killed = (Done(p, "kill") # {})
                          /\ table[p].limit = LimitAsked(p)
                          /\ table[p].limit = 0 \/ table[p].limit >= table[p].size
       /\ Len(jobs) = Cardinality({k \in 1..Len(asked) : asked[k].type = "back"})
=============================================================================
