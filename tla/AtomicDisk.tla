----------------------------- MODULE AtomicDisk -----------------------------
(***************************************************************************)
(* What log.c promises to the file system calls: the blocks behave like a  *)
(* store in which the updates of the calls that have ended become durable  *)
(* in one atomic step, when no call is in progress, and in which a crash   *)
(* takes the blocks back to the last such step.                            *)
(***************************************************************************)
CONSTANTS Proc,    \* the processes that make file system calls
          Block,   \* the disk blocks outside the log
          Val      \* the contents of a block

VARIABLES
  durable,   \* what the blocks hold after a crash now
  current,   \* what the file system calls see
  st         \* what each process does: "idle", "op" between begin_op() and
             \* end_op(), "commit" when its end_op() has to make things durable

vars == <<durable, current, st>>

Init ==
  /\ durable \in [Block -> Val]
  /\ current = durable
  /\ st = [p \in Proc |-> "idle"]

\* A call starts, but never while a commit is going on.
Begin(p) ==
  /\ st[p] = "idle"
  /\ \A r \in Proc : st[r] # "commit"
  /\ st' = [st EXCEPT ![p] = "op"]
  /\ UNCHANGED <<durable, current>>

Write(p) ==
  /\ st[p] = "op"
  /\ \E b \in Block, v \in Val : current' = [current EXCEPT ![b] = v]
  /\ UNCHANGED <<durable, st>>

\* The call ends; the last one that is in progress has to commit.
End(p) ==
  /\ st[p] = "op"
  /\ st' = [st EXCEPT ![p] = IF \E r \in Proc \ {p} : st[r] = "op" THEN "idle" ELSE "commit"]
  /\ UNCHANGED <<durable, current>>

Commit(p) ==
  /\ st[p] = "commit"
  /\ durable' = current
  /\ UNCHANGED <<current, st>>

\* end_op() of the last call returns only when everything is durable.
Return(p) ==
  /\ st[p] = "commit"
  /\ durable = current
  /\ st' = [st EXCEPT ![p] = "idle"]
  /\ UNCHANGED <<durable, current>>

Crash ==
  /\ current' = durable
  /\ st' = [p \in Proc |-> "idle"]
  /\ UNCHANGED durable

Next == Crash \/ \E p \in Proc : Begin(p) \/ Write(p) \/ End(p) \/ Commit(p) \/ Return(p)

Spec == Init /\ [][Next]_vars
=============================================================================
