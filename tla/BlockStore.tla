----------------------------- MODULE BlockStore -----------------------------
(***************************************************************************)
(* What the buffer cache promises to its callers: every block has one      *)
(* value, bread() gives exclusive use of the block and shows the value     *)
(* that the last user left, until brelse().                                *)
(***************************************************************************)
CONSTANTS Proc, Block, Val, NoProc, NoVal

VARIABLES
  content,   \* the value of each block
  owner,     \* the process that uses the block, or NoProc
  seen       \* the contents a process sees in the block that it uses

vars == <<content, owner, seen>>

Init ==
  /\ content \in [Block -> Val]
  /\ owner = [b \in Block |-> NoProc]
  /\ seen = [p \in Proc |-> NoVal]

Acquire(p, b) ==
  /\ owner[b] = NoProc /\ seen[p] = NoVal
  /\ owner' = [owner EXCEPT ![b] = p]
  /\ seen' = [seen EXCEPT ![p] = content[b]]
  /\ UNCHANGED content

Write(p, b, v) ==
  /\ owner[b] = p
  /\ content' = [content EXCEPT ![b] = v]
  /\ seen' = [seen EXCEPT ![p] = v]
  /\ UNCHANGED owner

Release(p, b) ==
  /\ owner[b] = p
  /\ owner' = [owner EXCEPT ![b] = NoProc]
  /\ seen' = [seen EXCEPT ![p] = NoVal]
  /\ UNCHANGED content

Next == \E p \in Proc, b \in Block :
          Acquire(p, b) \/ Release(p, b) \/ \E v \in Val : Write(p, b, v)
Spec == Init /\ [][Next]_vars
=============================================================================
