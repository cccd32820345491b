----------------------------- MODULE NameSpace -----------------------------
(***************************************************************************)
(* What the file system calls promise: directories are maps from names to  *)
(* inodes, changed one entry at a time, and an inode is freed only when no *)
(* entry names it and no process has it as open file or current directory. *)
(***************************************************************************)
EXTENDS Integers

CONSTANTS Ino, Root
VARIABLES
  kind,   \* "free", "file", "dir" or "dev"
  names,  \* the entries of each directory, without the dots
  held    \* the inodes that are open or current directories
vars == <<kind, names, held>>

Empty == [n \in {} |-> 0]
Used == {i \in Ino : kind[i] # "free"}

Init ==
  /\ kind = [i \in Ino |-> IF i = Root THEN "dir" ELSE "free"]
  /\ names = [i \in Ino |-> Empty]
  /\ held = {Root}

\* ialloc(): a free inode gets a type, which it keeps until it is freed.
Allocate(i, t) ==
  /\ kind[i] = "free"
  /\ kind' = [kind EXCEPT ![i] = t]
  /\ UNCHANGED <<names, held>>

\* dirlink(): a name that is not there yet, for an inode that is in use.
Enter(d, i) ==
  /\ kind[d] = "dir" /\ kind[i] # "free"
  /\ \E n \in DOMAIN names'[d] \ DOMAIN names[d] :
       names' = [names EXCEPT ![d] = [m \in DOMAIN @ \cup {n} |-> IF m = n THEN i ELSE @[m]]]
  /\ UNCHANGED <<kind, held>>

\* sys_unlink(): an entry goes, not that of a directory with entries.
Remove(d, n) ==
  /\ kind[names[d][n]] = "dir" => names[names[d][n]] = Empty
  /\ names' = [names EXCEPT ![d] = [m \in DOMAIN @ \ {n} |-> @[m]]]
  /\ UNCHANGED <<kind, held>>

\* open(), chdir(), close(): of inodes that are in use.
Hold ==
  /\ held' \subseteq Used
  /\ UNCHANGED <<kind, names>>

\* The end of iput(): the entries a removed directory has got since are lost.
Free(i) ==
  /\ kind[i] # "free" /\ i \notin held
  /\ \A d \in Ino : \A n \in DOMAIN names[d] : names[d][n] # i
  /\ kind' = [kind EXCEPT ![i] = "free"]
  /\ names' = [names EXCEPT ![i] = Empty]
  /\ UNCHANGED held

Next ==
  \/ \E i \in Ino, t \in {"file", "dir", "dev"} : Allocate(i, t)
  \/ \E d, i \in Ino : Enter(d, i)
  \/ \E d \in Ino : \E n \in DOMAIN names[d] : Remove(d, n)
  \/ Hold
  \/ \E i \in Ino : Free(i)
Spec == Init /\ [][Next]_vars
=============================================================================
