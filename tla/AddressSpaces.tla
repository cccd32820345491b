--------------------------- MODULE AddressSpaces ---------------------------
(***************************************************************************)
(* What vm.c promises to user programs: every process has memory of its    *)
(* own.  It gets zeroed pages only, never what another process has left;   *)
(* the child of fork() has a copy; exec() replaces all or nothing.         *)
(***************************************************************************)
EXTENDS Integers, FiniteSets

CONSTANTS Proc, Page, Zero, Text

VARIABLE mem   \* mem[p]: from the pages that p can use to their content

Empty == [v \in {} |-> Zero]
Init == \E p \in Proc : mem = [q \in Proc |-> IF q = p THEN [v \in {0} |-> Text] ELSE Empty]

\* User code.
Store(p) ==
  \E v \in DOMAIN mem[p] : mem' = [mem EXCEPT ![p][v] = p]

\* allocuvm(): one page at a time.
AddPage(p) ==
  \E v \in Page \ DOMAIN mem[p] :
    mem' = [mem EXCEPT ![p] = [w \in DOMAIN mem[p] \cup {v} |-> IF w = v THEN Zero ELSE mem[p][w]]]

\* deallocuvm(), and clearpteu() for a guard page.
DropPages(p) ==
  \E S \in SUBSET DOMAIN mem[p] :
    mem' = [mem EXCEPT ![p] = [w \in DOMAIN mem[p] \ S |-> mem[p][w]]]

\* copyuvm(): the child has what the parent has.
Fork(p, c) ==
  /\ mem[c] = Empty
  /\ mem' = [mem EXCEPT ![c] = mem[p]]

\* exec(): a new image, of text and zeroes.
Exec(p) ==
  /\ DOMAIN mem'[p] \subseteq Page /\ \A v \in DOMAIN mem'[p] : mem'[p][v] \in {Zero, Text}
  /\ mem' = [mem EXCEPT ![p] = mem'[p]]

\* exit().
End(p) == mem' = [mem EXCEPT ![p] = Empty]

Next == \E p \in Proc :
  Store(p) \/ AddPage(p) \/ DropPages(p) \/ Exec(p) \/ End(p) \/ \E c \in Proc : Fork(p, c)
Spec == Init /\ [][Next]_mem
=============================================================================
