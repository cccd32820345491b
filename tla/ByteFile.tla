------------------------------ MODULE ByteFile ------------------------------
(***************************************************************************)
(* What readi(), writei() and itrunc() promise: a file is a sequence of    *)
(* bytes, of which a piece is overwritten or appended at a time, without a *)
(* hole and without a trace in another file.                               *)
(***************************************************************************)
EXTENDS Integers, Sequences

CONSTANTS File, Byte, MaxPiece
VARIABLES
  content,  \* the bytes of each file
  got       \* what a read() has read, until the next call
vars == <<content, got>>

Init == content = [f \in File |-> <<>>] /\ got = <<>>

Overlaid(c, off, n, b) ==
  LET len == IF off + n > Len(c) THEN off + n ELSE Len(c)
  IN  [i \in 1..len |-> IF i > off /\ i <= off + n THEN b ELSE c[i]]

\* writei(): not behind the end of the file.
WritePiece(f, off, n, b) ==
  /\ off <= Len(content[f])
  /\ content' = [content EXCEPT ![f] = Overlaid(@, off, n, b)]
  /\ got' = <<>>

\* readi(): what there is from off on.
Read(f, off, n) ==
  /\ off <= Len(content[f])
  /\ got' = SubSeq(content[f], off + 1, IF off + n > Len(content[f]) THEN Len(content[f]) ELSE off + n)
  /\ UNCHANGED content

\* itrunc().
Truncate(f) ==
  /\ content' = [content EXCEPT ![f] = <<>>]
  /\ got' = <<>>

\* Another call.
Forget == got' = <<>> /\ UNCHANGED content

Next ==
  \E f \in File :
    \/ \E off \in 0..Len(content[f]), n \in 1..MaxPiece, b \in Byte : WritePiece(f, off, n, b)
    \/ \E off \in 0..Len(content[f]) : \E n \in 0..Len(content[f]) : Read(f, off, n)
    \/ Truncate(f)
    \/ Forget
Spec == Init /\ [][Next]_vars
=============================================================================
