----------------------------- MODULE ByteStream -----------------------------
(***************************************************************************)
(* What a pipe promises to read() and write(): a bounded queue of bytes.   *)
(* The bytes come out in the order in which they went in, none is lost or  *)
(* delivered twice, and a read finds the end of the stream only when the   *)
(* write end is closed and everything has been read.                       *)
(***************************************************************************)
EXTENDS Naturals, Sequences

CONSTANTS Proc, Byte, PIPESIZE

VARIABLES
  q,      \* the bytes in the pipe
  open,   \* the ends that are open: a subset of {"read", "write"}
  todo,   \* the bytes that the write() of a process has still to put
  want,   \* the number of bytes that the read() of a process asks for
  got,    \* the bytes its last read() has returned
  res     \* its call is "busy", or how it ended: "ok" or "err"

vars == <<q, open, todo, want, got, res>>

Init ==
  /\ q = <<>>
  /\ open = {"read", "write"}
  /\ todo = [p \in Proc |-> <<>>]
  /\ want = [p \in Proc |-> 0]
  /\ got = [p \in Proc |-> <<>>]
  /\ res = [p \in Proc |-> "ok"]

\* A process starts a write() or a read().
Call(p) ==
  /\ res[p] # "busy"
  /\ res' = [res EXCEPT ![p] = "busy"]
  /\ got' = [got EXCEPT ![p] = <<>>]
  /\ \/ /\ todo'[p] \in Seq(Byte) /\ todo'[p] # <<>>
        /\ todo' = [todo EXCEPT ![p] = todo'[p]]
        /\ UNCHANGED want
     \/ /\ want'[p] \in Nat \ {0}
        /\ want' = [want EXCEPT ![p] = want'[p]]
        /\ UNCHANGED todo
  /\ UNCHANGED <<q, open>>

\* write() puts its next k bytes.  It succeeds when all of them are in the
\* pipe, and otherwise stops only at a full pipe, to go on later or to fail.
Write(p) ==
  \E k \in 0..Len(todo[p]) :
    /\ res[p] = "busy" /\ todo[p] # <<>>
    /\ Len(q) + k <= PIPESIZE
    /\ q' = q \o SubSeq(todo[p], 1, k)
    /\ \/ /\ k = Len(todo[p])
          /\ todo' = [todo EXCEPT ![p] = <<>>]
          /\ res' = [res EXCEPT ![p] = "ok"]
       \/ /\ k < Len(todo[p]) /\ Len(q) + k = PIPESIZE
          /\ todo' = [todo EXCEPT ![p] = <<>>]
          /\ res' = [res EXCEPT ![p] = "err"]
       \/ /\ k < Len(todo[p]) /\ Len(q) + k = PIPESIZE
          /\ todo' = [todo EXCEPT ![p] = SubSeq(@, k + 1, Len(@))]
          /\ UNCHANGED res
    /\ UNCHANGED <<open, want, got>>

\* read() takes what is there, up to the number it wants.  It returns nothing
\* only at the end of the stream, or when it fails.
Read(p) ==
  LET k == IF want[p] < Len(q) THEN want[p] ELSE Len(q)
  IN  /\ res[p] = "busy" /\ want[p] > 0
      /\ want' = [want EXCEPT ![p] = 0]
      /\ \/ /\ k > 0 \/ "write" \notin open
            /\ got' = [got EXCEPT ![p] = SubSeq(q, 1, k)]
            /\ q' = SubSeq(q, k + 1, Len(q))
            /\ res' = [res EXCEPT ![p] = "ok"]
         \/ /\ res' = [res EXCEPT ![p] = "err"]
            /\ UNCHANGED <<q, got>>
      /\ UNCHANGED <<open, todo>>

Close(e) ==
  /\ open' = open \ {e}
  /\ UNCHANGED <<q, todo, want, got, res>>

Next == (\E p \in Proc : Call(p) \/ Write(p) \/ Read(p)) \/ \E e \in open : Close(e)
Spec == Init /\ [][Next]_vars
=============================================================================
