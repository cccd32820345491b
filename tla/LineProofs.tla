----------------------------- MODULE LineProofs -----------------------------
(***************************************************************************)
(* Proofs about the two that take their input line by line: the console,   *)
(* for any size of its ring, any number of readers and any requests; and   *)
(* the process manager, for any processes, any words and any number of     *)
(* lines.                                                                  *)
(***************************************************************************)
EXTENDS Console, PManager, FiniteSetTheorems, SequenceTheorems, TLAPS

(***************************************************************************)
(* The console is a line discipline.                                       *)
(***************************************************************************)
Char == {"x", "nl", "eof"}
Index == 0..(IWORD - 1)
InLoop == {"loop", "sleep", "asleep", "woken"}

Ring == [0..(INPUT_BUF - 1) -> Char]
Input == [buf : Ring, r : Index, w : Index, e : Index]
ReaderState == [at : InLoop \cup {"user", "return"}, n : Nat, got : Seq(Char)]
ConsTypes ==
  /\ input \in Input
  /\ rd \in [Reader -> ReaderState]
  /\ conslock \in Reader \cup {"free"}

\* What the line discipline sees of the console.
Edited == Stored(input.w, input.e)
Complete == Stored(input.r, input.w)
Got == [p \in Reader |-> rd[p].got]

\* What is complete and what is still being edited fit in the ring together, and
\* only what is complete has a newline.
RingFits == Count(input.r, input.w) + Count(input.w, input.e) <= INPUT_BUF
NoNewline == \A k \in 1..Len(Edited) : Edited[k] # "nl"

\* A reader that is not asleep, nor to take the lock again, has it; it sleeps, or is
\* about to, when nothing is complete; it reads on as long as it has no newline.
Locked == \A p \in Reader : rd[p].at \in {"loop", "sleep", "return"} => conslock = p
Waited == \A p \in Reader : rd[p].at \in {"sleep", "asleep"} => input.r = input.w
ReadsOn ==
  \A p \in Reader : /\ rd[p].at = "user" => rd[p].got = <<>>
                    /\ rd[p].at \in InLoop /\ rd[p].got # <<>> => rd[p].got[Len(rd[p].got)] # "nl"

\* The inductive invariant.
ConsInv == ConsTypes /\ RingFits /\ NoNewline /\ Locked /\ Waited /\ ReadsOn

-----------------------------------------------------------------------------
\* Division with remainder.
LEMMA Remainder ==
  ASSUME NEW w \in Nat \ {0}, NEW q \in Int, NEW s \in 0..(w - 1)
  PROVE  (w * q + s) % w = s
OBVIOUS

LEMMA Euclid ==
  ASSUME NEW w \in Nat \ {0}, NEW a \in Int
  PROVE  (a % w) \in 0..(w - 1) /\ \E q \in Int : a = w * q + (a % w)
<1>1. a \div w \in Int
  OBVIOUS
<1>2. a = w * (a \div w) + (a % w)
  OBVIOUS
<1>3. (a % w) \in 0..(w - 1)
  OBVIOUS
<1>. QED  BY <1>1, <1>2, <1>3

\* Adding a multiple of w changes no remainder.
LEMMA Shift ==
  ASSUME NEW w \in Nat \ {0}, NEW a \in Int, NEW b \in Int, b % w = 0
  PROVE  (a + b) % w = a % w
<1>1. PICK q \in Int : a = w * q + (a % w)
  BY Euclid
<1>2. PICK r \in Int : b = w * r + (b % w)
  BY Euclid
<1>3. w * q \in Int /\ w * r \in Int /\ w * (q + r) = w * q + w * r
  OBVIOUS
<1>4. PICK s \in 0..(w - 1) : s = a % w
  BY Euclid
<1>5. PICK u \in Int, v \in Int : u = w * q /\ v = w * r
  BY <1>3
<1>6. a = u + s
  BY <1>1, <1>4, <1>5
<1>7. b = v
  BY <1>2, <1>5
<1>8. a + b = w * (q + r) + s
  BY <1>3, <1>5, <1>6, <1>7
<1>9. q + r \in Int
  OBVIOUS
<1>. QED  BY <1>4, <1>8, <1>9, Remainder

\* Less than w apart, two numbers have different remainders.
LEMMA Apart ==
  ASSUME NEW w \in Nat \ {0}, NEW a \in Int, NEW i \in 0..(w - 1), NEW j \in 0..(w - 1),
         (a + i) % w = (a + j) % w
  PROVE  i = j
<1>1. PICK x \in Int, y \in Int : x = a + i /\ y = a + j
  OBVIOUS
<1>2. PICK q \in Int : x = w * q + (x % w)
  BY Euclid
<1>3. PICK r \in Int : y = w * r + (y % w)
  BY Euclid
<1>4. w * q \in Int /\ w * r \in Int /\ w * (q - r) = w * q - w * r
  OBVIOUS
<1>5. PICK s \in 0..(w - 1) : s = x % w
  BY Euclid
<1>6. PICK u \in Int, v \in Int : u = w * q /\ v = w * r
  BY <1>4
<1>7. i - j = u - v
  BY <1>1, <1>2, <1>3, <1>5, <1>6
<1>8. PICK d \in Int : d = q - r
  OBVIOUS
<1>9. i - j = w * d
  BY <1>4, <1>6, <1>7, <1>8
<1>10. (d > 0 => w * d >= w) /\ (d < 0 => w * d <= -w)
  OBVIOUS
<1>11. d = 0
  BY <1>9, <1>10
<1>. QED  BY <1>9, <1>11

\* The indices wrap around at IWORD.
LEMMA Ahead ==
  ASSUME NEW i \in Index, NEW k \in 0..IWORD
  PROVE  /\ Plus(i, k) = IF i + k < IWORD THEN i + k ELSE i + k - IWORD
         /\ Plus(i, k) \in Index
BY ConsoleAssumption DEF Plus, Index

LEMMA Still ==
  ASSUME NEW i \in Index
  PROVE  Plus(i, 0) = i
BY ConsoleAssumption DEF Plus, Index

LEMMA Back ==
  ASSUME NEW i \in Index
  PROVE  Plus(i, -1) = (IF i = 0 THEN IWORD - 1 ELSE i - 1) /\ Plus(i, -1) \in Index
BY ConsoleAssumption DEF Plus, Index

LEMMA Between ==
  ASSUME NEW i \in Index, NEW j \in Index
  PROVE  /\ Count(i, j) = (IF j >= i THEN j - i ELSE j - i + IWORD) /\ Count(i, j) \in Index
         /\ Count(i, j) = 0 <=> i = j
<1>1. Count(i, j) = IF j >= i THEN j - i ELSE j - i + IWORD
  BY ConsoleAssumption DEF Count, Index
<1>. QED  BY <1>1, ConsoleAssumption DEF Index

\* An index is ahead of another by the number of bytes between them.
LEMMA CountIs ==
  ASSUME NEW i \in Index, NEW j \in Index, NEW k \in Index
  PROVE  j = Plus(i, k) <=> Count(i, j) = k
<1>1. k \in 0..IWORD
  BY ConsoleAssumption DEF Index
<1>2. Plus(i, k) = IF i + k < IWORD THEN i + k ELSE i + k - IWORD
  BY <1>1, Ahead
<1>3. PICK c \in Int : c = Count(i, j)
  BY Between DEF Index
<1>4. c = IF j >= i THEN j - i ELSE j - i + IWORD
  BY <1>3, Between
<1>5. PICK d \in Int : d = Plus(i, k)
  BY <1>1, Ahead DEF Index
<1>6. d = IF i + k < IWORD THEN i + k ELSE i + k - IWORD
  BY <1>2, <1>5
<1>7. j = d <=> c = k
  BY <1>4, <1>6, ConsoleAssumption DEF Index
<1>. QED  BY <1>3, <1>5, <1>7

LEMMA PlusPlus ==
  ASSUME NEW i \in Index, NEW j \in 0..IWORD, NEW k \in 0..IWORD, j + k <= IWORD
  PROVE  Plus(Plus(i, j), k) = Plus(i, j + k)
<1>1. j + k \in 0..IWORD
  BY ConsoleAssumption
<1>. DEFINE m == Plus(i, j)
<1>2. m = (IF i + j < IWORD THEN i + j ELSE i + j - IWORD) /\ m \in Index
  BY Ahead
<1>3. Plus(i, j + k) = IF i + (j + k) < IWORD THEN i + (j + k) ELSE i + (j + k) - IWORD
  BY <1>1, Ahead
<1>. HIDE DEF m
<1>4. Plus(m, k) = IF m + k < IWORD THEN m + k ELSE m + k - IWORD
  BY <1>2, Ahead
<1>5. Plus(m, k) = Plus(i, j + k)
  BY <1>2, <1>3, <1>4, ConsoleAssumption DEF Index
<1>. QED  BY <1>5 DEF m

\* IWORD is a multiple of INPUT_BUF: the ring goes around where the indices do.
LEMMA PlaceIs ==
  ASSUME NEW i \in Index, NEW k \in 0..IWORD
  PROVE  RingAt(Plus(i, k)) = (i + k) % INPUT_BUF /\ RingAt(Plus(i, k)) \in 0..(INPUT_BUF - 1)
<1>1. PICK a \in Int : a = i + k
  BY DEF Index
<1>2. Plus(i, k) = a \/ Plus(i, k) = a - IWORD
  <2>1. Plus(i, k) = IF i + k < IWORD THEN i + k ELSE i + k - IWORD
    BY Ahead
  <2>. QED  BY <1>1, <2>1, ConsoleAssumption DEF Index
<1>3. (a - IWORD) % INPUT_BUF = a % INPUT_BUF
  <2>1. PICK b \in Int : b = a - IWORD
    BY ConsoleAssumption
  <2>2. INPUT_BUF \in Nat \ {0} /\ IWORD \in Int /\ IWORD % INPUT_BUF = 0
    BY ConsoleAssumption
  <2>3. (b + IWORD) % INPUT_BUF = b % INPUT_BUF
    BY <2>2, Shift
  <2>4. b + IWORD = a
    BY <2>1, <2>2
  <2>. QED  BY <2>1, <2>3, <2>4
<1>4. RingAt(Plus(i, k)) = a % INPUT_BUF
  BY <1>2, <1>3 DEF RingAt
<1>5. a % INPUT_BUF \in 0..(INPUT_BUF - 1)
  BY Euclid, ConsoleAssumption
<1>. QED  BY <1>1, <1>4, <1>5

-----------------------------------------------------------------------------
\* The n bytes of ring b from index i.
Bytes(b, i, n) == [k \in 1..n |-> b[RingAt(Plus(i, k - 1))]]

LEMMA BytesSeq ==
  ASSUME NEW b \in Ring, NEW i \in Index, NEW n \in 0..INPUT_BUF
  PROVE  /\ Bytes(b, i, n) \in Seq(Char) /\ Len(Bytes(b, i, n)) = n
         /\ \A k \in 1..n : Bytes(b, i, n)[k] = b[RingAt(Plus(i, k - 1))]
         /\ n = 0 <=> Bytes(b, i, n) = <<>>
<1>1. ASSUME NEW k \in 1..n PROVE b[RingAt(Plus(i, k - 1))] \in Char
  <2>1. k - 1 \in 0..IWORD
    BY ConsoleAssumption
  <2>. QED  BY <2>1, PlaceIs DEF Ring
<1>2. Bytes(b, i, n) \in [1..n -> Char]
  BY <1>1 DEF Bytes
<1>3. n \in Nat
  BY ConsoleAssumption
<1>4. Bytes(b, i, n) \in Seq(Char) /\ Len(Bytes(b, i, n)) = n
  BY <1>2, <1>3
<1>5. n = 0 <=> Bytes(b, i, n) = <<>>
  BY <1>4, EmptySeq
<1>. QED  BY <1>4, <1>5 DEF Bytes

\* A character goes behind those that are there, which stay as they are.
LEMMA BytesPut ==
  ASSUME NEW b \in Ring, NEW i \in Index, NEW n \in 0..(INPUT_BUF - 1), NEW m \in 0..n, NEW c \in Char
  PROVE  LET b2 == [b EXCEPT ![RingAt(Plus(i, n))] = c]
         IN  /\ b2 \in Ring
             /\ Bytes(b2, i, m) = Bytes(b, i, m)
             /\ Bytes(b2, i, n + 1) = Append(Bytes(b, i, n), c)
<1>. DEFINE b2 == [b EXCEPT ![RingAt(Plus(i, n))] = c]
<1>1. n \in 0..IWORD /\ n \in 0..INPUT_BUF /\ m \in 0..INPUT_BUF /\ n + 1 \in 0..INPUT_BUF
  BY ConsoleAssumption
<1>2. b2 \in Ring
  BY <1>1, PlaceIs DEF Ring
<1>3. ASSUME NEW k \in 1..n PROVE b2[RingAt(Plus(i, k - 1))] = b[RingAt(Plus(i, k - 1))]
  <2>1. k - 1 \in 0..IWORD /\ k - 1 \in 0..(INPUT_BUF - 1) /\ k - 1 # n
    BY <1>1, ConsoleAssumption
  <2>2. RingAt(Plus(i, k - 1)) # RingAt(Plus(i, n))
    <3>1. RingAt(Plus(i, k - 1)) = (i + (k - 1)) % INPUT_BUF /\ RingAt(Plus(i, n)) = (i + n) % INPUT_BUF
      BY <1>1, <2>1, PlaceIs
    <3>2. PICK j \in 0..(INPUT_BUF - 1) : j = k - 1
      BY <2>1
    <3>3. i \in Int /\ INPUT_BUF \in Nat \ {0}
      BY ConsoleAssumption DEF Index
    <3>4. (i + j) % INPUT_BUF # (i + n) % INPUT_BUF
      BY <2>1, <3>2, <3>3, Apart
    <3>. QED  BY <3>1, <3>2, <3>4
  <2>3. RingAt(Plus(i, k - 1)) \in 0..(INPUT_BUF - 1)
    BY <2>1, PlaceIs
  <2>. QED  BY <2>2, <2>3 DEF Ring
<1>4. b2[RingAt(Plus(i, n))] = c
  BY <1>1, PlaceIs DEF Ring
<1>. HIDE DEF b2
<1>5. Bytes(b2, i, m) = Bytes(b, i, m)
  <2>1. \A k \in 1..m : k \in 1..n
    BY <1>1
  <2>. QED  BY <1>3, <2>1 DEF Bytes
<1>6. Bytes(b2, i, n + 1) = Append(Bytes(b, i, n), c)
  <2>. DEFINE s == Bytes(b2, i, n + 1)
              t == Bytes(b, i, n)
  <2>1. /\ s \in Seq(Char) /\ Len(s) = n + 1
        /\ \A k \in 1..(n + 1) : s[k] = b2[RingAt(Plus(i, k - 1))]
    BY <1>1, <1>2, BytesSeq
  <2>2. t \in Seq(Char) /\ Len(t) = n /\ \A k \in 1..n : t[k] = b[RingAt(Plus(i, k - 1))]
    BY <1>1, BytesSeq
  <2>3. \A k \in 1..n : s[k] = t[k]
    BY <1>3, <2>1, <2>2
  <2>4. s[n + 1] = c
    <3>1. (n + 1) - 1 = n /\ n + 1 \in 1..(n + 1)
      BY <1>1
    <3>. QED  BY <1>4, <2>1, <3>1
  <2>. HIDE DEF s, t
  <2>5. s = Append(t, c)
    <3>1. Append(t, c) \in Seq(Char) /\ Len(Append(t, c)) = n + 1
      BY <2>2
    <3>2. \A k \in 1..(n + 1) : s[k] = Append(t, c)[k]
      BY <1>1, <2>2, <2>3, <2>4
    <3>. QED  BY <2>1, <3>1, <3>2, SeqEqual
  <2>. QED  BY <2>5 DEF s, t
<1>. QED  BY <1>2, <1>5, <1>6 DEF b2

\* What is there up to an index, and from there on.
LEMMA BytesJoin ==
  ASSUME NEW b \in Ring, NEW i \in Index, NEW m \in 0..INPUT_BUF, NEW n \in 0..INPUT_BUF, m + n <= INPUT_BUF
  PROVE  Bytes(b, i, m + n) = Bytes(b, i, m) \o Bytes(b, Plus(i, m), n)
<1>. DEFINE s == Bytes(b, i, m + n)
            t == Bytes(b, i, m)
            u == Bytes(b, Plus(i, m), n)
<1>1. m + n \in 0..INPUT_BUF /\ m \in 0..IWORD /\ Plus(i, m) \in Index
  <2>1. m + n \in 0..INPUT_BUF /\ m \in 0..IWORD
    BY ConsoleAssumption
  <2>. QED  BY <2>1, Ahead
<1>2. s \in Seq(Char) /\ Len(s) = m + n /\ \A k \in 1..(m + n) : s[k] = b[RingAt(Plus(i, k - 1))]
  BY <1>1, BytesSeq
<1>3. t \in Seq(Char) /\ Len(t) = m /\ \A k \in 1..m : t[k] = b[RingAt(Plus(i, k - 1))]
  BY BytesSeq
<1>4. u \in Seq(Char) /\ Len(u) = n /\ \A k \in 1..n : u[k] = b[RingAt(Plus(Plus(i, m), k - 1))]
  BY <1>1, BytesSeq
<1>5. ASSUME NEW k \in 1..n PROVE u[k] = s[m + k]
  <2>1. k - 1 \in 0..IWORD /\ m + (k - 1) <= IWORD /\ m + (k - 1) = (m + k) - 1 /\ m + k \in 1..(m + n)
    BY ConsoleAssumption
  <2>2. Plus(Plus(i, m), k - 1) = Plus(i, (m + k) - 1)
    BY <1>1, <2>1, PlusPlus
  <2>. QED  BY <1>2, <1>4, <2>1, <2>2
<1>. HIDE DEF s, t, u
<1>6. t \o u \in Seq(Char) /\ Len(t \o u) = m + n
  BY <1>3, <1>4, ConcatProperties
<1>7. ASSUME NEW k \in 1..(m + n) PROVE s[k] = (t \o u)[k]
  <2>1. CASE k <= m
    <3>1. k \in 1..m
      BY <2>1
    <3>2. m + n \in Nat /\ m + n = Len(t) + Len(u)
      BY <1>3, <1>4
    <3>3. (t \o u)[k] = t[k]
      <4>1. k \in 1..(Len(t) + Len(u)) /\ k <= Len(t)
        BY <1>3, <2>1, <3>2
      <4>. QED  BY <1>3, <1>4, <4>1, ConcatProperties
    <3>. QED  BY <1>2, <1>3, <3>1, <3>3
  <2>2. CASE k > m
    <3>1. PICK j \in 1..n : k = m + j
      <4>1. k - m \in 1..n /\ k = m + (k - m)
        BY <2>2
      <4>. QED  BY <4>1
    <3>2. (t \o u)[k] = u[j]
      <4>1. k \in 1..(Len(t) + Len(u)) /\ ~(k <= Len(t)) /\ k - Len(t) = j
        BY <1>3, <1>4, <2>2, <3>1
      <4>. QED  BY <1>3, <1>4, <4>1, ConcatProperties
    <3>. QED  BY <1>5, <3>1, <3>2
  <2>3. k <= m \/ k > m
    BY ConsoleAssumption
  <2>. QED  BY <2>1, <2>2, <2>3
<1>8. s = t \o u
  BY <1>2, <1>6, <1>7, SeqEqual
<1>. QED  BY <1>8 DEF s, t, u

LEMMA BytesTail ==
  ASSUME NEW b \in Ring, NEW i \in Index, NEW n \in 1..INPUT_BUF
  PROVE  /\ Bytes(b, i, n) # <<>> /\ Head(Bytes(b, i, n)) = b[RingAt(i)]
         /\ Tail(Bytes(b, i, n)) = Bytes(b, Plus(i, 1), n - 1)
<1>. DEFINE s == Bytes(b, i, n)
            t == Bytes(b, Plus(i, 1), n - 1)
<1>1. n \in 0..INPUT_BUF /\ n - 1 \in 0..INPUT_BUF /\ Plus(i, 1) \in Index /\ 1 \in 0..IWORD
  <2>1. n \in 0..INPUT_BUF /\ n - 1 \in 0..INPUT_BUF /\ 1 \in 0..IWORD
    BY ConsoleAssumption
  <2>. QED  BY <2>1, Ahead
<1>2. /\ s \in Seq(Char) /\ Len(s) = n /\ s # <<>>
      /\ \A k \in 1..n : s[k] = b[RingAt(Plus(i, k - 1))]
  BY <1>1, BytesSeq
<1>3. t \in Seq(Char) /\ Len(t) = n - 1 /\ \A k \in 1..(n - 1) : t[k] = b[RingAt(Plus(Plus(i, 1), k - 1))]
  BY <1>1, BytesSeq
<1>4. Plus(i, 1 - 1) = i
  BY Still
<1>5. s[1] = b[RingAt(i)]
  <2>1. 1 \in 1..n
    OBVIOUS
  <2>. QED  BY <1>2, <1>4, <2>1
<1>6. ASSUME NEW k \in 1..(n - 1) PROVE t[k] = s[k + 1]
  <2>1. k - 1 \in 0..IWORD /\ 1 + (k - 1) <= IWORD /\ 1 + (k - 1) = (k + 1) - 1 /\ k + 1 \in 1..n
    BY ConsoleAssumption
  <2>2. Plus(Plus(i, 1), k - 1) = Plus(i, (k + 1) - 1)
    BY <1>1, <2>1, PlusPlus
  <2>. QED  BY <1>2, <1>3, <2>1, <2>2
<1>. HIDE DEF s, t
<1>7. Head(s) = s[1] /\ Tail(s) \in Seq(Char) /\ Len(Tail(s)) = n - 1 /\ \A k \in 1..(n - 1) : Tail(s)[k] = s[k + 1]
  BY <1>2
<1>8. Tail(s) = t
  BY <1>3, <1>6, <1>7, SeqEqual
<1>. QED  BY <1>2, <1>5, <1>7, <1>8 DEF s, t

LEMMA BytesCut ==
  ASSUME NEW b \in Ring, NEW i \in Index, NEW n \in 1..INPUT_BUF
  PROVE  SubSeq(Bytes(b, i, n), 1, n - 1) = Bytes(b, i, n - 1)
<1>. DEFINE s == Bytes(b, i, n)
            t == Bytes(b, i, n - 1)
<1>1. n \in 0..INPUT_BUF /\ n - 1 \in 0..INPUT_BUF
  BY ConsoleAssumption
<1>2. s \in Seq(Char) /\ Len(s) = n /\ \A k \in 1..n : s[k] = b[RingAt(Plus(i, k - 1))]
  BY <1>1, BytesSeq
<1>3. t \in Seq(Char) /\ Len(t) = n - 1 /\ \A k \in 1..(n - 1) : t[k] = b[RingAt(Plus(i, k - 1))]
  BY <1>1, BytesSeq
<1>. HIDE DEF s, t
<1>4. SubSeq(s, 1, n - 1) \in Seq(Char) /\ Len(SubSeq(s, 1, n - 1)) = n - 1
      /\ \A k \in 1..(n - 1) : SubSeq(s, 1, n - 1)[k] = s[k]
  BY <1>2
<1>5. SubSeq(s, 1, n - 1) = t
  BY <1>2, <1>3, <1>4, SeqEqual
<1>. QED  BY <1>5 DEF s, t

-----------------------------------------------------------------------------
\* The indices of a ring with m bytes that are complete and n that are not.
LEMMA Marks ==
  ASSUME NEW r \in Index, NEW m \in 0..INPUT_BUF, NEW n \in 0..INPUT_BUF, m + n <= INPUT_BUF,
         NEW w, w = Plus(r, m), NEW e, e = Plus(w, n)
  PROVE  /\ w \in Index /\ e \in Index /\ e = Plus(r, m + n)
         /\ Count(r, w) = m /\ Count(w, e) = n /\ Count(r, e) = m + n
<1>1. /\ m \in 0..IWORD /\ n \in 0..IWORD /\ m + n <= IWORD /\ m + n \in 0..IWORD
      /\ m \in Index /\ n \in Index /\ m + n \in Index
  BY ConsoleAssumption DEF Index
<1>2. w \in Index
  BY <1>1, Ahead
<1>3. e \in Index
  BY <1>1, <1>2, Ahead
<1>4. e = Plus(r, m + n)
  BY <1>1, PlusPlus
<1>5. Count(r, w) = m
  BY <1>1, <1>2, CountIs
<1>6. Count(w, e) = n
  BY <1>1, <1>2, <1>3, CountIs
<1>7. Count(r, e) = m + n
  <2>1. PICK k \in Index : k = m + n
    BY <1>1
  <2>. QED  BY <1>3, <1>4, <2>1, CountIs
<1>. QED  BY <1>2, <1>3, <1>4, <1>5, <1>6, <1>7

LEMMA Now ==
  ASSUME ConsTypes, RingFits
  PROVE  \E m \in 0..INPUT_BUF, n \in 0..INPUT_BUF :
           /\ m + n <= INPUT_BUF
           /\ input.w = Plus(input.r, m) /\ input.e = Plus(input.w, n)
           /\ Complete = Bytes(input.buf, input.r, m) /\ Edited = Bytes(input.buf, input.w, n)
           /\ m = 0 <=> input.r = input.w
           /\ n = 0 <=> input.w = input.e
<1>1. input.r \in Index /\ input.w \in Index /\ input.e \in Index
  BY DEF ConsTypes, Input
<1>. DEFINE m == Count(input.r, input.w)
            n == Count(input.w, input.e)
<1>2. m \in Index /\ n \in Index
  BY <1>1, Between
<1>3. m + n <= INPUT_BUF
  BY DEF RingFits
<1>4. input.w = Plus(input.r, m) /\ input.e = Plus(input.w, n)
  BY <1>1, <1>2, CountIs
<1>5. Complete = Bytes(input.buf, input.r, m) /\ Edited = Bytes(input.buf, input.w, n)
  BY DEF Complete, Edited, Stored, Bytes
<1>6. (m = 0 <=> input.r = input.w) /\ (n = 0 <=> input.w = input.e)
  BY <1>1, Between
<1>. HIDE DEF m, n
<1>7. m \in 0..INPUT_BUF /\ n \in 0..INPUT_BUF
  BY <1>2, <1>3, ConsoleAssumption DEF Index
<1>. QED  BY <1>3, <1>4, <1>5, <1>6, <1>7

\* The ring after a step.
LEMMA Then ==
  ASSUME NEW m \in 0..INPUT_BUF, NEW n \in 0..INPUT_BUF, m + n <= INPUT_BUF,
         input' \in Input, input.w' = Plus(input.r', m), input.e' = Plus(input.w', n)
  PROVE  /\ RingFits'
         /\ Complete' = Bytes(input'.buf, input'.r, m)
         /\ Edited' = Bytes(input'.buf, input'.w, n)
<1>1. input'.r \in Index
  BY DEF Input
<1>2. Count(input'.r, input'.w) = m /\ Count(input'.w, input'.e) = n
  BY <1>1, Marks
<1>. QED  BY <1>2 DEF RingFits, Complete, Edited, Stored, Bytes

LEMMA RingStays ==
  ASSUME input' = input, RingFits, NoNewline
  PROVE  RingFits' /\ NoNewline' /\ Edited' = Edited /\ Complete' = Complete
<1>1. Edited' = Edited /\ Complete' = Complete
  BY DEF Edited, Complete, Stored
<1>2. RingFits'
  BY DEF RingFits
<1>. QED  BY <1>1, <1>2 DEF NoNewline

\* A step of the reader that may hold the lock.
LEMMA ReaderSteps ==
  ASSUME ConsInv, NEW p \in Reader, NEW v \in ReaderState, rd' = [rd EXCEPT ![p] = v],
         conslock \in {"free", p}, conslock' \in {"free", p},
         input' = input \/ input.r # input.w,
         v.at \in {"loop", "sleep", "return"} => conslock' = p,
         v.at \in {"sleep", "asleep"} => input'.r = input'.w,
         v.at = "user" => v.got = <<>>,
         v.at \in InLoop /\ v.got # <<>> => v.got[Len(v.got)] # "nl"
  PROVE  /\ rd' \in [Reader -> ReaderState] /\ conslock' \in Reader \cup {"free"}
         /\ Locked' /\ Waited' /\ ReadsOn'
         /\ Got' = [Got EXCEPT ![p] = v.got]
<1>1. rd \in [Reader -> ReaderState] /\ Locked /\ Waited /\ ReadsOn
  BY DEF ConsInv, ConsTypes
<1>2. rd' \in [Reader -> ReaderState] /\ rd'[p] = v /\ \A q \in Reader : q # p => rd'[q] = rd[q]
  BY <1>1
<1>3. conslock' \in Reader \cup {"free"}
  OBVIOUS
<1>4. Locked'
  <2>. SUFFICES ASSUME NEW q \in Reader, rd'[q].at \in {"loop", "sleep", "return"} PROVE conslock' = q
    BY DEF Locked
  <2>1. CASE q = p
    BY <1>2, <2>1
  <2>2. CASE q # p
    <3>1. conslock = q
      BY <1>1, <1>2, <2>2 DEF Locked
    <3>. QED  BY <2>2, <3>1, ConsoleAssumption
  <2>. QED  BY <2>1, <2>2
<1>5. Waited'
  <2>. SUFFICES ASSUME NEW q \in Reader, rd'[q].at \in {"sleep", "asleep"} PROVE input'.r = input'.w
    BY DEF Waited
  <2>1. CASE q = p
    BY <1>2, <2>1
  <2>2. CASE q # p
    BY <1>1, <1>2, <2>2 DEF Waited
  <2>. QED  BY <2>1, <2>2
<1>6. ReadsOn'
  <2>. SUFFICES ASSUME NEW q \in Reader
                PROVE  /\ rd'[q].at = "user" => rd'[q].got = <<>>
                       /\ rd'[q].at \in InLoop /\ rd'[q].got # <<>> => rd'[q].got[Len(rd'[q].got)] # "nl"
    BY DEF ReadsOn
  <2>1. CASE q = p
    BY <1>2, <2>1
  <2>2. CASE q # p
    BY <1>1, <1>2, <2>2 DEF ReadsOn
  <2>. QED  BY <2>1, <2>2
<1>7. Got' = [Got EXCEPT ![p] = v.got]
  BY <1>2 DEF Got
<1>. QED  BY <1>2, <1>3, <1>4, <1>5, <1>6, <1>7

LEMMA GotStays ==
  ASSUME NEW p \in Reader, Got' = [Got EXCEPT ![p] = rd[p].got]
  PROVE  Got' = Got
BY DEF Got

-----------------------------------------------------------------------------
\* Every step keeps the invariant and is a step of the line discipline, or none.
View == <<Edited, Complete, Got>>
Kept == ConsInv' /\ (LD!Next \/ View' = View)

LEMMA ConsInitInv ==
  ASSUME ConsInit
  PROVE  ConsInv /\ LD!Init
<1>1. input = [buf |-> [i \in 0..(INPUT_BUF - 1) |-> "x"], r |-> 0, w |-> 0, e |-> 0]
      /\ rd = [p \in Reader |-> NotReading] /\ conslock = "free"
  BY DEF ConsInit
<1>2. 0 \in Index /\ Count(0, 0) = 0
  <2>1. 0 \in Index
    BY ConsoleAssumption DEF Index
  <2>. QED  BY <2>1, Between
<1>3. NotReading \in ReaderState /\ NotReading.at = "user" /\ NotReading.got = <<>>
  BY DEF NotReading, ReaderState
<1>4. ConsTypes
  BY <1>1, <1>2, <1>3 DEF ConsTypes, Input, Ring, Char
<1>5. input.r = 0 /\ input.w = 0 /\ input.e = 0
  BY <1>1
<1>6. RingFits
  BY <1>2, <1>5, ConsoleAssumption DEF RingFits
<1>7. Edited = <<>> /\ Complete = <<>>
  <2>1. 0 \in 0..INPUT_BUF /\ input.buf \in Ring
    BY <1>4, ConsoleAssumption DEF ConsTypes, Input
  <2>2. Bytes(input.buf, 0, 0) = <<>>
    BY <1>2, <2>1, BytesSeq
  <2>. QED  BY <1>2, <1>5, <2>2 DEF Edited, Complete, Stored, Bytes
<1>8. NoNewline
  BY <1>7 DEF NoNewline
<1>9. Locked /\ Waited /\ ReadsOn
  BY <1>1, <1>3, <1>5 DEF Locked, Waited, ReadsOn, InLoop
<1>10. Got = [p \in Reader |-> <<>>]
  BY <1>1, <1>3 DEF Got
<1>. QED  BY <1>4, <1>6, <1>7, <1>8, <1>9, <1>10 DEF ConsInv, LD!Init, Edited, Complete, Got

LEMMA TypeCharKept ==
  ASSUME ConsInv, NEW c \in {"x", "nl", "eof"}, TypeChar(c)
  PROVE  Kept
<1>. DEFINE b == input.buf
            r == input.r
            w == input.w
            e == input.e
            e2 == Plus(e, 1)
            b2 == [b EXCEPT ![RingAt(e)] = c]
            done == c \in {"nl", "eof"} \/ e2 = Plus(r, INPUT_BUF)
<1>1. /\ conslock = "free" /\ Room /\ conslock' = conslock
      /\ input' = [input EXCEPT !.buf[RingAt(e)] = c, !.e = e2, !.w = IF done THEN e2 ELSE @]
      /\ IF done THEN WakeConsole ELSE rd' = rd
  BY DEF TypeChar
<1>2. PICK m \in 0..INPUT_BUF, n \in 0..INPUT_BUF :
        /\ m + n <= INPUT_BUF /\ w = Plus(r, m) /\ e = Plus(w, n)
        /\ Complete = Bytes(b, r, m) /\ Edited = Bytes(b, w, n)
  BY Now DEF ConsInv
<1>3. b \in Ring /\ r \in Index /\ w \in Index /\ e \in Index /\ c \in Char /\ INPUT_BUF \in Nat \ {0}
  BY ConsoleAssumption DEF ConsInv, ConsTypes, Input, Char
<1>4. e = Plus(r, m + n) /\ Count(r, e) = m + n
  BY <1>2, <1>3, Marks
<1>5. m + n < INPUT_BUF
  BY <1>1, <1>4 DEF Room
<1>6. /\ n + 1 \in 0..INPUT_BUF /\ m + (n + 1) \in 0..INPUT_BUF /\ m + (n + 1) <= INPUT_BUF
      /\ m + n \in 0..(INPUT_BUF - 1) /\ n \in 0..(INPUT_BUF - 1) /\ m \in 0..(m + n)
      /\ 0 \in 0..INPUT_BUF /\ 0 \in 0..n /\ n \in 0..IWORD /\ 1 \in 0..IWORD /\ n + 1 <= IWORD /\ 0 \in 0..IWORD
      /\ m + (n + 1) \in Index /\ INPUT_BUF \in Index /\ INPUT_BUF \in 0..IWORD
  BY <1>3, <1>5, ConsoleAssumption DEF Index
<1>. HIDE DEF b, r, w, e
<1>7. e2 = Plus(w, n + 1)
  <2>1. Plus(Plus(w, n), 1) = Plus(w, n + 1)
    BY <1>3, <1>6, PlusPlus
  <2>. QED  BY <1>2, <2>1
<1>8. e2 \in Index /\ e2 = Plus(r, m + (n + 1)) /\ Count(r, e2) = m + (n + 1)
  <2>1. PICK k \in 0..INPUT_BUF : k = n + 1
    BY <1>6
  <2>2. e2 = Plus(w, k) /\ m + k <= INPUT_BUF
    BY <1>6, <1>7, <2>1
  <2>. HIDE DEF e2
  <2>3. e2 \in Index /\ e2 = Plus(r, m + k) /\ Count(r, e2) = m + k
    BY <1>2, <1>3, <2>2, Marks
  <2>. QED  BY <2>1, <2>3
<1>9. e2 = Plus(r, INPUT_BUF) <=> m + (n + 1) = INPUT_BUF
  <2>. HIDE DEF e2
  <2>1. e2 = Plus(r, INPUT_BUF) <=> Count(r, e2) = INPUT_BUF
    BY <1>3, <1>6, <1>8, CountIs
  <2>. QED  BY <1>8, <2>1
<1>10. b2 \in Ring /\ Bytes(b2, r, m) = Bytes(b, r, m)
  <2>1. PICK k \in 0..(INPUT_BUF - 1) : k = m + n
    BY <1>6
  <2>2. m \in 0..k /\ e = Plus(r, k)
    BY <1>4, <1>6, <2>1
  <2>. QED  BY <1>3, <2>2, BytesPut
<1>11. Bytes(b2, w, n + 1) = Append(Bytes(b, w, n), c)
  <2>1. LET b3 == [b EXCEPT ![RingAt(Plus(w, n))] = c]
        IN  Bytes(b3, w, n + 1) = Append(Bytes(b, w, n), c)
    BY <1>3, <1>6, BytesPut
  <2>. QED  BY <1>2, <2>1
<1>12. Bytes(b2, r, m + (n + 1)) = Bytes(b2, r, m) \o Bytes(b2, w, n + 1)
  <2>1. PICK k \in 0..INPUT_BUF : k = n + 1
    BY <1>6
  <2>2. m + k <= INPUT_BUF
    BY <1>6, <2>1
  <2>. HIDE DEF b2
  <2>3. Bytes(b2, r, m + k) = Bytes(b2, r, m) \o Bytes(b2, Plus(r, m), k)
    BY <1>3, <1>10, <2>2, BytesJoin
  <2>. QED  BY <1>2, <2>1, <2>3
<1>13. Bytes(b2, e2, 0) = <<>> /\ Plus(e2, 0) = e2
  <2>1. Bytes(b2, e2, 0) = <<>>
    BY <1>6, <1>8, <1>10, BytesSeq
  <2>2. Plus(e2, 0) = e2
    BY <1>8, Still
  <2>. QED  BY <2>1, <2>2
<1>14. /\ Complete \in Seq(Char) /\ Len(Complete) = m
       /\ Edited \in Seq(Char) /\ Len(Edited) = n
  BY <1>2, <1>3, BytesSeq
<1>. DEFINE new == Append(Edited, c)
<1>15. new \in Seq(Char) /\ Len(new) = n + 1
  BY <1>3, <1>14
<1>16. input \in Input
  BY DEF ConsInv, ConsTypes
<1>. HIDE DEF b2, e2
<1>17. CASE done
  <2>1. input' \in Input /\ input'.buf = b2 /\ input'.r = r /\ input'.w = e2 /\ input'.e = e2
    BY <1>1, <1>3, <1>8, <1>10, <1>16, <1>17 DEF Input, b2, b, r, w, e
  <2>2. RingFits' /\ Complete' = Bytes(b2, r, m + (n + 1)) /\ Edited' = Bytes(b2, e2, 0)
    <3>1. (m + (n + 1)) + 0 <= INPUT_BUF
      BY <1>6
    <3>2. PICK k \in 0..INPUT_BUF : k = m + (n + 1)
      BY <1>6
    <3>. QED  BY <1>6, <1>8, <1>13, <2>1, <3>1, <3>2, Then
  <2>3. Complete' = Complete \o new /\ Edited' = <<>>
    BY <1>2, <1>10, <1>11, <1>12, <1>13, <2>2
  <2>4. rd' = [p \in Reader |-> IF rd[p].at = "asleep" THEN [rd[p] EXCEPT !.at = "woken"] ELSE rd[p]]
    BY <1>1, <1>17 DEF WakeConsole
  <2>5. rd \in [Reader -> ReaderState] /\ Locked /\ Waited /\ ReadsOn
    BY DEF ConsInv, ConsTypes
  <2>6. ASSUME NEW p \in Reader
        PROVE  /\ rd'[p] \in ReaderState /\ rd'[p].got = rd[p].got /\ rd'[p].at # "asleep"
               /\ rd'[p].at = rd[p].at \/ (rd[p].at = "asleep" /\ rd'[p].at = "woken")
    BY <2>4, <2>5 DEF ReaderState, InLoop
  <2>7. rd' \in [Reader -> ReaderState]
    BY <2>4, <2>6
  <2>8. ASSUME NEW p \in Reader PROVE rd'[p].at \notin {"loop", "sleep", "return"}
    <3>1. conslock # p
      BY <1>1, ConsoleAssumption
    <3>2. rd[p].at \notin {"loop", "sleep", "return"}
      BY <2>5, <3>1 DEF Locked
    <3>. QED  BY <2>6, <3>2
  <2>9. Locked'
    BY <2>8 DEF Locked
  <2>10. Waited'
    BY <2>6, <2>8 DEF Waited
  <2>11. ReadsOn'
    BY <2>5, <2>6 DEF ReadsOn, InLoop
  <2>12. NoNewline'
    BY <2>3 DEF NoNewline
  <2>13. ConsTypes'
    BY <1>1, <2>1, <2>7, <2>5 DEF ConsTypes, ConsInv
  <2>14. Got' = Got
    BY <2>6 DEF Got
  <2>15. LD!Type(c)
    <3>1. Len(Complete) + Len(Edited) < INPUT_BUF
      BY <1>5, <1>14
    <3>2. c \in {"nl", "eof"} \/ Len(Complete) + Len(new) = INPUT_BUF
      BY <1>9, <1>14, <1>15, <1>17 DEF e2
    <3>. QED  BY <2>3, <2>14, <3>1, <3>2 DEF LD!Type, Edited, Complete, Got
  <2>16. LD!Next
    BY <2>15 DEF LD!Next
  <2>. QED  BY <2>2, <2>9, <2>10, <2>11, <2>12, <2>13, <2>16 DEF Kept, ConsInv
<1>18. CASE ~done
  <2>1. input' \in Input /\ input'.buf = b2 /\ input'.r = r /\ input'.w = w /\ input'.e = e2
    BY <1>1, <1>3, <1>8, <1>10, <1>16, <1>18 DEF Input, b2, b, r, w, e
  <2>2. RingFits' /\ Complete' = Bytes(b2, r, m) /\ Edited' = Bytes(b2, w, n + 1)
    <3>1. PICK k \in 0..INPUT_BUF : k = n + 1
      BY <1>6
    <3>. QED  BY <1>2, <1>6, <1>7, <2>1, <3>1, Then
  <2>3. Complete' = Complete /\ Edited' = new
    BY <1>2, <1>10, <1>11, <2>2
  <2>4. rd' = rd /\ input'.r = input.r /\ input'.w = input.w /\ conslock' = conslock
    BY <1>1, <1>18, <2>1 DEF r, w
  <2>5. rd \in [Reader -> ReaderState] /\ conslock \in Reader \cup {"free"}
        /\ Locked /\ Waited /\ ReadsOn /\ NoNewline
    BY DEF ConsInv, ConsTypes
  <2>6. Locked' /\ Waited' /\ ReadsOn' /\ ConsTypes' /\ Got' = Got
    BY <2>1, <2>4, <2>5 DEF Locked, Waited, ReadsOn, ConsTypes, Got
  <2>7. NoNewline'
    <3>1. ASSUME NEW k \in 1..(n + 1) PROVE new[k] # "nl"
      <4>1. CASE k = n + 1
        BY <1>14, <1>18, <4>1
      <4>2. CASE k \in 1..n
        BY <1>14, <2>5, <4>2 DEF NoNewline
      <4>3. k = n + 1 \/ k \in 1..n
        BY <1>6
      <4>. QED  BY <4>1, <4>2, <4>3
    <3>. HIDE DEF new
    <3>. QED  BY <1>15, <2>3, <3>1 DEF NoNewline
  <2>8. LD!Type(c)
    <3>1. Len(Complete) + Len(Edited) < INPUT_BUF
      BY <1>5, <1>14
    <3>2. ~(c \in {"nl", "eof"} \/ Len(Complete) + Len(new) = INPUT_BUF)
      BY <1>9, <1>14, <1>15, <1>18 DEF e2
    <3>. QED  BY <2>3, <2>6, <3>1, <3>2 DEF LD!Type, Edited, Complete, Got
  <2>9. LD!Next
    BY <2>8 DEF LD!Next
  <2>. QED  BY <2>2, <2>6, <2>7, <2>9 DEF Kept, ConsInv
<1>. QED  BY <1>17, <1>18

\* ^H and ^U change neither what is complete nor the readers.
LEMMA Edits ==
  ASSUME ConsInv, NEW e \in Index, input' = [input EXCEPT !.e = e],
         UNCHANGED <<rd, conslock>>
  PROVE  /\ input' \in Input /\ input'.buf = input.buf /\ input'.r = input.r
         /\ input'.w = input.w /\ input'.e = e
         /\ ConsTypes' /\ Locked' /\ Waited' /\ ReadsOn' /\ Got' = Got
<1>1. input \in Input /\ ConsTypes /\ Locked /\ Waited /\ ReadsOn
  BY DEF ConsInv, ConsTypes
<1>2. /\ input' \in Input /\ input'.buf = input.buf /\ input'.r = input.r
      /\ input'.w = input.w /\ input'.e = e
  BY <1>1 DEF Input
<1>3. rd' = rd /\ conslock' = conslock
  OBVIOUS
<1>. QED  BY <1>1, <1>2, <1>3 DEF ConsTypes, Locked, Waited, ReadsOn, Got

LEMMA BackspaceKept ==
  ASSUME ConsInv, Backspace
  PROVE  Kept
<1>1. input.e # input.w /\ input' = [input EXCEPT !.e = Plus(input.e, -1)] /\ UNCHANGED <<rd, conslock>>
  BY DEF Backspace
<1>2. PICK m \in 0..INPUT_BUF, n \in 0..INPUT_BUF :
        /\ m + n <= INPUT_BUF /\ input.w = Plus(input.r, m) /\ input.e = Plus(input.w, n)
        /\ Complete = Bytes(input.buf, input.r, m) /\ Edited = Bytes(input.buf, input.w, n)
        /\ n = 0 <=> input.w = input.e
  BY Now DEF ConsInv
<1>3. input.buf \in Ring /\ input.r \in Index /\ input.w \in Index /\ input.e \in Index /\ NoNewline
  BY DEF ConsInv, ConsTypes, Input
<1>4. PICK k \in 0..INPUT_BUF : n = k + 1
  <2>1. n # 0
    BY <1>1, <1>2
  <2>2. n - 1 \in 0..INPUT_BUF /\ n = (n - 1) + 1
    BY <2>1, ConsoleAssumption
  <2>. QED  BY <2>2
<1>5. Plus(input.e, -1) = Plus(input.w, k) /\ Plus(input.e, -1) \in Index
  <2>1. k \in 0..IWORD /\ n \in 0..IWORD
    BY ConsoleAssumption
  <2>2. PICK f \in Index : f = Plus(input.w, k)
    BY <1>3, <2>1, Ahead
  <2>3. f = IF input.w + k < IWORD THEN input.w + k ELSE input.w + k - IWORD
    BY <1>3, <2>1, <2>2, Ahead
  <2>4. input.e = IF input.w + n < IWORD THEN input.w + n ELSE input.w + n - IWORD
    BY <1>2, <1>3, <2>1, Ahead
  <2>5. PICK g \in Index : g = Plus(input.e, -1)
    BY <1>3, Back
  <2>6. g = IF input.e = 0 THEN IWORD - 1 ELSE input.e - 1
    BY <1>3, <2>5, Back
  <2>7. g = f
    BY <1>3, <1>4, <2>1, <2>3, <2>4, <2>6, ConsoleAssumption DEF Index
  <2>. QED  BY <2>2, <2>5, <2>7
<1>6. PICK f \in Index : f = Plus(input.e, -1) /\ f = Plus(input.w, k)
  BY <1>5
<1>7. /\ input' \in Input /\ input'.buf = input.buf /\ input'.r = input.r
      /\ input'.w = input.w /\ input'.e = f
      /\ ConsTypes' /\ Locked' /\ Waited' /\ ReadsOn' /\ Got' = Got
  BY <1>1, <1>6, Edits
<1>8. RingFits' /\ Complete' = Complete /\ Edited' = Bytes(input.buf, input.w, k)
  <2>1. m + k <= INPUT_BUF
    BY <1>2, <1>4, ConsoleAssumption
  <2>. QED  BY <1>2, <1>6, <1>7, <2>1, Then
<1>9. Edited' = SubSeq(Edited, 1, Len(Edited) - 1) /\ Edited # <<>> /\ Len(Edited) = n
  <2>1. n \in 1..INPUT_BUF /\ k = n - 1
    BY <1>4, ConsoleAssumption
  <2>2. SubSeq(Bytes(input.buf, input.w, n), 1, n - 1) = Bytes(input.buf, input.w, n - 1)
    BY <1>3, <2>1, BytesCut
  <2>3. Len(Edited) = n /\ Edited # <<>>
    BY <1>2, <1>3, <2>1, BytesSeq
  <2>. QED  BY <1>2, <1>8, <2>1, <2>2, <2>3
<1>10. NoNewline'
  <2>1. Len(Edited') = k /\ \A j \in 1..k : Edited'[j] = input.buf[RingAt(Plus(input.w, j - 1))]
    BY <1>3, <1>8, BytesSeq
  <2>2. \A j \in 1..n : Edited[j] = input.buf[RingAt(Plus(input.w, j - 1))]
    BY <1>2, <1>3, BytesSeq
  <2>3. \A j \in 1..k : j \in 1..n
    BY <1>4
  <2>. QED  BY <1>3, <1>9, <2>1, <2>2, <2>3 DEF NoNewline
<1>11. LD!Erase
  BY <1>7, <1>8, <1>9 DEF LD!Erase, Edited, Complete, Got
<1>12. LD!Next
  BY <1>11 DEF LD!Next
<1>. QED  BY <1>7, <1>8, <1>10, <1>12 DEF Kept, ConsInv

LEMMA KillLineKept ==
  ASSUME ConsInv, KillLine
  PROVE  Kept
<1>1. input' = [input EXCEPT !.e = KillTo] /\ UNCHANGED <<rd, conslock>>
  BY DEF KillLine
<1>2. PICK m \in 0..INPUT_BUF, n \in 0..INPUT_BUF :
        /\ m + n <= INPUT_BUF /\ input.w = Plus(input.r, m)
        /\ Complete = Bytes(input.buf, input.r, m) /\ Edited = Bytes(input.buf, input.w, n)
        /\ n = Count(input.w, input.e)
  <2>1. PICK m \in 0..INPUT_BUF, n \in 0..INPUT_BUF :
          /\ m + n <= INPUT_BUF /\ input.w = Plus(input.r, m) /\ input.e = Plus(input.w, n)
          /\ Complete = Bytes(input.buf, input.r, m) /\ Edited = Bytes(input.buf, input.w, n)
    BY Now DEF ConsInv
  <2>2. n = Count(input.w, input.e)
    <3>1. input.r \in Index
      BY DEF ConsInv, ConsTypes, Input
    <3>. QED  BY <2>1, <3>1, Marks
  <2>. QED  BY <2>1, <2>2
<1>3. input.buf \in Ring /\ input.r \in Index /\ input.w \in Index /\ NoNewline
  BY DEF ConsInv, ConsTypes, Input
<1>4. KillTo = input.w
  <2>1. Len(Edited) = Count(input.w, input.e)
    BY <1>2, <1>3, BytesSeq
  <2>2. {k \in 1..Count(input.w, input.e) : Stored(input.w, input.e)[k] = "nl"} = {}
    BY <1>3, <2>1 DEF NoNewline, Edited
  <2>. QED  BY <2>2 DEF KillTo
<1>5. /\ input' \in Input /\ input'.buf = input.buf /\ input'.r = input.r
      /\ input'.w = input.w /\ input'.e = input.w
      /\ ConsTypes' /\ Locked' /\ Waited' /\ ReadsOn' /\ Got' = Got
  BY <1>1, <1>3, <1>4, Edits
<1>6. RingFits' /\ Complete' = Complete /\ Edited' = <<>>
  <2>1. 0 \in 0..INPUT_BUF /\ 0 \in 0..IWORD /\ m + 0 <= INPUT_BUF
    BY <1>2, ConsoleAssumption
  <2>2. input.w = Plus(input.w, 0)
    BY <1>3, Still
  <2>3. RingFits' /\ Complete' = Complete /\ Edited' = Bytes(input.buf, input.w, 0)
    BY <1>2, <1>5, <2>1, <2>2, Then
  <2>. QED  BY <1>3, <2>1, <2>3, BytesSeq
<1>7. NoNewline'
  BY <1>6 DEF NoNewline
<1>8. LD!KillLine
  BY <1>5, <1>6 DEF LD!KillLine, Edited, Complete, Got
<1>9. LD!Next
  BY <1>8 DEF LD!Next
<1>. QED  BY <1>5, <1>6, <1>7, <1>9 DEF Kept, ConsInv

\* A step of a reader that leaves the ring alone.
LEMMA ReaderKept ==
  ASSUME ConsInv, NEW p \in Reader, NEW v \in ReaderState, rd' = [rd EXCEPT ![p] = v],
         conslock \in {"free", p}, conslock' \in {"free", p}, input' = input,
         v.at \in {"loop", "sleep", "return"} => conslock' = p,
         v.at \in {"sleep", "asleep"} => input.r = input.w,
         v.at = "user" => v.got = <<>>,
         v.at \in InLoop /\ v.got # <<>> => v.got[Len(v.got)] # "nl",
         v.got \in {rd[p].got, <<>>}
  PROVE  Kept
<1>1. /\ rd' \in [Reader -> ReaderState] /\ conslock' \in Reader \cup {"free"}
      /\ Locked' /\ Waited' /\ ReadsOn'
      /\ Got' = [Got EXCEPT ![p] = v.got]
  BY ReaderSteps
<1>2. RingFits' /\ NoNewline' /\ Edited' = Edited /\ Complete' = Complete
  BY RingStays DEF ConsInv
<1>3. ConsInv'
  BY <1>1, <1>2 DEF ConsInv, ConsTypes
<1>4. CASE v.got = rd[p].got
  BY <1>1, <1>2, <1>3, <1>4, GotStays DEF Kept, View
<1>5. CASE v.got = <<>>
  <2>1. LD!Return(p)
    BY <1>1, <1>2, <1>5 DEF LD!Return, Edited, Complete, Got
  <2>2. LD!Next
    BY <2>1 DEF LD!Next
  <2>. QED  BY <1>3, <2>2 DEF Kept
<1>. QED  BY <1>4, <1>5

LEMMA ReadStartKept ==
  ASSUME ConsInv, NEW p \in Reader, NEW n \in 1..MaxAsk, ReadStart(p, n)
  PROVE  Kept
<1>1. conslock = "free" /\ conslock' = p /\ input' = input
  BY DEF ReadStart
<1>2. rd \in [Reader -> ReaderState] /\ rd[p] \in ReaderState /\ ReadsOn /\ n \in Nat
  BY ConsoleAssumption DEF ConsInv, ConsTypes
<1>3. CASE rd[p].at = "user" /\ rd' = [rd EXCEPT ![p] = [at |-> "loop", n |-> n, got |-> <<>>]]
  <2>. DEFINE v == [at |-> "loop", n |-> n, got |-> <<>>]
  <2>1. v \in ReaderState /\ v.at = "loop" /\ v.got = <<>>
    BY <1>2 DEF ReaderState, InLoop
  <2>2. rd' = [rd EXCEPT ![p] = v]
    BY <1>3
  <2>. HIDE DEF v
  <2>. QED  BY <1>1, <2>1, <2>2, ReaderKept
<1>4. CASE rd[p].at = "woken" /\ rd' = [rd EXCEPT ![p].at = "loop"]
  <2>. DEFINE v == [rd[p] EXCEPT !.at = "loop"]
  <2>1. v \in ReaderState /\ v.at = "loop" /\ v.got = rd[p].got
    BY <1>2 DEF ReaderState, InLoop
  <2>2. rd' = [rd EXCEPT ![p] = v]
    BY <1>4
  <2>3. v.got # <<>> => v.got[Len(v.got)] # "nl"
    BY <1>2, <1>4, <2>1 DEF ReadsOn, InLoop
  <2>. HIDE DEF v
  <2>. QED  BY <1>1, <2>1, <2>2, <2>3, ReaderKept
<1>. QED  BY <1>3, <1>4 DEF ReadStart

LEMMA ReadEmptyKept ==
  ASSUME ConsInv, NEW p \in Reader, ReadEmpty(p)
  PROVE  Kept
<1>1. conslock = p /\ conslock' = p /\ input' = input /\ input.r = input.w /\ rd[p].at = "loop"
  BY DEF ReadEmpty, Looping
<1>2. rd \in [Reader -> ReaderState] /\ rd[p] \in ReaderState /\ ReadsOn
  BY DEF ConsInv, ConsTypes
<1>3. CASE rd' = [rd EXCEPT ![p] = [NotReading EXCEPT !.at = "return"]]
  <2>. DEFINE v == [NotReading EXCEPT !.at = "return"]
  <2>1. v \in ReaderState /\ v.at = "return" /\ v.got = <<>>
    <3>1. NotReading \in ReaderState /\ NotReading.got = <<>>
      BY DEF ReaderState, NotReading
    <3>. QED  BY <3>1 DEF ReaderState
  <2>2. rd' = [rd EXCEPT ![p] = v]
    BY <1>3
  <2>. HIDE DEF v
  <2>. QED  BY <1>1, <2>1, <2>2, ReaderKept
<1>4. CASE rd' = [rd EXCEPT ![p].at = "sleep"]
  <2>. DEFINE v == [rd[p] EXCEPT !.at = "sleep"]
  <2>1. v \in ReaderState /\ v.at = "sleep" /\ v.got = rd[p].got
    BY <1>2 DEF ReaderState, InLoop
  <2>2. rd' = [rd EXCEPT ![p] = v]
    BY <1>4
  <2>3. v.got # <<>> => v.got[Len(v.got)] # "nl"
    BY <1>1, <1>2, <2>1 DEF ReadsOn, InLoop
  <2>. HIDE DEF v
  <2>. QED  BY <1>1, <2>1, <2>2, <2>3, ReaderKept
<1>. QED  BY <1>3, <1>4 DEF ReadEmpty

LEMMA ConsoleSleepKept ==
  ASSUME ConsInv, NEW p \in Reader, ConsoleSleep(p)
  PROVE  Kept
<1>1. conslock = p /\ conslock' = "free" /\ input' = input /\ rd[p].at = "sleep"
      /\ rd' = [rd EXCEPT ![p].at = "asleep"]
  BY DEF ConsoleSleep
<1>2. rd \in [Reader -> ReaderState] /\ rd[p] \in ReaderState /\ ReadsOn /\ Waited
  BY DEF ConsInv, ConsTypes
<1>. DEFINE v == [rd[p] EXCEPT !.at = "asleep"]
<1>3. v \in ReaderState /\ v.at = "asleep" /\ v.got = rd[p].got
  BY <1>2 DEF ReaderState, InLoop
<1>4. rd' = [rd EXCEPT ![p] = v]
  BY <1>1
<1>5. v.got # <<>> => v.got[Len(v.got)] # "nl"
  BY <1>1, <1>2, <1>3 DEF ReadsOn, InLoop
<1>6. input.r = input.w
  BY <1>1, <1>2 DEF Waited
<1>. HIDE DEF v
<1>. QED  BY <1>1, <1>3, <1>4, <1>5, <1>6, ReaderKept

LEMMA ReadReturnKept ==
  ASSUME ConsInv, NEW p \in Reader, ReadReturn(p)
  PROVE  Kept
<1>1. conslock = p /\ conslock' = "free" /\ input' = input /\ rd' = [rd EXCEPT ![p] = NotReading]
  BY DEF ReadReturn
<1>2. NotReading \in ReaderState /\ NotReading.at = "user" /\ NotReading.got = <<>>
  BY DEF ReaderState, NotReading
<1>. QED  BY <1>1, <1>2, ReaderKept

LEMMA KillReaderKept ==
  ASSUME ConsInv, NEW p \in Reader, KillReader(p)
  PROVE  Kept
<1>1. input' = input /\ conslock' = conslock
      /\ rd' = [rd EXCEPT ![p].at = IF @ = "asleep" THEN "woken" ELSE @]
  BY DEF KillReader
<1>2. /\ rd \in [Reader -> ReaderState] /\ conslock \in Reader \cup {"free"}
      /\ Locked /\ Waited /\ ReadsOn
  BY DEF ConsInv, ConsTypes
<1>3. ASSUME NEW q \in Reader
      PROVE  /\ rd'[q] \in ReaderState /\ rd'[q].got = rd[q].got
             /\ rd'[q].at = rd[q].at \/ (rd[q].at = "asleep" /\ rd'[q].at = "woken")
  BY <1>1, <1>2 DEF ReaderState, InLoop
<1>4. rd' \in [Reader -> ReaderState]
  BY <1>1, <1>2, <1>3
<1>5. Locked'
  BY <1>1, <1>2, <1>3 DEF Locked
<1>6. Waited'
  BY <1>1, <1>2, <1>3 DEF Waited
<1>7. ReadsOn'
  BY <1>2, <1>3 DEF ReadsOn, InLoop
<1>8. RingFits' /\ NoNewline' /\ Edited' = Edited /\ Complete' = Complete
  BY <1>1, RingStays DEF ConsInv
<1>9. Got' = Got
  BY <1>3 DEF Got
<1>10. ConsTypes'
  BY <1>1, <1>2, <1>4 DEF ConsTypes, ConsInv
<1>. QED  BY <1>5, <1>6, <1>7, <1>8, <1>9, <1>10 DEF Kept, ConsInv, View

LEMMA ReadCharKept ==
  ASSUME ConsInv, NEW p \in Reader, ReadChar(p)
  PROVE  Kept
<1>. DEFINE c == input.buf[RingAt(input.r)]
            got == Append(rd[p].got, c)
            v == CASE c = "eof" -> [rd[p] EXCEPT !.at = "return"]
                   [] c = "nl" -> [rd[p] EXCEPT !.at = "return", !.got = got, !.n = rd[p].n - 1]
                   [] OTHER -> [rd[p] EXCEPT !.got = got, !.n = rd[p].n - 1]
            back == c = "eof" /\ rd[p].got # <<>>
<1>1. /\ conslock = p /\ conslock' = p /\ rd[p].at = "loop" /\ rd[p].n > 0
      /\ input.r # input.w
      /\ input' = [input EXCEPT !.r = IF back THEN @ ELSE Plus(@, 1)]
      /\ rd' = [rd EXCEPT ![p] = v]
  <2>1. conslock = p /\ conslock' = p /\ rd[p].at = "loop" /\ rd[p].n > 0 /\ input.r # input.w
    BY DEF ReadChar, Looping
  <2>2. input' = [input EXCEPT !.r = IF back THEN @ ELSE Plus(@, 1)]
    BY DEF ReadChar, PutBack
  <2>3. rd' = [rd EXCEPT ![p] = v]
    BY DEF ReadChar
  <2>. QED  BY <2>1, <2>2, <2>3
<1>2. /\ rd \in [Reader -> ReaderState] /\ rd[p] \in ReaderState /\ ReadsOn
      /\ input \in Input /\ input.buf \in Ring /\ input.r \in Index /\ input.w \in Index
  BY DEF ConsInv, ConsTypes, Input
<1>3. PICK m \in 0..INPUT_BUF, n \in 0..INPUT_BUF :
        /\ m + n <= INPUT_BUF
        /\ input.w = Plus(input.r, m) /\ input.e = Plus(input.w, n)
        /\ Complete = Bytes(input.buf, input.r, m) /\ Edited = Bytes(input.buf, input.w, n)
        /\ m = 0 <=> input.r = input.w
  BY Now DEF ConsInv
<1>4. m \in 1..INPUT_BUF /\ m - 1 \in 0..INPUT_BUF
  BY <1>1, <1>3, ConsoleAssumption
<1>5. Complete # <<>> /\ Head(Complete) = c /\ Tail(Complete) = Bytes(input.buf, Plus(input.r, 1), m - 1)
  BY <1>2, <1>3, <1>4, BytesTail
<1>6. c \in Char
  <2>1. Complete \in Seq(Char)
    BY <1>2, <1>3, BytesSeq
  <2>2. Head(Complete) \in Char
    BY <1>5, <2>1, HeadTailProperties
  <2>. QED  BY <1>5, <2>2
<1>7. rd[p].got \in Seq(Char) /\ (rd[p].got # <<>> => rd[p].got[Len(rd[p].got)] # "nl")
  BY <1>1, <1>2 DEF ReaderState, ReadsOn, InLoop
<1>. HIDE DEF c
<1>8. got \in Seq(Char) /\ got[Len(got)] = c
  BY <1>6, <1>7
<1>. HIDE DEF got
<1>9. /\ v \in ReaderState /\ v.at \in {"loop", "return"}
      /\ v.got = IF c = "eof" THEN rd[p].got ELSE got
      /\ v.at = "loop" => c # "nl" /\ c # "eof"
  <2>1. rd[p].n - 1 \in Nat
    BY <1>1, <1>2 DEF ReaderState
  <2>2. CASE c = "eof"
    <3>1. v = [rd[p] EXCEPT !.at = "return"]
      BY <2>2
    <3>. QED  BY <1>2, <2>2, <3>1 DEF ReaderState
  <2>3. CASE c = "nl"
    <3>1. v = [rd[p] EXCEPT !.at = "return", !.got = got, !.n = rd[p].n - 1]
      BY <2>3
    <3>. QED  BY <1>2, <1>8, <2>1, <2>3, <3>1 DEF ReaderState
  <2>4. CASE c # "eof" /\ c # "nl"
    <3>1. v = [rd[p] EXCEPT !.got = got, !.n = rd[p].n - 1]
      BY <2>4
    <3>. QED  BY <1>1, <1>2, <1>8, <2>1, <2>4, <3>1 DEF ReaderState
  <2>. QED  BY <2>2, <2>3, <2>4
<1>. HIDE DEF v
<1>10. v.at \in InLoop /\ v.got # <<>> => v.got[Len(v.got)] # "nl"
  BY <1>8, <1>9 DEF InLoop
<1>11. /\ rd' \in [Reader -> ReaderState] /\ conslock' \in Reader \cup {"free"}
       /\ Locked' /\ Waited' /\ ReadsOn'
       /\ Got' = [Got EXCEPT ![p] = v.got]
  BY <1>1, <1>9, <1>10, ReaderSteps
<1>12. CASE back
  <2>1. input' = input
    BY <1>1, <1>2, <1>12 DEF Input
  <2>2. RingFits' /\ NoNewline' /\ Edited' = Edited /\ Complete' = Complete
    BY <2>1, RingStays DEF ConsInv
  <2>3. Got' = Got
    BY <1>9, <1>11, <1>12, GotStays
  <2>4. ConsTypes'
    BY <1>2, <1>11, <2>1 DEF ConsTypes
  <2>. QED  BY <1>11, <2>2, <2>3, <2>4 DEF Kept, ConsInv, View
<1>13. CASE ~back
  <2>1. Plus(input.r, 1) \in Index
    <3>1. 1 \in 0..IWORD
      BY ConsoleAssumption
    <3>. QED  BY <1>2, <3>1, Ahead
  <2>2. /\ input' \in Input /\ input'.buf = input.buf /\ input'.r = Plus(input.r, 1)
        /\ input'.w = input.w /\ input'.e = input.e
    BY <1>1, <1>2, <1>13, <2>1 DEF Input
  <2>3. PICK k \in 0..INPUT_BUF : k = m - 1
    BY <1>4
  <2>4. input.w = Plus(Plus(input.r, 1), k)
    <3>1. 1 \in 0..IWORD /\ k \in 0..IWORD /\ 1 + k = m /\ 1 + k <= IWORD
      BY <1>4, <2>3, ConsoleAssumption
    <3>2. Plus(Plus(input.r, 1), k) = Plus(input.r, 1 + k)
      BY <1>2, <3>1, PlusPlus
    <3>. QED  BY <1>3, <3>1, <3>2
  <2>5. RingFits' /\ Complete' = Bytes(input.buf, Plus(input.r, 1), k) /\ Edited' = Edited
    <3>1. k + n <= INPUT_BUF
      BY <1>3, <1>4, <2>3, ConsoleAssumption
    <3>. QED  BY <1>3, <2>2, <2>4, <3>1, Then
  <2>6. Complete' = Tail(Complete)
    BY <1>5, <2>3, <2>5
  <2>7. NoNewline'
    BY <2>5 DEF NoNewline, ConsInv
  <2>8. ConsTypes'
    BY <1>11, <2>2 DEF ConsTypes
  <2>9. LD!Next
    <3>1. CASE c = "eof"
      <4>1. rd[p].got = <<>> /\ Got' = Got /\ Got[p] = <<>>
        BY <1>9, <1>11, <1>13, <3>1, GotStays DEF Got
      <4>2. LD!TakeEof(p)
        BY <1>5, <2>5, <2>6, <3>1, <4>1 DEF LD!TakeEof, Edited, Complete, Got
      <4>. QED  BY <4>2 DEF LD!Next
    <3>2. CASE c # "eof"
      <4>1. Got' = [Got EXCEPT ![p] = Append(Got[p], Head(Complete))]
        BY <1>5, <1>9, <1>11, <3>2 DEF Got, got
      <4>2. Got[p] # <<>> => Got[p][Len(Got[p])] # "nl"
        BY <1>7 DEF Got
      <4>3. LD!Take(p)
        BY <1>5, <2>5, <2>6, <3>2, <4>1, <4>2 DEF LD!Take, Edited, Complete, Got
      <4>. QED  BY <4>3 DEF LD!Next
    <3>. QED  BY <3>1, <3>2
  <2>. QED  BY <1>11, <2>5, <2>7, <2>8, <2>9 DEF Kept, ConsInv
<1>. QED  BY <1>12, <1>13

LEMMA ConsNextKept ==
  ASSUME ConsInv, ConsNext
  PROVE  Kept
<1>1. CASE \E c \in {"x", "nl", "eof"} : TypeChar(c)
  BY <1>1, TypeCharKept
<1>2. CASE Backspace
  BY <1>2, BackspaceKept
<1>3. CASE KillLine
  BY <1>3, KillLineKept
<1>4. ASSUME NEW p \in Reader, NEW n \in 1..MaxAsk, ReadStart(p, n) PROVE Kept
  BY <1>4, ReadStartKept
<1>5. ASSUME NEW p \in Reader,
             ReadEmpty(p) \/ ConsoleSleep(p) \/ ReadChar(p) \/ ReadReturn(p) \/ KillReader(p)
      PROVE  Kept
  BY <1>5, ReadEmptyKept, ConsoleSleepKept, ReadCharKept, ReadReturnKept, KillReaderKept
<1>. QED  BY <1>1, <1>2, <1>3, <1>4, <1>5 DEF ConsNext

\* The invariant of the console.
THEOREM ConsoleInv == ConsSpec => []ConsInv
<1>1. ConsInit => ConsInv
  BY ConsInitInv
<1>2. ConsInv /\ [ConsNext]_consVars => ConsInv'
  <2>1. ASSUME ConsInv, ConsNext PROVE ConsInv'
    BY <2>1, ConsNextKept DEF Kept
  <2>2. ASSUME ConsInv, UNCHANGED consVars PROVE ConsInv'
    <3>1. input' = input /\ rd' = rd /\ conslock' = conslock
      BY <2>2 DEF consVars
    <3>2. RingFits' /\ NoNewline'
      BY <2>2, <3>1, RingStays DEF ConsInv
    <3>. QED  BY <2>2, <3>1, <3>2 DEF ConsInv, ConsTypes, Locked, Waited, ReadsOn
  <2>. QED  BY <2>1, <2>2
<1>. QED  BY <1>1, <1>2, PTL DEF ConsSpec

\* The console is a line discipline, for any size of its ring and any number of
\* readers, also when its indices wrap around: a read() gets the bytes of one line, in
\* the order typed and as edited, and nobody sleeps on in consoleread() when a line
\* is complete.
THEOREM ConsoleImplements == ConsSpec => ImplementsLines
<1>1. ConsInit => LD!Init
  BY ConsInitInv
<1>2. ConsInv /\ [ConsNext]_consVars => [UNCHANGED consVars \/ LD!Next]_(LD!lineVars)
  <2>1. ASSUME ConsInv, ConsNext PROVE LD!Next \/ UNCHANGED LD!lineVars
    <3>1. LD!Next \/ View' = View
      BY <2>1, ConsNextKept DEF Kept
    <3>2. ASSUME View' = View PROVE UNCHANGED LD!lineVars
      BY <3>2 DEF View, Edited, Complete, Got, LD!lineVars
    <3>. QED  BY <3>1, <3>2
  <2>. QED  BY <2>1
<1>3. ConsInv => LinesWaited
  BY DEF ConsInv, Waited, LinesWaited
<1>. QED  BY <1>1, <1>2, <1>3, ConsoleInv, PTL DEF ConsSpec, ImplementsLines

-----------------------------------------------------------------------------
(***************************************************************************)
(* The process manager does what its lines say.                            *)
(***************************************************************************)
Word == PmWords \cup {""}
ExecuteCmd == [type : {"execute"}, path : Word, stacksize : Nat]
Cmd == [type : {"list"}] \cup [type : {"kill"}, pid : Nat] \cup [type : {"back"}, cmd : ExecuteCmd]
         \cup [type : {"limit"}, pid : Nat, limit : Nat]
Answered == [cmd : Cmd, ok : BOOLEAN]
Entry == [size : Nat, killed : BOOLEAN, limit : Nat]

PmTypes ==
  /\ pmat \in {"prompt", "wait", "gone"}
  /\ asked \in Seq(Cmd) /\ answered \in Seq(Answered)
  /\ table \in [Pids -> Entry]
  /\ jobs \in Seq([at : {"run", "program", "gone"}, cmd : ExecuteCmd])

\* The manager waits for its child as long as a command has no answer.
Turns ==
  /\ pmat # "wait" => worker = NoWorker
  /\ pmat = "wait" => \/ worker = [at |-> "zombie"]
                      \/ worker.at = "run" /\ worker.cmd \in Cmd
  /\ worker.at = "run" => /\ Len(asked) = Len(answered) + 1
                          /\ asked[Len(asked)] = worker.cmd
  /\ worker.at # "run" => Len(asked) = Len(answered)
  /\ \A k \in 1..Len(answered) : asked[k] = answered[k].cmd

\* The answers that changed process p, and those that started a program.
Success(ans, p, type) == {k \in 1..Len(ans) : ans[k].cmd.type = type /\ ans[k].cmd.pid = p /\ ans[k].ok}
Backs(ans) == {k \in 1..Len(ans) : ans[k].cmd.type = "back"}

\* The last successful limit is the one in the table.
LimitIs(ans, p, limit) ==
  LET ks == Success(ans, p, "limit")
  IN  \/ ks = {} /\ limit = 0
      \/ \E k \in ks : (\A j \in ks : j <= k) /\ limit = ans[k].cmd.limit

Obeyed ==
  /\ \A p \in Pids : /\ table[p].killed = (Success(answered, p, "kill") # {})
                     /\ LimitIs(answered, p, table[p].limit)
                     /\ table[p].limit = 0 \/ table[p].limit >= table[p].size
  /\ Len(jobs) = Cardinality(Backs(answered))

PmInv == PmTypes /\ Turns /\ Obeyed

-----------------------------------------------------------------------------
\* What one more answer does to the sets of answers.
Sets(a, p, type) == a.cmd.type = type /\ a.cmd.pid = p /\ a.ok
LEMMA OneMore ==
  ASSUME NEW ans \in Seq(Answered), NEW a \in Answered
  PROVE  LET new == Append(ans, a)
         IN  /\ new \in Seq(Answered) /\ Len(new) = Len(ans) + 1 /\ Len(ans) \in Nat
             /\ \A k \in 1..Len(ans) : new[k] = ans[k]
             /\ new[Len(ans) + 1] = a
             /\ \A k : k \in 1..Len(new) <=> k \in 1..Len(ans) \/ k = Len(ans) + 1
OBVIOUS

LEMMA Successes ==
  ASSUME NEW ans \in Seq(Answered), NEW a \in Answered, NEW p, NEW type
  PROVE  /\ Sets(a, p, type) => Success(Append(ans, a), p, type) = Success(ans, p, type) \cup {Len(ans) + 1}
         /\ ~Sets(a, p, type) => Success(Append(ans, a), p, type) = Success(ans, p, type)
<1>. DEFINE new == Append(ans, a)
<1>1. /\ Len(ans) \in Nat /\ \A k \in 1..Len(ans) : new[k] = ans[k]
      /\ new[Len(ans) + 1] = a
      /\ \A k : k \in 1..Len(new) <=> k \in 1..Len(ans) \/ k = Len(ans) + 1
  BY OneMore
<1>. HIDE DEF new
<1>2. \A k : k \in Success(new, p, type) <=> k \in Success(ans, p, type) \/ (k = Len(ans) + 1 /\ Sets(a, p, type))
  BY <1>1 DEF Success, Sets
<1>3. /\ Sets(a, p, type) => Success(new, p, type) = Success(ans, p, type) \cup {Len(ans) + 1}
      /\ ~Sets(a, p, type) => Success(new, p, type) = Success(ans, p, type)
  BY <1>2
<1>. QED  BY <1>3 DEF new

LEMMA BacksCount ==
  ASSUME NEW ans \in Seq(Answered), NEW a \in Answered, NEW new, new = Append(ans, a)
  PROVE  Cardinality(Backs(new)) = Cardinality(Backs(ans)) + (IF a.cmd.type = "back" THEN 1 ELSE 0)
<1>1. /\ Len(new) = Len(ans) + 1 /\ Len(ans) \in Nat
      /\ \A k \in 1..Len(ans) : new[k] = ans[k]
      /\ new[Len(ans) + 1] = a
  OBVIOUS
<1>2. \A k : k \in 1..Len(new) <=> k \in 1..Len(ans) \/ k = Len(ans) + 1
  BY <1>1
<1>3. \A k : k \in Backs(new) <=> k \in Backs(ans) \/ (k = Len(ans) + 1 /\ a.cmd.type = "back")
  BY <1>1, <1>2 DEF Backs
<1>4. IsFiniteSet(Backs(ans)) /\ Len(ans) + 1 \notin Backs(ans)
  <2>1. IsFiniteSet(1..Len(ans))
    BY <1>1, FS_Interval
  <2>2. Backs(ans) \subseteq 1..Len(ans)
    BY DEF Backs
  <2>. QED  BY <1>1, <2>1, <2>2, FS_Subset
<1>5. CASE a.cmd.type = "back"
  <2>1. Backs(new) = Backs(ans) \cup {Len(ans) + 1}
    BY <1>3, <1>5
  <2>. QED  BY <1>4, <1>5, <2>1, FS_AddElement
<1>6. CASE a.cmd.type # "back"
  <2>1. Backs(new) = Backs(ans)
    BY <1>3, <1>6
  <2>. QED  BY <1>4, <1>6, <2>1, FS_CardinalityType
<1>. QED  BY <1>5, <1>6

\* An answer that sets no limit of p leaves the last one, and one that does is the last.
LEMMA LimitStays ==
  ASSUME NEW ans \in Seq(Answered), NEW a \in Answered, NEW new, new = Append(ans, a), NEW p, NEW n,
         LimitIs(ans, p, n), ~Sets(a, p, "limit")
  PROVE  LimitIs(new, p, n)
<1>1. Success(new, p, "limit") = Success(ans, p, "limit") /\ \A k \in 1..Len(ans) : new[k] = ans[k]
  BY OneMore, Successes
<1>2. Success(ans, p, "limit") \subseteq 1..Len(ans)
  BY DEF Success
<1>. QED  BY <1>1, <1>2 DEF LimitIs

LEMMA LimitSet ==
  ASSUME NEW ans \in Seq(Answered), NEW a \in Answered, NEW new, new = Append(ans, a), NEW p,
         Sets(a, p, "limit")
  PROVE  LimitIs(new, p, a.cmd.limit)
<1>1. /\ Success(new, p, "limit") = Success(ans, p, "limit") \cup {Len(ans) + 1} /\ new[Len(ans) + 1] = a
      /\ Len(ans) \in Nat
  BY OneMore, Successes
<1>2. \A j \in Success(ans, p, "limit") : j <= Len(ans) + 1 /\ j \in Nat
  BY <1>1 DEF Success
<1>. QED  BY <1>1, <1>2 DEF LimitIs

-----------------------------------------------------------------------------
LEMMA makecmdType ==
  ASSUME NEW n \in 1..MaxWords, NEW ws \in [1..n -> PmWords], makecmd(ws) # NoCmd
  PROVE  makecmd(ws) \in Cmd
<1>1. n \in Nat /\ Len(ws) = n
  <2>1. n \in Nat
    BY PmAssumption
  <2>2. ws \in Seq(PmWords)
    BY <2>1, SeqDef
  <2>3. Len(ws) \in Nat /\ DOMAIN ws = 1..Len(ws) /\ DOMAIN ws = 1..n
    BY <2>2, LenProperties
  <2>. QED  BY <2>1, <2>3
<1>2. \A k \in Nat \ {0} : WordAt(ws, k) \in Word
  <2>. SUFFICES ASSUME NEW k \in Nat \ {0} PROVE WordAt(ws, k) \in Word
    OBVIOUS
  <2>1. CASE k <= Len(ws)
    <3>1. k \in 1..n
      BY <1>1, <2>1
    <3>2. ws[k] \in PmWords
      BY <3>1
    <3>. QED  BY <2>1, <3>2 DEF WordAt, Word
  <2>2. CASE ~(k <= Len(ws))
    BY <2>2 DEF WordAt, Word
  <2>. QED  BY <2>1, <2>2
<1>3. \A w : atoi(w) \in Nat
  BY DEF atoi
<1>4. WordAt(ws, 2) \in Word /\ WordAt(ws, 3) \in Word
  BY <1>2
<1>5. /\ listcmd \in Cmd /\ killcmd(atoi(WordAt(ws, 2))) \in Cmd
      /\ executecmd(WordAt(ws, 2), atoi(WordAt(ws, 3))) \in Cmd
      /\ limitcmd(atoi(WordAt(ws, 2)), atoi(WordAt(ws, 3))) \in Cmd
  BY <1>3, <1>4 DEF listcmd, killcmd, executecmd, backcmd, limitcmd, Cmd, ExecuteCmd
<1>. QED  BY <1>5 DEF makecmd

\* The commands differ in their type, and none is NoCmd.
LEMMA CmdKinds ==
  ASSUME NEW cmd \in Cmd
  PROVE  /\ cmd.type \in {"list", "kill", "limit", "back"}
         /\ cmd.type = "kill" => cmd.pid \in Nat
         /\ cmd.type = "limit" => cmd.pid \in Nat /\ cmd.limit \in Nat
         /\ cmd.type = "back" => cmd.cmd \in ExecuteCmd
BY DEF Cmd

LEMMA NoWorkerIs == NoWorker.at = "none" /\ [at |-> "zombie"].at = "zombie"
BY DEF NoWorker

-----------------------------------------------------------------------------
LEMMA InitInv == PmInit => PmInv
<1>. SUFFICES ASSUME PmInit PROVE PmInv
  OBVIOUS
<1>1. PmTypes
  BY PmAssumption DEF PmInit, PmTypes, Entry
<1>2. Turns
  BY NoWorkerIs DEF PmInit, Turns
<1>3. Success(answered, 0, "kill") = {} /\ \A p, type : Success(answered, p, type) = {}
  BY DEF PmInit, Success
<1>4. Backs(answered) = {}
  BY DEF PmInit, Backs
<1>5. \A p \in Pids : table[p].killed = FALSE /\ table[p].limit = 0
  BY DEF PmInit
<1>6. Len(jobs) = 0
  BY DEF PmInit
<1>7. \A p \in Pids : LimitIs(answered, p, table[p].limit)
  BY <1>3, <1>5 DEF LimitIs
<1>8. Cardinality(Backs(answered)) = 0
  BY <1>4, FS_EmptySet
<1>. QED  BY <1>1, <1>2, <1>3, <1>5, <1>6, <1>7, <1>8 DEF PmInv, Obeyed

\* A line is typed: nothing has changed but what is asked.
LEMMA GetInv ==
  ASSUME PmInv, NEW n \in 1..MaxWords, NEW ws \in [1..n -> PmWords], getcmd(ws)
  PROVE  PmInv'
<1>. DEFINE cmd == makecmd(ws)
<1>1. Obeyed'
  BY DEF getcmd, PmInv, Obeyed, LimitIs, Success, Backs
<1>2. CASE cmd = NoCmd
  BY <1>1, <1>2 DEF getcmd, PmInv, PmTypes, Turns
<1>3. CASE cmd # NoCmd
  <2>1. cmd \in Cmd
    BY <1>3, makecmdType
  <2>. HIDE DEF cmd
  <2>2. /\ pmat' = "wait" /\ asked' = Append(asked, cmd) /\ worker' = [at |-> "run", cmd |-> cmd]
        /\ UNCHANGED <<jobs, table, answered>> /\ pmat = "prompt"
    BY <1>3 DEF getcmd, cmd
  <2>3. PmTypes'
    BY <2>1, <2>2 DEF PmInv, PmTypes
  <2>4. /\ asked \in Seq(Cmd) /\ Len(asked) = Len(answered) /\ Len(answered) \in Nat
        /\ \A k \in 1..Len(answered) : asked[k] = answered[k].cmd
    BY <2>2, NoWorkerIs DEF PmInv, PmTypes, Turns
  <2>5. /\ Len(asked') = Len(answered') + 1 /\ asked'[Len(asked')] = cmd
        /\ \A k \in 1..Len(answered') : asked'[k] = answered'[k].cmd
    BY <2>1, <2>2, <2>4
  <2>6. Turns'
    BY <2>1, <2>2, <2>5 DEF Turns
  <2>. QED  BY <1>1, <2>3, <2>6 DEF PmInv
<1>. QED  BY <1>2, <1>3

\* A command is answered: what is left to show is what it has done.
LEMMA AnswerInv ==
  ASSUME PmInv, worker.at = "run", NEW ok \in BOOLEAN, Answer(worker.cmd, ok),
         worker' = [at |-> "zombie"], UNCHANGED <<pmat, asked>>,
         table' \in [Pids -> Entry], jobs' \in Seq([at : {"run", "program", "gone"}, cmd : ExecuteCmd])
  PROVE  /\ PmTypes' /\ Turns' /\ worker.cmd \in Cmd
         /\ answered \in Seq(Answered) /\ [cmd |-> worker.cmd, ok |-> ok] \in Answered
         /\ answered' = Append(answered, [cmd |-> worker.cmd, ok |-> ok])
<1>1. /\ pmat = "wait" /\ worker.cmd \in Cmd /\ Len(asked) = Len(answered) + 1
      /\ asked[Len(asked)] = worker.cmd
      /\ \A k \in 1..Len(answered) : asked[k] = answered[k].cmd
  BY NoWorkerIs DEF PmInv, PmTypes, Turns
<1>. DEFINE a == [cmd |-> worker.cmd, ok |-> ok]
<1>2. a \in Answered /\ a.cmd = worker.cmd
  BY <1>1 DEF Answered
<1>3. answered \in Seq(Answered) /\ answered' = Append(answered, a)
  BY DEF Answer, PmInv, PmTypes
<1>. HIDE DEF a
<1>4. /\ answered' \in Seq(Answered) /\ Len(answered') = Len(answered) + 1 /\ Len(answered) \in Nat
      /\ \A k \in 1..Len(answered) : answered'[k] = answered[k]
      /\ answered'[Len(answered) + 1] = a
  BY <1>2, <1>3
<1>5. PmTypes'
  BY <1>4 DEF PmInv, PmTypes
<1>6. \A k \in 1..Len(answered') : asked'[k] = answered'[k].cmd
  <2>. SUFFICES ASSUME NEW k \in 1..Len(answered') PROVE asked'[k] = answered'[k].cmd
    OBVIOUS
  <2>1. k \in 1..Len(answered) \/ k = Len(answered) + 1
    BY <1>4
  <2>. QED  BY <1>1, <1>2, <1>4, <2>1
<1>7. Turns'
  BY <1>1, <1>4, <1>6, NoWorkerIs DEF Turns
<1>. QED  BY <1>1, <1>2, <1>3, <1>5, <1>7 DEF a

\* The parts of the invariant that an answer can break.
LEMMA ObeyedInv ==
  ASSUME PmInv, NEW a \in Answered, answered' = Append(answered, a),
         \A p \in Pids : table'[p].killed = (table[p].killed \/ Sets(a, p, "kill")),
         \A p \in Pids : \/ /\ Sets(a, p, "limit")
                            /\ table'[p].limit = a.cmd.limit /\ table'[p].limit >= table'[p].size
                         \/ /\ ~Sets(a, p, "limit")
                            /\ table'[p].limit = table[p].limit /\ table'[p].size = table[p].size,
         Len(jobs') = Len(jobs) + (IF a.cmd.type = "back" THEN 1 ELSE 0)
  PROVE  Obeyed'
<1>1. answered \in Seq(Answered) /\ table \in [Pids -> Entry]
  BY DEF PmInv, PmTypes
<1>2. Len(jobs') = Cardinality(Backs(answered'))
  BY <1>1, BacksCount DEF PmInv, Obeyed
<1>3. ASSUME NEW p \in Pids PROVE table'[p].killed = (Success(answered', p, "kill") # {})
  <2>1. (Success(answered', p, "kill") # {}) <=> (Success(answered, p, "kill") # {} \/ Sets(a, p, "kill"))
    <3>. DEFINE new == Append(answered, a)
    <3>1. /\ Sets(a, p, "kill") => Success(new, p, "kill") = Success(answered, p, "kill") \cup {Len(answered) + 1}
          /\ ~Sets(a, p, "kill") => Success(new, p, "kill") = Success(answered, p, "kill")
      BY <1>1, Successes
    <3>2. answered' = new
      OBVIOUS
    <3>. HIDE DEF new
    <3>. QED  BY ONLY <3>1, <3>2
  <2>2. table[p].killed = (Success(answered, p, "kill") # {})
    BY DEF PmInv, Obeyed
  <2>. QED  BY <2>1, <2>2
<1>4. ASSUME NEW p \in Pids
      PROVE  LimitIs(answered', p, table'[p].limit) /\ (table'[p].limit = 0 \/ table'[p].limit >= table'[p].size)
  <2>1. LimitIs(answered, p, table[p].limit) /\ (table[p].limit = 0 \/ table[p].limit >= table[p].size)
    BY DEF PmInv, Obeyed
  <2>2. CASE Sets(a, p, "limit")
    <3>1. LimitIs(answered', p, a.cmd.limit)
      BY <1>1, <2>2, LimitSet
    <3>. QED  BY <2>2, <3>1
  <2>3. CASE ~Sets(a, p, "limit")
    <3>1. LimitIs(answered', p, table[p].limit)
      BY <1>1, <2>1, <2>3, LimitStays
    <3>. QED  BY <2>1, <2>3, <3>1
  <2>. QED  BY <2>2, <2>3
<1>. QED  BY <1>2, <1>3, <1>4 DEF Obeyed
-----------------------------------------------------------------------------
LEMMA RunInv ==
  ASSUME PmInv, runcmd
  PROVE  PmInv'
<1>. DEFINE cmd == worker.cmd
<1>1. worker.at = "run" /\ worker' = [at |-> "zombie"] /\ UNCHANGED <<pmat, asked>>
  BY DEF runcmd
<1>2. /\ table \in [Pids -> Entry] /\ jobs \in Seq([at : {"run", "program", "gone"}, cmd : ExecuteCmd])
      /\ Len(jobs) \in Nat /\ cmd \in Cmd /\ Pids \subseteq Nat \ {0}
  BY <1>1, PmAssumption, NoWorkerIs DEF PmInv, PmTypes, Turns
<1>3. /\ cmd.type = "kill" => cmd.pid \in Nat
      /\ cmd.type = "limit" => cmd.pid \in Nat /\ cmd.limit \in Nat
      /\ cmd.type = "back" => cmd.cmd \in ExecuteCmd
  BY <1>2, CmdKinds
\* It is enough to say what the answer is, and what table and jobs are then.
<1>4. ASSUME NEW ok \in BOOLEAN, Answer(cmd, ok), table' \in [Pids -> Entry],
             jobs' \in Seq([at : {"run", "program", "gone"}, cmd : ExecuteCmd]),
             \A p \in Pids : table'[p].killed = (table[p].killed \/ (cmd.type = "kill" /\ cmd.pid = p /\ ok)),
             \A p \in Pids : \/ /\ cmd.type = "limit" /\ cmd.pid = p /\ ok
                                /\ table'[p].limit = cmd.limit /\ table'[p].limit >= table'[p].size
                             \/ /\ ~(cmd.type = "limit" /\ cmd.pid = p /\ ok)
                                /\ table'[p].limit = table[p].limit /\ table'[p].size = table[p].size,
             Len(jobs') = Len(jobs) + (IF cmd.type = "back" THEN 1 ELSE 0)
      PROVE  PmInv'
  <2>. DEFINE a == [cmd |-> cmd, ok |-> ok]
  <2>1. /\ PmTypes' /\ Turns' /\ a \in Answered /\ answered' = Append(answered, a)
    BY <1>1, <1>4, AnswerInv
  <2>2. a.cmd = cmd /\ a.ok = ok
    OBVIOUS
  <2>. HIDE DEF a, cmd
  <2>3. \A p, type : Sets(a, p, type) = (cmd.type = type /\ cmd.pid = p /\ ok)
    BY <2>2 DEF Sets
  <2>4. \A p \in Pids : table'[p].killed = (table[p].killed \/ Sets(a, p, "kill"))
    BY <1>4, <2>3
  <2>5. \A p \in Pids : \/ /\ Sets(a, p, "limit")
                           /\ table'[p].limit = a.cmd.limit /\ table'[p].limit >= table'[p].size
                        \/ /\ ~Sets(a, p, "limit")
                           /\ table'[p].limit = table[p].limit /\ table'[p].size = table[p].size
    BY <1>4, <2>2, <2>3
  <2>6. Obeyed'
    BY <1>4, <2>1, <2>2, <2>4, <2>5, ObeyedInv
  <2>. QED  BY <2>1, <2>6 DEF PmInv
<1>5. CASE RunList
  <2>1. cmd.type = "list" /\ Answer(cmd, TRUE) /\ table' = table /\ jobs' = jobs
    BY <1>5 DEF RunList
  <2>. HIDE DEF cmd
  <2>2. \A p \in Pids : table[p].killed \in BOOLEAN
    BY <1>2 DEF Entry
  <2>3. \A p \in Pids : table'[p].killed = (table[p].killed \/ (cmd.type = "kill" /\ cmd.pid = p /\ TRUE))
    BY <2>1, <2>2
  <2>4. Len(jobs') = Len(jobs) + (IF cmd.type = "back" THEN 1 ELSE 0)
    BY <1>2, <2>1
  <2>5. \A p \in Pids : /\ ~(cmd.type = "limit" /\ cmd.pid = p /\ TRUE)
                        /\ table'[p].limit = table[p].limit /\ table'[p].size = table[p].size
    BY <2>1
  <2>6. TRUE \in BOOLEAN /\ table' \in [Pids -> Entry] /\ jobs' \in Seq([at : {"run", "program", "gone"}, cmd : ExecuteCmd])
    BY <1>2, <2>1
  <2>. QED  BY ONLY <1>4, <2>1, <2>3, <2>4, <2>5, <2>6, Zenon
<1>6. CASE RunKill
  <2>1. PICK ok \in BOOLEAN : Stands(cmd.pid, ok) /\ Answer(cmd, ok)
    BY <1>6 DEF RunKill
  <2>2. /\ cmd.type = "kill" /\ jobs' = jobs
        /\ table' = [p \in Pids |-> IF p = cmd.pid THEN [table[p] EXCEPT !.killed = TRUE] ELSE table[p]]
    BY <1>6 DEF RunKill
  <2>3. \A p \in Pids : cmd.pid = p => ok = TRUE
    BY <1>2, <2>1 DEF Stands
  <2>. HIDE DEF cmd
  <2>4. \A p \in Pids : /\ table'[p] \in Entry /\ table'[p].size = table[p].size /\ table'[p].limit = table[p].limit
                        /\ table'[p].killed = (table[p].killed \/ cmd.pid = p)
    BY <1>2, <2>2 DEF Entry
  <2>5. table' \in [Pids -> Entry]
    BY <2>2, <2>4
  <2>6. \A p \in Pids : table'[p].killed = (table[p].killed \/ (cmd.type = "kill" /\ cmd.pid = p /\ ok))
    <3>. SUFFICES ASSUME NEW p \in Pids
                  PROVE  table'[p].killed = (table[p].killed \/ (cmd.type = "kill" /\ cmd.pid = p /\ ok))
      OBVIOUS
    <3>1. (cmd.type = "kill" /\ cmd.pid = p /\ ok) <=> cmd.pid = p
      BY <2>2, <2>3
    <3>2. table'[p].killed = (table[p].killed \/ cmd.pid = p)
      BY <2>4
    <3>. QED  BY ONLY <3>1, <3>2, Zenon
  <2>7. \A p \in Pids : /\ ~(cmd.type = "limit" /\ cmd.pid = p /\ ok)
                        /\ table'[p].limit = table[p].limit /\ table'[p].size = table[p].size
    BY <2>2, <2>4
  <2>8. jobs' \in Seq([at : {"run", "program", "gone"}, cmd : ExecuteCmd])
        /\ Len(jobs') = Len(jobs) + (IF cmd.type = "back" THEN 1 ELSE 0)
    BY <1>2, <2>2
  <2>. QED  BY ONLY <1>4, ok \in BOOLEAN, <2>1, <2>5, <2>6, <2>7, <2>8, Zenon
<1>7. CASE RunLimit
  <2>. DEFINE set == {p \in Pids : p = cmd.pid /\ Accepts(p, cmd.limit)}
  <2>1. PICK ok \in BOOLEAN : /\ IF cmd.pid \in Pids THEN ok = (set # {}) ELSE Stands(cmd.pid, ok)
                             /\ Answer(cmd, ok)
    BY <1>7 DEF RunLimit
  <2>2. /\ cmd.type = "limit" /\ jobs' = jobs
        /\ table' = [p \in Pids |-> IF p \in set THEN [table[p] EXCEPT !.limit = cmd.limit] ELSE table[p]]
    BY <1>7 DEF RunLimit
  <2>. HIDE DEF cmd
  <2>3. \A p \in Pids : cmd.pid = p => (ok <=> p \in set)
    BY <2>1
  <2>4. \A p \in Pids : p \in set => p = cmd.pid /\ cmd.limit >= table[p].size
    BY <1>2, <1>3, <2>2 DEF Accepts, Entry
  <2>. HIDE DEF set
  <2>5. \A p \in Pids : /\ table'[p] \in Entry /\ table'[p].size = table[p].size /\ table'[p].killed = table[p].killed
                        /\ table'[p].killed \in BOOLEAN
                        /\ table'[p].limit = IF p \in set THEN cmd.limit ELSE table[p].limit
    BY <1>2, <1>3, <2>2 DEF Entry
  <2>6. table' \in [Pids -> Entry]
    BY <2>2, <2>5
  <2>7. \A p \in Pids : \/ /\ cmd.type = "limit" /\ cmd.pid = p /\ ok
                           /\ table'[p].limit = cmd.limit /\ table'[p].limit >= table'[p].size
                        \/ /\ ~(cmd.type = "limit" /\ cmd.pid = p /\ ok)
                           /\ table'[p].limit = table[p].limit /\ table'[p].size = table[p].size
    BY <2>2, <2>3, <2>4, <2>5
  <2>8. \A p \in Pids : table'[p].killed = (table[p].killed \/ (cmd.type = "kill" /\ cmd.pid = p /\ ok))
    BY <2>2, <2>5
  <2>9. jobs' \in Seq([at : {"run", "program", "gone"}, cmd : ExecuteCmd])
        /\ Len(jobs') = Len(jobs) + (IF cmd.type = "back" THEN 1 ELSE 0)
    BY <1>2, <2>2
  <2>. QED  BY ONLY <1>4, ok \in BOOLEAN, <2>1, <2>6, <2>7, <2>8, <2>9, Zenon
<1>8. CASE RunBack
  <2>1. /\ cmd.type = "back" /\ Answer(cmd, TRUE) /\ table' = table
        /\ jobs' = Append(jobs, [at |-> "run", cmd |-> cmd.cmd])
    BY <1>8 DEF RunBack
  <2>. HIDE DEF cmd
  <2>2. \A p \in Pids : table[p].killed \in BOOLEAN
    BY <1>2 DEF Entry
  <2>3. [at |-> "run", cmd |-> cmd.cmd] \in [at : {"run", "program", "gone"}, cmd : ExecuteCmd]
    BY <1>3, <2>1
  <2>4. jobs' \in Seq([at : {"run", "program", "gone"}, cmd : ExecuteCmd]) /\ Len(jobs') = Len(jobs) + 1
    BY <1>2, <2>1, <2>3
  <2>. QED  BY <1>2, <1>4, <2>1, <2>2, <2>4
<1>. QED  BY <1>5, <1>6, <1>7, <1>8 DEF runcmd

\* A program starts, fails to start or ends: the number of jobs stays.
LEMMA JobsInv ==
  ASSUME PmInv, NEW k \in 1..Len(jobs), RunExecute(k) \/ ProgramEnds(k)
  PROVE  PmInv'
<1>1. \E at \in {"run", "program", "gone"} : jobs' = [jobs EXCEPT ![k].at = at]
  BY DEF RunExecute, ProgramEnds
<1>2. jobs' \in Seq([at : {"run", "program", "gone"}, cmd : ExecuteCmd]) /\ Len(jobs') = Len(jobs)
  <2>. DEFINE Job == [at : {"run", "program", "gone"}, cmd : ExecuteCmd]
  <2>1. jobs \in Seq(Job)
    BY DEF PmInv, PmTypes
  <2>2. PICK at \in {"run", "program", "gone"} : jobs' = [jobs EXCEPT ![k].at = at]
    BY <1>1
  <2>3. jobs[k] \in Job
    BY <2>1, ElementOfSeq
  <2>4. [jobs[k] EXCEPT !.at = at] \in Job /\ jobs' = [jobs EXCEPT ![k] = [jobs[k] EXCEPT !.at = at]]
    BY <2>2, <2>3
  <2>. HIDE DEF Job
  <2>5. jobs' \in Seq(Job) /\ Len(jobs') = Len(jobs)
    BY <2>1, <2>4, ExceptSeq
  <2>. QED  BY <2>5 DEF Job
<1>3. UNCHANGED <<pmat, worker, table, asked, answered>>
  BY DEF RunExecute, ProgramEnds
<1>4. PmTypes' /\ Turns'
  BY <1>2, <1>3 DEF PmInv, PmTypes, Turns
<1>5. Obeyed'
  BY <1>2, <1>3 DEF PmInv, Obeyed, LimitIs, Success, Backs
<1>. QED  BY <1>4, <1>5 DEF PmInv

LEMMA WaitInv ==
  ASSUME PmInv, WaitWorker
  PROVE  PmInv'
<1>1. /\ worker.at = "zombie" /\ pmat' = "prompt" /\ worker' = NoWorker
      /\ UNCHANGED <<jobs, table, asked, answered>>
  BY DEF WaitWorker, Reaped
<1>2. PmTypes' /\ Turns'
  BY <1>1, NoWorkerIs DEF PmInv, PmTypes, Turns
<1>3. Obeyed'
  BY <1>1 DEF PmInv, Obeyed, LimitIs, Success, Backs
<1>. QED  BY <1>2, <1>3 DEF PmInv

\* The commands that are answered, and what they have done, hold at every moment.
THEOREM ManagerInv == PmSpec => []PmInv
<1>1. PmInit => PmInv
  BY InitInv
<1>2. ASSUME PmInv, [PmNext]_pmVars PROVE PmInv'
  <2>1. CASE PmNext
    BY <1>2, <2>1, GetInv, RunInv, WaitInv, JobsInv, Zenon DEF PmNext
  <2>2. CASE UNCHANGED pmVars
    <3>1. UNCHANGED <<pmat, worker, jobs, table, asked, answered>>
      BY <2>2 DEF pmVars
    <3>2. PmTypes' /\ Turns'
      BY <1>2, <3>1 DEF PmInv, PmTypes, Turns
    <3>3. Obeyed'
      BY <1>2, <3>1 DEF PmInv, Obeyed, LimitIs, Success, Backs
    <3>. QED  BY <3>2, <3>3 DEF PmInv
  <2>. QED  BY <1>2, <2>1, <2>2
<1>. QED  BY <1>1, <1>2, PTL DEF PmSpec

LEMMA ObeysInv == PmInv => ManagerObeys
<1>. SUFFICES ASSUME PmInv PROVE ManagerObeys
  OBVIOUS
<1>1. worker.at = "run" => worker.cmd.type # "execute"
  <2>1. worker.at = "run" => worker.cmd \in Cmd
    BY NoWorkerIs DEF PmInv, PmTypes, Turns
  <2>. QED  BY <2>1, CmdKinds
<1>2. CASE pmat = "prompt"
  <2>1. /\ worker = NoWorker /\ Len(asked) = Len(answered) /\ Len(answered) \in Nat
        /\ asked \in Seq(Cmd) /\ answered \in Seq(Answered)
        /\ \A k \in 1..Len(answered) : asked[k] = answered[k].cmd
    BY <1>2, NoWorkerIs DEF PmInv, PmTypes, Turns
  <2>2. [k \in 1..Len(answered) |-> answered[k].cmd] = asked
    <3>1. asked \in [1..Len(answered) -> Cmd]
      BY <2>1, LenProperties
    <3>. QED  BY <2>1, <3>1
  <2>3. \A p, type : Done(p, type) = Success(answered, p, type)
    BY <2>1 DEF Done, Success
  <2>4. {k \in 1..Len(asked) : asked[k].type = "back"} = Backs(answered)
    BY <2>1 DEF Backs
  <2>5. ASSUME NEW p \in Pids PROVE table[p].limit = LimitAsked(p)
    <3>. DEFINE ks == Success(answered, p, "limit")
    <3>1. LimitIs(answered, p, table[p].limit) /\ Done(p, "limit") = ks
      BY <2>3 DEF PmInv, Obeyed
    <3>2. CASE ks = {}
      BY <3>1, <3>2 DEF LimitIs, LimitAsked
    <3>3. CASE ks # {}
      <4>1. PICK k \in ks : (\A j \in ks : j <= k) /\ table[p].limit = answered[k].cmd.limit
        BY <3>1, <3>3 DEF LimitIs
      <4>2. ks \subseteq Nat /\ ks \subseteq 1..Len(answered)
        BY <2>1 DEF Success
      <4>. HIDE DEF ks
      <4>3. \A i \in ks : (\A j \in ks : j <= i) => i = k
        BY <4>1, <4>2
      <4>4. (CHOOSE i \in ks : \A j \in ks : j <= i) = k
        BY <4>1, <4>3
      <4>5. LimitAsked(p) = asked[k].limit
        BY <3>1, <3>3, <4>4 DEF LimitAsked
      <4>. QED  BY <2>1, <4>1, <4>2, <4>5
    <3>. QED  BY <3>2, <3>3
  <2>6. \A p \in Pids : /\ table[p].killed = (Done(p, "kill") # {})
                        /\ table[p].limit = 0 \/ table[p].limit >= table[p].size
    BY <2>3 DEF PmInv, Obeyed
  <2>7. Len(jobs) = Cardinality({k \in 1..Len(asked) : asked[k].type = "back"})
    BY <2>4 DEF PmInv, Obeyed
  <2>. QED  BY ONLY <1>1, <2>1, <2>2, <2>5, <2>6, <2>7 DEF ManagerObeys
<1>3. CASE pmat # "prompt"
  BY ONLY <1>1, <1>3 DEF ManagerObeys
<1>. QED  BY <1>2, <1>3

\* Whatever is typed, the manager answers every command once and in order, the
\* processes are as the commands that succeeded say, and main() waits for the child
\* that runs a command, never for a program.
THEOREM ManagerDoesItsWork == PmSpec => []ManagerObeys
BY ManagerInv, ObeysInv, PTL
=============================================================================
