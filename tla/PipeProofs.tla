----------------------------- MODULE PipeProofs -----------------------------
(***************************************************************************)
(* Proofs about Pipe, for any number of processes, any size of the ring    *)
(* and any requests: nobody is left asleep, the page is freed when nobody  *)
(* can use it, and the ring with its wrapping counters is a queue.         *)
(***************************************************************************)
EXTENDS Pipe, SequenceTheorems, TLAPS

\* The end that a process uses is open: it has a descriptor of it.  The last
\* reference of an end is gone before the one that dropped it closes the end.
Writing(p) == at[p] \in {"write", "full", "wsleep"}
Reading(p) == at[p] \in {"read", "empty", "rsleep"}
Descriptors ==
  \A p \in Proc : /\ Writing(p) => p \in wfd
                  /\ Reading(p) => p \in rfd
                  /\ at[p] = "none" => p \notin rfd /\ p \notin wfd
                  /\ at[p] = "rclose" => rfd = {}
                  /\ at[p] = "wclose" => wfd = {}
OneCloser ==
  \A p, r \in Proc : at[p] = at[r] /\ at[p] \in {"rclose", "wclose"} => p = r
OpenWhile ==
  /\ readopen <=> rfd # {} \/ \E p \in Proc : at[p] = "rclose"
  /\ writeopen <=> wfd # {} \/ \E p \in Proc : at[p] = "wclose"
  /\ freed <=> ~readopen /\ ~writeopen
Ends == Descriptors /\ OneCloser /\ OpenWhile

\* A call is busy from its start to its end, with something left to do.
Busy ==
  \A p \in Proc : /\ res[p] = "busy" <=> Writing(p) \/ Reading(p)
                  /\ Writing(p) => todo[p] # <<>>
                  /\ Reading(p) => want[p] > 0

\* Nobody sleeps, or is about to, without a reason.
EmptyWait ==
  (\A p \in Proc : ~killed[p]) =>
    \A p \in Proc : at[p] \in {"empty", "rsleep"} => nread = nwrite /\ writeopen
FullWait == \A p \in Proc : at[p] \in {"full", "wsleep"} => Full(nwrite) /\ readopen

\* The inductive invariant.
IInv == TypeOK /\ Ends /\ Busy /\ EmptyWait /\ FullWait

-----------------------------------------------------------------------------
\* Division with remainder.
LEMMA Remainder ==
  ASSUME NEW w \in Nat \ {0}, NEW q \in Int, NEW s \in 0..(w - 1)
  PROVE  (w * q + s) % w = s
OBVIOUS

LEMMA Euclid ==
  ASSUME NEW w \in Nat \ {0}, NEW a \in Int
  PROVE  (a % w) \in 0..(w - 1) /\ \E q \in Int : a = w * q + (a % w)
<1>1. a \div w \in Int
  OBVIOUS
<1>2. a = w * (a \div w) + (a % w)
  OBVIOUS
<1>3. (a % w) \in 0..(w - 1)
  OBVIOUS
<1>. QED  BY <1>1, <1>2, <1>3

\* Adding a multiple of w changes no remainder.
LEMMA Shift ==
  ASSUME NEW w \in Nat \ {0}, NEW a \in Int, NEW b \in Int, b % w = 0
  PROVE  (a + b) % w = a % w
<1>1. PICK q \in Int : a = w * q + (a % w)
  BY Euclid
<1>2. PICK r \in Int : b = w * r + (b % w)
  BY Euclid
<1>3. w * q \in Int /\ w * r \in Int /\ w * (q + r) = w * q + w * r
  OBVIOUS
<1>4. PICK s \in 0..(w - 1) : s = a % w
  BY Euclid
<1>5. PICK u \in Int, v \in Int : u = w * q /\ v = w * r
  BY <1>3
<1>6. a = u + s
  BY <1>1, <1>4, <1>5
<1>7. b = v
  BY <1>2, <1>5
<1>8. a + b = w * (q + r) + s
  BY <1>3, <1>5, <1>6, <1>7
<1>9. q + r \in Int
  OBVIOUS
<1>. QED  BY <1>4, <1>8, <1>9, Remainder

\* Less than w apart, two numbers have different remainders.
LEMMA Apart ==
  ASSUME NEW w \in Nat \ {0}, NEW a \in Int, NEW i \in 0..(w - 1), NEW j \in 0..(w - 1),
         (a + i) % w = (a + j) % w
  PROVE  i = j
<1>1. PICK x \in Int, y \in Int : x = a + i /\ y = a + j
  OBVIOUS
<1>2. PICK q \in Int : x = w * q + (x % w)
  BY Euclid
<1>3. PICK r \in Int : y = w * r + (y % w)
  BY Euclid
<1>4. w * q \in Int /\ w * r \in Int /\ w * (q - r) = w * q - w * r
  OBVIOUS
<1>5. PICK s \in 0..(w - 1) : s = x % w
  BY Euclid
<1>6. PICK u \in Int, v \in Int : u = w * q /\ v = w * r
  BY <1>4
<1>7. i - j = u - v
  BY <1>1, <1>2, <1>3, <1>5, <1>6
<1>8. PICK d \in Int : d = q - r
  OBVIOUS
<1>9. i - j = w * d
  BY <1>4, <1>6, <1>7, <1>8
<1>10. (d > 0 => w * d >= w) /\ (d < 0 => w * d <= -w)
  OBVIOUS
<1>11. d = 0
  BY <1>9, <1>10
<1>. QED  BY <1>9, <1>11

\* The counters of pipe.c, which wrap around at WORD.
LEMMA Advance ==
  ASSUME NEW n \in 0..(WORD - 1), NEW k \in 0..WORD
  PROVE  (n + k) % WORD = IF n + k < WORD THEN n + k ELSE n + k - WORD
BY PipeAssumption

LEMMA Distance ==
  ASSUME NEW r \in 0..(WORD - 1), NEW n \in 0..(WORD - 1)
  PROVE  (n - r) % WORD = IF n >= r THEN n - r ELSE n - r + WORD
BY PipeAssumption

\* The number of bytes and the two tests of the loops.
LEMMA Counters ==
  ASSUME TypeOK
  PROVE  /\ Count \in 0..PIPESIZE
         /\ Count = 0 <=> nread = nwrite
         /\ Count = PIPESIZE <=> Full(nwrite)
         /\ \A k \in 0..(PIPESIZE - Count) :
              /\ (nwrite + k) % WORD \in 0..(WORD - 1)
              /\ (((nwrite + k) % WORD) - nread) % WORD = Count + k
              /\ Full((nwrite + k) % WORD) <=> Count + k = PIPESIZE
         /\ \A k \in 0..Count :
              /\ (nread + k) % WORD \in 0..(WORD - 1)
              /\ (nwrite - ((nread + k) % WORD)) % WORD = Count - k
              /\ (nread + k) % WORD = nwrite <=> k = Count
<1>. DEFINE r == nread
            n == nwrite
<1>1. r \in 0..(WORD - 1) /\ n \in 0..(WORD - 1)
  BY DEF TypeOK
<1>2. Count = IF n >= r THEN n - r ELSE n - r + WORD
  BY <1>1, Distance DEF Count
<1>3. Count \in 0..PIPESIZE
  BY <1>1, <1>2, PipeAssumption DEF TypeOK
<1>4. (r + PIPESIZE) % WORD = IF r + PIPESIZE < WORD THEN r + PIPESIZE ELSE r + PIPESIZE - WORD
  BY <1>1, Advance, PipeAssumption
<1>5. ASSUME NEW k \in 0..(PIPESIZE - Count)
      PROVE  /\ (n + k) % WORD \in 0..(WORD - 1)
             /\ (((n + k) % WORD) - r) % WORD = Count + k
             /\ Full((n + k) % WORD) <=> Count + k = PIPESIZE
  <2>1. (n + k) % WORD = IF n + k < WORD THEN n + k ELSE n + k - WORD
    BY <1>1, <1>3, Advance, PipeAssumption
  <2>. DEFINE m == (n + k) % WORD
  <2>2. m \in 0..(WORD - 1)
    BY <1>1, <1>3, <2>1, PipeAssumption
  <2>3. (m - r) % WORD = IF m >= r THEN m - r ELSE m - r + WORD
    <3>. HIDE DEF m
    <3>. QED  BY <1>1, <2>2, Distance
  <2>4. (m - r) % WORD = Count + k
    BY <1>1, <1>2, <1>3, <2>1, <2>3, PipeAssumption
  <2>5. Full(m) <=> Count + k = PIPESIZE
    BY <1>1, <1>2, <1>3, <1>4, <2>1, PipeAssumption DEF Full
  <2>. QED  BY <2>2, <2>4, <2>5
<1>6. ASSUME NEW k \in 0..Count
      PROVE  /\ (r + k) % WORD \in 0..(WORD - 1)
             /\ (n - ((r + k) % WORD)) % WORD = Count - k
             /\ (r + k) % WORD = n <=> k = Count
  <2>1. (r + k) % WORD = IF r + k < WORD THEN r + k ELSE r + k - WORD
    BY <1>1, <1>3, Advance, PipeAssumption
  <2>. DEFINE m == (r + k) % WORD
  <2>2. m \in 0..(WORD - 1)
    BY <1>1, <1>3, <2>1, PipeAssumption
  <2>3. (n - m) % WORD = IF n >= m THEN n - m ELSE n - m + WORD
    <3>. HIDE DEF m
    <3>. QED  BY <1>1, <2>2, Distance
  <2>4. (n - m) % WORD = Count - k
    BY <1>1, <1>2, <1>3, <2>1, <2>3, PipeAssumption
  <2>5. m = n <=> k = Count
    BY <1>1, <1>2, <1>3, <2>1, PipeAssumption
  <2>. QED  BY <2>2, <2>4, <2>5
<1>7. Count = 0 <=> r = n
  BY <1>1, <1>2, PipeAssumption
<1>8. Count = PIPESIZE <=> Full(n)
  BY <1>1, <1>2, <1>3, <1>4, PipeAssumption DEF Full
<1>. QED  BY <1>3, <1>5, <1>6, <1>7, <1>8

\* WORD is a multiple of PIPESIZE.
LEMMA Around ==
  ASSUME NEW a \in Int
  PROVE  (a - WORD) % PIPESIZE = a % PIPESIZE
<1>1. PICK b \in Int : b = a - WORD
  BY PipeAssumption
<1>2. (b + WORD) % PIPESIZE = b % PIPESIZE
  <2>1. PIPESIZE \in Nat \ {0} /\ WORD \in Int /\ WORD % PIPESIZE = 0
    BY PipeAssumption
  <2>. QED  BY <2>1, Shift
<1>3. b + WORD = a
  BY <1>1, PipeAssumption
<1>. QED  BY <1>1, <1>2, <1>3

\* Where the loops put and find the bytes.
LEMMA Places ==
  ASSUME TypeOK, NEW k \in 0..PIPESIZE
  PROVE  /\ ((nread + k) % WORD) % PIPESIZE = (nread + k) % PIPESIZE
         /\ ((nwrite + k) % WORD) % PIPESIZE = (nread + Count + k) % PIPESIZE
         /\ (nread + k) % PIPESIZE \in 0..(PIPESIZE - 1)
<1>1. nread \in 0..(WORD - 1) /\ nwrite \in 0..(WORD - 1) /\ k \in 0..WORD /\ Count \in 0..PIPESIZE
  BY Counters, PipeAssumption DEF TypeOK
<1>2. ASSUME NEW n \in 0..(WORD - 1) PROVE ((n + k) % WORD) % PIPESIZE = (n + k) % PIPESIZE
  <2>1. PICK a \in Int : a = n + k
    BY <1>1
  <2>2. (a - WORD) % PIPESIZE = a % PIPESIZE
    BY Around
  <2>3. a % WORD = a \/ a % WORD = a - WORD
    <3>1. (n + k) % WORD = IF n + k < WORD THEN n + k ELSE n + k - WORD
      BY <1>1, Advance
    <3>. QED  BY <1>1, <2>1, <3>1, PipeAssumption
  <2>4. (a % WORD) % PIPESIZE = a % PIPESIZE
    <3>1. CASE a % WORD = a
      BY <3>1
    <3>2. CASE a % WORD = a - WORD
      BY <2>2, <3>2
    <3>. QED  BY <2>3, <3>1, <3>2
  <2>. QED  BY <2>1, <2>4
<1>3. (nwrite + k) % PIPESIZE = (nread + Count + k) % PIPESIZE
  <2>1. PICK a \in Int : a = nread + Count + k
    BY <1>1
  <2>2. nwrite + k = a \/ nwrite + k = a - WORD
    <3>1. Count = IF nwrite >= nread THEN nwrite - nread ELSE nwrite - nread + WORD
      BY <1>1, Distance DEF Count
    <3>. QED  BY <1>1, <2>1, <3>1, PipeAssumption
  <2>3. CASE nwrite + k = a
    BY <2>1, <2>3
  <2>4. CASE nwrite + k = a - WORD
    BY <2>1, <2>4, Around
  <2>. QED  BY <2>2, <2>3, <2>4
<1>4. (nread + k) % PIPESIZE \in 0..(PIPESIZE - 1)
  <2>1. nread + k \in Int
    BY <1>1
  <2>. QED  BY <2>1, Euclid, PipeAssumption
<1>. QED  BY <1>1, <1>2, <1>3, <1>4

\* The loop of pipewrite() puts as many bytes as there are and as fit.
LEMMA PutIs ==
  ASSUME TypeOK, NEW p \in Proc, Len(todo[p]) \in Nat
  PROVE  Put(p) = IF Len(todo[p]) <= PIPESIZE - Count THEN Len(todo[p]) ELSE PIPESIZE - Count
<1>. DEFINE n == Len(todo[p])
            Q(k) == /\ k = n \/ Full((nwrite + k) % WORD)
                    /\ \A i \in 0..(k - 1) : ~Full((nwrite + i) % WORD)
            m == IF n <= PIPESIZE - Count THEN n ELSE PIPESIZE - Count
<1>1. Count \in 0..PIPESIZE /\ PIPESIZE \in Nat
  BY Counters, PipeAssumption
<1>2. m \in 0..n /\ m \in 0..(PIPESIZE - Count)
  BY <1>1
<1>3. \A i \in 0..(PIPESIZE - Count) : Full((nwrite + i) % WORD) <=> Count + i = PIPESIZE
  BY Counters
<1>4. Q(m)
  <2>1. m = n \/ Full((nwrite + m) % WORD)
    BY <1>1, <1>2, <1>3
  <2>2. ASSUME NEW i \in 0..(m - 1) PROVE ~Full((nwrite + i) % WORD)
    BY <1>1, <1>2, <1>3
  <2>. QED  BY <2>1, <2>2
<1>5. ASSUME NEW k \in 0..n, Q(k) PROVE k = m
  <2>1. ~(k < m)
    BY <1>1, <1>2, <1>3, <1>5
  <2>2. ~(m < k)
    <3>1. SUFFICES ASSUME m < k PROVE FALSE
      OBVIOUS
    <3>2. m \in 0..(k - 1) /\ m = PIPESIZE - Count /\ Count + m = PIPESIZE
      BY <1>1, <1>2, <3>1
    <3>3. Full((nwrite + m) % WORD)
      BY <1>2, <1>3, <3>2
    <3>4. ~Full((nwrite + m) % WORD)
      BY <1>5, <3>2
    <3>. QED  BY <3>3, <3>4
  <2>. QED  BY <1>1, <1>2, <2>1, <2>2
<1>. HIDE DEF m
<1>6. (CHOOSE k \in 0..n : Q(k)) = m
  BY <1>2, <1>4, <1>5
<1>7. Put(p) = CHOOSE k \in 0..n : Q(k)
  BY DEF Put
<1>. QED  BY <1>6, <1>7 DEF m

\* The loop of piperead() takes as many as are wanted and there.
LEMMA TakenIs ==
  ASSUME TypeOK, NEW p \in Proc
  PROVE  Taken(p) = IF want[p] <= Count THEN want[p] ELSE Count
<1>. DEFINE n == want[p]
            Q(k) == /\ k = n \/ (nread + k) % WORD = nwrite
                    /\ \A i \in 0..(k - 1) : (nread + i) % WORD # nwrite
            m == IF n <= Count THEN n ELSE Count
<1>1. Count \in 0..PIPESIZE /\ PIPESIZE \in Nat /\ n \in Nat
  BY Counters, PipeAssumption DEF TypeOK
<1>2. m \in 0..n /\ m \in 0..Count
  BY <1>1
<1>3. \A i \in 0..Count : (nread + i) % WORD = nwrite <=> i = Count
  BY Counters
<1>4. Q(m)
  <2>1. m = n \/ (nread + m) % WORD = nwrite
    BY <1>1, <1>2, <1>3
  <2>2. ASSUME NEW i \in 0..(m - 1) PROVE (nread + i) % WORD # nwrite
    BY <1>1, <1>2, <1>3
  <2>. QED  BY <2>1, <2>2
<1>5. ASSUME NEW k \in 0..n, Q(k) PROVE k = m
  <2>1. ~(k < m)
    BY <1>1, <1>2, <1>3, <1>5
  <2>2. ~(m < k)
    <3>1. SUFFICES ASSUME m < k PROVE FALSE
      OBVIOUS
    <3>2. m \in 0..(k - 1) /\ m = Count
      BY <1>1, <1>2, <3>1
    <3>. QED  BY <1>1, <1>3, <1>5, <3>2
  <2>. QED  BY <1>1, <1>2, <2>1, <2>2
<1>. HIDE DEF m
<1>6. (CHOOSE k \in 0..n : Q(k)) = m
  BY <1>2, <1>4, <1>5
<1>7. Taken(p) = CHOOSE k \in 0..n : Q(k)
  BY DEF Taken
<1>. QED  BY <1>6, <1>7 DEF m

\* The bytes go behind those that are in the ring, which stay as they are.
LEMMA FilledIs ==
  ASSUME TypeOK, NEW s \in Seq(Byte), NEW k \in 0..(PIPESIZE - Count), k <= Len(s)
  PROVE  /\ Filled(s, k) \in [0..(PIPESIZE - 1) -> Byte]
         /\ \A i \in 0..(Count - 1) :
              Filled(s, k)[(nread + i) % PIPESIZE] = data[(nread + i) % PIPESIZE]
         /\ \A i \in 0..(k - 1) : Filled(s, k)[(nread + Count + i) % PIPESIZE] = s[1 + i]
<1>. DEFINE I(j) == {i \in 0..(k - 1) : ((nwrite + i) % WORD) % PIPESIZE = j}
            last(j) == CHOOSE i \in I(j) : \A m \in I(j) : m <= i
            J == 0..(PIPESIZE - 1)
<1>1. /\ Count \in 0..PIPESIZE /\ PIPESIZE \in Nat \ {0} /\ nread \in Nat
      /\ k \in Nat /\ Count + k <= PIPESIZE
  BY Counters, PipeAssumption DEF TypeOK
<1>2. Filled(s, k) = [j \in J |-> IF I(j) = {} THEN data[j] ELSE s[1 + last(j)]]
  BY DEF Filled
<1>3. \A j : I(j) = {i \in 0..(k - 1) : (nread + (Count + i)) % PIPESIZE = j}
  <2>1. ASSUME NEW i \in 0..(k - 1)
        PROVE  ((nwrite + i) % WORD) % PIPESIZE = (nread + (Count + i)) % PIPESIZE
    <3>1. i \in 0..PIPESIZE /\ nread + Count + i = nread + (Count + i)
      BY <1>1
    <3>. QED  BY <3>1, Places
  <2>. QED  BY <2>1
<1>. HIDE DEF I
<1>4. ASSUME NEW j, NEW i \in I(j) PROVE I(j) = {i} /\ i \in 0..(k - 1)
  <2>1. i \in 0..(k - 1) /\ (nread + (Count + i)) % PIPESIZE = j
    BY <1>3, <1>4
  <2>2. ASSUME NEW m \in I(j) PROVE m = i
    <3>1. m \in 0..(k - 1) /\ (nread + (Count + m)) % PIPESIZE = j
      BY <1>3, <2>2
    <3>2. Count + m \in 0..(PIPESIZE - 1) /\ Count + i \in 0..(PIPESIZE - 1) /\ nread \in Int
      BY <1>1, <2>1, <3>1
    <3>3. Count + m = Count + i
      BY <1>1, <2>1, <3>1, <3>2, Apart
    <3>. QED  BY <1>1, <2>1, <3>1, <3>3
  <2>. QED  BY <1>4, <2>1, <2>2
<1>5. ASSUME NEW j, NEW i \in I(j) PROVE last(j) = i
  <2>1. I(j) = {i} /\ i <= i
    BY <1>1, <1>4, <1>5
  <2>. QED  BY <2>1
<1>. HIDE DEF last
<1>6. ASSUME NEW j \in J PROVE Filled(s, k)[j] \in Byte
  <2>1. CASE I(j) = {}
    BY <1>2, <1>6, <2>1 DEF TypeOK
  <2>2. CASE I(j) # {}
    <3>1. PICK i \in I(j) : TRUE
      BY <2>2
    <3>2. last(j) = i /\ i \in 0..(k - 1)
      BY <1>4, <1>5, <3>1
    <3>3. 1 + i \in 1..Len(s)
      BY <1>1, <3>2
    <3>. QED  BY <1>2, <1>6, <2>2, <3>2, <3>3
  <2>. QED  BY <2>1, <2>2
<1>7. ASSUME NEW i \in 0..(Count - 1)
      PROVE  Filled(s, k)[(nread + i) % PIPESIZE] = data[(nread + i) % PIPESIZE]
  <2>1. PICK j \in J : j = (nread + i) % PIPESIZE
    <3>1. i \in 0..PIPESIZE
      BY <1>1
    <3>. QED  BY <3>1, Places
  <2>2. I(j) = {}
    <3>1. SUFFICES ASSUME NEW m \in I(j) PROVE FALSE
      OBVIOUS
    <3>2. m \in 0..(k - 1) /\ (nread + (Count + m)) % PIPESIZE = j
      BY <1>3, <3>1
    <3>3. Count + m \in 0..(PIPESIZE - 1) /\ i \in 0..(PIPESIZE - 1) /\ nread \in Int
      BY <1>1, <3>2
    <3>4. Count + m = i
      BY <1>1, <2>1, <3>2, <3>3, Apart
    <3>. QED  BY <1>1, <3>2, <3>4
  <2>. QED  BY <1>2, <2>1, <2>2
<1>8. ASSUME NEW i \in 0..(k - 1) PROVE Filled(s, k)[(nread + Count + i) % PIPESIZE] = s[1 + i]
  <2>1. PICK j \in J : j = (nread + (Count + i)) % PIPESIZE
    <3>1. Count + i \in 0..PIPESIZE
      BY <1>1
    <3>. QED  BY <3>1, Places
  <2>2. i \in I(j)
    BY <1>3, <2>1
  <2>3. last(j) = i /\ I(j) # {}
    BY <1>5, <2>2
  <2>4. nread + Count + i = nread + (Count + i)
    BY <1>1
  <2>. QED  BY <1>2, <2>1, <2>3, <2>4
<1>9. Filled(s, k) \in [J -> Byte]
  BY <1>2, <1>6
<1>. QED  BY <1>7, <1>8, <1>9

LEMMA NoMore == 0 \in 0..MaxRead
BY PipeAssumption

\* A request and what is left of it are sequences of bytes.
LEMMA RequestIs ==
  ASSUME NEW s \in Requests
  PROVE  /\ s \in Seq(Byte) /\ s # <<>> /\ Len(s) \in Nat \ {0}
         /\ \A k \in 0..(Len(s) - 1) : SubSeq(s, k + 1, Len(s)) \in Requests
<1>1. PICK n \in 1..MaxWrite : s \in [1..n -> Byte]
  BY DEF Requests
<1>2. s \in Seq(Byte) /\ Len(s) = n
  BY <1>1, PipeAssumption
<1>3. ASSUME NEW k \in 0..(n - 1) PROVE SubSeq(s, k + 1, n) \in Requests
  <2>1. n - k \in 1..MaxWrite
    BY PipeAssumption
  <2>2. SubSeq(s, k + 1, n) \in [1..(n - k) -> Byte]
    <3>1. k + 1 \in Int /\ n \in Int /\ \A i \in (k + 1)..n : s[i] \in Byte
      BY <1>1, PipeAssumption
    <3>2. SubSeq(s, k + 1, n) \in Seq(Byte) /\ Len(SubSeq(s, k + 1, n)) = n - k
      BY <1>1, <3>1, PipeAssumption, SubSeqProperties
    <3>. QED  BY <3>2, LenProperties
  <2>. QED  BY <2>1, <2>2 DEF Requests
<1>. QED  BY <1>2, <1>3, PipeAssumption

\* The step of pipewrite(): the k bytes that it puts, and who is woken.
Blocked(p, k) == k < Len(todo[p]) /\ ~GivesUp(p)
Failed(p, k) == k < Len(todo[p]) /\ GivesUp(p)
Written(p, k) ==
  /\ k <= Len(todo[p]) /\ todo[p] \in Requests
  /\ k < Len(todo[p]) => Count + k = PIPESIZE
  /\ data' = Filled(todo[p], k) /\ data' \in [0..(PIPESIZE - 1) -> Byte]
  /\ nwrite' = (nwrite + k) % WORD /\ nwrite' \in 0..(WORD - 1)
  /\ Count' = Count + k /\ (Full(nwrite)' <=> Count + k = PIPESIZE)
  /\ at' = [r \in Proc |->
              IF r = p THEN IF Blocked(p, k) THEN "full" ELSE "user"
              ELSE IF at[r] = "rsleep" /\ ~Failed(p, k) THEN "read" ELSE at[r]]
  /\ todo' = [todo EXCEPT ![p] =
                IF Blocked(p, k) THEN SubSeq(todo[p], k + 1, Len(todo[p])) ELSE <<>>]
  /\ res' = [res EXCEPT ![p] =
               IF Blocked(p, k) THEN res[p] ELSE IF Failed(p, k) THEN "err" ELSE "ok"]

LEMMA WriteStep ==
  ASSUME IInv, NEW p \in Proc, pipewrite(p)
  PROVE  /\ at[p] = "write" /\ LockFree
         /\ UNCHANGED <<nread, endVars, killed, want, got>>
         /\ \E k \in 0..(PIPESIZE - Count) : Written(p, k)
<1>1. todo[p] \in Requests
  BY DEF IInv, TypeOK, Busy, Writing, pipewrite
<1>2. PICK n \in Nat \ {0} : n = Len(todo[p])
  BY <1>1, RequestIs
<1>3. Count \in 0..PIPESIZE /\ PIPESIZE \in Nat
  BY Counters, PipeAssumption DEF IInv
<1>4. PICK k \in 0..(PIPESIZE - Count) :
        k = Put(p) /\ k <= n /\ (k < n => Count + k = PIPESIZE)
  BY <1>2, <1>3, PutIs DEF IInv
<1>5. data' = Filled(todo[p], k) /\ nwrite' = (nwrite + k) % WORD /\ nread' = nread
  BY <1>4 DEF pipewrite
<1>6. data' \in [0..(PIPESIZE - 1) -> Byte]
  BY <1>1, <1>2, <1>4, <1>5, RequestIs, FilledIs DEF IInv
<1>7. /\ nwrite' \in 0..(WORD - 1) /\ Count' = Count + k
      /\ Full(nwrite)' <=> Count + k = PIPESIZE
  BY <1>4, <1>5, Counters DEF IInv, Count, Full
<1>8. /\ at' = [r \in Proc |->
                  IF r = p THEN IF Blocked(p, k) THEN "full" ELSE "user"
                  ELSE IF at[r] = "rsleep" /\ ~Failed(p, k) THEN "read" ELSE at[r]]
      /\ todo' = [todo EXCEPT ![p] =
                    IF Blocked(p, k) THEN SubSeq(todo[p], k + 1, Len(todo[p])) ELSE <<>>]
      /\ res' = [res EXCEPT ![p] =
                   IF Blocked(p, k) THEN res[p] ELSE IF Failed(p, k) THEN "err" ELSE "ok"]
  <2>1. at \in [Proc -> Place] /\ res = [res EXCEPT ![p] = res[p]]
    BY DEF IInv, TypeOK
  <2>2. CASE k = n
    <3>1. /\ at' = WakeReaders([at EXCEPT ![p] = "user"])
          /\ todo' = [todo EXCEPT ![p] = <<>>] /\ res' = [res EXCEPT ![p] = "ok"]
      <4>1. Put(p) = Len(todo[p]) /\ ~(Put(p) < Len(todo[p]))
        BY <1>2, <1>4, <2>2
      <4>. QED  BY <4>1 DEF pipewrite
    <3>2. ~Blocked(p, k) /\ ~Failed(p, k)
      BY <1>2, <2>2 DEF Blocked, Failed
    <3>. QED  BY <2>1, <3>1, <3>2 DEF WakeReaders
  <2>3. CASE k < n /\ GivesUp(p)
    BY <1>2, <1>4, <2>1, <2>3 DEF pipewrite, Blocked, Failed
  <2>4. CASE k < n /\ ~GivesUp(p)
    BY <1>2, <1>4, <2>1, <2>4 DEF pipewrite, WakeReaders, Blocked, Failed
  <2>. QED  BY <1>2, <1>4, <2>2, <2>3, <2>4
<1>9. Written(p, k)
  BY <1>1, <1>2, <1>4, <1>5, <1>6, <1>7, <1>8 DEF Written
<1>. QED  BY <1>9 DEF pipewrite

\* The step of piperead() that returns: the k bytes that it takes.
Returned(p, k) ==
  /\ k = IF want[p] <= Count THEN want[p] ELSE Count
  /\ got' = [got EXCEPT ![p] = [i \in 1..k |-> data[(nread + i - 1) % PIPESIZE]]]
  /\ got' \in [Proc -> Seq(Byte)]
  /\ nread' = (nread + k) % WORD /\ nread' \in 0..(WORD - 1)
  /\ Count' = Count - k /\ (Count' = 0 <=> nread' = nwrite)
  /\ at' = [r \in Proc |-> IF r = p THEN "user" ELSE IF at[r] = "wsleep" THEN "write" ELSE at[r]]
  /\ want' = [want EXCEPT ![p] = 0]
  /\ res' = [res EXCEPT ![p] = "ok"]

LEMMA ReadStep ==
  ASSUME IInv, NEW p \in Proc, piperead(p), ~MustWait
  PROVE  /\ at[p] = "read" /\ LockFree
         /\ UNCHANGED <<data, nwrite, endVars, killed, todo>>
         /\ \E k \in 0..Count : Returned(p, k)
<1>1. Count \in 0..PIPESIZE /\ PIPESIZE \in Nat \ {0} /\ want[p] \in Nat /\ nread \in Nat
  BY Counters, PipeAssumption DEF IInv, TypeOK
<1>2. PICK k \in 0..Count : k = Taken(p) /\ k = IF want[p] <= Count THEN want[p] ELSE Count
  BY <1>1, TakenIs DEF IInv
<1>3. /\ got' = [got EXCEPT ![p] = [i \in 1..k |-> data[((nread + i - 1) % WORD) % PIPESIZE]]]
      /\ nread' = (nread + k) % WORD /\ nwrite' = nwrite
      /\ at' = WakeWriters([at EXCEPT ![p] = "user"])
      /\ want' = [want EXCEPT ![p] = 0] /\ res' = [res EXCEPT ![p] = "ok"]
  BY <1>2 DEF piperead
<1>4. ASSUME NEW i \in 1..k
      PROVE  /\ ((nread + i - 1) % WORD) % PIPESIZE = (nread + i - 1) % PIPESIZE
             /\ data[(nread + i - 1) % PIPESIZE] \in Byte
  <2>1. i - 1 \in 0..PIPESIZE /\ nread + i - 1 = nread + (i - 1)
    BY <1>1
  <2>2. /\ ((nread + (i - 1)) % WORD) % PIPESIZE = (nread + (i - 1)) % PIPESIZE
        /\ (nread + (i - 1)) % PIPESIZE \in 0..(PIPESIZE - 1)
    BY <2>1, Places DEF IInv
  <2>. QED  BY <2>1, <2>2 DEF IInv, TypeOK
<1>5. [i \in 1..k |-> data[((nread + i - 1) % WORD) % PIPESIZE]]
        = [i \in 1..k |-> data[(nread + i - 1) % PIPESIZE]]
  BY <1>4
<1>6. [i \in 1..k |-> data[(nread + i - 1) % PIPESIZE]] \in Seq(Byte)
  <2>1. PICK f \in [1..k -> Byte] : f = [i \in 1..k |-> data[(nread + i - 1) % PIPESIZE]]
    BY <1>4
  <2>2. k \in Nat
    BY <1>1
  <2>. QED  BY <2>1, <2>2, SeqDef
<1>7. got' \in [Proc -> Seq(Byte)]
  BY <1>3, <1>5, <1>6 DEF IInv, TypeOK
<1>8. nread' \in 0..(WORD - 1) /\ Count' = Count - k /\ (Count' = 0 <=> nread' = nwrite)
  BY <1>1, <1>3, Counters DEF IInv, Count
<1>9. at' = [r \in Proc |-> IF r = p THEN "user" ELSE IF at[r] = "wsleep" THEN "write" ELSE at[r]]
  BY <1>3 DEF WakeWriters, IInv, TypeOK
<1>10. Returned(p, k)
  BY <1>2, <1>3, <1>5, <1>7, <1>8, <1>9 DEF Returned
<1>. QED  BY <1>10 DEF piperead

-----------------------------------------------------------------------------
\* The child has the descriptors of its parent, and no call.
LEMMA ForkInv ==
  ASSUME IInv, NEW p \in Proc, NEW r \in Proc, Fork(p, r)
  PROVE  IInv'
<1>. USE DEF IInv, Fork, pipeVars, endVars, callVars
<1>1. TypeOK'
  BY DEF TypeOK, Place, Count
<1>2. Descriptors'
  BY DEF Ends, Descriptors, Writing, Reading, TypeOK
<1>3. OneCloser'
  BY DEF Ends, OneCloser, TypeOK
<1>4. OpenWhile'
  BY DEF Ends, OpenWhile, OneCloser, Descriptors, TypeOK
<1>5. Busy'
  BY DEF Busy, Writing, Reading, TypeOK
<1>6. EmptyWait'
  BY DEF EmptyWait, TypeOK
<1>7. FullWait'
  BY DEF FullWait, Full, TypeOK
<1>. QED  BY <1>1, <1>2, <1>3, <1>4, <1>5, <1>6, <1>7 DEF Ends

\* kill() sends a sleeper back to the test of its loop.
LEMMA KillInv ==
  ASSUME IInv, NEW p \in Proc, Kill(p)
  PROVE  IInv'
<1>. USE DEF IInv, Kill, Roused, pipeVars, endVars, callVars
<1>1. TypeOK'
  BY DEF TypeOK, Place, Count
<1>2. Descriptors'
  BY DEF Ends, Descriptors, Writing, Reading, TypeOK
<1>3. OneCloser'
  BY DEF Ends, OneCloser, TypeOK
<1>4. OpenWhile'
  BY DEF Ends, OpenWhile, OneCloser, Descriptors, TypeOK
<1>5. Busy'
  BY DEF Busy, Writing, Reading, TypeOK
<1>6. EmptyWait'
  BY DEF EmptyWait, TypeOK
<1>7. FullWait'
  BY DEF FullWait, Full, TypeOK
<1>. QED  BY <1>1, <1>2, <1>3, <1>4, <1>5, <1>6, <1>7 DEF Ends

\* A write() starts.
LEMMA WriteEnterInv ==
  ASSUME IInv, NEW p \in Proc, NEW s \in Requests, WriteEnter(p, s)
  PROVE  IInv'
<1>. USE DEF IInv, WriteEnter, pipeVars, endVars, callVars
<1>1. TypeOK'
  BY DEF TypeOK, Place, Count
<1>2. Descriptors'
  BY DEF Ends, Descriptors, Writing, Reading, TypeOK
<1>3. OneCloser'
  BY DEF Ends, OneCloser, TypeOK
<1>4. OpenWhile'
  BY DEF Ends, OpenWhile, OneCloser, Descriptors, TypeOK
<1>5. Busy'
  BY RequestIs DEF Busy, Writing, Reading, TypeOK
<1>6. EmptyWait'
  BY DEF EmptyWait, TypeOK
<1>7. FullWait'
  BY DEF FullWait, Full, TypeOK
<1>. QED  BY <1>1, <1>2, <1>3, <1>4, <1>5, <1>6, <1>7 DEF Ends

\* A read() starts.
LEMMA ReadEnterInv ==
  ASSUME IInv, NEW p \in Proc, NEW n \in 1..MaxRead, ReadEnter(p, n)
  PROVE  IInv'
<1>. USE DEF IInv, ReadEnter, pipeVars, endVars, callVars
<1>1. TypeOK'
  BY DEF TypeOK, Place, Count
<1>2. Descriptors'
  BY DEF Ends, Descriptors, Writing, Reading, TypeOK
<1>3. OneCloser'
  BY DEF Ends, OneCloser, TypeOK
<1>4. OpenWhile'
  BY DEF Ends, OpenWhile, OneCloser, Descriptors, TypeOK
<1>5. Busy'
  BY DEF Busy, Writing, Reading, TypeOK
<1>6. EmptyWait'
  BY DEF EmptyWait, TypeOK
<1>7. FullWait'
  BY DEF FullWait, Full, TypeOK
<1>. QED  BY <1>1, <1>2, <1>3, <1>4, <1>5, <1>6, <1>7 DEF Ends

\* pipewrite() fills the ring, and wakes the readers when it has put something.
LEMMA pipewriteInv ==
  ASSUME IInv, NEW p \in Proc, pipewrite(p)
  PROVE  IInv'
<1>. USE DEF IInv, pipewrite, pipeVars, endVars, callVars
<1>a. at[p] = "write" /\ LockFree /\ UNCHANGED <<nread, endVars, killed, want, got>>
  BY WriteStep
<1>b. PICK k \in 0..(PIPESIZE - Count) : Written(p, k)
  BY WriteStep
<1>c. Count \in 0..PIPESIZE /\ PIPESIZE \in Nat
  BY Counters, PipeAssumption
<1>. HIDE DEF pipewrite
<1>1. TypeOK'
  <2>1. todo' \in [Proc -> {<<>>} \cup Requests]
    <3>1. Blocked(p, k) => SubSeq(todo[p], k + 1, Len(todo[p])) \in Requests
      <4>1. Blocked(p, k) => k \in 0..(Len(todo[p]) - 1)
        BY <1>b, <1>c, RequestIs DEF Blocked, Written
      <4>. QED  BY <1>b, <4>1, RequestIs DEF Written
    <3>. QED  BY <1>b, <3>1 DEF Written, TypeOK
  <2>2. at' \in [Proc -> Place] /\ res' \in [Proc -> {"busy", "ok", "err"}]
    BY <1>b DEF Written, TypeOK, Place
  <2>3. nwrite' \in 0..(WORD - 1) /\ Count' <= PIPESIZE /\ data' \in [0..(PIPESIZE - 1) -> Byte]
    BY <1>b, <1>c DEF Written
  <2>. QED  BY <1>a, <2>1, <2>2, <2>3 DEF TypeOK
<1>2. Descriptors'
  BY <1>a, <1>b DEF Written, Ends, Descriptors, Writing, Reading, TypeOK
<1>3. OneCloser'
  BY <1>a, <1>b DEF Written, Ends, OneCloser, TypeOK
<1>4. OpenWhile'
  BY <1>a, <1>b DEF Written, Ends, OpenWhile, TypeOK
<1>5. Busy'
  <2>1. Blocked(p, k) => SubSeq(todo[p], k + 1, Len(todo[p])) # <<>>
    <3>1. Blocked(p, k) => k \in 0..(Len(todo[p]) - 1)
      BY <1>b, <1>c, RequestIs DEF Blocked, Written
    <3>. QED  BY <1>b, <3>1, RequestIs DEF Written
  <2>. QED  BY <1>a, <1>b, <2>1 DEF Written, Busy, Writing, Reading, TypeOK
<1>6. EmptyWait'
  <2>. SUFFICES ASSUME \A r \in Proc : ~killed'[r], NEW r \in Proc,
                       at'[r] \in {"empty", "rsleep"}
                PROVE  FALSE
    BY DEF EmptyWait
  <2>1. r # p /\ at[r] = "rsleep" /\ Failed(p, k)
    BY <1>a, <1>b DEF Written, LockFree
  <2>2. ~readopen
    BY <1>a, <2>1 DEF Failed, GivesUp
  <2>. QED  BY <2>1, <2>2 DEF Ends, Descriptors, OpenWhile, Reading
<1>7. FullWait'
  <2>. SUFFICES ASSUME NEW r \in Proc, at'[r] \in {"full", "wsleep"}
                PROVE  Full(nwrite)' /\ readopen'
    BY DEF FullWait
  <2>1. CASE r = p
    BY <1>a, <1>b, <2>1 DEF Written, Blocked, GivesUp
  <2>2. CASE r # p
    <3>1. at[r] = "wsleep"
      BY <1>a, <1>b, <2>2 DEF Written, LockFree
    <3>2. Count = PIPESIZE /\ readopen
      BY <3>1, Counters DEF FullWait
    <3>. QED  BY <1>a, <1>b, <1>c, <3>2 DEF Written
  <2>. QED  BY <2>1, <2>2
<1>. QED  BY <1>1, <1>2, <1>3, <1>4, <1>5, <1>6, <1>7 DEF Ends

\* The writer sleeps: nobody had the lock since the ring was full.
LEMMA WriteSleepInv ==
  ASSUME IInv, NEW p \in Proc, WriteSleep(p)
  PROVE  IInv'
<1>. USE DEF IInv, WriteSleep, pipeVars, endVars, callVars
<1>1. TypeOK'
  BY DEF TypeOK, Place, Count
<1>2. Descriptors'
  BY DEF Ends, Descriptors, Writing, Reading, TypeOK
<1>3. OneCloser'
  BY DEF Ends, OneCloser, TypeOK
<1>4. OpenWhile'
  BY DEF Ends, OpenWhile, OneCloser, Descriptors, TypeOK
<1>5. Busy'
  BY DEF Busy, Writing, Reading, TypeOK
<1>6. EmptyWait'
  BY DEF EmptyWait, TypeOK
<1>7. FullWait'
  BY DEF FullWait, Full, TypeOK
<1>. QED  BY <1>1, <1>2, <1>3, <1>4, <1>5, <1>6, <1>7 DEF Ends

\* piperead() takes what is there, and wakes the writers.
LEMMA pipereadInv ==
  ASSUME IInv, NEW p \in Proc, piperead(p)
  PROVE  IInv'
<1>. USE DEF IInv, piperead, MustWait, pipeVars, endVars, callVars
<1>1. at[p] = "read" /\ LockFree
  BY DEF piperead
<1>2. CASE MustWait
  <2>1. /\ UNCHANGED <<pipeVars, endVars, killed, todo, got>>
        /\ \/ ~killed[p] /\ at' = [at EXCEPT ![p] = "empty"] /\ UNCHANGED <<want, res>>
           \/ /\ killed[p] /\ at' = [at EXCEPT ![p] = "user"]
              /\ want' = [want EXCEPT ![p] = 0] /\ res' = [res EXCEPT ![p] = "err"]
    BY <1>2 DEF piperead
  <2>. HIDE DEF piperead
  <2>2. TypeOK'
    <3>1. want' \in [Proc -> 0..MaxRead] /\ res' \in [Proc -> {"busy", "ok", "err"}]
      <4>1. "err" \in {"busy", "ok", "err"} /\ want \in [Proc -> 0..MaxRead] /\ res \in [Proc -> {"busy", "ok", "err"}]
        BY DEF TypeOK
      <4>. QED  BY <2>1, <4>1, NoMore
    <3>2. at' \in [Proc -> Place]
      BY <2>1 DEF TypeOK, Place
    <3>. QED  BY <2>1, <3>1, <3>2 DEF TypeOK, Count
  <2>3. Ends'
    BY <1>1, <2>1 DEF Ends, Descriptors, OneCloser, OpenWhile, Writing, Reading, TypeOK
  <2>4. Busy'
    BY <1>1, <2>1 DEF Busy, Writing, Reading, TypeOK
  <2>5. EmptyWait'
    BY <1>1, <1>2, <2>1 DEF EmptyWait, MustWait, TypeOK
  <2>6. FullWait'
    BY <1>1, <2>1 DEF FullWait, Full, TypeOK
  <2>. QED  BY <2>2, <2>3, <2>4, <2>5, <2>6
<1>3. CASE ~MustWait
  <2>1. UNCHANGED <<data, nwrite, endVars, killed, todo>>
    BY DEF piperead
  <2>2. PICK k \in 0..Count : Returned(p, k)
    BY <1>3, ReadStep
  <2>3. Count \in 0..PIPESIZE /\ PIPESIZE \in Nat \ {0} /\ want[p] \in Nat
    BY Counters, PipeAssumption DEF TypeOK
  <2>. HIDE DEF piperead
  <2>4. TypeOK'
    <3>1. Count' <= PIPESIZE /\ nread' \in 0..(WORD - 1) /\ got' \in [Proc -> Seq(Byte)]
      BY <2>2, <2>3 DEF Returned
    <3>2. want' \in [Proc -> 0..MaxRead] /\ res' \in [Proc -> {"busy", "ok", "err"}]
      BY <2>2, NoMore DEF Returned, TypeOK
    <3>3. at' \in [Proc -> Place]
      BY <2>2 DEF Returned, TypeOK, Place
    <3>. QED  BY <2>1, <3>1, <3>2, <3>3 DEF TypeOK
  <2>5. Ends'
    BY <1>1, <2>1, <2>2 DEF Returned, Ends, Descriptors, OneCloser, OpenWhile, Writing, Reading, TypeOK
  <2>6. Busy'
    BY <1>1, <2>1, <2>2 DEF Returned, Busy, Writing, Reading, TypeOK
  <2>7. EmptyWait'
    <3>. SUFFICES ASSUME \A r \in Proc : ~killed'[r], NEW r \in Proc,
                         at'[r] \in {"empty", "rsleep"}
                  PROVE  FALSE
      BY DEF EmptyWait
    <3>1. at[r] \in {"empty", "rsleep"}
      BY <2>2 DEF Returned
    <3>. QED  BY <1>3, <2>1, <3>1 DEF EmptyWait, MustWait
  <2>8. FullWait'
    BY <1>1, <2>2 DEF Returned, FullWait, LockFree
  <2>. QED  BY <2>4, <2>5, <2>6, <2>7, <2>8
<1>. QED  BY <1>2, <1>3

\* The reader sleeps: nobody had the lock since the ring was empty.
LEMMA ReadSleepInv ==
  ASSUME IInv, NEW p \in Proc, ReadSleep(p)
  PROVE  IInv'
<1>. USE DEF IInv, ReadSleep, pipeVars, endVars, callVars
<1>1. TypeOK'
  BY DEF TypeOK, Place, Count
<1>2. Descriptors'
  BY DEF Ends, Descriptors, Writing, Reading, TypeOK
<1>3. OneCloser'
  BY DEF Ends, OneCloser, TypeOK
<1>4. OpenWhile'
  BY DEF Ends, OpenWhile, OneCloser, Descriptors, TypeOK
<1>5. Busy'
  BY DEF Busy, Writing, Reading, TypeOK
<1>6. EmptyWait'
  BY DEF EmptyWait, TypeOK
<1>7. FullWait'
  BY DEF FullWait, Full, TypeOK
<1>. QED  BY <1>1, <1>2, <1>3, <1>4, <1>5, <1>6, <1>7 DEF Ends

\* The last reference of the read end goes on to close it.
LEMMA CloseReadInv ==
  ASSUME IInv, NEW p \in Proc, CloseRead(p)
  PROVE  IInv'
<1>. USE DEF IInv, CloseRead, LastRef, pipeVars, endVars, callVars
<1>1. TypeOK'
  BY DEF TypeOK, Place, Count
<1>2. Descriptors'
  BY DEF Ends, Descriptors, Writing, Reading, TypeOK
<1>3. OneCloser'
  BY DEF Ends, OneCloser, Descriptors, TypeOK
<1>4. OpenWhile'
  BY DEF Ends, OpenWhile, OneCloser, Descriptors, TypeOK
<1>5. Busy'
  BY DEF Busy, Writing, Reading, TypeOK
<1>6. EmptyWait'
  BY DEF EmptyWait, TypeOK
<1>7. FullWait'
  BY DEF FullWait, Full, TypeOK
<1>. QED  BY <1>1, <1>2, <1>3, <1>4, <1>5, <1>6, <1>7 DEF Ends

\* The last reference of the write end goes on to close it.
LEMMA CloseWriteInv ==
  ASSUME IInv, NEW p \in Proc, CloseWrite(p)
  PROVE  IInv'
<1>. USE DEF IInv, CloseWrite, LastRef, pipeVars, endVars, callVars
<1>1. TypeOK'
  BY DEF TypeOK, Place, Count
<1>2. Descriptors'
  BY DEF Ends, Descriptors, Writing, Reading, TypeOK
<1>3. OneCloser'
  BY DEF Ends, OneCloser, Descriptors, TypeOK
<1>4. OpenWhile'
  BY DEF Ends, OpenWhile, OneCloser, Descriptors, TypeOK
<1>5. Busy'
  BY DEF Busy, Writing, Reading, TypeOK
<1>6. EmptyWait'
  BY DEF EmptyWait, TypeOK
<1>7. FullWait'
  BY DEF FullWait, Full, TypeOK
<1>. QED  BY <1>1, <1>2, <1>3, <1>4, <1>5, <1>6, <1>7 DEF Ends

\* pipeclose() wakes those who wait for the other end.
LEMMA pipecloseInv ==
  ASSUME IInv, NEW p \in Proc, pipeclose(p)
  PROVE  IInv'
<1>. USE DEF IInv, pipeclose, BothClosed, WakeReaders, WakeWriters, pipeVars, endVars, callVars
<1>a. UNCHANGED <<pipeVars, rfd, wfd, killed, callVars>> /\ LockFree
  OBVIOUS
<1>b. \/ /\ at[p] = "wclose" /\ writeopen' = FALSE /\ readopen' = readopen
         /\ at' = [r \in Proc |-> IF r = p THEN "user" ELSE IF at[r] = "rsleep" THEN "read" ELSE at[r]]
      \/ /\ at[p] = "rclose" /\ readopen' = FALSE /\ writeopen' = writeopen
         /\ at' = [r \in Proc |-> IF r = p THEN "user" ELSE IF at[r] = "wsleep" THEN "write" ELSE at[r]]
  BY DEF TypeOK
<1>1. TypeOK'
  BY DEF TypeOK, Place, Count
<1>2. Descriptors'
  BY DEF Ends, Descriptors, Writing, Reading, TypeOK
<1>3. OneCloser'
  <2>1. at' \in [Proc -> Place] /\ \A r \in Proc : at'[r] \in {"rclose", "wclose"} => at'[r] = at[r]
    BY <1>1 DEF TypeOK
  <2>. QED  BY <2>1 DEF Ends, OneCloser, TypeOK
<1>4. OpenWhile'
  <2>1. freed' <=> ~readopen' /\ ~writeopen'
    BY <1>b DEF Ends, OpenWhile, TypeOK
  <2>2. readopen' <=> rfd' # {} \/ \E r \in Proc : at'[r] = "rclose"
    BY <1>a, <1>b DEF Ends, OpenWhile, OneCloser, Descriptors
  <2>3. writeopen' <=> wfd' # {} \/ \E r \in Proc : at'[r] = "wclose"
    BY <1>a, <1>b DEF Ends, OpenWhile, OneCloser, Descriptors
  <2>. QED  BY <2>1, <2>2, <2>3 DEF OpenWhile
<1>5. Busy'
  BY DEF Busy, Writing, Reading, TypeOK
<1>6. EmptyWait'
  BY <1>a, <1>b DEF EmptyWait, LockFree
<1>7. FullWait'
  BY <1>a, <1>b DEF FullWait, Full, LockFree
<1>. QED  BY <1>1, <1>2, <1>3, <1>4, <1>5, <1>6, <1>7 DEF Ends

-----------------------------------------------------------------------------
\* What pipealloc() leaves.
LEMMA InitInv == Init => IInv
<1>. SUFFICES ASSUME Init PROVE IInv
  OBVIOUS
<1>1. PICK p \in Proc : /\ rfd = {p} /\ wfd = {p}
                        /\ at = [r \in Proc |-> IF r = p THEN "user" ELSE "none"]
  BY DEF Init
<1>2. nread = 0 /\ nwrite = 0 /\ 0 \in 0..(WORD - 1) /\ Count = 0 /\ 0 <= PIPESIZE
  <2>1. nread \in 0..(WORD - 1) /\ nwrite \in 0..(WORD - 1) /\ nread = 0 /\ nwrite = 0
    BY PipeAssumption DEF Init
  <2>2. Count = IF nwrite >= nread THEN nwrite - nread ELSE nwrite - nread + WORD
    BY <2>1, Distance DEF Count
  <2>. QED  BY <2>1, <2>2, PipeAssumption
<1>3. TypeOK
  BY <1>1, <1>2, NoMore, EmptySeq DEF Init, TypeOK, Place
<1>4. Ends
  BY <1>1 DEF Init, Ends, Descriptors, OneCloser, OpenWhile, Writing, Reading
<1>5. Busy /\ EmptyWait /\ FullWait
  BY <1>1 DEF Init, Busy, Writing, Reading, EmptyWait, FullWait
<1>. QED  BY <1>3, <1>4, <1>5 DEF IInv

LEMMA StepInv ==
  ASSUME IInv, Next
  PROVE  IInv'
BY ForkInv, KillInv, WriteEnterInv, ReadEnterInv, pipewriteInv, WriteSleepInv, pipereadInv,
   ReadSleepInv, CloseReadInv, CloseWriteInv, pipecloseInv DEF Next

\* The inductive invariant holds in every state of the pipe.
THEOREM Invariance == Spec => []IInv
<1>1. IInv /\ UNCHANGED vars => IInv'
  BY DEF vars, IInv, TypeOK, Count, Ends, Descriptors, OneCloser, OpenWhile, Busy, Writing, Reading,
         EmptyWait, FullWait, Full
<1>. QED  BY <1>1, InitInv, StepInv, PTL DEF Spec

\* Whatever descriptors are copied and closed in whatever order, the page of the
\* pipe is freed exactly when nobody can use it, nobody is left asleep, and the
\* ring never has more than PIPESIZE bytes, also when its counters wrap around:
\* for any number of processes, any size of the ring, any requests.
THEOREM Safety == Spec => []PipeSafe
<1>1. ASSUME IInv PROVE FreedWhenUnused
  <2>1. ASSUME freed PROVE rfd = {} /\ wfd = {} /\ \A p \in Proc : at[p] \in {"none", "user"}
    <3>1. rfd = {} /\ wfd = {} /\ \A p \in Proc : at[p] # "rclose" /\ at[p] # "wclose"
      BY <1>1, <2>1 DEF IInv, Ends, OpenWhile
    <3>. QED  BY <1>1, <3>1 DEF IInv, Ends, Descriptors, Writing, Reading, TypeOK, Place
  <2>2. ASSUME rfd = {}, wfd = {}, \A p \in Proc : at[p] \in {"none", "user"} PROVE freed
    BY <1>1, <2>2 DEF IInv, Ends, OpenWhile
  <2>. QED  BY <2>1, <2>2 DEF FreedWhenUnused
<1>2. IInv => PipeSafe
  BY <1>1 DEF IInv, PipeSafe, EmptyWait, FullWait, ReadersWait, WritersWait
<1>. QED  BY <1>2, Invariance, PTL

-----------------------------------------------------------------------------
\* The queue that the ring stands for.
IsQueue ==
  /\ Stored \in Seq(Byte) /\ Len(Stored) = Count /\ Count \in Nat
  /\ \A i \in 1..Count : Stored[i] = data[(nread + (i - 1)) % PIPESIZE]

LEMMA StoredIs ==
  ASSUME TypeOK
  PROVE  IsQueue
<1>1. Count \in 0..PIPESIZE /\ PIPESIZE \in Nat /\ nread \in Nat
  BY Counters, PipeAssumption DEF TypeOK
<1>2. \A i \in 1..Count : nread + i - 1 = nread + (i - 1) /\ i - 1 \in 0..PIPESIZE
  BY <1>1
<1>3. \A i \in 1..Count : Stored[i] = data[(nread + (i - 1)) % PIPESIZE]
  BY <1>2 DEF Stored
<1>4. \A i \in 1..Count : Stored[i] \in Byte
  BY <1>2, <1>3, Places DEF TypeOK
<1>5. Stored \in [1..Count -> Byte]
  BY <1>4 DEF Stored
<1>6. Stored \in Seq(Byte)
  BY <1>1, <1>5, SeqDef
<1>7. Len(Stored) = Count
  BY <1>1, <1>5, <1>6, LenProperties
<1>. QED  BY <1>1, <1>3, <1>6, <1>7 DEF IsQueue

LEMMA StoredNext == TypeOK' => IsQueue'
BY StoredIs, PTL

\* A step of the stream, or one that it does not see.
StreamStep == Stream!Next \/ UNCHANGED <<Stored, OpenEnds, todo, want, got, res>>

\* The bytes are appended to the queue.
LEMMA Appended ==
  ASSUME IInv, IInv', NEW p \in Proc, NEW k \in 0..(PIPESIZE - Count), Written(p, k), nread' = nread
  PROVE  Stored' = Stored \o SubSeq(todo[p], 1, k)
<1>. DEFINE s == todo[p]
            t == SubSeq(s, 1, k)
<1>1. Count \in 0..PIPESIZE /\ PIPESIZE \in Nat /\ nread \in Nat /\ Count' = Count + k
  BY Counters, PipeAssumption DEF IInv, TypeOK, Written
<1>2. s \in Seq(Byte) /\ Len(s) \in Nat /\ k <= Len(s) /\ k \in Nat
  BY <1>1, RequestIs DEF Written
<1>3. t \in Seq(Byte) /\ Len(t) = k /\ \A i \in 1..k : t[i] = s[i]
  <2>1. 1 \in Int /\ k \in Int /\ \A i \in 1..k : s[i] \in Byte
    BY <1>2, ElementOfSeq
  <2>. QED  BY <1>2, <2>1, SubSeqProperties
<1>4. /\ Stored \in Seq(Byte) /\ Len(Stored) = Count
      /\ \A i \in 1..Count : Stored[i] = data[(nread + (i - 1)) % PIPESIZE]
  BY StoredIs DEF IInv, IsQueue
<1>5. /\ Stored' \in Seq(Byte) /\ Len(Stored') = Count + k
      /\ \A i \in 1..(Count + k) : Stored'[i] = data'[(nread + (i - 1)) % PIPESIZE]
  <2>1. /\ Stored' \in Seq(Byte) /\ Len(Stored)' = Count'
        /\ \A i \in 1..Count' : Stored'[i] = data'[(nread' + (i - 1)) % PIPESIZE]
    BY StoredNext DEF IInv, IsQueue
  <2>. QED  BY <1>1, <2>1
<1>6. /\ \A i \in 0..(Count - 1) : data'[(nread + i) % PIPESIZE] = data[(nread + i) % PIPESIZE]
      /\ \A i \in 0..(k - 1) : data'[(nread + Count + i) % PIPESIZE] = s[1 + i]
  BY <1>2, FilledIs DEF IInv, Written
<1>. HIDE DEF s, t
<1>7. ASSUME NEW i \in 1..(Count + k) PROVE Stored'[i] = (Stored \o t)[i]
  <2>1. (Stored \o t)[i] = IF i <= Count THEN Stored[i] ELSE t[i - Count]
    BY <1>3, <1>4, ConcatProperties
  <2>2. CASE i <= Count
    <3>1. i - 1 \in 0..(Count - 1) /\ i \in 1..Count
      BY <1>1, <2>2
    <3>. QED  BY <1>4, <1>5, <1>6, <2>1, <2>2, <3>1
  <2>3. CASE ~(i <= Count)
    <3>1. PICK m \in 0..(k - 1) : m = i - 1 - Count
      BY <1>1, <2>3
    <3>2. nread + (i - 1) = nread + Count + m /\ i - Count = 1 + m /\ i - Count \in 1..k
      BY <1>1, <3>1
    <3>3. Stored'[i] = data'[(nread + Count + m) % PIPESIZE]
      BY <1>5, <3>2
    <3>4. t[i - Count] = s[1 + m]
      BY <1>3, <3>2
    <3>5. data'[(nread + Count + m) % PIPESIZE] = s[1 + m]
      BY <1>6, <3>1
    <3>6. (Stored \o t)[i] = t[i - Count]
      BY <2>1, <2>3
    <3>. QED  BY <3>3, <3>4, <3>5, <3>6
  <2>. QED  BY <2>2, <2>3
<1>8. Stored \o t \in Seq(Byte) /\ Len(Stored \o t) = Count + k
  BY <1>3, <1>4, ConcatProperties
<1>. QED  BY <1>5, <1>7, <1>8, SeqEqual DEF s, t

\* The bytes are taken from its front.
LEMMA TakenOut ==
  ASSUME IInv, IInv', NEW p \in Proc, NEW k \in 0..Count, Returned(p, k), UNCHANGED <<data, nwrite>>
  PROVE  /\ got' = [got EXCEPT ![p] = SubSeq(Stored, 1, k)]
         /\ Stored' = SubSeq(Stored, k + 1, Len(Stored))
<1>. DEFINE f == SubSeq(Stored, 1, k)
            t == SubSeq(Stored, k + 1, Count)
            g == [i \in 1..k |-> data[(nread + i - 1) % PIPESIZE]]
<1>1. Count \in 0..PIPESIZE /\ PIPESIZE \in Nat \ {0} /\ nread \in Nat /\ Count' = Count - k
  <2>1. Count' = Count - k
    BY DEF Returned
  <2>. QED  BY <2>1, Counters, PipeAssumption DEF IInv, TypeOK
<1>2. /\ Stored \in Seq(Byte) /\ Len(Stored) = Count
      /\ \A i \in 1..Count : Stored[i] = data[(nread + (i - 1)) % PIPESIZE]
  BY StoredIs DEF IInv, IsQueue
<1>3. \A i \in 1..Count : Stored[i] \in Byte
  BY <1>2, ElementOfSeq
<1>4. f \in Seq(Byte) /\ Len(f) = k /\ \A i \in 1..k : f[i] = Stored[i]
  <2>1. 1 \in Int /\ k \in Nat /\ \A i \in 1..k : Stored[i] \in Byte
    BY <1>1, <1>3
  <2>. QED  BY <2>1, SubSeqProperties
<1>5. t \in Seq(Byte) /\ Len(t) = Count - k /\ \A i \in 1..(Count - k) : t[i] = Stored[k + i]
  <2>1. k + 1 \in Int /\ Count \in Int /\ \A i \in (k + 1)..Count : Stored[i] \in Byte
    BY <1>1, <1>3
  <2>2. /\ t \in Seq(Byte) /\ Len(t) = IF k + 1 <= Count THEN Count - (k + 1) + 1 ELSE 0
        /\ \A i \in 1..(Count - (k + 1) + 1) : t[i] = Stored[(k + 1) + i - 1]
    BY <2>1, SubSeqProperties
  <2>3. Count - (k + 1) + 1 = Count - k /\ \A i \in Int : (k + 1) + i - 1 = k + i
    BY <1>1
  <2>. QED  BY <1>1, <2>2, <2>3
<1>6. /\ Stored' \in Seq(Byte) /\ Len(Stored') = Count - k
      /\ \A i \in 1..(Count - k) : Stored'[i] = data[(nread' + (i - 1)) % PIPESIZE]
  <2>1. /\ Stored' \in Seq(Byte) /\ Len(Stored)' = Count'
        /\ \A i \in 1..Count' : Stored'[i] = data'[(nread' + (i - 1)) % PIPESIZE]
    BY StoredNext DEF IInv, IsQueue
  <2>. QED  BY <1>1, <2>1
<1>7. g = f
  <2>1. \A i \in 1..k : nread + i - 1 = nread + (i - 1) /\ i \in 1..Count
    BY <1>1
  <2>2. g = [i \in 1..k |-> Stored[i]]
    BY <1>2, <2>1
  <2>3. f = [i \in 1..k |-> f[i]]
    BY <1>4, LenProperties
  <2>. QED  BY <1>4, <2>2, <2>3
<1>8. ASSUME NEW i \in 1..(Count - k) PROVE Stored'[i] = t[i]
  <2>1. nread' = IF nread + k < WORD THEN nread + k ELSE nread + k - WORD
    <3>1. nread \in 0..(WORD - 1) /\ k \in 0..WORD
      BY <1>1, PipeAssumption DEF IInv, TypeOK
    <3>. QED  BY <3>1, Advance DEF Returned
  <2>2. PICK a \in Int : a = nread + (k + i - 1)
    BY <1>1
  <2>3. nread' + (i - 1) = a \/ nread' + (i - 1) = a - WORD
    BY <1>1, <2>1, <2>2, PipeAssumption
  <2>4. (nread' + (i - 1)) % PIPESIZE = a % PIPESIZE
    <3>1. (a - WORD) % PIPESIZE = a % PIPESIZE
      BY Around
    <3>2. CASE nread' + (i - 1) = a
      BY <3>2
    <3>3. CASE nread' + (i - 1) = a - WORD
      BY <3>1, <3>3
    <3>. QED  BY <2>3, <3>2, <3>3
  <2>5. k + i \in 1..Count /\ nread + ((k + i) - 1) = a
    BY <1>1, <2>2
  <2>6. Stored[k + i] = data[a % PIPESIZE]
    BY <1>2, <2>5
  <2>. QED  BY <1>5, <1>6, <2>4, <2>6
<1>. HIDE DEF f, t, g
<1>9. Stored' = t
  BY <1>5, <1>6, <1>8, SeqEqual
<1>10. got' = [got EXCEPT ![p] = g]
  BY DEF Returned, g
<1>. QED  BY <1>2, <1>7, <1>9, <1>10 DEF f, t

\* What the stream sees of the state.
LEMMA SameStored ==
  ASSUME UNCHANGED <<data, nread, nwrite>>
  PROVE  Stored' = Stored
BY DEF Stored, Count

LEMMA SameEnds ==
  ASSUME UNCHANGED <<readopen, writeopen>>
  PROVE  OpenEnds' = OpenEnds
BY DEF OpenEnds

\* Steps that the stream does not see.
LEMMA HiddenRefines ==
  ASSUME NEW p \in Proc,
         \/ \E r \in Proc : Fork(p, r)
         \/ Kill(p) \/ WriteSleep(p) \/ ReadSleep(p) \/ CloseRead(p) \/ CloseWrite(p)
  PROVE  StreamStep
<1>1. UNCHANGED <<data, nread, nwrite, readopen, writeopen, todo, want, got, res>>
  BY DEF Fork, Kill, WriteSleep, ReadSleep, CloseRead, CloseWrite, pipeVars, endVars, callVars
<1>. QED  BY <1>1, SameStored, SameEnds DEF StreamStep

\* A call starts.
LEMMA EnterRefines ==
  ASSUME IInv, NEW p \in Proc,
         (\E s \in Requests : WriteEnter(p, s)) \/ \E n \in 1..MaxRead : ReadEnter(p, n)
  PROVE  StreamStep
<1>1. Stored' = Stored /\ OpenEnds' = OpenEnds
  <2>1. UNCHANGED <<data, nread, nwrite, readopen, writeopen>>
    BY DEF WriteEnter, ReadEnter, pipeVars, endVars
  <2>. QED  BY <2>1, SameStored, SameEnds
<1>2. res[p] # "busy" /\ res' = [res EXCEPT ![p] = "busy"] /\ got' = [got EXCEPT ![p] = <<>>]
  BY DEF WriteEnter, ReadEnter, IInv, Busy, Writing, Reading
<1>3. CASE \E s \in Requests : WriteEnter(p, s)
  <2>1. PICK s \in Requests : WriteEnter(p, s)
    BY <1>3
  <2>2. todo' = [todo EXCEPT ![p] = s] /\ todo'[p] = s /\ want' = want
    BY <2>1 DEF WriteEnter, IInv, TypeOK
  <2>3. s \in Seq(Byte) /\ s # <<>>
    BY RequestIs
  <2>4. Stream!Call(p)
    BY <1>1, <1>2, <2>2, <2>3 DEF Stream!Call
  <2>. QED  BY <2>4 DEF StreamStep, Stream!Next
<1>4. CASE \E n \in 1..MaxRead : ReadEnter(p, n)
  <2>1. PICK n \in 1..MaxRead : ReadEnter(p, n)
    BY <1>4
  <2>2. want' = [want EXCEPT ![p] = n] /\ want'[p] = n /\ todo' = todo
    BY <2>1 DEF ReadEnter, IInv, TypeOK
  <2>3. n \in Nat \ {0}
    BY PipeAssumption
  <2>4. Stream!Call(p)
    BY <1>1, <1>2, <2>2, <2>3 DEF Stream!Call
  <2>. QED  BY <2>4 DEF StreamStep, Stream!Next
<1>. QED  BY <1>3, <1>4

\* pipewrite() puts its bytes: all of them, or as many as fit.
LEMMA pipewriteRefines ==
  ASSUME IInv, IInv', NEW p \in Proc, pipewrite(p)
  PROVE  StreamStep
<1>1. at[p] = "write" /\ UNCHANGED <<nread, endVars, killed, want, got>>
  BY WriteStep
<1>2. PICK k \in 0..(PIPESIZE - Count) : Written(p, k)
  BY WriteStep
<1>3. Stored' = Stored \o SubSeq(todo[p], 1, k)
  BY <1>1, <1>2, Appended
<1>4. Len(Stored) = Count /\ Count \in 0..PIPESIZE /\ PIPESIZE \in Nat
  BY StoredIs, Counters, PipeAssumption DEF IInv, IsQueue
<1>5. OpenEnds' = OpenEnds
  BY <1>1, SameEnds DEF endVars
<1>6. res[p] = "busy" /\ todo[p] # <<>> /\ Len(todo[p]) \in Nat
  BY <1>1, <1>2, RequestIs DEF Written, IInv, Busy, Writing
<1>7. k \in 0..Len(todo[p]) /\ Len(Stored) + k <= PIPESIZE
  BY <1>2, <1>4, <1>6 DEF Written
<1>8. \/ /\ k = Len(todo[p])
         /\ todo' = [todo EXCEPT ![p] = <<>>]
         /\ res' = [res EXCEPT ![p] = "ok"]
      \/ /\ k < Len(todo[p]) /\ Len(Stored) + k = PIPESIZE
         /\ todo' = [todo EXCEPT ![p] = <<>>]
         /\ res' = [res EXCEPT ![p] = "err"]
      \/ /\ k < Len(todo[p]) /\ Len(Stored) + k = PIPESIZE
         /\ todo' = [todo EXCEPT ![p] = SubSeq(@, k + 1, Len(@))]
         /\ UNCHANGED res
  <2>1. CASE k = Len(todo[p])
    <3>1. ~Blocked(p, k) /\ ~Failed(p, k)
      BY <1>6, <2>1 DEF Blocked, Failed
    <3>. QED  BY <1>2, <2>1, <3>1 DEF Written
  <2>2. CASE k < Len(todo[p]) /\ GivesUp(p)
    BY <1>2, <1>4, <2>2 DEF Written, Blocked, Failed
  <2>3. CASE k < Len(todo[p]) /\ ~GivesUp(p)
    <3>1. Blocked(p, k) /\ Len(Stored) + k = PIPESIZE
      BY <1>2, <1>4, <2>3 DEF Written, Blocked
    <3>2. res' = res
      BY <1>2, <3>1 DEF Written, IInv, TypeOK
    <3>3. todo' = [todo EXCEPT ![p] = SubSeq(todo[p], k + 1, Len(todo[p]))]
      BY <1>2, <3>1 DEF Written
    <3>. QED  BY <2>3, <3>1, <3>2, <3>3
  <2>. QED  BY <1>6, <1>7, <2>1, <2>2, <2>3
<1>9. Stream!Write(p)
  BY <1>1, <1>3, <1>5, <1>6, <1>7, <1>8 DEF Stream!Write
<1>. QED  BY <1>9 DEF StreamStep, Stream!Next

\* piperead() takes its bytes, or fails, or goes to sleep.
LEMMA pipereadRefines ==
  ASSUME IInv, IInv', NEW p \in Proc, piperead(p)
  PROVE  StreamStep
<1>1. at[p] = "read" /\ UNCHANGED <<data, nwrite, endVars, todo>>
  BY DEF piperead
<1>2. OpenEnds' = OpenEnds
  BY <1>1, SameEnds DEF endVars
<1>3. res[p] = "busy" /\ want[p] > 0 /\ want[p] \in Nat
  BY <1>1 DEF IInv, TypeOK, Busy, Reading
<1>4. Len(Stored) = Count /\ Count \in Nat /\ (Count = 0 <=> nread = nwrite)
  BY StoredIs, Counters DEF IInv, IsQueue
<1>5. CASE MustWait
  <2>1. /\ nread' = nread /\ got' = got
        /\ \/ UNCHANGED <<want, res>>
           \/ want' = [want EXCEPT ![p] = 0] /\ res' = [res EXCEPT ![p] = "err"]
    BY <1>5 DEF piperead
  <2>2. Stored' = Stored
    BY <1>1, <2>1, SameStored
  <2>3. CASE UNCHANGED <<want, res>>
    BY <1>1, <1>2, <2>1, <2>2, <2>3 DEF StreamStep
  <2>4. CASE want' = [want EXCEPT ![p] = 0] /\ res' = [res EXCEPT ![p] = "err"]
    <3>1. Stream!Read(p)
      BY <1>1, <1>2, <1>3, <2>1, <2>2, <2>4 DEF Stream!Read
    <3>. QED  BY <3>1 DEF StreamStep, Stream!Next
  <2>. QED  BY <2>1, <2>3, <2>4
<1>6. CASE ~MustWait
  <2>1. PICK k \in 0..Count : Returned(p, k)
    BY <1>6, ReadStep
  <2>2. /\ got' = [got EXCEPT ![p] = SubSeq(Stored, 1, k)]
        /\ Stored' = SubSeq(Stored, k + 1, Len(Stored))
    BY <1>1, <2>1, TakenOut
  <2>3. k = IF want[p] < Len(Stored) THEN want[p] ELSE Len(Stored)
    BY <1>3, <1>4, <2>1 DEF Returned
  <2>4. k > 0 \/ "write" \notin OpenEnds
    <3>1. CASE nread = nwrite
      BY <1>6, <3>1 DEF MustWait, OpenEnds
    <3>2. CASE nread # nwrite
      BY <1>3, <1>4, <2>3, <3>2
    <3>. QED  BY <3>1, <3>2
  <2>5. want' = [want EXCEPT ![p] = 0] /\ res' = [res EXCEPT ![p] = "ok"]
    BY <2>1 DEF Returned
  <2>6. Stream!Read(p)
    BY <1>1, <1>2, <1>3, <2>2, <2>3, <2>4, <2>5 DEF Stream!Read
  <2>. QED  BY <2>6 DEF StreamStep, Stream!Next
<1>. QED  BY <1>5, <1>6

\* pipeclose() closes one end.
LEMMA pipecloseRefines ==
  ASSUME IInv, NEW p \in Proc, pipeclose(p)
  PROVE  StreamStep
<1>1. UNCHANGED <<data, nread, nwrite, todo, want, got, res>>
  BY DEF pipeclose, pipeVars, callVars
<1>2. Stored' = Stored
  BY <1>1, SameStored
<1>3. PICK e \in {"read", "write"} : e \in OpenEnds /\ OpenEnds' = OpenEnds \ {e}
  <2>1. CASE at[p] = "wclose"
    <3>1. writeopen /\ writeopen' = FALSE /\ readopen' = readopen
      BY <2>1 DEF pipeclose, IInv, Ends, OpenWhile
    <3>2. "write" \in OpenEnds /\ OpenEnds' = OpenEnds \ {"write"}
      BY <3>1 DEF OpenEnds
    <3>. QED  BY <3>2
  <2>2. CASE at[p] = "rclose"
    <3>1. readopen /\ readopen' = FALSE /\ writeopen' = writeopen
      BY <2>2 DEF pipeclose, IInv, Ends, OpenWhile
    <3>2. "read" \in OpenEnds /\ OpenEnds' = OpenEnds \ {"read"}
      BY <3>1 DEF OpenEnds
    <3>. QED  BY <3>2
  <2>. QED  BY <2>1, <2>2 DEF pipeclose
<1>4. Stream!Close(e)
  BY <1>1, <1>2, <1>3 DEF Stream!Close
<1>. QED  BY <1>3, <1>4 DEF StreamStep, Stream!Next

\* pipe.c implements a stream of bytes: what is read is what was written, in its
\* order, although the ring wraps around, a write is put in pieces and sleeps
\* between them, and the counters overflow; the end of the stream comes only
\* behind the last byte: for any number of processes and any size of the ring.
THEOREM OneStream == Spec => ImplementsByteStream
<1>1. Init => Stream!Init
  <2>. SUFFICES ASSUME Init PROVE Stream!Init
    OBVIOUS
  <2>1. TypeOK /\ nread = nwrite
    BY InitInv DEF Init, IInv
  <2>2. Stored \in Seq(Byte) /\ Len(Stored) = 0
    BY <2>1, StoredIs, Counters DEF IsQueue
  <2>3. Stored = <<>>
    BY <2>2, EmptySeq
  <2>4. OpenEnds = {"read", "write"}
    BY DEF Init, OpenEnds
  <2>. QED  BY <2>3, <2>4 DEF Init, Stream!Init
<1>2. IInv /\ IInv' /\ [Next]_vars => [UNCHANGED vars \/ Stream!Next]_(Stream!vars)
  <2>. SUFFICES ASSUME IInv, IInv', Next PROVE StreamStep
    BY DEF StreamStep, Stream!vars
  <2>. QED  BY HiddenRefines, EnterRefines, pipewriteRefines, pipereadRefines, pipecloseRefines DEF Next
<1>. QED  BY <1>1, <1>2, Invariance, PTL DEF Spec, ImplementsByteStream
=============================================================================
