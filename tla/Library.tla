------------------------------ MODULE Library ------------------------------
(***************************************************************************)
(* The functions that the kernel and the programs are built on: string.c,  *)
(* ulib.c, the numbers and formats of console.c and printf.c, the checks   *)
(* of system call arguments in syscall.c, and the boot loader's reading of *)
(* an ELF image.  Each is its loop, as a function of its arguments; a step *)
(* is one call.                                                            *)
(*                                                                         *)
(* Memory is a function from small addresses to bytes, 0 is NUL and 3 the  *)
(* newline.                                                                *)
(***************************************************************************)
EXTENDS Integers, Sequences

CONSTANTS
  Mems,      \* the memories on which the functions are called
  INTW,      \* an int has INTW values (2^32 in the code)
  ADDRW,     \* addresses count modulo ADDRW (2^32)
  INTSIZE,   \* sizeof(int)
  Formats,   \* formats: sequences of characters
  SECTSIZE,
  Images     \* images: the bytes of the file and the program headers

VARIABLES call, result
libVars == <<call, result>>

\* The loops end at the end of the modelled memory.
ByteAt(m, a) == IF a \in DOMAIN m THEN m[a] ELSE 0
Poke(m, a, v) == IF a \in DOMAIN m THEN [m EXCEPT ![a] = v] ELSE m
\* The bytes from a on, up to the first NUL or to n bytes.
strlen(m, a) == LET len[k \in Nat] == IF ByteAt(m, a + k) = 0 THEN k ELSE len[k + 1] IN len[0]

-----------------------------------------------------------------------------
\* Copying.  The kernel's memmove() goes backwards when the end of the source is
\* overwritten, the one of ulib.c never does.
Forward(m, dst, src, n) ==
  LET after[k \in Nat] == IF k = 0 THEN m
                          ELSE Poke(after[k - 1], dst + k - 1, ByteAt(after[k - 1], src + k - 1))
  IN  after[n]
Backward(m, dst, src, n) ==
  LET after[k \in Nat] == IF k = 0 THEN m
                          ELSE Poke(after[k - 1], dst + n - k, ByteAt(after[k - 1], src + n - k))
  IN  after[n]
Overlaps(dst, src, n) == src < dst /\ src + n > dst
memmove(m, dst, src, n) == IF Overlaps(dst, src, n) THEN Backward(m, dst, src, n) ELSE Forward(m, dst, src, n)
UserMemmove(m, dst, src, n) == Forward(m, dst, src, n)

Fill(m, a, n) == [x \in DOMAIN m |-> IF x >= a /\ x < a + n THEN 0 ELSE m[x]]
\* The NUL that is copied is the last byte; the rest of the n bytes is filled.
strncpy(m, s, t, n) ==
  LET len == strlen(m, t)
  IN  IF len >= n THEN Forward(m, s, t, n) ELSE Fill(Forward(m, s, t, len), s + len, n - len)
\* At most n - 1 bytes, the NUL counted, and then a NUL.
Copied(len, n) == IF len + 1 < n - 1 THEN len + 1 ELSE n - 1
safestrcpy(m, s, t, n) ==
  LET k == Copied(strlen(m, t), n)
  IN  IF n <= 0 THEN m ELSE Poke(Forward(m, s, t, k), s + k, 0)
strcpy(m, s, t) == Forward(m, s, t, strlen(m, t) + 1)

\* gets(): bytes of the input until the buffer is full or a line has ended.
GetsLen(in, max) ==
  LET len[k \in Nat] == IF k + 1 >= max \/ k = Len(in) THEN k
                        ELSE IF in[k + 1] = 3 THEN k + 1 ELSE len[k + 1]
  IN  len[0]
gets(in, max) == Append(SubSeq(in, 1, GetsLen(in, max)), 0)

-----------------------------------------------------------------------------
\* Comparing: the difference of the first bytes that differ.
memcmp(m, v1, v2, n) ==
  LET from[k \in Nat] == IF k = n THEN 0
                         ELSE IF ByteAt(m, v1 + k) # ByteAt(m, v2 + k) THEN ByteAt(m, v1 + k) - ByteAt(m, v2 + k)
                         ELSE from[k + 1]
  IN  from[0]
strncmp(m, p, q, n) ==
  LET from[k \in Nat] == IF k = n THEN 0
                         ELSE IF ByteAt(m, p + k) # 0 /\ ByteAt(m, p + k) = ByteAt(m, q + k) THEN from[k + 1]
                         ELSE ByteAt(m, p + k) - ByteAt(m, q + k)
  IN  from[0]
strcmp(m, p, q) ==
  LET from[k \in Nat] == IF ByteAt(m, p + k) # 0 /\ ByteAt(m, p + k) = ByteAt(m, q + k) THEN from[k + 1]
                         ELSE ByteAt(m, p + k) - ByteAt(m, q + k)
  IN  from[0]
\* The address of c, or 0.
strchr(m, s, c) ==
  LET from[a \in Nat] == IF ByteAt(m, a) = 0 THEN 0 ELSE IF ByteAt(m, a) = c THEN a ELSE from[a + 1]
  IN  from[s]

-----------------------------------------------------------------------------
\* printint(): the digits from the last on, of the unsigned x; "-" is 99.
Minus == 99
Unsigned(xx) == xx % INTW
printint(xx, base, sign) ==
  LET neg == sign /\ xx < 0
      x == IF neg THEN Unsigned(-xx) ELSE Unsigned(xx)
      digits[y \in Nat] == IF y < base THEN <<y>> ELSE Append(digits[y \div base], y % base)
  IN  (IF neg THEN <<Minus>> ELSE <<>>) \o digits[x]
atoi(ds) ==
  LET value[k \in 0..Len(ds)] == IF k = 0 THEN 0 ELSE value[k - 1] * 10 + ds[k]
  IN  value[Len(ds)]

\* What a directive prints, given that k arguments have been used; it uses one
\* unless it is "%%" or unknown.
Takes(c) == c \in {"d", "x", "s"}
Char(c) == <<[c |-> c, arg |-> -1]>>
Directive(c, k) == IF Takes(c) THEN <<[c |-> c, arg |-> k]>>
                   ELSE IF c = "%" THEN Char("%") ELSE Char("%") \o Char(c)
\* cprintf() looks one character ahead.
cprintf(fmt) ==
  LET from[i \in 1..(Len(fmt) + 2), k \in 0..Len(fmt)] ==
        IF i > Len(fmt) THEN <<>>
        ELSE IF fmt[i] # "%" THEN Char(fmt[i]) \o from[i + 1, k]
        ELSE IF i = Len(fmt) THEN <<>>
        ELSE Directive(fmt[i + 1], k) \o from[i + 2, IF Takes(fmt[i + 1]) THEN k + 1 ELSE k]
  IN  from[1, 0]
\* printf() keeps a state.
printf(fmt) ==
  LET after[i \in 0..Len(fmt)] ==
        LET s == after[i - 1]
            c == fmt[i]
        IN  IF i = 0 THEN [percent |-> FALSE, k |-> 0, out |-> <<>>]
            ELSE IF ~s.percent
            THEN IF c = "%" THEN [s EXCEPT !.percent = TRUE] ELSE [s EXCEPT !.out = @ \o Char(c)]
            ELSE [percent |-> FALSE, k |-> IF Takes(c) THEN s.k + 1 ELSE s.k,
                  out |-> s.out \o Directive(c, s.k)]
  IN  after[Len(fmt)].out

-----------------------------------------------------------------------------
\* System call arguments, in a process of sz bytes; the sums wrap around.
Inside_Sum(addr, n, sz) == (addr + n) % ADDRW <= sz
Inside(addr, n, sz) == addr < sz /\ (addr + n) % ADDRW <= sz
fetchint(addr, sz) == Inside(addr, INTSIZE, sz)
argint(n, esp, sz) == fetchint((esp + INTSIZE + INTSIZE * n) % ADDRW, sz)
argptr(i, size, sz) == size >= 0 /\ Inside(i % ADDRW, size, sz)
\* The length of the string, or -1 if it does not end in the process.
fetchstr(m, addr, sz) ==
  LET from[s \in Nat] == IF s >= sz THEN -1 ELSE IF ByteAt(m, s) = 0 THEN s - addr ELSE from[s + 1]
  IN  IF addr >= sz THEN -1 ELSE from[addr]

-----------------------------------------------------------------------------
\* readseg(): whole sectors, from the boundary at or below the offset; sector 0
\* of the disk is the boot block.  "disk" maps sectors to their bytes.
RoundDown(pa, offset) == pa - (offset % SECTSIZE)
readseg(ram, disk, pa, count, offset) ==
  LET start == RoundDown(pa, offset)
      n == (pa + count - start + (SECTSIZE - 1)) \div SECTSIZE
  IN  [x \in DOMAIN ram |->
         IF x >= start /\ x < start + n * SECTSIZE
         THEN disk[(offset \div SECTSIZE) + 1 + (x - start) \div SECTSIZE][(x - start) % SECTSIZE]
         ELSE ram[x]]
\* bootmain(): the segments in the order of the headers, each with its zeroes.
bootmain(ram, image) ==
  LET after[k \in 0..Len(image.ph)] ==
        LET ph == image.ph[k]
            read == readseg(after[k - 1], image.disk, ph.paddr, ph.filesz, ph.off)
        IN  IF k = 0 THEN ram
            ELSE Fill(read, ph.paddr + ph.filesz, ph.memsz - ph.filesz)
  IN  after[Len(image.ph)]

-----------------------------------------------------------------------------
Addrs == 1..6
Copy(f, m, d, s, n) ==
  CASE f = "memmove" -> memmove(m, d, s, n)
    [] f = "UserMemmove" -> UserMemmove(m, d, s, n)
    [] f = "strncpy" -> strncpy(m, d, s, n)
    [] f = "safestrcpy" -> safestrcpy(m, d, s, n)
    [] f = "strcpy" -> strcpy(m, d, s)
Copies == {"memmove", "UserMemmove", "strncpy", "safestrcpy", "strcpy"}
Compare(f, m, p, q, n) ==
  CASE f = "memcmp" -> memcmp(m, p, q, n)
    [] f = "strncmp" -> strncmp(m, p, q, n)
    [] f = "strcmp" -> strcmp(m, p, q)
    [] f = "strchr" -> strchr(m, p, q)
Compares == {"memcmp", "strncmp", "strcmp", "strchr"}

LibInit == call = [f |-> "none"] /\ result = 0
CallCopy == \E f \in Copies, m \in Mems, d, s \in Addrs, n \in 0..3 :
  /\ call' = [f |-> f, m |-> m, d |-> d, s |-> s, n |-> n]
  /\ result' = Copy(f, m, d, s, n)
CallCompare == \E f \in Compares, m \in Mems, d, s \in {1, 2, 4}, n \in 0..3 :
  /\ call' = [f |-> f, m |-> m, d |-> d, s |-> s, n |-> n]
  /\ result' = Compare(f, m, d, s, n)
CallGets == \E n \in 0..4 : \E in \in [1..n -> {1, 3}], max \in 1..4 :
  /\ call' = [f |-> "gets", in |-> in, max |-> max]
  /\ result' = gets(in, max)
CallPrint == \E xx \in (0 - (INTW \div 2))..((INTW \div 2) - 1), sign \in BOOLEAN :
  /\ call' = [f |-> "printint", xx |-> xx, sign |-> sign]
  /\ result' = printint(xx, 10, sign)
CallFormat == \E fmt \in Formats :
  /\ call' = [f |-> "printf", fmt |-> fmt]
  /\ result' = <<printf(fmt), cprintf(fmt)>>
CallFetch == \E addr \in 0..(ADDRW - 1), sz \in 0..(ADDRW \div 2), n \in (-2)..((ADDRW \div 2) - 1) :
  /\ call' = [f |-> "argptr", addr |-> addr, sz |-> sz, n |-> n]
  /\ result' = [int |-> argint(n % 4, addr, sz), ptr |-> argptr(addr, n, sz)]
CallFetchStr == \E m \in Mems, addr \in Addrs, sz \in 0..8 :
  /\ call' = [f |-> "fetchstr", m |-> m, addr |-> addr, sz |-> sz]
  /\ result' = fetchstr(m, addr, sz)
CallBoot == \E image \in Images :
  /\ call' = [f |-> "bootmain", image |-> image]
  /\ result' = bootmain([x \in 0..20 |-> 9], image)
LibNext ==
  /\ call.f = "none"
  /\ \/ CallCopy \/ CallCompare \/ CallGets \/ CallPrint \/ CallFormat
     \/ CallFetch \/ CallFetchStr \/ CallBoot
LibSpec == LibInit /\ [][LibNext]_libVars

-----------------------------------------------------------------------------
\* What the calls are for.
Disjoint(c, len) == c.d + c.n <= c.s \/ c.s + len < c.d
Moved(c) == [x \in DOMAIN c.m |-> IF x >= c.d /\ x < c.d + c.n THEN ByteAt(c.m, c.s + x - c.d) ELSE c.m[x]]
Str(m, a, n) == LET len == strlen(m, a) IN [k \in 1..(IF len < n THEN len ELSE n) |-> m[a + k - 1]]
Kept(c, n) == \A x \in DOMAIN c.m : x < c.d \/ x >= c.d + n => result[x] = c.m[x]
CopyRight(c) ==
  LET len == strlen(c.m, c.s)
  IN  CASE c.f = "memmove" -> result = Moved(c)
        [] c.f = "UserMemmove" -> c.d <= c.s \/ c.d >= c.s + c.n => result = Moved(c)
        [] c.f = "strncpy" ->
             Disjoint(c, len) => /\ Str(result, c.d, c.n) = Str(c.m, c.s, c.n) /\ Kept(c, c.n)
                                 /\ \A k \in len..(c.n - 1) : ByteAt(result, c.d + k) = 0
        [] c.f = "safestrcpy" ->
             Disjoint(c, len) => /\ Kept(c, c.n)
                                 /\ c.n > 0 => Str(result, c.d, c.n) = Str(c.m, c.s, c.n - 1)
        [] c.f = "strcpy" ->
             Disjoint([c EXCEPT !.n = len + 1], len) =>
               Str(result, c.d, len + 1) = Str(c.m, c.s, len) /\ Kept(c, len + 1)
\* The order of byte sequences; a string counts its NUL.
BytesAt(c, a) == [k \in 1..c.n |-> ByteAt(c.m, a + k - 1)]
WithNul(c, a) == LET n == IF c.f = "strcmp" THEN 99 ELSE c.n
                     s == Str(c.m, a, n)
                 IN  IF Len(s) < n THEN Append(s, 0) ELSE s
Less(u, v) == \E k \in 1..Len(u) : k <= Len(v) /\ u[k] < v[k] /\ \A j \in 1..(k - 1) : u[j] = v[j]
CompareRight(c) ==
  LET u == IF c.f = "memcmp" THEN BytesAt(c, c.d) ELSE WithNul(c, c.d)
      v == IF c.f = "memcmp" THEN BytesAt(c, c.s) ELSE WithNul(c, c.s)
      hits == {k \in 0..(strlen(c.m, c.d) - 1) : c.m[c.d + k] = c.s}
  IN  IF c.f = "strchr"
      THEN IF hits = {} THEN result = 0
           ELSE result - c.d \in hits /\ \A k \in hits : result - c.d <= k
      ELSE (result < 0 <=> Less(u, v)) /\ (result > 0 <=> Less(v, u)) /\ (result = 0 <=> u = v)
GetsRight(c) ==
  LET n == Len(result) - 1
  IN  /\ n < c.max /\ result[n + 1] = 0 /\ SubSeq(result, 1, n) = SubSeq(c.in, 1, n)
      /\ \A k \in 1..(n - 1) : result[k] # 3
      /\ n = Len(c.in) \/ n = c.max - 1 \/ result[n] = 3
PrintRight(c) ==
  LET neg == result[1] = Minus
      n == atoi(IF neg THEN Tail(result) ELSE result)
  IN  IF c.sign THEN c.xx = IF neg THEN 0 - n ELSE n ELSE Unsigned(c.xx) = n
FormatRight ==
  /\ result[1] = result[2]
  /\ LET args == SelectSeq(result[1], LAMBDA o : o.arg >= 0)
     IN  \A k \in 1..Len(args) : args[k].arg = k - 1
FetchRight(c) ==
  LET a == (c.addr + INTSIZE + INTSIZE * (c.n % 4)) % ADDRW
  IN  /\ result.int <=> a + INTSIZE <= c.sz
      /\ result.ptr <=> c.n >= 0 /\ c.addr < c.sz /\ c.addr + c.n <= c.sz
FetchStrRight(c) ==
  LET nuls == {k \in 0..8 : c.addr + k < c.sz /\ ByteAt(c.m, c.addr + k) = 0}
  IN  IF nuls = {} THEN result = -1 ELSE result \in nuls /\ \A k \in nuls : result <= k
BootRight(c) ==
  \A k \in 1..Len(c.image.ph) :
    LET ph == c.image.ph[k]
    IN  \A i \in 0..(ph.memsz - 1) :
          result[ph.paddr + i] =
            IF i < ph.filesz THEN c.image.disk[((ph.off + i) \div SECTSIZE) + 1][(ph.off + i) % SECTSIZE] ELSE 0

\* The loops do what they are called for, at every boundary: a copy of
\* overlapping memory, a string as long as its buffer, the least int, a format
\* that ends in "%", an address or a size near the end of the process or of the
\* address space, a segment that starts or ends inside a sector.
LibraryRight ==
  CASE call.f \in Copies -> CopyRight(call)
    [] call.f \in Compares -> CompareRight(call)
    [] call.f = "gets" -> GetsRight(call)
    [] call.f = "printint" -> PrintRight(call)
    [] call.f = "printf" -> FormatRight
    [] call.f = "argptr" -> FetchRight(call)
    [] call.f = "fetchstr" -> FetchStrRight(call)
    [] call.f = "bootmain" -> BootRight(call)
    [] OTHER -> TRUE
=============================================================================
