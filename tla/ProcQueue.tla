----------------------------- MODULE ProcQueue -----------------------------
(***************************************************************************)
(* The queues of Project1/proc.c as the code builds them: doubly linked    *)
(* lists threaded through the prev and next fields of struct proc, with a  *)
(* head, a tail and a count per queue.  A value of the lists is a record   *)
(* with these five functions; every operation returns the lists it leaves. *)
(* The specification drives the lists the way proc.c does and implements   *)
(* QueueSpec, in which the queues are ordered sets.                        *)
(***************************************************************************)
EXTENDS Integers, Sequences, FiniteSets

CONSTANTS NPROC, PRIO, Priorities, Chan

Proc == 1..NPROC
Level == 0..2
SleepQ == 3
UnusedQ == 4
NoQ == 5
Queue == 0..UnusedQ

VARIABLES L, level, priority, chan

vars == <<L, level, priority, chan>>

queue_is_empty(l, k) == l.head[k] = 0

-----------------------------------------------------------------------------
\* insert(): new goes just ahead of base, at the tail when base is null.
insert(l, k, new, base) ==
  IF queue_is_empty(l, k) THEN
    [l EXCEPT !.head[k] = new, !.tail[k] = new, !.count[k] = @ + 1,
              !.prev[new] = 0, !.next[new] = 0]
  ELSE IF base = 0 THEN
    [l EXCEPT !.next[l.tail[k]] = new, !.prev[new] = l.tail[k], !.next[new] = 0,
              !.tail[k] = new, !.count[k] = @ + 1]
  ELSE IF l.prev[base] = 0 THEN
    [l EXCEPT !.next[new] = l.head[k], !.head[k] = new, !.prev[base] = new,
              !.prev[new] = 0, !.count[k] = @ + 1]
  ELSE
    [l EXCEPT !.next[new] = base, !.next[l.prev[base]] = new, !.prev[new] = l.prev[base],
              !.prev[base] = new, !.count[k] = @ + 1]

\* delete(): the assignments in the order of the code; a null neighbour is
\* skipped.
delete(l, k, p) ==
  LET Set(f, x, v) == IF x = 0 THEN f ELSE [f EXCEPT ![x] = v]
  IN  IF queue_is_empty(l, k) THEN l
      ELSE [l EXCEPT !.head[k] = IF @ = p THEN l.next[p] ELSE @,
                     !.prev = [Set(@, l.next[p], l.prev[p]) EXCEPT ![p] = 0],
                     !.next = [Set(@, l.prev[p], l.next[p]) EXCEPT ![p] = 0],
                     !.tail[k] = IF @ = p THEN l.prev[p] ELSE @,
                     !.count[k] = @ - 1]

\* dequeue(): the head of a queue that is not empty leaves it.
dequeue(l, k) ==
  LET p == l.head[k]
      n == l.next[p]
  IN  [l EXCEPT !.head[k] = n,
                !.tail[k] = IF n = 0 THEN 0 ELSE @,
                !.prev = [x \in Proc |-> IF x \in {p, n} THEN 0 ELSE @[x]],
                !.next[p] = 0,
                !.count[k] = @ - 1]

\* merge_queue(): the list of j is appended to that of k.
merge_queue(l, k, j) ==
  IF queue_is_empty(l, j) THEN l
  ELSE IF queue_is_empty(l, k) THEN
    [l EXCEPT !.head = [@ EXCEPT ![k] = l.head[j], ![j] = 0],
              !.tail = [@ EXCEPT ![k] = l.tail[j], ![j] = 0],
              !.count = [@ EXCEPT ![k] = @ + l.count[j], ![j] = 0]]
  ELSE
    [l EXCEPT !.next[l.tail[k]] = l.head[j], !.prev[l.head[j]] = l.tail[k],
              !.head[j] = 0, !.tail = [@ EXCEPT ![k] = l.tail[j], ![j] = 0],
              !.count = [@ EXCEPT ![k] = @ + l.count[j], ![j] = 0]]

\* The list that starts at p, read along next; n bounds the walk in case the
\* links run in a circle.
RECURSIVE WalkFrom(_, _, _)
WalkFrom(l, p, n) ==
  IF p = 0 \/ n = 0 THEN <<>> ELSE <<p>> \o WalkFrom(l, l.next[p], n - 1)

Walk(l, k) == WalkFrom(l, l.head[k], NPROC + 1)

\* higherpriority_proc(): the loop along L2.
RECURSIVE FirstHigher(_, _, _, _)
FirstHigher(l, x, p, prio) ==
  IF x = 0 \/ prio[x] > prio[p] THEN x ELSE FirstHigher(l, l.next[x], p, prio)

higherpriority_proc(l, p, prio) == FirstHigher(l, l.head[2], p, prio)

\* How yield(), wakeup1() and kill() put a process on its run queue.
requeue(l, p, lev, prio) ==
  insert(l, lev[p], p, IF lev[p] = 2 THEN higherpriority_proc(l, p, prio) ELSE 0)

\* wakeup1(): the loop along the sleep queue; next is read before p is moved.
RECURSIVE WakeLoop_NextAfter(_, _, _, _, _, _, _)
WakeLoop_NextAfter(l, p, ch, chans, lev, prio, n) ==
  IF p = 0 \/ n = 0 THEN l
  ELSE LET l1 == IF chans[p] = ch THEN requeue(delete(l, SleepQ, p), p, lev, prio) ELSE l
       IN  WakeLoop_NextAfter(l1, l1.next[p], ch, chans, lev, prio, n - 1)
RECURSIVE WakeLoop(_, _, _, _, _, _, _)
WakeLoop(l, p, ch, chans, lev, prio, n) ==
  IF p = 0 \/ n = 0 THEN l
  ELSE LET l1 == IF chans[p] = ch THEN requeue(delete(l, SleepQ, p), p, lev, prio) ELSE l
       IN  WakeLoop(l1, l.next[p], ch, chans, lev, prio, n - 1)

wakeup1(l, ch, chans, lev, prio) ==
  WakeLoop(l, l.head[SleepQ], ch, chans, lev, prio, NPROC + 1)

-----------------------------------------------------------------------------
\* The members of queue k as its list shows them, and a process on no list.
Members(k) == {Walk(L, k)[i] : i \in 1..Len(Walk(L, k))}
Free(p) == \A k \in Queue : p \notin Members(k)

\* pinit() queued every slot; userinit() has dequeued the first.
Init ==
  /\ LET Empty == [head |-> [k \in Queue |-> 0], tail |-> [k \in Queue |-> 0],
                   count |-> [k \in Queue |-> 0],
                   prev |-> [p \in Proc |-> 0], next |-> [p \in Proc |-> 0]]
         pinit[n \in 0..NPROC] == IF n = 0 THEN Empty ELSE insert(pinit[n - 1], UnusedQ, n, 0)
     IN  L = dequeue(pinit[NPROC], UnusedQ)
  /\ level = [p \in Proc |-> 0]
  /\ priority = [p \in Proc |-> PRIO]
  /\ chan = [p \in Proc |-> 0]

Take(k) ==
  /\ ~queue_is_empty(L, k)
  /\ L' = dequeue(L, k)
  /\ chan' = [chan EXCEPT ![L.head[k]] = 0]
  /\ UNCHANGED <<level, priority>>

Put(k, p) ==
  /\ Free(p)
  /\ L' = insert(L, k, p, 0)
  /\ level' = [level EXCEPT ![p] = 0]
  /\ priority' = [priority EXCEPT ![p] = PRIO]
  /\ UNCHANGED chan

Sleep(p, ch) ==
  /\ Free(p)
  /\ L' = insert(L, SleepQ, p, 0)
  /\ chan' = [chan EXCEPT ![p] = ch]
  /\ UNCHANGED <<level, priority>>

PutFirst(p) ==
  /\ Free(p)
  /\ L' = insert(L, 0, p, L.head[0])
  /\ UNCHANGED <<level, priority, chan>>

Requeue(p, l, v) ==
  /\ Free(p)
  /\ level' = [level EXCEPT ![p] = l]
  /\ priority' = [priority EXCEPT ![p] = v]
  /\ L' = requeue(L, p, level', priority')
  /\ UNCHANGED chan

Rearrange(p, v) ==
  /\ p \in Members(2)
  /\ priority' = [priority EXCEPT ![p] = v]
  /\ L' = insert(delete(L, 2, p), 2, p, higherpriority_proc(L, p, priority'))
  /\ UNCHANGED <<level, chan>>

Rouse(p) ==
  /\ p \in Members(SleepQ)
  /\ L' = requeue(delete(L, SleepQ, p), p, level, priority)
  /\ UNCHANGED <<level, priority, chan>>

Wakeup(ch) ==
  /\ L' = wakeup1(L, ch, chan, level, priority)
  /\ UNCHANGED <<level, priority, chan>>

Boost ==
  LET merged == merge_queue(merge_queue(L, 1, 2), 0, 1)
      OnList(k) == {Walk(merged, k)[i] : i \in 1..Len(Walk(merged, k))}
      boosted == OnList(0) \cup OnList(SleepQ)
  IN  /\ L' = merged
      /\ level' = [p \in Proc |-> IF p \in boosted THEN 0 ELSE level[p]]
      /\ priority' = [p \in Proc |-> IF p \in boosted THEN PRIO ELSE priority[p]]
      /\ UNCHANGED chan

Next ==
  \/ \E k \in Queue \ {SleepQ} : Take(k)
  \/ \E k \in {0, UnusedQ}, p \in Proc : Put(k, p)
  \/ \E p \in Proc, ch \in Chan : Sleep(p, ch)
  \/ \E p \in Proc : PutFirst(p) \/ Rouse(p)
  \/ \E p \in Proc, l \in Level, v \in Priorities : Requeue(p, l, v)
  \/ \E p \in Proc, v \in Priorities : Rearrange(p, v)
  \/ \E ch \in Chan : Wakeup(ch)
  \/ Boost

Spec == Init /\ [][Next]_vars

-----------------------------------------------------------------------------
\* The refinement mapping: which list holds a process, who is ahead of whom.
AbsQ ==
  LET w == <<Walk(L, 0), Walk(L, 1), Walk(L, 2), Walk(L, SleepQ), Walk(L, UnusedQ)>>
      Spots == UNION {{<<k, i>> : i \in 1..Len(w[k + 1])} : k \in Queue}
      At(e) == w[e[1] + 1][e[2]]
  IN  [on    |-> [p \in Proc |-> IF \E e \in Spots : At(e) = p
                                 THEN (CHOOSE e \in Spots : At(e) = p)[1] ELSE NoQ],
       ahead |-> {<<At(d), At(e)>> : <<d, e>> \in
                    {s \in Spots \X Spots : s[1][1] = s[2][1] /\ s[1][2] < s[2][2]}},
       count |-> L.count]

\* The lists are well formed: no process is linked twice, prev mirrors next,
\* tail is the last member and count the length.
WellLinked ==
  \A k \in Queue :
    LET w == Walk(L, k)
        n == Len(w)
    IN  /\ n = Cardinality(Members(k))
        /\ L.count[k] = n
        /\ L.tail[k] = IF n = 0 THEN 0 ELSE w[n]
        /\ \A i \in 1..n : L.prev[w[i]] = IF i = 1 THEN 0 ELSE w[i - 1]
        /\ \A j \in Queue \ {k} : Members(j) \cap Members(k) = {}
=============================================================================
