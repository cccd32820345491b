----------------------------- MODULE RunQueues -----------------------------
(***************************************************************************)
(* The five process queues of Project1/proc.c (struct mlfq in proc.h) as   *)
(* ordered sets: the three run queues l_queue[0..2], the sleep queue and   *)
(* the queue of unused slots.  The code links a process into a queue       *)
(* through its prev and next fields; what its callers rely on is only      *)
(* which queue a process is on and which processes are ahead of it there.  *)
(* Module ProcQueue models the linked lists and shows that they implement  *)
(* these operators.                                                        *)
(*                                                                         *)
(* A value q of the queues is a record                                     *)
(*   on[p]    the queue p is linked into, NoQ when it is in none;          *)
(*   ahead    the pairs <<x, y>> of processes of one queue, x nearer to    *)
(*            the head than y;                                             *)
(*   count[k] the count field of queue k.                                  *)
(***************************************************************************)
EXTENDS Integers, FiniteSets

CONSTANT NPROC     \* number of slots of the process table

ASSUME NPROCAssumption == NPROC \in Nat \ {0}

Proc == 1..NPROC   \* a process is its slot of ptable.proc; 0 is the null pointer
NQUEUE == 3
Level == 0..(NQUEUE - 1)
SleepQ == NQUEUE
UnusedQ == NQUEUE + 1
NoQ == NQUEUE + 2
Queue == 0..UnusedQ

QueuesType == [on    : [Proc -> Queue \cup {NoQ}],
               ahead : SUBSET (Proc \X Proc),
               count : [Queue -> Int]]

Members(q, k) == {p \in Proc : q.on[p] = k}

queue_is_empty(q, k) == Members(q, k) = {}

\* p is the head of queue k: the process dequeue() returns.
IsHead(q, k, p) ==
  /\ p \in Members(q, k)
  /\ \A x \in Members(q, k) : <<x, p>> \notin q.ahead

\* new enters queue k behind the members in front and ahead of the others.
Enter(q, k, new, front) ==
  [on    |-> [q.on EXCEPT ![new] = k],
   ahead |-> q.ahead \cup (front \X {new})
                     \cup ({new} \X (Members(q, k) \ front)),
   count |-> [q.count EXCEPT ![k] = @ + 1]]

\* insert(): new goes just ahead of base, or to the tail when base is null.
\* The caller's contract: new is on no queue and base is null or on queue k.
insert(q, k, new, base) ==
  Enter(q, k, new,
        IF base = 0 THEN Members(q, k)
                    ELSE {x \in Members(q, k) : <<x, base>> \in q.ahead})

\* insert(&q, new, q.head): new becomes the head.
insert_head_Tail(q, k, new) == Enter(q, k, new, Members(q, k))
insert_head(q, k, new) == Enter(q, k, new, {})

\* delete(): the caller's contract is that p is on queue k.
delete_Linked(q, k, p) == [q EXCEPT !.count[k] = @ - 1]
delete(q, k, p) ==
  IF queue_is_empty(q, k) THEN q
  ELSE [on    |-> [q.on EXCEPT ![p] = NoQ],
        ahead |-> {e \in q.ahead : e[1] # p /\ e[2] # p},
        count |-> [q.count EXCEPT ![k] = @ - 1]]

\* merge_queue(): the members of queue j go behind those of queue k.
merge_queue_Reversed(q, k, j) ==
  [on    |-> [p \in Proc |-> IF q.on[p] = j THEN k ELSE q.on[p]],
   ahead |-> {e \in q.ahead : q.on[e[1]] # j}
             \cup {<<e[2], e[1]>> : e \in {d \in q.ahead : q.on[d[1]] = j}}
             \cup (Members(q, j) \X Members(q, k)),
   count |-> [q.count EXCEPT ![k] = @ + q.count[j], ![j] = 0]]
merge_queue(q, k, j) ==
  [on    |-> [p \in Proc |-> IF q.on[p] = j THEN k ELSE q.on[p]],
   ahead |-> q.ahead \cup (Members(q, k) \X Members(q, j)),
   count |-> [q.count EXCEPT ![k] = @ + q.count[j], ![j] = 0]]

\* higherpriority_proc(): the first member of L2 whose priority number is
\* larger than p's, 0 when there is none.
higherpriority_proc(q, p, priority) ==
  LET Higher == {x \in Members(q, 2) : priority[x] > priority[p]}
  IN  IF Higher = {} THEN 0
      ELSE CHOOSE x \in Higher : \A y \in Higher : <<y, x>> \notin q.ahead

\* How wakeup1() and kill() put a process back on its run queue.
requeue(q, p, level, priority) ==
  insert(q, level[p], p,
         IF level[p] = 2 THEN higherpriority_proc(q, p, priority) ELSE 0)

\* The effect of the loop of wakeup1() on the queues.  The members of W leave
\* the sleep queue from its head on, each requeued at its level: at the tail
\* of L0 and L1; in L2 behind x exactly when neither x nor a process ahead of
\* x has a larger priority number.
requeue_all(q, W, level, priority) ==
  LET Behind(w, x) ==
        \/ level[w] # 2
        \/ /\ priority[x] <= priority[w]
           /\ \A y \in Members(q, 2) : <<y, x>> \in q.ahead => priority[y] <= priority[w]
      Woken(k) == {w \in W : level[w] = k}
      BehindWoken(w, v) ==
        \/ level[w] # 2 /\ <<v, w>> \in q.ahead
        \/ level[w] = 2 /\ priority[v] < priority[w]
        \/ level[w] = 2 /\ priority[v] = priority[w] /\ <<v, w>> \in q.ahead
  IN  [on    |-> [p \in Proc |-> IF p \in W THEN level[p] ELSE q.on[p]],
       ahead |-> {e \in q.ahead : e[1] \notin W /\ e[2] \notin W}
                 \cup {e \in Proc \X W : e[1] \in Members(q, level[e[2]]) /\ Behind(e[2], e[1])}
                 \cup {e \in W \X Proc : e[2] \in Members(q, level[e[1]]) /\ ~Behind(e[1], e[2])}
                 \cup {e \in W \X W : level[e[1]] = level[e[2]] /\ BehindWoken(e[2], e[1])},
       count |-> [k \in Queue |-> IF k = SleepQ THEN q.count[k] - Cardinality(W)
                                  ELSE q.count[k] + Cardinality(Woken(k))]]

-----------------------------------------------------------------------------
\* Each queue's ahead relation is a strict total order, and it relates only
\* processes of one queue.
Ordered(q) ==
  /\ \A x, y \in Proc : <<x, y>> \in q.ahead =>
       /\ q.on[x] = q.on[y]
       /\ q.on[x] # NoQ
       /\ x # y
       /\ <<y, x>> \notin q.ahead
  /\ \A x, y \in Proc : x # y /\ q.on[x] = q.on[y] /\ q.on[x] # NoQ =>
       <<x, y>> \in q.ahead \/ <<y, x>> \in q.ahead
  /\ \A x, y, z \in Proc : <<x, y>> \in q.ahead /\ <<y, z>> \in q.ahead => <<x, z>> \in q.ahead

\* The run queue L2 is in order of priority number, lowest first.
SortedL2(q, priority) ==
  \A x, y \in Members(q, 2) : <<x, y>> \in q.ahead => priority[x] <= priority[y]
=============================================================================
