--------------------------- MODULE SchedulerProofs ---------------------------
(***************************************************************************)
(* Proofs about Mlfq, for every number of processes and CPUs, every        *)
(* quantum, every boost interval and every set of system calls.  First     *)
(* come the invariant IInv and what it says of lists, life cycle and CPUs; *)
(* then three layers on top of it: OrderInv (the queues are strict orders, *)
(* L2 is sorted, who is in L1 or L2 is at that level), QuantumInv (nobody  *)
(* has the scheduler lock) and OneInv (one CPU runs processes, and nobody  *)
(* waits in a queue that is not that of his level except at the head of    *)
(* L0).                                                                    *)
(***************************************************************************)
EXTENDS MCMlfq, FiniteSetTheorems, WellFoundedInduction, TLAPS

-----------------------------------------------------------------------------
(***************************************************************************)
(* What the queue operators do to the queue a process is on.               *)
(***************************************************************************)

\* A finite number of processes: every set of processes has a cardinality.
LEMMA ProcFinite == \A S \in SUBSET Proc : IsFiniteSet(S) /\ Cardinality(S) \in Nat
<1>1. IsFiniteSet(Proc)
  BY FS_Interval, NPROCAssumption DEF Proc
<1>2. QED
  BY <1>1, FS_Subset, FS_CardinalityType

\* Enter() leaves queues, and moves only the process that enters.
LEMMA EnterType ==
  ASSUME NEW x \in QueuesType, NEW k \in Queue, NEW p \in Proc, NEW F \in SUBSET Proc
  PROVE  /\ Enter(x, k, p, F) \in QueuesType
         /\ Enter(x, k, p, F).on = [x.on EXCEPT ![p] = k]
<1> DEFINE a == x.ahead \cup (F \X {p}) \cup ({p} \X (Members(x, k) \ F))
           o == [x.on EXCEPT ![p] = k]
           n == [x.count EXCEPT ![k] = @ + 1]
<1>1. a \in SUBSET (Proc \X Proc)
  BY DEF QueuesType, Members
<1>2. o \in [Proc -> Queue \cup {NoQ}] /\ n \in [Queue -> Int]
  BY DEF QueuesType
<1>3. Enter(x, k, p, F) = [on |-> o, ahead |-> a, count |-> n]
  BY DEF Enter
<1> HIDE DEF a, o, n
<1>4. Enter(x, k, p, F) \in QueuesType /\ Enter(x, k, p, F).on = o
  BY <1>1, <1>2, <1>3 DEF QueuesType
<1>5. QED
  BY <1>4 DEF o

\* insert() with any base, and so every use of it.
LEMMA InsertType ==
  ASSUME NEW x \in QueuesType, NEW k \in Queue, NEW p \in Proc, NEW b
  PROVE  /\ insert(x, k, p, b) \in QueuesType
         /\ insert(x, k, p, b).on = [x.on EXCEPT ![p] = k]
<1> DEFINE F == IF b = 0 THEN Members(x, k) ELSE {y \in Members(x, k) : <<y, b>> \in x.ahead}
<1>1. F \in SUBSET Proc
  BY DEF Members
<1>2. QED
  BY <1>1, EnterType DEF insert

LEMMA InsertHeadType ==
  ASSUME NEW x \in QueuesType, NEW p \in Proc
  PROVE  /\ insert_head(x, 0, p) \in QueuesType
         /\ insert_head(x, 0, p).on = [x.on EXCEPT ![p] = 0]
<1>1. 0 \in Queue /\ {} \in SUBSET Proc
  BY DEF Queue, UnusedQ, NQUEUE
<1>2. QED
  BY <1>1, EnterType DEF insert_head

\* delete() under its contract, and what is left of it without.
LEMMA DeleteType ==
  ASSUME NEW x \in QueuesType, NEW k \in Queue, NEW p \in Proc
  PROVE  /\ delete(x, k, p) \in QueuesType
         /\ x.on[p] = k => delete(x, k, p).on = [x.on EXCEPT ![p] = NoQ]
         /\ \A y \in Proc \ {p} : delete(x, k, p).on[y] = x.on[y]
<1>1. x.on[p] = k => ~queue_is_empty(x, k)
  BY DEF queue_is_empty, Members
<1>2. QED
  BY <1>1 DEF QueuesType, delete, Queue, NoQ, UnusedQ, NQUEUE

LEMMA RequeueType ==
  ASSUME NEW x \in QueuesType, NEW p \in Proc, NEW lev \in [Proc -> Level], NEW prio
  PROVE  /\ requeue(x, p, lev, prio) \in QueuesType
         /\ requeue(x, p, lev, prio).on = [x.on EXCEPT ![p] = lev[p]]
<1>1. lev[p] \in Queue
  BY DEF Level, Queue, UnusedQ, NQUEUE
<1>2. QED
  BY <1>1, InsertType DEF requeue

\* The members of j move to k.
LEMMA MergeType ==
  ASSUME NEW x \in QueuesType, NEW k \in Queue, NEW j \in Queue
  PROVE  /\ merge_queue(x, k, j) \in QueuesType
         /\ merge_queue(x, k, j).on = [p \in Proc |-> IF x.on[p] = j THEN k ELSE x.on[p]]
  BY DEF QueuesType, merge_queue, Members, Queue, NoQ, UnusedQ, NQUEUE

\* The loop of wakeup1() moves exactly the processes it wakes.
LEMMA RequeueAllType ==
  ASSUME NEW x \in QueuesType, NEW W \in SUBSET Proc, NEW lev \in [Proc -> Level], NEW prio
  PROVE  /\ requeue_all(x, W, lev, prio) \in QueuesType
         /\ requeue_all(x, W, lev, prio).on = [p \in Proc |-> IF p \in W THEN lev[p] ELSE x.on[p]]
<1> DEFINE r == requeue_all(x, W, lev, prio)
           Woken(k) == {w \in W : lev[w] = k}
           Behind(w, y) ==
             \/ lev[w] # 2
             \/ /\ prio[y] <= prio[w]
                /\ \A z \in Members(x, 2) : <<z, y>> \in x.ahead => prio[z] <= prio[w]
           BehindWoken(w, v) ==
             \/ lev[w] # 2 /\ <<v, w>> \in x.ahead
             \/ lev[w] = 2 /\ prio[v] < prio[w]
             \/ lev[w] = 2 /\ prio[v] = prio[w] /\ <<v, w>> \in x.ahead
           A1 == {e \in x.ahead : e[1] \notin W /\ e[2] \notin W}
           A2 == {e \in Proc \X W : e[1] \in Members(x, lev[e[2]]) /\ Behind(e[2], e[1])}
           A3 == {e \in W \X Proc : e[2] \in Members(x, lev[e[1]]) /\ ~Behind(e[1], e[2])}
           A4 == {e \in W \X W : lev[e[1]] = lev[e[2]] /\ BehindWoken(e[2], e[1])}
           cnt == [k \in Queue |-> IF k = SleepQ THEN x.count[k] - Cardinality(W)
                                   ELSE x.count[k] + Cardinality(Woken(k))]
           on1 == [p \in Proc |-> IF p \in W THEN lev[p] ELSE x.on[p]]
<1>1. r = [on |-> on1, ahead |-> A1 \cup A2 \cup A3 \cup A4, count |-> cnt]
  BY Zenon DEF requeue_all
<1>2. A1 \cup A2 \cup A3 \cup A4 \in SUBSET (Proc \X Proc)
  <2>1. A1 \in SUBSET (Proc \X Proc)
    BY DEF QueuesType
  <2>2. A2 \in SUBSET (Proc \X Proc) /\ A3 \in SUBSET (Proc \X Proc) /\ A4 \in SUBSET (Proc \X Proc)
    <3> HIDE DEF Behind, BehindWoken
    <3> QED OBVIOUS
  <2> HIDE DEF A1, A2, A3, A4
  <2>3. QED
    BY <2>1, <2>2
<1>3. cnt \in [Queue -> Int]
  <2>1. Cardinality(W) \in Nat /\ \A k \in Queue : Cardinality(Woken(k)) \in Nat
    BY ProcFinite
  <2>2. x.count \in [Queue -> Int]
    BY DEF QueuesType
  <2> HIDE DEF Woken
  <2>3. QED
    BY <2>1, <2>2
<1>4. on1 \in [Proc -> Queue \cup {NoQ}]
  BY DEF QueuesType, Level, Queue, UnusedQ, NQUEUE
<1> HIDE DEF cnt, on1, A1, A2, A3, A4, r
<1>5. r \in QueuesType /\ r.on = on1
  BY <1>1, <1>2, <1>3, <1>4 DEF QueuesType
<1>6. QED
  BY <1>5 DEF r, on1

-----------------------------------------------------------------------------
(***************************************************************************)
(* Facts the steps share.                                                  *)
(***************************************************************************)

\* The numbers of the queues are distinct.
LEMMA QueueNumbers ==
  /\ Level = {0, 1, 2} /\ SleepQ = 3 /\ UnusedQ = 4 /\ NoQ = 5
  /\ Queue = {0, 1, 2, 3, 4}
  BY DEF Level, SleepQ, UnusedQ, NoQ, Queue, NQUEUE

\* The first process and the channels have the types they should.
LEMMA Constants ==
  /\ initproc \in Proc
  /\ 0 \notin Proc
  /\ \A p \in Proc : p \in Chan /\ p # TICKS /\ p # EVENT
  /\ TICKS \in Chan /\ EVENT \in Chan /\ 0 \in Chan
  BY NPROCAssumption DEF initproc, Proc, Chan, TICKS, EVENT

\* A CPU that runs a process runs one that is RUNNING and on no queue.
LEMMA Runner ==
  ASSUME IInv, NEW c \in CPU, cpu[c] # 0
  PROVE  /\ cpu[c] \in Proc
         /\ state[cpu[c]] = "RUNNING"
         /\ q.on[cpu[c]] = NoQ
<1>1. cpu[c] \in Proc
  BY DEF IInv, TypeOK
<1>2. state[cpu[c]] = "RUNNING"
  BY <1>1 DEF IInv, OneCpuEach
<1>3. q.on[cpu[c]] \in Queue \cup {NoQ}
  BY <1>1 DEF IInv, TypeOK, QueuesType
<1>4. QED
  BY <1>1, <1>2, <1>3, QueueNumbers DEF IInv, QueuesMatchStates

\* The boost check keeps the types, and a boost only moves processes from run
\* queue to run queue.
LEMMA BackType ==
  ASSUME NEW c \in CPU, NEW q1 \in QueuesType, NEW level1 \in [Proc -> Level],
         NEW priority1 \in [Proc -> Int], NEW ticks1 \in [Proc -> 0..TickCap],
         NEW global1 \in 0..BOOST, NEW lock1 \in Proc \cup {0},
         cpu \in [CPU -> Proc \cup {0}],
         BackInScheduler(c, q1, level1, priority1, ticks1, global1, lock1)
  PROVE  /\ q' \in QueuesType
         /\ \A p \in Proc : /\ q'.on[p] \in Level <=> q1.on[p] \in Level
                            /\ q'.on[p] \notin Level => q'.on[p] = q1.on[p]
         /\ queuelevel' \in [Proc -> Level]
         /\ priority' \in [Proc -> Int]
         /\ ticks' \in [Proc -> 0..TickCap]
         /\ global_ticks' \in 0..(BOOST - 1)
         /\ lockproc' \in Proc \cup {0}
         /\ cpu' = [cpu EXCEPT ![c] = 0]
         /\ cpu' \in [CPU -> Proc \cup {0}]
<1>1. cpu' = [cpu EXCEPT ![c] = 0] /\ cpu' \in [CPU -> Proc \cup {0}]
  BY DEF BackInScheduler
<1>t. 0 \in 0..TickCap /\ BOOST \in Nat \ {0} /\ PRIO \in Int
  BY TickAssumption DEF TickCap, Quantum
<1>2. CASE global1 = BOOST
  <2> DEFINE m1 == merge_queue(q1, 1, 2)
             m == merge_queue(m1, 0, 1)
  <2>1. 0 \in Queue /\ 1 \in Queue /\ 2 \in Queue
    BY QueueNumbers
  <2>2. m1 \in QueuesType /\ m1.on = [p \in Proc |-> IF q1.on[p] = 2 THEN 1 ELSE q1.on[p]]
    BY <2>1, MergeType
  <2>3. m \in QueuesType /\ m.on = [p \in Proc |-> IF m1.on[p] = 1 THEN 0 ELSE m1.on[p]]
    <3>1. m1 \in QueuesType
      BY <2>2
    <3> HIDE DEF m1
    <3> QED BY <2>1, <3>1, MergeType
  <2>4. q' = m /\ queuelevel' = Reset(Boosted(m), level1, 0) /\ priority' = Reset(Boosted(m), priority1, PRIO)
        /\ ticks' = Reset(Boosted(m), ticks1, 0) /\ global_ticks' = 0 /\ lockproc' = 0
    BY <1>2 DEF BackInScheduler, MergedLevels
  <2> HIDE DEF m1, m
  <2>5. \A p \in Proc : /\ m.on[p] \in Level <=> q1.on[p] \in Level
                        /\ m.on[p] \notin Level => m.on[p] = q1.on[p]
    BY <2>2, <2>3, QueueNumbers
  <2>6. /\ queuelevel' \in [Proc -> Level] /\ priority' \in [Proc -> Int]
        /\ ticks' \in [Proc -> 0..TickCap]
    BY <2>4, <1>t, QueueNumbers DEF Reset
  <2>7. QED
    BY <1>1, <1>t, <2>3, <2>4, <2>5, <2>6
<1>3. CASE global1 # BOOST
  <2>1. /\ q' = q1 /\ queuelevel' = level1 /\ priority' = priority1 /\ ticks' = ticks1
        /\ global_ticks' = global1 /\ lockproc' = lock1
    BY <1>3 DEF BackInScheduler
  <2>2. QED
    BY <1>1, <1>3, <1>t, <2>1
<1>4. QED
  BY <1>2, <1>3

\* The arguments of the boost check in yield() are well typed, and the yielding
\* process is on a run queue.
LEMMA YieldFacts ==
  ASSUME IInv, NEW c \in CPU, Yield(c)
  PROVE  /\ cpu[c] \in Proc
         /\ q' \in QueuesType
         /\ \A p \in Proc \ {cpu[c]} : /\ q'.on[p] \in Level <=> q.on[p] \in Level
                                       /\ q'.on[p] \notin Level => q'.on[p] = q.on[p]
         /\ q'.on[cpu[c]] \in Level
         /\ queuelevel' \in [Proc -> Level]
         /\ priority' \in [Proc -> Int]
         /\ ticks' \in [Proc -> 0..TickCap]
         /\ global_ticks' \in 0..(BOOST - 1)
         /\ lockproc' \in Proc \cup {0}
         /\ cpu' = [cpu EXCEPT ![c] = 0]
         /\ cpu' \in [CPU -> Proc \cup {0}]
<1> DEFINE p == cpu[c]
           t == Charged(ticks[p])
           spent == ~Keeps(p) /\ t = Quantum(queuelevel[p])
           level1 == [queuelevel EXCEPT ![p] = IF spent THEN Demoted(@) ELSE @]
           priority1 == [priority EXCEPT ![p] = IF spent /\ queuelevel[p] = 2 /\ @ # 0 THEN @ - 1 ELSE @]
           ticks1 == [ticks EXCEPT ![p] = IF spent THEN 0 ELSE t]
           q1 == IF Keeps(p) THEN insert_head(q, 0, p) ELSE requeue(q, p, level1, priority1)
<1>1. p \in Proc
  BY Runner DEF Yield
<1>t. TickCap \in Nat
  BY TickAssumption DEF TickCap, Quantum
<1>2. level1 \in [Proc -> Level]
  <2>1. queuelevel \in [Proc -> Level]
    BY DEF IInv, TypeOK
  <2>2. \A l \in Level : Demoted(l) \in Level
    BY QueueNumbers DEF Demoted
  <2> HIDE DEF spent
  <2>3. QED
    BY <1>1, <2>1, <2>2
<1>3. priority1 \in [Proc -> Int]
  <2>1. priority \in [Proc -> Int]
    BY DEF IInv, TypeOK
  <2> HIDE DEF spent
  <2>2. QED
    BY <1>1, <2>1
<1>4. ticks1 \in [Proc -> 0..TickCap]
  <2>1. ticks \in [Proc -> 0..TickCap]
    BY DEF IInv, TypeOK
  <2>2. t \in 0..TickCap
    BY <1>1, <1>t, <2>1 DEF Charged
  <2> HIDE DEF spent, t
  <2>3. QED
    BY <1>1, <1>t, <2>1, <2>2
<1>5. q \in QueuesType /\ q.on \in [Proc -> Queue \cup {NoQ}]
  BY DEF IInv, TypeOK, QueuesType
<1>6. q1 \in QueuesType /\ \E l \in Level : q1.on = [q.on EXCEPT ![p] = l]
  <2>1. CASE Keeps(p)
    BY <1>1, <1>5, <2>1, InsertHeadType, QueueNumbers
  <2>2. CASE ~Keeps(p)
    <3>1. q1 = requeue(q, p, level1, priority1)
      BY <2>2
    <3> HIDE DEF level1, priority1, p, q1
    <3>2. /\ requeue(q, p, level1, priority1) \in QueuesType
          /\ requeue(q, p, level1, priority1).on = [q.on EXCEPT ![p] = level1[p]]
      BY <1>1, <1>2, <1>5, RequeueType
    <3>3. level1[p] \in Level
      BY <1>1, <1>2
    <3>4. QED
      BY <3>1, <3>2, <3>3
  <2>3. QED
    BY <2>1, <2>2
<1>7. global_ticks + 1 \in 0..BOOST /\ lockproc \in Proc \cup {0} /\ cpu \in [CPU -> Proc \cup {0}]
  BY TickAssumption DEF IInv, TypeOK
<1>8. BackInScheduler(c, q1, level1, priority1, ticks1, global_ticks + 1, lockproc)
  BY DEF Yield
<1> HIDE DEF p, level1, priority1, ticks1, q1
<1>9. /\ q' \in QueuesType
      /\ \A x \in Proc : /\ q'.on[x] \in Level <=> q1.on[x] \in Level
                         /\ q'.on[x] \notin Level => q'.on[x] = q1.on[x]
      /\ queuelevel' \in [Proc -> Level]
      /\ priority' \in [Proc -> Int]
      /\ ticks' \in [Proc -> 0..TickCap]
      /\ global_ticks' \in 0..(BOOST - 1)
      /\ lockproc' \in Proc \cup {0}
      /\ cpu' = [cpu EXCEPT ![c] = 0]
      /\ cpu' \in [CPU -> Proc \cup {0}]
  BY <1>2, <1>3, <1>4, <1>6, <1>7, <1>8, BackType
<1>10. QED
  BY <1>1, <1>5, <1>6, <1>9 DEF p

\* The same for a process that goes to sleep.
LEMMA SleepFacts ==
  ASSUME IInv, NEW c \in CPU, cpu[c] # 0, NEW ch, NEW place, GoToSleep(c, ch, place)
  PROVE  /\ q' \in QueuesType
         /\ \A p \in Proc \ {cpu[c]} : /\ q'.on[p] \in Level <=> q.on[p] \in Level
                                       /\ q'.on[p] \notin Level => q'.on[p] = q.on[p]
         /\ q'.on[cpu[c]] = SleepQ
         /\ queuelevel' \in [Proc -> Level]
         /\ priority' \in [Proc -> Int]
         /\ ticks' \in [Proc -> 0..TickCap]
         /\ global_ticks' \in 0..(BOOST - 1)
         /\ lockproc' \in Proc \cup {0}
         /\ cpu' = [cpu EXCEPT ![c] = 0]
         /\ cpu' \in [CPU -> Proc \cup {0}]
<1> DEFINE q1 == insert(q, SleepQ, cpu[c], 0)
<1>1. cpu[c] \in Proc
  BY Runner
<1>2. q \in QueuesType /\ q.on \in [Proc -> Queue \cup {NoQ}]
  BY DEF IInv, TypeOK, QueuesType
<1>3. q1 \in QueuesType /\ q1.on = [q.on EXCEPT ![cpu[c]] = SleepQ]
  BY <1>1, <1>2, InsertType, QueueNumbers
<1>4. global_ticks \in 0..BOOST /\ cpu \in [CPU -> Proc \cup {0}] /\ queuelevel \in [Proc -> Level]
      /\ priority \in [Proc -> Int] /\ ticks \in [Proc -> 0..TickCap]
  BY TickAssumption DEF IInv, TypeOK
<1>5. BackInScheduler(c, q1, queuelevel, priority, ticks, global_ticks, 0)
  BY DEF GoToSleep
<1> HIDE DEF q1
<1>6. /\ q' \in QueuesType
      /\ \A x \in Proc : /\ q'.on[x] \in Level <=> q1.on[x] \in Level
                         /\ q'.on[x] \notin Level => q'.on[x] = q1.on[x]
      /\ queuelevel' \in [Proc -> Level]
      /\ priority' \in [Proc -> Int]
      /\ ticks' \in [Proc -> 0..TickCap]
      /\ global_ticks' \in 0..(BOOST - 1)
      /\ lockproc' \in Proc \cup {0}
      /\ cpu' = [cpu EXCEPT ![c] = 0]
      /\ cpu' \in [CPU -> Proc \cup {0}]
  BY <1>3, <1>4, <1>5, BackType
<1>7. QED
  BY <1>1, <1>2, <1>3, <1>6, QueueNumbers

\* The same for exit(), with the processes it wakes.
LEMMA ExitFacts ==
  ASSUME IInv, NEW c \in CPU, ExitFinish(c)
  PROVE  \E W \in SUBSET Proc :
         /\ \A p \in W : state[p] = "SLEEPING"
         /\ Sleepers(parent[cpu[c]]) \subseteq W
         /\ ZombieKids(cpu[c]) # {} => Sleepers(initproc) \subseteq W
         /\ state' = [WakeState(W) EXCEPT ![cpu[c]] = "ZOMBIE"]
         /\ q' \in QueuesType
         /\ \A p \in Proc \ W : /\ q'.on[p] \in Level <=> q.on[p] \in Level
                                /\ q'.on[p] \notin Level => q'.on[p] = q.on[p]
         /\ \A p \in W : q'.on[p] \in Level
         /\ queuelevel' \in [Proc -> Level]
         /\ priority' \in [Proc -> Int]
         /\ ticks' \in [Proc -> 0..TickCap]
         /\ global_ticks' \in 0..(BOOST - 1)
         /\ lockproc' \in Proc \cup {0}
         /\ cpu' = [cpu EXCEPT ![c] = 0]
         /\ cpu' \in [CPU -> Proc \cup {0}]
<1> DEFINE p == cpu[c]
           W1 == Sleepers(parent[p])
           W2 == IF WakesInit(p) THEN Sleepers(initproc) \ W1 ELSE {}
           W == W1 \cup W2
           qa == requeue_all(q, W1, queuelevel, priority)
           q1 == requeue_all(qa, W2, queuelevel, priority)
<1>1. W1 \in SUBSET Proc /\ W2 \in SUBSET Proc /\ W \in SUBSET Proc
  BY DEF Sleepers, Members
<1>2. \A x \in W : state[x] = "SLEEPING"
  BY DEF Sleepers, Members, IInv, QueuesMatchStates
<1>3. q \in QueuesType /\ q.on \in [Proc -> Queue \cup {NoQ}]
  BY DEF IInv, TypeOK, QueuesType
<1>4. global_ticks \in 0..BOOST /\ cpu \in [CPU -> Proc \cup {0}] /\ queuelevel \in [Proc -> Level]
      /\ priority \in [Proc -> Int] /\ ticks \in [Proc -> 0..TickCap]
  BY TickAssumption DEF IInv, TypeOK
<1>5. /\ BackInScheduler(c, q1, queuelevel, priority, ticks, global_ticks, 0)
      /\ state' = [WakeState(W) EXCEPT ![p] = "ZOMBIE"]
  BY DEF ExitFinish
<1>6. /\ Sleepers(parent[p]) \subseteq W
      /\ ZombieKids(p) # {} => Sleepers(initproc) \subseteq W
  BY DEF WakesInit
<1> HIDE DEF W1, W2, q1, qa
<1>7. /\ qa \in QueuesType
      /\ qa.on = [x \in Proc |-> IF x \in W1 THEN queuelevel[x] ELSE q.on[x]]
  BY <1>1, <1>3, <1>4, RequeueAllType DEF qa
<1>8. /\ q1 \in QueuesType
      /\ q1.on = [x \in Proc |-> IF x \in W2 THEN queuelevel[x] ELSE qa.on[x]]
  BY <1>1, <1>7, <1>4, RequeueAllType DEF q1
<1>9. /\ q' \in QueuesType
      /\ \A x \in Proc : /\ q'.on[x] \in Level <=> q1.on[x] \in Level
                         /\ q'.on[x] \notin Level => q'.on[x] = q1.on[x]
      /\ queuelevel' \in [Proc -> Level]
      /\ priority' \in [Proc -> Int]
      /\ ticks' \in [Proc -> 0..TickCap]
      /\ global_ticks' \in 0..(BOOST - 1)
      /\ lockproc' \in Proc \cup {0}
      /\ cpu' = [cpu EXCEPT ![c] = 0]
      /\ cpu' \in [CPU -> Proc \cup {0}]
  BY <1>4, <1>5, <1>8, BackType
<1>10. \A x \in Proc \ W : q1.on[x] = q.on[x]
  BY <1>7, <1>8
<1>11. \A x \in W : q1.on[x] \in Level
  BY <1>1, <1>4, <1>7, <1>8
<1> HIDE DEF W
<1>12. QED
  BY <1>1, <1>2, <1>5, <1>6, <1>9, <1>10, <1>11

-----------------------------------------------------------------------------
(***************************************************************************)
(* The invariant holds initially, and every action preserves it.           *)
(***************************************************************************)

LEMMA InitIInv == Init => IInv
<1> SUFFICES ASSUME Init PROVE IInv
  OBVIOUS
<1>t. 0 \in 0..TickCap /\ BOOST \in Nat \ {0} /\ PRIO \in Int /\ NPROC \in Nat \ {0}
  BY TickAssumption, NPROCAssumption DEF TickCap, Quantum
<1>1. q \in QueuesType
  <2> DEFINE o == [p \in Proc |-> IF p = initproc THEN 0 ELSE UnusedQ]
             a == {e \in Proc \X Proc : initproc < e[1] /\ e[1] < e[2]}
             n == [k \in Queue |-> IF k = 0 THEN 1 ELSE IF k = UnusedQ THEN NPROC - 1 ELSE 0]
  <2>1. o \in [Proc -> Queue \cup {NoQ}]
    BY QueueNumbers
  <2>2. n \in [Queue -> Int]
    BY <1>t, QueueNumbers
  <2>3. a \in SUBSET (Proc \X Proc)
    OBVIOUS
  <2>4. q = [on |-> o, ahead |-> a, count |-> n]
    BY DEF Init
  <2> HIDE DEF o, a, n
  <2>5. QED
    BY <2>1, <2>2, <2>3, <2>4 DEF QueuesType
<1>2. TypeOK
  BY <1>1, <1>t, Constants, QueueNumbers DEF Init, TypeOK, State, Place
<1>3. QueuesMatchStates
  BY QueueNumbers DEF Init, QueuesMatchStates
<1>4. OneCpuEach
  BY Constants DEF Init, OneCpuEach
<1>5. SlotOwned /\ ForkPlaces
  BY DEF Init, SlotOwned, ForkPlaces
<1>6. InitStays /\ NoOrphan
  BY Constants DEF Init, InitStays, NoOrphan, Alive
<1>7. NoLostWakeup
  BY DEF Init, NoLostWakeup
<1>8. QED
  BY <1>2, <1>3, <1>4, <1>5, <1>6, <1>7 DEF IInv

LEMMA DispatchStep ==
  ASSUME IInv, NEW c \in CPU, Dispatch(c)
  PROVE  IInv'
<1>1. PICK k \in Level, p \in Proc :
        /\ IsHead(q, k, p)
        /\ q' = delete(q, k, p)
        /\ state' = [state EXCEPT ![p] = "RUNNING"]
        /\ chan' = [chan EXCEPT ![p] = 0]
        /\ cpu' = [cpu EXCEPT ![c] = p]
        /\ ptlock' = IF at[p] = "wait" THEN c ELSE 0
  BY DEF Dispatch
<1>2. q.on[p] = k /\ k \in Queue /\ q \in QueuesType /\ q.on \in [Proc -> Queue \cup {NoQ}]
  BY <1>1, QueueNumbers DEF IsHead, Members, IInv, TypeOK, QueuesType
<1>3. q' \in QueuesType /\ q'.on = [q.on EXCEPT ![p] = NoQ]
  BY <1>1, <1>2, DeleteType
<1>4. state[p] = "RUNNABLE"
  BY <1>2 DEF IInv, QueuesMatchStates
<1>5. TypeOK'
  BY <1>1, <1>3, Constants DEF IInv, TypeOK, Dispatch, State
<1>6. QueuesMatchStates'
  BY <1>1, <1>2, <1>3, QueueNumbers DEF IInv, TypeOK, QueuesMatchStates
<1>7. OneCpuEach'
  BY <1>1, <1>4, Constants DEF IInv, TypeOK, OneCpuEach, Dispatch
<1>8. (SlotOwned /\ ForkPlaces)'
  BY <1>1, <1>4 DEF IInv, TypeOK, SlotOwned, ForkPlaces, Dispatch
<1>9. (InitStays /\ NoOrphan)'
  BY <1>1, <1>4 DEF IInv, TypeOK, InitStays, NoOrphan, Alive, Dispatch
<1>10. NoLostWakeup'
  BY <1>1, <1>4 DEF IInv, TypeOK, NoLostWakeup, ZombieKids, Kids, Dispatch
<1>11. QED
  BY <1>5, <1>6, <1>7, <1>8, <1>9, <1>10 DEF IInv

LEMMA YieldStep ==
  ASSUME IInv, NEW c \in CPU, Yield(c)
  PROVE  IInv'
<1> DEFINE p == cpu[c]
<1>1. p \in Proc /\ state[p] = "RUNNING" /\ q.on[p] = NoQ
  BY Runner DEF Yield
<1>2. /\ state' = [state EXCEPT ![p] = "RUNNABLE"]
      /\ unlockproc' \in Proc \cup {0}
      /\ tick' = [tick EXCEPT ![c] = FALSE]
      /\ UNCHANGED <<parent, chan, killed, haspid, at, child, ptlock, sound>>
  BY DEF Yield, IInv, TypeOK
<1>3. q.on \in [Proc -> Queue \cup {NoQ}]
  BY DEF IInv, TypeOK, QueuesType
<1>5. TypeOK'
  BY <1>1, <1>2, YieldFacts DEF IInv, TypeOK, State
<1>6. QueuesMatchStates'
  BY <1>1, <1>2, <1>3, YieldFacts, QueueNumbers DEF IInv, TypeOK, QueuesMatchStates
<1>7. OneCpuEach'
  BY <1>1, <1>2, YieldFacts, Constants DEF IInv, TypeOK, OneCpuEach
<1>8. (SlotOwned /\ ForkPlaces)'
  BY <1>1, <1>2 DEF IInv, TypeOK, SlotOwned, ForkPlaces
<1>9. (InitStays /\ NoOrphan)'
  BY <1>1, <1>2 DEF IInv, TypeOK, InitStays, NoOrphan, Alive
<1>10. NoLostWakeup'
  BY <1>1, <1>2 DEF IInv, TypeOK, NoLostWakeup, ZombieKids, Kids
<1>11. QED
  BY <1>5, <1>6, <1>7, <1>8, <1>9, <1>10 DEF IInv

\* Common to Sleep and WaitSleep: whoever goes to sleep is not in fork(), and
\* in wait() only without a zombie child.
LEMMA GoToSleepStep ==
  ASSUME IInv, NEW c \in CPU, cpu[c] # 0, NEW ch \in Chan, NEW place \in Place,
         GoToSleep(c, ch, place),
         at[cpu[c]] # "fork", place # "fork",
         place = "exit" => at[cpu[c]] = "exit",
         place = "wait" => /\ ch = cpu[c]
                           /\ Kids(cpu[c]) # {} /\ ZombieKids(cpu[c]) = {}
                           /\ ~killed[cpu[c]],
         UNCHANGED <<parent, killed, haspid, child, unlockproc, tick, sound>>,
         ptlock' \in {ptlock, 0}
  PROVE  IInv'
<1> DEFINE p == cpu[c]
<1>1. p \in Proc /\ state[p] = "RUNNING" /\ q.on[p] = NoQ
  BY Runner
<1>2. /\ state' = [state EXCEPT ![p] = "SLEEPING"]
      /\ chan' = [chan EXCEPT ![p] = ch]
      /\ at' = [at EXCEPT ![p] = place]
  BY DEF GoToSleep
<1>3. q.on \in [Proc -> Queue \cup {NoQ}]
  BY DEF IInv, TypeOK, QueuesType
<1>5. TypeOK'
  BY <1>1, <1>2, SleepFacts DEF IInv, TypeOK, State
<1>6. QueuesMatchStates'
  BY <1>1, <1>2, <1>3, SleepFacts, QueueNumbers DEF IInv, TypeOK, QueuesMatchStates
<1>7. OneCpuEach'
  BY <1>1, <1>2, SleepFacts, Constants DEF IInv, TypeOK, OneCpuEach
<1>8. (SlotOwned /\ ForkPlaces)'
  BY <1>1, <1>2 DEF IInv, TypeOK, SlotOwned, ForkPlaces
<1>9. (InitStays /\ NoOrphan)'
  BY <1>1, <1>2 DEF IInv, TypeOK, InitStays, NoOrphan, Alive
<1>10. NoLostWakeup'
  BY <1>1, <1>2 DEF IInv, TypeOK, NoLostWakeup, ZombieKids, Kids
<1>11. QED
  BY <1>5, <1>6, <1>7, <1>8, <1>9, <1>10 DEF IInv

LEMMA SleepStep ==
  ASSUME IInv, NEW c \in CPU, NEW ch \in {TICKS, EVENT}, Sleep(c, ch)
  PROVE  IInv'
<1> DEFINE place == IF RunsAt(c, "exit") THEN "exit" ELSE "kernel"
<1>1. ch \in Chan /\ place \in Place
  BY Constants DEF Place
<1>2. /\ cpu[c] # 0 /\ at[cpu[c]] # "fork"
      /\ place \notin {"fork", "wait"}
      /\ place = "exit" => at[cpu[c]] = "exit"
  BY DEF Sleep, Enters, RunsAt
<1>3. /\ GoToSleep(c, ch, place)
      /\ UNCHANGED <<parent, killed, haspid, child, unlockproc, tick, sound>>
      /\ ptlock' = ptlock
  BY DEF Sleep
<1> HIDE DEF place
<1>4. QED
  BY <1>1, <1>2, <1>3, GoToSleepStep

LEMMA WaitSleepStep ==
  ASSUME IInv, NEW c \in CPU, WaitSleep(c)
  PROVE  IInv'
<1>1. cpu[c] # 0 /\ at[cpu[c]] # "fork"
  BY DEF WaitSleep, Waits, Enters, RunsAt
<1>2. cpu[c] \in Proc /\ cpu[c] \in Chan /\ "wait" \in Place
  BY <1>1, Runner, Constants DEF Place
<1>3. /\ GoToSleep(c, cpu[c], "wait")
      /\ Kids(cpu[c]) # {} /\ ZombieKids(cpu[c]) = {} /\ ~killed[cpu[c]]
      /\ UNCHANGED <<parent, killed, haspid, child, unlockproc, tick, sound>>
      /\ ptlock' = 0
  BY DEF WaitSleep, GivesUp
<1>4. QED
  BY <1>1, <1>2, <1>3, GoToSleepStep

\* Common to Event and Timer: waking everyone asleep on a channel.
LEMMA WakeupStep ==
  ASSUME IInv, NEW ch, Wakeup(ch) \/ UNCHANGED <<state, q>>,
         UNCHANGED <<parent, chan, killed, haspid, at, child, priority, queuelevel, ticks,
                     global_ticks, lockproc, unlockproc, cpu, ptlock, sound>>,
         tick' \in [CPU -> BOOLEAN]
  PROVE  IInv'
<1>1. PICK W \in SUBSET Proc :
        /\ \A p \in W : state[p] = "SLEEPING"
        /\ state' = WakeState(W)
        /\ q' \in QueuesType
        /\ q'.on = [p \in Proc |-> IF p \in W THEN queuelevel[p] ELSE q.on[p]]
  <2>1. q \in QueuesType /\ q.on \in [Proc -> Queue \cup {NoQ}] /\ queuelevel \in [Proc -> Level]
    BY DEF IInv, TypeOK, QueuesType
  <2>2. CASE Wakeup(ch)
    <3>1. Sleepers(ch) \in SUBSET Proc /\ \A p \in Sleepers(ch) : state[p] = "SLEEPING"
      BY DEF Sleepers, Members, IInv, QueuesMatchStates
    <3>2. QED
      BY <2>1, <2>2, <3>1, RequeueAllType DEF Wakeup
  <2>3. CASE UNCHANGED <<state, q>>
    <3>1. state' = WakeState({})
      BY <2>3 DEF WakeState, IInv, TypeOK
    <3>2. q' \in QueuesType /\ q'.on = [p \in Proc |-> IF p \in {} THEN queuelevel[p] ELSE q.on[p]]
      BY <2>1, <2>3
    <3>3. QED
      BY <3>1, <3>2
  <2>4. QED
    BY <2>2, <2>3
<1>2. state' = [p \in Proc |-> IF p \in W THEN "RUNNABLE" ELSE state[p]]
  BY <1>1 DEF WakeState
<1>5. TypeOK'
  BY <1>1, <1>2 DEF IInv, TypeOK, State
<1>6. QueuesMatchStates'
  BY <1>1, <1>2, QueueNumbers DEF IInv, TypeOK, QueuesMatchStates
<1>7. OneCpuEach'
  BY <1>1, <1>2 DEF IInv, TypeOK, OneCpuEach
<1>8. (SlotOwned /\ ForkPlaces)'
  BY <1>1, <1>2 DEF IInv, TypeOK, SlotOwned, ForkPlaces
<1>9. (InitStays /\ NoOrphan)'
  <2>1. InitStays'
    BY <1>1, <1>2, Constants DEF IInv, InitStays, Alive
  <2>2. NoOrphan'
    BY <1>1, <1>2 DEF IInv, TypeOK, NoOrphan, Alive
  <2>3. QED
    BY <2>1, <2>2
<1>10. NoLostWakeup'
  BY <1>1, <1>2 DEF IInv, TypeOK, NoLostWakeup, ZombieKids, Kids
<1>11. QED
  BY <1>5, <1>6, <1>7, <1>8, <1>9, <1>10 DEF IInv

LEMMA EventStep ==
  ASSUME IInv, Event PROVE IInv'
<1>1. tick' \in [CPU -> BOOLEAN]
  BY DEF Event, IInv, TypeOK
<1>2. QED
  BY <1>1, WakeupStep DEF Event

LEMMA TimerStep ==
  ASSUME IInv, NEW c \in CPU, Timer(c) PROVE IInv'
<1>1. tick' \in [CPU -> BOOLEAN]
  BY DEF Timer, IInv, TypeOK
<1>2. QED
  BY <1>1, WakeupStep DEF Timer

\* The steps that only change where a process is, who is to be killed, or the
\* scheduler's own fields.
LEMMA LightStep ==
  ASSUME IInv, NEW c \in CPU,
         \/ SyscallReturn(c) \/ ExitBegin(c) \/ WaitFails(c) \/ SchedulerLock(c) \/ SchedulerUnlock(c)
         \/ \E t \in Proc : KillZero(c, t)
  PROVE  IInv'
<1>1. /\ UNCHANGED <<state, parent, chan, haspid, child, q, cpu, tick, sound>>
      /\ ptlock' \in {ptlock, 0}
  BY DEF SyscallReturn, ExitBegin, WaitFails, SchedulerLock, SchedulerUnlock, KillZero, schedVars
<1>2. /\ cpu[c] \in Proc /\ state[cpu[c]] = "RUNNING"
      /\ at[cpu[c]] # "fork"
      /\ at' = at \/ at' = [at EXCEPT ![cpu[c]] = "user"]
         \/ (cpu[c] # initproc /\ at' = [at EXCEPT ![cpu[c]] = "exit"])
  <2>1. cpu[c] # 0 /\ at[cpu[c]] # "fork"
    BY DEF SyscallReturn, ExitBegin, WaitFails, SchedulerLock, SchedulerUnlock, KillZero, Traps,
           Waits, Enters, RunsAt
  <2>2. cpu[c] \in Proc /\ state[cpu[c]] = "RUNNING"
    BY <2>1, Runner
  <2>3. killed[cpu[c]] => cpu[c] # initproc
    BY DEF IInv, InitStays
  <2>4. at = [at EXCEPT ![cpu[c]] = at[cpu[c]]]
    BY <2>2 DEF IInv, TypeOK
  <2>5. QED
    BY <2>1, <2>2, <2>3, <2>4 DEF SyscallReturn, ExitBegin, WaitFails, SchedulerLock, SchedulerUnlock,
       KillZero, AfterTrap, schedVars
<1>3. \/ killed' = killed
      \/ \E t \in Proc : killed' = [killed EXCEPT ![t] = TRUE] /\ ~haspid[t]
  BY DEF SyscallReturn, ExitBegin, WaitFails, SchedulerLock, SchedulerUnlock, KillZero
<1>4. TypeOK'
  <2>1. /\ priority' \in [Proc -> Int] /\ queuelevel' \in [Proc -> Level]
        /\ ticks' \in [Proc -> 0..TickCap] /\ global_ticks' \in 0..(BOOST - 1)
        /\ lockproc' \in Proc \cup {0} /\ unlockproc' \in Proc \cup {0}
    <3>1. /\ priority \in [Proc -> Int] /\ queuelevel \in [Proc -> Level]
          /\ ticks \in [Proc -> 0..TickCap] /\ global_ticks \in 0..(BOOST - 1)
          /\ lockproc \in Proc \cup {0} /\ unlockproc \in Proc \cup {0}
      BY DEF IInv, TypeOK
    <3>2. 0 \in 0..TickCap /\ 0 \in 0..(BOOST - 1) /\ PRIO \in Int /\ 0 \in Level
      BY TickAssumption, QueueNumbers DEF TickCap, Quantum
    <3>3. QED
      BY <1>2, <3>1, <3>2 DEF SyscallReturn, ExitBegin, WaitFails, SchedulerLock, SchedulerUnlock,
         KillZero, schedVars
  <2>2. at' \in [Proc -> Place] /\ killed' \in [Proc -> BOOLEAN]
    BY <1>2, <1>3 DEF IInv, TypeOK, Place
  <2>3. QED
    BY <1>1, <2>1, <2>2 DEF IInv, TypeOK
<1>5. QueuesMatchStates' /\ OneCpuEach'
  BY <1>1 DEF IInv, QueuesMatchStates, OneCpuEach
<1>6. (SlotOwned /\ ForkPlaces)'
  BY <1>1, <1>2 DEF IInv, TypeOK, SlotOwned, ForkPlaces
<1>7. (InitStays /\ NoOrphan)'
  <2>1. ~killed'[initproc]
    BY <1>3, Constants DEF IInv, TypeOK, InitStays, Alive
  <2>2. at'[initproc] # "exit"
    BY <1>2, Constants DEF IInv, TypeOK, InitStays
  <2>3. QED
    BY <1>1, <2>1, <2>2 DEF IInv, InitStays, NoOrphan
<1>8. NoLostWakeup'
  BY <1>1, <1>2, <1>3 DEF IInv, TypeOK, InitStays, NoLostWakeup, ZombieKids, Kids
<1>9. QED
  BY <1>4, <1>5, <1>6, <1>7, <1>8 DEF IInv

LEMMA ForkAllocStep ==
  ASSUME IInv, NEW c \in CPU, ForkAlloc(c) PROVE IInv'
<1> DEFINE p == cpu[c]
<1>1. PICK np \in Proc :
        /\ IsHead(q, UnusedQ, np)
        /\ q' = delete(q, UnusedQ, np)
        /\ state' = [state EXCEPT ![np] = "EMBRYO"]
        /\ haspid' = [haspid EXCEPT ![np] = TRUE]
        /\ priority' = [priority EXCEPT ![np] = PRIO]
        /\ queuelevel' = [queuelevel EXCEPT ![np] = 0]
        /\ ticks' = [ticks EXCEPT ![np] = 0]
        /\ child' = [child EXCEPT ![p] = np]
  BY DEF ForkAlloc
<1>2. /\ at' = [at EXCEPT ![p] = "fork"] /\ at[p] = "user"
      /\ UNCHANGED <<parent, chan, killed, global_ticks, lockproc, unlockproc, cpu, tick, ptlock, sound>>
  BY DEF ForkAlloc, Enters, RunsAt
<1>3. p \in Proc /\ state[p] = "RUNNING"
  BY Runner DEF ForkAlloc, Enters, RunsAt
<1>4. q.on[np] = UnusedQ /\ UnusedQ \in Queue /\ q \in QueuesType /\ q.on \in [Proc -> Queue \cup {NoQ}]
  BY <1>1, QueueNumbers DEF IsHead, Members, IInv, TypeOK, QueuesType
<1>5. q' \in QueuesType /\ q'.on = [q.on EXCEPT ![np] = NoQ]
  BY <1>1, <1>4, DeleteType
<1>6. state[np] = "UNUSED" /\ np # 0
  BY <1>4, Constants DEF IInv, QueuesMatchStates
<1>7. TypeOK'
  <2>1. 0 \in 0..TickCap /\ PRIO \in Int /\ 0 \in Level
    BY TickAssumption, QueueNumbers DEF TickCap, Quantum
  <2>2. QED
    BY <1>1, <1>2, <1>3, <1>5, <2>1 DEF IInv, TypeOK, State, Place
<1>8. QueuesMatchStates'
  BY <1>1, <1>4, <1>5, QueueNumbers DEF IInv, TypeOK, QueuesMatchStates
<1>9. OneCpuEach'
  BY <1>1, <1>2, <1>6 DEF IInv, TypeOK, OneCpuEach
<1>10. (SlotOwned /\ ForkPlaces)'
  BY <1>1, <1>2, <1>3, <1>6 DEF IInv, TypeOK, SlotOwned, ForkPlaces
<1>11. (InitStays /\ NoOrphan)'
  <2>1. InitStays'
    BY <1>1, <1>2, <1>3, <1>6, Constants DEF IInv, TypeOK, InitStays, Alive
  <2>2. NoOrphan'
    BY <1>1, <1>2, <1>6 DEF IInv, TypeOK, NoOrphan, Alive
  <2>3. QED
    BY <2>1, <2>2
<1>12. NoLostWakeup'
  BY <1>1, <1>2, <1>3, <1>6 DEF IInv, TypeOK, NoLostWakeup, ZombieKids, Kids
<1>13. QED
  BY <1>7, <1>8, <1>9, <1>10, <1>11, <1>12 DEF IInv

LEMMA ForkFailStep ==
  ASSUME IInv, NEW c \in CPU, ForkFail(c) PROVE IInv'
<1> DEFINE p == cpu[c]
           np == child[p]
<1>1. /\ state' = [state EXCEPT ![np] = "UNUSED"]
      /\ q' = insert(q, UnusedQ, np, 0)
      /\ child' = [child EXCEPT ![p] = 0]
      /\ at' = [at EXCEPT ![p] = "user"] /\ at[p] = "fork"
      /\ UNCHANGED <<parent, chan, killed, haspid, priority, queuelevel, ticks,
                     global_ticks, lockproc, unlockproc, cpu, tick, ptlock, sound>>
  BY DEF ForkFail, RunsAt
<1>2. p \in Proc /\ state[p] = "RUNNING"
  BY Runner DEF ForkFail, RunsAt
<1>3. np \in Proc /\ state[np] = "EMBRYO"
  BY <1>1, <1>2 DEF IInv, TypeOK, SlotOwned
<1>4. q \in QueuesType /\ q.on \in [Proc -> Queue \cup {NoQ}] /\ UnusedQ \in Queue
  BY QueueNumbers DEF IInv, TypeOK, QueuesType
<1>5. q' \in QueuesType /\ q'.on = [q.on EXCEPT ![np] = UnusedQ]
  BY <1>1, <1>3, <1>4, InsertType
<1> HIDE DEF np, p
<1>7. TypeOK'
  BY <1>1, <1>2, <1>3, <1>5 DEF IInv, TypeOK, State, Place
<1>8. QueuesMatchStates'
  BY <1>1, <1>3, <1>4, <1>5, QueueNumbers DEF IInv, TypeOK, QueuesMatchStates
<1>9. OneCpuEach'
  BY <1>1, <1>3 DEF IInv, TypeOK, OneCpuEach
<1>10. (SlotOwned /\ ForkPlaces)'
  BY <1>1, <1>2, <1>3, Constants DEF IInv, TypeOK, SlotOwned, ForkPlaces, np
<1>11. (InitStays /\ NoOrphan)'
  <2>1. InitStays'
    BY <1>1, <1>2, <1>3, Constants DEF IInv, TypeOK, InitStays, Alive
  <2>2. NoOrphan'
    BY <1>1, <1>3 DEF IInv, TypeOK, NoOrphan, Alive
  <2>3. QED
    BY <2>1, <2>2
<1>12. NoLostWakeup'
  BY <1>1, <1>2, <1>3 DEF IInv, TypeOK, NoLostWakeup, ZombieKids, Kids
<1>13. QED
  BY <1>7, <1>8, <1>9, <1>10, <1>11, <1>12 DEF IInv

LEMMA ForkDoneStep ==
  ASSUME IInv, NEW c \in CPU, ForkDone(c) PROVE IInv'
<1> DEFINE p == cpu[c]
           np == child[p]
<1>1. /\ state' = [state EXCEPT ![np] = "RUNNABLE"]
      /\ parent' = [parent EXCEPT ![np] = p]
      /\ q' = insert(q, 0, np, 0)
      /\ child' = [child EXCEPT ![p] = 0]
      /\ at' = [at EXCEPT ![p] = "user", ![np] = "user"] /\ at[p] = "fork"
      /\ UNCHANGED <<chan, killed, haspid, priority, queuelevel, ticks,
                     global_ticks, lockproc, unlockproc, cpu, tick, ptlock, sound>>
  BY DEF ForkDone, RunsAt
<1>2. p \in Proc /\ state[p] = "RUNNING"
  BY Runner DEF ForkDone, RunsAt
<1>3. np \in Proc /\ state[np] = "EMBRYO" /\ parent[np] = 0 /\ np # initproc /\ np # p
  BY <1>1, <1>2 DEF IInv, TypeOK, SlotOwned, InitStays, Alive
<1>4. q \in QueuesType /\ q.on \in [Proc -> Queue \cup {NoQ}] /\ 0 \in Queue
  BY QueueNumbers DEF IInv, TypeOK, QueuesType
<1>5. q' \in QueuesType /\ q'.on = [q.on EXCEPT ![np] = 0]
  BY <1>1, <1>3, <1>4, InsertType
<1>6. \A x \in Proc : at[x] = "fork" /\ x # p => at'[x] = "fork" /\ child[x] # np
  BY <1>1, <1>2, <1>3 DEF IInv, TypeOK, SlotOwned, ForkPlaces
<1> HIDE DEF np, p
<1>7. TypeOK'
  BY <1>1, <1>2, <1>3, <1>5 DEF IInv, TypeOK, State, Place
<1>8. QueuesMatchStates'
  BY <1>1, <1>3, <1>4, <1>5, QueueNumbers DEF IInv, TypeOK, QueuesMatchStates
<1>9. OneCpuEach'
  BY <1>1, <1>3 DEF IInv, TypeOK, OneCpuEach
<1>10. (SlotOwned /\ ForkPlaces)'
  BY <1>1, <1>2, <1>3, <1>6, Constants DEF IInv, TypeOK, SlotOwned, ForkPlaces
<1>11. (InitStays /\ NoOrphan)'
  <2>1. InitStays'
    BY <1>1, <1>2, <1>3, Constants DEF IInv, TypeOK, InitStays, Alive
  <2>2. NoOrphan'
    BY <1>1, <1>2, <1>3, Constants DEF IInv, TypeOK, NoOrphan, Alive
  <2>3. QED
    BY <2>1, <2>2
<1>12. NoLostWakeup'
  <2>1. \A x \in Proc : Kids(x) \subseteq Kids(x)' /\ ZombieKids(x)' \subseteq ZombieKids(x)
    BY <1>1, <1>2, <1>3, Constants DEF IInv, TypeOK, ZombieKids, Kids
  <2>2. \A x \in Proc : (state[x] = "SLEEPING" /\ at[x] = "wait")' =>
           state[x] = "SLEEPING" /\ at[x] = "wait"
    BY <1>1, <1>2, <1>3 DEF IInv, TypeOK
  <2> HIDE DEF IInv
  <2>3. NoLostWakeup
    BY DEF IInv
  <2>4. QED
    BY <1>1, <2>1, <2>2, <2>3 DEF NoLostWakeup
<1>13. QED
  BY <1>7, <1>8, <1>9, <1>10, <1>11, <1>12 DEF IInv

LEMMA ExitFinishStep ==
  ASSUME IInv, NEW c \in CPU, ExitFinish(c) PROVE IInv'
<1> DEFINE p == cpu[c]
<1>1. PICK W \in SUBSET Proc :
         /\ \A x \in W : state[x] = "SLEEPING"
         /\ Sleepers(parent[p]) \subseteq W
         /\ ZombieKids(p) # {} => Sleepers(initproc) \subseteq W
         /\ state' = [WakeState(W) EXCEPT ![p] = "ZOMBIE"]
         /\ q' \in QueuesType
         /\ \A x \in Proc \ W : /\ q'.on[x] \in Level <=> q.on[x] \in Level
                                /\ q'.on[x] \notin Level => q'.on[x] = q.on[x]
         /\ \A x \in W : q'.on[x] \in Level
         /\ queuelevel' \in [Proc -> Level]
         /\ priority' \in [Proc -> Int]
         /\ ticks' \in [Proc -> 0..TickCap]
         /\ global_ticks' \in 0..(BOOST - 1)
         /\ lockproc' \in Proc \cup {0}
         /\ cpu' = [cpu EXCEPT ![c] = 0]
         /\ cpu' \in [CPU -> Proc \cup {0}]
  BY ExitFacts
<1>2. p \in Proc /\ state[p] = "RUNNING" /\ q.on[p] = NoQ /\ at[p] = "exit"
  BY Runner DEF ExitFinish, RunsAt
<1>3. /\ parent' = [x \in Proc |-> IF parent[x] = p THEN initproc ELSE parent[x]]
      /\ UNCHANGED <<chan, killed, haspid, at, child, unlockproc, tick, ptlock, sound>>
  BY DEF ExitFinish, Reparented, Kids
<1>4. p # initproc /\ initproc \in Proc /\ p \notin W
  BY <1>1, <1>2, Constants DEF IInv, InitStays
<1>5. state' = [x \in Proc |-> IF x = p THEN "ZOMBIE" ELSE IF x \in W THEN "RUNNABLE" ELSE state[x]]
  BY <1>1, <1>2 DEF WakeState
<1>6. q.on \in [Proc -> Queue \cup {NoQ}]
  BY DEF IInv, TypeOK, QueuesType
<1> HIDE DEF p
<1>7. TypeOK'
  BY <1>1, <1>3, <1>4, <1>5 DEF IInv, TypeOK, State
<1>8. QueuesMatchStates'
  BY <1>1, <1>2, <1>4, <1>5, <1>6, QueueNumbers DEF IInv, QueuesMatchStates
<1>9. OneCpuEach'
  BY <1>1, <1>2, <1>5, Constants DEF IInv, TypeOK, OneCpuEach, p
<1>10. (SlotOwned /\ ForkPlaces)'
  BY <1>1, <1>2, <1>3, <1>5 DEF IInv, TypeOK, SlotOwned, ForkPlaces
<1>11. (InitStays /\ NoOrphan)'
  <2>1. InitStays'
    BY <1>1, <1>2, <1>3, <1>4, <1>5, Constants DEF IInv, TypeOK, InitStays, Alive
  <2>2. NoOrphan'
    BY <1>1, <1>2, <1>3, <1>4, <1>5, Constants DEF IInv, TypeOK, InitStays, NoOrphan, Alive
  <2>3. QED
    BY <2>1, <2>2
<1>12. NoLostWakeup'
  <2> SUFFICES ASSUME NEW x \in Proc, (state[x] = "SLEEPING" /\ at[x] = "wait")'
               PROVE  (/\ chan[x] = x
                       /\ Kids(x) # {}
                       /\ ZombieKids(x) = {}
                       /\ ~killed[x])'
    BY DEF NoLostWakeup
  <2>1. x \notin W /\ x # p /\ state[x] = "SLEEPING" /\ at[x] = "wait"
    BY <1>3, <1>5
  <2>2. chan[x] = x /\ Kids(x) # {} /\ ZombieKids(x) = {} /\ ~killed[x]
    BY <2>1 DEF IInv, NoLostWakeup
  <2>3. x \in Sleepers(x)
    BY <2>1, <2>2 DEF Sleepers, Members, IInv, QueuesMatchStates
  <2>4. parent[p] # x
    BY <1>1, <2>1, <2>3
  <2>5. Kids(x)' # {}
    BY <1>3, <2>1, <2>2 DEF Kids
  <2>6. ASSUME NEW z \in Proc, parent'[z] = x, state'[z] = "ZOMBIE"
        PROVE  FALSE
    <3>1. CASE z = p
      BY <1>2, <1>3, <2>4, <2>6, <3>1 DEF IInv, InitStays
    <3>2. CASE z # p
      <4>1. state[z] = "ZOMBIE"
        BY <1>1, <1>5, <2>6, <3>2
      <4>2. parent[z] # x
        BY <2>2, <4>1 DEF ZombieKids, Kids
      <4>3. parent[z] = p /\ x = initproc
        BY <1>3, <2>6, <4>2
      <4>4. ZombieKids(p) # {}
        BY <4>1, <4>3 DEF ZombieKids, Kids
      <4>5. QED
        BY <1>1, <2>1, <2>3, <4>3, <4>4
    <3>3. QED
      BY <3>1, <3>2
  <2>7. ZombieKids(x)' = {}
    BY <2>6 DEF ZombieKids, Kids
  <2>8. QED
    BY <1>3, <2>2, <2>5, <2>7
<1>13. QED
  BY <1>7, <1>8, <1>9, <1>10, <1>11, <1>12 DEF IInv

LEMMA WaitReapStep ==
  ASSUME IInv, NEW c \in CPU, WaitReap(c) PROVE IInv'
<1> DEFINE p == cpu[c]
<1>1. PICK z \in ZombieKids(p) :
        /\ state' = [state EXCEPT ![z] = "UNUSED"]
        /\ haspid' = [haspid EXCEPT ![z] = FALSE]
        /\ parent' = [parent EXCEPT ![z] = 0]
        /\ killed' = [killed EXCEPT ![z] = FALSE]
        /\ priority' = [priority EXCEPT ![z] = PRIO]
        /\ queuelevel' = [queuelevel EXCEPT ![z] = 0]
        /\ ticks' = [ticks EXCEPT ![z] = 0]
        /\ q' = insert(q, UnusedQ, z, 0)
  BY DEF WaitReap
<1>2. /\ at' = [at EXCEPT ![p] = "user"] /\ at[p] # "fork"
      /\ ptlock' = 0
      /\ UNCHANGED <<chan, child, global_ticks, lockproc, unlockproc, cpu, tick, sound>>
  BY DEF WaitReap, Waits, Enters, RunsAt
<1>3. p \in Proc /\ state[p] = "RUNNING"
  BY Runner DEF WaitReap, Waits, Enters, RunsAt
<1>4. z \in Proc /\ state[z] = "ZOMBIE" /\ parent[z] = p /\ z # initproc
  BY DEF ZombieKids, Kids, IInv, InitStays, Alive
<1>5. q \in QueuesType /\ q.on \in [Proc -> Queue \cup {NoQ}] /\ UnusedQ \in Queue
  BY QueueNumbers DEF IInv, TypeOK, QueuesType
<1>6. q' \in QueuesType /\ q'.on = [q.on EXCEPT ![z] = UnusedQ]
  BY <1>1, <1>4, <1>5, InsertType
<1> HIDE DEF p
<1>7. TypeOK'
  <2>1. 0 \in 0..TickCap /\ PRIO \in Int /\ 0 \in Level
    BY TickAssumption, QueueNumbers DEF TickCap, Quantum
  <2>2. QED
    BY <1>1, <1>2, <1>3, <1>4, <1>6, <2>1 DEF IInv, TypeOK, State, Place
<1>8. QueuesMatchStates'
  BY <1>1, <1>4, <1>5, <1>6, QueueNumbers DEF IInv, TypeOK, QueuesMatchStates
<1>9. OneCpuEach'
  BY <1>1, <1>2, <1>4 DEF IInv, TypeOK, OneCpuEach
<1>10. (SlotOwned /\ ForkPlaces)'
  BY <1>1, <1>2, <1>3, <1>4 DEF IInv, TypeOK, SlotOwned, ForkPlaces
<1>11. (InitStays /\ NoOrphan)'
  <2>1. InitStays'
    BY <1>1, <1>2, <1>3, <1>4, Constants DEF IInv, TypeOK, InitStays, Alive
  <2>2. NoOrphan'
    BY <1>1, <1>4 DEF IInv, TypeOK, NoOrphan, Alive
  <2>3. QED
    BY <2>1, <2>2
<1>12. NoLostWakeup'
  <2>1. \A x \in Proc \ {p} : Kids(x) = Kids(x)' /\ ZombieKids(x)' = ZombieKids(x)
    BY <1>1, <1>4, Constants DEF IInv, TypeOK, ZombieKids, Kids
  <2>2. \A x \in Proc : (state[x] = "SLEEPING" /\ at[x] = "wait")' =>
           /\ state[x] = "SLEEPING" /\ at[x] = "wait"
           /\ x # p /\ x # z
    BY <1>1, <1>2, <1>3, <1>4 DEF IInv, TypeOK
  <2>3. \A x \in Proc : x # z => killed'[x] = killed[x]
    BY <1>1 DEF IInv, TypeOK
  <2>4. NoLostWakeup
    BY DEF IInv
  <2>5. QED
    BY <1>2, <2>1, <2>2, <2>3, <2>4 DEF NoLostWakeup
<1>13. QED
  BY <1>7, <1>8, <1>9, <1>10, <1>11, <1>12 DEF IInv

LEMMA KillStep ==
  ASSUME IInv, NEW c \in CPU, NEW t \in Proc, Kill(c, t) PROVE IInv'
<1>1. /\ t # initproc
      /\ killed' = [killed EXCEPT ![t] = TRUE]
      /\ UNCHANGED <<parent, chan, haspid, priority, queuelevel, ticks, at, child,
                     global_ticks, lockproc, unlockproc, cpu, tick, ptlock, sound>>
  BY DEF Kill
<1>2. q \in QueuesType /\ q.on \in [Proc -> Queue \cup {NoQ}] /\ queuelevel \in [Proc -> Level]
  BY DEF IInv, TypeOK, QueuesType
<1>3. /\ q' \in QueuesType
      /\ \/ /\ state[t] = "SLEEPING"
            /\ state' = [state EXCEPT ![t] = "RUNNABLE"]
            /\ q'.on = [q.on EXCEPT ![t] = queuelevel[t]]
         \/ /\ state[t] # "SLEEPING" /\ state' = state /\ q' = q
  <2>1. CASE state[t] = "SLEEPING"
    <3> DEFINE d == delete(q, SleepQ, t)
    <3>1. q.on[t] = SleepQ /\ SleepQ \in Queue
      BY <2>1, QueueNumbers DEF IInv, QueuesMatchStates
    <3>2. d \in QueuesType /\ d.on = [q.on EXCEPT ![t] = NoQ]
      BY <1>2, <3>1, DeleteType
    <3>3. q' = requeue(d, t, queuelevel, priority) /\ state' = [state EXCEPT ![t] = "RUNNABLE"]
      BY <2>1 DEF Kill
    <3> HIDE DEF d
    <3>4. q' \in QueuesType /\ q'.on = [d.on EXCEPT ![t] = queuelevel[t]]
      BY <1>2, <3>2, <3>3, RequeueType
    <3>5. q'.on = [q.on EXCEPT ![t] = queuelevel[t]]
      BY <1>2, <3>2, <3>4
    <3>6. QED
      BY <2>1, <3>3, <3>4, <3>5
  <2>2. CASE state[t] # "SLEEPING"
    BY <1>2, <2>2 DEF Kill
  <2>3. QED
    BY <2>1, <2>2
<1>7. TypeOK'
  BY <1>1, <1>3 DEF IInv, TypeOK, State
<1>8. QueuesMatchStates'
  BY <1>2, <1>3, QueueNumbers DEF IInv, TypeOK, QueuesMatchStates
<1>9. OneCpuEach'
  BY <1>1, <1>3 DEF IInv, TypeOK, OneCpuEach
<1>10. (SlotOwned /\ ForkPlaces)'
  BY <1>1, <1>3 DEF IInv, TypeOK, SlotOwned, ForkPlaces
<1>11. (InitStays /\ NoOrphan)'
  <2>1. InitStays'
    BY <1>1, <1>3, Constants DEF IInv, TypeOK, InitStays, Alive
  <2>2. NoOrphan'
    BY <1>1, <1>3 DEF IInv, TypeOK, NoOrphan, Alive
  <2>3. QED
    BY <2>1, <2>2
<1>12. NoLostWakeup'
  BY <1>1, <1>3 DEF IInv, TypeOK, NoLostWakeup, ZombieKids, Kids
<1>13. QED
  BY <1>7, <1>8, <1>9, <1>10, <1>11, <1>12 DEF IInv

LEMMA SetPriorityStep ==
  ASSUME IInv, NEW c \in CPU, NEW t \in Proc, NEW v \in Priorities, SetPriority(c, t, v) PROVE IInv'
<1> DEFINE priority1 == [priority EXCEPT ![t] = v]
           base == higherpriority_proc(q, t, priority1)
           d == delete(q, 2, t)
<1>1. /\ priority' = priority1
      /\ q' = IF Moves(t) THEN insert(d, 2, t, base) ELSE q
      /\ sound' \in BOOLEAN
      /\ UNCHANGED <<state, parent, chan, killed, haspid, at, child, queuelevel, ticks,
                     global_ticks, lockproc, unlockproc, cpu, tick, ptlock>>
  BY DEF SetPriority, procVars
<1>2. q \in QueuesType /\ q.on \in [Proc -> Queue \cup {NoQ}] /\ 2 \in Queue
  BY QueueNumbers DEF IInv, TypeOK, QueuesType
<1>3. d \in QueuesType /\ \A y \in Proc \ {t} : d.on[y] = q.on[y]
  BY <1>2, DeleteType
<1>4. priority' \in [Proc -> Int]
  BY <1>1, PriorityAssumption DEF IInv, TypeOK
<1> HIDE DEF d, base
<1>5. /\ insert(d, 2, t, base) \in QueuesType
      /\ insert(d, 2, t, base).on = [d.on EXCEPT ![t] = 2]
  BY <1>2, <1>3, InsertType
<1>6. d.on \in [Proc -> Queue \cup {NoQ}]
  BY <1>3 DEF QueuesType
<1>7. TypeOK'
  BY <1>1, <1>2, <1>4, <1>5 DEF IInv, TypeOK
<1>8. QueuesMatchStates'
  BY <1>1, <1>2, <1>3, <1>5, <1>6, QueueNumbers DEF IInv, QueuesMatchStates, Moves
<1>9. (OneCpuEach /\ SlotOwned /\ ForkPlaces /\ InitStays /\ NoOrphan /\ NoLostWakeup)'
  BY <1>1 DEF IInv, OneCpuEach, SlotOwned, ForkPlaces, InitStays, NoOrphan, NoLostWakeup, ZombieKids, Kids
<1>10. QED
  BY <1>7, <1>8, <1>9 DEF IInv

\* A step that changes nothing.
LEMMA StutterStep == ASSUME IInv, UNCHANGED vars PROVE IInv'
  BY DEF vars, IInv, TypeOK, QueuesMatchStates, OneCpuEach, SlotOwned, ForkPlaces, InitStays,
         NoOrphan, NoLostWakeup, ZombieKids, Kids

-----------------------------------------------------------------------------
\* The invariant of the process life cycle is inductive: one step per action.
THEOREM Invariance == Spec => []IInv
<1>1. Init => IInv
  BY InitIInv
<1>2. IInv /\ [Next]_vars => IInv'
  <2> SUFFICES ASSUME IInv, [Next]_vars PROVE IInv'
    OBVIOUS
  <2>1. CASE UNCHANGED vars
    BY <2>1, StutterStep
  <2>2. CASE Event
    BY <2>2, EventStep
  <2>3. ASSUME NEW c \in CPU, Step(c) PROVE IInv'
    <3>1. CASE Dispatch(c)
      BY <3>1, DispatchStep
    <3>2. CASE Yield(c)
      BY <3>2, YieldStep
    <3>3. CASE \E ch \in {TICKS, EVENT} : Sleep(c, ch)
      BY <3>3, SleepStep
    <3>4. CASE Timer(c)
      BY <3>4, TimerStep
    <3>5. CASE ForkAlloc(c)
      BY <3>5, ForkAllocStep
    <3>6. CASE ForkFail(c)
      BY <3>6, ForkFailStep
    <3>7. CASE ForkDone(c)
      BY <3>7, ForkDoneStep
    <3>8. CASE ExitFinish(c)
      BY <3>8, ExitFinishStep
    <3>9. CASE WaitReap(c)
      BY <3>9, WaitReapStep
    <3>10. CASE WaitSleep(c)
      BY <3>10, WaitSleepStep
    <3>11. CASE \E t \in Proc : Kill(c, t)
      BY <3>11, KillStep
    <3>12. CASE \E t \in Proc, v \in Priorities : SetPriority(c, t, v)
      BY <3>12, SetPriorityStep
    <3>13. CASE \/ SyscallReturn(c) \/ ExitBegin(c) \/ WaitFails(c) \/ SchedulerLock(c)
                \/ SchedulerUnlock(c) \/ \E t \in Proc : KillZero(c, t)
      BY <3>13, LightStep
    <3>14. QED
      BY <2>3, <3>1, <3>2, <3>3, <3>4, <3>5, <3>6, <3>7, <3>8, <3>9, <3>10, <3>11, <3>12, <3>13
         DEF Step
  <2>4. QED
    BY <2>1, <2>2, <2>3 DEF Next
<1>3. QED
  BY <1>1, <1>2, PTL DEF Spec

\* Type correctness.
THEOREM TypeCorrect == Spec => []TypeOK
<1>1. IInv => TypeOK
  BY DEF IInv
<1>2. QED
  BY <1>1, Invariance, PTL

\* On any number of CPUs, no process is lost by the queues: RUNNABLE processes
\* and only they are on the run queues, and so for the sleeping and unused ones.
THEOREM QueuesCorrect == Spec => []QueuesMatchStates
<1>1. IInv => QueuesMatchStates
  BY DEF IInv
<1>2. QED
  BY <1>1, Invariance, PTL

\* No process runs on two CPUs, and every RUNNING process has one.
THEOREM CpusCorrect == Spec => []OneCpuEach
<1>1. IInv => OneCpuEach
  BY DEF IInv
<1>2. QED
  BY <1>1, Invariance, PTL

\* allocproc() gives every fork() a slot of its own.
THEOREM SlotsCorrect == Spec => []SlotOwned
<1>1. IInv => SlotOwned
  BY DEF IInv
<1>2. QED
  BY <1>1, Invariance, PTL

\* No parent sleeps in wait() while it has a zombie child.
THEOREM WakeupsCorrect == Spec => []NoLostWakeup
<1>1. IInv => NoLostWakeup
  BY DEF IInv
<1>2. QED
  BY <1>1, Invariance, PTL

\* Every process has a parent that is alive, through any sequence of exits.
THEOREM ParentsCorrect == Spec => []NoOrphan
<1>1. IInv => NoOrphan
  BY DEF IInv
<1>2. QED
  BY <1>1, Invariance, PTL

-----------------------------------------------------------------------------
(***************************************************************************)
(* Order, quanta, boosts and the scheduler lock.                           *)
(***************************************************************************)

\* x is nearer to the head of its queue than y.
Ahead(r, x, y) == <<x, y>> \in r.ahead
Counts(r) == \A k \in Queue : r.count[k] = Cardinality(Members(r, k))
InOrder(r, prio) == Ordered(r) /\ SortedL2(r, prio) /\ Counts(r)

\* A front of queue k, behind which a process can enter: with a member, what is ahead of it.
Front(r, k, F) ==
  F \subseteq Members(r, k) /\ \A y \in Members(r, k), z \in F : Ahead(r, y, z) => y \in F

\* What waits in a run queue of r waits in one of e, behind the same processes.
StaysAhead(r, e) ==
  \A x, y \in Proc : Ahead(r, x, y) /\ r.on[x] \in Level => Ahead(e, x, y) /\ e.on[x] \in Level

\* A process in L1 or L2 is at that level; in L0 there may be one that yield() put first.
OnLevel(r, lev) == \A p \in Proc : r.on[p] \in {1, 2} => lev[p] = r.on[p]

\* What an ordered set of queues is, in terms of Ahead.
LEMMA OrderedIs ==
  ASSUME NEW r
  PROVE  Ordered(r) <=>
           /\ \A x, y \in Proc : Ahead(r, x, y) =>
                r.on[x] = r.on[y] /\ r.on[x] # NoQ /\ x # y /\ ~Ahead(r, y, x)
           /\ \A x, y \in Proc : x # y /\ r.on[x] = r.on[y] /\ r.on[x] # NoQ =>
                Ahead(r, x, y) \/ Ahead(r, y, x)
           /\ \A x, y, z \in Proc : Ahead(r, x, y) /\ Ahead(r, y, z) => Ahead(r, x, z)
BY DEF Ordered, Ahead

\* Some member of a nonempty set is not behind another: the queues are finite.
LEMMA FirstExists ==
  ASSUME NEW r \in QueuesType, Ordered(r), NEW S \in SUBSET Proc, S # {}
  PROVE  \E x \in S : \A y \in S : ~Ahead(r, y, x)
<1>. DEFINE P(x) == {y \in Proc : Ahead(r, y, x)}
            T == {P(x) : x \in S}
            R == StrictSubsetOrdering(Proc)
<1>1. IsWellFoundedOn(R, SUBSET Proc)
  <2>1. IsFiniteSet(Proc)
    BY ProcFinite
  <2>2. FiniteSubsetsOf(Proc) = SUBSET Proc
    BY <2>1, FS_FiniteSubsetsOfFinite
  <2>. QED  BY <2>2, FS_StrictSubsetOrderingWellFounded
<1>2. T \subseteq SUBSET Proc /\ T # {}
  OBVIOUS
<1>3. \E t \in T : \A u \in T : <<u, t>> \notin R
  <2>. HIDE DEF T, R
  <2>. QED  BY <1>1, <1>2, WFMin
<1>4. PICK x \in S : \A u \in T : <<u, P(x)>> \notin R
  BY <1>3
<1>5. ASSUME NEW y \in S, Ahead(r, y, x)
      PROVE  FALSE
  <2>1. P(y) \subseteq P(x)
    BY <1>5, OrderedIs
  <2>2. y \in P(x) /\ y \notin P(y)
    BY <1>5, OrderedIs
  <2>3. P(y) \in SUBSET Proc /\ P(x) \in SUBSET Proc /\ P(y) # P(x) /\ P(y) \in T
    BY <2>2
  <2>. HIDE DEF P, T
  <2>4. <<P(y), P(x)>> \in R
    BY <2>1, <2>3 DEF StrictSubsetOrdering
  <2>. QED  BY <1>4, <2>3, <2>4
<1>. QED  BY <1>4, <1>5

\* e is r once p has entered queue k behind F.
Entered(e, r, k, p, F) ==
  /\ \A y \in Proc : e.on[y] = IF y = p THEN k ELSE r.on[y]
  /\ \A y, z \in Proc : Ahead(e, y, z) <=> \/ Ahead(r, y, z)
                                           \/ y \in F /\ z = p
                                           \/ y = p /\ r.on[z] = k /\ z \notin F
  /\ \A j \in Queue : e.count[j] = IF j = k THEN r.count[j] + 1 ELSE r.count[j]

\* Enter() puts p into queue k behind F and moves nobody else.
LEMMA EnterIs ==
  ASSUME NEW r \in QueuesType, NEW k \in Queue, NEW p \in Proc, NEW F \in SUBSET Proc,
         NEW e, e = Enter(r, k, p, F)
  PROVE  Entered(e, r, k, p, F)
<1>1. /\ e.on = [r.on EXCEPT ![p] = k]
      /\ e.ahead = r.ahead \cup (F \X {p}) \cup ({p} \X (Members(r, k) \ F))
      /\ e.count = [r.count EXCEPT ![k] = @ + 1]
  BY DEF Enter
<1>2. \A y \in Proc : e.on[y] = IF y = p THEN k ELSE r.on[y]
  BY <1>1 DEF QueuesType
<1>3. ASSUME NEW y \in Proc, NEW z \in Proc
      PROVE  Ahead(e, y, z) <=> \/ Ahead(r, y, z)
                                \/ y \in F /\ z = p
                                \/ y = p /\ r.on[z] = k /\ z \notin F
  <2>1. <<y, z>> \in F \X {p} <=> y \in F /\ z = p
    OBVIOUS
  <2>2. <<y, z>> \in {p} \X (Members(r, k) \ F) <=> y = p /\ r.on[z] = k /\ z \notin F
    BY DEF Members
  <2>. QED  BY <1>1, <2>1, <2>2 DEF Ahead
<1>4. \A j \in Queue : e.count[j] = IF j = k THEN r.count[j] + 1 ELSE r.count[j]
  BY <1>1 DEF QueuesType
<1>. QED  BY <1>2, <1>3, <1>4 DEF Entered

\* A process without a queue enters one behind a front of it.
LEMMA EnterOrder ==
  ASSUME NEW r \in QueuesType, Ordered(r), Counts(r), NEW k \in Queue, NEW p \in Proc,
         r.on[p] = NoQ, NEW F, Front(r, k, F), NEW e, e = Enter(r, k, p, F)
  PROVE  Ordered(e) /\ Counts(e) /\ StaysAhead(r, e)
<1>f. F \in SUBSET Proc /\ (\A y \in F : r.on[y] = k) /\ k # NoQ
  BY QueueNumbers DEF Front, Members
<1>a. /\ \A y \in Proc : e.on[y] = IF y = p THEN k ELSE r.on[y]
      /\ \A y, z \in Proc : Ahead(e, y, z) <=> \/ Ahead(r, y, z)
                                               \/ y \in F /\ z = p
                                               \/ y = p /\ r.on[z] = k /\ z \notin F
      /\ \A j \in Queue : e.count[j] = IF j = k THEN r.count[j] + 1 ELSE r.count[j]
  BY <1>f, EnterIs DEF Entered
<1>1. ASSUME NEW x \in Proc, NEW y \in Proc, Ahead(e, x, y)
      PROVE  e.on[x] = e.on[y] /\ e.on[x] # NoQ /\ x # y /\ ~Ahead(e, y, x)
  BY <1>1, <1>a, <1>f, OrderedIs
<1>2. ASSUME NEW x \in Proc, NEW y \in Proc, x # y, e.on[x] = e.on[y], e.on[x] # NoQ
      PROVE  Ahead(e, x, y) \/ Ahead(e, y, x)
  <2>1. CASE x = p
    <3>1. y \in F \/ r.on[y] = k
      BY <1>2, <1>a, <2>1
    <3>. QED  BY <1>2, <1>a, <1>f, <2>1, <3>1
  <2>2. CASE y = p
    <3>1. x \in F \/ r.on[x] = k
      BY <1>2, <1>a, <2>2
    <3>. QED  BY <1>2, <1>a, <1>f, <2>2, <3>1
  <2>3. CASE x # p /\ y # p
    BY <1>2, <1>a, <2>3, OrderedIs
  <2>. QED  BY <2>1, <2>2, <2>3
<1>3. ASSUME NEW x \in Proc, NEW y \in Proc, NEW z \in Proc, Ahead(e, x, y), Ahead(e, y, z)
      PROVE  Ahead(e, x, z)
  <2>0. \A u \in Proc : ~Ahead(r, u, p) /\ ~Ahead(r, p, u)
    BY OrderedIs
  <2>1. CASE x = p
    BY <1>3, <1>a, <1>f, <2>0, <2>1, OrderedIs DEF Front, Members
  <2>2. CASE y = p
    BY <1>3, <1>a, <1>f, <2>0, <2>2, OrderedIs DEF Front, Members
  <2>3. CASE z = p
    BY <1>3, <1>a, <1>f, <2>0, <2>3, OrderedIs DEF Front, Members
  <2>4. CASE x # p /\ y # p /\ z # p
    BY <1>3, <1>a, <2>4, OrderedIs
  <2>. QED  BY <2>1, <2>2, <2>3, <2>4
<1>4. Ordered(e)
  BY <1>1, <1>2, <1>3, OrderedIs
<1>5. ASSUME NEW j \in Queue
      PROVE  e.count[j] = Cardinality(Members(e, j))
  <2>1. CASE j = k
    <3>1. Members(e, k) = Members(r, k) \cup {p} /\ p \notin Members(r, k)
      BY <1>a, <1>f DEF Members
    <3>2. IsFiniteSet(Members(r, k))
      BY ProcFinite DEF Members
    <3>3. Cardinality(Members(e, k)) = Cardinality(Members(r, k)) + 1
      BY <3>1, <3>2, FS_AddElement
    <3>. QED  BY <1>a, <2>1, <3>3 DEF Counts
  <2>2. CASE j # k
    <3>1. Members(e, j) = Members(r, j)
      BY <1>a, <2>2, QueueNumbers DEF Members
    <3>. QED  BY <1>a, <2>2, <3>1 DEF Counts
  <2>. QED  BY <2>1, <2>2
<1>6. StaysAhead(r, e)
  BY <1>a, OrderedIs, QueueNumbers DEF StaysAhead
<1>. QED  BY <1>4, <1>5, <1>6 DEF Counts

\* dito, with the priorities of L2.
LEMMA EnterSorted ==
  ASSUME NEW r \in QueuesType, Ordered(r), NEW k \in Queue, NEW p \in Proc,
         r.on[p] = NoQ, NEW F, Front(r, k, F), NEW prio \in [Proc -> Int], SortedL2(r, prio),
         k = 2 => /\ \A y \in F : prio[y] <= prio[p]
                  /\ \A y \in Members(r, 2) \ F : prio[p] <= prio[y],
         NEW e, e = Enter(r, k, p, F)
  PROVE  SortedL2(e, prio)
<1>f. F \in SUBSET Proc /\ (\A y \in F : r.on[y] = k) /\ k # NoQ
  BY QueueNumbers DEF Front, Members
<1>a. /\ \A y \in Proc : e.on[y] = IF y = p THEN k ELSE r.on[y]
      /\ \A y, z \in Proc : Ahead(e, y, z) <=> \/ Ahead(r, y, z)
                                               \/ y \in F /\ z = p
                                               \/ y = p /\ r.on[z] = k /\ z \notin F
      /\ \A j \in Queue : e.count[j] = IF j = k THEN r.count[j] + 1 ELSE r.count[j]
  BY <1>f, EnterIs DEF Entered
<1>1. ASSUME NEW x \in Proc, NEW y \in Proc, e.on[x] = 2, e.on[y] = 2, Ahead(e, x, y)
      PROVE  prio[x] <= prio[y]
  <2>1. CASE Ahead(r, x, y)
    <3>1. x # p /\ y # p
      BY <2>1, OrderedIs
    <3>. QED  BY <1>1, <1>a, <2>1, <3>1 DEF SortedL2, Members, Ahead
  <2>2. CASE ~Ahead(r, x, y)
    BY <1>1, <1>a, <1>f, <2>2 DEF Members
  <2>. QED  BY <2>1, <2>2
<1>. QED  BY <1>1 DEF SortedL2, Members, Ahead

\* How insert() finds its place in L2: b is the first of those with a larger priority number.
PlaceFor(r, p, b, prio) ==
  \/ b = 0 /\ \A y \in Members(r, 2) : prio[y] <= prio[p]
  \/ /\ b \in Members(r, 2) /\ prio[p] < prio[b]
     /\ \A y \in Members(r, 2) : Ahead(r, y, b) => prio[y] <= prio[p]

\* higherpriority_proc() finds the place in L2 that keeps the queue sorted.
LEMMA HigherIs ==
  ASSUME NEW r \in QueuesType, Ordered(r), NEW p \in Proc, NEW prio \in [Proc -> Int]
  PROVE  PlaceFor(r, p, higherpriority_proc(r, p, prio), prio)
<1>. DEFINE Higher == {x \in Members(r, 2) : prio[x] > prio[p]}
            b == higherpriority_proc(r, p, prio)
<1>1. CASE Higher = {}
  <2>1. b = 0
    BY <1>1 DEF higherpriority_proc
  <2>2. \A y \in Members(r, 2) : prio[y] <= prio[p]
    BY <1>1 DEF Members
  <2>. QED  BY <2>1, <2>2 DEF PlaceFor
<1>2. CASE Higher # {}
  <2>1. Higher \in SUBSET Proc
    BY DEF Members
  <2>2. \E x \in Higher : \A y \in Higher : ~Ahead(r, y, x)
    <3>. HIDE DEF Higher
    <3>. QED  BY <1>2, <2>1, FirstExists
  <2>3. b = CHOOSE x \in Higher : \A y \in Higher : <<y, x>> \notin r.ahead
    BY <1>2 DEF higherpriority_proc
  <2>4. b \in Higher /\ \A y \in Higher : ~Ahead(r, y, b)
    <3>. HIDE DEF Higher, b
    <3>. QED  BY <2>2, <2>3 DEF Ahead
  <2>. HIDE DEF b
  <2>5. \A y \in Members(r, 2) : Ahead(r, y, b) => prio[y] <= prio[p]
    BY <2>4 DEF Members
  <2>. QED  BY <2>4, <2>5 DEF PlaceFor, b
<1>. QED  BY <1>1, <1>2

\* A process that is on no queue goes to the tail.
LEMMA TailOrder ==
  ASSUME NEW r \in QueuesType, NEW prio \in [Proc -> Int], InOrder(r, prio),
         NEW k \in Queue \ {2}, NEW p \in Proc, r.on[p] = NoQ
  PROVE  InOrder(insert(r, k, p, 0), prio) /\ StaysAhead(r, insert(r, k, p, 0))
<1>1. insert(r, k, p, 0) = Enter(r, k, p, Members(r, k))
  BY DEF insert
<1>2. Front(r, k, Members(r, k))
  BY DEF Front
<1>. QED  BY <1>1, <1>2, EnterOrder, EnterSorted DEF InOrder

\* yield() by the holder of the lock: p goes to the head of L0.
LEMMA HeadOrder ==
  ASSUME NEW r \in QueuesType, NEW prio \in [Proc -> Int], InOrder(r, prio),
         NEW p \in Proc, r.on[p] = NoQ
  PROVE  InOrder(insert_head(r, 0, p), prio) /\ StaysAhead(r, insert_head(r, 0, p))
<1>1. insert_head(r, 0, p) = Enter(r, 0, p, {}) /\ 0 \in Queue
  BY QueueNumbers DEF insert_head
<1>2. Front(r, 0, {})
  BY DEF Front
<1>. QED  BY <1>1, <1>2, EnterOrder, EnterSorted DEF InOrder

\* A process enters L2 at its place.
LEMMA PlaceOrder ==
  ASSUME NEW r \in QueuesType, NEW prio \in [Proc -> Int], InOrder(r, prio),
         NEW p \in Proc, r.on[p] = NoQ, NEW b, PlaceFor(r, p, b, prio)
  PROVE  InOrder(insert(r, 2, p, b), prio) /\ StaysAhead(r, insert(r, 2, p, b))
<1>. DEFINE F == IF b = 0 THEN Members(r, 2) ELSE {x \in Members(r, 2) : <<x, b>> \in r.ahead}
<1>1. insert(r, 2, p, b) = Enter(r, 2, p, F) /\ 2 \in Queue
  BY QueueNumbers DEF insert
<1>2. CASE b = 0
  <2>1. F = Members(r, 2) /\ b \notin Members(r, 2)
    BY <1>2, Constants DEF Members
  <2>2. Front(r, 2, F) /\ \A y \in F : prio[y] <= prio[p]
    BY <2>1 DEF Front, PlaceFor
  <2>. HIDE DEF F
  <2>. QED  BY <1>1, <2>1, <2>2, EnterOrder, EnterSorted DEF InOrder
<1>3. CASE b # 0
  <2>1. /\ b \in Members(r, 2) /\ prio[p] < prio[b] /\ b \in Proc
        /\ \A y \in Members(r, 2) : Ahead(r, y, b) => prio[y] <= prio[p]
    BY <1>3 DEF PlaceFor, Members
  <2>2. \A y : y \in F <=> y \in Members(r, 2) /\ Ahead(r, y, b)
    BY <1>3 DEF Ahead
  <2>. HIDE DEF F
  <2>3. Front(r, 2, F)
    <3>1. ASSUME NEW y \in Members(r, 2), NEW z \in F, Ahead(r, y, z)
          PROVE  Ahead(r, y, b)
      BY <2>1, <2>2, <3>1, OrderedIs DEF Members, InOrder
    <3>. QED  BY <2>2, <3>1 DEF Front
  <2>4. ASSUME NEW y \in Members(r, 2) \ F
        PROVE  prio[p] <= prio[y]
    <3>1. y \in Proc /\ r.on[y] = 2 /\ r.on[b] = 2 /\ ~Ahead(r, y, b)
      BY <2>1, <2>2 DEF Members
    <3>2. y = b \/ Ahead(r, b, y)
      BY <2>1, <3>1, OrderedIs, QueueNumbers DEF InOrder
    <3>3. prio[b] <= prio[y]
      BY <2>1, <3>1, <3>2 DEF InOrder, SortedL2, Ahead
    <3>. QED  BY <2>1, <3>1, <3>3
  <2>5. \A y \in F : prio[y] <= prio[p]
    BY <2>1, <2>2
  <2>. QED  BY <1>1, <2>3, <2>4, <2>5, EnterOrder, EnterSorted DEF InOrder
<1>. QED  BY <1>2, <1>3

\* Back on the run queue of its level.
LEMMA RequeueOrder ==
  ASSUME NEW r \in QueuesType, NEW prio \in [Proc -> Int], InOrder(r, prio),
         NEW p \in Proc, r.on[p] = NoQ, NEW lev \in [Proc -> Level]
  PROVE  InOrder(requeue(r, p, lev, prio), prio) /\ StaysAhead(r, requeue(r, p, lev, prio))
<1>1. CASE lev[p] = 2
  <2>1. requeue(r, p, lev, prio) = insert(r, 2, p, higherpriority_proc(r, p, prio))
    BY <1>1 DEF requeue
  <2>2. PlaceFor(r, p, higherpriority_proc(r, p, prio), prio)
    BY HigherIs DEF InOrder
  <2>. QED  BY <2>1, <2>2, PlaceOrder
<1>2. CASE lev[p] # 2
  <2>1. requeue(r, p, lev, prio) = insert(r, lev[p], p, 0) /\ lev[p] \in Queue \ {2}
    BY <1>2, QueueNumbers DEF requeue
  <2>. QED  BY <2>1, TailOrder
<1>. QED  BY <1>1, <1>2

\* delete() of a process from the queue it is on.
Deleted(e, r, k, p) ==
  /\ \A y \in Proc : e.on[y] = IF y = p THEN NoQ ELSE r.on[y]
  /\ \A y, z \in Proc : Ahead(e, y, z) <=> Ahead(r, y, z) /\ y # p /\ z # p
  /\ \A j \in Queue : e.count[j] = IF j = k THEN r.count[j] - 1 ELSE r.count[j]

\* delete() from the queue a process is on unlinks that process only.
LEMMA DeleteIs ==
  ASSUME NEW r \in QueuesType, NEW k \in Queue, NEW p \in Members(r, k),
         NEW e, e = delete(r, k, p)
  PROVE  Deleted(e, r, k, p)
<1>1. p \in Proc /\ ~queue_is_empty(r, k)
  BY DEF queue_is_empty, Members
<1>2. /\ e.on = [r.on EXCEPT ![p] = NoQ]
      /\ e.ahead = {d \in r.ahead : d[1] # p /\ d[2] # p}
      /\ e.count = [r.count EXCEPT ![k] = @ - 1]
  BY <1>1 DEF delete
<1>3. \A y \in Proc : e.on[y] = IF y = p THEN NoQ ELSE r.on[y]
  BY <1>2 DEF QueuesType
<1>4. \A y, z \in Proc : Ahead(e, y, z) <=> Ahead(r, y, z) /\ y # p /\ z # p
  BY <1>2 DEF Ahead
<1>5. \A j \in Queue : e.count[j] = IF j = k THEN r.count[j] - 1 ELSE r.count[j]
  BY <1>2 DEF QueuesType
<1>. QED  BY <1>3, <1>4, <1>5 DEF Deleted

\* delete() keeps the queues in order.
LEMMA DeleteOrder ==
  ASSUME NEW r \in QueuesType, NEW prio \in [Proc -> Int], InOrder(r, prio),
         NEW k \in Queue, NEW p \in Members(r, k)
  PROVE  InOrder(delete(r, k, p), prio)
<1>. DEFINE e == delete(r, k, p)
<1>a. /\ \A y \in Proc : e.on[y] = IF y = p THEN NoQ ELSE r.on[y]
      /\ \A y, z \in Proc : Ahead(e, y, z) <=> Ahead(r, y, z) /\ y # p /\ z # p
      /\ \A j \in Queue : e.count[j] = IF j = k THEN r.count[j] - 1 ELSE r.count[j]
  BY DeleteIs DEF Deleted
<1>. HIDE DEF e
<1>1. Ordered(e)
  BY <1>a, OrderedIs DEF InOrder
<1>2. SortedL2(e, prio)
  BY <1>a, QueueNumbers DEF InOrder, SortedL2, Members, Ahead
<1>3. ASSUME NEW j \in Queue
      PROVE  e.count[j] = Cardinality(Members(e, j))
  <2>1. CASE j = k
    <3>1. Members(e, k) = Members(r, k) \ {p}
      BY <1>a, QueueNumbers DEF Members
    <3>2. IsFiniteSet(Members(r, k))
      BY ProcFinite DEF Members
    <3>3. Cardinality(Members(e, k)) = Cardinality(Members(r, k)) - 1
      BY <3>1, <3>2, FS_RemoveElement
    <3>. QED  BY <1>a, <2>1, <3>3 DEF Counts, InOrder
  <2>2. CASE j # k
    <3>1. Members(e, j) = Members(r, j)
      BY <1>a, <2>2, QueueNumbers DEF Members
    <3>. QED  BY <1>a, <2>2, <3>1 DEF Counts, InOrder
  <2>. QED  BY <2>1, <2>2
<1>. QED  BY <1>1, <1>2, <1>3 DEF Counts, e, InOrder

\* merge_queue() of two different queues, not into L2.
LEMMA MergeOrder ==
  ASSUME NEW r \in QueuesType, NEW prio \in [Proc -> Int], InOrder(r, prio),
         NEW k \in Queue \ {2}, NEW j \in Queue \ {k}
  PROVE  /\ InOrder(merge_queue(r, k, j), prio)
         /\ k \in Level => StaysAhead(r, merge_queue(r, k, j))
         /\ \A y \in Proc : merge_queue(r, k, j).on[y] = IF r.on[y] = j THEN k ELSE r.on[y]
<1>. DEFINE e == merge_queue(r, k, j)
<1>1. /\ e.on = [p \in Proc |-> IF r.on[p] = j THEN k ELSE r.on[p]]
      /\ e.ahead = r.ahead \cup (Members(r, k) \X Members(r, j))
      /\ e.count = [r.count EXCEPT ![k] = @ + r.count[j], ![j] = 0]
  BY DEF merge_queue
<1>. HIDE DEF e
<1>a. /\ \A y \in Proc : e.on[y] = IF r.on[y] = j THEN k ELSE r.on[y]
      /\ \A y, z \in Proc : Ahead(e, y, z) <=> Ahead(r, y, z) \/ (r.on[y] = k /\ r.on[z] = j)
      /\ \A i \in Queue : e.count[i] = IF i = j THEN 0 ELSE IF i = k THEN r.count[k] + r.count[j]
                                       ELSE r.count[i]
  <2>1. \A y \in Proc : e.on[y] = IF r.on[y] = j THEN k ELSE r.on[y]
    BY <1>1 DEF QueuesType
  <2>2. \A y, z \in Proc : Ahead(e, y, z) <=> Ahead(r, y, z) \/ (r.on[y] = k /\ r.on[z] = j)
    BY <1>1 DEF Ahead, Members
  <2>3. \A i \in Queue : e.count[i] = IF i = j THEN 0 ELSE IF i = k THEN r.count[k] + r.count[j]
                                      ELSE r.count[i]
    BY <1>1 DEF QueuesType
  <2>. QED  BY <2>1, <2>2, <2>3
<1>b. j # NoQ /\ k # NoQ /\ j # k /\ k # 2
  BY QueueNumbers
<1>2. Ordered(e)
  <2>1. ASSUME NEW x \in Proc, NEW y \in Proc, Ahead(e, x, y)
        PROVE  e.on[x] = e.on[y] /\ e.on[x] # NoQ /\ x # y /\ ~Ahead(e, y, x)
    BY <1>a, <1>b, <2>1, OrderedIs DEF InOrder
  <2>2. ASSUME NEW x \in Proc, NEW y \in Proc, x # y, e.on[x] = e.on[y], e.on[x] # NoQ
        PROVE  Ahead(e, x, y) \/ Ahead(e, y, x)
    BY <1>a, <1>b, <2>2, OrderedIs DEF InOrder
  <2>3. ASSUME NEW x \in Proc, NEW y \in Proc, NEW z \in Proc, Ahead(e, x, y), Ahead(e, y, z)
        PROVE  Ahead(e, x, z)
    BY <1>a, <1>b, <2>3, OrderedIs DEF InOrder
  <2>. QED  BY <2>1, <2>2, <2>3, OrderedIs
<1>3. SortedL2(e, prio)
  BY <1>a, <1>b DEF InOrder, SortedL2, Members, Ahead
<1>4. ASSUME NEW i \in Queue
      PROVE  e.count[i] = Cardinality(Members(e, i))
  <2>0. \A n \in Queue : IsFiniteSet(Members(r, n)) /\ Cardinality(Members(r, n)) \in Nat
    BY ProcFinite DEF Members
  <2>1. CASE i = j
    <3>1. Members(e, j) = {}
      BY <1>a, <1>b DEF Members
    <3>. QED  BY <1>a, <2>1, <3>1, FS_EmptySet
  <2>2. CASE i = k
    <3>1. Members(e, k) = Members(r, k) \cup Members(r, j) /\ Members(r, k) \cap Members(r, j) = {}
      BY <1>a, <1>b DEF Members
    <3>2. Cardinality(Members(e, k)) = Cardinality(Members(r, k)) + Cardinality(Members(r, j))
      <4>1. /\ IsFiniteSet(Members(r, k)) /\ IsFiniteSet(Members(r, j))
            /\ Cardinality(Members(r, k)) \in Nat /\ Cardinality(Members(r, j)) \in Nat
        BY <2>0
      <4>2. Cardinality(Members(r, k) \cup Members(r, j)) =
              Cardinality(Members(r, k)) + Cardinality(Members(r, j)) - Cardinality(Members(r, k) \cap Members(r, j))
        BY <4>1, FS_Union
      <4>3. Cardinality(Members(r, k) \cap Members(r, j)) = 0
        BY <3>1, FS_EmptySet
      <4>. QED  BY <3>1, <4>1, <4>2, <4>3
    <3>. QED  BY <1>a, <2>2, <3>2 DEF Counts, InOrder
  <2>3. CASE i # j /\ i # k
    <3>1. Members(e, i) = Members(r, i)
      BY <1>a, <2>3 DEF Members
    <3>. QED  BY <1>a, <2>3, <3>1 DEF Counts, InOrder
  <2>. QED  BY <2>1, <2>2, <2>3
<1>5. k \in Level => StaysAhead(r, e)
  BY <1>a DEF StaysAhead
<1>. QED  BY <1>a, <1>2, <1>3, <1>4, <1>5 DEF Counts, InOrder, e

\* wakeup1() takes processes from the sleep queue.  In L2 they enter by priority, and
\* those of one priority behind what is there and in the order in which they slept.
Before2(r, W, prio, y, z) ==
  \/ prio[y] < prio[z]
  \/ prio[y] = prio[z] /\ z \in W /\ (y \in W => Ahead(r, y, z))
Woken(e, r, W, lev, prio) ==
  /\ \A y \in Proc : e.on[y] = IF y \in W THEN lev[y] ELSE r.on[y]
  /\ \A y, z \in Proc : y \notin W /\ z \notin W => (Ahead(e, y, z) <=> Ahead(r, y, z))
  /\ \A y, z \in Proc : y \in W \/ z \in W =>
       (Ahead(e, y, z) <=> /\ e.on[y] = e.on[z]
                           /\ \/ e.on[z] # 2 /\ z \in W /\ (y \in W => Ahead(r, y, z))
                              \/ e.on[z] = 2 /\ Before2(r, W, prio, y, z))
  /\ \A j \in Queue : e.count[j] = IF j = SleepQ THEN r.count[j] - Cardinality(W)
                                   ELSE r.count[j] + Cardinality({w \in W : lev[w] = j})

\* The loop of wakeup1(): where the woken processes go.
LEMMA RequeueAllIs ==
  ASSUME NEW r \in QueuesType, NEW prio \in [Proc -> Int], Ordered(r), SortedL2(r, prio),
         NEW W \in SUBSET Members(r, SleepQ), NEW lev \in [Proc -> Level],
         NEW e, e = requeue_all(r, W, lev, prio)
  PROVE  Woken(e, r, W, lev, prio)
<1>. DEFINE Behind(w, x) ==
              \/ lev[w] # 2
              \/ /\ prio[x] <= prio[w]
                 /\ \A y \in Members(r, 2) : <<y, x>> \in r.ahead => prio[y] <= prio[w]
            BehindWoken(w, v) ==
              \/ lev[w] # 2 /\ <<v, w>> \in r.ahead
              \/ lev[w] = 2 /\ prio[v] < prio[w]
              \/ lev[w] = 2 /\ prio[v] = prio[w] /\ <<v, w>> \in r.ahead
            A1 == {d \in r.ahead : d[1] \notin W /\ d[2] \notin W}
            A2 == {d \in Proc \X W : d[1] \in Members(r, lev[d[2]]) /\ Behind(d[2], d[1])}
            A3 == {d \in W \X Proc : d[2] \in Members(r, lev[d[1]]) /\ ~Behind(d[1], d[2])}
            A4 == {d \in W \X W : lev[d[1]] = lev[d[2]] /\ BehindWoken(d[2], d[1])}
            Of(k) == {w \in W : lev[w] = k}
            cnt == [k \in Queue |-> IF k = SleepQ THEN r.count[k] - Cardinality(W)
                                    ELSE r.count[k] + Cardinality(Of(k))]
            on1 == [p \in Proc |-> IF p \in W THEN lev[p] ELSE r.on[p]]
<1>w. W \in SUBSET Proc /\ \A y \in W : r.on[y] = SleepQ /\ lev[y] \in Level /\ lev[y] # SleepQ
  BY QueueNumbers DEF Members
<1>1. e = [on |-> on1, ahead |-> A1 \cup A2 \cup A3 \cup A4, count |-> cnt]
  BY Zenon DEF requeue_all
<1>2. e.on = on1 /\ e.ahead = A1 \cup A2 \cup A3 \cup A4 /\ e.count = cnt
  <2>. HIDE DEF on1, A1, A2, A3, A4, cnt
  <2>. QED  BY <1>1
<1>3. \A y \in Proc : e.on[y] = IF y \in W THEN lev[y] ELSE r.on[y]
  BY <1>2
<1>4. \A j \in Queue : e.count[j] = IF j = SleepQ THEN r.count[j] - Cardinality(W)
                                    ELSE r.count[j] + Cardinality(Of(j))
  <2>. HIDE DEF Of
  <2>. QED  BY <1>2
<1>5. ASSUME NEW y \in Proc, NEW z \in Proc
      PROVE  /\ <<y, z>> \in A1 <=> Ahead(r, y, z) /\ y \notin W /\ z \notin W
             /\ <<y, z>> \in A2 <=> z \in W /\ r.on[y] = lev[z] /\ Behind(z, y)
             /\ <<y, z>> \in A3 <=> y \in W /\ r.on[z] = lev[y] /\ ~Behind(y, z)
             /\ <<y, z>> \in A4 <=> y \in W /\ z \in W /\ lev[y] = lev[z] /\ BehindWoken(z, y)
  <2>. HIDE DEF Behind, BehindWoken
  <2>. QED  BY <1>w DEF Ahead, Members
<1>6. ASSUME NEW w \in W, NEW x \in Proc, r.on[x] = lev[w]
      PROVE  Behind(w, x) <=> (lev[w] = 2 => prio[x] <= prio[w])
  <2>1. CASE lev[w] = 2
    <3>1. ASSUME NEW y \in Members(r, 2), Ahead(r, y, x)
          PROVE  prio[y] <= prio[x]
      BY <1>6, <2>1, <3>1 DEF SortedL2, Members, Ahead
    <3>2. x \in Proc /\ w \in Proc /\ \A y \in Members(r, 2) : y \in Proc
      BY <1>w DEF Members
    <3>. QED  BY <2>1, <3>1, <3>2 DEF Ahead
  <2>2. CASE lev[w] # 2
    BY <2>2
  <2>. QED  BY <2>1, <2>2
<1>7. ASSUME NEW v \in W, NEW w \in W
      PROVE  BehindWoken(w, v) <=> \/ lev[w] # 2 /\ Ahead(r, v, w)
                                   \/ lev[w] = 2 /\ prio[v] < prio[w]
                                   \/ lev[w] = 2 /\ prio[v] = prio[w] /\ Ahead(r, v, w)
  BY DEF Ahead
<1>. HIDE DEF Behind, BehindWoken, A1, A2, A3, A4
<1>8. \A y, z \in Proc : y \notin W /\ z \notin W => (Ahead(e, y, z) <=> Ahead(r, y, z))
  BY <1>2, <1>5 DEF Ahead
<1>9. ASSUME NEW y \in Proc, NEW z \in Proc, y \in W \/ z \in W
      PROVE  Ahead(e, y, z) <=> /\ e.on[y] = e.on[z]
                                /\ \/ e.on[z] # 2 /\ z \in W /\ (y \in W => Ahead(r, y, z))
                                   \/ e.on[z] = 2 /\ Before2(r, W, prio, y, z)
  <2>0. prio[y] \in Int /\ prio[z] \in Int
    OBVIOUS
  <2>1. CASE y \in W /\ z \in W
    <3>1. Ahead(e, y, z) <=> lev[y] = lev[z] /\ BehindWoken(z, y)
      BY <1>2, <1>5, <1>w, <2>1 DEF Ahead
    <3>. QED  BY <1>3, <1>7, <2>0, <2>1, <3>1 DEF Before2
  <2>2. CASE y \notin W /\ z \in W
    <3>1. Ahead(e, y, z) <=> r.on[y] = lev[z] /\ Behind(z, y)
      BY <1>2, <1>5, <1>w, <2>2 DEF Ahead
    <3>. QED  BY <1>3, <1>6, <2>0, <2>2, <3>1 DEF Before2
  <2>3. CASE y \in W /\ z \notin W
    <3>1. Ahead(e, y, z) <=> r.on[z] = lev[y] /\ ~Behind(y, z)
      BY <1>2, <1>5, <1>w, <2>3 DEF Ahead
    <3>. QED  BY <1>3, <1>6, <2>0, <2>3, <3>1 DEF Before2
  <2>. QED  BY <1>9, <2>1, <2>2, <2>3
<1>. QED  BY <1>3, <1>4, <1>8, <1>9 DEF Woken, Of

\* The loop of wakeup1() keeps the queues in order and overtakes nobody who waits.
LEMMA RequeueAllOrder ==
  ASSUME NEW r \in QueuesType, NEW prio \in [Proc -> Int], InOrder(r, prio),
         NEW W \in SUBSET Members(r, SleepQ), NEW lev \in [Proc -> Level]
  PROVE  InOrder(requeue_all(r, W, lev, prio), prio) /\ StaysAhead(r, requeue_all(r, W, lev, prio))
<1>. DEFINE e == requeue_all(r, W, lev, prio)
<1>w. /\ W \in SUBSET Proc
      /\ \A y \in W : r.on[y] = SleepQ /\ lev[y] \in Level /\ lev[y] # SleepQ /\ lev[y] # NoQ
  BY QueueNumbers DEF Members
<1>a. Woken(e, r, W, lev, prio)
  BY RequeueAllIs DEF InOrder
<1>. HIDE DEF e
<1>b. \A y \in Proc : e.on[y] = IF y \in W THEN lev[y] ELSE r.on[y]
  BY <1>a DEF Woken
<1>c. \A y, z \in Proc : y \notin W /\ z \notin W => (Ahead(e, y, z) <=> Ahead(r, y, z))
  BY <1>a DEF Woken
<1>d. \A y, z \in Proc : y \in W \/ z \in W =>
        (Ahead(e, y, z) <=> /\ e.on[y] = e.on[z]
                            /\ \/ e.on[z] # 2 /\ z \in W /\ (y \in W => Ahead(r, y, z))
                               \/ e.on[z] = 2 /\ Before2(r, W, prio, y, z))
  BY <1>a DEF Woken
<1>o. Ordered(r)
  BY DEF InOrder
<1>s. \A y, z \in Proc : r.on[y] = 2 /\ r.on[z] = 2 /\ Ahead(r, y, z) => prio[y] <= prio[z]
  BY DEF InOrder, SortedL2, Members, Ahead
<1>t. ASSUME NEW x \in Proc, NEW y \in Proc, r.on[x] = 2, r.on[y] = 2, prio[x] < prio[y]
      PROVE  Ahead(r, x, y)
  <2>1. x # y /\ 2 # NoQ
    BY <1>t, QueueNumbers
  <2>2. Ahead(r, x, y) \/ Ahead(r, y, x)
    BY <1>o, <1>t, <2>1, OrderedIs
  <2>3. ~Ahead(r, y, x)
    BY <1>s, <1>t
  <2>. QED  BY <2>2, <2>3
<1>1. ASSUME NEW x \in Proc, NEW y \in Proc, Ahead(e, x, y)
      PROVE  e.on[x] = e.on[y] /\ e.on[x] # NoQ /\ x # y /\ ~Ahead(e, y, x)
  <2>1. CASE x \notin W /\ y \notin W
    BY <1>1, <1>b, <1>c, <1>o, <2>1, OrderedIs
  <2>2. CASE x \in W \/ y \in W
    <3>1. e.on[x] = e.on[y] /\ e.on[x] # NoQ
      BY <1>1, <1>b, <1>d, <1>w, <2>2
    <3>2. CASE e.on[y] = 2
      BY <1>1, <1>d, <1>o, <2>2, <3>1, <3>2, OrderedIs DEF Before2
    <3>3. CASE e.on[y] # 2
      BY <1>1, <1>d, <1>o, <2>2, <3>1, <3>3, OrderedIs
    <3>. QED  BY <3>1, <3>2, <3>3
  <2>. QED  BY <2>1, <2>2
<1>2. ASSUME NEW x \in Proc, NEW y \in Proc, x # y, e.on[x] = e.on[y], e.on[x] # NoQ
      PROVE  Ahead(e, x, y) \/ Ahead(e, y, x)
  <2>1. CASE x \notin W /\ y \notin W
    BY <1>2, <1>b, <1>c, <1>o, <2>1, OrderedIs
  <2>2. CASE x \in W \/ y \in W
    <3>0. x \in W /\ y \in W => Ahead(r, x, y) \/ Ahead(r, y, x)
      BY <1>2, <1>w, <1>o, OrderedIs, QueueNumbers
    <3>. QED  BY <1>2, <1>d, <2>2, <3>0 DEF Before2
  <2>. QED  BY <2>1, <2>2
<1>3. ASSUME NEW x \in Proc, NEW y \in Proc, NEW z \in Proc, Ahead(e, x, y), Ahead(e, y, z)
      PROVE  Ahead(e, x, z)
  <2>0. e.on[x] = e.on[y] /\ e.on[y] = e.on[z]
    BY <1>1, <1>3
  <2>1. CASE x \notin W /\ y \notin W /\ z \notin W
    BY <1>3, <1>c, <1>o, <2>1, OrderedIs
  <2>2. CASE (x \in W \/ y \in W \/ z \in W) /\ e.on[z] # 2
    <3>1. CASE z \in W
      BY <1>3, <1>d, <1>o, <2>0, <2>2, <3>1, OrderedIs
    <3>2. CASE z \notin W
      BY <1>3, <1>d, <1>o, <2>0, <2>2, <3>2, OrderedIs
    <3>. QED  BY <3>1, <3>2
  <2>3. CASE (x \in W \/ y \in W \/ z \in W) /\ e.on[z] = 2
    <3>0. prio[x] \in Int /\ prio[y] \in Int /\ prio[z] \in Int
      OBVIOUS
    <3>1. prio[x] <= prio[y] /\ prio[y] <= prio[z]
      <4>1. x \notin W /\ y \notin W => prio[x] <= prio[y]
        BY <1>3, <1>b, <1>c, <1>s, <2>0, <2>3
      <4>2. y \notin W /\ z \notin W => prio[y] <= prio[z]
        BY <1>3, <1>b, <1>c, <1>s, <2>0, <2>3
      <4>3. x \in W \/ y \in W => prio[x] <= prio[y]
        BY <1>3, <1>d, <2>0, <2>3, <3>0 DEF Before2
      <4>4. y \in W \/ z \in W => prio[y] <= prio[z]
        BY <1>3, <1>d, <2>0, <2>3, <3>0 DEF Before2
      <4>. QED  BY <4>1, <4>2, <4>3, <4>4
    <3>2. CASE prio[x] < prio[z] /\ (x \in W \/ z \in W)
      BY <1>d, <2>0, <2>3, <3>2 DEF Before2
    <3>3. CASE prio[x] < prio[z] /\ x \notin W /\ z \notin W
      <4>1. r.on[x] = 2 /\ r.on[z] = 2
        BY <1>b, <2>0, <2>3, <3>3
      <4>2. Ahead(r, x, z)
        BY <1>t, <3>3, <4>1
      <4>. QED  BY <1>c, <3>3, <4>2
    <3>4. CASE prio[x] = prio[z]
      <4>1. prio[x] = prio[y] /\ prio[y] = prio[z]
        BY <3>0, <3>1, <3>4
      <4>2. x \in W \/ y \in W => y \in W /\ (x \in W => Ahead(r, x, y))
        BY <1>3, <1>d, <2>0, <2>3, <3>0, <4>1 DEF Before2
      <4>3. y \in W \/ z \in W => z \in W /\ (y \in W => Ahead(r, y, z))
        BY <1>3, <1>d, <2>0, <2>3, <3>0, <4>1 DEF Before2
      <4>4. z \in W /\ (x \in W => Ahead(r, x, z))
        BY <1>o, <2>3, <4>2, <4>3, OrderedIs
      <4>. QED  BY <1>d, <2>0, <2>3, <4>1, <4>4 DEF Before2
    <3>. QED  BY <3>0, <3>1, <3>2, <3>3, <3>4
  <2>. QED  BY <2>1, <2>2, <2>3
<1>4. Ordered(e)
  BY <1>1, <1>2, <1>3, OrderedIs
<1>5. ASSUME NEW x \in Proc, NEW y \in Proc, e.on[x] = 2, e.on[y] = 2, Ahead(e, x, y)
      PROVE  prio[x] <= prio[y]
  <2>1. CASE x \notin W /\ y \notin W
    BY <1>5, <1>b, <1>c, <1>s, <2>1
  <2>2. CASE x \in W \/ y \in W
    BY <1>5, <1>d, <2>2 DEF Before2
  <2>. QED  BY <2>1, <2>2
<1>6. SortedL2(e, prio)
  BY <1>5 DEF SortedL2, Members, Ahead
<1>7. ASSUME NEW j \in Queue
      PROVE  e.count[j] = Cardinality(Members(e, j))
  <2>. DEFINE V == {w \in W : lev[w] = j}
  <2>0. /\ e.count[j] = IF j = SleepQ THEN r.count[j] - Cardinality(W)
                        ELSE r.count[j] + Cardinality(V)
        /\ r.count[j] = Cardinality(Members(r, j))
    BY <1>a DEF Woken, InOrder, Counts
  <2>1. /\ IsFiniteSet(W) /\ IsFiniteSet(V) /\ IsFiniteSet(Members(r, j))
        /\ Cardinality(V) \in Nat /\ Cardinality(Members(r, j)) \in Nat
        /\ V \in SUBSET W
    BY <1>w, ProcFinite DEF Members
  <2>2. CASE j = SleepQ
    <3>1. Members(e, j) = Members(r, j) \ W /\ Members(r, j) \cap W = W
      BY <1>b, <1>w, <2>2 DEF Members
    <3>2. Cardinality(Members(e, j)) = Cardinality(Members(r, j)) - Cardinality(W)
      BY <2>1, <3>1, FS_Difference
    <3>. QED  BY <2>0, <2>2, <3>2
  <2>3. CASE j # SleepQ
    <3>1. Members(e, j) = Members(r, j) \cup V /\ Members(r, j) \cap V = {}
      BY <1>b, <1>w, <2>3 DEF Members
    <3>. HIDE DEF V
    <3>2. Cardinality(Members(e, j)) = Cardinality(Members(r, j)) + Cardinality(V)
      <4>1. Cardinality(Members(r, j) \cup V)
              = Cardinality(Members(r, j)) + Cardinality(V) - Cardinality(Members(r, j) \cap V)
        BY <2>1, FS_Union, Zenon
      <4>2. Cardinality(Members(r, j) \cap V) = 0
        BY <3>1, FS_EmptySet
      <4>. QED  BY <2>1, <3>1, <4>1, <4>2
    <3>. QED  BY <2>0, <2>3, <3>2
  <2>. QED  BY <2>2, <2>3
<1>8. StaysAhead(r, e)
  <2>. SUFFICES ASSUME NEW x \in Proc, NEW y \in Proc, Ahead(r, x, y), r.on[x] \in Level
                PROVE  Ahead(e, x, y) /\ e.on[x] \in Level
    BY DEF StaysAhead
  <2>1. x \notin W /\ y \notin W
    BY <1>o, <1>w, OrderedIs, QueueNumbers
  <2>. QED  BY <1>b, <1>c, <2>1
<1>. QED  BY <1>4, <1>6, <1>7, <1>8 DEF Counts, InOrder, e

-----------------------------------------------------------------------------
\* Only the priorities of the members of L2 matter.
LEMMA OtherPriorities ==
  ASSUME NEW r, NEW prio, NEW prio1, InOrder(r, prio),
         \A p \in Proc : r.on[p] = 2 => prio1[p] = prio[p]
  PROVE  InOrder(r, prio1)
BY DEF InOrder, SortedL2, Members

\* Order kept by two moves is kept by both together.
LEMMA StaysTransitive ==
  ASSUME NEW r, NEW e, NEW f, StaysAhead(r, e), StaysAhead(e, f)
  PROVE  StaysAhead(r, f)
BY DEF StaysAhead

\* The boost keeps the queues in order.
LEMMA BackOrder ==
  ASSUME NEW c \in CPU, NEW q1 \in QueuesType, NEW level1 \in [Proc -> Level],
         NEW priority1 \in [Proc -> Int], NEW ticks1, NEW global1, NEW lock1,
         InOrder(q1, priority1), OnLevel(q1, level1),
         BackInScheduler(c, q1, level1, priority1, ticks1, global1, lock1)
  PROVE  InOrder(q', priority') /\ OnLevel(q', queuelevel') /\ StaysAhead(q1, q')
<1>1. CASE global1 = BOOST
  <2>. DEFINE m1 == merge_queue(q1, 1, 2)
              m == merge_queue(m1, 0, 1)
  <2>0. /\ 1 \in Queue \ {2} /\ 2 \in Queue \ {1} /\ 0 \in Queue \ {2} /\ 1 \in Queue \ {0}
        /\ {0, 1} \subseteq Level
        /\ 1 \in Queue /\ 2 \in Queue
    BY QueueNumbers
  <2>1. m1 \in QueuesType /\ InOrder(m1, priority1) /\ StaysAhead(q1, m1)
        /\ \A y \in Proc : m1.on[y] = IF q1.on[y] = 2 THEN 1 ELSE q1.on[y]
    <3>1. m1 \in QueuesType
      BY <2>0, MergeType
    <3>2. InOrder(m1, priority1) /\ StaysAhead(q1, m1)
          /\ \A y \in Proc : m1.on[y] = IF q1.on[y] = 2 THEN 1 ELSE q1.on[y]
      BY <2>0, MergeOrder
    <3>. QED  BY <3>1, <3>2
  <2>. HIDE DEF m1
  <2>2. InOrder(m, priority1) /\ StaysAhead(m1, m)
        /\ \A y \in Proc : m.on[y] = IF m1.on[y] = 1 THEN 0 ELSE m1.on[y]
    BY <2>0, <2>1, MergeOrder
  <2>3. q' = m
    BY <1>1 DEF BackInScheduler, MergedLevels, m1
  <2>. HIDE DEF m
  <2>4. \A y \in Proc : m.on[y] \notin {1, 2}
    BY <2>1, <2>2
  <2>5. InOrder(q', priority')
    BY <2>2, <2>3, <2>4, OtherPriorities
  <2>. QED  BY <2>1, <2>2, <2>3, <2>4, <2>5, StaysTransitive DEF OnLevel
<1>2. CASE global1 # BOOST
  <2>1. q' = q1 /\ queuelevel' = level1 /\ priority' = priority1
    BY <1>2 DEF BackInScheduler
  <2>2. StaysAhead(q1, q1)
    BY DEF StaysAhead
  <2>. QED  BY <2>1, <2>2
<1>. QED  BY <1>1, <1>2

-----------------------------------------------------------------------------
\* The queues in order, and two processes that wait keep theirs.
Lined(r, lev, prio) == InOrder(r, prio) /\ OnLevel(r, lev)
Kept == \A x, y \in Proc : /\ Ahead(q, x, y) /\ q.on[x] \in Level
                           /\ q'.on[x] \in Level /\ q'.on[y] \in Level
                           => Ahead(q', x, y)
OrderStep == Lined(q', queuelevel', priority') /\ Kept

\* What stays ahead is kept.
LEMMA StaysKept == StaysAhead(q, q') => Kept
BY DEF StaysAhead, Kept

\* The types of the queues and of the fields that order them.
LEMMA Typed ==
  ASSUME IInv
  PROVE  /\ q \in QueuesType /\ queuelevel \in [Proc -> Level] /\ priority \in [Proc -> Int]
         /\ q.on \in [Proc -> Queue \cup {NoQ}]
BY DEF IInv, TypeOK, QueuesType

\* Whoever is neither UNUSED nor asleep nor RUNNABLE is on no queue.
LEMMA OffQueues ==
  ASSUME IInv, NEW p \in Proc, state[p] \in {"EMBRYO", "RUNNING", "ZOMBIE"}
  PROVE  q.on[p] = NoQ
<1>1. q.on[p] \in Queue \cup {NoQ}
  BY Typed
<1>. QED  BY <1>1, QueueNumbers DEF IInv, QueuesMatchStates

\* A process off the queues has any level and priority.
LEMMA OffQueue ==
  ASSUME NEW r, NEW p \in Proc, r.on[p] \notin {1, 2}, NEW lev \in [Proc -> Level],
         NEW prio \in [Proc -> Int], Lined(r, lev, prio), NEW l, NEW v
  PROVE  Lined(r, [lev EXCEPT ![p] = l], [prio EXCEPT ![p] = v])
<1>1. OnLevel(r, [lev EXCEPT ![p] = l])
  BY DEF Lined, OnLevel
<1>2. \A x \in Proc : r.on[x] = 2 => [prio EXCEPT ![p] = v][x] = prio[x]
  OBVIOUS
<1>3. InOrder(r, prio)
  BY DEF Lined
<1>4. InOrder(r, [prio EXCEPT ![p] = v])
  <2>. DEFINE prio1 == [prio EXCEPT ![p] = v]
  <2>1. \A x \in Proc : r.on[x] = 2 => prio1[x] = prio[x]
    BY <1>2
  <2>. HIDE DEF prio1
  <2>2. InOrder(r, prio1)
    BY <1>3, <2>1, OtherPriorities
  <2>. QED  BY <2>2 DEF prio1
<1>. QED  BY <1>1, <1>4 DEF Lined

\* A process that is on no queue goes to the tail of L0, of the sleep queue or of the unused one.
LEMMA TailLined ==
  ASSUME NEW r \in QueuesType, NEW lev \in [Proc -> Level], NEW prio \in [Proc -> Int],
         Lined(r, lev, prio), NEW k \in {0, SleepQ, UnusedQ}, NEW p \in Proc, r.on[p] = NoQ
  PROVE  /\ insert(r, k, p, 0) \in QueuesType
         /\ Lined(insert(r, k, p, 0), lev, prio) /\ StaysAhead(r, insert(r, k, p, 0))
<1>1. k \in Queue /\ k \in Queue \ {2} /\ k \notin {1, 2}
  BY QueueNumbers
<1>2. InOrder(insert(r, k, p, 0), prio) /\ StaysAhead(r, insert(r, k, p, 0))
  BY <1>1, TailOrder DEF Lined
<1>3. /\ insert(r, k, p, 0) \in QueuesType
      /\ insert(r, k, p, 0).on = [r.on EXCEPT ![p] = k]
  BY <1>1, InsertType
<1>4. OnLevel(insert(r, k, p, 0), lev)
  <2>. DEFINE e == insert(r, k, p, 0)
  <2>. HIDE DEF e
  <2>1. \A x \in Proc : e.on[x] = IF x = p THEN k ELSE r.on[x]
    BY <1>3 DEF e, QueuesType
  <2>2. OnLevel(e, lev)
    BY <1>1, <2>1 DEF Lined, OnLevel
  <2>. QED  BY <2>2 DEF e
<1>. QED  BY <1>2, <1>3, <1>4 DEF Lined

\* requeue() puts a process on the queue of its level.
LEMMA RequeueLined ==
  ASSUME NEW r \in QueuesType, NEW lev \in [Proc -> Level], NEW prio \in [Proc -> Int],
         Lined(r, lev, prio), NEW p \in Proc, r.on[p] = NoQ
  PROVE  /\ requeue(r, p, lev, prio) \in QueuesType
         /\ Lined(requeue(r, p, lev, prio), lev, prio) /\ StaysAhead(r, requeue(r, p, lev, prio))
<1>. DEFINE e == requeue(r, p, lev, prio)
<1>1. InOrder(e, prio) /\ StaysAhead(r, e)
  BY RequeueOrder DEF Lined
<1>2. e \in QueuesType /\ e.on = [r.on EXCEPT ![p] = lev[p]]
  BY RequeueType
<1>. HIDE DEF e
<1>3. \A x \in Proc : e.on[x] = IF x = p THEN lev[x] ELSE r.on[x]
  BY <1>2 DEF QueuesType
<1>4. OnLevel(e, lev)
  BY <1>3 DEF Lined, OnLevel
<1>. QED  BY <1>1, <1>2, <1>4 DEF Lined, e

\* insert_head() puts a process into L0, where any level is allowed.
LEMMA HeadLined ==
  ASSUME NEW r \in QueuesType, NEW lev \in [Proc -> Level], NEW prio \in [Proc -> Int],
         Lined(r, lev, prio), NEW p \in Proc, r.on[p] = NoQ
  PROVE  /\ insert_head(r, 0, p) \in QueuesType
         /\ Lined(insert_head(r, 0, p), lev, prio) /\ StaysAhead(r, insert_head(r, 0, p))
<1>. DEFINE e == insert_head(r, 0, p)
<1>1. InOrder(e, prio) /\ StaysAhead(r, e)
  BY HeadOrder DEF Lined
<1>2. e \in QueuesType /\ e.on = [r.on EXCEPT ![p] = 0]
  BY InsertHeadType
<1>. HIDE DEF e
<1>3. \A x \in Proc : e.on[x] = IF x = p THEN 0 ELSE r.on[x]
  BY <1>2 DEF QueuesType
<1>4. OnLevel(e, lev)
  BY <1>3 DEF Lined, OnLevel
<1>. QED  BY <1>1, <1>2, <1>4 DEF Lined, e

\* delete() leaves the others on the queues of their levels.
LEMMA DeleteLined ==
  ASSUME NEW r \in QueuesType, NEW lev \in [Proc -> Level], NEW prio \in [Proc -> Int],
         Lined(r, lev, prio), NEW k \in Queue, NEW p \in Members(r, k)
  PROVE  /\ delete(r, k, p) \in QueuesType
         /\ Lined(delete(r, k, p), lev, prio) /\ Deleted(delete(r, k, p), r, k, p)
<1>. DEFINE e == delete(r, k, p)
<1>0. p \in Proc
  BY DEF Members
<1>1. InOrder(e, prio)
  BY DeleteOrder DEF Lined
<1>2. e \in QueuesType
  BY <1>0, DeleteType
<1>3. Deleted(e, r, k, p)
  BY DeleteIs
<1>. HIDE DEF e
<1>4. OnLevel(e, lev)
  BY <1>3, QueueNumbers DEF Lined, OnLevel, Deleted
<1>. QED  BY <1>1, <1>2, <1>3, <1>4 DEF Lined, e

\* The woken processes are on the queues of their levels.
LEMMA RequeueAllLined ==
  ASSUME NEW r \in QueuesType, NEW lev \in [Proc -> Level], NEW prio \in [Proc -> Int],
         Lined(r, lev, prio), NEW W \in SUBSET Members(r, SleepQ)
  PROVE  /\ requeue_all(r, W, lev, prio) \in QueuesType
         /\ Lined(requeue_all(r, W, lev, prio), lev, prio)
         /\ StaysAhead(r, requeue_all(r, W, lev, prio))
         /\ \A x \in Proc : requeue_all(r, W, lev, prio).on[x] = IF x \in W THEN lev[x] ELSE r.on[x]
<1>. DEFINE e == requeue_all(r, W, lev, prio)
<1>0. W \in SUBSET Proc
  BY DEF Members
<1>1. InOrder(e, prio) /\ StaysAhead(r, e)
  BY RequeueAllOrder DEF Lined
<1>2. e \in QueuesType /\ e.on = [p \in Proc |-> IF p \in W THEN lev[p] ELSE r.on[p]]
  BY <1>0, RequeueAllType
<1>. HIDE DEF e
<1>3. \A x \in Proc : e.on[x] = IF x \in W THEN lev[x] ELSE r.on[x]
  BY <1>2
<1>4. OnLevel(e, lev)
  BY <1>3 DEF Lined, OnLevel
<1>. QED  BY <1>1, <1>2, <1>3, <1>4 DEF Lined, e

-----------------------------------------------------------------------------
\* scheduler() unlinks the head.
LEMMA DispatchOrder ==
  ASSUME IInv, Lined(q, queuelevel, priority), NEW c \in CPU, Dispatch(c)
  PROVE  OrderStep
<1>1. PICK k \in Level, p \in Proc : IsHead(q, k, p) /\ q' = delete(q, k, p)
  BY DEF Dispatch
<1>2. UNCHANGED <<queuelevel, priority>>
  BY DEF Dispatch
<1>3. k \in Queue /\ p \in Members(q, k)
  BY <1>1, QueueNumbers DEF IsHead
<1>4. Lined(q', queuelevel, priority) /\ Deleted(q', q, k, p)
  BY <1>1, <1>3, Typed, DeleteLined
<1>5. Kept
  BY <1>4, QueueNumbers DEF Kept, Deleted
<1>. QED  BY <1>2, <1>4, <1>5 DEF OrderStep

\* yield() enters the process that gives up the CPU, and may boost.
LEMMA YieldOrder ==
  ASSUME IInv, Lined(q, queuelevel, priority), NEW c \in CPU, Yield(c)
  PROVE  OrderStep
<1>. DEFINE p == cpu[c]
            t == Charged(ticks[p])
            spent == ~Keeps(p) /\ t = Quantum(queuelevel[p])
            l1 == IF spent THEN Demoted(queuelevel[p]) ELSE queuelevel[p]
            v1 == IF spent /\ queuelevel[p] = 2 /\ priority[p] # 0 THEN priority[p] - 1 ELSE priority[p]
            level1 == [queuelevel EXCEPT ![p] = l1]
            priority1 == [priority EXCEPT ![p] = v1]
            ticks1 == [ticks EXCEPT ![p] = IF spent THEN 0 ELSE t]
            q1 == IF Keeps(p) THEN insert_head(q, 0, p) ELSE requeue(q, p, level1, priority1)
<1>1. p \in Proc /\ q.on[p] = NoQ
  BY Runner DEF Yield
<1>2. BackInScheduler(c, q1, level1, priority1, ticks1, global_ticks + 1, lockproc)
  BY DEF Yield
<1>3. level1 \in [Proc -> Level] /\ priority1 \in [Proc -> Int]
  <2>1. \A l \in Level : Demoted(l) \in Level
    BY QueueNumbers DEF Demoted
  <2>2. l1 \in Level /\ v1 \in Int
    <3>. HIDE DEF spent
    <3>. QED  BY <1>1, <2>1, Typed
  <2>. HIDE DEF l1, v1
  <2>. QED  BY <2>2, Typed
<1>4. Lined(q, level1, priority1)
  <2>1. q.on[p] \notin {1, 2}
    BY <1>1, QueueNumbers
  <2>. HIDE DEF l1, v1, p
  <2>. QED  BY <1>1, <2>1, Typed, OffQueue
<1>5. q1 \in QueuesType /\ Lined(q1, level1, priority1) /\ StaysAhead(q, q1)
  <2>. HIDE DEF level1, priority1, p
  <2>1. CASE Keeps(p)
    BY <1>1, <1>3, <1>4, <2>1, Typed, HeadLined
  <2>2. CASE ~Keeps(p)
    BY <1>1, <1>3, <1>4, <2>2, Typed, RequeueLined
  <2>. QED  BY <2>1, <2>2
<1>. HIDE DEF q1, level1, priority1, ticks1
<1>6. InOrder(q', priority') /\ OnLevel(q', queuelevel') /\ StaysAhead(q1, q')
  BY <1>2, <1>3, <1>5, BackOrder DEF Lined
<1>. QED  BY <1>5, <1>6, StaysTransitive, StaysKept DEF OrderStep, Lined

\* sleep() appends to the sleep queue, and may boost.
LEMMA GoToSleepOrder ==
  ASSUME IInv, Lined(q, queuelevel, priority), NEW c \in CPU, cpu[c] # 0, NEW ch, NEW place,
         GoToSleep(c, ch, place)
  PROVE  OrderStep
<1>. DEFINE q1 == insert(q, SleepQ, cpu[c], 0)
<1>1. q1 \in QueuesType /\ Lined(q1, queuelevel, priority) /\ StaysAhead(q, q1)
  BY Runner, Typed, TailLined
<1>2. BackInScheduler(c, q1, queuelevel, priority, ticks, global_ticks, 0)
  BY DEF GoToSleep
<1>. HIDE DEF q1
<1>3. InOrder(q', priority') /\ OnLevel(q', queuelevel') /\ StaysAhead(q1, q')
  BY <1>1, <1>2, Typed, BackOrder DEF Lined
<1>. QED  BY <1>1, <1>3, StaysTransitive, StaysKept DEF OrderStep, Lined

\* Steps that leave the queues alone.
LEMMA SameOrder ==
  ASSUME Lined(q, queuelevel, priority), UNCHANGED <<q, queuelevel, priority>>
  PROVE  OrderStep
<1>1. StaysAhead(q, q)
  BY DEF StaysAhead
<1>. QED  BY <1>1, StaysKept DEF OrderStep

\* wakeup().
LEMMA WakeupOrder ==
  ASSUME IInv, Lined(q, queuelevel, priority), NEW ch, Wakeup(ch), UNCHANGED <<queuelevel, priority>>
  PROVE  OrderStep
<1>1. /\ Sleepers(ch) \in SUBSET Members(q, SleepQ)
      /\ q' = requeue_all(q, Sleepers(ch), queuelevel, priority)
  BY DEF Sleepers, Wakeup
<1>2. Lined(q', queuelevel, priority) /\ StaysAhead(q, q')
  BY <1>1, Typed, RequeueAllLined
<1>. QED  BY <1>2, StaysKept DEF OrderStep

\* The three steps of fork().
LEMMA ForkOrder ==
  ASSUME IInv, Lined(q, queuelevel, priority), NEW c \in CPU,
         ForkAlloc(c) \/ ForkFail(c) \/ ForkDone(c)
  PROVE  OrderStep
<1>1. CASE ForkAlloc(c)
  <2>1. PICK p \in Proc : /\ IsHead(q, UnusedQ, p) /\ q' = delete(q, UnusedQ, p)
                          /\ priority' = [priority EXCEPT ![p] = PRIO]
                          /\ queuelevel' = [queuelevel EXCEPT ![p] = 0]
    BY <1>1 DEF ForkAlloc
  <2>2. UnusedQ \in Queue /\ p \in Members(q, UnusedQ)
    BY <2>1, QueueNumbers DEF IsHead
  <2>3. q' \in QueuesType /\ Lined(q', queuelevel, priority) /\ Deleted(q', q, UnusedQ, p)
    BY <2>1, <2>2, Typed, DeleteLined
  <2>4. q'.on[p] \notin {1, 2}
    BY <2>3, QueueNumbers DEF Deleted
  <2>5. Lined(q', queuelevel', priority')
    BY <2>1, <2>3, <2>4, Typed, OffQueue
  <2>6. Kept
    BY <2>3, QueueNumbers DEF Kept, Deleted
  <2>. QED  BY <2>5, <2>6 DEF OrderStep
<1>2. CASE ForkFail(c) \/ ForkDone(c)
  <2>1. cpu[c] \in Proc /\ at[cpu[c]] = "fork"
    BY <1>2, Runner DEF ForkFail, ForkDone, RunsAt
  <2>2. child[cpu[c]] \in Proc /\ state[child[cpu[c]]] = "EMBRYO"
    BY <2>1 DEF IInv, TypeOK, SlotOwned
  <2>3. q.on[child[cpu[c]]] = NoQ
    BY <2>2, OffQueues
  <2>4. PICK k \in {0, UnusedQ} : q' = insert(q, k, child[cpu[c]], 0)
    BY <1>2 DEF ForkFail, ForkDone
  <2>5. UNCHANGED <<queuelevel, priority>>
    BY <1>2 DEF ForkFail, ForkDone
  <2>6. Lined(q', queuelevel, priority) /\ StaysAhead(q, q')
    BY <2>2, <2>3, <2>4, Typed, TailLined
  <2>. QED  BY <2>5, <2>6, StaysKept DEF OrderStep
<1>. QED  BY <1>1, <1>2

\* exit() wakes the parent, and init for the zombies it inherits.
LEMMA ExitOrder ==
  ASSUME IInv, Lined(q, queuelevel, priority), NEW c \in CPU, ExitFinish(c)
  PROVE  OrderStep
<1>. DEFINE W1 == Sleepers(parent[cpu[c]])
            W2 == IF WakesInit(cpu[c]) THEN Sleepers(initproc) \ W1 ELSE {}
            qa == requeue_all(q, W1, queuelevel, priority)
            q1 == requeue_all(qa, W2, queuelevel, priority)
<1>1. W1 \in SUBSET Members(q, SleepQ) /\ W2 \in SUBSET Members(q, SleepQ) /\ W1 \cap W2 = {}
  BY DEF Sleepers
<1>2. BackInScheduler(c, q1, queuelevel, priority, ticks, global_ticks, 0)
  BY DEF ExitFinish
<1>. HIDE DEF W1, W2
<1>3. /\ qa \in QueuesType /\ Lined(qa, queuelevel, priority) /\ StaysAhead(q, qa)
      /\ \A x \in Proc : qa.on[x] = IF x \in W1 THEN queuelevel[x] ELSE q.on[x]
  BY <1>1, Typed, RequeueAllLined
<1>. HIDE DEF qa
<1>4. W2 \in SUBSET Members(qa, SleepQ)
  BY <1>1, <1>3 DEF Members
<1>5. q1 \in QueuesType /\ Lined(q1, queuelevel, priority) /\ StaysAhead(qa, q1)
  BY <1>3, <1>4, Typed, RequeueAllLined
<1>. HIDE DEF q1
<1>6. InOrder(q', priority') /\ OnLevel(q', queuelevel') /\ StaysAhead(q1, q')
  BY <1>2, <1>5, Typed, BackOrder DEF Lined
<1>7. StaysAhead(q, q')
  BY <1>3, <1>5, <1>6, StaysTransitive
<1>. QED  BY <1>6, <1>7, StaysKept DEF OrderStep, Lined

\* wait() puts the slot it frees on the queue of unused slots.
LEMMA WaitReapOrder ==
  ASSUME IInv, Lined(q, queuelevel, priority), NEW c \in CPU, WaitReap(c)
  PROVE  OrderStep
<1>1. PICK z \in Proc : /\ state[z] = "ZOMBIE" /\ q' = insert(q, UnusedQ, z, 0)
                        /\ priority' = [priority EXCEPT ![z] = PRIO]
                        /\ queuelevel' = [queuelevel EXCEPT ![z] = 0]
  BY DEF WaitReap, ZombieKids, Kids
<1>2. q.on[z] = NoQ
  BY <1>1, OffQueues
<1>3. queuelevel' \in [Proc -> Level] /\ priority' \in [Proc -> Int]
  BY <1>1, Typed, TickAssumption, QueueNumbers
<1>4. Lined(q, queuelevel', priority')
  <2>1. q.on[z] \notin {1, 2}
    BY <1>2, QueueNumbers
  <2>. QED  BY <1>1, <2>1, Typed, OffQueue
<1>5. Lined(q', queuelevel', priority') /\ StaysAhead(q, q')
  BY <1>1, <1>2, <1>3, <1>4, Typed, TailLined
<1>. QED  BY <1>5, StaysKept DEF OrderStep

\* kill() moves a sleeper to its run queue.
LEMMA KillOrder ==
  ASSUME IInv, Lined(q, queuelevel, priority), NEW c \in CPU, NEW t \in Proc, Kill(c, t)
  PROVE  OrderStep
<1>1. UNCHANGED <<queuelevel, priority>>
  BY DEF Kill
<1>2. CASE state[t] = "SLEEPING"
  <2>. DEFINE d == delete(q, SleepQ, t)
  <2>1. q' = requeue(d, t, queuelevel, priority)
    BY <1>2 DEF Kill
  <2>2. SleepQ \in Queue /\ t \in Members(q, SleepQ)
    BY <1>2, QueueNumbers DEF IInv, QueuesMatchStates, Members
  <2>3. d \in QueuesType /\ Lined(d, queuelevel, priority) /\ Deleted(d, q, SleepQ, t)
    BY <2>2, Typed, DeleteLined
  <2>. HIDE DEF d
  <2>4. Lined(q', queuelevel, priority) /\ StaysAhead(d, q')
    BY <2>1, <2>3, Typed, RequeueLined DEF Deleted
  <2>5. Kept
    <3>1. ASSUME NEW x \in Proc, NEW y \in Proc, Ahead(q, x, y), q.on[x] \in Level
          PROVE  Ahead(d, x, y) /\ d.on[x] \in Level
      <4>1. q.on[y] = q.on[x] /\ q.on[t] = SleepQ /\ Level = {0, 1, 2} /\ SleepQ = 3
        BY <2>2, <3>1, OrderedIs, QueueNumbers DEF Lined, InOrder, Members
      <4>2. x # t /\ y # t
        BY <3>1, <4>1
      <4>. QED  BY <2>3, <3>1, <4>2 DEF Deleted
    <3>. QED  BY <2>4, <3>1 DEF StaysAhead, Kept
  <2>. QED  BY <1>1, <2>4, <2>5 DEF OrderStep
<1>3. CASE state[t] # "SLEEPING"
  <2>1. q' = q
    BY <1>3 DEF Kill
  <2>. QED  BY <1>1, <2>1, SameOrder
<1>. QED  BY <1>2, <1>3

\* setPriority() may change the order of the process it is for.
LEMMA SetPriorityOrder ==
  ASSUME IInv, Lined(q, queuelevel, priority), NEW c \in CPU, NEW t \in Proc, NEW v \in Priorities,
         SetPriority(c, t, v), sound'
  PROVE  /\ Lined(q', queuelevel', priority')
         /\ \A x, y \in Proc \ {t} : Ahead(q, x, y) => Ahead(q', x, y)
<1>0. v \in Int
  BY PriorityAssumption
<1>. DEFINE priority1 == [priority EXCEPT ![t] = v]
            b == higherpriority_proc(q, t, priority1)
            d == delete(q, 2, t)
<1>1. priority' = priority1 /\ queuelevel' = queuelevel /\ priority1 \in [Proc -> Int]
  BY <1>0, Typed DEF SetPriority
<1>2. q' = (IF Moves(t) THEN insert(d, 2, t, b) ELSE q) /\ (Moves(t) => q.on[t] = 2)
  BY DEF SetPriority
<1>3. CASE ~Moves(t)
  <2>1. q.on[t] \notin {1, 2} \/ q.on[t] = 1
    <3>1. q.on[t] = 2 => queuelevel[t] = 2 /\ state[t] = "RUNNABLE"
      BY QueueNumbers DEF Lined, OnLevel, IInv, QueuesMatchStates
    <3>. QED  BY <1>3, <3>1 DEF Moves
  <2>2. \A x \in Proc : q.on[x] = 2 => priority1[x] = priority[x]
    BY <2>1, Typed
  <2>3. InOrder(q, priority1)
    <3>. HIDE DEF priority1
    <3>. QED  BY <2>2, OtherPriorities DEF Lined
  <2>4. q' = q
    BY <1>2, <1>3
  <2>. QED  BY <1>1, <2>3, <2>4 DEF Lined
<1>4. CASE Moves(t)
  <2>1. 2 \in Queue /\ t \in Members(q, 2)
    BY <1>2, <1>4, QueueNumbers DEF Members
  <2>2. d \in QueuesType /\ Lined(d, queuelevel, priority) /\ Deleted(d, q, 2, t)
    BY <2>1, Typed, DeleteLined
  <2>3. PlaceFor(q, t, b, priority1)
    <3>. HIDE DEF priority1
    <3>. QED  BY <1>1, Typed, HigherIs DEF Lined, InOrder
  <2>4. priority1[t] = v
    BY Typed
  <2>. HIDE DEF d, b
  <2>5. InOrder(d, priority1)
    <3>1. \A x \in Proc : d.on[x] = 2 => priority1[x] = priority[x]
      BY <2>2, Typed, QueueNumbers DEF Deleted
    <3>2. InOrder(d, priority)
      BY <2>2 DEF Lined
    <3>. HIDE DEF priority1
    <3>. QED  BY <3>1, <3>2, OtherPriorities
  <2>. HIDE DEF priority1
  <2>6. PlaceFor(d, t, b, priority1)
    <3>1. \A y \in Members(d, 2) : y \in Members(q, 2) /\ y \in Proc
      BY <2>2, QueueNumbers DEF Deleted, Members
    <3>2. CASE b = 0 /\ \A y \in Members(q, 2) : priority1[y] <= priority1[t]
      BY <3>1, <3>2 DEF PlaceFor
    <3>3. CASE /\ b \in Members(q, 2) /\ priority1[t] < priority1[b]
               /\ \A y \in Members(q, 2) : Ahead(q, y, b) => priority1[y] <= priority1[t]
      <4>1. b # t /\ b \in Proc
        BY <1>1, <3>3 DEF Members
      <4>2. b \in Members(d, 2)
        BY <2>2, <3>3, <4>1 DEF Deleted, Members
      <4>3. \A y \in Members(d, 2) : Ahead(d, y, b) => Ahead(q, y, b)
        BY <2>2, <3>1, <4>1 DEF Deleted
      <4>. QED  BY <3>1, <3>3, <4>2, <4>3 DEF PlaceFor
    <3>. QED  BY <2>3, <3>2, <3>3 DEF PlaceFor
  <2>7. d.on[t] = NoQ
    BY <2>2 DEF Deleted
  <2>8. q' = insert(d, 2, t, b)
    BY <1>2, <1>4
  <2>9. InOrder(q', priority1)
    BY <1>1, <2>2, <2>5, <2>6, <2>7, <2>8, PlaceOrder
  <2>10. \A x \in Proc : q'.on[x] = IF x = t THEN 2 ELSE d.on[x]
    <3>1. q'.on = [d.on EXCEPT ![t] = 2]
      BY <2>1, <2>2, <2>8, InsertType
    <3>. QED  BY <2>2, <3>1 DEF QueuesType
  <2>11. OnLevel(q', queuelevel)
    <3>1. queuelevel[t] = 2
      BY <1>4 DEF Moves
    <3>. QED  BY <2>2, <2>10, <3>1 DEF Lined, OnLevel
  <2>12. ASSUME NEW x \in Proc \ {t}, NEW y \in Proc \ {t}, Ahead(q, x, y)
         PROVE  Ahead(q', x, y)
    <3>1. Ahead(d, x, y)
      BY <2>2, <2>12 DEF Deleted
    <3>2. d.ahead \subseteq q'.ahead
      BY <2>8 DEF insert, Enter
    <3>. QED  BY <3>1, <3>2 DEF Ahead
  <2>. QED  BY <1>1, <2>9, <2>11, <2>12 DEF Lined
<1>. QED  BY <1>3, <1>4

\* schedulerUnlock() changes level and priority of the running process only.
LEMMA UnlockOrder ==
  ASSUME IInv, Lined(q, queuelevel, priority), NEW c \in CPU, SchedulerUnlock(c)
  PROVE  OrderStep
<1>1. /\ cpu[c] # 0 /\ q' = q
      /\ queuelevel' = [queuelevel EXCEPT ![cpu[c]] = 0]
      /\ priority' = [priority EXCEPT ![cpu[c]] = PRIO]
  BY DEF SchedulerUnlock, Traps, RunsAt
<1>2. cpu[c] \in Proc /\ q.on[cpu[c]] \notin {1, 2}
  BY <1>1, Runner, QueueNumbers
<1>3. Lined(q, queuelevel', priority')
  BY <1>1, <1>2, Typed, OffQueue
<1>4. StaysAhead(q, q)
  BY DEF StaysAhead
<1>. QED  BY <1>1, <1>3, <1>4, StaysKept DEF OrderStep

-----------------------------------------------------------------------------
\* main() leaves the queues in order.
LEMMA InitLined == Init => Lined(q, queuelevel, priority)
<1>. SUFFICES ASSUME Init PROVE Lined(q, queuelevel, priority)
  OBVIOUS
<1>1. /\ \A p \in Proc : q.on[p] = IF p = initproc THEN 0 ELSE UnusedQ
      /\ \A x, y \in Proc : Ahead(q, x, y) <=> initproc < x /\ x < y
      /\ \A k \in Queue : q.count[k] = IF k = 0 THEN 1 ELSE IF k = UnusedQ THEN NPROC - 1 ELSE 0
  BY DEF Init, Ahead
<1>2. initproc = 1 /\ UnusedQ = 4 /\ NoQ = 5 /\ \A x \in Proc : x \in Int /\ (x # 1 => 1 < x)
  BY QueueNumbers DEF initproc, Proc
<1>3. Ordered(q)
  BY <1>1, <1>2, OrderedIs
<1>4. \A p \in Proc : q.on[p] \notin {1, 2}
  BY <1>1, <1>2
<1>5. SortedL2(q, priority) /\ OnLevel(q, queuelevel)
  BY <1>4 DEF SortedL2, Members, OnLevel
<1>6. ASSUME NEW k \in Queue
      PROVE  q.count[k] = Cardinality(Members(q, k))
  <2>1. CASE k = 0
    <3>1. Members(q, 0) = {initproc}
      <4>1. \A x \in Proc : q.on[x] = 0 <=> x = initproc
        BY <1>1, <1>2
      <4>2. initproc \in Proc
        BY Constants
      <4>3. \A x : x \in Members(q, 0) <=> x = initproc
        BY <4>1, <4>2 DEF Members
      <4>. QED  BY <4>3
    <3>. QED  BY <1>1, <2>1, <3>1, FS_Singleton
  <2>2. CASE k = UnusedQ
    <3>1. Members(q, UnusedQ) = 2..NPROC
      BY <1>1, <1>2, NPROCAssumption DEF Members, Proc
    <3>2. Cardinality(2..NPROC) = IF 2 > NPROC THEN 0 ELSE NPROC - 2 + 1
      BY NPROCAssumption, FS_Interval
    <3>3. Cardinality(2..NPROC) = NPROC - 1
      BY <3>2, NPROCAssumption
    <3>. QED  BY <1>1, <1>2, <2>2, <3>1, <3>3
  <2>3. CASE k # 0 /\ k # UnusedQ
    <3>1. Members(q, k) = {}
      BY <1>1, <2>3 DEF Members
    <3>. QED  BY <1>1, <2>3, <3>1, FS_EmptySet
  <2>. QED  BY <2>1, <2>2, <2>3
<1>. QED  BY <1>3, <1>5, <1>6 DEF Lined, InOrder, Counts

\* A step of a CPU that is no setPriority().
LEMMA StepOrder ==
  ASSUME IInv, Lined(q, queuelevel, priority), NEW c \in CPU, Step(c),
         ~\E t \in Proc, v \in Priorities : SetPriority(c, t, v)
  PROVE  OrderStep
<1>1. CASE Dispatch(c)
  BY <1>1, DispatchOrder
<1>2. CASE Yield(c)
  BY <1>2, YieldOrder
<1>3. CASE \E ch \in {TICKS, EVENT} : Sleep(c, ch)
  <2>1. cpu[c] # 0 /\ \E ch, place : GoToSleep(c, ch, place)
    BY <1>3 DEF Sleep, Enters, RunsAt
  <2>. QED  BY <2>1, GoToSleepOrder
<1>4. CASE WaitSleep(c)
  <2>1. cpu[c] # 0 /\ \E ch, place : GoToSleep(c, ch, place)
    BY <1>4 DEF WaitSleep, Waits, Enters, RunsAt
  <2>. QED  BY <2>1, GoToSleepOrder
<1>5. CASE Timer(c)
  <2>1. UNCHANGED <<queuelevel, priority>> /\ (Wakeup(TICKS) \/ q' = q)
    BY <1>5 DEF Timer
  <2>. QED  BY <2>1, WakeupOrder, SameOrder
<1>6. CASE ForkAlloc(c) \/ ForkFail(c) \/ ForkDone(c)
  BY <1>6, ForkOrder
<1>7. CASE ExitFinish(c)
  BY <1>7, ExitOrder
<1>8. CASE WaitReap(c)
  BY <1>8, WaitReapOrder
<1>9. CASE \E t \in Proc : Kill(c, t)
  BY <1>9, KillOrder
<1>10. CASE SchedulerUnlock(c)
  BY <1>10, UnlockOrder
<1>11. CASE \/ SyscallReturn(c) \/ ExitBegin(c) \/ WaitFails(c) \/ SchedulerLock(c)
            \/ \E t \in Proc : KillZero(c, t)
  <2>1. UNCHANGED <<q, queuelevel, priority>>
    BY <1>11 DEF SyscallReturn, ExitBegin, WaitFails, SchedulerLock, KillZero, schedVars
  <2>. QED  BY <2>1, SameOrder
<1>. QED  BY <1>1, <1>2, <1>3, <1>4, <1>5, <1>6, <1>7, <1>8, <1>9, <1>10, <1>11 DEF Step

\* The queues are in order as long as delete() was not misused.
OrderInv == IInv /\ (sound => Lined(q, queuelevel, priority))

\* Every step keeps the queues in order; only setPriority() moves one who waits.
LEMMA NextOrder ==
  ASSUME IInv, sound, Lined(q, queuelevel, priority), Next
  PROVE  /\ sound' => Lined(q', queuelevel', priority')
         /\ \A x, y \in Proc : /\ Ahead(q, x, y) /\ q.on[x] \in Level
                               /\ q'.on[x] \in Level /\ q'.on[y] \in Level
                               => \/ Ahead(q', x, y)
                                  \/ \E c \in CPU, t \in {x, y}, v \in Priorities : SetPriority(c, t, v)
<1>1. CASE Event
  <2>1. OrderStep
    BY <1>1, WakeupOrder DEF Event
  <2>. QED  BY <2>1 DEF OrderStep, Kept
<1>2. ASSUME NEW c \in CPU, Step(c), ~\E t \in Proc, v \in Priorities : SetPriority(c, t, v)
      PROVE  OrderStep
  BY <1>2, StepOrder
<1>3. ASSUME NEW c \in CPU, NEW t \in Proc, NEW v \in Priorities, SetPriority(c, t, v)
      PROVE  /\ sound' => Lined(q', queuelevel', priority')
             /\ \A x, y \in Proc : Ahead(q, x, y) => Ahead(q', x, y) \/ t \in {x, y}
  <2>1. CASE sound'
    BY <1>3, <2>1, SetPriorityOrder
  <2>2. CASE ~sound'
    <3>1. ~(Moves(t) => q.on[t] = 2)
      BY <1>3, <2>2 DEF SetPriority
    <3>2. q' = insert(delete(q, 2, t), 2, t, higherpriority_proc(q, t, [priority EXCEPT ![t] = v]))
      BY <1>3, <3>1 DEF SetPriority
    <3>3. ASSUME NEW x \in Proc \ {t}, NEW y \in Proc \ {t}, Ahead(q, x, y)
          PROVE  Ahead(q', x, y)
      <4>. DEFINE d == delete(q, 2, t)
      <4>1. Ahead(d, x, y)
        BY <3>3 DEF delete, Ahead
      <4>. HIDE DEF d
      <4>2. d.ahead \subseteq q'.ahead
        BY <3>2 DEF insert, Enter, d
      <4>. QED  BY <4>1, <4>2 DEF Ahead
    <3>. QED  BY <2>2, <3>3
  <2>. QED  BY <2>1, <2>2
<1>4. CASE \E c \in CPU : Step(c)
  <2>1. PICK c \in CPU : Step(c)
    BY <1>4
  <2>2. CASE \E t \in Proc, v \in Priorities : SetPriority(c, t, v)
    <3>1. PICK t \in Proc, v \in Priorities : SetPriority(c, t, v)
      BY <2>2
    <3>2. /\ sound' => Lined(q', queuelevel', priority')
          /\ \A x, y \in Proc : Ahead(q, x, y) => Ahead(q', x, y) \/ t \in {x, y}
      BY <1>3, <3>1
    <3>. QED  BY <3>1, <3>2
  <2>3. CASE ~\E t \in Proc, v \in Priorities : SetPriority(c, t, v)
    <3>1. OrderStep
      BY <1>2, <2>1, <2>3
    <3>. QED  BY <3>1 DEF OrderStep, Kept
  <2>. QED  BY <2>2, <2>3
<1>. QED  BY <1>1, <1>4 DEF Next

\* The invariant of the queues is inductive.
LEMMA OrderNext == OrderInv /\ IInv' /\ [Next]_vars => OrderInv'
<1>1. CASE Next
  <2>1. sound
    BY <1>1 DEF Next
  <2>. QED  BY <1>1, <2>1, NextOrder DEF OrderInv
<1>2. CASE UNCHANGED vars
  BY <1>2 DEF OrderInv, vars
<1>. QED  BY <1>1, <1>2

\* As long as delete() is called by its contract, every queue is in order and a
\* process in L1 or L2 is at that level, whatever yield(), sleep(), wakeup1(), the
\* boost and setPriority() do, on any number of CPUs.
THEOREM OrderInvariance == Spec => []OrderInv
<1>1. Init => OrderInv
  BY InitLined, InitIInv DEF OrderInv
<1>2. Spec => []IInv
  BY Invariance
<1>. QED  BY <1>1, <1>2, OrderNext, PTL DEF Spec

\* The five queues of struct mlfq stay strict orders with exact counts, and L2
\* stays sorted by priority.
THEOREM QueuesOrdered == Spec => []QueuesInOrder
<1>1. OrderInv => QueuesInOrder
  BY DEF OrderInv, QueuesInOrder, Lined, InOrder, Counts
<1>. QED  BY <1>1, OrderInvariance, PTL

\* Nobody who waits in a run queue is overtaken there: wakeups, yields and the
\* merges of priority_boosting() keep the order; only setPriority() changes it.
THEOREM WaitersKeepOrder == Spec => OrderKept
<1>1. OrderInv /\ [Next]_vars => [KeepsOrder]_vars
  <2>. SUFFICES ASSUME OrderInv, Next PROVE KeepsOrder
    OBVIOUS
  <2>1. sound
    BY DEF Next
  <2>. QED  BY <2>1, NextOrder DEF OrderInv, Ahead, KeepsOrder
<1>. QED  BY <1>1, OrderInvariance, PTL DEF Spec, OrderKept

-----------------------------------------------------------------------------
\* When a boost comes, whoever waits or sleeps starts afresh.
LEMMA BackBoost ==
  ASSUME NEW c \in CPU, NEW q1 \in QueuesType, NEW level1 \in [Proc -> Level],
         NEW priority1 \in [Proc -> Int], NEW ticks1, NEW lock1, NEW global1 \in Nat \ {0},
         BackInScheduler(c, q1, level1, priority1, ticks1, global1, lock1), global_ticks' = 0,
         NEW p \in Proc, q'.on[p] \in Level \cup {SleepQ}
  PROVE  queuelevel'[p] = 0 /\ priority'[p] = PRIO /\ ticks'[p] = 0
<1>1. /\ q' = MergedLevels(q1)
      /\ queuelevel' = Reset(Boosted(q'), level1, 0)
      /\ priority' = Reset(Boosted(q'), priority1, PRIO)
      /\ ticks' = Reset(Boosted(q'), ticks1, 0)
  BY DEF BackInScheduler
<1>2. p \in Boosted(q')
  <2>. DEFINE m1 == merge_queue(q1, 1, 2)
              m == merge_queue(m1, 0, 1)
  <2>0. 1 \in Queue /\ 2 \in Queue /\ 0 \in Queue
    BY QueueNumbers
  <2>1. m1 \in QueuesType /\ m1.on = [x \in Proc |-> IF q1.on[x] = 2 THEN 1 ELSE q1.on[x]]
    BY <2>0, MergeType
  <2>. HIDE DEF m1
  <2>2. m.on = [x \in Proc |-> IF m1.on[x] = 1 THEN 0 ELSE m1.on[x]]
    BY <2>0, <2>1, MergeType
  <2>. HIDE DEF m
  <2>3. q' = m
    BY <1>1 DEF m, m1, MergedLevels
  <2>. QED  BY <2>1, <2>2, <2>3, QueueNumbers DEF Boosted, Members
<1>. QED  BY <1>1, <1>2 DEF Reset

\* Only the boost check behind yield(), sleep() and exit() takes global_ticks back to 0.
LEMMA BoostStep ==
  ASSUME IInv, NEW c \in CPU, Step(c), global_ticks # 0, global_ticks' = 0, lockproc' = 0,
         NEW x \in Proc, q'.on[x] \in Level \cup {SleepQ}
  PROVE  queuelevel'[x] = 0 /\ priority'[x] = PRIO /\ ticks'[x] = 0
<1>g. global_ticks \in Nat \ {0} /\ global_ticks + 1 \in Nat \ {0}
  BY TickAssumption DEF IInv, TypeOK
<1>a. cpu[c] # 0 => cpu[c] \in Proc
  BY Runner
<1>1. CASE Yield(c)
  <2>. DEFINE p == cpu[c]
              t == Charged(ticks[p])
              spent == ~Keeps(p) /\ t = Quantum(queuelevel[p])
              l1 == IF spent THEN Demoted(queuelevel[p]) ELSE queuelevel[p]
              v1 == IF spent /\ queuelevel[p] = 2 /\ priority[p] # 0 THEN priority[p] - 1 ELSE priority[p]
              level1 == [queuelevel EXCEPT ![p] = l1]
              priority1 == [priority EXCEPT ![p] = v1]
              ticks1 == [ticks EXCEPT ![p] = IF spent THEN 0 ELSE t]
              q1 == IF Keeps(p) THEN insert_head(q, 0, p) ELSE requeue(q, p, level1, priority1)
  <2>1. p \in Proc
    BY <1>1, <1>a DEF Yield
  <2>2. BackInScheduler(c, q1, level1, priority1, ticks1, global_ticks + 1, lockproc)
    BY <1>1 DEF Yield
  <2>3. level1 \in [Proc -> Level] /\ priority1 \in [Proc -> Int]
    <3>1. \A l \in Level : Demoted(l) \in Level
      BY QueueNumbers DEF Demoted
    <3>2. l1 \in Level /\ v1 \in Int
      <4>. HIDE DEF spent
      <4>. QED  BY <2>1, <3>1, Typed
    <3>. HIDE DEF l1, v1
    <3>. QED  BY <3>2, Typed
  <2>4. q1 \in QueuesType
    <3>. HIDE DEF level1, priority1, p
    <3>1. requeue(q, p, level1, priority1) \in QueuesType
      BY <2>1, <2>3, Typed, RequeueType
    <3>2. insert_head(q, 0, p) \in QueuesType
      BY <2>1, Typed, InsertHeadType
    <3>. QED  BY <3>1, <3>2
  <2>. HIDE DEF q1, level1, priority1, ticks1
  <2>. QED  BY <1>g, <2>2, <2>3, <2>4, BackBoost
<1>2. CASE WaitSleep(c) \/ \E ch \in {TICKS, EVENT} : Sleep(c, ch)
  <2>1. cpu[c] # 0 /\ \E ch, place : GoToSleep(c, ch, place)
    BY <1>2 DEF Sleep, WaitSleep, Waits, Enters, RunsAt
  <2>. DEFINE q1 == insert(q, SleepQ, cpu[c], 0)
  <2>2. BackInScheduler(c, q1, queuelevel, priority, ticks, global_ticks, 0)
    BY <2>1 DEF GoToSleep
  <2>3. SleepQ \in Queue
    BY QueueNumbers
  <2>4. q1 \in QueuesType
    BY <1>a, <2>1, <2>3, Typed, InsertType
  <2>. HIDE DEF q1
  <2>. QED  BY <1>g, <2>2, <2>4, Typed, BackBoost
<1>3. CASE ExitFinish(c)
  <2>. DEFINE W1 == Sleepers(parent[cpu[c]])
              W2 == IF WakesInit(cpu[c]) THEN Sleepers(initproc) \ W1 ELSE {}
              qa == requeue_all(q, W1, queuelevel, priority)
              q1 == requeue_all(qa, W2, queuelevel, priority)
  <2>1. W1 \in SUBSET Proc /\ W2 \in SUBSET Proc
    BY DEF Sleepers, Members
  <2>2. BackInScheduler(c, q1, queuelevel, priority, ticks, global_ticks, 0)
    BY <1>3 DEF ExitFinish
  <2>. HIDE DEF W1, W2
  <2>3. qa \in QueuesType
    BY <2>1, Typed, RequeueAllType
  <2>. HIDE DEF qa
  <2>4. q1 \in QueuesType
    BY <2>1, <2>3, Typed, RequeueAllType
  <2>. HIDE DEF q1
  <2>. QED  BY <1>g, <2>2, <2>4, Typed, BackBoost
<1>4. CASE Dispatch(c) \/ SyscallReturn(c) \/ Timer(c) \/ ForkAlloc(c) \/ ForkFail(c) \/ ForkDone(c)
           \/ ExitBegin(c) \/ WaitReap(c) \/ WaitFails(c)
  <2>1. UNCHANGED <<global_ticks, lockproc>>
    BY <1>4 DEF Dispatch, SyscallReturn, Timer, ForkAlloc, ForkFail, ForkDone, ExitBegin, WaitReap,
                WaitFails, schedVars
  <2>. QED  BY <2>1
<1>5. CASE \/ \E t \in Proc : Kill(c, t)
           \/ \E t \in Proc : KillZero(c, t)
           \/ \E t \in Proc, v \in Priorities : SetPriority(c, t, v)
  <2>1. UNCHANGED <<global_ticks, lockproc>>
    BY <1>5 DEF Kill, KillZero, SetPriority, schedVars
  <2>. QED  BY <2>1
<1>6. CASE SchedulerLock(c)
  <2>1. cpu[c] # 0 /\ lockproc' = cpu[c]
    BY <1>6 DEF SchedulerLock, Traps, RunsAt
  <2>. QED  BY <2>1
<1>7. CASE SchedulerUnlock(c)
  BY <1>7 DEF SchedulerUnlock
<1>. QED  BY <1>1, <1>2, <1>3, <1>4, <1>5, <1>6, <1>7 DEF Step

\* priority_boosting() resets level, priority and ticks of every process that is
\* RUNNABLE or SLEEPING.  (With BOOST = 1 the counter is always 0 and BoostReachesAll
\* would take any step for a boost; the code has 100.)
THEOREM BoostsReachAll == ASSUME BOOST > 1 PROVE Spec => BoostReachesAll
<1>1. IInv /\ IInv' /\ [Next]_vars => [Boosts]_vars
  <2>. SUFFICES ASSUME IInv, IInv', Next, global_ticks = BOOST - 1, global_ticks' = 0, lockproc' = 0,
                       NEW p \in Proc, state'[p] \in {"RUNNABLE", "SLEEPING"}
                PROVE  queuelevel'[p] = 0 /\ priority'[p] = PRIO /\ ticks'[p] = 0
    BY DEF Boosts
  <2>1. q'.on[p] \in Level \cup {SleepQ}
    BY DEF IInv, QueuesMatchStates
  <2>2. global_ticks # 0
    BY TickAssumption
  <2>3. ~Event
    BY <2>2 DEF Event
  <2>4. PICK c \in CPU : Step(c)
    BY <2>3 DEF Next
  <2>. QED  BY <2>1, <2>2, <2>4, BoostStep
<1>. QED  BY <1>1, Invariance, PTL DEF Spec, BoostReachesAll

-----------------------------------------------------------------------------
\* The quanta are positive, and the model counts beyond the longest.
LEMMA QuantumIs == \A l \in Level : Quantum(l) \in Nat \ {0} /\ Quantum(l) < TickCap
<1>1. QSTEP \in Nat /\ QBASE \in Nat \ {0}
  BY TickAssumption
<1>2. Quantum(0) = QBASE /\ Quantum(1) = QSTEP + QBASE /\ Quantum(2) = QSTEP + QSTEP + QBASE
  BY <1>1 DEF Quantum
<1>. QED  BY <1>1, <1>2, QueueNumbers DEF TickCap

\* Nobody has, or has had, the scheduler lock.
QuantumInv == lockproc = 0 /\ unlockproc = 0 /\ WithinQuantum

\* scheduler() and its boost keep everybody within the quantum.
LEMMA BackQuantum ==
  ASSUME NEW c, NEW q1, NEW level1 \in [Proc -> Level], NEW priority1,
         NEW ticks1 \in [Proc -> 0..TickCap], NEW global1,
         \A p \in Proc : ticks1[p] < Quantum(level1[p]),
         BackInScheduler(c, q1, level1, priority1, ticks1, global1, 0)
  PROVE  lockproc' = 0 /\ \A p \in Proc : ticks'[p] < Quantum(queuelevel'[p])
<1>1. CASE global1 = BOOST
  <2>1. PICK S : queuelevel' = Reset(S, level1, 0) /\ ticks' = Reset(S, ticks1, 0) /\ lockproc' = 0
    BY <1>1 DEF BackInScheduler
  <2>2. 0 < Quantum(0)
    BY QuantumIs, QueueNumbers
  <2>. QED  BY <2>1, <2>2 DEF Reset
<1>2. CASE global1 # BOOST
  BY <1>2 DEF BackInScheduler
<1>. QED  BY <1>1, <1>2

\* yield() moves a process that has used up its quantum one level down.
LEMMA YieldQuantum ==
  ASSUME IInv, QuantumInv, NEW c \in CPU, Yield(c)
  PROVE  QuantumInv'
<1>. DEFINE p == cpu[c]
            t == Charged(ticks[p])
            spent == t = Quantum(queuelevel[p])
            l1 == IF spent THEN Demoted(queuelevel[p]) ELSE queuelevel[p]
            t1 == IF spent THEN 0 ELSE t
            v1 == IF spent /\ queuelevel[p] = 2 /\ priority[p] # 0 THEN priority[p] - 1 ELSE priority[p]
            level1 == [queuelevel EXCEPT ![p] = l1]
            priority1 == [priority EXCEPT ![p] = v1]
            ticks1 == [ticks EXCEPT ![p] = t1]
            q1 == requeue(q, p, level1, priority1)
<1>1. p \in Proc /\ p # 0
  BY Runner DEF Yield
<1>2. ~Keeps(p)
  BY <1>1 DEF Keeps, QuantumInv
<1>3. BackInScheduler(c, q1, level1, priority1, ticks1, global_ticks + 1, 0)
  BY <1>2 DEF Yield, QuantumInv
<1>4. /\ ticks \in [Proc -> 0..TickCap] /\ queuelevel \in [Proc -> Level]
      /\ TickCap \in Nat /\ \A x \in Proc : ticks[x] < Quantum(queuelevel[x])
  BY QuantumIs, QueueNumbers, TickAssumption DEF IInv, TypeOK, QuantumInv, WithinQuantum, TickCap, Quantum
<1>5. \A l \in Level : Demoted(l) \in Level
  BY QueueNumbers DEF Demoted
<1>6. t = ticks[p] + 1 /\ t <= Quantum(queuelevel[p]) /\ t \in 0..TickCap
  BY <1>1, <1>4, QuantumIs DEF Charged
<1>. HIDE DEF t
<1>7. l1 \in Level /\ t1 \in 0..TickCap /\ t1 < Quantum(l1)
  <2>1. CASE spent
    BY <1>1, <1>4, <1>5, <2>1, QuantumIs
  <2>2. CASE ~spent
    BY <1>1, <1>4, <1>6, <2>2, QuantumIs
  <2>. QED  BY <2>1, <2>2
<1>. HIDE DEF l1, t1, p
<1>8. level1 \in [Proc -> Level] /\ ticks1 \in [Proc -> 0..TickCap]
      /\ \A x \in Proc : ticks1[x] < Quantum(level1[x])
  BY <1>1, <1>4, <1>7
<1>. HIDE DEF level1, ticks1, priority1, q1
<1>9. lockproc' = 0 /\ \A x \in Proc : ticks'[x] < Quantum(queuelevel'[x])
  BY <1>3, <1>8, BackQuantum
<1>10. unlockproc' = 0
  BY DEF Yield, QuantumInv
<1>. QED  BY <1>9, <1>10 DEF QuantumInv, WithinQuantum

\* No step but schedulerLock() lets a process outrun its quantum.
LEMMA StepQuantum ==
  ASSUME IInv, QuantumInv, NEW c \in CPU, Step(c), ~SchedulerLock(c)
  PROVE  QuantumInv'
<1>0. /\ ticks \in [Proc -> 0..TickCap] /\ queuelevel \in [Proc -> Level]
      /\ lockproc = 0 /\ unlockproc = 0
      /\ \A x \in Proc : ticks[x] < Quantum(queuelevel[x])
  BY DEF IInv, TypeOK, QuantumInv, WithinQuantum
<1>1. CASE Yield(c)
  BY <1>1, YieldQuantum
<1>2. CASE WaitSleep(c) \/ ExitFinish(c) \/ \E ch \in {TICKS, EVENT} : Sleep(c, ch)
  <2>1. /\ unlockproc' = unlockproc
        /\ \E q1 : BackInScheduler(c, q1, queuelevel, priority, ticks, global_ticks, 0)
    BY <1>2 DEF WaitSleep, Sleep, GoToSleep, ExitFinish
  <2>2. lockproc' = 0 /\ \A x \in Proc : ticks'[x] < Quantum(queuelevel'[x])
    BY <1>0, <2>1, BackQuantum
  <2>. QED  BY <1>0, <2>1, <2>2 DEF QuantumInv, WithinQuantum
<1>3. CASE ForkAlloc(c) \/ WaitReap(c)
  <2>1. PICK z \in Proc : /\ queuelevel' = [queuelevel EXCEPT ![z] = 0]
                          /\ ticks' = [ticks EXCEPT ![z] = 0]
                          /\ UNCHANGED <<lockproc, unlockproc>>
    BY <1>3 DEF ForkAlloc, WaitReap, ZombieKids, Kids
  <2>2. 0 < Quantum(0)
    BY QuantumIs, QueueNumbers
  <2>3. \A x \in Proc : ticks'[x] < Quantum(queuelevel'[x])
    BY <1>0, <2>1, <2>2
  <2>. QED  BY <1>0, <2>1, <2>3 DEF QuantumInv, WithinQuantum
<1>4. CASE \/ Dispatch(c) \/ SyscallReturn(c) \/ Timer(c) \/ ForkFail(c) \/ ForkDone(c)
           \/ ExitBegin(c) \/ WaitFails(c)
  <2>1. UNCHANGED <<ticks, queuelevel, lockproc, unlockproc>>
    BY <1>4 DEF Dispatch, SyscallReturn, Timer, ForkFail, ForkDone, ExitBegin, WaitFails, schedVars
  <2>. QED  BY <2>1 DEF QuantumInv, WithinQuantum
<1>5. CASE \/ \E t \in Proc : Kill(c, t)
           \/ \E t \in Proc : KillZero(c, t)
           \/ \E t \in Proc, v \in Priorities : SetPriority(c, t, v)
  <2>1. UNCHANGED <<ticks, queuelevel, lockproc, unlockproc>>
    BY <1>5 DEF Kill, KillZero, SetPriority, schedVars
  <2>. QED  BY <2>1 DEF QuantumInv, WithinQuantum
<1>6. ~SchedulerUnlock(c)
  BY <1>0 DEF SchedulerUnlock
<1>. QED  BY <1>1, <1>2, <1>3, <1>4, <1>5, <1>6 DEF Step

\* Wakeups change no ticks.
LEMMA EventQuantum ==
  ASSUME QuantumInv, Event \/ UNCHANGED vars
  PROVE  QuantumInv'
<1>1. UNCHANGED <<ticks, queuelevel, lockproc, unlockproc>>
  BY DEF Event, vars
<1>. QED  BY <1>1 DEF QuantumInv, WithinQuantum

\* The first process has used nothing.
LEMMA InitQuantum == Init => QuantumInv
<1>1. 0 < Quantum(0)
  BY QuantumIs, QueueNumbers
<1>. QED  BY <1>1 DEF Init, QuantumInv, WithinQuantum

\* Where no process locks the scheduler, no process outruns the time quantum of its
\* level: yield() demotes it on the tick that uses the quantum up, on any number of
\* CPUs.  (A holder of the lock is not demoted, and does.)
THEOREM QuantaKept == ASSUME "schedulerLock" \notin Syscalls PROVE Spec => []WithinQuantum
<1>1. IInv /\ QuantumInv /\ [Next]_vars => QuantumInv'
  <2>. SUFFICES ASSUME IInv, QuantumInv, [Next]_vars PROVE QuantumInv'
    OBVIOUS
  <2>1. ASSUME NEW c \in CPU, Step(c) PROVE QuantumInv'
    <3>1. ~SchedulerLock(c)
      BY DEF SchedulerLock, Traps
    <3>. QED  BY <2>1, <3>1, StepQuantum
  <2>. QED  BY <2>1, EventQuantum DEF Next
<1>2. QuantumInv => WithinQuantum
  BY DEF QuantumInv
<1>. QED  BY <1>1, <1>2, InitQuantum, Invariance, PTL DEF Spec


-----------------------------------------------------------------------------
\* Every process on a run queue is on that of its level.
AtLevel(r, lev) == \A p \in Proc : r.on[p] \in Level => lev[p] = r.on[p]
Fresh == \A p \in Proc : state[p] = "EMBRYO" => queuelevel[p] = 0
Alone == \A c \in CPU \ {BootCPU} : cpu[c] = 0

\* Only the first CPU runs processes.
OneInv ==
  /\ Alone /\ sound /\ Fresh
  /\ \A p \in Proc : q.on[p] \in Level /\ queuelevel[p] # q.on[p] =>
       cpu[BootCPU] = 0 /\ IsHead(q, 0, p)
  /\ lockproc # 0 => \/ lockproc = cpu[BootCPU]
                     \/ cpu[BootCPU] = 0 /\ IsHead(q, 0, lockproc)

\* Nobody out of place: the rest of the invariant follows.
LEMMA Settled ==
  ASSUME AtLevel(q', queuelevel'), lockproc' \in {0, cpu'[BootCPU]}, Alone', sound', Fresh'
  PROVE  OneInv'
BY DEF OneInv, AtLevel

\* While the CPU runs a process nobody is out of place, and the lock is its own.
LEMMA Busy ==
  ASSUME OneInv, cpu[BootCPU] # 0
  PROVE  AtLevel(q, queuelevel) /\ lockproc \in {0, cpu[BootCPU]}
BY DEF OneInv, AtLevel

\* The head of L0 stays the head through wakeups: they go to the tail.
LEMMA WakeHead ==
  ASSUME NEW r \in QueuesType, NEW lev \in [Proc -> Level], NEW prio \in [Proc -> Int],
         Lined(r, lev, prio), NEW W \in SUBSET Members(r, SleepQ), NEW p, IsHead(r, 0, p)
  PROVE  IsHead(requeue_all(r, W, lev, prio), 0, p)
<1>. DEFINE e == requeue_all(r, W, lev, prio)
<1>1. Woken(e, r, W, lev, prio)
  BY RequeueAllIs DEF Lined, InOrder
<1>. HIDE DEF e
<1>2. p \in Proc /\ r.on[p] = 0 /\ p \notin W
  BY QueueNumbers DEF IsHead, Members
<1>3. e.on[p] = 0
  BY <1>1, <1>2 DEF Woken
<1>4. ASSUME NEW x \in Members(e, 0), Ahead(e, x, p) PROVE FALSE
  <2>1. x \in Proc /\ e.on[x] = 0
    BY DEF Members
  <2>2. x \notin W
    BY <1>1, <1>2, <1>3, <1>4, <2>1, QueueNumbers DEF Woken
  <2>3. Ahead(r, x, p) /\ r.on[x] = 0
    BY <1>1, <1>2, <1>4, <2>1, <2>2 DEF Woken
  <2>. QED  BY <2>1, <2>3 DEF IsHead, Members, Ahead
<1>. QED  BY <1>2, <1>3, <1>4 DEF IsHead, Members, Ahead, e

\* wakeup() puts nobody out of place.
LEMMA WakeupOne ==
  ASSUME IInv, Lined(q, queuelevel, priority), OneInv, NEW ch, Wakeup(ch),
         UNCHANGED <<priority, queuelevel, lockproc, cpu, sound>>
  PROVE  OneInv'
<1>. DEFINE W == Sleepers(ch)
<1>1. /\ q \in QueuesType /\ queuelevel \in [Proc -> Level] /\ priority \in [Proc -> Int]
      /\ W \in SUBSET Members(q, SleepQ)
  BY Typed DEF Sleepers
<1>2. q' = requeue_all(q, W, queuelevel, priority) /\ state' = WakeState(W)
  BY DEF Wakeup
<1>. HIDE DEF W
<1>3. \A x \in Proc : q'.on[x] = IF x \in W THEN queuelevel[x] ELSE q.on[x]
  BY <1>1, <1>2, RequeueAllLined
<1>4. \A p : IsHead(q, 0, p) => IsHead(q', 0, p)
  BY <1>1, <1>2, WakeHead
<1>5. Fresh'
  BY <1>2 DEF OneInv, Fresh, WakeState
<1>6. \A p \in Proc : q'.on[p] \in Level /\ queuelevel'[p] # q'.on[p] =>
        cpu'[BootCPU] = 0 /\ IsHead(q', 0, p)
  BY <1>3, <1>4 DEF OneInv
<1>7. lockproc' # 0 => \/ lockproc' = cpu'[BootCPU]
                       \/ cpu'[BootCPU] = 0 /\ IsHead(q', 0, lockproc')
  BY <1>4 DEF OneInv
<1>8. Alone' /\ sound'
  BY DEF OneInv, Alone
<1>. QED  BY <1>5, <1>6, <1>7, <1>8 DEF OneInv

\* scheduler() runs the process that is out of place, and the holder of the lock.
LEMMA DispatchOne ==
  ASSUME IInv, Lined(q, queuelevel, priority), OneInv, Dispatch(BootCPU)
  PROVE  OneInv' /\ (lockproc # 0 => cpu'[BootCPU] = lockproc)
<1>1. /\ q \in QueuesType /\ queuelevel \in [Proc -> Level] /\ priority \in [Proc -> Int]
      /\ BootCPU \in CPU /\ cpu[BootCPU] = 0 /\ cpu \in [CPU -> Proc \cup {0}]
      /\ state \in [Proc -> State] /\ 0 \notin Proc
  BY Typed, CPUAssumption, Constants DEF Dispatch, IInv, TypeOK
<1>2. PICK k \in Level, p \in Proc :
        /\ IsHead(q, k, p)
        /\ \A j \in Level : j < k => queue_is_empty(q, j)
        /\ q' = delete(q, k, p)
        /\ state' = [state EXCEPT ![p] = "RUNNING"]
        /\ cpu' = [cpu EXCEPT ![BootCPU] = p]
  BY DEF Dispatch
<1>3. p \in Members(q, k) /\ k \in Queue
  BY <1>2, QueueNumbers DEF IsHead
<1>4. Deleted(q', q, k, p)
  BY <1>1, <1>2, <1>3, DeleteLined
<1>5. ASSUME NEW x \in Proc, IsHead(q, 0, x) PROVE x = p
  <2>1. x \in Members(q, 0)
    BY <1>5 DEF IsHead
  <2>2. k = 0
    BY <1>2, <2>1, QueueNumbers DEF queue_is_empty
  <2>3. ~Ahead(q, p, x) /\ ~Ahead(q, x, p) /\ q.on[x] = 0 /\ q.on[p] = 0
    BY <1>2, <1>3, <1>5, <2>1, <2>2 DEF IsHead, Ahead, Members
  <2>4. Ordered(q)
    BY DEF Lined, InOrder
  <2>. QED  BY <2>3, <2>4, OrderedIs, QueueNumbers
<1>6. AtLevel(q', queuelevel')
  <2>1. queuelevel' = queuelevel
    BY DEF Dispatch
  <2>2. ASSUME NEW x \in Proc, q'.on[x] \in Level PROVE queuelevel[x] = q'.on[x]
    <3>1. x # p /\ q'.on[x] = q.on[x]
      BY <1>4, <2>2, QueueNumbers DEF Deleted
    <3>. QED  BY <1>5, <2>2, <3>1 DEF OneInv
  <2>. QED  BY <2>1, <2>2 DEF AtLevel
<1>7. lockproc # 0 => lockproc = p
  BY <1>1, <1>2, <1>5 DEF OneInv, IsHead, Members
<1>8. lockproc' = lockproc /\ sound' /\ cpu'[BootCPU] = p /\ Alone'
  BY <1>1, <1>2 DEF Dispatch, OneInv, Alone
<1>9. Fresh'
  BY <1>1, <1>2 DEF OneInv, Fresh, Dispatch
<1>. QED  BY <1>6, <1>7, <1>8, <1>9, Settled

\* Without a boost, the values of the process that gave up the CPU are kept.
LEMMA NoBoost ==
  ASSUME IInv, NEW c, NEW q1, NEW l1, NEW p1, NEW t1, NEW lock1,
         BackInScheduler(c, q1, l1, p1, t1, global_ticks, lock1)
  PROVE  /\ q' = q1 /\ queuelevel' = l1 /\ priority' = p1 /\ lockproc' = lock1
         /\ cpu' = [cpu EXCEPT ![c] = 0]
<1>1. global_ticks # BOOST
  BY TickAssumption DEF IInv, TypeOK
<1>. QED  BY <1>1 DEF BackInScheduler

\* After a boost everybody waits in L0 and is at level 0.
LEMMA BoostAtLevel ==
  ASSUME NEW q1 \in QueuesType, NEW l1 \in [Proc -> Level], NEW e, e = MergedLevels(q1)
  PROVE  AtLevel(e, Reset(Boosted(e), l1, 0))
<1>. DEFINE m == merge_queue(q1, 1, 2)
<1>1. m \in QueuesType /\ m.on = [x \in Proc |-> IF q1.on[x] = 2 THEN 1 ELSE q1.on[x]]
  BY MergeType, QueueNumbers
<1>2. e = merge_queue(m, 0, 1)
  BY DEF MergedLevels
<1>. HIDE DEF m
<1>3. e.on = [x \in Proc |-> IF m.on[x] = 1 THEN 0 ELSE m.on[x]]
  <2>1. 0 \in Queue /\ 1 \in Queue
    BY QueueNumbers
  <2>. QED  BY <1>1, <1>2, <2>1, MergeType
<1>4. \A x \in Proc : e.on[x] \in Level => e.on[x] = 0
  BY <1>1, <1>3, QueueNumbers
<1>5. \A x \in Proc : e.on[x] = 0 => x \in Boosted(e)
  BY DEF Boosted, Members
<1>. QED  BY <1>4, <1>5 DEF AtLevel, Reset

\* insert_head() makes p the head.
LEMMA EnteredHead ==
  ASSUME NEW r \in QueuesType, NEW p \in Proc, r.on[p] = NoQ, Ordered(r)
  PROVE  IsHead(insert_head(r, 0, p), 0, p)
<1>. DEFINE e == insert_head(r, 0, p)
<1>1. Entered(e, r, 0, p, {})
  BY EnterIs, QueueNumbers DEF insert_head
<1>. HIDE DEF e
<1>2. e.on[p] = 0
  BY <1>1 DEF Entered
<1>3. ASSUME NEW x \in Proc, Ahead(e, x, p) PROVE FALSE
  <2>1. Ahead(r, x, p)
    BY <1>1, <1>3, QueueNumbers DEF Entered
  <2>. QED  BY <2>1, OrderedIs
<1>. QED  BY <1>2, <1>3 DEF IsHead, Members, Ahead, e

\* yield() puts at most the holder, or last holder, of the lock out of place, and at
\* the head of L0; a boost takes the lock away.
LEMMA YieldOne ==
  ASSUME IInv, Lined(q, queuelevel, priority), OneInv, Yield(BootCPU)
  PROVE  OneInv'
<1>. DEFINE p == cpu[BootCPU]
            t == Charged(ticks[p])
            spent == ~Keeps(p) /\ t = Quantum(queuelevel[p])
            l1 == IF spent THEN Demoted(queuelevel[p]) ELSE queuelevel[p]
            level1 == [queuelevel EXCEPT ![p] = l1]
            priority1 == [priority EXCEPT ![p] = IF spent /\ queuelevel[p] = 2 /\ @ # 0 THEN @ - 1 ELSE @]
            ticks1 == [ticks EXCEPT ![p] = IF spent THEN 0 ELSE t]
            q1 == IF Keeps(p) THEN insert_head(q, 0, p) ELSE requeue(q, p, level1, priority1)
<1>1. BootCPU \in CPU /\ p # 0
  BY CPUAssumption DEF Yield
<1>2. p \in Proc /\ q.on[p] = NoQ /\ state[p] = "RUNNING"
  BY <1>1, Runner
<1>3. /\ q \in QueuesType /\ queuelevel \in [Proc -> Level] /\ cpu \in [CPU -> Proc \cup {0}]
      /\ state \in [Proc -> State]
  BY Typed DEF IInv, TypeOK
<1>4. BackInScheduler(BootCPU, q1, level1, priority1, ticks1, global_ticks + 1, lockproc)
  BY DEF Yield
<1>5. state' = [state EXCEPT ![p] = "RUNNABLE"] /\ sound' = sound
  BY DEF Yield
<1>6. AtLevel(q, queuelevel) /\ lockproc \in {0, p}
  BY <1>1, Busy
<1>7. \A l \in Level : Demoted(l) \in Level
  BY QueueNumbers DEF Demoted
<1>8. l1 \in Level
  BY <1>2, <1>3, <1>7
<1>. HIDE DEF l1, t, spent
<1>9. level1 \in [Proc -> Level] /\ \A x \in Proc : level1[x] = IF x = p THEN l1 ELSE queuelevel[x]
  BY <1>2, <1>3, <1>8
<1>. HIDE DEF level1, priority1, ticks1
<1>10. q1 \in QueuesType /\ \A x \in Proc \ {p} : q1.on[x] = q.on[x]
  <2>1. CASE Keeps(p)
    <3>. DEFINE e == insert_head(q, 0, p)
    <3>1. e \in QueuesType /\ e.on = [q.on EXCEPT ![p] = 0]
      BY <1>2, <1>3, InsertHeadType
    <3>2. q1 = e
      BY <2>1
    <3>. HIDE DEF e
    <3>. QED  BY <1>3, <3>1, <3>2 DEF QueuesType
  <2>2. CASE ~Keeps(p)
    <3>. DEFINE e == requeue(q, p, level1, priority1)
    <3>1. e \in QueuesType /\ e.on = [q.on EXCEPT ![p] = level1[p]]
      BY <1>2, <1>3, <1>9, RequeueType
    <3>2. q1 = e
      BY <2>2
    <3>. HIDE DEF e
    <3>. QED  BY <1>3, <3>1, <3>2 DEF QueuesType
  <2>. QED  BY <2>1, <2>2
<1>11. ASSUME Keeps(p) PROVE IsHead(q1, 0, p) /\ q1.on[p] = 0
  <2>1. Ordered(q)
    BY DEF Lined, InOrder
  <2>. QED  BY <1>2, <1>3, <1>11, <2>1, EnteredHead DEF IsHead, Members
<1>12. ASSUME ~Keeps(p) PROVE q1.on[p] = level1[p] /\ lockproc = 0
  <2>1. q1.on[p] = level1[p]
    <3>. DEFINE e == requeue(q, p, level1, priority1)
    <3>1. e.on = [q.on EXCEPT ![p] = level1[p]]
      BY <1>2, <1>3, <1>9, RequeueType
    <3>2. q1 = e
      BY <1>12
    <3>. HIDE DEF e
    <3>. QED  BY <1>2, <1>3, <3>1, <3>2 DEF QueuesType
  <2>. QED  BY <1>6, <1>12, <2>1 DEF Keeps
<1>. HIDE DEF q1
<1>13. cpu' = [cpu EXCEPT ![BootCPU] = 0]
  BY <1>4 DEF BackInScheduler
<1>14. Alone' /\ sound' /\ cpu'[BootCPU] = 0
  BY <1>1, <1>3, <1>5, <1>13 DEF OneInv, Alone
<1>15. CASE global_ticks + 1 = BOOST
  <2>1. /\ q' = MergedLevels(q1) /\ lockproc' = 0
        /\ queuelevel' = Reset(Boosted(q'), level1, 0)
    BY <1>4, <1>15 DEF BackInScheduler
  <2>2. AtLevel(q', queuelevel')
    BY <1>9, <1>10, <2>1, BoostAtLevel
  <2>3. Fresh'
    BY <1>2, <1>3, <1>5, <1>9, <2>1 DEF Fresh, Reset, OneInv
  <2>. QED  BY <1>14, <2>1, <2>2, <2>3, Settled
<1>16. CASE global_ticks + 1 # BOOST
  <2>1. q' = q1 /\ lockproc' = lockproc /\ queuelevel' = level1
    BY <1>4, <1>16 DEF BackInScheduler
  <2>2. Fresh'
    BY <1>2, <1>3, <1>5, <1>9, <2>1 DEF Fresh, OneInv
  <2>3. CASE Keeps(p)
    <3>1. \A x \in Proc : q'.on[x] \in Level /\ queuelevel'[x] # q'.on[x] => x = p
      BY <1>6, <1>9, <1>10, <2>1 DEF AtLevel
    <3>. QED  BY <1>6, <1>11, <1>14, <2>1, <2>2, <2>3, <3>1 DEF OneInv
  <2>4. CASE ~Keeps(p)
    <3>1. AtLevel(q', queuelevel') /\ lockproc' = 0
      BY <1>6, <1>9, <1>10, <1>12, <2>1, <2>4 DEF AtLevel
    <3>. QED  BY <1>14, <2>2, <3>1, Settled
  <2>. QED  BY <2>3, <2>4
<1>. QED  BY <1>15, <1>16

\* The process that runs on the first CPU goes to sleep.
LEMMA SleepOne ==
  ASSUME IInv, OneInv, cpu[BootCPU] # 0, NEW ch, NEW place, GoToSleep(BootCPU, ch, place), sound' = sound
  PROVE  OneInv'
<1>. DEFINE p == cpu[BootCPU]
            q1 == insert(q, SleepQ, p, 0)
<1>1. BootCPU \in CPU /\ p \in Proc /\ q \in QueuesType /\ SleepQ \in Queue
  BY CPUAssumption, Runner, Typed, QueueNumbers
<1>2. q1.on = [q.on EXCEPT ![p] = SleepQ]
  BY <1>1, InsertType
<1>3. /\ BackInScheduler(BootCPU, q1, queuelevel, priority, ticks, global_ticks, 0)
      /\ state' = [state EXCEPT ![p] = "SLEEPING"]
  BY DEF GoToSleep
<1>. HIDE DEF q1
<1>4. q' = q1 /\ queuelevel' = queuelevel /\ lockproc' = 0 /\ cpu' = [cpu EXCEPT ![BootCPU] = 0]
  BY <1>3, NoBoost
<1>5. AtLevel(q', queuelevel')
  <2>1. \A x \in Proc : q'.on[x] = IF x = p THEN SleepQ ELSE q.on[x]
    BY <1>1, <1>2, <1>4 DEF QueuesType
  <2>. QED  BY <1>4, <2>1, Busy, QueueNumbers DEF AtLevel
<1>6. Alone' /\ Fresh' /\ sound'
  BY <1>3, <1>4 DEF OneInv, Alone, Fresh, IInv, TypeOK
<1>. QED  BY <1>4, <1>5, <1>6, Settled

\* The three steps of fork(): a new process is at level 0 and enters L0.
LEMMA ForkOne ==
  ASSUME IInv, OneInv, ForkAlloc(BootCPU) \/ ForkFail(BootCPU) \/ ForkDone(BootCPU)
  PROVE  OneInv'
<1>1. cpu[BootCPU] # 0 /\ BootCPU \in CPU
  BY CPUAssumption DEF ForkAlloc, ForkFail, ForkDone, RunsAt, Enters
<1>2. cpu[BootCPU] \in Proc /\ AtLevel(q, queuelevel) /\ lockproc \in {0, cpu[BootCPU]} /\ Fresh
  BY <1>1, Runner, Busy DEF OneInv
<1>3. /\ q \in QueuesType /\ queuelevel \in [Proc -> Level] /\ state \in [Proc -> State]
      /\ q.on \in [Proc -> Queue \cup {NoQ}]
  BY Typed DEF IInv, TypeOK
<1>4. UNCHANGED <<lockproc, cpu, sound>>
  BY DEF ForkAlloc, ForkFail, ForkDone
<1>5. Alone' /\ sound' /\ lockproc' \in {0, cpu'[BootCPU]}
  BY <1>2, <1>4 DEF OneInv, Alone
<1>6. CASE ForkAlloc(BootCPU)
  <2>1. PICK np \in Proc : /\ IsHead(q, UnusedQ, np) /\ q' = delete(q, UnusedQ, np)
                           /\ state' = [state EXCEPT ![np] = "EMBRYO"]
                           /\ queuelevel' = [queuelevel EXCEPT ![np] = 0]
    BY <1>6 DEF ForkAlloc
  <2>2. UnusedQ \in Queue /\ q.on[np] = UnusedQ
    BY <2>1, QueueNumbers DEF IsHead, Members
  <2>3. q'.on = [q.on EXCEPT ![np] = NoQ]
    BY <1>3, <2>1, <2>2, DeleteType
  <2>4. AtLevel(q', queuelevel')
    BY <1>2, <1>3, <2>1, <2>3, QueueNumbers DEF AtLevel
  <2>5. Fresh'
    BY <1>2, <1>3, <2>1 DEF Fresh
  <2>. QED  BY <1>5, <2>4, <2>5, Settled
<1>7. CASE ForkFail(BootCPU) \/ ForkDone(BootCPU)
  <2>. DEFINE np == child[cpu[BootCPU]]
  <2>1. np \in Proc /\ state[np] = "EMBRYO"
    BY <1>2, <1>7, Constants DEF ForkFail, ForkDone, RunsAt, IInv, TypeOK, SlotOwned
  <2>. HIDE DEF np
  <2>2. queuelevel' = queuelevel
    BY <1>7 DEF ForkFail, ForkDone
  <2>3. CASE ForkFail(BootCPU)
    <3>1. q' = insert(q, UnusedQ, np, 0) /\ state' = [state EXCEPT ![np] = "UNUSED"]
      BY <2>3 DEF ForkFail, np
    <3>2. UnusedQ \in Queue
      BY QueueNumbers
    <3>3. q'.on = [q.on EXCEPT ![np] = UnusedQ]
      BY <1>3, <2>1, <3>1, <3>2, InsertType
    <3>4. AtLevel(q', queuelevel')
      BY <1>2, <1>3, <2>1, <2>2, <3>3, QueueNumbers DEF AtLevel
    <3>5. Fresh'
      BY <1>2, <1>3, <2>2, <3>1 DEF Fresh
    <3>. QED  BY <1>5, <3>4, <3>5, Settled
  <2>4. CASE ForkDone(BootCPU)
    <3>1. q' = insert(q, 0, np, 0) /\ state' = [state EXCEPT ![np] = "RUNNABLE"]
      BY <2>4 DEF ForkDone, np
    <3>2. 0 \in Queue
      BY QueueNumbers
    <3>3. q'.on = [q.on EXCEPT ![np] = 0]
      BY <1>3, <2>1, <3>1, <3>2, InsertType
    <3>4. AtLevel(q', queuelevel')
      BY <1>2, <1>3, <2>1, <2>2, <3>3, QueueNumbers DEF AtLevel, Fresh
    <3>5. Fresh'
      BY <1>2, <1>3, <2>2, <3>1 DEF Fresh
    <3>. QED  BY <1>5, <3>4, <3>5, Settled
  <2>. QED  BY <1>7, <2>3, <2>4
<1>. QED  BY <1>6, <1>7

\* exit() drops the lock and wakes processes to their levels.
LEMMA ExitOne ==
  ASSUME IInv, OneInv, ExitFinish(BootCPU)
  PROVE  OneInv'
<1>. DEFINE p == cpu[BootCPU]
            woken1 == Sleepers(parent[p])
            woken2 == IF WakesInit(p) THEN Sleepers(initproc) \ woken1 ELSE {}
            q1 == requeue_all(q, woken1, queuelevel, priority)
            q2 == requeue_all(q1, woken2, queuelevel, priority)
<1>1. p # 0 /\ BootCPU \in CPU
  BY CPUAssumption DEF ExitFinish, RunsAt
<1>2. p \in Proc /\ AtLevel(q, queuelevel) /\ Fresh /\ Alone /\ sound
  BY <1>1, Runner, Busy DEF OneInv
<1>3. /\ q \in QueuesType /\ queuelevel \in [Proc -> Level] /\ state \in [Proc -> State]
      /\ cpu \in [CPU -> Proc \cup {0}]
  BY Typed DEF IInv, TypeOK
<1>4. woken1 \in SUBSET Proc /\ woken2 \in SUBSET Proc
  BY DEF Sleepers, Members
<1>5. /\ BackInScheduler(BootCPU, q2, queuelevel, priority, ticks, global_ticks, 0)
      /\ state' = [WakeState(woken1 \cup woken2) EXCEPT ![p] = "ZOMBIE"] /\ sound' = sound
  BY DEF ExitFinish
<1>. HIDE DEF woken1, woken2
<1>6. q1 \in QueuesType /\ q1.on = [x \in Proc |-> IF x \in woken1 THEN queuelevel[x] ELSE q.on[x]]
  BY <1>3, <1>4, RequeueAllType
<1>. HIDE DEF q1
<1>7. q2.on = [x \in Proc |-> IF x \in woken2 THEN queuelevel[x] ELSE q1.on[x]]
  BY <1>3, <1>4, <1>6, RequeueAllType
<1>. HIDE DEF q2
<1>8. q' = q2 /\ queuelevel' = queuelevel /\ lockproc' = 0 /\ cpu' = [cpu EXCEPT ![BootCPU] = 0]
  BY <1>5, NoBoost
<1>9. AtLevel(q', queuelevel')
  BY <1>2, <1>6, <1>7, <1>8 DEF AtLevel
<1>10. Alone' /\ sound'
  BY <1>2, <1>3, <1>5, <1>8 DEF Alone
<1>11. Fresh'
  BY <1>2, <1>3, <1>5, <1>8 DEF Fresh, WakeState
<1>. QED  BY <1>8, <1>9, <1>10, <1>11, Settled

\* wait() frees the slot of a zombie.
LEMMA WaitReapOne ==
  ASSUME IInv, OneInv, WaitReap(BootCPU)
  PROVE  OneInv'
<1>1. cpu[BootCPU] # 0 /\ BootCPU \in CPU
  BY CPUAssumption DEF WaitReap, Waits, RunsAt, Enters
<1>2. AtLevel(q, queuelevel) /\ lockproc \in {0, cpu[BootCPU]} /\ Fresh
  BY <1>1, Busy DEF OneInv
<1>3. /\ q \in QueuesType /\ queuelevel \in [Proc -> Level] /\ state \in [Proc -> State]
      /\ q.on \in [Proc -> Queue \cup {NoQ}] /\ UnusedQ \in Queue
  BY Typed, QueueNumbers DEF IInv, TypeOK
<1>4. PICK z \in Proc : /\ state' = [state EXCEPT ![z] = "UNUSED"]
                        /\ queuelevel' = [queuelevel EXCEPT ![z] = 0]
                        /\ q' = insert(q, UnusedQ, z, 0)
  BY DEF WaitReap, ZombieKids, Kids
<1>5. q'.on = [q.on EXCEPT ![z] = UnusedQ]
  BY <1>3, <1>4, InsertType
<1>6. AtLevel(q', queuelevel')
  BY <1>2, <1>3, <1>4, <1>5, QueueNumbers DEF AtLevel
<1>7. Fresh'
  BY <1>2, <1>3, <1>4 DEF Fresh
<1>8. Alone' /\ sound' /\ lockproc' \in {0, cpu'[BootCPU]}
  BY <1>2 DEF WaitReap, OneInv, Alone
<1>. QED  BY <1>6, <1>7, <1>8, Settled

\* kill() moves a sleeper to the queue of its level.
LEMMA KillOne ==
  ASSUME IInv, OneInv, NEW t \in Proc, Kill(BootCPU, t)
  PROVE  OneInv'
<1>1. cpu[BootCPU] # 0 /\ BootCPU \in CPU
  BY CPUAssumption DEF Kill, RunsAt, Enters
<1>2. AtLevel(q, queuelevel) /\ lockproc \in {0, cpu[BootCPU]} /\ Fresh
  BY <1>1, Busy DEF OneInv
<1>3. /\ q \in QueuesType /\ queuelevel \in [Proc -> Level] /\ state \in [Proc -> State]
      /\ SleepQ \in Queue
  BY Typed, QueueNumbers DEF IInv, TypeOK
<1>4. Alone' /\ sound' /\ lockproc' \in {0, cpu'[BootCPU]} /\ queuelevel' = queuelevel
  BY <1>2 DEF Kill, OneInv, Alone
<1>5. CASE state[t] = "SLEEPING"
  <2>. DEFINE d == delete(q, SleepQ, t)
  <2>1. q' = requeue(d, t, queuelevel, priority) /\ state' = [state EXCEPT ![t] = "RUNNABLE"]
    BY <1>5 DEF Kill
  <2>2. d \in QueuesType /\ \A y \in Proc \ {t} : d.on[y] = q.on[y]
    BY <1>3, DeleteType
  <2>. HIDE DEF d
  <2>3. q'.on = [d.on EXCEPT ![t] = queuelevel[t]]
    BY <1>3, <2>1, <2>2, RequeueType
  <2>4. \A y \in Proc : q'.on[y] = IF y = t THEN queuelevel[t] ELSE q.on[y]
    BY <2>2, <2>3 DEF QueuesType
  <2>5. AtLevel(q', queuelevel')
    BY <1>2, <1>4, <2>4 DEF AtLevel
  <2>6. Fresh'
    BY <1>2, <1>3, <1>4, <2>1 DEF Fresh
  <2>. QED  BY <1>4, <2>5, <2>6, Settled
<1>6. CASE state[t] # "SLEEPING"
  <2>1. UNCHANGED <<state, q>>
    BY <1>6 DEF Kill
  <2>2. AtLevel(q', queuelevel') /\ Fresh'
    BY <1>2, <1>4, <2>1 DEF AtLevel, Fresh
  <2>. QED  BY <1>4, <2>2, Settled
<1>. QED  BY <1>5, <1>6

\* setPriority() is called by the process that runs, so nobody is out of place.
LEMMA SetPriorityOne ==
  ASSUME IInv, OneInv, NEW t \in Proc, NEW v \in Priorities, SetPriority(BootCPU, t, v)
  PROVE  OneInv'
<1>. DEFINE priority1 == [priority EXCEPT ![t] = v]
            base == higherpriority_proc(q, t, priority1)
<1>1. cpu[BootCPU] # 0 /\ BootCPU \in CPU
  BY CPUAssumption DEF SetPriority, RunsAt, Enters
<1>2. AtLevel(q, queuelevel) /\ lockproc \in {0, cpu[BootCPU]} /\ Fresh /\ Alone
  BY <1>1, Busy DEF OneInv
<1>3. q \in QueuesType /\ 2 \in Queue
  BY Typed, QueueNumbers
<1>4. UNCHANGED <<state, lockproc, cpu, queuelevel>>
  BY DEF SetPriority, procVars
<1>5. Alone' /\ lockproc' \in {0, cpu'[BootCPU]} /\ Fresh'
  BY <1>2, <1>4 DEF Alone, Fresh
<1>6. /\ q' = IF Moves(t) THEN insert(delete(q, 2, t), 2, t, base) ELSE q
      /\ sound' = (Moves(t) => q.on[t] = 2)
  BY DEF SetPriority
<1>. HIDE DEF base
<1>7. CASE Moves(t)
  <2>1. queuelevel[t] = 2 /\ q.on[t] \in Level
    BY <1>7 DEF Moves, IInv, QueuesMatchStates
  <2>2. q.on[t] = 2
    BY <1>2, <2>1 DEF AtLevel
  <2>. DEFINE d == delete(q, 2, t)
  <2>3. d \in QueuesType /\ \A y \in Proc \ {t} : d.on[y] = q.on[y]
    BY <1>3, DeleteType
  <2>4. q' = insert(d, 2, t, base)
    BY <1>6, <1>7
  <2>. HIDE DEF d
  <2>5. q'.on = [d.on EXCEPT ![t] = 2]
    BY <1>3, <2>3, <2>4, InsertType
  <2>6. \A y \in Proc : q'.on[y] = IF y = t THEN 2 ELSE q.on[y]
    BY <2>3, <2>5 DEF QueuesType
  <2>7. AtLevel(q', queuelevel')
    BY <1>2, <1>4, <2>1, <2>6 DEF AtLevel
  <2>8. sound'
    BY <1>6, <2>2
  <2>. QED  BY <1>5, <2>7, <2>8, Settled
<1>8. CASE ~Moves(t)
  <2>1. AtLevel(q', queuelevel') /\ sound'
    BY <1>2, <1>4, <1>6, <1>8 DEF AtLevel
  <2>. QED  BY <1>5, <2>1, Settled
<1>. QED  BY <1>7, <1>8

\* schedulerLock() and schedulerUnlock() are called by the process that runs.
LEMMA LockOne ==
  ASSUME IInv, OneInv, SchedulerLock(BootCPU) \/ SchedulerUnlock(BootCPU)
  PROVE  OneInv'
<1>1. cpu[BootCPU] # 0 /\ BootCPU \in CPU
  BY CPUAssumption DEF SchedulerLock, SchedulerUnlock, RunsAt, Traps
<1>2. AtLevel(q, queuelevel) /\ Fresh /\ cpu[BootCPU] \in Proc /\ q.on[cpu[BootCPU]] = NoQ
  BY <1>1, Busy, Runner DEF OneInv
<1>3. queuelevel \in [Proc -> Level]
  BY Typed
<1>4. Alone' /\ sound' /\ UNCHANGED <<cpu, state, q>> /\ lockproc' \in {0, cpu'[BootCPU]}
  BY DEF SchedulerLock, SchedulerUnlock, OneInv, Alone
<1>5. queuelevel' = queuelevel \/ queuelevel' = [queuelevel EXCEPT ![cpu[BootCPU]] = 0]
  BY DEF SchedulerLock, SchedulerUnlock
<1>6. AtLevel(q', queuelevel') /\ Fresh'
  BY <1>2, <1>3, <1>4, <1>5, QueueNumbers DEF AtLevel, Fresh
<1>. QED  BY <1>4, <1>6, Settled

\* A step that leaves the queues, the levels and the CPUs alone.
LEMMA SameOne ==
  ASSUME OneInv, UNCHANGED <<state, q, queuelevel, lockproc, cpu, sound>>
  PROVE  OneInv'
BY DEF OneInv, Alone, Fresh

\* Every step of the one CPU keeps its invariant.
LEMMA StepOne ==
  ASSUME IInv, Lined(q, queuelevel, priority), OneInv, Step(BootCPU)
  PROVE  OneInv'
<1>1. CASE Dispatch(BootCPU)
  BY <1>1, DispatchOne
<1>2. CASE Yield(BootCPU)
  BY <1>2, YieldOne
<1>3. CASE WaitSleep(BootCPU) \/ \E ch \in {TICKS, EVENT} : Sleep(BootCPU, ch)
  <2>1. cpu[BootCPU] # 0 /\ sound' = sound /\ \E ch, place : GoToSleep(BootCPU, ch, place)
    BY <1>3 DEF WaitSleep, Sleep, Waits, RunsAt, Enters
  <2>. QED  BY <2>1, SleepOne
<1>4. CASE Timer(BootCPU)
  <2>1. Wakeup(TICKS) /\ UNCHANGED <<priority, queuelevel, lockproc, cpu, sound>>
    BY <1>4 DEF Timer
  <2>. QED  BY <2>1, WakeupOne
<1>5. CASE ForkAlloc(BootCPU) \/ ForkFail(BootCPU) \/ ForkDone(BootCPU)
  BY <1>5, ForkOne
<1>6. CASE ExitFinish(BootCPU)
  BY <1>6, ExitOne
<1>7. CASE WaitReap(BootCPU)
  BY <1>7, WaitReapOne
<1>8. CASE \E t \in Proc : Kill(BootCPU, t)
  BY <1>8, KillOne
<1>9. CASE \E t \in Proc, v \in Priorities : SetPriority(BootCPU, t, v)
  BY <1>9, SetPriorityOne
<1>10. CASE SchedulerLock(BootCPU) \/ SchedulerUnlock(BootCPU)
  BY <1>10, LockOne
<1>11. CASE \/ SyscallReturn(BootCPU) \/ ExitBegin(BootCPU) \/ WaitFails(BootCPU)
            \/ \E t \in Proc : KillZero(BootCPU, t)
  <2>1. UNCHANGED <<state, q, queuelevel, lockproc, cpu, sound>>
    BY <1>11 DEF SyscallReturn, ExitBegin, WaitFails, KillZero, schedVars
  <2>. QED  BY <2>1, SameOne
<1>. QED  BY <1>1, <1>2, <1>3, <1>4, <1>5, <1>6, <1>7, <1>8, <1>9, <1>10, <1>11 DEF Step

\* So does a wakeup by a device.
LEMMA EventOne ==
  ASSUME IInv, Lined(q, queuelevel, priority), OneInv, Event
  PROVE  OneInv'
<1>1. Wakeup(EVENT) /\ UNCHANGED <<priority, queuelevel, lockproc, cpu, sound>>
  BY DEF Event
<1>. QED  BY <1>1, WakeupOne

\* The invariant holds when main() is done.
LEMMA InitOne == Init => OneInv
<1>. SUFFICES ASSUME Init PROVE OneInv
  OBVIOUS
<1>1. \A p \in Proc : q.on[p] \in Level => q.on[p] = 0
  BY QueueNumbers DEF Init
<1>2. queuelevel = [p \in Proc |-> 0] /\ lockproc = 0 /\ cpu = [c \in CPU |-> 0] /\ sound
  BY DEF Init
<1>. QED  BY <1>1, <1>2 DEF OneInv, Alone, Fresh

\* What the invariant of one CPU is for.
LEMMA OneImplies ==
  ASSUME IInv, OneInv
  PROVE  LevelMatchesQueue /\ HolderFirst /\ DeleteContract
<1>1. LevelMatchesQueue
  <2>. SUFFICES ASSUME NEW p \in Proc, state[p] = "RUNNABLE", q.on[p] # queuelevel[p]
                PROVE  IsHead(q, 0, p) /\ \A c \in CPU : cpu[c] = 0
    BY DEF LevelMatchesQueue
  <2>1. q.on[p] \in Level
    BY DEF IInv, QueuesMatchStates
  <2>. QED  BY <2>1 DEF OneInv, Alone
<1>2. HolderFirst
  BY CPUAssumption, Runner DEF HolderFirst, OneInv
<1>. QED  BY <1>1, <1>2 DEF DeleteContract, OneInv

\* scheduler() on the one CPU dispatches nobody but the holder of the lock.
LEMMA StepHolder ==
  ASSUME IInv, Lined(q, queuelevel, priority), OneInv, Step(BootCPU)
  PROVE  DispatchesHolder
<1>1. CASE Dispatch(BootCPU)
  <2>1. \A c \in CPU \ {BootCPU} : cpu'[c] = cpu[c]
    BY <1>1 DEF Dispatch, IInv, TypeOK
  <2>. QED  BY <1>1, <2>1, DispatchOne DEF DispatchesHolder
<1>2. CASE ~Dispatch(BootCPU)
  <2>1. CASE cpu[BootCPU] # 0
    <3>1. \A c \in CPU \ {BootCPU} : cpu'[c] = cpu[c]
      BY <1>2, <2>1 DEF Step, Yield, Sleep, SyscallReturn, ForkAlloc, ForkFail, ForkDone, Timer,
         ExitBegin, ExitFinish, WaitReap, WaitFails, WaitSleep, Kill, KillZero, SetPriority,
         SchedulerLock, SchedulerUnlock, GoToSleep, BackInScheduler, IInv, TypeOK
    <3>. QED  BY <2>1, <3>1 DEF DispatchesHolder
  <2>2. CASE cpu[BootCPU] = 0
    <3>1. Timer(BootCPU)
      BY <1>2, <2>2 DEF Step, Yield, Sleep, SyscallReturn, ForkAlloc, ForkFail, ForkDone,
         ExitBegin, ExitFinish, WaitReap, WaitFails, WaitSleep, Waits, Kill, KillZero, SetPriority,
         SchedulerLock, SchedulerUnlock, Traps, Enters, RunsAt
    <3>. QED  BY <3>1 DEF DispatchesHolder, Timer
  <2>. QED  BY <2>1, <2>2
<1>. QED  BY <1>1, <1>2

\* The invariant of one CPU is inductive, and with it scheduler() dispatches only
\* the holder of the lock.
LEMMA OneNext ==
  ASSUME CPU = {BootCPU}, OrderInv, OneInv, [Next]_vars
  PROVE  OneInv' /\ [DispatchesHolder]_vars
<1>1. IInv /\ Lined(q, queuelevel, priority)
  BY DEF OrderInv, OneInv
<1>2. CASE UNCHANGED vars
  BY <1>2, SameOne DEF vars
<1>3. CASE Event
  <2>1. cpu' = cpu
    BY <1>3 DEF Event
  <2>. QED  BY <1>1, <1>3, <2>1, EventOne DEF DispatchesHolder
<1>4. CASE Step(BootCPU)
  BY <1>1, <1>4, StepOne, StepHolder
<1>. QED  BY <1>2, <1>3, <1>4 DEF Next

\* On one CPU (make CPUS=1), with the scheduler lock in use: a RUNNABLE process waits
\* in the queue of its level unless yield() has just put it first; the holder of the
\* lock runs or runs next; and setPriority() unlinks a process only from the queue it
\* is on.  (On several CPUs another CPU dispatches and yields while the process that
\* yield() put first still waits.)
THEOREM OneCpuOrder ==
  ASSUME CPU = {BootCPU}
  PROVE  Spec => [](LevelMatchesQueue /\ HolderFirst /\ DeleteContract)
<1>1. OrderInv /\ OneInv /\ [Next]_vars => OneInv'
  BY OneNext
<1>2. OrderInv /\ OneInv => LevelMatchesQueue /\ HolderFirst /\ DeleteContract
  BY OneImplies DEF OrderInv
<1>. QED  BY <1>1, <1>2, InitOne, OrderInvariance, PTL DEF Spec

\* On one CPU, while a process holds the scheduler lock scheduler() dispatches no other.
THEOREM OneCpuLock ==
  ASSUME CPU = {BootCPU}
  PROVE  Spec => LockExclusive
<1>1. OrderInv /\ OneInv /\ [Next]_vars => OneInv'
  BY OneNext
<1>2. OrderInv /\ OneInv /\ [Next]_vars => [DispatchesHolder]_vars
  BY OneNext
<1>. QED  BY <1>1, <1>2, InitOne, OrderInvariance, PTL DEF Spec, LockExclusive

-----------------------------------------------------------------------------
\* The worlds of MCMlfq: nobody locks the scheduler, or one CPU runs processes.
WorldInv ==
  /\ scenario \in {"life", "priority", "lock"}
  /\ scenario = "life" => QuantumInv
  /\ scenario # "life" => OneInv

\* The first world has no scheduler lock.
LEMMA NoLockInLife ==
  ASSUME scenario = "life", NEW c, ~Outside(c)
  PROVE  ~SchedulerLock(c)
<1>1. "schedulerLock" \notin Calls
  BY DEF Calls
<1>. QED  BY <1>1 DEF Outside

\* Every step of a world keeps the invariant of that world.
LEMMA WorldNext ==
  ASSUME OrderInv, WorldInv, [MCNext]_<<vars, scenario>>
  PROVE  WorldInv' /\ [DispatchesHolder]_vars
<1>1. IInv /\ scenario' = scenario
  BY DEF OrderInv, MCNext
<1>2. CASE UNCHANGED vars
  BY <1>1, <1>2, SameOne, EventQuantum DEF WorldInv, vars
<1>3. CASE MCNext /\ scenario = "life"
  <2>1. QuantumInv /\ lockproc = 0
    BY <1>3 DEF WorldInv, QuantumInv
  <2>2. QuantumInv'
    <3>1. ASSUME NEW c \in CPU, Step(c), ~Outside(c) PROVE QuantumInv'
      BY <1>1, <1>3, <2>1, <3>1, NoLockInLife, StepQuantum
    <3>. QED  BY <1>3, <2>1, <3>1, EventQuantum DEF MCNext
  <2>. QED  BY <1>1, <1>3, <2>1, <2>2 DEF WorldInv, DispatchesHolder
<1>4. CASE MCNext /\ scenario # "life"
  <2>1. OneInv /\ Lined(q, queuelevel, priority)
    BY <1>4 DEF WorldInv, OrderInv, OneInv
  <2>2. CASE Event
    <3>1. cpu' = cpu
      BY <2>2 DEF Event
    <3>. QED  BY <1>1, <1>4, <2>1, <2>2, <3>1, EventOne DEF WorldInv, DispatchesHolder
  <2>3. CASE Step(BootCPU)
    BY <1>1, <1>4, <2>1, <2>3, StepOne, StepHolder DEF WorldInv
  <2>. QED  BY <1>4, <2>2, <2>3 DEF MCNext
<1>. QED  BY <1>2, <1>3, <1>4

\* The worlds are behaviours of the specification.
LEMMA WorldOrder == MCSpec => []OrderInv
<1>1. MCInit => Init
  BY DEF MCInit
<1>2. [MCNext]_<<vars, scenario>> => [Next]_vars
  BY DEF MCNext, Next
<1>. QED  BY <1>1, <1>2, OrderInvariance, PTL DEF MCSpec, Spec

\* What the run mlfq checks of its three worlds, for every number of processes and
\* CPUs: time quanta are kept where nobody locks the scheduler; on one CPU the queues
\* stay in order, setPriority() unlinks by contract and the holder of the lock is first.
THEOREM Promises == MCSpec => []PromisesKept
<1>1. MCInit => WorldInv
  BY InitQuantum, InitOne DEF MCInit, WorldInv
<1>2. OrderInv /\ WorldInv /\ [MCNext]_<<vars, scenario>> => WorldInv'
  BY WorldNext
<1>3. OrderInv /\ WorldInv => PromisesKept
  <2>. SUFFICES ASSUME OrderInv, WorldInv PROVE PromisesKept
    OBVIOUS
  <2>1. CASE scenario = "life"
    BY <2>1 DEF WorldInv, PromisesKept, QuantumInv
  <2>2. CASE scenario # "life"
    <3>1. LevelMatchesQueue /\ HolderFirst /\ DeleteContract
      BY <2>2, OneImplies DEF WorldInv, OrderInv
    <3>2. QueuesInOrder
      BY DEF OrderInv, Lined, InOrder, Counts, QueuesInOrder
    <3>. QED  BY <2>2, <3>1, <3>2 DEF PromisesKept
  <2>. QED  BY <2>1, <2>2
<1>. QED  BY <1>1, <1>2, <1>3, WorldOrder, PTL DEF MCSpec

\* In the worlds of the run mlfq, while a process holds the scheduler lock scheduler()
\* dispatches no other.
THEOREM LockRespected == MCSpec => LockExclusive
<1>1. MCInit => WorldInv
  BY InitQuantum, InitOne DEF MCInit, WorldInv
<1>2. OrderInv /\ WorldInv /\ [MCNext]_<<vars, scenario>> => WorldInv'
  BY WorldNext
<1>3. OrderInv /\ WorldInv /\ [MCNext]_<<vars, scenario>> => [DispatchesHolder]_vars
  BY WorldNext
<1>. QED  BY <1>1, <1>2, <1>3, WorldOrder, PTL DEF MCSpec, LockExclusive
=============================================================================
