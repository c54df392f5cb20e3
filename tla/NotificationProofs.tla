------------------------- MODULE NotificationProofs -------------------------
(***************************************************************************)
(* What holds of a notification for any number of waiters, signallers and  *)
(* CPUs and any size of the node pool: types, no waiter awoken twice, and  *)
(* as many live nodes in the queue as waiters counted.                     *)
(***************************************************************************)
EXTENDS Notification, FiniteSetTheorems, SequenceTheorems, TLAPS

\* No element of s occurs twice, or in r too.
Once(s) == \A i, j \in 1 .. Len(s) : s[i] = s[j] => i = j
Apart(s, r) == \A i \in 1 .. Len(s), j \in 1 .. Len(r) : s[i] # r[j]

\* The nodes that stand for a waiter a signal may take.
LiveNodes == {queue[i] : i \in Live}

\* The two lists of the durable queue share no node, and a valid notification
\* has its sentinel.
QueueInv ==
  /\ Once(queue) /\ Once(pool) /\ Apart(queue, pool)
  /\ valid <=> queue # << >>

\* A live node is the one its thread knows, and the thread is still waiting.
LiveInv ==
  \A n \in LiveNodes : /\ node[n].thread \in Waiters
                       /\ ts[node[n].thread] = "waiting"
                       /\ dqOff[node[n].thread] = n

CountInv == valid => count <= Cardinality(LiveNodes)

\* A waiter holds notifc_lock from the check of the state until it is off the CPU,
\* and is in one ready queue exactly when its state says so.
WaiterInv ==
  \A t \in Waiters :
    /\ pc[t] \in {"idle", "wait_queue", "wait_sleep", "wait_sched", "blocked"}
    /\ pc[t] \in {"wait_queue", "wait_sleep", "wait_sched"} => notifcLock = t /\ valid
    /\ ts[t] = "running" <=> pc[t] \in {"idle", "wait_queue"}
    /\ ts[t] = "ready" => pc[t] = "blocked"
    /\ ready[t] = IF ts[t] = "ready" THEN 1 ELSE 0

\* A signal in progress holds notifc_lock; the node of the thread it took is the
\* sentinel and the thread is still waiting.
SignalInv ==
  \A s \in Signallers :
    /\ pc[s] \in {"idle", "signal_queue", "signal_wake"}
    /\ pc[s] # "idle" =>
         /\ notifcLock = s /\ valid /\ target[s] \in Waiters
         /\ ts[target[s]] = "waiting" /\ dqOff[target[s]] = queue[1]

Labels == {"idle", "wait_queue", "wait_sleep", "wait_sched", "blocked", "signal_queue", "signal_wake",
           "timer_scan", "timer_queue", "timer_notifc", "timer_done", "bug"}

TimerInv ==
  \A c \in Cpus :
    /\ pc[c] \in {"idle", "timer_scan", "timer_queue", "timer_notifc", "timer_done", "bug"}
    /\ pc[c] \in {"timer_queue", "timer_notifc", "timer_done"} => target[c] \in Waiters

IInv ==
  /\ TypeOK /\ pc \in [Actors -> Labels]
  /\ QueueInv /\ LiveInv /\ CountInv /\ WaiterInv /\ SignalInv /\ TimerInv

-----------------------------------------------------------------------------
(* The durable queue                                                       *)

\* Every non-empty set of naturals has a least element.
LEMMA LeastNat ==
  ASSUME NEW S, S \subseteq Nat, S # {}
  PROVE  \E x \in S : \A y \in S : x <= y
<1> DEFINE Below == {0 .. y : y \in S}
           Sub == StrictSubsetOrdering(Nat)
<1>1. IsWellFoundedOn(Sub, FiniteSubsetsOf(Nat))
  BY FS_StrictSubsetOrderingWellFounded, Zenon
<1>2. Below \subseteq FiniteSubsetsOf(Nat) /\ Below # {}
  <2>1. \A y \in S : IsFiniteSet(0 .. y)
    BY FS_Interval
  <2>2. \A y \in S : 0 .. y \in FiniteSubsetsOf(Nat)
    BY <2>1 DEF FiniteSubsetsOf
  <2>3. QED
    BY <2>2, Zenon
<1>3. PICK B \in Below : \A C \in Below : ~ (<<C, B>> \in Sub)
  <2> HIDE DEF Below, Sub
  <2> QED BY <1>1, <1>2, WFMin, Zenon
<1>4. PICK x \in S : B = 0 .. x
  BY Zenon
<1>5. ASSUME NEW y \in S, y < x
      PROVE  FALSE
  <2>1. 0 .. y \subseteq 0 .. x /\ x \in 0 .. x /\ x \notin 0 .. y
    BY <1>5
  <2>2. <<0 .. y, 0 .. x>> \in Sub
    BY <2>1 DEF StrictSubsetOrdering
  <2>3. QED
    BY <2>2, <1>3, <1>4, Zenon
<1>6. QED
  BY <1>5

\* The live nodes are as many as their places in the queue, and no more than
\* the threads that own them.
LEMMA LiveCount ==
  ASSUME queue \in Seq(Nodes), QueueInv, LiveInv, NEW W \in SUBSET Waiters,
         \A n \in LiveNodes : node[n].thread \in W
  PROVE  /\ IsFiniteSet(LiveNodes) /\ Cardinality(LiveNodes) \in Nat
         /\ Cardinality(LiveNodes) = Cardinality(Live)
         /\ Cardinality(LiveNodes) <= Cardinality(W)
<1> DEFINE place == [i \in Live |-> queue[i]]
           owner == [n \in LiveNodes |-> node[n].thread]
<1>1. IsFiniteSet(Live)
  <2>1. Live \in SUBSET (2 .. Len(queue)) /\ Len(queue) \in Nat
    BY DEF Live
  <2>2. IsFiniteSet(2 .. Len(queue))
    BY <2>1, FS_Interval
  <2>3. QED
    BY <2>1, <2>2, FS_Subset, Zenon
<1>2. place \in Bijection(Live, LiveNodes)
  <2>1. place \in [Live -> LiveNodes]
    BY Zenon DEF LiveNodes
  <2>2. \A i, j \in Live : place[i] = place[j] => i = j
    BY DEF Live, QueueInv, Once
  <2>3. \A n \in LiveNodes : \E i \in Live : place[i] = n
    BY Zenon DEF LiveNodes
  <2>4. QED
    BY <2>1, <2>2, <2>3, Zenon DEF Bijection, Injection, Surjection, IsInjective
<1>3. owner \in Injection(LiveNodes, W)
  <2>1. \A n \in LiveNodes : node[n].thread \in W /\ dqOff[node[n].thread] = n
    BY Zenon DEF LiveInv
  <2>2. QED
    BY <2>1, Zenon DEF Injection, IsInjective
<1>4. IsFiniteSet(W)
  BY ActorsAssumption, FS_Subset, Zenon
<1>5. IsFiniteSet(LiveNodes) /\ Cardinality(LiveNodes) <= Cardinality(W)
  <2> HIDE DEF owner
  <2> QED BY <1>3, <1>4, FS_Injection, Zenon
<1>6. Cardinality(LiveNodes) = Cardinality(Live)
  <2> HIDE DEF place
  <2> QED BY <1>1, <1>2, FS_Bijection, Zenon DEF ExistsBijection
<1>7. QED
  BY <1>5, <1>6, FS_CardinalityType, Zenon

\* Moving the first element of p to the end of q.
LEMMA MoveFirst ==
  ASSUME NEW q \in Seq(Nodes), NEW p \in Seq(Nodes), Once(q), Once(p), Apart(q, p), p # << >>
  PROVE  /\ Tail(p) \in Seq(Nodes) /\ Append(q, Head(p)) \in Seq(Nodes)
         /\ Once(Append(q, Head(p))) /\ Once(Tail(p)) /\ Apart(Append(q, Head(p)), Tail(p))
<1> DEFINE n == Head(p)  r == Append(q, n)  o == Tail(p)
<1>1. Len(q) \in Nat /\ Len(p) \in Nat /\ Len(p) >= 1 /\ n = p[1] /\ n \in Nodes
  BY EmptySeq
<1>2. o \in Seq(Nodes) /\ Len(o) = Len(p) - 1 /\ \A i \in 1 .. Len(o) : o[i] = p[i + 1]
  BY HeadTailProperties, Zenon
<1>3. /\ r \in Seq(Nodes) /\ Len(r) = Len(q) + 1 /\ r[Len(q) + 1] = n
      /\ \A i \in 1 .. Len(q) : r[i] = q[i]
  BY <1>1, AppendProperties
<1> HIDE DEF n, r, o
<1>4. \A i \in 1 .. Len(q) : q[i] # n
  BY <1>1 DEF Apart
<1>5. \A j \in 2 .. Len(p) : p[j] # n
  BY <1>1 DEF Once
<1>6. Once(r)
  <2>1. \A i \in 1 .. Len(r) : i = Len(q) + 1 \/ i \in 1 .. Len(q)
    BY <1>1, <1>3
  <2>2. QED
    BY <2>1, <1>3, <1>4, Zenon DEF Once
<1>7. \A i \in 1 .. Len(o) : i + 1 \in 1 .. Len(p) /\ i + 1 \in 2 .. Len(p)
  BY <1>1, <1>2
<1>8. Once(o)
  <2> SUFFICES ASSUME NEW i \in 1 .. Len(o), NEW j \in 1 .. Len(o), o[i] = o[j]
               PROVE  i = j
    BY Zenon DEF Once
  <2>1. i + 1 = j + 1
    BY <1>2, <1>7, Zenon DEF Once
  <2>2. QED
    BY <2>1, <1>1, <1>2
<1>9. Apart(r, o)
  <2> SUFFICES ASSUME NEW i \in 1 .. Len(r), NEW j \in 1 .. Len(o)
               PROVE  r[i] # o[j]
    BY Zenon DEF Apart
  <2>1. o[j] = p[j + 1] /\ j + 1 \in 1 .. Len(p) /\ j + 1 \in 2 .. Len(p)
    BY <1>2, <1>7, Zenon
  <2>2. CASE i = Len(q) + 1
    BY <2>1, <2>2, <1>3, <1>5, Zenon
  <2>3. CASE i \in 1 .. Len(q)
    BY <2>1, <2>3, <1>3, Zenon DEF Apart
  <2>4. QED
    BY <1>1, <1>3, <2>2, <2>3
<1>10. QED
  BY <1>2, <1>3, <1>6, <1>8, <1>9, Zenon DEF n, r, o

\* Giving back the nodes of q before place k leaves both lists without a node
\* twice, and without one in common.
LEMMA GiveBack ==
  ASSUME NEW q \in Seq(Nodes), NEW p \in Seq(Nodes), NEW k \in 1 .. Len(q) + 1,
         Once(q), Once(p), Apart(q, p),
         NEW r, r = [i \in 1 .. k - 1 |-> q[k - i]] \o p,
         NEW o, o = SubSeq(q, k, Len(q))
  PROVE  /\ r \in Seq(Nodes) /\ o \in Seq(Nodes) /\ Len(o) = Len(q) - k + 1
         /\ \A i \in 1 .. Len(o) : o[i] = q[k + i - 1]
         /\ Once(r) /\ Once(o) /\ Apart(o, r)
<1>0. /\ \A i, j \in 1 .. Len(q) : q[i] = q[j] => i = j
      /\ \A i, j \in 1 .. Len(p) : p[i] = p[j] => i = j
      /\ \A i \in 1 .. Len(q), j \in 1 .. Len(p) : q[i] # p[j]
  BY Zenon DEF Once, Apart
<1> DEFINE b == [i \in 1 .. k - 1 |-> q[k - i]]
<1>1. Len(q) \in Nat /\ Len(p) \in Nat /\ k - 1 \in Nat
  OBVIOUS
<1>2. \A i \in 1 .. k - 1 : k - i \in 1 .. Len(q) /\ q[k - i] \in Nodes
  BY <1>1, ElementOfSeq
<1>3. b \in Seq(Nodes) /\ Len(b) = k - 1
  BY <1>1, <1>2
<1>4. /\ r \in Seq(Nodes) /\ Len(r) = (k - 1) + Len(p)
      /\ \A i \in 1 .. Len(r) : r[i] = IF i <= k - 1 THEN b[i] ELSE p[i - (k - 1)]
  <2> HIDE DEF b
  <2>1. r = b \o p
    BY Zenon DEF b
  <2>2. /\ b \o p \in Seq(Nodes) /\ Len(b \o p) = Len(b) + Len(p)
        /\ \A i \in 1 .. Len(b) + Len(p) : (b \o p)[i] = IF i <= Len(b) THEN b[i] ELSE p[i - Len(b)]
    BY <1>3, ConcatProperties, Zenon
  <2>3. QED
    BY <1>1, <1>3, <2>1, <2>2, Zenon
<1>5. \A i \in 1 .. Len(r) :
        \/ i <= k - 1 /\ k - i \in 1 .. Len(q) /\ r[i] = q[k - i]
        \/ i > k - 1 /\ i - (k - 1) \in 1 .. Len(p) /\ r[i] = p[i - (k - 1)]
  BY <1>1, <1>4
<1>6. \A i, j \in 1 .. Len(r) : r[i] = r[j] => i = j
  <2> SUFFICES ASSUME NEW i \in 1 .. Len(r), NEW j \in 1 .. Len(r), r[i] = r[j]
               PROVE  i = j
    BY Zenon
  <2> HIDE DEF b
  <2>1. i \in Nat /\ j \in Nat
    BY <1>4
  <2>2. CASE i <= k - 1 /\ j <= k - 1
    <3>1. q[k - i] = q[k - j] /\ k - i \in 1 .. Len(q) /\ k - j \in 1 .. Len(q)
      BY <1>1, <1>5, <2>1, <2>2
    <3>2. k - i = k - j
      BY <1>0, <3>1, Zenon
    <3>3. QED
      BY <3>2, <2>1, <1>1
  <2>3. CASE i > k - 1 /\ j > k - 1
    <3>1. /\ p[i - (k - 1)] = p[j - (k - 1)]
          /\ i - (k - 1) \in 1 .. Len(p) /\ j - (k - 1) \in 1 .. Len(p)
      BY <1>1, <1>5, <2>1, <2>3
    <3>2. i - (k - 1) = j - (k - 1)
      BY <1>0, <3>1, Zenon
    <3>3. QED
      BY <3>2, <2>1, <1>1
  <2>4. CASE i <= k - 1 /\ j > k - 1
    <3>1. /\ r[i] = q[k - i] /\ k - i \in 1 .. Len(q)
          /\ r[j] = p[j - (k - 1)] /\ j - (k - 1) \in 1 .. Len(p)
      BY <1>1, <1>5, <2>1, <2>4
    <3>2. QED
      BY <1>0, <3>1, Zenon
  <2>5. CASE i > k - 1 /\ j <= k - 1
    <3>1. /\ r[j] = q[k - j] /\ k - j \in 1 .. Len(q)
          /\ r[i] = p[i - (k - 1)] /\ i - (k - 1) \in 1 .. Len(p)
      BY <1>1, <1>5, <2>1, <2>5
    <3>2. QED
      BY <1>0, <3>1, Zenon
  <2>6. QED
    BY <1>1, <2>1, <2>2, <2>3, <2>4, <2>5
<1>7. ASSUME NEW i \in k .. Len(q), NEW j \in 1 .. Len(r)
      PROVE  q[i] # r[j]
  <2> HIDE DEF b
  <2>1. i \in 1 .. Len(q) /\ i \in Nat /\ j \in Nat
    BY <1>1, <1>4
  <2>2. CASE j <= k - 1
    <3>1. k - j \in 1 .. Len(q) /\ r[j] = q[k - j] /\ k - j # i
      BY <1>1, <1>5, <2>1, <2>2
    <3>2. QED
      BY <1>0, <3>1, <2>1, Zenon
  <2>3. CASE j > k - 1
    <3>1. r[j] = p[j - (k - 1)] /\ j - (k - 1) \in 1 .. Len(p)
      BY <1>1, <1>5, <2>1, <2>3
    <3>2. QED
      BY <1>0, <3>1, <2>1, Zenon
  <2>4. QED
    BY <1>1, <2>1, <2>2, <2>3
<1>8. \A i \in k .. Len(q) : q[i] \in Nodes
  BY <1>1, ElementOfSeq
<1>9. o \in Seq(Nodes) /\ Len(o) = Len(q) - k + 1 /\ \A i \in 1 .. Len(o) : o[i] = q[k + i - 1]
  BY <1>1, <1>8, SubSeqProperties
<1>10. \A i \in 1 .. Len(o) : k + i - 1 \in k .. Len(q) /\ k + i - 1 \in 1 .. Len(q)
  BY <1>1, <1>9
<1>11. Once(o)
  <2> SUFFICES ASSUME NEW i \in 1 .. Len(o), NEW j \in 1 .. Len(o), o[i] = o[j]
               PROVE  i = j
    BY Zenon DEF Once
  <2>1. k + i - 1 = k + j - 1
    BY <1>0, <1>9, <1>10, Zenon
  <2>2. QED
    BY <2>1, <1>1, <1>9
<1>12. Apart(o, r)
  <2> SUFFICES ASSUME NEW i \in 1 .. Len(o), NEW j \in 1 .. Len(r)
               PROVE  o[i] # r[j]
    BY Zenon DEF Apart
  <2>1. o[i] = q[k + i - 1] /\ k + i - 1 \in k .. Len(q)
    BY <1>9, <1>10, Zenon
  <2>2. QED
    BY <1>7, <2>1, Zenon
<1>13. Once(r)
  BY <1>6, Zenon DEF Once
<1>14. QED
  BY <1>4, <1>9, <1>11, <1>12, <1>13, Zenon

\* Where thread_dq_dequeue stops: at the first live node, or at the last one.
FirstLive == IF Live = {} THEN Len(queue) ELSE CHOOSE i \in Live : \A j \in Live : i <= j

\* What thread_dq_dequeue leaves: the queue from its stop on.
LEMMA DequeueFacts ==
  ASSUME TypeOK, QueueInv, valid, Dequeue
  PROVE  /\ FirstLive \in 1 .. Len(queue)
         /\ Live # {} => FirstLive \in Live /\ \A j \in Live : FirstLive <= j
         /\ pool' \in Seq(Nodes) /\ queue' \in Seq(Nodes) /\ queue' # << >>
         /\ Len(queue') = Len(queue) - FirstLive + 1
         /\ \A i \in 1 .. Len(queue') : queue'[i] = queue[FirstLive + i - 1]
         /\ Once(pool') /\ Once(queue') /\ Apart(queue', pool')
<1> DEFINE k == FirstLive
<1>1. Len(queue) \in Nat /\ Len(queue) >= 1 /\ Live \subseteq 2 .. Len(queue)
  BY EmptySeq DEF TypeOK, QueueInv, Live
<1>2. Live # {} => k \in Live /\ \A j \in Live : k <= j
  <2>1. Live # {} => \E i \in Live : \A j \in Live : i <= j
    <3>1. Live \subseteq Nat
      BY <1>1
    <3>2. QED
      BY <3>1, LeastNat, Zenon
  <2>2. QED
    BY <2>1, Zenon DEF FirstLive
<1>3. k \in 1 .. Len(queue)
  <2>1. Live = {} => k = Len(queue)
    BY Zenon DEF FirstLive
  <2> HIDE DEF k
  <2>2. CASE Live = {}
    BY <1>1, <2>1, <2>2
  <2>3. CASE Live # {}
    <3>1. k \in 2 .. Len(queue)
      BY <1>1, <1>2, <2>3, Zenon
    <3>2. QED
      BY <1>1, <3>1
  <2>4. QED
    BY <2>2, <2>3, Zenon
<1>4. queue' = SubSeq(queue, k, Len(queue)) /\ pool' = [i \in 1 .. k - 1 |-> queue[k - i]] \o pool
  BY Zenon DEF Dequeue, FirstLive
<1> HIDE DEF k
<1>5. k \in 1 .. Len(queue) + 1
  BY <1>1, <1>3
<1>6. /\ pool' \in Seq(Nodes) /\ queue' \in Seq(Nodes) /\ Len(queue') = Len(queue) - k + 1
      /\ \A i \in 1 .. Len(queue') : queue'[i] = queue[k + i - 1]
      /\ Once(pool') /\ Once(queue') /\ Apart(queue', pool')
  <2>1. queue \in Seq(Nodes) /\ pool \in Seq(Nodes) /\ Once(queue) /\ Once(pool) /\ Apart(queue, pool)
    BY Zenon DEF TypeOK, QueueInv
  <2> DEFINE r == [i \in 1 .. k - 1 |-> queue[k - i]] \o pool
             o == SubSeq(queue, k, Len(queue))
  <2>2. /\ r \in Seq(Nodes) /\ o \in Seq(Nodes) /\ Len(o) = Len(queue) - k + 1
        /\ \A i \in 1 .. Len(o) : o[i] = queue[k + i - 1]
        /\ Once(r) /\ Once(o) /\ Apart(o, r)
    BY <1>5, <2>1, GiveBack, Zenon
  <2>3. queue' = o /\ pool' = r
    BY <1>4, Zenon
  <2> HIDE DEF r, o
  <2>4. QED
    BY <2>2, <2>3, Zenon
<1>7. queue' # << >>
  BY <1>1, <1>3, <1>6
<1>8. QED
  BY <1>2, <1>3, <1>6, <1>7, Zenon DEF k

\* The steps that move nodes between the queue and the pool.
LEMMA QueueStep ==
  ASSUME IInv, [Next]_vars
  PROVE  queue' \in Seq(Nodes) /\ pool' \in Seq(Nodes) /\ QueueInv'
<1>0. /\ queue \in Seq(Nodes) /\ pool \in Seq(Nodes) /\ valid \in BOOLEAN
      /\ QueueInv /\ TypeOK /\ Len(queue) \in Nat /\ Len(pool) \in Nat
  BY DEF IInv, TypeOK
<1>1. CASE UNCHANGED <<valid, queue, pool>>
  BY <1>0, <1>1, Zenon DEF QueueInv
<1>2. ASSUME NEW t \in Waiters, WaitEnqueue(t)
      PROVE  queue' \in Seq(Nodes) /\ pool' \in Seq(Nodes) /\ QueueInv'
  <2>1. /\ pool # << >> /\ pool' = Tail(pool) /\ queue' = Append(queue, Head(pool))
        /\ valid' = valid
    BY <1>2, Zenon DEF WaitEnqueue
  <2>2. valid
    BY <1>2, Zenon DEF IInv, WaiterInv, WaitEnqueue
  <2>3. /\ pool' \in Seq(Nodes) /\ queue' \in Seq(Nodes)
        /\ Once(queue') /\ Once(pool') /\ Apart(queue', pool')
    BY <1>0, <2>1, MoveFirst, Zenon DEF QueueInv
  <2>4. queue' # << >>
    BY <1>0, <2>1, HeadTailProperties, AppendProperties
  <2>5. QED
    BY <2>1, <2>2, <2>3, <2>4, Zenon DEF QueueInv
<1>3. ASSUME Dequeue, valid, valid' = valid
      PROVE  queue' \in Seq(Nodes) /\ pool' \in Seq(Nodes) /\ QueueInv'
  BY <1>0, <1>3, DequeueFacts, Zenon DEF QueueInv
<1>4. CASE Deinit
  <2> DEFINE k == Len(queue) + 1
  <2>1. queue' = << >> /\ valid' = FALSE /\ pool' = [i \in 1 .. Len(queue) |-> queue[k - i]] \o pool
    BY <1>4 DEF Deinit
  <2>2. k \in 1 .. Len(queue) + 1 /\ k - 1 = Len(queue)
    BY <1>0
  <2>3. pool' = [i \in 1 .. k - 1 |-> queue[k - i]] \o pool
    BY <2>1, <2>2, Zenon
  <2>4. pool' \in Seq(Nodes) /\ Once(pool')
    <3> HIDE DEF k
    <3> QED BY <1>0, <2>2, <2>3, GiveBack, Zenon DEF QueueInv
  <2>5. Once(<< >>) /\ Apart(<< >>, pool')
    BY DEF Once, Apart
  <2>6. QED
    BY <2>1, <2>4, <2>5 DEF QueueInv
<1>5. QED
  <2>1. [Next]_vars => \/ UNCHANGED <<valid, queue, pool>>
                       \/ \E t \in Waiters : WaitEnqueue(t)
                       \/ Dequeue /\ valid /\ valid' = valid
                       \/ Deinit
    BY Zenon DEF Next, WaiterStep, TimerStep, SignalStep, WaitLock, WaitSleep, WaitSched, Run, TimerIrq,
           TimerNext, TimerEnd, TimerQueue, TimerCb, TimerDone, SignalLock, SignalQueue, SignalWake,
           vars, nvars
  <2>2. QED
    BY <2>1, <1>1, <1>2, <1>3, <1>4, Zenon

\* What the steps do to the live nodes: a waiter adds the node it takes from the
\* pool, ...
LEMMA EnqueueLive ==
  ASSUME IInv, NEW t \in Waiters, WaitEnqueue(t)
  PROVE  LiveNodes' = LiveNodes \cup {Head(pool)} /\ Head(pool) \notin LiveNodes /\ Head(pool) \in Nodes
<1> DEFINE n == Head(pool)
<1>1. /\ queue \in Seq(Nodes) /\ pool \in Seq(Nodes) /\ Len(queue) \in Nat /\ Len(pool) \in Nat
      /\ node \in [Nodes -> [thread : Waiters \cup {NoOne}, cancelled : BOOLEAN]]
      /\ Apart(queue, pool) /\ valid /\ queue # << >>
  BY DEF IInv, TypeOK, QueueInv, WaiterInv, WaitEnqueue
<1>2. /\ pool # << >> /\ queue' = Append(queue, n)
      /\ node' = [node EXCEPT ![n] = [thread |-> t, cancelled |-> FALSE]]
  BY Zenon DEF WaitEnqueue
<1>3. n \in Nodes /\ n = pool[1] /\ 1 \in 1 .. Len(pool) /\ Len(queue) >= 1
  BY <1>1, <1>2, EmptySeq
<1>4. /\ Len(queue') = Len(queue) + 1 /\ queue'[Len(queue) + 1] = n
      /\ \A i \in 1 .. Len(queue) : queue'[i] = queue[i]
  BY <1>1, <1>2, <1>3, AppendProperties
<1>5. \A i \in 1 .. Len(queue) : queue[i] # n /\ queue[i] \in Nodes
  BY <1>1, <1>3, ElementOfSeq, Zenon DEF Apart
<1> HIDE DEF n
<1>6. ~node'[n].cancelled /\ \A i \in 1 .. Len(queue) : node'[queue[i]] = node[queue[i]]
  BY <1>1, <1>2, <1>3, <1>5, Zenon
<1>7. \A i : i \in 2 .. Len(queue') <=> i \in 2 .. Len(queue) \/ i = Len(queue) + 1
  BY <1>1, <1>3, <1>4
<1>8. \A i \in 2 .. Len(queue) : i \in 1 .. Len(queue)
  BY <1>1
<1>9. Live' = Live \cup {Len(queue) + 1}
  BY <1>4, <1>6, <1>7, <1>8, Zenon DEF Live
<1>10. Live \subseteq 1 .. Len(queue)
  BY <1>8, Zenon DEF Live
<1>11. LiveNodes' = LiveNodes \cup {n}
  BY <1>4, <1>9, <1>10, Zenon DEF LiveNodes
<1>12. n \notin LiveNodes
  BY <1>5, <1>10, Zenon DEF LiveNodes
<1>13. QED
  BY <1>3, <1>11, <1>12, Zenon DEF n

\* ... a signal takes the first, ...
LEMMA DequeueLive ==
  ASSUME IInv, valid, Dequeue, UNCHANGED node
  PROVE  IF Live = {} THEN LiveNodes' = {} ELSE queue'[1] \in LiveNodes /\ LiveNodes' = LiveNodes \ {queue'[1]}
<1> DEFINE k == FirstLive
<1>0. TypeOK /\ QueueInv
  BY Zenon DEF IInv
<1>1. /\ k \in 1 .. Len(queue) /\ Len(queue) \in Nat
      /\ Live # {} => k \in Live /\ \A j \in Live : k <= j
      /\ queue' \in Seq(Nodes) /\ Len(queue') = Len(queue) - k + 1
      /\ \A i \in 1 .. Len(queue') : queue'[i] = queue[k + i - 1]
      /\ Live = {} => k = Len(queue)
  <2>1. Len(queue) \in Nat
    BY <1>0 DEF TypeOK
  <2>2. Live = {} => k = Len(queue)
    BY Zenon DEF FirstLive
  <2>3. QED
    BY <1>0, <2>1, <2>2, DequeueFacts, Zenon
<1> HIDE DEF k
<1>2. CASE Live = {}
  <2>1. Live' = {}
    BY <1>1, <1>2 DEF Live
  <2>2. QED
    BY <2>1, <1>2, Zenon DEF LiveNodes
<1>3. CASE Live # {}
  <2>1. queue'[1] = queue[k] /\ k \in Live
    BY <1>1, <1>3
  <2>2. \A i \in 2 .. Len(queue') : queue'[i] = queue[k + i - 1] /\ k + i - 1 \in k + 1 .. Len(queue)
    BY <1>1
  <2>3. \A j \in k + 1 .. Len(queue) : j - k + 1 \in 2 .. Len(queue') /\ queue'[j - k + 1] = queue[j]
    <3> SUFFICES ASSUME NEW j \in k + 1 .. Len(queue)
                 PROVE  j - k + 1 \in 2 .. Len(queue') /\ queue'[j - k + 1] = queue[j]
      BY Zenon
    <3>1. j - k + 1 \in 2 .. Len(queue') /\ j - k + 1 \in 1 .. Len(queue') /\ k + (j - k + 1) - 1 = j
      BY <1>1
    <3>2. QED
      BY <3>1, <1>1, Zenon
  <2>4. \A j \in Live : j = k \/ j \in k + 1 .. Len(queue)
    BY <1>1, <1>3 DEF Live
  <2>5. \A j \in k + 1 .. Len(queue) : j \in 2 .. Len(queue) /\ j \in 1 .. Len(queue) /\ j # k
    BY <1>1
  <2>6. LiveNodes' = {queue[j] : j \in {i \in k + 1 .. Len(queue) : ~node[queue[i]].cancelled}}
    <3> DEFINE Later == {i \in k + 1 .. Len(queue) : ~node[queue[i]].cancelled}
    <3>1. ASSUME NEW i \in Live'
          PROVE  \E j \in Later : queue'[i] = queue[j]
      BY <3>1, <2>2, Zenon DEF Live
    <3>2. ASSUME NEW j \in Later
          PROVE  \E i \in Live' : queue'[i] = queue[j]
      BY <3>2, <2>3, Zenon DEF Live
    <3> HIDE DEF Later
    <3>3. {queue'[i] : i \in Live'} = {queue[j] : j \in Later}
      BY <3>1, <3>2
    <3>4. QED
      BY <3>3, Zenon DEF LiveNodes, Later
  <2>7. LiveNodes = {queue[k]} \cup {queue[j] : j \in {i \in k + 1 .. Len(queue) : ~node[queue[i]].cancelled}}
    BY <2>1, <2>4, <2>5, Zenon DEF LiveNodes, Live
  <2>8. \A j \in k + 1 .. Len(queue) : queue[j] # queue[k]
    BY <1>0, <1>1, <2>5, Zenon DEF QueueInv, Once
  <2>9. QED
    BY <1>3, <2>1, <2>6, <2>7, <2>8, Zenon
<1>4. QED
  BY <1>2, <1>3, Zenon

\* ... and a timer takes that of a thread whose wait it ends.
LEMMA CancelLive ==
  ASSUME IInv, NEW t \in Waiters, Cancel(t), UNCHANGED queue
  PROVE  LiveNodes' = LiveNodes \ {dqOff[t]}
<1>1. /\ queue \in Seq(Nodes) /\ Len(queue) \in Nat
      /\ node \in [Nodes -> [thread : Waiters \cup {NoOne}, cancelled : BOOLEAN]]
      /\ dqOff[t] \in Nodes \cup {NoNode} /\ NoNode \notin Nodes
  BY PoolAssumption DEF IInv, TypeOK, Nodes
<1>2. \A i \in 2 .. Len(queue) : queue[i] \in Nodes
  BY <1>1, ElementOfSeq
<1>3. \A n \in Nodes : node'[n].cancelled <=> (node[n].cancelled \/ n = dqOff[t])
  BY <1>1, Zenon DEF Cancel
<1>4. Live' = {i \in Live : queue[i] # dqOff[t]}
  BY <1>2, <1>3, Zenon DEF Live
<1>5. QED
  BY <1>4, Zenon DEF LiveNodes

\* The live nodes and their owners through every step, with the count.
LEMMA LiveStep ==
  ASSUME IInv, [Next]_vars
  PROVE  LiveInv' /\ CountInv' /\ count' \in 0 .. Cardinality(Waiters)
<1> DEFINE Goal == LiveInv' /\ CountInv' /\ count' \in 0 .. Cardinality(Waiters)
<1>0. /\ TypeOK /\ QueueInv /\ LiveInv /\ CountInv /\ WaiterInv /\ SignalInv /\ TimerInv
      /\ queue \in Seq(Nodes) /\ count \in 0 .. Cardinality(Waiters)
      /\ ts \in [Waiters -> {"running", "waiting", "ready"}] /\ dqOff \in [Waiters -> Nodes \cup {NoNode}]
      /\ node \in [Nodes -> [thread : Waiters \cup {NoOne}, cancelled : BOOLEAN]]
      /\ Cardinality(Waiters) \in Nat
  BY ActorsAssumption, FS_CardinalityType, Zenon DEF IInv, TypeOK
<1>1. IsFiniteSet(LiveNodes) /\ Cardinality(LiveNodes) \in Nat
  <2>1. \A n \in LiveNodes : node[n].thread \in Waiters
    BY <1>0, Zenon DEF LiveInv
  <2>2. QED
    BY <1>0, <2>1, LiveCount, Zenon
<1>2. CASE UNCHANGED <<valid, count, queue, node, ts, dqOff>>
  BY <1>0, <1>2 DEF LiveInv, CountInv, LiveNodes, Live
<1>3. ASSUME NEW t \in Waiters, WaitEnqueue(t)
      PROVE  Goal
  <2> DEFINE n == Head(pool)
  <2>1. LiveNodes' = LiveNodes \cup {n} /\ n \notin LiveNodes /\ n \in Nodes
    BY <1>3, EnqueueLive, Zenon
  <2>2. /\ node' = [node EXCEPT ![n] = [thread |-> t, cancelled |-> FALSE]]
        /\ dqOff' = [dqOff EXCEPT ![t] = n] /\ ts' = [ts EXCEPT ![t] = "waiting"]
        /\ count' = count + 1 /\ pc[t] = "wait_queue"
    BY <1>3, Zenon DEF WaitEnqueue
  <2> HIDE DEF n
  <2>3. ts[t] = "running" /\ valid
    BY <1>0, <2>2, Zenon DEF WaiterInv
  <2>4. \A m \in LiveNodes : node[m].thread \in Waiters \ {t}
    BY <1>0, <2>3, Zenon DEF LiveInv
  <2>5. Cardinality(LiveNodes) <= Cardinality(Waiters \ {t})
    BY <1>0, <2>4, LiveCount, Zenon
  <2>6. Cardinality(Waiters \ {t}) = Cardinality(Waiters) - 1
    BY ActorsAssumption, FS_RemoveElement, Zenon
  <2>7. Cardinality(LiveNodes') = Cardinality(LiveNodes) + 1
    BY <1>1, <2>1, FS_AddElement, Zenon
  <2>8. CountInv' /\ count' \in 0 .. Cardinality(Waiters)
    BY <1>0, <1>1, <2>2, <2>3, <2>5, <2>6, <2>7 DEF CountInv
  <2>9. \A m \in LiveNodes : m \in Nodes
    BY <1>0, ElementOfSeq DEF LiveNodes, Live
  <2>10. \A m \in LiveNodes' : IF m = n THEN node'[m].thread = t
                               ELSE m \in LiveNodes /\ node'[m] = node[m]
    BY <1>0, <2>1, <2>2, <2>9, Zenon
  <2>11. LiveInv'
    BY <1>0, <2>1, <2>2, <2>4, <2>10 DEF LiveInv
  <2>12. QED
    BY <2>8, <2>11, Zenon
<1>4. ASSUME NEW t \in Waiters, Run(t)
      PROVE  Goal
  <2>1. /\ UNCHANGED <<valid, count, queue, node, dqOff>> /\ ts' = [ts EXCEPT ![t] = "running"]
        /\ ready[t] > 0
    BY <1>4, Zenon DEF Run, nvars
  <2>2. ts[t] = "ready"
    BY <1>0, <2>1 DEF WaiterInv
  <2>3. LiveNodes' = LiveNodes
    BY <2>1, Zenon DEF LiveNodes, Live
  <2>4. QED
    BY <1>0, <2>1, <2>2, <2>3, Zenon DEF LiveInv, CountInv
<1>5. ASSUME NEW c \in Cpus, TimerCb(c)
      PROVE  Goal
  <2> DEFINE t == target[c]
  <2>1. t \in Waiters /\ UNCHANGED <<valid, queue>>
    BY <1>0, <1>5, Zenon DEF TimerInv, TimerCb
  <2>2. CASE ~ (valid /\ ts[t] = "waiting")
    BY <1>0, <1>2, <1>5, <2>2, Zenon DEF TimerCb
  <2>3. CASE valid /\ ts[t] = "waiting"
    <3>1. /\ Cancel(t) /\ dqOff' = [dqOff EXCEPT ![t] = NoNode]
          /\ count' = IF count > 0 THEN count - 1 ELSE count
          /\ ts' = ts \/ ts' = [ts EXCEPT ![t] = "ready"]
      BY <1>0, <1>5, <2>3, Zenon DEF TimerCb, Uncount, Wake
    <3> HIDE DEF t
    <3>2. LiveNodes' = LiveNodes \ {dqOff[t]}
      BY <2>1, <3>1, CancelLive, Zenon
    <3>3. \A n \in LiveNodes' : n \in LiveNodes /\ node'[n].thread = node[n].thread /\ node[n].thread # t
      <4>1. \A n \in LiveNodes : n \in Nodes
        BY <1>0, ElementOfSeq DEF LiveNodes, Live
      <4>2. QED
        BY <1>0, <3>1, <3>2, <4>1, Zenon DEF LiveInv, Cancel
    <3>4. LiveInv'
      BY <1>0, <2>1, <3>1, <3>3 DEF LiveInv
    <3>5. Cardinality(LiveNodes') >= Cardinality(LiveNodes) - 1 /\ Cardinality(LiveNodes') \in Nat
      <4>1. /\ IsFiniteSet(LiveNodes')
            /\ Cardinality(LiveNodes') = Cardinality(LiveNodes) - 1 \/ Cardinality(LiveNodes') = Cardinality(LiveNodes)
        BY <1>1, <3>2, FS_RemoveElement, Zenon
      <4>2. Cardinality(LiveNodes') \in Nat
        BY <4>1, FS_CardinalityType, Zenon
      <4>3. QED
        BY <1>1, <4>1, <4>2
    <3>6. CountInv' /\ count' \in 0 .. Cardinality(Waiters)
      BY <1>0, <1>1, <2>1, <3>1, <3>5 DEF CountInv
    <3>7. QED
      BY <3>4, <3>6, Zenon
  <2>4. QED
    BY <2>2, <2>3, Zenon
<1>6. ASSUME NEW s \in Signallers, SignalLock(s), ~ (undelivered > 0 \/ count = 0)
      PROVE  Goal /\ Live # {}
  <2>1. /\ valid /\ UNCHANGED <<valid, node, ts, dqOff>> /\ Dequeue /\ count # 0
        /\ count' = IF Live = {} THEN count ELSE count - 1
    BY <1>6, Zenon DEF SignalLock, tvars
  <2>2. Live # {}
    <3> SUFFICES ASSUME Live = {} PROVE FALSE
      BY Zenon
    <3>1. Cardinality(LiveNodes) = 0
      BY FS_EmptySet, Zenon DEF LiveNodes
    <3>2. count <= Cardinality(LiveNodes)
      BY <1>0, <2>1, Zenon DEF CountInv
    <3>3. QED
      BY <1>0, <2>1, <3>1, <3>2
  <2>3. queue'[1] \in LiveNodes /\ LiveNodes' = LiveNodes \ {queue'[1]}
    BY <2>1, <2>2, DequeueLive, Zenon
  <2>4. Cardinality(LiveNodes') = Cardinality(LiveNodes) - 1
    BY <1>1, <2>3, FS_RemoveElement, Zenon
  <2>5. CountInv' /\ count' \in 0 .. Cardinality(Waiters)
    BY <1>0, <1>1, <1>6, <2>1, <2>2, <2>4 DEF CountInv
  <2>6. LiveInv'
    BY <1>0, <2>1, <2>3, Zenon DEF LiveInv
  <2>7. QED
    BY <2>2, <2>5, <2>6, Zenon
<1>7. ASSUME NEW s \in Signallers, SignalWake(s)
      PROVE  Goal
  <2> DEFINE t == target[s]
  <2>1. /\ UNCHANGED <<valid, count, queue, node>>
        /\ \/ ts' = ts /\ dqOff' = dqOff
           \/ ts' = [ts EXCEPT ![t] = "ready"] /\ dqOff' = [dqOff EXCEPT ![t] = NoNode]
    BY <1>7, Zenon DEF SignalWake, Wake, nvars
  <2>2. t \in Waiters /\ dqOff[t] = queue[1] /\ valid
    BY <1>0, <1>7, Zenon DEF SignalInv, SignalWake
  <2> HIDE DEF t
  <2>3. \A n \in LiveNodes : n # queue[1]
    <3>1. Len(queue) \in Nat /\ \A i \in Live : i \in 1 .. Len(queue) /\ 1 \in 1 .. Len(queue) /\ i # 1
      BY <1>0 DEF Live
    <3>2. \A i \in Live : queue[i] # queue[1]
      BY <1>0, <3>1, Zenon DEF QueueInv, Once
    <3>3. QED
      BY <3>2, Zenon DEF LiveNodes
  <2>4. LiveNodes' = LiveNodes
    BY <2>1, Zenon DEF LiveNodes, Live
  <2>5. \A n \in LiveNodes : node[n].thread # t
    BY <1>0, <2>2, <2>3 DEF LiveInv
  <2>6. LiveInv'
    BY <1>0, <2>1, <2>2, <2>4, <2>5 DEF LiveInv
  <2>7. QED
    BY <1>0, <2>1, <2>4, <2>6, Zenon DEF CountInv
<1>8. CASE Deinit
  <2>1. queue' = << >> /\ valid' = FALSE /\ count' = count
    BY <1>8, Zenon DEF Deinit
  <2>2. Live' = {}
    BY <2>1 DEF Live
  <2>3. LiveNodes' = {}
    BY <2>2, Zenon DEF LiveNodes
  <2>4. QED
    BY <1>0, <2>1, <2>3, Zenon DEF LiveInv, CountInv
<1>9. QED
  <2>1. \/ UNCHANGED <<valid, count, queue, node, ts, dqOff>>
        \/ \E t \in Waiters : WaitEnqueue(t) \/ Run(t)
        \/ \E c \in Cpus : TimerCb(c)
        \/ \E s \in Signallers : (SignalLock(s) /\ ~ (undelivered > 0 \/ count = 0)) \/ SignalWake(s)
        \/ Deinit
    <3>1. CASE UNCHANGED vars
      BY <3>1, Zenon DEF vars, nvars, tvars
    <3>2. CASE \E t \in Waiters : WaiterStep(t) \/ WaitLock(t, FALSE)
      BY <3>2, Zenon DEF WaiterStep, WaitSleep, WaitSched, WaitLock, nvars, tvars
    <3>3. CASE \E t \in Timed : WaitLock(t, TRUE)
      BY <3>3, Zenon DEF WaitLock, nvars, tvars
    <3>4. CASE \E c \in Cpus : TimerStep(c) \/ TimerIrq(c) \/ \E t \in Waiters : TimerNext(c, t)
      BY <3>4, Zenon DEF TimerStep, TimerIrq, TimerNext, TimerEnd, TimerQueue, TimerDone, nvars, tvars
    <3>5. CASE \E s \in Signallers : SignalStep(s) \/ SignalLock(s)
      <4>1. ASSUME NEW s \in Signallers, SignalLock(s)
            PROVE  UNCHANGED <<valid, count, queue, node, ts, dqOff>> \/ ~ (undelivered > 0 \/ count = 0)
        BY <4>1, Zenon DEF SignalLock, tvars
      <4>2. ASSUME NEW s \in Signallers, SignalQueue(s)
            PROVE  UNCHANGED <<valid, count, queue, node, ts, dqOff>>
        BY <4>2, Zenon DEF SignalQueue, nvars, tvars
      <4>3. QED
        BY <3>5, <4>1, <4>2, Zenon DEF SignalStep
    <3>6. QED
      BY <3>1, <3>2, <3>3, <3>4, <3>5, Zenon DEF Next
  <2>2. QED
    BY <2>1, <1>2, <1>3, <1>4, <1>5, <1>6, <1>7, <1>8, Zenon

-----------------------------------------------------------------------------
(* Waiters, signals and timers                                             *)

\* Threads, signallers and CPUs are actors of their own.
LEMMA Distinct ==
  /\ \A t \in Waiters : t \in Actors /\ t \notin Signallers /\ t \notin Cpus /\ t # NoOne
  /\ \A s \in Signallers : s \in Actors /\ s \notin Waiters /\ s \notin Cpus /\ s # NoOne
  /\ \A c \in Cpus : c \in Actors /\ c \notin Waiters /\ c \notin Signallers /\ c # NoOne
BY ActorsAssumption, Zenon DEF Actors

\* The thread a signal takes is waiting, and its node is the new sentinel.
LEMMA TargetTaken ==
  ASSUME IInv, NEW s \in Signallers, SignalLock(s), ~ (undelivered > 0 \/ count = 0)
  PROVE  LET t == node[queue'[1]].thread
         IN  /\ t \in Waiters /\ ts[t] = "waiting" /\ dqOff[t] = queue'[1]
             /\ target' = [target EXCEPT ![s] = t]
             /\ notifcLock' = s /\ pc' = [pc EXCEPT ![s] = "signal_queue"]
<1>1. valid /\ Dequeue /\ UNCHANGED node
  BY Zenon DEF SignalLock
<1>2. Live # {}
  <2> SUFFICES ASSUME Live = {} PROVE FALSE
    BY Zenon
  <2>1. Cardinality(LiveNodes) = 0
    BY FS_EmptySet, Zenon DEF LiveNodes
  <2>2. count <= Cardinality(LiveNodes) /\ count # 0 /\ count \in Nat
    BY <1>1 DEF IInv, CountInv, TypeOK
  <2>3. QED
    BY <2>1, <2>2
<1>3. queue'[1] \in LiveNodes
  BY <1>1, <1>2, DequeueLive, Zenon
<1>4. QED
  BY <1>2, <1>3, Zenon DEF SignalLock, IInv, LiveInv, Goto

\* Waiters through every step.
LEMMA WaiterKept ==
  ASSUME IInv, [Next]_vars
  PROVE  WaiterInv'
<1>0. /\ WaiterInv /\ SignalInv /\ TimerInv /\ pc \in [Actors -> Labels]
      /\ ts \in [Waiters -> {"running", "waiting", "ready"}] /\ ready \in [Waiters -> Nat]
  BY Zenon DEF IInv, TypeOK
<1>1. ASSUME NEW t \in Waiters, WaiterStep(t) \/ WaitLock(t, FALSE) \/ WaitLock(t, TRUE)
      PROVE  WaiterInv'
  <2>1. ASSUME NEW timeout, WaitLock(t, timeout)
        PROVE  WaiterInv'
    BY <1>0, <2>1, Distinct, Zenon DEF WaitLock, WaiterInv, Goto, tvars
  <2>2. CASE WaitEnqueue(t)
    BY <1>0, <2>2, Distinct, Zenon DEF WaitEnqueue, WaiterInv, Goto
  <2>3. CASE WaitSleep(t)
    BY <1>0, <2>3, Distinct, Zenon DEF WaitSleep, WaiterInv, Goto, nvars, locks
  <2>4. CASE WaitSched(t)
    BY <1>0, <2>4, Distinct, Zenon DEF WaitSched, WaiterInv, Goto, nvars, tvars
  <2>5. CASE Run(t)
    BY <1>0, <2>5, Distinct DEF Run, WaiterInv, Goto, nvars, locks
  <2>6. QED
    BY <1>1, <2>1, <2>2, <2>3, <2>4, <2>5, Zenon DEF WaiterStep
<1>2. ASSUME NEW c \in Cpus, TimerStep(c) \/ TimerIrq(c) \/ \E t \in Waiters : TimerNext(c, t)
      PROVE  WaiterInv'
  <2>1. CASE TimerCb(c)
    <3>1. target[c] \in Waiters /\ notifcLock = NoOne
      BY <1>0, <2>1, Zenon DEF TimerInv, TimerCb
    <3>2. \A t \in Waiters : pc'[t] = pc[t]
      BY <1>0, <2>1, Distinct, Zenon DEF TimerCb, Goto
    <3>3. \A t \in Waiters : pc[t] \in {"idle", "blocked"}
      BY <1>0, <3>1, Distinct, Zenon DEF WaiterInv
    <3>4. UNCHANGED valid /\ (UNCHANGED <<ts, ready>> \/ (ts[target[c]] = "waiting" /\ Wake(target[c])))
      BY <2>1, Zenon DEF TimerCb
    <3>5. QED
      BY <1>0, <3>1, <3>2, <3>3, <3>4 DEF WaiterInv, Wake
  <2>2. CASE ~ TimerCb(c)
    BY <1>0, <1>2, <2>2, Distinct DEF TimerStep, TimerIrq, TimerNext, TimerEnd, TimerQueue, TimerDone,
       WaiterInv, Goto, nvars, tvars, locks
  <2>3. QED
    BY <2>1, <2>2, Zenon
<1>3. ASSUME NEW s \in Signallers, SignalStep(s) \/ SignalLock(s)
      PROVE  WaiterInv'
  <2>1. CASE SignalLock(s)
    <3>1. notifcLock = NoOne /\ UNCHANGED <<valid, ts, ready>> /\ \A t \in Waiters : pc'[t] = pc[t]
      BY <1>0, <2>1, Distinct, Zenon DEF SignalLock, Goto, tvars
    <3>2. QED
      BY <1>0, <3>1, Distinct, Zenon DEF WaiterInv
  <2>2. CASE SignalQueue(s)
    <3>1. notifcLock = s /\ UNCHANGED <<valid, ts, ready>> /\ \A t \in Waiters : pc'[t] = pc[t]
      BY <1>0, <2>2, Distinct, Zenon DEF SignalQueue, SignalGiveUp, Goto, tvars, nvars, SignalInv
    <3>2. QED
      BY <1>0, <3>1, Distinct, Zenon DEF WaiterInv
  <2>3. CASE SignalWake(s)
    <3>1. /\ notifcLock = s /\ UNCHANGED valid /\ \A t \in Waiters : pc'[t] = pc[t]
          /\ target[s] \in Waiters /\ ts[target[s]] = "waiting"
          /\ UNCHANGED <<ts, ready>> \/ Wake(target[s])
      BY <1>0, <2>3, Distinct, Zenon DEF SignalWake, SignalGiveUp, Goto, nvars, SignalInv
    <3>2. QED
      BY <1>0, <3>1, Distinct DEF WaiterInv, Wake
  <2>4. QED
    BY <1>3, <2>1, <2>2, <2>3, Zenon DEF SignalStep
<1>4. CASE Deinit
  BY <1>0, <1>4, Distinct, Zenon DEF Deinit, WaiterInv, tvars, locks
<1>5. CASE UNCHANGED vars
  BY <1>0, <1>5, Zenon DEF WaiterInv, vars, nvars, tvars, locks
<1>6. QED
  <2>1. Timed \subseteq Waiters
    BY WaitersAssumption, Zenon
  <2>2. QED
    BY <2>1, <1>1, <1>2, <1>3, <1>4, <1>5, Zenon DEF Next

\* Signals through every step: while one is under way nobody else moves the queue.
LEMMA SignalKept ==
  ASSUME IInv, [Next]_vars
  PROVE  SignalInv'
<1>0. /\ WaiterInv /\ SignalInv /\ TimerInv /\ pc \in [Actors -> Labels]
      /\ target \in [Actors -> Waiters \cup {NoOne}]
      /\ ts \in [Waiters -> {"running", "waiting", "ready"}] /\ dqOff \in [Waiters -> Nodes \cup {NoNode}]
  BY Zenon DEF IInv, TypeOK
<1>1. ASSUME UNCHANGED <<notifcLock, valid, queue, ts, dqOff>>,
             \A s \in Signallers : pc'[s] = pc[s] /\ target'[s] = target[s]
      PROVE  SignalInv'
  BY <1>0, <1>1 DEF SignalInv
<1>2. ASSUME NEW a \in Waiters \cup Cpus \cup {NoOne}, notifcLock = a,
             \A s \in Signallers : pc'[s] = pc[s]
      PROVE  SignalInv'
  BY <1>0, <1>2, Distinct DEF SignalInv
<1>3. ASSUME NEW t \in Waiters, WaiterStep(t) \/ WaitLock(t, FALSE) \/ WaitLock(t, TRUE)
      PROVE  SignalInv'
  <2>1. ASSUME NEW timeout, WaitLock(t, timeout)
        PROVE  SignalInv'
    BY <1>0, <1>2, <2>1, Distinct, Zenon DEF WaitLock, Goto
  <2>2. CASE WaitEnqueue(t)
    BY <1>0, <1>2, <2>2, Distinct, Zenon DEF WaitEnqueue, Goto, WaiterInv
  <2>3. CASE WaitSleep(t)
    BY <1>0, <1>2, <2>3, Distinct, Zenon DEF WaitSleep, Goto, WaiterInv
  <2>4. CASE WaitSched(t)
    BY <1>0, <1>2, <2>4, Distinct, Zenon DEF WaitSched, Goto, WaiterInv
  <2>5. CASE Run(t)
    <3>1. ts[t] = "ready"
      BY <1>0, <2>5 DEF Run, WaiterInv
    <3>2. /\ UNCHANGED <<notifcLock, valid, queue, dqOff>> /\ ts' = [ts EXCEPT ![t] = "running"]
          /\ \A s \in Signallers : pc'[s] = pc[s] /\ target'[s] = target[s]
      BY <1>0, <2>5, Distinct, Zenon DEF Run, Goto, nvars, locks
    <3>3. QED
      BY <1>0, <3>1, <3>2 DEF SignalInv
  <2>6. QED
    BY <1>3, <2>1, <2>2, <2>3, <2>4, <2>5, Zenon DEF WaiterStep
<1>4. ASSUME NEW c \in Cpus, TimerStep(c) \/ TimerIrq(c) \/ \E t \in Waiters : TimerNext(c, t)
      PROVE  SignalInv'
  <2>1. CASE TimerCb(c)
    BY <1>0, <1>2, <2>1, Distinct, Zenon DEF TimerCb, Goto
  <2>2. CASE ~ TimerCb(c)
    <3>1. /\ UNCHANGED <<notifcLock, valid, queue, ts, dqOff>>
          /\ \A s \in Signallers : pc'[s] = pc[s] /\ target'[s] = target[s]
      BY <1>0, <1>4, <2>2, Distinct DEF TimerStep, TimerIrq, TimerNext, TimerEnd, TimerQueue, TimerDone,
         Goto, nvars, tvars, locks
    <3>2. QED
      BY <1>1, <3>1, Zenon
  <2>3. QED
    BY <2>1, <2>2, Zenon
<1>5. ASSUME NEW s \in Signallers, SignalStep(s) \/ SignalLock(s)
      PROVE  SignalInv'
  <2>1. CASE SignalLock(s) /\ (undelivered > 0 \/ count = 0)
    BY <1>0, <1>1, <2>1, Zenon DEF SignalLock, tvars
  <2>2. CASE SignalLock(s) /\ ~ (undelivered > 0 \/ count = 0)
    <3> DEFINE t == node[queue'[1]].thread
    <3>1. /\ t \in Waiters /\ ts[t] = "waiting" /\ dqOff[t] = queue'[1]
          /\ target' = [target EXCEPT ![s] = t]
          /\ notifcLock' = s /\ pc' = [pc EXCEPT ![s] = "signal_queue"]
      BY <2>2, TargetTaken, Zenon
    <3>2. notifcLock = NoOne /\ valid /\ UNCHANGED <<valid, ts, dqOff>>
      BY <2>2, Zenon DEF SignalLock, tvars
    <3> HIDE DEF t
    <3>3. QED
      BY <1>0, <3>1, <3>2, Distinct, Zenon DEF SignalInv
  <2>3. CASE SignalQueue(s)
    BY <1>0, <2>3, Distinct DEF SignalQueue, SignalGiveUp, SignalInv, Goto, nvars, tvars
  <2>4. CASE SignalWake(s)
    <3>1. /\ pc' = [pc EXCEPT ![s] = "idle"] /\ notifcLock = s
      BY <1>0, <2>4, Zenon DEF SignalWake, SignalGiveUp, SignalInv, Goto
    <3>2. QED
      BY <1>0, <3>1, Distinct, Zenon DEF SignalInv
  <2>5. QED
    BY <1>5, <2>1, <2>2, <2>3, <2>4, Zenon DEF SignalStep
<1>6. CASE Deinit
  BY <1>0, <1>2, <1>6, Zenon DEF Deinit
<1>7. CASE UNCHANGED vars
  BY <1>0, <1>1, <1>7, Zenon DEF vars, nvars, tvars, locks
<1>8. QED
  <2>1. Timed \subseteq Waiters
    BY WaitersAssumption, Zenon
  <2>2. QED
    BY <2>1, <1>3, <1>4, <1>5, <1>6, <1>7, Zenon DEF Next

\* Where actors are and whom they deal with.
LEMMA TimerKept ==
  ASSUME IInv, [Next]_vars
  PROVE  /\ pc' \in [Actors -> Labels]
         /\ target' \in [Actors -> Waiters \cup {NoOne}]
         /\ TimerInv'
<1> DEFINE Goal == /\ pc' \in [Actors -> Labels]
                   /\ target' \in [Actors -> Waiters \cup {NoOne}]
                   /\ TimerInv'
<1>0. IInv /\ SignalInv /\ TimerInv /\ pc \in [Actors -> Labels] /\ target \in [Actors -> Waiters \cup {NoOne}]
  BY Zenon DEF IInv, TypeOK
<1>1. ASSUME NEW t \in Waiters, WaiterStep(t) \/ WaitLock(t, FALSE) \/ WaitLock(t, TRUE)
      PROVE  Goal
  <2>1. ASSUME NEW timeout \in BOOLEAN, WaitLock(t, timeout)
        PROVE  Goal
    BY <1>0, <2>1, Distinct, Zenon DEF TimerInv, Labels, WaitLock, Goto, tvars
  <2>2. CASE WaitEnqueue(t)
    BY <1>0, <2>2, Distinct, Zenon DEF TimerInv, Labels, WaitEnqueue, Goto
  <2>3. CASE WaitSleep(t)
    BY <1>0, <2>3, Distinct, Zenon DEF TimerInv, Labels, WaitSleep, Goto, nvars, locks
  <2>4. CASE WaitSched(t)
    BY <1>0, <2>4, Distinct, Zenon DEF TimerInv, Labels, WaitSched, Goto, nvars, tvars
  <2>5. CASE Run(t)
    BY <1>0, <2>5, Distinct, Zenon DEF TimerInv, Labels, Run, Goto, nvars, locks
  <2>6. QED
    BY <1>1, <2>1, <2>2, <2>3, <2>4, <2>5, Zenon DEF WaiterStep
<1>2. ASSUME NEW c \in Cpus, TimerStep(c) \/ TimerIrq(c) \/ \E t \in Waiters : TimerNext(c, t)
      PROVE  Goal
  <2>1. CASE TimerCb(c)
    BY <1>0, <2>1, Distinct, Zenon DEF TimerInv, Labels, TimerCb, Wake, Goto
  <2>2. CASE TimerQueue(c)
    BY <1>0, <2>2, Distinct, Zenon DEF TimerInv, Labels, TimerQueue, Goto, nvars
  <2>3. CASE TimerDone(c)
    BY <1>0, <2>3, Distinct, Zenon DEF TimerInv, Labels, TimerDone, Goto, nvars
  <2>4. CASE TimerEnd(c)
    BY <1>0, <2>4, Distinct, Zenon DEF TimerInv, Labels, TimerEnd, Goto, nvars, tvars
  <2>5. CASE TimerIrq(c)
    BY <1>0, <2>5, Distinct, Zenon DEF TimerInv, Labels, TimerIrq, Goto, nvars, tvars
  <2>6. ASSUME NEW t \in Waiters, TimerNext(c, t)
        PROVE  Goal
    BY <1>0, <2>6, Distinct, Zenon DEF TimerInv, Labels, TimerNext, Goto, nvars, tvars, locks
  <2>7. QED
    BY <1>2, <2>1, <2>2, <2>3, <2>4, <2>5, <2>6, Zenon DEF TimerStep
<1>3. ASSUME NEW s \in Signallers, SignalStep(s) \/ SignalLock(s)
      PROVE  Goal
  <2>1. CASE SignalLock(s)
    BY <1>0, <2>1, TargetTaken, Distinct DEF TimerInv, Labels, SignalLock, Goto, tvars
  <2>2. CASE SignalQueue(s)
    BY <1>0, <2>2, Distinct, Zenon DEF TimerInv, Labels, SignalQueue, SignalGiveUp, Goto, nvars, tvars
  <2>3. CASE SignalWake(s)
    BY <1>0, <2>3, Distinct, Zenon DEF TimerInv, Labels, SignalWake, SignalGiveUp, Wake, Goto, nvars
  <2>4. QED
    BY <1>3, <2>1, <2>2, <2>3, Zenon DEF SignalStep
<1>4. CASE Deinit
  BY <1>0, <1>4, Zenon DEF TimerInv, Labels, Deinit, tvars, locks
<1>5. CASE UNCHANGED vars
  BY <1>0, <1>5, Zenon DEF TimerInv, Labels, vars, nvars, tvars, locks
<1>6. QED
  <2>1. Timed \subseteq Waiters
    BY WaitersAssumption, Zenon
  <2>2. QED
    BY <2>1, <1>1, <1>2, <1>3, <1>4, <1>5, Zenon DEF Next

\* Flags of the threads.
LEMMA FlagsKept ==
  ASSUME IInv, [Next]_vars
  PROVE  /\ pending' \in [Waiters -> BOOLEAN]
         /\ cb' \in [Waiters -> BOOLEAN]
         /\ exited' \in [Waiters -> BOOLEAN]
         /\ timed' \in [Waiters -> BOOLEAN]
         /\ valid' \in BOOLEAN
<1> DEFINE Goal == /\ pending' \in [Waiters -> BOOLEAN]
                   /\ cb' \in [Waiters -> BOOLEAN]
                   /\ exited' \in [Waiters -> BOOLEAN]
                   /\ timed' \in [Waiters -> BOOLEAN]
                   /\ valid' \in BOOLEAN
<1>0. /\ pending \in [Waiters -> BOOLEAN] /\ cb \in [Waiters -> BOOLEAN] /\ valid \in BOOLEAN
      /\ exited \in [Waiters -> BOOLEAN] /\ timed \in [Waiters -> BOOLEAN] /\ SignalInv /\ TimerInv /\ IInv
  BY Zenon DEF IInv, TypeOK
<1>1. ASSUME NEW t \in Waiters, WaiterStep(t) \/ WaitLock(t, FALSE) \/ WaitLock(t, TRUE)
      PROVE  Goal
  <2>1. ASSUME NEW timeout \in BOOLEAN, WaitLock(t, timeout)
        PROVE  Goal
    BY <1>0, <2>1, Distinct DEF SignalInv, TimerInv, WaitLock, Goto, tvars
  <2>2. CASE WaitEnqueue(t)
    BY <1>0, <2>2, Distinct, Zenon DEF SignalInv, TimerInv, WaitEnqueue, Goto
  <2>3. CASE WaitSleep(t)
    BY <1>0, <2>3, Distinct, Zenon DEF SignalInv, TimerInv, WaitSleep, Goto, nvars, locks
  <2>4. CASE WaitSched(t)
    BY <1>0, <2>4, Distinct, Zenon DEF SignalInv, TimerInv, WaitSched, Goto, nvars, tvars
  <2>5. CASE Run(t)
    BY <1>0, <2>5, Distinct, Zenon DEF SignalInv, TimerInv, Run, Goto, nvars, locks
  <2>6. QED
    BY <1>1, <2>1, <2>2, <2>3, <2>4, <2>5, Zenon DEF WaiterStep
<1>2. ASSUME NEW c \in Cpus, TimerStep(c) \/ TimerIrq(c) \/ \E t \in Waiters : TimerNext(c, t)
      PROVE  Goal
  <2>1. CASE TimerCb(c)
    BY <1>0, <2>1, Distinct, Zenon DEF SignalInv, TimerInv, TimerCb, Wake, Goto
  <2>2. CASE TimerQueue(c)
    BY <1>0, <2>2, Distinct, Zenon DEF SignalInv, TimerInv, TimerQueue, Goto, nvars
  <2>3. CASE TimerDone(c)
    BY <1>0, <2>3, Distinct, Zenon DEF SignalInv, TimerInv, TimerDone, Goto, nvars
  <2>4. CASE TimerEnd(c)
    BY <1>0, <2>4, Distinct, Zenon DEF SignalInv, TimerInv, TimerEnd, Goto, nvars, tvars
  <2>5. CASE TimerIrq(c)
    BY <1>0, <2>5, Distinct, Zenon DEF SignalInv, TimerInv, TimerIrq, Goto, nvars, tvars
  <2>6. ASSUME NEW t \in Waiters, TimerNext(c, t)
        PROVE  Goal
    BY <1>0, <2>6, Distinct, Zenon DEF SignalInv, TimerInv, TimerNext, Goto, nvars, tvars, locks
  <2>7. QED
    BY <1>2, <2>1, <2>2, <2>3, <2>4, <2>5, <2>6, Zenon DEF TimerStep
<1>3. ASSUME NEW s \in Signallers, SignalStep(s) \/ SignalLock(s)
      PROVE  Goal
  <2>1. CASE SignalLock(s)
    BY <1>0, <2>1, TargetTaken, Distinct, Zenon DEF SignalInv, TimerInv, SignalLock, Goto, tvars
  <2>2. CASE SignalQueue(s)
    BY <1>0, <2>2, Distinct, Zenon DEF SignalInv, TimerInv, SignalQueue, SignalGiveUp, Goto, nvars, tvars
  <2>3. CASE SignalWake(s)
    BY <1>0, <2>3, Distinct DEF SignalInv, TimerInv, SignalWake, SignalGiveUp, Wake, Goto, nvars
  <2>4. QED
    BY <1>3, <2>1, <2>2, <2>3, Zenon DEF SignalStep
<1>4. CASE Deinit
  BY <1>0, <1>4, Zenon DEF SignalInv, TimerInv, Deinit, tvars, locks
<1>5. CASE UNCHANGED vars
  BY <1>0, <1>5, Zenon DEF SignalInv, TimerInv, vars, nvars, tvars, locks
<1>6. QED
  <2>1. Timed \subseteq Waiters
    BY WaitersAssumption, Zenon
  <2>2. QED
    BY <2>1, <1>1, <1>2, <1>3, <1>4, <1>5, Zenon DEF Next

\* Holders of locks, and who sleeps.
LEMMA LocksKept ==
  ASSUME IInv, [Next]_vars
  PROVE  /\ notifcLock' \in Actors \cup {NoOne}
         /\ queueLock' \in [Waiters -> Actors \cup {NoOne}]
         /\ sleepLock' \in [Cpus -> Cpus \cup {NoOne}]
         /\ sleepers' \in [Cpus -> SUBSET Waiters]
<1> DEFINE Goal == /\ notifcLock' \in Actors \cup {NoOne}
                   /\ queueLock' \in [Waiters -> Actors \cup {NoOne}]
                   /\ sleepLock' \in [Cpus -> Cpus \cup {NoOne}]
                   /\ sleepers' \in [Cpus -> SUBSET Waiters]
<1>0. /\ notifcLock \in Actors \cup {NoOne} /\ queueLock \in [Waiters -> Actors \cup {NoOne}]
      /\ sleepLock \in [Cpus -> Cpus \cup {NoOne}] /\ sleepers \in [Cpus -> SUBSET Waiters]
      /\ CpuOf \in [Waiters -> Cpus] /\ SignalInv /\ TimerInv /\ IInv
  BY WaitersAssumption, Zenon DEF IInv, TypeOK
<1>1. ASSUME NEW t \in Waiters, WaiterStep(t) \/ WaitLock(t, FALSE) \/ WaitLock(t, TRUE)
      PROVE  Goal
  <2>1. ASSUME NEW timeout \in BOOLEAN, WaitLock(t, timeout)
        PROVE  Goal
    BY <1>0, <2>1, Distinct DEF SignalInv, TimerInv, WaitLock, Goto, tvars
  <2>2. CASE WaitEnqueue(t)
    BY <1>0, <2>2, Distinct, Zenon DEF SignalInv, TimerInv, WaitEnqueue, Goto
  <2>3. CASE WaitSleep(t)
    BY <1>0, <2>3, Distinct DEF SignalInv, TimerInv, WaitSleep, Goto, nvars, locks
  <2>4. CASE WaitSched(t)
    BY <1>0, <2>4, Distinct, Zenon DEF SignalInv, TimerInv, WaitSched, Goto, nvars, tvars
  <2>5. CASE Run(t)
    BY <1>0, <2>5, Distinct, Zenon DEF SignalInv, TimerInv, Run, Goto, nvars, locks
  <2>6. QED
    BY <1>1, <2>1, <2>2, <2>3, <2>4, <2>5, Zenon DEF WaiterStep
<1>2. ASSUME NEW c \in Cpus, TimerStep(c) \/ TimerIrq(c) \/ \E t \in Waiters : TimerNext(c, t)
      PROVE  Goal
  <2>1. CASE TimerCb(c)
    BY <1>0, <2>1, Distinct DEF SignalInv, TimerInv, TimerCb, Wake, Goto
  <2>2. CASE TimerQueue(c)
    BY <1>0, <2>2, Distinct, Zenon DEF SignalInv, TimerInv, TimerQueue, Goto, nvars
  <2>3. CASE TimerDone(c)
    BY <1>0, <2>3, Distinct, Zenon DEF SignalInv, TimerInv, TimerDone, Goto, nvars
  <2>4. CASE TimerEnd(c)
    BY <1>0, <2>4, Distinct, Zenon DEF SignalInv, TimerInv, TimerEnd, Goto, nvars, tvars
  <2>5. CASE TimerIrq(c)
    BY <1>0, <2>5, Distinct, Zenon DEF SignalInv, TimerInv, TimerIrq, Goto, nvars, tvars
  <2>6. ASSUME NEW t \in Waiters, TimerNext(c, t)
        PROVE  Goal
    BY <1>0, <2>6, Distinct, Zenon DEF SignalInv, TimerInv, TimerNext, Goto, nvars, tvars, locks
  <2>7. QED
    BY <1>2, <2>1, <2>2, <2>3, <2>4, <2>5, <2>6, Zenon DEF TimerStep
<1>3. ASSUME NEW s \in Signallers, SignalStep(s) \/ SignalLock(s)
      PROVE  Goal
  <2>1. CASE SignalLock(s)
    BY <1>0, <2>1, Distinct DEF SignalInv, TimerInv, SignalLock, Goto, tvars
  <2>2. CASE SignalQueue(s)
    BY <1>0, <2>2, Distinct DEF SignalInv, TimerInv, SignalQueue, SignalGiveUp, Goto, nvars, tvars
  <2>3. CASE SignalWake(s)
    BY <1>0, <2>3, Distinct DEF SignalInv, TimerInv, SignalWake, SignalGiveUp, Wake, Goto, nvars
  <2>4. QED
    BY <1>3, <2>1, <2>2, <2>3, Zenon DEF SignalStep
<1>4. CASE Deinit
  BY <1>0, <1>4, Zenon DEF SignalInv, TimerInv, Deinit, tvars, locks
<1>5. CASE UNCHANGED vars
  BY <1>0, <1>5, Zenon DEF SignalInv, TimerInv, vars, nvars, tvars, locks
<1>6. QED
  <2>1. Timed \subseteq Waiters
    BY WaitersAssumption, Zenon
  <2>2. QED
    BY <2>1, <1>1, <1>2, <1>3, <1>4, <1>5, Zenon DEF Next

\* The states of threads.
LEMMA ThreadsKept ==
  ASSUME IInv, [Next]_vars
  PROVE  /\ ts' \in [Waiters -> {"running", "waiting", "ready"}]
         /\ ready' \in [Waiters -> Nat]
         /\ waits' \in [Waiters -> 0 .. MaxWaits]
<1> DEFINE Goal == /\ ts' \in [Waiters -> {"running", "waiting", "ready"}]
                   /\ ready' \in [Waiters -> Nat]
                   /\ waits' \in [Waiters -> 0 .. MaxWaits]
<1>0. /\ ts \in [Waiters -> {"running", "waiting", "ready"}] /\ ready \in [Waiters -> Nat]
      /\ waits \in [Waiters -> 0 .. MaxWaits] /\ MaxWaits \in Nat
      /\ SignalInv /\ TimerInv /\ IInv
  BY BoundsAssumption, Zenon DEF IInv, TypeOK
<1>1. ASSUME NEW t \in Waiters, WaiterStep(t) \/ WaitLock(t, FALSE) \/ WaitLock(t, TRUE)
      PROVE  Goal
  <2>1. ASSUME NEW timeout \in BOOLEAN, WaitLock(t, timeout)
        PROVE  Goal
    BY <1>0, <2>1, Distinct DEF SignalInv, TimerInv, WaitLock, Goto, tvars
  <2>2. CASE WaitEnqueue(t)
    BY <1>0, <2>2, Distinct, Zenon DEF SignalInv, TimerInv, WaitEnqueue, Goto
  <2>3. CASE WaitSleep(t)
    BY <1>0, <2>3, Distinct, Zenon DEF SignalInv, TimerInv, WaitSleep, Goto, nvars, locks
  <2>4. CASE WaitSched(t)
    BY <1>0, <2>4, Distinct, Zenon DEF SignalInv, TimerInv, WaitSched, Goto, nvars, tvars
  <2>5. CASE Run(t)
    BY <1>0, <2>5, Distinct DEF SignalInv, TimerInv, Run, Goto, nvars, locks
  <2>6. QED
    BY <1>1, <2>1, <2>2, <2>3, <2>4, <2>5, Zenon DEF WaiterStep
<1>2. ASSUME NEW c \in Cpus, TimerStep(c) \/ TimerIrq(c) \/ \E t \in Waiters : TimerNext(c, t)
      PROVE  Goal
  <2>1. CASE TimerCb(c)
    BY <1>0, <2>1, Distinct DEF SignalInv, TimerInv, TimerCb, Wake, Goto
  <2>2. CASE TimerQueue(c)
    BY <1>0, <2>2, Distinct, Zenon DEF SignalInv, TimerInv, TimerQueue, Goto, nvars
  <2>3. CASE TimerDone(c)
    BY <1>0, <2>3, Distinct, Zenon DEF SignalInv, TimerInv, TimerDone, Goto, nvars
  <2>4. CASE TimerEnd(c)
    BY <1>0, <2>4, Distinct, Zenon DEF SignalInv, TimerInv, TimerEnd, Goto, nvars, tvars
  <2>5. CASE TimerIrq(c)
    BY <1>0, <2>5, Distinct, Zenon DEF SignalInv, TimerInv, TimerIrq, Goto, nvars, tvars
  <2>6. ASSUME NEW t \in Waiters, TimerNext(c, t)
        PROVE  Goal
    BY <1>0, <2>6, Distinct, Zenon DEF SignalInv, TimerInv, TimerNext, Goto, nvars, tvars, locks
  <2>7. QED
    BY <1>2, <2>1, <2>2, <2>3, <2>4, <2>5, <2>6, Zenon DEF TimerStep
<1>3. ASSUME NEW s \in Signallers, SignalStep(s) \/ SignalLock(s)
      PROVE  Goal
  <2>1. CASE SignalLock(s)
    BY <1>0, <2>1, Distinct, Zenon DEF SignalInv, TimerInv, SignalLock, Goto, tvars
  <2>2. CASE SignalQueue(s)
    BY <1>0, <2>2, Distinct, Zenon DEF SignalInv, TimerInv, SignalQueue, SignalGiveUp, Goto, nvars, tvars
  <2>3. CASE SignalWake(s)
    BY <1>0, <2>3, Distinct DEF SignalInv, TimerInv, SignalWake, SignalGiveUp, Wake, Goto, nvars
  <2>4. QED
    BY <1>3, <2>1, <2>2, <2>3, Zenon DEF SignalStep
<1>4. CASE Deinit
  BY <1>0, <1>4, Zenon DEF SignalInv, TimerInv, Deinit, tvars, locks
<1>5. CASE UNCHANGED vars
  BY <1>0, <1>5, Zenon DEF SignalInv, TimerInv, vars, nvars, tvars, locks
<1>6. QED
  <2>1. Timed \subseteq Waiters
    BY WaitersAssumption, Zenon
  <2>2. QED
    BY <2>1, <1>1, <1>2, <1>3, <1>4, <1>5, Zenon DEF Next

\* The nodes, and who knows one.
LEMMA NodesKept ==
  ASSUME IInv, [Next]_vars
  PROVE  /\ node' \in [Nodes -> [thread : Waiters \cup {NoOne}, cancelled : BOOLEAN]]
         /\ dqOff' \in [Waiters -> Nodes \cup {NoNode}]
         /\ undelivered' \in 0 .. MaxUndelivered
<1> DEFINE Goal == /\ node' \in [Nodes -> [thread : Waiters \cup {NoOne}, cancelled : BOOLEAN]]
                   /\ dqOff' \in [Waiters -> Nodes \cup {NoNode}]
                   /\ undelivered' \in 0 .. MaxUndelivered
<1>0. /\ node \in [Nodes -> [thread : Waiters \cup {NoOne}, cancelled : BOOLEAN]]
      /\ dqOff \in [Waiters -> Nodes \cup {NoNode}]
      /\ undelivered \in 0 .. MaxUndelivered /\ MaxUndelivered \in Nat
      /\ SignalInv /\ TimerInv /\ IInv
  BY BoundsAssumption, Zenon DEF IInv, TypeOK
<1>1. ASSUME NEW t \in Waiters, WaiterStep(t) \/ WaitLock(t, FALSE) \/ WaitLock(t, TRUE)
      PROVE  Goal
  <2>1. ASSUME NEW timeout \in BOOLEAN, WaitLock(t, timeout)
        PROVE  Goal
    BY <1>0, <2>1, Distinct DEF SignalInv, TimerInv, Cancel, WaitLock, Goto, tvars
  <2>2. CASE WaitEnqueue(t)
    <3>1. Head(pool) \in Nodes
      BY <1>0, <2>2, EnqueueLive, Zenon
    <3>2. QED
      BY <1>0, <2>2, <3>1, Zenon DEF WaitEnqueue
  <2>3. CASE WaitSleep(t)
    BY <1>0, <2>3, Distinct, Zenon DEF SignalInv, TimerInv, Cancel, WaitSleep, Goto, nvars, locks
  <2>4. CASE WaitSched(t)
    BY <1>0, <2>4, Distinct, Zenon DEF SignalInv, TimerInv, Cancel, WaitSched, Goto, nvars, tvars
  <2>5. CASE Run(t)
    BY <1>0, <2>5, Distinct, Zenon DEF SignalInv, TimerInv, Cancel, Run, Goto, nvars, locks
  <2>6. QED
    BY <1>1, <2>1, <2>2, <2>3, <2>4, <2>5, Zenon DEF WaiterStep
<1>2. ASSUME NEW c \in Cpus, TimerStep(c) \/ TimerIrq(c) \/ \E t \in Waiters : TimerNext(c, t)
      PROVE  Goal
  <2>1. CASE TimerCb(c)
    <3> DEFINE n == dqOff[target[c]]
    <3>1. target[c] \in Waiters
      BY <1>0, <2>1, Zenon DEF TimerInv, TimerCb
    <3>2. node' = node \/ (n \in Nodes /\ node' = [node EXCEPT ![n].cancelled = TRUE])
      BY <1>0, <2>1, <3>1, Zenon DEF TimerCb, Cancel
    <3>3. dqOff' \in [Waiters -> Nodes \cup {NoNode}] /\ UNCHANGED undelivered
      BY <1>0, <2>1, <3>1, Zenon DEF TimerCb
    <3> HIDE DEF n
    <3>4. node' \in [Nodes -> [thread : Waiters \cup {NoOne}, cancelled : BOOLEAN]]
      BY <1>0, <3>2, Zenon
    <3>5. QED
      BY <1>0, <3>3, <3>4, Zenon
  <2>2. CASE TimerQueue(c)
    BY <1>0, <2>2, Distinct, Zenon DEF SignalInv, TimerInv, Cancel, TimerQueue, Goto, nvars
  <2>3. CASE TimerDone(c)
    BY <1>0, <2>3, Distinct, Zenon DEF SignalInv, TimerInv, Cancel, TimerDone, Goto, nvars
  <2>4. CASE TimerEnd(c)
    BY <1>0, <2>4, Distinct, Zenon DEF SignalInv, TimerInv, Cancel, TimerEnd, Goto, nvars, tvars
  <2>5. CASE TimerIrq(c)
    BY <1>0, <2>5, Distinct, Zenon DEF SignalInv, TimerInv, Cancel, TimerIrq, Goto, nvars, tvars
  <2>6. ASSUME NEW t \in Waiters, TimerNext(c, t)
        PROVE  Goal
    BY <1>0, <2>6, Distinct, Zenon DEF SignalInv, TimerInv, Cancel, TimerNext, Goto, nvars, tvars, locks
  <2>7. QED
    BY <1>2, <2>1, <2>2, <2>3, <2>4, <2>5, <2>6, Zenon DEF TimerStep
<1>3. ASSUME NEW s \in Signallers, SignalStep(s) \/ SignalLock(s)
      PROVE  Goal
  <2>1. CASE SignalLock(s)
    BY <1>0, <2>1, Distinct DEF SignalInv, TimerInv, Cancel, SignalLock, Goto, tvars
  <2>2. CASE SignalQueue(s)
    BY <1>0, <2>2, Distinct, Zenon DEF SignalInv, TimerInv, Cancel, SignalQueue, SignalGiveUp, Goto, nvars, tvars
  <2>3. CASE SignalWake(s)
    BY <1>0, <2>3, Distinct, Zenon DEF SignalInv, TimerInv, Cancel, SignalWake, SignalGiveUp, Wake, Goto, nvars
  <2>4. QED
    BY <1>3, <2>1, <2>2, <2>3, Zenon DEF SignalStep
<1>4. CASE Deinit
  BY <1>0, <1>4, Zenon DEF SignalInv, TimerInv, Cancel, Deinit, tvars, locks
<1>5. CASE UNCHANGED vars
  BY <1>0, <1>5, Zenon DEF SignalInv, TimerInv, Cancel, vars, nvars, tvars, locks
<1>6. QED
  <2>1. Timed \subseteq Waiters
    BY WaitersAssumption, Zenon
  <2>2. QED
    BY <2>1, <1>1, <1>2, <1>3, <1>4, <1>5, Zenon DEF Next

\* The types through every step.
LEMMA TypeKept ==
  ASSUME IInv, [Next]_vars
  PROVE  TypeOK'
BY QueueStep, LiveStep, TimerKept, FlagsKept, LocksKept, ThreadsKept, NodesKept, Zenon DEF TypeOK

\* The invariant holds at first.
LEMMA InitInv == Init => IInv
<1> SUFFICES ASSUME Init PROVE IInv
  BY Zenon
<1>1. NNodes \in Nat /\ NNodes >= 1 /\ MaxUndelivered \in Nat /\ MaxWaits \in Nat
      /\ Cardinality(Waiters) \in Nat
  BY PoolAssumption, BoundsAssumption, ActorsAssumption, FS_CardinalityType
<1>2. queue = <<1>> /\ queue \in Seq(Nodes) /\ Len(queue) = 1 /\ queue[1] = 1
  BY <1>1 DEF Init, Nodes
<1>3. pool \in Seq(Nodes) /\ Len(pool) = NNodes - 1 /\ \A i \in 1 .. Len(pool) : pool[i] = i + 1
  BY <1>1 DEF Init, Nodes
<1>4. QueueInv
  <2>1. Once(queue)
    BY <1>2 DEF Once
  <2>2. Once(pool)
    BY <1>1, <1>3 DEF Once
  <2>3. Apart(queue, pool)
    BY <1>1, <1>2, <1>3 DEF Apart
  <2>4. QED
    BY <1>2, <2>1, <2>2, <2>3 DEF QueueInv, Init
<1>5. LiveNodes = {}
  BY <1>2 DEF LiveNodes, Live
<1>6. LiveInv /\ CountInv
  BY <1>5, FS_EmptySet DEF LiveInv, CountInv, Init
<1>7. TypeOK /\ pc \in [Actors -> Labels]
  <2>1. /\ valid \in BOOLEAN /\ pending \in [Waiters -> BOOLEAN] /\ cb \in [Waiters -> BOOLEAN]
        /\ exited \in [Waiters -> BOOLEAN] /\ timed \in [Waiters -> BOOLEAN]
    BY Zenon DEF Init
  <2>2. node \in [Nodes -> [thread : Waiters \cup {NoOne}, cancelled : BOOLEAN]]
    BY Zenon DEF Init
  <2>3. pc \in [Actors -> Labels]
    BY Zenon DEF Init, Labels
  <2>4. QED
    BY <1>1, <1>2, <1>3, <2>1, <2>2, <2>3 DEF TypeOK, Init
<1>8. WaiterInv /\ SignalInv /\ TimerInv
  BY Distinct, Zenon DEF WaiterInv, SignalInv, TimerInv, Init
<1>9. QED
  BY <1>4, <1>6, <1>7, <1>8, Zenon DEF IInv

\* It holds in every reachable state.
LEMMA Invariant == Spec => []IInv
<1>1. Init => IInv
  BY InitInv, Zenon
<1>2. IInv /\ [Next]_vars => IInv'
  BY QueueStep, LiveStep, WaiterKept, SignalKept, TimerKept, TypeKept, Zenon DEF IInv
<1>3. QED
  BY <1>1, <1>2, PTL DEF Spec

\* The state of a notification stays in its type: no waiter is counted that is not
\* one, and signal counts, nodes and holders of locks stay in range.
THEOREM NotificationTypeSafe == Spec => []TypeOK
<1>1. IInv => TypeOK
  BY Zenon DEF IInv
<1>2. QED
  BY <1>1, Invariant, PTL

\* A waiter is put in a ready queue only while it is off the CPU and in none, whatever
\* order its timer and the signals come in.
THEOREM WokenOnce == Spec => []AwokenOnce
<1>1. IInv => AwokenOnce
  BY DEF IInv, WaiterInv, AwokenOnce
<1>2. QED
  BY <1>1, Invariant, PTL

\* A signal that sees a waiter counted finds one in the queue: sys_notify never comes
\* back from thread_dq_dequeue with nobody to wake.
THEOREM SignalFindsWaiter == Spec => []CountedAreQueued
<1>1. IInv => CountedAreQueued
  <2> SUFFICES ASSUME IInv PROVE CountedAreQueued
    BY Zenon
  <2>1. queue \in Seq(Nodes) /\ QueueInv /\ LiveInv /\ CountInv
    BY Zenon DEF IInv, TypeOK
  <2>2. \A n \in LiveNodes : node[n].thread \in Waiters
    BY <2>1, Zenon DEF LiveInv
  <2>3. Cardinality(LiveNodes) = Cardinality(Live)
    BY <2>1, <2>2, LiveCount, Zenon
  <2>4. QED
    BY <2>1, <2>3, Zenon DEF CountInv, CountedAreQueued
<1>2. QED
  BY <1>1, Invariant, PTL
=============================================================================
