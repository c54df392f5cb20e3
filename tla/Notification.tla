---------------------------- MODULE Notification ----------------------------
(***************************************************************************)
(* A notification object: threads that wait for it with or without a       *)
(* timeout, threads that signal it, and the timer interrupts that end      *)
(* waits (kernel/ipc/notification.c, kernel/irq/timer.c).                  *)
(*                                                                         *)
(* Three locks meet here: notifc_lock, the queue_lock of a thread and the  *)
(* sleep_list_lock of a CPU.  A waiter takes them in this order, the timer *)
(* in the reverse order, and a signal only tries the last two.  Every      *)
(* acquisition that can wait, and every try_lock, is an action.            *)
(*                                                                         *)
(* The waiting list is a durable queue (kernel/mm/shm.c) that is only used *)
(* under notifc_lock: a sequence of pool nodes whose first is the sentinel.*)
(***************************************************************************)
EXTENDS Naturals, Sequences, FiniteSets

CONSTANTS
  Waiters,        \* threads that call sys_wait
  Timed,          \* those of them that use timeouts
  Signallers,     \* threads that call sys_notify
  Cpus, CpuOf,    \* the CPU of each waiter; its timer ends the wait
  NNodes,         \* THREAD_DQ_POOL_SIZE - 1, the nodes thread_dq_pool_init frees
  NoOne, NoNode,
  MaxUndelivered, \* bound: not_delivered_notifc_count
  MaxWaits        \* bound: blocking waits per thread

ASSUME WaitersAssumption == CpuOf \in [Waiters -> Cpus] /\ Timed \subseteq Waiters
ASSUME PoolAssumption == NNodes \in Nat \ {0} /\ NoNode \notin 1 .. NNodes
ASSUME ActorsAssumption ==
  /\ IsFiniteSet(Waiters)
  /\ Waiters \cap Signallers = {} /\ Waiters \cap Cpus = {} /\ Signallers \cap Cpus = {}
  /\ NoOne \notin Waiters \cup Signallers \cup Cpus
ASSUME BoundsAssumption == MaxUndelivered \in Nat /\ MaxWaits \in Nat

VARIABLES
  valid,       \* state # NOTIFIC_INVALID
  undelivered, \* not_delivered_notifc_count
  count,       \* waiting_threads_count
  queue,       \* waiting_threads: the nodes from q->head on
  node,        \* per node: [thread, cancelled]
  pool,        \* the free list of nodes, a stack
  notifcLock, queueLock, sleepLock,   \* holders
  sleepers,    \* per CPU: the threads on its sleep_list
  ts,          \* per waiter: thread_ctx->state
  ready,       \* per waiter: its entries in ready queues
  dqOff,       \* per waiter: notif_dq_node_off
  pending,     \* per waiter: sleep_state.pending_notific is set
  cb,          \* per waiter: sleep_state.cb is set
  exited,      \* per waiter: thread_exit_state = TE_EXITED
  waits,       \* per waiter: blocking waits so far
  pc, target, timed   \* locals

Nodes == 1 .. NNodes
Actors == Waiters \cup Signallers \cup Cpus

nvars == <<valid, undelivered, count, queue, node, pool>>
tvars == <<ts, ready, dqOff, pending, cb, exited>>
locks == <<notifcLock, queueLock, sleepLock>>
vars == <<nvars, tvars, locks, sleepers, waits, pc, target, timed>>

Goto(a, l) == pc' = [pc EXCEPT ![a] = l]

\* init_notific: the sentinel is the first node of the pool.
Init ==
  /\ valid = TRUE /\ undelivered = 0 /\ count = 0
  /\ queue = <<1>>
  /\ pool = [i \in 1 .. NNodes - 1 |-> i + 1]
  /\ node = [i \in Nodes |-> [thread |-> NoOne, cancelled |-> FALSE]]
  /\ notifcLock = NoOne
  /\ queueLock = [t \in Waiters |-> NoOne]
  /\ sleepLock = [c \in Cpus |-> NoOne]
  /\ sleepers = [c \in Cpus |-> {}]
  /\ ts = [t \in Waiters |-> "running"]
  /\ ready = [t \in Waiters |-> 0]
  /\ dqOff = [t \in Waiters |-> NoNode]
  /\ pending = [t \in Waiters |-> FALSE]
  /\ cb = [t \in Waiters |-> FALSE]
  /\ exited = [t \in Waiters |-> FALSE]
  /\ waits = [t \in Waiters |-> 0]
  /\ pc = [a \in Actors |-> "idle"]
  /\ target = [a \in Actors |-> NoOne]
  /\ timed = [t \in Waiters |-> FALSE]

\* The kernel runs with interrupts off: a CPU is either in a system call of
\* one of its threads or in its timer interrupt.
CpuFree(c) == pc[c] = "idle" /\ \A t \in Waiters : CpuOf[t] = c => pc[t] \in {"idle", "blocked"}

(***************************************************************************)
(* sys_wait, blocking.                                                     *)
(***************************************************************************)

\* lock(notifc_lock), then the early returns: an invalid notification, or a
\* signal that came before.
WaitLock(t, timeout) ==
  /\ pc[t] = "idle" /\ ~exited[t] /\ CpuFree(CpuOf[t])
  /\ notifcLock = NoOne /\ valid
  /\ IF undelivered > 0
     THEN undelivered' = undelivered - 1 /\ UNCHANGED <<notifcLock, waits, pc, timed>>
     ELSE /\ waits[t] < MaxWaits
          /\ waits' = [waits EXCEPT ![t] = @ + 1]
          /\ timed' = [timed EXCEPT ![t] = timeout]
          /\ notifcLock' = t
          /\ Goto(t, "wait_queue")
          /\ UNCHANGED undelivered
  /\ UNCHANGED <<valid, count, queue, node, pool, tvars, queueLock, sleepLock, sleepers, target>>

\* lock(queue_lock); thread_dq_enqueue, which spins while the pool is empty.
WaitEnqueue(t) ==
  LET n == Head(pool) IN
  /\ pc[t] = "wait_queue" /\ queueLock[t] = NoOne /\ pool # << >>
  /\ queueLock' = [queueLock EXCEPT ![t] = t]
  /\ pool' = Tail(pool)
  /\ node' = [node EXCEPT ![n] = [thread |-> t, cancelled |-> FALSE]]
  /\ queue' = Append(queue, n)
  /\ dqOff' = [dqOff EXCEPT ![t] = n]
  /\ ts' = [ts EXCEPT ![t] = "waiting"]
  /\ count' = count + 1
  /\ pending' = [pending EXCEPT ![t] = @ \/ timed[t]]
  /\ Goto(t, IF timed[t] THEN "wait_sleep" ELSE "wait_sched")
  /\ UNCHANGED <<valid, undelivered, ready, cb, exited, notifcLock, sleepLock, sleepers, waits, target, timed>>

\* enqueue_sleeper, under the sleep_list_lock of this CPU
WaitSleep(t) ==
  LET c == CpuOf[t] IN
  /\ pc[t] = "wait_sleep" /\ sleepLock[c] = NoOne
  /\ sleepers' = [sleepers EXCEPT ![c] = @ \cup {t}]
  /\ cb' = [cb EXCEPT ![t] = TRUE]
  /\ Goto(t, "wait_sched")
  /\ UNCHANGED <<nvars, ts, ready, dqOff, pending, exited, locks, waits, target, timed>>

\* sched(); unlock(queue_lock); unlock(notifc_lock); switch away
WaitSched(t) ==
  /\ pc[t] = "wait_sched"
  /\ queueLock' = [queueLock EXCEPT ![t] = NoOne]
  /\ notifcLock' = NoOne
  /\ Goto(t, "blocked")
  /\ UNCHANGED <<nvars, tvars, sleepLock, sleepers, waits, target, timed>>

\* The scheduler picks a woken thread from a ready queue.
Run(t) ==
  /\ pc[t] = "blocked" /\ ready[t] > 0 /\ CpuFree(CpuOf[t])
  /\ ready' = [ready EXCEPT ![t] = @ - 1]
  /\ ts' = [ts EXCEPT ![t] = "running"]
  /\ timed' = [timed EXCEPT ![t] = FALSE]
  /\ Goto(t, "idle")
  /\ UNCHANGED <<nvars, dqOff, pending, cb, exited, locks, sleepers, waits, target>>

(***************************************************************************)
(* handle_timer_irq and notific_timer_cb.                                  *)
(***************************************************************************)

TimerIrq(c) ==
  /\ CpuFree(c) /\ sleepers[c] # {} /\ sleepLock[c] = NoOne
  /\ sleepLock' = [sleepLock EXCEPT ![c] = c]
  /\ Goto(c, "timer_scan")
  /\ UNCHANGED <<nvars, tvars, notifcLock, queueLock, sleepers, waits, target, timed>>

\* The next sleeper whose time has come ...
TimerNext(c, t) ==
  /\ pc[c] = "timer_scan" /\ t \in sleepers[c]
  /\ target' = [target EXCEPT ![c] = t]
  /\ Goto(c, "timer_queue")
  /\ UNCHANGED <<nvars, tvars, locks, sleepers, waits, timed>>

\* ... or none is left.
TimerEnd(c) ==
  /\ pc[c] = "timer_scan"
  /\ sleepLock' = [sleepLock EXCEPT ![c] = NoOne]
  /\ target' = [target EXCEPT ![c] = NoOne]
  /\ Goto(c, "idle")
  /\ UNCHANGED <<nvars, tvars, notifcLock, queueLock, sleepers, waits, timed>>

\* lock(queue_lock); list_del; BUG_ON(cb == NULL); the callback reads and
\* clears pending_notific
TimerQueue(c) ==
  LET t == target[c] IN
  /\ pc[c] = "timer_queue" /\ queueLock[t] = NoOne
  /\ queueLock' = [queueLock EXCEPT ![t] = c]
  /\ sleepers' = [sleepers EXCEPT ![c] = @ \ {t}]
  /\ pending' = [pending EXCEPT ![t] = FALSE]
  /\ Goto(c, IF cb[t] /\ pending[t] THEN "timer_notifc" ELSE "bug")
  /\ UNCHANGED <<nvars, ts, ready, dqOff, cb, exited, notifcLock, sleepLock, waits, target, timed>>

\* Mutant of Wake: the thread is marked ready but not queued.
WakeWithoutQueue(t) ==
  /\ ts' = [ts EXCEPT ![t] = "ready"]
  /\ UNCHANGED ready

\* rr_sched_enqueue_to_affinity of a woken thread
Wake(t) ==
  /\ ts' = [ts EXCEPT ![t] = "ready"]
  /\ ready' = [ready EXCEPT ![t] = @ + 1]

\* Mutant of Cancel: the node of a thread that timed out stays in the queue.
CancelForgotten(t) == UNCHANGED node

\* thread_dq_cancel_node(notif_dq_node_off)
Cancel(t) ==
  node' = IF dqOff[t] = NoNode THEN node ELSE [node EXCEPT ![dqOff[t]].cancelled = TRUE]

\* Mutant of Uncount: the waiter that timed out stays counted.
UncountForgotten == UNCHANGED count

\* waiting_threads_count--
Uncount == count' = count - 1

\* lock(notifc_lock) in the callback.  A destroyed notification ends the
\* thread; a thread that is no longer waiting was signalled; otherwise its node
\* is cancelled and it is woken, unless BUG_ON(waiting_threads_count <= 0)
\* fires: then the CPU spins with its three locks.
TimerCb(c) ==
  LET t == target[c]
      expire == valid /\ ts[t] = "waiting"
  IN
  /\ pc[c] = "timer_notifc" /\ notifcLock = NoOne
  /\ exited' = IF valid THEN exited ELSE [exited EXCEPT ![t] = TRUE]
  /\ IF expire
     THEN Cancel(t) /\ dqOff' = [dqOff EXCEPT ![t] = NoNode]
     ELSE UNCHANGED <<node, dqOff>>
  /\ IF expire /\ count = 0
     THEN notifcLock' = c /\ Goto(c, "bug")
     ELSE UNCHANGED notifcLock /\ Goto(c, "timer_done")
  /\ IF expire /\ count > 0
     THEN Uncount /\ Wake(t)
     ELSE UNCHANGED <<count, ts, ready>>
  /\ UNCHANGED <<valid, undelivered, queue, pool, pending, cb, queueLock, sleepLock,
                 sleepers, waits, target, timed>>

\* cb = NULL; unlock(queue_lock)
TimerDone(c) ==
  /\ pc[c] = "timer_done"
  /\ cb' = [cb EXCEPT ![target[c]] = FALSE]
  /\ queueLock' = [queueLock EXCEPT ![target[c]] = NoOne]
  /\ target' = [target EXCEPT ![c] = NoOne]
  /\ Goto(c, "timer_scan")
  /\ UNCHANGED <<nvars, ts, ready, dqOff, pending, exited, notifcLock, sleepLock, sleepers, waits, timed>>

(***************************************************************************)
(* sys_notify.                                                             *)
(***************************************************************************)

Live == {i \in 2 .. Len(queue) : ~node[queue[i]].cancelled}

\* thread_dq_dequeue: cancelled nodes are skipped, the node of the thread
\* becomes the sentinel and the ones before it go back to the pool.
Dequeue ==
  LET k == IF Live = {} THEN Len(queue) ELSE CHOOSE i \in Live : \A j \in Live : i <= j IN
  /\ queue' = SubSeq(queue, k, Len(queue))
  /\ pool' = [i \in 1 .. k - 1 |-> queue[k - i]] \o pool

\* lock(notifc_lock); remember the signal, or take the first waiter.
SignalLock(s) ==
  /\ pc[s] = "idle" /\ notifcLock = NoOne /\ valid
  /\ IF undelivered > 0 \/ count = 0
     THEN /\ undelivered < MaxUndelivered
          /\ undelivered' = undelivered + 1
          /\ UNCHANGED <<count, queue, pool, notifcLock, target, pc>>
     ELSE /\ Dequeue
          /\ IF Live = {}
             THEN UNCHANGED <<count, notifcLock, target, pc>>
             ELSE /\ count' = count - 1
                  /\ target' = [target EXCEPT ![s] = node[queue'[1]].thread]
                  /\ notifcLock' = s
                  /\ Goto(s, "signal_queue")
          /\ UNCHANGED undelivered
  /\ UNCHANGED <<valid, node, tvars, queueLock, sleepLock, sleepers, waits, timed>>

\* -EAGAIN: the library calls again.
SignalGiveUp(s) ==
  /\ notifcLock' = NoOne
  /\ target' = [target EXCEPT ![s] = NoOne]
  /\ Goto(s, "idle")

\* Mutant of SignalQueue: wait for the queue_lock.
SignalQueueWaits(s) ==
  /\ pc[s] = "signal_queue" /\ queueLock[target[s]] = NoOne
  /\ queueLock' = [queueLock EXCEPT ![target[s]] = s]
  /\ Goto(s, "signal_wake")
  /\ UNCHANGED <<nvars, tvars, notifcLock, sleepLock, target, sleepers, waits, timed>>

\* try_lock(queue_lock)
SignalQueue(s) ==
  /\ pc[s] = "signal_queue"
  /\ IF queueLock[target[s]] = NoOne
     THEN /\ queueLock' = [queueLock EXCEPT ![target[s]] = s]
          /\ Goto(s, "signal_wake")
          /\ UNCHANGED <<notifcLock, target>>
     ELSE SignalGiveUp(s) /\ UNCHANGED queueLock
  /\ UNCHANGED <<nvars, tvars, sleepLock, sleepers, waits, timed>>

\* try_dequeue_sleeper for a thread with a timeout, then wake it.
SignalWake(s) ==
  LET t == target[s]
      c == CpuOf[t]
  IN
  /\ pc[s] = "signal_wake"
  /\ queueLock' = [queueLock EXCEPT ![t] = NoOne]
  /\ SignalGiveUp(s)
  /\ IF cb[t] /\ sleepLock[c] # NoOne
     THEN UNCHANGED <<sleepers, cb, dqOff, ts, ready>>
     ELSE /\ sleepers' = [sleepers EXCEPT ![c] = @ \ {t}]
          /\ cb' = [cb EXCEPT ![t] = FALSE]
          /\ dqOff' = [dqOff EXCEPT ![t] = NoNode]
          /\ Wake(t)
  /\ UNCHANGED <<nvars, pending, exited, sleepLock, waits, timed>>

\* deinit_notific: invalidate, and give every node back to the pool.
Deinit ==
  /\ valid /\ notifcLock = NoOne
  /\ valid' = FALSE
  /\ queue' = << >>
  /\ pool' = [i \in 1 .. Len(queue) |-> queue[Len(queue) + 1 - i]] \o pool
  /\ UNCHANGED <<undelivered, count, node, tvars, locks, sleepers, waits, pc, target, timed>>

-----------------------------------------------------------------------------
WaiterStep(t) == WaitEnqueue(t) \/ WaitSleep(t) \/ WaitSched(t) \/ Run(t)
TimerStep(c) == TimerEnd(c) \/ TimerQueue(c) \/ TimerCb(c) \/ TimerDone(c)
SignalStep(s) == SignalQueue(s) \/ SignalWake(s)

Next ==
  \/ \E t \in Waiters : WaiterStep(t) \/ WaitLock(t, FALSE)
  \/ \E t \in Timed : WaitLock(t, TRUE)
  \/ \E c \in Cpus : TimerStep(c) \/ TimerIrq(c) \/ \E t \in Waiters : TimerNext(c, t)
  \/ \E s \in Signallers : SignalStep(s) \/ SignalLock(s)
  \/ Deinit

Spec == Init /\ [][Next]_vars

\* A CPU inside the kernel keeps running and its lock calls are served in
\* turn (the locks are ticket locks); timer interrupts keep coming, and the
\* time of every sleeper comes.
FairSpec ==
  /\ Spec
  /\ \A t \in Waiters : SF_vars(WaiterStep(t))
  /\ \A s \in Signallers : WF_vars(SignalStep(s))
  /\ \A t \in Timed : /\ SF_vars(TimerStep(CpuOf[t]) \/ TimerIrq(CpuOf[t]))
                      /\ SF_vars(TimerNext(CpuOf[t], t))

-----------------------------------------------------------------------------
\* The type of the state.
TypeOK ==
  /\ valid \in BOOLEAN
  /\ undelivered \in 0 .. MaxUndelivered /\ count \in 0 .. Cardinality(Waiters)
  /\ queue \in Seq(Nodes) /\ pool \in Seq(Nodes)
  /\ node \in [Nodes -> [thread : Waiters \cup {NoOne}, cancelled : BOOLEAN]]
  /\ notifcLock \in Actors \cup {NoOne}
  /\ queueLock \in [Waiters -> Actors \cup {NoOne}]
  /\ sleepLock \in [Cpus -> Cpus \cup {NoOne}]
  /\ sleepers \in [Cpus -> SUBSET Waiters]
  /\ ts \in [Waiters -> {"running", "waiting", "ready"}]
  /\ ready \in [Waiters -> Nat]
  /\ dqOff \in [Waiters -> Nodes \cup {NoNode}]
  /\ pending \in [Waiters -> BOOLEAN] /\ cb \in [Waiters -> BOOLEAN]
  /\ exited \in [Waiters -> BOOLEAN] /\ timed \in [Waiters -> BOOLEAN]
  /\ waits \in [Waiters -> 0 .. MaxWaits]
  /\ target \in [Actors -> Waiters \cup {NoOne}]

\* "We guarantee that a thread is not awoken for twice": a thread is put in a
\* ready queue only while it is off the CPU and in none.
AwokenOnce ==
  \A t \in Waiters : ready[t] > 0 => ready[t] = 1 /\ pc[t] = "blocked" /\ ts[t] = "ready"

\* A signal that sees a waiter counted gets one from the queue: the count never
\* exceeds the waiters that are really queued, so thread_dq_dequeue finds one.
CountedAreQueued == valid => count <= Cardinality(Live)

\* A CPU stopped in a BUG_ON.
Failed == \E c \in Cpus : pc[c] = "bug"

\* BUG_ON(notifc->waiting_threads_count <= 0) in notific_timer_cb, and the
\* BUG_ONs of handle_timer_irq, never fire.
NoAssertionFails == ~Failed

\* The three locks never lock each other out, although the timer takes them in
\* the order opposite to a waiter.
LocksAreReleased ==
  /\ notifcLock # NoOne ~> (notifcLock = NoOne \/ Failed)
  /\ \A c \in Cpus : sleepLock[c] # NoOne ~> (sleepLock[c] = NoOne \/ Failed)

\* A wait with a timeout ends, whatever signals race with the timer: by a
\* wake-up, or with the destroyed notification.
TimedWaitEnds ==
  \A t \in Waiters : (pc[t] = "blocked" /\ timed[t]) ~> (pc[t] # "blocked" \/ exited[t] \/ Failed)
=============================================================================
