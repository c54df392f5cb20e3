------------------------------- MODULE Sched -------------------------------
(***************************************************************************)
(* The round-robin scheduler of a cluster of machines that share memory    *)
(* (kernel/sched/policy_rr.c, kernel/sched/sched.c), with the lazy FPU     *)
(* switching it depends on (kernel/arch/x86_64/sched/extended_state.c).    *)
(*                                                                         *)
(* A CPU has a ready queue, which only CPUs of its machine use, and a      *)
(* shared queue through which other machines hand it threads.  It enters   *)
(* rr_sched from an interrupt or a system call of its current thread,      *)
(* deals with that thread, drains its shared queue, picks a thread,        *)
(* switches to it, and only when it returns to user mode (finish_switch)   *)
(* declares the thread it left free to run elsewhere.  Each of these is a  *)
(* step of its own; what is done under one queue lock is one step.         *)
(***************************************************************************)
EXTENDS Naturals, Sequences

CONSTANTS
  NumMachines,
  PlatCpuNum,     \* CPUs of a machine
  Threads,
  Group,          \* the cap group of each thread
  Home,           \* the machine that creates it
  FpuUsers,       \* threads that use the FPU
  Migrants,       \* threads that call usys_set_affinity(-2, aff) to change machines
  FarBound,       \* threads that are bound by capability to CPUs of other machines
  Yields,         \* threads that yield right after usys_set_affinity(-2, aff)
  Targets,        \* bound: the CPUs that threads are bound to
  FarSignalled,   \* threads whose notification other machines signal
  Idle,           \* the idle thread of a CPU, which is in no queue; also NULL
  NoAff,          \* NO_AFF
  NoCpu           \* -1 in is_fpu_owner

Machines == 0 .. NumMachines - 1
\* A global CPU id is low(machine) + the local id: the pair of both.
CPUs == Machines \X (0 .. PlatCpuNum - 1)

ASSUME SizesAssumption == NumMachines \in Nat /\ PlatCpuNum \in Nat \ {0}
ASSUME NamesAssumption ==
  /\ Idle \notin Threads
  /\ Home \in [Threads -> Machines] /\ Targets \subseteq CPUs
  /\ NoAff \notin CPUs /\ NoCpu \notin 0 .. PlatCpuNum - 1

VARIABLES
  \* per CPU
  pc,        \* in user mode, or the step of the scheduler it is at
  current,   \* current_thread
  chosen,    \* the local new of rr_sched
  prev,      \* current_thread->prev_thread; Idle also stands for THREAD_ITSELF
  ready,     \* rr_ready_queue_meta
  shared,    \* rr_shared_queue
  fpuOwner,  \* cpu_info[].fpu_owner
  \* per thread, in its thread_ctx
  state, exit, kstack, affinity, cpuid,
  machine,   \* thread->machine_id
  ownedFpu,  \* is_fpu_owner: the LOCAL id of a CPU
  fpuSaved,  \* fpu_state in memory is what the thread's registers last held
  waiting    \* the threads in the waiting queue of their notification

cpuVars == <<current, chosen, prev>>
queues == <<ready, shared>>
fpuVars == <<fpuOwner, ownedFpu, fpuSaved>>
places == <<affinity, cpuid, machine>>
vars == <<pc, cpuVars, queues, fpuVars, places, state, exit, kstack, waiting>>

Goto(c, l) == pc' = [pc EXCEPT ![c] = l]

\* is_local_cpu(aff), evaluated on CPU c.
IsLocal(c, aff) == IF aff = NoAff THEN TRUE ELSE aff[1] = c[1]

\* rr_sched_choose_cpu: the lengths are read one after the other with no lock.
ChooseCpu(c) ==
  IF ready[c] = <<>>
  THEN {c}
  ELSE {c} \cup {d \in CPUs : IsLocal(c, d) /\ Len(ready[d]) < Len(ready[c])}

\* sched_init; thread_init for the threads that are going to be created.
Init ==
  /\ pc = [c \in CPUs |-> "user"]
  /\ current = [c \in CPUs |-> Idle]
  /\ chosen = [c \in CPUs |-> Idle]
  /\ prev = [c \in CPUs |-> Idle]
  /\ ready = [c \in CPUs |-> <<>>]
  /\ shared = [c \in CPUs |-> <<>>]
  /\ fpuOwner = [c \in CPUs |-> Idle]
  /\ state = [t \in Threads |-> "INIT"]
  /\ exit = [t \in Threads |-> "RUNNING"]
  /\ kstack = [t \in Threads |-> "FREE"]
  /\ affinity = [t \in Threads |-> NoAff]
  /\ cpuid = [t \in Threads |-> <<Home[t], 0>>]
  /\ machine = Home
  /\ ownedFpu = [t \in Threads |-> NoCpu]
  /\ fpuSaved = [t \in Threads |-> TRUE]
  /\ waiting = {}

-----------------------------------------------------------------------------
(* Putting a thread into a queue                                           *)

\* get_cpubind, evaluated on CPU c.  is_fpu_owner is compared with the local id
\* of c, whichever machine it was recorded on, and affinity == local_cpuid
\* compares a global id with a local one: equal only on machine 0.
OwnsHere(c, t) == IsLocal(c, affinity[t]) /\ ownedFpu[t] = c[2]
GivesFpuUp(c, t) == OwnsHere(c, t) /\ affinity[t] \notin {NoAff, <<0, c[2]>>}

CpuBind(c, t) ==
  IF ~IsLocal(c, affinity[t]) \/ ownedFpu[t] = NoCpu \/ GivesFpuUp(c, t)
  THEN affinity[t]
  ELSE <<c[1], ownedFpu[t]>>

\* Mutant: the registers are not stored before the FPU is given up.
ReleaseFpuUnsaved(c, t) ==
  IF fpuOwner[c] = t
  THEN /\ ownedFpu' = [ownedFpu EXCEPT ![t] = NoCpu]
       /\ fpuOwner' = [fpuOwner EXCEPT ![c] = Idle]
       /\ UNCHANGED fpuSaved
  ELSE UNCHANGED fpuVars

\* save_and_release_fpu on CPU c; save_fpu_state stores the registers only for a
\* thread that is TE_RUNNING.
SaveAndReleaseFpu(c, t) ==
  IF fpuOwner[c] = t
  THEN /\ fpuSaved' = [fpuSaved EXCEPT ![t] = @ \/ exit[t] = "RUNNING"]
       /\ ownedFpu' = [ownedFpu EXCEPT ![t] = NoCpu]
       /\ fpuOwner' = [fpuOwner EXCEPT ![c] = Idle]
  ELSE UNCHANGED fpuVars

\* The part of get_cpubind that changes state.
Bind(c, t) == IF GivesFpuUp(c, t) THEN SaveAndReleaseFpu(c, t) ELSE UNCHANGED fpuVars

\* __rr_sched_enqueue: the end of the ready queue of CPU g.
PutReady(t, g) ==
  /\ ready' = [ready EXCEPT ![g] = Append(@, t)]
  /\ state' = [state EXCEPT ![t] = "READY"]
  /\ cpuid' = [cpuid EXCEPT ![t] = g]
  /\ UNCHANGED shared

\* __rr_sched_enqueue_shared, by a thread that leaves the state st behind.
PutShared(t, g, st) ==
  /\ pc[g] # "urgent"     \* queue_lock
  /\ shared' = [shared EXCEPT ![g] = Append(@, t)]
  /\ state' = [state EXCEPT ![t] = st]
  /\ UNCHANGED <<ready, cpuid>>

\* rr_sched_enqueue(t) on CPU c, called with the state TO_SCHED.
Enqueue(c, t) ==
  \/ /\ exit[t] = "EXITING"
     /\ exit' = [exit EXCEPT ![t] = "EXITED"]
     /\ state' = [state EXCEPT ![t] = "TO_SCHED"]
     /\ UNCHANGED <<queues, cpuid, fpuVars>>
  \/ /\ exit[t] # "EXITING"
     /\ Bind(c, t)
     /\ LET bind == CpuBind(c, t)
        IN \E g \in IF bind = NoAff THEN ChooseCpu(c) ELSE {bind} :
             IF IsLocal(c, g) THEN PutReady(t, g) ELSE PutShared(t, g, "TO_SCHED")
     /\ UNCHANGED exit

\* Mutant: a thread with no affinity runs on the machine that wakes it.
EnqueueAnywhere(c, t) ==
  IF exit[t] = "EXITING" \/ IsLocal(c, CpuBind(c, t))
  THEN Enqueue(c, t)
  ELSE /\ PutShared(t, CpuBind(c, t), "READY")
       /\ Bind(c, t)
       /\ UNCHANGED exit

\* rr_sched_enqueue_to_affinity(t) on CPU c: a thread with no affinity goes back to
\* the CPU of its machine that it ran on last.
EnqueueToAffinity(c, t) ==
  LET aff == CpuBind(c, t)
      home == <<machine[t], cpuid[t][2]>>
  IN IF exit[t] = "EXITING" \/ (IsLocal(c, aff) /\ ~(aff = NoAff /\ machine[t] # c[1]))
     THEN Enqueue(c, t)
     ELSE /\ PutShared(t, IF aff = NoAff THEN home ELSE aff, "READY")
          /\ Bind(c, t)
          /\ UNCHANGED exit

-----------------------------------------------------------------------------
(* User mode                                                               *)

\* create_thread, by CPU c of the machine that is to own the thread.
Create(c, t) ==
  /\ pc[c] = "user"
  /\ state[t] = "INIT" /\ machine[t] = c[1]
  /\ Enqueue(c, t)
  /\ UNCHANGED <<pc, cpuVars, affinity, machine, kstack, waiting>>

\* A timer interrupt, a reschedule IPI or sys_yield: the scheduler runs.  On an
\* idle CPU with nothing queued it changes nothing.
Interrupt(c) ==
  /\ pc[c] = "user"
  /\ current[c] = Idle => ready[c] # <<>> \/ shared[c] # <<>>
  /\ Goto(c, "sched")
  /\ UNCHANGED <<cpuVars, queues, fpuVars, places, state, exit, kstack, waiting>>

\* A doorbell (MSI) of another machine: sched_force_reschedule drains the shared
\* queue to the front of the ready queue before the scheduler runs.
Doorbell(c) ==
  /\ pc[c] = "user" /\ shared[c] # <<>>
  /\ Goto(c, "urgent")
  /\ UNCHANGED <<cpuVars, queues, fpuVars, places, state, exit, kstack, waiting>>

\* Between usys_set_affinity(-2, aff) and its yield, a thread of Yields makes no
\* other system call.
Calls(c, t) ==
  /\ pc[c] = "user" /\ current[c] = t
  /\ t \in Yields => exit[t] # "MIGRATING"

\* sys_set_affinity(-2, aff): only a thread with no affinity may be moved, and a
\* CPU of another machine makes it a migrating thread, which still runs here.
SetAffinityGlobal(c, t, aff) ==
  /\ Calls(c, t)
  /\ affinity[t] = NoAff
  /\ IsLocal(c, aff) \/ t \in Migrants
  /\ affinity' = [affinity EXCEPT ![t] = aff]
  /\ IF IsLocal(c, aff)
     THEN UNCHANGED <<exit, kstack>>
     ELSE /\ exit' = [exit EXCEPT ![t] = "MIGRATING"]
          /\ kstack' = [kstack EXCEPT ![t] = "FREE"]
  /\ UNCHANGED <<pc, cpuVars, queues, fpuVars, cpuid, machine, state, waiting>>

\* sys_set_affinity of a thread of the caller's cap group, -1 naming the caller
\* and a CPU of its machine.  Nothing but the affinity changes.
SetAffinityOf(c, t, u, aff) ==
  /\ Calls(c, t)
  /\ Group[u] = Group[t]
  /\ IsLocal(c, aff) \/ u \in FarBound
  /\ affinity' = [affinity EXCEPT ![u] = aff]
  /\ UNCHANGED <<pc, cpuVars, queues, fpuVars, cpuid, machine, state, exit, kstack, waiting>>

\* change_fpu_owner, on the first use of the FPU since the switch to t.  A thread
\* bound to another machine is turned away and traps again.
UseFpu(c, t) ==
  /\ pc[c] = "user" /\ current[c] = t /\ t \in FpuUsers
  /\ IsLocal(c, affinity[t])
  /\ LET old == fpuOwner[c]
         left == IF old # t /\ old # Idle
                 THEN [fpuSaved EXCEPT ![old] = @ \/ exit[old] = "RUNNING"] ELSE fpuSaved
         gone == IF old # t /\ old # Idle THEN [ownedFpu EXCEPT ![old] = NoCpu] ELSE ownedFpu
     IN IF old = t \/ exit[t] = "RUNNING"
        THEN /\ fpuOwner' = [fpuOwner EXCEPT ![c] = t]
             /\ ownedFpu' = IF old = t THEN gone ELSE [gone EXCEPT ![t] = c[2]]
             /\ fpuSaved' = [left EXCEPT ![t] = FALSE]
        ELSE /\ ownedFpu' = gone /\ fpuSaved' = left
             /\ UNCHANGED fpuOwner
  /\ UNCHANGED <<pc, cpuVars, queues, places, state, exit, kstack, waiting>>

\* wait_notific_internal up to its sched(): the notification stays locked until
\* the CPU has switched to another thread.
Block(c, t) ==
  /\ Calls(c, t)
  /\ waiting' = waiting \cup {t}
  /\ state' = [state EXCEPT ![t] = "WAITING"]
  /\ Goto(c, "sched")
  /\ UNCHANGED <<cpuVars, queues, fpuVars, places, exit, kstack>>

\* Mutant: the notification is unlocked before the CPU has left the thread.
SignalEarly(c, t) ==
  /\ pc[c] = "user"
  /\ t \in waiting
  /\ t \in FarSignalled \/ machine[t] = c[1]
  /\ waiting' = waiting \ {t}
  /\ EnqueueToAffinity(c, t)
  /\ UNCHANGED <<pc, cpuVars, affinity, machine, kstack>>

\* signal_notific, by a thread or a timer interrupt on CPU c.
Signal(c, t) ==
  /\ pc[c] = "user"
  /\ t \in waiting
  /\ \A d \in CPUs : current[d] = t => pc[d] \in {"user", "eret"}   \* notifc_lock
  /\ t \in FarSignalled \/ machine[t] = c[1]
  /\ waiting' = waiting \ {t}
  /\ EnqueueToAffinity(c, t)
  /\ UNCHANGED <<pc, cpuVars, affinity, machine, kstack>>

\* sys_exit_group; sys_thread_exit is the case of a group of one.
ExitGroup(c, t) ==
  /\ Calls(c, t)
  /\ exit' = [u \in Threads |->
                IF u = t \/ (Group[u] = Group[t] /\ exit[u] = "RUNNING")
                THEN "EXITING" ELSE exit[u]]
  /\ Goto(c, "sched")
  /\ UNCHANGED <<cpuVars, queues, fpuVars, places, state, kstack, waiting>>

-----------------------------------------------------------------------------
(* The scheduler                                                           *)

InSched(c) == pc[c] = "sched" \/ (pc[c] = "urgent" /\ shared[c] = <<>>)

\* Mutant: a thread that waits is queued like one that is preempted.
PreemptWaiting(c, t) ==
  /\ InSched(c) /\ current[c] = t
  /\ exit[t] = "RUNNING" /\ state[t] \in {"RUNNING", "WAITING"}
  /\ Enqueue(c, t)
  /\ Goto(c, "pick")
  /\ UNCHANGED <<cpuVars, affinity, machine, kstack, waiting>>

\* rr_sched: the budget of one tick is used up, given up (sys_yield) or taken away
\* (sched_force_reschedule), and the thread goes to the end of a queue.
Preempt(c, t) ==
  /\ InSched(c) /\ current[c] = t
  /\ exit[t] = "RUNNING" /\ state[t] = "RUNNING"
  /\ Enqueue(c, t)
  /\ Goto(c, "pick")
  /\ UNCHANGED <<cpuVars, affinity, machine, kstack, waiting>>

\* The BUG_ONs on the old thread: TE_EXITED, a state in which no thread runs, or a
\* migrating thread that is bound to this machine.
BugInOld(c, t) ==
  \/ exit[t] = "EXITED"
  \/ exit[t] = "RUNNING" /\ state[t] \in {"READY", "TO_SCHED"}
  \/ exit[t] = "MIGRATING" /\ IsLocal(c, affinity[t])

\* The idle thread is in no queue, and a thread that waits needs none.
LeaveAside(c, t) ==
  /\ InSched(c) /\ current[c] = t
  /\ t # Idle => BugInOld(c, t) \/ (exit[t] = "RUNNING" /\ state[t] \in {"WAITING", "EXIT"})
  /\ Goto(c, IF t # Idle /\ BugInOld(c, t) THEN "bug" ELSE "pick")
  /\ UNCHANGED <<cpuVars, queues, fpuVars, places, state, exit, kstack, waiting>>

\* TE_EXITING: the thread is done.  Its queue_cpuid is NO_AFF: it is in no queue.
Retire(c, t) ==
  /\ InSched(c) /\ current[c] = t
  /\ exit[t] = "EXITING"
  /\ exit' = [exit EXCEPT ![t] = "EXITED"]
  /\ state' = [state EXCEPT ![t] = "EXIT"]
  /\ kstack' = [kstack EXCEPT ![t] = "FREE"]
  /\ Goto(c, "pick")
  /\ UNCHANGED <<cpuVars, queues, fpuVars, places, waiting>>

\* TE_MIGRATING: rr_sched_migrate_to_remote.  The thread is in the queue of its
\* new CPU while it is still current here.
Migrate(c, t) ==
  /\ InSched(c) /\ current[c] = t
  /\ exit[t] = "MIGRATING" /\ ~IsLocal(c, affinity[t])
  /\ IF ownedFpu[t] # NoCpu THEN SaveAndReleaseFpu(c, t) ELSE UNCHANGED fpuVars
  /\ PutShared(t, affinity[t], state[t])
  /\ Goto(c, "pick")
  /\ UNCHANGED <<cpuVars, affinity, machine, exit, kstack, waiting>>

\* Mutant: NO_AFF is taken for a CPU.
DrainToNoAff(c, t, front) ==
  /\ cpuid' = [cpuid EXCEPT ![t] = affinity[t]]
  /\ ready' = [ready EXCEPT ![c] = IF front THEN <<t>> \o @ ELSE Append(@, t)]
  /\ state' = [state EXCEPT ![t] = "READY"]
  /\ exit' = [exit EXCEPT ![t] = "RUNNING"]
  /\ kstack' = [kstack EXCEPT ![t] = "FREE"]
  /\ machine' = [machine EXCEPT ![t] = c[1]]
  /\ UNCHANGED pc

\* An iteration of the drain loop: thread t, out of the shared queue of c, becomes a
\* thread of this machine.  A CPU of another machine would be a wild index.
DrainTo(c, t, front) ==
  LET g == IF affinity[t] = NoAff THEN c ELSE affinity[t]
  IN IF IsLocal(c, g)
     THEN /\ ready' = [ready EXCEPT ![g] = IF front THEN <<t>> \o @ ELSE Append(@, t)]
          /\ state' = [state EXCEPT ![t] = "READY"]
          /\ exit' = [exit EXCEPT ![t] = "RUNNING"]
          /\ kstack' = [kstack EXCEPT ![t] = "FREE"]
          /\ machine' = [machine EXCEPT ![t] = c[1]]
          /\ cpuid' = [cpuid EXCEPT ![t] = g]
          /\ UNCHANGED pc
     ELSE /\ Goto(c, "bug")
          /\ UNCHANGED <<ready, state, exit, kstack, machine, cpuid>>

\* rr_sched_migrate_from_shared_queue
Drain(c) ==
  /\ pc[c] = "pick" /\ shared[c] # <<>>
  /\ DrainTo(c, Head(shared[c]), FALSE)
  /\ shared' = [shared EXCEPT ![c] = Tail(@)]
  /\ UNCHANGED <<cpuVars, fpuVars, affinity, waiting>>

\* rr_sched_migrate_from_shared_queue_urgent keeps the order of the batch it puts
\* at the front: here the last thread goes first.
DrainUrgent(c) ==
  /\ pc[c] = "urgent" /\ shared[c] # <<>>
  /\ LET n == Len(shared[c])
     IN /\ DrainTo(c, shared[c][n], TRUE)
        /\ shared' = [shared EXCEPT ![c] = SubSeq(@, 1, n - 1)]
  /\ UNCHANGED <<cpuVars, fpuVars, affinity, waiting>>

\* Mutant: kernel_stack_state is not looked at.
RunnableAtOnce(c, t) == exit[t] = "RUNNING"

\* find_runnable_thread: threads are skipped while another CPU has not finished
\* leaving them, and finalised when they are to exit.
Runnable(c, t) == exit[t] = "RUNNING" /\ (kstack[t] = "FREE" \/ t = current[c])
Stops(c, t) == Runnable(c, t) \/ exit[t] = "EXITING"

\* Mutant: the thread stays in the ready queue.
PickQueued(c, i) ==
  /\ pc[c] = "pick" /\ shared[c] = <<>>
  /\ i \in DOMAIN ready[c]
  /\ Runnable(c, ready[c][i])
  /\ state' = [state EXCEPT ![ready[c][i]] = "TO_SCHED"]
  /\ chosen' = [chosen EXCEPT ![c] = ready[c][i]]
  /\ Goto(c, "switch")
  /\ UNCHANGED <<current, prev, queues, fpuVars, places, exit, kstack, waiting>>

\* rr_sched_choose_thread at the first thread of the queue that is not skipped.
Pick(c, i) ==
  /\ pc[c] = "pick" /\ shared[c] = <<>>
  /\ i \in DOMAIN ready[c]
  /\ Stops(c, ready[c][i]) /\ \A j \in 1 .. i - 1 : ~Stops(c, ready[c][j])
  /\ LET t == ready[c][i]
     IN IF Runnable(c, t)
        THEN /\ state' = [state EXCEPT ![t] = "TO_SCHED"]
             /\ chosen' = [chosen EXCEPT ![c] = t]
             /\ Goto(c, "switch")
             /\ UNCHANGED exit
        ELSE /\ state' = [state EXCEPT ![t] = "EXIT"]
             /\ exit' = [exit EXCEPT ![t] = "EXITED"]
             /\ UNCHANGED <<chosen, pc>>
  /\ ready' = [ready EXCEPT ![c] = SubSeq(@, 1, i - 1) \o SubSeq(@, i + 1, Len(@))]
  /\ UNCHANGED <<current, prev, shared, fpuVars, places, kstack, waiting>>

PickIdle(c) ==
  /\ pc[c] = "pick" /\ shared[c] = <<>>
  /\ \A i \in DOMAIN ready[c] : ~Stops(c, ready[c][i])
  /\ chosen' = [chosen EXCEPT ![c] = Idle]
  /\ Goto(c, "switch")
  /\ UNCHANGED <<current, prev, queues, fpuVars, places, state, exit, kstack, waiting>>

\* switch_to_thread; the BUG_ONs are on the state of the thread it switches to.
SwitchTo(c, t) ==
  /\ pc[c] = "switch" /\ chosen[c] = t
  /\ IF t # Idle /\ (state[t] = "READY" \/ exit[t] # "RUNNING")
     THEN Goto(c, "bug") /\ UNCHANGED <<current, prev, state, kstack, cpuid>>
     ELSE /\ Goto(c, "eret")
          /\ current' = [current EXCEPT ![c] = t]
          /\ prev' = [prev EXCEPT ![c] = IF t = current[c] THEN Idle ELSE current[c]]
          /\ state' = [u \in Threads |-> IF u = t THEN "RUNNING" ELSE state[u]]
          /\ kstack' = [u \in Threads |->
                          IF u = t /\ t # current[c] THEN "LOCKED" ELSE kstack[u]]
          /\ cpuid' = [u \in Threads |-> IF u = t THEN c ELSE cpuid[u]]
  /\ UNCHANGED <<chosen, queues, fpuVars, affinity, machine, exit, waiting>>

\* Mutant: finish_switch does not release the thread that was left.
FinishLocked(c) ==
  /\ pc[c] = "eret"
  /\ prev' = [prev EXCEPT ![c] = Idle]
  /\ chosen' = [chosen EXCEPT ![c] = Idle]
  /\ Goto(c, "user")
  /\ UNCHANGED <<current, queues, fpuVars, places, state, exit, kstack, waiting>>

\* eret_to_thread: finish_switch, then back to user mode.
Finish(c) ==
  /\ pc[c] = "eret"
  /\ kstack' = [u \in Threads |-> IF u = prev[c] THEN "FREE" ELSE kstack[u]]
  /\ prev' = [prev EXCEPT ![c] = Idle]
  /\ chosen' = [chosen EXCEPT ![c] = Idle]
  /\ Goto(c, "user")
  /\ UNCHANGED <<current, queues, fpuVars, places, state, exit, waiting>>

-----------------------------------------------------------------------------
SchedStep(c) ==
  \/ \E t \in Threads : Preempt(c, t) \/ Retire(c, t) \/ Migrate(c, t)
  \/ \E t \in Threads \cup {Idle} : LeaveAside(c, t) \/ SwitchTo(c, t)
  \/ Drain(c) \/ DrainUrgent(c)
  \/ \E i \in DOMAIN ready[c] : Pick(c, i)
  \/ PickIdle(c)
  \/ Finish(c)

UserStep(c) ==
  \/ Doorbell(c)
  \/ \E t \in Threads :
       \/ Create(c, t) \/ UseFpu(c, t) \/ Block(c, t) \/ Signal(c, t) \/ ExitGroup(c, t)
       \/ \E aff \in Targets :
            \/ SetAffinityGlobal(c, t, aff)
            \/ \E u \in Threads : SetAffinityOf(c, t, u, aff)

Next == \E c \in CPUs : Interrupt(c) \/ SchedStep(c) \/ UserStep(c)

\* The timer of a CPU keeps ticking, and the kernel does not stop.
Fairness == \A c \in CPUs : WF_vars(Interrupt(c)) /\ WF_vars(SchedStep(c))

Spec == Init /\ [][Next]_vars
FairSpec == Spec /\ Fairness

-----------------------------------------------------------------------------
TypeOK ==
  /\ pc \in [CPUs -> {"user", "sched", "urgent", "pick", "switch", "eret", "bug"}]
  /\ current \in [CPUs -> Threads \cup {Idle}]
  /\ chosen \in [CPUs -> Threads \cup {Idle}]
  /\ prev \in [CPUs -> Threads \cup {Idle}]
  /\ ready \in [CPUs -> Seq(Threads)] /\ shared \in [CPUs -> Seq(Threads)]
  /\ fpuOwner \in [CPUs -> Threads \cup {Idle}]
  /\ state \in [Threads -> {"INIT", "READY", "RUNNING", "WAITING", "TO_SCHED", "EXIT"}]
  /\ exit \in [Threads -> {"RUNNING", "EXITING", "EXITED", "MIGRATING"}]
  /\ kstack \in [Threads -> {"FREE", "LOCKED"}]
  /\ affinity \in [Threads -> CPUs \cup {NoAff}]
  /\ cpuid \in [Threads -> CPUs]
  /\ machine \in [Threads -> Machines]
  /\ ownedFpu \in [Threads -> (0 .. PlatCpuNum - 1) \cup {NoCpu}]
  /\ fpuSaved \in [Threads -> BOOLEAN]
  /\ waiting \subseteq Threads

\* Where a thread is: its entries in the queues, the CPU that runs it or is about
\* to, and the waiting queue of its notification.
Executes(c, t) ==
  (pc[c] \in {"user", "eret"} /\ current[c] = t) \/ (pc[c] = "switch" /\ chosen[c] = t)
Whereabouts(t) ==
  (UNION {{<<"ready", c, i>> : i \in {k \in DOMAIN ready[c] : ready[c][k] = t}} : c \in CPUs})
  \cup (UNION {{<<"shared", c, i>> : i \in {k \in DOMAIN shared[c] : shared[c][k] = t}} : c \in CPUs})
  \cup {<<"cpu", c>> : c \in {d \in CPUs : Executes(d, t)}}
  \cup {<<"notification">> : u \in {t} \cap waiting}

\* A thread is at one place at a time, whatever CPUs and machines wake it, move it,
\* drain it and preempt it: it is never in two queues or twice in one, never queued
\* while a CPU runs it, and never run by two CPUs.
AtOnePlace == \A t \in Threads : \A p, q \in Whereabouts(t) : p = q

\* "Since current_thread is TS_WAITING, sched() will not put current_thread into
\* the ready_queue" (kernel/ipc/notification.c): a thread in the waiting queue of a
\* notification is in no queue of the scheduler.
WaitsUnqueued == \A t \in waiting : \A c \in CPUs :
  \A q \in {ready[c], shared[c]} : \A i \in DOMAIN q : q[i] # t

\* CPU d has turned away from t but finish_switch is still to come.
StillLeaving(d, t) ==
  prev[d] = t \/ (current[d] = t /\ pc[d] \in {"pick", "switch"} /\ chosen[d] # t)

\* No CPU runs a thread that another CPU is still leaving, the purpose of
\* kernel_stack_state.  Of threads that are pinned and woken by another machine, or
\* that migrate, the drain of the shared queue resets that flag, and the property
\* does not hold.
HandedOver == \A c, d \in CPUs, t \in Threads :
  (t \notin Migrants \cup FarBound /\ (t \in FarSignalled => affinity[t] = NoAff))
    => ~(c # d /\ Executes(c, t) /\ StillLeaving(d, t))

\* A thread runs on the machine its machine_id names, whose page tables and other
\* per-machine tables it uses (rr_sched_enqueue_to_affinity).
RunsOnItsMachine == \A c \in CPUs :
  (pc[c] = "user" /\ current[c] # Idle) => machine[current[c]] = c[1]

\* What a thread left in the FPU registers is in its fpu_state or still in the
\* registers of the CPU that switched away from it lazily.
FpuKept == \A t \in Threads :
  exit[t] = "RUNNING" => fpuSaved[t] \/ \E c \in CPUs : fpuOwner[c] = t

\* No BUG_ON of rr_sched, of the drain loop or of switch_to_thread fires.
NoBug == \A c \in CPUs : pc[c] # "bug"

\* A thread that is in a queue gets a CPU, although doorbells put the threads of
\* other machines in front of it and threads being left are passed over.
QueuedRuns == \A t \in Threads :
  (state[t] = "READY") ~> (\E c \in CPUs : Executes(c, t))
=============================================================================
