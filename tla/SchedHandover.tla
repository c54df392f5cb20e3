--------------------------- MODULE SchedHandover ----------------------------
(***************************************************************************)
(* What holds of a thread while CPUs leave it and take it up again: no CPU *)
(* runs a thread that another one is still leaving, and the FPU registers  *)
(* of a thread are never lost.                                             *)
(***************************************************************************)
EXTENDS SchedProofs

-----------------------------------------------------------------------------
(* Threads that exit and threads that migrate                              *)

\* A thread that is to exit, or has, is in no queue; only migrants migrate.
Leaver(t) ==
  /\ exit[t] \in {"EXITING", "EXITED"} => state[t] # "INIT" /\ ~InQueue(t)
  /\ exit[t] = "MIGRATING" => t \in Migrants

AllLeavers == \A t \in Threads : Leaver(t)

LEMMA LeaverFrame ==
  ASSUME AllLeavers, NEW u \in Threads,
         exit'[u] = exit[u], state'[u] = state[u] \/ state'[u] # "INIT", InQueue(u)' => InQueue(u)
  PROVE  Leaver(u)'
BY Zenon DEF AllLeavers, Leaver

\* A thread that runs or is to run.
LEMMA LeaverRuns ==
  ASSUME NEW u \in Threads, exit'[u] = "RUNNING"
  PROVE  Leaver(u)'
BY DEF Leaver

LEMMA LeaverCalls ==
  ASSUME TypeOK, AllSeparate, AllClean, AllLeavers, OneThreadGroups,
         NEW c \in CPUs, NEW t \in Threads, NEW u \in Threads, NEW aff \in CPUs, t \in Yields,
         \/ Block(c, t) \/ ExitGroup(c, t) \/ Retire(c, t)
         \/ SetAffinityGlobal(c, t, aff) \/ SetAffinityOf(c, t, u, aff)
  PROVE  AllLeavers'
<1>. USE DEF cpuVars, queues, fpuVars, places, Goto
<1>1. /\ Holds(c, t) /\ ~InQueue(t) /\ state[t] # "INIT"
  BY InHand, Zenon DEF Block, ExitGroup, Retire, SetAffinityGlobal, SetAffinityOf, Calls, InSched, Holds
<1>2. ready' = ready /\ shared' = shared
  BY Zenon DEF Block, ExitGroup, Retire, SetAffinityGlobal, SetAffinityOf
<1>3. \A v \in Threads : InQueue(v)' <=> InQueue(v)
  BY <1>2, Zenon DEF InQueue
<1>4. \A v \in Threads : v # t => exit'[v] = exit[v] /\ state'[v] = state[v]
  <2>1. CASE ExitGroup(c, t)
    BY <2>1, Zenon DEF ExitGroup, OneThreadGroups
  <2>. QED  BY <2>1, Zenon DEF Block, Retire, SetAffinityGlobal, SetAffinityOf, TypeOK
<1>5. state'[t] # "INIT"
  BY <1>1 DEF Block, ExitGroup, Retire, SetAffinityGlobal, SetAffinityOf, TypeOK
<1>6. exit'[t] = "MIGRATING" => t \in Migrants
  <2>1. exit[t] = "MIGRATING" => t \in Migrants
    BY Zenon DEF AllLeavers, Leaver
  <2>. QED  BY <2>1 DEF Block, ExitGroup, Retire, SetAffinityGlobal, SetAffinityOf, TypeOK
<1>7. Leaver(t)'
  BY <1>1, <1>3, <1>5, <1>6, Zenon DEF Leaver
<1>. QED  BY <1>3, <1>4, <1>7, LeaverFrame, Zenon DEF AllLeavers

LEMMA LeaverPuts ==
  ASSUME TypeOK, AllSeparate, AllClean, AllLeavers, NEW c \in CPUs, NEW t \in Threads,
         Create(c, t) \/ Preempt(c, t) \/ Signal(c, t)
  PROVE  AllLeavers' /\ exit[t] # "EXITING" /\ exit' = exit
<1>1. Puts(c, t) /\ ~InQueue(t)
  BY PutFacts, Zenon
<1>2. exit[t] \notin {"EXITING", "EXITED"}
  BY DEF Create, Preempt, Signal, AllClean, Clean, AllLeavers, Leaver
<1>3. exit' = exit /\ exit[t] # "EXITING"
  BY <1>1, <1>2, Zenon DEF Puts
<1>4. /\ \A u \in Threads \ {t} : InQueue(u)' <=> InQueue(u)
      /\ \A u \in Threads \ {t} : state'[u] = state[u] /\ exit'[u] = exit[u]
  BY <1>1, PutsQueue, Zenon DEF AllSeparate
<1>5. Leaver(t)'
  BY <1>2, <1>3, Zenon DEF AllLeavers, Leaver
<1>. QED  BY <1>3, <1>4, <1>5, LeaverFrame, Zenon DEF AllLeavers

LEMMA LeaverMigrate ==
  ASSUME TypeOK, AllSeparate, AllClean, AllLeavers, NEW c \in CPUs, NEW t \in Threads, Migrate(c, t)
  PROVE  AllLeavers'
<1>. USE DEF cpuVars, queues, fpuVars, places, Goto
<1>1. /\ exit[t] = "MIGRATING" /\ exit' = exit /\ ready' = ready
      /\ shared' = [shared EXCEPT ![affinity[t]] = Append(@, t)]
      /\ affinity[t] \in CPUs
      /\ \A u \in Threads : state'[u] = state[u]
  BY NamesAssumption, Zenon DEF Migrate, PutShared, IsLocal, TypeOK
<1>2. Leaver(t)'
  BY <1>1, Zenon DEF AllLeavers, Leaver
<1>3. \A d \in CPUs : Elems(Append(shared[d], t)) = Elems(shared[d]) \cup {t}
  BY ElemsAppend, Zenon DEF TypeOK
<1>4. \A d \in CPUs, u \in Threads : u # t => (u \in Elems(shared'[d]) => u \in Elems(shared[d]))
  BY <1>1, <1>3 DEF TypeOK
<1>5. \A u \in Threads : u # t => (InQueue(u)' => InQueue(u))
  BY <1>1, <1>4, Zenon DEF InQueue, Queued, Elems
<1>. QED  BY <1>1, <1>2, <1>5, LeaverFrame, Zenon DEF AllLeavers

\* What an iteration of the drain loop does: a thread of the shared queue of c becomes
\* ready, and everything else stays.
LEMMA DrainFacts ==
  ASSUME TypeOK, AllSeparate, AllClean, NEW c \in CPUs, Drain(c) \/ DrainUrgent(c)
  PROVE  \E t \in Threads :
           /\ t \in Elems(shared[c]) /\ InQueue(t) /\ exit'[t] = "RUNNING" /\ state'[t] = "READY"
           /\ \A u \in Threads : u # t =>
                /\ exit'[u] = exit[u] /\ state'[u] = state[u] /\ kstack'[u] = kstack[u]
                /\ machine'[u] = machine[u] /\ cpuid'[u] = cpuid[u]
                /\ InQueue(u)' => InQueue(u)
                /\ \A d \in CPUs : u \in Elems(shared'[d]) => u \in Elems(shared[d])
           /\ UNCHANGED <<pc, cpuVars, fpuVars, affinity, waiting>>
<1>1. PICK i \in DOMAIN shared[c], front \in BOOLEAN, t \in Threads :
        /\ t = shared[c][i] /\ DrainTo(c, t, front)
        /\ shared' = [shared EXCEPT ![c] = Without(@, i)]
        /\ UNCHANGED <<cpuVars, fpuVars, affinity, waiting>>
  BY DrainsOne, Zenon
<1>2. PICK g \in CPUs : g = IF affinity[t] = NoAff THEN c ELSE affinity[t]
  BY Zenon DEF TypeOK
<1>3. t \in Elems(shared[c]) /\ InQueue(t) /\ QueuedOnce(ready, shared)
  BY <1>1, Entries, Zenon DEF AllSeparate
<1>4. IsLocal(c, g)
  <2>1. IsLocal(c, affinity[t])
    BY <1>3, Zenon DEF AllClean, Clean
  <2>. QED  BY <1>2, <2>1, NamesAssumption, Zenon DEF IsLocal
<1>5. /\ pc' = pc /\ exit'[t] = "RUNNING" /\ state'[t] = "READY"
      /\ \A u \in Threads : u # t =>
           /\ exit'[u] = exit[u] /\ state'[u] = state[u] /\ kstack'[u] = kstack[u]
           /\ machine'[u] = machine[u] /\ cpuid'[u] = cpuid[u]
      /\ ready' = [ready EXCEPT ![g] = IF front THEN <<t>> \o @ ELSE Append(@, t)]
  BY <1>1, <1>2, <1>4, Zenon DEF DrainTo, TypeOK
<1>6. \A d \in CPUs : Elems(shared'[d]) = Elems(shared[d]) \ {t}
  <2>1. Loses(shared', shared, c, t)
    BY <1>1, <1>3, WithoutLoses, Zenon DEF QueuedOnce
  <2>. QED  BY <1>3, <2>1, Zenon DEF Loses, QueuedOnce
<1>7. \A d \in CPUs, u \in Threads : u # t /\ u \in Elems(ready'[d]) => u \in Elems(ready[d])
  <2>1. ready \in [CPUs -> Seq(Threads)] /\ Simple(ready[g]) /\ t \notin Elems(ready[g])
    BY <1>3, Zenon DEF QueuedOnce
  <2>2. Gains(ready', ready, g, t)
    BY <1>5, <2>1, AppendGains, PrependGains, Zenon
  <2>. QED  BY <2>2, Zenon DEF Gains
<1>8. \A u \in Threads : u # t => (InQueue(u)' => InQueue(u))
  BY <1>6, <1>7, Zenon DEF InQueue, Queued, Elems
<1>9. \A u \in Threads : u # t =>
        /\ exit'[u] = exit[u] /\ state'[u] = state[u] /\ kstack'[u] = kstack[u]
        /\ machine'[u] = machine[u] /\ cpuid'[u] = cpuid[u]
        /\ InQueue(u)' => InQueue(u)
        /\ \A d \in CPUs : u \in Elems(shared'[d]) => u \in Elems(shared[d])
  BY <1>5, <1>6, <1>8, Zenon
<1>10. UNCHANGED <<pc, cpuVars, fpuVars, affinity, waiting>>
  BY <1>1, <1>5, Zenon
<1>. QED  BY <1>3, <1>5, <1>9, <1>10, Zenon

\* find_runnable_thread never meets a thread that is to exit: it takes one that may run.
LEMMA PickFacts ==
  ASSUME TypeOK, AllSeparate, AllLeavers, NEW c \in CPUs, NEW i \in DOMAIN ready[c], Pick(c, i)
  PROVE  \E t \in Threads :
           /\ t \in Elems(ready[c]) /\ InQueue(t)
           /\ Runnable(c, t) /\ chosen'[c] = t /\ state'[t] = "TO_SCHED"
           /\ pc[c] = "pick" /\ pc'[c] = "switch" /\ Elsewhere(c)
           /\ \A u \in Threads : /\ u # t => state'[u] = state[u]
                                 /\ InQueue(u)' => InQueue(u)
           /\ UNCHANGED <<current, prev, shared, fpuVars, places, kstack, waiting, exit>>
<1>. USE DEF Goto
<1>1. PICK t \in Threads : t = ready[c][i]
  BY DEF TypeOK
<1>2. t \in Elems(ready[c]) /\ InQueue(t) /\ QueuedOnce(ready, shared)
  BY <1>1, Entries, Zenon DEF AllSeparate
<1>3. exit[t] # "EXITING"
  BY <1>2 DEF AllLeavers, Leaver
<1>4. Runnable(c, t)
  BY <1>1, <1>3, Zenon DEF Pick, Stops
<1>5. /\ state' = [state EXCEPT ![t] = "TO_SCHED"] /\ chosen' = [chosen EXCEPT ![c] = t]
      /\ pc[c] = "pick" /\ pc' = [pc EXCEPT ![c] = "switch"] /\ exit' = exit
      /\ ready' = [ready EXCEPT ![c] = Without(@, i)]
      /\ UNCHANGED <<current, prev, shared, fpuVars, places, kstack, waiting>>
  BY <1>1, <1>4, Zenon DEF Pick, Without
<1>6. /\ pc'[c] = "switch" /\ chosen'[c] = t /\ state'[t] = "TO_SCHED" /\ Elsewhere(c)
      /\ \A u \in Threads : u # t => state'[u] = state[u]
  BY <1>5, Zenon DEF TypeOK, Elsewhere
<1>7. \A u \in Threads : InQueue(u)' => InQueue(u)
  <2>1. Loses(ready', ready, c, t)
    BY <1>1, <1>2, <1>5, WithoutLoses, Zenon DEF QueuedOnce
  <2>2. Queued(ready', shared) = Queued(ready, shared) \ {t}
    BY <1>2, <2>1, TakeReady, Zenon
  <2>. QED  BY <1>5, <2>2, Zenon DEF InQueue
<1>. QED  BY <1>2, <1>4, <1>5, <1>6, <1>7, Zenon

\* Into and out of the scheduler, and the other steps that leave the queues alone.
LEMMA LeaverQuiet ==
  ASSUME TypeOK, AllLeavers, NEW c \in CPUs, NEW t \in Idents,
         \/ Interrupt(c) \/ Doorbell(c) \/ Finish(c) \/ PickIdle(c)
         \/ LeaveAside(c, t) \/ SwitchTo(c, t) \/ UseFpu(c, t)
  PROVE  AllLeavers'
<1>. USE DEF cpuVars, queues, fpuVars, places, Goto
<1>1. /\ ready' = ready /\ shared' = shared /\ exit' = exit
      /\ \A u \in Threads : state'[u] \in {state[u], "RUNNING"}
  <2>1. CASE SwitchTo(c, t)
    <3>1. /\ ready' = ready /\ shared' = shared /\ exit' = exit
          /\ \/ state' = state
             \/ state' = [u \in Threads |-> IF u = t THEN "RUNNING" ELSE state[u]]
      BY <2>1, Zenon DEF SwitchTo
    <3>. QED  BY <3>1, Zenon
  <2>. QED  BY <2>1, Zenon DEF Interrupt, Doorbell, Finish, PickIdle, LeaveAside, UseFpu
<1>2. \A u \in Threads : (InQueue(u)' => InQueue(u)) /\ (state'[u] = state[u] \/ state'[u] # "INIT")
  BY <1>1 DEF InQueue
<1>. QED  BY <1>1, <1>2, LeaverFrame, Zenon DEF AllLeavers

LEMMA LeaverTakes ==
  ASSUME TypeOK, AllSeparate, AllClean, AllLeavers, NEW c \in CPUs,
         Drain(c) \/ DrainUrgent(c) \/ \E i \in DOMAIN ready[c] : Pick(c, i)
  PROVE  AllLeavers'
<1>1. CASE Drain(c) \/ DrainUrgent(c)
  BY <1>1, DrainFacts, LeaverRuns, LeaverFrame, Zenon DEF AllLeavers
<1>2. CASE \E i \in DOMAIN ready[c] : Pick(c, i)
  <2>1. /\ exit' = exit
        /\ \A u \in Threads : /\ state'[u] \in {state[u], "TO_SCHED"}
                              /\ InQueue(u)' => InQueue(u)
    BY <1>2, PickFacts, Zenon
  <2>2. \A u \in Threads : state'[u] = state[u] \/ state'[u] # "INIT"
    BY <2>1
  <2>. QED  BY <2>1, <2>2, LeaverFrame, Zenon DEF AllLeavers
<1>. QED  BY <1>1, <1>2, Zenon

LEMMA LeaverNext ==
  ASSUME TypeOK, AllSeparate, AllClean, AllLeavers,
         Threads \subseteq Yields, OneThreadGroups, [Next]_vars
  PROVE  AllLeavers'
<1>1. CASE UNCHANGED vars
  BY <1>1, LeaverFrame, Zenon DEF AllLeavers, vars, queues, InQueue
<1>2. ASSUME NEW c \in CPUs, Interrupt(c) \/ SchedStep(c) \/ UserStep(c)  PROVE AllLeavers'
  <2>1. CASE \E t \in Idents :
               \/ Interrupt(c) \/ Doorbell(c) \/ Finish(c) \/ PickIdle(c)
               \/ LeaveAside(c, t) \/ SwitchTo(c, t) \/ UseFpu(c, t)
    BY <2>1, LeaverQuiet, Zenon
  <2>2. CASE \E t \in Threads : \E aff \in CPUs :
               SetAffinityGlobal(c, t, aff) \/ \E u \in Threads : SetAffinityOf(c, t, u, aff)
    BY <2>2, LeaverCalls, Zenon
  <2>3. CASE \E t \in Threads : Create(c, t) \/ Preempt(c, t) \/ Signal(c, t)
    BY <2>3, LeaverPuts, Zenon
  <2>4. CASE \E t \in Threads : Migrate(c, t)
    BY <2>4, LeaverMigrate, Zenon
  <2>5. CASE Drain(c) \/ DrainUrgent(c) \/ \E i \in DOMAIN ready[c] : Pick(c, i)
    BY <2>5, LeaverTakes, Zenon
  <2>6. ASSUME NEW t \in Threads, Block(c, t) \/ ExitGroup(c, t) \/ Retire(c, t)
        PROVE  AllLeavers'
    BY <2>6, LeaverCalls, Zenon
  <2>7. Targets \subseteq CPUs /\ Idle \in Idents
    BY NamesAssumption, Zenon DEF Idents
  <2>. QED
    BY <1>2, <2>1, <2>2, <2>3, <2>4, <2>5, <2>6, <2>7, Zenon DEF SchedStep, UserStep, Idents
<1>. QED  BY <1>1, <1>2, Zenon DEF Next

LEMMA LeaverInit == Init => AllLeavers
BY DEF Init, AllLeavers, Leaver

-----------------------------------------------------------------------------
(* The registers of the FPU                                                *)

\* Registers that are in no memory belong to a thread that uses the FPU, and are in the
\* CPU that it used it on last unless the thread is about to exit.
Registers(t) ==
  ~fpuSaved[t] => /\ t \in FpuUsers
                  /\ exit[t] \in {"EXITING", "EXITED"} \/ \E c \in CPUs : fpuOwner[c] = t

AllRegisters == \A t \in Threads : Registers(t)

\* Threads that use the FPU do not change machines.
FpuStays == Migrants \cap FpuUsers = {}

LEMMA RegistersFrame ==
  ASSUME AllRegisters, NEW u \in Threads, fpuSaved' = fpuSaved, fpuOwner' = fpuOwner,
         exit[u] \in {"EXITING", "EXITED"} => exit'[u] \in {"EXITING", "EXITED"}
  PROVE  Registers(u)'
BY Zenon DEF AllRegisters, Registers

\* save_and_release_fpu stores what it gives up.
LEMMA RegistersReleased ==
  ASSUME TypeOK, AllLeavers, AllRegisters, FpuStays, NEW c \in CPUs, NEW t \in Threads,
         SaveAndReleaseFpu(c, t), exit' = exit
  PROVE  AllRegisters'
<1>1. CASE fpuOwner[c] # t
  BY <1>1, RegistersFrame, Zenon DEF AllRegisters, SaveAndReleaseFpu, fpuVars
<1>2. CASE fpuOwner[c] = t
  <2>1. /\ fpuSaved' = [fpuSaved EXCEPT ![t] = @ \/ exit[t] = "RUNNING"]
        /\ fpuOwner' = [fpuOwner EXCEPT ![c] = Idle]
    BY <1>2, Zenon DEF SaveAndReleaseFpu
  <2>2. Registers(t)'
    <3>1. fpuSaved'[t] <=> fpuSaved[t] \/ exit[t] = "RUNNING"
      BY <2>1, Zenon DEF TypeOK
    <3>2. exit[t] \in {"RUNNING", "EXITING", "EXITED", "MIGRATING"}
      BY Zenon DEF TypeOK
    <3>3. exit[t] = "MIGRATING" => t \notin FpuUsers
      BY Zenon DEF AllLeavers, Leaver, FpuStays
    <3>. QED  BY <3>1, <3>2, <3>3, Zenon DEF AllRegisters, Registers
  <2>3. ASSUME NEW u \in Threads, u # t  PROVE Registers(u)'
    <3>1. fpuSaved'[u] <=> fpuSaved[u]
      BY <2>1, <2>3, Zenon DEF TypeOK
    <3>2. \A d \in CPUs : fpuOwner[d] = u => fpuOwner'[d] = u
      BY <1>2, <2>1, <2>3, Zenon DEF TypeOK
    <3>. QED  BY <3>1, <3>2, Zenon DEF AllRegisters, Registers
  <2>. QED  BY <2>2, <2>3, Zenon DEF AllRegisters
<1>. QED  BY <1>1, <1>2, Zenon

\* change_fpu_owner stores the registers of the thread it takes the FPU from.
LEMMA RegistersTaken ==
  ASSUME TypeOK, AllLeavers, AllRegisters, FpuStays, NEW c \in CPUs, NEW t \in Threads, UseFpu(c, t)
  PROVE  AllRegisters'
<1>. DEFINE old == fpuOwner[c]
<1>1. t \in FpuUsers /\ exit' = exit
  BY Zenon DEF UseFpu
<1>2. PICK left \in [Threads -> BOOLEAN] :
        /\ left = IF old # t /\ old # Idle
                  THEN [fpuSaved EXCEPT ![old] = @ \/ exit[old] = "RUNNING"] ELSE fpuSaved
        /\ \/ fpuOwner' = [fpuOwner EXCEPT ![c] = t] /\ fpuSaved' = [left EXCEPT ![t] = FALSE]
           \/ fpuOwner' = fpuOwner /\ fpuSaved' = left /\ old # t
  <2>. DEFINE left == IF old # t /\ old # Idle
                      THEN [fpuSaved EXCEPT ![old] = @ \/ exit[old] = "RUNNING"] ELSE fpuSaved
  <2>1. left \in [Threads -> BOOLEAN]
    BY DEF TypeOK
  <2>2. \/ fpuOwner' = [fpuOwner EXCEPT ![c] = t] /\ fpuSaved' = [left EXCEPT ![t] = FALSE]
        \/ fpuOwner' = fpuOwner /\ fpuSaved' = left /\ old # t
    BY Zenon DEF UseFpu
  <2>. QED  BY <2>1, <2>2, Zenon
<1>3. \A u \in Threads : u # t => (fpuSaved'[u] <=> left[u])
  BY <1>2, Zenon
<1>4. \A u \in Threads : u = t \/ u # old => (left[u] <=> fpuSaved[u])
  BY <1>2, Zenon DEF TypeOK
<1>5. ASSUME NEW u \in Threads, u # t, u = old
      PROVE  left[u] <=> fpuSaved[u] \/ exit[u] = "RUNNING"
  <2>1. left = [fpuSaved EXCEPT ![u] = fpuSaved[u] \/ exit[u] = "RUNNING"]
    BY <1>2, <1>5, NamesAssumption, Zenon
  <2>. QED  BY <2>1, Zenon DEF TypeOK
<1>6. /\ \A u \in Threads, d \in CPUs : u # old /\ fpuOwner[d] = u => fpuOwner'[d] = u
      /\ fpuOwner'[c] = t \/ (fpuOwner' = fpuOwner /\ fpuSaved' = left)
  BY <1>2, Zenon DEF TypeOK
<1>7. Registers(t)'
  BY <1>1, <1>4, <1>6, Zenon DEF AllRegisters, Registers
<1>8. ASSUME NEW u \in Threads, u = old, u # t  PROVE Registers(u)'
  <2>1. exit[u] \in {"RUNNING", "EXITING", "EXITED", "MIGRATING"}
    BY Zenon DEF TypeOK
  <2>2. exit[u] = "MIGRATING" => u \notin FpuUsers
    BY Zenon DEF AllLeavers, Leaver, FpuStays
  <2>. QED  BY <1>1, <1>3, <1>5, <1>8, <2>1, <2>2, Zenon DEF AllRegisters, Registers
<1>9. ASSUME NEW u \in Threads, u # t, u # old  PROVE Registers(u)'
  BY <1>1, <1>3, <1>4, <1>6, <1>9, Zenon DEF AllRegisters, Registers
<1>. QED  BY <1>7, <1>8, <1>9, Zenon DEF AllRegisters

LEMMA RegistersNext ==
  ASSUME TypeOK, AllSeparate, AllClean, AllLeavers, AllRegisters, FpuStays,
         Threads \subseteq Yields, OneThreadGroups, [Next]_vars
  PROVE  AllRegisters'
<1>. USE DEF cpuVars, queues, fpuVars, places
<1>1. ASSUME fpuSaved' = fpuSaved, fpuOwner' = fpuOwner,
             \A u \in Threads : exit[u] \in {"EXITING", "EXITED"} => exit'[u] \in {"EXITING", "EXITED"}
      PROVE  AllRegisters'
  BY <1>1, RegistersFrame, Zenon DEF AllRegisters
<1>2. CASE UNCHANGED vars
  BY <1>1, <1>2, Zenon DEF vars
<1>3. ASSUME NEW c \in CPUs, Interrupt(c) \/ SchedStep(c) \/ UserStep(c)  PROVE AllRegisters'
  <2>1. CASE \E t \in Idents :
               \/ Interrupt(c) \/ Doorbell(c) \/ Finish(c) \/ PickIdle(c)
               \/ LeaveAside(c, t) \/ SwitchTo(c, t)
    BY <1>1, <2>1, Zenon DEF Interrupt, Doorbell, Finish, PickIdle, LeaveAside, SwitchTo
  <2>2. CASE \E t \in Threads : \E aff \in CPUs :
               SetAffinityGlobal(c, t, aff) \/ \E u \in Threads : SetAffinityOf(c, t, u, aff)
    <3>1. PICK t \in Threads : \E aff \in CPUs :
                 SetAffinityGlobal(c, t, aff) \/ \E u \in Threads : SetAffinityOf(c, t, u, aff)
      BY <2>2, Zenon
    <3>2. Holds(c, t) /\ pc[c] = "user"
      BY <3>1, Zenon DEF SetAffinityGlobal, SetAffinityOf, Calls, Holds
    <3>3. exit[t] \in {"RUNNING", "MIGRATING"}
      BY <3>2, Zenon DEF AllClean, Clean
    <3>4. fpuSaved' = fpuSaved /\ fpuOwner' = fpuOwner
      BY <3>1, Zenon DEF SetAffinityGlobal, SetAffinityOf
    <3>5. \A u \in Threads : u # t => exit'[u] = exit[u]
      BY <3>1, Zenon DEF SetAffinityGlobal, SetAffinityOf, TypeOK
    <3>6. exit[t] \notin {"EXITING", "EXITED"}
      BY <3>3
    <3>. QED  BY <1>1, <3>4, <3>5, <3>6, Zenon
  <2>3. ASSUME NEW t \in Threads, Create(c, t) \/ Preempt(c, t) \/ Signal(c, t)
        PROVE  AllRegisters'
    <3>1. exit' = exit
      BY <2>3, LeaverPuts, Zenon
    <3>2. SaveAndReleaseFpu(c, t) \/ UNCHANGED fpuVars
      <4>1. Enqueue(c, t) => SaveAndReleaseFpu(c, t) \/ UNCHANGED fpuVars
        BY Zenon DEF Enqueue, Bind
      <4>. QED  BY <2>3, <4>1, Zenon DEF Create, Preempt, Signal, EnqueueToAffinity, Bind
    <3>. QED  BY <1>1, <3>1, <3>2, RegistersReleased, Zenon
  <2>4. ASSUME NEW t \in Threads, Migrate(c, t)  PROVE AllRegisters'
    BY <1>1, <2>4, RegistersReleased, Zenon DEF Migrate
  <2>5. CASE Drain(c) \/ DrainUrgent(c)
    <3>1. PICK t \in Threads :
            /\ InQueue(t) /\ UNCHANGED fpuVars
            /\ \A u \in Threads : u # t => exit'[u] = exit[u]
      BY <2>5, DrainFacts, Zenon
    <3>2. exit[t] \notin {"EXITING", "EXITED"}
      BY <3>1, Zenon DEF AllLeavers, Leaver
    <3>. QED  BY <1>1, <3>1, <3>2, Zenon
  <2>6. CASE \E i \in DOMAIN ready[c] : Pick(c, i)
    <3>1. exit' = exit /\ UNCHANGED fpuVars
      BY <2>6, PickFacts, Zenon
    <3>. QED  BY <1>1, <3>1, Zenon
  <2>7. ASSUME NEW t \in Threads, Block(c, t) \/ ExitGroup(c, t) \/ Retire(c, t)
        PROVE  AllRegisters'
    <3>1. fpuSaved' = fpuSaved /\ fpuOwner' = fpuOwner
      BY <2>7, Zenon DEF Block, ExitGroup, Retire
    <3>2. \A u \in Threads : exit'[u] \in {exit[u], "EXITING", "EXITED"}
      BY <2>7, Zenon DEF Block, ExitGroup, Retire, TypeOK
    <3>. QED  BY <1>1, <3>1, <3>2
  <2>8. ASSUME NEW t \in Threads, UseFpu(c, t)  PROVE AllRegisters'
    BY <2>8, RegistersTaken, Zenon
  <2>9. Targets \subseteq CPUs /\ Idle \in Idents
    BY NamesAssumption, Zenon DEF Idents
  <2>. QED
    BY <1>3, <2>1, <2>2, <2>3, <2>4, <2>5, <2>6, <2>7, <2>8, <2>9, Zenon DEF SchedStep, UserStep, Idents
<1>. QED  BY <1>2, <1>3, Zenon DEF Next

-----------------------------------------------------------------------------
(* CPUs that leave a thread                                                *)

\* The locals of rr_sched and the thread a CPU has left.
Tidy(c) ==
  /\ prev[c] # Idle => pc[c] = "eret" /\ prev[c] # current[c]
  /\ pc[c] \in {"user", "sched", "urgent", "pick"} => chosen[c] = Idle

AllTidy == \A c \in CPUs : Tidy(c)

\* A thread that a shared queue does not take away from a CPU still leaving it.
Resident(t) == t \notin Migrants \cup FarBound /\ (t \in FarSignalled => affinity[t] = NoAff)

\* At most one CPU is leaving t, and none while another has it in hand: until it is
\* done the kernel stack stays locked, and a far signal sends t back to that CPU.
Handed(t) ==
  /\ \A c, d \in CPUs : StillLeaving(c, t) /\ StillLeaving(d, t) => c = d
  /\ \A c, d \in CPUs : Holds(c, t) => ~StillLeaving(d, t)
  /\ \A d \in CPUs : StillLeaving(d, t) =>
       /\ kstack[t] = "LOCKED" \/ exit[t] = "EXITED"
       /\ state[t] # "INIT"
       /\ t \in waiting => cpuid[t] = d /\ machine[t] = d[1]
       /\ \A e \in CPUs : t \in Elems(shared[e]) => e = d /\ pc[d] = "eret"
  /\ \A c \in CPUs : current[c] = t /\ Holds(c, t) =>
       /\ kstack[t] = "LOCKED"
       /\ pc[c] # "switch" => cpuid[t] = c

AllHanded == \A t \in Threads : Resident(t) => Handed(t)

\* A step of CPU c, of which thread u is not the one that is left or taken up.
Rest(c) == Elsewhere(c) /\ \A d \in CPUs \ {c} : prev'[d] = prev[d]
Bystander(c, u) ==
  /\ kstack'[u] = kstack[u] /\ exit'[u] = exit[u] /\ state'[u] = state[u]
  /\ cpuid'[u] = cpuid[u] /\ machine'[u] = machine[u]
  /\ u \in waiting' => u \in waiting
  /\ \A e \in CPUs : u \in Elems(shared'[e]) => u \in Elems(shared[e])
  /\ Holds(c, u)' => /\ Holds(c, u) /\ current'[c] = current[c]
                     /\ pc[c] # "switch"
  /\ StillLeaving(c, u)' => StillLeaving(c, u) /\ (pc[c] = "eret" => pc'[c] = "eret")

LEMMA RestLeaving ==
  ASSUME NEW c \in CPUs, Rest(c), NEW u \in Threads
  PROVE  \A d \in CPUs \ {c} : /\ StillLeaving(d, u)' <=> StillLeaving(d, u)
                               /\ Holds(d, u)' <=> Holds(d, u)
                               /\ pc'[d] = pc[d] /\ current'[d] = current[d]
BY Zenon DEF Rest, Elsewhere, StillLeaving, Holds

LEMMA HandedFrame ==
  ASSUME NEW c \in CPUs, NEW u \in Threads, Rest(c), Handed(u), Bystander(c, u)
  PROVE  Handed(u)'
<1>1. \A d \in CPUs : /\ StillLeaving(d, u)' => StillLeaving(d, u) /\ (pc[d] = "eret" => pc'[d] = "eret")
                      /\ Holds(d, u)' => Holds(d, u)
                      /\ Holds(d, u)' /\ current'[d] = u =>
                           current[d] = u /\ (pc'[d] # "switch" => pc[d] # "switch")
  BY RestLeaving, Zenon DEF Bystander
<1>2. \A e \in CPUs : (u \in Elems(shared[e]))' => u \in Elems(shared[e])
  BY Zenon DEF Bystander, Elems
<1>3. /\ \A b, d \in CPUs : StillLeaving(b, u)' /\ StillLeaving(d, u)' => b = d
      /\ \A b, d \in CPUs : Holds(b, u)' => ~StillLeaving(d, u)'
  BY <1>1, Zenon DEF Handed
<1>4. ASSUME NEW d \in CPUs, StillLeaving(d, u)'
      PROVE  /\ kstack'[u] = "LOCKED" \/ exit'[u] = "EXITED"
             /\ state'[u] # "INIT"
             /\ u \in waiting' => cpuid'[u] = d /\ machine'[u] = d[1]
             /\ \A e \in CPUs : (u \in Elems(shared[e]))' => e = d /\ pc'[d] = "eret"
  BY <1>1, <1>2, <1>4, Zenon DEF Handed, Bystander
<1>5. ASSUME NEW d \in CPUs, current'[d] = u, Holds(d, u)'
      PROVE  kstack'[u] = "LOCKED" /\ (pc'[d] # "switch" => cpuid'[u] = d)
  BY <1>1, <1>5, Zenon DEF Handed, Bystander
<1>. QED  BY <1>3, <1>4, <1>5, Zenon DEF Handed

\* A thread that no CPU is leaving and none has in hand.
LEMMA HandedLoose ==
  ASSUME NEW u \in Threads, \A d \in CPUs : ~Holds(d, u)' /\ ~StillLeaving(d, u)'
  PROVE  Handed(u)'
BY Zenon DEF Handed

\* A thread that CPU c alone has in hand, and that none is leaving.
LEMMA HandedHeld ==
  ASSUME NEW u \in Threads, NEW c \in CPUs, \A d \in CPUs \ {c} : ~Holds(d, u)',
         \A d \in CPUs : ~StillLeaving(d, u)',
         current'[c] = u => kstack'[u] = "LOCKED" /\ (pc'[c] # "switch" => cpuid'[u] = c)
  PROVE  Handed(u)'
BY Zenon DEF Handed

\* A thread that CPU c turns away from.
LEMMA HandedLeft ==
  ASSUME NEW u \in Threads, NEW c \in CPUs, \A d \in CPUs : ~Holds(d, u)',
         \A d \in CPUs \ {c} : ~StillLeaving(d, u)',
         kstack'[u] = "LOCKED" \/ exit'[u] = "EXITED", state'[u] # "INIT",
         u \in waiting' => cpuid'[u] = c /\ machine'[u] = c[1],
         \A e \in CPUs : u \notin Elems(shared'[e])
  PROVE  Handed(u)'
<1>1. \A e \in CPUs : (u \notin Elems(shared[e]))'
  BY Zenon DEF Elems
<1>. QED  BY <1>1, Zenon DEF Handed

LEMMA HandedStep ==
  ASSUME AllTidy, AllHanded, NEW c \in CPUs, Rest(c), Tidy(c)',
         \A u \in Threads : Resident(u)' => Resident(u) /\ (Bystander(c, u) \/ Handed(u)')
  PROVE  AllTidy' /\ AllHanded'
<1>1. \A d \in CPUs : d # c => Tidy(d)'
  BY Zenon DEF AllTidy, Tidy, Rest, Elsewhere
<1>. QED  BY <1>1, HandedFrame, Zenon DEF AllTidy, AllHanded

\* What the hypotheses say of a thread that CPU c has as its current one.
LEMMA HeldCurrent ==
  ASSUME AllSeparate, AllHanded, NEW c \in CPUs, NEW t \in Threads, Resident(t),
         pc[c] \in {"user", "eret", "sched", "urgent"}, current[c] = t
  PROVE  /\ Holds(c, t) /\ kstack[t] = "LOCKED" /\ cpuid[t] = c /\ ~InQueue(t) /\ state[t] # "INIT"
         /\ \A d \in CPUs : ~StillLeaving(d, t)
         /\ \A d \in CPUs \ {c} : ~Holds(d, t)
<1>1. Holds(c, t)
  BY Zenon DEF Holds
<1>2. pc[c] # "switch"
  OBVIOUS
<1>. QED  BY <1>1, <1>2, InHand, Zenon DEF AllHanded, Handed

\* Into the scheduler, to the idle thread, and steps of user mode that leave the
\* scheduler's state alone.
LEMMA HandedQuiet ==
  ASSUME TypeOK, AllTidy, AllHanded, NEW c \in CPUs, NEW t \in Threads, NEW u \in Threads,
         NEW aff \in CPUs,
         \/ Interrupt(c) \/ Doorbell(c) \/ PickIdle(c) \/ UseFpu(c, t) \/ SetAffinityOf(c, t, u, aff)
  PROVE  AllTidy' /\ AllHanded'
<1>. USE DEF cpuVars, queues, fpuVars, places, Goto
<1>1. /\ Rest(c) /\ current' = current /\ prev' = prev
      /\ state' = state /\ exit' = exit /\ kstack' = kstack /\ waiting' = waiting
      /\ cpuid' = cpuid /\ machine' = machine /\ shared' = shared
  BY Zenon DEF Interrupt, Doorbell, PickIdle, UseFpu, SetAffinityOf, Rest, Elsewhere, TypeOK
<1>2. \/ pc'[c] = pc[c] /\ pc[c] = "user" /\ chosen' = chosen
      \/ pc[c] = "user" /\ pc'[c] \in {"sched", "urgent"} /\ chosen' = chosen
      \/ pc[c] = "pick" /\ pc'[c] = "switch" /\ chosen'[c] = Idle
  BY Zenon DEF Interrupt, Doorbell, PickIdle, UseFpu, SetAffinityOf, Calls, TypeOK
<1>3. prev[c] = Idle /\ chosen[c] = Idle /\ pc[c] # "eret"
  BY <1>2 DEF AllTidy, Tidy
<1>4. Tidy(c)'
  BY <1>1, <1>2, <1>3 DEF Tidy
<1>5. ASSUME NEW v \in Threads, Resident(v)'  PROVE Resident(v)
  BY <1>5, NamesAssumption, Zenon DEF Resident, Interrupt, Doorbell, PickIdle, UseFpu, SetAffinityOf, TypeOK
<1>6. ASSUME NEW v \in Threads  PROVE Bystander(c, v)
  <2>1. v # Idle
    BY NamesAssumption, Zenon
  <2>2. Holds(c, v)' => Holds(c, v) /\ pc[c] # "switch"
    BY <1>1, <1>2, <2>1 DEF Holds
  <2>3. StillLeaving(c, v)' => StillLeaving(c, v)
    BY <1>1, <1>2, <1>3, <2>1 DEF StillLeaving
  <2>. QED  BY <1>1, <1>3, <2>2, <2>3, Zenon DEF Bystander
<1>. QED  BY <1>1, <1>4, <1>5, <1>6, HandedStep, Zenon

\* finish_switch: the CPU is done with the thread it left.
LEMMA HandedFinish ==
  ASSUME TypeOK, AllTidy, AllHanded, NEW c \in CPUs, Finish(c)
  PROVE  AllTidy' /\ AllHanded'
<1>. USE DEF cpuVars, queues, fpuVars, places, Goto
<1>1. /\ Rest(c) /\ current' = current /\ affinity' = affinity
      /\ state' = state /\ exit' = exit /\ waiting' = waiting
      /\ cpuid' = cpuid /\ machine' = machine /\ shared' = shared
      /\ pc[c] = "eret" /\ pc'[c] = "user" /\ prev'[c] = Idle /\ chosen'[c] = Idle
      /\ \A u \in Threads : u # prev[c] => kstack'[u] = kstack[u]
  BY Zenon DEF Finish, Rest, Elsewhere, TypeOK
<1>2. Tidy(c)'
  BY <1>1, Zenon DEF Tidy
<1>3. \A u \in Threads : Resident(u)' => Resident(u)
  BY <1>1, Zenon DEF Resident
<1>4. \A u \in Threads : ~StillLeaving(c, u)'
  BY <1>1, NamesAssumption DEF StillLeaving
<1>5. \A u \in Threads : Holds(c, u)' => Holds(c, u)
  BY <1>1, Zenon DEF Holds
<1>6. ASSUME NEW u \in Threads, Resident(u), u = prev[c]  PROVE Handed(u)'
  <2>1. StillLeaving(c, u) /\ Handed(u)
    BY <1>6, Zenon DEF StillLeaving, AllHanded
  <2>2. \A d \in CPUs : ~Holds(d, u) /\ (StillLeaving(d, u) => d = c)
    BY <2>1, Zenon DEF Handed
  <2>. QED  BY <1>1, <1>4, <1>5, <2>2, RestLeaving, HandedLoose, Zenon
<1>7. ASSUME NEW u \in Threads, u # prev[c]  PROVE Bystander(c, u)
  <2>1. pc[c] # "switch"
    BY <1>1
  <2>. QED  BY <1>1, <1>4, <1>5, <1>7, <2>1, Zenon DEF Bystander
<1>. QED  BY <1>1, <1>2, <1>3, <1>6, <1>7, HandedStep, Zenon

\* Steps of the thread that CPU c runs and goes on having in hand.
LEMMA HandedCalls ==
  ASSUME TypeOK, AllSeparate, AllLeavers, AllTidy, AllHanded, OneThreadGroups,
         NEW c \in CPUs, NEW t \in Threads, NEW aff \in CPUs,
         Block(c, t) \/ ExitGroup(c, t) \/ SetAffinityGlobal(c, t, aff)
  PROVE  AllTidy' /\ AllHanded'
<1>. USE DEF cpuVars, queues, fpuVars, places, Goto
<1>1. /\ Rest(c) /\ current' = current /\ prev' = prev /\ chosen' = chosen
      /\ cpuid' = cpuid /\ machine' = machine /\ shared' = shared
      /\ pc[c] = "user" /\ current[c] = t /\ pc'[c] \in {"user", "sched"}
  BY Zenon DEF Block, ExitGroup, SetAffinityGlobal, Calls, Rest, Elsewhere, TypeOK
<1>2. \A u \in Threads : u # t =>
        /\ exit'[u] = exit[u] /\ state'[u] = state[u] /\ kstack'[u] = kstack[u]
        /\ affinity'[u] = affinity[u] /\ (u \in waiting' => u \in waiting)
  <2>1. CASE ExitGroup(c, t)
    BY <2>1, Zenon DEF ExitGroup, OneThreadGroups
  <2>2. CASE Block(c, t)
    BY <2>2, Zenon DEF Block, TypeOK
  <2>3. CASE SetAffinityGlobal(c, t, aff)
    BY <2>3, Zenon DEF SetAffinityGlobal, TypeOK
  <2>. QED  BY <2>1, <2>2, <2>3, Zenon
<1>3. t \notin Migrants => kstack' = kstack
  BY Zenon DEF Block, ExitGroup, SetAffinityGlobal
<1>4. prev[c] = Idle /\ chosen[c] = Idle
  BY <1>1 DEF AllTidy, Tidy
<1>5. Tidy(c)'
  BY <1>1, <1>4 DEF Tidy
<1>6. ASSUME NEW u \in Threads, Resident(u)'  PROVE Resident(u)
  <2>1. affinity'[u] = NoAff => affinity[u] = NoAff
    BY NamesAssumption, Zenon DEF Block, ExitGroup, SetAffinityGlobal, TypeOK
  <2>. QED  BY <1>6, <2>1, Zenon DEF Resident
<1>7. \A u \in Threads : ~StillLeaving(c, u)'
  BY <1>1, <1>4, NamesAssumption DEF StillLeaving
<1>8. ASSUME Resident(t)  PROVE Handed(t)'
  <2>1. /\ kstack[t] = "LOCKED" /\ cpuid[t] = c
        /\ \A d \in CPUs : ~StillLeaving(d, t)
        /\ \A d \in CPUs \ {c} : ~Holds(d, t)
    BY <1>1, <1>8, HeldCurrent, Zenon
  <2>2. kstack'[t] = "LOCKED" /\ cpuid'[t] = c
    BY <1>1, <1>3, <1>8, <2>1, Zenon DEF Resident
  <2>. QED  BY <1>1, <1>7, <2>1, <2>2, RestLeaving, HandedHeld, Zenon
<1>9. ASSUME NEW u \in Threads, u # t  PROVE Bystander(c, u)
  <2>1. ~Holds(c, u)'
    BY <1>1, <1>9 DEF Holds
  <2>. QED  BY <1>1, <1>2, <1>7, <1>9, <2>1, Zenon DEF Bystander
<1>. QED  BY <1>1, <1>5, <1>6, <1>8, <1>9, HandedStep, Zenon

\* rr_sched turns away from a thread that waits, exits or migrates, and that it puts
\* into no queue of this machine.
LEMMA HandedLeaves ==
  ASSUME TypeOK, AllSeparate, AllClean, AllLeavers, AllAtHome, AllTidy, AllHanded, NoBug',
         NEW c \in CPUs, NEW t \in Idents,
         LeaveAside(c, t) \/ (t \in Threads /\ (Retire(c, t) \/ Migrate(c, t)))
  PROVE  AllTidy' /\ AllHanded'
<1>. USE DEF cpuVars, queues, fpuVars, places, Goto
<1>1. /\ Rest(c) /\ current' = current /\ prev' = prev /\ chosen' = chosen
      /\ cpuid' = cpuid /\ machine' = machine /\ affinity' = affinity /\ waiting' = waiting
      /\ pc[c] \in {"sched", "urgent"} /\ current[c] = t /\ pc'[c] = "pick"
  <2>1. pc'[c] # "bug"
    BY Zenon DEF NoBug
  <2>2. LeaveAside(c, t) => pc'[c] = "pick"
    BY <2>1, Zenon DEF LeaveAside, TypeOK
  <2>. QED  BY <2>2, Zenon DEF LeaveAside, Retire, Migrate, InSched, PutShared, Rest, Elsewhere, TypeOK
<1>2. \A u \in Threads : u # t =>
        /\ exit'[u] = exit[u] /\ state'[u] = state[u] /\ kstack'[u] = kstack[u]
        /\ \A e \in CPUs : u \in Elems(shared'[e]) => u \in Elems(shared[e])
  <2>1. CASE LeaveAside(c, t)
    BY <2>1, Zenon DEF LeaveAside
  <2>2. CASE t \in Threads /\ Retire(c, t)
    BY <2>2, Zenon DEF Retire, TypeOK
  <2>3. CASE t \in Threads /\ Migrate(c, t)
    <3>1. /\ exit' = exit /\ kstack' = kstack /\ affinity[t] \in CPUs
          /\ \A u \in Threads : u # t => state'[u] = state[u]
          /\ \A e \in CPUs : shared'[e] = IF e = affinity[t] THEN Append(shared[e], t) ELSE shared[e]
      BY <2>3, NamesAssumption, Zenon DEF Migrate, PutShared, IsLocal, TypeOK
    <3>2. \A e \in CPUs : Elems(Append(shared[e], t)) = Elems(shared[e]) \cup {t}
      BY <2>3, ElemsAppend, Zenon DEF TypeOK
    <3>. QED  BY <3>1, <3>2
  <2>. QED  BY <2>1, <2>2, <2>3, Zenon
<1>3. prev[c] = Idle /\ chosen[c] = Idle
  BY <1>1 DEF AllTidy, Tidy
<1>4. Tidy(c)'
  BY <1>1, <1>3 DEF Tidy
<1>5. \A u \in Threads : Resident(u)' => Resident(u)
  BY <1>1, Zenon DEF Resident
<1>6. \A u \in Threads : ~Holds(c, u)'
  BY <1>1 DEF Holds
<1>7. ASSUME t \in Threads, Resident(t)  PROVE Handed(t)'
  <2>1. /\ Holds(c, t) /\ kstack[t] = "LOCKED" /\ cpuid[t] = c /\ ~InQueue(t) /\ state[t] # "INIT"
        /\ \A d \in CPUs : ~StillLeaving(d, t)
        /\ \A d \in CPUs \ {c} : ~Holds(d, t)
    BY <1>1, <1>7, HeldCurrent, Zenon
  <2>2. machine[t] = c[1]
    BY <1>7, <2>1, Zenon DEF AllAtHome, AtHome
  <2>3. ~Migrate(c, t)
    BY <1>7 DEF Migrate, Resident, AllLeavers, Leaver
  <2>4. shared' = shared /\ (kstack'[t] = "LOCKED" \/ exit'[t] = "EXITED")
    BY <1>7, <2>1, <2>3, Zenon DEF LeaveAside, Retire, TypeOK
  <2>5. state'[t] # "INIT"
    BY <1>7, <2>1, <2>3 DEF LeaveAside, Retire, TypeOK
  <2>6. \A e \in CPUs : t \notin Elems(shared'[e])
    BY <1>7, <2>1, <2>4, Zenon DEF InQueue, Queued
  <2>. QED
    BY <1>1, <1>6, <1>7, <2>1, <2>2, <2>4, <2>5, <2>6, RestLeaving, HandedLeft, Zenon
<1>8. ASSUME NEW u \in Threads, u # t  PROVE Bystander(c, u)
  <2>1. ~StillLeaving(c, u)'
    BY <1>1, <1>3, <1>8, NamesAssumption DEF StillLeaving
  <2>. QED  BY <1>1, <1>2, <1>6, <1>8, <2>1, Zenon DEF Bystander
<1>. QED  BY <1>1, <1>4, <1>5, <1>7, <1>8, HandedStep, Zenon

\* rr_sched_enqueue of a thread that is bound to no other machine uses no shared queue.
LEMMA EnqueueLocal ==
  ASSUME TypeOK, NEW c \in CPUs, NEW t \in Threads, Enqueue(c, t), IsLocal(c, affinity[t])
  PROVE  shared' = shared
<1>1. CASE exit[t] = "EXITING"
  BY <1>1, Zenon DEF Enqueue, queues
<1>2. CASE exit[t] # "EXITING"
  <2>. DEFINE bind == CpuBind(c, t)
  <2>1. PICK g \in (IF bind = NoAff THEN ChooseCpu(c) ELSE {bind}) :
          IF IsLocal(c, g) THEN PutReady(t, g) ELSE PutShared(t, g, "TO_SCHED")
    BY <1>2, Zenon DEF Enqueue
  <2>2. IsLocal(c, g)
    <3>1. CASE bind = NoAff
      <4>1. ChooseCpu(c) \subseteq {d \in CPUs : IsLocal(c, d)}
        BY CpuPairs, NamesAssumption DEF ChooseCpu, IsLocal
      <4>. QED  BY <2>1, <3>1, <4>1, Zenon
    <3>2. CASE bind # NoAff
      <4>1. bind = affinity[t] \/ bind[1] = c[1]
        BY DEF CpuBind
      <4>. QED  BY <2>1, <3>2, <4>1, Zenon DEF IsLocal
    <3>. QED  BY <3>1, <3>2, Zenon
  <2>. QED  BY <2>1, <2>2, Zenon DEF PutReady
<1>. QED  BY <1>1, <1>2, Zenon

\* A far signal sends a thread with no affinity back to the CPU that it ran on last.
LEMMA SignalReturns ==
  ASSUME TypeOK, AllSeparate, AllClean, AllAtHome, Homely, NEW c \in CPUs, NEW t \in Threads,
         Signal(c, t), Resident(t)
  PROVE  shared' = shared \/ PutsShared(t, <<machine[t], cpuid[t][2]>>)
<1>1. /\ t \in waiting /\ EnqueueToAffinity(c, t) /\ (t \in FarSignalled \/ machine[t] = c[1])
  BY Zenon DEF Signal
<1>2. exit[t] = "RUNNING"
  BY <1>1, Zenon DEF AllClean, Clean
<1>3. affinity[t] = NoAff \/ affinity[t][1] = machine[t]
  BY <1>2 DEF AllAtHome, AtHome
<1>4. CASE machine[t] = c[1]
  <2>1. IsLocal(c, affinity[t])
    BY <1>3, <1>4, Zenon DEF IsLocal
  <2>2. IsLocal(c, CpuBind(c, t))
    BY <2>1 DEF CpuBind, IsLocal
  <2>3. Enqueue(c, t)
    BY <1>1, <1>4, <2>2, Zenon DEF EnqueueToAffinity
  <2>. QED  BY <2>1, <2>3, EnqueueLocal, Zenon
<1>5. CASE machine[t] # c[1]
  <2>1. t \in FarSignalled /\ affinity[t] = NoAff
    BY <1>1, <1>5, Zenon DEF Resident
  <2>2. ownedFpu[t] = NoCpu
    BY <2>1, Zenon DEF AllAtHome, AtHome, Homely
  <2>3. CpuBind(c, t) = NoAff
    BY <2>1, <2>2, Zenon DEF CpuBind
  <2>4. exit[t] # "EXITING"
    BY <1>2
  <2>5. PutShared(t, <<machine[t], cpuid[t][2]>>, "READY")
    BY <1>1, <1>5, <2>3, <2>4, Zenon DEF EnqueueToAffinity
  <2>. QED  BY <2>5, Zenon DEF PutShared, PutsShared
<1>. QED  BY <1>4, <1>5, Zenon

\* create_thread, the end of a time slice, and signal_notific.
LEMMA HandedPuts ==
  ASSUME TypeOK, AllSeparate, AllClean, AllLeavers, AllAtHome, AllTidy, AllHanded, Homely,
         NEW c \in CPUs, NEW t \in Threads, Create(c, t) \/ Preempt(c, t) \/ Signal(c, t)
  PROVE  AllTidy' /\ AllHanded'
<1>. USE DEF cpuVars, queues, fpuVars, places, Goto
<1>1. /\ Puts(c, t) /\ Elsewhere(c) /\ current' = current /\ chosen' = chosen /\ ~InQueue(t)
      /\ t \notin waiting' /\ waiting' \subseteq waiting
      /\ \A d \in CPUs : ~Holds(d, t)'
      /\ pc' = pc \/ pc'[c] = "pick"
  BY PutFacts, Zenon
<1>2. /\ affinity' = affinity /\ machine' = machine /\ kstack' = kstack /\ prev' = prev
      /\ Rest(c)
  BY <1>1, Zenon DEF Create, Preempt, Signal, Rest
<1>3. exit' = exit /\ exit[t] # "EXITING"
  BY LeaverPuts, Zenon
<1>4. \A u \in Threads : u # t => state'[u] = state[u] /\ cpuid'[u] = cpuid[u]
  <2>1. \A u \in Threads : u # t => state'[u] = state[u]
    BY <1>1, PutsQueue, Zenon DEF AllSeparate
  <2>2. Enqueue(c, t) => \A u \in Threads : u # t => cpuid'[u] = cpuid[u]
    BY Zenon DEF Enqueue, PutReady, PutShared, TypeOK
  <2>3. EnqueueToAffinity(c, t) => \A u \in Threads : u # t => cpuid'[u] = cpuid[u]
    BY <2>2, Zenon DEF EnqueueToAffinity, PutShared
  <2>. QED  BY <2>1, <2>2, <2>3, Zenon DEF Create, Preempt, Signal
<1>5. state'[t] # "INIT"
  <2>1. state'[t] \in {"READY", "TO_SCHED"}
    BY <1>1, PutsQueue, Zenon DEF AllSeparate
  <2>. QED  BY <2>1
<1>6. \A u \in Threads : Resident(u)' => Resident(u)
  BY <1>2, Zenon DEF Resident
<1>7. /\ pc[c] \in {"user", "sched", "urgent"} /\ pc'[c] \in {"user", "pick"}
      /\ pc'[c] = "user" => pc[c] = "user"
  BY Zenon DEF Create, Preempt, Signal, InSched, TypeOK
<1>8. prev[c] = Idle /\ chosen[c] = Idle
  BY <1>7 DEF AllTidy, Tidy
<1>9. Tidy(c)'
  BY <1>1, <1>2, <1>7, <1>8 DEF Tidy
<1>10. ASSUME Resident(t), Create(c, t)  PROVE Handed(t)'
  <2>1. state[t] = "INIT" /\ pc' = pc
    BY <1>10, Zenon DEF Create
  <2>2. \A d \in CPUs : ~StillLeaving(d, t)
    BY <1>10, <2>1, Zenon DEF AllHanded, Handed
  <2>3. \A d \in CPUs : ~StillLeaving(d, t)'
    BY <1>1, <1>2, <2>1, <2>2, Zenon DEF StillLeaving
  <2>. QED  BY <1>1, <2>3, HandedLoose, Zenon
<1>11. ASSUME Resident(t), Preempt(c, t)  PROVE Handed(t)'
  <2>1. current[c] = t /\ pc[c] \in {"sched", "urgent"} /\ Enqueue(c, t) /\ exit[t] = "RUNNING"
    BY <1>11, Zenon DEF Preempt, InSched
  <2>2. /\ kstack[t] = "LOCKED" /\ \A d \in CPUs : ~StillLeaving(d, t)
        /\ Holds(c, t)
    BY <1>11, <2>1, HeldCurrent, Zenon
  <2>3. IsLocal(c, affinity[t])
    <3>1. machine[t] = c[1] /\ (affinity[t] = NoAff \/ affinity[t][1] = machine[t])
      BY <2>1, <2>2 DEF AllAtHome, AtHome
    <3>. QED  BY <3>1, Zenon DEF IsLocal
  <2>4. shared' = shared
    BY <2>1, <2>3, EnqueueLocal, Zenon
  <2>5. \A e \in CPUs : t \notin Elems(shared'[e])
    BY <1>1, <2>4, Zenon DEF InQueue, Queued
  <2>. QED  BY <1>1, <1>2, <1>5, <2>2, <2>5, RestLeaving, HandedLeft, Zenon
<1>12. ASSUME Resident(t), Signal(c, t)  PROVE Handed(t)'
  <2>1. /\ t \in waiting /\ pc' = pc
        /\ \A d \in CPUs : current[d] = t => pc[d] \in {"user", "eret"}
    BY <1>12, Zenon DEF Signal
  <2>2. \A d \in CPUs : StillLeaving(d, t)' <=> StillLeaving(d, t)
    BY <1>1, <1>2, <2>1, Zenon DEF StillLeaving
  <2>3. Handed(t)
    BY <1>12, Zenon DEF AllHanded
  <2>4. ASSUME NEW d \in CPUs, NEW e \in CPUs, StillLeaving(d, t), t \in Elems(shared'[e])
        PROVE  e = d /\ pc[d] = "eret"
    <3>1. cpuid[t] = d /\ machine[t] = d[1]
      BY <2>1, <2>3, <2>4, Zenon DEF Handed
    <3>2. <<machine[t], cpuid[t][2]>> = d
      BY <3>1 DEF CPUs
    <3>3. t \notin Elems(shared[e])
      BY <1>1, Zenon DEF InQueue, Queued
    <3>4. PutsShared(t, d)
      BY <1>12, <2>4, <3>2, <3>3, SignalReturns, Zenon
    <3>5. e # d => shared'[e] = shared[e]
      BY <3>4, Zenon DEF PutsShared, TypeOK
    <3>6. prev[d] = t
      BY <2>1, <2>4 DEF StillLeaving
    <3>7. pc[d] = "eret"
      BY <3>6, NamesAssumption, Zenon DEF AllTidy, Tidy
    <3>. QED  BY <2>4, <3>3, <3>5, <3>7, Zenon
  <2>5. \A d, e \in CPUs : StillLeaving(d, t)' /\ (t \in Elems(shared[e]))' => e = d /\ pc'[d] = "eret"
    BY <2>1, <2>2, <2>4, Zenon DEF Elems
  <2>. QED  BY <1>1, <1>2, <1>3, <1>5, <2>2, <2>3, <2>5, Zenon DEF Handed
<1>13. ASSUME NEW u \in Threads, u # t  PROVE Bystander(c, u)
  <2>1. Holds(c, u)' => Holds(c, u) /\ pc[c] # "switch"
    BY <1>1, <1>7 DEF Holds
  <2>2. ~StillLeaving(c, u)'
    <3>1. pc'[c] # "pick" \/ current[c] = t
      BY <1>7, Zenon DEF Create, Preempt, Signal
    <3>. QED  BY <1>1, <1>2, <1>7, <1>8, <1>13, <3>1, NamesAssumption DEF StillLeaving
  <2>3. \A e \in CPUs : u \in Elems(shared'[e]) => u \in Elems(shared[e])
    BY <1>1, <1>13, PutsWhere
  <2>. QED  BY <1>1, <1>2, <1>3, <1>4, <1>13, <2>1, <2>2, <2>3, Zenon DEF Bystander
<1>. QED  BY <1>2, <1>6, <1>9, <1>10, <1>11, <1>12, <1>13, HandedStep, Zenon

\* The drain of a shared queue, which frees the kernel stack of what it takes.
LEMMA HandedDrain ==
  ASSUME TypeOK, AllSeparate, AllClean, AllTidy, AllHanded, NEW c \in CPUs, Drain(c) \/ DrainUrgent(c)
  PROVE  AllTidy' /\ AllHanded'
<1>1. PICK t \in Threads :
        /\ t \in Elems(shared[c]) /\ InQueue(t) /\ exit'[t] = "RUNNING" /\ state'[t] = "READY"
        /\ \A u \in Threads : u # t =>
             /\ exit'[u] = exit[u] /\ state'[u] = state[u] /\ kstack'[u] = kstack[u]
             /\ machine'[u] = machine[u] /\ cpuid'[u] = cpuid[u]
             /\ InQueue(u)' => InQueue(u)
             /\ \A d \in CPUs : u \in Elems(shared'[d]) => u \in Elems(shared[d])
        /\ UNCHANGED <<pc, cpuVars, fpuVars, affinity, waiting>>
  BY DrainFacts, Zenon
<1>2. /\ pc' = pc /\ current' = current /\ chosen' = chosen /\ prev' = prev /\ affinity' = affinity
      /\ waiting' = waiting
  BY <1>1, Zenon DEF cpuVars
<1>3. pc[c] \in {"pick", "urgent"}
  BY Zenon DEF Drain, DrainUrgent
<1>4. Rest(c) /\ Tidy(c)' /\ \A u \in Threads : Resident(u)' => Resident(u)
  BY <1>2, Zenon DEF Rest, Elsewhere, AllTidy, Tidy, Resident
<1>5. \A d \in CPUs, u \in Threads : /\ Holds(d, u)' <=> Holds(d, u)
                                     /\ StillLeaving(d, u)' <=> StillLeaving(d, u)
  BY <1>2, Zenon DEF Holds, StillLeaving
<1>6. ASSUME Resident(t)  PROVE Handed(t)'
  <2>1. \A d \in CPUs : ~Holds(d, t)
    BY <1>1, InQueueOnly, Zenon
  <2>2. \A d \in CPUs : ~StillLeaving(d, t)
    BY <1>1, <1>3, <1>6 DEF AllHanded, Handed
  <2>. QED  BY <1>5, <2>1, <2>2, HandedLoose, Zenon
<1>7. ASSUME NEW u \in Threads, u # t  PROVE Bystander(c, u)
  <2>1. pc[c] # "switch"
    BY <1>3
  <2>. QED  BY <1>1, <1>2, <1>5, <1>7, <2>1, Zenon DEF Bystander
<1>. QED  BY <1>4, <1>6, <1>7, HandedStep, Zenon

\* find_runnable_thread takes a thread that no CPU is leaving, or that this one is.
LEMMA HandedPick ==
  ASSUME TypeOK, AllSeparate, AllLeavers, AllTidy, AllHanded,
         NEW c \in CPUs, NEW i \in DOMAIN ready[c], Pick(c, i)
  PROVE  AllTidy' /\ AllHanded'
<1>1. PICK t \in Threads :
        /\ InQueue(t) /\ Runnable(c, t) /\ chosen'[c] = t
        /\ pc[c] = "pick" /\ pc'[c] = "switch" /\ Elsewhere(c)
        /\ \A u \in Threads : u # t => state'[u] = state[u]
        /\ UNCHANGED <<current, prev, shared, fpuVars, places, kstack, waiting, exit>>
  BY PickFacts, Zenon
<1>2. /\ current' = current /\ prev' = prev /\ affinity' = affinity /\ waiting' = waiting
      /\ shared' = shared /\ kstack' = kstack /\ exit' = exit /\ cpuid' = cpuid /\ machine' = machine
      /\ Rest(c)
  BY <1>1, Zenon DEF places, Rest
<1>3. prev[c] = Idle /\ chosen[c] = Idle
  BY <1>1 DEF AllTidy, Tidy
<1>4. Tidy(c)' /\ \A u \in Threads : Resident(u)' => Resident(u)
  <2>1. Tidy(c)'
    BY <1>1, <1>2, <1>3 DEF Tidy
  <2>. QED  BY <1>2, <2>1, Zenon DEF Resident
<1>5. ASSUME Resident(t)  PROVE Handed(t)'
  <2>1. t # Idle /\ Handed(t) /\ \A d \in CPUs : ~Holds(d, t)
    BY <1>1, <1>5, InQueueOnly, NamesAssumption, Zenon DEF AllHanded
  <2>2. current[c] = t => StillLeaving(c, t)
    BY <1>1, <1>3, <2>1, Zenon DEF StillLeaving
  <2>3. \A d \in CPUs : StillLeaving(d, t) => d = c /\ kstack[t] = "LOCKED"
    <3>1. \A d \in CPUs : StillLeaving(d, t) => kstack[t] = "LOCKED"
      BY <1>1, <2>1 DEF Runnable, Handed
    <3>2. kstack[t] = "LOCKED" => t = current[c]
      BY <1>1 DEF Runnable
    <3>. QED  BY <2>1, <2>2, <3>1, <3>2, Zenon DEF Handed
  <2>4. ~StillLeaving(c, t)'
    BY <1>1, <1>2, <1>3, <2>1, Zenon DEF StillLeaving
  <2>5. \A d \in CPUs : ~StillLeaving(d, t)'
    BY <1>2, <2>3, <2>4, RestLeaving, Zenon
  <2>6. current'[c] = t => kstack'[t] = "LOCKED" /\ (pc'[c] # "switch" => cpuid'[t] = c)
    BY <1>1, <1>2, <2>2, <2>3, Zenon
  <2>. QED  BY <1>2, <2>1, <2>5, <2>6, RestLeaving, HandedHeld, Zenon
<1>6. ASSUME NEW u \in Threads, u # t  PROVE Bystander(c, u)
  <2>1. ~Holds(c, u)'
    BY <1>1, <1>6 DEF Holds
  <2>2. StillLeaving(c, u)' => StillLeaving(c, u) /\ pc[c] # "eret"
    BY <1>1, <1>2, <1>3, <1>6, NamesAssumption DEF StillLeaving
  <2>. QED  BY <1>1, <1>2, <1>6, <2>1, <2>2, Zenon DEF Bystander
<1>. QED  BY <1>2, <1>4, <1>5, <1>6, HandedStep, Zenon

\* switch_to_thread: the CPU takes up t and has still to finish with the one before.
LEMMA HandedSwitch ==
  ASSUME TypeOK, AllSeparate, AllTidy, AllHanded, NoBug', NEW c \in CPUs, NEW t \in Idents, SwitchTo(c, t)
  PROVE  AllTidy' /\ AllHanded'
<1>. USE DEF cpuVars, queues, fpuVars, places, Goto
<1>1. pc[c] = "switch" /\ chosen[c] = t /\ chosen' = chosen
  BY Zenon DEF SwitchTo
<1>2. ~(t # Idle /\ (state[t] = "READY" \/ exit[t] # "RUNNING"))
  BY Zenon DEF SwitchTo, NoBug, TypeOK
<1>3. /\ pc' = [pc EXCEPT ![c] = "eret"]
      /\ current' = [current EXCEPT ![c] = t]
      /\ prev' = [prev EXCEPT ![c] = IF t = current[c] THEN Idle ELSE current[c]]
      /\ state' = [u \in Threads |-> IF u = t THEN "RUNNING" ELSE state[u]]
      /\ kstack' = [u \in Threads |-> IF u = t /\ t # current[c] THEN "LOCKED" ELSE kstack[u]]
      /\ cpuid' = [u \in Threads |-> IF u = t THEN c ELSE cpuid[u]]
      /\ shared' = shared /\ affinity' = affinity /\ machine' = machine /\ exit' = exit
      /\ waiting' = waiting
  BY <1>2, Zenon DEF SwitchTo
<1>4. /\ Rest(c) /\ pc'[c] = "eret" /\ current'[c] = t
      /\ prev'[c] = IF t = current[c] THEN Idle ELSE current[c]
  BY <1>1, <1>3, Zenon DEF Rest, Elsewhere, TypeOK
<1>5. prev[c] = Idle
  BY <1>1 DEF AllTidy, Tidy
<1>6. Tidy(c)' /\ \A u \in Threads : Resident(u)' => Resident(u)
  <2>1. Tidy(c)'
    BY <1>4 DEF Tidy
  <2>. QED  BY <1>3, <2>1, Zenon DEF Resident
<1>7. ASSUME t \in Threads, Resident(t)  PROVE Handed(t)'
  <2>1. Holds(c, t) /\ Handed(t) /\ t # Idle
    BY <1>1, <1>7, NamesAssumption, Zenon DEF Holds, AllHanded
  <2>2. /\ \A d \in CPUs \ {c} : ~Holds(d, t)
        /\ \A d \in CPUs : ~StillLeaving(d, t)
    BY <1>7, <2>1, InHand, Zenon DEF Handed
  <2>3. ~StillLeaving(c, t)'
    BY <1>4, <2>1 DEF StillLeaving
  <2>4. kstack'[t] = "LOCKED" /\ cpuid'[t] = c
    BY <1>3, <1>7, <2>1, Zenon DEF Handed
  <2>. QED  BY <1>4, <1>7, <2>2, <2>3, <2>4, RestLeaving, HandedHeld, Zenon
<1>8. ASSUME NEW u \in Threads, u # t  PROVE Bystander(c, u)
  <2>1. ~Holds(c, u)'
    BY <1>4, <1>8 DEF Holds
  <2>2. StillLeaving(c, u)' => StillLeaving(c, u) /\ pc[c] # "eret"
    BY <1>1, <1>4, <1>8, NamesAssumption DEF StillLeaving
  <2>. QED  BY <1>3, <1>8, <2>1, <2>2, Zenon DEF Bystander
<1>. QED  BY <1>4, <1>6, <1>7, <1>8, HandedStep, Zenon

LEMMA HandedNext ==
  ASSUME TypeOK, AllSeparate, AllClean, AllLeavers, AllAtHome, AllTidy, AllHanded, NoBug',
         OneThreadGroups, Homely, [Next]_vars
  PROVE  AllTidy' /\ AllHanded'
<1>1. CASE UNCHANGED vars
  <2>. USE DEF vars, cpuVars, queues, places
  <2>1. AllTidy'
    BY <1>1, Zenon DEF AllTidy, Tidy
  <2>2. ASSUME NEW u \in Threads, Resident(u)'  PROVE Handed(u)'
    <3>1. Resident(u) /\ Handed(u)
      BY <1>1, <2>2, Zenon DEF Resident, AllHanded
    <3>2. \A c \in CPUs : /\ Holds(c, u)' <=> Holds(c, u)
                          /\ StillLeaving(c, u)' <=> StillLeaving(c, u)
                          /\ (u \in Elems(shared[c]))' <=> u \in Elems(shared[c])
      BY <1>1, Zenon DEF Holds, StillLeaving, Elems
    <3>. QED  BY <1>1, <3>1, <3>2, Zenon DEF Handed
  <2>. QED  BY <2>1, <2>2, Zenon DEF AllHanded
<1>2. ASSUME NEW c \in CPUs, Interrupt(c) \/ SchedStep(c) \/ UserStep(c)  PROVE AllTidy' /\ AllHanded'
  <2>1. CASE \E t, u \in Threads, aff \in CPUs :
               \/ Interrupt(c) \/ Doorbell(c) \/ PickIdle(c) \/ UseFpu(c, t) \/ SetAffinityOf(c, t, u, aff)
    BY <2>1, HandedQuiet, Zenon
  <2>2. CASE \E t \in Threads, aff \in CPUs :
               Block(c, t) \/ ExitGroup(c, t) \/ SetAffinityGlobal(c, t, aff)
    BY <2>2, HandedCalls, Zenon
  <2>3. CASE \E t \in Idents :
               \/ LeaveAside(c, t) \/ SwitchTo(c, t) \/ Finish(c)
               \/ t \in Threads /\ (Retire(c, t) \/ Migrate(c, t))
    BY <2>3, HandedLeaves, HandedSwitch, HandedFinish, Zenon
  <2>4. CASE \E t \in Threads : Create(c, t) \/ Preempt(c, t) \/ Signal(c, t)
    BY <2>4, HandedPuts, Zenon
  <2>5. CASE Drain(c) \/ DrainUrgent(c) \/ \E i \in DOMAIN ready[c] : Pick(c, i)
    BY <2>5, HandedDrain, HandedPick, Zenon
  <2>6. CASE (Interrupt(c) \/ Doorbell(c) \/ PickIdle(c)) /\ Threads = {}
    <3>1. AllHanded'
      BY <2>6, Zenon DEF AllHanded
    <3>2. AllTidy'
      BY <2>6 DEF AllTidy, Tidy, Interrupt, Doorbell, PickIdle, cpuVars, Goto, TypeOK
    <3>. QED  BY <3>1, <3>2, Zenon
  <2>7. Targets \subseteq CPUs /\ Idle \in Idents /\ Threads \subseteq Idents
    BY NamesAssumption, Zenon DEF Idents
  <2>. QED
    BY <1>2, <2>1, <2>2, <2>3, <2>4, <2>5, <2>6, <2>7, Zenon DEF SchedStep, UserStep, Idents
<1>. QED  BY <1>1, <1>2, Zenon DEF Next

LEMMA HandedInit == Init => AllTidy /\ AllHanded /\ AllLeavers /\ AllRegisters
<1>. SUFFICES ASSUME Init  PROVE AllTidy /\ AllHanded /\ AllRegisters
  BY LeaverInit, Zenon
<1>1. \A t \in Threads, c \in CPUs : ~Holds(c, t) /\ ~StillLeaving(c, t)
  BY NamesAssumption DEF Init, Holds, StillLeaving
<1>2. AllHanded
  BY <1>1, Zenon DEF AllHanded, Handed
<1>3. AllTidy /\ AllRegisters
  BY Zenon DEF Init, AllTidy, Tidy, AllRegisters, Registers
<1>. QED  BY <1>2, <1>3, Zenon

-----------------------------------------------------------------------------
(* The theorems                                                            *)

\* No CPU runs a thread that another CPU is still leaving, whatever wakes, preempts and
\* queues it in between (kernel_stack_state, finish_switch), on any number of machines,
\* CPUs and threads, under the conditions of RunsAtHome.
THEOREM HandsOver ==
  ASSUME Threads \subseteq Yields, OneThreadGroups, Homely
  PROVE  Spec => []HandedOver
<1>. DEFINE I == TypeOK /\ AllSeparate /\ AllClean /\ AllAtHome /\ AllLeavers /\ AllTidy /\ AllHanded
<1>1. Init => I
  BY Initially, CleanInit, HomeInit, HandedInit, Zenon
<1>2. I /\ [Next]_vars => I'
  <2>. SUFFICES ASSUME I, [Next]_vars  PROVE I'
    BY Zenon
  <2>1. TypeOK' /\ AllSeparate' /\ AllClean' /\ AllAtHome' /\ AllLeavers'
    BY TypeStep, SeparateStep, CleanNext, HomeNext, LeaverNext, Zenon
  <2>2. NoBug'
    BY <2>1, Zenon DEF AllClean
  <2>. QED  BY <2>1, <2>2, HandedNext, Zenon
<1>3. I => HandedOver
  <2>1. \A c \in CPUs, t \in Threads : Executes(c, t) => Holds(c, t)
    BY Zenon DEF Executes, Holds
  <2>. QED  BY <2>1, Zenon DEF AllHanded, Handed, Resident, HandedOver
<1>. HIDE DEF I
<1>. QED  BY <1>1, <1>2, <1>3, PTL DEF Spec

\* What a thread left in the FPU registers is in its fpu_state or still in a CPU that
\* it owns, however lazily the FPU changes hands (change_fpu_owner,
\* save_and_release_fpu), on any number of machines, CPUs and threads, if every thread
\* yields when it migrates and is a program of its own, and no thread that uses the FPU
\* migrates.
THEOREM RegistersKept ==
  ASSUME Threads \subseteq Yields, OneThreadGroups, FpuStays
  PROVE  Spec => []FpuKept
<1>. DEFINE I == TypeOK /\ AllSeparate /\ AllClean /\ AllLeavers /\ AllRegisters
<1>1. Init => I
  BY Initially, CleanInit, HandedInit, Zenon
<1>2. I /\ [Next]_vars => I'
  BY TypeStep, SeparateStep, CleanNext, LeaverNext, RegistersNext, Zenon
<1>3. I => FpuKept
  BY DEF AllRegisters, Registers, FpuKept
<1>. HIDE DEF I
<1>. QED  BY <1>1, <1>2, <1>3, PTL DEF Spec
=============================================================================
