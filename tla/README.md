# TLA+ models of StarfishOS

StarfishOS runs one kernel per machine over CXL memory that all machines share.
`docs/01-design-overview.md` states the failure model: a machine crash is like
the crash of a group of processes, and shared coordination state must not block
the survivors. The models here are about that shared state and about the kernel
code where several CPUs, interrupts and machines meet.

## Inventory

| Part | Source | Module |
|---|---|---|
| crash-resilient reference counts | `kernel/dsm/dsm_ref.c` | `DsmRef`; proofs `DsmRefProofs`, `DsmRefCounts` |
| scheduler, lazy FPU, thread migration | `kernel/sched/policy_rr.c`, `sched.c`, `extended_state.c` | `Sched`; proofs `SchedProofs`, `SchedHandover` |
| polling service (requests by shared memory) | `kernel/mm/shm.c`, `user/system-servers/polling`, `kernel/arch/x86_64/mm/tlb.c` | `PollingQueue`, which implements `RequestQueue` |
| tmpfs log, image and recovery | `user/system-servers/tmpfs` | `CxlImage`, `TmpfsLog` |
| return of DRAM pages to their owner | `kernel/mm/remote_free.c` | `RemoteFree`; proofs `RemoteFreeProofs`, `RemotePages` |
| notifications, timeouts, waiting lists | `kernel/ipc/notification.c`, `kernel/irq/timer.c`, part of `kernel/mm/shm.c` | `Notification`; proofs `NotificationProofs` |

An `MC` module and `.cfg` files instantiate each for TLC. The parts meet as
follows: a notification wakes a thread through the scheduler (`Signal` in
`Sched` is the end of `signal_notific`, whose locks and timeouts are
`Notification`); a page fault promotes a page through the polling queue; freed
DRAM pages of another machine go back through `RemoteFree`. Each module takes
the others' part as one of its actions; none is composed with another.
`PROJECT.json` lists all parts, the hazards with the properties that cover them,
and the source lines of every definition.

## Modules

**DsmRef.** One variable per shared structure (`refInfo`, `era`, `redo`,
`token`, `ptr`) and the locals of each CPU. `dsm_ref_link` and `dsm_ref_unlink`
are split at each access to shared memory: `Load`, `EraSet`, `WriteRedo`,
`CasInfo`, `WritePtr`, `EraInc`, then `Embed` and `Return` for the recursion
over embedded references. Recovery is `StartRecovery`, `CheckVisible` (case A),
`ScanEra` (case B, one row per step), `ApplyRedo`, `ClearSlot`. A crash may fall
between any two steps. A redo entry is written in one step.
The API has no caller in the repository, so `FieldFree`, `Fresh` and `Uses` are
assumptions about callers: they do not race on one field, and link only objects
that are new or held by somebody. `MayUse` says which machines work on a field.
A machine joins only after its slot was recovered.

**Sched.** Per CPU a ready queue and a shared queue, the current and the chosen
thread and the thread being left; per thread the fields of `thread_ctx`. A CPU
enters `rr_sched` (`Interrupt`, `Doorbell`, or a system call of its thread:
`Block`, `SetAffinityGlobal`, `ExitGroup`), deals with the old thread
(`Preempt`, `Retire`, `Migrate`, `LeaveAside`), drains its shared queue
(`Drain`, `DrainUrgent`), picks (`Pick`, `PickIdle`), switches (`SwitchTo`) and
on return to user mode frees the stack it left (`Finish`, which is
`finish_switch`). Other CPUs act between any two of these. What one queue lock
covers is one step. `Enqueue` and `EnqueueToAffinity` contain the FPU rules of
`get_cpubind`. A failed `BUG_ON` is `pc = "bug"`. A CPU id is a pair of machine
and local number, and `is_fpu_owner` holds a local number, as in the code.
The built configuration is modelled: `CHCORE_KERNEL_RT` off, `DEFAULT_BUDGET` 1
(every tick preempts), lazy FPU switching on x86.

**PollingQueue.** The queue of one machine: `head`, `tail`, the free list and
the nodes' links, all with a generation, statuses, requests and answers.
Producers are kernel threads of another machine: they reserve a pending slot,
pop a node (`AllocLoad`, `AllocNext`, `AllocCas`), link it (`EnqInit` to
`EnqSwing`, `EnqHelp`), wait for `DQ_DONE`, and read the answer, or run into the
deadline and leave the node in the slot, which a later fault reaps (`ReapTake`,
`ReapConsume`). The server takes (`DeqLoad` to `DeqHead`), handles, answers, and
frees a node `DeferDepth` requests later, once it is `DQ_CONSUMED`.
`RequestQueue` is the promise: requests are queued in some order, served one by
one in that order, and each is received at most once, with its own answer. The
refinement mapping reads the abstract queue off the chain of nodes behind
`head` that are still `DQ_INIT`.

**CxlImage, TmpfsLog.** `CxlImage` is the image as a value (directory entries,
inode table, inode bitmap) with its updates, each of which `persist_range`
flushes before the next. `TmpfsLog` has the log, its tail and checkpoint mark.
An operation appends its entry (`AppendRaw`, after `Checkpoint` and the two
stores of `plog_truncate` when the log is full), commits it by the tail
(`Commit`), and makes its updates one by one (`Persist`); a rename over a name
is an unlink and a rename, two entries, as in `fs_wrapper_rename`. A crash may
fall between any two stores. Recovery replays on the image as it is, with the
code's rules for what it skips and which errors it takes for success, and may
crash itself. `tree` is the history: the effects of the committed entries.

**RemoteFree.** The per-machine state of `remote_free.c` (`pending`,
`hasPending`, the lock, `draining`, `ready`), the stack heads with their
generation, and the batches. Each read and CAS of a head is an action.
`Realloc` is the allocator handing a page out again; `Crash` loses a machine's
memory, `RemotePageFreeInit` is its next boot. The first three tests of
`drain_remote_page_free` are one step (the pop looks at the head again).

**Notification.** `notifc_lock`, the `queue_lock` of each waiter and the
`sleep_list_lock` of each CPU, with one action per acquisition that can wait and
per `try_lock`. A failed `BUG_ON` leaves the CPU spinning with its locks
(`pc = "bug"`). The waiting list is a sequence of pool nodes, because it is only
used under `notifc_lock`. Left out: irq notifications, requeue, non-blocking
waits, the exiting and stopping states, migrated targets, `nanosleep`, and
`kernel_stack_state` in `Run` (both are in `Sched`).

## Runs

| Run | Expected | What it shows |
|---|---|---|
| `dsm_ref` | pass | recovery repeats exactly the committed operations, counts stay exact, the dead machine's slot is released |
| `dsm_ref_rejoin` | violation | `RefCountExact` fails once a machine leaves and joins again: its era restarts at 1 |
| `dsm_ref_orphan` | violation | `EmbeddedReleased` fails when a crash hits the nested unlink |
| `sched` | pass | no thread is at two places, run by two CPUs or on a stack that is still used; FPU contents survive; no `BUG_ON`; a queued thread runs |
| `polling` | pass | the queue implements `RequestQueue`; no node is lost; linked requests are answered; the pool refills |
| `tmpfs_log` | pass | after crashes, in recovery too, the image has exactly the committed operations and is sound; requests and recoveries end |
| `tmpfs_log_rename` | violation | `Restores` fails without an `fsync` before a rename: an old write is replayed onto the renamed file |
| `remote_free` | pass | no batch is held twice, no page lost or freed twice |
| `remote_free_returns` | pass | every page given back is freed or lost with its giver; a batch never overflows |
| `remote_free_reboot` | violation | `DrainsOnlyReturned` fails: a batch pushed after the owner's init is drained |
| `notification` | pass | nobody is woken twice, the count is covered by the queue, locks are released, timed waits end |
| `notification_assert` | violation | `NoAssertionFails` fails: a signal that gives up leaves its waiter uncounted |

### What the passing runs depend on

* `RefCountExact` in `dsm_ref` needs one CPU per machine, one boot per machine
  and **each field worked by a single machine** (`MCMayUse`). Without the second
  condition it fails (`dsm_ref_rejoin`). Without the third it fails too: recovery
  repeats a link that was finished, after another machine has unlinked the field
  (`dsm_ref.c:371`). With a third machine it fails when the recovering machine
  dies between the CAS and the pointer write of an embedded unlink (depth 43
  with `NMachines = 3`, after about a million states).
* `sched` has conditions that its constants state, and TLC finds a violation
  when each is dropped:
  * *threads that ask for another machine yield before they wait* (`Yields`).
    Otherwise the tick migrates a thread that is in a waiting list, against the
    comment at `notification.c:181`, because `rr_sched` looks at `TE_MIGRATING`
    before the state (`WaitsUnqueued`);
  * *one thread per group* (`Group`). Otherwise `sys_exit_group` marks a thread
    between `Pick` and `SwitchTo`, and `switch_to_thread` stops at its `BUG_ON`
    (`sched.c:124`, `NoBug`);
  * *threads that migrate do not use the FPU*: `save_fpu_state` saves nothing
    for a thread in `TE_MIGRATING` (`extended_state.c:119`, `FpuKept`);
  * *FPU users are not woken by other machines*: `get_cpubind` takes the local
    CPU number in `is_fpu_owner` for one of the waker's machine (`sched.c:383`),
    and the thread runs there with the `machine_id` of its owner
    (`RunsOnItsMachine`);
  * `HandedOver` excludes, in its statement, threads that migrate or are pinned
    and woken from elsewhere: the drain resets `kernel_stack_state` whatever the
    source CPU does with the stack (`policy_rr.c:224`).
* `polling` needs `NumNodes >= DeferDepth + 1` (with two nodes and a ring of two
  `PoolRefills` fails; the assertion at `shm.h:333` asks for two nodes) and a
  server that starts before the first request (`LateBoot = FALSE`):
  `create_polling_threads` initialises the region again (`polling_server.c:287`),
  and with `LateBoot = TRUE` it wipes requests (`IsRequestQueue` fails). The
  tmpfs server avoids that, by a comment in `tmpfs_polling.c`.
* `tmpfs_log` has clients that follow `Settled` (`Careful = TRUE`): they rename
  files only, after an `fsync` of what touched either name, and create a name
  that was renamed away, or make a directory of a removed file's name, after an
  `fsync`. The log replays entries by name, so without this an old entry finds
  the wrong file (`tmpfs_log_rename`), or a directory, where replay stops at the
  `BUG_ON` of `tfs_file_write`. It also has inodes to spare: an interrupted
  unlink leaks its inode, and with two inodes a later creat is logged, fails
  with `-ENOSPC` and stays committed.
* `remote_free` lets a machine that gives pages back crash, not the owner.
* `LocksAreReleased` and `TimedWaitEnds` allow for the failed assertion that
  `notification_assert` exhibits: they say what holds unless it fires.

### Bounds

* `dsm_ref`: two machines, two objects, one with an embedded field, three
  fields, eras up to 4 with a ring of 2, so entries are overwritten.
* `sched`: two machines of two CPUs, two threads, one of them an FPU user and
  one that migrates and is woken from afar, two targets for affinities (one on
  each machine): every pair of CPUs, on one machine and on two, can meet over a
  thread, and a queue can hold both. 37 thousand states. Larger instances, run
  once: four targets (352 thousand states), any home machine (1.0 million), and
  three threads, one bound to the other machine, for the invariants only
  (7.5 million); all hold.
* `polling`: two producers, two pending slots, three nodes, a ring of two, four
  requests, so that nodes are reused, the pool runs empty and both slots fill.
  Generations do not wrap here (64); with 2 and with 4 generations the
  properties hold as well, as do they with a ring of one, and, for safety, with
  four nodes (1.3 million states).
* `tmpfs_log`: two names, both loaded, four inodes, files of up to two blocks,
  a log of three entries, three requests and two crashes: the log fills in the
  middle of a request, and a recovery crashes. Four requests hold too, with one
  crash (2.9 million states), and with two crashes for files of one block.
* `remote_free`: two CPUs on one machine, one on each of two others, two pages,
  two batches of two, generations modulo 2, so that the generation wraps and a
  head value recurs while a producer holds it.
* `remote_free_returns`: one CPU on each of two machines, two pages, batches of
  two, so that a batch may stay partly filled until the poll, and a crash of the
  giver. Three pages hold as well (232 thousand states, six minutes).
* `notification`: two waiters, one of them timed, three waits each, one
  undelivered signal, seven nodes, which never run out.

### Fairness

A CPU inside the kernel keeps running, and timer interrupts keep coming: weak
fairness of `Interrupt` and of the steps of `rr_sched` in `sched`, of the steps
of a CPU elsewhere. `lock` is a ticket lock, so waiters are served in turn
(strong fairness of the acquisitions in `Notification`). Machines keep
allocating, hence polling for returned pages; the monitor does not forget a dead
machine. `rpf_push` is lock-free only, so `EveryPageReturns` is checked with a
single machine giving pages back. In `polling` the server polls, a producer
whose request is linked keeps waiting, and faults keep reaping; a producer that
has not linked its request may stop for ever, in the middle of `dq_enqueue` too.
In `tmpfs_log` a request and a recovery go on until a crash; nobody has to send
requests or start a recovery.

### Deadlock

Deadlock is checked for `RemoteFree` and `PollingQueue`. It is off for `DsmRef`
(operations stop at the era bound), `Notification` (waits are bounded, a thread
may wait for a signal that never comes, a failed assertion stops its CPU),
`TmpfsLog` (requests are bounded) and `Sched` (once every thread has ended the
CPUs stay idle).

## Proofs

**Reference counts.** `DsmRefProofs` proves, for any number of machines,
objects, fields and redo slots, any embedding and any `MayUse`:

* `TypeCorrect`: `Spec => []TypeOK`;
* `CommittedOperationsAreRedone`: `Spec => []CommittedIsRedone`;
* `UncommittedOperationsAreSkipped`: `Spec => []UncommittedIsSkipped`.

All three assume one CPU per machine (`OneCpuPerMachine`) and `MaxBoots = 1`.
With two boots, on the instance of `dsm_ref_rejoin`, TLC finds
`UncommittedIsSkipped` violated within 18 steps, so that theorem needs the
second assumption. For `CommittedIsRedone` it is not known: a search of that
instance was stopped after 500 s, unfinished and without a violation.

The two safety properties are not inductive. `IInv` adds that machines that
have not joined left no trace (`BootInv`), what each CPU's locals say about its
operation (`OpInv`), that eras which left their machine are older than an
uncommitted operation (`EraInv`), that whoever is about to overwrite a word has
recorded its era (`HelpInv`), that a committed operation is visible in the word
or in another row (`VisibleInv`), and that the ring's newest entry is the
current operation's (`RingInv`). `HelpInv` is the heart: it carries
`VisibleInv` over the CAS of another machine.

`DsmRefCounts` adds `CountsStayExact`: `Spec => []RefCountExact`, on a cluster
as above on which objects embed no references (`Flat`), the callers of a field
run on one machine (`Private`) and there are fewer fields than the u16 can count
(`Countable`). `CInv` adds to `IInv` that an operation has not touched its field
before its pointer write (`FieldInv`), that a machine logs only what it did to
its own fields (`LogInv`), that the newest log entry of a finished operation
shows in its field (`SettledInv`), so that repeating it changes nothing, and
that recovery passes the pointer write only when no committed operation is left
unfinished (`RecInv`): while it scans the rows for case B, a row that shows the
operation is still ahead of it. `CountInv` counts the fields that refer to an
object with the operations between CAS and pointer write taken as done.
`Private` is the discipline the run has too, and it is needed: without it, and
with no embedded fields, TLC finds `RefCountExact` violated within 24 steps, and
with a second boot `dsm_ref_rejoin` does. So is `Flat`: the run `dsm_ref` has an
embedded field and two machines, and with three machines the property fails
there (above), so no theorem for every number of machines can allow it.

**Scheduler.** `SchedProofs` proves, for any machines, CPUs, threads and
targets:

| Theorem | States | Assumes |
|---|---|---|
| `SchedTypeSafe` | `[]TypeOK` | |
| `OnePlace` | `[]AtOnePlace` | `Threads \subseteq Yields` |
| `WaitersUnqueued` | `[]WaitsUnqueued` | the same |
| `NoBugEver` | `[]NoBug` | the same, and `OneThreadGroups` |
| `RunsAtHome` | `[]RunsOnItsMachine` | the same, and `Homely`: no thread is bound by capability to another machine, no FPU user is woken from one |
| `HandsOver` | `[]HandedOver` | the same as `RunsAtHome` |
| `RegistersKept` | `[]FpuKept` | those of `NoBugEver`, and `FpuStays`: a thread that uses the FPU does not migrate |

The assumptions are those that the violations above show to be needed; migrating
threads and wakeups from other machines are inside all seven. The last two are
in `SchedHandover`. These invariants carry them, each proved on top of those
before:

* `AllSeparate`: a CPU *holds* a thread from `SwitchTo` until
  `rr_sched` has dealt with it. At most one CPU holds a thread, what is held is
  in no queue, what waits is in no queue and held at most by the CPU on its way
  into `rr_sched`, and `QueuedOnce`: no thread is in two queues or twice in one.
  `AtOnePlace` alone does not say what happens between the steps of `rr_sched`.
* `AllClean`: which `state` and `thread_exit_state` a held thread
  has at each step, that a migrating thread is never held by a CPU of its
  destination, and that a shared queue only has threads for its machine. These
  are the negations of the `BUG_ON` conditions.
* `AllAtHome`: `machine_id` names the machine of whoever holds
  or has queued a thread, and of its affinity unless it is migrating.

* `AllLeavers`: a thread that exits or has exited is in no queue, and only
  threads of `Migrants` migrate. `AllRegisters` uses it: registers that are in
  no memory belong to an FPU user and are in a CPU that it owns.
* `AllTidy` and `AllHanded`: `prev` and `chosen` are set only in the steps that
  use them, at most one CPU is leaving a thread and none while another has it in
  hand; until it is done, `kernel_stack_state` is locked and a far wakeup sends
  the thread back to that CPU. This is the invariant `finish_switch` relies on.

**Page return.** `RemoteFreeProofs` proves, for any machines, threads, pages,
nodes, batch size and bound on boots, with failures of any machine:

* `RemoteFreeTypeSafe`: `Spec => []TypeOK`, so no batch is overfilled;
* `NodesHeldOnce`: `Spec => []NodeHeldOnce`.

`Holds(k, a, b, n)` lists who refers to a node: the allocator, a spare of a
thread, a pending slot, a push in progress, a stack, a drain. `NInv` says that
there is at most one (`Unique`), that no chain comes back to itself (`Acyclic`),
what each step knows of its locals (`StepInv`; in particular `next` of a batch
between the read and the CAS of `rpf_push` is the head it read), and that boots
and the free nodes stay in range (`BootInv`, `RoomInv`). `Chain(n)` is the least
set that holds `n` and is closed under `next`, which gives the provers an
induction rule by instantiation (`ChainLeast`) instead of a recursive walk. The
proof holds for every modulus `GenMod \geq 1` of the generation: with `1` the
generation is constant. A head that comes back (ABA) is harmless here, since
`rpf_pop_all` takes the whole stack whatever it is, and `rpf_push` links its batch
to the very node it compares with.

`RemotePages` proves `PagesWaitOnce`: `Spec => []WaitsOnce` under `OwnersStay`,
that is if no machine that owns a page may fail; the machines that give pages
back may fail at any step. `At(k, a, i, p)` lists where a page waits: as the
argument of a call, in a slot of a batch that is still to be read (`Used`), or
among the addresses a thread frees. `RightInv` says that a page that is queued
waits at exactly one of them and any other page at none; `LocalInv`, `UpInv` and
`SendsInv` say that locals are empty outside of their steps, that threads of a
failed machine do not run, and that nothing is sent to a machine that may fail.
Each operation moves a page from one place to another, starts or ends its wait
(`RightMoves`, `RightBegins`, `RightEnds`). With an owner that fails the
properties of returned pages do not hold, as `remote_free_reboot` shows.

**Notifications.** `NotificationProofs` proves, for any finite set of waiters,
any signallers, CPUs, bounds and any non-empty pool of nodes:

* `NotificationTypeSafe`: `Spec => []TypeOK`;
* `WokenOnce`: `Spec => []AwokenOnce`;
* `SignalFindsWaiter`: `Spec => []CountedAreQueued`.

`IInv` says that queue and pool share no node (`QueueInv`), that a live node
belongs to a thread that is waiting and knows the node as its own (`LiveInv`),
that no more waiters are counted than there are live nodes (`CountInv`), and
what waiters, signals and timers know at each step (`WaiterInv`, `SignalInv`,
`TimerInv`). `LiveInv` holds in one direction only: after a signal gives up at
the sleep lock, the node it took is gone and `dqOff` of the thread, which still
waits, is stale. A dequeue takes the first live node; that there is a first one
is `LeastNat`, from the well-foundedness of inclusion on finite sets.

Keep the proof modules apart: tlapm's SMT translation slows down with the number
of obligations it has handled in one run, and some leaves would no longer finish
within their time limit. For the same reason most leaves name `Zenon`.

Model-checked only: everything in `PollingQueue` and `TmpfsLog`;
`EmbeddedReleased`, `NoAssertionFails` and `DrainsOnlyReturned`, which the code
violates; and all liveness, which the prover does not handle. The refinement of `RequestQueue`
maps the queue through a recursive walk along the nodes, about which the prover
cannot reason by induction, and `Restores` is about a replay of the log, a
recursion over its entries.

## Not modelled

* `Sched`: the stopping states (cfork and object migration), bridge threads of
  notifications, `sched_to_thread` and the threads of IPC, recycling,
  `policy_pbrr.c` (real-time builds). Two observations the model does not turn
  into properties: the drain overwrites `TE_EXITING` (`policy_rr.c:215`), and
  `sys_exit_group` misses threads in `TE_MIGRATING`.
* `PollingQueue`: the user-level client library, whose loops are those of the
  kernel without a deadline; what a handler does to memory; crash recovery of
  the queue (`dq_recover_crash` is never called, so `DQ_CRASH` is never set).
* `TmpfsLog`: there is one flat directory; each durable update is one step, in
  program order (an inode is two cache lines, and a truncate edits its pointers
  in place); setting the bitmap and the inode is one update; every entry takes
  one unit of the log. "Fresh blocks, then the inode" is exact for direct
  blocks; an indirect block is edited in place. Block bitmap, superblock
  generation, modes, symbolic links, `fallocate`, descriptors of unlinked files,
  the limit of 256 tracked paths, removal of a directory that is not empty, and
  normal boot (which cuts the log without replaying it) are left out.
* The thread queue's node pool (`shm.c:388`, untagged) and its exhaustion
  (`shm.c:430`).
* Futexes run under `futex_lock` on top of notifications; spin locks are taken
  as atomic and fair.
* Object migration, IPC connections, capabilities and recycling have protocols
  of their own that need the stopping states and the object tables.
* Page tables, allocators, interrupts' payloads and CXL demotion (off by
  default) do not reduce to a small state that the code alone determines.
* Checkpointing is built only with `CHCORE_SLS` or `CHCORE_SSI_SLS`. Most of the
  tree is vendored (musl, lwIP, ext4, FatFs) or sequential request handling.
