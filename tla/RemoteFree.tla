----------------------------- MODULE RemoteFree -----------------------------
(***************************************************************************)
(* Handing DRAM pages back to the machine that owns them                   *)
(* (kernel/mm/remote_free.c).                                              *)
(*                                                                         *)
(* A machine cannot reach the page metadata of another one.  It collects   *)
(* the physical addresses in a batch per owner (rpf_pending, under         *)
(* rpf_lock), pushes full or flushed batches on the owner's lock-free      *)
(* stack in shared memory, and the owner drains its stack when it          *)
(* allocates.  Each read and each CAS of a stack head is an action.        *)
(***************************************************************************)
EXTENDS Naturals, Sequences, FiniteSets

CONSTANTS
  Machines,   \* machine numbers
  Threads,    \* kernel threads of control that run this code
  MachineOf,  \* the machine of each thread
  Pages,      \* DRAM pages that other machines come to hold
  OwnerOf,    \* get_paddr_machine_id
  Nodes,      \* struct dram_page_free_batch, allocated in CXL memory
  NoNode, NoPage, NoThread,
  BatchMax,   \* DRAM_PAGE_FREE_BATCH_MAX
  GenMod,     \* 2^RPF_GEN_BITS
  MayCrash,   \* machines that may fail
  MaxBoots    \* bound: boots per machine

ASSUME SizesAssumption ==
  BatchMax \in Nat \ {0} /\ GenMod \in Nat \ {0} /\ MaxBoots \in Nat \ {0}
ASSUME ThreadsAssumption == MachineOf \in [Threads -> Machines]
ASSUME NullsAssumption == NoNode \notin Nodes /\ NoPage \notin Pages /\ NoThread \notin Threads

VARIABLES
  head,       \* per owner: the stack head, [gen, node]
  next,       \* per node: batch->next
  pas,        \* per node: batch->pas[0 .. count - 1]
  free,       \* nodes the CXL allocator can hand out
  pending,    \* per machine and owner: rpf_pending
  hasPending, \* per machine: rpf_has_pending
  holder,     \* per machine: the thread that holds rpf_lock
  draining,   \* per machine: the thread that set rpf_draining
  ready,      \* per machine: rpf_ready
  boots,      \* per machine: boots so far
  page,       \* per page: used, queued (given to free_machine_page), free, lost
  pc, arg, spare, batch, own, snap, cur, todo, after   \* locals of a thread

mach == <<hasPending, holder, draining, ready, boots>>
vars == <<head, next, pas, free, pending, mach, page,
          pc, arg, spare, batch, own, snap, cur, todo, after>>

EmptyHead(g) == [gen |-> g, node |-> NoNode]
ThreadsOf(m) == {t \in Threads : MachineOf[t] = m}
AnyPending(m) == \E o \in Machines : pending[m][o] # NoNode
\* The thread leaves the code: its locals are gone.
Return(t) ==
  /\ pc' = [pc EXCEPT ![t] = "idle"]
  /\ own' = [own EXCEPT ![t] = MachineOf[t]]
  /\ after' = [after EXCEPT ![t] = "idle"]
Goto(t, l) == pc' = [pc EXCEPT ![t] = l]

Init ==
  /\ head = [m \in Machines |-> EmptyHead(0)]
  /\ next = [n \in Nodes |-> NoNode]
  /\ pas = [n \in Nodes |-> << >>]
  /\ free = Nodes
  /\ pending = [m \in Machines |-> [o \in Machines |-> NoNode]]
  /\ hasPending = [m \in Machines |-> FALSE]
  /\ holder = [m \in Machines |-> NoThread]
  /\ draining = [m \in Machines |-> NoThread]
  /\ ready = [m \in Machines |-> TRUE]
  /\ boots = [m \in Machines |-> 1]
  /\ page = [p \in Pages |-> "used"]
  /\ pc = [t \in Threads |-> "idle"]
  /\ arg = [t \in Threads |-> NoPage]
  /\ spare = [t \in Threads |-> NoNode]
  /\ batch = [t \in Threads |-> NoNode]
  /\ own = MachineOf
  /\ snap = [t \in Threads |-> EmptyHead(0)]
  /\ cur = [t \in Threads |-> NoNode]
  /\ todo = [t \in Threads |-> << >>]
  /\ after = [t \in Threads |-> "idle"]

(***************************************************************************)
(* free_machine_page and remote_page_free.                                 *)
(***************************************************************************)

\* A page of this machine goes to its own allocator; one of another machine
\* goes to remote_page_free; one without an owner is leaked.
FreeMachinePage(t, p) ==
  /\ pc[t] = "idle" /\ page[p] = "used"
  /\ IF OwnerOf[p] = MachineOf[t] \/ OwnerOf[p] \notin Machines
     THEN /\ page' = [page EXCEPT ![p] = IF OwnerOf[p] \in Machines THEN "free" ELSE "lost"]
          /\ UNCHANGED <<pc, arg, own, after>>
     ELSE /\ page' = [page EXCEPT ![p] = "queued"]
          /\ arg' = [arg EXCEPT ![t] = p]
          /\ own' = [own EXCEPT ![t] = OwnerOf[p]]
          /\ after' = [after EXCEPT ![t] = "spare"]
          /\ Goto(t, "check")
  /\ UNCHANGED <<head, next, pas, free, pending, mach, spare, batch, snap, cur, todo>>

\* The unlocked look at rpf_pending: allocate a node when none is there.
PreCheck(t) ==
  /\ pc[t] = "check"
  /\ IF spare[t] # NoNode \/ pending[MachineOf[t]][own[t]] # NoNode
     THEN Goto(t, "lock") /\ UNCHANGED <<free, spare, page, arg, own, after>>
     ELSE \/ \E n \in free :
               /\ free' = free \ {n}
               /\ spare' = [spare EXCEPT ![t] = n]
               /\ Goto(t, "lock")
               /\ UNCHANGED <<page, arg, own, after>>
          \/ /\ free = {}
             /\ page' = [page EXCEPT ![arg[t]] = "lost"]
             /\ arg' = [arg EXCEPT ![t] = NoPage]
             /\ Return(t)
             /\ UNCHANGED <<free, spare>>
  /\ UNCHANGED <<head, next, pas, pending, mach, batch, snap, cur, todo>>

\* batch->count == DRAM_PAGE_FREE_BATCH_MAX
Full(list) == Len(list) = BatchMax

\* Mutant of Pending: a full batch is pushed and stays in rpf_pending.
PendingKept(b, full) == b

\* rpf_pending[owner] = NULL when the batch is full.
Pending(b, full) == IF full THEN NoNode ELSE b

\* Mutant of Hint: installing a batch does not raise the flag.
HintForgotten(m, install) == hasPending[m]

\* rpf_has_pending = true, with a new batch
Hint(m, install) == hasPending[m] \/ install

\* Under rpf_lock: append to the pending batch, installing the spare node if
\* there is none.  A full batch leaves rpf_pending and is pushed, still
\* under the lock.  Without a node the thread unlocks and goes round again.
Enqueue(t) ==
  LET m == MachineOf[t]
      o == own[t]
      install == pending[m][o] = NoNode
      b == IF install THEN spare[t] ELSE pending[m][o]
      list == IF install THEN <<arg[t]>> ELSE Append(pas[b], arg[t])
      full == Full(list)
  IN
  /\ pc[t] = "lock" /\ holder[m] = NoThread
  /\ IF b = NoNode
     THEN Goto(t, "check") /\ UNCHANGED <<pas, next, pending, hasPending, holder, arg, spare, batch>>
     ELSE /\ pas' = [pas EXCEPT ![b] = list]
          /\ next' = IF install THEN [next EXCEPT ![b] = NoNode] ELSE next
          /\ pending' = [pending EXCEPT ![m][o] = Pending(b, full)]
          /\ hasPending' = [hasPending EXCEPT ![m] = Hint(m, install)]
          /\ holder' = [holder EXCEPT ![m] = IF full THEN t ELSE NoThread]
          /\ arg' = [arg EXCEPT ![t] = NoPage]
          /\ spare' = [spare EXCEPT ![t] = IF install THEN NoNode ELSE @]
          /\ batch' = [batch EXCEPT ![t] = IF full THEN b ELSE NoNode]
          /\ Goto(t, IF full THEN "pushread" ELSE "spare")
  /\ UNCHANGED <<head, free, draining, ready, boots, page, own, snap, cur, todo, after>>

\* rpf_push: old = *headp; batch->next = rpf_decode(old)
PushRead(t) ==
  /\ pc[t] = "pushread"
  /\ snap' = [snap EXCEPT ![t] = head[own[t]]]
  /\ next' = [next EXCEPT ![batch[t]] = head[own[t]].node]
  /\ Goto(t, "pushcas")
  /\ UNCHANGED <<head, pas, free, pending, mach, page, arg, spare, batch, own, cur, todo, after>>

\* rpf_encode(rpf_next_generation(old), batch)
Bumped(h, n) == [gen |-> (h.gen + 1) % GenMod, node |-> n]

\* Mutant of PushCas: the store does not compare.
PushStore(t) ==
  /\ pc[t] = "pushcas"
  /\ head' = [head EXCEPT ![own[t]] = Bumped(snap[t], batch[t])]
  /\ batch' = [batch EXCEPT ![t] = NoNode]
  /\ snap' = [snap EXCEPT ![t] = EmptyHead(0)]
  /\ Goto(t, IF after[t] = "spare" THEN "pushed" ELSE "flush")
  /\ UNCHANGED <<next, pas, free, pending, mach, page, arg, spare, own, cur, todo, after>>

\* compare_and_swap_64 of rpf_push; back to the read when it fails.
PushCas(t) ==
  /\ pc[t] = "pushcas"
  /\ IF head[own[t]] = snap[t]
     THEN /\ head' = [head EXCEPT ![own[t]] = Bumped(snap[t], batch[t])]
          /\ batch' = [batch EXCEPT ![t] = NoNode]
          /\ snap' = [snap EXCEPT ![t] = EmptyHead(0)]
          /\ Goto(t, IF after[t] = "spare" THEN "pushed" ELSE "flush")
     ELSE Goto(t, "pushread") /\ UNCHANGED <<head, batch, snap>>
  /\ UNCHANGED <<next, pas, free, pending, mach, page, arg, spare, own, cur, todo, after>>

\* rpf_has_pending = rpf_any_pending(); unlock
Pushed(t) ==
  LET m == MachineOf[t] IN
  /\ pc[t] = "pushed"
  /\ hasPending' = [hasPending EXCEPT ![m] = AnyPending(m)]
  /\ holder' = [holder EXCEPT ![m] = NoThread]
  /\ Goto(t, "spare")
  /\ UNCHANGED <<head, next, pas, free, pending, draining, ready, boots, page,
                 arg, spare, batch, own, snap, cur, todo, after>>

\* The node turned out not to be needed.
FreeSpare(t) ==
  /\ pc[t] = "spare"
  /\ free' = free \cup ({spare[t]} \ {NoNode})
  /\ spare' = [spare EXCEPT ![t] = NoNode]
  /\ Return(t)
  /\ UNCHANGED <<head, next, pas, pending, mach, page, arg, batch, snap, cur, todo>>

(***************************************************************************)
(* remote_page_free_poll (from get_dram_pages) and                         *)
(* remote_page_free_flush (also from pmo_deinit).                          *)
(***************************************************************************)

\* The 64th allocation since the last poll; how often that is, is racy on
\* purpose and left open.
Poll(t) ==
  LET m == MachineOf[t] IN
  /\ pc[t] = "idle" /\ ready[m]
  /\ after' = [after EXCEPT ![t] = IF hasPending[m] THEN "drain" ELSE "idle"]
  /\ Goto(t, IF hasPending[m] THEN "flock" ELSE "drain")
  /\ UNCHANGED <<head, next, pas, free, pending, mach, page, arg, spare, batch, own, snap, cur, todo>>

\* pmo_deinit flushes at its end.
Flush(t) ==
  /\ pc[t] = "idle"
  /\ after' = [after EXCEPT ![t] = "idle"]
  /\ Goto(t, "flock")
  /\ UNCHANGED <<head, next, pas, free, pending, mach, page, arg, spare, batch, own, snap, cur, todo>>

FlushLock(t) ==
  LET m == MachineOf[t] IN
  /\ pc[t] = "flock" /\ holder[m] = NoThread
  /\ holder' = [holder EXCEPT ![m] = t]
  /\ Goto(t, "flush")
  /\ UNCHANGED <<head, next, pas, free, pending, hasPending, draining, ready, boots, page,
                 arg, spare, batch, own, snap, cur, todo, after>>

\* The loop over the owners: take the next pending batch and push it, or
\* finish.
FlushNext(t) ==
  LET m == MachineOf[t]
      full == {o \in Machines : pending[m][o] # NoNode}
  IN
  /\ pc[t] = "flush"
  /\ \/ \E o \in full :
          /\ \A i \in full : o <= i
          /\ batch' = [batch EXCEPT ![t] = pending[m][o]]
          /\ own' = [own EXCEPT ![t] = o]
          /\ pending' = [pending EXCEPT ![m][o] = NoNode]
          /\ Goto(t, "pushread")
          /\ UNCHANGED <<hasPending, holder, after>>
     \/ /\ full = {}
        /\ hasPending' = [hasPending EXCEPT ![m] = FALSE]
        /\ holder' = [holder EXCEPT ![m] = NoThread]
        /\ Goto(t, after[t])
        /\ own' = [own EXCEPT ![t] = m]
        /\ after' = [after EXCEPT ![t] = "idle"]
        /\ UNCHANGED <<batch, pending>>
  /\ UNCHANGED <<head, next, pas, free, draining, ready, boots, page, arg, spare, snap, cur, todo>>

(***************************************************************************)
(* drain_remote_page_free, on the owner.                                   *)
(***************************************************************************)

\* get_dram_pages drains without the tick when the buddy has no page left.
DrainNow(t) ==
  LET m == MachineOf[t] IN
  /\ pc[t] = "idle"
  /\ \A p \in Pages : OwnerOf[p] = m => page[p] # "free"
  /\ Goto(t, "drain")
  /\ UNCHANGED <<head, next, pas, free, pending, mach, page, arg, spare, batch, own, snap, cur, todo, after>>

\* Not ready, nothing queued, or another CPU drains: give up for this time.
DrainStart(t) ==
  LET m == MachineOf[t]
      go == ready[m] /\ head[m].node # NoNode /\ draining[m] = NoThread
  IN
  /\ pc[t] = "drain"
  /\ draining' = IF go THEN [draining EXCEPT ![m] = t] ELSE draining
  /\ Goto(t, IF go THEN "popread" ELSE "idle")
  /\ UNCHANGED <<head, next, pas, free, pending, hasPending, holder, ready, boots, page,
                 arg, spare, batch, own, snap, cur, todo, after>>

\* rpf_pop_all
PopRead(t) ==
  LET h == head[MachineOf[t]] IN
  /\ pc[t] = "popread"
  /\ snap' = IF h.node = NoNode THEN snap ELSE [snap EXCEPT ![t] = h]
  /\ Goto(t, IF h.node = NoNode THEN "drained" ELSE "popcas")
  /\ UNCHANGED <<head, next, pas, free, pending, mach, page, arg, spare, batch, own, cur, todo, after>>

\* Mutant of PopCas: a push between the read and the store is lost.
PopStore(t) ==
  LET m == MachineOf[t] IN
  /\ pc[t] = "popcas"
  /\ head' = [head EXCEPT ![m] = Bumped(snap[t], NoNode)]
  /\ cur' = [cur EXCEPT ![t] = snap[t].node]
  /\ todo' = [todo EXCEPT ![t] = pas[snap[t].node]]
  /\ snap' = [snap EXCEPT ![t] = EmptyHead(0)]
  /\ Goto(t, "dfree")
  /\ UNCHANGED <<next, pas, free, pending, mach, page, arg, spare, batch, own, after>>

PopCas(t) ==
  LET m == MachineOf[t] IN
  /\ pc[t] = "popcas"
  /\ IF head[m] = snap[t]
     THEN /\ head' = [head EXCEPT ![m] = Bumped(snap[t], NoNode)]
          /\ cur' = [cur EXCEPT ![t] = snap[t].node]
          /\ todo' = [todo EXCEPT ![t] = pas[snap[t].node]]
          /\ snap' = [snap EXCEPT ![t] = EmptyHead(0)]
          /\ Goto(t, "dfree")
     ELSE Goto(t, "popread") /\ UNCHANGED <<head, cur, todo, snap>>
  /\ UNCHANGED <<next, pas, free, pending, mach, page, arg, spare, batch, own, after>>

\* One address of the batch: kfree it, or drop it if it is not ours.
DrainPage(t) ==
  LET p == Head(todo[t]) IN
  /\ pc[t] = "dfree" /\ todo[t] # << >>
  /\ page' = [page EXCEPT ![p] = IF OwnerOf[p] = MachineOf[t] THEN "free" ELSE "lost"]
  /\ todo' = [todo EXCEPT ![t] = Tail(@)]
  /\ UNCHANGED <<head, next, pas, free, pending, mach, pc, arg, spare, batch, own, snap, cur, after>>

\* kfree(batch); batch = next.  The allocator may overwrite what it gets back.
DrainBatch(t) ==
  LET n == next[cur[t]] IN
  /\ pc[t] = "dfree" /\ todo[t] = << >>
  /\ pas' = [pas EXCEPT ![cur[t]] = << >>]
  /\ next' = [next EXCEPT ![cur[t]] = NoNode]
  /\ free' = free \cup {cur[t]}
  /\ cur' = [cur EXCEPT ![t] = n]
  /\ todo' = IF n = NoNode THEN todo ELSE [todo EXCEPT ![t] = pas[n]]
  /\ Goto(t, IF n = NoNode THEN "drained" ELSE "dfree")
  /\ UNCHANGED <<head, pending, mach, page, arg, spare, batch, own, snap, after>>

\* rpf_draining = 0
DrainEnd(t) ==
  /\ pc[t] = "drained"
  /\ draining' = [draining EXCEPT ![MachineOf[t]] = NoThread]
  /\ Goto(t, "idle")
  /\ UNCHANGED <<head, next, pas, free, pending, hasPending, holder, ready, boots, page,
                 arg, spare, batch, own, snap, cur, todo, after>>

(***************************************************************************)
(* The buddy allocator hands a free page out again, and some machine comes *)
(* to hold it.  Machines fail and boot.                                    *)
(***************************************************************************)

Realloc(p) ==
  /\ page[p] = "free" /\ ready[OwnerOf[p]]
  /\ page' = [page EXCEPT ![p] = "used"]
  /\ UNCHANGED <<head, next, pas, free, pending, mach, pc, arg, spare, batch, own, snap, cur, todo, after>>

\* A page that only the failed machine knew to be queued is lost to its owner.
LostWith(m) ==
  LET held == {pending[m][o] : o \in Machines} \cup {batch[t] : t \in ThreadsOf(m)} IN
  {p \in Pages : \/ \E t \in ThreadsOf(m) : arg[t] = p
                 \/ \E n \in held \ {NoNode} : \E i \in DOMAIN pas[n] : pas[n][i] = p}

\* The memory of the machine is gone, with every CPU of it.
Crash(m) ==
  LET Reset(f, v) == [t \in Threads |-> IF MachineOf[t] = m THEN v ELSE f[t]] IN
  /\ m \in MayCrash /\ ready[m] /\ boots[m] < MaxBoots
  /\ ready' = [ready EXCEPT ![m] = FALSE]
  /\ page' = [p \in Pages |-> IF p \in LostWith(m) THEN "lost" ELSE page[p]]
  /\ pending' = [pending EXCEPT ![m] = [o \in Machines |-> NoNode]]
  /\ hasPending' = [hasPending EXCEPT ![m] = FALSE]
  /\ holder' = [holder EXCEPT ![m] = NoThread]
  /\ draining' = [draining EXCEPT ![m] = NoThread]
  /\ pc' = Reset(pc, "down")
  /\ arg' = Reset(arg, NoPage)
  /\ spare' = Reset(spare, NoNode)
  /\ batch' = Reset(batch, NoNode)
  /\ own' = Reset(own, m)
  /\ snap' = Reset(snap, EmptyHead(0))
  /\ cur' = Reset(cur, NoNode)
  /\ todo' = Reset(todo, << >>)
  /\ after' = Reset(after, "idle")
  /\ UNCHANGED <<head, next, pas, free, boots>>

\* A boot of the machine: its DRAM is fresh, remote_page_free_init discards
\* its stack unread.
RemotePageFreeInit(m) ==
  /\ ~ready[m]
  /\ head' = [head EXCEPT ![m] = Bumped(@, NoNode)]
  /\ ready' = [ready EXCEPT ![m] = TRUE]
  /\ boots' = [boots EXCEPT ![m] = @ + 1]
  /\ page' = [p \in Pages |-> IF OwnerOf[p] = m THEN "free" ELSE page[p]]
  /\ pc' = [t \in Threads |-> IF MachineOf[t] = m THEN "idle" ELSE pc[t]]
  /\ UNCHANGED <<next, pas, free, pending, hasPending, holder, draining,
                 arg, spare, batch, own, snap, cur, todo, after>>

Step(t) ==
  \/ PreCheck(t) \/ Enqueue(t) \/ PushRead(t) \/ PushCas(t) \/ Pushed(t) \/ FreeSpare(t)
  \/ FlushLock(t) \/ FlushNext(t)
  \/ DrainStart(t) \/ PopRead(t) \/ PopCas(t) \/ DrainPage(t) \/ DrainBatch(t) \/ DrainEnd(t)

Next ==
  \/ \E t \in Threads : Step(t) \/ Poll(t) \/ Flush(t) \/ DrainNow(t)
  \/ \E t \in Threads, p \in Pages : FreeMachinePage(t, p)
  \/ \E p \in Pages : Realloc(p)
  \/ \E m \in Machines : Crash(m) \/ RemotePageFreeInit(m)

Spec == Init /\ [][Next]_vars

\* A CPU that is inside the code keeps running; rpf_lock is a ticket lock, so
\* its waiters get it in turn; and every machine keeps allocating DRAM, which
\* polls.
FairSpec ==
  /\ Spec
  /\ \A t \in Threads : /\ WF_vars(Step(t))
                        /\ SF_vars(Enqueue(t)) /\ SF_vars(FlushLock(t))
  /\ \A m \in Machines : SF_vars(\E t \in ThreadsOf(m) : Poll(t))

-----------------------------------------------------------------------------
(***************************************************************************)
(* Properties.                                                             *)
(***************************************************************************)

Labels == {"idle", "check", "lock", "pushread", "pushcas", "pushed", "spare", "flock", "flush",
           "drain", "popread", "popcas", "dfree", "drained", "down"}

\* The type of the state; in particular a batch never holds more than
\* DRAM_PAGE_FREE_BATCH_MAX addresses.
TypeOK ==
  LET MaybeNode == Nodes \cup {NoNode}
      Heads == [gen : 0 .. GenMod - 1, node : MaybeNode]
  IN
  /\ head \in [Machines -> Heads]
  /\ next \in [Nodes -> MaybeNode]
  /\ \A n \in Nodes : pas[n] \in Seq(Pages) /\ Len(pas[n]) <= BatchMax
  /\ free \subseteq Nodes
  /\ pending \in [Machines -> [Machines -> MaybeNode]]
  /\ hasPending \in [Machines -> BOOLEAN] /\ ready \in [Machines -> BOOLEAN]
  /\ holder \in [Machines -> Threads \cup {NoThread}]
  /\ draining \in [Machines -> Threads \cup {NoThread}]
  /\ boots \in [Machines -> 1 .. MaxBoots]
  /\ page \in [Pages -> {"used", "queued", "free", "lost"}]
  /\ pc \in [Threads -> Labels]
  /\ arg \in [Threads -> Pages \cup {NoPage}]
  /\ spare \in [Threads -> MaybeNode] /\ batch \in [Threads -> MaybeNode]
  /\ own \in [Threads -> Machines]
  /\ snap \in [Threads -> Heads]
  /\ cur \in [Threads -> MaybeNode]
  /\ \A t \in Threads : todo[t] \in Seq(Pages)
  /\ after \in [Threads -> {"idle", "drain", "spare"}]

\* The nodes of the chain that starts at n, following batch->next: the least
\* set that holds n and, with each node, the one after it.
Closed(S) == \A x \in S : next[x] # NoNode => next[x] \in S
Chain(n) ==
  {x \in Nodes : \A S \in SUBSET Nodes : (n # NoNode => n \in S) /\ Closed(S) => x \in S}

\* Where a node is referred to from.
Referrers(n) ==
       {x \in {"allocator"} \X {n} : n \in free}
  \cup {x \in {"spare"} \X Threads : spare[x[2]] = n}
  \cup {x \in {"pending"} \X Machines \X Machines : pending[x[2]][x[3]] = n}
  \cup {x \in {"push"} \X Threads : batch[x[2]] = n}
  \cup {x \in {"stack"} \X Machines : n \in Chain(head[x[2]].node)}
  \cup {x \in {"drain"} \X Threads : n \in Chain(cur[x[2]])}

\* Nodes are allocated in memory that every machine shares, leave a stack and
\* come back: no interleaving of rpf_push, rpf_pop_all and the allocator lets
\* two of them hold a node at once, or closes a chain of batches to a cycle.
NodeHeldOnce ==
  \A n \in Nodes : Cardinality(Referrers(n)) <= 1 /\ n \notin Chain(next[n])

\* Nodes whose addresses are still to be freed.
InUse ==
  (UNION ({{pending[m][o] : o \in Machines} : m \in Machines}
          \cup {{batch[t]} : t \in Threads}
          \cup {Chain(head[m].node) : m \in Machines}
          \cup {Chain(next[cur[t]]) : t \in {u \in Threads : cur[u] # NoNode}})) \ {NoNode}

\* Where a page waits to be freed by its owner.
Waits(p) ==
       {x \in {"arg"} \X Threads : arg[x[2]] = p}
  \cup {x \in {"batch"} \X InUse \X (1 .. BatchMax) : x[3] \in DOMAIN pas[x[2]] /\ pas[x[2]][x[3]] = p}
  \cup {x \in {"todo"} \X Threads \X (1 .. BatchMax) : x[3] \in DOMAIN todo[x[2]] /\ todo[x[2]][x[3]] = p}

\* free_machine_page neither loses a page nor frees it twice: from the call to
\* the owner's kfree it waits in exactly one place, and a page in use or free
\* waits nowhere, whatever pushes, flushes and drains interleave and whenever
\* the machine that gave it back fails.
WaitsOnce ==
  \A p \in Pages : ready[OwnerOf[p]] =>
    Cardinality(Waits(p)) = IF page[p] = "queued" THEN 1 ELSE 0

\* "draining them would free them a second time into a freshly initialized
\* buddy": what a drain is about to kfree was given back in this boot of the
\* owner and is not free or in use again.
DrainsOnlyReturned ==
  \A t \in Threads : pc[t] = "dfree" /\ todo[t] # << >> => page[Head(todo[t])] = "queued"

\* A page that was given back is freed by its owner, or lost with the machine
\* that gave it back or for want of a node: none stays in a batch that nobody
\* publishes (remote_page_free_poll) or on a stack that nobody drains.
EveryPageReturns == \A p \in Pages : page[p] = "queued" ~> page[p] # "queued"
=============================================================================
