---------------------------- MODULE PollingQueue ----------------------------
(***************************************************************************)
(* The lock-free request queue in shared memory between the kernels of the *)
(* other machines and the polling server of a machine (kernel/mm/shm.c,    *)
(* user/system-servers/polling), and the way page promotion uses it: a     *)
(* wait with a deadline, after which the request is left in a pending slot *)
(* that a later page fault reaps (kernel/arch/x86_64/mm/tlb.c).            *)
(*                                                                         *)
(* Nodes come from a Treiber stack, are linked at the tail of the queue by *)
(* any number of producers, become the sentinel when the one server has    *)
(* taken them, and are freed by it DeferDepth requests later, once their   *)
(* producer has read the reply.  Links and roots carry a generation.  A    *)
(* step is one access to shared memory, with accesses to memory that no    *)
(* other thread can use at that time.                                      *)
(***************************************************************************)
EXTENDS Naturals, Sequences, FiniteSets

CONSTANTS
  Producers,    \* threads of a client machine
  Slots,        \* DSM_PENDING_PROMOTIONS
  NumNodes,     \* DQ_MAX_NODES
  DeferDepth,   \* DEFER_DEPTH
  Generations,  \* generations wrap after this many
  LateBoot,     \* requests are made before the server has started
  MaxRequests,  \* bound: on the requests that are made
  Null          \* QPTR_NULL

Nodes == 0 .. NumNodes - 1

ASSUME QueueAssumption ==
  /\ NumNodes \in Nat /\ NumNodes >= 2
  /\ DeferDepth \in Nat \ {0} /\ Generations \in Nat \ {0} /\ MaxRequests \in Nat
  /\ Null \notin Nodes /\ LateBoot \in BOOLEAN

VARIABLES
  \* the region in shared memory
  head, tail,   \* queue
  free,         \* alloc.free_list
  next, status, req, resp,   \* of each node; resp is the request it answers
  \* the client machine
  slot,         \* pending_promotions: [state, node, request]
  pc, node,     \* per producer: its step and its node
  root, link,   \* per producer: what it read from a root and from a node
  mine,         \* per producer: its request
  mySlot,       \* per producer: its reserved slot
  issued,       \* the number of requests so far
  got,          \* history: <<request, the request the reply answers>> received
  \* the server
  srv, ring, idx,           \* its step, defer_ring, defer_idx
  first, last, second       \* what durable_dequeue has read

region == <<head, tail, free, next, status, req, resp>>
client == <<slot, pc, node, root, link, mine, mySlot, issued, got>>
server == <<srv, ring, idx, first, last, second>>
vars == <<region, client, server>>

\* qtagptr_offset
Off(ptr) == ptr[2]

\* Mutant: links and roots carry no generation.
AdvanceUntagged(ptr, off) == <<ptr[1], off>>

\* qtagptr_advance
Advance(ptr, off) == <<(ptr[1] + 1) % Generations, off>>

Nowhere == <<0, Null>>
FreeSlot == [state |-> "FREE", node |-> Null, request |-> 0]

\* The region as shm_init and init_polling_shm_region leave it.
EmptyNext == [n \in Nodes |-> <<0, IF n \in {0, NumNodes - 1} THEN Null ELSE n + 1>>]
EmptyStatus == [n \in Nodes |-> IF n = 0 THEN "CONSUMED" ELSE "FREE"]
EmptyFree == <<(NumNodes - 1) % Generations, 1>>

Init ==
  /\ head = <<0, 0>> /\ tail = <<0, 0>>
  /\ free = EmptyFree /\ next = EmptyNext /\ status = EmptyStatus
  /\ req = [n \in Nodes |-> 0] /\ resp = [n \in Nodes |-> 0]
  /\ slot = [s \in Slots |-> FreeSlot]
  /\ pc = [p \in Producers |-> "idle"]
  /\ node = [p \in Producers |-> Null]
  /\ root = [p \in Producers |-> Nowhere] /\ link = [p \in Producers |-> Nowhere]
  /\ mine = [p \in Producers |-> 0]
  /\ mySlot = [p \in Producers |-> Null]
  /\ issued = 0 /\ got = {}
  /\ srv = "down"
  /\ ring = [i \in 0 .. DeferDepth - 1 |-> Null] /\ idx = 0
  /\ first = Nowhere /\ last = Nowhere /\ second = Null

Goto(p, l) == pc' = [pc EXCEPT ![p] = l]

-----------------------------------------------------------------------------
(* Producers: memcpy_and_flush_tlb_batch_on_remote_machine_polling         *)

\* reserve_pending_promotion; with no free slot the caller gets -EAGAIN.
Reserve(p, s) ==
  /\ pc[p] = "idle" /\ issued < MaxRequests
  /\ LateBoot \/ srv # "down"
  /\ slot[s].state = "FREE"
  /\ slot' = [slot EXCEPT ![s].state = "RESERVED"]
  /\ mySlot' = [mySlot EXCEPT ![p] = s]
  /\ issued' = issued + 1
  /\ mine' = [mine EXCEPT ![p] = issued + 1]
  /\ Goto(p, "alloc")
  /\ UNCHANGED <<region, node, root, link, got, server>>

\* The producer returns to its caller, its slot left as it is or released.
Return(p) ==
  /\ Goto(p, "idle")
  /\ mySlot' = [mySlot EXCEPT ![p] = Null]
  /\ mine' = [mine EXCEPT ![p] = 0]
  /\ node' = [node EXCEPT ![p] = Null]
  /\ root' = [root EXCEPT ![p] = Nowhere]
  /\ link' = [link EXCEPT ![p] = Nowhere]
  /\ UNCHANGED issued

\* alloc_node_try: an empty list is polled again until the deadline passes.
AllocLoad(p) ==
  /\ pc[p] = "alloc" /\ Off(free) # Null
  /\ root' = [root EXCEPT ![p] = free]
  /\ Goto(p, "allocNext")
  /\ UNCHANGED <<region, slot, node, link, mine, mySlot, issued, got, server>>

AllocGiveUp(p) ==
  /\ pc[p] = "alloc" /\ Off(free) = Null
  /\ slot' = [slot EXCEPT ![mySlot[p]] = FreeSlot]
  /\ Return(p)
  /\ UNCHANGED <<region, got, server>>

AllocNext(p) ==
  /\ pc[p] = "allocNext"
  /\ link' = [link EXCEPT ![p] = next[Off(root[p])]]
  /\ Goto(p, "allocCas")
  /\ UNCHANGED <<region, slot, node, root, mine, mySlot, issued, got, server>>

AllocCas(p) ==
  /\ pc[p] = "allocCas"
  /\ IF free = root[p]
     THEN /\ free' = Advance(free, Off(link[p]))
          /\ node' = [node EXCEPT ![p] = Off(root[p])]
          /\ Goto(p, "init")
     ELSE /\ Goto(p, "alloc")
          /\ UNCHANGED <<free, node>>
  /\ root' = [root EXCEPT ![p] = Nowhere]
  /\ link' = [link EXCEPT ![p] = Nowhere]
  /\ UNCHANGED <<head, tail, next, status, req, resp, slot, mine, mySlot, issued, got, server>>

\* dq_enqueue, step 1
EnqInit(p) ==
  /\ pc[p] = "init"
  /\ req' = [req EXCEPT ![node[p]] = mine[p]]
  /\ next' = [next EXCEPT ![node[p]] = Advance(@, Null)]
  /\ status' = [status EXCEPT ![node[p]] = "INIT"]
  /\ Goto(p, "tail")
  /\ UNCHANGED <<head, tail, free, resp, slot, node, root, link, mine, mySlot, issued, got, server>>

\* dq_enqueue, step 2
EnqTail(p) ==
  /\ pc[p] = "tail"
  /\ root' = [root EXCEPT ![p] = tail]
  /\ Goto(p, "next")
  /\ UNCHANGED <<region, slot, node, link, mine, mySlot, issued, got, server>>

EnqNext(p) ==
  /\ pc[p] = "next"
  /\ link' = [link EXCEPT ![p] = next[Off(root[p])]]
  /\ Goto(p, "check")
  /\ UNCHANGED <<region, slot, node, root, mine, mySlot, issued, got, server>>

\* The tail is read again.
EnqCheck(p) ==
  /\ pc[p] = "check"
  /\ Goto(p, IF tail # root[p] THEN "tail" ELSE IF Off(link[p]) = Null THEN "link" ELSE "help")
  /\ UNCHANGED <<region, slot, node, root, link, mine, mySlot, issued, got, server>>

EnqLink(p) ==
  /\ pc[p] = "link"
  /\ LET n == Off(root[p])
     IN IF next[n] = link[p]
        THEN /\ next' = [next EXCEPT ![n] = Advance(@, node[p])]
             /\ Goto(p, "swing")
        ELSE Goto(p, "tail") /\ UNCHANGED next
  /\ UNCHANGED <<head, tail, free, status, req, resp>>
  /\ UNCHANGED <<slot, node, root, link, mine, mySlot, issued, got, server>>

SwingTail(from, n) == tail' = IF tail = from THEN Advance(from, n) ELSE tail

EnqSwing(p) ==
  /\ pc[p] = "swing"
  /\ SwingTail(root[p], node[p])
  /\ root' = [root EXCEPT ![p] = Nowhere]
  /\ link' = [link EXCEPT ![p] = Nowhere]
  /\ Goto(p, "wait")
  /\ UNCHANGED <<head, free, next, status, req, resp, slot, node, mine, mySlot, issued, got, server>>

EnqHelp(p) ==
  /\ pc[p] = "help"
  /\ SwingTail(root[p], Off(link[p]))
  /\ Goto(p, "tail")
  /\ UNCHANGED <<head, free, next, status, req, resp>>
  /\ UNCHANGED <<slot, node, root, link, mine, mySlot, issued, got, server>>

\* dq_wait_for_done_timeout
WaitDone(p) ==
  /\ pc[p] = "wait" /\ status[node[p]] = "DONE"
  /\ Goto(p, "reply")
  /\ UNCHANGED <<region, slot, node, root, link, mine, mySlot, issued, got, server>>

\* Mutant: the slot is armed and never activated.
WaitTimeoutInactive(p) ==
  /\ pc[p] = "wait" /\ status[node[p]] # "DONE"
  /\ slot' = [slot EXCEPT ![mySlot[p]].node = node[p]]
  /\ Return(p)
  /\ UNCHANGED <<region, got, server>>

\* Its deadline passes: arm_pending_promotion, activate_pending_promotion.
WaitTimeout(p) ==
  /\ pc[p] = "wait" /\ status[node[p]] # "DONE"
  /\ slot' = [slot EXCEPT ![mySlot[p]] =
                [state |-> "ACTIVE", node |-> node[p], request |-> mine[p]]]
  /\ Return(p)
  /\ UNCHANGED <<region, got, server>>

\* The reply in node n is read for request r, then dq_mark_consumed.
ReadReply(n, r) ==
  /\ got' = got \cup {<<r, resp[n]>>}
  /\ status' = [status EXCEPT ![n] = "CONSUMED"]
  /\ UNCHANGED <<head, tail, free, next, req, resp>>

Consume(p) ==
  /\ pc[p] = "reply"
  /\ ReadReply(node[p], mine[p])
  /\ slot' = [slot EXCEPT ![mySlot[p]] = FreeSlot]
  /\ Return(p)
  /\ UNCHANGED server

\* reap_pending_shm_migrations on a page fault of any thread of the machine: what
\* it does under pending_promotion_lock, and what follows.
ReapTake(s) ==
  /\ slot[s].state = "ACTIVE" /\ status[slot[s].node] = "DONE"
  /\ slot' = [slot EXCEPT ![s].state = "REAPING"]
  /\ UNCHANGED <<region, pc, node, root, link, mine, mySlot, issued, got, server>>

ReapConsume(s) ==
  /\ slot[s].state = "REAPING"
  /\ ReadReply(slot[s].node, slot[s].request)
  /\ slot' = [slot EXCEPT ![s] = FreeSlot]
  /\ UNCHANGED <<pc, node, root, link, mine, mySlot, issued, server>>

-----------------------------------------------------------------------------
(* The server: polling_reader_thread                                       *)

\* create_polling_threads initialises the region once more.
Boot ==
  /\ srv = "down"
  /\ srv' = "reclaim"
  /\ head' = <<0, 0>> /\ tail' = <<0, 0>>
  /\ free' = EmptyFree /\ next' = EmptyNext /\ status' = EmptyStatus
  /\ req' = [req EXCEPT ![0] = 0]
  /\ UNCHANGED <<resp, client, ring, idx, first, last, second>>

\* Mutant: a node is freed before its reply was read.
ReclaimUnread ==
  /\ srv = "reclaim"
  /\ \/ /\ ring[idx] = Null
        /\ srv' = "load"
        /\ UNCHANGED status
     \/ /\ ring[idx] # Null
        /\ status' = [status EXCEPT ![ring[idx]] = "FREE"]
        /\ srv' = "freeLoad"
  /\ UNCHANGED <<head, tail, free, next, req, resp, client, ring, idx, first, last, second>>

\* defer_try_free.  While the node in the slot is not consumed, durable_dequeue
\* returns NULL and the server polls again.
Reclaim ==
  /\ srv = "reclaim"
  /\ \/ /\ ring[idx] = Null
        /\ srv' = "load"
        /\ UNCHANGED status
     \/ /\ ring[idx] # Null /\ status[ring[idx]] = "CONSUMED"
        /\ status' = [status EXCEPT ![ring[idx]] = "FREE"]
        /\ srv' = "freeLoad"
  /\ UNCHANGED <<head, tail, free, next, req, resp, client, ring, idx, first, last, second>>

\* Mutant: while the queue is empty nothing is reclaimed.
FreeLoadBusy ==
  /\ srv = "freeLoad" /\ Off(next[Off(head)]) # Null
  /\ first' = free
  /\ srv' = "freeNext"
  /\ UNCHANGED <<region, client, ring, idx, last, second>>

\* dq_free_node
FreeLoad ==
  /\ srv = "freeLoad"
  /\ first' = free
  /\ srv' = "freeNext"
  /\ UNCHANGED <<region, client, ring, idx, last, second>>

FreeNext ==
  /\ srv = "freeNext"
  /\ next' = [next EXCEPT ![ring[idx]] = Advance(@, Off(first))]
  /\ srv' = "freeCas"
  /\ UNCHANGED <<head, tail, free, status, req, resp, client, ring, idx, first, last, second>>

FreeCas ==
  /\ srv = "freeCas"
  /\ IF free = first
     THEN /\ free' = Advance(free, ring[idx])
          /\ ring' = [ring EXCEPT ![idx] = Null]
          /\ srv' = "load"
     ELSE srv' = "freeLoad" /\ UNCHANGED <<free, ring>>
  /\ first' = Nowhere
  /\ UNCHANGED <<head, tail, next, status, req, resp, client, idx, last, second>>

\* durable_dequeue.  Only the server writes head, so reading it again finds it
\* unchanged and the CAS on it succeeds.
DeqLoad ==
  /\ srv = "load"
  /\ first' = head /\ last' = tail
  /\ srv' = "next"
  /\ UNCHANGED <<region, client, ring, idx, second>>

DeqNext ==
  /\ srv = "next"
  /\ second' = Off(next[Off(first)])
  /\ srv' = "look"
  /\ UNCHANGED <<region, client, ring, idx, first, last>>

\* The server starts durable_dequeue again, or its loop.
Again ==
  /\ srv' = "reclaim"
  /\ first' = Nowhere /\ last' = Nowhere /\ second' = Null
  /\ UNCHANGED ring /\ UNCHANGED idx

DeqEmpty ==
  /\ srv = "look" /\ Off(first) = Off(last) /\ second = Null
  /\ Again
  /\ UNCHANGED <<region, client>>

DeqHelp ==
  /\ srv = "look" /\ Off(first) = Off(last) /\ second # Null
  /\ SwingTail(last, second)
  /\ Again
  /\ UNCHANGED <<head, free, next, status, req, resp, client>>

\* A node that is not INIT is skipped and not deferred.
DeqClaim ==
  /\ srv = "look" /\ Off(first) # Off(last)
  /\ IF status[second] = "INIT"
     THEN /\ status' = [status EXCEPT ![second] = "DOING"]
          /\ srv' = "head"
          /\ UNCHANGED <<head, ring, idx, first, last, second>>
     ELSE /\ head' = Advance(first, second)
          /\ Again
          /\ UNCHANGED status
  /\ UNCHANGED <<tail, free, next, req, resp, client>>

\* Mutant: the ring is one longer than its array.
DeqHeadOverrun ==
  /\ srv = "head"
  /\ head' = Advance(first, second)
  /\ ring' = [ring EXCEPT ![idx] = Off(first)]
  /\ idx' = (idx + 1) % (DeferDepth + 1)
  /\ srv' = "handle"
  /\ UNCHANGED <<tail, free, next, status, req, resp, client, first, last, second>>

\* head moves; defer_node
DeqHead ==
  /\ srv = "head"
  /\ head' = Advance(first, second)
  /\ ring' = [ring EXCEPT ![idx] = Off(first)]
  /\ idx' = (idx + 1) % DeferDepth
  /\ srv' = "handle"
  /\ UNCHANGED <<tail, free, next, status, req, resp, client, first, last, second>>

\* handle_polling_request writes the reply; then the node is DONE.
Handle ==
  /\ srv = "handle"
  /\ resp' = [resp EXCEPT ![second] = req[second]]
  /\ srv' = "done"
  /\ UNCHANGED <<head, tail, free, next, status, req, client, ring, idx, first, last, second>>

Done ==
  /\ srv = "done"
  /\ status' = [status EXCEPT ![second] = "DONE"]
  /\ Again
  /\ UNCHANGED <<head, tail, free, next, req, resp, client>>

-----------------------------------------------------------------------------
Enqueueing(p) ==
  \/ AllocLoad(p) \/ AllocGiveUp(p) \/ AllocNext(p) \/ AllocCas(p)
  \/ EnqInit(p) \/ EnqTail(p) \/ EnqNext(p) \/ EnqCheck(p) \/ EnqLink(p) \/ EnqHelp(p)
Awaiting(p) == EnqSwing(p) \/ WaitDone(p) \/ WaitTimeout(p) \/ Consume(p)
Reap(s) == ReapTake(s) \/ ReapConsume(s)
Serve ==
  \/ Reclaim \/ FreeLoad \/ FreeNext \/ FreeCas
  \/ DeqLoad \/ DeqNext \/ DeqEmpty \/ DeqHelp \/ DeqClaim \/ DeqHead
  \/ Handle \/ Done

Next ==
  \/ \E p \in Producers : Enqueueing(p) \/ Awaiting(p) \/ \E s \in Slots : Reserve(p, s)
  \/ \E s \in Slots : Reap(s)
  \/ Boot \/ Serve

\* The server polls; a producer whose request is linked keeps running; the faults
\* that reap go on, as a thread whose promotion is pending faults again until it is
\* reaped.  A producer may stop for ever before its request is linked.
Fairness ==
  /\ WF_vars(Boot) /\ WF_vars(Serve)
  /\ \A p \in Producers : WF_vars(Awaiting(p))
  /\ \A s \in Slots : WF_vars(Reap(s))

Spec == Init /\ [][Next]_vars
FairSpec == Spec /\ Fairness

-----------------------------------------------------------------------------
Tagged == (0 .. Generations - 1) \X (Nodes \cup {Null})
TypeOK ==
  /\ {head, tail, free, first, last} \subseteq Tagged
  /\ next \in [Nodes -> Tagged]
  /\ status \in [Nodes -> {"FREE", "INIT", "DOING", "DONE", "CONSUMED"}]
  /\ req \in [Nodes -> 0 .. MaxRequests] /\ resp \in [Nodes -> 0 .. MaxRequests]
  /\ slot \in [Slots -> [state : {"FREE", "RESERVED", "ACTIVE", "REAPING"},
                         node : Nodes \cup {Null}, request : 0 .. MaxRequests]]
  /\ node \in [Producers -> Nodes \cup {Null}]
  /\ root \in [Producers -> Tagged] /\ link \in [Producers -> Tagged]
  /\ mine \in [Producers -> 0 .. MaxRequests]
  /\ mySlot \in [Producers -> Slots \cup {Null}]
  /\ issued \in 0 .. MaxRequests
  /\ got \subseteq (1 .. MaxRequests) \X (1 .. MaxRequests)
  /\ ring \in [0 .. DeferDepth - 1 -> Nodes \cup {Null}] /\ idx \in 0 .. DeferDepth - 1
  /\ second \in Nodes \cup {Null}

\* The nodes on a list, from node n (or Null) on; a cycle is cut off.
Chain(n) ==
  LET from[k \in 0 .. NumNodes + 1, m \in Nodes \cup {Null}] ==
        IF m = Null \/ k = 0 THEN <<>> ELSE <<m>> \o from[k - 1, Off(next[m])]
  IN from[NumNodes + 1, n]

\* The requests in the queue are those of the INIT nodes behind the sentinel.
Waiting == LET nodes == SelectSeq(Tail(Chain(Off(head))), LAMBDA n : status[n] = "INIT")
           IN [i \in DOMAIN nodes |-> req[nodes[i]]]
Abstract == INSTANCE RequestQueue WITH
  Requests <- 1 .. MaxRequests,
  Nobody <- 0,
  queue <- Waiting,
  serving <- IF srv \in {"head", "handle", "done"} THEN req[second] ELSE 0,
  replies <- {<<req[n], resp[n]>> : n \in {m \in Nodes : status[m] = "DONE"}},
  received <- got

\* The queue is a queue: whatever producers, server, timeouts and reaping do in
\* between, requests are served in the order in which they were linked, each once,
\* and each producer gets the reply to its own request, once.
IsRequestQueue == Abstract!Spec

\* A node is at one place: on the free list, with a producer, in the queue (the
\* sentinel included), or in the ring.  None is lost and none is at two.
Held(p) == pc[p] \in {"init", "tail", "next", "check", "link", "help"}
NodesConserved ==
  LET Listed(s, n) == Cardinality({i \in DOMAIN s : s[i] = n})
  IN \A n \in Nodes :
       Listed(Chain(Off(free)), n) + Listed(Chain(Off(head)), n)
         + Cardinality({p \in Producers : Held(p) /\ node[p] = n})
         + Cardinality({i \in DOMAIN ring : ring[i] = n}) = 1

\* A request that is in the queue is answered, even if other producers stop half
\* way through dq_enqueue and if producers miss their deadlines.
EveryRequestAnswered == \A r \in 1 .. MaxRequests :
  (\E i \in DOMAIN Waiting : Waiting[i] = r) ~> (<<r, r>> \in got)

\* An exhausted pool is filled again unless producers keep the nodes.
PoolRefills == (Off(free) = Null) ~> (Off(free) # Null \/ \E p \in Producers : Held(p))
=============================================================================
