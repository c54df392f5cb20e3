-------------------------- MODULE RemoteFreeProofs --------------------------
(***************************************************************************)
(* Batches of pages that are handed back keep their nodes apart, for every *)
(* number of machines, threads, pages and nodes, every batch size and      *)
(* every width of the generation counter, whatever machines fail.          *)
(***************************************************************************)
EXTENDS RemoteFree, FiniteSetTheorems, TLAPS

MaybeNode == Nodes \cup {NoNode}
Heads == [gen : 0 .. GenMod - 1, node : MaybeNode]

\* What a thread holds at each step, and that a batch about to be pushed
\* points at the head it was read against.
StepOK(t) ==
  /\ pc[t] \in {"check", "lock"} => arg[t] \in Pages
  /\ pc[t] \in {"pushread", "pushcas"} => batch[t] \in Nodes
  /\ pc[t] = "pushcas" => next[batch[t]] = snap[t].node
  /\ pc[t] = "popcas" => snap[t].node \in Nodes
  /\ pc[t] = "dfree" => cur[t] \in Nodes
StepInv == \A t \in Threads : StepOK(t)

\* A machine that is down can boot; a pending batch has room for a page.
BootInv == \A m \in Machines : ~ready[m] => boots[m] < MaxBoots
RoomInv == \A m, o \in Machines : pending[m][o] # NoNode => Len(pas[pending[m][o]]) < BatchMax

\* Holder (k, a, b) refers to node n: the allocator, a thread that has a
\* spare node, that pushes or drains, a machine's pending batch or its stack.
Holds(k, a, b, n) ==
  \/ k = "allocator" /\ a = NoNode /\ b = NoNode /\ n \in free
  \/ k = "spare" /\ a \in Threads /\ b = a /\ spare[a] = n
  \/ k = "pending" /\ a \in Machines /\ b \in Machines /\ pending[a][b] = n
  \/ k = "push" /\ a \in Threads /\ b = a /\ batch[a] = n
  \/ k = "stack" /\ a \in Machines /\ b = a /\ n \in Chain(head[a].node)
  \/ k = "drain" /\ a \in Threads /\ b = a /\ n \in Chain(cur[a])

\* A node has one holder, and no chain comes back to a node of it.
Unique ==
  \A n \in Nodes : \A k, a, b, i, c, d :
    Holds(k, a, b, n) /\ Holds(i, c, d, n) => k = i /\ a = c /\ b = d
Acyclic == \A n \in Nodes : n \notin Chain(next[n])

\* TypeOK, with the sequences as functions to sequences.
Typed ==
  /\ head \in [Machines -> Heads]
  /\ next \in [Nodes -> MaybeNode]
  /\ pas \in [Nodes -> Seq(Pages)]
  /\ \A n \in Nodes : Len(pas[n]) <= BatchMax
  /\ free \subseteq Nodes
  /\ pending \in [Machines -> [Machines -> MaybeNode]]
  /\ hasPending \in [Machines -> BOOLEAN] /\ ready \in [Machines -> BOOLEAN]
  /\ holder \in [Machines -> Threads \cup {NoThread}]
  /\ draining \in [Machines -> Threads \cup {NoThread}]
  /\ boots \in [Machines -> 1 .. MaxBoots]
  /\ page \in [Pages -> {"used", "queued", "free", "lost"}]
  /\ pc \in [Threads -> Labels]
  /\ arg \in [Threads -> Pages \cup {NoPage}]
  /\ spare \in [Threads -> MaybeNode] /\ batch \in [Threads -> MaybeNode]
  /\ own \in [Threads -> Machines]
  /\ snap \in [Threads -> Heads]
  /\ cur \in [Threads -> MaybeNode]
  /\ todo \in [Threads -> Seq(Pages)]
  /\ after \in [Threads -> {"idle", "drain", "spare"}]

NInv == Typed /\ StepInv /\ BootInv /\ RoomInv /\ Unique /\ Acyclic

-----------------------------------------------------------------------------
(* Chains                                                                  *)

\* A chain holds its first node and, with each node, the one after it.
LEMMA ChainCloses ==
  ASSUME next \in [Nodes -> MaybeNode], NEW n \in MaybeNode
  PROVE  /\ Chain(n) \subseteq Nodes
         /\ n # NoNode => n \in Chain(n)
         /\ \A x \in Chain(n) : next[x] # NoNode => next[x] \in Chain(n)
<1>1. Chain(n) \subseteq Nodes
  BY Zenon DEF Chain
<1>2. n # NoNode => n \in Chain(n)
  BY Zenon DEF Chain, MaybeNode
<1>3. ASSUME NEW x \in Chain(n), next[x] # NoNode PROVE next[x] \in Chain(n)
  <2>1. x \in Nodes /\ next[x] \in Nodes
    BY <1>1, <1>3, Zenon DEF MaybeNode
  <2>2. ASSUME NEW S \in SUBSET Nodes, n # NoNode => n \in S, Closed(S) PROVE next[x] \in S
    <3>1. x \in S
      BY <2>2, Zenon DEF Chain
    <3> QED
      BY <1>3, <2>2, <3>1, Zenon DEF Closed
  <2> QED
    BY <2>1, <2>2, Zenon DEF Chain
<1> QED
  BY <1>1, <1>2, <1>3, Zenon

\* It is the least such set.
LEMMA ChainLeast ==
  ASSUME NEW n, NEW S \in SUBSET Nodes, n # NoNode => n \in S, Closed(S)
  PROVE  Chain(n) \subseteq S
  BY Zenon DEF Chain

\* A chain is its first node and the rest.
LEMMA ChainUnfolds ==
  ASSUME next \in [Nodes -> MaybeNode]
  PROVE  /\ Chain(NoNode) = {}
         /\ \A n \in Nodes : Chain(n) = {n} \cup Chain(next[n])
<1>1. Chain(NoNode) = {}
  <2>1. Closed({})
    BY Zenon DEF Closed
  <2> QED
    BY <2>1, ChainLeast, Zenon
<1>2. ASSUME NEW n \in Nodes PROVE Chain(n) = {n} \cup Chain(next[n])
  <2>1. n \in MaybeNode /\ next[n] \in MaybeNode /\ n # NoNode
    BY NullsAssumption, Zenon DEF MaybeNode
  <2>2. Chain(n) \in SUBSET Nodes /\ n \in Chain(n) /\ Closed(Chain(n))
    BY <2>1, ChainCloses, Zenon DEF Closed
  <2>3. next[n] # NoNode => next[n] \in Chain(n)
    BY <2>2, Zenon DEF Closed
  <2>4. Chain(next[n]) \subseteq Chain(n)
    BY <2>2, <2>3, ChainLeast, Zenon
  <2>5. {n} \cup Chain(next[n]) \in SUBSET Nodes /\ Closed({n} \cup Chain(next[n]))
    <3>1. Chain(next[n]) \subseteq Nodes
      BY <2>1, ChainCloses, Zenon
    <3>2. next[n] # NoNode => next[n] \in Chain(next[n])
      BY <2>1, ChainCloses, Zenon
    <3>3. \A x \in Chain(next[n]) : next[x] # NoNode => next[x] \in Chain(next[n])
      BY <2>1, ChainCloses, Zenon
    <3> QED
      BY <3>1, <3>2, <3>3, Zenon DEF Closed
  <2>6. Chain(n) \subseteq {n} \cup Chain(next[n])
    BY <2>5, ChainLeast, Zenon
  <2> QED
    BY <2>2, <2>4, <2>6, Zenon
<1> QED
  BY <1>1, <1>2, Zenon

\* A chain that does not come by a node is not affected by what follows it.
LEMMA ChainFrame ==
  ASSUME next \in [Nodes -> MaybeNode], next' \in [Nodes -> MaybeNode], NEW b,
         \A x \in Nodes : x # b => next'[x] = next[x],
         NEW n \in MaybeNode, b \notin Chain(n)
  PROVE  Chain(n)' = Chain(n)
<1>1. Chain(n) \in SUBSET Nodes /\ (n # NoNode => n \in Chain(n)) /\ Closed(Chain(n))
  BY ChainCloses, Zenon DEF Closed
<1>2. \A x \in Chain(n) : next'[x] # NoNode => next'[x] \in Chain(n)
  BY <1>1, Zenon DEF Closed
<1>3. Chain(n)' \subseteq Chain(n)
  BY <1>1, <1>2, Zenon DEF Chain, Closed
<1>4. ASSUME NEW S \in SUBSET Nodes, n # NoNode => n \in S, \A x \in S : next'[x] # NoNode => next'[x] \in S
      PROVE  Chain(n) \subseteq S
  <2>1. S \cap Chain(n) \in SUBSET Nodes /\ (n # NoNode => n \in S \cap Chain(n))
    BY <1>1, <1>4, Zenon
  <2>2. Closed(S \cap Chain(n))
    BY <1>1, <1>4, Zenon DEF Closed
  <2> QED
    BY <2>1, <2>2, ChainLeast, Zenon
<1>5. Chain(n) \subseteq Chain(n)'
  BY <1>1, <1>4, Zenon DEF Chain, Closed
<1> QED
  BY <1>3, <1>5, Zenon

\* A node that points at a chain it is not on closes no cycle.
LEMMA AcyclicLink ==
  ASSUME Acyclic, next \in [Nodes -> MaybeNode], next' \in [Nodes -> MaybeNode], NEW b \in Nodes,
         \A x \in Nodes : x # b => next'[x] = next[x],
         NEW h \in MaybeNode, next'[b] = h, b \notin Chain(h)
  PROVE  Acyclic'
<1> SUFFICES ASSUME NEW n \in Nodes PROVE n \notin Chain(next[n])'
  BY Zenon DEF Acyclic
<1>1. \A y \in MaybeNode : b \notin Chain(y) => Chain(y)' = Chain(y)
  BY ChainFrame, Zenon
<1>2. CASE n = b
  BY <1>1, <1>2, Zenon
<1>3. CASE n # b
  <2>1. PICK y \in MaybeNode : y = next[n] /\ y = next'[n]
    BY <1>3, Zenon
  <2>2. n \notin Chain(y)
    BY <2>1, Zenon DEF Acyclic
  <2>3. CASE b \notin Chain(y)
    BY <1>1, <2>1, <2>2, <2>3, Zenon
  <2>4. CASE b \in Chain(y)
    <3>1. /\ Chain(y) \in SUBSET Nodes /\ (y # NoNode => y \in Chain(y))
          /\ \A x \in Chain(y) : next[x] # NoNode => next[x] \in Chain(y)
      BY ChainCloses, Zenon
    <3>2. /\ Chain(h) \in SUBSET Nodes /\ (h # NoNode => h \in Chain(h))
          /\ \A x \in Chain(h) : next[x] # NoNode => next[x] \in Chain(h)
      BY ChainCloses, Zenon
    <3>3. \A x \in Chain(y) \cup Chain(h) : next'[x] # NoNode => next'[x] \in Chain(y) \cup Chain(h)
      BY <3>1, <3>2, Zenon
    <3>4. Chain(y)' \subseteq Chain(y) \cup Chain(h)
      <4> DEFINE S == Chain(y) \cup Chain(h)
      <4>1. PICK T \in SUBSET Nodes : T = S
        BY <3>1, <3>2, Zenon
      <4> HIDE DEF S
      <4> QED
        BY <3>1, <3>3, <4>1, Zenon DEF Chain, Closed, S
    <3>5. n \notin Chain(h)
      <4> SUFFICES ASSUME n \in Chain(h) PROVE FALSE
        BY Zenon
      <4>1. y # NoNode => y \in Chain(h)
        BY <2>1, <3>2, Zenon
      <4>2. Chain(y) \subseteq Chain(h)
        BY <3>2, <4>1, ChainLeast, Zenon DEF Closed
      <4> QED
        BY <2>4, <4>2, Zenon
    <3> QED
      BY <2>1, <2>2, <3>4, <3>5, Zenon
  <2> QED
    BY <2>3, <2>4, Zenon
<1> QED
  BY <1>2, <1>3, Zenon

\* Two holders of a node are the same if nodes only leave their holders.
LEMMA UniqueFrame ==
  ASSUME Unique, \A n \in Nodes : \A k, a, b : Holds(k, a, b, n)' => Holds(k, a, b, n)
  PROVE  Unique'
<1> SUFFICES ASSUME NEW n \in Nodes, NEW k, NEW a, NEW b, NEW i, NEW c, NEW d,
                    Holds(k, a, b, n)', Holds(i, c, d, n)'
             PROVE  k = i /\ a = c /\ b = d
  BY Zenon DEF Unique
<1>1. Holds(k, a, b, n)
  BY Zenon
<1>2. Holds(i, c, d, n)
  BY Zenon
<1> QED
  BY <1>1, <1>2, Zenon DEF Unique

\* And also if some move from one holder to another.
LEMMA UniqueMove ==
  ASSUME Unique, NEW k0, NEW a0, NEW b0, NEW k1, NEW a1, NEW b1,
         \A n \in Nodes : \A k, a, b : Holds(k, a, b, n)' =>
            Holds(k, a, b, n) \/ (k = k1 /\ a = a1 /\ b = b1 /\ Holds(k0, a0, b0, n)),
         \A n \in Nodes : Holds(k0, a0, b0, n) /\ Holds(k0, a0, b0, n)' => ~Holds(k1, a1, b1, n)'
  PROVE  Unique'
<1> SUFFICES ASSUME NEW n \in Nodes, NEW k, NEW a, NEW b, NEW i, NEW c, NEW d,
                    Holds(k, a, b, n)', Holds(i, c, d, n)'
             PROVE  k = i /\ a = c /\ b = d
  BY Zenon DEF Unique
<1>1. CASE Holds(k, a, b, n) /\ Holds(i, c, d, n)
  BY <1>1, Zenon DEF Unique
<1>2. CASE ~Holds(k, a, b, n) /\ ~Holds(i, c, d, n)
  <2>1. k = k1 /\ a = a1 /\ b = b1 /\ Holds(k0, a0, b0, n)
    BY <1>2
  <2>2. i = k1 /\ c = a1 /\ d = b1 /\ Holds(k0, a0, b0, n)
    BY <1>2, Zenon
  <2> QED
    BY <2>1, <2>2, Zenon
<1>3. CASE ~Holds(k, a, b, n) /\ Holds(i, c, d, n)
  <2>1. k = k1 /\ a = a1 /\ b = b1 /\ Holds(k0, a0, b0, n)
    BY <1>3, Zenon
  <2>2. i = k0 /\ c = a0 /\ d = b0
    BY <1>3, <2>1, Zenon DEF Unique
  <2> QED
    BY <2>1, <2>2, Zenon
<1>4. CASE Holds(k, a, b, n) /\ ~Holds(i, c, d, n)
  <2>1. i = k1 /\ c = a1 /\ d = b1 /\ Holds(k0, a0, b0, n)
    BY <1>4, Zenon
  <2>2. k = k0 /\ a = a0 /\ b = b0
    BY <1>4, <2>1, Zenon DEF Unique
  <2> QED
    BY <2>1, <2>2, Zenon
<1> QED
  BY <1>1, <1>2, <1>3, <1>4, Zenon

-----------------------------------------------------------------------------
(* Types, steps and bounds                                                 *)

LEMMA TypedIsTypeOK == Typed => TypeOK
  BY Zenon DEF Typed, TypeOK, MaybeNode, Heads

LEMMA BumpedType ==
  ASSUME NEW h \in Heads, NEW n \in MaybeNode
  PROVE  Bumped(h, n) \in Heads /\ Bumped(h, n).node = n
<1>1. h.gen \in 0 .. GenMod - 1 /\ GenMod \in Nat \ {0}
  BY SizesAssumption, Zenon DEF Heads
<1>2. (h.gen + 1) % GenMod \in 0 .. GenMod - 1
  BY <1>1
<1> QED
  BY <1>2, Zenon DEF Bumped, Heads

LEMMA EmptyHeadType == EmptyHead(0) \in Heads /\ EmptyHead(0).node = NoNode
  BY SizesAssumption DEF EmptyHead, Heads, MaybeNode

LEMMA InitTyped == Init => Typed /\ StepInv /\ BootInv /\ RoomInv
<1> SUFFICES ASSUME Init PROVE Typed /\ StepInv /\ BootInv /\ RoomInv
  BY Zenon
<1>1. Typed
  BY EmptyHeadType, SizesAssumption, ThreadsAssumption DEF Init, Typed, MaybeNode, Labels
<1>2. StepInv
  BY Zenon DEF Init, StepInv, StepOK
<1>3. BootInv /\ RoomInv
  BY Zenon DEF Init, BootInv, RoomInv
<1> QED
  BY <1>1, <1>2, <1>3, Zenon

\* What the actions of a thread, or of the machines, leave typed.
LEMMA TypedStep ==
  ASSUME Typed, StepInv, BootInv, RoomInv, [Next]_vars
  PROVE  Typed'
<1> USE ThreadsAssumption
<1>1. ASSUME NEW t \in Threads, NEW p \in Pages, FreeMachinePage(t, p) PROVE Typed'
  <2>1. CASE OwnerOf[p] = MachineOf[t] \/ OwnerOf[p] \notin Machines
    BY <1>1, <2>1, Zenon DEF FreeMachinePage, Typed, mach
  <2>2. CASE ~(OwnerOf[p] = MachineOf[t] \/ OwnerOf[p] \notin Machines)
    <3>1. /\ page' = [page EXCEPT ![p] = "queued"] /\ arg' = [arg EXCEPT ![t] = p]
          /\ own' = [own EXCEPT ![t] = OwnerOf[p]] /\ after' = [after EXCEPT ![t] = "spare"]
          /\ pc' = [pc EXCEPT ![t] = "check"]
          /\ UNCHANGED <<head, next, pas, free, pending, mach, spare, batch, snap, cur, todo>>
      BY <1>1, <2>2, Zenon DEF FreeMachinePage, Goto
    <3> QED
      BY <2>2, <3>1, Zenon DEF Typed, mach, Labels
  <2> QED
    BY <2>1, <2>2, Zenon
<1>2. ASSUME NEW t \in Threads, PreCheck(t) PROVE Typed'
  <2>1. CASE spare[t] # NoNode \/ pending[MachineOf[t]][own[t]] # NoNode
    BY <1>2, <2>1, Zenon DEF PreCheck, Goto, Typed, mach, Labels
  <2>2. CASE ~(spare[t] # NoNode \/ pending[MachineOf[t]][own[t]] # NoNode)
    <3>1. CASE free = {}
      <4>1. /\ page' = [page EXCEPT ![arg[t]] = "lost"] /\ arg' = [arg EXCEPT ![t] = NoPage]
            /\ own' = [own EXCEPT ![t] = MachineOf[t]] /\ after' = [after EXCEPT ![t] = "idle"]
            /\ pc' = [pc EXCEPT ![t] = "idle"]
            /\ UNCHANGED <<head, next, pas, free, spare, pending, mach, batch, snap, cur, todo>>
        BY <1>2, <2>2, <3>1, Zenon DEF PreCheck, Return
      <4> QED
        BY <4>1, Zenon DEF Typed, mach, Labels
    <3>2. CASE free # {}
      <4>1. PICK n \in free : free' = free \ {n} /\ spare' = [spare EXCEPT ![t] = n] /\ Goto(t, "lock")
                              /\ UNCHANGED <<page, arg, own, after>>
        BY <1>2, <2>2, <3>2, Zenon DEF PreCheck
      <4> QED
        BY <1>2, <4>1, Zenon DEF PreCheck, Goto, Typed, mach, Labels, MaybeNode
    <3> QED
      BY <3>1, <3>2, Zenon
  <2> QED
    BY <2>1, <2>2, Zenon
<1>3. ASSUME NEW t \in Threads, Enqueue(t) PROVE Typed'
  <2> DEFINE m == MachineOf[t]
             o == own[t]
             install == pending[m][o] = NoNode
             b == IF install THEN spare[t] ELSE pending[m][o]
             list == IF install THEN <<arg[t]>> ELSE Append(pas[b], arg[t])
  <2>1. m \in Machines /\ o \in Machines /\ b \in MaybeNode /\ arg[t] \in Pages
    BY <1>3 DEF Enqueue, Typed, StepInv, StepOK
  <2>2. CASE b = NoNode
    BY <1>3, <2>2, Zenon DEF Enqueue, Goto, Typed, mach, Labels
  <2>3. CASE b # NoNode
    <3>1. b \in Nodes
      BY <2>1, <2>3, Zenon DEF MaybeNode
    <3>2. list \in Seq(Pages) /\ Len(list) <= BatchMax
      BY <2>1, <3>1, SizesAssumption DEF Typed, RoomInv
    <3>3. pas' \in [Nodes -> Seq(Pages)] /\ \A n \in Nodes : Len(pas'[n]) <= BatchMax
      <4>1. pas' = [pas EXCEPT ![b] = list]
        BY <1>3, <2>3, Zenon DEF Enqueue
      <4> QED
        BY <3>1, <3>2, <4>1, Zenon DEF Typed
    <3>4. next' \in [Nodes -> MaybeNode]
      <4>1. next' = IF install THEN [next EXCEPT ![b] = NoNode] ELSE next
        BY <1>3, <2>3, Zenon DEF Enqueue
      <4> QED
        BY <4>1, Zenon DEF Typed, MaybeNode
    <3>5. pending' \in [Machines -> [Machines -> MaybeNode]]
      <4>1. PICK q \in MaybeNode : pending' = [pending EXCEPT ![m][o] = q]
        BY <1>3, <2>1, <2>3, Zenon DEF Enqueue, Pending, MaybeNode
      <4> QED
        BY <2>1, <4>1, Zenon DEF Typed
    <3>6. hasPending' \in [Machines -> BOOLEAN]
      <4>1. hasPending' = [hasPending EXCEPT ![m] = Hint(m, install)]
        BY <1>3, <2>3, Zenon DEF Enqueue
      <4> QED
        BY <2>1, <4>1, Zenon DEF Typed, Hint
    <3> QED
      <4>1. /\ holder' \in [Machines -> Threads \cup {NoThread}]
            /\ arg' \in [Threads -> Pages \cup {NoPage}]
            /\ spare' \in [Threads -> MaybeNode] /\ batch' \in [Threads -> MaybeNode]
        <5>1. PICK h \in Threads \cup {NoThread}, q \in MaybeNode, r \in MaybeNode :
                /\ holder' = [holder EXCEPT ![m] = h] /\ arg' = [arg EXCEPT ![t] = NoPage]
                /\ spare' = [spare EXCEPT ![t] = q] /\ batch' = [batch EXCEPT ![t] = r]
          <6>1. /\ holder' = [holder EXCEPT ![m] = IF Full(list) THEN t ELSE NoThread]
                /\ arg' = [arg EXCEPT ![t] = NoPage]
                /\ spare' = [spare EXCEPT ![t] = IF install THEN NoNode ELSE spare[t]]
                /\ batch' = [batch EXCEPT ![t] = IF Full(list) THEN b ELSE NoNode]
            BY <1>3, <2>3, Zenon DEF Enqueue
          <6>2. (IF Full(list) THEN t ELSE NoThread) \in Threads \cup {NoThread}
            BY Zenon
          <6>3. (IF install THEN NoNode ELSE spare[t]) \in MaybeNode
            BY Zenon DEF Typed, MaybeNode
          <6>4. (IF Full(list) THEN b ELSE NoNode) \in MaybeNode
            BY <2>1, Zenon DEF MaybeNode
          <6> HIDE DEF install, list, b
          <6> QED
            BY <6>1, <6>2, <6>3, <6>4, Zenon
        <5> QED
          BY <5>1, Zenon DEF Typed
      <4>2. pc' \in [Threads -> Labels]
        <5>1. pc' = [pc EXCEPT ![t] = IF Full(list) THEN "pushread" ELSE "spare"]
          BY <1>3, <2>3, Zenon DEF Enqueue, Goto
        <5>2. (IF Full(list) THEN "pushread" ELSE "spare") \in Labels
          BY Zenon DEF Labels
        <5> HIDE DEF list
        <5> QED
          BY <5>1, <5>2 DEF Typed
      <4>3. UNCHANGED <<head, free, draining, ready, boots, page, own, snap, cur, todo, after>>
        BY <1>3, Zenon DEF Enqueue
      <4> QED
        BY <3>3, <3>4, <3>5, <3>6, <4>1, <4>2, <4>3, Zenon DEF Typed
  <2> QED
    BY <2>2, <2>3, Zenon
<1>4. ASSUME NEW t \in Threads, PushRead(t) PROVE Typed'
  BY <1>4, Zenon DEF PushRead, Goto, Typed, mach, Labels, StepInv, StepOK, Heads
<1>5. ASSUME NEW t \in Threads, PushCas(t) PROVE Typed'
  <2>1. CASE head[own[t]] = snap[t]
    <3>1. /\ head' = [head EXCEPT ![own[t]] = Bumped(snap[t], batch[t])]
          /\ batch' = [batch EXCEPT ![t] = NoNode] /\ snap' = [snap EXCEPT ![t] = EmptyHead(0)]
          /\ pc' = [pc EXCEPT ![t] = IF after[t] = "spare" THEN "pushed" ELSE "flush"]
          /\ UNCHANGED <<next, pas, free, pending, mach, page, arg, spare, own, cur, todo, after>>
      BY <1>5, <2>1, Zenon DEF PushCas, Goto
    <3>2. Bumped(snap[t], batch[t]) \in Heads /\ EmptyHead(0) \in Heads
      BY BumpedType, EmptyHeadType, Zenon DEF Typed
    <3> QED
      BY <3>1, <3>2, Zenon DEF Typed, mach, Labels, MaybeNode
  <2>2. CASE head[own[t]] # snap[t]
    BY <1>5, <2>2, Zenon DEF PushCas, Goto, Typed, mach, Labels
  <2> QED
    BY <2>1, <2>2, Zenon
<1>6. ASSUME NEW t \in Threads, Pushed(t) PROVE Typed'
  BY <1>6, Zenon DEF Pushed, Goto, Typed, mach, Labels, AnyPending
<1>7. ASSUME NEW t \in Threads, FreeSpare(t) PROVE Typed'
  BY <1>7, Zenon DEF FreeSpare, Return, Typed, mach, Labels, MaybeNode
<1>8. ASSUME NEW t \in Threads, FlushLock(t) PROVE Typed'
  BY <1>8, Zenon DEF FlushLock, Goto, Typed, mach, Labels
<1>9. ASSUME NEW t \in Threads, FlushNext(t) PROVE Typed'
  <2>1. ASSUME NEW o \in Machines,
               batch' = [batch EXCEPT ![t] = pending[MachineOf[t]][o]], own' = [own EXCEPT ![t] = o],
               pending' = [pending EXCEPT ![MachineOf[t]][o] = NoNode], Goto(t, "pushread"),
               UNCHANGED <<hasPending, holder, after>>
        PROVE  Typed'
    <3>1. MachineOf[t] \in Machines /\ NoNode \in MaybeNode /\ "pushread" \in Labels
      BY DEF MaybeNode, Labels
    <3>2. pending' \in [Machines -> [Machines -> MaybeNode]]
      BY <2>1, <3>1 DEF Typed
    <3>3. batch' \in [Threads -> MaybeNode] /\ own' \in [Threads -> Machines] /\ pc' \in [Threads -> Labels]
      BY <2>1, <3>1 DEF Goto, Typed
    <3>4. UNCHANGED <<head, next, pas, free, draining, ready, boots, page, arg, spare, snap, cur, todo>>
      BY <1>9, Zenon DEF FlushNext
    <3> QED
      BY <2>1, <3>2, <3>3, <3>4, Zenon DEF Typed
  <2>2. CASE hasPending' = [hasPending EXCEPT ![MachineOf[t]] = FALSE]
             /\ holder' = [holder EXCEPT ![MachineOf[t]] = NoThread] /\ Goto(t, after[t])
             /\ own' = [own EXCEPT ![t] = MachineOf[t]] /\ after' = [after EXCEPT ![t] = "idle"]
             /\ UNCHANGED <<batch, pending>>
    BY <1>9, <2>2, Zenon DEF FlushNext, Goto, Typed, mach, Labels
  <2> QED
    BY <1>9, <2>1, <2>2, Zenon DEF FlushNext
<1>10. ASSUME NEW t \in Threads, DrainStart(t) PROVE Typed'
  BY <1>10, Zenon DEF DrainStart, Goto, Typed, mach, Labels
<1>11. ASSUME NEW t \in Threads, PopRead(t) PROVE Typed'
  BY <1>11, Zenon DEF PopRead, Goto, Typed, mach, Labels
<1>12. ASSUME NEW t \in Threads, PopCas(t) PROVE Typed'
  <2>1. CASE head[MachineOf[t]] = snap[t]
    <3>1. /\ head' = [head EXCEPT ![MachineOf[t]] = Bumped(snap[t], NoNode)]
          /\ cur' = [cur EXCEPT ![t] = snap[t].node] /\ todo' = [todo EXCEPT ![t] = pas[snap[t].node]]
          /\ snap' = [snap EXCEPT ![t] = EmptyHead(0)] /\ pc' = [pc EXCEPT ![t] = "dfree"]
          /\ UNCHANGED <<next, pas, free, pending, mach, page, arg, spare, batch, own, after>>
      BY <1>12, <2>1, Zenon DEF PopCas, Goto
    <3>2. snap[t] \in Heads /\ snap[t].node \in Nodes /\ snap[t].node \in MaybeNode
      BY <1>12, Zenon DEF PopCas, StepInv, StepOK, Typed, MaybeNode
    <3>3. Bumped(snap[t], NoNode) \in Heads /\ EmptyHead(0) \in Heads
      BY <3>2, BumpedType, EmptyHeadType, Zenon DEF MaybeNode
    <3> QED
      BY <3>1, <3>2, <3>3, Zenon DEF Typed, mach, Labels
  <2>2. CASE head[MachineOf[t]] # snap[t]
    BY <1>12, <2>2, Zenon DEF PopCas, Goto, Typed, mach, Labels
  <2> QED
    BY <2>1, <2>2, Zenon
<1>13. ASSUME NEW t \in Threads, DrainPage(t) PROVE Typed'
  BY <1>13 DEF DrainPage, Goto, Typed, mach, Labels
<1>14. ASSUME NEW t \in Threads, DrainBatch(t) PROVE Typed'
  <2>1. PICK n \in Nodes : n = cur[t]
    BY <1>14, Zenon DEF DrainBatch, StepInv, StepOK
  <2>2. /\ pas' = [pas EXCEPT ![n] = << >>] /\ next' = [next EXCEPT ![n] = NoNode]
        /\ free' = free \cup {n} /\ cur' = [cur EXCEPT ![t] = next[n]]
        /\ todo' = IF next[n] = NoNode THEN todo ELSE [todo EXCEPT ![t] = pas[next[n]]]
        /\ pc' = [pc EXCEPT ![t] = IF next[n] = NoNode THEN "drained" ELSE "dfree"]
        /\ UNCHANGED <<head, pending, mach, page, arg, spare, batch, own, snap, after>>
    BY <1>14, <2>1, Zenon DEF DrainBatch, Goto
  <2>3. pas' \in [Nodes -> Seq(Pages)] /\ \A x \in Nodes : Len(pas'[x]) <= BatchMax
    BY <2>2, SizesAssumption DEF Typed
  <2>4. /\ next' \in [Nodes -> MaybeNode] /\ free' \subseteq Nodes
        /\ cur' \in [Threads -> MaybeNode] /\ todo' \in [Threads -> Seq(Pages)]
    BY <2>2 DEF Typed, MaybeNode
  <2>5. pc' \in [Threads -> Labels]
    BY <2>2 DEF Typed, Labels
  <2> QED
    BY <2>2, <2>3, <2>4, <2>5, Zenon DEF Typed, mach
<1>15. ASSUME NEW t \in Threads, DrainEnd(t) PROVE Typed'
  BY <1>15, Zenon DEF DrainEnd, Goto, Typed, mach, Labels
<1>16. ASSUME NEW t \in Threads, Poll(t) \/ Flush(t) \/ DrainNow(t) PROVE Typed'
  BY <1>16, Zenon DEF Poll, Flush, DrainNow, Goto, Typed, mach, Labels
<1>17. ASSUME NEW p \in Pages, Realloc(p) PROVE Typed'
  BY <1>17, Zenon DEF Realloc, Typed, mach
<1>18. ASSUME NEW m \in Machines, Crash(m) PROVE Typed'
  BY <1>18, EmptyHeadType DEF Crash, Typed, mach, Labels, MaybeNode
<1>19. ASSUME NEW m \in Machines, RemotePageFreeInit(m) PROVE Typed'
  BY <1>19, BumpedType, SizesAssumption DEF RemotePageFreeInit, Typed, mach, Labels, MaybeNode, BootInv
<1>20. CASE UNCHANGED vars
  BY <1>20, Zenon DEF vars, mach, Typed
<1> QED
  BY <1>1, <1>2, <1>3, <1>4, <1>5, <1>6, <1>7, <1>8, <1>9, <1>10, <1>11, <1>12, <1>13, <1>14, <1>15,
     <1>16, <1>17, <1>18, <1>19, <1>20, Zenon DEF Next, Step

-----------------------------------------------------------------------------
(* How nodes change hands                                                  *)

LEMMA ChainSame ==
  ASSUME next' = next
  PROVE  /\ \A n : Chain(n)' = Chain(n)
         /\ Acyclic => Acyclic'
<1>1. \A n : Chain(n)' = Chain(n)
  BY Zenon DEF Chain, Closed
<1> QED
  BY <1>1, Zenon DEF Acyclic

nodeVars == <<head, next, free, pending, spare, batch, cur>>

LEMMA NodesStay ==
  ASSUME Unique, Acyclic, UNCHANGED nodeVars
  PROVE  Unique' /\ Acyclic'
<1>1. Acyclic' /\ \A n : Chain(n)' = Chain(n)
  BY ChainSame, Zenon DEF nodeVars
<1>2. ASSUME NEW n \in Nodes, NEW k, NEW a, NEW b, Holds(k, a, b, n)' PROVE Holds(k, a, b, n)
  BY <1>1, <1>2, Zenon DEF Holds, nodeVars
<1> QED
  BY <1>1, <1>2, UniqueFrame, Zenon

\* The allocator hands a node to a thread.
LEMMA NodeAllocated ==
  ASSUME Unique, Typed, NEW t \in Threads, NEW n \in free, free' = free \ {n},
         spare' = [spare EXCEPT ![t] = n], UNCHANGED <<head, next, pending, batch, cur>>
  PROVE  Unique'
<1>1. \A x : Chain(x)' = Chain(x)
  BY ChainSame, Zenon
<1>2. \A a \in Threads : spare'[a] = IF a = t THEN n ELSE spare[a]
  BY Zenon DEF Typed
<1>3. ASSUME NEW x \in Nodes, NEW k, NEW a, NEW b, Holds(k, a, b, x)'
      PROVE  Holds(k, a, b, x)
             \/ (k = "spare" /\ a = t /\ b = t /\ Holds("allocator", NoNode, NoNode, x))
  BY <1>1, <1>2, <1>3, Zenon DEF Holds
<1>4. ASSUME NEW x \in Nodes, Holds("allocator", NoNode, NoNode, x)' PROVE ~Holds("spare", t, t, x)'
  BY <1>2, <1>4, Zenon DEF Holds
<1> QED
  BY <1>3, <1>4, UniqueMove, Zenon

\* A thread gives its spare node back to the allocator.
LEMMA NodeReturned ==
  ASSUME Unique, Typed, NEW t \in Threads, free' = free \cup ({spare[t]} \ {NoNode}),
         spare' = [spare EXCEPT ![t] = NoNode], UNCHANGED <<head, next, pending, batch, cur>>
  PROVE  Unique'
<1>1. \A x : Chain(x)' = Chain(x)
  BY ChainSame, Zenon
<1>2. \A a \in Threads : spare'[a] = IF a = t THEN NoNode ELSE spare[a]
  BY Zenon DEF Typed
<1>3. ASSUME NEW x \in Nodes, NEW k, NEW a, NEW b, Holds(k, a, b, x)'
      PROVE  Holds(k, a, b, x)
             \/ (k = "allocator" /\ a = NoNode /\ b = NoNode /\ Holds("spare", t, t, x))
  <2>1. x # NoNode
    BY NullsAssumption, Zenon
  <2> QED
    BY <1>1, <1>2, <1>3, <2>1, Zenon DEF Holds
<1>4. ASSUME NEW x \in Nodes, Holds("spare", t, t, x)' PROVE ~Holds("allocator", NoNode, NoNode, x)'
  BY <1>2, <1>4, NullsAssumption, Zenon DEF Holds
<1> QED
  BY <1>3, <1>4, UniqueMove, Zenon

\* A pending batch becomes the batch a thread pushes.
LEMMA NodeTaken ==
  ASSUME Unique, Typed, NEW t \in Threads, NEW m \in Machines, NEW o \in Machines,
         batch' = [batch EXCEPT ![t] = pending[m][o]],
         pending' = [pending EXCEPT ![m][o] = NoNode], UNCHANGED <<head, next, free, spare, cur>>
  PROVE  Unique'
<1>1. \A x : Chain(x)' = Chain(x)
  BY ChainSame, Zenon
<1>2. \A a \in Threads : batch'[a] = IF a = t THEN pending[m][o] ELSE batch[a]
  BY Zenon DEF Typed
<1>3. \A a, b \in Machines : pending'[a][b] = IF a = m /\ b = o THEN NoNode ELSE pending[a][b]
  BY Zenon DEF Typed
<1>4. ASSUME NEW x \in Nodes, NEW k, NEW a, NEW b, Holds(k, a, b, x)'
      PROVE  Holds(k, a, b, x) \/ (k = "push" /\ a = t /\ b = t /\ Holds("pending", m, o, x))
  <2>1. x # NoNode
    BY NullsAssumption, Zenon
  <2>2. CASE k = "pending"
    BY <1>3, <1>4, <2>1, <2>2 DEF Holds
  <2>3. CASE k = "push"
    BY <1>2, <1>4, <2>1, <2>3, Zenon DEF Holds
  <2>4. CASE k # "pending" /\ k # "push"
    BY <1>1, <1>4, <2>4, Zenon DEF Holds
  <2> QED
    BY <2>2, <2>3, <2>4, Zenon
<1>5. ASSUME NEW x \in Nodes, Holds("pending", m, o, x)' PROVE ~Holds("push", t, t, x)'
  BY <1>3, <1>5, NullsAssumption, Zenon DEF Holds
<1> QED
  BY <1>4, <1>5, UniqueMove, Zenon

\* What a holder of one node has is on no stack and in no drained chain.
LEMMA OffChains ==
  ASSUME Unique, NEW n \in Nodes, NEW k, NEW a, NEW b, Holds(k, a, b, n)
  PROVE  /\ k # "stack" => \A m \in Machines : n \notin Chain(head[m].node)
         /\ k # "drain" => \A u \in Threads : n \notin Chain(cur[u])
<1>1. ASSUME NEW m \in Machines, k # "stack", n \in Chain(head[m].node) PROVE FALSE
  <2>1. Holds("stack", m, m, n)
    BY <1>1, Zenon DEF Holds
  <2> QED
    BY <1>1, <2>1, Zenon DEF Unique
<1>2. ASSUME NEW u \in Threads, k # "drain", n \in Chain(cur[u]) PROVE FALSE
  <2>1. Holds("drain", u, u, n)
    BY <1>2, Zenon DEF Holds
  <2> QED
    BY <1>2, <2>1, Zenon DEF Unique
<1> QED
  BY <1>1, <1>2, Zenon

\* So the chains stay when its link changes.
LEMMA ChainsKept ==
  ASSUME Typed, Typed', Unique, NEW n \in Nodes, NEW k, NEW a, NEW b, Holds(k, a, b, n),
         k # "stack", k # "drain", \A x \in Nodes : x # n => next'[x] = next[x]
  PROVE  /\ \A m \in Machines : \A y : y = head[m].node => Chain(y)' = Chain(y)
         /\ \A u \in Threads : \A y : y = cur[u] => Chain(y)' = Chain(y)
<1>1. /\ \A m \in Machines : head[m].node \in MaybeNode
      /\ \A u \in Threads : cur[u] \in MaybeNode
      /\ next \in [Nodes -> MaybeNode] /\ next' \in [Nodes -> MaybeNode]
  BY Zenon DEF Typed, Heads
<1>2. \A y \in MaybeNode : n \notin Chain(y) => Chain(y)' = Chain(y)
  BY <1>1, ChainFrame, Zenon
<1> QED
  BY <1>1, <1>2, OffChains, Zenon

\* A spare node becomes a batch: pending, or pushed at once when it is full.
LEMMA NodeInstalled ==
  ASSUME Unique, Acyclic, Typed, Typed', NEW t \in Threads, NEW m \in Machines, NEW o \in Machines,
         NEW n \in Nodes, n = spare[t], NEW full \in BOOLEAN,
         next' = [next EXCEPT ![n] = NoNode],
         pending' = [pending EXCEPT ![m][o] = IF full THEN NoNode ELSE n],
         spare' = [spare EXCEPT ![t] = NoNode],
         batch' = [batch EXCEPT ![t] = IF full THEN n ELSE NoNode], UNCHANGED <<head, free, cur>>
  PROVE  Unique' /\ Acyclic'
<1>1. Holds("spare", t, t, n)
  BY Zenon DEF Holds
<1>2. /\ \A x \in Nodes : x # n => next'[x] = next[x]
      /\ next'[n] = NoNode /\ NoNode \in MaybeNode
      /\ next \in [Nodes -> MaybeNode] /\ next' \in [Nodes -> MaybeNode]
  BY Zenon DEF Typed, MaybeNode
<1>3. Acyclic'
  BY <1>2, ChainUnfolds, AcyclicLink, Zenon
<1>4. /\ \A a \in Machines : \A y : y = head[a].node => Chain(y)' = Chain(y)
      /\ \A a \in Threads : \A y : y = cur[a] => Chain(y)' = Chain(y)
  BY <1>1, <1>2, ChainsKept, Zenon
<1>5. /\ \A a \in Threads : spare'[a] = IF a = t THEN NoNode ELSE spare[a]
      /\ \A a \in Threads : batch'[a] = IF a = t THEN (IF full THEN n ELSE NoNode) ELSE batch[a]
      /\ \A a, b \in Machines :
           pending'[a][b] = IF a = m /\ b = o THEN (IF full THEN NoNode ELSE n) ELSE pending[a][b]
  BY DEF Typed
<1>6. ASSUME NEW x \in Nodes, NEW k, NEW a, NEW b, Holds(k, a, b, x)', ~Holds(k, a, b, x)
      PROVE  /\ x = n
             /\ \/ ~full /\ k = "pending" /\ a = m /\ b = o
                \/ full /\ k = "push" /\ a = t /\ b = t
  <2>1. x # NoNode
    BY NullsAssumption, Zenon
  <2>2. CASE k = "pending"
    BY <1>5, <1>6, <2>1, <2>2 DEF Holds
  <2>3. CASE k = "push"
    BY <1>5, <1>6, <2>1, <2>3, Zenon DEF Holds
  <2>4. CASE k = "spare"
    BY <1>5, <1>6, <2>1, <2>4, Zenon DEF Holds
  <2>5. CASE k \notin {"pending", "push", "spare"}
    BY <1>4, <1>6, <2>5, Zenon DEF Holds
  <2> QED
    BY <2>2, <2>3, <2>4, <2>5, Zenon
<1>7. \A x \in Nodes : ~Holds("spare", t, t, x)'
  BY <1>5, NullsAssumption, Zenon DEF Holds
<1>8. CASE full
  <2>1. ASSUME NEW x \in Nodes, NEW k, NEW a, NEW b, Holds(k, a, b, x)'
        PROVE  Holds(k, a, b, x) \/ (k = "push" /\ a = t /\ b = t /\ Holds("spare", t, t, x))
    BY <1>1, <1>6, <1>8, <2>1
  <2>2. ASSUME NEW x \in Nodes, Holds("spare", t, t, x)' PROVE ~Holds("push", t, t, x)'
    BY <1>7, <2>2, Zenon
  <2> QED
    BY <1>3, <2>1, <2>2, UniqueMove
<1>9. CASE ~full
  <2>1. ASSUME NEW x \in Nodes, NEW k, NEW a, NEW b, Holds(k, a, b, x)'
        PROVE  Holds(k, a, b, x) \/ (k = "pending" /\ a = m /\ b = o /\ Holds("spare", t, t, x))
    BY <1>1, <1>6, <1>9, <2>1
  <2>2. ASSUME NEW x \in Nodes, Holds("spare", t, t, x)' PROVE ~Holds("pending", m, o, x)'
    BY <1>7, <2>2, Zenon
  <2> QED
    BY <1>3, <2>1, <2>2, UniqueMove, Zenon
<1> QED
  BY <1>8, <1>9, Zenon

\* A node that is to be pushed points at the head of the stack.
LEMMA NodeLinked ==
  ASSUME Unique, Acyclic, Typed, Typed', NEW t \in Threads, NEW m \in Machines,
         NEW n \in Nodes, n = batch[t], next' = [next EXCEPT ![n] = head[m].node],
         UNCHANGED <<head, free, pending, spare, batch, cur>>
  PROVE  Unique' /\ Acyclic'
<1>1. Holds("push", t, t, n)
  BY Zenon DEF Holds
<1>2. PICK h \in MaybeNode : h = head[m].node
  BY Zenon DEF Typed, Heads
<1>3. /\ \A x \in Nodes : x # n => next'[x] = next[x]
      /\ next'[n] = h
      /\ next \in [Nodes -> MaybeNode] /\ next' \in [Nodes -> MaybeNode]
  BY <1>2, Zenon DEF Typed
<1>4. n \notin Chain(h)
  BY <1>1, <1>2, OffChains
<1>5. Acyclic'
  BY <1>3, <1>4, AcyclicLink, Zenon
<1>6. /\ \A a \in Machines : \A y : y = head[a].node => Chain(y)' = Chain(y)
      /\ \A a \in Threads : \A y : y = cur[a] => Chain(y)' = Chain(y)
  BY <1>1, <1>3, ChainsKept, Zenon
<1>7. ASSUME NEW x \in Nodes, NEW k, NEW a, NEW b, Holds(k, a, b, x)' PROVE Holds(k, a, b, x)
  BY <1>6, <1>7, Zenon DEF Holds
<1> QED
  BY <1>5, <1>7, UniqueFrame, Zenon

\* The head of the stack becomes the pushed node, in front of what was there.
LEMMA NodePushed ==
  ASSUME Unique, Acyclic, Typed, NEW t \in Threads, NEW m \in Machines,
         NEW n \in Nodes, n = batch[t], next[n] = head[m].node, NEW h \in Heads, h.node = n,
         head' = [head EXCEPT ![m] = h], batch' = [batch EXCEPT ![t] = NoNode],
         UNCHANGED <<next, free, pending, spare, cur>>
  PROVE  Unique' /\ Acyclic'
<1>1. Acyclic' /\ \A x : Chain(x)' = Chain(x)
  BY ChainSame, Zenon
<1>2. \A a \in Machines : head'[a].node = IF a = m THEN n ELSE head[a].node
  BY Zenon DEF Typed
<1>3. \A a \in Threads : batch'[a] = IF a = t THEN NoNode ELSE batch[a]
  BY Zenon DEF Typed
<1>4. Chain(n) = {n} \cup Chain(head[m].node)
  BY ChainUnfolds, Zenon DEF Typed
<1>5. ASSUME NEW x \in Nodes, NEW k, NEW a, NEW b, Holds(k, a, b, x)'
      PROVE  Holds(k, a, b, x) \/ (k = "stack" /\ a = m /\ b = m /\ Holds("push", t, t, x))
  <2>1. x # NoNode
    BY NullsAssumption, Zenon
  <2>2. CASE k = "stack"
    <3>1. a \in Machines /\ b = a /\ x \in Chain(head'[a].node)
      BY <1>1, <1>5, <2>2, Zenon DEF Holds
    <3>2. CASE a = m
      <4>1. x = n \/ x \in Chain(head[m].node)
        BY <1>2, <1>4, <3>1, <3>2, Zenon
      <4> QED
        BY <2>2, <3>1, <3>2, <4>1, Zenon DEF Holds
    <3>3. CASE a # m
      BY <1>2, <2>2, <3>1, <3>3, Zenon DEF Holds
    <3> QED
      BY <3>2, <3>3, Zenon
  <2>3. CASE k = "push"
    BY <1>3, <1>5, <2>1, <2>3, Zenon DEF Holds
  <2>4. CASE k \notin {"stack", "push"}
    BY <1>1, <1>5, <2>4, Zenon DEF Holds
  <2> QED
    BY <2>2, <2>3, <2>4, Zenon
<1>6. ASSUME NEW x \in Nodes, Holds("push", t, t, x)' PROVE ~Holds("stack", m, m, x)'
  BY <1>3, <1>6, NullsAssumption, Zenon DEF Holds
<1>7. Unique'
  BY <1>5, <1>6, UniqueMove
<1> QED
  BY <1>1, <1>7, Zenon

\* The owner takes its stack.
LEMMA NodesPopped ==
  ASSUME Unique, Acyclic, Typed, NEW t \in Threads, NEW m \in Machines, NEW h \in Heads, h.node = NoNode,
         head' = [head EXCEPT ![m] = h], cur' = [cur EXCEPT ![t] = head[m].node],
         UNCHANGED <<next, free, pending, spare, batch>>
  PROVE  Unique' /\ Acyclic'
<1>1. Acyclic' /\ \A x : Chain(x)' = Chain(x)
  BY ChainSame, Zenon
<1>2. \A a \in Machines : head'[a].node = IF a = m THEN NoNode ELSE head[a].node
  BY Zenon DEF Typed
<1>3. \A a \in Threads : cur'[a] = IF a = t THEN head[m].node ELSE cur[a]
  BY Zenon DEF Typed
<1>4. Chain(NoNode) = {}
  BY ChainUnfolds, Zenon DEF Typed
<1>5. ASSUME NEW x \in Nodes, NEW k, NEW a, NEW b, Holds(k, a, b, x)'
      PROVE  Holds(k, a, b, x) \/ (k = "drain" /\ a = t /\ b = t /\ Holds("stack", m, m, x))
  <2>1. CASE k = "stack"
    <3>1. a \in Machines /\ b = a /\ x \in Chain(head'[a].node)
      BY <1>1, <1>5, <2>1, Zenon DEF Holds
    <3> QED
      BY <1>2, <1>4, <2>1, <3>1, Zenon DEF Holds
  <2>2. CASE k = "drain"
    <3>1. a \in Threads /\ b = a /\ x \in Chain(cur'[a])
      BY <1>1, <1>5, <2>2, Zenon DEF Holds
    <3> QED
      BY <1>3, <2>2, <3>1, Zenon DEF Holds
  <2>3. CASE k \notin {"stack", "drain"}
    BY <1>1, <1>5, <2>3, Zenon DEF Holds
  <2> QED
    BY <2>1, <2>2, <2>3, Zenon
<1>6. ASSUME NEW x \in Nodes, Holds("stack", m, m, x)' PROVE ~Holds("drain", t, t, x)'
  <2>1. x \in Chain(head'[m].node)
    BY <1>1, <1>6, Zenon DEF Holds
  <2> QED
    BY <1>2, <1>4, <2>1, Zenon
<1>7. Unique'
  BY <1>5, <1>6, UniqueMove, Zenon
<1> QED
  BY <1>1, <1>7, Zenon

\* The owner frees the first node of what it took.
LEMMA NodeDrained ==
  ASSUME Unique, Acyclic, Typed, Typed', NEW t \in Threads, NEW n \in Nodes, n = cur[t],
         next' = [next EXCEPT ![n] = NoNode], free' = free \cup {n},
         cur' = [cur EXCEPT ![t] = next[n]], UNCHANGED <<head, pending, spare, batch>>
  PROVE  Unique' /\ Acyclic'
<1>1. /\ \A x \in Nodes : x # n => next'[x] = next[x]
      /\ next'[n] = NoNode /\ NoNode \in MaybeNode
      /\ next \in [Nodes -> MaybeNode] /\ next' \in [Nodes -> MaybeNode]
  BY Zenon DEF Typed, MaybeNode
<1>2. Acyclic'
  BY <1>1, ChainUnfolds, AcyclicLink, Zenon
<1>3. Chain(n) = {n} \cup Chain(next[n]) /\ n \notin Chain(next[n])
  BY <1>1, ChainUnfolds, Zenon DEF Acyclic
<1>4. Holds("drain", t, t, n)
  BY <1>3, Zenon DEF Holds
<1>5. \A y \in MaybeNode : n \notin Chain(y) => Chain(y)' = Chain(y)
  BY <1>1, ChainFrame, Zenon
<1>6. ASSUME NEW a \in Machines, NEW y, y = head[a].node PROVE Chain(y)' = Chain(y)
  <2>1. y \in MaybeNode
    BY <1>6, Zenon DEF Typed, Heads
  <2>2. n \notin Chain(y)
    BY <1>4, <1>6, OffChains
  <2> QED
    BY <1>5, <2>1, <2>2, Zenon
<1>7. ASSUME NEW a \in Threads, NEW y, a # t => y = cur[a], a = t => y = next[n] PROVE Chain(y)' = Chain(y)
  <2>1. y \in MaybeNode
    BY <1>1, <1>7 DEF Typed
  <2>2. n \notin Chain(y)
    <3>1. CASE a = t
      BY <1>3, <1>7, <3>1, Zenon
    <3>2. CASE a # t
      <4> SUFFICES ASSUME n \in Chain(y) PROVE FALSE
        BY Zenon
      <4>1. Holds("drain", a, a, n)
        BY <1>7, <3>2, Zenon DEF Holds
      <4> QED
        BY <1>4, <3>2, <4>1, Zenon DEF Unique
    <3> QED
      BY <3>1, <3>2, Zenon
  <2> QED
    BY <1>5, <2>1, <2>2, Zenon
<1>8. \A a \in Threads : cur'[a] = IF a = t THEN next[n] ELSE cur[a]
  BY Zenon DEF Typed
<1>9. \A a \in Threads : Chain(cur[a])' = Chain(cur'[a])
  BY <1>7, <1>8, Zenon
<1>10. ASSUME NEW x \in Nodes, NEW k, NEW a, NEW b, Holds(k, a, b, x)'
      PROVE  Holds(k, a, b, x)
             \/ (k = "allocator" /\ a = NoNode /\ b = NoNode /\ Holds("drain", t, t, x))
  <2>1. CASE k = "drain"
    <3>1. a \in Threads /\ b = a /\ x \in Chain(cur'[a])
      BY <1>9, <1>10, <2>1, Zenon DEF Holds
    <3> QED
      BY <1>3, <1>8, <2>1, <3>1, Zenon DEF Holds
  <2>2. CASE k = "allocator"
    <3>1. a = NoNode /\ b = NoNode /\ (x \in free \/ x = n)
      BY <1>10, <2>2, Zenon DEF Holds
    <3>2. x \in free => Holds(k, a, b, x)
      BY <2>2, <3>1, Zenon DEF Holds
    <3> QED
      BY <1>4, <2>2, <3>1, <3>2, Zenon
  <2>3. CASE k \notin {"drain", "allocator"}
    BY <1>6, <1>10, <2>3, Zenon DEF Holds
  <2> QED
    BY <2>1, <2>2, <2>3, Zenon
<1>11. ASSUME NEW x \in Nodes, Holds("drain", t, t, x), Holds("drain", t, t, x)'
       PROVE  ~Holds("allocator", NoNode, NoNode, x)'
  <2>1. x \in Chain(next[n])
    <3>1. x \in Chain(cur'[t])
      BY <1>9, <1>11, Zenon DEF Holds
    <3> QED
      BY <1>8, <3>1, Zenon
  <2>2. x # n
    BY <1>3, <2>1, Zenon
  <2>3. x \notin free
    <3> SUFFICES ASSUME x \in free PROVE FALSE
      BY Zenon
    <3>1. Holds("allocator", NoNode, NoNode, x)
      BY Zenon DEF Holds
    <3> QED
      BY <1>11, <3>1, Zenon DEF Unique
  <2> QED
    BY <2>2, <2>3, Zenon DEF Holds
<1>12. Unique'
  BY <1>10, <1>11, UniqueMove
<1> QED
  BY <1>2, <1>12, Zenon

\* A machine that fails, or boots, lets go of nodes.
LEMMA NodesDropped ==
  ASSUME Unique, Acyclic, Typed, UNCHANGED <<next, free>>,
         \A t \in Threads : /\ spare'[t] \in {spare[t], NoNode} /\ batch'[t] \in {batch[t], NoNode}
                            /\ cur'[t] \in {cur[t], NoNode},
         \A m, o \in Machines : pending'[m][o] \in {pending[m][o], NoNode},
         \A m \in Machines : head'[m].node \in {head[m].node, NoNode}
  PROVE  Unique' /\ Acyclic'
<1>1. Acyclic' /\ \A x : Chain(x)' = Chain(x)
  BY ChainSame, Zenon
<1>2. Chain(NoNode) = {}
  BY ChainUnfolds, Zenon DEF Typed
<1>3. ASSUME NEW x \in Nodes, NEW k, NEW a, NEW b, Holds(k, a, b, x)' PROVE Holds(k, a, b, x)
  <2>1. x # NoNode
    BY NullsAssumption, Zenon
  <2>2. CASE k \in {"allocator", "spare", "pending", "push"}
    BY <1>3, <2>1, <2>2 DEF Holds
  <2>3. CASE k = "stack"
    <3>1. a \in Machines /\ b = a /\ x \in Chain(head'[a].node)
      BY <1>1, <1>3, <2>3, Zenon DEF Holds
    <3> QED
      BY <1>2, <2>3, <3>1, Zenon DEF Holds
  <2>4. CASE k = "drain"
    <3>1. a \in Threads /\ b = a /\ x \in Chain(cur'[a])
      BY <1>1, <1>3, <2>4, Zenon DEF Holds
    <3> QED
      BY <1>2, <2>4, <3>1, Zenon DEF Holds
  <2> QED
    BY <1>3, <2>2, <2>3, <2>4, Zenon DEF Holds
<1> QED
  BY <1>1, <1>3, UniqueFrame, Zenon

LEMMA HoldersStep ==
  ASSUME NInv, Typed', [Next]_vars
  PROVE  Unique' /\ Acyclic'
<1> DEFINE Done == Unique' /\ Acyclic'
<1>0. /\ Typed /\ Unique /\ Acyclic
      /\ \A t \in Threads : MachineOf[t] \in Machines /\ own[t] \in Machines
  BY ThreadsAssumption, Zenon DEF NInv, Typed
<1>a. UNCHANGED nodeVars => Done
  BY <1>0, NodesStay, Zenon
<1>1. ASSUME NEW t \in Threads, NEW p \in Pages, FreeMachinePage(t, p) PROVE Done
  BY <1>1, <1>a, Zenon DEF FreeMachinePage, nodeVars
<1>2. ASSUME NEW t \in Threads, PreCheck(t) PROVE Done
  <2>1. ASSUME NEW n \in free, free' = free \ {n}, spare' = [spare EXCEPT ![t] = n] PROVE Done
    <3>1. UNCHANGED <<head, next, pending, batch, cur>>
      BY <1>2, Zenon DEF PreCheck
    <3> QED
      BY <1>0, <2>1, <3>1, NodeAllocated, ChainSame, Zenon
  <2>2. CASE UNCHANGED <<free, spare>>
    BY <1>2, <1>a, <2>2, Zenon DEF PreCheck, nodeVars
  <2> QED
    BY <1>2, <2>1, <2>2, Zenon DEF PreCheck
<1>3. ASSUME NEW t \in Threads, Enqueue(t) PROVE Done
  <2> DEFINE m == MachineOf[t]
             o == own[t]
             install == pending[m][o] = NoNode
             n == IF install THEN spare[t] ELSE pending[m][o]
             list == IF install THEN <<arg[t]>> ELSE Append(pas[n], arg[t])
             full == Full(list)
  <2>1. m \in Machines /\ o \in Machines /\ n \in MaybeNode /\ full \in BOOLEAN
    BY <1>0, Zenon DEF Typed, Full
  <2>2. CASE n = NoNode
    BY <1>3, <1>a, <2>2, Zenon DEF Enqueue, nodeVars
  <2>3. CASE n # NoNode /\ install
    <3>1. /\ n \in Nodes /\ n = spare[t]
          /\ next' = [next EXCEPT ![n] = NoNode]
          /\ pending' = [pending EXCEPT ![m][o] = IF full THEN NoNode ELSE n]
          /\ spare' = [spare EXCEPT ![t] = NoNode]
          /\ batch' = [batch EXCEPT ![t] = IF full THEN n ELSE NoNode]
          /\ UNCHANGED <<head, free, cur>>
      BY <1>3, <2>1, <2>3, Zenon DEF Enqueue, Pending, MaybeNode
    <3> HIDE DEF full, n, m, o
    <3> QED
      BY <1>0, <2>1, <3>1, NodeInstalled, Zenon
  <2>4. CASE n # NoNode /\ ~install
    <3>1. /\ n = pending[m][o]
          /\ next' = next
          /\ pending' = [pending EXCEPT ![m][o] = IF full THEN NoNode ELSE pending[m][o]]
          /\ spare' = [spare EXCEPT ![t] = spare[t]]
          /\ batch' = [batch EXCEPT ![t] = IF full THEN pending[m][o] ELSE NoNode]
          /\ UNCHANGED <<head, free, cur>>
      BY <1>3, <2>1, <2>4, Zenon DEF Enqueue, Pending
    <3>2. spare' = spare
      BY <1>0, <3>1, Zenon DEF Typed
    <3>3. CASE full
      <4>1. /\ pending' = [pending EXCEPT ![m][o] = NoNode]
            /\ batch' = [batch EXCEPT ![t] = pending[m][o]]
        BY <3>1, <3>3, Zenon
      <4>2. UNCHANGED <<head, next, free, spare, cur>>
        BY <3>1, <3>2, Zenon
      <4> HIDE DEF full, n, m, o
      <4>3. Unique'
        BY <1>0, <2>1, <4>1, <4>2, NodeTaken, Zenon
      <4> QED
        BY <1>0, <4>2, <4>3, ChainSame, Zenon
    <3>4. CASE ~full
      <4>1. pending' = pending
        <5>1. pending' = [pending EXCEPT ![m][o] = pending[m][o]]
          BY <3>1, <3>4, Zenon
        <5>2. pending \in [Machines -> [Machines -> MaybeNode]]
          BY <1>0, Zenon DEF Typed
        <5> HIDE DEF m, o
        <5> QED
          BY <2>1, <5>1, <5>2, Zenon
      <4>2. \A u \in Threads : batch'[u] \in {batch[u], NoNode}
        BY <1>0, <3>1, <3>4, Zenon DEF Typed
      <4> QED
        BY <1>0, <3>1, <3>2, <4>1, <4>2, NodesDropped, Zenon
    <3> QED
      BY <3>3, <3>4, Zenon
  <2> QED
    BY <2>2, <2>3, <2>4, Zenon
<1>4. ASSUME NEW t \in Threads, PushRead(t) PROVE Done
  <2>1. PICK n \in Nodes : n = batch[t]
    BY <1>4, Zenon DEF NInv, StepInv, StepOK, PushRead
  <2>2. PICK m \in Machines : m = own[t]
    BY <1>0, Zenon
  <2>3. next' = [next EXCEPT ![n] = head[m].node] /\ UNCHANGED <<head, free, pending, spare, batch, cur>>
    BY <1>4, <2>1, <2>2, Zenon DEF PushRead
  <2> QED
    BY <1>0, <2>1, <2>2, <2>3, NodeLinked, Zenon
<1>5. ASSUME NEW t \in Threads, PushCas(t) PROVE Done
  <2>1. CASE head[own[t]] = snap[t]
    <3>1. PICK n \in Nodes : n = batch[t] /\ next[n] = snap[t].node
      BY <1>5, Zenon DEF NInv, StepInv, StepOK, PushCas
    <3>2. PICK m \in Machines : m = own[t]
      BY <1>0, Zenon
    <3>3. PICK h \in Heads : h = Bumped(snap[t], n) /\ h.node = n
      BY <1>0, BumpedType, Zenon DEF Typed, MaybeNode
    <3>4. /\ head' = [head EXCEPT ![m] = h] /\ batch' = [batch EXCEPT ![t] = NoNode]
          /\ UNCHANGED <<next, free, pending, spare, cur>>
      BY <1>5, <2>1, <3>1, <3>2, <3>3, Zenon DEF PushCas
    <3>5. next[n] = head[m].node
      BY <2>1, <3>1, <3>2, Zenon
    <3> QED
      BY <1>0, <3>1, <3>3, <3>4, <3>5, NodePushed, Zenon
  <2>2. CASE head[own[t]] # snap[t]
    BY <1>5, <1>a, <2>2, Zenon DEF PushCas, nodeVars
  <2> QED
    BY <2>1, <2>2, Zenon
<1>6. ASSUME NEW t \in Threads, Pushed(t) \/ FlushLock(t) \/ DrainStart(t) \/ PopRead(t) PROVE Done
  BY <1>6, <1>a, Zenon DEF Pushed, FlushLock, DrainStart, PopRead, nodeVars
<1>7. ASSUME NEW t \in Threads, FreeSpare(t) PROVE Done
  <2>1. /\ free' = free \cup ({spare[t]} \ {NoNode}) /\ spare' = [spare EXCEPT ![t] = NoNode]
        /\ UNCHANGED <<head, next, pending, batch, cur>>
    BY <1>7, Zenon DEF FreeSpare
  <2> QED
    BY <1>0, <2>1, NodeReturned, ChainSame, Zenon
<1>8. ASSUME NEW t \in Threads, FlushNext(t) PROVE Done
  <2>1. UNCHANGED <<head, next, free, spare, cur>>
    BY <1>8, Zenon DEF FlushNext
  <2>2. ASSUME NEW o \in Machines, batch' = [batch EXCEPT ![t] = pending[MachineOf[t]][o]],
               pending' = [pending EXCEPT ![MachineOf[t]][o] = NoNode]
        PROVE  Done
    BY <1>0, <2>1, <2>2, NodeTaken, ChainSame, Zenon
  <2>3. CASE UNCHANGED <<batch, pending>>
    BY <1>a, <2>1, <2>3, Zenon DEF nodeVars
  <2> QED
    BY <1>8, <2>2, <2>3, Zenon DEF FlushNext
<1>9. ASSUME NEW t \in Threads, PopCas(t) PROVE Done
  <2>1. CASE head[MachineOf[t]] = snap[t]
    <3>1. PICK m \in Machines : m = MachineOf[t]
      BY <1>0, Zenon
    <3>2. PICK h \in Heads : h = Bumped(snap[t], NoNode) /\ h.node = NoNode
      BY <1>0, BumpedType, Zenon DEF Typed, MaybeNode
    <3>3. /\ head' = [head EXCEPT ![m] = h] /\ cur' = [cur EXCEPT ![t] = head[m].node]
          /\ UNCHANGED <<next, free, pending, spare, batch>>
      BY <1>9, <2>1, <3>1, <3>2, Zenon DEF PopCas
    <3> QED
      BY <1>0, <3>2, <3>3, NodesPopped, Zenon
  <2>2. CASE head[MachineOf[t]] # snap[t]
    BY <1>9, <1>a, <2>2, Zenon DEF PopCas, nodeVars
  <2> QED
    BY <2>1, <2>2, Zenon
<1>10. ASSUME NEW t \in Threads, DrainPage(t) \/ DrainEnd(t) PROVE Done
  BY <1>10, <1>a, Zenon DEF DrainPage, DrainEnd, nodeVars
<1>11. ASSUME NEW t \in Threads, DrainBatch(t) PROVE Done
  <2>1. PICK n \in Nodes : n = cur[t]
    BY <1>11, Zenon DEF NInv, StepInv, StepOK, DrainBatch
  <2>2. /\ next' = [next EXCEPT ![n] = NoNode] /\ free' = free \cup {n}
        /\ cur' = [cur EXCEPT ![t] = next[n]] /\ UNCHANGED <<head, pending, spare, batch>>
    BY <1>11, <2>1, Zenon DEF DrainBatch
  <2> QED
    BY <1>0, <2>1, <2>2, NodeDrained, Zenon
<1>12. ASSUME NEW t \in Threads, Poll(t) \/ Flush(t) \/ DrainNow(t) PROVE Done
  BY <1>12, <1>a, Zenon DEF Poll, Flush, DrainNow, nodeVars
<1>13. ASSUME NEW p \in Pages, Realloc(p) PROVE Done
  BY <1>13, <1>a, Zenon DEF Realloc, nodeVars
<1>14. ASSUME NEW m \in Machines, Crash(m) PROVE Done
  <2>1. UNCHANGED <<next, free, head>>
    BY <1>14, Zenon DEF Crash
  <2>2. \A t \in Threads : /\ spare'[t] \in {spare[t], NoNode} /\ batch'[t] \in {batch[t], NoNode}
                           /\ cur'[t] \in {cur[t], NoNode}
    BY <1>14, Zenon DEF Crash
  <2>3. \A a, o \in Machines : pending'[a][o] \in {pending[a][o], NoNode}
    BY <1>14, <1>0, Zenon DEF Crash, Typed
  <2> QED
    BY <1>0, <2>1, <2>2, <2>3, NodesDropped, Zenon
<1>15. ASSUME NEW m \in Machines, RemotePageFreeInit(m) PROVE Done
  <2>1. UNCHANGED <<next, free, spare, batch, cur, pending>>
    BY <1>15, Zenon DEF RemotePageFreeInit
  <2>2. \A a \in Machines : head'[a].node \in {head[a].node, NoNode}
    BY <1>15, <1>0, BumpedType, Zenon DEF RemotePageFreeInit, Typed, MaybeNode
  <2> QED
    BY <1>0, <2>1, <2>2, NodesDropped, Zenon
<1>16. CASE UNCHANGED vars
  BY <1>16, <1>a, Zenon DEF vars, nodeVars
<1> HIDE DEF Done
<1>17. ASSUME NEW t \in Threads, Step(t) PROVE Done
  BY <1>2, <1>3, <1>4, <1>5, <1>6, <1>7, <1>8, <1>9, <1>10, <1>11, <1>17, Zenon DEF Step
<1>18. Next \/ UNCHANGED vars
  BY Zenon
<1>19. Next => Done
  BY <1>1, <1>12, <1>13, <1>14, <1>15, <1>17, Zenon DEF Next
<1> QED
  BY <1>16, <1>18, <1>19, Zenon DEF Done

-----------------------------------------------------------------------------
(* The steps of a thread                                                   *)

\* A thread that does not run keeps what it has, and no other links the node
\* it pushes.
LEMMA StepFrame ==
  ASSUME Typed, StepInv, NEW u \in Threads, pc'[u] = pc[u], arg'[u] = arg[u], batch'[u] = batch[u],
         snap'[u] = snap[u], cur'[u] = cur[u],
         batch[u] \in Nodes => next'[batch[u]] = next[batch[u]]
  PROVE  StepOK(u)'
  BY Zenon DEF StepInv, StepOK

\* The node that a thread pushes is not the one another holder has.
LEMMA PushedApart ==
  ASSUME Unique, NEW n \in Nodes, NEW k, NEW a, NEW b, Holds(k, a, b, n),
         NEW u \in Threads, batch[u] = n
  PROVE  k = "push" /\ a = u
<1>1. Holds("push", u, u, n)
  BY Zenon DEF Holds
<1> QED
  BY <1>1, Zenon DEF Unique

LEMMA StepInvStep ==
  ASSUME NInv, Typed', [Next]_vars
  PROVE  StepInv'
<1> USE DEF StepInv
<1>0. /\ Typed /\ StepInv /\ Unique /\ RoomInv
      /\ \A t \in Threads : MachineOf[t] \in Machines /\ own[t] \in Machines /\ StepOK(t)
  BY ThreadsAssumption, Zenon DEF NInv, Typed
\* Locals of one thread change, and the links stay.
<1>a. ASSUME NEW t \in Threads, next' = next, StepOK(t)',
             \A u \in Threads \ {t} : pc'[u] = pc[u] /\ arg'[u] = arg[u] /\ batch'[u] = batch[u]
                                      /\ snap'[u] = snap[u] /\ cur'[u] = cur[u]
      PROVE  StepInv'
  BY <1>0, <1>a, StepFrame, Zenon
<1>b. ASSUME NEW t \in Threads, StepOK(t)', NEW n \in Nodes, NEW k, Holds(k, t, t, n),
             \A x \in Nodes : x # n => next'[x] = next[x],
             \A u \in Threads \ {t} : pc'[u] = pc[u] /\ arg'[u] = arg[u] /\ batch'[u] = batch[u]
                                      /\ snap'[u] = snap[u] /\ cur'[u] = cur[u]
      PROVE  StepInv'
  <2>1. ASSUME NEW u \in Threads \ {t} PROVE StepOK(u)'
    <3>1. batch[u] # n
      BY <1>0, <1>b, <2>1, PushedApart
    <3> QED
      BY <1>0, <1>b, <2>1, <3>1, StepFrame, Zenon
  <2> QED
    BY <1>b, <2>1, Zenon
<1>1. ASSUME NEW t \in Threads, NEW p \in Pages, FreeMachinePage(t, p) PROVE StepInv'
  <2>1. StepOK(t)'
    BY <1>0, <1>1 DEF FreeMachinePage, Goto, StepOK, Typed, mach
  <2> QED
    BY <1>0, <1>1, <1>a, <2>1, Zenon DEF FreeMachinePage, Goto, Typed
<1>2. ASSUME NEW t \in Threads, PreCheck(t) PROVE StepInv'
  <2>1. StepOK(t)'
    BY <1>0, <1>2 DEF PreCheck, Goto, Return, StepOK, Typed
  <2> QED
    BY <1>0, <1>2, <1>a, <2>1, Zenon DEF PreCheck, Goto, Return, Typed
<1>3. ASSUME NEW t \in Threads, Enqueue(t) PROVE StepInv'
  <2> DEFINE m == MachineOf[t]
             o == own[t]
             install == pending[m][o] = NoNode
             n == IF install THEN spare[t] ELSE pending[m][o]
             list == IF install THEN <<arg[t]>> ELSE Append(pas[n], arg[t])
  <2>1. n \in MaybeNode
    BY <1>0 DEF Typed
  <2>2. CASE n = NoNode
    <3>1. StepOK(t)'
      BY <1>0, <1>3, <2>2, Zenon DEF Enqueue, Goto, StepOK, Typed
    <3> QED
      BY <1>0, <1>3, <1>a, <2>2, <3>1, Zenon DEF Enqueue, Goto, Typed
  <2>3. CASE n # NoNode
    <3>1. /\ arg' = [arg EXCEPT ![t] = NoPage]
          /\ batch' = [batch EXCEPT ![t] = IF Full(list) THEN n ELSE NoNode]
          /\ pc' = [pc EXCEPT ![t] = IF Full(list) THEN "pushread" ELSE "spare"]
          /\ next' = IF install THEN [next EXCEPT ![n] = NoNode] ELSE next
          /\ UNCHANGED <<snap, cur>>
      BY <1>3, <2>3, Zenon DEF Enqueue, Goto
    <3>2. n \in Nodes
      BY <2>1, <2>3, Zenon DEF MaybeNode
    <3>3. \A u \in Threads \ {t} : pc'[u] = pc[u] /\ arg'[u] = arg[u] /\ batch'[u] = batch[u]
                                   /\ snap'[u] = snap[u] /\ cur'[u] = cur[u]
      BY <1>0, <3>1, Zenon DEF Typed
    <3>4. StepOK(t)'
      <4>1. pc'[t] \in {"pushread", "spare"} /\ (pc'[t] = "pushread" => batch'[t] = n)
        BY <1>0, <3>1, Zenon DEF Typed
      <4> QED
        BY <3>2, <4>1, Zenon DEF StepOK
    <3>5. CASE install
      <4>1. Holds("spare", t, t, n)
        BY <3>5, Zenon DEF Holds
      <4>2. \A x \in Nodes : x # n => next'[x] = next[x]
        BY <1>0, <3>1, <3>5, Zenon DEF Typed
      <4> HIDE DEF n
      <4> QED
        BY <1>b, <3>2, <3>3, <3>4, <4>1, <4>2, Zenon
    <3>6. CASE ~install
      BY <1>a, <3>1, <3>3, <3>4, <3>6, Zenon
    <3> QED
      BY <3>5, <3>6, Zenon
  <2> QED
    BY <2>2, <2>3, Zenon
<1>4. ASSUME NEW t \in Threads, PushRead(t) PROVE StepInv'
  <2>1. PICK n \in Nodes : n = batch[t]
    BY <1>0, <1>4, Zenon DEF StepOK, PushRead
  <2>2. Holds("push", t, t, n)
    BY <2>1, Zenon DEF Holds
  <2>3. /\ snap' = [snap EXCEPT ![t] = head[own[t]]] /\ next' = [next EXCEPT ![n] = head[own[t]].node]
        /\ pc' = [pc EXCEPT ![t] = "pushcas"] /\ UNCHANGED <<arg, batch, cur>>
    BY <1>4, <2>1, Zenon DEF PushRead, Goto
  <2>4. StepOK(t)'
    <3>1. pc'[t] = "pushcas" /\ batch'[t] = n /\ next'[n] = head[own[t]].node /\ snap'[t] = head[own[t]]
      BY <1>0, <2>1, <2>3, Zenon DEF Typed
    <3> QED
      BY <3>1, Zenon DEF StepOK
  <2>5. /\ \A x \in Nodes : x # n => next'[x] = next[x]
        /\ \A u \in Threads \ {t} : pc'[u] = pc[u] /\ arg'[u] = arg[u] /\ batch'[u] = batch[u]
                                    /\ snap'[u] = snap[u] /\ cur'[u] = cur[u]
    BY <1>0, <2>3, Zenon DEF Typed
  <2> QED
    BY <1>b, <2>2, <2>4, <2>5, Zenon
<1>5. ASSUME NEW t \in Threads, PushCas(t) PROVE StepInv'
  <2>1. pc'[t] \in {"pushed", "flush"} \/ (pc'[t] = "pushread" /\ UNCHANGED batch)
    BY <1>0, <1>5, Zenon DEF PushCas, Goto, Typed
  <2>2. StepOK(t)'
    BY <1>0, <1>5, <2>1, Zenon DEF PushCas, StepOK
  <2> QED
    BY <1>0, <1>5, <1>a, <2>2, Zenon DEF PushCas, Goto, Typed
<1>6. ASSUME NEW t \in Threads, Pushed(t) \/ FlushLock(t) \/ DrainStart(t) \/ DrainEnd(t) PROVE StepInv'
  <2>1. pc'[t] \in {"spare", "flush", "popread", "idle"}
    BY <1>0, <1>6 DEF Pushed, FlushLock, DrainStart, DrainEnd, Goto, Typed
  <2>2. StepOK(t)'
    BY <2>1, Zenon DEF StepOK
  <2> QED
    BY <1>0, <1>6, <1>a, <2>2, Zenon DEF Pushed, FlushLock, DrainStart, DrainEnd, Goto, Typed
<1>7. ASSUME NEW t \in Threads, FreeSpare(t) \/ Poll(t) \/ Flush(t) \/ DrainNow(t) PROVE StepInv'
  <2>1. pc'[t] \in {"idle", "flock", "drain"}
    BY <1>0, <1>7, Zenon DEF FreeSpare, Poll, Flush, DrainNow, Goto, Return, Typed
  <2>2. StepOK(t)'
    BY <2>1, Zenon DEF StepOK
  <2> QED
    BY <1>0, <1>7, <1>a, <2>2, Zenon DEF FreeSpare, Poll, Flush, DrainNow, Goto, Return, Typed
<1>8. ASSUME NEW t \in Threads, FlushNext(t) PROVE StepInv'
  <2>1. UNCHANGED <<next, arg, snap, cur>>
    BY <1>8, Zenon DEF FlushNext
  <2>2. ASSUME NEW o \in Machines, pending[MachineOf[t]][o] # NoNode, Goto(t, "pushread"),
               batch' = [batch EXCEPT ![t] = pending[MachineOf[t]][o]]
        PROVE  StepInv'
    <3>1. pc'[t] = "pushread" /\ batch'[t] = pending[MachineOf[t]][o]
      BY <1>0, <2>2, Zenon DEF Goto, Typed
    <3>2. pending[MachineOf[t]][o] \in Nodes
      BY <1>0, <2>2, Zenon DEF Typed, MaybeNode
    <3>3. StepOK(t)'
      BY <3>1, <3>2, Zenon DEF StepOK
    <3> QED
      BY <1>0, <1>a, <2>1, <2>2, <3>3, Zenon DEF Goto, Typed
  <2>3. CASE Goto(t, after[t]) /\ UNCHANGED <<batch, pending>>
    <3>1. pc'[t] \in {"idle", "drain", "spare"}
      BY <1>0, <2>3, Zenon DEF Goto, Typed
    <3>2. StepOK(t)'
      BY <3>1, Zenon DEF StepOK
    <3> QED
      BY <1>0, <1>a, <2>1, <2>3, <3>2, Zenon DEF Goto, Typed
  <2> QED
    BY <1>8, <2>2, <2>3, Zenon DEF FlushNext
<1>9. ASSUME NEW t \in Threads, PopRead(t) PROVE StepInv'
  <2>1. StepOK(t)'
    BY <1>0, <1>9, Zenon DEF PopRead, Goto, StepOK, Typed, Heads, MaybeNode
  <2> QED
    BY <1>0, <1>9, <1>a, <2>1, Zenon DEF PopRead, Goto, Typed
<1>10. ASSUME NEW t \in Threads, PopCas(t) PROVE StepInv'
  <2>1. snap[t].node \in Nodes
    BY <1>0, <1>10, Zenon DEF PopCas, StepOK
  <2>2. StepOK(t)'
    BY <1>0, <1>10, <2>1 DEF PopCas, Goto, StepOK, Typed
  <2> QED
    BY <1>0, <1>10, <1>a, <2>2, Zenon DEF PopCas, Goto, Typed
<1>11. ASSUME NEW t \in Threads, DrainPage(t) PROVE StepInv'
  BY <1>0, <1>11, <1>a, Zenon DEF DrainPage, StepOK
<1>12. ASSUME NEW t \in Threads, DrainBatch(t) PROVE StepInv'
  <2>1. PICK n \in Nodes : n = cur[t]
    BY <1>0, <1>12, Zenon DEF StepOK, DrainBatch
  <2>2. /\ cur' = [cur EXCEPT ![t] = next[n]] /\ next' = [next EXCEPT ![n] = NoNode]
        /\ pc' = [pc EXCEPT ![t] = IF next[n] = NoNode THEN "drained" ELSE "dfree"]
        /\ UNCHANGED <<arg, batch, snap>>
    BY <1>12, <2>1, Zenon DEF DrainBatch, Goto
  <2>3. Holds("drain", t, t, n)
    <3>1. n \in Chain(n)
      BY <1>0, ChainUnfolds DEF Typed
    <3> QED
      BY <2>1, <3>1, Zenon DEF Holds
  <2>4. StepOK(t)'
    <3>1. cur'[t] = next[n] /\ pc'[t] \in {"drained", "dfree"} /\ (pc'[t] = "dfree" => next[n] \in Nodes)
      BY <1>0, <2>2, Zenon DEF Typed, MaybeNode
    <3> QED
      BY <3>1, Zenon DEF StepOK
  <2>5. /\ \A x \in Nodes : x # n => next'[x] = next[x]
        /\ \A u \in Threads \ {t} : pc'[u] = pc[u] /\ arg'[u] = arg[u] /\ batch'[u] = batch[u]
                                    /\ snap'[u] = snap[u] /\ cur'[u] = cur[u]
    BY <1>0, <2>2, Zenon DEF Typed
  <2> QED
    BY <1>b, <2>3, <2>4, <2>5, Zenon
<1>13. ASSUME NEW p \in Pages, Realloc(p) PROVE StepInv'
  BY <1>0, <1>13, Zenon DEF Realloc, StepOK
<1>14. ASSUME NEW m \in Machines, Crash(m) PROVE StepInv'
  <2>1. ASSUME NEW u \in Threads, MachineOf[u] = m PROVE StepOK(u)'
    <3>1. pc'[u] = "down"
      BY <1>14, <2>1, Zenon DEF Crash
    <3> QED
      BY <3>1, Zenon DEF StepOK
  <2>2. ASSUME NEW u \in Threads, MachineOf[u] # m PROVE StepOK(u)'
    BY <1>0, <1>14, <2>2, StepFrame, Zenon DEF Crash
  <2> QED
    BY <2>1, <2>2, Zenon
<1>15. ASSUME NEW m \in Machines, RemotePageFreeInit(m) PROVE StepInv'
  <2>1. ASSUME NEW u \in Threads, MachineOf[u] = m PROVE StepOK(u)'
    <3>1. pc'[u] = "idle"
      BY <1>15, <2>1, Zenon DEF RemotePageFreeInit
    <3> QED
      BY <3>1, Zenon DEF StepOK
  <2>2. ASSUME NEW u \in Threads, MachineOf[u] # m PROVE StepOK(u)'
    BY <1>0, <1>15, <2>2, StepFrame, Zenon DEF RemotePageFreeInit
  <2> QED
    BY <2>1, <2>2, Zenon
<1>16. CASE UNCHANGED vars
  BY <1>0, <1>16, Zenon DEF vars, StepOK
<1> HIDE DEF StepInv
<1>17. ASSUME NEW t \in Threads, Step(t) PROVE StepInv'
  BY <1>2, <1>3, <1>4, <1>5, <1>6, <1>7, <1>8, <1>9, <1>10, <1>11, <1>12, <1>17, Zenon DEF Step
<1>18. Next \/ UNCHANGED vars
  BY Zenon
<1>19. Next => StepInv'
  BY <1>1, <1>7, <1>13, <1>14, <1>15, <1>17, Zenon DEF Next
<1> QED
  BY <1>16, <1>18, <1>19, Zenon

-----------------------------------------------------------------------------
(* Bounds                                                                  *)

LEMMA BootStep ==
  ASSUME Typed, BootInv, [Next]_vars
  PROVE  BootInv'
<1>1. ASSUME NEW m \in Machines, Crash(m) PROVE BootInv'
  BY <1>1, Zenon DEF Crash, BootInv, Typed
<1>2. ASSUME NEW m \in Machines, RemotePageFreeInit(m) PROVE BootInv'
  BY <1>2, Zenon DEF RemotePageFreeInit, BootInv, Typed
<1>3. ASSUME NEW t \in Threads, Step(t) \/ Poll(t) \/ Flush(t) \/ DrainNow(t) PROVE UNCHANGED <<ready, boots>>
  BY <1>3, Zenon DEF Step, Poll, Flush, DrainNow, PreCheck, Enqueue, PushRead, PushCas, Pushed, FreeSpare,
       FlushLock, FlushNext, DrainStart, PopRead, PopCas, DrainPage, DrainBatch, DrainEnd, mach
<1>4. ASSUME NEW t \in Threads, NEW p \in Pages, FreeMachinePage(t, p) PROVE UNCHANGED <<ready, boots>>
  BY <1>4, Zenon DEF FreeMachinePage, mach
<1>5. ASSUME NEW p \in Pages, Realloc(p) PROVE UNCHANGED <<ready, boots>>
  BY <1>5, Zenon DEF Realloc, mach
<1>6. CASE UNCHANGED vars
  BY <1>6, Zenon DEF vars, mach, BootInv
<1>7. UNCHANGED <<ready, boots>> => BootInv'
  BY Zenon DEF BootInv
<1>8. Next \/ UNCHANGED vars
  BY Zenon
<1>9. Next => BootInv'
  BY <1>1, <1>2, <1>3, <1>4, <1>5, <1>7, Zenon DEF Next
<1> QED
  BY <1>6, <1>8, <1>9, Zenon

LEMMA RoomStep ==
  ASSUME NInv, [Next]_vars
  PROVE  RoomInv'
<1>0. /\ Typed /\ Unique /\ RoomInv
      /\ \A t \in Threads : MachineOf[t] \in Machines /\ own[t] \in Machines
  BY ThreadsAssumption, Zenon DEF NInv, Typed
<1>a. UNCHANGED <<pending, pas>> => RoomInv'
  BY <1>0, Zenon DEF RoomInv
<1>1. ASSUME NEW t \in Threads, Enqueue(t) PROVE RoomInv'
  <2> DEFINE m == MachineOf[t]
             o == own[t]
             install == pending[m][o] = NoNode
             n == IF install THEN spare[t] ELSE pending[m][o]
             list == IF install THEN <<arg[t]>> ELSE Append(pas[n], arg[t])
  <2>1. CASE n = NoNode
    BY <1>1, <1>a, <2>1, Zenon DEF Enqueue
  <2>2. CASE n # NoNode
    <3>1. n \in Nodes /\ m \in Machines /\ o \in Machines
      BY <1>0, <2>2 DEF Typed, MaybeNode
    <3>2. pas' = [pas EXCEPT ![n] = list] /\ pending' = [pending EXCEPT ![m][o] = Pending(n, Full(list))]
      BY <1>1, <2>2, Zenon DEF Enqueue
    <3>3. list \in Seq(Pages) /\ Len(list) <= BatchMax
      <4>1. arg[t] \in Pages
        BY <1>1, Zenon DEF NInv, StepInv, StepOK, Enqueue
      <4> QED
        BY <1>0, <3>1, <4>1, SizesAssumption DEF Typed, RoomInv
    <3>4. PICK k, a, b :
            k \in {"spare", "pending"} /\ Holds(k, a, b, n) /\ (k = "pending" => a = m /\ b = o)
      <4>1. install => Holds("spare", t, t, n)
        BY Zenon DEF Holds
      <4>2. ~install => Holds("pending", m, o, n)
        BY <3>1, Zenon DEF Holds
      <4> HIDE DEF install, n, m, o
      <4> QED
        BY <4>1, <4>2, Zenon
    <3>5. ASSUME NEW a1 \in Machines, NEW b1 \in Machines, pending'[a1][b1] # NoNode
          PROVE  Len(pas'[pending'[a1][b1]]) < BatchMax
      <4>1. CASE a1 = m /\ b1 = o
        <5>1. pending'[m][o] = Pending(n, Full(list))
          BY <1>0, <3>1, <3>2, Zenon DEF Typed
        <5>2. ~Full(list) /\ pending'[m][o] = n
          BY <3>5, <4>1, <5>1, Zenon DEF Pending
        <5>3. pas'[n] = list
          BY <1>0, <3>1, <3>2, Zenon DEF Typed
        <5> QED
          BY <3>3, <4>1, <5>2, <5>3, SizesAssumption DEF Full
      <4>2. CASE ~(a1 = m /\ b1 = o)
        <5>1. pending'[a1][b1] = pending[a1][b1] /\ pending[a1][b1] \in Nodes
          BY <1>0, <3>1, <3>2, <3>5, <4>2 DEF Typed, MaybeNode
        <5>2. pending[a1][b1] # n
          <6> SUFFICES ASSUME pending[a1][b1] = n PROVE FALSE
            BY Zenon
          <6>1. Holds("pending", a1, b1, n)
            BY Zenon DEF Holds
          <6>2. k = "pending" /\ a = a1 /\ b = b1
            BY <1>0, <3>1, <3>4, <6>1, Zenon DEF Unique
          <6> QED
            BY <3>4, <4>2, <6>2, Zenon
        <5>3. pas'[pending[a1][b1]] = pas[pending[a1][b1]]
          BY <1>0, <3>2, <5>1, <5>2, Zenon DEF Typed
        <5> QED
          BY <1>0, <5>1, <5>3, <3>5, Zenon DEF RoomInv
      <4> QED
        BY <4>1, <4>2, Zenon
    <3> QED
      BY <3>5, Zenon DEF RoomInv
  <2> QED
    BY <2>1, <2>2, Zenon
<1>2. ASSUME NEW t \in Threads, DrainBatch(t) PROVE RoomInv'
  <2>1. pas' = [pas EXCEPT ![cur[t]] = << >>] /\ UNCHANGED pending
    BY <1>2, Zenon DEF DrainBatch
  <2>2. \A n \in Nodes : pas'[n] = pas[n] \/ pas'[n] = << >>
    BY <1>0, <2>1, Zenon DEF Typed
  <2> QED
    BY <1>0, <2>1, <2>2, SizesAssumption DEF RoomInv, Typed, MaybeNode
<1>3. ASSUME NEW t \in Threads, FlushNext(t) PROVE RoomInv'
  <2>1. UNCHANGED pas
    BY <1>3, Zenon DEF FlushNext
  <2>2. ASSUME NEW o \in Machines, pending' = [pending EXCEPT ![MachineOf[t]][o] = NoNode] PROVE RoomInv'
    BY <1>0, <2>1, <2>2, Zenon DEF RoomInv, Typed
  <2>3. UNCHANGED pending => RoomInv'
    BY <1>a, <2>1, Zenon
  <2> QED
    BY <1>3, <2>2, <2>3, Zenon DEF FlushNext
<1>4. ASSUME NEW m \in Machines, Crash(m) PROVE RoomInv'
  <2>1. UNCHANGED pas /\ pending' = [pending EXCEPT ![m] = [o \in Machines |-> NoNode]]
    BY <1>4, Zenon DEF Crash
  <2>2. \A a, o \in Machines : pending'[a][o] \in {pending[a][o], NoNode}
    BY <1>0, <2>1, Zenon DEF Typed
  <2> QED
    BY <1>0, <2>1, <2>2, Zenon DEF RoomInv
<1>5. ASSUME NEW t \in Threads,
             PreCheck(t) \/ PushRead(t) \/ PushCas(t) \/ Pushed(t) \/ FreeSpare(t) \/ FlushLock(t)
             \/ DrainStart(t) \/ PopRead(t) \/ PopCas(t) \/ DrainPage(t) \/ DrainEnd(t)
      PROVE  UNCHANGED <<pending, pas>>
  BY <1>5, Zenon DEF PreCheck, PushRead, PushCas, Pushed, FreeSpare, FlushLock, DrainStart, PopRead, PopCas,
       DrainPage, DrainEnd
<1>6. ASSUME NEW t \in Threads, Poll(t) \/ Flush(t) \/ DrainNow(t) PROVE UNCHANGED <<pending, pas>>
  BY <1>6, Zenon DEF Poll, Flush, DrainNow
<1>7. ASSUME NEW t \in Threads, NEW p \in Pages, FreeMachinePage(t, p) PROVE UNCHANGED <<pending, pas>>
  BY <1>7, Zenon DEF FreeMachinePage
<1>8. ASSUME NEW p \in Pages, Realloc(p) PROVE UNCHANGED <<pending, pas>>
  BY <1>8, Zenon DEF Realloc
<1>9. ASSUME NEW m \in Machines, RemotePageFreeInit(m) PROVE UNCHANGED <<pending, pas>>
  BY <1>9, Zenon DEF RemotePageFreeInit
<1>10. CASE UNCHANGED vars
  BY <1>10, <1>a, Zenon DEF vars
<1>11. ASSUME NEW t \in Threads, Step(t) PROVE RoomInv'
  BY <1>1, <1>2, <1>3, <1>5, <1>11, <1>a, Zenon DEF Step
<1>12. Next \/ UNCHANGED vars
  BY Zenon
<1>13. Next => RoomInv'
  BY <1>4, <1>6, <1>7, <1>8, <1>9, <1>11, <1>a, Zenon DEF Next
<1> QED
  BY <1>10, <1>12, <1>13, Zenon

-----------------------------------------------------------------------------
(* The invariant                                                           *)

LEMMA InitHolders == Init => Unique /\ Acyclic
<1> SUFFICES ASSUME Init PROVE Unique /\ Acyclic
  BY Zenon
<1>1. Typed
  BY InitTyped, Zenon
<1>2. Chain(NoNode) = {}
  BY <1>1, ChainUnfolds, Zenon DEF Typed
<1>3. Acyclic
  BY <1>2, Zenon DEF Acyclic, Init
<1>4. ASSUME NEW n \in Nodes, NEW k, NEW a, NEW b, Holds(k, a, b, n)
      PROVE  k = "allocator" /\ a = NoNode /\ b = NoNode
  <2>1. n # NoNode
    BY NullsAssumption, Zenon
  <2>2. \A m \in Machines : head[m].node = NoNode
    BY EmptyHeadType, Zenon DEF Init
  <2> QED
    BY <1>2, <1>4, <2>1, <2>2, Zenon DEF Holds, Init
<1>5. ASSUME NEW n \in Nodes, NEW k, NEW a, NEW b, NEW i, NEW c, NEW d, Holds(k, a, b, n), Holds(i, c, d, n)
      PROVE  k = i /\ a = c /\ b = d
  <2>1. k = "allocator" /\ a = NoNode /\ b = NoNode
    BY <1>4, <1>5, Zenon
  <2>2. i = "allocator" /\ c = NoNode /\ d = NoNode
    BY <1>4, <1>5, Zenon
  <2> QED
    BY <2>1, <2>2, Zenon
<1> QED
  BY <1>3, <1>5, Zenon DEF Unique

LEMMA NodesInvariant == Spec => []NInv
<1>1. Init => NInv
  BY InitTyped, InitHolders, Zenon DEF NInv
<1>2. NInv /\ [Next]_vars => NInv'
  <2> SUFFICES ASSUME NInv, [Next]_vars PROVE NInv'
    BY Zenon
  <2>1. Typed'
    BY TypedStep, Zenon DEF NInv
  <2> QED
    BY <2>1, HoldersStep, StepInvStep, BootStep, RoomStep, Zenon DEF NInv
<1> QED
  BY <1>1, <1>2, PTL DEF Spec

\* A node with one holder has one referrer.
LEMMA UniqueReferrers ==
  ASSUME Unique, NEW n \in Nodes
  PROVE  Cardinality(Referrers(n)) <= 1
<1> DEFINE Name(k, a, b) ==
             IF k = "allocator" THEN <<k, n>> ELSE IF k = "pending" THEN <<k, a, b>> ELSE <<k, a>>
<1>1. ASSUME NEW x \in Referrers(n) PROVE \E k, a, b : Holds(k, a, b, n) /\ x = Name(k, a, b)
  <2>1. CASE x \in {y \in {"allocator"} \X {n} : n \in free}
    <3>1. Holds("allocator", NoNode, NoNode, n) /\ x = Name("allocator", NoNode, NoNode)
      BY <2>1 DEF Holds
    <3> QED
      BY <3>1, Zenon
  <2>2. CASE x \in {y \in {"spare"} \X Threads : spare[y[2]] = n}
    <3>1. PICK t \in Threads : x = <<"spare", t>> /\ spare[t] = n
      BY <2>2
    <3>2. Holds("spare", t, t, n) /\ x = Name("spare", t, t)
      BY <3>1, Zenon DEF Holds
    <3> QED
      BY <3>2, Zenon
  <2>3. CASE x \in {y \in {"pending"} \X Machines \X Machines : pending[y[2]][y[3]] = n}
    <3>1. PICK m \in Machines, o \in Machines : x = <<"pending", m, o>> /\ pending[m][o] = n
      BY <2>3
    <3>2. Holds("pending", m, o, n) /\ x = Name("pending", m, o)
      BY <3>1, Zenon DEF Holds
    <3> QED
      BY <3>2, Zenon
  <2>4. CASE x \in {y \in {"push"} \X Threads : batch[y[2]] = n}
    <3>1. PICK t \in Threads : x = <<"push", t>> /\ batch[t] = n
      BY <2>4
    <3>2. Holds("push", t, t, n) /\ x = Name("push", t, t)
      BY <3>1, Zenon DEF Holds
    <3> QED
      BY <3>2, Zenon
  <2>5. CASE x \in {y \in {"stack"} \X Machines : n \in Chain(head[y[2]].node)}
    <3>1. PICK m \in Machines : x = <<"stack", m>> /\ n \in Chain(head[m].node)
      BY <2>5
    <3>2. Holds("stack", m, m, n) /\ x = Name("stack", m, m)
      BY <3>1, Zenon DEF Holds
    <3> QED
      BY <3>2, Zenon
  <2>6. CASE x \in {y \in {"drain"} \X Threads : n \in Chain(cur[y[2]])}
    <3>1. PICK t \in Threads : x = <<"drain", t>> /\ n \in Chain(cur[t])
      BY <2>6
    <3>2. Holds("drain", t, t, n) /\ x = Name("drain", t, t)
      BY <3>1, Zenon DEF Holds
    <3> QED
      BY <3>2, Zenon
  <2> QED
    BY <2>1, <2>2, <2>3, <2>4, <2>5, <2>6, Zenon DEF Referrers
<1> HIDE DEF Name
<1>2. ASSUME NEW x \in Referrers(n), NEW y \in Referrers(n) PROVE x = y
  <2>1. PICK k, a, b : Holds(k, a, b, n) /\ x = Name(k, a, b)
    BY <1>1, Zenon
  <2>2. PICK i, c, d : Holds(i, c, d, n) /\ y = Name(i, c, d)
    BY <1>1, Zenon
  <2>3. k = i /\ a = c /\ b = d
    BY <2>1, <2>2, Zenon DEF Unique
  <2> QED
    BY <2>1, <2>2, <2>3, Zenon
<1>3. CASE Referrers(n) = {}
  BY <1>3, FS_EmptySet
<1>4. CASE Referrers(n) # {}
  <2>1. PICK x : Referrers(n) = {x}
    BY <1>2, <1>4, Zenon
  <2> QED
    BY <2>1, FS_Singleton
<1> QED
  BY <1>3, <1>4, Zenon

\* The state keeps its type for every number of machines, threads, pages and
\* nodes; in particular no interleaving appends to a batch that
\* remote_page_free has filled, so none holds more than
\* DRAM_PAGE_FREE_BATCH_MAX addresses.
THEOREM RemoteFreeTypeSafe == Spec => []TypeOK
<1>1. NInv => TypeOK
  BY TypedIsTypeOK, Zenon DEF NInv
<1> QED
  BY <1>1, NodesInvariant, PTL

\* However rpf_push, rpf_pop_all, the allocator, failures and boots
\* interleave, a batch node has at most one holder and no chain of batches
\* comes back to itself, even if the generation of a stack head wraps.
THEOREM NodesHeldOnce == Spec => []NodeHeldOnce
<1>1. NInv => NodeHeldOnce
  BY UniqueReferrers, Zenon DEF NInv, NodeHeldOnce, Acyclic
<1> QED
  BY <1>1, NodesInvariant, PTL
=============================================================================
