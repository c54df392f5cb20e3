---------------------------- MODULE RemotePages ----------------------------
(***************************************************************************)
(* No page that is handed back is lost or freed twice, for every number of *)
(* machines, threads, pages and nodes, as long as the machines that own    *)
(* the pages do not fail.                                                  *)
(***************************************************************************)
EXTENDS RemoteFreeProofs

\* The machines that own the pages in question stay up.
OwnersStay == \A p \in Pages : OwnerOf[p] \notin MayCrash

\* Locals are empty outside of the steps that use them.
LocalOK(t) ==
  /\ pc[t] \notin {"check", "lock"} => arg[t] = NoPage
  /\ pc[t] \notin {"pushread", "pushcas"} => batch[t] = NoNode
  /\ pc[t] # "dfree" => cur[t] = NoNode /\ todo[t] = << >>
  /\ Len(todo[t]) <= BatchMax
LocalInv == \A t \in Threads : LocalOK(t)

\* The threads of a machine that is down do not run.
UpInv == \A t \in Threads : pc[t] # "down" => ready[MachineOf[t]]

\* Nothing is ever sent to a machine that may fail.
SendsOK(t) ==
  /\ pc[t] \in {"check", "lock", "pushread", "pushcas"} => own[t] \notin MayCrash
  /\ MachineOf[t] \in MayCrash => cur[t] = NoNode /\ todo[t] = << >>
SendsInv ==
  /\ \A t \in Threads : SendsOK(t)
  /\ \A o \in MayCrash \cap Machines : head[o].node = NoNode /\ \A m \in Machines : pending[m][o] = NoNode
  /\ \A m \in Machines : ~ready[m] => m \in MayCrash

\* A batch whose addresses are still to be freed.
Used(n) ==
  \/ \E m, o \in Machines : pending[m][o] = n
  \/ \E t \in Threads : batch[t] = n
  \/ \E m \in Machines : n \in Chain(head[m].node)
  \/ \E t \in Threads : cur[t] # NoNode /\ n \in Chain(next[cur[t]])

\* Page p waits in slot i of a batch or of what a thread drains, or is the
\* argument of a call.
At(k, a, i, p) ==
  \/ k = "arg" /\ a \in Threads /\ i = 0 /\ arg[a] = p
  \/ k = "batch" /\ a \in Nodes /\ Used(a) /\ i \in DOMAIN pas[a] /\ pas[a][i] = p
  \/ k = "todo" /\ a \in Threads /\ i \in DOMAIN todo[a] /\ todo[a][i] = p

\* A page that was given back waits in one place, any other in none.
Right(p) ==
  \/ /\ page[p] = "queued"
     /\ \E k, a, i : \A j, b, d : At(j, b, d, p) <=> (j = k /\ b = a /\ d = i)
  \/ /\ page[p] # "queued"
     /\ \A k, a, i : ~At(k, a, i, p)
RightInv == \A p \in Pages : Right(p)

PInv == NInv /\ UpInv /\ LocalInv /\ SendsInv /\ RightInv

-----------------------------------------------------------------------------
(* How a page stays right                                                  *)

LEMMA RightStays ==
  ASSUME NEW p \in Pages, Right(p), page'[p] = page[p], \A k, a, i : At(k, a, i, p)' <=> At(k, a, i, p)
  PROVE  Right(p)'
<1>1. CASE page[p] = "queued"
  <2>1. PICK k, a, i : \A j, b, d : At(j, b, d, p) <=> (j = k /\ b = a /\ d = i)
    BY <1>1, Zenon DEF Right
  <2>2. \A j, b, d : At(j, b, d, p)' <=> (j = k /\ b = a /\ d = i)
    BY <2>1, Zenon
  <2> QED
    BY <1>1, <2>2 DEF Right
<1>2. CASE page[p] # "queued"
  <2>1. \A k, a, i : ~At(k, a, i, p)
    BY <1>2, Zenon DEF Right
  <2> QED
    BY <1>2, <2>1, Zenon DEF Right
<1> QED
  BY <1>1, <1>2, Zenon

LEMMA RightMoves ==
  ASSUME NEW p \in Pages, Right(p), page'[p] = page[p],
         NEW k0, NEW a0, NEW i0, At(k0, a0, i0, p), NEW k1, NEW a1, NEW i1, At(k1, a1, i1, p)',
         \A k, a, i : At(k, a, i, p)' =>
            (k = k1 /\ a = a1 /\ i = i1) \/ (At(k, a, i, p) /\ ~(k = k0 /\ a = a0 /\ i = i0))
  PROVE  Right(p)'
<1>1. page[p] = "queued"
  BY Zenon DEF Right
<1>2. PICK k, a, i : \A j, b, d : At(j, b, d, p) <=> (j = k /\ b = a /\ d = i)
  BY <1>1, Zenon DEF Right
<1>3. k = k0 /\ a = a0 /\ i = i0
  BY <1>2
<1>4. ASSUME NEW j, NEW b, NEW d, At(j, b, d, p)' PROVE j = k1 /\ b = a1 /\ d = i1
  <2>1. (j = k1 /\ b = a1 /\ d = i1) \/ (At(j, b, d, p) /\ ~(j = k0 /\ b = a0 /\ d = i0))
    BY <1>4, Zenon
  <2> QED
    BY <1>2, <1>3, <2>1, Zenon
<1>5. \A j, b, d : At(j, b, d, p)' <=> (j = k1 /\ b = a1 /\ d = i1)
  BY <1>4, Zenon
<1> QED
  BY <1>1, <1>5 DEF Right

LEMMA RightEnds ==
  ASSUME NEW p \in Pages, Right(p), page'[p] # "queued", NEW k0, NEW a0, NEW i0, At(k0, a0, i0, p),
         \A k, a, i : At(k, a, i, p)' => At(k, a, i, p) /\ ~(k = k0 /\ a = a0 /\ i = i0)
  PROVE  Right(p)'
<1>1. page[p] = "queued"
  BY Zenon DEF Right
<1>2. PICK k, a, i : \A j, b, d : At(j, b, d, p) <=> (j = k /\ b = a /\ d = i)
  BY <1>1, Zenon DEF Right
<1>3. k = k0 /\ a = a0 /\ i = i0
  BY <1>2
<1>4. ASSUME NEW j, NEW b, NEW d, At(j, b, d, p)' PROVE FALSE
  <2>1. At(j, b, d, p) /\ ~(j = k0 /\ b = a0 /\ d = i0)
    BY <1>4, Zenon
  <2> QED
    BY <1>2, <1>3, <2>1, Zenon
<1> QED
  BY <1>4, Zenon DEF Right

LEMMA RightBegins ==
  ASSUME NEW p \in Pages, Right(p), page[p] # "queued", page'[p] = "queued",
         NEW k1, NEW a1, NEW i1, At(k1, a1, i1, p)',
         \A k, a, i : At(k, a, i, p)' => (k = k1 /\ a = a1 /\ i = i1) \/ At(k, a, i, p)
  PROVE  Right(p)'
<1>1. \A k, a, i : ~At(k, a, i, p)
  BY Zenon DEF Right
<1>2. ASSUME NEW j, NEW b, NEW d, At(j, b, d, p)' PROVE j = k1 /\ b = a1 /\ d = i1
  <2>1. (j = k1 /\ b = a1 /\ d = i1) \/ At(j, b, d, p)
    BY <1>2, Zenon
  <2> QED
    BY <1>1, <2>1, Zenon
<1>3. \A j, b, d : At(j, b, d, p)' <=> (j = k1 /\ b = a1 /\ d = i1)
  BY <1>2, Zenon
<1> QED
  BY <1>3 DEF Right

-----------------------------------------------------------------------------
(* Batches that are still to be freed                                      *)

LEMMA UsedSame ==
  ASSUME UNCHANGED <<head, next, pending, batch, cur>>
  PROVE  \A n : Used(n)' <=> Used(n)
<1>1. \A n : Chain(n)' = Chain(n)
  BY ChainSame, Zenon
<1> QED
  BY <1>1, Zenon DEF Used

\* A node that is not used, or that a thread pushes, can be linked anew.
LEMMA RestKept ==
  ASSUME Typed, Typed', Unique, NEW n \in Nodes, NEW k, NEW a, NEW b, Holds(k, a, b, n),
         k # "stack", k # "drain", \A x \in Nodes : x # n => next'[x] = next[x]
  PROVE  \A u \in Threads : cur[u] # NoNode =>
            next'[cur[u]] = next[cur[u]] /\ \A y : y = next[cur[u]] => Chain(y)' = Chain(y)
<1> SUFFICES ASSUME NEW u \in Threads, cur[u] # NoNode
             PROVE  next'[cur[u]] = next[cur[u]] /\ \A y : y = next[cur[u]] => Chain(y)' = Chain(y)
  BY Zenon
<1>1. cur[u] \in Nodes /\ next[cur[u]] \in MaybeNode
  BY Zenon DEF Typed, MaybeNode
<1>2. Chain(cur[u]) = {cur[u]} \cup Chain(next[cur[u]])
  BY <1>1, ChainUnfolds, Zenon DEF Typed
<1>3. n \notin Chain(cur[u])
  BY OffChains, Zenon
<1>4. next'[cur[u]] = next[cur[u]]
  BY <1>1, <1>2, <1>3, Zenon
<1>5. \A y \in MaybeNode : n \notin Chain(y) => Chain(y)' = Chain(y)
  BY ChainFrame, Zenon DEF Typed
<1> QED
  BY <1>1, <1>2, <1>3, <1>4, <1>5, Zenon

LEMMA UsedInstalled ==
  ASSUME Unique, Typed, Typed', NEW t \in Threads, NEW m \in Machines, NEW o \in Machines,
         NEW n \in Nodes, n = spare[t], NEW full \in BOOLEAN, pending[m][o] = NoNode, batch[t] = NoNode,
         next' = [next EXCEPT ![n] = NoNode],
         pending' = [pending EXCEPT ![m][o] = IF full THEN NoNode ELSE n],
         batch' = [batch EXCEPT ![t] = IF full THEN n ELSE NoNode], UNCHANGED <<head, cur>>
  PROVE  /\ ~Used(n)
         /\ \A x \in Nodes : Used(x)' <=> Used(x) \/ x = n
<1>1. Holds("spare", t, t, n)
  BY Zenon DEF Holds
<1>2. \A x \in Nodes : x # n => next'[x] = next[x]
  BY Zenon DEF Typed
<1>3. /\ \A a \in Machines : \A y : y = head[a].node => Chain(y)' = Chain(y)
      /\ \A a \in Threads : \A y : y = cur[a] => Chain(y)' = Chain(y)
  BY <1>1, <1>2, ChainsKept, Zenon
<1>4. \A u \in Threads : cur[u] # NoNode =>
        next'[cur[u]] = next[cur[u]] /\ \A y : y = next[cur[u]] => Chain(y)' = Chain(y)
  BY <1>1, <1>2, RestKept, Zenon
<1>5. /\ \A a \in Threads : batch'[a] = IF a = t THEN (IF full THEN n ELSE NoNode) ELSE batch[a]
      /\ \A a, b \in Machines :
           pending'[a][b] = IF a = m /\ b = o THEN (IF full THEN NoNode ELSE n) ELSE pending[a][b]
  BY DEF Typed
<1>6. ~Used(n)
  <2>1. \A a, b \in Machines : pending[a][b] # n
    <3> SUFFICES ASSUME NEW a \in Machines, NEW b \in Machines, pending[a][b] = n PROVE FALSE
      BY Zenon
    <3>1. Holds("pending", a, b, n)
      BY Zenon DEF Holds
    <3> QED
      BY <1>1, <3>1, Zenon DEF Unique
  <2>2. \A u \in Threads : batch[u] # n
    BY <1>1, PushedApart
  <2>3. \A u \in Threads : cur[u] # NoNode => n \notin Chain(next[cur[u]])
    <3> SUFFICES ASSUME NEW u \in Threads, cur[u] # NoNode PROVE n \notin Chain(next[cur[u]])
      BY Zenon
    <3>1. Chain(cur[u]) = {cur[u]} \cup Chain(next[cur[u]])
      BY ChainUnfolds, Zenon DEF Typed, MaybeNode
    <3> QED
      BY <1>1, <3>1, OffChains
  <2> QED
    BY <1>1, <2>1, <2>2, <2>3, OffChains DEF Used
<1>7. ASSUME NEW x \in Nodes PROVE Used(x)' <=> Used(x) \/ x = n
  <2>0. x # NoNode
    BY NullsAssumption, Zenon
  <2>1. (\E a, b \in Machines : pending'[a][b] = x) \/ (\E u \in Threads : batch'[u] = x)
        <=> (\E a, b \in Machines : pending[a][b] = x) \/ (\E u \in Threads : batch[u] = x) \/ x = n
    <3>1. CASE full
      <4>1. (\E a, b \in Machines : pending'[a][b] = x) <=> (\E a, b \in Machines : pending[a][b] = x)
        BY <1>5, <2>0, <3>1
      <4>2. (\E u \in Threads : batch'[u] = x) <=> (\E u \in Threads : batch[u] = x) \/ x = n
        BY <1>5, <2>0, <3>1, Zenon
      <4> QED
        BY <4>1, <4>2, Zenon
    <3>2. CASE ~full
      <4>1. (\E a, b \in Machines : pending'[a][b] = x) <=> (\E a, b \in Machines : pending[a][b] = x) \/ x = n
        BY <1>5, <2>0, <3>2
      <4>2. (\E u \in Threads : batch'[u] = x) <=> (\E u \in Threads : batch[u] = x)
        BY <1>5, <2>0, <3>2, Zenon
      <4> QED
        BY <4>1, <4>2, Zenon
    <3> QED
      BY <3>1, <3>2, Zenon
  <2>2. \A a \in Machines : (x \in Chain(head[a].node))' <=> x \in Chain(head[a].node)
    BY <1>3, Zenon
  <2>3. \A u \in Threads : (cur[u] # NoNode /\ x \in Chain(next[cur[u]]))'
                           <=> (cur[u] # NoNode /\ x \in Chain(next[cur[u]]))
    BY <1>4, Zenon
  <2> QED
    BY <2>1, <2>2, <2>3, Zenon DEF Used
<1> QED
  BY <1>6, <1>7, Zenon

LEMMA UsedTaken ==
  ASSUME Typed, NEW t \in Threads, NEW m \in Machines, NEW o \in Machines, batch[t] = NoNode,
         batch' = [batch EXCEPT ![t] = pending[m][o]],
         pending' = [pending EXCEPT ![m][o] = NoNode], UNCHANGED <<head, next, cur>>
  PROVE  \A x \in Nodes : Used(x)' <=> Used(x)
<1>1. \A x : Chain(x)' = Chain(x)
  BY ChainSame, Zenon
<1>2. \A a \in Threads : batch'[a] = IF a = t THEN pending[m][o] ELSE batch[a]
  BY Zenon DEF Typed
<1>3. \A a, b \in Machines : pending'[a][b] = IF a = m /\ b = o THEN NoNode ELSE pending[a][b]
  BY Zenon DEF Typed
<1> SUFFICES ASSUME NEW x \in Nodes PROVE Used(x)' <=> Used(x)
  BY Zenon
<1>4. x # NoNode
  BY NullsAssumption, Zenon
<1>5. (\E a, b \in Machines : pending'[a][b] = x) \/ (\E u \in Threads : batch'[u] = x)
      <=> (\E a, b \in Machines : pending[a][b] = x) \/ (\E u \in Threads : batch[u] = x)
  BY <1>2, <1>3, <1>4
<1> QED
  BY <1>1, <1>5, Zenon DEF Used

LEMMA UsedLinked ==
  ASSUME Unique, Typed, Typed', NEW t \in Threads, NEW n \in Nodes, n = batch[t],
         \A x \in Nodes : x # n => next'[x] = next[x], UNCHANGED <<head, pending, batch, cur>>
  PROVE  \A x \in Nodes : Used(x)' <=> Used(x)
<1>1. Holds("push", t, t, n)
  BY Zenon DEF Holds
<1>2. /\ \A a \in Machines : \A y : y = head[a].node => Chain(y)' = Chain(y)
      /\ \A a \in Threads : \A y : y = cur[a] => Chain(y)' = Chain(y)
  BY <1>1, ChainsKept, Zenon
<1>3. \A u \in Threads : cur[u] # NoNode =>
        next'[cur[u]] = next[cur[u]] /\ \A y : y = next[cur[u]] => Chain(y)' = Chain(y)
  BY <1>1, RestKept, Zenon
<1> SUFFICES ASSUME NEW x \in Nodes PROVE Used(x)' <=> Used(x)
  BY Zenon
<1>4. \A a \in Machines : (x \in Chain(head[a].node))' <=> x \in Chain(head[a].node)
  BY <1>2, Zenon
<1>5. \A u \in Threads : (cur[u] # NoNode /\ x \in Chain(next[cur[u]]))'
                         <=> (cur[u] # NoNode /\ x \in Chain(next[cur[u]]))
  <2> SUFFICES ASSUME NEW u \in Threads, cur[u] # NoNode
               PROVE  (x \in Chain(next[cur[u]]))' <=> x \in Chain(next[cur[u]])
    BY Zenon
  <2>1. PICK y : y = next[cur[u]] /\ y = next'[cur'[u]]
    BY <1>3, Zenon
  <2>2. Chain(y)' = Chain(y)
    BY <1>3, <2>1, Zenon
  <2> QED
    BY <2>1, <2>2, Zenon
<1> QED
  BY <1>4, <1>5, Zenon DEF Used

LEMMA UsedPushed ==
  ASSUME Typed, NEW t \in Threads, NEW m \in Machines,
         NEW n \in Nodes, n = batch[t], next[n] = head[m].node, NEW h \in Heads, h.node = n,
         head' = [head EXCEPT ![m] = h], batch' = [batch EXCEPT ![t] = NoNode],
         UNCHANGED <<next, pending, cur>>
  PROVE  \A x \in Nodes : Used(x)' <=> Used(x)
<1>1. \A x : Chain(x)' = Chain(x)
  BY ChainSame, Zenon
<1>2. \A a \in Machines : head'[a].node = IF a = m THEN n ELSE head[a].node
  BY Zenon DEF Typed
<1>3. \A a \in Threads : batch'[a] = IF a = t THEN NoNode ELSE batch[a]
  BY Zenon DEF Typed
<1>4. Chain(n) = {n} \cup Chain(head[m].node)
  BY ChainUnfolds, Zenon DEF Typed
<1> SUFFICES ASSUME NEW x \in Nodes PROVE Used(x)' <=> Used(x)
  BY Zenon
<1>5. x # NoNode
  BY NullsAssumption, Zenon
<1>6. (\E u \in Threads : batch'[u] = x) \/ (\E a \in Machines : x \in Chain(head'[a].node))
      <=> (\E u \in Threads : batch[u] = x) \/ (\E a \in Machines : x \in Chain(head[a].node))
  BY <1>2, <1>3, <1>4, <1>5
<1>7. \A a \in Machines : (x \in Chain(head[a].node))' <=> x \in Chain(head'[a].node)
  BY <1>1, Zenon
<1>8. \A u \in Threads : (cur[u] # NoNode /\ x \in Chain(next[cur[u]]))'
                         <=> (cur[u] # NoNode /\ x \in Chain(next[cur[u]]))
  BY <1>1, Zenon
<1> QED
  BY <1>6, <1>7, <1>8, Zenon DEF Used

\* The first batch of a stack is read as soon as the stack is taken.
LEMMA UsedPopped ==
  ASSUME Unique, Acyclic, Typed, NEW t \in Threads, NEW m \in Machines, NEW h \in Heads, h.node = NoNode,
         NEW n \in Nodes, n = head[m].node, cur[t] = NoNode,
         head' = [head EXCEPT ![m] = h], cur' = [cur EXCEPT ![t] = n],
         UNCHANGED <<next, pending, batch>>
  PROVE  /\ Used(n)
         /\ \A x \in Nodes : Used(x)' <=> Used(x) /\ x # n
<1>1. \A x : Chain(x)' = Chain(x)
  BY ChainSame, Zenon
<1>2. \A a \in Machines : head'[a].node = IF a = m THEN NoNode ELSE head[a].node
  BY Zenon DEF Typed
<1>3. \A a \in Threads : cur'[a] = IF a = t THEN n ELSE cur[a]
  BY Zenon DEF Typed
<1>4. Chain(NoNode) = {} /\ Chain(n) = {n} \cup Chain(next[n]) /\ n \notin Chain(next[n]) /\ n # NoNode
  BY ChainUnfolds, NullsAssumption, Zenon DEF Typed, Acyclic
<1>5. Holds("stack", m, m, n) /\ Used(n)
  BY <1>4, Zenon DEF Holds, Used
<1> SUFFICES ASSUME NEW x \in Nodes PROVE Used(x)' <=> Used(x) /\ x # n
  BY <1>5, Zenon
<1>6. /\ (\E a \in Machines : (x \in Chain(head[a].node))') <=> \E a \in Machines : x \in Chain(head'[a].node)
      /\ (\E u \in Threads : (cur[u] # NoNode /\ x \in Chain(next[cur[u]]))')
         <=> \E u \in Threads : cur'[u] # NoNode /\ x \in Chain(next[cur'[u]])
  BY <1>1, Zenon
<1>7. CASE x = n
  <2>1. \A a, b \in Machines : pending[a][b] # n
    <3> SUFFICES ASSUME NEW a \in Machines, NEW b \in Machines, pending[a][b] = n PROVE FALSE
      BY Zenon
    <3>1. Holds("pending", a, b, n)
      BY Zenon DEF Holds
    <3> QED
      BY <1>5, <3>1, Zenon DEF Unique
  <2>2. \A u \in Threads : batch[u] # n
    BY <1>5, PushedApart, Zenon
  <2>3. \A a \in Machines : n \notin Chain(head'[a].node)
    <3> SUFFICES ASSUME NEW a \in Machines, a # m, n \in Chain(head[a].node) PROVE FALSE
      BY <1>2, <1>4, Zenon
    <3>1. Holds("stack", a, a, n)
      BY Zenon DEF Holds
    <3> QED
      BY <1>5, <3>1, Zenon DEF Unique
  <2>4. \A u \in Threads : cur'[u] # NoNode => n \notin Chain(next[cur'[u]])
    <3> SUFFICES ASSUME NEW u \in Threads, u # t, cur[u] # NoNode, n \in Chain(next[cur[u]]) PROVE FALSE
      BY <1>3, <1>4, Zenon
    <3>1. Chain(cur[u]) = {cur[u]} \cup Chain(next[cur[u]])
      BY ChainUnfolds, Zenon DEF Typed, MaybeNode
    <3> QED
      BY <1>5, <3>1, OffChains
  <2> QED
    BY <1>6, <1>7, <2>1, <2>2, <2>3, <2>4, Zenon DEF Used
<1>8. CASE x # n
  <2>1. (\E a \in Machines : x \in Chain(head'[a].node)) \/ (\E u \in Threads : cur'[u] # NoNode /\ x \in Chain(next[cur'[u]]))
        <=> (\E a \in Machines : x \in Chain(head[a].node)) \/ (\E u \in Threads : cur[u] # NoNode /\ x \in Chain(next[cur[u]]))
    <3>1. x \in Chain(n) <=> x \in Chain(next[n])
      BY <1>4, <1>8, Zenon
    <3>2. (\E a \in Machines : x \in Chain(head[a].node))
          <=> (\E a \in Machines : x \in Chain(head'[a].node)) \/ x \in Chain(n)
      BY <1>2, <1>4, Zenon
    <3>3. (\E u \in Threads : cur'[u] # NoNode /\ x \in Chain(next[cur'[u]]))
          <=> (\E u \in Threads : cur[u] # NoNode /\ x \in Chain(next[cur[u]])) \/ x \in Chain(next[n])
      BY <1>3, <1>4, Zenon
    <3> QED
      BY <3>1, <3>2, <3>3, Zenon
  <2> QED
    BY <1>6, <1>8, <2>1, Zenon DEF Used
<1> QED
  BY <1>7, <1>8, Zenon

\* When a batch is freed, the next one is read.
LEMMA UsedDrained ==
  ASSUME Unique, Acyclic, Typed, Typed', NEW t \in Threads, NEW n \in Nodes, n = cur[t],
         next' = [next EXCEPT ![n] = NoNode], cur' = [cur EXCEPT ![t] = next[n]],
         UNCHANGED <<head, pending, batch>>
  PROVE  /\ ~Used(n)
         /\ next[n] \in Nodes => Used(next[n])
         /\ \A x \in Nodes : Used(x)' <=> Used(x) /\ x # next[n]
<1>1. /\ \A x \in Nodes : x # n => next'[x] = next[x]
      /\ next \in [Nodes -> MaybeNode] /\ next' \in [Nodes -> MaybeNode]
  BY Zenon DEF Typed
<1>2. PICK h \in MaybeNode : h = next[n]
  BY <1>1, Zenon
<1>3. /\ Chain(NoNode) = {} /\ Chain(n) = {n} \cup Chain(h) /\ n \notin Chain(h) /\ n # NoNode
      /\ h # NoNode => h \in Nodes /\ Chain(h) = {h} \cup Chain(next[h]) /\ h \notin Chain(next[h]) /\ h # n
  BY <1>1, <1>2, ChainUnfolds, NullsAssumption, Zenon DEF Acyclic, MaybeNode
<1>4. \A a \in Threads : cur'[a] = IF a = t THEN h ELSE cur[a]
  BY <1>2, Zenon DEF Typed
<1>5. \A x \in Chain(n) : Holds("drain", t, t, x)
  BY Zenon DEF Holds
<1>6. \A y \in MaybeNode : n \notin Chain(y) => Chain(y)' = Chain(y)
  BY <1>1, ChainFrame, Zenon
\* No other holder has a node of this chain.
<1>7. ASSUME NEW x \in Nodes, x \in Chain(n)
      PROVE  /\ \A a, b \in Machines : pending[a][b] # x
             /\ \A u \in Threads : batch[u] # x
             /\ \A a \in Machines : x \notin Chain(head[a].node)
             /\ \A u \in Threads : u # t => x \notin Chain(cur[u])
  <2>1. Holds("drain", t, t, x)
    BY <1>5, <1>7, Zenon
  <2>2. ASSUME NEW a \in Machines, NEW b \in Machines, pending[a][b] = x PROVE FALSE
    <3>1. Holds("pending", a, b, x)
      BY <2>2, Zenon DEF Holds
    <3> QED
      BY <2>1, <3>1, Zenon DEF Unique
  <2>3. \A u \in Threads : batch[u] # x
    BY <2>1, PushedApart, Zenon
  <2>4. ASSUME NEW u \in Threads, u # t, x \in Chain(cur[u]) PROVE FALSE
    <3>1. Holds("drain", u, u, x)
      BY <2>4, Zenon DEF Holds
    <3> QED
      BY <2>1, <2>4, <3>1, Zenon DEF Unique
  <2> QED
    BY <2>1, <2>2, <2>3, <2>4, OffChains
<1>8. ASSUME NEW u \in Threads, cur[u] # NoNode
      PROVE  cur[u] \in Nodes /\ Chain(cur[u]) = {cur[u]} \cup Chain(next[cur[u]])
  BY <1>1, <1>8, ChainUnfolds, Zenon DEF Typed, MaybeNode
<1>9. ~Used(n)
  <2>1. \A u \in Threads : cur[u] # NoNode => n \notin Chain(next[cur[u]])
    <3> SUFFICES ASSUME NEW u \in Threads, cur[u] # NoNode PROVE n \notin Chain(next[cur[u]])
      BY Zenon
    <3>1. CASE u = t
      BY <1>2, <1>3, <3>1, Zenon
    <3>2. CASE u # t
      BY <1>3, <1>7, <1>8, <3>2, Zenon
    <3> QED
      BY <3>1, <3>2, Zenon
  <2> QED
    BY <1>3, <1>7, <2>1, Zenon DEF Used
<1>10. h \in Nodes => Used(h)
  BY <1>2, <1>3, NullsAssumption, Zenon DEF Used
<1>11. ASSUME NEW x \in Nodes PROVE Used(x)' <=> Used(x) /\ x # h
  <2>1. ASSUME NEW a \in Machines PROVE (x \in Chain(head[a].node))' <=> x \in Chain(head[a].node)
    <3>1. PICK y \in MaybeNode : y = head[a].node
      BY Zenon DEF Typed, Heads
    <3>2. Chain(y)' = Chain(y)
      BY <1>3, <1>6, <1>7, <3>1, Zenon
    <3> QED
      BY <3>1, <3>2, Zenon
  <2>2. ASSUME NEW u \in Threads, u # t
        PROVE  (cur[u] # NoNode /\ x \in Chain(next[cur[u]]))' <=> (cur[u] # NoNode /\ x \in Chain(next[cur[u]]))
    <3>1. cur'[u] = cur[u]
      BY <1>4, <2>2, Zenon
    <3> SUFFICES ASSUME cur[u] # NoNode
                 PROVE  (x \in Chain(next[cur[u]]))' <=> x \in Chain(next[cur[u]])
      BY <3>1, Zenon
    <3>2. n # cur[u] /\ n \notin Chain(next[cur[u]]) /\ cur[u] \in Nodes
      BY <1>3, <1>7, <1>8, <2>2, Zenon
    <3>3. PICK y \in MaybeNode : y = next[cur[u]] /\ y = next'[cur'[u]]
      BY <1>1, <3>1, <3>2, Zenon
    <3>4. Chain(y)' = Chain(y)
      BY <1>6, <3>2, <3>3, Zenon
    <3> QED
      BY <3>3, <3>4, Zenon
  <2>3. (cur[t] # NoNode /\ x \in Chain(next[cur[t]]))' <=> x \in Chain(h) /\ x # h
    <3>1. CASE h = NoNode
      <4>1. cur'[t] = NoNode
        BY <1>4, <3>1, Zenon
      <4> QED
        BY <1>3, <3>1, <4>1, Zenon
    <3>2. CASE h # NoNode
      <4>1. PICK y \in MaybeNode : y = next[h] /\ y = next'[cur'[t]]
        BY <1>1, <1>3, <1>4, <3>2, Zenon
      <4>2. n \notin Chain(y)
        BY <1>3, <3>2, <4>1, Zenon
      <4>3. Chain(y)' = Chain(y)
        BY <1>6, <4>2, Zenon
      <4>4. x \in Chain(y) <=> x \in Chain(h) /\ x # h
        BY <1>3, <3>2, <4>1, Zenon
      <4>5. cur'[t] # NoNode
        BY <1>4, <3>2, Zenon
      <4> QED
        BY <4>1, <4>3, <4>4, <4>5, Zenon
    <3> QED
      BY <3>1, <3>2, Zenon
  <2>4. (cur[t] # NoNode /\ x \in Chain(next[cur[t]])) <=> x \in Chain(h)
    BY <1>2, <1>3, Zenon
  <2>5. CASE x \in Chain(n)
    <3>1. \A u \in Threads \ {t} : ~(cur[u] # NoNode /\ x \in Chain(next[cur[u]]))
      BY <1>7, <1>8, <2>5, Zenon
    <3> QED
      BY <1>7, <2>1, <2>2, <2>3, <2>4, <2>5, <3>1, Zenon DEF Used
  <2>6. CASE x \notin Chain(n)
    <3>1. x \notin Chain(h) /\ x # h
      BY <1>3, <2>6, NullsAssumption, Zenon
    <3> QED
      BY <2>1, <2>2, <2>3, <2>4, <3>1, Zenon DEF Used
  <2> QED
    BY <2>5, <2>6, Zenon
<1> QED
  BY <1>2, <1>9, <1>10, <1>11, Zenon

-----------------------------------------------------------------------------
(* Locals, and where pages are sent                                        *)

LEMMA UpStep ==
  ASSUME Typed, UpInv, [Next]_vars
  PROVE  UpInv'
<1>1. ASSUME NEW t \in Threads, Step(t)
      PROVE  pc[t] # "down" /\ UNCHANGED ready /\ \A u \in Threads \ {t} : pc'[u] = pc[u]
  <2>1. pc[t] # "down" /\ UNCHANGED ready
    BY <1>1, Zenon DEF Step, PreCheck, Enqueue, PushRead, PushCas, Pushed, FreeSpare,
         FlushLock, FlushNext, DrainStart, PopRead, PopCas, DrainPage, DrainBatch, DrainEnd, mach
  <2>2. pc' = pc \/ \E l : pc' = [pc EXCEPT ![t] = l]
    BY <1>1, Zenon DEF Step, PreCheck, Enqueue, PushRead, PushCas, Pushed, FreeSpare, FlushLock,
         FlushNext, DrainStart, PopRead, PopCas, DrainPage, DrainBatch, DrainEnd, Goto, Return
  <2> QED
    BY <2>1, <2>2, Zenon DEF Typed
<1>2. ASSUME NEW t \in Threads, Poll(t) \/ Flush(t) \/ DrainNow(t) \/ \E p \in Pages : FreeMachinePage(t, p)
      PROVE  pc[t] # "down" /\ UNCHANGED ready /\ \A u \in Threads \ {t} : pc'[u] = pc[u]
  <2>1. pc[t] # "down" /\ UNCHANGED ready
    BY <1>2, Zenon DEF Poll, Flush, DrainNow, FreeMachinePage, mach
  <2>2. pc' = pc \/ \E l : pc' = [pc EXCEPT ![t] = l]
    BY <1>2, Zenon DEF Poll, Flush, DrainNow, FreeMachinePage, Goto
  <2> QED
    BY <2>1, <2>2, Zenon DEF Typed
<1>3. ASSUME NEW t \in Threads, pc[t] # "down", UNCHANGED ready, \A u \in Threads \ {t} : pc'[u] = pc[u]
      PROVE  UpInv'
  BY <1>3, Zenon DEF UpInv
<1>4. ASSUME NEW p \in Pages, Realloc(p) PROVE UpInv'
  BY <1>4, Zenon DEF Realloc, mach, UpInv
<1>5. ASSUME NEW m \in Machines, Crash(m) PROVE UpInv'
  BY <1>5, ThreadsAssumption, Zenon DEF Crash, UpInv, Typed
<1>6. ASSUME NEW m \in Machines, RemotePageFreeInit(m) PROVE UpInv'
  BY <1>6, ThreadsAssumption, Zenon DEF RemotePageFreeInit, UpInv, Typed
<1>7. CASE UNCHANGED vars
  BY <1>7, Zenon DEF vars, mach, UpInv
<1>8. Next \/ UNCHANGED vars
  BY Zenon
<1>9. Next => UpInv'
  BY <1>1, <1>2, <1>3, <1>4, <1>5, <1>6, Zenon DEF Next
<1> QED
  BY <1>7, <1>8, <1>9, Zenon

LEMMA LocalFrame ==
  ASSUME NEW u \in Threads, LocalOK(u), SendsOK(u), pc'[u] = pc[u], arg'[u] = arg[u], batch'[u] = batch[u],
         own'[u] = own[u], cur'[u] = cur[u], todo'[u] = todo[u]
  PROVE  LocalOK(u)' /\ SendsOK(u)'
  BY Zenon DEF LocalOK, SendsOK

\* A step of a thread that leaves the stacks and pending batches alone.
LEMMA LocalMoves ==
  ASSUME LocalInv, SendsInv, NEW t \in Threads, LocalOK(t)', SendsOK(t)', UNCHANGED <<head, pending, ready>>,
         \A u \in Threads \ {t} : pc'[u] = pc[u] /\ arg'[u] = arg[u] /\ batch'[u] = batch[u]
                                  /\ own'[u] = own[u] /\ cur'[u] = cur[u] /\ todo'[u] = todo[u]
  PROVE  LocalInv' /\ SendsInv'
<1>1. ASSUME NEW u \in Threads \ {t} PROVE LocalOK(u)' /\ SendsOK(u)'
  BY <1>1, LocalFrame, Zenon DEF LocalInv, SendsInv
<1> QED
  BY <1>1, Zenon DEF LocalInv, SendsInv

LEMMA LocalStep ==
  ASSUME NInv, Typed', OwnersStay, UpInv, LocalInv, SendsInv, [Next]_vars
  PROVE  LocalInv' /\ SendsInv'
<1> DEFINE Done == LocalInv' /\ SendsInv'
<1>0. /\ Typed /\ StepInv
      /\ \A t \in Threads : MachineOf[t] \in Machines /\ own[t] \in Machines /\ StepOK(t) /\ LocalOK(t) /\ SendsOK(t)
  BY ThreadsAssumption, Zenon DEF NInv, Typed, StepInv, LocalInv, SendsInv
<1>e. Len(<< >>) <= BatchMax
  BY SizesAssumption
<1>1. ASSUME NEW t \in Threads, NEW p \in Pages, FreeMachinePage(t, p) PROVE Done
  <2>1. LocalOK(t)' /\ SendsOK(t)'
    BY <1>0, <1>1 DEF FreeMachinePage, Goto, Typed, LocalOK, SendsOK, OwnersStay
  <2> QED
    BY <1>0, <1>1, <2>1, LocalMoves, Zenon DEF FreeMachinePage, Goto, Typed, mach
<1>2. ASSUME NEW t \in Threads, PreCheck(t) PROVE Done
  <2>1. LocalOK(t)' /\ SendsOK(t)'
    BY <1>0, <1>2, Zenon DEF PreCheck, Goto, Return, Typed, LocalOK, SendsOK
  <2> QED
    BY <1>0, <1>2, <2>1, LocalMoves, Zenon DEF PreCheck, Goto, Return, Typed, mach
<1>3. ASSUME NEW t \in Threads, PushRead(t) PROVE Done
  <2>1. LocalOK(t)' /\ SendsOK(t)'
    BY <1>0, <1>3, Zenon DEF PushRead, Goto, Typed, LocalOK, SendsOK
  <2> QED
    BY <1>0, <1>3, <2>1, LocalMoves, Zenon DEF PushRead, Goto, Typed, mach
<1>4. ASSUME NEW t \in Threads, Pushed(t) PROVE Done
  <2>1. LocalOK(t)' /\ SendsOK(t)'
    BY <1>0, <1>4, Zenon DEF Pushed, Goto, Typed, LocalOK, SendsOK
  <2> QED
    BY <1>0, <1>4, <2>1, LocalMoves, Zenon DEF Pushed, Goto, Typed
<1>5. ASSUME NEW t \in Threads, FreeSpare(t) PROVE Done
  <2>1. LocalOK(t)' /\ SendsOK(t)'
    BY <1>0, <1>5, Zenon DEF FreeSpare, Return, Typed, LocalOK, SendsOK
  <2> QED
    BY <1>0, <1>5, <2>1, LocalMoves, Zenon DEF FreeSpare, Return, Typed, mach
<1>6. ASSUME NEW t \in Threads, FlushLock(t) \/ DrainStart(t) \/ DrainEnd(t) PROVE Done
  <2>0. /\ pc[t] \in {"flock", "drain", "drained"} /\ pc'[t] \in {"flush", "popread", "idle"}
        /\ UNCHANGED <<arg, batch, own, cur, todo>>
    BY <1>0, <1>6, Zenon DEF FlushLock, DrainStart, DrainEnd, Goto, Typed
  <2>1. LocalOK(t)' /\ SendsOK(t)'
    BY <1>0, <2>0, Zenon DEF LocalOK, SendsOK
  <2> QED
    BY <1>0, <1>6, <2>1, LocalMoves, Zenon DEF FlushLock, DrainStart, DrainEnd, Goto, Typed
<1>7. ASSUME NEW t \in Threads, Poll(t) \/ Flush(t) \/ DrainNow(t) PROVE Done
  <2>1. LocalOK(t)' /\ SendsOK(t)'
    BY <1>0, <1>7, Zenon DEF Poll, Flush, DrainNow, Goto, Typed, LocalOK, SendsOK
  <2> QED
    BY <1>0, <1>7, <2>1, LocalMoves, Zenon DEF Poll, Flush, DrainNow, Goto, Typed, mach
<1>8. ASSUME NEW t \in Threads, PopRead(t) PROVE Done
  <2>1. LocalOK(t)' /\ SendsOK(t)'
    BY <1>0, <1>8, Zenon DEF PopRead, Goto, Typed, LocalOK, SendsOK
  <2> QED
    BY <1>0, <1>8, <2>1, LocalMoves, Zenon DEF PopRead, Goto, Typed, mach
<1>9. ASSUME NEW t \in Threads, DrainPage(t) PROVE Done
  <2>1. pc[t] = "dfree" /\ todo[t] # << >> /\ todo[t] \in Seq(Pages)
        /\ todo' = [todo EXCEPT ![t] = Tail(todo[t])] /\ UNCHANGED <<pc, arg, batch, cur, own>>
    BY <1>0, <1>9, Zenon DEF DrainPage, Typed
  <2>2. todo'[t] = Tail(todo[t]) /\ Len(todo'[t]) = Len(todo[t]) - 1 /\ Len(todo[t]) \in Nat
    BY <1>0, <2>1 DEF Typed
  <2>3. LocalOK(t)' /\ SendsOK(t)'
    BY <1>0, <2>1, <2>2, SizesAssumption DEF LocalOK, SendsOK
  <2> QED
    BY <1>0, <1>9, <2>1, <2>3, LocalMoves, Zenon DEF DrainPage, Typed, mach
<1>10. ASSUME NEW p \in Pages, Realloc(p) PROVE Done
  BY <1>10, Zenon DEF Realloc, LocalInv, SendsInv, LocalOK, SendsOK, mach
<1>11. ASSUME NEW t \in Threads, DrainBatch(t) PROVE Done
  <2>1. cur[t] \in Nodes /\ cur[t] # NoNode
    BY <1>0, <1>11, NullsAssumption, Zenon DEF StepOK, DrainBatch
  <2>2. PICK n \in MaybeNode : n = next[cur[t]]
    BY <1>0, <2>1, Zenon DEF Typed
  <2>3. /\ cur' = [cur EXCEPT ![t] = n] /\ todo' = IF n = NoNode THEN todo ELSE [todo EXCEPT ![t] = pas[n]]
        /\ pc' = [pc EXCEPT ![t] = IF n = NoNode THEN "drained" ELSE "dfree"]
        /\ pc[t] = "dfree" /\ todo[t] = << >> /\ UNCHANGED <<arg, batch, own>>
    BY <1>11, <2>2, Zenon DEF DrainBatch, Goto
  <2>4. MachineOf[t] \notin MayCrash
    BY <1>0, <2>1, Zenon DEF SendsOK
  <2>5. /\ n = NoNode => pc'[t] = "drained" /\ cur'[t] = NoNode /\ todo'[t] = << >>
        /\ n # NoNode => pc'[t] = "dfree" /\ Len(todo'[t]) <= BatchMax
    BY <1>0, <2>3, Zenon DEF Typed, MaybeNode
  <2>6. LocalOK(t)' /\ SendsOK(t)'
    BY <1>0, <1>e, <2>3, <2>4, <2>5, Zenon DEF LocalOK, SendsOK
  <2>7. \A u \in Threads \ {t} : pc'[u] = pc[u] /\ cur'[u] = cur[u] /\ todo'[u] = todo[u]
    BY <1>0, <2>3, Zenon DEF Typed
  <2> QED
    BY <1>11, <2>3, <2>6, <2>7, LocalMoves, Zenon DEF DrainBatch, mach
<1>12. ASSUME NEW t \in Threads, Enqueue(t) PROVE Done
  <2> DEFINE m == MachineOf[t]
             o == own[t]
             install == pending[m][o] = NoNode
             n == IF install THEN spare[t] ELSE pending[m][o]
             list == IF install THEN <<arg[t]>> ELSE Append(pas[n], arg[t])
  <2>1. UNCHANGED <<head, ready, own, cur, todo>> /\ pc[t] = "lock" /\ own[t] \notin MayCrash
    BY <1>0, <1>12, Zenon DEF Enqueue, SendsOK
  <2>2. CASE n = NoNode
    <3>1. pc' = [pc EXCEPT ![t] = "check"] /\ UNCHANGED <<pending, arg, batch>>
      BY <1>12, <2>2, Zenon DEF Enqueue, Goto
    <3>2. pc'[t] = "check" /\ \A u \in Threads \ {t} : pc'[u] = pc[u]
      BY <1>0, <3>1, Zenon DEF Typed
    <3>3. LocalOK(t)' /\ SendsOK(t)'
      BY <1>0, <2>1, <3>1, <3>2, Zenon DEF LocalOK, SendsOK
    <3> QED
      BY <2>1, <3>1, <3>2, <3>3, LocalMoves, Zenon
  <2>3. CASE n # NoNode
    <3>1. /\ pending' = [pending EXCEPT ![m][o] = Pending(n, Full(list))]
          /\ arg' = [arg EXCEPT ![t] = NoPage]
          /\ batch' = [batch EXCEPT ![t] = IF Full(list) THEN n ELSE NoNode]
          /\ pc' = [pc EXCEPT ![t] = IF Full(list) THEN "pushread" ELSE "spare"]
      BY <1>12, <2>3, Zenon DEF Enqueue, Goto
    <3>2. /\ arg'[t] = NoPage
          /\ (pc'[t] = "pushread" \/ (pc'[t] = "spare" /\ batch'[t] = NoNode))
          /\ \A u \in Threads \ {t} : pc'[u] = pc[u] /\ arg'[u] = arg[u] /\ batch'[u] = batch[u]
      <4> HIDE DEF n, list, m, o
      <4> QED
        BY <1>0, <3>1 DEF Typed
    <3>3. LocalOK(t)' /\ SendsOK(t)'
      BY <1>0, <2>1, <3>2, Zenon DEF LocalOK, SendsOK
    <3>4. \A a, b \in Machines : b # o => pending'[a][b] = pending[a][b]
      <4> HIDE DEF n, list
      <4> QED
        BY <1>0, <3>1 DEF Typed
    <3>5. ASSUME NEW u \in Threads PROVE LocalOK(u)' /\ SendsOK(u)'
      BY <1>0, <2>1, <3>2, <3>3, LocalFrame, Zenon
    <3> QED
      BY <2>1, <3>4, <3>5, Zenon DEF LocalInv, SendsInv
  <2> QED
    BY <2>2, <2>3, Zenon
<1>13. ASSUME NEW t \in Threads, FlushNext(t) PROVE Done
  <2>1. UNCHANGED <<head, ready, arg, cur, todo>> /\ pc[t] = "flush"
    BY <1>13, Zenon DEF FlushNext
  <2>2. ASSUME NEW o \in Machines, pending[MachineOf[t]][o] # NoNode,
               batch' = [batch EXCEPT ![t] = pending[MachineOf[t]][o]], own' = [own EXCEPT ![t] = o],
               pending' = [pending EXCEPT ![MachineOf[t]][o] = NoNode], pc' = [pc EXCEPT ![t] = "pushread"]
        PROVE  Done
    <3>1. o \notin MayCrash
      BY <1>0, <2>2, Zenon DEF SendsInv
    <3>2. /\ pc'[t] = "pushread" /\ own'[t] = o
          /\ \A u \in Threads \ {t} : pc'[u] = pc[u] /\ own'[u] = own[u] /\ batch'[u] = batch[u]
          /\ \A a, b \in Machines : pending'[a][b] \in {pending[a][b], NoNode}
      BY <1>0, <2>2 DEF Typed
    <3>3. LocalOK(t)' /\ SendsOK(t)'
      BY <1>0, <2>1, <3>1, <3>2, Zenon DEF LocalOK, SendsOK
    <3>4. ASSUME NEW u \in Threads PROVE LocalOK(u)' /\ SendsOK(u)'
      BY <1>0, <2>1, <3>2, <3>3, LocalFrame, Zenon
    <3> QED
      BY <2>1, <3>2, <3>4, Zenon DEF LocalInv, SendsInv
  <2>3. CASE /\ pc' = [pc EXCEPT ![t] = after[t]] /\ own' = [own EXCEPT ![t] = MachineOf[t]]
             /\ UNCHANGED <<batch, pending>>
    <3>1. /\ pc'[t] \in {"idle", "drain", "spare"}
          /\ \A u \in Threads \ {t} : pc'[u] = pc[u] /\ own'[u] = own[u]
      BY <1>0, <2>3, Zenon DEF Typed
    <3>2. LocalOK(t)' /\ SendsOK(t)'
      BY <1>0, <2>1, <2>3, <3>1, Zenon DEF LocalOK, SendsOK
    <3> QED
      BY <2>1, <2>3, <3>1, <3>2, LocalMoves, Zenon
  <2> QED
    BY <1>13, <2>2, <2>3, Zenon DEF FlushNext, Goto
<1>14. ASSUME NEW t \in Threads, PushCas(t) PROVE Done
  <2>1. UNCHANGED <<pending, ready, arg, own, cur, todo>> /\ pc[t] = "pushcas" /\ own[t] \notin MayCrash
    BY <1>0, <1>14, Zenon DEF PushCas, mach, SendsOK
  <2>2. CASE head[own[t]] = snap[t]
    <3>1. /\ head' = [head EXCEPT ![own[t]] = Bumped(snap[t], batch[t])] /\ batch' = [batch EXCEPT ![t] = NoNode]
          /\ pc' = [pc EXCEPT ![t] = IF after[t] = "spare" THEN "pushed" ELSE "flush"]
      BY <1>14, <2>2, Zenon DEF PushCas, Goto
    <3>2. /\ pc'[t] \in {"pushed", "flush"} /\ batch'[t] = NoNode
          /\ \A u \in Threads \ {t} : pc'[u] = pc[u] /\ batch'[u] = batch[u]
          /\ \A a \in Machines : a # own[t] => head'[a] = head[a]
      BY <1>0, <3>1, Zenon DEF Typed
    <3>3. LocalOK(t)' /\ SendsOK(t)'
      BY <1>0, <2>1, <3>2, Zenon DEF LocalOK, SendsOK
    <3>4. ASSUME NEW u \in Threads PROVE LocalOK(u)' /\ SendsOK(u)'
      BY <1>0, <2>1, <3>2, <3>3, LocalFrame, Zenon
    <3> QED
      BY <2>1, <3>2, <3>4, Zenon DEF LocalInv, SendsInv
  <2>3. CASE head[own[t]] # snap[t]
    <3>1. pc' = [pc EXCEPT ![t] = "pushread"] /\ UNCHANGED <<head, batch>>
      BY <1>14, <2>3, Zenon DEF PushCas, Goto
    <3>2. pc'[t] = "pushread" /\ \A u \in Threads \ {t} : pc'[u] = pc[u]
      BY <1>0, <3>1, Zenon DEF Typed
    <3>3. LocalOK(t)' /\ SendsOK(t)'
      BY <1>0, <2>1, <3>1, <3>2, Zenon DEF LocalOK, SendsOK
    <3> QED
      BY <2>1, <3>1, <3>2, <3>3, LocalMoves, Zenon
  <2> QED
    BY <2>2, <2>3, Zenon
<1>15. ASSUME NEW t \in Threads, PopCas(t) PROVE Done
  <2>1. UNCHANGED <<pending, ready, arg, own, batch>> /\ pc[t] = "popcas" /\ snap[t].node \in Nodes
    BY <1>0, <1>15, Zenon DEF PopCas, mach, StepOK
  <2>2. CASE head[MachineOf[t]] = snap[t]
    <3>1. /\ head' = [head EXCEPT ![MachineOf[t]] = Bumped(snap[t], NoNode)]
          /\ cur' = [cur EXCEPT ![t] = snap[t].node] /\ todo' = [todo EXCEPT ![t] = pas[snap[t].node]]
          /\ pc' = [pc EXCEPT ![t] = "dfree"]
      BY <1>15, <2>2, Zenon DEF PopCas, Goto
    <3>2. MachineOf[t] \notin MayCrash
      BY <1>0, <2>1, <2>2, NullsAssumption, Zenon DEF SendsInv
    <3>3. /\ pc'[t] = "dfree" /\ Len(todo'[t]) <= BatchMax
          /\ \A u \in Threads \ {t} : pc'[u] = pc[u] /\ cur'[u] = cur[u] /\ todo'[u] = todo[u]
          /\ \A a \in Machines : a # MachineOf[t] => head'[a] = head[a]
      BY <1>0, <2>1, <3>1, Zenon DEF Typed
    <3>4. LocalOK(t)' /\ SendsOK(t)'
      BY <1>0, <2>1, <3>2, <3>3, Zenon DEF LocalOK, SendsOK
    <3>5. ASSUME NEW u \in Threads PROVE LocalOK(u)' /\ SendsOK(u)'
      BY <1>0, <2>1, <3>3, <3>4, LocalFrame, Zenon
    <3> QED
      BY <2>1, <3>2, <3>3, <3>5, Zenon DEF LocalInv, SendsInv
  <2>3. CASE head[MachineOf[t]] # snap[t]
    <3>1. pc' = [pc EXCEPT ![t] = "popread"] /\ UNCHANGED <<head, cur, todo>>
      BY <1>15, <2>3, Zenon DEF PopCas, Goto
    <3>2. pc'[t] = "popread" /\ \A u \in Threads \ {t} : pc'[u] = pc[u]
      BY <1>0, <3>1, Zenon DEF Typed
    <3>3. LocalOK(t)' /\ SendsOK(t)'
      BY <1>0, <2>1, <3>1, <3>2, Zenon DEF LocalOK, SendsOK
    <3> QED
      BY <2>1, <3>1, <3>2, <3>3, LocalMoves, Zenon
  <2> QED
    BY <2>2, <2>3, Zenon
<1>16. ASSUME NEW m \in Machines, Crash(m) PROVE Done
  <2>1. UNCHANGED head /\ m \in MayCrash /\ ready' = [ready EXCEPT ![m] = FALSE]
        /\ pending' = [pending EXCEPT ![m] = [o \in Machines |-> NoNode]]
    BY <1>16, Zenon DEF Crash
  <2>2. ASSUME NEW u \in Threads, MachineOf[u] = m PROVE LocalOK(u)' /\ SendsOK(u)'
    <3>1. pc'[u] = "down" /\ arg'[u] = NoPage /\ batch'[u] = NoNode /\ cur'[u] = NoNode /\ todo'[u] = << >>
      BY <1>16, <2>2, Zenon DEF Crash
    <3> QED
      BY <1>e, <3>1, Zenon DEF LocalOK, SendsOK
  <2>3. ASSUME NEW u \in Threads, MachineOf[u] # m PROVE LocalOK(u)' /\ SendsOK(u)'
    <3>1. /\ pc'[u] = pc[u] /\ arg'[u] = arg[u] /\ batch'[u] = batch[u] /\ own'[u] = own[u]
          /\ cur'[u] = cur[u] /\ todo'[u] = todo[u]
      BY <1>16, <2>3, Zenon DEF Crash
    <3> QED
      BY <1>0, <3>1, LocalFrame, Zenon
  <2>4. /\ \A a, b \in Machines : pending'[a][b] \in {pending[a][b], NoNode}
        /\ \A a \in Machines : a # m => ready'[a] = ready[a]
    BY <1>0, <2>1, Zenon DEF Typed
  <2> QED
    BY <2>1, <2>2, <2>3, <2>4, Zenon DEF LocalInv, SendsInv
<1>17. ASSUME NEW m \in Machines, RemotePageFreeInit(m) PROVE Done
  <2>1. /\ UNCHANGED <<pending, arg, batch, own, cur, todo>> /\ ~ready[m]
        /\ head' = [head EXCEPT ![m] = Bumped(head[m], NoNode)] /\ ready' = [ready EXCEPT ![m] = TRUE]
    BY <1>17, Zenon DEF RemotePageFreeInit
  <2>2. /\ \A a \in Machines : head'[a].node \in {head[a].node, NoNode}
        /\ \A a \in Machines : ~ready'[a] => ~ready[a]
    BY <1>0, <2>1, BumpedType, Zenon DEF Typed, MaybeNode
  <2>3. ASSUME NEW u \in Threads PROVE LocalOK(u)' /\ SendsOK(u)'
    <3>1. CASE MachineOf[u] # m
      <4>1. pc'[u] = pc[u]
        BY <1>17, <3>1, Zenon DEF RemotePageFreeInit
      <4> QED
        BY <1>0, <2>1, <4>1, LocalFrame, Zenon
    <3>2. CASE MachineOf[u] = m
      <4>1. pc'[u] = "idle"
        BY <1>17, <3>2, Zenon DEF RemotePageFreeInit
      <4>2. pc[u] = "down"
        BY <2>1, <3>2, Zenon DEF UpInv
      <4> QED
        BY <1>0, <2>1, <3>2, <4>1, <4>2, Zenon DEF LocalOK, SendsOK
    <3> QED
      BY <3>1, <3>2, Zenon
  <2> QED
    BY <2>1, <2>2, <2>3, Zenon DEF LocalInv, SendsInv
<1>18. CASE UNCHANGED vars
  BY <1>18, Zenon DEF vars, mach, LocalInv, SendsInv, LocalOK, SendsOK
<1> HIDE DEF Done
<1>19. ASSUME NEW t \in Threads, Step(t) PROVE Done
  BY <1>2, <1>3, <1>4, <1>5, <1>6, <1>8, <1>9, <1>11, <1>12, <1>13, <1>14, <1>15, <1>19, Zenon DEF Step
<1>20. Next \/ UNCHANGED vars
  BY Zenon
<1>21. Next => Done
  BY <1>1, <1>7, <1>10, <1>16, <1>17, <1>19, Zenon DEF Next
<1> QED
  BY <1>18, <1>20, <1>21, Zenon DEF Done

-----------------------------------------------------------------------------
(* Every page waits in one place                                           *)

LEMMA AtSame ==
  ASSUME UNCHANGED <<arg, pas, todo>>, \A n \in Nodes : Used(n)' <=> Used(n)
  PROVE  \A p, k, a, i : At(k, a, i, p)' <=> At(k, a, i, p)
<1> SUFFICES ASSUME NEW p, NEW k, NEW a, NEW i PROVE At(k, a, i, p)' <=> At(k, a, i, p)
  BY Zenon
<1>1. ASSUME At(k, a, i, p) PROVE At(k, a, i, p)'
  BY <1>1, Zenon DEF At
<1>2. ASSUME At(k, a, i, p)' PROVE At(k, a, i, p)
  BY <1>2, Zenon DEF At
<1> QED
  BY <1>1, <1>2, Zenon

LEMMA RightFrame ==
  ASSUME RightInv, UNCHANGED <<page, arg, pas, todo>>, \A n \in Nodes : Used(n)' <=> Used(n)
  PROVE  RightInv'
<1>1. \A p, k, a, i : At(k, a, i, p)' <=> At(k, a, i, p)
  BY AtSame, Zenon
<1>2. ASSUME NEW p \in Pages PROVE Right(p)'
  BY <1>1, RightStays, Zenon DEF RightInv
<1> QED
  BY <1>2, Zenon DEF RightInv

\* A page that is not waiting changes hands.
LEMMA RightIdle ==
  ASSUME NEW p \in Pages, Right(p), page[p] # "queued", page'[p] # "queued",
         \A k, a, i : At(k, a, i, p)' <=> At(k, a, i, p)
  PROVE  Right(p)'
<1>1. \A k, a, i : ~At(k, a, i, p)
  BY Zenon DEF Right
<1> QED
  BY <1>1, Zenon DEF Right

LEMMA RightFree ==
  ASSUME Typed, LocalInv, RightInv, NEW t \in Threads, NEW p \in Pages, FreeMachinePage(t, p)
  PROVE  RightInv'
<1>0. /\ page[p] = "used" /\ pc[t] = "idle" /\ arg[t] = NoPage
      /\ UNCHANGED <<head, next, pas, pending, batch, cur, todo>>
  BY Zenon DEF FreeMachinePage, LocalInv, LocalOK
<1>1. \A n \in Nodes : Used(n)' <=> Used(n)
  BY <1>0, UsedSame, Zenon
<1>2. CASE OwnerOf[p] = MachineOf[t] \/ OwnerOf[p] \notin Machines
  <2>1. /\ page' = [page EXCEPT ![p] = IF OwnerOf[p] \in Machines THEN "free" ELSE "lost"]
        /\ UNCHANGED arg
    BY <1>2, Zenon DEF FreeMachinePage
  <2>2. page'[p] # "queued" /\ \A q \in Pages : q # p => page'[q] = page[q]
    BY <2>1, Zenon DEF Typed
  <2>3. \A q, k, a, i : At(k, a, i, q)' <=> At(k, a, i, q)
    BY <1>0, <1>1, <2>1, AtSame, Zenon
  <2>4. ASSUME NEW q \in Pages PROVE Right(q)'
    <3>1. CASE q = p
      <4>1. page[p] # "queued"
        BY <1>0, Zenon
      <4> QED
        BY <2>2, <2>3, <3>1, <4>1, RightIdle, Zenon DEF RightInv
    <3>2. CASE q # p
      BY <2>2, <2>3, <3>2, RightStays, Zenon DEF RightInv
    <3> QED
      BY <3>1, <3>2, Zenon
  <2> QED
    BY <2>4, Zenon DEF RightInv
<1>3. CASE ~(OwnerOf[p] = MachineOf[t] \/ OwnerOf[p] \notin Machines)
  <2>1. page' = [page EXCEPT ![p] = "queued"] /\ arg' = [arg EXCEPT ![t] = p]
    BY <1>3, Zenon DEF FreeMachinePage
  <2>2. /\ page'[p] = "queued" /\ \A q \in Pages : q # p => page'[q] = page[q]
        /\ arg'[t] = p /\ \A u \in Threads : u # t => arg'[u] = arg[u]
    BY <2>1, Zenon DEF Typed
  <2>3. ASSUME NEW q \in Pages, NEW k, NEW a, NEW i
        PROVE  At(k, a, i, q)' <=> At(k, a, i, q) \/ (q = p /\ k = "arg" /\ a = t /\ i = 0)
    <3>1. CASE k = "arg"
      BY <1>0, <2>2, <3>1, NullsAssumption, Zenon DEF At
    <3>2. CASE k # "arg"
      BY <1>0, <1>1, <3>2, Zenon DEF At
    <3> QED
      BY <3>1, <3>2, Zenon
  <2>4. ASSUME NEW q \in Pages PROVE Right(q)'
    <3>1. CASE q = p
      <4>1. page[p] # "queued"
        BY <1>0, Zenon
      <4>2. At("arg", t, 0, p)'
        BY <2>3, Zenon
      <4> QED
        BY <2>2, <2>3, <3>1, <4>1, <4>2, RightBegins, Zenon DEF RightInv
    <3>2. CASE q # p
      BY <2>2, <2>3, <3>2, RightStays, Zenon DEF RightInv
    <3> QED
      BY <3>1, <3>2, Zenon
  <2> QED
    BY <2>4, Zenon DEF RightInv
<1> QED
  BY <1>2, <1>3, Zenon

\* No node: the page is lost, and the thread forgets it.
LEMMA RightPreCheck ==
  ASSUME Typed, StepInv, RightInv, NEW t \in Threads, PreCheck(t)
  PROVE  RightInv'
<1>0. UNCHANGED <<head, next, pas, pending, batch, cur, todo>> /\ arg[t] \in Pages
  BY Zenon DEF PreCheck, StepInv, StepOK
<1>1. \A n \in Nodes : Used(n)' <=> Used(n)
  BY <1>0, UsedSame, Zenon
<1>2. CASE UNCHANGED <<page, arg>>
  BY <1>0, <1>1, <1>2, RightFrame, Zenon
<1>3. CASE page' = [page EXCEPT ![arg[t]] = "lost"] /\ arg' = [arg EXCEPT ![t] = NoPage]
  <2>1. PICK p \in Pages : p = arg[t]
    BY <1>0, Zenon
  <2>2. /\ page'[p] # "queued" /\ \A q \in Pages : q # p => page'[q] = page[q]
        /\ arg'[t] = NoPage /\ \A u \in Threads : u # t => arg'[u] = arg[u]
    BY <1>3, <2>1, Zenon DEF Typed
  <2>3. ASSUME NEW q \in Pages, NEW k, NEW a, NEW i
        PROVE  At(k, a, i, q)' <=> At(k, a, i, q) /\ ~(k = "arg" /\ a = t /\ i = 0)
    <3>1. CASE k = "arg"
      BY <1>0, <2>1, <2>2, <3>1, NullsAssumption, Zenon DEF At
    <3>2. CASE k # "arg"
      BY <1>0, <1>1, <3>2, Zenon DEF At
    <3> QED
      BY <3>1, <3>2, Zenon
  <2>4. At("arg", t, 0, p)
    BY <2>1, Zenon DEF At
  <2>5. ASSUME NEW q \in Pages PROVE Right(q)'
    <3>1. CASE q = p
      BY <2>2, <2>3, <2>4, <3>1, RightEnds, Zenon DEF RightInv
    <3>2. CASE q # p
      <4>1. \A k, a, i : At(k, a, i, q) => ~(k = "arg" /\ a = t /\ i = 0)
        BY <2>1, <3>2, Zenon DEF At
      <4> QED
        BY <2>2, <2>3, <3>2, <4>1, RightStays, Zenon DEF RightInv
    <3> QED
      BY <3>1, <3>2, Zenon
  <2> QED
    BY <2>5, Zenon DEF RightInv
<1> QED
  BY <1>2, <1>3, Zenon DEF PreCheck

\* Batch n gets the page of a call as its last address.
LEMMA RightAppended ==
  ASSUME Typed, RightInv, NEW t \in Threads, NEW p \in Pages, p = arg[t], NEW n \in Nodes, NEW list,
         \A x \in Nodes : Used(x)' <=> Used(x) \/ x = n,
         \/ ~Used(n) /\ list = <<p>>
         \/ Used(n) /\ list = Append(pas[n], p),
         pas' = [pas EXCEPT ![n] = list], arg' = [arg EXCEPT ![t] = NoPage], UNCHANGED <<page, todo>>
  PROVE  RightInv'
<1>1. /\ arg'[t] = NoPage /\ \A u \in Threads : u # t => arg'[u] = arg[u]
      /\ pas'[n] = list /\ \A x \in Nodes : x # n => pas'[x] = pas[x]
  BY Zenon DEF Typed
<1>2. PICK l \in Nat : l = Len(list)
  <2>1. pas[n] \in Seq(Pages)
    BY Zenon DEF Typed
  <2>2. Len(<<p>>) \in Nat /\ Len(Append(pas[n], p)) \in Nat
    BY <2>1
  <2> QED
    BY <2>2, Zenon
<1>3. ASSUME NEW q \in Pages, NEW i
      PROVE  (i \in DOMAIN list /\ list[i] = q) <=> (Used(n) /\ i \in DOMAIN pas[n] /\ pas[n][i] = q)
                                                    \/ (i = l /\ q = p)
  <2>1. CASE ~Used(n) /\ list = <<p>>
    BY <1>2, <2>1
  <2>2. CASE Used(n) /\ list = Append(pas[n], p)
    <3>1. pas[n] \in Seq(Pages) /\ Len(pas[n]) \in Nat
      BY DEF Typed
    <3>2. DOMAIN pas[n] = 1 .. Len(pas[n]) /\ DOMAIN list = 1 .. l /\ l = Len(pas[n]) + 1
      BY <1>2, <2>2, <3>1
    <3>3. list[l] = p /\ \A j \in 1 .. Len(pas[n]) : list[j] = pas[n][j]
      BY <2>2, <3>1, <3>2
    <3> QED
      BY <2>2, <3>1, <3>2, <3>3
  <2> QED
    BY <2>1, <2>2, Zenon
<1>4. ASSUME NEW q \in Pages, NEW k, NEW a, NEW i
      PROVE  At(k, a, i, q)' <=> (At(k, a, i, q) /\ ~(k = "arg" /\ a = t /\ i = 0))
                                 \/ (q = p /\ k = "batch" /\ a = n /\ i = l)
  <2>1. CASE k = "arg"
    BY <1>1, <2>1, NullsAssumption, Zenon DEF At
  <2>2. CASE k = "batch" /\ a = n
    BY <1>1, <1>3, <2>2 DEF At
  <2>3. CASE k = "batch" /\ a # n
    BY <1>1, <2>3, Zenon DEF At
  <2>4. CASE k \notin {"arg", "batch"}
    BY <2>4, Zenon DEF At
  <2> QED
    BY <2>1, <2>2, <2>3, <2>4, Zenon
<1>5. At("arg", t, 0, p)
  BY Zenon DEF At
<1>6. ASSUME NEW q \in Pages PROVE Right(q)'
  <2>1. CASE q = p
    <3>1. At("batch", n, l, p)'
      BY <1>4, Zenon
    <3> QED
      BY <1>4, <1>5, <2>1, <3>1, RightMoves DEF RightInv
  <2>2. CASE q # p
    <3>1. \A k, a, i : At(k, a, i, q) => ~(k = "arg" /\ a = t /\ i = 0)
      BY <2>2, Zenon DEF At
    <3>2. \A k, a, i : At(k, a, i, q)' <=> At(k, a, i, q)
      BY <1>4, <2>2, <3>1, Zenon
    <3> QED
      BY <3>2, RightStays, Zenon DEF RightInv
  <2> QED
    BY <2>1, <2>2, Zenon
<1> QED
  BY <1>6, Zenon DEF RightInv

LEMMA RightEnqueue ==
  ASSUME NInv, Typed', LocalInv, RightInv, NEW t \in Threads, Enqueue(t)
  PROVE  RightInv'
<1> DEFINE m == MachineOf[t]
           o == own[t]
           install == pending[m][o] = NoNode
           n == IF install THEN spare[t] ELSE pending[m][o]
           list == IF install THEN <<arg[t]>> ELSE Append(pas[n], arg[t])
           full == Full(list)
<1>1. /\ Typed /\ Unique /\ m \in Machines /\ o \in Machines /\ n \in MaybeNode /\ full \in BOOLEAN
      /\ arg[t] \in Pages /\ batch[t] = NoNode /\ UNCHANGED <<head, cur, todo, page>>
  <2>1. Typed /\ Unique /\ pc[t] = "lock" /\ UNCHANGED <<head, cur, todo, page>>
    BY Zenon DEF NInv, Enqueue
  <2>2. arg[t] \in Pages /\ batch[t] = NoNode
    BY <2>1, Zenon DEF NInv, StepInv, StepOK, LocalInv, LocalOK
  <2>3. m \in Machines /\ o \in Machines
    BY <2>1, ThreadsAssumption, Zenon DEF Typed
  <2>4. n \in MaybeNode
    BY <2>1, <2>3 DEF Typed
  <2>5. full \in BOOLEAN
    BY Zenon DEF Full
  <2> QED
    BY <2>1, <2>2, <2>3, <2>4, <2>5, Zenon
<1>2. CASE n = NoNode
  <2>1. UNCHANGED <<pas, next, pending, batch, arg>>
    BY <1>2, Zenon DEF Enqueue
  <2> QED
    BY <1>1, <2>1, UsedSame, RightFrame, Zenon
<1>3. CASE n # NoNode
  <2>0. n \in Nodes
    BY <1>1, <1>3, Zenon DEF MaybeNode
  <2>1. /\ pas' = [pas EXCEPT ![n] = list] /\ arg' = [arg EXCEPT ![t] = NoPage]
        /\ next' = IF install THEN [next EXCEPT ![n] = NoNode] ELSE next
        /\ pending' = [pending EXCEPT ![m][o] = IF full THEN NoNode ELSE n]
        /\ batch' = [batch EXCEPT ![t] = IF full THEN n ELSE NoNode]
    BY <1>3, Zenon DEF Enqueue, Pending
  <2>2. CASE install
    <3>1. n = spare[t] /\ next' = [next EXCEPT ![n] = NoNode] /\ list = <<arg[t]>> /\ pending[m][o] = NoNode
      BY <2>1, <2>2, Zenon
    <3> HIDE DEF full, n, m, o, list, install
    <3>2. ~Used(n) /\ \A x \in Nodes : Used(x)' <=> Used(x) \/ x = n
      BY <1>1, <2>0, <2>1, <3>1, UsedInstalled, Zenon
    <3> QED
      BY <1>1, <2>0, <2>1, <3>1, <3>2, RightAppended, Zenon
  <2>3. CASE ~install
    <3>1. n = pending[m][o] /\ UNCHANGED next /\ list = Append(pas[n], arg[t])
      BY <2>1, <2>3, Zenon
    <3>2. Used(n)
      BY <1>1, <3>1, Zenon DEF Used
    <3> HIDE DEF n, m, o, list, install, full
    <3>3. \A x \in Nodes : Used(x)' <=> Used(x)
      <4>1. CASE full
        <5>1. pending' = [pending EXCEPT ![m][o] = NoNode] /\ batch' = [batch EXCEPT ![t] = pending[m][o]]
          BY <2>1, <3>1, <4>1, Zenon
        <5> QED
          BY <1>1, <3>1, <5>1, UsedTaken, Zenon
      <4>2. CASE ~full
        <5>1. pending' = [pending EXCEPT ![m][o] = pending[m][o]] /\ batch' = [batch EXCEPT ![t] = batch[t]]
          BY <1>1, <2>1, <3>1, <4>2, Zenon
        <5>2. pending' = pending /\ batch' = batch
          BY <1>1, <5>1 DEF Typed
        <5> QED
          BY <1>1, <3>1, <5>2, UsedSame, Zenon
      <4> QED
        BY <4>1, <4>2, Zenon
    <3>4. \A x \in Nodes : Used(x)' <=> Used(x) \/ x = n
      BY <3>2, <3>3, Zenon
    <3> QED
      BY <1>1, <2>0, <2>1, <3>1, <3>2, <3>4, RightAppended, Zenon
  <2> QED
    BY <2>2, <2>3, Zenon
<1> QED
  BY <1>2, <1>3, Zenon

LEMMA RightUnique ==
  ASSUME NEW p, Right(p), NEW k, NEW a, NEW i, At(k, a, i, p)
  PROVE  /\ page[p] = "queued"
         /\ \A j, b, d : At(j, b, d, p) => j = k /\ b = a /\ d = i
<1>1. page[p] = "queued"
  BY Zenon DEF Right
<1>2. PICK k1, a1, i1 : \A j, b, d : At(j, b, d, p) <=> (j = k1 /\ b = a1 /\ d = i1)
  BY <1>1, Zenon DEF Right
<1>3. k = k1 /\ a = a1 /\ i = i1
  BY <1>2, Zenon
<1> QED
  BY <1>1, <1>2, <1>3

\* The addresses of batch h become what a thread frees next.
LEMMA RightRead ==
  ASSUME Typed, RightInv, NEW t \in Threads, todo[t] = << >>, NEW h \in Nodes, Used(h),
         \A x \in Nodes : Used(x)' <=> Used(x) /\ x # h,
         \A x \in Nodes : Used(x) => pas'[x] = pas[x],
         todo' = [todo EXCEPT ![t] = pas[h]], UNCHANGED <<page, arg>>
  PROVE  RightInv'
<1>1. todo'[t] = pas[h] /\ \A u \in Threads : u # t => todo'[u] = todo[u]
  BY Zenon DEF Typed
<1>2. \A i, q : ~At("todo", t, i, q)
  BY DEF At
<1>3. ASSUME NEW q \in Pages, NEW k, NEW a, NEW i
      PROVE  At(k, a, i, q)' <=> (At(k, a, i, q) /\ ~(k = "batch" /\ a = h))
                                 \/ (k = "todo" /\ a = t /\ At("batch", h, i, q))
  <2>1. CASE k = "arg"
    BY <2>1, Zenon DEF At
  <2>2. CASE k = "batch"
    BY <2>2, Zenon DEF At
  <2>3. CASE k = "todo" /\ a = t
    BY <1>1, <1>2, <2>3, Zenon DEF At
  <2>4. CASE k = "todo" /\ a # t
    BY <1>1, <2>4, Zenon DEF At
  <2>5. CASE k \notin {"arg", "batch", "todo"}
    BY <2>5, Zenon DEF At
  <2> QED
    BY <2>1, <2>2, <2>3, <2>4, <2>5, Zenon
<1>4. ASSUME NEW q \in Pages PROVE Right(q)'
  <2>0. Right(q)
    BY Zenon DEF RightInv
  <2>1. ASSUME NEW i, At("batch", h, i, q) PROVE Right(q)'
    <3>1. At("todo", t, i, q)'
      BY <1>3, <2>1, Zenon
    <3>2. ASSUME NEW k, NEW a, NEW j, At(k, a, j, q)'
          PROVE  (k = "todo" /\ a = t /\ j = i) \/ (At(k, a, j, q) /\ ~(k = "batch" /\ a = h /\ j = i))
      <4>1. CASE At(k, a, j, q) /\ ~(k = "batch" /\ a = h)
        BY <4>1, Zenon
      <4>2. CASE k = "todo" /\ a = t /\ At("batch", h, j, q)
        <5>1. j = i
          BY <2>0, <2>1, <4>2, RightUnique
        <5> QED
          BY <4>2, <5>1, Zenon
      <4>3. \/ At(k, a, j, q) /\ ~(k = "batch" /\ a = h)
            \/ k = "todo" /\ a = t /\ At("batch", h, j, q)
        BY <1>3, <3>2, Zenon
      <4> QED
        BY <4>1, <4>2, <4>3, Zenon
    <3> QED
      BY <2>0, <2>1, <3>1, <3>2, RightMoves
  <2>2. ASSUME \A i : ~At("batch", h, i, q) PROVE Right(q)'
    <3>1. ASSUME NEW k, NEW a, NEW i PROVE At(k, a, i, q)' <=> At(k, a, i, q)
      BY <1>3, <2>2, Zenon
    <3> QED
      BY <2>0, <3>1, RightStays, Zenon
  <2> QED
    BY <2>1, <2>2, Zenon
<1> QED
  BY <1>4, Zenon DEF RightInv

\* The owner frees the first of the addresses it has.
LEMMA RightDrainPage ==
  ASSUME Typed, RightInv, NEW t \in Threads, DrainPage(t)
  PROVE  RightInv'
<1>0. /\ todo[t] # << >> /\ todo[t] \in Seq(Pages) /\ todo' = [todo EXCEPT ![t] = Tail(todo[t])]
      /\ UNCHANGED <<head, next, pending, batch, cur, arg, pas>>
  BY Zenon DEF DrainPage, Typed
<1>1. PICK l \in Nat \ {0} : l = Len(todo[t]) /\ DOMAIN todo[t] = 1 .. l
  BY <1>0
<1>2. PICK p \in Pages : p = Head(todo[t]) /\ p = todo[t][1]
  BY <1>0, <1>1
<1>3. /\ page'[p] # "queued" /\ \A q \in Pages : q # p => page'[q] = page[q]
  BY <1>2, Zenon DEF DrainPage, Typed
<1>4. /\ DOMAIN todo'[t] = 1 .. (l - 1) /\ \A i \in 1 .. (l - 1) : todo'[t][i] = todo[t][i + 1]
      /\ \A u \in Threads : u # t => todo'[u] = todo[u]
  BY <1>0, <1>1 DEF Typed
<1>5. \A n \in Nodes : Used(n)' <=> Used(n)
  BY <1>0, UsedSame, Zenon
<1>6. ASSUME NEW q \in Pages, NEW k, NEW a, NEW i, ~(k = "todo" /\ a = t)
      PROVE  At(k, a, i, q)' <=> At(k, a, i, q)
  <2>1. CASE k = "todo"
    BY <1>4, <1>6, <2>1, Zenon DEF At
  <2>2. CASE k # "todo"
    BY <1>0, <1>5, <2>2, Zenon DEF At
  <2> QED
    BY <2>1, <2>2, Zenon
<1>7. ASSUME NEW q \in Pages, NEW i, At("todo", t, i, q)' PROVE i \in 1 .. (l - 1) /\ At("todo", t, i + 1, q)
  BY <1>1, <1>4, <1>7 DEF At
<1>8. ASSUME NEW q \in Pages, NEW i, At("todo", t, i, q), i # 1 PROVE i \in 2 .. l /\ At("todo", t, i - 1, q)'
  BY <1>1, <1>4, <1>8 DEF At
<1>9. At("todo", t, 1, p)
  BY <1>1, <1>2 DEF At
<1>10. ASSUME NEW q \in Pages PROVE Right(q)'
  <2>0. Right(q)
    BY Zenon DEF RightInv
  <2>1. CASE q = p
    <3>1. ASSUME NEW k, NEW a, NEW i, At(k, a, i, p)'
          PROVE  At(k, a, i, p) /\ ~(k = "todo" /\ a = t /\ i = 1)
      <4>1. CASE k = "todo" /\ a = t
        <5>1. i \in 1 .. (l - 1) /\ At("todo", t, i + 1, p)
          BY <1>7, <3>1, <4>1, Zenon
        <5>2. i + 1 = 1
          BY <1>9, <2>0, <2>1, <5>1, RightUnique, Zenon
        <5> QED
          BY <5>1, <5>2
      <4>2. CASE ~(k = "todo" /\ a = t)
        BY <1>6, <3>1, <4>2, Zenon
      <4> QED
        BY <4>1, <4>2, Zenon
    <3> QED
      BY <1>3, <1>9, <2>0, <2>1, <3>1, RightEnds, Zenon
  <2>2. CASE q # p
    <3>1. ASSUME NEW i, At("todo", t, i, q) PROVE Right(q)'
      <4>1. i # 1
        BY <1>2, <2>2, <3>1, Zenon DEF At
      <4>2. i \in 2 .. l /\ At("todo", t, i - 1, q)'
        BY <1>8, <3>1, <4>1, Zenon
      <4>3. ASSUME NEW k, NEW a, NEW j, At(k, a, j, q)'
            PROVE  (k = "todo" /\ a = t /\ j = i - 1) \/ (At(k, a, j, q) /\ ~(k = "todo" /\ a = t /\ j = i))
        <5>1. CASE k = "todo" /\ a = t
          <6>1. j \in 1 .. (l - 1) /\ At("todo", t, j + 1, q)
            BY <1>7, <4>3, <5>1, Zenon
          <6>2. j + 1 = i
            BY <2>0, <3>1, <6>1, RightUnique, Zenon
          <6> QED
            BY <5>1, <6>1, <6>2
        <5>2. CASE ~(k = "todo" /\ a = t)
          BY <1>6, <4>3, <5>2, Zenon
        <5> QED
          BY <5>1, <5>2, Zenon
      <4>4. page'[q] = page[q]
        BY <1>3, <2>2, Zenon
      <4> QED
        BY <2>0, <3>1, <4>2, <4>3, <4>4, RightMoves
    <3>2. ASSUME \A i : ~At("todo", t, i, q) PROVE Right(q)'
      <4>1. ASSUME NEW k, NEW a, NEW i PROVE At(k, a, i, q)' <=> At(k, a, i, q)
        BY <1>6, <1>7, <3>2, Zenon
      <4> QED
        BY <1>3, <2>0, <2>2, <4>1, RightStays, Zenon
    <3> QED
      BY <3>1, <3>2, Zenon
  <2> QED
    BY <2>1, <2>2, Zenon
<1> QED
  BY <1>10, Zenon DEF RightInv

LEMMA RightPop ==
  ASSUME Typed, Unique, Acyclic, StepInv, LocalInv, RightInv, NEW t \in Threads, PopCas(t)
  PROVE  RightInv'
<1>0. /\ MachineOf[t] \in Machines /\ snap[t] \in Heads /\ snap[t].node \in Nodes
      /\ cur[t] = NoNode /\ todo[t] = << >>
      /\ UNCHANGED <<next, pas, pending, batch, page, arg>>
  <2>1. pc[t] = "popcas" /\ StepOK(t) /\ LocalOK(t) /\ UNCHANGED <<next, pas, pending, batch, page, arg>>
    BY Zenon DEF PopCas, StepInv, LocalInv
  <2> QED
    BY <2>1, ThreadsAssumption, Zenon DEF StepOK, LocalOK, Typed
<1>1. CASE head[MachineOf[t]] = snap[t]
  <2>1. /\ head' = [head EXCEPT ![MachineOf[t]] = Bumped(snap[t], NoNode)]
        /\ cur' = [cur EXCEPT ![t] = snap[t].node]
        /\ todo' = [todo EXCEPT ![t] = pas[snap[t].node]]
    BY <1>1, Zenon DEF PopCas
  <2>2. Bumped(snap[t], NoNode) \in Heads /\ Bumped(snap[t], NoNode).node = NoNode
    BY <1>0, BumpedType, Zenon DEF MaybeNode
  <2>3. PICK n \in Nodes : n = snap[t].node /\ n = head[MachineOf[t]].node
    BY <1>0, <1>1, Zenon
  <2>4. Used(n) /\ \A x \in Nodes : Used(x)' <=> Used(x) /\ x # n
    <3>1. PICK m \in Machines, h \in Heads : m = MachineOf[t] /\ h = Bumped(snap[t], NoNode)
      BY <1>0, <2>2, Zenon
    <3>2. /\ h.node = NoNode /\ n = head[m].node /\ head' = [head EXCEPT ![m] = h]
          /\ cur' = [cur EXCEPT ![t] = n] /\ UNCHANGED <<next, pending, batch>>
      BY <1>0, <2>1, <2>2, <2>3, <3>1, Zenon
    <3> QED
      BY <1>0, <3>2, UsedPopped, Zenon
  <2> QED
    BY <1>0, <2>1, <2>3, <2>4, RightRead, Zenon
<1>2. CASE head[MachineOf[t]] # snap[t]
  <2>1. UNCHANGED <<head, cur, todo>>
    BY <1>2, Zenon DEF PopCas
  <2> QED
    BY <1>0, <2>1, RightFrame, UsedSame, Zenon
<1> QED
  BY <1>1, <1>2, Zenon

LEMMA RightDrainBatch ==
  ASSUME Typed, Typed', Unique, Acyclic, StepInv, RightInv, NEW t \in Threads, DrainBatch(t)
  PROVE  RightInv'
<1>0. /\ todo[t] = << >> /\ UNCHANGED <<head, pending, batch, page, arg>>
      /\ pc[t] = "dfree" /\ StepOK(t)
  BY Zenon DEF DrainBatch, StepInv
<1>1. PICK n \in Nodes : n = cur[t]
  BY <1>0, Zenon DEF StepOK
<1>2. /\ pas' = [pas EXCEPT ![n] = << >>] /\ next' = [next EXCEPT ![n] = NoNode]
      /\ cur' = [cur EXCEPT ![t] = next[n]]
      /\ todo' = IF next[n] = NoNode THEN todo ELSE [todo EXCEPT ![t] = pas[next[n]]]
  BY <1>1, Zenon DEF DrainBatch
<1>3. /\ ~Used(n) /\ (next[n] \in Nodes => Used(next[n]))
      /\ \A x \in Nodes : Used(x)' <=> Used(x) /\ x # next[n]
  BY <1>0, <1>1, <1>2, UsedDrained, Zenon
<1>4. \A x \in Nodes : x # n => pas'[x] = pas[x]
  BY <1>2, Zenon DEF Typed
<1>5. \A x \in Nodes : Used(x) => pas'[x] = pas[x]
  BY <1>3, <1>4, Zenon
<1>6. CASE next[n] = NoNode
  <2>1. \A x \in Nodes : Used(x)' <=> Used(x)
    BY <1>3, <1>6, NullsAssumption, Zenon
  <2>2. UNCHANGED todo
    BY <1>2, <1>6, Zenon
  <2>3. ASSUME NEW q \in Pages, NEW k, NEW a, NEW i PROVE At(k, a, i, q)' <=> At(k, a, i, q)
    <3>1. CASE k = "batch"
      BY <1>5, <2>1, <3>1, Zenon DEF At
    <3>2. CASE k # "batch"
      BY <1>0, <2>2, <3>2, Zenon DEF At
    <3> QED
      BY <3>1, <3>2, Zenon
  <2>4. ASSUME NEW q \in Pages PROVE Right(q)'
    BY <1>0, <2>3, RightStays, Zenon DEF RightInv
  <2> QED
    BY <2>4, Zenon DEF RightInv
<1>7. CASE next[n] # NoNode
  <2>1. PICK h \in Nodes : h = next[n]
    BY <1>7, Zenon DEF Typed, MaybeNode
  <2>2. todo' = [todo EXCEPT ![t] = pas[h]]
    BY <1>2, <1>7, <2>1, Zenon
  <2>3. Used(h) /\ \A x \in Nodes : Used(x)' <=> Used(x) /\ x # h
    BY <1>3, <2>1, Zenon
  <2> QED
    BY <1>0, <1>5, <2>2, <2>3, RightRead, Zenon
<1> QED
  BY <1>6, <1>7, Zenon

-----------------------------------------------------------------------------
(* Failures and boots                                                      *)

\* A batch that machine m fills or pushes.
HeldBy(m, n) ==
  \/ \E o \in Machines : pending[m][o] = n
  \/ \E t \in Threads : MachineOf[t] = m /\ batch[t] = n

\* A machine that fails takes the batches with it that it fills or pushes.
LEMMA UsedCrash ==
  ASSUME Typed, Unique, NEW m \in Machines,
         \A a, b \in Machines : pending'[a][b] = IF a = m THEN NoNode ELSE pending[a][b],
         \A u \in Threads : batch'[u] = IF MachineOf[u] = m THEN NoNode ELSE batch[u],
         \A u \in Threads : cur'[u] = cur[u], UNCHANGED <<head, next>>
  PROVE  \A x \in Nodes : Used(x)' <=> Used(x) /\ ~HeldBy(m, x)
<1>1. \A x : Chain(x)' = Chain(x)
  BY ChainSame, Zenon
<1> SUFFICES ASSUME NEW x \in Nodes PROVE Used(x)' <=> Used(x) /\ ~HeldBy(m, x)
  BY Zenon
<1>2. x # NoNode
  BY NullsAssumption, Zenon
<1>3. \A u \in Threads : (cur[u] # NoNode /\ x \in Chain(next[cur[u]]))'
                         <=> (cur[u] # NoNode /\ x \in Chain(next[cur[u]]))
  BY <1>1, Zenon
<1>4. \A a \in Machines : (x \in Chain(head[a].node))' <=> x \in Chain(head[a].node)
  BY <1>1, Zenon
<1>5. ASSUME Used(x), ~HeldBy(m, x) PROVE Used(x)'
  <2>1. CASE \E a, b \in Machines : pending[a][b] = x
    BY <1>5, <2>1, Zenon DEF HeldBy, Used
  <2>2. CASE \E u \in Threads : batch[u] = x
    BY <1>5, <2>2, Zenon DEF HeldBy, Used
  <2>3. CASE \E a \in Machines : x \in Chain(head[a].node)
    BY <1>4, <2>3, Zenon DEF Used
  <2>4. CASE \E u \in Threads : cur[u] # NoNode /\ x \in Chain(next[cur[u]])
    BY <1>3, <2>4, Zenon DEF Used
  <2> QED
    BY <1>5, <2>1, <2>2, <2>3, <2>4, Zenon DEF Used
<1>6. ASSUME NEW k, NEW a, NEW b, Holds(k, a, b, x), HeldBy(m, x)
      PROVE  \/ k = "pending" /\ a = m
             \/ k = "push" /\ MachineOf[a] = m
  <2>1. CASE \E o \in Machines : pending[m][o] = x
    <3>1. PICK o \in Machines : pending[m][o] = x
      BY <2>1, Zenon
    <3>2. Holds("pending", m, o, x)
      BY <3>1, Zenon DEF Holds
    <3> QED
      BY <1>6, <3>2, Zenon DEF Unique
  <2>2. CASE \E u \in Threads : MachineOf[u] = m /\ batch[u] = x
    <3>1. PICK u \in Threads : MachineOf[u] = m /\ batch[u] = x
      BY <2>2, Zenon
    <3>2. Holds("push", u, u, x)
      BY <3>1, Zenon DEF Holds
    <3>3. k = "push" /\ a = u
      BY <1>6, <3>2, Zenon DEF Unique
    <3> QED
      BY <3>1, <3>3, Zenon
  <2> QED
    BY <1>6, <2>1, <2>2, Zenon DEF HeldBy
<1>7. ASSUME Used(x)' PROVE Used(x) /\ ~HeldBy(m, x)
  <2>1. ASSUME NEW a \in Machines, NEW b \in Machines, pending'[a][b] = x PROVE Used(x) /\ ~HeldBy(m, x)
    <3>1. a # m /\ pending[a][b] = x
      BY <1>2, <2>1, Zenon
    <3>2. Holds("pending", a, b, x)
      BY <3>1, Zenon DEF Holds
    <3> QED
      BY <1>6, <3>1, <3>2, Zenon DEF Used
  <2>2. ASSUME NEW u \in Threads, batch'[u] = x PROVE Used(x) /\ ~HeldBy(m, x)
    <3>1. MachineOf[u] # m /\ batch[u] = x
      BY <1>2, <2>2, Zenon
    <3>2. Holds("push", u, u, x)
      BY <3>1, Zenon DEF Holds
    <3> QED
      BY <1>6, <3>1, <3>2, Zenon DEF Used
  <2>3. ASSUME NEW a \in Machines, x \in Chain(head[a].node) PROVE Used(x) /\ ~HeldBy(m, x)
    <3>1. Holds("stack", a, a, x)
      BY <2>3, Zenon DEF Holds
    <3> QED
      BY <1>6, <2>3, <3>1, Zenon DEF Used
  <2>4. ASSUME NEW u \in Threads, cur[u] # NoNode, x \in Chain(next[cur[u]]) PROVE Used(x) /\ ~HeldBy(m, x)
    <3>1. Chain(cur[u]) = {cur[u]} \cup Chain(next[cur[u]])
      BY <2>4, ChainUnfolds DEF Typed, MaybeNode
    <3>2. Holds("drain", u, u, x)
      BY <2>4, <3>1, Zenon DEF Holds
    <3> QED
      BY <1>6, <2>4, <3>2, Zenon DEF Used
  <2> QED
    BY <1>3, <1>4, <1>7, <2>1, <2>2, <2>3, <2>4, Zenon DEF Used
<1> QED
  BY <1>5, <1>7, Zenon

LEMMA RightCrash ==
  ASSUME Typed, Unique, SendsInv, RightInv, NEW m \in Machines, Crash(m)
  PROVE  RightInv'
<1>1. /\ UNCHANGED <<head, next, pas>> /\ m \in MayCrash
      /\ pending' = [pending EXCEPT ![m] = [o \in Machines |-> NoNode]]
  BY Zenon DEF Crash
<1>2. \A a, b \in Machines : pending'[a][b] = IF a = m THEN NoNode ELSE pending[a][b]
  BY <1>1, Zenon DEF Typed
<1>3. \A u \in Threads : /\ batch'[u] = IF MachineOf[u] = m THEN NoNode ELSE batch[u]
                         /\ arg'[u] = IF MachineOf[u] = m THEN NoPage ELSE arg[u]
                         /\ cur'[u] = IF MachineOf[u] = m THEN NoNode ELSE cur[u]
                         /\ todo'[u] = IF MachineOf[u] = m THEN << >> ELSE todo[u]
  BY Zenon DEF Crash
<1>4. \A u \in Threads : cur'[u] = cur[u] /\ todo'[u] = todo[u]
  BY <1>1, <1>3, Zenon DEF SendsInv, SendsOK
<1>5. \A x \in Nodes : Used(x)' <=> Used(x) /\ ~HeldBy(m, x)
  BY <1>1, <1>2, <1>3, <1>4, UsedCrash, Zenon
<1>6. \A q \in Pages : page'[q] = IF q \in LostWith(m) THEN "lost" ELSE page[q]
  BY Zenon DEF Crash
<1> DEFINE Gone(k, a) == (k = "arg" /\ MachineOf[a] = m) \/ (k = "batch" /\ HeldBy(m, a))
<1>7. ASSUME NEW q \in Pages, NEW k, NEW a, NEW i
      PROVE  At(k, a, i, q)' <=> At(k, a, i, q) /\ ~Gone(k, a)
  <2>1. CASE k = "arg"
    BY <1>3, <2>1, NullsAssumption, Zenon DEF At
  <2>2. CASE k = "batch"
    BY <1>1, <1>5, <2>2, Zenon DEF At
  <2>3. CASE k = "todo"
    BY <1>4, <2>3, Zenon DEF At
  <2>4. CASE k \notin {"arg", "batch", "todo"}
    BY <2>4, Zenon DEF At
  <2> QED
    BY <2>1, <2>2, <2>3, <2>4, Zenon
<1>8. ASSUME NEW q \in Pages, NEW k, NEW a, NEW i, At(k, a, i, q), Gone(k, a)
      PROVE  q \in LostWith(m)
  <2>1. CASE k = "arg"
    BY <1>8, <2>1, Zenon DEF At, LostWith, ThreadsOf
  <2>2. CASE k = "batch"
    <3>1. a \in Nodes /\ a # NoNode /\ HeldBy(m, a) /\ i \in DOMAIN pas[a] /\ pas[a][i] = q
      BY <1>8, <2>2, NullsAssumption, Zenon DEF At
    <3>2. a \in {pending[m][o] : o \in Machines} \cup {batch[t] : t \in ThreadsOf(m)}
      BY <3>1, Zenon DEF HeldBy, ThreadsOf
    <3> QED
      BY <3>1, <3>2, Zenon DEF LostWith
  <2> QED
    BY <1>8, <2>1, <2>2, Zenon
<1>9. ASSUME NEW q \in Pages, q \in LostWith(m)
      PROVE  \E k, a, i : At(k, a, i, q) /\ Gone(k, a)
  <2>1. CASE \E t \in ThreadsOf(m) : arg[t] = q
    <3>1. PICK t \in Threads : MachineOf[t] = m /\ arg[t] = q
      BY <2>1, Zenon DEF ThreadsOf
    <3>2. At("arg", t, 0, q) /\ Gone("arg", t)
      BY <3>1, Zenon DEF At
    <3> QED
      BY <3>2, Zenon
  <2>2. CASE ~\E t \in ThreadsOf(m) : arg[t] = q
    <3>1. PICK n \in ({pending[m][o] : o \in Machines} \cup {batch[t] : t \in ThreadsOf(m)}) \ {NoNode} :
             \E i \in DOMAIN pas[n] : pas[n][i] = q
      BY <1>9, <2>2, Zenon DEF LostWith
    <3>2. HeldBy(m, n) /\ Used(n) /\ n \in Nodes
      BY <3>1 DEF HeldBy, Used, ThreadsOf, Typed, MaybeNode
    <3>3. PICK i \in DOMAIN pas[n] : pas[n][i] = q
      BY <3>1, Zenon
    <3>4. At("batch", n, i, q) /\ Gone("batch", n)
      BY <3>2, <3>3, Zenon DEF At
    <3> QED
      BY <3>4, Zenon
  <2> QED
    BY <2>1, <2>2, Zenon
<1> HIDE DEF Gone
<1>10. ASSUME NEW q \in Pages PROVE Right(q)'
  <2>1. CASE q \in LostWith(m)
    <3>1. PICK k, a, i : At(k, a, i, q) /\ Gone(k, a)
      BY <1>9, <2>1, Zenon
    <3>2. page'[q] # "queued"
      BY <1>6, <2>1, Zenon
    <3>3. ASSUME NEW j, NEW b, NEW d, At(j, b, d, q)' PROVE At(j, b, d, q) /\ ~(j = k /\ b = a /\ d = i)
      BY <1>7, <3>1, <3>3, Zenon
    <3> QED
      BY <3>1, <3>2, <3>3, RightEnds, Zenon DEF RightInv
  <2>2. CASE q \notin LostWith(m)
    <3>1. page'[q] = page[q]
      BY <1>6, <2>2, Zenon
    <3>2. ASSUME NEW k, NEW a, NEW i PROVE At(k, a, i, q)' <=> At(k, a, i, q)
      BY <1>7, <1>8, <2>2, Zenon
    <3> QED
      BY <3>1, <3>2, RightStays, Zenon DEF RightInv
  <2> QED
    BY <2>1, <2>2, Zenon
<1> QED
  BY <1>10, Zenon DEF RightInv

\* Nothing waits for a machine that boots.
LEMMA RightBoot ==
  ASSUME Typed, OwnersStay, SendsInv, RightInv, NEW m \in Machines, RemotePageFreeInit(m)
  PROVE  RightInv'
<1>1. /\ UNCHANGED <<next, pas, pending, arg, batch, cur, todo>> /\ ~ready[m]
      /\ head' = [head EXCEPT ![m] = Bumped(head[m], NoNode)]
  BY Zenon DEF RemotePageFreeInit
<1>2. m \in MayCrash /\ head[m].node = NoNode
  BY <1>1, Zenon DEF SendsInv
<1>3. \A a \in Machines : head'[a].node = head[a].node
  BY <1>1, <1>2, BumpedType DEF Typed, MaybeNode
<1>4. \A x : Chain(x)' = Chain(x)
  BY <1>1, ChainSame, Zenon
<1>5. \A n \in Nodes : Used(n)' <=> Used(n)
  BY <1>1, <1>3, <1>4, Zenon DEF Used
<1>6. \A q \in Pages : page'[q] = page[q]
  BY <1>2, Zenon DEF RemotePageFreeInit, OwnersStay
<1>7. \A q, k, a, i : At(k, a, i, q)' <=> At(k, a, i, q)
  BY <1>1, <1>5, AtSame, Zenon
<1>8. ASSUME NEW q \in Pages PROVE Right(q)'
  BY <1>6, <1>7, RightStays, Zenon DEF RightInv
<1> QED
  BY <1>8, Zenon DEF RightInv

LEMMA RightRealloc ==
  ASSUME Typed, RightInv, NEW p \in Pages, Realloc(p)
  PROVE  RightInv'
<1>1. /\ page[p] # "queued" /\ page' = [page EXCEPT ![p] = "used"]
      /\ UNCHANGED <<head, next, pas, pending, arg, batch, cur, todo>>
  BY Zenon DEF Realloc
<1>2. page'[p] # "queued" /\ \A q \in Pages : q # p => page'[q] = page[q]
  BY <1>1, Zenon DEF Typed
<1>3. \A q, k, a, i : At(k, a, i, q)' <=> At(k, a, i, q)
  BY <1>1, AtSame, UsedSame, Zenon
<1>4. ASSUME NEW q \in Pages PROVE Right(q)'
  <2>1. CASE q = p
    BY <1>1, <1>2, <1>3, <2>1, RightIdle, Zenon DEF RightInv
  <2>2. CASE q # p
    BY <1>2, <1>3, <2>2, RightStays, Zenon DEF RightInv
  <2> QED
    BY <2>1, <2>2, Zenon
<1> QED
  BY <1>4, Zenon DEF RightInv

LEMMA RightPushRead ==
  ASSUME Typed, Typed', Unique, StepInv, RightInv, NEW t \in Threads, PushRead(t)
  PROVE  RightInv'
<1>1. /\ pc[t] = "pushread" /\ StepOK(t)
      /\ next' = [next EXCEPT ![batch[t]] = head[own[t]].node]
      /\ UNCHANGED <<head, pas, pending, page, arg, batch, cur, todo>>
  BY Zenon DEF PushRead, StepInv
<1>2. PICK n \in Nodes : n = batch[t]
  BY <1>1, Zenon DEF StepOK
<1>3. \A x \in Nodes : x # n => next'[x] = next[x]
  BY <1>1, <1>2, Zenon DEF Typed
<1>4. \A x \in Nodes : Used(x)' <=> Used(x)
  BY <1>1, <1>2, <1>3, UsedLinked, Zenon
<1> QED
  BY <1>1, <1>4, RightFrame, Zenon

LEMMA RightPushCas ==
  ASSUME Typed, StepInv, RightInv, NEW t \in Threads, PushCas(t)
  PROVE  RightInv'
<1>1. /\ pc[t] = "pushcas" /\ StepOK(t) /\ UNCHANGED <<next, pas, pending, page, arg, cur, todo>>
  BY Zenon DEF PushCas, StepInv
<1>2. CASE head[own[t]] = snap[t]
  <2>1. /\ head' = [head EXCEPT ![own[t]] = Bumped(snap[t], batch[t])]
        /\ batch' = [batch EXCEPT ![t] = NoNode]
    BY <1>2, Zenon DEF PushCas
  <2>2. PICK n \in Nodes, m \in Machines, h \in Heads :
           n = batch[t] /\ m = own[t] /\ h = Bumped(snap[t], n) /\ h.node = n
    <3>1. batch[t] \in Nodes /\ own[t] \in Machines /\ snap[t] \in Heads
      BY <1>1, Zenon DEF StepOK, Typed
    <3>2. Bumped(snap[t], batch[t]) \in Heads /\ Bumped(snap[t], batch[t]).node = batch[t]
      BY <3>1, BumpedType, Zenon DEF MaybeNode
    <3> QED
      BY <3>1, <3>2, Zenon
  <2>3. next[n] = head[m].node
    BY <1>1, <1>2, <2>2, Zenon DEF StepOK
  <2>4. head' = [head EXCEPT ![m] = h]
    BY <2>1, <2>2, Zenon
  <2>5. \A x \in Nodes : Used(x)' <=> Used(x)
    <3>1. /\ n = batch[t] /\ h.node = n /\ batch' = [batch EXCEPT ![t] = NoNode]
          /\ UNCHANGED <<next, pending, cur>>
      BY <1>1, <2>1, <2>2, Zenon
    <3> QED
      BY <2>3, <2>4, <3>1, UsedPushed, Zenon
  <2> QED
    BY <1>1, <2>5, RightFrame, Zenon
<1>3. CASE head[own[t]] # snap[t]
  <2>1. UNCHANGED <<head, batch>>
    BY <1>3, Zenon DEF PushCas
  <2> QED
    BY <1>1, <2>1, RightFrame, UsedSame, Zenon
<1> QED
  BY <1>2, <1>3, Zenon

LEMMA RightFlushNext ==
  ASSUME Typed, LocalInv, RightInv, NEW t \in Threads, FlushNext(t)
  PROVE  RightInv'
<1>1. /\ pc[t] = "flush" /\ LocalOK(t) /\ MachineOf[t] \in Machines
      /\ UNCHANGED <<head, next, pas, page, arg, cur, todo>>
  BY ThreadsAssumption, Zenon DEF FlushNext, LocalInv
<1>2. ASSUME NEW o \in Machines, batch' = [batch EXCEPT ![t] = pending[MachineOf[t]][o]],
             pending' = [pending EXCEPT ![MachineOf[t]][o] = NoNode]
      PROVE  RightInv'
  <2>1. batch[t] = NoNode
    BY <1>1, Zenon DEF LocalOK
  <2>2. \A x \in Nodes : Used(x)' <=> Used(x)
    BY <1>1, <1>2, <2>1, UsedTaken, Zenon
  <2> QED
    BY <1>1, <2>2, RightFrame, Zenon
<1>3. CASE UNCHANGED <<batch, pending>>
  BY <1>1, <1>3, RightFrame, UsedSame, Zenon
<1> QED
  BY <1>2, <1>3, Zenon DEF FlushNext

\* The steps that move neither a page nor a batch.
LEMMA RightElse ==
  ASSUME RightInv, NEW t \in Threads,
         \/ Pushed(t) \/ FreeSpare(t) \/ FlushLock(t) \/ DrainStart(t) \/ PopRead(t) \/ DrainEnd(t)
         \/ Poll(t) \/ Flush(t) \/ DrainNow(t)
  PROVE  RightInv'
<1>1. UNCHANGED <<head, next, pas, pending, page, arg, batch, cur, todo>>
  <2>1. CASE Pushed(t) \/ FreeSpare(t) \/ FlushLock(t)
    BY <2>1, Zenon DEF Pushed, FreeSpare, FlushLock
  <2>2. CASE DrainStart(t) \/ PopRead(t) \/ DrainEnd(t)
    BY <2>2, Zenon DEF DrainStart, PopRead, DrainEnd
  <2>3. CASE Poll(t) \/ Flush(t) \/ DrainNow(t)
    BY <2>3, Zenon DEF Poll, Flush, DrainNow
  <2> QED
    BY <2>1, <2>2, <2>3, Zenon
<1> QED
  BY <1>1, RightFrame, UsedSame, Zenon

LEMMA RightStep ==
  ASSUME PInv, OwnersStay, Typed', [Next]_vars
  PROVE  RightInv'
<1>1. Typed /\ StepInv /\ Unique /\ Acyclic /\ UpInv /\ LocalInv /\ SendsInv /\ RightInv
  BY Zenon DEF PInv, NInv
<1>2. ASSUME NEW t \in Threads, Step(t) PROVE RightInv'
  <2>1. CASE PreCheck(t)
    BY <1>1, <2>1, RightPreCheck, Zenon
  <2>2. CASE Enqueue(t)
    BY <2>2, RightEnqueue, Zenon DEF PInv
  <2>3. CASE PushRead(t)
    BY <1>1, <2>3, RightPushRead, Zenon
  <2>4. CASE PushCas(t)
    BY <1>1, <2>4, RightPushCas, Zenon
  <2>5. CASE FlushNext(t)
    BY <1>1, <2>5, RightFlushNext, Zenon
  <2>6. CASE PopCas(t)
    BY <1>1, <2>6, RightPop, Zenon
  <2>7. CASE DrainPage(t)
    BY <1>1, <2>7, RightDrainPage, Zenon
  <2>8. CASE DrainBatch(t)
    BY <1>1, <2>8, RightDrainBatch, Zenon
  <2>9. CASE Pushed(t) \/ FreeSpare(t) \/ FlushLock(t) \/ DrainStart(t) \/ PopRead(t) \/ DrainEnd(t)
    BY <1>1, <2>9, RightElse, Zenon
  <2> QED
    BY <1>2, <2>1, <2>2, <2>3, <2>4, <2>5, <2>6, <2>7, <2>8, <2>9, Zenon DEF Step
<1>3. ASSUME NEW t \in Threads, Poll(t) \/ Flush(t) \/ DrainNow(t) PROVE RightInv'
  BY <1>1, <1>3, RightElse, Zenon
<1>4. ASSUME NEW t \in Threads, NEW p \in Pages, FreeMachinePage(t, p) PROVE RightInv'
  BY <1>1, <1>4, RightFree, Zenon
<1>5. ASSUME NEW p \in Pages, Realloc(p) PROVE RightInv'
  BY <1>1, <1>5, RightRealloc, Zenon
<1>6. ASSUME NEW m \in Machines, Crash(m) PROVE RightInv'
  BY <1>1, <1>6, RightCrash, Zenon
<1>7. ASSUME NEW m \in Machines, RemotePageFreeInit(m) PROVE RightInv'
  BY <1>1, <1>7, RightBoot, Zenon
<1>8. CASE UNCHANGED vars
  <2>1. UNCHANGED <<head, next, pas, pending, page, arg, batch, cur, todo>>
    BY <1>8, Zenon DEF vars
  <2> QED
    BY <1>1, <2>1, RightFrame, UsedSame, Zenon
<1>9. Next \/ UNCHANGED vars
  BY Zenon
<1>10. Next => RightInv'
  BY <1>2, <1>3, <1>4, <1>5, <1>6, <1>7, Zenon DEF Next
<1> QED
  BY <1>8, <1>9, <1>10, Zenon

-----------------------------------------------------------------------------
(* The invariant and what it says of WaitsOnce                             *)

LEMMA InitPages == Init => PInv
<1> SUFFICES ASSUME Init PROVE PInv
  BY Zenon
<1>1. NInv
  BY InitTyped, InitHolders, Zenon DEF NInv
<1>2. Typed
  BY <1>1, Zenon DEF NInv
<1>3. \A m \in Machines : head[m].node = NoNode /\ ready[m] /\ \A o \in Machines : pending[m][o] = NoNode
  BY EmptyHeadType, Zenon DEF Init
<1>4. \A t \in Threads : /\ pc[t] = "idle" /\ arg[t] = NoPage /\ batch[t] = NoNode
                         /\ cur[t] = NoNode /\ todo[t] = << >>
  BY Zenon DEF Init
<1>5. UpInv
  BY <1>3, ThreadsAssumption, Zenon DEF UpInv
<1>6. LocalInv
  <2>1. Len(<< >>) <= BatchMax
    BY SizesAssumption
  <2> QED
    BY <1>4, <2>1, Zenon DEF LocalInv, LocalOK
<1>7. SendsInv
  BY <1>3, <1>4, Zenon DEF SendsInv, SendsOK
<1>8. Chain(NoNode) = {}
  BY <1>2, ChainUnfolds, Zenon DEF Typed
<1>9. \A n \in Nodes : ~Used(n)
  BY <1>3, <1>4, <1>8, NullsAssumption, Zenon DEF Used
<1>10. ASSUME NEW p \in Pages, NEW k, NEW a, NEW i PROVE ~At(k, a, i, p)
  BY <1>4, <1>9, NullsAssumption DEF At
<1>11. \A p \in Pages : page[p] # "queued"
  BY Zenon DEF Init
<1>12. RightInv
  BY <1>10, <1>11, Zenon DEF RightInv, Right
<1> QED
  BY <1>1, <1>5, <1>6, <1>7, <1>12, Zenon DEF PInv

LEMMA PagesInvariant ==
  ASSUME OwnersStay
  PROVE  Spec => []PInv
<1>1. PInv /\ [Next]_vars => PInv'
  <2> SUFFICES ASSUME PInv, [Next]_vars PROVE PInv'
    BY Zenon
  <2>1. NInv /\ UpInv /\ LocalInv /\ SendsInv /\ Typed /\ StepInv /\ BootInv /\ RoomInv
    BY Zenon DEF PInv, NInv
  <2>2. Typed'
    BY <2>1, TypedStep, Zenon
  <2>3. NInv'
    BY <2>1, <2>2, HoldersStep, StepInvStep, BootStep, RoomStep, Zenon DEF NInv
  <2>4. UpInv'
    BY <2>1, UpStep, Zenon
  <2>5. LocalInv' /\ SendsInv'
    BY <2>1, <2>2, LocalStep, Zenon
  <2>6. RightInv'
    BY <2>2, RightStep, Zenon
  <2> QED
    BY <2>3, <2>4, <2>5, <2>6, Zenon DEF PInv
<1> QED
  BY <1>1, InitPages, PTL DEF Spec

\* A place where a page waits is an element of Waits.
LEMMA WaitsNamed ==
  ASSUME Typed, LocalInv, NEW p \in Pages
  PROVE  Waits(p) = {x \in ({"arg"} \X Threads) \cup ({"batch"} \X Nodes \X Nat) \cup ({"todo"} \X Threads \X Nat) :
                        \E k, a, i : At(k, a, i, p) /\ x = IF k = "arg" THEN <<k, a>> ELSE <<k, a, i>>}
<1>0. \A x : x \in InUse <=> x # NoNode /\ Used(x)
  <2> SUFFICES ASSUME NEW x PROVE x \in InUse <=> x # NoNode /\ Used(x)
    BY Zenon
  <2> DEFINE P == {{pending[m][o] : o \in Machines} : m \in Machines}
             B == {{batch[t]} : t \in Threads}
             S == {Chain(head[m].node) : m \in Machines}
             D == {Chain(next[cur[t]]) : t \in {u \in Threads : cur[u] # NoNode}}
  <2>1. x \in UNION P <=> \E m, o \in Machines : pending[m][o] = x
    OBVIOUS
  <2>2. x \in UNION B <=> \E t \in Threads : batch[t] = x
    BY Zenon
  <2>3. x \in UNION S <=> \E m \in Machines : x \in Chain(head[m].node)
    BY Zenon
  <2>4. x \in UNION D <=> \E t \in Threads : cur[t] # NoNode /\ x \in Chain(next[cur[t]])
    BY Zenon
  <2>5. InUse = (UNION (P \cup B \cup S \cup D)) \ {NoNode}
    BY Zenon DEF InUse
  <2> HIDE DEF P, B, S, D
  <2>6. PICK R : R = UNION (P \cup B \cup S \cup D)
    BY Zenon
  <2>7. InUse = R \ {NoNode}
    BY <2>5, <2>6, Zenon
  <2>8. x \in InUse <=> x # NoNode /\ x \in R
    BY <2>7, Zenon
  <2>9. x \in R
        <=> x \in UNION P \/ x \in UNION B \/ x \in UNION S \/ x \in UNION D
    BY <2>6, Zenon
  <2> QED
    BY <2>1, <2>2, <2>3, <2>4, <2>8, <2>9, Zenon DEF Used
<1>1. \A n \in Nodes : n \in InUse <=> Used(n)
  BY <1>0, NullsAssumption, Zenon
<1>2. InUse \subseteq Nodes
  <2>1. \A x : Chain(x) \subseteq Nodes
    BY Zenon DEF Chain
  <2>2. ASSUME NEW x, Used(x), x # NoNode PROVE x \in Nodes
    BY <2>1, <2>2 DEF Used, Typed, MaybeNode
  <2> QED
    BY <1>0, <2>2, Zenon
<1>3. \A n \in Nodes : DOMAIN pas[n] \subseteq 1 .. BatchMax
  <2> SUFFICES ASSUME NEW n \in Nodes PROVE DOMAIN pas[n] \subseteq 1 .. BatchMax
    BY Zenon
  <2>1. pas[n] \in Seq(Pages) /\ Len(pas[n]) <= BatchMax
    BY Zenon DEF Typed
  <2> QED
    BY <2>1, SizesAssumption
<1>4. \A t \in Threads : DOMAIN todo[t] \subseteq 1 .. BatchMax
  <2> SUFFICES ASSUME NEW t \in Threads PROVE DOMAIN todo[t] \subseteq 1 .. BatchMax
    BY Zenon
  <2>1. todo[t] \in Seq(Pages) /\ Len(todo[t]) <= BatchMax
    BY Zenon DEF Typed, LocalInv, LocalOK
  <2> QED
    BY <2>1, SizesAssumption
<1>5. 1 .. BatchMax \subseteq Nat
  BY SizesAssumption
<1> QED
  BY <1>1, <1>2, <1>3, <1>4, <1>5 DEF Waits, At

\* Every page that free_machine_page gives back to a machine that stays up
\* waits in exactly one place until the owner's kfree, and a page in use or
\* free waits in none: for every number of machines, threads, pages, nodes and
\* failures of the machines that give pages back, no page is lost in a batch
\* or freed twice.
THEOREM PagesWaitOnce ==
  ASSUME OwnersStay
  PROVE  Spec => []WaitsOnce
<1>1. PInv => WaitsOnce
  <2> SUFFICES ASSUME PInv, NEW p \in Pages
               PROVE  Cardinality(Waits(p)) = IF page[p] = "queued" THEN 1 ELSE 0
    BY Zenon DEF WaitsOnce
  <2> DEFINE Name(k, a, i) == IF k = "arg" THEN <<k, a>> ELSE <<k, a, i>>
             Names == ({"arg"} \X Threads) \cup ({"batch"} \X Nodes \X Nat) \cup ({"todo"} \X Threads \X Nat)
  <2>1. Typed /\ LocalInv /\ Right(p)
    BY Zenon DEF PInv, NInv, RightInv
  <2>2. Waits(p) = {x \in Names : \E k, a, i : At(k, a, i, p) /\ x = Name(k, a, i)}
    BY <2>1, WaitsNamed, Zenon
  <2>3. ASSUME NEW k, NEW a, NEW i, At(k, a, i, p) PROVE Name(k, a, i) \in Names
    <3>1. CASE k = "arg"
      BY <2>3, <3>1, Zenon DEF At
    <3>2. CASE k = "batch"
      <4>1. a \in Nodes /\ i \in DOMAIN pas[a] /\ pas[a] \in Seq(Pages)
        BY <2>1, <2>3, <3>2, Zenon DEF At, Typed
      <4>2. i \in Nat
        BY <4>1
      <4> QED
        BY <3>2, <4>1, <4>2, Zenon
    <3>3. CASE k = "todo"
      <4>1. a \in Threads /\ i \in DOMAIN todo[a] /\ todo[a] \in Seq(Pages)
        BY <2>1, <2>3, <3>3, Zenon DEF At, Typed
      <4>2. i \in Nat
        BY <4>1
      <4> QED
        BY <3>3, <4>1, <4>2, Zenon
    <3> QED
      BY <2>3, <3>1, <3>2, <3>3, Zenon DEF At
  <2> HIDE DEF Name, Names
  <2>4. CASE page[p] = "queued"
    <3>1. PICK k, a, i : \A j, b, d : At(j, b, d, p) <=> (j = k /\ b = a /\ d = i)
      BY <2>1, <2>4, Zenon DEF Right
    <3>2. At(k, a, i, p)
      BY <3>1, Zenon
    <3>3. Waits(p) = {Name(k, a, i)}
      BY <2>2, <2>3, <3>1, <3>2
    <3> QED
      BY <2>4, <3>3, FS_Singleton, Zenon
  <2>5. CASE page[p] # "queued"
    <3>1. \A k, a, i : ~At(k, a, i, p)
      BY <2>1, <2>5, Zenon DEF Right
    <3>2. Waits(p) = {}
      BY <2>2, <3>1, Zenon
    <3> QED
      BY <2>5, <3>2, FS_EmptySet, Zenon
  <2> QED
    BY <2>4, <2>5, Zenon
<1> QED
  BY <1>1, PagesInvariant, PTL
=============================================================================
