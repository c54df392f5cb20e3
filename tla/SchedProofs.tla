---------------------------- MODULE SchedProofs -----------------------------
(***************************************************************************)
(* What holds of the scheduler for any number of machines, CPUs and        *)
(* threads: types, one place for a thread, no BUG_ON, and, by a further    *)
(* invariant, threads that run on the machine that owns them.  First what  *)
(* it means that a thread is queued once, and that each of the operations  *)
(* on the queues keeps it.                                                 *)
(***************************************************************************)
EXTENDS Sched, SequenceTheorems, TLAPS


Elems(q) == {q[i] : i \in DOMAIN q}
Simple(q) == \A i, j \in DOMAIN q : q[i] = q[j] => i = j

\* Ready queues R and shared queues S in which no thread is queued twice.
QueuedOnce(R, S) ==
  /\ R \in [CPUs -> Seq(Threads)] /\ S \in [CPUs -> Seq(Threads)]
  /\ \A c \in CPUs : Simple(R[c]) /\ Simple(S[c])
  /\ \A c, d \in CPUs : c # d => Elems(R[c]) \cap Elems(R[d]) = {}
                               /\ Elems(S[c]) \cap Elems(S[d]) = {}
  /\ \A c, d \in CPUs : Elems(R[c]) \cap Elems(S[d]) = {}

Queued(R, S) == {t \in Threads : \E c \in CPUs : t \in Elems(R[c]) \cup Elems(S[c])}

-----------------------------------------------------------------------------
(* One queue                                                               *)

\* Append, the tail end of __rr_sched_enqueue and thread_dq_enqueue.
LEMMA ElemsAppend ==
  ASSUME NEW q \in Seq(Threads), NEW t \in Threads
  PROVE  /\ Append(q, t) \in Seq(Threads)
         /\ Elems(Append(q, t)) = Elems(q) \cup {t}
         /\ Simple(q) /\ t \notin Elems(q) => Simple(Append(q, t))
<1>1. /\ Append(q, t) \in Seq(Threads)
      /\ DOMAIN q = 1 .. Len(q) /\ DOMAIN Append(q, t) = 1 .. Len(q) + 1 /\ Len(q) \in Nat
      /\ \A i \in 1 .. Len(q) : Append(q, t)[i] = q[i]
      /\ Append(q, t)[Len(q) + 1] = t
  OBVIOUS
<1>. QED  BY <1>1 DEF Elems, Simple

\* A thread put in front, the urgent drain.
LEMMA ElemsPrepend ==
  ASSUME NEW q \in Seq(Threads), NEW t \in Threads
  PROVE  /\ <<t>> \o q \in Seq(Threads)
         /\ Elems(<<t>> \o q) = Elems(q) \cup {t}
         /\ Simple(q) /\ t \notin Elems(q) => Simple(<<t>> \o q)
<1>. DEFINE r == <<t>> \o q
<1>1. /\ r \in Seq(Threads)
      /\ DOMAIN q = 1 .. Len(q) /\ DOMAIN r = 1 .. Len(q) + 1 /\ Len(q) \in Nat
      /\ \A i \in 1 .. Len(q) : r[i + 1] = q[i]
      /\ r[1] = t
  OBVIOUS
<1>2. \A i \in 1 .. Len(q) + 1 : i # 1 => i - 1 \in 1 .. Len(q) /\ r[i] = q[i - 1]
  BY <1>1
<1>. HIDE DEF r
<1>3. Elems(r) = Elems(q) \cup {t}
  <2>1. \A i \in DOMAIN r : r[i] \in Elems(q) \cup {t}
    BY <1>1, <1>2, Zenon DEF Elems
  <2>2. ASSUME NEW i \in DOMAIN q  PROVE i + 1 \in DOMAIN r /\ r[i + 1] = q[i]
    BY <1>1
  <2>3. 1 \in DOMAIN r /\ r[1] = t
    BY <1>1
  <2>4. Elems(q) \subseteq Elems(r)
    BY <2>2, Zenon DEF Elems
  <2>5. t \in Elems(r)
    BY <2>3, Zenon DEF Elems
  <2>. QED  BY <2>1, <2>4, <2>5, Zenon DEF Elems
<1>4. ASSUME Simple(q), t \notin Elems(q)  PROVE Simple(r)
  <2>1. SUFFICES ASSUME NEW i \in DOMAIN r, NEW j \in DOMAIN r, r[i] = r[j]  PROVE i = j
    BY Zenon DEF Simple
  <2>2. \A k \in DOMAIN r : k # 1 => r[k] \in Elems(q)
    BY <1>1, <1>2, Zenon DEF Elems
  <2>3. CASE i = 1 \/ j = 1
    BY <1>1, <1>4, <2>1, <2>2, <2>3, Zenon
  <2>4. CASE i # 1 /\ j # 1
    <3>1. i - 1 \in DOMAIN q /\ j - 1 \in DOMAIN q /\ q[i - 1] = q[j - 1] /\ i \in Nat /\ j \in Nat
      BY <1>1, <1>2, <2>1, <2>4
    <3>2. i - 1 = j - 1
      BY <1>4, <3>1, Zenon DEF Simple
    <3>. QED  BY <3>1, <3>2
  <2>. QED  BY <2>3, <2>4, Zenon
<1>. QED  BY <1>1, <1>3, <1>4, Zenon DEF r

\* What is left of a queue without its i-th entry.
Without(q, i) == SubSeq(q, 1, i - 1) \o SubSeq(q, i + 1, Len(q))

LEMMA WithoutType ==
  ASSUME NEW q \in Seq(Threads), NEW i \in DOMAIN q
  PROVE  Without(q, i) \in Seq(Threads)
<1>1. DOMAIN q = 1 .. Len(q) /\ Len(q) \in Nat /\ i \in 1 .. Len(q)
  OBVIOUS
<1>2. SubSeq(q, 1, i - 1) \in Seq(Threads)
  BY <1>1
<1>3. SubSeq(q, i + 1, Len(q)) \in Seq(Threads)
  BY <1>1
<1>. QED  BY <1>2, <1>3 DEF Without

LEMMA ElemsWithout ==
  ASSUME NEW q \in Seq(Threads), NEW i \in DOMAIN q, Simple(q)
  PROVE  /\ Without(q, i) \in Seq(Threads)
         /\ Elems(Without(q, i)) = Elems(q) \ {q[i]}
         /\ Simple(Without(q, i))
<1>. DEFINE a == SubSeq(q, 1, i - 1)
            b == SubSeq(q, i + 1, Len(q))
            r == a \o b
<1>1. DOMAIN q = 1 .. Len(q) /\ Len(q) \in Nat /\ i \in 1 .. Len(q)
  OBVIOUS
<1>2. /\ a \in Seq(Threads) /\ Len(a) = i - 1
      /\ \A k \in 1 .. i - 1 : a[k] = q[k]
  BY <1>1
<1>3. /\ b \in Seq(Threads) /\ Len(b) = Len(q) - i
      /\ \A k \in 1 .. Len(q) - i : b[k] = q[k + i]
  BY <1>1
<1>. HIDE DEF a, b
<1>4. /\ r \in Seq(Threads) /\ DOMAIN r = 1 .. Len(q) - 1
      /\ \A k \in 1 .. i - 1 : r[k] = q[k]
      /\ \A k \in i .. Len(q) - 1 : r[k] = q[k + 1]
  <2>1. r \in Seq(Threads) /\ Len(r) = Len(q) - 1 /\ DOMAIN r = 1 .. Len(q) - 1
    <3>1. r \in Seq(Threads)
      BY <1>2, <1>3
    <3>2. Len(r) = Len(a) + Len(b)
      BY <1>2, <1>3, ConcatProperties, Zenon
    <3>. HIDE DEF r
    <3>3. DOMAIN r = 1 .. Len(r)
      BY <3>1
    <3>. QED  BY <1>1, <1>2, <1>3, <3>1, <3>2, <3>3
  <2>2. \A k \in 1 .. i - 1 : r[k] = q[k]
    BY <1>1, <1>2, <1>3
  <2>3. ASSUME NEW k \in i .. Len(q) - 1  PROVE r[k] = q[k + 1]
    <3>1. k - Len(a) \in 1 .. Len(b) /\ r[k] = b[k - Len(a)]
      BY <1>1, <1>2, <1>3
    <3>. QED  BY <1>1, <1>2, <1>3, <3>1
  <2>. QED  BY <2>1, <2>2, <2>3, Zenon
<1>. HIDE DEF r
<1>5. Simple(r)
  <2>1. SUFFICES ASSUME NEW k \in DOMAIN r, NEW l \in DOMAIN r, r[k] = r[l]  PROVE k = l
    BY Zenon DEF Simple
  <2>. DEFINE at(m) == IF m < i THEN m ELSE m + 1
  <2>2. at(k) \in DOMAIN q /\ at(l) \in DOMAIN q /\ q[at(k)] = q[at(l)]
    BY <1>1, <1>4, <2>1
  <2>3. at(k) = at(l)
    <3>. HIDE DEF at
    <3>. QED  BY <2>2, Zenon DEF Simple
  <2>. QED  BY <1>1, <1>4, <2>3
<1>6. Elems(r) = Elems(q) \ {q[i]}
  <2>1. ASSUME NEW k \in DOMAIN r  PROVE r[k] \in Elems(q) \ {q[i]}
    BY <1>1, <1>4 DEF Simple, Elems
  <2>2. ASSUME NEW k \in DOMAIN q, q[k] # q[i]  PROVE q[k] \in Elems(r)
    <3>1. CASE k < i
      BY <1>1, <1>4, <3>1 DEF Elems
    <3>2. CASE k > i
      <4>1. k - 1 \in DOMAIN r /\ r[k - 1] = q[k]
        BY <1>1, <1>4, <3>2
      <4>. QED  BY <4>1, Zenon DEF Elems
    <3>. QED  BY <1>1, <2>2, <3>1, <3>2
  <2>. QED  BY <2>1, <2>2, Zenon DEF Elems
<1>. QED  BY <1>4, <1>5, <1>6, Zenon DEF Without, r, a, b

\* The two drains take the first and the last entry.
LEMMA EndsAreEntries ==
  ASSUME NEW q \in Seq(Threads), q # <<>>
  PROVE  /\ 1 \in DOMAIN q /\ Head(q) = q[1] /\ Tail(q) = Without(q, 1)
         /\ Len(q) \in DOMAIN q /\ SubSeq(q, 1, Len(q) - 1) = Without(q, Len(q))
<1>1. Len(q) \in Nat \ {0} /\ DOMAIN q = 1 .. Len(q)
  OBVIOUS
<1>2. Head(q) = q[1]
  OBVIOUS
<1>3. Tail(q) = Without(q, 1)
  <2>1. SubSeq(q, 1, 0) = <<>>
    OBVIOUS
  <2>2. SubSeq(q, 2, Len(q)) = Tail(q)
    BY <1>1
  <2>3. <<>> \o Tail(q) = Tail(q)
    OBVIOUS
  <2>. QED  BY <2>1, <2>2, <2>3 DEF Without
<1>4. SubSeq(q, 1, Len(q) - 1) = Without(q, Len(q))
  <2>1. SubSeq(q, Len(q) + 1, Len(q)) = <<>>
    BY <1>1
  <2>2. SubSeq(q, 1, Len(q) - 1) \o <<>> = SubSeq(q, 1, Len(q) - 1)
    BY <1>1
  <2>. QED  BY <2>1, <2>2, Zenon DEF Without
<1>. QED  BY <1>1, <1>2, <1>3, <1>4

-----------------------------------------------------------------------------
(* All the queues                                                          *)

\* N is Q with thread t put into, or taken out of, queue g.
Gains(N, Q, g, t) ==
  /\ N \in [CPUs -> Seq(Threads)] /\ Simple(N[g]) /\ Elems(N[g]) = Elems(Q[g]) \cup {t}
  /\ \A c \in CPUs \ {g} : N[c] = Q[c]
Loses(N, Q, g, t) ==
  /\ N \in [CPUs -> Seq(Threads)] /\ Simple(N[g]) /\ Elems(N[g]) = Elems(Q[g]) \ {t}
  /\ \A c \in CPUs \ {g} : N[c] = Q[c]
  /\ t \in Elems(Q[g])

LEMMA AppendGains ==
  ASSUME NEW Q \in [CPUs -> Seq(Threads)], NEW g \in CPUs, NEW t \in Threads,
         Simple(Q[g]), t \notin Elems(Q[g])
  PROVE  Gains([Q EXCEPT ![g] = Append(@, t)], Q, g, t)
<1>. DEFINE q == Append(Q[g], t)
<1>1. q \in Seq(Threads) /\ Simple(q) /\ Elems(q) = Elems(Q[g]) \cup {t}
  BY ElemsAppend, Zenon
<1>. HIDE DEF q
<1>2. Gains([Q EXCEPT ![g] = q], Q, g, t)
  BY <1>1, Zenon DEF Gains
<1>. QED  BY <1>2, Zenon DEF q

LEMMA PrependGains ==
  ASSUME NEW Q \in [CPUs -> Seq(Threads)], NEW g \in CPUs, NEW t \in Threads,
         Simple(Q[g]), t \notin Elems(Q[g])
  PROVE  Gains([Q EXCEPT ![g] = <<t>> \o @], Q, g, t)
<1>. DEFINE q == <<t>> \o Q[g]
<1>1. q \in Seq(Threads) /\ Simple(q) /\ Elems(q) = Elems(Q[g]) \cup {t}
  BY ElemsPrepend, Zenon
<1>. HIDE DEF q
<1>2. Gains([Q EXCEPT ![g] = q], Q, g, t)
  BY <1>1, Zenon DEF Gains
<1>. QED  BY <1>2, Zenon DEF q

LEMMA WithoutLoses ==
  ASSUME NEW Q \in [CPUs -> Seq(Threads)], NEW g \in CPUs, Simple(Q[g]), NEW i \in DOMAIN Q[g]
  PROVE  Loses([Q EXCEPT ![g] = Without(@, i)], Q, g, Q[g][i])
<1>. DEFINE q == Without(Q[g], i)
<1>1. q \in Seq(Threads) /\ Simple(q) /\ Elems(q) = Elems(Q[g]) \ {Q[g][i]}
  BY ElemsWithout, Zenon
<1>2. Q[g][i] \in Elems(Q[g])
  BY Zenon DEF Elems
<1>. HIDE DEF q
<1>3. Loses([Q EXCEPT ![g] = q], Q, g, Q[g][i])
  BY <1>1, <1>2, Zenon DEF Loses
<1>. QED  BY <1>3, Zenon DEF q

\* A thread that is in no queue is put into one ready queue.
LEMMA AddReady ==
  ASSUME NEW R, NEW S, NEW N, NEW g \in CPUs, NEW t \in Threads,
         QueuedOnce(R, S), t \notin Queued(R, S), Gains(N, R, g, t)
  PROVE  QueuedOnce(N, S) /\ Queued(N, S) = Queued(R, S) \cup {t}
<1>1. \A c \in CPUs : t \notin Elems(R[c]) /\ t \notin Elems(S[c])
  BY Zenon DEF Queued
<1>2. \A c \in CPUs : Elems(N[c]) = Elems(R[c]) \cup (IF c = g THEN {t} ELSE {})
  BY DEF Gains
<1>3. QueuedOnce(N, S)
  <2>1. \A c \in CPUs : Simple(N[c]) /\ Simple(S[c])
    BY Zenon DEF QueuedOnce, Gains
  <2>2. ASSUME NEW c \in CPUs, NEW d \in CPUs, c # d
        PROVE  Elems(N[c]) \cap Elems(N[d]) = {} /\ Elems(S[c]) \cap Elems(S[d]) = {}
    <3>1. Elems(R[c]) \cap Elems(R[d]) = {} /\ Elems(S[c]) \cap Elems(S[d]) = {}
      BY <2>2, Zenon DEF QueuedOnce
    <3>. QED  BY <1>1, <1>2, <2>2, <3>1
  <2>3. \A c, d \in CPUs : Elems(N[c]) \cap Elems(S[d]) = {}
    BY <1>1, <1>2 DEF QueuedOnce
  <2>. QED  BY <2>1, <2>2, <2>3, Zenon DEF QueuedOnce, Gains
<1>4. Queued(N, S) = Queued(R, S) \cup {t}
  BY <1>2, Zenon DEF Queued
<1>. QED  BY <1>3, <1>4, Zenon

\* A thread is taken out of a ready queue.
LEMMA TakeReady ==
  ASSUME NEW R, NEW S, NEW N, NEW g \in CPUs, NEW t, QueuedOnce(R, S), Loses(N, R, g, t)
  PROVE  QueuedOnce(N, S) /\ Queued(N, S) = Queued(R, S) \ {t} /\ t \in Queued(R, S)
<1>1. R[g] \in Seq(Threads) /\ t \in Elems(R[g])
  BY Zenon DEF QueuedOnce, Loses
<1>2. t \in Threads
  BY <1>1 DEF Elems
<1>3. \A c \in CPUs : Elems(N[c]) = Elems(R[c]) \ {t}
  BY <1>1, Zenon DEF QueuedOnce, Loses
<1>4. QueuedOnce(N, S)
  <2>1. \A c \in CPUs : Simple(N[c]) /\ Simple(S[c])
    BY Zenon DEF QueuedOnce, Loses
  <2>. QED  BY <1>3, <2>1, Zenon DEF QueuedOnce, Loses
<1>5. Queued(N, S) = Queued(R, S) \ {t}
  BY <1>1, <1>3 DEF Queued, QueuedOnce
<1>6. t \in Queued(R, S)
  BY <1>1, <1>2, Zenon DEF Queued
<1>. QED  BY <1>4, <1>5, <1>6, Zenon

\* The same for a shared queue: QueuedOnce and Queued do not tell R and S apart.
LEMMA QueuesSwap ==
  ASSUME NEW R, NEW S
  PROVE  QueuedOnce(R, S) = QueuedOnce(S, R) /\ Queued(R, S) = Queued(S, R)
<1>1. QueuedOnce(R, S) => QueuedOnce(S, R)
  BY Zenon DEF QueuedOnce
<1>2. QueuedOnce(S, R) => QueuedOnce(R, S)
  BY Zenon DEF QueuedOnce
<1>3. Queued(R, S) = Queued(S, R)
  BY Zenon DEF Queued
<1>4. QueuedOnce(R, S) \in BOOLEAN /\ QueuedOnce(S, R) \in BOOLEAN
  BY Zenon DEF QueuedOnce
<1>. QED  BY <1>1, <1>2, <1>3, <1>4, Zenon

LEMMA AddShared ==
  ASSUME NEW R, NEW S, NEW N, NEW g \in CPUs, NEW t \in Threads,
         QueuedOnce(R, S), t \notin Queued(R, S), Gains(N, S, g, t)
  PROVE  QueuedOnce(R, N) /\ Queued(R, N) = Queued(R, S) \cup {t}
<1>1. QueuedOnce(S, R) /\ t \notin Queued(S, R)
  BY QueuesSwap, Zenon
<1>2. QueuedOnce(N, R) /\ Queued(N, R) = Queued(S, R) \cup {t}
  BY <1>1, AddReady
<1>. QED  BY <1>2, QueuesSwap, Zenon

LEMMA TakeShared ==
  ASSUME NEW R, NEW S, NEW N, NEW g \in CPUs, NEW t, QueuedOnce(R, S), Loses(N, S, g, t)
  PROVE  QueuedOnce(R, N) /\ Queued(R, N) = Queued(R, S) \ {t} /\ t \in Queued(R, S)
<1>1. QueuedOnce(S, R)
  BY QueuesSwap, Zenon
<1>2. QueuedOnce(N, R) /\ Queued(N, R) = Queued(S, R) \ {t} /\ t \in Queued(S, R)
  BY <1>1, TakeReady, Zenon
<1>. QED  BY <1>2, QueuesSwap, Zenon

-----------------------------------------------------------------------------
(* Types                                                                   *)

LEMMA CpuPairs ==
  /\ \A c \in CPUs : c[1] \in Machines /\ c[2] \in 0 .. PlatCpuNum - 1 /\ c = <<c[1], c[2]>>
  /\ \A m \in Machines, l \in 0 .. PlatCpuNum - 1 :
       <<m, l>> \in CPUs /\ <<m, l>>[1] = m /\ <<m, l>>[2] = l
BY DEF CPUs

Idents == Threads \cup {Idle}
Places == CPUs \cup {NoAff}
Locals == (0 .. PlatCpuNum - 1) \cup {NoCpu}
PcLabels == {"user", "sched", "urgent", "pick", "switch", "eret", "bug"}
States == {"INIT", "READY", "RUNNING", "WAITING", "TO_SCHED", "EXIT"}
Exits == {"RUNNING", "EXITING", "EXITED", "MIGRATING"}

\* The parts of TypeOK, by the operations that change them.
CpuTypes ==
  /\ pc \in [CPUs -> PcLabels]
  /\ current \in [CPUs -> Idents] /\ chosen \in [CPUs -> Idents] /\ prev \in [CPUs -> Idents]
QueueTypes ==
  /\ ready \in [CPUs -> Seq(Threads)] /\ shared \in [CPUs -> Seq(Threads)]
  /\ state \in [Threads -> States] /\ cpuid \in [Threads -> CPUs] /\ exit \in [Threads -> Exits]
FpuTypes ==
  /\ fpuOwner \in [CPUs -> Idents] /\ ownedFpu \in [Threads -> Locals]
  /\ fpuSaved \in [Threads -> BOOLEAN]
OtherTypes ==
  /\ kstack \in [Threads -> {"FREE", "LOCKED"}] /\ affinity \in [Threads -> Places]
  /\ machine \in [Threads -> Machines] /\ waiting \subseteq Threads

LEMMA TypeParts == TypeOK <=> CpuTypes /\ QueueTypes /\ FpuTypes /\ OtherTypes
BY Zenon DEF TypeOK, CpuTypes, QueueTypes, FpuTypes, OtherTypes, Idents, Places, Locals, PcLabels,
       States, Exits

LEMMA TypePartsNext == CpuTypes' /\ QueueTypes' /\ FpuTypes' /\ OtherTypes' => TypeOK'
BY Zenon DEF TypeOK, CpuTypes, QueueTypes, FpuTypes, OtherTypes, Idents, Places, Locals, PcLabels,
       States, Exits

LEMMA BindType ==
  ASSUME TypeOK, NEW c \in CPUs, NEW t \in Threads
  PROVE  /\ CpuBind(c, t) \in CPUs \cup {NoAff}
         /\ ~IsLocal(c, CpuBind(c, t)) => CpuBind(c, t) = affinity[t]
         /\ CpuBind(c, t) = NoAff => affinity[t] = NoAff
         /\ ownedFpu[t] = NoCpu => CpuBind(c, t) = affinity[t]
<1>1. affinity[t] \in CPUs \cup {NoAff} /\ ownedFpu[t] \in (0 .. PlatCpuNum - 1) \cup {NoCpu}
  BY Zenon DEF TypeOK
<1>2. CASE ~IsLocal(c, affinity[t]) \/ ownedFpu[t] = NoCpu \/ GivesFpuUp(c, t)
  BY <1>1, <1>2, Zenon DEF CpuBind
<1>3. CASE ~(~IsLocal(c, affinity[t]) \/ ownedFpu[t] = NoCpu \/ GivesFpuUp(c, t))
  <2>1. CpuBind(c, t) = <<c[1], ownedFpu[t]>> /\ <<c[1], ownedFpu[t]>> \in CPUs
        /\ <<c[1], ownedFpu[t]>>[1] = c[1]
    BY <1>1, <1>3, CpuPairs, Zenon DEF CpuBind
  <2>. QED  BY <1>3, <2>1, NamesAssumption, Zenon DEF IsLocal
<1>. QED  BY <1>2, <1>3, Zenon

LEMMA FpuStep ==
  ASSUME TypeOK, NEW c \in CPUs, NEW t \in Threads,
         Bind(c, t) \/ SaveAndReleaseFpu(c, t) \/ UNCHANGED fpuVars
  PROVE  FpuTypes'
<1>1. CASE UNCHANGED fpuVars
  BY <1>1, TypeParts, Zenon DEF FpuTypes, fpuVars
<1>2. CASE SaveAndReleaseFpu(c, t)
  BY <1>1, <1>2, TypeParts, Zenon DEF FpuTypes, SaveAndReleaseFpu, fpuVars, Idents, Locals
<1>. QED  BY <1>1, <1>2, Zenon DEF Bind

\* What rr_sched_enqueue and rr_sched_enqueue_to_affinity do to the queues.
PutsReady(t, g) == ready' = [ready EXCEPT ![g] = Append(ready[g], t)] /\ shared' = shared
PutsShared(t, g) == shared' = [shared EXCEPT ![g] = Append(shared[g], t)] /\ ready' = ready

Puts(c, t) ==
  /\ \E st \in {"READY", "TO_SCHED"} : state' = [state EXCEPT ![t] = st]
  /\ \/ /\ exit[t] = "EXITING" /\ exit' = [exit EXCEPT ![t] = "EXITED"]
        /\ ready' = ready /\ shared' = shared
     \/ /\ exit[t] # "EXITING" /\ exit' = exit
        /\ \E g \in CPUs : \/ PutsReady(t, g) /\ IsLocal(c, g)
                           \/ /\ PutsShared(t, g) /\ IsLocal(g, affinity[t])
                              /\ affinity[t] = NoAff => g[1] = machine[t]

LEMMA EnqueuePuts ==
  ASSUME TypeOK, NEW c \in CPUs, NEW t \in Threads, Enqueue(c, t)
  PROVE  Puts(c, t) /\ cpuid' \in [Threads -> CPUs] /\ FpuTypes'
<1>1. CASE exit[t] = "EXITING"
  BY <1>1, FpuStep, Zenon DEF Enqueue, Puts, queues, TypeOK
<1>2. CASE exit[t] # "EXITING"
  <2>. DEFINE bind == CpuBind(c, t)
  <2>1. PICK g \in (IF bind = NoAff THEN ChooseCpu(c) ELSE {bind}) :
          IF IsLocal(c, g) THEN PutReady(t, g) ELSE PutShared(t, g, "TO_SCHED")
    BY <1>2, Zenon DEF Enqueue
  <2>2. exit' = exit /\ Bind(c, t)
    BY <1>2, Zenon DEF Enqueue
  <2>3. g \in CPUs /\ (~IsLocal(c, g) => g = affinity[t])
    <3>1. CASE bind = NoAff
      <4>1. ChooseCpu(c) \subseteq {d \in CPUs : IsLocal(c, d)}
        BY CpuPairs, NamesAssumption DEF ChooseCpu, IsLocal
      <4>. QED  BY <2>1, <3>1, <4>1, Zenon
    <3>2. CASE bind # NoAff
      BY <2>1, <3>2, BindType, Zenon
    <3>. QED  BY <3>1, <3>2, Zenon
  <2>4. CASE IsLocal(c, g)
    <3>1. PutReady(t, g)
      BY <2>1, <2>4, Zenon
    <3>2. PutsReady(t, g) /\ state' = [state EXCEPT ![t] = "READY"] /\ cpuid' \in [Threads -> CPUs]
      BY <2>3, <3>1, Zenon DEF PutReady, PutsReady, TypeOK
    <3>. QED  BY <1>2, <2>2, <2>3, <2>4, <3>2, FpuStep, Zenon DEF Puts
  <2>5. CASE ~IsLocal(c, g)
    <3>1. PutShared(t, g, "TO_SCHED")
      BY <2>1, <2>5, Zenon
    <3>2. PutsShared(t, g) /\ state' = [state EXCEPT ![t] = "TO_SCHED"] /\ cpuid' \in [Threads -> CPUs]
      BY <3>1, Zenon DEF PutShared, PutsShared, TypeOK
    <3>3. IsLocal(g, affinity[t]) /\ affinity[t] # NoAff
      BY <2>3, <2>5, NamesAssumption, Zenon DEF IsLocal
    <3>. QED  BY <1>2, <2>2, <2>3, <3>2, <3>3, FpuStep, Zenon DEF Puts
  <2>. QED  BY <2>4, <2>5, Zenon
<1>. QED  BY <1>1, <1>2, Zenon

LEMMA ToAffinityPuts ==
  ASSUME TypeOK, NEW c \in CPUs, NEW t \in Threads, EnqueueToAffinity(c, t)
  PROVE  Puts(c, t) /\ cpuid' \in [Threads -> CPUs] /\ FpuTypes'
<1>. DEFINE aff == CpuBind(c, t)
            home == <<machine[t], cpuid[t][2]>>
            to == IF aff = NoAff THEN home ELSE aff
<1>1. CASE exit[t] = "EXITING" \/ (IsLocal(c, aff) /\ ~(aff = NoAff /\ machine[t] # c[1]))
  <2>1. Enqueue(c, t)
    BY <1>1, Zenon DEF EnqueueToAffinity
  <2>. QED  BY <2>1, EnqueuePuts, Zenon
<1>2. CASE ~(exit[t] = "EXITING" \/ (IsLocal(c, aff) /\ ~(aff = NoAff /\ machine[t] # c[1])))
  <2>1. PutShared(t, to, "READY") /\ Bind(c, t) /\ exit' = exit /\ exit[t] # "EXITING"
    BY <1>2, Zenon DEF EnqueueToAffinity
  <2>2. home \in CPUs /\ home[1] = machine[t]
    BY CpuPairs, Zenon DEF TypeOK
  <2>3. to \in CPUs /\ IsLocal(to, affinity[t]) /\ (affinity[t] = NoAff => to[1] = machine[t])
    <3>1. CASE aff = NoAff
      BY <2>2, <3>1, BindType, Zenon DEF IsLocal
    <3>2. CASE aff # NoAff
      BY <1>2, <3>2, BindType, NamesAssumption, Zenon DEF IsLocal
    <3>. QED  BY <3>1, <3>2, Zenon
  <2>. HIDE DEF to
  <2>4. PutsShared(t, to) /\ state' = [state EXCEPT ![t] = "READY"] /\ cpuid' \in [Threads -> CPUs]
    BY <2>1, Zenon DEF PutShared, PutsShared, TypeOK
  <2>. QED  BY <2>1, <2>3, <2>4, FpuStep, Zenon DEF Puts
<1>. QED  BY <1>1, <1>2, Zenon

LEMMA PutsTypes ==
  ASSUME TypeOK, NEW c \in CPUs, NEW t \in Threads, Puts(c, t), cpuid' \in [Threads -> CPUs]
  PROVE  QueueTypes'
<1>1. state' \in [Threads -> States]
  BY Zenon DEF Puts, TypeOK, States
<1>2. exit' \in [Threads -> Exits]
  <2>1. exit' = exit \/ exit' = [exit EXCEPT ![t] = "EXITED"]
    BY Zenon DEF Puts
  <2>. QED  BY <2>1, Zenon DEF TypeOK, Exits
<1>3. ready' \in [CPUs -> Seq(Threads)] /\ shared' \in [CPUs -> Seq(Threads)]
  <2>1. \A g \in CPUs : Append(ready[g], t) \in Seq(Threads) /\ Append(shared[g], t) \in Seq(Threads)
    BY ElemsAppend, Zenon DEF TypeOK
  <2>2. \/ ready' = ready /\ shared' = shared
        \/ \E g \in CPUs : PutsReady(t, g) \/ PutsShared(t, g)
    BY Zenon DEF Puts
  <2>3. ASSUME NEW g \in CPUs, PutsReady(t, g) \/ PutsShared(t, g)
        PROVE  ready' \in [CPUs -> Seq(Threads)] /\ shared' \in [CPUs -> Seq(Threads)]
    BY <2>1, <2>3, Zenon DEF PutsReady, PutsShared, TypeOK
  <2>. QED  BY <2>2, <2>3, Zenon DEF TypeOK
<1>. QED  BY <1>1, <1>2, <1>3, Zenon DEF QueueTypes

\* What is taken out of a queue and put at the front or the end of one leaves queues.
LEMMA DrainTypes ==
  ASSUME TypeOK, NEW c \in CPUs, NEW t \in Threads, NEW front \in BOOLEAN,
         NEW i \in DOMAIN shared[c], DrainTo(c, t, front),
         shared' = [shared EXCEPT ![c] = Without(@, i)]
  PROVE  /\ QueueTypes'
         /\ pc' \in [CPUs -> PcLabels] /\ kstack' \in [Threads -> {"FREE", "LOCKED"}]
         /\ machine' \in [Threads -> Machines]
<1>. DEFINE g == IF affinity[t] = NoAff THEN c ELSE affinity[t]
            q == IF front THEN <<t>> \o ready[g] ELSE Append(ready[g], t)
<1>1. shared' \in [CPUs -> Seq(Threads)]
  BY WithoutType, Zenon DEF TypeOK
<1>2. g \in CPUs /\ ready[g] \in Seq(Threads)
  BY Zenon DEF TypeOK
<1>. HIDE DEF g
<1>3. q \in Seq(Threads)
  BY <1>2, ElemsAppend, ElemsPrepend, Zenon
<1>. HIDE DEF q
<1>4. CASE IsLocal(c, g)
  <2>1. /\ ready' = [ready EXCEPT ![g] = q]
        /\ state' = [state EXCEPT ![t] = "READY"] /\ exit' = [exit EXCEPT ![t] = "RUNNING"]
        /\ kstack' = [kstack EXCEPT ![t] = "FREE"] /\ machine' = [machine EXCEPT ![t] = c[1]]
        /\ cpuid' = [cpuid EXCEPT ![t] = g] /\ pc' = pc
    BY <1>4, Zenon DEF DrainTo, g, q
  <2>. QED  BY <1>1, <1>2, <1>3, <2>1, CpuPairs, Zenon DEF TypeOK, QueueTypes, States, Exits, PcLabels
<1>5. CASE ~IsLocal(c, g)
  <2>1. /\ pc' = [pc EXCEPT ![c] = "bug"]
        /\ UNCHANGED <<ready, state, exit, kstack, machine, cpuid>>
    BY <1>5, Zenon DEF DrainTo, Goto, g
  <2>. QED  BY <1>1, <2>1, Zenon DEF TypeOK, QueueTypes, States, Exits, PcLabels
<1>. QED  BY <1>4, <1>5, Zenon

\* Both drains are of that kind.
LEMMA DrainsOne ==
  ASSUME TypeOK, NEW c \in CPUs, Drain(c) \/ DrainUrgent(c)
  PROVE  \E i \in DOMAIN shared[c], front \in BOOLEAN, t \in Threads :
           /\ t = shared[c][i] /\ DrainTo(c, t, front)
           /\ shared' = [shared EXCEPT ![c] = Without(@, i)]
           /\ UNCHANGED <<cpuVars, fpuVars, affinity, waiting>>
<1>1. shared[c] \in Seq(Threads) /\ shared[c] # <<>>
  BY Zenon DEF TypeOK, Drain, DrainUrgent
<1>2. \A i \in DOMAIN shared[c] : shared[c][i] \in Threads
  BY <1>1
<1>3. CASE Drain(c)
  BY <1>1, <1>2, <1>3, EndsAreEntries, Zenon DEF Drain
<1>4. CASE DrainUrgent(c)
  BY <1>1, <1>2, <1>4, EndsAreEntries, Zenon DEF DrainUrgent
<1>. QED  BY <1>3, <1>4, Zenon

LEMMA TypeStep == TypeOK /\ [Next]_vars => TypeOK'
<1>. SUFFICES ASSUME TypeOK, [Next]_vars  PROVE TypeOK'
  BY Zenon
<1>. USE DEF cpuVars, queues, fpuVars, places, Goto
<1>. DEFINE Typed == CpuTypes /\ QueueTypes /\ FpuTypes /\ OtherTypes
<1>1. Typed
  BY TypeParts, Zenon
<1>2. ASSUME NEW c \in CPUs, Interrupt(c) \/ Doorbell(c)  PROVE Typed'
  BY <1>1, <1>2, Zenon DEF Interrupt, Doorbell, CpuTypes, QueueTypes, FpuTypes, OtherTypes, PcLabels
<1>3. ASSUME NEW c \in CPUs, NEW t \in Threads, Create(c, t)  PROVE Typed'
  <2>1. QueueTypes' /\ FpuTypes'
    BY <1>3, EnqueuePuts, PutsTypes, Zenon DEF Create
  <2>. QED  BY <1>1, <1>3, <2>1, Zenon DEF Create, CpuTypes, OtherTypes
<1>4. ASSUME NEW c \in CPUs, NEW t \in Threads, NEW aff \in Targets, SetAffinityGlobal(c, t, aff)
      PROVE  Typed'
  <2>1. aff \in Places
    BY NamesAssumption, Zenon DEF Places
  <2>2. exit' \in [Threads -> Exits] /\ kstack' \in [Threads -> {"FREE", "LOCKED"}]
    BY <1>1, <1>4, Zenon DEF SetAffinityGlobal, QueueTypes, OtherTypes, Exits
  <2>. QED  BY <1>1, <1>4, <2>1, <2>2, Zenon
            DEF SetAffinityGlobal, CpuTypes, QueueTypes, FpuTypes, OtherTypes
<1>5. ASSUME NEW c \in CPUs, NEW t \in Threads, NEW u \in Threads, NEW aff \in Targets,
             SetAffinityOf(c, t, u, aff)
      PROVE  Typed'
  <2>1. aff \in Places
    BY NamesAssumption, Zenon DEF Places
  <2>. QED  BY <1>1, <1>5, <2>1, Zenon
            DEF SetAffinityOf, CpuTypes, QueueTypes, FpuTypes, OtherTypes
<1>6. ASSUME NEW c \in CPUs, NEW t \in Threads, UseFpu(c, t)  PROVE Typed'
  <2>1. FpuTypes'
    <3>. DEFINE old == fpuOwner[c]
                left == IF old # t /\ old # Idle
                        THEN [fpuSaved EXCEPT ![old] = @ \/ exit[old] = "RUNNING"] ELSE fpuSaved
                gone == IF old # t /\ old # Idle THEN [ownedFpu EXCEPT ![old] = NoCpu] ELSE ownedFpu
    <3>1. old \in Threads \cup {Idle} /\ c[2] \in Locals /\ NoCpu \in Locals
      BY <1>1, CpuPairs, Zenon DEF FpuTypes, Idents, Locals
    <3>2. left \in [Threads -> BOOLEAN] /\ gone \in [Threads -> Locals]
      BY <1>1, <3>1, Zenon DEF FpuTypes
    <3>3. \/ /\ fpuOwner' = [fpuOwner EXCEPT ![c] = t] /\ fpuSaved' = [left EXCEPT ![t] = FALSE]
             /\ ownedFpu' = gone \/ ownedFpu' = [gone EXCEPT ![t] = c[2]]
          \/ ownedFpu' = gone /\ fpuSaved' = left /\ fpuOwner' = fpuOwner
      BY <1>6, Zenon DEF UseFpu
    <3>. HIDE DEF old, left, gone
    <3>. QED  BY <1>1, <3>1, <3>2, <3>3, Zenon DEF FpuTypes, Idents
  <2>. QED  BY <1>1, <1>6, <2>1, Zenon DEF UseFpu, CpuTypes, QueueTypes, OtherTypes
<1>7. ASSUME NEW c \in CPUs, NEW t \in Threads, Block(c, t)  PROVE Typed'
  BY <1>1, <1>7, Zenon
     DEF Block, CpuTypes, QueueTypes, FpuTypes, OtherTypes, PcLabels, States
<1>8. ASSUME NEW c \in CPUs, NEW t \in Threads, Signal(c, t)  PROVE Typed'
  <2>1. QueueTypes' /\ FpuTypes'
    BY <1>8, ToAffinityPuts, PutsTypes, Zenon DEF Signal
  <2>. QED  BY <1>1, <1>8, <2>1, Zenon DEF Signal, CpuTypes, OtherTypes
<1>9. ASSUME NEW c \in CPUs, NEW t \in Threads, ExitGroup(c, t)  PROVE Typed'
  <2>1. exit' \in [Threads -> Exits]
    BY <1>1, <1>9, Zenon DEF ExitGroup, QueueTypes, Exits
  <2>. QED  BY <1>1, <1>9, <2>1, Zenon
            DEF ExitGroup, CpuTypes, QueueTypes, FpuTypes, OtherTypes, PcLabels
<1>10. ASSUME NEW c \in CPUs, NEW t \in Threads, Preempt(c, t)  PROVE Typed'
  <2>1. QueueTypes' /\ FpuTypes'
    BY <1>10, EnqueuePuts, PutsTypes, Zenon DEF Preempt
  <2>. QED  BY <1>1, <1>10, <2>1, Zenon DEF Preempt, CpuTypes, OtherTypes, PcLabels
<1>11. ASSUME NEW c \in CPUs, NEW t \in Threads \cup {Idle}, LeaveAside(c, t)  PROVE Typed'
  BY <1>1, <1>11, Zenon DEF LeaveAside, CpuTypes, QueueTypes, FpuTypes, OtherTypes, PcLabels
<1>12. ASSUME NEW c \in CPUs, NEW t \in Threads, Retire(c, t)  PROVE Typed'
  BY <1>1, <1>12, Zenon
     DEF Retire, CpuTypes, QueueTypes, FpuTypes, OtherTypes, PcLabels, States, Exits
<1>13. ASSUME NEW c \in CPUs, NEW t \in Threads, Migrate(c, t)  PROVE Typed'
  <2>1. FpuTypes'
    BY <1>13, FpuStep, Zenon DEF Migrate
  <2>2. QueueTypes'
    <3>1. /\ shared' = [shared EXCEPT ![affinity[t]] = Append(@, t)] /\ ready' = ready
          /\ state' = [state EXCEPT ![t] = state[t]] /\ cpuid' = cpuid /\ exit' = exit
      BY <1>13, Zenon DEF Migrate, PutShared
    <3>2. \A g \in CPUs : Append(shared[g], t) \in Seq(Threads)
      BY <1>1, ElemsAppend, Zenon DEF QueueTypes
    <3>. QED  BY <1>1, <3>1, <3>2, Zenon DEF QueueTypes
  <2>. QED  BY <1>1, <1>13, <2>1, <2>2, Zenon DEF Migrate, CpuTypes, OtherTypes, PcLabels
<1>15. ASSUME NEW c \in CPUs, Drain(c) \/ DrainUrgent(c)  PROVE Typed'
  <2>1. PICK i \in DOMAIN shared[c], front \in BOOLEAN, t \in Threads :
          /\ t = shared[c][i] /\ DrainTo(c, t, front)
          /\ shared' = [shared EXCEPT ![c] = Without(@, i)]
          /\ UNCHANGED <<cpuVars, fpuVars, affinity, waiting>>
    BY <1>15, DrainsOne, Zenon
  <2>2. /\ QueueTypes' /\ pc' \in [CPUs -> PcLabels] /\ kstack' \in [Threads -> {"FREE", "LOCKED"}]
        /\ machine' \in [Threads -> Machines]
    BY <2>1, DrainTypes, Zenon
  <2>. QED  BY <1>1, <2>1, <2>2, Zenon DEF CpuTypes, FpuTypes, OtherTypes
<1>16. ASSUME NEW c \in CPUs, NEW i \in DOMAIN ready[c], Pick(c, i)  PROVE Typed'
  <2>1. ready[c] \in Seq(Threads) /\ ready[c][i] \in Threads /\ Without(ready[c], i) \in Seq(Threads)
    BY <1>1, WithoutType DEF QueueTypes
  <2>2. ready' = [ready EXCEPT ![c] = Without(ready[c], i)]
    BY <1>16, Zenon DEF Pick, Without
  <2>3. QueueTypes'
    <3>1. state' \in [Threads -> States] /\ exit' \in [Threads -> Exits] /\ cpuid' = cpuid /\ shared' = shared
      BY <1>1, <1>16, <2>1, Zenon DEF Pick, QueueTypes, States, Exits
    <3>. QED  BY <1>1, <2>1, <2>2, <3>1, Zenon DEF QueueTypes
  <2>4. CpuTypes'
    BY <1>1, <1>16, <2>1, Zenon DEF Pick, CpuTypes, PcLabels, Idents
  <2>. QED  BY <1>1, <1>16, <2>3, <2>4, Zenon DEF Pick, FpuTypes, OtherTypes
<1>17. ASSUME NEW c \in CPUs, PickIdle(c)  PROVE Typed'
  BY <1>1, <1>17, Zenon
     DEF PickIdle, CpuTypes, QueueTypes, FpuTypes, OtherTypes, PcLabels, Idents
<1>18. ASSUME NEW c \in CPUs, NEW t \in Threads \cup {Idle}, SwitchTo(c, t)  PROVE Typed'
  <2>1. QueueTypes'
    BY <1>1, <1>18 DEF SwitchTo, QueueTypes, States
  <2>2. CpuTypes' /\ kstack' \in [Threads -> {"FREE", "LOCKED"}]
    BY <1>1, <1>18 DEF SwitchTo, CpuTypes, OtherTypes, PcLabels, Idents
  <2>. QED  BY <1>1, <1>18, <2>1, <2>2, Zenon DEF SwitchTo, FpuTypes, OtherTypes
<1>19. ASSUME NEW c \in CPUs, Finish(c)  PROVE Typed'
  <2>1. CpuTypes' /\ kstack' \in [Threads -> {"FREE", "LOCKED"}]
    BY <1>1, <1>19, Zenon DEF Finish, CpuTypes, OtherTypes, PcLabels, Idents
  <2>. QED  BY <1>1, <1>19, <2>1, Zenon DEF Finish, QueueTypes, FpuTypes, OtherTypes
<1>20. ASSUME UNCHANGED vars  PROVE Typed'
  BY <1>1, <1>20, Zenon DEF vars, CpuTypes, QueueTypes, FpuTypes, OtherTypes
<1>. QED
  BY TypePartsNext, <1>2, <1>3, <1>4, <1>5, <1>6, <1>7, <1>8, <1>9, <1>10, <1>11, <1>12, <1>13,
     <1>15, <1>16, <1>17, <1>18, <1>19, <1>20, Zenon DEF Next, SchedStep, UserStep

-----------------------------------------------------------------------------
(* One place for a thread                                                  *)

\* CPU c has thread t in hand: it runs it, is about to, or has not yet dealt with it
\* in rr_sched.
Holds(c, t) ==
  \/ pc[c] \in {"user", "eret", "sched", "urgent"} /\ current[c] = t
  \/ pc[c] = "switch" /\ chosen[c] = t

InQueue(t) == t \in Queued(ready, shared)

\* The inductive invariant, of one thread.
Separate(t) ==
  /\ \A c, d \in CPUs : Holds(c, t) /\ Holds(d, t) => c = d
  /\ \A c \in CPUs : Holds(c, t) => ~InQueue(t)
  /\ t \in waiting => /\ ~InQueue(t)
                      /\ state[t] \in {"WAITING", "EXIT"} /\ exit[t] # "MIGRATING"
                      /\ \A c \in CPUs : Holds(c, t) => pc[c] = "sched"
  /\ state[t] = "INIT" => ~InQueue(t) /\ t \notin waiting /\ \A c \in CPUs : ~Holds(c, t)

AllSeparate == QueuedOnce(ready, shared) /\ \A t \in Threads : Separate(t)

-----------------------------------------------------------------------------
(* What a step of CPU c leaves of the rest                                 *)

Elsewhere(c) ==
  \A d \in CPUs \ {c} : pc'[d] = pc[d] /\ current'[d] = current[d] /\ chosen'[d] = chosen[d]

\* Thread u is not what the step works on.
Kept(c, u) ==
  /\ Holds(c, u)' => Holds(c, u) /\ (pc'[c] = pc[c] \/ u \notin waiting)
  /\ InQueue(u)' => InQueue(u)
  /\ u \in waiting' => u \in waiting
  /\ state'[u] = state[u]
  /\ exit'[u] = "MIGRATING" => exit[u] = "MIGRATING" \/ u \notin waiting

LEMMA Frame ==
  ASSUME NEW c \in CPUs, NEW u \in Threads, Separate(u), Elsewhere(c), Kept(c, u)
  PROVE  Separate(u)'
<1>1. \A d \in CPUs : Holds(d, u)' => Holds(d, u) /\ (pc'[d] = pc[d] \/ u \notin waiting)
  BY Zenon DEF Elsewhere, Holds, Kept
<1>2. /\ \A b, d \in CPUs : Holds(b, u)' /\ Holds(d, u)' => b = d
      /\ \A d \in CPUs : Holds(d, u)' => ~InQueue(u)'
  BY <1>1, Zenon DEF Separate, Kept
<1>3. u \in waiting' => /\ ~InQueue(u)'
                        /\ state'[u] \in {"WAITING", "EXIT"} /\ exit'[u] # "MIGRATING"
                        /\ \A d \in CPUs : Holds(d, u)' => pc'[d] = "sched"
  BY <1>1 DEF Separate, Kept
<1>4. state'[u] = "INIT" => ~InQueue(u)' /\ u \notin waiting' /\ \A d \in CPUs : ~Holds(d, u)'
  BY <1>1, Zenon DEF Separate, Kept
<1>. QED  BY <1>2, <1>3, <1>4, Zenon DEF Separate

LEMMA Step ==
  ASSUME AllSeparate, NEW c \in CPUs, Elsewhere(c), QueuedOnce(ready, shared)',
         \A u \in Threads : Kept(c, u) \/ Separate(u)'
  PROVE  AllSeparate'
BY Frame, Zenon DEF AllSeparate

\* A thread that is in no CPU's hand, waits for nothing and has been created.
LEMMA Loose ==
  ASSUME NEW u \in Threads, \A d \in CPUs : ~Holds(d, u)', u \notin waiting', state'[u] # "INIT"
  PROVE  Separate(u)'
BY Zenon DEF Separate

LEMMA HoldsElsewhere ==
  ASSUME NEW c \in CPUs, Elsewhere(c)
  PROVE  \A d \in CPUs \ {c}, u \in Threads : (Holds(d, u)' <=> Holds(d, u)) /\ pc'[d] = pc[d]
BY Zenon DEF Elsewhere, Holds

\* A thread that CPU c holds outside of rr_sched: nothing else has it.
LEMMA InHand ==
  ASSUME AllSeparate, NEW c \in CPUs, NEW t \in Threads, Holds(c, t)
  PROVE  /\ \A d \in CPUs \ {c} : ~Holds(d, t)
         /\ ~InQueue(t) /\ state[t] # "INIT"
         /\ t \in waiting => pc[c] = "sched"
BY Zenon DEF AllSeparate, Separate

LEMMA PutsQueue ==
  ASSUME TypeOK, QueuedOnce(ready, shared), NEW c \in CPUs, NEW t \in Threads, Puts(c, t), ~InQueue(t)
  PROVE  /\ QueuedOnce(ready, shared)'
         /\ \A u \in Threads \ {t} : InQueue(u)' <=> InQueue(u)
         /\ \A u \in Threads \ {t} : state'[u] = state[u] /\ exit'[u] = exit[u]
         /\ state'[t] \in {"READY", "TO_SCHED"}
<1>. t \notin Queued(ready, shared)
  BY Zenon DEF InQueue
<1>1. /\ \A u \in Threads \ {t} : state'[u] = state[u] /\ exit'[u] = exit[u]
      /\ state'[t] \in {"READY", "TO_SCHED"}
  BY Zenon DEF Puts, TypeOK
<1>2. \/ ready' = ready /\ shared' = shared
      \/ \E g \in CPUs : PutsReady(t, g) \/ PutsShared(t, g)
  BY Zenon DEF Puts
<1>3. CASE ready' = ready /\ shared' = shared
  BY <1>1, <1>3, Zenon DEF InQueue
<1>4. ASSUME NEW g \in CPUs, PutsReady(t, g)
      PROVE  QueuedOnce(ready', shared') /\ Queued(ready', shared') = Queued(ready, shared) \cup {t}
  <2>1. Gains(ready', ready, g, t)
    BY <1>4, AppendGains, Zenon DEF QueuedOnce, Queued, PutsReady
  <2>2. QueuedOnce(ready', shared) /\ Queued(ready', shared) = Queued(ready, shared) \cup {t}
    BY <2>1, AddReady
  <2>. QED  BY <1>4, <2>2, Zenon DEF PutsReady
<1>5. ASSUME NEW g \in CPUs, PutsShared(t, g)
      PROVE  QueuedOnce(ready', shared') /\ Queued(ready', shared') = Queued(ready, shared) \cup {t}
  <2>1. Gains(shared', shared, g, t)
    BY <1>5, AppendGains, Zenon DEF QueuedOnce, Queued, PutsShared
  <2>2. QueuedOnce(ready, shared') /\ Queued(ready, shared') = Queued(ready, shared) \cup {t}
    BY <2>1, AddShared
  <2>. QED  BY <1>5, <2>2, Zenon DEF PutsShared
<1>. QED  BY <1>1, <1>2, <1>3, <1>4, <1>5, Zenon DEF InQueue

-----------------------------------------------------------------------------
(* The steps                                                               *)

\* Steps that leave the queues, the waiting threads and the states alone.
Quiet(c, t, u, aff) ==
  \/ Interrupt(c) \/ Doorbell(c) \/ LeaveAside(c, t) \/ PickIdle(c) \/ Finish(c)
  \/ t \in Threads /\ \/ SetAffinityGlobal(c, t, aff) \/ SetAffinityOf(c, t, u, aff)
                      \/ UseFpu(c, t) \/ ExitGroup(c, t)

LEMMA QuietSteps ==
  ASSUME TypeOK, AllSeparate, NEW c \in CPUs, NEW t \in Idents, NEW u \in Idents, NEW aff \in Places,
         Quiet(c, t, u, aff)
  PROVE  AllSeparate'
<1>. USE DEF cpuVars, queues, fpuVars, places, Goto
<1>1. ready' = ready /\ shared' = shared /\ state' = state /\ waiting' = waiting
  BY Zenon DEF Quiet, Interrupt, Doorbell, LeaveAside, PickIdle, Finish, SetAffinityGlobal, SetAffinityOf,
         UseFpu, ExitGroup
<1>2. Elsewhere(c)
  BY Zenon DEF Quiet, Elsewhere, TypeOK, Interrupt, Doorbell, LeaveAside, PickIdle, Finish, SetAffinityGlobal,
         SetAffinityOf, UseFpu, ExitGroup
<1>3. ASSUME NEW v \in Threads  PROVE Kept(c, v)
  <2>1. Holds(c, v) /\ pc[c] \in {"user", "eret"} => v \notin waiting
    BY InHand, Zenon
  <2>2. Holds(c, v)' => Holds(c, v) /\ (pc'[c] = pc[c] \/ v \notin waiting)
    <3>1. CASE Interrupt(c) \/ Doorbell(c) \/ Finish(c) \/ (t \in Threads /\ ExitGroup(c, t))
      <4>1. pc[c] \in {"user", "eret"} /\ pc'[c] \in {"user", "sched", "urgent"} /\ current' = current
        BY <3>1, Zenon DEF Interrupt, Doorbell, Finish, ExitGroup, Calls, TypeOK
      <4>. QED  BY <2>1, <4>1, Zenon DEF Holds
    <3>2. CASE LeaveAside(c, t)
      <4>1. pc'[c] \in {"pick", "bug"}
        BY <3>2, Zenon DEF LeaveAside, TypeOK
      <4>. QED  BY <4>1, Zenon DEF Holds
    <3>3. CASE PickIdle(c)
      <4>1. pc'[c] = "switch" /\ chosen'[c] = Idle
        BY <3>3, Zenon DEF PickIdle, TypeOK
      <4>. QED  BY <4>1, NamesAssumption, Zenon DEF Holds
    <3>4. CASE t \in Threads /\ (SetAffinityGlobal(c, t, aff) \/ SetAffinityOf(c, t, u, aff) \/ UseFpu(c, t))
      <4>1. pc' = pc /\ current' = current /\ chosen' = chosen
        BY <3>4, Zenon DEF SetAffinityGlobal, SetAffinityOf, UseFpu
      <4>. QED  BY <4>1, Zenon DEF Holds
    <3>. QED  BY <3>1, <3>2, <3>3, <3>4, Zenon DEF Quiet
  <2>3. exit'[v] = "MIGRATING" => exit[v] = "MIGRATING" \/ v \notin waiting
    <3>1. CASE t \in Threads /\ SetAffinityGlobal(c, t, aff)
      <4>1. v = t => Holds(c, v) /\ pc[c] = "user"
        BY <3>1, Zenon DEF SetAffinityGlobal, Calls, Holds
      <4>2. v # t => exit'[v] = exit[v]
        BY <3>1, Zenon DEF SetAffinityGlobal, TypeOK
      <4>. QED  BY <2>1, <4>1, <4>2, Zenon
    <3>2. CASE t \in Threads /\ ExitGroup(c, t)
      BY <3>2, Zenon DEF ExitGroup
    <3>3. CASE exit' = exit
      BY <3>3, Zenon
    <3>. QED  BY <3>1, <3>2, <3>3, Zenon
              DEF Quiet, Interrupt, Doorbell, LeaveAside, PickIdle, Finish, SetAffinityOf, UseFpu
  <2>. QED  BY <1>1, <2>2, <2>3, Zenon DEF Kept, InQueue
<1>4. QueuedOnce(ready, shared)'
  BY <1>1, Zenon DEF AllSeparate
<1>. QED  BY <1>2, <1>3, <1>4, Step, Zenon

\* Steps that put a thread into a queue: create_thread, the end of a time slice and
\* signal_notific.  Nothing else has the thread, before and after.
LEMMA PutFacts ==
  ASSUME TypeOK, AllSeparate, NEW c \in CPUs, NEW t \in Threads,
         Create(c, t) \/ Preempt(c, t) \/ Signal(c, t)
  PROVE  /\ Puts(c, t)
         /\ Elsewhere(c) /\ current' = current /\ chosen' = chosen
         /\ ~InQueue(t) /\ t \notin waiting' /\ waiting' \subseteq waiting
         /\ \A d \in CPUs : ~Holds(d, t)'
         /\ pc' = pc \/ pc'[c] = "pick"
<1>. USE DEF cpuVars, queues, fpuVars, places, Goto
<1>1. Puts(c, t)
  BY EnqueuePuts, ToAffinityPuts, Zenon DEF Create, Preempt, Signal
<1>2. Elsewhere(c) /\ current' = current /\ chosen' = chosen
  BY Zenon DEF Elsewhere, TypeOK, Create, Preempt, Signal
<1>3. CASE Create(c, t)
  BY <1>1, <1>2, <1>3 DEF Create, AllSeparate, Separate, Holds
<1>4. CASE Preempt(c, t)
  <2>1. Holds(c, t) /\ state[t] = "RUNNING"
    BY <1>4, Zenon DEF Preempt, InSched, Holds
  <2>2. pc'[c] = "pick" /\ waiting' = waiting
    BY <1>4, Zenon DEF Preempt, TypeOK
  <2>3. t \notin waiting
    BY <2>1, Zenon DEF AllSeparate, Separate
  <2>4. \A d \in CPUs : ~Holds(d, t)'
    BY <1>2, <2>1, <2>2, InHand, HoldsElsewhere DEF Holds
  <2>. QED  BY <1>1, <1>2, <2>1, <2>2, <2>3, <2>4, InHand, Zenon
<1>5. CASE Signal(c, t)
  <2>1. t \in waiting /\ waiting' = waiting \ {t} /\ pc' = pc
    BY <1>5, Zenon DEF Signal
  <2>2. ~InQueue(t) /\ \A d \in CPUs : Holds(d, t) => pc[d] = "sched"
    BY <2>1, Zenon DEF AllSeparate, Separate
  <2>3. \A d \in CPUs : ~Holds(d, t)
    BY <1>5, <2>2, Zenon DEF Signal, Holds
  <2>. QED  BY <1>1, <1>2, <2>1, <2>2, <2>3, Zenon DEF Holds
<1>. QED  BY <1>3, <1>4, <1>5, Zenon

LEMMA PutSteps ==
  ASSUME TypeOK, AllSeparate, NEW c \in CPUs, NEW t \in Threads,
         Create(c, t) \/ Preempt(c, t) \/ Signal(c, t)
  PROVE  AllSeparate'
<1>1. /\ Puts(c, t)
      /\ Elsewhere(c) /\ current' = current /\ chosen' = chosen
      /\ ~InQueue(t) /\ t \notin waiting' /\ waiting' \subseteq waiting
      /\ \A d \in CPUs : ~Holds(d, t)'
      /\ pc' = pc \/ pc'[c] = "pick"
  BY PutFacts, Zenon
<1>2. /\ QueuedOnce(ready, shared)'
      /\ \A u \in Threads \ {t} : InQueue(u)' <=> InQueue(u)
      /\ \A u \in Threads \ {t} : state'[u] = state[u] /\ exit'[u] = exit[u]
      /\ state'[t] \in {"READY", "TO_SCHED"}
  BY <1>1, PutsQueue, Zenon DEF AllSeparate
<1>3. Separate(t)'
  BY <1>1, <1>2, Loose, Zenon
<1>4. ASSUME NEW u \in Threads \ {t}  PROVE Kept(c, u)
  <2>1. Holds(c, u)' => Holds(c, u) /\ pc'[c] = pc[c]
    BY <1>1, Zenon DEF Holds
  <2>. QED  BY <1>1, <1>2, <2>1, Zenon DEF Kept
<1>. QED  BY <1>1, <1>2, <1>3, <1>4, Step

LEMMA BlockStep ==
  ASSUME TypeOK, AllSeparate, NEW c \in CPUs, NEW t \in Threads, t \in Yields, Block(c, t)
  PROVE  AllSeparate'
<1>. USE DEF cpuVars, queues, fpuVars, places, Goto
<1>1. Holds(c, t) /\ pc[c] = "user" /\ current[c] = t /\ exit[t] # "MIGRATING"
  BY Zenon DEF Block, Calls, Holds
<1>2. /\ pc'[c] = "sched" /\ current' = current /\ chosen' = chosen /\ Elsewhere(c)
      /\ ready' = ready /\ shared' = shared /\ exit' = exit /\ waiting' = waiting \cup {t}
      /\ state'[t] = "WAITING" /\ \A u \in Threads \ {t} : state'[u] = state[u]
  BY Zenon DEF Block, Elsewhere, TypeOK
<1>3. Separate(t)'
  <2>1. \A d \in CPUs : Holds(d, t)' => d = c
    BY <1>1, <1>2, InHand, HoldsElsewhere, Zenon
  <2>2. ~InQueue(t)'
    BY <1>1, <1>2, InHand, Zenon DEF InQueue
  <2>. QED  BY <1>1, <1>2, <2>1, <2>2, Zenon DEF Separate
<1>4. ASSUME NEW u \in Threads \ {t}  PROVE Kept(c, u)
  <2>1. ~Holds(c, u)'
    BY <1>1, <1>2, Zenon DEF Holds
  <2>. QED  BY <1>2, <2>1, Zenon DEF Kept, InQueue
<1>5. QueuedOnce(ready, shared)'
  BY <1>2, Zenon DEF AllSeparate
<1>. QED  BY <1>2, <1>3, <1>4, <1>5, Step

LEMMA RetireStep ==
  ASSUME TypeOK, AllSeparate, NEW c \in CPUs, NEW t \in Threads, Retire(c, t)
  PROVE  AllSeparate'
<1>. USE DEF cpuVars, queues, fpuVars, places, Goto
<1>1. Holds(c, t)
  BY Zenon DEF Retire, InSched, Holds
<1>2. /\ pc'[c] = "pick" /\ Elsewhere(c)
      /\ ready' = ready /\ shared' = shared /\ waiting' = waiting
      /\ exit'[t] = "EXITED" /\ \A u \in Threads \ {t} : exit'[u] = exit[u]
      /\ state'[t] = "EXIT" /\ \A u \in Threads \ {t} : state'[u] = state[u]
  BY Zenon DEF Retire, Elsewhere, TypeOK
<1>3. \A u \in Threads : ~Holds(c, u)'
  BY <1>2, Zenon DEF Holds
<1>4. Separate(t)'
  <2>1. \A d \in CPUs : ~Holds(d, t)'
    BY <1>1, <1>2, <1>3, InHand, HoldsElsewhere, Zenon
  <2>2. ~InQueue(t)'
    BY <1>1, <1>2, InHand, Zenon DEF InQueue
  <2>. QED  BY <1>2, <2>1, <2>2, Zenon DEF Separate
<1>5. \A u \in Threads \ {t} : Kept(c, u)
  BY <1>2, <1>3, Zenon DEF Kept, InQueue
<1>6. QueuedOnce(ready, shared)'
  BY <1>2, Zenon DEF AllSeparate
<1>. QED  BY <1>2, <1>4, <1>5, <1>6, Step

LEMMA MigrateStep ==
  ASSUME TypeOK, AllSeparate, NEW c \in CPUs, NEW t \in Threads, Migrate(c, t)
  PROVE  AllSeparate'
<1>. USE DEF cpuVars, queues, fpuVars, places, Goto
<1>. DEFINE g == affinity[t]
<1>1. Holds(c, t) /\ exit[t] = "MIGRATING"
  BY Zenon DEF Migrate, InSched, Holds
<1>2. ~InQueue(t) /\ t \notin waiting /\ state[t] # "INIT"
  BY <1>1, Zenon DEF AllSeparate, Separate
<1>3. g \in CPUs
  BY Zenon DEF Migrate, IsLocal, TypeOK
<1>4. /\ pc'[c] = "pick" /\ Elsewhere(c)
      /\ shared' = [shared EXCEPT ![g] = Append(@, t)] /\ ready' = ready
      /\ waiting' = waiting /\ exit' = exit /\ state' = state
  BY Zenon DEF Migrate, PutShared, Elsewhere, TypeOK
<1>. HIDE DEF g
<1>5. QueuedOnce(ready', shared') /\ Queued(ready', shared') = Queued(ready, shared) \cup {t}
  <2>1. QueuedOnce(ready, shared) /\ t \notin Queued(ready, shared)
    BY <1>2, Zenon DEF AllSeparate, InQueue
  <2>2. Gains(shared', shared, g, t)
    BY <1>3, <1>4, <2>1, AppendGains, Zenon DEF QueuedOnce, Queued
  <2>3. QueuedOnce(ready, shared') /\ Queued(ready, shared') = Queued(ready, shared) \cup {t}
    BY <1>3, <2>1, <2>2, AddShared
  <2>. QED  BY <1>4, <2>3, Zenon
<1>6. \A u \in Threads : ~Holds(c, u)'
  BY <1>4, Zenon DEF Holds
<1>7. Separate(t)'
  <2>1. \A d \in CPUs : ~Holds(d, t)'
    BY <1>1, <1>4, <1>6, InHand, HoldsElsewhere, Zenon
  <2>. QED  BY <1>2, <1>4, <2>1, Loose, Zenon
<1>8. \A u \in Threads \ {t} : Kept(c, u)
  BY <1>4, <1>5, <1>6, Zenon DEF Kept, InQueue
<1>. QED  BY <1>4, <1>5, <1>7, <1>8, Step, Zenon

\* A thread that is in a queue is nowhere else.
LEMMA InQueueOnly ==
  ASSUME AllSeparate, NEW t \in Threads, InQueue(t)
  PROVE  t \notin waiting /\ state[t] # "INIT" /\ \A d \in CPUs : ~Holds(d, t)
BY Zenon DEF AllSeparate, Separate

LEMMA PickStep ==
  ASSUME TypeOK, AllSeparate, NEW c \in CPUs, NEW i \in DOMAIN ready[c], Pick(c, i)
  PROVE  AllSeparate'
<1>. USE DEF cpuVars, queues, fpuVars, places, Goto
<1>1. PICK t \in Threads : t = ready[c][i]
  BY DEF TypeOK
<1>2. ready' = [ready EXCEPT ![c] = Without(@, i)] /\ shared' = shared /\ waiting' = waiting
  BY Zenon DEF Pick, Without
<1>3. /\ pc[c] = "pick"
      /\ \/ /\ pc'[c] = "switch" /\ chosen'[c] = t /\ state'[t] = "TO_SCHED" /\ exit' = exit
         \/ pc' = pc /\ state'[t] = "EXIT" /\ exit'[t] = "EXITED"
      /\ Elsewhere(c)
      /\ \A u \in Threads \ {t} : state'[u] = state[u] /\ exit'[u] = exit[u]
  BY <1>1 DEF Pick, Elsewhere, TypeOK
<1>4. Loses(ready', ready, c, t)
  BY <1>1, <1>2, WithoutLoses, Zenon DEF AllSeparate, QueuedOnce
<1>5. /\ QueuedOnce(ready', shared') /\ Queued(ready', shared') = Queued(ready, shared) \ {t}
      /\ t \in Queued(ready, shared)
  <2>1. QueuedOnce(ready, shared)
    BY Zenon DEF AllSeparate
  <2>2. /\ QueuedOnce(ready', shared) /\ Queued(ready', shared) = Queued(ready, shared) \ {t}
        /\ t \in Queued(ready, shared)
    BY <1>4, <2>1, TakeReady, Zenon
  <2>. QED  BY <1>2, <2>2, Zenon
<1>6. t \notin waiting /\ state[t] # "INIT" /\ \A d \in CPUs : ~Holds(d, t)
  BY <1>1, <1>5, InQueueOnly, Zenon DEF InQueue
<1>7. Separate(t)'
  <2>1. \A d \in CPUs : Holds(d, t)' => d = c
    BY <1>1, <1>3, <1>6, HoldsElsewhere, Zenon
  <2>2. ~InQueue(t)'
    BY <1>5, Zenon DEF InQueue
  <2>. QED  BY <1>2, <1>3, <1>6, <2>1, <2>2, Zenon DEF Separate
<1>8. ASSUME NEW u \in Threads \ {t}  PROVE Kept(c, u)
  <2>1. ~Holds(c, u)'
    BY <1>3, Zenon DEF Holds
  <2>. QED  BY <1>2, <1>3, <1>5, <2>1, Zenon DEF Kept, InQueue
<1>. QED  BY <1>3, <1>5, <1>7, <1>8, Step, Zenon

LEMMA DrainStep ==
  ASSUME TypeOK, AllSeparate, NEW c \in CPUs, Drain(c) \/ DrainUrgent(c)
  PROVE  AllSeparate'
<1>. USE DEF cpuVars, queues, fpuVars, places, Goto
<1>1. PICK i \in DOMAIN shared[c], front \in BOOLEAN, t \in Threads :
        /\ t = shared[c][i] /\ DrainTo(c, t, front)
        /\ shared' = [shared EXCEPT ![c] = Without(@, i)]
        /\ UNCHANGED <<cpuVars, affinity, waiting>>
  BY DrainsOne, Zenon
<1>2. PICK g \in CPUs : g = IF affinity[t] = NoAff THEN c ELSE affinity[t]
  BY Zenon DEF TypeOK
<1>3. QueuedOnce(ready, shared)
  BY Zenon DEF AllSeparate
<1>4. /\ QueuedOnce(ready, shared') /\ Queued(ready, shared') = Queued(ready, shared) \ {t}
      /\ t \in Queued(ready, shared)
  <2>1. Loses(shared', shared, c, t)
    BY <1>1, <1>3, WithoutLoses, Zenon DEF QueuedOnce
  <2>. QED  BY <1>3, <2>1, TakeShared, Zenon
<1>5. t \notin waiting /\ state[t] # "INIT" /\ \A d \in CPUs : ~Holds(d, t)
  BY <1>4, InQueueOnly, Zenon DEF InQueue
<1>6. /\ pc' = pc \/ pc' = [pc EXCEPT ![c] = "bug"]
      /\ Elsewhere(c)
      /\ state'[t] \in {"READY", state[t]}
      /\ \A u \in Threads \ {t} : state'[u] = state[u] /\ exit'[u] = exit[u]
  BY <1>1, <1>2 DEF DrainTo, Elsewhere, TypeOK
<1>7. QueuedOnce(ready', shared') /\ Queued(ready', shared') \subseteq Queued(ready, shared)
  <2>1. CASE IsLocal(c, g)
    <3>1. ready' = [ready EXCEPT ![g] = IF front THEN <<t>> \o @ ELSE Append(@, t)]
      BY <1>1, <1>2, <2>1, Zenon DEF DrainTo
    <3>2. ready \in [CPUs -> Seq(Threads)] /\ Simple(ready[g]) /\ t \notin Elems(ready[g])
      BY <1>4, Zenon DEF QueuedOnce, Queued
    <3>3. Gains(ready', ready, g, t)
      BY <3>1, <3>2, AppendGains, PrependGains, Zenon
    <3>4. t \notin Queued(ready, shared')
      BY <1>4, Zenon
    <3>5. QueuedOnce(ready', shared') /\ Queued(ready', shared') = Queued(ready, shared') \cup {t}
      BY <1>4, <3>3, <3>4, AddReady
    <3>. QED  BY <1>4, <3>5, Zenon
  <2>2. CASE ~IsLocal(c, g)
    <3>1. ready' = ready
      BY <1>1, <1>2, <2>2, Zenon DEF DrainTo
    <3>. QED  BY <1>4, <3>1, Zenon
  <2>. QED  BY <2>1, <2>2, Zenon
<1>8. ASSUME NEW u \in Threads  PROVE Holds(c, u)' => Holds(c, u) /\ pc'[c] = pc[c]
  BY <1>1, <1>6, Zenon DEF Holds, TypeOK
<1>9. Separate(t)'
  BY <1>1, <1>5, <1>6, <1>8, HoldsElsewhere, Loose
<1>10. \A u \in Threads \ {t} : Kept(c, u)
  BY <1>1, <1>6, <1>7, <1>8, Zenon DEF Kept, InQueue
<1>. QED  BY <1>6, <1>7, <1>9, <1>10, Step, Zenon

LEMMA SwitchStep ==
  ASSUME TypeOK, AllSeparate, NEW c \in CPUs, NEW t \in Idents, SwitchTo(c, t)
  PROVE  AllSeparate'
<1>. USE DEF cpuVars, queues, fpuVars, places, Goto
<1>1. /\ pc[c] = "switch" /\ chosen[c] = t /\ Elsewhere(c) /\ chosen' = chosen
      /\ ready' = ready /\ shared' = shared /\ waiting' = waiting /\ exit' = exit
      /\ \/ pc'[c] = "bug" /\ state' = state
         \/ /\ pc'[c] = "eret" /\ current'[c] = t
            /\ state' = [u \in Threads |-> IF u = t THEN "RUNNING" ELSE state[u]]
  BY Zenon DEF SwitchTo, Elsewhere, TypeOK
<1>2. QueuedOnce(ready, shared)'
  BY <1>1, Zenon DEF AllSeparate
<1>3. ASSUME NEW u \in Threads, u # t  PROVE Kept(c, u)
  <2>1. ~Holds(c, u)'
    BY <1>1, <1>3, Zenon DEF Holds
  <2>. QED  BY <1>1, <1>3, <2>1, Zenon DEF Kept, InQueue
<1>4. ASSUME t \in Threads  PROVE Separate(t)'
  <2>1. Holds(c, t)
    BY <1>1, Zenon DEF Holds
  <2>2. ~InQueue(t)' /\ t \notin waiting'
    BY <1>1, <1>4, <2>1, InHand, Zenon DEF InQueue
  <2>3. \A d \in CPUs : Holds(d, t)' => d = c
    BY <1>1, <1>4, <2>1, InHand, HoldsElsewhere, Zenon
  <2>4. state'[t] # "INIT"
    BY <1>1, <1>4, <2>1, InHand, Zenon
  <2>. QED  BY <2>2, <2>3, <2>4, Zenon DEF Separate
<1>. QED  BY <1>1, <1>2, <1>3, <1>4, Step, Zenon

LEMMA SeparateStep ==
  ASSUME TypeOK, AllSeparate, Threads \subseteq Yields, [Next]_vars
  PROVE  AllSeparate'
<1>1. CASE UNCHANGED vars
  <2>1. ASSUME NEW u \in Threads  PROVE Separate(u)'
    <3>1. Separate(u)
      BY Zenon DEF AllSeparate
    <3>2. \A c \in CPUs : Holds(c, u)' <=> Holds(c, u)
      BY <1>1, Zenon DEF vars, cpuVars, Holds
    <3>. QED  BY <1>1, <3>1, <3>2, Zenon DEF vars, queues, Separate, InQueue
  <2>2. QueuedOnce(ready, shared)'
    BY <1>1, Zenon DEF AllSeparate, vars, queues
  <2>. QED  BY <2>1, <2>2, Zenon DEF AllSeparate
<1>2. ASSUME NEW c \in CPUs, Interrupt(c) \/ SchedStep(c) \/ UserStep(c)  PROVE AllSeparate'
  <2>1. CASE \E t \in Idents, u \in Idents, aff \in Places : Quiet(c, t, u, aff)
    BY <2>1, QuietSteps, Zenon
  <2>2. CASE \E t \in Threads : Create(c, t) \/ Preempt(c, t) \/ Signal(c, t)
    BY <2>2, PutSteps, Zenon
  <2>3. CASE \E t \in Threads : Block(c, t) \/ Retire(c, t) \/ Migrate(c, t)
    BY <2>3, BlockStep, RetireStep, MigrateStep, Zenon
  <2>4. CASE Drain(c) \/ DrainUrgent(c) \/ \E i \in DOMAIN ready[c] : Pick(c, i)
    BY <2>4, DrainStep, PickStep, Zenon
  <2>5. CASE \E t \in Idents : SwitchTo(c, t)
    BY <2>5, SwitchStep, Zenon
  <2>6. Idle \in Idents /\ NoAff \in Places /\ Threads \subseteq Idents /\ Targets \subseteq Places
    BY NamesAssumption, Zenon DEF Idents, Places
  <2>7. CASE Interrupt(c) \/ Doorbell(c) \/ PickIdle(c) \/ Finish(c)
    <3>1. Quiet(c, Idle, Idle, NoAff)
      BY <2>7, Zenon DEF Quiet
    <3>. QED  BY <2>1, <2>6, <3>1, Zenon
  <2>8. ASSUME NEW t \in Threads,
               LeaveAside(c, t) \/ UseFpu(c, t) \/ ExitGroup(c, t)
        PROVE  AllSeparate'
    <3>1. Quiet(c, t, Idle, NoAff)
      BY <2>8, Zenon DEF Quiet
    <3>. QED  BY <2>1, <2>6, <3>1, Zenon
  <2>9. ASSUME LeaveAside(c, Idle)  PROVE AllSeparate'
    <3>1. Quiet(c, Idle, Idle, NoAff)
      BY <2>9, Zenon DEF Quiet
    <3>. QED  BY <2>1, <2>6, <3>1, Zenon
  <2>10. ASSUME NEW t \in Threads, NEW aff \in Targets, SetAffinityGlobal(c, t, aff)
         PROVE  AllSeparate'
    <3>1. Quiet(c, t, Idle, aff)
      BY <2>10, Zenon DEF Quiet
    <3>. QED  BY <2>1, <2>6, <3>1, Zenon
  <2>11. ASSUME NEW t \in Threads, NEW u \in Threads, NEW aff \in Targets, SetAffinityOf(c, t, u, aff)
         PROVE  AllSeparate'
    <3>1. Quiet(c, t, u, aff)
      BY <2>11, Zenon DEF Quiet
    <3>. QED  BY <2>1, <2>6, <3>1, Zenon
  <2>. QED
    BY <1>2, <2>2, <2>3, <2>4, <2>5, <2>7, <2>8, <2>9, <2>10, <2>11, Zenon DEF SchedStep, UserStep, Idents
<1>. QED  BY <1>1, <1>2, Zenon DEF Next

-----------------------------------------------------------------------------
(* What the invariant says of the places of a thread                       *)

LEMMA Entries ==
  ASSUME AllSeparate, NEW t \in Threads, NEW c \in CPUs
  PROVE  /\ \A i \in DOMAIN ready[c] : ready[c][i] = t => t \in Elems(ready[c]) /\ InQueue(t)
         /\ \A i \in DOMAIN shared[c] : shared[c][i] = t => t \in Elems(shared[c]) /\ InQueue(t)
BY Zenon DEF InQueue, Queued, Elems

LEMMA PlaceKinds ==
  ASSUME NEW t \in Threads, NEW p \in Whereabouts(t)
  PROVE  \/ \E c \in CPUs : \E i \in DOMAIN ready[c] : p = <<"ready", c, i>> /\ ready[c][i] = t
         \/ \E c \in CPUs : \E i \in DOMAIN shared[c] : p = <<"shared", c, i>> /\ shared[c][i] = t
         \/ \E c \in CPUs : p = <<"cpu", c>> /\ Executes(c, t)
         \/ p = <<"notification">> /\ t \in waiting
<1>. DEFINE R == UNION {{<<"ready", c, i>> : i \in {k \in DOMAIN ready[c] : ready[c][k] = t}} : c \in CPUs}
            S == UNION {{<<"shared", c, i>> : i \in {k \in DOMAIN shared[c] : shared[c][k] = t}} : c \in CPUs}
            E == {<<"cpu", c>> : c \in {d \in CPUs : Executes(d, t)}}
            W == {<<"notification">> : u \in {t} \cap waiting}
<1>1. p \in R \cup S \cup E \cup W
  <2>1. Whereabouts(t) = R \cup S \cup E \cup W
    BY Zenon DEF Whereabouts
  <2>. HIDE DEF R, S, E, W
  <2>. QED  BY <2>1, Zenon
<1>2. p \in R => \E c \in CPUs : \E i \in DOMAIN ready[c] : p = <<"ready", c, i>> /\ ready[c][i] = t
  BY Zenon
<1>3. p \in S => \E c \in CPUs : \E i \in DOMAIN shared[c] : p = <<"shared", c, i>> /\ shared[c][i] = t
  BY Zenon
<1>4. p \in E => \E c \in CPUs : p = <<"cpu", c>> /\ Executes(c, t)
  BY Zenon
<1>5. p \in W => p = <<"notification">> /\ t \in waiting
  BY Zenon
<1>. HIDE DEF R, S, E, W
<1>. QED  BY <1>1, <1>2, <1>3, <1>4, <1>5, Zenon

LEMMA SeparateIsOnePlace == ASSUME TypeOK, AllSeparate  PROVE AtOnePlace /\ WaitsUnqueued
<1>1. ASSUME NEW t \in Threads, NEW p \in Whereabouts(t), NEW q \in Whereabouts(t)
      PROVE  p = q
  <2>. DEFINE InReady(x) == \E c \in CPUs : \E i \in DOMAIN ready[c] : x = <<"ready", c, i>> /\ ready[c][i] = t
              InShared(x) == \E c \in CPUs : \E i \in DOMAIN shared[c] : x = <<"shared", c, i>> /\ shared[c][i] = t
              OnCpu(x) == \E c \in CPUs : x = <<"cpu", c>> /\ Executes(c, t)
              Waits(x) == x = <<"notification">> /\ t \in waiting
  <2>1. /\ InReady(p) \/ InShared(p) \/ OnCpu(p) \/ Waits(p)
        /\ InReady(q) \/ InShared(q) \/ OnCpu(q) \/ Waits(q)
    BY PlaceKinds, Zenon
  <2>2. Separate(t) /\ QueuedOnce(ready, shared)
    BY Zenon DEF AllSeparate
  <2>3. \A x : InReady(x) \/ InShared(x) => InQueue(t)
    BY Entries, Zenon
  <2>4. \A x : OnCpu(x) => ~InQueue(t) /\ t \notin waiting
    <3>1. \A c \in CPUs : Executes(c, t) => Holds(c, t) /\ pc[c] # "sched"
      BY Zenon DEF Executes, Holds
    <3>. QED  BY <2>2, <3>1, Zenon DEF Separate
  <2>5. t \in waiting => ~InQueue(t)
    BY <2>2, Zenon DEF Separate
  <2>6. \A x, y : ~(InReady(x) /\ InShared(y))
    <3>1. \A c, d \in CPUs : Elems(ready[c]) \cap Elems(shared[d]) = {}
      BY <2>2, Zenon DEF QueuedOnce
    <3>. QED  BY <3>1, Entries, Zenon
  <2>7. CASE InReady(p) /\ InReady(q)
    <3>1. PICK c \in CPUs : \E i \in DOMAIN ready[c] : p = <<"ready", c, i>> /\ ready[c][i] = t
      BY <2>7, Zenon
    <3>2. PICK d \in CPUs : \E i \in DOMAIN ready[d] : q = <<"ready", d, i>> /\ ready[d][i] = t
      BY <2>7, Zenon
    <3>3. c = d
      BY <2>2, <3>1, <3>2, Entries, Zenon DEF QueuedOnce
    <3>4. Simple(ready[c])
      BY <2>2, Zenon DEF QueuedOnce
    <3>. QED  BY <3>1, <3>2, <3>3, <3>4, Zenon DEF Simple
  <2>8. CASE InShared(p) /\ InShared(q)
    <3>1. PICK c \in CPUs : \E i \in DOMAIN shared[c] : p = <<"shared", c, i>> /\ shared[c][i] = t
      BY <2>8, Zenon
    <3>2. PICK d \in CPUs : \E i \in DOMAIN shared[d] : q = <<"shared", d, i>> /\ shared[d][i] = t
      BY <2>8, Zenon
    <3>3. c = d
      BY <2>2, <3>1, <3>2, Entries, Zenon DEF QueuedOnce
    <3>4. Simple(shared[c])
      BY <2>2, Zenon DEF QueuedOnce
    <3>. QED  BY <3>1, <3>2, <3>3, <3>4, Zenon DEF Simple
  <2>9. CASE OnCpu(p) /\ OnCpu(q)
    <3>1. \A c, d \in CPUs : Executes(c, t) /\ Executes(d, t) => c = d
      BY <2>2, Zenon DEF Separate, Executes, Holds
    <3>. QED  BY <2>9, <3>1, Zenon
  <2>10. CASE Waits(p) /\ Waits(q)
    BY <2>10, Zenon
  <2>. HIDE DEF InReady, InShared, OnCpu
  <2>. QED  BY <2>1, <2>3, <2>4, <2>5, <2>6, <2>7, <2>8, <2>9, <2>10, Zenon
<1>2. AtOnePlace
  BY <1>1, Zenon DEF AtOnePlace
<1>3. WaitsUnqueued
  <2>1. \A t \in waiting : t \in Threads /\ ~InQueue(t)
    BY Zenon DEF TypeOK, AllSeparate, Separate
  <2>. QED  BY <2>1, Entries, Zenon DEF WaitsUnqueued
<1>. QED  BY <1>2, <1>3, Zenon

LEMMA Initially == Init => TypeOK /\ AllSeparate
<1>. SUFFICES ASSUME Init  PROVE TypeOK /\ AllSeparate
  BY Zenon
<1>1. 0 \in 0 .. PlatCpuNum - 1
  BY SizesAssumption
<1>2. \A t \in Threads : <<Home[t], 0>> \in CPUs
  BY <1>1, CpuPairs, NamesAssumption, Zenon
<1>3. TypeOK
  BY <1>2, NamesAssumption DEF Init, TypeOK
<1>4. \A c \in CPUs : ready[c] = <<>> /\ shared[c] = <<>>
  BY Zenon DEF Init
<1>5. Elems(<<>>) = {} /\ Simple(<<>>)
  BY DEF Elems, Simple
<1>6. QueuedOnce(ready, shared) /\ Queued(ready, shared) = {}
  BY <1>3, <1>4, <1>5, Zenon DEF QueuedOnce, Queued, TypeOK
<1>7. \A t \in Threads, c \in CPUs : ~Holds(c, t)
  BY NamesAssumption, Zenon DEF Init, Holds
<1>8. \A t \in Threads : Separate(t)
  BY <1>6, <1>7, Zenon DEF Separate, InQueue, Init
<1>. QED  BY <1>3, <1>6, <1>8, Zenon DEF AllSeparate


-----------------------------------------------------------------------------
(* The states of a thread while a CPU has it in hand, from which it        *)
(* follows that no BUG_ON fires                                            *)

\* The state and thread_exit_state a thread has while a CPU has it in hand, and where
\* a thread that is handed to another machine is queued.
Clean(t) ==
  /\ \A c \in CPUs : Holds(c, t) =>
       /\ pc[c] \in {"user", "eret"} => state[t] = "RUNNING" /\ exit[t] \in {"RUNNING", "MIGRATING"}
       /\ pc[c] \in {"sched", "urgent"} =>
            \/ state[t] = "RUNNING" /\ exit[t] \in {"RUNNING", "MIGRATING", "EXITING"}
            \/ state[t] = "WAITING" /\ exit[t] = "RUNNING"
       /\ pc[c] = "switch" => state[t] = "TO_SCHED" /\ exit[t] = "RUNNING"
       /\ exit[t] = "MIGRATING" => ~IsLocal(c, affinity[t])
  /\ \A c \in CPUs : t \in Elems(shared[c]) => IsLocal(c, affinity[t])
  /\ t \in waiting => exit[t] = "RUNNING"

AllClean == NoBug /\ \A t \in Threads : Clean(t)

\* Every thread is a program of its own.
OneThreadGroups == \A t, u \in Threads : Group[t] = Group[u] => t = u

\* Thread u is not what a step of CPU c works on.
Aside(c, u) ==
  /\ state'[u] = state[u] /\ exit'[u] = exit[u] /\ affinity'[u] = affinity[u]
  /\ u \in waiting' => u \in waiting
  /\ Holds(c, u)' => Holds(c, u) /\ pc'[c] = pc[c]
  /\ \A d \in CPUs : u \in Elems(shared'[d]) => u \in Elems(shared[d])

LEMMA CleanFrame ==
  ASSUME NEW c \in CPUs, NEW u \in Threads, Clean(u), Elsewhere(c), Aside(c, u)
  PROVE  Clean(u)'
<1>1. \A d \in CPUs : Holds(d, u)' => Holds(d, u) /\ pc'[d] = pc[d]
  BY Zenon DEF Elsewhere, Holds, Aside
<1>2. \A d \in CPUs : IsLocal(d, affinity[u])' <=> IsLocal(d, affinity[u])
  BY Zenon DEF IsLocal, Aside
<1>3. \A d \in CPUs : u \in Elems(shared[d])' => u \in Elems(shared[d])
  BY Zenon DEF Aside, Elems
<1>. QED  BY <1>1, <1>2, <1>3, Zenon DEF Clean, Aside

\* A thread in no CPU's hand and waiting for nothing.
LEMMA CleanLoose ==
  ASSUME NEW u \in Threads, \A d \in CPUs : ~Holds(d, u)', u \notin waiting',
         \A d \in CPUs : u \in Elems(shared'[d]) => IsLocal(d, affinity'[u])
  PROVE  Clean(u)'
BY Zenon DEF Clean, Elems, IsLocal

\* A thread in the hand of CPU c alone.
LEMMA CleanHeld ==
  ASSUME NEW u \in Threads, NEW c \in CPUs, \A d \in CPUs \ {c} : ~Holds(d, u)', ~InQueue(u)',
         u \in waiting' => exit'[u] = "RUNNING",
         \/ /\ pc'[c] \in {"user", "eret"} /\ state'[u] = "RUNNING"
            /\ \/ exit'[u] = "RUNNING"
               \/ exit'[u] = "MIGRATING" /\ ~IsLocal(c, affinity'[u])
         \/ /\ pc'[c] \in {"sched", "urgent"}
            /\ \/ state'[u] = "RUNNING" /\ exit'[u] \in {"RUNNING", "EXITING"}
               \/ state'[u] = "RUNNING" /\ exit'[u] = "MIGRATING" /\ ~IsLocal(c, affinity'[u])
               \/ state'[u] = "WAITING" /\ exit'[u] = "RUNNING"
         \/ pc'[c] = "switch" /\ state'[u] = "TO_SCHED" /\ exit'[u] = "RUNNING"
  PROVE  Clean(u)'
<1>1. \A d \in CPUs : u \notin Elems(shared[d])'
  BY Zenon DEF InQueue, Queued
<1>. QED  BY <1>1, Zenon DEF Clean, IsLocal

LEMMA CleanStep ==
  ASSUME AllClean, NEW c \in CPUs, Elsewhere(c), pc'[c] # "bug",
         \A u \in Threads : Aside(c, u) \/ Clean(u)'
  PROVE  AllClean'
<1>1. \A u \in Threads : Clean(u)'
  BY CleanFrame, Zenon DEF AllClean
<1>2. NoBug'
  BY Zenon DEF AllClean, NoBug, Elsewhere
<1>. QED  BY <1>1, <1>2, Zenon DEF AllClean

\* Into and out of the scheduler, and steps that change no thread.
LEMMA CleanEnters ==
  ASSUME TypeOK, AllSeparate, AllClean, NEW c \in CPUs,
         Interrupt(c) \/ Doorbell(c) \/ Finish(c) \/ PickIdle(c)
  PROVE  AllClean'
<1>. USE DEF cpuVars, queues, fpuVars, places, Goto
<1>1. /\ Elsewhere(c) /\ current' = current
      /\ state' = state /\ exit' = exit /\ affinity' = affinity /\ waiting' = waiting
      /\ ready' = ready /\ shared' = shared
  BY Zenon DEF Interrupt, Doorbell, Finish, PickIdle, Elsewhere, TypeOK
<1>2. CASE PickIdle(c)
  <2>1. pc'[c] = "switch" /\ chosen'[c] = Idle
    BY <1>2, Zenon DEF PickIdle, TypeOK
  <2>2. \A u \in Threads : ~Holds(c, u)'
    BY <2>1, NamesAssumption, Zenon DEF Holds
  <2>. QED  BY <1>1, <2>1, <2>2, CleanStep, Zenon DEF Aside
<1>3. CASE Interrupt(c) \/ Doorbell(c) \/ Finish(c)
  <2>1. pc[c] \in {"user", "eret"} /\ pc'[c] \in {"user", "sched", "urgent"}
    BY <1>3, Zenon DEF Interrupt, Doorbell, Finish, TypeOK
  <2>2. ASSUME NEW u \in Threads, current[c] = u  PROVE Clean(u)'
    <3>1. Holds(c, u)
      BY <2>1, <2>2, Zenon DEF Holds
    <3>2. /\ state[u] = "RUNNING" /\ exit[u] \in {"RUNNING", "MIGRATING"}
          /\ exit[u] = "MIGRATING" => ~IsLocal(c, affinity[u])
      BY <2>1, <3>1, Zenon DEF AllClean, Clean
    <3>3. u \notin waiting /\ ~InQueue(u)' /\ \A d \in CPUs \ {c} : ~Holds(d, u)'
      BY <1>1, <2>1, <3>1, InHand, HoldsElsewhere, Zenon DEF InQueue
    <3>. QED  BY <1>1, <2>1, <3>2, <3>3, CleanHeld, Zenon
  <2>3. ASSUME NEW u \in Threads, current[c] # u  PROVE Aside(c, u)
    <3>1. ~Holds(c, u)'
      BY <1>1, <2>1, <2>3, Zenon DEF Holds
    <3>. QED  BY <1>1, <3>1, Zenon DEF Aside
  <2>. QED  BY <1>1, <2>1, <2>2, <2>3, CleanStep, Zenon
<1>. QED  BY <1>2, <1>3, Zenon

\* System calls and traps of the thread that CPU c runs.
LEMMA CleanCalls ==
  ASSUME TypeOK, AllSeparate, AllClean, Threads \subseteq Yields, OneThreadGroups,
         NEW c \in CPUs, NEW t \in Threads,
         \/ UseFpu(c, t) \/ Block(c, t) \/ ExitGroup(c, t)
         \/ \E aff \in CPUs : SetAffinityGlobal(c, t, aff) \/ \E u \in Threads : SetAffinityOf(c, t, u, aff)
  PROVE  AllClean'
<1>. USE DEF cpuVars, queues, fpuVars, places, Goto
<1>1. pc[c] = "user" /\ current[c] = t /\ Holds(c, t)
  BY Zenon DEF UseFpu, Block, ExitGroup, SetAffinityGlobal, SetAffinityOf, Calls, Holds
<1>2. /\ state[t] = "RUNNING" /\ exit[t] \in {"RUNNING", "MIGRATING"}
      /\ exit[t] = "MIGRATING" => ~IsLocal(c, affinity[t])
  BY <1>1, Zenon DEF AllClean, Clean
<1>3. /\ Elsewhere(c) /\ current' = current /\ ready' = ready /\ shared' = shared
      /\ pc'[c] \in {"user", "sched"}
  BY <1>1, Zenon DEF UseFpu, Block, ExitGroup, SetAffinityGlobal, SetAffinityOf, Elsewhere, TypeOK
<1>4. t \notin waiting /\ ~InQueue(t)' /\ \A d \in CPUs \ {c} : ~Holds(d, t)'
  BY <1>1, <1>3, InHand, HoldsElsewhere, Zenon DEF InQueue
<1>5. ASSUME NEW u \in Threads, u # t
      PROVE  /\ state'[u] = state[u] /\ exit'[u] = exit[u] /\ affinity'[u] = affinity[u]
             /\ u \in waiting' => u \in waiting
  BY <1>5 DEF UseFpu, Block, ExitGroup, SetAffinityGlobal, SetAffinityOf, OneThreadGroups, TypeOK
<1>6. ASSUME NEW u \in Threads, u # t  PROVE Aside(c, u)
  <2>1. ~Holds(c, u)'
    BY <1>1, <1>3, <1>6, Zenon DEF Holds
  <2>. QED  BY <1>3, <1>5, <1>6, <2>1, Zenon DEF Aside
<1>7. Clean(t)'
  <2>1. CASE UseFpu(c, t)
    BY <1>1, <1>2, <1>3, <1>4, <2>1, CleanHeld, Zenon DEF UseFpu
  <2>2. CASE Block(c, t)
    <3>1. pc'[c] = "sched" /\ state'[t] = "WAITING" /\ exit' = exit /\ exit[t] = "RUNNING"
      BY <1>2, <2>2, Zenon DEF Block, Calls, TypeOK
    <3>. QED  BY <1>4, <3>1, CleanHeld, Zenon
  <2>3. CASE ExitGroup(c, t)
    <3>1. pc'[c] = "sched" /\ state' = state /\ exit'[t] = "EXITING" /\ waiting' = waiting
      BY <2>3, Zenon DEF ExitGroup, TypeOK
    <3>. QED  BY <1>2, <1>4, <3>1, CleanHeld, Zenon
  <2>4. ASSUME NEW aff \in CPUs, SetAffinityGlobal(c, t, aff)  PROVE Clean(t)'
    <3>1. /\ pc' = pc /\ state' = state /\ waiting' = waiting /\ affinity'[t] = aff
          /\ \/ exit' = exit
             \/ exit'[t] = "MIGRATING" /\ ~IsLocal(c, aff)
      BY <2>4 DEF SetAffinityGlobal, TypeOK
    <3>2. exit[t] = "RUNNING"
      BY <1>2, <2>4, Zenon DEF SetAffinityGlobal, Calls
    <3>. QED  BY <1>1, <1>2, <1>4, <3>1, <3>2, CleanHeld, Zenon
  <2>5. ASSUME NEW aff \in CPUs, NEW u \in Threads, SetAffinityOf(c, t, u, aff)  PROVE Clean(t)'
    <3>1. pc' = pc /\ state' = state /\ waiting' = waiting /\ exit' = exit
      BY <2>5, Zenon DEF SetAffinityOf
    <3>2. exit[t] = "RUNNING"
      BY <1>2, <2>5, Zenon DEF SetAffinityOf, Calls
    <3>. QED  BY <1>1, <1>2, <1>4, <3>1, <3>2, CleanHeld, Zenon
  <2>. QED  BY <2>1, <2>2, <2>3, <2>4, <2>5, Zenon
<1>. QED  BY <1>3, <1>6, <1>7, CleanStep, Zenon

\* Who is in which queue after a thread has been put into one.
LEMMA PutsWhere ==
  ASSUME TypeOK, NEW c \in CPUs, NEW t \in Threads, Puts(c, t), NEW d \in CPUs, NEW u \in Threads
  PROVE  /\ u \in Elems(ready'[d]) => u \in Elems(ready[d]) \/ (u = t /\ d[1] = c[1])
         /\ u \in Elems(shared'[d]) => \/ u \in Elems(shared[d])
                                       \/ /\ u = t /\ IsLocal(d, affinity[t])
                                          /\ affinity[t] = NoAff => d[1] = machine[t]
<1>1. CASE ready' = ready /\ shared' = shared
  BY <1>1, Zenon
<1>2. ASSUME NEW g \in CPUs, PutsReady(t, g), IsLocal(c, g)
      PROVE  /\ shared' = shared
             /\ u \in Elems(ready'[d]) => u \in Elems(ready[d]) \/ (u = t /\ d[1] = c[1])
  <2>1. g[1] = c[1]
    BY <1>2, NamesAssumption, Zenon DEF IsLocal
  <2>2. /\ shared' = shared
        /\ ready'[d] = IF d = g THEN Append(ready[g], t) ELSE ready[d]
    BY <1>2, Zenon DEF PutsReady, TypeOK
  <2>3. Elems(Append(ready[g], t)) = Elems(ready[g]) \cup {t}
    BY ElemsAppend, Zenon DEF TypeOK
  <2>. QED  BY <2>1, <2>2, <2>3, Zenon
<1>3. ASSUME NEW g \in CPUs, PutsShared(t, g)
      PROVE  ready' = ready /\ (u \in Elems(shared'[d]) => u \in Elems(shared[d]) \/ (u = t /\ d = g))
  <2>1. /\ ready' = ready
        /\ shared'[d] = IF d = g THEN Append(shared[g], t) ELSE shared[d]
    BY <1>3, Zenon DEF PutsShared, TypeOK
  <2>2. Elems(Append(shared[g], t)) = Elems(shared[g]) \cup {t}
    BY ElemsAppend, Zenon DEF TypeOK
  <2>. QED  BY <2>1, <2>2, Zenon
<1>4. \/ ready' = ready /\ shared' = shared
      \/ \E g \in CPUs : \/ PutsReady(t, g) /\ IsLocal(c, g)
                         \/ /\ PutsShared(t, g) /\ IsLocal(g, affinity[t])
                            /\ affinity[t] = NoAff => g[1] = machine[t]
  BY Zenon DEF Puts
<1>. QED  BY <1>1, <1>2, <1>3, <1>4, Zenon

LEMMA CleanPuts ==
  ASSUME TypeOK, AllSeparate, AllClean, NEW c \in CPUs, NEW t \in Threads,
         Create(c, t) \/ Preempt(c, t) \/ Signal(c, t)
  PROVE  AllClean'
<1>1. /\ Puts(c, t)
      /\ Elsewhere(c) /\ current' = current /\ chosen' = chosen
      /\ ~InQueue(t) /\ t \notin waiting' /\ waiting' \subseteq waiting
      /\ \A d \in CPUs : ~Holds(d, t)'
      /\ pc' = pc \/ pc'[c] = "pick"
  BY PutFacts, Zenon
<1>2. affinity' = affinity
  BY Zenon DEF Create, Preempt, Signal
<1>3. \A u \in Threads \ {t} : state'[u] = state[u] /\ exit'[u] = exit[u]
  BY <1>1, PutsQueue, Zenon DEF AllSeparate
<1>4. Clean(t)'
  <2>1. \A d \in CPUs : t \notin Elems(shared[d])
    BY <1>1, Zenon DEF InQueue, Queued
  <2>2. \A d \in CPUs : t \in Elems(shared'[d]) => IsLocal(d, affinity'[t])
    BY <1>1, <1>2, <2>1, PutsWhere, Zenon
  <2>. QED  BY <1>1, <2>2, CleanLoose, Zenon
<1>5. ASSUME NEW u \in Threads \ {t}  PROVE Aside(c, u)
  <2>1. Holds(c, u)' => Holds(c, u) /\ pc'[c] = pc[c]
    BY <1>1, Zenon DEF Holds
  <2>2. \A d \in CPUs : u \in Elems(shared'[d]) => u \in Elems(shared[d])
    BY <1>1, PutsWhere
  <2>. QED  BY <1>1, <1>2, <1>3, <2>1, <2>2, Zenon DEF Aside
<1>6. pc'[c] # "bug"
  BY <1>1, Zenon DEF AllClean, NoBug
<1>. QED  BY <1>1, <1>4, <1>5, <1>6, CleanStep, Zenon

\* rr_sched turns away from the thread it has in hand.
LEMMA CleanLeaves ==
  ASSUME TypeOK, AllSeparate, AllClean, NEW c \in CPUs, NEW t \in Idents,
         LeaveAside(c, t) \/ (t \in Threads /\ (Retire(c, t) \/ Migrate(c, t)))
  PROVE  AllClean'
<1>. USE DEF cpuVars, queues, fpuVars, places, Goto
<1>1. Elsewhere(c) /\ affinity' = affinity /\ waiting' = waiting
  BY Zenon DEF LeaveAside, Retire, Migrate, Elsewhere, TypeOK
<1>2. ~(t \in Threads /\ BugInOld(c, t))
  <2>1. SUFFICES ASSUME t \in Threads, BugInOld(c, t)  PROVE FALSE
    BY Zenon
  <2>2. Holds(c, t) /\ pc[c] \in {"sched", "urgent"}
    BY Zenon DEF LeaveAside, Retire, Migrate, InSched, Holds
  <2>3. /\ \/ state[t] = "RUNNING" /\ exit[t] \in {"RUNNING", "MIGRATING", "EXITING"}
           \/ state[t] = "WAITING" /\ exit[t] = "RUNNING"
        /\ exit[t] = "MIGRATING" => ~IsLocal(c, affinity[t])
    BY <2>1, <2>2, Zenon DEF AllClean, Clean
  <2>. QED  BY <2>1, <2>3, Zenon DEF BugInOld
<1>3. pc'[c] = "pick"
  <2>1. t # Idle => t \in Threads
    BY Zenon DEF Idents
  <2>. QED  BY <1>2, <2>1, Zenon DEF LeaveAside, Retire, Migrate, TypeOK
<1>4. \A u \in Threads : ~Holds(c, u)'
  BY <1>3, Zenon DEF Holds
<1>5. CASE LeaveAside(c, t)
  <2>1. \A u \in Threads : Aside(c, u)
    BY <1>1, <1>4, <1>5, Zenon DEF LeaveAside, Aside
  <2>. QED  BY <1>1, <1>3, <2>1, CleanStep, Zenon
<1>6. CASE t \in Threads /\ (Retire(c, t) \/ Migrate(c, t))
  <2>1. Holds(c, t) /\ exit[t] # "RUNNING"
    BY <1>6, Zenon DEF Retire, Migrate, InSched, Holds
  <2>2. ~InQueue(t) /\ t \notin waiting /\ \A d \in CPUs : ~Holds(d, t)'
    BY <1>1, <1>4, <1>6, <2>1, InHand, HoldsElsewhere, Zenon DEF AllClean, Clean
  <2>3. \A u \in Threads : u # t => state'[u] = state[u] /\ exit'[u] = exit[u]
    BY <1>6 DEF Retire, Migrate, PutShared, TypeOK
  <2>4. \A d \in CPUs, u \in Threads :
          u \in Elems(shared'[d]) => u \in Elems(shared[d]) \/ (u = t /\ d = affinity[t])
    <3>1. CASE Retire(c, t)
      BY <3>1, Zenon DEF Retire
    <3>2. CASE Migrate(c, t)
      <4>1. affinity[t] \in CPUs
        BY <1>6, <3>2, Zenon DEF Migrate, IsLocal, TypeOK
      <4>2. \A d \in CPUs : shared'[d] = IF d = affinity[t] THEN Append(shared[d], t) ELSE shared[d]
        BY <3>2, <4>1, Zenon DEF Migrate, PutShared, TypeOK
      <4>3. \A d \in CPUs : Elems(Append(shared[d], t)) = Elems(shared[d]) \cup {t}
        BY <1>6, ElemsAppend, Zenon DEF TypeOK
      <4>. QED  BY <4>2, <4>3, Zenon
    <3>. QED  BY <1>6, <3>1, <3>2, Zenon
  <2>5. Clean(t)'
    <3>1. \A d \in CPUs : t \notin Elems(shared[d])
      BY <1>6, <2>2, Zenon DEF InQueue, Queued
    <3>2. \A d \in CPUs : t \in Elems(shared'[d]) => IsLocal(d, affinity'[t])
      BY <1>1, <1>6, <2>4, <3>1, Zenon DEF IsLocal
    <3>. QED  BY <1>1, <1>6, <2>2, <3>2, CleanLoose, Zenon
  <2>6. \A u \in Threads : u # t => Aside(c, u)
    BY <1>1, <1>4, <2>3, <2>4, Zenon DEF Aside
  <2>. QED  BY <1>1, <1>3, <2>5, <2>6, CleanStep, Zenon
<1>. QED  BY <1>2, <1>5, <1>6, Zenon

LEMMA CleanDrain ==
  ASSUME TypeOK, AllSeparate, AllClean, NEW c \in CPUs, Drain(c) \/ DrainUrgent(c)
  PROVE  AllClean'
<1>. USE DEF cpuVars, queues, fpuVars, places, Goto
<1>1. PICK i \in DOMAIN shared[c], front \in BOOLEAN, t \in Threads :
        /\ t = shared[c][i] /\ DrainTo(c, t, front)
        /\ shared' = [shared EXCEPT ![c] = Without(@, i)]
        /\ UNCHANGED <<cpuVars, affinity, waiting>>
  BY DrainsOne, Zenon
<1>2. t \in Elems(shared[c]) /\ InQueue(t)
  BY <1>1, Entries, Zenon
<1>3. t \notin waiting /\ \A d \in CPUs : ~Holds(d, t)
  BY <1>2, InQueueOnly, Zenon
<1>4. IsLocal(c, affinity[t])
  BY <1>2, Zenon DEF AllClean, Clean
<1>5. pc' = pc /\ \A u \in Threads \ {t} : state'[u] = state[u] /\ exit'[u] = exit[u]
  BY <1>1, <1>4 DEF DrainTo, IsLocal, TypeOK
<1>6. /\ \A d \in CPUs : t \notin Elems(shared'[d])
      /\ \A d \in CPUs, u \in Threads : u \in Elems(shared'[d]) => u \in Elems(shared[d])
  <2>1. QueuedOnce(ready, shared)
    BY Zenon DEF AllSeparate
  <2>2. Loses(shared', shared, c, t)
    BY <1>1, <2>1, WithoutLoses, Zenon DEF QueuedOnce
  <2>3. \A d \in CPUs : Elems(shared'[d]) = Elems(shared[d]) \ {t}
    BY <1>2, <2>1, <2>2, Zenon DEF Loses, QueuedOnce
  <2>. QED  BY <2>3, Zenon
<1>7. Elsewhere(c) /\ \A u \in Threads : Holds(c, u)' => Holds(c, u)
  BY <1>1, <1>5, Zenon DEF Elsewhere, Holds
<1>8. Clean(t)'
  BY <1>1, <1>3, <1>6, <1>7, HoldsElsewhere, CleanLoose, Zenon
<1>9. \A u \in Threads \ {t} : Aside(c, u)
  BY <1>1, <1>5, <1>6, <1>7, Zenon DEF Aside
<1>. QED  BY <1>5, <1>7, <1>8, <1>9, CleanStep, Zenon DEF AllClean, NoBug

LEMMA CleanPick ==
  ASSUME TypeOK, AllSeparate, AllClean, NEW c \in CPUs, NEW i \in DOMAIN ready[c], Pick(c, i)
  PROVE  AllClean'
<1>. USE DEF cpuVars, queues, fpuVars, places, Goto
<1>1. PICK t \in Threads : t = ready[c][i]
  BY DEF TypeOK
<1>2. InQueue(t)
  BY <1>1, Entries, Zenon
<1>3. t \notin waiting /\ \A d \in CPUs : ~Holds(d, t)
  BY <1>2, InQueueOnly, Zenon
<1>4. /\ pc[c] = "pick" /\ affinity' = affinity /\ shared' = shared /\ waiting' = waiting
      /\ \/ /\ pc'[c] = "switch" /\ chosen'[c] = t
            /\ state'[t] = "TO_SCHED" /\ exit'[t] = "RUNNING"
         \/ pc' = pc
      /\ Elsewhere(c)
      /\ \A u \in Threads \ {t} : state'[u] = state[u] /\ exit'[u] = exit[u]
  BY <1>1 DEF Pick, Runnable, Elsewhere, TypeOK
<1>5. \A d \in CPUs \ {c} : ~Holds(d, t)'
  BY <1>3, <1>4, HoldsElsewhere, Zenon
<1>6. ~InQueue(t)'
  <2>1. QueuedOnce(ready, shared)
    BY Zenon DEF AllSeparate
  <2>2. Loses(ready', ready, c, t)
    BY <1>1, <2>1, WithoutLoses, Zenon DEF QueuedOnce, Pick, Without
  <2>3. Queued(ready', shared) = Queued(ready, shared) \ {t}
    BY <2>1, <2>2, TakeReady, Zenon
  <2>. QED  BY <1>4, <2>3, Zenon DEF InQueue
<1>7. Clean(t)'
  <2>1. CASE pc'[c] = "switch" /\ state'[t] = "TO_SCHED" /\ exit'[t] = "RUNNING"
    BY <1>3, <1>4, <1>5, <1>6, <2>1, CleanHeld, Zenon
  <2>2. CASE pc' = pc
    <3>1. \A d \in CPUs : ~Holds(d, t)'
      BY <1>4, <1>5, <2>2, Zenon DEF Holds
    <3>2. \A d \in CPUs : t \notin Elems(shared'[d])
      BY <1>6, Zenon DEF InQueue, Queued
    <3>. QED  BY <1>3, <1>4, <3>1, <3>2, CleanLoose, Zenon
  <2>. QED  BY <1>4, <2>1, <2>2, Zenon
<1>8. ASSUME NEW u \in Threads \ {t}  PROVE Aside(c, u)
  <2>1. ~Holds(c, u)'
    BY <1>4, Zenon DEF Holds
  <2>. QED  BY <1>4, <2>1, Zenon DEF Aside
<1>. QED  BY <1>4, <1>7, <1>8, CleanStep, Zenon

LEMMA CleanSwitch ==
  ASSUME TypeOK, AllSeparate, AllClean, NEW c \in CPUs, NEW t \in Idents, SwitchTo(c, t)
  PROVE  AllClean'
<1>. USE DEF cpuVars, queues, fpuVars, places, Goto
<1>1. pc[c] = "switch" /\ chosen[c] = t
  BY Zenon DEF SwitchTo
<1>2. t \in Threads => /\ Holds(c, t) /\ state[t] = "TO_SCHED" /\ exit[t] = "RUNNING"
                       /\ ~InQueue(t) /\ t \notin waiting
  BY <1>1, InHand, Zenon DEF Holds, AllClean, Clean
<1>3. /\ pc'[c] = "eret" /\ current'[c] = t /\ Elsewhere(c)
      /\ state' = [u \in Threads |-> IF u = t THEN "RUNNING" ELSE state[u]]
      /\ ready' = ready /\ shared' = shared /\ affinity' = affinity /\ exit' = exit /\ waiting' = waiting
  BY <1>2, Zenon DEF SwitchTo, Idents, Elsewhere, TypeOK
<1>4. ASSUME t \in Threads  PROVE Clean(t)'
  <2>1. ~InQueue(t)' /\ \A d \in CPUs \ {c} : ~Holds(d, t)'
    BY <1>2, <1>3, <1>4, InHand, HoldsElsewhere, Zenon DEF InQueue
  <2>. QED  BY <1>2, <1>3, <1>4, <2>1, CleanHeld, Zenon
<1>5. ASSUME NEW u \in Threads, u # t  PROVE Aside(c, u)
  <2>1. ~Holds(c, u)'
    BY <1>3, <1>5, Zenon DEF Holds
  <2>. QED  BY <1>3, <1>5, <2>1, Zenon DEF Aside
<1>. QED  BY <1>3, <1>4, <1>5, CleanStep, Zenon

LEMMA CleanNext ==
  ASSUME TypeOK, AllSeparate, AllClean, Threads \subseteq Yields, OneThreadGroups, [Next]_vars
  PROVE  AllClean'
<1>1. CASE UNCHANGED vars
  <2>1. \A u \in Threads : Clean(u)'
    <3>1. ASSUME NEW u \in Threads  PROVE Clean(u)'
      <4>1. Clean(u)
        BY Zenon DEF AllClean
      <4>2. \A c \in CPUs : Holds(c, u)' <=> Holds(c, u)
        BY <1>1, Zenon DEF vars, cpuVars, Holds
      <4>. QED  BY <1>1, <4>1, <4>2, Zenon DEF vars, queues, places, Clean, IsLocal, Elems
    <3>. QED  BY <3>1, Zenon
  <2>2. NoBug'
    BY <1>1, Zenon DEF vars, AllClean, NoBug
  <2>. QED  BY <2>1, <2>2, Zenon DEF AllClean
<1>2. ASSUME NEW c \in CPUs, Interrupt(c) \/ SchedStep(c) \/ UserStep(c)  PROVE AllClean'
  <2>1. CASE Interrupt(c) \/ Doorbell(c) \/ Finish(c) \/ PickIdle(c)
    BY <2>1, CleanEnters, Zenon
  <2>2. CASE \E t \in Threads :
               \/ UseFpu(c, t) \/ Block(c, t) \/ ExitGroup(c, t)
               \/ \E aff \in CPUs : SetAffinityGlobal(c, t, aff) \/ \E u \in Threads : SetAffinityOf(c, t, u, aff)
    BY <2>2, CleanCalls, Zenon
  <2>3. CASE \E t \in Threads : Create(c, t) \/ Preempt(c, t) \/ Signal(c, t)
    BY <2>3, CleanPuts, Zenon
  <2>4. CASE \E t \in Idents :
               LeaveAside(c, t) \/ (t \in Threads /\ (Retire(c, t) \/ Migrate(c, t)))
    BY <2>4, CleanLeaves, Zenon
  <2>5. CASE Drain(c) \/ DrainUrgent(c) \/ \E i \in DOMAIN ready[c] : Pick(c, i)
    BY <2>5, CleanDrain, CleanPick, Zenon
  <2>6. CASE \E t \in Idents : SwitchTo(c, t)
    BY <2>6, CleanSwitch, Zenon
  <2>7. Targets \subseteq CPUs
    BY NamesAssumption, Zenon
  <2>. QED
    BY <1>2, <2>1, <2>2, <2>3, <2>4, <2>5, <2>6, <2>7, Zenon DEF SchedStep, UserStep, Idents
<1>. QED  BY <1>1, <1>2, Zenon DEF Next

LEMMA CleanInit == Init => AllClean
<1>. SUFFICES ASSUME Init  PROVE AllClean
  BY Zenon
<1>1. \A t \in Threads, c \in CPUs : ~Holds(c, t)
  BY NamesAssumption, Zenon DEF Init, Holds
<1>2. \A t \in Threads, c \in CPUs : t \notin Elems(shared[c])
  BY DEF Init, Elems
<1>. QED  BY <1>1, <1>2, Zenon DEF Init, AllClean, Clean, NoBug

-----------------------------------------------------------------------------
(* Threads run on the machine that owns them                               *)

\* machine_id names the machine of the CPU that has the thread in hand or queued, and
\* that of its affinity unless it is migrating.
AtHome(t) ==
  /\ ownedFpu[t] # NoCpu => t \in FpuUsers
  /\ exit[t] # "MIGRATING" => affinity[t] = NoAff \/ affinity[t][1] = machine[t]
  /\ \A c \in CPUs : Holds(c, t) \/ t \in Elems(ready[c]) => machine[t] = c[1]
  /\ \A c \in CPUs : t \in Elems(shared[c]) /\ affinity[t] = NoAff => machine[t] = c[1]

AllAtHome == \A t \in Threads : AtHome(t)

\* Nobody binds another thread to a CPU of another machine, and what other machines
\* signal does not use the FPU.
Homely == FarBound = {} /\ FarSignalled \cap FpuUsers = {}

\* Thread u stays where it is in a step of CPU c.
Stays(c, u) ==
  /\ ownedFpu'[u] \in {ownedFpu[u], NoCpu}
  /\ exit[u] = "MIGRATING" => exit'[u] = "MIGRATING"
  /\ affinity'[u] = affinity[u] /\ machine'[u] = machine[u]
  /\ Holds(c, u)' => Holds(c, u)
  /\ \A d \in CPUs : /\ u \in Elems(ready'[d]) => u \in Elems(ready[d])
                     /\ u \in Elems(shared'[d]) => u \in Elems(shared[d])

LEMMA HomeStep ==
  ASSUME AllAtHome, NEW c \in CPUs, Elsewhere(c), \A u \in Threads : Stays(c, u) \/ AtHome(u)'
  PROVE  AllAtHome'
<1>1. ASSUME NEW u \in Threads, Stays(c, u)  PROVE AtHome(u)'
  <2>1. AtHome(u)
    BY Zenon DEF AllAtHome
  <2>2. \A d \in CPUs : Holds(d, u)' => Holds(d, u)
    BY <1>1, HoldsElsewhere, Zenon DEF Stays
  <2>3. \A d \in CPUs : (u \in Elems(ready[d]))' => u \in Elems(ready[d])
    BY <1>1, Zenon DEF Stays, Elems
  <2>4. \A d \in CPUs : (u \in Elems(shared[d]))' => u \in Elems(shared[d])
    BY <1>1, Zenon DEF Stays, Elems
  <2>. QED  BY <1>1, <2>1, <2>2, <2>3, <2>4, Zenon DEF AtHome, Stays
<1>. QED  BY <1>1, Zenon DEF AllAtHome

\* A thread in the hand of CPU c of its machine, and in no queue.
LEMMA HomeHeld ==
  ASSUME NEW u \in Threads, NEW c \in CPUs, \A d \in CPUs \ {c} : ~Holds(d, u)', ~InQueue(u)',
         machine'[u] = c[1], ownedFpu'[u] # NoCpu => u \in FpuUsers,
         exit'[u] # "MIGRATING" => affinity'[u] = NoAff \/ affinity'[u][1] = c[1]
  PROVE  AtHome(u)'
<1>1. \A d \in CPUs : (u \notin Elems(shared[d]))' /\ (u \notin Elems(ready[d]))'
  BY Zenon DEF InQueue, Queued
<1>. QED  BY <1>1, Zenon DEF AtHome

LEMMA FpuReleases ==
  ASSUME TypeOK, NEW c \in CPUs, NEW t \in Threads,
         Bind(c, t) \/ SaveAndReleaseFpu(c, t) \/ UNCHANGED fpuVars
  PROVE  \A u \in Threads : ownedFpu'[u] \in {ownedFpu[u], NoCpu}
<1>1. CASE UNCHANGED fpuVars
  BY <1>1, Zenon DEF fpuVars
<1>2. CASE SaveAndReleaseFpu(c, t)
  BY <1>1, <1>2, Zenon DEF SaveAndReleaseFpu, TypeOK
<1>. QED  BY <1>1, <1>2, Zenon DEF Bind

\* Steps in which every thread stays where it is.
LEMMA HomeQuiet ==
  ASSUME TypeOK, AllAtHome, NEW c \in CPUs, NEW t \in Idents,
         \/ Interrupt(c) \/ Doorbell(c) \/ Finish(c) \/ PickIdle(c)
         \/ LeaveAside(c, t) \/ SwitchTo(c, t)
         \/ t \in Threads /\ (Retire(c, t) \/ (t \in Yields /\ (Block(c, t) \/ ExitGroup(c, t))))
  PROVE  AllAtHome'
<1>. USE DEF cpuVars, queues, fpuVars, places, Goto
<1>1. Elsewhere(c)
  BY Zenon DEF Interrupt, Doorbell, Finish, PickIdle, LeaveAside, SwitchTo, Retire, Block,
         ExitGroup, Elsewhere, TypeOK
<1>2. /\ ownedFpu' = ownedFpu /\ affinity' = affinity /\ machine' = machine
      /\ ready' = ready /\ shared' = shared
  BY Zenon DEF Interrupt, Doorbell, Finish, PickIdle, LeaveAside, SwitchTo, Retire, Block,
         ExitGroup
<1>3. ASSUME NEW u \in Threads  PROVE exit[u] = "MIGRATING" => exit'[u] = "MIGRATING"
  <2>1. CASE t \in Threads /\ t \in Yields /\ ExitGroup(c, t)
    BY <2>1, Zenon DEF ExitGroup, Calls
  <2>2. CASE t \in Threads /\ Retire(c, t)
    BY <2>2, Zenon DEF Retire, TypeOK
  <2>3. CASE exit' = exit
    BY <2>3, Zenon
  <2>. QED  BY <2>1, <2>2, <2>3, Zenon
            DEF Interrupt, Doorbell, Finish, PickIdle, LeaveAside, SwitchTo, Block
<1>4. ASSUME NEW u \in Threads  PROVE Holds(c, u)' => Holds(c, u)
  <2>1. CASE PickIdle(c)
    <3>1. pc'[c] = "switch" /\ chosen'[c] = Idle
      BY <2>1, Zenon DEF PickIdle, TypeOK
    <3>. QED  BY <3>1, NamesAssumption, Zenon DEF Holds
  <2>2. CASE SwitchTo(c, t)
    <3>1. /\ pc[c] = "switch" /\ chosen[c] = t
          /\ pc'[c] = "bug" \/ (pc'[c] = "eret" /\ current'[c] = t)
      BY <2>2, Zenon DEF SwitchTo, TypeOK
    <3>. QED  BY <3>1, Zenon DEF Holds
  <2>3. CASE /\ current' = current /\ pc'[c] \in {"user", "sched", "urgent"}
             /\ pc[c] \in {"user", "eret"}
    BY <2>3, Zenon DEF Holds
  <2>4. CASE pc'[c] \in {"pick", "bug"}
    BY <2>4, Zenon DEF Holds
  <2>5. \/ PickIdle(c) \/ SwitchTo(c, t) \/ pc'[c] \in {"pick", "bug"}
        \/ /\ current' = current /\ pc'[c] \in {"user", "sched", "urgent"}
           /\ pc[c] \in {"user", "eret"}
    BY Zenon DEF Interrupt, Doorbell, Finish, LeaveAside, Retire, Block, ExitGroup, Calls, TypeOK
  <2>. QED  BY <2>1, <2>2, <2>3, <2>4, <2>5, Zenon
<1>. QED  BY <1>1, <1>2, <1>3, <1>4, HomeStep, Zenon DEF Stays

LEMMA HomeBinds ==
  ASSUME TypeOK, AllSeparate, AllAtHome, Threads \subseteq Yields, OneThreadGroups, Homely,
         NEW c \in CPUs, NEW t \in Threads, NEW aff \in CPUs,
         SetAffinityGlobal(c, t, aff) \/ \E u \in Threads : SetAffinityOf(c, t, u, aff)
  PROVE  AllAtHome'
<1>. USE DEF cpuVars, queues, fpuVars, places, Goto
<1>1. Holds(c, t) /\ exit[t] # "MIGRATING"
  BY Zenon DEF SetAffinityGlobal, SetAffinityOf, Calls, Holds
<1>2. /\ pc' = pc /\ current' = current /\ chosen' = chosen /\ ready' = ready /\ shared' = shared
      /\ machine' = machine /\ ownedFpu' = ownedFpu
      /\ \A u \in Threads : u # t => affinity'[u] = affinity[u] /\ exit'[u] = exit[u]
      /\ affinity'[t] = aff
      /\ exit'[t] # "MIGRATING" => IsLocal(c, aff)
  BY <1>1 DEF SetAffinityGlobal, SetAffinityOf, OneThreadGroups, Homely, TypeOK
<1>3. Elsewhere(c) /\ \A d \in CPUs, u \in Threads : Holds(d, u)' <=> Holds(d, u)
  BY <1>2, Zenon DEF Elsewhere, Holds
<1>4. AtHome(t)'
  <2>1. machine[t] = c[1] /\ (ownedFpu[t] # NoCpu => t \in FpuUsers)
    BY <1>1, Zenon DEF AllAtHome, AtHome
  <2>2. ~InQueue(t)' /\ \A d \in CPUs \ {c} : ~Holds(d, t)'
    BY <1>1, <1>2, <1>3, InHand, Zenon DEF InQueue
  <2>3. exit'[t] # "MIGRATING" => affinity'[t][1] = c[1]
    BY <1>2, NamesAssumption, Zenon DEF IsLocal
  <2>. QED  BY <1>2, <2>1, <2>2, <2>3, HomeHeld, Zenon
<1>5. \A u \in Threads : u # t => Stays(c, u)
  BY <1>2, <1>3, Zenon DEF Stays
<1>. QED  BY <1>3, <1>4, <1>5, HomeStep, Zenon

LEMMA HomeFpu ==
  ASSUME TypeOK, AllAtHome, NEW c \in CPUs, NEW t \in Threads, UseFpu(c, t)
  PROVE  AllAtHome'
<1>. USE DEF cpuVars, queues, fpuVars, places, Goto
<1>1. /\ pc' = pc /\ current' = current /\ chosen' = chosen /\ ready' = ready /\ shared' = shared
      /\ machine' = machine /\ affinity' = affinity /\ exit' = exit /\ t \in FpuUsers
  BY Zenon DEF UseFpu
<1>2. \A u \in Threads : ownedFpu'[u] \in {ownedFpu[u], NoCpu} \/ u = t
  <2>. DEFINE old == fpuOwner[c]
              gone == IF old # t /\ old # Idle THEN [ownedFpu EXCEPT ![old] = NoCpu] ELSE ownedFpu
  <2>1. gone \in [Threads -> Locals] /\ \A u \in Threads : gone[u] \in {ownedFpu[u], NoCpu}
    BY Zenon DEF TypeOK, Locals
  <2>2. ownedFpu' = gone \/ ownedFpu' = [gone EXCEPT ![t] = c[2]]
    BY Zenon DEF UseFpu
  <2>. HIDE DEF gone
  <2>. QED  BY <2>1, <2>2, Zenon
<1>3. Elsewhere(c) /\ \A d \in CPUs, u \in Threads : Holds(d, u)' <=> Holds(d, u)
  BY <1>1, Zenon DEF Elsewhere, Holds
<1>4. \A u \in Threads : u # t => Stays(c, u)
  BY <1>1, <1>2, <1>3, Zenon DEF Stays
<1>5. AtHome(t)'
  <2>1. AtHome(t)
    BY Zenon DEF AllAtHome
  <2>. QED  BY <1>1, <1>3, <2>1, Zenon DEF AtHome, Elems
<1>. QED  BY <1>3, <1>4, <1>5, HomeStep, Zenon

\* A thread that another machine wakes goes there only through a shared queue.
LEMMA SignalSends ==
  ASSUME TypeOK, AllSeparate, AllAtHome, Homely, NEW c \in CPUs, NEW t \in Threads, Signal(c, t)
  PROVE  machine[t] = c[1] \/ ready' = ready
<1>. SUFFICES ASSUME machine[t] # c[1]  PROVE ready' = ready
  BY Zenon
<1>1. t \in FarSignalled /\ t \in waiting /\ EnqueueToAffinity(c, t)
  BY Zenon DEF Signal
<1>2. exit[t] # "MIGRATING"
  BY <1>1, Zenon DEF AllSeparate, Separate
<1>3. ownedFpu[t] = NoCpu /\ (affinity[t] = NoAff \/ affinity[t][1] = machine[t])
  BY <1>1, <1>2, Zenon DEF AllAtHome, AtHome, Homely
<1>4. CpuBind(c, t) = affinity[t]
  BY <1>3, BindType, Zenon
<1>5. CASE exit[t] = "EXITING"
  BY <1>1, <1>5, Zenon DEF EnqueueToAffinity, Enqueue, queues
<1>6. CASE exit[t] # "EXITING"
  <2>1. ~(IsLocal(c, affinity[t]) /\ ~(affinity[t] = NoAff /\ machine[t] # c[1]))
    BY <1>3, Zenon DEF IsLocal
  <2>. QED  BY <1>1, <1>4, <1>6, <2>1, Zenon DEF EnqueueToAffinity, PutShared
<1>. QED  BY <1>5, <1>6, Zenon

LEMMA HomePuts ==
  ASSUME TypeOK, AllSeparate, AllAtHome, Homely, NEW c \in CPUs, NEW t \in Threads,
         Create(c, t) \/ Preempt(c, t) \/ Signal(c, t)
  PROVE  AllAtHome'
<1>1. /\ Puts(c, t) /\ Elsewhere(c) /\ current' = current /\ chosen' = chosen /\ ~InQueue(t)
      /\ \A d \in CPUs : ~Holds(d, t)'
      /\ pc' = pc \/ pc'[c] = "pick"
  BY PutFacts, Zenon
<1>2. affinity' = affinity /\ machine' = machine
  BY Zenon DEF Create, Preempt, Signal
<1>3. \A u \in Threads : ownedFpu'[u] \in {ownedFpu[u], NoCpu}
  <2>1. Bind(c, t) \/ UNCHANGED fpuVars
    <3>1. Enqueue(c, t) => Bind(c, t) \/ UNCHANGED fpuVars
      BY Zenon DEF Enqueue
    <3>2. EnqueueToAffinity(c, t) => Bind(c, t) \/ UNCHANGED fpuVars
      BY <3>1, Zenon DEF EnqueueToAffinity
    <3>. QED  BY <3>1, <3>2, Zenon DEF Create, Preempt, Signal
  <2>. QED  BY <2>1, FpuReleases, Zenon
<1>4. /\ \A u \in Threads \ {t} : exit'[u] = exit[u]
      /\ exit[t] = "MIGRATING" => exit'[t] = "MIGRATING"
  BY <1>1, Zenon DEF Puts, TypeOK
<1>5. machine[t] = c[1] \/ ready' = ready
  <2>1. CASE Create(c, t)
    BY <2>1, Zenon DEF Create
  <2>2. CASE Preempt(c, t)
    BY <2>2, Zenon DEF Preempt, InSched, Holds, AllAtHome, AtHome
  <2>3. CASE Signal(c, t)
    BY <2>3, SignalSends, Zenon
  <2>. QED  BY <2>1, <2>2, <2>3, Zenon
<1>6. AtHome(t)'
  <2>1. AtHome(t)
    BY Zenon DEF AllAtHome
  <2>2. \A d \in CPUs : t \notin Elems(ready[d]) /\ t \notin Elems(shared[d])
    BY <1>1, Zenon DEF InQueue, Queued
  <2>3. \A d \in CPUs : t \in Elems(ready'[d]) => machine[t] = d[1]
    BY <1>1, <1>5, <2>2, PutsWhere
  <2>4. \A d \in CPUs : t \in Elems(shared'[d]) /\ affinity[t] = NoAff => machine[t] = d[1]
    BY <1>1, <2>2, PutsWhere
  <2>. QED  BY <1>1, <1>2, <1>3, <1>4, <2>1, <2>3, <2>4, Zenon DEF AtHome, Elems
<1>7. ASSUME NEW u \in Threads \ {t}  PROVE Stays(c, u)
  <2>1. Holds(c, u)' => Holds(c, u)
    BY <1>1, Zenon DEF Holds
  <2>2. \A d \in CPUs : /\ u \in Elems(ready'[d]) => u \in Elems(ready[d])
                        /\ u \in Elems(shared'[d]) => u \in Elems(shared[d])
    BY <1>1, PutsWhere
  <2>. QED  BY <1>2, <1>3, <1>4, <2>1, <2>2, Zenon DEF Stays
<1>. QED  BY <1>1, <1>6, <1>7, HomeStep, Zenon

LEMMA HomeMigrate ==
  ASSUME TypeOK, AllSeparate, AllAtHome, NEW c \in CPUs, NEW t \in Threads, Migrate(c, t)
  PROVE  AllAtHome'
<1>. USE DEF cpuVars, queues, fpuVars, places, Goto
<1>1. Holds(c, t) /\ exit[t] = "MIGRATING" /\ affinity[t] \in CPUs /\ affinity[t] # NoAff
  BY NamesAssumption, Zenon DEF Migrate, InSched, Holds, IsLocal, TypeOK
<1>2. /\ pc'[c] = "pick" /\ Elsewhere(c) /\ exit' = exit /\ affinity' = affinity /\ machine' = machine
      /\ ready' = ready
      /\ \A d \in CPUs : shared'[d] = IF d = affinity[t] THEN Append(shared[d], t) ELSE shared[d]
  BY <1>1, Zenon DEF Migrate, PutShared, Elsewhere, TypeOK
<1>3. \A u \in Threads : ownedFpu'[u] \in {ownedFpu[u], NoCpu}
  BY FpuReleases, Zenon DEF Migrate
<1>4. \A u \in Threads : ~Holds(c, u)'
  BY <1>2, Zenon DEF Holds
<1>5. \A d \in CPUs : Elems(Append(shared[d], t)) = Elems(shared[d]) \cup {t}
  BY ElemsAppend, Zenon DEF TypeOK
<1>6. AtHome(t)'
  <2>1. \A d \in CPUs : ~Holds(d, t)' /\ t \notin Elems(ready[d])
    BY <1>1, <1>2, <1>4, InHand, HoldsElsewhere DEF InQueue, Queued
  <2>2. ownedFpu[t] # NoCpu => t \in FpuUsers
    BY Zenon DEF AllAtHome, AtHome
  <2>. QED  BY <1>1, <1>2, <1>3, <2>1, <2>2, Zenon DEF AtHome, Elems
<1>7. \A u \in Threads : u # t => Stays(c, u)
  BY <1>2, <1>3, <1>4, <1>5 DEF Stays
<1>. QED  BY <1>2, <1>6, <1>7, HomeStep, Zenon

LEMMA HomeDrain ==
  ASSUME TypeOK, AllSeparate, AllClean, AllAtHome, NEW c \in CPUs, Drain(c) \/ DrainUrgent(c)
  PROVE  AllAtHome'
<1>. USE DEF cpuVars, queues, fpuVars, places, Goto
<1>1. PICK i \in DOMAIN shared[c], front \in BOOLEAN, t \in Threads :
        /\ t = shared[c][i] /\ DrainTo(c, t, front)
        /\ shared' = [shared EXCEPT ![c] = Without(@, i)]
        /\ UNCHANGED <<cpuVars, fpuVars, affinity, waiting>>
  BY DrainsOne, Zenon
<1>2. PICK g \in CPUs : g = IF affinity[t] = NoAff THEN c ELSE affinity[t]
  BY Zenon DEF TypeOK
<1>3. t \in Elems(shared[c]) /\ InQueue(t) /\ QueuedOnce(ready, shared)
  BY <1>1, Entries, Zenon DEF AllSeparate
<1>4. IsLocal(c, affinity[t])
  BY <1>3, Zenon DEF AllClean, Clean
<1>5. g[1] = c[1] /\ IsLocal(c, g)
  BY <1>2, <1>4, NamesAssumption, Zenon DEF IsLocal
<1>6. /\ pc' = pc /\ current' = current /\ chosen' = chosen
      /\ affinity' = affinity /\ ownedFpu' = ownedFpu /\ machine'[t] = c[1]
      /\ \A u \in Threads : u # t => exit'[u] = exit[u] /\ machine'[u] = machine[u]
      /\ ready' = [ready EXCEPT ![g] = IF front THEN <<t>> \o @ ELSE Append(@, t)]
  BY <1>1, <1>2, <1>5, Zenon DEF DrainTo, TypeOK
<1>7. Elsewhere(c) /\ \A d \in CPUs, u \in Threads : Holds(d, u)' <=> Holds(d, u)
  BY <1>6, Zenon DEF Elsewhere, Holds
<1>8. /\ \A d \in CPUs : t \notin Elems(shared'[d])
      /\ \A d \in CPUs, u \in Threads : u \in Elems(shared'[d]) => u \in Elems(shared[d])
  <2>1. Loses(shared', shared, c, t)
    BY <1>1, <1>3, WithoutLoses, Zenon DEF QueuedOnce
  <2>2. \A d \in CPUs : Elems(shared'[d]) = Elems(shared[d]) \ {t}
    BY <1>3, <2>1, Zenon DEF Loses, QueuedOnce
  <2>. QED  BY <2>2, Zenon
<1>9. \A d \in CPUs : t \notin Elems(ready[d])
  BY <1>3, Zenon DEF QueuedOnce
<1>10. \A d \in CPUs, u \in Threads :
         u \in Elems(ready'[d]) => u \in Elems(ready[d]) \/ (u = t /\ d = g)
  <2>1. ready \in [CPUs -> Seq(Threads)] /\ Simple(ready[g]) /\ t \notin Elems(ready[g])
    BY <1>3, <1>9, Zenon DEF QueuedOnce
  <2>2. Gains(ready', ready, g, t)
    BY <1>6, <2>1, AppendGains, PrependGains, Zenon
  <2>. QED  BY <2>2, Zenon DEF Gains
<1>11. AtHome(t)'
  <2>1. \A d \in CPUs : ~Holds(d, t)'
    BY <1>3, <1>7, InQueueOnly, Zenon
  <2>2. \A d \in CPUs : t \in Elems(ready'[d]) => d[1] = c[1]
    BY <1>5, <1>9, <1>10, Zenon
  <2>3. affinity[t] = NoAff \/ affinity[t][1] = c[1]
    BY <1>4, Zenon DEF IsLocal
  <2>4. ownedFpu[t] # NoCpu => t \in FpuUsers
    BY Zenon DEF AllAtHome, AtHome
  <2>. QED  BY <1>6, <1>8, <2>1, <2>2, <2>3, <2>4, Zenon DEF AtHome, Elems
<1>12. \A u \in Threads : u # t => Stays(c, u)
  BY <1>6, <1>7, <1>8, <1>10, Zenon DEF Stays
<1>. QED  BY <1>7, <1>11, <1>12, HomeStep, Zenon

LEMMA HomePick ==
  ASSUME TypeOK, AllSeparate, AllAtHome, NEW c \in CPUs, NEW i \in DOMAIN ready[c], Pick(c, i)
  PROVE  AllAtHome'
<1>. USE DEF cpuVars, queues, fpuVars, places, Goto
<1>1. PICK t \in Threads : t = ready[c][i]
  BY DEF TypeOK
<1>2. t \in Elems(ready[c]) /\ InQueue(t) /\ QueuedOnce(ready, shared)
  BY <1>1, Entries, Zenon DEF AllSeparate
<1>3. /\ pc[c] = "pick" /\ affinity' = affinity /\ machine' = machine /\ ownedFpu' = ownedFpu
      /\ shared' = shared /\ Elsewhere(c)
      /\ (pc'[c] = "switch" /\ chosen'[c] = t) \/ pc' = pc
      /\ \A u \in Threads : exit[u] = "MIGRATING" => exit'[u] = "MIGRATING"
  BY <1>1 DEF Pick, Stops, Runnable, Elsewhere, TypeOK
<1>4. \A d \in CPUs : Elems(ready'[d]) = Elems(ready[d]) \ {t}
  <2>1. Loses(ready', ready, c, t)
    BY <1>1, <1>2, WithoutLoses, Zenon DEF QueuedOnce, Pick, Without
  <2>. QED  BY <1>2, <2>1, Zenon DEF Loses, QueuedOnce
<1>5. AtHome(t)'
  <2>1. \A d \in CPUs : Holds(d, t)' => d = c
    BY <1>2, <1>3, HoldsElsewhere, InQueueOnly, Zenon
  <2>2. machine[t] = c[1] /\ AtHome(t)
    BY <1>2, Zenon DEF AllAtHome, AtHome
  <2>. QED  BY <1>3, <1>4, <2>1, <2>2, Zenon DEF AtHome, Elems
<1>6. ASSUME NEW u \in Threads, u # t  PROVE Stays(c, u)
  <2>1. ~Holds(c, u)'
    BY <1>3, <1>6, Zenon DEF Holds
  <2>. QED  BY <1>3, <1>4, <2>1, Zenon DEF Stays
<1>. QED  BY <1>3, <1>5, <1>6, HomeStep, Zenon

LEMMA HomeNext ==
  ASSUME TypeOK, AllSeparate, AllClean, AllAtHome,
         Threads \subseteq Yields, OneThreadGroups, Homely, [Next]_vars
  PROVE  AllAtHome'
<1>1. CASE UNCHANGED vars
  <2>1. ASSUME NEW u \in Threads  PROVE AtHome(u)'
    <3>1. AtHome(u)
      BY Zenon DEF AllAtHome
    <3>2. \A c \in CPUs : Holds(c, u)' <=> Holds(c, u)
      BY <1>1, Zenon DEF vars, cpuVars, Holds
    <3>. QED  BY <1>1, <3>1, <3>2, Zenon DEF vars, queues, places, fpuVars, AtHome, Elems
  <2>. QED  BY <2>1, Zenon DEF AllAtHome
<1>2. ASSUME NEW c \in CPUs, Interrupt(c) \/ SchedStep(c) \/ UserStep(c)  PROVE AllAtHome'
  <2>1. CASE \E t \in Idents :
               \/ Interrupt(c) \/ Doorbell(c) \/ Finish(c) \/ PickIdle(c)
               \/ LeaveAside(c, t) \/ SwitchTo(c, t)
               \/ t \in Threads /\ (Retire(c, t)
                                      \/ (t \in Yields /\ (Block(c, t) \/ ExitGroup(c, t))))
    BY <2>1, HomeQuiet, Zenon
  <2>2. CASE \E t \in Threads : \E aff \in CPUs :
               SetAffinityGlobal(c, t, aff) \/ \E u \in Threads : SetAffinityOf(c, t, u, aff)
    BY <2>2, HomeBinds, Zenon
  <2>3. CASE \E t \in Threads : Create(c, t) \/ Preempt(c, t) \/ Signal(c, t)
    BY <2>3, HomePuts, Zenon
  <2>4. CASE \E t \in Threads : UseFpu(c, t) \/ Migrate(c, t)
    BY <2>4, HomeFpu, HomeMigrate, Zenon
  <2>5. CASE Drain(c) \/ DrainUrgent(c) \/ \E i \in DOMAIN ready[c] : Pick(c, i)
    BY <2>5, HomeDrain, HomePick, Zenon
  <2>6. Targets \subseteq CPUs /\ Idle \in Idents
    BY NamesAssumption, Zenon DEF Idents
  <2>. QED
    BY <1>2, <2>1, <2>2, <2>3, <2>4, <2>5, <2>6, Zenon DEF SchedStep, UserStep, Idents
<1>. QED  BY <1>1, <1>2, Zenon DEF Next

LEMMA HomeInit == Init => AllAtHome
<1>. SUFFICES ASSUME Init  PROVE AllAtHome
  BY Zenon
<1>1. \A t \in Threads, c \in CPUs : ~Holds(c, t)
  BY NamesAssumption, Zenon DEF Init, Holds
<1>2. \A t \in Threads, c \in CPUs : t \notin Elems(shared[c]) /\ t \notin Elems(ready[c])
  BY DEF Init, Elems
<1>. QED  BY <1>1, <1>2, Zenon DEF Init, AllAtHome, AtHome

-----------------------------------------------------------------------------
(* The theorems                                                            *)

\* Every variable keeps its type: no queue, cpuid or machine_id ever names a CPU
\* that does not exist, whatever NO_AFF and -1 go through get_cpubind and the drain.
THEOREM SchedTypeSafe == Spec => []TypeOK
BY Initially, TypeStep, PTL DEF Spec

\* However many machines, CPUs and threads there are, and however threads are woken,
\* moved, drained and preempted, a thread is at one place at a time, if it makes no
\* other system call between usys_set_affinity(-2, aff) and its yield.
THEOREM OnePlace ==
  ASSUME Threads \subseteq Yields
  PROVE  Spec => []AtOnePlace
<1>1. Init => TypeOK /\ AllSeparate
  BY Initially, Zenon
<1>2. TypeOK /\ AllSeparate /\ [Next]_vars => (TypeOK /\ AllSeparate)'
  BY TypeStep, SeparateStep, Zenon
<1>3. TypeOK /\ AllSeparate => AtOnePlace
  BY SeparateIsOnePlace, Zenon
<1>. QED  BY <1>1, <1>2, <1>3, PTL DEF Spec

\* A thread in the waiting queue of a notification is in no queue of the scheduler,
\* as wait_notific_internal relies on, under the same condition.
THEOREM WaitersUnqueued ==
  ASSUME Threads \subseteq Yields
  PROVE  Spec => []WaitsUnqueued
<1>1. Init => TypeOK /\ AllSeparate
  BY Initially, Zenon
<1>2. TypeOK /\ AllSeparate /\ [Next]_vars => (TypeOK /\ AllSeparate)'
  BY TypeStep, SeparateStep, Zenon
<1>3. TypeOK /\ AllSeparate => WaitsUnqueued
  BY SeparateIsOnePlace, Zenon
<1>. QED  BY <1>1, <1>2, <1>3, PTL DEF Spec

\* No BUG_ON of rr_sched, of the drain loop or of switch_to_thread fires on any number
\* of machines, CPUs and threads, if moreover every thread is a program of its own:
\* with two threads in a cap group, sys_exit_group can hit the one that a CPU has
\* chosen and is about to switch to.
THEOREM NoBugEver ==
  ASSUME Threads \subseteq Yields, OneThreadGroups
  PROVE  Spec => []NoBug
<1>. DEFINE I == TypeOK /\ AllSeparate /\ AllClean
<1>1. Init => I
  BY Initially, CleanInit, Zenon
<1>2. I /\ [Next]_vars => I'
  BY TypeStep, SeparateStep, CleanNext, Zenon
<1>3. I => NoBug
  BY Zenon DEF AllClean
<1>. HIDE DEF I
<1>. QED  BY <1>1, <1>2, <1>3, PTL DEF Spec

\* A thread in user mode runs on the machine its machine_id names, on any number of
\* machines, CPUs and threads, if moreover no thread is bound by capability to a CPU
\* of another machine and no thread that uses the FPU is signalled from another one.
THEOREM RunsAtHome ==
  ASSUME Threads \subseteq Yields, OneThreadGroups, Homely
  PROVE  Spec => []RunsOnItsMachine
<1>. DEFINE I == TypeOK /\ AllSeparate /\ AllClean /\ AllAtHome
<1>1. Init => I
  BY Initially, CleanInit, HomeInit, Zenon
<1>2. I /\ [Next]_vars => I'
  BY TypeStep, SeparateStep, CleanNext, HomeNext, Zenon
<1>3. I => RunsOnItsMachine
  BY DEF AllAtHome, AtHome, Holds, TypeOK, RunsOnItsMachine
<1>. HIDE DEF I
<1>. QED  BY <1>1, <1>2, <1>3, PTL DEF Spec
=============================================================================
