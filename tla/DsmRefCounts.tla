---------------------------- MODULE DsmRefCounts ----------------------------
(***************************************************************************)
(* Reference counts stay exact through crashes and recoveries, for every   *)
(* number of machines, objects and fields and every depth of the ring, on  *)
(* a cluster as in DsmRefProofs whose objects embed no fields and whose    *)
(* fields are each used by one machine.                                    *)
(***************************************************************************)
EXTENDS DsmRefProofs, FiniteSetTheorems

\* No object embeds references to others.
Flat == \A o \in Objs : Embedded[o] = << >>
\* The callers of one field run on one machine.
Private == \A l \in Locs : \A m, n \in MayUse[l] : m = n
\* The u16 of the word can count the fields.
Countable == IsFiniteSet(Locs) /\ Cardinality(Locs) < U16

\* What the field holds once the operation is done, and before.
After(f, o) == IF f = "link" THEN o ELSE Null
Before(f, o) == IF f = "link" THEN Null ELSE o

\* An operation runs on a field of its machine, which it has not written
\* before the pointer write; a CPU that recovers does nothing else.
FieldOK(c) ==
  /\ todo[c] = << >>
  /\ pc[c] \in InOp => MachineOf[c] \in MayUse[op[c].loc]
  /\ pc[c] \notin InOp => op[c] = NoOp
  /\ pc[c] \in Pre \cup {"ptr"} => ptr[op[c].loc] = Before(op[c].func, op[c].obj)
  /\ rec[c] \in Machines => pc[c] \in Recovering \cup {"embed"}
FieldInv == \A c \in Cpus : FieldOK(c)

\* A machine logs operations of its CPU on its own fields only.
OwnLog(m) == \A s \in Logged(m) : m \in MayUse[redo[m][s].loc] /\ \E c \in Cpus : MachineOf[c] = m
LogInv == \A m \in Machines : OwnLog(m)

\* The latest entry of a machine whose slot is in use shows in the field it
\* names, unless it is that of the operation the machine is in: repeating a
\* finished operation changes nothing.
Done(c) ==
  LET d == MachineOf[c] IN
  pc[c] # "ptr" /\ (pc[c] \in Pre => LatestRedo(d).era < era[d][d])
Settled(c) ==
  LET d == MachineOf[c]
      r == LatestRedo(d)
  IN token[d] /\ Logged(d) # {} /\ Done(c) => ptr[r.loc] = After(r.func, r.obj)
SettledInv == \A c \in Cpus : Settled(c)

\* Recovery goes on to the pointer write only when it is to repeat an
\* operation, and past it only when no committed one is left unfinished: while
\* it scans the rows, one that it has not read yet shows such an operation.
RecOK(c) ==
  LET d == rec[c] IN
  d \in Machines =>
    /\ Live(c) => token[d]
    /\ pc[c] \in {"embed", "rclear"} => \A b \in CpusOf(d) : pc[b] # "ptr"
    /\ pc[c] = "rscan" => \A b \in CpusOf(d) : pc[b] = "ptr" =>
                            \E j \in Machines : j >= scan[c] /\ SeenBy(j, d)
    /\ pc[c] = "rscan" => scan[c] <= NMachines
    /\ pc[c] = "rapply" => NeedRedo(d)
RecInv ==
  /\ \A c \in Cpus : RecOK(c)
  /\ \A b, c \in Cpus : Live(b) /\ Live(c) /\ rec[b] = rec[c] /\ rec[c] \in Machines => b = c

\* The fields that refer to an object, with the operations between their CAS
\* and their pointer write taken as done.
Refers(l, o) ==
  \/ ptr[l] = o /\ \A c \in Cpus : pc[c] = "ptr" => op[c].loc # l
  \/ \E c \in Cpus : pc[c] = "ptr" /\ op[c].loc = l /\ op[c].func = "link" /\ op[c].obj = o
Referrers(o) == {l \in Locs : Refers(l, o)}
CountInv == \A o \in Objs : refInfo[o].cnt = Cardinality(Referrers(o))

CInv == IInv /\ FieldInv /\ LogInv /\ SettledInv /\ RecInv /\ CountInv

-----------------------------------------------------------------------------
\* Two operations never work on the same field.
LEMMA FieldsApart ==
  ASSUME OneCpuPerMachine, Private, IInv, FieldInv, NEW b \in Cpus, NEW c \in Cpus,
         pc[b] \in InOp, op[b].loc = op[c].loc
  PROVE  b = c
<1>1. op[b].loc \in Locs
  BY Zenon DEF IInv, OpInv, OpOK
<1>2. op[c] # NoOp
  BY <1>1, NullAssumption DEF NoOp
<1>3. pc[c] \in InOp
  BY <1>2, Zenon DEF FieldInv, FieldOK
<1>4. MachineOf[b] \in MayUse[op[b].loc] /\ MachineOf[c] \in MayUse[op[b].loc]
  BY <1>3, Zenon DEF FieldInv, FieldOK
<1> QED
  BY <1>1, <1>4, Zenon DEF Private, OneCpuPerMachine

\* The field the latest entry names belongs to the machine that logged it.
LEMMA LatestOwn ==
  ASSUME IInv, LogInv, NEW d \in Machines, Logged(d) # {}
  PROVE  /\ LatestRedo(d).loc \in Locs /\ LatestRedo(d).obj \in Objs
         /\ LatestRedo(d).era \in Nat /\ LatestRedo(d).era <= era[d][d]
         /\ d \in MayUse[LatestRedo(d).loc] /\ \E c \in Cpus : MachineOf[c] = d
<1>1. PICK s \in Logged(d) : LatestRedo(d) = redo[d][s]
  BY LatestIsLogged, Zenon
<1>2. s \in 0 .. RedoCnt - 1
  BY Zenon DEF Logged
<1> QED
  BY <1>1, <1>2, FieldTypes, Zenon DEF IInv, RingInv, RingOK, LogInv, OwnLog

\* Nothing has happened in the initial state.
LEMMA InitCInv == Countable /\ Init => CInv
<1> SUFFICES ASSUME Countable, Init PROVE CInv
  BY Zenon
<1>1. IInv
  BY InitIInv, Zenon
<1>2. FieldInv
  BY DEF Init, FieldInv, FieldOK, InOp, Pre, NoMachine, Machines
<1>3. \A m \in Machines : Logged(m) = {}
  BY Zenon DEF Init, Logged, EmptyRing, EmptyRedo
<1>4. LogInv /\ SettledInv
  BY <1>3, MachineOfAssumption, Zenon DEF LogInv, OwnLog, SettledInv, Settled
<1>5. RecInv
  <2>1. \A c \in Cpus : rec[c] \notin Machines
    BY DEF Init, NoMachine, Machines
  <2> QED
    BY <2>1, Zenon DEF RecInv, RecOK
<1>6. CountInv
  <2> SUFFICES ASSUME NEW o \in Objs PROVE refInfo[o].cnt = Cardinality(Referrers(o))
    BY Zenon DEF CountInv
  <2>1. \A l \in Locs : ~Refers(l, o)
    BY NullAssumption, Zenon DEF Init, Refers
  <2>2. Referrers(o) = {}
    BY <2>1, Zenon DEF Referrers
  <2>3. refInfo[o].cnt = 0
    BY DEF Init, ZeroInfo
  <2> QED
    BY <2>2, <2>3, FS_EmptySet, Zenon
<1> QED
  BY <1>1, <1>2, <1>4, <1>5, <1>6, Zenon DEF CInv

-----------------------------------------------------------------------------
(* The fields operations work on                                           *)

\* A CPU whose operation and whose field are left alone.
LEMMA FieldFrame ==
  ASSUME NEW c \in Cpus, FieldOK(c), pc'[c] = pc[c], op'[c] = op[c], todo'[c] = todo[c],
         rec'[c] = rec[c], pc[c] \in InOp => ptr'[op[c].loc] = ptr[op[c].loc]
  PROVE  FieldOK(c)'
<1>1. Pre \cup {"ptr"} \subseteq InOp
  BY Zenon DEF InOp
<1> QED
  BY <1>1, Zenon DEF FieldOK

\* The two steps of recovery that end the history of a dead machine's CPU.
LEMMA FieldEnds ==
  ASSUME NEW b \in Cpus, pc'[b] \in {"idle", "embed"}, op'[b] = NoOp, todo'[b] = << >>,
         rec'[b] \in Machines => pc'[b] = "embed"
  PROVE  FieldOK(b)'
<1>1. pc'[b] \notin InOp /\ pc'[b] \notin Pre \cup {"ptr"}
  BY DEF InOp, Pre
<1> QED
  BY <1>1, Zenon DEF FieldOK

\* Operations stay on their machine's fields.
LEMMA FieldStep ==
  ASSUME OneCpuPerMachine, MaxBoots = 1, Flat, Private, CInv, [Next]_vars
  PROVE  FieldInv'
<1>0. IInv /\ FieldInv /\ LogInv /\ TypeOK /\ OpInv
  BY Zenon DEF CInv, IInv
<1>t. /\ pc \in [Cpus -> Steps] /\ op \in [Cpus -> Operation] /\ todo \in [Cpus -> Seq(Locs)]
      /\ rec \in [Cpus -> Machines \cup {NoMachine}] /\ ptr \in [Locs -> Objs \cup {Null}]
  BY <1>0, Zenon DEF TypeOK
<1>a. MachineOf \in [Cpus -> Machines]
  BY MachineOfAssumption, Zenon
<1>b. /\ {"idle", "embed"} \cap InOp = {} /\ Recovering \cap InOp = {}
      /\ Pre \cup {"ptr"} \subseteq InOp
  BY DEF InOp, Pre, Recovering
<1> SUFFICES ASSUME NEW c \in Cpus PROVE FieldOK(c)'
  BY Zenon DEF FieldInv
<1>c. FieldOK(c)
  BY <1>0, Zenon DEF FieldInv
<1>1. ASSUME UNCHANGED <<pc, op, todo, rec, ptr>> PROVE FieldOK(c)'
  BY <1>1, <1>c, FieldFrame, Zenon
<1>2. ASSUME NEW m \in Machines, Join(m) \/ Leave(m) \/ Crash(m) PROVE FieldOK(c)'
  BY <1>1, <1>2, Zenon DEF Join, Leave, Crash, shared, cpuVars
<1>3. ASSUME NEW b \in Cpus, NEW l \in Locs, NEW o \in Objs, StartLink(b, l, o) PROVE FieldOK(c)'
  <2>1. CASE c # b
    BY <1>3, <1>c, <1>t, <2>1, FieldFrame, Zenon DEF StartLink, shared
  <2>2. CASE c = b
    <3>1. /\ pc'[c] = "load" /\ op'[c] = [func |-> "link", loc |-> l, obj |-> o]
          /\ todo'[c] = todo[c] /\ rec'[c] = rec[c] /\ ptr' = ptr
          /\ pc[c] = "idle" /\ ptr[l] = Null /\ MachineOf[c] \in MayUse[l]
      BY <1>3, <1>t, <2>2, Zenon DEF StartLink, Uses, shared
    <3>2. rec[c] \notin Machines
      BY <1>c, <3>1 DEF FieldOK, Recovering
    <3> QED
      BY <1>c, <3>1, <3>2 DEF FieldOK, InOp, Pre, Before
  <2> QED
    BY <2>1, <2>2, Zenon
<1>4. ASSUME NEW b \in Cpus, NEW l \in Locs, StartUnlink(b, l) PROVE FieldOK(c)'
  <2>1. CASE c # b
    BY <1>4, <1>c, <1>t, <2>1, FieldFrame, Zenon DEF StartUnlink, shared
  <2>2. CASE c = b
    <3>1. /\ pc'[c] = "load" /\ op'[c] = [func |-> "unlink", loc |-> l, obj |-> ptr[l]]
          /\ todo'[c] = todo[c] /\ rec'[c] = rec[c] /\ ptr' = ptr
          /\ pc[c] = "idle" /\ MachineOf[c] \in MayUse[l]
      BY <1>4, <1>t, <2>2, Zenon DEF StartUnlink, Uses, shared
    <3>2. rec[c] \notin Machines
      BY <1>c, <3>1 DEF FieldOK, Recovering
    <3> QED
      BY <1>c, <3>1, <3>2 DEF FieldOK, InOp, Pre, Before
  <2> QED
    BY <2>1, <2>2, Zenon
<1>5. ASSUME NEW b \in Cpus, NEW d \in Machines, StartRecovery(b, d) PROVE FieldOK(c)'
  <2>1. CASE c # b
    BY <1>5, <1>c, <1>t, <2>1, FieldFrame, Zenon DEF StartRecovery, shared
  <2>2. CASE c = b
    <3>1. /\ pc'[c] = "rcheck" /\ op'[c] = op[c] /\ todo'[c] = todo[c] /\ pc[c] = "idle"
      BY <1>5, <1>t, <2>2, Zenon DEF StartRecovery, shared
    <3> QED
      BY <1>c, <3>1 DEF FieldOK, InOp, Pre, Recovering
  <2> QED
    BY <2>1, <2>2, Zenon
<1>6. ASSUME NEW b \in Cpus, Load(b) \/ EraSet(b) \/ WriteRedo(b) \/ CasInfo(b) PROVE FieldOK(c)'
  <2>1. UNCHANGED <<op, todo, rec, ptr>> /\ (c # b => pc'[c] = pc[c])
    BY <1>6, <1>t, Zenon DEF Load, EraSet, WriteRedo, CasInfo, shared
  <2>2. c = b => pc[c] \in Pre /\ pc'[c] \in Pre \cup {"ptr"}
    BY <1>6, <1>t, Zenon DEF Load, EraSet, WriteRedo, CasInfo, Pre
  <2>3. CASE c # b
    BY <1>c, <2>1, <2>3, FieldFrame, Zenon
  <2>4. CASE c = b
    <3>1. rec[c] \notin Machines
      BY <1>c, <2>2, <2>4 DEF FieldOK, Recovering, Pre
    <3> QED
      BY <1>b, <1>c, <2>1, <2>2, <2>4, <3>1, Zenon DEF FieldOK, InOp
  <2> QED
    BY <2>3, <2>4, Zenon
<1>7. ASSUME NEW b \in Cpus, WritePtr(b) PROVE FieldOK(c)'
  <2>1. UNCHANGED <<op, todo, rec>> /\ (c # b => pc'[c] = pc[c]) /\ pc[b] = "ptr" /\ pc'[b] = "inc"
    BY <1>7, <1>t, Zenon DEF WritePtr
  <2>2. pc[b] \in InOp /\ op[b].loc \in Locs
    BY <1>0, <2>1, Zenon DEF InOp, OpInv, OpOK
  <2>3. CASE c # b
    <3>1. pc[c] \in InOp => op[c].loc # op[b].loc /\ op[c].loc \in Locs
      BY <1>0, <2>2, <2>3, FieldsApart, Zenon DEF OpInv, OpOK
    <3>2. pc[c] \in InOp => ptr'[op[c].loc] = ptr[op[c].loc]
      BY <1>7, <1>t, <3>1, Zenon DEF WritePtr
    <3> QED
      BY <1>c, <2>1, <2>3, <3>2, FieldFrame, Zenon
  <2>4. CASE c = b
    <3>1. rec[c] \notin Machines
      BY <1>c, <2>1, <2>4 DEF FieldOK, Recovering
    <3> QED
      BY <1>c, <2>1, <2>2, <2>4, <3>1 DEF FieldOK, InOp, Pre
  <2> QED
    BY <2>3, <2>4, Zenon
<1>8. ASSUME NEW b \in Cpus, EraInc(b) PROVE FieldOK(c)'
  <2>1. CASE c # b
    BY <1>8, <1>c, <1>t, <2>1, FieldFrame, Zenon DEF EraInc
  <2>2. CASE c = b
    <3>1. pc[c] = "inc" /\ pc'[c] = "embed" /\ op'[c] = NoOp /\ rec'[c] = rec[c] /\ todo[c] = << >>
      BY <1>8, <1>c, <1>t, <2>2, Zenon DEF EraInc, FieldOK
    <3>2. op[c].obj \in Objs
      BY <1>0, <3>1, Zenon DEF InOp, OpInv, OpOK
    <3>3. Embedded[op[c].obj] \o todo[c] = << >>
      BY <3>1, <3>2 DEF Flat
    <3>4. todo'[c] = << >>
      BY <1>8, <1>t, <2>2, <3>1, <3>3, Zenon DEF EraInc
    <3> QED
      BY <3>1, <3>4, FieldEnds, Zenon
  <2> QED
    BY <2>1, <2>2, Zenon
<1>9. ASSUME NEW b \in Cpus, Embed(b) PROVE FieldOK(c)'
  BY <1>0, <1>9, Zenon DEF Embed, FieldInv, FieldOK
<1>10. ASSUME NEW b \in Cpus, Return(b) \/ CheckVisible(b) \/ ScanEra(b) PROVE FieldOK(c)'
  <2>1. UNCHANGED <<op, todo, rec, ptr>> /\ (c # b => pc'[c] = pc[c])
    BY <1>10, <1>t, Zenon DEF Return, CheckVisible, ScanEra, shared
  <2>2. c = b => /\ pc[c] \in Recovering \cup {"embed"}
                 /\ \/ pc'[c] \in Recovering
                    \/ pc'[c] = "idle" /\ rec[c] = NoMachine
    BY <1>10, <1>t, Zenon DEF Return, CheckVisible, ScanEra, Recovering
  <2>3. NoMachine \notin Machines
    BY DEF NoMachine, Machines
  <2>4. CASE c # b
    BY <1>c, <2>1, <2>4, FieldFrame, Zenon
  <2>5. CASE c = b
    <3>1. pc[c] \notin InOp /\ pc'[c] \notin InOp
      BY <1>b, <2>2, <2>5, Zenon
    <3> QED
      BY <1>b, <1>c, <2>1, <2>2, <2>3, <2>5, <3>1, Zenon DEF FieldOK
  <2> QED
    BY <2>4, <2>5, Zenon
<1>11. ASSUME NEW b \in Cpus, ApplyRedo(b) PROVE FieldOK(c)'
  <2> DEFINE d == rec[b]
             r == LatestRedo(d)
  <2>1. pc[b] = "rapply" /\ d \in Machines /\ Logged(d) # {} /\ ~up[d] /\ up[MachineOf[b]]
    BY <1>0, <1>11, Zenon DEF ApplyRedo, Live, OpInv, OpOK, Recovering
  <2>2. r.loc \in Locs /\ r.obj \in Objs /\ d \in MayUse[r.loc]
    BY <1>0, <2>1, LatestOwn, Zenon
  <2>3. NoMachine \notin Machines
    BY DEF NoMachine, Machines
  <2>4. CASE c = b
    <3>1. op[c] = NoOp /\ todo[c] = << >>
      BY <1>b, <1>c, <2>1, <2>4 DEF FieldOK, Recovering
    <3>2. Embedded[r.obj] = << >>
      BY <2>2, Zenon DEF Flat
    <3>3. pc'[c] = "embed" /\ op'[c] = NoOp /\ todo'[c] = << >>
      BY <1>11, <2>4, <3>1, <3>2, Zenon DEF ApplyRedo
    <3> QED
      BY <3>3, FieldEnds, Zenon
  <2>5. CASE c # b /\ MachineOf[c] = d
    <3>1. pc'[c] = "idle" /\ op'[c] = NoOp /\ todo'[c] = << >> /\ rec'[c] = NoMachine
      BY <1>11, <2>5, Zenon DEF ApplyRedo
    <3> QED
      BY <2>3, <3>1, FieldEnds, Zenon
  <2>6. CASE c # b /\ MachineOf[c] # d
    <3>1. pc'[c] = pc[c] /\ op'[c] = op[c] /\ todo'[c] = todo[c] /\ rec'[c] = rec[c]
      BY <1>11, <2>6, Zenon DEF ApplyRedo
    <3>2. pc[c] \in InOp => op[c].loc # r.loc /\ op[c].loc \in Locs
      BY <1>0, <1>c, <2>2, <2>6, Zenon DEF FieldOK, Private, OpInv, OpOK
    <3>3. pc[c] \in InOp => ptr'[op[c].loc] = ptr[op[c].loc]
      BY <1>11, <1>t, <2>2, <3>2, Zenon DEF ApplyRedo
    <3> QED
      BY <1>c, <3>1, <3>3, FieldFrame, Zenon
  <2> QED
    BY <2>4, <2>5, <2>6, Zenon
<1>12. ASSUME NEW b \in Cpus, ClearSlot(b) PROVE FieldOK(c)'
  <2>1. NoMachine \notin Machines /\ pc[b] \notin InOp
    BY <1>b, <1>12 DEF NoMachine, Machines, ClearSlot, Recovering
  <2>2. CASE c = b \/ MachineOf[c] = rec[b]
    <3>1. todo[c] = << >> /\ (c = b => op[c] = NoOp)
      BY <1>c, <2>1, Zenon DEF FieldOK
    <3>2. pc'[c] = "idle" /\ op'[c] = NoOp /\ todo'[c] = << >> /\ rec'[c] = NoMachine
      BY <1>12, <2>2, <3>1, Zenon DEF ClearSlot
    <3> QED
      BY <2>1, <3>2, FieldEnds, Zenon
  <2>3. CASE ~(c = b \/ MachineOf[c] = rec[b])
    <3>1. pc'[c] = pc[c] /\ op'[c] = op[c] /\ todo'[c] = todo[c] /\ rec'[c] = rec[c] /\ ptr' = ptr
      BY <1>12, <2>3, Zenon DEF ClearSlot
    <3> QED
      BY <1>c, <3>1, FieldFrame, Zenon
  <2> QED
    BY <2>2, <2>3, Zenon
<1>13. CASE UNCHANGED vars
  BY <1>1, <1>13, Zenon DEF vars
<1> QED
  BY <1>2, <1>3, <1>4, <1>5, <1>6, <1>7, <1>8, <1>9, <1>10, <1>11, <1>12, <1>13, Zenon DEF Next, Step

-----------------------------------------------------------------------------
(* The ring and the fields it names                                        *)

\* A machine logs operations on its own fields only.
LEMMA LogStep ==
  ASSUME CInv, [Next]_vars
  PROVE  LogInv'
<1>0. TypeOK /\ OpInv /\ FieldInv /\ LogInv
  BY Zenon DEF CInv, IInv
<1>t. /\ redo \in [Machines -> Ring] /\ MachineOf \in [Cpus -> Machines] /\ cur \in [Cpus -> Nat]
      /\ op \in [Cpus -> Operation]
  BY <1>0, MachineOfAssumption, Zenon DEF TypeOK
<1> SUFFICES ASSUME NEW m \in Machines PROVE OwnLog(m)'
  BY Zenon DEF LogInv
<1>1. ASSUME redo'[m] = redo[m] PROVE OwnLog(m)'
  BY <1>0, <1>1, Zenon DEF LogInv, OwnLog, Logged
<1>2. ASSUME redo'[m] = EmptyRing PROVE OwnLog(m)'
  BY <1>2 DEF OwnLog, Logged, EmptyRing, EmptyRedo
<1>3. ASSUME NEW n \in Machines, Join(n) \/ Leave(n) \/ Crash(n) PROVE OwnLog(m)'
  BY <1>t, <1>1, <1>2, <1>3, Zenon DEF Join, Leave, Crash, shared
<1>4. ASSUME NEW c \in Cpus, WriteRedo(c) PROVE OwnLog(m)'
  <2>1. CASE m # MachineOf[c]
    BY <1>t, <1>1, <1>4, <2>1, Zenon DEF WriteRedo
  <2>2. CASE m = MachineOf[c]
    <3> DEFINE z == cur[c] % RedoCnt
               e == [func |-> op[c].func, cnt |-> seen[c].cnt, era |-> cur[c],
                     loc |-> op[c].loc, obj |-> op[c].obj]
    <3>1. m \in MayUse[op[c].loc]
      BY <1>0, <1>4, <2>2, Zenon DEF WriteRedo, FieldInv, FieldOK, InOp, Pre
    <3>2. redo'[m] = [redo[m] EXCEPT ![z] = e]
      BY <1>t, <1>4, <2>2, Zenon DEF WriteRedo
    <3>3. redo[m] \in [0 .. RedoCnt - 1 -> Entry]
      BY <1>t, Zenon DEF Ring
    <3>4. e.loc = op[c].loc
      OBVIOUS
    <3> HIDE DEF z, e
    <3>5. \A s \in 0 .. RedoCnt - 1 : redo'[m][s] = IF s = z THEN e ELSE redo[m][s]
      BY <3>2, <3>3, Zenon
    <3> QED
      BY <1>0, <2>2, <3>1, <3>4, <3>5, Zenon DEF LogInv, OwnLog, Logged
  <2> QED
    BY <2>1, <2>2, Zenon
<1>5. ASSUME NEW c \in Cpus, Step(c), ~WriteRedo(c) PROVE redo' = redo
  BY <1>5, Zenon DEF Step, Load, EraSet, CasInfo, WritePtr, EraInc, Embed, Return,
     CheckVisible, ScanEra, ApplyRedo, ClearSlot, shared
<1>6. ASSUME NEW c \in Cpus, NEW l \in Locs, StartUnlink(c, l) \/ \E o \in Objs : StartLink(c, l, o)
      PROVE  redo' = redo
  BY <1>6, Zenon DEF StartUnlink, StartLink, shared
<1>7. ASSUME NEW c \in Cpus, NEW d \in Machines, StartRecovery(c, d) PROVE redo' = redo
  BY <1>7, Zenon DEF StartRecovery, shared
<1>8. CASE UNCHANGED vars
  BY <1>1, <1>8, Zenon DEF vars
<1> QED
  BY <1>1, <1>3, <1>4, <1>5, <1>6, <1>7, <1>8, Zenon DEF Next

\* A ring that is left alone keeps its latest entry.
LEMMA LatestFrame ==
  ASSUME NEW d \in Machines, redo'[d] = redo[d]
  PROVE  Logged(d)' = Logged(d) /\ LatestRedo(d)' = LatestRedo(d)
<1>1. Logged(d)' = Logged(d)
  BY Zenon DEF Logged
<1> QED
  BY <1>1, Zenon DEF LatestRedo

\* The entry of an operation that is about to try its CAS is the latest.
LEMMA LatestNext ==
  (IInv => \A c \in Cpus : pc[c] = "cas" => LatestRedo(MachineOf[c]).era = cur[c])'
<1>1. IInv => \A c \in Cpus : pc[c] = "cas" => LatestRedo(MachineOf[c]).era = cur[c]
  BY LatestIsOp, Zenon
<1> QED
  BY <1>1, PTL

\* A field that holds what the latest entry says keeps it.
LEMMA SettledFrame ==
  ASSUME NEW c \in Cpus, Settled(c), MachineOf[c] \in Machines,
         redo'[MachineOf[c]] = redo[MachineOf[c]],
         token'[MachineOf[c]] => token[MachineOf[c]],
         Done(c)' => Done(c),
         Logged(MachineOf[c]) # {} =>
           ptr'[LatestRedo(MachineOf[c]).loc] = ptr[LatestRedo(MachineOf[c]).loc]
  PROVE  Settled(c)'
  BY LatestFrame, Zenon DEF Settled

\* Finished operations stay visible in their fields.
LEMMA SettledStep ==
  ASSUME OneCpuPerMachine, MaxBoots = 1, Flat, Private, CInv, [Next]_vars
  PROVE  SettledInv'
<1>0. IInv /\ TypeOK /\ BootInv /\ OpInv /\ FieldInv /\ LogInv /\ SettledInv
  BY Zenon DEF CInv, IInv
<1>i. IInv'
  BY <1>0, IInvStep, Zenon
<1>t. /\ pc \in [Cpus -> Steps] /\ op \in [Cpus -> Operation] /\ redo \in [Machines -> Ring]
      /\ token \in [Machines -> BOOLEAN] /\ era \in [Machines -> [Machines -> Nat]]
      /\ ptr \in [Locs -> Objs \cup {Null}]
  BY <1>0, Zenon DEF TypeOK
<1> SUFFICES ASSUME NEW c \in Cpus PROVE Settled(c)'
  BY Zenon DEF SettledInv
<1> DEFINE d == MachineOf[c]
<1>a. d \in Machines /\ Settled(c) /\ MachineOf \in [Cpus -> Machines]
  BY <1>0, MachineOfAssumption, Zenon DEF SettledInv
<1>b. Logged(d) # {} => LatestRedo(d).loc \in Locs /\ d \in MayUse[LatestRedo(d).loc]
  BY <1>0, <1>a, LatestOwn, Zenon
<1>c. ASSUME NEW b \in Cpus, b # c PROVE MachineOf[b] # d
  BY <1>c, Zenon DEF OneCpuPerMachine
<1>d. ASSUME redo'[d] = redo[d], token'[d] = token[d], ptr' = ptr, Done(c)' => Done(c)
      PROVE  Settled(c)'
  BY <1>a, <1>d, SettledFrame, Zenon
<1>e. ASSUME pc[c] \notin Pre \cup {"ptr"} PROVE Done(c)
  BY <1>e, Zenon DEF Done
<1>f. ASSUME redo'[d] = redo[d], pc'[c] = pc[c], era'[d][d] = era[d][d] PROVE Done(c)' => Done(c)
  BY <1>a, <1>f, LatestFrame, Zenon DEF Done
<1>g. ASSUME UNCHANGED <<redo, token, ptr, era, pc>> PROVE Settled(c)'
  BY <1>d, <1>f, <1>g, Zenon
<1>1. ASSUME NEW m \in Machines, Join(m) PROVE Settled(c)'
  <2>1. CASE m = d
    <3>1. redo'[d] = EmptyRing
      BY <1>1, <1>t, <2>1, Zenon DEF Join
    <3>2. Logged(d)' = {}
      BY <3>1 DEF Logged, EmptyRing, EmptyRedo
    <3> QED
      BY <3>2, Zenon DEF Settled
  <2>2. CASE m # d
    <3>1. redo'[d] = redo[d] /\ token'[d] = token[d] /\ ptr' = ptr /\ pc' = pc
      BY <1>1, <1>t, <1>a, <2>2, Zenon DEF Join, cpuVars
    <3>2. era'[d][d] = era[d][d]
      BY <1>1, <1>t, <1>a, <2>2, Zenon DEF Join
    <3> QED
      BY <1>d, <1>f, <3>1, <3>2, Zenon
  <2> QED
    BY <2>1, <2>2, Zenon
<1>2. ASSUME NEW m \in Machines, Leave(m) PROVE Settled(c)'
  <2>1. CASE m = d
    BY <1>2, <1>t, <2>1, Zenon DEF Leave, Settled
  <2>2. CASE m # d
    <3>1. redo'[d] = redo[d] /\ token'[d] = token[d] /\ ptr' = ptr /\ pc' = pc /\ era' = era
      BY <1>2, <1>t, <1>a, <2>2, Zenon DEF Leave, cpuVars
    <3> QED
      BY <1>d, <1>f, <3>1, Zenon
  <2> QED
    BY <2>1, <2>2, Zenon
<1>3. ASSUME NEW m \in Machines, Crash(m) PROVE Settled(c)'
  BY <1>3, <1>g, Zenon DEF Crash, shared, cpuVars
<1>4. ASSUME NEW b \in Cpus, UNCHANGED <<redo, token, ptr, era>>, pc[b] \notin Pre \cup {"ptr"},
             c # b => pc'[c] = pc[c]
      PROVE  Settled(c)'
  BY <1>4, <1>d, <1>e, <1>f, Zenon
<1>5. ASSUME NEW b \in Cpus, NEW l \in Locs, StartUnlink(b, l) \/ \E o \in Objs : StartLink(b, l, o)
      PROVE  Settled(c)'
  <2>1. /\ UNCHANGED <<redo, token, ptr, era>> /\ pc[b] = "idle" /\ (c # b => pc'[c] = pc[c])
    BY <1>5, <1>t, Zenon DEF StartLink, StartUnlink, shared
  <2> QED
    BY <1>4, <2>1, Zenon DEF Pre
<1>6. ASSUME NEW b \in Cpus, NEW m \in Machines, StartRecovery(b, m) PROVE Settled(c)'
  <2>1. /\ UNCHANGED <<redo, token, ptr, era>> /\ pc[b] = "idle" /\ (c # b => pc'[c] = pc[c])
    BY <1>6, <1>t, Zenon DEF StartRecovery, shared
  <2> QED
    BY <1>4, <2>1, Zenon DEF Pre
<1>7. ASSUME NEW b \in Cpus, Return(b) \/ CheckVisible(b) \/ ScanEra(b) PROVE Settled(c)'
  <2>1. /\ UNCHANGED <<redo, token, ptr, era>> /\ (c # b => pc'[c] = pc[c])
        /\ pc[b] \in {"embed", "rcheck", "rscan"}
    BY <1>7, <1>t, Zenon DEF Return, CheckVisible, ScanEra, shared
  <2> QED
    BY <1>4, <2>1, Zenon DEF Pre
<1>8. ASSUME NEW b \in Cpus, Load(b) \/ EraSet(b) \/ CasInfo(b) PROVE Settled(c)'
  <2>1. UNCHANGED <<redo, token, ptr>> /\ (c # b => pc'[c] = pc[c])
    BY <1>8, <1>t, Zenon DEF Load, EraSet, CasInfo, shared
  <2>2. era'[d][d] = era[d][d]
    <3>1. ~EraSet(b) => era' = era
      BY <1>8, Zenon DEF Load, CasInfo, shared
    <3> QED
      BY <1>0, <1>a, <3>1, OwnEra, Zenon
  <2>3. c = b => pc[c] \in Pre /\ pc'[c] \in Pre \cup {"ptr"}
    BY <1>8, <1>t, Zenon DEF Load, EraSet, CasInfo, Pre
  <2>4. "ptr" \notin Pre
    BY DEF Pre
  <2>5. c = b => (Done(c)' => Done(c))
    BY <1>a, <2>1, <2>2, <2>3, <2>4, LatestFrame, Zenon DEF Done
  <2> QED
    BY <1>d, <1>f, <2>1, <2>2, <2>5, Zenon
<1>9. ASSUME NEW b \in Cpus, WriteRedo(b) PROVE Settled(c)'
  <2>1. CASE c # b
    <3>1. redo'[d] = redo[d]
      BY <1>9, <1>t, <1>a, <1>c, <2>1, Zenon DEF WriteRedo
    <3>2. UNCHANGED <<token, ptr, era>> /\ pc'[c] = pc[c]
      BY <1>9, <1>t, <2>1, Zenon DEF WriteRedo
    <3> QED
      BY <1>d, <1>f, <3>1, <3>2, Zenon
  <2>2. CASE c = b
    <3>1. pc[c] = "redo" /\ pc'[c] = "cas" /\ era' = era /\ cur' = cur
      BY <1>9, <1>t, <2>2, Zenon DEF WriteRedo
    <3>2. cur[c] = era[d][d] /\ era[d][d] \in Nat
      BY <1>0, <1>t, <1>a, <3>1 DEF OpInv, OpOK
    <3>3. LatestRedo(d)'.era = cur'[c]
      BY <1>i, <3>1, LatestNext, Zenon
    <3>4. ~Done(c)'
      BY <3>1, <3>2, <3>3 DEF Done, Pre
    <3> QED
      BY <3>4, Zenon DEF Settled
  <2> QED
    BY <2>1, <2>2, Zenon
<1>10. ASSUME NEW b \in Cpus, WritePtr(b) PROVE Settled(c)'
  <2>1. UNCHANGED <<redo, token, era, op>> /\ pc[b] = "ptr" /\ pc'[b] = "inc" /\ (c # b => pc'[c] = pc[c])
    BY <1>10, <1>t, Zenon DEF WritePtr
  <2>2. pc[b] \in InOp /\ op[b].loc \in Locs /\ MachineOf[b] \in MayUse[op[b].loc]
    BY <1>0, <2>1, Zenon DEF InOp, OpInv, OpOK, FieldInv, FieldOK
  <2>3. CASE c # b
    <3>1. Logged(d) # {} => LatestRedo(d).loc # op[b].loc
      BY <1>b, <1>c, <2>2, <2>3, Zenon DEF Private
    <3>2. Logged(d) # {} => ptr'[LatestRedo(d).loc] = ptr[LatestRedo(d).loc]
      BY <1>10, <1>t, <1>b, <3>1, Zenon DEF WritePtr
    <3> QED
      BY <1>a, <1>f, <2>1, <2>3, <3>2, SettledFrame, Zenon
  <2>4. CASE c = b
    <3>1. /\ LatestRedo(d).func = op[c].func /\ LatestRedo(d).loc = op[c].loc
          /\ LatestRedo(d).obj = op[c].obj
      BY <1>0, <2>1, <2>4, LatestIsOp, Zenon
    <3>2. LatestRedo(d)' = LatestRedo(d)
      BY <1>a, <2>1, LatestFrame, Zenon
    <3>3. ptr'[op[c].loc] = After(op[c].func, op[c].obj)
      BY <1>10, <1>t, <2>2, <2>4, Zenon DEF WritePtr, After
    <3> QED
      BY <3>1, <3>2, <3>3, Zenon DEF Settled
  <2> QED
    BY <2>3, <2>4, Zenon
<1>11. ASSUME NEW b \in Cpus, EraInc(b) PROVE Settled(c)'
  <2>1. UNCHANGED <<redo, token, ptr>> /\ pc[b] = "inc" /\ (c # b => pc'[c] = pc[c])
    BY <1>11, <1>t, Zenon DEF EraInc
  <2>2. c # b => era'[d][d] = era[d][d]
    BY <1>11, <1>t, <1>a, <1>c, Zenon DEF EraInc
  <2>3. c = b => Done(c)
    BY <1>e, <2>1 DEF Pre
  <2> QED
    BY <1>d, <1>f, <2>1, <2>2, <2>3, Zenon
<1>12. ASSUME NEW b \in Cpus, Embed(b) PROVE Settled(c)'
  BY <1>0, <1>12, Zenon DEF Embed, FieldInv, FieldOK
<1>13. ASSUME NEW b \in Cpus, ApplyRedo(b) PROVE Settled(c)'
  <2> DEFINE k == rec[b]
             q == LatestRedo(k)
  <2>1. UNCHANGED <<redo, token, era>> /\ pc[b] = "rapply"
    BY <1>13, Zenon DEF ApplyRedo
  <2>2. k \in Machines /\ Logged(k) # {}
    BY <1>0, <2>1, Zenon DEF OpInv, OpOK, Recovering
  <2>3. q.loc \in Locs /\ k \in MayUse[q.loc]
    BY <1>0, <2>2, LatestOwn, Zenon
  <2>4. ptr' = [ptr EXCEPT ![q.loc] = After(q.func, q.obj)]
    BY <1>13, Zenon DEF ApplyRedo, After
  <2>5. CASE d = k
    <3>1. LatestRedo(d)' = q
      BY <1>a, <2>1, <2>5, LatestFrame, Zenon
    <3>2. ptr'[q.loc] = After(q.func, q.obj)
      BY <1>t, <2>3, <2>4, Zenon
    <3> QED
      BY <3>1, <3>2, Zenon DEF Settled
  <2>6. CASE d # k
    <3>1. Logged(d) # {} => ptr'[LatestRedo(d).loc] = ptr[LatestRedo(d).loc]
      BY <1>t, <1>b, <2>3, <2>4, <2>6, Zenon DEF Private
    <3>2. c = b \/ pc'[c] = pc[c]
      BY <1>13, <2>6, Zenon DEF ApplyRedo
    <3>3. Done(c)' => Done(c)
      BY <1>e, <1>f, <2>1, <3>2 DEF Pre
    <3> QED
      BY <1>a, <2>1, <3>1, <3>3, SettledFrame, Zenon
  <2> QED
    BY <2>5, <2>6, Zenon
<1>14. ASSUME NEW b \in Cpus, ClearSlot(b) PROVE Settled(c)'
  <2>1. UNCHANGED <<redo, ptr, era>> /\ pc[b] = "rclear" /\ token' = [token EXCEPT ![rec[b]] = FALSE]
    BY <1>14, Zenon DEF ClearSlot
  <2>2. CASE d = rec[b]
    BY <1>t, <1>a, <2>1, <2>2, Zenon DEF Settled
  <2>3. CASE d # rec[b]
    <3>1. c = b \/ pc'[c] = pc[c]
      BY <1>14, <2>3, Zenon DEF ClearSlot
    <3>2. token'[d] = token[d]
      BY <1>t, <1>a, <2>1, <2>3, Zenon
    <3>3. Done(c)' => Done(c)
      BY <1>e, <1>f, <2>1, <3>1 DEF Pre
    <3> QED
      BY <1>d, <2>1, <3>2, <3>3, Zenon
  <2> QED
    BY <2>2, <2>3, Zenon
<1>15. CASE UNCHANGED vars
  BY <1>15, <1>g, Zenon DEF vars
<1> QED
  BY <1>1, <1>2, <1>3, <1>5, <1>6, <1>7, <1>8, <1>9, <1>10, <1>11, <1>12, <1>13, <1>14, <1>15,
     Zenon DEF Next, Step

-----------------------------------------------------------------------------
(* Recovery                                                                *)

\* A CPU of a dead machine commits nothing.
LEMMA DeadCommitsNothing ==
  ASSUME TypeOK, [Next]_vars, NEW b \in Cpus, ~up[MachineOf[b]], pc'[b] = "ptr"
  PROVE  pc[b] = "ptr" /\ op'[b] = op[b]
<1>t. pc \in [Cpus -> Steps] /\ op \in [Cpus -> Operation]
  BY Zenon DEF TypeOK
<1>1. ASSUME NEW m \in Machines, Join(m) \/ Leave(m) \/ Crash(m) PROVE pc' = pc /\ op' = op
  BY <1>1, Zenon DEF Join, Leave, Crash, cpuVars
<1>2. ASSUME NEW c \in Cpus, NEW l \in Locs, StartUnlink(c, l) \/ \E o \in Objs : StartLink(c, l, o)
      PROVE  c # b /\ pc'[b] = pc[b] /\ op'[b] = op[b]
  BY <1>t, <1>2, Zenon DEF StartUnlink, StartLink, Live
<1>3. ASSUME NEW c \in Cpus, NEW m \in Machines, StartRecovery(c, m)
      PROVE  pc'[b] = pc[b] /\ op'[b] = op[b]
  BY <1>t, <1>3, Zenon DEF StartRecovery, Live
<1>4. ASSUME NEW c \in Cpus, Load(c) \/ EraSet(c) \/ WriteRedo(c) \/ CasInfo(c) \/ WritePtr(c)
      PROVE  pc'[b] = pc[b] /\ op'[b] = op[b]
  BY <1>t, <1>4, Zenon DEF Load, EraSet, WriteRedo, CasInfo, WritePtr, Live
<1>5. ASSUME NEW c \in Cpus, EraInc(c) \/ Embed(c) \/ Return(c) \/ CheckVisible(c) \/ ScanEra(c)
      PROVE  pc'[b] = pc[b] /\ op'[b] = op[b]
  BY <1>t, <1>5, Zenon DEF EraInc, Embed, Return, CheckVisible, ScanEra, Live
<1>6. ASSUME NEW c \in Cpus, ApplyRedo(c) PROVE pc'[b] = pc[b] /\ op'[b] = op[b]
  BY <1>6, Zenon DEF ApplyRedo
<1>7. ASSUME NEW c \in Cpus, ClearSlot(c) PROVE pc'[b] = pc[b] /\ op'[b] = op[b]
  BY <1>7, Zenon DEF ClearSlot
<1>8. CASE UNCHANGED vars
  BY <1>8, Zenon DEF vars
<1> QED
  BY <1>1, <1>2, <1>3, <1>4, <1>5, <1>6, <1>7, <1>8, Zenon DEF Next, Step

\* What another row shows of a dead machine stays there.
LEMMA SeenStays ==
  ASSUME MaxBoots = 1, IInv, TypeOK', [Next]_vars, NEW d \in Machines, ~up[d], boots[d] = 1,
         Logged(d) # {}, NEW j \in Machines, SeenBy(j, d)
  PROVE  SeenBy(j, d)'
<1>1. redo'[d] = redo[d] /\ era'[j][d] >= era[j][d]
  BY DeadFrame, EraGrows, Zenon
<1>2. LatestRedo(d)' = LatestRedo(d)
  BY <1>1, LatestFrame, Zenon
<1>3. era[j][d] \in Nat /\ era'[j][d] \in Nat
  BY Zenon DEF IInv, TypeOK
<1>4. LatestRedo(d).era \in Nat
  <2>1. PICK s \in Logged(d) : LatestRedo(d) = redo[d][s]
    BY LatestIsLogged, Zenon
  <2> QED
    BY <2>1, FieldTypes, Zenon DEF IInv, Logged
<1>5. j # d /\ era[j][d] >= LatestRedo(d).era
  BY Zenon DEF SeenBy
<1>6. era'[j][d] >= LatestRedo(d).era
  BY <1>1, <1>3, <1>4, <1>5
<1> QED
  BY <1>2, <1>5, <1>6, Zenon DEF SeenBy

\* The word of an object changes by a CAS only.
LEMMA WordFrame ==
  ASSUME [Next]_vars, refInfo' # refInfo
  PROVE  \E b \in Cpus : CasInfo(b)
<1>1. ASSUME NEW m \in Machines, Join(m) \/ Leave(m) \/ Crash(m) PROVE FALSE
  BY <1>1, Zenon DEF Join, Leave, Crash, shared
<1>2. ASSUME NEW c \in Cpus, NEW l \in Locs, StartUnlink(c, l) \/ \E o \in Objs : StartLink(c, l, o)
      PROVE  FALSE
  BY <1>2, Zenon DEF StartUnlink, StartLink, shared
<1>3. ASSUME NEW c \in Cpus, NEW m \in Machines, StartRecovery(c, m) PROVE FALSE
  BY <1>3, Zenon DEF StartRecovery, shared
<1>4. ASSUME NEW c \in Cpus, Step(c) PROVE CasInfo(c)
  BY <1>4, Zenon DEF Step, Load, EraSet, WriteRedo, WritePtr, EraInc, Embed, Return,
     CheckVisible, ScanEra, ApplyRedo, ClearSlot, shared
<1> QED
  BY <1>1, <1>2, <1>3, <1>4, Zenon DEF Next, vars

\* What recovery decides about a dead machine it decides for good: whoever
\* overwrites the word has recorded the era it shows.
LEMMA NeedStays ==
  ASSUME MaxBoots = 1, IInv, TypeOK', [Next]_vars, NEW d \in Machines, ~up[d], boots[d] = 1,
         NeedRedo(d)
  PROVE  NeedRedo(d)'
<1>1. redo'[d] = redo[d]
  BY DeadFrame, Zenon
<1>2. Logged(d)' = Logged(d) /\ LatestRedo(d)' = LatestRedo(d) /\ Logged(d) # {}
  BY <1>1, LatestFrame, Zenon DEF NeedRedo
<1> DEFINE r == LatestRedo(d)
<1>3. CASE \E j \in Machines : SeenBy(j, d)
  BY <1>2, <1>3, SeenStays, Zenon DEF NeedRedo
<1>4. CASE StillVisible(d)
  <2>1. CASE refInfo'[r.obj] = refInfo[r.obj]
    BY <1>2, <1>4, <2>1, Zenon DEF NeedRedo, StillVisible
  <2>2. CASE refInfo'[r.obj] # refInfo[r.obj]
    <3>1. PICK b \in Cpus : CasInfo(b)
      BY <2>2, WordFrame, Zenon
    <3>2. refInfo \in [Objs -> Word] /\ MachineOf[b] \in Machines
      BY MachineOfAssumption, Zenon DEF IInv, TypeOK
    <3>o. r.obj \in Objs
      <4>1. PICK s \in Logged(d) : LatestRedo(d) = redo[d][s]
        BY <1>2, LatestIsLogged, Zenon
      <4> QED
        BY <4>1, Zenon DEF IInv, RingInv, RingOK
    <3>3. op[b].obj = r.obj /\ seen[b] = refInfo[r.obj] /\ pc[b] = "cas" /\ era' = era
      <4> HIDE DEF r
      <4> QED
        BY <2>2, <3>1, <3>2, <3>o, Zenon DEF CasInfo
    <3>4. era[MachineOf[b]][d] >= r.era
      BY <1>4, <3>3, Zenon DEF IInv, HelpInv, StillVisible
    <3>5. MachineOf[b] # d
      BY <3>1, Zenon DEF CasInfo, Live
    <3>6. SeenBy(MachineOf[b], d)
      BY <3>4, <3>5, Zenon DEF SeenBy
    <3> QED
      BY <1>2, <3>2, <3>6, SeenStays, Zenon DEF NeedRedo
  <2> QED
    BY <2>1, <2>2, Zenon
<1> QED
  BY <1>3, <1>4, Zenon DEF NeedRedo

\* A recovery that does not move.
LEMMA RecFrame ==
  ASSUME MaxBoots = 1, IInv, TypeOK', [Next]_vars, NEW c \in Cpus, RecOK(c),
         rec'[c] = rec[c], pc'[c] = pc[c], scan'[c] = scan[c],
         rec[c] \in Machines /\ Live(c)' => Live(c) /\ (token[rec[c]] => token'[rec[c]])
  PROVE  RecOK(c)'
<1> SUFFICES ASSUME rec[c] \in Machines PROVE RecOK(c)'
  BY Zenon DEF RecOK
<1> DEFINE d == rec[c]
<1>1. d \in Machines /\ ~up[d] /\ boots[d] = 1
  BY Zenon DEF IInv, OpInv, OpOK
<1>2. \A b \in CpusOf(d) : pc'[b] = "ptr" => pc[b] = "ptr"
  BY <1>1, DeadCommitsNothing, Zenon DEF CpusOf, IInv
<1>3. pc[c] \in {"rscan", "rapply"} => Logged(d) # {}
  BY Zenon DEF IInv, OpInv, OpOK
<1>4. pc[c] = "rscan" => \A j \in Machines : SeenBy(j, d) => SeenBy(j, d)'
  BY <1>1, <1>3, SeenStays, Zenon
<1>5. NeedRedo(d) => NeedRedo(d)'
  BY <1>1, NeedStays, Zenon
<1>6. Live(c)' => token'[d]
  BY Zenon DEF RecOK
<1>7. pc[c] \in {"embed", "rclear"} => \A b \in CpusOf(d) : pc'[b] # "ptr"
  BY <1>2, Zenon DEF RecOK
<1>8. pc[c] = "rscan" => \A b \in CpusOf(d) : pc'[b] = "ptr" =>
                           \E j \in Machines : j >= scan[c] /\ SeenBy(j, d)'
  BY <1>2, <1>4, Zenon DEF RecOK
<1>9. pc[c] = "rapply" => NeedRedo(d)'
  BY <1>5, Zenon DEF RecOK
<1>10. CpusOf(d)' = CpusOf(d) /\ (pc[c] = "rscan" => scan[c] <= NMachines)
  BY Zenon DEF CpusOf, RecOK
<1>11. d' = d
  OBVIOUS
<1> HIDE DEF d
<1> QED
  BY <1>6, <1>7, <1>8, <1>9, <1>10, <1>11, Zenon DEF RecOK, d

\* A machine that joins has no CPU that recovers another.
LEMMA JoinersRecoverNothing ==
  ASSUME MaxBoots = 1, IInv, FieldInv, NEW m \in Machines, Join(m), NEW c \in Cpus, rec[c] \in Machines
  PROVE  Live(c)' => Live(c)
<1>1. boots[m] = 0
  BY DEF Join, IInv, BootInv
<1>2. MachineOf[c] = m => pc[c] = "idle"
  BY <1>1, Zenon DEF IInv, BootInv
<1>3. pc[c] # "idle"
  BY DEF FieldInv, FieldOK, Recovering
<1>4. up \in [Machines -> BOOLEAN] /\ MachineOf[c] \in Machines
  BY MachineOfAssumption, Zenon DEF IInv, TypeOK
<1> QED
  BY <1>2, <1>3, <1>4, Zenon DEF Join, Live

\* One CPU of the running machines recovers a dead one.
LEMMA RecoverersApart ==
  ASSUME MaxBoots = 1, CInv, [Next]_vars
  PROVE  (\A b, c \in Cpus : Live(b) /\ Live(c) /\ rec[b] = rec[c] /\ rec[c] \in Machines => b = c)'
<1>0. IInv /\ TypeOK /\ FieldInv
  BY Zenon DEF CInv, IInv
<1>n. NoMachine \notin Machines
  BY DEF NoMachine, Machines
<1>t. rec \in [Cpus -> Machines \cup {NoMachine}] /\ up \in [Machines -> BOOLEAN]
  BY <1>0, Zenon DEF TypeOK
<1>r. \A b, c \in Cpus : Live(b) /\ Live(c) /\ rec[b] = rec[c] /\ rec[c] \in Machines => b = c
  BY Zenon DEF CInv, RecInv
<1> SUFFICES ASSUME NEW b \in Cpus, NEW c \in Cpus, Live(b)', Live(c)', rec'[b] = rec'[c],
                    rec'[c] \in Machines
             PROVE  b = c
  BY Zenon
<1>1. ASSUME Live(b), Live(c), rec'[b] = rec[b], rec'[c] = rec[c] PROVE b = c
  BY <1>1, <1>r, Zenon
<1>2. ASSUME NEW m \in Machines, Join(m) PROVE b = c
  <2>1. rec' = rec
    BY <1>2, Zenon DEF Join, cpuVars
  <2>2. Live(b) /\ Live(c)
    BY <1>0, <1>2, <2>1, JoinersRecoverNothing, Zenon
  <2> QED
    BY <1>1, <2>1, <2>2, Zenon
<1>3. ASSUME NEW m \in Machines, Leave(m) \/ Crash(m) PROVE b = c
  <2>1. rec' = rec /\ (up' = [up EXCEPT ![m] = FALSE])
    BY <1>3, Zenon DEF Leave, Crash, cpuVars
  <2>2. Live(b) /\ Live(c)
    BY <1>t, <2>1, MachineOfAssumption, Zenon DEF Live
  <2> QED
    BY <1>1, <2>1, <2>2, Zenon
<1>4. ASSUME up' = up PROVE Live(b) /\ Live(c)
  BY <1>4, Zenon DEF Live
<1>5. ASSUME NEW a \in Cpus, NEW l \in Locs, StartUnlink(a, l) \/ \E o \in Objs : StartLink(a, l, o)
      PROVE  b = c
  BY <1>1, <1>4, <1>5, Zenon DEF StartUnlink, StartLink, shared
<1>6. ASSUME NEW a \in Cpus, NEW d \in Machines, StartRecovery(a, d) PROVE b = c
  <2>1. /\ up' = up /\ rec'[a] = d /\ (b # a => rec'[b] = rec[b]) /\ (c # a => rec'[c] = rec[c])
        /\ \A x \in Cpus : rec[x] = d => ~Live(x)
    BY <1>t, <1>6, Zenon DEF StartRecovery
  <2> QED
    BY <1>1, <1>4, <2>1, Zenon
<1>7. ASSUME NEW a \in Cpus, Step(a), ~ApplyRedo(a), ~ClearSlot(a) PROVE up' = up /\ rec' = rec
  BY <1>7, Zenon DEF Step, Load, EraSet, WriteRedo, CasInfo, WritePtr, EraInc, Embed, Return,
     CheckVisible, ScanEra
<1>8. ASSUME NEW a \in Cpus, ApplyRedo(a) \/ ClearSlot(a) PROVE b = c
  <2>1. up' = up /\ (rec'[b] = NoMachine \/ rec'[b] = rec[b]) /\ (rec'[c] = NoMachine \/ rec'[c] = rec[c])
    BY <1>8, Zenon DEF ApplyRedo, ClearSlot
  <2> QED
    BY <1>n, <1>1, <1>4, <2>1, Zenon
<1>9. CASE UNCHANGED vars
  BY <1>1, <1>4, <1>9, Zenon DEF vars
<1> QED
  BY <1>1, <1>2, <1>3, <1>4, <1>5, <1>6, <1>7, <1>8, <1>9, Zenon DEF Next

\* A CPU that recovers a machine goes on with that, and comes to the right
\* conclusion.
LEMMA RecStep ==
  ASSUME OneCpuPerMachine, MaxBoots = 1, Flat, Private, CInv, [Next]_vars
  PROVE  RecInv'
<1>0. IInv /\ TypeOK /\ OpInv /\ FieldInv /\ RecInv
  BY Zenon DEF CInv, IInv
<1>i. IInv' /\ TypeOK'
  BY <1>0, IInvStep, Zenon DEF IInv
<1>n. NoMachine \notin Machines
  BY DEF NoMachine, Machines
<1>t. /\ rec \in [Cpus -> Machines \cup {NoMachine}] /\ up \in [Machines -> BOOLEAN]
      /\ pc \in [Cpus -> Steps] /\ scan \in [Cpus -> Nat] /\ token \in [Machines -> BOOLEAN]
      /\ MachineOf \in [Cpus -> Machines]
  BY <1>0, MachineOfAssumption, Zenon DEF TypeOK
<1> SUFFICES ASSUME NEW c \in Cpus PROVE RecOK(c)'
  BY RecoverersApart, Zenon DEF RecInv
<1> DEFINE d == rec[c]
<1>a. RecOK(c) /\ FieldOK(c) /\ OpOK(c)
  BY <1>0, Zenon DEF RecInv, FieldInv, OpInv
<1>b. ASSUME d \notin Machines, rec'[c] = rec[c] PROVE RecOK(c)'
  BY <1>b, Zenon DEF RecOK
<1>c. ASSUME pc[c] \notin Recovering \cup {"embed"} PROVE d \notin Machines
  BY <1>a, <1>c, Zenon DEF FieldOK
<1>d. ASSUME up' = up, token' = token, rec'[c] = rec[c], pc'[c] = pc[c], scan'[c] = scan[c]
      PROVE  RecOK(c)'
  BY <1>d, <1>0, <1>i, <1>a, RecFrame, Zenon DEF Live
<1>1. ASSUME NEW m \in Machines, Join(m) PROVE RecOK(c)'
  <2>1. rec' = rec /\ pc' = pc /\ scan' = scan /\ token' = [token EXCEPT ![m] = TRUE]
    BY <1>1, Zenon DEF Join, cpuVars
  <2>2. d \in Machines => (Live(c)' => Live(c)) /\ (token[d] => token'[d])
    BY <1>0, <1>1, <1>t, <2>1, JoinersRecoverNothing, Zenon
  <2> QED
    BY <1>0, <1>i, <1>a, <2>1, <2>2, RecFrame, Zenon
<1>2. ASSUME NEW m \in Machines, Leave(m) \/ Crash(m) PROVE RecOK(c)'
  <2>1. /\ rec' = rec /\ pc' = pc /\ scan' = scan /\ up[m] /\ up' = [up EXCEPT ![m] = FALSE]
        /\ token' = token \/ token' = [token EXCEPT ![m] = FALSE]
    BY <1>2, Zenon DEF Leave, Crash, cpuVars, shared
  <2>2. Live(c)' => Live(c)
    BY <1>t, <2>1, Zenon DEF Live
  <2>3. d \in Machines => d # m
    BY <1>a, <2>1, Zenon DEF OpOK
  <2>4. d \in Machines => token'[d] = token[d]
    BY <1>t, <2>1, <2>3, Zenon
  <2> QED
    BY <1>0, <1>i, <1>a, <2>1, <2>2, <2>4, RecFrame, Zenon
<1>3. ASSUME NEW b \in Cpus, NEW l \in Locs, StartUnlink(b, l) \/ \E o \in Objs : StartLink(b, l, o)
      PROVE  RecOK(c)'
  <2>1. UNCHANGED <<up, token, rec, scan>> /\ (c # b => pc'[c] = pc[c]) /\ pc[b] = "idle"
    BY <1>3, <1>t, Zenon DEF StartUnlink, StartLink, shared
  <2>2. c = b => d \notin Machines
    BY <1>c, <2>1, Zenon DEF Recovering
  <2> QED
    BY <1>b, <1>d, <2>1, <2>2, Zenon
<1>4. ASSUME NEW b \in Cpus, NEW k \in Machines, StartRecovery(b, k) PROVE RecOK(c)'
  <2>1. UNCHANGED <<up, token, scan>> /\ (c # b => pc'[c] = pc[c] /\ rec'[c] = rec[c])
    BY <1>4, <1>t, Zenon DEF StartRecovery, shared
  <2>2. CASE c = b
    <3>1. pc'[c] = "rcheck" /\ rec'[c] = k /\ token'[k]
      BY <1>4, <1>t, <2>1, <2>2, Zenon DEF StartRecovery
    <3> QED
      BY <3>1, Zenon DEF RecOK
  <2> QED
    BY <1>d, <2>1, <2>2, Zenon
<1>5. ASSUME NEW b \in Cpus, Load(b) \/ EraSet(b) \/ WriteRedo(b) \/ CasInfo(b) \/ WritePtr(b) \/ EraInc(b)
      PROVE  RecOK(c)'
  <2>1. UNCHANGED <<up, token, rec, scan>> /\ (c # b => pc'[c] = pc[c])
    BY <1>5, <1>t, Zenon DEF Load, EraSet, WriteRedo, CasInfo, WritePtr, EraInc, shared
  <2>2. pc[b] \in {"load", "era", "redo", "cas", "ptr", "inc"}
    BY <1>5, Zenon DEF Load, EraSet, WriteRedo, CasInfo, WritePtr, EraInc
  <2>3. c = b => d \notin Machines
    BY <1>c, <2>2 DEF Recovering
  <2> QED
    BY <1>b, <1>d, <2>1, <2>3, Zenon
<1>6. ASSUME NEW b \in Cpus, Embed(b) PROVE RecOK(c)'
  BY <1>0, <1>6, Zenon DEF Embed, FieldInv, FieldOK
<1>7. ASSUME NEW b \in Cpus, Return(b) \/ CheckVisible(b) \/ ScanEra(b), b # c PROVE RecOK(c)'
  <2>1. UNCHANGED <<up, token, rec>> /\ pc'[c] = pc[c] /\ scan'[c] = scan[c]
    BY <1>7, <1>t, Zenon DEF Return, CheckVisible, ScanEra, shared
  <2> QED
    BY <1>d, <2>1, Zenon
<1>e. ASSUME d \in Machines, rec'[c] = rec[c]
      PROVE  /\ ~up[d] /\ boots[d] = 1
             /\ NeedRedo(d) => NeedRedo(d)'
             /\ \A b \in CpusOf(d) : pc'[b] = "ptr" => pc[b] = "ptr"
             /\ CpusOf(d)' = CpusOf(d)
  <2>1. ~up[d] /\ boots[d] = 1
    BY <1>a, <1>e, Zenon DEF OpOK
  <2>2. NeedRedo(d) => NeedRedo(d)'
    BY <1>0, <1>i, <1>e, <2>1, NeedStays, Zenon
  <2>3. \A b \in CpusOf(d) : pc'[b] = "ptr" => pc[b] = "ptr"
    BY <1>0, <2>1, DeadCommitsNothing, Zenon DEF CpusOf
  <2> QED
    BY <1>e, <2>1, <2>2, <2>3, Zenon DEF CpusOf
<1>8. ASSUME Return(c) PROVE RecOK(c)'
  <2>1. UNCHANGED <<up, token, rec>> /\ pc[c] = "embed"
    BY <1>8, Zenon DEF Return, shared
  <2>2. CASE d \in Machines
    <3>1. pc'[c] = "rclear"
      BY <1>8, <1>n, <1>t, <2>2, Zenon DEF Return
    <3>2. Live(c)' => token'[d]
      BY <1>a, <2>1, <2>2, Zenon DEF RecOK, Live
    <3>3. \A b \in CpusOf(d) : pc'[b] # "ptr"
      BY <1>a, <1>e, <2>1, <2>2, Zenon DEF RecOK
    <3> QED
      BY <1>e, <2>1, <2>2, <3>1, <3>2, <3>3, Zenon DEF RecOK
  <2> QED
    BY <1>b, <2>1, <2>2, Zenon
<1>9. ASSUME CheckVisible(c) PROVE RecOK(c)'
  <2>1. UNCHANGED <<refInfo, era, redo, up, token, rec>> /\ pc[c] = "rcheck" /\ scan'[c] = 0
    BY <1>9, <1>t, Zenon DEF CheckVisible, shared
  <2>2. d \in Machines
    BY <1>a, <2>1, Zenon DEF OpOK, Recovering
  <2>3. Live(c)' => token'[d]
    BY <1>a, <2>1, <2>2, Zenon DEF RecOK, Live
  <2>4. ASSUME NEW b \in CpusOf(d), pc'[b] = "ptr"
        PROVE  Logged(d) # {} /\ (StillVisible(d) \/ \E j \in Machines : SeenBy(j, d))
    <3>1. b \in Cpus /\ MachineOf[b] = d /\ pc[b] = "ptr"
      BY <1>e, <2>1, <2>2, <2>4, Zenon DEF CpusOf
    <3> QED
      BY <1>0, <3>1, LatestIsOp, CommittedShows, Zenon
  <2>5. CASE Logged(d) = {}
    <3>1. pc'[c] = "rclear"
      BY <1>9, <1>t, <2>5, Zenon DEF CheckVisible
    <3> QED
      BY <1>e, <2>1, <2>2, <2>3, <2>4, <2>5, <3>1, Zenon DEF RecOK
  <2>6. CASE Logged(d) # {} /\ StillVisible(d)
    <3>1. pc'[c] = "rapply"
      BY <1>9, <1>t, <2>6, Zenon DEF CheckVisible
    <3>2. NeedRedo(d)'
      BY <1>e, <2>1, <2>2, <2>6, Zenon DEF NeedRedo
    <3> QED
      BY <2>1, <2>2, <2>3, <3>1, <3>2, Zenon DEF RecOK
  <2>7. CASE Logged(d) # {} /\ ~StillVisible(d)
    <3>1. pc'[c] = "rscan"
      BY <1>9, <1>t, <2>7, Zenon DEF CheckVisible
    <3>2. 0 <= NMachines /\ \A j \in Machines : j >= 0
      BY CountsAssumption DEF Machines
    <3>3. \A j \in Machines : SeenBy(j, d) => SeenBy(j, d)'
      BY <1>0, <1>i, <1>e, <2>1, <2>2, <2>7, SeenStays, Zenon
    <3>4. \A b \in CpusOf(d) : pc'[b] = "ptr" => \E j \in Machines : j >= 0 /\ SeenBy(j, d)'
      BY <2>4, <2>7, <3>2, <3>3, Zenon
    <3> QED
      BY <1>e, <2>1, <2>2, <2>3, <3>1, <3>2, <3>4, Zenon DEF RecOK
  <2> QED
    BY <2>5, <2>6, <2>7, Zenon
<1>10. ASSUME ScanEra(c) PROVE RecOK(c)'
  <2>1. UNCHANGED <<refInfo, era, redo, up, token, rec>> /\ pc[c] = "rscan"
    BY <1>10, <1>t, Zenon DEF ScanEra, shared
  <2>2. d \in Machines /\ Logged(d) # {}
    BY <1>a, <2>1, Zenon DEF OpOK, Recovering
  <2>3. Live(c)' => token'[d]
    BY <1>a, <2>1, <2>2, Zenon DEF RecOK, Live
  <2>4. \A b \in CpusOf(d) : pc'[b] = "ptr" => \E j \in Machines : j >= scan[c] /\ SeenBy(j, d)
    BY <1>a, <1>e, <2>1, <2>2, Zenon DEF RecOK
  <2>8. scan[c] <= NMachines
    BY <1>a, <2>1, <2>2, Zenon DEF RecOK
  <2>5. CASE scan[c] = NMachines
    <3>1. pc'[c] = "rclear"
      BY <1>10, <1>t, <2>5, Zenon DEF ScanEra
    <3>2. \A j \in Machines : ~(j >= scan[c])
      BY <2>5, CountsAssumption DEF Machines
    <3> QED
      BY <1>e, <2>1, <2>2, <2>3, <2>4, <3>1, <3>2, Zenon DEF RecOK
  <2>6. CASE scan[c] # NMachines /\ SeenBy(scan[c], d)
    <3>1. pc'[c] = "rapply"
      BY <1>10, <1>t, <2>6, Zenon DEF ScanEra
    <3>2. scan[c] \in Machines
      BY <1>t, <2>6, <2>8, CountsAssumption DEF Machines
    <3>3. NeedRedo(d)'
      BY <1>e, <2>1, <2>2, <2>6, <3>2, Zenon DEF NeedRedo
    <3> QED
      BY <2>1, <2>2, <2>3, <3>1, <3>3, Zenon DEF RecOK
  <2>7. CASE scan[c] # NMachines /\ ~SeenBy(scan[c], d)
    <3>1. pc'[c] = "rscan" /\ scan'[c] = scan[c] + 1
      BY <1>10, <1>t, <2>1, <2>7 DEF ScanEra
    <3>2. \A j \in Machines : j >= scan[c] /\ j # scan[c] => j >= scan[c] + 1
      BY <1>t, CountsAssumption DEF Machines
    <3>3. \A j \in Machines : SeenBy(j, d) => SeenBy(j, d)'
      BY <1>0, <1>i, <1>e, <2>1, <2>2, SeenStays, Zenon
    <3>4. \A b \in CpusOf(d) : pc'[b] = "ptr" => \E j \in Machines : j >= scan[c] + 1 /\ SeenBy(j, d)'
      BY <2>4, <2>7, <3>2, <3>3, Zenon
    <3>5. scan[c] + 1 <= NMachines
      BY <1>t, <2>7, <2>8, CountsAssumption
    <3> QED
      BY <1>e, <2>1, <2>2, <2>3, <3>1, <3>4, <3>5, Zenon DEF RecOK
  <2> QED
    BY <2>5, <2>6, <2>7, Zenon
<1>11. ASSUME NEW b \in Cpus, ApplyRedo(b) PROVE RecOK(c)'
  <2>1. UNCHANGED <<up, token, scan>> /\ pc[b] = "rapply" /\ up[MachineOf[b]]
    BY <1>11, Zenon DEF ApplyRedo, Live
  <2>2. CASE MachineOf[c] = rec[b]
    BY <1>11, <1>n, <2>2, Zenon DEF ApplyRedo, RecOK
  <2>3. CASE MachineOf[c] # rec[b] /\ c # b
    <3>1. rec'[c] = rec[c] /\ pc'[c] = pc[c]
      BY <1>11, <2>3, Zenon DEF ApplyRedo
    <3> QED
      BY <1>d, <2>1, <3>1, Zenon
  <2>4. CASE MachineOf[c] # rec[b] /\ c = b
    <3>1. rec'[c] = rec[c] /\ pc'[c] = "embed" /\ d \in Machines
      BY <1>11, <1>a, <2>1, <2>4, Zenon DEF ApplyRedo, OpOK, Recovering
    <3>2. Live(c)' => token'[d]
      BY <1>a, <2>1, <3>1, Zenon DEF RecOK, Live
    <3>3. ASSUME NEW a \in CpusOf(d) PROVE pc'[a] # "ptr"
      <4>1. a \in Cpus /\ MachineOf[a] = d /\ a # c
        BY <2>4, Zenon DEF CpusOf
      <4>2. pc'[a] = "idle"
        BY <1>11, <2>4, <4>1, Zenon DEF ApplyRedo
      <4> QED
        BY <4>2
    <3> QED
      BY <1>e, <3>1, <3>2, <3>3, Zenon DEF RecOK
  <2> QED
    BY <2>2, <2>3, <2>4, Zenon
<1>12. ASSUME NEW b \in Cpus, ClearSlot(b) PROVE RecOK(c)'
  <2>1. /\ UNCHANGED <<up, scan>> /\ pc[b] = "rclear" /\ up[MachineOf[b]]
        /\ token' = [token EXCEPT ![rec[b]] = FALSE]
    BY <1>12, Zenon DEF ClearSlot, Live
  <2>2. CASE c = b \/ MachineOf[c] = rec[b]
    BY <1>12, <1>n, <2>2, Zenon DEF ClearSlot, RecOK
  <2>3. CASE ~(c = b \/ MachineOf[c] = rec[b])
    <3>1. rec'[c] = rec[c] /\ pc'[c] = pc[c]
      BY <1>12, <2>3, Zenon DEF ClearSlot
    <3>2. d \in Machines /\ Live(c) => d # rec[b]
      BY <1>0, <2>1, <2>3, Zenon DEF RecInv, Live
    <3>3. Live(c)' => Live(c)
      BY <2>1, Zenon DEF Live
    <3>4. d \in Machines /\ Live(c) => token'[d] = token[d]
      BY <1>t, <2>1, <3>2, Zenon
    <3> QED
      BY <1>0, <1>i, <1>a, <2>1, <3>1, <3>3, <3>4, RecFrame, Zenon
  <2> QED
    BY <2>2, <2>3, Zenon
<1>13. CASE UNCHANGED vars
  BY <1>d, <1>13, Zenon DEF vars
<1> QED
  BY <1>1, <1>2, <1>3, <1>4, <1>5, <1>6, <1>7, <1>8, <1>9, <1>10, <1>11, <1>12, <1>13,
     Zenon DEF Next, Step

-----------------------------------------------------------------------------
(* The counts                                                              *)

\* Steps that neither commit an operation nor write a pointer.
LEMMA RefersFrame ==
  ASSUME ptr' = ptr, \A c \in Cpus : (pc'[c] = "ptr" <=> pc[c] = "ptr") /\ (pc[c] = "ptr" => op'[c] = op[c])
  PROVE  \A l \in Locs, o \in Objs : Refers(l, o)' <=> Refers(l, o)
  BY Zenon DEF Refers

\* Who refers to an object is as before the pointer write.
LEMMA RefersWrite ==
  ASSUME OneCpuPerMachine, Private, CInv, NEW c \in Cpus, WritePtr(c)
  PROVE  \A l \in Locs, o \in Objs : Refers(l, o)' <=> Refers(l, o)
<1> SUFFICES ASSUME NEW l \in Locs, NEW o \in Objs PROVE Refers(l, o)' <=> Refers(l, o)
  BY Zenon
<1>0. IInv /\ FieldInv
  BY Zenon DEF CInv
<1>t. pc \in [Cpus -> Steps] /\ ptr \in [Locs -> Objs \cup {Null}]
  BY <1>0, Zenon DEF IInv, TypeOK
<1>1. /\ pc[c] = "ptr" /\ pc'[c] = "inc" /\ op' = op
      /\ \A b \in Cpus : b # c => pc'[b] = pc[b]
      /\ ptr' = [ptr EXCEPT ![op[c].loc] = IF op[c].func = "link" THEN op[c].obj ELSE Null]
  BY <1>t, Zenon DEF WritePtr
<1>2. pc[c] \in InOp /\ op[c].loc \in Locs
  BY <1>0, <1>1, Zenon DEF InOp, IInv, OpInv, OpOK
<1>3. \A b \in Cpus : b # c => op[b].loc # op[c].loc
  BY <1>0, <1>2, FieldsApart, Zenon
<1>4. CASE l = op[c].loc
  <2>1. Refers(l, o) <=> op[c].func = "link" /\ op[c].obj = o
    BY <1>1, <1>3, <1>4, Zenon DEF Refers
  <2>2. ptr'[l] = IF op[c].func = "link" THEN op[c].obj ELSE Null
    BY <1>1, <1>2, <1>4, <1>t, Zenon
  <2>3. \A b \in Cpus : pc'[b] = "ptr" => op'[b].loc # l
    BY <1>1, <1>3, <1>4
  <2>4. Refers(l, o)' <=> ptr'[l] = o
    BY <2>3, Zenon DEF Refers
  <2> QED
    BY <2>1, <2>2, <2>4, NullAssumption, Zenon
<1>5. CASE l # op[c].loc
  <2>1. ptr'[l] = ptr[l]
    BY <1>1, <1>2, <1>5, <1>t, Zenon
  <2>2. \A b \in Cpus : op[b].loc = l => (pc'[b] = "ptr" <=> pc[b] = "ptr") /\ op'[b] = op[b]
    BY <1>1, <1>5, Zenon
  <2>3. \A b \in Cpus : op'[b] = op[b]
    BY <1>1, Zenon
  <2> QED
    BY <2>1, <2>2, <2>3, Zenon DEF Refers
<1> QED
  BY <1>4, <1>5, Zenon

\* Who refers to an object is as before recovery wrote the pointer of an
\* operation: the dead machine had committed it, or had finished it.
LEMMA RefersRedo ==
  ASSUME OneCpuPerMachine, Private, CInv, NEW c \in Cpus, ApplyRedo(c)
  PROVE  \A l \in Locs, o \in Objs : Refers(l, o)' <=> Refers(l, o)
<1> SUFFICES ASSUME NEW l \in Locs, NEW o \in Objs PROVE Refers(l, o)' <=> Refers(l, o)
  BY Zenon
<1>0. IInv /\ FieldInv /\ LogInv /\ RecInv /\ SettledInv
  BY Zenon DEF CInv
<1>t. ptr \in [Locs -> Objs \cup {Null}] /\ MachineOf \in [Cpus -> Machines]
  BY <1>0, MachineOfAssumption, Zenon DEF IInv, TypeOK
<1> DEFINE d == rec[c]
           r == LatestRedo(d)
<1>1. pc[c] = "rapply" /\ d \in Machines /\ Logged(d) # {} /\ ~up[d] /\ Live(c)
  BY <1>0, Zenon DEF ApplyRedo, IInv, OpInv, OpOK, Recovering
<1>2. token[d] /\ NeedRedo(d)
  BY <1>0, <1>1, Zenon DEF RecInv, RecOK
<1>3. r.loc \in Locs /\ d \in MayUse[r.loc] /\ \E b \in Cpus : MachineOf[b] = d
  BY <1>0, <1>1, LatestOwn, Zenon
<1>4. PICK x \in Cpus : MachineOf[x] = d
  BY <1>3, Zenon
<1>5. \A b \in Cpus : MachineOf[b] = d => b = x
  BY <1>4, Zenon DEF OneCpuPerMachine
<1>6. x # c
  BY <1>1, <1>4, Zenon DEF Live
<1>7. /\ pc'[x] = "idle" /\ pc'[c] = "embed"
      /\ \A b \in Cpus : b # x /\ b # c => pc'[b] = pc[b] /\ op'[b] = op[b]
  BY <1>4, <1>5, <1>6, Zenon DEF ApplyRedo
<1>8. ptr' = [ptr EXCEPT ![r.loc] = After(r.func, r.obj)]
  BY Zenon DEF ApplyRedo, After
<1>9. pc[x] = "ptr" => op[x].loc = r.loc /\ op[x].func = r.func /\ op[x].obj = r.obj
  BY <1>0, <1>4, LatestIsOp, Zenon
<1>10. ASSUME NEW b \in Cpus, pc[b] = "ptr", b # x PROVE op[b].loc # r.loc
  <2>1. MachineOf[b] # d /\ MachineOf[b] \in MayUse[op[b].loc]
    BY <1>0, <1>5, <1>10, Zenon DEF FieldInv, FieldOK, InOp
  <2> QED
    BY <1>3, <2>1, Zenon DEF Private
<1>11. pc[x] # "ptr" => ptr[r.loc] = After(r.func, r.obj)
  <2>1. pc[x] \in Pre => r.era < era[d][d]
    BY <1>0, <1>2, <1>4, LatestIsOlder, Zenon
  <2>2. pc[x] # "ptr" => Done(x)
    BY <1>4, <2>1, Zenon DEF Done
  <2> QED
    BY <1>0, <1>1, <1>2, <1>4, <2>2, Zenon DEF SettledInv, Settled
<1>12. CASE l = r.loc
  <2>1. ptr'[l] = After(r.func, r.obj)
    BY <1>t, <1>3, <1>8, <1>12, Zenon
  <2>2. ASSUME NEW b \in Cpus, pc'[b] = "ptr" PROVE op'[b].loc # l
    <3>1. b # x /\ b # c
      BY <1>7, <2>2
    <3> QED
      BY <1>7, <1>10, <1>12, <2>2, <3>1, Zenon
  <2>3. Refers(l, o)' <=> After(r.func, r.obj) = o
    BY <2>1, <2>2, Zenon DEF Refers
  <2>4. CASE pc[x] = "ptr"
    <3>1. Refers(l, o) <=> r.func = "link" /\ r.obj = o
      BY <1>9, <1>10, <1>12, <2>4, Zenon DEF Refers
    <3> QED
      BY <2>3, <3>1, NullAssumption, Zenon DEF After
  <2>5. CASE pc[x] # "ptr"
    <3>1. \A b \in Cpus : pc[b] = "ptr" => op[b].loc # l
      BY <1>10, <1>12, <2>5, Zenon
    <3>2. Refers(l, o) <=> ptr[l] = o
      BY <3>1, Zenon DEF Refers
    <3> QED
      BY <1>11, <1>12, <2>3, <2>5, <3>2, Zenon
  <2> QED
    BY <2>4, <2>5, Zenon
<1>13. CASE l # r.loc
  <2>1. ptr'[l] = ptr[l]
    BY <1>t, <1>3, <1>8, <1>13, Zenon
  <2>2. \A b \in Cpus : pc'[b] = "ptr" => pc[b] = "ptr" /\ op'[b] = op[b]
    BY <1>7
  <2>3. \A b \in Cpus : pc[b] = "ptr" /\ op[b].loc = l => pc'[b] = "ptr" /\ op'[b] = op[b]
    <3>1. \A b \in Cpus : pc[b] = "ptr" /\ op[b].loc = l => b # x /\ b # c
      BY <1>1, <1>9, <1>13
    <3> QED
      BY <1>7, <3>1, Zenon
  <2> QED
    BY <2>1, <2>2, <2>3, Zenon DEF Refers
<1> QED
  BY <1>12, <1>13, Zenon

\* A CAS that takes effect makes the field refer to the object, or no longer.
LEMMA RefersCas ==
  ASSUME OneCpuPerMachine, Private, CInv, NEW c \in Cpus, CasInfo(c), refInfo[op[c].obj] = seen[c]
  PROVE  /\ op[c].func = "link" => /\ op[c].loc \notin Referrers(op[c].obj)
                                   /\ Referrers(op[c].obj)' = Referrers(op[c].obj) \cup {op[c].loc}
         /\ op[c].func = "unlink" => /\ op[c].loc \in Referrers(op[c].obj)
                                     /\ Referrers(op[c].obj)' = Referrers(op[c].obj) \ {op[c].loc}
         /\ \A o \in Objs : o # op[c].obj => Referrers(o)' = Referrers(o)
<1>0. IInv /\ FieldInv
  BY Zenon DEF CInv
<1>t. pc \in [Cpus -> Steps]
  BY <1>0, Zenon DEF IInv, TypeOK
<1>1. /\ pc[c] = "cas" /\ pc'[c] = "ptr" /\ op' = op /\ ptr' = ptr
      /\ \A b \in Cpus : b # c => pc'[b] = pc[b]
  BY <1>t, Zenon DEF CasInfo
<1>2. pc[c] \in InOp /\ pc[c] \in Pre
  BY <1>1, Zenon DEF InOp, Pre
<1>3. op[c].loc \in Locs /\ op[c].obj \in Objs /\ op[c].func \in {"link", "unlink"}
  BY <1>0, <1>2, Zenon DEF IInv, OpInv, OpOK
<1>k. PICK k \in Locs : k = op[c].loc
  BY <1>3, Zenon
<1>4. \A b \in Cpus : b # c => op[b].loc # k
  BY <1>0, <1>2, <1>k, FieldsApart, Zenon
<1>5. ptr[k] = Before(op[c].func, op[c].obj)
  BY <1>0, <1>2, <1>k, Zenon DEF FieldInv, FieldOK
<1>6. ASSUME NEW o \in Objs, NEW l \in Locs, l # k PROVE Refers(l, o)' <=> Refers(l, o)
  <2>1. \A b \in Cpus : op[b].loc = l => (pc'[b] = "ptr" <=> pc[b] = "ptr")
    BY <1>1, <1>6, <1>k, Zenon
  <2> QED
    BY <1>1, <2>1, Zenon DEF Refers
<1>7. ASSUME NEW o \in Objs
      PROVE  /\ Refers(k, o) <=> ptr[k] = o
             /\ Refers(k, o)' <=> op[c].func = "link" /\ op[c].obj = o
  <2>1. \A b \in Cpus : pc[b] = "ptr" => op[b].loc # k
    BY <1>1, <1>4
  <2>2. Refers(k, o) <=> ptr[k] = o
    BY <2>1, Zenon DEF Refers
  <2>3. \A b \in Cpus : op'[b].loc = k => b = c
    BY <1>1, <1>4, Zenon
  <2>4. op'[c] = op[c] /\ pc'[c] = "ptr"
    BY <1>1, Zenon
  <2>5. Refers(k, o)' <=> op[c].func = "link" /\ op[c].obj = o
    BY <1>k, <2>3, <2>4, Zenon DEF Refers
  <2> QED
    BY <2>2, <2>5, Zenon
<1>8. CASE op[c].func = "link"
  <2>1. ptr[k] = Null
    BY <1>5, <1>8, Zenon DEF Before
  <2>2. \A o \in Objs : ~Refers(k, o) /\ (Refers(k, o)' <=> o = op[c].obj)
    BY <1>7, <1>8, <2>1, NullAssumption, Zenon
  <2> QED
    <3>1. ASSUME NEW o \in Objs
          PROVE  /\ k \notin Referrers(o)
                 /\ o = op[c].obj => Referrers(o)' = Referrers(o) \cup {k}
                 /\ o # op[c].obj => Referrers(o)' = Referrers(o)
      BY <1>6, <2>2, Zenon DEF Referrers
    <3>2. op'[c] = op[c]
      BY <1>1, Zenon
    <3> QED
      BY <1>3, <1>k, <1>8, <3>1, <3>2
<1>9. CASE op[c].func = "unlink"
  <2>1. ptr[k] = op[c].obj
    BY <1>5, <1>9 DEF Before
  <2>2. \A o \in Objs : ~Refers(k, o)' /\ (Refers(k, o) <=> o = op[c].obj)
    BY <1>7, <1>9, <2>1, Zenon
  <2> QED
    <3>1. ASSUME NEW o \in Objs
          PROVE  /\ o = op[c].obj => k \in Referrers(o) /\ Referrers(o)' = Referrers(o) \ {k}
                 /\ o # op[c].obj => Referrers(o)' = Referrers(o)
      BY <1>6, <2>2, Zenon DEF Referrers
    <3>2. op'[c] = op[c]
      BY <1>1, Zenon
    <3> QED
      BY <1>3, <1>k, <1>9, <3>1, <3>2
<1> QED
  BY <1>3, <1>8, <1>9, Zenon

\* The CAS moves the count with the fields that refer to the object.
LEMMA CountCas ==
  ASSUME OneCpuPerMachine, Private, Countable, CInv, NEW c \in Cpus, CasInfo(c)
  PROVE  CountInv'
<1>0. IInv /\ CountInv
  BY Zenon DEF CInv
<1>t. refInfo \in [Objs -> Word] /\ pc \in [Cpus -> Steps]
  BY <1>0, Zenon DEF IInv, TypeOK
<1>1. CASE refInfo[op[c].obj] # seen[c]
  <2>1. refInfo' = refInfo /\ ptr' = ptr /\ op' = op /\ pc[c] = "cas" /\ pc' = [pc EXCEPT ![c] = "load"]
    BY <1>1, Zenon DEF CasInfo
  <2>2. \A b \in Cpus : pc'[b] = "ptr" <=> pc[b] = "ptr"
    BY <1>t, <2>1
  <2>3. \A l \in Locs, o \in Objs : Refers(l, o)' <=> Refers(l, o)
    BY <2>1, <2>2, RefersFrame, Zenon
  <2>4. \A o \in Objs : Referrers(o)' = Referrers(o)
    BY <2>3, Zenon DEF Referrers
  <2> QED
    BY <1>0, <2>1, <2>4, Zenon DEF CountInv
<1>2. CASE refInfo[op[c].obj] = seen[c]
  <2> DEFINE u == op[c].obj
             R == Referrers(u)
             n == Cardinality(R)
  <2>1. u \in Objs /\ op[c].func \in {"link", "unlink"}
    BY <1>0, Zenon DEF CasInfo, IInv, OpInv, OpOK, InOp, Pre
  <2>2. refInfo' = [refInfo EXCEPT ![u] = NewInfo(c)]
    BY <1>2, Zenon DEF CasInfo
  <2>3. seen[c].cnt = n
    BY <1>0, <1>2, <2>1, Zenon DEF CountInv
  <2>4. R \in SUBSET Locs
    BY Zenon DEF Referrers
  <2>5. IsFiniteSet(R) /\ n \in Nat
    BY <2>4, FS_Subset, FS_CardinalityType, Zenon DEF Countable
  <2>6. \A T \in SUBSET Locs : Cardinality(T) \in Nat /\ Cardinality(T) < U16
    <3> SUFFICES ASSUME NEW T \in SUBSET Locs PROVE Cardinality(T) \in Nat /\ Cardinality(T) < U16
      BY Zenon
    <3>1. IsFiniteSet(T) /\ Cardinality(T) <= Cardinality(Locs)
      BY FS_Subset, Zenon DEF Countable
    <3>2. Cardinality(T) \in Nat /\ Cardinality(Locs) \in Nat /\ Cardinality(Locs) < U16 /\ U16 \in Nat
      BY <3>1, FS_CardinalityType, TypeFacts, Zenon DEF Countable
    <3> QED
      BY <3>1, <3>2
  <2>7. Cardinality(R)' = (n + (IF op[c].func = "link" THEN 1 ELSE -1)) % U16
    <3>1. CASE op[c].func = "link"
      <4>1. op[c].loc \notin R /\ Referrers(u)' = R \cup {op[c].loc} /\ op[c].loc \in Locs
        BY <1>0, <1>2, <3>1, RefersCas, Zenon DEF CasInfo, IInv, OpInv, OpOK, InOp, Pre
      <4>2. Cardinality(R \cup {op[c].loc}) = n + 1
        BY <2>5, <4>1, FS_AddElement, Zenon
      <4>3. R \cup {op[c].loc} \in SUBSET Locs
        BY <2>4, <4>1, Zenon
      <4>4. n + 1 < U16
        BY <2>6, <4>2, <4>3, Zenon
      <4> HIDE DEF n, R
      <4>5. (n + 1) % U16 = n + 1
        BY <2>5, <4>4 DEF U16
      <4>6. Cardinality(Referrers(u))' = n + 1
        BY <4>1, <4>2, Zenon
      <4> QED
        BY <3>1, <4>5, <4>6, Zenon DEF R
    <3>2. CASE op[c].func = "unlink"
      <4>1. op[c].loc \in R /\ Referrers(u)' = R \ {op[c].loc}
        BY <1>2, <3>2, RefersCas, Zenon
      <4>2. Cardinality(R \ {op[c].loc}) = n - 1
        BY <2>5, <4>1, FS_RemoveElement, Zenon
      <4>3. n < U16 /\ n # 0
        BY <2>4, <2>5, <2>6, <4>1, FS_EmptySet, Zenon
      <4> HIDE DEF n, R
      <4>5. (n + -1) % U16 = n - 1
        BY <2>5, <4>3 DEF U16
      <4>6. Cardinality(Referrers(u))' = n - 1
        BY <4>1, <4>2, Zenon
      <4> QED
        BY <3>2, <4>5, <4>6 DEF R
    <3> QED
      BY <2>1, <3>1, <3>2, Zenon
  <2>8. refInfo'[u].cnt = Cardinality(Referrers(u))'
    BY <1>t, <2>1, <2>2, <2>3, <2>7, Zenon DEF NewInfo
  <2>9. \A o \in Objs : o # u => refInfo'[o] = refInfo[o] /\ Referrers(o)' = Referrers(o)
    BY <1>2, <1>t, <2>2, RefersCas, Zenon
  <2>10. u' = u
    BY Zenon DEF CasInfo
  <2> QED
    BY <1>0, <2>8, <2>9, <2>10, Zenon DEF CountInv
<1> QED
  BY <1>1, <1>2, Zenon

\* Every step keeps the counts.
LEMMA CountStep ==
  ASSUME OneCpuPerMachine, Private, Countable, CInv, [Next]_vars
  PROVE  CountInv'
<1>0. IInv /\ TypeOK /\ OpInv /\ CountInv /\ FieldInv /\ RecInv
  BY Zenon DEF CInv, IInv
<1>t. pc \in [Cpus -> Steps] /\ op \in [Cpus -> Operation]
  BY <1>0, Zenon DEF TypeOK
<1>1. ASSUME refInfo' = refInfo, \A l \in Locs, o \in Objs : Refers(l, o)' <=> Refers(l, o)
      PROVE  CountInv'
  <2>1. \A o \in Objs : Referrers(o)' = Referrers(o)
    BY <1>1, Zenon DEF Referrers
  <2> QED
    BY <1>0, <1>1, <2>1, Zenon DEF CountInv
<1>2. ASSUME refInfo' = refInfo, ptr' = ptr,
             \A b \in Cpus : (pc'[b] = "ptr" <=> pc[b] = "ptr") /\ (pc[b] = "ptr" => op'[b] = op[b])
      PROVE  CountInv'
  BY <1>1, <1>2, RefersFrame, Zenon
<1>3. ASSUME NEW m \in Machines, Join(m) \/ Leave(m) \/ Crash(m) PROVE CountInv'
  BY <1>2, <1>3, Zenon DEF Join, Leave, Crash, shared, cpuVars
<1>4. ASSUME NEW c \in Cpus, UNCHANGED <<refInfo, ptr>>, pc[c] # "ptr", pc'[c] # "ptr",
             \A b \in Cpus : b # c => pc'[b] = pc[b] /\ op'[b] = op[b]
      PROVE  CountInv'
  BY <1>2, <1>4, Zenon
<1>5. ASSUME NEW c \in Cpus, NEW l \in Locs, StartUnlink(c, l) \/ \E o \in Objs : StartLink(c, l, o)
      PROVE  CountInv'
  <2>1. /\ UNCHANGED <<refInfo, ptr>> /\ pc[c] = "idle" /\ pc'[c] = "load"
        /\ \A b \in Cpus : b # c => pc'[b] = pc[b] /\ op'[b] = op[b]
    BY <1>5, <1>t, Zenon DEF StartLink, StartUnlink, shared
  <2> QED
    BY <1>4, <2>1
<1>6. ASSUME NEW c \in Cpus, NEW d \in Machines, StartRecovery(c, d) PROVE CountInv'
  <2>1. /\ UNCHANGED <<refInfo, ptr>> /\ pc[c] = "idle" /\ pc'[c] = "rcheck"
        /\ \A b \in Cpus : b # c => pc'[b] = pc[b] /\ op'[b] = op[b]
    BY <1>6, <1>t, Zenon DEF StartRecovery, shared
  <2> QED
    BY <1>4, <2>1
<1>7. ASSUME NEW c \in Cpus, Load(c) \/ EraSet(c) \/ WriteRedo(c) \/ EraInc(c) PROVE CountInv'
  <2>1. UNCHANGED <<refInfo, ptr>> /\ \A b \in Cpus : b # c => pc'[b] = pc[b] /\ op'[b] = op[b]
    BY <1>7, <1>t, Zenon DEF Load, EraSet, WriteRedo, EraInc, shared
  <2>2. pc[c] \in {"load", "era", "redo", "inc"} /\ pc'[c] \in {"era", "redo", "cas", "embed"}
    BY <1>7, <1>t, Zenon DEF Load, EraSet, WriteRedo, EraInc
  <2> QED
    BY <1>4, <2>1, <2>2
<1>8. ASSUME NEW c \in Cpus, WritePtr(c) PROVE CountInv'
  BY <1>1, <1>8, RefersWrite, Zenon DEF WritePtr
<1>9. ASSUME NEW c \in Cpus, Embed(c) PROVE CountInv'
  BY <1>0, <1>9, Zenon DEF Embed, FieldInv, FieldOK
<1>10. ASSUME NEW c \in Cpus, Return(c) \/ CheckVisible(c) \/ ScanEra(c) PROVE CountInv'
  <2>1. UNCHANGED <<refInfo, ptr>> /\ \A b \in Cpus : b # c => pc'[b] = pc[b] /\ op'[b] = op[b]
    BY <1>10, <1>t, Zenon DEF Return, CheckVisible, ScanEra, shared
  <2>2. pc[c] \in {"embed", "rcheck", "rscan"} /\ pc'[c] \in {"idle", "rclear", "rapply", "rscan"}
    BY <1>10, <1>t, Zenon DEF Return, CheckVisible, ScanEra
  <2> QED
    BY <1>4, <2>1, <2>2
<1>11. ASSUME NEW c \in Cpus, ApplyRedo(c) PROVE CountInv'
  BY <1>1, <1>11, RefersRedo, Zenon DEF ApplyRedo
<1>12. ASSUME NEW c \in Cpus, ClearSlot(c) PROVE CountInv'
  <2>1. pc[c] = "rclear" /\ rec[c] \in Machines
    BY <1>0, <1>12, Zenon DEF ClearSlot, OpInv, OpOK, Recovering
  <2>2. \A b \in Cpus : MachineOf[b] = rec[c] => pc[b] # "ptr"
    BY <1>0, <2>1, Zenon DEF RecInv, RecOK, CpusOf
  <2>3. ASSUME NEW b \in Cpus
        PROVE  (pc'[b] = "ptr" <=> pc[b] = "ptr") /\ (pc[b] = "ptr" => op'[b] = op[b])
    <3>1. CASE b = c \/ MachineOf[b] = rec[c]
      <4>1. pc'[b] = "idle"
        BY <1>12, <3>1, Zenon DEF ClearSlot
      <4> QED
        BY <2>1, <2>2, <3>1, <4>1
    <3>2. CASE ~(b = c \/ MachineOf[b] = rec[c])
      BY <1>12, <3>2, Zenon DEF ClearSlot
    <3> QED
      BY <3>1, <3>2, Zenon
  <2>4. UNCHANGED <<refInfo, ptr>>
    BY <1>12, Zenon DEF ClearSlot
  <2> QED
    BY <1>2, <2>3, <2>4, Zenon
<1>13. ASSUME NEW c \in Cpus, CasInfo(c) PROVE CountInv'
  BY <1>13, CountCas, Zenon
<1>14. CASE UNCHANGED vars
  BY <1>2, <1>14, Zenon DEF vars
<1> QED
  BY <1>3, <1>5, <1>6, <1>7, <1>8, <1>9, <1>10, <1>11, <1>12, <1>13, <1>14, Zenon DEF Next, Step

-----------------------------------------------------------------------------
\* As many operations stand between their CAS and their pointer write as
\* fields they work on.
LEMMA BetweenFields ==
  ASSUME OneCpuPerMachine, Private, Countable, CInv, NEW f, NEW o \in Objs
  PROVE  LET T == {op[c].loc : c \in Between(f, o)} IN
         T \in SUBSET Locs /\ Cardinality(Between(f, o)) = Cardinality(T)
<1> DEFINE B == Between(f, o)
           T == {op[c].loc : c \in B}
           g == [c \in B |-> op[c].loc]
<1>0. IInv /\ FieldInv
  BY Zenon DEF CInv
<1>1. \A c \in B : c \in Cpus /\ pc[c] = "ptr" /\ pc[c] \in InOp
  BY Zenon DEF Between, InOp
<1>2. \A c \in B : op[c].loc \in Locs
  BY <1>0, <1>1, Zenon DEF IInv, OpInv, OpOK
<1>3. T \in SUBSET Locs
  BY <1>2, Zenon
<1>4. IsFiniteSet(T)
  BY <1>3, FS_Subset, Zenon DEF Countable
<1>5. \A b, c \in B : g[b] = g[c] => b = c
  BY <1>0, <1>1, FieldsApart, Zenon
<1> HIDE DEF B
<1>6. g \in [B -> T] /\ DOMAIN g = B
  BY Zenon
<1>7. \A t \in T : \E c \in B : g[c] = t
  BY Zenon
<1> HIDE DEF T, g
<1>8. g \in Injection(B, T) /\ g \in Surjection(B, T)
  BY <1>5, <1>6, <1>7, Zenon DEF Injection, IsInjective, Surjection
<1>9. Cardinality(B) = Cardinality(T)
  BY <1>4, <1>8, FS_Injection, Zenon
<1> QED
  BY <1>3, <1>9, Zenon DEF B, T

\* In every state the invariant allows, the count is exact.
LEMMA CInvExact == OneCpuPerMachine /\ Private /\ Countable /\ CInv => RefCountExact
<1> SUFFICES ASSUME OneCpuPerMachine, Private, Countable, CInv, NEW o \in Objs
             PROVE  refInfo[o].cnt = Cardinality({l \in Locs : ptr[l] = o})
                       + Cardinality(Between("link", o)) - Cardinality(Between("unlink", o))
  BY Zenon DEF RefCountExact
<1> DEFINE P == {l \in Locs : ptr[l] = o}
           L == {op[c].loc : c \in Between("link", o)}
           U == {op[c].loc : c \in Between("unlink", o)}
           R == Referrers(o)
<1>0. IInv /\ FieldInv
  BY Zenon DEF CInv
<1>1. /\ L \in SUBSET Locs /\ U \in SUBSET Locs /\ P \in SUBSET Locs
      /\ Cardinality(Between("link", o)) = Cardinality(L)
      /\ Cardinality(Between("unlink", o)) = Cardinality(U)
  BY BetweenFields, Zenon
<1>2. ASSUME NEW c \in Cpus, pc[c] = "ptr"
      PROVE  /\ op[c].loc \in Locs /\ op[c].func \in {"link", "unlink"}
             /\ op[c].func = "link" => ptr[op[c].loc] = Null
             /\ op[c].func = "unlink" => ptr[op[c].loc] = op[c].obj
  <2>1. pc[c] \in InOp /\ pc[c] \in Pre \cup {"ptr"}
    BY <1>2, Zenon DEF InOp
  <2>2. ptr[op[c].loc] = Before(op[c].func, op[c].obj)
    BY <1>0, <2>1, Zenon DEF FieldInv, FieldOK
  <2>3. op[c].loc \in Locs /\ op[c].func \in {"link", "unlink"}
    BY <1>0, <2>1, Zenon DEF IInv, OpInv, OpOK
  <2> QED
    BY <2>2, <2>3 DEF Before
<1>3. U \subseteq P
  BY <1>1, <1>2 DEF Between
<1>4. L \cap P = {}
  BY <1>1, <1>2, NullAssumption DEF Between
<1>5. R = (P \ U) \cup L
  <2>1. ASSUME NEW l \in R PROVE l \in (P \ U) \cup L
    BY <1>1, <1>2, Zenon DEF Referrers, Refers, Between
  <2>2. ASSUME NEW l \in P, l \notin U PROVE l \in R
    <3>1. ASSUME NEW c \in Cpus, pc[c] = "ptr", op[c].loc = l PROVE FALSE
      <4>1. op[c].func = "unlink" /\ op[c].obj = o
        BY <1>2, <2>2, <3>1, NullAssumption
      <4> QED
        BY <2>2, <3>1, <4>1, Zenon DEF Between
    <3> QED
      BY <3>1, Zenon DEF Referrers, Refers
  <2>3. ASSUME NEW l \in L PROVE l \in R
    BY <1>1, <2>3, Zenon DEF Referrers, Refers, Between
  <2> HIDE DEF P, L, U, R
  <2> QED
    BY <2>1, <2>2, <2>3
<1>6. refInfo[o].cnt = Cardinality(R)
  BY Zenon DEF CInv, CountInv
<1> HIDE DEF P, L, U, R
<1>7. IsFiniteSet(P) /\ IsFiniteSet(L) /\ IsFiniteSet(U)
  BY <1>1, FS_Subset, Zenon DEF Countable
<1>8. IsFiniteSet(P \ U) /\ Cardinality(P \ U) = Cardinality(P) - Cardinality(P \cap U)
  BY <1>7, FS_Difference, Zenon
<1>9. P \cap U = U /\ (P \ U) \cap L = {}
  BY <1>3, <1>4
<1>10. Cardinality((P \ U) \cup L) = Cardinality(P \ U) + Cardinality(L) - Cardinality((P \ U) \cap L)
  BY <1>7, <1>8, FS_Union, Zenon
<1>11. Cardinality({}) = 0 /\ Cardinality(P) \in Nat /\ Cardinality(L) \in Nat /\ Cardinality(U) \in Nat
  BY <1>7, FS_EmptySet, FS_CardinalityType, Zenon
<1>12. Cardinality(R) = Cardinality(P) + Cardinality(L) - Cardinality(U)
  <2>1. Cardinality(P \ U) = Cardinality(P) - Cardinality(U)
    BY <1>8, <1>9, Zenon
  <2>2. Cardinality(R) = Cardinality(P \ U) + Cardinality(L) - 0
    BY <1>5, <1>9, <1>10, <1>11, Zenon
  <2> QED
    BY <1>11, <2>1, <2>2
<1> QED
  BY <1>1, <1>6, <1>12, Zenon DEF P

\* The count of an object is exact in every state, whatever machines crash
\* and whenever: dsm_ref_link, dsm_ref_unlink and dsm_ref_recover_machine
\* leave no reference uncounted and count none twice.
THEOREM CountsStayExact ==
  ASSUME OneCpuPerMachine, MaxBoots = 1, Flat, Private, Countable
  PROVE  Spec => []RefCountExact
<1>1. Init => CInv
  BY InitCInv, Zenon
<1>2. CInv /\ [Next]_vars => CInv'
  <2> SUFFICES ASSUME CInv, [Next]_vars PROVE CInv'
    BY Zenon
  <2>1. IInv'
    BY IInvStep, Zenon DEF CInv
  <2> QED
    BY <2>1, FieldStep, LogStep, SettledStep, RecStep, CountStep, Zenon DEF CInv
<1>3. CInv => RefCountExact
  BY CInvExact, Zenon
<1> QED
  BY <1>1, <1>2, <1>3, PTL DEF Spec
=============================================================================
