---------------------------- MODULE DsmRefProofs ----------------------------
(***************************************************************************)
(* Recovery decides correctly, for every number of machines, objects and   *)
(* fields and every depth of the redo ring, on a cluster whose machines    *)
(* use the protocol from one CPU and boot once. The invariant behind it    *)
(* says that machines which have not joined left no trace (BootInv), what  *)
(* CPUs know about the operation or the recovery they are in (OpInv), what *)
(* the redo ring holds (RingInv), that a committed operation stays visible *)
(* (VisibleInv), that the eras of an uncommitted one are nowhere to be     *)
(* seen (EraInv), and that a CPU helps recovery before it writes (HelpInv).*)
(***************************************************************************)
EXTENDS DsmRef, TLAPS


OneCpuPerMachine == \A b, c \in Cpus : MachineOf[b] = MachineOf[c] => b = c

Pre == {"load", "era", "redo", "cas"}
InOp == Pre \cup {"ptr", "inc"}
Recovering == {"rcheck", "rscan", "rapply", "rclear"}

\* An operation of this CPU, running or about to start, is not committed:
\* its machine's era is in no object and in no row but its own.
Unpublished(c) ==
  pc[c] \in Pre \/ (up[MachineOf[c]] /\ pc[c] \notin {"ptr", "inc"})

\* Machines that have not joined left no trace.
BootInv ==
  \A m \in Machines :
    /\ boots[m] \in {0, 1}
    /\ boots[m] = 0 =>
         /\ ~up[m] /\ ~token[m]
         /\ redo[m] = EmptyRing
         /\ \A j \in Machines : era[j][m] = 0
         /\ \A o \in Objs : refInfo[o].lcid = m => refInfo[o].era = 0
         /\ \A c \in Cpus : seen[c].lcid = m => seen[c].era = 0
         /\ \A c \in Cpus : MachineOf[c] = m => pc[c] = "idle"

\* A CPU in an operation knows it, and one that recovers a machine recovers a
\* dead one that has left something in its ring.
OpOK(c) ==
  /\ pc[c] \in InOp => op[c] \in [func : {"link", "unlink"}, loc : Locs, obj : Objs]
  /\ pc[c] \in {"redo", "cas", "ptr", "inc"} => cur[c] = era[MachineOf[c]][MachineOf[c]]
  /\ pc[c] \in Recovering => rec[c] \in Machines
  /\ rec[c] \in Machines => ~up[rec[c]] /\ boots[rec[c]] = 1
  /\ pc[c] \in {"rscan", "rapply"} => Logged(rec[c]) # {}
OpInv == \A c \in Cpus : OpOK(c)

\* Eras that left their machine are old, and older than an operation that is
\* not committed.
Old(c, e) ==
  /\ e <= era[MachineOf[c]][MachineOf[c]]
  /\ Unpublished(c) => e < era[MachineOf[c]][MachineOf[c]]
EraInv ==
  \A c \in Cpus :
    /\ \A j \in Machines \ {MachineOf[c]} : Old(c, era[j][MachineOf[c]])
    /\ \A o \in Objs : refInfo[o].lcid = MachineOf[c] => Old(c, refInfo[o].era)
    /\ \A b \in Cpus : seen[b].lcid = MachineOf[c] => Old(c, seen[b].era)

\* Who is about to overwrite a word has recorded the era it shows.
HelpInv ==
  \A c \in Cpus : pc[c] \in {"redo", "cas"} =>
    era[MachineOf[c]][seen[c].lcid] >= seen[c].era

\* A committed operation is visible in the object or in another row.
VisibleInv ==
  \A c \in Cpus : pc[c] = "ptr" =>
    \/ /\ refInfo[op[c].obj].lcid = MachineOf[c]
       /\ refInfo[op[c].obj].era = cur[c]
    \/ \E j \in Machines \ {MachineOf[c]} : era[j][MachineOf[c]] >= cur[c]

\* The ring: entries sit in the slot of their era, none is from the future,
\* one of them is the latest, and it is that of the operation in flight.
RingOK(m) ==
  /\ \A s \in Logged(m) :
       /\ redo[m][s].era % RedoCnt = s
       /\ redo[m][s].era <= era[m][m]
       /\ redo[m][s].loc \in Locs
       /\ redo[m][s].obj \in Objs
  /\ Logged(m) # {} =>
       \E s \in Logged(m) : \A t \in Logged(m) : redo[m][t].era <= redo[m][s].era
InRing(c) ==
  pc[c] \in {"cas", "ptr"} =>
    redo[MachineOf[c]][cur[c] % RedoCnt] =
      [func |-> op[c].func, cnt |-> seen[c].cnt, era |-> cur[c],
       loc |-> op[c].loc, obj |-> op[c].obj]
RingInv == (\A m \in Machines : RingOK(m)) /\ (\A c \in Cpus : InRing(c))

IInv == TypeOK /\ BootInv /\ OpInv /\ EraInv /\ HelpInv /\ VisibleInv /\ RingInv

-----------------------------------------------------------------------------
\* The values the actions assign have their types.
LEMMA TypeFacts ==
  /\ EmptyRing \in Ring
  /\ NoOp \in Operation
  /\ U16 \in Nat \ {0}
  /\ ZeroInfo \in Word
  /\ Steps = {"idle", "embed"} \cup InOp \cup Recovering
  /\ \A l \in Locs, o \in Objs, f \in {"link", "unlink"} :
       [func |-> f, loc |-> l, obj |-> o] \in Operation
<1>0. U16 \in Nat \ {0}
  BY DEF U16
<1> USE CountsAssumption, <1>0
<1>1. EmptyRing \in Ring /\ NoOp \in Operation
  BY DEF EmptyRing, EmptyRedo, Ring, Entry, NoOp, Operation
<1>2. ZeroInfo \in Word
  BY DEF ZeroInfo, Word, Machines
<1>3. Steps = {"idle", "embed"} \cup InOp \cup Recovering
  BY Zenon DEF Steps, InOp, Pre, Recovering
<1>4. \A l \in Locs, o \in Objs, f \in {"link", "unlink"} :
        [func |-> f, loc |-> l, obj |-> o] \in Operation
  BY Zenon DEF Operation
<1> QED
  BY <1>0, <1>1, <1>2, <1>3, <1>4, Zenon

\* The types of the fields of well-formed variables.
LEMMA FieldTypes ==
  ASSUME TypeOK
  PROVE  /\ \A c \in Cpus : /\ seen[c].lcid \in Machines
                            /\ seen[c].cnt \in 0 .. U16 - 1
                            /\ seen[c].era \in Nat
         /\ \A o \in Objs : /\ refInfo[o].lcid \in Machines
                            /\ refInfo[o].cnt \in 0 .. U16 - 1
                            /\ refInfo[o].era \in Nat
         /\ \A c \in Cpus : /\ op[c].func \in {"none", "link", "unlink"}
                            /\ op[c].loc \in Locs \cup {Null}
                            /\ op[c].obj \in Objs \cup {Null}
         /\ \A m \in Machines : \A s \in 0 .. RedoCnt - 1 :
              redo[m][s] \in Entry /\ redo[m][s].era \in Nat
         /\ \A i, j \in Machines : era[i][j] \in Nat
<1>1. seen \in [Cpus -> Word] /\ refInfo \in [Objs -> Word]
  BY Zenon DEF TypeOK
<1>2. op \in [Cpus -> Operation]
  BY Zenon DEF TypeOK
<1>3. redo \in [Machines -> Ring]
  BY Zenon DEF TypeOK
<1>4. \A w \in Word : w.lcid \in Machines /\ w.cnt \in 0 .. U16 - 1 /\ w.era \in Nat
  BY Zenon DEF Word
<1>5. \A p \in Operation : /\ p.func \in {"none", "link", "unlink"}
                           /\ p.loc \in Locs \cup {Null}
                           /\ p.obj \in Objs \cup {Null}
  BY Zenon DEF Operation
<1>6. \A r \in Ring : \A s \in 0 .. RedoCnt - 1 : r[s] \in Entry
  BY Zenon DEF Ring
<1>7. \A r \in Entry : r.era \in Nat
  BY Zenon DEF Entry
<1>8. \A i, j \in Machines : era[i][j] \in Nat
  BY Zenon DEF TypeOK
<1>9. \A c \in Cpus : seen[c] \in Word /\ op[c] \in Operation
  BY <1>1, <1>2, Zenon
<1>10. \A o \in Objs : refInfo[o] \in Word
  BY <1>1, Zenon
<1>11. \A m \in Machines : redo[m] \in Ring
  BY <1>3, Zenon
<1>12. \A m \in Machines : \A s \in 0 .. RedoCnt - 1 : redo[m][s] \in Entry
  BY <1>6, <1>11, Zenon
<1> QED
  BY <1>4, <1>5, <1>7, <1>8, <1>9, <1>10, <1>12, Zenon

\* The initial state satisfies the invariant.
LEMMA InitIInv == Init => IInv
<1> SUFFICES ASSUME Init PROVE IInv
  BY Zenon
<1> USE CountsAssumption, MachineOfAssumption, NullAssumption DEF Init
<1>1. << >> \in Seq(Locs)
  OBVIOUS
<1>2. TypeOK
  BY <1>1, TypeFacts, Zenon DEF TypeOK
<1>3. BootInv
  BY Zenon DEF BootInv, ZeroInfo
<1>4. OpInv
  BY DEF OpInv, OpOK, InOp, Pre, Recovering, NoMachine, Machines
<1>5. EraInv
  BY DEF EraInv, Old, Unpublished, Pre, ZeroInfo
<1>6. HelpInv /\ VisibleInv
  BY Zenon DEF HelpInv, VisibleInv
<1>7. RingInv
  BY Zenon DEF RingInv, RingOK, InRing, Logged, EmptyRing, EmptyRedo
<1> QED
  BY <1>2, <1>3, <1>4, <1>5, <1>6, <1>7, Zenon DEF IInv

\* The entry recovery works from is one of the ring's.
LEMMA LatestIsLogged ==
  ASSUME IInv, NEW d \in Machines, Logged(d) # {}
  PROVE  \E s \in Logged(d) : /\ LatestRedo(d) = redo[d][s]
                              /\ \A t \in Logged(d) : redo[d][t].era <= redo[d][s].era
<1>1. PICK s \in Logged(d) : \A t \in Logged(d) : redo[d][t].era <= redo[d][s].era
  BY Zenon DEF IInv, RingInv, RingOK
<1> QED
  BY <1>1, Zenon DEF LatestRedo

\* Every step keeps the variables well formed.
LEMMA TypeStep == IInv /\ [Next]_vars => TypeOK'
<1> SUFFICES ASSUME IInv, [Next]_vars PROVE TypeOK'
  BY Zenon
<1>0. TypeOK /\ OpInv
  BY Zenon DEF IInv
<1>a. MachineOf \in [Cpus -> Machines]
  BY MachineOfAssumption, Zenon
<1>b. {"idle", "embed"} \cup InOp \cup Recovering \subseteq Steps
  BY TypeFacts, Zenon
<1>c. NoOp \in Operation
  BY TypeFacts, Zenon
<1> USE DEF InOp, Pre, Recovering
<1>1. ASSUME NEW m \in Machines, Join(m) PROVE TypeOK'
  BY <1>0, <1>1, TypeFacts DEF TypeOK, Join, cpuVars
<1>2. ASSUME NEW m \in Machines, Leave(m) PROVE TypeOK'
  BY <1>0, <1>2, TypeFacts, Zenon DEF TypeOK, Leave, cpuVars
<1>3. ASSUME NEW m \in Machines, Crash(m) PROVE TypeOK'
  BY <1>0, <1>3, Zenon DEF TypeOK, Crash, shared, cpuVars
<1>4. ASSUME NEW c \in Cpus, NEW l \in Locs, NEW o \in Objs, StartLink(c, l, o) PROVE TypeOK'
  BY <1>0, <1>4, <1>b, TypeFacts, Zenon DEF TypeOK, StartLink, shared
<1>5. ASSUME NEW c \in Cpus, NEW l \in Locs, StartUnlink(c, l) PROVE TypeOK'
  <2>1. ptr[l] \in Objs
    BY <1>0, <1>5, Zenon DEF TypeOK, StartUnlink
  <2> QED
    BY <1>0, <1>5, <1>b, <2>1, TypeFacts, Zenon DEF TypeOK, StartUnlink, shared
<1>6. ASSUME NEW c \in Cpus, NEW d \in Machines, StartRecovery(c, d) PROVE TypeOK'
  BY <1>0, <1>6, <1>b, Zenon DEF TypeOK, StartRecovery, shared
<1>7. ASSUME NEW c \in Cpus, Load(c) PROVE TypeOK'
  <2>1. op[c].obj \in Objs
    BY <1>0, <1>7, Zenon DEF OpInv, OpOK, Load
  <2> QED
    BY <1>0, <1>7, <1>b, <2>1, Zenon DEF TypeOK, Load, shared
<1>8. ASSUME NEW c \in Cpus, EraSet(c) PROVE TypeOK'
  <2>1. seen[c].lcid \in Machines /\ seen[c].era \in Nat
    BY <1>0, FieldTypes, Zenon
  <2> QED
    BY <1>0, <1>8, <1>a, <1>b, <2>1, Zenon DEF TypeOK, EraSet
<1>9. ASSUME NEW c \in Cpus, WriteRedo(c) PROVE TypeOK'
  <2>1. [func |-> op[c].func, cnt |-> seen[c].cnt, era |-> cur[c],
         loc |-> op[c].loc, obj |-> op[c].obj] \in Entry
    <3>1. cur[c] \in Nat
      BY <1>0, Zenon DEF TypeOK
    <3> QED
      BY <1>0, <3>1, FieldTypes, Zenon DEF Entry
  <2>2. redo' \in [Machines -> Ring]
    BY <1>0, <1>9, <2>1, Zenon DEF TypeOK, WriteRedo, Ring
  <2> QED
    BY <1>0, <1>9, <1>b, <2>2, Zenon DEF TypeOK, WriteRedo
<1>10. ASSUME NEW c \in Cpus, CasInfo(c) PROVE TypeOK'
  <2>1. seen[c].cnt \in 0 .. U16 - 1 /\ cur[c] \in Nat
    BY <1>0, FieldTypes, Zenon DEF TypeOK
  <2>2. NewInfo(c) \in Word
    BY <1>a, <2>1, TypeFacts DEF NewInfo, Word
  <2> QED
    BY <1>0, <1>10, <1>b, <2>2, Zenon DEF TypeOK, CasInfo
<1>11. ASSUME NEW c \in Cpus, WritePtr(c) PROVE TypeOK'
  <2>1. op[c].obj \in Objs
    BY <1>0, <1>11, Zenon DEF OpInv, OpOK, WritePtr
  <2> QED
    BY <1>0, <1>11, <1>b, <2>1, Zenon DEF TypeOK, WritePtr
<1>12. ASSUME NEW c \in Cpus, EraInc(c) PROVE TypeOK'
  <2>1. op[c].obj \in Objs
    BY <1>0, <1>12, Zenon DEF OpInv, OpOK, EraInc
  <2>2. todo' \in [Cpus -> Seq(Locs)]
    BY <1>0, <1>12, <2>1, EmbeddedAssumption DEF TypeOK, EraInc
  <2>3. era' \in [Machines -> [Machines -> Nat]]
    <3>1. era \in [Machines -> [Machines -> Nat]] /\ MachineOf[c] \in Machines
      BY <1>0, <1>a, Zenon DEF TypeOK
    <3>2. era' = [era EXCEPT ![MachineOf[c]][MachineOf[c]] = era[MachineOf[c]][MachineOf[c]] + 1]
      BY <1>12, Zenon DEF EraInc
    <3>3. era[MachineOf[c]][MachineOf[c]] + 1 \in Nat
      BY <3>1
    <3> QED
      BY <3>1, <3>2, <3>3, Zenon
  <2> QED
    BY <1>0, <1>12, <1>b, <1>c, <2>2, <2>3, Zenon DEF TypeOK, EraInc
<1>13. ASSUME NEW c \in Cpus, Embed(c) PROVE TypeOK'
  <2>1. Head(todo[c]) \in Locs /\ Tail(todo[c]) \in Seq(Locs)
    BY <1>0, <1>13 DEF TypeOK, Embed
  <2>2. ptr[Head(todo[c])] # Null => ptr[Head(todo[c])] \in Objs
    BY <1>0, <2>1, Zenon DEF TypeOK
  <2>3. op' \in [Cpus -> Operation] /\ pc' \in [Cpus -> Steps]
    <3>1. ptr[Head(todo[c])] # Null =>
            [func |-> "unlink", loc |-> Head(todo[c]), obj |-> ptr[Head(todo[c])]] \in Operation
      BY <2>1, <2>2, TypeFacts, Zenon
    <3> QED
      BY <1>0, <1>13, <1>b, <3>1, Zenon DEF TypeOK, Embed
  <2> QED
    BY <1>0, <1>13, <2>1, <2>3, Zenon DEF TypeOK, Embed, shared
<1>14. ASSUME NEW c \in Cpus, Return(c) PROVE TypeOK'
  BY <1>0, <1>14, <1>b, Zenon DEF TypeOK, Return, shared
<1>15. ASSUME NEW c \in Cpus, CheckVisible(c) PROVE TypeOK'
  BY <1>0, <1>15, <1>b, Zenon DEF TypeOK, CheckVisible, shared
<1>16. ASSUME NEW c \in Cpus, ScanEra(c) PROVE TypeOK'
  <2>1. scan \in [Cpus -> Nat] /\ pc \in [Cpus -> Steps]
    BY <1>0, Zenon DEF TypeOK
  <2>2. scan' \in [Cpus -> Nat] /\ pc' \in [Cpus -> Steps]
    BY <1>16, <1>b, <2>1 DEF ScanEra
  <2> QED
    BY <1>0, <1>16, <2>2, Zenon DEF TypeOK, ScanEra, shared
<1>17. ASSUME NEW c \in Cpus, ApplyRedo(c) PROVE TypeOK'
  <2>1. rec[c] \in Machines /\ Logged(rec[c]) # {}
    BY <1>0, <1>17, Zenon DEF OpInv, OpOK, ApplyRedo
  <2>2. PICK s \in Logged(rec[c]) : LatestRedo(rec[c]) = redo[rec[c]][s]
    BY <2>1, LatestIsLogged, Zenon
  <2>3. LatestRedo(rec[c]).loc \in Locs /\ LatestRedo(rec[c]).obj \in Objs
    BY <2>1, <2>2, Zenon DEF IInv, RingInv, RingOK
  <2>4. todo' \in [Cpus -> Seq(Locs)]
    BY <1>0, <1>17, <2>3, EmbeddedAssumption DEF TypeOK, ApplyRedo
  <2> QED
    BY <1>0, <1>17, <1>b, <1>c, <2>3, <2>4, Zenon DEF TypeOK, ApplyRedo
<1>18. ASSUME NEW c \in Cpus, ClearSlot(c) PROVE TypeOK'
  <2>1. todo' \in [Cpus -> Seq(Locs)]
    BY <1>0, <1>18 DEF TypeOK, ClearSlot
  <2> QED
    BY <1>0, <1>18, <1>b, <1>c, <2>1, Zenon DEF TypeOK, ClearSlot
<1>19. CASE UNCHANGED vars
  BY <1>0, <1>19, Zenon DEF TypeOK, vars
<1> QED
  BY <1>1, <1>2, <1>3, <1>4, <1>5, <1>6, <1>7, <1>8, <1>9, <1>10, <1>11, <1>12, <1>13,
     <1>14, <1>15, <1>16, <1>17, <1>18, <1>19, Zenon DEF Next, Step

\* A machine that has not booted leaves no trace, and boots at most once.
LEMMA BootStep ==
  ASSUME MaxBoots = 1, IInv, TypeOK', [Next]_vars
  PROVE  BootInv'
<1>0. TypeOK /\ BootInv
  BY Zenon DEF IInv
<1>a. MachineOf \in [Cpus -> Machines]
  BY MachineOfAssumption, Zenon
<1>p. pc \in [Cpus -> Steps] /\ up \in [Machines -> BOOLEAN]
  BY <1>0, Zenon DEF TypeOK
<1>l. \A c \in Cpus : Live(c) => boots[MachineOf[c]] = 1
  BY <1>0, <1>a, Zenon DEF BootInv, Live
<1>q. ASSUME UNCHANGED <<refInfo, era, seen, boots>>,
             \A m \in Machines : (up'[m] => up[m]) /\ (token'[m] => token[m]),
             \A m \in Machines : redo'[m] = redo[m] \/ redo'[m] = EmptyRing,
             \A b \in Cpus : boots[MachineOf[b]] = 0 => pc'[b] = "idle"
      PROVE  BootInv'
  BY <1>0, <1>q, Zenon DEF BootInv
<1>r. \A b \in Cpus : boots[MachineOf[b]] = 0 => pc[b] = "idle"
  BY <1>0, <1>a, Zenon DEF BootInv
<1>1. ASSUME NEW m \in Machines, Join(m) PROVE BootInv'
  <2>1. boots[m] = 0
    BY <1>0, <1>1 DEF Join, BootInv
  <2>2. \A n \in Machines \ {m} : /\ boots'[n] = boots[n]
                                  /\ redo'[n] = redo[n]
                                  /\ up'[n] = up[n] /\ token'[n] = token[n]
                                  /\ \A j \in Machines : era'[j][n] = era[j][n]
    BY <1>0, <1>1 DEF Join, TypeOK
  <2>3. boots'[m] = 1
    BY <1>0, <1>1, <2>1 DEF Join, TypeOK
  <2> QED
    BY <1>0, <1>1, <2>2, <2>3 DEF Join, BootInv, cpuVars
<1>2. ASSUME NEW m \in Machines, Leave(m) PROVE BootInv'
  <2>1. /\ \A n \in Machines : (up'[n] => up[n]) /\ (token'[n] => token[n])
        /\ \A n \in Machines : redo'[n] = redo[n] \/ redo'[n] = EmptyRing
    BY <1>0, <1>2, Zenon DEF Leave, TypeOK
  <2> QED
    BY <1>q, <1>r, <1>2, <2>1, Zenon DEF Leave, cpuVars
<1>3. ASSUME NEW m \in Machines, Crash(m) PROVE BootInv'
  <2>1. \A n \in Machines : up'[n] => up[n]
    BY <1>p, <1>3, Zenon DEF Crash
  <2> QED
    BY <1>q, <1>r, <1>3, <2>1, Zenon DEF Crash, shared, cpuVars
<1>4. ASSUME NEW c \in Cpus, NEW l \in Locs, NEW o \in Objs, StartLink(c, l, o) PROVE BootInv'
  BY <1>l, <1>p, <1>q, <1>r, <1>4 DEF StartLink, shared
<1>5. ASSUME NEW c \in Cpus, NEW l \in Locs, StartUnlink(c, l) PROVE BootInv'
  BY <1>l, <1>p, <1>q, <1>r, <1>5 DEF StartUnlink, shared
<1>6. ASSUME NEW c \in Cpus, NEW d \in Machines, StartRecovery(c, d) PROVE BootInv'
  BY <1>l, <1>p, <1>q, <1>r, <1>6 DEF StartRecovery, shared
<1>7. ASSUME NEW c \in Cpus, Load(c) PROVE BootInv'
  <2>1. op[c].obj \in Objs
    BY <1>7, Zenon DEF IInv, OpInv, OpOK, InOp, Pre, Load
  <2>2. \A b \in Cpus : seen'[b] = seen[b] \/ seen'[b] = refInfo[op[c].obj]
    BY <1>0, <1>7, Zenon DEF Load, TypeOK
  <2>3. \A b \in Cpus : boots[MachineOf[b]] = 0 => pc'[b] = "idle"
    BY <1>l, <1>p, <1>r, <1>7, Zenon DEF Load
  <2>4. UNCHANGED <<refInfo, era, redo, token, up, boots>>
    BY <1>7, Zenon DEF Load, shared
  <2> QED
    BY <1>0, <1>a, <2>1, <2>2, <2>3, <2>4 DEF BootInv
<1>8. ASSUME NEW c \in Cpus, EraSet(c) PROVE BootInv'
  <2>1. \A j, n \in Machines : boots[n] = 0 => era'[j][n] = 0
    <3> SUFFICES ASSUME NEW j \in Machines, NEW n \in Machines, boots[n] = 0
                 PROVE  era'[j][n] = 0
      BY Zenon
    <3>1. era[j][n] = 0 /\ (seen[c].lcid = n => seen[c].era = 0)
      BY <1>0, Zenon DEF BootInv
    <3>2. era[MachineOf[c]][seen[c].lcid] \in Nat /\ era \in [Machines -> [Machines -> Nat]]
      BY <1>0, <1>a, FieldTypes, Zenon DEF TypeOK
    <3> QED
      BY <1>8, <3>1, <3>2, Zenon DEF EraSet
  <2>2. \A b \in Cpus : boots[MachineOf[b]] = 0 => pc'[b] = "idle"
    BY <1>l, <1>p, <1>r, <1>8, Zenon DEF EraSet
  <2>3. UNCHANGED <<refInfo, seen, redo, token, up, boots>>
    BY <1>8, Zenon DEF EraSet
  <2> QED
    BY <1>0, <1>a, <2>1, <2>2, <2>3, Zenon DEF BootInv
<1>9. ASSUME NEW c \in Cpus, WriteRedo(c) PROVE BootInv'
  <2>1. \A m \in Machines : boots[m] = 0 => redo'[m] = redo[m]
    BY <1>0, <1>a, <1>l, <1>9 DEF WriteRedo, TypeOK
  <2>2. \A b \in Cpus : boots[MachineOf[b]] = 0 => pc'[b] = "idle"
    BY <1>l, <1>p, <1>r, <1>9, Zenon DEF WriteRedo
  <2>3. UNCHANGED <<refInfo, seen, era, token, up, boots>>
    BY <1>9, Zenon DEF WriteRedo
  <2> QED
    BY <1>0, <1>a, <2>1, <2>2, <2>3, Zenon DEF BootInv
<1>10. ASSUME NEW c \in Cpus, CasInfo(c) PROVE BootInv'
  <2>1. \A o \in Objs : refInfo'[o] = refInfo[o] \/ refInfo'[o].lcid = MachineOf[c]
    BY <1>0, <1>10 DEF CasInfo, NewInfo, TypeOK
  <2>2. \A b \in Cpus : boots[MachineOf[b]] = 0 => pc'[b] = "idle"
    BY <1>l, <1>p, <1>r, <1>10, Zenon DEF CasInfo
  <2>3. UNCHANGED <<era, seen, redo, token, up, boots>> /\ boots[MachineOf[c]] = 1
    BY <1>l, <1>10, Zenon DEF CasInfo
  <2> QED
    BY <1>0, <1>a, <2>1, <2>2, <2>3 DEF BootInv
<1>11. ASSUME NEW c \in Cpus, WritePtr(c) PROVE BootInv'
  BY <1>l, <1>p, <1>q, <1>r, <1>11, Zenon DEF WritePtr
<1>12. ASSUME NEW c \in Cpus, EraInc(c) PROVE BootInv'
  <2>1. \A j, n \in Machines : boots[n] = 0 => era'[j][n] = era[j][n]
    BY <1>0, <1>a, <1>l, <1>12 DEF EraInc, TypeOK
  <2>2. \A b \in Cpus : boots[MachineOf[b]] = 0 => pc'[b] = "idle"
    BY <1>l, <1>p, <1>r, <1>12, Zenon DEF EraInc
  <2>3. UNCHANGED <<refInfo, seen, redo, token, up, boots>>
    BY <1>12, Zenon DEF EraInc
  <2> QED
    BY <1>0, <1>a, <2>1, <2>2, <2>3 DEF BootInv
<1>13. ASSUME NEW c \in Cpus, Embed(c) PROVE BootInv'
  BY <1>l, <1>p, <1>q, <1>r, <1>13, Zenon DEF Embed, shared
<1>14. ASSUME NEW c \in Cpus, Return(c) PROVE BootInv'
  BY <1>l, <1>p, <1>q, <1>r, <1>14, Zenon DEF Return, shared
<1>15. ASSUME NEW c \in Cpus, CheckVisible(c) PROVE BootInv'
  BY <1>l, <1>p, <1>q, <1>r, <1>15, Zenon DEF CheckVisible, shared
<1>16. ASSUME NEW c \in Cpus, ScanEra(c) PROVE BootInv'
  BY <1>l, <1>p, <1>q, <1>r, <1>16, Zenon DEF ScanEra, shared
<1>17. ASSUME NEW c \in Cpus, ApplyRedo(c) PROVE BootInv'
  <2>1. \A b \in Cpus : boots[MachineOf[b]] = 0 => pc'[b] = "idle"
    BY <1>l, <1>p, <1>r, <1>17, Zenon DEF ApplyRedo
  <2> QED
    BY <1>q, <1>17, <2>1, Zenon DEF ApplyRedo
<1>18. ASSUME NEW c \in Cpus, ClearSlot(c) PROVE BootInv'
  <2>1. \A b \in Cpus : boots[MachineOf[b]] = 0 => pc'[b] = "idle"
    BY <1>l, <1>p, <1>r, <1>18, Zenon DEF ClearSlot
  <2>2. \A n \in Machines : token'[n] => token[n]
    BY <1>0, <1>18, Zenon DEF ClearSlot, TypeOK
  <2> QED
    BY <1>q, <1>18, <2>1, <2>2, Zenon DEF ClearSlot
<1>19. CASE UNCHANGED vars
  BY <1>q, <1>r, <1>19, Zenon DEF vars
<1> QED
  BY <1>1, <1>2, <1>3, <1>4, <1>5, <1>6, <1>7, <1>8, <1>9, <1>10, <1>11, <1>12, <1>13,
     <1>14, <1>15, <1>16, <1>17, <1>18, <1>19, Zenon DEF Next, Step

-----------------------------------------------------------------------------
(* What a step does to eras and dead machines, and OpInv                   *)

\* The slot of a dead machine is left alone.
LEMMA DeadFrame ==
  ASSUME MaxBoots = 1, IInv, [Next]_vars, NEW d \in Machines, ~up[d], boots[d] = 1
  PROVE  ~up'[d] /\ boots'[d] = 1 /\ redo'[d] = redo[d]
<1>0. /\ up \in [Machines -> BOOLEAN] /\ boots \in [Machines -> Nat] /\ redo \in [Machines -> Ring]
      /\ MachineOf \in [Cpus -> Machines]
  BY MachineOfAssumption, Zenon DEF IInv, TypeOK
<1>1. ASSUME NEW m \in Machines, Join(m) \/ Leave(m) \/ Crash(m)
      PROVE  ~up'[d] /\ boots'[d] = 1 /\ redo'[d] = redo[d]
  <2>1. Join(m) => m # d
    BY DEF Join
  <2> QED
    BY <1>0, <1>1, <2>1, Zenon DEF Join, Leave, Crash, shared
<1>2. ASSUME NEW c \in Cpus, WriteRedo(c)
      PROVE  ~up'[d] /\ boots'[d] = 1 /\ redo'[d] = redo[d]
  BY <1>0, <1>2, Zenon DEF WriteRedo, Live
<1>3. ASSUME UNCHANGED <<up, boots, redo>>
      PROVE  ~up'[d] /\ boots'[d] = 1 /\ redo'[d] = redo[d]
  BY <1>3, Zenon
<1>4. ASSUME NEW c \in Cpus, Step(c), ~WriteRedo(c)
      PROVE  UNCHANGED <<up, boots, redo>>
  BY <1>4, Zenon DEF Step, Load, EraSet, CasInfo, WritePtr, EraInc, Embed, Return,
     CheckVisible, ScanEra, ApplyRedo, ClearSlot, shared
<1>5. ASSUME NEW c \in Cpus, NEW l \in Locs, StartUnlink(c, l) \/ \E o \in Objs : StartLink(c, l, o)
      PROVE  UNCHANGED <<up, boots, redo>>
  BY <1>5, Zenon DEF StartUnlink, StartLink, shared
<1>6. ASSUME NEW c \in Cpus, NEW m \in Machines, StartRecovery(c, m)
      PROVE  UNCHANGED <<up, boots, redo>>
  BY <1>6, Zenon DEF StartRecovery, shared
<1>7. CASE UNCHANGED vars
  BY <1>7, Zenon DEF vars
<1> QED
  BY <1>1, <1>2, <1>3, <1>4, <1>5, <1>6, <1>7, Zenon DEF Next

\* Recording the era of an object never touches the machine's own era.
LEMMA OwnEra ==
  ASSUME IInv, NEW c \in Cpus, EraSet(c)
  PROVE  \A m \in Machines : era'[m][m] = era[m][m]
<1>1. era \in [Machines -> [Machines -> Nat]] /\ MachineOf \in [Cpus -> Machines]
  BY MachineOfAssumption, Zenon DEF IInv, TypeOK
<1>2. seen[c].lcid = MachineOf[c] => seen[c].era <= era[MachineOf[c]][MachineOf[c]]
  BY Zenon DEF IInv, EraInv, Old
<1>3. seen[c].era \in Nat /\ seen[c].lcid \in Machines
  BY FieldTypes, Zenon DEF IInv
<1>4. SUFFICES ASSUME NEW m \in Machines PROVE era'[m][m] = era[m][m]
  BY Zenon
<1>5. CASE seen[c].lcid = MachineOf[c]
  <2>1. ~(seen[c].era > era[MachineOf[c]][seen[c].lcid])
    BY <1>1, <1>2, <1>3, <1>5
  <2> QED
    BY <2>1, Zenon DEF EraSet
<1>6. CASE seen[c].lcid # MachineOf[c]
  BY <1>1, <1>3, <1>6, Zenon DEF EraSet
<1> QED
  BY <1>5, <1>6, Zenon

\* What a machine knows of the eras never shrinks.
LEMMA EraGrows ==
  ASSUME MaxBoots = 1, IInv, TypeOK', [Next]_vars
  PROVE  \A i, j \in Machines : era'[i][j] >= era[i][j]
<1>t. era \in [Machines -> [Machines -> Nat]] /\ MachineOf \in [Cpus -> Machines]
  BY MachineOfAssumption, Zenon DEF IInv, TypeOK
<1>1. ASSUME NEW m \in Machines, Join(m) PROVE \A i, j \in Machines : era'[i][j] >= era[i][j]
  <2>1. era[m][m] = 0
    BY <1>1 DEF Join, IInv, BootInv
  <2> QED
    BY <1>t, <1>1, <2>1 DEF Join
<1>2. ASSUME NEW c \in Cpus, EraSet(c) PROVE \A i, j \in Machines : era'[i][j] >= era[i][j]
  <2>1. seen[c].lcid \in Machines /\ seen[c].era \in Nat
    BY FieldTypes, Zenon DEF IInv
  <2> QED
    BY <1>t, <1>2, <2>1 DEF EraSet
<1>3. ASSUME NEW c \in Cpus, EraInc(c) PROVE \A i, j \in Machines : era'[i][j] >= era[i][j]
  <2> DEFINE k == MachineOf[c]
  <2>1. k \in Machines /\ era' = [era EXCEPT ![k][k] = @ + 1]
    BY <1>t, <1>3, Zenon DEF EraInc
  <2> HIDE DEF k
  <2> QED
    BY <1>t, <2>1
<1>4. ASSUME era' = era PROVE \A i, j \in Machines : era'[i][j] >= era[i][j]
  BY <1>t, <1>4
<1>5. ASSUME NEW c \in Cpus, Step(c), ~EraSet(c), ~EraInc(c) PROVE era' = era
  BY <1>5, Zenon DEF Step, Load, WriteRedo, CasInfo, WritePtr, Embed, Return,
     CheckVisible, ScanEra, ApplyRedo, ClearSlot, shared
<1>6. ASSUME NEW m \in Machines, Leave(m) \/ Crash(m) PROVE era' = era
  BY <1>6, Zenon DEF Leave, Crash, shared
<1>7. ASSUME NEW c \in Cpus, NEW l \in Locs, StartUnlink(c, l) \/ \E o \in Objs : StartLink(c, l, o)
      PROVE  era' = era
  BY <1>7, Zenon DEF StartUnlink, StartLink, shared
<1>8. ASSUME NEW c \in Cpus, NEW m \in Machines, StartRecovery(c, m) PROVE era' = era
  BY <1>8, Zenon DEF StartRecovery, shared
<1>9. CASE UNCHANGED vars
  BY <1>4, <1>9, Zenon DEF vars
<1> QED
  BY <1>1, <1>2, <1>3, <1>4, <1>5, <1>6, <1>7, <1>8, <1>9, Zenon DEF Next

\* CPUs keep knowing their operation and their recovery.
LEMMA OpStep ==
  ASSUME OneCpuPerMachine, MaxBoots = 1, IInv, TypeOK', [Next]_vars
  PROVE  OpInv'
<1>0. OpInv /\ TypeOK
  BY Zenon DEF IInv
<1>a. MachineOf \in [Cpus -> Machines] /\ NoMachine \notin Machines
  BY MachineOfAssumption DEF NoMachine, Machines
<1>t. /\ pc \in [Cpus -> Steps] /\ op \in [Cpus -> Operation] /\ cur \in [Cpus -> Nat]
      /\ rec \in [Cpus -> Machines \cup {NoMachine}] /\ era \in [Machines -> [Machines -> Nat]]
  BY <1>0, Zenon DEF TypeOK
<1>d. \A m \in Machines : ~up[m] /\ boots[m] = 1 =>
        ~up'[m] /\ boots'[m] = 1 /\ Logged(m)' = Logged(m)
  <2>1. \A m \in Machines : ~up[m] /\ boots[m] = 1 =>
          ~up'[m] /\ boots'[m] = 1 /\ redo'[m] = redo[m]
    BY DeadFrame, Zenon
  <2> QED
    BY <2>1, Zenon DEF Logged
<1>f. ASSUME NEW b \in Cpus, pc'[b] = pc[b], op'[b] = op[b], cur'[b] = cur[b], rec'[b] = rec[b],
             era'[MachineOf[b]][MachineOf[b]] = era[MachineOf[b]][MachineOf[b]]
      PROVE  OpOK(b)'
  <2>1. OpOK(b)
    BY <1>0, Zenon DEF OpInv
  <2>2. pc[b] \in {"rscan", "rapply"} => Logged(rec[b])' # {}
    BY <1>d, <1>f, <2>1, Zenon DEF OpOK, Recovering
  <2>3. rec[b] \in Machines => ~up'[rec[b]] /\ boots'[rec[b]] = 1
    BY <1>d, <2>1, Zenon DEF OpOK
  <2> QED
    BY <1>f, <2>1, <2>2, <2>3, Zenon DEF OpOK, Logged
<1>g. ASSUME NEW b \in Cpus, pc'[b] \in {"idle", "embed"}, rec'[b] = rec[b] \/ rec'[b] = NoMachine
      PROVE  OpOK(b)'
  <2>1. rec'[b] \in Machines => ~up'[rec'[b]] /\ boots'[rec'[b]] = 1
    BY <1>0, <1>a, <1>d, <1>g, Zenon DEF OpInv, OpOK
  <2> QED
    BY <1>g, <2>1, Zenon DEF OpOK, InOp, Pre, Recovering
<1> SUFFICES ASSUME NEW b \in Cpus PROVE OpOK(b)'
  BY Zenon DEF OpInv
<1>b. OpOK(b)
  BY <1>0, Zenon DEF OpInv
<1>h. rec[b] \in Machines => ~up'[rec[b]] /\ boots'[rec[b]] = 1
  BY <1>b, <1>d, Zenon DEF OpOK
<1>1. ASSUME NEW m \in Machines, Join(m) PROVE OpOK(b)'
  <2>1. boots[m] = 0
    BY <1>1 DEF Join, IInv, BootInv
  <2>2. CASE MachineOf[b] = m
    <3>1. pc[b] = "idle"
      BY <2>1, <2>2, Zenon DEF IInv, BootInv
    <3> QED
      BY <1>g, <1>1, <3>1, Zenon DEF Join, cpuVars
  <2>3. CASE MachineOf[b] # m
    BY <1>f, <1>a, <1>t, <1>1, <2>3, Zenon DEF Join, cpuVars
  <2> QED
    BY <2>2, <2>3, Zenon
<1>2. ASSUME NEW m \in Machines, Leave(m) \/ Crash(m) PROVE OpOK(b)'
  BY <1>f, <1>2, Zenon DEF Leave, Crash, cpuVars, shared
<1>4. ASSUME NEW c \in Cpus, NEW l \in Locs, NEW o \in Objs, StartLink(c, l, o) PROVE OpOK(b)'
  <2>1. CASE b # c
    BY <1>f, <1>t, <1>4, <2>1, Zenon DEF StartLink, shared
  <2>2. CASE b = c
    <3>1. pc'[b] = "load" /\ op'[b] = [func |-> "link", loc |-> l, obj |-> o] /\ rec'[b] = rec[b]
      BY <1>t, <1>4, <2>2, Zenon DEF StartLink
    <3> QED
      BY <1>h, <3>1 DEF OpOK, InOp, Pre, Recovering
  <2> QED
    BY <2>1, <2>2, Zenon
<1>5. ASSUME NEW c \in Cpus, NEW l \in Locs, StartUnlink(c, l) PROVE OpOK(b)'
  <2>1. CASE b # c
    BY <1>f, <1>t, <1>5, <2>1, Zenon DEF StartUnlink, shared
  <2>2. CASE b = c
    <3>1. ptr[l] \in Objs
      BY <1>0, <1>5, Zenon DEF TypeOK, StartUnlink
    <3>2. pc'[b] = "load" /\ op'[b] = [func |-> "unlink", loc |-> l, obj |-> ptr[l]] /\ rec'[b] = rec[b]
      BY <1>t, <1>5, <2>2, Zenon DEF StartUnlink
    <3> QED
      BY <1>h, <3>1, <3>2 DEF OpOK, InOp, Pre, Recovering
  <2> QED
    BY <2>1, <2>2, Zenon
<1>6. ASSUME NEW c \in Cpus, NEW d \in Machines, StartRecovery(c, d) PROVE OpOK(b)'
  <2>1. CASE b # c
    BY <1>f, <1>t, <1>6, <2>1, Zenon DEF StartRecovery, shared
  <2>2. CASE b = c
    <3>1. pc'[b] = "rcheck" /\ rec'[b] = d
      BY <1>t, <1>6, <2>2, Zenon DEF StartRecovery
    <3>2. ~up'[d] /\ boots'[d] = 1
      BY <1>6, <1>d, Zenon DEF StartRecovery, IInv, BootInv
    <3> QED
      BY <3>1, <3>2, Zenon DEF OpOK, InOp, Pre, Recovering
  <2> QED
    BY <2>1, <2>2, Zenon
<1>7. ASSUME NEW c \in Cpus, Load(c) PROVE OpOK(b)'
  <2>1. CASE b # c
    BY <1>f, <1>t, <1>7, <2>1, Zenon DEF Load, shared
  <2>2. CASE b = c
    <3>1. pc[b] = "load" /\ pc'[b] = "era" /\ op'[b] = op[b] /\ rec'[b] = rec[b]
      BY <1>t, <1>7, <2>2, Zenon DEF Load
    <3> QED
      BY <1>b, <1>h, <3>1, Zenon DEF OpOK, InOp, Pre, Recovering
  <2> QED
    BY <2>1, <2>2, Zenon
<1>8. ASSUME NEW c \in Cpus, EraSet(c) PROVE OpOK(b)'
  <2>0. era'[MachineOf[b]][MachineOf[b]] = era[MachineOf[b]][MachineOf[b]]
    BY <1>a, <1>8, OwnEra, Zenon
  <2>1. CASE b # c
    BY <1>f, <1>t, <1>8, <2>0, <2>1, Zenon DEF EraSet
  <2>2. CASE b = c
    <3>1. /\ pc[b] = "era" /\ pc'[b] = "redo" /\ op'[b] = op[b] /\ rec'[b] = rec[b]
          /\ cur'[b] = era[MachineOf[b]][MachineOf[b]]
      BY <1>t, <1>8, <2>2, Zenon DEF EraSet
    <3> QED
      BY <1>b, <1>h, <2>0, <3>1, Zenon DEF OpOK, InOp, Pre, Recovering
  <2> QED
    BY <2>1, <2>2, Zenon
<1>9. ASSUME NEW c \in Cpus, WriteRedo(c) PROVE OpOK(b)'
  <2>1. CASE b # c
    BY <1>f, <1>t, <1>9, <2>1, Zenon DEF WriteRedo
  <2>2. CASE b = c
    <3>1. /\ pc[b] = "redo" /\ pc'[b] = "cas" /\ op'[b] = op[b] /\ rec'[b] = rec[b]
          /\ cur'[b] = cur[b] /\ era' = era
      BY <1>t, <1>9, <2>2, Zenon DEF WriteRedo
    <3> QED
      BY <1>b, <1>h, <3>1, Zenon DEF OpOK, InOp, Pre, Recovering
  <2> QED
    BY <2>1, <2>2, Zenon
<1>10. ASSUME NEW c \in Cpus, CasInfo(c) PROVE OpOK(b)'
  <2>1. CASE b # c
    BY <1>f, <1>t, <1>10, <2>1, Zenon DEF CasInfo
  <2>2. CASE b = c
    <3>1. /\ pc[b] = "cas" /\ pc'[b] \in {"ptr", "load"} /\ op'[b] = op[b] /\ rec'[b] = rec[b]
          /\ cur'[b] = cur[b] /\ era' = era
      BY <1>t, <1>10, <2>2, Zenon DEF CasInfo
    <3> QED
      BY <1>b, <1>h, <3>1, Zenon DEF OpOK, InOp, Pre, Recovering
  <2> QED
    BY <2>1, <2>2, Zenon
<1>11. ASSUME NEW c \in Cpus, WritePtr(c) PROVE OpOK(b)'
  <2>1. CASE b # c
    BY <1>f, <1>t, <1>11, <2>1, Zenon DEF WritePtr
  <2>2. CASE b = c
    <3>1. /\ pc[b] = "ptr" /\ pc'[b] = "inc" /\ op'[b] = op[b] /\ rec'[b] = rec[b]
          /\ cur'[b] = cur[b] /\ era' = era
      BY <1>t, <1>11, <2>2, Zenon DEF WritePtr
    <3> QED
      BY <1>b, <1>h, <3>1, Zenon DEF OpOK, InOp, Pre, Recovering
  <2> QED
    BY <2>1, <2>2, Zenon
<1>12. ASSUME NEW c \in Cpus, EraInc(c) PROVE OpOK(b)'
  <2>1. CASE b # c
    <3>1. MachineOf[b] # MachineOf[c]
      BY <2>1, Zenon DEF OneCpuPerMachine
    <3> QED
      BY <1>f, <1>a, <1>t, <1>12, <2>1, <3>1, Zenon DEF EraInc
  <2>2. CASE b = c
    BY <1>g, <1>t, <1>12, <2>2, Zenon DEF EraInc
  <2> QED
    BY <2>1, <2>2, Zenon
<1>13. ASSUME NEW c \in Cpus, Embed(c) PROVE OpOK(b)'
  <2>1. CASE b # c
    BY <1>f, <1>t, <1>13, <2>1, Zenon DEF Embed, shared
  <2>2. CASE b = c /\ pc' = pc
    BY <1>g, <1>13, <2>2, Zenon DEF Embed
  <2>3. CASE b = c /\ pc' # pc
    <3>1. Head(todo[c]) \in Locs
      BY <1>0, <1>13 DEF TypeOK, Embed
    <3>2. ptr[Head(todo[c])] # Null
      BY <1>13, <2>3, Zenon DEF Embed
    <3>3. ptr[Head(todo[c])] \in Objs
      BY <1>0, <3>1, <3>2, Zenon DEF TypeOK
    <3>4. /\ pc'[b] = "load" /\ rec'[b] = rec[b]
          /\ op'[b] = [func |-> "unlink", loc |-> Head(todo[c]), obj |-> ptr[Head(todo[c])]]
      BY <1>t, <1>13, <2>3, <3>2, Zenon DEF Embed
    <3> QED
      BY <1>h, <3>1, <3>3, <3>4 DEF OpOK, InOp, Pre, Recovering
  <2> QED
    BY <2>1, <2>2, <2>3, Zenon
<1>14. ASSUME NEW c \in Cpus, Return(c) PROVE OpOK(b)'
  <2>1. CASE b # c
    BY <1>f, <1>t, <1>14, <2>1, Zenon DEF Return, shared
  <2>2. CASE b = c /\ rec[c] = NoMachine
    BY <1>g, <1>t, <1>14, <2>2, Zenon DEF Return
  <2>3. CASE b = c /\ rec[c] # NoMachine
    <3>1. pc'[b] = "rclear" /\ rec'[b] = rec[b] /\ rec[b] \in Machines
      BY <1>t, <1>14, <2>3, Zenon DEF Return
    <3> QED
      BY <1>h, <3>1, Zenon DEF OpOK, InOp, Pre, Recovering
  <2> QED
    BY <2>1, <2>2, <2>3, Zenon
<1>15. ASSUME NEW c \in Cpus, CheckVisible(c) PROVE OpOK(b)'
  <2>1. CASE b # c
    BY <1>f, <1>t, <1>15, <2>1, Zenon DEF CheckVisible, shared
  <2>2. CASE b = c
    <3>1. /\ pc[b] = "rcheck" /\ rec'[b] = rec[b] /\ pc'[b] \in {"rclear", "rapply", "rscan"}
          /\ redo' = redo /\ (pc'[b] # "rclear" => Logged(rec[b]) # {})
      BY <1>t, <1>15, <2>2, Zenon DEF CheckVisible, shared
    <3>2. Logged(rec[b])' = Logged(rec[b])
      BY <3>1, Zenon DEF Logged
    <3> QED
      BY <1>b, <1>h, <3>1, <3>2, Zenon DEF OpOK, InOp, Pre, Recovering, Logged
  <2> QED
    BY <2>1, <2>2, Zenon
<1>16. ASSUME NEW c \in Cpus, ScanEra(c) PROVE OpOK(b)'
  <2>1. CASE b # c
    BY <1>f, <1>t, <1>16, <2>1, Zenon DEF ScanEra, shared
  <2>2. CASE b = c
    <3>1. /\ pc[b] = "rscan" /\ rec'[b] = rec[b] /\ pc'[b] \in {"rclear", "rapply", "rscan"}
          /\ redo' = redo
      BY <1>t, <1>16, <2>2, Zenon DEF ScanEra, shared
    <3>2. Logged(rec[b])' = Logged(rec[b])
      BY <3>1, Zenon DEF Logged
    <3> QED
      BY <1>b, <1>h, <3>1, <3>2, Zenon DEF OpOK, InOp, Pre, Recovering, Logged
  <2> QED
    BY <2>1, <2>2, Zenon
<1>17. ASSUME NEW c \in Cpus, ApplyRedo(c) PROVE OpOK(b)'
  <2>1. CASE b = c \/ MachineOf[b] = rec[c]
    BY <1>g, <1>17, <2>1, Zenon DEF ApplyRedo
  <2>2. CASE ~(b = c \/ MachineOf[b] = rec[c])
    BY <1>f, <1>17, <2>2, Zenon DEF ApplyRedo
  <2> QED
    BY <2>1, <2>2, Zenon
<1>18. ASSUME NEW c \in Cpus, ClearSlot(c) PROVE OpOK(b)'
  <2>1. CASE b = c \/ MachineOf[b] = rec[c]
    BY <1>g, <1>18, <2>1, Zenon DEF ClearSlot
  <2>2. CASE ~(b = c \/ MachineOf[b] = rec[c])
    BY <1>f, <1>18, <2>2, Zenon DEF ClearSlot
  <2> QED
    BY <2>1, <2>2, Zenon
<1>19. CASE UNCHANGED vars
  BY <1>f, <1>19, Zenon DEF vars
<1> QED
  BY <1>1, <1>2, <1>4, <1>5, <1>6, <1>7, <1>8, <1>9, <1>10, <1>11, <1>12, <1>13,
     <1>14, <1>15, <1>16, <1>17, <1>18, <1>19, Zenon DEF Next, Step


\* The ring keeps its entries apart and the last one findable.
LEMMA RingStep ==
  ASSUME OneCpuPerMachine, MaxBoots = 1, IInv, TypeOK', [Next]_vars
  PROVE  RingInv'
<1>0. TypeOK /\ BootInv /\ OpInv /\ RingInv
  BY Zenon DEF IInv
<1>a. MachineOf \in [Cpus -> Machines]
  BY MachineOfAssumption, Zenon
<1>t. /\ pc \in [Cpus -> Steps] /\ op \in [Cpus -> Operation] /\ cur \in [Cpus -> Nat]
      /\ seen \in [Cpus -> Word] /\ era \in [Machines -> [Machines -> Nat]]
      /\ redo \in [Machines -> Ring]
  BY <1>0, Zenon DEF TypeOK
<1>f. ASSUME NEW m \in Machines, redo'[m] = redo[m], era'[m][m] >= era[m][m], era'[m][m] \in Nat
      PROVE  RingOK(m)'
  <2>1. RingOK(m) /\ Logged(m)' = Logged(m) /\ era[m][m] \in Nat
    BY <1>0, <1>t, <1>f, Zenon DEF RingInv, Logged
  <2>2. \A s \in Logged(m) : redo[m][s].era \in Nat
    BY <1>0, FieldTypes, Zenon DEF Logged
  <2> QED
    BY <1>f, <2>1, <2>2 DEF RingOK
<1>e. ASSUME NEW m \in Machines, redo'[m] = EmptyRing
      PROVE  RingOK(m)'
  <2>1. Logged(m)' = {}
    BY <1>e DEF Logged, EmptyRing, EmptyRedo
  <2> QED
    BY <2>1, Zenon DEF RingOK
<1>g. ASSUME NEW b \in Cpus, redo'[MachineOf[b]] = redo[MachineOf[b]],
             pc'[b] = pc[b] \/ (pc[b] = "cas" /\ pc'[b] = "ptr"),
             op'[b] = op[b], cur'[b] = cur[b], seen'[b] = seen[b]
      PROVE  InRing(b)'
  BY <1>0, <1>g, Zenon DEF RingInv, InRing
<1>h. ASSUME NEW b \in Cpus, pc'[b] \notin {"cas", "ptr"}
      PROVE  InRing(b)'
  BY <1>h, Zenon DEF InRing
<1>k. ASSUME UNCHANGED <<redo, era>> PROVE \A m \in Machines : RingOK(m)'
  BY <1>f, <1>k, <1>t
<1>1. ASSUME NEW m \in Machines, Join(m) PROVE RingInv'
  <2>1. ASSUME NEW n \in Machines PROVE RingOK(n)'
    <3>1. CASE n = m
      BY <1>e, <1>t, <1>1, <3>1, Zenon DEF Join
    <3>2. CASE n # m
      BY <1>f, <1>t, <1>1, <3>2 DEF Join
    <3> QED
      BY <3>1, <3>2, Zenon
  <2>2. ASSUME NEW b \in Cpus PROVE InRing(b)'
    <3>1. boots[m] = 0
      BY <1>0, <1>1 DEF Join, BootInv
    <3>2. CASE MachineOf[b] = m
      <4>1. pc[b] = "idle"
        BY <1>0, <3>1, <3>2, Zenon DEF BootInv
      <4> QED
        BY <1>h, <1>1, <4>1, Zenon DEF Join, cpuVars
    <3>3. CASE MachineOf[b] # m
      BY <1>g, <1>a, <1>t, <1>1, <3>3, Zenon DEF Join, cpuVars
    <3> QED
      BY <3>2, <3>3, Zenon
  <2> QED
    BY <2>1, <2>2, Zenon DEF RingInv
<1>2. ASSUME NEW m \in Machines, Leave(m) PROVE RingInv'
  <2>1. ASSUME NEW n \in Machines PROVE RingOK(n)'
    <3>1. CASE n = m
      BY <1>e, <1>t, <1>2, <3>1, Zenon DEF Leave
    <3>2. CASE n # m
      BY <1>f, <1>t, <1>2, <3>2 DEF Leave
    <3> QED
      BY <3>1, <3>2, Zenon
  <2>2. ASSUME NEW b \in Cpus PROVE InRing(b)'
    <3>1. CASE MachineOf[b] = m
      BY <1>h, <1>2, <3>1, Zenon DEF Leave, CpusOf, cpuVars
    <3>2. CASE MachineOf[b] # m
      BY <1>g, <1>a, <1>t, <1>2, <3>2, Zenon DEF Leave, cpuVars
    <3> QED
      BY <3>1, <3>2, Zenon
  <2> QED
    BY <2>1, <2>2, Zenon DEF RingInv
<1>3. ASSUME NEW m \in Machines, Crash(m) PROVE RingInv'
  BY <1>g, <1>k, <1>3, Zenon DEF Crash, shared, cpuVars, RingInv
<1>4. ASSUME NEW c \in Cpus, NEW l \in Locs, NEW o \in Objs, StartLink(c, l, o) PROVE RingInv'
  <2>1. ASSUME NEW b \in Cpus PROVE InRing(b)'
    BY <1>g, <1>h, <1>t, <1>4, Zenon DEF StartLink, shared
  <2> QED
    BY <1>k, <1>4, <2>1, Zenon DEF StartLink, shared, RingInv
<1>5. ASSUME NEW c \in Cpus, NEW l \in Locs, StartUnlink(c, l) PROVE RingInv'
  <2>1. ASSUME NEW b \in Cpus PROVE InRing(b)'
    BY <1>g, <1>h, <1>t, <1>5, Zenon DEF StartUnlink, shared
  <2> QED
    BY <1>k, <1>5, <2>1, Zenon DEF StartUnlink, shared, RingInv
<1>6. ASSUME NEW c \in Cpus, NEW d \in Machines, StartRecovery(c, d) PROVE RingInv'
  <2>1. ASSUME NEW b \in Cpus PROVE InRing(b)'
    BY <1>g, <1>h, <1>t, <1>6, Zenon DEF StartRecovery, shared
  <2> QED
    BY <1>k, <1>6, <2>1, Zenon DEF StartRecovery, shared, RingInv
<1>7. ASSUME NEW c \in Cpus, Load(c) PROVE RingInv'
  <2>1. ASSUME NEW b \in Cpus PROVE InRing(b)'
    BY <1>g, <1>h, <1>t, <1>7, Zenon DEF Load, shared
  <2> QED
    BY <1>k, <1>7, <2>1, Zenon DEF Load, shared, RingInv
<1>8. ASSUME NEW c \in Cpus, EraSet(c) PROVE RingInv'
  <2>1. ASSUME NEW b \in Cpus PROVE InRing(b)'
    BY <1>g, <1>h, <1>t, <1>8, Zenon DEF EraSet
  <2>2. \A m \in Machines : era'[m][m] = era[m][m] /\ era[m][m] \in Nat
    BY <1>t, <1>8, OwnEra, Zenon
  <2>3. \A m \in Machines : era'[m][m] >= era[m][m] /\ era'[m][m] \in Nat
    BY <2>2
  <2>4. redo' = redo
    BY <1>8, Zenon DEF EraSet
  <2> QED
    BY <1>f, <2>1, <2>3, <2>4, Zenon DEF RingInv
<1>9. ASSUME NEW c \in Cpus, WriteRedo(c) PROVE RingInv'
  <2> DEFINE k == MachineOf[c]
             z == cur[c] % RedoCnt
             r == [func |-> op[c].func, cnt |-> seen[c].cnt, era |-> cur[c],
                   loc |-> op[c].loc, obj |-> op[c].obj]
  <2>1. z \in 0 .. RedoCnt - 1 /\ cur[c] \in Nat /\ k \in Machines
    BY <1>a, <1>t, CountsAssumption
  <2>2. redo' = [redo EXCEPT ![k][z] = r]
    BY <1>9, Zenon DEF WriteRedo
  <2>3. /\ redo'[k] = [redo[k] EXCEPT ![z] = r]
        /\ \A m \in Machines \ {k} : redo'[m] = redo[m]
    BY <1>t, <2>1, <2>2, Zenon
  <2>4. redo[k] \in Ring
    BY <1>t, <2>1, Zenon
  <2>5. /\ redo'[k][z] = r
        /\ \A s \in 0 .. RedoCnt - 1 : s # z => redo'[k][s] = redo[k][s]
    BY <2>1, <2>3, <2>4, Zenon DEF Ring
  <2>6. op[c].func \in {"link", "unlink"} /\ op[c].loc \in Locs /\ op[c].obj \in Objs /\ cur[c] = era[k][k]
    BY <1>0, <1>9, Zenon DEF OpInv, OpOK, InOp, Pre, WriteRedo
  <2>7. /\ z \in Logged(k)'
        /\ \A s \in Logged(k)' : s \in 0 .. RedoCnt - 1 /\ (s # z => s \in Logged(k))
    <3>1. r.func # "none"
      BY <2>6, Zenon
    <3>2. /\ z \in 0 .. RedoCnt - 1
          /\ redo'[k][z].func # "none"
          /\ \A s \in 0 .. RedoCnt - 1 : s # z => redo'[k][s] = redo[k][s]
      BY <2>1, <2>5, <3>1, Zenon
    <3> HIDE DEF k, z, r
    <3> QED
      BY <3>2, Zenon DEF Logged
  <2>8. era' = era
    BY <1>9, Zenon DEF WriteRedo
  <2>9. \A s \in Logged(k) : redo[k][s].era \in Nat /\ redo[k][s].era <= cur[c]
    BY <1>0, <2>1, <2>6, FieldTypes, Zenon DEF RingInv, RingOK, Logged
  <2>10. RingOK(k)'
    <3>1. \A s \in Logged(k) : /\ redo[k][s].era % RedoCnt = s
                               /\ redo[k][s].loc \in Locs
                               /\ redo[k][s].obj \in Objs
      BY <1>0, <2>1, Zenon DEF RingInv, RingOK
    <3>2. r.era = cur[c] /\ r.loc = op[c].loc /\ r.obj = op[c].obj
      BY Zenon
    <3>3. ASSUME NEW s \in Logged(k)'
          PROVE  /\ redo'[k][s].era % RedoCnt = s
                 /\ redo'[k][s].era <= era'[k][k]
                 /\ redo'[k][s].loc \in Locs
                 /\ redo'[k][s].obj \in Objs
                 /\ redo'[k][s].era <= redo'[k][z].era
      <4>1. CASE s = z
        <5>1. redo'[k][s] = r /\ r.era % RedoCnt = z
          BY <2>5, <3>2, <4>1, Zenon
        <5>2. cur[c] <= era'[k][k] /\ cur[c] <= cur[c]
          BY <2>1, <2>6, <2>8
        <5> HIDE DEF r
        <5> QED
          BY <2>5, <2>6, <3>2, <4>1, <5>1, <5>2, Zenon
      <4>2. CASE s # z
        BY <2>1, <2>5, <2>6, <2>7, <2>8, <2>9, <3>1, <3>2, <3>3, <4>2, Zenon
      <4> QED
        BY <4>1, <4>2, Zenon
    <3> QED
      BY <2>7, <3>3, Zenon DEF RingOK
  <2>11. ASSUME NEW m \in Machines, m # k PROVE RingOK(m)'
    BY <1>f, <1>t, <2>3, <2>8, <2>11
  <2>12. ASSUME NEW b \in Cpus PROVE InRing(b)'
    <3>1. CASE b = c
      BY <1>9, <2>5, <3>1, Zenon DEF InRing, WriteRedo
    <3>2. CASE b # c
      <4>1. MachineOf[b] # k
        BY <3>2, Zenon DEF OneCpuPerMachine
      <4> QED
        BY <1>g, <1>a, <1>t, <1>9, <2>3, <3>2, <4>1, Zenon DEF WriteRedo
    <3> QED
      BY <3>1, <3>2, Zenon
  <2> QED
    BY <2>10, <2>11, <2>12, Zenon DEF RingInv
<1>10. ASSUME NEW c \in Cpus, CasInfo(c) PROVE RingInv'
  <2>1. ASSUME NEW b \in Cpus PROVE InRing(b)'
    BY <1>g, <1>h, <1>t, <1>10, Zenon DEF CasInfo
  <2> QED
    BY <1>k, <1>10, <2>1, Zenon DEF CasInfo, RingInv
<1>11. ASSUME NEW c \in Cpus, WritePtr(c) PROVE RingInv'
  <2>1. ASSUME NEW b \in Cpus PROVE InRing(b)'
    BY <1>g, <1>h, <1>t, <1>11, Zenon DEF WritePtr
  <2> QED
    BY <1>k, <1>11, <2>1, Zenon DEF WritePtr, RingInv
<1>12. ASSUME NEW c \in Cpus, EraInc(c) PROVE RingInv'
  <2>1. ASSUME NEW b \in Cpus PROVE InRing(b)'
    BY <1>g, <1>h, <1>t, <1>12, Zenon DEF EraInc
  <2>2. \A m \in Machines : era'[m][m] >= era[m][m] /\ era'[m][m] \in Nat
    BY <1>a, <1>t, <1>12 DEF EraInc
  <2>3. redo' = redo
    BY <1>12, Zenon DEF EraInc
  <2> QED
    BY <1>f, <2>1, <2>2, <2>3, Zenon DEF RingInv
<1>13. ASSUME NEW c \in Cpus, Embed(c) PROVE RingInv'
  <2>1. ASSUME NEW b \in Cpus PROVE InRing(b)'
    BY <1>g, <1>h, <1>t, <1>13, Zenon DEF Embed, shared
  <2> QED
    BY <1>k, <1>13, <2>1, Zenon DEF Embed, shared, RingInv
<1>14. ASSUME NEW c \in Cpus, Return(c) PROVE RingInv'
  <2>1. ASSUME NEW b \in Cpus PROVE InRing(b)'
    BY <1>g, <1>h, <1>t, <1>14, Zenon DEF Return, shared
  <2> QED
    BY <1>k, <1>14, <2>1, Zenon DEF Return, shared, RingInv
<1>15. ASSUME NEW c \in Cpus, CheckVisible(c) PROVE RingInv'
  <2>1. ASSUME NEW b \in Cpus PROVE InRing(b)'
    BY <1>g, <1>h, <1>t, <1>15, Zenon DEF CheckVisible, shared
  <2> QED
    BY <1>k, <1>15, <2>1, Zenon DEF CheckVisible, shared, RingInv
<1>16. ASSUME NEW c \in Cpus, ScanEra(c) PROVE RingInv'
  <2>1. ASSUME NEW b \in Cpus PROVE InRing(b)'
    BY <1>g, <1>h, <1>t, <1>16, Zenon DEF ScanEra, shared
  <2> QED
    BY <1>k, <1>16, <2>1, Zenon DEF ScanEra, shared, RingInv
<1>17. ASSUME NEW c \in Cpus, ApplyRedo(c) PROVE RingInv'
  <2>1. ASSUME NEW b \in Cpus PROVE InRing(b)'
    BY <1>g, <1>h, <1>17, Zenon DEF ApplyRedo
  <2> QED
    BY <1>k, <1>17, <2>1, Zenon DEF ApplyRedo, RingInv
<1>18. ASSUME NEW c \in Cpus, ClearSlot(c) PROVE RingInv'
  <2>1. ASSUME NEW b \in Cpus PROVE InRing(b)'
    BY <1>g, <1>h, <1>18, Zenon DEF ClearSlot
  <2> QED
    BY <1>k, <1>18, <2>1, Zenon DEF ClearSlot, RingInv
<1>19. CASE UNCHANGED vars
  BY <1>g, <1>k, <1>19, Zenon DEF vars, RingInv
<1> QED
  BY <1>1, <1>2, <1>3, <1>4, <1>5, <1>6, <1>7, <1>8, <1>9, <1>10, <1>11, <1>12, <1>13,
     <1>14, <1>15, <1>16, <1>17, <1>18, <1>19, Zenon DEF Next, Step

\* A committed operation stays visible to recovery.
LEMMA VisibleStep ==
  ASSUME OneCpuPerMachine, MaxBoots = 1, IInv, TypeOK', [Next]_vars
  PROVE  VisibleInv'
<1>0. TypeOK /\ VisibleInv /\ HelpInv /\ OpInv
  BY Zenon DEF IInv
<1>a. MachineOf \in [Cpus -> Machines]
  BY MachineOfAssumption, Zenon
<1>t. /\ pc \in [Cpus -> Steps] /\ op \in [Cpus -> Operation] /\ cur \in [Cpus -> Nat]
      /\ refInfo \in [Objs -> Word]
  BY <1>0, Zenon DEF TypeOK
<1>g. \A i, j \in Machines : /\ era'[i][j] >= era[i][j]
                             /\ era'[i][j] \in Nat /\ era[i][j] \in Nat
  BY <1>0, EraGrows, Zenon DEF TypeOK
<1> DEFINE Seen(b) == \E j \in Machines \ {MachineOf[b]} : era[j][MachineOf[b]] >= cur[b]
           Shows(b) == /\ refInfo[op[b].obj].lcid = MachineOf[b]
                       /\ refInfo[op[b].obj].era = cur[b]
           Visible(b) == pc[b] = "ptr" => Shows(b) \/ Seen(b)
<1>s. ASSUME NEW b \in Cpus, cur'[b] = cur[b], Seen(b) PROVE Seen(b)'
  <2>1. PICK j \in Machines \ {MachineOf[b]} : era[j][MachineOf[b]] >= cur[b]
    BY <1>s, Zenon
  <2>2. era'[j][MachineOf[b]] >= cur[b]
    BY <1>a, <1>g, <1>t, <2>1
  <2> QED
    BY <1>s, <2>2, Zenon
<1>f. ASSUME NEW b \in Cpus, pc'[b] = "ptr" => pc[b] = "ptr", op'[b] = op[b], cur'[b] = cur[b],
             refInfo' = refInfo
      PROVE  Visible(b)'
  <2>1. Visible(b)
    BY <1>0, Zenon DEF VisibleInv
  <2>2. Shows(b) => Shows(b)'
    BY <1>f, Zenon
  <2> HIDE DEF Seen, Shows
  <2> QED
    BY <1>f, <1>s, <2>1, <2>2, Zenon
<1>h. ASSUME NEW b \in Cpus, pc'[b] # "ptr" PROVE Visible(b)'
  BY <1>h, Zenon
<1> SUFFICES ASSUME NEW b \in Cpus PROVE Visible(b)'
  BY Zenon DEF VisibleInv
<1> HIDE DEF Visible, Seen, Shows
<1>1. ASSUME NEW m \in Machines, Join(m) \/ Leave(m) \/ Crash(m) PROVE Visible(b)'
  BY <1>f, <1>1, Zenon DEF Join, Leave, Crash, cpuVars, shared
<1>2. ASSUME NEW c \in Cpus, NEW l \in Locs, StartUnlink(c, l) \/ \E o \in Objs : StartLink(c, l, o)
      PROVE  Visible(b)'
  BY <1>f, <1>h, <1>t, <1>2, Zenon DEF StartUnlink, StartLink, shared
<1>3. ASSUME NEW c \in Cpus, NEW m \in Machines, StartRecovery(c, m) PROVE Visible(b)'
  BY <1>f, <1>t, <1>3, Zenon DEF StartRecovery, shared
<1>4. ASSUME NEW c \in Cpus, Load(c) \/ EraSet(c) PROVE Visible(b)'
  BY <1>f, <1>h, <1>t, <1>4, Zenon DEF Load, EraSet, shared
<1>6. ASSUME NEW c \in Cpus, WriteRedo(c) PROVE Visible(b)'
  BY <1>f, <1>t, <1>6, Zenon DEF WriteRedo
<1>7. ASSUME NEW c \in Cpus, CasInfo(c) PROVE Visible(b)'
  <2>0. op' = op /\ cur' = cur /\ op[c].obj \in Objs
    BY <1>0, <1>7, Zenon DEF CasInfo, OpInv, OpOK, InOp, Pre
  <2>1. CASE b = c
    <3>1. CASE refInfo[op[c].obj] = seen[c]
      <4>1. refInfo'[op[c].obj] = NewInfo(c)
        BY <1>t, <1>7, <2>0, <3>1, Zenon DEF CasInfo
      <4> QED
        BY <2>0, <2>1, <4>1 DEF Visible, Shows, NewInfo
    <3>2. CASE refInfo[op[c].obj] # seen[c]
      BY <1>h, <1>t, <1>7, <2>1, <3>2, Zenon DEF CasInfo
    <3> QED
      BY <3>1, <3>2, Zenon
  <2>2. CASE b # c
    <3>1. MachineOf[b] # MachineOf[c]
      BY <2>2, Zenon DEF OneCpuPerMachine
    <3>2. pc'[b] = pc[b]
      BY <1>t, <1>7, <2>2, Zenon DEF CasInfo
    <3>3. CASE refInfo' = refInfo
      BY <1>f, <2>0, <3>2, <3>3, Zenon
    <3>4. CASE refInfo' # refInfo /\ pc[b] = "ptr" /\ Shows(b)
      <4>1. /\ refInfo[op[c].obj] = seen[c] /\ pc[c] = "cas"
            /\ \A o \in Objs \ {op[c].obj} : refInfo'[o] = refInfo[o]
        BY <1>t, <1>7, <3>4, Zenon DEF CasInfo
      <4>2. era[MachineOf[c]][seen[c].lcid] >= seen[c].era
        BY <1>0, <4>1, Zenon DEF HelpInv
      <4>3. op[b].obj \in Objs
        BY <1>0, <3>4, Zenon DEF OpInv, OpOK, InOp
      <4>4. CASE op[b].obj = op[c].obj
        <5>1. era[MachineOf[c]][MachineOf[b]] >= cur[b]
          BY <3>4, <4>1, <4>2, <4>4, Zenon DEF Shows
        <5>2. Seen(b)
          BY <1>a, <3>1, <5>1, Zenon DEF Seen
        <5> QED
          BY <1>s, <2>0, <5>2, Zenon DEF Visible
      <4>5. CASE op[b].obj # op[c].obj
        BY <2>0, <3>4, <4>1, <4>3, <4>5, Zenon DEF Visible, Shows
      <4> QED
        BY <4>4, <4>5, Zenon
    <3>5. CASE pc[b] = "ptr" /\ Seen(b)
      BY <1>s, <2>0, <3>5, Zenon DEF Visible
    <3>6. CASE pc[b] # "ptr"
      BY <1>h, <3>2, <3>6, Zenon
    <3> QED
      BY <1>0, <3>3, <3>4, <3>5, <3>6, Zenon DEF VisibleInv, Shows, Seen
  <2> QED
    BY <2>1, <2>2, Zenon
<1>8. ASSUME NEW c \in Cpus, WritePtr(c) \/ EraInc(c) PROVE Visible(b)'
  BY <1>f, <1>h, <1>t, <1>8, Zenon DEF WritePtr, EraInc
<1>9. ASSUME NEW c \in Cpus, Embed(c) \/ Return(c) PROVE Visible(b)'
  BY <1>f, <1>h, <1>t, <1>9, Zenon DEF Embed, Return, shared
<1>10. ASSUME NEW c \in Cpus, CheckVisible(c) \/ ScanEra(c) PROVE Visible(b)'
  BY <1>f, <1>t, <1>10, Zenon DEF CheckVisible, ScanEra, shared
<1>11. ASSUME NEW c \in Cpus, ApplyRedo(c) \/ ClearSlot(c) PROVE Visible(b)'
  BY <1>f, <1>h, <1>11, Zenon DEF ApplyRedo, ClearSlot
<1>12. CASE UNCHANGED vars
  BY <1>f, <1>12, Zenon DEF vars
<1> QED
  BY <1>1, <1>2, <1>3, <1>4, <1>6, <1>7, <1>8, <1>9, <1>10, <1>11, <1>12, Zenon DEF Next, Step

\* A CPU whose next operation is unpublished after a step was so before, or
\* its machine has just moved to a new era.
LEMMA UnpublishedFrame ==
  ASSUME IInv, [Next]_vars, NEW c \in Cpus, Unpublished(c)'
  PROVE  Unpublished(c) \/ EraInc(c) \/ Join(MachineOf[c])
<1>t. /\ pc \in [Cpus -> Steps] /\ up \in [Machines -> BOOLEAN]
      /\ MachineOf \in [Cpus -> Machines]
  BY MachineOfAssumption, Zenon DEF IInv, TypeOK
<1>o. OpInv
  BY Zenon DEF IInv
<1> USE DEF Unpublished, Pre
<1>f. ASSUME pc'[c] = pc[c], up'[MachineOf[c]] => up[MachineOf[c]] PROVE Unpublished(c)
  BY <1>f, Zenon
<1>g. ASSUME Live(c), pc[c] \notin {"ptr", "inc"} PROVE Unpublished(c)
  BY <1>g, Zenon DEF Live
<1>1. ASSUME NEW m \in Machines, Join(m) PROVE Unpublished(c) \/ Join(MachineOf[c])
  BY <1>f, <1>t, <1>1, Zenon DEF Join, cpuVars
<1>2. ASSUME NEW m \in Machines, Leave(m) \/ Crash(m) PROVE Unpublished(c)
  BY <1>f, <1>t, <1>2, Zenon DEF Leave, Crash, cpuVars
<1>3. ASSUME NEW b \in Cpus, NEW l \in Locs, StartUnlink(b, l) \/ \E o \in Objs : StartLink(b, l, o)
      PROVE  Unpublished(c)
  BY <1>f, <1>g, <1>t, <1>3, Zenon DEF StartUnlink, StartLink
<1>4. ASSUME NEW b \in Cpus, NEW m \in Machines, StartRecovery(b, m) PROVE Unpublished(c)
  BY <1>f, <1>g, <1>t, <1>4, Zenon DEF StartRecovery
<1>5. ASSUME NEW b \in Cpus, Load(b) \/ EraSet(b) \/ WriteRedo(b) \/ CasInfo(b) PROVE Unpublished(c)
  BY <1>f, <1>g, <1>t, <1>5, Zenon DEF Load, EraSet, WriteRedo, CasInfo
<1>6. ASSUME NEW b \in Cpus, WritePtr(b) PROVE Unpublished(c)
  BY <1>f, <1>t, <1>6, Zenon DEF WritePtr
<1>7. ASSUME NEW b \in Cpus, EraInc(b) PROVE Unpublished(c) \/ EraInc(c)
  BY <1>f, <1>t, <1>7, Zenon DEF EraInc
<1>8. ASSUME NEW b \in Cpus, Embed(b) \/ Return(b) PROVE Unpublished(c)
  BY <1>f, <1>g, <1>t, <1>8, Zenon DEF Embed, Return
<1>9. ASSUME NEW b \in Cpus, CheckVisible(b) \/ ScanEra(b) PROVE Unpublished(c)
  BY <1>f, <1>g, <1>t, <1>9, Zenon DEF CheckVisible, ScanEra
<1>10. ASSUME NEW b \in Cpus, ApplyRedo(b) \/ ClearSlot(b) PROVE Unpublished(c)
  <2>1. up' = up /\ pc[b] \in {"rapply", "rclear"} /\ Live(b)
    BY <1>10, Zenon DEF ApplyRedo, ClearSlot
  <2>2. rec[b] \in Machines /\ ~up[rec[b]]
    BY <1>o, <2>1, Zenon DEF OpInv, OpOK, Recovering
  <2>3. CASE c = b
    BY <1>g, <2>1, <2>3, Zenon
  <2>4. CASE c # b /\ MachineOf[c] = rec[b]
    <3>1. pc'[c] = "idle"
      BY <1>10, <2>4, Zenon DEF ApplyRedo, ClearSlot
    <3> QED
      BY <2>1, <2>2, <2>4, <3>1, Zenon
  <2>5. CASE c # b /\ MachineOf[c] # rec[b]
    <3>1. pc'[c] = pc[c]
      BY <1>10, <2>5, Zenon DEF ApplyRedo, ClearSlot
    <3> QED
      BY <1>f, <2>1, <3>1, Zenon
  <2> QED
    BY <2>3, <2>4, <2>5, Zenon
<1>11. CASE UNCHANGED vars
  BY <1>f, <1>11, Zenon DEF vars
<1> QED
  BY <1>1, <1>2, <1>3, <1>4, <1>5, <1>6, <1>7, <1>8, <1>9, <1>10, <1>11, Zenon DEF Next, Step

\* Eras that left their machine stay old.
LEMMA EraStep ==
  ASSUME OneCpuPerMachine, MaxBoots = 1, IInv, TypeOK', [Next]_vars
  PROVE  EraInv'
<1>0. TypeOK /\ EraInv /\ BootInv /\ OpInv
  BY Zenon DEF IInv
<1>a. MachineOf \in [Cpus -> Machines]
  BY MachineOfAssumption, Zenon
<1>t. /\ era \in [Machines -> [Machines -> Nat]] /\ refInfo \in [Objs -> Word]
      /\ seen \in [Cpus -> Word] /\ cur \in [Cpus -> Nat] /\ pc \in [Cpus -> Steps]
  BY <1>0, Zenon DEF TypeOK
<1> SUFFICES ASSUME NEW c \in Cpus
             PROVE  /\ \A j \in Machines \ {MachineOf[c]} : Old(c, era[j][MachineOf[c]])'
                    /\ \A o \in Objs : refInfo'[o].lcid = MachineOf[c] => Old(c, refInfo[o].era)'
                    /\ \A b \in Cpus : seen'[b].lcid = MachineOf[c] => Old(c, seen[b].era)'
  BY Zenon DEF EraInv
<1> DEFINE k == MachineOf[c]
<1>k. k \in Machines /\ era[k][k] \in Nat
  BY <1>a, <1>t, Zenon
<1>e. /\ \A j \in Machines \ {k} : Old(c, era[j][k])
      /\ \A o \in Objs : refInfo[o].lcid = k => Old(c, refInfo[o].era)
      /\ \A b \in Cpus : seen[b].lcid = k => Old(c, seen[b].era)
  BY <1>0, Zenon DEF EraInv
<1>n. /\ \A j \in Machines : era[j][k] \in Nat
      /\ \A o \in Objs : refInfo[o].era \in Nat
      /\ \A b \in Cpus : seen[b].era \in Nat
  BY <1>0, <1>k, FieldTypes, Zenon
<1> DEFINE Older(e) == /\ e <= era'[k][k]
                       /\ Unpublished(c)' => e < era'[k][k]
<1>o. ASSUME \A e \in Nat : Old(c, e) => Older(e)
      PROVE  /\ \A j \in Machines \ {k} : Older(era[j][k])
             /\ \A o \in Objs : refInfo[o].lcid = k => Older(refInfo[o].era)
             /\ \A b \in Cpus : seen[b].lcid = k => Older(seen[b].era)
  <2> HIDE DEF Older, k
  <2> QED
    BY <1>e, <1>n, <1>o, Zenon
<1>x. SUFFICES /\ \A j \in Machines \ {k} : Older(era'[j][k])
               /\ \A o \in Objs : refInfo'[o].lcid = k => Older(refInfo'[o].era)
               /\ \A b \in Cpus : seen'[b].lcid = k => Older(seen'[b].era)
  BY Zenon DEF Old
<1>1. CASE EraInc(c)
  <2>1. era'[k][k] = era[k][k] + 1 /\ \A j \in Machines \ {k} : era'[j][k] = era[j][k]
    BY <1>k, <1>t, <1>1, Zenon DEF EraInc
  <2>2. \A e \in Nat : Old(c, e) => Older(e)
    BY <1>k, <2>1 DEF Old
  <2>3. refInfo' = refInfo /\ seen' = seen
    BY <1>1, Zenon DEF EraInc
  <2> HIDE DEF Older, k
  <2> QED
    BY <1>o, <2>1, <2>2, <2>3, Zenon
<1>2. CASE Join(k)
  <2>1. boots[k] = 0 /\ era'[k][k] = 1 /\ \A j \in Machines \ {k} : era'[j][k] = era[j][k]
    BY <1>0, <1>k, <1>t, <1>2 DEF Join, BootInv
  <2>2. refInfo' = refInfo /\ seen' = seen
    BY <1>2, Zenon DEF Join, cpuVars
  <2>3. Older(0)
    BY <2>1
  <2>4. /\ \A j \in Machines : era[j][k] = 0
        /\ \A o \in Objs : refInfo[o].lcid = k => refInfo[o].era = 0
        /\ \A b \in Cpus : seen[b].lcid = k => seen[b].era = 0
    BY <1>0, <1>k, <2>1, Zenon DEF BootInv
  <2> HIDE DEF Older, k
  <2> QED
    BY <2>1, <2>2, <2>3, <2>4, Zenon
<1>3. CASE ~EraInc(c) /\ ~Join(k)
  <2>1. Unpublished(c)' => Unpublished(c)
    BY <1>3, UnpublishedFrame, Zenon
  <2>f. ASSUME era'[k][k] = era[k][k] PROVE \A e \in Nat : Old(c, e) => Older(e)
    BY <2>f, <2>1, Zenon DEF Old
  <2>q. ASSUME UNCHANGED <<era, refInfo, seen>>
        PROVE  /\ \A j \in Machines \ {k} : Older(era'[j][k])
               /\ \A o \in Objs : refInfo'[o].lcid = k => Older(refInfo'[o].era)
               /\ \A b \in Cpus : seen'[b].lcid = k => Older(seen'[b].era)
    <3> HIDE DEF Older
    <3> QED
      BY <1>o, <2>f, <2>q, Zenon
  <2> DEFINE Goal == /\ \A j \in Machines \ {k} : Older(era'[j][k])
                     /\ \A o \in Objs : refInfo'[o].lcid = k => Older(refInfo'[o].era)
                     /\ \A b \in Cpus : seen'[b].lcid = k => Older(seen'[b].era)
  <2>2. ASSUME NEW m \in Machines, Join(m) PROVE Goal
    <3>1. m # k
      BY <1>3, <2>2, Zenon
    <3>2. era'[k][k] = era[k][k] /\ \A j \in Machines : era'[j][k] = era[j][k]
      BY <1>k, <1>t, <2>2, <3>1, Zenon DEF Join
    <3>3. refInfo' = refInfo /\ seen' = seen
      BY <2>2, Zenon DEF Join, cpuVars
    <3> HIDE DEF Older, k
    <3> QED
      BY <1>o, <2>f, <3>2, <3>3, Zenon
  <2>3. ASSUME NEW b \in Cpus, EraInc(b) PROVE Goal
    <3>1. MachineOf[b] # k
      BY <1>3, <2>3, Zenon DEF OneCpuPerMachine
    <3>2. era'[k][k] = era[k][k] /\ \A j \in Machines : era'[j][k] = era[j][k]
      BY <1>a, <1>k, <1>t, <2>3, <3>1, Zenon DEF EraInc
    <3>3. refInfo' = refInfo /\ seen' = seen
      BY <2>3, Zenon DEF EraInc
    <3> HIDE DEF Older, k
    <3> QED
      BY <1>o, <2>f, <3>2, <3>3, Zenon
  <2>4. ASSUME NEW b \in Cpus, Load(b) PROVE Goal
    <3>1. op[b].obj \in Objs
      BY <1>0, <2>4, Zenon DEF OpInv, OpOK, InOp, Pre, Load
    <3>2. \A a \in Cpus : seen'[a] = seen[a] \/ seen'[a] = refInfo[op[b].obj]
      BY <1>t, <2>4, Zenon DEF Load
    <3>3. refInfo' = refInfo /\ era' = era
      BY <2>4, Zenon DEF Load, shared
    <3> HIDE DEF Older, k
    <3> QED
      BY <1>o, <2>f, <3>1, <3>2, <3>3, Zenon
  <2>5. ASSUME NEW b \in Cpus, EraSet(b) PROVE Goal
    <3>1. era'[k][k] = era[k][k]
      BY <1>k, <2>5, OwnEra, Zenon
    <3>2. seen[b].lcid \in Machines
      BY <1>0, FieldTypes, Zenon
    <3>3. \A j \in Machines : era'[j][k] = era[j][k] \/ (era'[j][k] = seen[b].era /\ seen[b].lcid = k)
      BY <1>a, <1>k, <1>t, <2>5, <3>2, Zenon DEF EraSet
    <3>4. refInfo' = refInfo /\ seen' = seen
      BY <2>5, Zenon DEF EraSet
    <3> HIDE DEF Older, k
    <3> QED
      BY <1>o, <2>f, <3>1, <3>3, <3>4, Zenon
  <2>6. ASSUME NEW b \in Cpus, CasInfo(b) PROVE Goal
    <3>1. era' = era /\ seen' = seen
      BY <2>6, Zenon DEF CasInfo
    <3>2. CASE refInfo' = refInfo
      BY <2>q, <3>1, <3>2, Zenon
    <3>3. CASE refInfo' # refInfo
      <4>1. /\ pc'[b] = "ptr"
            /\ \A o \in Objs : refInfo'[o] = refInfo[o] \/ refInfo'[o] = NewInfo(b)
        BY <1>t, <2>6, <3>3, Zenon DEF CasInfo
      <4>2. NewInfo(b).lcid = MachineOf[b] /\ NewInfo(b).era = cur[b]
        BY Zenon DEF NewInfo
      <4>3. NewInfo(b).lcid = k => b = c /\ cur[b] = era[k][k]
        <5>1. pc[b] = "cas"
          BY <2>6, Zenon DEF CasInfo
        <5>2. cur[b] = era[MachineOf[b]][MachineOf[b]]
          BY <1>0, <5>1, Zenon DEF OpInv, OpOK, Pre, InOp
        <5>3. MachineOf[b] = MachineOf[c] => b = c
          BY <1>0, Zenon DEF OneCpuPerMachine
        <5> QED
          BY <4>2, <5>2, <5>3, Zenon
      <4>4. NewInfo(b).lcid = k => Older(NewInfo(b).era)
        BY <1>k, <3>1, <4>1, <4>2, <4>3 DEF Unpublished, Pre
      <4> HIDE DEF Older, k
      <4> QED
        BY <1>o, <2>f, <3>1, <4>1, <4>4, Zenon
    <3> QED
      BY <3>2, <3>3, Zenon
  <2>7. ASSUME NEW b \in Cpus, Step(b), ~EraInc(b), ~Load(b), ~EraSet(b), ~CasInfo(b) PROVE Goal
    <3>1. UNCHANGED <<era, refInfo, seen>>
      BY <2>7, Zenon DEF Step, WriteRedo, WritePtr, Embed, Return, CheckVisible, ScanEra,
         ApplyRedo, ClearSlot, shared
    <3> QED
      BY <2>q, <3>1, Zenon
  <2>8. ASSUME NEW m \in Machines, Leave(m) \/ Crash(m) PROVE Goal
    <3>1. UNCHANGED <<era, refInfo, seen>>
      BY <2>8, Zenon DEF Leave, Crash, shared, cpuVars
    <3> QED
      BY <2>q, <3>1, Zenon
  <2>9. ASSUME NEW b \in Cpus, NEW l \in Locs, StartUnlink(b, l) \/ \E o \in Objs : StartLink(b, l, o)
        PROVE  Goal
    <3>1. UNCHANGED <<era, refInfo, seen>>
      BY <2>9, Zenon DEF StartUnlink, StartLink, shared
    <3> QED
      BY <2>q, <3>1, Zenon
  <2>10. ASSUME NEW b \in Cpus, NEW m \in Machines, StartRecovery(b, m) PROVE Goal
    <3>1. UNCHANGED <<era, refInfo, seen>>
      BY <2>10, Zenon DEF StartRecovery, shared
    <3> QED
      BY <2>q, <3>1, Zenon
  <2>11. ASSUME UNCHANGED vars PROVE Goal
    <3>1. UNCHANGED <<era, refInfo, seen>>
      BY <2>11, Zenon DEF vars
    <3> QED
      BY <2>q, <3>1, Zenon
  <2>12. Goal
    <3> HIDE DEF Goal
    <3> QED
      BY <2>2, <2>3, <2>4, <2>5, <2>6, <2>7, <2>8, <2>9, <2>10, <2>11, Zenon DEF Next
  <2> QED
    BY <2>12, Zenon
<1> QED
  BY <1>1, <1>2, <1>3, Zenon

\* A CPU about to write a redo entry or to swap a word helps recovery.
LEMMA HelpStep ==
  ASSUME MaxBoots = 1, IInv, TypeOK', [Next]_vars
  PROVE  HelpInv'
<1>0. TypeOK /\ HelpInv
  BY Zenon DEF IInv
<1>a. MachineOf \in [Cpus -> Machines]
  BY MachineOfAssumption, Zenon
<1>t. /\ pc \in [Cpus -> Steps] /\ seen \in [Cpus -> Word]
      /\ era \in [Machines -> [Machines -> Nat]]
      /\ \A b \in Cpus : seen[b].lcid \in Machines /\ seen[b].era \in Nat
  BY <1>0, FieldTypes, Zenon DEF TypeOK
<1>u. era' \in [Machines -> [Machines -> Nat]]
  BY Zenon DEF TypeOK
<1>g. \A i, j \in Machines : era'[i][j] >= era[i][j]
  BY EraGrows, Zenon
<1> DEFINE Helps(b) == pc[b] \in {"redo", "cas"} => era[MachineOf[b]][seen[b].lcid] >= seen[b].era
<1>f. ASSUME NEW b \in Cpus, seen'[b] = seen[b], pc'[b] \in {"redo", "cas"} => pc[b] \in {"redo", "cas"}
      PROVE  Helps(b)'
  <2>1. era'[MachineOf[b]][seen[b].lcid] >= era[MachineOf[b]][seen[b].lcid]
    BY <1>a, <1>g, <1>t, Zenon
  <2>2. /\ era'[MachineOf[b]][seen[b].lcid] \in Nat /\ era[MachineOf[b]][seen[b].lcid] \in Nat
        /\ seen[b].era \in Nat
    BY <1>a, <1>t, <1>u, Zenon
  <2>3. Helps(b)
    BY <1>0, Zenon DEF HelpInv
  <2> QED
    BY <1>f, <2>1, <2>2, <2>3
<1>h. ASSUME NEW b \in Cpus, pc'[b] \notin {"redo", "cas"} PROVE Helps(b)'
  BY <1>h, Zenon
<1> SUFFICES ASSUME NEW b \in Cpus PROVE Helps(b)'
  BY Zenon DEF HelpInv
<1> HIDE DEF Helps
<1>1. ASSUME NEW m \in Machines, Join(m) \/ Leave(m) \/ Crash(m) PROVE Helps(b)'
  BY <1>f, <1>1, Zenon DEF Join, Leave, Crash, cpuVars
<1>2. ASSUME NEW c \in Cpus, NEW l \in Locs, StartUnlink(c, l) \/ \E o \in Objs : StartLink(c, l, o)
      PROVE  Helps(b)'
  BY <1>f, <1>t, <1>2, Zenon DEF StartUnlink, StartLink
<1>3. ASSUME NEW c \in Cpus, NEW m \in Machines, StartRecovery(c, m) PROVE Helps(b)'
  BY <1>f, <1>t, <1>3, Zenon DEF StartRecovery
<1>4. ASSUME NEW c \in Cpus, Load(c) PROVE Helps(b)'
  BY <1>f, <1>h, <1>t, <1>4, Zenon DEF Load
<1>5. ASSUME NEW c \in Cpus, EraSet(c) PROVE Helps(b)'
  <2>1. CASE b # c
    BY <1>f, <1>t, <1>5, <2>1, Zenon DEF EraSet
  <2>2. CASE b = c
    <3>1. era'[MachineOf[b]][seen[b].lcid] >= seen[b].era
      BY <1>a, <1>t, <1>5, <2>2 DEF EraSet
    <3>2. seen' = seen
      BY <1>5, Zenon DEF EraSet
    <3> QED
      BY <3>1, <3>2, Zenon DEF Helps
  <2> QED
    BY <2>1, <2>2, Zenon
<1>6. ASSUME NEW c \in Cpus, WriteRedo(c) PROVE Helps(b)'
  BY <1>f, <1>t, <1>6, Zenon DEF WriteRedo
<1>7. ASSUME NEW c \in Cpus, CasInfo(c) PROVE Helps(b)'
  BY <1>f, <1>h, <1>t, <1>7, Zenon DEF CasInfo
<1>8. ASSUME NEW c \in Cpus, WritePtr(c) \/ EraInc(c) PROVE Helps(b)'
  BY <1>f, <1>t, <1>8, Zenon DEF WritePtr, EraInc
<1>9. ASSUME NEW c \in Cpus, Embed(c) \/ Return(c) PROVE Helps(b)'
  BY <1>f, <1>t, <1>9, Zenon DEF Embed, Return
<1>10. ASSUME NEW c \in Cpus, CheckVisible(c) \/ ScanEra(c) PROVE Helps(b)'
  BY <1>f, <1>t, <1>10, Zenon DEF CheckVisible, ScanEra
<1>11. ASSUME NEW c \in Cpus, ApplyRedo(c) \/ ClearSlot(c) PROVE Helps(b)'
  BY <1>f, <1>11, Zenon DEF ApplyRedo, ClearSlot
<1>12. CASE UNCHANGED vars
  BY <1>f, <1>12, Zenon DEF vars
<1> QED
  BY <1>1, <1>2, <1>3, <1>4, <1>5, <1>6, <1>7, <1>8, <1>9, <1>10, <1>11, <1>12, Zenon DEF Next, Step

-----------------------------------------------------------------------------
\* The invariant is inductive.
LEMMA IInvStep == OneCpuPerMachine /\ MaxBoots = 1 /\ IInv /\ [Next]_vars => IInv'
<1> SUFFICES ASSUME OneCpuPerMachine, MaxBoots = 1, IInv, [Next]_vars PROVE IInv'
  BY Zenon
<1>1. TypeOK'
  BY TypeStep, Zenon
<1> QED
  BY <1>1, BootStep, OpStep, EraStep, HelpStep, VisibleStep, RingStep, Zenon DEF IInv

\* The entry recovery works from is that of an operation that has written
\* its entry and not finished.
LEMMA LatestIsOp ==
  ASSUME IInv, NEW c \in Cpus, pc[c] \in {"cas", "ptr"}
  PROVE  /\ Logged(MachineOf[c]) # {}
         /\ LatestRedo(MachineOf[c]).func = op[c].func
         /\ LatestRedo(MachineOf[c]).loc = op[c].loc
         /\ LatestRedo(MachineOf[c]).obj = op[c].obj
         /\ LatestRedo(MachineOf[c]).era = cur[c]
<1> DEFINE d == MachineOf[c]
           z == cur[c] % RedoCnt
<1>1. d \in Machines /\ cur[c] \in Nat /\ z \in 0 .. RedoCnt - 1
  BY MachineOfAssumption, CountsAssumption DEF IInv, TypeOK
<1>2. redo[d][z] = [func |-> op[c].func, cnt |-> seen[c].cnt, era |-> cur[c],
                    loc |-> op[c].loc, obj |-> op[c].obj]
  BY Zenon DEF IInv, RingInv, InRing
<1>3. op[c].func \in {"link", "unlink"} /\ cur[c] = era[d][d]
  <2>1. pc[c] \in InOp /\ pc[c] \in {"redo", "cas", "ptr", "inc"}
    BY Zenon DEF InOp, Pre
  <2> QED
    BY <2>1, Zenon DEF IInv, OpInv, OpOK
<1>4. z \in Logged(d)
  BY <1>1, <1>2, <1>3 DEF Logged
<1>5. PICK s \in Logged(d) : /\ LatestRedo(d) = redo[d][s]
                             /\ \A t \in Logged(d) : redo[d][t].era <= redo[d][s].era
  BY <1>1, <1>4, LatestIsLogged, Zenon
<1>6. redo[d][s].era \in Nat /\ redo[d][s].era <= era[d][d] /\ redo[d][s].era % RedoCnt = s
  BY <1>1, FieldTypes, Zenon DEF IInv, RingInv, RingOK, Logged
<1>7. redo[d][z].era = cur[c]
  BY <1>2
<1>8. redo[d][s].era = cur[c]
  BY <1>1, <1>3, <1>4, <1>5, <1>6, <1>7
<1>9. s = z
  BY <1>6, <1>8, Zenon
<1>10. LatestRedo(d) = [func |-> op[c].func, cnt |-> seen[c].cnt, era |-> cur[c],
                        loc |-> op[c].loc, obj |-> op[c].obj]
  BY <1>2, <1>5, <1>9, Zenon
<1>11. /\ LatestRedo(d).func = op[c].func /\ LatestRedo(d).loc = op[c].loc
       /\ LatestRedo(d).obj = op[c].obj /\ LatestRedo(d).era = cur[c]
  BY <1>10
<1> QED
  BY <1>4, <1>11, Zenon

\* A committed operation shows in the object's word or in another row.
LEMMA CommittedShows ==
  ASSUME IInv, NEW c \in Cpus, pc[c] = "ptr"
  PROVE  StillVisible(MachineOf[c]) \/ \E j \in Machines : SeenBy(j, MachineOf[c])
<1>1. LatestRedo(MachineOf[c]).obj = op[c].obj /\ LatestRedo(MachineOf[c]).era = cur[c]
  BY LatestIsOp, Zenon
<1>2. \/ refInfo[op[c].obj].lcid = MachineOf[c] /\ refInfo[op[c].obj].era = cur[c]
      \/ \E j \in Machines \ {MachineOf[c]} : era[j][MachineOf[c]] >= cur[c]
  BY Zenon DEF IInv, VisibleInv
<1> QED
  BY <1>1, <1>2, Zenon DEF StillVisible, SeenBy

\* In every state the invariant allows, recovery repeats a committed
\* operation: its entry is the latest of the ring and case A or B holds.
LEMMA IInvCommitted == IInv => CommittedIsRedone
<1> SUFFICES ASSUME IInv, NEW c \in Cpus, token[MachineOf[c]], pc[c] = "ptr"
             PROVE  LET d == MachineOf[c] IN
                    /\ NeedRedo(d)
                    /\ LatestRedo(d).func = op[c].func
                    /\ LatestRedo(d).loc = op[c].loc
                    /\ LatestRedo(d).obj = op[c].obj
  BY Zenon DEF CommittedIsRedone
<1> QED
  BY LatestIsOp, CommittedShows, Zenon DEF NeedRedo

\* What recovery repeats is older than an operation that is not committed:
\* case A and case B both lead to an earlier one.
LEMMA LatestIsOlder ==
  ASSUME IInv, NEW c \in Cpus, pc[c] \in Pre, NeedRedo(MachineOf[c])
  PROVE  LatestRedo(MachineOf[c]).era < era[MachineOf[c]][MachineOf[c]]
<1> DEFINE d == MachineOf[c]
<1>1. d \in Machines /\ Logged(d) # {} /\ era[d][d] \in Nat
  BY MachineOfAssumption, FieldTypes, Zenon DEF IInv, NeedRedo
<1>2. PICK s \in Logged(d) : LatestRedo(d) = redo[d][s]
  BY <1>1, LatestIsLogged, Zenon
<1>3. LatestRedo(d).obj \in Objs /\ LatestRedo(d).era \in Nat
  BY <1>1, <1>2, FieldTypes, Zenon DEF IInv, RingInv, RingOK, Logged
<1>4. CASE StillVisible(d)
  <2>1. /\ refInfo[LatestRedo(d).obj].lcid = d
        /\ refInfo[LatestRedo(d).obj].era = LatestRedo(d).era
    BY <1>4, Zenon DEF StillVisible
  <2>2. Old(c, refInfo[LatestRedo(d).obj].era)
    BY <1>3, <2>1, Zenon DEF IInv, EraInv
  <2> QED
    BY <2>1, <2>2, Zenon DEF Old, Unpublished
<1>5. CASE \E j \in Machines : SeenBy(j, d)
  <2>1. PICK j \in Machines : j # d /\ era[j][d] >= LatestRedo(d).era
    BY <1>5, Zenon DEF SeenBy
  <2>2. era[j][d] < era[d][d] /\ era[j][d] \in Nat
    BY <1>1, <2>1, FieldTypes, Zenon DEF IInv, EraInv, Old, Unpublished
  <2> QED
    BY <1>1, <1>3, <2>1, <2>2
<1> QED
  BY <1>4, <1>5, Zenon DEF NeedRedo

\* In every state the invariant allows, recovery does not repeat an operation
\* that is not committed.
LEMMA IInvUncommitted == IInv => UncommittedIsSkipped
  BY LatestIsOlder, Zenon DEF UncommittedIsSkipped, Pre

\* Words, eras, redo entries and program counters of dsm_ref.c stay well
\* formed in every cluster.
THEOREM TypeCorrect ==
  ASSUME OneCpuPerMachine, MaxBoots = 1
  PROVE  Spec => []TypeOK
<1>1. Init => IInv
  BY InitIInv, Zenon
<1>2. IInv /\ [Next]_vars => IInv'
  BY IInvStep, Zenon
<1>3. IInv => TypeOK
  BY Zenon DEF IInv
<1> QED
  BY <1>1, <1>2, <1>3, PTL DEF Spec

\* Recovery repeats every operation of dsm_ref_link and dsm_ref_unlink that
\* was committed and not finished when its machine died.
THEOREM CommittedOperationsAreRedone ==
  ASSUME OneCpuPerMachine, MaxBoots = 1
  PROVE  Spec => []CommittedIsRedone
<1>1. Init => IInv
  BY InitIInv, Zenon
<1>2. IInv /\ [Next]_vars => IInv'
  BY IInvStep, Zenon
<1>3. IInv => CommittedIsRedone
  BY IInvCommitted, Zenon
<1> QED
  BY <1>1, <1>2, <1>3, PTL DEF Spec

\* Recovery never repeats an operation whose CAS did not take effect.
THEOREM UncommittedOperationsAreSkipped ==
  ASSUME OneCpuPerMachine, MaxBoots = 1
  PROVE  Spec => []UncommittedIsSkipped
<1>1. Init => IInv
  BY InitIInv, Zenon
<1>2. IInv /\ [Next]_vars => IInv'
  BY IInvStep, Zenon
<1>3. IInv => UncommittedIsSkipped
  BY IInvUncommitted, Zenon
<1> QED
  BY <1>1, <1>2, <1>3, PTL DEF Spec
=============================================================================
