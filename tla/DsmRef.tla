------------------------------- MODULE DsmRef -------------------------------
(***************************************************************************)
(* Reference counts of objects in CXL shared memory that survive the crash *)
(* of a whole machine (kernel/dsm/dsm_ref.c).                              *)
(*                                                                         *)
(* Every object carries one word, ref_info = [lcid, cnt, era]: who changed *)
(* it last, the count, and that machine's era at the change.  A link or an *)
(* unlink loads the word, records the era it saw in the machine's row of   *)
(* the era matrix, writes a redo entry, swaps the word with a CAS, writes  *)
(* the pointer and increments the machine's own era.  Each of these        *)
(* accesses to shared memory is an action, so that a crash may fall        *)
(* between any two of them and the steps of different CPUs interleave.     *)
(***************************************************************************)
EXTENDS Integers, FiniteSets, Sequences

CONSTANTS
  NMachines,   \* machines are numbered from 0 (CLUSTER_MACHINE_NUM)
  Cpus,        \* CPUs that run the code
  MachineOf,   \* the machine of each CPU
  Objs,        \* shared objects (struct dsm_ref_obj)
  Locs,        \* u64 pointer fields in shared memory
  Null,        \* offset 0
  Embedded,    \* the pointer fields that follow an object's header
  MayUse,      \* the machines whose callers link and unlink a field
  RedoCnt,     \* DSM_REF_REDO_CNT, the depth of the redo ring
  MaxEra,      \* bound: no operation starts at this era
  MaxBoots     \* bound: how often a machine joins

Machines == 0 .. NMachines - 1

ASSUME CountsAssumption == NMachines \in Nat \ {0} /\ RedoCnt \in Nat \ {0}
ASSUME MachineOfAssumption == MachineOf \in [Cpus -> Machines]
ASSUME NullAssumption == Null \notin Objs /\ Null \notin Locs
ASSUME EmbeddedAssumption == Embedded \in [Objs -> Seq(Locs)]

NoMachine == -1
U16 == 65536
EmptyRedo == [func |-> "none", cnt |-> 0, era |-> 0, loc |-> Null, obj |-> Null]
EmptyRing == [s \in 0 .. RedoCnt - 1 |-> EmptyRedo]
ZeroInfo == [lcid |-> 0, cnt |-> 0, era |-> 0]
NoOp == [func |-> "none", loc |-> Null, obj |-> Null]

VARIABLES
  refInfo,  \* per object: the word the CAS works on
  era,      \* era[i][j]: the last era of machine j that machine i has seen
  redo,     \* per machine: the ring of redo entries
  token,    \* per machine: mid_token is set
  ptr,      \* per pointer field: the object it holds, or Null
  up,       \* per machine: it is running
  boots,    \* per machine: joins so far
  pc,       \* per CPU: the next step
  op,       \* per CPU: the operation it is in
  seen,     \* per CPU: old_ri, the word it loaded
  cur,      \* per CPU: cur_era, the era it loaded
  todo,     \* per CPU: embedded fields still to be unlinked
  rec,      \* per CPU: the dead machine it recovers
  scan      \* per CPU: the row of the era matrix recovery reads next

shared == <<refInfo, era, redo, token, ptr>>
cpuVars == <<pc, op, seen, cur, todo, rec, scan>>
vars == <<refInfo, era, redo, token, ptr, up, boots, pc, op, seen, cur, todo, rec, scan>>

CpusOf(m) == {c \in Cpus : MachineOf[c] = m}
Live(c) == up[MachineOf[c]]

Init ==
  /\ refInfo = [o \in Objs |-> ZeroInfo]
  /\ era = [i \in Machines |-> [j \in Machines |-> 0]]
  /\ redo = [m \in Machines |-> EmptyRing]
  /\ token = [m \in Machines |-> FALSE]
  /\ ptr = [l \in Locs |-> Null]
  /\ up = [m \in Machines |-> FALSE]
  /\ boots = [m \in Machines |-> 0]
  /\ pc = [c \in Cpus |-> "idle"]
  /\ op = [c \in Cpus |-> NoOp]
  /\ seen = [c \in Cpus |-> ZeroInfo]
  /\ cur = [c \in Cpus |-> 0]
  /\ todo = [c \in Cpus |-> << >>]
  /\ rec = [c \in Cpus |-> NoMachine]
  /\ scan = [c \in Cpus |-> 0]

(***************************************************************************)
(* Machines come and go.  A machine that crashes freezes all its CPUs: pc, *)
(* op and the rest keep, as history, the point at which they stopped.      *)
(***************************************************************************)

\* dsm_ref_machine_join at boot.  The monitor has recovered the slot before.
Join(m) ==
  /\ ~up[m] /\ ~token[m]
  /\ boots[m] < MaxBoots
  /\ redo' = [redo EXCEPT ![m] = EmptyRing]
  /\ token' = [token EXCEPT ![m] = TRUE]
  /\ era' = [era EXCEPT ![m][m] = 1]
  /\ up' = [up EXCEPT ![m] = TRUE]
  /\ boots' = [boots EXCEPT ![m] = @ + 1]
  /\ UNCHANGED <<refInfo, ptr, cpuVars>>

\* dsm_ref_machine_leave: "nothing is in-flight at shutdown".
Leave(m) ==
  /\ up[m]
  /\ \A c \in CpusOf(m) : pc[c] = "idle"
  /\ \E n \in Machines \ {m} : up[n]
  /\ redo' = [redo EXCEPT ![m] = EmptyRing]
  /\ token' = [token EXCEPT ![m] = FALSE]
  /\ up' = [up EXCEPT ![m] = FALSE]
  /\ UNCHANGED <<refInfo, era, ptr, boots, cpuVars>>

\* The whole machine fails; one machine survives to recover it.
Crash(m) ==
  /\ up[m]
  /\ \E n \in Machines \ {m} : up[n]
  /\ up' = [up EXCEPT ![m] = FALSE]
  /\ UNCHANGED <<shared, boots, cpuVars>>

(***************************************************************************)
(* dsm_ref_link and dsm_ref_unlink.                                        *)
(***************************************************************************)

\* Nobody is in the middle of an operation on the field: callers do not
\* race on one field.  A crashed operation counts until it is recovered.
FieldFree(l) == \A c \in Cpus : op[c].loc # l

\* An object that machine m has allocated and that nobody refers to yet.
Fresh(m, o) ==
  /\ refInfo[o] = ZeroInfo /\ \A c \in Cpus : op[c].obj # o
  /\ \A i \in DOMAIN Embedded[o] : m \in MayUse[Embedded[o][i]]

\* Callers of machine m work on field l: an embedded field only while they
\* hold the object around it, by another field or because it is fresh.
Uses(m, l) ==
  /\ m \in MayUse[l] /\ FieldFree(l)
  /\ \A o \in Objs : (\E i \in DOMAIN Embedded[o] : Embedded[o][i] = l) =>
       Fresh(m, o) \/ \E k \in Locs \ {l} : ptr[k] = o /\ m \in MayUse[k] /\ FieldFree(k)

\* The object is new, or some holder handed it to the caller and keeps its
\* own reference until the link is done (see StartUnlink).
StartLink(c, l, o) ==
  LET m == MachineOf[c] IN
  /\ Live(c) /\ pc[c] = "idle"
  /\ Uses(m, l) /\ ptr[l] = Null
  /\ Fresh(m, o) \/ \E k \in Locs : ptr[k] = o /\ FieldFree(k)
  /\ era[m][m] < MaxEra
  /\ op' = [op EXCEPT ![c] = [func |-> "link", loc |-> l, obj |-> o]]
  /\ pc' = [pc EXCEPT ![c] = "load"]
  /\ UNCHANGED <<shared, up, boots, seen, cur, todo, rec, scan>>

StartUnlink(c, l) ==
  LET m == MachineOf[c] IN
  /\ Live(c) /\ pc[c] = "idle"
  /\ Uses(m, l) /\ ptr[l] # Null
  /\ \A b \in Cpus : op[b].func = "link" => op[b].obj # ptr[l]
  /\ era[m][m] < MaxEra
  /\ op' = [op EXCEPT ![c] = [func |-> "unlink", loc |-> l, obj |-> ptr[l]]]
  /\ pc' = [pc EXCEPT ![c] = "load"]
  /\ UNCHANGED <<shared, up, boots, seen, cur, todo, rec, scan>>

\* old_ri = atomic_load_64(&obj->ref_info)
Load(c) ==
  /\ Live(c) /\ pc[c] = "load"
  /\ seen' = [seen EXCEPT ![c] = refInfo[op[c].obj]]
  /\ pc' = [pc EXCEPT ![c] = "era"]
  /\ UNCHANGED <<shared, up, boots, op, cur, todo, rec, scan>>

\* Mutant of EraSet: the era seen in the object is not recorded.
EraSetForgets(c) ==
  /\ Live(c) /\ pc[c] = "era"
  /\ cur' = [cur EXCEPT ![c] = era[MachineOf[c]][MachineOf[c]]]
  /\ pc' = [pc EXCEPT ![c] = "redo"]
  /\ UNCHANGED <<shared, up, boots, op, seen, todo, rec, scan>>

\* cur_era = era_self(), then the row entry of the last modifier is raised
\* to the era seen.  Only this machine writes this row.
EraSet(c) ==
  LET m == MachineOf[c] IN
  /\ Live(c) /\ pc[c] = "era"
  /\ cur' = [cur EXCEPT ![c] = era[m][m]]
  /\ era' = IF seen[c].era > era[m][seen[c].lcid]
            THEN [era EXCEPT ![m][seen[c].lcid] = seen[c].era]
            ELSE era
  /\ pc' = [pc EXCEPT ![c] = "redo"]
  /\ UNCHANGED <<refInfo, redo, token, ptr, up, boots, op, seen, todo, rec, scan>>

\* write_redo: the slot is cur_era & (DSM_REF_REDO_CNT - 1).
WriteRedo(c) ==
  LET m == MachineOf[c] IN
  /\ Live(c) /\ pc[c] = "redo"
  /\ redo' = [redo EXCEPT ![m][cur[c] % RedoCnt] =
                [func |-> op[c].func, cnt |-> seen[c].cnt, era |-> cur[c],
                 loc |-> op[c].loc, obj |-> op[c].obj]]
  /\ pc' = [pc EXCEPT ![c] = "cas"]
  /\ UNCHANGED <<refInfo, era, token, ptr, up, boots, op, seen, cur, todo, rec, scan>>

\* Mutant of NewInfo: link and unlink swapped, and no cast to u16.
NewInfoSwapped(c) ==
  [lcid |-> MachineOf[c],
   cnt  |-> seen[c].cnt + (IF op[c].func = "link" THEN -1 ELSE 1),
   era  |-> cur[c]]

\* dsm_ref_pack(mid, old_cnt + 1, cur_era); cnt is a u16.
NewInfo(c) ==
  [lcid |-> MachineOf[c],
   cnt  |-> (seen[c].cnt + (IF op[c].func = "link" THEN 1 ELSE -1)) % U16,
   era  |-> cur[c]]

CasInfo(c) ==
  /\ Live(c) /\ pc[c] = "cas"
  /\ IF refInfo[op[c].obj] = seen[c]
     THEN /\ refInfo' = [refInfo EXCEPT ![op[c].obj] = NewInfo(c)]
          /\ pc' = [pc EXCEPT ![c] = "ptr"]
     ELSE /\ pc' = [pc EXCEPT ![c] = "load"]
          /\ UNCHANGED refInfo
  /\ UNCHANGED <<era, redo, token, ptr, up, boots, op, seen, cur, todo, rec, scan>>

\* *ref_loc = target_off, or 0
WritePtr(c) ==
  /\ Live(c) /\ pc[c] = "ptr"
  /\ ptr' = [ptr EXCEPT ![op[c].loc] = IF op[c].func = "link" THEN op[c].obj ELSE Null]
  /\ pc' = [pc EXCEPT ![c] = "inc"]
  /\ UNCHANGED <<refInfo, era, redo, token, up, boots, op, seen, cur, todo, rec, scan>>

\* Mutant of EraInc: the own era is not incremented.
EraIncForgets(c) ==
  /\ Live(c) /\ pc[c] = "inc"
  /\ todo' = [todo EXCEPT ![c] =
                IF op[c].func = "unlink" /\ seen[c].cnt = 1
                THEN Embedded[op[c].obj] \o @ ELSE @]
  /\ op' = [op EXCEPT ![c] = NoOp]
  /\ pc' = [pc EXCEPT ![c] = "embed"]
  /\ UNCHANGED <<shared, up, boots, seen, cur, rec, scan>>

\* era_self_inc; an unlink that took the last reference then goes through
\* the embedded fields, depth first.
EraInc(c) ==
  LET m == MachineOf[c] IN
  /\ Live(c) /\ pc[c] = "inc"
  /\ era' = [era EXCEPT ![m][m] = @ + 1]
  /\ todo' = [todo EXCEPT ![c] =
                IF op[c].func = "unlink" /\ seen[c].cnt = 1
                THEN Embedded[op[c].obj] \o @ ELSE @]
  /\ op' = [op EXCEPT ![c] = NoOp]
  /\ pc' = [pc EXCEPT ![c] = "embed"]
  /\ UNCHANGED <<refInfo, redo, token, ptr, up, boots, seen, cur, rec, scan>>

\* One turn of the loop over embedded[]: an empty field is skipped.
Embed(c) ==
  /\ Live(c) /\ pc[c] = "embed" /\ todo[c] # << >>
  /\ LET l == Head(todo[c]) IN
     IF ptr[l] = Null
     THEN UNCHANGED <<op, pc>>
     ELSE /\ op' = [op EXCEPT ![c] = [func |-> "unlink", loc |-> l, obj |-> ptr[l]]]
          /\ pc' = [pc EXCEPT ![c] = "load"]
  /\ todo' = [todo EXCEPT ![c] = Tail(@)]
  /\ UNCHANGED <<shared, up, boots, seen, cur, rec, scan>>

\* The outermost call returns, to its caller or into recovery.
Return(c) ==
  /\ Live(c) /\ pc[c] = "embed" /\ todo[c] = << >>
  /\ pc' = [pc EXCEPT ![c] = IF rec[c] = NoMachine THEN "idle" ELSE "rclear"]
  /\ UNCHANGED <<shared, up, boots, op, seen, cur, todo, rec, scan>>

(***************************************************************************)
(* dsm_ref_recover_machine: a surviving machine decides from the era       *)
(* matrix whether the last logged operation of the dead one took effect.   *)
(***************************************************************************)

\* find_latest_redo, when some slot is in use
Logged(m) == {s \in 0 .. RedoCnt - 1 : redo[m][s].func # "none"}
LatestRedo(m) ==
  redo[m][CHOOSE s \in Logged(m) : \A t \in Logged(m) : redo[m][t].era <= redo[m][s].era]

\* Case A: the word still shows the dead machine's change.
StillVisible(d) ==
  LET r == LatestRedo(d) IN
  refInfo[r.obj].lcid = d /\ refInfo[r.obj].era = r.era

\* Mutant of SeenBy: off by one in the comparison of eras.
SeenByStrict(j, d) == j # d /\ era[j][d] > LatestRedo(d).era

\* Case B for one row: machine j saw that change in an object.
SeenBy(j, d) == j # d /\ era[j][d] >= LatestRedo(d).era

\* The monitor hands a dead machine to one CPU.
StartRecovery(c, d) ==
  /\ Live(c) /\ pc[c] = "idle"
  /\ ~up[d] /\ token[d]
  /\ \A b \in Cpus : rec[b] = d => ~Live(b)
  /\ rec' = [rec EXCEPT ![c] = d]
  /\ pc' = [pc EXCEPT ![c] = "rcheck"]
  /\ UNCHANGED <<shared, up, boots, op, seen, cur, todo, scan>>

CheckVisible(c) ==
  LET d == rec[c] IN
  /\ Live(c) /\ pc[c] = "rcheck"
  /\ pc' = [pc EXCEPT ![c] = IF Logged(d) = {} THEN "rclear"
                             ELSE IF StillVisible(d) THEN "rapply" ELSE "rscan"]
  /\ scan' = [scan EXCEPT ![c] = 0]
  /\ UNCHANGED <<shared, up, boots, op, seen, cur, todo, rec>>

\* Mutant of ScanEra: the dead machine's own row is not stepped over.
ScanEraStuck(c) ==
  LET d == rec[c] IN
  /\ Live(c) /\ pc[c] = "rscan"
  /\ scan[c] # d
  /\ IF scan[c] = NMachines
     THEN /\ pc' = [pc EXCEPT ![c] = "rclear"]
          /\ UNCHANGED scan
     ELSE IF SeenBy(scan[c], d)
     THEN /\ pc' = [pc EXCEPT ![c] = "rapply"]
          /\ UNCHANGED scan
     ELSE /\ scan' = [scan EXCEPT ![c] = @ + 1]
          /\ UNCHANGED pc
  /\ UNCHANGED <<shared, up, boots, op, seen, cur, todo, rec>>

\* One turn of the loop over the rows of the era matrix; Case C at its end.
ScanEra(c) ==
  LET d == rec[c] IN
  /\ Live(c) /\ pc[c] = "rscan"
  /\ IF scan[c] = NMachines
     THEN /\ pc' = [pc EXCEPT ![c] = "rclear"]
          /\ UNCHANGED scan
     ELSE IF SeenBy(scan[c], d)
     THEN /\ pc' = [pc EXCEPT ![c] = "rapply"]
          /\ UNCHANGED scan
     ELSE /\ scan' = [scan EXCEPT ![c] = @ + 1]
          /\ UNCHANGED pc
  /\ UNCHANGED <<shared, up, boots, op, seen, cur, todo, rec>>

\* The pointer write is repeated.  The history of the dead machine's CPUs
\* ends here: what they left half done is done.
ApplyRedo(c) ==
  LET d == rec[c]
      r == LatestRedo(d)
  IN
  /\ Live(c) /\ pc[c] = "rapply"
  /\ ptr' = [ptr EXCEPT ![r.loc] = IF r.func = "link" THEN r.obj ELSE Null]
  /\ todo' = [b \in Cpus |->
                IF b = c /\ r.func = "unlink" /\ r.cnt = 1 THEN Embedded[r.obj]
                ELSE IF MachineOf[b] = d THEN << >> ELSE todo[b]]
  /\ op' = [b \in Cpus |-> IF MachineOf[b] = d THEN NoOp ELSE op[b]]
  /\ pc' = [b \in Cpus |-> IF b = c THEN "embed"
                           ELSE IF MachineOf[b] = d THEN "idle" ELSE pc[b]]
  /\ rec' = [b \in Cpus |-> IF MachineOf[b] = d THEN NoMachine ELSE rec[b]]
  /\ UNCHANGED <<refInfo, era, redo, token, up, boots, seen, cur, scan>>

\* Only mid_token is cleared: the redo ring and the eras stay.
ClearSlot(c) ==
  LET d == rec[c] IN
  /\ Live(c) /\ pc[c] = "rclear"
  /\ token' = [token EXCEPT ![d] = FALSE]
  /\ todo' = [b \in Cpus |-> IF MachineOf[b] = d THEN << >> ELSE todo[b]]
  /\ op' = [b \in Cpus |-> IF MachineOf[b] = d THEN NoOp ELSE op[b]]
  /\ pc' = [b \in Cpus |-> IF b = c \/ MachineOf[b] = d THEN "idle" ELSE pc[b]]
  /\ rec' = [b \in Cpus |-> IF b = c \/ MachineOf[b] = d THEN NoMachine ELSE rec[b]]
  /\ UNCHANGED <<refInfo, era, redo, ptr, up, boots, seen, cur, scan>>

Step(c) ==
  \/ Load(c) \/ EraSet(c) \/ WriteRedo(c) \/ CasInfo(c) \/ WritePtr(c)
  \/ EraInc(c) \/ Embed(c) \/ Return(c)
  \/ CheckVisible(c) \/ ScanEra(c) \/ ApplyRedo(c) \/ ClearSlot(c)

Next ==
  \/ \E m \in Machines : Join(m) \/ Leave(m) \/ Crash(m)
  \/ \E c \in Cpus : \E l \in Locs : StartUnlink(c, l) \/ \E o \in Objs : StartLink(c, l, o)
  \/ \E c \in Cpus : \E d \in Machines : StartRecovery(c, d)
  \/ \E c \in Cpus : Step(c)

Spec == Init /\ [][Next]_vars

\* Every CPU of a running machine keeps executing, and the monitor does not
\* forget a dead machine.
FairSpec ==
  /\ Spec
  /\ \A c \in Cpus : WF_vars(Step(c))
  /\ \A d \in Machines : WF_vars(\E c \in Cpus : StartRecovery(c, d))

-----------------------------------------------------------------------------
Word == [lcid : Machines, cnt : 0 .. U16 - 1, era : Nat]
Entry == [func : {"none", "link", "unlink"}, cnt : 0 .. U16 - 1, era : Nat,
          loc : Locs \cup {Null}, obj : Objs \cup {Null}]
Ring == [0 .. RedoCnt - 1 -> Entry]
Operation == [func : {"none", "link", "unlink"}, loc : Locs \cup {Null}, obj : Objs \cup {Null}]
Steps == {"idle", "load", "era", "redo", "cas", "ptr", "inc", "embed",
          "rcheck", "rscan", "rapply", "rclear"}

\* What the variables hold: the words, eras and redo entries stay well formed
\* and every CPU is at a step of dsm_ref.c.
TypeOK ==
  /\ refInfo \in [Objs -> Word]
  /\ era \in [Machines -> [Machines -> Nat]]
  /\ redo \in [Machines -> Ring]
  /\ token \in [Machines -> BOOLEAN]
  /\ ptr \in [Locs -> Objs \cup {Null}]
  /\ up \in [Machines -> BOOLEAN]
  /\ boots \in [Machines -> Nat]
  /\ pc \in [Cpus -> Steps]
  /\ op \in [Cpus -> Operation]
  /\ seen \in [Cpus -> Word]
  /\ cur \in [Cpus -> Nat]
  /\ todo \in [Cpus -> Seq(Locs)]
  /\ rec \in [Cpus -> Machines \cup {NoMachine}]
  /\ scan \in [Cpus -> Nat]

\* What recovery would decide about machine d.
NeedRedo(d) == Logged(d) # {} /\ (StillVisible(d) \/ \E j \in Machines : SeenBy(j, d))

\* An operation whose CAS took effect and whose pointer is not written yet is
\* the one recovery finds in the ring, and recovery decides to repeat it, no
\* matter how often the word was overwritten since (dsm_ref.c, cases A and B).
CommittedIsRedone ==
  \A c \in Cpus :
    LET d == MachineOf[c] IN
    token[d] /\ pc[c] = "ptr" =>
      /\ NeedRedo(d)
      /\ LatestRedo(d).func = op[c].func
      /\ LatestRedo(d).loc = op[c].loc
      /\ LatestRedo(d).obj = op[c].obj

\* An operation whose CAS has not taken effect is never repeated by recovery
\* (case C): what recovery repeats then is an earlier, finished operation.
UncommittedIsSkipped ==
  \A c \in Cpus :
    LET d == MachineOf[c] IN
    token[d] /\ pc[c] \in {"load", "era", "redo", "cas"} /\ NeedRedo(d) =>
      LatestRedo(d).era < era[d][d]

\* The count of an object is the number of fields that hold it, plus links
\* and minus unlinks between their CAS and their pointer write.  Crashes and
\* recoveries keep it so.
Between(f, o) == {c \in Cpus : pc[c] = "ptr" /\ op[c].func = f /\ op[c].obj = o}
RefCountExact ==
  \A o \in Objs :
    refInfo[o].cnt = Cardinality({l \in Locs : ptr[l] = o})
                       + Cardinality(Between("link", o)) - Cardinality(Between("unlink", o))

\* When every CPU is idle and no dead machine waits for recovery, an object
\* without references holds no embedded reference: what it referred to was
\* released with it ("Do it now on its behalf", dsm_ref.c, recovery).
Quiescent ==
  /\ \A c \in Cpus : pc[c] = "idle"
  /\ \A m \in Machines : token[m] => up[m]
EmbeddedReleased ==
  Quiescent =>
    \A o \in Objs : refInfo[o].cnt = 0 /\ refInfo[o] # ZeroInfo =>
      \A i \in DOMAIN Embedded[o] : ptr[Embedded[o][i]] = Null

\* The slot of a dead machine is eventually released: survivors never block.
SlotReleased == \A m \in Machines : (~up[m] /\ token[m]) ~> ~token[m]
=============================================================================
