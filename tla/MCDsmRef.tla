------------------------------ MODULE MCDsmRef ------------------------------
(* Small clusters for DsmRef. *)
EXTENDS DsmRef

CONSTANTS o1, o2, l1, l2, l3

\* Two machines with one CPU each; the CPUs carry their machine's number.
MCCpus == 0 .. NMachines - 1
MCMachineOf == [c \in MCCpus |-> c]

MCObjs == {o1, o2}
MCLocs == {l1, l2, l3}

\* l3 is embedded in o1.  Machine 0 owns o1, its root field and its
\* embedded field; o2 is shared by all.
MCEmbedded == [o \in MCObjs |-> IF o = o1 THEN <<l3>> ELSE << >>]
MCMayUse == [l \in MCLocs |-> IF l = l2 THEN {1} ELSE {0}]

\* Any machine links and unlinks any field.
MCMayUseAny == [l \in MCLocs |-> 0 .. NMachines - 1]
=============================================================================
