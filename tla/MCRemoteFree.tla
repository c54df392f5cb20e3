---------------------------- MODULE MCRemoteFree ----------------------------
(***************************************************************************)
(* Instances of RemoteFree; machine 1 owns the pages.  In the large one,   *)
(* two CPUs of machine 0 share its rpf_pending and machine 2 pushes on the *)
(* same stack.  The small one, for liveness, has a CPU on machines 0 and   *)
(* 1: only there is every push bound to get through, since rpf_push is     *)
(* lock-free and not wait-free.                                            *)
(***************************************************************************)
EXTENDS RemoteFree, TLC

CONSTANTS a1, a2, b1, c1, p1, p2, n1, n2

MCPages == {p1, p2}
MCOwnerOf == [p \in MCPages |-> 1]
MCNodes == {n1, n2}

MCThreads == {a1, a2, b1, c1}
MCMachineOf == [t \in MCThreads |-> IF t = b1 THEN 1 ELSE IF t = c1 THEN 2 ELSE 0]
Symmetry == Permutations({a1, a2}) \cup Permutations(MCPages) \cup Permutations(MCNodes)

MCFewThreads == {a1, b1}
MCFewMachineOf == [t \in MCFewThreads |-> IF t = b1 THEN 1 ELSE 0]
=============================================================================
