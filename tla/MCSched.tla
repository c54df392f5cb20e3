------------------------------ MODULE MCSched ------------------------------
(***************************************************************************)
(* Two machines of two CPUs; two threads, each a program of its own, that  *)
(* machine 0 creates.  Threads are bound to the second CPU of machine 0 or *)
(* to the first CPU of machine 1.                                          *)
(***************************************************************************)
EXTENDS Sched

CONSTANTS t1, t2
MCThreads == {t1, t2}
MCGroup == [t \in MCThreads |-> t]
MCHome == [t \in MCThreads |-> 0]
MCTargets == {<<0, 1>>, <<1, 0>>}
=============================================================================
