--------------------------- MODULE MCNotification ---------------------------
(***************************************************************************)
(* Two waiters on CPUs of their own and a signaller on a third.            *)
(***************************************************************************)
EXTENDS Notification

CONSTANTS t1, t2, s1, c1, c2

MCWaiters == {t1, t2}
MCSignallers == {s1}
MCCpus == {c1, c2}
MCCpuOf == [t \in MCWaiters |-> IF t = t1 THEN c1 ELSE c2]
=============================================================================
