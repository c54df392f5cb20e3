SPECIFICATION FairSpec
CONSTANTS
  t1 = t1
  t2 = t2
  s1 = s1
  c1 = c1
  c2 = c2
  NoOne = NoOne
  NoNode = NoNode
  Waiters <- MCWaiters
  Timed = {t1}
  Signallers <- MCSignallers
  Cpus <- MCCpus
  CpuOf <- MCCpuOf
  NNodes = 7
  MaxUndelivered = 1
  MaxWaits = 3
CHECK_DEADLOCK FALSE
INVARIANTS
  TypeOK
  AwokenOnce
  CountedAreQueued
PROPERTIES
  LocksAreReleased
  TimedWaitEnds
