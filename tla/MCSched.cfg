SPECIFICATION FairSpec
CONSTANTS
  t1 = t1
  t2 = t2
  Idle = Idle
  NoAff = NoAff
  NoCpu = NoCpu
  NumMachines = 2
  PlatCpuNum = 2
  Threads <- MCThreads
  Group <- MCGroup
  Home <- MCHome
  Targets <- MCTargets
  FpuUsers = {t1}
  Migrants = {t2}
  FarBound = {}
  Yields <- MCThreads
  FarSignalled = {t2}
CHECK_DEADLOCK FALSE
INVARIANTS
  TypeOK
  AtOnePlace
  
  HandedOver
  RunsOnItsMachine
  FpuKept
  NoBug
PROPERTY QueuedRuns
