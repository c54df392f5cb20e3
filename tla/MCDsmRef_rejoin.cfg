CONSTANTS
  NMachines = 2
  Cpus <- MCCpus
  MachineOf <- MCMachineOf
  Objs <- MCObjs
  Locs <- MCLocs
  Null = Null
  Embedded <- MCEmbedded
  MayUse <- MCMayUse
  RedoCnt = 2
  MaxEra = 4
  MaxBoots = 2
  o1 = o1
  o2 = o2
  l1 = l1
  l2 = l2
  l3 = l3
SPECIFICATION Spec
INVARIANTS
  RefCountExact
CHECK_DEADLOCK FALSE
