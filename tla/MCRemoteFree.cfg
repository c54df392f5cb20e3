SPECIFICATION Spec
CONSTANTS
  a1 = a1
  a2 = a2
  b1 = b1
  c1 = c1
  p1 = p1
  p2 = p2
  n1 = n1
  n2 = n2
  NoNode = NoNode
  NoPage = NoPage
  NoThread = NoThread
  Machines = {0, 1, 2}
  Threads <- MCThreads
  MachineOf <- MCMachineOf
  Pages <- MCPages
  OwnerOf <- MCOwnerOf
  Nodes <- MCNodes
  BatchMax = 2
  GenMod = 2
  MayCrash = {0}
  MaxBoots = 2
SYMMETRY Symmetry
INVARIANTS
  NodeHeldOnce
  WaitsOnce
