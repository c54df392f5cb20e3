SPECIFICATION FairSpec
CONSTANTS
  p1 = p1
  p2 = p2
  s1 = s1
  s2 = s2
  Producers = {p1, p2}
  Slots = {s1, s2}
  NumNodes = 3
  DeferDepth = 2
  Generations = 64
  LateBoot = FALSE
  MaxRequests = 4
  Null = Null
INVARIANTS
  TypeOK
  NodesConserved
PROPERTIES
  IsRequestQueue
  EveryRequestAnswered
  PoolRefills
