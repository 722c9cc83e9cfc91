CONSTANTS
  j1 = j1
  n1 = n1
  n2 = n2
  j2 = j2
  c1 = c1
  c2 = c2
  Jobs = {j1}
  Nodes = {n1, n2}
  NoNode = NoNode
  Calls = {c1, c2}
  MaxAttempts = 2
  ClaimBound = 2
  Capacity <- AllCapacityOne
  SendsAttempt = {n1}
  Suitable <- AllSuitable
  PublicJobs = {j1}
  FirstLifecycle <- OneOnProbation
SYMMETRY CallSymmetry
SPECIFICATION SchedSpec
INVARIANTS ActiveIsLeased OneNodePerClaim
PROPERTIES FencedEvents CancelSticks LeaseRefinement
CHECK_DEADLOCK FALSE
