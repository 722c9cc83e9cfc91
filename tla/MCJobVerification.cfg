CONSTANTS
  j1 = j1
  j2 = j2
  n1 = n1
  n2 = n2
  c1 = c1
  v1 = v1
  v2 = v2
  requester = requester
  alice = alice
  bob = bob
  NoNode = NoNode
  NoKey = NoKey
  Calls = {c1}
  MaxAttempts = 3
  SendsAttempt = {}
  Suitable <- AllSuitable
  PublicJobs <- Jobs
  Capacity <- CapacityTwo
  Requester <- OneRequester
  Owner <- OwnerEach
  Cost <- CostTwo
  Reward <- RewardOne
  Stake <- StakeOne
  References <- SecondMaybeChecked
  FirstBalance <- RequesterHasTwo
  Verifiers = {v1, v2}
  Jobs = {j1, j2}
  Nodes = {n1, n2}
  ClaimBound = 2
  Passes = 1
  Users = {requester, alice, bob}
  FirstLifecycle <- AllOnProbation
  Placed = {j1}
SYMMETRY VerifierSymmetry
SPECIFICATION ScenarioSpec
INVARIANTS MoneyFollowsResults EligibleOnlyIfVerified TrustIsEarned
CHECK_DEADLOCK FALSE
