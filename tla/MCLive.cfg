CONSTANTS
  n1 = n1
  alice = alice
  Jobs = {j1}
  Nodes = {n1}
  NoNode = NoNode
  Calls = {c1}
  MaxAttempts = 2
  ClaimBound = 2
  Capacity <- AllCapacityOne
  SendsAttempt = {n1}
  Suitable <- AllSuitable
  PublicJobs = {j1}
  FirstLifecycle <- AllActive
  Users = {alice}
  Runs = {r1}
  Owner <- AllAlice
  Approvals = {a1, a2}
  NoRun = NoRun
  Requests = {q1}
  Cancels = {k1}
  MaxSteps = 1
  MaxApis = 3
  MaxMisses = 2
  MaxVersion = 2
  f1 = f1
  Hosts = {h1}
  Me = Me
  Addresses = {x1, x2, x3}
  Mine = x3
  Local = {x1}
  Starter = {x3}
  Files = {f1}
  Stored <- AllStored
  Lenders = {h1}
  Nobody = Nobody
  MaxFresh = 1
  MaxTurns = 1
SPECIFICATION LiveSpec
INVARIANTS NothingSurvives NothingOnHearsay
PROPERTIES AttemptsEnd CancelledStops HungIsReplaced AloneFindsAgain
CHECK_DEADLOCK FALSE
