CONSTANTS
  alice = alice
  bob = bob
  Users = {alice, bob}
  Keys = {k1, k2}
  NoKey = NoKey
  Amounts = {1, 2}
  Txs = {x1, x2}
  FirstBalance <- AliceHasOne
  LedgerBound = 3
  Enrolments = {x1, x2, x3}
  NodeCap = 2
  NodeStake = 1
  FirstPurse = 2
  Families = {f1}
  MaxTokens = 3
  MaxMailed = 1
  Refreshes = {x1, x2}
  Mailings = {i1}
  Redeems = {x1, x2}
  NoFamily = NoFamily
  Setups = {x1, x2}
  Parts = 2
  Chunks = 2
  Crashes = TRUE
  Launches = {x1, x2, x3}
  Models = {m1, m2}
  KillWaits = TRUE
  NoModel = NoModel
  NoChild = NoChild
  Images = {i1, i2}
  Clips = {v1, v2}
  Steps = 2
  NoItem = NoItem
  Folders = {f1, f2}
  MaxEvents = 3
  Take = 2
  Keep = 2
  Watches = {w1, w2}
  Stream = s1
  Wanders = FALSE
  Count = 2
  MaxFaults = 1
  Edits = TRUE
  StepLimit = 5
  Grace = 5
  MaxRepairs = 2
  MaxCorrections = 2
  Delegates = TRUE
  MaxFiles = 3
  Turns = {x1, x2}
  Words = 2
  FileParts = 2
  Price = 2
  Savings = 3
  InferRefs = {f1}
  MeterLocal = TRUE
  p1 = p1
  p2 = p2
  f1 = f1
  f2 = f2
  f3 = f3
  c4 = c4
  g1 = g1
  g2 = g2
  s3 = s3
  Projects = {p1, p2}
  Covers <- TwoProjects
  Calls = {x1, x2, x3, c4}
  Caller <- C4IsOfG2
  Cwd <- AllInP1
  FsEnabled = TRUE
  MaxChanges = 2
  Shells = {x1, x2, s3}
  StarterRun <- S3IsOfG2
  MaxConcurrent = 2
  Stubborn = {s3}
  Windows = {0, 2048, 5800, 6144, 32768}
  Default = 8192
  LeastRow = 2048
  LeastLimit = 4096
  Reserve = 1400
  LeastInput = 2048
  LeastPer = 1800
  Block = 8
  Overhead = 6
  Heading = 66
  DigestLine = 912
  Lengths = {300, 12000}
  Prompts = {80, 6000}
  MaxMessages = 12
SYMMETRY Interchangeable
SPECIFICATION ServicesSpec
INVARIANTS LedgerExplainsBalance NodesArePaid RotationIsExclusive InstalledIsVerified ReadyIsLoaded WorksKeepApart NothingIsSkipped PatchIsAtomic AnswerIsHonest AnswerIsWhole IndexFollowsPatches ProcessesAreAnsweredFor ContextFits
PROPERTIES AtomicMovements
CHECK_DEADLOCK FALSE
