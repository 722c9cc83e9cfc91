CONSTANTS
  ma = ma
  mb = mb
  mc = mc
  Askers = {w1, w2}
  Relayed = {p1}
  Transfers = {t1, t2, t3}
  MaxSlots = 2
  MaxSeats = 1
  MaxQueue = 1
  NoOne = NoOne
  Relays = {h1, h2}
  Loops = {l1, l2}
  MaxInFlight = 2
  NoRelay = NoRelay
  Machines = {ma, mb, mc}
  Borrows = {b1, b2}
  Borrower <- MaBorrows
  ComputeSlots = 1
  Asked = Asked
  OtherModel = OtherModel
  Bits = 3
  Nodes <- FourIds
  Keys <- OneKey
  Holder <- HeldBySeven
  Walks = {k1}
  K = 1
  Alpha = 2
  MaxRounds = 2
  MaxQueries = 2
  MaxKeys = 1
  MaxProviders = 1
  MaxChurn = 2
SYMMETRY Interchangeable
SPECIFICATION PeersSpec
INVARIANTS SlotsAreHeld AttachedIsPolled ConfidenceIsEarned TableIsProven AnnouncedIsFound
CHECK_DEADLOCK FALSE
