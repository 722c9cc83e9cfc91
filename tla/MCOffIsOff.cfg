CONSTANTS
  Relays = {h1, h2}
  Loops = {l1, l2}
  MaxInFlight = 2
  NoRelay = NoRelay
SPECIFICATION SharingFairSpec
PROPERTIES OffIsOff
CHECK_DEADLOCK FALSE
