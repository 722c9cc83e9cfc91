CONSTANTS
  Askers = {w1}
  Relayed = {p1}
  Transfers = {t1, t2}
  MaxSlots = 1
  MaxSeats = 1
  MaxQueue = 1
  NoOne = NoOne
SPECIFICATION UploadsFairSpec
PROPERTIES RefusalIsTemporary
CHECK_DEADLOCK FALSE
