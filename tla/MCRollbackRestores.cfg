CONSTANTS
  Count = 2
  MaxFaults = 1
  Edits = FALSE
SPECIFICATION PatchSpec
INVARIANT RollbackRestores
CHECK_DEADLOCK FALSE
