CONSTANTS
  Setups = {x1, x2}
  Parts = 1
  Chunks = 2
  Crashes = FALSE
SPECIFICATION DownloadsSpec
INVARIANTS LooksInstalledIsWhole
CHECK_DEADLOCK FALSE
