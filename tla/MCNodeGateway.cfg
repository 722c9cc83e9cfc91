CONSTANTS
  Fleet = {n1}
  MaxLinks = 2
  MaxNews = 1
  Apis = {i1, i2}
  Redis = TRUE
  NoLink = NoLink
SPECIFICATION BoundedSpec
PROPERTIES ConnectedIsKnown
CHECK_DEADLOCK FALSE
