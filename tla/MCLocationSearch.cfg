SPECIFICATION FairSpec
CONSTANTS
  p = p
  q = q
  r = r
  Paths <- MCPaths
  NoPath = NoPath
  MaxCount = 2
  MaxMatches = 3
INVARIANTS
  TypeOK
  LimitRespected
  DownloadedOnce
  CountOfImagesAdded
PROPERTIES
  StopIsHeeded
  SearchEnds
CHECK_DEADLOCK FALSE
