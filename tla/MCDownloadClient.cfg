SPECIFICATION FairSpec
CONSTANTS
  p = p
  q = q
  r = r
  Count = 4
  Paths <- MCPaths
  SavePath <- PageOfFour
  Host = "searchThread"
INVARIANTS
  TypeOK
  ReportsInOrder
  OneDownloadAtATime
  NeverStalls
  DownloadedOnce
  CountMatchesReports
  OneLateCall
PROPERTIES
  OrphanStopped
  ReportsSpec
  ReportsGoOn
CHECK_DEADLOCK FALSE
