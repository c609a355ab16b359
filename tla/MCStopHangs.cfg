SPECIFICATION FairSpec
CONSTANTS
  a = a
  b = b
  l1 = l1
  l2 = l2
  None = None
  Items <- OneItem
  ITunes <- NoITunes
  Launches <- OneLaunch
  GivesUp = FALSE
  MaxLinks = 1
  MaxClients = 1
CHECK_DEADLOCK FALSE
PROPERTY StopReturns
