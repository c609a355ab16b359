SPECIFICATION FairSpec
CONSTANTS
  a = a
  b = b
  l1 = l1
  l2 = l2
  None = None
  Items <- OneItem
  ITunes <- OneItem
  Launches <- OneLaunch
  GivesUp = TRUE
  MaxLinks = 1
  MaxClients = 2
CHECK_DEADLOCK FALSE
PROPERTY TransferEnds
