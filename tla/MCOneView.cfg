SPECIFICATION Spec
CONSTANTS
  a = a
  b = b
  l1 = l1
  l2 = l2
  None = None
  Items <- TwoItems
  ITunes <- NoITunes
  Launches <- OneLaunch
  GivesUp = FALSE
  MaxLinks = 2
  MaxClients = 2
SYMMETRY ItemSymmetry
CHECK_DEADLOCK FALSE
INVARIANTS TypeOK TransferBacked OneTransfer
PROPERTIES PageAfterLastLink CountOfOwnClient NothingAfterStop
