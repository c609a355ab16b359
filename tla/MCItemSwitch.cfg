SPECIFICATION Spec
CONSTANTS
  a = a
  b = b
  l1 = l1
  l2 = l2
  None = None
  Items <- TwoItems
  ITunes <- NoITunes
  Launches <- OneLaunch
  GivesUp = TRUE
  MaxLinks = 1
  MaxClients = 2
PROPERTY ItemKeptWhileTransfering
