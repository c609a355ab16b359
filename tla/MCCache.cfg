SPECIFICATION FairSpec
CONSTANTS
  f1 = f1
  f2 = f2
  g1 = g1
  song1 = song1
  song2 = song2
  location = location
  None = None
  Images <- MCImages
  Dirs <- MCDirs
  DirOf <- MCDirOf
  Location <- MCLocation
  Songs <- MCSongs
  ChunkMax = 3
  MaxDownloads = 1
  MaxClears = 1
INVARIANTS TypeOK 
PROPERTIES GoodImagesKept ClearedOnlyIfEmpty EveryImageShown
