SPECIFICATION Spec
CONSTANTS
  photo = photo
  photo2 = photo2
  phraseImage = phraseImage
  photos = photos
  phrases = phrases
  phrase = phrase
  Base = Base
  Images <- MCImages
  Dirs <- MCDirs
  Parent <- MCParent
  SizeOf <- MCSizeOf
  MaxCacheSize = 3
  MaxDate = 7
CHECK_DEADLOCK FALSE
INVARIANT OnlyOldestDeleted
