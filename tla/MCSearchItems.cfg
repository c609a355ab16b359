SPECIFICATION Spec
CONSTANTS
  phrase = phrase
  location = location
  Photo = Photo
  ITunes = ITunes
  Phrases <- MCPhrases
  Locations <- MCLocations
  Legacy <- MCLegacy
  Upgraded = FALSE
  HighPriority = TRUE
  MaxQueryStart = 1
  QueryIncrement = 1
  MaxId = 6
  MaxSteps = 4
INVARIANTS
  TypeOK
  ListedIsWanted
  SomeEnabled

  
