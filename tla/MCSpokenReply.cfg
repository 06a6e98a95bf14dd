SPECIFICATION Spec
CONSTANTS
  Capitals = {"Run", "Then"}
  Lowers = {"it"}
  Abbrs = {"e.g."}
  Numbers = {"3"}
  Chrome = {"~"}
  ProseTexts <- Prosaic
  RawTexts <- Prosaic
  SpeakLimit = 8
  ChunkLimit = 5
  MessageLimit = 7
  MaxEvents = 3
INVARIANTS TypeOK NothingIsLost SentencesAreNotMerged
PROPERTY WordsAreRelayed
CHECK_DEADLOCK FALSE
