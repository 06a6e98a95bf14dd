SPECIFICATION Spec
CONSTANTS
  Capitals = {"Run", "Then"}
  Lowers = {"it"}
  Abbrs = {"e.g."}
  Numbers = {"3"}
  Chrome = {"~"}
  ProseTexts <- Prosaic
  RawTexts = {}
  SpeakLimit = 8
  ChunkLimit = 5
  MessageLimit = 7
  MaxEvents = 1
INVARIANT EverythingIsMirrored
CHECK_DEADLOCK FALSE
