CONSTANTS
  Length = 5
  Classes = {"text", "newline", "space"}
  Matches <- MCMatches
SPECIFICATION MarkdownSpec
CHECK_DEADLOCK FALSE
INVARIANTS
  MInv
  CharactersAccountedFor
  SegmentsAreParagraphs
  OneWayToCut
  OneAnswerEach
