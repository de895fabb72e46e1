SPECIFICATION Spec
CONSTANTS
  Texts <- MCTexts
  Words <- MCWords
  Opened <- MCOpened
  Closed <- MCClosed
  Bare <- MCBare
  Pairs <- MCPairs
  Names <- MCNames
  Distinctive <- MCDistinctive
  Titles <- MCTitles
  Repaired = {"redaction"}
INVARIANTS NothingIdentifies EvidenceSurvives
CHECK_DEADLOCK FALSE
