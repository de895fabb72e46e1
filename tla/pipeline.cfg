SPECIFICATION FairSpec
CONSTANTS
  Cases <- MCCases
  Similarities = {3000, 10000}
  Chain <- MCChain
  Registered <- MCRegistered
  None = None
  MayFail <- AllNodes
  Repaired = {"outcome", "redaction", "prompt"}
CHECK_DEADLOCK FALSE
INVARIANTS
  TypeOK
  ShippedRunIsComplete
  NothingBeforeRedaction
  ClearedDecisionIsClean
  ChainIsWalkedInOrder
  ScoreKeepsItsScale
  RankingFollowsTheEvidence
PROPERTY RunEnds
