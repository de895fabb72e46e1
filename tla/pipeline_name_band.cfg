SPECIFICATION Spec
CONSTANTS
  Cases <- MCCases
  Similarities = {3000, 10000}
  Chain <- MCChain
  Registered <- MCRegistered
  None = None
  MayFail = {}
  Repaired = {"outcome", "redaction", "prompt"}
CHECK_DEADLOCK FALSE
INVARIANT NameNeverDecidesUnreviewed
