SPECIFICATION Spec
CONSTANTS
  Screenings = {s1, s2, s3}
  Apps = {a1}
  Scores = {50, 90}
  Repaired = {"screening"}
  None = None
SYMMETRY Symmetry
INVARIANT ResultIsAnAuditedDecision
CHECK_DEADLOCK FALSE
