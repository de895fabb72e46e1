SPECIFICATION Spec
CONSTANTS
  Requests = {r1, r2, r3}
  Emails = {e1}
  Names = {n1}
  Suffixes = {x1}
  None = None
SYMMETRY Symmetry
INVARIANT SingleSuccessor
CHECK_DEADLOCK FALSE
