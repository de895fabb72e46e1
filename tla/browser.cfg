SPECIFICATION FairSpec
CONSTANTS
  Requests = {"c1", "c2", "c3", "o1"}
  Calls = {"c1", "c2", "c3"}
  Keys = {"a"}
  KeyOf <- KeyOfValue
  Limit = 2
  Window = 2
  MaxStall = 1
  Horizon = 3
  Protected = {"/dashboard", "/dashboard/audit"}
  None = None
INVARIANTS TypeOK AdmissionsAreSpaced SignOutHolds BlankPageHasACause
PROPERTIES RefusalsAreEarned LoadingEnds
CHECK_DEADLOCK FALSE
