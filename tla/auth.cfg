SPECIFICATION FairSpec
CONSTANTS
  Requests = {r1, r2, r3}
  Emails = {e1, e2}
  Names = {n1}
  Suffixes = {x1}
  None = None
INVARIANTS
  TypeOK
  UniqueAccounts
  SessionsAudited
  RotationLineage
  NoSessionFromDeadToken
  LogoutRevokesPrior
PROPERTIES
  RequestsFinish
  LedgerSpec
CHECK_DEADLOCK FALSE
