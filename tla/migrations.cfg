SPECIFICATION Spec
CONSTANTS
  Users = {u1, u2}
  Orgs = {o1, o2}
  Roles = {"ORGANIZATION_ADMIN", "RECRUITER"}
  Repaired = {"user_id"}
  None = None
SYMMETRY Symmetry
INVARIANTS
  TypeOK
  ChainNeverSticks
  RollbackKeepsTenancy
PROPERTY MembersKeepTheirTenant
CHECK_DEADLOCK FALSE
