SPECIFICATION Spec
CONSTANTS
  Users = {u1}
  Orgs = {o1}
  Roles = {"ORGANIZATION_ADMIN"}
  Repaired = {}
  None = None
INVARIANT DowngradeRestoresSchema
CHECK_DEADLOCK FALSE
