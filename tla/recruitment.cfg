SPECIFICATION Spec
CONSTANTS
  Orgs = {o1, o2}
  Jobs = {j1, j2}
  Submissions = {a1, a2, a3}
  Ops = {s1, s2}
  Emails = {e1}
  Statuses = {"SHORTLISTED", "REJECTED"}
  Repaired = {"mime_type"}
  None = None
SYMMETRY Symmetry
CHECK_DEADLOCK FALSE
INVARIANTS
  TypeOK
  ReferencesIntact
  OneApplicationPerCandidate
  DecisionsAudited
  TenantIsolation
  SomeoneProceeds
