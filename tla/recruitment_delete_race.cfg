SPECIFICATION Spec
CONSTANTS
  Orgs = {o1}
  Jobs = {j1}
  Submissions = {a1, a2}
  Ops = {s1, s2}
  Emails = {e1}
  Statuses = {"SHORTLISTED", "REJECTED"}
  Repaired = {"mime_type"}
  None = None
INVARIANT DeletionSparesApplications
CHECK_DEADLOCK FALSE
