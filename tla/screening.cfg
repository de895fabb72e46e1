SPECIFICATION FairSpec
CONSTANTS
  Screenings = {s1, s2, s3}
  Apps = {a1}
  Scores = {50, 90}
  Repaired = {"screening"}
  None = None
INVARIANTS
  TypeOK
  OneResultPerApplication
  ResultsHaveApplications
  ResultsAreAudited
  UndisturbedRunIsStored
PROPERTY RequestsFinish
CHECK_DEADLOCK FALSE
