-------------------------- MODULE RecruitmentProofs --------------------------
(***************************************************************************)
(* Proofs about Recruitment, for every set of organizations, jobs,         *)
(* submissions, staff requests, addresses and statuses, with the upload    *)
(* repaired or not.                                                        *)
(*                                                                         *)
(* The properties are about committed rows; what makes them inductive is   *)
(* what a request may still rely on that read some statements ago.         *)
(***************************************************************************)
EXTENDS Recruitment, TLAPS

\* What the properties do not type: the columns a staff request holds.
StaffTypes ==
  /\ opValue \in [Ops -> Present \cup Statuses \cup {None}]
  /\ opRead \in [Ops -> Present \cup Statuses \cup {"absent", "deleted", "SUBMITTED", None}]

\* A job that was ever created has an organization, for good.
JobsInv == \A j \in Jobs : job[j] # "absent" => jobOrg[j] \in Orgs

\* Stages of a submission that has read its job, and of one that has its candidate.
Placed  == {"select_candidate", "check_existing", "save", "parse", "insert", "commit", "done"}
Matched == Placed \ {"select_candidate"}

\* What a submission has read stays true: its job was created and keeps the
\* organization it was read with, and the candidate it found, or will insert, is of
\* that organization and address.
LocalsInv ==
  \A a \in Submissions :
    /\ IF pc[a] = "idle" THEN target[a] = None
                         ELSE target[a] \in Jobs /\ job[target[a]] # "absent"
    /\ pc[a] \in Placed => org[a] = jobOrg[target[a]]
    /\ pc[a] \in Matched =>
         cand[a] \in candidates \cup {a} /\ org[cand[a]] = org[a] /\ email[cand[a]] = email[a]

\* The rows of a submission are committed together and by itself.
RowsInv ==
  \A a \in Submissions :
    /\ a \in candidates => pc[a] = "done"
    /\ pc[a] = "done" => a \in resumes \cap submitted /\ cand[a] \in candidates
    /\ a \in submitted => pc[a] = "done"
    /\ status[a] # "absent" <=> pc[a] = "done"

\* The file is there from the upload on, and before it or after a refusal it is not.
FilesInv ==
  \A a \in Submissions :
    /\ pc[a] \in {"parse", "insert", "commit", "done"} => a \in files
    /\ pc[a] \in {"idle", "select_job", "select_candidate", "check_existing", "save", "refused"}
         => a \notin files

\* An application, from its flush on, holds the row of its job and its unique key.
Holds(a) == pc[a] = "commit" \/ Exists(a)
KeyInv ==
  /\ \A a \in Submissions : Holds(a) => job[target[a]] \in Present
  /\ \A a, b \in Submissions : Holds(a) /\ Holds(b) /\ SameKey(a, b) => a = b

\* A staff request works on the row it has loaded, of its own organization.
StaffInv ==
  \A s \in Ops :
    /\ opPc[s] \in {"update", "count", "delete"} => opOn[s] \in Jobs /\ job[opOn[s]] # "absent"
    /\ opPc[s] = "update" => opValue[s] \in Present
    /\ opPc[s] = "set_status" =>
         /\ opOn[s] \in Submissions /\ status[opOn[s]] # "absent"
         /\ opValue[s] \in Statuses /\ opRead[s] \in Statuses \cup {"SUBMITTED"}
    /\ opPc[s] = "done" => IF opOn[s] \in Jobs THEN job[opOn[s]] # "absent"
                           ELSE opOn[s] \in Submissions /\ status[opOn[s]] # "absent"

IInv ==
  /\ TypeOK /\ StaffTypes /\ JobsInv /\ LocalsInv /\ RowsInv /\ FilesInv /\ KeyInv /\ StaffInv
  /\ DecisionsAudited /\ TenantIsolation
-----------------------------------------------------------------------------
USE DEF Present, Ended, Stages, OpStages, Exists, jobRows, appRows, locals, staff, Goto, Holds

\* No step writes a value outside the types.
LEMMA TypeStep == IInv /\ [Next]_vars => (TypeOK /\ StaffTypes)'
<1> SUFFICES ASSUME IInv, [Next]_vars PROVE (TypeOK /\ StaffTypes)'
  OBVIOUS
<1> USE DEF IInv, TypeOK, StaffTypes
<1>1. ASSUME NEW a \in Submissions, NEW j \in Jobs, NEW e \in Emails,
             Submit(a, j, e)
      PROVE  (TypeOK /\ StaffTypes)'
  BY <1>1 DEF Submit
<1>2. ASSUME NEW a \in Submissions, SelectJob(a) PROVE (TypeOK /\ StaffTypes)'
  <2>1. target[a] \in Jobs
    BY <1>2 DEF SelectJob, LocalsInv
  <2>2. QED
    BY <1>2, <2>1 DEF SelectJob
<1>3. ASSUME NEW a \in Submissions, SelectCandidate(a) PROVE (TypeOK /\ StaffTypes)'
  BY <1>3 DEF SelectCandidate, Known
<1>4. ASSUME NEW a \in Submissions,
             CheckExisting(a) \/ UploadRefused(a) \/ ParseOk(a)
      PROVE  (TypeOK /\ StaffTypes)'
  BY <1>4 DEF CheckExisting, UploadRefused, ParseOk
<1>5. ASSUME NEW a \in Submissions, SaveResume(a) \/ ParseRefused(a) PROVE (TypeOK /\ StaffTypes)'
  BY <1>5 DEF SaveResume, ParseRefused
<1>6. ASSUME NEW a \in Submissions, InsertRows(a) PROVE (TypeOK /\ StaffTypes)'
  BY <1>6 DEF InsertRows
<1>7. ASSUME NEW a \in Submissions, ApplyCommit(a) PROVE (TypeOK /\ StaffTypes)'
  BY <1>7 DEF ApplyCommit
<1>8. ASSUME NEW a \in Submissions, AbortApply(a) PROVE (TypeOK /\ StaffTypes)'
  BY <1>8 DEF AbortApply
<1>9. ASSUME NEW j \in Jobs, NEW o \in Orgs, CreateJob(j, o) PROVE (TypeOK /\ StaffTypes)'
  BY <1>9 DEF CreateJob
<1>10. ASSUME NEW s \in Ops, NEW o \in Orgs, NEW j \in Jobs, NEW v \in Present,
             BeginUpdate(s, o, j, v)
      PROVE  (TypeOK /\ StaffTypes)'
  BY <1>10 DEF BeginUpdate, Load, OrgJobs
<1>11. ASSUME NEW s \in Ops, NEW o \in Orgs, NEW j \in Jobs,
             BeginDelete(s, o, j)
      PROVE  (TypeOK /\ StaffTypes)'
  BY <1>11 DEF BeginDelete, Load, OrgJobs
<1>12. ASSUME NEW s \in Ops, NEW o \in Orgs, NEW a \in Submissions, NEW v \in Statuses,
             BeginStatus(s, o, a, v)
      PROVE  (TypeOK /\ StaffTypes)'
  BY <1>12 DEF BeginStatus, Load, OrgApplications
<1>13. ASSUME NEW s \in Ops, UpdateCommit(s) PROVE (TypeOK /\ StaffTypes)'
  <2>1. opOn[s] \in Jobs /\ opValue[s] \in Present
    BY <1>13 DEF UpdateCommit, StaffInv
  <2>2. job' \in [Jobs -> Present \cup {"absent", "deleted"}]
    BY <1>13, <2>1 DEF UpdateCommit
  <2>3. QED
    BY <1>13, <2>2 DEF UpdateCommit, Finish
<1>14. ASSUME NEW s \in Ops, DeleteCount(s) \/ AbortOp(s) PROVE (TypeOK /\ StaffTypes)'
  BY <1>14 DEF DeleteCount, AbortOp, Finish
<1>15. ASSUME NEW s \in Ops, DeleteCommit(s) PROVE (TypeOK /\ StaffTypes)'
  <2>1. opOn[s] \in Jobs
    BY <1>15 DEF DeleteCommit, StaffInv
  <2>2. QED
    BY <1>15, <2>1 DEF DeleteCommit, Finish
<1>16. ASSUME NEW s \in Ops, StatusCommit(s) PROVE (TypeOK /\ StaffTypes)'
  <2>1. /\ opOn[s] \in Submissions /\ opValue[s] \in Statuses
        /\ opRead[s] \in Statuses \cup {"SUBMITTED"}
    BY <1>16 DEF StatusCommit, StaffInv
  <2>2. status' \in [Submissions -> Statuses \cup {"absent", "SUBMITTED", "deleted"}]
    BY <1>16, <2>1 DEF StatusCommit
  <2>3. trail' \in [Submissions -> Seq((Statuses \cup {"SUBMITTED", "deleted"}) \X Statuses)]
    BY <1>16, <2>1 DEF StatusCommit
  <2>4. Finish(s, "done") \/ Finish(s, "failed")
    BY <1>16 DEF StatusCommit
  <2>5. opPc' \in [Ops -> OpStages] /\ StaffTypes'
    BY <2>4 DEF Finish
  <2>6. QED
    BY <1>16, <2>2, <2>3, <2>4, <2>5 DEF StatusCommit, Finish
<1>17. CASE UNCHANGED vars
  BY <1>17 DEF vars
<1>18. QED
  BY <1>1, <1>2, <1>3, <1>4, <1>5, <1>6, <1>7, <1>8,
     <1>9, <1>10, <1>11, <1>12, <1>13, <1>14, <1>15, <1>16, <1>17
  DEF Next, Arrival, ServeApply, ServeOp

\* A job that was created keeps its organization; it may be deleted, but is not absent again.
JobsKept == \A j \in Jobs : job[j] # "absent" => job'[j] # "absent" /\ jobOrg'[j] = jobOrg[j]

\* A job has an organization from its creation on.
LEMMA JobsStep == IInv /\ [Next]_vars => JobsInv' /\ JobsKept
<1> SUFFICES ASSUME IInv, [Next]_vars PROVE JobsInv' /\ JobsKept
  OBVIOUS
<1> USE DEF IInv, TypeOK, StaffTypes, JobsInv, JobsKept
<1>1. ASSUME NEW a \in Submissions, NEW j \in Jobs, NEW e \in Emails,
             Submit(a, j, e)
      PROVE  JobsInv' /\ JobsKept
  BY <1>1 DEF Submit
<1>2. ASSUME NEW a \in Submissions, SelectJob(a) PROVE JobsInv' /\ JobsKept
  BY <1>2 DEF SelectJob
<1>3. ASSUME NEW a \in Submissions, SelectCandidate(a) PROVE JobsInv' /\ JobsKept
  BY <1>3 DEF SelectCandidate, Known
<1>4. ASSUME NEW a \in Submissions,
             CheckExisting(a) \/ UploadRefused(a) \/ ParseOk(a)
      PROVE  JobsInv' /\ JobsKept
  BY <1>4 DEF CheckExisting, UploadRefused, ParseOk
<1>5. ASSUME NEW a \in Submissions, SaveResume(a) \/ ParseRefused(a) PROVE JobsInv' /\ JobsKept
  BY <1>5 DEF SaveResume, ParseRefused
<1>6. ASSUME NEW a \in Submissions, InsertRows(a) PROVE JobsInv' /\ JobsKept
  BY <1>6 DEF InsertRows
<1>7. ASSUME NEW a \in Submissions, ApplyCommit(a) PROVE JobsInv' /\ JobsKept
  BY <1>7 DEF ApplyCommit
<1>8. ASSUME NEW a \in Submissions, AbortApply(a) PROVE JobsInv' /\ JobsKept
  BY <1>8 DEF AbortApply
<1>9. ASSUME NEW j \in Jobs, NEW o \in Orgs, CreateJob(j, o) PROVE JobsInv' /\ JobsKept
  BY <1>9 DEF CreateJob
<1>10. ASSUME NEW s \in Ops, NEW o \in Orgs, NEW j \in Jobs, NEW v \in Present,
             BeginUpdate(s, o, j, v)
      PROVE  JobsInv' /\ JobsKept
  BY <1>10 DEF BeginUpdate, Load, OrgJobs
<1>11. ASSUME NEW s \in Ops, NEW o \in Orgs, NEW j \in Jobs,
             BeginDelete(s, o, j)
      PROVE  JobsInv' /\ JobsKept
  BY <1>11 DEF BeginDelete, Load, OrgJobs
<1>12. ASSUME NEW s \in Ops, NEW o \in Orgs, NEW a \in Submissions, NEW v \in Statuses,
             BeginStatus(s, o, a, v)
      PROVE  JobsInv' /\ JobsKept
  BY <1>12 DEF BeginStatus, Load, OrgApplications
<1>13. ASSUME NEW s \in Ops, UpdateCommit(s) PROVE JobsInv' /\ JobsKept
  <2>1. opOn[s] \in Jobs /\ opValue[s] \in Present
    BY <1>13 DEF UpdateCommit, StaffInv
  <2>2. QED
    BY <1>13, <2>1 DEF UpdateCommit
<1>14. ASSUME NEW s \in Ops, DeleteCount(s) \/ AbortOp(s) PROVE JobsInv' /\ JobsKept
  BY <1>14 DEF DeleteCount, AbortOp, Finish
<1>15. ASSUME NEW s \in Ops, DeleteCommit(s) PROVE JobsInv' /\ JobsKept
  <2>1. opOn[s] \in Jobs /\ job[opOn[s]] # "absent"
    BY <1>15 DEF DeleteCommit, StaffInv
  <2>2. job' = [job EXCEPT ![opOn[s]] = "deleted"] /\ jobOrg' = jobOrg
    BY <1>15 DEF DeleteCommit
  <2>3. \A j \in Jobs : job'[j] \in {job[j], "deleted"}
    BY <2>1, <2>2
  <2>4. \A j \in Jobs : job[j] = "absent" => job'[j] = "absent"
    BY <2>1, <2>2
  <2>5. QED
    BY <2>2, <2>3, <2>4
<1>16. ASSUME NEW s \in Ops, StatusCommit(s) PROVE JobsInv' /\ JobsKept
  BY <1>16 DEF StatusCommit, Finish
<1>17. CASE UNCHANGED vars
  BY <1>17 DEF vars
<1>18. QED
  BY <1>1, <1>2, <1>3, <1>4, <1>5, <1>6, <1>7, <1>8,
     <1>9, <1>10, <1>11, <1>12, <1>13, <1>14, <1>15, <1>16, <1>17
  DEF Next, Arrival, ServeApply, ServeOp

\* What a submission has read is not taken back by anyone else.
LEMMA LocalsStep == IInv /\ [Next]_vars => LocalsInv'
<1> SUFFICES ASSUME IInv, [Next]_vars PROVE LocalsInv'
  OBVIOUS
<1> USE JobsStep DEF IInv, TypeOK, JobsKept, LocalsInv, Placed, Matched
<1>1. ASSUME NEW a \in Submissions, NEW j \in Jobs, NEW e \in Emails,
             Submit(a, j, e)
      PROVE  LocalsInv'
  <2>1. a \notin candidates
    BY <1>1 DEF Submit, RowsInv
  <2>2. QED
    BY <1>1, <2>1 DEF Submit
<1>2. ASSUME NEW a \in Submissions, SelectJob(a) PROVE LocalsInv'
  <2>1. a \notin candidates /\ target[a] \in Jobs
    BY <1>2 DEF SelectJob, RowsInv
  <2>2. CASE job[target[a]] = "open"
    <3>1. /\ org' = [org EXCEPT ![a] = jobOrg[target[a]]]
          /\ pc' = [pc EXCEPT ![a] = "select_candidate"]
          /\ UNCHANGED <<target, email, cand, candidates, job, jobOrg>>
      BY <1>2, <2>2 DEF SelectJob
    <3>2. ASSUME NEW b \in Submissions, pc'[b] \in Matched
          PROVE  pc[b] \in Matched /\ cand[b] # a
      BY <2>1, <3>1, <3>2, <1>2 DEF SelectJob
    <3>3. \A b \in Submissions : pc'[b] \in Placed => org'[b] = jobOrg[target[b]]
      BY <2>1, <3>1
    <3>4. \A b \in Submissions : pc'[b] \in Matched =>
            /\ cand[b] \in candidates \cup {b}
            /\ org'[cand[b]] = org'[b] /\ email[cand[b]] = email[b]
      BY <3>1, <3>2
    <3>5. \A b \in Submissions : pc'[b] = "idle" <=> pc[b] = "idle"
      BY <1>2, <3>1 DEF SelectJob
    <3>6. QED
      BY <3>1, <3>3, <3>4, <3>5
  <2>3. CASE job[target[a]] # "open"
    BY <1>2, <2>3 DEF SelectJob
  <2>4. QED
    BY <2>2, <2>3
<1>3. ASSUME NEW a \in Submissions, SelectCandidate(a) PROVE LocalsInv'
  BY <1>3 DEF SelectCandidate, Known
<1>4. ASSUME NEW a \in Submissions,
             CheckExisting(a) \/ UploadRefused(a) \/ ParseOk(a)
      PROVE  LocalsInv'
  BY <1>4 DEF CheckExisting, UploadRefused, ParseOk
<1>5. ASSUME NEW a \in Submissions, SaveResume(a) \/ ParseRefused(a) PROVE LocalsInv'
  <2>1. \A b \in Submissions :
          pc'[b] = pc[b] \/ pc'[b] \in {"refused", "failed"} \/ (pc[b] = "save" /\ pc'[b] = "parse")
    BY <1>5 DEF SaveResume, ParseRefused
  <2>2. UNCHANGED <<target, org, email, cand, candidates, job, jobOrg>>
    BY <1>5 DEF SaveResume, ParseRefused
  <2>3. \A b \in Submissions : pc[b] = "idle" => pc'[b] = "idle"
    BY <1>5 DEF SaveResume, ParseRefused
  <2>4. QED
    BY <2>1, <2>2, <2>3
<1>6. ASSUME NEW a \in Submissions, InsertRows(a) PROVE LocalsInv'
  BY <1>6 DEF InsertRows
<1>7. ASSUME NEW a \in Submissions, ApplyCommit(a) PROVE LocalsInv'
  BY <1>7 DEF ApplyCommit
<1>8. ASSUME NEW a \in Submissions, AbortApply(a) PROVE LocalsInv'
  BY <1>8 DEF AbortApply
<1>9. ASSUME NEW j \in Jobs, NEW o \in Orgs, CreateJob(j, o) PROVE LocalsInv'
  BY <1>9 DEF CreateJob
<1>10. ASSUME NEW s \in Ops, NEW o \in Orgs, NEW j \in Jobs, NEW v \in Present,
             BeginUpdate(s, o, j, v)
      PROVE  LocalsInv'
  BY <1>10 DEF BeginUpdate, Load, OrgJobs
<1>11. ASSUME NEW s \in Ops, NEW o \in Orgs, NEW j \in Jobs, BeginDelete(s, o, j) PROVE LocalsInv'
  BY <1>11 DEF BeginDelete, Load, OrgJobs
<1>12. ASSUME NEW s \in Ops, NEW o \in Orgs, NEW a \in Submissions, NEW v \in Statuses,
             BeginStatus(s, o, a, v)
      PROVE  LocalsInv'
  BY <1>12 DEF BeginStatus, Load, OrgApplications
<1>13. ASSUME NEW s \in Ops, UpdateCommit(s) PROVE LocalsInv'
  BY <1>13 DEF UpdateCommit, Finish
<1>14. ASSUME NEW s \in Ops, DeleteCount(s) \/ AbortOp(s) PROVE LocalsInv'
  BY <1>14 DEF DeleteCount, AbortOp, Finish
<1>15. ASSUME NEW s \in Ops, DeleteCommit(s) PROVE LocalsInv'
  BY <1>15 DEF DeleteCommit, Finish
<1>16. ASSUME NEW s \in Ops, StatusCommit(s) PROVE LocalsInv'
  BY <1>16 DEF StatusCommit, Finish
<1>17. CASE UNCHANGED vars
  BY <1>17 DEF vars
<1>18. QED
  BY <1>1, <1>2, <1>3, <1>4, <1>5, <1>6, <1>7, <1>8,
     <1>9, <1>10, <1>11, <1>12, <1>13, <1>14, <1>15, <1>16, <1>17
  DEF Next, Arrival, ServeApply, ServeOp

\* Only the submission itself writes its rows, in one COMMIT.
LEMMA RowsStep == IInv /\ [Next]_vars => RowsInv'
<1> SUFFICES ASSUME IInv, [Next]_vars PROVE RowsInv'
  OBVIOUS
<1> USE DEF IInv, TypeOK, RowsInv
<1>1. ASSUME NEW a \in Submissions, NEW j \in Jobs, NEW e \in Emails,
             Submit(a, j, e)
      PROVE  RowsInv'
  BY <1>1 DEF Submit
<1>2. ASSUME NEW a \in Submissions, SelectJob(a) PROVE RowsInv'
  BY <1>2 DEF SelectJob
<1>3. ASSUME NEW a \in Submissions, SelectCandidate(a) PROVE RowsInv'
  BY <1>3 DEF SelectCandidate, Known
<1>4. ASSUME NEW a \in Submissions,
             CheckExisting(a) \/ UploadRefused(a) \/ ParseOk(a)
      PROVE  RowsInv'
  BY <1>4 DEF CheckExisting, UploadRefused, ParseOk
<1>5. ASSUME NEW a \in Submissions, SaveResume(a) \/ ParseRefused(a) PROVE RowsInv'
  BY <1>5 DEF SaveResume, ParseRefused
<1>6. ASSUME NEW a \in Submissions, InsertRows(a) PROVE RowsInv'
  BY <1>6 DEF InsertRows
<1>7. ASSUME NEW a \in Submissions, ApplyCommit(a) PROVE RowsInv'
  <2>1. cand[a] \in candidates \cup {a} /\ pc[a] = "commit"
    BY <1>7 DEF ApplyCommit, LocalsInv, Matched, Placed
  <2>2. candidates' = IF cand[a] = a THEN candidates \cup {a} ELSE candidates
    BY <1>7 DEF ApplyCommit
  <2>3. /\ cand[a] \in candidates'
        /\ candidates \subseteq candidates' /\ candidates' \subseteq candidates \cup {a}
    BY <2>1, <2>2
  <2>4. QED
    BY <1>7, <2>1, <2>3 DEF ApplyCommit
<1>8. ASSUME NEW a \in Submissions, AbortApply(a) PROVE RowsInv'
  BY <1>8 DEF AbortApply
<1>9. ASSUME NEW j \in Jobs, NEW o \in Orgs, CreateJob(j, o) PROVE RowsInv'
  BY <1>9 DEF CreateJob
<1>10. ASSUME NEW s \in Ops, NEW o \in Orgs, NEW j \in Jobs, NEW v \in Present,
             BeginUpdate(s, o, j, v)
      PROVE  RowsInv'
  BY <1>10 DEF BeginUpdate, Load, OrgJobs
<1>11. ASSUME NEW s \in Ops, NEW o \in Orgs, NEW j \in Jobs, BeginDelete(s, o, j) PROVE RowsInv'
  BY <1>11 DEF BeginDelete, Load, OrgJobs
<1>12. ASSUME NEW s \in Ops, NEW o \in Orgs, NEW a \in Submissions, NEW v \in Statuses,
             BeginStatus(s, o, a, v)
      PROVE  RowsInv'
  BY <1>12 DEF BeginStatus, Load, OrgApplications
<1>13. ASSUME NEW s \in Ops, UpdateCommit(s) PROVE RowsInv'
  BY <1>13 DEF UpdateCommit, Finish
<1>14. ASSUME NEW s \in Ops, DeleteCount(s) \/ AbortOp(s) PROVE RowsInv'
  BY <1>14 DEF DeleteCount, AbortOp, Finish
<1>15. ASSUME NEW s \in Ops, DeleteCommit(s) PROVE RowsInv'
  BY <1>15 DEF DeleteCommit, Finish
<1>16. ASSUME NEW s \in Ops, StatusCommit(s) PROVE RowsInv'
  <2>1. opOn[s] \in Submissions /\ opValue[s] \in Statuses
    BY <1>16 DEF StatusCommit, StaffInv
  <2>2. \A b \in Submissions : status'[b] = status[b] \/ (Exists(b) /\ status'[b] # "absent")
    BY <1>16, <2>1, NamesAssumption DEF StatusCommit
  <2>3. UNCHANGED <<pc, candidates, resumes, submitted, cand>>
    BY <1>16 DEF StatusCommit
  <2>4. QED
    BY <2>2, <2>3
<1>17. CASE UNCHANGED vars
  BY <1>17 DEF vars
<1>18. QED
  BY <1>1, <1>2, <1>3, <1>4, <1>5, <1>6, <1>7, <1>8,
     <1>9, <1>10, <1>11, <1>12, <1>13, <1>14, <1>15, <1>16, <1>17
  DEF Next, Arrival, ServeApply, ServeOp

\* Only the submission itself writes and deletes its file.
LEMMA FilesStep == IInv /\ [Next]_vars => FilesInv'
<1> SUFFICES ASSUME IInv, [Next]_vars PROVE FilesInv'
  OBVIOUS
<1> USE DEF IInv, TypeOK, FilesInv
<1>1. ASSUME NEW a \in Submissions, NEW j \in Jobs, NEW e \in Emails,
             Submit(a, j, e)
      PROVE  FilesInv'
  BY <1>1 DEF Submit
<1>2. ASSUME NEW a \in Submissions, SelectJob(a) PROVE FilesInv'
  BY <1>2 DEF SelectJob
<1>3. ASSUME NEW a \in Submissions, SelectCandidate(a) PROVE FilesInv'
  BY <1>3 DEF SelectCandidate, Known
<1>4. ASSUME NEW a \in Submissions,
             CheckExisting(a) \/ UploadRefused(a) \/ ParseOk(a)
      PROVE  FilesInv'
  BY <1>4 DEF CheckExisting, UploadRefused, ParseOk
<1>5. ASSUME NEW a \in Submissions, SaveResume(a) \/ ParseRefused(a) PROVE FilesInv'
  <2>1. CASE SaveResume(a)
    <3>1. pc[a] = "save" /\ pc'[a] \in {"parse", "failed"} /\ files' = files \cup {a}
      BY <2>1 DEF SaveResume
    <3>2. \A b \in Submissions : b # a => pc'[b] = pc[b]
      BY <2>1 DEF SaveResume
    <3>3. QED
      BY <3>1, <3>2
  <2>2. CASE ParseRefused(a)
    BY <2>2 DEF ParseRefused
  <2>3. QED
    BY <1>5, <2>1, <2>2
<1>6. ASSUME NEW a \in Submissions, InsertRows(a) PROVE FilesInv'
  BY <1>6 DEF InsertRows
<1>7. ASSUME NEW a \in Submissions, ApplyCommit(a) PROVE FilesInv'
  BY <1>7 DEF ApplyCommit
<1>8. ASSUME NEW a \in Submissions, AbortApply(a) PROVE FilesInv'
  BY <1>8 DEF AbortApply
<1>9. ASSUME NEW j \in Jobs, NEW o \in Orgs, CreateJob(j, o) PROVE FilesInv'
  BY <1>9 DEF CreateJob
<1>10. ASSUME NEW s \in Ops, NEW o \in Orgs, NEW j \in Jobs, NEW v \in Present,
             BeginUpdate(s, o, j, v)
      PROVE  FilesInv'
  BY <1>10 DEF BeginUpdate, Load, OrgJobs
<1>11. ASSUME NEW s \in Ops, NEW o \in Orgs, NEW j \in Jobs, BeginDelete(s, o, j) PROVE FilesInv'
  BY <1>11 DEF BeginDelete, Load, OrgJobs
<1>12. ASSUME NEW s \in Ops, NEW o \in Orgs, NEW a \in Submissions, NEW v \in Statuses,
             BeginStatus(s, o, a, v)
      PROVE  FilesInv'
  BY <1>12 DEF BeginStatus, Load, OrgApplications
<1>13. ASSUME NEW s \in Ops, UpdateCommit(s) PROVE FilesInv'
  BY <1>13 DEF UpdateCommit, Finish
<1>14. ASSUME NEW s \in Ops, DeleteCount(s) \/ AbortOp(s) PROVE FilesInv'
  BY <1>14 DEF DeleteCount, AbortOp, Finish
<1>15. ASSUME NEW s \in Ops, DeleteCommit(s) PROVE FilesInv'
  BY <1>15 DEF DeleteCommit, Finish
<1>16. ASSUME NEW s \in Ops, StatusCommit(s) PROVE FilesInv'
  BY <1>16 DEF StatusCommit, Finish
<1>17. CASE UNCHANGED vars
  BY <1>17 DEF vars
<1>18. QED
  BY <1>1, <1>2, <1>3, <1>4, <1>5, <1>6, <1>7, <1>8,
     <1>9, <1>10, <1>11, <1>12, <1>13, <1>14, <1>15, <1>16, <1>17
  DEF Next, Arrival, ServeApply, ServeOp

\* A step in which no application begins to hold keeps KeyInv, if jobs stand.
LEMMA KeysKept ==
  ASSUME IInv, UNCHANGED <<target, cand>>,
         \A a \in Submissions :
           Holds(a)' => Holds(a) /\ (job[target[a]] \in Present => job'[target[a]] \in Present)
  PROVE  KeyInv'
BY DEF IInv, KeyInv, SameKey

\* The unique key and the foreign key protect an application.
LEMMA KeyStep == IInv /\ [Next]_vars => KeyInv'
<1> SUFFICES ASSUME IInv, [Next]_vars PROVE KeyInv'
  OBVIOUS
<1> USE DEF IInv, TypeOK, KeyInv, SameKey
<1>1. ASSUME NEW a \in Submissions, NEW j \in Jobs, NEW e \in Emails,
             Submit(a, j, e)
      PROVE  KeyInv'
  <2>1. ~Holds(a) /\ ~Holds(a)'
    BY <1>1 DEF Submit, RowsInv
  <2>2. \A b \in Submissions : b # a => Holds(b)' = Holds(b)
    BY <1>1 DEF Submit
  <2>3. QED
    BY <1>1, <2>1, <2>2 DEF Submit
<1>2. ASSUME NEW a \in Submissions, SelectJob(a) PROVE KeyInv'
  <2>1. UNCHANGED <<target, cand, status, job>>
    BY <1>2 DEF SelectJob
  <2>2. \A b \in Submissions : pc'[b] = "commit" => pc[b] = "commit"
    BY <1>2 DEF SelectJob
  <2>3. QED
    BY <2>1, <2>2, KeysKept
<1>3. ASSUME NEW a \in Submissions, SelectCandidate(a) PROVE KeyInv'
  <2>1. ~Holds(a) /\ ~Holds(a)'
    BY <1>3 DEF SelectCandidate, RowsInv
  <2>2. \A b \in Submissions : b # a => Holds(b)' = Holds(b)
    BY <1>3 DEF SelectCandidate
  <2>3. QED
    BY <1>3, <2>1, <2>2 DEF SelectCandidate, Known
<1>4. ASSUME NEW a \in Submissions,
             CheckExisting(a) \/ UploadRefused(a) \/ ParseOk(a)
      PROVE  KeyInv'
  <2>1. UNCHANGED <<target, cand, status, job>>
    BY <1>4 DEF CheckExisting, UploadRefused, ParseOk
  <2>2. \A b \in Submissions : pc'[b] = "commit" => pc[b] = "commit"
    BY <1>4 DEF CheckExisting, UploadRefused, ParseOk
  <2>3. QED
    BY <2>1, <2>2, KeysKept
<1>5. ASSUME NEW a \in Submissions, SaveResume(a) \/ ParseRefused(a) PROVE KeyInv'
  <2>1. UNCHANGED <<target, cand, status, job>>
    BY <1>5 DEF SaveResume, ParseRefused
  <2>2. \A b \in Submissions : pc'[b] = "commit" => pc[b] = "commit"
    BY <1>5 DEF SaveResume, ParseRefused
  <2>3. QED
    BY <2>1, <2>2, KeysKept
<1>6. ASSUME NEW a \in Submissions, InsertRows(a) PROVE KeyInv'
  <2>1. CASE pc'[a] = "commit"
    <3>1. /\ job[target[a]] \in Present
          /\ \A b \in Submissions : Exists(b) \/ pc[b] = "commit" => ~SameKey(a, b)
      BY <1>6, <2>1 DEF InsertRows
    <3>2. UNCHANGED <<target, cand, status, job>> /\ \A b \in Submissions : b # a => pc'[b] = pc[b]
      BY <1>6 DEF InsertRows
    <3>3. QED
      BY <3>1, <3>2
  <2>2. CASE pc'[a] # "commit"
    <3>1. UNCHANGED <<target, cand, status, job>>
          /\ \A b \in Submissions : pc'[b] = "commit" => pc[b] = "commit"
      BY <1>6, <2>2 DEF InsertRows
    <3>2. QED
      BY <3>1, KeysKept
  <2>3. QED
    BY <2>1, <2>2
<1>7. ASSUME NEW a \in Submissions, ApplyCommit(a) PROVE KeyInv'
  BY <1>7 DEF ApplyCommit
<1>8. ASSUME NEW a \in Submissions, AbortApply(a) PROVE KeyInv'
  <2>1. UNCHANGED <<target, cand, status, job>>
    BY <1>8 DEF AbortApply
  <2>2. \A b \in Submissions : pc'[b] = "commit" => pc[b] = "commit"
    BY <1>8 DEF AbortApply
  <2>3. QED
    BY <2>1, <2>2, KeysKept
<1>9. ASSUME NEW j \in Jobs, NEW o \in Orgs, CreateJob(j, o) PROVE KeyInv'
  BY <1>9 DEF CreateJob
<1>10. ASSUME NEW s \in Ops, NEW o \in Orgs, NEW j \in Jobs, NEW v \in Present,
             BeginUpdate(s, o, j, v)
      PROVE  KeyInv'
  <2>1. UNCHANGED <<target, cand, status, job>>
    BY <1>10 DEF BeginUpdate, Load
  <2>2. \A b \in Submissions : pc'[b] = "commit" => pc[b] = "commit"
    BY <1>10 DEF BeginUpdate, Load
  <2>3. QED
    BY <2>1, <2>2, KeysKept
<1>11. ASSUME NEW s \in Ops, NEW o \in Orgs, NEW j \in Jobs, BeginDelete(s, o, j) PROVE KeyInv'
  <2>1. UNCHANGED <<target, cand, status, job>>
    BY <1>11 DEF BeginDelete, Load
  <2>2. \A b \in Submissions : pc'[b] = "commit" => pc[b] = "commit"
    BY <1>11 DEF BeginDelete, Load
  <2>3. QED
    BY <2>1, <2>2, KeysKept
<1>12. ASSUME NEW s \in Ops, NEW o \in Orgs, NEW a \in Submissions, NEW v \in Statuses,
             BeginStatus(s, o, a, v)
      PROVE  KeyInv'
  <2>1. UNCHANGED <<target, cand, status, job>>
    BY <1>12 DEF BeginStatus, Load
  <2>2. \A b \in Submissions : pc'[b] = "commit" => pc[b] = "commit"
    BY <1>12 DEF BeginStatus, Load
  <2>3. QED
    BY <2>1, <2>2, KeysKept
<1>13. ASSUME NEW s \in Ops, UpdateCommit(s) PROVE KeyInv'
  <2>1. opOn[s] \in Jobs /\ opValue[s] \in Present
    BY <1>13 DEF UpdateCommit, StaffInv
  <2>2. \A q \in Jobs : job[q] \in Present => job'[q] \in Present
    BY <1>13, <2>1 DEF UpdateCommit
  <2>3. \A a \in Submissions : Holds(a) => target[a] \in Jobs
    BY DEF LocalsInv, RowsInv
  <2>4. UNCHANGED <<target, cand, status, pc>>
    BY <1>13 DEF UpdateCommit
  <2>5. QED
    BY <2>2, <2>3, <2>4, KeysKept
<1>14. ASSUME NEW s \in Ops, DeleteCount(s) \/ AbortOp(s) PROVE KeyInv'
  <2>1. UNCHANGED <<target, cand, status, job>>
    BY <1>14 DEF DeleteCount, AbortOp, Finish
  <2>2. \A b \in Submissions : pc'[b] = "commit" => pc[b] = "commit"
    BY <1>14 DEF DeleteCount, AbortOp, Finish
  <2>3. QED
    BY <2>1, <2>2, KeysKept
<1>15. ASSUME NEW s \in Ops, DeleteCommit(s) PROVE KeyInv'
  BY <1>15 DEF DeleteCommit, Finish
<1>16. ASSUME NEW s \in Ops, StatusCommit(s) PROVE KeyInv'
  <2>1. \A b \in Submissions : status'[b] = status[b] \/ Exists(b)
    BY <1>16 DEF StatusCommit
  <2>2. UNCHANGED <<target, cand, job, pc>>
    BY <1>16 DEF StatusCommit
  <2>3. QED
    BY <2>1, <2>2, KeysKept
<1>17. CASE UNCHANGED vars
  BY <1>17 DEF vars
<1>18. QED
  BY <1>1, <1>2, <1>3, <1>4, <1>5, <1>6, <1>7, <1>8,
     <1>9, <1>10, <1>11, <1>12, <1>13, <1>14, <1>15, <1>16, <1>17
  DEF Next, Arrival, ServeApply, ServeOp

\* The row of a staff request stays what it was when it was loaded.
LEMMA StaffStep == IInv /\ [Next]_vars => StaffInv'
<1> SUFFICES ASSUME IInv, [Next]_vars PROVE StaffInv'
  OBVIOUS
<1> USE JobsStep DEF IInv, TypeOK, StaffTypes, StaffInv, JobsKept
<1>1. ASSUME NEW a \in Submissions, NEW j \in Jobs, NEW e \in Emails,
             Submit(a, j, e)
      PROVE  StaffInv'
  BY <1>1 DEF Submit
<1>2. ASSUME NEW a \in Submissions, SelectJob(a) PROVE StaffInv'
  BY <1>2 DEF SelectJob
<1>3. ASSUME NEW a \in Submissions, SelectCandidate(a) PROVE StaffInv'
  BY <1>3 DEF SelectCandidate, Known
<1>4. ASSUME NEW a \in Submissions,
             CheckExisting(a) \/ UploadRefused(a) \/ ParseOk(a)
      PROVE  StaffInv'
  BY <1>4 DEF CheckExisting, UploadRefused, ParseOk
<1>5. ASSUME NEW a \in Submissions, SaveResume(a) \/ ParseRefused(a) PROVE StaffInv'
  BY <1>5 DEF SaveResume, ParseRefused
<1>6. ASSUME NEW a \in Submissions, InsertRows(a) PROVE StaffInv'
  BY <1>6 DEF InsertRows
<1>7. ASSUME NEW a \in Submissions, ApplyCommit(a) PROVE StaffInv'
  BY <1>7 DEF ApplyCommit
<1>8. ASSUME NEW a \in Submissions, AbortApply(a) PROVE StaffInv'
  BY <1>8 DEF AbortApply
<1>9. ASSUME NEW j \in Jobs, NEW o \in Orgs, CreateJob(j, o) PROVE StaffInv'
  BY <1>9 DEF CreateJob
<1>10. ASSUME NEW s \in Ops, NEW o \in Orgs, NEW j \in Jobs, NEW v \in Present,
             BeginUpdate(s, o, j, v)
      PROVE  StaffInv'
  BY <1>10 DEF BeginUpdate, Load, OrgJobs
<1>11. ASSUME NEW s \in Ops, NEW o \in Orgs, NEW j \in Jobs, BeginDelete(s, o, j) PROVE StaffInv'
  BY <1>11 DEF BeginDelete, Load, OrgJobs
<1>12. ASSUME NEW s \in Ops, NEW o \in Orgs, NEW a \in Submissions, NEW v \in Statuses,
             BeginStatus(s, o, a, v)
      PROVE  StaffInv'
  BY <1>12 DEF BeginStatus, Load, OrgApplications
<1>13. ASSUME NEW s \in Ops, UpdateCommit(s) PROVE StaffInv'
  BY <1>13 DEF UpdateCommit, Finish
<1>14. ASSUME NEW s \in Ops, DeleteCount(s) \/ AbortOp(s) PROVE StaffInv'
  BY <1>14 DEF DeleteCount, AbortOp, Finish
<1>15. ASSUME NEW s \in Ops, DeleteCommit(s) PROVE StaffInv'
  BY <1>15 DEF DeleteCommit, Finish
<1>16. ASSUME NEW s \in Ops, StatusCommit(s) PROVE StaffInv'
  <2>1. opOn[s] \in Submissions /\ opValue[s] \in Statuses /\ status[opOn[s]] # "absent"
    BY <1>16 DEF StatusCommit
  <2>2. \A b \in Submissions : status[b] # "absent" => status'[b] # "absent"
    BY <1>16, <2>1, NamesAssumption DEF StatusCommit
  <2>3. UNCHANGED <<job, opOn>> /\ (Finish(s, "done") \/ Finish(s, "failed"))
    BY <1>16 DEF StatusCommit, Finish
  <2>4. \A t \in Ops : t # s =>
          opPc'[t] = opPc[t] /\ opValue'[t] = opValue[t] /\ opRead'[t] = opRead[t]
    BY <2>3 DEF Finish
  <2>5. opPc'[s] \in {"done", "failed"}
    BY <2>3 DEF Finish
  <2>6. opOn[s] \notin Jobs
    BY <2>1, NamesAssumption
  <2>7. QED
    BY <2>1, <2>2, <2>3, <2>4, <2>5, <2>6
<1>17. CASE UNCHANGED vars
  BY <1>17 DEF vars
<1>18. QED
  BY <1>1, <1>2, <1>3, <1>4, <1>5, <1>6, <1>7, <1>8,
     <1>9, <1>10, <1>11, <1>12, <1>13, <1>14, <1>15, <1>16, <1>17
  DEF Next, Arrival, ServeApply, ServeOp

\* A status that was set is in the trail.
Traced(a) ==
  Exists(a) /\ status[a] # "SUBMITTED" => \E i \in DOMAIN trail[a] : trail[a][i][2] = status[a]

\* A change of status appends its event; the events before it stay where they are.
LEMMA StatusAudited == ASSUME IInv, NEW s \in Ops, StatusCommit(s) PROVE DecisionsAudited'
<1> DEFINE x == opOn[s]
           event == <<opRead[s], opValue[s]>>
<1>1. /\ x \in Submissions /\ opValue[s] \in Statuses /\ status[x] # "absent"
      /\ opRead[s] \in Statuses \cup {"SUBMITTED"} /\ opValue[s] \notin {"absent", "deleted"}
  BY NamesAssumption DEF StatusCommit, IInv, StaffInv
<1>2. /\ status \in [Submissions -> Statuses \cup {"absent", "SUBMITTED", "deleted"}]
      /\ trail \in [Submissions -> Seq((Statuses \cup {"SUBMITTED", "deleted"}) \X Statuses)]
      /\ \A a \in Submissions : Traced(a)
  BY DEF IInv, TypeOK, DecisionsAudited, Traced
<1>3. \/ UNCHANGED status /\ (trail' = trail \/ trail' = [trail EXCEPT ![x] = Append(@, event)])
      \/ /\ Exists(x) /\ status' = [status EXCEPT ![x] = opValue[s]]
         /\ trail' = [trail EXCEPT ![x] = Append(@, event)]
  BY <1>1 DEF StatusCommit
<1>4. trail[x] \in Seq((Statuses \cup {"SUBMITTED", "deleted"}) \X Statuses)
  BY <1>1, <1>2
<1>5. /\ \A i \in DOMAIN trail[x] :
           i \in DOMAIN Append(trail[x], event) /\ Append(trail[x], event)[i] = trail[x][i]
      /\ Len(trail[x]) + 1 \in DOMAIN Append(trail[x], event)
      /\ Append(trail[x], event)[Len(trail[x]) + 1] = event
  BY <1>1, <1>4
<1>6. event[2] = opValue[s]
  OBVIOUS
<1> HIDE DEF event, x
<1>7. ASSUME NEW a \in Submissions PROVE Traced(a)'
  <2>1. CASE a # x
    <3>1. status'[a] = status[a] /\ trail'[a] = trail[a]
      BY <1>2, <1>3, <2>1
    <3>2. QED
      BY <1>2, <3>1 DEF Traced
  <2>2. CASE a = x /\ status' = status
    <3>1. trail'[a] \in {trail[x], Append(trail[x], event)}
      BY <1>1, <1>2, <1>3, <2>2
    <3>2. \A i \in DOMAIN trail[a] : i \in DOMAIN trail'[a] /\ trail'[a][i] = trail[a][i]
      BY <1>5, <2>2, <3>1
    <3>3. QED
      BY <1>2, <2>2, <3>2 DEF Traced
  <2>3. CASE a = x /\ status' # status
    <3>1. trail'[a] = Append(trail[x], event) /\ status'[a] = opValue[s]
      BY <1>1, <1>2, <1>3, <2>3
    <3>2. QED
      BY <1>5, <1>6, <3>1 DEF Traced
  <2>4. QED
    BY <2>1, <2>2, <2>3
<1>8. \A a \in Submissions :
        /\ a \in submitted <=> status[a] # "absent"
        /\ status[a] = "deleted" => \E t \in Ops : <<t, target[a]>> \in removed
  BY DEF IInv, DecisionsAudited
<1>9. submitted' = submitted /\ target' = target /\ removed' = removed
  BY DEF StatusCommit
<1>10. \A a \in Submissions :
         /\ status[a] = "absent" <=> status'[a] = "absent"
         /\ status'[a] = "deleted" => status[a] = "deleted"
  BY <1>1, <1>2, <1>3
<1>11. ASSUME NEW a \in Submissions
       PROVE  /\ a \in submitted' <=> status'[a] # "absent"
              /\ status'[a] = "deleted" => \E t \in Ops : <<t, target'[a]>> \in removed'
  BY <1>8, <1>9, <1>10
<1>12. QED
  BY <1>7, <1>11 DEF DecisionsAudited, Traced

\* Most steps touch neither the applications nor their events.
LEMMA AuditKept ==
  DecisionsAudited /\ UNCHANGED <<target, status, submitted, trail, removed>> => DecisionsAudited'
BY DEF DecisionsAudited

\* A COMMIT takes its event with it.
LEMMA AuditStep == IInv /\ [Next]_vars => DecisionsAudited'
<1> SUFFICES ASSUME IInv, [Next]_vars PROVE DecisionsAudited'
  OBVIOUS
<1>0. DecisionsAudited
  BY DEF IInv
<1> DEFINE Untouched == UNCHANGED <<target, status, submitted, trail, removed>>
<1>1. ASSUME NEW a \in Submissions, NEW j \in Jobs, NEW e \in Emails,
             Submit(a, j, e)
      PROVE  DecisionsAudited'
  <2>1. status[a] = "absent"
    BY <1>1 DEF IInv, Submit, RowsInv
  <2>2. QED
    BY <1>0, <1>1, <2>1 DEF Submit, IInv, TypeOK, DecisionsAudited
<1>2. ASSUME NEW a \in Submissions,
             SelectJob(a) \/ SelectCandidate(a) \/ CheckExisting(a) \/ UploadRefused(a)
               \/ SaveResume(a) \/ ParseRefused(a) \/ ParseOk(a) \/ InsertRows(a) \/ AbortApply(a)
      PROVE  Untouched
  BY <1>2 DEF SelectJob, SelectCandidate, CheckExisting, UploadRefused, SaveResume, ParseRefused,
              ParseOk, InsertRows, AbortApply
<1>3. ASSUME NEW a \in Submissions, ApplyCommit(a) PROVE DecisionsAudited'
  BY <1>3 DEF ApplyCommit, IInv, TypeOK, DecisionsAudited
<1>4. ASSUME NEW j \in Jobs, NEW o \in Orgs, CreateJob(j, o) PROVE Untouched
  BY <1>4 DEF CreateJob
<1>5. ASSUME NEW s \in Ops, NEW o \in Orgs, NEW j \in Jobs, NEW v \in Present,
             BeginUpdate(s, o, j, v)
      PROVE  Untouched
  BY <1>5 DEF BeginUpdate, Load
<1>6. ASSUME NEW s \in Ops, NEW o \in Orgs, NEW j \in Jobs, BeginDelete(s, o, j) PROVE Untouched
  BY <1>6 DEF BeginDelete, Load
<1>7. ASSUME NEW s \in Ops, NEW o \in Orgs, NEW a \in Submissions, NEW v \in Statuses,
             BeginStatus(s, o, a, v)
      PROVE  Untouched
  BY <1>7 DEF BeginStatus, Load
<1>8. ASSUME NEW s \in Ops, UpdateCommit(s) \/ DeleteCount(s) \/ AbortOp(s) PROVE Untouched
  BY <1>8 DEF UpdateCommit, DeleteCount, AbortOp, Finish
<1>9. ASSUME NEW s \in Ops, DeleteCommit(s) PROVE DecisionsAudited'
  BY <1>9 DEF DeleteCommit, Finish, IInv, TypeOK, DecisionsAudited
<1>10. ASSUME NEW s \in Ops, StatusCommit(s) PROVE DecisionsAudited'
  BY <1>10, StatusAudited
<1>11. UNCHANGED vars => Untouched
  BY DEF vars
<1>12. Untouched => DecisionsAudited'
  BY <1>0, AuditKept
<1> HIDE DEF Untouched
<1>13. QED
  BY <1>1, <1>2, <1>3, <1>4, <1>5, <1>6, <1>7, <1>8, <1>9, <1>10, <1>11, <1>12
  DEF Next, Arrival, ServeApply, ServeOp

\* What a staff request has loaded keeps its organization.
LEMMA TenantStep == IInv /\ [Next]_vars => TenantIsolation'
<1> SUFFICES ASSUME IInv, [Next]_vars PROVE TenantIsolation'
  OBVIOUS
<1> USE JobsStep, NamesAssumption DEF IInv, TypeOK, JobsKept, TenantIsolation
<1>1. ASSUME NEW a \in Submissions, NEW j \in Jobs, NEW e \in Emails,
             Submit(a, j, e)
      PROVE  TenantIsolation'
  BY <1>1 DEF Submit
<1>2. ASSUME NEW a \in Submissions, SelectJob(a) PROVE TenantIsolation'
  <2>1. status[a] = "absent"
    BY <1>2 DEF SelectJob, RowsInv
  <2>2. \A b \in Submissions : b # a => org'[b] = org[b]
    BY <1>2 DEF SelectJob
  <2>3. UNCHANGED <<opPc, opOn, opOrg, jobOrg>>
    BY <1>2 DEF SelectJob
  <2>4. QED
    BY <2>1, <2>2, <2>3 DEF StaffInv
<1>3. ASSUME NEW a \in Submissions, SelectCandidate(a) PROVE TenantIsolation'
  BY <1>3 DEF SelectCandidate, Known
<1>4. ASSUME NEW a \in Submissions,
             CheckExisting(a) \/ UploadRefused(a) \/ ParseOk(a)
      PROVE  TenantIsolation'
  BY <1>4 DEF CheckExisting, UploadRefused, ParseOk
<1>5. ASSUME NEW a \in Submissions, SaveResume(a) \/ ParseRefused(a) PROVE TenantIsolation'
  BY <1>5 DEF SaveResume, ParseRefused
<1>6. ASSUME NEW a \in Submissions, InsertRows(a) PROVE TenantIsolation'
  BY <1>6 DEF InsertRows
<1>7. ASSUME NEW a \in Submissions, ApplyCommit(a) PROVE TenantIsolation'
  BY <1>7 DEF ApplyCommit
<1>8. ASSUME NEW a \in Submissions, AbortApply(a) PROVE TenantIsolation'
  BY <1>8 DEF AbortApply
<1>9. ASSUME NEW j \in Jobs, NEW o \in Orgs, CreateJob(j, o) PROVE TenantIsolation'
  <2>1. \A s \in Ops :
          opPc[s] \in {"update", "count", "delete", "set_status", "done"} /\ opOn[s] \in Jobs
          => opOn[s] # j
    BY <1>9 DEF CreateJob, StaffInv
  <2>2. QED
    BY <1>9, <2>1 DEF CreateJob
<1>10. ASSUME NEW s \in Ops, NEW o \in Orgs, NEW j \in Jobs, NEW v \in Present,
             BeginUpdate(s, o, j, v)
      PROVE  TenantIsolation'
  BY <1>10 DEF BeginUpdate, Load, OrgJobs
<1>11. ASSUME NEW s \in Ops, NEW o \in Orgs, NEW j \in Jobs,
             BeginDelete(s, o, j)
      PROVE  TenantIsolation'
  BY <1>11 DEF BeginDelete, Load, OrgJobs
<1>12. ASSUME NEW s \in Ops, NEW o \in Orgs, NEW a \in Submissions, NEW v \in Statuses,
             BeginStatus(s, o, a, v)
      PROVE  TenantIsolation'
  BY <1>12 DEF BeginStatus, Load, OrgApplications
<1>13. ASSUME NEW s \in Ops, UpdateCommit(s) PROVE TenantIsolation'
  BY <1>13 DEF UpdateCommit, Finish
<1>14. ASSUME NEW s \in Ops, DeleteCount(s) \/ AbortOp(s) PROVE TenantIsolation'
  BY <1>14 DEF DeleteCount, AbortOp, Finish
<1>15. ASSUME NEW s \in Ops, DeleteCommit(s) PROVE TenantIsolation'
  BY <1>15 DEF DeleteCommit, Finish
<1>16. ASSUME NEW s \in Ops, StatusCommit(s) PROVE TenantIsolation'
  BY <1>16 DEF StatusCommit, Finish
<1>17. CASE UNCHANGED vars
  BY <1>17 DEF vars
<1>18. QED
  BY <1>1, <1>2, <1>3, <1>4, <1>5, <1>6, <1>7, <1>8,
     <1>9, <1>10, <1>11, <1>12, <1>13, <1>14, <1>15, <1>16, <1>17
  DEF Next, Arrival, ServeApply, ServeOp

\* IInv is inductive.
LEMMA Invariance == IInv /\ [Next]_vars => IInv'
BY TypeStep, JobsStep, LocalsStep, RowsStep, FilesStep, KeyStep, StaffStep, AuditStep, TenantStep
   DEF IInv

\* What it says of committed rows: the application has its candidate, resume and file since
\* it was committed, and its job because it holds it.
LEMMA Consequences == IInv => ReferencesIntact /\ OneApplicationPerCandidate
<1> SUFFICES ASSUME IInv PROVE ReferencesIntact /\ OneApplicationPerCandidate
  OBVIOUS
<1>1. \A a \in Submissions : Exists(a) => pc[a] = "done"
  BY DEF IInv, RowsInv
<1>2. ReferencesIntact
  BY <1>1 DEF IInv, RowsInv, LocalsInv, FilesInv, KeyInv, Placed, Matched, ReferencesIntact
<1>3. OneApplicationPerCandidate
  BY DEF IInv, KeyInv, OneApplicationPerCandidate
<1>4. QED
  BY <1>2, <1>3

\* In the initial states nothing is there but jobs.
LEMMA Initially == Init => IInv
<1> SUFFICES ASSUME Init PROVE IInv
  OBVIOUS
<1> USE DEF Init
<1>1. TypeOK /\ StaffTypes
  BY DEF TypeOK, StaffTypes
<1>2. JobsInv /\ LocalsInv /\ RowsInv /\ FilesInv /\ KeyInv /\ StaffInv
  BY NoneAssumption DEF JobsInv, LocalsInv, RowsInv, FilesInv, KeyInv, StaffInv, Placed, Matched
<1>3. DecisionsAudited /\ TenantIsolation
  BY DEF DecisionsAudited, TenantIsolation
<1>4. QED
  BY <1>1, <1>2, <1>3 DEF IInv

LEMMA Inductive == Spec => []IInv
<1>1. Init => IInv
  BY Initially
<1>2. IInv /\ [Next]_vars => IInv'
  BY Invariance
<1>3. QED
  BY <1>1, <1>2, PTL DEF Spec

\* Every variable of the recruitment tables, of the disk and of the requests has its type.
THEOREM TypeCorrect == Spec => []TypeOK
<1>1. IInv => TypeOK
  BY DEF IInv
<1>2. QED
  BY <1>1, Inductive, PTL

\* However submissions, deletions and failures interleave, what an application refers to
\* exists and is of one organization, and a refused upload leaves no file.
THEOREM ReferencesHold == Spec => []ReferencesIntact
<1>1. IInv => ReferencesIntact
  BY Consequences
<1>2. QED
  BY <1>1, Inductive, PTL

\* A candidate has at most one application to a job, although the check and the insert are
\* an upload apart.
THEOREM ApplicationsAreUnique == Spec => []OneApplicationPerCandidate
<1>1. IInv => OneApplicationPerCandidate
  BY Consequences
<1>2. QED
  BY <1>1, Inductive, PTL

\* Every application, every status it has and every cascade that removed it has its event.
THEOREM DecisionsAreAudited == Spec => []DecisionsAudited
<1>1. IInv => DecisionsAudited
  BY DEF IInv
<1>2. QED
  BY <1>1, Inductive, PTL

\* The organization that a staff request was checked against is still that of the row it
\* writes.
THEOREM TenantsAreIsolated == Spec => []TenantIsolation
<1>1. IInv => TenantIsolation
  BY DEF IInv
<1>2. QED
  BY <1>1, Inductive, PTL
=============================================================================
