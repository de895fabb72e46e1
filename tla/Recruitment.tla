----------------------------- MODULE Recruitment -----------------------------
(***************************************************************************)
(* Jobs, candidates, resumes, applications and the resume files on disk:   *)
(* backend/app/api/v1/jobs.py and applications.py over the schema of       *)
(* alembic 0002, services/file_storage.py and services/tenant.py.          *)
(*                                                                         *)
(* Requests interleave between their SQL statements, at READ COMMITTED:    *)
(* staff requests run in threads, and submissions (async def) yield while  *)
(* they save the upload in one process and anywhere between two processes. *)
(* The candidate, resume, application and file a submission writes carry   *)
(* its own name, since each gets a fresh UUID.                             *)
(*                                                                         *)
(* At this commit save_resume fails on every upload after it has written   *)
(* the file: it passes StoredResume a field mime_type it does not have     *)
(* (file_storage.py:202-210).  Repaired = {} is the source as it is;       *)
(* "mime_type" \in Repaired gives StoredResume that field, which is what   *)
(* as_model_kwargs reads it for, and nothing else.                         *)
(***************************************************************************)
EXTENDS Naturals, Sequences, FiniteSets, SequencesExt

CONSTANTS
  Orgs,        \* organizations
  Jobs,        \* job rows
  Submissions, \* POST /applications/public/{job_id} requests
  Ops,         \* requests of staff members
  Emails,      \* normalised candidate addresses
  Statuses,    \* the statuses a recruiter may set (ApplicationStatusUpdate)
  Repaired,    \* defects taken as repaired
  None         \* no value

ASSUME RepairedAssumption == Repaired \subseteq {"mime_type"}
ASSUME NoneAssumption == None \notin Submissions \cup Jobs \cup Orgs \cup Emails
\* Rows of different tables, and statuses that are the absence of a row.
ASSUME NamesAssumption == Jobs \cap Submissions = {} /\ Statuses \cap {"absent", "deleted"} = {}

VARIABLES
  \* ------------------------------------------------ committed database rows
  job,         \* "absent", "hidden", "open" (PUBLISHED and public) or "deleted"
  jobOrg,      \* jobs.organization_id
  candidates,  \* candidates; email[c] is its address, org[c] its organization
  resumes,     \* resumes; resume r is of candidate cand[r] and file r
  status,      \* applications.status, or "absent", or "deleted"
  submitted,   \* APPLICATION_SUBMITTED events
  trail,       \* APPLICATION_STATUS_CHANGED events of an application, in order
  removed,     \* JOB_DELETED events: <<staff request, job>>
  \* --------------------------------------------------------------- the disk
  files,       \* resume files in the storage directory
  \* ------------------------------------------------- locals of submissions
  pc, target, org, email, cand,
  \* ---------------------------------------------- locals of staff requests
  opPc, opOrg, opOn, opValue, opRead

jobRows == <<job, jobOrg, removed>>
appRows == <<candidates, resumes, status, submitted>>
locals  == <<target, org, email, cand>>
staff   == <<opPc, opOrg, opOn, opValue, opRead>>
vars    == <<jobRows, appRows, trail, files, pc, locals, staff>>

-----------------------------------------------------------------------------
Present == {"hidden", "open"}
Ended   == {"done", "refused", "failed"}
Stages  == {"idle", "select_job", "select_candidate", "check_existing", "save",
            "parse", "insert", "commit"} \cup Ended
OpStages == {"idle", "update", "count", "delete", "set_status"} \cup Ended

Exists(a) == status[a] \notin {"absent", "deleted"}

\* Some jobs may have been created and published before the behaviour begins.
Init ==
  /\ jobOrg \in [Jobs -> Orgs \cup {None}]
  /\ job        = [j \in Jobs |-> IF jobOrg[j] = None THEN "absent" ELSE "open"]
  /\ candidates = {} /\ resumes = {} /\ submitted = {} /\ removed = {} /\ files = {}
  /\ status     = [a \in Submissions |-> "absent"]
  /\ trail      = [a \in Submissions |-> <<>>]
  /\ pc         = [a \in Submissions |-> "idle"]
  /\ target     = [a \in Submissions |-> None]
  /\ org        = [a \in Submissions |-> None]
  /\ email      = [a \in Submissions |-> None]
  /\ cand       = [a \in Submissions |-> None]
  /\ opPc       = [s \in Ops |-> "idle"]
  /\ opOrg      = [s \in Ops |-> None]
  /\ opOn       = [s \in Ops |-> None]
  /\ opValue    = [s \in Ops |-> None]
  /\ opRead     = [s \in Ops |-> None]

-----------------------------------------------------------------------------
(* apply: POST /applications/public/{job_id} *)

Goto(a, stage) == pc' = [pc EXCEPT ![a] = stage]

Submit(a, j, e) ==
  /\ pc[a] = "idle"
  /\ job[j] # "absent"
  /\ target' = [target EXCEPT ![a] = j]
  /\ email' = [email EXCEPT ![a] = e]
  /\ Goto(a, "select_job")
  /\ UNCHANGED <<jobRows, appRows, trail, files, org, cand, staff>>

SelectJob(a) ==
  /\ pc[a] = "select_job"
  /\ IF job[target[a]] = "open"
       THEN /\ org' = [org EXCEPT ![a] = jobOrg[target[a]]]
            /\ Goto(a, "select_candidate")
       ELSE /\ Goto(a, "refused")
            /\ UNCHANGED org
  /\ UNCHANGED <<jobRows, appRows, trail, files, target, email, cand, staff>>

Known(a) == {c \in candidates : org[c] = org[a] /\ email[c] = email[a]}

\* The candidate of this address, or a new row.  candidates has no unique key,
\* so several rows may match, and the query does not say which comes first.
SelectCandidate(a) ==
  /\ pc[a] = "select_candidate"
  /\ \E c \in IF Known(a) = {} THEN {a} ELSE Known(a) : cand' = [cand EXCEPT ![a] = c]
  /\ Goto(a, "check_existing")
  /\ UNCHANGED <<jobRows, appRows, trail, files, target, org, email, staff>>

SameKey(a, b) == target[a] = target[b] /\ cand[a] = cand[b]

CheckExisting(a) ==
  /\ pc[a] = "check_existing"
  /\ Goto(a, IF \E b \in Submissions : Exists(b) /\ SameKey(a, b) THEN "refused" ELSE "save")
  /\ UNCHANGED <<jobRows, appRows, trail, files, locals, staff>>

\* save_resume refuses the upload before it writes anything.
UploadRefused(a) ==
  /\ pc[a] = "save"
  /\ Goto(a, "refused")
  /\ UNCHANGED <<jobRows, appRows, trail, files, locals, staff>>

\* save_resume writes the file, then builds its StoredResume.
SaveResume(a) ==
  /\ pc[a] = "save"
  /\ files' = files \cup {a}
  /\ Goto(a, IF "mime_type" \in Repaired THEN "parse" ELSE "failed")
  /\ UNCHANGED <<jobRows, appRows, trail, locals, staff>>

\* extract_resume_text raises: the file is deleted again (unless the unlink
\* itself fails, which is logged only; not modelled).
ParseRefused(a) ==
  /\ pc[a] = "parse"
  /\ files' = files \ {a}
  /\ Goto(a, "refused")
  /\ UNCHANGED <<jobRows, appRows, trail, locals, staff>>

ParseOk(a) ==
  /\ pc[a] = "parse"
  /\ Goto(a, "insert")
  /\ UNCHANGED <<jobRows, appRows, trail, files, locals, staff>>

\* Fault: applications has no unique constraint and no foreign key to jobs.
InsertRowsUnchecked(a) ==
  /\ pc[a] = "insert"
  /\ Goto(a, "commit")
  /\ UNCHANGED <<jobRows, appRows, trail, files, locals, staff>>

\* The flushes of the resume and of the application.  uq(job_id, candidate_id)
\* waits for an uncommitted application of the same pair and fails on a
\* committed one; the foreign key fails when the job is gone.
InsertRows(a) ==
  /\ pc[a] = "insert"
  /\ ~ \E b \in Submissions : pc[b] = "commit" /\ SameKey(a, b)
  /\ Goto(a, IF \/ job[target[a]] \notin Present
                \/ \E b \in Submissions : Exists(b) /\ SameKey(a, b)
             THEN "failed" ELSE "commit")
  /\ UNCHANGED <<jobRows, appRows, trail, files, locals, staff>>

\* Fault: the submission is not audited.
ApplyCommitUnaudited(a) ==
  /\ pc[a] = "commit"
  /\ candidates' = IF cand[a] = a THEN candidates \cup {a} ELSE candidates
  /\ resumes' = resumes \cup {a}
  /\ status' = [status EXCEPT ![a] = "SUBMITTED"]
  /\ Goto(a, "done")
  /\ UNCHANGED <<jobRows, submitted, trail, files, locals, staff>>

ApplyCommit(a) ==
  /\ pc[a] = "commit"
  /\ candidates' = IF cand[a] = a THEN candidates \cup {a} ELSE candidates
  /\ resumes' = resumes \cup {a}
  /\ status' = [status EXCEPT ![a] = "SUBMITTED"]
  /\ submitted' = submitted \cup {a}
  /\ Goto(a, "done")
  /\ UNCHANGED <<jobRows, trail, files, locals, staff>>

\* The process or its connection dies; the rows are rolled back, files are not.
AbortApply(a) ==
  /\ pc[a] \notin Ended \cup {"idle"}
  /\ Goto(a, "failed")
  /\ UNCHANGED <<jobRows, appRows, trail, files, locals, staff>>

-----------------------------------------------------------------------------
(* Staff requests on jobs. *)

\* create: one transaction that reads nothing.
CreateJob(j, o) ==
  /\ job[j] = "absent"
  /\ job' = [job EXCEPT ![j] = "hidden"]
  /\ jobOrg' = [jobOrg EXCEPT ![j] = o]
  /\ UNCHANGED <<removed, appRows, trail, files, pc, locals, staff>>

\* What get_org_job and get_org_application find for a member of o.
OrgJobs(o) == {j \in Jobs : job[j] \in Present /\ jobOrg[j] = o}

\* Fault: any organization's application is found.
AnyApplications(o) == {a \in Submissions : Exists(a)}

OrgApplications(o) == {a \in Submissions : Exists(a) /\ org[a] = o}

\* A staff request loads its row; without one it is refused (404).
Load(s, o, found, x, stage) ==
  /\ opPc[s] = "idle"
  /\ opOrg' = [opOrg EXCEPT ![s] = o]
  /\ opOn' = [opOn EXCEPT ![s] = x]
  /\ opPc' = [opPc EXCEPT ![s] = IF x \in found THEN stage ELSE "refused"]
  /\ UNCHANGED <<jobRows, appRows, trail, files, pc, locals>>

BeginUpdate(s, o, j, v) ==
  /\ job[j] # "absent"
  /\ Load(s, o, OrgJobs(o), j, "update")
  /\ opValue' = [opValue EXCEPT ![s] = v]
  /\ opRead' = [opRead EXCEPT ![s] = job[j]]

BeginDelete(s, o, j) ==
  /\ job[j] # "absent"
  /\ Load(s, o, OrgJobs(o), j, "count")
  /\ UNCHANGED <<opValue, opRead>>

\* The locals of a request go with it.
Finish(s, stage) ==
  /\ opPc' = [opPc EXCEPT ![s] = stage]
  /\ opValue' = [opValue EXCEPT ![s] = IF stage \in Ended THEN None ELSE @]
  /\ opRead' = [opRead EXCEPT ![s] = IF stage \in Ended THEN None ELSE @]
  /\ UNCHANGED <<opOrg, opOn>>

\* The value of a column differs from the one the request has read.
Changes(s) == opValue[s] # opRead[s]

\* UPDATE of the changed columns, COMMIT and refresh.  On a row that is gone the
\* UPDATE or, when nothing changes, the refresh raises.
UpdateCommit(s) ==
  /\ opPc[s] = "update"
  /\ IF job[opOn[s]] \in Present
       THEN /\ job' = IF Changes(s) THEN [job EXCEPT ![opOn[s]] = opValue[s]] ELSE job
            /\ Finish(s, "done")
       ELSE /\ Finish(s, "failed")
            /\ UNCHANGED job
  /\ UNCHANGED <<jobOrg, removed, appRows, trail, files, pc, locals>>

DeleteCount(s) ==
  /\ opPc[s] = "count"
  /\ Finish(s, IF \E a \in Submissions : Exists(a) /\ target[a] = opOn[s]
               THEN "refused" ELSE "delete")
  /\ UNCHANGED <<jobRows, appRows, trail, files, pc, locals>>

\* Fault: the foreign key does not cascade.
DeleteCommitOnly(s) ==
  /\ opPc[s] = "delete"
  /\ job' = [job EXCEPT ![opOn[s]] = "deleted"]
  /\ removed' = removed \cup {<<s, opOn[s]>>}
  /\ Finish(s, "done")
  /\ UNCHANGED <<jobOrg, appRows, trail, files, pc, locals>>

\* Fault: the DELETE waits for committed applications as well.
DeleteCommitWaits(s) ==
  /\ opPc[s] = "delete"
  /\ ~ \E a \in Submissions : (pc[a] = "commit" \/ Exists(a)) /\ target[a] = opOn[s]
  /\ job' = [job EXCEPT ![opOn[s]] = "deleted"]
  /\ removed' = removed \cup {<<s, opOn[s]>>}
  /\ Finish(s, "done")
  /\ UNCHANGED <<jobOrg, appRows, trail, files, pc, locals>>

\* DELETE and COMMIT.  The DELETE waits for the key-share lock an uncommitted
\* application holds on the job, then cascades to the applications it finds
\* committed.  Deleting a row that is already gone is not an error.
DeleteCommit(s) ==
  LET j == opOn[s] IN
  /\ opPc[s] = "delete"
  /\ ~ \E a \in Submissions : pc[a] = "commit" /\ target[a] = j
  /\ job' = [job EXCEPT ![j] = "deleted"]
  /\ status' = [a \in Submissions |->
                  IF Exists(a) /\ target[a] = j THEN "deleted" ELSE status[a]]
  /\ removed' = removed \cup {<<s, j>>}
  /\ Finish(s, "done")
  /\ UNCHANGED <<jobOrg, candidates, resumes, submitted, trail, files, pc, locals>>

-----------------------------------------------------------------------------
(* update_status: PATCH /applications/{application_id}/status *)

BeginStatus(s, o, a, v) ==
  /\ status[a] # "absent"
  /\ Load(s, o, OrgApplications(o), a, "set_status")
  /\ opValue' = [opValue EXCEPT ![s] = v]
  /\ opRead' = [opRead EXCEPT ![s] = status[a]]

\* Fault: the event has its two statuses the wrong way round.
StatusCommitSwapped(s) ==
  LET a == opOn[s] IN
  /\ opPc[s] = "set_status"
  /\ Exists(a)
  /\ status' = [status EXCEPT ![a] = opValue[s]]
  /\ trail' = [trail EXCEPT ![a] = Append(@, <<opValue[s], opRead[s]>>)]
  /\ Finish(s, "done")
  /\ UNCHANGED <<jobRows, candidates, resumes, submitted, files, pc, locals>>

\* The ORM sends an UPDATE only when the value differs from the one it read.  On
\* a row that is gone that UPDATE raises and nothing is committed; without an
\* UPDATE the event is committed and the reload raises.
StatusCommit(s) ==
  LET a == opOn[s] IN
  /\ opPc[s] = "set_status"
  /\ IF Exists(a)
       THEN /\ status' = IF Changes(s) THEN [status EXCEPT ![a] = opValue[s]] ELSE status
            /\ Finish(s, "done")
       ELSE /\ Finish(s, "failed")
            /\ UNCHANGED status
  /\ trail' = IF Exists(a) \/ ~Changes(s)
                THEN [trail EXCEPT ![a] = Append(@, <<opRead[s], opValue[s]>>)] ELSE trail
  /\ UNCHANGED <<jobRows, candidates, resumes, submitted, files, pc, locals>>

AbortOp(s) ==
  /\ opPc[s] \notin Ended \cup {"idle"}
  /\ Finish(s, "failed")
  /\ UNCHANGED <<jobRows, appRows, trail, files, pc, locals>>

-----------------------------------------------------------------------------
ServeApply(a) ==
  \/ SelectJob(a) \/ SelectCandidate(a) \/ CheckExisting(a)
  \/ UploadRefused(a) \/ SaveResume(a) \/ ParseRefused(a) \/ ParseOk(a)
  \/ InsertRows(a) \/ ApplyCommit(a)

ServeOp(s) == UpdateCommit(s) \/ DeleteCount(s) \/ DeleteCommit(s) \/ StatusCommit(s)

Arrival ==
  \/ \E a \in Submissions, j \in Jobs, e \in Emails : Submit(a, j, e)
  \/ \E j \in Jobs, o \in Orgs : CreateJob(j, o)
  \/ \E s \in Ops, o \in Orgs, j \in Jobs, v \in Present : BeginUpdate(s, o, j, v)
  \/ \E s \in Ops, o \in Orgs, j \in Jobs : BeginDelete(s, o, j)
  \/ \E s \in Ops, o \in Orgs, a \in Submissions, v \in Statuses : BeginStatus(s, o, a, v)

Next ==
  \/ Arrival
  \/ \E a \in Submissions : ServeApply(a) \/ AbortApply(a)
  \/ \E s \in Ops : ServeOp(s) \/ AbortOp(s)

Spec == Init /\ [][Next]_vars

-----------------------------------------------------------------------------
(* Properties. *)

\* Every variable has its type.
TypeOK ==
  /\ job \in [Jobs -> Present \cup {"absent", "deleted"}]
  /\ jobOrg \in [Jobs -> Orgs \cup {None}]
  /\ candidates \subseteq Submissions /\ resumes \subseteq Submissions
  /\ submitted \subseteq Submissions /\ files \subseteq Submissions
  /\ status \in [Submissions -> Statuses \cup {"absent", "SUBMITTED", "deleted"}]
  /\ trail \in [Submissions -> Seq((Statuses \cup {"SUBMITTED", "deleted"}) \X Statuses)]
  /\ removed \subseteq Ops \X Jobs
  /\ pc \in [Submissions -> Stages]
  /\ target \in [Submissions -> Jobs \cup {None}]
  /\ org \in [Submissions -> Orgs \cup {None}]
  /\ email \in [Submissions -> Emails \cup {None}]
  /\ cand \in [Submissions -> Submissions \cup {None}]
  /\ opPc \in [Ops -> OpStages]
  /\ opOrg \in [Ops -> Orgs \cup {None}]
  /\ opOn \in [Ops -> Jobs \cup Submissions \cup {None}]

\* However submissions and deletions interleave, an application refers to a job,
\* a candidate, a resume and a file that exist, all of one organization, and a
\* submission the handler refuses leaves no file (apply, 121-169).
ReferencesIntact ==
  /\ \A a \in Submissions : Exists(a) =>
       /\ job[target[a]] \in Present /\ jobOrg[target[a]] = org[a]
       /\ cand[a] \in candidates /\ org[cand[a]] = org[a] /\ email[cand[a]] = email[a]
       /\ a \in resumes \cap files
  /\ \A a \in Submissions : pc[a] = "refused" => a \notin files

\* One candidate row never has two applications to one job, although each
\* submission looks for one before it uploads and inserts after (apply, 121-169).
OneApplicationPerCandidate ==
  \A a, b \in Submissions : Exists(a) /\ Exists(b) /\ SameKey(a, b) => a = b

\* Every application and every status it has carries an audit event, and an
\* application whose submission was audited exists until its job is deleted.
DecisionsAudited ==
  \A a \in Submissions :
    /\ a \in submitted <=> status[a] # "absent"
    /\ Exists(a) /\ status[a] # "SUBMITTED" =>
         \E i \in DOMAIN trail[a] : trail[a][i][2] = status[a]
    /\ status[a] = "deleted" => \E s \in Ops : <<s, target[a]>> \in removed

\* A member of one organization changes or deletes nothing of another's, even
\* between the check of the row's organization and the write (tenant.py).
TenantIsolation ==
  \A s \in Ops : opPc[s] \in {"update", "count", "delete", "set_status", "done"} =>
    IF opOn[s] \in Jobs THEN jobOrg[opOn[s]] = opOrg[s] ELSE org[opOn[s]] = opOrg[s]

\* Deletions and inserts that wait for each other's locks never wait in a circle:
\* as long as a request has begun and not ended, the server can take a step for
\* one (DELETE waits for applications, inserts for the key of another insert).
SomeoneProceeds ==
  LET submissions == {a \in Submissions : pc[a] \notin {"idle"} \cup Ended}
      requests    == {s \in Ops : opPc[s] \notin {"idle"} \cup Ended}
  IN  submissions \cup requests # {} =>
        \/ \E a \in submissions : ENABLED ServeApply(a)
        \/ \E s \in requests : ENABLED ServeOp(s)

\* The docstring of delete (jobs.py:290-294): a job with applications is refused,
\* not cascaded, since that "would destroy screening decisions".
DeletionSparesApplications == \A a \in Submissions : status[a] # "deleted"
=============================================================================
