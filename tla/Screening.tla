------------------------------ MODULE Screening ------------------------------
(***************************************************************************)
(* Screening of applications: run_screening (backend/app/api/v1/           *)
(* screening.py) and screen_application (services/screening_service.py)    *)
(* over screening_results (alembic 0003), which has one row per            *)
(* application, and the events of record_screening_decision.               *)
(*                                                                         *)
(* Requests interleave between their SQL statements, at READ COMMITTED.    *)
(* The pipeline (module ScreeningPipeline) is one step with any verdict.   *)
(* A row is named by the request that inserts it.                          *)
(*                                                                         *)
(* At this commit no request gets beyond its first line: screening.py:54   *)
(* passes keyword-only arguments by position, screening_service.py:132     *)
(* passes a field ScreeningState lacks, 202 reads a setting that is not    *)
(* defined, and state.py:138 an attribute ATSResult lacks.  "screening"    *)
(* \in Repaired takes these four lines as corrected.                       *)
(***************************************************************************)
CONSTANTS
  Screenings, \* POST /screening/applications/{id}/run requests
  Apps,       \* applications that exist when the behaviour begins
  Scores,     \* what the scorer may find
  Repaired,   \* slips taken as corrected
  None        \* no value

ASSUME RepairedAssumption == Repaired \subseteq {"screening"}
\* What a run decides; review is None when its bias_check node failed.
Verdicts == [score : Scores, review : BOOLEAN \cup {None}]
\* What a row keeps of it.
Columns  == [score : Scores, review : BOOLEAN]

ASSUME NoneAssumption == None \notin Screenings \cup Apps \cup BOOLEAN \cup Columns

VARIABLES
  present,    \* applications that exist
  row,        \* committed rows of screening_results
  completed,  \* SCREENING_COMPLETED events
  flagged,    \* SCREENING_BIAS_FLAGGED events
  \* ------------------------------------------------------ locals of requests
  pc, app, verdict, seen, read,
  \* ------------------------------------------------------------------ history
  last,       \* the request whose COMMIT was the last on an application
  disturbed   \* requests that another COMMIT came between the read and the write of

tables  == <<present, row, completed, flagged>>
history == <<last, disturbed>>
vars    == <<tables, pc, app, verdict, seen, read, history>>

Ended  == {"done", "refused", "failed"}
Stages == {"idle", "load_job", "pipeline", "select", "flush", "commit", "refresh"} \cup Ended

Init ==
  /\ present = Apps /\ completed = {} /\ flagged = {} /\ disturbed = {}
  /\ row     = [r \in Screenings |-> None]
  /\ pc      = [r \in Screenings |-> "idle"]
  /\ app     = [r \in Screenings |-> None]
  /\ verdict = [r \in Screenings |-> None]
  /\ seen    = [r \in Screenings |-> None]
  /\ read    = [r \in Screenings |-> None]
  /\ last    = [a \in Apps |-> None]

Goto(r, stage) == pc' = [pc EXCEPT ![r] = stage]

RowsOf(a) == {q \in Screenings : row[q] # None /\ app[q] = a}

-----------------------------------------------------------------------------
\* The request arrives and looks for the application in the caller's organization.
LoadApplication(r, a) ==
  /\ pc[r] = "idle"
  /\ app' = [app EXCEPT ![r] = a]
  /\ Goto(r, IF "screening" \notin Repaired THEN "failed"
             ELSE IF a \in present THEN "load_job" ELSE "refused")
  /\ UNCHANGED <<tables, verdict, seen, read, history>>

\* The job of the application; it is gone only when the application is.
LoadJob(r) ==
  /\ pc[r] = "load_job"
  /\ Goto(r, IF app[r] \in present THEN "pipeline" ELSE "refused")
  /\ UNCHANGED <<tables, app, verdict, seen, read, history>>

RunPipeline(r) ==
  /\ pc[r] = "pipeline"
  /\ \E v \in Verdicts : verdict' = [verdict EXCEPT ![r] = v]
  /\ Goto(r, "select")
  /\ UNCHANGED <<tables, app, seen, read, history>>

\* PipelineError: 503.
PipelineFails(r) ==
  /\ pc[r] = "pipeline"
  /\ Goto(r, "failed")
  /\ UNCHANGED <<tables, app, verdict, seen, read, history>>

\* _persist looks for the row it will update.
SelectRow(r) ==
  /\ pc[r] = "select"
  /\ \/ /\ RowsOf(app[r]) = {}
        /\ UNCHANGED <<seen, read>>
     \/ \E q \in RowsOf(app[r]) :
          /\ seen' = [seen EXCEPT ![r] = q]
          /\ read' = [read EXCEPT ![r] = row[q]]
  /\ Goto(r, "flush")
  /\ UNCHANGED <<tables, app, verdict, history>>

Stored(v) == [score |-> v.score, review |-> v.review = TRUE]

\* The columns of the decision whose new value differs from the one the request
\* has read: the ORM sends these only.
Changed(r) == {c \in {"score", "review"} : Stored(verdict[r])[c] # read[r][c]}

Inserting(a) == {q \in Screenings : pc[q] = "commit" /\ app[q] = a /\ seen[q] = None}
Updating(a)  == {q \in Screenings : pc[q] = "commit" /\ app[q] = a /\ seen[q] # None /\ Changed(q) # {}}

\* Fault: screening_results has no unique key.
InsertUnchecked(r) ==
  /\ pc[r] = "flush" /\ seen[r] = None
  /\ Goto(r, IF app[r] \in present THEN "commit" ELSE "failed")
  /\ UNCHANGED <<tables, app, verdict, seen, read, history>>

\* Fault: an INSERT waits for a committed row to go away.
InsertWaits(r) ==
  /\ pc[r] = "flush" /\ seen[r] = None
  /\ Inserting(app[r]) = {} /\ RowsOf(app[r]) = {}
  /\ Goto(r, IF app[r] \in present THEN "commit" ELSE "failed")
  /\ UNCHANGED <<tables, app, verdict, seen, read, history>>

\* The flushed INSERT waits for an uncommitted row of the same application,
\* fails on a committed one, and fails when the application is gone.
Insert(r) ==
  /\ pc[r] = "flush" /\ seen[r] = None
  /\ Inserting(app[r]) = {}
  /\ Goto(r, IF app[r] \in present /\ RowsOf(app[r]) = {} THEN "commit" ELSE "failed")
  /\ UNCHANGED <<tables, app, verdict, seen, read, history>>

\* The flushed UPDATE waits for another one of the row, and matches nothing when
\* the row is gone, which the ORM reports as an error.  With the same decision as
\* before, it depends on processing_ms whether an UPDATE is sent.
Update(r) ==
  /\ pc[r] = "flush" /\ seen[r] # None
  /\ \/ Changed(r) = {} /\ Goto(r, "commit")
     \/ Updating(app[r]) = {} /\ Goto(r, IF row[seen[r]] = None THEN "failed" ELSE "commit")
  /\ UNCHANGED <<tables, app, verdict, seen, read, history>>

\* The committed row after the write of r.
Written(r) ==
  IF seen[r] = None
    THEN [row EXCEPT ![r] = Stored(verdict[r])]
    ELSE IF Changed(r) = {} THEN row
    ELSE [row EXCEPT ![seen[r]] =
            [c \in {"score", "review"} |->
               IF c \in Changed(r) THEN Stored(verdict[r])[c] ELSE @[c]]]

Outdated(r) == {q \in Screenings \ {r} : app[q] = app[r] /\ pc[q] \in {"flush", "commit"}}

\* Fault: the events are recorded after the COMMIT.
CommitBeforeAudit(r) ==
  /\ pc[r] = "commit"
  /\ row' = Written(r)
  /\ last' = [last EXCEPT ![app[r]] = r]
  /\ disturbed' = disturbed \cup Outdated(r)
  /\ Goto(r, "refresh")
  /\ UNCHANGED <<present, completed, flagged, app, verdict, seen, read>>

\* Fault: without a fairness verdict the flag of the row is left as it was.
WrittenKeepsReview(r) ==
  IF seen[r] # None /\ verdict[r].review = None /\ row[seen[r]] # None
    THEN [row EXCEPT ![seen[r]].score = verdict[r].score]
    ELSE Written(r)
CommitKeepsReview(r) ==
  /\ pc[r] = "commit"
  /\ row' = WrittenKeepsReview(r)
  /\ completed' = completed \cup {r}
  /\ flagged' = IF verdict[r].review = TRUE THEN flagged \cup {r} ELSE flagged
  /\ last' = [last EXCEPT ![app[r]] = r]
  /\ disturbed' = disturbed \cup Outdated(r)
  /\ Goto(r, "refresh")
  /\ UNCHANGED <<present, app, verdict, seen, read>>

\* Fault: one event is recorded, the escalation or the completion.
CommitOneEvent(r) ==
  /\ pc[r] = "commit"
  /\ row' = Written(r)
  /\ completed' = IF verdict[r].review = TRUE THEN completed ELSE completed \cup {r}
  /\ flagged' = IF verdict[r].review = TRUE THEN flagged \cup {r} ELSE flagged
  /\ last' = [last EXCEPT ![app[r]] = r]
  /\ disturbed' = disturbed \cup Outdated(r)
  /\ Goto(r, "refresh")
  /\ UNCHANGED <<present, app, verdict, seen, read>>

\* record_screening_decision and the COMMIT.
Commit(r) ==
  /\ pc[r] = "commit"
  /\ row' = Written(r)
  /\ completed' = completed \cup {r}
  /\ flagged' = IF verdict[r].review = TRUE THEN flagged \cup {r} ELSE flagged
  /\ last' = [last EXCEPT ![app[r]] = r]
  /\ disturbed' = disturbed \cup Outdated(r)
  /\ Goto(r, "refresh")
  /\ UNCHANGED <<present, app, verdict, seen, read>>

\* db.refresh reads the row again, in a transaction of its own, and raises when it
\* is gone.
Refresh(r) ==
  LET mine == IF seen[r] = None THEN r ELSE seen[r] IN
  /\ pc[r] = "refresh"
  /\ Goto(r, IF row[mine] = None THEN "failed" ELSE "done")
  /\ UNCHANGED <<tables, app, verdict, seen, read, history>>

Abort(r) ==
  /\ pc[r] \notin Ended \cup {"idle"}
  /\ Goto(r, "failed")
  /\ UNCHANGED <<tables, app, verdict, seen, read, history>>

\* Fault: the result of a deleted application stays.
CascadeKeepsResult(a) ==
  /\ a \in present
  /\ Inserting(a) = {} /\ Updating(a) = {}
  /\ present' = present \ {a}
  /\ UNCHANGED <<row, completed, flagged, pc, app, verdict, seen, read, history>>

\* The deletion of a job reaches the application and its result (the race in
\* Recruitment).  It waits for the locks of uncommitted inserts and updates.
Cascade(a) ==
  /\ a \in present
  /\ Inserting(a) = {} /\ Updating(a) = {}
  /\ present' = present \ {a}
  /\ row' = [q \in Screenings |-> IF app[q] = a THEN None ELSE row[q]]
  /\ UNCHANGED <<completed, flagged, pc, app, verdict, seen, read, history>>

-----------------------------------------------------------------------------
Serve(r) ==
  \/ LoadJob(r) \/ RunPipeline(r) \/ PipelineFails(r) \/ SelectRow(r)
  \/ Insert(r) \/ Update(r) \/ Commit(r) \/ Refresh(r)

Next ==
  \/ \E r \in Screenings, a \in Apps : LoadApplication(r, a)
  \/ \E r \in Screenings : Serve(r) \/ Abort(r)
  \/ \E a \in Apps : Cascade(a)

Spec == Init /\ [][Next]_vars

\* The thread of a request keeps running and its provider calls have time-outs.
FairSpec == Spec /\ \A r \in Screenings : WF_vars(Serve(r))

-----------------------------------------------------------------------------
(* Properties. *)

\* Every variable has its type, and an escalation comes with a completion event.
TypeOK ==
  /\ present \subseteq Apps
  /\ row \in [Screenings -> Columns \cup {None}]
  /\ completed \subseteq Screenings /\ flagged \subseteq completed
  /\ pc \in [Screenings -> Stages]
  /\ app \in [Screenings -> Apps \cup {None}]
  /\ verdict \in [Screenings -> Verdicts \cup {None}]
  /\ seen \in [Screenings -> Screenings \cup {None}]
  /\ read \in [Screenings -> Columns \cup {None}]
  /\ last \in [Apps -> Screenings \cup {None}]
  /\ disturbed \subseteq Screenings

\* However screenings of one application overlap between the SELECT and the write
\* of _persist, the application has one result.
OneResultPerApplication ==
  \A r, q \in Screenings : row[r] # None /\ row[q] # None /\ app[r] = app[q] => r = q

\* A result belongs to an application that exists, also when the application is
\* deleted while it is being screened.
ResultsHaveApplications == \A r \in Screenings : row[r] # None => app[r] \in present

\* Every value a result shows was decided by a screening with an audit event, and a
\* result marked for review has an escalation event: no column comes from a run that
\* failed, was refused or was rolled back.
ResultsAreAudited ==
  \A r \in Screenings : row[r] # None =>
    /\ \E q \in completed : app[q] = app[r] /\ Stored(verdict[q]).score = row[r].score
    /\ \E q \in completed : app[q] = app[r] /\ Stored(verdict[q]).review = row[r].review
    /\ row[r].review => \E q \in flagged : app[q] = app[r]

\* The result is the last decision, complete, unless another screening of the
\* application committed between the read and the write of the last: a re-run
\* leaves nothing of the decision it replaces (_persist, 155-157).
UndisturbedRunIsStored ==
  \A r \in Screenings : row[r] # None /\ last[app[r]] \notin disturbed =>
    row[r] = Stored(verdict[last[app[r]]])

\* Screenings that wait for each other's locks are all answered.
RequestsFinish == \A r \in Screenings : pc[r] # "idle" ~> pc[r] \in Ended

\* docs/SECURITY.md:191-193: "Every decision writes an audit row with the
\* sub-scores, ... the fairness result".  So the decision that a result shows is
\* one of those that were audited.
ResultIsAnAuditedDecision ==
  \A r \in Screenings : row[r] # None =>
    \E q \in completed : app[q] = app[r] /\ row[r] = Stored(verdict[q])
=============================================================================
