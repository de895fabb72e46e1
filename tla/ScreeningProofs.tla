--------------------------- MODULE ScreeningProofs ---------------------------
(***************************************************************************)
(* Proofs about Screening, for every set of requests, applications and     *)
(* scores.                                                                 *)
(*                                                                         *)
(* The gap between the SELECT and the write of _persist is what makes the  *)
(* properties fail to be inductive: IInv says what a request that has read *)
(* may still rely on when it writes.                                       *)
(***************************************************************************)
EXTENDS Screening, TLAPS

\* Which stage has which local; a request has a row and events once it has
\* committed, and what it selected was a row of its own application.
LocalsInv ==
  \A r \in Screenings :
    /\ app[r] = None <=> pc[r] = "idle"
    /\ pc[r] \in {"idle", "load_job", "pipeline", "select"} => seen[r] = None
    /\ pc[r] \in {"select", "flush", "commit", "refresh"} => verdict[r] \in Verdicts
    /\ r \in completed => pc[r] \in {"refresh", "done", "failed"} /\ verdict[r] \in Verdicts
    /\ row[r] # None => pc[r] \in {"refresh", "done", "failed"}
    /\ seen[r] # None => app[seen[r]] = app[r] /\ read[r] \in Columns

\* A row that was selected is still there, or its application is gone.
SeenInv ==
  \A r \in Screenings :
    seen[r] # None /\ row[seen[r]] = None => app[r] \notin present

\* An uncommitted INSERT excludes every other row of its application and keeps the
\* application; an uncommitted UPDATE keeps its row.
WritersInv ==
  \A r \in Screenings : pc[r] = "commit" =>
    /\ seen[r] = None =>
         /\ app[r] \in present
         /\ \A q \in Screenings : app[q] = app[r] => row[q] = None
         /\ Inserting(app[r]) = {r}
    /\ seen[r] # None /\ Changed(r) # {} => row[seen[r]] # None

\* The last decision on an application that has a row was recorded, and a request
\* that nobody disturbed still holds the committed row.
FreshInv ==
  /\ \A r \in Screenings : row[r] # None => last[app[r]] \in completed
  /\ \A r \in Screenings :
       pc[r] \in {"flush", "commit"} /\ r \notin disturbed /\ seen[r] # None
         /\ row[seen[r]] # None => row[seen[r]] = read[r]

IInv ==
  /\ TypeOK /\ LocalsInv /\ SeenInv /\ WritersInv /\ FreshInv
  /\ OneResultPerApplication /\ ResultsHaveApplications /\ ResultsAreAudited
  /\ UndisturbedRunIsStored

USE DEF tables, history, Ended, Stages, Goto

\* What a run decided fits the columns, and does not look like a missing row.
LEMMA StoredType == ASSUME NEW v \in Verdicts
                    PROVE  Stored(v) \in Columns /\ Stored(v) # None
<1>1. v.score \in Scores
  BY DEF Verdicts
<1>2. \A s \in Scores, b \in BOOLEAN : [score |-> s, review |-> b] \in Columns
  BY DEF Columns
<1>3. (v.review = TRUE) \in BOOLEAN
  OBVIOUS
<1>4. Stored(v) \in Columns
  BY <1>1, <1>2, <1>3, Zenon DEF Stored
<1>5. QED
  BY <1>4, NoneAssumption

\* What COMMIT makes of the rows of the application: the inserted row is the decision,
\* an updated one has each column from the decision or from the committed row, and
\* exactly the decision when the committed row is the one that was read.
LEMMA WrittenRows ==
  ASSUME IInv, NEW r \in Screenings, pc[r] = "commit"
  PROVE  /\ Written(r) \in [Screenings -> Columns \cup {None}]
         /\ \A q \in Screenings : Written(r)[q] # row[q] =>
              app[q] = app[r] /\ q = (IF seen[r] = None THEN r ELSE seen[r])
         /\ seen[r] = None => Written(r)[r] = Stored(verdict[r])
         /\ \A q \in Screenings : seen[r] # None => (row[q] = None <=> Written(r)[q] = None)
         /\ \A q \in Screenings : row[q] # None /\ Written(r)[q] # row[q] =>
              /\ Written(r)[q].score \in {row[q].score, Stored(verdict[r]).score}
              /\ Written(r)[q].review \in {row[q].review, Stored(verdict[r]).review}
         /\ seen[r] # None /\ row[seen[r]] # None /\ row[seen[r]] = read[r] =>
              Written(r)[seen[r]] = Stored(verdict[r])
<1>1. /\ verdict[r] \in Verdicts /\ row \in [Screenings -> Columns \cup {None}]
      /\ seen[r] \in Screenings \cup {None}
      /\ Stored(verdict[r]) \in Columns /\ Stored(verdict[r]) # None
  BY StoredType DEF IInv, TypeOK, LocalsInv
<1>2. CASE seen[r] = None
  <2>1. Written(r) = [row EXCEPT ![r] = Stored(verdict[r])]
    BY <1>2 DEF Written
  <2>2. row[r] = None
    BY DEF IInv, LocalsInv
  <2>3. QED
    BY <1>1, <1>2, <2>1, <2>2
<1>3. CASE seen[r] # None /\ Changed(r) = {}
  <2>1. Written(r) = row
    BY <1>3 DEF Written
  <2>2. read[r] \in Columns
    BY <1>3 DEF IInv, LocalsInv
  <2>3. read[r] = Stored(verdict[r])
    BY <1>1, <1>3, <2>2 DEF Changed, Columns
  <2>4. QED
    BY <1>1, <1>3, <2>1, <2>3
<1>4. CASE seen[r] # None /\ Changed(r) # {}
  <2> DEFINE q == seen[r]
             new == [c \in {"score", "review"} |->
                       IF c \in Changed(r) THEN Stored(verdict[r])[c] ELSE row[q][c]]
  <2>1. q \in Screenings /\ row[q] \in Columns /\ row[q] # None
        /\ app[q] = app[r] /\ read[r] \in Columns
    BY <1>1, <1>4 DEF IInv, WritersInv, LocalsInv
  <2>2. Written(r) = [row EXCEPT ![q] = new]
    BY <1>1, <1>4, <2>1 DEF Written
  <2>3. Stored(verdict[r]).score \in Scores /\ Stored(verdict[r]).review \in BOOLEAN
        /\ row[q].score \in Scores /\ row[q].review \in BOOLEAN
    BY <1>1, <2>1 DEF Columns
  <2>4. new = [score |-> new.score, review |-> new.review]
    OBVIOUS
  <2>5. new.score \in {row[q].score, Stored(verdict[r]).score}
        /\ new.review \in {row[q].review, Stored(verdict[r]).review}
    OBVIOUS
  <2>6. new \in Columns /\ new # None
    BY <2>3, <2>4, <2>5, NoneAssumption DEF Columns
  <2>7. row[q] = read[r] => new = Stored(verdict[r])
    BY <1>1, <2>4 DEF Changed, Columns, Stored
  <2> HIDE DEF new
  <2>8. QED
    BY <1>1, <1>4, <2>1, <2>2, <2>5, <2>6, <2>7
<1>5. QED
  BY <1>2, <1>3, <1>4

\* No step writes a value outside the types.
LEMMA TypeStep == IInv /\ [Next]_vars => TypeOK'
<1> SUFFICES ASSUME IInv, [Next]_vars PROVE TypeOK'
  OBVIOUS
<1> USE DEF IInv, TypeOK
<1>1. ASSUME NEW r \in Screenings, NEW a \in Apps, LoadApplication(r, a) PROVE TypeOK'
  BY <1>1 DEF LoadApplication
<1>2. ASSUME NEW r \in Screenings,
             LoadJob(r) \/ PipelineFails(r) \/ Insert(r) \/ Update(r) \/ Refresh(r) \/ Abort(r)
      PROVE  TypeOK'
  BY <1>2 DEF LoadJob, PipelineFails, Insert, Update, Refresh, Abort
<1>3. ASSUME NEW r \in Screenings, RunPipeline(r) PROVE TypeOK'
  BY <1>3 DEF RunPipeline
<1>4. ASSUME NEW r \in Screenings, SelectRow(r) PROVE TypeOK'
  BY <1>4 DEF SelectRow, RowsOf
<1>5. ASSUME NEW r \in Screenings, Commit(r) PROVE TypeOK'
  <2>1. pc[r] = "commit" /\ app[r] \in Apps
    BY <1>5 DEF Commit, LocalsInv
  <2>2. row' \in [Screenings -> Columns \cup {None}]
    BY <1>5, <2>1, WrittenRows DEF Commit
  <2>3. QED
    BY <1>5, <2>1, <2>2 DEF Commit, Outdated
<1>6. ASSUME NEW a \in Apps, Cascade(a) PROVE TypeOK'
  BY <1>6 DEF Cascade
<1>7. CASE UNCHANGED vars
  BY <1>7 DEF vars
<1>8. QED
  BY <1>1, <1>2, <1>3, <1>4, <1>5, <1>6, <1>7 DEF Next, Serve

\* A request keeps what it has read to itself, and writes in its last step only.
LEMMA LocalsStep == IInv /\ [Next]_vars => LocalsInv'
<1> SUFFICES ASSUME IInv, [Next]_vars PROVE LocalsInv'
  OBVIOUS
<1> USE NoneAssumption DEF IInv, TypeOK, LocalsInv
<1>1. ASSUME NEW r \in Screenings, NEW a \in Apps, LoadApplication(r, a) PROVE LocalsInv'
  BY <1>1 DEF LoadApplication
<1>2. ASSUME NEW r \in Screenings,
             LoadJob(r) \/ PipelineFails(r) \/ Insert(r) \/ Update(r) \/ Refresh(r) \/ Abort(r)
      PROVE  LocalsInv'
  BY <1>2 DEF LoadJob, PipelineFails, Insert, Update, Refresh, Abort
<1>3. ASSUME NEW r \in Screenings, RunPipeline(r) PROVE LocalsInv'
  BY <1>3 DEF RunPipeline
<1>4. ASSUME NEW r \in Screenings, SelectRow(r) PROVE LocalsInv'
  <2>1. CASE seen' = seen /\ read' = read
    BY <1>4, <2>1 DEF SelectRow
  <2>2. ASSUME NEW q \in RowsOf(app[r]),
               seen' = [seen EXCEPT ![r] = q], read' = [read EXCEPT ![r] = row[q]]
        PROVE  LocalsInv'
    <3>1. q \in Screenings /\ app[q] = app[r] /\ row[q] \in Columns
      BY <2>2 DEF RowsOf
    <3>2. QED
      BY <1>4, <2>2, <3>1 DEF SelectRow
  <2>3. QED
    BY <1>4, <2>1, <2>2 DEF SelectRow
<1>5. ASSUME NEW r \in Screenings, Commit(r) PROVE LocalsInv'
  <2>1. pc[r] = "commit" /\ verdict[r] \in Verdicts
    BY <1>5 DEF Commit
  <2>2. \A q \in Screenings : row'[q] # None => row[q] # None \/ q = r
    BY <1>5, <2>1, WrittenRows DEF Commit
  <2>3. QED
    BY <1>5, <2>1, <2>2 DEF Commit
<1>6. ASSUME NEW a \in Apps, Cascade(a) PROVE LocalsInv'
  BY <1>6 DEF Cascade
<1>7. CASE UNCHANGED vars
  BY <1>7 DEF vars
<1>8. QED
  BY <1>1, <1>2, <1>3, <1>4, <1>5, <1>6, <1>7 DEF Next, Serve

\* A row disappears with its application only.
LEMMA SeenStep == IInv /\ [Next]_vars => SeenInv'
<1> SUFFICES ASSUME IInv, [Next]_vars PROVE SeenInv'
  OBVIOUS
<1> USE NoneAssumption DEF IInv, TypeOK, LocalsInv, SeenInv
<1>1. ASSUME NEW r \in Screenings, NEW a \in Apps, LoadApplication(r, a) PROVE SeenInv'
  BY <1>1 DEF LoadApplication
<1>2. ASSUME NEW r \in Screenings,
             LoadJob(r) \/ RunPipeline(r) \/ PipelineFails(r) \/ Insert(r) \/ Update(r)
               \/ Refresh(r) \/ Abort(r)
      PROVE  SeenInv'
  BY <1>2 DEF LoadJob, RunPipeline, PipelineFails, Insert, Update, Refresh, Abort
<1>3. ASSUME NEW r \in Screenings, SelectRow(r) PROVE SeenInv'
  BY <1>3 DEF SelectRow, RowsOf
<1>4. ASSUME NEW r \in Screenings, Commit(r) PROVE SeenInv'
  <2>1. \A q \in Screenings : row'[q] = None => row[q] = None
    BY <1>4, WrittenRows, StoredType DEF Commit
  <2>2. QED
    BY <1>4, <2>1 DEF Commit
<1>5. ASSUME NEW a \in Apps, Cascade(a) PROVE SeenInv'
  BY <1>5 DEF Cascade
<1>6. CASE UNCHANGED vars
  BY <1>6 DEF vars
<1>7. QED
  BY <1>1, <1>2, <1>3, <1>4, <1>5, <1>6 DEF Next, Serve

\* The unique key and the row locks protect what a request is about to write.
LEMMA WritersStep == IInv /\ [Next]_vars => WritersInv'
<1> SUFFICES ASSUME IInv, [Next]_vars PROVE WritersInv'
  OBVIOUS
<1> USE NoneAssumption DEF IInv, TypeOK, LocalsInv, WritersInv, Inserting
<1>1. ASSUME NEW r \in Screenings, NEW a \in Apps, LoadApplication(r, a) PROVE WritersInv'
  BY <1>1 DEF LoadApplication, Changed
<1>2. ASSUME NEW r \in Screenings,
             LoadJob(r) \/ PipelineFails(r) \/ Refresh(r) \/ Abort(r)
      PROVE  WritersInv'
  BY <1>2 DEF LoadJob, PipelineFails, Refresh, Abort, Changed
<1>3. ASSUME NEW r \in Screenings, RunPipeline(r) PROVE WritersInv'
  BY <1>3 DEF RunPipeline, Changed
<1>4. ASSUME NEW r \in Screenings, SelectRow(r) PROVE WritersInv'
  BY <1>4 DEF SelectRow, Changed
<1>5. ASSUME NEW r \in Screenings, Insert(r) PROVE WritersInv'
  BY <1>5 DEF Insert, Changed, RowsOf
<1>6. ASSUME NEW r \in Screenings, Update(r) PROVE WritersInv'
  BY <1>6 DEF Update, Changed
<1>7. ASSUME NEW r \in Screenings, Commit(r) PROVE WritersInv'
  <2>1. \A q \in Screenings : /\ row'[q] = None => row[q] = None
                              /\ app[q] # app[r] => row'[q] = row[q]
                              /\ seen[r] # None => (row'[q] = None <=> row[q] = None)
    BY <1>7, WrittenRows, StoredType DEF Commit
  <2>2. \A q \in Screenings : Changed(q)' = Changed(q)
    BY <1>7 DEF Commit, Changed
  <2>3. ASSUME NEW q \in Screenings, pc[q] = "commit", q # r, seen[q] = None, app[q] = app[r]
        PROVE  seen[r] # None
    BY <1>7, <2>3 DEF Commit
  <2>4. QED
    BY <1>7, <2>1, <2>2, <2>3 DEF Commit
<1>8. ASSUME NEW a \in Apps, Cascade(a) PROVE WritersInv'
  <2>1. \A q \in Screenings : Changed(q)' = Changed(q)
    BY <1>8 DEF Cascade, Changed
  <2>2. \A q \in Screenings : app[q] # a => row'[q] = row[q]
    BY <1>8 DEF Cascade
  <2>3. \A q \in Screenings : pc[q] = "commit" /\ app[q] = a => seen[q] # None /\ Changed(q) = {}
    BY <1>8 DEF Cascade, Updating
  <2>4. QED
    BY <1>8, <2>1, <2>2, <2>3 DEF Cascade
<1>9. CASE UNCHANGED vars
  BY <1>9 DEF vars, Changed
<1>10. QED
  BY <1>1, <1>2, <1>3, <1>4, <1>5, <1>6, <1>7, <1>8, <1>9 DEF Next, Serve

\* A row that changes under a request makes it a disturbed one.
LEMMA FreshStep == IInv /\ [Next]_vars => FreshInv'
<1> SUFFICES ASSUME IInv, [Next]_vars PROVE FreshInv'
  OBVIOUS
<1> USE NoneAssumption DEF IInv, TypeOK, LocalsInv, FreshInv
<1>1. ASSUME NEW r \in Screenings, NEW a \in Apps, LoadApplication(r, a) PROVE FreshInv'
  BY <1>1 DEF LoadApplication
<1>2. ASSUME NEW r \in Screenings,
             LoadJob(r) \/ RunPipeline(r) \/ PipelineFails(r) \/ Insert(r) \/ Update(r)
               \/ Refresh(r) \/ Abort(r)
      PROVE  FreshInv'
  BY <1>2 DEF LoadJob, RunPipeline, PipelineFails, Insert, Update, Refresh, Abort
<1>3. ASSUME NEW r \in Screenings, SelectRow(r) PROVE FreshInv'
  BY <1>3 DEF SelectRow, RowsOf
<1>4. ASSUME NEW r \in Screenings, Commit(r) PROVE FreshInv'
  <2>1. \A q \in Screenings : app[q] # app[r] => row'[q] = row[q]
    BY <1>4, WrittenRows DEF Commit
  <2>2. app[r] \in Apps
    BY <1>4 DEF Commit
  <2>3. \A q \in Screenings : row'[q] # None => last'[app'[q]] \in completed'
    BY <1>4, <2>1, <2>2 DEF Commit
  <2>4. ASSUME NEW q \in Screenings, pc'[q] \in {"flush", "commit"}, q \notin disturbed',
               seen[q] # None, row'[seen[q]] # None
        PROVE  row'[seen[q]] = read[q]
    BY <1>4, <2>1, <2>4 DEF Commit, Outdated
  <2>5. QED
    BY <1>4, <2>3, <2>4 DEF Commit
<1>5. ASSUME NEW a \in Apps, Cascade(a) PROVE FreshInv'
  BY <1>5 DEF Cascade
<1>6. CASE UNCHANGED vars
  BY <1>6 DEF vars
<1>7. QED
  BY <1>1, <1>2, <1>3, <1>4, <1>5, <1>6 DEF Next, Serve

\* The unique key holds across the gap between the SELECT and the INSERT, and the
\* deletion of an application takes its result along.
LEMMA RowsStep == IInv /\ [Next]_vars => (OneResultPerApplication /\ ResultsHaveApplications)'
<1> DEFINE Rows == OneResultPerApplication /\ ResultsHaveApplications
<1> SUFFICES ASSUME IInv, [Next]_vars PROVE Rows'
  OBVIOUS
<1> USE NoneAssumption DEF IInv, TypeOK, LocalsInv, OneResultPerApplication, ResultsHaveApplications
<1>1. ASSUME NEW r \in Screenings, NEW a \in Apps, LoadApplication(r, a) PROVE Rows'
  BY <1>1 DEF LoadApplication
<1>2. ASSUME NEW r \in Screenings, Commit(r) PROVE Rows'
  <2>1. CASE seen[r] = None
    <3>1. \A q \in Screenings : q # r => row'[q] = row[q]
      BY <1>2, <2>1, WrittenRows DEF Commit
    <3>2. app[r] \in present /\ \A q \in Screenings : app[q] = app[r] => row[q] = None
      BY <1>2, <2>1 DEF Commit, WritersInv
    <3>3. QED
      BY <1>2, <3>1, <3>2 DEF Commit
  <2>2. CASE seen[r] # None
    <3>1. \A q \in Screenings : row'[q] = None <=> row[q] = None
      BY <1>2, <2>2, WrittenRows DEF Commit
    <3>2. QED
      BY <1>2, <3>1 DEF Commit
  <2>3. QED
    BY <2>1, <2>2
<1>3. ASSUME NEW a \in Apps, Cascade(a) PROVE Rows'
  BY <1>3 DEF Cascade
<1>4. CASE UNCHANGED <<present, row, app>>
  BY <1>4
<1>5. QED
  BY <1>1, <1>2, <1>3, <1>4
     DEF Next, Serve, tables, history, vars, LoadJob, RunPipeline, PipelineFails, SelectRow,
         Insert, Update, Refresh, Abort

\* A column is written together with the event of the run it comes from.
LEMMA AuditStep == IInv /\ [Next]_vars => ResultsAreAudited'
<1> SUFFICES ASSUME IInv, [Next]_vars PROVE ResultsAreAudited'
  OBVIOUS
<1> USE NoneAssumption DEF IInv, TypeOK, LocalsInv, ResultsAreAudited
<1>1. ASSUME NEW r \in Screenings, NEW a \in Apps, LoadApplication(r, a) PROVE ResultsAreAudited'
  BY <1>1 DEF LoadApplication
<1>2. ASSUME NEW r \in Screenings, RunPipeline(r) PROVE ResultsAreAudited'
  BY <1>2 DEF RunPipeline
<1>3. ASSUME NEW r \in Screenings, Commit(r) PROVE ResultsAreAudited'
  <2>1. /\ r \in completed' /\ completed \subseteq completed' /\ flagged \subseteq flagged'
        /\ verdict[r].review = TRUE => r \in flagged'
        /\ app' = app /\ verdict' = verdict /\ row' = Written(r) /\ pc[r] = "commit"
    BY <1>3 DEF Commit
  <2>2. Stored(verdict[r]).review => verdict[r].review = TRUE
    BY DEF Stored
  <2> DEFINE Scored(q, x)  == \E p \in completed' : app[p] = app[q] /\ Stored(verdict[p]).score = x
             Reviewed(q, x) == /\ \E p \in completed' : app[p] = app[q] /\ Stored(verdict[p]).review = x
                               /\ x => \E p \in flagged' : app[p] = app[q]
  <2>3. ASSUME NEW q \in Screenings, app[q] = app[r]
        PROVE  Scored(q, Stored(verdict[r]).score) /\ Reviewed(q, Stored(verdict[r]).review)
    BY <2>1, <2>2, <2>3
  <2>4. ASSUME NEW q \in Screenings, row[q] # None
        PROVE  Scored(q, row[q].score) /\ Reviewed(q, row[q].review)
    BY <2>1, <2>4
  <2>5. ASSUME NEW q \in Screenings, row'[q] # None
        PROVE  Scored(q, row'[q].score) /\ Reviewed(q, row'[q].review)
    <3> HIDE DEF Scored, Reviewed
    <3>1. CASE row'[q] = row[q]
      BY <2>4, <2>5, <3>1
    <3>2. CASE row'[q] # row[q] /\ seen[r] = None
      <4>1. q = r /\ row'[q] = Stored(verdict[r])
        BY <2>1, <3>2, WrittenRows
      <4>2. QED
        BY <2>2, <2>3, <4>1
    <3>3. CASE row'[q] # row[q] /\ seen[r] # None
      <4>1. /\ app[q] = app[r] /\ row[q] # None
            /\ row'[q].score \in {row[q].score, Stored(verdict[r]).score}
            /\ row'[q].review \in {row[q].review, Stored(verdict[r]).review}
        BY <2>1, <2>5, <3>3, WrittenRows
      <4>2. QED
        BY <2>3, <2>4, <4>1
    <3>4. QED
      BY <3>1, <3>2, <3>3
  <2>6. QED
    BY <2>1, <2>5 DEF ResultsAreAudited
<1>4. ASSUME NEW a \in Apps, Cascade(a) PROVE ResultsAreAudited'
  BY <1>4 DEF Cascade
<1>5. CASE UNCHANGED <<row, completed, flagged, app, verdict>>
  BY <1>5
<1>6. QED
  BY <1>1, <1>2, <1>3, <1>4, <1>5
     DEF Next, Serve, tables, history, vars, LoadJob, PipelineFails, SelectRow,
         Insert, Update, Refresh, Abort

\* A request that nobody disturbed writes on top of what it has read, so that every
\* column becomes that of its decision.
LEMMA UndisturbedStep == IInv /\ [Next]_vars => UndisturbedRunIsStored'
<1> SUFFICES ASSUME IInv, [Next]_vars PROVE UndisturbedRunIsStored'
  OBVIOUS
<1> USE NoneAssumption DEF IInv, TypeOK, LocalsInv, UndisturbedRunIsStored
<1>1. ASSUME NEW r \in Screenings, NEW a \in Apps, LoadApplication(r, a) PROVE UndisturbedRunIsStored'
  BY <1>1 DEF LoadApplication
<1>2. ASSUME NEW r \in Screenings, RunPipeline(r) PROVE UndisturbedRunIsStored'
  BY <1>2 DEF RunPipeline, FreshInv
<1>3. ASSUME NEW r \in Screenings, Commit(r) PROVE UndisturbedRunIsStored'
  <2>1. /\ pc[r] = "commit" /\ app[r] \in Apps /\ disturbed \subseteq disturbed'
        /\ last' = [last EXCEPT ![app[r]] = r] /\ app' = app /\ verdict' = verdict
        /\ row' = Written(r)
    BY <1>3 DEF Commit
  <2>2. ASSUME NEW q \in Screenings, row'[q] # None, app[q] = app[r], r \notin disturbed'
        PROVE  row'[q] = Stored(verdict[r])
    <3>1. CASE seen[r] = None
      <4>1. row[q] = None
        BY <2>1, <2>2, <3>1 DEF WritersInv
      <4>2. QED
        BY <2>1, <2>2, <3>1, <4>1, WrittenRows
    <3>2. CASE seen[r] # None
      <4>1. row[q] # None
        BY <2>1, <2>2, <3>2, WrittenRows
      <4>2. seen[r] = q
        BY <2>1, <2>2, <3>2, <4>1 DEF ResultsHaveApplications, SeenInv, OneResultPerApplication
      <4>3. row[q] = read[r]
        BY <2>1, <2>2, <4>1, <4>2 DEF FreshInv
      <4>4. QED
        BY <2>1, <3>2, <4>1, <4>2, <4>3, WrittenRows
    <3>3. QED
      BY <3>1, <3>2
  <2>3. ASSUME NEW q \in Screenings, row'[q] # None, app[q] # app[r],
               last'[app[q]] \notin disturbed'
        PROVE  row'[q] = Stored(verdict[last'[app[q]]])
    <3>1. row'[q] = row[q]
      BY <2>1, <2>3, WrittenRows
    <3>2. last'[app[q]] = last[app[q]]
      BY <2>1, <2>3
    <3>3. QED
      BY <2>1, <2>3, <3>1, <3>2
  <2>4. QED
    BY <2>1, <2>2, <2>3
<1>4. ASSUME NEW a \in Apps, Cascade(a) PROVE UndisturbedRunIsStored'
  BY <1>4 DEF Cascade
<1>5. CASE UNCHANGED <<row, app, verdict, last, disturbed>>
  BY <1>5
<1>6. QED
  BY <1>1, <1>2, <1>3, <1>4, <1>5
     DEF Next, Serve, tables, history, vars, LoadJob, PipelineFails, SelectRow,
         Insert, Update, Refresh, Abort

\* IInv holds before the first request and is kept by every step.
THEOREM Invariance == Spec => []IInv
<1>1. Init => IInv
  BY NoneAssumption
     DEF Init, IInv, TypeOK, LocalsInv, SeenInv, WritersInv, FreshInv, OneResultPerApplication,
         ResultsHaveApplications, ResultsAreAudited, UndisturbedRunIsStored
<1>2. IInv /\ [Next]_vars => IInv'
  BY TypeStep, LocalsStep, SeenStep, WritersStep, FreshStep, RowsStep, AuditStep,
     UndisturbedStep DEF IInv
<1>3. QED
  BY <1>1, <1>2, PTL DEF Spec

\* Type correctness of the screening tables and of the requests' locals.
THEOREM TypeCorrect == Spec => []TypeOK
<1>1. IInv => TypeOK
  BY DEF IInv
<1>2. QED
  BY <1>1, Invariance, PTL

\* However many screenings overlap between the SELECT and the INSERT of _persist
\* (163-172), an application has one result.
THEOREM ResultsAreUnique == Spec => []OneResultPerApplication
<1>1. IInv => OneResultPerApplication
  BY DEF IInv
<1>2. QED
  BY <1>1, Invariance, PTL

\* A run that outlives its application leaves no result behind (the foreign key
\* of screening_results, and the rows _persist and the cascade write).
THEOREM ResultsAreNeverOrphans == Spec => []ResultsHaveApplications
<1>1. IInv => ResultsHaveApplications
  BY DEF IInv
<1>2. QED
  BY <1>1, Invariance, PTL

\* No column of a result comes from a run without an event (screen_application,
\* 62-73, commits both or neither), for any mixture of overlapping runs.
THEOREM DecisionsAreAudited == Spec => []ResultsAreAudited
<1>1. IInv => ResultsAreAudited
  BY DEF IInv
<1>2. QED
  BY <1>1, Invariance, PTL

\* Without a COMMIT between its read and its write, a run replaces the result it
\* found completely (_persist, 174-207).
THEOREM RerunReplaces == Spec => []UndisturbedRunIsStored
<1>1. IInv => UndisturbedRunIsStored
  BY DEF IInv
<1>2. QED
  BY <1>1, Invariance, PTL
=============================================================================
