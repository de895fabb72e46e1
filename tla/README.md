# HireLens: formal models

TLA+ models of the HireLens backend (`src/backend`, FastAPI over PostgreSQL),
checked with TLC, and proofs checked with TLAPS. Paths below are relative to
`src/backend` unless they begin with `src/`.

## 1. The system

The backend is one process (`Dockerfile` starts a single uvicorn). Endpoints
declared `def` run in a thread pool, so their statements interleave; the public
`apply` is `async def` and yields only at its upload. Several processes over one
database interleave everywhere. Every request has one SQLAlchemy session and one
transaction at READ COMMITTED, with `autoflush=False`, `expire_on_commit=False`
and no explicit locks. `app/models/` is not in the repository (it is ignored by
git), so tables, keys and cascades are taken from the migrations.

| component | state | operations | hard part |
|---|---|---|---|
| accounts and sessions, `api/v1/auth.py` | organizations, users, refresh_tokens, audit_events | register, login, refresh, logout, csrf, me | check-then-insert, one token presented twice, logout against refresh, expiry and disabling in between |
| recruitment, `api/v1/jobs.py`, `applications.py` | jobs, candidates, resumes, applications, audit_events | create, update, delete, apply, update_status | delete against apply, duplicate submissions, lost status updates, tenancy at the time of the write |
| resume files, `services/file_storage.py` | the storage directory | save_resume, delete | files are outside the transaction |
| screening pipeline, `agents/graph.py`, `agents/nodes/` | ScreeningState, its node outcomes | run_pipeline and six nodes | any node failing, critical against advisory, order of redaction and fairness check |
| LLM chain, `agents/llm_router.py` | attempts of one call | generate_json | retries, fall-through, credit |
| scoring and fairness, `services/ats_engine.py`, `bias_check.py` | none | calculate_ats, recommend, assess | missing components, thresholds, tolerance |
| screening workflow, `services/screening_service.py` | screening_results, audit_events | screen_application | upsert under concurrency, a transaction as long as the LLM calls |
| PII redaction, `services/pii_redaction.py` | none | redact_resume, extract_sections, redact_names_only | patterns applied in turn, each of which can hide the next or merge lines |
| migrations, `alembic/versions/` | the schema, its revision, users and memberships | upgrade and downgrade of eight scripts | tenancy moves between tables and back while people join and leave; one failing operation undoes a run |
| rate limiter, `core/rate_limit.py` | a deque per client address | allow, reset | the clock is read outside the lock |
| browser session, `src/frontend/src/context/AuthContext.tsx`, `api/client.ts` | user, loading, a check in flight | session check, signOut, page loads | answers that arrive after navigation or sign-out, calls that the limiter refuses |
| embeddings, `services/embeddings.py` | the model, a failure flag | _load_model, reset_model_cache | double-checked lock |

Interactions: auth gives every staff request its user and organization; apply
reads jobs, writes a file and then rows; deletion of a job cascades to its
applications; screening reads application, resume and job, runs the pipeline in
process, and the pipeline calls the embedding model and, from the feedback node
only, the LLM chain; every state change records an audit event in the same
transaction; the browser talks to all of it with cookies, and to everything under `/auth` through the
limiter, whose buckets all users behind one address share. The properties that
make each component correct are listed with its module below, and every hazard of
the code is listed at its line in `PROJECT.json`, with the property that covers it
or the reason why none does.

## 2. Modules

| module | models | lines of code it stands for |
|---|---|---|
| `AuthSessions` | requests against accounts and refresh tokens | `auth.py`, `deps.py`, `security.py`, migration 0001 |
| `SessionLedger` | the abstract promise: sessions opened, exchanged, closed together | what `auth.py` keeps of its comments at `432-437`, `462` |
| `AuthSessionsProofs` | the inductive invariant of AuthSessions and its theorems | |
| `Recruitment` | jobs, apply, status changes, files, tenancy | `jobs.py`, `applications.py`, `file_storage.py`, `tenant.py`, migration 0002 |
| `RecruitmentProofs` | the inductive invariant of Recruitment and its theorems | |
| `AtsEngine` | the score, the band, the name counterfactual, as operators | `ats_engine.py`, `bias_check.py` |
| `AtsEngineProofs` | lemmas about rounded scores, and what they say of every job and resume | |
| `ScreeningPipeline` | one pipeline run and its provider chain; extends AtsEngine | `graph.py`, `state.py`, `nodes/`, `llm_router.py` |
| `ScreeningPipelineProofs` | the inductive invariant of ScreeningPipeline and its theorems | |
| `Screening` | overlapping screenings of one application, the upsert and its audit events | `screening.py`, `screening_service.py`, `audit_service.py`, migration 0003 |
| `ScreeningProofs` | the inductive invariant of Screening and its theorems | |
| `PiiRedaction` | the four views of a resume, as operators on lines of tokens | `pii_redaction.py` |
| `PiiRedactionProofs` | how each pass folds over lines or tokens, what it removes and keeps; the theorems of PiiRedaction | |
| `Migrations` | the chain of scripts, runs of alembic, what applications write in between | `alembic/versions/*.py`, `alembic/env.py` |
| `MigrationsProofs` | how a run unfolds into its operations, what each operation needs of a schema; the inductive invariants of Migrations and its theorems | |
| `RateLimiter` | threads between the clock, the lock and the bucket of an address | `rate_limit.py` |
| `BrowserSession` | the page in front of the limiter; extends RateLimiter | `AuthContext.tsx`, `client.ts` |
| `BrowserSessionProofs` | the inductive invariant of RateLimiter and its theorems; that BrowserSession implements it, its invariant and theorems | |
| `MCAuthSessions`, `MCRecruitment`, `MCScreeningPipeline`, `MCScreening`, `MCPiiRedaction`, `MCMigrations`, `MCBrowserSession` | instances and symmetry for TLC | |

**How a handler becomes actions.** A request is cut at each of its SQL statements
that another transaction can observe or wait for: the SELECTs whose result it keeps
are actions of their own, flushed INSERTs are actions that block on an uncommitted
row with the same key, and the last action is the COMMIT with everything the ORM
sends with it. A COMMIT publishes all rows of the request at once. `Abort` (auth,
screening) and `AbortApply`, `AbortOp` (recruitment) end a request at any point: a lost connection, a
crash, an exception; rows roll back, files do not. Rows are named by the request that
inserts them, since each gets a fresh UUID.

**Slips of this commit.** Some lines make a path fail on every input, and would
hide everything behind them. Each is modelled as it is, and each can be taken as
corrected by adding its name to the constant `Repaired`:

| name | in | what the source does |
|---|---|---|
| `mime_type` | Recruitment | `StoredResume` is built with a field it does not have, after the file is written (`file_storage.py:206`) |
| `outcome` | ScreeningPipeline | `NodeOutcome(details=...)`: a failed or skipped node raises TypeError out of the run (`graph.py:91`, `106`) |
| `redaction` | ScreeningPipeline, PiiRedaction | `name_redacted_text`, `re.sub(token=...)`, named groups that no pattern has, `{2,}` inside an f-string and tuple-valued counters make redaction raise or miss links with a scheme (`redaction_node.py:36`, `pii_redaction.py:244`, `311`, `52`, `335-338`) |
| `user_id` | Migrations | the downgrade of 0007 selects a column that `users` does not have (`0007_simplify_tenancy.py:186`) |
| `prompt` | ScreeningPipeline | `state.ats.skill_score` does not exist (`feedback_node.py:111`) |
| `screening` | Screening | arguments passed by position that are keyword-only (`screening.py:54`), a field that ScreeningState lacks (`screening_service.py:132`), a setting that does not exist (`screening_service.py:202`), `ats.skill_score` again (`state.py:138`) |

The run `migrations_downgrade` shows the source as it stands (`Repaired = {}`); the others show
the logic behind the slips. The uploads that `mime_type` ends leave their files without a row, and
without `outcome` an empty resume, which the tests expect to be scored (`tests/test_screening.py:449`),
ends its run in a TypeError; neither takes a model checker to see, so neither has a run. ScreeningPipeline is about `run_pipeline`, which the tests call directly.

**Faults.** An operator introduced by a comment "Fault:" is a plausible bug of the
operator that follows it. No specification uses it; substituted for that operator it
breaks the property that guards against it, which shows that the property can fail.

### AuthSessions

A request carries its kind, its e-mail or the token it presents, and its locals. The
tables are `orgs`, `users`, `tokens`, `revoked`, `expired`, `inactive`, `audit`. Expiry
and `Deactivate` (no endpoint writes `is_active`; an operator does) may happen at any
time. `usableAtStart` is history: the tokens that were usable when a request arrived.
Access tokens and CSRF tokens are stateless and not modelled; a logout needs a user
that exists, as `get_current_user` does.

`LedgerSpec` is the refinement: `SessionLedger` has tokens that are open or closed and knows of
each request what was open when it arrived (`found`). A refresh exchanges a token it found open, though
it may have been exchanged or closed meanwhile; a logout closes all it found of its user. That is
weaker than the comments: a refresh that read its token before a logout commits after it, and its
session survives a docstring that says "Revoke every active refresh session" (`auth.py:462`, `465`);
`CloseAll` shows exactly what is closed, and `LogoutRevokesPrior` speaks of the sessions committed before the logout.

Properties: `UniqueAccounts`, `SessionsAudited`, `RotationLineage`,
`NoSessionFromDeadToken`, `LogoutRevokesPrior`, `RequestsFinish`, `LedgerSpec`; the promise
`SingleSuccessor`, which the code breaks; and `RevocationIsPermanent`, which is proved only, since
the ledger's `closed` implies it in the run.

### Recruitment

`job` is the state of a row (absent, hidden, open, deleted), `status` that of an
application, `trail` its audit events. Submissions and staff requests interleave between
statements. `InsertRows` waits for an uncommitted row of the same
`(job_id, candidate_id)`, `DeleteCommit` waits for the locks of uncommitted
applications and cascades to committed ones. The order of two candidates with one address is a
choice, since the query has no ORDER BY.

Properties: `ReferencesIntact`, `OneApplicationPerCandidate`, `DecisionsAudited`,
`TenantIsolation`, `SomeoneProceeds`; and the promise `DeletionSparesApplications` that the code breaks.

### AtsEngine and ScreeningPipeline

Scores are hundredths of a point. The floats of the code are replaced by exact
quotients rounded half up; Python's half-even and binary rounding differ from that at an
exact half of a hundredth only. Years are whole numbers here (the code also reads `2.5 years`). What the regular expressions find in a text is input:
skills with and without the candidate's name, years, sections, with the assumption
that removing a name adds no skill. A pipeline run is sequential; its choices are the
similarity, the configured providers, what each call returns and whether a node
raises (`MayFail`), or whether only the counterfactual of the fairness check does (`rescored` of a case):
`bias_check.py:98-101` turns that into a difference of 0.0, and `tests/test_screening.py:384-393` asserts it.
`ClearedDecisionIsClean` says therefore what a cleared decision is worth if the comparison was made; without it
the name may have moved its score by any amount.

Properties: `ShippedRunIsComplete`, `NothingBeforeRedaction`, `ClearedDecisionIsClean`,
`ChainIsWalkedInOrder`, `ScoreKeepsItsScale`, `RankingFollowsTheEvidence`, `RunEnds`; and the
promise `NameNeverDecidesUnreviewed` that the code breaks.

### Screening

The workflow around the pipeline: `LoadApplication`, `LoadJob`, the pipeline as one step with
any verdict or a PipelineError, `SelectRow`, the flushed `Insert` or `Update`, `Commit` with the
audit events, `Refresh`. `Insert` waits for an uncommitted row of the same application and fails
on a committed one (`uq_screening_results_application_id`), `Update` waits for the row lock and
fails when the row is gone; the ORM sends the columns that changed against what the request has
read (`Changed`), under READ COMMITTED, on top of the row that is committed by then (`Written`). `Cascade` is
the deletion of the application through its job, the race that Recruitment has.

A decision is its score and its review flag: two columns are what it takes for a row to be a
mixture. `review = None` is a run whose bias_check node failed. `last` and `disturbed` are history.
ScreeningPipeline says which verdicts a run can end with; here any is possible, so what holds here
holds for those; a missing verdict in particular is one of them (`MissingVerdictMeansFailedCheck`).

Properties: `OneResultPerApplication`, `ResultsHaveApplications`, `ResultsAreAudited`,
`UndisturbedRunIsStored`, `RequestsFinish`; and the promise `ResultIsAnAuditedDecision` that the
code breaks: column by column a result is audited, as a whole it need not be.

### PiiRedaction

A resume is lines of tokens; a token is what one of the patterns takes as a whole, so the letters
of the patterns are abstracted and their ORDER and their reach are kept: the phone pattern takes the
white space before a number, line breaks included, and takes pairs of years for numbers; a link loses
its path up to the next white space; the full name goes before its words; a header line of capitalised
words becomes a placeholder; an address takes its line up to a comma, and the two letters of a state after that, and is missed when a name was
replaced in its street. A word has its marks on: `Opened` and `Closed` take off those that a word boundary passes over, at its beginning and its end, and `Bare`
those that `_name_variants` takes off before it searches for a word of a name (244). The parts of a word between
inner marks are left out. `LONG_ID_RE` has no token of its own: it looks for nine digits or more after the phone pattern has
taken every number of seven, and finds nothing. Each pass is a fold
whose step is an operator of its own (`PutLine`, `PutUrl`, `PutWord`, `PutInSection`: one match of the pattern), or
one token at a time (`Strip`, `RedactWord`, `Taken`).

The model's views of all 33,600 instances of the run were compared with those of the corrected Python: they are
equal but for 420 views for the provider, each of a text with two addresses, where the pattern runs from one
into the other (left out, and noted at `InAddress`).

`NothingIdentifies` is about the view that leaves for a provider (the full name is looked for as consecutive
words of a line, which is where the pattern finds it), `EvidenceSurvives` about the two that
are scored. What the code does that its comments do not say: years of employment are removed from what
is scored as if they were phone numbers (`pii_redaction.py:35`, 211-212 "carry no skill signal"); a phone
number right below a heading glues itself to it and hides the section (19-20 "headings preserved");
capitalised job titles in the first four lines are blanked like names (272-273); an address in a
street of the candidate's name gets through (342-351); a word of the name with a mark inside, O'Brien, is searched
for without it and so found in the full name only, and a full name that begins or ends with a mark is not found as a whole
(244, 261). The first three are exceptions in the wording of
the properties or outside of it, the others are exceptions in `NothingIdentifies`.

### Migrations

`revision` counts the scripts applied. A script is a sequence of operations, an operation a function of
the database that may fail, and `Do` the next one of a run, which does nothing once one has failed; a run of
alembic takes the scripts one by one (`UpAt`, `DownAt`) and is one transaction. `Upgrade(to)` and `Downgrade(to)` are
runs; `Register`, `Join`, `Leave`, `PostJob` and `DeleteJobs` are what applications write in between,
those of the releases before 0007 (not in the repository) as its comments and keys describe them.
Tables, foreign keys, enums and indexes are all represented; columns if an enum types them or a later
script adds, drops or restores them.

Properties: `TypeOK` (tenancy is in one place), `MembersKeepTheirTenant`, `ChainNeverSticks`,
`RollbackKeepsTenancy`; and the promise `DowngradeRestoresSchema` that the code breaks.
`ChainNeverSticks` has two exceptions, which are the code's, and says exactly where they bite: an upgrade stops before 0007
while an account without a membership still has jobs, and a downgrade stops at 0007 as long as its slip is not corrected.
`RollbackKeepsTenancy` is about every rollback that ends well, whether or not the slip is corrected.

### RateLimiter and BrowserSession

`RateLimiter` cuts a request between reading the clock and taking the lock; what happens under the lock
is one step. `MaxStall` is the longest time a thread may wait there: without it no bound holds at all.
`AdmissionsAreSpaced` and `RefusalsAreEarned` say what remains of "at most limit in a window" when
readings enter a bucket out of order, in both directions. The docstring's "keyed by user id"
(`rate_limit.py:20`) never happens: `_identity` is not given one.

`BrowserSession` is a page in front of it. A step is one task of the event loop: an effect with the
cleanup of the one before, the continuations of a call, a click, a page load that forgets the page's
variables. `path` is the pathname of the last render, `current` the call whose closure is `alive`,
`checking` the ref. A call is stamped, admitted or refused by the limiter like any other request of its
address, and answered according to the cookie it was sent with; it may also fail on its way, served or
not. `left` records how a sign-out ended, `skipped` and `failed` why a page may be blank.

Properties: `TypeOK` (the ref is set exactly while a check is under way), `SignOutHolds`, `LoadingEnds`,
`BlankPageHasACause`, and the limiter's two. Their exceptions are what the code does: a logout that the
limiter refuses leaves the cookie valid and the next check shows the user again; a check under way when
the sign-out ends does so too; a page whose effect found an earlier page's check under way is never
checked itself (`AuthContext.tsx:41`), and keeps its spinner or its blank; a check that the limiter refuses
(429) sets no user and redirects nowhere.

## 3. Runs

| run | instance | states | shows |
|---|---|---|---|
| `auth` | 3 requests at once, 2 addresses, 1 name, 1 suffix | 160,815 | the guarantees of auth in every interleaving, that every request ends, and that SessionLedger is implemented |
| `auth_refresh_race` | 3 requests, symmetry | violation | one token exchanged twice |
| `recruitment` | 2 organizations, 2 jobs, 3 submissions, 2 staff requests, 1 address, 2 statuses, symmetry | 2,278,139 | references, uniqueness, audit, files, tenancy, no deadlock |
| `recruitment_delete_race` | 1 job | violation | an application destroyed by a cascade |
| `pipeline` | 126 pairs of job and resume, with a counterfactual that succeeds or raises, 2 providers and an unknown name, any node failing | 221,912 | one run, its providers, its score and its verdict |
| `pipeline_name_band` | no failure of its own | violation | a name changes the band and nothing escalates |
| `screening` | 3 screenings of 1 application, 2 scores | 675,081 | one result, audited, never an orphan; an undisturbed re-run replaces it; every request ends |
| `screening_torn_row` | the same, symmetry | violation | a result with the score of one run and the flag of another |
| `redaction` | 6 names or none, texts of 1 or 2 of 24 lines below 0 to 3 others, both settings | 67,200 | nothing identifies, no evidence is lost |
| `migrations` | 2 people, 2 organizations, 2 roles, symmetry | 5,890 | no account lost or moved, the chain walkable from everywhere |
| `migrations_downgrade` | 1 person, `Repaired = {}` | violation | a downgrade across 0007 restores nothing |
| `browser` | 3 calls of the browser and 1 of another client, 1 address, 2 protected paths, limit 2, window 2, stall 1, 4 ticks | 1,819,813 | what the page shows and the limiter admits; spinners end |

**Bounds.** Two requests suffice for each race of auth; the third produces the token
that both present or the chain that is rotated twice. One slug name with one suffix makes
both the clash and its resolution happen. In recruitment two submissions meet
on the unique key only if a third has already created the candidate, and by another job,
which is why `recruitment` has three and two. Statuses and addresses only have to differ
or coincide. In the pipeline the jobs are one that asks for nothing, one with required
and preferred skills and a minimum of years, and one with so many skills that one
of them moves the score by less than the tolerance when a similarity is measured and by more
when it is not; the similarities are none, a middle one and 100. The chain has a provider before and one
after a name the router does not know. In Screening the first request inserts and the two others update
what it wrote, which is what a mixture takes; requests on different applications share no row, and
the proofs cover any number of both. In PiiRedaction the fillers put a line of interest at
every place of the header and below it, and each ordered pair of lines occurs; the names share a word,
one of them has a word too short to be redacted alone, one consists of it, and one of it twice, which only the
pass over the full name redacts; one has a mark inside a word and one a mark at its end, and the lines have both with
and without. In Migrations two people
suffice, since scripts treat users one by one and the only row that refers to two tables is a
membership; two organizations and times that may tie make the choice of DISTINCT ON matter. In
BrowserSession three calls are a check, a logout and a check of the next page, or two checks and a logout
between them; with a limit of 2 and another client, any of them may be refused. `Horizon` is the end of
the clock: one window and one tick, so that a bucket fills, expires and admits again. The proofs
cover every number of each.

**Symmetry** is used where no liveness property is checked: requests, rows, people and
organizations are interchangeable names; roles are not.

**Deadlock** is not checked: every behaviour ends when its finite set of requests or calls, its
run, or its clock has ended. `RequestsFinish`, `RunEnds` and `LoadingEnds` say what deadlock freedom would. Recruitment is too large for a
liveness check at the size where all its waits meet, so it has the safety form: `SomeoneProceeds`, in no reachable
state do all the requests that have begun wait for each other.

**Fairness.** Weak fairness of the steps the server takes for a request it has begun
(`Serve` of AuthSessions and of Screening): a thread of the pool keeps running, and a statement that waits for a
lock continues once the lock is free. Clients, operators, the clock and failures owe nothing.
For ScreeningPipeline, weak fairness of its only thread: every provider is called with a
time-out (`AI_PROVIDER_TIMEOUT_SECONDS`), so each call returns or fails. For BrowserSession, weak fairness
of the effect (React runs the effects of every render) and of the answer to each call (`fetch` settles);
a call may fail before the server has served it, so the server's threads owe nothing.

## 4. What disagrees with its documentation

1. One refresh token can be exchanged twice (`auth.py:435-436`, `docs/SECURITY.md:49`).
2. Deleting a job can cascade to applications (`jobs.py:290-294`).
3. A name can change a recommendation without review (`docs/SECURITY.md:182-183`).
4. Two overlapping re-screenings can leave a result that mixes them and that no audit event
   describes (`docs/SECURITY.md:191-193`, `screening_service.py:155-157`).
5. No downgrade across 0007 gets through, and a corrected one would not restore the schema
   (`0007_simplify_tenancy.py:100`, `113`, `178`).

## 5. Proofs

`AuthSessionsProofs` proves, for every set of requests, addresses, names and suffixes, from the
assumptions that `AuthSessions` names:

    Spec => []TypeOK                     TypeCorrect
    Spec => []UniqueAccounts             AccountsAreUnique
    Spec => []SessionsAudited            SessionsAreAudited
    Spec => []RotationLineage            RotationIsSound
    Spec => []NoSessionFromDeadToken     DeadTokensOpenNothing
    Spec => []LogoutRevokesPrior         LogoutIsEffective
    Spec => RevocationIsPermanent        RevocationStays
    Spec => LedgerSpec                   LedgerIsImplemented

None of the invariants is inductive alone. `IInv` adds what the locals of a request
in flight say of the tables: which stage holds which local (`LocalsInv`); an
uncommitted INSERT holds its unique key, so no committed row and no other
uncommitted one has it (`KeysInv`, which carries `UniqueAccounts` over the gap between the SELECT and
the COMMIT); the token a refresh has read was usable when it arrived and belongs to the
user it has read (`PresentedInv`, for `NoSessionFromDeadToken` and `RotationLineage`); and
what a logout has updated covers what was committed when it arrived (`LogoutInv`, for
`LogoutRevokesPrior`). There is one lemma per part (`TypeStep` to `LogoutStep`), each with one step per
action; `Invariance` puts them together.

`RevocationStays` is proved from the type invariant and the step relation. `LedgerIsImplemented` maps
each action to one of the ledger: a COMMIT of register or login to `OpenSession`, of a refresh to
`Exchange`, of a logout to `CloseAll`, expiry and disabling to `Lapse`, an arrival to `Begin`, and every
other step to none; `IInv` supplies that the token a refresh presents was found open, and that a logout
has seen all it found.

`ScreeningProofs` proves, for every set of requests, applications and scores:

    Spec => []TypeOK                     TypeCorrect
    Spec => []OneResultPerApplication    ResultsAreUnique
    Spec => []ResultsHaveApplications    ResultsAreNeverOrphans
    Spec => []ResultsAreAudited          DecisionsAreAudited
    Spec => []UndisturbedRunIsStored     RerunReplaces

Its `IInv` says what a request may rely on between its SELECT and its COMMIT: the row it
selected is there or its application is gone (`SeenInv`); an uncommitted INSERT excludes every other row of
the application and keeps it from being deleted, an uncommitted UPDATE keeps its row (`WritersInv`);
and a request that nobody disturbed still holds what is committed (`FreshInv`). The lemma `WrittenRows`
is the whole of what the proofs need to know of the ORM's column-wise UPDATE.

`BrowserSessionProofs` proves of RateLimiter, for every set of requests and addresses and every limit, window
and stall:

    LimiterSpec => []LimiterTypeOK       LimiterTypes
    LimiterSpec => []AdmissionsAreSpaced AdmissionsAreBounded
    LimiterSpec => RefusalsAreEarned     RefusalsHaveCause

`LimiterInv` ties the bucket to the log of admissions: a bucket holds the readings of the last admissions
(`Suffix`), never more than the limit (`Bounded`); what it no longer holds is a window old (`Gone`), which
is where pruning from the front by a late reader's cutoff matters; a reading is at most `MaxStall` older
than its admission (`Dated`, `Waiting`), and admissions are in the order of the lock (`Ordered`).
The lemma `Pruning` says what a request finds under the lock; `AdmitStep` and `RefusalHasCause` do the
arithmetic.

and of BrowserSession, for every set of calls and paths:

    Spec => LimiterSpec                  BrowserUsesLimiter
    Spec => []AdmissionsAreSpaced        BrowserIsLimited
    Spec => RefusalsAreEarned            BrowserIsRefusedForCause
    Spec => []TypeOK                     OneCheckAtATime
    Spec => []SignOutHolds               SignOutIsFinal
    Spec => []BlankPageHasACause         BlankPagesAreExplained

The first is the composition: each step of the browser is a step of the limiter or leaves it alone, and
so the limiter's theorems hold with the browser in front of it. `PageInv` says that the ref is set exactly
while one check is under way and that the call of a live effect is that one; `CleanInv` that after a clean
sign-out there is no cookie and that a live check was sent without one.

`RecruitmentProofs` proves, for every set of organizations, jobs, submissions, staff requests, addresses
and statuses, with the upload repaired or not:

    Spec => []TypeOK                     TypeCorrect
    Spec => []ReferencesIntact           ReferencesHold
    Spec => []OneApplicationPerCandidate ApplicationsAreUnique
    Spec => []DecisionsAudited           DecisionsAreAudited
    Spec => []TenantIsolation            TenantsAreIsolated

The last two are inductive with the types. The others speak of committed rows and break as soon as one
forgets what a request in flight has read: `LocalsInv` says that the job it read was created and keeps its
organization, and that the candidate it found or will insert has its address; `RowsInv` and `FilesInv`
place each row and the file at a stage of the submission; `KeyInv` is the heart: from the flush of an
application on (`Holds`), and not only from its COMMIT, its job is there and no other holds its unique
key. This is what lets a deletion wait for a submission and a submission fail on a deleted job, and both
`ReferencesIntact` and `OneApplicationPerCandidate` follow from it.

`AtsEngineProofs` proves about the operators of AtsEngine, for every job, resume and similarity:

    ScoreIsOnScale              0 <= Overall <= Full
    CompleteResumeScoresFull    all that is asked for scores Full, with and without a similarity
    MoreEvidenceRanksHigher     who shows more has no lower score and no lower band
    NameOnlyAdds                the name's difference is never negative, flagged exactly above the tolerance
    NameDecidesBelowTolerance   a name that decides a strong match and is never flagged

The lemmas go through the rounding: `Round` is monotone, exact on multiples, and moves by what its argument
moves (`RoundMonotone`, `RoundExact`, `RoundShift`, `RoundStep`), and so does each component in turn.
`NameDecidesBelowTolerance` is finding 3 for all instances at once: from ten required skills on, one of them is
worth 8 points of the keyword score and 3.6 of the overall score, below `NAME_SENSITIVITY_TOLERANCE`.

`ScreeningPipelineProofs` proves, for every chain of providers, every set of cases and of nodes that may fail,
and whichever slips are corrected:

    Spec => []TypeOK                     TypeCorrect
    Spec => []ShippedRunIsComplete       ShippedRunsAreComplete
    Spec => []NothingBeforeRedaction     NothingPrecedesRedaction
    Spec => []ClearedDecisionIsClean     ClearedDecisionsAreClean
    Spec => []ChainIsWalkedInOrder       ChainsAreWalkedInOrder
    Spec => []ScoreKeepsItsScale         ScoresKeepTheirScale
    Spec => []RankingFollowsTheEvidence  RankingsFollowTheEvidence
    Spec => []VerdictOfRun               MissingVerdictMeansFailedCheck
    Spec => [](StepsLeft \in 0..(7 * NodeSteps)) /\ [][StepsLeft' < StepsLeft]_vars
                                         RunsAreBounded

Its `IInv` has one part per thing that the nodes rely on: `OutcomesInv` (one outcome per node passed, none of a
critical one negative), `DataInv` (what each node wrote, from what, and that it has not changed since: the verdict
on fairness is about the score that is shipped), `EntryInv` (the router is entered once, by a resume with text),
`WalkInv` (inside the router all providers before the current one gave up, and the calls are those of the
retries), `CreditInv` and `CallsInv`. `ScoresKeepTheirScale` and `RankingsFollowTheEvidence` then are the theorems
about AtsEngine applied to `DataInv`. `VerdictOfRun` is what module Screening takes from a run. `RunsAreBounded` is the
part of `RunEnds` that needs no fairness: no chain is long enough, and no provider unwilling enough, for a run to
go on for ever; only that its thread keeps running remains to be assumed.

`MigrationsProofs` proves, for every set of accounts, organizations and roles, with the slip of 0007
repaired or not:

    Spec => []TypeOK                     TypeCorrect
    Spec => []MembersKeepTheirTenant     AccountsKeepTheirTenant
    from any state that Inv admits with 0007 applied: a downgrade to an earlier revision and the upgrade back,
    if both end well, leave every account, its organization and its role as they were
                                         RedeploymentRestoresAccounts
    Spec => []UpgradesEndWell            UpgradesNeverStick
    Spec => [](a downgrade ends well exactly if it does not cross 0007 or the slip is repaired)
                                         DowngradesFailAtTheSlip
    Spec => []ChainNeverSticks           ChainIsWalkable
    Spec => []RollbackKeepsTenancy       RollbacksKeepTenancy

`UpgradesEndWell` is the half of `ChainNeverSticks` about upgrades, and `DowngradesFailAtTheSlip` says that the
wrong column is the only thing a downgrade ever trips over (finding 5); so as shipped the rollbacks that
`RollbackKeepsTenancy` is about are those that do not cross 0007. TLC checks the two with the slip repaired, where every
rollback is one of them; the run `migrations_downgrade` has the source as it stands.

`Inv` says what the rows of a database look like at its revision (`RowsFit`), beyond the schema having the
shape of one (`Shape`): up to 0006 tenancy is in the memberships and no account has an organization, from 0007 on it
is in the accounts and there is no membership left; before 0002 no job has a creator. The types alone are not
inductive: without that an upgrade could meet an account with a membership and an organization that disagree. A run
is a fold over its scripts, and what a fold does is shown by the least number of steps for which it would
fail (`LeastNumber`, from the well-foundedness of the natural numbers): `RunSteps` makes a run a sequence of
databases with one operation between neighbours, and `NeutralSteps` says that a script of operations that
touch no rows leaves them alone. The few that do touch rows (the backfill, deleting those without a membership, `NOT NULL`,
rebuilding the memberships, dropping a table or a column) are followed one by one through the scripts they
occur in (`UpgradeOfTenancy`, `DowngradeOfTenancy`, `DowngradeOfJobs`, `DowngradeOfAccounts`), and `UpgradeRows` and
`DowngradeRows` go along the chain of scripts.

Whether an operation fails depends on which tables, columns, keys, enums and indexes the chain has built, by whatever
way it got there: after a downgrade and an upgrade the database is not the one of a fresh installation. So the
schema is not compared with one it should equal, but told by the names that later operations ask for:
`Fits(d, T, E, X, C, K)` says that `d` is sound so far and has the tables `T`, the enums `E`, the indexes `X`, of
the columns that scripts add or drop those in `C`, and the foreign key of users if `K` has it, that only the
tables in `Referrers` refer to a table and that only its own table uses an enum. Each operation has one lemma (`CreateTableFits`,
`DropColumnFits`, `BackfillFits` and so on): what it needs of these sets, and the sets it leaves. `FitsAt(d, k)` gives the sets of revision `k`,
and each script, up and down, leads from one to the next (`Upgrade1Fits` to `Downgrade8Fits`). `Upgrade7Fits` needs the rows as well: the
DELETE under `jobs.created_by RESTRICT` and the two `NOT NULL` get through because every account that jobs hold has a membership.
`UpFits` and `DownFits` go along the chain, and the invariant of the four theorems is `FitsInv`: `Inv`, and the database
fits its revision.

`PiiRedactionProofs` proves, for resumes of any length, any stored names, any words and any marks on them, with the slips
corrected or not (as they stand, a resume with a name or a link has no views):

    Spec => []NothingIdentifies          NothingGetsThrough
    Spec => []EvidenceSurvives           EvidenceIsKept

The invariant is that the views are the ones made from the arguments; the work is in what the passes do.
A pass folds over the lines of a text or the tokens of a line, and the prover has no induction over either.
So the steps of all passes are put into one operator with the pass as an argument (`Put`); its recursion
has one solution (`StepsExist`, `SameSteps`), which gives `FoldOfNone` and `FoldOfOneMore` once for all, and
`JoinFolds` to `OnlyOfFolds` say that each pass is such a fold. Induction over sequences is stated with a
set in the place of a predicate (`SequenceInduction`), and shown by the least length at which it would fail
(`LeastNumber`). With these, every lemma about a pass is one about one more token:

- `NothingGetsThrough` follows the tokens from pass to pass: `StripUncontacts`, `UrlsByLine`, `NamesGo`,
  `HeaderGoes` and `AddressesByLine` each name the set of tokens a pass leaves. That a name is nowhere in a
  line needs more than sets: a placeholder must not bring two words of the name next to each other. `FullNameGoes`
  shows that it does not while the line is read, `NameElsewhere` that no later pass, which changes no word
  into another, brings it back.
- `EvidenceIsKept` compares two texts by what is kept of them (`Only`, `OnlyOf`): joining lines loses nothing
  (`JoinKeeps`), stripping changes tokens that are not kept (`OnlyOfAlike`), and so do the passes over a name
  (`FullNameKeeps`, `NamesKeep`). For sections, `JoinKeepsSections` carries along that a joined text ends in a
  heading only where the text itself does, which is what a phone number below a heading would break.

TLC has checked each `IInv`, `FitsInv` of Migrations, `VerdictInv` and the bounds of `StepsLeft`, on the instances of the
runs `recruitment`, `pipeline` and `migrations` before it was proved, and the first two also with `Repaired = {}`.

The assumptions are the ones the modules name: `None` is no value of the system (`NoneAssumption`), `Repaired` is a
set of known slips, the rows of different tables and the statuses that stand for a missing row are different names
(`NamesAssumption`), the limiter's constants are natural numbers, the calls of a browser come from one address, a chain
names each provider once (`ChainAssumption`; `core/config.py:169-178` drops repetitions), a similarity is a number
(`SimilaritiesAssumption`), and a resume for a job shows no more skills than it asks for, no fewer with the name
than without, and nothing when it has no text (`CasesAssumption`). A resume is lines of at least one token
(`TextsAssumption`; blank lines are skipped), and the names of placeholders and of sections are no words of a resume
(`WordsAssumption`; in the source a placeholder is bracketed, and that a word of a name titles a section as well is left out).
Marks come off at once and in any order (`MarksAssumption`).

Only model-checked: liveness (`RequestsFinish`, `RunEnds`, `LoadingEnds`) and `SomeoneProceeds`, since liveness under
fairness and ENABLED are beyond the prover. Every other property of a passing run is proved.

## 6. Plan

Done: every part of section 2, and the proofs above.

Possible modules: the pool of database connections that screenings hold for the length of a pipeline
run; late answers in `useAsync`.

## 7. Not modelled

Read-only endpoints (listing, analytics, audit, organizations, health): they change
nothing. The text side of `ats_engine.py`: regular expressions over text, inputs here.
`resume_parser.py`: extraction by libraries, a choice between success and refusal
here. Password hashing, JWT encoding, cookies and CSRF: stateless. Seed data and frontend rendering:
no logic of their own. Edits of a job while it is screened against: the decision is then about the
job as it was read. `embeddings.py`: two statements under a lock; its result is a choice of the matcher.
`useAsync.ts`: one effect with one flag, see its hazard. `refreshUser` of AuthContext: nothing calls it. The double
effect of React's StrictMode, in development only, where the second effect of a first page finds the check of the
first one under way. `RateLimiter.reset`: tests only; the growth of its dictionary with the number of addresses.
The offline mode of alembic.
