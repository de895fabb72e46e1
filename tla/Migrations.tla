------------------------------ MODULE Migrations ------------------------------
(***************************************************************************)
(* The migrations of the database (backend/alembic/versions) and the runs  *)
(* of alembic that walk their chain up and down while users and            *)
(* memberships are written in between.                                     *)
(*                                                                         *)
(* A script is a sequence of operations.  An operation maps a database to  *)
(* a database or fails, as PostgreSQL does: a table that another refers to *)
(* cannot be dropped, nor an enum that a column uses; a NOT NULL, a        *)
(* foreign key or a RESTRICT that rows violate refuses.  A run of alembic  *)
(* is one transaction (env.py: begin_transaction around run_migrations),   *)
(* so a failed run changes nothing.                                        *)
(*                                                                         *)
(* Only what a later operation can trip over is represented: tables,       *)
(* foreign keys, enums and indexes all, columns if an enum types them or a *)
(* later script adds, drops or restores them.                              *)
(*                                                                         *)
(* One slip makes every downgrade below 0007 fail, and is a name in        *)
(* Repaired when it is taken as corrected: "user_id", a column of users    *)
(* that does not exist (0007_simplify_tenancy.py:186).                     *)
(***************************************************************************)
EXTENDS Naturals, Sequences, SequencesExt

CONSTANTS
  Users, Orgs,  \* people and organizations
  Roles,        \* values of organization_role and user_role
  Repaired,     \* slips taken as corrected
  None          \* NULL

ASSUME NoneAssumption == None \notin Users \cup Orgs \cup Roles
ASSUME RepairedAssumption == Repaired \subseteq {"user_id"}

VARIABLES
  revision,     \* the number of scripts applied; 8 is 8310a5722e11, the head
  schema,       \* tables, columns, foreign keys, enums and indexes
  users,        \* rows of users: their organization_id and role
  members,      \* rows of organization_members
  creators      \* users that jobs.created_by refers to

rows == <<users, members, creators>>
vars == <<revision, schema, rows>>

Latest == 8
Tenancy == 7    \* 0007_simplify_tenancy moves tenancy from memberships to users

Empty == [tables |-> {}, columns |-> {}, keys |-> {}, enums |-> {}, indexes |-> {}]

-----------------------------------------------------------------------------
(* Operations on a database d: its schema, its rows, and whether the run is  *)
(* still successful.                                                         *)

Col(t, c, type)   == [table |-> t, name |-> c, type |-> type]
Key(t, to, on)    == [from |-> t, to |-> to, on |-> on]
Index(t, i)       == [table |-> t, name |-> i]
OfTable(s, t)     == {x \in s : x.table # t}

EnumTypes == {"organization_role", "user_role", "job_status", "resume_file_type",
              "resume_status", "application_status"}
Typed(d, type) == type \in EnumTypes => type \in d.schema.enums

Step(d, guard, s) == IF guard THEN [d EXCEPT !.schema = s] ELSE [d EXCEPT !.ok = FALSE]

CreateTable(d, t, cols, keys) ==
  Step(d, /\ t \notin d.schema.tables
          /\ \A c \in cols : Typed(d, c.type)
          /\ \A k \in keys : k.to \in d.schema.tables,
       [d.schema EXCEPT !.tables = @ \cup {t}, !.columns = @ \cup cols, !.keys = @ \cup keys])

DropTable(d, t) ==
  LET dropped == [d.schema EXCEPT !.tables = @ \ {t}, !.columns = OfTable(@, t),
                                  !.keys = {k \in @ : k.from # t}, !.indexes = OfTable(@, t)]
      kept == [d EXCEPT !.users    = IF t = "users" THEN << >> ELSE @,
                        !.members  = IF t = "organization_members" THEN {} ELSE @,
                        !.creators = IF t = "jobs" THEN {} ELSE @]
  IN  Step(kept, /\ t \in d.schema.tables
                 /\ \A k \in d.schema.keys : k.to = t => k.from = t, dropped)

\* checkfirst: an enum that exists is left alone, one that does not is not missed.
CreateEnum(d, e) == Step(d, TRUE, [d.schema EXCEPT !.enums = @ \cup {e}])
DropEnum(d, e) ==
  Step(d, \A c \in d.schema.columns : c.type # e, [d.schema EXCEPT !.enums = @ \ {e}])

HasColumn(s, t, c) == \E x \in s.columns : x.table = t /\ x.name = c

AddColumn(d, t, c, type) ==
  Step(d, t \in d.schema.tables /\ Typed(d, type) /\ ~HasColumn(d.schema, t, c),
       [d.schema EXCEPT !.columns = @ \cup {Col(t, c, type)}])

\* Rows forget the column's value.
Forget(d, t, c) ==
  IF t # "users" THEN d
  ELSE [d EXCEPT !.users = [u \in DOMAIN @ |->
                              [org  |-> IF c = "organization_id" THEN None ELSE @[u].org,
                               role |-> IF c = "role" THEN None ELSE @[u].role]]]

DropColumn(d, t, c) ==
  Step(Forget(d, t, c), HasColumn(d.schema, t, c),
       [d.schema EXCEPT !.columns = {x \in @ : x.table # t \/ x.name # c}])

CreateIndex(d, t, i) ==
  Step(d, /\ t \in d.schema.tables
          /\ \A x \in d.schema.indexes : x.name # i,
       [d.schema EXCEPT !.indexes = @ \cup {Index(t, i)}])
DropIndex(d, t, i) ==
  Step(d, Index(t, i) \in d.schema.indexes, [d.schema EXCEPT !.indexes = @ \ {Index(t, i)}])

CreateKey(d, key) == Step(d, key \notin d.schema.keys, [d.schema EXCEPT !.keys = @ \cup {key}])
DropKey(d, key)   == Step(d, key \in d.schema.keys, [d.schema EXCEPT !.keys = @ \ {key}])

-----------------------------------------------------------------------------
(* The operations of 0007 on rows. *)

MembersOf(d, u) == {m \in d.members : m.user = u}

\* DISTINCT ON: one of the earliest rows, any of them when they tie.
Earliest(d, u) == {m \in MembersOf(d, u) : \A n \in MembersOf(d, u) : m.at <= n.at}

Backfill(d, pick) ==
  [d EXCEPT !.users = [u \in DOMAIN @ |->
     IF MembersOf(d, u) = {} THEN @[u] ELSE [org |-> pick[u].org, role |-> pick[u].role]]]

\* DELETE FROM users WHERE organization_id IS NULL, under jobs.created_by RESTRICT.
DeleteUnplaced(d) ==
  LET gone == {u \in DOMAIN d.users : d.users[u].org = None} IN
  IF gone \cap d.creators # {} THEN [d EXCEPT !.ok = FALSE]
  ELSE [d EXCEPT !.users = [u \in DOMAIN @ \ gone |-> @[u]],
                 !.members = {m \in @ : m.user \notin gone}]

SetNotNull(d) ==
  IF \A u \in DOMAIN d.users : d.users[u].org # None /\ d.users[u].role # None
  THEN d ELSE [d EXCEPT !.ok = FALSE]

\* Fault: every account becomes an administrator's membership.
RebuildMembersAlike(d) ==
  [d EXCEPT !.members = {[user |-> u, org |-> d.users[u].org, at |-> 1,
                          role |-> CHOOSE r \in Roles : TRUE] : u \in DOMAIN d.users}]

\* created_at is NOW(): one time for all, and each user has one row.
RebuildMembers(d) ==
  IF "user_id" \notin Repaired THEN [d EXCEPT !.ok = FALSE]
  ELSE [d EXCEPT !.members = {[user |-> u, org |-> d.users[u].org, at |-> 1,
                               role |-> d.users[u].role] : u \in DOMAIN d.users}]
-----------------------------------------------------------------------------
(* The scripts. *)

UserColumns == {Col("users", "is_verified", "boolean")}
MembersTable ==
  <<"create_table", "organization_members",
    {Col("organization_members", "role", "organization_role")},
    {Key("organization_members", "organizations", "CASCADE"),
     Key("organization_members", "users", "CASCADE")}>>

Upgrade1 == <<
  <<"create_enum", "organization_role">>,
  <<"create_table", "organizations", {}, {}>>,
  <<"create_table", "users", UserColumns, {}>>,
  MembersTable,
  <<"create_table", "refresh_tokens", {}, {Key("refresh_tokens", "users", "CASCADE")}>> >>

Downgrade1 == <<
  <<"drop_table", "refresh_tokens">>, <<"drop_table", "organization_members">>,
  <<"drop_table", "users">>, <<"drop_table", "organizations">>,
  <<"drop_enum", "organization_role">> >>

Enums2 == <<
  <<"create_enum", "job_status">>, <<"create_enum", "resume_file_type">>,
  <<"create_enum", "resume_status">>, <<"create_enum", "application_status">> >>

Jobs2 == <<
  <<"create_table", "jobs", {Col("jobs", "status", "job_status")},
    {Key("jobs", "organizations", "CASCADE"), Key("jobs", "users", "RESTRICT")}>>,
  <<"create_index", "jobs", "ix_jobs_organization_id">>,
  <<"create_index", "jobs", "ix_jobs_status">>,
  <<"create_table", "job_requirements", {}, {Key("job_requirements", "jobs", "CASCADE")}>>,
  <<"create_index", "job_requirements", "ix_job_requirements_job_id">> >>

Candidates2 == <<
  <<"create_table", "candidates", {}, {Key("candidates", "organizations", "CASCADE")}>>,
  <<"create_index", "candidates", "ix_candidates_organization_id">>,
  <<"create_index", "candidates", "ix_candidates_email">> >>

Resumes2 == <<
  <<"create_table", "resumes",
    {Col("resumes", "file_type", "resume_file_type"), Col("resumes", "status", "resume_status")},
    {Key("resumes", "organizations", "CASCADE"), Key("resumes", "candidates", "CASCADE")}>>,
  <<"create_index", "resumes", "ix_resumes_organization_id">>,
  <<"create_index", "resumes", "ix_resumes_candidate_id">>,
  <<"create_index", "resumes", "ix_resumes_sha256">> >>

Applications2 == <<
  <<"create_table", "applications", {Col("applications", "status", "application_status")},
    {Key("applications", "organizations", "CASCADE"), Key("applications", "jobs", "CASCADE"),
     Key("applications", "candidates", "CASCADE"), Key("applications", "resumes", "RESTRICT")}>>,
  <<"create_index", "applications", "ix_applications_organization_id">>,
  <<"create_index", "applications", "ix_applications_job_id">>,
  <<"create_index", "applications", "ix_applications_candidate_id">>,
  <<"create_index", "applications", "ix_applications_status">> >>

Upgrade2 == Enums2 \o Jobs2 \o Candidates2 \o Resumes2 \o Applications2

\* Fault: jobs are dropped before the applications that refer to them.
Downgrade2JobsFirst == <<
  <<"drop_table", "jobs">>, <<"drop_table", "applications">>, <<"drop_table", "resumes">>,
  <<"drop_table", "candidates">>, <<"drop_table", "job_requirements">>,
  <<"drop_enum", "application_status">>, <<"drop_enum", "resume_status">>,
  <<"drop_enum", "resume_file_type">>, <<"drop_enum", "job_status">> >>

Downgrade2 == <<
  <<"drop_table", "applications">>, <<"drop_table", "resumes">>,
  <<"drop_table", "candidates">>, <<"drop_table", "job_requirements">>, <<"drop_table", "jobs">>,
  <<"drop_enum", "application_status">>, <<"drop_enum", "resume_status">>,
  <<"drop_enum", "resume_file_type">>, <<"drop_enum", "job_status">> >>

Upgrade3 == <<
  <<"create_table", "screening_results", {},
    {Key("screening_results", "organizations", "CASCADE"),
     Key("screening_results", "applications", "CASCADE")}>>,
  <<"create_index", "screening_results", "ix_screening_results_organization_id">> >>

Downgrade3 == <<
  <<"drop_index", "screening_results", "ix_screening_results_organization_id">>,
  <<"drop_table", "screening_results">> >>

\* The queue of 0004, and the queue that the downgrade of 0007 creates.
Queue(times) == <<
  <<"create_table", "screening_jobs", {Col("screening_jobs", c, "timestamp") : c \in times},
    {Key("screening_jobs", "organizations", "CASCADE"),
     Key("screening_jobs", "applications", "CASCADE")}>>,
  <<"create_index", "screening_jobs", "ix_screening_jobs_org_status">>,
  <<"create_index", "screening_jobs", "ix_screening_jobs_available_at">> >>

Upgrade4 == Queue({"started_at", "created_at"}) \o <<
  <<"create_table", "audit_events", {Col("audit_events", "request_id", "varchar(80)")},
    {Key("audit_events", "organizations", "SET NULL"), Key("audit_events", "users", "SET NULL")}>>,
  <<"create_index", "audit_events", "ix_audit_events_org_created">>,
  <<"create_index", "audit_events", "ix_audit_events_entity">> >>

Downgrade4 == <<
  <<"drop_index", "audit_events", "ix_audit_events_entity">>,
  <<"drop_index", "audit_events", "ix_audit_events_org_created">>,
  <<"drop_table", "audit_events">>,
  <<"drop_index", "screening_jobs", "ix_screening_jobs_available_at">>,
  <<"drop_index", "screening_jobs", "ix_screening_jobs_org_status">>,
  <<"drop_table", "screening_jobs">> >>

Upgrade5 == <<
  <<"create_index", "screening_results", "ix_screening_results_org_score">>,
  <<"create_index", "applications", "ix_applications_org_submitted">> >>

Downgrade5 == <<
  <<"drop_index", "applications", "ix_applications_org_submitted">>,
  <<"drop_index", "screening_results", "ix_screening_results_org_score">> >>

Upgrade6 == <<
  <<"add_column", "screening_results", "bias_flags", "jsonb">>,
  <<"add_column", "screening_results", "bias_review_required", "boolean">>,
  <<"add_column", "screening_results", "semantic_backend", "varchar(40)">>,
  <<"add_column", "screening_results", "pipeline_version", "varchar(20)">>,
  <<"create_index", "screening_results", "ix_screening_results_bias_review">> >>

Downgrade6 == <<
  <<"drop_index", "screening_results", "ix_screening_results_bias_review">>,
  <<"drop_column", "screening_results", "pipeline_version">>,
  <<"drop_column", "screening_results", "semantic_backend">>,
  <<"drop_column", "screening_results", "bias_review_required">>,
  <<"drop_column", "screening_results", "bias_flags">> >>

UsersKey == Key("users", "organizations", "CASCADE")

\* Fault: the accounts without an organization are deleted before the backfill.
Upgrade7DeletesFirst == <<
  <<"create_enum", "user_role">>,
  <<"add_column", "users", "organization_id", "uuid">>,
  <<"add_column", "users", "role", "user_role">>,
  <<"delete_unplaced">>, <<"backfill">>, <<"set_not_null">>,
  <<"create_key", UsersKey>>, <<"create_index", "users", "ix_users_organization_id">>,
  <<"drop_table", "organization_members">>, <<"drop_enum", "organization_role">>,
  <<"drop_table", "screening_jobs">>,
  <<"drop_column", "users", "is_verified">>, <<"drop_column", "audit_events", "request_id">> >>

Upgrade7 == <<
  <<"create_enum", "user_role">>,
  <<"add_column", "users", "organization_id", "uuid">>,
  <<"add_column", "users", "role", "user_role">>,
  <<"backfill">>, <<"delete_unplaced">>, <<"set_not_null">>,
  <<"create_key", UsersKey>>, <<"create_index", "users", "ix_users_organization_id">>,
  <<"drop_table", "organization_members">>, <<"drop_enum", "organization_role">>,
  <<"drop_table", "screening_jobs">>,
  <<"drop_column", "users", "is_verified">>, <<"drop_column", "audit_events", "request_id">> >>

\* Fault: the role stays on the account.
Downgrade7KeepsRole ==
  <<<<"add_column", "audit_events", "request_id", "varchar(96)">>,
    <<"add_column", "users", "is_verified", "boolean">>>>
  \o Queue({"locked_at"})
  \o <<<<"create_enum", "organization_role">>, MembersTable, <<"rebuild_members">>,
       <<"drop_index", "users", "ix_users_organization_id">>, <<"drop_key", UsersKey>>,
       <<"drop_column", "users", "organization_id">>>>

Downgrade7 ==
  <<<<"add_column", "audit_events", "request_id", "varchar(96)">>,
    <<"add_column", "users", "is_verified", "boolean">>>>
  \o Queue({"locked_at"})
  \o <<<<"create_enum", "organization_role">>, MembersTable, <<"rebuild_members">>,
       <<"drop_index", "users", "ix_users_organization_id">>, <<"drop_key", UsersKey>>,
       <<"drop_column", "users", "role">>, <<"drop_column", "users", "organization_id">>,
       <<"drop_enum", "user_role">>>>

Upgrade8   == <<<<"add_column", "users", "is_verified", "boolean">>>>
Downgrade8 == <<<<"drop_column", "users", "is_verified">>>>

Ups   == <<Upgrade1, Upgrade2, Upgrade3, Upgrade4, Upgrade5, Upgrade6, Upgrade7, Upgrade8>>
Downs == <<Downgrade1, Downgrade2, Downgrade3, Downgrade4, Downgrade5, Downgrade6, Downgrade7,
           Downgrade8>>

-----------------------------------------------------------------------------
(* A run of alembic. *)

\* pick resolves the ties of DISTINCT ON.
Apply(d, op, pick) ==
  CASE op[1] = "create_table"    -> CreateTable(d, op[2], op[3], op[4])
    [] op[1] = "drop_table"      -> DropTable(d, op[2])
    [] op[1] = "create_enum"     -> CreateEnum(d, op[2])
    [] op[1] = "drop_enum"       -> DropEnum(d, op[2])
    [] op[1] = "add_column"      -> AddColumn(d, op[2], op[3], op[4])
    [] op[1] = "drop_column"     -> DropColumn(d, op[2], op[3])
    [] op[1] = "create_index"    -> CreateIndex(d, op[2], op[3])
    [] op[1] = "drop_index"      -> DropIndex(d, op[2], op[3])
    [] op[1] = "create_key"      -> CreateKey(d, op[2])
    [] op[1] = "drop_key"        -> DropKey(d, op[2])
    [] op[1] = "backfill"        -> Backfill(d, pick)
    [] op[1] = "delete_unplaced" -> DeleteUnplaced(d)
    [] op[1] = "set_not_null"    -> SetNotNull(d)
    [] op[1] = "rebuild_members" -> RebuildMembers(d)

\* The first operation that fails raises, and the rest are not run.
Do(d, op, pick) == IF d.ok THEN Apply(d, op, pick) ELSE d

Run(d, script, pick) == FoldLeft(LAMBDA x, op : Do(x, op, pick), d, script)

\* alembic walks the chain: the scripts above from up to to, or those above to from the
\* last one down.
UpAt(k, d, from, to, pick) == IF from < k /\ k <= to THEN Run(d, Ups[k], pick) ELSE d
DownAt(k, d, from, to)     == IF to < k /\ k <= from THEN Run(d, Downs[k], << >>) ELSE d

Up(d, from, to, pick) ==
  LET At(k, x) == UpAt(k, x, from, to, pick)
  IN  At(8, At(7, At(6, At(5, At(4, At(3, At(2, At(1, d))))))))

Down(d, from, to) ==
  LET At(k, x) == DownAt(k, x, from, to)
  IN  At(1, At(2, At(3, At(4, At(5, At(6, At(7, At(8, d))))))))

Database == [ok |-> TRUE, schema |-> schema, users |-> users, members |-> members,
             creators |-> creators]

Member   == [user : Users, org : Orgs, role : Roles, at : Nat]
Picks(d) == {f \in [DOMAIN d.users -> d.members \cup {None}] :
               \A u \in DOMAIN f : IF MembersOf(d, u) = {} THEN f[u] = None
                                   ELSE f[u] \in Earliest(d, u)}

Install(d, to) ==
  /\ d.ok
  /\ revision' = to
  /\ schema' = d.schema
  /\ users' = d.users /\ members' = d.members /\ creators' = d.creators

Init ==
  /\ revision = 0 /\ schema = Empty
  /\ users = << >> /\ members = {} /\ creators = {}

\* alembic upgrade: to the head of the release that is deployed.
Upgrade(to) ==
  /\ revision < to
  /\ \E pick \in Picks(Database) : Install(Up(Database, revision, to, pick), to)

\* alembic downgrade.
Downgrade(to) ==
  /\ to < revision
  /\ Install(Down(Database, revision, to), to)

-----------------------------------------------------------------------------
(* What applications write between two runs.  The releases before 0007 are   *)
(* not in the repository; their writes are those the tables and the comments *)
(* of 0007 speak of.                                                         *)

\* register, of today (auth.py) and of the releases before.
Register(u, o, role) ==
  /\ revision > 0 /\ u \notin DOMAIN users
  /\ IF revision >= Tenancy
       THEN /\ users' = [v \in DOMAIN users \cup {u} |->
                           IF v = u THEN [org |-> o, role |-> role] ELSE users[v]]
            /\ UNCHANGED members
       ELSE /\ users' = [v \in DOMAIN users \cup {u} |->
                           IF v = u THEN [org |-> None, role |-> None] ELSE users[v]]
            /\ members' = members \cup {[user |-> u, org |-> o, role |-> role, at |-> 1]}
  /\ UNCHANGED <<revision, schema, creators>>

\* A further membership, at the time of the others or later; uq_org_member.
Join(u, o, role, at) ==
  /\ revision \in 1..(Tenancy - 1) /\ u \in DOMAIN users
  /\ \A m \in MembersOf(Database, u) : m.org # o /\ m.at <= at /\ at <= m.at + 1
  /\ members' = members \cup {[user |-> u, org |-> o, role |-> role, at |-> at]}
  /\ UNCHANGED <<revision, schema, users, creators>>

Leave(m) ==
  /\ m \in members
  /\ members' = members \ {m}
  /\ UNCHANGED <<revision, schema, users, creators>>

PostJob(u) ==
  /\ revision >= 2 /\ u \in DOMAIN users \ creators
  /\ revision < Tenancy => MembersOf(Database, u) # {}
  /\ creators' = creators \cup {u}
  /\ UNCHANGED <<revision, schema, users, members>>

DeleteJobs(u) ==
  /\ u \in creators
  /\ creators' = creators \ {u}
  /\ UNCHANGED <<revision, schema, users, members>>

Next ==
  \/ \E to \in 1..Latest : Upgrade(to)
  \/ \E to \in 0..(Latest - 1) : Downgrade(to)
  \/ \E u \in Users, o \in Orgs, role \in Roles : Register(u, o, role)
  \/ \E u \in Users, o \in Orgs, role \in Roles, at \in 1..2 : Join(u, o, role, at)
  \/ \E m \in members : Leave(m)
  \/ \E u \in Users : PostJob(u) \/ DeleteJobs(u)

Spec == Init /\ [][Next]_vars

-----------------------------------------------------------------------------
(* Properties. *)

ColumnNames == {"bias_flags", "bias_review_required", "created_at", "file_type", "is_verified",
                "locked_at", "organization_id", "pipeline_version", "request_id", "role",
                "semantic_backend", "started_at", "status"}
ColumnTypes == EnumTypes \cup {"boolean", "jsonb", "timestamp", "uuid", "varchar(20)",
                              "varchar(40)", "varchar(80)", "varchar(96)"}

\* Tenancy is in one place: in memberships below 0007, on the account from it on.
TypeOK ==
  /\ revision \in 0..Latest
  /\ schema.columns \subseteq [table : schema.tables, name : ColumnNames, type : ColumnTypes]
  /\ members \subseteq Member /\ \A m \in members : m.user \in DOMAIN users
  /\ DOMAIN users \subseteq Users /\ creators \subseteq DOMAIN users
  /\ \A u \in DOMAIN users :
       users[u] \in IF revision >= Tenancy THEN [org : Orgs, role : Roles]
                                            ELSE [org : {None}, role : {None}]
  /\ revision >= Tenancy => members = {}

\* A run removes no account that belongs somewhere, and an upgrade across 0007
\* leaves each account in the organization it joined first (0007, 48-65).
MembersKeepTheirTenant ==
  [][revision # revision' /\ revision' # 0 =>
       \A u \in DOMAIN users :
         /\ u \notin DOMAIN users' => revision < Tenancy /\ MembersOf(Database, u) = {}
         /\ u \in DOMAIN users' /\ revision < Tenancy /\ revision' >= Tenancy =>
              \E m \in MembersOf(Database, u) :
                /\ users'[u] = [org |-> m.org, role |-> m.role]
                /\ \A n \in MembersOf(Database, u) : n.at >= m.at]_vars

\* An account without a membership whose jobs hold it (jobs.created_by RESTRICT).
Held == {u \in creators : MembersOf(Database, u) = {}}

\* From every state that any sequence of runs and writes leads to, and although the
\* downgrade of 0007 restores another schema than 0004 made, the chain can be walked
\* down to its end and up to its head, with two exceptions: an upgrade stops before
\* 0007 while jobs hold an account without a membership, and a downgrade stops at 0007
\* unless the slip of its line 186 is corrected.  A run fails at its first failure, so
\* the longest run speaks for the shorter ones (env.py; 0001 to 8310a5722e11).
ChainNeverSticks ==
  LET stop == revision < Tenancy /\ Held # {}
      slip == revision >= Tenancy /\ "user_id" \notin Repaired
  IN  /\ \A pick \in Picks(Database) :
           /\ Up(Database, revision, IF stop THEN Tenancy - 1 ELSE Latest, pick).ok
           /\ stop => ~Up(Database, revision, Tenancy, pick).ok
      /\ Down(Database, revision, IF slip THEN Tenancy ELSE 0).ok
      /\ slip => ~Down(Database, revision, Tenancy - 1).ok

\* A release that was rolled back can be deployed again, and finds every account where
\* it was (0007, downgrade 178-192 and upgrade 50-63).
RollbackKeepsTenancy ==
  revision >= Tenancy => \A to \in 1..(revision - 1) :
    LET back == Down(Database, revision, to) IN
    back.ok => \A pick \in Picks(back) :
      LET again == Up(back, to, revision, pick) IN again.ok /\ again.users = users

\* What the comments of the downgrade of 0007 say (99, 113, 147, 178): it restores
\* the columns, the queue and the memberships that the upgrade removed.
DowngradeRestoresSchema ==
  revision >= Tenancy =>
    LET back == Down(Database, revision, Tenancy - 1)
        was  == Up([Database EXCEPT !.schema = Empty, !.users = << >>], 0, Tenancy - 1, << >>)
    IN  back.ok /\ back.schema = was.schema
===============================================================================
