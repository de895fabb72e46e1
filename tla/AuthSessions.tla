---------------------------- MODULE AuthSessions ----------------------------
(***************************************************************************)
(* Accounts and refresh sessions of the API: POST /auth/register, /login,  *)
(* /refresh and /logout (backend/app/api/v1/auth.py) over PostgreSQL at    *)
(* READ COMMITTED.                                                         *)
(*                                                                         *)
(* FastAPI runs these sync endpoints in a thread pool, one transaction per *)
(* request, so requests interleave between their SQL statements.  A step   *)
(* of a request is what it does from one statement other requests can      *)
(* observe to the next.  Inserted rows are invisible to the other requests *)
(* until COMMIT, except that an INSERT waits for an uncommitted row with   *)
(* the same unique key (the unique constraints of alembic 0001).           *)
(*                                                                         *)
(* A request inserts at most one row in each table, so the request itself  *)
(* stands for the primary key (a fresh UUID) of the rows it inserts: the   *)
(* organization r, the user r and the refresh token r are those request r  *)
(* wrote.                                                                  *)
(***************************************************************************)
CONSTANTS
  Requests,     \* the HTTP requests; bounds the length of a behaviour
  Emails,       \* normalised e-mail addresses (lower().strip())
  Names,        \* slugs slugify() makes of organization names
  Suffixes,     \* values of secrets.token_hex(3)
  None          \* no value

ASSUME NoneAssumption == None \notin {"USER_REGISTERED", "USER_LOGGED_IN", "USER_LOGIN_FAILED"}

VARIABLES
  \* ------------------------------------------------ committed database rows
  orgs,         \* ids in organizations; their slug is slug[id]
  users,        \* ids in users; their e-mail is email[id], their org is id
  inactive,     \* users whose is_active is false
  tokens,       \* ids in refresh_tokens
  owner,        \* refresh_tokens.user_id
  revoked,      \* refresh tokens whose revoked_at is set
  expired,      \* refresh tokens whose expires_at has passed
  audit,        \* audit_events: the event_type each request recorded
  \* ------------------------------------------------- locals of the requests
  pc,           \* the statement a request is about to execute
  kind,         \* the endpoint it called
  email,        \* payload.email
  slug,         \* the slug of the organization it registers
  presented,    \* the refresh cookie, as the row its hash identifies
  user,         \* the user row it loaded
  rows,         \* the rows the UPDATE of a logout selected
  \* ------------------------------------------------------- history variable
  usableAtStart \* the refresh tokens that were usable when it arrived

database == <<orgs, users, inactive, tokens, owner, revoked, expired, audit>>
locals   == <<kind, email, slug, presented, user, rows, usableAtStart>>
vars     == <<database, pc, locals>>

-----------------------------------------------------------------------------
Slugs == Names \X (Suffixes \cup {None})

Kinds  == {"register", "login", "refresh", "logout"}
Ended  == {"done", "failed"}
Stages == {"idle", "check_email", "check_slug", "insert_org", "insert_user",
           "register_commit", "select_user", "login_commit", "select_token",
           "refresh_commit", "revoke_update", "revoke_commit"} \cup Ended
Events == {"USER_REGISTERED", "USER_LOGGED_IN", "USER_LOGIN_FAILED"}

InFlight == {r \in Requests : pc[r] \notin Ended \cup {"idle"}}

\* A refresh token a request could rotate now.
Usable == {t \in tokens : t \notin revoked \cup expired /\ owner[t] \notin inactive}

\* Requests holding an uncommitted organization row, and an uncommitted user.
HoldsOrg  == {q \in Requests : pc[q] \in {"insert_user", "register_commit"}}
HoldsUser == {q \in Requests : pc[q] = "register_commit"}

Init ==
  /\ orgs = {} /\ users = {} /\ inactive = {}
  /\ tokens = {} /\ revoked = {} /\ expired = {}
  /\ owner         = [r \in Requests |-> None]
  /\ audit         = [r \in Requests |-> None]
  /\ pc            = [r \in Requests |-> "idle"]
  /\ kind          = [r \in Requests |-> None]
  /\ email         = [r \in Requests |-> None]
  /\ slug          = [r \in Requests |-> None]
  /\ presented     = [r \in Requests |-> None]
  /\ user          = [r \in Requests |-> None]
  /\ rows          = [r \in Requests |-> {}]
  /\ usableAtStart = [r \in Requests |-> {}]

-----------------------------------------------------------------------------
(* Arrival of a request. *)

Goto(r, stage) == pc' = [pc EXCEPT ![r] = stage]

Arrive(r, k, stage) ==
  /\ pc[r] = "idle"
  /\ kind' = [kind EXCEPT ![r] = k]
  /\ usableAtStart' = [usableAtStart EXCEPT ![r] = Usable]
  /\ Goto(r, stage)
  /\ UNCHANGED <<database, rows>>

BeginRegister(r, e, n) ==
  /\ Arrive(r, "register", "check_email")
  /\ email' = [email EXCEPT ![r] = e]
  /\ slug' = [slug EXCEPT ![r] = <<n, None>>]
  /\ UNCHANGED <<presented, user>>

BeginLogin(r, e) ==
  /\ Arrive(r, "login", "select_user")
  /\ email' = [email EXCEPT ![r] = e]
  /\ UNCHANGED <<slug, presented, user>>

\* The cookie is a token the server issued: decode_token refuses any other.
BeginRefresh(r, t) ==
  /\ t \in tokens
  /\ Arrive(r, "refresh", "select_token")
  /\ presented' = [presented EXCEPT ![r] = t]
  /\ UNCHANGED <<email, slug, user>>

\* get_current_user: an access cookie of u, whose account is still active.
\* Access tokens are not stored, so revoking refresh tokens does not end them.
BeginLogout(r, u) ==
  /\ u \in users \ inactive
  /\ Arrive(r, "logout", "revoke_update")
  /\ user' = [user EXCEPT ![r] = u]
  /\ UNCHANGED <<email, slug, presented>>

-----------------------------------------------------------------------------
(* register *)

RegisterCheckEmail(r) ==
  /\ pc[r] = "check_email"
  /\ Goto(r, IF \E u \in users : email[u] = email[r] THEN "failed" ELSE "check_slug")
  /\ UNCHANGED <<database, locals>>

RegisterCheckSlug(r) ==
  /\ pc[r] = "check_slug"
  /\ IF \E o \in orgs : slug[o] = slug[r]
       THEN \E x \in Suffixes : slug' = [slug EXCEPT ![r] = <<slug[r][1], x>>]
       ELSE UNCHANGED slug
  /\ Goto(r, "insert_org")
  /\ UNCHANGED <<database, kind, email, presented, user, rows, usableAtStart>>

\* Fault: the organization is committed by itself, before its first admin.
RegisterInsertOrgCommits(r) ==
  /\ pc[r] = "insert_org"
  /\ ~ \E o \in orgs \cup HoldsOrg : slug[o] = slug[r]
  /\ orgs' = orgs \cup {r}
  /\ Goto(r, "insert_user")
  /\ UNCHANGED <<users, inactive, tokens, owner, revoked, expired, audit, locals>>

\* Fault: a taken slug is waited for, not refused.
RegisterInsertOrgWaits(r) ==
  /\ pc[r] = "insert_org"
  /\ \A q \in HoldsOrg \cup orgs : slug[q] # slug[r]
  /\ Goto(r, "insert_user")
  /\ UNCHANGED <<database, locals>>

\* db.flush() of the organization: waits for an uncommitted row with the same
\* slug, fails on a committed one (IntegrityError, rolled back by get_db).
RegisterInsertOrg(r) ==
  /\ pc[r] = "insert_org"
  /\ \A q \in HoldsOrg : slug[q] # slug[r]
  /\ Goto(r, IF \E o \in orgs : slug[o] = slug[r] THEN "failed" ELSE "insert_user")
  /\ UNCHANGED <<database, locals>>

\* Fault: no unique constraint on users.email; the check above is all there is.
RegisterInsertUserUnchecked(r) ==
  /\ pc[r] = "insert_user"
  /\ Goto(r, "register_commit")
  /\ UNCHANGED <<database, locals>>

RegisterInsertUser(r) ==
  /\ pc[r] = "insert_user"
  /\ \A q \in HoldsUser : email[q] # email[r]
  /\ Goto(r, IF \E u \in users : email[u] = email[r] THEN "failed" ELSE "register_commit")
  /\ UNCHANGED <<database, locals>>

\* _issue_session: the refresh-token row of user u, in the caller's transaction.
IssueSession(r, u) ==
  /\ tokens' = tokens \cup {r}
  /\ owner' = [owner EXCEPT ![r] = u]

\* Fault: the endpoint's name is stored for the event type.
RecordEndpoint(r, event) == audit' = [audit EXCEPT ![r] = kind[r]]

RecordEvent(r, event) == audit' = [audit EXCEPT ![r] = event]

RegisterCommit(r) ==
  /\ pc[r] = "register_commit"
  /\ orgs' = orgs \cup {r}
  /\ users' = users \cup {r}
  /\ IssueSession(r, r)
  /\ RecordEvent(r, "USER_REGISTERED")
  /\ Goto(r, "done")
  /\ UNCHANGED <<inactive, revoked, expired, locals>>

-----------------------------------------------------------------------------
(* login *)

\* Unknown e-mail or wrong password: the failure is audited and committed.
LoginRefused(r) ==
  /\ pc[r] = "select_user"
  /\ RecordEvent(r, "USER_LOGIN_FAILED")
  /\ Goto(r, "failed")
  /\ UNCHANGED <<orgs, users, inactive, tokens, owner, revoked, expired, locals>>

LoginDisabled(r, u) ==
  /\ pc[r] = "select_user"
  /\ u \in users \cap inactive /\ email[u] = email[r]
  /\ Goto(r, "failed")
  /\ UNCHANGED <<database, locals>>

LoginAccepted(r, u) ==
  /\ pc[r] = "select_user"
  /\ u \in users \ inactive /\ email[u] = email[r]
  /\ user' = [user EXCEPT ![r] = u]
  /\ Goto(r, "login_commit")
  /\ UNCHANGED <<database, kind, email, slug, presented, rows, usableAtStart>>

LoginCommit(r) ==
  /\ pc[r] = "login_commit"
  /\ IssueSession(r, user[r])
  /\ RecordEvent(r, "USER_LOGGED_IN")
  /\ Goto(r, "done")
  /\ UNCHANGED <<orgs, users, inactive, revoked, expired, locals>>

-----------------------------------------------------------------------------
(* refresh *)

\* Fault: the lookup does not ask whether the token was revoked or expired.
RefreshLookupAny(r) ==
  /\ pc[r] = "select_token"
  /\ user' = [user EXCEPT ![r] = owner[presented[r]]]
  /\ Goto(r, "refresh_commit")
  /\ UNCHANGED <<database, kind, email, slug, presented, rows, usableAtStart>>

\* SELECT of the unrevoked token, its expiry, and the SELECT of its user.  The
\* two reads are one step: a token live at the first and a user active at the
\* second are both so at the first (no account is reactivated).
RefreshLookup(r) ==
  /\ pc[r] = "select_token"
  /\ IF presented[r] \in Usable
       THEN /\ user' = [user EXCEPT ![r] = owner[presented[r]]]
            /\ Goto(r, "refresh_commit")
       ELSE /\ Goto(r, "failed")
            /\ UNCHANGED user
  /\ UNCHANGED <<database, kind, email, slug, presented, rows, usableAtStart>>

\* Fault: the presented token stays valid beside the new one.
RefreshCommitKeeps(r) ==
  /\ pc[r] = "refresh_commit"
  /\ IssueSession(r, user[r])
  /\ Goto(r, "done")
  /\ UNCHANGED <<orgs, users, inactive, revoked, expired, audit, locals>>

\* The UPDATE names the row by its primary key: it does not look again whether
\* the token is still unrevoked.
RefreshCommit(r) ==
  /\ pc[r] = "refresh_commit"
  /\ revoked' = revoked \cup {presented[r]}
  /\ IssueSession(r, user[r])
  /\ Goto(r, "done")
  /\ UNCHANGED <<orgs, users, inactive, expired, audit, locals>>

-----------------------------------------------------------------------------
(* logout *)

\* Fault: one session is revoked, not all of them.
LogoutUpdateOne(r) ==
  /\ pc[r] = "revoke_update"
  /\ \E t \in tokens :
       owner[t] = user[r] /\ t \notin revoked /\ rows' = [rows EXCEPT ![r] = {t}]
  /\ Goto(r, "revoke_commit")
  /\ UNCHANGED <<database, kind, email, slug, presented, user, usableAtStart>>

\* Fault: the UPDATE does not name the user.
LogoutUpdateEveryone(r) ==
  /\ pc[r] = "revoke_update"
  /\ rows' = [rows EXCEPT ![r] = tokens \ revoked]
  /\ Goto(r, "revoke_commit")
  /\ UNCHANGED <<database, kind, email, slug, presented, user, usableAtStart>>

\* The UPDATE sees the rows committed when it starts.  Its row locks are left
\* out: they delay a refresh or a logout that writes the same rows, which then
\* writes what it would have written before.
LogoutUpdate(r) ==
  /\ pc[r] = "revoke_update"
  /\ rows' = [rows EXCEPT ![r] = {t \in tokens : owner[t] = user[r] /\ t \notin revoked}]
  /\ Goto(r, "revoke_commit")
  /\ UNCHANGED <<database, kind, email, slug, presented, user, usableAtStart>>

LogoutCommit(r) ==
  /\ pc[r] = "revoke_commit"
  /\ revoked' = revoked \cup rows[r]
  /\ Goto(r, "done")
  /\ UNCHANGED <<orgs, users, inactive, tokens, owner, expired, audit, locals>>

-----------------------------------------------------------------------------
(* Failures and the environment. *)

\* The connection is lost, the process dies or the handler raises: get_db
\* rolls back, and nothing of the transaction stays.
Abort(r) ==
  /\ r \in InFlight
  /\ Goto(r, "failed")
  /\ UNCHANGED <<database, locals>>

\* No endpoint disables an account; an operator does it in the database.
Deactivate(u) ==
  /\ u \in users \ inactive
  /\ inactive' = inactive \cup {u}
  /\ UNCHANGED <<orgs, users, tokens, owner, revoked, expired, audit, pc, locals>>

\* REFRESH_TOKEN_DAYS pass.
Expire(t) ==
  /\ t \in tokens \ expired
  /\ expired' = expired \cup {t}
  /\ UNCHANGED <<orgs, users, inactive, tokens, owner, revoked, audit, pc, locals>>

-----------------------------------------------------------------------------
Arrival(r) ==
  \/ \E e \in Emails, n \in Names : BeginRegister(r, e, n)
  \/ \E e \in Emails : BeginLogin(r, e)
  \/ \E t \in Requests : BeginRefresh(r, t)
  \/ \E u \in Requests : BeginLogout(r, u)

\* What the server does next for request r.
Serve(r) ==
  \/ RegisterCheckEmail(r)
  \/ RegisterCheckSlug(r)
  \/ RegisterInsertOrg(r)
  \/ RegisterInsertUser(r)
  \/ RegisterCommit(r)
  \/ LoginRefused(r)
  \/ \E u \in Requests : LoginDisabled(r, u)
  \/ \E u \in Requests : LoginAccepted(r, u)
  \/ LoginCommit(r)
  \/ RefreshLookup(r)
  \/ RefreshCommit(r)
  \/ LogoutUpdate(r)
  \/ LogoutCommit(r)

Next ==
  \/ \E r \in Requests : Arrival(r) \/ Serve(r) \/ Abort(r)
  \/ \E u \in Requests : Deactivate(u)
  \/ \E t \in Requests : Expire(t)

Spec == Init /\ [][Next]_vars

\* A thread that serves a request keeps running; clients, operators, the clock
\* and failures owe nothing.
Fairness == \A r \in Requests : WF_vars(Serve(r))
FairSpec == Spec /\ Fairness

-----------------------------------------------------------------------------
(* Properties. *)

\* Every variable has its type.
TypeOK ==
  /\ orgs \subseteq Requests /\ users \subseteq Requests /\ inactive \subseteq users
  /\ tokens \subseteq Requests /\ revoked \subseteq tokens /\ expired \subseteq tokens
  /\ owner \in [Requests -> users \cup {None}]
  /\ audit \in [Requests -> Events \cup {None}]
  /\ pc \in [Requests -> Stages]
  /\ kind \in [Requests -> Kinds \cup {None}]
  /\ email \in [Requests -> Emails \cup {None}]
  /\ slug \in [Requests -> Slugs \cup {None}]
  /\ presented \in [Requests -> tokens \cup {None}]
  /\ user \in [Requests -> users \cup {None}]
  /\ rows \in [Requests -> SUBSET tokens]
  /\ usableAtStart \in [Requests -> SUBSET tokens]

\* However registrations interleave between the SELECT that finds an e-mail or
\* a slug free and the INSERT, no two accounts share an e-mail and no two
\* organizations a slug (register, 124-170).
UniqueAccounts ==
  /\ \A u, v \in users : email[u] = email[v] => u = v
  /\ \A o, p \in orgs : slug[o] = slug[p] => o = p

\* A registration that fails half-way (a constraint, a lost connection) leaves
\* nothing: organization, first admin, session and audit row appear together,
\* and a session that no token was exchanged for has an audit row, and the
\* reverse (register and login commit once, at the end).
SessionsAudited ==
  /\ orgs = users
  /\ \A r \in Requests :
       /\ r \in users <=> audit[r] = "USER_REGISTERED"
       /\ r \in tokens /\ kind[r] # "refresh"
            <=> audit[r] \in {"USER_REGISTERED", "USER_LOGGED_IN"}

\* The sessions of a user form chains that start at a registration or a login:
\* each token exchanged by refresh is revoked and belongs to the same user as
\* the token that replaced it.
RotationLineage ==
  \A r \in tokens : kind[r] = "refresh" =>
    /\ presented[r] \in revoked
    /\ owner[presented[r]] = owner[r]

\* A refresh that arrives when its token is already revoked, rotated away,
\* expired or its account disabled never obtains a session, whatever else runs
\* meanwhile (refresh, 382-430).
NoSessionFromDeadToken ==
  \A r \in tokens : kind[r] = "refresh" => presented[r] \in usableAtStart[r]

\* Once a logout has answered, every session of the user that was committed
\* when it arrived is revoked, also those a concurrent refresh has read.
LogoutRevokesPrior ==
  \A r \in Requests : kind[r] = "logout" /\ pc[r] = "done" =>
    \A t \in usableAtStart[r] : owner[t] = user[r] => t \in revoked

\* Rows of refresh_tokens are never deleted or handed to another user, and no
\* step makes a revoked token valid again, although refresh and logout write
\* revoked_at from rows they read earlier.
RevocationIsPermanent ==
  [][/\ tokens \subseteq tokens'
     /\ revoked \subseteq revoked'
     /\ \A t \in tokens : owner'[t] = owner[t]]_<<tokens, revoked, owner>>

\* Every request is answered: registrations that wait for each other's unique
\* keys never wait in a circle, since all insert the organization first.
RequestsFinish == \A r \in Requests : r \in InFlight ~> pc[r] \in Ended

\* What the comment on the rotation promises (refresh, 432-437): the presented
\* token is revoked before a new one is created, so it is exchanged at most once.
SingleSuccessor ==
  \A r, q \in tokens :
    kind[r] = "refresh" /\ kind[q] = "refresh" /\ presented[r] = presented[q] => r = q

\* The ledger of sessions, read off the tables.
Ledger == INSTANCE SessionLedger WITH
  Tokens   <- Requests,
  begun    <- {r \in Requests : pc[r] # "idle"},
  found    <- usableAtStart,
  answered <- {r \in Requests : pc[r] = "done"},
  open     <- Usable,
  closed   <- tokens \ Usable,
  holder   <- owner,
  chain    <- {<<presented[r], r>> : r \in {t \in tokens : kind[t] = "refresh"}}

\* In every interleaving, with aborts, expiry and disabled accounts, a token is
\* exchanged only by a request that arrived when it was open, for a token of the
\* same user, and a logout that has answered has closed every session it found
\* on arrival and nobody else's (refresh, 382-447; logout, 465-477).
LedgerSpec == Ledger!Spec
=============================================================================
