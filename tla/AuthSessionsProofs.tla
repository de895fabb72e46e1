------------------------- MODULE AuthSessionsProofs -------------------------
(***************************************************************************)
(* Proofs about AuthSessions, for every set of requests, e-mails, names    *)
(* and suffixes and every number of concurrent requests.                   *)
(*                                                                         *)
(* None of the properties is inductive by itself: each depends on what a   *)
(* request read before its last statement and on which rows can exist      *)
(* while it runs.  IInv states that, and every property follows from it.   *)
(***************************************************************************)
EXTENDS AuthSessions, TLAPS

Registering(r) == pc[r] \in {"check_email", "check_slug", "insert_org",
                             "insert_user", "register_commit"}

\* A request writes its rows in its last step only, and what it read earlier is
\* still there when it writes.
LocalsInv ==
  \A r \in Requests :
    /\ pc[r] # "done" => r \notin orgs \cup users \cup tokens
    /\ pc[r] \notin Ended => audit[r] = None
    /\ Registering(r) => kind[r] = "register" /\ email[r] \in Emails /\ slug[r] \in Slugs
    /\ pc[r] \in {"select_user", "login_commit"} => kind[r] = "login"
    /\ pc[r] \in {"select_token", "refresh_commit"} =>
         kind[r] = "refresh" /\ presented[r] \in tokens
    /\ pc[r] = "refresh_commit" => user[r] = owner[presented[r]]
    /\ pc[r] \in {"revoke_update", "revoke_commit"} => kind[r] = "logout"
    /\ pc[r] \in {"login_commit", "revoke_update", "revoke_commit"} => user[r] \in users
    /\ pc[r] = "revoke_commit" => \A t \in rows[r] : owner[t] = user[r]

\* An inserted row reserves its unique key until its transaction ends.
KeysInv ==
  /\ \A q \in HoldsOrg : /\ \A o \in orgs : slug[o] # slug[q]
                         /\ \A p \in HoldsOrg : slug[p] = slug[q] => p = q
  /\ \A q \in HoldsUser : /\ \A u \in users : email[u] # email[q]
                          /\ \A p \in HoldsUser : email[p] = email[q] => p = q

\* A token usable now was usable when a request that presents it arrived, since
\* no step makes an existing token usable again.
PresentedInv ==
  \A r \in Requests :
    /\ pc[r] = "select_token" /\ presented[r] \in Usable => presented[r] \in usableAtStart[r]
    /\ pc[r] = "refresh_commit" => presented[r] \in usableAtStart[r]

\* The rows a logout selected cover the tokens that were usable when it arrived.
LogoutInv ==
  \A r \in Requests :
    pc[r] = "revoke_commit" =>
      \A t \in usableAtStart[r] : owner[t] = user[r] => t \in rows[r] \cup revoked

IInv ==
  /\ TypeOK /\ LocalsInv /\ KeysInv /\ PresentedInv /\ LogoutInv
  /\ UniqueAccounts /\ SessionsAudited /\ RotationLineage
  /\ NoSessionFromDeadToken /\ LogoutRevokesPrior

USE DEF database, locals, Slugs, Kinds, Ended, Stages, Events, Goto

\* A request never writes a value outside the types.
LEMMA TypeStep == IInv /\ [Next]_vars => TypeOK'
<1> SUFFICES ASSUME IInv, [Next]_vars PROVE TypeOK'
  OBVIOUS
<1> USE DEF IInv, TypeOK, Usable
<1>1. ASSUME NEW r \in Requests, NEW e \in Emails, NEW n \in Names, BeginRegister(r, e, n) PROVE TypeOK'
  BY <1>1 DEF BeginRegister, Arrive
<1>2. ASSUME NEW r \in Requests, NEW e \in Emails, BeginLogin(r, e) PROVE TypeOK'
  BY <1>2 DEF BeginLogin, Arrive
<1>3. ASSUME NEW r \in Requests, NEW t \in Requests, BeginRefresh(r, t) PROVE TypeOK'
  BY <1>3 DEF BeginRefresh, Arrive
<1>4. ASSUME NEW r \in Requests, NEW u \in Requests, BeginLogout(r, u) PROVE TypeOK'
  BY <1>4 DEF BeginLogout, Arrive
<1>5. ASSUME NEW r \in Requests, RegisterCheckEmail(r) PROVE TypeOK'
  BY <1>5 DEF RegisterCheckEmail
<1>6. ASSUME NEW r \in Requests, RegisterCheckSlug(r) PROVE TypeOK'
  BY <1>6 DEF RegisterCheckSlug, LocalsInv, Registering
<1>7. ASSUME NEW r \in Requests, RegisterInsertOrg(r) PROVE TypeOK'
  BY <1>7 DEF RegisterInsertOrg
<1>8. ASSUME NEW r \in Requests, RegisterInsertUser(r) PROVE TypeOK'
  BY <1>8 DEF RegisterInsertUser
<1>9. ASSUME NEW r \in Requests, RegisterCommit(r) PROVE TypeOK'
  BY <1>9 DEF RegisterCommit, IssueSession, RecordEvent
<1>10. ASSUME NEW r \in Requests, LoginRefused(r) PROVE TypeOK'
  BY <1>10 DEF LoginRefused, RecordEvent
<1>11. ASSUME NEW r \in Requests, LoginCommit(r) PROVE TypeOK'
  BY <1>11 DEF LoginCommit, IssueSession, RecordEvent
<1>12. ASSUME NEW r \in Requests, RefreshLookup(r) PROVE TypeOK'
  BY <1>12 DEF RefreshLookup
<1>13. ASSUME NEW r \in Requests, RefreshCommit(r) PROVE TypeOK'
  BY <1>13 DEF RefreshCommit, IssueSession, LocalsInv, Registering
<1>14. ASSUME NEW r \in Requests, LogoutUpdate(r) PROVE TypeOK'
  BY <1>14 DEF LogoutUpdate
<1>15. ASSUME NEW r \in Requests, LogoutCommit(r) PROVE TypeOK'
  BY <1>15 DEF LogoutCommit
<1>16. ASSUME NEW r \in Requests, Abort(r) PROVE TypeOK'
  BY <1>16 DEF Abort, InFlight
<1>17. ASSUME NEW r \in Requests, NEW u \in Requests, LoginDisabled(r, u) PROVE TypeOK'
  BY <1>17 DEF LoginDisabled
<1>18. ASSUME NEW r \in Requests, NEW u \in Requests, LoginAccepted(r, u) PROVE TypeOK'
  BY <1>18 DEF LoginAccepted
<1>19. ASSUME NEW u \in Requests, Deactivate(u) PROVE TypeOK'
  BY <1>19 DEF Deactivate
<1>20. ASSUME NEW t \in Requests, Expire(t) PROVE TypeOK'
  BY <1>20 DEF Expire
<1>21. CASE UNCHANGED vars
  BY <1>21 DEF vars
<1>22. QED
  BY <1>1, <1>2, <1>3, <1>4, <1>5, <1>6, <1>7, <1>8, <1>9, <1>10,
     <1>11, <1>12, <1>13, <1>14, <1>15, <1>16, <1>17, <1>18, <1>19, <1>20, <1>21 DEF Next, Arrival, Serve

\* Nothing another request does disturbs what a request has read.
LEMMA LocalsStep == IInv /\ [Next]_vars => LocalsInv'
<1> SUFFICES ASSUME IInv, [Next]_vars PROVE LocalsInv'
  OBVIOUS
<1> USE DEF IInv, TypeOK, LocalsInv, Registering, Usable
<1>1. ASSUME NEW r \in Requests, NEW e \in Emails, NEW n \in Names, BeginRegister(r, e, n) PROVE LocalsInv'
  BY <1>1 DEF BeginRegister, Arrive
<1>2. ASSUME NEW r \in Requests, NEW e \in Emails, BeginLogin(r, e) PROVE LocalsInv'
  BY <1>2 DEF BeginLogin, Arrive
<1>3. ASSUME NEW r \in Requests, NEW t \in Requests, BeginRefresh(r, t) PROVE LocalsInv'
  BY <1>3 DEF BeginRefresh, Arrive
<1>4. ASSUME NEW r \in Requests, NEW u \in Requests, BeginLogout(r, u) PROVE LocalsInv'
  BY <1>4 DEF BeginLogout, Arrive
<1>5. ASSUME NEW r \in Requests, RegisterCheckEmail(r) PROVE LocalsInv'
  BY <1>5 DEF RegisterCheckEmail
<1>6. ASSUME NEW r \in Requests, RegisterCheckSlug(r) PROVE LocalsInv'
  BY <1>6 DEF RegisterCheckSlug
<1>7. ASSUME NEW r \in Requests, RegisterInsertOrg(r) PROVE LocalsInv'
  BY <1>7 DEF RegisterInsertOrg
<1>8. ASSUME NEW r \in Requests, RegisterInsertUser(r) PROVE LocalsInv'
  BY <1>8 DEF RegisterInsertUser
<1>9. ASSUME NEW r \in Requests, RegisterCommit(r) PROVE LocalsInv'
  BY <1>9 DEF RegisterCommit, IssueSession, RecordEvent
<1>10. ASSUME NEW r \in Requests, LoginRefused(r) PROVE LocalsInv'
  BY <1>10 DEF LoginRefused, RecordEvent
<1>11. ASSUME NEW r \in Requests, LoginCommit(r) PROVE LocalsInv'
  BY <1>11 DEF LoginCommit, IssueSession, RecordEvent
<1>12. ASSUME NEW r \in Requests, RefreshLookup(r) PROVE LocalsInv'
  BY <1>12 DEF RefreshLookup
<1>13. ASSUME NEW r \in Requests, RefreshCommit(r) PROVE LocalsInv'
  BY <1>13 DEF RefreshCommit, IssueSession
<1>14. ASSUME NEW r \in Requests, LogoutUpdate(r) PROVE LocalsInv'
  BY <1>14 DEF LogoutUpdate
<1>15. ASSUME NEW r \in Requests, LogoutCommit(r) PROVE LocalsInv'
  BY <1>15 DEF LogoutCommit
<1>16. ASSUME NEW r \in Requests, Abort(r) PROVE LocalsInv'
  BY <1>16 DEF Abort, InFlight
<1>17. ASSUME NEW r \in Requests, NEW u \in Requests, LoginDisabled(r, u) PROVE LocalsInv'
  BY <1>17 DEF LoginDisabled
<1>18. ASSUME NEW r \in Requests, NEW u \in Requests, LoginAccepted(r, u) PROVE LocalsInv'
  BY <1>18 DEF LoginAccepted
<1>19. ASSUME NEW u \in Requests, Deactivate(u) PROVE LocalsInv'
  BY <1>19 DEF Deactivate
<1>20. ASSUME NEW t \in Requests, Expire(t) PROVE LocalsInv'
  BY <1>20 DEF Expire
<1>21. CASE UNCHANGED vars
  BY <1>21 DEF vars
<1>22. QED
  BY <1>1, <1>2, <1>3, <1>4, <1>5, <1>6, <1>7, <1>8, <1>9, <1>10,
     <1>11, <1>12, <1>13, <1>14, <1>15, <1>16, <1>17, <1>18, <1>19, <1>20, <1>21 DEF Next, Arrival, Serve

\* Unique keys are reserved from the INSERT to the COMMIT.
LEMMA KeysStep == IInv /\ [Next]_vars => (KeysInv /\ UniqueAccounts)'
<1> SUFFICES ASSUME IInv, [Next]_vars PROVE (KeysInv /\ UniqueAccounts)'
  OBVIOUS
<1> USE DEF IInv, TypeOK, LocalsInv, Registering, KeysInv, UniqueAccounts, HoldsOrg, HoldsUser
<1>1. ASSUME NEW r \in Requests, NEW e \in Emails, NEW n \in Names, BeginRegister(r, e, n) PROVE (KeysInv /\ UniqueAccounts)'
  BY <1>1 DEF BeginRegister, Arrive
<1>2. ASSUME NEW r \in Requests, NEW e \in Emails, BeginLogin(r, e) PROVE (KeysInv /\ UniqueAccounts)'
  BY <1>2 DEF BeginLogin, Arrive
<1>3. ASSUME NEW r \in Requests, NEW t \in Requests, BeginRefresh(r, t) PROVE (KeysInv /\ UniqueAccounts)'
  BY <1>3 DEF BeginRefresh, Arrive
<1>4. ASSUME NEW r \in Requests, NEW u \in Requests, BeginLogout(r, u) PROVE (KeysInv /\ UniqueAccounts)'
  BY <1>4 DEF BeginLogout, Arrive
<1>5. ASSUME NEW r \in Requests, RegisterCheckEmail(r) PROVE (KeysInv /\ UniqueAccounts)'
  BY <1>5 DEF RegisterCheckEmail
<1>6. ASSUME NEW r \in Requests, RegisterCheckSlug(r) PROVE (KeysInv /\ UniqueAccounts)'
  BY <1>6 DEF RegisterCheckSlug
<1>7. ASSUME NEW r \in Requests, RegisterInsertOrg(r) PROVE (KeysInv /\ UniqueAccounts)'
  BY <1>7 DEF RegisterInsertOrg
<1>8. ASSUME NEW r \in Requests, RegisterInsertUser(r) PROVE (KeysInv /\ UniqueAccounts)'
  BY <1>8 DEF RegisterInsertUser
<1>9. ASSUME NEW r \in Requests, RegisterCommit(r) PROVE (KeysInv /\ UniqueAccounts)'
  BY <1>9 DEF RegisterCommit, IssueSession, RecordEvent
<1>10. ASSUME NEW r \in Requests, LoginRefused(r) PROVE (KeysInv /\ UniqueAccounts)'
  BY <1>10 DEF LoginRefused, RecordEvent
<1>11. ASSUME NEW r \in Requests, LoginCommit(r) PROVE (KeysInv /\ UniqueAccounts)'
  BY <1>11 DEF LoginCommit, IssueSession, RecordEvent
<1>12. ASSUME NEW r \in Requests, RefreshLookup(r) PROVE (KeysInv /\ UniqueAccounts)'
  BY <1>12 DEF RefreshLookup
<1>13. ASSUME NEW r \in Requests, RefreshCommit(r) PROVE (KeysInv /\ UniqueAccounts)'
  BY <1>13 DEF RefreshCommit, IssueSession
<1>14. ASSUME NEW r \in Requests, LogoutUpdate(r) PROVE (KeysInv /\ UniqueAccounts)'
  BY <1>14 DEF LogoutUpdate
<1>15. ASSUME NEW r \in Requests, LogoutCommit(r) PROVE (KeysInv /\ UniqueAccounts)'
  BY <1>15 DEF LogoutCommit
<1>16. ASSUME NEW r \in Requests, Abort(r) PROVE (KeysInv /\ UniqueAccounts)'
  BY <1>16 DEF Abort, InFlight
<1>17. ASSUME NEW r \in Requests, NEW u \in Requests, LoginDisabled(r, u) PROVE (KeysInv /\ UniqueAccounts)'
  BY <1>17 DEF LoginDisabled
<1>18. ASSUME NEW r \in Requests, NEW u \in Requests, LoginAccepted(r, u) PROVE (KeysInv /\ UniqueAccounts)'
  BY <1>18 DEF LoginAccepted
<1>19. ASSUME NEW u \in Requests, Deactivate(u) PROVE (KeysInv /\ UniqueAccounts)'
  BY <1>19 DEF Deactivate
<1>20. ASSUME NEW t \in Requests, Expire(t) PROVE (KeysInv /\ UniqueAccounts)'
  BY <1>20 DEF Expire
<1>21. CASE UNCHANGED vars
  BY <1>21 DEF vars
<1>22. QED
  BY <1>1, <1>2, <1>3, <1>4, <1>5, <1>6, <1>7, <1>8, <1>9, <1>10,
     <1>11, <1>12, <1>13, <1>14, <1>15, <1>16, <1>17, <1>18, <1>19, <1>20, <1>21 DEF Next, Arrival, Serve

\* Rows that belong together are committed together.
LEMMA AuditStep == IInv /\ [Next]_vars => SessionsAudited'
<1> SUFFICES ASSUME IInv, [Next]_vars PROVE SessionsAudited'
  OBVIOUS
<1> USE DEF IInv, TypeOK, LocalsInv, Registering, SessionsAudited
<1>1. ASSUME NEW r \in Requests, NEW e \in Emails, NEW n \in Names, BeginRegister(r, e, n) PROVE SessionsAudited'
  BY <1>1 DEF BeginRegister, Arrive
<1>2. ASSUME NEW r \in Requests, NEW e \in Emails, BeginLogin(r, e) PROVE SessionsAudited'
  BY <1>2 DEF BeginLogin, Arrive
<1>3. ASSUME NEW r \in Requests, NEW t \in Requests, BeginRefresh(r, t) PROVE SessionsAudited'
  BY <1>3 DEF BeginRefresh, Arrive
<1>4. ASSUME NEW r \in Requests, NEW u \in Requests, BeginLogout(r, u) PROVE SessionsAudited'
  BY <1>4 DEF BeginLogout, Arrive
<1>5. ASSUME NEW r \in Requests, RegisterCheckEmail(r) PROVE SessionsAudited'
  BY <1>5 DEF RegisterCheckEmail
<1>6. ASSUME NEW r \in Requests, RegisterCheckSlug(r) PROVE SessionsAudited'
  BY <1>6 DEF RegisterCheckSlug
<1>7. ASSUME NEW r \in Requests, RegisterInsertOrg(r) PROVE SessionsAudited'
  BY <1>7 DEF RegisterInsertOrg
<1>8. ASSUME NEW r \in Requests, RegisterInsertUser(r) PROVE SessionsAudited'
  BY <1>8 DEF RegisterInsertUser
<1>9. ASSUME NEW r \in Requests, RegisterCommit(r) PROVE SessionsAudited'
  BY <1>9 DEF RegisterCommit, IssueSession, RecordEvent
<1>10. ASSUME NEW r \in Requests, LoginRefused(r) PROVE SessionsAudited'
  BY <1>10 DEF LoginRefused, RecordEvent
<1>11. ASSUME NEW r \in Requests, LoginCommit(r) PROVE SessionsAudited'
  BY <1>11 DEF LoginCommit, IssueSession, RecordEvent
<1>12. ASSUME NEW r \in Requests, RefreshLookup(r) PROVE SessionsAudited'
  BY <1>12 DEF RefreshLookup
<1>13. ASSUME NEW r \in Requests, RefreshCommit(r) PROVE SessionsAudited'
  BY <1>13 DEF RefreshCommit, IssueSession
<1>14. ASSUME NEW r \in Requests, LogoutUpdate(r) PROVE SessionsAudited'
  BY <1>14 DEF LogoutUpdate
<1>15. ASSUME NEW r \in Requests, LogoutCommit(r) PROVE SessionsAudited'
  BY <1>15 DEF LogoutCommit
<1>16. ASSUME NEW r \in Requests, Abort(r) PROVE SessionsAudited'
  BY <1>16 DEF Abort, InFlight
<1>17. ASSUME NEW r \in Requests, NEW u \in Requests, LoginDisabled(r, u) PROVE SessionsAudited'
  BY <1>17 DEF LoginDisabled
<1>18. ASSUME NEW r \in Requests, NEW u \in Requests, LoginAccepted(r, u) PROVE SessionsAudited'
  BY <1>18 DEF LoginAccepted
<1>19. ASSUME NEW u \in Requests, Deactivate(u) PROVE SessionsAudited'
  BY <1>19 DEF Deactivate
<1>20. ASSUME NEW t \in Requests, Expire(t) PROVE SessionsAudited'
  BY <1>20 DEF Expire
<1>21. CASE UNCHANGED vars
  BY <1>21 DEF vars
<1>22. QED
  BY <1>1, <1>2, <1>3, <1>4, <1>5, <1>6, <1>7, <1>8, <1>9, <1>10,
     <1>11, <1>12, <1>13, <1>14, <1>15, <1>16, <1>17, <1>18, <1>19, <1>20, <1>21 DEF Next, Arrival, Serve

\* A refresh ends the token it was given and continues the same user's session.
LEMMA RotationStep == IInv /\ [Next]_vars => (PresentedInv /\ NoSessionFromDeadToken /\ RotationLineage)'
<1> SUFFICES ASSUME IInv, [Next]_vars PROVE (PresentedInv /\ NoSessionFromDeadToken /\ RotationLineage)'
  OBVIOUS
<1> USE DEF IInv, TypeOK, LocalsInv, Registering, Usable, PresentedInv, NoSessionFromDeadToken, RotationLineage
<1>1. ASSUME NEW r \in Requests, NEW e \in Emails, NEW n \in Names, BeginRegister(r, e, n) PROVE (PresentedInv /\ NoSessionFromDeadToken /\ RotationLineage)'
  BY <1>1 DEF BeginRegister, Arrive
<1>2. ASSUME NEW r \in Requests, NEW e \in Emails, BeginLogin(r, e) PROVE (PresentedInv /\ NoSessionFromDeadToken /\ RotationLineage)'
  BY <1>2 DEF BeginLogin, Arrive
<1>3. ASSUME NEW r \in Requests, NEW t \in Requests, BeginRefresh(r, t) PROVE (PresentedInv /\ NoSessionFromDeadToken /\ RotationLineage)'
  BY <1>3 DEF BeginRefresh, Arrive
<1>4. ASSUME NEW r \in Requests, NEW u \in Requests, BeginLogout(r, u) PROVE (PresentedInv /\ NoSessionFromDeadToken /\ RotationLineage)'
  BY <1>4 DEF BeginLogout, Arrive
<1>5. ASSUME NEW r \in Requests, RegisterCheckEmail(r) PROVE (PresentedInv /\ NoSessionFromDeadToken /\ RotationLineage)'
  BY <1>5 DEF RegisterCheckEmail
<1>6. ASSUME NEW r \in Requests, RegisterCheckSlug(r) PROVE (PresentedInv /\ NoSessionFromDeadToken /\ RotationLineage)'
  BY <1>6 DEF RegisterCheckSlug
<1>7. ASSUME NEW r \in Requests, RegisterInsertOrg(r) PROVE (PresentedInv /\ NoSessionFromDeadToken /\ RotationLineage)'
  BY <1>7 DEF RegisterInsertOrg
<1>8. ASSUME NEW r \in Requests, RegisterInsertUser(r) PROVE (PresentedInv /\ NoSessionFromDeadToken /\ RotationLineage)'
  BY <1>8 DEF RegisterInsertUser
<1>9. ASSUME NEW r \in Requests, RegisterCommit(r) PROVE (PresentedInv /\ NoSessionFromDeadToken /\ RotationLineage)'
  <2> USE <1>9 DEF RegisterCommit, IssueSession, RecordEvent
  <2>1. r \notin tokens /\ kind[r] = "register" /\ pc' = [pc EXCEPT ![r] = "done"]
    OBVIOUS
  <2>2. \A t \in tokens : owner'[t] = owner[t]
    BY <2>1
  <2>3. PresentedInv'
    BY <2>1, <2>2
  <2>4. NoSessionFromDeadToken'
    BY <2>1
  <2>5. RotationLineage'
    BY <2>1, <2>2
  <2>6. QED
    BY <2>3, <2>4, <2>5
<1>10. ASSUME NEW r \in Requests, LoginRefused(r) PROVE (PresentedInv /\ NoSessionFromDeadToken /\ RotationLineage)'
  BY <1>10 DEF LoginRefused, RecordEvent
<1>11. ASSUME NEW r \in Requests, LoginCommit(r) PROVE (PresentedInv /\ NoSessionFromDeadToken /\ RotationLineage)'
  BY <1>11 DEF LoginCommit, IssueSession, RecordEvent
<1>12. ASSUME NEW r \in Requests, RefreshLookup(r) PROVE (PresentedInv /\ NoSessionFromDeadToken /\ RotationLineage)'
  BY <1>12 DEF RefreshLookup
<1>13. ASSUME NEW r \in Requests, RefreshCommit(r) PROVE (PresentedInv /\ NoSessionFromDeadToken /\ RotationLineage)'
  BY <1>13 DEF RefreshCommit, IssueSession
<1>14. ASSUME NEW r \in Requests, LogoutUpdate(r) PROVE (PresentedInv /\ NoSessionFromDeadToken /\ RotationLineage)'
  BY <1>14 DEF LogoutUpdate
<1>15. ASSUME NEW r \in Requests, LogoutCommit(r) PROVE (PresentedInv /\ NoSessionFromDeadToken /\ RotationLineage)'
  BY <1>15 DEF LogoutCommit
<1>16. ASSUME NEW r \in Requests, Abort(r) PROVE (PresentedInv /\ NoSessionFromDeadToken /\ RotationLineage)'
  BY <1>16 DEF Abort, InFlight
<1>17. ASSUME NEW r \in Requests, NEW u \in Requests, LoginDisabled(r, u) PROVE (PresentedInv /\ NoSessionFromDeadToken /\ RotationLineage)'
  BY <1>17 DEF LoginDisabled
<1>18. ASSUME NEW r \in Requests, NEW u \in Requests, LoginAccepted(r, u) PROVE (PresentedInv /\ NoSessionFromDeadToken /\ RotationLineage)'
  BY <1>18 DEF LoginAccepted
<1>19. ASSUME NEW u \in Requests, Deactivate(u) PROVE (PresentedInv /\ NoSessionFromDeadToken /\ RotationLineage)'
  BY <1>19 DEF Deactivate
<1>20. ASSUME NEW t \in Requests, Expire(t) PROVE (PresentedInv /\ NoSessionFromDeadToken /\ RotationLineage)'
  BY <1>20 DEF Expire
<1>21. CASE UNCHANGED vars
  BY <1>21 DEF vars
<1>22. QED
  BY <1>1, <1>2, <1>3, <1>4, <1>5, <1>6, <1>7, <1>8, <1>9, <1>10,
     <1>11, <1>12, <1>13, <1>14, <1>15, <1>16, <1>17, <1>18, <1>19, <1>20, <1>21 DEF Next, Arrival, Serve

\* A logout revokes at least the tokens that were usable when it arrived.
LEMMA LogoutStep == IInv /\ [Next]_vars => (LogoutInv /\ LogoutRevokesPrior)'
<1> SUFFICES ASSUME IInv, [Next]_vars PROVE (LogoutInv /\ LogoutRevokesPrior)'
  OBVIOUS
<1> USE DEF IInv, TypeOK, LocalsInv, Registering, Usable, LogoutInv, LogoutRevokesPrior
<1>1. ASSUME NEW r \in Requests, NEW e \in Emails, NEW n \in Names, BeginRegister(r, e, n) PROVE (LogoutInv /\ LogoutRevokesPrior)'
  BY <1>1 DEF BeginRegister, Arrive
<1>2. ASSUME NEW r \in Requests, NEW e \in Emails, BeginLogin(r, e) PROVE (LogoutInv /\ LogoutRevokesPrior)'
  BY <1>2 DEF BeginLogin, Arrive
<1>3. ASSUME NEW r \in Requests, NEW t \in Requests, BeginRefresh(r, t) PROVE (LogoutInv /\ LogoutRevokesPrior)'
  BY <1>3 DEF BeginRefresh, Arrive
<1>4. ASSUME NEW r \in Requests, NEW u \in Requests, BeginLogout(r, u) PROVE (LogoutInv /\ LogoutRevokesPrior)'
  BY <1>4 DEF BeginLogout, Arrive
<1>5. ASSUME NEW r \in Requests, RegisterCheckEmail(r) PROVE (LogoutInv /\ LogoutRevokesPrior)'
  BY <1>5 DEF RegisterCheckEmail
<1>6. ASSUME NEW r \in Requests, RegisterCheckSlug(r) PROVE (LogoutInv /\ LogoutRevokesPrior)'
  BY <1>6 DEF RegisterCheckSlug
<1>7. ASSUME NEW r \in Requests, RegisterInsertOrg(r) PROVE (LogoutInv /\ LogoutRevokesPrior)'
  BY <1>7 DEF RegisterInsertOrg
<1>8. ASSUME NEW r \in Requests, RegisterInsertUser(r) PROVE (LogoutInv /\ LogoutRevokesPrior)'
  BY <1>8 DEF RegisterInsertUser
<1>9. ASSUME NEW r \in Requests, RegisterCommit(r) PROVE (LogoutInv /\ LogoutRevokesPrior)'
  <2> USE <1>9 DEF RegisterCommit, IssueSession, RecordEvent
  <2>1. r \notin tokens /\ kind[r] = "register" /\ pc' = [pc EXCEPT ![r] = "done"]
    OBVIOUS
  <2>2. \A t \in tokens : owner'[t] = owner[t]
    BY <2>1
  <2>3. LogoutInv'
    BY <2>1, <2>2
  <2>4. LogoutRevokesPrior'
    BY <2>1, <2>2
  <2>5. QED
    BY <2>3, <2>4
<1>10. ASSUME NEW r \in Requests, LoginRefused(r) PROVE (LogoutInv /\ LogoutRevokesPrior)'
  BY <1>10 DEF LoginRefused, RecordEvent
<1>11. ASSUME NEW r \in Requests, LoginCommit(r) PROVE (LogoutInv /\ LogoutRevokesPrior)'
  BY <1>11 DEF LoginCommit, IssueSession, RecordEvent
<1>12. ASSUME NEW r \in Requests, RefreshLookup(r) PROVE (LogoutInv /\ LogoutRevokesPrior)'
  BY <1>12 DEF RefreshLookup
<1>13. ASSUME NEW r \in Requests, RefreshCommit(r) PROVE (LogoutInv /\ LogoutRevokesPrior)'
  BY <1>13 DEF RefreshCommit, IssueSession
<1>14. ASSUME NEW r \in Requests, LogoutUpdate(r) PROVE (LogoutInv /\ LogoutRevokesPrior)'
  BY <1>14 DEF LogoutUpdate
<1>15. ASSUME NEW r \in Requests, LogoutCommit(r) PROVE (LogoutInv /\ LogoutRevokesPrior)'
  BY <1>15 DEF LogoutCommit
<1>16. ASSUME NEW r \in Requests, Abort(r) PROVE (LogoutInv /\ LogoutRevokesPrior)'
  BY <1>16 DEF Abort, InFlight
<1>17. ASSUME NEW r \in Requests, NEW u \in Requests, LoginDisabled(r, u) PROVE (LogoutInv /\ LogoutRevokesPrior)'
  BY <1>17 DEF LoginDisabled
<1>18. ASSUME NEW r \in Requests, NEW u \in Requests, LoginAccepted(r, u) PROVE (LogoutInv /\ LogoutRevokesPrior)'
  BY <1>18 DEF LoginAccepted
<1>19. ASSUME NEW u \in Requests, Deactivate(u) PROVE (LogoutInv /\ LogoutRevokesPrior)'
  BY <1>19 DEF Deactivate
<1>20. ASSUME NEW t \in Requests, Expire(t) PROVE (LogoutInv /\ LogoutRevokesPrior)'
  BY <1>20 DEF Expire
<1>21. CASE UNCHANGED vars
  BY <1>21 DEF vars
<1>22. QED
  BY <1>1, <1>2, <1>3, <1>4, <1>5, <1>6, <1>7, <1>8, <1>9, <1>10,
     <1>11, <1>12, <1>13, <1>14, <1>15, <1>16, <1>17, <1>18, <1>19, <1>20, <1>21 DEF Next, Arrival, Serve

LEMMA InitIInv == Init => IInv
<1> SUFFICES ASSUME Init PROVE IInv
  OBVIOUS
<1>1. TypeOK
  BY DEF Init, TypeOK
<1>2. LocalsInv /\ PresentedInv /\ LogoutInv
  BY DEF Init, LocalsInv, Registering, PresentedInv, LogoutInv
<1>3. KeysInv /\ UniqueAccounts
  BY DEF Init, KeysInv, HoldsOrg, HoldsUser, UniqueAccounts
<1>4. SessionsAudited
  BY NoneAssumption DEF Init, SessionsAudited
<1>5. RotationLineage /\ NoSessionFromDeadToken /\ LogoutRevokesPrior
  BY DEF Init, RotationLineage, NoSessionFromDeadToken, LogoutRevokesPrior
<1>6. QED
  BY <1>1, <1>2, <1>3, <1>4, <1>5 DEF IInv

LEMMA StepIInv == IInv /\ [Next]_vars => IInv'
  BY TypeStep, LocalsStep, KeysStep, AuditStep, RotationStep, LogoutStep DEF IInv

\* The inductive invariant holds in every reachable state.
THEOREM Invariance == Spec => []IInv
  BY InitIInv, StepIInv, PTL DEF Spec

\* The state of accounts and sessions is well-typed (auth.py, all handlers).
THEOREM TypeCorrect == Spec => []TypeOK
<1>1. IInv => TypeOK
  BY DEF IInv
<1>2. QED
  BY <1>1, Invariance, PTL

\* No interleaving of registrations creates two accounts with one e-mail or two
\* organizations with one slug (register, 124-170, and the unique constraints).
THEOREM AccountsAreUnique == Spec => []UniqueAccounts
<1>1. IInv => UniqueAccounts
  BY DEF IInv
<1>2. QED
  BY <1>1, Invariance, PTL

\* Whatever fails or is interleaved, an account, its organization, its session
\* and its audit row exist together (register and login commit once).
THEOREM SessionsAreAudited == Spec => []SessionsAudited
<1>1. IInv => SessionsAudited
  BY DEF IInv
<1>2. QED
  BY <1>1, Invariance, PTL

\* Refreshing ends the presented token and keeps the user (refresh, 382-447).
THEOREM RotationIsSound == Spec => []RotationLineage
<1>1. IInv => RotationLineage
  BY DEF IInv
<1>2. QED
  BY <1>1, Invariance, PTL

\* A refresh never succeeds for a token that was already revoked, exchanged,
\* expired or disabled when the request arrived (refresh, 382-430).
THEOREM DeadTokensOpenNothing == Spec => []NoSessionFromDeadToken
<1>1. IInv => NoSessionFromDeadToken
  BY DEF IInv
<1>2. QED
  BY <1>1, Invariance, PTL

\* An answered logout has revoked all the user's tokens that were usable when it
\* arrived, for any number of concurrent refreshes and logins (logout, 465-475).
THEOREM LogoutIsEffective == Spec => []LogoutRevokesPrior
<1>1. IInv => LogoutRevokesPrior
  BY DEF IInv
<1>2. QED
  BY <1>1, Invariance, PTL

\* No step of any request, although it writes rows read earlier, makes a revoked
\* token valid again or moves a token to another user.
THEOREM RevocationStays == Spec => RevocationIsPermanent
<1> DEFINE P == /\ tokens \subseteq tokens'
               /\ revoked \subseteq revoked'
               /\ \A t \in tokens : owner'[t] = owner[t]
<1>1. ASSUME IInv, [Next]_vars PROVE P
  <2> USE DEF IInv, TypeOK, LocalsInv
  <2>1. ASSUME NEW r \in Requests, NEW u, r \notin tokens, IssueSession(r, u)
        PROVE  tokens \subseteq tokens' /\ \A t \in tokens : owner'[t] = owner[t]
    BY <2>1 DEF IssueSession
  <2>2. ASSUME NEW r \in Requests, RegisterCommit(r) \/ LoginCommit(r) \/ RefreshCommit(r)
        PROVE  P
    BY <1>1, <2>1, <2>2 DEF RegisterCommit, LoginCommit, RefreshCommit
  <2>3. ASSUME NEW r \in Requests, LogoutCommit(r) PROVE P
    BY <2>3 DEF LogoutCommit
  <2>4. CASE UNCHANGED <<tokens, revoked, owner>>
    BY <2>4
  <2>5. QED
    BY <1>1, <2>2, <2>3, <2>4
       DEF Next, vars, Arrival, Serve, Arrive, BeginRegister, BeginLogin, BeginRefresh,
           BeginLogout, RegisterCheckEmail, RegisterCheckSlug, RegisterInsertOrg,
           RegisterInsertUser, LoginRefused, LoginDisabled, LoginAccepted,
           RefreshLookup, LogoutUpdate, Abort, Deactivate, Expire
<1>2. IInv /\ [Next]_vars => [P]_<<tokens, revoked, owner>>
  BY <1>1
<1>3. QED
  BY <1>2, Invariance, PTL DEF Spec, RevocationIsPermanent

-----------------------------------------------------------------------------
(* The tables implement the ledger of sessions. *)

Begun    == {r \in Requests : pc[r] # "idle"}
Answered == {r \in Requests : pc[r] = "done"}
Closed   == tokens \ Usable
Chain    == {<<presented[r], r>> : r \in {t \in tokens : kind[t] = "refresh"}}

\* Issuing the token r and revoking those in S changes what is usable by r and
\* by S only; r itself is usable unless its user has been disabled.
LEMMA IssuedRow ==
  ASSUME TypeOK, NEW r \in Requests \ tokens, NEW u, NEW S \in SUBSET tokens,
         IssueSession(r, u), revoked' = revoked \cup S, UNCHANGED <<inactive, expired>>
  PROVE  /\ \A t \in tokens : owner'[t] = owner[t]
         /\ \/ Usable' = (Usable \ S) \cup {r} /\ Closed' = Closed \cup S
            \/ Usable' = Usable \ S /\ Closed' = Closed \cup S \cup {r}
<1> USE DEF TypeOK, IssueSession
<1>1. \A t \in tokens : owner'[t] = owner[t]
  OBVIOUS
<1>2. \A t \in tokens : t \in Usable' <=> t \in Usable \ S
  BY <1>1 DEF Usable
<1>3. tokens' = tokens \cup {r} /\ Usable \subseteq tokens /\ Usable' \subseteq tokens'
  BY DEF Usable
<1>4. QED
  BY <1>1, <1>2, <1>3 DEF Closed

\* The step in which request r answers.
LEMMA AnsweredStep ==
  ASSUME TypeOK, NEW r \in Requests, pc[r] \notin Ended \cup {"idle"}, Goto(r, "done")
  PROVE  r \in Begun \ Answered /\ Begun' = Begun /\ Answered' = Answered \cup {r}
  BY DEF TypeOK, Begun, Answered

\* A step that leaves the tokens alone and answers nothing stutters.
LEMMA SilentStep ==
  ASSUME UNCHANGED <<tokens, owner, revoked, expired, inactive, kind, presented, usableAtStart>>,
         Begun' = Begun, Answered' = Answered
  PROVE  UNCHANGED <<Begun, usableAtStart, Answered, Usable, Closed, owner, Chain>>
  BY DEF Usable, Closed, Chain

\* A request that arrives begins, and finds what is usable.
LEMMA ArrivalStep ==
  ASSUME TypeOK, LocalsInv, NEW r \in Requests, NEW k, NEW stage \in Stages,
         stage \notin Ended \cup {"idle"}, Arrive(r, k, stage),
         \A q \in Requests \ {r} : presented'[q] = presented[q]
  PROVE  Ledger!Begin(r)
<1> USE DEF TypeOK, LocalsInv, Arrive
<1>1. r \notin Begun /\ Begun' = Begun \cup {r} /\ Answered' = Answered
  BY DEF Begun, Answered
<1>2. Usable' = Usable /\ Closed' = Closed
  BY DEF Usable, Closed
<1>3. r \notin tokens
  OBVIOUS
<1>4. Chain' = Chain
  BY <1>3 DEF Chain
<1>5. QED
  BY <1>1, <1>2, <1>4 DEF Ledger!Begin, Begun, Answered, Closed, Chain

\* Initial states of the tables map to the initial state of the ledger.
LEMMA LedgerInit == Init => Ledger!Init
  BY DEF Init, Usable, Ledger!Init

\* Every step of a request, of the clock and of an operator is a step of the
\* ledger, or changes nothing in it.
LEMMA LedgerStep == IInv /\ [Next]_vars => [Ledger!Next]_(Ledger!ledger)
<1> SUFFICES ASSUME IInv, [Next]_vars PROVE [Ledger!Next]_(Ledger!ledger)
  OBVIOUS
<1> DEFINE Silent == UNCHANGED <<Begun, usableAtStart, Answered, Usable, Closed, owner, Chain>>
<1> USE DEF IInv
<1>a. Silent => UNCHANGED Ledger!ledger
  BY DEF Ledger!ledger, Begun, Answered, Closed, Chain
<1>1. ASSUME NEW r \in Requests, Arrival(r) PROVE \E q \in Requests : Ledger!Begin(q)
  <2>1. CASE \E e \in Emails, n \in Names : BeginRegister(r, e, n)
    BY <2>1, ArrivalStep DEF BeginRegister
  <2>2. CASE \E e \in Emails : BeginLogin(r, e)
    BY <2>2, ArrivalStep DEF BeginLogin
  <2>3. CASE \E t \in Requests : BeginRefresh(r, t)
    BY <2>3, ArrivalStep DEF BeginRefresh, TypeOK
  <2>4. CASE \E u \in Requests : BeginLogout(r, u)
    BY <2>4, ArrivalStep DEF BeginLogout
  <2>5. QED
    BY <1>1, <2>1, <2>2, <2>3, <2>4 DEF Arrival
<1>2. ASSUME NEW r \in Requests,
             \/ RegisterCheckEmail(r) \/ RegisterCheckSlug(r) \/ RegisterInsertOrg(r)
             \/ RegisterInsertUser(r) \/ LoginRefused(r) \/ RefreshLookup(r) \/ LogoutUpdate(r)
             \/ Abort(r) \/ \E u \in Requests : LoginDisabled(r, u) \/ LoginAccepted(r, u)
      PROVE  Silent
  <2>1. UNCHANGED <<tokens, owner, revoked, expired, inactive, kind, presented, usableAtStart>>
    BY <1>2 DEF RegisterCheckEmail, RegisterCheckSlug, RegisterInsertOrg, RegisterInsertUser,
                LoginRefused, RefreshLookup, LogoutUpdate, Abort, LoginDisabled, LoginAccepted
  <2>2. Begun' = Begun /\ Answered' = Answered
    BY <1>2 DEF RegisterCheckEmail, RegisterCheckSlug, RegisterInsertOrg, RegisterInsertUser,
                LoginRefused, RefreshLookup, LogoutUpdate, Abort, LoginDisabled, LoginAccepted,
                TypeOK, InFlight, Begun, Answered
  <2>3. QED
    BY <2>1, <2>2, SilentStep
<1>3. ASSUME NEW r \in Requests, RegisterCommit(r) PROVE Ledger!OpenSession(r, r)
  <2>1. /\ r \in Requests \ tokens /\ pc[r] = "register_commit" /\ IssueSession(r, r)
        /\ revoked' = revoked \cup {} /\ UNCHANGED <<inactive, expired>> /\ Goto(r, "done")
    BY <1>3 DEF RegisterCommit, LocalsInv
  <2>2. r \in Begun \ Answered /\ Begun' = Begun /\ Answered' = Answered \cup {r}
    BY <2>1, AnsweredStep
  <2>3. \/ Usable' = (Usable \ {}) \cup {r} /\ Closed' = Closed \cup {}
        \/ Usable' = Usable \ {} /\ Closed' = Closed \cup {} \cup {r}
    BY <2>1, IssuedRow
  <2>4. Chain' = Chain
    BY <1>3 DEF RegisterCommit, IssueSession, LocalsInv, Registering, Chain
  <2>5. QED
    BY <1>3, <2>1, <2>2, <2>3, <2>4
       DEF Ledger!OpenSession, Ledger!Issue, Ledger!Answer, Begun, Answered, Closed, Chain,
           RegisterCommit, IssueSession, Usable
<1>4. ASSUME NEW r \in Requests, LoginCommit(r)
      PROVE  \E u \in Requests : Ledger!OpenSession(r, u)
  <2>1. /\ r \in Requests \ tokens /\ pc[r] = "login_commit" /\ IssueSession(r, user[r])
        /\ revoked' = revoked \cup {} /\ UNCHANGED <<inactive, expired>> /\ Goto(r, "done")
    BY <1>4 DEF LoginCommit, LocalsInv
  <2>2. r \in Begun \ Answered /\ Begun' = Begun /\ Answered' = Answered \cup {r}
    BY <2>1, AnsweredStep
  <2>3. \/ Usable' = (Usable \ {}) \cup {r} /\ Closed' = Closed \cup {}
        \/ Usable' = Usable \ {} /\ Closed' = Closed \cup {} \cup {r}
    BY <2>1, IssuedRow
  <2>4. Chain' = Chain
    BY <1>4 DEF LoginCommit, IssueSession, LocalsInv, Chain
  <2>5. user[r] \in Requests
    BY <2>1 DEF LocalsInv, TypeOK
  <2>6. Ledger!OpenSession(r, user[r])
    BY <1>4, <2>1, <2>2, <2>3, <2>4
       DEF Ledger!OpenSession, Ledger!Issue, Ledger!Answer, Begun, Answered, Closed, Chain,
           LoginCommit, IssueSession, Usable
  <2>7. QED
    BY <2>5, <2>6
<1>5. ASSUME NEW r \in Requests, RefreshCommit(r)
      PROVE  \E p \in Requests : Ledger!Exchange(p, r)
  <2>a. PICK p \in Requests : p = presented[r]
    BY <1>5 DEF RefreshCommit, LocalsInv, TypeOK
  <2>1. /\ r \in Requests \ tokens /\ pc[r] = "refresh_commit" /\ IssueSession(r, owner[p])
        /\ p \in tokens /\ p \in usableAtStart[r] /\ kind[r] = "refresh"
        /\ revoked' = revoked \cup {p} /\ UNCHANGED <<inactive, expired>> /\ Goto(r, "done")
    BY <1>5, <2>a DEF RefreshCommit, LocalsInv, PresentedInv
  <2>2. r \in Begun \ Answered /\ Begun' = Begun /\ Answered' = Answered \cup {r}
    BY <2>1, AnsweredStep
  <2>3. \/ Usable' = (Usable \ {p}) \cup {r} /\ Closed' = Closed \cup {p}
        \/ Usable' = Usable \ {p} /\ Closed' = Closed \cup {p} \cup {r}
    <3>1. {p} \in SUBSET tokens
      BY <2>1
    <3>2. QED
      BY <2>1, <3>1, IssuedRow
  <2>4. Chain' = Chain \cup {<<p, r>>}
    BY <1>5, <2>a, <2>1 DEF RefreshCommit, IssueSession, Chain
  <2>5. Ledger!Exchange(p, r)
    BY <1>5, <2>1, <2>2, <2>3, <2>4
       DEF Ledger!Exchange, Ledger!Issue, Ledger!Answer, Begun, Answered, Closed, Chain,
           RefreshCommit, IssueSession, Usable
  <2>6. QED
    BY <2>5
<1>6. ASSUME NEW r \in Requests, LogoutCommit(r)
      PROVE  \E u \in Requests : Ledger!CloseAll(r, u)
  <2> DEFINE u == user[r]
             S == rows[r] \cap Usable
  <2>1. pc[r] = "revoke_commit" /\ Goto(r, "done") /\ u \in Requests
    BY <1>6 DEF LogoutCommit, LocalsInv, TypeOK
  <2>2. r \in Begun \ Answered /\ Begun' = Begun /\ Answered' = Answered \cup {r}
    BY <2>1, AnsweredStep
  <2>3. S \in SUBSET {t \in Usable : owner[t] = u}
    BY <2>1 DEF LocalsInv
  <2>4. {t \in usableAtStart[r] : owner[t] = u} \subseteq Closed \cup S
    BY <2>1 DEF LogoutInv, TypeOK, Closed, Usable
  <2>5. Usable' = Usable \ S /\ Closed' = Closed \cup S
    BY <1>6, <2>1 DEF LogoutCommit, Closed, Usable
  <2>6. UNCHANGED <<usableAtStart, owner, Chain>>
    BY <1>6 DEF LogoutCommit, Chain
  <2>7. Ledger!CloseAll(r, u)
    BY <2>2, <2>3, <2>4, <2>5, <2>6
       DEF Ledger!CloseAll, Ledger!Answer, Begun, Answered, Closed, Chain
  <2>8. QED
    BY <2>1, <2>7
<1>7. ASSUME NEW S \in SUBSET Usable, Usable' = Usable \ S,
             UNCHANGED <<tokens, owner, kind, presented, usableAtStart, pc>>
      PROVE  \E R \in SUBSET Requests : Ledger!Lapse(R)
  <2>1. S \in SUBSET Requests
    BY DEF Usable, TypeOK
  <2>2. Begun' = Begun /\ Answered' = Answered /\ Chain' = Chain /\ Closed' = Closed \cup S
    BY <1>7 DEF Begun, Answered, Chain, Closed, Usable
  <2>3. Ledger!Lapse(S)
    BY <1>7, <2>2 DEF Ledger!Lapse, Begun, Answered, Closed, Chain
  <2>4. QED
    BY <2>1, <2>3
<1>8. ASSUME NEW u \in Requests, Deactivate(u)
      PROVE  \E R \in SUBSET Requests : Ledger!Lapse(R)
  <2> DEFINE S == {t \in Usable : owner[t] = u}
  <2>1. Usable' = Usable \ S
    BY <1>8 DEF Deactivate, Usable
  <2>2. QED
    BY <1>7, <1>8, <2>1 DEF Deactivate
<1>9. ASSUME NEW t \in Requests, Expire(t)
      PROVE  \E R \in SUBSET Requests : Ledger!Lapse(R)
  <2> DEFINE S == {t} \cap Usable
  <2>1. Usable' = Usable \ S
    BY <1>9 DEF Expire, Usable
  <2>2. QED
    BY <1>7, <1>9, <2>1 DEF Expire
<1>10. CASE UNCHANGED vars
  BY <1>10, SilentStep, <1>a DEF vars, Begun, Answered
<1>11. QED
  BY <1>a, <1>1, <1>2, <1>3, <1>4, <1>5, <1>6, <1>8, <1>9, <1>10 DEF Next, Serve, Ledger!Next

\* In every interleaving, for any number of requests and users, the endpoints
\* implement the ledger: a session comes from a token that was open when the
\* request arrived, and a logout ends all the sessions it found and no others.
THEOREM LedgerIsImplemented == Spec => LedgerSpec
  BY LedgerInit, LedgerStep, Invariance, PTL DEF Spec, LedgerSpec, Ledger!Spec
=============================================================================
