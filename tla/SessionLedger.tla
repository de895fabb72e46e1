---------------------------- MODULE SessionLedger ----------------------------
(***************************************************************************)
(* What backend/app/api/v1/auth.py promises of refresh sessions when       *)
(* requests overlap, one atomic step per promise.  A request that begins   *)
(* finds the tokens that are open then.  It may open a session, exchange a *)
(* token it found for a successor of the same user, or close all of a      *)
(* user's tokens it found, and it answers in the step that does so.  Time  *)
(* and operators close tokens too.                                         *)
(***************************************************************************)
CONSTANTS
  Tokens,     \* the requests; a token and a user are named by the one that made them
  None

VARIABLES
  begun,      \* requests that have arrived
  found,      \* the tokens open when a request arrived
  answered,   \* requests whose effect has taken place
  open,       \* tokens that can be exchanged
  closed,     \* tokens that were exchanged, revoked, or have lapsed
  holder,     \* the user a token was issued to
  chain       \* <<p, t>>: t was issued in exchange for p

ledger == <<begun, found, answered, open, closed, holder, chain>>

Init ==
  /\ begun = {} /\ answered = {} /\ open = {} /\ closed = {} /\ chain = {}
  /\ found  = [t \in Tokens |-> {}]
  /\ holder = [t \in Tokens |-> None]

Begin(r) ==
  /\ r \notin begun
  /\ begun' = begun \cup {r}
  /\ found' = [found EXCEPT ![r] = open]
  /\ UNCHANGED <<answered, open, closed, holder, chain>>

Answer(r) ==
  /\ r \in begun \ answered
  /\ answered' = answered \cup {r}
  /\ UNCHANGED <<begun, found>>

\* Token t is issued to u and the tokens in S end.  The account of u may have
\* been disabled meanwhile: then t lapses at once.
Issue(t, u, S) ==
  /\ Answer(t)
  /\ t \notin open \cup closed
  /\ holder' = [holder EXCEPT ![t] = u]
  /\ \/ open' = (open \ S) \cup {t} /\ closed' = closed \cup S
     \/ open' = open \ S /\ closed' = closed \cup S \cup {t}

OpenSession(t, u) ==
  /\ Issue(t, u, {})
  /\ UNCHANGED chain

\* p was open when t's request arrived, and ends.  It need not be open still: a
\* request that overlaps with another exchange of p, or with its closing, wins.
Exchange(p, t) ==
  /\ p \in found[t]
  /\ Issue(t, holder[p], {p})
  /\ chain' = chain \cup {<<p, t>>}

\* All of u's tokens that the request found end, and no one else's.
CloseAll(r, u) ==
  /\ Answer(r)
  /\ \E S \in SUBSET {t \in open : holder[t] = u} :
       /\ {t \in found[r] : holder[t] = u} \subseteq closed \cup S
       /\ open' = open \ S
       /\ closed' = closed \cup S
  /\ UNCHANGED <<holder, chain>>

\* Tokens expire, or their user's account is disabled.
Lapse(S) ==
  /\ S \subseteq open
  /\ open' = open \ S
  /\ closed' = closed \cup S
  /\ UNCHANGED <<begun, found, answered, holder, chain>>

Next ==
  \/ \E r \in Tokens : Begin(r)
  \/ \E t, u \in Tokens : OpenSession(t, u)
  \/ \E p, t \in Tokens : Exchange(p, t)
  \/ \E r, u \in Tokens : CloseAll(r, u)
  \/ \E S \in SUBSET Tokens : Lapse(S)

Spec == Init /\ [][Next]_ledger
==============================================================================
