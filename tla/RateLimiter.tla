----------------------------- MODULE RateLimiter -----------------------------
(***************************************************************************)
(* RateLimiter.allow (backend/app/core/rate_limit.py): a sliding window    *)
(* per client address.  The threads that serve requests read the clock     *)
(* before they take the lock, so a bucket need not be in the order of its  *)
(* readings, and it is pruned from its front only.                         *)
(***************************************************************************)
EXTENDS Integers, Sequences

CONSTANTS
  Requests,
  Keys,      \* client addresses; _identity is never given a user
  KeyOf,     \* the address a request comes from
  Limit,
  Window,    \* in ticks of the clock
  MaxStall,  \* the longest time a thread waits between the clock and the lock
  Horizon    \* the last tick; bounds the clock

ASSUME KeyAssumption == KeyOf \in [Requests -> Keys]
ASSUME TimeAssumption == {Limit, Window, MaxStall, Horizon} \subseteq Nat

VARIABLES
  clock,    \* time.monotonic()
  stage,    \* of a request: "idle", "stamped", "admitted" or "refused"
  stamp,    \* `now` of a request
  bucket,   \* _hits: the readings of the requests admitted, by address
  log       \* history: of every admission, its reading and its real time

limiter == <<clock, stage, stamp, bucket, log>>

Admission == [stamp : Nat, at : Nat]

LimiterInit ==
  /\ clock = 0
  /\ stage = [r \in Requests |-> "idle"]
  /\ stamp = [r \in Requests |-> 0]
  /\ bucket = [k \in Keys |-> <<>>]
  /\ log = [k \in Keys |-> <<>>]

Tick ==
  /\ clock < Horizon
  /\ \A r \in Requests : stage[r] = "stamped" => clock - stamp[r] < MaxStall
  /\ clock' = clock + 1
  /\ UNCHANGED <<stage, stamp, bucket, log>>

ReadClock(r) ==
  /\ stage[r] = "idle"
  /\ stage' = [stage EXCEPT ![r] = "stamped"]
  /\ stamp' = [stamp EXCEPT ![r] = clock]
  /\ UNCHANGED <<clock, bucket, log>>

\* n readings are removed from the front of b: those up to the first that the
\* window still holds.
Expired(b, cutoff, n) ==
  /\ \A i \in 1..n : b[i] <= cutoff
  /\ n < Len(b) => b[n + 1] > cutoff

\* Under the lock: r finds `left` in the bucket of its address.
Finds(r, left) ==
  /\ stage[r] = "stamped"
  /\ LET b == bucket[KeyOf[r]] IN
     \E n \in 0..Len(b) :
       /\ Expired(b, stamp[r] - Window, n)
       /\ left = SubSeq(b, n + 1, Len(b))

\* Fault: the limit is one too high.
HasRoomForOneMore(b) == Len(b) <= Limit

HasRoom(b) == Len(b) < Limit

\* Fault: a refused request counts against the next ones.
RefuseAndCount(r, left) ==
  /\ Finds(r, left)
  /\ ~HasRoom(left)
  /\ stage' = [stage EXCEPT ![r] = "refused"]
  /\ bucket' = [bucket EXCEPT ![KeyOf[r]] = Append(left, stamp[r])]
  /\ UNCHANGED <<clock, stamp, log>>

Refuse(r, left) ==
  /\ Finds(r, left)
  /\ ~HasRoom(left)
  /\ stage' = [stage EXCEPT ![r] = "refused"]
  /\ bucket' = [bucket EXCEPT ![KeyOf[r]] = left]
  /\ UNCHANGED <<clock, stamp, log>>

Admit(r, left) ==
  /\ Finds(r, left)
  /\ HasRoom(left)
  /\ stage' = [stage EXCEPT ![r] = "admitted"]
  /\ bucket' = [bucket EXCEPT ![KeyOf[r]] = Append(left, stamp[r])]
  /\ log' = [log EXCEPT ![KeyOf[r]] = Append(@, [stamp |-> stamp[r], at |-> clock])]
  /\ UNCHANGED <<clock, stamp>>

\* What remains of a bucket once some of its front is gone.
Remains(k) == {SubSeq(bucket[k], n + 1, Len(bucket[k])) : n \in 0..Len(bucket[k])}

Enter(r) == \E left \in Remains(KeyOf[r]) : Refuse(r, left) \/ Admit(r, left)

LimiterNext == Tick \/ \E r \in Requests : ReadClock(r) \/ Enter(r)

LimiterSpec == LimiterInit /\ [][LimiterNext]_limiter

-----------------------------------------------------------------------------
(* Properties. *)

\* Types of the state.
LimiterTypeOK ==
  /\ clock \in Nat
  /\ stage \in [Requests -> {"idle", "stamped", "admitted", "refused"}]
  /\ stamp \in [Requests -> Nat]
  /\ bucket \in [Keys -> Seq(Nat)]
  /\ log \in [Keys -> Seq(Admission)]

\* However the threads overtake each other between the clock and the lock, no
\* address is admitted more than Limit times within Window - MaxStall of real time:
\* an early reading that enters late costs the window no more than its delay
\* (rate_limit.py:31-45).
AdmissionsAreSpaced ==
  \A k \in Keys : \A i \in 1..Len(log[k]) :
    i + Limit <= Len(log[k]) => log[k][i + Limit].at - log[k][i].at >= Window - MaxStall

\* Nobody is refused without cause: at a refusal, the last Limit admissions of the
\* address all lie within Window + MaxStall.  An old reading that is stuck behind a
\* newer one, or a refusal, does not shut an address out (rate_limit.py:35-40).
RefusalsAreEarned ==
  [][\A r \in Requests : stage[r] = "stamped" /\ stage'[r] = "refused" =>
       LET l == log[KeyOf[r]] IN
       /\ Len(l) >= Limit
       /\ \A i \in (Len(l) - Limit + 1)..Len(l) : clock - l[i].at < Window + MaxStall]_limiter
=============================================================================
