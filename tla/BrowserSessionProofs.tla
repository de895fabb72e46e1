------------------------ MODULE BrowserSessionProofs ------------------------
(***************************************************************************)
(* Proofs about RateLimiter, and about BrowserSession in front of it, for  *)
(* any numbers of requests and addresses, any calls and paths, any limit,  *)
(* window and stall.                                                       *)
(*                                                                         *)
(* The log of an address keeps every admission in the order of the lock;   *)
(* its bucket holds the readings of the last ones (Suffix), never more     *)
(* than Limit, and what it no longer holds is a window old (Gone).         *)
(*                                                                         *)
(* In front of the limiter the browser is one of its users: a step is a    *)
(* step of the limiter or leaves it alone, so that what is shown of the    *)
(* limiter holds here.  For a sign-out that ended clean the invariant is   *)
(* that no cookie is left and that the check under way, if any, has none.  *)
(***************************************************************************)
EXTENDS BrowserSession, FiniteSetTheorems, TLAPS

-----------------------------------------------------------------------------
(* The limiter. *)

\* A bucket is the readings of the last admissions of its address.
Suffix ==
  \A k \in Keys :
    /\ Len(bucket[k]) <= Len(log[k])
    /\ \A i \in 1..Len(bucket[k]) :
         bucket[k][i] = log[k][Len(log[k]) - Len(bucket[k]) + i].stamp

Bounded == \A k \in Keys : Len(bucket[k]) <= Limit

Gone ==
  \A k \in Keys : \A i \in 1..(Len(log[k]) - Len(bucket[k])) :
    log[k][i].stamp + Window <= clock

Dated ==
  \A k \in Keys : \A i \in 1..Len(log[k]) :
    /\ log[k][i].stamp <= log[k][i].at
    /\ log[k][i].at <= clock
    /\ log[k][i].at <= log[k][i].stamp + MaxStall

Ordered ==
  \A k \in Keys : \A i, j \in 1..Len(log[k]) : i <= j => log[k][i].at <= log[k][j].at

Waiting ==
  \A r \in Requests : stage[r] = "stamped" =>
    stamp[r] <= clock /\ clock - stamp[r] <= MaxStall

LimiterInv ==
  /\ LimiterTypeOK
  /\ Suffix
  /\ Bounded
  /\ Gone
  /\ Dated
  /\ Ordered
  /\ Waiting
  /\ AdmissionsAreSpaced

\* What a request finds in the bucket of its address once the lock is taken and the
\* front is pruned: still the last admissions, and all others are a window old.
LEMMA Pruning ==
  ASSUME LimiterInv, NEW r \in Requests, NEW rest, Finds(r, rest)
  PROVE  LET k == KeyOf[r] IN
         /\ k \in Keys
         /\ rest \in Seq(Nat)
         /\ Len(rest) <= Len(bucket[k])
         /\ \A i \in 1..Len(rest) : rest[i] = log[k][Len(log[k]) - Len(rest) + i].stamp
         /\ \A i \in 1..(Len(log[k]) - Len(rest)) : log[k][i].stamp + Window <= clock
         /\ rest # <<>> => rest[1] > stamp[r] - Window
<1> DEFINE k == KeyOf[r]
           b == bucket[k]
           l == log[k]
<1>1. /\ k \in Keys /\ b \in Seq(Nat) /\ l \in Seq(Admission)
      /\ Window \in Nat /\ stamp[r] \in Nat /\ clock \in Nat /\ stamp[r] <= clock
  BY KeyAssumption, TimeAssumption DEF LimiterInv, LimiterTypeOK, Finds, Waiting
<1>2. PICK n \in 0..Len(b) : Expired(b, stamp[r] - Window, n) /\ rest = SubSeq(b, n + 1, Len(b))
  BY DEF Finds
<1>2a. \A i \in 1..Len(b) : b[i] = l[Len(l) - Len(b) + i].stamp
  BY <1>1 DEF LimiterInv, Suffix
<1>2b. \A i \in 1..(Len(l) - Len(b)) : l[i].stamp + Window <= clock
  BY <1>1 DEF LimiterInv, Gone
<1> HIDE DEF k, b, l
<1>3. /\ n \in Nat /\ n <= Len(b) /\ Len(b) \in Nat /\ Len(l) \in Nat
      /\ Len(rest) = Len(b) - n /\ Len(rest) \in Nat
  BY <1>1, <1>2
<1>4. rest \in Seq(Nat) /\ \A i \in 1..Len(rest) : rest[i] = b[n + i]
  <2>1. rest \in Seq(Nat)
    BY <1>1, <1>2
  <2>2. \A i \in 1..Len(rest) : rest[i] = b[n + i]
    BY <1>1, <1>2
  <2>3. QED
    BY <2>1, <2>2
<1>5. ASSUME NEW i \in 1..Len(rest) PROVE rest[i] = l[Len(l) - Len(rest) + i].stamp
  <2>1. n + i \in 1..Len(b) /\ Len(l) - Len(b) + (n + i) = Len(l) - Len(rest) + i
    BY <1>3
  <2>2. b[n + i] = l[Len(l) - Len(b) + (n + i)].stamp
    BY <1>2a, <2>1
  <2> QED
    BY <1>4, <2>1, <2>2
<1>6. ASSUME NEW i \in 1..(Len(l) - Len(rest)) PROVE l[i].stamp + Window <= clock
  <2>1. CASE i <= Len(l) - Len(b)
    <3>1. i \in 1..(Len(l) - Len(b))
      BY <1>3, <2>1
    <3> QED
      BY <1>2b, <3>1
  <2>2. CASE i > Len(l) - Len(b)
    <3> DEFINE j == i - (Len(l) - Len(b))
    <3>1. j \in 1..n /\ j \in 1..Len(b) /\ Len(l) - Len(b) + j = i
      BY <1>3, <2>2
    <3>2. b[j] <= stamp[r] - Window
      BY <1>2, <3>1 DEF Expired
    <3>3. b[j] = l[Len(l) - Len(b) + j].stamp
      BY <1>2a, <3>1
    <3>4. b[j] \in Nat
      BY <1>1, <3>1
    <3> HIDE DEF j
    <3> QED
      BY <1>1, <3>1, <3>2, <3>3, <3>4
  <2> QED
    BY <1>3, <2>1, <2>2
<1>7. rest # <<>> => rest[1] > stamp[r] - Window
  <2>1. SUFFICES ASSUME rest # <<>> PROVE rest[1] > stamp[r] - Window
    OBVIOUS
  <2>2. 1 \in 1..Len(rest) /\ n < Len(b)
    BY <1>3, <1>4, <2>1
  <2>3. rest[1] = b[n + 1]
    BY <1>4, <2>2
  <2> QED
    BY <1>2, <2>2, <2>3 DEF Expired
<1>8. Len(rest) <= Len(b)
  BY <1>3
<1> QED
  BY <1>1, <1>4, <1>5, <1>6, <1>7, <1>8 DEF k, b, l

\* The limiter starts in the invariant.
LEMMA LimiterInitially == LimiterInit => LimiterInv
  BY TimeAssumption
  DEF LimiterInit, LimiterInv, LimiterTypeOK, Suffix, Bounded, Gone, Dated, Ordered,
      Waiting, AdmissionsAreSpaced

\* Time passes.
LEMMA TickStep == LimiterInv /\ Tick => LimiterInv'
<1> SUFFICES ASSUME LimiterInv, Tick PROVE LimiterInv'
  OBVIOUS
<1> USE TimeAssumption DEF LimiterInv, Tick
<1>1. LimiterTypeOK' /\ Suffix' /\ Bounded' /\ Ordered' /\ AdmissionsAreSpaced'
  <2>1. LimiterTypeOK'
    BY DEF LimiterTypeOK
  <2>2. bucket' = bucket /\ log' = log
    OBVIOUS
  <2>3. Suffix' /\ Bounded'
    BY <2>2 DEF Suffix, Bounded
  <2>4. Ordered' /\ AdmissionsAreSpaced'
    BY <2>2 DEF Ordered, AdmissionsAreSpaced
  <2> QED
    BY <2>1, <2>3, <2>4
<1>2. ASSUME NEW k \in Keys, NEW i \in 1..Len(log[k]) PROVE log[k][i] \in Admission
  BY DEF LimiterTypeOK
<1>3. Gone' /\ Dated'
  <2>1. clock \in Nat /\ clock' = clock + 1 /\ log' = log /\ bucket' = bucket
    BY DEF LimiterTypeOK
  <2>2. ASSUME NEW k \in Keys, NEW i \in 1..(Len(log[k]) - Len(bucket[k]))
        PROVE  log[k][i].stamp + Window <= clock + 1
    <3>1. log[k][i].stamp + Window <= clock /\ i \in 1..Len(log[k])
      BY DEF Gone, LimiterTypeOK
    <3>2. log[k][i].stamp \in Nat
      BY <1>2, <3>1 DEF Admission
    <3> QED
      BY <2>1, <3>1, <3>2
  <2>3. ASSUME NEW k \in Keys, NEW i \in 1..Len(log[k]) PROVE log[k][i].at <= clock + 1
    <3>1. log[k][i].at <= clock /\ log[k][i].at \in Nat
      BY <1>2 DEF Dated, Admission
    <3> QED
      BY <2>1, <3>1
  <2> QED
    BY <2>1, <2>2, <2>3 DEF Gone, Dated
<1>4. Waiting'
  BY DEF Waiting, LimiterTypeOK
<1> QED
  BY <1>1, <1>2, <1>3, <1>4

\* A thread reads the clock.
LEMMA ReadClockStep ==
  ASSUME NEW r \in Requests PROVE LimiterInv /\ ReadClock(r) => LimiterInv'
<1> SUFFICES ASSUME LimiterInv, ReadClock(r) PROVE LimiterInv'
  OBVIOUS
<1> USE TimeAssumption DEF LimiterInv, ReadClock
<1>1. LimiterTypeOK' /\ Waiting'
  BY DEF LimiterTypeOK, Waiting
<1>2. Suffix' /\ Bounded' /\ Gone' /\ Dated' /\ Ordered' /\ AdmissionsAreSpaced'
  BY DEF Suffix, Bounded, Gone, Dated, Ordered, AdmissionsAreSpaced
<1> QED
  BY <1>1, <1>2

\* A request is refused: its bucket loses what is a window old.
LEMMA RefuseStep ==
  ASSUME NEW r \in Requests, NEW rest PROVE LimiterInv /\ Refuse(r, rest) => LimiterInv'
<1> SUFFICES ASSUME LimiterInv, Refuse(r, rest) PROVE LimiterInv'
  OBVIOUS
<1> DEFINE k == KeyOf[r]
<1>1. Finds(r, rest) /\ clock' = clock /\ stamp' = stamp /\ log' = log
  BY DEF Refuse
<1>2. /\ k \in Keys /\ rest \in Seq(Nat) /\ Len(rest) <= Len(bucket[k])
      /\ \A i \in 1..Len(rest) : rest[i] = log[k][Len(log[k]) - Len(rest) + i].stamp
      /\ \A i \in 1..(Len(log[k]) - Len(rest)) : log[k][i].stamp + Window <= clock
  BY <1>1, Pruning
<1>3. bucket' = [bucket EXCEPT ![k] = rest] /\ bucket \in [Keys -> Seq(Nat)]
  BY DEF Refuse, LimiterInv, LimiterTypeOK
<1>4. LimiterTypeOK'
  BY <1>1, <1>2, <1>3 DEF Refuse, LimiterInv, LimiterTypeOK
<1>5. Suffix' /\ Bounded' /\ Gone'
  <2>1. log \in [Keys -> Seq(Admission)]
    BY DEF LimiterInv, LimiterTypeOK
  <2>2. Suffix'
    <3>1. ASSUME NEW q \in Keys, q # k
          PROVE  /\ Len(bucket'[q]) <= Len(log'[q])
                 /\ \A i \in 1..Len(bucket'[q]) :
                      bucket'[q][i] = log'[q][Len(log'[q]) - Len(bucket'[q]) + i].stamp
      BY <1>1, <1>3, <3>1 DEF LimiterInv, Suffix
    <3>2. bucket'[k] = rest /\ log'[k] = log[k]
      BY <1>1, <1>2, <1>3
    <3>3. Len(bucket[k]) <= Len(log[k]) /\ Len(bucket[k]) \in Nat /\ Len(log[k]) \in Nat
      BY <1>2, <1>3, <2>1 DEF LimiterInv, Suffix
    <3>4. Len(rest) \in Nat
      BY <1>2
    <3> HIDE DEF k
    <3>5. Len(rest) <= Len(log[k])
      BY <1>2, <3>3, <3>4 DEF k
    <3> QED
      BY <1>2, <3>1, <3>2, <3>5 DEF Suffix, k
  <2>3. Bounded'
    BY <1>1, <1>2, <1>3, TimeAssumption DEF LimiterInv, Bounded
  <2>4. Gone'
    BY <1>1, <1>2, <1>3 DEF LimiterInv, Gone
  <2> QED
    BY <2>2, <2>3, <2>4
<1>6. Dated' /\ Ordered' /\ AdmissionsAreSpaced'
  BY <1>1 DEF LimiterInv, Dated, Ordered, AdmissionsAreSpaced
<1>7. Waiting'
  BY <1>1 DEF Refuse, LimiterInv, LimiterTypeOK, Waiting
<1> QED
  BY <1>4, <1>5, <1>6, <1>7 DEF LimiterInv

\* A request is admitted: everything but the last admissions, fewer than Limit, is a
\* window old by its reading, and by its real time but for a stall.
LEMMA AdmitStep ==
  ASSUME NEW r \in Requests, NEW rest PROVE LimiterInv /\ Admit(r, rest) => LimiterInv'
<1> SUFFICES ASSUME LimiterInv, Admit(r, rest) PROVE LimiterInv'
  OBVIOUS
<1> DEFINE k == KeyOf[r]
           l == log[k]
           new == [stamp |-> stamp[r], at |-> clock]
           bn == bucket'[k]
           ln == log'[k]
<1>1. Finds(r, rest) /\ clock' = clock /\ stamp' = stamp /\ Len(rest) < Limit
  BY DEF Admit, HasRoom
<1>2. /\ k \in Keys /\ rest \in Seq(Nat) /\ Len(rest) <= Len(bucket[k])
      /\ \A i \in 1..Len(rest) : rest[i] = l[Len(l) - Len(rest) + i].stamp
      /\ \A i \in 1..(Len(l) - Len(rest)) : l[i].stamp + Window <= clock
  BY <1>1, Pruning
<1>3. /\ bucket' = [bucket EXCEPT ![k] = Append(rest, stamp[r])]
      /\ log' = [log EXCEPT ![k] = Append(l, new)]
  BY DEF Admit
<1>4. /\ bucket \in [Keys -> Seq(Nat)] /\ log \in [Keys -> Seq(Admission)]
      /\ stamp[r] \in Nat /\ clock \in Nat /\ stamp[r] <= clock /\ clock - stamp[r] <= MaxStall
      /\ Limit \in Nat /\ Window \in Nat /\ MaxStall \in Nat
      /\ Len(bucket[k]) <= Len(l) /\ new \in Admission
  BY <1>1, <1>2, TimeAssumption DEF Finds, LimiterInv, LimiterTypeOK, Waiting, Suffix, Admission
<1>5. /\ Len(l) \in Nat /\ Len(rest) \in Nat /\ Len(rest) <= Len(l)
      /\ Len(bn) = Len(rest) + 1 /\ Len(ln) = Len(l) + 1
  BY <1>2, <1>3, <1>4
<1>6. /\ \A i \in 1..Len(rest) : bn[i] = rest[i]
      /\ bn[Len(rest) + 1] = stamp[r]
  BY <1>2, <1>3, <1>4
<1>7. /\ \A i \in 1..Len(l) : ln[i] = l[i] /\ l[i] \in Admission
      /\ ln[Len(l) + 1] = new
  BY <1>2, <1>3, <1>4
<1>8. \A q \in Keys : q # k => bucket'[q] = bucket[q] /\ log'[q] = log[q]
  BY <1>2, <1>3, <1>4
<1>9. LimiterTypeOK'
  BY <1>1, <1>2, <1>3, <1>4 DEF Admit, LimiterInv, LimiterTypeOK
<1>10. /\ \A i \in 1..Len(l) : /\ l[i].stamp <= l[i].at
                              /\ l[i].at <= clock
                              /\ l[i].at <= l[i].stamp + MaxStall
       /\ \A i, j \in 1..Len(l) : i <= j => l[i].at <= l[j].at
       /\ \A i \in 1..Len(l) : i + Limit <= Len(l) => l[i + Limit].at - l[i].at >= Window - MaxStall
  BY <1>2 DEF LimiterInv, Dated, Ordered, AdmissionsAreSpaced
<1>11. Waiting'
  BY <1>1 DEF Admit, LimiterInv, LimiterTypeOK, Waiting
<1> HIDE DEF k, l, bn, ln
<1>12. Suffix'
  <2>1. ASSUME NEW q \in Keys, q # k
        PROVE  /\ Len(bucket'[q]) <= Len(log'[q])
               /\ \A i \in 1..Len(bucket'[q]) :
                    bucket'[q][i] = log'[q][Len(log'[q]) - Len(bucket'[q]) + i].stamp
    BY <1>8, <2>1 DEF LimiterInv, Suffix
  <2>2. Len(bn) <= Len(ln)
    BY <1>5
  <2>3. ASSUME NEW i \in 1..Len(bn) PROVE bn[i] = ln[Len(ln) - Len(bn) + i].stamp
    <3>1. CASE i = Len(rest) + 1
      <4>1. Len(ln) - Len(bn) + i = Len(l) + 1
        BY <1>5, <3>1
      <4> QED
        BY <1>6, <1>7, <3>1, <4>1
    <3>2. CASE i # Len(rest) + 1
      <4>1. /\ i \in 1..Len(rest) /\ Len(l) - Len(rest) + i \in 1..Len(l)
            /\ Len(ln) - Len(bn) + i = Len(l) - Len(rest) + i
        BY <1>5, <3>2
      <4>2. rest[i] = l[Len(l) - Len(rest) + i].stamp
        BY <1>2, <4>1 DEF l
      <4> QED
        BY <1>6, <1>7, <4>1, <4>2
    <3> QED
      BY <3>1, <3>2
  <2> QED
    BY <2>1, <2>2, <2>3 DEF Suffix, bn, ln
<1>13. Bounded'
  <2>1. ASSUME NEW q \in Keys, q # k PROVE Len(bucket'[q]) <= Limit
    BY <1>8, <2>1 DEF LimiterInv, Bounded
  <2>2. Len(bn) <= Limit
    BY <1>1, <1>4, <1>5
  <2> QED
    BY <2>1, <2>2 DEF Bounded, bn
<1>14. Gone'
  <2>1. ASSUME NEW q \in Keys, q # k, NEW i \in 1..(Len(log'[q]) - Len(bucket'[q]))
        PROVE  log'[q][i].stamp + Window <= clock'
    BY <1>1, <1>8, <2>1 DEF LimiterInv, Gone
  <2>2. ASSUME NEW i \in 1..(Len(ln) - Len(bn)) PROVE ln[i].stamp + Window <= clock'
    <3>1. i \in 1..(Len(l) - Len(rest)) /\ i \in 1..Len(l)
      BY <1>5
    <3>2. l[i].stamp + Window <= clock
      BY <1>2, <3>1 DEF l
    <3> QED
      BY <1>1, <1>7, <3>1, <3>2
  <2> QED
    BY <2>1, <2>2 DEF Gone, bn, ln
<1>15. Dated'
  <2>1. ASSUME NEW q \in Keys, q # k, NEW i \in 1..Len(log'[q])
        PROVE  /\ log'[q][i].stamp <= log'[q][i].at
               /\ log'[q][i].at <= clock'
               /\ log'[q][i].at <= log'[q][i].stamp + MaxStall
    BY <1>1, <1>8, <2>1 DEF LimiterInv, Dated
  <2>2. ASSUME NEW i \in 1..Len(ln)
        PROVE  /\ ln[i].stamp <= ln[i].at
               /\ ln[i].at <= clock'
               /\ ln[i].at <= ln[i].stamp + MaxStall
    <3>1. CASE i = Len(l) + 1
      BY <1>1, <1>4, <1>7, <3>1
    <3>2. CASE i # Len(l) + 1
      <4>1. i \in 1..Len(l)
        BY <1>5, <3>2
      <4> QED
        BY <1>1, <1>7, <1>10, <4>1
    <3> QED
      BY <3>1, <3>2
  <2> QED
    BY <2>1, <2>2 DEF Dated, ln
<1>16. Ordered'
  <2>1. ASSUME NEW q \in Keys, q # k, NEW i \in 1..Len(log'[q]), NEW j \in 1..Len(log'[q]), i <= j
        PROVE  log'[q][i].at <= log'[q][j].at
    BY <1>8, <2>1 DEF LimiterInv, Ordered
  <2>2. ASSUME NEW i \in 1..Len(ln), NEW j \in 1..Len(ln), i <= j PROVE ln[i].at <= ln[j].at
    <3>1. CASE j # Len(l) + 1
      <4>1. i \in 1..Len(l) /\ j \in 1..Len(l)
        BY <1>5, <2>2, <3>1
      <4> QED
        BY <1>7, <1>10, <2>2, <4>1
    <3>2. CASE j = Len(l) + 1 /\ i # Len(l) + 1
      <4>1. i \in 1..Len(l)
        BY <1>5, <3>2
      <4> QED
        BY <1>7, <1>10, <3>2, <4>1
    <3>3. CASE j = Len(l) + 1 /\ i = Len(l) + 1
      BY <1>4, <1>7, <3>3
    <3> QED
      BY <3>1, <3>2, <3>3
  <2> QED
    BY <2>1, <2>2 DEF Ordered, ln
<1>17. AdmissionsAreSpaced'
  <2>1. ASSUME NEW q \in Keys, q # k, NEW i \in 1..Len(log'[q]), i + Limit <= Len(log'[q])
        PROVE  log'[q][i + Limit].at - log'[q][i].at >= Window - MaxStall
    BY <1>8, <2>1 DEF LimiterInv, AdmissionsAreSpaced
  <2>2. ASSUME NEW i \in 1..Len(ln), i + Limit <= Len(ln)
        PROVE  ln[i + Limit].at - ln[i].at >= Window - MaxStall
    <3>1. CASE i + Limit # Len(l) + 1
      <4>1. i \in 1..Len(l) /\ i + Limit \in 1..Len(l) /\ i + Limit <= Len(l)
        BY <1>4, <1>5, <2>2, <3>1
      <4> QED
        BY <1>7, <1>10, <4>1
    <3>2. CASE i + Limit = Len(l) + 1
      <4>1. i \in 1..Len(l) /\ i \in 1..(Len(l) - Len(rest))
        BY <1>1, <1>4, <1>5, <3>2
      <4>2. l[i].stamp + Window <= clock
        BY <1>2, <4>1 DEF l
      <4>3. l[i].at <= l[i].stamp + MaxStall /\ l[i].stamp \in Nat /\ l[i].at \in Nat
        BY <1>7, <1>10, <4>1 DEF Admission
      <4>4. ln[i] = l[i] /\ ln[i + Limit].at = clock
        BY <1>7, <3>2, <4>1
      <4> QED
        BY <1>4, <4>2, <4>3, <4>4
    <3> QED
      BY <3>1, <3>2
  <2> QED
    BY <2>1, <2>2 DEF AdmissionsAreSpaced, ln
<1> QED
  BY <1>9, <1>11, <1>12, <1>13, <1>14, <1>15, <1>16, <1>17 DEF LimiterInv

\* Every step of the limiter keeps the invariant.
LEMMA LimiterStep == LimiterInv /\ [LimiterNext]_limiter => LimiterInv'
<1> SUFFICES ASSUME LimiterInv, [LimiterNext]_limiter PROVE LimiterInv'
  OBVIOUS
<1>1. CASE Tick
  BY <1>1, TickStep
<1>2. ASSUME NEW r \in Requests, ReadClock(r) PROVE LimiterInv'
  BY <1>2, ReadClockStep
<1>3. ASSUME NEW r \in Requests, Enter(r) PROVE LimiterInv'
  BY <1>3, RefuseStep, AdmitStep DEF Enter
<1>4. CASE UNCHANGED limiter
  BY <1>4 DEF limiter, LimiterInv, LimiterTypeOK, Suffix, Bounded, Gone, Dated, Ordered,
              Waiting, AdmissionsAreSpaced
<1> QED
  BY <1>1, <1>2, <1>3, <1>4 DEF LimiterNext

\* The inductive invariant of the limiter.
THEOREM LimiterInvariance == LimiterSpec => []LimiterInv
  BY LimiterInitially, LimiterStep, PTL DEF LimiterSpec

\* LimiterTypeOK: the types of the limiter (rate_limit.py:26-46).
THEOREM LimiterTypes == LimiterSpec => []LimiterTypeOK
<1>1. LimiterInv => LimiterTypeOK
  BY DEF LimiterInv
<1> QED
  BY <1>1, LimiterInvariance, PTL

\* AdmissionsAreSpaced: however the threads overtake each other, an address is
\* admitted at most Limit times within Window - MaxStall (rate_limit.py:31-45).
THEOREM AdmissionsAreBounded == LimiterSpec => []AdmissionsAreSpaced
<1>1. LimiterInv => AdmissionsAreSpaced
  BY DEF LimiterInv
<1> QED
  BY <1>1, LimiterInvariance, PTL

\* A refusal has its cause: the bucket is full of readings that the window holds.
LEMMA RefusalHasCause ==
  ASSUME LimiterInv, NEW r \in Requests, NEW rest, Refuse(r, rest)
  PROVE  LET l == log[KeyOf[r]] IN
         /\ Len(l) >= Limit
         /\ \A i \in (Len(l) - Limit + 1)..Len(l) : clock - l[i].at < Window + MaxStall
<1> DEFINE k == KeyOf[r]
           l == log[k]
<1>1. Finds(r, rest) /\ Len(rest) >= Limit
  <2>1. Finds(r, rest) /\ ~(Len(rest) < Limit)
    BY DEF Refuse, HasRoom
  <2> QED
    BY <2>1, Pruning, TimeAssumption
<1>2. /\ k \in Keys /\ rest \in Seq(Nat) /\ Len(rest) <= Len(bucket[k])
      /\ \A i \in 1..Len(rest) : rest[i] = l[Len(l) - Len(rest) + i].stamp
      /\ rest # <<>> => rest[1] > stamp[r] - Window
  BY <1>1, Pruning
<1>3. /\ l \in Seq(Admission) /\ Len(bucket[k]) <= Limit /\ Len(bucket[k]) <= Len(l)
      /\ bucket[k] \in Seq(Nat)
      /\ stamp[r] \in Nat /\ clock \in Nat /\ clock - stamp[r] <= MaxStall
      /\ Limit \in Nat /\ Window \in Nat /\ MaxStall \in Nat
  BY <1>1, <1>2, TimeAssumption
  DEF Finds, LimiterInv, LimiterTypeOK, Suffix, Bounded, Waiting
<1>4. Len(rest) = Limit /\ Len(l) \in Nat /\ Len(l) >= Limit
  BY <1>1, <1>2, <1>3
<1>5. /\ \A i \in 1..Len(l) : l[i] \in Admission /\ l[i].stamp <= l[i].at
      /\ \A i, j \in 1..Len(l) : i <= j => l[i].at <= l[j].at
  BY <1>2, <1>3 DEF LimiterInv, Dated, Ordered
<1> HIDE DEF l
<1>6. ASSUME NEW i \in (Len(l) - Limit + 1)..Len(l) PROVE clock - l[i].at < Window + MaxStall
  <2> DEFINE first == Len(l) - Limit + 1
  <2>1. first \in 1..Len(l)
    BY <1>3, <1>4, <1>6
  <2>2. Limit >= 1 /\ i \in 1..Len(l) /\ first <= i /\ Len(l) - Len(rest) + 1 = first
    BY <1>3, <1>4, <1>6, <2>1
  <2>3. rest # <<>> /\ 1 \in 1..Len(rest)
    BY <1>2, <1>3, <1>4, <2>2
  <2>4. l[first].stamp > stamp[r] - Window
    <3>1. rest[1] = l[Len(l) - Len(rest) + 1].stamp /\ rest[1] > stamp[r] - Window
      BY <1>2, <2>3 DEF l
    <3> QED
      BY <2>2, <3>1
  <2>5. l[first].stamp <= l[first].at /\ l[first].at <= l[i].at
    BY <1>5, <2>1, <2>2
  <2>6. l[first].stamp \in Nat /\ l[first].at \in Nat /\ l[i].at \in Nat
    BY <1>5, <2>1, <2>2 DEF Admission
  <2>7. stamp[r] \in Nat /\ clock \in Nat /\ clock - stamp[r] <= MaxStall /\ Window \in Nat /\ MaxStall \in Nat
    BY <1>3
  <2>8. ASSUME NEW a \in Nat, NEW b \in Nat, NEW c \in Nat, NEW now \in Nat, NEW t \in Nat,
               a > t - Window, a <= b, b <= c, now - t <= MaxStall,
               Window \in Nat, MaxStall \in Nat
        PROVE  now - c < Window + MaxStall
    BY <2>8
  <2> HIDE DEF first
  <2> QED
    BY <2>4, <2>5, <2>6, <2>7, <2>8
<1> QED
  BY <1>4, <1>6 DEF l

\* RefusalsAreEarned: at a refusal, the last Limit admissions of the address lie within
\* Window + MaxStall (rate_limit.py:35-43).
THEOREM RefusalsHaveCause == LimiterSpec => RefusalsAreEarned
<1> DEFINE Earned ==
      \A r \in Requests : stage[r] = "stamped" /\ stage'[r] = "refused" =>
        LET l == log[KeyOf[r]] IN
        /\ Len(l) >= Limit
        /\ \A i \in (Len(l) - Limit + 1)..Len(l) : clock - l[i].at < Window + MaxStall
<1>1. LimiterInv /\ [LimiterNext]_limiter => [Earned]_limiter
  <2> SUFFICES ASSUME LimiterInv, LimiterNext,
                      NEW r \in Requests, stage[r] = "stamped", stage'[r] = "refused"
               PROVE  LET l == log[KeyOf[r]] IN
                      /\ Len(l) >= Limit
                      /\ \A i \in (Len(l) - Limit + 1)..Len(l) :
                           clock - l[i].at < Window + MaxStall
    OBVIOUS
  <2>1. stage \in [Requests -> {"idle", "stamped", "admitted", "refused"}]
    BY DEF LimiterInv, LimiterTypeOK
  <2>2. PICK q \in Requests : Enter(q)
    BY <2>1 DEF LimiterNext, Tick, ReadClock
  <2>3. PICK rest : Refuse(q, rest) \/ Admit(q, rest)
    BY <2>2 DEF Enter
  <2>4. q = r /\ Refuse(r, rest)
    BY <2>1, <2>3 DEF Refuse, Admit
  <2> QED
    BY <2>4, RefusalHasCause
<1> QED
  BY <1>1, LimiterInvariance, PTL DEF LimiterSpec, RefusalsAreEarned

-----------------------------------------------------------------------------
(* The browser. *)

Checks == {c \in Calls : kind[c] = "check"}

\* The page: what the ref and the closures say about the calls under way.
PageInv ==
  /\ path \in Paths
  /\ {settled, redirected, user, loading, checking, session, skipped, failed} \subseteq BOOLEAN
  /\ kind \in [Calls -> {"unused", "check", "logout", "over"}]
  /\ bears \in [Calls -> BOOLEAN]
  /\ left \in {None, "clean", "while checking", "signed in"}
  /\ \/ ~checking /\ Checks = {}
     \/ checking /\ \E c \in Calls : Checks = {c}
  /\ current \in Checks \cup {None}

CleanInv ==
  left = "clean" => ~user /\ ~session /\ (current # None => ~bears[current])

-----------------------------------------------------------------------------
\* A call takes an unused one of the browser.
LEMMA SendFacts ==
  ASSUME NEW what, Send(what)
  PROVE  \E c \in Calls :
           /\ kind[c] = "unused" /\ ReadClock(c)
           /\ kind' = [kind EXCEPT ![c] = what]
           /\ bears' = [bears EXCEPT ![c] = session]
           /\ current' = (IF what = "check" THEN c ELSE current)
           /\ session' = session
  BY DEF Send, Unused

\* What a step of the browser does to the limiter.
LEMMA LimiterSteps == Next => [LimiterNext]_limiter
<1> SUFFICES ASSUME Next PROVE LimiterNext \/ UNCHANGED limiter
  OBVIOUS
<1> USE DEF LimiterNext
<1>1. CASE Tick /\ Browser
  BY <1>1
<1>2. CASE \E r \in Requests \ Calls : ReadClock(r) /\ Browser
  BY <1>2
<1>3. CASE \E r \in Requests : Serve(r)
  BY <1>3 DEF Serve
<1>4. ASSUME NEW what, Send(what) PROVE LimiterNext
  BY <1>4, SendFacts, CallsAssumption
<1>5. CASE Effect
  BY <1>4, <1>5 DEF Effect
<1>6. CASE SignOut
  BY <1>4, <1>6 DEF SignOut
<1>7. CASE Redirect \/ \E p \in Paths : Navigate(p)
  BY <1>7 DEF Redirect, Navigate, Render
<1>8. CASE \E c \in Calls : Answer(c)
  BY <1>8 DEF Answer, Checked, SignedOut
<1>9. CASE Reload \/ LogIn \/ Expire
  BY <1>9 DEF Reload, LogIn, Load, Expire
<1> QED
  BY <1>1, <1>2, <1>3, <1>5, <1>6, <1>7, <1>8, <1>9 DEF Next

\* The browser's system implements the limiter.
THEOREM BrowserUsesLimiter == Spec => LimiterSpec
<1>1. Init => LimiterInit
  BY DEF Init
<1>2. [Next]_vars => [LimiterNext]_limiter
  BY LimiterSteps DEF vars
<1> QED
  BY <1>1, <1>2, PTL DEF Spec, LimiterSpec

\* AdmissionsAreSpaced, of the server with the browser in front of it: whatever pages
\* the user opens, an address is admitted at most Limit times within
\* Window - MaxStall (rate_limit.py:31-45, auth.py:41).
THEOREM BrowserIsLimited == Spec => []AdmissionsAreSpaced
  BY BrowserUsesLimiter, AdmissionsAreBounded, PTL

\* RefusalsAreEarned, of the server with the browser in front of it: a check is refused
\* only if the address had its admissions within Window + MaxStall
\* (rate_limit.py:35-43).
THEOREM BrowserIsRefusedForCause == Spec => RefusalsAreEarned
  BY BrowserUsesLimiter, RefusalsHaveCause, PTL

-----------------------------------------------------------------------------
\* The page starts in its invariants.
LEMMA PageInitially == Init => PageInv /\ CleanInv /\ BlankPageHasACause
<1> SUFFICES ASSUME Init PROVE PageInv /\ CleanInv /\ BlankPageHasACause
  OBVIOUS
<1>1. Checks = {}
  BY DEF Init, Checks
<1> QED
  BY <1>1, CallsAssumption DEF Init, PageInv, CleanInv, BlankPageHasACause

\* A check or a logout is sent.
LEMMA SendKeepsCalls ==
  ASSUME PageInv, NEW what \in {"check", "logout"}, Send(what),
         what = "check" => ~checking /\ checking',
         what = "logout" => checking' = checking
  PROVE  /\ kind' \in [Calls -> {"unused", "check", "logout", "over"}]
         /\ bears' \in [Calls -> BOOLEAN]
         /\ \/ ~checking' /\ Checks' = {}
            \/ checking' /\ \E c \in Calls : Checks' = {c}
         /\ current' \in Checks' \cup {None}
         /\ session' = session
         /\ what = "check" => current' \in Calls /\ bears'[current'] = session
         /\ what = "logout" /\ current # None => current' = current /\ bears'[current] = bears[current]
         /\ what = "logout" => current' = current
<1>1. PICK c \in Calls :
        /\ kind[c] = "unused"
        /\ kind' = [kind EXCEPT ![c] = what]
        /\ bears' = [bears EXCEPT ![c] = session]
        /\ current' = (IF what = "check" THEN c ELSE current)
        /\ session' = session
  BY SendFacts
<1>2. CASE what = "check"
  <2>1. Checks = {} /\ Checks' = {c}
    BY <1>1, <1>2 DEF PageInv, Checks
  <2> QED
    BY <1>1, <1>2, <2>1 DEF PageInv
<1>3. CASE what = "logout"
  <2>1. Checks' = Checks /\ c \notin Checks
    BY <1>1, <1>3 DEF PageInv, Checks
  <2> QED
    BY <1>1, <1>3, <2>1, CallsAssumption DEF PageInv
<1> QED
  BY <1>2, <1>3

\* The effect.
LEMMA EffectStep ==
  PageInv /\ CleanInv /\ BlankPageHasACause /\ Effect => (PageInv /\ CleanInv /\ BlankPageHasACause)'
<1> SUFFICES ASSUME PageInv, CleanInv, BlankPageHasACause, Effect
             PROVE  (PageInv /\ CleanInv /\ BlankPageHasACause)'
  OBVIOUS
<1>1. CASE path = Login /\ loading' = FALSE /\ current' = None
           /\ UNCHANGED <<checking, skipped, kind, bears, session, limiter>>
  BY <1>1 DEF Effect, PageInv, CleanInv, BlankPageHasACause, Checks
<1>2. CASE path # Login /\ checking /\ current' = None /\ skipped' = TRUE
           /\ UNCHANGED <<checking, loading, kind, bears, session, limiter>>
  BY <1>2 DEF Effect, PageInv, CleanInv, BlankPageHasACause, Checks
<1>3. CASE path # Login /\ ~checking /\ checking' = TRUE /\ loading' = TRUE
           /\ skipped' = FALSE /\ Send("check")
  <2>1. /\ kind' \in [Calls -> {"unused", "check", "logout", "over"}]
        /\ bears' \in [Calls -> BOOLEAN]
        /\ \/ ~checking' /\ Checks' = {}
           \/ checking' /\ \E c \in Calls : Checks' = {c}
        /\ current' \in Checks' \cup {None}
        /\ session' = session /\ bears'[current'] = session
    BY <1>3, SendKeepsCalls
  <2> QED
    BY <1>3, <2>1 DEF Effect, PageInv, CleanInv, BlankPageHasACause
<1> QED
  BY <1>1, <1>2, <1>3 DEF Effect

\* The answer to a check, of a live effect or of another.
LEMMA CheckedStep ==
  ASSUME NEW c \in Calls, NEW answer \in {"ok", "401", "error"}
  PROVE  PageInv /\ CleanInv /\ BlankPageHasACause /\ Checked(c, answer)
           => (PageInv /\ CleanInv /\ BlankPageHasACause)'
<1> SUFFICES ASSUME PageInv, CleanInv, BlankPageHasACause, Checked(c, answer)
             PROVE  (PageInv /\ CleanInv /\ BlankPageHasACause)'
  OBVIOUS
<1>1. Checks = {c} /\ Checks' = {} /\ checking' = FALSE
  <2>1. c \in Checks /\ checking' = FALSE
    BY DEF Checked, Checks
  <2>2. Checks = {c}
    BY <2>1 DEF PageInv
  <2>3. \A d \in Calls : d # c => kind'[d] = kind[d] /\ kind[d] # "check"
    BY <2>2 DEF Checked, PageInv, Checks
  <2>4. kind'[c] = "over"
    BY DEF Checked, PageInv
  <2> QED
    BY <2>1, <2>2, <2>3, <2>4 DEF Checks
<1>2. current' = None
  BY <1>1 DEF Checked, PageInv
<1>3. PageInv'
  BY <1>1, <1>2 DEF Checked, PageInv
<1>4. CleanInv'
  <2>1. CASE current = c
    <3>1. answer = "ok" => bears[c]
      BY DEF Checked, Answers
    <3> QED
      BY <1>2, <2>1, <3>1, CallsAssumption DEF Checked, CleanInv
  <2>2. CASE current # c
    BY <1>2, <2>2 DEF Checked, CleanInv
  <2> QED
    BY <2>1, <2>2
<1>5. BlankPageHasACause'
  BY DEF Checked, BlankPageHasACause
<1> QED
  BY <1>3, <1>4, <1>5

\* The end of signOut.
LEMMA SignedOutStep ==
  ASSUME NEW c \in Calls, NEW answer \in {"ok", "401", "error"}
  PROVE  PageInv /\ CleanInv /\ BlankPageHasACause /\ SignedOut(c, answer)
           => (PageInv /\ CleanInv /\ BlankPageHasACause)'
<1> SUFFICES ASSUME PageInv, CleanInv, BlankPageHasACause, SignedOut(c, answer)
             PROVE  (PageInv /\ CleanInv /\ BlankPageHasACause)'
  OBVIOUS
<1>1. Checks' = Checks
  BY DEF SignedOut, PageInv, Checks
<1>2. session' \in BOOLEAN /\ left' \in {"signed in", "while checking", "clean"}
  BY DEF SignedOut, PageInv
<1>3. PageInv'
  BY <1>1, <1>2 DEF SignedOut, PageInv
<1>4. left' = "clean" => ~session' /\ current = None
  BY <1>2 DEF SignedOut
<1> QED
  BY <1>3, <1>4 DEF SignedOut, CleanInv, BlankPageHasACause

\* A page load forgets the calls under way.
LEMMA LoadStep ==
  ASSUME NEW p \in Paths
  PROVE  /\ PageInv /\ CleanInv /\ Load(p) /\ session' \in BOOLEAN
         /\ left' = None \/ (left' = left /\ session' = session)
         => (PageInv /\ CleanInv /\ BlankPageHasACause)'
<1> SUFFICES ASSUME PageInv, CleanInv, Load(p), session' \in BOOLEAN,
                    left' = None \/ (left' = left /\ session' = session)
             PROVE  (PageInv /\ CleanInv /\ BlankPageHasACause)'
  OBVIOUS
<1>1. Checks' = {}
  BY DEF Load, PageInv, Checks
<1>2. kind' \in [Calls -> {"unused", "check", "logout", "over"}]
  BY DEF Load, PageInv
<1>3. PageInv'
  BY <1>1, <1>2 DEF Load, PageInv
<1>4. CleanInv' /\ BlankPageHasACause'
  BY CallsAssumption DEF Load, PageInv, CleanInv, BlankPageHasACause
<1> QED
  BY <1>3, <1>4
\* The three invariants of the page, together.
LEMMA PageStep ==
  PageInv /\ CleanInv /\ BlankPageHasACause /\ [Next]_vars
    => (PageInv /\ CleanInv /\ BlankPageHasACause)'
<1> SUFFICES ASSUME PageInv, CleanInv, BlankPageHasACause, [Next]_vars
             PROVE  (PageInv /\ CleanInv /\ BlankPageHasACause)'
  OBVIOUS
<1>1. CASE Browser \/ UNCHANGED vars
  <2>1. UNCHANGED <<page, kind, bears, session, history>>
    BY <1>1 DEF Browser, vars
  <2>2. Checks' = Checks
    BY <2>1 DEF Checks
  <2> QED
    BY <2>1, <2>2 DEF page, history, PageInv, CleanInv, BlankPageHasACause
<1>2. CASE Effect
  BY <1>2, EffectStep
<1>3. ASSUME NEW p \in Paths, p # path \/ p = Login, Render(p) PROVE (PageInv /\ CleanInv /\ BlankPageHasACause)'
  <2>1. Checks' = Checks /\ settled' \in BOOLEAN
    BY <1>3 DEF Render, Checks
  <2>2. PageInv' /\ CleanInv'
    BY <1>3, <2>1 DEF Render, history, PageInv, CleanInv
  <2>3. path' = Login \/ settled' = FALSE
    BY <1>3 DEF Render
  <2>4. BlankPageHasACause'
    BY <2>3 DEF BlankPageHasACause
  <2> QED
    BY <2>2, <2>4
<1>4. CASE Redirect \/ \E p \in Paths : Navigate(p)
  BY <1>3, <1>4 DEF Redirect, Navigate, Paths
<1>5. CASE \E c \in Calls : Answer(c)
  BY <1>5, CheckedStep, SignedOutStep DEF Answer
<1>6. CASE SignOut
  <2>1. /\ kind' \in [Calls -> {"unused", "check", "logout", "over"}]
        /\ bears' \in [Calls -> BOOLEAN]
        /\ \/ ~checking' /\ Checks' = {}
           \/ checking' /\ \E c \in Calls : Checks' = {c}
        /\ current' \in Checks' \cup {None}
        /\ session' = session /\ current' = current
        /\ current # None => bears'[current] = bears[current]
    BY <1>6, SendKeepsCalls DEF SignOut
  <2> QED
    BY <1>6, <2>1 DEF SignOut, history, PageInv, CleanInv, BlankPageHasACause
<1>7. CASE Reload
  BY <1>7, LoadStep DEF Reload, PageInv
<1>8. CASE LogIn
  <2>1. PICK p \in Protected : Load(p)
    BY <1>8 DEF LogIn
  <2>2. p \in Paths /\ left' = None /\ session' \in BOOLEAN
    BY <1>8 DEF LogIn, Paths
  <2>3. Load(p) /\ p \in Paths
    BY <2>1, <2>2
  <2> QED
    BY <2>2, <2>3, LoadStep
<1>9. CASE Expire
  <2>1. Checks' = Checks
    BY <1>9 DEF Expire, Checks
  <2> QED
    BY <1>9, <2>1 DEF Expire, page, history, PageInv, CleanInv, BlankPageHasACause
<1>10. Next => \/ Browser \/ Effect \/ Redirect \/ \E p \in Paths : Navigate(p)
               \/ \E c \in Calls : Answer(c)
               \/ SignOut \/ Reload \/ LogIn \/ Expire
  <2> SUFFICES ASSUME Next
               PROVE  \/ Browser \/ Effect \/ Redirect \/ \E p \in Paths : Navigate(p)
                      \/ \E c \in Calls : Answer(c)
                      \/ SignOut \/ Reload \/ LogIn \/ Expire
    OBVIOUS
  <2> QED
    BY DEF Next, Serve
<1> QED
  BY <1>1, <1>2, <1>4, <1>5, <1>6, <1>7, <1>8, <1>9, <1>10

LEMMA PageInvariance == Spec => [](PageInv /\ CleanInv /\ BlankPageHasACause)
  BY PageInitially, PageStep, PTL DEF Spec

\* TypeOK: the types of the page and of the limiter, and the ref that allows one check
\* at a time (AuthContext.tsx:28, 41-42, 61).
THEOREM OneCheckAtATime == Spec => []TypeOK
<1>1. PageInv /\ LimiterTypeOK => TypeOK
  <2> SUFFICES ASSUME PageInv, LimiterTypeOK PROVE TypeOK
    OBVIOUS
  <2>1. Cardinality(Checks) = (IF checking THEN 1 ELSE 0) /\ current \in Checks \cup {None}
    <3>1. CASE ~checking /\ Checks = {}
      BY <3>1, FS_EmptySet DEF PageInv
    <3>2. CASE checking /\ \E c \in Calls : Checks = {c}
      BY <3>2, FS_Singleton DEF PageInv
    <3> QED
      BY <3>1, <3>2 DEF PageInv
  <2> QED
    BY <2>1 DEF PageInv, TypeOK, Checks
<1>2. Spec => []LimiterTypeOK
  BY BrowserUsesLimiter, LimiterTypes, PTL
<1> QED
  BY <1>1, <1>2, PageInvariance, PTL

\* SignOutHolds: nothing that was under way, and no new check, shows a user who has
\* signed out clean (AuthContext.tsx:46-48, 81-92).
THEOREM SignOutIsFinal == Spec => []SignOutHolds
<1>1. CleanInv => SignOutHolds
  BY DEF CleanInv, SignOutHolds
<1> QED
  BY <1>1, PageInvariance, PTL

\* BlankPageHasACause: a protected page without a user and without a redirect had its
\* check skipped or failed (AuthContext.tsx:49-58).
THEOREM BlankPagesAreExplained == Spec => []BlankPageHasACause
  BY PageInvariance, PTL
=============================================================================
