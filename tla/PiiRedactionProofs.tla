-------------------------- MODULE PiiRedactionProofs --------------------------
(***************************************************************************)
(* What redaction removes and what it keeps, for any resume, any stored    *)
(* name and any words.                                                     *)
(*                                                                         *)
(* Every pass of the redaction folds over the lines of a text or over the  *)
(* tokens of a line.  The first part shows once, for all passes (Put),     *)
(* that a fold of nothing is where it starts and a fold of one more token  *)
(* is one more step (FoldOfNone, FoldOfOneMore), and that what holds of    *)
(* the empty sequence and survives one more token holds of all             *)
(* (SequenceInduction).  After that the proofs are about single tokens.    *)
(***************************************************************************)
EXTENDS PiiRedaction, SequenceTheorems, WellFoundedInduction, TLAPS

-----------------------------------------------------------------------------
(* Folds. *)

\* A nonempty set of natural numbers has a least one.
LEMMA LeastNumber ==
  ASSUME NEW T, T \subseteq Nat, T # {}
  PROVE  \E n \in T : \A m \in T : n <= m
<1> DEFINE R == OpToRel(<, Nat)
<1>1. IsWellFoundedOn(R, Nat)
  BY NatLessThanWellFounded
<1>2. \A m, n \in Nat : <<m, n>> \in R <=> m < n
  BY DEF OpToRel
<1> HIDE DEF R
<1>3. \E n \in T : \A m \in T : <<m, n>> \notin R
  BY <1>1, WFMin
<1>4. PICK n \in T : \A m \in T : <<m, n>> \notin R
  BY <1>3
<1>5. ASSUME NEW m \in T PROVE n <= m
  <2>1. n \in Nat /\ m \in Nat /\ ~(m < n)
    BY <1>2, <1>4
  <2>2. QED
    BY <2>1
<1>6. QED
  BY <1>5

\* Induction over the numbers, with a set in the place of a predicate.
LEMMA Induction ==
  ASSUME NEW G, 0 \in G, \A n \in Nat : n \in G => n + 1 \in G
  PROVE  Nat \subseteq G
<1> DEFINE Bad == {n \in Nat : n \notin G}
<1>1. ASSUME Bad # {} PROVE FALSE
  <2>1. Bad \subseteq Nat
    OBVIOUS
  <2>2. PICK b \in Bad : \A m \in Bad : b <= m
    BY <1>1, <2>1, LeastNumber
  <2>3. b \in Nat /\ b \notin G /\ b # 0
    OBVIOUS
  <2>4. b - 1 \in Nat /\ b - 1 < b /\ (b - 1) + 1 = b
    BY <2>3
  <2>5. b - 1 \notin Bad
    BY <2>2, <2>3, <2>4
  <2>6. QED
    BY <2>3, <2>4, <2>5
<1>2. QED
  BY <1>1

\* A sequence is a shorter one with its last element.
LEMMA LastOfSequence ==
  ASSUME NEW S, NEW s \in Seq(S), s # << >>
  PROVE  \E p \in Seq(S), t \in S : s = Append(p, t) /\ Len(s) = Len(p) + 1
<1> DEFINE p == SubSeq(s, 1, Len(s) - 1)
<1>1. Len(s) \in Nat /\ Len(s) # 0 /\ Len(s) - 1 \in Nat /\ Len(s) \in 1..Len(s)
  OBVIOUS
<1>2. p \in Seq(S) /\ Len(p) = Len(s) - 1 /\ s[Len(s)] \in S
  <2>1. s[Len(s)] \in S
    BY <1>1
  <2>2. p \in Seq(S)
    OBVIOUS
  <2>3. Len(p) = Len(s) - 1
    BY <1>1
  <2>4. QED
    BY <2>1, <2>2, <2>3
<1>3. \A i \in 1..Len(p) : p[i] = s[i]
  BY <1>1
<1>4. s = Append(p, s[Len(s)])
  BY <1>1, <1>2, <1>3
<1> HIDE DEF p
<1>5. Len(s) = Len(p) + 1
  BY <1>1, <1>2
<1>6. QED
  BY <1>2, <1>4, <1>5

\* Induction over sequences, with a set in the place of a predicate.
LEMMA SequenceInduction ==
  ASSUME NEW S, NEW G, << >> \in G,
         \A p \in Seq(S) : \A t \in S : p \in G => Append(p, t) \in G
  PROVE  Seq(S) \subseteq G
<1> DEFINE H == {n \in Nat : \A s \in Seq(S) : Len(s) = n => s \in G}
<1>1. 0 \in H
  <2>1. \A s \in Seq(S) : Len(s) = 0 => s = << >>
    OBVIOUS
  <2>2. QED
    BY <2>1
<1>2. ASSUME NEW n \in Nat, n \in H PROVE n + 1 \in H
  <2>1. ASSUME NEW s \in Seq(S), Len(s) = n + 1 PROVE s \in G
    <3>1. s # << >>
      BY <2>1
    <3>2. PICK p \in Seq(S), t \in S : s = Append(p, t) /\ Len(s) = Len(p) + 1
      BY <3>1, LastOfSequence
    <3>3. Len(p) = n
      BY <2>1, <3>2
    <3>4. p \in G
      BY <1>2, <3>3
    <3>5. QED
      BY <3>2, <3>4
  <2>2. QED
    BY <2>1
<1>3. Nat \subseteq H
  BY <1>1, <1>2, Induction
<1>4. ASSUME NEW s \in Seq(S) PROVE s \in G
  <2>1. Len(s) \in H
    BY <1>3
  <2>2. QED
    BY <2>1
<1>5. QED
  BY <1>4

\* One more token or line, for every pass over lines or tokens.
Put(pass, arg, done, t) ==
  IF pass = "line" THEN PutLine(done, t)
  ELSE IF pass = "url" THEN PutUrl(done, t)
  ELSE IF pass = "word" THEN PutWord(arg, done, t)
  ELSE IF pass = "section" THEN PutInSection(done, t)
  ELSE IF pass = "only" THEN IF t \in arg THEN Append(done, t) ELSE done
  ELSE done \o Only(arg, t)

\* The recursion that a fold is defined by.
Steps(pass, arg, base, s, n, g) ==
  g = [T \in SUBSET (1..n) |-> IF T = {} THEN base
                               ELSE Put(pass, arg, g[T \ {Max(T)}], s[Max(T)])]

\* The largest number of a part of 1..n that n is in.
LEMMA MaxOfTop ==
  ASSUME NEW n \in Nat, NEW T \in SUBSET (1..n), n \in T
  PROVE  Max(T) = n
<1>1. \A y \in T : n >= y
  OBVIOUS
<1>2. \A x \in T : (\A y \in T : x >= y) => x = n
  OBVIOUS
<1>3. QED
  BY <1>1, <1>2 DEF Max

\* The recursion has a solution.
LEMMA StepsExist ==
  ASSUME NEW pass, NEW arg, NEW base, NEW s, NEW n \in Nat
  PROVE  \E g : Steps(pass, arg, base, s, n, g)
<1> DEFINE G == {m \in Nat : \E g : Steps(pass, arg, base, s, m, g)}
<1>1. 0 \in G
  <2> DEFINE g == [T \in SUBSET (1..0) |-> base]
  <2>1. \A T \in SUBSET (1..0) : T = {}
    OBVIOUS
  <2>2. Steps(pass, arg, base, s, 0, g)
    BY <2>1 DEF Steps
  <2>3. QED
    BY <2>2
<1>2. ASSUME NEW m \in Nat, m \in G PROVE m + 1 \in G
  <2>0. PICK g : Steps(pass, arg, base, s, m, g)
    BY <1>2
  <2> DEFINE h == [T \in SUBSET (1..(m+1)) |->
                     IF m+1 \in T THEN Put(pass, arg, g[T \ {m+1}], s[m+1]) ELSE g[T]]
  <2>1. ASSUME NEW T \in SUBSET (1..(m+1))
        PROVE  h[T] = IF T = {} THEN base ELSE Put(pass, arg, h[T \ {Max(T)}], s[Max(T)])
    <3>0. h[T] = IF m+1 \in T THEN Put(pass, arg, g[T \ {m+1}], s[m+1]) ELSE g[T]
      OBVIOUS
    <3>1. CASE m+1 \in T
      <4>1. Max(T) = m + 1
        <5>1. m + 1 \in Nat
          OBVIOUS
        <5>2. QED
          BY <3>1, <5>1, MaxOfTop
      <4>2. T \ {m+1} \in SUBSET (1..(m+1)) /\ m+1 \notin T \ {m+1}
        OBVIOUS
      <4>3. h[T \ {m+1}] = g[T \ {m+1}]
        BY <4>2
      <4> HIDE DEF h
      <4>4. QED
        BY <3>0, <3>1, <4>1, <4>3
    <3>2. CASE m+1 \notin T
      <4>1. T \in SUBSET (1..m)
        BY <3>2
      <4>2. T \ {Max(T)} \in SUBSET (1..(m+1)) /\ m+1 \notin T \ {Max(T)}
        BY <3>2
      <4>3. h[T \ {Max(T)}] = g[T \ {Max(T)}]
        BY <4>2
      <4>4. g[T] = IF T = {} THEN base ELSE Put(pass, arg, g[T \ {Max(T)}], s[Max(T)])
        BY <2>0, <4>1 DEF Steps
      <4> HIDE DEF h
      <4>5. QED
        BY <3>0, <3>2, <4>3, <4>4
    <3>3. QED
      BY <3>1, <3>2
  <2>2. h = [T \in SUBSET (1..(m+1)) |-> h[T]]
    OBVIOUS
  <2> HIDE DEF h
  <2>3. Steps(pass, arg, base, s, m + 1, h)
    BY <2>1, <2>2 DEF Steps
  <2>4. QED
    BY <2>3
<1>3. Nat \subseteq G
  BY <1>1, <1>2, Induction
<1>4. QED
  BY <1>3

\* A solution goes one step at a time.
LEMMA FirstStep ==
  ASSUME NEW pass, NEW arg, NEW base, NEW s, NEW n \in Nat, NEW g,
         Steps(pass, arg, base, s, n, g)
  PROVE  g[1..0] = base
<1>1. 1..0 = {} /\ {} \in SUBSET (1..n)
  OBVIOUS
<1>2. g[{}] = base
  BY <1>1 DEF Steps
<1>3. QED
  BY <1>1, <1>2

\* Every further number is one step.
LEMMA OneStep ==
  ASSUME NEW pass, NEW arg, NEW base, NEW s, NEW n \in Nat, NEW g,
         Steps(pass, arg, base, s, n, g)
  PROVE  \A i \in 1..n : g[1..i] = Put(pass, arg, g[1..(i-1)], s[i])
<1>1. ASSUME NEW i \in 1..n
      PROVE  g[1..i] = Put(pass, arg, g[1..(i-1)], s[i])
  <2>1. 1..i \in SUBSET (1..n) /\ 1..i # {}
    OBVIOUS
  <2>2. i \in Nat /\ 1..i \in SUBSET (1..i) /\ i \in 1..i
    OBVIOUS
  <2>3. Max(1..i) = i
    BY <2>2, MaxOfTop
  <2>4. (1..i) \ {i} = 1..(i-1)
    OBVIOUS
  <2>5. g[1..i] = Put(pass, arg, g[(1..i) \ {Max(1..i)}], s[Max(1..i)])
    BY <2>1 DEF Steps
  <2>6. QED
    BY <2>3, <2>4, <2>5
<1>2. QED
  BY <1>1

\* Two solutions agree as far as their sequences do.
Agree(s, r, k) == \A i \in 1..k : s[i] = r[i]

LEMMA SameSteps ==
  ASSUME NEW pass, NEW arg, NEW base, NEW s, NEW n \in Nat, NEW g,
         Steps(pass, arg, base, s, n, g),
         NEW r, NEW m \in Nat, NEW h, Steps(pass, arg, base, r, m, h),
         NEW k \in 0..n, k \in 0..m, Agree(s, r, k)
  PROVE  g[1..k] = h[1..k]
<1> DEFINE G == {i \in Nat : i <= k => g[1..i] = h[1..i]}
<1>1. 0 \in G
  <2>1. g[1..0] = base
    BY FirstStep
  <2>2. h[1..0] = base
    BY FirstStep
  <2>3. QED
    BY <2>1, <2>2
<1>2. ASSUME NEW i \in Nat, i \in G PROVE i + 1 \in G
  <2>1. ASSUME i + 1 <= k PROVE g[1..(i+1)] = h[1..(i+1)]
    <3>1. i + 1 \in 1..n /\ i + 1 \in 1..m /\ i + 1 \in 1..k /\ (i + 1) - 1 = i /\ i <= k
      BY <2>1
    <3> DEFINE j == i + 1
    <3>2. j \in 1..n /\ j \in 1..m /\ j - 1 = i
      BY <3>1
    <3> HIDE DEF j
    <3>3. g[1..j] = Put(pass, arg, g[1..(j-1)], s[j])
      <4>1. \A l \in 1..n : g[1..l] = Put(pass, arg, g[1..(l-1)], s[l])
        BY OneStep
      <4>2. QED
        BY <3>2, <4>1
    <3>4. h[1..j] = Put(pass, arg, h[1..(j-1)], r[j])
      <4>1. \A l \in 1..m : h[1..l] = Put(pass, arg, h[1..(l-1)], r[l])
        BY OneStep
      <4>2. QED
        BY <3>2, <4>1
    <3>5. g[1..i] = h[1..i] /\ s[j] = r[j]
      BY <1>2, <3>1 DEF j, Agree
    <3>6. QED
      BY <3>2, <3>3, <3>4, <3>5 DEF j
  <2>2. QED
    BY <2>1
<1>3. Nat \subseteq G
  BY <1>1, <1>2, Induction
<1>4. QED
  BY <1>3

\* All folds of the passes, as one.
Fold(pass, arg, base, s) == (CHOOSE g : Steps(pass, arg, base, s, Len(s), g))[1..Len(s)]

\* Any solution gives the fold.
LEMMA FoldSolved ==
  ASSUME NEW pass, NEW arg, NEW base, NEW s, Len(s) \in Nat,
         NEW g, Steps(pass, arg, base, s, Len(s), g)
  PROVE  Fold(pass, arg, base, s) = g[1..Len(s)]
<1> DEFINE h == CHOOSE f : Steps(pass, arg, base, s, Len(s), f)
<1>1. Steps(pass, arg, base, s, Len(s), h)
  BY StepsExist
<1> HIDE DEF h
<1>2. h[1..Len(s)] = g[1..Len(s)]
  <2> DEFINE n == Len(s)
  <2>1. Steps(pass, arg, base, s, n, h) /\ Steps(pass, arg, base, s, n, g) /\ n \in Nat
    BY <1>1
  <2>2. n \in 0..n /\ Agree(s, s, n)
    BY <2>1 DEF Agree
  <2> HIDE DEF n
  <2>3. h[1..n] = g[1..n]
    BY <2>1, <2>2, SameSteps
  <2>4. QED
    BY <2>1, <2>2, <2>3 DEF n
<1>3. QED
  BY <1>2 DEF Fold, h

\* A fold of nothing is where it starts.
LEMMA FoldOfNone ==
  ASSUME NEW pass, NEW arg, NEW base
  PROVE  Fold(pass, arg, base, << >>) = base
<1>1. Len(<< >>) = 0
  OBVIOUS
<1>2. PICK g : Steps(pass, arg, base, << >>, 0, g)
  BY StepsExist
<1>3. g[1..0] = base
  BY <1>2, FirstStep
<1>4. QED
  BY <1>1, <1>2, <1>3, FoldSolved

\* A solution for a longer sequence goes one step beyond one for a shorter.
LEMMA LongerSteps ==
  ASSUME NEW pass, NEW arg, NEW base, NEW s, NEW n \in Nat, NEW h,
         Steps(pass, arg, base, s, n, h),
         NEW r, NEW m \in Nat, NEW g, Steps(pass, arg, base, r, m, g),
         n < m, m <= n + 1, h[1..n] = g[1..n]
  PROVE  g[1..m] = Put(pass, arg, h[1..n], r[m])
<1>1. \A l \in 1..m : g[1..l] = Put(pass, arg, g[1..(l-1)], r[l])
  BY OneStep
<1>2. m \in 1..m /\ m - 1 = n
  OBVIOUS
<1>3. g[1..m] = Put(pass, arg, g[1..n], r[m])
  BY <1>1, <1>2
<1>4. QED
  BY <1>3

\* A fold of one more element is one more step.
LEMMA FoldOfOneMore ==
  ASSUME NEW pass, NEW arg, NEW base, NEW S, NEW s \in Seq(S), NEW t \in S
  PROVE  Fold(pass, arg, base, Append(s, t)) = Put(pass, arg, Fold(pass, arg, base, s), t)
<1> DEFINE r == Append(s, t)
           n == Len(s)
           m == Len(r)
<1>1. /\ n \in Nat /\ m \in Nat /\ n < m /\ m <= n + 1 /\ r[m] = t
      /\ \A i \in 1..n : s[i] = r[i]
  OBVIOUS
<1>2. PICK g : Steps(pass, arg, base, r, m, g)
  BY <1>1, StepsExist
<1>3. PICK h : Steps(pass, arg, base, s, n, h)
  BY <1>1, StepsExist
<1>4. Fold(pass, arg, base, r) = g[1..m]
  <2>1. Len(r) \in Nat
    BY <1>1
  <2>2. Steps(pass, arg, base, r, Len(r), g)
    BY <1>2
  <2> HIDE DEF r
  <2>3. QED
    BY <2>1, <2>2, FoldSolved
<1>7. Fold(pass, arg, base, s) = h[1..n]
  BY <1>1, <1>3, FoldSolved
<1> HIDE DEF r, n, m
<1>8. n \in 0..n /\ n \in 0..m /\ Agree(s, r, n)
  BY <1>1 DEF Agree
<1>9. h[1..n] = g[1..n]
  BY <1>1, <1>2, <1>3, <1>8, SameSteps
<1>5. g[1..m] = Put(pass, arg, h[1..n], r[m])
  BY <1>1, <1>2, <1>3, <1>9, LongerSteps
<1>6. QED
  BY <1>1, <1>4, <1>5, <1>7 DEF r

-----------------------------------------------------------------------------
(* Each pass is such a fold. *)

\* The lines of a text.
LEMMA JoinFolds ==
  ASSUME NEW S, NEW s \in Seq(S)
  PROVE  Join(s) = Fold("line", << >>, << >>, s)
<1> DEFINE n == Len(s)
           Solves(g) == g = [T \in SUBSET (1..n) |-> IF T = {} THEN << >>
                               ELSE PutLine(g[T \ {Max(T)}], s[Max(T)])]
           c == CHOOSE g : Solves(g)
<1>1. n \in Nat /\ DOMAIN s = 1..n
  OBVIOUS
<1>2. Join(s) = c[1..n]
  BY <1>1 DEF Join, FoldLeft, MapThenFoldSet
<1>3. \A g : Steps("line", << >>, << >>, s, n, g) <=> Solves(g)
  BY DEF Steps, Put
<1>4. PICK f : Steps("line", << >>, << >>, s, n, f)
  BY <1>1, StepsExist
<1>5. Solves(f)
  BY <1>3, <1>4
<1> HIDE DEF Solves
<1>6. Solves(c)
  BY <1>5
<1>7. Steps("line", << >>, << >>, s, n, c)
  BY <1>3, <1>6
<1> HIDE DEF c
<1>8. QED
  BY <1>1, <1>2, <1>7, FoldSolved


\* The tokens of a line, for links.
LEMMA UrlFolds ==
  ASSUME NEW S, NEW s \in Seq(S)
  PROVE  FoldLeft(PutUrl, << >>, s) = Fold("url", << >>, << >>, s)
<1> DEFINE n == Len(s)
           Solves(g) == g = [T \in SUBSET (1..n) |-> IF T = {} THEN << >>
                               ELSE PutUrl(g[T \ {Max(T)}], s[Max(T)])]
           c == CHOOSE g : Solves(g)
<1>1. n \in Nat /\ DOMAIN s = 1..n
  OBVIOUS
<1>2. FoldLeft(PutUrl, << >>, s) = c[1..n]
  BY <1>1 DEF FoldLeft, MapThenFoldSet
<1>3. \A g : Steps("url", << >>, << >>, s, n, g) <=> Solves(g)
  BY DEF Steps, Put
<1>4. PICK f : Steps("url", << >>, << >>, s, n, f)
  BY <1>1, StepsExist
<1>5. Solves(f)
  BY <1>3, <1>4
<1> HIDE DEF Solves
<1>6. Solves(c)
  BY <1>5
<1>7. Steps("url", << >>, << >>, s, n, c)
  BY <1>3, <1>6
<1> HIDE DEF c
<1>8. QED
  BY <1>1, <1>2, <1>7, FoldSolved

\* For the full name.
LEMMA WordFolds ==
  ASSUME NEW S, NEW s \in Seq(S), NEW who
  PROVE  FoldLeft(LAMBDA done, t : PutWord(who, done, t), << >>, s) = Fold("word", who, << >>, s)
<1> DEFINE n == Len(s)
           Solves(g) == g = [T \in SUBSET (1..n) |-> IF T = {} THEN << >>
                               ELSE PutWord(who, g[T \ {Max(T)}], s[Max(T)])]
           c == CHOOSE g : Solves(g)
<1>1. n \in Nat /\ DOMAIN s = 1..n
  OBVIOUS
<1>2. FoldLeft(LAMBDA done, t : PutWord(who, done, t), << >>, s) = c[1..n]
  BY <1>1 DEF FoldLeft, MapThenFoldSet
<1>3. \A g : Steps("word", who, << >>, s, n, g) <=> Solves(g)
  BY DEF Steps, Put
<1>4. PICK f : Steps("word", who, << >>, s, n, f)
  BY <1>1, StepsExist
<1>5. Solves(f)
  BY <1>3, <1>4
<1> HIDE DEF Solves
<1>6. Solves(c)
  BY <1>5
<1>7. Steps("word", who, << >>, s, n, c)
  BY <1>3, <1>6
<1> HIDE DEF c
<1>8. QED
  BY <1>1, <1>2, <1>7, FoldSolved

\* The lines of a text, for its sections.
LEMMA SectionFolds ==
  ASSUME NEW S, NEW s \in Seq(S)
  PROVE  FoldLeft(PutInSection, NoSections, s) = Fold("section", << >>, NoSections, s)
<1> DEFINE n == Len(s)
           Solves(g) == g = [T \in SUBSET (1..n) |-> IF T = {} THEN NoSections
                               ELSE PutInSection(g[T \ {Max(T)}], s[Max(T)])]
           c == CHOOSE g : Solves(g)
<1>1. n \in Nat /\ DOMAIN s = 1..n
  OBVIOUS
<1>2. FoldLeft(PutInSection, NoSections, s) = c[1..n]
  BY <1>1 DEF FoldLeft, MapThenFoldSet
<1>3. \A g : Steps("section", << >>, NoSections, s, n, g) <=> Solves(g)
  BY DEF Steps, Put
<1>4. PICK f : Steps("section", << >>, NoSections, s, n, f)
  BY <1>1, StepsExist
<1>5. Solves(f)
  BY <1>3, <1>4
<1> HIDE DEF Solves
<1>6. Solves(c)
  BY <1>5
<1>7. Steps("section", << >>, NoSections, s, n, c)
  BY <1>3, <1>6
<1> HIDE DEF c
<1>8. QED
  BY <1>1, <1>2, <1>7, FoldSolved

\* The tokens of a line, for what is kept of them.
LEMMA OnlyFolds ==
  ASSUME NEW S, NEW s \in Seq(S), NEW kept
  PROVE  Only(kept, s) = Fold("only", kept, << >>, s)
<1> DEFINE n == Len(s)
           Solves(g) == g = [T \in SUBSET (1..n) |-> IF T = {} THEN << >>
                               ELSE IF s[Max(T)] \in kept THEN Append(g[T \ {Max(T)}], s[Max(T)])
                               ELSE g[T \ {Max(T)}]]
           c == CHOOSE g : Solves(g)
<1>1. n \in Nat /\ DOMAIN s = 1..n
  OBVIOUS
<1>2. Only(kept, s) = c[1..n]
  BY <1>1 DEF Only, FoldLeft, MapThenFoldSet
<1>3. \A g : Steps("only", kept, << >>, s, n, g) <=> Solves(g)
  BY DEF Steps, Put
<1>4. PICK f : Steps("only", kept, << >>, s, n, f)
  BY <1>1, StepsExist
<1>5. Solves(f)
  BY <1>3, <1>4
<1> HIDE DEF Solves
<1>6. Solves(c)
  BY <1>5
<1>7. Steps("only", kept, << >>, s, n, c)
  BY <1>3, <1>6
<1> HIDE DEF c
<1>8. QED
  BY <1>1, <1>2, <1>7, FoldSolved

\* The lines of a text, for the same.
LEMMA OnlyOfFolds ==
  ASSUME NEW S, NEW s \in Seq(S), NEW kept
  PROVE  OnlyOf(kept, s) = Fold("text", kept, << >>, s)
<1> DEFINE n == Len(s)
           Solves(g) == g = [T \in SUBSET (1..n) |-> IF T = {} THEN << >>
                               ELSE g[T \ {Max(T)}] \o Only(kept, s[Max(T)])]
           c == CHOOSE g : Solves(g)
<1>1. n \in Nat /\ DOMAIN s = 1..n
  OBVIOUS
<1>2. OnlyOf(kept, s) = c[1..n]
  BY <1>1 DEF OnlyOf, FoldLeft, MapThenFoldSet
<1>3. \A g : Steps("text", kept, << >>, s, n, g) <=> Solves(g)
  BY DEF Steps, Put
<1>4. PICK f : Steps("text", kept, << >>, s, n, f)
  BY <1>1, StepsExist
<1>5. Solves(f)
  BY <1>3, <1>4
<1> HIDE DEF Solves
<1>6. Solves(c)
  BY <1>5
<1>7. Steps("text", kept, << >>, s, n, c)
  BY <1>3, <1>6
<1> HIDE DEF c
<1>8. QED
  BY <1>1, <1>2, <1>7, FoldSolved

-----------------------------------------------------------------------------
(* What is kept of a line and of a text. *)

\* Sequences after one another.
LEMMA Concatenation ==
  ASSUME NEW S, NEW a \in Seq(S), NEW b \in Seq(S)
  PROVE  /\ a \o b \in Seq(S) /\ a \o << >> = a /\ Len(a \o b) = Len(a) + Len(b)
         /\ \A t \in S : Append(a \o b, t) = a \o Append(b, t)
         /\ \A c \in Seq(S) : (a \o b) \o c = a \o (b \o c)
OBVIOUS

\* Of an empty line nothing is kept.
LEMMA OnlyOfNone ==
  ASSUME NEW K
  PROVE  Only(K, << >>) = << >>
<1>1. << >> \in Seq({})
  OBVIOUS
<1>2. Only(K, << >>) = Fold("only", K, << >>, << >>)
  BY <1>1, OnlyFolds
<1>3. QED
  BY <1>2, FoldOfNone

\* One more token is kept or not.
LEMMA OnlyOfOneMore ==
  ASSUME NEW K, NEW S, NEW s \in Seq(S), NEW t \in S
  PROVE  Only(K, Append(s, t)) = IF t \in K THEN Append(Only(K, s), t) ELSE Only(K, s)
<1> DEFINE r == Append(s, t)
<1>1. r \in Seq(S)
  OBVIOUS
<1> HIDE DEF r
<1>2. Only(K, r) = Fold("only", K, << >>, r)
  BY <1>1, OnlyFolds
<1>3. Only(K, s) = Fold("only", K, << >>, s)
  BY OnlyFolds
<1>4. Fold("only", K, << >>, r) = Put("only", K, Fold("only", K, << >>, s), t)
  BY FoldOfOneMore DEF r
<1>5. \A done : Put("only", K, done, t) = IF t \in K THEN Append(done, t) ELSE done
  BY DEF Put
<1>6. QED
  BY <1>2, <1>3, <1>4, <1>5 DEF r

\* What is kept are tokens of the line.
LEMMA OnlyType ==
  ASSUME NEW K, NEW S, NEW s \in Seq(S)
  PROVE  Only(K, s) \in Seq(S)
<1> DEFINE G == {p \in Seq(S) : Only(K, p) \in Seq(S)}
<1>1. << >> \in G
  <2>1. << >> \in Seq(S)
    OBVIOUS
  <2>2. Only(K, << >>) = << >>
    BY OnlyOfNone
  <2>3. QED
    BY <2>1, <2>2
<1>2. ASSUME NEW p \in Seq(S), NEW t \in S, p \in G PROVE Append(p, t) \in G
  <2>1. Append(p, t) \in Seq(S) /\ Only(K, p) \in Seq(S)
    BY <1>2
  <2>2. Only(K, Append(p, t)) = IF t \in K THEN Append(Only(K, p), t) ELSE Only(K, p)
    BY OnlyOfOneMore
  <2>3. QED
    BY <2>1, <2>2
<1> HIDE DEF G
<1>3. Seq(S) \subseteq G
  BY <1>1, <1>2, SequenceInduction
<1>4. QED
  BY <1>3 DEF G

\* Of two lines after one another, what is kept of each.
LEMMA OnlyConcat ==
  ASSUME NEW K, NEW S, NEW s \in Seq(S), NEW r \in Seq(S)
  PROVE  Only(K, s \o r) = Only(K, s) \o Only(K, r)
<1> DEFINE G == {p \in Seq(S) : Only(K, s \o p) = Only(K, s) \o Only(K, p)}
<1>1. << >> \in G
  <2>1. s \o << >> = s /\ << >> \in Seq(S)
    OBVIOUS
  <2>2. Only(K, s) \in Seq(S)
    BY OnlyType
  <2>3. Only(K, s) \o << >> = Only(K, s)
    BY <2>2
  <2>4. Only(K, << >>) = << >>
    BY OnlyOfNone
  <2>5. QED
    BY <2>1, <2>3, <2>4
<1>2. ASSUME NEW p \in Seq(S), NEW t \in S, p \in G PROVE Append(p, t) \in G
  <2> DEFINE q == s \o p
  <2>1. q \in Seq(S) /\ Append(p, t) \in Seq(S) /\ s \o Append(p, t) = Append(q, t)
    OBVIOUS
  <2>2. Only(K, q) = Only(K, s) \o Only(K, p)
    BY <1>2
  <2> HIDE DEF q
  <2>3. Only(K, s) \in Seq(S) /\ Only(K, p) \in Seq(S)
    BY OnlyType
  <2>4. Only(K, Append(q, t)) = IF t \in K THEN Append(Only(K, q), t) ELSE Only(K, q)
    BY <2>1, OnlyOfOneMore
  <2>5. Only(K, Append(p, t)) = IF t \in K THEN Append(Only(K, p), t) ELSE Only(K, p)
    BY OnlyOfOneMore
  <2>6. Append(Only(K, s) \o Only(K, p), t) = Only(K, s) \o Append(Only(K, p), t)
    <3> DEFINE a == Only(K, s)
               b == Only(K, p)
    <3>1. a \in Seq(S) /\ b \in Seq(S)
      BY <2>3
    <3> HIDE DEF a, b
    <3>2. Append(a \o b, t) = a \o Append(b, t)
      BY <3>1
    <3>3. QED
      BY <3>2 DEF a, b
  <2>7. Only(K, s \o Append(p, t)) = Only(K, s) \o Only(K, Append(p, t))
    BY <2>1, <2>2, <2>4, <2>5, <2>6
  <2>8. QED
    BY <2>1, <2>7
<1> HIDE DEF G
<1>3. Seq(S) \subseteq G
  BY <1>1, <1>2, SequenceInduction
<1>4. QED
  BY <1>3 DEF G

\* Lines that differ in tokens that are not kept.
Alike(K, s, r) ==
  /\ Len(s) = Len(r)
  /\ \A i \in 1..Len(s) : s[i] = r[i] \/ (s[i] \notin K /\ r[i] \notin K)

\* Of lines that are alike the same is kept.
LEMMA OnlyOfAlike ==
  ASSUME NEW K, NEW S, NEW s \in Seq(S), NEW r \in Seq(S), Alike(K, s, r)
  PROVE  Only(K, s) = Only(K, r)
<1> DEFINE G == {p \in Seq(S) : \A q \in Seq(S) : Alike(K, p, q) => Only(K, p) = Only(K, q)}
<1>1. << >> \in G
  <2>1. ASSUME NEW q \in Seq(S), Alike(K, << >>, q) PROVE q = << >>
    <3>1. Len(q) = 0
      BY <2>1 DEF Alike
    <3>2. QED
      BY <3>1
  <2>2. QED
    BY <2>1
<1>2. ASSUME NEW p \in Seq(S), NEW t \in S, p \in G PROVE Append(p, t) \in G
  <2>1. ASSUME NEW q \in Seq(S), Alike(K, Append(p, t), q)
        PROVE  Only(K, Append(p, t)) = Only(K, q)
    <3>1. Len(Append(p, t)) = Len(p) + 1 /\ Len(p) \in Nat /\ Len(q) = Len(p) + 1
      BY <2>1 DEF Alike
    <3>2. q # << >>
      BY <3>1
    <3>3. PICK f \in Seq(S), u \in S : q = Append(f, u) /\ Len(q) = Len(f) + 1
      BY <3>2, LastOfSequence
    <3>4. Len(f) = Len(p) /\ Len(f) \in Nat
      BY <3>1, <3>3
    <3>5. t = u \/ (t \notin K /\ u \notin K)
      <4>1. Len(p) + 1 \in 1..Len(Append(p, t))
        BY <3>1
      <4>2. Append(p, t)[Len(p) + 1] = t /\ Append(f, u)[Len(p) + 1] = u
        BY <3>4
      <4>3. QED
        BY <2>1, <3>3, <4>1, <4>2 DEF Alike
    <3>6. ASSUME NEW i \in 1..Len(p) PROVE p[i] = f[i] \/ (p[i] \notin K /\ f[i] \notin K)
      <4>1. i \in 1..Len(Append(p, t))
        BY <3>1
      <4>2. Append(p, t)[i] = p[i] /\ Append(f, u)[i] = f[i]
        BY <3>4
      <4>3. QED
        BY <2>1, <3>3, <4>1, <4>2 DEF Alike
    <3>7. Alike(K, p, f)
      BY <3>4, <3>6 DEF Alike
    <3>8. Only(K, p) = Only(K, f)
      BY <1>2, <3>7
    <3>9. Only(K, Append(p, t)) = IF t \in K THEN Append(Only(K, p), t) ELSE Only(K, p)
      BY OnlyOfOneMore
    <3>10. Only(K, Append(f, u)) = IF u \in K THEN Append(Only(K, f), u) ELSE Only(K, f)
      BY OnlyOfOneMore
    <3>11. QED
      BY <3>3, <3>5, <3>8, <3>9, <3>10
  <2>2. Append(p, t) \in Seq(S)
    OBVIOUS
  <2>3. QED
    BY <2>1, <2>2
<1> HIDE DEF G
<1>3. Seq(S) \subseteq G
  BY <1>1, <1>2, SequenceInduction
<1>4. QED
  BY <1>3 DEF G

\* What ends in tokens that are not kept.
LEMMA OnlyOfPrefix ==
  ASSUME NEW K, NEW S, NEW s \in Seq(S), NEW c \in 0..Len(s),
         \A i \in (c+1)..Len(s) : s[i] \notin K
  PROVE  Only(K, SubSeq(s, 1, c)) = Only(K, s)
<1> DEFINE G == {n \in Nat : n \in c..Len(s) => Only(K, SubSeq(s, 1, n)) = Only(K, SubSeq(s, 1, c))}
<1>0. c \in Nat /\ Len(s) \in Nat /\ c <= Len(s)
  OBVIOUS
<1>1. 0 \in G
  <2>1. 0 \in c..Len(s) => c = 0
    BY <1>0
  <2>2. QED
    BY <2>1
<1>2. ASSUME NEW n \in Nat, n \in G PROVE n + 1 \in G
  <2>1. ASSUME n + 1 \in c..Len(s)
        PROVE  Only(K, SubSeq(s, 1, n + 1)) = Only(K, SubSeq(s, 1, c))
    <3>1. CASE n + 1 = c
      BY <3>1
    <3>2. CASE n + 1 # c
      <4> DEFINE p == SubSeq(s, 1, n)
      <4>1. n \in c..Len(s) /\ n + 1 \in (c+1)..Len(s) /\ n + 1 \in 1..Len(s)
        BY <1>0, <2>1, <3>2
      <4>2. p \in Seq(S) /\ s[n + 1] \in S /\ SubSeq(s, 1, n + 1) = Append(p, s[n + 1])
        BY <1>0, <4>1
      <4>3. s[n + 1] \notin K /\ Only(K, p) = Only(K, SubSeq(s, 1, c))
        BY <1>2, <4>1
      <4> HIDE DEF p
      <4>4. Only(K, Append(p, s[n + 1])) = Only(K, p)
        BY <4>2, <4>3, OnlyOfOneMore
      <4>5. QED
        BY <4>2, <4>3, <4>4
    <3>3. QED
      BY <3>1, <3>2
  <2>2. QED
    BY <2>1
<1> HIDE DEF G
<1>3. Nat \subseteq G
  BY <1>1, <1>2, Induction
<1>4. SubSeq(s, 1, Len(s)) = s
  OBVIOUS
<1>5. Len(s) \in G /\ Len(s) \in c..Len(s)
  BY <1>0, <1>3
<1>6. QED
  BY <1>4, <1>5 DEF G

\* Of an empty text nothing is kept.
LEMMA TextOfNone ==
  ASSUME NEW K
  PROVE  OnlyOf(K, << >>) = << >>
<1>1. << >> \in Seq({})
  OBVIOUS
<1>2. OnlyOf(K, << >>) = Fold("text", K, << >>, << >>)
  BY <1>1, OnlyOfFolds
<1>3. QED
  BY <1>2, FoldOfNone

\* One more line is kept token by token.
LEMMA TextOfOneMore ==
  ASSUME NEW K, NEW L, NEW x \in Seq(L), NEW l \in L
  PROVE  OnlyOf(K, Append(x, l)) = OnlyOf(K, x) \o Only(K, l)
<1> DEFINE y == Append(x, l)
<1>1. y \in Seq(L)
  OBVIOUS
<1> HIDE DEF y
<1>2. OnlyOf(K, y) = Fold("text", K, << >>, y)
  BY <1>1, OnlyOfFolds
<1>3. OnlyOf(K, x) = Fold("text", K, << >>, x)
  BY OnlyOfFolds
<1>4. Fold("text", K, << >>, y) = Put("text", K, Fold("text", K, << >>, x), l)
  BY FoldOfOneMore DEF y
<1>5. \A done : Put("text", K, done, l) = done \o Only(K, l)
  BY DEF Put
<1>6. QED
  BY <1>2, <1>3, <1>4, <1>5 DEF y

\* What is kept are tokens of the text.
LEMMA OnlyOfType ==
  ASSUME NEW K, NEW S, NEW x \in Seq(Seq(S))
  PROVE  OnlyOf(K, x) \in Seq(S)
<1> DEFINE L == Seq(S)
           G == {p \in Seq(L) : OnlyOf(K, p) \in Seq(S)}
<1>1. << >> \in G
  <2>1. << >> \in Seq(S) /\ << >> \in Seq(L)
    OBVIOUS
  <2>2. OnlyOf(K, << >>) = << >>
    BY TextOfNone
  <2>3. QED
    BY <2>1, <2>2
<1>2. ASSUME NEW p \in Seq(L), NEW l \in L, p \in G PROVE Append(p, l) \in G
  <2>1. Append(p, l) \in Seq(L) /\ OnlyOf(K, p) \in Seq(S)
    BY <1>2
  <2>2. OnlyOf(K, Append(p, l)) = OnlyOf(K, p) \o Only(K, l)
    BY TextOfOneMore
  <2>3. Only(K, l) \in Seq(S)
    BY OnlyType
  <2>4. QED
    BY <2>1, <2>2, <2>3, Concatenation
<1> HIDE DEF G, L
<1>3. Seq(L) \subseteq G
  BY <1>1, <1>2, SequenceInduction
<1>4. x \in Seq(L)
  BY DEF L
<1>5. QED
  BY <1>3, <1>4 DEF G

\* Texts of which the same is kept line by line.
LineByLine(K, x, y) ==
  Len(x) = Len(y) /\ \A i \in 1..Len(x) : Only(K, x[i]) = Only(K, y[i])

\* Of texts alike line by line the same is kept.
LEMMA OnlyOfLines ==
  ASSUME NEW K, NEW S, NEW x \in Seq(Seq(S)), NEW y \in Seq(Seq(S)), LineByLine(K, x, y)
  PROVE  OnlyOf(K, x) = OnlyOf(K, y)
<1> DEFINE L == Seq(S)
           G == {p \in Seq(L) : \A q \in Seq(L) :
                                  LineByLine(K, p, q) => OnlyOf(K, p) = OnlyOf(K, q)}
<1>1. << >> \in G
  <2>1. ASSUME NEW q \in Seq(L), LineByLine(K, << >>, q) PROVE q = << >>
    <3>1. Len(q) = 0
      BY <2>1 DEF LineByLine
    <3>2. QED
      BY <3>1
  <2>2. QED
    BY <2>1
<1>2. ASSUME NEW p \in Seq(L), NEW l \in L, p \in G PROVE Append(p, l) \in G
  <2>1. ASSUME NEW q \in Seq(L), LineByLine(K, Append(p, l), q)
        PROVE  OnlyOf(K, Append(p, l)) = OnlyOf(K, q)
    <3>1. Len(Append(p, l)) = Len(p) + 1 /\ Len(p) \in Nat /\ Len(q) = Len(p) + 1
      BY <2>1 DEF LineByLine
    <3>2. q # << >>
      BY <3>1
    <3>3. PICK f \in Seq(L), u \in L : q = Append(f, u) /\ Len(q) = Len(f) + 1
      <4> HIDE DEF L
      <4>1. QED
        BY <3>2, LastOfSequence
    <3>4. Len(f) = Len(p) /\ Len(f) \in Nat
      BY <3>1, <3>3
    <3>5. Only(K, l) = Only(K, u)
      <4>1. Len(p) + 1 \in 1..Len(Append(p, l))
        BY <3>1
      <4>2. Append(p, l)[Len(p) + 1] = l /\ Append(f, u)[Len(p) + 1] = u
        BY <3>4
      <4>3. QED
        BY <2>1, <3>3, <4>1, <4>2 DEF LineByLine
    <3>6. ASSUME NEW i \in 1..Len(p) PROVE Only(K, p[i]) = Only(K, f[i])
      <4>1. i \in 1..Len(Append(p, l))
        BY <3>1
      <4>2. Append(p, l)[i] = p[i] /\ Append(f, u)[i] = f[i]
        BY <3>4
      <4>3. QED
        BY <2>1, <3>3, <4>1, <4>2 DEF LineByLine
    <3>7. LineByLine(K, p, f)
      BY <3>4, <3>6 DEF LineByLine
    <3>8. OnlyOf(K, p) = OnlyOf(K, f)
      BY <1>2, <3>7
    <3>9. OnlyOf(K, Append(p, l)) = OnlyOf(K, p) \o Only(K, l)
      BY TextOfOneMore
    <3>10. OnlyOf(K, Append(f, u)) = OnlyOf(K, f) \o Only(K, u)
      BY TextOfOneMore
    <3>11. QED
      BY <3>3, <3>5, <3>8, <3>9, <3>10
  <2>2. Append(p, l) \in Seq(L)
    OBVIOUS
  <2>3. QED
    BY <2>1, <2>2
<1> HIDE DEF G
<1>3. x \in Seq(L) /\ y \in Seq(L)
  OBVIOUS
<1> HIDE DEF L
<1>4. Seq(L) \subseteq G
  BY <1>1, <1>2, SequenceInduction
<1>5. QED
  BY <1>3, <1>4 DEF G

-----------------------------------------------------------------------------
(* Lines that phone numbers join. *)

Lines(S) == Seq(S) \ {<< >>}

\* No lines, nothing to join.
LEMMA JoinOfNone == Join(<< >>) = << >>
<1>1. << >> \in Seq({})
  OBVIOUS
<1>2. Join(<< >>) = Fold("line", << >>, << >>, << >>)
  BY <1>1, JoinFolds
<1>3. QED
  BY <1>2, FoldOfNone

\* One more line is put or joined.
LEMMA JoinOfOneMore ==
  ASSUME NEW L, NEW x \in Seq(L), NEW l \in L
  PROVE  Join(Append(x, l)) = PutLine(Join(x), l)
<1> DEFINE y == Append(x, l)
<1>1. y \in Seq(L)
  OBVIOUS
<1> HIDE DEF y
<1>2. Join(y) = Fold("line", << >>, << >>, y)
  BY <1>1, JoinFolds
<1>3. Join(x) = Fold("line", << >>, << >>, x)
  BY JoinFolds
<1>4. Fold("line", << >>, << >>, y) = Put("line", << >>, Fold("line", << >>, << >>, x), l)
  BY FoldOfOneMore DEF y
<1>5. \A done : Put("line", << >>, done, l) = PutLine(done, l)
  BY DEF Put
<1>6. QED
  BY <1>2, <1>3, <1>4, <1>5 DEF y

\* A line is put below the others or joined to the last one.
Glued(L, done, l) ==
  /\ l[1].kind = "phone"
  /\ \E f \in Seq(L), u \in L :
       done = Append(f, u) /\ PutLine(done, l) = Append(f, u \o l) /\ u \o l \in L

\* Which of the two happens.
LEMMA LinePut ==
  ASSUME NEW S, NEW done \in Seq(Lines(S)), NEW l \in Lines(S)
  PROVE  \/ (done = << >> \/ l[1].kind # "phone") /\ PutLine(done, l) = Append(done, l)
         \/ Glued(Lines(S), done, l)
<1>1. CASE done = << >> \/ l[1].kind # "phone"
  BY <1>1 DEF PutLine
<1>2. CASE done # << >> /\ l[1].kind = "phone"
  <2> DEFINE L == Lines(S)
  <2>1. done \in Seq(L)
    OBVIOUS
  <2> HIDE DEF L
  <2>2. PICK f \in Seq(L), u \in L : done = Append(f, u) /\ Len(done) = Len(f) + 1
    BY <1>2, <2>1, LastOfSequence
  <2>3. u \in Seq(S) /\ l \in Seq(S) /\ u # << >>
    BY DEF L, Lines
  <2>4. u \o l \in L
    <3>1. u \o l \in Seq(S) /\ Len(u \o l) = Len(u) + Len(l)
      BY <2>3
    <3>2. Len(u) \in Nat /\ Len(u) # 0 /\ Len(l) \in Nat
      BY <2>3
    <3>3. u \o l # << >>
      BY <3>1, <3>2
    <3>4. QED
      BY <3>1, <3>3 DEF L, Lines
  <2>5. done[Len(done)] = u
    BY <2>2
  <2>6. [done EXCEPT ![Len(done)] = u \o l] = Append(f, u \o l)
    <3> DEFINE v == u \o l
               n == Len(done)
               d == [done EXCEPT ![n] = v]
               e == Append(f, v)
    <3>1. v \in L /\ n = Len(f) + 1 /\ n \in 1..n /\ Len(f) \in Nat /\ done \in Seq(L)
      BY <2>1, <2>2, <2>4
    <3> HIDE DEF v
    <3>2. /\ d \in Seq(L) /\ Len(d) = n
          /\ \A j \in 1..n : d[j] = IF j = n THEN v ELSE done[j]
      BY <3>1, ExceptSeq
    <3>3. e \in Seq(L) /\ Len(e) = n /\ \A j \in 1..n : e[j] = IF j = n THEN v ELSE f[j]
      BY <3>1
    <3>4. \A j \in 1..n : j # n => done[j] = f[j]
      BY <2>2, <3>1
    <3> HIDE DEF d, e
    <3>5. \A j \in 1..n : d[j] = e[j]
      BY <3>2, <3>3, <3>4
    <3>6. d = e
      BY <3>2, <3>3, <3>5
    <3>7. QED
      BY <3>6 DEF d, e, v
  <2>7. PutLine(done, l) = Append(f, u \o l)
    BY <1>2, <2>5, <2>6 DEF PutLine
  <2>8. QED
    BY <1>2, <2>2, <2>4, <2>7 DEF L, Glued
<1>3. QED
  BY <1>1, <1>2

\* Joined lines have tokens.
LEMMA JoinType ==
  ASSUME NEW S, NEW x \in Seq(Lines(S))
  PROVE  Join(x) \in Seq(Lines(S))
<1> DEFINE L == Lines(S)
           G == {p \in Seq(L) : Join(p) \in Seq(L)}
<1>1. << >> \in G
  <2>1. << >> \in Seq(L)
    OBVIOUS
  <2>2. QED
    BY <2>1, JoinOfNone
<1>2. ASSUME NEW p \in Seq(L), NEW l \in L, p \in G PROVE Append(p, l) \in G
  <2>1. Append(p, l) \in Seq(L) /\ Join(p) \in Seq(L)
    BY <1>2
  <2>2. Join(Append(p, l)) = PutLine(Join(p), l)
    BY JoinOfOneMore
  <2>3. PutLine(Join(p), l) \in Seq(L)
    <3>1. CASE PutLine(Join(p), l) = Append(Join(p), l)
      BY <2>1, <3>1
    <3>2. CASE \E f \in Seq(L), u \in L : PutLine(Join(p), l) = Append(f, u \o l) /\ u \o l \in L
      BY <3>2
    <3>3. PutLine(Join(p), l) = Append(Join(p), l) \/ Glued(L, Join(p), l)
      BY <2>1, LinePut
    <3>4. QED
      BY <3>1, <3>2, <3>3 DEF Glued
  <2>4. QED
    BY <2>1, <2>2, <2>3
<1> HIDE DEF G
<1>3. x \in Seq(L)
  OBVIOUS
<1> HIDE DEF L
<1>4. Seq(L) \subseteq G
  BY <1>1, <1>2, SequenceInduction
<1>5. QED
  BY <1>3, <1>4 DEF G, L

\* Joining lines loses no token.
LEMMA JoinKeeps ==
  ASSUME NEW K, NEW S, NEW x \in Seq(Lines(S))
  PROVE  OnlyOf(K, Join(x)) = OnlyOf(K, x)
<1> DEFINE L == Lines(S)
           G == {p \in Seq(L) : OnlyOf(K, Join(p)) = OnlyOf(K, p)}
<1>1. << >> \in G
  <2>1. << >> \in Seq(L)
    OBVIOUS
  <2>2. QED
    BY <2>1, JoinOfNone
<1>2. ASSUME NEW p \in Seq(L), NEW l \in L, p \in G PROVE Append(p, l) \in G
  <2>1. Append(p, l) \in Seq(L) /\ Join(p) \in Seq(L) /\ OnlyOf(K, Join(p)) = OnlyOf(K, p)
    BY <1>2, JoinType
  <2>2. Join(Append(p, l)) = PutLine(Join(p), l)
    BY JoinOfOneMore
  <2>3. OnlyOf(K, Append(p, l)) = OnlyOf(K, p) \o Only(K, l)
    BY TextOfOneMore
  <2>4. CASE PutLine(Join(p), l) = Append(Join(p), l)
    <3>1. OnlyOf(K, Append(Join(p), l)) = OnlyOf(K, Join(p)) \o Only(K, l)
      BY <2>1, TextOfOneMore
    <3>2. QED
      BY <2>1, <2>2, <2>3, <2>4, <3>1
  <2>5. ASSUME NEW f \in Seq(L), NEW u \in L, Join(p) = Append(f, u),
               PutLine(Join(p), l) = Append(f, u \o l), u \o l \in L
        PROVE  OnlyOf(K, Join(Append(p, l))) = OnlyOf(K, Append(p, l))
    <3>1. OnlyOf(K, Append(f, u \o l)) = OnlyOf(K, f) \o Only(K, u \o l)
      BY <2>5, TextOfOneMore
    <3>2. OnlyOf(K, Append(f, u)) = OnlyOf(K, f) \o Only(K, u)
      BY TextOfOneMore
    <3>3. u \in Seq(S) /\ l \in Seq(S) /\ \A r \in Seq(L) : r \in Seq(Seq(S))
      BY DEF Lines
    <3>4. Only(K, u \o l) = Only(K, u) \o Only(K, l)
      BY <3>3, OnlyConcat
    <3> DEFINE a == OnlyOf(K, f)
               b == Only(K, u)
               c == Only(K, l)
    <3>5. a \in Seq(S) /\ b \in Seq(S) /\ c \in Seq(S)
      BY <3>3, OnlyType, OnlyOfType
    <3> HIDE DEF a, b, c
    <3>6. (a \o b) \o c = a \o (b \o c)
      BY <3>5
    <3>7. QED
      BY <2>1, <2>2, <2>3, <2>5, <3>1, <3>2, <3>4, <3>6 DEF a, b, c
  <2>6. OnlyOf(K, Join(Append(p, l))) = OnlyOf(K, Append(p, l))
    <3>1. CASE PutLine(Join(p), l) = Append(Join(p), l)
      BY <2>2, <2>4, <3>1
    <3>2. CASE PutLine(Join(p), l) # Append(Join(p), l)
      <4>1. PICK f \in Seq(L), u \in L : /\ Join(p) = Append(f, u)
                                         /\ PutLine(Join(p), l) = Append(f, u \o l)
                                         /\ u \o l \in L
        <5>1. Glued(L, Join(p), l)
          BY <2>1, <3>2, LinePut
        <5>2. QED
          BY <5>1 DEF Glued
      <4>2. QED
        BY <2>5, <4>1
    <3>3. QED
      BY <3>1, <3>2
  <2>7. QED
    BY <2>1, <2>6
<1> HIDE DEF G
<1>3. x \in Seq(L)
  OBVIOUS
<1> HIDE DEF L
<1>4. Seq(L) \subseteq G
  BY <1>1, <1>2, SequenceInduction
<1>5. QED
  BY <1>3, <1>4 DEF G, L

-----------------------------------------------------------------------------
(* Stripping contact details. *)

Tok == Source \cup Made

\* What Strip makes of a token: only contact details change, into placeholders.
LEMMA StripFacts ==
  ASSUME NEW t \in Source
  PROVE  /\ Strip(t) \in Tok /\ t \in Tok /\ Strip(t).kind \notin Contacts
         /\ t \in Evidence => Strip(t) = t
         /\ t \notin Evidence => Strip(t) \notin Evidence
         /\ t.kind = "heading" => Strip(t) = t
         /\ Strip(t).kind = "heading" => t.kind = "heading"
         /\ Strip(t) \in Source => t.kind \notin Contacts /\ Strip(t) = t
         /\ Strip(t) \notin Source => Strip(t) \in [kind : {"gone"}, of : Contacts]
<1>1. /\ t \in [kind : {"title", "plain", "link", "address"}, of : Words]
         \/ t \in [kind : {"heading"}, of : Titles] \/ t \in [kind : Contacts \cup {"comma"}, of : {""}]
  BY DEF Source
<1>2. CASE t.kind \in Contacts
  <2>1. Strip(t) = [kind |-> "gone", of |-> t.kind] /\ Strip(t).kind = "gone"
    BY <1>2 DEF Strip, Gone, Token
  <2>2. Strip(t) \in [kind : {"gone"}, of : Contacts]
    BY <1>2, <2>1
  <2>3. Strip(t) \in Made
    BY <1>2, <2>1 DEF Made, Labels
  <2>4. Strip(t) \notin Source
    BY <2>1 DEF Source, Contacts
  <2>5. t.kind # "heading"
    BY <1>2 DEF Contacts
  <2>6. QED
    BY <1>2, <2>1, <2>2, <2>3, <2>4, <2>5 DEF Tok, Evidence, Contacts
<1>3. CASE t.kind \notin Contacts
  BY <1>3 DEF Strip, Tok
<1>4. QED
  BY <1>2, <1>3

StripLine(l) == [k \in DOMAIN l |-> Strip(l[k])]

\* What it makes of a line.
LEMMA StripLineFacts ==
  ASSUME NEW l \in Lines(Source)
  PROVE  /\ StripLine(l) \in Lines(Tok) /\ l \in Lines(Tok) /\ Len(StripLine(l)) = Len(l)
         /\ \A k \in 1..Len(l) : StripLine(l)[k] = Strip(l[k])
         /\ Only(Evidence, StripLine(l)) = Only(Evidence, l)
<1> DEFINE r == StripLine(l)
           n == Len(l)
<1>1. n \in Nat /\ n # 0 /\ DOMAIN l = 1..n /\ l \in Seq(Source)
  BY DEF Lines
<1>2. \A k \in 1..n : l[k] \in Source
  BY <1>1
<1>3. r = [k \in 1..n |-> Strip(l[k])]
  BY <1>1 DEF StripLine
<1>4. \A k \in 1..n : Strip(l[k]) \in Tok /\ l[k] \in Tok
  BY <1>2, StripFacts
<1>5. r \in Seq(Tok) /\ Len(r) = n /\ \A k \in 1..n : r[k] = Strip(l[k])
  BY <1>1, <1>3, <1>4
<1>6. Source \subseteq Tok
  BY DEF Tok
<1>7. l \in Seq(Tok)
  BY <1>1, <1>6, SeqMonotonic
<1>8. r # << >> /\ l # << >>
  BY <1>1, <1>5
<1> HIDE DEF r
<1>9. Alike(Evidence, r, l)
  <2>1. ASSUME NEW k \in 1..n
        PROVE  r[k] = l[k] \/ (r[k] \notin Evidence /\ l[k] \notin Evidence)
    <3>1. r[k] = Strip(l[k]) /\ l[k] \in Source
      BY <1>2, <1>5
    <3> DEFINE t == l[k]
    <3>2. t \in Source
      BY <3>1
    <3> HIDE DEF t
    <3>3. (t \in Evidence => Strip(t) = t) /\ (t \notin Evidence => Strip(t) \notin Evidence)
      BY <3>2, StripFacts
    <3>4. r[k] = Strip(t) /\ l[k] = t
      BY <3>1 DEF t
    <3>5. CASE t \in Evidence
      <4>1. r[k] = t
        BY <3>3, <3>4, <3>5
      <4>2. QED
        BY <3>4, <4>1
    <3>6. CASE t \notin Evidence
      <4>1. Strip(t) \notin Evidence
        BY <3>3, <3>6
      <4>2. QED
        BY <3>4, <3>6, <4>1
    <3>7. QED
      BY <3>5, <3>6
  <2>2. QED
    BY <1>5, <2>1 DEF Alike
<1>10. Only(Evidence, r) = Only(Evidence, l)
  BY <1>5, <1>7, <1>9, OnlyOfAlike
<1>11. QED
  BY <1>5, <1>7, <1>8, <1>10 DEF r, Lines

\* The text that is stripped line by line.
Stripped(x) == Each(Strip, x)

\* What it makes of a text.
LEMMA StrippedFacts ==
  ASSUME NEW x \in Seq(Lines(Source))
  PROVE  /\ Stripped(x) \in Seq(Lines(Tok)) /\ Len(Stripped(x)) = Len(x)
         /\ \A i \in 1..Len(x) : Stripped(x)[i] = StripLine(x[i])
<1>1. Len(x) \in Nat /\ DOMAIN x = 1..Len(x) /\ \A i \in 1..Len(x) : x[i] \in Lines(Source)
  OBVIOUS
<1>2. Stripped(x) = [i \in 1..Len(x) |-> StripLine(x[i])]
  BY <1>1 DEF Stripped, Each, StripLine
<1>3. \A i \in 1..Len(x) : StripLine(x[i]) \in Lines(Tok)
  BY <1>1, StripLineFacts
<1>4. QED
  BY <1>1, <1>2, <1>3

\* One more line is stripped by itself.
LEMMA StrippedOfOneMore ==
  ASSUME NEW p \in Seq(Lines(Source)), NEW l \in Lines(Source)
  PROVE  Stripped(Append(p, l)) = Append(Stripped(p), StripLine(l))
<1> DEFINE L == Lines(Tok)
           x == Append(p, l)
           n == Len(x)
           a == Stripped(x)
           b == Append(Stripped(p), StripLine(l))
<1>1. /\ x \in Seq(Lines(Source)) /\ n = Len(p) + 1 /\ n \in Nat /\ Len(p) \in Nat /\ x[n] = l
      /\ \A i \in 1..n : i # n => i \in 1..Len(p) /\ x[i] = p[i]
  OBVIOUS
<1>2. Stripped(p) \in Seq(L) /\ Len(Stripped(p)) = Len(p) /\ StripLine(l) \in L
      /\ \A i \in 1..Len(p) : Stripped(p)[i] = StripLine(p[i])
  BY StrippedFacts, StripLineFacts
<1>3. a \in Seq(L) /\ Len(a) = n /\ \A i \in 1..n : a[i] = StripLine(x[i])
  BY <1>1, StrippedFacts
<1>4. /\ b \in Seq(L) /\ Len(b) = n /\ b[n] = StripLine(l)
      /\ \A i \in 1..n : i # n => b[i] = Stripped(p)[i]
  BY <1>1, <1>2
<1> HIDE DEF L, x, n, a, b
<1>5. \A i \in 1..n : a[i] = b[i]
  BY <1>1, <1>2, <1>3, <1>4
<1>6. a = b
  BY <1>3, <1>4, <1>5
<1>7. QED
  BY <1>6 DEF a, b, x

\* Stripping keeps the evidence.
LEMMA StripKeeps ==
  ASSUME NEW x \in Seq(Lines(Source))
  PROVE  OnlyOf(Evidence, Stripped(x)) = OnlyOf(Evidence, x)
<1> DEFINE y == Stripped(x)
<1>1. y \in Seq(Lines(Tok)) /\ Len(y) = Len(x) /\ \A i \in 1..Len(x) : y[i] = StripLine(x[i])
  BY StrippedFacts
<1>2. \A i \in 1..Len(x) : x[i] \in Lines(Source)
  OBVIOUS
<1> HIDE DEF y
<1>3. \A i \in 1..Len(x) : Only(Evidence, y[i]) = Only(Evidence, x[i])
  BY <1>1, <1>2, StripLineFacts
<1>4. LineByLine(Evidence, y, x)
  BY <1>1, <1>3 DEF LineByLine
<1>5. y \in Seq(Seq(Tok)) /\ x \in Seq(Seq(Tok))
  <2>1. Lines(Tok) \subseteq Seq(Tok) /\ Lines(Source) \subseteq Seq(Tok)
    <3>1. Lines(Source) \subseteq Lines(Tok) /\ Lines(Tok) \subseteq Seq(Tok)
      BY StripLineFacts DEF Lines
    <3>2. QED
      BY <3>1
  <2>2. QED
    BY <1>1, <2>1, SeqMonotonic
<1>6. QED
  BY <1>4, <1>5, OnlyOfLines DEF y

-----------------------------------------------------------------------------
(* Sections. *)

Keys     == Titles \cup {"other"}
Sections == [current : Keys, found : [Keys -> Seq(Tok)]]
Sec(x)   == FoldLeft(PutInSection, NoSections, x)

\* No lines, no sections.
LEMMA SecOfNone == Sec(<< >>) = NoSections
<1>1. << >> \in Seq({})
  OBVIOUS
<1>2. Sec(<< >>) = Fold("section", << >>, NoSections, << >>)
  BY <1>1, SectionFolds DEF Sec
<1>3. QED
  BY <1>2, FoldOfNone

\* One more line goes on from the section that is open.
LEMMA SecOfOneMore ==
  ASSUME NEW L, NEW x \in Seq(L), NEW l \in L
  PROVE  Sec(Append(x, l)) = PutInSection(Sec(x), l)
<1> DEFINE y == Append(x, l)
<1>1. y \in Seq(L)
  OBVIOUS
<1> HIDE DEF y
<1>2. Sec(y) = Fold("section", << >>, NoSections, y)
  BY <1>1, SectionFolds DEF Sec
<1>3. Sec(x) = Fold("section", << >>, NoSections, x)
  BY SectionFolds DEF Sec
<1>4. Fold("section", << >>, NoSections, y)
        = Put("section", << >>, Fold("section", << >>, NoSections, x), l)
  BY FoldOfOneMore DEF y
<1>5. \A done : Put("section", << >>, done, l) = PutInSection(done, l)
  BY DEF Put
<1>6. QED
  BY <1>2, <1>3, <1>4, <1>5 DEF y

\* A heading opens a section; any other line goes into the one that is open.
LEMMA InSection ==
  ASSUME NEW at \in Sections, NEW l \in Lines(Tok)
  PROVE  /\ PutInSection(at, l) \in Sections
         /\ IsHeading(l) => /\ PutInSection(at, l).current = l[1].of
                            /\ PutInSection(at, l).found = at.found
         /\ ~IsHeading(l) =>
              /\ PutInSection(at, l).current = at.current
              /\ \A s \in Keys : PutInSection(at, l).found[s]
                   = IF s = at.current THEN at.found[s] \o l ELSE at.found[s]
<1>1. at.current \in Keys /\ at.found \in [Keys -> Seq(Tok)] /\ l \in Seq(Tok)
      /\ at = [current |-> at.current, found |-> at.found]
  BY DEF Sections, Lines
<1>2. CASE IsHeading(l)
  <2>1. PutInSection(at, l) = [current |-> l[1].of, found |-> at.found]
    BY <1>1, <1>2 DEF PutInSection
  <2>2. l[1] \in Tok /\ l[1].kind = "heading"
    <3>1. Len(l) = 1 /\ l[1].kind = "heading"
      BY <1>2 DEF IsHeading
    <3>2. 1 \in 1..Len(l)
      BY <3>1
    <3>3. l[1] \in Tok
      BY <1>1, <3>2, ElementOfSeq
    <3>4. QED
      BY <3>1, <3>3
  <2>3. l[1].of \in Titles
    BY <2>2 DEF Tok, Source, Made, Contacts
  <2>4. QED
    BY <1>1, <1>2, <2>1, <2>3 DEF Sections, Keys
<1>3. CASE ~IsHeading(l)
  <2> DEFINE f == [at.found EXCEPT ![at.current] = @ \o l]
  <2>1. PutInSection(at, l) = [current |-> at.current, found |-> f]
    BY <1>1, <1>3 DEF PutInSection
  <2>2. at.found[at.current] \o l \in Seq(Tok)
    BY <1>1
  <2>3. f \in [Keys -> Seq(Tok)]
    BY <1>1, <2>2
  <2>4. \A s \in Keys : f[s] = IF s = at.current THEN at.found[s] \o l ELSE at.found[s]
    BY <1>1
  <2> HIDE DEF f
  <2>5. QED
    BY <1>1, <1>3, <2>1, <2>3, <2>4 DEF Sections
<1>4. QED
  BY <1>2, <1>3

\* Sections are keyed by heading.
LEMMA SecType ==
  ASSUME NEW x \in Seq(Lines(Tok))
  PROVE  Sec(x) \in Sections
<1> DEFINE L == Lines(Tok)
           G == {p \in Seq(L) : Sec(p) \in Sections}
<1>1. << >> \in G
  <2>1. << >> \in Seq(L) /\ << >> \in Seq(Tok)
    OBVIOUS
  <2>2. NoSections \in Sections
    BY <2>1 DEF NoSections, Sections, Keys
  <2>3. QED
    BY <2>1, <2>2, SecOfNone
<1>2. ASSUME NEW p \in Seq(L), NEW l \in L, p \in G PROVE Append(p, l) \in G
  <2>1. Append(p, l) \in Seq(L) /\ Sec(p) \in Sections
    BY <1>2
  <2>2. Sec(Append(p, l)) = PutInSection(Sec(p), l)
    BY SecOfOneMore
  <2>3. QED
    BY <2>1, <2>2, InSection
<1> HIDE DEF G
<1>3. x \in Seq(L)
  OBVIOUS
<1> HIDE DEF L
<1>4. Seq(L) \subseteq G
  BY <1>1, <1>2, SequenceInduction
<1>5. QED
  BY <1>3, <1>4 DEF G, L

\* Sections with the same words of evidence.
SameEvidence(at, bt) ==
  /\ at.current = bt.current
  /\ \A s \in Keys : Only(Evidence, at.found[s]) = Only(Evidence, bt.found[s])

\* Stripping takes nothing but contact details from a section.
LEMMA StripKeepsSections ==
  ASSUME NEW x \in Seq(Lines(Source))
  PROVE  SameEvidence(Sec(Stripped(x)), Sec(x))
<1> DEFINE L == Lines(Source)
           G == {p \in Seq(L) : SameEvidence(Sec(Stripped(p)), Sec(p))}
<1>1. << >> \in G
  <2>1. << >> \in Seq(L)
    OBVIOUS
  <2>2. Stripped(<< >>) \in Seq(Lines(Tok)) /\ Len(Stripped(<< >>)) = 0
    BY <2>1, StrippedFacts
  <2>3. Stripped(<< >>) = << >>
    BY <2>2
  <2>4. QED
    BY <2>1, <2>3 DEF SameEvidence
<1>2. ASSUME NEW p \in Seq(L), NEW l \in L, p \in G PROVE Append(p, l) \in G
  <2> DEFINE a == Sec(Stripped(p))
             b == Sec(p)
             r == StripLine(l)
  <2>0. L \subseteq Lines(Tok)
    BY StripLineFacts
  <2>1. p \in Seq(Lines(Tok)) /\ Stripped(p) \in Seq(Lines(Tok))
    BY <2>0, StrippedFacts, SeqMonotonic
  <2>2. a \in Sections /\ b \in Sections /\ r \in Lines(Tok) /\ l \in Lines(Tok)
    BY <2>1, SecType, StripLineFacts
  <2>3. /\ Sec(Append(p, l)) = PutInSection(b, l)
        /\ Sec(Append(Stripped(p), r)) = PutInSection(a, r)
    BY <2>1, <2>2, SecOfOneMore
  <2>4. Stripped(Append(p, l)) = Append(Stripped(p), r)
    BY StrippedOfOneMore
  <2>5. SameEvidence(a, b)
    BY <1>2
  <2>6. /\ Len(r) = Len(l) /\ Only(Evidence, r) = Only(Evidence, l)
        /\ \A k \in 1..Len(l) : r[k] = Strip(l[k])
    BY StripLineFacts
  <2>7. l \in Seq(Source) /\ 1 \in 1..Len(l)
    BY DEF Lines
  <2>8. r[1] = Strip(l[1]) /\ l[1] \in Source
    BY <2>6, <2>7
  <2>9. IsHeading(r) <=> IsHeading(l)
    BY <2>6, <2>8, StripFacts DEF IsHeading
  <2>10. IsHeading(l) => r[1] = l[1]
    BY <2>8, StripFacts DEF IsHeading
  <2> HIDE DEF a, b, r
  <2>11. SameEvidence(PutInSection(a, r), PutInSection(b, l))
    <3>1. CASE IsHeading(l)
      <4>1. /\ PutInSection(a, r).current = r[1].of /\ PutInSection(a, r).found = a.found
            /\ PutInSection(b, l).current = l[1].of /\ PutInSection(b, l).found = b.found
        BY <2>2, <2>9, <3>1, InSection
      <4>2. QED
        BY <2>5, <2>10, <3>1, <4>1 DEF SameEvidence
    <3>2. CASE ~IsHeading(l)
      <4>1. /\ PutInSection(a, r).current = a.current
            /\ \A s \in Keys : PutInSection(a, r).found[s]
                   = IF s = a.current THEN a.found[s] \o r ELSE a.found[s]
        BY <2>2, <2>9, <3>2, InSection
      <4>2. /\ PutInSection(b, l).current = b.current
            /\ \A s \in Keys : PutInSection(b, l).found[s]
                   = IF s = b.current THEN b.found[s] \o l ELSE b.found[s]
        BY <2>2, <3>2, InSection
      <4>3. ASSUME NEW s \in Keys
            PROVE  Only(Evidence, a.found[s] \o r) = Only(Evidence, b.found[s] \o l)
        <5>1. /\ a.found[s] \in Seq(Tok) /\ b.found[s] \in Seq(Tok)
              /\ r \in Seq(Tok) /\ l \in Seq(Tok)
          BY <2>2 DEF Sections, Lines
        <5>2. /\ Only(Evidence, a.found[s] \o r) = Only(Evidence, a.found[s]) \o Only(Evidence, r)
              /\ Only(Evidence, b.found[s] \o l) = Only(Evidence, b.found[s]) \o Only(Evidence, l)
          BY <5>1, OnlyConcat
        <5>3. QED
          BY <2>5, <2>6, <5>2 DEF SameEvidence
      <4>4. a.current = b.current
            /\ \A s \in Keys : Only(Evidence, a.found[s]) = Only(Evidence, b.found[s])
        BY <2>5 DEF SameEvidence
      <4>5. ASSUME NEW s \in Keys
            PROVE  Only(Evidence, PutInSection(a, r).found[s])
                     = Only(Evidence, PutInSection(b, l).found[s])
        <5>1. CASE s = a.current
          BY <4>1, <4>2, <4>3, <4>4, <5>1
        <5>2. CASE s # a.current
          BY <4>1, <4>2, <4>4, <5>2
        <5>3. QED
          BY <5>1, <5>2
      <4>6. QED
        BY <4>1, <4>2, <4>4, <4>5 DEF SameEvidence
    <3>3. QED
      BY <3>1, <3>2
  <2>12. Append(p, l) \in Seq(L)
    OBVIOUS
  <2>13. QED
    BY <2>3, <2>4, <2>11, <2>12
<1> HIDE DEF G
<1>3. x \in Seq(L)
  OBVIOUS
<1> HIDE DEF L
<1>4. Seq(L) \subseteq G
  BY <1>1, <1>2, SequenceInduction
<1>5. QED
  BY <1>3, <1>4 DEF G, L

\* No phone number stands right below a heading.
NoneHidden(x) == \A i \in 2..Len(x) : ~(IsHeading(x[i - 1]) /\ x[i][1].kind = "phone")

\* Then joining lines leaves the sections as they are.
LEMMA JoinKeepsSections ==
  ASSUME NEW x \in Seq(Lines(Tok)), NoneHidden(x)
  PROVE  Sec(Join(x)) = Sec(x)
<1> DEFINE L == Lines(Tok)
           Fits(p) == /\ Sec(Join(p)) = Sec(p)
                      /\ p # << >> => /\ Join(p) # << >>
                                      /\ IsHeading(Join(p)[Len(Join(p))])
                                           => IsHeading(p[Len(p)])
           G == {p \in Seq(L) : NoneHidden(p) => Fits(p)}
<1>1. << >> \in G
  <2>1. << >> \in Seq(L)
    OBVIOUS
  <2>2. QED
    BY <2>1, JoinOfNone
<1>2. ASSUME NEW p \in Seq(L), NEW l \in L, p \in G PROVE Append(p, l) \in G
  <2> DEFINE y == Append(p, l)
             n == Len(y)
  <2>1. /\ y \in Seq(L) /\ n = Len(p) + 1 /\ Len(p) \in Nat /\ y[n] = l /\ y # << >>
        /\ \A i \in 1..Len(p) : y[i] = p[i]
    OBVIOUS
  <2>2. Join(p) \in Seq(L) /\ Sec(p) \in Sections
    BY JoinType, SecType
  <2>3. Join(y) = PutLine(Join(p), l) /\ Sec(y) = PutInSection(Sec(p), l)
    BY JoinOfOneMore, SecOfOneMore
  <2>4. l \in Seq(Tok) /\ Len(l) \in Nat /\ Len(l) # 0
    BY DEF Lines
  <2> HIDE DEF y, n
  <2>5. ASSUME NoneHidden(y) PROVE Fits(y)
    <3>1. NoneHidden(p)
      <4>1. ASSUME NEW i \in 2..Len(p) PROVE ~(IsHeading(p[i - 1]) /\ p[i][1].kind = "phone")
        <5>1. i \in 2..n /\ i \in 1..Len(p) /\ i - 1 \in 1..Len(p)
          BY <2>1
        <5>2. ~(IsHeading(y[i - 1]) /\ y[i][1].kind = "phone")
          BY <2>5, <5>1 DEF NoneHidden, n
        <5>3. QED
          BY <2>1, <5>1, <5>2
      <4>2. QED
        BY <4>1 DEF NoneHidden
    <3>2. Fits(p)
      BY <1>2, <3>1
    <3>3. CASE Join(y) = Append(Join(p), l)
      <4>1. Sec(Append(Join(p), l)) = PutInSection(Sec(Join(p)), l)
        BY <2>2, SecOfOneMore
      <4>2. Sec(Join(y)) = Sec(y)
        BY <2>3, <3>2, <3>3, <4>1
      <4>3. Join(y) # << >> /\ Join(y)[Len(Join(y))] = l
        BY <2>2, <3>3
      <4>4. QED
        BY <2>1, <4>2, <4>3 DEF n
    <3>4. CASE Glued(L, Join(p), l)
      <4>1. PICK f \in Seq(L), u \in L : /\ Join(p) = Append(f, u)
                                         /\ PutLine(Join(p), l) = Append(f, u \o l)
                                         /\ u \o l \in L
        BY <3>4 DEF Glued
      <4>2. l[1].kind = "phone"
        BY <3>4 DEF Glued
      <4>3. u \in Seq(Tok) /\ Len(u) \in Nat /\ Len(u) # 0
        BY DEF Lines
      <4>4. Join(p)[Len(Join(p))] = u /\ Join(p) # << >>
        BY <4>1
      <4>5. p # << >>
        BY <4>4, JoinOfNone
      <4>6. ~IsHeading(u)
        <5>1. n \in 2..n /\ n - 1 = Len(p) /\ Len(p) \in 1..Len(p)
          BY <2>1, <4>5
        <5>2. ~(IsHeading(y[n - 1]) /\ y[n][1].kind = "phone")
          BY <2>5, <5>1 DEF NoneHidden, n
        <5>3. ~IsHeading(p[Len(p)])
          BY <2>1, <4>2, <5>1, <5>2
        <5>4. QED
          BY <3>2, <4>4, <4>5, <5>3
      <4>7. ~IsHeading(l)
        BY <4>2 DEF IsHeading
      <4> DEFINE w == u \o l
      <4>8. Len(w) = Len(u) + Len(l) /\ w \in L
        BY <2>4, <4>1, <4>3
      <4>9. ~IsHeading(w)
        BY <2>4, <4>3, <4>8 DEF IsHeading
      <4> HIDE DEF w
      <4>10. Sec(f) \in Sections
        BY SecType
      <4> DEFINE a == Sec(f)
                 b == PutInSection(a, u)
                 c == PutInSection(b, l)
                 d == PutInSection(a, w)
      <4>11. Sec(Join(y)) = d
        BY <2>3, <4>1, <4>8, SecOfOneMore DEF w
      <4>12. Sec(Join(p)) = b
        BY <4>1, SecOfOneMore
      <4>13. Sec(y) = c
        BY <2>3, <3>2, <4>12
      <4>14. b \in Sections /\ c \in Sections /\ d \in Sections
        <5>1. b \in Sections /\ d \in Sections
          BY <4>8, <4>10, InSection
        <5> HIDE DEF b, d
        <5>2. QED
          BY <5>1, InSection
      <4>15. /\ b.current = a.current
             /\ \A s \in Keys : b.found[s] = IF s = a.current THEN a.found[s] \o u ELSE a.found[s]
        BY <4>6, <4>10, InSection
      <4>16. /\ c.current = b.current
             /\ \A s \in Keys : c.found[s] = IF s = b.current THEN b.found[s] \o l ELSE b.found[s]
        <5> HIDE DEF b
        <5>1. QED
          BY <4>7, <4>14, InSection
      <4>17. /\ d.current = a.current
             /\ \A s \in Keys : d.found[s] = IF s = a.current THEN a.found[s] \o w ELSE a.found[s]
        BY <4>8, <4>9, <4>10, InSection
      <4> HIDE DEF a, b, c, d
      <4>18. ASSUME NEW s \in Keys PROVE c.found[s] = d.found[s]
        <5>1. CASE s = a.current
          <6> DEFINE v == a.found[s]
          <6>1. v \in Seq(Tok)
            BY <4>10 DEF Sections, a
          <6> HIDE DEF v
          <6>2. (v \o u) \o l = v \o (u \o l)
            BY <2>4, <4>3, <6>1
          <6>3. c.found[s] = (v \o u) \o l /\ d.found[s] = v \o w
            BY <4>15, <4>16, <4>17, <5>1 DEF v
          <6>4. QED
            BY <6>2, <6>3 DEF w
        <5>2. CASE s # a.current
          BY <4>15, <4>16, <4>17, <5>2
        <5>3. QED
          BY <5>1, <5>2
      <4>19. c = d
        <5>1. c = [current |-> c.current, found |-> c.found] /\ c.found \in [Keys -> Seq(Tok)]
          BY <4>14 DEF Sections
        <5>2. d = [current |-> d.current, found |-> d.found] /\ d.found \in [Keys -> Seq(Tok)]
          BY <4>14 DEF Sections
        <5>3. c.found = d.found
          BY <4>18, <5>1, <5>2
        <5>4. QED
          BY <4>15, <4>16, <4>17, <5>1, <5>2, <5>3
      <4>20. Join(y) # << >> /\ Join(y)[Len(Join(y))] = w
        <5>1. Join(y) = Append(f, w)
          BY <2>3, <4>1 DEF w
        <5>2. QED
          BY <4>8, <5>1
      <4>21. QED
        BY <4>9, <4>11, <4>13, <4>19, <4>20
    <3>5. QED
      BY <2>2, <2>3, <3>3, <3>4, LinePut
  <2>6. QED
    BY <2>1, <2>5 DEF y
<1> HIDE DEF G
<1>3. x \in Seq(L)
  OBVIOUS
<1> HIDE DEF L
<1>4. Seq(L) \subseteq G
  BY <1>1, <1>2, SequenceInduction
<1>5. QED
  BY <1>3, <1>4 DEF G, L

-----------------------------------------------------------------------------
(* Names. *)

\* The name is a sequence of words.
FullName(line, who) == FoldLeft(LAMBDA done, t : PutWord(who, done, t), << >>, line)

\* In an empty line there is no name.
LEMMA FullNameOfNone ==
  ASSUME NEW who
  PROVE  FullName(<< >>, who) = << >>
<1>1. << >> \in Seq({})
  OBVIOUS
<1>2. FullName(<< >>, who) = Fold("word", who, << >>, << >>)
  BY <1>1, WordFolds DEF FullName
<1>3. QED
  BY <1>2, FoldOfNone

\* One more token may complete the name.
LEMMA FullNameOfOneMore ==
  ASSUME NEW who, NEW S, NEW s \in Seq(S), NEW t \in S
  PROVE  FullName(Append(s, t), who) = PutWord(who, FullName(s, who), t)
<1> DEFINE r == Append(s, t)
<1>1. r \in Seq(S)
  OBVIOUS
<1> HIDE DEF r
<1>2. FullName(r, who) = Fold("word", who, << >>, r)
  BY <1>1, WordFolds DEF FullName
<1>3. FullName(s, who) = Fold("word", who, << >>, s)
  BY WordFolds DEF FullName
<1>4. Fold("word", who, << >>, r) = Put("word", who, Fold("word", who, << >>, s), t)
  BY FoldOfOneMore DEF r
<1>5. \A done : Put("word", who, done, t) = PutWord(who, done, t)
  BY DEF Put
<1>6. QED
  BY <1>2, <1>3, <1>4, <1>5 DEF r

\* Nowhere in the line does the name stand.
Unnamed(line, who) == \A k \in 1..(Len(line) + 1 - Len(who)) : ~NameAt(line, k, who)

\* A word is put at the end, or the name ends with it and is replaced.
LEMMA WordPut ==
  ASSUME NEW who \in Seq(Words), who # << >>, NEW S, Gone("name") \in S,
         NEW done \in Seq(S), NEW t \in S
  PROVE  \/ /\ PutWord(who, done, t) = Append(done, t)
            /\ Len(done) + 1 >= Len(who) => ~NameAt(Append(done, t), Len(done) + 2 - Len(who), who)
         \/ \E c \in 0..Len(done) :
              /\ c = Len(done) + 1 - Len(who) /\ NameAt(Append(done, t), c + 1, who)
              /\ PutWord(who, done, t) = Append(SubSeq(Append(done, t), 1, c), Gone("name"))
<1> DEFINE now == Append(done, t)
           c == Len(now) - Len(who)
<1>1. /\ Len(now) = Len(done) + 1 /\ Len(done) \in Nat /\ Len(who) \in Nat /\ Len(who) # 0
  OBVIOUS
<1>2. c = Len(done) + 1 - Len(who) /\ c \in Int /\ c + 1 = Len(done) + 2 - Len(who)
      /\ c <= Len(done) /\ (c >= 0 <=> Len(done) + 1 >= Len(who))
  BY <1>1
<1>3. PutWord(who, done, t) = IF c >= 0 /\ NameAt(now, c + 1, who)
                              THEN Append(SubSeq(now, 1, c), Gone("name")) ELSE now
  BY DEF PutWord
<1> HIDE DEF now
<1>4. CASE c >= 0 /\ NameAt(now, c + 1, who)
  <2>1. c \in 0..Len(done)
    BY <1>1, <1>2, <1>4
  <2> HIDE DEF c
  <2>2. QED
    BY <1>2, <1>3, <1>4, <2>1 DEF now
<1>5. CASE ~(c >= 0 /\ NameAt(now, c + 1, who))
  <2> HIDE DEF c
  <2>1. Len(done) + 1 >= Len(who) => ~NameAt(now, Len(done) + 2 - Len(who), who)
    BY <1>2, <1>5
  <2>2. QED
    BY <1>3, <1>5, <2>1 DEF now
<1>6. QED
  BY <1>4, <1>5

\* The name is in a line where it is in one that agrees with it there.
LEMMA NameElsewhere ==
  ASSUME NEW who \in Seq(Words), NEW S, NEW s \in Seq(S), NEW r \in Seq(S), NEW k \in Nat,
         \A i \in k..(k + Len(who) - 1) : IsWord(r[i]) => s[i] = r[i],
         NameAt(r, k, who)
  PROVE  NameAt(s, k, who)
<1>1. ASSUME NEW n \in 1..Len(who)
      PROVE  IsWord(s[k + n - 1]) /\ Met(s[k + n - 1].of, n, Len(who)) = who[n]
  <2>1. k + n - 1 \in k..(k + Len(who) - 1) /\ n \in DOMAIN who
    OBVIOUS
  <2>2. IsWord(r[k + n - 1]) /\ Met(r[k + n - 1].of, n, Len(who)) = who[n]
    BY <2>1 DEF NameAt
  <2>3. QED
    BY <2>1, <2>2
<1>2. DOMAIN who = 1..Len(who)
  OBVIOUS
<1>3. QED
  BY <1>1, <1>2 DEF NameAt

\* After the pass over the full name it is nowhere in the line; every other token is one
\* of the line's, or its placeholder.
LEMMA FullNameGoes ==
  ASSUME NEW who \in Seq(Words), who # << >>, NEW S, Gone("name") \in S, NEW line \in Seq(S)
  PROVE  FullName(line, who) \in Seq(S) /\ Unnamed(FullName(line, who), who)
<1> DEFINE Fits(r) == r \in Seq(S) /\ Unnamed(r, who)
           G == {p \in Seq(S) : Fits(FullName(p, who))}
<1>0. Len(who) \in Nat /\ Len(who) # 0 /\ DOMAIN who = 1..Len(who)
  OBVIOUS
<1>1. << >> \in G
  <2>1. << >> \in Seq(S) /\ Len(<< >>) = 0
    OBVIOUS
  <2>2. Unnamed(<< >>, who)
    BY <1>0, <2>1 DEF Unnamed
  <2>3. QED
    BY <2>1, <2>2, FullNameOfNone
<1>2. ASSUME NEW p \in Seq(S), NEW t \in S, p \in G PROVE Append(p, t) \in G
  <2> DEFINE done == FullName(p, who)
             now == Append(done, t)
             r == PutWord(who, done, t)
  <2>1. done \in Seq(S) /\ Unnamed(done, who)
    BY <1>2
  <2>2. FullName(Append(p, t), who) = r
    BY FullNameOfOneMore
  <2> HIDE DEF done, r
  <2>3. /\ now \in Seq(S) /\ Len(now) = Len(done) + 1 /\ Len(done) \in Nat
        /\ \A i \in 1..Len(done) : now[i] = done[i]
    BY <2>1
  <2> HIDE DEF now
  <2>4. ASSUME r = now,
               Len(done) + 1 >= Len(who) => ~NameAt(now, Len(done) + 2 - Len(who), who)
        PROVE  Fits(r)
    <3>1. ASSUME NEW k \in 1..(Len(now) + 1 - Len(who)) PROVE ~NameAt(now, k, who)
      <4>1. CASE k = Len(done) + 2 - Len(who)
        BY <1>0, <2>3, <2>4, <4>1
      <4>2. CASE k # Len(done) + 2 - Len(who)
        <5>1. k \in 1..(Len(done) + 1 - Len(who)) /\ k \in Nat
          BY <1>0, <2>3, <4>2
        <5>2. \A i \in k..(k + Len(who) - 1) : i \in 1..Len(done)
          BY <1>0, <2>3, <5>1
        <5>3. \A i \in k..(k + Len(who) - 1) : IsWord(now[i]) => done[i] = now[i]
          BY <2>3, <5>2
        <5>4. ~NameAt(done, k, who)
          BY <2>1, <5>1 DEF Unnamed
        <5>5. QED
          BY <2>1, <2>3, <5>1, <5>3, <5>4, NameElsewhere
      <4>3. QED
        BY <4>1, <4>2
    <3>2. Unnamed(now, who)
      BY <3>1 DEF Unnamed
    <3>3. QED
      BY <2>3, <2>4, <3>2
  <2>5. ASSUME NEW c \in 0..Len(done), r = Append(SubSeq(now, 1, c), Gone("name")),
               c = Len(done) + 1 - Len(who)
        PROVE  Fits(r)
    <3> DEFINE g == Gone("name")
    <3>1. ~IsWord(g) /\ g \in S
      BY DEF IsWord, Gone, Token
    <3> HIDE DEF g
    <3>2. SubSeq(now, 1, c) \in Seq(S) /\ Len(SubSeq(now, 1, c)) = c
          /\ \A i \in 1..c : SubSeq(now, 1, c)[i] = now[i]
      BY <2>3
    <3>3. r \in Seq(S) /\ Len(r) = c + 1 /\ r[c + 1] = g /\ \A i \in 1..c : r[i] = now[i]
      BY <2>5, <3>1, <3>2 DEF g
    <3>4. ASSUME NEW k \in 1..(Len(r) + 1 - Len(who)), NameAt(r, k, who) PROVE FALSE
      <4>1. k \in Nat /\ k >= 1 /\ k + Len(who) - 1 <= c + 1 /\ Len(who) \in DOMAIN who
        BY <1>0, <3>3
      <4>2. IsWord(r[k + Len(who) - 1])
        BY <3>4, <4>1 DEF NameAt
      <4>3. k + Len(who) - 1 <= c
        BY <1>0, <3>1, <3>3, <4>1, <4>2
      <4>4. \A i \in k..(k + Len(who) - 1) : i \in 1..c /\ i \in 1..Len(done)
        BY <1>0, <2>3, <4>1, <4>3
      <4>5. \A i \in k..(k + Len(who) - 1) : IsWord(r[i]) => done[i] = r[i]
        BY <2>3, <3>3, <4>4
      <4>6. k \in 1..(Len(done) + 1 - Len(who))
        BY <1>0, <2>3, <4>1, <4>3
      <4>7. ~NameAt(done, k, who)
        BY <2>1, <4>6 DEF Unnamed
      <4>8. QED
        BY <2>1, <3>3, <3>4, <4>1, <4>5, <4>7, NameElsewhere
    <3>5. QED
      BY <3>3, <3>4 DEF Unnamed
  <2>6. Fits(r)
    <3>1. \/ /\ r = now
             /\ Len(done) + 1 >= Len(who) => ~NameAt(now, Len(done) + 2 - Len(who), who)
          \/ \E c \in 0..Len(done) :
               /\ c = Len(done) + 1 - Len(who) /\ NameAt(now, c + 1, who)
               /\ r = Append(SubSeq(now, 1, c), Gone("name"))
      BY <2>1, WordPut DEF r, now
    <3>2. QED
      BY <2>4, <2>5, <3>1
  <2>7. Append(p, t) \in Seq(S)
    OBVIOUS
  <2>8. QED
    BY <2>2, <2>6, <2>7
<1> HIDE DEF G
<1>3. Seq(S) \subseteq G
  BY <1>1, <1>2, SequenceInduction
<1>4. QED
  BY <1>3 DEF G

\* No word of the name is in a set, with or without marks.
Spares(K, who) == \A t \in K : IsWord(t) => Forms(t.of) \cap Range(who) = {}

\* What is neither a word of the name nor its placeholder stays.
LEMMA FullNameKeeps ==
  ASSUME NEW who \in Seq(Words), who # << >>, NEW S, Gone("name") \in S, NEW line \in Seq(S),
         NEW K, Gone("name") \notin K, Spares(K, who)
  PROVE  Only(K, FullName(line, who)) = Only(K, line)
<1> DEFINE G == {p \in Seq(S) : Only(K, FullName(p, who)) = Only(K, p)}
<1>0. Len(who) \in Nat /\ Len(who) # 0 /\ DOMAIN who = 1..Len(who)
  OBVIOUS
<1>1. << >> \in G
  <2>1. << >> \in Seq(S)
    OBVIOUS
  <2>2. QED
    BY <2>1, FullNameOfNone
<1>2. ASSUME NEW p \in Seq(S), NEW t \in S, p \in G PROVE Append(p, t) \in G
  <2> DEFINE done == FullName(p, who)
             now == Append(done, t)
             r == PutWord(who, done, t)
  <2>1. done \in Seq(S) /\ Only(K, done) = Only(K, p)
    BY <1>2, FullNameGoes
  <2>2. FullName(Append(p, t), who) = r
    BY FullNameOfOneMore
  <2> HIDE DEF done, r
  <2>3. now \in Seq(S) /\ Len(now) = Len(done) + 1 /\ Len(done) \in Nat
    BY <2>1
  <2>4. Only(K, now) = Only(K, Append(p, t))
    <3>1. Only(K, now) = IF t \in K THEN Append(Only(K, done), t) ELSE Only(K, done)
      BY <2>1, OnlyOfOneMore
    <3>2. Only(K, Append(p, t)) = IF t \in K THEN Append(Only(K, p), t) ELSE Only(K, p)
      BY OnlyOfOneMore
    <3>3. QED
      BY <2>1, <3>1, <3>2
  <2> HIDE DEF now
  <2>5. ASSUME NEW c \in 0..Len(done), r = Append(SubSeq(now, 1, c), Gone("name")),
               c = Len(done) + 1 - Len(who), NameAt(now, c + 1, who)
        PROVE  Only(K, r) = Only(K, now)
    <3> DEFINE q == SubSeq(now, 1, c)
    <3>1. q \in Seq(S) /\ c \in 0..Len(now)
      BY <2>3
    <3>2. ASSUME NEW i \in (c + 1)..Len(now) PROVE now[i] \notin K
      <4>1. i - c \in 1..Len(who) /\ (c + 1) + (i - c) - 1 = i
        BY <1>0, <2>3, <2>5
      <4>2. IsWord(now[i]) /\ Met(now[i].of, i - c, Len(who)) = who[i - c]
        BY <1>0, <2>5, <4>1 DEF NameAt
      <4>3. who[i - c] \in Range(who)
        BY <1>0, <4>1 DEF Range
      <4>4. Met(now[i].of, i - c, Len(who)) \in Forms(now[i].of)
        BY DEF Met, Forms, Core
      <4>5. QED
        BY <4>2, <4>3, <4>4 DEF Spares
    <3>3. Only(K, q) = Only(K, now)
      BY <2>3, <3>1, <3>2, OnlyOfPrefix
    <3> HIDE DEF q
    <3>4. Only(K, Append(q, Gone("name"))) = Only(K, q)
      BY <3>1, OnlyOfOneMore
    <3>5. QED
      BY <2>5, <3>3, <3>4 DEF q
  <2>6. Only(K, r) = Only(K, now)
    <3>1. \/ /\ r = now
             /\ Len(done) + 1 >= Len(who) => ~NameAt(now, Len(done) + 2 - Len(who), who)
          \/ \E c \in 0..Len(done) :
               /\ c = Len(done) + 1 - Len(who) /\ NameAt(now, c + 1, who)
               /\ r = Append(SubSeq(now, 1, c), Gone("name"))
      BY <2>1, WordPut DEF r, now
    <3>2. QED
      BY <2>5, <3>1
  <2>7. Append(p, t) \in Seq(S)
    OBVIOUS
  <2>8. QED
    BY <2>2, <2>4, <2>6, <2>7
<1> HIDE DEF G
<1>3. Seq(S) \subseteq G
  BY <1>1, <1>2, SequenceInduction
<1>4. QED
  BY <1>3 DEF G


\* A word of the name without any mark but hyphens.
Bares(who) == {Bare[w] : w \in Range(who)}

\* A word of the name goes wherever it stands.
LEMMA RedactWordFacts ==
  ASSUME NEW who \in Seq(Words), NEW t \in Tok
  PROVE  /\ RedactWord(t, who) \in Tok
         /\ RedactWord(t, who) = t \/ (t \notin NotOf(who) /\ RedactWord(t, who) \notin NotOf(who))
         /\ IsWord(RedactWord(t, who)) => RedactWord(t, who) = t
         /\ RedactWord(t, who).kind \in {t.kind, "gone"}
         /\ RedactWord(t, who).of \in Words =>
              Core(RedactWord(t, who).of) \notin Bares(who) \cap Distinctive
<1> DEFINE hit == t.of \in Words /\ Core(t.of) \in Variants(who)
<1>1. /\ Variants(who) \subseteq Range(who) \cup Bares(who)
      /\ Bares(who) \cap Distinctive \subseteq Variants(who)
  BY DEF Variants, Bares
<1>2. "name" \in Labels /\ "name" \notin Words
  BY WordsAssumption DEF Labels
<1>3. t \in Source \/ t \in Made
  BY DEF Tok
<1>4. hit => t \notin NotOf(who)
  <2>1. Core(t.of) \in Forms(t.of)
    BY DEF Forms
  <2>2. QED
    BY <1>1, <2>1 DEF NotOf, Bares
<1>5. CASE ~hit
  BY <1>1, <1>5 DEF RedactWord
<1>6. CASE hit /\ IsWord(t)
  <2>1. RedactWord(t, who) = [kind |-> "gone", of |-> "name"]
    BY <1>6 DEF RedactWord, Gone, Token
  <2>2. [kind |-> "gone", of |-> "name"] \in Tok
    BY <1>2 DEF Tok, Made
  <2>3. [kind |-> "gone", of |-> "name"] \notin NotOf(who)
    BY DEF NotOf, Gone, Token
  <2> HIDE DEF hit
  <2>4. QED
    BY <1>2, <1>4, <1>6, <2>1, <2>2, <2>3 DEF IsWord
<1>7. CASE hit /\ ~IsWord(t)
  <2>1. RedactWord(t, who) = [kind |-> t.kind, of |-> "name"]
    BY <1>7 DEF RedactWord, Token
  <2>2. t.kind \in {"link", "host", "address"}
    <3>1. CASE t \in Source
      BY <1>7, <3>1, WordsAssumption DEF Source, IsWord
    <3>2. CASE t \in Made
      BY <1>2, <1>7, <3>2, WordsAssumption DEF Made
    <3>3. QED
      BY <1>3, <3>1, <3>2
  <2>3. [kind |-> t.kind, of |-> "name"] \in Tok
    BY <2>2 DEF Tok, Made
  <2>4. [kind |-> t.kind, of |-> "name"] \notin NotOf(who)
    BY <2>2 DEF NotOf
  <2> HIDE DEF hit
  <2>5. QED
    BY <1>2, <1>4, <1>7, <2>1, <2>2, <2>3, <2>4 DEF IsWord
<1>8. QED
  BY <1>5, <1>6, <1>7

\* The full name of a line, then its words.
NameLine(l, who) == [k \in DOMAIN FullName(l, who) |-> RedactWord(FullName(l, who)[k], who)]

\* After both nothing of the name is in the line, and nothing else has gone.
LEMMA NameLineFacts ==
  ASSUME NEW who \in Seq(Words), who # << >>, NEW S, Gone("name") \in S, S \subseteq Tok,
         NEW R, \A t \in S : RedactWord(t, who) \in R, NEW l \in Seq(S)
  PROVE  /\ NameLine(l, who) \in Seq(R)
         /\ Unnamed(NameLine(l, who), who)
         /\ Only(NotOf(who), NameLine(l, who)) = Only(NotOf(who), l)
<1> DEFINE f == FullName(l, who)
           r == NameLine(l, who)
           n == Len(f)
<1>1. f \in Seq(S) /\ Unnamed(f, who)
  BY FullNameGoes
<1>2. Only(NotOf(who), f) = Only(NotOf(who), l)
  <2>1. \A t \in Source \cup Made : IsWord(t) => t.of \in Words
    BY DEF IsWord, Source, Made, Contacts
  <2> DEFINE K == NotOf(who)
  <2>2. Gone("name") \notin K /\ Spares(K, who)
    BY <2>1 DEF NotOf, Spares
  <2> HIDE DEF K, f
  <2>3. Only(K, FullName(l, who)) = Only(K, l)
    BY <2>2, FullNameKeeps
  <2>4. QED
    BY <2>3 DEF K, f
<1>3. r = [k \in DOMAIN f |-> RedactWord(f[k], who)]
  BY DEF NameLine
<1> HIDE DEF f, r
<1>4. n \in Nat /\ DOMAIN f = 1..n /\ \A k \in 1..n : f[k] \in S
  BY <1>1
<1>5. \A k \in 1..n : f[k] \in Tok /\ RedactWord(f[k], who) \in R /\ RedactWord(f[k], who) \in Tok
  BY <1>4, RedactWordFacts
<1>6. r \in Seq(R) /\ r \in Seq(Tok) /\ Len(r) = n /\ \A k \in 1..n : r[k] = RedactWord(f[k], who)
  BY <1>3, <1>4, <1>5
<1>7. f \in Seq(Tok)
  BY <1>1, SeqMonotonic
<1>8. Alike(NotOf(who), r, f)
  <2>1. ASSUME NEW k \in 1..n
        PROVE  r[k] = f[k] \/ (r[k] \notin NotOf(who) /\ f[k] \notin NotOf(who))
    BY <1>5, <1>6, RedactWordFacts
  <2>2. QED
    BY <1>6, <2>1 DEF Alike
<1>9. Only(NotOf(who), r) = Only(NotOf(who), f)
  BY <1>6, <1>7, <1>8, OnlyOfAlike
<1>10. ASSUME NEW k \in 1..(n + 1 - Len(who)), NameAt(r, k, who) PROVE FALSE
  <2>1. Len(who) \in Nat /\ k \in Nat /\ k >= 1 /\ k + Len(who) - 1 <= n
    BY <1>4
  <2>2. ASSUME NEW i \in k..(k + Len(who) - 1), IsWord(r[i]) PROVE f[i] = r[i]
    <3>1. i \in 1..n
      BY <1>4, <2>1
    <3>2. f[i] \in Tok /\ r[i] = RedactWord(f[i], who)
      BY <1>5, <1>6, <3>1
    <3>3. QED
      BY <2>2, <3>2, RedactWordFacts
  <2>3. \A i \in k..(k + Len(who) - 1) : IsWord(r[i]) => f[i] = r[i]
    BY <2>2
  <2>4. NameAt(f, k, who)
    BY <1>6, <1>7, <1>10, <2>1, <2>3, NameElsewhere
  <2>5. QED
    BY <1>1, <2>4 DEF Unnamed
<1>11. Unnamed(r, who)
  BY <1>6, <1>10 DEF Unnamed
<1>12. QED
  BY <1>2, <1>6, <1>9, <1>11 DEF r, f

\* Names are redacted line by line.
LEMMA NamesByLine ==
  ASSUME NEW who \in Seq(Words), who # << >>, NEW x \in Seq(Seq(Tok))
  PROVE  RedactNames(x, who) = [i \in 1..Len(x) |-> NameLine(x[i], who)]
<1> DEFINE y == RedactFullName(x, who)
<1>1. DOMAIN x = 1..Len(x)
  OBVIOUS
<1>2. y = [i \in 1..Len(x) |-> FullName(x[i], who)]
  BY <1>1 DEF RedactFullName, FullName
<1>3. RedactNames(x, who) = RedactWords(y, who)
  BY DEF RedactNames
<1> HIDE DEF y
<1>4. DOMAIN y = 1..Len(x) /\ \A i \in 1..Len(x) : y[i] = FullName(x[i], who)
  BY <1>2
<1>5. RedactWords(y, who) = [i \in DOMAIN y |-> [k \in DOMAIN y[i] |-> RedactWord(y[i][k], who)]]
  BY DEF RedactWords, Each
<1>6. QED
  BY <1>3, <1>4, <1>5 DEF NameLine

\* The counterfactual differs by words of the name alone.
LEMMA NamesKeep ==
  ASSUME NEW who \in Seq(Words), NEW x \in Seq(Seq(Tok))
  PROVE  OnlyOf(NotOf(who), RedactNames(x, who)) = OnlyOf(NotOf(who), x)
<1>1. CASE who = << >>
  BY <1>1 DEF RedactNames
<1>2. CASE who # << >>
  <2> DEFINE y == RedactNames(x, who)
             n == Len(x)
  <2>1. y = [i \in 1..n |-> NameLine(x[i], who)]
    BY <1>2, NamesByLine
  <2>2. n \in Nat /\ \A i \in 1..n : x[i] \in Seq(Tok)
    OBVIOUS
  <2>3. Gone("name") \in Tok
    BY DEF Gone, Token, Tok, Made, Labels
  <2>4. \A t \in Tok : RedactWord(t, who) \in Tok
    BY RedactWordFacts
  <2>5. \A l \in Seq(Tok) : /\ NameLine(l, who) \in Seq(Tok)
                            /\ Only(NotOf(who), NameLine(l, who)) = Only(NotOf(who), l)
    BY <1>2, <2>3, <2>4, NameLineFacts
  <2> HIDE DEF y
  <2>6. y \in Seq(Seq(Tok)) /\ Len(y) = n /\ \A i \in 1..n : y[i] = NameLine(x[i], who)
    <3>1. \A i \in 1..n : NameLine(x[i], who) \in Seq(Tok)
      BY <2>2, <2>5
    <3>2. QED
      BY <2>1, <2>2, <3>1
  <2>7. \A i \in 1..n : Only(NotOf(who), y[i]) = Only(NotOf(who), x[i])
    BY <2>2, <2>5, <2>6
  <2>8. LineByLine(NotOf(who), y, x)
    BY <2>6, <2>7 DEF LineByLine
  <2>9. QED
    BY <2>6, <2>8, OnlyOfLines DEF y
<1>3. QED
  BY <1>1, <1>2

-----------------------------------------------------------------------------
(* What leaves for a provider, pass by pass. *)

\* The tokens of the stages: without contact details, and without links.
Uncontacted == {t \in Tok : t.kind \notin Contacts /\ (t.kind = "address" => t.of # "name")}
Unlinked    == {t \in Uncontacted : t.kind # "link"}

\* With addresses still in, and as they leave.
Nameless(who, hide) == {t \in Tok : /\ t.kind \notin Contacts \cup {"link"}
                                    /\ hide /\ t.of \in Words =>
                                         Core(t.of) \notin Bares(who) \cap Distinctive}
Within(who, hide) ==
  {t \in Nameless(who, hide) : t.kind = "address" => hide \/ t.of # "name"}
Leaving(who, hide) ==
  {t \in Nameless(who, hide) : t.kind = "address" => hide /\ t.of = "name"}

\* Links are cut.
LEMMA UrlsGo ==
  ASSUME NEW l \in Seq(Uncontacted)
  PROVE  FoldLeft(PutUrl, << >>, l) \in Seq(Unlinked)
<1> DEFINE F(p) == FoldLeft(PutUrl, << >>, p)
           G == {p \in Seq(Uncontacted) : F(p) \in Seq(Unlinked)}
<1>0. \A t \in Uncontacted : (IF t.kind = "link" THEN Token("host", t.of) ELSE t) \in Unlinked
  <2>1. ASSUME NEW t \in Uncontacted, t.kind = "link" PROVE Token("host", t.of) \in Unlinked
    <3>1. t.of \in Words \cup {"name"}
      BY <2>1 DEF Uncontacted, Tok, Source, Made, Contacts
    <3>2. Token("host", t.of) = [kind |-> "host", of |-> t.of]
      BY DEF Token
    <3>3. [kind |-> "host", of |-> t.of] \in Tok
      BY <3>1 DEF Tok, Source, Made
    <3>4. QED
      BY <3>2, <3>3 DEF Unlinked, Uncontacted, Contacts
  <2>2. QED
    BY <2>1 DEF Unlinked
<1>1. << >> \in G
  <2>1. << >> \in Seq(Uncontacted) /\ << >> \in Seq(Unlinked)
    OBVIOUS
  <2>2. F(<< >>) = Fold("url", << >>, << >>, << >>)
    BY <2>1, UrlFolds
  <2>3. F(<< >>) = << >>
    BY <2>2, FoldOfNone
  <2>4. QED
    BY <2>1, <2>3
<1>2. ASSUME NEW p \in Seq(Uncontacted), NEW t \in Uncontacted, p \in G PROVE Append(p, t) \in G
  <2> DEFINE y == Append(p, t)
  <2>1. y \in Seq(Uncontacted) /\ F(p) \in Seq(Unlinked)
    BY <1>2
  <2> HIDE DEF y
  <2>2. F(y) = Fold("url", << >>, << >>, y) /\ F(p) = Fold("url", << >>, << >>, p)
    BY <2>1, UrlFolds
  <2> HIDE DEF F
  <2>3. Fold("url", << >>, << >>, y) = Put("url", << >>, Fold("url", << >>, << >>, p), t)
    BY FoldOfOneMore DEF y
  <2>4. F(y) = PutUrl(F(p), t)
    BY <2>2, <2>3 DEF Put
  <2>5. PutUrl(F(p), t) \in Seq(Unlinked)
    <3> DEFINE done == F(p)
               u == IF t.kind = "link" THEN Token("host", t.of) ELSE t
    <3>1. done \in Seq(Unlinked) /\ u \in Unlinked
      BY <1>0, <2>1
    <3>2. PutUrl(done, t) = done \/ PutUrl(done, t) = Append(done, u)
      BY DEF PutUrl
    <3> HIDE DEF done, u
    <3>3. QED
      BY <3>1, <3>2 DEF done
  <2>6. QED
    BY <2>1, <2>4, <2>5 DEF y
<1> HIDE DEF G
<1>3. Seq(Uncontacted) \subseteq G
  BY <1>1, <1>2, SequenceInduction
<1>4. QED
  BY <1>3 DEF G

\* A line without its addresses.
Addressed(l) == [k \in DOMAIN l |-> IF Taken(l, k) THEN Gone("address") ELSE l[k]]

\* A line and the same line with tokens taken by an address.
Shorter(r, l) == Len(r) = Len(l) /\ \A i \in 1..Len(r) : r[i] = l[i] \/ r[i] = Gone("address")

\* Addresses go, but for one in a street of the name.
LEMMA AddressesGo ==
  ASSUME NEW who \in Seq(Words), NEW hide \in BOOLEAN, NEW l \in Seq(Within(who, hide))
  PROVE  Addressed(l) \in Seq(Leaving(who, hide)) /\ Shorter(Addressed(l), l)
<1> DEFINE S == Within(who, hide)
           R == Leaving(who, hide)
           g == Gone("address")
           n == Len(l)
<1>1. g \in R
  <2>1. g = [kind |-> "gone", of |-> "address"] /\ g \in Tok
    BY DEF Gone, Token, Tok, Made, Labels
  <2>2. "address" \notin Words
    BY WordsAssumption DEF Labels
  <2>3. QED
    BY <2>1, <2>2 DEF Leaving, Nameless, Contacts
<1>2. n \in Nat /\ DOMAIN l = 1..n /\ \A k \in 1..n : l[k] \in S
  OBVIOUS
<1>3. ASSUME NEW k \in 1..n, ~Taken(l, k) PROVE l[k] \in R
  <2>1. ~InAddress(l, k)
    BY <1>3 DEF Taken
  <2>2. k \in 1..k /\ \A i \in k..k : i = k
    BY <1>2
  <2>3. l[k].kind = "address" => l[k].of = "name"
    <3>1. Comma.kind = "comma"
      BY DEF Comma, Token
    <3> HIDE DEF S
    <3>2. l[k].kind = "address" => l[k] # Comma
      BY <3>1
    <3>3. QED
      BY <2>1, <2>2, <3>2 DEF InAddress
  <2>4. QED
    BY <1>2, <2>3 DEF Within, Leaving
<1> HIDE DEF R, g
<1>4. Addressed(l) = [k \in 1..n |-> IF Taken(l, k) THEN g ELSE l[k]]
  BY <1>2 DEF Addressed, g
<1>5. \A k \in 1..n : (IF Taken(l, k) THEN g ELSE l[k]) \in R
  BY <1>1, <1>3
<1>6. Addressed(l) \in Seq(R) /\ Len(Addressed(l)) = n
      /\ \A k \in 1..n : Addressed(l)[k] = IF Taken(l, k) THEN g ELSE l[k]
  BY <1>2, <1>4, <1>5
<1>7. QED
  BY <1>6 DEF Shorter, R, g

\* The name that was nowhere in a line is nowhere in what is left of it.
LEMMA ShorterUnnamed ==
  ASSUME NEW who \in Seq(Words), who # << >>, NEW S, NEW r \in Seq(S), NEW l \in Seq(S),
         Shorter(r, l), Unnamed(l, who)
  PROVE  Unnamed(r, who)
<1>0. Len(who) \in Nat /\ Len(r) \in Nat /\ Len(l) \in Nat /\ Len(r) <= Len(l)
  BY DEF Shorter
<1>1. ASSUME NEW k \in 1..(Len(r) + 1 - Len(who)), NameAt(r, k, who) PROVE FALSE
  <2>1. k \in Nat /\ k >= 1 /\ k + Len(who) - 1 <= Len(r) /\ k \in 1..(Len(l) + 1 - Len(who))
    BY <1>0
  <2>2. ASSUME NEW i \in k..(k + Len(who) - 1), IsWord(r[i]) PROVE l[i] = r[i]
    <3>1. i \in 1..Len(r)
      BY <1>0, <2>1
    <3>2. r[i] # Gone("address")
      BY <2>2 DEF IsWord, Gone, Token
    <3>3. QED
      BY <3>1, <3>2 DEF Shorter
  <2>3. \A i \in k..(k + Len(who) - 1) : IsWord(r[i]) => l[i] = r[i]
    BY <2>2
  <2>4. NameAt(l, k, who)
    BY <1>1, <2>1, <2>3, NameElsewhere
  <2>5. QED
    BY <2>1, <2>4 DEF Unnamed
<1>2. QED
  BY <1>1 DEF Unnamed

\* Contact details are gone after the first pass.
LEMMA StripUncontacts ==
  ASSUME NEW x \in Seq(Lines(Source))
  PROVE  Stripped(x) \in Seq(Seq(Uncontacted))
<1> DEFINE y == Stripped(x)
<1>1. y \in Seq(Lines(Tok)) /\ Len(y) = Len(x) /\ \A i \in 1..Len(x) : y[i] = StripLine(x[i])
  BY StrippedFacts
<1>2. \A i \in 1..Len(x) : x[i] \in Lines(Source)
  OBVIOUS
<1>3. ASSUME NEW t \in Source PROVE Strip(t) \in Uncontacted
  <2>1. Strip(t) \in Tok /\ Strip(t).kind \notin Contacts
    BY StripFacts
  <2>2. Strip(t).kind = "address" => Strip(t).of # "name"
    <3>1. CASE Strip(t) \in Source
      BY <3>1, WordsAssumption DEF Source, Labels, Contacts
    <3>2. CASE Strip(t) \notin Source
      BY <3>2, StripFacts
    <3>3. QED
      BY <3>1, <3>2
  <2>3. QED
    BY <2>1, <2>2 DEF Uncontacted
<1>4. ASSUME NEW l \in Lines(Source) PROVE StripLine(l) \in Seq(Uncontacted)
  <2>1. DOMAIN l = 1..Len(l) /\ Len(l) \in Nat /\ \A k \in 1..Len(l) : l[k] \in Source
    BY DEF Lines
  <2>2. QED
    BY <1>3, <2>1 DEF StripLine
<1> HIDE DEF y
<1>5. \A i \in 1..Len(y) : y[i] \in Seq(Uncontacted)
  BY <1>1, <1>2, <1>4
<1>6. Len(y) \in Nat /\ y = [i \in 1..Len(y) |-> y[i]]
  BY <1>1
<1>7. y \in Seq(Seq(Uncontacted))
  BY <1>5, <1>6
<1>8. QED
  BY <1>7 DEF y

\* Links are gone after the second.
LEMMA UrlsByLine ==
  ASSUME NEW x \in Seq(Seq(Uncontacted))
  PROVE  RedactUrls(x) \in Seq(Seq(Unlinked))
<1>1. Len(x) \in Nat /\ DOMAIN x = 1..Len(x) /\ \A i \in 1..Len(x) : x[i] \in Seq(Uncontacted)
  OBVIOUS
<1>2. \A i \in 1..Len(x) : FoldLeft(PutUrl, << >>, x[i]) \in Seq(Unlinked)
  BY <1>1, UrlsGo
<1>3. RedactUrls(x) = [i \in 1..Len(x) |-> FoldLeft(PutUrl, << >>, x[i])]
  BY <1>1 DEF RedactUrls
<1>4. QED
  BY <1>1, <1>2, <1>3

\* The full name is nowhere in a text.
Nowhere(x, who) == who # << >> => \A i \in 1..Len(x) : Unnamed(x[i], who)

\* What PII_REDACT_NAMES adds: no word of the name, in no line the name.
LEMMA NamesGo ==
  ASSUME NEW who \in Seq(Words), NEW x \in Seq(Seq(Unlinked))
  PROVE  /\ RedactNames(x, who) \in Seq(Seq(Within(who, TRUE)))
         /\ Nowhere(RedactNames(x, who), who)
<1> DEFINE R == Within(who, TRUE)
<1>1. \A t \in Unlinked : RedactWord(t, who) \in R
  <2>1. ASSUME NEW t \in Unlinked PROVE RedactWord(t, who) \in R
    <3>1. t \in Tok /\ t.kind \notin Contacts \cup {"link"}
      BY DEF Unlinked, Uncontacted
    <3>2. /\ RedactWord(t, who) \in Tok /\ RedactWord(t, who).kind \in {t.kind, "gone"}
          /\ RedactWord(t, who).of \in Words =>
               Core(RedactWord(t, who).of) \notin Bares(who) \cap Distinctive
      BY <3>1, RedactWordFacts
    <3>3. "gone" \notin Contacts \cup {"link"}
      BY DEF Contacts
    <3>4. QED
      BY <3>1, <3>2, <3>3 DEF Within, Nameless
  <2>2. QED
    BY <2>1
<1>2. CASE who = << >>
  <2>1. RedactNames(x, who) = x
    BY <1>2 DEF RedactNames
  <2>2. Bares(who) = {}
    BY <1>2 DEF Bares, Range
  <2>3. Unlinked \subseteq R
    BY <2>2 DEF Unlinked, Uncontacted, Within, Nameless
  <2> HIDE DEF R
  <2>4. Seq(Unlinked) \subseteq Seq(R)
    BY <2>3, SeqMonotonic
  <2>5. x \in Seq(Seq(R))
    BY <2>4, SeqMonotonic
  <2>6. QED
    BY <1>2, <2>1, <2>5 DEF R, Nowhere
<1>3. CASE who # << >>
  <2> DEFINE y == RedactNames(x, who)
             n == Len(x)
  <2>1. Unlinked \subseteq Tok /\ Gone("name") \in Unlinked
    BY DEF Unlinked, Uncontacted, Gone, Token, Tok, Made, Labels, Contacts
  <2>2. Seq(Unlinked) \subseteq Seq(Tok)
    BY <2>1, SeqMonotonic
  <2>3. x \in Seq(Seq(Tok))
    BY <2>2, SeqMonotonic
  <2>4. y = [i \in 1..n |-> NameLine(x[i], who)]
    BY <1>3, <2>3, NamesByLine
  <2> HIDE DEF R, y
  <2>5. \A l \in Seq(Unlinked) : NameLine(l, who) \in Seq(R) /\ Unnamed(NameLine(l, who), who)
    BY <1>1, <1>3, <2>1, NameLineFacts
  <2>6. n \in Nat /\ \A i \in 1..n : x[i] \in Seq(Unlinked)
    OBVIOUS
  <2>7. \A i \in 1..n : NameLine(x[i], who) \in Seq(R) /\ Unnamed(NameLine(x[i], who), who)
    BY <2>5, <2>6
  <2>8. y \in Seq(Seq(R)) /\ Len(y) = n /\ \A i \in 1..n : y[i] = NameLine(x[i], who)
    BY <2>4, <2>6, <2>7
  <2>9. Nowhere(y, who)
    BY <2>7, <2>8 DEF Nowhere
  <2>10. QED
    BY <2>8, <2>9 DEF R, y
<1>4. QED
  BY <1>2, <1>3

\* A line of the header that looks like a name is replaced as a whole.
LEMMA HeaderGoes ==
  ASSUME NEW who \in Seq(Words), NEW x \in Seq(Seq(Within(who, TRUE))), Nowhere(x, who)
  PROVE  /\ RedactHeaderNameLines(x) \in Seq(Seq(Within(who, TRUE)))
         /\ Nowhere(RedactHeaderNameLines(x), who)
<1> DEFINE R == Within(who, TRUE)
           y == RedactHeaderNameLines(x)
           g == Gone("name")
           n == Len(x)
<1>1. n \in Nat /\ DOMAIN x = 1..n /\ \A i \in 1..n : x[i] \in Seq(R)
  <2>1. x \in Seq(Seq(R))
    OBVIOUS
  <2> HIDE DEF R
  <2>2. QED
    BY <2>1
<1>2. g \in R /\ ~IsWord(g)
  <2>1. g = [kind |-> "gone", of |-> "name"] /\ g \in Tok
    BY DEF Gone, Token, Tok, Made, Labels
  <2>2. "name" \notin Words
    BY WordsAssumption DEF Labels
  <2>3. QED
    BY <2>1, <2>2 DEF Within, Nameless, Contacts, IsWord
<1> HIDE DEF R, g
<1>3. <<g>> \in Seq(R) /\ Len(<<g>>) = 1 /\ <<g>>[1] = g
  BY <1>2
<1>4. y = [i \in 1..n |-> IF i <= HeaderLines /\ LooksLikePersonName(x[i]) THEN <<g>> ELSE x[i]]
  BY <1>1 DEF RedactHeaderNameLines, g
<1> HIDE DEF y
<1>5. \A i \in 1..n : y[i] = <<g>> \/ y[i] = x[i]
  BY <1>4
<1>6. y \in Seq(Seq(R)) /\ Len(y) = n
  <2> DEFINE h == <<g>>
             c(i) == IF i <= HeaderLines /\ LooksLikePersonName(x[i]) THEN h ELSE x[i]
  <2>1. \A i \in 1..n : c(i) \in Seq(R)
    BY <1>1, <1>3
  <2>2. y = [i \in 1..n |-> c(i)]
    BY <1>4
  <2> HIDE DEF c
  <2>3. QED
    BY <1>1, <2>1, <2>2
<1>7. ASSUME who # << >> PROVE Unnamed(<<g>>, who)
  <2>1. Len(who) \in Nat /\ Len(who) # 0 /\ DOMAIN who = 1..Len(who)
    BY <1>7
  <2>2. ASSUME NEW k \in 1..(Len(<<g>>) + 1 - Len(who)), NameAt(<<g>>, k, who) PROVE FALSE
    <3>1. k = 1 /\ 1 \in DOMAIN who /\ k + 1 - 1 = 1
      BY <1>3, <2>1
    <3>2. IsWord(<<g>>[1])
      BY <2>2, <3>1 DEF NameAt
    <3>3. QED
      BY <1>2, <1>3, <3>2
  <2>3. QED
    BY <2>2 DEF Unnamed
<1>8. Nowhere(y, who)
  <2>1. ASSUME who # << >>, NEW i \in 1..n PROVE Unnamed(y[i], who)
    <3>1. Unnamed(<<g>>, who) /\ Unnamed(x[i], who)
      BY <1>7, <2>1 DEF Nowhere
    <3>2. CASE y[i] = <<g>>
      BY <3>1, <3>2
    <3>3. CASE y[i] = x[i]
      BY <3>1, <3>3
    <3>4. QED
      BY <1>5, <3>2, <3>3
  <2>2. QED
    BY <1>6, <2>1 DEF Nowhere
<1>9. QED
  BY <1>6, <1>8 DEF R, y

\* Addresses go last.
LEMMA AddressesByLine ==
  ASSUME NEW who \in Seq(Words), NEW hide \in BOOLEAN, NEW x \in Seq(Seq(Within(who, hide)))
  PROVE  /\ RedactAddresses(x) \in Seq(Seq(Leaving(who, hide)))
         /\ Nowhere(x, who) => Nowhere(RedactAddresses(x), who)
<1> DEFINE y == RedactAddresses(x)
           n == Len(x)
           F(l) == Addressed(l)
<1>1. n \in Nat /\ DOMAIN x = 1..n /\ \A i \in 1..n : x[i] \in Seq(Within(who, hide))
  OBVIOUS
<1>2. \A i \in 1..n : F(x[i]) \in Seq(Leaving(who, hide)) /\ Shorter(F(x[i]), x[i])
  BY <1>1, AddressesGo
<1>3. y = [i \in 1..n |-> F(x[i])]
  BY <1>1 DEF RedactAddresses, Addressed
<1> HIDE DEF y, F
<1>4. y \in Seq(Seq(Leaving(who, hide))) /\ Len(y) = n /\ \A i \in 1..n : y[i] = F(x[i])
  BY <1>1, <1>2, <1>3
<1>5. ASSUME Nowhere(x, who), who # << >>, NEW i \in 1..n PROVE Unnamed(y[i], who)
  <2> DEFINE r == F(x[i])
             l == x[i]
  <2>1. Leaving(who, hide) \subseteq Tok /\ Within(who, hide) \subseteq Tok
    BY DEF Leaving, Within, Nameless
  <2>2. r \in Seq(Tok) /\ l \in Seq(Tok)
    BY <1>1, <1>2, <2>1, SeqMonotonic
  <2>3. Shorter(r, l) /\ Unnamed(l, who)
    BY <1>2, <1>5 DEF Nowhere
  <2> HIDE DEF r, l
  <2>4. Unnamed(r, who)
    BY <1>5, <2>2, <2>3, ShorterUnnamed
  <2>5. QED
    BY <1>4, <2>4 DEF r
<1>6. Nowhere(x, who) => Nowhere(y, who)
  <2>1. ASSUME Nowhere(x, who), who # << >> PROVE \A i \in 1..Len(y) : Unnamed(y[i], who)
    BY <1>4, <1>5, <2>1
  <2>2. QED
    BY <2>1 DEF Nowhere
<1>7. QED
  BY <1>4, <1>6 DEF y

\* The view that leaves for a provider.
LEMMA LlmFacts ==
  ASSUME NEW who \in Seq(Words), NEW hide \in BOOLEAN, NEW x \in Seq(Lines(Source))
  PROVE  /\ Llm(x, who, hide) \in Seq(Seq(Leaving(who, hide)))
         /\ hide => Nowhere(Llm(x, who, hide), who)
<1> DEFINE cut == RedactUrls(StripContactDetails(x))
           named == RedactNames(cut, who)
           unnamed == IF hide THEN RedactHeaderNameLines(named) ELSE cut
<1>1. cut \in Seq(Seq(Unlinked))
  <2>1. StripContactDetails(x) = Stripped(Join(x))
    BY DEF StripContactDetails, Stripped
  <2>2. Join(x) \in Seq(Lines(Source))
    BY JoinType
  <2>3. StripContactDetails(x) \in Seq(Seq(Uncontacted))
    BY <2>1, <2>2, StripUncontacts
  <2>4. QED
    BY <2>3, UrlsByLine
<1>2. Llm(x, who, hide) = RedactAddresses(unnamed)
  BY DEF Llm
<1> HIDE DEF cut
<1>3. unnamed \in Seq(Seq(Within(who, hide))) /\ (hide => Nowhere(unnamed, who))
  <2>1. CASE hide
    <3>1. named \in Seq(Seq(Within(who, TRUE))) /\ Nowhere(named, who)
      BY <1>1, NamesGo
    <3> HIDE DEF named
    <3>2. /\ RedactHeaderNameLines(named) \in Seq(Seq(Within(who, TRUE)))
          /\ Nowhere(RedactHeaderNameLines(named), who)
      BY <3>1, HeaderGoes
    <3>3. hide = TRUE
      BY <2>1
    <3>4. QED
      BY <3>2, <3>3
  <2>2. CASE ~hide
    <3>1. unnamed = cut /\ hide = FALSE
      BY <2>2
    <3>2. Unlinked \subseteq Within(who, FALSE)
      BY DEF Unlinked, Uncontacted, Within, Nameless
    <3>3. Seq(Unlinked) \subseteq Seq(Within(who, FALSE))
      BY <3>2, SeqMonotonic
    <3>4. cut \in Seq(Seq(Within(who, FALSE)))
      BY <1>1, <3>3, SeqMonotonic
    <3>5. QED
      BY <3>1, <3>4
  <2>3. QED
    BY <2>1, <2>2
<1> HIDE DEF unnamed
<1>4. QED
  BY <1>2, <1>3, AddressesByLine

-----------------------------------------------------------------------------
(* The specification. *)

\* What was asked for, and the answer once there is one.
Args   == text \in Texts /\ name \in Names \cup {<< >>} /\ redactNames \in BOOLEAN
Answer == Returned => views = [scoring  |-> Scoring(text),
                               llm      |-> Llm(text, name, redactNames),
                               unnamed  |-> RedactNames(Scoring(text), name),
                               sections |-> ExtractSections(Scoring(text))]
Inv == Args /\ Answer

\* The invariant: the answer is made from the arguments.
LEMMA InvHolds == Spec => []Inv
<1>1. Init => Inv
  BY DEF Init, Inv, Args, Answer, Returned
<1>2. Inv /\ [RedactResume]_vars => Inv'
  <2> SUFFICES ASSUME Inv, [RedactResume]_vars PROVE Inv'
    OBVIOUS
  <2>1. CASE RedactResume
    <3>1. Args'
      BY <2>1 DEF RedactResume, Inv, Args
    <3>2. ASSUME Returned'
          PROVE  views' = [scoring  |-> Scoring(text),
                           llm      |-> Llm(text, name, redactNames),
                           unnamed  |-> RedactNames(Scoring(text), name),
                           sections |-> ExtractSections(Scoring(text))]
      <4>1. ~Raises
        BY <2>1, <3>2 DEF RedactResume, Returned
      <4>2. QED
        BY <2>1, <4>1 DEF RedactResume
    <3>3. text' = text /\ name' = name /\ redactNames' = redactNames
      BY <2>1 DEF RedactResume
    <3>4. Answer'
      BY <3>2, <3>3 DEF Answer
    <3>5. QED
      BY <3>1, <3>4 DEF Inv
  <2>2. CASE UNCHANGED vars
    BY <2>2 DEF vars, Inv, Args, Answer, Returned
  <2>3. QED
    BY <2>1, <2>2
<1>3. QED
  BY <1>1, <1>2, PTL DEF Spec

\* What every argument is.
LEMMA ArgsFacts ==
  ASSUME Args
  PROVE  text \in Seq(Lines(Source)) /\ name \in Seq(Words)
<1>1. text \in Seq(Seq(Source)) /\ \A i \in DOMAIN text : text[i] # << >>
  BY TextsAssumption DEF Args
<1>2. Len(text) \in Nat /\ DOMAIN text = 1..Len(text)
  BY <1>1
<1>3. \A i \in 1..Len(text) : text[i] \in Lines(Source)
  <2>1. ASSUME NEW i \in 1..Len(text) PROVE text[i] \in Seq(Source) /\ text[i] # << >>
    <3> DEFINE S == Seq(Source)
    <3>1. text \in Seq(S)
      BY <1>1
    <3> HIDE DEF S
    <3>2. text[i] \in S
      BY <2>1, <3>1, ElementOfSeq
    <3>3. QED
      BY <1>1, <1>2, <3>2 DEF S
  <2>2. QED
    BY <2>1 DEF Lines
<1>4. text = [i \in 1..Len(text) |-> text[i]]
  BY <1>1, <1>2
<1>5. text \in Seq(Lines(Source))
  BY <1>2, <1>3, <1>4
<1>6. name \in Seq(Words)
  <2>1. << >> \in Seq(Words)
    OBVIOUS
  <2>2. QED
    BY <2>1, WordsAssumption DEF Args
<1>7. QED
  BY <1>5, <1>6

\* redact_resume lets nothing through to a provider that identifies the candidate: in
\* whatever resume, no contact detail, no account behind a link, no address but one in a
\* street of the candidate's name, and with PII_REDACT_NAMES neither the name in a line
\* nor a distinctive word of it that has no mark inside (pii_redaction.py:404-405).
THEOREM NothingGetsThrough == Spec => []NothingIdentifies
<1>1. Inv => NothingIdentifies
  <2> SUFFICES ASSUME Inv, Returned PROVE NothingIdentifies
    BY DEF NothingIdentifies
  <2> DEFINE v == Llm(text, name, redactNames)
             R == Leaving(name, redactNames)
  <2>1. text \in Seq(Lines(Source)) /\ name \in Seq(Words) /\ redactNames \in BOOLEAN
    BY ArgsFacts DEF Inv, Args
  <2>2. v \in Seq(Seq(R)) /\ (redactNames => Nowhere(v, name))
    BY <2>1, LlmFacts
  <2>3. views.llm = v
    BY DEF Inv, Answer
  <2> HIDE DEF v
  <2>4. ASSUME NEW t \in Tokens(v)
        PROVE  /\ t.kind \notin Contacts \cup {"link"}
               /\ t.kind = "address" => redactNames /\ t.of = "name"
               /\ redactNames /\ t.of \in Words =>
                    \A w \in Range(name) :
                      Core(w) \in Distinctive /\ Bare[w] = Core(w) => Core(t.of) # Core(w)
    <3>1. PICK i \in DOMAIN v : t \in Range(v[i])
      BY DEF Tokens
    <3> HIDE DEF R
    <3>2. v[i] \in Seq(R)
      BY <2>2
    <3>3. t \in R
      BY <3>1, <3>2 DEF Range
    <3>4. QED
      BY <3>3 DEF R, Leaving, Nameless, Bares
  <2>5. ASSUME redactNames, name # << >>, NEW i \in DOMAIN v,
               NEW k \in 1..(Len(v[i]) + 1 - Len(name))
        PROVE  ~NameAt(v[i], k, name)
    <3> HIDE DEF R
    <3>1. i \in 1..Len(v)
      BY <2>2
    <3>2. Unnamed(v[i], name)
      BY <2>2, <2>5, <3>1 DEF Nowhere
    <3>3. QED
      BY <2>5, <3>2 DEF Unnamed
  <2>6. QED
    BY <2>3, <2>4, <2>5 DEF NothingIdentifies
<1>2. QED
  BY <1>1, InvHolds, PTL

\* Nothing that speaks for a candidate is lost to the scorer, in whatever resume: every
\* word, link and heading keeps its order, every section its words unless a phone number
\* stands right below a heading, and the text without the name differs from what is
\* scored by words of the name alone (pii_redaction.py:401-411).
THEOREM EvidenceIsKept == Spec => []EvidenceSurvives
<1>1. Inv => EvidenceSurvives
  <2> SUFFICES ASSUME Inv, Returned PROVE EvidenceSurvives
    BY DEF EvidenceSurvives
  <2> DEFINE joined == Join(text)
             v == Scoring(text)
             w == RedactNames(v, name)
  <2>1. text \in Seq(Lines(Source)) /\ name \in Seq(Words)
    BY ArgsFacts DEF Inv
  <2>2. joined \in Seq(Lines(Source))
    BY <2>1, JoinType
  <2>3. v = Stripped(joined)
    BY DEF Scoring, StripContactDetails, Stripped
  <2>4. v \in Seq(Lines(Tok))
    BY <2>2, <2>3, StrippedFacts
  <2>5. views.scoring = v /\ views.unnamed = w /\ views.sections = ExtractSections(v)
    BY DEF Inv, Answer
  <2> HIDE DEF v, w
  <2>6. OnlyOf(Evidence, v) = OnlyOf(Evidence, text)
    <3>1. OnlyOf(Evidence, v) = OnlyOf(Evidence, joined)
      BY <2>2, <2>3, StripKeeps
    <3>2. OnlyOf(Evidence, joined) = OnlyOf(Evidence, text)
      BY <2>1, JoinKeeps
    <3>3. QED
      BY <3>1, <3>2
  <2>7. OnlyOf(NotOf(name), w) = OnlyOf(NotOf(name), v)
    <3>1. Lines(Tok) \subseteq Seq(Tok)
      BY DEF Lines
    <3>2. v \in Seq(Seq(Tok))
      BY <2>4, <3>1, SeqMonotonic
    <3>3. QED
      BY <2>1, <3>2, NamesKeep DEF w
  <2>8. ASSUME \A i \in 2..Len(text) : ~(IsHeading(text[i - 1]) /\ text[i][1].kind = "phone"),
               NEW s \in DOMAIN ExtractSections(text)
        PROVE  Only(Evidence, ExtractSections(v)[s]) = Only(Evidence, ExtractSections(text)[s])
    <3>1. ExtractSections(v) = Sec(v).found /\ ExtractSections(text) = Sec(text).found
      BY DEF ExtractSections, Sec
    <3>2. Lines(Source) \subseteq Lines(Tok)
      BY StripLineFacts
    <3>3. text \in Seq(Lines(Tok))
      BY <2>1, <3>2, SeqMonotonic
    <3>4. NoneHidden(text)
      BY <2>8 DEF NoneHidden
    <3>5. Sec(joined) = Sec(text)
      BY <3>3, <3>4, JoinKeepsSections
    <3>6. Sec(text) \in Sections
      BY <3>3, SecType
    <3>7. s \in Keys
      BY <2>8, <3>1, <3>6 DEF Sections
    <3>8. SameEvidence(Sec(v), Sec(joined))
      BY <2>2, <2>3, StripKeepsSections
    <3>9. Only(Evidence, Sec(v).found[s]) = Only(Evidence, Sec(text).found[s])
      BY <3>5, <3>7, <3>8 DEF SameEvidence
    <3>10. QED
      BY <3>1, <3>9
  <2>9. QED
    BY <2>5, <2>6, <2>7, <2>8 DEF EvidenceSurvives
<1>2. QED
  BY <1>1, InvHolds, PTL
===============================================================================
