--------------------------- MODULE AtsEngineProofs ---------------------------
(***************************************************************************)
(* What the scorer computes for every job, resume and similarity: the      *)
(* score keeps its scale, follows the evidence, and what the name of a     *)
(* candidate can do to it.                                                 *)
(***************************************************************************)
EXTENDS AtsEngine, TLAPS

\* Rounding keeps the order of two quotients over one denominator.
LEMMA RoundMonotone ==
  ASSUME NEW x \in Int, NEW y \in Int, NEW d \in Nat, d > 0, x <= y
  PROVE  Round(x, d) \in Int /\ Round(y, d) \in Int /\ Round(x, d) <= Round(y, d)
BY DEF Round

\* A quotient that is an integer is left alone.
LEMMA RoundExact ==
  ASSUME NEW q \in Int, NEW d \in Nat, d > 0
  PROVE  Round(q * d, d) = q
<1>1. 2 * (q * d) = (2 * d) * q
  OBVIOUS
<1>2. (2 * d) * q <= 2 * (q * d) + d /\ 2 * (q * d) + d < (2 * d) * q + 2 * d
  BY <1>1
<1>3. 2 * (q * d) + d \in Int /\ 2 * d \in Nat /\ 2 * d > 0
  OBVIOUS
<1>4. QED
  BY <1>2, <1>3 DEF Round

\* Adding a multiple of the denominator adds that many units.
LEMMA RoundShift ==
  ASSUME NEW x \in Int, NEW c \in Int, NEW d \in Nat, d > 0
  PROVE  Round(x + c * d, d) = Round(x, d) + c
<1> DEFINE q == Round(x, d)
           m == 2 * d
           y == 2 * x + d
<1>1. m \in Nat /\ m > 0 /\ y \in Int /\ q = y \div m /\ q \in Int
  BY DEF Round
<1>2. 2 * (x + c * d) + d = y + m * c
  OBVIOUS
<1>3. Round(x + c * d, d) = (y + m * c) \div m
  BY <1>2 DEF Round
<1> HIDE DEF q, m, y
<1>4. m * q <= y /\ y < m * q + m
  BY <1>1
<1>5. m * (q + c) = m * q + m * c /\ m * c \in Int /\ m * q \in Int /\ q + c \in Int
  BY <1>1
<1>6. m * (q + c) <= y + m * c /\ y + m * c < m * (q + c) + m
  BY <1>1, <1>4, <1>5
<1>7. (y + m * c) \div m = q + c
  BY <1>1, <1>5, <1>6
<1>8. QED
  BY <1>3, <1>7 DEF q

\* A quotient between two integers is rounded to a value between them.
LEMMA RoundBounds ==
  ASSUME NEW x \in Int, NEW d \in Nat, d > 0, NEW lo \in Int, NEW hi \in Int,
         lo * d <= x, x <= hi * d
  PROVE  Round(x, d) \in lo..hi
<1>1. Round(lo * d, d) = lo /\ Round(hi * d, d) = hi
  BY RoundExact
<1>2. QED
  BY <1>1, RoundMonotone

LEMMA ProductMonotone ==
  ASSUME NEW a \in Int, NEW b \in Int, NEW c \in Nat, a <= b
  PROVE  a * c \in Int /\ b * c \in Int /\ a * c <= b * c
OBVIOUS

\* The fraction of the skills that are found is one at most, and grows with them.
LEMMA RatioBounds ==
  ASSUME NEW n \in Nat, NEW m \in 0..n
  PROVE  /\ Ratio(m, n).num \in Nat /\ Ratio(m, n).den \in Nat /\ Ratio(m, n).den > 0
         /\ Ratio(m, n).num <= Ratio(m, n).den
         /\ m = n => Ratio(m, n).num = Ratio(m, n).den
         /\ \A k \in m..n : Ratio(k, n).den = Ratio(m, n).den /\ Ratio(m, n).num <= Ratio(k, n).num
BY DEF Ratio

\* The weighted sum under Keyword, with both fractions over one denominator.
Points(rn, rd, pn, pd) == Full * (80 * rn * pd + 20 * pn * rd)

PointsOnScale(rn, rd, pn, pd) ==
  /\ Points(rn, rd, pn, pd) \in Int
  /\ 0 <= Points(rn, rd, pn, pd) /\ Points(rn, rd, pn, pd) <= Full * (100 * rd * pd)
  /\ rn = rd /\ pn = pd => Points(rn, rd, pn, pd) = Full * (100 * rd * pd)

LEMMA PointsBounds ==
  ASSUME NEW rd \in Nat, NEW pd \in Nat, NEW rn \in 0..rd, NEW pn \in 0..pd
  PROVE  PointsOnScale(rn, rd, pn, pd)
<1>1. /\ rn * pd \in Nat /\ pn * rd \in Nat /\ rd * pd \in Nat
      /\ rn * pd <= rd * pd /\ pn * rd <= pd * rd /\ pd * rd = rd * pd
  BY ProductMonotone
<1>2. /\ Points(rn, rd, pn, pd) = Full * (80 * (rn * pd) + 20 * (pn * rd))
      /\ 100 * rd * pd = 100 * (rd * pd)
  BY DEF Points, Full
<1> DEFINE u == rn * pd  v == pn * rd  w == rd * pd
<1>3. u \in Nat /\ v \in Nat /\ w \in Nat /\ u <= w /\ v <= w
  BY <1>1
<1>4. rn = rd /\ pn = pd => u = w /\ v = w
  BY <1>1
<1> HIDE DEF u, v, w
<1>5. /\ Full * (80 * u + 20 * v) \in Int /\ 0 <= Full * (80 * u + 20 * v)
      /\ Full * (80 * u + 20 * v) <= Full * (100 * w)
      /\ u = w /\ v = w => Full * (80 * u + 20 * v) = Full * (100 * w)
  BY <1>3 DEF Full
<1>6. QED
  BY <1>2, <1>4, <1>5 DEF u, v, w, PointsOnScale

LEMMA PointsSum ==
  ASSUME NEW a \in Int, NEW b \in Int, NEW c \in Int, NEW d \in Int
  PROVE  Points(a, b, c, d) = Full * (80 * (a * d) + 20 * (c * b))
BY DEF Points, Full

LEMMA PointsMonotone ==
  ASSUME NEW rd \in Nat, NEW pd \in Nat, NEW rn \in Nat, NEW pn \in Nat,
         NEW rm \in Nat, NEW pm \in Nat, rn <= rm, pn <= pm
  PROVE  Points(rn, rd, pn, pd) <= Points(rm, rd, pm, pd)
<1>1. rn * pd \in Int /\ rm * pd \in Int /\ rn * pd <= rm * pd
  BY ProductMonotone
<1>2. pn * rd \in Int /\ pm * rd \in Int /\ pn * rd <= pm * rd
  BY ProductMonotone
<1>3. /\ Points(rn, rd, pn, pd) = Full * (80 * (rn * pd) + 20 * (pn * rd))
      /\ Points(rm, rd, pm, pd) = Full * (80 * (rm * pd) + 20 * (pm * rd))
  BY PointsSum
<1>4. \A a, b, c, d \in Int :
        a <= b /\ c <= d => Full * (80 * a + 20 * c) <= Full * (80 * b + 20 * d)
  BY DEF Full
<1>5. QED
  BY <1>1, <1>2, <1>3, <1>4

LEMMA DenominatorPositive ==
  ASSUME NEW a \in Nat, NEW b \in Nat, a > 0, b > 0
  PROVE  100 * a * b \in Nat /\ 100 * a * b > 0
<1>1. a * b \in Nat /\ a * b > 0
  OBVIOUS
<1>2. 100 * a * b = 100 * (a * b)
  OBVIOUS
<1>3. QED
  BY <1>1, <1>2

\* The keyword score is on the scale, and full for a resume with every skill.
LEMMA KeywordBounds ==
  ASSUME NEW job \in Job, NEW f \in Skills(job)
  PROVE  /\ Keyword(job, f) \in 0..Full
         /\ f = [required |-> job.required, preferred |-> job.preferred] => Keyword(job, f) = Full
<1> DEFINE r == Ratio(f.required, job.required)
           p == Ratio(f.preferred, job.preferred)
           d == 100 * r.den * p.den
<1>1. /\ job.required \in Nat /\ job.preferred \in Nat
      /\ f.required \in 0..job.required /\ f.preferred \in 0..job.preferred
  BY DEF Job, Skills
<1>2. /\ r.den \in Nat /\ r.den > 0 /\ r.num \in 0..r.den
      /\ p.den \in Nat /\ p.den > 0 /\ p.num \in 0..p.den
  BY <1>1, RatioBounds
<1>3. f.required = job.required /\ f.preferred = job.preferred => r.num = r.den /\ p.num = p.den
  BY <1>1, RatioBounds
<1>4. Keyword(job, f) = Round(Points(r.num, r.den, p.num, p.den), d)
  BY DEF Keyword, Points
<1> HIDE DEF r, p
<1>5. d \in Nat /\ d > 0
  BY <1>2, DenominatorPositive
<1>6. /\ Points(r.num, r.den, p.num, p.den) \in Int
      /\ 0 <= Points(r.num, r.den, p.num, p.den) /\ Points(r.num, r.den, p.num, p.den) <= Full * d
      /\ r.num = r.den /\ p.num = p.den => Points(r.num, r.den, p.num, p.den) = Full * d
  <2>1. PointsOnScale(r.num, r.den, p.num, p.den)
    BY <1>2, PointsBounds
  <2>2. QED
    BY <2>1 DEF PointsOnScale
<1> HIDE DEF d
<1>7. Full \in Int /\ 0 \in Int
  BY DEF Full
<1>8. Keyword(job, f) \in 0..Full
  <2>1. 0 * d = 0
    BY <1>5
  <2>2. QED
    BY <1>4, <1>5, <1>6, <1>7, <2>1, RoundBounds
<1>9. r.num = r.den /\ p.num = p.den => Keyword(job, f) = Full
  BY <1>4, <1>5, <1>6, <1>7, RoundExact
<1>10. QED
  BY <1>3, <1>8, <1>9

\* The skill that a resume shows more never lowers its keyword score.
LEMMA KeywordMonotone ==
  ASSUME NEW job \in Job, NEW f \in Skills(job), NEW g \in Skills(job),
         f.required <= g.required, f.preferred <= g.preferred
  PROVE  Keyword(job, f) <= Keyword(job, g)
<1> DEFINE r == Ratio(f.required, job.required)
           p == Ratio(f.preferred, job.preferred)
           s == Ratio(g.required, job.required)
           q == Ratio(g.preferred, job.preferred)
           d == 100 * r.den * p.den
<1>1. /\ job.required \in Nat /\ job.preferred \in Nat
      /\ f.required \in 0..job.required /\ f.preferred \in 0..job.preferred
      /\ g.required \in f.required..job.required /\ g.preferred \in f.preferred..job.preferred
  BY DEF Job, Skills
<1>2. /\ r.den \in Nat /\ r.den > 0 /\ r.num \in 0..r.den
      /\ s.den = r.den /\ s.num \in 0..r.den /\ r.num <= s.num
  BY <1>1, RatioBounds
<1>3. /\ p.den \in Nat /\ p.den > 0 /\ p.num \in 0..p.den
      /\ q.den = p.den /\ q.num \in 0..p.den /\ p.num <= q.num
  BY <1>1, RatioBounds
<1>4. /\ Keyword(job, f) = Round(Points(r.num, r.den, p.num, p.den), d)
      /\ Keyword(job, g) = Round(Points(s.num, r.den, q.num, p.den), d)
  BY <1>2, <1>3 DEF Keyword, Points
<1> HIDE DEF r, p, s, q
<1>5. d \in Nat /\ d > 0
  BY <1>2, <1>3, DenominatorPositive
<1> HIDE DEF d
<1>6. /\ Points(r.num, r.den, p.num, p.den) \in Int /\ Points(s.num, r.den, q.num, p.den) \in Int
      /\ Points(r.num, r.den, p.num, p.den) <= Points(s.num, r.den, q.num, p.den)
  <2>1. r.num \in Nat /\ p.num \in Nat /\ s.num \in Nat /\ q.num \in Nat
    BY <1>2, <1>3
  <2>2. Points(r.num, r.den, p.num, p.den) <= Points(s.num, r.den, q.num, p.den)
    BY <1>2, <1>3, <2>1, PointsMonotone
  <2>3. /\ PointsOnScale(r.num, r.den, p.num, p.den)
        /\ PointsOnScale(s.num, r.den, q.num, p.den)
    BY <1>2, <1>3, PointsBounds
  <2>4. QED
    BY <2>2, <2>3 DEF PointsOnScale
<1>7. QED
  BY <1>4, <1>5, <1>6, RoundMonotone

\* A similarity that is missing is replaced by the keyword score, so this component moves
\* with it or not at all.
LEMMA SemanticBounds ==
  ASSUME NEW s \in Int, NEW k \in 0..Full
  PROVE  /\ SemanticOrKeyword(s, k) \in 0..Full
         /\ s \in {0, Full} /\ k = Full => SemanticOrKeyword(s, k) = Full
         /\ \A m \in k..Full : SemanticOrKeyword(s, k) <= SemanticOrKeyword(s, m)
BY DEF SemanticOrKeyword, Clamp, Full

LEMMA ClampBounds ==
  ASSUME NEW x \in Int
  PROVE  Clamp(x) \in 0..Full
BY DEF Clamp, Full

\* The experience score is on the scale, full from the minimum on, and grows with the years.
LEMMA ExperienceBounds ==
  ASSUME NEW job \in Job, NEW y \in Nat
  PROVE  /\ Experience(job, y) \in 0..Full
         /\ y >= job.minYears => Experience(job, y) = Full
         /\ \A z \in Nat : z >= y => Experience(job, z) >= Experience(job, y)
<1>1. job.minYears \in Nat
  BY DEF Job
<1>2. CASE job.minYears = 0
  BY <1>2 DEF Experience, Full
<1>3. CASE job.minYears > 0
  <2> DEFINE score(z) == Round(z * Full, job.minYears)
  <2>1. \A z \in Nat : score(z) \in Int /\ Experience(job, z) = Clamp(score(z))
    BY <1>1, <1>3, RoundMonotone DEF Experience, Full
  <2>2. ASSUME NEW z \in Nat, z >= y PROVE score(z) >= score(y)
    <3>1. z * Full \in Int /\ y * Full \in Int /\ y * Full <= z * Full
      BY <2>2 DEF Full
    <3>2. QED
      BY <1>1, <1>3, <3>1, RoundMonotone
  <2>3. ASSUME y >= job.minYears PROVE score(y) >= Full
    <3>1. Full * job.minYears \in Int /\ y * Full \in Int /\ Full * job.minYears <= y * Full
      BY <1>1, <2>3 DEF Full
    <3>2. Round(Full * job.minYears, job.minYears) = Full
      <4>1. Full \in Int
        BY DEF Full
      <4>2. QED
        BY <1>1, <1>3, <4>1, RoundExact
    <3>3. QED
      BY <1>1, <1>3, <3>1, <3>2, RoundMonotone
  <2> HIDE DEF score
  <2>4. /\ \A x \in Int : Clamp(x) \in 0..Full /\ (x >= Full => Clamp(x) = Full)
        /\ \A x, z \in Int : x >= z => Clamp(x) >= Clamp(z)
    BY DEF Clamp, Full
  <2>5. QED
    BY <2>1, <2>2, <2>3, <2>4
<1>4. QED
  BY <1>1, <1>2, <1>3

\* One fifth of the scale for every section.
LEMMA CompletenessBounds ==
  ASSUME NEW n \in 0..5
  PROVE  /\ Completeness(n) = 2000 * n
         /\ Completeness(n) \in 0..Full
BY DEF Completeness, Clamp, Round, Full

\* The four components under Overall, weighted; the weights add up to 100.
Weighted(k, s, e, c) == 45 * k + 25 * s + 20 * e + 10 * c

LEMMA WeightedBounds ==
  ASSUME NEW k \in 0..Full, NEW s \in 0..Full, NEW e \in 0..Full, NEW c \in 0..Full
  PROVE  /\ Weighted(k, s, e, c) \in Int
         /\ Round(Weighted(k, s, e, c), 100) \in 0..Full
         /\ k = Full /\ s = Full /\ e = Full /\ c = Full => Round(Weighted(k, s, e, c), 100) = Full
<1> DEFINE w == Weighted(k, s, e, c)
<1>1. /\ w \in Int /\ 0 * 100 <= w /\ w <= Full * 100
      /\ k = Full /\ s = Full /\ e = Full /\ c = Full => w = Full * 100
  <2>1. w \in Int /\ 0 * 100 <= w
    BY DEF Weighted, Full
  <2>2. w <= Full * 100
    BY DEF Weighted, Full
  <2>3. k = Full /\ s = Full /\ e = Full /\ c = Full => w = Full * 100
    BY DEF Weighted, Full
  <2>4. QED
    BY <2>1, <2>2, <2>3
<1>2. Full \in Int
  BY DEF Full
<1> HIDE DEF w
<1>3. Round(w, 100) \in 0..Full
  BY <1>1, <1>2, RoundBounds
<1>4. Round(Full * 100, 100) = Full
  BY <1>2, RoundExact
<1>5. QED
  BY <1>1, <1>3, <1>4 DEF w

LEMMA WeightedMonotone ==
  ASSUME NEW k \in Nat, NEW s \in Nat, NEW e \in Nat, NEW c \in Nat,
         NEW l \in Nat, NEW t \in Nat, NEW g \in Nat, NEW h \in Nat,
         k <= l, s <= t, e <= g, c <= h
  PROVE  Round(Weighted(k, s, e, c), 100) <= Round(Weighted(l, t, g, h), 100)
<1>1. /\ Weighted(k, s, e, c) \in Int /\ Weighted(l, t, g, h) \in Int
      /\ Weighted(k, s, e, c) <= Weighted(l, t, g, h)
  BY DEF Weighted
<1>2. QED
  BY <1>1, RoundMonotone

LEMMA OverallIsWeighted ==
  ASSUME NEW job, NEW resume, NEW f, NEW s
  PROVE  Overall(job, resume, f, s) =
           Round(Weighted(Keyword(job, f), SemanticOrKeyword(s, Keyword(job, f)),
                          Experience(job, resume.years), Completeness(resume.sections)), 100)
BY DEF Overall, Weighted

\* The overall score stays between 0 and 100 points, whatever is found and whether or not
\* there is a similarity (calculate_ats).
THEOREM ScoreIsOnScale ==
  ASSUME NEW job \in Job, NEW resume \in Resume(job), NEW f \in Skills(job), NEW s \in Int
  PROVE  Overall(job, resume, f, s) \in 0..Full
<1>1. resume.years \in Nat /\ resume.sections \in 0..5
  BY DEF Resume
<1>2. Keyword(job, f) \in 0..Full
  BY KeywordBounds
<1>3. SemanticOrKeyword(s, Keyword(job, f)) \in 0..Full
  BY <1>2, SemanticBounds
<1>4. Experience(job, resume.years) \in 0..Full /\ Completeness(resume.sections) \in 0..Full
  BY <1>1, ExperienceBounds, CompletenessBounds
<1>5. QED
  BY <1>2, <1>3, <1>4, WeightedBounds, OverallIsWeighted

\* A resume that shows all a job asks for has the full score, without an embedding model as
\* with a perfect similarity: the missing component is not a penalty.
THEOREM CompleteResumeScoresFull ==
  ASSUME NEW job \in Job, NEW resume \in Resume(job), NEW s \in {0, Full},
         resume.found = [required |-> job.required, preferred |-> job.preferred],
         resume.years >= job.minYears, resume.sections = 5
  PROVE  Overall(job, resume, resume.found, s) = Full
<1>1. resume.years \in Nat /\ resume.found \in Skills(job) /\ s \in Int
  BY DEF Resume, Full
<1>2. Keyword(job, resume.found) = Full /\ Full \in 0..Full
  BY <1>1, KeywordBounds DEF Full
<1>3. SemanticOrKeyword(s, Full) = Full
  BY <1>1, <1>2, SemanticBounds
<1>4. Experience(job, resume.years) = Full
  BY <1>1, ExperienceBounds
<1>5. Completeness(resume.sections) = Full
  <2>1. 5 \in 0..5 /\ 2000 * 5 = Full
    BY DEF Full
  <2>2. Completeness(5) = 2000 * 5
    BY <2>1, CompletenessBounds
  <2>3. QED
    BY <2>1, <2>2
<1>6. Overall(job, resume, resume.found, s) = Round(Weighted(Full, Full, Full, Full), 100)
  <2> DEFINE f == resume.found
             k == Keyword(job, f)
  <2>1. Overall(job, resume, f, s) =
          Round(Weighted(k, SemanticOrKeyword(s, k), Experience(job, resume.years),
                         Completeness(resume.sections)), 100)
    BY OverallIsWeighted
  <2>2. k = Full
    BY <1>2
  <2> HIDE DEF f, k
  <2>3. QED
    BY <1>3, <1>4, <1>5, <2>1, <2>2 DEF f
<1>7. Round(Weighted(Full, Full, Full, Full), 100) = Full
  BY <1>2, WeightedBounds
<1>8. QED
  BY <1>6, <1>7

\* A score that is no lower, with no more skills missing, is in no lower band.
LEMMA BandMonotone ==
  ASSUME NEW x \in Int, NEW y \in Int, NEW m \in Nat, NEW n \in Nat, x >= y, m <= n
  PROVE  /\ Recommend(x, m) \in Bands
         /\ Rank(Recommend(x, m)) >= Rank(Recommend(y, n))
         /\ Recommend(x, m) = "STRONG_MATCH" => m = 0
BY DEF Recommend, Rank, Bands

\* The overall score never falls when more skills, more years or more sections are found.
LEMMA OverallMonotone ==
  ASSUME NEW job \in Job, NEW a \in Resume(job), NEW b \in Resume(job),
         NEW f \in Skills(job), NEW g \in Skills(job), NEW s \in Int,
         f.required <= g.required, f.preferred <= g.preferred,
         a.years <= b.years, a.sections <= b.sections
  PROVE  Overall(job, a, f, s) <= Overall(job, b, g, s)
<1> DEFINE k1 == Keyword(job, f)               k2 == Keyword(job, g)
           s1 == SemanticOrKeyword(s, k1)      s2 == SemanticOrKeyword(s, k2)
           e1 == Experience(job, a.years)      e2 == Experience(job, b.years)
           c1 == Completeness(a.sections)      c2 == Completeness(b.sections)
<1> Full \in Nat
  BY DEF Full
<1>1. a.years \in Nat /\ a.sections \in 0..5 /\ b.years \in Nat /\ b.sections \in 0..5
  BY DEF Resume
<1>2. k1 \in 0..Full /\ k2 \in 0..Full /\ k1 <= k2
  BY KeywordBounds, KeywordMonotone
<1>3. s1 \in 0..Full /\ s2 \in 0..Full /\ s1 <= s2
  <2> HIDE DEF k1, k2
  <2>1. k2 \in k1..Full
    BY <1>2
  <2>2. QED
    BY <1>2, <2>1, SemanticBounds
<1>4. e1 \in 0..Full /\ e2 \in 0..Full /\ e1 <= e2
  BY <1>1, ExperienceBounds
<1>5. c1 \in 0..Full /\ c2 \in 0..Full /\ c1 <= c2
  BY <1>1, CompletenessBounds
<1>6. /\ Overall(job, a, f, s) = Round(Weighted(k1, s1, e1, c1), 100)
      /\ Overall(job, b, g, s) = Round(Weighted(k2, s2, e2, c2), 100)
  BY OverallIsWeighted
<1> HIDE DEF k1, k2, s1, s2, e1, e2, c1, c2
<1>7. Round(Weighted(k1, s1, e1, c1), 100) <= Round(Weighted(k2, s2, e2, c2), 100)
  <2>1. /\ k1 \in Nat /\ s1 \in Nat /\ e1 \in Nat /\ c1 \in Nat
        /\ k2 \in Nat /\ s2 \in Nat /\ e2 \in Nat /\ c2 \in Nat
    BY <1>2, <1>3, <1>4, <1>5
  <2>2. QED
    BY <1>2, <1>3, <1>4, <1>5, <2>1, WeightedMonotone
<1>8. QED
  BY <1>6, <1>7

\* Of two resumes for one job with one similarity, the one that shows at least as much in
\* every respect has no lower score and no lower band.
THEOREM MoreEvidenceRanksHigher ==
  ASSUME NEW job \in Job, NEW a \in Resume(job), NEW b \in Resume(job), NEW s \in Int, Shows(a, b)
  PROVE  /\ Scored(job, a, s).overall >= Scored(job, b, s).overall
         /\ Rank(Scored(job, a, s).recommendation) >= Rank(Scored(job, b, s).recommendation)
<1> DEFINE oa == Overall(job, a, a.found, s)
           ob == Overall(job, b, b.found, s)
           ma == job.required - a.found.required
           mb == job.required - b.found.required
<1>1. /\ a.years \in Nat /\ a.sections \in 0..5 /\ a.found \in Skills(job)
      /\ b.years \in Nat /\ b.sections \in 0..5 /\ b.found \in Skills(job)
  BY DEF Resume
<1>2. /\ b.found.required <= a.found.required /\ b.found.preferred <= a.found.preferred
      /\ b.years <= a.years /\ b.sections <= a.sections
  <2>1. /\ a.found.required \in Int /\ b.found.required \in Int
        /\ a.found.preferred \in Int /\ b.found.preferred \in Int
    BY <1>1 DEF Job, Skills
  <2>2. QED
    BY <1>1, <2>1 DEF Shows
<1>3. ma \in Nat /\ mb \in Nat /\ ma <= mb
  BY <1>1, <1>2 DEF Job, Skills
<1>4. oa \in Int /\ ob \in Int /\ ob <= oa
  <2>1. oa \in 0..Full /\ ob \in 0..Full
    BY <1>1, ScoreIsOnScale
  <2>2. ob <= oa
    BY <1>1, <1>2, OverallMonotone
  <2>3. Full \in Nat
    BY DEF Full
  <2>4. QED
    BY <2>1, <2>2, <2>3
<1>5. /\ Scored(job, a, s) = [overall |-> oa, recommendation |-> Recommend(oa, ma)]
      /\ Scored(job, b, s) = [overall |-> ob, recommendation |-> Recommend(ob, mb)]
  BY DEF Scored
<1> HIDE DEF oa, ob, ma, mb
<1>6. Rank(Recommend(oa, ma)) >= Rank(Recommend(ob, mb))
  BY <1>3, <1>4, BandMonotone
<1>7. QED
  BY <1>4, <1>5, <1>6

LEMMA SignalAboveTolerance ==
  ASSUME NEW delta \in Nat
  PROVE  NameSignal(delta) <=> delta > Tolerance
BY DEF NameSignal, Tolerance

\* The name of a candidate can only raise a score: the difference that the fairness check
\* measures is never negative when the name hides no skill, and what is flagged is a
\* difference above the tolerance (measure_name_sensitivity).
THEOREM NameOnlyAdds ==
  ASSUME NEW job \in Job, NEW resume \in Resume(job), NEW s \in Int,
         resume.unnamed.required <= resume.found.required,
         resume.unnamed.preferred <= resume.found.preferred
  PROVE  /\ NameDelta(job, resume, s) \in 0..Full
         /\ NameSignal(NameDelta(job, resume, s)) <=> NameDelta(job, resume, s) > Tolerance
<1> DEFINE with == Overall(job, resume, resume.found, s)
           without == Overall(job, resume, resume.unnamed, s)
<1>1. resume.found \in Skills(job) /\ resume.unnamed \in Skills(job)
      /\ resume.years \in Nat /\ resume.sections \in 0..5
  BY DEF Resume
<1>2. with \in 0..Full /\ without \in 0..Full
  BY <1>1, ScoreIsOnScale
<1>3. without <= with
  BY <1>1, OverallMonotone
<1>4. NameDelta(job, resume, s) = with - without
  BY DEF NameDelta
<1> HIDE DEF with, without
<1>5. Full \in Nat
  BY DEF Full
<1>6. NameDelta(job, resume, s) \in 0..Full /\ NameDelta(job, resume, s) \in Nat
  BY <1>2, <1>3, <1>4, <1>5
<1>7. QED
  BY <1>6, SignalAboveTolerance

\* Quotients that differ by at most c units do so after rounding.
LEMMA RoundStep ==
  ASSUME NEW x \in Int, NEW y \in Int, NEW c \in Int, NEW d \in Nat, d > 0, y <= x + c * d
  PROVE  Round(y, d) <= Round(x, d) + c
<1>1. x + c * d \in Int
  OBVIOUS
<1>2. Round(y, d) <= Round(x + c * d, d)
  BY <1>1, RoundMonotone
<1>3. Round(x + c * d, d) = Round(x, d) + c
  BY RoundShift
<1>4. QED
  BY <1>2, <1>3

\* Points(l, ..) is at most eight points of the keyword score above Points(m, ..).
EightPoints(n, m, l, pn, pd) ==
  /\ Points(m, n, pn, pd) \in Int /\ Points(l, n, pn, pd) \in Int
  /\ Points(l, n, pn, pd) <= Points(m, n, pn, pd) + 800 * (100 * n * pd)

LEMMA OneMorePoint ==
  ASSUME NEW n \in Nat, NEW m \in Nat, NEW l \in Nat, NEW pn \in Nat, NEW pd \in Nat,
         n >= 10, l = m + 1
  PROVE  EightPoints(n, m, l, pn, pd)
<1> DEFINE x == Points(m, n, pn, pd)
           y == Points(l, n, pn, pd)
<1>1. m * pd \in Int /\ pn * n \in Int /\ l * pd = m * pd + pd
  OBVIOUS
<1>2. /\ x = Full * (80 * (m * pd) + 20 * (pn * n))
      /\ y = Full * (80 * (l * pd) + 20 * (pn * n))
  BY PointsSum
<1>3. 10 * pd <= n * pd /\ n * pd \in Nat /\ 100 * n * pd = 100 * (n * pd)
  BY ProductMonotone
<1> HIDE DEF x, y
<1>4. y = x + 800000 * pd /\ x \in Int
  BY <1>1, <1>2 DEF Full
<1>5. x \in Int /\ y \in Int /\ y <= x + 800 * (100 * n * pd)
  BY <1>3, <1>4
<1>6. QED
  BY <1>5 DEF EightPoints, x, y

\* One required skill of ten or more is worth at most eight points of the keyword score.
LEMMA OneSkillOfTen ==
  ASSUME NEW job \in Job, NEW f \in Skills(job), NEW g \in Skills(job),
         job.required >= 10, g.required = f.required + 1, g.preferred = f.preferred
  PROVE  Keyword(job, g) <= Keyword(job, f) + 800
<1> DEFINE p == Ratio(f.preferred, job.preferred)
           d == 100 * job.required * p.den
           x == Points(f.required, job.required, p.num, p.den)
           y == Points(g.required, job.required, p.num, p.den)
<1>1. /\ job.preferred \in Nat /\ f.preferred \in 0..job.preferred
      /\ job.required \in Nat /\ f.required \in Nat /\ g.required \in Nat
  BY DEF Job, Skills
<1>2. p.num \in Nat /\ p.den \in Nat /\ p.den > 0
  BY <1>1, RatioBounds
<1>3. /\ Ratio(f.required, job.required) = [num |-> f.required, den |-> job.required]
      /\ Ratio(g.required, job.required) = [num |-> g.required, den |-> job.required]
  BY <1>1 DEF Ratio
<1>4. Keyword(job, f) = Round(x, d) /\ Keyword(job, g) = Round(y, d)
  BY <1>3 DEF Keyword, Points
<1> HIDE DEF p
<1>5. d \in Nat /\ d > 0
  <2>1. job.required > 0
    BY <1>1
  <2>2. QED
    BY <1>1, <1>2, <2>1, DenominatorPositive
<1>6. x \in Int /\ y \in Int /\ y <= x + 800 * d
  <2>1. EightPoints(job.required, f.required, g.required, p.num, p.den)
    BY <1>1, <1>2, OneMorePoint
  <2>2. QED
    BY <2>1 DEF EightPoints
<1> HIDE DEF d, x, y
<1>7. QED
  BY <1>4, <1>5, <1>6, RoundStep

\* The tolerance lets a name decide.  For every job with ten required skills or more, when
\* the similarity is known and the name of the candidate is the only evidence of one
\* required skill, the difference is at most 3.6 points and is not flagged; yet without
\* the name the resume is no strong match, whatever it scores (recommend wants every
\* required skill).
THEOREM NameDecidesBelowTolerance ==
  ASSUME NEW job \in Job, NEW resume \in Resume(job), NEW s \in Int, s > 0,
         job.required >= 10,
         resume.found.required = resume.unnamed.required + 1,
         resume.found.preferred = resume.unnamed.preferred
  PROVE  /\ NameDelta(job, resume, s) \in 0..360
         /\ ~NameSignal(NameDelta(job, resume, s))
         /\ Recommend(Overall(job, resume, resume.unnamed, s),
                      job.required - resume.unnamed.required) # "STRONG_MATCH"
<1> DEFINE k == Keyword(job, resume.unnamed)  l == Keyword(job, resume.found)
           t == Clamp(s)
           e == Experience(job, resume.years)
           c == Completeness(resume.sections)
<1>1. /\ resume.found \in Skills(job) /\ resume.unnamed \in Skills(job)
      /\ resume.years \in Nat /\ resume.sections \in 0..5
  BY DEF Resume
<1>2. /\ job.required \in Nat /\ resume.found.required \in 0..job.required
      /\ resume.unnamed.required \in Nat /\ resume.unnamed.preferred \in Nat
  BY <1>1 DEF Job, Skills
<1>3. /\ k \in 0..Full /\ l \in 0..Full /\ l <= k + 800
      /\ e \in 0..Full /\ c \in 0..Full /\ t \in 0..Full
  <2>1. t \in 0..Full
    BY ClampBounds
  <2>2. l <= k + 800
    BY <1>1, OneSkillOfTen
  <2>3. QED
    BY <1>1, <2>1, <2>2, KeywordBounds, ExperienceBounds, CompletenessBounds
<1>4. /\ Overall(job, resume, resume.found, s) = Round(Weighted(l, t, e, c), 100)
      /\ Overall(job, resume, resume.unnamed, s) = Round(Weighted(k, t, e, c), 100)
  BY OverallIsWeighted DEF SemanticOrKeyword
<1>5. NameDelta(job, resume, s) \in 0..Full
  BY <1>2, NameOnlyAdds
<1> HIDE DEF k, l, t, e, c
<1>6. /\ Round(Weighted(l, t, e, c), 100) \in 0..Full
      /\ Round(Weighted(k, t, e, c), 100) \in 0..Full
      /\ Round(Weighted(l, t, e, c), 100) <= Round(Weighted(k, t, e, c), 100) + 360
  <2>1. Weighted(l, t, e, c) \in Int /\ Weighted(k, t, e, c) \in Int
    BY <1>3, WeightedBounds
  <2>2. Weighted(l, t, e, c) <= Weighted(k, t, e, c) + 360 * 100
    BY <1>3 DEF Weighted, Full
  <2>3. QED
    BY <1>3, <2>1, <2>2, WeightedBounds, RoundStep
<1>7. NameDelta(job, resume, s) \in 0..360
  <2>1. Full \in Nat
    BY DEF Full
  <2>2. \A a, b \in 0..Full : a <= b + 360 => a - b <= 360
    BY <2>1
  <2>3. NameDelta(job, resume, s) <= 360
    BY <1>4, <1>6, <2>2 DEF NameDelta
  <2>4. QED
    BY <1>5, <2>1, <2>3
<1>8. ~NameSignal(NameDelta(job, resume, s))
  BY <1>7 DEF NameSignal, Tolerance
<1>9. job.required - resume.unnamed.required >= 1
  BY <1>2
<1>10. Recommend(Overall(job, resume, resume.unnamed, s),
                 job.required - resume.unnamed.required) # "STRONG_MATCH"
  BY <1>2, <1>9 DEF Recommend
<1>11. QED
  BY <1>7, <1>8, <1>10
=============================================================================
