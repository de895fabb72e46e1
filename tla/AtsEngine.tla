------------------------------ MODULE AtsEngine ------------------------------
(***************************************************************************)
(* The deterministic scorer (backend/app/services/ats_engine.py) and the   *)
(* fairness counterfactual over it (services/bias_check.py).               *)
(*                                                                         *)
(* Scores are integers in hundredths of a point, 0 to 10000.  The code     *)
(* computes in floats and rounds to two decimals; here the exact quotient  *)
(* is rounded to the nearest hundredth.  A resume is what the regular      *)
(* expressions find in it: how many of the job's skills, with the name of  *)
(* the candidate in the text (found) and without it (unnamed), how many    *)
(* years, and how many of the five canonical sections.                     *)
(***************************************************************************)
EXTENDS Integers

Full == 10000

\* What a job asks for: numbers of skills and of years.
Job == [required : Nat, preferred : Nat, minYears : Nat]

\* Skills of this job; what a resume for it may show.
Skills(job) == [required : 0..job.required, preferred : 0..job.preferred]
Resume(job) == [text : BOOLEAN, found : Skills(job), unnamed : Skills(job),
                years : Nat, sections : 0..5]

\* Half up; Python's round takes the even neighbour at an exact half.
Round(x, d) == (2 * x + d) \div (2 * d)

Clamp(x) == IF x < 0 THEN 0 ELSE IF x > Full THEN Full ELSE x

\* m of n skills, as a fraction; a job that lists none asks for none.
Ratio(m, n) == IF n = 0 THEN [num |-> 1, den |-> 1] ELSE [num |-> m, den |-> n]

\* 80 points for the required skills and 20 for the preferred ones.
Keyword(job, found) ==
  LET r == Ratio(found.required, job.required)
      p == Ratio(found.preferred, job.preferred)
  IN  Round(Full * (80 * r.num * p.den + 20 * p.num * r.den), 100 * r.den * p.den)

\* Fault: a semantic score that is missing counts as zero.
SemanticOrZero(semantic, keyword) == Clamp(semantic)

\* A semantic score of 0 means that there is none: the keyword score stands in.
SemanticOrKeyword(semantic, keyword) == IF semantic > 0 THEN Clamp(semantic) ELSE keyword

\* Fault: the ratio of the years is upside down.
ExperienceInverted(job, years) ==
  IF years = 0 THEN 0 ELSE Clamp(Round(job.minYears * Full, years))

Experience(job, years) ==
  IF job.minYears = 0 THEN Full ELSE Clamp(Round(years * Full, job.minYears))

Completeness(sections) == Clamp(Round(sections * Full, 5))

\* The overall score of a resume in which these skills are found.
Overall(job, resume, found, semantic) ==
  LET keyword == Keyword(job, found) IN
  Round(  45 * keyword
        + 25 * SemanticOrKeyword(semantic, keyword)
        + 20 * Experience(job, resume.years)
        + 10 * Completeness(resume.sections), 100)

\* Fault: the band looks at the score alone.
RecommendByScore(overall, missing) ==
  IF overall >= 8000 THEN "STRONG_MATCH"
  ELSE IF overall >= 6500 THEN "REVIEW" ELSE "LOW_MATCH"

Recommend(overall, missing) ==
  IF overall >= 8000 /\ missing = 0 THEN "STRONG_MATCH"
  ELSE IF overall >= 6500 THEN "REVIEW" ELSE "LOW_MATCH"

\* calculate_ats on the text as it is.
Scored(job, resume, semantic) ==
  LET overall == Overall(job, resume, resume.found, semantic)
  IN  [overall        |-> overall,
       recommendation |-> Recommend(overall, job.required - resume.found.required)]

Tolerance == 400  \* NAME_SENSITIVITY_TOLERANCE

\* The score with the name less the score without it.
NameDelta(job, resume, semantic) ==
    Overall(job, resume, resume.found, semantic)
  - Overall(job, resume, resume.unnamed, semantic)

\* measure_name_sensitivity: 0 as well if the scorer raises on the text without the name.
NameSensitivity(job, resume, semantic, rescored) ==
  IF rescored THEN NameDelta(job, resume, semantic) ELSE 0

NameSignal(delta) == delta > Tolerance \/ -delta > Tolerance

-----------------------------------------------------------------------------
(* What properties compare. *)

Bands == {"STRONG_MATCH", "REVIEW", "LOW_MATCH"}

\* a shows at least what b shows.
Shows(a, b) ==
  /\ a.found.required >= b.found.required /\ a.found.preferred >= b.found.preferred
  /\ a.years >= b.years /\ a.sections >= b.sections

Rank(band) == CASE band = "LOW_MATCH" -> 0 [] band = "REVIEW" -> 1 [] band = "STRONG_MATCH" -> 2
=============================================================================
