------------------------- MODULE MCScreeningPipeline -------------------------
(* Instances of ScreeningPipeline for TLC. *)
EXTENDS ScreeningPipeline

\* A job that asks for nothing, one with both kinds of skills and one with many.
Jobs == {[required |-> 0, preferred |-> 0, minYears |-> 0],
         [required |-> 2, preferred |-> 1, minYears |-> 2],
         [required |-> 10, preferred |-> 0, minYears |-> 0]}

Shown(job) == [required : {0, job.required, job.required - 1} \cap Nat,
               preferred : {0, job.preferred}]

Empty == [text |-> FALSE, found |-> [required |-> 0, preferred |-> 0],
          unnamed |-> [required |-> 0, preferred |-> 0], years |-> 0, sections |-> 0]

\* Resumes with text; the name of the candidate evidences at most one skill.
Resumes(job) ==
  {[text |-> TRUE, found |-> f, unnamed |-> u, years |-> y, sections |-> s] :
     f \in Shown(job), u \in Shown(job), y \in {1, 3}, s \in {0, 5}}

MCCases ==
  UNION {{[job |-> j, resume |-> r, rescored |-> b] :
            r \in {Empty} \cup
              {r \in Resumes(j) : /\ r.unnamed.preferred = r.found.preferred
                                  /\ r.found.required - r.unnamed.required \in 0..1},
            b \in BOOLEAN} : j \in Jobs}

\* AI_PROVIDER_ORDER may name a provider that the router does not have.
MCChain == <<"gemini", "unknown", "ollama">>
MCRegistered == {"gemini", "ollama"}
AllNodes == {"parser", "redaction", "matcher", "scorer", "feedback", "bias_check"}
=============================================================================
