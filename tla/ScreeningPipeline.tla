-------------------------- MODULE ScreeningPipeline --------------------------
(***************************************************************************)
(* One run of the screening pipeline: run_pipeline (backend/app/agents/    *)
(* graph.py) over its six nodes, and the chain of LLM providers the        *)
(* feedback node walks (agents/llm_router.py).                             *)
(*                                                                         *)
(* The run is sequential; what it cannot decide is modelled as a choice:   *)
(* the job and the resume, the similarity the embedding model finds, which *)
(* providers are configured, what each call to a provider returns, and     *)
(* whether a node raises.                                                  *)
(*                                                                         *)
(* Three slips make every run fail at this commit, and each is a name in   *)
(* Repaired when it is taken as corrected:                                 *)
(*   "outcome"   NodeOutcome has no field details (graph.py:91, 106);      *)
(*   "redaction" redact_resume and its node name attributes that do not    *)
(*               exist (redaction_node.py:36, pii_redaction.py:244, 335);  *)
(*   "prompt"    ATSResult has no skill_score (feedback_node.py:111).      *)
(***************************************************************************)
EXTENDS AtsEngine, Sequences, SequencesExt

CONSTANTS
  Cases,        \* a job, a resume, and whether it can be scored without the name
  Similarities, \* scores the embedding model may find, in hundredths
  Chain,        \* settings.provider_chain, de-duplicated
  Registered,   \* the providers the router has
  MayFail,      \* the nodes that may raise an exception of their own
  Repaired,     \* slips taken as corrected
  None          \* no value

MaxAttempts == 2   \* MAX_ATTEMPTS_PER_PROVIDER

\* A resume without text shows nothing; a name hides no skill.  The scorer is a function
\* of its arguments: on the text that it has scored it does not raise later, on the text
\* without the name it may.
ASSUME CasesAssumption ==
  \A c \in Cases :
    /\ c.job \in Job /\ c.resume \in Resume(c.job) /\ c.rescored \in BOOLEAN
    /\ c.resume.unnamed.required <= c.resume.found.required
    /\ c.resume.unnamed.preferred <= c.resume.found.preferred
    /\ ~c.resume.text => /\ c.resume.found = [required |-> 0, preferred |-> 0]
                         /\ c.resume.years = 0 /\ c.resume.sections = 0
ASSUME SimilaritiesAssumption == Similarities \subseteq Int
ASSUME RepairedAssumption == Repaired \subseteq {"outcome", "redaction", "prompt"}
ASSUME ChainAssumption == Chain \in Seq(STRING) /\ IsInjective(Chain)
\* No value is none of those that may be missing.
ASSUME NoneAssumption ==
  None \notin BOOLEAN \cup [overall : 0..Full, recommendation : Bands]

VARIABLES
  input,        \* the job and the resume of this run
  configured,   \* the providers that are configured
  pos,          \* index of the next node
  outcomes,     \* state.outcomes: <<node, succeeded>>
  redacted,     \* the redaction node has filled the text views
  semantic,     \* state.semantic_score
  ats,          \* state.ats
  explanation,  \* state.explanation: "", "rules", "model" or "template"
  cites,        \* the explanation mentions a protected attribute
  provider,     \* state.provider
  bias,         \* state.bias.review_required, or None
  at,           \* index of the provider in the chain; 0 outside the router
  tries,        \* calls to this provider that failed and are retried
  attempts,     \* <<provider, succeeded>>
  calls,        \* history: calls to each provider
  result        \* "running", "done", "PipelineError", or "crashed": any other exception

inputs == <<input, configured>>
state  == <<redacted, semantic, ats, explanation, cites, provider, bias>>
router == <<at, tries, attempts, calls>>
vars   == <<inputs, pos, outcomes, state, router, result>>

-----------------------------------------------------------------------------
\* Fault: the fairness check runs before the explanation is written.
BiasBeforeFeedback == <<"parser", "redaction", "matcher", "scorer", "bias_check", "feedback">>

Pipeline == <<"parser", "redaction", "matcher", "scorer", "feedback", "bias_check">>

\* Fault: redaction is advisory.
CriticalButRedaction == {"parser", "scorer"}

Critical  == {"parser", "redaction", "scorer"}
NeedsText == {"matcher", "feedback"}

Init ==
  /\ input \in Cases
  /\ configured \in SUBSET Registered
  /\ pos = 1 /\ outcomes = <<>>
  /\ redacted = FALSE /\ semantic = 0 /\ ats = None
  /\ explanation = "" /\ cites = FALSE /\ provider = "deterministic" /\ bias = None
  /\ at = 0 /\ tries = 0 /\ attempts = <<>>
  /\ calls = [p \in Registered |-> 0]
  /\ result = "running"

\* The node that runs; between the calls to providers it is still feedback.
Current == Pipeline[pos]

Available == configured \cap ToSet(Chain)

\* The nodes that one of the slips makes raise.
Broken == {n \in {"redaction"} : "redaction" \notin Repaired}
    \cup {n \in {"feedback"} : "prompt" \notin Repaired /\ Available # {}}

Runs(node) ==
  /\ result = "running" /\ pos <= Len(Pipeline) /\ Current = node
  /\ at = 0
  /\ node \in NeedsText => input.resume.text

Record(ok) == outcomes' = Append(outcomes, <<Current, ok>>)

\* A node returned normally.
Succeed == Record(TRUE) /\ pos' = pos + 1 /\ UNCHANGED result

\* Fault: an advisory node that failed is run again.
RaiseAndRetry ==
  /\ at' = 0
  /\ IF "outcome" \notin Repaired
       THEN result' = "crashed" /\ UNCHANGED <<outcomes, pos>>
       ELSE IF Current \in Critical
         THEN Record(FALSE) /\ result' = "PipelineError" /\ UNCHANGED pos
         ELSE UNCHANGED <<outcomes, pos, result>>

\* A node raised.  Recording it raises again when NodeOutcome has no details.
Raise ==
  /\ at' = 0
  /\ IF "outcome" \notin Repaired
       THEN /\ result' = "crashed"
            /\ UNCHANGED <<outcomes, pos>>
       ELSE /\ Record(FALSE)
            /\ IF Current \in Critical
                 THEN result' = "PipelineError" /\ UNCHANGED pos
                 ELSE pos' = pos + 1 /\ UNCHANGED result

\* Fault: a skipped node leaves no outcome.
SkipSilently ==
  /\ result = "running" /\ pos <= Len(Pipeline)
  /\ Current \in NeedsText /\ ~input.resume.text
  /\ pos' = pos + 1
  /\ UNCHANGED <<inputs, outcomes, state, router, result>>

\* should_run is false: the resume has no text.
Skip ==
  /\ result = "running" /\ pos <= Len(Pipeline)
  /\ Current \in NeedsText /\ ~input.resume.text
  /\ IF "outcome" \in Repaired
       THEN Succeed
       ELSE result' = "crashed" /\ UNCHANGED <<outcomes, pos>>
  /\ UNCHANGED <<inputs, state, router>>

\* A node raises; the router is left if the run was in it.
NodeFails ==
  /\ result = "running" /\ pos <= Len(Pipeline)
  /\ Current \in MayFail \cup Broken
  /\ Current \in NeedsText => input.resume.text
  /\ Raise
  /\ UNCHANGED <<inputs, state, tries, attempts, calls>>

-----------------------------------------------------------------------------
(* The nodes. *)

Parse ==
  /\ Runs("parser")
  /\ Succeed
  /\ UNCHANGED <<inputs, state, router>>

Redact ==
  /\ Runs("redaction")
  /\ "redaction" \in Repaired
  /\ redacted' = TRUE
  /\ Succeed
  /\ UNCHANGED <<inputs, semantic, ats, explanation, cites, provider, bias, router>>

\* Embeddings disabled or unavailable, or no description: 0 and no exception.
Match ==
  /\ Runs("matcher")
  /\ semantic' \in Similarities \cup {0}
  /\ Succeed
  /\ UNCHANGED <<inputs, redacted, ats, explanation, cites, provider, bias, router>>

Score ==
  /\ Runs("scorer")
  /\ ats' = Scored(input.job, input.resume, semantic)
  /\ Succeed
  /\ UNCHANGED <<inputs, redacted, semantic, explanation, cites, provider, bias, router>>

\* The explanation of the rules names skills of the job, and a skill may read
\* like a protected attribute ("single sign-on").
RulesCite == {FALSE, input.job.required > 0}

\* _apply_deterministic, as the end of the feedback node.
ByRules ==
  /\ provider' = "deterministic"
  /\ explanation' = "rules"
  /\ cites' \in RulesCite
  /\ at' = 0
  /\ Succeed
  /\ UNCHANGED <<inputs, redacted, semantic, ats, bias, tries, attempts, calls>>

FeedbackByRules ==
  /\ Runs("feedback")
  /\ Available = {}
  /\ ByRules

\* _build_prompt, then generate_json starts with the first of the chain.
FeedbackAsks ==
  /\ Runs("feedback")
  /\ Available # {} /\ "prompt" \in Repaired
  /\ at' = 1 /\ tries' = 0
  /\ UNCHANGED <<inputs, pos, outcomes, state, attempts, calls, result>>

\* state.bias.name_sensitivity_delta.
NameMoved == NameSensitivity(input.job, input.resume, semantic, input.rescored)

\* Fault: the check does not read the explanation.
CheckBiasOfScore ==
  /\ Runs("bias_check")
  /\ bias' = NameSignal(NameMoved)
  /\ Succeed
  /\ UNCHANGED <<inputs, redacted, semantic, ats, explanation, cites, provider, router>>

\* Score the text without the name, scan the explanation, decide.  A comparison that
\* failed counts as one without a difference.
CheckBias ==
  /\ Runs("bias_check")
  /\ bias' = (NameSignal(NameMoved) \/ cites)
  /\ Succeed
  /\ UNCHANGED <<inputs, redacted, semantic, ats, explanation, cites, provider, router>>

-----------------------------------------------------------------------------
(* LLMRouter.generate_json and _attempt_provider. *)

InRouter == result = "running" /\ at > 0

GiveUp ==
  /\ attempts' = Append(attempts, <<Chain[at], FALSE>>)
  /\ at' = at + 1
  /\ tries' = 0

SkipProvider ==
  /\ InRouter /\ at <= Len(Chain)
  /\ Chain[at] \notin configured
  /\ GiveUp
  /\ UNCHANGED <<inputs, pos, outcomes, state, calls, result>>

Call ==
  /\ InRouter /\ at <= Len(Chain)
  /\ Chain[at] \in configured
  /\ calls' = [calls EXCEPT ![Chain[at]] = @ + 1]

\* Fault: the refusal of a provider leaves no attempt.
CallRefusedSilently ==
  /\ Call
  /\ at' = at + 1 /\ tries' = 0
  /\ UNCHANGED <<inputs, pos, outcomes, state, attempts, result>>

\* A configuration error, or an exception of another kind: not retried.
CallRefused ==
  /\ Call
  /\ GiveUp
  /\ UNCHANGED <<inputs, pos, outcomes, state, result>>

\* Fault: one retry more than MAX_ATTEMPTS_PER_PROVIDER allows.
CallFailedOnceMore ==
  /\ Call
  /\ IF tries = MaxAttempts
       THEN GiveUp
       ELSE tries' = tries + 1 /\ UNCHANGED <<attempts, at>>
  /\ UNCHANGED <<inputs, pos, outcomes, state, result>>

\* A transient error or an empty answer: retried until the attempts are used up.
CallFailed ==
  /\ Call
  /\ IF tries + 1 = MaxAttempts
       THEN GiveUp
       ELSE tries' = tries + 1 /\ UNCHANGED <<attempts, at>>
  /\ UNCHANGED <<inputs, pos, outcomes, state, result>>

\* An answer.  Without a usable explanation in its JSON the rules write one, but
\* the provider stays credited (_apply_llm_response).
CallAnswered ==
  /\ Call
  /\ attempts' = Append(attempts, <<Chain[at], TRUE>>)
  /\ provider' = Chain[at]
  /\ \/ explanation' = "model" /\ cites' \in BOOLEAN
     \/ explanation' = "rules" /\ cites' \in RulesCite
  /\ at' = 0 /\ tries' = 0
  /\ Succeed
  /\ UNCHANGED <<inputs, redacted, semantic, ats, bias>>

\* AllProvidersFailed.
Exhausted ==
  /\ InRouter /\ at > Len(Chain)
  /\ ByRules

-----------------------------------------------------------------------------
\* Fault: the run ends without the fallback explanation.
FinishUnexplained ==
  /\ result = "running" /\ pos > Len(Pipeline)
  /\ result' = IF ats = None THEN "PipelineError" ELSE "done"
  /\ UNCHANGED <<inputs, pos, outcomes, state, router>>

\* The end of run_pipeline: a score is required, an explanation supplied.
Finish ==
  /\ result = "running" /\ pos > Len(Pipeline)
  /\ result' = IF ats = None THEN "PipelineError" ELSE "done"
  /\ explanation' = IF explanation = "" THEN "template" ELSE explanation
  /\ UNCHANGED <<inputs, pos, outcomes, redacted, semantic, ats, cites, provider, bias, router>>

Next ==
  \/ Skip \/ NodeFails
  \/ Parse \/ Redact \/ Match \/ Score \/ CheckBias
  \/ FeedbackByRules \/ FeedbackAsks
  \/ SkipProvider \/ CallRefused \/ CallFailed \/ CallAnswered \/ Exhausted
  \/ Finish

Spec == Init /\ [][Next]_vars

\* The thread that screens keeps running, and every call of a provider returns
\* or times out.
FairSpec == Spec /\ WF_vars(Next)

-----------------------------------------------------------------------------
(* Properties. *)

\* Types of the state.
TypeOK ==
  /\ input \in Cases /\ configured \subseteq Registered
  /\ pos \in 1..(Len(Pipeline) + 1)
  /\ outcomes \in Seq(ToSet(Pipeline) \X BOOLEAN)
  /\ redacted \in BOOLEAN /\ cites \in BOOLEAN
  /\ semantic \in Similarities \cup {0}
  /\ ats \in [overall : 0..Full, recommendation : Bands] \cup {None}
  /\ explanation \in {"", "rules", "model", "template"}
  /\ provider \in Registered \cup {"deterministic"}
  /\ bias \in BOOLEAN \cup {None}
  /\ at \in 0..(Len(Chain) + 1) /\ tries \in 0..(MaxAttempts - 1)
  /\ attempts \in Seq(ToSet(Chain) \X BOOLEAN)
  /\ calls \in [Registered -> Nat]
  /\ result \in {"running", "done", "PipelineError", "crashed"}

Nodes(run) == [i \in DOMAIN run |-> run[i][1]]

\* Whatever fails on the way, a run that ends well has an outcome for every node,
\* in order, none of its critical nodes failed, and it explains its score
\* (graph.py:83-143: an advisory failure reduces the result, never its record).
ShippedRunIsComplete ==
  result = "done" =>
    /\ Nodes(outcomes) = Pipeline
    /\ \A i \in DOMAIN outcomes : outcomes[i][1] \in Critical => outcomes[i][2]
    /\ ats # None /\ explanation # ""

\* Nothing reads the resume before it is redacted: no score, no call to a
\* provider and no verdict on fairness exists in a run whose redaction has not
\* succeeded (the PII boundary of redaction_node.py:1-7).
NothingBeforeRedaction ==
  ats # None \/ bias # None \/ (\E p \in Registered : calls[p] > 0) => redacted

\* A decision that the fairness check clears is clean as it is shipped: its final
\* explanation cites no protected attribute, and the name of the candidate did not
\* move its final score by more than the tolerance, unless the text without the name
\* could not be scored (bias_check.py:98-101; bias_check_node.py:11-12 has the check
\* run after everything that it judges).
ClearedDecisionIsClean ==
  result = "done" /\ bias = FALSE =>
    /\ ~cites
    /\ input.rescored => NameDelta(input.job, input.resume, semantic) \in -Tolerance..Tolerance

\* The attempts of a run are a prefix of the chain, and the provider that is
\* credited is the last of them and the only one that succeeded: a later provider
\* answers only if every earlier one was tried or found unconfigured and gave up.
\* None is called more often than its retries allow (llm_router.py:305-417).
ChainIsWalkedInOrder ==
  /\ Nodes(attempts) = SubSeq(Chain, 1, Len(attempts))
  /\ \A i \in DOMAIN attempts : attempts[i][2] =>
       i = Len(attempts) /\ provider = attempts[i][1]
  /\ provider # "deterministic" => attempts # <<>> /\ Last(attempts)[2]
  /\ \A p \in Registered : calls[p] <= MaxAttempts /\ (calls[p] > 0 => p \in Available)

\* The score keeps its scale when the similarity is missing: it stays within 0 and
\* 100, and a resume that shows everything the job asks for gets 100 without an
\* embedding model as with a perfect similarity (calculate_ats, ats_engine.py:270-275).
ScoreKeepsItsScale ==
  ats # None =>
    /\ ats.overall \in 0..Full
    /\ /\ input.resume.found = [required |-> input.job.required, preferred |-> input.job.preferred]
       /\ input.resume.years >= input.job.minYears
       /\ input.resume.sections = 5
       /\ semantic \in {0, Full}
       => ats.overall = Full

\* The order of candidates for a job follows the evidence: of two resumes with the
\* same similarity, the one that shows at least as much in every respect has no
\* lower score and no lower band, and no resume that lacks a required skill is a
\* strong match (recommend, ats_engine.py:346-357).
RankingFollowsTheEvidence ==
  ats # None =>
    /\ \A c \in Cases : c.job = input.job /\ Shows(c.resume, input.resume) =>
         LET better == Scored(c.job, c.resume, semantic) IN
         /\ better.overall >= ats.overall
         /\ Rank(better.recommendation) >= Rank(ats.recommendation)
    /\ ats.recommendation = "STRONG_MATCH" => input.resume.found.required = input.job.required

\* Every run ends, whatever the nodes and the providers do.
RunEnds == <>(result # "running")

\* docs/SECURITY.md:182-183: "Any delta escalates for human review."  Of the
\* deltas, one that was measured and changes the recommendation band.
NameNeverDecidesUnreviewed ==
  result = "done" /\ bias = FALSE /\ input.rescored =>
    ats.recommendation =
      Recommend(Overall(input.job, input.resume, input.resume.unnamed, semantic),
                input.job.required - input.resume.unnamed.required)
=============================================================================
