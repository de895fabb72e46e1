----------------------- MODULE ScreeningPipelineProofs -----------------------
(***************************************************************************)
(* The safety properties of a screening run, for every job, resume, chain  *)
(* of providers and set of nodes that may fail, and whichever of the slips *)
(* are taken as corrected.                                                 *)
(***************************************************************************)
EXTENDS ScreeningPipeline, AtsEngineProofs

\* The types of the state, by what an action leaves alone together.
InputType == input \in Cases /\ configured \subseteq Registered
RunType ==
  /\ pos \in 1..7 /\ outcomes \in Seq(ToSet(Pipeline) \X BOOLEAN)
  /\ result \in {"running", "done", "PipelineError", "crashed"}
StateType ==
  /\ redacted \in BOOLEAN /\ cites \in BOOLEAN
  /\ semantic \in Similarities \cup {0}
  /\ ats \in [overall : 0..Full, recommendation : Bands] \cup {None}
  /\ explanation \in {"", "rules", "model", "template"}
  /\ provider \in Registered \cup {"deterministic"}
  /\ bias \in BOOLEAN \cup {None}
RouterType ==
  /\ at \in 0..(Len(Chain) + 1) /\ tries \in 0..(MaxAttempts - 1)
  /\ attempts \in Seq(ToSet(Chain) \X BOOLEAN)
  /\ calls \in [Registered -> Nat]

\* While the run goes on, and when it ends well, it has recorded one outcome for
\* every node it has passed, and no critical node of them failed.
OutcomesInv ==
  /\ result \in {"running", "done"} =>
       /\ Len(outcomes) = pos - 1
       /\ \A i \in 1..(pos - 1) :
            /\ outcomes[i][1] = Pipeline[i]
            /\ Pipeline[i] \in Critical => outcomes[i][2]
  /\ result = "done" => pos = 7 /\ ats # None /\ explanation # ""

\* What each node has written, by the position of the run: nothing before its
\* turn, and nothing that it was computed from changes afterwards.
DataInv ==
  /\ pos > 2 => redacted
  /\ ats # None => pos > 4 /\ ats = Scored(input.job, input.resume, semantic)
  /\ bias # None => pos > 6
  /\ bias = FALSE => /\ ~cites
                     /\ ~NameSignal(NameSensitivity(input.job, input.resume, semantic, input.rescored))

\* The router is entered once, from the feedback node of a resume with text, and has
\* called nobody before.
EntryInv ==
  /\ at > 0 => pos = 5 /\ input.resume.text
  /\ pos < 5 \/ (pos = 5 /\ at = 0 /\ result = "running") =>
       /\ attempts = <<>> /\ provider = "deterministic"
       /\ \A p \in Registered : calls[p] = 0

\* Inside the router every provider before the current one has given up, and the
\* calls that were made are those of the attempts and of the retries.
WalkInv ==
  at > 0 =>
    /\ provider = "deterministic"
    /\ Len(attempts) = at - 1
    /\ \A i \in 1..(at - 1) : attempts[i][2] = FALSE
    /\ \A i \in 1..Len(Chain) : Chain[i] \in Registered =>
         /\ i = at => calls[Chain[i]] = tries
         /\ i > at => calls[Chain[i]] = 0

\* The attempts follow the chain, and one that succeeded is the last and the credited.
CreditInv ==
  /\ Len(attempts) <= Len(Chain)
  /\ \A i \in 1..Len(attempts) :
       /\ attempts[i][1] = Chain[i]
       /\ attempts[i][2] => i = Len(attempts) /\ provider = attempts[i][1]
  /\ provider # "deterministic" => Len(attempts) > 0 /\ attempts[Len(attempts)][2]

CallsInv ==
  \A p \in Registered : calls[p] <= MaxAttempts /\ (calls[p] > 0 => p \in Available)

IInv ==
  /\ TypeOK
  /\ OutcomesInv /\ DataInv
  /\ EntryInv /\ WalkInv /\ CreditInv /\ CallsInv

-----------------------------------------------------------------------------
(* Facts about the pipeline and about a node that returns or raises. *)

LEMMA PipelineNodes ==
  /\ Pipeline \in Seq(ToSet(Pipeline)) /\ Len(Pipeline) = 6
  /\ \A i \in 1..6 : Pipeline[i] \in ToSet(Pipeline)
  /\ Pipeline[1] = "parser" /\ Pipeline[2] = "redaction" /\ Pipeline[3] = "matcher"
  /\ Pipeline[4] = "scorer" /\ Pipeline[5] = "feedback" /\ Pipeline[6] = "bias_check"
BY DEF Pipeline, ToSet

LEMMA Positions ==
  ASSUME NEW i \in 1..6
  PROVE  /\ Pipeline[i] = "parser" => i = 1
         /\ Pipeline[i] = "redaction" => i = 2
         /\ Pipeline[i] = "matcher" => i = 3
         /\ Pipeline[i] = "scorer" => i = 4
         /\ Pipeline[i] = "feedback" => i = 5
         /\ Pipeline[i] = "bias_check" => i = 6
<1>1. i = 1 \/ i = 2 \/ i = 3 \/ i = 4 \/ i = 5 \/ i = 6
  OBVIOUS
<1>2. QED
  BY <1>1, PipelineNodes

LEMMA TypeParts ==
  /\ TypeOK => InputType /\ RunType /\ StateType /\ RouterType
  /\ InputType' /\ RunType' /\ StateType' /\ RouterType' => TypeOK'
<1>1. Len(Pipeline) + 1 = 7
  BY PipelineNodes
<1>2. TypeOK => InputType /\ RunType /\ StateType /\ RouterType
  BY <1>1 DEF TypeOK, InputType, RunType, StateType, RouterType
<1>3. InputType' /\ RunType' /\ StateType' /\ RouterType' => TypeOK'
  BY <1>1 DEF TypeOK, InputType, RunType, StateType, RouterType
<1>4. QED
  BY <1>2, <1>3

LEMMA NoneIsNoValue ==
  /\ None \notin BOOLEAN /\ None # TRUE /\ None # FALSE
  /\ None \notin [overall : 0..Full, recommendation : Bands]
<1>1. None \notin BOOLEAN /\ None \notin [overall : 0..Full, recommendation : Bands]
  BY NoneAssumption
<1>2. QED
  BY <1>1

\* The run is at one of its nodes.
AtNode == result = "running" /\ pos \in 1..6 /\ outcomes \in Seq(ToSet(Pipeline) \X BOOLEAN)

\* An outcome is recorded and the run moves on, past a critical node only if it succeeded.
LEMMA MoveOn ==
  ASSUME AtNode, OutcomesInv, NEW ok \in BOOLEAN, Record(ok), Current \in Critical => ok,
         pos' = pos + 1, result' = result
  PROVE  /\ pos' \in 1..7 /\ outcomes' \in Seq(ToSet(Pipeline) \X BOOLEAN)
         /\ OutcomesInv'
<1>1. /\ result = "running" /\ pos \in 1..6 /\ outcomes \in Seq(ToSet(Pipeline) \X BOOLEAN)
      /\ Len(outcomes) = pos - 1
      /\ \A i \in 1..(pos - 1) :
           outcomes[i][1] = Pipeline[i] /\ (Pipeline[i] \in Critical => outcomes[i][2])
  BY DEF AtNode, OutcomesInv
<1> DEFINE entry == <<Pipeline[pos], ok>>
<1>2. entry \in ToSet(Pipeline) \X BOOLEAN /\ entry[1] = Pipeline[pos] /\ entry[2] = ok
  BY <1>1, PipelineNodes
<1>3. outcomes' = Append(outcomes, entry)
  BY DEF Record, Current
<1> HIDE DEF entry
<1>4. /\ outcomes' \in Seq(ToSet(Pipeline) \X BOOLEAN) /\ Len(outcomes') = pos
      /\ outcomes'[pos] = entry
      /\ \A i \in 1..(pos - 1) : outcomes'[i] = outcomes[i]
  BY <1>1, <1>2, <1>3
<1>5. \A i \in 1..pos :
        outcomes'[i][1] = Pipeline[i] /\ (Pipeline[i] \in Critical => outcomes'[i][2])
  <2>1. Pipeline[pos] \in Critical => ok
    BY DEF Current
  <2>2. TAKE i \in 1..pos
  <2>3. CASE i = pos
    BY <1>2, <1>4, <2>1, <2>3
  <2>4. CASE i # pos
    <3>1. i \in 1..(pos - 1)
      BY <1>1, <2>4
    <3>2. QED
      BY <1>1, <1>4, <3>1
  <2>5. QED
    BY <2>3, <2>4
<1>6. pos' \in 1..7 /\ pos' - 1 = pos /\ result' = "running"
  BY <1>1
<1>7. QED
  BY <1>4, <1>5, <1>6 DEF OutcomesInv

LEMMA SucceedMovesOn ==
  ASSUME AtNode, OutcomesInv, Succeed
  PROVE  /\ pos' = pos + 1 /\ pos' \in 1..7 /\ result' = "running"
         /\ outcomes' \in Seq(ToSet(Pipeline) \X BOOLEAN)
         /\ OutcomesInv'
<1>1. Record(TRUE) /\ pos' = pos + 1 /\ result' = result
  BY DEF Succeed
<1>2. QED
  BY <1>1, MoveOn DEF AtNode

\* A node that raises ends the run, or is advisory and passed with its failure recorded.
LEMMA RaiseEndsOrMovesOn ==
  ASSUME AtNode, OutcomesInv, Raise
  PROVE  /\ at' = 0 /\ outcomes' \in Seq(ToSet(Pipeline) \X BOOLEAN)
         /\ OutcomesInv'
         /\ \/ pos' = pos /\ result' \in {"PipelineError", "crashed"}
            \/ pos' = pos + 1 /\ result' = "running" /\ Current \notin Critical
<1>1. CASE "outcome" \notin Repaired
  BY <1>1 DEF Raise, AtNode, OutcomesInv
<1>2. CASE "outcome" \in Repaired /\ Current \in Critical
  <2>1. /\ at' = 0 /\ result' = "PipelineError" /\ pos' = pos
        /\ outcomes' = Append(outcomes, <<Pipeline[pos], FALSE>>)
    BY <1>2 DEF Raise, Record, Current
  <2>2. Pipeline[pos] \in ToSet(Pipeline) /\ outcomes \in Seq(ToSet(Pipeline) \X BOOLEAN)
    BY PipelineNodes DEF AtNode
  <2>3. <<Pipeline[pos], FALSE>> \in ToSet(Pipeline) \X BOOLEAN
    BY <2>2
  <2>4. outcomes' \in Seq(ToSet(Pipeline) \X BOOLEAN)
    BY <2>1, <2>2, <2>3
  <2>5. QED
    BY <2>1, <2>4 DEF OutcomesInv
<1>3. CASE "outcome" \in Repaired /\ Current \notin Critical
  <2>1. at' = 0 /\ Record(FALSE) /\ pos' = pos + 1 /\ result' = result
    BY <1>3 DEF Raise
  <2>2. QED
    BY <1>3, <2>1, MoveOn DEF AtNode
<1>4. QED
  BY <1>1, <1>2, <1>3

-----------------------------------------------------------------------------
(* The invariant holds at the start. *)

LEMMA InitInvariant == Init => IInv
<1> SUFFICES ASSUME Init
             PROVE  IInv
  OBVIOUS
<1>1. pos = 1 /\ result = "running" /\ outcomes = <<>>
  BY DEF Init
<1>2. at = 0 /\ tries = 0 /\ attempts = <<>> /\ provider = "deterministic"
  BY DEF Init
<1>3. calls = [p \in Registered |-> 0]
  BY DEF Init
<1>4. ats = None /\ bias = None /\ explanation = ""
  BY DEF Init
<1>5. Chain \in Seq(STRING) /\ Len(Chain) \in Nat
  BY ChainAssumption
<1>6. TypeOK
  <2>1. /\ pos \in 1..(Len(Pipeline) + 1) /\ outcomes \in Seq(ToSet(Pipeline) \X BOOLEAN)
        /\ result \in {"running", "done", "PipelineError", "crashed"}
    BY <1>1, PipelineNodes
  <2>2. /\ at \in 0..(Len(Chain) + 1) /\ tries \in 0..(MaxAttempts - 1)
        /\ attempts \in Seq(ToSet(Chain) \X BOOLEAN)
        /\ provider \in Registered \cup {"deterministic"}
    BY <1>2, <1>5 DEF MaxAttempts
  <2>3. calls \in [Registered -> Nat]
    BY <1>3
  <2>4. /\ input \in Cases /\ configured \subseteq Registered
        /\ redacted \in BOOLEAN /\ cites \in BOOLEAN /\ semantic \in Similarities \cup {0}
        /\ bias \in BOOLEAN \cup {None} /\ explanation \in {"", "rules", "model", "template"}
        /\ ats \in [overall : 0..Full, recommendation : Bands] \cup {None}
    BY DEF Init
  <2>5. QED
    BY <2>1, <2>2, <2>3, <2>4 DEF TypeOK
<1>7. OutcomesInv /\ DataInv /\ EntryInv /\ WalkInv /\ CreditInv /\ CallsInv
  <2>1. OutcomesInv
    BY <1>1 DEF OutcomesInv
  <2>2. bias # FALSE
    BY <1>4, NoneIsNoValue
  <2>3. DataInv
    <3>1. ~(pos > 2)
      BY <1>1
    <3>2. QED
      BY <1>4, <2>2, <3>1 DEF DataInv
  <2>4. EntryInv
    BY <1>1, <1>2, <1>3 DEF EntryInv
  <2>5. WalkInv
    BY <1>2 DEF WalkInv
  <2>6. CallsInv
    BY <1>3 DEF CallsInv, MaxAttempts
  <2>7. CreditInv
    BY <1>2, <1>5 DEF CreditInv
  <2>8. QED
    BY <2>1, <2>3, <2>4, <2>5, <2>6, <2>7
<1>8. QED
  BY <1>6, <1>7 DEF IInv

-----------------------------------------------------------------------------
(* The steps of the nodes. *)

\* A step of the run that starts or ends outside the router and calls nobody.
LEMMA RouterUntouched ==
  ASSUME IInv, at' = 0, UNCHANGED <<configured, attempts, calls, provider>>,
         pos' \in {pos, pos + 1},
         pos' = 5 /\ result' = "running" => pos < 5 \/ (pos = 5 /\ at = 0 /\ result = "running")
  PROVE  EntryInv' /\ WalkInv' /\ CreditInv' /\ CallsInv'
<1>1. pos \in Int
  BY TypeParts DEF IInv, RunType
<1>2. EntryInv'
  BY <1>1 DEF IInv, EntryInv
<1>3. WalkInv'
  BY DEF WalkInv
<1>4. CreditInv'
  BY DEF IInv, CreditInv
<1>5. CallsInv'
  BY DEF IInv, CallsInv, Available
<1>6. QED
  BY <1>2, <1>3, <1>4, <1>5

\* A node is entered with the run in progress.
LEMMA NodeEntered ==
  ASSUME IInv, result = "running", pos <= Len(Pipeline)
  PROVE  AtNode /\ OutcomesInv
<1>1. pos \in 1..7 /\ outcomes \in Seq(ToSet(Pipeline) \X BOOLEAN) /\ OutcomesInv
  BY TypeParts DEF IInv, RunType
<1>2. QED
  BY <1>1, PipelineNodes DEF AtNode

LEMMA RunsAt ==
  ASSUME IInv, NEW node \in ToSet(Pipeline), Runs(node)
  PROVE  /\ AtNode /\ OutcomesInv /\ at = 0
         /\ node = "parser" => pos = 1
         /\ node = "redaction" => pos = 2
         /\ node = "matcher" => pos = 3
         /\ node = "scorer" => pos = 4
         /\ node = "feedback" => pos = 5
         /\ node = "bias_check" => pos = 6
<1>1. result = "running" /\ pos <= Len(Pipeline) /\ Pipeline[pos] = node /\ at = 0
  BY DEF Runs, Current
<1>2. AtNode /\ OutcomesInv
  BY <1>1, NodeEntered
<1>3. pos \in 1..6
  BY <1>2 DEF AtNode
<1>4. QED
  BY <1>1, <1>2, <1>3, Positions

\* The job and the resume are of the kind the scorer takes, and so is the similarity.
LEMMA InputTypes ==
  ASSUME TypeOK
  PROVE  /\ input.job \in Job /\ input.resume \in Resume(input.job)
         /\ input.resume.found \in Skills(input.job) /\ input.resume.unnamed \in Skills(input.job)
         /\ semantic \in Int
<1>1. input.job \in Job /\ input.resume \in Resume(input.job)
  BY CasesAssumption DEF TypeOK
<1>2. semantic \in Similarities \cup {0}
  BY DEF TypeOK
<1>3. semantic \in Int
  BY <1>2, SimilaritiesAssumption
<1>4. QED
  BY <1>1, <1>3 DEF Resume

LEMMA ScoredType ==
  ASSUME TypeOK
  PROVE  Scored(input.job, input.resume, semantic) \in [overall : 0..Full, recommendation : Bands]
<1> DEFINE o == Overall(input.job, input.resume, input.resume.found, semantic)
           m == input.job.required - input.resume.found.required
<1>1. o \in 0..Full
  BY InputTypes, ScoreIsOnScale
<1>2. Recommend(o, m) \in Bands
  BY DEF Recommend, Bands
<1>3. QED
  BY <1>1, <1>2 DEF Scored

\* A step of a node outside the router: what is left is what the node writes.
LEMMA NodeStep ==
  ASSUME IInv, AtNode, at = 0, Succeed, UNCHANGED <<inputs, provider, router>>,
         StateType', DataInv'
  PROVE  IInv'
<1>1. /\ pos' = pos + 1 /\ pos' \in 1..7 /\ result' = "running"
      /\ outcomes' \in Seq(ToSet(Pipeline) \X BOOLEAN) /\ OutcomesInv'
  BY SucceedMovesOn DEF IInv
<1>2. UNCHANGED <<input, configured, provider, at, tries, attempts, calls>>
  BY DEF inputs, router
<1>3. RunType'
  BY <1>1 DEF RunType
<1>4. InputType' /\ RouterType'
  BY <1>2, TypeParts DEF IInv, InputType, RouterType
<1>5. EntryInv' /\ WalkInv' /\ CreditInv' /\ CallsInv'
  <2>1. pos \in Int /\ (pos' = 5 => pos < 5)
    BY <1>1 DEF AtNode
  <2>2. QED
    BY <1>1, <1>2, <2>1, RouterUntouched
<1>6. QED
  BY <1>1, <1>3, <1>4, <1>5, TypeParts DEF IInv

LEMMA ParseInvariant == ASSUME IInv, Parse PROVE IInv'
<1>1. /\ Runs("parser") /\ Succeed /\ UNCHANGED <<inputs, state, router>>
      /\ UNCHANGED <<input, redacted, semantic, ats, explanation, cites, provider, bias>>
  BY DEF Parse, inputs, state
<1>2. AtNode /\ at = 0 /\ pos = 1 /\ pos' = pos + 1
  BY <1>1, RunsAt, PipelineNodes, SucceedMovesOn
<1>3. StateType'
  BY <1>1, TypeParts DEF IInv, StateType
<1>4. DataInv'
  <2>1. ats = None /\ bias = None /\ ~(pos' > 2)
    BY <1>2 DEF IInv, DataInv
  <2>2. QED
    BY <1>1, <2>1, NoneIsNoValue DEF DataInv
<1>5. QED
  BY <1>1, <1>2, <1>3, <1>4, NodeStep

LEMMA RedactInvariant == ASSUME IInv, Redact PROVE IInv'
<1>1. /\ Runs("redaction") /\ Succeed /\ UNCHANGED <<inputs, provider, router>>
      /\ UNCHANGED <<input, semantic, ats, explanation, cites, bias>> /\ redacted' = TRUE
  BY DEF Redact, inputs
<1>2. AtNode /\ at = 0 /\ pos = 2 /\ pos' = pos + 1
  BY <1>1, RunsAt, PipelineNodes, SucceedMovesOn
<1>3. StateType'
  BY <1>1, TypeParts DEF IInv, StateType
<1>4. DataInv'
  <2>1. ats = None /\ bias = None
    BY <1>2 DEF IInv, DataInv
  <2>2. QED
    BY <1>1, <2>1, NoneIsNoValue DEF DataInv
<1>5. QED
  BY <1>1, <1>2, <1>3, <1>4, NodeStep

\* The similarity is found before anything is computed from it.
LEMMA MatchInvariant == ASSUME IInv, Match PROVE IInv'
<1>1. /\ Runs("matcher") /\ Succeed /\ UNCHANGED <<inputs, provider, router>>
      /\ UNCHANGED <<input, redacted, ats, explanation, cites, bias>>
      /\ semantic' \in Similarities \cup {0}
  BY DEF Match, inputs
<1>2. AtNode /\ at = 0 /\ pos = 3 /\ pos' = pos + 1
  BY <1>1, RunsAt, PipelineNodes, SucceedMovesOn
<1>3. StateType'
  BY <1>1, TypeParts DEF IInv, StateType
<1>4. DataInv'
  <2>1. ats = None /\ bias = None /\ redacted
    BY <1>2 DEF IInv, DataInv
  <2>2. QED
    BY <1>1, <2>1, NoneIsNoValue DEF DataInv
<1>5. QED
  BY <1>1, <1>2, <1>3, <1>4, NodeStep

LEMMA ScoreInvariant == ASSUME IInv, Score PROVE IInv'
<1>1. /\ Runs("scorer") /\ Succeed /\ UNCHANGED <<inputs, provider, router>>
      /\ UNCHANGED <<input, redacted, semantic, explanation, cites, bias>>
      /\ ats' = Scored(input.job, input.resume, semantic)
  BY DEF Score, inputs
<1>2. AtNode /\ at = 0 /\ pos = 4 /\ pos' = pos + 1
  BY <1>1, RunsAt, PipelineNodes, SucceedMovesOn
<1>3. StateType'
  <2>1. ats' \in [overall : 0..Full, recommendation : Bands]
    BY <1>1, ScoredType DEF IInv
  <2>2. QED
    BY <1>1, <2>1, TypeParts DEF IInv, StateType
<1>4. DataInv'
  <2>1. bias = None /\ redacted /\ pos' > 4
    BY <1>2 DEF IInv, DataInv
  <2>2. QED
    BY <1>1, <2>1, NoneIsNoValue DEF DataInv
<1>5. QED
  BY <1>1, <1>2, <1>3, <1>4, NodeStep

\* The verdict is computed when everything that it judges is final.
LEMMA CheckBiasInvariant == ASSUME IInv, CheckBias PROVE IInv'
<1>1. /\ Runs("bias_check") /\ Succeed /\ UNCHANGED <<inputs, provider, router>>
      /\ UNCHANGED <<input, redacted, semantic, ats, explanation, cites>>
      /\ bias' = (NameSignal(NameSensitivity(input.job, input.resume, semantic, input.rescored)) \/ cites)
  BY DEF CheckBias, NameMoved, inputs
<1>2. AtNode /\ at = 0 /\ pos = 6 /\ pos' = pos + 1
  BY <1>1, RunsAt, PipelineNodes, SucceedMovesOn
<1>3. StateType'
  <2>1. bias' \in BOOLEAN
    BY <1>1
  <2>2. QED
    BY <1>1, <2>1, TypeParts DEF IInv, StateType
<1>4. DataInv'
  <2>1. redacted /\ pos' > 4 /\ pos' > 6
    BY <1>2 DEF IInv, DataInv
  <2>2. bias' = FALSE => /\ ~cites
                         /\ ~NameSignal(NameSensitivity(input.job, input.resume, semantic, input.rescored))
    BY <1>1, Zenon
  <2>3. ats # None => ats = Scored(input.job, input.resume, semantic)
    BY DEF IInv, DataInv
  <2>4. QED
    BY <1>1, <2>1, <2>2, <2>3 DEF DataInv
<1>5. QED
  BY <1>1, <1>2, <1>3, <1>4, NodeStep

LEMMA RulesCiteType == RulesCite \subseteq BOOLEAN
BY DEF RulesCite

\* No provider is available: the rules explain the score.
LEMMA FeedbackByRulesInvariant == ASSUME IInv, FeedbackByRules PROVE IInv'
<1>1. /\ Runs("feedback") /\ Succeed /\ UNCHANGED <<inputs, tries, attempts, calls>>
      /\ UNCHANGED <<input, redacted, semantic, ats, bias>>
      /\ provider' = "deterministic" /\ explanation' = "rules" /\ cites' \in RulesCite /\ at' = 0
  BY DEF FeedbackByRules, ByRules, inputs
<1>2. AtNode /\ at = 0 /\ pos = 5 /\ pos' = pos + 1
  BY <1>1, RunsAt, PipelineNodes, SucceedMovesOn
<1>3. UNCHANGED <<inputs, provider, router>>
  <2>1. provider = "deterministic"
    BY <1>2 DEF IInv, EntryInv, AtNode
  <2>2. QED
    BY <1>1, <1>2, <2>1 DEF router
<1>4. StateType'
  BY <1>1, RulesCiteType, TypeParts DEF IInv, StateType
<1>5. DataInv'
  <2>1. bias = None /\ redacted /\ pos' > 4
    BY <1>2 DEF IInv, DataInv
  <2>2. ats # None => ats = Scored(input.job, input.resume, semantic)
    BY DEF IInv, DataInv
  <2>3. QED
    BY <1>1, <2>1, <2>2, NoneIsNoValue DEF DataInv
<1>6. QED
  BY <1>1, <1>2, <1>3, <1>4, <1>5, NodeStep

\* A node that is skipped leaves the state as it is; without its outcome the run crashes.
LEMMA SkipInvariant == ASSUME IInv, Skip PROVE IInv'
<1>1. /\ result = "running" /\ pos <= Len(Pipeline) /\ ~input.resume.text
      /\ UNCHANGED <<inputs, state, router>>
  BY DEF Skip
<1>2. /\ UNCHANGED <<input, configured, redacted, semantic, ats, explanation, cites,
                      provider, bias>>
      /\ UNCHANGED <<at, tries, attempts, calls>>
  BY <1>1 DEF inputs, state, router
<1>3. AtNode /\ at = 0
  <2>1. AtNode
    BY <1>1, NodeEntered
  <2>2. at \in Nat /\ ~(at > 0)
    BY <1>1, TypeParts DEF IInv, EntryInv, RouterType
  <2>3. QED
    BY <2>1, <2>2
<1>4. StateType'
  BY <1>2, TypeParts DEF IInv, StateType
<1>5. CASE "outcome" \in Repaired
  <2>1. Succeed
    BY <1>5 DEF Skip
  <2>2. Current \in NeedsText
    BY DEF Skip
  <2>3. pos \in 1..6 /\ pos # 2 /\ pos # 4 /\ pos' = pos + 1
    BY <1>3, <2>1, <2>2, PipelineNodes, SucceedMovesOn DEF AtNode, IInv, Current, NeedsText
  <2>4. DataInv'
    <3>1. /\ pos' > 2 => redacted
          /\ ats # None => pos' > 4 /\ ats = Scored(input.job, input.resume, semantic)
          /\ bias # None => pos' > 6
          /\ bias = FALSE => /\ ~cites
                             /\ ~NameSignal(NameSensitivity(input.job, input.resume, semantic, input.rescored))
      BY <2>3 DEF IInv, DataInv
    <3>2. QED
      BY <1>2, <3>1 DEF DataInv
  <2>5. QED
    BY <1>1, <1>2, <1>3, <1>4, <2>1, <2>4, NodeStep
<1>6. CASE "outcome" \notin Repaired
  <2>1. result' = "crashed" /\ UNCHANGED <<outcomes, pos>>
    BY <1>6 DEF Skip
  <2>2. RunType' /\ OutcomesInv' /\ DataInv'
    BY <1>2, <2>1, TypeParts DEF IInv, RunType, OutcomesInv, DataInv
  <2>3. InputType' /\ RouterType'
    BY <1>2, TypeParts DEF IInv, InputType, RouterType
  <2>4. EntryInv' /\ WalkInv' /\ CreditInv' /\ CallsInv'
    BY <1>2, <1>3, <2>1, RouterUntouched
  <2>5. QED
    BY <1>4, <2>2, <2>3, <2>4, TypeParts DEF IInv
<1>7. QED
  BY <1>5, <1>6

\* A node that raises, the feedback node between two calls to providers included.
LEMMA NodeFailsInvariant == ASSUME IInv, NodeFails PROVE IInv'
<1>1. /\ result = "running" /\ pos <= Len(Pipeline) /\ Raise
      /\ UNCHANGED <<inputs, state, tries, attempts, calls>>
  BY DEF NodeFails
<1>2. /\ UNCHANGED <<input, configured, redacted, semantic, ats, explanation, cites,
                      provider, bias>>
      /\ UNCHANGED <<tries, attempts, calls>>
  BY <1>1 DEF inputs, state
<1>3. AtNode /\ pos \in 1..6
  BY <1>1, NodeEntered DEF AtNode
<1>4. /\ at' = 0 /\ outcomes' \in Seq(ToSet(Pipeline) \X BOOLEAN)
      /\ OutcomesInv'
      /\ \/ pos' = pos /\ result' \in {"PipelineError", "crashed"}
         \/ pos' = pos + 1 /\ result' = "running" /\ Current \notin Critical
  BY <1>1, <1>3, RaiseEndsOrMovesOn DEF IInv
<1>5. pos' \in {pos, pos + 1} /\ pos' \in 1..7 /\ (pos' # pos => pos # 2 /\ pos # 4)
  BY <1>3, <1>4, PipelineNodes DEF Current, Critical
<1>6. RunType' /\ StateType' /\ InputType'
  BY <1>2, <1>4, <1>5, TypeParts DEF IInv, RunType, StateType, InputType
<1>7. RouterType'
  BY <1>2, <1>4, TypeParts, ChainAssumption DEF IInv, RouterType
<1>8. DataInv'
  <2>1. /\ pos' > 2 => redacted
        /\ ats # None => pos' > 4 /\ ats = Scored(input.job, input.resume, semantic)
        /\ bias # None => pos' > 6
        /\ bias = FALSE => /\ ~cites
                           /\ ~NameSignal(NameSensitivity(input.job, input.resume, semantic, input.rescored))
    BY <1>3, <1>5 DEF IInv, DataInv
  <2>2. QED
    BY <1>2, <2>1 DEF DataInv
<1>9. EntryInv' /\ WalkInv' /\ CreditInv' /\ CallsInv'
  <2>1. pos' = 5 /\ result' = "running" => pos < 5
    BY <1>3, <1>4
  <2>2. QED
    BY <1>2, <1>4, <1>5, <2>1, RouterUntouched
<1>10. QED
  BY <1>4, <1>6, <1>7, <1>8, <1>9, TypeParts DEF IInv

\* The end of the run changes its result and its explanation only.
LEMMA FinishInvariant == ASSUME IInv, Finish PROVE IInv'
<1>1. /\ result = "running" /\ pos > Len(Pipeline)
      /\ result' = IF ats = None THEN "PipelineError" ELSE "done"
      /\ explanation' = IF explanation = "" THEN "template" ELSE explanation
      /\ UNCHANGED <<input, configured, pos, outcomes, redacted, semantic, ats, cites,
                      provider, bias>>
      /\ UNCHANGED <<at, tries, attempts, calls>>
  BY DEF Finish, inputs, router
<1>2. pos = 7 /\ at = 0
  <2>1. pos \in 1..7 /\ at \in Nat
    BY TypeParts DEF IInv, RunType, RouterType
  <2>2. pos = 7
    <3>1. pos > 6
      BY <1>1, PipelineNodes
    <3>2. QED
      BY <2>1, <3>1
  <2>3. QED
    BY <2>1, <2>2 DEF IInv, EntryInv
<1>3. InputType' /\ RunType' /\ StateType' /\ RouterType'
  BY <1>1, TypeParts DEF IInv, InputType, RunType, StateType, RouterType
<1>4. OutcomesInv'
  BY <1>1, <1>2 DEF IInv, OutcomesInv
<1>5. DataInv'
  BY <1>1 DEF IInv, DataInv
<1>6. EntryInv' /\ WalkInv' /\ CreditInv' /\ CallsInv'
  BY <1>1, <1>2, RouterUntouched
<1>7. QED
  BY <1>3, <1>4, <1>5, <1>6, TypeParts DEF IInv

-----------------------------------------------------------------------------
(* The steps of the router. *)

\* What the invariant says of a run that is in the router.
LEMMA InRouterFacts ==
  ASSUME IInv, at > 0
  PROVE  /\ pos = 5 /\ input.resume.text /\ bias = None /\ redacted
         /\ at \in 1..(Len(Chain) + 1) /\ tries \in 0..1
         /\ provider = "deterministic" /\ Len(attempts) = at - 1
         /\ attempts \in Seq(ToSet(Chain) \X BOOLEAN)
         /\ \A i \in 1..(at - 1) : attempts[i][1] = Chain[i] /\ attempts[i][2] = FALSE
         /\ calls \in [Registered -> Nat]
<1>1. /\ at \in 0..(Len(Chain) + 1) /\ tries \in 0..1 /\ calls \in [Registered -> Nat]
      /\ attempts \in Seq(ToSet(Chain) \X BOOLEAN)
  BY TypeParts DEF IInv, RouterType, MaxAttempts
<1>2. pos = 5 /\ input.resume.text
  BY DEF IInv, EntryInv
<1>3. bias = None /\ redacted
  BY <1>2 DEF IInv, DataInv
<1>4. /\ provider = "deterministic" /\ Len(attempts) = at - 1
      /\ \A i \in 1..(at - 1) : attempts[i][2] = FALSE
  BY DEF IInv, WalkInv
<1>5. \A i \in 1..(at - 1) : attempts[i][1] = Chain[i]
  BY <1>4 DEF IInv, CreditInv
<1>6. at \in 1..(Len(Chain) + 1)
  BY <1>1
<1>7. QED
  BY <1>1, <1>2, <1>3, <1>4, <1>5, <1>6

\* The chain names providers one by one, each once.
LEMMA ChainFacts ==
  /\ Chain \in Seq(ToSet(Chain)) /\ Len(Chain) \in Nat
  /\ \A i \in 1..Len(Chain) : Chain[i] \in ToSet(Chain)
  /\ \A i, j \in 1..Len(Chain) : Chain[i] = Chain[j] => i = j
<1>1. Chain \in Seq(STRING) /\ IsInjective(Chain)
  BY ChainAssumption
<1>2. \A i \in 1..Len(Chain) : Chain[i] \in ToSet(Chain)
  BY <1>1 DEF ToSet
<1>3. \A i, j \in 1..Len(Chain) : Chain[i] = Chain[j] => i = j
  BY <1>1 DEF IsInjective
<1>4. Chain \in Seq(ToSet(Chain))
  BY <1>1, <1>2
<1>5. QED
  BY <1>1, <1>2, <1>3, <1>4

\* A step inside the router changes nothing but the router's own state.
LEMMA RouterStep ==
  ASSUME IInv, at > 0, UNCHANGED <<inputs, pos, outcomes, state, result>>, at' > 0,
         RouterType', WalkInv', CreditInv', CallsInv'
  PROVE  IInv'
<1>1. UNCHANGED <<input, configured, redacted, semantic, ats, explanation, cites, provider, bias>>
  BY DEF inputs, state
<1>2. pos' = 5 /\ input'.resume.text
  BY <1>1, InRouterFacts
<1>3. InputType' /\ RunType' /\ StateType'
  BY <1>1, TypeParts DEF IInv, InputType, RunType, StateType
<1>4. OutcomesInv' /\ DataInv'
  BY <1>1 DEF IInv, OutcomesInv, DataInv
<1>5. EntryInv'
  <2>1. at \in Nat /\ at' \in Nat
    BY TypeParts DEF IInv, RouterType
  <2>2. at' # 0 /\ ~(pos' < 5)
    BY <1>2, <2>1
  <2>3. QED
    BY <1>2, <2>2 DEF EntryInv
<1>6. QED
  BY <1>3, <1>4, <1>5, TypeParts DEF IInv

\* Giving up on a provider records a failed attempt and goes on to the next one.
LEMMA GiveUpWalksOn ==
  ASSUME IInv, at > 0, at <= Len(Chain), GiveUp, provider' = provider,
         \A i \in 1..Len(Chain) :
           Chain[i] \in Registered /\ i > at => calls'[Chain[i]] = calls[Chain[i]],
         calls' \in [Registered -> Nat]
  PROVE  RouterType' /\ WalkInv' /\ CreditInv' /\ at' > 0
<1> DEFINE entry == <<Chain[at], FALSE>>
<1>1. attempts' = Append(attempts, entry) /\ at' = at + 1 /\ tries' = 0
  BY DEF GiveUp
<1>2. /\ at \in 1..Len(Chain) /\ Len(attempts) = at - 1 /\ provider = "deterministic"
      /\ attempts \in Seq(ToSet(Chain) \X BOOLEAN)
      /\ \A i \in 1..(at - 1) : attempts[i][1] = Chain[i] /\ attempts[i][2] = FALSE
  <2>1. at \in 1..(Len(Chain) + 1) /\ Len(Chain) \in Nat
    BY InRouterFacts, ChainFacts
  <2>2. at \in 1..Len(Chain)
    BY <2>1
  <2>3. QED
    BY <2>2, InRouterFacts
<1>3. entry \in ToSet(Chain) \X BOOLEAN /\ entry[1] = Chain[at] /\ entry[2] = FALSE
  BY <1>2, ChainFacts
<1> HIDE DEF entry
<1>4. /\ attempts' \in Seq(ToSet(Chain) \X BOOLEAN) /\ Len(attempts') = at
      /\ attempts'[at] = entry
      /\ \A i \in 1..(at - 1) : attempts'[i] = attempts[i]
  BY <1>1, <1>2, <1>3
<1>5. \A i \in 1..at : attempts'[i][1] = Chain[i] /\ attempts'[i][2] = FALSE
  <2> TAKE i \in 1..at
  <2>1. CASE i = at
    BY <1>3, <1>4, <2>1
  <2>2. CASE i # at
    <3>1. i \in 1..(at - 1)
      BY <1>2, <2>2
    <3>2. QED
      BY <1>2, <1>4, <3>1
  <2>3. QED
    BY <2>1, <2>2
<1>6. at' \in 1..(Len(Chain) + 1) /\ at' - 1 = at /\ at' > 0
  BY <1>1, <1>2, ChainFacts
<1>7. RouterType'
  BY <1>1, <1>4, <1>6, ChainFacts DEF RouterType, MaxAttempts
<1>8. \A i \in 1..Len(Chain) : Chain[i] \in Registered /\ i > at => calls'[Chain[i]] = 0
  BY <1>2 DEF IInv, WalkInv
<1>9. WalkInv'
  <2>1. \A i \in 1..Len(Chain) : i >= at' => i > at
    BY <1>1, <1>2, ChainFacts
  <2>2. \A i \in 1..Len(Chain) : Chain[i] \in Registered =>
          /\ i = at' => calls'[Chain[i]] = tries'
          /\ i > at' => calls'[Chain[i]] = 0
    BY <1>1, <1>6, <1>8, <2>1
  <2>3. QED
    BY <1>2, <1>4, <1>5, <1>6, <2>2 DEF WalkInv
<1>10. CreditInv'
  BY <1>2, <1>4, <1>5 DEF CreditInv
<1>11. QED
  BY <1>6, <1>7, <1>9, <1>10

\* Outside the router the feedback node has called nobody yet, and it starts with the
\* first provider of the chain.
LEMMA FeedbackAsksInvariant == ASSUME IInv, FeedbackAsks PROVE IInv'
<1>1. /\ Runs("feedback") /\ at' = 1 /\ tries' = 0
      /\ UNCHANGED <<inputs, pos, outcomes, state, attempts, calls, result>>
  BY DEF FeedbackAsks
<1>2. UNCHANGED <<input, configured, redacted, semantic, ats, explanation, cites, provider, bias>>
  BY <1>1 DEF inputs, state
<1>3. AtNode /\ at = 0 /\ pos = 5 /\ result = "running" /\ input.resume.text
  BY <1>1, RunsAt, PipelineNodes DEF Runs, NeedsText, AtNode
<1>4. attempts = <<>> /\ provider = "deterministic" /\ \A p \in Registered : calls[p] = 0
  BY <1>3 DEF IInv, EntryInv
<1>5. InputType' /\ RunType' /\ StateType'
  BY <1>1, <1>2, TypeParts DEF IInv, InputType, RunType, StateType
<1>6. RouterType'
  <2>1. attempts \in Seq(ToSet(Chain) \X BOOLEAN) /\ calls \in [Registered -> Nat]
    BY TypeParts DEF IInv, RouterType
  <2>2. 1 \in 0..(Len(Chain) + 1)
    BY ChainFacts
  <2>3. QED
    BY <1>1, <2>1, <2>2 DEF RouterType, MaxAttempts
<1>7. OutcomesInv' /\ DataInv'
  BY <1>1, <1>2 DEF IInv, OutcomesInv, DataInv
<1>8. EntryInv'
  BY <1>1, <1>2, <1>3 DEF EntryInv
<1>9. WalkInv'
  BY <1>1, <1>2, <1>4 DEF WalkInv
<1>10. CreditInv' /\ CallsInv'
  BY <1>1, <1>2 DEF IInv, CreditInv, CallsInv, Available
<1>11. QED
  BY <1>5, <1>6, <1>7, <1>8, <1>9, <1>10, TypeParts DEF IInv

LEMMA SkipProviderInvariant == ASSUME IInv, SkipProvider PROVE IInv'
<1>1. /\ at > 0 /\ at <= Len(Chain) /\ GiveUp
      /\ UNCHANGED <<inputs, pos, outcomes, state, calls, result>>
  BY DEF SkipProvider, InRouter
<1>2. provider' = provider /\ configured' = configured
  BY <1>1 DEF state, inputs
<1>3. calls' = calls /\ calls \in [Registered -> Nat]
  BY <1>1, InRouterFacts
<1>4. RouterType' /\ WalkInv' /\ CreditInv' /\ at' > 0
  BY <1>1, <1>2, <1>3, GiveUpWalksOn
<1>5. CallsInv'
  BY <1>2, <1>3 DEF IInv, CallsInv, Available
<1>6. QED
  BY <1>1, <1>4, <1>5, RouterStep

\* A call goes to an available provider, and is one of at most MAX_ATTEMPTS_PER_PROVIDER.
LEMMA CallCounts ==
  ASSUME IInv, Call, configured' = configured
  PROVE  /\ at > 0 /\ at \in 1..Len(Chain) /\ Chain[at] \in Registered
         /\ calls' \in [Registered -> Nat]
         /\ calls'[Chain[at]] = tries + 1
         /\ \A p \in Registered : p # Chain[at] => calls'[p] = calls[p]
         /\ CallsInv'
<1>1. /\ at > 0 /\ at <= Len(Chain) /\ Chain[at] \in configured
      /\ calls' = [calls EXCEPT ![Chain[at]] = @ + 1]
  BY DEF Call, InRouter
<1>2. at \in 1..Len(Chain) /\ tries \in 0..1 /\ calls \in [Registered -> Nat]
  <2>1. at \in 1..(Len(Chain) + 1) /\ Len(Chain) \in Nat /\ at <= Len(Chain)
    BY <1>1, InRouterFacts, ChainFacts
  <2>2. at \in 1..Len(Chain)
    BY <2>1
  <2>3. QED
    BY <1>1, <2>2, InRouterFacts
<1>3. Chain[at] \in Registered /\ Chain[at] \in Available
  BY <1>1, <1>2, TypeParts, ChainFacts DEF IInv, InputType, Available
<1>4. calls[Chain[at]] = tries
  BY <1>1, <1>2, <1>3 DEF IInv, WalkInv
<1>5. /\ calls' \in [Registered -> Nat]
      /\ calls'[Chain[at]] = tries + 1
      /\ \A p \in Registered : p # Chain[at] => calls'[p] = calls[p]
  BY <1>1, <1>2, <1>3, <1>4
<1>6. CallsInv'
  <2>1. Available' = Available
    BY DEF Available
  <2>2. ASSUME NEW p \in Registered
        PROVE  calls'[p] <= MaxAttempts /\ (calls'[p] > 0 => p \in Available)
    <3>1. CASE p = Chain[at]
      BY <1>2, <1>3, <1>5, <3>1 DEF MaxAttempts
    <3>2. CASE p # Chain[at]
      BY <1>5, <3>2 DEF IInv, CallsInv
    <3>3. QED
      BY <3>1, <3>2
  <2>3. QED
    BY <2>1, <2>2 DEF CallsInv
<1>7. QED
  BY <1>1, <1>2, <1>3, <1>5, <1>6

\* No other provider of the chain was called by that call.
LEMMA LaterCallsUnchanged ==
  ASSUME IInv, Call, configured' = configured
  PROVE  \A i \in 1..Len(Chain) :
           Chain[i] \in Registered /\ i > at => calls'[Chain[i]] = calls[Chain[i]]
<1> TAKE i \in 1..Len(Chain)
<1> HAVE Chain[i] \in Registered /\ i > at
<1>1. at \in 1..Len(Chain) /\ \A p \in Registered : p # Chain[at] => calls'[p] = calls[p]
  BY CallCounts
<1>2. i # at
  BY <1>1
<1>3. Chain[i] # Chain[at]
  BY <1>1, <1>2, ChainFacts
<1>4. QED
  BY <1>1, <1>3

\* The provider is given up with this call: refused, or its attempts are used up.
LEMMA CallAndGiveUpInvariant ==
  ASSUME IInv, Call, GiveUp, UNCHANGED <<inputs, pos, outcomes, state, result>>
  PROVE  IInv'
<1>1. provider' = provider /\ configured' = configured
  BY DEF state, inputs
<1>2. /\ at > 0 /\ at <= Len(Chain) /\ calls' \in [Registered -> Nat] /\ CallsInv'
  BY <1>1, CallCounts DEF Call
<1>3. RouterType' /\ WalkInv' /\ CreditInv' /\ at' > 0
  BY <1>1, <1>2, GiveUpWalksOn, LaterCallsUnchanged
<1>4. QED
  BY <1>2, <1>3, RouterStep

LEMMA CallRefusedInvariant == ASSUME IInv, CallRefused PROVE IInv'
BY CallAndGiveUpInvariant DEF CallRefused

LEMMA CallFailedInvariant == ASSUME IInv, CallFailed PROVE IInv'
<1>1. Call /\ UNCHANGED <<inputs, pos, outcomes, state, result>>
  BY DEF CallFailed
<1>2. CASE tries + 1 = MaxAttempts
  BY <1>1, <1>2, CallAndGiveUpInvariant DEF CallFailed
<1>3. CASE tries + 1 # MaxAttempts
  <2>1. tries' = tries + 1 /\ attempts' = attempts /\ at' = at
    BY <1>3 DEF CallFailed
  <2>2. provider' = provider /\ configured' = configured
    BY <1>1 DEF state, inputs
  <2>3. /\ at > 0 /\ at \in 1..Len(Chain) /\ calls' \in [Registered -> Nat] /\ CallsInv'
        /\ calls'[Chain[at]] = tries + 1
    BY <1>1, <2>2, CallCounts
  <2>4. tries' \in 0..(MaxAttempts - 1)
    <3>1. tries \in 0..1
      BY <2>3, InRouterFacts
    <3>2. QED
      BY <1>3, <2>1, <3>1 DEF MaxAttempts
  <2>5. RouterType'
    BY <2>1, <2>3, <2>4, TypeParts DEF IInv, RouterType
  <2>6. \A i \in 1..Len(Chain) : Chain[i] \in Registered /\ i > at => calls'[Chain[i]] = 0
    BY <1>1, <2>2, <2>3, LaterCallsUnchanged DEF IInv, WalkInv
  <2>7. WalkInv'
    BY <2>1, <2>2, <2>3, <2>6 DEF IInv, WalkInv
  <2>8. CreditInv'
    BY <2>1, <2>2 DEF IInv, CreditInv
  <2>9. QED
    BY <1>1, <2>1, <2>3, <2>5, <2>7, <2>8, RouterStep
<1>4. QED
  BY <1>2, <1>3

\* The feedback node ends: the explanation is written while no verdict exists.
LEMMA FeedbackEnds ==
  ASSUME IInv, at > 0, result = "running", Succeed, at' = 0, tries' \in 0..1,
         UNCHANGED <<inputs, redacted, semantic, ats, bias>>,
         explanation' \in {"rules", "model"}, cites' \in BOOLEAN,
         provider' \in Registered \cup {"deterministic"},
         attempts' \in Seq(ToSet(Chain) \X BOOLEAN), calls' \in [Registered -> Nat],
         CreditInv', CallsInv'
  PROVE  IInv'
<1>1. /\ pos = 5 /\ bias = None /\ redacted
  BY InRouterFacts
<1>2. AtNode
  BY <1>1, NodeEntered, PipelineNodes
<1>3. /\ pos' = 6 /\ result' = "running" /\ outcomes' \in Seq(ToSet(Pipeline) \X BOOLEAN)
      /\ OutcomesInv'
  BY <1>1, <1>2, SucceedMovesOn DEF IInv
<1>4. UNCHANGED <<input, configured>>
  BY DEF inputs
<1>5. InputType' /\ RunType' /\ StateType'
  <2>1. InputType' /\ RunType'
    BY <1>3, <1>4, TypeParts DEF IInv, InputType, RunType
  <2>2. StateType
    BY TypeParts DEF IInv
  <2>3. explanation' \in {"", "rules", "model", "template"}
    OBVIOUS
  <2>4. StateType'
    BY <2>2, <2>3 DEF StateType
  <2>5. QED
    BY <2>1, <2>4
<1>6. RouterType'
  BY ChainFacts DEF RouterType, MaxAttempts
<1>7. DataInv'
  <2>1. ats # None => ats = Scored(input.job, input.resume, semantic)
    BY DEF IInv, DataInv
  <2>2. bias' = None /\ redacted' /\ pos' > 4
    BY <1>1, <1>3
  <2>3. QED
    BY <1>4, <2>1, <2>2, NoneIsNoValue DEF DataInv
<1>8. EntryInv' /\ WalkInv'
  <2>1. ~(at' > 0)
    OBVIOUS
  <2>2. ~(pos' < 5) /\ pos' # 5
    BY <1>3
  <2>3. QED
    BY <2>1, <2>2 DEF EntryInv, WalkInv
<1>9. QED
  BY <1>3, <1>5, <1>6, <1>7, <1>8, TypeParts DEF IInv

\* The provider that answers is the last of the attempts, and is credited.
LEMMA CallAnsweredInvariant == ASSUME IInv, CallAnswered PROVE IInv'
<1> DEFINE entry == <<Chain[at], TRUE>>
<1>1. /\ Call /\ Succeed /\ UNCHANGED <<inputs, redacted, semantic, ats, bias>>
      /\ attempts' = Append(attempts, entry) /\ provider' = Chain[at] /\ at' = 0 /\ tries' = 0
  BY DEF CallAnswered
<1>2. explanation' \in {"rules", "model"} /\ cites' \in BOOLEAN
  BY RulesCiteType DEF CallAnswered
<1>3. /\ at > 0 /\ at \in 1..Len(Chain) /\ Chain[at] \in Registered
      /\ calls' \in [Registered -> Nat] /\ CallsInv'
  BY <1>1, CallCounts DEF inputs
<1>4. /\ Len(attempts) = at - 1 /\ attempts \in Seq(ToSet(Chain) \X BOOLEAN)
      /\ \A i \in 1..(at - 1) : attempts[i][1] = Chain[i] /\ attempts[i][2] = FALSE
  BY <1>3, InRouterFacts
<1>5. entry \in ToSet(Chain) \X BOOLEAN /\ entry[1] = Chain[at] /\ entry[2] = TRUE
  BY <1>3, ChainFacts
<1>6. result = "running"
  BY <1>1 DEF Call, InRouter
<1> HIDE DEF entry
<1>7. /\ attempts' \in Seq(ToSet(Chain) \X BOOLEAN) /\ Len(attempts') = at
      /\ attempts'[at] = entry
      /\ \A i \in 1..(at - 1) : attempts'[i] = attempts[i]
  BY <1>1, <1>3, <1>4, <1>5
<1>8. CreditInv'
  <2>1. \A i \in 1..at : attempts'[i][1] = Chain[i] /\ (attempts'[i][2] => i = at)
    <3> TAKE i \in 1..at
    <3>1. CASE i = at
      BY <1>5, <1>7, <3>1
    <3>2. CASE i # at
      <4>1. i \in 1..(at - 1)
        BY <1>3, <3>2
      <4>2. QED
        BY <1>4, <1>7, <4>1
    <3>3. QED
      BY <3>1, <3>2
  <2>2. at <= Len(Chain) /\ at > 0 /\ attempts'[at][2] /\ attempts'[at][1] = provider'
    BY <1>1, <1>3, <1>5, <1>7
  <2>3. QED
    BY <1>7, <2>1, <2>2 DEF CreditInv
<1>9. QED
  BY <1>1, <1>2, <1>3, <1>6, <1>7, <1>8, FeedbackEnds

LEMMA ExhaustedInvariant == ASSUME IInv, Exhausted PROVE IInv'
<1>1. /\ at > 0 /\ result = "running" /\ Succeed /\ at' = 0
      /\ UNCHANGED <<inputs, redacted, semantic, ats, bias, tries, attempts, calls>>
      /\ provider' = "deterministic" /\ explanation' = "rules" /\ cites' \in RulesCite
  BY DEF Exhausted, ByRules, InRouter
<1>2. /\ provider = "deterministic" /\ tries \in 0..1 /\ calls \in [Registered -> Nat]
      /\ attempts \in Seq(ToSet(Chain) \X BOOLEAN)
  BY <1>1, InRouterFacts
<1>3. CreditInv' /\ CallsInv'
  BY <1>1, <1>2 DEF IInv, CreditInv, CallsInv, Available, inputs
<1>4. cites' \in BOOLEAN
  BY <1>1, RulesCiteType
<1>5. QED
  BY <1>1, <1>2, <1>3, <1>4, FeedbackEnds

-----------------------------------------------------------------------------
(* The invariant, and the properties that follow from it. *)

LEMMA StepInvariant == IInv /\ [Next]_vars => IInv'
<1> SUFFICES ASSUME IInv, [Next]_vars
             PROVE  IInv'
  OBVIOUS
<1>1. CASE Skip
  BY <1>1, SkipInvariant
<1>2. CASE NodeFails
  BY <1>2, NodeFailsInvariant
<1>3. CASE Parse
  BY <1>3, ParseInvariant
<1>4. CASE Redact
  BY <1>4, RedactInvariant
<1>5. CASE Match
  BY <1>5, MatchInvariant
<1>6. CASE Score
  BY <1>6, ScoreInvariant
<1>7. CASE CheckBias
  BY <1>7, CheckBiasInvariant
<1>8. CASE FeedbackByRules
  BY <1>8, FeedbackByRulesInvariant
<1>9. CASE FeedbackAsks
  BY <1>9, FeedbackAsksInvariant
<1>10. CASE SkipProvider
  BY <1>10, SkipProviderInvariant
<1>11. CASE CallRefused
  BY <1>11, CallRefusedInvariant
<1>12. CASE CallFailed
  BY <1>12, CallFailedInvariant
<1>13. CASE CallAnswered
  BY <1>13, CallAnsweredInvariant
<1>14. CASE Exhausted
  BY <1>14, ExhaustedInvariant
<1>15. CASE Finish
  BY <1>15, FinishInvariant
<1>16. CASE UNCHANGED vars
  <2>1. /\ UNCHANGED <<input, configured, pos, outcomes, redacted, semantic, ats, explanation>>
        /\ UNCHANGED <<cites, provider, bias, at, tries, attempts, calls, result>>
    BY <1>16 DEF vars, inputs, state, router
  <2>2. InputType' /\ RunType' /\ StateType' /\ RouterType'
    BY <2>1, TypeParts DEF IInv, InputType, RunType, StateType, RouterType
  <2>3. OutcomesInv' /\ DataInv'
    BY <2>1 DEF IInv, OutcomesInv, DataInv
  <2>4. EntryInv' /\ WalkInv'
    BY <2>1 DEF IInv, EntryInv, WalkInv
  <2>5. CreditInv' /\ CallsInv'
    BY <2>1 DEF IInv, CreditInv, CallsInv, Available
  <2>6. QED
    BY <2>2, <2>3, <2>4, <2>5, TypeParts DEF IInv
<1>17. QED
  BY <1>1, <1>2, <1>3, <1>4, <1>5, <1>6, <1>7, <1>8, <1>9, <1>10, <1>11, <1>12, <1>13, <1>14,
     <1>15, <1>16 DEF Next

LEMMA Invariance == Spec => []IInv
<1>1. Init => IInv
  BY InitInvariant
<1>2. IInv /\ [Next]_vars => IInv'
  BY StepInvariant
<1>3. QED
  BY <1>1, <1>2, PTL DEF Spec

\* The state keeps its types (ScreeningState, graph.py).
THEOREM TypeCorrect == Spec => []TypeOK
<1>1. IInv => TypeOK
  BY DEF IInv
<1>2. QED
  BY <1>1, Invariance, PTL

\* However many advisory nodes fail, a run that ends well has an outcome for every node
\* in order, no failed critical node, a score and an explanation (run_pipeline).
THEOREM ShippedRunsAreComplete == Spec => []ShippedRunIsComplete
<1>1. ASSUME IInv
      PROVE  ShippedRunIsComplete
  <2> SUFFICES ASSUME result = "done"
               PROVE  /\ Nodes(outcomes) = Pipeline
                      /\ \A i \in DOMAIN outcomes : outcomes[i][1] \in Critical => outcomes[i][2]
                      /\ ats # None /\ explanation # ""
    BY DEF ShippedRunIsComplete
  <2>1. /\ Len(outcomes) = pos - 1
        /\ \A i \in 1..(pos - 1) : /\ outcomes[i][1] = Pipeline[i]
                                   /\ Pipeline[i] \in Critical => outcomes[i][2]
    BY <1>1 DEF IInv, OutcomesInv
  <2>2. pos = 7 /\ ats # None /\ explanation # ""
    BY <1>1 DEF IInv, OutcomesInv
  <2>3. pos - 1 = 6
    <3>1. pos = 7
      BY <2>2
    <3>2. QED
      BY <3>1
  <2>4. outcomes \in Seq(ToSet(Pipeline) \X BOOLEAN)
    BY <1>1, TypeParts DEF IInv, RunType
  <2>5. DOMAIN outcomes = 1..6 /\ \A i \in 1..6 : outcomes[i][1] = Pipeline[i]
    <3>1. Len(outcomes) = 6
      BY <2>1, <2>3
    <3>2. DOMAIN outcomes = 1..6
      BY <2>4, <3>1
    <3>3. QED
      BY <2>1, <2>3, <3>2
  <2>6. Nodes(outcomes) = [i \in 1..6 |-> Pipeline[i]]
    BY <2>5 DEF Nodes
  <2>7. Pipeline = [i \in 1..6 |-> Pipeline[i]]
    BY PipelineNodes
  <2>8. \A i \in DOMAIN outcomes : outcomes[i][1] \in Critical => outcomes[i][2]
    BY <2>1, <2>5, <2>3
  <2>9. QED
    BY <2>6, <2>7, <2>8, <2>2
<1>2. QED
  BY <1>1, Invariance, PTL

\* No score, call to a provider or verdict exists before the resume is redacted.
THEOREM NothingPrecedesRedaction == Spec => []NothingBeforeRedaction
<1>1. ASSUME IInv
      PROVE  NothingBeforeRedaction
  <2>1. pos \in 1..7 /\ calls \in [Registered -> Nat]
    BY <1>1, TypeParts DEF IInv, RunType, RouterType
  <2>2. pos > 2 => redacted
    BY <1>1 DEF IInv, DataInv
  <2>3. ats # None \/ bias # None => pos > 2
    BY <1>1, <2>1 DEF IInv, DataInv
  <2>4. (\E p \in Registered : calls[p] > 0) => pos > 2
    BY <1>1, <2>1 DEF IInv, EntryInv
  <2>5. QED
    BY <2>2, <2>3, <2>4 DEF NothingBeforeRedaction
<1>2. QED
  BY <1>1, Invariance, PTL

\* A decision that the fairness check cleared is clean as it is shipped, unless the text
\* without the name could not be scored: then the name may have moved it by any amount.
THEOREM ClearedDecisionsAreClean == Spec => []ClearedDecisionIsClean
<1>1. ASSUME IInv
      PROVE  ClearedDecisionIsClean
  <2> DEFINE delta == NameDelta(input.job, input.resume, semantic)
  <2> SUFFICES ASSUME bias = FALSE
               PROVE  ~cites /\ (input.rescored => delta \in -Tolerance..Tolerance)
    BY DEF ClearedDecisionIsClean
  <2>1. ~cites /\ (input.rescored => ~NameSignal(delta))
    BY <1>1 DEF IInv, DataInv, NameSensitivity
  <2>2. delta \in Int
    <3> DEFINE with == Overall(input.job, input.resume, input.resume.found, semantic)
               without == Overall(input.job, input.resume, input.resume.unnamed, semantic)
    <3>1. with \in 0..Full /\ without \in 0..Full
      BY <1>1, InputTypes, ScoreIsOnScale DEF IInv
    <3>2. Full \in Nat /\ delta = with - without
      BY DEF Full, NameDelta
    <3> HIDE DEF with, without, delta
    <3>3. QED
      BY <3>1, <3>2
  <2> HIDE DEF delta
  <2>3. QED
    BY <2>1, <2>2 DEF NameSignal, Tolerance
<1>2. QED
  BY <1>1, Invariance, PTL

\* The attempts are a prefix of the chain, only the last of them succeeded, and it is the
\* provider that is credited; nobody is called more often than allowed (generate_json).
THEOREM ChainsAreWalkedInOrder == Spec => []ChainIsWalkedInOrder
<1>1. ASSUME IInv
      PROVE  ChainIsWalkedInOrder
  <2>1. /\ Len(attempts) <= Len(Chain)
        /\ \A i \in 1..Len(attempts) :
             /\ attempts[i][1] = Chain[i]
             /\ attempts[i][2] => i = Len(attempts) /\ provider = attempts[i][1]
        /\ provider # "deterministic" => Len(attempts) > 0 /\ attempts[Len(attempts)][2]
    BY <1>1 DEF IInv, CreditInv
  <2>2. attempts \in Seq(ToSet(Chain) \X BOOLEAN) /\ Len(attempts) \in Nat
    BY <1>1, TypeParts DEF IInv, RouterType
  <2>3. DOMAIN attempts = 1..Len(attempts)
    BY <2>2
  <2>4. Nodes(attempts) = [i \in 1..Len(attempts) |-> Chain[i]]
    BY <2>1, <2>3 DEF Nodes
  <2>5. SubSeq(Chain, 1, Len(attempts)) = [i \in 1..Len(attempts) |-> Chain[i]]
    BY <2>1, <2>2, ChainFacts
  <2>6. provider # "deterministic" => attempts # <<>> /\ Last(attempts)[2]
    BY <2>1, <2>2 DEF Last
  <2>7. \A p \in Registered : calls[p] <= MaxAttempts /\ (calls[p] > 0 => p \in Available)
    BY <1>1 DEF IInv, CallsInv
  <2>8. QED
    BY <2>1, <2>3, <2>4, <2>5, <2>6, <2>7 DEF ChainIsWalkedInOrder
<1>2. QED
  BY <1>1, Invariance, PTL

\* The score of a run keeps its scale with and without a similarity.
THEOREM ScoresKeepTheirScale == Spec => []ScoreKeepsItsScale
<1>1. ASSUME IInv
      PROVE  ScoreKeepsItsScale
  <2> SUFFICES ASSUME ats # None
               PROVE  /\ ats.overall \in 0..Full
                      /\ /\ input.resume.found = [required |-> input.job.required,
                                                  preferred |-> input.job.preferred]
                         /\ input.resume.years >= input.job.minYears
                         /\ input.resume.sections = 5
                         /\ semantic \in {0, Full}
                         => ats.overall = Full
    BY DEF ScoreKeepsItsScale
  <2>1. /\ input.job \in Job /\ input.resume \in Resume(input.job)
        /\ input.resume.found \in Skills(input.job) /\ semantic \in Int
    BY <1>1, InputTypes DEF IInv
  <2>2. ats.overall = Overall(input.job, input.resume, input.resume.found, semantic)
    BY <1>1 DEF IInv, DataInv, Scored
  <2>3. QED
    BY <2>1, <2>2, ScoreIsOnScale, CompleteResumeScoresFull
<1>2. QED
  BY <1>1, Invariance, PTL

\* Candidates for a job are ordered by what they show (calculate_ats, recommend).
THEOREM RankingsFollowTheEvidence == Spec => []RankingFollowsTheEvidence
<1>1. ASSUME IInv
      PROVE  RankingFollowsTheEvidence
  <2> SUFFICES ASSUME ats # None
               PROVE  /\ \A c \in Cases : c.job = input.job /\ Shows(c.resume, input.resume) =>
                           LET better == Scored(c.job, c.resume, semantic) IN
                           /\ better.overall >= ats.overall
                           /\ Rank(better.recommendation) >= Rank(ats.recommendation)
                      /\ ats.recommendation = "STRONG_MATCH" =>
                           input.resume.found.required = input.job.required
    BY DEF RankingFollowsTheEvidence
  <2>1. /\ input.job \in Job /\ input.resume \in Resume(input.job)
        /\ input.resume.found \in Skills(input.job) /\ semantic \in Int
    BY <1>1, InputTypes DEF IInv
  <2>2. ats = Scored(input.job, input.resume, semantic)
    BY <1>1 DEF IInv, DataInv
  <2>3. ASSUME NEW c \in Cases, c.job = input.job, Shows(c.resume, input.resume)
        PROVE  /\ Scored(c.job, c.resume, semantic).overall >= ats.overall
               /\ Rank(Scored(c.job, c.resume, semantic).recommendation) >= Rank(ats.recommendation)
    <3>1. c.resume \in Resume(input.job)
      BY <2>3, CasesAssumption
    <3>2. QED
      BY <2>1, <2>2, <2>3, <3>1, MoreEvidenceRanksHigher
  <2>4. ats.recommendation = "STRONG_MATCH" => input.resume.found.required = input.job.required
    <3>1. input.job.required \in Nat /\ input.resume.found.required \in 0..input.job.required
      BY <2>1 DEF Job, Skills
    <3>2. ats.recommendation = "STRONG_MATCH" =>
            input.job.required - input.resume.found.required = 0
      BY <2>2 DEF Scored, Recommend
    <3>3. QED
      BY <3>1, <3>2
  <2>5. QED
    BY <2>3, <2>4
<1>2. QED
  BY <1>1, Invariance, PTL

-----------------------------------------------------------------------------
(* The verdict that module Screening takes over from a run. *)

\* The position just behind the last node, and the only way for a verdict to be missing.
VerdictInv ==
  pos = 7 /\ result \in {"running", "done"} => (bias = None <=> outcomes[6][2] = FALSE)

LEMMA LastOfAppend ==
  ASSUME NEW S, NEW seq \in Seq(S), NEW e \in S, NEW n, n = Len(seq) + 1
  PROVE  Append(seq, e)[n] = e
OBVIOUS

LEMMA ElementOf ==
  ASSUME NEW S, NEW seq \in Seq(S), NEW n \in 1..Len(seq)
  PROVE  seq[n] \in S
OBVIOUS

LEMMA LastOutcome ==
  ASSUME AtNode, OutcomesInv, pos = 6, NEW ok \in BOOLEAN, Record(ok)
  PROVE  outcomes'[6][2] = ok
<1> DEFINE Entries == ToSet(Pipeline) \X BOOLEAN
           entry == <<Pipeline[pos], ok>>
<1>1. outcomes' = Append(outcomes, entry)
  BY DEF Record, Current
<1>2. outcomes \in Seq(Entries) /\ Len(outcomes) = pos - 1
  BY DEF AtNode, OutcomesInv
<1>3. 6 = Len(outcomes) + 1
  BY <1>2
<1>4. entry[2] = ok /\ entry \in Entries
  BY PipelineNodes
<1> HIDE DEF entry, Entries
<1>5. Append(outcomes, entry)[6] = entry
  <2>1. outcomes \in Seq(Entries) /\ entry \in Entries
    BY <1>2, <1>4
  <2>2. QED
    BY <2>1, <1>3, LastOfAppend
<1>6. outcomes'[6] = entry
  BY <1>1, <1>5
<1>7. QED
  BY <1>4, <1>6

LEMMA VerdictStep == IInv /\ VerdictInv /\ [Next]_vars => VerdictInv'
<1> SUFFICES ASSUME IInv, VerdictInv, [Next]_vars
             PROVE  VerdictInv'
  OBVIOUS
<1>1. pos \in 1..7 /\ (at > 0 => pos = 5)
  BY TypeParts DEF IInv, RunType, EntryInv
<1>2. CASE Finish
  <2>1. UNCHANGED <<pos, outcomes, bias>> /\ result = "running"
    BY <1>2 DEF Finish
  <2>2. QED
    BY <2>1 DEF VerdictInv
<1>3. CASE CheckBias
  <2>1. AtNode /\ OutcomesInv /\ pos = 6
    BY <1>3, RunsAt, PipelineNodes DEF CheckBias
  <2>2. outcomes'[6][2] = TRUE
    BY <1>3, <2>1, LastOutcome DEF CheckBias, Succeed
  <2>3. bias' \in BOOLEAN
    BY <1>3 DEF CheckBias
  <2>4. QED
    BY <2>2, <2>3, NoneIsNoValue DEF VerdictInv
<1>4. CASE NodeFails
  <2>1. result = "running" /\ pos <= Len(Pipeline) /\ Raise /\ bias' = bias
    BY <1>4 DEF NodeFails, state
  <2>2. AtNode /\ OutcomesInv
    BY <2>1, NodeEntered
  <2>3. SUFFICES ASSUME pos' = 7, result' \in {"running", "done"}
                 PROVE  bias' = None <=> outcomes'[6][2] = FALSE
    BY DEF VerdictInv
  <2>4. pos = 6
    <3>1. pos \in 1..6 /\ (pos' = pos \/ pos' = pos + 1)
      BY <2>1, <2>2, RaiseEndsOrMovesOn DEF AtNode
    <3>2. QED
      BY <2>3, <3>1
  <2>5. Record(FALSE)
    BY <2>1, <2>3 DEF Raise
  <2>6. outcomes'[6][2] = FALSE
    BY <2>2, <2>4, <2>5, LastOutcome
  <2>7. bias = None
    BY <2>4 DEF IInv, DataInv
  <2>8. QED
    BY <2>1, <2>6, <2>7
<1>5. CASE Skip \/ Parse \/ Redact \/ Match \/ Score \/ FeedbackByRules
  <2>1. pos \in 1..5 /\ (pos' = pos \/ pos' = pos + 1)
    <3>1. CASE Skip
      <4>1. result = "running" /\ pos <= Len(Pipeline) /\ Current \in NeedsText
        BY <3>1 DEF Skip
      <4>2. pos \in 1..6
        BY <4>1, NodeEntered DEF AtNode
      <4>3. pos # 6
        BY <4>1, PipelineNodes DEF Current, NeedsText
      <4>4. pos' = pos \/ pos' = pos + 1
        BY <3>1 DEF Skip, Succeed
      <4>5. QED
        BY <4>2, <4>3, <4>4
    <3>2. CASE Parse \/ Redact \/ Match \/ Score \/ FeedbackByRules
      <4>1. /\ \/ Runs("parser") \/ Runs("redaction") \/ Runs("matcher") \/ Runs("scorer")
               \/ Runs("feedback")
            /\ Succeed
        BY <3>2 DEF Parse, Redact, Match, Score, FeedbackByRules, ByRules
      <4>2. pos \in 1..5
        BY <4>1, RunsAt, PipelineNodes
      <4>3. pos' = pos + 1
        BY <4>1 DEF Succeed
      <4>4. QED
        BY <4>2, <4>3
    <3>3. QED
      BY <1>5, <3>1, <3>2
  <2>2. pos' # 7
    BY <2>1
  <2>3. QED
    BY <2>2 DEF VerdictInv
<1>6. CASE FeedbackAsks \/ SkipProvider \/ CallRefused \/ CallFailed \/ CallAnswered \/ Exhausted
  <2>1. pos = 5
    <3>1. CASE FeedbackAsks
      BY <3>1, RunsAt, PipelineNodes DEF FeedbackAsks
    <3>2. CASE SkipProvider \/ CallRefused \/ CallFailed \/ CallAnswered \/ Exhausted
      BY <1>1, <3>2
         DEF SkipProvider, CallRefused, CallFailed, CallAnswered, Exhausted, Call, InRouter
    <3>3. QED
      BY <1>6, <3>1, <3>2
  <2>2. pos' = pos \/ pos' = pos + 1
    BY <1>6 DEF FeedbackAsks, SkipProvider, CallRefused, CallFailed, CallAnswered, Exhausted,
                ByRules, Succeed
  <2>3. pos' # 7
    BY <2>1, <2>2
  <2>4. QED
    BY <2>3 DEF VerdictInv
<1>7. CASE UNCHANGED vars
  BY <1>7 DEF vars, state, VerdictInv
<1>8. QED
  BY <1>2, <1>3, <1>4, <1>5, <1>6, <1>7 DEF Next

\* A run that ends well carries a score and a band, and a verdict on fairness unless its
\* bias_check node failed: that is the only verdict that module Screening finds missing
\* (and stores as FALSE, screening_service.py).
VerdictOfRun ==
  result = "done" =>
    /\ ats \in [overall : 0..Full, recommendation : Bands]
    /\ bias \in BOOLEAN \/ (bias = None /\ outcomes[6] = <<"bias_check", FALSE>>)

THEOREM MissingVerdictMeansFailedCheck == Spec => []VerdictOfRun
<1>1. Init => VerdictInv
  <2>1. Init => pos = 1
    BY DEF Init
  <2>2. pos = 1 => pos # 7
    OBVIOUS
  <2>3. QED
    BY <2>1, <2>2 DEF VerdictInv
<1>2. IInv /\ VerdictInv => VerdictOfRun
  <2> SUFFICES ASSUME IInv, VerdictInv, result = "done"
               PROVE  /\ ats \in [overall : 0..Full, recommendation : Bands]
                      /\ bias \in BOOLEAN \/ (bias = None /\ outcomes[6] = <<"bias_check", FALSE>>)
    BY DEF VerdictOfRun
  <2>1. pos = 7 /\ ats # None
    BY DEF IInv, OutcomesInv
  <2>2. /\ Len(outcomes) = pos - 1
        /\ \A i \in 1..(pos - 1) : outcomes[i][1] = Pipeline[i]
    BY DEF IInv, OutcomesInv
  <2>3. Len(outcomes) = 6 /\ outcomes[6][1] = "bias_check"
    <3>1. pos = 7
      BY <2>1
    <3>2. pos - 1 = 6
      BY <3>1
    <3>3. QED
      BY <2>2, <3>2, PipelineNodes
  <2>4. /\ ats \in [overall : 0..Full, recommendation : Bands] \cup {None}
        /\ bias \in BOOLEAN \cup {None} /\ outcomes \in Seq(ToSet(Pipeline) \X BOOLEAN)
    BY TypeParts DEF IInv, StateType, RunType
  <2>5. bias = None => outcomes[6][2] = FALSE
    BY <2>1 DEF VerdictInv
  <2>6. outcomes[6] \in ToSet(Pipeline) \X BOOLEAN
    <3> DEFINE Entries == ToSet(Pipeline) \X BOOLEAN
    <3>1. outcomes \in Seq(Entries)
      BY <2>4
    <3>2. 6 \in 1..Len(outcomes)
      BY <2>3
    <3> HIDE DEF Entries
    <3>3. outcomes[6] \in Entries
      BY <3>1, <3>2, ElementOf
    <3>4. QED
      BY <3>3 DEF Entries
  <2>7. outcomes[6] = <<outcomes[6][1], outcomes[6][2]>>
    BY <2>6
  <2>8. QED
    BY <2>1, <2>3, <2>4, <2>5, <2>7
<1>3. QED
  BY <1>1, <1>2, VerdictStep, Invariance, PTL DEF Spec

-----------------------------------------------------------------------------
(* How long a run may take.  That it ends (RunEnds) needs fairness and is left *)
(* to TLC; what is proved is that no chain lets it go on for ever.             *)

\* Steps that a node may take: one for every attempt of every provider, one for the
\* end of the chain, and the way into and out of it.
NodeSteps == MaxAttempts * Len(Chain) + 4

\* Steps left of the node that runs.
NodeStepsLeft ==
  IF at = 0 THEN NodeSteps - 1 ELSE MaxAttempts * (Len(Chain) + 1 - at) - tries + 1

\* An upper bound for the steps that are left of the run.
StepsLeft ==
  IF result = "running" THEN (Len(Pipeline) + 1 - pos) * NodeSteps + NodeStepsLeft + 1 ELSE 0

\* The ways in which a step brings the run nearer to its end.
Ends     == result' # "running"
NextNode == result' = "running" /\ pos' = pos + 1 /\ at' = 0
Enters   == result' = "running" /\ pos' = pos /\ at = 0 /\ at' = 1 /\ tries' = 0
NextTry  == /\ result' = "running" /\ pos' = pos /\ at > 0
            /\ \/ at' = at + 1 /\ tries' = 0
               \/ at' = at /\ tries' = tries + 1

LEMMA EveryStepAdvances ==
  ASSUME IInv, Next
  PROVE  result = "running" /\ (Ends \/ NextNode \/ Enters \/ NextTry)
<1>1. CASE Skip
  <2>1. result = "running" /\ ~input.resume.text /\ UNCHANGED router
    BY <1>1 DEF Skip
  <2>2. at = 0 /\ at' = 0
    BY <2>1, TypeParts DEF IInv, EntryInv, RouterType, router
  <2>3. QED
    BY <1>1, <2>1, <2>2 DEF Skip, Succeed, Ends, NextNode
<1>2. CASE NodeFails
  <2>1. result = "running" /\ pos <= Len(Pipeline) /\ Raise
    BY <1>2 DEF NodeFails
  <2>2. AtNode /\ OutcomesInv
    BY <2>1, NodeEntered
  <2>3. QED
    BY <2>1, <2>2, RaiseEndsOrMovesOn DEF Ends, NextNode
<1>3. CASE Parse \/ Redact \/ Match \/ Score \/ CheckBias
  <2>1. Succeed /\ UNCHANGED router /\ at = 0 /\ result = "running"
    BY <1>3 DEF Parse, Redact, Match, Score, CheckBias, Runs
  <2>2. QED
    BY <2>1 DEF router, Succeed, NextNode
<1>4. CASE FeedbackByRules \/ CallAnswered \/ Exhausted
  <2>1. Succeed /\ at' = 0 /\ result = "running"
    BY <1>4 DEF FeedbackByRules, CallAnswered, Exhausted, ByRules, Call, InRouter, Runs
  <2>2. QED
    BY <2>1 DEF Succeed, NextNode
<1>5. CASE FeedbackAsks
  BY <1>5 DEF FeedbackAsks, Runs, Enters
<1>6. CASE SkipProvider \/ CallRefused \/ CallFailed
  <2>1. result = "running" /\ at > 0 /\ UNCHANGED <<pos, result>>
    BY <1>6 DEF SkipProvider, CallRefused, CallFailed, Call, InRouter
  <2>2. \/ at' = at + 1 /\ tries' = 0
        \/ at' = at /\ tries' = tries + 1
    BY <1>6 DEF SkipProvider, CallRefused, CallFailed, GiveUp
  <2>3. QED
    BY <2>1, <2>2 DEF NextTry
<1>7. CASE Finish
  BY <1>7 DEF Finish, Ends
<1>8. QED
  BY <1>1, <1>2, <1>3, <1>4, <1>5, <1>6, <1>7 DEF Next

\* What is left of a node is less than NodeSteps, and less than NodeSteps - 1 in the router.
LEMMA NodeStepsBounds ==
  ASSUME IInv
  PROVE  /\ NodeSteps \in Nat /\ NodeStepsLeft \in 0..(NodeSteps - 1)
         /\ at = 1 => NodeStepsLeft < NodeSteps - 1
<1> DEFINE n == Len(Chain)
<1>1. n \in Nat /\ at \in 0..(n + 1) /\ tries \in 0..1
  BY TypeParts, ChainFacts DEF IInv, RouterType, MaxAttempts
<1> HIDE DEF n
<1>2. /\ NodeSteps = 2 * n + 4
      /\ NodeStepsLeft = IF at = 0 THEN 2 * n + 3 ELSE 2 * (n + 1 - at) - tries + 1
  BY <1>1 DEF NodeSteps, NodeStepsLeft, MaxAttempts, n
<1>3. QED
  BY <1>1, <1>2

\* The weight of a node is more than anything that may happen inside of it.
LEMMA Countdown ==
  ASSUME NEW k \in Nat, NEW p \in 1..7, NEW q \in 1..7, NEW m \in 0..(k - 1), NEW l \in 0..(k - 1),
         q = p + 1 \/ (q = p /\ l < m)
  PROVE  (7 - q) * k + l < (7 - p) * k + m
<1>1. CASE q = p
  BY <1>1
<1>2. CASE q = p + 1
  <2>1. (7 - p) * k = (7 - q) * k + k
    BY <1>2
  <2>2. (7 - q) * k \in Int
    OBVIOUS
  <2>3. QED
    BY <2>1, <2>2
<1>3. QED
  BY <1>1, <1>2

LEMMA StepsLeftBounds ==
  ASSUME IInv
  PROVE  /\ StepsLeft \in 0..(7 * NodeSteps)
         /\ result = "running" => StepsLeft > 0
<1>1. NodeSteps \in Nat /\ NodeStepsLeft \in 0..(NodeSteps - 1) /\ pos \in 1..7
  BY NodeStepsBounds, TypeParts DEF IInv, RunType
<1>2. StepsLeft = IF result = "running" THEN (7 - pos) * NodeSteps + NodeStepsLeft + 1 ELSE 0
  <2>1. (Len(Pipeline) + 1 - pos) * NodeSteps = (7 - pos) * NodeSteps
    BY <1>1, PipelineNodes
  <2>2. QED
    BY <2>1 DEF StepsLeft
<1>3. 0 <= (7 - pos) * NodeSteps /\ (7 - pos) * NodeSteps <= 6 * NodeSteps
      /\ (7 - pos) * NodeSteps \in Int
  BY <1>1
<1>4. QED
  BY <1>1, <1>2, <1>3

LEMMA EveryStepCounts ==
  ASSUME IInv, Next, IInv'
  PROVE  StepsLeft' < StepsLeft
<1>1. NodeSteps \in Nat /\ NodeStepsLeft \in 0..(NodeSteps - 1) /\ pos \in 1..7
  BY NodeStepsBounds, TypeParts DEF IInv, RunType
<1>2. NodeStepsLeft' \in 0..(NodeSteps - 1) /\ pos' \in 1..7
  <2>1. NodeSteps' = NodeSteps
    BY DEF NodeSteps
  <2>2. /\ at' \in 0..(Len(Chain) + 1) /\ tries' \in 0..(MaxAttempts - 1)
        /\ pos' \in 1..(Len(Pipeline) + 1)
    BY DEF IInv, TypeOK
  <2>3. QED
    BY <2>1, <2>2, ChainFacts, PipelineNodes DEF NodeSteps, NodeStepsLeft, MaxAttempts
<1>3. /\ StepsLeft = (7 - pos) * NodeSteps + NodeStepsLeft + 1
      /\ StepsLeft' = IF result' = "running" THEN (7 - pos') * NodeSteps + NodeStepsLeft' + 1 ELSE 0
  <2>1. result = "running" /\ NodeSteps' = NodeSteps
    BY EveryStepAdvances DEF NodeSteps
  <2>2. /\ (Len(Pipeline) + 1 - pos) * NodeSteps = (7 - pos) * NodeSteps
        /\ (Len(Pipeline) + 1 - pos') * NodeSteps = (7 - pos') * NodeSteps
    BY <1>1, <1>2, PipelineNodes
  <2>3. QED
    BY <2>1, <2>2 DEF StepsLeft
<1>4. CASE Ends
  BY <1>4, <1>3, StepsLeftBounds, EveryStepAdvances DEF Ends
<1>5. CASE ~Ends
  <2>1. pos' = pos + 1 \/ (pos' = pos /\ NodeStepsLeft' < NodeStepsLeft)
    <3>1. CASE NextNode
      BY <3>1 DEF NextNode
    <3>2. CASE Enters \/ NextTry
      <4> DEFINE n == Len(Chain)
      <4>1. n \in Nat /\ at \in 0..(n + 1) /\ tries \in 0..1
        BY TypeParts, ChainFacts DEF IInv, RouterType, MaxAttempts
      <4> HIDE DEF n
      <4>2. /\ NodeStepsLeft = IF at = 0 THEN 2 * n + 3 ELSE 2 * (n + 1 - at) - tries + 1
            /\ NodeStepsLeft' = IF at' = 0 THEN 2 * n + 3 ELSE 2 * (n + 1 - at') - tries' + 1
        BY <4>1 DEF NodeSteps, NodeStepsLeft, MaxAttempts, n
      <4>3. CASE Enters
        BY <4>1, <4>2, <4>3 DEF Enters
      <4>4. CASE NextTry
        BY <4>1, <4>2, <4>4 DEF NextTry
      <4>5. QED
        BY <3>2, <4>3, <4>4
    <3>3. QED
      BY <1>5, <3>1, <3>2, EveryStepAdvances
  <2>2. (7 - pos') * NodeSteps + NodeStepsLeft' < (7 - pos) * NodeSteps + NodeStepsLeft
    BY <1>1, <1>2, <2>1, Countdown
  <2>3. result' = "running"
    BY <1>5 DEF Ends
  <2>4. /\ (7 - pos) * NodeSteps + NodeStepsLeft \in Int
        /\ (7 - pos') * NodeSteps + NodeStepsLeft' \in Int
    BY <1>1, <1>2
  <2>5. QED
    BY <1>3, <2>2, <2>3, <2>4
<1>6. QED
  BY <1>4, <1>5

\* A run takes a bounded number of steps, of which every one brings it nearer to its end:
\* six nodes, the end, and two attempts of each provider (MAX_ATTEMPTS_PER_PROVIDER),
\* whatever fails and however long the chain is.  With a thread that keeps running, this is
\* why every run ends.
THEOREM RunsAreBounded ==
  Spec => [](StepsLeft \in 0..(7 * NodeSteps)) /\ [][StepsLeft' < StepsLeft]_vars
<1>1. IInv => StepsLeft \in 0..(7 * NodeSteps)
  BY StepsLeftBounds
<1>2. IInv /\ [Next]_vars /\ IInv' => [StepsLeft' < StepsLeft]_vars
  BY EveryStepCounts
<1>3. QED
  BY <1>1, <1>2, Invariance, PTL DEF Spec
=============================================================================
