--------------------------- MODULE PromptSampler ---------------------------
(***************************************************************************)
(* What a mutation prompt shows: which context sources, files of the       *)
(* parent, metrics, failures and inspirations the policy of a prompt       *)
(* selects and what is told of each, which sections are packed away when   *)
(* the prompt is over its budget, and what the final cap does.  A text is  *)
(* a sequence of lines and counts one a line, or only a length; a          *)
(* selection is a sequence; a bound that is not set is None.               *)
(***************************************************************************)
EXTENDS PromptFeedback

CONSTANTS
  PathOrder,        \* all paths, in the order of the alphabet
  Template,         \* how often a template has each field
  Overhead,         \* what it has besides
  FixedSections,    \* length of the sections that no policy changes
  InstructionLength,  \* length of each part of the instructions
  MarkerLength,     \* what stands for a section that is left out
  TaskTerms,        \* words of the task
  MaxExtra,         \* longest extra context
  DeclaredMetrics,  \* metrics of the problem, in its order
  InspirationCount, CaptureMetadata,  \* configuration of the run
  TokenLength       \* how much of a text one token of the provider is

ASSUME SamplerAssumption == MarkerLength \in Nat

Bounded(value, bounds) ==
  /\ bounds.min # None => value >= bounds.min
  /\ bounds.max # None => value <= bounds.max

(* The elements of s at some places, greater keys first, equal keys in the *)
(* order they had: each comes after as many as are to come before it.      *)
SortedAt(s, places, Key(_)) ==
  LET ahead == [i \in places |->
                  Cardinality({j \in places : Key(s[j]) > Key(s[i])
                                               \/ (Key(s[j]) = Key(s[i]) /\ j < i)})]
  IN [n \in 1 .. Cardinality(places) |-> s[CHOOSE i \in places : ahead[i] = n - 1]]

SortedBy(s, Key(_)) == SortedAt(s, DOMAIN s, Key)

(***************************************************************************)
(* Context sources and files of the parent.                                *)
(***************************************************************************)
SourceSelection(p) ==
  [paths |-> p.context_source_paths, required |-> ToSet(p.context_source_required_terms),
   excluded |-> ToSet(p.context_source_excluded_terms),
   ranking |-> ToSet(p.context_source_ranking_terms),
   ranked |-> p.context_source_order_policy = "task_term_ranked",
   limit |-> p.context_source_limit, cap |-> p.context_source_max_chars,
   ends |-> p.context_source_truncation]

FileSelection(p) ==
  [paths |-> p.parent_code_paths, required |-> ToSet(p.parent_code_required_terms),
   excluded |-> ToSet(p.parent_code_excluded_terms),
   ranking |-> ToSet(p.parent_code_ranking_terms),
   ranked |-> p.parent_code_order_policy = "task_term_ranked",
   limit |-> p.parent_code_limit, caps |-> p.parent_code_max_chars_by_path,
   total |-> p.parent_code_max_chars]

SourceTerms(texts) == [p \in DOMAIN texts |-> ToSet(texts[p])]
FileTerms(texts) == [p \in DOMAIN texts |-> ToSet(texts[p]) \cup {p}]

(* The notice that a file of the parent is cut is cut itself.              *)
CutFile(text, cap) == IF cap = None \/ Len(text) <= cap THEN text ELSE SubSeq(text, 1, cap)

CutSource(text, cap, ends) ==
  LET head == (cap + 1) \div 2
  IN CASE cap = None \/ Len(text) <= cap -> text
       [] cap # None /\ Len(text) > cap /\ ends = "head_tail" ->
            SubSeq(text, 1, head) \o SubSeq(text, Len(text) - (cap - head) + 1, Len(text))
       [] OTHER -> SubSeq(text, 1, cap)

PathsAsked(texts, policy) ==
  SelectSeq(IF policy.paths # <<>> THEN policy.paths ELSE PathOrder,
            LAMBDA p : p \in DOMAIN texts)

HasTerms(terms, policy) ==
  policy.required \subseteq terms /\ policy.excluded \cap terms = {}

Eligible(texts, policy, terms) ==
  SelectSeq(PathsAsked(texts, policy), LAMBDA p : HasTerms(terms[p], policy))

Score(terms, policy) ==
  Cardinality(terms \cap (IF policy.ranking # {} THEN policy.ranking ELSE TaskTerms))

(* Mutant: the limit is applied before the ranking.                        *)
LimitedThenRanked(texts, policy, terms, seen) ==
  LET limited == FirstN(Eligible(texts, policy, terms), policy.limit)
  IN IF policy.ranked THEN SortedBy(limited, LAMBDA p : Score(seen[p], policy))
     ELSE limited

(* Filtered by the words of the texts, ranked by what is seen of them, then *)
(* limited.                                                                *)
SelectPaths(texts, policy, terms, seen) ==
  LET eligible == Eligible(texts, policy, terms)
      ranked == IF policy.ranked
                THEN SortedBy(eligible, LAMBDA p : Score(seen[p], policy))
                ELSE eligible
  IN FirstN(ranked, policy.limit)

SourcesShown(sources, policy) ==
  SelectPaths(sources, policy, SourceTerms(sources),
              [p \in DOMAIN sources |-> ToSet(CutSource(sources[p], policy.cap, policy.ends))])

FilesShown(files, policy) ==
  SelectPaths(files, policy, FileTerms(files), FileTerms(files))

(* A problem without sources shows "(none)"; one whose sources are all     *)
(* filtered out shows nothing.  A source has one line of header.           *)
ContextLength(sources, policy) ==
  IF DOMAIN sources = {} THEN 1
  ELSE SumOver(SourcesShown(sources, policy),
               LAMBDA p : 1 + Len(CutSource(sources[p], policy.cap, policy.ends)))

(* A header for the workspace, for each static member and for each file,   *)
(* and a line each for what is left out and what is asked for and missing. *)
WorkspaceLength(w, policy) ==
  LET shown == FilesShown(w.files, policy)
      leftOut == Len(shown) < Cardinality(DOMAIN w.files)
      missing == \E p \in ToSet(policy.paths) : p \notin DOMAIN w.files
  IN 1 + Cardinality(DOMAIN w.statics)
       + SumOver(shown, LAMBDA p : 1 + Len(CutFile(w.files[p], Given(policy.caps, p, None))))
       + (IF leftOut THEN 1 ELSE 0) + (IF missing THEN 1 ELSE 0)

ParentCodeLength(w, policy) ==
  LET length == WorkspaceLength(w, policy)
  IN IF policy.total = 0 /\ length > 0 THEN MarkerLength ELSE CutLength(length, policy.total)

(***************************************************************************)
(* Metrics of the parent, a sequence of records [name, length]: those the  *)
(* problem declares, in its order, then those a grader named.              *)
(***************************************************************************)
GradedMetrics(evaluation) ==
  {r.metric : r \in {r \in ToSet(Table(evaluation, "llm_feedback")) : "metric" \in DOMAIN r}}

OrderedMetrics(metrics, evaluation) ==
  FlattenSeq([n \in DOMAIN DeclaredMetrics |->
                SelectSeq(metrics, LAMBDA m : m.name = DeclaredMetrics[n])])
    \o SelectSeq(metrics, LAMBDA m :
                   m.name \in GradedMetrics(evaluation) \ ToSet(DeclaredMetrics))

MetricsTold(p, metrics, evaluation) ==
  LET selected == SelectSeq(OrderedMetrics(metrics, evaluation), LAMBDA m :
                    p.parent_metric_names = None \/ m.name \in ToSet(p.parent_metric_names))
      capped == [n \in DOMAIN selected |-> [selected[n] EXCEPT
                   !.length = ShortField(@, Given(p.parent_metrics_max_chars_by_name,
                                                  selected[n].name, None))]]
  IN SelectSeq(capped, LAMBDA m : m.length > 0)

NoneOr(length) == IF length = 0 THEN 1 ELSE length

MetricsLength(told) == NoneOr(SumOver(told, LAMBDA m : m.length))

(***************************************************************************)
(* Failures.  A failure is a record [labels, score, times, told,           *)
(* evaluation]: its error, stage, file and word labels, its score or None, *)
(* how often it was seen, the lengths of its texts, and its evaluation or  *)
(* None.                                                                   *)
(***************************************************************************)
AnyOf == {"error", "file", "stage"}

FailureSelection(p) ==
  [required |-> [error |-> ToSet(p.recent_failure_required_errors),
                 file |-> ToSet(p.recent_failure_required_changed_files),
                 stage |-> ToSet(p.recent_failure_required_stage_names),
                 term |-> ToSet(p.recent_failure_required_terms)],
   excluded |-> [error |-> ToSet(p.recent_failure_excluded_errors),
                 file |-> ToSet(p.recent_failure_excluded_changed_files),
                 stage |-> ToSet(p.recent_failure_excluded_stage_names),
                 term |-> ToSet(p.recent_failure_excluded_terms)],
   times |-> p.recent_failure_repetition_threshold, score |-> p.recent_failure_score_threshold,
   pick |-> p.recent_failure_selection_policy, limit |-> p.recent_failure_limit]

FailureAllowed(f, policy) ==
  /\ \A kind \in AnyOf : policy.required[kind] # {} => policy.required[kind] \cap f.labels[kind] # {}
  /\ policy.required["term"] \subseteq f.labels["term"]
  /\ \A kind \in AnyOf \cup {"term"} : policy.excluded[kind] \cap f.labels[kind] = {}
  /\ policy.times # None => Bounded(f.times, policy.times)
  /\ policy.score # None => f.score # None /\ Bounded(f.score, policy.score)

(* Mutant: the oldest are shown for the most recent.                       *)
FirstFailures(failures, policy) ==
  FirstN(SelectSeq(failures, LAMBDA f : FailureAllowed(f, policy)), policy.limit)

(* The most recent ones in the order they happened, or the first ones in   *)
(* the order of the policy; a failure without a score is worst in it.      *)
FailuresShown(failures, policy) ==
  LET allowed == SelectSeq(failures, LAMBDA f : FailureAllowed(f, policy))
      scored == SelectSeq(allowed, LAMBDA f : f.score # None)
      unscored == SelectSeq(allowed, LAMBDA f : f.score = None)
  IN CASE policy.pick = "recent" -> LastN(allowed, policy.limit)
       [] policy.pick = "oldest" -> FirstN(allowed, policy.limit)
       [] policy.pick = "lowest_score" ->
            FirstN(SortedBy(scored, LAMBDA f : 0 - f.score) \o unscored, policy.limit)
       [] policy.pick = "highest_repetition" ->
            FirstN(SortedBy(allowed, LAMBDA f : f.times), policy.limit)

ShortFailure(caps, field, length) == ShortField(length, Given(caps, field, FieldMax))

(* A stage has a name in any case, and its status and its score.           *)
FailedStageLength(caps, stage) ==
  NoneOr(ShortFailure(caps, "stage_name", Given(stage, "name", 0)))
    + ShortFailure(caps, "stage_error", Given(stage, "error", 0)) + 1

(* The diagnostics of a failure are told by the default policy.            *)
FailureEvaluation(caps, evaluation) ==
  LET output == OneRecord(evaluation, "execution_output")
      stages == LastN(Table(evaluation, "stages"), MaxItems)
      diagnostics == LinesLength(DiagnosticLines(DefaultPolicy, evaluation))
      grades == LinesLength(LlmFeedbackLines(DefaultPolicy, Table(evaluation, "llm_feedback")))
  IN [evaluation_error |-> ShortFailure(caps, "evaluation_error", Given(output, "error", 0)),
      evaluation_stdout |-> ShortFailure(caps, "evaluation_stdout", Given(output, "stdout", 0)),
      evaluation_stderr |-> ShortFailure(caps, "evaluation_stderr", Given(output, "stderr", 0)),
      stages |-> SumOver(stages, LAMBDA s : FailedStageLength(caps, s)),
      diagnostics |-> ShortFailure(caps, "diagnostics", diagnostics),
      llm_feedback |-> ShortFailure(caps, "llm_feedback", grades)]

ChangedFilesLength(caps, lengths) ==
  IF lengths = <<>> THEN 1
  ELSE SumOver(lengths, LAMBDA n : ShortFailure(caps, "changed_file", n))

(* Any failure has an error; what is told of its evaluation has a cap too. *)
FailureText(caps, f) ==
  LET error == Given(f.told, "error", Given(f.told, "diff_error", 1))
  IN [error |-> ShortFailure(caps, "error", error),
      diff_error |-> ShortFailure(caps, "diff_error", Given(f.told, "diff_error", 0)),
      changed_files |-> ChangedFilesLength(caps, f.told.changed_files),
      mutation |-> ShortFailure(caps, "mutation", Given(f.told, "mutation", 0)),
      evaluation |-> IF f.evaluation = None THEN 0
                     ELSE ShortFailure(caps, "evaluation",
                                       Sum(FailureEvaluation(caps, f.evaluation)))]

(* A header for them all, and with each its score and its repetitions.     *)
FailuresLength(caps, shown) ==
  IF shown = <<>> THEN 0 ELSE 1 + SumOver(shown, LAMBDA f : 2 + Sum(FailureText(caps, f)))

(***************************************************************************)
(* Inspirations.  A program is a record [id, fitness, metrics, size,       *)
(* evaluation], where size is the length of its files; the pool sampled is *)
(* wider than what is asked for when a filter may thin it.                 *)
(***************************************************************************)
InspirationSelection(p) ==
  [required |-> p.inspiration_required_metric,
   excluded |-> ToSet(p.inspiration_excluded_metrics),
   fitness |-> p.inspiration_fitness_threshold, thresholds |-> p.inspiration_metric_thresholds,
   ranking |-> p.inspiration_metric_ranking, limit |-> p.inspiration_limit,
   count |-> IF p.inspiration_sample_count = None THEN InspirationCount
             ELSE p.inspiration_sample_count]

Filtering(policy) ==
  \/ policy.required # None \/ policy.excluded # {} \/ policy.fitness # None
  \/ DOMAIN policy.thresholds # {} \/ policy.ranking # None

PoolCount(policy) ==
  IF Filtering(policy) /\ policy.count > 0
  THEN IF policy.count * 5 > 20 THEN policy.count * 5 ELSE 20
  ELSE policy.count

InspirationAllowed(i, policy) ==
  /\ policy.required # None => policy.required \in DOMAIN i.metrics
  /\ policy.excluded \cap DOMAIN i.metrics = {}
  /\ policy.fitness # None => Bounded(i.fitness, policy.fitness)
  /\ \A m \in DOMAIN policy.thresholds :
       m \in DOMAIN i.metrics /\ Bounded(i.metrics[m], policy.thresholds[m])

RankedByMetric(inspirations, ranking) ==
  LET Has(i) == ranking.metric \in DOMAIN i.metrics
      Lacks(i) == ~Has(i)
      Value(i) == IF ranking.direction = "maximize" THEN i.metrics[ranking.metric]
                  ELSE 0 - i.metrics[ranking.metric]
  IN IF ranking = None THEN inspirations
     ELSE SortedBy(SelectSeq(inspirations, Has), Value) \o SelectSeq(inspirations, Lacks)

InspirationsShown(sampled, policy) ==
  LET pool == FirstN(sampled, PoolCount(policy))
      allowed == SelectSeq(pool, LAMBDA i : InspirationAllowed(i, policy))
      chosen == IF Filtering(policy)
                THEN FirstN(RankedByMetric(allowed, policy.ranking), policy.count) ELSE pool
  IN FirstN(chosen, policy.limit)

(* Of an inspiration all sections of its feedback are told in full, and    *)
(* its proposal twice.                                                     *)
InspirationPolicyOf(p) ==
  [p EXCEPT !.feedback_sections = SortedSections,
            !.feedback_section_order = FeedbackOrder,
            !.feedback_section_max_chars_by_name = <<>>]

InspirationLength(p, i) ==
  LET feedback == Feedback(InspirationPolicyOf(p), i.evaluation)
  IN 1 + i.size + LinesLength(ProposalLines(p, i.evaluation))
       + (IF feedback.sections = <<>> THEN 0 ELSE feedback.length)

InspirationsLength(p, shown) == NoneOr(SumOver(shown, LAMBDA i : InspirationLength(p, i)))

(***************************************************************************)
(* Extra context and instructions.                                         *)
(***************************************************************************)
(* The policy cuts an extra context without saying so.                     *)
ExtraLength(p, length) ==
  LET validated == IF length <= MaxExtra THEN length ELSE MaxExtra + NoticeLength
  IN IF p.extra_context_max_chars = None THEN validated
     ELSE Prefix(validated, p.extra_context_max_chars)

AsksForMetadata(p) ==
  IF p.proposal_metadata_enabled = None THEN CaptureMetadata ELSE p.proposal_metadata_enabled

Instructions(p, mode) ==
  LET variant == p.mutation_instruction_variant
  IN (IF AsksForMetadata(p) THEN {"metadata"} ELSE {})
       \cup (IF variant = "minimal" THEN {"minimal"} ELSE {"rules"})
       \cup (IF variant = "exploratory" THEN {"exploratory"} ELSE {})
       \cup (IF mode = "diff" /\ variant # "minimal" /\ p.mutation_instruction_include_example
             THEN {"example"} ELSE {})

InstructionsLength(parts) == Sum([i \in parts |-> InstructionLength[i]])

(***************************************************************************)
(* The sections of a prompt, and the packing of those it can do without.   *)
(***************************************************************************)
Required == {"task", "parent_code", "mutation_instructions"}

DefaultPriorities ==
  [task |-> 0, mutation_instructions |-> 1, parent_code |-> 2, parent_score |-> 3,
   parent_metrics |-> 4, parent_feedback |-> 5, context |-> 6, extra_context |-> 7,
   inspirations |-> 8, recent_failures |-> 9, mutation_mode |-> 10]

Priorities(p) == [f \in ToSet(Fields) |-> Given(p.section_priorities, f, DefaultPriorities[f])]

(* What a prompt tells whatever workspace it asks to change.               *)
Told(p, input) ==
  [sources |-> SourcesShown(input.sources, SourceSelection(p)),
   metrics |-> MetricsTold(p, input.metrics, input.evaluation),
   feedback |-> Feedback(p, input.evaluation),
   failures |-> FailuresShown(input.failures, FailureSelection(p)),
   inspirations |-> InspirationsShown(input.inspirations, InspirationSelection(p))]

ToldLengths(p, input, told) ==
  [context |-> ContextLength(input.sources, SourceSelection(p)),
   parent_metrics |-> MetricsLength(told.metrics),
   parent_feedback |-> told.feedback.length,
   inspirations |-> InspirationsLength(p, told.inspirations),
   recent_failures |-> FailuresLength(p.recent_failure_max_chars_by_field, told.failures),
   extra_context |-> ExtraLength(p, input.extra)]

(* A section the policy disables is replaced by a marker, whatever it has. *)
SectionLengths(w, mode, p, lengths) ==
  [f \in ToSet(Fields) |->
     CASE f \in ToSet(p.disabled_sections) -> MarkerLength
       [] f = "parent_code" -> ParentCodeLength(w, FileSelection(p))
       [] f = "mutation_instructions" -> InstructionsLength(Instructions(p, mode))
       [] OTHER -> (lengths @@ FixedSections)[f]]

RenderedLength(lengths) == Overhead + SumOver(Fields, LAMBDA f : Template[f] * lengths[f])

(* With a counter of the provider the token limit is not turned into a     *)
(* number of characters.                                                   *)
EffectiveMax(budget) ==
  LET byTokens == IF budget.tokens = None THEN None ELSE budget.tokens * 4
  IN CASE budget.counted \/ byTokens = None -> budget.chars
       [] ~budget.counted /\ byTokens # None /\ budget.chars = None -> byTokens
       [] OTHER -> IF byTokens < budget.chars THEN byTokens ELSE budget.chars

Tokens(length) == (length + TokenLength - 1) \div TokenLength

TokensFit(length, budget) ==
  budget.counted /\ budget.tokens # None => Tokens(length) <= budget.tokens

WithinBudget(length, budget) ==
  /\ EffectiveMax(budget) # None => length <= EffectiveMax(budget)
  /\ TokensFit(length, budget)

(* The score of the parent is no text and is never packed.                 *)
OptionalPlaces ==
  {n \in DOMAIN Fields :
     Fields[n] \notin Required /\ Template[Fields[n]] > 0 /\ Fields[n] # "parent_score"}

(* Mutant: what matters most goes first.                                   *)
PackingFromTheTop(priorities) ==
  SortedAt(Fields, OptionalPlaces, LAMBDA f : 0 - priorities[f])

(* Greatest priority number first, by name among equals.                   *)
PackingOrder(priorities) == SortedAt(Fields, OptionalPlaces, LAMBDA f : priorities[f])

(* Mutant: packing goes on to the last section.                            *)
PackEverySection(lengths, f, budget) ==
  IF lengths[f] <= MarkerLength THEN lengths ELSE [lengths EXCEPT ![f] = MarkerLength]

PackSection(lengths, f, budget) ==
  IF WithinBudget(RenderedLength(lengths), budget) \/ lengths[f] <= MarkerLength
  THEN lengths ELSE [lengths EXCEPT ![f] = MarkerLength]

Pack(lengths, budget, priorities) ==
  FoldLeft(LAMBDA ls, f : PackSection(ls, f, budget), lengths, PackingOrder(priorities))

RequiredLength(lengths) ==
  Overhead + SumOver(SelectSeq(Fields, LAMBDA f : f \in Required),
                     LAMBDA f : Template[f] * lengths[f])

PackingStatus(lengths, packed, budget) ==
  LET max == EffectiveMax(budget)
  IN CASE max = None /\ (budget.tokens = None \/ ~budget.counted) -> "not_configured"
       [] max # None \/ (budget.tokens # None /\ budget.counted) ->
            CASE WithinBudget(RenderedLength(lengths), budget) -> "within_budget"
              [] ~WithinBudget(RenderedLength(lengths), budget)
                   /\ WithinBudget(RenderedLength(packed), budget) -> "packed_optional_sections"
              [] OTHER ->
                   IF \/ max # None /\ RequiredLength(packed) > max
                      \/ ~TokensFit(RenderedLength(packed), budget)
                   THEN "required_sections_exceed_budget"
                   ELSE "packed_optional_sections_still_over_budget"

(* The middle of what is still too long is cut out.                        *)
CappedLength(length, budget) ==
  IF EffectiveMax(budget) = None \/ length <= EffectiveMax(budget) THEN length
  ELSE EffectiveMax(budget)

PackedPrompt(files, budget, unpacked, packed) ==
  [lengths |-> unpacked, packed |-> packed, files |-> files,
   status |-> PackingStatus(unpacked, packed, budget),
   final |-> CappedLength(RenderedLength(packed), budget)]

PromptOf(files, p, budget, unpacked) ==
  PackedPrompt(files, budget, unpacked, Pack(unpacked, budget, Priorities(p)))

BuildPrompt(w, mode, p, lengths, budget) ==
  PromptOf(FilesShown(w.files, FileSelection(p)), p, budget, SectionLengths(w, mode, p, lengths))
=============================================================================
