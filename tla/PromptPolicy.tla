---------------------------- MODULE PromptPolicy ----------------------------
(***************************************************************************)
(* The context policy of a prompt: which fields it may have, what a value  *)
(* of each may be, and the policy that is meant by what is given of it.  A *)
(* policy is a function from the names of its fields.  The fields that     *)
(* select and cap what is told of one group of diagnostics are in its      *)
(* field "groups", under the name of the group.                            *)
(***************************************************************************)
EXTENDS CandidateWorkspace

CONSTANTS
  Malformed,       \* stands for a value of another type, and for a refused one
  SafeLabels,      \* labels and words that a manifest may have
  SecretLabels,    \* those that look like a secret
  LowerCase        \* a word in small letters

Given(x, f, default) == IF f \in DOMAIN x THEN x[f] ELSE default

(***************************************************************************)
(* What a field may be given as.                                           *)
(***************************************************************************)
Optional(raw, default, valid, value) ==
  IF raw = None THEN default ELSE IF raw # Malformed /\ valid THEN value ELSE Malformed

(* A field that may be left out and may not be null.                       *)
Mandatory(raw, valid) == Optional(raw, Malformed, valid, raw)

Distinct(s) ==
  FoldLeft(LAMBDA seen, x : IF x \in ToSet(seen) THEN seen ELSE Append(seen, x), <<>>, s)

AreLabels(names) == names \subseteq SafeLabels \ SecretLabels

Labels(raw) == Optional(raw, <<>>, AreLabels(ToSet(raw)), Distinct(raw))
Label(raw) == Optional(raw, None, AreLabels({raw}), raw)
Terms(raw) ==
  Optional(raw, <<>>, AreLabels(ToSet(raw)),
           Distinct([n \in DOMAIN raw |-> LowerCase[raw[n]]]))
Chosen(raw, known) == Optional(raw, known, ToSet(raw) \subseteq ToSet(known), Distinct(raw))
OneOf(raw, known) == Optional(raw, None, raw \in known, raw)
AtLeast(raw, least) == Optional(raw, None, raw >= least, raw)

Capped(raw, valid) == Optional(raw, <<>>, Range(raw) \subseteq Nat /\ valid, raw)

(* Mutant: bounds that nothing is within are taken.                        *)
BoundsUnordered(raw, least) ==
  LET bounds == [b \in {"min", "max"} |-> Given(raw, b, None)]
      given == {b \in {"min", "max"} : bounds[b] # None}
  IN Optional(raw, None,
              /\ DOMAIN raw \subseteq {"min", "max"}
              /\ given # {}
              /\ least # None => \A b \in given : bounds[b] >= least,
              bounds)

Bounds(raw, least) ==
  LET bounds == [b \in {"min", "max"} |-> Given(raw, b, None)]
      given == {b \in {"min", "max"} : bounds[b] # None}
  IN Optional(raw, None,
              /\ DOMAIN raw \subseteq {"min", "max"}
              /\ given # {}
              /\ least # None => \A b \in given : bounds[b] >= least
              /\ Cardinality(given) = 2 => bounds.min <= bounds.max,
              bounds)

(***************************************************************************)
(* Sections and instructions.                                              *)
(***************************************************************************)
Fields ==
  <<"context", "extra_context", "inspirations", "mutation_instructions", "mutation_mode",
    "parent_code", "parent_feedback", "parent_metrics", "parent_score", "recent_failures", "task">>

OptionalSections ==
  {"context", "parent_score", "parent_metrics", "parent_feedback", "inspirations",
   "extra_context", "recent_failures", "mutation_mode"}

DisabledSections(raw) ==
  LET valid == ToSet(raw) \subseteq OptionalSections
  IN IF Mandatory(raw, valid) = Malformed THEN Malformed ELSE Distinct(raw)
SectionPriorities(raw) == Mandatory(raw, DOMAIN raw \subseteq ToSet(Fields) /\ Range(raw) \subseteq 0..999)
InstructionVariant(raw) == Mandatory(raw, raw \in {"default", "minimal", "exploratory"})
IncludeExample(raw) == Mandatory(raw, raw \in BOOLEAN)
MetadataEnabled(raw) == OneOf(raw, BOOLEAN)
FormatWeights(raw) ==
  Mandatory(raw, /\ AreLabels(DOMAIN raw)
                 /\ \A n \in DOMAIN raw : raw[n] # <<>> /\ ToSet(raw[n]) \subseteq Nat \ {0})
ExtraContextCap(raw) == AtLeast(raw, 0)

SectionPolicy(p) ==
  [disabled_sections |-> DisabledSections(Given(p, "disabled_sections", <<>>)),
   section_priorities |-> SectionPriorities(Given(p, "section_priorities", <<>>)),
   mutation_instruction_variant |->
     InstructionVariant(Given(p, "mutation_instruction_variant", "default")),
   mutation_instruction_include_example |->
     IncludeExample(Given(p, "mutation_instruction_include_example", TRUE)),
   proposal_metadata_enabled |-> MetadataEnabled(Given(p, "proposal_metadata_enabled", None)),
   prompt_format_weights |-> FormatWeights(Given(p, "prompt_format_weights", <<>>)),
   extra_context_max_chars |-> ExtraContextCap(Given(p, "extra_context_max_chars", None))]

(***************************************************************************)
(* The parent and the context sources.                                     *)
(***************************************************************************)
ParentMetricNames(raw) == Optional(raw, None, AreLabels(ToSet(raw)), Distinct(raw))
ParentMetricCaps(raw) == Capped(raw, AreLabels(DOMAIN raw))
ParentCodePaths(raw) == Optional(raw, <<>>, \A p \in ToSet(raw) : PathIsSafe(p, {}), Distinct(raw))
ParentCodeCaps(raw) == Capped(raw, \A p \in DOMAIN raw : PathIsSafe(p, {}))
OrderPolicy(raw) == Mandatory(raw, raw \in {"path_order", "task_term_ranked"})
Truncation(raw) == Mandatory(raw, raw \in {"head", "head_tail"})

ParentPolicy(p) ==
  [parent_metric_names |-> ParentMetricNames(Given(p, "parent_metric_names", None)),
   parent_metrics_max_chars_by_name |->
     ParentMetricCaps(Given(p, "parent_metrics_max_chars_by_name", None)),
   parent_code_paths |-> ParentCodePaths(Given(p, "parent_code_paths", None)),
   parent_code_required_terms |-> Terms(Given(p, "parent_code_required_terms", None)),
   parent_code_excluded_terms |-> Terms(Given(p, "parent_code_excluded_terms", None)),
   parent_code_ranking_terms |-> Terms(Given(p, "parent_code_ranking_terms", None)),
   parent_code_order_policy |-> OrderPolicy(Given(p, "parent_code_order_policy", "path_order")),
   parent_code_limit |-> AtLeast(Given(p, "parent_code_limit", None), 0),
   parent_code_max_chars_by_path |->
     ParentCodeCaps(Given(p, "parent_code_max_chars_by_path", None)),
   parent_code_max_chars |-> AtLeast(Given(p, "parent_code_max_chars", None), 0),
   parent_code_truncation |-> Truncation(Given(p, "parent_code_truncation", "head"))]

(* A context source, or a file that a failure changed, may have any path   *)
(* that stays in the problem.                                              *)
ContextPaths(raw) == Optional(raw, <<>>, ToSet(raw) \cap UnsafePaths = {}, Distinct(raw))

SourcePolicy(p) ==
  [context_source_paths |-> ContextPaths(Given(p, "context_source_paths", None)),
   context_source_required_terms |-> Terms(Given(p, "context_source_required_terms", None)),
   context_source_excluded_terms |-> Terms(Given(p, "context_source_excluded_terms", None)),
   context_source_ranking_terms |-> Terms(Given(p, "context_source_ranking_terms", None)),
   context_source_limit |-> AtLeast(Given(p, "context_source_limit", None), 0),
   context_source_max_chars |-> AtLeast(Given(p, "context_source_max_chars", None), 0),
   context_source_truncation |-> Truncation(Given(p, "context_source_truncation", "head")),
   context_source_order_policy |->
     OrderPolicy(Given(p, "context_source_order_policy", "path_order"))]

(***************************************************************************)
(* Inspirations and failures.                                              *)
(***************************************************************************)
Strategies ==
  {"mixed", "random", "selection", "metric", "frontier", "lineage", "novelty", "recency"}
FitnessThreshold(raw) == Bounds(raw, None)
MetricThresholds(raw) ==
  IF Mandatory(raw, AreLabels(DOMAIN raw)) = Malformed THEN Malformed
  ELSE LET bounds == [m \in DOMAIN raw |-> Bounds(raw[m], None)]
       IN IF \E m \in DOMAIN raw : bounds[m] \in {None, Malformed} THEN Malformed ELSE bounds
MetricRanking(raw) ==
  LET ranking == [metric |-> Given(raw, "metric", Malformed),
                  direction |-> Given(raw, "direction", "maximize")]
  IN Optional(raw, None,
              /\ DOMAIN raw \subseteq DOMAIN ranking
              /\ AreLabels({ranking.metric})
              /\ ranking.direction \in {"maximize", "minimize"},
              ranking)

InspirationPolicy(p) ==
  [inspiration_strategy |-> OneOf(Given(p, "inspiration_strategy", None), Strategies),
   inspiration_required_metric |-> Label(Given(p, "inspiration_required_metric", None)),
   inspiration_excluded_metrics |-> Labels(Given(p, "inspiration_excluded_metrics", None)),
   inspiration_fitness_threshold |->
     FitnessThreshold(Given(p, "inspiration_fitness_threshold", None)),
   inspiration_metric_thresholds |->
     MetricThresholds(Given(p, "inspiration_metric_thresholds", <<>>)),
   inspiration_metric_ranking |-> MetricRanking(Given(p, "inspiration_metric_ranking", None)),
   inspiration_limit |-> AtLeast(Given(p, "inspiration_limit", None), 0),
   inspiration_sample_count |-> AtLeast(Given(p, "inspiration_sample_count", None), 0)]

FailureFields ==
  {"error", "diff_error", "changed_file", "mutation", "evaluation", "evaluation_error",
   "evaluation_stdout", "evaluation_stderr", "stage_name", "stage_error", "diagnostics",
   "llm_feedback"}
FailurePick(raw) == Mandatory(raw, raw \in {"recent", "oldest", "lowest_score", "highest_repetition"})
RepetitionThreshold(raw) == Bounds(raw, 1)
ScoreThreshold(raw) == Bounds(raw, None)
FailureCaps(raw) == Capped(raw, DOMAIN raw \subseteq FailureFields)

FailurePolicy(p) ==
  [recent_failure_limit |-> AtLeast(Given(p, "recent_failure_limit", None), 0),
   recent_failure_selection_policy |->
     FailurePick(Given(p, "recent_failure_selection_policy", "recent")),
   recent_failure_required_errors |-> Labels(Given(p, "recent_failure_required_errors", None)),
   recent_failure_excluded_errors |-> Labels(Given(p, "recent_failure_excluded_errors", None)),
   recent_failure_required_changed_files |->
     ContextPaths(Given(p, "recent_failure_required_changed_files", None)),
   recent_failure_excluded_changed_files |->
     ContextPaths(Given(p, "recent_failure_excluded_changed_files", None)),
   recent_failure_required_stage_names |->
     Labels(Given(p, "recent_failure_required_stage_names", None)),
   recent_failure_excluded_stage_names |->
     Labels(Given(p, "recent_failure_excluded_stage_names", None)),
   recent_failure_required_terms |-> Terms(Given(p, "recent_failure_required_terms", None)),
   recent_failure_excluded_terms |-> Terms(Given(p, "recent_failure_excluded_terms", None)),
   recent_failure_repetition_threshold |->
     RepetitionThreshold(Given(p, "recent_failure_repetition_threshold", None)),
   recent_failure_score_threshold |->
     ScoreThreshold(Given(p, "recent_failure_score_threshold", None)),
   recent_failure_max_chars_by_field |->
     FailureCaps(Given(p, "recent_failure_max_chars_by_field", None))]

(***************************************************************************)
(* Feedback on the parent: its sections, and what each group tells.        *)
(***************************************************************************)
FeedbackOrder ==
  <<"proposal", "stage_summary", "execution_output", "sample_retry_diagnostics",
    "validator_artifacts", "validator_diagnostics", "program_outputs", "llm_grader_feedback">>

SortedSections ==
  <<"execution_output", "llm_grader_feedback", "program_outputs", "proposal",
    "sample_retry_diagnostics", "stage_summary", "validator_artifacts", "validator_diagnostics">>

FeedbackSections(raw) ==
  Optional(raw, SortedSections, ToSet(raw) \subseteq ToSet(FeedbackOrder), Distinct(raw))

(* Mutant: a section the policy does not order is not shown.               *)
SectionOrderAsGiven(raw) ==
  Optional(raw, FeedbackOrder, ToSet(raw) \subseteq ToSet(FeedbackOrder), Distinct(raw))

(* Sections that the policy does not order come after those it does.       *)
FeedbackSectionOrder(raw) ==
  Optional(raw, FeedbackOrder, ToSet(raw) \subseteq ToSet(FeedbackOrder),
           Distinct(raw \o FeedbackOrder))
FeedbackSectionCaps(raw) == Capped(raw, DOMAIN raw \subseteq ToSet(FeedbackOrder))

DiagnosticOrder ==
  <<"evaluator_dependency", "evaluator_path", "evaluator_stage", "evaluator_workspace",
    "syntax_errors", "metric_bound_diagnostics", "configured_stage_checks", "malformed_metrics",
    "materialization_error", "metric_aggregation", "synthetic_metrics", "execution_diagnostics",
    "metadata_summary">>

ExecutionOrder ==
  <<"validator_boundary", "validator_budget", "validator_env", "stdin", "diagnostic_output",
    "timeout_cleanup">>

DiagnosticGroups(raw) == Chosen(raw, DiagnosticOrder)
ExecutionGroups(raw) == Chosen(raw, ExecutionOrder)

MetadataKeys(raw) == Labels(raw)
MetadataCaps(raw) == Capped(raw, DOMAIN raw \subseteq SafeLabels)
ContentMode(raw) == OneOf(raw, {"excerpt", "bounded_file", "off"})
ContentLimit(raw) == AtLeast(raw, 1)

FeedbackPolicy(p) ==
  [feedback_sections |-> FeedbackSections(Given(p, "feedback_sections", None)),
   feedback_section_order |-> FeedbackSectionOrder(Given(p, "feedback_section_order", None)),
   feedback_section_max_chars_by_name |->
     FeedbackSectionCaps(Given(p, "feedback_section_max_chars_by_name", None)),
   validator_diagnostic_groups |-> DiagnosticGroups(Given(p, "validator_diagnostic_groups", None)),
   execution_diagnostic_groups |-> ExecutionGroups(Given(p, "execution_diagnostic_groups", None)),
   validator_metadata_keys |-> MetadataKeys(Given(p, "validator_metadata_keys", None)),
   validator_metadata_limit |-> AtLeast(Given(p, "validator_metadata_limit", None), 0),
   validator_metadata_max_chars_by_key |->
     MetadataCaps(Given(p, "validator_metadata_max_chars_by_key", None)),
   validator_artifact_content_mode |->
     ContentMode(Given(p, "validator_artifact_content_mode", None)),
   validator_artifact_content_max_bytes |->
     ContentLimit(Given(p, "validator_artifact_content_max_bytes", None)),
   validator_artifact_content_max_chars |->
     ContentLimit(Given(p, "validator_artifact_content_max_chars", None))]

GroupPolicy(raw, known) ==
  LET caps == Given(raw, "caps", None)
  IN [fields |-> Chosen(Given(raw, "fields", None), known),
      caps |-> Capped(caps, DOMAIN caps \subseteq ToSet(known))]

LlmFeedback(raw) == GroupPolicy(raw, <<"name", "score", "discard", "error", "feedback">>)
ProposalGroup(raw) == GroupPolicy(raw, <<"idea", "rationale", "hypothesis">>)
StageSummary(raw) == GroupPolicy(raw, <<"name", "status", "score", "error", "io", "checks">>)
ExecutionOutput(raw) == GroupPolicy(raw, <<"stdout", "stderr", "error">>)
SampleRetry(raw) ==
  GroupPolicy(raw, <<"status", "stage", "sample", "attempt", "fitness", "error">>)
ProgramOutput(raw) ==
  GroupPolicy(raw, <<"source", "json_chars", "sha256", "redacted", "preview", "value">>)
ValidatorArtifact(raw) ==
  GroupPolicy(raw, <<"path", "stored", "sha256", "redacted", "content_excerpt",
                     "content_excerpt_truncated", "content_excerpt_status", "artifact_content">>)
(* Nothing caps the fields of this one.                                    *)
ArtifactContent(raw) ==
  [fields |-> Chosen(Given(raw, "fields", None),
                     <<"status", "bytes", "max_bytes", "chars", "truncated", "content">>),
   caps |-> Mandatory(Given(raw, "caps", <<>>), Given(raw, "caps", <<>>) = <<>>)]
SkippedArtifact(raw) ==
  GroupPolicy(raw, <<"path", "reason", "message", "size", "max_bytes", "redacted", "sha256", "value">>)
SyntaxErrors(raw) == GroupPolicy(raw, <<"path", "line", "offset", "message">>)
MetricBound(raw) ==
  GroupPolicy(raw, <<"metric", "value", "bounds", "direction", "normalized", "clamped">>)
ConfiguredStageCheck(raw) ==
  GroupPolicy(raw, <<"name", "local_valid", "threshold", "threshold_passed", "stop_reason",
                     "threshold_result_passed", "metric_thresholds", "artifact_output_checks">>)
StageMetricThreshold(raw) ==
  GroupPolicy(raw, <<"metric", "value", "min", "max", "passed", "reason">>)
ArtifactOutputCheck(raw) ==
  GroupPolicy(raw, <<"type", "passed", "reason", "path", "expected", "actual", "pattern",
                     "count", "min", "present">>)
MalformedMetric(raw) == GroupPolicy(raw, <<"reason", "message">>)
MaterializationErrors(raw) ==
  GroupPolicy(raw, <<"exception_type", "reason", "paths", "message">>)
EvaluatorPath(raw) ==
  GroupPolicy(raw, <<"validate_path", "validate_path_scope", "validate_path_hash",
                     "validate_path_redacted">>)
EvaluatorDependency(raw) ==
  GroupPolicy(raw, <<"policy", "allowed_scope", "outside_problem_policy", "file_count",
                     "file_paths", "file_hashes", "file_redactions">>)
EvaluatorStage(raw) ==
  GroupPolicy(raw, <<"name", "stage_index", "sample_index", "attempt", "seed", "validate_path",
                     "stdin_policy", "evaluator_data_enabled", "evaluator_data_file_count">>)
EvaluatorWorkspace(raw) == GroupPolicy(raw, <<"primary_file", "file_count", "files">>)
MetricAggregation(raw) ==
  GroupPolicy(raw, <<"sample_count", "attempt_count", "metric_aggregation">>)
SyntheticMetric(raw) == GroupPolicy(raw, <<"schema", "policy", "penalty", "metric_names">>)
ValidatorBoundary(raw) ==
  GroupPolicy(raw, <<"policy", "execution", "security_sandbox", "container", "filesystem",
                     "network_policy", "network_egress", "network_denial",
                     "network_denial_scope", "secret_boundary", "resource_limits">>)
ValidatorBudget(raw) ==
  GroupPolicy(raw, <<"policy", "max_stage_seconds", "max_sample_seconds", "elapsed_sec",
                     "remaining_sec", "exhausted">>)
ValidatorEnv(raw) ==
  GroupPolicy(raw, <<"policy", "default_keys", "allowlist", "provided_keys", "values_redacted">>)
ResourceLimit(raw) ==
  GroupPolicy(raw, <<"wall_clock_timeout", "cpu", "memory", "gpu", "disk", "process_count">>)
ValidatorStdin(raw) ==
  GroupPolicy(raw, <<"policy", "interactive_input", "generated_input", "source", "chars",
                     "bytes", "sha256", "text_retained">>)
DiagnosticOutput(raw) ==
  GroupPolicy(raw, <<"encoding", "stdout_bytes", "stderr_bytes", "stdout_replacement_count",
                     "stderr_replacement_count", "max_chars", "stdout_truncated",
                     "stderr_truncated", "redacted">>)
TimeoutCleanup(raw) ==
  GroupPolicy(raw, <<"method", "status", "process_group", "job_object", "reported_child_pids",
                     "error">>)

Of(groups, name) == Given(groups, name, <<>>)

(* What is told of what the parent and its stages did.                     *)
ReportGroups(groups) ==
  [llm_feedback |-> LlmFeedback(Of(groups, "llm_feedback")),
   proposal |-> ProposalGroup(Of(groups, "proposal")),
   stage_summary |-> StageSummary(Of(groups, "stage_summary")),
   execution_output |-> ExecutionOutput(Of(groups, "execution_output")),
   sample_retry |-> SampleRetry(Of(groups, "sample_retry")),
   program_output |-> ProgramOutput(Of(groups, "program_output")),
   validator_artifact |-> ValidatorArtifact(Of(groups, "validator_artifact")),
   artifact_content |-> ArtifactContent(Of(groups, "artifact_content")),
   skipped_artifact |-> SkippedArtifact(Of(groups, "skipped_artifact"))]

(* What is told of how the evaluator judged it.                            *)
ValidatorGroups(groups) ==
  [syntax_error |-> SyntaxErrors(Of(groups, "syntax_error")),
   metric_bound |-> MetricBound(Of(groups, "metric_bound")),
   configured_stage_check |-> ConfiguredStageCheck(Of(groups, "configured_stage_check")),
   stage_metric_threshold |-> StageMetricThreshold(Of(groups, "stage_metric_threshold")),
   artifact_output_check |-> ArtifactOutputCheck(Of(groups, "artifact_output_check")),
   malformed_metric |-> MalformedMetric(Of(groups, "malformed_metric")),
   materialization_error |-> MaterializationErrors(Of(groups, "materialization_error")),
   evaluator_path |-> EvaluatorPath(Of(groups, "evaluator_path")),
   evaluator_dependency |-> EvaluatorDependency(Of(groups, "evaluator_dependency")),
   evaluator_stage |-> EvaluatorStage(Of(groups, "evaluator_stage")),
   evaluator_workspace |-> EvaluatorWorkspace(Of(groups, "evaluator_workspace")),
   metric_aggregation |-> MetricAggregation(Of(groups, "metric_aggregation")),
   synthetic_metric |-> SyntheticMetric(Of(groups, "synthetic_metric"))]

(* What is told of the process that ran it.                                *)
ProcessGroups(groups) ==
  [validator_boundary |-> ValidatorBoundary(Of(groups, "validator_boundary")),
   validator_budget |-> ValidatorBudget(Of(groups, "validator_budget")),
   validator_env |-> ValidatorEnv(Of(groups, "validator_env")),
   resource_limit |-> ResourceLimit(Of(groups, "resource_limit")),
   validator_stdin |-> ValidatorStdin(Of(groups, "validator_stdin")),
   diagnostic_output |-> DiagnosticOutput(Of(groups, "diagnostic_output")),
   timeout_cleanup |-> TimeoutCleanup(Of(groups, "timeout_cleanup"))]

(***************************************************************************)
(* The policy that is meant by what is given of it.                        *)
(***************************************************************************)
NormalGroups(groups) == ReportGroups(groups) @@ ValidatorGroups(groups) @@ ProcessGroups(groups)

(* All fields of some records, no two of which have one in common.         *)
Joined(parts) ==
  [f \in UNION {DOMAIN part : part \in parts} |-> (CHOOSE part \in parts : f \in DOMAIN part)[f]]

NormalPolicy(p) ==
  Joined({SectionPolicy(p), ParentPolicy(p), SourcePolicy(p), InspirationPolicy(p),
          FailurePolicy(p), FeedbackPolicy(p), [groups |-> NormalGroups(Given(p, "groups", <<>>))]})

DefaultPolicy == NormalPolicy(<<>>)

(* Nothing is there that is not known, and nothing is other than it may be. *)
KnownAndValid(p, normal) ==
  /\ DOMAIN p \subseteq DOMAIN normal
  /\ DOMAIN Given(p, "groups", <<>>) \subseteq DOMAIN normal.groups
  /\ \A f \in DOMAIN normal : normal[f] # Malformed
  /\ \A g \in DOMAIN normal.groups :
       Malformed \notin {normal.groups[g].fields, normal.groups[g].caps}

Accepted(p) == KnownAndValid(p, NormalPolicy(p))
=============================================================================
