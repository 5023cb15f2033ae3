----------------------------- MODULE MCProposal -----------------------------
(***************************************************************************)
(* Small instances of Proposal for TLC: two seeds, one with marked blocks  *)
(* and a locked static member, one of two plain files with a member a      *)
(* model may edit; answers of every kind that interact; and prompts in     *)
(* which one policy at a time is other than by default.                    *)
(***************************************************************************)
EXTENDS Proposal

Main == "main.py"
Lib == "lib.py"
LIB == "LIB.py"
New == "new.py"
Notes == "notes.txt"
Data == "data.bin"
Env == ".env"
Git == ".git"

Paths == {Main, Lib, LIB, New, Notes, Data, Env, Git, "../up"}
MCPythonPaths == {Main, Lib, LIB, New}
MCReserved == {Env, Git}
MCUnsafe == {"../up"}
MCHostKey == [p \in Paths |-> IF p = LIB THEN Lib ELSE p]

MCLimits ==
  [files |-> 4, fileLines |-> 12, totalLines |-> 16, staticBytes |-> 2, totalStaticBytes |-> 3]
MCConfigLimits == [MCLimits EXCEPT !.fileLines = 10, !.totalStaticBytes = 2]

Locked1 == [policy |-> "immutable", content |-> "seed", bytes |-> 1, origin |-> "problem"]
Editable1 == [Locked1 EXCEPT !.policy = "llm_editable"]

Marked ==
  [files |-> (Main :> <<"START a", "x", End, "keep", "START b", "y", End>>),
   primary |-> Main, allowed |-> {}, statics |-> (Data :> Locked1)]
Plain ==
  [files |-> (Main :> <<"x", "y">> @@ Lib :> <<"x">>),
   primary |-> Main, allowed |-> {Env}, statics |-> (Data :> Editable1)]
(* A problem loaded where file names keep their case.                      *)
Colliding ==
  [files |-> (Main :> <<"x">> @@ Lib :> <<"y">> @@ LIB :> <<"y">>),
   primary |-> Main, allowed |-> {}, statics |-> <<>>]
BadlyMarked == [Plain EXCEPT !.files[Main] = <<"START a", "x">>]
MCSeeds == {Marked, Plain, Colliding, BadlyMarked}

Diff(blocks) == [form |-> "diff", blocks |-> blocks, stray |-> FALSE]
Edit(search, replace) == [search |-> search, replace |-> replace]
Text(lines) == [form |-> "text", lines |-> lines]
Sections(bodies) == [form |-> "sections", sections |-> bodies, stray |-> FALSE]
Body(name, body) == [name |-> name, body |-> body]

One(payload) == [sections |-> <<>>, payload |-> payload, stray |-> FALSE]
Files(sections) == [sections |-> sections, payload |-> Text(<<>>), stray |-> FALSE]
EditSection(path, payload) == [op |-> "edit", path |-> path, payload |-> payload]
Delete(path) == [op |-> "delete", path |-> path, blank |-> TRUE]
Move(path, target) == [op |-> "move", path |-> path, target |-> target, blank |-> TRUE]
Primary(path) == [op |-> "primary", path |-> path, blank |-> TRUE]
Static(path, content, bytes) ==
  [op |-> "static", path |-> path, content |-> content, bytes |-> bytes]

Payloads ==
  {Diff(<<Edit(<<"x">>, <<"y">>)>>), Diff(<<Edit(<<"y">>, <<"x", "y">>)>>),
   Diff(<<Edit(<<"x">>, <<>>)>>), Diff(<<Edit(<<>>, <<"x">>)>>),
   Diff(<<Edit(<<"keep">>, <<"x">>)>>), Diff(<<Edit(<<"x">>, <<"keep">>)>>),
   Diff(<<Edit(<<"x">>, <<"y">>), Edit(<<"y">>, <<"x">>)>>),
   Diff(<<Edit(<<"y">>, <<"x", "x">>)>>), Diff(<<Edit(<<"x", "x">>, <<"y">>)>>),
   Diff(<<Edit(<<"y">>, <<"START a">>)>>), Diff(<<Edit(<<"x">>, <<End, "START c">>)>>),
   [Diff(<<Edit(<<"x">>, <<"y">>)>>) EXCEPT !.stray = TRUE],
   Text(<<>>), Text(<<"x">>), Text(<<"y", "open">>), Text(<<"START a", "y">>),
   Text([i \in 1..11 |-> "x"]), Text([i \in 1..13 |-> "x"]),
   Sections(<<>>), Sections(<<Body("START a", <<"y", "y">>)>>),
   Sections(<<Body("START b", <<>>), Body("START a", <<"y", "y">>)>>),
   Sections(<<Body("START b", <<"x">>), Body("START a", <<"y", "y", "x">>)>>),
   Sections(<<Body("START a", <<"y">>), Body("START a", <<"x">>)>>),
   Sections(<<Body("START c", <<"y">>)>>),
   [Sections(<<Body("START a", <<"y">>)>>) EXCEPT !.stray = TRUE],
   [form |-> "oversized"]}

FileAnswers ==
  {<<EditSection(Lib, Diff(<<Edit(<<"x">>, <<"y">>)>>))>>,
   <<EditSection(Lib, Text(<<"y">>))>>, <<EditSection(New, Text(<<"x">>))>>,
   <<EditSection(Notes, Text(<<"START a">>))>>, <<EditSection(LIB, Text(<<"x">>))>>,
   <<EditSection(Env, Text(<<"x">>))>>, <<EditSection(Git, Text(<<"x">>))>>,
   <<EditSection(Data, Text(<<"x">>))>>, <<EditSection("../up", Text(<<"x">>))>>,
   <<EditSection(New, Text([i \in 1..13 |-> "x"]))>>,
   <<EditSection(Lib, Text(<<"x">>)), EditSection(Lib, Text(<<"y">>))>>,
   <<EditSection(New, Text(<<"y">>)), EditSection(Notes, Text(<<"x">>))>>,
   <<Delete(Lib)>>, <<[Delete(Lib) EXCEPT !.blank = FALSE]>>, <<Delete(Main)>>, <<Delete(Main), Primary(Lib)>>,
   <<Delete(Main), Primary(New)>>, <<Primary(Lib)>>, <<Primary(Lib), Primary(Main)>>,
   <<Move(Main, New)>>, <<Move(Lib, New)>>, <<Move(Lib, LIB)>>, <<Move(Lib, Data)>>,
   <<Move(Lib, Lib)>>, <<Move(Main, New), Primary(New)>>,
   <<Move(Lib, New), EditSection(Lib, Text(<<"y">>))>>,
   <<Move(New, Notes), Move(Lib, New)>>, <<Move(Main, New), Move(Lib, New)>>,
   <<Delete(Main), EditSection(New, Text(<<"x">>))>>,
   <<Static(Data, "new", 1)>>, <<Static(Data, None, 0)>>, <<Static(Data, "big", 3)>>,
   <<Static(Notes, "new", 1)>>, <<Static(New, "new", 2)>>, <<Static(Lib, "new", 1)>>,
   <<Static(Data, "new", 1), Primary(Lib)>>}

MCAnswers ==
  {One(p) : p \in Payloads} \cup {Files(s) : s \in FileAnswers}
    \cup {[Files(<<Delete(Lib)>>) EXCEPT !.stray = TRUE]}

(***************************************************************************)
(* Prompts.                                                                *)
(***************************************************************************)
Guide == "guide.md"
Paper == "paper.md"
Zoo == "zoo.md"

MCPathOrder == <<Env, LIB, Data, Guide, Lib, Main, New, Notes, Paper, Zoo>>
MCTaskTerms == {"x"}
MCTemplate == [f \in Range(Fields) |-> IF f = "mutation_mode" THEN 0 ELSE 1]
MCFixedSections == [task |-> 2, parent_score |-> 1, mutation_mode |-> 1]
MCInstructionLength ==
  [metadata |-> 2, minimal |-> 1, rules |-> 2, exploratory |-> 1, example |-> 1]

Words == {"x", "y", "z", "slow", "timeout", "oom", "speed", "size", "taste", "seed"}
MCSecretLabels == {"api_key"}
MCSafeLabels == Words \cup {"Y"} \cup MCSecretLabels
MCLowerCase == [w \in MCSafeLabels |-> IF w = "Y" THEN "y" ELSE w]

MCDeclaredMetrics == <<"speed", "size">>
MCKeyOrder == <<"seed", "size", "speed", "taste">>
MCSpecialKeys == {"speed"}

(***************************************************************************)
(* What a prompt is told of: an evaluation with every table, more records  *)
(* than are shown in some, and one with few.                               *)
(***************************************************************************)
StageChecks(n) ==
  [name |-> 2, local_valid |-> 1, threshold |-> n, stop_reason |-> 9,
   metric_thresholds |-> <<[metric |-> 2, value |-> 5, passed |-> 1]>>,
   artifact_output_checks |-> <<[type |-> 2, passed |-> 1, reason |-> 9]>>]
Artifact ==
  [path |-> 3, stored |-> 4, sha256 |-> 9, redacted |-> 1, content_excerpt |-> 9,
   content_excerpt_truncated |-> 1, place |-> "file", bytes |-> 3, chars |-> 9,
   read |-> "included"]
NoExcerpt ==
  [path |-> 3, stored |-> 4, content_excerpt_status |-> 5, place |-> "file", bytes |-> 9,
   chars |-> 9, read |-> "included"]
Grade == [name |-> 2, score |-> 1, discard |-> 1, error |-> 3, feedback |-> 9, metric |-> "taste"]

RichEvaluation ==
  [proposal |-> <<[idea |-> 5, rationale |-> 12]>>,
   stages |-> <<[name |-> 2, error |-> 9], [score |-> 0],
                [name |-> 3, status |-> 2, score |-> 1, stdout |-> 7, error |-> 9]
                  @@ StageChecks(3)>>,
   execution_output |-> <<[stdout |-> 4, stderr |-> 9, error |-> 3]>>,
   attempts |-> <<[status |-> 3], [stage |-> 2, sample |-> 1, fitness |-> 9],
                  [stage |-> 2, attempt |-> 1, fitness |-> 2]>>,
   artifacts |-> <<Artifact, NoExcerpt, Artifact>>,
   skipped |-> <<[path |-> 4, reason |-> 9, sha256 |-> 9], [value |-> 5]>>,
   program_outputs |-> <<[source |-> 4, json_chars |-> 2, sha256 |-> 9, preview |-> 5,
                          value |-> 7, omitted |-> TRUE],
                         [json_chars |-> 2, value |-> 7, omitted |-> FALSE]>>,
   llm_feedback |-> <<Grade, [score |-> 1], Grade>>,
   evaluator_dependency |-> <<[policy |-> 9, allowed_scope |-> 2]>>,
   evaluator_path |-> <<[validate_path |-> 9, validate_path_scope |-> 3]>>,
   evaluator_stage |-> <<[name |-> 9, stage_index |-> 1, seed |-> 4]>>,
   evaluator_workspace |-> <<[primary_file |-> 9]>>,
   syntax_errors |-> <<[path |-> 9, line |-> 3], [line |-> 1], [message |-> 9]>>,
   metric_bounds |-> <<[metric |-> 9, value |-> 3], [metric |-> 2], [bounds |-> 9]>>,
   configured_checks |-> <<StageChecks(1), [name |-> 4], StageChecks(2)>>,
   malformed_metrics |-> <<[reason |-> 9, message |-> 9]>>,
   materialization_error |-> <<[exception_type |-> 9, reason |-> 9, message |-> 2]>>,
   metric_aggregation |-> <<[sample_count |-> 9, attempt_count |-> 4]>>,
   synthetic_metrics |-> <<[schema |-> 9, policy |-> 4]>>,
   validator_boundary |-> <<[policy |-> 9, execution |-> 4,
                             resource_limits |-> <<[wall_clock_timeout |-> 9, cpu |-> 4]>>]>>,
   validator_budget |-> <<[policy |-> 9, max_stage_seconds |-> 4]>>,
   validator_env |-> <<[policy |-> 9, default_keys |-> 4]>>,
   stdin |-> <<[policy |-> 9, interactive_input |-> 4, sha256 |-> 9]>>,
   diagnostic_output |-> <<[encoding |-> 9, stdout_bytes |-> 4]>>,
   timeout_cleanup |-> <<[method |-> 9, status |-> 4]>>,
   metadata |-> [w \in {"seed", "speed", "taste"} |-> [length |-> 9, plain |-> TRUE]]
                  @@ ("size" :> [length |-> 9, plain |-> FALSE])]
ShortEvaluation ==
  [stages |-> <<[name |-> 2, score |-> 1]>>, llm_feedback |-> <<[score |-> 1, metric |-> "taste"]>>]

Failure(file, score, times) ==
  [labels |-> [error |-> {"timeout"}, file |-> {file}, stage |-> {}, term |-> {"slow"}],
   score |-> score, times |-> times,
   told |-> [error |-> 4, changed_files |-> <<3>>, mutation |-> 9], evaluation |-> None]
OutOfMemory ==
  [Failure(Main, None, 1) EXCEPT
     !.labels.error = {"oom"}, !.told = [diff_error |-> 9, changed_files |-> <<>>],
     !.evaluation = [stages |-> <<[name |-> 4, error |-> 9]>>,
                     execution_output |-> <<[stderr |-> 9]>>]]
Other(id, fitness, metrics) ==
  [id |-> id, fitness |-> fitness, metrics |-> metrics, size |-> 1, evaluation |-> ShortEvaluation]

BaseInput ==
  [sources |-> Guide :> <<"y", "z">> @@ Paper :> <<"x", "y", "y">> @@ Zoo :> <<"z", "x", "y", "x">>,
   evaluation |-> ShortEvaluation,
   metrics |-> <<[name |-> "taste", length |-> 2], [name |-> "seed", length |-> 1],
                 [name |-> "size", length |-> 3]>>,
   inspirations |-> <<Other(1, 5, "speed" :> 1), Other(2, 3, "speed" :> 4 @@ "size" :> 2),
                      Other(3, 4, "size" :> 1)>>,
   failures |-> <<Failure(Main, 2, 1), Failure(Lib, None, 3), Failure(Main, 1, 2), OutOfMemory>>,
   extra |-> 3]
EmptyInput ==
  [BaseInput EXCEPT !.sources = <<>>, !.evaluation = <<>>, !.metrics = <<>>, !.failures = <<>>,
                    !.inspirations = <<>>, !.extra = 0]
RichInput == [BaseInput EXCEPT !.evaluation = RichEvaluation, !.extra = 9]

(***************************************************************************)
(* Policies, each family on its own.  Those of different families are      *)
(* given together.                                                         *)
(***************************************************************************)
Nth(list, n) == list[(n % Len(list)) + 1]

Wanted == <<None, <<"Y">>>>
Unwanted == <<None, <<"z">>>>
AtMost == <<None, 2>>
Orders == <<"path_order", "task_term_ranked">>
RankedBy == <<None, <<"y", "z">>>>

SourcePolicies ==
  [n \in 1..64 |->
     [context_source_required_terms |-> Nth(Wanted, n),
      context_source_excluded_terms |-> Nth(Unwanted, n \div 2),
      context_source_limit |-> Nth(AtMost, n \div 4),
      context_source_order_policy |-> Nth(Orders, n \div 8),
      context_source_ranking_terms |-> Nth(RankedBy, n \div 16),
      context_source_paths |-> Nth(<<None, <<Zoo, "lost.md", Guide, Zoo>>>>, n \div 32)]]
  \o [n \in 1..6 |->
        [context_source_max_chars |-> n % 3, context_source_truncation |-> Nth(<<"head", "head_tail">>, n),
         context_source_order_policy |-> "task_term_ranked", context_source_limit |-> 2]]
FilePolicies ==
  [n \in 1..64 |->
     [parent_code_required_terms |-> Nth(Wanted, n),
      parent_code_excluded_terms |-> Nth(Unwanted, n \div 2),
      parent_code_limit |-> Nth(AtMost, n \div 4), parent_code_order_policy |-> Nth(Orders, n \div 8),
      parent_code_ranking_terms |-> Nth(RankedBy, n \div 16),
      parent_code_paths |-> Nth(<<None, <<Main, New>>>>, n \div 32)]]
  \o [n \in 1..12 |->
        [parent_code_max_chars_by_path |-> Nth(<<None, Main :> 0, Main :> 2>>, n),
         parent_code_max_chars |-> Nth(<<None, 0, 1, 6>>, n)]]
FailureParts == <<"error", "diff_error", "changed_file", "mutation", "evaluation", "stage_name",
                  "stage_error", "evaluation_stderr", "diagnostics">>
FailurePolicies ==
  [n \in 1..48 |->
     [recent_failure_selection_policy |->
        Nth(<<"recent", "oldest", "lowest_score", "highest_repetition">>, n),
      recent_failure_limit |-> Nth(<<None, 0, 2>>, n),
      recent_failure_required_changed_files |-> Nth(<<None, <<Main>>>>, n \div 12),
      recent_failure_excluded_errors |-> Nth(<<None, <<"oom">>>>, n \div 24)]]
  \o <<[recent_failure_repetition_threshold |-> [min |-> 2]],
       [recent_failure_score_threshold |-> [max |-> 1]],
       [recent_failure_required_terms |-> <<"slow">>, recent_failure_required_errors |-> <<"oom">>],
       [recent_failure_required_stage_names |-> <<"seed">>]>>
  \o [n \in 1..18 |->
        [recent_failure_max_chars_by_field |-> Nth(FailureParts, n) :> Nth(<<0, 3>>, n)]]
InspirationPolicies ==
  [n \in 1..48 |->
     [inspiration_required_metric |-> Nth(<<None, "speed">>, n),
      inspiration_excluded_metrics |-> Nth(<<None, <<"size">>>>, n \div 2),
      inspiration_sample_count |-> Nth(<<None, 0, 1, 3>>, n \div 4),
      inspiration_metric_ranking |->
        Nth(<<None, [metric |-> "speed"], [metric |-> "speed", direction |-> "minimize"]>>, n)]]
  \o <<[inspiration_fitness_threshold |-> [min |-> 4]],
       [inspiration_metric_thresholds |-> "size" :> [min |-> 2]],
       [inspiration_limit |-> 1, inspiration_strategy |-> "novelty"]>>
OtherPolicies ==
  <<[mutation_instruction_variant |-> "minimal", proposal_metadata_enabled |-> TRUE],
    [mutation_instruction_variant |-> "exploratory"],
    [mutation_instruction_include_example |-> FALSE, proposal_metadata_enabled |-> FALSE],
    [extra_context_max_chars |-> 0], [extra_context_max_chars |-> 4],
    [parent_metric_names |-> <<>>], [parent_metric_names |-> <<"size", "taste", "size">>],
    [parent_metrics_max_chars_by_name |-> "taste" :> 0 @@ "size" :> 2],
    [prompt_format_weights |-> "x" :> <<1, 2>>]>>

(* Of each group: its second and first field alone, none at all, the first *)
(* capped to nothing and the second to a little.                           *)
Groups ==
  <<"llm_feedback", "proposal", "stage_summary", "execution_output", "sample_retry",
    "program_output", "validator_artifact", "artifact_content", "skipped_artifact", "syntax_error",
    "metric_bound", "configured_stage_check", "stage_metric_threshold", "artifact_output_check",
    "malformed_metric", "materialization_error", "evaluator_path", "evaluator_dependency",
    "evaluator_stage", "evaluator_workspace", "metric_aggregation", "synthetic_metric",
    "validator_boundary", "validator_budget", "validator_env", "resource_limit",
    "validator_stdin", "diagnostic_output", "timeout_cleanup">>
GroupPoliciesOf(known, capped) ==
  [n \in DOMAIN Groups |->
     [groups |-> Groups[n] :> [fields |-> <<known[Groups[n]].fields[2], known[Groups[n]].fields[1],
                                            known[Groups[n]].fields[2]>>]]]
    \o [n \in DOMAIN Groups |-> [groups |-> Groups[n] :> [fields |-> <<>>]]]
    \o [n \in DOMAIN capped |->
          [groups |-> capped[n] :> [caps |-> known[capped[n]].fields[1] :> 0
                                              @@ known[capped[n]].fields[2] :> 3]]]
GroupPolicies ==
  GroupPoliciesOf(NormalGroups(<<>>), SelectSeq(Groups, LAMBDA g : g # "artifact_content"))
FeedbackPolicies ==
  GroupPolicies
  \o <<[feedback_sections |-> <<>>], [feedback_sections |-> <<"stage_summary", "proposal">>],
       [feedback_section_order |-> <<"llm_grader_feedback", "proposal", "llm_grader_feedback">>],
       [feedback_section_max_chars_by_name |-> [proposal |-> 0, stage_summary |-> 1,
                                                program_outputs |-> 9]],
       [feedback_sections |-> <<"proposal">>,
        feedback_section_max_chars_by_name |-> [proposal |-> 0]],
       [validator_diagnostic_groups |-> <<"syntax_errors", "evaluator_path">>],
       [validator_diagnostic_groups |-> <<>>],
       [execution_diagnostic_groups |-> <<"timeout_cleanup", "stdin">>],
       [validator_metadata_keys |-> <<"taste", "size", "speed">>],
       [validator_metadata_limit |-> 1], [validator_metadata_limit |-> 0],
       [validator_metadata_max_chars_by_key |-> "seed" :> 0 @@ "taste" :> 3],
       [validator_artifact_content_mode |-> "off"], [validator_artifact_content_mode |-> "excerpt"],
       [validator_artifact_content_max_bytes |-> 2],
       [validator_artifact_content_max_chars |-> 4],
       [groups |-> [stage_summary |-> [caps |-> [score |-> 0, io |-> 3, checks |-> 9]],
                    configured_stage_check |-> [caps |-> [metric_thresholds |-> 3]]]]>>

(* Refused: what is unknown, of another type, secret or unsafe, or within  *)
(* no bounds.                                                              *)
RefusedPolicies ==
  <<[colour |-> "red"], [groups |-> [colours |-> <<>>]],
    [disabled_sections |-> <<"task">>], [disabled_sections |-> None],
    [section_priorities |-> "context" :> 1000], [prompt_format_weights |-> "x" :> <<0>>],
    [context_source_required_terms |-> <<"api_key">>], [context_source_paths |-> <<"../up">>],
    [parent_code_paths |-> <<Git>>], [parent_code_order_policy |-> None],
    [parent_code_limit |-> Malformed], [context_source_truncation |-> "tail"],
    [inspiration_required_metric |-> "api_key"], [inspiration_strategy |-> "best"],
    [inspiration_fitness_threshold |-> [min |-> 5, max |-> 4]],
    [inspiration_fitness_threshold |-> <<>>],
    [inspiration_metric_thresholds |-> "size" :> [min |-> 3, max |-> 2]],
    [inspiration_metric_ranking |-> [direction |-> "maximize"]],
    [recent_failure_repetition_threshold |-> [min |-> 0]],
    [recent_failure_max_chars_by_field |-> "colour" :> 1],
    [feedback_sections |-> <<"colour">>], [feedback_section_max_chars_by_name |-> "colour" :> 1],
    [validator_diagnostic_groups |-> <<"colour">>], [validator_artifact_content_mode |-> "all"],
    [validator_artifact_content_max_bytes |-> 0], [groups |-> [proposal |-> [fields |-> <<"name">>]]],
    [groups |-> [proposal |-> [caps |-> "name" :> 1]]],
    [groups |-> [artifact_content |-> [caps |-> "content" :> 1]]]>>

(***************************************************************************)
(* Requests.                                                               *)
(***************************************************************************)
NoBudget == [chars |-> None, tokens |-> None, counted |-> FALSE]
Unbounded(input, policy) == [input |-> input, policy |-> policy, budget |-> NoBudget]

TogetherWith(policies) ==
  [n \in DOMAIN policies |->
     Unbounded(RichInput, policies[n] @@ Nth(SourcePolicies, n) @@ Nth(FilePolicies, n)
                            @@ Nth(FailurePolicies, n) @@ Nth(InspirationPolicies, n)
                            @@ Nth(OtherPolicies, n))]
Together == TogetherWith(FeedbackPolicies)

Budgeted ==
  [n \in 1..192 |->
     [input |-> BaseInput,
      policy |-> [section_priorities |-> Nth(<<<<>>, "context" :> 20 @@ "parent_feedback" :> 8>>, n),
                  disabled_sections |-> Nth(<<<<>>, <<"inspirations">>>>, n \div 2)],
      budget |-> [counted |-> Nth(<<FALSE, TRUE>>, n \div 4), tokens |-> Nth(<<None, 11, 34>>, n),
                  chars |-> Nth(<<None, 8, 24, 48, 72, 96, 128, 200>>, n \div 8)]]]

MCRequests ==
  Together \o Budgeted
    \o [n \in DOMAIN RefusedPolicies |-> Unbounded(BaseInput, RefusedPolicies[n])]
    \o <<Unbounded(EmptyInput, <<>>), Unbounded(BaseInput, <<>>)>>
NoRequest == <<Unbounded(BaseInput, <<>>)>>

(* Answers that hide a marker in a string.                                 *)
QuotingAnswers ==
  {One(Diff(<<Edit(<<"y">>, <<"note">>)>>)), One(Diff(<<Edit(<<"x">>, <<"open">>)>>)),
   One(Diff(<<Edit(<<"keep">>, <<"y">>)>>)), One(Diff(<<Edit(<<"x">>, <<"y">>)>>)),
   One(Diff(<<Edit(<<"y">>, <<"open">>)>>)), One(Diff(<<Edit(<<"y">>, <<"x", "x">>)>>))}
=============================================================================
