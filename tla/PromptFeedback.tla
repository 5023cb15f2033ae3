--------------------------- MODULE PromptFeedback ---------------------------
(***************************************************************************)
(* What a prompt tells of how a program was evaluated.  An evaluation is a *)
(* function from the names of its tables to sequences of records, and a    *)
(* record a function from its fields to the lengths of their texts.  What  *)
(* is told is a sequence of lines, each with the fields it shows, at the   *)
(* lengths they are shown with, and the lines within it.                   *)
(***************************************************************************)
EXTENDS PromptPolicy

CONSTANTS
  NoticeLength,    \* what says that a text is cut
  MaxFeedback,     \* longest feedback
  FieldMax,        \* longest text of a field that the policy does not cap
  MaxItems,        \* records of a table that are told
  HashLength,      \* what is told of a checksum
  NoItems,         \* length of an empty list
  KeyOrder,        \* all keys of metadata, in the order of the alphabet
  SpecialKeys,     \* those that a table of its own tells
  ArtifactMode, ArtifactBytes, ArtifactChars, HasArtifactDir  \* configuration of the run

FirstN(s, n) == IF n = None THEN s ELSE SubSeq(s, 1, IF n < Len(s) THEN n ELSE Len(s))
LastN(s, n) == IF n = None THEN s ELSE SubSeq(s, IF n < Len(s) THEN Len(s) - n + 1 ELSE 1, Len(s))
SumOver(s, F(_)) == FoldLeft(LAMBDA n, x : n + F(x), 0, s)

(* A cap below the length of the notice is exceeded by the notice.         *)
CutLength(length, cap) ==
  IF cap = None \/ length <= cap THEN length
  ELSE IF cap > NoticeLength THEN cap ELSE NoticeLength

Prefix(length, n) == IF length > n THEN n ELSE length
Only(x, fields) == Restrict(x, DOMAIN x \cap fields)
Except(x, fields) == Restrict(x, DOMAIN x \ fields)

(***************************************************************************)
(* Records and lines.                                                      *)
(***************************************************************************)
(* Mutant: a field that is capped to nothing is cut like any other.        *)
CutField(value, cap) == CutLength(value, cap)

ShortField(value, cap) == IF cap = 0 THEN 0 ELSE CutLength(value, cap)

WithText(lengths) == Restrict(lengths, {f \in DOMAIN lengths : lengths[f] > 0})

(* The selected fields of a record that have a text, each within its cap;  *)
(* those that are free have none unless the policy gives it.               *)
Row(group, record, free) ==
  WithText([f \in ToSet(group.fields) |->
    ShortField(Given(record, f, 0), Given(group.caps, f, IF f \in free THEN None ELSE FieldMax))])

Uncapped(group, fields) == [group EXCEPT !.caps = Except(@, fields)]
Hashed(row) == [f \in DOMAIN row |-> IF f = "sha256" THEN Prefix(row[f], HashLength) ELSE row[f]]

Line(of, shown, within) == [of |-> of, shown |-> shown, within |-> within]
Nonblank(lines) == SelectSeq(lines, LAMBDA l : DOMAIN l.shown # {})
LineLength(line) == 1 + Sum(line.shown)
LinesLength(lines) == SumOver(lines, LineLength)

Rows(of, group, records) ==
  Nonblank([n \in DOMAIN records |-> Line(of, Row(group, records[n], {}), <<>>)])

Omission(records) ==
  IF Len(records) > MaxItems THEN <<Line("omitted", [records |-> 1], <<>>)>> ELSE <<>>

Selected(group, lines) == IF group.fields = <<>> THEN <<>> ELSE lines

(* Mutant: what is left out is not told.                                   *)
FirstRowsAlone(of, group, records) == Selected(group, Rows(of, group, FirstN(records, MaxItems)))

(* Some tables show their first records and tell that there are more.      *)
FirstRows(of, group, records) ==
  Selected(group, Rows(of, group, FirstN(records, MaxItems)) \o Omission(records))

Table(evaluation, name) == Given(evaluation, name, <<>>)

(* The fields of a table that has one record, or none, at most.            *)
OneRecord(evaluation, name) ==
  IF Table(evaluation, name) = <<>> THEN <<>> ELSE evaluation[name][1]

(***************************************************************************)
(* The proposal, the stages and what they wrote.                           *)
(***************************************************************************)
ProposalLines(p, evaluation) ==
  LET group == p.groups.proposal
      row == Row(group, OneRecord(evaluation, "proposal"), {})
  IN Nonblank([n \in DOMAIN group.fields |->
                 Line("proposal", Only(row, {group.fields[n]}), <<>>)])

(* An error is told only of who wrote nothing.                             *)
Written(row) ==
  IF DOMAIN row \cap {"stdout", "stderr"} # {} THEN Only(row, {"stdout", "stderr"}) ELSE row

OutputLines(p, record) ==
  Nonblank(<<Line("execution_output", Written(Row(p.groups.execution_output, record, {})), <<>>)>>)

CheckKeys ==
  {"threshold", "threshold_passed", "threshold_result_passed", "metric_thresholds",
   "artifact_output_checks"}

(* A view is the groups that a check is told with: its own and those of    *)
(* the two lists within it, which are cut only where the policy caps them. *)
CheckLists(view, record) ==
  [metric_thresholds |->
     FirstRows("stage_metric_threshold", view.thresholds, Table(record, "metric_thresholds")),
   artifact_output_checks |->
     FirstRows("artifact_output_check", view.outputs, Table(record, "artifact_output_checks"))]

Lengths(lists) == [f \in DOMAIN lists |-> LinesLength(lists[f])]

(* The lists that a line shows, within it.                                 *)
Within(row, lists, order) ==
  FlattenSeq([n \in DOMAIN order |-> IF order[n] \in DOMAIN row THEN lists[order[n]] ELSE <<>>])

LineWithLists(of, row, lists, order) == Line(of, row, Within(row, lists, order))

CheckLine(view, record, lists) ==
  LineWithLists("configured_stage_check",
                Row(view.checks, Lengths(lists) @@ record, DOMAIN lists),
                lists, <<"metric_thresholds", "artifact_output_checks">>)

CheckLines(view, record) ==
  IF DOMAIN record \cap CheckKeys = {} THEN <<>>
  ELSE Nonblank(<<CheckLine(view, record, CheckLists(view, record))>>)

ConfiguredView(p) ==
  [checks |-> p.groups.configured_stage_check, thresholds |-> p.groups.stage_metric_threshold,
   outputs |-> p.groups.artifact_output_check]

ConfiguredCheckLines(p, records) ==
  Selected(p.groups.configured_stage_check,
           FlattenSeq([n \in DOMAIN FirstN(records, MaxItems) |->
                         CheckLines(ConfiguredView(p), records[n])])
             \o Omission(records))

(* With a stage its check is told in full, and its thresholds uncapped.    *)
StageView(p) ==
  [checks |-> ConfiguredStageCheck(<<>>),
   thresholds |-> [p.groups.stage_metric_threshold EXCEPT !.caps = <<>>],
   outputs |-> p.groups.artifact_output_check]

(* A score that is not capped is told even when there is none.             *)
UncappedScore(group, record) ==
  IF "score" \in ToSet(group.fields) \ DOMAIN group.caps
  THEN [score |-> Given(record, "score", 0)] ELSE <<>>

StageRow(group, record, lists) ==
  Row(group, Lengths(lists) @@ record @@ [name |-> 1, status |-> 1],
      {"name", "status", "score"} \cup DOMAIN lists)
    @@ UncappedScore(group, record)

StageLineWith(group, record, lists) ==
  LineWithLists("stage_summary", StageRow(group, record, lists), lists, <<"io", "checks">>)

StageLine(p, record) ==
  StageLineWith(p.groups.stage_summary, record,
                [io |-> OutputLines(p, record), checks |-> CheckLines(StageView(p), record)])

StageLines(p, records) ==
  LET last == LastN(records, MaxItems)
  IN Nonblank([n \in DOMAIN last |-> StageLine(p, last[n])])

AttemptLines(p, records) ==
  LET last == LastN(records, MaxItems)
  IN Rows("sample_retry", p.groups.sample_retry,
          [n \in DOMAIN last |-> last[n] @@ [status |-> 1]])

(***************************************************************************)
(* Artifacts and outputs.                                                  *)
(***************************************************************************)
ContentPolicy(p) ==
  LET Configured(given, default) == IF given = None THEN default ELSE given
  IN [mode |-> Configured(p.validator_artifact_content_mode, ArtifactMode),
      bytes |-> Configured(p.validator_artifact_content_max_bytes, ArtifactBytes),
      chars |-> Configured(p.validator_artifact_content_max_chars, ArtifactChars)]

(* A stored artifact is at a place that is refused, missing, or a file,    *)
(* and reading the file fails or gives a text.                             *)
ContentStatus(content, record) ==
  LET atFile == record.place = "file"
      stored == Given(record, "stored", 0) > 0
  IN CASE content.mode = "off" -> "off"
       [] content.mode = "excerpt" -> "excerpt_only"
       [] content.mode = "bounded_file" ->
            IF ~HasArtifactDir THEN "missing_artifact_base_dir"
            ELSE IF ~stored THEN "missing_artifact_path"
            ELSE IF ~atFile THEN record.place
            ELSE IF record.bytes > content.bytes THEN "max_bytes"
            ELSE record.read

ContentRow(p, record) ==
  LET content == ContentPolicy(p)
      status == ContentStatus(content, record)
      size == IF status \in {"max_bytes", "included"} THEN [bytes |-> 1] ELSE <<>>
      limit == IF status = "max_bytes" THEN [max_bytes |-> 1] ELSE <<>>
      text == IF status = "included"
              THEN [chars |-> 1, truncated |-> 1,
                    content |-> CutLength(record.chars, content.chars)]
              ELSE <<>>
  IN Only([status |-> 1] @@ size @@ limit @@ text, ToSet(p.groups.artifact_content.fields))

(* Whether an excerpt is cut is told with the excerpt only, and why there  *)
(* is none only without it, even when the policy leaves nothing of it.     *)
ExcerptRow(group, record) ==
  LET row == Hashed(Row(Uncapped(group, {"sha256", "redacted", "content_excerpt_truncated"}),
                        Except(record, {"content_excerpt_status"}), {}))
      why == Given(record, "content_excerpt_status", 0)
      status == [content_excerpt_status |->
                   ShortField(why, Given(group.caps, "content_excerpt_status", FieldMax))]
  IN IF "content_excerpt" \in DOMAIN row THEN row
     ELSE Except(row, {"content_excerpt_truncated"})
            @@ (IF why = 0 THEN <<>> ELSE Only(status, ToSet(group.fields)))

ArtifactLineWith(group, record, content) ==
  Line("validator_artifact",
       ExcerptRow(group, record)
         @@ Only(WithText([artifact_content |-> LinesLength(content)]), ToSet(group.fields)),
       IF "artifact_content" \in ToSet(group.fields) THEN content ELSE <<>>)

ArtifactLine(p, record) ==
  ArtifactLineWith(p.groups.validator_artifact, record,
                   Nonblank(<<Line("artifact_content", ContentRow(p, record), <<>>)>>))

(* A record that is no mapping has a field "value" alone.                  *)
SkippedRow(group, record) ==
  LET hash == Prefix(Given(record, "sha256", 0), Given(group.caps, "sha256", HashLength))
  IN Row(Uncapped(group, {"sha256"}), [sha256 |-> hash] @@ record, {"sha256"})

SkippedLines(p, records) ==
  LET first == FirstN(records, MaxItems)
      group == p.groups.skipped_artifact
  IN Selected(group, Nonblank([n \in DOMAIN first |->
                                 Line("skipped_artifact", SkippedRow(group, first[n]), <<>>)])
                       \o Omission(records))

ArtifactLines(p, evaluation) ==
  LET files == Table(evaluation, "artifacts")
      first == FirstN(files, MaxItems)
  IN Selected(p.groups.validator_artifact,
              Nonblank([n \in DOMAIN first |-> ArtifactLine(p, first[n])]) \o Omission(files))
       \o SkippedLines(p, Table(evaluation, "skipped"))

(* The outputs are told as a preview when they are omitted from the record. *)
ProgramOutputLines(p, records) ==
  LET group == p.groups.program_output
      Told(record) == Except(record, {"omitted", IF record.omitted THEN "value" ELSE "preview"})
      Shown(record) ==
        Hashed(Row(Uncapped(group, {"sha256", "redacted", "json_chars"}), Told(record), {}))
          @@ Only([json_chars |-> Given(record, "json_chars", 0)], ToSet(group.fields))
  IN Nonblank([n \in DOMAIN records |-> Line("program_output", Shown(records[n]), <<>>)])

LlmFeedbackLines(p, records) ==
  LET last == LastN(records, MaxItems)
  IN Rows("llm_feedback", p.groups.llm_feedback,
          [n \in DOMAIN last |-> last[n] @@ [name |-> 1]])

(***************************************************************************)
(* Diagnostics of the validator.                                           *)
(***************************************************************************)
(* Lists of files are told even when there are none.                       *)
DependencyLines(p, records) ==
  Rows("evaluator_dependency", p.groups.evaluator_dependency,
       [n \in DOMAIN records |->
          records[n] @@ [f \in {"file_paths", "file_hashes", "file_redactions"} |-> NoItems]])
PathLines(p, evaluation) ==
  Rows("evaluator_path", p.groups.evaluator_path, <<OneRecord(evaluation, "evaluator_path")>>)
EvaluatorStageLines(p, records) == Rows("evaluator_stage", p.groups.evaluator_stage, records)
WorkspaceLines(p, evaluation) ==
  Rows("evaluator_workspace", p.groups.evaluator_workspace,
       <<OneRecord(evaluation, "evaluator_workspace") @@ [file_count |-> 1, files |-> NoItems]>>)
(* These are told as left out even if the policy selects no field of them. *)
SyntaxErrorLines(p, records) ==
  Rows("syntax_error", p.groups.syntax_error, FirstN(records, MaxItems)) \o Omission(records)
MetricBoundLines(p, records) == FirstRows("metric_bound", p.groups.metric_bound, records)
MalformedMetricLines(p, records) == Rows("malformed_metric", p.groups.malformed_metric, records)
MaterializationErrorLines(p, records) ==
  Rows("materialization_error", p.groups.materialization_error, records)
AggregationLines(p, evaluation) ==
  Rows("metric_aggregation", p.groups.metric_aggregation,
       <<OneRecord(evaluation, "metric_aggregation")>>)
SyntheticMetricLines(p, records) == Rows("synthetic_metric", p.groups.synthetic_metric, records)

BoundaryLineWith(group, record, lists) ==
  LineWithLists("validator_boundary", Row(group, Lengths(lists) @@ record, DOMAIN lists), lists,
                <<"resource_limits">>)

BoundaryLine(p, record) ==
  BoundaryLineWith(Uncapped(p.groups.validator_boundary, {"resource_limits"}), record,
    [resource_limits |->
       Rows("resource_limit", p.groups.resource_limit, Table(record, "resource_limits"))])
BoundaryLines(p, records) == Nonblank([n \in DOMAIN records |-> BoundaryLine(p, records[n])])
BudgetLines(p, records) == Rows("validator_budget", p.groups.validator_budget, records)
EnvLines(p, records) == Rows("validator_env", p.groups.validator_env, records)
StdinLines(p, records) ==
  LET lines == Rows("validator_stdin", p.groups.validator_stdin, records)
  IN [n \in DOMAIN lines |-> [lines[n] EXCEPT !.shown = Hashed(@)]]
DiagnosticOutputLines(p, records) == Rows("diagnostic_output", p.groups.diagnostic_output, records)
CleanupLines(p, records) == Rows("timeout_cleanup", p.groups.timeout_cleanup, records)

InOrder(names, selected, lines) ==
  FlattenSeq([n \in DOMAIN names |->
                IF names[n] \in ToSet(selected) THEN lines[names[n]] ELSE <<>>])

(* Whatever the order of the policy, groups are told in their own.         *)
ExecutionLines(p, evaluation) ==
  InOrder(ExecutionOrder, p.execution_diagnostic_groups,
          [validator_boundary |-> BoundaryLines(p, Table(evaluation, "validator_boundary")),
           validator_budget |-> BudgetLines(p, Table(evaluation, "validator_budget")),
           validator_env |-> EnvLines(p, Table(evaluation, "validator_env")),
           stdin |-> StdinLines(p, Table(evaluation, "stdin")),
           diagnostic_output |-> DiagnosticOutputLines(p, Table(evaluation, "diagnostic_output")),
           timeout_cleanup |-> CleanupLines(p, Table(evaluation, "timeout_cleanup"))])

(* Metadata that no table tells: the first keys of the policy, or of all,  *)
(* whose values are plain, each with a checksum.                           *)
MetadataLines(p, metadata) ==
  LET keys == IF p.validator_metadata_keys # <<>> THEN p.validator_metadata_keys ELSE KeyOrder
      candidates == SelectSeq(keys, LAMBDA k : /\ k \in DOMAIN metadata \ SpecialKeys
                                               /\ metadata[k].plain)
      first == FirstN(candidates, IF p.validator_metadata_limit = None THEN MaxItems
                                  ELSE p.validator_metadata_limit)
      Cap(k) == Given(p.validator_metadata_max_chars_by_key, k, FieldMax)
      shown == [k \in {k \in ToSet(first) : Cap(k) # 0} |->
                  CutLength(metadata[k].length, Cap(k)) + HashLength]
      more == IF Len(candidates) > Len(first) THEN [omitted |-> 1] ELSE <<>>
  IN IF p.validator_metadata_limit = 0 THEN <<>>
     ELSE Nonblank(<<Line("metadata", shown @@ more, <<>>)>>)

DiagnosticLines(p, evaluation) ==
  InOrder(DiagnosticOrder, p.validator_diagnostic_groups,
    [evaluator_dependency |-> DependencyLines(p, Table(evaluation, "evaluator_dependency")),
     evaluator_path |-> PathLines(p, evaluation),
     evaluator_stage |-> EvaluatorStageLines(p, Table(evaluation, "evaluator_stage")),
     evaluator_workspace |-> WorkspaceLines(p, evaluation),
     syntax_errors |-> SyntaxErrorLines(p, Table(evaluation, "syntax_errors")),
     metric_bound_diagnostics |-> MetricBoundLines(p, Table(evaluation, "metric_bounds")),
     configured_stage_checks |-> ConfiguredCheckLines(p, Table(evaluation, "configured_checks")),
     malformed_metrics |-> MalformedMetricLines(p, Table(evaluation, "malformed_metrics")),
     materialization_error |->
       MaterializationErrorLines(p, Table(evaluation, "materialization_error")),
     metric_aggregation |-> AggregationLines(p, evaluation),
     synthetic_metrics |-> SyntheticMetricLines(p, Table(evaluation, "synthetic_metrics")),
     execution_diagnostics |-> ExecutionLines(p, evaluation),
     metadata_summary |-> MetadataLines(p, Table(evaluation, "metadata"))])

(***************************************************************************)
(* The feedback.                                                           *)
(***************************************************************************)
SectionLines(p, evaluation) ==
  [proposal |-> ProposalLines(p, evaluation),
   stage_summary |-> StageLines(p, Table(evaluation, "stages")),
   execution_output |-> OutputLines(p, OneRecord(evaluation, "execution_output")),
   sample_retry_diagnostics |-> AttemptLines(p, Table(evaluation, "attempts")),
   validator_artifacts |-> ArtifactLines(p, evaluation),
   validator_diagnostics |-> DiagnosticLines(p, evaluation),
   program_outputs |-> ProgramOutputLines(p, Table(evaluation, "program_outputs")),
   llm_grader_feedback |-> LlmFeedbackLines(p, Table(evaluation, "llm_feedback"))]

(* A section has a line of header.                                         *)
TellSection(p, name, lines) ==
  [name |-> name, lines |-> lines,
   length |-> CutLength(1 + LinesLength(lines),
                        Given(p.feedback_section_max_chars_by_name, name, None))]

Built(p, lines) == SelectSeq(p.feedback_section_order,
                             LAMBDA n : n \in ToSet(p.feedback_sections) /\ lines[n] # <<>>)

ToldSections(p, names, lines) ==
  [n \in DOMAIN names |-> TellSection(p, names[n], lines[names[n]])]

(* A section that is capped to nothing is not told.                        *)
NotDropped(p, names) ==
  SelectSeq(names, LAMBDA n : Given(p.feedback_section_max_chars_by_name, n, None) # 0)

AsFeedback(sections, built) ==
  [sections |-> sections,
   length |-> IF built = <<>> THEN 1
              ELSE CutLength(SumOver(sections, LAMBDA s : s.length), MaxFeedback)]

FeedbackFrom(p, lines, built) ==
  AsFeedback(ToldSections(p, NotDropped(p, built), lines), built)

FeedbackOn(p, lines) == FeedbackFrom(p, lines, Built(p, lines))

(* Without any section the feedback says that there is none.               *)
Feedback(p, evaluation) == FeedbackOn(p, SectionLines(p, evaluation))
=============================================================================
