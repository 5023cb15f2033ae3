# LibreEvolve in TLA+

LibreEvolve evolves programs. A controller, `evolve()` in
`src/libreevolve/core/loop.py`, evaluates the seed workspaces of a problem, then
asks an LLM for changes to good programs, evaluates what comes back, admits it
to an archive, and writes every decision to durable streams from which a run is
audited afterwards. The modules here model that controller and the components
around it, check them on small instances with TLC, and prove what matters most
with TLAPS for instances of every size.

    tlc -workers 2 -config evolve.cfg MCEvolveLoop.tla
    tlapm EvolveLoop_proofs.tla

## 1. The system

### 1.1 Components

| component (code) | state | operations | hard behaviours | correct when |
|---|---|---|---|---|
| Run budget (`core/budget.py`, `core/budget_contract.py`) | counters, limits, one stop reason | record an expense, check the limits, finish, replay an event | checks come before expenses; one limit subdivides by role; overwritten stop reasons | no limit on calls and evaluations is overrun; the stop reason is true; replaying the events gives the budget |
| Controller loop (`core/loop.py`) | the budget, the evaluation cache, the proposal index, the candidate in flight | seeds, proposals, finalize, abort | a write that fails before or after its bytes are on disk; Ctrl+C anywhere; a `continue` that skips the end of a generation; `finally` clauses that raise | what is left on disk agrees with how the run ended; nothing is spent once it must stop; it ends |
| LLM ensemble (`llm/ensemble.py`) | scheduler accounts, for the ensemble and for each role; a window of call records; quarantines | `generate`, `record_reward` | nested retries and fallbacks under one cap; late rewards; record sinks that raise in the middle | accounts the ensemble itself accepts; one reward per call; a quarantine holds |
| Provider call worker (`_call_backend_generate`, `llm/codex_cli.py`, `llm/cancellation_policy.py`) | a daemon thread, a one-slot queue, a cancel event | call, time out, cancel, join | the answer races the timeout; a worker outlives its call | one outcome per call; a late answer reaches nobody |
| Durable JSONL (`core/jsonl.py`, `core/jsonl_storage.py`) | files, advisory locks, quarantined tails | append, repair a torn line, read | crashes in an append, two processes, a lock holder that died | complete lines are never lost or reordered, a torn line never becomes a record |
| Program database (`core/database.py`) | the archive, event sequence numbers, the streams of the run, the manifest | open, `admit`, `log`, `log_failure`, `maybe_migrate`, `update_manifest_runtime` | the archive changes in memory before its event is durable; a directory is used again | archive, history and failures agree and forget nobody |
| MAP-Elites archive (`population/map_elites.py`) | cells per metric, the Pareto frontier, the elites | `add`, `best` | four archives that displace by four orders; a frontier at its bound | each holds the best of what came; what is rejected changes nothing |
| Islands (`population/islands.py`) | archives in a ring, the next island, sequences, sampling indexes | `add`, `sample`, `migrate` | a migrant sent on in one round; an index that outlives its list | turns are fair; a migrant goes one island; rotations skip nobody |
| Cascade evaluator (`core/evaluator.py`) | deadlines, samples in flight, attempts, processes, workspaces | stages, samples, retries, timeouts, cleanup, accounting | deadlines race retries; a pool whose samples end out of order; a timeout that leaves a pipe open | what was spent is counted; no stage is passed unearned; the right budget is blamed; it ends |
| Best artifacts (`core/best_artifacts.py`) | a file and a directory, their backups and staging areas | export, rollback, cleanup | failure between two renames, a rollback that fails | the published pair is the old one or the new one |
| Prompt database (`core/meta_prompt.py`) | prompts, their rewards, a durable log | add, choose, reward, restore | a reward is appended, then applied | what the log restores is what the run had |
| Prompt sampler (`core/prompt.py`, `core/prompt_context_policy.py`) | none; some 100 fields of a policy | normalize a policy, select, render, pack, cap | limits on items, fields, sections and the whole that meet | a prompt fits its budget and shows what the policy asks for |
| Candidates and diffs (`core/candidate.py`, `core/diff.py`) | the files of a workspace and what locks them; a directory on disk | apply an answer, check limits, materialize | an answer whose third section is wrong; Ctrl+C between two renames | all or nothing; one meaning; a sound candidate after any line of answers |
| Run inspection (`core/run_inspection.py`) | none | `inspect_run`, `read_program` | reads what a crash left | refuses or tells the truth |
| Configuration, problem loader, artifact schemas, provenance and redaction, reports, alpha sharing, command line | none, or read-only | - | - | - |

### 1.2 How they interact

The controller is one thread. It calls the ensemble, the evaluator and the
database, and each call returns or raises before the next. The concurrency of the
system is at the edges: provider calls run in a daemon thread of their own, the
ensemble calls back into the controller through record sinks, files are shared
with other processes under advisory locks, evaluations run in subprocesses with
deadlines, and Ctrl+C may strike anywhere. What is shared is durable: the
budget's events, the program history, the failure history, the archive's events
and the manifest, each written by a separate append with nothing to make two of
them atomic. Most hazards come from there, and `PROJECT.json` lists
them line by line with the properties that answer them.

## 2. Modules

| module | models | extends |
|---|---|---|
| `RunBudget` | the budget as a record and the functions on it | - |
| `EvolveLoop` | `evolve()` with its database, streams, cache and archive | `RunBudget` |
| `LLMEnsemble` | `LLMEnsemble.generate`, `record_reward` | - |
| `ProviderCall` | a provider call under a timeout, and the command-line backend | - |
| `MapElites` | one archive as a record and the functions on it | - |
| `Islands` | `add`, `migrate` and `sample` of the islands | `MapElites` |
| `BestEver` | what a population promises, refined by `Islands` | - |
| `JsonlLog` | appends, quarantined records and repairs of `core/jsonl.py` | - |
| `AppendOnlyLog` | what its callers rely on, refined by `JsonlLog` | - |
| `CascadeEvaluator` | `CascadeEvaluator.evaluate` | - |
| `RunDirectory` | the files of a run | - |
| `ProgramDatabase` | what `ProgramDatabase` does to its memory and the files | `RunDirectory` |
| `PromptDatabase` | what `PromptDatabase` does to its memory and its log | `RunDirectory` |
| `BestArtifacts` | the export of the best program, file operation by file operation | `RunDirectory` |
| `RunInspection` | what `show` makes of the files | `RunDirectory` |
| `RunArtifacts` | the runs of one directory, as far as they write | the four above |
| `CandidateText` | one file: EVOLVE blocks, diffs, replacements | - |
| `CandidateWorkspace` | the files of a candidate and the answers that change them | `CandidateText` |
| `Materialization` | writing a candidate to disk | - |
| `PromptPolicy` | the context policy of a prompt: what is accepted, what it means | `CandidateWorkspace` |
| `PromptFeedback` | what a prompt tells of an evaluation | `PromptPolicy` |
| `PromptSampler` | selection, packing and cutting of a prompt | `PromptFeedback` |
| `Proposal` | a line of candidates: prompt, answer, child, disk | `Materialization`, `PromptSampler` |
| `MC...` | instances for TLC, one module for each that runs | the module |
| `EvolveLoop_proofs` | types, limits, spending; cache, history, stop reason, streams: the inductive invariants and the theorems | `EvolveLoop` |
| `LLMEnsemble_proofs`, `ProviderCall_proofs`, `JsonlLog_proofs`, `Islands_proofs`, `CascadeEvaluator_proofs` | the same of these modules | the module |
| `Proposal_proofs` | of `Materialization`, of the line of candidates and of the packing of a prompt | `Proposal` |
| `RunArtifacts_proofs` | of the streams, the manifest, the exported pair and what `show` makes of them | `RunArtifacts` |

### 2.1 RunBudget

`RunBudget` of the code has one attribute per counter and one per limit, and
fifteen comparisons of the same form. Here a meter has the name of the limit
that bounds it (`consumed["max_llm_calls"]` is `llm_calls`), and the order of the
comparisons, which decides the stop reason when several limits are exhausted at
once, is the sequence `LimitOrder`. Time is not measured: `clockOut` says that
`max_runtime_seconds` has passed. `ApplyControllerBudgetEvent` is the replay
function that run inspection and the budget report use.

### 2.2 EvolveLoop

One action is a stretch of `evolve()` between two durable writes or two calls to
the outside; `pc` names the stretch. The seeds run from `seed_check` to
`policy`, a proposal from `proposal` to `generation_complete`, the end from
`finish` to `returned`, and `_write_aborted_runtime` from `abort` to `raised`.

*Events.* The code advances the budget in memory, then appends an event.
`RecordThenEmit` does the first and leaves the events in `pending`; `Emit` appends
them one by one and then goes `after`. The events of an LLM call are appended in
a `finally` clause inside the `try` that tolerates bad mutations, so they have
an action of their own, `EmitLLMCalls`, with another handler.

*Durable writes.* `append_strict_jsonl` and `strict_json_dump` succeed, raise
with nothing on disk that counts (`lost`), or raise when the bytes are on disk
already (`kept`: the fsync or the release of the lock failed). `MaxFaults` bounds
how many fail. The event sequence number is advanced only by a success.

*Data.* A workspace is a model value, the identity the evaluation cache hashes;
`Results` is what the evaluator may return, and it may return any of them each
time (a flaky evaluator). `stream` keeps what a reader of
`controller_budget_events` would compute: the replayed budget, the stops, and
whether the sequence numbers are the positions.

*Left open or out.* Which parent is chosen, which programs an admission
displaces, what a call costs and how an evaluation ends are any choice. Ctrl+C
strikes between two actions (during an LLM call it is one of the call's
outcomes), so not inside an append; the three write outcomes cover what it would
leave there. Prompt building, meta-prompt calls and provenance have no state the
properties see. Resuming a run is not modelled since `evolve()` always starts
with a fresh budget.

### 2.3 LLMEnsemble

One action is one turn of the loops of `generate`: `BeginCall` or `RefuseCall`
(role limits), `SelectBackend`, `AttemptFails` or `AttemptAnswers` (with the call
record, the sink, the accounts and the quarantine of that attempt), and the three
ways out. `RecordReward` is the controller's later call. Scores are left open: a
backend never tried goes first, in index order, as in `_ucb1_select`; among tried
ones any may win. The list of a backend's unrewarded call ids grows by ids that
grow, so a set stands for it and its minimum for its head.
`set_call_id_namespace` and `restore_scheduler_state` are never called by
`evolve()` and are left out; Ctrl+C strikes inside a provider call only.

### 2.4 ProviderCall

`_call_backend_generate` runs the backend in a daemon thread and waits for its
queue. `cancellable` says whether the backend can be cancelled at all. `caller` is where the calling thread stands, `worker[a]` where the thread
of attempt `a` does, and all of them share the backend's one metadata attribute.
`CodexCLIBackend._generate` is followed from the clearing of the metadata to the
`finally` clause; `KillReaped`, `KillHangs`, `Drain` are its own timeout's path, and
`FinallyEnds` is every path that ends by raising. A thread may stop
forever before it starts, launches or writes, so the bounded join may expire.

Time is discrete: every wait with a timeout has a timer, and `Tick` advances
them all unless one has run out. `JoinTimeout`, `ReapTimeout` and
`PollInterval` stand for 6, 5 and 0.1 seconds, and the assumption that the last
two are less than the first together is what `JoinOutlastsReap` needs.
A call without a timeout runs the backend directly and is left out, and so are
the temporary files and a second Ctrl+C during the join.

### 2.5 MapElites and Islands

`Added` is `MAPElites.add`: cells, elites (`Elite`), cells of metrics and the
frontier, each by its own order, and `Changed` the flag `search_state_changed`
that everything after depends on. Programs are model values; `Key` ranks them as
`_selection_key` does, ties included, and `Vector` holds the normalized metrics
of the programs whose vector is complete (a program with some of the metrics
has none here). `Crowding` is `_crowding_distances` in whole numbers: `Scale` is a
multiple of every span, so that no division loses anything. Which cell a program
falls in depends on its text and on the elites of the moment, and is any choice.

`Islands` adds turns, archive sequences, migration and the sampling strategies
that keep an index. A round of `migrate` is one action per migrant, with nothing
in between; `_island_program_ids` is read when the round begins, which is the
same as when the source's turn comes, since only the island before writes to a
target. Where `sample` breaks ties by the order of its pool, any fixed order
stands here. Strategies without an index, `sample_diverse` and the descriptions of
samples change nothing else and are left out. Restoring a snapshot is no action: one
that passes `_validate_map_elites_snapshot` gives back the same
archives, so the question is whether every snapshot passes (`Restorable`).

`BestEver` is the population without its parts: programs are offered, and the
rank of the one `exploit` returns is the best ever offered. `Islands` implements
it (`KeepsPromise`): `seen` is what `add` was called with and found valid, `best` the
rank of the best island's first elite, and migration and sampling stutter.

### 2.6 JsonlLog

Two files, the log and its quarantine, `content` as other processes see them and
`unsynced` as the power may leave them: every content since the last successful fsync.
A call locks what it needs (`Acquire`, in the order of the paths), cuts a fragment off
its target (`Inspect`, `Truncate`, `SyncTruncated`), appends the diagnostic to the
quarantine and its own line to the target with the same three steps (`WritePiece`,
`WriteRest`, `Sync`), and releases in reverse (`Release`, `Return`). `append` is
`append_strict_jsonl` of a record that serializes, `reject` one that does not or
`append_quarantine_record`, `repair` is `repair_trailing_partial_jsonl`. Any step may
fail once the call began, and a release that fails raises after everything was
written. A piece of a line joins the fragment it finds; the two are `Garbage`
once a newline ends them. Every caller names a quarantine; the one that
appends to the quarantine itself, with a record of its own
(`_write_reference_error` of `core/meta_prompt.py`), is left to the prompt
database. That a new file's name is durable once the file is synced is taken from
the file system.

`AppendOnlyLog` has the log, the calls that are open and those that returned. A call
adds its record once or not at all, and only records nobody was promised are ever lost,
from the end. The mapping takes `Records` for the log, `OpenCalls` for the calls.

### 2.7 CascadeEvaluator

One call of `evaluate`. A stage deals its samples out (`StartSample`, at most
`workers` at a time), each makes attempts (`Prepare`, `MaterializationFails`,
`Launch`, `Refuse`), and a running validator ends by itself (`Exits`, with a score or
an error) or has its time up (`TimesOut`), which a descendant that holds the pipe open turns
into an exception (`CleanupRaises`). Deadlines of the stage, the sample and
the attempt count down together in `Tick`; `limitedBy` remembers which of them
an attempt was given, and `Blame` names it. `CloseStage` judges the results
as `_evaluate_stage` does: aggregation, threshold, fixed and sequential test.
`evaluation_accounting` reads the result alone, and `spent` is what really
happened, kept for the property that compares them.

### 2.8 The run directory

`RunDirectory` has the files: rows of streams, each with the number of the run
that wrote it, the manifest and the exported pair. An append has one of three
outcomes: written, lost, or written and raised. `ProgramDatabase`, `PromptDatabase` and
`BestArtifacts` are what three components do to them; `RunInspection` is what
`libreevolve show` makes of them, check by check in the order of the code.
`RunArtifacts` strings the operations together as `evolve()` does, as a list
`todo` of what a run has yet to do: an exception replaces it with the aborted
finalization, a kill with nothing, and the next run finds the directory as it is.
`EvolveLoop` knows why the controller does what it does; `RunArtifacts` knows
what is in the files, and leaves the reasons open.

### 2.9 Candidates, their files and their prompts

`CandidateText` is one file, a sequence of lines, of which the model tells apart
markers, quotes, and the rest: what the tokenizer takes for a marker decides
what a diff may touch. `CandidateWorkspace` is the whole answer: sections in
order, on a copy, everything or nothing. `Materialization` writes the
result, one file operation a step, each of which may fail, with Ctrl+C between any
two.

A prompt is built by functions, from a policy and from what is known of the
parent. `PromptPolicy` is `validate_prompt_context_policy`: of every field, the
values that are accepted, the default, and the normal form that is recorded with
a prompt and normalized again when the prompt is used. The code has a field for
the selection and one for the caps of each of 29 groups of diagnostics; the
model has them as records under the name of the group. `PromptFeedback` is
`_render_feedback` and the renderers below it, one operator each: which records
of a table are told, which fields, how long, and what is said of the rest. An
evaluation is its tables, a record its fields with the lengths of their texts, so
the wording is left out and the counting is not. `PromptSampler` is
`PromptSampler.build`: the selection of sources, files, metrics, failures and
inspirations under a policy, what is told of each, packing by priority, the
caps. `Proposal` joins them along one line of descent; a policy that is refused
refuses the prompt.

## 3. What TLC checks

| run | instance | properties | states |
|---|---|---|---|
| `evolve` | limits of every kind, a token limit of a role, the clock, the strict policy; 2 generations of 2 proposals after 1 seed; 2 workspaces, a flaky evaluator, broken mutations; 1 failing write, Ctrl+C anywhere | `WithinLimits`, `StopReasonTruthful`, `CacheSound`, `FailuresAccounted`, `RecordsAgree`, `NothingSpentAfterStop`, `EvolveEnds` | 1.1 million |
| `evolve_interrupt` | 1 generation, Ctrl+C and 1 failing write | `InterruptEndsRun`, violated | - |
| `ensemble` | 2 roles with schedulers of their own, one confined to 2 of 3 backends; retries, limits, quarantines; 4 calls of up to 3 attempts, rewards 0 and 2, a window of 2, one fault | `AccountsAgree`, `RewardsAreTold`, `CallContract`, `QuarantineHolds`, `CallReturns` | 89 thousand |
| `provider` | 2 attempts on a backend that can be cancelled, or cannot; timeouts of 2, 5, 3 and 1, two faults | `TelemetryIsOwn`, `FinishedMeansFinished`, `JoinOutlastsReap`, `CallsEnd` | 393 thousand |
| `islands` | 3 islands of one cell, room for 2 elites, 4 valid programs and an invalid one, 2 rounds of migration, 2 samples | `ExtremesKept`, `CellsHoldBest`, `SnapshotsRestore`, `TurnsAreFair`, `RotationIsFair`, `RejectionChangesNothing`, `KeepsPromise`, `OneHopARound` | 276 thousand |
| `islands_skip` | 2 islands and a program poor in rank that no other dominates | `ContainedIsSkipped`, violated | - |
| `jsonl_log` | 2 processes, 3 calls, one failed system call, one kill, one power failure | `ImplementsLog`, `CallsReturn` | 390 thousand |
| `evaluator` | a plain process, a cascade with a retry and a sequential test, two pools of threads, embedded evaluation; one kill that leaves a pipe open | `WorkIsCounted`, `EveryStageEarned`, `BlameIsTrue`, `EvaluationEnds` | 184 thousand |
| `records` | 2 runs in one directory, 2 seeds and a child, 2 faults or kills, both collision policies | `ArchiveIsRecorded`, `NumbersInStep`, `NoCandidateForgotten`, `PromptReplays`, `ShownIsTrue`, `PairIsWhole` | 1.3 million |
| `show_finished` | 1 run whose first seed may have a file under a reserved path | `FinishedRunsShow`, violated | - |
| `proposal` | 4 seeds of which 3 are accepted, both modes, 2 proposals, answers as listed in MCProposal, 325 requests for a prompt of which 28 are refused, 2 disk faults, 2 Ctrl+C | `LineageSound`, `OldOrNew`, `PromptFits`, `OneMeaning` | 70 thousand |
| `skeleton` | 3 diffs on a file with two blocks | `SkeletonKept`, violated | - |

*Bounds.* Limits are smaller than what the seeds and proposals of an instance
would consume, so `evolve` reaches every one of them, and larger
than one step, so that the last allowed expense and the first refused one both
occur. Two proposals per generation are the least that tell the first, the last
and a lost proposal apart; two workspaces the least for a cache hit and a miss.
Two provider attempts are the
least for a worker to outlive its call and meet the next one; the timeouts keep
the order of the code's, and three polls let the event, the exit and the
backend's own deadline each come first. `MaxCalls` bounds the calls
made to an ensemble and `MaxFaults` its exceptions, as nothing else would; four
calls are the least to fall out of a window of two with a reward still to come.

Four programs are the least for a tie, two ends of two metrics
and one program that dominates another, with two elites to fight for; three islands
the least for a migrant to be sent on to an island that is not its source; two
rounds of migration (`MaxMigrations`) are the least for a program to come to an
island twice. Three calls on a log (`MaxCalls`) are the least for one to be torn,
one to repair and one to wait; one each of `MaxFaults`, `MaxKills` and `MaxOutages`
lets a failure leave a fragment, a kill interrupt its repair and the power
take what was not synced.

The cascades of `evaluator` are chosen for the pairs of things that meet in them: a
retry under a sample's deadline, a stage's deadline under which a third sample waits
for a thread, an early stop with samples in flight. Two runs are the
least for a directory to be used again, two faults the least for an
export's rollback to fail; two proposals the least for an accepted child to be a parent;
three diffs the least for `SkeletonKept` to fail.

The requests of `proposal` give every field of a policy a value other than its
default, the fields of one family in all combinations that matter, those of
different families together; every group of diagnostics is asked for by two of its
fields in another order, by none, and with a cap of nothing and one of little. The
tables they are told from have one record more than `MaxItems`, and the budgets
bring every status of packing about. `FieldMax`, `MaxFeedback`, `MaxExtra` and
the lengths of notices, markers and checksums are small numbers in the order
of the code's.

Deadlock checking is off where the system may really stop: nobody has to call
`generate`, `add` or an append once its bound is reached, or to run again in the
same directory, and a proposal that was refused ends its line. `EvolveLoop`,
`ProviderCall` and `CascadeEvaluator` need no such exception.

*Fairness.* `WF_vars(Controller)`: the controller is one thread, it waits for
nothing but calls that return or are timed out, so it takes its next step.
`WF_vars(Generate)`: the same of a call in progress. The clock, Ctrl+C and
callers are under no obligation. In `ProviderCall` the caller goes on
(`WF_vars(Caller)`), time passes (`WF_vars(Tick)`), and a worker's wait with a
timeout ends (`WF_vars(Timed(a))`); launches, writes and the start of a thread
may hang, so none of their actions is fair. In `JsonlLog` a process goes on
(`WF_vars(Step(w))`) and flock serves whoever keeps waiting
(`SF_vars(Acquire(w))`); nothing has to fail, be killed or be called. In
`CascadeEvaluator` the evaluator's own threads go on (`WF_vars(Works(s))`,
`WF_vars(CloseStage)`, the start) and time passes; a validator may run for ever, so
`Exits` is not fair, and only the timeouts end it.

*Violations, all kept as findings.* `InterruptEndsRun`: Ctrl+C during an LLM
call leaves `llm.generate`; the `finally` clause of `_generate_with_budget`
appends the call's budget events; if that append raises, its exception replaces the
`KeyboardInterrupt`, `except Exception` in `evolve` takes it for a failed mutation, and
the run goes on. `docs/run-artifacts.md` promises the opposite.
`ContainedIsSkipped`: `_island_program_ids` collects cells, elites and metric
cells but not the Pareto frontier, so a program the target holds in its frontier
alone is not skipped, as the documentation of `migrate` says, but added again.
`FinishedRunsShow`: a seed may be allowed files under reserved paths; if it is
rejected, its failure record names them, and the reader of failure records
allows none, so `show` refuses the whole completed run.
`SkeletonKept`: a diff is confined to the blocks, but what is a block depends on
what the tokenizer takes for a string, and two accepted diffs inside blocks can
hide the markers between them; the third then edits the skeleton.

*Seen while modelling, without a run of its own.*

- `assert last_exc is not None` (`ensemble.py:380`) fails, instead of the `ValueError`
  other roles get, when every backend a role is confined to is quarantined.
- The repair of a log appends its diagnostic to the quarantine without repairing
  that one first (`jsonl.py:275`), so two kills, one in each file, leave a
  complete line that is half fragment, half diagnostic.
- A caught failure of an `llm_call` event after its bytes were written repeats a
  budget event number, from the same root as `InterruptEndsRun`.
- `show` refuses an aborted run whose history append was uncertain ("counts
  differ"); a kill while `overwrite` clears may leave a directory shown as
  completed; the branch for a missing runtime in `_show_runtime_status` is dead.
- An answer without FILE sections that outgrows a limit raises `ValueError` out of
  `apply_workspace_mutation`, and so does `loop.py:852` for the run's own
  limits: one such answer aborts the run.
- `materialize`: a backup that cannot be removed makes the call raise although
  the new root is in place, since the final `except OSError` never sees it; Ctrl+C
  right after `root.rename` leaves no root and the old one in the backup.
- `_truncate_text` exceeds a cap shorter than its own notice; the "omitted N" of
  the final marker is computed before the marker grows.
- An inspiration's feedback ignores the section policy (`prompt.py:6471`), so that its
  proposal is told twice; a stage summary's checks ignore the caps of thresholds and of
  configured checks, and recent failures render their diagnostics with default
  policies (`prompt.py:7544`).
- Checksums, `redacted` and the `resource_limits` of a boundary are told whatever
  their caps say, an excerpt's status even when its cap leaves nothing of it, and the
  workspace of the evaluator (`file_count=0`) even of an evaluation that has none.
  `NeverCapped` in `Proposal` names them.
- `repetition_threshold_filtered_count` also counts failures that other filters drop.
- SEARCH counts places with `str.count`, so two places that overlap are one.

## 4. What is proved

Every theorem holds for all values of the constants that the named assumptions of
the modules allow: limits are naturals, there is at least one
proposal per generation, a broken mutation's result is invalid (`LoopAssumption`,
`DataAssumption`), the roles of an ensemble are finitely many
(`EnsembleAssumption`), no process is called `Nobody` (`WritersAssumption`), scores are
numbers (`EvaluatorAssumption`), so are the threshold, the number of templates and
the ceiling of the rewards (`ArtifactsAssumption`), the limits of a prompt, where there
are any, and the length of a marker (`ProposalAssumption`, `SamplerAssumption`), and so on. TLC evaluates them in the runs.
Every invariant named here was first given to TLC on the instance of its run.

### 4.1 The controller

From `EvolveLoop_proofs`:

| theorem | says |
|---|---|
| `Typing` | `Spec => []TypeOK` |
| `CallsWithinLimit`, `EvaluationsWithin` | `Spec => []LLMCallsWithinLimit`, `Spec => []EvaluationsWithinLimit` |
| `LimitsHold` | `Spec => []WithinLimits`, from these two |
| `NoSpendingAfterStop` | `Spec => NothingSpentAfterStop`, an action property |

None of them is inductive by itself. `LLMCallsWithinLimit` survives a
call only if the controller stands before it with a budget that was checked and has not been
charged since, and only because the attempts of the call are capped by what the
limit has left. The inductive invariant `IInv` adds

- `Control`: where the controller can be. `after` names a place events may lead
  to, the seed or proposal being worked on exists, a candidate is in flight where
  one is used, an abort has its exception, and a manifest is written only
  with a stop reason. The types of `proposal`, `cur` and `manifest` need it.
- `Affordable`: before an expense (`BeforeExpense`) there is no stop reason and
  another evaluation is within the limit, before a call another call is too.

The module begins with facts about the budget's functions: what each
recording adds, that a check changes the stop reason alone, and
(`FirstExhaustedIsExhausted`) that the `CHOOSE` of the first exhausted limit
always has a candidate, so that a check that finds nothing vouches for every
limit. `TypeStep`, `ControlStep` and `AffordableStep` go through the actions one
by one; steps that leave the budget alone are handled together by
`ThriftyStep`. `NoSpendingAfterStop` follows from the same invariant, since an
expense is made only where `Affordable` excludes a stop reason.

Of its candidates and its records, with `IInv` as the base:

| theorem | says |
|---|---|
| `CacheIsSound` | `Spec => []CacheSound` |
| `ProposalsAreAccounted` | `Spec => []FailuresAccounted` |
| `StopReasonIsTrue` | `Spec => []StopReasonTruthful` |
| `RecordsAreTrue` | `Spec => []RecordsAgree` |

Their invariant speaks of the `Stage`, which is where the controller
stands or, while it appends events, where they lead to. `RInv` says
what is in hand there (`InHand`), who was told of it already (`Told`), that a cache
entry is the verdict on somebody in the history or in hand (`Cached`), how the
proposals divide into generations (`Generations`: the last proposal of a
generation is logged exactly when the generation is, or is about to be, counted
as completed) and what each stop reason presupposes (`Stopped`).

`RecordsAreTrue` is about a reader of the streams. Where an append fails the
reader's budget lags behind the controller's, so the invariant is not an equation
but a bridge, `Ledger`: there is a sequence of budgets that begins with the
replayed one, follows the pending events one by one, and ends with the
controller's. A step that records prolongs the bridge by what it records
(`LedgerRecords`), an append that succeeds takes its first span away
(`LedgerEmit`), and where nothing is pending the two budgets are one. `ExcTrue` and
`Ends` say how an exception in flight and the last events depend on each other.

### 4.2 The ensemble and its calls

From `LLMEnsemble_proofs`, for any roles, backends, scopes, retries and windows:

| theorem | says |
|---|---|
| `AccountsAreAccepted` | `Spec => []AccountsAgree` |
| `OneRewardEach` | `Spec => []RewardsAreTold` |
| `CallsKeepContract` | `Spec => []CallContract` |
| `QuarantineIsKept` | `Spec => QuarantineHolds`, an action property |

`IInv` says of the accounts that every listed id is of one record (`Listed`), that
the roles share out ids (`Shares`), counts and totals (`AddUp`) among themselves, and
that the total is what was counted, plus the attempt in progress,
plus what exceptions cut short (`Totalled`); of the window that it is the tail of
the records and only its answers await a reward (`WindowIsTail`, `OnlyAnswers`);
and of a call under way how many attempts its round and retry allow (`InCall`).
`Effect` sorts the actions by what they do to the accounts, so that each part is
proved for four kinds of steps instead of nine. Sums are recursive functions on the
subsets of a set; that one exists (`AddsExists`) and that a change
of one value changes the sum by as much (`SumChanges`) follow from the least subset
for which they would not.

From `ProviderCall_proofs`, for any number of attempts and any timeouts with
`PollInterval + ReapTimeout < JoinTimeout`:

| theorem | says |
|---|---|
| `Typing` | `Spec => []TypeOK` |
| `ReportsHold` | `Spec => []FinishedMeansFinished` |
| `UsageIsOwn` | `Spec => []TelemetryIsOwn` |
| `JoinLongEnough` | `Spec => JoinOutlastsReap`, an action property |

Its inductive invariant says who is under way and by whose leave. `Owned`: while
the caller goes on, a worker is the one it waits for or one it was told may
continue; so `Metadata` can say whose writes the backend's metadata may hold. `Join`
is about the two timers: while the caller joins a worker that polls, the worker's
timer is behind by `JoinTimeout - PollInterval` at least, and once it reaps by
`ReapTimeout` less, which is still more than nothing, so the join cannot expire.

### 4.3 The log

From `JsonlLog_proofs`, for any number of processes, calls and failures:

| theorem | says |
|---|---|
| `LogIsWhole` | `Spec => []IInv`: the log holds records only, in every state the power may leave |
| `AppendsAreKept` | `Spec => ImplementsLog`, the refinement of `AppendOnlyLog` |

`IInv`: calls have numbers of their own, a process at work on the log holds its
lock and knows the fragment at its end (`LogIsHeld`), every content that a power
failure may bring back is a prefix of the log with all that was acknowledged
(`LogOnlyGrows`), and a record is in the log from the moment its line is complete
(`OneLinePerCall`). With that, each step is one of the abstract log's or stutters:
the newline is the append, the return of the call its
acknowledgement, a power failure the loss of a suffix nobody was promised.

### 4.4 Populations

From `Islands_proofs`, for any number of islands, cells, metrics and programs:

| theorem | says |
|---|---|
| `FairTurns` | `Spec => []TurnsAreFair` |
| `BestInCell` | `Spec => []CellsHoldBest` |
| `RowsKeepTheBest` | `Spec => []ExtremesKept`: types, elites and frontiers |
| `SnapshotsAreSound` | `Spec => []SnapshotsRestore` |
| `RotationTakesTurns` | `Spec => []RotationIsFair` |
| `RejectedChangesNothing` | `Spec => RejectionChangesNothing`, an action property |
| `OneHop` | `Spec => OneHopARound`, an action property |
| `BestIsKept` | `Spec => KeepsPromise`, the refinement of `BestEver` |

Programs and metrics are finitely many (`ArchiveAssumption`).

`InTurn` makes fairness inductive: the islands before the current one have had
exactly one accepted addition more than the others. For the cells, `PlacingInCell`
and `PlacingInMetricCell` say what one addition makes of one archive (shapes are
kept, no occupant gives way to a worse one, the program's own cell is as good as
it), and `CellsPlace` lifts that to all islands, whoever is placed wherever.

The rows take more. `RowOf` shows that counting what comes before each position
arranges a finite set in any linear order, so that `Sorted` is a permutation in the
order it is given, whatever the ties (`SortedByKey`, `SortedByValue`,
`SortedByCrowding`). `EliteIs` says of an addition to the elites that what is left out is no better than
anything left in, which with `ElitesOf` is inductive. For the frontier,
`CrowdingIs` bounds a sum of gaps below the distance of the ends; so what trimming
leaves out is an end only if everything left in is one (`TrimmedIs`), and there are
not that many: at most two for each metric, and two altogether when two metrics
rank programs of different vectors that do not dominate each other, since the worst in
one metric is then the best in the other (`FewEnds`). That is `EndsKept`;
`FrontierOf` adds that the frontier is mutually nondominated and without
repetitions, which `FewEnds` and the count need.

`UnchangedHolds` says that an addition which reports no change makes none, which is
`RejectedChangesNothing` and half of `RecencyInv`: what is retained has a sequence
number, of its own. `MigrantsInv` holds during a round: a migrant was held by
its source when the round began, and the ids noted as present at a target cover
what the target holds, so that no program enters a row or a grid twice. The
emigrants are a recursive function of the islands, which exists (`LineExists`) by
the least island for which it would not. `BestIsKept` follows since
the first elite is the best of what arrived (`FirstIsBest`) and everything offered arrived
somewhere. `RotationInv` describes the picks since the last change as a window
on the targets up to the index; two equal picks are then a multiple of a whole
round apart (`SameTurn`), as targets have no repetitions (`TargetsAre`).

### 4.5 Evaluation

From `CascadeEvaluator_proofs`, for any cascade, number of workers, retries,
timeouts and deadlines:

| theorem | says |
|---|---|
| `WorkCounted` | `Spec => []WorkIsCounted` |
| `StagesAreEarned` | `Spec => []EveryStageEarned` |
| `BlameTrue` | `Spec => []BlameIsTrue` |

`IInv` has a part for each idea. `Placed`: samples begin in order, so those
that ended before an early stop are the first ones. `Tried`: a sample's attempts stay
within its retries, and a valid outcome ends in an attempt without error.
`Passed`: every stage that was recorded was earned. `Told`: the timeout of an
attempt is no shorter than the deadline that clipped it, so that when it runs out
the deadline has, too. `Counted`: the expenses so far are the sum
over the recorded stages and over the samples of the current one, where a sample in
flight costs what it has launched. All actions of a sample change that sample
alone, and one lemma (`MoveKeeps`) reduces each of them to what it does there;
`CloseStageKeeps` turns the sum of the current stage into that of a record, and
leaves out samples that were never started because they cost nothing.

### 4.6 Candidates

From `Proposal_proofs`, for any seeds, answers, limits, prompts and disk failures:

| theorem | says |
|---|---|
| `OldFilesSurvive` | `Spec => []OldOrNew` |
| `DescentIsSound` | `Spec => []LineageSound` |
| `PromptsArePacked` | `Spec => [](LengthsAreNumbers => PromptIsPacked)` |

`MInv` says of each point of `materialize` where the old and the new tree are, by what
went wrong so far: before a trouble exactly (`WrittenSoFar`), in a rollback after
what the one failure or interrupt can have left (`Undoing`). A line of
descent is sound since every child is (`GoodChild`): it is constructible, every
file keeps well-formed blocks, its locked members are its parent's,
and no collision of host paths is new. An answer is a fold over its sections, which is unrolled
position by position (`FoldKeeps`).

`PromptIsPacked` is the part of `PromptFits` that is about the budget: the final prompt
is within the limit in characters, a status that does not say otherwise means that it is
whole and its tokens fit, and packing left out what matters least and no more than it had
to. It holds for any policy that is accepted, any priorities it gives, any template and any
limits. What a section comes to is computed by the renderers, which the provers
do not follow; that every length is a number is therefore a premise
(`LengthsAreNumbers`), which the run checks as part of `PromptFits`. The argument has
three parts:

- The order. A section's place is the number of sections to be packed before it.
  `SoonerCounts` shows that this number grows along the order, so that places are distinct,
  and counting (`FS_Injection`) that every place is taken: packing goes once
  through the optional sections and never from one that matters more to one that
  matters less (`PackingOrderIs`). An accepted policy has only numbers for
  priorities (`PrioritiesAreNumbers`).
- The fold, unrolled position by position (`PackingSteps`): a section has its length until
  its turn (`UntilItsTurn`) and what it has then afterwards (`AfterItsTurn`), and once the
  prompt fits nothing changes (`OnceItFits`).
- `PackingLeavesOut`. A section that could have been packed and was not had its turn when
  the prompt fitted already, so all that is gone came before it. With the last one that is
  gone put back, the prompt is what it was before that one's turn, when it did not fit.

### 4.7 The run directory

From `RunArtifacts_proofs`, for any scores, fingerprints, templates, candidates,
runs, faults and kills:

| theorem | says |
|---|---|
| `RunTyped` | `Spec => []TypeOK /\ []Control /\ []FateOK` (`Base`) |
| `NumbersAreInStep` | `Spec => []NumbersInStep` |
| `PairStaysWhole` | `Spec => []PairIsWhole` |
| `PromptLogReplays` | `Spec => []PromptReplays` |
| `ArchiveStaysRecorded` | `Spec => []ArchiveIsRecorded` |
| `NoCandidateIsForgotten` | `Spec => []NoCandidateForgotten` |
| `WhatIsShownIsTrue` | `Spec => []ShownIsTrue` |

All six invariants of the `records` run. The base of the proofs is control:
`todo` is always the rest, from some operation on, of one of the lists that a seed, a
proposal, a failed call or the finalization begins with (`Control`), so that its
head says where `evolve()` is (`Stage`) and each operation leads to the next one or
to the aborted finalization. The lemmas about lists (`RestOfList`, `AtSteps`,
`OpsDiffer`) are what makes a claim about "between `admit` and `log`" one about a
name. `FateOK` ties the memory of how the runs ended to the files. Each
property then has an invariant of its own over `Base`:

- `NumbersInv`. The property counts what repeats against the faults and says
  nothing of the counter in memory. A counter is advanced only after its append
  returned, so the row of the next number may be there already; `Counting` charges that
  row to the faults as well, before it becomes a repetition. Admissions and
  migrations do better: an append of theirs that raises ends the run, so no number is
  there twice (`Upwards`), and no later row can skip one.
- `PairInv`. For each step of the export's body, of the rollback and of the
  cleanup: where each form of the old program is (`Untouched`, `Away`,
  `Replaced`, `Kept`). The rollback undoes by what it finds installed, not by how far
  the body came, so the invariant relates `installed` and `preserved` to the tree.
  What may be lost is bounded by `errors`: only a rollback that failed itself
  leaves a backup as the only copy.
- `ReplayInv`. What a prefix of the log replays to is a recursive function. Over a
  log that grows by a row it is the old function and one more `Read`
  (`ReplaysTo`), which the library's theorem on recursive functions gives without an
  induction of its own. After an append that raised, the log may be one row ahead of
  the database, and then the run is no longer sound.
- `ArchiveInv`, with `MatchInv`. `admit` retains in memory before its event is written
  and `log` comes later: between the two the candidate in hand (`KeptIds`) is in the
  archive and not yet in history. In a run that goes on nobody else is; in one
  that aborts the inclusions remain. `MatchInv` carries the scores across, for what
  `show` ranks by.
- `CoverInv`, with `CountInv`. The candidates the two files tell of are all up to a
  `Level` that the stage determines, the one in hand included once it is
  told. `FailureHistory` is the memory's list of failures, so repetitions counted
  in memory are repetitions of the file. No id is told twice, which is also
  why `show` never refuses a history for a repeated one.
- `LastInv`. What the runtime section says at each stage of the finalization, up to a
  manifest whose pointers are of the files and whose summary is of the history.

`WhatIsShownIsTrue` uses all of these but the numbers and the prompts: `show` recomputes from the files what
`evolve()` had in memory, and goes through its refusals in their order; for a
completed run each but two is excluded by one of these invariants, and the first best row of history is
of the score of the exported program because the archive, the history and the
export agree (`MatchInv`, `ExportTrue`). What the archive retains is any subset that
keeps a best one, as `Islands` and `MapElites` do; the proof does not know more.

The parts of these invariants but `ReplayInv`, which quantifies over functions, were
given to TLC before they were proved: on one run with two seeds, a child and two
faults, and on two runs with a seed, a child and two faults.

### 4.8 Only model-checked

Liveness is out of the prover's reach, so `EvolveEnds`, `CallReturns`, `CallsEnd`,
`CallsReturn` and `EvaluationEnds` are TLC's alone. So are `OneMeaning` of
`Proposal` and what `PromptFits` says besides the packing: which sources, files, failures and
inspirations a prompt shows (`Shown`) and what it tells of each (`ToldAsAsked`). Those are
computed by long functions over `SelectSeq`, of which the provers know nothing, and
`OneMeaning` compares two such functions on every input. Type
invariants that are proved are not repeated as invariants of the runs, where the
other properties could not be evaluated without them.

## 5. Plan

1. A run ledger, abstract (what was spent, whether it is over), refined by
   `EvolveLoop`; an abstract provider call that `ProviderCall` implements.
2. Snapshots of the archives and of the schedulers against what restores them,
   field by field.
3. Process trees and environments of the evaluator; the reports of validators.

## 6. Not modelled

Run configuration, the problem loader, artifact schemas, provenance and
redaction validate or format data and keep no state; their guarantees appear as
assumptions on the constants. The budget report and the alpha
report read finished runs. The command line and alpha sharing are sequential I/O
around `evolve()`. The wording of prompts and of provider answers is data (what is told, how much of
it and in which order is not), and so are the identities of processes, environments and hosts. Resuming a run is not
modelled since `evolve()` always starts afresh.
