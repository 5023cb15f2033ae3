---------------------------- MODULE RunArtifacts ----------------------------
(***************************************************************************)
(* The life of a run directory: evolve as far as it writes.  A run finds   *)
(* the directory free or clears it, opens the database and the prompts,    *)
(* logs every seed and child through its streams, exports the best and     *)
(* finishes the manifest; an exception sends it to the aborted             *)
(* finalization, and it may be killed between any two steps.  Runs follow  *)
(* one another in the same directory.                                      *)
(*                                                                         *)
(* What a run has yet to do is `todo`, a list of operations.               *)
(***************************************************************************)
EXTENDS ProgramDatabase, PromptDatabase, BestArtifacts, RunInspection

CONSTANTS
  Policies,     \* the values of run_collision_policy a run may come with
  Scores,       \* the scores of an evaluation
  Prints,       \* the fingerprints of a failure
  PathKinds,    \* what paths the files of a seed may have: plain, reserved
  MaxSeeds,     \* bound: seeds of a run
  MaxChildren,  \* bound: proposals of a run, one a generation
  MaxRuns,      \* bound: runs in the directory
  MaxFaults     \* bound: operations that fail, and kills

ASSUME ArtifactsAssumption ==
  /\ Scores \subseteq Int /\ Threshold \in Int
  /\ Templates \in Nat /\ RewardCeiling \in Nat /\ MaxHops \in Nat

VARIABLES
  pc,       \* "off", or the part of evolve under way
  todo,     \* the operations left
  current,  \* the candidate in hand
  kept,     \* what its admission said
  runtime,  \* the runtime section being put together
  fates,    \* how each run ended
  faults    \* how many operations failed, and kills came

control == <<pc, todo, current, kept, runtime, fates, faults>>
promptsAndExport == <<prompts, export>>
vars == <<directory, memory, prompts, export, control>>

NoCandidate == [id |-> -1]
NoParent == [id |-> -1, score |-> 0]
NoPrompt == 0
Terminal == <<"stop", "export", "history", "manifest">>
SeedSteps == <<"seed_evaluation", "admit", "log_seed_failure", "log">>
ChildSteps ==
  <<"generation_started", "llm_call", "llm_event", "candidate_evaluation", "admit",
    "log_failure", "reward", "log", "record_result", "migrate", "generation_completed">>

Init ==
  /\ EmptyDirectory
  /\ archived = {} /\ admissions = 0 /\ hops = 0 /\ logged = <<>> /\ failures = <<>>
  /\ budgetEvents = 0 /\ llmCalls = 0
  /\ prompts = <<>> /\ export = Idle
  /\ pc = "off" /\ todo = <<>> /\ current = NoCandidate /\ kept = FALSE
  /\ runtime = Nothing /\ fates = <<>> /\ faults = 0

(***************************************************************************)
(* Starting.                                                               *)
(***************************************************************************)

ForgetAll ==
  /\ OpenDatabase /\ ForgetPrompts
  /\ current' = NoCandidate /\ kept' = FALSE /\ runtime' = Nothing

(* With policy "fail" anything a run would own refuses the start.  The     *)
(* memory is that of a new process.                                        *)
Claim(policy) ==
  /\ pc = "off" /\ run < MaxRuns
  /\ policy = "fail" => Existing = <<>>
  /\ pc' = "clearing" /\ todo' = Existing
  /\ fates' = IF Existing = <<>> THEN fates ELSE [fates EXCEPT ![run] = "cleared"]
  /\ ForgetAll
  /\ UNCHANGED <<directory, export, faults>>

Clear ==
  /\ pc = "clearing" /\ todo # <<>>
  /\ RemoveName(Head(todo))
  /\ todo' = Tail(todo)
  /\ UNCHANGED <<memory, promptsAndExport, pc, current, kept, runtime, fates, faults>>

(* The startup manifest has the schema of the artifacts and no runtime.    *)
(* What earlier exports left under names of their own is not looked at     *)
(* again, and is forgotten here.                                           *)
OpenRun ==
  /\ pc = "clearing" /\ todo = <<>>
  /\ run' = run + 1
  /\ manifest' = [run |-> run + 1, runtime |-> Nothing]
  /\ export' = Idle
  /\ pc' = "running" /\ todo' = [i \in 1 .. Templates |-> "prompt"]
  /\ fates' = Append(fates, "under way")
  /\ tree' = [p \in Paths |-> IF p \in Places THEN tree[p] ELSE Nothing]
  /\ UNCHANGED <<files, memory, prompts, current, kept, runtime, faults>>

(***************************************************************************)
(* Going on after an operation.                                            *)
(***************************************************************************)

(* In the aborted finalization every part has a try of its own, so that    *)
(* the next one is reached in any case.                                    *)
Fault == faults < MaxFaults /\ faults' = faults + 1

Raise ==
  /\ Fault
  /\ IF pc = "aborting" THEN pc' = pc /\ todo' = Tail(todo)
     ELSE pc' = "aborting" /\ todo' = Terminal

Continue(outcome, rest) ==
  IF outcome = "written" THEN todo' = rest /\ UNCHANGED <<pc, faults>> ELSE Raise

Doing(op) == todo # <<>> /\ Head(todo) = op /\ pc \in {"running", "finishing", "aborting"}

AddPrompt(outcome) ==
  /\ Doing("prompt")
  /\ AddSeed(outcome)
  /\ Continue(outcome, Tail(todo))
  /\ UNCHANGED <<memory, export, current, kept, runtime, fates>>

(***************************************************************************)
(* A candidate, from its evaluation to the end of its generation.          *)
(***************************************************************************)
NextId == current.id + 1
(* The fingerprint and the paths matter to the row of a failure only.      *)
Candidate(valid, score, print, paths, parent, prompt) ==
  LET eligible == valid /\ score >= Threshold
  IN [id |-> NextId, parent |-> parent.id, prompt |-> prompt, baseline |-> parent.score,
      valid |-> valid,
      score |-> IF valid THEN score ELSE 0,
      print |-> IF eligible THEN "none" ELSE print,
      paths |-> IF eligible THEN "plain" ELSE paths]

Ready == pc = "running" /\ todo = <<>>

Seed(valid, score, print, paths) ==
  /\ Ready /\ NextId < MaxSeeds
  /\ current' = Candidate(valid, score, print, paths, NoParent, NoPrompt)
  /\ todo' = SeedSteps
  /\ UNCHANGED <<directory, memory, promptsAndExport, pc, kept, runtime, fates, faults>>

(* The prompt program is picked before the call, and scored by what came   *)
(* of it; a failed call scores none.                                       *)
Propose(valid, score, print, parent, prompt) ==
  /\ Ready /\ NextId >= MaxSeeds /\ NextId < MaxSeeds + MaxChildren
  /\ current' = Candidate(valid, score, print, "plain", parent, prompt.id)
  /\ todo' = ChildSteps
  /\ UNCHANGED <<directory, memory, promptsAndExport, pc, kept, runtime, fates, faults>>

(* What is recorded of a proposal whose call failed.                       *)
FailedProposal == [current EXCEPT !.valid = FALSE, !.score = 0, !.print = "llm"]

BudgetEvent(kind, outcome) ==
  /\ Doing(kind)
  /\ kind \notin {"llm_event", "stop"}
  /\ LogControllerBudgetEvent(kind, outcome)
  /\ Continue(outcome, Tail(todo))
  /\ UNCHANGED <<promptsAndExport, current, kept, runtime, fates>>

(* The budget may have no call left: that ends the loop, with no candidate *)
(* made.                                                                   *)
NoCallLeft ==
  /\ Doing("llm_call")
  /\ current' = [current EXCEPT !.id = @ - 1]
  /\ pc' = "finishing" /\ todo' = Terminal
  /\ UNCHANGED <<directory, memory, promptsAndExport, kept, runtime, fates, faults>>

(* The call fails, or its record does, or Ctrl+C comes; the budget event   *)
(* of the call is logged all the same, in a finally.                       *)
AfterCall(ending) ==
  CASE ending = "answered" -> Tail(todo)
    [] ending = "failed" -> <<"llm_event", "log_failure">>
    [] ending = "interrupted" -> <<"llm_event", "interrupt">>
CallModel(outcome, ending) ==
  /\ Doing("llm_call")
  /\ ending = "answered" => outcome = "written"
  /\ LogLLMCall("call", outcome)
  /\ current' = IF ending = "failed" THEN FailedProposal ELSE current
  /\ todo' = AfterCall(ending)
  /\ IF ending = "answered" THEN UNCHANGED faults ELSE Fault
  /\ UNCHANGED <<promptsAndExport, pc, kept, runtime, fates>>

(* What the event's append raises is caught as a failed call, unless it is *)
(* Ctrl+C; it replaces the exception on its way out, Ctrl+C too.           *)
LogCallEvent(outcome, caught) ==
  /\ Doing("llm_event")
  /\ LogControllerBudgetEvent("llm_call", outcome)
  /\ caught => outcome # "written"
  /\ IF caught
     THEN /\ current' = FailedProposal
          /\ todo' = <<"log_failure">>
          /\ Fault
          /\ UNCHANGED pc
     ELSE Continue(outcome, Tail(todo)) /\ UNCHANGED current
  /\ UNCHANGED <<promptsAndExport, kept, runtime, fates>>

Reraise ==
  /\ Doing("interrupt")
  /\ pc' = "aborting" /\ todo' = Terminal
  /\ UNCHANGED <<directory, memory, promptsAndExport, current, kept, runtime, fates, faults>>

IsSeed == current.parent = NoParent.id
(* Mutant: a seed is a failure only when its evaluation failed.            *)
FailsIfInvalid(admitted) ==
  IF IsSeed THEN ~current.valid ELSE ~Eligible(current)

(* A seed is a failure when it was not admitted, a child when it has no    *)
(* valid score of the threshold.                                           *)
Fails(admitted) == IF IsSeed THEN ~admitted ELSE ~Eligible(current)

AdmitCurrent(admitted, outcome) ==
  /\ Doing("admit")
  /\ Admit(current, admitted, outcome)
  /\ kept' = admitted
  /\ Continue(outcome, IF Fails(admitted) THEN Tail(todo) ELSE Tail(Tail(todo)))
  /\ UNCHANGED <<promptsAndExport, current, runtime, fates>>

RecordFailure(outcome) ==
  /\ Doing("log_failure") \/ Doing("log_seed_failure")
  /\ LogFailure(current, outcome)
  /\ Continue(outcome, Tail(todo))
  /\ UNCHANGED <<promptsAndExport, current, kept, runtime, fates>>

LogReward(outcome) ==
  /\ Doing("reward")
  /\ LogLLMCall("reward", outcome)
  /\ Continue(outcome, Tail(todo))
  /\ UNCHANGED <<promptsAndExport, current, kept, runtime, fates>>

LogProgram(outcome) ==
  /\ Doing("log")
  /\ Log(current, kept, outcome)
  /\ Continue(outcome, Tail(todo))
  /\ UNCHANGED <<promptsAndExport, current, kept, runtime, fates>>

(* prompt_reward_mode "improvement": what the child has over its parent.   *)
ScorePrompt(outcome) ==
  /\ Doing("record_result")
  /\ RecordResult(current.prompt, current.score - current.baseline, outcome)
  /\ Continue(outcome, Tail(todo))
  /\ UNCHANGED <<memory, export, current, kept, runtime, fates>>

Migrate(outcome) ==
  /\ Doing("migrate")
  /\ \/ MaybeMigrate(outcome)
     \/ outcome = "written" /\ UNCHANGED <<directory, memory>>
  /\ Continue(outcome, Tail(todo))
  /\ UNCHANGED <<promptsAndExport, current, kept, runtime, fates>>

(***************************************************************************)
(* Finishing.                                                              *)
(***************************************************************************)

(* The budget or the generations end the loop.                             *)
Finish ==
  /\ pc = "running" /\ todo = <<>>
  /\ pc' = "finishing" /\ todo' = Terminal
  /\ UNCHANGED <<directory, memory, promptsAndExport, current, kept, runtime, fates, faults>>

(* Ctrl+C, or what else is raised where nothing is being written.          *)
Interrupt ==
  /\ pc \in {"running", "finishing"}
  /\ export.at \notin {"body", "rollback", "cleanup"}
  /\ Raise
  /\ UNCHANGED <<directory, memory, promptsAndExport, current, kept, runtime, fates>>

LogStop(outcome) ==
  /\ Doing("stop")
  /\ LogControllerBudgetEvent("stop", outcome)
  /\ runtime' = [status |-> IF pc = "finishing" THEN "completed" ELSE "aborted",
                 history |-> Nothing, artifacts |-> Nothing, export |-> "none"]
  /\ Continue(outcome, Tail(todo))
  /\ UNCHANGED <<promptsAndExport, current, kept, fates>>

StartExport ==
  /\ Doing("export")
  /\ IF archived = {}
     THEN todo' = Tail(todo) /\ UNCHANGED <<tree, export>>
     ELSE /\ \E b \in Best : BeginExport(b)
          /\ todo' = <<"exporting">> \o Tail(todo)
  /\ UNCHANGED <<files, manifest, run, memory, prompts, pc, current, kept, runtime, fates, faults>>

Export ==
  /\ Doing("exporting")
  /\ ExportStep
  /\ UNCHANGED <<memory, prompts, control>>

ExportFails ==
  /\ Doing("exporting")
  /\ ExportFault
  /\ Fault
  /\ UNCHANGED <<memory, prompts, pc, todo, current, kept, runtime, fates>>

ExportInterrupted ==
  /\ Doing("exporting")
  /\ InterruptExport
  /\ Raise
  /\ UNCHANGED <<memory, prompts, current, kept, runtime, fates>>

(* A failed export is a record in the runtime, not an exception.           *)
EndExport ==
  /\ Doing("exporting")
  /\ export.at \in {"completed", "failed"}
  /\ runtime' = [runtime EXCEPT !.export = export.at]
  /\ todo' = Tail(todo)
  /\ UNCHANGED <<directory, memory, promptsAndExport, pc, current, kept, fates, faults>>

PointersTo(rows) ==
  [streams |-> [s \in Streams |-> Len(rows[s])], best |-> [p \in Places |-> tree[p]]]

(* The summary writes evaluator_results anew, then the pointers are taken; *)
(* a summary that raises leaves the file as it was, or empty.              *)
WithResults(results) == [files EXCEPT !.evaluator_results = results]
EvaluatorResults == [i \in DOMAIN logged |-> [id |-> logged[i], run |-> run]]
(* Mutant: the pointers are taken before evaluator_results is written.     *)
SummarizeAfterPointers(outcome) ==
  /\ Doing("history")
  /\ files' \in IF outcome = "written" THEN {WithResults(EvaluatorResults)}
                ELSE {files, WithResults(<<>>)}
  /\ runtime' = IF outcome = "written"
                THEN [runtime EXCEPT !.history = HistorySummary, !.artifacts = PointersTo(files)]
                ELSE runtime
  /\ Continue(outcome, Tail(todo))
  /\ UNCHANGED <<manifest, tree, run, memory, promptsAndExport, current, kept, fates>>

SummarizeHistory(outcome) ==
  /\ Doing("history")
  /\ files' \in IF outcome = "written" THEN {WithResults(EvaluatorResults)}
                ELSE {files, WithResults(<<>>)}
  /\ runtime' = IF outcome = "written"
                THEN [runtime EXCEPT !.history = HistorySummary,
                                     !.artifacts = PointersTo(WithResults(EvaluatorResults))]
                ELSE runtime
  /\ Continue(outcome, Tail(todo))
  /\ UNCHANGED <<manifest, tree, run, memory, promptsAndExport, current, kept, fates>>

(* The manifest is replaced at once; a write that raises leaves the old.   *)
FinishManifest(outcome) ==
  /\ Doing("manifest")
  /\ IF outcome = "written" THEN WriteManifest([manifest EXCEPT !.runtime = runtime])
     ELSE UNCHANGED directory
  /\ IF outcome = "written" \/ pc = "aborting"
     THEN /\ pc' = "off" /\ todo' = <<>>
          /\ fates' = [fates EXCEPT ![run] = IF pc = "finishing" THEN "completed" ELSE "aborted"]
          /\ IF outcome = "written" THEN UNCHANGED faults ELSE Fault
     ELSE Raise /\ UNCHANGED fates
  /\ UNCHANGED <<memory, promptsAndExport, current, kept, runtime>>

(* A kill, of a run that opened or of one that was clearing: the memory is *)
(* gone.                                                                   *)
Kill ==
  /\ pc # "off"
  /\ pc' = "off" /\ todo' = <<>>
  /\ fates' = IF pc = "clearing" THEN fates ELSE [fates EXCEPT ![run] = "killed"]
  /\ ForgetAll
  /\ Fault
  /\ UNCHANGED <<directory, export>>

Logging(outcome) ==
  \/ AddPrompt(outcome)
  \/ \E kind \in {"seed_evaluation", "generation_started", "candidate_evaluation",
                  "generation_completed"} : BudgetEvent(kind, outcome)
  \/ \E ending \in {"answered", "failed", "interrupted"} : CallModel(outcome, ending)
  \/ \E caught \in BOOLEAN : LogCallEvent(outcome, caught)
  \/ \E admitted \in BOOLEAN : AdmitCurrent(admitted, outcome)
  \/ RecordFailure(outcome)
  \/ LogReward(outcome)
  \/ LogProgram(outcome)
  \/ ScorePrompt(outcome)
  \/ Migrate(outcome)
  \/ LogStop(outcome)
  \/ SummarizeHistory(outcome)
  \/ FinishManifest(outcome)

Next ==
  \/ \E policy \in Policies : Claim(policy)
  \/ Clear \/ OpenRun
  \/ \E outcome \in Outcomes : Logging(outcome)
  \/ \E valid \in BOOLEAN, score \in Scores, print \in Prints :
       \/ \E paths \in PathKinds : Seed(valid, score, print, paths)
       \/ \E parent \in archived, prompt \in Selectable :
            Propose(valid, score, print, parent, prompt)
  \/ NoCallLeft \/ Reraise \/ Finish \/ Interrupt
  \/ StartExport \/ Export \/ ExportFails \/ ExportInterrupted \/ EndExport
  \/ Kill

Spec == Init /\ [][Next]_vars

(***************************************************************************)
(* Properties.                                                             *)
(***************************************************************************)

Fate == IF run = 0 THEN "none" ELSE fates[run]
Live == pc \in {"running", "finishing", "aborting"}
Between == pc = "running" /\ todo = <<>>
Whole == Between \/ pc = "finishing" \/ (pc = "off" /\ Fate = "completed")

IdsOf(rows) == {rows[i].id : i \in DOMAIN rows}
Taken == {a.id : a \in archived}
RecordedAsTaken == {History[i].id : i \in {j \in DOMAIN History : History[j].admitted}}
Of(type, rows) == {i \in DOMAIN rows : rows[i].type = type}
EventedAsTaken ==
  LET events == files.archive_events
  IN {events[i].id : i \in {j \in Of("admission", events) : events[j].reason = "retained"}}

(* The archive takes a program before either stream says so.  Whatever     *)
(* append raises in between, the files never name a program the archive    *)
(* does not have, the archive is ahead of them by the candidate in hand at *)
(* most, and between candidates and after a completed run it is not ahead. *)
ArchiveIsRecorded ==
  /\ Live => /\ RecordedAsTaken \subseteq EventedAsTaken
             /\ EventedAsTaken \subseteq Taken
             /\ Taken \ {current.id} \subseteq RecordedAsTaken
  /\ Whole => RecordedAsTaken = Taken /\ EventedAsTaken = Taken

Numbers(rows, places) == {rows[i].number : i \in places}
Repeats(rows, places) ==
  {j \in places : \E i \in places : i < j /\ rows[i].number = rows[j].number}
Numbered(rows, places, first) ==
  /\ \A i, j \in places : i < j => rows[i].number <= rows[j].number
  /\ \A n \in Numbers(rows, places) : n >= first /\ first .. n \subseteq Numbers(rows, places)
  /\ Cardinality(Repeats(rows, places)) <= faults

(* A run adds to no other run's rows; its numbers in a stream leave no gap, *)
(* and one repeats only where an append raised after its row was written.  *)
NumbersInStep ==
  Live =>
    /\ manifest.run = run
    /\ \A s \in Streams : \A i \in DOMAIN files[s] : files[s][i].run = run
    /\ Numbered(files.archive_events, Of("admission", files.archive_events), 1)
    /\ Numbered(files.archive_events, Of("migration", files.archive_events), 1)
    /\ Numbered(files.controller_budget_events, DOMAIN files.controller_budget_events, 0)
    /\ Numbered(files.llm_calls, Of("call", files.llm_calls), 1)

(* After a completed run every candidate is in history or, when its call   *)
(* failed, among the failures; every program of history that fell short is *)
(* among the failures too, its repetition count is its place among those   *)
(* of its fingerprint, and the manifest sums them up.                      *)
NoCandidateForgotten ==
  LET short == {History[i].id : i \in {j \in DOMAIN History : ~Eligible(History[j])}}
      rows == FailureHistory
      alike(i) == {j \in 1 .. i : rows[j].print = rows[i].print}
  IN /\ Whole => /\ 0 .. current.id = IdsOf(History) \cup IdsOf(rows)
                 /\ short \subseteq IdsOf(rows)
     /\ Live => \A i \in DOMAIN rows : rows[i].count = Cardinality(alike(i))
     /\ pc = "off" /\ Fate = "completed" =>
          {[print |-> e.print, n |-> e.occurrences] : e \in manifest.runtime.history.index} =
          {[print |-> rows[i].print,
            n |-> Cardinality({j \in DOMAIN rows : rows[j].print = rows[i].print})]
             : i \in DOMAIN rows}

(* The prompt log always replays; it gives back the database of the run,   *)
(* but for the row an append left behind when it raised.                   *)
PromptReplays ==
  /\ ~Replayed(files.prompt_history).refused
  /\ Whole => Replayed(files.prompt_history).programs = prompts

(* The pointers of a finished manifest are of the files as the run left    *)
(* them.  `show` calls a run completed only when it was, and shows a       *)
(* program of the top score, the score of the exported pair.  It refuses a *)
(* completed run only when nothing was retained or for a failure whose     *)
(* file is under a reserved path.                                          *)
ShownIsTrue ==
  pc = "off" /\ Fate # "none" =>
    /\ Fate \in {"completed", "aborted"} /\ HasRuntime /\ manifest.runtime.artifacts # Nothing =>
         manifest.runtime.artifacts = PointersTo(files)
    /\ Inspection.shown /\ Inspection.status = "completed" =>
         /\ Fate \in {"completed", "cleared"}
         /\ Fate = "completed" =>
              /\ \A a \in archived : a.score <= Inspection.best.score
              /\ manifest.runtime.export = "completed" =>
                   \A p \in Places : tree[p].score = Inspection.best.score
    /\ Fate = "completed" /\ ~Inspection.shown =>
         \/ archived = {} /\ Inspection.why \in {"no history", "nothing retained"}
         \/ /\ Inspection.why = "malformed failure history"
            /\ \E i \in DOMAIN FailureHistory : FailureHistory[i].paths = "reserved"

Same(pair) == pair["best.py"] = pair["best_workspace"]

(* An export that ended leaves the two forms of one program: the new one,  *)
(* or the old pair after a failure it rolled back.  Until the new pair is  *)
(* in place the old one is, in its place or in the backup, also after a    *)
(* kill and after a rollback that failed.                                  *)
PairIsWhole ==
  export.at # "idle" /\ pc # "clearing" /\ Fate # "cleared" =>
    /\ export.at \in {"completed", "failed"} /\ export.errors = 0 /\ Same(export.old) => Same(tree)
    /\ \/ \A p \in Places : tree[p] = export.program
       \/ \A p \in Places : export.old[p] \in {tree[p], tree[Backup(p)]}

(* A completed run with a retained program is shown.                       *)
FinishedRunsShow ==
  pc = "off" /\ Fate = "completed" /\ archived # {} => Inspection.shown

=============================================================================
