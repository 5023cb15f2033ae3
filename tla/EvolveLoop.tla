----------------------------- MODULE EvolveLoop ----------------------------
(***************************************************************************)
(* evolve() of core/loop.py: the controller that evaluates the seeds, then *)
(* asks an LLM for proposals, evaluates and admits them, keeps the budget, *)
(* appends every decision to durable streams and ends with a manifest.     *)
(*                                                                         *)
(* One action is one stretch of the controller between two durable writes  *)
(* or two outside calls.  A durable write may fail before or after the     *)
(* bytes reach the file, and Ctrl+C may arrive between any two actions.    *)
(***************************************************************************)
EXTENDS RunBudget

CONSTANTS
  NumSeeds,                \* seed workspaces of the problem
  ProposalsPerGeneration,  \* proposals_per_generation
  MaxCallAttempts,         \* llm_max_call_attempts
  MigrationInterval,       \* generations between migrations; 0: never
  StrictPolicy,            \* initial_program_validity_policy is strict
  RuntimeLimited,          \* max_runtime_seconds is set
  Workspaces,              \* candidate source trees, up to their hash
  Results,                 \* what evaluating a workspace may return
  DiffErrorResult,         \* what evaluate() returns for a broken mutation
  Accountings,             \* what an evaluation may charge the evaluator
  NoAccounting,            \* the charge of a synthetic result
  Usages,                  \* what one provider call may charge
  MaxFaults,               \* bound: durable writes that fail
  MaxInterrupts            \* bound: Ctrl+C, 0 or 1

VARIABLES
  pc,              \* where the controller is
  budget,          \* the RunBudget in memory
  clockOut,        \* the runtime limit has passed
  stream,          \* controller_budget_events: its replay, its length, ...
  sequence,        \* the database's next event sequence number
  pending,         \* budget events recorded in memory, not yet appended
  after,           \* where the controller goes once pending is empty
  cache,           \* evaluation cache: workspace -> entry
  archive,         \* the candidates the archive holds
  history,         \* the candidates in programs.jsonl
  failures,        \* the program ids in failure_history.jsonl
  nextSeed, strictInvalid,
  proposal,        \* proposal_loop_index
  parent, cur,     \* the parent and the candidate of this proposal
  faults,          \* durable writes that have failed
  interrupted,     \* Ctrl+C was delivered
  exc,             \* the exception that is ending the run
  manifest         \* the runtime section of manifest.json

envVars == <<clockOut, faults, interrupted, exc>>
ledgerVars == <<budget, stream, sequence, pending, after>>
programVars == <<cache, archive, history, failures>>
loopVars == <<nextSeed, strictInvalid, proposal, parent, cur>>
vars == <<pc, ledgerVars, envVars, programVars, loopVars, manifest>>

MaxProposals == MaxGenerations * ProposalsPerGeneration
Role == "mutation"
VALID_THRESHOLD == 0

Result == [fitness : Int, valid : BOOLEAN, strict : BOOLEAN]
Accounting == [EvaluatorMeters -> Nat]
Usage == [LLMMeters -> Nat]
Exceptions == {"OSError", "ValueError", "KeyboardInterrupt"}
ProgramIds == 1 .. (NumSeeds + MaxProposals)

ASSUME LoopAssumption ==
  /\ NumSeeds \in Nat /\ ProposalsPerGeneration \in Nat \ {0}
  /\ MaxCallAttempts \in Nat \ {0} /\ MigrationInterval \in Nat
  /\ StrictPolicy \in BOOLEAN /\ RuntimeLimited \in BOOLEAN
  /\ MaxFaults \in Nat /\ MaxInterrupts \in Nat
  /\ Role \in Roles /\ None \notin Exceptions
ASSUME DataAssumption ==
  /\ Results \subseteq Result
  /\ DiffErrorResult \in Result /\ ~DiffErrorResult.valid
  /\ Accountings \subseteq Accounting /\ NoAccounting \in Accounting
  /\ Usages \subseteq Usage

(***************************************************************************)
(* Types.                                                                  *)
(***************************************************************************)
(* source: the program whose evaluation produced the result. *)
Candidate ==
  [id : ProgramIds, ws : Workspaces, diffError : BOOLEAN,
   result : Result, source : ProgramIds]
NoCandidate == [id |-> 0]
CacheEntry == [result : Result, source : ProgramIds]
NoEntry == [source |-> 0]

Event ==
  [kind : {"seed_evaluation", "candidate_evaluation"},
   accounting : Accounting]
  \cup [kind : {"candidate_evaluation_cache_hit", "generation_started",
                "generation_completed"}]
  \cup [kind : {"llm_call"}, role : Roles, records : 0 .. 1, usage : Usage]
  \cup [kind : {"stop"}, stop_reason : STOP_REASONS]

Stream ==
  [replay : Budget,      \* the budget the events replay to
   lines : Nat,
   ordered : BOOLEAN,    \* every event's sequence number is its position
   stops : Seq(STOP_REASONS)]

Manifest ==
  [status : {"started"}]
  \cup [status : {"completed"}, stop_reason : STOP_REASONS]
  \cup [status : {"aborted"}, stop_reason : {"aborted"},
        exception : Exceptions]

SeedPCs == {"seed_check", "seed_evaluate", "seed_admit", "seed_archive_event",
            "seed_reject", "seed_log", "policy"}
ProposalPCs == {"proposal", "generate", "deadline", "call", "llm_failure",
                "apply", "evaluate", "admit", "archive_event", "reject",
                "reward", "log", "prompt_result", "migrate",
                "generation_complete"}
EndPCs == {"finish", "manifest"}
EmitPCs == {"emit", "llm_emit"}
AbortPCs == {"abort", "abort_emit", "abort_manifest"}
Terminal == {"returned", "raised"}
TryPCs == SeedPCs \cup ProposalPCs \cup EndPCs \cup EmitPCs
PCs == TryPCs \cup AbortPCs \cup Terminal

Init ==
  /\ pc = "seed_check"
  /\ budget = FreshBudget
  /\ clockOut = FALSE
  /\ stream = [replay |-> FreshBudget, lines |-> 0, ordered |-> TRUE,
               stops |-> <<>>]
  /\ sequence = 0
  /\ pending = <<>>
  /\ after = "seed_check"
  /\ cache = [w \in Workspaces |-> NoEntry]
  /\ archive = {}
  /\ history = {}
  /\ failures = {}
  /\ nextSeed = 1
  /\ strictInvalid = FALSE
  /\ proposal = 0
  /\ parent = NoCandidate
  /\ cur = NoCandidate
  /\ faults = 0
  /\ interrupted = FALSE
  /\ exc = None
  /\ manifest = [status |-> "started"]

(***************************************************************************)
(* Durable writes.  append_strict_jsonl and strict_json_dump either        *)
(* succeed, fail with nothing that counts on disk (a torn last line is     *)
(* truncated by the next append), or fail after the bytes are on disk      *)
(* (fsync, lock release): "kept".  Failing is raising.                     *)
(***************************************************************************)
WriteOutcomes ==
  {"ok"} \cup (IF faults < MaxFaults THEN {"lost", "kept"} ELSE {})

Durable(o, next, handler) ==
  /\ faults' = IF o = "ok" THEN faults ELSE faults + 1
  /\ pc' = IF o = "ok" THEN next ELSE handler
  /\ exc' = IF o # "ok" /\ handler = "abort" THEN "OSError" ELSE exc

(* log_controller_budget_event: the sequence number is advanced only when *)
(* the append returns.                                                    *)
StreamWith(e) ==
  [replay  |-> ApplyControllerBudgetEvent(stream.replay, e),
   lines   |-> stream.lines + 1,
   ordered |-> stream.ordered /\ sequence = stream.lines,
   stops   |-> IF e.kind = "stop"
               THEN Append(stream.stops, e.stop_reason)
               ELSE stream.stops]

AppendBudgetEvent(o, e) ==
  /\ stream' = IF o = "lost" THEN stream ELSE StreamWith(e)
  /\ sequence' = IF o = "ok" THEN sequence + 1 ELSE sequence

(* Record in memory first, append the events after. *)
RecordThenEmit(b, events, next) ==
  /\ budget' = b
  /\ pending' = events
  /\ after' = next
  /\ UNCHANGED <<stream, sequence>>

EmitFrom(here, handler) ==
  /\ pc = here
  /\ pending # <<>>
  /\ \E o \in WriteOutcomes :
       /\ Durable(o, IF Len(pending) = 1 THEN after ELSE here, handler)
       /\ AppendBudgetEvent(o, Head(pending))
       /\ pending' = IF o = "ok" THEN Tail(pending) ELSE <<>>
  /\ UNCHANGED <<budget, after, clockOut, interrupted, programVars, loopVars,
                 manifest>>

Emit == EmitFrom("emit", "abort")

(* The appends of _generate_with_budget run in its finally clause, inside *)
(* evolve's try: whatever was to follow the call, Ctrl+C included, an     *)
(* append that raises replaces it, and evolve takes it for a failed       *)
(* mutation (see LLMFailure, which drops exc).                            *)
EmitLLMCalls == EmitFrom("llm_emit", "llm_failure")

(***************************************************************************)
(* Candidates.                                                             *)
(***************************************************************************)
Eligible(r) == r.valid /\ r.fitness >= VALID_THRESHOLD

(* db.admit: an invalid or low candidate leaves the archive alone; the     *)
(* first eligible one always enters; a later one enters or not, and may    *)
(* displace others.                                                        *)
Admissions(c) ==
  IF ~Eligible(c.result)
  THEN {archive}
  ELSE {(archive \ displaced) \cup {c} : displaced \in SUBSET archive}
         \cup (IF archive = {} THEN {} ELSE {archive})

(* No key, hence no entry, for a candidate whose mutation failed to apply. *)
(* The last result stored for a workspace is the one that counts.          *)
StoreWhateverTheDiff(c) ==
  [cache EXCEPT ![c.ws] = [result |-> c.result, source |-> c.source]]

StoreEvaluation(c) ==
  IF c.diffError
  THEN cache
  ELSE [cache EXCEPT ![c.ws] = [result |-> c.result, source |-> c.source]]

LookupWhateverTheDiff(c) == cache[c.ws]

EvaluationCacheLookup(c) == IF c.diffError THEN NoEntry ELSE cache[c.ws]

(***************************************************************************)
(* Seeds.                                                                  *)
(***************************************************************************)
SeedCheckWithoutBreak ==
  /\ pc = "seed_check"
  /\ IF nextSeed > NumSeeds
     THEN /\ pc' = "policy"
          /\ UNCHANGED budget
     ELSE /\ budget' = CheckBeforeEvaluation(budget, clockOut)
          /\ pc' = "seed_evaluate"
  /\ UNCHANGED <<stream, sequence, pending, after, envVars, programVars,
                 loopVars, manifest>>

SeedCheck ==
  /\ pc = "seed_check"
  /\ IF nextSeed > NumSeeds
     THEN /\ pc' = "policy"
          /\ UNCHANGED budget
     ELSE /\ budget' = CheckBeforeEvaluation(budget, clockOut)
          /\ pc' = IF budget'.stop_reason # None THEN "policy"
                                                 ELSE "seed_evaluate"
  /\ UNCHANGED <<stream, sequence, pending, after, envVars, programVars,
                 loopVars, manifest>>

(* A seed is evaluated even if an equal one was: only proposals look up. *)
SeedEvaluate ==
  /\ pc = "seed_evaluate"
  /\ \E w \in Workspaces, r \in Results, acc \in Accountings :
       /\ cur' = [id |-> nextSeed, ws |-> w, diffError |-> FALSE,
                  result |-> r, source |-> nextSeed]
       /\ cache' = StoreEvaluation(cur')
       /\ RecordThenEmit(RecordEvaluation(budget, TRUE, acc),
                         <<EvaluationEvent(TRUE, acc)>>, "seed_admit")
  /\ pc' = "emit"
  /\ UNCHANGED <<envVars, archive, history, failures, nextSeed,
                 strictInvalid, proposal, parent, manifest>>

SeedAdmit ==
  /\ pc = "seed_admit"
  /\ budget' = CheckBeforeEvaluation(budget, clockOut)
  /\ archive' \in Admissions(cur)
  /\ pc' = "seed_archive_event"
  /\ UNCHANGED <<stream, sequence, pending, after, envVars, cache, history,
                 failures, loopVars, manifest>>

SeedArchiveEvent ==
  /\ pc = "seed_archive_event"
  /\ \E o \in WriteOutcomes :
       /\ Durable(o, "seed_reject", "abort")
       /\ strictInvalid' =
            IF o = "ok" THEN strictInvalid \/ ~cur.result.strict
                        ELSE strictInvalid
  /\ UNCHANGED <<ledgerVars, clockOut, interrupted, programVars, nextSeed,
                 proposal, parent, cur, manifest>>

(* A seed the archive did not take is a failure, even a valid one. *)
SeedReject ==
  /\ pc = "seed_reject"
  /\ IF cur \in archive
     THEN /\ pc' = "seed_log"
          /\ UNCHANGED <<failures, faults, exc>>
     ELSE \E o \in WriteOutcomes :
            /\ Durable(o, "seed_log", "abort")
            /\ failures' = IF o = "lost" THEN failures
                                         ELSE failures \cup {cur.id}
  /\ UNCHANGED <<ledgerVars, clockOut, interrupted, cache, archive, history,
                 loopVars, manifest>>

SeedLog ==
  /\ pc = "seed_log"
  /\ \E o \in WriteOutcomes :
       /\ Durable(o, "seed_check", "abort")
       /\ history' = IF o = "lost" THEN history ELSE history \cup {cur}
       /\ nextSeed' = IF o = "ok" THEN nextSeed + 1 ELSE nextSeed
  /\ UNCHANGED <<ledgerVars, clockOut, interrupted, cache, archive, failures,
                 strictInvalid, proposal, parent, cur, manifest>>

(* The strict policy overwrites whatever stop reason the seeds left. *)
PolicyThatTriesTheSeedsAgain ==
  /\ pc = "policy"
  /\ pc' = IF StrictPolicy /\ strictInvalid THEN "seed_check" ELSE "proposal"
  /\ UNCHANGED <<ledgerVars, envVars, programVars, loopVars, manifest>>

InitialProgramPolicy ==
  /\ pc = "policy"
  /\ budget' = IF StrictPolicy /\ strictInvalid
               THEN [budget EXCEPT !.stop_reason = "invalid_initial_programs"]
               ELSE budget
  /\ pc' = "proposal"
  /\ UNCHANGED <<stream, sequence, pending, after, envVars, programVars,
                 loopVars, manifest>>

(***************************************************************************)
(* One proposal.                                                           *)
(***************************************************************************)
EveryProposalIsFirst == TRUE
FirstOfGeneration == proposal % ProposalsPerGeneration = 0
LastOfGeneration == proposal % ProposalsPerGeneration
                      = ProposalsPerGeneration - 1
CandidateGeneration == (proposal \div ProposalsPerGeneration) + 1
GeneratedId == NumSeeds + proposal + 1

(* check_before_generation asks no more than check_before_evaluation. *)
CheckBeforeProposal(b) ==
  CheckBeforeLLMCall(CheckBeforeEvaluation(b, clockOut), Role, clockOut)

LoopEnds ==
  /\ pc = "proposal"
  /\ proposal = MaxProposals \/ budget.stop_reason # None
  /\ pc' = "finish"
  /\ UNCHANGED <<ledgerVars, envVars, programVars, loopVars, manifest>>

BeginProposal ==
  /\ pc = "proposal"
  /\ proposal < MaxProposals
  /\ budget.stop_reason = None
  /\ LET b == CheckBeforeProposal(budget) IN
     \/ /\ b.stop_reason # None
        /\ budget' = b
        /\ pc' = "finish"
        /\ UNCHANGED <<stream, sequence, pending, after, parent>>
     \/ /\ b.stop_reason = None
        /\ archive = {}
        /\ budget' = [b EXCEPT !.stop_reason = "no_valid_programs"]
        /\ pc' = "finish"
        /\ UNCHANGED <<stream, sequence, pending, after, parent>>
     \/ /\ b.stop_reason = None
        /\ parent' \in archive
        /\ IF FirstOfGeneration
           THEN /\ RecordThenEmit(RecordGenerationStart(b),
                                  <<GenerationStartedEvent>>, "generate")
                /\ pc' = "emit"
           ELSE /\ budget' = b
                /\ pc' = "generate"
                /\ UNCHANGED <<stream, sequence, pending, after>>
  /\ UNCHANGED <<envVars, programVars, nextSeed, strictInvalid, proposal, cur,
                 manifest>>

(* _generate_with_budget: the budget is checked again before the call, and *)
(* exhaustion ends the loop.                                               *)
CheckBeforeCall ==
  /\ pc = "generate"
  /\ budget' = CheckBeforeLLMCall(budget, Role, clockOut)
  /\ pc' = IF budget'.stop_reason # None THEN "finish" ELSE "deadline"
  /\ UNCHANGED <<stream, sequence, pending, after, envVars, programVars,
                 loopVars, manifest>>

(* The clock is read once more: it may have run out since the check, and   *)
(* then the loop ends with no stop reason set.                             *)
CheckDeadline ==
  /\ pc = "deadline"
  /\ pc' = IF clockOut THEN "finish" ELSE "call"
  /\ UNCHANGED <<ledgerVars, envVars, programVars, loopVars, manifest>>

(* llm.max_call_attempts for this call, _remaining_llm_call_budget. *)
UncappedAttempts == MaxCallAttempts
CallAttempts ==
  IF "max_llm_calls" \notin DOMAIN Limits
  THEN MaxCallAttempts
  ELSE LET left == Limits["max_llm_calls"] - budget.consumed["max_llm_calls"]
           cap == IF left >= 1 THEN left ELSE 1
       IN  IF cap <= MaxCallAttempts THEN cap ELSE MaxCallAttempts

(* What follows a call that left n records. *)
CallOutcomes(n) ==
  (IF n >= 1 THEN {"apply"} ELSE {})            \* a response
  \cup {"llm_failure"}                          \* the last attempt failed
  \cup (IF n = 0 THEN {"finish"} ELSE {})       \* a role call limit: no call
  \cup (IF ~interrupted /\ MaxInterrupts > 0 THEN {"abort"} ELSE {})

(* One event per record the ensemble retained, and bare ones up to the     *)
(* number of calls counted.                                                *)
EventsOfRecordsOnly(calls, kept, u) ==
  [i \in 1 .. kept |-> LLMCallEvent(Role, 1, u)]
LLMBudgetEvents(calls, kept, u) ==
  [i \in 1 .. calls |-> LLMCallEvent(Role, IF i <= kept THEN 1 ELSE 0, u)]

(* A call without a record counts as one call, in the ledger and in the    *)
(* events; a short history window may have dropped all but the last record.*)
LLMCall ==
  /\ pc = "call"
  /\ \E n \in 0 .. CallAttempts, kept \in 0 .. MaxCallAttempts, u \in Usages :
       \E next \in CallOutcomes(n) :
         LET calls == IF n = 0 THEN 1 ELSE n IN
         /\ kept <= n
         /\ n > 0 => kept > 0
         /\ RecordThenEmit(
              RecordLLMCalls(budget, Role, calls, kept, u),
              LLMBudgetEvents(calls, kept, u),
              next)
         /\ interrupted' = (interrupted \/ next = "abort")
         /\ exc' = IF next = "abort" THEN "KeyboardInterrupt" ELSE exc
  /\ pc' = "llm_emit"
  /\ UNCHANGED <<clockOut, faults, programVars, loopVars, manifest>>

(* log_failure and continue: the rest of the loop body is skipped, the end *)
(* of the generation included.                                             *)
LLMFailure ==
  /\ pc = "llm_failure"
  /\ \E o \in WriteOutcomes :
       /\ faults' = IF o = "ok" THEN faults ELSE faults + 1
       /\ pc' = IF o = "ok" THEN "proposal" ELSE "abort"
       /\ exc' = IF o = "ok" THEN None ELSE "OSError"
       /\ failures' = IF o = "lost" THEN failures
                                    ELSE failures \cup {GeneratedId}
       /\ proposal' = IF o = "ok" THEN proposal + 1 ELSE proposal
  /\ UNCHANGED <<ledgerVars, clockOut, interrupted, cache, archive, history,
                 nextSeed, strictInvalid, parent, cur, manifest>>

(* A mutation that does not apply leaves the candidate with its parent's   *)
(* workspace and a diff error.                                             *)
ApplyMutation ==
  /\ pc = "apply"
  /\ \E w \in Workspaces, diffError \in BOOLEAN :
       /\ diffError => w = parent.ws
       /\ cur' = [id |-> GeneratedId, ws |-> w, diffError |-> diffError,
                  result |-> DiffErrorResult, source |-> GeneratedId]
  /\ pc' = "evaluate"
  /\ UNCHANGED <<ledgerVars, envVars, programVars, nextSeed, strictInvalid,
                 proposal, parent, manifest>>

(* A candidate over the workspace limits, an evaluator that cannot run, or *)
(* a reward for a role that is not reward-accounted, raises out of the     *)
(* loop.                                                                   *)
RaiseFromCandidate ==
  /\ pc \in {"apply", "seed_evaluate", "evaluate", "reward"}
  /\ pc' = "abort"
  /\ exc' = "ValueError"
  /\ UNCHANGED <<ledgerVars, clockOut, faults, interrupted, programVars,
                 loopVars, manifest>>

EvaluateFromCache ==
  /\ pc = "evaluate"
  /\ LET entry == EvaluationCacheLookup(cur) IN
     /\ entry # NoEntry
     /\ cur' = [cur EXCEPT !.result = entry.result, !.source = entry.source]
  /\ RecordThenEmit(budget, <<CacheHitEvent>>, "admit")
  /\ pc' = "emit"
  /\ UNCHANGED <<envVars, programVars, nextSeed, strictInvalid, proposal,
                 parent, manifest>>

EvaluateCandidate ==
  /\ pc = "evaluate"
  /\ EvaluationCacheLookup(cur) = NoEntry
  /\ \E r \in Results \cup {DiffErrorResult},
        acc \in Accountings \cup {NoAccounting} :
       /\ IF cur.diffError THEN r = DiffErrorResult /\ acc = NoAccounting
                           ELSE r \in Results /\ acc \in Accountings
       /\ cur' = [cur EXCEPT !.result = r]
       /\ cache' = StoreEvaluation(cur')
       /\ RecordThenEmit(RecordEvaluation(budget, FALSE, acc),
                         <<EvaluationEvent(FALSE, acc)>>, "admit")
  /\ pc' = "emit"
  /\ UNCHANGED <<envVars, archive, history, failures, nextSeed, strictInvalid,
                 proposal, parent, manifest>>

Admit ==
  /\ pc = "admit"
  /\ budget' = CheckBeforeEvaluation(budget, clockOut)
  /\ archive' \in Admissions(cur)
  /\ pc' = "archive_event"
  /\ UNCHANGED <<stream, sequence, pending, after, envVars, cache, history,
                 failures, loopVars, manifest>>

(* The archive changed in memory before its event is appended. *)
ArchiveEvent ==
  /\ pc = "archive_event"
  /\ \E o \in WriteOutcomes : Durable(o, "reject", "abort")
  /\ UNCHANGED <<ledgerVars, clockOut, interrupted, programVars, loopVars,
                 manifest>>

Reject ==
  /\ pc = "reject"
  /\ IF Eligible(cur.result)
     THEN /\ pc' = "reward"
          /\ UNCHANGED <<failures, faults, exc>>
     ELSE \E o \in WriteOutcomes :
            /\ Durable(o, "reward", "abort")
            /\ failures' = IF o = "lost" THEN failures
                                         ELSE failures \cup {cur.id}
  /\ UNCHANGED <<ledgerVars, clockOut, interrupted, cache, archive, history,
                 loopVars, manifest>>

(* The backend's reward record, and below the prompt's result. *)
Reward ==
  /\ pc = "reward"
  /\ \E o \in WriteOutcomes : Durable(o, "log", "abort")
  /\ UNCHANGED <<ledgerVars, clockOut, interrupted, programVars, loopVars,
                 manifest>>

Log ==
  /\ pc = "log"
  /\ \E o \in WriteOutcomes :
       /\ Durable(o, "prompt_result", "abort")
       /\ history' = IF o = "lost" THEN history ELSE history \cup {cur}
  /\ UNCHANGED <<ledgerVars, clockOut, interrupted, cache, archive, failures,
                 loopVars, manifest>>

PromptResult ==
  /\ pc = "prompt_result"
  /\ \E o \in WriteOutcomes :
       /\ Durable(o, IF LastOfGeneration THEN "migrate" ELSE "proposal",
                  "abort")
       /\ proposal' = IF o = "ok" /\ ~LastOfGeneration THEN proposal + 1
                                                       ELSE proposal
  /\ UNCHANGED <<ledgerVars, clockOut, interrupted, programVars, nextSeed,
                 strictInvalid, parent, cur, manifest>>

(* maybe_migrate copies programs between islands: the archive holds the    *)
(* same programs after as before.                                          *)
Migrate ==
  /\ pc = "migrate"
  /\ IF MigrationInterval > 0 /\ CandidateGeneration % MigrationInterval = 0
     THEN \E o \in WriteOutcomes :
            Durable(o, "generation_complete", "abort")
     ELSE /\ pc' = "generation_complete"
          /\ UNCHANGED <<faults, exc>>
  /\ UNCHANGED <<ledgerVars, clockOut, interrupted, programVars, loopVars,
                 manifest>>

GenerationComplete ==
  /\ pc = "generation_complete"
  /\ RecordThenEmit(RecordGenerationComplete(budget),
                    <<GenerationCompletedEvent>>, "proposal")
  /\ proposal' = proposal + 1
  /\ pc' = "emit"
  /\ UNCHANGED <<envVars, programVars, nextSeed, strictInvalid, parent, cur,
                 manifest>>

(***************************************************************************)
(* The end of the run.                                                     *)
(***************************************************************************)
(* db.best() is None exactly when the archive is empty. *)
FinishRun ==
  /\ pc = "finish"
  /\ LET b == Finish(budget, archive # {}, clockOut) IN
     RecordThenEmit(b, <<StopEvent(b.stop_reason)>>, "manifest")
  /\ pc' = "emit"
  /\ UNCHANGED <<envVars, programVars, loopVars, manifest>>

(* update_manifest_runtime after export_best_artifacts, whose failure is a *)
(* field of the manifest and not an exception.                             *)
WriteCompletedManifest ==
  /\ pc = "manifest"
  /\ \E o \in WriteOutcomes :
       /\ Durable(o, "returned", "abort")
       /\ manifest' = IF o = "lost" THEN manifest
                      ELSE [status |-> "completed",
                            stop_reason |-> budget.stop_reason]
  /\ UNCHANGED <<ledgerVars, clockOut, interrupted, programVars, loopVars>>

(* _write_aborted_runtime: each stage runs whatever became of the others. *)
AbortRunUnlessStopped ==
  /\ pc = "abort"
  /\ IF stream.stops = <<>>
     THEN /\ RecordThenEmit([budget EXCEPT !.stop_reason = "aborted"],
                            <<StopEvent("aborted")>>, "abort_manifest")
          /\ pc' = "abort_emit"
     ELSE /\ pc' = "abort_manifest"
          /\ UNCHANGED ledgerVars
  /\ UNCHANGED <<envVars, programVars, loopVars, manifest>>

AbortRun ==
  /\ pc = "abort"
  /\ RecordThenEmit([budget EXCEPT !.stop_reason = "aborted"],
                    <<StopEvent("aborted")>>, "abort_manifest")
  /\ pc' = "abort_emit"
  /\ UNCHANGED <<envVars, programVars, loopVars, manifest>>

EmitAbort == EmitFrom("abort_emit", "abort_manifest")

WriteAbortedManifest ==
  /\ pc = "abort_manifest"
  /\ \E o \in WriteOutcomes :
       /\ Durable(o, "raised", "raised")
       /\ manifest' = IF o = "lost" THEN manifest
                      ELSE [status |-> "aborted", stop_reason |-> "aborted",
                            exception |-> exc]
  /\ UNCHANGED <<ledgerVars, clockOut, interrupted, programVars, loopVars>>

(***************************************************************************)
(* The environment: the clock, and Ctrl+C between two actions.  During an  *)
(* LLM call it is one of the call's outcomes; while aborting, it costs the *)
(* stage at hand or everything left.                                       *)
(***************************************************************************)
ClockExpires ==
  /\ RuntimeLimited
  /\ ~clockOut
  /\ pc \notin Terminal
  /\ clockOut' = TRUE
  /\ UNCHANGED <<pc, ledgerVars, faults, interrupted, exc, programVars,
                 loopVars, manifest>>

Interrupt ==
  /\ ~interrupted
  /\ MaxInterrupts > 0
  /\ \/ /\ pc \in TryPCs \ {"call"}
        /\ pc' = "abort"
        /\ exc' = "KeyboardInterrupt"
     \/ /\ pc = "abort_emit"
        /\ pc' = "abort_manifest"
        /\ UNCHANGED exc
     \/ /\ pc \in AbortPCs
        /\ pc' = "raised"
        /\ UNCHANGED exc
  /\ interrupted' = TRUE
  /\ UNCHANGED <<ledgerVars, clockOut, faults, programVars, loopVars, manifest>>

Terminated ==
  /\ pc \in Terminal
  /\ UNCHANGED vars

Controller ==
  \/ SeedCheck \/ SeedEvaluate \/ SeedAdmit \/ SeedArchiveEvent \/ SeedReject
  \/ SeedLog \/ InitialProgramPolicy
  \/ LoopEnds \/ BeginProposal \/ CheckBeforeCall \/ CheckDeadline \/ LLMCall
  \/ LLMFailure \/ ApplyMutation \/ RaiseFromCandidate
  \/ EvaluateFromCache \/ EvaluateCandidate \/ Admit \/ ArchiveEvent \/ Reject
  \/ Reward \/ Log \/ PromptResult \/ Migrate \/ GenerationComplete
  \/ Emit \/ EmitLLMCalls
  \/ FinishRun \/ WriteCompletedManifest
  \/ AbortRun \/ EmitAbort \/ WriteAbortedManifest

Next == Controller \/ ClockExpires \/ Interrupt \/ Terminated

(* Every outside call returns or is timed out, so the controller, one      *)
(* thread that never waits for another, always takes its next step.        *)
Spec == Init /\ [][Next]_vars
FairSpec == Spec /\ WF_vars(Controller)

(***************************************************************************)
(* Properties.                                                             *)
(***************************************************************************)
(* Every variable keeps its type. *)
TypeOK ==
  /\ pc \in PCs
  /\ budget \in Budget
  /\ clockOut \in BOOLEAN
  /\ stream \in Stream
  /\ sequence \in Nat
  /\ pending \in Seq(Event)
  /\ after \in PCs
  /\ cache \in [Workspaces -> CacheEntry \cup {NoEntry}]
  /\ archive \subseteq Candidate
  /\ history \subseteq Candidate
  /\ failures \subseteq ProgramIds
  /\ nextSeed \in 1 .. (NumSeeds + 1)
  /\ strictInvalid \in BOOLEAN
  /\ proposal \in 0 .. MaxProposals
  /\ parent \in Candidate \cup {NoCandidate}
  /\ cur \in Candidate \cup {NoCandidate}
  /\ faults \in Nat
  /\ interrupted \in BOOLEAN
  /\ exc \in Exceptions \cup {None}
  /\ manifest \in Manifest

(* A run never counts more LLM calls than max_llm_calls, although one      *)
(* logical call may take several attempts and each counts: the attempts    *)
(* left to a call are those left to the run (_remaining_llm_call_budget).  *)
LLMCallsWithinLimit ==
  "max_llm_calls" \in DOMAIN Limits
    => budget.consumed["max_llm_calls"] <= Limits["max_llm_calls"]

(* A run never evaluates more programs than max_evaluations, seeds, broken *)
(* mutations and proposals together; cache hits are free.                  *)
EvaluationsWithinLimit ==
  "max_evaluations" \in DOMAIN Limits
    => budget.consumed["max_evaluations"] <= Limits["max_evaluations"]

(* The two limits that are never overrun. *)
WithinLimits == LLMCallsWithinLimit /\ EvaluationsWithinLimit

(* The budget the events replay to once the pending ones are appended. *)
ReplayedWithPending ==
  LET replayed[i \in 0 .. Len(pending)] ==
        IF i = 0 THEN stream.replay
        ELSE ApplyControllerBudgetEvent(replayed[i - 1], pending[i])
  IN  replayed[Len(pending)]

(* As long as no durable write failed and nobody pressed Ctrl+C, the event *)
(* stream and the budget in memory differ by the pending events alone, the *)
(* stream's sequence numbers are its positions, and when evolve is over    *)
(* the stream replays to the budget, stop reason included: what            *)
(* validate_controller_budget_replay_state demands of a finished run.      *)
LedgerInStep ==
  (faults = 0 /\ ~interrupted)
    => /\ Consumption(ReplayedWithPending) = Consumption(budget)
       /\ stream.ordered
       /\ pc \in Terminal => stream.replay = budget

(* Every entry of the evaluation cache is the result of an evaluation of   *)
(* that very workspace, made for a candidate that is in the history or in  *)
(* flight, and whose mutation had applied: a diff-error result, which says *)
(* nothing of the workspace, never gets in.  Proposals that arrive at the  *)
(* same workspace get the same verdict, however flaky the evaluator, and   *)
(* only one of them was evaluated.                                         *)
CacheSound ==
  /\ \A w \in Workspaces :
       cache[w] # NoEntry =>
         \E c \in history \cup {cur} :
           /\ c # NoCandidate
           /\ c.id = cache[w].source /\ c.source = c.id
           /\ c.ws = w /\ ~c.diffError
           /\ c.result = cache[w].result
  /\ \A c, d \in {h \in history : h.id > NumSeeds /\ ~h.diffError} :
       c.ws = d.ws =>
         /\ c.result = d.result
         /\ c.source = d.source

(* A proposal whose mutation failed to apply carries its parent's source,  *)
(* which is a valid program; it is nevertheless never archived, and it and *)
(* every other invalid or low proposal in the history is in the failure    *)
(* log as well, where no eligible one is.                                  *)
RejectsAreFailures ==
  /\ \A c \in archive : ~c.diffError /\ Eligible(c.result)
  /\ \A c \in history :
       c.id > NumSeeds => (Eligible(c.result) <=> c.id \notin failures)

(* No proposal is lost or told twice: each one the loop has passed left    *)
(* exactly one candidate in the history, or none and a failure.  Between   *)
(* proposals, a generation counts as started when its first proposal got a *)
(* parent, and as completed when its last proposal came through, whatever  *)
(* became of the others.                                                   *)
ProposalsAccounted ==
  /\ \A i \in (NumSeeds + 1) .. (NumSeeds + proposal) :
       LET told == {c \in history : c.id = i} IN
       /\ Cardinality(told) <= 1
       /\ told = {} => i \in failures
  /\ \A c \in history : c.id <= GeneratedId
  /\ pc = "proposal" =>
       /\ (budget.generations_started - 1) * ProposalsPerGeneration < proposal
       /\ proposal <= budget.generations_started * ProposalsPerGeneration
       /\ budget.generations_completed =
            Cardinality({g \in 1 .. MaxGenerations :
              \E c \in history :
                c.id = NumSeeds + g * ProposalsPerGeneration})

(* Failures and proposals are told once, and by the right log. *)
FailuresAccounted == RejectsAreFailures /\ ProposalsAccounted

(* The stop reason of a run that ended by itself tells the truth: a limit  *)
(* named is exhausted, max_generations means every generation completed,   *)
(* no_valid_programs that the archive is empty, and "completed" is none of *)
(* these.                                                                  *)
StopReasonTruthful ==
  pc = "returned" =>
    LET reason == budget.stop_reason
        spent == {m \in LimitNames :
                    Exhausted(budget, m, TRUE, None, clockOut)}
    IN  /\ reason \in LimitNames => reason \in spent
        /\ reason = "max_generations" <=>
             /\ reason \notin LimitNames /\ archive # {}
             /\ ~(StrictPolicy /\ strictInvalid)
             /\ budget.generations_completed = MaxGenerations
        /\ reason = "no_valid_programs" => archive = {}
        /\ reason = "completed" =>
             archive # {} /\ spent \subseteq {"max_runtime_seconds"}
        /\ reason = "invalid_initial_programs" =>
             /\ StrictPolicy /\ strictInvalid
             /\ budget.consumed["max_llm_calls"] = 0

(* Disturbances other than the one that is ending the run. *)
Secondary ==
  LET shocks == faults + (IF interrupted THEN 1 ELSE 0)
  IN  IF exc \in {"OSError", "KeyboardInterrupt"} THEN shocks - 1 ELSE shocks

(* What evolve leaves behind agrees with how it ended.  If it returned,    *)
(* the manifest says completed, with the one stop reason of the stream; if *)
(* it raised and nothing else went wrong, the manifest says aborted, names *)
(* the exception, and the stream's last stop is "aborted", after at most   *)
(* the stop of the finish that failed.                                     *)
TerminalRecordsAgree ==
  /\ pc = "returned" =>
       /\ manifest = [status |-> "completed",
                      stop_reason |-> budget.stop_reason]
       /\ stream.stops = <<budget.stop_reason>>
  /\ (pc = "raised" /\ Secondary = 0) =>
       /\ manifest = [status |-> "aborted", stop_reason |-> "aborted",
                      exception |-> exc]
       /\ Len(stream.stops) \in 1 .. 2
       /\ stream.stops[Len(stream.stops)] = "aborted"

(* The events agree with the budget, and what is left behind with the end. *)
RecordsAgree == LedgerInStep /\ TerminalRecordsAgree

(* A secondary persistence error does not mask Ctrl+C: once it was         *)
(* delivered, evolve does not return normally.                             *)
InterruptEndsRun == interrupted => pc # "returned"

(* A run that must stop spends nothing more: no evaluation, no LLM call    *)
(* and no new generation.  Its stop reason stands, but for the strict      *)
(* seed policy and an abort, which overwrite it.                           *)
NothingSpentAfterStop ==
  [][budget.stop_reason # None =>
       /\ budget'.consumed = budget.consumed
       /\ budget'.generations_started = budget.generations_started
       /\ budget'.stop_reason # budget.stop_reason =>
            \/ pc = "policy" /\ StrictPolicy
            \/ budget'.stop_reason = "aborted"]_vars

(* evolve ends, one way or the other. *)
EvolveEnds == <>(pc \in Terminal)
=============================================================================
