----------------------------- MODULE RunBudget -----------------------------
(***************************************************************************)
(* The run budget of libreevolve (core/budget.py, core/budget_contract.py):*)
(* what a run may consume, what it has consumed, when it must stop, and    *)
(* how the same figures are rebuilt from the controller's event stream.    *)
(*                                                                         *)
(* The code keeps one attribute per counter and one per limit.  Here a     *)
(* counter (a meter) bears the name of the limit that bounds it, so the    *)
(* fifteen comparisons of the code are one quantified comparison, and the  *)
(* order in which the code makes them is the sequence LimitOrder.          *)
(***************************************************************************)
EXTENDS Integers, Sequences, FiniteSets, Functions

CONSTANTS
  Limits,          \* the limits the configuration sets: meter -> Nat
  RoleLimits,      \* role limit -> (role scope -> Nat); no scope: no limit
  Roles,           \* the roles LLM calls are made for ("mutation", ...)
  ScopeRoles,      \* role scope -> the roles it matches ("prompt:*" or one)
  MaxGenerations,  \* max_generations
  None             \* Python's None

EvaluatorMeters ==
  {"max_evaluations", "max_evaluator_seconds",
   "max_evaluator_subprocess_attempts", "max_evaluator_stage_samples",
   "max_evaluator_retry_attempts", "max_evaluator_timeouts",
   "max_evaluator_sample_budget_exhaustions",
   "max_evaluator_stage_budget_exhaustions"}

LLMMeters ==
  {"max_llm_calls", "max_llm_provider_attempts", "max_llm_tokens",
   "max_llm_cost_microusd", "max_llm_seconds"}

RoleMeters ==
  {"llm_role_provider_attempt_limits", "llm_role_token_limits",
   "llm_role_cost_microusd_limits", "llm_role_seconds_limits"}

Meters == EvaluatorMeters \cup LLMMeters

LimitOrder ==
  <<"max_evaluations", "max_evaluator_seconds",
    "max_evaluator_subprocess_attempts", "max_evaluator_stage_samples",
    "max_evaluator_retry_attempts", "max_evaluator_timeouts",
    "max_evaluator_sample_budget_exhaustions",
    "max_evaluator_stage_budget_exhaustions",
    "max_llm_calls", "max_llm_provider_attempts", "max_llm_tokens",
    "max_llm_cost_microusd", "max_llm_seconds",
    "llm_role_provider_attempt_limits", "llm_role_token_limits",
    "llm_role_cost_microusd_limits", "llm_role_seconds_limits",
    "max_runtime_seconds">>

LimitNames == {LimitOrder[i] : i \in DOMAIN LimitOrder}

STOP_REASONS ==
  LimitNames \cup
  {"aborted", "completed", "max_generations", "llm_role_call_limits",
   "invalid_initial_programs", "no_parent", "no_valid_programs"}

(* The meter of the run that a per-role meter subdivides. *)
RunMeter ==
  [m \in RoleMeters |->
     CASE m = "llm_role_provider_attempt_limits" -> "max_llm_provider_attempts"
       [] m = "llm_role_token_limits"            -> "max_llm_tokens"
       [] m = "llm_role_cost_microusd_limits"    -> "max_llm_cost_microusd"
       [] m = "llm_role_seconds_limits"          -> "max_llm_seconds"]

ASSUME LimitsAssumption ==
  /\ DOMAIN Limits \subseteq Meters
  /\ \A m \in DOMAIN Limits : Limits[m] \in Nat
  /\ DOMAIN RoleLimits = RoleMeters
  /\ \A m \in RoleMeters :
       /\ DOMAIN RoleLimits[m] \subseteq DOMAIN ScopeRoles
       /\ \A s \in DOMAIN RoleLimits[m] : RoleLimits[m][s] \in Nat
  /\ \A s \in DOMAIN ScopeRoles : ScopeRoles[s] \subseteq Roles
ASSUME MaxGenerationsAssumption == MaxGenerations \in Nat
ASSUME NoneAssumption == None \notin STOP_REASONS \cup Roles

(***************************************************************************)
(* The budget object.                                                      *)
(***************************************************************************)
Budget ==
  [consumed              : [Meters -> Nat],
   byRole                : [RoleMeters -> [Roles -> Nat]],
   seed_evaluations      : Nat,
   candidate_evaluations : Nat,
   generations_started   : Nat,
   generations_completed : Nat,
   stop_reason           : STOP_REASONS \cup {None}]

FreshBudget ==
  [consumed              |-> [m \in Meters |-> 0],
   byRole                |-> [m \in RoleMeters |-> [r \in Roles |-> 0]],
   seed_evaluations      |-> 0,
   candidate_evaluations |-> 0,
   generations_started   |-> 0,
   generations_completed |-> 0,
   stop_reason           |-> None]

(***************************************************************************)
(* What is exhausted.  role = None asks about every role scope.            *)
(***************************************************************************)
RoleScopeConsumed(b, m, s) == SumFunctionOnSet(b.byRole[m], ScopeRoles[s])

RoleBudgetExhausted(b, m, role) ==
  \E s \in DOMAIN RoleLimits[m] :
    /\ role # None => role \in ScopeRoles[s]
    /\ RoleScopeConsumed(b, m, s) >= RoleLimits[m][s]

(* clockOut: max_runtime_seconds is set and the run has lasted that long. *)
ExhaustedOneTooLate(b, m, includeLLM, role, clockOut) ==
  \/ /\ m \in EvaluatorMeters \cap DOMAIN Limits
     /\ b.consumed[m] > Limits[m]
  \/ /\ includeLLM
     /\ m \in LLMMeters \cap DOMAIN Limits
     /\ b.consumed[m] > Limits[m]
  \/ /\ includeLLM
     /\ m \in RoleMeters
     /\ RoleBudgetExhausted(b, m, role)
  \/ /\ m = "max_runtime_seconds"
     /\ clockOut

Exhausted(b, m, includeLLM, role, clockOut) ==
  \/ /\ m \in EvaluatorMeters \cap DOMAIN Limits
     /\ b.consumed[m] >= Limits[m]
  \/ /\ includeLLM
     /\ m \in LLMMeters \cap DOMAIN Limits
     /\ b.consumed[m] >= Limits[m]
  \/ /\ includeLLM
     /\ m \in RoleMeters
     /\ RoleBudgetExhausted(b, m, role)
  \/ /\ m = "max_runtime_seconds"
     /\ clockOut

FirstExhausted(b, includeLLM, role, clockOut) ==
  LET hits == {i \in DOMAIN LimitOrder :
                 Exhausted(b, LimitOrder[i], includeLLM, role, clockOut)}
  IN  IF hits = {}
      THEN None
      ELSE LimitOrder[CHOOSE i \in hits : \A j \in hits : i <= j]

(* A stop reason, once set, answers every later check. *)
CheckLimits(b, includeLLM, role, clockOut) ==
  IF b.stop_reason # None
  THEN b
  ELSE [b EXCEPT !.stop_reason = FirstExhausted(b, includeLLM, role, clockOut)]

CheckBeforeEvaluation(b, clockOut) == CheckLimits(b, FALSE, None, clockOut)
CheckBeforeGeneration(b, clockOut) == CheckLimits(b, FALSE, None, clockOut)
CheckBeforeLLMCall(b, role, clockOut) == CheckLimits(b, TRUE, role, clockOut)

(***************************************************************************)
(* Recording.  accounting: what one evaluation adds to the evaluator's     *)
(* meters besides the evaluation itself; usage: what one call record adds  *)
(* to the meters RoleMeters subdivide.                                     *)
(***************************************************************************)
RecordEvaluation(b, seed, accounting) ==
  [b EXCEPT
     !.consumed = [m \in Meters |->
                     CASE m = "max_evaluations" -> @[m] + 1
                       [] m \in EvaluatorMeters \ {"max_evaluations"}
                            -> @[m] + accounting[m]
                       [] OTHER -> @[m]],
     !.seed_evaluations = IF seed THEN @ + 1 ELSE @,
     !.candidate_evaluations = IF seed THEN @ ELSE @ + 1]

(* calls: how many calls to count; records: how many of them left a record *)
(* with usage.  A call without a record is counted and charged nothing.    *)
RecordLLMCalls(b, role, calls, records, usage) ==
  [b EXCEPT
     !.consumed = [m \in Meters |->
                     CASE m = "max_llm_calls" -> @[m] + calls
                       [] m \in LLMMeters \ {"max_llm_calls"}
                            -> @[m] + records * usage[m]
                       [] OTHER -> @[m]],
     !.byRole = [m \in RoleMeters |->
                   [r \in Roles |->
                      IF r = role THEN @[m][r] + records * usage[RunMeter[m]]
                                  ELSE @[m][r]]]]

RecordGenerationStart(b) == [b EXCEPT !.generations_started = @ + 1]
RecordGenerationComplete(b) == [b EXCEPT !.generations_completed = @ + 1]

FinishBlindToLLMLimits(b, bestFound, clockOut) ==
  LET c == CheckLimits(b, FALSE, None, clockOut) IN
  IF c.stop_reason # None
  THEN c
  ELSE [c EXCEPT !.stop_reason =
          IF ~bestFound THEN "no_valid_programs"
          ELSE IF c.generations_completed >= MaxGenerations
               THEN "max_generations"
               ELSE "completed"]

Finish(b, bestFound, clockOut) ==
  LET c == CheckLimits(b, TRUE, None, clockOut) IN
  IF c.stop_reason # None
  THEN c
  ELSE [c EXCEPT !.stop_reason =
          IF ~bestFound THEN "no_valid_programs"
          ELSE IF c.generations_completed >= MaxGenerations
               THEN "max_generations"
               ELSE "completed"]

(***************************************************************************)
(* The controller's budget events, and their replay.                       *)
(***************************************************************************)
EvaluationEvent(seed, accounting) ==
  [kind |-> IF seed THEN "seed_evaluation" ELSE "candidate_evaluation",
   accounting |-> accounting]
CacheHitEvent == [kind |-> "candidate_evaluation_cache_hit"]
LLMCallEvent(role, records, usage) ==
  [kind |-> "llm_call", role |-> role, records |-> records, usage |-> usage]
GenerationStartedEvent == [kind |-> "generation_started"]
GenerationCompletedEvent == [kind |-> "generation_completed"]
StopEvent(reason) == [kind |-> "stop", stop_reason |-> reason]

ApplyControllerBudgetEvent(b, e) ==
  CASE e.kind = "seed_evaluation" -> RecordEvaluation(b, TRUE, e.accounting)
    [] e.kind = "candidate_evaluation" ->
         RecordEvaluation(b, FALSE, e.accounting)
    [] e.kind = "candidate_evaluation_cache_hit" -> b
    [] e.kind = "llm_call" -> RecordLLMCalls(b, e.role, 1, e.records, e.usage)
    [] e.kind = "generation_started" -> RecordGenerationStart(b)
    [] e.kind = "generation_completed" -> RecordGenerationComplete(b)
    [] e.kind = "stop" -> [b EXCEPT !.stop_reason = e.stop_reason]

Consumption(b) == [b EXCEPT !.stop_reason = None]
=============================================================================
