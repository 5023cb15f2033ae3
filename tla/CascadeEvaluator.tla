-------------------------- MODULE CascadeEvaluator --------------------------
(***************************************************************************)
(* One call of CascadeEvaluator.evaluate (core/evaluator.py): the stages   *)
(* of a cascade, the samples of a stage one after the other or on a pool   *)
(* of threads, the attempts of a sample, each a validator process with a   *)
(* timeout, under the deadline of the sample and that of the stage; what   *)
(* is made of their results, and evaluation_accounting, which counts from  *)
(* the result what was spent on it.                                        *)
(*                                                                         *)
(* Time is discrete and deadlines count down.  Preparing an attempt takes  *)
(* any time; a process whose time is up is killed before time goes on.     *)
(* One metric stands for all, and is the fitness; it is scaled so that the *)
(* means of the scores are whole.                                          *)
(***************************************************************************)
EXTENDS Integers, SequencesExt

CONSTANTS
  Configs,     \* the configurations: sequences of stages
  Scores,      \* what validators score
  Penalty,     \* the fitness of a synthetic failure: -0.2
  Unlimited,   \* no deadline is configured
  NoResult,
  MaxFaults    \* bound: kills that leave a pipe open

(* A stage as it is configured.  No stages: one process, called validate.  *)
Stages ==
  [samples : Nat \ {0}, workers : Nat \ {0}, retries : Nat,
   timeout : Nat \ {0}, seconds : Nat \cup {Unlimited},
   sampleSeconds : Nat \cup {Unlimited}, embedded : BOOLEAN,
   minScore : Int, aggregation : {"mean", "min", "max", "last"},
   test : {"none", "fixed", "sequential"}, minSamples : Nat \ {0},
   success : Int, rate : Nat \X (Nat \ {0}), zSquared : Nat]

ASSUME EvaluatorAssumption ==
  /\ Configs \subseteq Seq(Stages)
  /\ Scores \subseteq Int /\ Penalty \in Int
  /\ Unlimited \notin Nat
  /\ MaxFaults \in Nat

VARIABLES
  config,     \* the stages
  pc,         \* where evaluate is
  remaining,  \* of the deadline of the stage
  phase,      \* sample -> where it is
  budget,     \* sample -> what remains of its deadline
  left,       \* sample -> what its process may still take
  limitedBy,  \* sample -> budget_limited_by
  attempts,   \* sample -> the errors of its attempts
  outcome,    \* sample -> the result of its last attempt, or of the sample
  records,    \* configured_stage_results
  result,     \* what evaluate returns
  faults,
  spent       \* history: processes launched, attempts that launched none,
              \* processes that ran out of time, refusals that are counted

sampleVars == <<phase, budget, left, limitedBy, attempts, outcome>>
vars == <<config, pc, remaining, sampleVars, records, result, faults, spent>>

Plain == config = << >>
PlainStage ==
  [samples |-> 1, workers |-> 1, retries |-> 0, timeout |-> 2,
   seconds |-> Unlimited, sampleSeconds |-> Unlimited, embedded |-> FALSE,
   minScore |-> Penalty, aggregation |-> "mean", test |-> "none",
   minSamples |-> 1, success |-> 0, rate |-> <<1, 1>>, zSquared |-> 1]

stage == IF Plain THEN PlainStage ELSE config[Len(records) + 1]
Samples == DOMAIN phase
Workers == Min({stage.workers, stage.samples})

(* A result; tracked: its metadata lists the attempts.  *)
Result(valid, fitness, error, tracked) ==
  [valid |-> valid, fitness |-> fitness, error |-> error, tracked |-> tracked]
Failed(error) == Result(FALSE, Penalty, error, FALSE)
Raised == Failed("raised")

Exhausted(time) == time = 0

Spend(what) == spent' = [k \in DOMAIN spent |->
                           spent[k] + IF k \in what THEN 1 ELSE 0]

(***************************************************************************)
(* Before the stages.                                                      *)
(***************************************************************************)
Begin(st) ==
  /\ remaining' = st.seconds
  /\ phase' = [s \in 1 .. st.samples |-> "queued"]
  /\ budget' = [s \in 1 .. st.samples |-> st.sampleSeconds]
  /\ left' = [s \in 1 .. st.samples |-> 0]
  /\ limitedBy' = [s \in 1 .. st.samples |-> "none"]
  /\ attempts' = [s \in 1 .. st.samples |-> << >>]
  /\ outcome' = [s \in 1 .. st.samples |-> NoResult]

Init ==
  /\ config \in Configs
  /\ pc = "begin"
  /\ remaining = Unlimited
  /\ phase = << >>
  /\ budget = << >>
  /\ left = << >>
  /\ limitedBy = << >>
  /\ attempts = << >>
  /\ outcome = << >>
  /\ records = << >>
  /\ result = NoResult
  /\ faults = 0
  /\ spent = [k \in {"launched", "unlaunched", "expired", "refused"} |-> 0]

(* A mutation that failed, or a syntax error: no stage runs. *)
Reject ==
  /\ pc = "begin"
  /\ \E error \in {"diff", "syntax_error"} : result' = Failed(error)
  /\ pc' = "done"
  /\ UNCHANGED <<config, remaining, sampleVars, records, faults, spent>>

(* The contracts of the validators are checked before the first process. *)
PreflightFails ==
  /\ pc = "begin"
  /\ result' = Raised
  /\ pc' = "raised"
  /\ UNCHANGED <<config, remaining, sampleVars, records, faults, spent>>

BeginStages ==
  /\ pc = "begin"
  /\ pc' = "sampling"
  /\ Begin(stage)
  /\ UNCHANGED <<config, records, result, faults, spent>>

(***************************************************************************)
(* What is made of the results of the samples of a stage.                  *)
(***************************************************************************)
Fitnesses(results) == {r.fitness : r \in Range(results)}
Mean(results) ==
  SumFunction([i \in DOMAIN results |-> results[i].fitness]) \div Len(results)

AggregateIfAnyValid(results) ==
  IF \E r \in Range(results) : r.valid
  THEN Result(TRUE, Max(Fitnesses(results)), "none", FALSE)
  ELSE Result(FALSE, Min(Fitnesses(results)), results[1].error, FALSE)

(* _aggregate_sample_results: valid if all are, or else as good as the     *)
(* worst, with the first error.  One result alone is not aggregated.       *)
Aggregate(results) ==
  LET failures == {i \in DOMAIN results : results[i].error # "none"}
  IN  CASE Len(results) = 1 -> results[1]
        [] Len(results) # 1 /\ failures # {} ->
             Result(FALSE, Min(Fitnesses(results)),
                    results[Min(failures)].error, FALSE)
        [] OTHER ->
             Result(TRUE,
                    CASE stage.aggregation = "mean" -> Mean(results)
                      [] stage.aggregation = "min" -> Min(Fitnesses(results))
                      [] stage.aggregation = "max" -> Max(Fitnesses(results))
                      [] stage.aggregation = "last" -> Last(results).fitness,
                    "none", FALSE)

(* The lower end of Wilson's interval reaches the rate, in whole numbers.  *)
WilsonLowerBoundReaches(successes, trials, rate, z2) ==
  LET slack == rate[2] * (2 * successes + z2) - 2 * rate[1] * (trials + z2)
  IN  /\ slack >= 0
      /\ slack * slack * trials
           >= rate[2] * rate[2] * z2
                * (4 * successes * (trials - successes) + z2 * trials)

HypothesisTestPasses(results) ==
  LET successes == {i \in DOMAIN results : results[i].fitness >= stage.success}
  IN  \/ stage.test = "none"
      \/ /\ Len(results) >= stage.minSamples
         /\ WilsonLowerBoundReaches(Cardinality(successes), Len(results),
                                    stage.rate, stage.zSquared)

StopsSequentially(results) ==
  /\ stage.test = "sequential"
  /\ Len(results) \in stage.minSamples .. stage.samples - 1
  /\ Aggregate(results).valid
  /\ HypothesisTestPasses(results)

ThresholdPasses(r) == r.fitness >= stage.minScore

(***************************************************************************)
(* The samples of a stage.                                                 *)
(***************************************************************************)
Active == {s \in Samples : phase[s] \notin {"queued", "done"}}
Done == {s \in Samples : phase[s] = "done"}

(* A pool runs every sample; a serial stage may break off. *)
BreaksOff ==
  /\ Workers = 1
  /\ Active = {} /\ Done # {}
  /\ LET results == [s \in Done |-> outcome[s]]
     IN  \/ Last(results).error \in {"stage_budget_exhausted", "raised"}
         \/ StopsSequentially(results)

Conclude(s, r) ==
  /\ phase' = [phase EXCEPT ![s] = "done"]
  /\ outcome' = [outcome EXCEPT ![s] = r]

StartSample(s) ==
  /\ pc = "sampling" /\ s \in Samples
  /\ phase[s] = "queued"
  /\ \A t \in 1 .. s - 1 : phase[t] # "queued"
  /\ Cardinality(Active) < Workers
  /\ ~BreaksOff
  /\ IF Exhausted(remaining)
     THEN /\ Conclude(s, Failed("stage_budget_exhausted"))
          /\ Spend(IF stage.embedded THEN {"refused"}
                   ELSE {"refused", "unlaunched"})
     ELSE /\ phase' = [phase EXCEPT ![s] = "ready"]
          /\ UNCHANGED <<outcome, spent>>
  /\ UNCHANGED <<config, pc, remaining, budget, left, limitedBy, attempts,
                 records, result, faults>>

(* A deadline is over before the next attempt of the sample: the result     *)
(* lists the attempts made.                                                *)
RefuseListing(s, made) ==
  /\ pc = "sampling" /\ s \in Samples
  /\ phase[s] = "ready"
  /\ \/ Exhausted(remaining)
     \/ Exhausted(budget[s])
  /\ LET error == IF Exhausted(remaining) THEN "stage_budget_exhausted"
                  ELSE "sample_budget_exhausted"
     IN  Conclude(s, Result(FALSE, Penalty, error, TRUE))
  /\ attempts' = [attempts EXCEPT ![s] = made]
  /\ Spend(IF attempts[s] = << >> THEN {"refused"} ELSE {})
  /\ UNCHANGED <<config, pc, remaining, budget, left, limitedBy, records,
                 result, faults>>

RefuseForgettingAttempts(s) == RefuseListing(s, << >>)
Refuse(s) == RefuseListing(s, attempts[s])

Clips(deadline, timeout) == deadline # Unlimited /\ deadline < timeout

(* The timeout of an attempt is clipped to both deadlines; the sample's is *)
(* blamed if it clips what the stage's left.                               *)
ClippedToStage ==
  IF Clips(remaining, stage.timeout) THEN remaining ELSE stage.timeout
ClippedToBoth(s) ==
  IF Clips(budget[s], ClippedToStage) THEN budget[s] ELSE ClippedToStage

LimitOfEither(s) ==
  CASE Clips(budget[s], stage.timeout) -> "sample"
    [] Clips(remaining, stage.timeout) -> "stage"
    [] OTHER -> "none"
Limit(s) ==
  CASE Clips(budget[s], ClippedToStage) -> "sample"
    [] Clips(remaining, stage.timeout)
         /\ ~Clips(budget[s], ClippedToStage) -> "stage"
    [] OTHER -> "none"

Prepare(s) ==
  /\ pc = "sampling" /\ s \in Samples
  /\ phase[s] = "ready"
  /\ ~Exhausted(remaining) /\ ~Exhausted(budget[s])
  /\ left' = [left EXCEPT ![s] = ClippedToBoth(s)]
  /\ limitedBy' = [limitedBy EXCEPT ![s] = Limit(s)]
  /\ phase' = [phase EXCEPT ![s] = "preparing"]
  /\ UNCHANGED <<config, pc, remaining, budget, attempts, outcome, records,
                 result, faults, spent>>

(* An attempt ends with r: the sample ends if r will do or was the last.   *)
NoMoreRetriesButOne(tried) == Len(tried) > stage.retries + 1
NoMoreRetries(tried) == Len(tried) > stage.retries

Attempted(s, r) ==
  LET tried == Append(attempts[s], r.error)
      over == \/ r.valid /\ ThresholdPasses(r)
              \/ NoMoreRetries(tried)
  IN  /\ attempts' = [attempts EXCEPT ![s] = tried]
      /\ outcome' = [outcome EXCEPT ![s] = [r EXCEPT !.tracked = ~Plain]]
      /\ phase' = [phase EXCEPT ![s] = IF over THEN "done" ELSE "ready"]

MaterializationFails(s) ==
  /\ pc = "sampling" /\ s \in Samples
  /\ phase[s] = "preparing"
  /\ Attempted(s, Failed("materialization_error"))
  /\ Spend(IF Plain THEN {} ELSE {"unlaunched"})
  /\ UNCHANGED <<config, pc, remaining, budget, left, limitedBy, records,
                 result, faults>>

Launch(s) ==
  /\ pc = "sampling" /\ s \in Samples
  /\ phase[s] = "preparing"
  /\ phase' = [phase EXCEPT ![s] = "running"]
  /\ Spend({"launched"})
  /\ UNCHANGED <<config, pc, remaining, budget, left, limitedBy, attempts,
                 outcome, records, result, faults>>

(* The process ends in time: with a score, or with an error, which stands  *)
(* for a malformed result and for an invalid one too.                      *)
Exits(s) ==
  /\ pc = "sampling" /\ s \in Samples
  /\ phase[s] = "running"
  /\ \/ \E error \in {"subprocess_error"} :
          Attempted(s, Failed(error))
     \/ \E score \in Scores : Attempted(s, Result(TRUE, score, "none", FALSE))
  /\ UNCHANGED <<config, pc, remaining, budget, left, limitedBy, records,
                 result, faults, spent>>

(* The tree of the process is killed; a timeout that a deadline clipped is *)
(* an exhausted budget.                                                    *)
Blame(s) ==
  CASE limitedBy[s] = "none" -> "timeout"
    [] limitedBy[s] = "stage" -> "stage_budget_exhausted"
    [] limitedBy[s] = "sample" -> "sample_budget_exhausted"

TimeIsUpUnlessClipped(s) == left[s] = 0 /\ limitedBy[s] = "none"
TimeIsUp(s) == left[s] = 0

TimesOut(s) ==
  /\ pc = "sampling" /\ s \in Samples
  /\ phase[s] = "running"
  /\ TimeIsUp(s)
  /\ Attempted(s, Failed(Blame(s)))
  /\ Spend({"expired"})
  /\ UNCHANGED <<config, pc, remaining, budget, left, limitedBy, records,
                 result, faults>>

(* A descendant that left the session keeps the pipe open: the second wait *)
(* for the killed process expires too, and its exception ends the sample.  *)
CleanupRaises(s) ==
  /\ pc = "sampling" /\ s \in Samples
  /\ phase[s] = "running"
  /\ TimeIsUp(s)
  /\ faults < MaxFaults
  /\ faults' = faults + 1
  /\ Conclude(s, Raised)
  /\ Spend({"expired"})
  /\ UNCHANGED <<config, pc, remaining, budget, left, limitedBy, attempts,
                 records, result>>

(***************************************************************************)
(* The end of a stage.                                                     *)
(***************************************************************************)
StageOverAtFirstError ==
  /\ pc = "sampling"
  /\ \/ Done = Samples \/ BreaksOff
     \/ \E s \in Done : outcome[s] = Raised
StageOver == pc = "sampling" /\ (Done = Samples \/ BreaksOff)

StopReason(judged, results) ==
  CASE judged.error # "none" -> judged.error
    [] ~HypothesisTestPasses(results) -> "hypothesis_test_not_met"
    [] OTHER -> "stage_threshold_not_met"

CloseStage ==
  /\ StageOver
  /\ LET results == [s \in Done |-> outcome[s]]
         judged == Aggregate(results)
         passed == \/ Plain
                   \/ /\ judged.valid
                      /\ ThresholdPasses(judged)
                      /\ HypothesisTestPasses(results)
         record == [results |-> results,
                    attempts |-> [s \in Done |-> attempts[s]],
                    passed |-> passed]
         goesOn == passed /\ Len(records) + 1 < Len(config)
     IN  IF \E r \in Range(results) : r = Raised
         THEN /\ result' = Raised
              /\ pc' = "raised"
              /\ UNCHANGED <<remaining, sampleVars, records>>
         ELSE /\ records' = Append(records, record)
              /\ IF goesOn
                 THEN /\ Begin(config[Len(records) + 2])
                      /\ UNCHANGED <<pc, result>>
                 ELSE /\ result' =
                           IF passed THEN judged
                           ELSE Result(FALSE, judged.fitness,
                                       StopReason(judged, results), FALSE)
                      /\ pc' = "done"
                      /\ UNCHANGED <<remaining, sampleVars>>
  /\ UNCHANGED <<config, faults, spent>>

(***************************************************************************)
(* Time, and the next state.                                               *)
(***************************************************************************)
Elapse(time) == IF time \in {0, Unlimited} THEN time ELSE time - 1

Tick ==
  /\ pc = "sampling" /\ Active # {}
  /\ \A s \in Active : phase[s] = "running" => left[s] > 0
  /\ remaining' = Elapse(remaining)
  /\ budget' = [s \in Samples |->
                  IF s \in Active THEN Elapse(budget[s]) ELSE budget[s]]
  /\ left' = [s \in Samples |->
                IF phase[s] = "running" THEN left[s] - 1 ELSE left[s]]
  /\ UNCHANGED <<config, pc, phase, limitedBy, attempts, outcome, records,
                 result, faults, spent>>

Finished == pc \in {"done", "raised"} /\ UNCHANGED vars

SampleIds ==
  1 .. Max({1} \cup UNION {{c[i].samples : i \in DOMAIN c} : c \in Configs})

Works(s) ==
  \/ StartSample(s) \/ Refuse(s) \/ Prepare(s)
  \/ MaterializationFails(s) \/ Launch(s)
  \/ TimesOut(s) \/ CleanupRaises(s)

Next ==
  \/ Reject \/ PreflightFails \/ BeginStages
  \/ \E s \in SampleIds : Works(s) \/ Exits(s)
  \/ CloseStage \/ Tick \/ Finished

(* A validator may run for ever; evaluate goes on, and time passes.  *)
Spec == Init /\ [][Next]_vars
FairSpec ==
  /\ Spec
  /\ WF_vars(Reject \/ PreflightFails \/ BeginStages)
  /\ WF_vars(CloseStage) /\ WF_vars(Tick)
  /\ \A s \in SampleIds : WF_vars(Works(s))

(***************************************************************************)
(* evaluation_accounting: what the result says was spent.                  *)
(***************************************************************************)
SubprocessAttempts(r, tries) ==
  CASE r.tracked -> Len(tries)
    [] ~r.tracked /\ r.error = "materialization_error" -> 0
    [] OTHER -> 1

Errors(r, tries) ==
  IF r.tracked /\ tries # << >> THEN tries ELSE <<r.error>>

LimitErrors == {"timeout", "sample_budget_exhausted", "stage_budget_exhausted"}
CountOfLimits(errors) ==
  Cardinality({i \in DOMAIN errors : errors[i] \in LimitErrors})

Spendings(st, record, Count(_, _, _)) ==
  SumFunction([s \in DOMAIN record.results |->
                 Count(st, record.results[s], record.attempts[s])])
Total(Count(_, _, _)) ==
  SumFunction([i \in DOMAIN records |->
                 Spendings(IF Plain THEN PlainStage ELSE config[i],
                           records[i], Count)])

(* A stage that evaluates the candidate's own function names no validator. *)
Launches(st, r, tries) ==
  IF st.embedded /\ ~r.tracked THEN 0 ELSE SubprocessAttempts(r, tries)
Limits(st, r, tries) == CountOfLimits(Errors(r, tries))

(***************************************************************************)
(* Properties.                                                             *)
(***************************************************************************)
(* Every variable keeps its type; a sample is not tried more often than    *)
(* its retries allow.                                                      *)
ErrorCodes ==
  {"none", "diff", "syntax_error", "raised", "materialization_error",
   "subprocess_error", "timeout", "sample_budget_exhausted",
   "stage_budget_exhausted", "stage_threshold_not_met",
   "hypothesis_test_not_met"}
Results ==
  [valid : BOOLEAN, fitness : Int, error : ErrorCodes, tracked : BOOLEAN]
TypeOK ==
  /\ config \in Configs
  /\ pc \in {"begin", "sampling", "done", "raised"}
  /\ remaining = Unlimited \/ remaining \in Nat
  /\ \A s \in Samples :
       /\ phase[s] \in {"queued", "ready", "preparing", "running", "done"}
       /\ budget[s] = Unlimited \/ budget[s] \in Nat
       /\ left[s] \in Nat
       /\ limitedBy[s] \in {"none", "stage", "sample"}
       /\ pc = "sampling" => Len(attempts[s]) =< stage.retries + 1
       /\ outcome[s] = NoResult \/ outcome[s] \in Results
  /\ result = NoResult \/ result \in Results
  /\ faults \in 0 .. MaxFaults

(* The counters that evaluation_accounting finds in a result, through      *)
(* stages, samples and attempts, are what was spent: every process, every  *)
(* timeout and every refusal that is counted, once; and evaluate does not  *)
(* return, nor raise, while one of its processes runs.                     *)
WorkIsCounted ==
  /\ TypeOK
  /\ pc = "done" => /\ Total(Launches) = spent["launched"] + spent["unlaunched"]
                    /\ Total(Limits) = spent["expired"] + spent["refused"]
  /\ pc \in {"done", "raised"} => Active = {}

(* A candidate is valid only if every stage of the cascade ran every one   *)
(* of its samples, or enough for the test that ends it early, and every    *)
(* sample ended with an attempt that ran and was valid.                    *)
EveryStageEarned ==
  (pc = "done" /\ result.valid /\ ~Plain) =>
    /\ Len(records) = Len(config)
    /\ \A i \in DOMAIN records :
         LET results == records[i].results
         IN  /\ \A s \in DOMAIN results :
                  results[s].valid /\ Last(records[i].attempts[s]) = "none"
             /\ \/ Len(results) = config[i].samples
                \/ /\ config[i].test = "sequential"
                   /\ Len(results) >= config[i].minSamples

(* A budget is reported exhausted only when it is: a deadline is not       *)
(* blamed for a timeout that another one, or none, had set.                *)
BlameIsTrue ==
  pc = "sampling" =>
    \A s \in Samples :
      LET told == Range(attempts[s])
                    \cup (IF outcome[s] = NoResult THEN {}
                          ELSE {outcome[s].error})
      IN  /\ "sample_budget_exhausted" \in told => Exhausted(budget[s])
          /\ "stage_budget_exhausted" \in told => Exhausted(remaining)

(* However long validators run, evaluate comes to an end. *)
EvaluationEnds == <>(pc \in {"done", "raised"})
=============================================================================
