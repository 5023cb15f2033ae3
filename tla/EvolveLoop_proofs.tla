-------------------------- MODULE EvolveLoop_proofs -------------------------
(***************************************************************************)
(* What EvolveLoop does for every number of seeds, generations, proposals, *)
(* faults and interrupts, and for every set of limits and evaluator.       *)
(*                                                                         *)
(* First: its variables keep their types, max_llm_calls and                *)
(* max_evaluations are never overrun, and nothing is spent once there is a *)
(* stop reason.  None of these is inductive by itself.  Control says where *)
(* the controller can be in which state, Affordable that it stands before  *)
(* an expense only with a budget that allows it; together with TypeOK they *)
(* are.                                                                    *)
(*                                                                         *)
(* Then what evolve() says of its candidates and of its own end: the       *)
(* evaluation cache never holds a verdict that was not made, every         *)
(* proposal is told exactly once and in the right log, the stop reason of  *)
(* a run that ended is true, and so are the events, the stops and the      *)
(* manifest it leaves on disk.  Two invariants, each over the first one.   *)
(* RInv is about the candidates and the stop reason; each of its parts     *)
(* says what holds at every place of the controller, so that the step      *)
(* proofs need only know, of every action, from where to where it goes     *)
(* (Flow) and whether it leaves the candidates alone (tellVars).           *)
(* Ledger /\ ExcTrue /\ Ends is about the records: Ledger says through     *)
(* which budgets the pending events lead from the stream to the budget in  *)
(* memory.                                                                 *)
(***************************************************************************)
EXTENDS EvolveLoop, FiniteSetTheorems, WellFoundedInduction, TLAPS

(***************************************************************************)
(* The operators of RunBudget: what each returns, what it leaves alone,    *)
(* and what a check that finds nothing says of the limits.                 *)
(***************************************************************************)
LEMMA FreshBudgetType == FreshBudget \in Budget
  BY DEF FreshBudget, Budget

LEMMA RecordEvaluationType ==
  ASSUME NEW b \in Budget, NEW seed \in BOOLEAN,
         NEW acc \in [EvaluatorMeters -> Nat]
  PROVE  /\ RecordEvaluation(b, seed, acc) \in Budget
         /\ RecordEvaluation(b, seed, acc).stop_reason = b.stop_reason
         /\ RecordEvaluation(b, seed, acc).consumed["max_evaluations"]
              = b.consumed["max_evaluations"] + 1
         /\ RecordEvaluation(b, seed, acc).consumed["max_llm_calls"]
              = b.consumed["max_llm_calls"]
         /\ RecordEvaluation(b, seed, acc).generations_started
              = b.generations_started
<1> DEFINE c == [m \in Meters |->
                   CASE m = "max_evaluations" -> b.consumed[m] + 1
                     [] m \in EvaluatorMeters \ {"max_evaluations"}
                          -> b.consumed[m] + acc[m]
                     [] OTHER -> b.consumed[m]]
<1>1. b.consumed \in [Meters -> Nat]
  BY DEF Budget
<1>2. ASSUME NEW m \in Meters PROVE c[m] \in Nat
  <2>1. CASE m = "max_evaluations"
    BY <1>1, <2>1
  <2>2. CASE m \in EvaluatorMeters \ {"max_evaluations"}
    BY <1>1, <2>2
  <2>3. CASE m \notin EvaluatorMeters
    BY <1>1, <2>3 DEF EvaluatorMeters
  <2> QED BY <2>1, <2>2, <2>3
<1>3. c \in [Meters -> Nat]
  BY <1>2
<1>4. /\ c["max_evaluations"] = b.consumed["max_evaluations"] + 1
      /\ c["max_llm_calls"] = b.consumed["max_llm_calls"]
  BY DEF Meters, EvaluatorMeters, LLMMeters
<1> DEFINE s == IF seed THEN b.seed_evaluations + 1 ELSE b.seed_evaluations
<1> DEFINE d == IF seed THEN b.candidate_evaluations
                ELSE b.candidate_evaluations + 1
<1>5. RecordEvaluation(b, seed, acc) =
        [b EXCEPT !.consumed = c, !.seed_evaluations = s,
                  !.candidate_evaluations = d]
  BY DEF RecordEvaluation
<1>6. s \in Nat /\ d \in Nat
  BY DEF Budget
<1> HIDE DEF c, s, d
<1> QED BY <1>3, <1>4, <1>5, <1>6 DEF Budget

LEMMA RecordLLMCallsType ==
  ASSUME NEW b \in Budget, NEW role \in Roles, NEW calls \in Nat,
         NEW records \in Nat, NEW usage \in [LLMMeters -> Nat]
  PROVE  /\ RecordLLMCalls(b, role, calls, records, usage) \in Budget
         /\ RecordLLMCalls(b, role, calls, records, usage).stop_reason
              = b.stop_reason
         /\ RecordLLMCalls(b, role, calls, records, usage)
              .consumed["max_llm_calls"]
              = b.consumed["max_llm_calls"] + calls
         /\ RecordLLMCalls(b, role, calls, records, usage)
              .consumed["max_evaluations"]
              = b.consumed["max_evaluations"]
         /\ RecordLLMCalls(b, role, calls, records, usage)
              .generations_started = b.generations_started
<1> DEFINE c == [m \in Meters |->
                   CASE m = "max_llm_calls" -> b.consumed[m] + calls
                     [] m \in LLMMeters \ {"max_llm_calls"}
                          -> b.consumed[m] + records * usage[m]
                     [] OTHER -> b.consumed[m]]
<1> DEFINE d == [m \in RoleMeters |->
                   [r \in Roles |->
                      IF r = role
                      THEN b.byRole[m][r] + records * usage[RunMeter[m]]
                      ELSE b.byRole[m][r]]]
<1>1. /\ b.consumed \in [Meters -> Nat]
      /\ b.byRole \in [RoleMeters -> [Roles -> Nat]]
  BY DEF Budget
<1>2. ASSUME NEW m \in LLMMeters PROVE records * usage[m] \in Nat
  <2>1. usage[m] \in Nat
    OBVIOUS
  <2> QED BY <2>1
<1>3. ASSUME NEW m \in Meters PROVE c[m] \in Nat
  <2>1. CASE m = "max_llm_calls"
    BY <1>1, <2>1
  <2>2. CASE m \in LLMMeters \ {"max_llm_calls"}
    <3>1. c[m] = b.consumed[m] + records * usage[m]
      BY <2>2
    <3> QED BY <1>1, <1>2, <2>2, <3>1
  <2>3. CASE m \notin LLMMeters
    BY <1>1, <2>3 DEF LLMMeters
  <2> QED BY <2>1, <2>2, <2>3
<1>4. c \in [Meters -> Nat]
  BY <1>3
<1>5. ASSUME NEW m \in RoleMeters PROVE RunMeter[m] \in LLMMeters
  BY DEF RunMeter, RoleMeters, LLMMeters
<1>6. ASSUME NEW m \in RoleMeters, NEW r \in Roles PROVE d[m][r] \in Nat
  <2>1. records * usage[RunMeter[m]] \in Nat
    BY <1>2, <1>5
  <2>2. b.byRole[m][r] \in Nat
    BY <1>1
  <2> QED BY <2>1, <2>2
<1>7. d \in [RoleMeters -> [Roles -> Nat]]
  BY <1>6
<1>8. /\ c["max_evaluations"] = b.consumed["max_evaluations"]
      /\ c["max_llm_calls"] = b.consumed["max_llm_calls"] + calls
  BY DEF Meters, EvaluatorMeters, LLMMeters
<1>9. RecordLLMCalls(b, role, calls, records, usage) =
        [b EXCEPT !.consumed = c, !.byRole = d]
  BY DEF RecordLLMCalls
<1> HIDE DEF c, d
<1> QED BY <1>4, <1>7, <1>8, <1>9 DEF Budget

LEMMA RecordGenerationType ==
  ASSUME NEW b \in Budget
  PROVE  /\ RecordGenerationStart(b) \in Budget
         /\ RecordGenerationStart(b).stop_reason = b.stop_reason
         /\ RecordGenerationStart(b).consumed = b.consumed
         /\ RecordGenerationComplete(b) \in Budget
         /\ RecordGenerationComplete(b).stop_reason = b.stop_reason
         /\ RecordGenerationComplete(b).consumed = b.consumed
         /\ RecordGenerationComplete(b).generations_started
              = b.generations_started
  BY DEF Budget, RecordGenerationStart, RecordGenerationComplete

(* The first exhausted limit is an exhausted one, and None means that none *)
(* is: the CHOOSE of FirstExhausted always has a candidate.                *)
LEMMA FirstExhaustedIsExhausted ==
  ASSUME NEW b \in Budget, NEW includeLLM \in BOOLEAN, NEW role,
         NEW late \in BOOLEAN
  PROVE  LET first == FirstExhausted(b, includeLLM, role, late) IN
         \/ /\ first = None
            /\ \A m \in LimitNames :
                 ~Exhausted(b, m, includeLLM, role, late)
         \/ /\ first \in LimitNames
            /\ first # None
            /\ Exhausted(b, first, includeLLM, role, late)
<1> DEFINE hits == {i \in DOMAIN LimitOrder :
                      Exhausted(b, LimitOrder[i], includeLLM, role, late)}
<1> DEFINE least == CHOOSE i \in hits : \A j \in hits : i <= j
<1> DEFINE first == FirstExhausted(b, includeLLM, role, late)
<1>1. CASE hits = {}
  <2>1. first = None
    BY <1>1 DEF FirstExhausted
  <2>2. \A m \in LimitNames : ~Exhausted(b, m, includeLLM, role, late)
    BY <1>1 DEF LimitNames
  <2> QED BY <2>1, <2>2
<1>2. CASE hits # {}
  <2>1. hits \subseteq Nat
    BY DEF LimitOrder
  <2>2. \E i \in hits : \A j \in hits : i <= j
    <3>1. IsWellFoundedOn(OpToRel(<, Nat), Nat)
      BY NatLessThanWellFounded
    <3>2. PICK i \in hits : \A j \in hits : ~(<<j, i>> \in OpToRel(<, Nat))
      BY <1>2, <2>1, <3>1, WFMin
    <3>3. \A j \in hits : ~(j < i)
      BY <2>1, <3>2 DEF OpToRel
    <3> QED BY <2>1, <3>3
  <2>3. least \in hits
    BY <2>2
  <2>4. first = LimitOrder[least]
    BY <1>2 DEF FirstExhausted
  <2>5. first \in LimitNames
    BY <2>3, <2>4 DEF LimitNames
  <2>6. first # None
    BY <2>5, NoneAssumption DEF STOP_REASONS
  <2> QED BY <2>3, <2>4, <2>5, <2>6
<1> QED BY <1>1, <1>2

LEMMA CheckLimitsType ==
  ASSUME NEW b \in Budget, NEW includeLLM \in BOOLEAN, NEW role,
         NEW late \in BOOLEAN
  PROVE  LET c == CheckLimits(b, includeLLM, role, late) IN
         /\ c \in Budget
         /\ c.consumed = b.consumed
         /\ c.generations_started = b.generations_started
         /\ b.stop_reason # None => c = b
         /\ c.stop_reason = None =>
              \A m \in LimitNames :
                ~Exhausted(b, m, includeLLM, role, late)
<1> DEFINE first == FirstExhausted(b, includeLLM, role, late)
<1>1. CASE b.stop_reason # None
  BY <1>1 DEF CheckLimits
<1>2. CASE b.stop_reason = None
  <2>1. first \in STOP_REASONS \cup {None}
    BY FirstExhaustedIsExhausted DEF STOP_REASONS
  <2>2. CheckLimits(b, includeLLM, role, late)
          = [b EXCEPT !.stop_reason = first]
    BY <1>2 DEF CheckLimits
  <2>3. first = None =>
          \A m \in LimitNames : ~Exhausted(b, m, includeLLM, role, late)
    BY FirstExhaustedIsExhausted
  <2> HIDE DEF first
  <2> QED BY <1>2, <2>1, <2>2, <2>3 DEF Budget
<1> QED BY <1>1, <1>2

LEMMA FinishType ==
  ASSUME NEW b \in Budget, NEW bestFound \in BOOLEAN,
         NEW late \in BOOLEAN
  PROVE  LET f == Finish(b, bestFound, late) IN
         /\ f \in Budget
         /\ f.stop_reason \in STOP_REASONS
         /\ f.consumed = b.consumed
         /\ f.generations_started = b.generations_started
         /\ b.stop_reason # None => f = b
<1> DEFINE c == CheckLimits(b, TRUE, None, late)
<1> DEFINE reason == IF ~bestFound THEN "no_valid_programs"
                     ELSE IF c.generations_completed >= MaxGenerations
                          THEN "max_generations"
                          ELSE "completed"
<1>1. /\ c \in Budget
      /\ c.consumed = b.consumed
      /\ c.generations_started = b.generations_started
      /\ b.stop_reason # None => c = b
  BY CheckLimitsType
<1>2. reason \in STOP_REASONS
  BY DEF STOP_REASONS
<1>3. Finish(b, bestFound, late) =
        IF c.stop_reason # None THEN c ELSE [c EXCEPT !.stop_reason = reason]
  BY DEF Finish
<1> HIDE DEF c, reason
<1> QED BY <1>1, <1>2, <1>3 DEF Budget

(***************************************************************************)
(* Where the controller can be, and what it can afford there.              *)
(***************************************************************************)
(* Where the controller is, or will be once its events are appended. *)
Where == IF pc \in {"emit", "llm_emit", "abort_emit"} THEN after ELSE pc

SeedWork ==
  {"seed_evaluate", "seed_admit", "seed_archive_event", "seed_reject",
   "seed_log"}
ProposalWork ==
  {"generate", "deadline", "call", "llm_failure", "apply", "evaluate",
   "admit", "archive_event", "reject", "reward", "log", "prompt_result",
   "migrate", "generation_complete"}
CandidateWork ==
  {"seed_admit", "seed_archive_event", "seed_reject", "seed_log", "evaluate",
   "admit", "archive_event", "reject", "reward", "log"}
BeforeExpense ==
  {"seed_evaluate", "generate", "deadline", "call", "apply", "evaluate"}

Control ==
  /\ pc = "emit" =>
       after \in {"seed_admit", "generate", "admit", "proposal", "manifest"}
  /\ pc = "llm_emit" => after \in {"apply", "llm_failure", "finish", "abort"}
  /\ pc = "abort_emit" => after = "abort_manifest"
  /\ Where \in SeedWork => nextSeed <= NumSeeds
  /\ Where \in ProposalWork \/ pc = "llm_emit" => proposal < MaxProposals
  /\ Where \in CandidateWork => cur \in Candidate
  /\ Where = "manifest" => budget.stop_reason # None
  /\ Where \in AbortPCs => exc # None

CanEvaluate(b) ==
  "max_evaluations" \in DOMAIN Limits
    => b.consumed["max_evaluations"] < Limits["max_evaluations"]
CanCall(b) ==
  "max_llm_calls" \in DOMAIN Limits
    => b.consumed["max_llm_calls"] < Limits["max_llm_calls"]

Affordable ==
  /\ LLMCallsWithinLimit
  /\ EvaluationsWithinLimit
  /\ Where \in BeforeExpense =>
       budget.stop_reason = None /\ CanEvaluate(budget)
  /\ pc \in {"deadline", "call"} => CanCall(budget)

IInv == TypeOK /\ Control /\ Affordable

(***************************************************************************)
(* Types.                                                                  *)
(***************************************************************************)
LEMMA Numbers ==
  /\ MaxProposals \in Nat
  /\ \A n \in 1 .. (NumSeeds + 1) : n <= NumSeeds => n \in ProgramIds
  /\ \A n \in 0 .. MaxProposals :
       n < MaxProposals => /\ NumSeeds + n + 1 \in ProgramIds
                           /\ n + 1 \in 0 .. MaxProposals
<1>1. MaxProposals \in Nat
  BY LoopAssumption, MaxGenerationsAssumption DEF MaxProposals
<1> QED BY <1>1, LoopAssumption DEF ProgramIds

LEMMA EventType ==
  /\ \A seed \in BOOLEAN, acc \in Accounting :
       EvaluationEvent(seed, acc) \in Event
  /\ CacheHitEvent \in Event
  /\ \A role \in Roles, n \in 0 .. 1, usage \in Usage :
       LLMCallEvent(role, n, usage) \in Event
  /\ GenerationStartedEvent \in Event
  /\ GenerationCompletedEvent \in Event
  /\ \A reason \in STOP_REASONS : StopEvent(reason) \in Event
  BY DEF EvaluationEvent, CacheHitEvent, LLMCallEvent, GenerationStartedEvent,
         GenerationCompletedEvent, StopEvent, Event

(* Whatever an event says, replaying it on a budget gives a budget. *)
LEMMA ReplayType ==
  ASSUME NEW b \in Budget, NEW e \in Event
  PROVE  ApplyControllerBudgetEvent(b, e) \in Budget
<1>1. CASE e \in [kind : {"seed_evaluation", "candidate_evaluation"},
                 accounting : Accounting]
  <2>1. e.accounting \in [EvaluatorMeters -> Nat]
    BY <1>1 DEF Accounting
  <2>2. /\ RecordEvaluation(b, TRUE, e.accounting) \in Budget
        /\ RecordEvaluation(b, FALSE, e.accounting) \in Budget
    BY <2>1, RecordEvaluationType
  <2> QED BY <1>1, <2>2 DEF ApplyControllerBudgetEvent
<1>2. CASE e \in [kind : {"candidate_evaluation_cache_hit",
                         "generation_started", "generation_completed"}]
  <2>1. /\ RecordGenerationStart(b) \in Budget
        /\ RecordGenerationComplete(b) \in Budget
    BY RecordGenerationType
  <2> QED BY <1>2, <2>1 DEF ApplyControllerBudgetEvent
<1>3. CASE e \in [kind : {"llm_call"}, role : Roles, records : 0 .. 1,
                 usage : Usage]
  <2>1. RecordLLMCalls(b, e.role, 1, e.records, e.usage) \in Budget
    BY <1>3, RecordLLMCallsType DEF Usage
  <2> QED BY <1>3, <2>1 DEF ApplyControllerBudgetEvent
<1>4. CASE e \in [kind : {"stop"}, stop_reason : STOP_REASONS]
  <2>1. [b EXCEPT !.stop_reason = e.stop_reason] \in Budget
    BY <1>4 DEF Budget
  <2> QED BY <1>4, <2>1 DEF ApplyControllerBudgetEvent
<1> QED BY <1>1, <1>2, <1>3, <1>4 DEF Event

LEMMA StreamWithType ==
  ASSUME stream \in Stream, sequence \in Nat, NEW e \in Event
  PROVE  StreamWith(e) \in Stream
<1>1. ApplyControllerBudgetEvent(stream.replay, e) \in Budget
  BY ReplayType DEF Stream
<1>2. (stream.ordered /\ sequence = stream.lines) \in BOOLEAN
  OBVIOUS
<1>3. (IF e.kind = "stop" THEN Append(stream.stops, e.stop_reason)
                          ELSE stream.stops) \in Seq(STOP_REASONS)
  <2>1. stream.stops \in Seq(STOP_REASONS)
    BY DEF Stream
  <2>2. e.kind = "stop" => e.stop_reason \in STOP_REASONS
    BY DEF Event
  <2> QED BY <2>1, <2>2
<1>4. stream.lines + 1 \in Nat
  BY DEF Stream
<1> QED BY <1>1, <1>2, <1>3, <1>4 DEF Stream, StreamWith

LEMMA PCNames ==
  /\ \A s \in {"seed_check", "seed_evaluate", "seed_admit",
             "seed_archive_event", "seed_reject", "seed_log", "policy"} :
       s \in PCs
  /\ \A s \in {"proposal", "generate", "deadline", "call", "llm_failure",
             "apply", "evaluate", "admit", "archive_event", "reject",
             "reward", "log", "prompt_result", "migrate",
             "generation_complete"} : s \in PCs
  /\ \A s \in {"finish", "manifest", "emit", "llm_emit", "abort",
             "abort_emit", "abort_manifest", "returned", "raised"} : s \in PCs
  BY DEF PCs, TryPCs, SeedPCs, ProposalPCs, EndPCs, EmitPCs, AbortPCs, Terminal

(* TypeOK by groups of variables, and what leaves a group alone keeps its  *)
(* part of TypeOK.                                                         *)
LedgerOK ==
  /\ budget \in Budget
  /\ stream \in Stream
  /\ sequence \in Nat
  /\ pending \in Seq(Event)
  /\ after \in PCs
EnvOK ==
  /\ clockOut \in BOOLEAN
  /\ faults \in Nat
  /\ interrupted \in BOOLEAN
  /\ exc \in Exceptions \cup {None}
ProgramsOK ==
  /\ cache \in [Workspaces -> CacheEntry \cup {NoEntry}]
  /\ archive \subseteq Candidate
  /\ history \subseteq Candidate
  /\ failures \subseteq ProgramIds
LoopOK ==
  /\ nextSeed \in 1 .. (NumSeeds + 1)
  /\ strictInvalid \in BOOLEAN
  /\ proposal \in 0 .. MaxProposals
  /\ parent \in Candidate \cup {NoCandidate}
  /\ cur \in Candidate \cup {NoCandidate}

LEMMA TypeParts ==
  /\ TypeOK <=> /\ pc \in PCs /\ LedgerOK /\ EnvOK /\ ProgramsOK /\ LoopOK
                /\ manifest \in Manifest
  /\ TypeOK' <=> /\ pc' \in PCs /\ LedgerOK' /\ EnvOK' /\ ProgramsOK'
                 /\ LoopOK' /\ manifest' \in Manifest
  BY DEF TypeOK, LedgerOK, EnvOK, ProgramsOK, LoopOK

LEMMA Frame ==
  /\ LedgerOK /\ UNCHANGED ledgerVars => LedgerOK'
  /\ EnvOK /\ UNCHANGED envVars => EnvOK'
  /\ ProgramsOK /\ UNCHANGED programVars => ProgramsOK'
  /\ LoopOK /\ UNCHANGED loopVars => LoopOK'
  BY DEF ledgerVars, envVars, programVars, loopVars, LedgerOK, EnvOK,
         ProgramsOK, LoopOK

LEMMA DurableType ==
  ASSUME TypeOK, NEW o, NEW next \in PCs, NEW handler \in PCs,
         Durable(o, next, handler)
  PROVE  pc' \in PCs /\ faults' \in Nat /\ exc' \in Exceptions \cup {None}
  BY DEF TypeOK, Durable, Exceptions

LEMMA EmitType ==
  ASSUME TypeOK, NEW here \in PCs, NEW handler \in PCs,
         EmitFrom(here, handler)
  PROVE  TypeOK'
<1>1. PICK o \in WriteOutcomes :
        /\ Durable(o, IF Len(pending) = 1 THEN after ELSE here, handler)
        /\ AppendBudgetEvent(o, Head(pending))
        /\ pending' = IF o = "ok" THEN Tail(pending) ELSE <<>>
  BY DEF EmitFrom
<1>2. Head(pending) \in Event /\ Tail(pending) \in Seq(Event)
  BY DEF EmitFrom, TypeOK
<1>3. pending' \in Seq(Event)
  BY <1>1, <1>2
<1>4. stream' \in Stream /\ sequence' \in Nat
  <2>1. StreamWith(Head(pending)) \in Stream
    BY <1>2, StreamWithType DEF TypeOK
  <2> QED BY <1>1, <2>1 DEF AppendBudgetEvent, TypeOK
<1>5. pc' \in PCs /\ faults' \in Nat /\ exc' \in Exceptions \cup {None}
  <2>1. (IF Len(pending) = 1 THEN after ELSE here) \in PCs
    BY DEF TypeOK
  <2> QED BY <1>1, <2>1, DurableType
<1> QED BY <1>3, <1>4, <1>5 DEF EmitFrom, TypeOK, programVars, loopVars

LEMMA RecordType ==
  ASSUME LedgerOK, NEW b \in Budget, NEW events \in Seq(Event),
         NEW next \in PCs, RecordThenEmit(b, events, next)
  PROVE  LedgerOK'
  BY DEF LedgerOK, RecordThenEmit

LEMMA RecordOneType ==
  ASSUME LedgerOK, NEW b \in Budget, NEW e \in Event, NEW next \in PCs,
         RecordThenEmit(b, <<e>>, next)
  PROVE  LedgerOK'
<1>1. <<e>> \in Seq(Event)
  OBVIOUS
<1> QED BY <1>1, RecordType

LEMMA StoreType ==
  ASSUME cache \in [Workspaces -> CacheEntry \cup {NoEntry}],
         NEW c \in Candidate
  PROVE  StoreEvaluation(c) \in [Workspaces -> CacheEntry \cup {NoEntry}]
  BY DEF StoreEvaluation, Candidate, CacheEntry

LEMMA LookupType ==
  ASSUME cache \in [Workspaces -> CacheEntry \cup {NoEntry}],
         NEW c \in Candidate
  PROVE  EvaluationCacheLookup(c) \in CacheEntry \cup {NoEntry}
  BY DEF EvaluationCacheLookup, Candidate

LEMMA CallAttemptsType ==
  ASSUME LedgerOK
  PROVE  /\ CallAttempts \in 1 .. MaxCallAttempts
         /\ CanCall(budget) =>
              ("max_llm_calls" \in DOMAIN Limits =>
                 CallAttempts <= Limits["max_llm_calls"]
                                   - budget.consumed["max_llm_calls"])
<1>1. budget.consumed["max_llm_calls"] \in Nat
  BY DEF LedgerOK, Budget, Meters, LLMMeters
<1>2. "max_llm_calls" \in DOMAIN Limits => Limits["max_llm_calls"] \in Nat
  BY LimitsAssumption
<1> QED BY <1>1, <1>2, LoopAssumption DEF CallAttempts, CanCall

LEMMA LLMBudgetEventsType ==
  ASSUME NEW calls \in Nat, NEW kept \in Nat, NEW u \in Usage
  PROVE  LLMBudgetEvents(calls, kept, u) \in Seq(Event)
<1>1. Role \in Roles
  BY LoopAssumption
<1>2. ASSUME NEW i \in 1 .. calls
      PROVE  LLMCallEvent(Role, IF i <= kept THEN 1 ELSE 0, u) \in Event
  BY <1>1, EventType
<1> QED BY <1>2 DEF LLMBudgetEvents

LEMMA StrictType ==
  ASSUME LoopOK, SeedArchiveEvent
  PROVE  strictInvalid' \in BOOLEAN
  BY DEF LoopOK, SeedArchiveEvent

(* A check that leaves no stop reason vouches for the next expense. *)
LEMMA EvaluationCheck ==
  ASSUME NEW b \in Budget, NEW late \in BOOLEAN
  PROVE  LET c == CheckBeforeEvaluation(b, late) IN
         /\ c \in Budget
         /\ c.consumed = b.consumed
         /\ c.generations_started = b.generations_started
         /\ b.stop_reason # None => c = b
         /\ c.stop_reason = None => CanEvaluate(c)
<1> DEFINE c == CheckBeforeEvaluation(b, late)
<1>1. /\ c \in Budget
      /\ c.consumed = b.consumed
      /\ c.generations_started = b.generations_started
      /\ b.stop_reason # None => c = b
      /\ c.stop_reason = None =>
           \A m \in LimitNames : ~Exhausted(b, m, FALSE, None, late)
  BY CheckLimitsType DEF CheckBeforeEvaluation
<1>2. "max_evaluations" \in LimitNames
  BY DEF LimitNames, LimitOrder
<1>3. ~Exhausted(b, "max_evaluations", FALSE, None, late) => CanEvaluate(b)
  <2>1. b.consumed["max_evaluations"] \in Nat
    BY DEF Budget, Meters, EvaluatorMeters
  <2>2. "max_evaluations" \in DOMAIN Limits
          => Limits["max_evaluations"] \in Nat
    BY LimitsAssumption
  <2> QED BY <2>1, <2>2 DEF Exhausted, CanEvaluate, EvaluatorMeters
<1> HIDE DEF c
<1>4. c.stop_reason = None => CanEvaluate(c)
  BY <1>1, <1>2, <1>3 DEF CanEvaluate
<1> QED BY <1>1, <1>4 DEF c

LEMMA LLMCheck ==
  ASSUME NEW b \in Budget, NEW late \in BOOLEAN
  PROVE  LET c == CheckBeforeLLMCall(b, Role, late) IN
         /\ c \in Budget
         /\ c.consumed = b.consumed
         /\ c.generations_started = b.generations_started
         /\ b.stop_reason # None => c = b
         /\ c.stop_reason = None => CanEvaluate(c) /\ CanCall(c)
<1> DEFINE c == CheckBeforeLLMCall(b, Role, late)
<1>1. /\ c \in Budget
      /\ c.consumed = b.consumed
      /\ c.generations_started = b.generations_started
      /\ b.stop_reason # None => c = b
      /\ c.stop_reason = None =>
           \A m \in LimitNames : ~Exhausted(b, m, TRUE, Role, late)
  BY CheckLimitsType DEF CheckBeforeLLMCall
<1>2. "max_evaluations" \in LimitNames /\ "max_llm_calls" \in LimitNames
  BY DEF LimitNames, LimitOrder
<1>3. /\ b.consumed["max_evaluations"] \in Nat
      /\ b.consumed["max_llm_calls"] \in Nat
  BY DEF Budget, Meters, EvaluatorMeters, LLMMeters
<1>4. \A m \in DOMAIN Limits : Limits[m] \in Nat
  BY LimitsAssumption
<1>5. ~Exhausted(b, "max_evaluations", TRUE, Role, late) => CanEvaluate(b)
  BY <1>3, <1>4 DEF Exhausted, CanEvaluate, EvaluatorMeters
<1>6. ~Exhausted(b, "max_llm_calls", TRUE, Role, late) => CanCall(b)
  BY <1>3, <1>4 DEF Exhausted, CanCall, LLMMeters
<1> HIDE DEF c
<1>7. c.stop_reason = None => CanEvaluate(c) /\ CanCall(c)
  BY <1>1, <1>2, <1>5, <1>6 DEF CanEvaluate, CanCall
<1> QED BY <1>1, <1>7 DEF c

LEMMA ProposalCheck ==
  ASSUME NEW b \in Budget, clockOut \in BOOLEAN
  PROVE  LET c == CheckBeforeProposal(b) IN
         /\ c \in Budget
         /\ c.consumed = b.consumed
         /\ c.generations_started = b.generations_started
         /\ c.stop_reason = None => CanEvaluate(c) /\ CanCall(c)
  BY EvaluationCheck, LLMCheck DEF CheckBeforeProposal

(* The steps that make a candidate, or give it a result, make one of the   *)
(* right type.                                                             *)
LEMMA CandidateMade ==
  ASSUME TypeOK, Control,
         \/ SeedEvaluate \/ ApplyMutation
         \/ EvaluateFromCache \/ EvaluateCandidate
  PROVE  cur' \in Candidate
<1>0. LedgerOK /\ ProgramsOK /\ LoopOK
  BY TypeParts
<1>1. CASE SeedEvaluate
  <2>1. PICK w \in Workspaces, r \in Results :
          cur' = [id |-> nextSeed, ws |-> w, diffError |-> FALSE,
                  result |-> r, source |-> nextSeed]
    BY <1>1 DEF SeedEvaluate
  <2>2. nextSeed \in ProgramIds
    BY <1>0, <1>1, Numbers DEF SeedEvaluate, Control, Where, SeedWork, LoopOK
  <2> QED BY <2>1, <2>2, DataAssumption DEF Candidate
<1>2. CASE ApplyMutation
  <2>1. GeneratedId \in ProgramIds
    BY <1>0, <1>2, Numbers
    DEF ApplyMutation, Control, Where, ProposalWork, GeneratedId, LoopOK
  <2> QED BY <1>2, <2>1, DataAssumption DEF ApplyMutation, Candidate
<1>3. CASE EvaluateFromCache
  <2>1. cur \in Candidate
    BY <1>3 DEF EvaluateFromCache, Control, Where, CandidateWork
  <2>2. EvaluationCacheLookup(cur) \in CacheEntry
    BY <1>0, <1>3, <2>1, LookupType DEF EvaluateFromCache, ProgramsOK
  <2> QED BY <1>3, <2>1, <2>2 DEF EvaluateFromCache, Candidate, CacheEntry
<1>4. CASE EvaluateCandidate
  <2>1. cur \in Candidate
    BY <1>4 DEF EvaluateCandidate, Control, Where, CandidateWork
  <2>2. PICK r \in Results \cup {DiffErrorResult} :
          cur' = [cur EXCEPT !.result = r]
    BY <1>4 DEF EvaluateCandidate
  <2> QED BY <2>1, <2>2, DataAssumption DEF Candidate
<1> QED BY <1>1, <1>2, <1>3, <1>4

LEMMA TypeStep ==
  ASSUME TypeOK, Control, Next
  PROVE  TypeOK'
<1>0. pc \in PCs /\ LedgerOK /\ EnvOK /\ ProgramsOK /\ LoopOK
      /\ manifest \in Manifest
  BY TypeParts
<1>1. CASE SeedCheck
  <2>1. pc' \in PCs
    BY <1>1, PCNames DEF SeedCheck
  <2>2. budget' \in Budget
    BY <1>0, <1>1, EvaluationCheck DEF SeedCheck, LedgerOK, EnvOK
  <2>3. LedgerOK'
    BY <1>0, <1>1, <2>2 DEF SeedCheck, LedgerOK
  <2>4. UNCHANGED <<envVars, programVars, loopVars, manifest>>
    BY <1>1 DEF SeedCheck
  <2> QED BY <1>0, <2>1, <2>2, <2>3, <2>4, TypeParts, Frame
<1>2. CASE SeedEvaluate
  <2>1. pc' \in PCs
    BY <1>2, PCNames DEF SeedEvaluate
  <2>2. PICK acc \in Accountings :
         RecordThenEmit(RecordEvaluation(budget, TRUE, acc),
                        <<EvaluationEvent(TRUE, acc)>>, "seed_admit")
    BY <1>2 DEF SeedEvaluate
  <2>3. cur' \in Candidate
    BY <1>2, CandidateMade
  <2>4. LoopOK'
    BY <1>0, <1>2, <2>3 DEF SeedEvaluate, LoopOK
  <2>5. cache' \in [Workspaces -> CacheEntry \cup {NoEntry}]
    BY <1>0, <1>2, <2>3, StoreType DEF SeedEvaluate, ProgramsOK
  <2>6. ProgramsOK'
    BY <1>0, <1>2, <2>5 DEF SeedEvaluate, ProgramsOK
  <2>7. LedgerOK'
    <3>1. acc \in Accounting
      BY DataAssumption
    <3>2. RecordEvaluation(budget, TRUE, acc) \in Budget
      BY <1>0, <3>1, RecordEvaluationType DEF LedgerOK, Accounting
    <3>3. EvaluationEvent(TRUE, acc) \in Event /\ "seed_admit" \in PCs
      BY <3>1, EventType, PCNames
    <3> QED BY <1>0, <2>2, <3>2, <3>3, RecordOneType
  <2>8. UNCHANGED <<envVars, manifest>>
    BY <1>2 DEF SeedEvaluate
  <2> QED BY <1>0, <2>1, <2>2, <2>3, <2>4, <2>5, <2>6, <2>7, <2>8, TypeParts,
             Frame
<1>3. CASE SeedAdmit
  <2>1. pc' \in PCs
    BY <1>3, PCNames DEF SeedAdmit
  <2>2. budget' \in Budget
    BY <1>0, <1>3, EvaluationCheck DEF SeedAdmit, LedgerOK, EnvOK
  <2>3. LedgerOK'
    BY <1>0, <1>3, <2>2 DEF SeedAdmit, LedgerOK
  <2>4. cur \in Candidate
    BY <1>3 DEF SeedAdmit, Control, Where, CandidateWork
  <2>5. archive' \subseteq Candidate
    BY <1>0, <1>3, <2>4 DEF SeedAdmit, Admissions, ProgramsOK
  <2>6. ProgramsOK'
    BY <1>0, <1>3, <2>5 DEF SeedAdmit, ProgramsOK
  <2>7. UNCHANGED <<envVars, loopVars, manifest>>
    BY <1>3 DEF SeedAdmit
  <2> QED BY <1>0, <2>1, <2>2, <2>3, <2>4, <2>5, <2>6, <2>7, TypeParts, Frame
<1>4. CASE SeedArchiveEvent
  <2>1. PICK o \in WriteOutcomes : Durable(o, "seed_reject", "abort")
    BY <1>4 DEF SeedArchiveEvent
  <2>2. pc' \in PCs /\ faults' \in Nat /\ exc' \in Exceptions \cup {None}
    BY <2>1, PCNames, DurableType
  <2>3. EnvOK'
    BY <1>0, <1>4, <2>2 DEF SeedArchiveEvent, EnvOK
  <2>4. LoopOK'
    BY <1>0, <1>4, StrictType DEF SeedArchiveEvent, LoopOK
  <2>5. UNCHANGED <<ledgerVars, programVars, manifest>>
    BY <1>4 DEF SeedArchiveEvent
  <2> QED BY <1>0, <2>1, <2>2, <2>3, <2>4, <2>5, TypeParts, Frame
<1>5. CASE SeedReject
  <2>1. cur \in Candidate /\ cur.id \in ProgramIds
    BY <1>5 DEF SeedReject, Control, Where, CandidateWork, Candidate
  <2>2. ASSUME NEW o \in WriteOutcomes,
           Durable(o, "seed_log", "abort"),
           failures' = IF o = "lost" THEN failures
                                      ELSE failures \cup {cur.id}
    PROVE  /\ pc' \in PCs /\ faults' \in Nat
           /\ exc' \in Exceptions \cup {None}
           /\ failures' \subseteq ProgramIds
    BY <1>0, <2>1, <2>2, PCNames, DurableType DEF ProgramsOK
  <2>3. /\ pc' \in PCs /\ faults' \in Nat
       /\ exc' \in Exceptions \cup {None}
       /\ failures' \subseteq ProgramIds
    BY <1>0, <1>5, <2>2, PCNames DEF SeedReject, ProgramsOK, EnvOK
  <2>4. EnvOK' /\ ProgramsOK'
    BY <1>0, <1>5, <2>3 DEF SeedReject, EnvOK, ProgramsOK
  <2>5. UNCHANGED <<ledgerVars, loopVars, manifest>>
    BY <1>5 DEF SeedReject
  <2> QED BY <1>0, <2>1, <2>2, <2>3, <2>4, <2>5, TypeParts, Frame
<1>6. CASE SeedLog
  <2>1. PICK o \in WriteOutcomes :
         /\ Durable(o, "seed_check", "abort")
         /\ history' = IF o = "lost" THEN history ELSE history \cup {cur}
         /\ nextSeed' = IF o = "ok" THEN nextSeed + 1 ELSE nextSeed
    BY <1>6 DEF SeedLog
  <2>2. pc' \in PCs /\ faults' \in Nat /\ exc' \in Exceptions \cup {None}
    BY <2>1, PCNames, DurableType
  <2>3. EnvOK'
    BY <1>0, <1>6, <2>2 DEF SeedLog, EnvOK
  <2>4. cur \in Candidate /\ nextSeed <= NumSeeds
    BY <1>6 DEF SeedLog, Control, Where, CandidateWork, SeedWork
  <2>5. ProgramsOK'
    BY <1>0, <1>6, <2>1, <2>4 DEF SeedLog, ProgramsOK
  <2>6. LoopOK'
    BY <1>0, <1>6, <2>1, <2>4, LoopAssumption DEF SeedLog, LoopOK
  <2>7. UNCHANGED <<ledgerVars, manifest>>
    BY <1>6 DEF SeedLog
  <2> QED BY <1>0, <2>1, <2>2, <2>3, <2>4, <2>5, <2>6, <2>7, TypeParts, Frame
<1>7. CASE InitialProgramPolicy
  <2>1. pc' \in PCs
    BY <1>7, PCNames DEF InitialProgramPolicy
  <2>2. "invalid_initial_programs" \in STOP_REASONS
    BY DEF STOP_REASONS
  <2>3. LedgerOK'
    BY <1>0, <1>7, <2>2 DEF InitialProgramPolicy, LedgerOK, Budget
  <2>4. UNCHANGED <<envVars, programVars, loopVars, manifest>>
    BY <1>7 DEF InitialProgramPolicy
  <2> QED BY <1>0, <2>1, <2>2, <2>3, <2>4, TypeParts, Frame
<1>8. CASE LoopEnds
  <2>1. pc' \in PCs
    BY <1>8, PCNames DEF LoopEnds
  <2>2. UNCHANGED <<ledgerVars, envVars, programVars, loopVars, manifest>>
    BY <1>8 DEF LoopEnds
  <2> QED BY <1>0, <2>1, <2>2, TypeParts, Frame
<1>9. CASE BeginProposal
  <2>1. pc' \in PCs
    BY <1>9, PCNames DEF BeginProposal
  <2>2. CheckBeforeProposal(budget) \in Budget
    BY <1>0, ProposalCheck DEF LedgerOK, EnvOK
  <2>3. /\ [CheckBeforeProposal(budget) EXCEPT
              !.stop_reason = "no_valid_programs"] \in Budget
       /\ RecordGenerationStart(CheckBeforeProposal(budget)) \in Budget
    BY <2>2, RecordGenerationType DEF Budget, STOP_REASONS
  <2>4. LedgerOK'
    <3>1. CASE RecordThenEmit(
                RecordGenerationStart(CheckBeforeProposal(budget)),
                <<GenerationStartedEvent>>, "generate")
      <4>1. GenerationStartedEvent \in Event /\ "generate" \in PCs
        BY EventType, PCNames
      <4> QED BY <1>0, <2>3, <3>1, <4>1, RecordOneType
    <3>2. CASE /\ budget' \in Budget
               /\ UNCHANGED <<stream, sequence, pending, after>>
      BY <1>0, <3>2 DEF LedgerOK
    <3> QED BY <1>9, <2>2, <2>3, <3>1, <3>2 DEF BeginProposal
  <2>5. LoopOK'
    BY <1>0, <1>9 DEF BeginProposal, LoopOK, ProgramsOK
  <2>6. UNCHANGED <<envVars, programVars, manifest>>
    BY <1>9 DEF BeginProposal
  <2> QED BY <1>0, <2>1, <2>2, <2>3, <2>4, <2>5, <2>6, TypeParts, Frame
<1>10. CASE CheckBeforeCall
  <2>1. pc' \in PCs
    BY <1>10, PCNames DEF CheckBeforeCall
  <2>2. budget' \in Budget
    BY <1>0, <1>10, LLMCheck DEF CheckBeforeCall, LedgerOK, EnvOK
  <2>3. LedgerOK'
    BY <1>0, <1>10, <2>2 DEF CheckBeforeCall, LedgerOK
  <2>4. UNCHANGED <<envVars, programVars, loopVars, manifest>>
    BY <1>10 DEF CheckBeforeCall
  <2> QED BY <1>0, <2>1, <2>2, <2>3, <2>4, TypeParts, Frame
<1>11. CASE CheckDeadline
  <2>1. pc' \in PCs
    BY <1>11, PCNames DEF CheckDeadline
  <2>2. UNCHANGED <<ledgerVars, envVars, programVars, loopVars, manifest>>
    BY <1>11 DEF CheckDeadline
  <2> QED BY <1>0, <2>1, <2>2, TypeParts, Frame
<1>12. CASE LLMCall
  <2> DEFINE Ends(n, kept, u, next) ==
        /\ RecordThenEmit(
             RecordLLMCalls(budget, Role, IF n = 0 THEN 1 ELSE n, kept, u),
             LLMBudgetEvents(IF n = 0 THEN 1 ELSE n, kept, u),
             next)
        /\ interrupted' = (interrupted \/ next = "abort")
        /\ exc' = IF next = "abort" THEN "KeyboardInterrupt" ELSE exc
  <2>1. PICK n \in 0 .. CallAttempts, kept \in 0 .. MaxCallAttempts,
             u \in Usages : \E next \in CallOutcomes(n) : Ends(n, kept, u, next)
    BY <1>12 DEF LLMCall
  <2>2. PICK next \in CallOutcomes(n) : Ends(n, kept, u, next)
    BY <2>1
  <2>3. n \in Nat /\ kept \in Nat /\ next \in PCs
    BY <1>0, <2>1, <2>2, LoopAssumption, CallAttemptsType, PCNames
       DEF CallOutcomes
  <2>4. pc' \in PCs
    BY <1>12, PCNames DEF LLMCall
  <2>5. EnvOK'
    <3>1. clockOut' = clockOut /\ faults' = faults
      BY <1>12 DEF LLMCall
    <3> QED BY <1>0, <2>2, <3>1 DEF EnvOK, Exceptions
  <2>6. LedgerOK'
    <3> DEFINE calls == IF n = 0 THEN 1 ELSE n
    <3>1. calls \in Nat /\ u \in Usage
      BY <2>3, DataAssumption
    <3>2. RecordLLMCalls(budget, Role, calls, kept, u) \in Budget
      BY <1>0, <2>3, <3>1, LoopAssumption, RecordLLMCallsType
         DEF LedgerOK, Usage
    <3>3. LLMBudgetEvents(calls, kept, u) \in Seq(Event)
      BY <2>3, <3>1, LLMBudgetEventsType
    <3> QED BY <1>0, <2>2, <2>3, <3>2, <3>3, RecordType
  <2>7. UNCHANGED <<programVars, loopVars, manifest>>
    BY <1>12 DEF LLMCall
  <2> QED BY <1>0, <2>4, <2>5, <2>6, <2>7, TypeParts, Frame
<1>13. CASE LLMFailure
  <2>1. pc' \in PCs
    BY <1>13, PCNames DEF LLMFailure
  <2>2. GeneratedId \in ProgramIds /\ proposal + 1 \in 0 .. MaxProposals
    BY <1>0, <1>13, Numbers
    DEF LLMFailure, Control, Where, ProposalWork, GeneratedId, LoopOK
  <2>3. EnvOK'
    BY <1>0, <1>13 DEF LLMFailure, EnvOK, Exceptions
  <2>4. ProgramsOK'
    BY <1>0, <1>13, <2>2 DEF LLMFailure, ProgramsOK
  <2>5. LoopOK'
    BY <1>0, <1>13, <2>2 DEF LLMFailure, LoopOK
  <2>6. UNCHANGED <<ledgerVars, manifest>>
    BY <1>13 DEF LLMFailure
  <2> QED BY <1>0, <2>1, <2>2, <2>3, <2>4, <2>5, <2>6, TypeParts, Frame
<1>14. CASE ApplyMutation
  <2>1. pc' \in PCs
    BY <1>14, PCNames DEF ApplyMutation
  <2>2. LoopOK'
    BY <1>0, <1>14, CandidateMade DEF ApplyMutation, LoopOK
  <2>3. UNCHANGED <<ledgerVars, envVars, programVars, manifest>>
    BY <1>14 DEF ApplyMutation
  <2> QED BY <1>0, <2>1, <2>2, <2>3, TypeParts, Frame
<1>15. CASE RaiseFromCandidate
  <2>1. pc' \in PCs
    BY <1>15, PCNames DEF RaiseFromCandidate
  <2>2. EnvOK'
    BY <1>0, <1>15 DEF RaiseFromCandidate, EnvOK, Exceptions
  <2>3. UNCHANGED <<ledgerVars, programVars, loopVars, manifest>>
    BY <1>15 DEF RaiseFromCandidate
  <2> QED BY <1>0, <2>1, <2>2, <2>3, TypeParts, Frame
<1>16. CASE EvaluateFromCache
  <2>1. pc' \in PCs
    BY <1>16, PCNames DEF EvaluateFromCache
  <2>2. LoopOK'
    BY <1>0, <1>16, CandidateMade DEF EvaluateFromCache, LoopOK
  <2>3. LedgerOK'
    <3>1. /\ RecordThenEmit(budget, <<CacheHitEvent>>, "admit")
          /\ budget \in Budget /\ CacheHitEvent \in Event /\ "admit" \in PCs
      BY <1>0, <1>16, EventType, PCNames DEF EvaluateFromCache, LedgerOK
    <3> QED BY <1>0, <3>1, RecordOneType
  <2>4. UNCHANGED <<envVars, programVars, manifest>>
    BY <1>16 DEF EvaluateFromCache
  <2> QED BY <1>0, <2>1, <2>2, <2>3, <2>4, TypeParts, Frame
<1>17. CASE EvaluateCandidate
  <2>1. pc' \in PCs
    BY <1>17, PCNames DEF EvaluateCandidate
  <2>2. PICK acc \in Accountings \cup {NoAccounting} :
         RecordThenEmit(RecordEvaluation(budget, FALSE, acc),
                        <<EvaluationEvent(FALSE, acc)>>, "admit")
    BY <1>17 DEF EvaluateCandidate
  <2>3. cur' \in Candidate
    BY <1>17, CandidateMade
  <2>4. LoopOK'
    BY <1>0, <1>17, <2>3 DEF EvaluateCandidate, LoopOK
  <2>5. cache' \in [Workspaces -> CacheEntry \cup {NoEntry}]
    BY <1>0, <1>17, <2>3, StoreType DEF EvaluateCandidate, ProgramsOK
  <2>6. ProgramsOK'
    BY <1>0, <1>17, <2>5 DEF EvaluateCandidate, ProgramsOK
  <2>7. LedgerOK'
    <3>1. acc \in Accounting
      BY DataAssumption
    <3>2. RecordEvaluation(budget, FALSE, acc) \in Budget
      BY <1>0, <3>1, RecordEvaluationType DEF LedgerOK, Accounting
    <3>3. EvaluationEvent(FALSE, acc) \in Event /\ "admit" \in PCs
      BY <3>1, EventType, PCNames
    <3> QED BY <1>0, <2>2, <3>2, <3>3, RecordOneType
  <2>8. UNCHANGED <<envVars, manifest>>
    BY <1>17 DEF EvaluateCandidate
  <2> QED BY <1>0, <2>1, <2>2, <2>3, <2>4, <2>5, <2>6, <2>7, <2>8, TypeParts,
             Frame
<1>18. CASE Admit
  <2>1. pc' \in PCs
    BY <1>18, PCNames DEF Admit
  <2>2. budget' \in Budget
    BY <1>0, <1>18, EvaluationCheck DEF Admit, LedgerOK, EnvOK
  <2>3. LedgerOK'
    BY <1>0, <1>18, <2>2 DEF Admit, LedgerOK
  <2>4. cur \in Candidate
    BY <1>18 DEF Admit, Control, Where, CandidateWork
  <2>5. archive' \subseteq Candidate
    BY <1>0, <1>18, <2>4 DEF Admit, Admissions, ProgramsOK
  <2>6. ProgramsOK'
    BY <1>0, <1>18, <2>5 DEF Admit, ProgramsOK
  <2>7. UNCHANGED <<envVars, loopVars, manifest>>
    BY <1>18 DEF Admit
  <2> QED BY <1>0, <2>1, <2>2, <2>3, <2>4, <2>5, <2>6, <2>7, TypeParts, Frame
<1>19. CASE ArchiveEvent
  <2>1. PICK o \in WriteOutcomes : Durable(o, "reject", "abort")
    BY <1>19 DEF ArchiveEvent
  <2>2. pc' \in PCs /\ faults' \in Nat /\ exc' \in Exceptions \cup {None}
    BY <2>1, PCNames, DurableType
  <2>3. EnvOK'
    BY <1>0, <1>19, <2>2 DEF ArchiveEvent, EnvOK
  <2>4. UNCHANGED <<ledgerVars, programVars, loopVars, manifest>>
    BY <1>19 DEF ArchiveEvent
  <2> QED BY <1>0, <2>1, <2>2, <2>3, <2>4, TypeParts, Frame
<1>20. CASE Reject
  <2>1. cur \in Candidate /\ cur.id \in ProgramIds
    BY <1>20 DEF Reject, Control, Where, CandidateWork, Candidate
  <2>2. ASSUME NEW o \in WriteOutcomes,
           Durable(o, "reward", "abort"),
           failures' = IF o = "lost" THEN failures
                                      ELSE failures \cup {cur.id}
    PROVE  /\ pc' \in PCs /\ faults' \in Nat
           /\ exc' \in Exceptions \cup {None}
           /\ failures' \subseteq ProgramIds
    BY <1>0, <2>1, <2>2, PCNames, DurableType DEF ProgramsOK
  <2>3. /\ pc' \in PCs /\ faults' \in Nat
       /\ exc' \in Exceptions \cup {None}
       /\ failures' \subseteq ProgramIds
    BY <1>0, <1>20, <2>2, PCNames DEF Reject, ProgramsOK, EnvOK
  <2>4. EnvOK' /\ ProgramsOK'
    BY <1>0, <1>20, <2>3 DEF Reject, EnvOK, ProgramsOK
  <2>5. UNCHANGED <<ledgerVars, loopVars, manifest>>
    BY <1>20 DEF Reject
  <2> QED BY <1>0, <2>1, <2>2, <2>3, <2>4, <2>5, TypeParts, Frame
<1>21. CASE Reward
  <2>1. PICK o \in WriteOutcomes : Durable(o, "log", "abort")
    BY <1>21 DEF Reward
  <2>2. pc' \in PCs /\ faults' \in Nat /\ exc' \in Exceptions \cup {None}
    BY <2>1, PCNames, DurableType
  <2>3. EnvOK'
    BY <1>0, <1>21, <2>2 DEF Reward, EnvOK
  <2>4. UNCHANGED <<ledgerVars, programVars, loopVars, manifest>>
    BY <1>21 DEF Reward
  <2> QED BY <1>0, <2>1, <2>2, <2>3, <2>4, TypeParts, Frame
<1>22. CASE Log
  <2>1. PICK o \in WriteOutcomes :
         /\ Durable(o, "prompt_result", "abort")
         /\ history' = IF o = "lost" THEN history ELSE history \cup {cur}
    BY <1>22 DEF Log
  <2>2. pc' \in PCs /\ faults' \in Nat /\ exc' \in Exceptions \cup {None}
    BY <2>1, PCNames, DurableType
  <2>3. EnvOK'
    BY <1>0, <1>22, <2>2 DEF Log, EnvOK
  <2>4. cur \in Candidate
    BY <1>22 DEF Log, Control, Where, CandidateWork
  <2>5. ProgramsOK'
    BY <1>0, <1>22, <2>1, <2>4 DEF Log, ProgramsOK
  <2>6. UNCHANGED <<ledgerVars, loopVars, manifest>>
    BY <1>22 DEF Log
  <2> QED BY <1>0, <2>1, <2>2, <2>3, <2>4, <2>5, <2>6, TypeParts, Frame
<1>23. CASE PromptResult
  <2>1. PICK o \in WriteOutcomes :
         Durable(o, IF LastOfGeneration THEN "migrate" ELSE "proposal",
                 "abort")
    BY <1>23 DEF PromptResult
  <2>2. pc' \in PCs /\ faults' \in Nat /\ exc' \in Exceptions \cup {None}
    <3>1. (IF LastOfGeneration THEN "migrate" ELSE "proposal") \in PCs
      BY PCNames
    <3> QED BY <2>1, <3>1, PCNames, DurableType
  <2>3. EnvOK'
    BY <1>0, <1>23, <2>2 DEF PromptResult, EnvOK
  <2>4. proposal + 1 \in 0 .. MaxProposals
    BY <1>0, <1>23, Numbers
    DEF PromptResult, Control, Where, ProposalWork, LoopOK
  <2>5. LoopOK'
    BY <1>0, <1>23, <2>4 DEF PromptResult, LoopOK
  <2>6. UNCHANGED <<ledgerVars, programVars, manifest>>
    BY <1>23 DEF PromptResult
  <2> QED BY <1>0, <2>1, <2>2, <2>3, <2>4, <2>5, <2>6, TypeParts, Frame
<1>24. CASE Migrate
  <2>1. ASSUME NEW o \in WriteOutcomes,
           Durable(o, "generation_complete", "abort")
    PROVE  /\ pc' \in PCs /\ faults' \in Nat
           /\ exc' \in Exceptions \cup {None}
    BY <2>1, PCNames, DurableType
  <2>2. pc' \in PCs /\ faults' \in Nat /\ exc' \in Exceptions \cup {None}
    BY <1>0, <1>24, <2>1, PCNames DEF Migrate, EnvOK
  <2>3. EnvOK'
    BY <1>0, <1>24, <2>2 DEF Migrate, EnvOK
  <2>4. UNCHANGED <<ledgerVars, programVars, loopVars, manifest>>
    BY <1>24 DEF Migrate
  <2> QED BY <1>0, <2>1, <2>2, <2>3, <2>4, TypeParts, Frame
<1>25. CASE GenerationComplete
  <2>1. pc' \in PCs
    BY <1>25, PCNames DEF GenerationComplete
  <2>2. proposal + 1 \in 0 .. MaxProposals
    BY <1>0, <1>25, Numbers
    DEF GenerationComplete, Control, Where, ProposalWork, LoopOK
  <2>3. LoopOK'
    BY <1>0, <1>25, <2>2 DEF GenerationComplete, LoopOK
  <2>4. LedgerOK'
    <3>1. RecordGenerationComplete(budget) \in Budget
      BY <1>0, RecordGenerationType DEF LedgerOK
    <3>2. /\ RecordThenEmit(RecordGenerationComplete(budget),
                            <<GenerationCompletedEvent>>, "proposal")
          /\ GenerationCompletedEvent \in Event /\ "proposal" \in PCs
      BY <1>25, EventType, PCNames DEF GenerationComplete
    <3> QED BY <1>0, <3>1, <3>2, RecordOneType
  <2>5. UNCHANGED <<envVars, programVars, manifest>>
    BY <1>25 DEF GenerationComplete
  <2> QED BY <1>0, <2>1, <2>2, <2>3, <2>4, <2>5, TypeParts, Frame
<1>26. CASE Emit
  BY <1>26, EmitType, PCNames DEF Emit
<1>27. CASE EmitLLMCalls
  BY <1>27, EmitType, PCNames DEF EmitLLMCalls
<1>28. CASE FinishRun
  <2>1. pc' \in PCs
    BY <1>28, PCNames DEF FinishRun
  <2>2. Finish(budget, archive # {}, clockOut) \in Budget
         /\ Finish(budget, archive # {}, clockOut).stop_reason \in STOP_REASONS
    BY <1>0, FinishType DEF LedgerOK, EnvOK
  <2>3. LedgerOK'
    <3> DEFINE b == Finish(budget, archive # {}, clockOut)
    <3>1. /\ RecordThenEmit(b, <<StopEvent(b.stop_reason)>>, "manifest")
          /\ StopEvent(b.stop_reason) \in Event /\ "manifest" \in PCs
      BY <1>28, <2>2, EventType, PCNames DEF FinishRun
    <3> HIDE DEF b
    <3>2. b \in Budget
      BY <2>2 DEF b
    <3> QED BY <1>0, <3>1, <3>2, RecordOneType
  <2>4. UNCHANGED <<envVars, programVars, loopVars, manifest>>
    BY <1>28 DEF FinishRun
  <2> QED BY <1>0, <2>1, <2>2, <2>3, <2>4, TypeParts, Frame
<1>29. CASE WriteCompletedManifest
  <2>1. PICK o \in WriteOutcomes : Durable(o, "returned", "abort")
    BY <1>29 DEF WriteCompletedManifest
  <2>2. pc' \in PCs /\ faults' \in Nat /\ exc' \in Exceptions \cup {None}
    BY <2>1, PCNames, DurableType
  <2>3. EnvOK'
    BY <1>0, <1>29, <2>2 DEF WriteCompletedManifest, EnvOK
  <2>4. budget.stop_reason \in STOP_REASONS
    BY <1>0, <1>29 DEF WriteCompletedManifest, Control, Where, LedgerOK, Budget
  <2>5. manifest' \in Manifest
    BY <1>0, <1>29, <2>4 DEF WriteCompletedManifest, Manifest
  <2>6. UNCHANGED <<ledgerVars, programVars, loopVars>>
    BY <1>29 DEF WriteCompletedManifest
  <2> QED BY <1>0, <2>1, <2>2, <2>3, <2>4, <2>5, <2>6, TypeParts, Frame
<1>30. CASE AbortRun
  <2>1. pc' \in PCs
    BY <1>30, PCNames DEF AbortRun
  <2>2. "aborted" \in STOP_REASONS
    BY DEF STOP_REASONS
  <2>3. [budget EXCEPT !.stop_reason = "aborted"] \in Budget
    BY <1>0, <2>2 DEF LedgerOK, Budget
  <2>4. LedgerOK'
    <3>1. /\ RecordThenEmit([budget EXCEPT !.stop_reason = "aborted"],
                            <<StopEvent("aborted")>>, "abort_manifest")
          /\ StopEvent("aborted") \in Event /\ "abort_manifest" \in PCs
      BY <1>30, <2>2, EventType, PCNames DEF AbortRun
    <3> QED BY <1>0, <2>3, <3>1, RecordOneType
  <2>5. UNCHANGED <<envVars, programVars, loopVars, manifest>>
    BY <1>30 DEF AbortRun
  <2> QED BY <1>0, <2>1, <2>2, <2>3, <2>4, <2>5, TypeParts, Frame
<1>31. CASE EmitAbort
  BY <1>31, EmitType, PCNames DEF EmitAbort
<1>32. CASE WriteAbortedManifest
  <2>1. PICK o \in WriteOutcomes : Durable(o, "raised", "raised")
    BY <1>32 DEF WriteAbortedManifest
  <2>2. pc' \in PCs /\ faults' \in Nat /\ exc' \in Exceptions \cup {None}
    BY <2>1, PCNames, DurableType
  <2>3. EnvOK'
    BY <1>0, <1>32, <2>2 DEF WriteAbortedManifest, EnvOK
  <2>4. exc \in Exceptions
    BY <1>0, <1>32 DEF WriteAbortedManifest, Control, Where, AbortPCs, EnvOK
  <2>5. manifest' \in Manifest
    BY <1>0, <1>32, <2>4 DEF WriteAbortedManifest, Manifest
  <2>6. UNCHANGED <<ledgerVars, programVars, loopVars>>
    BY <1>32 DEF WriteAbortedManifest
  <2> QED BY <1>0, <2>1, <2>2, <2>3, <2>4, <2>5, <2>6, TypeParts, Frame
<1>33. CASE ClockExpires
  <2>1. EnvOK'
    BY <1>0, <1>33 DEF ClockExpires, EnvOK
  <2>2. UNCHANGED <<pc, ledgerVars, programVars, loopVars, manifest>>
    BY <1>33 DEF ClockExpires
  <2> QED BY <1>0, <2>1, <2>2, TypeParts, Frame
<1>34. CASE Interrupt
  <2>1. pc' \in PCs
    BY <1>34, PCNames DEF Interrupt
  <2>2. EnvOK'
    BY <1>0, <1>34 DEF Interrupt, EnvOK, Exceptions
  <2>3. UNCHANGED <<ledgerVars, programVars, loopVars, manifest>>
    BY <1>34 DEF Interrupt
  <2> QED BY <1>0, <2>1, <2>2, <2>3, TypeParts, Frame
<1>35. CASE Terminated
  BY <1>0, <1>35, TypeParts, Frame DEF Terminated, vars
<1> QED BY <1>1, <1>2, <1>3, <1>4, <1>5, <1>6, <1>7, <1>8, <1>9, <1>10,
           <1>11, <1>12, <1>13, <1>14, <1>15, <1>16, <1>17, <1>18, <1>19,
           <1>20, <1>21, <1>22, <1>23, <1>24, <1>25, <1>26, <1>27, <1>28,
           <1>29, <1>30, <1>31, <1>32, <1>33, <1>34, <1>35
         DEF Next, Controller

(***************************************************************************)
(* Control.                                                                *)
(***************************************************************************)
LEMMA ControlStep ==
  ASSUME TypeOK, Control, Next
  PROVE  Control'
<1> USE LoopAssumption
    DEF Control, Where, SeedWork, ProposalWork, CandidateWork, AbortPCs,
        Exceptions, ledgerVars, envVars, programVars, loopVars, vars
<1>1. CASE SeedCheck
  <2>1. nextSeed \in Nat /\ NumSeeds \in Nat
    BY LoopAssumption DEF TypeOK
  <2> QED BY <1>1, <2>1 DEF SeedCheck
<1>2. CASE SeedEvaluate
  <2>1. cur' \in Candidate
    BY <1>2, CandidateMade
  <2>2. UNCHANGED <<nextSeed, proposal>>
    BY <1>2 DEF SeedEvaluate
  <2>3. pc' = "emit" /\ after' = "seed_admit"
    BY <1>2 DEF SeedEvaluate, RecordThenEmit, ledgerVars
  <2> QED BY <1>2, <2>1, <2>2, <2>3 DEF SeedEvaluate
<1>3. CASE SeedAdmit
  BY <1>3 DEF SeedAdmit
<1>4. CASE SeedArchiveEvent
  BY <1>4 DEF SeedArchiveEvent, Durable
<1>5. CASE SeedReject
  BY <1>5 DEF SeedReject, Durable
<1>6. CASE SeedLog
  BY <1>6 DEF SeedLog, Durable
<1>7. CASE InitialProgramPolicy
  BY <1>7 DEF InitialProgramPolicy
<1>8. CASE LoopEnds
  BY <1>8 DEF LoopEnds
<1>9. CASE BeginProposal
  BY <1>9 DEF BeginProposal, RecordThenEmit
<1>10. CASE CheckBeforeCall
  BY <1>10 DEF CheckBeforeCall
<1>11. CASE CheckDeadline
  BY <1>11 DEF CheckDeadline
<1>12. CASE LLMCall
  <2>1. PICK n \in 0 .. CallAttempts, kept \in 0 .. MaxCallAttempts,
             u \in Usages : \E next \in CallOutcomes(n) :
               /\ after' = next
               /\ exc' = IF next = "abort" THEN "KeyboardInterrupt" ELSE exc
    BY <1>12 DEF LLMCall, RecordThenEmit
  <2>2. /\ after' \in {"apply", "llm_failure", "finish", "abort"}
        /\ after' = "abort" => exc' = "KeyboardInterrupt"
    BY <2>1 DEF CallOutcomes
  <2>3. pc = "call" /\ pc' = "llm_emit" /\ UNCHANGED <<nextSeed, proposal>>
    BY <1>12 DEF LLMCall, loopVars
  <2> QED BY <2>2, <2>3, LoopAssumption
<1>13. CASE LLMFailure
  BY <1>13 DEF LLMFailure
<1>14. CASE ApplyMutation
  <2>1. cur' \in Candidate
    BY <1>14, CandidateMade
  <2>2. UNCHANGED <<nextSeed, proposal>>
    BY <1>14 DEF ApplyMutation
  <2>3. pc' = "evaluate" /\ after' = after
    BY <1>14 DEF ApplyMutation, RecordThenEmit, ledgerVars
  <2> QED BY <1>14, <2>1, <2>2, <2>3 DEF ApplyMutation
<1>15. CASE RaiseFromCandidate
  BY <1>15 DEF RaiseFromCandidate
<1>16. CASE EvaluateFromCache
  <2>1. cur' \in Candidate
    BY <1>16, CandidateMade
  <2>2. UNCHANGED <<nextSeed, proposal>>
    BY <1>16 DEF EvaluateFromCache
  <2>3. pc' = "emit" /\ after' = "admit"
    BY <1>16 DEF EvaluateFromCache, RecordThenEmit, ledgerVars
  <2> QED BY <1>16, <2>1, <2>2, <2>3 DEF EvaluateFromCache
<1>17. CASE EvaluateCandidate
  <2>1. cur' \in Candidate
    BY <1>17, CandidateMade
  <2>2. UNCHANGED <<nextSeed, proposal>>
    BY <1>17 DEF EvaluateCandidate
  <2>3. pc' = "emit" /\ after' = "admit"
    BY <1>17 DEF EvaluateCandidate, RecordThenEmit, ledgerVars
  <2> QED BY <1>17, <2>1, <2>2, <2>3 DEF EvaluateCandidate
<1>18. CASE Admit
  BY <1>18 DEF Admit
<1>19. CASE ArchiveEvent
  BY <1>19 DEF ArchiveEvent, Durable
<1>20. CASE Reject
  BY <1>20 DEF Reject, Durable
<1>21. CASE Reward
  BY <1>21 DEF Reward, Durable
<1>22. CASE Log
  BY <1>22 DEF Log, Durable
<1>23. CASE PromptResult
  BY <1>23 DEF PromptResult, Durable
<1>24. CASE Migrate
  BY <1>24 DEF Migrate, Durable
<1>25. CASE GenerationComplete
  BY <1>25 DEF GenerationComplete, RecordThenEmit
<1>26. CASE Emit
  BY <1>26 DEF Emit, EmitFrom, Durable
<1>27. CASE EmitLLMCalls
  BY <1>27 DEF EmitLLMCalls, EmitFrom, Durable
<1>28. CASE FinishRun
  <2>1. budget' = Finish(budget, archive # {}, clockOut)
    BY <1>28 DEF FinishRun, RecordThenEmit
  <2>2. budget'.stop_reason # None
    <3>1. /\ budget \in Budget /\ (archive # {}) \in BOOLEAN
          /\ clockOut \in BOOLEAN
      BY DEF TypeOK
    <3>2. Finish(budget, archive # {}, clockOut).stop_reason \in STOP_REASONS
      BY <3>1, FinishType
    <3> QED BY <2>1, <3>2, NoneAssumption
  <2>3. pc' = "emit" /\ after' = "manifest"
    BY <1>28 DEF FinishRun, RecordThenEmit
  <2> QED BY <2>2, <2>3
<1>29. CASE WriteCompletedManifest
  BY <1>29 DEF WriteCompletedManifest, Durable
<1>30. CASE AbortRun
  BY <1>30 DEF AbortRun, RecordThenEmit
<1>31. CASE EmitAbort
  BY <1>31 DEF EmitAbort, EmitFrom, Durable
<1>32. CASE WriteAbortedManifest
  BY <1>32 DEF WriteAbortedManifest, Durable
<1>33. CASE ClockExpires
  BY <1>33 DEF ClockExpires
<1>34. CASE Interrupt
  BY <1>34 DEF Interrupt
<1>35. CASE Terminated
  BY <1>35 DEF Terminated
<1> QED BY <1>1, <1>2, <1>3, <1>4, <1>5, <1>6, <1>7, <1>8, <1>9, <1>10,
           <1>11, <1>12, <1>13, <1>14, <1>15, <1>16, <1>17, <1>18, <1>19,
           <1>20, <1>21, <1>22, <1>23, <1>24, <1>25, <1>26, <1>27, <1>28,
           <1>29, <1>30, <1>31, <1>32, <1>33, <1>34, <1>35
         DEF Next, Controller

(***************************************************************************)
(* The limits.                                                             *)
(***************************************************************************)
(* The steps that leave the budget alone. *)
Thrifty ==
  \/ SeedArchiveEvent \/ SeedReject \/ SeedLog
  \/ LoopEnds \/ CheckDeadline \/ LLMFailure \/ ApplyMutation
  \/ RaiseFromCandidate \/ EvaluateFromCache
  \/ ArchiveEvent \/ Reject \/ Reward \/ Log \/ PromptResult \/ Migrate
  \/ Emit \/ EmitLLMCalls
  \/ WriteCompletedManifest \/ EmitAbort \/ WriteAbortedManifest
  \/ ClockExpires \/ Interrupt \/ Terminated

(* They move the controller from one expense to the next, but never from   *)
(* where it may not spend to where it may.                                 *)
LEMMA ThriftyStep ==
  ASSUME Control, Thrifty
  PROVE  /\ budget' = budget
         /\ Where' \in BeforeExpense => Where \in BeforeExpense
         /\ pc' \in {"deadline", "call"} => pc \in {"deadline", "call"}
<1> USE DEF Control, Where, BeforeExpense, ledgerVars, vars
<1>1. CASE SeedArchiveEvent
  BY <1>1 DEF SeedArchiveEvent, Durable
<1>2. CASE SeedReject
  BY <1>2 DEF SeedReject, Durable
<1>3. CASE SeedLog
  BY <1>3 DEF SeedLog, Durable
<1>4. CASE LoopEnds
  BY <1>4 DEF LoopEnds
<1>5. CASE CheckDeadline
  BY <1>5 DEF CheckDeadline
<1>6. CASE LLMFailure
  BY <1>6 DEF LLMFailure
<1>7. CASE ApplyMutation
  BY <1>7 DEF ApplyMutation
<1>8. CASE RaiseFromCandidate
  BY <1>8 DEF RaiseFromCandidate
<1>9. CASE EvaluateFromCache
  BY <1>9 DEF EvaluateFromCache, RecordThenEmit
<1>10. CASE ArchiveEvent
  BY <1>10 DEF ArchiveEvent, Durable
<1>11. CASE Reject
  BY <1>11 DEF Reject, Durable
<1>12. CASE Reward
  BY <1>12 DEF Reward, Durable
<1>13. CASE Log
  BY <1>13 DEF Log, Durable
<1>14. CASE PromptResult
  BY <1>14 DEF PromptResult, Durable
<1>15. CASE Migrate
  BY <1>15 DEF Migrate, Durable
<1>16. CASE Emit
  BY <1>16 DEF Emit, EmitFrom, Durable
<1>17. CASE EmitLLMCalls
  BY <1>17 DEF EmitLLMCalls, EmitFrom, Durable
<1>18. CASE WriteCompletedManifest
  BY <1>18 DEF WriteCompletedManifest, Durable
<1>19. CASE EmitAbort
  BY <1>19 DEF EmitAbort, EmitFrom, Durable
<1>20. CASE WriteAbortedManifest
  BY <1>20 DEF WriteAbortedManifest, Durable
<1>21. CASE ClockExpires
  BY <1>21 DEF ClockExpires
<1>22. CASE Interrupt
  BY <1>22 DEF Interrupt
<1>23. CASE Terminated
  BY <1>23 DEF Terminated
<1> QED BY <1>1, <1>2, <1>3, <1>4, <1>5, <1>6, <1>7, <1>8, <1>9, <1>10, <1>11,
           <1>12, <1>13, <1>14, <1>15, <1>16, <1>17, <1>18, <1>19, <1>20,
           <1>21, <1>22, <1>23
        DEF Thrifty

LEMMA AffordableStep ==
  ASSUME TypeOK, Control, Affordable, Next
  PROVE  Affordable'
<1>0. /\ budget \in Budget /\ clockOut \in BOOLEAN /\ LedgerOK
      /\ \A m \in DOMAIN Limits : Limits[m] \in Nat
      /\ budget.consumed["max_evaluations"] \in Nat
      /\ budget.consumed["max_llm_calls"] \in Nat
  BY TypeParts, LimitsAssumption
  DEF TypeOK, Budget, Meters, EvaluatorMeters, LLMMeters
<1>1. CASE Thrifty
  BY <1>1, ThriftyStep
  DEF Affordable, LLMCallsWithinLimit, EvaluationsWithinLimit, CanEvaluate,
      CanCall
<1>2. ASSUME NEW acc \in Accounting, NEW seed \in BOOLEAN,
             pc \in {"seed_evaluate", "evaluate"},
             budget' = RecordEvaluation(budget, seed, acc),
             pc' = "emit", after' \in {"seed_admit", "admit"}
      PROVE  Affordable'
  <2>1. CanEvaluate(budget)
    BY <1>2 DEF Affordable, Where, BeforeExpense
  <2>2. /\ budget'.consumed["max_evaluations"]
             = budget.consumed["max_evaluations"] + 1
        /\ budget'.consumed["max_llm_calls"]
             = budget.consumed["max_llm_calls"]
    BY <1>0, <1>2, RecordEvaluationType DEF Accounting
  <2>3. EvaluationsWithinLimit' /\ LLMCallsWithinLimit'
    BY <1>0, <2>1, <2>2
    DEF Affordable, CanEvaluate, EvaluationsWithinLimit, LLMCallsWithinLimit
  <2>4. Where' \notin BeforeExpense /\ pc' \notin {"deadline", "call"}
    BY <1>2 DEF Where, BeforeExpense
  <2> QED BY <2>3, <2>4 DEF Affordable
<1>3. CASE SeedEvaluate
  BY <1>2, <1>3, DataAssumption DEF SeedEvaluate, RecordThenEmit
<1>4. CASE EvaluateCandidate
  <2>1. PICK acc \in Accountings \cup {NoAccounting} :
          RecordThenEmit(RecordEvaluation(budget, FALSE, acc),
                         <<EvaluationEvent(FALSE, acc)>>, "admit")
    BY <1>4 DEF EvaluateCandidate
  <2> QED BY <1>2, <1>4, <2>1, DataAssumption
          DEF EvaluateCandidate, RecordThenEmit
<1>5. CASE LLMCall
  <2>1. PICK n \in 0 .. CallAttempts, kept \in 0 .. MaxCallAttempts,
             u \in Usages :
          \E next \in CallOutcomes(n) :
            RecordThenEmit(
              RecordLLMCalls(budget, Role, IF n = 0 THEN 1 ELSE n, kept, u),
              LLMBudgetEvents(IF n = 0 THEN 1 ELSE n, kept, u), next)
    BY <1>5 DEF LLMCall
  <2> DEFINE calls == IF n = 0 THEN 1 ELSE n
  <2>2. CallAttempts \in 1 .. MaxCallAttempts /\ MaxCallAttempts \in Nat
    BY <1>0, CallAttemptsType, LoopAssumption
  <2>3. calls \in Nat /\ calls <= CallAttempts
    BY <2>2
  <2>4. budget' = RecordLLMCalls(budget, Role, calls, kept, u)
    BY <2>1 DEF RecordThenEmit
  <2> HIDE DEF calls
  <2>5. /\ budget'.stop_reason = budget.stop_reason
        /\ budget'.consumed["max_llm_calls"]
             = budget.consumed["max_llm_calls"] + calls
        /\ budget'.consumed["max_evaluations"]
             = budget.consumed["max_evaluations"]
    <3>1. kept \in Nat /\ u \in [LLMMeters -> Nat] /\ Role \in Roles
      BY <2>2, LoopAssumption, DataAssumption DEF Usage
    <3> QED BY <1>0, <2>3, <2>4, <3>1, RecordLLMCallsType
  <2>6. budget.stop_reason = None /\ CanEvaluate(budget) /\ CanCall(budget)
    BY <1>5 DEF LLMCall, Affordable, Where, BeforeExpense
  <2>7. "max_llm_calls" \in DOMAIN Limits =>
          calls <= Limits["max_llm_calls"] - budget.consumed["max_llm_calls"]
    BY <1>0, <2>2, <2>3, <2>6, CallAttemptsType
  <2>8. LLMCallsWithinLimit' /\ EvaluationsWithinLimit'
    BY <1>0, <2>3, <2>5, <2>7
    DEF Affordable, LLMCallsWithinLimit, EvaluationsWithinLimit
  <2>9. budget'.stop_reason = None /\ CanEvaluate(budget')
    BY <2>5, <2>6 DEF CanEvaluate
  <2>10. pc' \notin {"deadline", "call"}
    BY <1>5 DEF LLMCall
  <2> QED BY <2>8, <2>9, <2>10 DEF Affordable
<1>6. ASSUME budget' \in Budget, budget'.consumed = budget.consumed,
             Where' \in BeforeExpense =>
               budget'.stop_reason = None /\ CanEvaluate(budget'),
             pc' \in {"deadline", "call"} => CanCall(budget')
      PROVE  Affordable'
  BY <1>6 DEF Affordable, LLMCallsWithinLimit, EvaluationsWithinLimit
<1>7. CASE SeedCheck
  BY <1>0, <1>6, <1>7, EvaluationCheck DEF SeedCheck, Where, BeforeExpense
<1>8. CASE SeedAdmit
  BY <1>0, <1>6, <1>8, EvaluationCheck DEF SeedAdmit, Where, BeforeExpense
<1>9. CASE Admit
  BY <1>0, <1>6, <1>9, EvaluationCheck DEF Admit, Where, BeforeExpense
<1>10. CASE InitialProgramPolicy
  <2>1. budget' \in Budget /\ budget'.consumed = budget.consumed
    BY <1>0, <1>10 DEF InitialProgramPolicy, Budget, STOP_REASONS
  <2> QED BY <1>6, <1>10, <2>1
          DEF InitialProgramPolicy, Where, BeforeExpense
<1>11. CASE BeginProposal
  <2> DEFINE b == CheckBeforeProposal(budget)
  <2>1. /\ b \in Budget /\ b.consumed = budget.consumed
        /\ b.stop_reason = None => CanEvaluate(b) /\ CanCall(b)
    BY <1>0, ProposalCheck
  <2>2. CASE pc' = "finish"
    <3>1. budget' \in Budget /\ budget'.consumed = budget.consumed
      <4>1. \/ budget' = b
            \/ budget' = [b EXCEPT !.stop_reason = "no_valid_programs"]
        BY <1>11, <2>2 DEF BeginProposal
      <4> HIDE DEF b
      <4> QED BY <2>1, <4>1 DEF Budget, STOP_REASONS
    <3> QED BY <1>6, <2>2, <3>1 DEF Where, BeforeExpense
  <2>3. CASE pc' # "finish"
    <3>1. /\ b.stop_reason = None
          /\ budget' = RecordGenerationStart(b) \/ budget' = b
          /\ pc' \notin {"deadline", "call"}
      BY <1>11, <2>3 DEF BeginProposal, RecordThenEmit
    <3> HIDE DEF b
    <3>2. /\ budget' \in Budget /\ budget'.consumed = budget.consumed
          /\ budget'.stop_reason = None
      BY <2>1, <3>1, RecordGenerationType
    <3>3. CanEvaluate(budget')
      BY <2>1, <3>1, <3>2 DEF CanEvaluate
    <3> QED BY <1>6, <3>1, <3>2, <3>3
  <2> QED BY <2>2, <2>3
<1>12. CASE CheckBeforeCall
  <2>1. budget' = CheckBeforeLLMCall(budget, Role, clockOut)
    BY <1>12 DEF CheckBeforeCall
  <2>2. /\ budget' \in Budget /\ budget'.consumed = budget.consumed
        /\ budget'.stop_reason = None
             => CanEvaluate(budget') /\ CanCall(budget')
    BY <1>0, <2>1, LLMCheck
  <2> QED BY <1>6, <1>12, <2>2 DEF CheckBeforeCall, Where, BeforeExpense
<1>13. CASE GenerationComplete
  <2>1. budget' \in Budget /\ budget'.consumed = budget.consumed
    BY <1>0, <1>13, RecordGenerationType
    DEF GenerationComplete, RecordThenEmit
  <2> QED BY <1>6, <1>13, <2>1
          DEF GenerationComplete, RecordThenEmit, Where, BeforeExpense
<1>14. CASE FinishRun
  <2>1. /\ (archive # {}) \in BOOLEAN
        /\ budget' = Finish(budget, archive # {}, clockOut)
    BY <1>14 DEF FinishRun, RecordThenEmit
  <2>2. budget' \in Budget /\ budget'.consumed = budget.consumed
    BY <1>0, <2>1, FinishType
  <2> QED BY <1>6, <1>14, <2>2
          DEF FinishRun, RecordThenEmit, Where, BeforeExpense
<1>15. CASE AbortRun
  <2>1. budget' \in Budget /\ budget'.consumed = budget.consumed
    BY <1>0, <1>15 DEF AbortRun, RecordThenEmit, Budget, STOP_REASONS
  <2> QED BY <1>6, <1>15, <2>1
          DEF AbortRun, RecordThenEmit, Where, BeforeExpense
<1> QED BY <1>1, <1>3, <1>4, <1>5, <1>7, <1>8, <1>9, <1>10, <1>11, <1>12,
           <1>13, <1>14, <1>15 DEF Next, Controller, Thrifty

(***************************************************************************)
(* The invariant, and the theorems.                                        *)
(***************************************************************************)
LEMMA InitInv == Init => IInv
<1> SUFFICES ASSUME Init PROVE IInv
  OBVIOUS
<1>1. /\ budget \in Budget /\ stream \in Stream
      /\ budget.consumed["max_evaluations"] = 0
      /\ budget.consumed["max_llm_calls"] = 0
      /\ budget.stop_reason = None
  BY FreshBudgetType
  DEF Init, Stream, FreshBudget, Meters, EvaluatorMeters, LLMMeters
<1>2. LedgerOK
  <2>1. pending \in Seq(Event)
    BY DEF Init
  <2> QED BY <1>1, <2>1, PCNames DEF Init, LedgerOK
<1>3. EnvOK /\ ProgramsOK /\ manifest \in Manifest
  BY DEF Init, EnvOK, ProgramsOK, Manifest
<1>4. LoopOK
  <2>1. 1 \in 1 .. (NumSeeds + 1) /\ 0 \in 0 .. MaxProposals
    BY Numbers, LoopAssumption
  <2> QED BY <2>1 DEF Init, LoopOK
<1>5. TypeOK
  BY <1>2, <1>3, <1>4, TypeParts, PCNames DEF Init
<1>6. Control
  BY DEF Init, Control, Where, SeedWork, ProposalWork, CandidateWork, AbortPCs
<1>7. Affordable
  BY <1>1, LimitsAssumption
  DEF Init, Affordable, LLMCallsWithinLimit, EvaluationsWithinLimit, Where,
      BeforeExpense
<1> QED BY <1>5, <1>6, <1>7 DEF IInv

LEMMA StutterInv == IInv /\ UNCHANGED vars => IInv'
<1> SUFFICES ASSUME IInv, UNCHANGED vars PROVE IInv'
  OBVIOUS
<1>1. TypeOK'
  <2>1. LedgerOK' /\ EnvOK' /\ ProgramsOK' /\ LoopOK'
    BY TypeParts, Frame DEF IInv, vars
  <2> QED BY <2>1, TypeParts DEF IInv, vars
<1>2. Control' /\ Affordable'
  BY DEF IInv, vars, ledgerVars, envVars, loopVars, Control, Where,
         Affordable, LLMCallsWithinLimit, EvaluationsWithinLimit, CanEvaluate,
         CanCall
<1> QED BY <1>1, <1>2 DEF IInv

LEMMA Invariant == Spec => []IInv
<1>1. Init => IInv
  BY InitInv
<1>2. IInv /\ [Next]_vars => IInv'
  BY TypeStep, ControlStep, AffordableStep, StutterInv DEF IInv
<1> QED BY <1>1, <1>2, PTL DEF Spec

(* Every variable of the controller keeps its type, whatever the seeds, the *)
(* limits, the evaluator, the LLM, the disk and Ctrl+C do.                 *)
THEOREM Typing == Spec => []TypeOK
<1>1. IInv => TypeOK
  BY DEF IInv
<1> QED BY <1>1, Invariant, PTL

(* max_llm_calls is never overrun, although a call of _generate_with_budget *)
(* makes up to llm_max_call_attempts attempts and each of them counts.     *)
THEOREM CallsWithinLimit == Spec => []LLMCallsWithinLimit
<1>1. IInv => LLMCallsWithinLimit
  BY DEF IInv, Affordable
<1> QED BY <1>1, Invariant, PTL

(* max_evaluations is never overrun by seeds and proposals together: the   *)
(* check before an evaluation is never stale when the evaluation is made.  *)
THEOREM EvaluationsWithin == Spec => []EvaluationsWithinLimit
<1>1. IInv => EvaluationsWithinLimit
  BY DEF IInv, Affordable
<1> QED BY <1>1, Invariant, PTL

(* Both limits hold of every run, whatever their values: max_llm_calls and *)
(* max_evaluations are never overrun.                                      *)
THEOREM LimitsHold == Spec => []WithinLimits
BY CallsWithinLimit, EvaluationsWithin, PTL DEF WithinLimits

Frugal ==
  budget.stop_reason # None =>
    /\ budget'.consumed = budget.consumed
    /\ budget'.generations_started = budget.generations_started
    /\ budget'.stop_reason # budget.stop_reason =>
         \/ pc = "policy" /\ StrictPolicy
         \/ budget'.stop_reason = "aborted"

LEMMA FrugalStep ==
  ASSUME IInv, Next
  PROVE  Frugal
<1> SUFFICES ASSUME budget.stop_reason # None PROVE Frugal
  BY DEF Frugal
<1>0. /\ budget \in Budget /\ clockOut \in BOOLEAN
      /\ Control /\ Affordable
  BY DEF IInv, TypeOK
<1>1. CASE budget' = budget
  BY <1>1 DEF Frugal
<1>2. CASE Thrifty
  BY <1>0, <1>1, <1>2, ThriftyStep
<1>3. CASE SeedEvaluate \/ EvaluateCandidate \/ LLMCall
  <2>1. pc \in {"seed_evaluate", "evaluate", "call"}
    BY <1>3 DEF SeedEvaluate, EvaluateCandidate, LLMCall
  <2> QED BY <1>0, <2>1 DEF Affordable, Where, BeforeExpense
<1>4. CASE SeedCheck \/ SeedAdmit \/ Admit
  <2>1. \/ budget' = budget
        \/ budget' = CheckBeforeEvaluation(budget, clockOut)
    BY <1>4 DEF SeedCheck, SeedAdmit, Admit
  <2> QED BY <1>0, <1>1, <2>1, EvaluationCheck
<1>5. CASE InitialProgramPolicy
  <2>1. CASE StrictPolicy
    BY <1>0, <1>5, <2>1 DEF InitialProgramPolicy, Budget, Frugal
  <2>2. CASE ~StrictPolicy
    BY <1>1, <1>5, <2>2 DEF InitialProgramPolicy
  <2> QED BY <2>1, <2>2
<1>6. CASE BeginProposal
  BY <1>6 DEF BeginProposal
<1>7. CASE CheckBeforeCall
  <2>1. budget' = CheckBeforeLLMCall(budget, Role, clockOut)
    BY <1>7 DEF CheckBeforeCall
  <2> QED BY <1>0, <1>1, <2>1, LLMCheck
<1>8. CASE GenerationComplete
  BY <1>0, <1>8, RecordGenerationType
  DEF GenerationComplete, RecordThenEmit, Frugal
<1>9. CASE FinishRun
  <2>1. /\ (archive # {}) \in BOOLEAN
        /\ budget' = Finish(budget, archive # {}, clockOut)
    BY <1>9 DEF FinishRun, RecordThenEmit
  <2> QED BY <1>0, <1>1, <2>1, FinishType
<1>10. CASE AbortRun
  BY <1>0, <1>10 DEF AbortRun, RecordThenEmit, Budget, Frugal
<1> QED BY <1>2, <1>3, <1>4, <1>5, <1>6, <1>7, <1>8, <1>9, <1>10
        DEF Next, Controller, Thrifty

(* A run that has a stop reason counts no further evaluation or call and   *)
(* starts no generation, and only the strict seed policy and an abort      *)
(* replace the reason: no path leads from a failed check to an expense.    *)
THEOREM NoSpendingAfterStop == Spec => NothingSpentAfterStop
<1>1. IInv /\ [Next]_vars => [Frugal]_vars
  BY FrugalStep
<1>2. NothingSpentAfterStop <=> [][Frugal]_vars
  <2>1. Frugal <=>
          (budget.stop_reason # None =>
             /\ budget'.consumed = budget.consumed
             /\ budget'.generations_started = budget.generations_started
             /\ budget'.stop_reason # budget.stop_reason =>
                  \/ pc = "policy" /\ StrictPolicy
                  \/ budget'.stop_reason = "aborted")
    BY DEF Frugal
  <2> QED BY <2>1, PTL DEF NothingSpentAfterStop
<1> QED BY <1>1, <1>2, Invariant, PTL DEF Spec

(***************************************************************************)
(* What is told of candidates: history, failures, archive and cache.       *)
(***************************************************************************)
(* Where the controller stands; an LLM call is not over before its events  *)
(* are appended, whatever is to follow it.                                 *)
Stage ==
  IF pc = "llm_emit" THEN "call"
  ELSE IF pc \in {"emit", "abort_emit"} THEN after ELSE pc

SeedHand == {"seed_admit", "seed_archive_event", "seed_reject", "seed_log"}
ProposalHand == {"admit", "archive_event", "reject", "reward", "log"}
Logged == {"prompt_result", "migrate", "generation_complete"}
Over == Stage \in AbortPCs \cup {"raised"}

(* The candidate in hand. *)
InHand ==
  /\ Stage \in SeedHand =>
       cur.id = nextSeed /\ cur.source = nextSeed /\ ~cur.diffError
  /\ Stage \in ProposalHand \cup {"evaluate"} => cur.id = GeneratedId
  /\ Stage = "evaluate" => cur.source = cur.id
  /\ cur # NoCandidate /\ cur.diffError => ~cur.result.valid
  /\ Stage \in SeedPCs =>
       proposal = 0 /\ \A c \in history : c.id <= NumSeeds

(* No number is ahead of the proposal at hand, and no proposal is told     *)
(* twice.                                                                  *)
ToldOnce ==
  /\ \A c \in history : c.id <= GeneratedId
  /\ \A i \in failures : i <= GeneratedId
  /\ \A c, d \in history : c.id > NumSeeds /\ c.id = d.id => c = d

(* The number of the proposal at hand is in the history once it is logged, *)
(* and in the failures once it is rejected.                                *)
ToldInTime ==
  /\ Stage \notin Logged /\ ~Over => \A c \in history : c.id # GeneratedId
  /\ Stage \in Logged => \E c \in history : c.id = GeneratedId
  /\ Stage \notin Logged \cup {"reward", "log"} /\ ~Over =>
       GeneratedId \notin failures
  /\ Stage \in {"reward", "log"} =>
       (Eligible(cur.result) <=> GeneratedId \notin failures)

ToldRightly ==
  \A c \in history :
    c.id > NumSeeds => (Eligible(c.result) <=> c.id \notin failures)

NoneLost ==
  \A i \in (NumSeeds + 1) .. (NumSeeds + proposal) :
    i \in failures \/ \E c \in history : c.id = i

OnlyEligible == \A c \in archive : ~c.diffError /\ Eligible(c.result)

Told == ToldOnce /\ ToldInTime /\ ToldRightly /\ NoneLost /\ OnlyEligible

Made(c, w) ==
  /\ c # NoCandidate
  /\ c.id = cache[w].source /\ c.source = c.id
  /\ c.ws = w /\ ~c.diffError
  /\ c.result = cache[w].result
FromCache(c) ==
  /\ cache[c.ws] # NoEntry
  /\ c.result = cache[c.ws].result
  /\ c.source = cache[c.ws].source

(* An entry is the verdict on a candidate of the history, or on the one in *)
(* hand.                                                                   *)
Earned ==
  \A w \in Workspaces :
    cache[w] # NoEntry => \E c \in history \cup {cur} : Made(c, w)
EarnedBefore ==
  Stage \notin SeedHand \cup ProposalHand /\ ~Over =>
    \A w \in Workspaces :
      cache[w] # NoEntry => \E c \in history : Made(c, w)

(* A proposal's verdict is that of the cache, which no proposal replaces.  *)
Shared == \A c \in history : c.id > NumSeeds /\ ~c.diffError => FromCache(c)
HandShared == Stage \in ProposalHand /\ ~cur.diffError => FromCache(cur)

Cached == Earned /\ EarnedBefore /\ Shared /\ HandShared

(***************************************************************************)
(* Generations and the stop reason.                                        *)
(***************************************************************************)
Completed ==
  {g \in 1 .. MaxGenerations :
     \E c \in history : c.id = NumSeeds + g * ProposalsPerGeneration}

(* proposal is in the generation that was last begun, or right after it.   *)
Begun ==
  /\ Stage \in SeedPCs \cup {"proposal"} =>
       /\ (budget.generations_started - 1) * ProposalsPerGeneration < proposal
       /\ proposal <= budget.generations_started * ProposalsPerGeneration
  /\ Stage \in ProposalWork =>
       /\ (budget.generations_started - 1) * ProposalsPerGeneration <= proposal
       /\ proposal < budget.generations_started * ProposalsPerGeneration
  /\ Stage \in {"migrate", "generation_complete"} => LastOfGeneration

(* A generation is completed when its last proposal was logged. *)
Counted ==
  ~Over =>
    Cardinality(Completed) =
      budget.generations_completed
        + (IF Stage \in Logged /\ LastOfGeneration THEN 1 ELSE 0)

Generations == Begun /\ Counted

LimitReasons == LimitNames \cup {None}
SeedsRefused == StrictPolicy /\ strictInvalid

(* A limit that is given as the reason is exhausted. *)
LimitTrue ==
  budget.stop_reason \in LimitNames =>
    Exhausted(budget, budget.stop_reason, TRUE, None, clockOut)

(* No call is made for the seeds. *)
SeedsFree == Stage \in SeedPCs => budget.consumed["max_llm_calls"] = 0

(* The reasons there can be before the run is finished. *)
Reasons ==
  /\ Stage \in SeedPCs => budget.stop_reason \in LimitReasons
  /\ Stage \notin {"manifest", "returned"} /\ ~Over =>
       budget.stop_reason \in
         LimitReasons \cup {"no_valid_programs", "invalid_initial_programs"}

NoValidTrue ==
  ~Over /\ budget.stop_reason = "no_valid_programs" =>
    archive = {} /\ Stage \in {"finish", "manifest", "returned"}

RefusalTrue ==
  /\ ~Over /\ Stage \notin SeedPCs =>
       (budget.stop_reason = "invalid_initial_programs" <=> SeedsRefused)
  /\ ~Over /\ budget.stop_reason = "invalid_initial_programs" =>
       /\ Stage \in {"proposal", "finish", "manifest", "returned"}
       /\ budget.consumed["max_llm_calls"] = 0

EndTrue ==
  Stage \in {"manifest", "returned"} =>
    /\ budget.stop_reason \in STOP_REASONS
    /\ budget.stop_reason = "max_generations" <=>
         /\ budget.stop_reason \notin LimitNames /\ archive # {}
         /\ ~SeedsRefused
         /\ budget.generations_completed = MaxGenerations
    /\ budget.stop_reason = "completed" =>
         /\ archive # {}
         /\ \A m \in LimitNames \ {"max_runtime_seconds"} :
              ~Exhausted(budget, m, TRUE, None, clockOut)

Stopped ==
  LimitTrue /\ SeedsFree /\ Reasons /\ NoValidTrue /\ RefusalTrue /\ EndTrue

RInv == InHand /\ Told /\ Cached /\ Generations /\ Stopped

(***************************************************************************)
(* Arithmetic of generations.                                              *)
(***************************************************************************)
LEMMA Cancel ==
  ASSUME NEW p \in Nat \ {0}, NEW a \in Int, NEW b \in Int, a * p < b * p
  PROVE  a < b
<1>1. SUFFICES ASSUME b <= a PROVE FALSE
  OBVIOUS
<1>2. (a - b) * p >= 0
  BY <1>1
<1>3. (a - b) * p = a * p - b * p
  OBVIOUS
<1> QED BY <1>2, <1>3

LEMMA DivMod ==
  ASSUME NEW p \in Nat \ {0}, NEW a \in Nat
  PROVE  /\ a \div p \in Int /\ a % p \in 0 .. (p - 1)
         /\ a = (a \div p) * p + (a % p)
  OBVIOUS

LEMMA ModIs ==
  ASSUME NEW p \in Nat \ {0}, NEW a \in Nat, NEW q \in Int,
         NEW r \in 0 .. (p - 1), a = q * p + r
  PROVE  a % p = r
<1> DEFINE d == a \div p
           m == a % p
<1>1. d \in Int /\ m \in 0 .. (p - 1) /\ a = d * p + m
  BY DivMod
<1> HIDE DEF d, m
<1>2. d * p < (q + 1) * p /\ q * p < (d + 1) * p
  BY <1>1
<1>3. d = q
  BY <1>1, <1>2, Cancel
<1> QED BY <1>1, <1>3 DEF m

(***************************************************************************)
(* The steps.                                                              *)
(***************************************************************************)
(* Where a step that touches no candidate may go. *)
Flow ==
  \/ Stage' = Stage
  \/ Over'
  \/ Stage = "seed_check" /\ Stage' \in {"seed_evaluate", "policy"}
  \/ Stage = "seed_archive_event" /\ Stage' = "seed_reject"
  \/ Stage = "policy" /\ Stage' = "proposal"
  \/ Stage = "proposal" /\ Stage' = "finish"
  \/ Stage = "proposal" /\ Stage' = "generate" /\ BeginProposal
  \/ Stage = "generate" /\ Stage' \in {"deadline", "finish"}
  \/ Stage = "deadline" /\ Stage' \in {"call", "finish"}
  \/ Stage = "call" /\ Stage' \in {"apply", "llm_failure", "finish"}
  \/ Stage = "archive_event" /\ Stage' = "reject"
  \/ Stage = "reward" /\ Stage' = "log"
  \/ Stage = "migrate" /\ Stage' = "generation_complete"
  \/ Stage = "finish" /\ Stage' = "manifest"
  \/ Stage = "manifest" /\ Stage' = "returned"

tellVars == <<cache, archive, history, failures, proposal, nextSeed, cur>>

(* The steps that touch the candidates. *)
Telling ==
  \/ SeedEvaluate \/ SeedAdmit \/ SeedReject \/ SeedLog
  \/ LLMFailure \/ ApplyMutation \/ EvaluateFromCache \/ EvaluateCandidate
  \/ Admit \/ Reject \/ Log \/ PromptResult \/ GenerationComplete

Silent ==
  \/ SeedCheck \/ SeedArchiveEvent \/ InitialProgramPolicy
  \/ LoopEnds \/ BeginProposal \/ CheckBeforeCall \/ CheckDeadline \/ LLMCall
  \/ RaiseFromCandidate \/ ArchiveEvent \/ Reward \/ Migrate
  \/ Emit \/ EmitLLMCalls \/ FinishRun \/ WriteCompletedManifest
  \/ AbortRun \/ EmitAbort \/ WriteAbortedManifest
  \/ ClockExpires \/ Interrupt \/ Terminated \/ UNCHANGED vars

LEMMA StepsAre == [Next]_vars => Silent \/ Telling
  BY DEF Next, Controller, Silent, Telling

LEMMA SilentStep ==
  ASSUME Control, Silent
  PROVE  Flow /\ UNCHANGED tellVars
<1> USE DEF Control, Stage, Over, AbortPCs, tellVars, programVars, loopVars,
            ledgerVars, vars, RecordThenEmit
<1>1. CASE SeedCheck
  BY <1>1 DEF SeedCheck, Flow
<1>2. CASE SeedArchiveEvent
  BY <1>2 DEF SeedArchiveEvent, Durable, Flow
<1>3. CASE InitialProgramPolicy
  BY <1>3 DEF InitialProgramPolicy, Flow
<1>4. CASE LoopEnds
  BY <1>4 DEF LoopEnds, Flow
<1>5. CASE BeginProposal
  BY <1>5 DEF BeginProposal, Flow
<1>6. CASE CheckBeforeCall
  BY <1>6 DEF CheckBeforeCall, Flow
<1>7. CASE CheckDeadline
  BY <1>7 DEF CheckDeadline, Flow
<1>8. CASE LLMCall
  BY <1>8 DEF LLMCall, Flow
<1>9. CASE RaiseFromCandidate
  BY <1>9 DEF RaiseFromCandidate, Flow
<1>10. CASE ArchiveEvent
  BY <1>10 DEF ArchiveEvent, Durable, Flow
<1>11. CASE Reward
  BY <1>11 DEF Reward, Durable, Flow
<1>12. CASE Migrate
  BY <1>12 DEF Migrate, Durable, Flow
<1>13. CASE Emit
  BY <1>13 DEF Emit, EmitFrom, Durable, Flow
<1>14. CASE EmitLLMCalls
  BY <1>14 DEF EmitLLMCalls, EmitFrom, Durable, Flow
<1>15. CASE FinishRun
  BY <1>15 DEF FinishRun, Flow
<1>16. CASE WriteCompletedManifest
  BY <1>16 DEF WriteCompletedManifest, Durable, Flow
<1>17. CASE AbortRun
  BY <1>17 DEF AbortRun, Flow
<1>18. CASE EmitAbort
  BY <1>18 DEF EmitAbort, EmitFrom, Durable, Flow
<1>19. CASE WriteAbortedManifest
  BY <1>19 DEF WriteAbortedManifest, Durable, Flow
<1>20. CASE ClockExpires
  BY <1>20 DEF ClockExpires, Flow
<1>21. CASE Interrupt
  BY <1>21 DEF Interrupt, Flow
<1>22. CASE Terminated
  BY <1>22 DEF Terminated, Flow
<1>23. CASE UNCHANGED vars
  BY <1>23 DEF Flow
<1> QED BY <1>1, <1>2, <1>3, <1>4, <1>5, <1>6, <1>7, <1>8, <1>9, <1>10, <1>11,
           <1>12, <1>13, <1>14, <1>15, <1>16, <1>17, <1>18, <1>19, <1>20,
           <1>21, <1>22, <1>23
        DEF Silent

(* The numbers of the seeds and of the proposals are apart. *)
LEMMA Ids ==
  ASSUME TypeOK
  PROVE  /\ NumSeeds \in Nat /\ proposal \in Nat /\ nextSeed \in Nat
         /\ GeneratedId \in Nat /\ GeneratedId > NumSeeds
         /\ \A c \in Candidate : c.id \in Nat /\ c.source \in Nat
         /\ \A c \in history \cup archive : c \in Candidate
         /\ \A i \in failures : i \in Nat
  BY LoopAssumption, Numbers DEF TypeOK, GeneratedId, Candidate, ProgramIds

LEMMA NotNone ==
  /\ \A c \in Candidate : c # NoCandidate
  /\ \A e \in CacheEntry : e # NoEntry
<1>1. NoCandidate.id = 0 /\ NoEntry.source = 0 /\ 0 \notin ProgramIds
  BY LoopAssumption, Numbers DEF NoCandidate, NoEntry, ProgramIds
<1>2. ASSUME NEW c \in Candidate PROVE c # NoCandidate
  BY <1>1 DEF Candidate
<1>3. ASSUME NEW e \in CacheEntry PROVE e # NoEntry
  BY <1>1 DEF CacheEntry
<1> QED BY <1>2, <1>3

LEMMA InHandQuiet ==
  ASSUME InHand, Flow, UNCHANGED tellVars
  PROVE  InHand'
  BY DEF InHand, Flow, tellVars, Over, AbortPCs, SeedHand, ProposalHand,
         SeedPCs, GeneratedId

LEMMA InHandStep ==
  ASSUME IInv, InHand, Telling
  PROVE  InHand'
<1>0. /\ TypeOK /\ Control
      /\ NumSeeds \in Nat /\ proposal \in Nat /\ nextSeed \in Nat
      /\ cur # NoCandidate => cur \in Candidate
  BY Ids DEF IInv, TypeOK
<1> USE DEF Stage, AbortPCs, SeedHand, ProposalHand, SeedPCs, GeneratedId,
            InHand, programVars, loopVars, ledgerVars, RecordThenEmit
<1>1. CASE SeedEvaluate
  <2>1. PICK w \in Workspaces, r \in Results :
          cur' = [id |-> nextSeed, ws |-> w, diffError |-> FALSE,
                  result |-> r, source |-> nextSeed]
    BY <1>1 DEF SeedEvaluate
  <2>2. cur'.id = nextSeed /\ cur'.source = nextSeed /\ ~cur'.diffError
    BY <2>1
  <2> QED BY <1>1, <2>2 DEF SeedEvaluate
<1>2. CASE SeedAdmit
  BY <1>2 DEF SeedAdmit
<1>3. CASE SeedReject
  BY <1>3 DEF SeedReject, Durable
<1>4. CASE SeedLog
  <2>1. cur.id = nextSeed /\ nextSeed <= NumSeeds /\ proposal = 0
    BY <1>0, <1>4 DEF SeedLog, Control, Where, SeedWork
  <2>2. \A c \in history' : c.id <= NumSeeds
    BY <1>0, <1>4, <2>1 DEF SeedLog
  <2> QED BY <1>4, <2>1, <2>2 DEF SeedLog, Durable
<1>5. CASE LLMFailure
  BY <1>5 DEF LLMFailure
<1>6. CASE ApplyMutation
  <2>1. PICK w \in Workspaces, diffError \in BOOLEAN :
          cur' = [id |-> GeneratedId, ws |-> w, diffError |-> diffError,
                  result |-> DiffErrorResult, source |-> GeneratedId]
    BY <1>6 DEF ApplyMutation
  <2>2. /\ cur'.id = GeneratedId /\ cur'.source = GeneratedId
        /\ ~cur'.result.valid
    BY <2>1, DataAssumption
  <2> QED BY <1>6, <2>2 DEF ApplyMutation
<1>7. CASE EvaluateFromCache
  <2>1. cur \in Candidate
    BY <1>0, <1>7 DEF EvaluateFromCache, Control, Where, CandidateWork
  <2>2. /\ cur'.id = cur.id /\ cur'.diffError = cur.diffError
        /\ ~cur.diffError
    BY <1>7, <2>1 DEF EvaluateFromCache, EvaluationCacheLookup, Candidate
  <2> QED BY <1>7, <2>2 DEF EvaluateFromCache
<1>8. CASE EvaluateCandidate
  <2>1. cur \in Candidate
    BY <1>0, <1>8 DEF EvaluateCandidate, Control, Where, CandidateWork
  <2>2. /\ cur'.id = cur.id /\ cur'.diffError = cur.diffError
        /\ cur.diffError => ~cur'.result.valid
    BY <1>8, <2>1, DataAssumption DEF EvaluateCandidate, Candidate
  <2> QED BY <1>8, <2>2 DEF EvaluateCandidate
<1>9. CASE Admit
  BY <1>9 DEF Admit
<1>10. CASE Reject
  BY <1>10 DEF Reject, Durable
<1>11. CASE Log
  BY <1>11 DEF Log, Durable
<1>12. CASE PromptResult
  BY <1>12 DEF PromptResult, Durable
<1>13. CASE GenerationComplete
  BY <1>13 DEF GenerationComplete
<1> QED BY <1>1, <1>2, <1>3, <1>4, <1>5, <1>6, <1>7, <1>8, <1>9, <1>10, <1>11,
           <1>12, <1>13
        DEF Telling

LEMMA ToldQuiet ==
  ASSUME Told, Flow, UNCHANGED tellVars
  PROVE  Told'
<1> USE DEF Flow, tellVars, Over, AbortPCs, Logged, GeneratedId, Eligible
<1>1. ToldOnce' /\ ToldRightly' /\ NoneLost' /\ OnlyEligible'
  BY DEF Told, ToldOnce, ToldRightly, NoneLost, OnlyEligible
<1>2. /\ Stage' \notin Logged /\ ~Over' => Stage \notin Logged /\ ~Over
      /\ Stage' \in Logged => Stage \in Logged
      /\ Stage' \notin Logged \cup {"reward", "log"} /\ ~Over'
           => Stage \notin Logged \cup {"reward", "log"} /\ ~Over
      /\ Stage' \in {"reward", "log"} => Stage \in {"reward", "log"}
  OBVIOUS
<1>3. ToldInTime'
  BY <1>2 DEF Told, ToldInTime
<1> QED BY <1>1, <1>3 DEF Told

(* Nothing told, and no move that has to be. *)
LEMMA ToldStill ==
  ASSUME Told, UNCHANGED <<history, failures, proposal>>, OnlyEligible',
         Stage \notin Logged \cup {"reward", "log"}, ~Over,
         Stage' \notin Logged \cup {"reward", "log"}
  PROVE  Told'
<1>1. ToldOnce' /\ ToldRightly' /\ NoneLost'
  BY DEF Told, ToldOnce, ToldRightly, NoneLost, GeneratedId
<1>2. ToldInTime'
  BY DEF Told, ToldInTime, GeneratedId, Logged
<1> QED BY <1>1, <1>2 DEF Told

LEMMA ArchiveStill == OnlyEligible /\ archive' = archive => OnlyEligible'
  BY DEF OnlyEligible, Eligible

LEMMA ArchivedEligible ==
  ASSUME InHand, Told, cur \in Candidate, archive' \in Admissions(cur)
  PROVE  OnlyEligible'
<1>1. Eligible(cur.result) => ~cur.diffError
  <2>1. cur # NoCandidate
    BY NotNone
  <2> QED BY <2>1 DEF InHand, Eligible
<1>2. \/ archive' \subseteq archive
      \/ Eligible(cur.result) /\ archive' \subseteq archive \cup {cur}
  <2>1. CASE ~Eligible(cur.result)
    BY <2>1 DEF Admissions
  <2>2. CASE Eligible(cur.result) /\ archive' # archive
    <3>1. PICK displaced \in SUBSET archive :
            archive' = (archive \ displaced) \cup {cur}
      BY <2>2 DEF Admissions
    <3> QED BY <2>2, <3>1
  <2> QED BY <2>1, <2>2
<1> QED BY <1>1, <1>2 DEF Told, OnlyEligible

LEMMA ToldOnceStill ==
  ASSUME TypeOK, ToldOnce, history' = history,
         proposal' = proposal \/ proposal' = proposal + 1,
         NEW n \in Nat, n <= GeneratedId,
         failures' \subseteq failures \cup {n}
  PROVE  ToldOnce'
<1>1. /\ GeneratedId \in Nat /\ GeneratedId' \in Nat
      /\ GeneratedId <= GeneratedId'
  BY Ids DEF GeneratedId
<1>2. ASSUME NEW c \in history' PROVE c.id <= GeneratedId'
  BY <1>1, Ids DEF ToldOnce
<1>3. ASSUME NEW i \in failures' PROVE i <= GeneratedId'
  <2>1. i \in Nat /\ i <= GeneratedId
    BY Ids DEF ToldOnce
  <2> QED BY <1>1, <2>1
<1>4. \A c, d \in history' : c.id > NumSeeds /\ c.id = d.id => c = d
  BY DEF ToldOnce
<1> QED BY <1>2, <1>3, <1>4 DEF ToldOnce

LEMMA ToldStep ==
  ASSUME IInv, InHand, Told, Telling
  PROVE  Told'
<1>0. /\ TypeOK /\ Control
      /\ NumSeeds \in Nat /\ proposal \in Nat /\ nextSeed \in Nat
      /\ cur # NoCandidate => cur \in Candidate
      /\ cur \in Candidate => cur # NoCandidate
      /\ \A c \in history : c.id \in Nat
      /\ failures \subseteq Nat
  BY Ids, NotNone DEF IInv, TypeOK
<1> USE DEF Over, AbortPCs, SeedHand, ProposalHand, SeedPCs, GeneratedId,
            Logged, programVars, loopVars, ledgerVars, RecordThenEmit
<1>1. CASE SeedEvaluate \/ ApplyMutation \/ EvaluateFromCache
             \/ EvaluateCandidate
  <2>1. /\ Stage \notin Logged \cup {"reward", "log"} /\ ~Over
        /\ Stage' \notin Logged \cup {"reward", "log"}
        /\ UNCHANGED <<history, failures, proposal, archive>>
    BY <1>1 DEF SeedEvaluate, ApplyMutation, EvaluateFromCache,
                EvaluateCandidate, Stage
  <2>2. OnlyEligible'
    BY <2>1 DEF Told, OnlyEligible
  <2> QED BY <2>1, <2>2, ToldStill
<1>2. CASE SeedAdmit \/ Admit
  <2>1. /\ Stage \notin Logged \cup {"reward", "log"} /\ ~Over
        /\ Stage' \notin Logged \cup {"reward", "log"}
        /\ UNCHANGED <<history, failures, proposal>>
        /\ archive' \in Admissions(cur)
    BY <1>2 DEF SeedAdmit, Admit, Stage
  <2>2. cur \in Candidate
    BY <1>0, <1>2 DEF SeedAdmit, Admit, Control, Where, CandidateWork
  <2>3. OnlyEligible'
    BY <2>1, <2>2, ArchivedEligible
  <2> QED BY <2>1, <2>3, ToldStill
<1>3. CASE SeedReject
  <2>1. cur.id <= NumSeeds /\ cur.id \in Nat
    BY <1>0, <1>3 DEF SeedReject, InHand, Stage, Control, Where, SeedWork
  <2>2. /\ Stage = "seed_reject" /\ Stage' \in {"seed_log", "abort"}
        /\ UNCHANGED <<history, proposal, archive>>
        /\ failures' = failures \/ failures' = failures \cup {cur.id}
    BY <1>3 DEF SeedReject, Durable, Stage
  <2>3. ToldOnce'
    <3>1. cur.id <= GeneratedId /\ failures' \subseteq failures \cup {cur.id}
      BY <1>0, <2>1, <2>2
    <3> QED BY <1>0, <2>1, <2>2, <3>1, ToldOnceStill DEF Told
  <2>4. ToldInTime'
    BY <1>0, <2>1, <2>2 DEF Told, ToldInTime
  <2>5. ToldRightly'
    BY <1>0, <2>1, <2>2 DEF Told, ToldRightly
  <2>6. NoneLost'
    BY <1>0, <2>1, <2>2 DEF Told, NoneLost
  <2>7. OnlyEligible'
    BY <2>2, ArchiveStill DEF Told
  <2> QED BY <2>3, <2>4, <2>5, <2>6, <2>7 DEF Told
<1>4. CASE SeedLog
  <2>1. cur.id <= NumSeeds /\ cur.id \in Nat
    BY <1>0, <1>4 DEF SeedLog, InHand, Stage, Control, Where, SeedWork
  <2>2. /\ Stage = "seed_log" /\ Stage' \in {"seed_check", "abort"}
        /\ UNCHANGED <<failures, proposal, archive>>
        /\ history' = history \/ history' = history \cup {cur}
    BY <1>4 DEF SeedLog, Durable, Stage
  <2>3. ToldOnce'
    BY <1>0, <2>1, <2>2 DEF Told, ToldOnce
  <2>4. ToldInTime'
    BY <1>0, <2>1, <2>2 DEF Told, ToldInTime
  <2>5. ToldRightly'
    BY <1>0, <2>1, <2>2 DEF Told, ToldRightly
  <2>6. NoneLost'
    BY <1>0, <2>1, <2>2 DEF Told, NoneLost
  <2>7. OnlyEligible'
    BY <2>2, ArchiveStill DEF Told
  <2> QED BY <2>3, <2>4, <2>5, <2>6, <2>7 DEF Told
<1>5. CASE LLMFailure
  <2>1. /\ Stage = "llm_failure" /\ UNCHANGED <<history, archive>>
        /\ \/ /\ Stage' = "proposal" /\ proposal' = proposal + 1
              /\ failures' = failures \cup {GeneratedId}
           \/ /\ Stage' = "abort" /\ proposal' = proposal
              /\ failures' = failures
           \/ /\ Stage' = "abort" /\ proposal' = proposal
              /\ failures' = failures \cup {GeneratedId}
    BY <1>5 DEF LLMFailure, Stage, WriteOutcomes
  <2>2. \A c \in history : c.id # GeneratedId
    BY <2>1 DEF Told, ToldInTime
  <2>3. ToldOnce'
    <3>1. GeneratedId \in Nat /\ failures' \subseteq failures \cup {GeneratedId}
      BY <1>0, <2>1, <2>2
    <3> QED BY <1>0, <2>1, <3>1, ToldOnceStill DEF Told
  <2>4. ToldInTime'
    BY <1>0, <2>1 DEF Told, ToldInTime, ToldOnce
  <2>5. ToldRightly'
    BY <1>0, <2>1, <2>2 DEF Told, ToldRightly
  <2>6. NoneLost'
    BY <1>0, <2>1 DEF Told, NoneLost
  <2>7. OnlyEligible'
    BY <2>1, ArchiveStill DEF Told
  <2> QED BY <2>3, <2>4, <2>5, <2>6, <2>7 DEF Told
<1>6. CASE Reject
  <2>1. /\ Stage = "reject" /\ UNCHANGED <<history, archive, proposal, cur>>
        /\ \/ /\ Stage' = "reward" /\ Eligible(cur.result)
              /\ failures' = failures
           \/ /\ Stage' = "reward" /\ ~Eligible(cur.result)
              /\ failures' = failures \cup {cur.id}
           \/ Stage' = "abort" /\ failures' = failures
           \/ Stage' = "abort" /\ failures' = failures \cup {cur.id}
    BY <1>6 DEF Reject, Durable, Stage, WriteOutcomes
  <2>2. /\ cur.id = GeneratedId /\ \A c \in history : c.id # GeneratedId
        /\ GeneratedId \notin failures
        /\ Eligible(cur.result)' = Eligible(cur.result)
    BY <2>1 DEF InHand, Told, ToldInTime, Eligible
  <2>3. ToldOnce'
    <3>1. GeneratedId \in Nat /\ failures' \subseteq failures \cup {GeneratedId}
      BY <1>0, <2>1, <2>2
    <3> QED BY <1>0, <2>1, <3>1, ToldOnceStill DEF Told
  <2>4. ToldInTime'
    BY <1>0, <2>1, <2>2 DEF Told, ToldInTime
  <2>5. ToldRightly'
    BY <1>0, <2>1, <2>2 DEF Told, ToldRightly
  <2>6. NoneLost'
    BY <1>0, <2>1 DEF Told, NoneLost
  <2>7. OnlyEligible'
    BY <2>1, ArchiveStill DEF Told
  <2> QED BY <2>3, <2>4, <2>5, <2>6, <2>7 DEF Told
<1>7. CASE Log
  <2>1. /\ Stage = "log" /\ UNCHANGED <<failures, archive, proposal, cur>>
        /\ \/ Stage' = "prompt_result" /\ history' = history \cup {cur}
           \/ Stage' = "abort" /\ history' = history
           \/ Stage' = "abort" /\ history' = history \cup {cur}
    BY <1>7 DEF Log, Durable, Stage, WriteOutcomes
  <2>2. /\ cur.id = GeneratedId /\ \A c \in history : c.id # GeneratedId
        /\ Eligible(cur.result) <=> GeneratedId \notin failures
    BY <2>1 DEF InHand, Told, ToldInTime
  <2>3. ToldOnce'
    BY <1>0, <2>1, <2>2 DEF Told, ToldOnce
  <2>4. ToldInTime'
    BY <1>0, <2>1, <2>2 DEF Told, ToldInTime
  <2>5. ToldRightly'
    BY <1>0, <2>1, <2>2 DEF Told, ToldRightly
  <2>6. NoneLost'
    BY <1>0, <2>1 DEF Told, NoneLost
  <2>7. OnlyEligible'
    BY <2>1, ArchiveStill DEF Told
  <2> QED BY <2>3, <2>4, <2>5, <2>6, <2>7 DEF Told
<1>8. CASE PromptResult \/ GenerationComplete
  <2>1. /\ Stage \in Logged /\ UNCHANGED <<history, failures, archive>>
        /\ \/ Stage' = "migrate" /\ proposal' = proposal
           \/ Stage' = "proposal" /\ proposal' = proposal + 1
           \/ Stage' = "abort" /\ proposal' = proposal
    BY <1>8 DEF PromptResult, GenerationComplete, Durable, Stage,
                WriteOutcomes
  <2>2. \E c \in history : c.id = GeneratedId
    BY <2>1 DEF Told, ToldInTime
  <2>3. ToldOnce'
    <3>1. GeneratedId \in Nat /\ failures' \subseteq failures \cup {GeneratedId}
      BY <1>0, <2>1, <2>2
    <3> QED BY <1>0, <2>1, <3>1, ToldOnceStill DEF Told
  <2>4. ToldInTime'
    BY <1>0, <2>1, <2>2 DEF Told, ToldInTime, ToldOnce
  <2>5. ToldRightly'
    BY <1>0, <2>1 DEF Told, ToldRightly
  <2>6. NoneLost'
    BY <1>0, <2>1, <2>2 DEF Told, NoneLost
  <2>7. OnlyEligible'
    BY <2>1, ArchiveStill DEF Told
  <2> QED BY <2>3, <2>4, <2>5, <2>6, <2>7 DEF Told
<1> QED BY <1>1, <1>2, <1>3, <1>4, <1>5, <1>6, <1>7, <1>8 DEF Telling

LEMMA CachedQuiet ==
  ASSUME Cached, Flow, UNCHANGED tellVars
  PROVE  Cached'
<1> USE DEF Flow, tellVars, Over, AbortPCs, SeedHand, ProposalHand
<1>1. Earned' /\ Shared'
  BY DEF Cached, Earned, Shared, Made, FromCache
<1>2. EarnedBefore'
  BY DEF Cached, EarnedBefore, Made
<1>3. HandShared'
  BY DEF Cached, HandShared, FromCache
<1> QED BY <1>1, <1>2, <1>3 DEF Cached

(* With the cache as it was, and a history that keeps its candidates, only *)
(* the new ones and the one in hand have to be looked at.                  *)
LEMMA CachedStill ==
  ASSUME Cached, cache' = cache, history' = history,
         \/ cur' = cur
         \/ Stage \notin SeedHand \cup ProposalHand /\ ~Over,
         \/ Stage' \in SeedHand \cup ProposalHand \/ Over'
         \/ Stage \notin SeedHand \cup ProposalHand /\ ~Over,
         HandShared'
  PROVE  Cached'
<1>1. Shared'
  BY DEF Cached, Shared, FromCache
<1>2. Earned'
  BY DEF Cached, Earned, EarnedBefore, Made
<1>3. EarnedBefore'
  BY DEF Cached, EarnedBefore, Made
<1> QED BY <1>1, <1>2, <1>3 DEF Cached

(* A verdict stored for the candidate in hand. *)
LEMMA CachedStore ==
  ASSUME TypeOK, Cached, history' = history, cur' \in Candidate,
         Stage \notin SeedHand \cup ProposalHand, ~Over,
         Stage' \in SeedHand \cup ProposalHand,
         cur'.source = cur'.id,
         cache' = StoreEvaluation(cur'),
         \A c \in history :
           /\ c.id > NumSeeds /\ ~c.diffError
           /\ ~cur'.diffError
           => c.ws # cur'.ws
  PROVE  Cached'
<1>0. /\ cache \in [Workspaces -> CacheEntry \cup {NoEntry}]
      /\ cur'.ws \in Workspaces /\ cur'.result \in Result
      /\ cur'.source \in ProgramIds /\ cur' # NoCandidate
      /\ \A c \in history : c.ws \in Workspaces
  BY NotNone DEF TypeOK, Candidate
<1> DEFINE e == [result |-> cur'.result, source |-> cur'.source]
<1>1. e \in CacheEntry /\ e # NoEntry
  <2>1. e \in CacheEntry
    BY <1>0 DEF CacheEntry
  <2> QED BY <2>1, NotNone
<1>2. /\ cur'.diffError => cache' = cache
      /\ ~cur'.diffError =>
           /\ cache'[cur'.ws] = e
           /\ \A w \in Workspaces \ {cur'.ws} : cache'[w] = cache[w]
  BY <1>0 DEF StoreEvaluation
<1>3. e.result = cur'.result /\ e.source = cur'.source
  OBVIOUS
<1> HIDE DEF e
<1>4. EarnedBefore'
  BY DEF Over, AbortPCs, SeedHand, ProposalHand, EarnedBefore
<1>5. ASSUME NEW w \in Workspaces, cache'[w] # NoEntry
      PROVE  \E c \in history' \cup {cur'} : Made(c, w)'
  <2>1. CASE ~cur'.diffError /\ w = cur'.ws
    <3>1. Made(cur, w)'
      BY <1>0, <1>2, <1>3, <2>1 DEF Made
    <3> QED BY <3>1
  <2>2. CASE cur'.diffError \/ w # cur'.ws
    <3>1. cache'[w] = cache[w]
      BY <1>2, <2>2
    <3>2. PICK c \in history : Made(c, w)
      BY <1>5, <3>1 DEF Cached, EarnedBefore
    <3>3. Made(c, w)'
      BY <3>1, <3>2 DEF Made
    <3> QED BY <3>2, <3>3
  <2> QED BY <2>1, <2>2
<1>6. Earned'
  BY <1>5 DEF Earned
<1>7. Shared'
  <2>1. ASSUME NEW c \in history', c.id > NumSeeds, ~c.diffError
        PROVE  FromCache(c)'
    <3>1. FromCache(c) /\ c.ws \in Workspaces
      BY <1>0, <2>1 DEF Cached, Shared
    <3>2. cache'[c.ws] = cache[c.ws]
      BY <1>2, <2>1, <3>1
    <3> QED BY <3>1, <3>2 DEF FromCache
  <2> QED BY <2>1 DEF Shared
<1>8. HandShared'
  BY <1>0, <1>1, <1>2, <1>3 DEF HandShared, FromCache
<1> QED BY <1>4, <1>6, <1>7, <1>8 DEF Cached

(* The candidate in hand joins the history. *)
LEMMA CachedLog ==
  ASSUME Cached, UNCHANGED <<cache, cur>>,
         \/ history' = history /\ Over'
         \/ history' = history \cup {cur},
         Stage \in SeedHand \cup ProposalHand,
         Stage' \notin SeedHand \cup ProposalHand,
         cur.id > NumSeeds => Stage \in ProposalHand
  PROVE  Cached'
<1>1. Earned' /\ EarnedBefore'
  BY DEF Cached, Earned, EarnedBefore, Made
<1>2. Shared'
  BY DEF Cached, Shared, HandShared, FromCache
<1>3. HandShared'
  BY DEF HandShared
<1> QED BY <1>1, <1>2, <1>3 DEF Cached

LEMMA CachedStep ==
  ASSUME IInv, InHand, Cached, Telling
  PROVE  Cached'
<1>0. /\ TypeOK /\ Control
      /\ NumSeeds \in Nat /\ proposal \in Nat /\ nextSeed \in Nat
      /\ cur # NoCandidate => cur \in Candidate
      /\ cur' \in Candidate => cur' # NoCandidate
  BY Ids, NotNone DEF IInv, TypeOK
<1> USE DEF Over, AbortPCs, SeedHand, ProposalHand, programVars, loopVars,
            ledgerVars, RecordThenEmit
<1>1. CASE SeedEvaluate
  <2>1. PICK w \in Workspaces, r \in Results :
          /\ cur' = [id |-> nextSeed, ws |-> w, diffError |-> FALSE,
                     result |-> r, source |-> nextSeed]
          /\ cache' = StoreEvaluation(cur')
    BY <1>1 DEF SeedEvaluate
  <2>2. cur' \in Candidate
    BY <1>0, <1>1, CandidateMade
  <2>3. /\ cur'.source = cur'.id
        /\ Stage = "seed_evaluate" /\ Stage' = "seed_admit"
        /\ history' = history
    BY <1>1, <2>1 DEF SeedEvaluate, Stage
  <2>4. \A c \in history : ~(c.id > NumSeeds)
    BY <1>0, <2>3, Ids DEF InHand, SeedPCs
  <2> QED BY <1>0, <2>1, <2>2, <2>3, <2>4, CachedStore
<1>2. CASE SeedAdmit \/ SeedReject
  BY <1>2, CachedStill DEF SeedAdmit, SeedReject, Durable, Stage, HandShared
<1>3. CASE SeedLog
  <2>1. /\ Stage = "seed_log" /\ Stage' \in {"seed_check", "abort"}
        /\ UNCHANGED <<cache, cur>>
        /\ \/ history' = history \cup {cur}
           \/ history' = history /\ Stage' = "abort"
    BY <1>3 DEF SeedLog, Durable, Stage, WriteOutcomes
  <2>2. ~(cur.id > NumSeeds)
    BY <1>0, <1>3, <2>1 DEF InHand, Control, Where, SeedWork, SeedLog
  <2> QED BY <2>1, <2>2, CachedLog
<1>4. CASE LLMFailure
  BY <1>4, CachedStill DEF LLMFailure, Stage, HandShared
<1>5. CASE ApplyMutation
  BY <1>5, CachedStill DEF ApplyMutation, Stage, HandShared
<1>6. CASE EvaluateFromCache
  <2>1. cur \in Candidate /\ cur' \in Candidate
    BY <1>0, <1>6, CandidateMade
    DEF EvaluateFromCache, Control, Where, CandidateWork
  <2>2. /\ ~cur.diffError
        /\ cache[cur.ws] # NoEntry
        /\ cur' = [cur EXCEPT !.result = cache[cur.ws].result,
                              !.source = cache[cur.ws].source]
    BY <1>6 DEF EvaluateFromCache, EvaluationCacheLookup
  <2>3. /\ cur'.ws = cur.ws /\ cur'.result = cache[cur.ws].result
        /\ cur'.source = cache[cur.ws].source
    BY <2>1, <2>2 DEF Candidate
  <2>4. /\ Stage = "evaluate" /\ Stage' = "admit"
        /\ cache' = cache /\ history' = history
    BY <1>6 DEF EvaluateFromCache, Stage
  <2>5. HandShared'
    BY <2>2, <2>3, <2>4 DEF HandShared, FromCache
  <2> QED BY <2>4, <2>5, CachedStill
<1>7. CASE EvaluateCandidate
  <2>1. cur \in Candidate /\ cur' \in Candidate
    BY <1>0, <1>7, CandidateMade
    DEF EvaluateCandidate, Control, Where, CandidateWork
  <2>2. PICK r \in Results \cup {DiffErrorResult} :
          cur' = [cur EXCEPT !.result = r]
    BY <1>7 DEF EvaluateCandidate
  <2>3. /\ Stage = "evaluate" /\ Stage' = "admit"
        /\ cache' = StoreEvaluation(cur') /\ history' = history
        /\ ~cur.diffError => cache[cur.ws] = NoEntry
    BY <1>7 DEF EvaluateCandidate, EvaluationCacheLookup, Stage
  <2>4. /\ cur'.id = cur.id /\ cur'.source = cur.source /\ cur'.ws = cur.ws
        /\ cur'.diffError = cur.diffError
    BY <2>1, <2>2 DEF Candidate
  <2>5. cur'.source = cur'.id
    BY <2>3, <2>4 DEF InHand
  <2>6. \A c \in history :
          c.id > NumSeeds /\ ~c.diffError /\ ~cur'.diffError
            => c.ws # cur'.ws
    BY <2>3, <2>4 DEF Cached, Shared, FromCache
  <2> QED BY <1>0, <2>1, <2>3, <2>5, <2>6, CachedStore
<1>8. CASE Admit \/ Reject
  BY <1>8, CachedStill
  DEF Admit, Reject, Durable, Stage, HandShared, Cached, FromCache
<1>9. CASE Log
  <2>1. /\ Stage = "log" /\ Stage' \in {"prompt_result", "abort"}
        /\ UNCHANGED <<cache, cur>>
        /\ \/ history' = history \cup {cur}
           \/ history' = history /\ Stage' = "abort"
    BY <1>9 DEF Log, Durable, Stage, WriteOutcomes
  <2> QED BY <2>1, CachedLog
<1>10. CASE PromptResult \/ GenerationComplete
  BY <1>10, CachedStill
  DEF PromptResult, GenerationComplete, Durable, Stage, HandShared
<1> QED BY <1>1, <1>2, <1>3, <1>4, <1>5, <1>6, <1>7, <1>8, <1>9, <1>10
        DEF Telling

(* The counts of generations change where generations begin and end. *)
LEMMA CheckKeepsCounts ==
  ASSUME NEW b \in Budget, NEW includeLLM \in BOOLEAN, NEW role,
         NEW late \in BOOLEAN
  PROVE  LET c == CheckLimits(b, includeLLM, role, late) IN
         /\ c.generations_started = b.generations_started
         /\ c.generations_completed = b.generations_completed
         /\ c.consumed = b.consumed /\ c.byRole = b.byRole
  BY DEF CheckLimits, Budget

LEMMA RecordKeepsCounts ==
  ASSUME NEW b \in Budget
  PROVE  /\ \A seed, acc :
              LET c == RecordEvaluation(b, seed, acc) IN
              /\ c.generations_started = b.generations_started
              /\ c.generations_completed = b.generations_completed
         /\ \A role, calls, records, usage :
              LET c == RecordLLMCalls(b, role, calls, records, usage) IN
              /\ c.generations_started = b.generations_started
              /\ c.generations_completed = b.generations_completed
<1>1. ASSUME NEW x, NEW y, NEW z
      PROVE  /\ [b EXCEPT !.consumed = x, !.seed_evaluations = y,
                          !.candidate_evaluations = z].generations_started
                  = b.generations_started
             /\ [b EXCEPT !.consumed = x, !.seed_evaluations = y,
                          !.candidate_evaluations = z].generations_completed
                  = b.generations_completed
             /\ [b EXCEPT !.consumed = x, !.byRole = y].generations_started
                  = b.generations_started
             /\ [b EXCEPT !.consumed = x, !.byRole = y].generations_completed
                  = b.generations_completed
  BY DEF Budget
<1>2. ASSUME NEW seed, NEW acc
      PROVE  LET c == RecordEvaluation(b, seed, acc) IN
             /\ c.generations_started = b.generations_started
             /\ c.generations_completed = b.generations_completed
  <2> DEFINE x == [m \in Meters |->
                     CASE m = "max_evaluations" -> b.consumed[m] + 1
                       [] m \in EvaluatorMeters \ {"max_evaluations"}
                            -> b.consumed[m] + acc[m]
                       [] OTHER -> b.consumed[m]]
             y == IF seed THEN b.seed_evaluations + 1 ELSE b.seed_evaluations
             z == IF seed THEN b.candidate_evaluations
                          ELSE b.candidate_evaluations + 1
  <2>1. RecordEvaluation(b, seed, acc) =
          [b EXCEPT !.consumed = x, !.seed_evaluations = y,
                    !.candidate_evaluations = z]
    BY DEF RecordEvaluation
  <2> HIDE DEF x, y, z
  <2> QED BY <1>1, <2>1
<1>3. ASSUME NEW role, NEW calls, NEW records, NEW usage
      PROVE  LET c == RecordLLMCalls(b, role, calls, records, usage) IN
             /\ c.generations_started = b.generations_started
             /\ c.generations_completed = b.generations_completed
  <2> DEFINE x == [m \in Meters |->
                     CASE m = "max_llm_calls" -> b.consumed[m] + calls
                       [] m \in LLMMeters \ {"max_llm_calls"}
                            -> b.consumed[m] + records * usage[m]
                       [] OTHER -> b.consumed[m]]
             y == [m \in RoleMeters |->
                     [r \in Roles |->
                        IF r = role
                        THEN b.byRole[m][r] + records * usage[RunMeter[m]]
                        ELSE b.byRole[m][r]]]
  <2>1. RecordLLMCalls(b, role, calls, records, usage) =
          [b EXCEPT !.consumed = x, !.byRole = y]
    BY DEF RecordLLMCalls
  <2> HIDE DEF x, y
  <2> QED BY <1>1, <2>1
<1> QED BY <1>2, <1>3

SameCounts ==
  /\ budget'.generations_started = budget.generations_started
  /\ budget'.generations_completed = budget.generations_completed

LEMMA CountsStep ==
  ASSUME IInv, Silent \/ Telling
  PROVE  BeginProposal \/ GenerationComplete \/ SameCounts
<1>0. budget \in Budget /\ clockOut \in BOOLEAN /\ Control
  BY DEF IInv, TypeOK
<1>1. CASE budget' = budget
  BY <1>1 DEF SameCounts
<1>2. CASE SeedCheck \/ SeedAdmit \/ Admit \/ CheckBeforeCall
  <2>1. \/ budget' = budget
        \/ \E includeLLM \in BOOLEAN, role \in {None, Role} :
             budget' = CheckLimits(budget, includeLLM, role, clockOut)
    BY <1>2 DEF SeedCheck, SeedAdmit, Admit, CheckBeforeCall,
                CheckBeforeEvaluation, CheckBeforeLLMCall
  <2> QED BY <1>0, <1>1, <2>1, CheckKeepsCounts DEF SameCounts
<1>3. CASE SeedEvaluate \/ EvaluateCandidate
  <2>1. \E seed, acc : budget' = RecordEvaluation(budget, seed, acc)
    BY <1>3 DEF SeedEvaluate, EvaluateCandidate, RecordThenEmit
  <2> QED BY <1>0, <2>1, RecordKeepsCounts DEF SameCounts
<1>4. CASE LLMCall
  <2>1. \E role, calls, records, usage :
          budget' = RecordLLMCalls(budget, role, calls, records, usage)
    <3>1. PICK n \in 0 .. CallAttempts, kept \in 0 .. MaxCallAttempts,
               u \in Usages : \E next \in CallOutcomes(n) :
            RecordThenEmit(
              RecordLLMCalls(budget, Role, IF n = 0 THEN 1 ELSE n, kept, u),
              LLMBudgetEvents(IF n = 0 THEN 1 ELSE n, kept, u), next)
      BY <1>4 DEF LLMCall
    <3>2. budget' = RecordLLMCalls(budget, Role, IF n = 0 THEN 1 ELSE n, kept,
                                   u)
      BY <3>1 DEF RecordThenEmit
    <3> QED BY <3>2
  <2> QED BY <1>0, <2>1, RecordKeepsCounts DEF SameCounts
<1>5. CASE InitialProgramPolicy \/ AbortRun
  BY <1>0, <1>5
  DEF InitialProgramPolicy, AbortRun, RecordThenEmit, Budget, SameCounts
<1>6. CASE FinishRun
  <2> DEFINE c == CheckLimits(budget, TRUE, None, clockOut)
  <2>1. /\ c \in Budget
        /\ c.generations_started = budget.generations_started
        /\ c.generations_completed = budget.generations_completed
    <3>1. c \in Budget
      BY <1>0, CheckLimitsType
    <3> QED BY <1>0, <3>1, CheckKeepsCounts
  <2>2. \/ budget' = c
        \/ \E reason : budget' = [c EXCEPT !.stop_reason = reason]
    BY <1>6 DEF FinishRun, RecordThenEmit, Finish
  <2> HIDE DEF c
  <2> QED BY <2>1, <2>2 DEF Budget, SameCounts
<1>7. CASE Thrifty \/ UNCHANGED vars
  BY <1>0, <1>1, <1>7, ThriftyStep DEF vars, ledgerVars
<1> QED BY <1>2, <1>3, <1>4, <1>5, <1>6, <1>7 DEF Silent, Telling, Thrifty

LEMMA CompletedType ==
  /\ IsFiniteSet(Completed)
  /\ Cardinality(Completed) \in 0 .. MaxGenerations
<1>1. /\ IsFiniteSet(1 .. MaxGenerations)
      /\ Cardinality(1 .. MaxGenerations) = MaxGenerations
  BY FS_Interval, MaxGenerationsAssumption
<1>2. Completed \subseteq 1 .. MaxGenerations
  BY DEF Completed
<1>3. /\ IsFiniteSet(Completed)
      /\ Cardinality(Completed) <= Cardinality(1 .. MaxGenerations)
  BY <1>1, <1>2, FS_Subset
<1> QED BY <1>1, <1>3, FS_CardinalityType, MaxGenerationsAssumption

(* While a proposal is under way, it is the last of its generation exactly *)
(* when the next generation would begin right after it.                    *)
LEMMA LastIs ==
  ASSUME TypeOK, NEW g \in Int,
         (g - 1) * ProposalsPerGeneration <= proposal,
         proposal < g * ProposalsPerGeneration
  PROVE  /\ LastOfGeneration <=> proposal + 1 = g * ProposalsPerGeneration
         /\ FirstOfGeneration <=> proposal = (g - 1) * ProposalsPerGeneration
         /\ \A h \in Int : proposal + 1 = h * ProposalsPerGeneration => h = g
<1> DEFINE p == ProposalsPerGeneration
           r == proposal - (g - 1) * p
<1>1. p \in Nat \ {0} /\ proposal \in Nat
  BY LoopAssumption, Ids
<1>2. g * p = (g - 1) * p + p /\ g * p \in Int /\ (g - 1) * p \in Int
  BY <1>1
<1>3. r \in 0 .. (p - 1) /\ proposal = (g - 1) * p + r
  BY <1>1, <1>2
<1>4. proposal % p = r
  <2>1. g - 1 \in Int
    OBVIOUS
  <2> HIDE DEF p, r
  <2> QED BY <1>1, <1>3, <2>1, ModIs
<1>5. ASSUME NEW h \in Int, proposal + 1 = h * p PROVE h = g
  <2>1. (g - 1) * p < h * p /\ (h - 1) * p < g * p
    <3>1. (h - 1) * p = h * p - p /\ h * p \in Int
      BY <1>1
    <3> QED BY <1>1, <1>2, <1>5, <3>1
  <2>2. g - 1 < h /\ h - 1 < g
    BY <1>1, <2>1, Cancel
  <2> QED BY <2>2
<1>6. LastOfGeneration <=> r = p - 1
  BY <1>4 DEF LastOfGeneration
<1>7. FirstOfGeneration <=> r = 0
  BY <1>4 DEF FirstOfGeneration
<1> QED BY <1>1, <1>2, <1>5, <1>6, <1>7

LEMMA CompletedStep ==
  ASSUME TypeOK
  PROVE  /\ history' = history => Completed' = Completed
         /\ cur \in Candidate /\ history' = history \cup {cur}
              => Completed' =
                   Completed \cup
                     {g \in 1 .. MaxGenerations :
                        cur.id = NumSeeds + g * ProposalsPerGeneration}
         /\ cur \in Candidate /\ history' = history \cup {cur}
            /\ cur.id <= NumSeeds
              => Completed' = Completed
<1>1. history' = history => Completed' = Completed
  BY DEF Completed
<1>2. history' = history \cup {cur} =>
        Completed' = Completed \cup
          {g \in 1 .. MaxGenerations :
             cur.id = NumSeeds + g * ProposalsPerGeneration}
  BY DEF Completed
<1>3. ASSUME cur \in Candidate, cur.id <= NumSeeds,
             NEW g \in 1 .. MaxGenerations
      PROVE  cur.id # NumSeeds + g * ProposalsPerGeneration
  <2>1. g * ProposalsPerGeneration > 0
    <3>1. g \in Nat \ {0} /\ ProposalsPerGeneration \in Nat \ {0}
      BY LoopAssumption, MaxGenerationsAssumption
    <3> QED BY <3>1
  <2>2. g * ProposalsPerGeneration \in Int
    BY LoopAssumption, MaxGenerationsAssumption
  <2> QED BY <1>3, <2>1, <2>2, Ids
<1> QED BY <1>1, <1>2, <1>3

LEMMA CountedQuiet ==
  ASSUME Counted, SameCounts, Completed' = Completed, proposal' = proposal,
         ~Over' => (Stage' \in Logged <=> Stage \in Logged) /\ ~Over
  PROVE  Counted'
  BY DEF Counted, SameCounts, LastOfGeneration

LEMMA GenerationsQuiet ==
  ASSUME TypeOK, Generations, Flow, UNCHANGED tellVars, SameCounts,
         ~BeginProposal
  PROVE  Generations'
<1> USE DEF Flow, tellVars, Over, AbortPCs, Logged, SeedPCs, ProposalWork
<1>1. Counted'
  <2>1. Completed' = Completed
    BY CompletedStep
  <2>2. ~Over' => (Stage' \in Logged <=> Stage \in Logged) /\ ~Over
    OBVIOUS
  <2> QED BY <2>1, <2>2, CountedQuiet DEF Generations
<1>2. /\ Stage' \in SeedPCs \cup {"proposal"}
           => Stage \in SeedPCs \cup {"proposal"}
      /\ Stage' \in ProposalWork => Stage \in ProposalWork
      /\ Stage' \in {"migrate", "generation_complete"}
           => Stage \in {"migrate", "generation_complete"}
  OBVIOUS
<1>3. Begun'
  BY <1>2 DEF Generations, Begun, SameCounts, LastOfGeneration
<1> QED BY <1>1, <1>3 DEF Generations

LEMMA GenerationBegins ==
  ASSUME IInv, Generations, BeginProposal
  PROVE  Generations'
<1>0. /\ TypeOK /\ budget \in Budget /\ clockOut \in BOOLEAN
      /\ proposal \in Nat /\ Stage = "proposal"
      /\ budget.generations_started \in Nat
      /\ ProposalsPerGeneration \in Nat \ {0}
  BY Ids, LoopAssumption DEF IInv, TypeOK, Budget, BeginProposal, Stage
<1>1. UNCHANGED <<history, proposal>>
  BY DEF BeginProposal, programVars
<1>2. Completed' = Completed
  BY <1>0, <1>1, CompletedStep
<1> DEFINE b == CheckBeforeProposal(budget)
<1>3. /\ b \in Budget
      /\ b.generations_started = budget.generations_started
      /\ b.generations_completed = budget.generations_completed
  <2> DEFINE c == CheckBeforeEvaluation(budget, clockOut)
  <2>1. c \in Budget
    BY <1>0, EvaluationCheck
  <2>2. /\ c.generations_started = budget.generations_started
        /\ c.generations_completed = budget.generations_completed
    BY <1>0, CheckKeepsCounts DEF CheckBeforeEvaluation
  <2>3. b = CheckLimits(c, TRUE, Role, clockOut)
    BY DEF CheckBeforeProposal, CheckBeforeLLMCall
  <2> HIDE DEF b, c
  <2> QED BY <1>0, <2>1, <2>2, <2>3, CheckKeepsCounts, CheckLimitsType
<1>4. \/ Stage' = "finish" /\ SameCounts
      \/ Stage' = "generate" /\ SameCounts /\ ~FirstOfGeneration
      \/ /\ Stage' = "generate" /\ FirstOfGeneration
         /\ budget'.generations_started = budget.generations_started + 1
         /\ budget'.generations_completed = budget.generations_completed
  <2>1. CASE pc' = "finish"
    <3>1. budget' = b \/ budget' = [b EXCEPT !.stop_reason = "no_valid_programs"]
      BY <2>1 DEF BeginProposal
    <3> HIDE DEF b
    <3> QED BY <1>3, <2>1, <3>1 DEF SameCounts, Budget, Stage
  <2>2. CASE pc' # "finish"
    <3>1. \/ /\ FirstOfGeneration /\ budget' = RecordGenerationStart(b)
             /\ Stage' = "generate"
          \/ ~FirstOfGeneration /\ budget' = b /\ Stage' = "generate"
      BY <2>2 DEF BeginProposal, RecordThenEmit, Stage
    <3> HIDE DEF b
    <3> QED BY <1>3, <3>1 DEF SameCounts, Budget, RecordGenerationStart
  <2> QED BY <2>1, <2>2
<1>5. Counted'
  <2>1. ~Over /\ Stage \notin Logged /\ Stage' \notin Logged
    BY <1>0, <1>4 DEF Over, AbortPCs, Logged
  <2> QED BY <1>2, <1>4, <2>1 DEF Generations, Counted, SameCounts
<1>6. Begun'
  <2> DEFINE gs == budget.generations_started
             p == ProposalsPerGeneration
  <2>1. /\ (gs - 1) * p < proposal /\ proposal <= gs * p
        /\ (gs - 1) * p \in Int /\ gs * p \in Int /\ (gs + 1) * p \in Int
        /\ gs * p = (gs - 1) * p + p /\ (gs + 1) * p = gs * p + p
    BY <1>0 DEF Generations, Begun
  <2>2. FirstOfGeneration <=> proposal = gs * p
    <3>1. CASE proposal = gs * p
      <4>1. /\ gs + 1 \in Int /\ (gs + 1) - 1 = gs
            /\ gs * p <= proposal /\ proposal < (gs + 1) * p
        <5>1. gs \in Nat /\ p \in Nat \ {0}
          BY <1>0
        <5> HIDE DEF gs, p
        <5> QED BY <2>1, <3>1, <5>1
      <4> DEFINE next == gs + 1
      <4>2. /\ next \in Int /\ (next - 1) * p <= proposal
            /\ proposal < next * p
        BY <1>0, <4>1
      <4> HIDE DEF next
      <4>3. FirstOfGeneration <=> proposal = (next - 1) * p
        BY <1>0, <4>2, LastIs
      <4> QED BY <3>1, <4>1, <4>3 DEF next
    <3>2. CASE proposal # gs * p
      <4>1. gs \in Int /\ (gs - 1) * p <= proposal /\ proposal < gs * p
        BY <1>0, <2>1, <3>2
      <4>2. FirstOfGeneration <=> proposal = (gs - 1) * p
        BY <1>0, <4>1, LastIs
      <4> QED BY <2>1, <3>2, <4>2
    <3> QED BY <3>1, <3>2
  <2>3. CASE Stage' = "finish"
    BY <2>3 DEF Begun, SeedPCs, ProposalWork
  <2>4. CASE Stage' = "generate"
    <3>1. /\ (budget'.generations_started - 1) * p <= proposal
          /\ proposal < budget'.generations_started * p
      <4>1. CASE FirstOfGeneration
        <5>1. budget'.generations_started = gs + 1
          BY <1>4, <2>4, <4>1
        <5>2. (gs + 1) - 1 = gs
          BY <1>0
        <5> QED BY <1>0, <2>1, <2>2, <4>1, <5>1, <5>2
      <4>2. CASE ~FirstOfGeneration
        <5>1. budget'.generations_started = gs
          BY <1>4, <2>4, <4>2 DEF SameCounts
        <5> QED BY <1>0, <2>1, <2>2, <4>2, <5>1
      <4> QED BY <4>1, <4>2
    <3> QED BY <1>1, <2>4, <3>1 DEF Begun, SeedPCs, ProposalWork
  <2> QED BY <1>4, <2>3, <2>4
<1> QED BY <1>5, <1>6 DEF Generations

LEMMA GenerationsStep ==
  ASSUME IInv, InHand, Told, Generations, Telling
  PROVE  Generations'
<1>0. /\ TypeOK /\ Control /\ proposal \in Nat /\ NumSeeds \in Nat
      /\ budget.generations_started \in Nat
      /\ budget.generations_completed \in Nat
      /\ ProposalsPerGeneration \in Nat \ {0}
      /\ GenerationComplete \/ SameCounts
      /\ cur # NoCandidate => cur \in Candidate
  <2>1. BeginProposal => ~Telling
    BY DEF BeginProposal, Telling, SeedEvaluate, SeedAdmit, SeedReject,
           SeedLog, LLMFailure, ApplyMutation, EvaluateFromCache,
           EvaluateCandidate, Admit, Reject, Log, PromptResult,
           GenerationComplete
  <2> QED BY <2>1, Ids, LoopAssumption, CountsStep DEF IInv, TypeOK, Budget
<1> DEFINE gs == budget.generations_started
           p == ProposalsPerGeneration
<1>p. /\ (gs - 1) * p \in Int /\ gs * p \in Int
      /\ gs * p = (gs - 1) * p + p
  BY <1>0
<1> USE DEF Over, AbortPCs, Logged, SeedPCs, ProposalWork
<1>1. CASE SeedEvaluate \/ SeedAdmit \/ SeedReject
  <2>1. /\ SameCounts /\ UNCHANGED <<history, proposal>>
        /\ Stage \in SeedPCs /\ Stage' \in SeedPCs \cup {"abort"}
    BY <1>0, <1>1
    DEF SeedEvaluate, SeedAdmit, SeedReject, Durable, Stage, RecordThenEmit,
        GenerationComplete, loopVars, programVars
  <2> QED BY <1>0, <2>1, CountedQuiet, CompletedStep
          DEF Generations, Begun, SameCounts
<1>2. CASE SeedLog
  <2>1. /\ SameCounts /\ proposal' = proposal
        /\ Stage = "seed_log" /\ Stage' \in {"seed_check", "abort"}
        /\ history' = history \/ history' = history \cup {cur}
    BY <1>0, <1>2 DEF SeedLog, Durable, Stage, GenerationComplete
  <2>2. cur \in Candidate /\ cur.id <= NumSeeds
    BY <1>0, <1>2, <2>1
    DEF SeedLog, InHand, SeedHand, Control, Where, SeedWork, CandidateWork
  <2>3. Completed' = Completed
    BY <1>0, <2>1, <2>2, CompletedStep
  <2> QED BY <2>1, <2>3, CountedQuiet DEF Generations, Begun, SameCounts
<1>3. CASE ApplyMutation \/ EvaluateFromCache \/ EvaluateCandidate \/ Admit
             \/ Reject
  <2>1. /\ SameCounts /\ UNCHANGED <<history, proposal>>
        /\ Stage \in ProposalWork \ Logged /\ ~Over
        /\ Stage' \in (ProposalWork \ (Logged \cup SeedPCs)) \cup {"abort"}
    BY <1>0, <1>3
    DEF ApplyMutation, EvaluateFromCache, EvaluateCandidate, Admit, Reject,
        Durable, Stage, RecordThenEmit, GenerationComplete, loopVars,
        programVars
  <2> QED BY <1>0, <2>1, CountedQuiet, CompletedStep
          DEF Generations, Begun, SameCounts
<1>4. CASE LLMFailure
  <2>1. /\ SameCounts /\ history' = history
        /\ Stage = "llm_failure"
        /\ \/ Stage' = "abort"
           \/ Stage' = "proposal" /\ proposal' = proposal + 1
    BY <1>0, <1>4 DEF LLMFailure, Stage, GenerationComplete
  <2>2. Begun'
    <3>1. (gs - 1) * p <= proposal /\ proposal < gs * p
      BY <2>1 DEF Generations, Begun
    <3>2. CASE Stage' = "proposal"
      BY <1>0, <1>p, <2>1, <3>1, <3>2 DEF Begun, SameCounts
    <3> QED BY <2>1, <3>2 DEF Begun
  <2>3. Counted'
    BY <1>0, <2>1, CompletedStep DEF Generations, Counted, SameCounts
  <2> QED BY <2>2, <2>3 DEF Generations
<1>5. CASE Log
  <2>1. /\ SameCounts /\ proposal' = proposal
        /\ Stage = "log"
        /\ \/ Stage' = "abort"
           \/ Stage' = "prompt_result" /\ history' = history \cup {cur}
        /\ cur \in Candidate
    BY <1>0, <1>5
    DEF Log, Durable, Stage, GenerationComplete, loopVars, WriteOutcomes,
        Control, Where, CandidateWork
  <2>2. Begun'
    BY <2>1 DEF Generations, Begun, SameCounts
  <2>3. CASE Stage' = "prompt_result"
    <3> DEFINE New == {g \in 1 .. MaxGenerations :
                         cur.id = NumSeeds + g * ProposalsPerGeneration}
    <3>1. cur.id = NumSeeds + (proposal + 1)
      BY <1>0, <2>1 DEF InHand, ProposalHand, GeneratedId
    <3>2. /\ (gs - 1) * p <= proposal /\ proposal < gs * p
          /\ proposal < MaxGenerations * p
      BY <1>0, <1>5, <2>1
      DEF Generations, Begun, Control, Where, Log, MaxProposals
    <3>3. /\ LastOfGeneration <=> proposal + 1 = gs * p
          /\ \A h \in Int : proposal + 1 = h * p => h = gs
      <4>1. gs \in Int
        BY <1>0
      <4> HIDE DEF gs
      <4> QED BY <1>0, <3>2, <4>1, LastIs
    <3>4. gs \in 1 .. MaxGenerations
      <4>1. 0 * p < gs * p /\ (gs - 1) * p < MaxGenerations * p
        <5>1. MaxGenerations * p \in Int
          BY <1>0, MaxGenerationsAssumption
        <5> QED BY <1>0, <1>p, <3>2, <5>1
      <4>2. 0 < gs /\ gs - 1 < MaxGenerations
        <5>1. gs \in Int /\ gs - 1 \in Int /\ MaxGenerations \in Int
          BY <1>0, MaxGenerationsAssumption
        <5> HIDE DEF gs, p
        <5> QED BY <1>0, <4>1, <5>1, Cancel DEF p
      <4> QED BY <1>0, <4>2, MaxGenerationsAssumption
    <3>5. Completed' = Completed \cup New
      BY <1>0, <2>1, <2>3, CompletedStep
    <3>6. ASSUME NEW g \in Int
          PROVE  cur.id = NumSeeds + g * p <=> proposal + 1 = g * p
      <4>1. g * p \in Int
        BY <1>0
      <4> QED BY <1>0, <3>1, <4>1
    <3>7. CASE LastOfGeneration
      <4>1. New = {gs}
        BY <3>3, <3>4, <3>6, <3>7
      <4>2. gs \notin Completed
        <5>1. \A c \in history : c.id # NumSeeds + gs * p
          <6>1. \A c \in history : c.id # GeneratedId
            BY <2>1 DEF Told, ToldInTime
          <6> QED BY <1>0, <2>1, <3>1, <3>3, <3>7, <6>1
                  DEF InHand, ProposalHand
        <5> QED BY <5>1 DEF Completed
      <4>3. Cardinality(Completed') = Cardinality(Completed) + 1
        <5>1. Completed' = Completed \cup {gs}
          BY <3>5, <4>1
        <5> QED BY <4>2, <5>1, CompletedType, FS_AddElement
      <4>4. Counted'
        BY <1>0, <2>1, <2>3, <3>7, <4>3
        DEF Generations, Counted, SameCounts, LastOfGeneration
      <4> QED BY <2>2, <4>4 DEF Generations
    <3>8. CASE ~LastOfGeneration
      <4>1. New = {}
        BY <3>3, <3>6, <3>8
      <4>2. Completed' = Completed
        BY <3>5, <4>1
      <4>3. Counted'
        BY <2>1, <2>3, <3>8, <4>2
        DEF Generations, Counted, SameCounts, LastOfGeneration
      <4> QED BY <2>2, <4>3 DEF Generations
    <3> QED BY <2>2, <3>7, <3>8 DEF Generations
  <2> QED BY <2>1, <2>2, <2>3 DEF Generations, Counted
<1>6. CASE PromptResult
  <2>1. /\ SameCounts /\ history' = history /\ Stage = "prompt_result"
        /\ \/ Stage' = "abort"
           \/ Stage' = "migrate" /\ proposal' = proposal /\ LastOfGeneration
           \/ /\ Stage' = "proposal" /\ proposal' = proposal + 1
              /\ ~LastOfGeneration
    <3>1. SameCounts
      BY <1>0, <1>6 DEF PromptResult, GenerationComplete
    <3>2. CASE LastOfGeneration
      BY <1>6, <3>1, <3>2 DEF PromptResult, Durable, Stage, programVars
    <3>3. CASE ~LastOfGeneration
      BY <1>6, <3>1, <3>3 DEF PromptResult, Durable, Stage, programVars
    <3> QED BY <3>2, <3>3
  <2>2. Begun'
    <3>1. (gs - 1) * p <= proposal /\ proposal < gs * p
      BY <2>1 DEF Generations, Begun
    <3>2. CASE Stage' = "proposal"
      BY <1>0, <1>p, <2>1, <3>1, <3>2 DEF Begun, SameCounts
    <3>3. CASE Stage' = "migrate"
      BY <1>0, <2>1, <3>1, <3>3 DEF Begun, SameCounts, LastOfGeneration
    <3> QED BY <2>1, <3>2, <3>3 DEF Begun
  <2>3. Counted'
    <3>1. Completed' = Completed
      BY <1>0, <2>1, CompletedStep
    <3> QED BY <1>0, <2>1, <3>1
            DEF Generations, Counted, SameCounts, LastOfGeneration
  <2> QED BY <2>2, <2>3 DEF Generations
<1>7. CASE GenerationComplete
  <2>1. /\ history' = history /\ Stage = "generation_complete"
        /\ Stage' = "proposal" /\ proposal' = proposal + 1
        /\ budget'.generations_started = budget.generations_started
        /\ budget'.generations_completed = budget.generations_completed + 1
    BY <1>7 DEF GenerationComplete, Stage, programVars, RecordThenEmit,
                IInv, TypeOK, Budget, RecordGenerationComplete
  <2>2. Begun'
    <3>1. (gs - 1) * p <= proposal /\ proposal < gs * p
      BY <2>1 DEF Generations, Begun
    <3> QED BY <1>0, <1>p, <2>1, <3>1 DEF Begun
  <2>3. Counted'
    <3>1. Completed' = Completed
      BY <1>0, <2>1, CompletedStep
    <3>2. LastOfGeneration
      BY <2>1 DEF Generations, Begun
    <3> QED BY <1>0, <2>1, <3>1, <3>2 DEF Generations, Counted
  <2> QED BY <2>2, <2>3 DEF Generations
<1> QED BY <1>1, <1>2, <1>3, <1>4, <1>5, <1>6, <1>7 DEF Telling

(* What is exhausted depends on what was consumed, and a check that asks   *)
(* less finds nothing that the widest one does not.                        *)
LEMMA ExhaustedWider ==
  ASSUME NEW b, NEW m, NEW includeLLM \in BOOLEAN, NEW role,
         NEW late \in BOOLEAN, Exhausted(b, m, includeLLM, role, late)
  PROVE  Exhausted(b, m, TRUE, None, late)
<1>1. RoleBudgetExhausted(b, m, role) => RoleBudgetExhausted(b, m, None)
  BY DEF RoleBudgetExhausted
<1> QED BY <1>1 DEF Exhausted

LEMMA ExhaustedStill ==
  ASSUME NEW b, NEW c, NEW m, NEW late \in BOOLEAN, NEW later \in BOOLEAN,
         c.consumed = b.consumed, c.byRole = b.byRole, late => later
  PROVE  /\ Exhausted(b, m, TRUE, None, late)
              => Exhausted(c, m, TRUE, None, later)
         /\ m # "max_runtime_seconds" =>
              (Exhausted(b, m, TRUE, None, late)
                 <=> Exhausted(c, m, TRUE, None, later))
<1>1. RoleBudgetExhausted(b, m, None) <=> RoleBudgetExhausted(c, m, None)
  BY DEF RoleBudgetExhausted, RoleScopeConsumed
<1> QED BY <1>1 DEF Exhausted

Kept ==
  /\ budget'.consumed = budget.consumed
  /\ budget'.byRole = budget.byRole

LEMMA CheckReason ==
  ASSUME NEW b \in Budget, NEW includeLLM \in BOOLEAN, NEW role,
         NEW late \in BOOLEAN
  PROVE  LET c == CheckLimits(b, includeLLM, role, late) IN
         \/ c = b
         \/ /\ c.consumed = b.consumed /\ c.byRole = b.byRole
            /\ b.stop_reason = None /\ c.stop_reason \in LimitNames
            /\ Exhausted(b, c.stop_reason, TRUE, None, late)
<1> DEFINE first == FirstExhausted(b, includeLLM, role, late)
<1>1. CASE b.stop_reason # None
  BY <1>1 DEF CheckLimits
<1>2. CASE b.stop_reason = None
  <2>1. CheckLimits(b, includeLLM, role, late)
          = [b EXCEPT !.stop_reason = first]
    BY <1>2 DEF CheckLimits
  <2>2. \/ first = None
        \/ /\ first \in LimitNames
           /\ Exhausted(b, first, includeLLM, role, late)
    BY FirstExhaustedIsExhausted
  <2>3. first \in LimitNames => Exhausted(b, first, TRUE, None, late)
        \/ first = None
    BY <2>2, ExhaustedWider
  <2> HIDE DEF first
  <2> QED BY <1>2, <2>1, <2>2, <2>3 DEF Budget
<1> QED BY <1>1, <1>2

(* How a step may change the reason, and what a reason keeps still. *)
Reasoned ==
  \/ budget.stop_reason = None /\ budget'.stop_reason = None
  \/ Kept /\ budget'.stop_reason = budget.stop_reason
  \/ /\ Kept /\ budget.stop_reason = None
     /\ budget'.stop_reason \in LimitNames
     /\ Exhausted(budget, budget'.stop_reason, TRUE, None, clockOut)
  \/ /\ BeginProposal /\ budget'.stop_reason = "no_valid_programs"
     /\ archive = {} /\ Stage' = "finish"
  \/ InitialProgramPolicy /\ budget'.stop_reason = "invalid_initial_programs"
  \/ FinishRun
  \/ AbortRun /\ budget'.stop_reason = "aborted"

LEMMA ReasonStep ==
  ASSUME IInv, Silent \/ Telling
  PROVE  Reasoned
<1>0. budget \in Budget /\ clockOut \in BOOLEAN /\ Control /\ Affordable
  BY DEF IInv, TypeOK
<1>1. CASE budget' = budget
  BY <1>1 DEF Reasoned, Kept
<1>2. ASSUME NEW includeLLM \in BOOLEAN, NEW role,
             budget' = CheckLimits(budget, includeLLM, role, clockOut)
      PROVE  Reasoned
  <2> DEFINE c == CheckLimits(budget, includeLLM, role, clockOut)
  <2>1. \/ c = budget
        \/ /\ c.consumed = budget.consumed /\ c.byRole = budget.byRole
           /\ budget.stop_reason = None /\ c.stop_reason \in LimitNames
           /\ Exhausted(budget, c.stop_reason, TRUE, None, clockOut)
    BY <1>0, CheckReason
  <2>2. budget' = c
    BY <1>2
  <2> HIDE DEF c
  <2> QED BY <1>1, <2>1, <2>2 DEF Reasoned, Kept
<1>3. CASE SeedCheck
  BY <1>1, <1>2, <1>3 DEF SeedCheck, CheckBeforeEvaluation
<1>4. CASE SeedAdmit \/ Admit
  BY <1>2, <1>4 DEF SeedAdmit, Admit, CheckBeforeEvaluation
<1>5. CASE CheckBeforeCall
  BY <1>2, <1>5 DEF CheckBeforeCall, CheckBeforeLLMCall
<1>6. CASE SeedEvaluate \/ EvaluateCandidate
  <2>1. budget.stop_reason = None
    BY <1>0, <1>6
    DEF SeedEvaluate, EvaluateCandidate, Affordable, Where, BeforeExpense
  <2>2. \E seed \in BOOLEAN, acc \in [EvaluatorMeters -> Nat] :
          budget' = RecordEvaluation(budget, seed, acc)
    BY <1>6, DataAssumption
    DEF SeedEvaluate, EvaluateCandidate, RecordThenEmit, Accounting
  <2>3. budget'.stop_reason = None
    BY <1>0, <2>1, <2>2, RecordEvaluationType
  <2> QED BY <2>1, <2>3 DEF Reasoned
<1>7. CASE LLMCall
  <2>1. budget.stop_reason = None
    BY <1>0, <1>7 DEF LLMCall, Affordable, Where, BeforeExpense
  <2>2. PICK n \in 0 .. CallAttempts, kept \in 0 .. MaxCallAttempts,
             u \in Usages : \E next \in CallOutcomes(n) :
          RecordThenEmit(
            RecordLLMCalls(budget, Role, IF n = 0 THEN 1 ELSE n, kept, u),
            LLMBudgetEvents(IF n = 0 THEN 1 ELSE n, kept, u), next)
    BY <1>7 DEF LLMCall
  <2> DEFINE calls == IF n = 0 THEN 1 ELSE n
  <2>3. /\ calls \in Nat /\ kept \in Nat /\ u \in [LLMMeters -> Nat]
        /\ Role \in Roles
    <3>1. CallAttempts \in Nat /\ MaxCallAttempts \in Nat
      BY <1>0, CallAttemptsType, LoopAssumption, TypeParts DEF IInv
    <3> QED BY <3>1, LoopAssumption, DataAssumption DEF Usage
  <2>4. budget' = RecordLLMCalls(budget, Role, calls, kept, u)
    BY <2>2 DEF RecordThenEmit
  <2> HIDE DEF calls
  <2> QED BY <1>0, <2>1, <2>3, <2>4, RecordLLMCallsType DEF Reasoned
<1>8. CASE InitialProgramPolicy
  BY <1>0, <1>1, <1>8 DEF InitialProgramPolicy, Reasoned, Budget
<1>9. CASE BeginProposal
  <2> DEFINE c == CheckBeforeEvaluation(budget, clockOut)
             b == CheckBeforeProposal(budget)
  <2>1. budget.stop_reason = None
    BY <1>9 DEF BeginProposal
  <2>2. /\ c \in Budget /\ b \in Budget
        /\ c.consumed = budget.consumed /\ c.byRole = budget.byRole
    BY <1>0, EvaluationCheck, ProposalCheck, CheckKeepsCounts
    DEF CheckBeforeEvaluation
  <2>3. \/ b.stop_reason = None
        \/ /\ b.consumed = budget.consumed /\ b.byRole = budget.byRole
           /\ b.stop_reason \in LimitNames
           /\ Exhausted(budget, b.stop_reason, TRUE, None, clockOut)
    <3>1. \/ c = budget
          \/ /\ c.stop_reason \in LimitNames
             /\ Exhausted(budget, c.stop_reason, TRUE, None, clockOut)
      BY <1>0, CheckReason DEF CheckBeforeEvaluation
    <3>2. b = CheckLimits(c, TRUE, Role, clockOut)
      BY DEF CheckBeforeProposal, CheckBeforeLLMCall
    <3> HIDE DEF b, c
    <3>3. \/ b = c
          \/ /\ b.consumed = c.consumed /\ b.byRole = c.byRole
             /\ b.stop_reason \in LimitNames
             /\ Exhausted(c, b.stop_reason, TRUE, None, clockOut)
      <4> DEFINE d == CheckLimits(c, TRUE, Role, clockOut)
      <4>1. \/ d = c
            \/ /\ d.consumed = c.consumed /\ d.byRole = c.byRole
               /\ d.stop_reason \in LimitNames
               /\ Exhausted(c, d.stop_reason, TRUE, None, clockOut)
        BY <1>0, <2>2, CheckReason
      <4> HIDE DEF d
      <4> QED BY <3>2, <4>1 DEF d
    <3>4. Exhausted(c, b.stop_reason, TRUE, None, clockOut)
            => Exhausted(budget, b.stop_reason, TRUE, None, clockOut)
      <4>1. RoleBudgetExhausted(budget, b.stop_reason, None)
              <=> RoleBudgetExhausted(c, b.stop_reason, None)
        BY <2>2 DEF RoleBudgetExhausted, RoleScopeConsumed
      <4> QED BY <2>2, <4>1 DEF Exhausted
    <3>5. CASE b = c
      BY <2>1, <2>2, <3>1, <3>5
    <3> QED BY <2>2, <3>3, <3>4, <3>5
  <2>4. \/ budget' = b
        \/ /\ budget' = [b EXCEPT !.stop_reason = "no_valid_programs"]
           /\ archive = {} /\ Stage' = "finish"
        \/ budget' = RecordGenerationStart(b) /\ b.stop_reason = None
    BY <1>9 DEF BeginProposal, RecordThenEmit, Stage
  <2> HIDE DEF b, c
  <2>5. CASE budget' = b
    BY <2>1, <2>3, <2>5 DEF Reasoned, Kept
  <2>6. CASE /\ budget' = [b EXCEPT !.stop_reason = "no_valid_programs"]
             /\ archive = {} /\ Stage' = "finish"
    BY <1>9, <2>2, <2>6 DEF Reasoned, Budget
  <2>7. CASE budget' = RecordGenerationStart(b) /\ b.stop_reason = None
    BY <2>1, <2>2, <2>7, RecordGenerationType DEF Reasoned
  <2> QED BY <2>4, <2>5, <2>6, <2>7
<1>10. CASE GenerationComplete
  BY <1>0, <1>10
  DEF GenerationComplete, RecordThenEmit, RecordGenerationComplete, Budget,
      Reasoned, Kept
<1>11. CASE FinishRun
  BY <1>11 DEF Reasoned
<1>12. CASE AbortRun
  BY <1>0, <1>12 DEF AbortRun, RecordThenEmit, Budget, Reasoned
<1>13. CASE Thrifty \/ UNCHANGED vars
  BY <1>0, <1>1, <1>13, ThriftyStep DEF vars, ledgerVars
<1> QED BY <1>3, <1>4, <1>5, <1>6, <1>7, <1>8, <1>9, <1>10, <1>11, <1>12,
           <1>13
        DEF Silent, Telling, Thrifty

(* Where any step goes, as far as the end of the run is concerned. *)
Course ==
  /\ Stage' \in SeedPCs => Stage \in SeedPCs
  /\ Stage' \notin SeedPCs /\ Stage \in SeedPCs
       => Over' \/ (InitialProgramPolicy /\ Stage' = "proposal")
  /\ Over => Over'
  /\ Stage' \in {"manifest", "returned"}
       => Stage \in {"manifest", "returned"} \/ FinishRun
  /\ Stage = "proposal" /\ budget.stop_reason # None
       => Stage' \in {"proposal", "finish"} \/ Over'
  /\ Stage = "finish" => Stage' \in {"finish", "manifest"} \/ Over'
  /\ Stage \in {"manifest", "returned"}
       => Stage' \in {"manifest", "returned"} \/ Over'
  /\ archive' = archive \/ Stage \in {"seed_admit", "admit"}
  /\ strictInvalid' = strictInvalid \/ Stage = "seed_archive_event"
  /\ clockOut => clockOut'

LEMMA SilentCourse ==
  ASSUME Control, Silent
  PROVE  Course
<1>1. Flow /\ UNCHANGED tellVars
  BY SilentStep
<1>2. InitialProgramPolicy => Stage' = "proposal"
  BY DEF InitialProgramPolicy, Stage
<1>3. /\ Stage = "policy" /\ Stage' = "proposal" => InitialProgramPolicy
      /\ Stage = "finish" /\ Stage' = "manifest" => FinishRun
      /\ strictInvalid' = strictInvalid \/ Stage = "seed_archive_event"
      /\ clockOut => clockOut'
  BY DEF Silent, Control, Stage, SeedCheck, SeedArchiveEvent,
         InitialProgramPolicy, LoopEnds, BeginProposal, CheckBeforeCall,
         CheckDeadline, LLMCall, RaiseFromCandidate, ArchiveEvent, Reward,
         Migrate, Emit, EmitLLMCalls, FinishRun, WriteCompletedManifest,
         AbortRun, EmitAbort, WriteAbortedManifest, ClockExpires, Interrupt,
         Terminated, EmitFrom, Durable, RecordThenEmit, vars, envVars,
         ledgerVars, loopVars
<1>4. BeginProposal => budget.stop_reason = None
  BY DEF BeginProposal
<1>5. /\ Stage' \in SeedPCs => Stage \in SeedPCs
      /\ Stage' \notin SeedPCs /\ Stage \in SeedPCs
           => Over' \/ (Stage = "policy" /\ Stage' = "proposal")
      /\ Over => Over'
  BY <1>1 DEF Flow, Over, AbortPCs, SeedPCs
<1>6. /\ Stage' \in {"manifest", "returned"}
           => Stage \in {"manifest", "returned"}
              \/ (Stage = "finish" /\ Stage' = "manifest")
      /\ Stage = "proposal" /\ budget.stop_reason # None
           => Stage' \in {"proposal", "finish"} \/ Over'
      /\ Stage = "finish" => Stage' \in {"finish", "manifest"} \/ Over'
      /\ Stage \in {"manifest", "returned"}
           => Stage' \in {"manifest", "returned"} \/ Over'
  BY <1>1, <1>4 DEF Flow, Over, AbortPCs
<1> QED BY <1>1, <1>3, <1>5, <1>6 DEF Course, tellVars

LEMMA TellingCourse ==
  ASSUME Telling
  PROVE  Course
<1> USE DEF Stage, Over, AbortPCs, SeedPCs, envVars, loopVars, programVars,
            RecordThenEmit, Durable
<1>1. /\ \/ Stage \in SeedPCs /\ (Stage' \in SeedPCs \/ Over')
         \/ /\ Stage \in ProposalWork
            /\ Stage' \in ProposalWork \cup {"proposal"} \/ Over'
      /\ archive' = archive \/ Stage \in {"seed_admit", "admit"}
      /\ strictInvalid' = strictInvalid /\ clockOut' = clockOut
  <2> USE DEF ProposalWork
  <2>1. CASE SeedEvaluate \/ SeedAdmit \/ SeedReject \/ SeedLog
    BY <2>1 DEF SeedEvaluate, SeedAdmit, SeedReject, SeedLog
  <2>2. CASE LLMFailure \/ ApplyMutation \/ EvaluateFromCache
               \/ EvaluateCandidate
    BY <2>2 DEF LLMFailure, ApplyMutation, EvaluateFromCache,
                EvaluateCandidate
  <2>3. CASE Admit \/ Reject \/ Log
    BY <2>3 DEF Admit, Reject, Log
  <2>4. CASE PromptResult \/ GenerationComplete
    BY <2>4 DEF PromptResult, GenerationComplete
  <2> QED BY <2>1, <2>2, <2>3, <2>4 DEF Telling
<1> HIDE DEF Stage
<1> QED BY <1>1 DEF Course, ProposalWork

(* Calls are counted where they are made. *)
LEMMA CallsStep ==
  ASSUME IInv, Silent \/ Telling
  PROVE  \/ LLMCall
         \/ budget'.consumed["max_llm_calls"]
              = budget.consumed["max_llm_calls"]
<1>0. budget \in Budget /\ clockOut \in BOOLEAN /\ Control
  BY DEF IInv, TypeOK
<1>1. CASE budget.stop_reason # None
  <2>1. Frugal
    <3>1. Next \/ UNCHANGED vars
      BY DEF Silent, Telling, Next, Controller
    <3>2. CASE UNCHANGED vars
      BY <3>2 DEF vars, ledgerVars, Frugal
    <3> QED BY <3>1, <3>2, FrugalStep
  <2> QED BY <1>1, <2>1 DEF Frugal
<1>2. CASE SeedEvaluate \/ EvaluateCandidate
  <2>1. \E seed \in BOOLEAN, acc \in [EvaluatorMeters -> Nat] :
          budget' = RecordEvaluation(budget, seed, acc)
    BY <1>2, DataAssumption
    DEF SeedEvaluate, EvaluateCandidate, RecordThenEmit, Accounting
  <2> QED BY <1>0, <2>1, RecordEvaluationType
<1>3. CASE SeedCheck \/ SeedAdmit \/ Admit \/ CheckBeforeCall
  <2>1. \/ budget' = budget
        \/ \E includeLLM \in BOOLEAN, role \in {None, Role} :
             budget' = CheckLimits(budget, includeLLM, role, clockOut)
    BY <1>3 DEF SeedCheck, SeedAdmit, Admit, CheckBeforeCall,
                CheckBeforeEvaluation, CheckBeforeLLMCall
  <2> QED BY <1>0, <2>1, CheckKeepsCounts
<1>4. CASE InitialProgramPolicy \/ GenerationComplete \/ AbortRun
  BY <1>0, <1>4
  DEF InitialProgramPolicy, GenerationComplete, AbortRun, RecordThenEmit,
      RecordGenerationComplete, Budget
<1>5. CASE BeginProposal
  <2> DEFINE b == CheckBeforeProposal(budget)
  <2>1. b \in Budget /\ b.consumed = budget.consumed
    BY <1>0, ProposalCheck
  <2>2. \/ budget' = b
        \/ budget' = [b EXCEPT !.stop_reason = "no_valid_programs"]
        \/ budget' = RecordGenerationStart(b)
    BY <1>5 DEF BeginProposal, RecordThenEmit
  <2> HIDE DEF b
  <2> QED BY <2>1, <2>2 DEF Budget, RecordGenerationStart
<1>6. CASE FinishRun
  <2>1. /\ (archive # {}) \in BOOLEAN
        /\ budget' = Finish(budget, archive # {}, clockOut)
    BY <1>6 DEF FinishRun, RecordThenEmit
  <2> QED BY <1>0, <2>1, FinishType
<1>7. CASE Thrifty \/ UNCHANGED vars
  BY <1>0, <1>7, ThriftyStep DEF vars, ledgerVars
<1> QED BY <1>2, <1>3, <1>4, <1>5, <1>6, <1>7 DEF Silent, Telling, Thrifty

LEMMA ReasonNames ==
  /\ None \notin STOP_REASONS
  /\ LimitNames \subseteq STOP_REASONS
  /\ \A m \in LimitNames :
       m \notin {"aborted", "completed", "max_generations",
                 "no_valid_programs", "invalid_initial_programs", None}
  /\ None \notin {"aborted", "completed", "max_generations",
                  "no_valid_programs", "invalid_initial_programs"}
<1>1. None \notin STOP_REASONS /\ LimitNames \subseteq STOP_REASONS
  BY NoneAssumption DEF STOP_REASONS
<1>2. LimitNames =
        {"max_evaluations", "max_evaluator_seconds",
         "max_evaluator_subprocess_attempts", "max_evaluator_stage_samples",
         "max_evaluator_retry_attempts", "max_evaluator_timeouts",
         "max_evaluator_sample_budget_exhaustions",
         "max_evaluator_stage_budget_exhaustions",
         "max_llm_calls", "max_llm_provider_attempts", "max_llm_tokens",
         "max_llm_cost_microusd", "max_llm_seconds",
         "llm_role_provider_attempt_limits", "llm_role_token_limits",
         "llm_role_cost_microusd_limits", "llm_role_seconds_limits",
         "max_runtime_seconds"}
  <2>1. DOMAIN LimitOrder = 1 .. 18
    BY DEF LimitOrder
  <2> QED BY <2>1 DEF LimitNames, LimitOrder
<1> QED BY <1>1, <1>2 DEF STOP_REASONS

(* What finish() does to the reason. *)
LEMMA FinishReason ==
  ASSUME NEW b \in Budget, NEW best \in BOOLEAN, NEW late \in BOOLEAN
  PROVE  LET f == Finish(b, best, late) IN
         /\ f.consumed = b.consumed /\ f.byRole = b.byRole
         /\ f.generations_completed = b.generations_completed
         /\ b.stop_reason # None => f.stop_reason = b.stop_reason
         /\ b.stop_reason = None =>
              \/ /\ f.stop_reason \in LimitNames
                 /\ Exhausted(b, f.stop_reason, TRUE, None, late)
              \/ ~best /\ f.stop_reason = "no_valid_programs"
              \/ /\ best /\ b.generations_completed >= MaxGenerations
                 /\ f.stop_reason = "max_generations"
              \/ /\ best /\ ~(b.generations_completed >= MaxGenerations)
                 /\ f.stop_reason = "completed"
                 /\ \A m \in LimitNames : ~Exhausted(b, m, TRUE, None, late)
<1> DEFINE c == CheckLimits(b, TRUE, None, late)
<1> DEFINE reason == IF ~best THEN "no_valid_programs"
                     ELSE IF c.generations_completed >= MaxGenerations
                          THEN "max_generations"
                          ELSE "completed"
<1>1. /\ c \in Budget
      /\ c.consumed = b.consumed
      /\ b.stop_reason # None => c = b
      /\ c.stop_reason = None =>
           \A m \in LimitNames : ~Exhausted(b, m, TRUE, None, late)
  BY CheckLimitsType
<1>2. /\ c.byRole = b.byRole
      /\ c.generations_completed = b.generations_completed
  BY CheckKeepsCounts
<1>3. \/ c = b
      \/ /\ c.stop_reason \in LimitNames
         /\ Exhausted(b, c.stop_reason, TRUE, None, late)
  BY CheckReason
<1>4. Finish(b, best, late) =
        IF c.stop_reason # None THEN c ELSE [c EXCEPT !.stop_reason = reason]
  BY DEF Finish
<1>5. /\ ~best => reason = "no_valid_programs"
      /\ best /\ b.generations_completed >= MaxGenerations
           => reason = "max_generations"
      /\ best /\ ~(b.generations_completed >= MaxGenerations)
           => reason = "completed"
  BY <1>2
<1> HIDE DEF c, reason
<1>6. CASE c.stop_reason # None
  <2>1. Finish(b, best, late) = c
    BY <1>4, <1>6
  <2> QED BY <1>1, <1>2, <1>3, <1>6, <2>1, ReasonNames
<1>7. CASE c.stop_reason = None
  <2>1. Finish(b, best, late) = [c EXCEPT !.stop_reason = reason]
    BY <1>4, <1>7
  <2>2. b.stop_reason = None
    BY <1>1, <1>7
  <2> DEFINE f == Finish(b, best, late)
  <2>3. /\ f.stop_reason = reason /\ f.consumed = b.consumed
        /\ f.byRole = b.byRole
        /\ f.generations_completed = b.generations_completed
    BY <1>1, <1>2, <2>1 DEF Budget
  <2> HIDE DEF f
  <2>4. \/ ~best /\ f.stop_reason = "no_valid_programs"
        \/ /\ best /\ b.generations_completed >= MaxGenerations
           /\ f.stop_reason = "max_generations"
        \/ /\ best /\ ~(b.generations_completed >= MaxGenerations)
           /\ f.stop_reason = "completed"
    BY <1>5, <2>3
  <2> QED BY <1>1, <1>7, <2>2, <2>3, <2>4 DEF f
<1> QED BY <1>6, <1>7

LEMMA FinishStep ==
  ASSUME IInv, Generations, Stopped, FinishRun
  PROVE  Stopped'
<1> DEFINE r == budget.stop_reason
           f == Finish(budget, archive # {}, clockOut)
<1>0. /\ budget \in Budget /\ clockOut \in BOOLEAN
      /\ (archive # {}) \in BOOLEAN
      /\ budget.generations_completed \in Nat
  BY DEF IInv, TypeOK, Budget
<1>1. /\ Stage = "finish" /\ Stage' = "manifest" /\ budget' = f
      /\ archive' = archive /\ strictInvalid' = strictInvalid
      /\ clockOut' = clockOut
  BY DEF FinishRun, Stage, RecordThenEmit, envVars, programVars, loopVars
<1>2. /\ f.consumed = budget.consumed /\ f.byRole = budget.byRole
      /\ f.generations_completed = budget.generations_completed
      /\ r # None => f.stop_reason = r
      /\ r = None =>
           \/ /\ f.stop_reason \in LimitNames
              /\ Exhausted(budget, f.stop_reason, TRUE, None, clockOut)
           \/ archive = {} /\ f.stop_reason = "no_valid_programs"
           \/ /\ archive # {}
              /\ budget.generations_completed >= MaxGenerations
              /\ f.stop_reason = "max_generations"
           \/ /\ archive # {}
              /\ ~(budget.generations_completed >= MaxGenerations)
              /\ f.stop_reason = "completed"
              /\ \A m \in LimitNames :
                   ~Exhausted(budget, m, TRUE, None, clockOut)
  BY <1>0, FinishReason
<1>3. /\ r \in LimitReasons
               \cup {"no_valid_programs", "invalid_initial_programs"}
      /\ r = "no_valid_programs" => archive = {}
      /\ r = "invalid_initial_programs" <=> SeedsRefused
      /\ r = "invalid_initial_programs"
           => budget.consumed["max_llm_calls"] = 0
      /\ r \in LimitNames => Exhausted(budget, r, TRUE, None, clockOut)
  BY <1>1 DEF Stopped, Reasons, NoValidTrue, RefusalTrue, LimitTrue, Over,
              AbortPCs, SeedPCs
<1>4. budget.generations_completed <= MaxGenerations
  <2>1. Cardinality(Completed) = budget.generations_completed + 0
    BY <1>1 DEF Generations, Counted, Over, AbortPCs, Logged
  <2> QED BY <1>0, <2>1, CompletedType
<1> HIDE DEF f, r
<1>5. \A m : Exhausted(budget, m, TRUE, None, clockOut)
               <=> Exhausted(f, m, TRUE, None, clockOut)
  <2> SUFFICES ASSUME NEW m
               PROVE  Exhausted(budget, m, TRUE, None, clockOut)
                        <=> Exhausted(f, m, TRUE, None, clockOut)
    OBVIOUS
  <2>1. RoleBudgetExhausted(budget, m, None) <=> RoleBudgetExhausted(f, m, None)
    BY <1>2 DEF RoleBudgetExhausted, RoleScopeConsumed
  <2> QED BY <1>2, <2>1 DEF Exhausted
<1>6. f.stop_reason \in LimitNames
        => Exhausted(f, f.stop_reason, TRUE, None, clockOut)
  <2> SUFFICES ASSUME f.stop_reason \in LimitNames
               PROVE  Exhausted(f, f.stop_reason, TRUE, None, clockOut)
    OBVIOUS
  <2> DEFINE n == f.stop_reason
  <2>1. CASE r # None
    <3>1. n = r
      BY <1>2, <2>1
    <3>2. r \in LimitNames
      BY <3>1
    <3>3. Exhausted(budget, r, TRUE, None, clockOut)
      BY <1>3, <3>2
    <3> QED BY <1>5, <3>1, <3>3
  <2>2. CASE r = None
    <3>1. n # "no_valid_programs" /\ n # "max_generations" /\ n # "completed"
      BY ReasonNames
    <3> HIDE DEF n
    <3>2. Exhausted(budget, n, TRUE, None, clockOut)
      BY <1>2, <2>2, <3>1 DEF n
    <3> QED BY <1>5, <3>2 DEF n
  <2> QED BY <2>1, <2>2
<1>7. LimitTrue'
  BY <1>1, <1>6 DEF LimitTrue
<1>8. SeedsFree' /\ Reasons'
  BY <1>1 DEF SeedsFree, Reasons, SeedPCs
<1>9. /\ f.stop_reason = "no_valid_programs" => archive = {}
      /\ f.stop_reason = "invalid_initial_programs" <=> SeedsRefused
      /\ f.stop_reason = "invalid_initial_programs"
           => r = "invalid_initial_programs"
  BY <1>2, <1>3, ReasonNames DEF LimitReasons
<1>10. NoValidTrue'
  BY <1>1, <1>9 DEF NoValidTrue
<1>11. RefusalTrue'
  BY <1>1, <1>2, <1>3, <1>9 DEF RefusalTrue, SeedsRefused
<1>12. EndTrue'
  <2>1. f.stop_reason \in STOP_REASONS
    BY <1>2, <1>3, ReasonNames DEF LimitReasons, STOP_REASONS
  <2>2. f.stop_reason = "max_generations" <=>
          /\ f.stop_reason \notin LimitNames /\ archive # {}
          /\ ~SeedsRefused
          /\ f.generations_completed = MaxGenerations
    <3>1. budget.generations_completed >= MaxGenerations
            <=> f.generations_completed = MaxGenerations
      BY <1>0, <1>2, <1>4, MaxGenerationsAssumption
    <3> QED BY <1>2, <1>3, <1>9, <3>1, ReasonNames DEF LimitReasons
  <2>3. f.stop_reason = "completed" =>
          /\ archive # {}
          /\ \A m \in LimitNames \ {"max_runtime_seconds"} :
               ~Exhausted(f, m, TRUE, None, clockOut)
    BY <1>2, <1>3, <1>5, ReasonNames DEF LimitReasons
  <2> QED BY <1>1, <2>1, <2>2, <2>3 DEF EndTrue, SeedsRefused
<1> QED BY <1>7, <1>8, <1>10, <1>11, <1>12 DEF Stopped

LEMMA PolicyStep ==
  ASSUME IInv, Stopped, InitialProgramPolicy
  PROVE  Stopped'
<1>0. budget \in Budget
  BY DEF IInv, TypeOK
<1>1. /\ Stage = "policy" /\ Stage' = "proposal"
      /\ archive' = archive /\ strictInvalid' = strictInvalid
      /\ clockOut' = clockOut
      /\ budget'.consumed = budget.consumed
      /\ budget'.byRole = budget.byRole
      /\ budget'.stop_reason = IF SeedsRefused THEN "invalid_initial_programs"
                               ELSE budget.stop_reason
  BY <1>0 DEF InitialProgramPolicy, Stage, envVars, programVars, loopVars,
              Budget, SeedsRefused
<1>2. /\ budget.stop_reason \in LimitReasons
      /\ budget.consumed["max_llm_calls"] = 0
  BY <1>1 DEF Stopped, Reasons, SeedsFree, SeedPCs
<1>3. LimitTrue'
  <2>1. ASSUME budget'.stop_reason \in LimitNames
        PROVE  Exhausted(budget', budget.stop_reason, TRUE, None, clockOut)
               /\ budget'.stop_reason = budget.stop_reason
    <3>1. /\ budget'.stop_reason = budget.stop_reason
          /\ Exhausted(budget, budget.stop_reason, TRUE, None, clockOut)
      BY <1>1, <2>1, ReasonNames DEF Stopped, LimitTrue
    <3>2. RoleBudgetExhausted(budget, budget.stop_reason, None)
            <=> RoleBudgetExhausted(budget', budget.stop_reason, None)
      BY <1>1 DEF RoleBudgetExhausted, RoleScopeConsumed
    <3> QED BY <1>1, <3>1, <3>2 DEF Exhausted
  <2> QED BY <1>1, <2>1 DEF LimitTrue
<1>4. SeedsFree' /\ NoValidTrue' /\ EndTrue'
  BY <1>1, <1>2, ReasonNames
  DEF SeedsFree, NoValidTrue, EndTrue, SeedPCs, LimitReasons
<1>5. Reasons'
  BY <1>1, <1>2 DEF Reasons, SeedPCs
<1>6. RefusalTrue'
  BY <1>1, <1>2, ReasonNames DEF RefusalTrue, LimitReasons, SeedsRefused
<1> QED BY <1>3, <1>4, <1>5, <1>6 DEF Stopped

LEMMA StoppedStep ==
  ASSUME IInv, Generations, Stopped, Silent \/ Telling
  PROVE  Stopped'
<1> DEFINE r == budget.stop_reason
<1>0. /\ budget \in Budget /\ clockOut \in BOOLEAN /\ Control
      /\ clockOut' \in BOOLEAN
  <2>1. Next \/ UNCHANGED vars
    BY DEF Silent, Telling, Next, Controller
  <2>2. TypeOK /\ TypeOK' /\ Control
    BY <2>1, TypeStep, StutterInv DEF IInv
  <2> QED BY <2>2 DEF TypeOK
<1>1. CASE FinishRun
  BY <1>1, FinishStep
<1>2. CASE InitialProgramPolicy
  BY <1>2, PolicyStep
<1>3. CASE AbortRun
  <2>1. Over' /\ Stage' = "abort_manifest"
    BY <1>3 DEF AbortRun, Over, Stage, RecordThenEmit, AbortPCs
  <2>2. budget'.stop_reason = "aborted"
    BY <1>0, <1>3 DEF AbortRun, RecordThenEmit, Budget
  <2> QED BY <2>1, <2>2, ReasonNames
          DEF Stopped, LimitTrue, SeedsFree, Reasons, NoValidTrue,
              RefusalTrue, EndTrue, SeedPCs
<1>4. CASE ~FinishRun /\ ~InitialProgramPolicy /\ ~AbortRun
  <2>1. Course /\ Reasoned
    BY <1>0, SilentCourse, TellingCourse, ReasonStep
  <2>2. \/ r = None /\ budget'.stop_reason = None
        \/ Kept /\ budget'.stop_reason = r
        \/ /\ Kept /\ r = None
           /\ budget'.stop_reason \in LimitNames
           /\ Exhausted(budget, budget'.stop_reason, TRUE, None, clockOut)
        \/ /\ BeginProposal /\ budget'.stop_reason = "no_valid_programs"
           /\ archive = {} /\ Stage' = "finish"
    BY <1>4, <2>1 DEF Reasoned
  <2>3. /\ LLMCall => Stage = "call"
        /\ BeginProposal => Stage = "proposal" /\ r = None
        /\ GenerationComplete => Stage = "generation_complete"
        /\ \/ LLMCall
           \/ budget'.consumed["max_llm_calls"]
                = budget.consumed["max_llm_calls"]
    BY CallsStep DEF LLMCall, BeginProposal, GenerationComplete, Stage
  <2>4. Stage' \notin SeedPCs /\ ~Over' => Stage \notin SeedPCs
    BY <1>4, <2>1 DEF Course
  <2>5. LimitTrue'
    <3>1. CASE /\ Kept
               /\ Exhausted(budget, budget'.stop_reason, TRUE, None, clockOut)
      <4>1. RoleBudgetExhausted(budget, budget'.stop_reason, None)
              <=> RoleBudgetExhausted(budget', budget'.stop_reason, None)
        BY <3>1 DEF Kept, RoleBudgetExhausted, RoleScopeConsumed
      <4>2. clockOut => clockOut'
        BY <2>1 DEF Course
      <4>3. Exhausted(budget', budget'.stop_reason, TRUE, None, clockOut')
        BY <3>1, <4>1, <4>2 DEF Kept, Exhausted
      <4> QED BY <4>3 DEF LimitTrue
    <3>2. CASE budget'.stop_reason \notin LimitNames
      BY <3>2 DEF LimitTrue
    <3> QED BY <2>2, <3>1, <3>2, ReasonNames DEF Stopped, LimitTrue
  <2>6. SeedsFree'
    <3>1. Stage' \in SeedPCs => Stage \in SeedPCs /\ Stage # "call"
      BY <2>1 DEF Course, SeedPCs
    <3> QED BY <2>3, <3>1 DEF Stopped, SeedsFree
  <2>7. Reasons'
    <3>1. Stage' \in SeedPCs => budget'.stop_reason \in LimitReasons
      <4>1. Stage' \in SeedPCs => Stage \in SeedPCs /\ Stage' # "finish"
        BY <2>1 DEF Course, SeedPCs
      <4> QED BY <2>2, <4>1 DEF Stopped, Reasons, LimitReasons
    <3>2. Stage' \notin {"manifest", "returned"} /\ ~Over' =>
            budget'.stop_reason \in
              LimitReasons \cup {"no_valid_programs",
                                 "invalid_initial_programs"}
      <4>1. Stage' \notin {"manifest", "returned"} /\ ~Over' =>
              Stage \notin {"manifest", "returned"} /\ ~Over
        BY <2>1 DEF Course
      <4> QED BY <2>2, <4>1 DEF Stopped, Reasons, LimitReasons
    <3> QED BY <3>1, <3>2 DEF Reasons
  <2>8. NoValidTrue'
    <3>1. ~Over' => ~Over
      BY <2>1 DEF Course
    <3>2. Stage \in {"finish", "manifest", "returned"} =>
            /\ archive' = archive
            /\ Stage' \in {"finish", "manifest", "returned"} \/ Over'
      BY <2>1 DEF Course
    <3>3. BeginProposal => archive' = archive
      BY <2>1, <2>3 DEF Course
    <3> QED BY <2>2, <3>1, <3>2, <3>3, ReasonNames DEF Stopped, NoValidTrue
  <2>9. RefusalTrue'
    <3>1. ~Over' => ~Over
      BY <2>1 DEF Course
    <3>2. budget'.stop_reason = "invalid_initial_programs"
            <=> r = "invalid_initial_programs"
      BY <2>2, <2>3, ReasonNames
    <3>3. Stage \notin SeedPCs => strictInvalid' = strictInvalid
      BY <2>1 DEF Course, SeedPCs
    <3>4. /\ Stage = "proposal" /\ r # None
               => Stage' \in {"proposal", "finish"} \/ Over'
          /\ Stage \in {"finish", "manifest", "returned"} =>
               Stage' \in {"finish", "manifest", "returned"} \/ Over'
      BY <2>1 DEF Course
    <3>5. ~Over' /\ Stage' \notin SeedPCs =>
            (budget'.stop_reason = "invalid_initial_programs"
               <=> SeedsRefused')
      BY <2>4, <3>1, <3>2, <3>3 DEF Stopped, RefusalTrue, SeedsRefused
    <3>6. ~Over' /\ budget'.stop_reason = "invalid_initial_programs" =>
            /\ Stage' \in {"proposal", "finish", "manifest", "returned"}
            /\ budget'.consumed["max_llm_calls"] = 0
      BY <2>3, <3>1, <3>2, <3>4, ReasonNames DEF Stopped, RefusalTrue
    <3> QED BY <3>5, <3>6 DEF RefusalTrue
  <2>10. EndTrue'
    <3> SUFFICES ASSUME Stage' \in {"manifest", "returned"}
                 PROVE  EndTrue'
      BY DEF EndTrue
    <3>1. Stage \in {"manifest", "returned"}
      BY <1>4, <2>1 DEF Course
    <3>2. r \in STOP_REASONS /\ r # None
      BY <3>1, ReasonNames DEF Stopped, EndTrue
    <3>3. Kept /\ budget'.stop_reason = r
      BY <2>2, <2>3, <3>1, <3>2
    <3>4. archive' = archive /\ strictInvalid' = strictInvalid
      BY <2>1, <3>1 DEF Course
    <3>5. budget'.generations_completed = budget.generations_completed
      BY <2>3, <3>1, CountsStep DEF SameCounts
    <3>6. ASSUME NEW m \in LimitNames \ {"max_runtime_seconds"}
          PROVE  Exhausted(budget, m, TRUE, None, clockOut)
                   <=> Exhausted(budget', m, TRUE, None, clockOut')
      <4>1. RoleBudgetExhausted(budget, m, None)
              <=> RoleBudgetExhausted(budget', m, None)
        BY <3>3 DEF Kept, RoleBudgetExhausted, RoleScopeConsumed
      <4> QED BY <3>3, <4>1 DEF Kept, Exhausted
    <3> QED BY <3>1, <3>2, <3>3, <3>4, <3>5, <3>6
            DEF Stopped, EndTrue, SeedsRefused
  <2> QED BY <2>5, <2>6, <2>7, <2>8, <2>9, <2>10 DEF Stopped
<1> QED BY <1>1, <1>2, <1>3, <1>4

(***************************************************************************)
(* The invariant, and the theorems.                                        *)
(***************************************************************************)
LEMMA InitHistory == Init => RInv
<1> SUFFICES ASSUME Init PROVE RInv
  OBVIOUS
<1>1. Stage = "seed_check" /\ ~Over
  BY DEF Init, Stage, Over, AbortPCs
<1>2. /\ budget.generations_started = 0 /\ budget.generations_completed = 0
      /\ budget.stop_reason = None /\ budget.consumed["max_llm_calls"] = 0
  BY DEF Init, FreshBudget, Meters, EvaluatorMeters, LLMMeters
<1>3. InHand
  BY <1>1 DEF InHand, Init, SeedHand, ProposalHand
<1>4. Told
  <2>1. /\ history = {} /\ failures = {} /\ archive = {} /\ proposal = 0
        /\ NumSeeds \in Nat
    BY LoopAssumption DEF Init
  <2>2. ToldOnce /\ ToldRightly /\ OnlyEligible
    BY <2>1 DEF ToldOnce, ToldRightly, OnlyEligible
  <2>3. ToldInTime
    BY <1>1, <2>1 DEF ToldInTime, Logged
  <2>4. NoneLost
    BY <2>1 DEF NoneLost
  <2> QED BY <2>2, <2>3, <2>4 DEF Told
<1>5. Cached
  BY <1>1 DEF Init, Cached, Earned, EarnedBefore, Shared, HandShared,
              ProposalHand
<1>6. Generations
  <2>1. Begun
    BY <1>1, <1>2, LoopAssumption
    DEF Begun, Init, SeedPCs, ProposalWork, CandidateWork
  <2>2. Completed = {}
    BY DEF Completed, Init
  <2>3. Counted
    BY <1>1, <1>2, <2>2, FS_EmptySet DEF Counted, Logged
  <2> QED BY <2>1, <2>3 DEF Generations
<1>7. Stopped
  BY <1>1, <1>2, ReasonNames
  DEF Stopped, LimitTrue, SeedsFree, Reasons, NoValidTrue, RefusalTrue,
      EndTrue, LimitReasons, SeedPCs
<1> QED BY <1>3, <1>4, <1>5, <1>6, <1>7 DEF RInv

LEMMA HistoryStep == IInv /\ RInv /\ [Next]_vars => RInv'
<1> SUFFICES ASSUME IInv, RInv, [Next]_vars PROVE RInv'
  OBVIOUS
<1>1. InHand /\ Told /\ Cached /\ Generations /\ Stopped
  BY DEF RInv
<1>2. Silent \/ Telling
  BY StepsAre
<1>3. Stopped'
  BY <1>1, <1>2, StoppedStep
<1>4. CASE Telling
  BY <1>1, <1>3, <1>4, InHandStep, ToldStep, CachedStep, GenerationsStep
  DEF RInv
<1>5. CASE ~Telling
  <2>1. Silent
    BY <1>2, <1>5
  <2>2. Flow /\ UNCHANGED tellVars
    BY <2>1, SilentStep DEF IInv
  <2>3. InHand' /\ Told' /\ Cached'
    BY <1>1, <2>2, InHandQuiet, ToldQuiet, CachedQuiet
  <2>4. Generations'
    <3>1. CASE BeginProposal
      BY <1>1, <3>1, GenerationBegins
    <3>2. CASE ~BeginProposal
      <4>1. SameCounts
        BY <1>2, <1>5, <3>2, CountsStep DEF Telling
      <4> QED BY <1>1, <2>2, <3>2, <4>1, GenerationsQuiet DEF IInv
    <3> QED BY <3>1, <3>2
  <2> QED BY <1>3, <2>3, <2>4 DEF RInv
<1> QED BY <1>4, <1>5

LEMMA History == Spec => []RInv
<1>1. Init => RInv
  BY InitHistory
<1>2. IInv /\ RInv /\ [Next]_vars => RInv'
  BY HistoryStep
<1> QED BY <1>1, <1>2, Invariant, PTL DEF Spec

(* The evaluation cache is sound: what EvaluateFromCache replays is the    *)
(* verdict on that very workspace, made for a candidate whose mutation had *)
(* applied, and proposals that arrive at one workspace get one verdict.    *)
THEOREM CacheIsSound == Spec => []CacheSound
<1>1. RInv => CacheSound
  BY DEF RInv, Cached, Earned, Shared, Made, FromCache, CacheSound
<1> QED BY <1>1, History, PTL

(* No proposal is lost or told twice, and each is told by the right log:   *)
(* a rejected one is a failure as well as history, an eligible one is not, *)
(* none that is rejected is archived, and the generation counters are what *)
(* the history says, whatever was exhausted, refused or failed in between. *)
THEOREM ProposalsAreAccounted == Spec => []FailuresAccounted
<1>1. IInv /\ RInv => FailuresAccounted
  <2> SUFFICES ASSUME IInv, RInv PROVE FailuresAccounted
    OBVIOUS
  <2>1. /\ ToldOnce /\ ToldRightly /\ NoneLost /\ OnlyEligible
        /\ Begun /\ Counted
    BY DEF RInv, Told, Generations
  <2>2. RejectsAreFailures
    BY <2>1 DEF RejectsAreFailures, OnlyEligible, ToldRightly
  <2>3. ASSUME NEW i \in (NumSeeds + 1) .. (NumSeeds + proposal)
        PROVE  LET told == {c \in history : c.id = i} IN
               /\ Cardinality(told) <= 1
               /\ told = {} => i \in failures
    <3> DEFINE told == {c \in history : c.id = i}
    <3>1. i \in Int /\ i > NumSeeds
      BY LoopAssumption DEF IInv, TypeOK, LoopOK
    <3>2. told = {} => i \in failures
      BY <2>1 DEF NoneLost
    <3>3. Cardinality(told) <= 1
      <4>1. CASE told = {}
        BY <4>1, FS_EmptySet
      <4>2. CASE told # {}
        <5>1. PICK c \in told : TRUE
          BY <4>2
        <5>2. \A d \in told : d = c
          BY <2>1, <3>1, <5>1 DEF ToldOnce
        <5> HIDE DEF told
        <5>3. told = {c}
          BY <5>1, <5>2
        <5> QED BY <5>3, FS_Singleton
      <4> QED BY <4>1, <4>2
    <3> QED BY <3>2, <3>3
  <2>4. pc = "proposal" => Stage = "proposal" /\ ~Over
    BY DEF Stage, Over, AbortPCs
  <2>5. pc = "proposal" =>
          budget.generations_completed = Cardinality(Completed)
    <3>1. budget.generations_completed \in Int
      BY DEF IInv, TypeOK, LedgerOK, Budget
    <3> QED BY <2>1, <2>4, <3>1, CompletedType DEF Counted, Logged
  <2>6. ProposalsAccounted
    BY <2>1, <2>3, <2>4, <2>5
    DEF ProposalsAccounted, ToldOnce, Begun, Completed
  <2> QED BY <2>2, <2>6 DEF FailuresAccounted
<1> QED BY <1>1, Invariant, History, PTL

(* The stop reason in the result of a run that returned is true, for every *)
(* set of limits: a limit named is exhausted, "max_generations" is said if *)
(* and only if every generation completed and nothing else stopped the     *)
(* run, and a refusal of the seeds cost no LLM call.                       *)
THEOREM StopReasonIsTrue == Spec => []StopReasonTruthful
<1>1. RInv => StopReasonTruthful
  <2> SUFFICES ASSUME RInv, pc = "returned" PROVE StopReasonTruthful
    BY DEF StopReasonTruthful
  <2>1. Stage = "returned" /\ ~Over
    BY DEF Stage, Over, AbortPCs
  <2>2. /\ LimitTrue /\ NoValidTrue /\ RefusalTrue /\ EndTrue
    BY DEF RInv, Stopped
  <2>3. Stage \notin SeedPCs
    BY <2>1 DEF SeedPCs
  <2> QED BY <2>1, <2>2, <2>3
          DEF LimitTrue, NoValidTrue, RefusalTrue, EndTrue, SeedsRefused,
              StopReasonTruthful
<1> QED BY <1>1, History, PTL

(***************************************************************************)
(* Budgets that differ by their stop reason alone, and their replay.       *)
(***************************************************************************)
SameSpending(b, c) ==
  /\ b.consumed = c.consumed /\ b.byRole = c.byRole
  /\ b.seed_evaluations = c.seed_evaluations
  /\ b.candidate_evaluations = c.candidate_evaluations
  /\ b.generations_started = c.generations_started
  /\ b.generations_completed = c.generations_completed

LEMMA SpendingIs ==
  ASSUME NEW b \in Budget, NEW c \in Budget
  PROVE  /\ SameSpending(b, c) => Consumption(b) = Consumption(c)
         /\ SameSpending(b, c) /\ b.stop_reason = c.stop_reason => b = c
  BY DEF Budget, SameSpending, Consumption

(* A check and a stop reason spend nothing. *)
LEMMA ChecksSpendNothing ==
  ASSUME NEW b \in Budget, NEW includeLLM \in BOOLEAN, NEW role,
         NEW late \in BOOLEAN, NEW reason
  PROVE  /\ SameSpending(CheckLimits(b, includeLLM, role, late), b)
         /\ SameSpending([b EXCEPT !.stop_reason = reason], b)
  BY DEF CheckLimits, Budget, SameSpending

LEMMA FinishSpendsNothing ==
  ASSUME NEW b \in Budget, NEW found \in BOOLEAN, NEW late \in BOOLEAN
  PROVE  SameSpending(Finish(b, found, late), b)
<1> DEFINE c == CheckLimits(b, TRUE, None, late)
<1>1. c \in Budget /\ SameSpending(c, b)
  BY ChecksSpendNothing, CheckLimitsType
<1>2. \/ Finish(b, found, late) = c
      \/ \E reason : Finish(b, found, late) = [c EXCEPT !.stop_reason = reason]
  BY DEF Finish
<1> HIDE DEF c
<1>3. ASSUME NEW reason PROVE SameSpending([c EXCEPT !.stop_reason = reason], c)
  BY <1>1, ChecksSpendNothing
<1> QED BY <1>1, <1>2, <1>3 DEF SameSpending

LEMMA ProposalSpendsNothing ==
  ASSUME NEW b \in Budget, clockOut \in BOOLEAN
  PROVE  CheckBeforeProposal(b) \in Budget /\ SameSpending(CheckBeforeProposal(b), b)
<1> DEFINE c == CheckBeforeEvaluation(b, clockOut)
<1>1. c \in Budget /\ SameSpending(c, b)
  BY ChecksSpendNothing, CheckLimitsType DEF CheckBeforeEvaluation
<1> HIDE DEF c
<1>2. SameSpending(CheckBeforeLLMCall(c, Role, clockOut), c)
  BY <1>1, ChecksSpendNothing DEF CheckBeforeLLMCall
<1>3. CheckBeforeLLMCall(c, Role, clockOut) \in Budget
  BY <1>1, CheckLimitsType DEF CheckBeforeLLMCall
<1> QED BY <1>1, <1>2, <1>3 DEF CheckBeforeProposal, SameSpending, c

(* The records of calls, taken apart. *)
ConsumedBy(b, calls, records, usage) ==
  [m \in Meters |->
     CASE m = "max_llm_calls" -> b.consumed[m] + calls
       [] m \in LLMMeters \ {"max_llm_calls"}
            -> b.consumed[m] + records * usage[m]
       [] OTHER -> b.consumed[m]]
ByRoleOf(b, role, records, usage) ==
  [m \in RoleMeters |->
     [r \in Roles |->
        IF r = role THEN b.byRole[m][r] + records * usage[RunMeter[m]]
                    ELSE b.byRole[m][r]]]

LEMMA RecordLLMCallsIs ==
  ASSUME NEW b \in Budget, NEW role, NEW calls, NEW records, NEW usage
  PROVE  LET c == RecordLLMCalls(b, role, calls, records, usage) IN
         /\ c.consumed = ConsumedBy(b, calls, records, usage)
         /\ c.byRole = ByRoleOf(b, role, records, usage)
         /\ c.seed_evaluations = b.seed_evaluations
         /\ c.candidate_evaluations = b.candidate_evaluations
         /\ c.generations_started = b.generations_started
         /\ c.generations_completed = b.generations_completed
         /\ c.stop_reason = b.stop_reason
<1> DEFINE x == ConsumedBy(b, calls, records, usage)
           y == ByRoleOf(b, role, records, usage)
<1>1. RecordLLMCalls(b, role, calls, records, usage) =
        [b EXCEPT !.consumed = x, !.byRole = y]
  BY DEF RecordLLMCalls, ConsumedBy, ByRoleOf
<1> HIDE DEF x, y
<1>2. /\ [b EXCEPT !.consumed = x, !.byRole = y].consumed = x
      /\ [b EXCEPT !.consumed = x, !.byRole = y].byRole = y
      /\ [b EXCEPT !.consumed = x, !.byRole = y].seed_evaluations
           = b.seed_evaluations
      /\ [b EXCEPT !.consumed = x, !.byRole = y].candidate_evaluations
           = b.candidate_evaluations
      /\ [b EXCEPT !.consumed = x, !.byRole = y].generations_started
           = b.generations_started
      /\ [b EXCEPT !.consumed = x, !.byRole = y].generations_completed
           = b.generations_completed
      /\ [b EXCEPT !.consumed = x, !.byRole = y].stop_reason = b.stop_reason
  BY DEF Budget
<1> QED BY <1>1, <1>2 DEF x, y

LEMMA RecordEvaluationIs ==
  ASSUME NEW b \in Budget, NEW seed \in BOOLEAN, NEW acc
  PROVE  LET c == RecordEvaluation(b, seed, acc) IN
         /\ c.consumed =
              [m \in Meters |->
                 CASE m = "max_evaluations" -> b.consumed[m] + 1
                   [] m \in EvaluatorMeters \ {"max_evaluations"}
                        -> b.consumed[m] + acc[m]
                   [] OTHER -> b.consumed[m]]
         /\ c.byRole = b.byRole
         /\ c.seed_evaluations =
              IF seed THEN b.seed_evaluations + 1 ELSE b.seed_evaluations
         /\ c.candidate_evaluations =
              IF seed THEN b.candidate_evaluations
                      ELSE b.candidate_evaluations + 1
         /\ c.generations_started = b.generations_started
         /\ c.generations_completed = b.generations_completed
<1> DEFINE x == [m \in Meters |->
                   CASE m = "max_evaluations" -> b.consumed[m] + 1
                     [] m \in EvaluatorMeters \ {"max_evaluations"}
                          -> b.consumed[m] + acc[m]
                     [] OTHER -> b.consumed[m]]
           y == IF seed THEN b.seed_evaluations + 1 ELSE b.seed_evaluations
           z == IF seed THEN b.candidate_evaluations
                        ELSE b.candidate_evaluations + 1
<1>1. RecordEvaluation(b, seed, acc) =
        [b EXCEPT !.consumed = x, !.seed_evaluations = y,
                  !.candidate_evaluations = z]
  BY DEF RecordEvaluation
<1> HIDE DEF x, y, z
<1>2. /\ [b EXCEPT !.consumed = x, !.seed_evaluations = y,
                   !.candidate_evaluations = z].consumed = x
      /\ [b EXCEPT !.consumed = x, !.seed_evaluations = y,
                   !.candidate_evaluations = z].byRole = b.byRole
      /\ [b EXCEPT !.consumed = x, !.seed_evaluations = y,
                   !.candidate_evaluations = z].seed_evaluations = y
      /\ [b EXCEPT !.consumed = x, !.seed_evaluations = y,
                   !.candidate_evaluations = z].candidate_evaluations = z
      /\ [b EXCEPT !.consumed = x, !.seed_evaluations = y,
                   !.candidate_evaluations = z].generations_started
           = b.generations_started
      /\ [b EXCEPT !.consumed = x, !.seed_evaluations = y,
                   !.candidate_evaluations = z].generations_completed
           = b.generations_completed
  BY DEF Budget
<1> QED BY <1>1, <1>2 DEF x, y, z

(* What is recorded depends on what was spent before, on nothing else. *)
LEMMA RecordsFollow ==
  ASSUME NEW b \in Budget, NEW c \in Budget, SameSpending(b, c)
  PROVE  /\ \A seed \in BOOLEAN : \A acc :
              SameSpending(RecordEvaluation(b, seed, acc),
                           RecordEvaluation(c, seed, acc))
         /\ \A role, calls, records, usage :
              SameSpending(RecordLLMCalls(b, role, calls, records, usage),
                           RecordLLMCalls(c, role, calls, records, usage))
         /\ SameSpending(RecordGenerationStart(b), RecordGenerationStart(c))
         /\ SameSpending(RecordGenerationComplete(b), RecordGenerationComplete(c))
<1>1. ASSUME NEW seed \in BOOLEAN, NEW acc
      PROVE  SameSpending(RecordEvaluation(b, seed, acc),
                          RecordEvaluation(c, seed, acc))
  <2> DEFINE x == RecordEvaluation(b, seed, acc)
             y == RecordEvaluation(c, seed, acc)
  <2>0. /\ b.consumed = c.consumed
        /\ b.seed_evaluations = c.seed_evaluations
        /\ b.candidate_evaluations = c.candidate_evaluations
    BY DEF SameSpending
  <2> DEFINE spent(a) == [m \in Meters |->
                            CASE m = "max_evaluations" -> a.consumed[m] + 1
                              [] m \in EvaluatorMeters \ {"max_evaluations"}
                                   -> a.consumed[m] + acc[m]
                              [] OTHER -> a.consumed[m]]
             seeds(a) == IF seed THEN a.seed_evaluations + 1
                                 ELSE a.seed_evaluations
             others(a) == IF seed THEN a.candidate_evaluations
                                  ELSE a.candidate_evaluations + 1
  <2>3. /\ x.consumed = spent(b) /\ x.seed_evaluations = seeds(b)
        /\ x.byRole = b.byRole /\ x.candidate_evaluations = others(b)
        /\ x.generations_started = b.generations_started
        /\ x.generations_completed = b.generations_completed
    BY RecordEvaluationIs
  <2>4. /\ y.consumed = spent(c) /\ y.seed_evaluations = seeds(c)
        /\ y.byRole = c.byRole /\ y.candidate_evaluations = others(c)
        /\ y.generations_started = c.generations_started
        /\ y.generations_completed = c.generations_completed
    BY RecordEvaluationIs
  <2>5. spent(b) = spent(c) /\ seeds(b) = seeds(c) /\ others(b) = others(c)
    BY <2>0
  <2>6. SameSpending(x, y)
    <3> HIDE DEF x, y, spent, seeds, others
    <3> QED BY <2>3, <2>4, <2>5 DEF SameSpending
  <2> QED BY <2>6
<1>2. ASSUME NEW role, NEW calls, NEW records, NEW usage
      PROVE  SameSpending(RecordLLMCalls(b, role, calls, records, usage),
                          RecordLLMCalls(c, role, calls, records, usage))
  <2> DEFINE x == RecordLLMCalls(b, role, calls, records, usage)
             y == RecordLLMCalls(c, role, calls, records, usage)
  <2>1. /\ x.consumed = ConsumedBy(b, calls, records, usage)
        /\ x.byRole = ByRoleOf(b, role, records, usage)
        /\ x.seed_evaluations = b.seed_evaluations
        /\ x.candidate_evaluations = b.candidate_evaluations
        /\ x.generations_started = b.generations_started
        /\ x.generations_completed = b.generations_completed
    BY RecordLLMCallsIs
  <2>2. /\ y.consumed = ConsumedBy(c, calls, records, usage)
        /\ y.byRole = ByRoleOf(c, role, records, usage)
        /\ y.seed_evaluations = c.seed_evaluations
        /\ y.candidate_evaluations = c.candidate_evaluations
        /\ y.generations_started = c.generations_started
        /\ y.generations_completed = c.generations_completed
    BY RecordLLMCallsIs
  <2>3. /\ ConsumedBy(b, calls, records, usage) = ConsumedBy(c, calls, records, usage)
        /\ ByRoleOf(b, role, records, usage) = ByRoleOf(c, role, records, usage)
    BY DEF SameSpending, ConsumedBy, ByRoleOf
  <2>4. SameSpending(x, y)
    <3> HIDE DEF x, y
    <3> QED BY <2>1, <2>2, <2>3 DEF SameSpending
  <2> QED BY <2>4
<1>3. /\ SameSpending(RecordGenerationStart(b), RecordGenerationStart(c))
      /\ SameSpending(RecordGenerationComplete(b), RecordGenerationComplete(c))
  BY DEF SameSpending, RecordGenerationStart, RecordGenerationComplete, Budget
<1> QED BY <1>1, <1>2, <1>3

(* Calls may be recorded one by one. *)
LEMMA OneByOne ==
  ASSUME NEW b \in Budget, NEW role \in Roles, NEW usage \in Usage,
         NEW n \in Nat, NEW k \in Nat, NEW d \in 0 .. 1
  PROVE  /\ RecordLLMCalls(RecordLLMCalls(b, role, n, k, usage),
                           role, 1, d, usage)
              = RecordLLMCalls(b, role, n + 1, k + d, usage)
         /\ RecordLLMCalls(b, role, 0, 0, usage) = b
<1> DEFINE c == RecordLLMCalls(b, role, n, k, usage)
           e == RecordLLMCalls(b, role, n + 1, k + d, usage)
           f == RecordLLMCalls(c, role, 1, d, usage)
           z == RecordLLMCalls(b, role, 0, 0, usage)
<1>0. usage \in [LLMMeters -> Nat] /\ k + d \in Nat /\ d \in Nat
  BY DEF Usage
<1>1. c \in Budget /\ e \in Budget /\ z \in Budget
  BY <1>0, RecordLLMCallsType
<1>2. f \in Budget
  <2> HIDE DEF c
  <2> QED BY <1>0, <1>1, RecordLLMCallsType
<1>3. ASSUME NEW m \in LLMMeters
      PROVE  /\ usage[m] \in Nat /\ 0 * usage[m] = 0
             /\ (k + d) * usage[m] = k * usage[m] + d * usage[m]
             /\ k * usage[m] \in Nat /\ d * usage[m] \in Nat
  <2>1. PICK u \in Nat : u = usage[m]
    BY <1>0
  <2>2. /\ (k + d) * u = k * u + d * u /\ 0 * u = 0
        /\ k * u \in Nat /\ d * u \in Nat
    BY <1>0
  <2> QED BY <2>1, <2>2
<1>4. \A m \in RoleMeters : RunMeter[m] \in LLMMeters
  BY DEF RunMeter, RoleMeters, LLMMeters
<1>5. /\ b.consumed \in [Meters -> Nat]
      /\ b.byRole \in [RoleMeters -> [Roles -> Nat]]
  BY DEF Budget
<1>6. /\ c.consumed = ConsumedBy(b, n, k, usage)
      /\ c.byRole = ByRoleOf(b, role, k, usage)
  BY RecordLLMCallsIs
<1>7. ConsumedBy(c, 1, d, usage) = ConsumedBy(b, n + 1, k + d, usage)
  <2>1. ASSUME NEW m \in Meters
        PROVE  ConsumedBy(c, 1, d, usage)[m]
                 = ConsumedBy(b, n + 1, k + d, usage)[m]
    <3>1. b.consumed[m] \in Nat
      BY <1>5
    <3> HIDE DEF c
    <3>2. CASE m = "max_llm_calls"
      BY <1>6, <3>1, <3>2 DEF ConsumedBy
    <3>3. CASE m \in LLMMeters \ {"max_llm_calls"}
      <4>1. /\ ConsumedBy(c, 1, d, usage)[m] = c.consumed[m] + d * usage[m]
            /\ c.consumed[m] = b.consumed[m] + k * usage[m]
            /\ ConsumedBy(b, n + 1, k + d, usage)[m]
                 = b.consumed[m] + (k + d) * usage[m]
        BY <1>6, <3>3 DEF ConsumedBy
      <4> QED BY <1>3, <3>1, <3>3, <4>1
    <3>4. CASE m \notin LLMMeters \cup {"max_llm_calls"}
      BY <1>6, <3>4 DEF ConsumedBy
    <3> QED BY <3>2, <3>3, <3>4
  <2> QED BY <2>1 DEF ConsumedBy
<1>8. ByRoleOf(c, role, d, usage) = ByRoleOf(b, role, k + d, usage)
  <2>1. ASSUME NEW m \in RoleMeters, NEW r \in Roles
        PROVE  ByRoleOf(c, role, d, usage)[m][r]
                 = ByRoleOf(b, role, k + d, usage)[m][r]
    <3>1. b.byRole[m][r] \in Nat
      BY <1>5
    <3> HIDE DEF c
    <3>2. CASE r = role
      <4>1. /\ ByRoleOf(c, role, d, usage)[m][r]
                 = c.byRole[m][r] + d * usage[RunMeter[m]]
            /\ c.byRole[m][r] = b.byRole[m][r] + k * usage[RunMeter[m]]
            /\ ByRoleOf(b, role, k + d, usage)[m][r]
                 = b.byRole[m][r] + (k + d) * usage[RunMeter[m]]
        BY <1>6, <3>2 DEF ByRoleOf
      <4> QED BY <1>3, <1>4, <3>1, <4>1
    <3>3. CASE r # role
      BY <1>6, <3>3 DEF ByRoleOf
    <3> QED BY <3>2, <3>3
  <2> QED BY <2>1 DEF ByRoleOf
<1>9. SameSpending(f, e) /\ f.stop_reason = e.stop_reason
  <2> HIDE DEF c
  <2>1. /\ f.consumed = ConsumedBy(c, 1, d, usage)
        /\ f.byRole = ByRoleOf(c, role, d, usage)
        /\ f.seed_evaluations = c.seed_evaluations
        /\ f.candidate_evaluations = c.candidate_evaluations
        /\ f.generations_started = c.generations_started
        /\ f.generations_completed = c.generations_completed
        /\ f.stop_reason = c.stop_reason
    BY <1>1, RecordLLMCallsIs
  <2>2. /\ e.consumed = ConsumedBy(b, n + 1, k + d, usage)
        /\ e.byRole = ByRoleOf(b, role, k + d, usage)
        /\ e.seed_evaluations = b.seed_evaluations
        /\ e.candidate_evaluations = b.candidate_evaluations
        /\ e.generations_started = b.generations_started
        /\ e.generations_completed = b.generations_completed
        /\ e.stop_reason = b.stop_reason
    BY RecordLLMCallsIs
  <2>3. /\ c.seed_evaluations = b.seed_evaluations
        /\ c.candidate_evaluations = b.candidate_evaluations
        /\ c.generations_started = b.generations_started
        /\ c.generations_completed = b.generations_completed
        /\ c.stop_reason = b.stop_reason
    BY RecordLLMCallsIs DEF c
  <2> QED BY <1>7, <1>8, <2>1, <2>2, <2>3 DEF SameSpending
<1>10. SameSpending(z, b) /\ z.stop_reason = b.stop_reason
  <2>1. ConsumedBy(b, 0, 0, usage) = b.consumed
    <3>1. ASSUME NEW m \in Meters
          PROVE  ConsumedBy(b, 0, 0, usage)[m] = b.consumed[m]
      <4>1. b.consumed[m] \in Nat
        BY <1>5
      <4> QED BY <1>3, <4>1 DEF ConsumedBy
    <3> QED BY <1>5, <3>1 DEF ConsumedBy
  <2>2. ByRoleOf(b, role, 0, usage) = b.byRole
    <3>1. ASSUME NEW m \in RoleMeters, NEW r \in Roles
          PROVE  ByRoleOf(b, role, 0, usage)[m][r] = b.byRole[m][r]
      <4>1. b.byRole[m][r] \in Nat
        BY <1>5
      <4> QED BY <1>3, <1>4, <4>1 DEF ByRoleOf
    <3>2. ASSUME NEW m \in RoleMeters
          PROVE  ByRoleOf(b, role, 0, usage)[m] = b.byRole[m]
      <4>1. b.byRole[m] \in [Roles -> Nat]
        BY <1>5
      <4>2. ByRoleOf(b, role, 0, usage)[m]
              = [r \in Roles |-> ByRoleOf(b, role, 0, usage)[m][r]]
        BY DEF ByRoleOf
      <4> QED BY <3>1, <4>1, <4>2
    <3> QED BY <1>5, <3>2 DEF ByRoleOf
  <2> QED BY <2>1, <2>2, RecordLLMCallsIs DEF SameSpending
<1> HIDE DEF c, e, f, z
<1>11. f = e /\ z = b
  BY <1>1, <1>2, <1>9, <1>10, SpendingIs
<1> QED BY <1>11 DEF f, e, z, c

(***************************************************************************)
(* Replaying the pending events, budget by budget.                         *)
(***************************************************************************)
LEMMA LeastNumber ==
  ASSUME NEW S \in SUBSET Nat, S # {}
  PROVE  \E i \in S : \A j \in S : i <= j
<1>1. IsWellFoundedOn(OpToRel(<, Nat), Nat)
  BY NatLessThanWellFounded
<1>2. PICK i \in S : \A j \in S : ~(<<j, i>> \in OpToRel(<, Nat))
  BY <1>1, WFMin
<1>3. \A j \in S : ~(j < i)
  BY <1>2 DEF OpToRel
<1> QED BY <1>3

(* h[i] is the budget after i of the events.                               *)
Bridges(h, b, events) ==
  /\ h = [i \in 0 .. Len(events) |-> h[i]]
  /\ h[0] = b
  /\ \A i \in 1 .. Len(events) :
       h[i] = ApplyControllerBudgetEvent(h[i - 1], events[i])

LEMMA BridgesAlike ==
  ASSUME NEW events \in Seq(Event), NEW b, NEW h, NEW k,
         Bridges(h, b, events), Bridges(k, b, events)
  PROVE  h[Len(events)] = k[Len(events)]
<1> DEFINE bad == {i \in 0 .. Len(events) : h[i] # k[i]}
<1>0. Len(events) \in Nat
  OBVIOUS
<1>1. CASE bad # {}
  <2>1. bad \in SUBSET Nat
    BY <1>0
  <2>2. PICK i \in bad : \A j \in bad : i <= j
    <3> HIDE DEF bad
    <3> QED BY <1>1, <2>1, LeastNumber
  <2>3. i # 0
    BY <2>2 DEF Bridges
  <2>4. i \in 1 .. Len(events) /\ i - 1 \in 0 .. Len(events) /\ i - 1 \notin bad
    BY <1>0, <2>2, <2>3
  <2>5. h[i - 1] = k[i - 1]
    BY <2>4
  <2> QED BY <2>2, <2>4, <2>5 DEF Bridges
<1> QED BY <1>0, <1>1

LEMMA ReplayIs ==
  ASSUME TypeOK, NEW h, Bridges(h, stream.replay, pending)
  PROVE  ReplayedWithPending = h[Len(pending)]
<1> DEFINE n == Len(pending)
           turn(f) == [i \in 0 .. n |->
                         IF i = 0 THEN stream.replay
                         ELSE ApplyControllerBudgetEvent(f[i - 1], pending[i])]
           replayed == CHOOSE f : f = turn(f)
<1>0. pending \in Seq(Event) /\ n \in Nat
  BY DEF TypeOK
<1>1. h = turn(h)
  BY <1>0 DEF Bridges
<1>2. replayed = turn(replayed)
  <2> HIDE DEF turn
  <2> QED BY <1>1
<1>3. ReplayedWithPending = replayed[n]
  BY DEF ReplayedWithPending
<1>4. Bridges(replayed, stream.replay, pending)
  <2> HIDE DEF replayed
  <2> QED BY <1>0, <1>2 DEF Bridges
<1> HIDE DEF replayed
<1> QED BY <1>0, <1>3, <1>4, BridgesAlike

(***************************************************************************)
(* The ledger: the events and the budget.                                  *)
(***************************************************************************)
Clean == faults = 0 /\ ~interrupted
Emitting == pc \in {"emit", "llm_emit", "abort_emit"}
Closed == Where \in {"manifest", "abort_manifest"} \cup Terminal

(* The budget the pending events lead to, before and after the run's stop. *)
Matches(b, c, closed) == SameSpending(b, c) /\ (closed => b = c)
Balanced(b) == Matches(b, budget, Closed)

Ledger ==
  Clean =>
    /\ stream.ordered /\ sequence = stream.lines
    /\ Emitting <=> pending # <<>>
    /\ \E h : /\ Bridges(h, stream.replay, pending)
              /\ Balanced(h[Len(pending)])

LEMMA LedgerOpen ==
  ASSUME Ledger, Clean, pending = <<>>
  PROVE  Balanced(stream.replay)
<1>1. PICK h : Bridges(h, stream.replay, pending) /\ Balanced(h[Len(pending)])
  BY DEF Ledger
<1>2. h[0] = stream.replay /\ Len(pending) = 0
  BY <1>1 DEF Bridges
<1> QED BY <1>1, <1>2

LEMMA LedgerEmpty ==
  ASSUME stream'.ordered, sequence' = stream'.lines, ~Emitting', pending' = <<>>,
         Matches(stream'.replay, budget', Closed')
  PROVE  Ledger'
<1> DEFINE h == [i \in 0 .. 0 |-> stream'.replay]
<1>1. Len(pending') = 0
  OBVIOUS
<1>2. /\ h = [i \in 0 .. Len(pending') |-> h[i]] /\ h[0] = stream'.replay
      /\ 1 .. Len(pending') = {} /\ h[Len(pending')] = stream'.replay
  BY <1>1
<1> HIDE DEF h
<1>3. Bridges(h, stream'.replay, pending')
  BY <1>2 DEF Bridges
<1>4. Matches(h[Len(pending')], budget', Closed')
  BY <1>2
<1> QED BY <1>3, <1>4 DEF Ledger, Balanced

(* One event is recorded.                                                  *)
LEMMA LedgerOne ==
  ASSUME NEW e, stream' = stream, sequence' = sequence,
         stream.ordered, sequence = stream.lines, Emitting', pending' = <<e>>,
         Matches(ApplyControllerBudgetEvent(stream.replay, e), budget', Closed')
  PROVE  Ledger'
<1> DEFINE b == stream.replay
           c == ApplyControllerBudgetEvent(b, e)
           h == [i \in 0 .. 1 |-> IF i = 0 THEN b ELSE c]
<1>1. Len(pending') = 1 /\ pending'[1] = e /\ pending' # <<>>
  OBVIOUS
<1>2. /\ h = [i \in 0 .. 1 |-> h[i]] /\ h[0] = b /\ h[1] = c
  OBVIOUS
<1>3. c = ApplyControllerBudgetEvent(h[0], pending'[1])
  BY <1>1, <1>2
<1> HIDE DEF h, c
<1>4. Bridges(h, stream'.replay, pending')
  BY <1>1, <1>2, <1>3 DEF Bridges
<1>5. Matches(c, budget', Closed')
  BY DEF c
<1>6. Matches(h[Len(pending')], budget', Closed')
  BY <1>1, <1>2, <1>5
<1> QED BY <1>1, <1>4, <1>6 DEF Ledger, Balanced

LEMMA LedgerKept ==
  ASSUME Ledger, UNCHANGED <<pc, ledgerVars>>, Clean' => Clean
  PROVE  Ledger'
<1>1. ASSUME Clean' PROVE Ledger'
  BY <1>1 DEF Ledger, ledgerVars, Emitting, Balanced, Closed, Where
<1>2. ASSUME ~Clean' PROVE Ledger'
  BY <1>2 DEF Ledger
<1> QED BY <1>1, <1>2

(* A step between two durable writes, away from the events.                *)
LEMMA LedgerQuiet ==
  ASSUME TypeOK, Ledger, Clean' => Clean, UNCHANGED <<stream, sequence, pending>>,
         ~Emitting, ~Emitting', SameSpending(budget', budget),
         Closed' => Closed /\ budget' = budget
  PROVE  Ledger'
<1>1. CASE Clean'
  <2>1. pending = <<>> /\ stream.ordered /\ sequence = stream.lines
    BY <1>1 DEF Ledger
  <2>2. Balanced(stream.replay)
    BY <1>1, <2>1, LedgerOpen
  <2>3. Matches(stream'.replay, budget', Closed')
    <3>1. SameSpending(stream'.replay, budget')
      BY <2>2 DEF Balanced, Matches, SameSpending
    <3>2. Closed' => stream'.replay = budget'
      BY <2>2 DEF Balanced, Matches
    <3> QED BY <3>1, <3>2 DEF Matches
  <2> QED BY <2>1, <2>3, LedgerEmpty
<1>2. CASE ~Clean'
  BY <1>2 DEF Ledger
<1> QED BY <1>1, <1>2

(* Before an event is recorded, the stream replays to what was spent.      *)
LEMMA LedgerBefore ==
  ASSUME TypeOK, Ledger, Clean, ~Emitting
  PROVE  /\ stream.ordered /\ sequence = stream.lines /\ pending = <<>>
         /\ SameSpending(stream.replay, budget)
         /\ stream.replay \in Budget /\ budget \in Budget
<1>1. pending = <<>> /\ stream.ordered /\ sequence = stream.lines
  BY DEF Ledger
<1>2. SameSpending(stream.replay, budget)
  BY <1>1, LedgerOpen DEF Balanced, Matches
<1> QED BY <1>1, <1>2 DEF TypeOK, Stream

LEMMA LedgerRecords ==
  ASSUME TypeOK, Ledger, Clean, ~Emitting,
         NEW e, NEW b, NEW next, RecordThenEmit(b, <<e>>, next), pc' = "emit",
         next \notin {"manifest", "abort_manifest"} \cup Terminal,
         SameSpending(ApplyControllerBudgetEvent(stream.replay, e), b)
  PROVE  Ledger'
<1>1. stream.ordered /\ sequence = stream.lines
  BY LedgerBefore
<1>2. /\ stream' = stream /\ sequence' = sequence /\ pending' = <<e>>
      /\ budget' = b /\ after' = next
  BY DEF RecordThenEmit
<1>3. Emitting' /\ ~Closed'
  BY <1>2 DEF Emitting, Closed, Where
<1>4. Matches(ApplyControllerBudgetEvent(stream.replay, e), budget', Closed')
  BY <1>2, <1>3 DEF Matches
<1> QED BY <1>1, <1>2, <1>3, <1>4, LedgerOne

LEMMA LedgerStops ==
  ASSUME TypeOK, Ledger, Clean, ~Emitting,
         NEW b \in Budget, NEW next, SameSpending(b, budget),
         RecordThenEmit(b, <<StopEvent(b.stop_reason)>>, next), Emitting'
  PROVE  Ledger'
<1> DEFINE e == StopEvent(b.stop_reason)
           c == ApplyControllerBudgetEvent(stream.replay, e)
<1>1. /\ stream.ordered /\ sequence = stream.lines
      /\ SameSpending(stream.replay, budget) /\ stream.replay \in Budget
  BY LedgerBefore
<1>2. /\ stream' = stream /\ sequence' = sequence /\ pending' = <<e>>
      /\ budget' = b
  BY DEF RecordThenEmit
<1>3. c = [stream.replay EXCEPT !.stop_reason = b.stop_reason]
  BY DEF ApplyControllerBudgetEvent, StopEvent
<1>4. c \in Budget /\ c.stop_reason = b.stop_reason
  BY <1>1, <1>3 DEF Budget
<1>5. SameSpending(c, stream.replay)
  BY <1>1, <1>3 DEF SameSpending, Budget
<1> HIDE DEF c
<1>6. SameSpending(c, b)
  BY <1>1, <1>5 DEF SameSpending
<1>7. c = b
  BY <1>4, <1>6, SpendingIs
<1>8. Matches(c, budget', Closed')
  BY <1>2, <1>6, <1>7 DEF Matches
<1> QED BY <1>1, <1>2, <1>8, LedgerOne DEF c

(* Calls are counted at once in the budget, and one by one in the events.  *)
LEMMA LedgerCalls ==
  ASSUME TypeOK, Control, Ledger, LLMCall
  PROVE  Ledger'
<1>1. PICK n \in 0 .. CallAttempts, kept \in 0 .. MaxCallAttempts, u \in Usages :
        \E next \in CallOutcomes(n) :
          LET calls == IF n = 0 THEN 1 ELSE n IN
          /\ kept <= n
          /\ n > 0 => kept > 0
          /\ RecordThenEmit(RecordLLMCalls(budget, Role, calls, kept, u),
                            LLMBudgetEvents(calls, kept, u), next)
          /\ interrupted' = (interrupted \/ next = "abort")
          /\ exc' = IF next = "abort" THEN "KeyboardInterrupt" ELSE exc
  BY DEF LLMCall
<1>2. PICK next \in CallOutcomes(n) :
        LET calls == IF n = 0 THEN 1 ELSE n IN
        /\ kept <= n
        /\ n > 0 => kept > 0
        /\ RecordThenEmit(RecordLLMCalls(budget, Role, calls, kept, u),
                          LLMBudgetEvents(calls, kept, u), next)
        /\ interrupted' = (interrupted \/ next = "abort")
        /\ exc' = IF next = "abort" THEN "KeyboardInterrupt" ELSE exc
  BY <1>1
<1>3. CASE ~Clean'
  BY <1>3 DEF Ledger
<1>4. CASE Clean'
  <2>0. /\ pc = "call" /\ pc' = "llm_emit" /\ faults' = faults
    BY DEF LLMCall
  <2>1. Clean /\ ~Emitting /\ next # "abort"
    BY <1>2, <1>4, <2>0 DEF Clean, Emitting
  <2>2. /\ stream.ordered /\ sequence = stream.lines
        /\ SameSpending(stream.replay, budget)
        /\ stream.replay \in Budget /\ budget \in Budget
    BY <2>1, LedgerBefore
  <2>3. PICK calls \in Nat : calls = IF n = 0 THEN 1 ELSE n
    <3>1. CallAttempts \in Nat
      BY CallAttemptsType DEF TypeOK, LedgerOK
    <3> QED BY <3>1
  <2>4. /\ calls \in Nat /\ calls >= 1 /\ kept \in Nat /\ kept <= calls
        /\ u \in Usage /\ Role \in Roles
    <3>1. CallAttempts \in Nat
      BY CallAttemptsType DEF TypeOK, LedgerOK
    <3>2. u \in Usage /\ Role \in Roles
      BY DataAssumption, LoopAssumption
    <3> QED BY <1>2, <2>3, <3>1, <3>2, LoopAssumption
  <2>5. /\ stream' = stream /\ sequence' = sequence
        /\ pending' = LLMBudgetEvents(calls, kept, u) /\ after' = next
        /\ budget' = RecordLLMCalls(budget, Role, calls, kept, u)
    BY <1>2, <2>3 DEF RecordThenEmit
  <2>6. /\ Len(pending') = calls
        /\ \A i \in 1 .. calls :
             pending'[i] = LLMCallEvent(Role, IF i <= kept THEN 1 ELSE 0, u)
    BY <2>4, <2>5 DEF LLMBudgetEvents
  <2> DEFINE b == stream.replay
             told(i) == IF i <= kept THEN i ELSE kept
             h == [i \in 0 .. calls |-> RecordLLMCalls(b, Role, i, told(i), u)]
  <2>7. h[0] = b
    <3>1. told(0) = 0
      BY <2>4
    <3> QED BY <2>2, <2>4, <3>1, OneByOne
  <2>8. ASSUME NEW i \in 1 .. calls
        PROVE  h[i] = ApplyControllerBudgetEvent(h[i - 1], pending'[i])
    <3> DEFINE d == IF i <= kept THEN 1 ELSE 0
               k == told(i - 1)
               j == i - 1
    <3>1. j \in Nat /\ k \in Nat /\ d \in 0 .. 1 /\ j + 1 = i /\ k + d = told(i)
      BY <2>4
    <3>2. h[j] = RecordLLMCalls(b, Role, j, k, u)
          /\ h[i] = RecordLLMCalls(b, Role, i, told(i), u)
      BY <3>1
    <3>3. RecordLLMCalls(RecordLLMCalls(b, Role, j, k, u), Role, 1, d, u)
            = RecordLLMCalls(b, Role, j + 1, k + d, u)
      <4> HIDE DEF d, k, j
      <4> QED BY <2>2, <2>4, <3>1, OneByOne
    <3>4. \A c : ApplyControllerBudgetEvent(c, LLMCallEvent(Role, d, u))
                   = RecordLLMCalls(c, Role, 1, d, u)
      BY DEF ApplyControllerBudgetEvent, LLMCallEvent
    <3>5. pending'[i] = LLMCallEvent(Role, d, u)
      BY <2>6
    <3> HIDE DEF d, k, h, told
    <3>6. h[i] = RecordLLMCalls(h[j], Role, 1, d, u)
      BY <3>1, <3>2, <3>3
    <3> QED BY <3>4, <3>5, <3>6 DEF j
  <2>9. h[calls] = RecordLLMCalls(b, Role, calls, kept, u)
    <3>1. told(calls) = kept
      BY <2>4
    <3> QED BY <2>4, <3>1
  <2>10. SameSpending(h[calls], budget')
    <3> HIDE DEF h
    <3> QED BY <2>2, <2>5, <2>9, RecordsFollow
  <2>11. h = [i \in 0 .. calls |-> h[i]]
    OBVIOUS
  <2>12. ~Closed' /\ Emitting'
    <3>1. next \in {"apply", "llm_failure", "finish", "abort"}
      BY DEF CallOutcomes
    <3> QED BY <2>0, <2>5, <3>1 DEF Closed, Where, Terminal, Emitting
  <2> HIDE DEF h
  <2>13. Bridges(h, stream'.replay, pending')
    BY <2>5, <2>6, <2>7, <2>8, <2>11 DEF Bridges
  <2>14. Matches(h[Len(pending')], budget', Closed')
    BY <2>6, <2>10, <2>12 DEF Matches
  <2>15. pending' # <<>>
    BY <2>4, <2>6
  <2> QED BY <2>2, <2>5, <2>12, <2>13, <2>14, <2>15 DEF Ledger, Balanced
<1> QED BY <1>3, <1>4

(* An append that fails is a fault; one that returns moves an event.       *)
LEMMA LedgerEmit ==
  ASSUME TypeOK, Control, Ledger, NEW here, NEW handler,
         here \in {"emit", "llm_emit", "abort_emit"}, EmitFrom(here, handler)
  PROVE  Ledger'
<1>1. PICK o \in WriteOutcomes :
        /\ Durable(o, IF Len(pending) = 1 THEN after ELSE here, handler)
        /\ AppendBudgetEvent(o, Head(pending))
        /\ pending' = IF o = "ok" THEN Tail(pending) ELSE <<>>
  BY DEF EmitFrom
<1>2. /\ pc = here /\ pending # <<>> /\ budget' = budget /\ after' = after
      /\ interrupted' = interrupted
  BY DEF EmitFrom
<1>3. CASE ~Clean'
  BY <1>3 DEF Ledger
<1>4. CASE Clean'
  <2>0. faults \in Nat
    BY DEF TypeOK
  <2>1. o = "ok"
    BY <1>1, <1>4, <2>0 DEF Durable, Clean
  <2>2. /\ faults' = faults
        /\ pc' = IF Len(pending) = 1 THEN after ELSE here
        /\ stream' = StreamWith(Head(pending)) /\ sequence' = sequence + 1
        /\ pending' = Tail(pending)
    BY <1>1, <2>1 DEF Durable, AppendBudgetEvent
  <2>3. Clean
    BY <1>2, <1>4, <2>2 DEF Clean
  <2>4. PICK h : Bridges(h, stream.replay, pending) /\ Balanced(h[Len(pending)])
    BY <2>3 DEF Ledger
  <2>5. /\ pending \in Seq(Event) /\ stream.lines \in Nat /\ Len(pending) \in Nat
        /\ Len(pending) >= 1
    BY <1>2 DEF TypeOK, Stream
  <2>6. PICK n \in Nat : n = Len(pending) - 1
    BY <2>5
  <2>7. /\ Len(pending') = n /\ Head(pending) = pending[1]
        /\ \A i \in 1 .. n : pending'[i] = pending[i + 1]
    BY <1>2, <2>2, <2>5, <2>6
  <2> DEFINE k == [i \in 0 .. n |-> h[i + 1]]
  <2>8. k[0] = stream'.replay
    <3>1. h[1] = ApplyControllerBudgetEvent(h[0], pending[1]) /\ h[0] = stream.replay
      <4>1. 1 \in 1 .. Len(pending)
        BY <2>5
      <4> QED BY <2>4, <4>1 DEF Bridges
    <3>2. stream'.replay = ApplyControllerBudgetEvent(stream.replay, pending[1])
      BY <2>2, <2>7 DEF StreamWith
    <3> QED BY <2>6, <3>1, <3>2
  <2>9. ASSUME NEW i \in 1 .. n
        PROVE  k[i] = ApplyControllerBudgetEvent(k[i - 1], pending'[i])
    <3>1. i + 1 \in 1 .. Len(pending) /\ i - 1 \in 0 .. n /\ (i + 1) - 1 = i
          /\ (i - 1) + 1 = i
      BY <2>5, <2>6
    <3>2. h[i + 1] = ApplyControllerBudgetEvent(h[i], pending[i + 1])
      BY <2>4, <3>1 DEF Bridges
    <3>3. k[i] = h[i + 1] /\ k[i - 1] = h[i]
      BY <2>6, <3>1
    <3> HIDE DEF k
    <3> QED BY <2>7, <3>2, <3>3
  <2>10. k = [i \in 0 .. n |-> k[i]] /\ k[n] = h[Len(pending)]
    BY <2>5, <2>6
  <2> HIDE DEF k
  <2>11. Bridges(k, stream'.replay, pending')
    BY <2>7, <2>8, <2>9, <2>10 DEF Bridges
  <2>12. stream'.ordered /\ sequence' = stream'.lines
    BY <2>2, <2>3 DEF StreamWith, Ledger
  <2>13. after \notin {"emit", "llm_emit", "abort_emit"}
    BY <1>2 DEF Control
  <2>14. Emitting' <=> pending' # <<>>
    <3>1. pending' \in Seq(Event)
      BY <1>2, <2>2, <2>5
    <3>2. pending' # <<>> <=> n # 0
      <4> HIDE DEF Event
      <4> QED BY <2>6, <2>7, <3>1
    <3> QED BY <2>2, <2>5, <2>6, <2>13, <3>2 DEF Emitting
  <2>15. Closed' <=> Closed
    <3>1. Where' = Where
      BY <1>2, <2>2, <2>13 DEF Where
    <3> QED BY <3>1 DEF Closed
  <2>16. Matches(k[Len(pending')], budget', Closed')
    BY <1>2, <2>4, <2>7, <2>10, <2>15 DEF Balanced, Matches
  <2> QED BY <2>11, <2>12, <2>14, <2>16 DEF Ledger, Balanced
<1> QED BY <1>3, <1>4

(* Ctrl+C and a failed write are remembered. *)
LEMMA CleanStep ==
  ASSUME IInv, Next, Clean'
  PROVE  Clean
<1>1. \/ faults' = faults \/ faults' = faults + 1
  BY DEF Next, Controller, SeedCheck, SeedEvaluate, SeedAdmit, SeedArchiveEvent,
         SeedReject, SeedLog, InitialProgramPolicy, LoopEnds, BeginProposal,
         CheckBeforeCall, CheckDeadline, LLMCall, LLMFailure, ApplyMutation,
         RaiseFromCandidate, EvaluateFromCache, EvaluateCandidate, Admit,
         ArchiveEvent, Reject, Reward, Log, PromptResult, Migrate,
         GenerationComplete, Emit, EmitLLMCalls, FinishRun,
         WriteCompletedManifest, AbortRun, EmitAbort, WriteAbortedManifest,
         ClockExpires, Interrupt, Terminated, EmitFrom, Durable, envVars, vars
<1>2. interrupted => interrupted'
  <2>1. CASE LLMCall
    BY <2>1 DEF LLMCall
  <2>2. CASE ~LLMCall
    BY <2>2 DEF Next, Controller, SeedCheck, SeedEvaluate, SeedAdmit,
         SeedArchiveEvent, SeedReject, SeedLog, InitialProgramPolicy, LoopEnds,
         BeginProposal, CheckBeforeCall, CheckDeadline, LLMFailure,
         ApplyMutation, RaiseFromCandidate, EvaluateFromCache,
         EvaluateCandidate, Admit, ArchiveEvent, Reject, Reward, Log,
         PromptResult, Migrate, GenerationComplete, Emit, EmitLLMCalls,
         FinishRun, WriteCompletedManifest, AbortRun, EmitAbort,
         WriteAbortedManifest, ClockExpires, Interrupt, Terminated, EmitFrom,
         envVars, vars
  <2> QED BY <2>1, <2>2
<1>3. faults \in Nat /\ interrupted \in BOOLEAN
  BY DEF IInv, TypeOK
<1> QED BY <1>1, <1>2, <1>3 DEF Clean

(* Steps that leave the events and the budget alone. *)
Idle ==
  \/ SeedArchiveEvent \/ SeedReject \/ SeedLog \/ LoopEnds \/ CheckDeadline
  \/ LLMFailure \/ ApplyMutation \/ RaiseFromCandidate \/ ArchiveEvent
  \/ Reject \/ Reward \/ Log \/ PromptResult \/ Migrate
Last == WriteCompletedManifest \/ WriteAbortedManifest \/ Terminated
Working == TryPCs \ {"emit", "llm_emit", "manifest"}

LEMMA IdleFlow ==
  ASSUME Idle
  PROVE  UNCHANGED ledgerVars /\ pc \in Working /\ pc' \in Working \cup {"abort"}
<1> USE DEF Working, TryPCs, SeedPCs, ProposalPCs, EndPCs, EmitPCs
<1>1. CASE SeedArchiveEvent
  BY <1>1 DEF SeedArchiveEvent, Durable, ledgerVars
<1>2. CASE SeedReject
  BY <1>2 DEF SeedReject, Durable, ledgerVars
<1>3. CASE SeedLog
  BY <1>3 DEF SeedLog, Durable, ledgerVars
<1>4. CASE LoopEnds \/ CheckDeadline \/ ApplyMutation
  BY <1>4 DEF LoopEnds, CheckDeadline, ApplyMutation, ledgerVars
<1>5. CASE LLMFailure \/ RaiseFromCandidate
  BY <1>5 DEF LLMFailure, RaiseFromCandidate, ledgerVars
<1>6. CASE ArchiveEvent \/ Reward
  BY <1>6 DEF ArchiveEvent, Reward, Durable, ledgerVars
<1>7. CASE Reject \/ Log
  BY <1>7 DEF Reject, Log, Durable, ledgerVars
<1>8. CASE PromptResult \/ Migrate
  BY <1>8 DEF PromptResult, Migrate, Durable, ledgerVars
<1> QED BY <1>1, <1>2, <1>3, <1>4, <1>5, <1>6, <1>7, <1>8 DEF Idle

(* Steps that check the budget, or stop the run, and record no event. *)
Check ==
  \/ SeedCheck \/ SeedAdmit \/ InitialProgramPolicy \/ CheckBeforeCall \/ Admit
  \/ (BeginProposal /\ pc' # "emit")

LEMMA CheckFlow ==
  ASSUME TypeOK, Check
  PROVE  /\ UNCHANGED <<stream, sequence, pending>>
         /\ SameSpending(budget', budget)
         /\ pc \in Working /\ pc' \in Working
<1> USE DEF Working, TryPCs, SeedPCs, ProposalPCs, EndPCs, EmitPCs
<1>0. budget \in Budget /\ clockOut \in BOOLEAN
  BY DEF TypeOK
<1>1. \A includeLLM \in BOOLEAN : \A role :
        SameSpending(CheckLimits(budget, includeLLM, role, clockOut), budget)
  BY <1>0, ChecksSpendNothing
<1>2. CASE SeedCheck
  BY <1>1, <1>2 DEF SeedCheck, CheckBeforeEvaluation, SameSpending
<1>3. CASE SeedAdmit \/ Admit
  BY <1>1, <1>3 DEF SeedAdmit, Admit, CheckBeforeEvaluation
<1>4. CASE InitialProgramPolicy
  <2>1. SameSpending([budget EXCEPT !.stop_reason = "invalid_initial_programs"],
                     budget)
    BY <1>0, ChecksSpendNothing
  <2> QED BY <1>4, <2>1 DEF InitialProgramPolicy, SameSpending
<1>5. CASE CheckBeforeCall
  BY <1>1, <1>5 DEF CheckBeforeCall, CheckBeforeLLMCall
<1>6. CASE BeginProposal /\ pc' # "emit"
  <2> DEFINE b == CheckBeforeProposal(budget)
  <2>1. b \in Budget /\ SameSpending(b, budget)
    BY <1>0, ProposalSpendsNothing
  <2>2. SameSpending([b EXCEPT !.stop_reason = "no_valid_programs"], b)
    <3> HIDE DEF b
    <3> QED BY <2>1, ChecksSpendNothing
  <2>3. /\ pc = "proposal" /\ UNCHANGED <<stream, sequence, pending>>
        /\ budget' = b \/ budget' = [b EXCEPT !.stop_reason = "no_valid_programs"]
        /\ pc' \in {"finish", "generate"}
    <3> HIDE DEF Working
    <3> QED BY <1>6 DEF BeginProposal
  <2> HIDE DEF b
  <2> QED BY <2>1, <2>2, <2>3 DEF SameSpending
<1> QED BY <1>2, <1>3, <1>4, <1>5, <1>6 DEF Check

(* Steps that record one event of work. *)
Recording ==
  \/ SeedEvaluate \/ EvaluateFromCache \/ EvaluateCandidate
  \/ GenerationComplete \/ (BeginProposal /\ pc' = "emit")

LEMMA LedgerWork ==
  ASSUME TypeOK, Ledger, Clean, Recording
  PROVE  Ledger'
<1>0. budget \in Budget /\ clockOut \in BOOLEAN /\ stream.replay \in Budget
  BY DEF TypeOK, Stream
<1>1. ASSUME ~Emitting
      PROVE  SameSpending(stream.replay, budget)
  BY <1>1, LedgerBefore
<1>2. CASE SeedEvaluate
  <2>1. ~Emitting /\ pc' = "emit"
    BY <1>2 DEF SeedEvaluate, Emitting
  <2>2. PICK acc \in Accountings :
          RecordThenEmit(RecordEvaluation(budget, TRUE, acc),
                         <<EvaluationEvent(TRUE, acc)>>, "seed_admit")
    BY <1>2 DEF SeedEvaluate
  <2>3. ApplyControllerBudgetEvent(stream.replay, EvaluationEvent(TRUE, acc))
          = RecordEvaluation(stream.replay, TRUE, acc)
    BY DEF ApplyControllerBudgetEvent, EvaluationEvent
  <2>4. SameSpending(RecordEvaluation(stream.replay, TRUE, acc),
                     RecordEvaluation(budget, TRUE, acc))
    BY <1>0, <1>1, <2>1, RecordsFollow
  <2>5. "seed_admit" \notin {"manifest", "abort_manifest"} \cup Terminal
    BY DEF Terminal
  <2> QED BY <2>1, <2>2, <2>3, <2>4, <2>5, LedgerRecords
<1>3. CASE EvaluateFromCache
  <2>1. ~Emitting /\ pc' = "emit"
    BY <1>3 DEF EvaluateFromCache, Emitting
  <2>2. RecordThenEmit(budget, <<CacheHitEvent>>, "admit")
    BY <1>3 DEF EvaluateFromCache
  <2>3. ApplyControllerBudgetEvent(stream.replay, CacheHitEvent) = stream.replay
    BY DEF ApplyControllerBudgetEvent, CacheHitEvent
  <2>4. "admit" \notin {"manifest", "abort_manifest"} \cup Terminal
    BY DEF Terminal
  <2> QED BY <1>1, <2>1, <2>2, <2>3, <2>4, LedgerRecords
<1>4. CASE EvaluateCandidate
  <2>1. ~Emitting /\ pc' = "emit"
    BY <1>4 DEF EvaluateCandidate, Emitting
  <2>2. PICK acc \in Accountings \cup {NoAccounting} :
          RecordThenEmit(RecordEvaluation(budget, FALSE, acc),
                         <<EvaluationEvent(FALSE, acc)>>, "admit")
    BY <1>4 DEF EvaluateCandidate
  <2>3. ApplyControllerBudgetEvent(stream.replay, EvaluationEvent(FALSE, acc))
          = RecordEvaluation(stream.replay, FALSE, acc)
    BY DEF ApplyControllerBudgetEvent, EvaluationEvent
  <2>4. SameSpending(RecordEvaluation(stream.replay, FALSE, acc),
                     RecordEvaluation(budget, FALSE, acc))
    BY <1>0, <1>1, <2>1, RecordsFollow
  <2>5. "admit" \notin {"manifest", "abort_manifest"} \cup Terminal
    BY DEF Terminal
  <2> QED BY <2>1, <2>2, <2>3, <2>4, <2>5, LedgerRecords
<1>5. CASE GenerationComplete
  <2>1. ~Emitting /\ pc' = "emit"
    BY <1>5 DEF GenerationComplete, Emitting
  <2>2. RecordThenEmit(RecordGenerationComplete(budget),
                       <<GenerationCompletedEvent>>, "proposal")
    BY <1>5 DEF GenerationComplete
  <2>3. ApplyControllerBudgetEvent(stream.replay, GenerationCompletedEvent)
          = RecordGenerationComplete(stream.replay)
    BY DEF ApplyControllerBudgetEvent, GenerationCompletedEvent
  <2>4. SameSpending(RecordGenerationComplete(stream.replay),
                     RecordGenerationComplete(budget))
    BY <1>0, <1>1, <2>1, RecordsFollow
  <2>5. "proposal" \notin {"manifest", "abort_manifest"} \cup Terminal
    BY DEF Terminal
  <2> QED BY <2>1, <2>2, <2>3, <2>4, <2>5, LedgerRecords
<1>6. CASE BeginProposal /\ pc' = "emit"
  <2> DEFINE b == CheckBeforeProposal(budget)
  <2>1. ~Emitting
    BY <1>6 DEF BeginProposal, Emitting
  <2>2. RecordThenEmit(RecordGenerationStart(b), <<GenerationStartedEvent>>,
                       "generate")
    BY <1>6 DEF BeginProposal
  <2>3. ApplyControllerBudgetEvent(stream.replay, GenerationStartedEvent)
          = RecordGenerationStart(stream.replay)
    BY DEF ApplyControllerBudgetEvent, GenerationStartedEvent
  <2>4. b \in Budget /\ SameSpending(b, budget)
    BY <1>0, ProposalSpendsNothing
  <2> HIDE DEF b
  <2>5. SameSpending(stream.replay, b)
    BY <1>1, <2>1, <2>4 DEF SameSpending
  <2>6. SameSpending(RecordGenerationStart(stream.replay), RecordGenerationStart(b))
    BY <1>0, <2>4, <2>5, RecordsFollow
  <2>7. "generate" \notin {"manifest", "abort_manifest"} \cup Terminal
    BY DEF Terminal
  <2> QED BY <1>6, <2>1, <2>2, <2>3, <2>6, <2>7, LedgerRecords
<1> QED BY <1>2, <1>3, <1>4, <1>5, <1>6 DEF Recording

LEMMA LedgerStep ==
  ASSUME IInv, Ledger, [Next]_vars
  PROVE  Ledger'
<1> USE DEF IInv
<1>1. CASE UNCHANGED vars \/ ClockExpires
  <2>1. UNCHANGED <<pc, ledgerVars, faults, interrupted>>
    BY <1>1 DEF vars, envVars, ClockExpires
  <2> QED BY <2>1, LedgerKept DEF Clean
<1>2. CASE Next /\ ~ClockExpires
  <2>0. CASE ~Clean'
    BY <2>0 DEF Ledger
  <2>1. CASE Clean'
    <3>0. Clean
      BY <1>2, <2>1, CleanStep
    <3>1. CASE Idle
      <4>1. /\ UNCHANGED ledgerVars /\ pc \in Working
            /\ pc' \in Working \cup {"abort"}
        BY <3>1, IdleFlow
      <4>2. ~Emitting /\ ~Emitting' /\ ~Closed'
        BY <4>1 DEF Emitting, Closed, Where, Working, TryPCs, SeedPCs,
                    ProposalPCs, EndPCs, EmitPCs, Terminal
      <4> QED BY <3>0, <4>1, <4>2, LedgerQuiet DEF ledgerVars, SameSpending
    <3>2. CASE Last
      <4>1. /\ UNCHANGED ledgerVars
            /\ pc \in {"manifest", "abort_manifest"} \cup Terminal
            /\ pc' \in {"abort"} \cup Terminal
        BY <3>2 DEF Last, WriteCompletedManifest, WriteAbortedManifest,
                    Terminated, Durable, Terminal, vars
      <4>2. ~Emitting /\ ~Emitting' /\ Closed
        BY <4>1 DEF Emitting, Closed, Where, Terminal
      <4> QED BY <3>0, <4>1, <4>2, LedgerQuiet DEF ledgerVars, SameSpending
    <3>3. CASE Check
      <4>1. /\ UNCHANGED <<stream, sequence, pending>>
            /\ SameSpending(budget', budget)
            /\ pc \in Working /\ pc' \in Working
        BY <3>3, CheckFlow
      <4>2. ~Emitting /\ ~Emitting' /\ ~Closed'
        BY <4>1 DEF Emitting, Closed, Where, Working, TryPCs, SeedPCs,
                    ProposalPCs, EndPCs, EmitPCs, Terminal
      <4> QED BY <3>0, <4>1, <4>2, LedgerQuiet
    <3>4. CASE Recording
      BY <3>0, <3>4, LedgerWork
    <3>5. CASE LLMCall
      BY <3>5, LedgerCalls
    <3>6. CASE Emit
      BY <3>6, LedgerEmit DEF Emit
    <3>7. CASE EmitLLMCalls
      BY <3>7, LedgerEmit DEF EmitLLMCalls
    <3>8. CASE EmitAbort
      BY <3>8, LedgerEmit DEF EmitAbort
    <3>9. CASE FinishRun
      <4> DEFINE b == Finish(budget, archive # {}, clockOut)
      <4>1. /\ RecordThenEmit(b, <<StopEvent(b.stop_reason)>>, "manifest")
            /\ ~Emitting /\ Emitting'
        BY <3>9 DEF FinishRun, Emitting
      <4>2. b \in Budget /\ SameSpending(b, budget)
        BY FinishType, FinishSpendsNothing DEF TypeOK
      <4> HIDE DEF b
      <4> QED BY <3>0, <4>1, <4>2, LedgerStops
    <3>10. CASE AbortRun
      <4> DEFINE b == [budget EXCEPT !.stop_reason = "aborted"]
      <4>1. b \in Budget /\ SameSpending(b, budget) /\ b.stop_reason = "aborted"
        <5>1. "aborted" \in STOP_REASONS
          BY DEF STOP_REASONS
        <5> QED BY <5>1, ChecksSpendNothing DEF TypeOK, Budget
      <4>2. /\ RecordThenEmit(b, <<StopEvent("aborted")>>, "abort_manifest")
            /\ ~Emitting /\ Emitting'
        BY <3>10 DEF AbortRun, Emitting
      <4> HIDE DEF b
      <4> QED BY <3>0, <4>1, <4>2, LedgerStops
    <3>11. CASE Interrupt
      BY <2>1, <3>11 DEF Interrupt, Clean
    <3>12. CASE BeginProposal
      BY <3>3, <3>4, <3>12 DEF Check, Recording
    <3> QED BY <1>2, <3>1, <3>2, <3>3, <3>4, <3>5, <3>6, <3>7, <3>8, <3>9,
               <3>10, <3>11, <3>12
            DEF Next, Controller, Idle, Last, Check, Recording
  <2> QED BY <2>0, <2>1
<1> QED BY <1>1, <1>2

LEMMA LedgerInit == Init => Ledger
<1> SUFFICES ASSUME Init PROVE Ledger
  OBVIOUS
<1> DEFINE h == [i \in 0 .. 0 |-> FreshBudget]
<1>1. /\ stream.replay = FreshBudget /\ budget = FreshBudget /\ pending = <<>>
      /\ stream.ordered /\ sequence = 0 /\ stream.lines = 0 /\ pc = "seed_check"
  BY DEF Init
<1>2. /\ h = [i \in 0 .. Len(pending) |-> h[i]] /\ h[0] = stream.replay
      /\ h[Len(pending)] = budget /\ 1 .. Len(pending) = {}
  BY <1>1
<1> HIDE DEF h
<1>3. Bridges(h, stream.replay, pending)
  BY <1>2 DEF Bridges
<1>4. Balanced(h[Len(pending)])
  BY <1>2 DEF Balanced, Matches, SameSpending
<1> QED BY <1>1, <1>3, <1>4 DEF Ledger, Emitting

LEMMA LedgerAgrees ==
  ASSUME TypeOK, Ledger
  PROVE  LedgerInStep
<1> SUFFICES ASSUME Clean
             PROVE  /\ Consumption(ReplayedWithPending) = Consumption(budget)
                    /\ stream.ordered
                    /\ pc \in Terminal => stream.replay = budget
  BY DEF LedgerInStep, Clean
<1>1. PICK h : Bridges(h, stream.replay, pending) /\ Balanced(h[Len(pending)])
  BY DEF Ledger
<1>2. ReplayedWithPending = h[Len(pending)]
  BY <1>1, ReplayIs
<1>3. h[Len(pending)] \in Budget
  <2> DEFINE bad == {i \in 0 .. Len(pending) : h[i] \notin Budget}
  <2>0. Len(pending) \in Nat /\ pending \in Seq(Event) /\ stream.replay \in Budget
    BY DEF TypeOK, Stream
  <2>1. CASE bad # {}
    <3>1. PICK i \in bad : \A j \in bad : i <= j
      <4>1. bad \in SUBSET Nat
        BY <2>0
      <4> HIDE DEF bad
      <4> QED BY <2>1, <4>1, LeastNumber
    <3>2. i # 0
      BY <1>1, <2>0, <3>1 DEF Bridges
    <3>3. i \in 1 .. Len(pending) /\ i - 1 \in 0 .. Len(pending) /\ i - 1 \notin bad
      BY <2>0, <3>1, <3>2
    <3>4. h[i - 1] \in Budget /\ pending[i] \in Event
      BY <2>0, <3>3
    <3>5. h[i] = ApplyControllerBudgetEvent(h[i - 1], pending[i])
      BY <1>1, <3>3 DEF Bridges
    <3>6. h[i] \in Budget
      BY <3>4, <3>5, ReplayType
    <3> QED BY <3>1, <3>6
  <2> QED BY <2>0, <2>1
<1>4. SameSpending(h[Len(pending)], budget) /\ budget \in Budget
  BY <1>1 DEF Balanced, Matches, TypeOK
<1>5. Consumption(ReplayedWithPending) = Consumption(budget)
  BY <1>2, <1>3, <1>4, SpendingIs
<1>6. ASSUME pc \in Terminal PROVE stream.replay = budget
  <2>1. ~Emitting /\ Closed
    BY <1>6 DEF Emitting, Closed, Where, Terminal
  <2>2. pending = <<>>
    BY <2>1 DEF Ledger
  <2> QED BY <2>1, <2>2, LedgerOpen DEF Balanced, Matches
<1> QED BY <1>5, <1>6 DEF Ledger

(***************************************************************************)
(* The end of the run: the stops of the stream, the exception and the      *)
(* manifest.                                                               *)
(***************************************************************************)
NoStop(events) == \A i \in 1 .. Len(events) : events[i].kind # "stop"

(* The shock that is ending the run is among those that happened. *)
ExcTrue ==
  /\ exc = "OSError" => faults >= 1
  /\ exc = "KeyboardInterrupt" => interrupted

Ends ==
  /\ pc \in TryPCs \ {"manifest"} => stream.stops = <<>>
  /\ pc = "llm_emit" \/ (pc = "emit" /\ after # "manifest") => NoStop(pending)
  /\ pc = "emit" /\ after = "manifest" =>
       pending = <<StopEvent(budget.stop_reason)>>
  /\ pc \in {"manifest", "returned"} =>
       stream.stops = <<budget.stop_reason>>
  /\ pc = "returned" =>
       manifest = [status |-> "completed", stop_reason |-> budget.stop_reason]
  /\ pc \in {"abort", "abort_emit"} => Len(stream.stops) <= 1
  /\ pc = "abort_emit" => pending = <<StopEvent("aborted")>>
  /\ pc \in {"abort_manifest", "raised"} /\ Secondary = 0 =>
       /\ Len(stream.stops) \in 1 .. 2
       /\ stream.stops[Len(stream.stops)] = "aborted"
  /\ pc = "raised" /\ Secondary = 0 =>
       manifest = [status |-> "aborted", stop_reason |-> "aborted",
                   exception |-> exc]

LEMMA ExcStep ==
  ASSUME IInv, ExcTrue, [Next]_vars
  PROVE  ExcTrue'
<1>0. faults \in Nat /\ interrupted \in BOOLEAN
  BY DEF IInv, TypeOK
<1>1. CASE UNCHANGED vars \/ ClockExpires \/ Terminated
  BY <1>1 DEF vars, envVars, ClockExpires, Terminated, ExcTrue
<1>2. CASE UNCHANGED envVars \/ UNCHANGED <<faults, interrupted, exc>>
  BY <1>2 DEF envVars, ExcTrue
<1>3. ASSUME NEW o, NEW next, NEW handler, Durable(o, next, handler),
             interrupted' = interrupted
      PROVE  ExcTrue'
  BY <1>0, <1>3 DEF Durable, ExcTrue
<1>4. CASE SeedCheck \/ SeedEvaluate \/ SeedAdmit \/ InitialProgramPolicy
           \/ LoopEnds \/ BeginProposal \/ CheckBeforeCall \/ CheckDeadline
           \/ ApplyMutation \/ EvaluateFromCache \/ EvaluateCandidate \/ Admit
           \/ GenerationComplete \/ FinishRun \/ AbortRun
  <2>1. UNCHANGED envVars
    BY <1>4 DEF SeedCheck, SeedEvaluate, SeedAdmit, InitialProgramPolicy,
         LoopEnds, BeginProposal, CheckBeforeCall, CheckDeadline,
         ApplyMutation, EvaluateFromCache, EvaluateCandidate, Admit,
         GenerationComplete, FinishRun, AbortRun
  <2> QED BY <1>2, <2>1
<1>5. CASE SeedArchiveEvent \/ SeedLog \/ ArchiveEvent \/ Reward \/ Log
           \/ PromptResult \/ WriteCompletedManifest \/ WriteAbortedManifest
  <2>1. /\ \E o, next, handler : Durable(o, next, handler)
        /\ interrupted' = interrupted
    BY <1>5 DEF SeedArchiveEvent, SeedLog, ArchiveEvent, Reward, Log,
         PromptResult, WriteCompletedManifest, WriteAbortedManifest
  <2> QED BY <1>3, <2>1
<1>6. CASE SeedReject \/ Reject \/ Migrate
  <2>1. /\ interrupted' = interrupted
        /\ \/ UNCHANGED <<faults, exc>>
           \/ \E o, next, handler : Durable(o, next, handler)
    BY <1>6 DEF SeedReject, Reject, Migrate
  <2> QED BY <1>2, <1>3, <2>1
<1>7. CASE Emit \/ EmitLLMCalls \/ EmitAbort
  <2>1. /\ \E o, next, handler : Durable(o, next, handler)
        /\ interrupted' = interrupted
    BY <1>7 DEF Emit, EmitLLMCalls, EmitAbort, EmitFrom
  <2> QED BY <1>3, <2>1
<1>8. CASE LLMFailure
  BY <1>0, <1>8, LoopAssumption DEF LLMFailure, ExcTrue, Exceptions
<1>9. CASE RaiseFromCandidate
  BY <1>9 DEF RaiseFromCandidate, ExcTrue
<1>10. CASE LLMCall
  <2>1. PICK next : /\ interrupted' = (interrupted \/ next = "abort")
                    /\ exc' = IF next = "abort" THEN "KeyboardInterrupt" ELSE exc
                    /\ faults' = faults
    BY <1>10 DEF LLMCall
  <2> QED BY <2>1 DEF ExcTrue
<1>11. CASE Interrupt
  BY <1>11 DEF Interrupt, ExcTrue
<1> QED BY <1>1, <1>4, <1>5, <1>6, <1>7, <1>8, <1>9, <1>10, <1>11
        DEF Next, Controller

LEMMA SecondaryType ==
  ASSUME TypeOK, ExcTrue
  PROVE  Secondary \in Nat
  BY DEF TypeOK, ExcTrue, Secondary

(* A step that records work: the stream is left alone. *)
LEMMA EndsRecords ==
  ASSUME TypeOK, Ends, pc \in Working, stream' = stream,
         \/ /\ pc' = "llm_emit" \/ (pc' = "emit" /\ after' # "manifest")
            /\ NoStop(pending')
         \/ /\ pc' = "emit" /\ after' = "manifest"
            /\ pending' = <<StopEvent(budget'.stop_reason)>>
         \/ pc' \in Working \cup {"abort"}
  PROVE  Ends'
<1>1. stream'.stops = <<>>
  BY DEF Ends, Working
<1>2. pc' \notin {"manifest", "returned", "abort_emit", "abort_manifest", "raised"}
  BY DEF Working, TryPCs, SeedPCs, ProposalPCs, EndPCs, EmitPCs
<1>3. pc' \in Working => pc' \notin {"emit", "llm_emit"}
  BY DEF Working
<1>4. Len(stream'.stops) <= 1
  BY <1>1
<1> QED BY <1>1, <1>2, <1>3, <1>4 DEF Ends

LEMMA NoStopOne ==
  \A e : e.kind # "stop" => NoStop(<<e>>)
  BY DEF NoStop

LEMMA EndsWork ==
  ASSUME IInv, Ends, Recording \/ LLMCall \/ FinishRun
  PROVE  Ends'
<1>0. TypeOK
  BY DEF IInv
<1>1. pc \in Working /\ stream' = stream
  BY DEF Recording, LLMCall, FinishRun, SeedEvaluate, EvaluateFromCache,
         EvaluateCandidate, GenerationComplete, BeginProposal, RecordThenEmit,
         Working, TryPCs, SeedPCs, ProposalPCs, EndPCs
<1>2. CASE SeedEvaluate
  <2>1. PICK acc : pending' = <<EvaluationEvent(TRUE, acc)>>
    BY <1>2 DEF SeedEvaluate, RecordThenEmit
  <2>2. pc' = "emit" /\ after' # "manifest"
    BY <1>2 DEF SeedEvaluate, RecordThenEmit
  <2>3. NoStop(pending')
    BY <2>1, NoStopOne DEF EvaluationEvent
  <2> QED BY <1>0, <1>1, <2>2, <2>3, EndsRecords
<1>3. CASE EvaluateFromCache
  <2>1. /\ pending' = <<CacheHitEvent>> /\ pc' = "emit" /\ after' # "manifest"
    BY <1>3 DEF EvaluateFromCache, RecordThenEmit
  <2>2. NoStop(pending')
    BY <2>1, NoStopOne DEF CacheHitEvent
  <2> QED BY <1>0, <1>1, <2>1, <2>2, EndsRecords
<1>4. CASE EvaluateCandidate
  <2>1. PICK acc : pending' = <<EvaluationEvent(FALSE, acc)>>
    BY <1>4 DEF EvaluateCandidate, RecordThenEmit
  <2>2. pc' = "emit" /\ after' # "manifest"
    BY <1>4 DEF EvaluateCandidate, RecordThenEmit
  <2>3. NoStop(pending')
    BY <2>1, NoStopOne DEF EvaluationEvent
  <2> QED BY <1>0, <1>1, <2>2, <2>3, EndsRecords
<1>5. CASE GenerationComplete
  <2>1. /\ pending' = <<GenerationCompletedEvent>> /\ pc' = "emit"
        /\ after' # "manifest"
    BY <1>5 DEF GenerationComplete, RecordThenEmit
  <2>2. NoStop(pending')
    BY <2>1, NoStopOne DEF GenerationCompletedEvent
  <2> QED BY <1>0, <1>1, <2>1, <2>2, EndsRecords
<1>6. CASE BeginProposal /\ pc' = "emit"
  <2>1. pending' = <<GenerationStartedEvent>> /\ after' # "manifest"
    BY <1>6 DEF BeginProposal, RecordThenEmit
  <2>2. NoStop(pending')
    BY <2>1, NoStopOne DEF GenerationStartedEvent
  <2> QED BY <1>0, <1>1, <1>6, <2>1, <2>2, EndsRecords
<1>7. CASE LLMCall
  <2>1. PICK n \in 0 .. CallAttempts : \E kept, u :
          pending' = LLMBudgetEvents(IF n = 0 THEN 1 ELSE n, kept, u)
    BY <1>7 DEF LLMCall, RecordThenEmit
  <2>2. PICK calls \in Nat : calls = IF n = 0 THEN 1 ELSE n
    <3>1. CallAttempts \in Nat
      BY <1>0, CallAttemptsType DEF TypeOK, LedgerOK
    <3> QED BY <3>1
  <2>3. /\ Len(pending') = calls
        /\ \A i \in 1 .. calls : pending'[i].kind = "llm_call"
    BY <2>1, <2>2 DEF LLMBudgetEvents, LLMCallEvent
  <2>4. NoStop(pending') /\ pc' = "llm_emit"
    BY <1>7, <2>3 DEF NoStop, LLMCall
  <2> QED BY <1>0, <1>1, <2>4, EndsRecords
<1>8. CASE FinishRun
  <2> DEFINE b == Finish(budget, archive # {}, clockOut)
  <2>1. RecordThenEmit(b, <<StopEvent(b.stop_reason)>>, "manifest") /\ pc' = "emit"
    BY <1>8 DEF FinishRun
  <2> HIDE DEF b
  <2>2. pending' = <<StopEvent(budget'.stop_reason)>> /\ after' = "manifest"
    BY <2>1 DEF RecordThenEmit
  <2> QED BY <1>0, <1>1, <2>1, <2>2, EndsRecords
<1> QED BY <1>2, <1>3, <1>4, <1>5, <1>6, <1>7, <1>8 DEF Recording

(* What an append leaves in the stream. *)
LEMMA StopsAfter ==
  ASSUME TypeOK, NEW here, NEW handler, NEW o,
         Durable(o, IF Len(pending) = 1 THEN after ELSE here, handler),
         AppendBudgetEvent(o, Head(pending)), pending # <<>>
  PROVE  /\ Head(pending).kind # "stop" => stream'.stops = stream.stops
         /\ \A reason : pending = <<StopEvent(reason)>> =>
              stream'.stops = IF o = "lost" THEN stream.stops
                              ELSE Append(stream.stops, reason)
<1>1. stream' = stream \/ (o # "lost" /\ stream' = StreamWith(Head(pending)))
  BY DEF AppendBudgetEvent
<1>2. o = "lost" => stream' = stream
  BY DEF AppendBudgetEvent
<1>3. StreamWith(Head(pending)).stops =
        IF Head(pending).kind = "stop"
        THEN Append(stream.stops, Head(pending).stop_reason) ELSE stream.stops
  BY DEF StreamWith
<1>4. ASSUME NEW reason, pending = <<StopEvent(reason)>>
      PROVE  /\ Head(pending).kind = "stop" /\ Head(pending).stop_reason = reason
  BY <1>4 DEF StopEvent
<1>5. o # "lost" => stream' = StreamWith(Head(pending))
  BY DEF AppendBudgetEvent
<1> QED BY <1>1, <1>2, <1>3, <1>4, <1>5

LEMMA NoStopTail ==
  ASSUME NEW events \in Seq(Event), events # <<>>, NoStop(events)
  PROVE  NoStop(Tail(events)) /\ NoStop(<<>>) /\ Head(events).kind # "stop"
<1>1. /\ Len(Tail(events)) = Len(events) - 1 /\ Len(events) \in Nat
      /\ \A i \in 1 .. Len(Tail(events)) : Tail(events)[i] = events[i + 1]
      /\ Head(events) = events[1] /\ Len(events) >= 1
  OBVIOUS
<1>2. \A i \in 1 .. Len(Tail(events)) : i + 1 \in 1 .. Len(events)
  BY <1>1
<1>3. NoStop(Tail(events))
  BY <1>1, <1>2 DEF NoStop
<1>4. NoStop(<<>>)
  BY DEF NoStop
<1>5. 1 \in 1 .. Len(events)
  BY <1>1
<1>6. Head(events).kind # "stop"
  BY <1>1, <1>5 DEF NoStop
<1> QED BY <1>3, <1>4, <1>6

LEMMA EndsEmitWork ==
  ASSUME IInv, Ends,
         \/ Emit /\ after # "manifest"
         \/ EmitLLMCalls
  PROVE  Ends'
<1>0. TypeOK /\ Control
  BY DEF IInv
<1>1. PICK here \in {"emit", "llm_emit"}, handler \in {"abort", "llm_failure"} :
        /\ EmitFrom(here, handler)
        /\ here = "llm_emit" => handler = "llm_failure"
  BY DEF Emit, EmitLLMCalls
<1>2. PICK o \in WriteOutcomes :
        /\ Durable(o, IF Len(pending) = 1 THEN after ELSE here, handler)
        /\ AppendBudgetEvent(o, Head(pending))
        /\ pending' = IF o = "ok" THEN Tail(pending) ELSE <<>>
  BY <1>1 DEF EmitFrom
<1>3. pc = here /\ pending # <<>> /\ after' = after
  BY <1>1 DEF EmitFrom
<1>4. NoStop(pending) /\ pending \in Seq(Event) /\ stream.stops = <<>>
  <2>1. here = "emit" => after # "manifest"
    BY <1>3 DEF Emit, EmitLLMCalls, EmitFrom
  <2> QED BY <1>0, <1>3, <2>1 DEF Ends, TypeOK, TryPCs, EmitPCs
<1>5. NoStop(Tail(pending)) /\ NoStop(<<>>) /\ Head(pending).kind # "stop"
  BY <1>3, <1>4, NoStopTail
<1>6. stream'.stops = <<>>
  BY <1>0, <1>2, <1>3, <1>4, <1>5, StopsAfter
<1>7. NoStop(pending')
  BY <1>2, <1>5
<1>8. /\ pc' \in {after, here, handler}
      /\ pc' = "emit" => after # "manifest"
  <2>1. here = "emit" => after # "manifest"
    BY <1>3 DEF Emit, EmitLLMCalls, EmitFrom
  <2>2. pc' \in {after, here, handler}
    BY <1>2 DEF Durable
  <2>3. after # "emit"
    BY <1>0, <1>3 DEF Control
  <2>4. here # "emit" => pc' # "emit"
    BY <1>1, <2>2, <2>3
  <2> QED BY <1>1, <2>1, <2>2, <2>4
<1>9. /\ after \notin {"manifest", "returned", "abort_emit", "abort_manifest",
                       "raised"}
  BY <1>0, <1>3, <1>1 DEF Control, Emit, EmitLLMCalls, EmitFrom
<1>10. pc' \notin {"manifest", "returned", "abort_emit", "abort_manifest", "raised"}
  BY <1>1, <1>8, <1>9
<1>11. Len(stream'.stops) <= 1
  BY <1>6
<1> QED BY <1>3, <1>6, <1>7, <1>8, <1>10, <1>11 DEF Ends

LEMMA ShortStops ==
  ASSUME NEW stops
  PROVE  /\ stops = <<>> => Len(stops) <= 1
         /\ \A reason : stops = <<reason>> => Len(stops) <= 1
<1>1. 0 <= 1 /\ 1 <= 1
  OBVIOUS
<1>2. ASSUME stops = <<>> PROVE Len(stops) = 0
  BY <1>2
<1>3. ASSUME NEW reason, stops = <<reason>> PROVE Len(stops) = 1
  BY <1>3
<1> QED BY <1>1, <1>2, <1>3

LEMMA EndsEmitStop ==
  ASSUME IInv, Ends, Emit, after = "manifest"
  PROVE  Ends'
<1>0. TypeOK /\ Control
  BY DEF IInv
<1>1. /\ EmitFrom("emit", "abort") /\ pc = "emit" /\ pending # <<>>
      /\ budget' = budget /\ after' = after
  BY DEF Emit, EmitFrom
<1>2. pending = <<StopEvent(budget.stop_reason)>> /\ stream.stops = <<>>
  BY <1>1 DEF Ends, TryPCs, EmitPCs
<1>3. PICK o \in WriteOutcomes :
        /\ Durable(o, IF Len(pending) = 1 THEN after ELSE "emit", "abort")
        /\ AppendBudgetEvent(o, Head(pending))
  BY <1>1 DEF EmitFrom
<1>4. stream'.stops = IF o = "lost" THEN stream.stops
                      ELSE Append(stream.stops, budget.stop_reason)
  BY <1>0, <1>1, <1>2, <1>3, StopsAfter
<1>5. Append(<<>>, budget.stop_reason) = <<budget.stop_reason>>
  OBVIOUS
<1>6. pc' = IF o = "ok" THEN "manifest" ELSE "abort"
  <2>1. Len(pending) = 1
    BY <1>2
  <2> QED BY <1>3, <2>1 DEF Durable
<1>7. stream'.stops = <<>> \/ stream'.stops = <<budget.stop_reason>>
  BY <1>2, <1>4, <1>5
<1>8. Len(stream'.stops) <= 1
  BY <1>7, ShortStops
<1>9. pc' = "manifest" => stream'.stops = <<budget'.stop_reason>>
  BY <1>1, <1>2, <1>4, <1>5, <1>6
<1>10. pc' \notin TryPCs \ {"manifest"}
  BY <1>6 DEF TryPCs, SeedPCs, ProposalPCs, EndPCs, EmitPCs
<1> QED BY <1>6, <1>8, <1>9, <1>10 DEF Ends

LEMMA EndsEmitAbort ==
  ASSUME IInv, ExcTrue, Ends, EmitAbort
  PROVE  Ends'
<1>0. TypeOK /\ Secondary \in Nat /\ faults \in Nat /\ interrupted \in BOOLEAN
  BY SecondaryType DEF IInv, TypeOK
<1>1. /\ EmitFrom("abort_emit", "abort_manifest") /\ pc = "abort_emit"
      /\ pending # <<>> /\ interrupted' = interrupted
  BY DEF EmitAbort, EmitFrom
<1>2. /\ pending = <<StopEvent("aborted")>> /\ Len(stream.stops) <= 1
      /\ after = "abort_manifest"
  BY <1>1 DEF Ends, IInv, Control
<1>3. PICK o \in WriteOutcomes :
        /\ Durable(o, IF Len(pending) = 1 THEN after ELSE "abort_emit",
                   "abort_manifest")
        /\ AppendBudgetEvent(o, Head(pending))
  BY <1>1 DEF EmitFrom
<1>4. stream'.stops = IF o = "lost" THEN stream.stops
                      ELSE Append(stream.stops, "aborted")
  BY <1>0, <1>1, <1>2, <1>3, StopsAfter
<1>5. pc' = "abort_manifest"
  <2>1. Len(pending) = 1
    BY <1>2
  <2> QED BY <1>2, <1>3, <2>1 DEF Durable
<1>6. exc' = exc /\ faults' = IF o = "ok" THEN faults ELSE faults + 1
  BY <1>3 DEF Durable
<1>7. ASSUME o # "ok" PROVE Secondary' # 0
  BY <1>0, <1>1, <1>6, <1>7 DEF Secondary
<1>8. ASSUME o = "ok"
      PROVE  /\ Len(stream'.stops) \in 1 .. 2
             /\ stream'.stops[Len(stream'.stops)] = "aborted"
  <2>1. stream.stops \in Seq(STOP_REASONS)
    BY <1>0 DEF TypeOK, Stream
  <2>2. stream'.stops = Append(stream.stops, "aborted")
    BY <1>4, <1>8
  <2> QED BY <1>2, <2>1, <2>2
<1>9. pc' \notin TryPCs
  BY <1>5 DEF TryPCs, SeedPCs, ProposalPCs, EndPCs, EmitPCs
<1> QED BY <1>5, <1>7, <1>8, <1>9 DEF Ends

LEMMA EndsClose ==
  ASSUME IInv, ExcTrue, Ends, Last
  PROVE  Ends'
<1>0. /\ Secondary \in Nat /\ faults \in Nat /\ interrupted \in BOOLEAN
      /\ stream.stops \in Seq(STOP_REASONS)
  BY SecondaryType DEF IInv, TypeOK, Stream
<1> USE DEF TryPCs, SeedPCs, ProposalPCs, EndPCs, EmitPCs
<1>1. CASE WriteCompletedManifest
  <2>1. PICK o \in WriteOutcomes :
          /\ Durable(o, "returned", "abort")
          /\ manifest' = IF o = "lost" THEN manifest
                         ELSE [status |-> "completed",
                               stop_reason |-> budget.stop_reason]
    BY <1>1 DEF WriteCompletedManifest
  <2>2. /\ pc = "manifest" /\ UNCHANGED ledgerVars
        /\ pc' = IF o = "ok" THEN "returned" ELSE "abort"
    BY <1>1, <2>1 DEF WriteCompletedManifest, Durable
  <2>3. stream' = stream /\ budget' = budget /\ stream.stops = <<budget.stop_reason>>
    BY <2>2 DEF Ends, ledgerVars
  <2>4. Len(stream'.stops) <= 1
    BY <2>3, ShortStops
  <2> QED BY <2>1, <2>2, <2>3, <2>4 DEF Ends
<1>2. CASE WriteAbortedManifest
  <2>1. PICK o \in WriteOutcomes :
          /\ Durable(o, "raised", "raised")
          /\ manifest' = IF o = "lost" THEN manifest
                         ELSE [status |-> "aborted", stop_reason |-> "aborted",
                               exception |-> exc]
    BY <1>2 DEF WriteAbortedManifest
  <2>2. /\ pc = "abort_manifest" /\ pc' = "raised" /\ UNCHANGED ledgerVars
        /\ interrupted' = interrupted /\ exc' = exc
        /\ faults' = IF o = "ok" THEN faults ELSE faults + 1
    BY <1>2, <2>1 DEF WriteAbortedManifest, Durable
  <2>3. stream' = stream
    BY <2>2 DEF ledgerVars
  <2>4. ASSUME o # "ok" PROVE Secondary' # 0
    BY <1>0, <2>2, <2>4 DEF Secondary
  <2>5. ASSUME o = "ok"
        PROVE  /\ Secondary' = Secondary
               /\ manifest' = [status |-> "aborted", stop_reason |-> "aborted",
                               exception |-> exc']
    BY <2>1, <2>2, <2>5 DEF Secondary
  <2> QED BY <2>2, <2>3, <2>4, <2>5 DEF Ends
<1>3. CASE Terminated
  <2>1. /\ pc' = pc /\ UNCHANGED ledgerVars /\ manifest' = manifest
        /\ Secondary' = Secondary /\ exc' = exc
    BY <1>3 DEF Terminated, vars, envVars, Secondary
  <2> QED BY <2>1 DEF Ends, ledgerVars
<1> QED BY <1>1, <1>2, <1>3 DEF Last

LEMMA EndsStep ==
  ASSUME IInv, ExcTrue, Ends, [Next]_vars
  PROVE  Ends'
<1>0. /\ TypeOK /\ Secondary \in Nat /\ faults \in Nat /\ interrupted \in BOOLEAN
      /\ stream.stops \in Seq(STOP_REASONS)
  BY SecondaryType DEF IInv, TypeOK, Stream
<1>1. CASE UNCHANGED vars \/ ClockExpires
  <2>1. /\ pc' = pc /\ UNCHANGED ledgerVars /\ manifest' = manifest
        /\ Secondary' = Secondary /\ exc' = exc
    BY <1>1 DEF ClockExpires, vars, envVars, Secondary
  <2> QED BY <2>1 DEF Ends, ledgerVars
<1>2. CASE Idle
  <2>1. /\ UNCHANGED ledgerVars /\ pc \in Working
        /\ pc' \in Working \cup {"abort"}
    BY <1>2, IdleFlow
  <2> QED BY <1>0, <2>1, EndsRecords DEF ledgerVars
<1>3. CASE Check
  <2>1. stream' = stream /\ pc \in Working /\ pc' \in Working
    BY <1>0, <1>3, CheckFlow
  <2> QED BY <1>0, <2>1, EndsRecords
<1>4. CASE Recording \/ LLMCall \/ FinishRun
  BY <1>4, EndsWork
<1>5. CASE Last
  BY <1>5, EndsClose
<1>6. CASE Emit
  BY <1>6, EndsEmitWork, EndsEmitStop
<1>7. CASE EmitLLMCalls
  BY <1>7, EndsEmitWork
<1>8. CASE EmitAbort
  BY <1>8, EndsEmitAbort
<1>9. CASE AbortRun
  <2>1. /\ pc = "abort" /\ pc' = "abort_emit" /\ stream' = stream
        /\ pending' = <<StopEvent("aborted")>>
    BY <1>9 DEF AbortRun, RecordThenEmit
  <2>2. pc' \notin TryPCs
    BY <2>1 DEF TryPCs, SeedPCs, ProposalPCs, EndPCs, EmitPCs
  <2> QED BY <2>1, <2>2 DEF Ends
<1>10. CASE Interrupt
  <2>1. /\ ~interrupted /\ interrupted' /\ faults' = faults
        /\ UNCHANGED ledgerVars /\ manifest' = manifest
    BY <1>10 DEF Interrupt
  <2>2. CASE pc' = "abort"
    <3>1. pc \in TryPCs
      BY <1>10, <2>2 DEF Interrupt
    <3>2. stream.stops = <<>> \/ \E reason : stream.stops = <<reason>>
      BY <3>1 DEF Ends
    <3>3. Len(stream.stops) <= 1
      BY <3>2, ShortStops
    <3>4. "abort" \notin TryPCs
      BY DEF TryPCs, SeedPCs, ProposalPCs, EndPCs, EmitPCs
    <3> QED BY <2>1, <2>2, <3>3, <3>4 DEF Ends, ledgerVars
  <2>3. CASE pc' # "abort"
    <3>1. pc' \in {"abort_manifest", "raised"} /\ exc' = exc
      BY <1>10, <2>3 DEF Interrupt
    <3>2. exc # "KeyboardInterrupt"
      BY <2>1 DEF ExcTrue
    <3>3. Secondary' # 0
      BY <1>0, <2>1, <3>1, <3>2 DEF Secondary, ExcTrue
    <3>4. pc' \notin TryPCs
      BY <3>1 DEF TryPCs, SeedPCs, ProposalPCs, EndPCs, EmitPCs
    <3> QED BY <3>1, <3>3, <3>4 DEF Ends
  <2> QED BY <2>2, <2>3
<1>11. CASE BeginProposal
  BY <1>3, <1>4, <1>11 DEF Check, Recording
<1> QED BY <1>1, <1>2, <1>3, <1>4, <1>5, <1>6, <1>7, <1>8, <1>9, <1>10, <1>11
        DEF Next, Controller, Idle, Last, Check, Recording

LEMMA EndsAgree ==
  ASSUME Ends
  PROVE  TerminalRecordsAgree
  BY DEF Ends, TerminalRecordsAgree

LEMMA InitRecords == Init => Ledger /\ ExcTrue /\ Ends
<1> SUFFICES ASSUME Init PROVE ExcTrue /\ Ends
  BY LedgerInit
<1>1. pc = "seed_check" /\ stream.stops = <<>> /\ exc = None
  BY DEF Init
<1>2. None \notin {"OSError", "KeyboardInterrupt"}
  BY LoopAssumption DEF Exceptions
<1> QED BY <1>1, <1>2 DEF ExcTrue, Ends

(* The inductive invariant of the records. *)
LEMMA Records == Spec => [](Ledger /\ ExcTrue /\ Ends)
<1> DEFINE I == Ledger /\ ExcTrue /\ Ends
<1>1. Init => I
  BY InitRecords
<1>2. IInv /\ I /\ [Next]_vars => I'
  BY LedgerStep, ExcStep, EndsStep
<1> QED BY <1>1, <1>2, Invariant, PTL DEF Spec

(* What a run leaves behind is what happened.  Undisturbed, the events of  *)
(* log_controller_budget_event replay to the budget but for those not yet  *)
(* appended, and to the budget itself when evolve is over; a run that      *)
(* returns has one stop, that of its manifest; one that raises, and whose  *)
(* _write_aborted_runtime meets no further trouble, has a manifest that    *)
(* names the exception, and "aborted" for its last stop.                   *)
THEOREM RecordsAreTrue == Spec => []RecordsAgree
<1>1. IInv /\ Ledger /\ ExcTrue /\ Ends => RecordsAgree
  BY LedgerAgrees, EndsAgree DEF RecordsAgree, IInv
<1> QED BY <1>1, Invariant, Records, PTL
=============================================================================
