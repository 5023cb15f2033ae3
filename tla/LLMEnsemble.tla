---------------------------- MODULE LLMEnsemble ----------------------------
(***************************************************************************)
(* LLMEnsemble of llm/ensemble.py: one logical call (generate) selects a   *)
(* backend by its scheduler, retries it, falls back to others, and keeps   *)
(* the scheduler's accounts; the controller later rewards the calls whose  *)
(* response it used (record_reward).                                       *)
(*                                                                         *)
(* One action is one turn of the loops of generate.  What the scheduler's  *)
(* score prefers among backends already tried is left open; a backend      *)
(* never tried is preferred, in index order, as in the code.  The list of  *)
(* a backend's unrewarded call ids is always in increasing order (ids grow *)
(* and are appended), so it is kept as a set whose minimum is its head.    *)
(***************************************************************************)
EXTENDS Integers, Sequences, FiniteSets, FiniteSetsExt, Functions

CONSTANTS
  NumBackends,      \* len(backends)
  Roles,            \* the roles generate is called for
  RewardAccounted,  \* reward_accounted_roles
  RoleScoped,       \* role_scheduler_scope is "role_scoped"
  RoleBackends,     \* the roles confined to some backends -> these backends
  Fallback,         \* fallback
  MaxRetries,       \* max_retries
  MaxCallAttempts,  \* max_call_attempts
  MaxCallHistory,   \* max_call_history
  CallLimits,       \* max_calls_by_role: role scope -> Nat
  ScopeRoles,       \* role scope -> the roles it matches
  QuarantineAfter,  \* role_failure_quarantine_after: role -> Nat \ {0}
  Rewards,          \* the rewards the controller gives
  MaxCalls,         \* bound: logical calls
  MaxFaults         \* bound: Ctrl+C and record sinks that raise

Backends == 0 .. (NumBackends - 1)
MAX_REWARD == 1

ASSUME EnsembleAssumption ==
  /\ NumBackends \in Nat \ {0}
  /\ IsFiniteSet(Roles) /\ Roles # {}
  /\ RewardAccounted \subseteq Roles
  /\ RoleScoped \in BOOLEAN /\ Fallback \in BOOLEAN
  /\ DOMAIN RoleBackends \subseteq Roles
  /\ \A r \in DOMAIN RoleBackends :
       RoleBackends[r] \in (SUBSET Backends) \ {{}}
  /\ MaxRetries \in Nat
  /\ MaxCallAttempts \in Nat \ {0} /\ MaxCallHistory \in Nat \ {0}
  /\ DOMAIN CallLimits \subseteq DOMAIN ScopeRoles
  /\ \A s \in DOMAIN CallLimits : CallLimits[s] \in Nat
  /\ \A s \in DOMAIN ScopeRoles : ScopeRoles[s] \subseteq Roles
  /\ DOMAIN QuarantineAfter \subseteq Roles
  /\ \A r \in DOMAIN QuarantineAfter : QuarantineAfter[r] \in Nat \ {0}
  /\ Rewards \subseteq Nat
  /\ MaxCalls \in Nat /\ MaxFaults \in Nat

VARIABLES
  pc,            \* where generate is; "idle" between calls
  scheduler,     \* the ensemble's own accounts
  byRole,        \* role -> the accounts of that role
  history,       \* the window of call records
  totalRecords,  \* _call_history_total_records
  logicalCalls,  \* role -> generate calls let through
  provider,      \* role -> backend -> [failures in a row, quarantined]
  call,          \* the call in progress, or the last one
  outcome,       \* how the last call ended
  faults

vars == <<pc, scheduler, byRole, history, totalRecords, logicalCalls, provider,
          call, outcome, faults>>

(***************************************************************************)
(* Types.                                                                  *)
(***************************************************************************)
Accounts ==
  [counts     : [Backends -> Nat],       \* calls that ran to their end
   wins       : [Backends -> Nat],       \* the sum of the rewards
   total      : Nat,                     \* selections
   unrewarded : [Backends -> SUBSET Nat],
   rewarded   : SUBSET Nat]

NoAccounts ==
  [counts     |-> [b \in Backends |-> 0],
   wins       |-> [b \in Backends |-> 0],
   total      |-> 0,
   unrewarded |-> [b \in Backends |-> {}],
   rewarded   |-> {}]

Record ==
  [id : Nat, role : Roles, backend : Backends, ok : BOOLEAN,
   rewarded : BOOLEAN]

Call ==
  [role     : Roles,
   excluded : SUBSET Backends,
   round    : Nat,       \* fallback_attempt
   retry    : Nat,       \* retry_attempt
   attempts : Nat,       \* attempt_index
   backend  : Backends,
   failed   : BOOLEAN]   \* last_exc is set

Outcomes ==
  {"none", "response", "provider_error", "no_eligible", "role_call_limit",
   "assertion_error", "sink_error", "interrupted"}

Init ==
  /\ pc = "idle"
  /\ scheduler = NoAccounts
  /\ byRole = [r \in Roles |-> NoAccounts]
  /\ history = <<>>
  /\ totalRecords = 0
  /\ logicalCalls = [r \in Roles |-> 0]
  /\ provider = [r \in Roles |->
                   [b \in Backends |-> [failures |-> 0, quarantined |-> FALSE]]]
  /\ call = [role |-> CHOOSE r \in Roles : TRUE, excluded |-> {}, round |-> 0,
             retry |-> 0, attempts |-> 0, backend |-> 0, failed |-> FALSE]
  /\ outcome = "none"
  /\ faults = 0

(***************************************************************************)
(* generate: the way in.                                                   *)
(***************************************************************************)
LimitReachedByRoleAlone(role) ==
  \E s \in DOMAIN CallLimits :
    /\ role \in ScopeRoles[s]
    /\ logicalCalls[role] >= CallLimits[s]

(* _enforce_role_call_limit: the calls of every role a scope matches count.*)
LimitReached(role) ==
  \E s \in DOMAIN CallLimits :
    /\ role \in ScopeRoles[s]
    /\ SumFunctionOnSet(logicalCalls, ScopeRoles[s]) >= CallLimits[s]

NobodyQuarantined(role) == {}
Quarantined(role) == {b \in Backends : provider[role][b].quarantined}

StartWithoutBackend(role) ==
  [role |-> role, excluded |-> Quarantined(role), round |-> 0, retry |-> 0,
   attempts |-> 0, backend |-> -1, failed |-> FALSE]
StartOf(role) ==
  [role |-> role, excluded |-> Quarantined(role), round |-> 0, retry |-> 0,
   attempts |-> 0, backend |-> 0, failed |-> FALSE]

RefuseCall(role) ==
  /\ pc = "idle"
  /\ LimitReached(role)
  /\ call' = StartOf(role)
  /\ outcome' = "role_call_limit"
  /\ UNCHANGED <<pc, scheduler, byRole, history, totalRecords, logicalCalls,
                 provider, faults>>

BeginCall(role) ==
  /\ pc = "idle"
  /\ ~LimitReached(role)
  /\ SumFunctionOnSet(logicalCalls, Roles) < MaxCalls
  /\ logicalCalls' = [logicalCalls EXCEPT ![role] = @ + 1]
  /\ call' = StartOf(role)
  /\ outcome' = "none"
  /\ pc' = "select"
  /\ UNCHANGED <<scheduler, byRole, history, totalRecords, provider, faults>>

(***************************************************************************)
(* Selection.                                                              *)
(***************************************************************************)
Accounted == call.role \in RewardAccounted
Allowed ==
  IF call.role \in DOMAIN RoleBackends THEN RoleBackends[call.role]
                                       ELSE Backends
EligibleBackends == Allowed \ call.excluded

Rounds == IF Fallback THEN NumBackends ELSE 1

(* The conditions that end the fallback loop.  Only a role confined to     *)
(* some backends is asked whether one is left.                             *)
SelectionOver ==
  \/ call.round >= Rounds
  \/ call.attempts >= MaxCallAttempts
  \/ call.role \in DOMAIN RoleBackends /\ EligibleBackends = {}

(* The accounts the selection is made on. *)
SelectionAccounts ==
  IF Accounted /\ RoleScoped THEN byRole[call.role] ELSE scheduler

PreferredBackends ==
  LET untried == {b \in EligibleBackends : SelectionAccounts.counts[b] = 0}
  IN  IF untried = {} THEN EligibleBackends ELSE {Min(untried)}

SelectInRoleAlone(b) ==
  /\ byRole' = IF Accounted
               THEN [byRole EXCEPT ![call.role].total = @ + 1]
               ELSE byRole
  /\ scheduler' = IF Accounted /\ ~RoleScoped
                  THEN [scheduler EXCEPT !.total = @ + 1]
                  ELSE scheduler

(* Whichever accounts were selected on, both totals advance. *)
AccountSelection(b) ==
  /\ byRole' = IF Accounted
               THEN [byRole EXCEPT ![call.role].total = @ + 1]
               ELSE byRole
  /\ scheduler' = IF Accounted THEN [scheduler EXCEPT !.total = @ + 1]
                               ELSE scheduler

SelectBackend ==
  /\ pc = "select"
  /\ ~SelectionOver
  /\ \E b \in PreferredBackends :
       /\ AccountSelection(b)
       /\ call' = [call EXCEPT !.backend = b, !.retry = 0]
  /\ pc' = "attempt"
  /\ UNCHANGED <<history, totalRecords, logicalCalls, provider, outcome,
                 faults>>

NoEligibleBackendYet ==
  /\ pc = "select"
  /\ ~SelectionOver
  /\ EligibleBackends = {}
  /\ UNCHANGED vars

(* _ucb1_select has nobody to select: ValueError. *)
NoEligibleBackend ==
  /\ pc = "select"
  /\ ~SelectionOver
  /\ EligibleBackends = {}
  /\ pc' = "idle"
  /\ outcome' = "no_eligible"
  /\ UNCHANGED <<scheduler, byRole, history, totalRecords, logicalCalls,
                 provider, call, faults>>

(* After the loops: assert last_exc is not None, and raise it. *)
RaiseLastException ==
  /\ pc = "select"
  /\ SelectionOver
  /\ pc' = "idle"
  /\ outcome' = IF call.failed THEN "provider_error" ELSE "assertion_error"
  /\ UNCHANGED <<scheduler, byRole, history, totalRecords, logicalCalls,
                 provider, call, faults>>

(***************************************************************************)
(* One attempt on the selected backend.                                    *)
(***************************************************************************)
CallId == totalRecords + 1

WindowDroppingTheNewest(s) ==
  IF Len(s) > MaxCallHistory THEN SubSeq(s, 1, MaxCallHistory) ELSE s
Window(s) ==
  IF Len(s) > MaxCallHistory THEN Tail(s) ELSE s

(* _append_call_record, but for the sink. *)
AppendRecord(ok) ==
  /\ totalRecords' = totalRecords + 1
  /\ history' = Window(Append(history,
                  [id |-> CallId, role |-> call.role,
                   backend |-> call.backend, ok |-> ok, rewarded |-> FALSE]))

SinkOutcomes == {"ok"} \cup (IF faults < MaxFaults THEN {"raises"} ELSE {})

(* The accounts once a call to b ran to its end; fresh: the ids it makes   *)
(* rewardable.                                                             *)
Counted(a, b, fresh) ==
  [a EXCEPT !.counts[b] = @ + 1, !.unrewarded[b] = @ \cup fresh]

Account(b, fresh) ==
  IF Accounted
  THEN /\ scheduler' = Counted(scheduler, b, fresh)
       /\ byRole' = [byRole EXCEPT ![call.role] = Counted(@, b, fresh)]
  ELSE UNCHANGED <<scheduler, byRole>>

WillRetryForever == call.retry < MaxRetries
WillRetry ==
  call.retry < MaxRetries /\ call.attempts + 1 < MaxCallAttempts

(* _record_provider_failure_policy_state, on a failure not to be retried. *)
ProviderFailure(b) ==
  IF call.role \notin DOMAIN QuarantineAfter
  THEN provider
  ELSE LET n == provider[call.role][b].failures + 1 IN
       [provider EXCEPT ![call.role][b] =
          [failures    |-> n,
           quarantined |-> @.quarantined
                           \/ n >= QuarantineAfter[call.role]]]

(* A record sink that raises ends the call whatever was to come. *)
AttemptFails ==
  /\ pc = "attempt"
  /\ AppendRecord(FALSE)
  /\ IF WillRetry
     THEN /\ UNCHANGED <<scheduler, byRole, provider>>
          /\ call' = [call EXCEPT !.attempts = @ + 1, !.failed = TRUE,
                                  !.retry = @ + 1]
     ELSE /\ Account(call.backend, {})
          /\ provider' = ProviderFailure(call.backend)
          /\ call' = [call EXCEPT !.attempts = @ + 1, !.failed = TRUE,
                                  !.excluded = @ \cup {call.backend},
                                  !.round = @ + 1]
  /\ \E o \in SinkOutcomes :
       IF o = "ok"
       THEN /\ pc' = IF WillRetry THEN "attempt" ELSE "select"
            /\ UNCHANGED <<outcome, faults>>
       ELSE /\ pc' = "idle"
            /\ outcome' = "sink_error"
            /\ faults' = faults + 1
  /\ UNCHANGED logicalCalls

(* _record_provider_success forgets the backend's failures.  A response    *)
(* whose record the sink refused is lost, and never becomes rewardable.    *)
AttemptAnswers ==
  /\ pc = "attempt"
  /\ AppendRecord(TRUE)
  /\ call' = [call EXCEPT !.attempts = @ + 1]
  /\ provider' = [provider EXCEPT ![call.role][call.backend] =
                    [failures |-> 0, quarantined |-> FALSE]]
  /\ \E o \in SinkOutcomes :
       IF o = "ok"
       THEN /\ Account(call.backend, {CallId})
            /\ outcome' = "response"
            /\ UNCHANGED faults
       ELSE /\ Account(call.backend, {})
            /\ outcome' = "sink_error"
            /\ faults' = faults + 1
  /\ pc' = "idle"
  /\ UNCHANGED logicalCalls

(* Ctrl+C in the backend is no Exception: no record, no account. *)
InterruptAttempt ==
  /\ pc = "attempt"
  /\ faults < MaxFaults
  /\ pc' = "idle"
  /\ outcome' = "interrupted"
  /\ faults' = faults + 1
  /\ UNCHANGED <<scheduler, byRole, history, totalRecords, logicalCalls,
                 provider, call>>

(***************************************************************************)
(* record_reward.                                                          *)
(***************************************************************************)
UncappedReward(reward) == reward
Applied(reward) == IF reward < MAX_REWARD THEN reward ELSE MAX_REWARD

Claim(a, b, id, reward) ==
  [a EXCEPT !.wins[b] = @ + Applied(reward),
            !.unrewarded[b] = @ \ {id},
            !.rewarded = @ \cup {id}]

ClaimOfNoRole(b, id, reward) == byRole

(* _claim_role_reward_call_id: the role whose list has the id. *)
ClaimByRole(b, id, reward) ==
  [r \in Roles |->
     IF id \in byRole[r].unrewarded[b] THEN Claim(byRole[r], b, id, reward)
                                       ELSE byRole[r]]

(* The id is one the caller names or the backend's oldest.  A sink that    *)
(* raises does so after the accounts changed: the reward stands.           *)
RecordReward(b, id, reward) ==
  /\ pc = "idle"
  /\ id \in scheduler.unrewarded[b]
  /\ scheduler' = Claim(scheduler, b, id, reward)
  /\ byRole' = ClaimByRole(b, id, reward)
  /\ history' = [i \in DOMAIN history |->
                   [history[i] EXCEPT !.rewarded = @ \/ history[i].id = id]]
  /\ \E o \in SinkOutcomes :
       faults' = IF o = "ok" THEN faults ELSE faults + 1
  /\ UNCHANGED <<pc, totalRecords, logicalCalls, provider, call, outcome>>

Generate ==
  \/ SelectBackend \/ NoEligibleBackend \/ RaiseLastException
  \/ AttemptFails \/ AttemptAnswers \/ InterruptAttempt

Next ==
  \/ \E role \in Roles : RefuseCall(role) \/ BeginCall(role)
  \/ Generate
  \/ \E b \in Backends, reward \in Rewards :
       \E id \in scheduler.unrewarded[b] : RecordReward(b, id, reward)

(* A call in progress is one thread that goes on; nobody has to call. *)
Spec == Init /\ [][Next]_vars
FairSpec == Spec /\ WF_vars(Generate)

(***************************************************************************)
(* Properties.                                                             *)
(***************************************************************************)
(* Every variable keeps its type. *)
TypeOK ==
  /\ pc \in {"idle", "select", "attempt"}
  /\ scheduler \in Accounts
  /\ byRole \in [Roles -> Accounts]
  /\ history \in Seq(Record)
  /\ totalRecords \in Nat
  /\ logicalCalls \in [Roles -> Nat]
  /\ provider \in
       [Roles -> [Backends -> [failures : Nat, quarantined : BOOLEAN]]]
  /\ call \in Call
  /\ outcome \in Outcomes
  /\ faults \in Nat

(* What _validate_scheduler_state asks of the accounts. *)
AccountsValid(a) ==
  /\ SumFunction(a.counts) <= a.total
  /\ \A b, c \in Backends : b # c => a.unrewarded[b] \cap a.unrewarded[c] = {}
  /\ \A b \in Backends : a.unrewarded[b] \cap a.rewarded = {}

(* The ensemble never refuses its own accounts: _ucb1_select and           *)
(* record_reward validate them on every call, and raise if the selections  *)
(* are fewer than the calls counted, or a call id is listed twice.  Nor is *)
(* the total ever further ahead than by the call in progress and the calls *)
(* an exception cut short.                                                 *)
SchedulerAccepted ==
  /\ AccountsValid(scheduler)
  /\ \A r \in Roles : AccountsValid(byRole[r])
  /\ scheduler.total <= SumFunction(scheduler.counts) + faults
                          + (IF pc = "attempt" THEN 1 ELSE 0)

(* The roles' accounts, which the scheduler of a role-scoped ensemble      *)
(* selects by, add up to the ensemble's own.                               *)
RolesAddUp ==
  /\ scheduler.total = SumFunction([r \in Roles |-> byRole[r].total])
  /\ scheduler.rewarded = UNION {byRole[r].rewarded : r \in Roles}
  /\ \A b \in Backends :
       /\ scheduler.counts[b] =
            SumFunction([r \in Roles |-> byRole[r].counts[b]])
       /\ scheduler.wins[b] =
            SumFunction([r \in Roles |-> byRole[r].wins[b]])
       /\ scheduler.unrewarded[b] =
            UNION {byRole[r].unrewarded[b] : r \in Roles}

(* Both accounts keep their types, are accepted and agree.                 *)
AccountsAgree == TypeOK /\ SchedulerAccepted /\ RolesAddUp

(* Whatever rewards are given, and given twice, the mean reward of a       *)
(* backend stays a mean of capped rewards, at most one per call: wins and  *)
(* the calls still to be rewarded never outnumber the calls counted.       *)
OneRewardPerCall ==
  \A b \in Backends :
    scheduler.wins[b] + MAX_REWARD * Cardinality(scheduler.unrewarded[b])
      <= MAX_REWARD * scheduler.counts[b]

(* The window of records is the last MaxCallHistory of them, in order, and *)
(* says of each whether it was rewarded, as the scheduler knows it.        *)
WindowIsTail ==
  /\ Len(history) = IF totalRecords < MaxCallHistory THEN totalRecords
                                                     ELSE MaxCallHistory
  /\ \A i \in DOMAIN history :
       /\ history[i].id = totalRecords - Len(history) + i
       /\ history[i].rewarded <=> history[i].id \in scheduler.rewarded
       /\ history[i].rewarded => history[i].ok

(* What is rewarded, and what is told of it.                               *)
RewardsAreTold == OneRewardPerCall /\ WindowIsTail

(* What the controller relies on: a call makes at most max_call_attempts   *)
(* attempts, each leaving a record, retries and fallbacks together; a      *)
(* response was an attempt; a call over its role's limit made none; and no *)
(* role scope is ever let through more often than its limit, whichever of  *)
(* its roles make the calls.                                               *)
CallContract ==
  /\ call.attempts <= MaxCallAttempts
  /\ call.attempts <= Rounds * (MaxRetries + 1)
  /\ outcome \in {"response", "sink_error"} => call.attempts >= 1
  /\ outcome = "provider_error" => call.failed
  /\ outcome \in {"role_call_limit", "assertion_error"} => call.attempts = 0
  /\ \A s \in DOMAIN CallLimits :
       SumFunctionOnSet(logicalCalls, ScopeRoles[s]) <= CallLimits[s]

(* A backend quarantined for a role is never called for that role again,   *)
(* so no success ever lifts a quarantine.                                  *)
QuarantineHolds ==
  [][\A r \in Roles, b \in Backends :
       provider[r][b].quarantined =>
         /\ provider'[r][b].quarantined
         /\ (totalRecords' # totalRecords /\ call.role = r)
              => call.backend # b]_vars

(* generate returns or raises. *)
CallReturns == (pc # "idle") ~> (pc = "idle")

=============================================================================
