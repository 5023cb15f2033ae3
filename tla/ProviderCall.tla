---------------------------- MODULE ProviderCall ----------------------------
(***************************************************************************)
(* One backend called again and again under a timeout                      *)
(* (_call_backend_generate of llm/ensemble.py), and the local command-line *)
(* backend it calls (llm/codex_cli.py): a daemon thread per attempt, a     *)
(* one-slot queue for its answer, an event that cancels it, a bounded      *)
(* join, and the process it launches, polls, kills and reaps.              *)
(*                                                                         *)
(* Time is discrete.  A wait with a timeout has a timer; Tick advances all *)
(* of them, and stops at a timer that has run out until its owner acts.    *)
(* Starting a thread, launching a process and writing files take any time. *)
(***************************************************************************)
EXTENDS Integers, FiniteSets

CONSTANTS
  MaxAttempts,    \* bound: attempts made on the backend
  CallTimeout,    \* call_timeout_sec
  JoinTimeout,    \* the join of a cancelled worker: 6.0 s
  ReapTimeout,    \* the wait for a killed process: 5.0 s
  PollInterval,   \* how often the backend looks at the event: 0.1 s
  Polls,          \* polls until the backend's own timeout_sec
  MaxFaults       \* bound: threads that do not start, kills that hang, Ctrl+C

ASSUME ProviderAssumption ==
  /\ MaxAttempts \in Nat /\ MaxFaults \in Nat
  /\ CallTimeout \in Nat \ {0} /\ JoinTimeout \in Nat \ {0}
  /\ ReapTimeout \in Nat \ {0} /\ PollInterval \in Nat \ {0}
  /\ Polls \in Nat \ {0}
  /\ PollInterval + ReapTimeout < JoinTimeout

VARIABLES
  cancellable,   \* the backend declares generate_cancellable
  caller,        \* where the caller is
  timer,         \* the caller's timer
  attempt,       \* the attempt in progress, or the last one
  worker,        \* attempt -> where its thread is
  clock,         \* attempt -> the timer of its thread
  polls,         \* attempt -> the polls its thread made
  cause,         \* attempt -> why its thread no longer communicates
  queue,         \* attempt -> the one slot of its queue
  event,         \* the attempts whose cancel event is set
  process,       \* attempt -> the process it launched
  metadata,      \* the attempt the backend's response metadata is about; 0: {}
  outcome,       \* attempt -> how it ended for the caller
  cancellation,  \* attempt -> in_flight_cancellation
  telemetry,     \* attempt -> the metadata its call record took
  faults

callerVars == <<caller, timer, attempt, outcome, cancellation, telemetry>>
threadVars == <<worker, clock, polls, cause>>
backendVars == <<threadVars, queue, process, metadata>>
vars == <<cancellable, callerVars, backendVars, event, faults>>

Attempts == 1 .. MaxAttempts
Unread == -1

CallerPCs == {"idle", "start", "wait", "join", "read", "stopped"}
WorkerPCs == {"unborn", "ready", "launch", "communicate", "kill", "drain",
              "write", "finally", "finished"}
Causes == {"none", "exited", "timeout", "cancelled", "launch_cancelled"}

Init ==
  /\ cancellable \in BOOLEAN
  /\ caller = "idle"
  /\ timer = 0
  /\ attempt = 0
  /\ worker = [a \in Attempts |-> "unborn"]
  /\ clock = [a \in Attempts |-> 0]
  /\ polls = [a \in Attempts |-> 0]
  /\ cause = [a \in Attempts |-> "none"]
  /\ queue = [a \in Attempts |-> "empty"]
  /\ event = {}
  /\ process = [a \in Attempts |-> "none"]
  /\ metadata = 0
  /\ outcome = [a \in Attempts |-> "none"]
  /\ cancellation = [a \in Attempts |-> "none"]
  /\ telemetry = [a \in Attempts |-> Unread]
  /\ faults = 0

(***************************************************************************)
(* The caller.                                                             *)
(***************************************************************************)
BeginAttempt ==
  /\ caller = "idle"
  /\ attempt < MaxAttempts
  /\ attempt' = attempt + 1
  /\ caller' = "start"
  /\ UNCHANGED <<cancellable, timer, outcome, cancellation, telemetry,
                 backendVars, event, faults>>

StartWorker ==
  /\ caller = "start"
  /\ worker' = [worker EXCEPT ![attempt] = "ready"]
  /\ caller' = "wait"
  /\ timer' = CallTimeout
  /\ UNCHANGED <<cancellable, attempt, outcome, cancellation, telemetry, clock,
                 polls, cause, queue, process, metadata, event, faults>>

Cancel == IF cancellable THEN event \cup {attempt} ELSE event

(* A thread that cannot be started is not joined; its error is one the     *)
(* ensemble records like any other.                                        *)
StartFails ==
  /\ caller = "start"
  /\ faults < MaxFaults
  /\ faults' = faults + 1
  /\ event' = Cancel
  /\ outcome' = [outcome EXCEPT ![attempt] = "error"]
  /\ caller' = "read"
  /\ UNCHANGED <<cancellable, timer, attempt, cancellation, telemetry,
                 backendVars>>

Answer ==
  /\ caller = "wait"
  /\ queue[attempt] # "empty"
  /\ outcome' = [outcome EXCEPT ![attempt] = queue[attempt]]
  /\ caller' = "read"
  /\ UNCHANGED <<cancellable, timer, attempt, cancellation, telemetry,
                 backendVars, event, faults>>

(* cancel_local_worker. *)
JoinAsLongAsAReap == ReapTimeout
JoinFor == JoinTimeout

CancelLocalWorker(next) ==
  /\ event' = Cancel
  /\ IF cancellable
     THEN /\ caller' = "join"
          /\ timer' = JoinFor
          /\ UNCHANGED cancellation
     ELSE /\ caller' = next
          /\ cancellation' = [cancellation EXCEPT ![attempt] = "unsupported"]
          /\ UNCHANGED timer

GetWithoutTimeout == FALSE
TimesOut ==
  /\ caller = "wait"
  /\ timer = 0
  /\ queue[attempt] = "empty"
  /\ outcome' = [outcome EXCEPT ![attempt] = "timeout"]
  /\ CancelLocalWorker("read")
  /\ UNCHANGED <<cancellable, attempt, telemetry, backendVars, faults>>

Interrupted ==
  /\ caller = "wait"
  /\ faults < MaxFaults
  /\ faults' = faults + 1
  /\ outcome' = [outcome EXCEPT ![attempt] = "interrupted"]
  /\ CancelLocalWorker("stopped")
  /\ UNCHANGED <<cancellable, attempt, telemetry, backendVars>>

AfterJoin == IF outcome[attempt] = "interrupted" THEN "stopped" ELSE "read"

JoinReturns ==
  /\ caller = "join"
  /\ worker[attempt] = "finished"
  /\ cancellation' = [cancellation EXCEPT ![attempt] = "finished"]
  /\ caller' = AfterJoin
  /\ UNCHANGED <<cancellable, timer, attempt, outcome, telemetry, backendVars,
                 event, faults>>

JoinExpires ==
  /\ caller = "join"
  /\ timer = 0
  /\ worker[attempt] # "finished"
  /\ cancellation' = [cancellation EXCEPT ![attempt] = "may_continue"]
  /\ caller' = AfterJoin
  /\ UNCHANGED <<cancellable, timer, attempt, outcome, telemetry, backendVars,
                 event, faults>>

(* The ensemble's record of the attempt takes whatever metadata the        *)
(* backend holds by then.                                                  *)
ReadTelemetry ==
  /\ caller = "read"
  /\ telemetry' = [telemetry EXCEPT ![attempt] = metadata]
  /\ caller' = "idle"
  /\ UNCHANGED <<cancellable, timer, attempt, outcome, cancellation,
                 backendVars, event, faults>>

(***************************************************************************)
(* A worker.                                                               *)
(***************************************************************************)
MovesTo(a, place) ==
  /\ worker' = [worker EXCEPT ![a] = place]
  /\ UNCHANGED <<cancellable, clock, polls>>

WaitsAt(a, place, time) ==
  /\ worker' = [worker EXCEPT ![a] = place]
  /\ clock' = [clock EXCEPT ![a] = time]
  /\ UNCHANGED polls

Finish(a, result) ==
  /\ MovesTo(a, "finished")
  /\ queue' = [queue EXCEPT ![a] = result]

(* _generate forgets the metadata of the call before, then looks at the    *)
(* event.                                                                  *)
EnterKeepingMetadata(a) ==
  /\ worker[a] = "ready"
  /\ a \notin event
  /\ MovesTo(a, "launch")
  /\ UNCHANGED <<cancellable, callerVars, cause, queue, metadata, event,
                 process, faults>>

Enter(a) ==
  /\ worker[a] = "ready"
  /\ a \notin event
  /\ metadata' = 0
  /\ MovesTo(a, "launch")
  /\ UNCHANGED <<cancellable, callerVars, cause, queue, event, process,
                 faults>>

EnterCancelled(a) ==
  /\ worker[a] = "ready"
  /\ a \in event
  /\ metadata' = 0
  /\ Finish(a, "error")
  /\ UNCHANGED <<cancellable, callerVars, cause, event, process, faults>>

LaunchFails(a) ==
  /\ worker[a] = "launch"
  /\ metadata' = a
  /\ Finish(a, "error")
  /\ UNCHANGED <<cancellable, callerVars, cause, event, process, faults>>

(* _communicate_cancellable looks at the event before its first wait.      *)
Launch(a) ==
  /\ worker[a] = "launch"
  /\ a \notin event
  /\ WaitsAt(a, "communicate", PollInterval)
  /\ process' = [process EXCEPT ![a] = "running"]
  /\ UNCHANGED <<cancellable, callerVars, cause, queue, metadata, event,
                 faults>>

LaunchCancelled(a) ==
  /\ worker[a] = "launch"
  /\ a \in event
  /\ WaitsAt(a, "finally", ReapTimeout)
  /\ cause' = [cause EXCEPT ![a] = "launch_cancelled"]
  /\ process' = [process EXCEPT ![a] = "killed"]
  /\ UNCHANGED <<cancellable, callerVars, queue, metadata, event, faults>>

CommunicateReturns(a) ==
  /\ worker[a] = "communicate"
  /\ process[a] = "exited"
  /\ MovesTo(a, "write")
  /\ cause' = [cause EXCEPT ![a] = "exited"]
  /\ metadata' = a
  /\ UNCHANGED <<cancellable, callerVars, queue, event, process, faults>>

(* _terminate_process_tree, up to the wait.                                *)
SpareTheRunning(a) == process[a]
Killed(a) == IF process[a] = "running" THEN "killed" ELSE process[a]

Terminate(a, place, why) ==
  /\ WaitsAt(a, place, ReapTimeout)
  /\ cause' = [cause EXCEPT ![a] = why]
  /\ process' = [process EXCEPT ![a] = Killed(a)]

(* A wait of PollInterval is over: the backend's own deadline first, then  *)
(* the event.                                                              *)
OwnDeadline(a) == polls[a] + 1 >= Polls

PollOver(a) ==
  /\ worker[a] = "communicate"
  /\ clock[a] = 0
  /\ UNCHANGED <<cancellable, callerVars, queue, metadata, event, faults>>

PollTimesOut(a) ==
  /\ PollOver(a)
  /\ OwnDeadline(a)
  /\ Terminate(a, "kill", "timeout")

PollCancelled(a) ==
  /\ PollOver(a)
  /\ ~OwnDeadline(a)
  /\ a \in event
  /\ Terminate(a, "finally", "cancelled")

PollAgain(a) ==
  /\ PollOver(a)
  /\ ~OwnDeadline(a)
  /\ a \notin event
  /\ clock' = [clock EXCEPT ![a] = PollInterval]
  /\ polls' = [polls EXCEPT ![a] = @ + 1]
  /\ UNCHANGED <<cancellable, worker, cause, process>>

(* After the backend's own timeout: reaped, the pipes are drained, for as  *)
(* long as a reap at most; not reaped, the error reaches the finally       *)
(* clause, which kills and waits again.                                    *)
KillReaped(a) ==
  /\ worker[a] = "kill"
  /\ WaitsAt(a, "drain", ReapTimeout)
  /\ UNCHANGED <<cancellable, callerVars, cause, queue, metadata, event,
                 process, faults>>

KillHangs(a) ==
  /\ worker[a] = "kill"
  /\ clock[a] = 0
  /\ faults < MaxFaults
  /\ faults' = faults + 1
  /\ WaitsAt(a, "finally", ReapTimeout)
  /\ UNCHANGED <<cancellable, callerVars, cause, queue, metadata, event,
                 process>>

Drain(a) ==
  /\ worker[a] = "drain"
  /\ MovesTo(a, "write")
  /\ metadata' = a
  /\ UNCHANGED <<cancellable, callerVars, cause, queue, event, process,
                 faults>>

(* The transcript, the answer and its checks.                              *)
WriteAndReturn(a) ==
  /\ worker[a] = "write"
  /\ metadata' = a
  /\ \E result \in {"response", "error"} :
       /\ cause[a] = "timeout" => result = "error"
       /\ Finish(a, result)
  /\ UNCHANGED <<cancellable, callerVars, cause, event, process, faults>>

(* Reaped or not, the finally clause ends by raising.                      *)
FinallyEnds(a) ==
  /\ worker[a] = "finally"
  /\ Finish(a, "error")
  /\ UNCHANGED <<cancellable, callerVars, cause, metadata, event, process,
                 faults>>

(***************************************************************************)
(* The environment.                                                        *)
(***************************************************************************)
ProcessExits(a) ==
  /\ process[a] = "running"
  /\ process' = [process EXCEPT ![a] = "exited"]
  /\ UNCHANGED <<cancellable, callerVars, threadVars, queue, metadata, event,
                 faults>>

WaitingCaller == caller \in {"wait", "join"}
WaitingWorkers ==
  {a \in Attempts : worker[a] \in {"communicate", "kill", "drain",
                                   "finally"}}

Tick ==
  /\ WaitingCaller \/ WaitingWorkers # {}
  /\ WaitingCaller => timer > 0
  /\ \A a \in WaitingWorkers : clock[a] > 0
  /\ timer' = IF WaitingCaller THEN timer - 1 ELSE timer
  /\ clock' = [a \in Attempts |->
                 IF a \in WaitingWorkers THEN clock[a] - 1 ELSE clock[a]]
  /\ UNCHANGED <<cancellable, caller, attempt, outcome, cancellation,
                 telemetry, worker, polls, cause, queue, process, metadata,
                 event, faults>>

Quiet ==
  /\ \/ caller = "stopped"
     \/ /\ caller = "idle"
        /\ attempt = MaxAttempts
  /\ \A a \in Attempts : worker[a] \in {"unborn", "finished"}
  /\ UNCHANGED vars

Caller ==
  \/ StartWorker \/ StartFails
  \/ Answer \/ TimesOut \/ JoinReturns \/ JoinExpires \/ ReadTelemetry

(* The steps that end a wait of a worker, and those that take any time. *)
Timed(a) ==
  \/ CommunicateReturns(a)
  \/ PollTimesOut(a) \/ PollCancelled(a) \/ PollAgain(a)
  \/ KillReaped(a) \/ KillHangs(a) \/ Drain(a) \/ FinallyEnds(a)
Untimed(a) ==
  \/ Enter(a) \/ EnterCancelled(a)
  \/ Launch(a) \/ LaunchCancelled(a) \/ LaunchFails(a)
  \/ WriteAndReturn(a)

Next ==
  \/ BeginAttempt \/ Caller \/ Interrupted \/ Tick \/ Quiet
  \/ \E a \in Attempts : Timed(a) \/ Untimed(a) \/ ProcessExits(a)

(* Time passes, the caller goes on, and a wait with a timeout ends.  A     *)
(* thread may never be scheduled, a launch or a write may hang.            *)
Spec == Init /\ [][Next]_vars
FairSpec ==
  /\ Spec
  /\ WF_vars(Caller) /\ WF_vars(Tick)
  /\ \A a \in Attempts : WF_vars(Timed(a))

(***************************************************************************)
(* Properties.                                                             *)
(***************************************************************************)
(* Every variable keeps its type. *)
TypeOK ==
  /\ cancellable \in BOOLEAN
  /\ caller \in CallerPCs
  /\ timer \in Nat
  /\ attempt \in 0 .. MaxAttempts
  /\ worker \in [Attempts -> WorkerPCs]
  /\ clock \in [Attempts -> Nat]
  /\ polls \in [Attempts -> Nat]
  /\ cause \in [Attempts -> Causes]
  /\ queue \in [Attempts -> {"empty", "response", "error"}]
  /\ event \subseteq Attempts
  /\ process \in [Attempts -> {"none", "running", "exited", "killed"}]
  /\ metadata \in 0 .. MaxAttempts
  /\ outcome \in [Attempts -> {"none", "response", "error", "timeout",
                               "interrupted"}]
  /\ cancellation \in
       [Attempts -> {"none", "unsupported", "finished", "may_continue"}]
  /\ telemetry \in [Attempts -> Unread .. MaxAttempts]
  /\ faults \in Nat

Continues(a) == cancellation[a] \in {"unsupported", "may_continue"}

(* A call record is charged with the usage of its own call or with none,   *)
(* never with that of an earlier one, unless a cancellation report told    *)
(* that a worker may continue, or the call never had a worker.             *)
TelemetryIsOwn ==
  \A a \in Attempts :
    telemetry[a] \notin {Unread, 0, a} =>
      \/ Continues(telemetry[a]) \/ Continues(a)
      \/ worker[a] = "unborn"

(* A worker reported finished has finished, for good, and has left no      *)
(* process that nobody killed.                                             *)
FinishedMeansFinished ==
  \A a \in Attempts :
    cancellation[a] = "finished" =>
      worker[a] = "finished" /\ process[a] # "running"

(* The bounded join allows the bounded reap to finish: a worker that saw   *)
(* the event while it was polling is never reported as one that may        *)
(* continue, nor is one that polls on.                                     *)
JoinOutlastsReap ==
  [][\A a \in Attempts :
       (cancellation'[a] = "may_continue" /\ cancellation[a] = "none") =>
         /\ worker[a] # "communicate"
         /\ cause[a] # "cancelled"]_vars

(* Whatever its worker does, and even if it hangs, a call ends; and no     *)
(* process is left running: it exits, or somebody kills it, in the end.    *)
CallsEnd ==
  /\ (caller \in {"start", "wait", "join", "read"}) ~> (caller \in {"idle", "stopped"})
  /\ \A a \in Attempts : (process[a] = "running") ~> (process[a] # "running")
=============================================================================
