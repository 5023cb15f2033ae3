------------------------ MODULE ProviderCall_proofs ------------------------
(***************************************************************************)
(* Proofs about ProviderCall: its type invariant, the two invariants and   *)
(* the action property its runs check, for any number of attempts and any  *)
(* timeouts.                                                               *)
(***************************************************************************)
EXTENDS ProviderCall, TLAPS

(* An attempt that has no worker yet has no past either. *)
Unbegun ==
  \A a \in Attempts :
    (a > attempt \/ (a = attempt /\ caller = "start")) =>
      /\ worker[a] = "unborn"
      /\ a \notin event
      /\ cancellation[a] = "none"
      /\ telemetry[a] = Unread

(* Where the caller of an attempt can be, and what it has done by then. *)
Position ==
  /\ caller \in {"start", "wait", "join", "read"} => attempt \in Attempts
  /\ caller \in {"wait", "join"} =>
       /\ worker[attempt] # "unborn"
       /\ cancellation[attempt] = "none"
  /\ caller = "wait" => attempt \notin event
  /\ caller = "join" => attempt \in event

(* What a worker's position says of its queue, its process and its timer.  *)
Workers ==
  \A a \in Attempts :
    /\ queue[a] # "empty" => worker[a] = "finished"
    /\ process[a] = "running" => worker[a] = "communicate"
    /\ cause[a] = "cancelled" =>
         a \in event /\ worker[a] \in {"finally", "finished"}
    /\ worker[a] = "communicate" => clock[a] =< PollInterval

(* A worker that polls when the join begins looks at the event, and is     *)
(* done with its reap, before the join is over.                            *)
Join ==
  caller = "join" =>
    /\ worker[attempt] = "communicate" =>
         clock[attempt] + JoinTimeout =< timer + PollInterval
    /\ (worker[attempt] = "finally"
          /\ cause[attempt] = "cancelled") =>
         clock[attempt] + JoinTimeout
           =< timer + PollInterval + ReapTimeout

Active(a) == worker[a] \notin {"unborn", "finished"}

(* Unless the run stops, a worker is the one the caller waits for, or one  *)
(* it was told may continue.                                               *)
Owned ==
  caller # "stopped" =>
    \A a \in Attempts :
      Active(a) =>
        Continues(a) \/ (a = attempt /\ caller \in {"wait", "join"})

(* Once the worker of an attempt is under way, the backend's metadata is   *)
(* its own, or none, or that of a worker that was told to continue.        *)
Metadata ==
  /\ (caller \in {"wait", "join", "read"} /\ metadata \notin {0, attempt}) =>
       \/ Continues(metadata) \/ Continues(attempt)
       \/ worker[attempt] \in {"unborn", "ready"}
  /\ \A a \in Attempts : telemetry[a] # Unread => a =< attempt

IInv ==
  /\ TypeOK
  /\ Unbegun
  /\ Position
  /\ Workers
  /\ Join
  /\ Owned
  /\ Metadata
  /\ FinishedMeansFinished
  /\ TelemetryIsOwn

(* The initial state is typed. *)
LEMMA TypeInit == Init => TypeOK
BY ProviderAssumption
   DEF Init, TypeOK, Attempts, CallerPCs, WorkerPCs, Causes, Unread

(* Every step keeps the type invariant. *)
LEMMA TypeOKStep == IInv /\ [Next]_vars => TypeOK'
<1> SUFFICES ASSUME IInv, [Next]_vars
             PROVE  TypeOK'
  OBVIOUS
<1> USE ProviderAssumption
    DEF IInv, TypeOK, Attempts, CallerPCs, WorkerPCs, Causes, Unread,
        callerVars, backendVars, threadVars, Position
<1>1. CASE BeginAttempt
  BY SMTT(60), <1>1 DEF BeginAttempt
<1>2. CASE StartWorker
  BY <1>2 DEF StartWorker
<1>3. CASE StartFails
  <2>1. CASE cancellable
    BY <1>3, <2>1 DEF StartFails, Cancel
  <2>2. CASE ~cancellable
    BY <1>3, <2>2 DEF StartFails, Cancel
  <2>3. QED
    BY <2>1, <2>2
<1>4. CASE Answer
  BY <1>4 DEF Answer
<1>5. CASE TimesOut
  <2>1. CASE cancellable
    BY <1>5, <2>1 DEF TimesOut, CancelLocalWorker, Cancel, JoinFor
  <2>2. CASE ~cancellable
    BY <1>5, <2>2 DEF TimesOut, CancelLocalWorker, Cancel, JoinFor
  <2>3. QED
    BY <2>1, <2>2
<1>6. CASE Interrupted
  <2>1. /\ event' \subseteq Attempts
        /\ caller' \in CallerPCs
        /\ timer' \in Nat
    BY <1>6 DEF Interrupted, CancelLocalWorker, Cancel, JoinFor
  <2>2. cancellation' \in
          [Attempts -> {"none", "unsupported", "finished", "may_continue"}]
    BY <1>6 DEF Interrupted, CancelLocalWorker
  <2>3. outcome' \in [Attempts -> {"none", "response", "error", "timeout",
                                  "interrupted"}]
    BY <1>6 DEF Interrupted
  <2>4. faults' \in Nat
    BY <1>6 DEF Interrupted
  <2>5. UNCHANGED <<cancellable, attempt, telemetry, worker, clock, polls,
                    cause, queue, process, metadata>>
    BY <1>6 DEF Interrupted
  <2>6. QED
    BY <2>1, <2>2, <2>3, <2>4, <2>5
<1>7. CASE JoinReturns
  BY <1>7 DEF JoinReturns, AfterJoin
<1>8. CASE JoinExpires
  BY <1>8 DEF JoinExpires, AfterJoin
<1>9. CASE ReadTelemetry
  <2>1. metadata \in -1 .. MaxAttempts
    OBVIOUS
  <2>2. telemetry' \in [Attempts -> -1 .. MaxAttempts]
    BY <1>9, <2>1 DEF ReadTelemetry
  <2>3. QED
    BY <1>9, <2>2 DEF ReadTelemetry
<1>10. CASE Tick
  <2>1. timer' \in Nat
    BY <1>10 DEF Tick, WaitingCaller
  <2>2. ASSUME NEW b \in Attempts
        PROVE  (IF b \in WaitingWorkers THEN clock[b] - 1 ELSE clock[b]) \in Nat
    <3>1. CASE b \in WaitingWorkers
      <4>1. clock[b] > 0 /\ clock[b] \in Nat
        BY <1>10, <3>1 DEF Tick
      <4>2. clock[b] - 1 \in Nat
        BY <4>1
      <4>3. QED
        BY <3>1, <4>2
    <3>2. CASE b \notin WaitingWorkers
      BY <3>2
    <3>3. QED
      BY <3>1, <3>2
  <2>3. clock' \in [Attempts -> Nat]
    BY <1>10, <2>2 DEF Tick
  <2>4. QED
    BY <1>10, <2>1, <2>3 DEF Tick
<1>11. ASSUME NEW a \in Attempts, Enter(a)
      PROVE  TypeOK'
  BY SMTT(60), <1>11 DEF Enter, MovesTo
<1>12. ASSUME NEW a \in Attempts, EnterCancelled(a)
      PROVE  TypeOK'
  BY <1>12 DEF EnterCancelled, Finish, MovesTo
<1>13. ASSUME NEW a \in Attempts, LaunchFails(a)
      PROVE  TypeOK'
  BY <1>13 DEF LaunchFails, Finish, MovesTo
<1>14. ASSUME NEW a \in Attempts, Launch(a)
      PROVE  TypeOK'
  BY <1>14 DEF Launch, WaitsAt
<1>15. ASSUME NEW a \in Attempts, LaunchCancelled(a)
      PROVE  TypeOK'
  BY <1>15 DEF LaunchCancelled, WaitsAt
<1>16. ASSUME NEW a \in Attempts, CommunicateReturns(a)
      PROVE  TypeOK'
  BY <1>16 DEF CommunicateReturns, MovesTo
<1>17. ASSUME NEW a \in Attempts, PollTimesOut(a)
      PROVE  TypeOK'
  BY <1>17 DEF PollTimesOut, PollOver, Terminate, WaitsAt, Killed
<1>18. ASSUME NEW a \in Attempts, PollCancelled(a)
      PROVE  TypeOK'
  BY <1>18 DEF PollCancelled, PollOver, Terminate, WaitsAt, Killed
<1>19. ASSUME NEW a \in Attempts, PollAgain(a)
      PROVE  TypeOK'
  <2>1. polls[a] + 1 \in Nat
    OBVIOUS
  <2>2. polls' \in [Attempts -> Nat]
    BY <1>19, <2>1 DEF PollAgain
  <2>3. clock' \in [Attempts -> Nat]
    BY <1>19 DEF PollAgain
  <2>4. QED
    BY <1>19, <2>2, <2>3 DEF PollAgain, PollOver
<1>20. ASSUME NEW a \in Attempts, KillReaped(a)
      PROVE  TypeOK'
  BY <1>20 DEF KillReaped, WaitsAt
<1>21. ASSUME NEW a \in Attempts, KillHangs(a)
      PROVE  TypeOK'
  BY SMTT(60), <1>21 DEF KillHangs, WaitsAt
<1>22. ASSUME NEW a \in Attempts, Drain(a)
      PROVE  TypeOK'
  BY SMTT(60), <1>22 DEF Drain, MovesTo
<1>23. ASSUME NEW a \in Attempts, WriteAndReturn(a)
      PROVE  TypeOK'
  BY <1>23 DEF WriteAndReturn, Finish, MovesTo
<1>24. ASSUME NEW a \in Attempts, FinallyEnds(a)
      PROVE  TypeOK'
  BY <1>24 DEF FinallyEnds, Finish, MovesTo
<1>25. ASSUME NEW a \in Attempts, ProcessExits(a)
      PROVE  TypeOK'
  BY <1>25 DEF ProcessExits
<1>26. CASE UNCHANGED vars
  BY <1>26 DEF vars, callerVars, backendVars
<1>27. QED
  BY <1>1, <1>2, <1>3, <1>4, <1>5, <1>6, <1>7, <1>8, <1>9, <1>10, <1>11,
     <1>12, <1>13, <1>14, <1>15, <1>16, <1>17, <1>18, <1>19, <1>20, <1>21,
     <1>22, <1>23, <1>24, <1>25, <1>26
     DEF Next, Caller, Timed, Untimed, Quiet

(* No step gives a past to an attempt that has not begun. *)
LEMMA UnbegunStep == IInv /\ [Next]_vars => Unbegun'
<1> SUFFICES ASSUME IInv, [Next]_vars
             PROVE  Unbegun'
  OBVIOUS
<1> USE ProviderAssumption
    DEF IInv, TypeOK, Attempts, CallerPCs, WorkerPCs, Causes, Unread,
        callerVars, backendVars, threadVars, Unbegun, Position
<1>1. CASE BeginAttempt
  BY <1>1 DEF BeginAttempt
<1>2. CASE StartWorker
  BY <1>2 DEF StartWorker
<1>3. CASE StartFails
  <2>1. CASE cancellable
    BY <1>3, <2>1 DEF StartFails, Cancel
  <2>2. CASE ~cancellable
    BY <1>3, <2>2 DEF StartFails, Cancel
  <2>3. QED
    BY <2>1, <2>2
<1>4. CASE Answer
  BY <1>4 DEF Answer
<1>5. CASE TimesOut
  <2>1. CASE cancellable
    BY <1>5, <2>1 DEF TimesOut, CancelLocalWorker, Cancel, JoinFor
  <2>2. CASE ~cancellable
    BY <1>5, <2>2 DEF TimesOut, CancelLocalWorker, Cancel, JoinFor
  <2>3. QED
    BY <2>1, <2>2
<1>6. CASE Interrupted
  <2>1. CASE cancellable
    BY <1>6, <2>1 DEF Interrupted, CancelLocalWorker, Cancel, JoinFor
  <2>2. CASE ~cancellable
    BY <1>6, <2>2 DEF Interrupted, CancelLocalWorker, Cancel, JoinFor
  <2>3. QED
    BY <2>1, <2>2
<1>7. CASE JoinReturns
  BY <1>7 DEF JoinReturns, AfterJoin
<1>8. CASE JoinExpires
  BY <1>8 DEF JoinExpires, AfterJoin
<1>9. CASE ReadTelemetry
  BY <1>9 DEF ReadTelemetry
<1>10. CASE Tick
  BY <1>10 DEF Tick, WaitingCaller, WaitingWorkers
<1>11. ASSUME NEW a \in Attempts, Enter(a)
      PROVE  Unbegun'
  BY <1>11 DEF Enter, MovesTo
<1>12. ASSUME NEW a \in Attempts, EnterCancelled(a)
      PROVE  Unbegun'
  BY <1>12 DEF EnterCancelled, Finish, MovesTo
<1>13. ASSUME NEW a \in Attempts, LaunchFails(a)
      PROVE  Unbegun'
  BY <1>13 DEF LaunchFails, Finish, MovesTo
<1>14. ASSUME NEW a \in Attempts, Launch(a)
      PROVE  Unbegun'
  BY <1>14 DEF Launch, WaitsAt
<1>15. ASSUME NEW a \in Attempts, LaunchCancelled(a)
      PROVE  Unbegun'
  BY <1>15 DEF LaunchCancelled, WaitsAt
<1>16. ASSUME NEW a \in Attempts, CommunicateReturns(a)
      PROVE  Unbegun'
  BY <1>16 DEF CommunicateReturns, MovesTo
<1>17. ASSUME NEW a \in Attempts, PollTimesOut(a)
      PROVE  Unbegun'
  BY <1>17 DEF PollTimesOut, PollOver, Terminate, WaitsAt, Killed
<1>18. ASSUME NEW a \in Attempts, PollCancelled(a)
      PROVE  Unbegun'
  BY <1>18 DEF PollCancelled, PollOver, Terminate, WaitsAt, Killed
<1>19. ASSUME NEW a \in Attempts, PollAgain(a)
      PROVE  Unbegun'
  BY <1>19 DEF PollAgain, PollOver
<1>20. ASSUME NEW a \in Attempts, KillReaped(a)
      PROVE  Unbegun'
  BY <1>20 DEF KillReaped, WaitsAt
<1>21. ASSUME NEW a \in Attempts, KillHangs(a)
      PROVE  Unbegun'
  BY <1>21 DEF KillHangs, WaitsAt
<1>22. ASSUME NEW a \in Attempts, Drain(a)
      PROVE  Unbegun'
  BY <1>22 DEF Drain, MovesTo
<1>23. ASSUME NEW a \in Attempts, WriteAndReturn(a)
      PROVE  Unbegun'
  BY <1>23 DEF WriteAndReturn, Finish, MovesTo
<1>24. ASSUME NEW a \in Attempts, FinallyEnds(a)
      PROVE  Unbegun'
  BY <1>24 DEF FinallyEnds, Finish, MovesTo
<1>25. ASSUME NEW a \in Attempts, ProcessExits(a)
      PROVE  Unbegun'
  BY <1>25 DEF ProcessExits
<1>26. CASE UNCHANGED vars
  BY <1>26 DEF vars, callerVars, backendVars
<1>27. QED
  BY <1>1, <1>2, <1>3, <1>4, <1>5, <1>6, <1>7, <1>8, <1>9, <1>10, <1>11,
     <1>12, <1>13, <1>14, <1>15, <1>16, <1>17, <1>18, <1>19, <1>20, <1>21,
     <1>22, <1>23, <1>24, <1>25, <1>26
     DEF Next, Caller, Timed, Untimed, Quiet

(* Every step keeps the caller's place and the attempt's history in line. *)
LEMMA PositionStep == IInv /\ [Next]_vars => Position'
<1> SUFFICES ASSUME IInv, [Next]_vars
             PROVE  Position'
  OBVIOUS
<1> USE ProviderAssumption
    DEF IInv, TypeOK, Attempts, CallerPCs, WorkerPCs, Causes, Unread,
        callerVars, backendVars, threadVars, Unbegun, Position
<1>1. CASE BeginAttempt
  BY <1>1 DEF BeginAttempt
<1>2. CASE StartWorker
  BY <1>2 DEF StartWorker
<1>3. CASE StartFails
  <2>1. CASE cancellable
    BY <1>3, <2>1 DEF StartFails, Cancel
  <2>2. CASE ~cancellable
    BY <1>3, <2>2 DEF StartFails, Cancel
  <2>3. QED
    BY <2>1, <2>2
<1>4. CASE Answer
  BY <1>4 DEF Answer
<1>5. CASE TimesOut
  <2>1. CASE cancellable
    BY <1>5, <2>1 DEF TimesOut, CancelLocalWorker, Cancel, JoinFor
  <2>2. CASE ~cancellable
    BY <1>5, <2>2 DEF TimesOut, CancelLocalWorker, Cancel, JoinFor
  <2>3. QED
    BY <2>1, <2>2
<1>6. CASE Interrupted
  <2>1. CASE cancellable
    BY <1>6, <2>1 DEF Interrupted, CancelLocalWorker, Cancel, JoinFor
  <2>2. CASE ~cancellable
    BY <1>6, <2>2 DEF Interrupted, CancelLocalWorker, Cancel, JoinFor
  <2>3. QED
    BY <2>1, <2>2
<1>7. CASE JoinReturns
  BY <1>7 DEF JoinReturns, AfterJoin
<1>8. CASE JoinExpires
  BY <1>8 DEF JoinExpires, AfterJoin
<1>9. CASE ReadTelemetry
  BY <1>9 DEF ReadTelemetry
<1>10. CASE Tick
  BY <1>10 DEF Tick, WaitingCaller, WaitingWorkers
<1>11. ASSUME NEW a \in Attempts, Enter(a)
      PROVE  Position'
  BY <1>11 DEF Enter, MovesTo
<1>12. ASSUME NEW a \in Attempts, EnterCancelled(a)
      PROVE  Position'
  BY <1>12 DEF EnterCancelled, Finish, MovesTo
<1>13. ASSUME NEW a \in Attempts, LaunchFails(a)
      PROVE  Position'
  BY <1>13 DEF LaunchFails, Finish, MovesTo
<1>14. ASSUME NEW a \in Attempts, Launch(a)
      PROVE  Position'
  BY <1>14 DEF Launch, WaitsAt
<1>15. ASSUME NEW a \in Attempts, LaunchCancelled(a)
      PROVE  Position'
  BY <1>15 DEF LaunchCancelled, WaitsAt
<1>16. ASSUME NEW a \in Attempts, CommunicateReturns(a)
      PROVE  Position'
  BY <1>16 DEF CommunicateReturns, MovesTo
<1>17. ASSUME NEW a \in Attempts, PollTimesOut(a)
      PROVE  Position'
  BY <1>17 DEF PollTimesOut, PollOver, Terminate, WaitsAt, Killed
<1>18. ASSUME NEW a \in Attempts, PollCancelled(a)
      PROVE  Position'
  BY <1>18 DEF PollCancelled, PollOver, Terminate, WaitsAt, Killed
<1>19. ASSUME NEW a \in Attempts, PollAgain(a)
      PROVE  Position'
  BY <1>19 DEF PollAgain, PollOver
<1>20. ASSUME NEW a \in Attempts, KillReaped(a)
      PROVE  Position'
  BY <1>20 DEF KillReaped, WaitsAt
<1>21. ASSUME NEW a \in Attempts, KillHangs(a)
      PROVE  Position'
  BY <1>21 DEF KillHangs, WaitsAt
<1>22. ASSUME NEW a \in Attempts, Drain(a)
      PROVE  Position'
  BY <1>22 DEF Drain, MovesTo
<1>23. ASSUME NEW a \in Attempts, WriteAndReturn(a)
      PROVE  Position'
  BY <1>23 DEF WriteAndReturn, Finish, MovesTo
<1>24. ASSUME NEW a \in Attempts, FinallyEnds(a)
      PROVE  Position'
  BY <1>24 DEF FinallyEnds, Finish, MovesTo
<1>25. ASSUME NEW a \in Attempts, ProcessExits(a)
      PROVE  Position'
  BY <1>25 DEF ProcessExits
<1>26. CASE UNCHANGED vars
  BY <1>26 DEF vars, callerVars, backendVars
<1>27. QED
  BY <1>1, <1>2, <1>3, <1>4, <1>5, <1>6, <1>7, <1>8, <1>9, <1>10, <1>11,
     <1>12, <1>13, <1>14, <1>15, <1>16, <1>17, <1>18, <1>19, <1>20, <1>21,
     <1>22, <1>23, <1>24, <1>25, <1>26
     DEF Next, Caller, Timed, Untimed, Quiet

(* Every step keeps what a worker's place says of what it holds. *)
LEMMA WorkersStep == IInv /\ [Next]_vars => Workers'
<1> SUFFICES ASSUME IInv, [Next]_vars
             PROVE  Workers'
  OBVIOUS
<1> USE ProviderAssumption
    DEF IInv, TypeOK, Attempts, CallerPCs, WorkerPCs, Causes, Unread,
        callerVars, backendVars, threadVars, Unbegun, Workers
<1>1. CASE BeginAttempt
  BY <1>1 DEF BeginAttempt
<1>2. CASE StartWorker
  BY <1>2 DEF StartWorker
<1>3. CASE StartFails
  <2>1. CASE cancellable
    BY <1>3, <2>1 DEF StartFails, Cancel
  <2>2. CASE ~cancellable
    BY <1>3, <2>2 DEF StartFails, Cancel
  <2>3. QED
    BY <2>1, <2>2
<1>4. CASE Answer
  BY <1>4 DEF Answer
<1>5. CASE TimesOut
  <2>1. CASE cancellable
    BY <1>5, <2>1 DEF TimesOut, CancelLocalWorker, Cancel, JoinFor
  <2>2. CASE ~cancellable
    BY <1>5, <2>2 DEF TimesOut, CancelLocalWorker, Cancel, JoinFor
  <2>3. QED
    BY <2>1, <2>2
<1>6. CASE Interrupted
  <2>1. CASE cancellable
    BY <1>6, <2>1 DEF Interrupted, CancelLocalWorker, Cancel, JoinFor
  <2>2. CASE ~cancellable
    BY <1>6, <2>2 DEF Interrupted, CancelLocalWorker, Cancel, JoinFor
  <2>3. QED
    BY <2>1, <2>2
<1>7. CASE JoinReturns
  BY <1>7 DEF JoinReturns, AfterJoin
<1>8. CASE JoinExpires
  BY <1>8 DEF JoinExpires, AfterJoin
<1>9. CASE ReadTelemetry
  BY <1>9 DEF ReadTelemetry
<1>10. CASE Tick
  BY <1>10 DEF Tick, WaitingCaller, WaitingWorkers
<1>11. ASSUME NEW a \in Attempts, Enter(a)
      PROVE  Workers'
  BY <1>11 DEF Enter, MovesTo
<1>12. ASSUME NEW a \in Attempts, EnterCancelled(a)
      PROVE  Workers'
  BY <1>12 DEF EnterCancelled, Finish, MovesTo
<1>13. ASSUME NEW a \in Attempts, LaunchFails(a)
      PROVE  Workers'
  BY <1>13 DEF LaunchFails, Finish, MovesTo
<1>14. ASSUME NEW a \in Attempts, Launch(a)
      PROVE  Workers'
  BY <1>14 DEF Launch, WaitsAt
<1>15. ASSUME NEW a \in Attempts, LaunchCancelled(a)
      PROVE  Workers'
  BY <1>15 DEF LaunchCancelled, WaitsAt
<1>16. ASSUME NEW a \in Attempts, CommunicateReturns(a)
      PROVE  Workers'
  BY <1>16 DEF CommunicateReturns, MovesTo
<1>17. ASSUME NEW a \in Attempts, PollTimesOut(a)
      PROVE  Workers'
  BY <1>17 DEF PollTimesOut, PollOver, Terminate, WaitsAt, Killed
<1>18. ASSUME NEW a \in Attempts, PollCancelled(a)
      PROVE  Workers'
  BY <1>18 DEF PollCancelled, PollOver, Terminate, WaitsAt, Killed
<1>19. ASSUME NEW a \in Attempts, PollAgain(a)
      PROVE  Workers'
  BY <1>19 DEF PollAgain, PollOver
<1>20. ASSUME NEW a \in Attempts, KillReaped(a)
      PROVE  Workers'
  BY <1>20 DEF KillReaped, WaitsAt
<1>21. ASSUME NEW a \in Attempts, KillHangs(a)
      PROVE  Workers'
  BY <1>21 DEF KillHangs, WaitsAt
<1>22. ASSUME NEW a \in Attempts, Drain(a)
      PROVE  Workers'
  BY <1>22 DEF Drain, MovesTo
<1>23. ASSUME NEW a \in Attempts, WriteAndReturn(a)
      PROVE  Workers'
  BY <1>23 DEF WriteAndReturn, Finish, MovesTo
<1>24. ASSUME NEW a \in Attempts, FinallyEnds(a)
      PROVE  Workers'
  BY <1>24 DEF FinallyEnds, Finish, MovesTo
<1>25. ASSUME NEW a \in Attempts, ProcessExits(a)
      PROVE  Workers'
  BY <1>25 DEF ProcessExits
<1>26. CASE UNCHANGED vars
  BY <1>26 DEF vars, callerVars, backendVars
<1>27. QED
  BY <1>1, <1>2, <1>3, <1>4, <1>5, <1>6, <1>7, <1>8, <1>9, <1>10, <1>11,
     <1>12, <1>13, <1>14, <1>15, <1>16, <1>17, <1>18, <1>19, <1>20, <1>21,
     <1>22, <1>23, <1>24, <1>25, <1>26
     DEF Next, Caller, Timed, Untimed, Quiet

(* Every step keeps a polling or a reaped worker ahead of the join. *)
LEMMA JoinStep == IInv /\ [Next]_vars => Join'
<1> SUFFICES ASSUME IInv, [Next]_vars
             PROVE  Join'
  OBVIOUS
<1> USE ProviderAssumption
    DEF IInv, TypeOK, Attempts, CallerPCs, WorkerPCs, Causes, Unread,
        callerVars, backendVars, threadVars, Position, Workers, Join
<1>1. CASE BeginAttempt
  BY <1>1 DEF BeginAttempt
<1>2. CASE StartWorker
  BY <1>2 DEF StartWorker
<1>3. CASE StartFails
  <2>1. CASE cancellable
    BY <1>3, <2>1 DEF StartFails, Cancel
  <2>2. CASE ~cancellable
    BY <1>3, <2>2 DEF StartFails, Cancel
  <2>3. QED
    BY <2>1, <2>2
<1>4. CASE Answer
  BY <1>4 DEF Answer
<1>5. CASE TimesOut
  <2>1. CASE cancellable
    BY <1>5, <2>1 DEF TimesOut, CancelLocalWorker, Cancel, JoinFor
  <2>2. CASE ~cancellable
    BY <1>5, <2>2 DEF TimesOut, CancelLocalWorker, Cancel, JoinFor
  <2>3. QED
    BY <2>1, <2>2
<1>6. CASE Interrupted
  <2>1. CASE cancellable
    BY <1>6, <2>1 DEF Interrupted, CancelLocalWorker, Cancel, JoinFor
  <2>2. CASE ~cancellable
    BY <1>6, <2>2 DEF Interrupted, CancelLocalWorker, Cancel, JoinFor
  <2>3. QED
    BY <2>1, <2>2
<1>7. CASE JoinReturns
  BY <1>7 DEF JoinReturns, AfterJoin
<1>8. CASE JoinExpires
  BY <1>8 DEF JoinExpires, AfterJoin
<1>9. CASE ReadTelemetry
  BY <1>9 DEF ReadTelemetry
<1>10. CASE Tick
  BY SMTT(60), <1>10 DEF Tick, WaitingCaller, WaitingWorkers
<1>11. ASSUME NEW a \in Attempts, Enter(a)
      PROVE  Join'
  BY <1>11 DEF Enter, MovesTo
<1>12. ASSUME NEW a \in Attempts, EnterCancelled(a)
      PROVE  Join'
  BY <1>12 DEF EnterCancelled, Finish, MovesTo
<1>13. ASSUME NEW a \in Attempts, LaunchFails(a)
      PROVE  Join'
  BY <1>13 DEF LaunchFails, Finish, MovesTo
<1>14. ASSUME NEW a \in Attempts, Launch(a)
      PROVE  Join'
  BY <1>14 DEF Launch, WaitsAt
<1>15. ASSUME NEW a \in Attempts, LaunchCancelled(a)
      PROVE  Join'
  BY <1>15 DEF LaunchCancelled, WaitsAt
<1>16. ASSUME NEW a \in Attempts, CommunicateReturns(a)
      PROVE  Join'
  BY <1>16 DEF CommunicateReturns, MovesTo
<1>17. ASSUME NEW a \in Attempts, PollTimesOut(a)
      PROVE  Join'
  BY <1>17 DEF PollTimesOut, PollOver, Terminate, WaitsAt, Killed
<1>18. ASSUME NEW a \in Attempts, PollCancelled(a)
      PROVE  Join'
  BY <1>18 DEF PollCancelled, PollOver, Terminate, WaitsAt, Killed
<1>19. ASSUME NEW a \in Attempts, PollAgain(a)
      PROVE  Join'
  BY <1>19 DEF PollAgain, PollOver
<1>20. ASSUME NEW a \in Attempts, KillReaped(a)
      PROVE  Join'
  BY <1>20 DEF KillReaped, WaitsAt
<1>21. ASSUME NEW a \in Attempts, KillHangs(a)
      PROVE  Join'
  BY <1>21 DEF KillHangs, WaitsAt
<1>22. ASSUME NEW a \in Attempts, Drain(a)
      PROVE  Join'
  BY <1>22 DEF Drain, MovesTo
<1>23. ASSUME NEW a \in Attempts, WriteAndReturn(a)
      PROVE  Join'
  BY <1>23 DEF WriteAndReturn, Finish, MovesTo
<1>24. ASSUME NEW a \in Attempts, FinallyEnds(a)
      PROVE  Join'
  BY <1>24 DEF FinallyEnds, Finish, MovesTo
<1>25. ASSUME NEW a \in Attempts, ProcessExits(a)
      PROVE  Join'
  BY <1>25 DEF ProcessExits
<1>26. CASE UNCHANGED vars
  BY <1>26 DEF vars, callerVars, backendVars
<1>27. QED
  BY <1>1, <1>2, <1>3, <1>4, <1>5, <1>6, <1>7, <1>8, <1>9, <1>10, <1>11,
     <1>12, <1>13, <1>14, <1>15, <1>16, <1>17, <1>18, <1>19, <1>20, <1>21,
     <1>22, <1>23, <1>24, <1>25, <1>26
     DEF Next, Caller, Timed, Untimed, Quiet

(* No step leaves a worker to nobody. *)
LEMMA OwnedStep == IInv /\ [Next]_vars => Owned'
<1> SUFFICES ASSUME IInv, [Next]_vars
             PROVE  Owned'
  OBVIOUS
<1> USE ProviderAssumption
    DEF IInv, TypeOK, Attempts, CallerPCs, WorkerPCs, Causes, Unread,
        callerVars, backendVars, threadVars, Unbegun, Position, Workers,
        Owned, Active, Continues
<1>1. CASE BeginAttempt
  BY <1>1 DEF BeginAttempt
<1>2. CASE StartWorker
  BY <1>2 DEF StartWorker
<1>3. CASE StartFails
  <2>1. CASE cancellable
    BY <1>3, <2>1 DEF StartFails, Cancel
  <2>2. CASE ~cancellable
    BY <1>3, <2>2 DEF StartFails, Cancel
  <2>3. QED
    BY <2>1, <2>2
<1>4. CASE Answer
  BY <1>4 DEF Answer
<1>5. CASE TimesOut
  <2>1. CASE cancellable
    BY <1>5, <2>1 DEF TimesOut, CancelLocalWorker, Cancel, JoinFor
  <2>2. CASE ~cancellable
    BY SMTT(60), <1>5, <2>2 DEF TimesOut, CancelLocalWorker, Cancel, JoinFor
  <2>3. QED
    BY <2>1, <2>2
<1>6. CASE Interrupted
  <2>1. CASE cancellable
    BY <1>6, <2>1 DEF Interrupted, CancelLocalWorker, Cancel, JoinFor
  <2>2. CASE ~cancellable
    BY <1>6, <2>2 DEF Interrupted, CancelLocalWorker, Cancel, JoinFor
  <2>3. QED
    BY <2>1, <2>2
<1>7. CASE JoinReturns
  BY <1>7 DEF JoinReturns, AfterJoin
<1>8. CASE JoinExpires
  BY <1>8 DEF JoinExpires, AfterJoin
<1>9. CASE ReadTelemetry
  BY <1>9 DEF ReadTelemetry
<1>10. CASE Tick
  BY <1>10 DEF Tick, WaitingCaller, WaitingWorkers
<1>11. ASSUME NEW a \in Attempts, Enter(a)
      PROVE  Owned'
  BY <1>11 DEF Enter, MovesTo
<1>12. ASSUME NEW a \in Attempts, EnterCancelled(a)
      PROVE  Owned'
  BY <1>12 DEF EnterCancelled, Finish, MovesTo
<1>13. ASSUME NEW a \in Attempts, LaunchFails(a)
      PROVE  Owned'
  BY <1>13 DEF LaunchFails, Finish, MovesTo
<1>14. ASSUME NEW a \in Attempts, Launch(a)
      PROVE  Owned'
  BY <1>14 DEF Launch, WaitsAt
<1>15. ASSUME NEW a \in Attempts, LaunchCancelled(a)
      PROVE  Owned'
  BY <1>15 DEF LaunchCancelled, WaitsAt
<1>16. ASSUME NEW a \in Attempts, CommunicateReturns(a)
      PROVE  Owned'
  BY <1>16 DEF CommunicateReturns, MovesTo
<1>17. ASSUME NEW a \in Attempts, PollTimesOut(a)
      PROVE  Owned'
  BY <1>17 DEF PollTimesOut, PollOver, Terminate, WaitsAt, Killed
<1>18. ASSUME NEW a \in Attempts, PollCancelled(a)
      PROVE  Owned'
  BY <1>18 DEF PollCancelled, PollOver, Terminate, WaitsAt, Killed
<1>19. ASSUME NEW a \in Attempts, PollAgain(a)
      PROVE  Owned'
  BY <1>19 DEF PollAgain, PollOver
<1>20. ASSUME NEW a \in Attempts, KillReaped(a)
      PROVE  Owned'
  BY <1>20 DEF KillReaped, WaitsAt
<1>21. ASSUME NEW a \in Attempts, KillHangs(a)
      PROVE  Owned'
  BY <1>21 DEF KillHangs, WaitsAt
<1>22. ASSUME NEW a \in Attempts, Drain(a)
      PROVE  Owned'
  BY <1>22 DEF Drain, MovesTo
<1>23. ASSUME NEW a \in Attempts, WriteAndReturn(a)
      PROVE  Owned'
  BY <1>23 DEF WriteAndReturn, Finish, MovesTo
<1>24. ASSUME NEW a \in Attempts, FinallyEnds(a)
      PROVE  Owned'
  BY <1>24 DEF FinallyEnds, Finish, MovesTo
<1>25. ASSUME NEW a \in Attempts, ProcessExits(a)
      PROVE  Owned'
  BY <1>25 DEF ProcessExits
<1>26. CASE UNCHANGED vars
  BY <1>26 DEF vars, callerVars, backendVars
<1>27. QED
  BY <1>1, <1>2, <1>3, <1>4, <1>5, <1>6, <1>7, <1>8, <1>9, <1>10, <1>11,
     <1>12, <1>13, <1>14, <1>15, <1>16, <1>17, <1>18, <1>19, <1>20, <1>21,
     <1>22, <1>23, <1>24, <1>25, <1>26
     DEF Next, Caller, Timed, Untimed, Quiet

(* No step of another worker than these touches the metadata. *)
LEMMA MetadataStep == IInv /\ [Next]_vars => Metadata'
<1> SUFFICES ASSUME IInv, [Next]_vars
             PROVE  Metadata'
  OBVIOUS
<1> USE ProviderAssumption
    DEF IInv, TypeOK, Attempts, CallerPCs, WorkerPCs, Causes, Unread,
        callerVars, backendVars, threadVars, Unbegun, Position, Workers,
        Owned, Metadata, Active, Continues
<1>1. CASE BeginAttempt
  BY <1>1 DEF BeginAttempt
<1>2. CASE StartWorker
  BY <1>2 DEF StartWorker
<1>3. CASE StartFails
  <2>1. CASE cancellable
    BY <1>3, <2>1 DEF StartFails, Cancel
  <2>2. CASE ~cancellable
    BY <1>3, <2>2 DEF StartFails, Cancel
  <2>3. QED
    BY <2>1, <2>2
<1>4. CASE Answer
  BY <1>4 DEF Answer
<1>5. CASE TimesOut
  <2>1. CASE cancellable
    BY <1>5, <2>1 DEF TimesOut, CancelLocalWorker, Cancel, JoinFor
  <2>2. CASE ~cancellable
    BY <1>5, <2>2 DEF TimesOut, CancelLocalWorker, Cancel, JoinFor
  <2>3. QED
    BY <2>1, <2>2
<1>6. CASE Interrupted
  <2>1. CASE cancellable
    BY <1>6, <2>1 DEF Interrupted, CancelLocalWorker, Cancel, JoinFor
  <2>2. CASE ~cancellable
    BY <1>6, <2>2 DEF Interrupted, CancelLocalWorker, Cancel, JoinFor
  <2>3. QED
    BY <2>1, <2>2
<1>7. CASE JoinReturns
  BY <1>7 DEF JoinReturns, AfterJoin
<1>8. CASE JoinExpires
  BY <1>8 DEF JoinExpires, AfterJoin
<1>9. CASE ReadTelemetry
  BY <1>9 DEF ReadTelemetry
<1>10. CASE Tick
  BY <1>10 DEF Tick, WaitingCaller, WaitingWorkers
<1>11. ASSUME NEW a \in Attempts, Enter(a)
      PROVE  Metadata'
  BY <1>11 DEF Enter, MovesTo
<1>12. ASSUME NEW a \in Attempts, EnterCancelled(a)
      PROVE  Metadata'
  BY <1>12 DEF EnterCancelled, Finish, MovesTo
<1>13. ASSUME NEW a \in Attempts, LaunchFails(a)
      PROVE  Metadata'
  BY <1>13 DEF LaunchFails, Finish, MovesTo
<1>14. ASSUME NEW a \in Attempts, Launch(a)
      PROVE  Metadata'
  BY <1>14 DEF Launch, WaitsAt
<1>15. ASSUME NEW a \in Attempts, LaunchCancelled(a)
      PROVE  Metadata'
  BY <1>15 DEF LaunchCancelled, WaitsAt
<1>16. ASSUME NEW a \in Attempts, CommunicateReturns(a)
      PROVE  Metadata'
  BY <1>16 DEF CommunicateReturns, MovesTo
<1>17. ASSUME NEW a \in Attempts, PollTimesOut(a)
      PROVE  Metadata'
  BY <1>17 DEF PollTimesOut, PollOver, Terminate, WaitsAt, Killed
<1>18. ASSUME NEW a \in Attempts, PollCancelled(a)
      PROVE  Metadata'
  BY <1>18 DEF PollCancelled, PollOver, Terminate, WaitsAt, Killed
<1>19. ASSUME NEW a \in Attempts, PollAgain(a)
      PROVE  Metadata'
  BY <1>19 DEF PollAgain, PollOver
<1>20. ASSUME NEW a \in Attempts, KillReaped(a)
      PROVE  Metadata'
  BY <1>20 DEF KillReaped, WaitsAt
<1>21. ASSUME NEW a \in Attempts, KillHangs(a)
      PROVE  Metadata'
  BY <1>21 DEF KillHangs, WaitsAt
<1>22. ASSUME NEW a \in Attempts, Drain(a)
      PROVE  Metadata'
  BY <1>22 DEF Drain, MovesTo
<1>23. ASSUME NEW a \in Attempts, WriteAndReturn(a)
      PROVE  Metadata'
  BY <1>23 DEF WriteAndReturn, Finish, MovesTo
<1>24. ASSUME NEW a \in Attempts, FinallyEnds(a)
      PROVE  Metadata'
  BY <1>24 DEF FinallyEnds, Finish, MovesTo
<1>25. ASSUME NEW a \in Attempts, ProcessExits(a)
      PROVE  Metadata'
  BY <1>25 DEF ProcessExits
<1>26. CASE UNCHANGED vars
  BY <1>26 DEF vars, callerVars, backendVars
<1>27. QED
  BY <1>1, <1>2, <1>3, <1>4, <1>5, <1>6, <1>7, <1>8, <1>9, <1>10, <1>11,
     <1>12, <1>13, <1>14, <1>15, <1>16, <1>17, <1>18, <1>19, <1>20, <1>21,
     <1>22, <1>23, <1>24, <1>25, <1>26
     DEF Next, Caller, Timed, Untimed, Quiet

(* No step revives a worker reported finished. *)
LEMMA FinishedMeansFinishedStep == IInv /\ [Next]_vars => FinishedMeansFinished'
<1> SUFFICES ASSUME IInv, [Next]_vars
             PROVE  FinishedMeansFinished'
  OBVIOUS
<1> USE ProviderAssumption
    DEF IInv, TypeOK, Attempts, CallerPCs, WorkerPCs, Causes, Unread,
        callerVars, backendVars, threadVars, Unbegun, Position, Workers,
        FinishedMeansFinished
<1>1. CASE BeginAttempt
  BY <1>1 DEF BeginAttempt
<1>2. CASE StartWorker
  BY <1>2 DEF StartWorker
<1>3. CASE StartFails
  <2>1. CASE cancellable
    BY <1>3, <2>1 DEF StartFails, Cancel
  <2>2. CASE ~cancellable
    BY <1>3, <2>2 DEF StartFails, Cancel
  <2>3. QED
    BY <2>1, <2>2
<1>4. CASE Answer
  BY <1>4 DEF Answer
<1>5. CASE TimesOut
  <2>1. CASE cancellable
    BY <1>5, <2>1 DEF TimesOut, CancelLocalWorker, Cancel, JoinFor
  <2>2. CASE ~cancellable
    BY <1>5, <2>2 DEF TimesOut, CancelLocalWorker, Cancel, JoinFor
  <2>3. QED
    BY <2>1, <2>2
<1>6. CASE Interrupted
  <2>1. CASE cancellable
    BY <1>6, <2>1 DEF Interrupted, CancelLocalWorker, Cancel, JoinFor
  <2>2. CASE ~cancellable
    BY SMTT(60), <1>6, <2>2 DEF Interrupted, CancelLocalWorker, Cancel, JoinFor
  <2>3. QED
    BY <2>1, <2>2
<1>7. CASE JoinReturns
  BY <1>7 DEF JoinReturns, AfterJoin
<1>8. CASE JoinExpires
  BY <1>8 DEF JoinExpires, AfterJoin
<1>9. CASE ReadTelemetry
  BY <1>9 DEF ReadTelemetry
<1>10. CASE Tick
  BY <1>10 DEF Tick, WaitingCaller, WaitingWorkers
<1>11. ASSUME NEW a \in Attempts, Enter(a)
      PROVE  FinishedMeansFinished'
  BY <1>11 DEF Enter, MovesTo
<1>12. ASSUME NEW a \in Attempts, EnterCancelled(a)
      PROVE  FinishedMeansFinished'
  BY <1>12 DEF EnterCancelled, Finish, MovesTo
<1>13. ASSUME NEW a \in Attempts, LaunchFails(a)
      PROVE  FinishedMeansFinished'
  BY <1>13 DEF LaunchFails, Finish, MovesTo
<1>14. ASSUME NEW a \in Attempts, Launch(a)
      PROVE  FinishedMeansFinished'
  BY <1>14 DEF Launch, WaitsAt
<1>15. ASSUME NEW a \in Attempts, LaunchCancelled(a)
      PROVE  FinishedMeansFinished'
  BY <1>15 DEF LaunchCancelled, WaitsAt
<1>16. ASSUME NEW a \in Attempts, CommunicateReturns(a)
      PROVE  FinishedMeansFinished'
  BY <1>16 DEF CommunicateReturns, MovesTo
<1>17. ASSUME NEW a \in Attempts, PollTimesOut(a)
      PROVE  FinishedMeansFinished'
  BY <1>17 DEF PollTimesOut, PollOver, Terminate, WaitsAt, Killed
<1>18. ASSUME NEW a \in Attempts, PollCancelled(a)
      PROVE  FinishedMeansFinished'
  BY <1>18 DEF PollCancelled, PollOver, Terminate, WaitsAt, Killed
<1>19. ASSUME NEW a \in Attempts, PollAgain(a)
      PROVE  FinishedMeansFinished'
  BY <1>19 DEF PollAgain, PollOver
<1>20. ASSUME NEW a \in Attempts, KillReaped(a)
      PROVE  FinishedMeansFinished'
  BY <1>20 DEF KillReaped, WaitsAt
<1>21. ASSUME NEW a \in Attempts, KillHangs(a)
      PROVE  FinishedMeansFinished'
  BY <1>21 DEF KillHangs, WaitsAt
<1>22. ASSUME NEW a \in Attempts, Drain(a)
      PROVE  FinishedMeansFinished'
  BY <1>22 DEF Drain, MovesTo
<1>23. ASSUME NEW a \in Attempts, WriteAndReturn(a)
      PROVE  FinishedMeansFinished'
  BY <1>23 DEF WriteAndReturn, Finish, MovesTo
<1>24. ASSUME NEW a \in Attempts, FinallyEnds(a)
      PROVE  FinishedMeansFinished'
  BY <1>24 DEF FinallyEnds, Finish, MovesTo
<1>25. ASSUME NEW a \in Attempts, ProcessExits(a)
      PROVE  FinishedMeansFinished'
  BY <1>25 DEF ProcessExits
<1>26. CASE UNCHANGED vars
  BY <1>26 DEF vars, callerVars, backendVars
<1>27. QED
  BY <1>1, <1>2, <1>3, <1>4, <1>5, <1>6, <1>7, <1>8, <1>9, <1>10, <1>11,
     <1>12, <1>13, <1>14, <1>15, <1>16, <1>17, <1>18, <1>19, <1>20, <1>21,
     <1>22, <1>23, <1>24, <1>25, <1>26
     DEF Next, Caller, Timed, Untimed, Quiet

(* No step charges a record with another call's usage. *)
LEMMA TelemetryIsOwnStep == IInv /\ [Next]_vars => TelemetryIsOwn'
<1> SUFFICES ASSUME IInv, [Next]_vars
             PROVE  TelemetryIsOwn'
  OBVIOUS
<1> USE ProviderAssumption
    DEF IInv, TypeOK, Attempts, CallerPCs, WorkerPCs, Causes, Unread,
        callerVars, backendVars, threadVars, Unbegun, Position, Owned,
        Metadata, Active, Continues, TelemetryIsOwn
<1>1. CASE BeginAttempt
  BY <1>1 DEF BeginAttempt
<1>2. CASE StartWorker
  BY <1>2 DEF StartWorker
<1>3. CASE StartFails
  <2>1. CASE cancellable
    BY <1>3, <2>1 DEF StartFails, Cancel
  <2>2. CASE ~cancellable
    BY <1>3, <2>2 DEF StartFails, Cancel
  <2>3. QED
    BY <2>1, <2>2
<1>4. CASE Answer
  BY <1>4 DEF Answer
<1>5. CASE TimesOut
  <2>1. \A b \in Attempts : Continues(b) => Continues(b)'
    BY <1>5 DEF TimesOut, CancelLocalWorker
  <2>2. UNCHANGED <<telemetry, worker>>
    BY <1>5 DEF TimesOut
  <2>3. \A b \in Attempts : telemetry[b] \notin {-1, 0} => telemetry[b] \in Attempts
    OBVIOUS
  <2>4. QED
    BY <2>1, <2>2, <2>3
<1>6. CASE Interrupted
  <2>1. \A b \in Attempts : Continues(b) => Continues(b)'
    BY <1>6 DEF Interrupted, CancelLocalWorker
  <2>2. UNCHANGED <<telemetry, worker>>
    BY <1>6 DEF Interrupted
  <2>3. \A b \in Attempts : telemetry[b] \notin {-1, 0} => telemetry[b] \in Attempts
    OBVIOUS
  <2>4. QED
    BY <2>1, <2>2, <2>3
<1>7. CASE JoinReturns
  BY <1>7 DEF JoinReturns, AfterJoin
<1>8. CASE JoinExpires
  BY <1>8 DEF JoinExpires, AfterJoin
<1>9. CASE ReadTelemetry
  BY <1>9 DEF ReadTelemetry
<1>10. CASE Tick
  BY <1>10 DEF Tick, WaitingCaller, WaitingWorkers
<1>11. ASSUME NEW a \in Attempts, Enter(a)
      PROVE  TelemetryIsOwn'
  BY <1>11 DEF Enter, MovesTo
<1>12. ASSUME NEW a \in Attempts, EnterCancelled(a)
      PROVE  TelemetryIsOwn'
  BY <1>12 DEF EnterCancelled, Finish, MovesTo
<1>13. ASSUME NEW a \in Attempts, LaunchFails(a)
      PROVE  TelemetryIsOwn'
  BY <1>13 DEF LaunchFails, Finish, MovesTo
<1>14. ASSUME NEW a \in Attempts, Launch(a)
      PROVE  TelemetryIsOwn'
  BY <1>14 DEF Launch, WaitsAt
<1>15. ASSUME NEW a \in Attempts, LaunchCancelled(a)
      PROVE  TelemetryIsOwn'
  BY <1>15 DEF LaunchCancelled, WaitsAt
<1>16. ASSUME NEW a \in Attempts, CommunicateReturns(a)
      PROVE  TelemetryIsOwn'
  BY <1>16 DEF CommunicateReturns, MovesTo
<1>17. ASSUME NEW a \in Attempts, PollTimesOut(a)
      PROVE  TelemetryIsOwn'
  BY <1>17 DEF PollTimesOut, PollOver, Terminate, WaitsAt, Killed
<1>18. ASSUME NEW a \in Attempts, PollCancelled(a)
      PROVE  TelemetryIsOwn'
  BY <1>18 DEF PollCancelled, PollOver, Terminate, WaitsAt, Killed
<1>19. ASSUME NEW a \in Attempts, PollAgain(a)
      PROVE  TelemetryIsOwn'
  BY <1>19 DEF PollAgain, PollOver
<1>20. ASSUME NEW a \in Attempts, KillReaped(a)
      PROVE  TelemetryIsOwn'
  BY <1>20 DEF KillReaped, WaitsAt
<1>21. ASSUME NEW a \in Attempts, KillHangs(a)
      PROVE  TelemetryIsOwn'
  BY <1>21 DEF KillHangs, WaitsAt
<1>22. ASSUME NEW a \in Attempts, Drain(a)
      PROVE  TelemetryIsOwn'
  BY <1>22 DEF Drain, MovesTo
<1>23. ASSUME NEW a \in Attempts, WriteAndReturn(a)
      PROVE  TelemetryIsOwn'
  BY <1>23 DEF WriteAndReturn, Finish, MovesTo
<1>24. ASSUME NEW a \in Attempts, FinallyEnds(a)
      PROVE  TelemetryIsOwn'
  BY <1>24 DEF FinallyEnds, Finish, MovesTo
<1>25. ASSUME NEW a \in Attempts, ProcessExits(a)
      PROVE  TelemetryIsOwn'
  BY <1>25 DEF ProcessExits
<1>26. CASE UNCHANGED vars
  BY <1>26 DEF vars, callerVars, backendVars
<1>27. QED
  BY <1>1, <1>2, <1>3, <1>4, <1>5, <1>6, <1>7, <1>8, <1>9, <1>10, <1>11,
     <1>12, <1>13, <1>14, <1>15, <1>16, <1>17, <1>18, <1>19, <1>20, <1>21,
     <1>22, <1>23, <1>24, <1>25, <1>26
     DEF Next, Caller, Timed, Untimed, Quiet

(* The inductive invariant holds throughout. *)
LEMMA Invariance == Spec => []IInv
<1>1. Init => IInv
  <2>1. Init => TypeOK
    BY TypeInit
  <2>2. QED
    BY <2>1, ProviderAssumption
       DEF Init, IInv, Unbegun, Position, Workers, Join, Owned, Metadata,
           Active, FinishedMeansFinished, TelemetryIsOwn, Unread, Attempts
<1>2. IInv /\ [Next]_vars => IInv'
  BY TypeOKStep, UnbegunStep, PositionStep, WorkersStep, JoinStep, OwnedStep,
     MetadataStep, FinishedMeansFinishedStep, TelemetryIsOwnStep
     DEF IInv
<1>3. QED
  BY <1>1, <1>2, PTL DEF Spec

(* Every variable keeps its type, whatever the timeouts: timers never run  *)
(* below zero, and no attempt is made beyond the limit.                    *)
THEOREM Typing == Spec => []TypeOK
<1>1. IInv => TypeOK
  BY DEF IInv
<1>2. QED
  BY <1>1, Invariance, PTL

(* A cancelled worker reported finished stays finished, and its process    *)
(* does not run on.                                                        *)
THEOREM ReportsHold == Spec => []FinishedMeansFinished
<1>1. IInv => FinishedMeansFinished
  BY DEF IInv
<1>2. QED
  BY <1>1, Invariance, PTL

(* A call record takes usage of its own call, or of one whose report said  *)
(* it may continue, or is about a call that had no worker.                 *)
THEOREM UsageIsOwn == Spec => []TelemetryIsOwn
<1>1. IInv => TelemetryIsOwn
  BY DEF IInv
<1>2. QED
  BY <1>1, Invariance, PTL

(* A worker reported as one that may continue was not polling, and had not *)
(* begun the reap its cancellation asks for.                               *)
LEMMA JoinExpiry ==
  IInv /\ [Next]_vars =>
    \A a \in Attempts :
      (cancellation'[a] = "may_continue" /\ cancellation[a] = "none") =>
        /\ worker[a] # "communicate"
        /\ cause[a] # "cancelled"
<1> USE ProviderAssumption
    DEF IInv, TypeOK, Attempts, callerVars, backendVars, threadVars
<1> SUFFICES ASSUME IInv, [Next]_vars, NEW a \in Attempts,
                    cancellation'[a] = "may_continue", cancellation[a] = "none"
             PROVE  /\ worker[a] # "communicate"
                    /\ cause[a] # "cancelled"
  OBVIOUS
<1>1. JoinExpires
  <2>1. CASE BeginAttempt
    BY <2>1 DEF BeginAttempt
  <2>2. CASE StartWorker \/ StartFails
    BY <2>2 DEF StartWorker, StartFails
  <2>3. CASE Answer \/ ReadTelemetry
    BY <2>3 DEF Answer, ReadTelemetry
  <2>4. CASE TimesOut
    BY <2>4 DEF TimesOut, CancelLocalWorker
  <2>5. CASE Interrupted
    BY <2>5 DEF Interrupted, CancelLocalWorker
  <2>6. CASE JoinReturns
    BY <2>6 DEF JoinReturns
  <2>7. CASE Tick \/ UNCHANGED vars \/ \E b \in Attempts : ProcessExits(b)
    BY <2>7 DEF Tick, ProcessExits, vars
  <2>8. ASSUME NEW b \in Attempts, Timed(b) \/ Untimed(b)
        PROVE  UNCHANGED cancellation
    BY <2>8 DEF Timed, Untimed, CommunicateReturns, PollTimesOut,
                PollCancelled, PollAgain, PollOver, KillReaped, KillHangs,
                Drain, FinallyEnds, Enter, EnterCancelled, Launch,
                LaunchCancelled, LaunchFails, WriteAndReturn
  <2>9. QED
    BY <2>1, <2>2, <2>3, <2>4, <2>5, <2>6, <2>7, <2>8
       DEF Next, Caller, Quiet, vars
<1>2. a = attempt /\ caller = "join" /\ timer = 0 /\ worker[a] # "finished"
  BY <1>1 DEF JoinExpires
<1>3. clock[a] \in Nat
  OBVIOUS
<1>4. worker[a] # "communicate"
  BY <1>2, <1>3 DEF Join
<1>5. cause[a] # "cancelled"
  BY <1>2, <1>3 DEF Join, Workers
<1>6. QED
  BY <1>4, <1>5

(* The bounded join always allows the bounded reap to finish, as long as a *)
(* poll and a reap together are shorter than the join.                     *)
THEOREM JoinLongEnough == Spec => JoinOutlastsReap
<1>1. IInv /\ [Next]_vars =>
        [\A a \in Attempts :
           (cancellation'[a] = "may_continue" /\ cancellation[a] = "none") =>
             /\ worker[a] # "communicate"
             /\ cause[a] # "cancelled"]_vars
  BY JoinExpiry
<1>2. QED
  BY <1>1, Invariance, PTL DEF Spec, JoinOutlastsReap

=============================================================================
