------------------------------ MODULE JsonlLog ------------------------------
(***************************************************************************)
(* core/jsonl.py and core/jsonl_storage.py: processes append records to a  *)
(* JSONL file of a run (history.jsonl, say) and diagnostics to the         *)
(* quarantine beside it (history_invalid.jsonl).  Files are locked by      *)
(* flock in an order of their own, a fragment an earlier append left at    *)
(* the end is cut off and reported in the quarantine, then the line is     *)
(* written and synced.  A process may be killed, a system call may fail,   *)
(* and the power may go and take with it what was not synced.              *)
(*                                                                         *)
(* A line is a record with the number of its call.  Writing one is two     *)
(* steps, a fragment and then the rest of it, as a long line leaves the    *)
(* buffer in pieces.                                                       *)
(***************************************************************************)
EXTENDS Integers, Sequences, FiniteSets, Functions

CONSTANTS
  Writers,    \* the processes that append
  MaxCalls,   \* bound: calls
  MaxFaults,  \* bound: system calls that fail
  MaxKills,   \* bound: processes killed
  MaxOutages  \* bound: power failures

ASSUME JsonlAssumption ==
  /\ MaxCalls \in Nat /\ MaxFaults \in Nat
  /\ MaxKills \in Nat /\ MaxOutages \in Nat

Files == {"log", "quarantine"}
Nobody == "nobody"
ASSUME WritersAssumption == Nobody \notin Writers

(* What a process can be asked for: append_strict_jsonl of a record that   *)
(* serializes, append_strict_jsonl of one that does not or                 *)
(* append_quarantine_record, and repair_trailing_partial_jsonl.            *)
Kinds == {"append", "reject", "repair"}

VARIABLES
  content,  \* file -> [lines, torn]: its lines, the fragment after them
  unsynced, \* file -> the contents it may have once the power is back
  holder,   \* file -> who holds its lock
  pc,       \* writer -> where it is; "idle" between calls
  call,     \* writer -> the call it is in, or was last in
  cut,      \* writer -> the fragment it cut off and has yet to report
  raised,   \* writer -> an exception is on its way out
  acked,    \* the calls to append that returned
  calls, faults, kills, outages

vars == <<content, unsynced, holder, pc, call, cut, raised, acked,
          calls, faults, kills, outages>>
processes == <<pc, call, cut, raised>>
counters == <<calls, faults, kills, outages>>

(***************************************************************************)
(* Lines and files.                                                        *)
(***************************************************************************)
Nothing == [kind |-> "nothing", id |-> 0]
(* Two pieces run together: JSON no more. *)
Garbage == [kind |-> "garbage", id |-> 0]
Line(f) ==
  {Garbage} \cup
  IF f = "log" THEN [kind : {"append"}, id : 1 .. MaxCalls]
               ELSE [kind : {"reject", "repair"}, id : 0 .. MaxCalls]
Content(f) == [lines : Seq(Line(f)), torn : Line(f) \cup {Nothing}]

Empty == [lines |-> <<>>, torn |-> Nothing]

(* A piece of a line joins whatever fragment is there. *)
WithPiece(c, line) ==
  [c EXCEPT !.torn = IF @ = Nothing THEN line ELSE Garbage]
(* The rest of the line, up to its newline, follows its first piece.       *)
WithRest(c, line) ==
  [lines |-> Append(c.lines, IF c.torn = line THEN line ELSE Garbage),
   torn  |-> Nothing]
WithoutTorn(c) == [c EXCEPT !.torn = Nothing]

Init ==
  /\ content = [f \in Files |-> Empty]
  /\ unsynced = [f \in Files |-> {Empty}]
  /\ holder = [f \in Files |-> Nobody]
  /\ pc = [w \in Writers |-> "idle"]
  /\ call = [w \in Writers |-> Nothing]
  /\ cut = [w \in Writers |-> Nothing]
  /\ raised = [w \in Writers |-> FALSE]
  /\ acked = {}
  /\ calls = 0 /\ faults = 0 /\ kills = 0 /\ outages = 0

Goto(w, where) == pc' = [pc EXCEPT ![w] = where]

Put(f, c) ==
  /\ content' = [content EXCEPT ![f] = c]
  /\ unsynced' = [unsynced EXCEPT ![f] = @ \cup {c}]

Synced(f) == unsynced' = [unsynced EXCEPT ![f] = {content[f]}]

RaiseHoldingLocks(w) ==
  /\ faults < MaxFaults
  /\ faults' = faults + 1
  /\ raised' = [raised EXCEPT ![w] = TRUE]
  /\ Goto(w, "idle")

(* An exception leaves the body of the with statement: locks are released. *)
Raise(w) ==
  /\ faults < MaxFaults
  /\ faults' = faults + 1
  /\ raised' = [raised EXCEPT ![w] = TRUE]
  /\ Goto(w, "release")

(***************************************************************************)
(* The locks.                                                              *)
(***************************************************************************)
Call(w, kind) ==
  /\ pc[w] = "idle"
  /\ calls < MaxCalls
  /\ calls' = calls + 1
  /\ call' = [call EXCEPT ![w] = [kind |-> kind, id |-> calls + 1]]
  /\ raised' = [raised EXCEPT ![w] = FALSE]
  /\ Goto(w, "lock")
  /\ UNCHANGED <<content, unsynced, holder, cut, acked,
                 faults, kills, outages>>

(* The file a call is about. *)
Target(w) == IF call[w].kind = "reject" THEN "quarantine" ELSE "log"

ToLock(w) == {Target(w), "quarantine"}
Held(w) == {f \in Files : holder[f] = w}
First(files) == IF "log" \in files THEN "log" ELSE "quarantine"
Last(files) == IF "quarantine" \in files THEN "quarantine" ELSE "log"

AcquireWithoutWaiting(w) ==
  /\ pc[w] = "lock"
  /\ LET f == First(ToLock(w) \ Held(w)) IN
       /\ holder' = [holder EXCEPT ![f] = w]
       /\ Goto(w, IF ToLock(w) \ Held(w) = {f} THEN "repair" ELSE "lock")
  /\ UNCHANGED <<content, unsynced, call, cut, raised, acked, counters>>

(* The paths of the locks are sorted: history.jsonl's before               *)
(* history_invalid.jsonl's, for every caller.                              *)
Acquire(w) ==
  /\ pc[w] = "lock"
  /\ LET f == First(ToLock(w) \ Held(w)) IN
       /\ holder[f] = Nobody
       /\ holder' = [holder EXCEPT ![f] = w]
       /\ Goto(w, IF ToLock(w) \ Held(w) = {f} THEN "repair" ELSE "lock")
  /\ UNCHANGED <<content, unsynced, call, cut, raised, acked, counters>>

(* In reverse order.  Closing the file drops the lock even where releasing *)
(* it fails, but the failure is raised, over whatever was on its way.      *)
Release(w) ==
  /\ pc[w] = "release"
  /\ Held(w) # {}
  /\ holder' = [holder EXCEPT ![Last(Held(w))] = Nobody]
  /\ \/ UNCHANGED <<raised, faults, pc>>
     \/ Raise(w)
  /\ UNCHANGED <<content, unsynced, call, cut, acked, calls, kills, outages>>

Return(w) ==
  /\ pc[w] = "release"
  /\ Held(w) = {}
  /\ acked' = IF call[w].kind = "append" /\ ~raised[w]
              THEN acked \cup {call[w].id} ELSE acked
  /\ cut' = [cut EXCEPT ![w] = Nothing]
  /\ Goto(w, "idle")
  /\ UNCHANGED <<content, unsynced, holder, call, raised, counters>>

(***************************************************************************)
(* repair_trailing_partial_jsonl, on the target of the call.               *)
(***************************************************************************)
Inspect(w) ==
  /\ pc[w] = "repair"
  /\ content[Target(w)].torn = Nothing
  /\ Goto(w, IF call[w].kind = "repair" THEN "release" ELSE "open")
  /\ UNCHANGED <<content, unsynced, holder, call, cut, raised, acked,
                 counters>>

Truncate(w) ==
  /\ pc[w] = "repair"
  /\ content[Target(w)].torn # Nothing
  /\ Put(Target(w), WithoutTorn(content[Target(w)]))
  /\ cut' = [cut EXCEPT ![w] = content[Target(w)].torn]
  /\ Goto(w, "truncated")
  /\ UNCHANGED <<holder, call, raised, acked, counters>>

SyncTruncated(w) ==
  /\ pc[w] = "truncated"
  /\ Synced(Target(w))
  /\ Goto(w, "open")
  /\ UNCHANGED <<content, holder, call, cut, raised, acked, counters>>

(***************************************************************************)
(* append_serialized_jsonl_line: the diagnostic of a fragment cut off, to  *)
(* the quarantine, and then the line of the call, to its target.           *)
(***************************************************************************)
Reporting(w) == cut[w] # Nothing
File(w) == IF Reporting(w) THEN "quarantine" ELSE Target(w)
Text(w) ==
  IF Reporting(w) THEN [kind |-> "repair", id |-> cut[w].id] ELSE call[w]

WritePiece(w) ==
  /\ pc[w] = "open"
  /\ Put(File(w), WithPiece(content[File(w)], Text(w)))
  /\ Goto(w, "piece")
  /\ UNCHANGED <<holder, call, cut, raised, acked, counters>>

WriteRest(w) ==
  /\ pc[w] = "piece"
  /\ Put(File(w), WithRest(content[File(w)], Text(w)))
  /\ Goto(w, "flushed")
  /\ UNCHANGED <<holder, call, cut, raised, acked, counters>>

Sync(w) ==
  /\ pc[w] = "flushed"
  /\ Synced(File(w))
  /\ cut' = [cut EXCEPT ![w] = Nothing]
  /\ Goto(w, IF Reporting(w) /\ call[w].kind # "repair" THEN "open"
                                                         ELSE "release")
  /\ UNCHANGED <<content, holder, call, raised, acked, counters>>

(***************************************************************************)
(* What goes wrong.                                                        *)
(***************************************************************************)
(* The lock, the read, the truncation, a write or an fsync raises; what a  *)
(* failed write left in the file stays, and unsynced contents stay so.     *)
Fail(w) ==
  /\ pc[w] \notin {"idle", "release"}
  /\ Raise(w)
  /\ UNCHANGED <<content, unsynced, holder, call, cut, acked,
                 calls, kills, outages>>

(* The kernel releases the locks of a process that is killed. *)
Kill(w) ==
  /\ pc[w] # "idle"
  /\ kills < MaxKills
  /\ kills' = kills + 1
  /\ holder' = [f \in Files |-> IF holder[f] = w THEN Nobody ELSE holder[f]]
  /\ Goto(w, "idle")
  /\ cut' = [cut EXCEPT ![w] = Nothing]
  /\ UNCHANGED <<content, unsynced, call, raised, acked,
                 calls, faults, outages>>

PowerFailure ==
  /\ outages < MaxOutages
  /\ outages' = outages + 1
  /\ content' \in {c \in [Files -> UNION {unsynced[f] : f \in Files}] :
                     \A f \in Files : c[f] \in unsynced[f]}
  /\ unsynced' = [f \in Files |-> {content'[f]}]
  /\ holder' = [f \in Files |-> Nobody]
  /\ pc' = [w \in Writers |-> "idle"]
  /\ cut' = [w \in Writers |-> Nothing]
  /\ UNCHANGED <<call, raised, acked, calls, faults, kills>>

Step(w) ==
  \/ Acquire(w) \/ Release(w) \/ Return(w)
  \/ Inspect(w) \/ Truncate(w) \/ SyncTruncated(w)
  \/ WritePiece(w) \/ WriteRest(w) \/ Sync(w)

Next ==
  \/ \E w \in Writers :
       Step(w) \/ Fail(w) \/ Kill(w) \/ \E kind \in Kinds : Call(w, kind)
  \/ PowerFailure

Spec == Init /\ [][Next]_vars

(* A process goes on, and flock serves those who wait. *)
FairSpec ==
  Spec /\ \A w \in Writers : WF_vars(Step(w)) /\ SF_vars(Acquire(w))

(***************************************************************************)
(* Properties.                                                             *)
(***************************************************************************)
(* The calls to append in progress, and the records of the log. *)
OpenCalls ==
  {call[w].id : w \in {v \in Writers : pc[v] # "idle"
                                       /\ call[v].kind = "append"}}
Records ==
  LET lines == content["log"].lines
  IN  [i \in DOMAIN lines |-> lines[i].id]

Promise == INSTANCE AppendOnlyLog
             WITH Ids <- 1 .. MaxCalls, log <- Records, open <- OpenCalls

(* However writers interleave, fail, are killed or lose power, the log is  *)
(* a sequence of whole records of calls that were made, each at most once, *)
(* and a record whose append returned is there for good.                   *)
ImplementsLog == Promise!Spec

(* Every call returns or raises; no order of locks and no failure of a     *)
(* holder leaves anybody waiting.                                          *)
CallsReturn == \A w \in Writers : (pc[w] # "idle") ~> (pc[w] = "idle")
=============================================================================
