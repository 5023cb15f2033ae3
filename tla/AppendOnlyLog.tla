---------------------------- MODULE AppendOnlyLog ----------------------------
(***************************************************************************)
(* What the callers of append_strict_jsonl rely on: the log is a sequence  *)
(* of whole records, in the order they were added.  A call adds its record *)
(* once or not at all; a record whose call returned stays, in its place,   *)
(* whatever is added, repaired, killed or switched off later.  A call that *)
(* raises promises nothing: its record may be there.                       *)
(***************************************************************************)
EXTENDS Naturals, Sequences, Functions

CONSTANT Ids  \* one for each call

VARIABLES
  log,   \* the records of the log
  open,  \* the calls that have yet to return
  acked  \* the calls that returned

vars == <<log, open, acked>>

Init == log = <<>> /\ open = {} /\ acked = {}

Begin(id) ==
  /\ id \notin open \cup acked \cup Range(log)
  /\ open' = open \cup {id}
  /\ UNCHANGED <<log, acked>>

Add(id) ==
  /\ id \in open \ Range(log)
  /\ log' = Append(log, id)
  /\ UNCHANGED <<open, acked>>

Confirm(id) ==
  /\ id \in open \cap Range(log)
  /\ open' = open \ {id}
  /\ acked' = acked \cup {id}
  /\ UNCHANGED log

(* The call raises, or its process is killed. *)
Abandon(id) ==
  /\ id \in open
  /\ open' = open \ {id}
  /\ UNCHANGED <<log, acked>>

(* The power fails: a tail of records nobody was promised may go. *)
Lose ==
  /\ \E n \in 0 .. Len(log) :
       /\ acked \subseteq Range(SubSeq(log, 1, n))
       /\ log' = SubSeq(log, 1, n)
  /\ open' = {}
  /\ UNCHANGED acked

Next ==
  \/ Lose
  \/ \E id \in Ids : Begin(id) \/ Add(id) \/ Confirm(id) \/ Abandon(id)

Spec == Init /\ [][Next]_vars
=============================================================================
