-------------------------- MODULE ProgramDatabase --------------------------
(***************************************************************************)
(* The facade over the islands and the streams of a run: what an operation *)
(* of ProgramDatabase does to its memory and to the directory.  A          *)
(* candidate is a record: its verdict and score, the fingerprint its       *)
(* failure would have, and whether it has a file under a reserved path     *)
(* that its seed was allowed to bring.  Ids are deterministic and differ,  *)
(* and the evaluator lets no score through that is not finite, so the      *)
(* guards against a repeated id and an odd number never fire here.         *)
(***************************************************************************)
EXTENDS RunDirectory, FiniteSetsExt

CONSTANTS
  Threshold,  \* the lowest score an admission takes
  MaxHops     \* the most events of one migration

VARIABLES
  archived,    \* the programs the islands took in
  admissions,  \* how many admissions were numbered
  hops,        \* how many migration events were numbered
  logged,      \* the programs of history, in memory
  failures,    \* the failure records, in memory
  budgetEvents,  \* how many budget events were numbered
  llmCalls     \* how many call records were numbered

memory == <<archived, admissions, hops, logged, failures, budgetEvents, llmCalls>>

OpenDatabase ==
  /\ archived' = {}
  /\ admissions' = 0
  /\ hops' = 0
  /\ logged' = <<>>
  /\ failures' = <<>>
  /\ budgetEvents' = 0
  /\ llmCalls' = 0

(* What the islands may answer: they may turn a program away, but never    *)
(* one that beats all they hold (Islands.tla).                             *)
MayTurnAway(c) == \E a \in archived : a.score >= c.score

Eligible(c) == c.valid /\ c.score >= Threshold

AdmissionReason(c, kept) ==
  CASE ~c.valid -> "invalid_evaluation"
    [] c.valid /\ c.score < Threshold -> "below_threshold"
    [] OTHER -> IF kept THEN "retained" ELSE "not_improving_cell"

(* Mutant: the event is appended first, and the archive follows.           *)
AdmitAfterEvent(c, kept, outcome) ==
  /\ kept => Eligible(c)
  /\ Eligible(c) /\ ~kept => MayTurnAway(c)
  /\ archived' = IF kept /\ outcome = "written" THEN archived \cup {c} ELSE archived
  /\ admissions' = admissions + 1
  /\ files' = WithRow("archive_events",
                [type |-> "admission", number |-> admissions + 1, id |-> c.id,
                 reason |-> AdmissionReason(c, kept), run |-> run], outcome)
  /\ UNCHANGED <<hops, logged, failures, budgetEvents, llmCalls, manifest, tree, run>>

(* The archive takes the program, and its number is used up, before the    *)
(* row is appended: an append that raises gives neither back.              *)
Admit(c, kept, outcome) ==
  /\ kept => Eligible(c)
  /\ Eligible(c) /\ ~kept => MayTurnAway(c)
  /\ c.id \notin {a.id : a \in archived} \cup Range(logged)
  /\ archived' = IF kept THEN archived \cup {c} ELSE archived
  /\ admissions' = admissions + 1
  /\ files' = WithRow("archive_events",
                [type |-> "admission", number |-> admissions + 1, id |-> c.id,
                 reason |-> AdmissionReason(c, kept), run |-> run], outcome)
  /\ UNCHANGED <<hops, logged, failures, budgetEvents, llmCalls, manifest, tree, run>>

Repetitions(print) == Cardinality({i \in DOMAIN failures : failures[i].print = print})

(* log_failure and log_seed_failure; the two build the same row but for    *)
(* the fields of a seed.  Memory follows only when the append returned.    *)
FailureRow(c) ==
  [id |-> c.id, parent |-> c.parent, print |-> c.print, paths |-> c.paths,
   count |-> Repetitions(c.print) + 1, run |-> run]
LogFailure(c, outcome) ==
  /\ c.id \notin {failures[i].id : i \in DOMAIN failures}
  /\ files' = WithRow("failure_history", FailureRow(c), outcome)
  /\ failures' = IF outcome = "written" THEN Append(failures, FailureRow(c)) ELSE failures
  /\ UNCHANGED <<archived, admissions, hops, logged, budgetEvents, llmCalls,
                 manifest, tree, run>>

Log(c, kept, outcome) ==
  /\ c.id \notin Range(logged)
  /\ files' = WithRow("history",
                [id |-> c.id, admitted |-> kept, valid |-> c.valid, score |-> c.score,
                 parent |-> c.parent, paths |-> c.paths, run |-> run], outcome)
  /\ logged' = IF outcome = "written" THEN Append(logged, c.id) ELSE logged
  /\ UNCHANGED <<archived, admissions, hops, failures, budgetEvents, llmCalls,
                 manifest, tree, run>>

(* Mutant: the number is used up before the append.                        *)
NumberBudgetEventFirst(kind, outcome) ==
  /\ files' = WithRow("controller_budget_events",
                [kind |-> kind, number |-> budgetEvents, run |-> run], outcome)
  /\ budgetEvents' = budgetEvents + 1
  /\ UNCHANGED <<archived, admissions, hops, logged, failures, llmCalls,
                 manifest, tree, run>>

LogControllerBudgetEvent(kind, outcome) ==
  /\ files' = WithRow("controller_budget_events",
                [kind |-> kind, number |-> budgetEvents, run |-> run], outcome)
  /\ budgetEvents' = IF outcome = "written" THEN budgetEvents + 1 ELSE budgetEvents
  /\ UNCHANGED <<archived, admissions, hops, logged, failures, llmCalls,
                 manifest, tree, run>>

(* A reward row takes no number.                                           *)
LogLLMCall(type, outcome) ==
  /\ files' = WithRow("llm_calls",
                [type |-> type, number |-> IF type = "call" THEN llmCalls + 1 ELSE 0,
                 run |-> run], outcome)
  /\ llmCalls' = IF type = "call" /\ outcome = "written" THEN llmCalls + 1 ELSE llmCalls
  /\ UNCHANGED <<archived, admissions, hops, logged, failures, budgetEvents,
                 manifest, tree, run>>

(* The islands migrate first; then one row an event, up to the first that  *)
(* raises.                                                                 *)
MigrationRows(k) ==
  [i \in 1 .. k |-> [type |-> "migration", number |-> hops + i, run |-> run]]
MaybeMigrate(outcome) ==
  /\ \E n \in 1 .. MaxHops : \E k \in 0 .. n :
       /\ outcome = "written" => k = n
       /\ outcome = "refused" => k < n
       /\ outcome = "unsure" => k > 0
       /\ hops' = hops + n
       /\ files' = [files EXCEPT !["archive_events"] = @ \o MigrationRows(k)]
  /\ UNCHANGED <<archived, admissions, logged, failures, budgetEvents, llmCalls,
                 manifest, tree, run>>

(* IslandModel.best, one of the programs of the top score.                 *)
Best == {a \in archived : \A b \in archived : b.score <= a.score}

(* One entry for each fingerprint, with its count and its last repetition. *)
LastRepetition(print) ==
  Max({failures[i].count : i \in {j \in DOMAIN failures : failures[j].print = print}})
FailureIndex ==
  {[print |-> p, occurrences |-> Repetitions(p), repetitions |-> LastRepetition(p)]
     : p \in {failures[i].print : i \in DOMAIN failures}}

(* runtime.history of the manifest.                                        *)
HistorySummary ==
  [programs |-> Len(logged), index |-> FailureIndex, archive |-> {a.id : a \in archived}]
=============================================================================
