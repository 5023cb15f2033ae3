--------------------------- MODULE RunInspection ---------------------------
(***************************************************************************)
(* What `libreevolve show` makes of a run directory: the validations in    *)
(* the order of inspect_run, the first that fails naming the refusal, and  *)
(* what is shown when none does.  Rows are written by the current writers, *)
(* so the legacy rows and the malformed fields of a row that only another  *)
(* program could have written are left out.                                *)
(***************************************************************************)
EXTENDS RunDirectory

History == files.history
FailureHistory == files.failure_history

RepeatsAnId(rows) == \E i, j \in DOMAIN rows : i # j /\ rows[i].id = rows[j].id

(* Files of a row come back through CandidateWorkspace, with the reserved  *)
(* paths the row itself allows; the row of a failure names its paths with  *)
(* no such list.                                                           *)
HistoryRefused == RepeatsAnId(History)
FailuresRefused ==
  RepeatsAnId(FailureHistory) \/ \E i \in DOMAIN FailureHistory : FailureHistory[i].paths = "reserved"

Retained(row) == row.admitted /\ row.valid

(* The first row of the top score among the retained.                      *)
ShownBest ==
  LET retained == {i \in DOMAIN History : Retained(History[i])}
      top == {i \in retained : \A j \in retained : History[j].score <= History[i].score}
  IN History[CHOOSE i \in top : \A j \in top : i <= j]

HasRuntime == manifest # Nothing /\ manifest.runtime # Nothing

RuntimeStatus ==
  CASE manifest = Nothing -> "legacy history-only"
    [] manifest # Nothing /\ ~HasRuntime -> "partial best-so-far"
    [] OTHER -> manifest.runtime.status

(* The manifest counts the programs of history, unless an aborted run      *)
(* could not.                                                              *)
CountsDiffer ==
  /\ HasRuntime /\ manifest.runtime.history # Nothing
  /\ manifest.runtime.history.programs # Len(History)

(* Every artifact the schema names needs a pointer in the runtime: a file  *)
(* or a directory of the kind the schema gives, or none there.             *)
PolicyFails ==
  manifest # Nothing /\ ~(HasRuntime /\ manifest.runtime.artifacts # Nothing)

Refusals ==
  <<[why |-> "no history", holds |-> History = <<>>],
    [why |-> "malformed history", holds |-> HistoryRefused],
    [why |-> "nothing retained", holds |-> \A i \in DOMAIN History : ~Retained(History[i])],
    [why |-> "counts differ", holds |-> CountsDiffer],
    [why |-> "malformed failure history", holds |-> FailuresRefused],
    [why |-> "artifact policy", holds |-> PolicyFails]>>

Objections == {i \in DOMAIN Refusals : Refusals[i].holds}

Inspection ==
  IF Objections # {}
  THEN [shown |-> FALSE,
        why |-> Refusals[CHOOSE i \in Objections : \A j \in Objections : i <= j].why]
  ELSE [shown |-> TRUE, status |-> RuntimeStatus, best |-> ShownBest, total |-> Len(History)]

=============================================================================
