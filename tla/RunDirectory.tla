---------------------------- MODULE RunDirectory ----------------------------
(***************************************************************************)
(* The directory a run leaves behind: the streams its components append    *)
(* to, the manifest, and the best program in its two forms.  A row carries *)
(* the number of the run that wrote it, which the files do not: it is here *)
(* for the properties.  Links are left out: every name is a file or a      *)
(* directory of its own.                                                   *)
(***************************************************************************)
EXTENDS Integers, Sequences, FiniteSets, SequencesExt, Functions

CONSTANT
  Damaged   \* what a write or a removal that failed may leave of a file

(* Stands for a file that is not there, and for a field that is None.      *)
Nothing == [none |-> TRUE]

VARIABLES
  files,     \* the rows of each stream, an empty sequence for no file
  manifest,  \* what manifest.json says
  tree,      \* which program the files of an export hold
  run        \* the number of the run under way, or of the last one

directory == <<files, manifest, tree, run>>

Streams == {"history", "failure_history", "archive_events", "controller_budget_events",
            "llm_calls", "prompt_history", "evaluator_results"}

(* An export builds its files beside their places and moves the old ones   *)
(* away; the six names differ only in the suffix of the export.            *)
Places == {"best.py", "best_workspace"}
Temporary(place) == IF place = "best.py" THEN "best.py.tmp" ELSE "best_workspace.tmp"
Backup(place) == IF place = "best.py" THEN "best.py.bak" ELSE "best_workspace.bak"
Paths == Places \cup {Temporary(p) : p \in Places} \cup {Backup(p) : p \in Places}

(* What an append may come to.  A refused row is not in its stream; a row  *)
(* whose append raised after the write (the sync failed, or Ctrl+C) is.    *)
Outcomes == {"written", "refused", "unsure"}
WithRow(stream, row, outcome) ==
  IF outcome = "refused" THEN files
  ELSE [files EXCEPT ![stream] = Append(@, row)]

(* The names cleanup owns, in its order: what an export left under a       *)
(* temporary name, and what a run never wrote, is not among them.          *)
Managed ==
  <<"archive_events", "best.py", "best_workspace", "controller_budget_events",
    "evaluator_results", "failure_history", "history", "llm_calls", "manifest",
    "prompt_history">>

Present(name) ==
  CASE name = "manifest" -> manifest # Nothing
    [] name \in Places -> tree[name] # Nothing
    [] OTHER -> files[name] # <<>>

(* The elements of s that are in S, in their order.                        *)
Listed(s, S) ==
  LET places == {i \in DOMAIN s : s[i] \in S}
      Earlier(i) == Cardinality({j \in places : j < i})
  IN  [k \in 1 .. Cardinality(places) |-> s[CHOOSE i \in places : Earlier(i) = k - 1]]

(* prepare_run_directory lists what exists before it touches anything.     *)
Existing == Listed(Managed, {name \in Range(Managed) : Present(name)})

RemoveName(name) ==
  /\ manifest' = IF name = "manifest" THEN Nothing ELSE manifest
  /\ tree' = IF name \in Places THEN [tree EXCEPT ![name] = Nothing] ELSE tree
  /\ files' = IF name \in Streams THEN [files EXCEPT ![name] = <<>>] ELSE files
  /\ UNCHANGED run

WriteManifest(m) ==
  /\ manifest' = m
  /\ UNCHANGED <<files, tree, run>>

EmptyDirectory ==
  /\ files = [s \in Streams |-> <<>>]
  /\ manifest = Nothing
  /\ tree = [p \in Paths |-> Nothing]
  /\ run = 0
=============================================================================
