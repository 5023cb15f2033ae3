--------------------------- MODULE BestArtifacts ---------------------------
(***************************************************************************)
(* The export of the best program as best.py and best_workspace, one file  *)
(* operation a step.  Any operation may fail; the old pair is moved away,  *)
(* the new one moved in, and a failure in between starts the rollback.     *)
(* KeyboardInterrupt is not an Exception: it rolls nothing back.           *)
(***************************************************************************)
EXTENDS RunDirectory

VARIABLE export  \* the call under way, or how the last one ended

Idle == [at |-> "idle"]

(* The operations of the body, in their order.                             *)
Body ==
  <<<<"write", "best.py">>, <<"write", "best_workspace">>,
    <<"keep", "best.py">>, <<"keep", "best_workspace">>,
    <<"install", "best_workspace">>, <<"install", "best.py">>>>

(* Mutant: the rollback forgets the workspace.                             *)
UndoOfTheFile == <<<<"remove", "best.py">>, <<"remove", "best_workspace">>, <<"restore", "best.py">>>>

Undo ==
  <<<<"remove", "best.py">>, <<"remove", "best_workspace">>,
    <<"restore", "best.py">>, <<"restore", "best_workspace">>>>

Cleanup ==
  <<Temporary("best.py"), Temporary("best_workspace"),
    Backup("best.py"), Backup("best_workspace")>>

(* Each export has suffixes of its own, so it finds no file of another     *)
(* under its temporary names.                                              *)
BeginExport(program) ==
  /\ export.at \in {"idle", "completed", "failed", "interrupted"}
  /\ export' = [at |-> "body", step |-> 1, program |-> program, installed |-> {},
                preserved |-> {}, errors |-> 0, failed |-> FALSE, old |-> tree]
  /\ tree' = [p \in Paths |-> IF p \in Places THEN tree[p] ELSE Nothing]
  /\ UNCHANGED <<files, manifest, run>>

Moved(from, to) == [tree EXCEPT ![to] = tree[from], ![from] = Nothing]

AfterOperation(op, place) ==
  CASE op = "write" -> [tree EXCEPT ![Temporary(place)] = export.program]
    [] op = "keep" -> IF tree[place] = Nothing THEN tree ELSE Moved(place, Backup(place))
    [] op = "install" -> Moved(Temporary(place), place)

(* write_text and materialize may leave half of what they write; a rename  *)
(* that fails leaves everything where it was.                              *)
AfterFailure(op, place) ==
  IF op = "write" THEN {tree, [tree EXCEPT ![Temporary(place)] = Damaged]} ELSE {tree}

Operate ==
  LET op == Body[export.step][1]
      place == Body[export.step][2]
  IN /\ export.at = "body"
     /\ tree' = AfterOperation(op, place)
     /\ export' =
          [export EXCEPT
             !.installed = IF op = "install" THEN @ \cup {place} ELSE @,
             !.at = IF export.step = Len(Body) THEN "cleanup" ELSE "body",
             !.step = IF export.step = Len(Body) THEN 1 ELSE @ + 1]
     /\ UNCHANGED <<files, manifest, run>>

(* The path check before the first operation raises outside the try.       *)
RefuseExport ==
  /\ export.at = "body" /\ export.step = 1
  /\ export' = [export EXCEPT !.at = "failed", !.failed = TRUE]
  /\ UNCHANGED directory

FailOperation ==
  /\ export.at = "body"
  /\ tree' \in AfterFailure(Body[export.step][1], Body[export.step][2])
  /\ export' = [export EXCEPT !.at = "rollback", !.step = 1, !.failed = TRUE]
  /\ UNCHANGED <<files, manifest, run>>

NextUndo == IF export.step = Len(Undo) THEN "cleanup" ELSE "rollback"
AfterUndo == IF export.step = Len(Undo) THEN 1 ELSE export.step + 1

(* An installed file goes; a backup comes back.  What is not there, or was *)
(* not installed, is passed over.                                          *)
Undoes(op, place) ==
  IF op = "remove" THEN place \in export.installed /\ tree[place] # Nothing
  ELSE tree[Backup(place)] # Nothing

(* A directory that is still there stops a rename onto it; a file does not.*)
Blocked(op, place) ==
  op = "restore" /\ place = "best_workspace" /\ tree[place] # Nothing

RollBack ==
  LET op == Undo[export.step][1]
      place == Undo[export.step][2]
  IN /\ export.at = "rollback"
     /\ Undoes(op, place) => ~Blocked(op, place)
     /\ tree' = IF ~Undoes(op, place) THEN tree
                ELSE IF op = "remove" THEN [tree EXCEPT ![place] = Nothing]
                ELSE Moved(Backup(place), place)
     /\ export' = [export EXCEPT !.at = NextUndo, !.step = AfterUndo]
     /\ UNCHANGED <<files, manifest, run>>

FailRollBack ==
  LET op == Undo[export.step][1]
      place == Undo[export.step][2]
  IN /\ export.at = "rollback"
     /\ Undoes(op, place)
     /\ tree' \in {tree} \cup (IF op = "remove" /\ place = "best_workspace"
                              THEN {[tree EXCEPT ![place] = Damaged]} ELSE {})
     /\ export' = [export EXCEPT
                     !.at = NextUndo, !.step = AfterUndo, !.errors = @ + 1,
                     !.preserved = IF op = "restore" THEN @ \cup {Backup(place)} ELSE @]
     /\ UNCHANGED <<files, manifest, run>>

(* A cleanup error makes a finished export a failed one, its files in      *)
(* place.                                                                  *)
Ended(failed) == IF failed THEN "failed" ELSE "completed"
CleanUp(fails) ==
  LET path == Cleanup[export.step]
      failed == export.failed \/ fails
  IN /\ export.at = "cleanup"
     /\ fails => tree[path] # Nothing /\ path \notin export.preserved
     /\ tree' \in IF path \in export.preserved THEN {tree}
                  ELSE IF fails THEN {tree, [tree EXCEPT ![path] = Damaged]}
                  ELSE {[tree EXCEPT ![path] = Nothing]}
     /\ export' = [export EXCEPT
                     !.failed = failed,
                     !.step = IF @ = Len(Cleanup) THEN @ ELSE @ + 1,
                     !.at = IF export.step = Len(Cleanup) THEN Ended(failed) ELSE "cleanup"]
     /\ UNCHANGED <<files, manifest, run>>

(* Ctrl+C leaves the files where they are, but for the damage of a write.  *)
InterruptExport ==
  /\ export.at \in {"body", "rollback", "cleanup"}
  /\ export' = [export EXCEPT !.at = "interrupted"]
  /\ tree' \in IF export.at = "body" THEN AfterFailure(Body[export.step][1], Body[export.step][2])
               ELSE {tree}
  /\ UNCHANGED <<files, manifest, run>>

ExportStep == Operate \/ RollBack \/ CleanUp(FALSE)
ExportFault == RefuseExport \/ FailOperation \/ FailRollBack \/ CleanUp(TRUE)
=============================================================================
