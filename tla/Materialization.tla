-------------------------- MODULE Materialization --------------------------
(***************************************************************************)
(* Writing a candidate into a directory, one file operation a step: a      *)
(* temporary sibling is filled, a directory that is there already moves    *)
(* aside, the sibling takes its place, and a failure in between moves the  *)
(* old one back.  Any operation may fail, and Ctrl+C arrives between any   *)
(* two.                                                                    *)
(***************************************************************************)
EXTENDS Naturals

CONSTANTS
  MaxDiskFaults,   \* file operations that fail during one call
  MaxCtrlC         \* KeyboardInterrupts during one call

ASSUME MaterializationAssumption == MaxDiskFaults \in Nat /\ MaxCtrlC \in Nat

VARIABLES
  tree,    \* what root, its temporary sibling and its backup hold
  call     \* the call under way, or how the last one ended

Places == {"root", "temp", "backup"}
Nothing == "nothing"
Partial == "partial"
Contents == {Nothing, Partial, "old", "new"}
Ends == {"idle", "refused", "returned", "raised"}

NoCall == [at |-> "idle", moved |-> FALSE, had |-> FALSE, faults |-> 0, interrupts |-> 0]
NoTree == [p \in Places |-> Nothing]

MaterializationOK ==
  /\ tree \in [Places -> Contents]
  /\ call \in [at : Ends \cup {"make_temp", "write", "look", "place_backup", "clear_backup", "keep",
                               "swap", "undo_root", "undo_backup", "undo_temp", "clean"},
               moved : BOOLEAN, had : BOOLEAN,
               faults : 0..MaxDiskFaults, interrupts : 0..MaxCtrlC]

Goto(at) == call' = [call EXCEPT !.at = at]
Stumble(at) ==
  /\ call.faults < MaxDiskFaults
  /\ call' = [call EXCEPT !.at = at, !.faults = @ + 1]

Break(at) ==
  /\ call.interrupts < MaxCtrlC
  /\ call' = [call EXCEPT !.at = at, !.interrupts = @ + 1]

Moved(from, to) == [tree EXCEPT ![to] = tree[from], ![from] = Nothing]

(* The paths are looked through before anything is written.                *)
BeginMaterialize(existing, collides) ==
  /\ call.at \in Ends
  /\ tree' = [NoTree EXCEPT !["root"] = existing]
  /\ call' = [NoCall EXCEPT !.at = IF collides THEN "refused" ELSE "make_temp",
                            !.had = existing # Nothing]

MakeTemp ==
  /\ call.at = "make_temp"
  /\ \/ tree' = [tree EXCEPT !["temp"] = Partial] /\ Goto("write")
     \/ UNCHANGED tree /\ Stumble("raised")

(* Every file and every static member; when one cannot be written the      *)
(* temporary directory is removed.                                         *)
WriteFiles ==
  /\ call.at = "write"
  /\ \/ tree' = [tree EXCEPT !["temp"] = "new"] /\ Goto("look")
     \/ UNCHANGED tree /\ Stumble("undo_temp")

LookAtRoot ==
  /\ call.at = "look"
  /\ Goto(IF tree["root"] = Nothing THEN "swap" ELSE "place_backup")
  /\ UNCHANGED tree

(* mkdtemp finds the name, and the directory it made gives way to the      *)
(* rename.                                                                 *)
PlaceBackup ==
  /\ call.at = "place_backup"
  /\ \/ tree' = [tree EXCEPT !["backup"] = Partial] /\ Goto("clear_backup")
     \/ UNCHANGED tree /\ Stumble("undo_root")

ClearBackup ==
  /\ call.at = "clear_backup"
  /\ \/ tree' = [tree EXCEPT !["backup"] = Nothing] /\ Goto("keep")
     \/ UNCHANGED tree /\ Stumble("undo_root")

(* Mutant: the flag that starts the rollback is not set.                   *)
KeepRootUnmarked ==
  /\ call.at = "keep"
  /\ \/ tree' = Moved("root", "backup") /\ Goto("swap")
     \/ UNCHANGED tree /\ Stumble("undo_root")

(* Ctrl+C between the rename and the flag finds the flag down: see         *)
(* Interrupt.                                                              *)
KeepRoot ==
  /\ call.at = "keep"
  /\ \/ tree' = Moved("root", "backup") /\ call' = [call EXCEPT !.at = "swap", !.moved = TRUE]
     \/ UNCHANGED tree /\ Stumble("undo_root")
     \/ tree' = Moved("root", "backup") /\ Break("undo_root")

Swap ==
  /\ call.at = "swap"
  /\ \/ tree' = Moved("temp", "root") /\ Goto("clean")
     \/ UNCHANGED tree /\ Stumble("undo_root")
     \/ tree' = Moved("temp", "root") /\ Break("undo_root")

(* A tree is removed whole, or in part when the removal fails or Ctrl+C     *)
(* stops it.                                                               *)
RemoveTree(place, next) ==
  \/ tree' = [tree EXCEPT ![place] = Nothing] /\ Goto(next)
  \/ /\ tree[place] # Nothing
     /\ tree' \in {tree, [tree EXCEPT ![place] = Partial]}
     /\ Stumble("raised")
  \/ /\ tree[place] # Nothing
     /\ tree' = [tree EXCEPT ![place] = Partial]
     /\ Break("raised")

(* The rollback: a root that took the place of a kept one goes, the kept   *)
(* one comes back, the temporary directory goes.                           *)
UndoRoot ==
  /\ call.at = "undo_root"
  /\ IF call.moved THEN RemoveTree("root", "undo_backup")
     ELSE UNCHANGED tree /\ Goto("undo_backup")

UndoBackup ==
  /\ call.at = "undo_backup"
  /\ IF call.moved /\ tree["backup"] # Nothing
     THEN \/ tree' = Moved("backup", "root") /\ Goto("undo_temp")
          \/ UNCHANGED tree /\ Stumble("raised")
     ELSE UNCHANGED tree /\ Goto("undo_temp")

UndoTemp == call.at = "undo_temp" /\ RemoveTree("temp", "raised")

(* The new root is in place; a backup that cannot be removed makes the     *)
(* call raise all the same, since _remove_materialization_tree turns the   *)
(* OSError this clause would pass over into another exception.             *)
Clean == call.at = "clean" /\ RemoveTree("backup", "returned")

(* Ctrl+C between two operations.  Each file is written in a try of its    *)
(* own, from the look at root on one try holds the rest, and there is no   *)
(* handler before, between and after them, nor in a handler.               *)
Interrupt ==
  /\ UNCHANGED tree
  /\ \/ call.at \notin Ends /\ call.at \notin {"place_backup", "clear_backup", "keep", "swap"}
        /\ Break("raised")
     \/ call.at = "write" /\ Break("undo_temp")
     \/ call.at \in {"look", "place_backup", "clear_backup", "keep", "swap"} /\ Break("undo_root")

MaterializeStep ==
  \/ MakeTemp \/ WriteFiles \/ LookAtRoot \/ PlaceBackup \/ ClearBackup \/ KeepRoot \/ Swap
  \/ UndoRoot \/ UndoBackup \/ UndoTemp \/ Clean \/ Interrupt

(***************************************************************************)
(* What the call promises, whatever goes wrong in it.                      *)
(***************************************************************************)

(* The old files are somewhere until the new ones are at root.             *)
NothingIsLost == call.had => "old" \in {tree["root"], tree["backup"]} \/ tree["root"] = "new"

(* Root is never half a candidate, unless the rollback was started by      *)
(* Ctrl+C after the swap and then failed or was interrupted itself.        *)
RootIsWhole ==
  tree["root"] = Partial =>
    /\ call.interrupts > 0 /\ call.faults + call.interrupts > 1
    /\ tree["backup"] = "old"

(* A call that returns has put the new root in place and left nothing      *)
(* beside it.  One that raises after a single failed operation and no      *)
(* Ctrl+C leaves root as it found it and nothing beside it, unless what    *)
(* failed is the removal of the backup.                                    *)
EndsClean ==
  /\ call.at = "returned" => tree = [NoTree EXCEPT !["root"] = "new"]
  /\ call.at = "raised" /\ call.faults = 1 /\ call.interrupts = 0 =>
       \/ /\ tree["root"] = IF call.had THEN "old" ELSE Nothing
          /\ tree["temp"] = Nothing
          /\ tree["backup"] \in {Nothing, Partial}
       \/ call.moved /\ tree["root"] = "new" /\ tree["temp"] = Nothing

(* Materializing loses no file that was there and never shows half of a    *)
(* candidate (candidate.py:199).                                           *)
OldOrNew == MaterializationOK /\ NothingIsLost /\ RootIsWhole /\ EndsClean
=============================================================================
