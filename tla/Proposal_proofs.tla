--------------------------- MODULE Proposal_proofs ---------------------------
(***************************************************************************)
(* The line of descent of Proposal, for every seed, answer and prompt: what *)
(* a candidate keeps of its seed, what the writing of one does to the      *)
(* directory it is written to, whatever operation of it fails and whenever *)
(* Ctrl+C arrives, and what is packed away of a prompt over its budget.    *)
(***************************************************************************)
EXTENDS Proposal, WellFoundedInduction, FiniteSetTheorems, TLAPS

(***************************************************************************)
(* Writing a candidate.  What the three places hold follows from where the *)
(* call is.  Up to the swap nothing has gone wrong yet; the rollback       *)
(* starts with the one thing that has, and a second ends the call.         *)
(***************************************************************************)
Before == IF call.had THEN "old" ELSE Nothing
Troubles == call.faults + call.interrupts
Holds(root, temp, backup) ==
  tree["root"] = root /\ tree["temp"] = temp /\ tree["backup"] = backup

Smooth ==
  {"idle", "refused", "make_temp", "write", "look", "place_backup",
   "clear_backup", "keep", "swap", "clean", "returned"}

(* Nothing has moved yet. *)
Unmoved(temps, backups) ==
  /\ ~call.moved
  /\ tree["root"] = Before
  /\ tree["temp"] \in temps /\ tree["backup"] \in backups

WrittenSoFar ==
  /\ call.at \in Smooth => Troubles = 0
  /\ call.at = "idle" => ~call.moved /\ ~call.had /\ Unmoved({Nothing}, {Nothing})
  /\ call.at \in {"refused", "make_temp"} => Unmoved({Nothing}, {Nothing})
  /\ call.at = "write" => Unmoved({Partial}, {Nothing})
  /\ call.at = "look" => Unmoved({"new"}, {Nothing})
  /\ call.at \in {"place_backup", "keep"} => call.had /\ Unmoved({"new"}, {Nothing})
  /\ call.at = "clear_backup" => call.had /\ Unmoved({"new"}, {Partial})
  /\ call.at = "swap" => call.moved = call.had /\ Holds(Nothing, "new", Before)
  /\ call.at = "clean" => call.moved = call.had /\ Holds("new", Nothing, Before)
  /\ call.at = "returned" => Holds("new", Nothing, Nothing)

(* A rollback that was told that root moved has the old root aside; one    *)
(* that was not may have it aside too, if Ctrl+C came between the rename   *)
(* and the flag, or find the new root in place where there was none.       *)
Undoing ==
  /\ call.at \in {"undo_root", "undo_backup", "undo_temp"} => Troubles = 1
  /\ call.at \in {"undo_root", "undo_backup"} /\ ~call.moved =>
       \/ Unmoved({"new"}, {Nothing, Partial})
       \/ call.interrupts = 1 /\ call.had /\ Holds(Nothing, "new", "old")
       \/ call.interrupts = 1 /\ ~call.had /\ Holds("new", Nothing, Nothing)
  /\ call.at \in {"undo_root", "undo_backup"} /\ call.moved =>
       /\ call.had /\ tree["backup"] = "old"
       /\ \/ tree["root"] = Nothing
          \/ call.at = "undo_root" /\ tree["root"] = "new" /\ call.interrupts = 1
       /\ tree["temp"] \in {"new", Nothing} /\ (tree["temp"] = Nothing => call.interrupts = 1)
  /\ call.at = "undo_temp" =>
       \/ Unmoved({"new", Partial}, {Nothing, Partial})
       \/ call.moved /\ call.had /\ tree["root"] = "old" /\ tree["backup"] = Nothing
       \/ call.interrupts = 1 /\ call.had /\ Holds(Nothing, "new", "old")
       \/ call.interrupts = 1 /\ ~call.had /\ Holds("new", Nothing, Nothing)

MInv == OldOrNew /\ WrittenSoFar /\ Undoing

(* What one operation does to the call and to the three places. *)
Stages ==
  Ends \cup {"make_temp", "write", "look", "place_backup", "clear_backup", "keep",
             "swap", "undo_root", "undo_backup", "undo_temp", "clean"}
CallOK ==
  call \in [at : Stages, moved : BOOLEAN, had : BOOLEAN,
            faults : 0..MaxDiskFaults, interrupts : 0..MaxCtrlC]
CallGoes(at, moved, faults, interrupts) ==
  /\ call'.at = at /\ call'.moved = moved /\ call'.had = call.had
  /\ call'.faults = faults /\ call'.interrupts = interrupts
Become(root, temp, backup) ==
  tree'["root"] = root /\ tree'["temp"] = temp /\ tree'["backup"] = backup

LEMMA CallMoves ==
  ASSUME MaterializationOK, NEW at \in Stages
  PROVE  /\ Goto(at) => CallOK' /\ CallGoes(at, call.moved, call.faults, call.interrupts)
         /\ Stumble(at) => CallOK' /\ CallGoes(at, call.moved, call.faults + 1, call.interrupts)
         /\ Break(at) => CallOK' /\ CallGoes(at, call.moved, call.faults, call.interrupts + 1)
         /\ call' = [call EXCEPT !.at = at, !.moved = TRUE]
              => CallOK' /\ CallGoes(at, TRUE, call.faults, call.interrupts)
<1>1. CallOK
  BY DEF MaterializationOK, CallOK, Stages
<1>2. Goto(at) => CallOK' /\ CallGoes(at, call.moved, call.faults, call.interrupts)
  BY <1>1 DEF CallOK, Goto, CallGoes
<1>3. Stumble(at) => CallOK' /\ CallGoes(at, call.moved, call.faults + 1, call.interrupts)
  <2> SUFFICES ASSUME Stumble(at) PROVE CallOK' /\ CallGoes(at, call.moved, call.faults + 1, call.interrupts)
    OBVIOUS
  <2>1. call.faults + 1 \in 0..MaxDiskFaults
    BY <1>1, MaterializationAssumption DEF CallOK, Stumble
  <2>2. call' = [call EXCEPT !.at = at, !.faults = call.faults + 1]
    BY DEF Stumble
  <2> QED BY <1>1, <2>1, <2>2 DEF CallOK, CallGoes
<1>4. Break(at) => CallOK' /\ CallGoes(at, call.moved, call.faults, call.interrupts + 1)
  <2> SUFFICES ASSUME Break(at) PROVE CallOK' /\ CallGoes(at, call.moved, call.faults, call.interrupts + 1)
    OBVIOUS
  <2>1. call.interrupts + 1 \in 0..MaxCtrlC
    BY <1>1, MaterializationAssumption DEF CallOK, Break
  <2>2. call' = [call EXCEPT !.at = at, !.interrupts = call.interrupts + 1]
    BY DEF Break
  <2> QED BY <1>1, <2>1, <2>2 DEF CallOK, CallGoes
<1>5. call' = [call EXCEPT !.at = at, !.moved = TRUE]
        => CallOK' /\ CallGoes(at, TRUE, call.faults, call.interrupts)
  BY <1>1 DEF CallOK, CallGoes
<1> QED BY <1>2, <1>3, <1>4, <1>5

LEMMA TreeMoves ==
  ASSUME MaterializationOK
  PROVE  /\ \A place \in Places, held \in Contents :
              tree' = [tree EXCEPT ![place] = held] =>
                /\ tree' \in [Places -> Contents]
                /\ Become(IF place = "root" THEN held ELSE tree["root"],
                          IF place = "temp" THEN held ELSE tree["temp"],
                          IF place = "backup" THEN held ELSE tree["backup"])
         /\ \A from, to \in Places :
              from # to /\ tree' = Moved(from, to) =>
                /\ tree' \in [Places -> Contents]
                /\ tree'[from] = Nothing /\ tree'[to] = tree[from]
                /\ \A p \in Places \ {from, to} : tree'[p] = tree[p]
<1> USE DEF MaterializationOK, Places, Nothing, Contents
<1> QED BY DEF Become, Moved

LEMMA TypeOf ==
  MaterializationOK' <=> tree' \in [Places -> Contents] /\ CallOK'
BY DEF MaterializationOK, CallOK, Stages

LEMMA CallTypes ==
  MInv => /\ call.faults \in Nat /\ call.interrupts \in Nat
          /\ call.moved \in BOOLEAN /\ call.had \in BOOLEAN
BY MaterializationAssumption DEF MInv, OldOrNew, MaterializationOK

LEMMA MakeTempKeeps == ASSUME MInv, MakeTemp PROVE MInv'
<1> USE DEF MInv, OldOrNew, NothingIsLost, RootIsWhole, EndsClean, WrittenSoFar, Undoing,
            Unmoved, Holds, Before, Troubles, Smooth, NoTree, Nothing, Partial
<1> USE CallTypes
<1>1. CASE tree' = [tree EXCEPT !["temp"] = Partial] /\ Goto("write")
  <2>1. CallOK' /\ CallGoes("write", call.moved, call.faults, call.interrupts)
    BY <1>1, CallMoves DEF Stages, Ends
  <2>2. tree' \in [Places -> Contents] /\ Become(tree["root"], Partial, tree["backup"])
    BY <1>1, TreeMoves DEF Places, Contents
  <2> QED BY <1>1, <2>1, <2>2, TypeOf DEF MakeTemp, CallGoes, Become
<1>2. CASE UNCHANGED tree /\ Stumble("raised")
  <2>1. CallOK' /\ CallGoes("raised", call.moved, call.faults + 1, call.interrupts)
    BY <1>2, CallMoves DEF Stages, Ends
  <2>2. tree' \in [Places -> Contents] /\ Become(tree["root"], tree["temp"], tree["backup"])
    BY <1>2 DEF Become, MaterializationOK
  <2> QED BY <1>2, <2>1, <2>2, TypeOf DEF MakeTemp, CallGoes, Become
<1> QED BY <1>1, <1>2 DEF MakeTemp

LEMMA WriteFilesKeeps == ASSUME MInv, WriteFiles PROVE MInv'
<1> USE DEF MInv, OldOrNew, NothingIsLost, RootIsWhole, EndsClean, WrittenSoFar, Undoing,
            Unmoved, Holds, Before, Troubles, Smooth, NoTree, Nothing, Partial
<1> USE CallTypes
<1>1. CASE tree' = [tree EXCEPT !["temp"] = "new"] /\ Goto("look")
  <2>1. CallOK' /\ CallGoes("look", call.moved, call.faults, call.interrupts)
    BY <1>1, CallMoves DEF Stages, Ends
  <2>2. tree' \in [Places -> Contents] /\ Become(tree["root"], "new", tree["backup"])
    BY <1>1, TreeMoves DEF Places, Contents
  <2> QED BY <1>1, <2>1, <2>2, TypeOf DEF WriteFiles, CallGoes, Become
<1>2. CASE UNCHANGED tree /\ Stumble("undo_temp")
  <2>1. CallOK' /\ CallGoes("undo_temp", call.moved, call.faults + 1, call.interrupts)
    BY <1>2, CallMoves DEF Stages, Ends
  <2>2. tree' \in [Places -> Contents] /\ Become(tree["root"], tree["temp"], tree["backup"])
    BY <1>2 DEF Become, MaterializationOK
  <2> QED BY <1>2, <2>1, <2>2, TypeOf DEF WriteFiles, CallGoes, Become
<1> QED BY <1>1, <1>2 DEF WriteFiles

LEMMA LookAtRootKeeps == ASSUME MInv, LookAtRoot PROVE MInv'
<1> USE DEF MInv, OldOrNew, NothingIsLost, RootIsWhole, EndsClean, WrittenSoFar, Undoing,
            Unmoved, Holds, Before, Troubles, Smooth, NoTree, Nothing, Partial
<1> USE CallTypes
<1>1. CASE tree["root"] = Nothing /\ UNCHANGED tree /\ Goto("swap")
  <2>1. CallOK' /\ CallGoes("swap", call.moved, call.faults, call.interrupts)
    BY <1>1, CallMoves DEF Stages, Ends
  <2>2. tree' \in [Places -> Contents] /\ Become(tree["root"], tree["temp"], tree["backup"])
    BY <1>1 DEF Become, MaterializationOK
  <2> QED BY <1>1, <2>1, <2>2, TypeOf DEF LookAtRoot, CallGoes, Become
<1>2. CASE tree["root"] # Nothing /\ UNCHANGED tree /\ Goto("place_backup")
  <2>1. CallOK' /\ CallGoes("place_backup", call.moved, call.faults, call.interrupts)
    BY <1>2, CallMoves DEF Stages, Ends
  <2>2. tree' \in [Places -> Contents] /\ Become(tree["root"], tree["temp"], tree["backup"])
    BY <1>2 DEF Become, MaterializationOK
  <2> QED BY <1>2, <2>1, <2>2, TypeOf DEF LookAtRoot, CallGoes, Become
<1> QED BY <1>1, <1>2 DEF LookAtRoot

LEMMA PlaceBackupKeeps == ASSUME MInv, PlaceBackup PROVE MInv'
<1> USE DEF MInv, OldOrNew, NothingIsLost, RootIsWhole, EndsClean, WrittenSoFar, Undoing,
            Unmoved, Holds, Before, Troubles, Smooth, NoTree, Nothing, Partial
<1> USE CallTypes
<1>1. CASE tree' = [tree EXCEPT !["backup"] = Partial] /\ Goto("clear_backup")
  <2>1. CallOK' /\ CallGoes("clear_backup", call.moved, call.faults, call.interrupts)
    BY <1>1, CallMoves DEF Stages, Ends
  <2>2. tree' \in [Places -> Contents] /\ Become(tree["root"], tree["temp"], Partial)
    BY <1>1, TreeMoves DEF Places, Contents
  <2> QED BY <1>1, <2>1, <2>2, TypeOf DEF PlaceBackup, CallGoes, Become
<1>2. CASE UNCHANGED tree /\ Stumble("undo_root")
  <2>1. CallOK' /\ CallGoes("undo_root", call.moved, call.faults + 1, call.interrupts)
    BY <1>2, CallMoves DEF Stages, Ends
  <2>2. tree' \in [Places -> Contents] /\ Become(tree["root"], tree["temp"], tree["backup"])
    BY <1>2 DEF Become, MaterializationOK
  <2> QED BY <1>2, <2>1, <2>2, TypeOf DEF PlaceBackup, CallGoes, Become
<1> QED BY <1>1, <1>2 DEF PlaceBackup

LEMMA ClearBackupKeeps == ASSUME MInv, ClearBackup PROVE MInv'
<1> USE DEF MInv, OldOrNew, NothingIsLost, RootIsWhole, EndsClean, WrittenSoFar, Undoing,
            Unmoved, Holds, Before, Troubles, Smooth, NoTree, Nothing, Partial
<1> USE CallTypes
<1>1. CASE tree' = [tree EXCEPT !["backup"] = Nothing] /\ Goto("keep")
  <2>1. CallOK' /\ CallGoes("keep", call.moved, call.faults, call.interrupts)
    BY <1>1, CallMoves DEF Stages, Ends
  <2>2. tree' \in [Places -> Contents] /\ Become(tree["root"], tree["temp"], Nothing)
    BY <1>1, TreeMoves DEF Places, Contents
  <2> QED BY <1>1, <2>1, <2>2, TypeOf DEF ClearBackup, CallGoes, Become
<1>2. CASE UNCHANGED tree /\ Stumble("undo_root")
  <2>1. CallOK' /\ CallGoes("undo_root", call.moved, call.faults + 1, call.interrupts)
    BY <1>2, CallMoves DEF Stages, Ends
  <2>2. tree' \in [Places -> Contents] /\ Become(tree["root"], tree["temp"], tree["backup"])
    BY <1>2 DEF Become, MaterializationOK
  <2> QED BY <1>2, <2>1, <2>2, TypeOf DEF ClearBackup, CallGoes, Become
<1> QED BY <1>1, <1>2 DEF ClearBackup

LEMMA KeepRootKeeps == ASSUME MInv, KeepRoot PROVE MInv'
<1> USE DEF MInv, OldOrNew, NothingIsLost, RootIsWhole, EndsClean, WrittenSoFar, Undoing,
            Unmoved, Holds, Before, Troubles, Smooth, NoTree, Nothing, Partial
<1> USE CallTypes
<1>1. CASE tree' = Moved("root", "backup") /\ call' = [call EXCEPT !.at = "swap", !.moved = TRUE]
  <2>1. CallOK' /\ CallGoes("swap", TRUE, call.faults, call.interrupts)
    BY <1>1, CallMoves DEF Stages, Ends
  <2>2. tree' \in [Places -> Contents] /\ Become(Nothing, tree["temp"], tree["root"])
    BY <1>1, TreeMoves DEF Places, Become
  <2> QED BY <1>1, <2>1, <2>2, TypeOf DEF KeepRoot, CallGoes, Become
<1>2. CASE UNCHANGED tree /\ Stumble("undo_root")
  <2>1. CallOK' /\ CallGoes("undo_root", call.moved, call.faults + 1, call.interrupts)
    BY <1>2, CallMoves DEF Stages, Ends
  <2>2. tree' \in [Places -> Contents] /\ Become(tree["root"], tree["temp"], tree["backup"])
    BY <1>2 DEF Become, MaterializationOK
  <2> QED BY <1>2, <2>1, <2>2, TypeOf DEF KeepRoot, CallGoes, Become
<1>3. CASE tree' = Moved("root", "backup") /\ Break("undo_root")
  <2>1. CallOK' /\ CallGoes("undo_root", call.moved, call.faults, call.interrupts + 1)
    BY <1>3, CallMoves DEF Stages, Ends
  <2>2. tree' \in [Places -> Contents] /\ Become(Nothing, tree["temp"], tree["root"])
    BY <1>3, TreeMoves DEF Places, Become
  <2> QED BY <1>3, <2>1, <2>2, TypeOf DEF KeepRoot, CallGoes, Become
<1> QED BY <1>1, <1>2, <1>3 DEF KeepRoot

LEMMA SwapKeeps == ASSUME MInv, Swap PROVE MInv'
<1> USE DEF MInv, OldOrNew, NothingIsLost, RootIsWhole, EndsClean, WrittenSoFar, Undoing,
            Unmoved, Holds, Before, Troubles, Smooth, NoTree, Nothing, Partial
<1> USE CallTypes
<1>1. CASE tree' = Moved("temp", "root") /\ Goto("clean")
  <2>1. CallOK' /\ CallGoes("clean", call.moved, call.faults, call.interrupts)
    BY <1>1, CallMoves DEF Stages, Ends
  <2>2. tree' \in [Places -> Contents] /\ Become(tree["temp"], Nothing, tree["backup"])
    BY <1>1, TreeMoves DEF Places, Become
  <2> QED BY <1>1, <2>1, <2>2, TypeOf DEF Swap, CallGoes, Become
<1>2. CASE UNCHANGED tree /\ Stumble("undo_root")
  <2>1. CallOK' /\ CallGoes("undo_root", call.moved, call.faults + 1, call.interrupts)
    BY <1>2, CallMoves DEF Stages, Ends
  <2>2. tree' \in [Places -> Contents] /\ Become(tree["root"], tree["temp"], tree["backup"])
    BY <1>2 DEF Become, MaterializationOK
  <2> QED BY <1>2, <2>1, <2>2, TypeOf DEF Swap, CallGoes, Become
<1>3. CASE tree' = Moved("temp", "root") /\ Break("undo_root")
  <2>1. CallOK' /\ CallGoes("undo_root", call.moved, call.faults, call.interrupts + 1)
    BY <1>3, CallMoves DEF Stages, Ends
  <2>2. tree' \in [Places -> Contents] /\ Become(tree["temp"], Nothing, tree["backup"])
    BY <1>3, TreeMoves DEF Places, Become
  <2> QED BY <1>3, <2>1, <2>2, TypeOf DEF Swap, CallGoes, Become
<1> QED BY <1>1, <1>2, <1>3 DEF Swap

(* The removals: whole, not at all, in part. *)
LEMMA RemovalCases ==
  ASSUME NEW place, NEW next, RemoveTree(place, next)
  PROVE  \/ tree' = [tree EXCEPT ![place] = Nothing] /\ Goto(next)
         \/ tree[place] # Nothing /\ UNCHANGED tree /\ Stumble("raised")
         \/ tree[place] # Nothing /\ tree' = [tree EXCEPT ![place] = Partial] /\ Stumble("raised")
         \/ tree[place] # Nothing /\ tree' = [tree EXCEPT ![place] = Partial] /\ Break("raised")
BY DEF RemoveTree

LEMMA UndoRootKeeps == ASSUME MInv, UndoRoot PROVE MInv'
<1> USE DEF MInv, OldOrNew, NothingIsLost, RootIsWhole, EndsClean, WrittenSoFar, Undoing,
            Unmoved, Holds, Before, Troubles, Smooth, NoTree, Nothing, Partial
<1> USE CallTypes
<1>1. CASE call.moved /\ tree' = [tree EXCEPT !["root"] = Nothing] /\ Goto("undo_backup")
  <2>1. CallOK' /\ CallGoes("undo_backup", call.moved, call.faults, call.interrupts)
    BY <1>1, CallMoves DEF Stages, Ends
  <2>2. tree' \in [Places -> Contents] /\ Become(Nothing, tree["temp"], tree["backup"])
    BY <1>1, TreeMoves DEF Places, Contents
  <2> QED BY <1>1, <2>1, <2>2, TypeOf DEF UndoRoot, CallGoes, Become
<1>2. CASE call.moved /\ tree["root"] # Nothing /\ UNCHANGED tree /\ Stumble("raised")
  <2>1. CallOK' /\ CallGoes("raised", call.moved, call.faults + 1, call.interrupts)
    BY <1>2, CallMoves DEF Stages, Ends
  <2>2. tree' \in [Places -> Contents] /\ Become(tree["root"], tree["temp"], tree["backup"])
    BY <1>2 DEF Become, MaterializationOK
  <2> QED BY <1>2, <2>1, <2>2, TypeOf DEF UndoRoot, CallGoes, Become
<1>3. CASE call.moved /\ tree["root"] # Nothing /\ tree' = [tree EXCEPT !["root"] = Partial] /\ Stumble("raised")
  <2>1. CallOK' /\ CallGoes("raised", call.moved, call.faults + 1, call.interrupts)
    BY <1>3, CallMoves DEF Stages, Ends
  <2>2. tree' \in [Places -> Contents] /\ Become(Partial, tree["temp"], tree["backup"])
    BY <1>3, TreeMoves DEF Places, Contents
  <2> QED BY <1>3, <2>1, <2>2, TypeOf DEF UndoRoot, CallGoes, Become
<1>4. CASE call.moved /\ tree["root"] # Nothing /\ tree' = [tree EXCEPT !["root"] = Partial] /\ Break("raised")
  <2>1. CallOK' /\ CallGoes("raised", call.moved, call.faults, call.interrupts + 1)
    BY <1>4, CallMoves DEF Stages, Ends
  <2>2. tree' \in [Places -> Contents] /\ Become(Partial, tree["temp"], tree["backup"])
    BY <1>4, TreeMoves DEF Places, Contents
  <2> QED BY <1>4, <2>1, <2>2, TypeOf DEF UndoRoot, CallGoes, Become
<1>5. CASE ~call.moved /\ UNCHANGED tree /\ Goto("undo_backup")
  <2>1. CallOK' /\ CallGoes("undo_backup", call.moved, call.faults, call.interrupts)
    BY <1>5, CallMoves DEF Stages, Ends
  <2>2. tree' \in [Places -> Contents] /\ Become(tree["root"], tree["temp"], tree["backup"])
    BY <1>5 DEF Become, MaterializationOK
  <2> QED BY <1>5, <2>1, <2>2, TypeOf DEF UndoRoot, CallGoes, Become
<1> QED BY <1>1, <1>2, <1>3, <1>4, <1>5, RemovalCases DEF UndoRoot

LEMMA UndoBackupKeeps == ASSUME MInv, UndoBackup PROVE MInv'
<1> USE DEF MInv, OldOrNew, NothingIsLost, RootIsWhole, EndsClean, WrittenSoFar, Undoing,
            Unmoved, Holds, Before, Troubles, Smooth, NoTree, Nothing, Partial
<1> USE CallTypes
<1>1. CASE call.moved /\ tree["backup"] # Nothing /\ tree' = Moved("backup", "root") /\ Goto("undo_temp")
  <2>1. CallOK' /\ CallGoes("undo_temp", call.moved, call.faults, call.interrupts)
    BY <1>1, CallMoves DEF Stages, Ends
  <2>2. tree' \in [Places -> Contents] /\ Become(tree["backup"], tree["temp"], Nothing)
    BY <1>1, TreeMoves DEF Places, Become
  <2> QED BY <1>1, <2>1, <2>2, TypeOf DEF UndoBackup, CallGoes, Become
<1>2. CASE call.moved /\ tree["backup"] # Nothing /\ UNCHANGED tree /\ Stumble("raised")
  <2>1. CallOK' /\ CallGoes("raised", call.moved, call.faults + 1, call.interrupts)
    BY <1>2, CallMoves DEF Stages, Ends
  <2>2. tree' \in [Places -> Contents] /\ Become(tree["root"], tree["temp"], tree["backup"])
    BY <1>2 DEF Become, MaterializationOK
  <2> QED BY <1>2, <2>1, <2>2, TypeOf DEF UndoBackup, CallGoes, Become
<1>3. CASE ~(call.moved /\ tree["backup"] # Nothing) /\ UNCHANGED tree /\ Goto("undo_temp")
  <2>1. CallOK' /\ CallGoes("undo_temp", call.moved, call.faults, call.interrupts)
    BY <1>3, CallMoves DEF Stages, Ends
  <2>2. tree' \in [Places -> Contents] /\ Become(tree["root"], tree["temp"], tree["backup"])
    BY <1>3 DEF Become, MaterializationOK
  <2> QED BY <1>3, <2>1, <2>2, TypeOf DEF UndoBackup, CallGoes, Become
<1> QED BY <1>1, <1>2, <1>3 DEF UndoBackup

LEMMA UndoTempKeeps == ASSUME MInv, UndoTemp PROVE MInv'
<1> USE DEF MInv, OldOrNew, NothingIsLost, RootIsWhole, EndsClean, WrittenSoFar, Undoing,
            Unmoved, Holds, Before, Troubles, Smooth, NoTree, Nothing, Partial
<1> USE CallTypes
<1>1. CASE tree' = [tree EXCEPT !["temp"] = Nothing] /\ Goto("raised")
  <2>1. CallOK' /\ CallGoes("raised", call.moved, call.faults, call.interrupts)
    BY <1>1, CallMoves DEF Stages, Ends
  <2>2. tree' \in [Places -> Contents] /\ Become(tree["root"], Nothing, tree["backup"])
    BY <1>1, TreeMoves DEF Places, Contents
  <2> QED BY <1>1, <2>1, <2>2, TypeOf DEF UndoTemp, CallGoes, Become
<1>2. CASE tree["temp"] # Nothing /\ UNCHANGED tree /\ Stumble("raised")
  <2>1. CallOK' /\ CallGoes("raised", call.moved, call.faults + 1, call.interrupts)
    BY <1>2, CallMoves DEF Stages, Ends
  <2>2. tree' \in [Places -> Contents] /\ Become(tree["root"], tree["temp"], tree["backup"])
    BY <1>2 DEF Become, MaterializationOK
  <2> QED BY <1>2, <2>1, <2>2, TypeOf DEF UndoTemp, CallGoes, Become
<1>3. CASE tree["temp"] # Nothing /\ tree' = [tree EXCEPT !["temp"] = Partial] /\ Stumble("raised")
  <2>1. CallOK' /\ CallGoes("raised", call.moved, call.faults + 1, call.interrupts)
    BY <1>3, CallMoves DEF Stages, Ends
  <2>2. tree' \in [Places -> Contents] /\ Become(tree["root"], Partial, tree["backup"])
    BY <1>3, TreeMoves DEF Places, Contents
  <2> QED BY <1>3, <2>1, <2>2, TypeOf DEF UndoTemp, CallGoes, Become
<1>4. CASE tree["temp"] # Nothing /\ tree' = [tree EXCEPT !["temp"] = Partial] /\ Break("raised")
  <2>1. CallOK' /\ CallGoes("raised", call.moved, call.faults, call.interrupts + 1)
    BY <1>4, CallMoves DEF Stages, Ends
  <2>2. tree' \in [Places -> Contents] /\ Become(tree["root"], Partial, tree["backup"])
    BY <1>4, TreeMoves DEF Places, Contents
  <2> QED BY <1>4, <2>1, <2>2, TypeOf DEF UndoTemp, CallGoes, Become
<1> QED BY <1>1, <1>2, <1>3, <1>4, RemovalCases DEF UndoTemp

LEMMA CleanKeeps == ASSUME MInv, Clean PROVE MInv'
<1> USE DEF MInv, OldOrNew, NothingIsLost, RootIsWhole, EndsClean, WrittenSoFar, Undoing,
            Unmoved, Holds, Before, Troubles, Smooth, NoTree, Nothing, Partial
<1> USE CallTypes
<1>1. CASE tree' = [tree EXCEPT !["backup"] = Nothing] /\ Goto("returned")
  <2>1. CallOK' /\ CallGoes("returned", call.moved, call.faults, call.interrupts)
    BY <1>1, CallMoves DEF Stages, Ends
  <2>2. tree' \in [Places -> Contents] /\ Become(tree["root"], tree["temp"], Nothing)
    BY <1>1, TreeMoves DEF Places, Contents
  <2>3. tree' = [NoTree EXCEPT !["root"] = "new"]
    <3>1. \A p \in Places : tree'[p] = [NoTree EXCEPT !["root"] = "new"][p]
      BY <2>2 DEF Clean, Become, Places
    <3> QED BY <2>2, <3>1
  <2> QED BY <1>1, <2>1, <2>2, <2>3, TypeOf DEF Clean, CallGoes, Become
<1>2. CASE tree["backup"] # Nothing /\ UNCHANGED tree /\ Stumble("raised")
  <2>1. CallOK' /\ CallGoes("raised", call.moved, call.faults + 1, call.interrupts)
    BY <1>2, CallMoves DEF Stages, Ends
  <2>2. tree' \in [Places -> Contents] /\ Become(tree["root"], tree["temp"], tree["backup"])
    BY <1>2 DEF Become, MaterializationOK
  <2> QED BY <1>2, <2>1, <2>2, TypeOf DEF Clean, CallGoes, Become
<1>3. CASE tree["backup"] # Nothing /\ tree' = [tree EXCEPT !["backup"] = Partial] /\ Stumble("raised")
  <2>1. CallOK' /\ CallGoes("raised", call.moved, call.faults + 1, call.interrupts)
    BY <1>3, CallMoves DEF Stages, Ends
  <2>2. tree' \in [Places -> Contents] /\ Become(tree["root"], tree["temp"], Partial)
    BY <1>3, TreeMoves DEF Places, Contents
  <2> QED BY <1>3, <2>1, <2>2, TypeOf DEF Clean, CallGoes, Become
<1>4. CASE tree["backup"] # Nothing /\ tree' = [tree EXCEPT !["backup"] = Partial] /\ Break("raised")
  <2>1. CallOK' /\ CallGoes("raised", call.moved, call.faults, call.interrupts + 1)
    BY <1>4, CallMoves DEF Stages, Ends
  <2>2. tree' \in [Places -> Contents] /\ Become(tree["root"], tree["temp"], Partial)
    BY <1>4, TreeMoves DEF Places, Contents
  <2> QED BY <1>4, <2>1, <2>2, TypeOf DEF Clean, CallGoes, Become
<1> QED BY <1>1, <1>2, <1>3, <1>4, RemovalCases DEF Clean

LEMMA InterruptKeeps == ASSUME MInv, Interrupt PROVE MInv'
<1> USE DEF MInv, OldOrNew, NothingIsLost, RootIsWhole, EndsClean, WrittenSoFar, Undoing,
            Unmoved, Holds, Before, Troubles, Smooth, NoTree, Nothing, Partial
<1> USE CallTypes
<1>1. CASE call.at \notin Ends /\ UNCHANGED tree /\ Break("raised")
  <2>1. CallOK' /\ CallGoes("raised", call.moved, call.faults, call.interrupts + 1)
    BY <1>1, CallMoves DEF Stages, Ends
  <2>2. tree' \in [Places -> Contents] /\ Become(tree["root"], tree["temp"], tree["backup"])
    BY <1>1 DEF Become, MaterializationOK
  <2> QED BY <1>1, <2>1, <2>2, TypeOf DEF Interrupt, CallGoes, Become
<1>2. CASE call.at = "write" /\ UNCHANGED tree /\ Break("undo_temp")
  <2>1. CallOK' /\ CallGoes("undo_temp", call.moved, call.faults, call.interrupts + 1)
    BY <1>2, CallMoves DEF Stages, Ends
  <2>2. tree' \in [Places -> Contents] /\ Become(tree["root"], tree["temp"], tree["backup"])
    BY <1>2 DEF Become, MaterializationOK
  <2> QED BY <1>2, <2>1, <2>2, TypeOf DEF Interrupt, CallGoes, Become
<1>3. CASE call.at \in {"look", "place_backup", "clear_backup", "keep", "swap"} /\ UNCHANGED tree /\ Break("undo_root")
  <2>1. CallOK' /\ CallGoes("undo_root", call.moved, call.faults, call.interrupts + 1)
    BY <1>3, CallMoves DEF Stages, Ends
  <2>2. tree' \in [Places -> Contents] /\ Become(tree["root"], tree["temp"], tree["backup"])
    BY <1>3 DEF Become, MaterializationOK
  <2> QED BY <1>3, <2>1, <2>2, TypeOf DEF Interrupt, CallGoes, Become
<1> QED BY <1>1, <1>2, <1>3 DEF Interrupt

LEMMA BeginKeeps ==
  ASSUME NEW existing \in {Nothing, "old"}, NEW collides, BeginMaterialize(existing, collides)
  PROVE  MInv'
<1> DEFINE had == existing # Nothing
           at == IF collides THEN "refused" ELSE "make_temp"
<1>1. call' = [at |-> at, moved |-> FALSE, had |-> had, faults |-> 0, interrupts |-> 0]
  BY DEF BeginMaterialize, NoCall
<1>2. tree' \in [Places -> Contents] /\ Become(existing, Nothing, Nothing)
  BY DEF BeginMaterialize, NoTree, Places, Contents, Become, Nothing
<1>3. at \in {"refused", "make_temp"} /\ had \in BOOLEAN
  OBVIOUS
<1>4. existing = IF had THEN "old" ELSE Nothing
  OBVIOUS
<1> HIDE DEF at, had
<1>5. /\ CallOK'
      /\ call'.at = at /\ call'.moved = FALSE /\ call'.had = had
      /\ call'.faults = 0 /\ call'.interrupts = 0
  BY <1>1, <1>3, MaterializationAssumption DEF CallOK, Stages, Ends
<1> QED
  BY <1>2, <1>3, <1>4, <1>5, TypeOf
  DEF MInv, OldOrNew, NothingIsLost, RootIsWhole, EndsClean, WrittenSoFar, Undoing, Unmoved,
      Holds, Before, Troubles, Smooth, NoTree, Nothing, Partial, Become

LEMMA FreshCall ==
  /\ tree = NoTree /\ call = NoCall => MInv
  /\ tree' = NoTree /\ call' = NoCall => MInv'
<1> USE MaterializationAssumption
<1>1. /\ NoTree \in [Places -> Contents]
      /\ NoTree["root"] = Nothing /\ NoTree["temp"] = Nothing /\ NoTree["backup"] = Nothing
  <2>1. Nothing \in Contents
    BY DEF Contents
  <2> HIDE DEF Nothing
  <2> QED BY <2>1 DEF NoTree, Places
<1>2. /\ NoCall \in [at : Stages, moved : BOOLEAN, had : BOOLEAN,
                     faults : 0..MaxDiskFaults, interrupts : 0..MaxCtrlC]
      /\ NoCall.at = "idle" /\ NoCall.faults = 0 /\ NoCall.interrupts = 0
      /\ NoCall.moved = FALSE /\ NoCall.had = FALSE
  BY DEF NoCall, Stages, Ends
<1> USE DEF MInv, OldOrNew, MaterializationOK, NothingIsLost, RootIsWhole, EndsClean,
            WrittenSoFar, Undoing, Unmoved, Holds, Before, Troubles, Smooth, Places, Ends,
            Nothing, Partial
<1>3. tree = NoTree /\ call = NoCall => MInv
  <2> SUFFICES ASSUME tree = NoTree, call = NoCall PROVE MInv
    OBVIOUS
  <2>1. MaterializationOK
    BY <1>1, <1>2 DEF Stages
  <2> QED BY <1>1, <1>2, <2>1
<1>4. tree' = NoTree /\ call' = NoCall => MInv'
  <2> SUFFICES ASSUME tree' = NoTree, call' = NoCall PROVE MInv'
    OBVIOUS
  <2>1. MaterializationOK'
    BY <1>1, <1>2 DEF Stages
  <2> QED BY <1>1, <1>2, <2>1
<1> QED BY <1>3, <1>4

LEMMA MaterializationStep == MInv /\ [Next]_vars => MInv'
<1> SUFFICES ASSUME MInv, [Next]_vars PROVE MInv'
  OBVIOUS
<1>1. CASE MaterializeStep
  BY <1>1, MakeTempKeeps, WriteFilesKeeps, LookAtRootKeeps, PlaceBackupKeeps, ClearBackupKeeps,
     KeepRootKeeps, SwapKeeps, UndoRootKeeps, UndoBackupKeeps, UndoTempKeeps, CleanKeeps,
     InterruptKeeps DEF MaterializeStep
<1>2. ASSUME NEW existing \in {Nothing, "old"}, Materialize(existing) PROVE MInv'
  BY <1>2, BeginKeeps DEF Materialize
<1>3. CASE Discard
  BY <1>3, FreshCall DEF Discard
<1>4. CASE UNCHANGED <<tree, call>>
  BY <1>4 DEF MInv, OldOrNew, MaterializationOK, NothingIsLost, RootIsWhole, EndsClean,
              WrittenSoFar, Undoing, Unmoved, Holds, Before, Troubles
<1> QED BY <1>1, <1>2, <1>3, <1>4 DEF Next, vars, SamplePrompt, Ask, Propose

(* Whatever fails and whenever Ctrl+C arrives, a file that was there is    *)
(* never lost, root never shows half of a candidate, and a call ends clean *)
(* (materialize_candidate, candidate.py:199).                              *)
THEOREM OldFilesSurvive == Spec => []OldOrNew
<1>1. Init => MInv
  BY FreshCall DEF Init
<1>2. MInv => OldOrNew
  BY DEF MInv
<1> QED BY <1>1, <1>2, MaterializationStep, PTL DEF Spec

(***************************************************************************)
(* What a candidate keeps of its seed.  The sections of an answer are      *)
(* applied one after the other to a draft, by a fold.                      *)
(***************************************************************************)
LEMMA LeastNumber ==
  ASSUME NEW S \in SUBSET Nat, S # {}
  PROVE  \E i \in S : \A j \in S : i <= j
<1>1. IsWellFoundedOn(OpToRel(<, Nat), Nat)
  BY NatLessThanWellFounded
<1>2. PICK i \in S : \A j \in S : ~(<<j, i>> \in OpToRel(<, Nat))
  BY <1>1, WFMin
<1>3. \A j \in S : ~(j < i)
  BY <1>2 DEF OpToRel
<1> QED BY <1>3

LEMMA LargestIs ==
  ASSUME NEW k \in Nat, NEW s \in SUBSET (1 .. k), k \in s
  PROVE  (CHOOSE x \in s : \A y \in s : x >= y) = k
<1> DEFINE x == CHOOSE x \in s : \A y \in s : x >= y
<1>1. \A y \in s : k >= y
  OBVIOUS
<1>2. x \in s /\ \A y \in s : x >= y
  BY <1>1
<1> HIDE DEF x
<1>3. x \in 1 .. k /\ x >= k
  BY <1>2
<1>4. x = k
  BY <1>3
<1> QED BY <1>4 DEF x

(* The fold, on the positions of the sections rather than the sequence.    *)
Applies(f, k, w, sections, how) ==
  f = [s \in SUBSET (1 .. k) |->
        IF s = {} THEN Draft(w)
        ELSE LET x == CHOOSE x \in s : \A y \in s : x >= y
             IN ApplySection(f[s \ {x}], sections[x], how)]

Folded(w, sections, how) ==
  FoldLeft(LAMBDA d, s : ApplySection(d, s, how), Draft(w), sections)

LEMMA FoldApplies ==
  ASSUME NEW w, NEW sections, NEW how, NEW n \in Nat, DOMAIN sections = 1 .. n
  PROVE  Folded(w, sections, how)
          = (CHOOSE f : Applies(f, n, w, sections, how))[1 .. n]
BY DEF Folded, FoldLeft, MapThenFoldSet, Applies, Max

LEMMA FoldExists ==
  ASSUME NEW w, NEW sections, NEW how, NEW n \in Nat
  PROVE  \E f : Applies(f, n, w, sections, how)
<1> DEFINE bad == {k \in Nat : ~ \E f : Applies(f, k, w, sections, how)}
<1> SUFFICES ASSUME bad # {} PROVE FALSE
  OBVIOUS
<1>1. PICK k \in bad : \A j \in bad : k <= j
  BY LeastNumber
<1>2. CASE k = 0
  <2> DEFINE f == [s \in SUBSET (1 .. 0) |-> Draft(w)]
  <2>1. \A s \in SUBSET (1 .. 0) : s = {}
    OBVIOUS
  <2>2. Applies(f, 0, w, sections, how)
    BY <2>1 DEF Applies
  <2> QED BY <1>1, <1>2, <2>2
<1>3. CASE k > 0
  <2>1. k - 1 \in Nat /\ k - 1 \notin bad
    BY <1>1, <1>3
  <2>2. PICK f : Applies(f, k - 1, w, sections, how)
    BY <2>1
  <2> DEFINE g == [s \in SUBSET (1 .. k) |->
                     IF k \in s THEN ApplySection(f[s \ {k}], sections[k], how) ELSE f[s]]
             h == [s \in SUBSET (1 .. k) |->
                     IF s = {} THEN Draft(w)
                     ELSE LET x == CHOOSE x \in s : \A y \in s : x >= y
                          IN ApplySection(g[s \ {x}], sections[x], how)]
  <2>3. ASSUME NEW s \in SUBSET (1 .. k) PROVE g[s] = h[s]
    <3> DEFINE x == CHOOSE x \in s : \A y \in s : x >= y
    <3>1. CASE k \in s
      <4>1. x = k
        BY <1>1, <3>1, LargestIs
      <4>2. s \ {k} \in SUBSET (1 .. k) /\ k \notin s \ {k}
        OBVIOUS
      <4>3. g[s \ {k}] = f[s \ {k}]
        BY <4>2
      <4>4. h[s] = ApplySection(g[s \ {x}], sections[x], how)
        BY <3>1
      <4> HIDE DEF x, h
      <4> QED BY <3>1, <4>1, <4>3, <4>4
    <3>2. CASE k \notin s
      <4>1. s \in SUBSET (1 .. (k - 1))
        BY <1>1, <3>2
      <4>2. g[s] = f[s]
        BY <3>2
      <4>3. CASE s = {}
        BY <2>2, <3>2, <4>1, <4>2, <4>3 DEF Applies
      <4>4. CASE s # {}
        <5>1. f[s] = ApplySection(f[s \ {x}], sections[x], how)
          BY <2>2, <4>1, <4>4 DEF Applies
        <5>2. s \ {x} \in SUBSET (1 .. k) /\ k \notin s \ {x}
          BY <3>2
        <5>3. g[s \ {x}] = f[s \ {x}]
          BY <5>2
        <5>4. h[s] = ApplySection(g[s \ {x}], sections[x], how)
          BY <4>4
        <5> HIDE DEF x, g, h
        <5> QED BY <4>2, <5>1, <5>3, <5>4
      <4> QED BY <4>3, <4>4
    <3> QED BY <3>1, <3>2
  <2>4. g = h
    <3>1. DOMAIN g = SUBSET (1 .. k) /\ g = [s \in SUBSET (1 .. k) |-> g[s]]
      OBVIOUS
    <3>2. h = [s \in SUBSET (1 .. k) |-> h[s]]
      OBVIOUS
    <3> HIDE DEF g, h
    <3> QED BY <2>3, <3>1, <3>2
  <2>5. Applies(g, k, w, sections, how)
    <3> HIDE DEF g
    <3> QED BY <2>4 DEF Applies
  <2> QED BY <1>1, <2>5
<1> QED BY <1>1, <1>2, <1>3

(* The drafts after each section. *)
LEMMA Drafts ==
  ASSUME NEW w, NEW sections, NEW how, NEW n \in Nat, DOMAIN sections = 1 .. n
  PROVE  \E after :
           /\ after[0] = Draft(w)
           /\ \A k \in 1 .. n : after[k] = ApplySection(after[k - 1], sections[k], how)
           /\ after[n] = Folded(w, sections, how)
<1>1. PICK f : Applies(f, n, w, sections, how) /\ f = CHOOSE g : Applies(g, n, w, sections, how)
  BY FoldExists
<1> DEFINE after == [k \in 0 .. n |-> f[1 .. k]]
<1>2. after[0] = Draft(w)
  <2>1. 1 .. 0 = {} /\ {} \in SUBSET (1 .. n)
    OBVIOUS
  <2>2. f[{}] = Draft(w)
    BY <1>1, <2>1 DEF Applies
  <2> QED BY <2>1, <2>2
<1>3. ASSUME NEW k \in 1 .. n
      PROVE  after[k] = ApplySection(after[k - 1], sections[k], how)
  <2> DEFINE s == 1 .. k
             x == CHOOSE x \in s : \A y \in s : x >= y
  <2>1. s \in SUBSET (1 .. n) /\ s # {} /\ k \in s
    <3>1. k \in Nat /\ k \in s /\ s \in SUBSET (1 .. k)
      OBVIOUS
    <3> HIDE DEF s
    <3> QED BY <3>1, LargestIs
  <2>2. x = k
    BY <2>1, LargestIs
  <2>3. s \ {k} = 1 .. (k - 1)
    OBVIOUS
  <2>4. f[s] = ApplySection(f[s \ {x}], sections[x], how)
    BY <1>1, <2>1 DEF Applies
  <2>5. after[k] = f[s] /\ after[k - 1] = f[1 .. (k - 1)]
    OBVIOUS
  <2> HIDE DEF s, x, after
  <2> QED BY <2>2, <2>3, <2>4, <2>5
<1>4. after[n] = f[1 .. n]
  OBVIOUS
<1>5. after[n] = Folded(w, sections, how)
  BY <1>1, <1>4, FoldApplies
<1> HIDE DEF after
<1> QED BY <1>2, <1>3, <1>5

(* The same locked members, and as they were. *)
KeepsLocked(old, new) ==
  /\ \A p \in DOMAIN old : old[p].policy # "llm_editable" =>
       p \in DOMAIN new /\ new[p] = old[p]
  /\ \A p \in DOMAIN new : new[p].policy # "llm_editable" =>
       p \in DOMAIN old /\ new[p] = old[p]

DraftOK(w, d) ==
  /\ DOMAIN d = {"files", "statics", "primary", "changed", "error"}
  /\ d.changed \in BOOLEAN
  /\ KeepsLocked(w.statics, d.statics)

LEMMA FailedKeeps ==
  ASSUME NEW w, NEW d, DraftOK(w, d), NEW error
  PROVE  DraftOK(w, Failed(d, error))
BY DEF DraftOK, Failed

(* Every section but STATIC leaves the static members alone, and STATIC    *)
(* sets one that is not locked.                                            *)
LEMMA SectionKeeps ==
  ASSUME NEW w, NEW d, DraftOK(w, d), NEW s, NEW how,
         \A p \in SectionPaths(s) \cap DOMAIN w.statics :
           w.statics[p].policy = "llm_editable" /\ s.op = "static"
  PROVE  DraftOK(w, ApplySection(d, s, how))
<1>1. CASE s.op = "static"
  <2> DEFINE known == s.path \in DOMAIN d.statics
             new == [policy |-> IF known THEN d.statics[s.path].policy ELSE "llm_editable",
                     content |-> s.content, bytes |-> s.bytes, origin |-> "generated"]
             after == [d EXCEPT !.statics = Put(@, s.path, new),
                                !.changed = @ \/ ~known \/ d.statics[s.path] # new]
  <2>1. s.path \in SectionPaths(s)
    BY DEF SectionPaths
  <2>2. known => d.statics[s.path].policy = "llm_editable"
    BY <2>1 DEF DraftOK, KeepsLocked
  <2>3. new.policy = "llm_editable"
    BY <2>2
  <2>4. /\ DOMAIN after = {"files", "statics", "primary", "changed", "error"}
        /\ after.changed \in BOOLEAN
        /\ after.statics = Put(d.statics, s.path, new)
    BY DEF DraftOK
  <2> HIDE DEF new, after
  <2>5. KeepsLocked(w.statics, after.statics)
    BY <2>1, <2>3, <2>4 DEF DraftOK, KeepsLocked, Put
  <2>6. DraftOK(w, after)
    BY <2>4, <2>5 DEF DraftOK
  <2>7. SetStatic(d, s) = after \/ \E e : SetStatic(d, s) = Failed(d, e)
    <3>1. SetStatic(d, s) =
            CASE s.path \in DOMAIN d.files -> Failed(d, "target_exists")
              [] s.path \notin DOMAIN d.files /\ s.content = None ->
                   Failed(d, "blank_static_content")
              [] s.path \notin DOMAIN d.files /\ s.content # None /\ s.bytes > Limits.staticBytes ->
                   Failed(d, "content_exceeds_limit")
              [] OTHER -> after
      BY DEF SetStatic, after, new
    <3>2. CASE s.path \in DOMAIN d.files
      BY <3>1, <3>2
    <3>3. CASE s.path \notin DOMAIN d.files /\ s.content = None
      BY <3>1, <3>3
    <3>4. CASE s.path \notin DOMAIN d.files /\ s.content # None /\ s.bytes > Limits.staticBytes
      BY <3>1, <3>4
    <3>5. CASE s.path \notin DOMAIN d.files /\ s.content # None /\ ~(s.bytes > Limits.staticBytes)
      BY <3>1, <3>5
    <3> QED BY <3>2, <3>3, <3>4, <3>5
  <2>8. DraftOK(w, SetStatic(d, s))
    BY <2>6, <2>7, FailedKeeps
  <2>9. ApplySection(d, s, how) = d \/ ApplySection(d, s, how) = SetStatic(d, s)
    BY <1>1 DEF ApplySection
  <2> QED BY <2>8, <2>9
<1>2. CASE s.op # "static"
  <2> DEFINE next == ApplySection(d, s, how)
  <2>1. ASSUME NEW edited PROVE DraftOK(w, Edited(d, s.path, edited))
    <3> DEFINE files == Put(d.files, s.path, edited.code)
               changed == d.changed \/ s.path \notin DOMAIN d.files
                                    \/ edited.code # d.files[s.path]
    <3>1. Edited(d, s.path, edited) =
            IF edited.error # None THEN Failed(d, edited.error)
            ELSE [d EXCEPT !.files = files, !.changed = changed]
      BY DEF Edited
    <3>2. changed \in BOOLEAN
      OBVIOUS
    <3> HIDE DEF files, changed
    <3>3. DraftOK(w, [d EXCEPT !.files = files, !.changed = changed])
      BY <3>2 DEF DraftOK
    <3> QED BY <3>1, <3>3, FailedKeeps
  <2>2. DraftOK(w, EditFile(d, s, how))
    BY <2>1 DEF EditFile
  <2>3. DraftOK(w, DeleteFile(d, s))
    BY FailedKeeps DEF DraftOK, DeleteFile
  <2>4. DraftOK(w, MoveFile(d, s))
    BY FailedKeeps DEF DraftOK, MoveFile
  <2>5. \/ next = d \/ next = DeleteFile(d, s) \/ next = MoveFile(d, s)
        \/ next = EditFile(d, s, how)
    BY <1>2 DEF ApplySection
  <2> HIDE DEF next
  <2>6. DraftOK(w, next)
    BY <2>2, <2>3, <2>4, <2>5
  <2> QED BY <2>6 DEF next
<1> QED BY <1>1, <1>2

LEMMA FoldKeeps ==
  ASSUME NEW w, NEW sections, NEW how, NEW n \in Nat, DOMAIN sections = 1 .. n,
         ~TouchesStaticMember(sections, w.statics)
  PROVE  DraftOK(w, Folded(w, sections, how))
<1>1. PICK after :
        /\ after[0] = Draft(w)
        /\ \A k \in 1 .. n : after[k] = ApplySection(after[k - 1], sections[k], how)
        /\ after[n] = Folded(w, sections, how)
  BY Drafts
<1>2. DraftOK(w, after[0])
  BY <1>1 DEF DraftOK, Draft, KeepsLocked
<1>3. ASSUME NEW k \in 1 .. n, DraftOK(w, after[k - 1]) PROVE DraftOK(w, after[k])
  <2>1. \A p \in SectionPaths(sections[k]) \cap DOMAIN w.statics :
          w.statics[p].policy = "llm_editable" /\ sections[k].op = "static"
    BY DEF TouchesStaticMember
  <2>2. DraftOK(w, ApplySection(after[k - 1], sections[k], how))
    BY <1>3, <2>1, SectionKeeps
  <2> QED BY <1>1, <2>2
<1> DEFINE bad == {k \in 0 .. n : ~DraftOK(w, after[k])}
<1>4. bad = {}
  <2> SUFFICES ASSUME bad # {} PROVE FALSE
    OBVIOUS
  <2>1. PICK k \in bad : \A j \in bad : k <= j
    <3> HIDE DEF DraftOK
    <3>1. bad \in SUBSET Nat
      OBVIOUS
    <3> HIDE DEF bad
    <3> QED BY <3>1, LeastNumber
  <2>2. k # 0
    BY <1>2, <2>1
  <2>3. k \in 1 .. n /\ k - 1 \in 0 .. n /\ ~(k <= k - 1)
    BY <2>1, <2>2
  <2>4. DraftOK(w, after[k - 1])
    BY <2>1, <2>3
  <2> QED BY <1>3, <2>1, <2>3, <2>4
<1>5. DraftOK(w, after[n])
  BY <1>4
<1> QED BY <1>1, <1>5

(***************************************************************************)
(* The whole answer.                                                       *)
(***************************************************************************)
WorkspaceFields == {"files", "primary", "allowed", "statics"}

(* What is true of a child of w, whichever way it was made. *)
GoodChild(w, child) ==
  /\ DOMAIN child = WorkspaceFields
  /\ Constructible(child)
  /\ \A p \in DOMAIN child.files : EvolveError(child.files[p]) = None
  /\ child.allowed = w.allowed
  /\ KeepsLocked(w.statics, child.statics)
  /\ HostPathCollision(child.files, child.statics) => HostPathCollision(w.files, w.statics)

GoodResult(w, result) ==
  result.workspace = w \/ result.error = Raised \/ GoodChild(w, result.workspace)

LEMMA ParentIsGood ==
  ASSUME NEW w, NEW error PROVE GoodResult(w, Parent(w, error))
BY DEF GoodResult, Parent

LEMMA OutcomeIsGood ==
  ASSUME NEW w, NEW d, DraftOK(w, d)
  PROVE  GoodResult(w, Outcome(w, d))
<1> DEFINE new == Assemble(w, d)
<1>1. /\ DOMAIN new = WorkspaceFields
      /\ new.files = d.files /\ new.statics = d.statics /\ new.allowed = w.allowed
  BY DEF Assemble, WorkspaceFields
<1> HIDE DEF new
<1>2. ASSUME ~HostPathCollision(d.files, d.statics), ~MalformedBlocks(d.files),
             Constructible(new)
      PROVE  GoodChild(w, new)
  BY <1>1, <1>2 DEF GoodChild, MalformedBlocks, DraftOK
<1>3. \/ \E e : Outcome(w, d) = Parent(w, e)
      \/ /\ ~HostPathCollision(d.files, d.statics) /\ ~MalformedBlocks(d.files)
         /\ Constructible(new)
         /\ Outcome(w, d) = Child(new)
  <2>1. d.changed \in BOOLEAN
    BY DEF DraftOK
  <2>2. CASE d.error # None
    BY <2>2 DEF Outcome
  <2>3. CASE d.error = None /\ ~d.changed
    BY <2>3 DEF Outcome
  <2>4. CASE d.error = None /\ d.changed
    <3>1. Outcome(w, d) =
            IF HostPathCollision(d.files, d.statics) THEN Parent(w, "host_path_collision")
            ELSE IF MalformedBlocks(d.files) THEN Parent(w, "malformed_evolve_blocks")
            ELSE IF ~Constructible(new) THEN Parent(w, "candidate_workspace_error")
            ELSE Child(new)
      BY <2>4 DEF Outcome, new
    <3> QED BY <3>1
  <2> QED BY <2>1, <2>2, <2>3, <2>4
<1>4. GoodChild(w, new) => GoodResult(w, Child(new))
  BY DEF GoodResult, Child
<1> QED BY <1>2, <1>3, <1>4, ParentIsGood

LEMMA PrimaryKeeps ==
  ASSUME NEW w, NEW d, DraftOK(w, d), NEW sections, NEW old
  PROVE  DraftOK(w, ChoosePrimary(d, sections, old))
<1> DEFINE named == ExplicitPrimary(sections)
           changed == d.changed \/ d.primary # named
           chosen == [d EXCEPT !.primary = named, !.changed = @ \/ d.primary # named]
<1>1. DraftOK(w, chosen)
  <2>1. chosen = [d EXCEPT !.primary = named, !.changed = changed] /\ changed \in BOOLEAN
    OBVIOUS
  <2> HIDE DEF chosen, named, changed
  <2> QED BY <2>1 DEF DraftOK
<1>2. \/ ChoosePrimary(d, sections, old) \in {d, chosen}
      \/ \E e : ChoosePrimary(d, sections, old) = Failed(d, e)
  <2>1. ChoosePrimary(d, sections, old) =
          CASE d.error # None -> d
            [] d.error = None /\ named # None ->
                 IF named \notin DOMAIN d.files THEN Failed(d, "missing_primary") ELSE chosen
            [] OTHER -> IF d.primary = None
                        THEN Failed(d, "primary_deleted_requires_primary") ELSE d
    BY DEF ChoosePrimary
  <2> HIDE DEF named, chosen
  <2>2. CASE d.error # None
    BY <2>1, <2>2
  <2>3. CASE d.error = None /\ named # None
    BY <2>1, <2>3
  <2>4. CASE d.error = None /\ named = None
    BY <2>1, <2>4
  <2> QED BY <2>2, <2>3, <2>4
<1> HIDE DEF chosen
<1> QED BY <1>1, <1>2, FailedKeeps

LEMMA SectionsAreGood ==
  ASSUME NEW w, NEW sections, NEW how, NEW n \in Nat, DOMAIN sections = 1 .. n
  PROVE  GoodResult(w, ApplySections(w, sections, how))
<1> DEFINE drafted == ChoosePrimary(Folded(w, sections, how), sections, w.primary)
<1>1. ~TouchesStaticMember(sections, w.statics) => DraftOK(w, drafted)
  BY FoldKeeps, PrimaryKeeps
<1>2. \/ \E e : ApplySections(w, sections, how) = Parent(w, e)
      \/ /\ ~TouchesStaticMember(sections, w.statics)
         /\ ApplySections(w, sections, how) = Outcome(w, drafted)
  BY DEF ApplySections, Folded
<1> QED BY <1>1, <1>2, ParentIsGood, OutcomeIsGood

LEMMA PrimaryIsGood ==
  ASSUME NEW w, DOMAIN w = WorkspaceFields, NEW applied
  PROVE  GoodResult(w, PrimaryOutcome(w, applied))
<1> DEFINE child == [w EXCEPT !.files[w.primary] = applied.code]
<1>1. /\ DOMAIN child = WorkspaceFields
      /\ child.statics = w.statics /\ child.allowed = w.allowed
      /\ child.files = [w.files EXCEPT ![w.primary] = applied.code]
  BY DEF WorkspaceFields
<1>2. DOMAIN child.files = DOMAIN w.files
  BY <1>1
<1> HIDE DEF child
<1>3. HostPathCollision(child.files, child.statics) = HostPathCollision(w.files, w.statics)
  BY <1>1, <1>2 DEF HostPathCollision
<1>4. ASSUME ~MalformedBlocks(child.files), Constructible(child) PROVE GoodChild(w, child)
  BY <1>1, <1>3, <1>4 DEF GoodChild, MalformedBlocks, KeepsLocked
<1>5. \/ \E e : PrimaryOutcome(w, applied) = Parent(w, e)
      \/ /\ ~MalformedBlocks(child.files) /\ Constructible(child)
         /\ PrimaryOutcome(w, applied) = Child(child)
  BY DEF PrimaryOutcome, child
<1>6. GoodChild(w, child) => GoodResult(w, Child(child))
  BY DEF GoodResult, Child
<1> QED BY <1>4, <1>5, <1>6, ParentIsGood

LEMMA MutationIsGood ==
  ASSUME NEW w, DOMAIN w = WorkspaceFields, NEW answer \in Answers, NEW how
  PROVE  GoodResult(w, ApplyWorkspaceMutation(w, answer, how))
<1>1. \E n \in Nat : DOMAIN answer.sections = 1 .. n
  BY ProposalAssumption
<1>2. GoodResult(w, ApplySections(w, answer.sections, how))
  BY <1>1, SectionsAreGood
<1>3. GoodResult(w, ApplyToPrimary(w, answer.payload, how))
  BY PrimaryIsGood DEF ApplyToPrimary
<1> QED BY <1>2, <1>3, ParentIsGood DEF ApplyWorkspaceMutation

LEMMA LockedKept ==
  ASSUME NEW v, NEW w, KeepsLocked(v.statics, w.statics)
  PROVE  Restrict(w.statics, Locked(w)) = Restrict(v.statics, Locked(v))
<1>1. Locked(w) = Locked(v)
  BY DEF KeepsLocked, Locked
<1>2. \A p \in Locked(w) : w.statics[p] = v.statics[p]
  BY DEF KeepsLocked, Locked
<1> QED BY <1>1, <1>2 DEF Restrict

(* The youngest candidate is a good child of the seed, and the run has     *)
(* room for it.                                                            *)
LineInv ==
  /\ GoodChild(seed, workspace)
  /\ WithinWorkspaceLimits(workspace.files, workspace.statics, ConfigLimits)

LEMMA LineInvIsSound == LineInv => LineageSound
BY LockedKept DEF LineInv, GoodChild, LineageSound

LEMMA InitLine == Init => LineInv
<1> SUFFICES ASSUME Init PROVE LineInv
  OBVIOUS
<1>1. seed \in Seeds /\ SeedAccepted(seed) /\ workspace = seed
  BY DEF Init
<1>2. KeepsLocked(seed.statics, seed.statics)
  BY DEF KeepsLocked
<1> QED
  BY <1>1, <1>2, ProposalAssumption DEF LineInv, GoodChild, SeedAccepted, WorkspaceFields

LEMMA GoodChildren ==
  ASSUME NEW u, NEW v, NEW w, GoodChild(u, v), GoodChild(v, w)
  PROVE  GoodChild(u, w)
BY DEF GoodChild, KeepsLocked

LEMMA StepLine == LineInv /\ [Next]_vars => LineInv'
<1> SUFFICES ASSUME LineInv, [Next]_vars PROVE LineInv'
  OBVIOUS
<1>1. ASSUME NEW answer \in Answers, Propose(answer) PROVE LineInv'
  <2> DEFINE result == ApplyWorkspaceMutation(workspace, answer, mode)
  <2>1. seed' = seed /\ BecomeCandidate(result)
    BY <1>1 DEF Propose
  <2>2. GoodResult(workspace, result)
    BY MutationIsGood DEF LineInv, GoodChild
  <2> HIDE DEF result
  <2>3. CASE workspace' = workspace
    BY <2>1, <2>3 DEF LineInv
  <2>4. CASE workspace' # workspace
    <3>1. /\ result.error # Raised /\ workspace' = result.workspace
          /\ WithinWorkspaceLimits(result.workspace.files, result.workspace.statics, ConfigLimits)
      BY <2>1, <2>4 DEF BecomeCandidate
    <3>2. GoodChild(workspace, workspace')
      BY <2>2, <2>4, <3>1 DEF GoodResult
    <3>3. GoodChild(seed, workspace')
      BY <3>2, GoodChildren DEF LineInv
    <3> QED BY <2>1, <3>1, <3>3 DEF LineInv
  <2> QED BY <2>3, <2>4
<1>2. CASE UNCHANGED <<seed, workspace>>
  BY <1>2 DEF LineInv
<1> QED BY <1>1, <1>2 DEF Next, vars, SamplePrompt, Ask, Materialize, Discard

(* Whatever answers led to it, a candidate can be constructed and the run  *)
(* has room for it, its blocks parse, its locked members are those of the  *)
(* seed, and its paths collide only if the seed's did                      *)
(* (apply_workspace_mutation, candidate.py:1035, loop.py:852).             *)
THEOREM DescentIsSound == Spec => []LineageSound
BY InitLine, StepLine, LineInvIsSound, PTL DEF Spec

(***************************************************************************)
(* How a prompt is packed.  The sections that may be left out have each    *)
(* their place in the order of packing: as many come before a section as   *)
(* matter less, or as little and earlier in the alphabet.                  *)
(***************************************************************************)
OptionalFields == {Fields[i] : i \in OptionalPlaces}
Sooner(priorities, i, j) ==
  \/ priorities[Fields[i]] > priorities[Fields[j]]
  \/ priorities[Fields[i]] = priorities[Fields[j]] /\ i < j
SoonerThan(priorities, j) == {i \in OptionalPlaces : Sooner(priorities, i, j)}
PlacesOf(priorities, n) ==
  CHOOSE i \in OptionalPlaces : Cardinality(SoonerThan(priorities, i)) = n - 1

LEMMA FieldsAre ==
  /\ DOMAIN Fields = 1 .. 11
  /\ \A i, j \in DOMAIN Fields : Fields[i] = Fields[j] => i = j
  /\ \A i \in DOMAIN Fields : Fields[i] \in Range(Fields)
<1>1. DOMAIN Fields = 1 .. 11
  BY DEF Fields
<1>2. \A i, j \in 1 .. 11 : Fields[i] = Fields[j] => i = j
  BY DEF Fields
<1> QED BY <1>1, <1>2 DEF Range

LEMMA OptionalPlacesAre ==
  /\ OptionalPlaces \in SUBSET Nat /\ OptionalPlaces \subseteq DOMAIN Fields
  /\ IsFiniteSet(OptionalPlaces) /\ Cardinality(OptionalPlaces) \in Nat
<1>1. OptionalPlaces \in SUBSET DOMAIN Fields /\ DOMAIN Fields \subseteq Nat
  BY FieldsAre DEF OptionalPlaces
<1>2. IsFiniteSet(DOMAIN Fields)
  <2>1. 1 \in Int /\ 11 \in Int
    OBVIOUS
  <2>2. IsFiniteSet(1 .. 11)
    BY <2>1, FS_Interval
  <2> QED BY <2>2, FieldsAre
<1>3. IsFiniteSet(OptionalPlaces)
  BY <1>1, <1>2, FS_Subset
<1> QED BY <1>1, <1>3, FS_CardinalityType

LEMMA OrderIs ==
  ASSUME NEW priorities
  PROVE  PackingOrder(priorities)
           = [n \in 1 .. Cardinality(OptionalPlaces) |-> Fields[PlacesOf(priorities, n)]]
<1> DEFINE ahead == [i \in OptionalPlaces |-> Cardinality(SoonerThan(priorities, i))]
<1>1. PackingOrder(priorities)
        = [n \in 1 .. Cardinality(OptionalPlaces) |->
             Fields[CHOOSE i \in OptionalPlaces : ahead[i] = n - 1]]
  BY DEF PackingOrder, SortedAt, SoonerThan, Sooner
<1>2. ASSUME NEW n PROVE (CHOOSE i \in OptionalPlaces : ahead[i] = n - 1) = PlacesOf(priorities, n)
  BY DEF PlacesOf
<1> QED BY <1>1, <1>2

LEMMA SoonerCounts ==
  ASSUME NEW priorities \in [Range(Fields) -> Int], NEW i \in OptionalPlaces, NEW j \in OptionalPlaces
  PROVE  /\ Cardinality(SoonerThan(priorities, i)) \in 0 .. Cardinality(OptionalPlaces) - 1
         /\ i # j => Sooner(priorities, i, j) \/ Sooner(priorities, j, i)
         /\ Sooner(priorities, i, j) =>
              Cardinality(SoonerThan(priorities, i)) < Cardinality(SoonerThan(priorities, j))
<1>1. \A k \in OptionalPlaces : k \in Nat /\ priorities[Fields[k]] \in Int
  BY OptionalPlacesAre, FieldsAre
<1>2. i # j => Sooner(priorities, i, j) \/ Sooner(priorities, j, i)
  BY <1>1 DEF Sooner
<1>3. \A k \in OptionalPlaces : ~Sooner(priorities, k, k)
  BY <1>1 DEF Sooner
<1>4. \A k \in OptionalPlaces : Sooner(priorities, k, i) /\ Sooner(priorities, i, j)
        => Sooner(priorities, k, j)
  BY <1>1 DEF Sooner
<1>5. \A k \in OptionalPlaces : /\ SoonerThan(priorities, k) \in SUBSET (OptionalPlaces \ {k})
                                /\ IsFiniteSet(SoonerThan(priorities, k))
                                /\ Cardinality(SoonerThan(priorities, k)) \in Nat
  BY <1>3, OptionalPlacesAre, FS_Subset, FS_CardinalityType DEF SoonerThan
<1>6. Cardinality(SoonerThan(priorities, i)) \in 0 .. Cardinality(OptionalPlaces) - 1
  <2>1. /\ IsFiniteSet(OptionalPlaces \ {i})
        /\ Cardinality(OptionalPlaces \ {i}) = Cardinality(OptionalPlaces) - 1
    BY OptionalPlacesAre, FS_RemoveElement
  <2>2. Cardinality(SoonerThan(priorities, i)) <= Cardinality(OptionalPlaces \ {i})
    BY <1>5, <2>1, FS_Subset
  <2> QED BY <1>5, <2>1, <2>2, OptionalPlacesAre
<1>7. ASSUME Sooner(priorities, i, j)
      PROVE  Cardinality(SoonerThan(priorities, i)) < Cardinality(SoonerThan(priorities, j))
  <2>1. SoonerThan(priorities, i) \in SUBSET SoonerThan(priorities, j)
    BY <1>4, <1>7 DEF SoonerThan
  <2>2. i \in SoonerThan(priorities, j) /\ i \notin SoonerThan(priorities, i)
    BY <1>3, <1>7 DEF SoonerThan
  <2>3. /\ Cardinality(SoonerThan(priorities, i)) <= Cardinality(SoonerThan(priorities, j))
        /\ Cardinality(SoonerThan(priorities, i)) # Cardinality(SoonerThan(priorities, j))
    BY <1>5, <2>1, <2>2, FS_Subset
  <2> QED BY <1>5, <2>3
<1> QED BY <1>2, <1>6, <1>7

LEMMA PlacesAre ==
  ASSUME NEW priorities \in [Range(Fields) -> Int]
  PROVE  /\ \A n \in 1 .. Cardinality(OptionalPlaces) :
              /\ PlacesOf(priorities, n) \in OptionalPlaces
              /\ Cardinality(SoonerThan(priorities, PlacesOf(priorities, n))) = n - 1
         /\ \A i \in OptionalPlaces :
              \E n \in 1 .. Cardinality(OptionalPlaces) : PlacesOf(priorities, n) = i
<1> DEFINE N == Cardinality(OptionalPlaces)
           ahead == [i \in OptionalPlaces |-> Cardinality(SoonerThan(priorities, i))]
<1>1. ahead \in [OptionalPlaces -> 0 .. N - 1]
  BY SoonerCounts
<1>2. \A i, j \in OptionalPlaces : ahead[i] = ahead[j] => i = j
  <2> SUFFICES ASSUME NEW i \in OptionalPlaces, NEW j \in OptionalPlaces, i # j
               PROVE  ahead[i] # ahead[j]
    OBVIOUS
  <2>1. ahead[i] < ahead[j] \/ ahead[j] < ahead[i]
    BY SoonerCounts
  <2> QED BY <1>1, <2>1
<1>3. ahead \in Injection(OptionalPlaces, 0 .. N - 1)
  BY <1>1, <1>2 DEF Injection, IsInjective
<1>4. N \in Nat /\ IsFiniteSet(0 .. N - 1) /\ Cardinality(0 .. N - 1) = N
  <2>1. N \in Nat
    BY OptionalPlacesAre
  <2> HIDE DEF N
  <2> QED BY <2>1, FS_Interval
<1>5. ahead \in Surjection(OptionalPlaces, 0 .. N - 1)
  <2> HIDE DEF ahead
  <2> QED BY <1>3, <1>4, FS_Injection
<1>6. \A m \in 0 .. N - 1 : \E i \in OptionalPlaces : ahead[i] = m
  BY <1>5 DEF Surjection
<1>7. ASSUME NEW n \in 1 .. N
      PROVE  PlacesOf(priorities, n) \in OptionalPlaces /\ ahead[PlacesOf(priorities, n)] = n - 1
  <2>1. n - 1 \in 0 .. N - 1
    BY <1>4
  <2> HIDE DEF N
  <2>2. \E i \in OptionalPlaces : ahead[i] = n - 1
    BY <1>6, <2>1
  <2> QED BY <2>2 DEF PlacesOf
<1>8. ASSUME NEW i \in OptionalPlaces PROVE \E n \in 1 .. N : PlacesOf(priorities, n) = i
  <2>1. ahead[i] + 1 \in 1 .. N /\ (ahead[i] + 1) - 1 = ahead[i]
    BY <1>1, <1>4
  <2>2. /\ PlacesOf(priorities, ahead[i] + 1) \in OptionalPlaces
        /\ ahead[PlacesOf(priorities, ahead[i] + 1)] = ahead[i]
    BY <1>7, <2>1
  <2>3. PlacesOf(priorities, ahead[i] + 1) = i
    BY <1>2, <2>2
  <2> QED BY <2>1, <2>3
<1> QED BY <1>7, <1>8

(* The order of packing goes once through the optional sections, and never *)
(* from one that matters more to one that matters less.                    *)
LEMMA PackingOrderIs ==
  ASSUME NEW priorities \in [Range(Fields) -> Int]
  PROVE  LET order == PackingOrder(priorities)
             N == Cardinality(OptionalPlaces)
         IN /\ N \in Nat /\ DOMAIN order = 1 .. N
            /\ \A n \in 1 .. N : order[n] \in OptionalFields
            /\ \A f \in OptionalFields : \E n \in 1 .. N : order[n] = f
            /\ \A m, n \in 1 .. N : m < n =>
                 order[m] # order[n] /\ priorities[order[n]] <= priorities[order[m]]
<1> DEFINE N == Cardinality(OptionalPlaces)
           order == PackingOrder(priorities)
           place == [n \in 1 .. N |-> PlacesOf(priorities, n)]
<1>1. N \in Nat /\ order = [n \in 1 .. N |-> Fields[place[n]]]
  BY OptionalPlacesAre, OrderIs
<1>2. \A n \in 1 .. N : place[n] \in OptionalPlaces /\ Cardinality(SoonerThan(priorities, place[n])) = n - 1
  BY PlacesAre
<1>3. \A i \in OptionalPlaces : \E n \in 1 .. N : place[n] = i
  BY PlacesAre
<1> HIDE DEF N, order, place
<1>4. ASSUME NEW m \in 1 .. N, NEW n \in 1 .. N, m < n
      PROVE  order[m] # order[n] /\ priorities[order[n]] <= priorities[order[m]]
  <2>1. ~Sooner(priorities, place[n], place[m]) /\ place[m] # place[n]
    BY <1>1, <1>2, <1>4, SoonerCounts
  <2>2. Sooner(priorities, place[m], place[n])
    BY <1>2, <2>1, SoonerCounts
  <2>3. /\ place[m] \in DOMAIN Fields /\ place[n] \in DOMAIN Fields
        /\ order[m] = Fields[place[m]] /\ order[n] = Fields[place[n]]
    BY <1>1, <1>2, OptionalPlacesAre
  <2>4. order[m] # order[n] /\ order[m] \in Range(Fields) /\ order[n] \in Range(Fields)
    BY <2>1, <2>3, FieldsAre
  <2> QED BY <2>2, <2>3, <2>4 DEF Sooner
<1>5. \A n \in 1 .. N : order[n] \in OptionalFields
  BY <1>1, <1>2 DEF OptionalFields
<1>6. \A f \in OptionalFields : \E n \in 1 .. N : order[n] = f
  BY <1>1, <1>3 DEF OptionalFields
<1>7. DOMAIN order = 1 .. N
  BY <1>1
<1> QED BY <1>1, <1>4, <1>5, <1>6, <1>7 DEF N, order

(* The fold of the packing, on the positions of the order.                 *)
Packs(f, k, lengths, order, budget) ==
  f = [s \in SUBSET (1 .. k) |->
        IF s = {} THEN lengths
        ELSE LET x == CHOOSE x \in s : \A y \in s : x >= y
             IN PackSection(f[s \ {x}], order[x], budget)]

PackedInOrder(lengths, order, budget) ==
  FoldLeft(LAMBDA ls, f : PackSection(ls, f, budget), lengths, order)

LEMMA PackingFolds ==
  ASSUME NEW lengths, NEW order, NEW budget, NEW n \in Nat, DOMAIN order = 1 .. n
  PROVE  PackedInOrder(lengths, order, budget)
          = (CHOOSE f : Packs(f, n, lengths, order, budget))[1 .. n]
BY DEF PackedInOrder, FoldLeft, MapThenFoldSet, Packs, Max

LEMMA PackingExists ==
  ASSUME NEW lengths, NEW order, NEW budget, NEW n \in Nat
  PROVE  \E f : Packs(f, n, lengths, order, budget)
<1> DEFINE bad == {k \in Nat : ~ \E f : Packs(f, k, lengths, order, budget)}
<1> SUFFICES ASSUME bad # {} PROVE FALSE
  OBVIOUS
<1>1. PICK k \in bad : \A j \in bad : k <= j
  BY LeastNumber
<1>2. CASE k = 0
  <2> DEFINE f == [s \in SUBSET (1 .. 0) |-> lengths]
  <2>1. \A s \in SUBSET (1 .. 0) : s = {}
    OBVIOUS
  <2>2. Packs(f, 0, lengths, order, budget)
    BY <2>1 DEF Packs
  <2> QED BY <1>1, <1>2, <2>2
<1>3. CASE k > 0
  <2>1. k - 1 \in Nat /\ k - 1 \notin bad
    BY <1>1, <1>3
  <2>2. PICK f : Packs(f, k - 1, lengths, order, budget)
    BY <2>1
  <2> DEFINE g == [s \in SUBSET (1 .. k) |->
                     IF k \in s THEN PackSection(f[s \ {k}], order[k], budget) ELSE f[s]]
             h == [s \in SUBSET (1 .. k) |->
                     IF s = {} THEN lengths
                     ELSE LET x == CHOOSE x \in s : \A y \in s : x >= y
                          IN PackSection(g[s \ {x}], order[x], budget)]
  <2>3. ASSUME NEW s \in SUBSET (1 .. k) PROVE g[s] = h[s]
    <3> DEFINE x == CHOOSE x \in s : \A y \in s : x >= y
    <3>1. CASE k \in s
      <4>1. x = k
        BY <1>1, <3>1, LargestIs
      <4>2. s \ {k} \in SUBSET (1 .. k) /\ k \notin s \ {k}
        OBVIOUS
      <4>3. g[s \ {k}] = f[s \ {k}]
        BY <4>2
      <4>4. h[s] = PackSection(g[s \ {x}], order[x], budget)
        BY <3>1
      <4> HIDE DEF x, h
      <4> QED BY <3>1, <4>1, <4>3, <4>4
    <3>2. CASE k \notin s
      <4>1. s \in SUBSET (1 .. (k - 1))
        BY <1>1, <3>2
      <4>2. g[s] = f[s]
        BY <3>2
      <4>3. CASE s = {}
        BY <2>2, <3>2, <4>1, <4>2, <4>3 DEF Packs
      <4>4. CASE s # {}
        <5>1. f[s] = PackSection(f[s \ {x}], order[x], budget)
          BY <2>2, <4>1, <4>4 DEF Packs
        <5>2. s \ {x} \in SUBSET (1 .. k) /\ k \notin s \ {x}
          BY <3>2
        <5>3. g[s \ {x}] = f[s \ {x}]
          BY <5>2
        <5>4. h[s] = PackSection(g[s \ {x}], order[x], budget)
          BY <4>4
        <5> HIDE DEF x, g, h
        <5> QED BY <4>2, <5>1, <5>3, <5>4
      <4> QED BY <4>3, <4>4
    <3> QED BY <3>1, <3>2
  <2>4. g = h
    <3>1. DOMAIN g = SUBSET (1 .. k) /\ g = [s \in SUBSET (1 .. k) |-> g[s]]
      OBVIOUS
    <3>2. h = [s \in SUBSET (1 .. k) |-> h[s]]
      OBVIOUS
    <3> HIDE DEF g, h
    <3> QED BY <2>3, <3>1, <3>2
  <2>5. Packs(g, k, lengths, order, budget)
    <3> HIDE DEF g
    <3> QED BY <2>4 DEF Packs
  <2> QED BY <1>1, <2>5
<1> QED BY <1>1, <1>2, <1>3

(* The lengths after each section. *)
LEMMA PackingSteps ==
  ASSUME NEW lengths, NEW order, NEW budget, NEW n \in Nat, DOMAIN order = 1 .. n
  PROVE  \E after :
           /\ after[0] = lengths
           /\ \A k \in 1 .. n : after[k] = PackSection(after[k - 1], order[k], budget)
           /\ after[n] = PackedInOrder(lengths, order, budget)
<1>1. PICK f : Packs(f, n, lengths, order, budget) /\ f = CHOOSE g : Packs(g, n, lengths, order, budget)
  BY PackingExists
<1> DEFINE after == [k \in 0 .. n |-> f[1 .. k]]
<1>2. after[0] = lengths
  <2>1. 1 .. 0 = {} /\ {} \in SUBSET (1 .. n)
    OBVIOUS
  <2>2. f[{}] = lengths
    BY <1>1, <2>1 DEF Packs
  <2> QED BY <2>1, <2>2
<1>3. ASSUME NEW k \in 1 .. n
      PROVE  after[k] = PackSection(after[k - 1], order[k], budget)
  <2> DEFINE s == 1 .. k
             x == CHOOSE x \in s : \A y \in s : x >= y
  <2>1. s \in SUBSET (1 .. n) /\ s # {} /\ k \in s
    <3>1. k \in Nat /\ k \in s /\ s \in SUBSET (1 .. k)
      OBVIOUS
    <3> HIDE DEF s
    <3> QED BY <3>1, LargestIs
  <2>2. x = k
    BY <2>1, LargestIs
  <2>3. s \ {k} = 1 .. (k - 1)
    OBVIOUS
  <2>4. f[s] = PackSection(f[s \ {x}], order[x], budget)
    BY <1>1, <2>1 DEF Packs
  <2>5. after[k] = f[s] /\ after[k - 1] = f[1 .. (k - 1)]
    OBVIOUS
  <2> HIDE DEF s, x, after
  <2> QED BY <2>2, <2>3, <2>4, <2>5
<1>4. after[n] = f[1 .. n]
  OBVIOUS
<1>5. after[n] = PackedInOrder(lengths, order, budget)
  BY <1>1, <1>4, PackingFolds
<1> HIDE DEF after
<1> QED BY <1>2, <1>3, <1>5

Fits(lengths, budget) == WithinBudget(RenderedLength(lengths), budget)

(* The lengths after each section in turn. *)
Packing(after, lengths, order, budget, n) ==
  /\ after[0] = lengths
  /\ \A k \in 1 .. n : after[k] = PackSection(after[k - 1], order[k], budget)

LEMMA PackedSection ==
  ASSUME NEW ls \in [Range(Fields) -> Nat], NEW f \in Range(Fields), NEW budget
  PROVE  /\ PackSection(ls, f, budget) \in [Range(Fields) -> Nat]
         /\ \A g \in Range(Fields) \ {f} : PackSection(ls, f, budget)[g] = ls[g]
         /\ Fits(ls, budget) \/ ls[f] <= MarkerLength => PackSection(ls, f, budget) = ls
         /\ ~Fits(ls, budget) /\ ls[f] > MarkerLength => PackSection(ls, f, budget)[f] = MarkerLength
<1>1. CASE Fits(ls, budget) \/ ls[f] <= MarkerLength
  <2>1. PackSection(ls, f, budget) = ls
    BY <1>1 DEF PackSection, Fits
  <2>2. ~(~Fits(ls, budget) /\ ls[f] > MarkerLength)
    BY <1>1, SamplerAssumption
  <2> QED BY <2>1, <2>2
<1>2. CASE ~(Fits(ls, budget) \/ ls[f] <= MarkerLength)
  <2>1. PackSection(ls, f, budget) = [ls EXCEPT ![f] = MarkerLength]
    BY <1>2 DEF PackSection, Fits
  <2> QED BY <1>2, <2>1, SamplerAssumption
<1> QED BY <1>1, <1>2

(* A section has its length until it is its turn. *)
LEMMA UntilItsTurn ==
  ASSUME NEW after, NEW lengths \in [Range(Fields) -> Nat], NEW n \in Nat, NEW order, NEW budget,
         \A k \in 1 .. n : order[k] \in Range(Fields),
         Packing(after, lengths, order, budget, n)
  PROVE  \A k \in 0 .. n :
           /\ after[k] \in [Range(Fields) -> Nat]
           /\ \A f \in Range(Fields) : (\A j \in 1 .. k : order[j] # f) => after[k][f] = lengths[f]
<1> DEFINE Good(k) == /\ after[k] \in [Range(Fields) -> Nat]
                      /\ \A f \in Range(Fields) :
                           (\A j \in 1 .. k : order[j] # f) => after[k][f] = lengths[f]
           bad == {k \in 0 .. n : ~Good(k)}
<1> SUFFICES ASSUME bad # {} PROVE FALSE
  OBVIOUS
<1>0. bad \in SUBSET Nat
  OBVIOUS
<1>1. PICK k \in bad : \A j \in bad : k <= j
  <2> HIDE DEF bad
  <2> QED BY <1>0, LeastNumber
<1>2. CASE k = 0
  BY <1>1, <1>2 DEF Packing
<1>3. CASE k > 0
  <2>1. k - 1 \in 0 .. n /\ k \in 1 .. n /\ Good(k - 1)
    BY <1>1, <1>3
  <2>2. after[k] = PackSection(after[k - 1], order[k], budget) /\ order[k] \in Range(Fields)
    BY <2>1 DEF Packing
  <2>3. /\ after[k] \in [Range(Fields) -> Nat]
        /\ \A g \in Range(Fields) \ {order[k]} : after[k][g] = after[k - 1][g]
    BY <2>1, <2>2, PackedSection
  <2>4. ASSUME NEW f \in Range(Fields), \A j \in 1 .. k : order[j] # f
        PROVE  after[k][f] = lengths[f]
    <3>1. f # order[k] /\ \A j \in 1 .. (k - 1) : order[j] # f
      BY <2>1, <2>4
    <3> QED BY <2>1, <2>3, <3>1
  <2>5. Good(k)
    BY <2>3, <2>4
  <2> QED BY <1>1, <2>5
<1> QED BY <1>1, <1>2, <1>3

(* Once it fits, nothing more is packed. *)
LEMMA OnceItFits ==
  ASSUME NEW after, NEW lengths \in [Range(Fields) -> Nat], NEW n \in Nat, NEW order, NEW budget,
         \A k \in 1 .. n : order[k] \in Range(Fields),
         Packing(after, lengths, order, budget, n)
  PROVE  \A k, m \in 0 .. n : k <= m /\ Fits(after[k], budget) => after[m] = after[k]
<1> SUFFICES ASSUME NEW k \in 0 .. n, Fits(after[k], budget)
             PROVE  \A m \in 0 .. n : k <= m => after[m] = after[k]
  OBVIOUS
<1> DEFINE bad == {m \in 0 .. n : k <= m /\ after[m] # after[k]}
<1> SUFFICES ASSUME bad # {} PROVE FALSE
  OBVIOUS
<1>0. bad \in SUBSET Nat
  OBVIOUS
<1>1. PICK m \in bad : \A j \in bad : m <= j
  <2> HIDE DEF bad
  <2> QED BY <1>0, LeastNumber
<1>2. m > k /\ m \in 1 .. n /\ m - 1 \in 0 .. n /\ k <= m - 1 /\ m - 1 \notin bad
  BY <1>1
<1>3. after[m - 1] = after[k]
  BY <1>2
<1>4. after[m] = PackSection(after[m - 1], order[m], budget) /\ order[m] \in Range(Fields)
  BY <1>2 DEF Packing
<1>5. after[m - 1] \in [Range(Fields) -> Nat]
  BY <1>2, UntilItsTurn
<1>6. after[m] = after[m - 1]
  BY <1>3, <1>4, <1>5, PackedSection
<1> QED BY <1>1, <1>3, <1>6

(* After its turn a section stays as it is. *)
LEMMA AfterItsTurn ==
  ASSUME NEW after, NEW lengths \in [Range(Fields) -> Nat], NEW n \in Nat, NEW order, NEW budget,
         \A k \in 1 .. n : order[k] \in Range(Fields),
         \A i, j \in 1 .. n : i < j => order[i] # order[j],
         Packing(after, lengths, order, budget, n)
  PROVE  \A k \in 1 .. n : \A m \in 0 .. n : k <= m => after[m][order[k]] = after[k][order[k]]
<1> SUFFICES ASSUME NEW k \in 1 .. n
             PROVE  \A m \in 0 .. n : k <= m => after[m][order[k]] = after[k][order[k]]
  OBVIOUS
<1> DEFINE bad == {m \in 0 .. n : k <= m /\ after[m][order[k]] # after[k][order[k]]}
<1> SUFFICES ASSUME bad # {} PROVE FALSE
  OBVIOUS
<1>0. bad \in SUBSET Nat
  OBVIOUS
<1>1. PICK m \in bad : \A j \in bad : m <= j
  <2> HIDE DEF bad
  <2> QED BY <1>0, LeastNumber
<1>2. m > k /\ m \in 1 .. n /\ m - 1 \in 0 .. n /\ k <= m - 1 /\ m - 1 \notin bad
  BY <1>1
<1>3. after[m - 1][order[k]] = after[k][order[k]]
  BY <1>2
<1>4. after[m] = PackSection(after[m - 1], order[m], budget) /\ order[m] \in Range(Fields)
  BY <1>2 DEF Packing
<1>5. after[m - 1] \in [Range(Fields) -> Nat]
  BY <1>2, UntilItsTurn
<1>6. order[k] \in Range(Fields) \ {order[m]}
  BY <1>2
<1>7. after[m][order[k]] = after[m - 1][order[k]]
  BY <1>4, <1>5, <1>6, PackedSection
<1> QED BY <1>1, <1>3, <1>7

LEMMA OptionalFieldsAre ==
  OptionalFields = {f \in Range(Fields) \ (Required \cup {"parent_score"}) : Template[f] > 0}
BY DEF OptionalFields, OptionalPlaces, Range

LEMMA PackingLeavesOut ==
  ASSUME NEW lengths \in [Range(Fields) -> Nat], NEW budget,
         NEW priorities \in [Range(Fields) -> Int]
  PROVE  /\ PackingKept(lengths, Pack(lengths, budget, priorities), budget, priorities)
         /\ Fits(lengths, budget) => Pack(lengths, budget, priorities) = lengths
<1> DEFINE order == PackingOrder(priorities)
           n == Cardinality(OptionalPlaces)
           packed == Pack(lengths, budget, priorities)
           packable == {f \in Range(Fields) \ (Required \cup {"parent_score"}) :
                          Template[f] > 0 /\ lengths[f] > MarkerLength}
           gone == {f \in Range(Fields) : packed[f] # lengths[f]}
<1>1. /\ n \in Nat /\ DOMAIN order = 1 .. n
      /\ \A k \in 1 .. n : order[k] \in OptionalFields
      /\ \A f \in OptionalFields : \E k \in 1 .. n : order[k] = f
      /\ \A i, j \in 1 .. n : i < j =>
           order[i] # order[j] /\ priorities[order[j]] <= priorities[order[i]]
  BY PackingOrderIs
<1>2. packed = PackedInOrder(lengths, order, budget)
  BY DEF Pack, PackedInOrder
<1>3. packable = {f \in OptionalFields : lengths[f] > MarkerLength}
  BY OptionalFieldsAre
<1>4. /\ \A f \in packable : f \in OptionalFields /\ lengths[f] > MarkerLength
      /\ \A f \in OptionalFields : lengths[f] > MarkerLength => f \in packable
      /\ OptionalFields \subseteq Range(Fields)
  BY <1>3, OptionalFieldsAre
<1> HIDE DEF order, n, packed, packable
<1> HIDE DEF gone
<1>5. PICK after : Packing(after, lengths, order, budget, n) /\ after[n] = packed
  <2>1. n \in Nat /\ DOMAIN order = 1 .. n
    BY <1>1
  <2>2. \E after : /\ after[0] = lengths
                   /\ \A k \in 1 .. n : after[k] = PackSection(after[k - 1], order[k], budget)
                   /\ after[n] = PackedInOrder(lengths, order, budget)
    BY <2>1, PackingSteps
  <2> QED BY <1>2, <2>2 DEF Packing
<1>6. \A k \in 1 .. n : order[k] \in Range(Fields)
  BY <1>1, <1>4
<1>7. /\ \A k \in 0 .. n : after[k] \in [Range(Fields) -> Nat]
      /\ \A k \in 0 .. n : \A f \in Range(Fields) :
           (\A j \in 1 .. k : order[j] # f) => after[k][f] = lengths[f]
  <2>1. n \in Nat /\ Packing(after, lengths, order, budget, n)
    BY <1>1, <1>5
  <2>2. \A k \in 0 .. n :
           /\ after[k] \in [Range(Fields) -> Nat]
           /\ \A f \in Range(Fields) : (\A j \in 1 .. k : order[j] # f) => after[k][f] = lengths[f]
    BY <1>6, <2>1, UntilItsTurn
  <2> QED BY <2>2
<1>8. \A k, m \in 0 .. n : k <= m /\ Fits(after[k], budget) => after[m] = after[k]
  <2>1. n \in Nat /\ Packing(after, lengths, order, budget, n)
    BY <1>1, <1>5
  <2> QED BY <1>6, <2>1, OnceItFits
<1>9. \A k \in 1 .. n : \A m \in 0 .. n : k <= m => after[m][order[k]] = after[k][order[k]]
  <2>1. n \in Nat /\ Packing(after, lengths, order, budget, n)
    BY <1>1, <1>5
  <2>2. \A i, j \in 1 .. n : i < j => order[i] # order[j]
    BY <1>1
  <2> QED BY <1>6, <2>1, <2>2, AfterItsTurn
<1>10. \A i, j \in 1 .. n : order[i] = order[j] => i = j
  <2>1. \A i, j \in 1 .. n : i < j \/ j < i \/ i = j
    BY <1>1
  <2> QED BY <1>1, <2>1
(* When a section's turn comes, it has its length. *)
<1>11. ASSUME NEW k \in 1 .. n
       PROVE  /\ k - 1 \in 0 .. n /\ after[k - 1][order[k]] = lengths[order[k]]
              /\ order[k] \in gone =>
                   ~Fits(after[k - 1], budget) /\ lengths[order[k]] > MarkerLength
              /\ order[k] \notin gone /\ lengths[order[k]] > MarkerLength => Fits(after[k - 1], budget)
  <2>1. k - 1 \in 0 .. n /\ \A j \in 1 .. (k - 1) : j \in 1 .. n /\ j # k
    BY <1>1
  <2>2. \A j \in 1 .. (k - 1) : order[j] # order[k]
    BY <1>10, <2>1
  <2>3. after[k - 1][order[k]] = lengths[order[k]]
    BY <1>6, <1>7, <2>1, <2>2
  <2>4. after[k] = PackSection(after[k - 1], order[k], budget)
    BY <1>5 DEF Packing
  <2>5. packed[order[k]] = after[k][order[k]]
    BY <1>1, <1>5, <1>9
  <2>6. order[k] \in gone <=> after[k][order[k]] # lengths[order[k]]
    BY <1>6, <2>5 DEF gone
  <2>7. lengths[order[k]] \in Nat /\ after[k - 1] \in [Range(Fields) -> Nat]
    BY <1>6, <1>7, <2>1
  <2>8. Fits(after[k - 1], budget) \/ lengths[order[k]] <= MarkerLength => order[k] \notin gone
    BY <1>6, <2>3, <2>4, <2>6, <2>7, PackedSection
  <2>9. ~Fits(after[k - 1], budget) /\ lengths[order[k]] > MarkerLength => order[k] \in gone
    <3>1. ASSUME ~Fits(after[k - 1], budget), lengths[order[k]] > MarkerLength
          PROVE  after[k][order[k]] = MarkerLength
      BY <1>6, <2>3, <2>4, <2>7, <3>1, PackedSection
    <3> QED BY <2>6, <2>7, <3>1, SamplerAssumption
  <2>10. ~(lengths[order[k]] <= MarkerLength) => lengths[order[k]] > MarkerLength
    BY <2>7, SamplerAssumption
  <2> QED BY <2>1, <2>3, <2>8, <2>9, <2>10
<1>12. ASSUME NEW f \in gone PROVE \E k \in 1 .. n : order[k] = f
  <2> USE DEF gone
  <2> SUFFICES ASSUME \A k \in 1 .. n : order[k] # f PROVE FALSE
    OBVIOUS
  <2>1. n \in 0 .. n
    BY <1>1
  <2>2. after[n][f] = lengths[f]
    BY <1>7, <2>1
  <2> QED BY <1>5, <2>2
<1>13. gone \subseteq packable
  <2> SUFFICES ASSUME NEW f \in gone PROVE f \in packable
    OBVIOUS
  <2>1. PICK k \in 1 .. n : order[k] = f
    BY <1>12
  <2> QED BY <1>1, <1>4, <1>11, <2>1
(* What stays fits, and comes after what is gone. *)
<1>14. ASSUME NEW g \in packable \ gone
       PROVE  \E i \in 1 .. n : order[i] = g /\ i - 1 \in 0 .. n /\ Fits(after[i - 1], budget)
  <2>1. PICK i \in 1 .. n : order[i] = g
    BY <1>1, <1>4
  <2> QED BY <1>4, <1>11, <2>1
<1>15. ASSUME NEW f \in gone, NEW g \in packable \ gone PROVE priorities[g] <= priorities[f]
  <2>1. PICK j \in 1 .. n : order[j] = f
    BY <1>12
  <2>2. PICK i \in 1 .. n : order[i] = g /\ i - 1 \in 0 .. n /\ Fits(after[i - 1], budget)
    BY <1>14
  <2>3. j - 1 \in 0 .. n /\ ~Fits(after[j - 1], budget)
    <3> QED BY <1>11, <2>1
  <2>4. ~(i - 1 <= j - 1)
    BY <1>8, <2>2, <2>3
  <2>5. j < i
    BY <2>4, <1>1
  <2> QED BY <1>1, <2>1, <2>2, <2>5
<1>16. gone # packable => Fits(packed, budget)
  <2> SUFFICES ASSUME gone # packable PROVE Fits(packed, budget)
    OBVIOUS
  <2>1. PICK g \in packable \ gone : TRUE
    <3> QED BY <1>13
  <2>2. PICK i \in 1 .. n : i - 1 \in 0 .. n /\ Fits(after[i - 1], budget)
    BY <1>14
  <2>3. n \in 0 .. n /\ i - 1 <= n
    BY <1>1
  <2>4. after[n] = after[i - 1]
    BY <1>8, <2>2, <2>3
  <2> QED BY <1>5, <2>2, <2>4
(* The last section that is gone was left out because it had to be. *)
<1>17. ASSUME gone # {}
       PROVE  \E f \in gone : /\ \A g \in gone : priorities[f] <= priorities[g]
                              /\ ~Fits([packed EXCEPT ![f] = lengths[f]], budget)
  <2> DEFINE back == {d \in 0 .. n : n - d \in 1 .. n /\ order[n - d] \in gone}
  <2>1. back \in SUBSET Nat
    OBVIOUS
  <2>2. back # {}
    <3>1. PICK f \in gone : TRUE
      BY <1>17
    <3>2. PICK k \in 1 .. n : order[k] = f
      BY <1>12
    <3>3. n - k \in 0 .. n /\ n - (n - k) = k
      BY <1>1
    <3>4. n - k \in back
      BY <3>1, <3>2, <3>3
    <3> QED BY <3>4
  <2>3. PICK d \in back : \A e \in back : d <= e
    <3> HIDE DEF back
    <3> QED BY <2>1, <2>2, LeastNumber
  <2> DEFINE k == n - d
  <2>4. k \in 1 .. n /\ order[k] \in gone
    BY <2>3
  <2>5. ASSUME NEW i \in 1 .. n, order[i] \in gone PROVE i <= k
    <3>1. n - i \in 0 .. n /\ n - (n - i) = i
      BY <1>1
    <3>2. n - i \in back
      <4> QED BY <2>5, <3>1
    <3>3. d <= n - i /\ d \in 0 .. n
      BY <2>3, <3>2
    <3> QED BY <1>1, <3>1, <3>3
  <2> HIDE DEF back, k
  <2>6. ASSUME NEW g \in gone PROVE priorities[order[k]] <= priorities[g]
    <3>1. PICK i \in 1 .. n : order[i] = g
      BY <1>12
    <3>2. i <= k
      BY <2>5, <3>1
    <3>3. CASE i = k
      <4>1. priorities[g] \in Int
        BY <1>6, <3>1
      <4> QED BY <3>1, <3>3, <4>1
    <3>4. CASE i < k
      BY <1>1, <2>4, <3>1, <3>4
    <3> QED BY <2>4, <3>2, <3>3, <3>4
  <2>7. ~Fits(after[k - 1], budget) /\ k - 1 \in 0 .. n /\ after[k - 1][order[k]] = lengths[order[k]]
    <3> QED BY <1>11, <2>4
  <2>8. [packed EXCEPT ![order[k]] = lengths[order[k]]] = after[k - 1]
    <3>1. packed \in [Range(Fields) -> Nat] /\ after[k - 1] \in [Range(Fields) -> Nat]
      <4>1. n \in 0 .. n
        BY <1>1
      <4> QED BY <1>5, <1>7, <2>7, <4>1
    <3>2. ASSUME NEW h \in Range(Fields), h # order[k] PROVE packed[h] = after[k - 1][h]
      <4>1. CASE \A j \in 1 .. (k - 1) : order[j] # h
        <5>1. after[k - 1][h] = lengths[h]
          BY <1>7, <2>7, <4>1
        <5>2. h \notin gone
          <6> SUFFICES ASSUME h \in gone PROVE FALSE
            OBVIOUS
          <6>1. PICK i \in 1 .. n : order[i] = h
            BY <1>12
          <6>2. i <= k /\ i # k
            BY <2>5, <3>2, <6>1
          <6>3. i \in 1 .. (k - 1)
            BY <2>4, <6>2
          <6> QED BY <4>1, <6>1, <6>3
        <5> QED BY <5>1, <5>2 DEF gone
      <4>2. ASSUME NEW j \in 1 .. (k - 1), order[j] = h PROVE packed[h] = after[k - 1][h]
        <5>1. j \in 1 .. n /\ j <= k - 1 /\ j <= n /\ n \in 0 .. n
          BY <1>1, <2>4
        <5>2. after[n][h] = after[j][h] /\ after[k - 1][h] = after[j][h]
          BY <1>9, <2>7, <4>2, <5>1
        <5> QED BY <1>5, <5>2
      <4> QED BY <4>1, <4>2
    <3> QED BY <2>4, <2>7, <3>1, <3>2
  <2>9. ~Fits([packed EXCEPT ![order[k]] = lengths[order[k]]], budget)
    BY <2>7, <2>8
  <2> QED BY <2>4, <2>6, <2>9
<1>18. Fits(lengths, budget) => packed = lengths
  <2>1. 0 \in 0 .. n /\ n \in 0 .. n /\ 0 <= n /\ after[0] = lengths
    BY <1>1, <1>5 DEF Packing
  <2> QED BY <1>5, <1>8, <2>1
<1>19. PackingKept(lengths, packed, budget, priorities)
  <2>1. /\ gone \subseteq packable
        /\ \A f \in gone, g \in packable \ gone : priorities[g] <= priorities[f]
        /\ gone # packable => Fits(packed, budget)
        /\ gone # {} =>
             \E f \in gone : /\ \A g \in gone : priorities[f] <= priorities[g]
                             /\ ~Fits([packed EXCEPT ![f] = lengths[f]], budget)
    BY <1>13, <1>15, <1>16, <1>17
  <2> QED BY <2>1, Zenon DEF PackingKept, Fits, gone, packable
<1> QED BY <1>18, <1>19 DEF packed

(* The default priorities are numbers, and so are those of a policy that   *)
(* is accepted.                                                            *)
LEMMA PolicyPriorities ==
  ASSUME NEW raw
  PROVE  /\ "section_priorities" \in DOMAIN NormalPolicy(raw)
         /\ NormalPolicy(raw).section_priorities
              = SectionPriorities(Given(raw, "section_priorities", <<>>))
<1> DEFINE name == "section_priorities"
           section == SectionPolicy(raw)
           others == {ParentPolicy(raw), SourcePolicy(raw), InspirationPolicy(raw),
                      FailurePolicy(raw), FeedbackPolicy(raw),
                      [groups |-> NormalGroups(Given(raw, "groups", <<>>))]}
           parts == {section} \cup others
<1>1. name \in DOMAIN section /\ section[name] = SectionPriorities(Given(raw, name, <<>>))
  BY DEF SectionPolicy
<1>2. \A part \in others : name \notin DOMAIN part
  <2>1. name \notin DOMAIN ParentPolicy(raw)
    BY DEF ParentPolicy
  <2>2. name \notin DOMAIN SourcePolicy(raw)
    BY DEF SourcePolicy
  <2>3. name \notin DOMAIN InspirationPolicy(raw)
    BY DEF InspirationPolicy
  <2>4. name \notin DOMAIN FailurePolicy(raw)
    BY DEF FailurePolicy
  <2>5. name \notin DOMAIN FeedbackPolicy(raw)
    BY DEF FeedbackPolicy
  <2>6. name \notin DOMAIN [groups |-> NormalGroups(Given(raw, "groups", <<>>))]
    OBVIOUS
  <2> QED BY <2>1, <2>2, <2>3, <2>4, <2>5, <2>6
<1>3. NormalPolicy(raw) = Joined(parts)
  <2>1. parts = {SectionPolicy(raw), ParentPolicy(raw), SourcePolicy(raw), InspirationPolicy(raw),
                 FailurePolicy(raw), FeedbackPolicy(raw),
                 [groups |-> NormalGroups(Given(raw, "groups", <<>>))]}
    OBVIOUS
  <2> HIDE DEF parts
  <2> QED BY <2>1 DEF NormalPolicy
<1> HIDE DEF section, others
<1>4. (CHOOSE part \in parts : name \in DOMAIN part) = section
  BY <1>1, <1>2
<1>5. name \in UNION {DOMAIN part : part \in parts}
  BY <1>1
<1> HIDE DEF parts
<1>6. name \in DOMAIN Joined(parts) /\ Joined(parts)[name] = section[name]
  BY <1>4, <1>5 DEF Joined
<1> QED BY <1>1, <1>3, <1>6

LEMMA PrioritiesAreNumbers ==
  ASSUME NEW raw, Accepted(raw)
  PROVE  Priorities(NormalPolicy(raw)) \in [Range(Fields) -> Int]
<1> DEFINE given == NormalPolicy(raw).section_priorities
<1>1. given # Malformed
  BY PolicyPriorities DEF Accepted, KnownAndValid
<1>2. Range(given) \subseteq 0 .. 999
  BY <1>1, PolicyPriorities DEF SectionPriorities, Mandatory, Optional
<1> HIDE DEF given
<1>3. \A f \in DOMAIN given : given[f] \in Int
  BY <1>2 DEF Range
<1>4. \A f \in Range(Fields) : DefaultPriorities[f] \in Int
  BY DEF Range, Fields, DefaultPriorities
<1>5. ToSet(Fields) = Range(Fields)
  BY DEF ToSet, Range
<1>6. \A f \in Range(Fields) : Given(given, f, DefaultPriorities[f]) \in Int
  BY <1>3, <1>4 DEF Given
<1> QED BY <1>5, <1>6 DEF Priorities, given

(* A limit in characters is a number. *)
LEMMA LimitIsNumber ==
  ASSUME NEW budget, {budget.chars, budget.tokens} \subseteq Nat \cup {None},
         EffectiveMax(budget) # None
  PROVE  EffectiveMax(budget) \in Nat
<1>1. budget.chars \in Nat \cup {None} /\ budget.tokens \in Nat \cup {None}
  OBVIOUS
<1>2. CASE budget.tokens = None
  BY <1>1, <1>2 DEF EffectiveMax
<1>3. CASE budget.tokens # None /\ budget.counted
  BY <1>1, <1>3 DEF EffectiveMax
<1>4. CASE budget.tokens # None /\ ~budget.counted
  <2>1. budget.tokens * 4 \in Nat
    BY <1>1, <1>4
  <2> QED BY <1>1, <1>4, <2>1 DEF EffectiveMax
<1> QED BY <1>2, <1>3, <1>4

(* A prompt is what the packing and the cap make of its sections.          *)
PromptBuilt ==
  prompt \notin {NoPrompt, Asked} =>
    LET n == prompt.request
        built == prompt.built
        budget == Requests[n].budget
    IN /\ n \in AcceptedRequests
       /\ built.packed = Pack(built.lengths, budget, Priorities(Policies[n]))
       /\ built.status = PackingStatus(built.lengths, built.packed, budget)
       /\ built.final = CappedLength(RenderedLength(built.packed), budget)

LEMMA BuildPacks ==
  ASSUME NEW w, NEW how, NEW p, NEW told, NEW budget
  PROVE  LET built == BuildPrompt(w, how, p, told, budget)
         IN /\ built.packed = Pack(built.lengths, budget, Priorities(p))
            /\ built.status = PackingStatus(built.lengths, built.packed, budget)
            /\ built.final = CappedLength(RenderedLength(built.packed), budget)
<1> DEFINE lengths == SectionLengths(w, how, p, told)
           packed == Pack(lengths, budget, Priorities(p))
           files == FilesShown(w.files, FileSelection(p))
<1>1. BuildPrompt(w, how, p, told, budget) = PackedPrompt(files, budget, lengths, packed)
  BY DEF BuildPrompt, PromptOf
<1>2. packed = Pack(lengths, budget, Priorities(p))
  OBVIOUS
<1> HIDE DEF lengths, packed, files
<1> QED BY <1>1, <1>2 DEF PackedPrompt

LEMMA InitBuilt == Init => PromptBuilt
BY DEF Init, PromptBuilt

LEMMA StepBuilt == PromptBuilt /\ [Next]_vars => PromptBuilt'
<1> SUFFICES ASSUME PromptBuilt, [Next]_vars PROVE PromptBuilt'
  OBVIOUS
<1>1. ASSUME NEW n \in DOMAIN Requests, SamplePrompt(n) PROVE PromptBuilt'
  <2> DEFINE built == BuildPrompt(workspace, mode, Policies[n], LengthsBy[n], Requests[n].budget)
  <2>1. n \in AcceptedRequests /\ prompt' = [request |-> n, built |-> built]
    BY <1>1 DEF SamplePrompt
  <2>2. /\ built.packed = Pack(built.lengths, Requests[n].budget, Priorities(Policies[n]))
        /\ built.status = PackingStatus(built.lengths, built.packed, Requests[n].budget)
        /\ built.final = CappedLength(RenderedLength(built.packed), Requests[n].budget)
    BY BuildPacks
  <2> HIDE DEF built
  <2> QED BY <2>1, <2>2 DEF PromptBuilt
<1>2. CASE Ask
  BY <1>2 DEF Ask, PromptBuilt
<1>3. ASSUME NEW answer \in Answers, Propose(answer) PROVE PromptBuilt'
  BY <1>3 DEF Propose, PromptBuilt
<1>4. CASE UNCHANGED prompt
  BY <1>4 DEF PromptBuilt, NoPrompt, Asked
<1> QED BY <1>1, <1>2, <1>3, <1>4 DEF Next, vars, Materialize, Discard

LEMMA BuiltIsPacked == PromptBuilt => (LengthsAreNumbers => PromptIsPacked)
<1> DEFINE n == prompt.request
           built == prompt.built
           budget == Requests[n].budget
           max == EffectiveMax(budget)
           priorities == Priorities(Policies[n])
<1> SUFFICES ASSUME PromptBuilt, LengthsAreNumbers, prompt \notin {NoPrompt, Asked}
             PROVE  PackedAsAsked(built, budget, Policies[n])
  BY DEF PromptIsPacked
<1>1. /\ n \in AcceptedRequests
      /\ built.packed = Pack(built.lengths, budget, priorities)
      /\ built.status = PackingStatus(built.lengths, built.packed, budget)
      /\ built.final = CappedLength(RenderedLength(built.packed), budget)
  BY DEF PromptBuilt
<1>2. n \in DOMAIN Requests /\ Accepted(Requests[n].policy)
  BY <1>1 DEF AcceptedRequests, AcceptedOf
<1>3. Policies[n] = NormalPolicy(Requests[n].policy)
  BY <1>1 DEF Policies, PoliciesOf
<1>4. priorities \in [Range(Fields) -> Int]
  BY <1>2, <1>3, PrioritiesAreNumbers
<1>5. built.lengths \in [Range(Fields) -> Nat]
  BY DEF LengthsAreNumbers
<1>6. max # None => max \in Nat
  BY <1>2, ProposalAssumption, LimitIsNumber
<1> HIDE DEF n, built, budget, priorities
<1>7. /\ PackingKept(built.lengths, built.packed, budget, priorities)
      /\ Fits(built.lengths, budget) => built.packed = built.lengths
  BY <1>1, <1>4, <1>5, PackingLeavesOut
<1>8. max # None => built.final <= max
  BY <1>1, <1>6 DEF CappedLength
<1>9. Fits(built.packed, budget) =>
        built.final = RenderedLength(built.packed) /\ TokensFit(built.final, budget)
  BY <1>1 DEF Fits, WithinBudget, CappedLength
<1>10. ASSUME built.status = "not_configured"
       PROVE  built.final = RenderedLength(built.packed) /\ TokensFit(built.final, budget)
  <2>1. max = None /\ (budget.tokens = None \/ ~budget.counted)
    BY <1>1, <1>10 DEF PackingStatus
  <2> QED BY <1>1, <2>1 DEF CappedLength, TokensFit
<1>11. ASSUME built.status = "within_budget" PROVE Fits(built.packed, budget)
  <2>1. Fits(built.lengths, budget)
    BY <1>1, <1>11 DEF PackingStatus, Fits
  <2> QED BY <1>7, <2>1
<1>12. ASSUME built.status = "packed_optional_sections" PROVE Fits(built.packed, budget)
  BY <1>1, <1>12 DEF PackingStatus, Fits
<1>13. Fitted(built, budget, max)
  BY <1>8, <1>9, <1>10, <1>11, <1>12 DEF Fitted
<1> QED BY <1>7, <1>13 DEF PackedAsAsked, priorities

(* A prompt never exceeds its budget without saying so; what is packed     *)
(* away matters least, and no more is than has to be (prompt.py:1631).     *)
THEOREM PromptsArePacked == Spec => [](LengthsAreNumbers => PromptIsPacked)
BY InitBuilt, StepBuilt, BuiltIsPacked, PTL DEF Spec
=============================================================================
