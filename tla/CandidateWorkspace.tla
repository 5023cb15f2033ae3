------------------------- MODULE CandidateWorkspace -------------------------
(***************************************************************************)
(* A candidate as a set of files, and what an answer of the model does to  *)
(* it: one payload for the primary file, or FILE sections that edit,       *)
(* create, delete, move, name the primary file or set a static member.     *)
(* Nothing is changed unless the whole answer is right.                    *)
(***************************************************************************)
EXTENDS CandidateText, Functions

CONSTANTS
  PythonPaths,    \* paths that end in .py: the others cannot hold markers
  ReservedPaths,  \* paths with a hidden or cache component
  UnsafePaths,    \* paths no list can allow
  HostKey,        \* the name a file system that folds case gives a path
  Limits          \* files, fileLines, totalLines, staticBytes, totalStaticBytes

Sum(f) == FoldFunction(+, 0, f)

(* How long a text counts for the limits.                                  *)
Length(text) == Len(text)

PathIsSafe(path, allowed) ==
  /\ path \notin UnsafePaths
  /\ path \in ReservedPaths => path \in allowed

WithinWorkspaceLimits(files, statics, limits) ==
  /\ Cardinality(DOMAIN files) + Cardinality(DOMAIN statics) <= limits.files
  /\ \A p \in DOMAIN files : Length(files[p]) <= limits.fileLines
  /\ Sum([p \in DOMAIN files |-> Length(files[p])]) <= limits.totalLines
  /\ \A p \in DOMAIN statics : statics[p].bytes <= limits.staticBytes
  /\ Sum([p \in DOMAIN statics |-> statics[p].bytes]) <= limits.totalStaticBytes

(* What the constructor accepts.                                           *)
Constructible(w) ==
  /\ \A p \in DOMAIN w.files \cup DOMAIN w.statics : PathIsSafe(p, w.allowed)
  /\ w.primary \in DOMAIN w.files
  /\ DOMAIN w.files \cap DOMAIN w.statics = {}
  /\ WithinWorkspaceLimits(w.files, w.statics, Limits)

(* A static member is a record [policy, content, bytes, origin].  Those    *)
(* whose bytes are kept are written out with the files; the others are     *)
(* only described.                                                         *)
MaterializablePaths(statics) == {p \in DOMAIN statics : statics[p].content # None}

HostPathCollision(files, statics) ==
  \E p, q \in DOMAIN files \cup MaterializablePaths(statics) : p # q /\ HostKey[p] = HostKey[q]

UnsupportedMarkers(files) ==
  \E p \in DOMAIN files \ PythonPaths : HasRawMarkerLines(files[p])

(* Mutant: the blocks of the result are not parsed again.                  *)
MarkersOnly(files) == UnsupportedMarkers(files)

MalformedBlocks(files) ==
  UnsupportedMarkers(files) \/ \E p \in DOMAIN files : EvolveError(files[p]) # None

(***************************************************************************)
(* FILE sections.  A section is a record of its op, its path and what the   *)
(* op needs: target, payload, content and bytes, or a body that must be    *)
(* blank.                                                                  *)
(***************************************************************************)
SectionPaths(s) == {s.path} \cup IF s.op = "move" THEN {s.target} ELSE {}

UnsafeSection(s, allowed) ==
  \/ \E p \in SectionPaths(s) : ~PathIsSafe(p, allowed)
  \/ s.op = "move" /\ s.path = s.target

Positions(sections, ops) == {i \in DOMAIN sections : sections[i].op \in ops}

(* Mutant: a path may be edited twice.                                     *)
ConflictingTopology(sections) ==
  LET topology == Positions(sections, {"delete", "move"})
      sources == {sections[i].path : i \in topology}
      targets == {sections[i].target : i \in Positions(sections, {"move"})}
  IN Cardinality(sources) < Cardinality(topology) \/ sources \cap targets # {}

(* The sections must not depend on the order they are applied in: one edit *)
(* a path, one topology change a path, one move onto a path, one primary,  *)
(* and no path that is edited and moved, or moved onto and moved away.     *)
ConflictingSections(sections) ==
  LET edits == Positions(sections, {"edit", "static"})
      topology == Positions(sections, {"delete", "move"})
      moves == Positions(sections, {"move"})
      Twice(ps, Of(_)) == \E i, j \in ps : i # j /\ Of(sections[i]) = Of(sections[j])
      Path(s) == s.path
      Target(s) == s.target
      sources == {sections[i].path : i \in topology}
      targets == {sections[i].target : i \in moves}
  IN \/ Cardinality(Positions(sections, {"primary"})) > 1
     \/ Twice(edits, Path) \/ Twice(topology, Path) \/ Twice(moves, Target)
     \/ {sections[i].path : i \in edits} \cap (sources \cup targets) # {}
     \/ sources \cap targets # {}

(* Mutant: only the path of a section is compared with the static members, *)
(* and a member that may not be edited can be set.                         *)
TouchesLockedFile(sections, statics) ==
  \E i \in DOMAIN sections : sections[i].path \in DOMAIN statics /\ sections[i].op # "static"

(* A static member is changed by a STATIC section alone, and only where    *)
(* its policy lets a model edit it.                                        *)
TouchesStaticMember(sections, statics) ==
  \E i \in DOMAIN sections :
     \E p \in SectionPaths(sections[i]) \cap DOMAIN statics :
        \/ statics[p].policy # "llm_editable"
        \/ sections[i].op # "static"

CommandWithBody(sections) ==
  \E i \in Positions(sections, {"delete", "move", "primary"}) : ~sections[i].blank

ExplicitPrimary(sections) ==
  LET named == Positions(sections, {"primary"})
  IN IF named = {} THEN None ELSE sections[CHOOSE i \in named : \A j \in named : i <= j].path

Without(f, x) == Restrict(f, DOMAIN f \ {x})
Put(f, x, v) == [y \in DOMAIN f \cup {x} |-> IF y = x THEN v ELSE f[y]]

(* The draft while the sections are applied one after the other.           *)
Failed(draft, error) == [draft EXCEPT !.error = error]

SetStatic(draft, s) ==
  LET known == s.path \in DOMAIN draft.statics
      new == [policy |-> IF known THEN draft.statics[s.path].policy ELSE "llm_editable",
              content |-> s.content, bytes |-> s.bytes, origin |-> "generated"]
  IN CASE s.path \in DOMAIN draft.files -> Failed(draft, "target_exists")
       [] s.path \notin DOMAIN draft.files /\ s.content = None ->
            Failed(draft, "blank_static_content")
       [] s.path \notin DOMAIN draft.files /\ s.content # None /\ s.bytes > Limits.staticBytes ->
            Failed(draft, "content_exceeds_limit")
       [] OTHER -> [draft EXCEPT !.statics = Put(@, s.path, new),
                                 !.changed = @ \/ ~known \/ draft.statics[s.path] # new]

DeleteFile(draft, s) ==
  CASE s.path \notin DOMAIN draft.files -> Failed(draft, "missing_source")
    [] s.path \in DOMAIN draft.files /\ Cardinality(DOMAIN draft.files) = 1 ->
         Failed(draft, "cannot_delete_last_file")
    [] OTHER -> [draft EXCEPT !.files = Without(@, s.path),
                              !.primary = IF @ = s.path THEN None ELSE @,
                              !.changed = TRUE]

MoveFile(draft, s) ==
  CASE s.path \notin DOMAIN draft.files -> Failed(draft, "missing_source")
    [] s.path \in DOMAIN draft.files /\ s.target \in DOMAIN draft.files ->
         Failed(draft, "target_exists")
    [] OTHER -> [draft EXCEPT
                   !.files = Put(Without(@, s.path), s.target, draft.files[s.path]),
                   !.primary = IF @ = s.path THEN s.target ELSE @,
                   !.changed = TRUE]

Edited(draft, path, edited) ==
  IF edited.error # None THEN Failed(draft, edited.error)
  ELSE [draft EXCEPT !.files = Put(@, path, edited.code),
                     !.changed = @ \/ path \notin DOMAIN draft.files
                                   \/ edited.code # draft.files[path]]

(* In full mode a new file is the body as it stands; in diff mode there is *)
(* no text a SEARCH could be found in.                                     *)
EditFile(draft, s, mode) ==
  IF s.path \in DOMAIN draft.files
  THEN Edited(draft, s.path, ApplyCandidateMutation(draft.files[s.path], s.payload, mode, TRUE))
  ELSE IF mode = "full" THEN Edited(draft, s.path, Done(AsText(s.payload)))
  ELSE Edited(draft, s.path, ApplyCandidateMutation(<<>>, s.payload, mode, TRUE))

ApplySection(draft, s, mode) ==
  CASE draft.error # None -> draft
    [] draft.error = None /\ s.op = "static" -> SetStatic(draft, s)
    [] draft.error = None /\ s.op = "delete" -> DeleteFile(draft, s)
    [] draft.error = None /\ s.op = "move" -> MoveFile(draft, s)
    [] draft.error = None /\ s.op = "primary" -> draft
    [] OTHER -> EditFile(draft, s, mode)

(* After the last section: a PRIMARY section names a file that is there,   *)
(* and without one the primary file was not deleted.                       *)
ChoosePrimary(draft, sections, old) ==
  LET named == ExplicitPrimary(sections)
  IN CASE draft.error # None -> draft
       [] draft.error = None /\ named # None ->
            IF named \notin DOMAIN draft.files THEN Failed(draft, "missing_primary")
            ELSE [draft EXCEPT !.primary = named, !.changed = @ \/ draft.primary # named]
       [] OTHER -> IF draft.primary = None
                   THEN Failed(draft, "primary_deleted_requires_primary") ELSE draft

Draft(w) ==
  [files |-> w.files, statics |-> w.statics, primary |-> w.primary,
   changed |-> FALSE, error |-> None]

Assemble(w, draft) ==
  [files |-> draft.files, primary |-> draft.primary, allowed |-> w.allowed,
   statics |-> draft.statics]

Child(w) == [workspace |-> w, error |-> None]
Parent(w, error) == [workspace |-> w, error |-> error]
Raised == "raised"

Outcome(w, draft) ==
  CASE draft.error # None -> Parent(w, draft.error)
    [] draft.error = None /\ ~draft.changed -> Parent(w, "no_valid_changes")
    [] draft.error = None /\ draft.changed ->
         IF HostPathCollision(draft.files, draft.statics) THEN Parent(w, "host_path_collision")
         ELSE IF MalformedBlocks(draft.files) THEN Parent(w, "malformed_evolve_blocks")
         ELSE IF ~Constructible(Assemble(w, draft)) THEN Parent(w, "candidate_workspace_error")
         ELSE Child(Assemble(w, draft))

ApplySections(w, sections, mode) ==
  IF \E i \in DOMAIN sections : UnsafeSection(sections[i], w.allowed)
  THEN Parent(w, "unsafe_path")
  ELSE IF ConflictingSections(sections) THEN Parent(w, "conflicting_file_operations")
  ELSE IF CommandWithBody(sections) THEN Parent(w, "unexpected_command_body")
  ELSE IF TouchesStaticMember(sections, w.statics) THEN Parent(w, "static_member")
  ELSE Outcome(w, ChoosePrimary(
         FoldLeft(LAMBDA d, s : ApplySection(d, s, mode), Draft(w), sections),
         sections, w.primary))

PrimaryOutcome(w, applied) ==
  LET child == [w EXCEPT !.files[w.primary] = applied.code]
  IN IF applied.error # None THEN Parent(w, applied.error)
     ELSE IF MalformedBlocks(child.files) THEN Parent(w, "malformed_evolve_blocks")
     ELSE IF Constructible(child) THEN Child(child) ELSE Parent(w, Raised)

(* An answer without FILE sections is a payload for the primary file. Here *)
(* the constructor is not called in a try block: what it refuses is raised *)
(* to the caller instead of being the error of the candidate.              *)
ApplyToPrimary(w, payload, mode) ==
  PrimaryOutcome(w, ApplyCandidateMutation(w.files[w.primary], payload, mode, FALSE))

(* An answer is a record [sections, payload, stray]: the FILE sections, or *)
(* the one payload, and whether there is text between the sections or a    *)
(* section without a start or an end.                                      *)
ApplyWorkspaceMutation(w, answer, mode) ==
  IF UnsupportedMarkers(w.files) THEN Parent(w, "unsupported_evolve_block_marker_syntax")
  ELSE IF answer.stray THEN Parent(w, "malformed_file_sections")
  ELSE IF answer.sections = <<>> THEN ApplyToPrimary(w, answer.payload, mode)
  ELSE ApplySections(w, answer.sections, mode)
=============================================================================
