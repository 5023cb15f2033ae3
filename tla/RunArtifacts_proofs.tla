------------------------ MODULE RunArtifacts_proofs -------------------------
(***************************************************************************)
(* What a run leaves in its directory, for any scores, fingerprints,       *)
(* candidates, runs and faults: the six invariants that RunArtifacts       *)
(* states of the streams, the manifest, the best pair and what show makes  *)
(* of them.                                                                *)
(*                                                                         *)
(* The order is: types; the lists of operations and where each operation   *)
(* leads; the base of all that follows, which is how evolve stands and how *)
(* the runs ended; then for each property the invariant that is inductive, *)
(* each step by what it does to it, and the theorem: numbered rows; the    *)
(* exported pair; the prompt log; the archive and its records; the         *)
(* candidates told of; the finalization; what is shown.                    *)
(***************************************************************************)
EXTENDS RunArtifacts, FiniteSetTheorems, WellFoundedInduction, TLAPS

(***************************************************************************)
(* Types.                                                                  *)
(***************************************************************************)
Parts == {"off", "clearing", "running", "finishing", "aborting"}
FateNames == {"under way", "cleared", "completed", "aborted", "killed"}
PrintNames == Prints \cup {"none", "llm"}
PathNames == PathKinds \cup {"plain"}
Reasons == {"invalid_evaluation", "below_threshold", "retained", "not_improving_cell"}
BudgetKinds ==
  {"seed_evaluation", "generation_started", "candidate_evaluation", "generation_completed",
   "llm_call", "stop"}
Candidates ==
  [id : Int, parent : Int, prompt : Int, baseline : Int, valid : BOOLEAN, score : Int,
   print : PrintNames, paths : PathNames]
PromptPrograms == [id : Nat, uses : Nat, sum : Nat]

(* The rows of each stream.                                                *)
HistoryRows ==
  [id : Int, admitted : BOOLEAN, valid : BOOLEAN, score : Int, parent : Int,
   paths : PathNames, run : Nat]
FailureRows ==
  [id : Int, parent : Int, print : PrintNames, paths : PathNames, count : Nat, run : Nat]
AdmissionRows == [type : {"admission"}, number : Nat, id : Int, reason : Reasons, run : Nat]
MigrationTypes == [type : {"migration"}, number : Nat, run : Nat]
BudgetRows == [kind : BudgetKinds, number : Nat, run : Nat]
CallRows == [type : {"call", "reward"}, number : Nat, run : Nat]
PromptRows == [event : {"add", "score"}, id : Nat, uses : Nat, sum : Nat, run : Nat]
ResultRows == [id : Int, run : Nat]

FilesOK(f) ==
  /\ f = [s \in Streams |-> f[s]]
  /\ f["history"] \in Seq(HistoryRows)
  /\ f["failure_history"] \in Seq(FailureRows)
  /\ f["archive_events"] \in Seq(AdmissionRows \cup MigrationTypes)
  /\ f["controller_budget_events"] \in Seq(BudgetRows)
  /\ f["llm_calls"] \in Seq(CallRows)
  /\ f["prompt_history"] \in Seq(PromptRows)
  /\ f["evaluator_results"] \in Seq(ResultRows)

TreeValues == Candidates \cup {Nothing, Damaged}
Trees == [Paths -> TreeValues]
(* The export, and the tree it works on.                                   *)
Exports ==
  [at : {"body", "rollback", "cleanup", "completed", "failed", "interrupted"},
   step : 1 .. 6, program : Candidates, installed : SUBSET Places,
   preserved : SUBSET Paths, errors : Nat, failed : BOOLEAN, old : Trees]

(* The runtime section and the manifest.                                   *)
RuntimeShape(r) ==
  r = [status |-> r.status, history |-> r.history, artifacts |-> r.artifacts,
       export |-> r.export]
Runtimes(r) == r = Nothing \/ RuntimeShape(r)
Manifests(m) ==
  m = Nothing \/ (m = [run |-> m.run, runtime |-> m.runtime] /\ Runtimes(m.runtime))

ControlType ==
  /\ pc \in Parts
  /\ todo \in Seq(Range(todo))
  /\ run \in Nat /\ fates \in Seq(FateNames) /\ Len(fates) = run
  /\ faults \in Nat
  /\ current \in Candidates \/ current = NoCandidate
  /\ kept \in BOOLEAN
  /\ Runtimes(runtime)
MemoryType ==
  /\ archived \subseteq Candidates
  /\ admissions \in Nat /\ hops \in Nat /\ budgetEvents \in Nat /\ llmCalls \in Nat
  /\ logged \in Seq(Int) /\ failures \in Seq(FailureRows)
PromptsType == prompts \in Seq(PromptPrograms)
TreeType ==
  /\ tree \in Trees
  /\ export = Idle \/ (export \in Exports /\ (export.at \in {"rollback", "cleanup"} => export.step <= 4))
TypeOK ==
  /\ ControlType /\ MemoryType /\ PromptsType /\ TreeType
  /\ FilesOK(files) /\ Manifests(manifest)

(***************************************************************************)
(* An append: its stream is longer by its row, or as it was.               *)
(***************************************************************************)
(* The stream of the row has it at its end, the others are as they were.   *)
LEMMA WithRowIs ==
  ASSUME NEW s \in Streams, NEW row, NEW outcome, NEW f, f = WithRow(s, row, outcome),
         files = [t \in Streams |-> files[t]]
  PROVE  /\ f = [t \in Streams |-> f[t]]
         /\ \A t \in Streams : t # s => f[t] = files[t]
         /\ outcome = "refused" => f = files
         /\ outcome # "refused" => f[s] = Append(files[s], row)
<1>1. CASE outcome = "refused"
  BY <1>1 DEF WithRow
<1>2. CASE outcome # "refused"
  <2>1. f = [files EXCEPT ![s] = Append(files[s], row)]
    BY <1>2 DEF WithRow
  <2> QED BY <1>2, <2>1
<1> QED BY <1>1, <1>2

LEMMA AppendIs ==
  ASSUME NEW R, NEW s \in Seq(R), NEW r \in R
  PROVE  /\ Append(s, r) \in Seq(R)
         /\ DOMAIN s = 1 .. Len(s) /\ Len(s) \in Nat
         /\ Len(Append(s, r)) = Len(s) + 1
         /\ DOMAIN Append(s, r) = 1 .. Len(s) + 1
         /\ \A i \in 1 .. Len(s) : Append(s, r)[i] = s[i]
         /\ Append(s, r)[Len(s) + 1] = r
  OBVIOUS

(* A row of its kind keeps the type of its stream.                         *)
LEMMA AppendTyped ==
  ASSUME FilesOK(files), NEW s \in Streams, NEW R, files[s] \in Seq(R), NEW row \in R,
         NEW outcome, NEW f, f = WithRow(s, row, outcome)
  PROVE  /\ f = [t \in Streams |-> f[t]]
         /\ \A t \in Streams : t # s => f[t] = files[t]
         /\ f[s] \in Seq(R)
<1>1. files = [t \in Streams |-> files[t]]
  BY DEF FilesOK
<1>2. /\ f = [t \in Streams |-> f[t]]
      /\ \A t \in Streams : t # s => f[t] = files[t]
      /\ f = files \/ f[s] = Append(files[s], row)
  BY <1>1, WithRowIs
<1>3. Append(files[s], row) \in Seq(R)
  BY AppendIs
<1> QED BY <1>2, <1>3

(* In each stream, a row of its own kind.                                  *)
RowOf(s, row) ==
  \/ s = "history" /\ row \in HistoryRows
  \/ s = "failure_history" /\ row \in FailureRows
  \/ s = "archive_events" /\ row \in AdmissionRows
  \/ s = "controller_budget_events" /\ row \in BudgetRows
  \/ s = "llm_calls" /\ row \in CallRows
  \/ s = "prompt_history" /\ row \in PromptRows

LEMMA WithRowOK ==
  ASSUME FilesOK(files), NEW s, NEW row, RowOf(s, row), NEW outcome, NEW f, f = WithRow(s, row, outcome)
  PROVE  FilesOK(f)
<1>1. CASE s = "history" /\ row \in HistoryRows
  <2>1. s \in Streams /\ files[s] \in Seq(HistoryRows)
    BY <1>1 DEF FilesOK, Streams
  <2> QED BY <1>1, <2>1, AppendTyped DEF FilesOK, Streams
<1>2. CASE s = "failure_history" /\ row \in FailureRows
  <2>1. s \in Streams /\ files[s] \in Seq(FailureRows)
    BY <1>2 DEF FilesOK, Streams
  <2> QED BY <1>2, <2>1, AppendTyped DEF FilesOK, Streams
<1>3. CASE s = "archive_events" /\ row \in AdmissionRows
  <2>1. s \in Streams /\ files[s] \in Seq(AdmissionRows \cup MigrationTypes)
    BY <1>3 DEF FilesOK, Streams
  <2> DEFINE R == AdmissionRows \cup MigrationTypes
  <2>2. row \in R /\ files[s] \in Seq(R)
    BY <1>3, <2>1
  <2> HIDE DEF R
  <2>3. /\ f = [t \in Streams |-> f[t]]
        /\ \A t \in Streams : t # s => f[t] = files[t]
        /\ f[s] \in Seq(R)
    BY <2>1, <2>2, AppendTyped
  <2> QED BY <1>3, <2>3 DEF FilesOK, Streams, R
<1>4. CASE s = "controller_budget_events" /\ row \in BudgetRows
  <2>1. s \in Streams /\ files[s] \in Seq(BudgetRows)
    BY <1>4 DEF FilesOK, Streams
  <2> QED BY <1>4, <2>1, AppendTyped DEF FilesOK, Streams
<1>5. CASE s = "llm_calls" /\ row \in CallRows
  <2>1. s \in Streams /\ files[s] \in Seq(CallRows)
    BY <1>5 DEF FilesOK, Streams
  <2> QED BY <1>5, <2>1, AppendTyped DEF FilesOK, Streams
<1>6. CASE s = "prompt_history" /\ row \in PromptRows
  <2>1. s \in Streams /\ files[s] \in Seq(PromptRows)
    BY <1>6 DEF FilesOK, Streams
  <2> QED BY <1>6, <2>1, AppendTyped DEF FilesOK, Streams
<1> QED BY <1>1, <1>2, <1>3, <1>4, <1>5, <1>6 DEF RowOf

(***************************************************************************)
(* Where evolve stands.  What it has yet to do is the rest of one of a few *)
(* lists; StageOf says how far the candidate in hand, or the finalization, *)
(* has come.                                                               *)
(***************************************************************************)
Ops ==
  {"prompt", "seed_evaluation", "admit", "log_seed_failure", "log", "generation_started",
   "llm_call", "llm_event", "candidate_evaluation", "log_failure", "reward",
   "record_result", "migrate", "generation_completed", "interrupt",
   "stop", "export", "exporting", "history", "manifest"}
SeedFrom(k) == SubSeq(SeedSteps, k, 4)
ChildFrom(k) == SubSeq(ChildSteps, k, 11)
LastFrom(k) == SubSeq(Terminal, k, 4)
CallFailed == {<<"llm_event", "log_failure">>, <<"log_failure">>}
CallBroken == {<<"llm_event", "interrupt">>, <<"interrupt">>}
Exporting == <<"exporting">> \o LastFrom(3)

StageOf(ops) ==
  IF ops = <<>> THEN "between"
  ELSE IF ops \in CallFailed THEN "failed"
  ELSE LET op == Head(ops)
       IN  IF op = "prompt" THEN "opening"
           ELSE IF op \in {"log_seed_failure", "log_failure"} THEN "due"
           ELSE IF op \in {"reward", "log"} THEN "told"
           ELSE IF op \in {"record_result", "migrate", "generation_completed"} THEN "after"
           ELSE IF op \in {"stop", "export", "exporting", "history", "manifest"} THEN op
           ELSE "before"
Stage == StageOf(todo)

LastStages == {"stop", "export", "exporting", "history", "manifest"}

(* What is there is still to be removed.                                   *)
Cleared ==
  \A name \in Range(Managed) : Present(name) => name \in Range(todo)

StepsOf(seed, ops) ==
  \/ seed /\ \E k \in 1 .. 4 : ops = SeedFrom(k)
  \/ ~seed /\ \E k \in 1 .. 11 : ops = ChildFrom(k)
  \/ ~seed /\ ops \in CallFailed \cup CallBroken
InSteps == StepsOf(IsSeed, todo)

InLast == (\E k \in 1 .. 4 : todo = LastFrom(k)) \/ todo = Exporting

(* What evolve has yet to do is the rest of a list.                        *)
Control ==
  /\ current.id >= -1
  /\ \A a \in archived : a.id >= 0
  /\ pc = "off" => todo = <<>>
  /\ pc = "clearing" => Cleared
  /\ pc = "running" =>
       \/ todo \in Seq({"prompt"})
       \/ current \in Candidates /\ current.id >= 0 /\ InSteps
  /\ pc \in {"finishing", "aborting"} => InLast

(***************************************************************************)
(* The lists.                                                              *)
(***************************************************************************)
(* What is left of a list from its k-th operation on.                      *)
LEMMA RestOfList ==
  ASSUME NEW n \in Nat, NEW s \in Seq(Ops), Len(s) = n, NEW k \in 1 .. n
  PROVE  /\ SubSeq(s, k, n) # <<>> /\ Head(SubSeq(s, k, n)) = s[k]
         /\ SubSeq(s, k, n) \in Seq(Ops) /\ Len(SubSeq(s, k, n)) = n + 1 - k
         /\ Tail(SubSeq(s, k, n)) = SubSeq(s, k + 1, n)
<1> DEFINE r == SubSeq(s, k, n)
<1>1. r \in Seq(Ops) /\ Len(r) = n + 1 - k /\ \A i \in 1 .. n + 1 - k : r[i] = s[k + i - 1]
  OBVIOUS
<1>2. r # <<>> /\ Head(r) = s[k]
  BY <1>1
<1> DEFINE t == SubSeq(s, k + 1, n)
<1>3. t \in Seq(Ops) /\ Len(t) = n - k /\ \A i \in 1 .. n - k : t[i] = s[k + i]
  OBVIOUS
<1> HIDE DEF r, t
<1>4. /\ Tail(r) \in Seq(Ops) /\ Len(Tail(r)) = n - k
      /\ \A i \in 1 .. n - k : Tail(r)[i] = s[k + i]
  BY <1>1, <1>2
<1>5. Tail(r) = t
  BY <1>3, <1>4
<1> QED BY <1>1, <1>2, <1>5 DEF r, t

(* The lists, and what their elements are.                                 *)
LEMMA ListsAre ==
  /\ SeedSteps \in Seq(Ops) /\ Len(SeedSteps) = 4
  /\ ChildSteps \in Seq(Ops) /\ Len(ChildSteps) = 11
  /\ Terminal \in Seq(Ops) /\ Len(Terminal) = 4
<1>1. SeedSteps \in Seq(Ops) /\ Len(SeedSteps) = 4
  BY DEF SeedSteps, Ops
<1>2. ChildSteps \in Seq(Ops) /\ Len(ChildSteps) = 11
  BY DEF ChildSteps, Ops
<1>3. Terminal \in Seq(Ops) /\ Len(Terminal) = 4
  BY DEF Terminal, Ops
<1> QED BY <1>1, <1>2, <1>3

LEMMA SeedLists ==
  ASSUME NEW k \in 1 .. 4
  PROVE  /\ SeedFrom(k) # <<>> /\ Head(SeedFrom(k)) = SeedSteps[k]
         /\ SeedFrom(k) \in Seq(Ops) /\ Len(SeedFrom(k)) = 5 - k
         /\ Tail(SeedFrom(k)) = SeedFrom(k + 1)
<1>1. SeedSteps \in Seq(Ops) /\ Len(SeedSteps) = 4 /\ 4 \in Nat
  BY ListsAre
<1>2. 4 + 1 - k = 5 - k
  OBVIOUS
<1> QED BY <1>1, <1>2, RestOfList, Zenon DEF SeedFrom

LEMMA ChildLists ==
  ASSUME NEW k \in 1 .. 11
  PROVE  /\ ChildFrom(k) # <<>> /\ Head(ChildFrom(k)) = ChildSteps[k]
         /\ ChildFrom(k) \in Seq(Ops) /\ Len(ChildFrom(k)) = 12 - k
         /\ Tail(ChildFrom(k)) = ChildFrom(k + 1)
<1>1. ChildSteps \in Seq(Ops) /\ Len(ChildSteps) = 11 /\ 11 \in Nat
  BY ListsAre
<1>2. 11 + 1 - k = 12 - k
  OBVIOUS
<1> QED BY <1>1, <1>2, RestOfList, Zenon DEF ChildFrom

LEMMA LastLists ==
  ASSUME NEW k \in 1 .. 4
  PROVE  /\ LastFrom(k) # <<>> /\ Head(LastFrom(k)) = Terminal[k]
         /\ LastFrom(k) \in Seq(Ops) /\ Len(LastFrom(k)) = 5 - k
         /\ Tail(LastFrom(k)) = LastFrom(k + 1)
<1>1. Terminal \in Seq(Ops) /\ Len(Terminal) = 4 /\ 4 \in Nat
  BY ListsAre
<1>2. 4 + 1 - k = 5 - k
  OBVIOUS
<1> QED BY <1>1, <1>2, RestOfList, Zenon DEF LastFrom

(* A list from its first operation on is the list.                         *)
LEMMA WholeLists ==
  ASSUME NEW n \in Nat, NEW s \in Seq(Ops), Len(s) = n
  PROVE  SubSeq(s, n + 1, n) = <<>> /\ SubSeq(s, 1, n) = s
  OBVIOUS

(* Past its last operation nothing is left of a list.                      *)
LEMMA ListEnds ==
  /\ SeedFrom(5) = <<>> /\ ChildFrom(12) = <<>> /\ LastFrom(5) = <<>>
  /\ SeedFrom(1) = SeedSteps /\ ChildFrom(1) = ChildSteps /\ LastFrom(1) = Terminal
<1>1. SubSeq(SeedSteps, 5, 4) = <<>> /\ SubSeq(SeedSteps, 1, 4) = SeedSteps
  BY WholeLists, ListsAre
<1>2. SubSeq(ChildSteps, 12, 11) = <<>> /\ SubSeq(ChildSteps, 1, 11) = ChildSteps
  BY WholeLists, ListsAre
<1>3. SubSeq(Terminal, 5, 4) = <<>> /\ SubSeq(Terminal, 1, 4) = Terminal
  BY WholeLists, ListsAre
<1> QED BY <1>1, <1>2, <1>3 DEF SeedFrom, ChildFrom, LastFrom

LEMMA ExportingIs ==
  /\ Exporting \in Seq(Ops) /\ Exporting # <<>> /\ Head(Exporting) = "exporting"
  /\ Len(Exporting) = 3
  /\ Tail(Exporting) = LastFrom(3)
<1>1. LastFrom(3) \in Seq(Ops) /\ Len(LastFrom(3)) = 2
  <2>1. 3 \in 1 .. 4 /\ 5 - 3 = 2
    OBVIOUS
  <2> QED BY <2>1, LastLists, Zenon
<1> DEFINE l == LastFrom(3)
<1>2. l \in Seq(Ops) /\ Len(l) = 2
  BY <1>1
<1> HIDE DEF l
<1> DEFINE e == <<"exporting">> \o l
<1>3. /\ e \in Seq(Ops) /\ Len(e) = 3 /\ e[1] = "exporting"
      /\ \A i \in 1 .. 2 : e[i + 1] = l[i]
  BY <1>2 DEF Ops
<1> HIDE DEF e
<1>4. e # <<>> /\ Head(e) = "exporting"
  BY <1>3
<1>5. Tail(e) \in Seq(Ops) /\ Len(Tail(e)) = 2 /\ \A i \in 1 .. 2 : Tail(e)[i] = l[i]
  BY <1>3
<1>6. Tail(e) = l
  <2> DEFINE h == Tail(e)
  <2>1. h \in Seq(Ops) /\ Len(h) = 2 /\ \A i \in 1 .. 2 : h[i] = l[i]
    BY <1>5
  <2> HIDE DEF h
  <2>2. h \in [1 .. Len(h) -> Ops] /\ l \in [1 .. Len(l) -> Ops]
    BY <1>2, <2>1
  <2>3. h = l
    BY <1>2, <2>1, <2>2
  <2> QED BY <2>3 DEF h
<1> QED BY <1>3, <1>4, <1>6 DEF e, l, Exporting

(* The lists of a call that failed.                                        *)
LEMMA ShortLists ==
  /\ Head(<<"llm_event", "log_failure">>) = "llm_event"
  /\ Tail(<<"llm_event", "log_failure">>) = <<"log_failure">>
  /\ Head(<<"log_failure">>) = "log_failure" /\ Tail(<<"log_failure">>) = <<>>
  /\ Head(<<"llm_event", "interrupt">>) = "llm_event"
  /\ Tail(<<"llm_event", "interrupt">>) = <<"interrupt">>
  /\ Head(<<"interrupt">>) = "interrupt" /\ Tail(<<"interrupt">>) = <<>>
  OBVIOUS

(* The stage of each list.                                                 *)
LEMMA SeedStages ==
  /\ \A k \in 1 .. 2 : StageOf(SeedFrom(k)) = "before"
  /\ StageOf(SeedFrom(3)) = "due" /\ StageOf(SeedFrom(4)) = "told"
  /\ StageOf(SeedFrom(5)) = "between"
<1>1. \A k \in 1 .. 4 : SeedFrom(k) \notin CallFailed
  <2> SUFFICES ASSUME NEW k \in 1 .. 4 PROVE SeedFrom(k) \notin CallFailed
    OBVIOUS
  <2>1. Head(SeedFrom(k)) \notin {"llm_event", "log_failure"}
    BY SeedLists DEF SeedSteps
  <2> QED BY <2>1, ShortLists DEF CallFailed
<1>2. \A k \in 1 .. 4 : SeedFrom(k) # <<>> /\ Head(SeedFrom(k)) = SeedSteps[k]
  BY SeedLists
<1>3. SeedFrom(5) = <<>>
  BY ListEnds
<1>4. StageOf(SeedFrom(5)) = "between"
  BY <1>3 DEF StageOf
<1>5. ASSUME NEW k \in 1 .. 2 PROVE StageOf(SeedFrom(k)) = "before"
  <2>1. Head(SeedFrom(k)) \in {"seed_evaluation", "admit"}
    BY <1>2 DEF SeedSteps
  <2> QED BY <1>1, <1>2, <2>1 DEF StageOf
<1>6. Head(SeedFrom(3)) = "log_seed_failure" /\ Head(SeedFrom(4)) = "log"
  BY <1>2 DEF SeedSteps
<1>7. StageOf(SeedFrom(3)) = "due"
  BY <1>1, <1>2, <1>6 DEF StageOf
<1>8. StageOf(SeedFrom(4)) = "told"
  BY <1>1, <1>2, <1>6 DEF StageOf
<1> QED BY <1>4, <1>5, <1>7, <1>8

LEMMA ChildStages ==
  /\ \A k \in 1 .. 5 : StageOf(ChildFrom(k)) = "before"
  /\ StageOf(ChildFrom(6)) = "due"
  /\ \A k \in 7 .. 8 : StageOf(ChildFrom(k)) = "told"
  /\ \A k \in 9 .. 11 : StageOf(ChildFrom(k)) = "after"
  /\ StageOf(ChildFrom(12)) = "between"
<1>1. \A k \in 1 .. 11 : ChildFrom(k) \notin CallFailed
  <2> SUFFICES ASSUME NEW k \in 1 .. 11, ChildFrom(k) \in CallFailed PROVE FALSE
    OBVIOUS
  <2>1. Head(ChildFrom(k)) = ChildSteps[k] /\ Len(ChildFrom(k)) = 12 - k
    BY ChildLists
  <2>2. \/ Head(ChildFrom(k)) = "llm_event" /\ Len(ChildFrom(k)) = 2
        \/ Head(ChildFrom(k)) = "log_failure" /\ Len(ChildFrom(k)) = 1
    BY DEF CallFailed
  <2>3. k \notin {10, 11}
    BY <2>1, <2>2 DEF ChildSteps
  <2> QED BY <2>1, <2>2, <2>3
<1>2. \A k \in 1 .. 11 : ChildFrom(k) # <<>> /\ Head(ChildFrom(k)) = ChildSteps[k]
  BY ChildLists
<1>3. ASSUME NEW k \in 1 .. 5 PROVE StageOf(ChildFrom(k)) = "before"
  <2>1. Head(ChildFrom(k)) \in {"generation_started", "llm_call", "llm_event",
                                "candidate_evaluation", "admit"}
    BY <1>2 DEF ChildSteps
  <2> QED BY <1>1, <1>2, <2>1 DEF StageOf
<1>4. StageOf(ChildFrom(6)) = "due"
  <2>1. Head(ChildFrom(6)) = "log_failure"
    BY <1>2 DEF ChildSteps
  <2> QED BY <1>1, <1>2, <2>1 DEF StageOf
<1>5. ASSUME NEW k \in 7 .. 8 PROVE StageOf(ChildFrom(k)) = "told"
  <2>1. Head(ChildFrom(k)) \in {"reward", "log"}
    BY <1>2 DEF ChildSteps
  <2> QED BY <1>1, <1>2, <2>1 DEF StageOf
<1>6. ASSUME NEW k \in 9 .. 11 PROVE StageOf(ChildFrom(k)) = "after"
  <2>1. Head(ChildFrom(k)) \in {"record_result", "migrate", "generation_completed"}
    BY <1>2 DEF ChildSteps
  <2> QED BY <1>1, <1>2, <2>1 DEF StageOf
<1>7. StageOf(ChildFrom(12)) = "between"
  BY ListEnds DEF StageOf
<1> QED BY <1>3, <1>4, <1>5, <1>6, <1>7

LEMMA LastStagesAre ==
  /\ \A k \in 1 .. 4 : StageOf(LastFrom(k)) = Terminal[k]
  /\ StageOf(LastFrom(5)) = "between" /\ StageOf(Exporting) = "exporting"
<1>1. ASSUME NEW ops, ops # <<>>, Head(ops) \in LastStages
      PROVE  StageOf(ops) = Head(ops)
  <2>1. ops \notin CallFailed
    BY <1>1, ShortLists DEF CallFailed, LastStages
  <2> QED BY <1>1, <2>1 DEF StageOf, LastStages
<1>2. \A k \in 1 .. 4 : Terminal[k] \in LastStages
  BY DEF Terminal, LastStages
<1>3. \A k \in 1 .. 4 : StageOf(LastFrom(k)) = Terminal[k]
  BY <1>1, <1>2, LastLists
<1>4. StageOf(Exporting) = "exporting"
  BY <1>1, ExportingIs DEF LastStages
<1>5. StageOf(LastFrom(5)) = "between"
  BY ListEnds DEF StageOf
<1> QED BY <1>3, <1>4, <1>5

LEMMA ShortStages ==
  /\ \A ops \in CallFailed : StageOf(ops) = "failed"
  /\ \A ops \in CallBroken : StageOf(ops) = "before"
  /\ StageOf(<<>>) = "between"
<1>1. \A ops \in CallFailed : ops # <<>>
  BY DEF CallFailed
<1>2. ASSUME NEW ops \in CallBroken
      PROVE  /\ ops # <<>> /\ ops \notin CallFailed
             /\ Head(ops) \in {"llm_event", "interrupt"}
  <2>1. CASE ops = <<"llm_event", "interrupt">>
    BY <2>1 DEF CallFailed
  <2>2. CASE ops = <<"interrupt">>
    BY <2>2, ShortLists DEF CallFailed
  <2> QED BY <1>2, <2>1, <2>2 DEF CallBroken
<1> QED BY <1>1, <1>2 DEF StageOf

LEMMA PromptStages ==
  ASSUME NEW ops \in Seq({"prompt"})
  PROVE  /\ ops = <<>> \/ StageOf(ops) = "opening"
         /\ ops # <<>> => Head(ops) = "prompt" /\ Tail(ops) \in Seq({"prompt"})
<1>1. CASE ops # <<>>
  <2>1. Head(ops) = "prompt" /\ Tail(ops) \in Seq({"prompt"})
    BY <1>1
  <2>2. ops \notin CallFailed
    BY <2>1, ShortLists DEF CallFailed
  <2> QED BY <1>1, <2>1, <2>2 DEF StageOf
<1> QED BY <1>1

(***************************************************************************)
(* How the runs in the directory ended.                                    *)
(***************************************************************************)
(* A run whose records no exception cut short.                             *)
Sound == pc \in {"running", "finishing"} \/ (pc = "off" /\ Fate = "completed")

(* A run under way has the startup manifest; what is over says how it      *)
(* ended.                                                                  *)
FateOK ==
  /\ pc = "off" => Fate \in {"none", "cleared", "completed", "aborted", "killed"}
  /\ pc = "clearing" => Fate \in {"none", "cleared"}
  /\ Live => run >= 1 /\ Fate = "under way" /\ manifest = [run |-> run, runtime |-> Nothing]
  /\ Fate \in {"completed", "aborted", "killed"} => manifest # Nothing
  /\ run = 0 => export = Idle /\ \A name \in Range(Managed) : ~Present(name)

(***************************************************************************)
(* What an operation at the head of the list says of the list.             *)
(***************************************************************************)
(* A candidate is in hand.                                                 *)
Going == pc = "running" /\ current \in Candidates /\ current.id >= 0

(* The lists an operation may be the head of.                              *)
LEMMA AtSteps ==
  ASSUME Control, NEW op \in Ops, Doing(op)
  PROVE  \/ pc = "running" /\ op = "prompt" /\ todo \in Seq({"prompt"}) /\ Stage = "opening"
         \/ Going /\ IsSeed /\ \E k \in 1 .. 4 : op = SeedSteps[k] /\ todo = SeedFrom(k)
         \/ Going /\ ~IsSeed /\ \E k \in 1 .. 11 : op = ChildSteps[k] /\ todo = ChildFrom(k)
         \/ Going /\ ~IsSeed /\ todo \in CallFailed \cup CallBroken /\ op = Head(todo)
         \/ pc \in {"finishing", "aborting"} /\ \E k \in 1 .. 4 : op = Terminal[k] /\ todo = LastFrom(k)
         \/ pc \in {"finishing", "aborting"} /\ op = "exporting" /\ todo = Exporting
<1>1. todo # <<>> /\ Head(todo) = op /\ pc \in {"running", "finishing", "aborting"}
  BY DEF Doing
<1>2. CASE pc = "running"
  <2>1. CASE todo \in Seq({"prompt"})
    BY <1>1, <1>2, <2>1, PromptStages DEF Stage
  <2>2. CASE Going /\ InSteps
    BY <1>1, <2>2, SeedLists, ChildLists DEF InSteps, StepsOf
  <2> QED BY <1>2, <2>1, <2>2 DEF Control, Going
<1>3. CASE pc # "running"
  BY <1>1, <1>3, LastLists, ExportingIs DEF Control, InLast
<1> QED BY <1>2, <1>3

(* An operation is in one place of a list.                                 *)
LEMMA OpsDiffer ==
  /\ \A k \in 1 .. 4 : SeedSteps[k] \in {"seed_evaluation", "admit", "log_seed_failure", "log"}
  /\ \A k \in 1 .. 4 : SeedSteps[k] = "seed_evaluation" => k = 1
  /\ \A k \in 1 .. 4 : SeedSteps[k] = "admit" => k = 2
  /\ \A k \in 1 .. 4 : SeedSteps[k] = "log_seed_failure" => k = 3
  /\ \A k \in 1 .. 4 : SeedSteps[k] = "log" => k = 4
  /\ \A k \in 1 .. 11 :
       ChildSteps[k] \in {"generation_started", "llm_call", "llm_event", "candidate_evaluation",
          "admit", "log_failure", "reward", "log", "record_result", "migrate",
          "generation_completed"}
  /\ \A k \in 1 .. 11 : ChildSteps[k] = "generation_started" => k = 1
  /\ \A k \in 1 .. 11 : ChildSteps[k] = "llm_call" => k = 2
  /\ \A k \in 1 .. 11 : ChildSteps[k] = "llm_event" => k = 3
  /\ \A k \in 1 .. 11 : ChildSteps[k] = "candidate_evaluation" => k = 4
  /\ \A k \in 1 .. 11 : ChildSteps[k] = "admit" => k = 5
  /\ \A k \in 1 .. 11 : ChildSteps[k] = "log_failure" => k = 6
  /\ \A k \in 1 .. 11 : ChildSteps[k] = "reward" => k = 7
  /\ \A k \in 1 .. 11 : ChildSteps[k] = "log" => k = 8
  /\ \A k \in 1 .. 11 : ChildSteps[k] = "record_result" => k = 9
  /\ \A k \in 1 .. 11 : ChildSteps[k] = "migrate" => k = 10
  /\ \A k \in 1 .. 11 : ChildSteps[k] = "generation_completed" => k = 11
  /\ \A k \in 1 .. 4 : Terminal[k] \in {"stop", "export", "history", "manifest"}
  /\ \A k \in 1 .. 4 : Terminal[k] = "stop" => k = 1
  /\ \A k \in 1 .. 4 : Terminal[k] = "export" => k = 2
  /\ \A k \in 1 .. 4 : Terminal[k] = "history" => k = 3
  /\ \A k \in 1 .. 4 : Terminal[k] = "manifest" => k = 4
  BY DEF SeedSteps, ChildSteps, Terminal

LEMMA ShortHeads ==
  \A ops \in CallFailed \cup CallBroken :
    /\ ops # <<>>
    /\ Head(ops) \in {"llm_event", "log_failure", "interrupt"}
    /\ Head(ops) = "interrupt" => ops = <<"interrupt">>
    /\ Head(ops) = "log_failure" => ops = <<"log_failure">>
    /\ Head(ops) = "llm_event" => ops \in {<<"llm_event", "log_failure">>, <<"llm_event", "interrupt">>}
  BY ShortLists DEF CallFailed, CallBroken

(* Operation by operation.                                                 *)
LEMMA AtPrompt ==
  ASSUME Control, Doing("prompt")
  PROVE  pc = "running" /\ todo \in Seq({"prompt"}) /\ Stage = "opening"
<1>1. "prompt" \in Ops
  BY DEF Ops
<1> QED BY <1>1, AtSteps, OpsDiffer, ShortHeads

LEMMA AtBudget ==
  ASSUME Control, NEW kind \in {"seed_evaluation", "generation_started", "candidate_evaluation",
                                "generation_completed"}, Doing(kind)
  PROVE  /\ Going
         /\ \/ kind = "seed_evaluation" /\ IsSeed /\ todo = SeedFrom(1)
            \/ kind = "generation_started" /\ ~IsSeed /\ todo = ChildFrom(1)
            \/ kind = "candidate_evaluation" /\ ~IsSeed /\ todo = ChildFrom(4)
            \/ kind = "generation_completed" /\ ~IsSeed /\ todo = ChildFrom(11)
<1>1. kind \in Ops
  BY DEF Ops
<1>2. CASE kind = "seed_evaluation"
  BY <1>1, <1>2, AtSteps, OpsDiffer, ShortHeads
<1>3. CASE kind = "generation_started"
  BY <1>1, <1>3, AtSteps, OpsDiffer, ShortHeads
<1>4. CASE kind = "candidate_evaluation"
  BY <1>1, <1>4, AtSteps, OpsDiffer, ShortHeads
<1>5. CASE kind = "generation_completed"
  BY <1>1, <1>5, AtSteps, OpsDiffer, ShortHeads
<1> QED BY <1>2, <1>3, <1>4, <1>5

LEMMA AtCall ==
  ASSUME Control, Doing("llm_call")
  PROVE  Going /\ ~IsSeed /\ todo = ChildFrom(2)
<1>1. "llm_call" \in Ops
  BY DEF Ops
<1> QED BY <1>1, AtSteps, OpsDiffer, ShortHeads

LEMMA AtCallEvent ==
  ASSUME Control, Doing("llm_event")
  PROVE  /\ Going /\ ~IsSeed
         /\ todo \in {ChildFrom(3), <<"llm_event", "log_failure">>, <<"llm_event", "interrupt">>}
<1>1. "llm_event" \in Ops
  BY DEF Ops
<1> QED BY <1>1, AtSteps, OpsDiffer, ShortHeads

LEMMA AtInterrupt ==
  ASSUME Control, Doing("interrupt")
  PROVE  Going /\ ~IsSeed /\ todo = <<"interrupt">>
<1>1. "interrupt" \in Ops
  BY DEF Ops
<1> QED BY <1>1, AtSteps, OpsDiffer, ShortHeads

LEMMA AtAdmit ==
  ASSUME Control, Doing("admit")
  PROVE  /\ Going
         /\ \/ IsSeed /\ todo = SeedFrom(2)
            \/ ~IsSeed /\ todo = ChildFrom(5)
<1>1. "admit" \in Ops
  BY DEF Ops
<1>2. \/ Going /\ IsSeed /\ \E k \in 1 .. 4 : "admit" = SeedSteps[k] /\ todo = SeedFrom(k)
      \/ Going /\ ~IsSeed /\ \E k \in 1 .. 11 : "admit" = ChildSteps[k] /\ todo = ChildFrom(k)
      \/ Going /\ ~IsSeed /\ todo \in CallFailed \cup CallBroken /\ "admit" = Head(todo)
      \/ \E k \in 1 .. 4 : "admit" = Terminal[k]
  BY <1>1, AtSteps
<1>3. CASE IsSeed
  <2>1. \A k \in 1 .. 4 : "admit" # Terminal[k]
    BY OpsDiffer
  <2>2. PICK k \in 1 .. 4 : Going /\ SeedSteps[k] = "admit" /\ todo = SeedFrom(k)
    BY <1>2, <1>3, <2>1
  <2>3. k = 2
    BY <2>2, OpsDiffer
  <2> QED BY <1>3, <2>2, <2>3, Zenon
<1>4. CASE ~IsSeed
  BY <1>2, <1>4, OpsDiffer, ShortHeads
<1> QED BY <1>3, <1>4

LEMMA AtFailure ==
  ASSUME Control, Doing("log_failure") \/ Doing("log_seed_failure")
  PROVE  /\ Going
         /\ \/ IsSeed /\ todo = SeedFrom(3)
            \/ ~IsSeed /\ todo \in {ChildFrom(6), <<"log_failure">>}
<1>1. "log_failure" \in Ops /\ "log_seed_failure" \in Ops
  BY DEF Ops
<1>2. CASE Doing("log_failure")
  BY <1>1, <1>2, AtSteps, OpsDiffer, ShortHeads
<1>3. CASE Doing("log_seed_failure")
  BY <1>1, <1>3, AtSteps, OpsDiffer, ShortHeads
<1> QED BY <1>2, <1>3

LEMMA AtReward ==
  ASSUME Control, Doing("reward")
  PROVE  Going /\ ~IsSeed /\ todo = ChildFrom(7)
<1>1. "reward" \in Ops
  BY DEF Ops
<1> QED BY <1>1, AtSteps, OpsDiffer, ShortHeads

LEMMA AtLog ==
  ASSUME Control, Doing("log")
  PROVE  /\ Going
         /\ \/ IsSeed /\ todo = SeedFrom(4)
            \/ ~IsSeed /\ todo = ChildFrom(8)
<1>1. "log" \in Ops
  BY DEF Ops
<1>2. \/ Going /\ IsSeed /\ \E k \in 1 .. 4 : "log" = SeedSteps[k] /\ todo = SeedFrom(k)
      \/ Going /\ ~IsSeed /\ \E k \in 1 .. 11 : "log" = ChildSteps[k] /\ todo = ChildFrom(k)
      \/ Going /\ ~IsSeed /\ todo \in CallFailed \cup CallBroken /\ "log" = Head(todo)
      \/ \E k \in 1 .. 4 : "log" = Terminal[k]
  BY <1>1, AtSteps
<1>3. CASE IsSeed
  <2>1. \A k \in 1 .. 4 : "log" # Terminal[k]
    BY OpsDiffer
  <2>2. PICK k \in 1 .. 4 : Going /\ SeedSteps[k] = "log" /\ todo = SeedFrom(k)
    BY <1>2, <1>3, <2>1
  <2>3. k = 4
    BY <2>2, OpsDiffer
  <2> QED BY <1>3, <2>2, <2>3, Zenon
<1>4. CASE ~IsSeed
  BY <1>2, <1>4, OpsDiffer, ShortHeads
<1> QED BY <1>3, <1>4

LEMMA AtResult ==
  ASSUME Control, Doing("record_result")
  PROVE  Going /\ ~IsSeed /\ todo = ChildFrom(9)
<1>1. "record_result" \in Ops
  BY DEF Ops
<1> QED BY <1>1, AtSteps, OpsDiffer, ShortHeads

LEMMA AtMigrate ==
  ASSUME Control, Doing("migrate")
  PROVE  Going /\ ~IsSeed /\ todo = ChildFrom(10)
<1>1. "migrate" \in Ops
  BY DEF Ops
<1> QED BY <1>1, AtSteps, OpsDiffer, ShortHeads

LEMMA AtLast ==
  ASSUME Control, NEW op \in LastStages, Doing(op)
  PROVE  /\ pc \in {"finishing", "aborting"}
         /\ \/ op = "stop" /\ todo = LastFrom(1)
            \/ op = "export" /\ todo = LastFrom(2)
            \/ op = "exporting" /\ todo = Exporting
            \/ op = "history" /\ todo = LastFrom(3)
            \/ op = "manifest" /\ todo = LastFrom(4)
<1>1. op \in Ops
  BY DEF Ops, LastStages
<1>2. CASE op = "stop"
  BY <1>1, <1>2, AtSteps, OpsDiffer, ShortHeads
<1>3. CASE op = "export"
  BY <1>1, <1>3, AtSteps, OpsDiffer, ShortHeads
<1>4. CASE op = "exporting"
  BY <1>1, <1>4, AtSteps, OpsDiffer, ShortHeads
<1>5. CASE op = "history"
  BY <1>1, <1>5, AtSteps, OpsDiffer, ShortHeads
<1>6. CASE op = "manifest"
  BY <1>1, <1>6, AtSteps, OpsDiffer, ShortHeads
<1> QED BY <1>2, <1>3, <1>4, <1>5, <1>6 DEF LastStages

(***************************************************************************)
(* Types are kept.                                                         *)
(***************************************************************************)
(* Sequences and the sets of their elements.                               *)
LEMMA RangeSeq ==
  ASSUME NEW S, NEW s, s \in Seq(S)
  PROVE  s \in Seq(Range(s)) /\ \A x \in Range(s) : x \in S
<1>1. s \in [1 .. Len(s) -> S] /\ Len(s) \in Nat
  OBVIOUS
<1>2. \A i \in 1 .. Len(s) : s[i] \in Range(s)
  BY <1>1 DEF Range
<1>3. s \in [1 .. Len(s) -> Range(s)]
  BY <1>1, <1>2
<1> QED BY <1>1, <1>3 DEF Range

LEMMA TailSeq ==
  ASSUME NEW s, s \in Seq(Range(s)), s # <<>>
  PROVE  Tail(s) \in Seq(Range(Tail(s)))
<1>1. Tail(s) \in Seq(Range(s))
  OBVIOUS
<1> QED BY <1>1, RangeSeq

LEMMA TerminalSeq == Terminal \in Seq(Range(Terminal))
  BY ListsAre, RangeSeq

(* A candidate takes the next number.                                      *)
LEMMA NextCandidate ==
  ASSUME ControlType, NEW valid \in BOOLEAN, NEW score \in Scores, NEW print \in Prints,
         NEW paths \in PathNames, NEW parent, parent.id \in Int, parent.score \in Int,
         NEW prompt \in Int
  PROVE  /\ Candidate(valid, score, print, paths, parent, prompt) \in Candidates
         /\ Candidate(valid, score, print, paths, parent, prompt).id = current.id + 1
         /\ Candidate(valid, score, print, paths, parent, prompt).parent = parent.id
<1>1. current.id \in Int
  BY DEF ControlType, Candidates, NoCandidate
<1>2. (IF valid THEN score ELSE 0) \in Int
  BY ArtifactsAssumption
<1> DEFINE eligible == valid /\ score >= Threshold
<1>3. (IF eligible THEN "none" ELSE print) \in PrintNames
  BY DEF PrintNames
<1>4. (IF eligible THEN "plain" ELSE paths) \in PathNames
  BY DEF PathNames
<1> QED BY <1>1, <1>2, <1>3, <1>4 DEF Candidate, Candidates, NextId

LEMMA FailedCandidate ==
  ASSUME current \in Candidates
  PROVE  FailedProposal \in Candidates /\ FailedProposal.id = current.id
         /\ FailedProposal.parent = current.parent /\ ~FailedProposal.valid
<1> DEFINE a == [current EXCEPT !.valid = FALSE]
           b == [a EXCEPT !.score = 0]
           c == [b EXCEPT !.print = "llm"]
<1>1. a \in Candidates /\ a.id = current.id /\ a.parent = current.parent /\ a.valid = FALSE
  BY DEF Candidates
<1> HIDE DEF a
<1>2. b \in Candidates /\ b.id = current.id /\ b.parent = current.parent /\ b.valid = FALSE
  BY <1>1 DEF Candidates
<1> HIDE DEF b
<1>3. c \in Candidates /\ c.id = current.id /\ c.parent = current.parent /\ c.valid = FALSE
  BY <1>2 DEF Candidates, PrintNames
<1>4. FailedProposal = c
  BY DEF FailedProposal, a, b
<1> QED BY <1>3, <1>4

(* The rows of the operations.                                             *)
LEMMA RowTypes ==
  ASSUME TypeOK, NEW c \in Candidates
  PROVE  /\ FailureRow(c) \in FailureRows
         /\ \A taken \in BOOLEAN :
              /\ [id |-> c.id, admitted |-> taken, valid |-> c.valid, score |-> c.score,
                  parent |-> c.parent, paths |-> c.paths, run |-> run] \in HistoryRows
              /\ [type |-> "admission", number |-> admissions + 1, id |-> c.id,
                  reason |-> AdmissionReason(c, taken), run |-> run] \in AdmissionRows
<1>1. Repetitions(c.print) \in Nat
  <2>1. {i \in DOMAIN failures : failures[i].print = c.print} \in SUBSET (1 .. Len(failures))
    BY DEF TypeOK, MemoryType
  <2>2. Len(failures) \in Nat
    BY DEF TypeOK, MemoryType
  <2>3. IsFiniteSet({i \in DOMAIN failures : failures[i].print = c.print})
    BY <2>1, <2>2, FS_Interval, FS_Subset
  <2> QED BY <2>3, FS_CardinalityType DEF Repetitions
<1>2. run \in Nat /\ admissions \in Nat
  BY DEF TypeOK, ControlType, MemoryType
<1>3. FailureRow(c) \in FailureRows
  BY <1>1, <1>2 DEF FailureRow, FailureRows, Candidates
<1>4. ASSUME NEW taken \in BOOLEAN
      PROVE  AdmissionReason(c, taken) \in Reasons
  BY DEF AdmissionReason, Reasons
<1>5. ASSUME NEW taken \in BOOLEAN
      PROVE  /\ [id |-> c.id, admitted |-> taken, valid |-> c.valid, score |-> c.score,
                  parent |-> c.parent, paths |-> c.paths, run |-> run] \in HistoryRows
             /\ [type |-> "admission", number |-> admissions + 1, id |-> c.id,
                  reason |-> AdmissionReason(c, taken), run |-> run] \in AdmissionRows
  BY <1>2, <1>4 DEF HistoryRows, AdmissionRows, Candidates
<1> QED BY <1>3, <1>5

LEMMA AdmitType ==
  ASSUME TypeOK, NEW c \in Candidates, NEW taken \in BOOLEAN, NEW outcome, Admit(c, taken, outcome)
  PROVE  FilesOK(files') /\ MemoryType'
<1>1. FilesOK(files')
  <2>1. RowOf("archive_events", [type |-> "admission", number |-> admissions + 1, id |-> c.id,
                  reason |-> AdmissionReason(c, taken), run |-> run])
    BY RowTypes DEF RowOf
  <2> QED BY <2>1, WithRowOK DEF Admit, TypeOK
<1>2. MemoryType'
  BY DEF Admit, TypeOK, MemoryType
<1> QED BY <1>1, <1>2

LEMMA LogFailureType ==
  ASSUME TypeOK, NEW c \in Candidates, NEW outcome, LogFailure(c, outcome)
  PROVE  FilesOK(files') /\ MemoryType'
<1>1. FilesOK(files')
  <2>1. RowOf("failure_history", FailureRow(c))
    BY RowTypes DEF RowOf
  <2> QED BY <2>1, WithRowOK DEF LogFailure, TypeOK
<1>2. failures' \in Seq(FailureRows)
  BY RowTypes, AppendIs DEF LogFailure, TypeOK, MemoryType
<1>3. MemoryType'
  BY <1>2 DEF LogFailure, TypeOK, MemoryType
<1> QED BY <1>1, <1>3

LEMMA LogType ==
  ASSUME TypeOK, NEW c \in Candidates, NEW taken \in BOOLEAN, NEW outcome, Log(c, taken, outcome)
  PROVE  FilesOK(files') /\ MemoryType'
<1>1. FilesOK(files')
  <2>1. RowOf("history", [id |-> c.id, admitted |-> taken, valid |-> c.valid, score |-> c.score,
                  parent |-> c.parent, paths |-> c.paths, run |-> run])
    BY RowTypes DEF RowOf
  <2> QED BY <2>1, WithRowOK DEF Log, TypeOK
<1>2. logged' \in Seq(Int)
  BY DEF Log, TypeOK, MemoryType, Candidates
<1>3. MemoryType'
  BY <1>2 DEF Log, TypeOK, MemoryType
<1> QED BY <1>1, <1>3

LEMMA BudgetEventType ==
  ASSUME TypeOK, NEW kind \in BudgetKinds, NEW outcome, LogControllerBudgetEvent(kind, outcome)
  PROVE  FilesOK(files') /\ MemoryType'
<1>1. FilesOK(files')
  <2>1. RowOf("controller_budget_events", [kind |-> kind, number |-> budgetEvents, run |-> run])
    BY DEF RowOf, BudgetRows, TypeOK, MemoryType, ControlType
  <2> QED BY <2>1, WithRowOK DEF LogControllerBudgetEvent, TypeOK
<1>2. MemoryType'
  BY DEF LogControllerBudgetEvent, TypeOK, MemoryType
<1> QED BY <1>1, <1>2

LEMMA CallType ==
  ASSUME TypeOK, NEW type \in {"call", "reward"}, NEW outcome, LogLLMCall(type, outcome)
  PROVE  FilesOK(files') /\ MemoryType'
<1>1. FilesOK(files')
  <2>1. RowOf("llm_calls", [type |-> type, number |-> IF type = "call" THEN llmCalls + 1 ELSE 0,
                            run |-> run])
    BY DEF RowOf, CallRows, TypeOK, MemoryType, ControlType
  <2> QED BY <2>1, WithRowOK DEF LogLLMCall, TypeOK
<1>2. MemoryType'
  BY DEF LogLLMCall, TypeOK, MemoryType
<1> QED BY <1>1, <1>2

LEMMA MigrateType ==
  ASSUME TypeOK, NEW outcome, MaybeMigrate(outcome)
  PROVE  FilesOK(files') /\ MemoryType'
<1>1. PICK n \in 1 .. MaxHops : \E k \in 0 .. n :
        /\ hops' = hops + n
        /\ files' = [files EXCEPT !["archive_events"] = @ \o MigrationRows(k)]
  BY DEF MaybeMigrate
<1>2. PICK k \in 0 .. n :
        /\ hops' = hops + n
        /\ files' = [files EXCEPT !["archive_events"] = @ \o MigrationRows(k)]
  BY <1>1
<1>3. n \in Nat /\ k \in Nat
  BY ArtifactsAssumption
<1>4. MigrationRows(k) \in Seq(AdmissionRows \cup MigrationTypes)
  BY <1>3 DEF MigrationRows, MigrationTypes, TypeOK, MemoryType, ControlType
<1>5. FilesOK(files')
  <2> DEFINE R == AdmissionRows \cup MigrationTypes
             e == files["archive_events"] \o MigrationRows(k)
  <2>1. files["archive_events"] \in Seq(R) /\ files = [s \in Streams |-> files[s]]
    BY DEF TypeOK, FilesOK
  <2>2. MigrationRows(k) \in Seq(R)
    BY <1>4
  <2> HIDE DEF R
  <2>3. e \in Seq(R)
    BY <2>1, <2>2
  <2>4. files' = [files EXCEPT !["archive_events"] = e]
    BY <1>2
  <2> HIDE DEF e
  <2>5. /\ files' = [s \in Streams |-> files'[s]]
        /\ files'["archive_events"] = e
        /\ \A s \in Streams : s # "archive_events" => files'[s] = files[s]
    BY <2>1, <2>4 DEF Streams
  <2> QED BY <2>3, <2>5 DEF FilesOK, R, TypeOK, Streams
<1>6. MemoryType'
  BY <1>2, <1>3 DEF MaybeMigrate, TypeOK, MemoryType
<1> QED BY <1>5, <1>6

(* The prompts.                                                            *)
LEMMA ScoredType ==
  ASSUME NEW p \in PromptPrograms, NEW reward \in Int
  PROVE  /\ Scored(p, reward) \in PromptPrograms
         /\ Scored(p, reward).id = p.id
         /\ Scored(p, reward).uses >= p.uses /\ Scored(p, reward).sum >= p.sum
<1>1. Normalized(reward) \in Nat
  BY ArtifactsAssumption DEF Normalized
<1> DEFINE n == Normalized(reward)
           q == [p EXCEPT !.uses = @ + 1]
<1> HIDE DEF n
<1>2. q \in PromptPrograms /\ q.id = p.id /\ q.uses = p.uses + 1 /\ q.sum = p.sum
  BY DEF PromptPrograms
<1> HIDE DEF q
<1> DEFINE r == [q EXCEPT !.sum = @ + n]
<1>3. r \in PromptPrograms /\ r.id = p.id /\ r.uses >= p.uses /\ r.sum >= p.sum
  BY <1>1, <1>2 DEF PromptPrograms, n
<1>4. Scored(p, reward) = r
  BY DEF Scored, q, n
<1> QED BY <1>3, <1>4

LEMMA AddSeedType ==
  ASSUME TypeOK, NEW outcome, AddSeed(outcome)
  PROVE  FilesOK(files') /\ PromptsType'
<1>1. SeedPrompt(Len(prompts) + 1) \in PromptPrograms
  BY DEF SeedPrompt, PromptPrograms, TypeOK, PromptsType
<1>2. PromptRow("add", SeedPrompt(Len(prompts) + 1)) \in PromptRows
  BY <1>1 DEF PromptRow, PromptRows, PromptPrograms, TypeOK, ControlType
<1>3. RowOf("prompt_history", PromptRow("add", SeedPrompt(Len(prompts) + 1)))
  BY <1>2 DEF RowOf
<1>4. FilesOK(files')
  BY <1>3, WithRowOK DEF AddSeed, TypeOK
<1>5. Append(prompts, SeedPrompt(Len(prompts) + 1)) \in Seq(PromptPrograms)
  BY <1>1, AppendIs DEF TypeOK, PromptsType
<1> QED BY <1>4, <1>5 DEF AddSeed, TypeOK, PromptsType

LEMMA ResultType ==
  ASSUME TypeOK, NEW id, NEW reward \in Int, NEW outcome, RecordResult(id, reward, outcome)
  PROVE  FilesOK(files') /\ PromptsType'
<1>1. PICK i \in DOMAIN prompts :
        /\ files' = WithRow("prompt_history", PromptRow("score", Scored(prompts[i], reward)), outcome)
        /\ prompts' = IF outcome = "written" THEN [prompts EXCEPT ![i] = Scored(@, reward)]
                      ELSE prompts
  BY DEF RecordResult
<1>2. prompts[i] \in PromptPrograms /\ prompts \in Seq(PromptPrograms)
  BY DEF TypeOK, PromptsType
<1> DEFINE p == Scored(prompts[i], reward)
<1>3. p \in PromptPrograms
  BY <1>2, ScoredType
<1> HIDE DEF p
<1>4. PromptRow("score", p) \in PromptRows
  BY <1>3 DEF PromptRow, PromptRows, PromptPrograms, TypeOK, ControlType
<1>5. RowOf("prompt_history", PromptRow("score", p))
  BY <1>4 DEF RowOf
<1>6. FilesOK(files')
  BY <1>1, <1>5, WithRowOK DEF TypeOK, p
<1>7. [prompts EXCEPT ![i] = p] \in Seq(PromptPrograms)
  BY <1>2, <1>3
<1> QED BY <1>1, <1>2, <1>6, <1>7 DEF PromptsType, p

(* The results of the evaluator, written anew.                             *)
LEMMA ResultsType ==
  ASSUME TypeOK, NEW results \in Seq(ResultRows)
  PROVE  /\ FilesOK(WithResults(results))
         /\ \A s \in Streams : s # "evaluator_results" => WithResults(results)[s] = files[s]
         /\ WithResults(results)["evaluator_results"] = results
<1>1. WithResults(results) = [files EXCEPT !["evaluator_results"] = results]
  BY DEF WithResults
<1>2. files = [s \in Streams |-> files[s]]
  BY DEF TypeOK, FilesOK
<1>3. /\ WithResults(results) = [s \in Streams |-> WithResults(results)[s]]
      /\ \A s \in Streams : s # "evaluator_results" => WithResults(results)[s] = files[s]
      /\ WithResults(results)["evaluator_results"] = results
  BY <1>1, <1>2 DEF Streams
<1> QED BY <1>3 DEF TypeOK, FilesOK, Streams

LEMMA EvaluatorResultsType ==
  ASSUME TypeOK
  PROVE  EvaluatorResults \in Seq(ResultRows) /\ <<>> \in Seq(ResultRows)
         /\ \A i \in DOMAIN EvaluatorResults : EvaluatorResults[i].run = run
<1>1. DOMAIN logged = 1 .. Len(logged) /\ \A i \in 1 .. Len(logged) : logged[i] \in Int
  BY DEF TypeOK, MemoryType
<1>2. run \in Nat /\ Len(logged) \in Nat
  BY DEF TypeOK, MemoryType, ControlType
<1>3. \A i \in 1 .. Len(logged) : [id |-> logged[i], run |-> run] \in ResultRows
  BY <1>1, <1>2 DEF ResultRows
<1>4. EvaluatorResults = [i \in 1 .. Len(logged) |-> [id |-> logged[i], run |-> run]]
  BY <1>1 DEF EvaluatorResults
<1> QED BY <1>2, <1>3, <1>4

(***************************************************************************)
(* What a step makes of the list.                                          *)
(***************************************************************************)
(* The lists are sequences of operations.                                  *)
LEMMA StepsTyped ==
  ASSUME NEW seed \in BOOLEAN, NEW ops, ops = <<>> \/ StepsOf(seed, ops)
  PROVE  ops \in Seq(Ops)
<1>1. \A k \in 1 .. 4 : SeedFrom(k) \in Seq(Ops)
  BY SeedLists
<1>2. \A k \in 1 .. 11 : ChildFrom(k) \in Seq(Ops)
  BY ChildLists
<1>3. CallFailed \cup CallBroken \subseteq Seq(Ops)
  BY DEF CallFailed, CallBroken, Ops
<1>4. <<>> \in Seq(Ops)
  OBVIOUS
<1>5. CASE StepsOf(seed, ops)
  <2>1. CASE \E k \in 1 .. 4 : ops = SeedFrom(k)
    BY <1>1, <2>1
  <2>2. CASE \E k \in 1 .. 11 : ops = ChildFrom(k)
    BY <1>2, <2>2
  <2>3. CASE ops \in CallFailed \cup CallBroken
    BY <1>3, <2>3
  <2> QED BY <1>5, <2>1, <2>2, <2>3 DEF StepsOf
<1> QED BY <1>4, <1>5

LEMMA LastTyped ==
  /\ \A k \in 1 .. 5 : LastFrom(k) \in Seq(Ops)
  /\ Exporting \in Seq(Ops)
  BY LastLists, ExportingIs, ListEnds

(* An exception outside the aborted finalization leads to its start.       *)
LEMMA RaiseFlow ==
  ASSUME ControlType, Control, pc \in {"running", "finishing"}, Raise,
         UNCHANGED <<current, run, fates, kept, archived>>, Runtimes(runtime')
  PROVE  /\ ControlType' /\ Control' /\ pc' = "aborting" /\ todo' = Terminal
         /\ Stage' = "stop" /\ faults' = faults + 1
<1>1. pc' = "aborting" /\ todo' = LastFrom(1) /\ todo' = Terminal /\ faults' = faults + 1
  BY ListEnds DEF Raise, Fault
<1>2. Stage' = "stop"
  <2>1. StageOf(LastFrom(1)) = Terminal[1] /\ Terminal[1] = "stop"
    BY LastStagesAre DEF Terminal
  <2> QED BY <1>1, <2>1 DEF Stage
<1>3. ControlType'
  <2>1. LastFrom(1) \in Seq(Range(LastFrom(1)))
    BY LastTyped, RangeSeq
  <2> QED BY <1>1, <2>1 DEF ControlType, Parts
<1>4. Control'
  BY <1>1 DEF Control, InLast
<1> QED BY <1>1, <1>2, <1>3, <1>4

(* An operation on a candidate leads to the rest of its list, or to the    *)
(* aborted finalization.                                                   *)
LEMMA RunningFlow ==
  ASSUME ControlType, Control, Going, todo # <<>>, NEW outcome, NEW rest,
         Continue(outcome, rest), rest = <<>> \/ StepsOf(IsSeed, rest),
         current' \in Candidates, current'.id = current.id, current'.parent = current.parent,
         run' = run, fates' = fates, kept' \in BOOLEAN, runtime' = runtime,
         \A a \in archived' : a.id >= 0
  PROVE  /\ ControlType' /\ Control' /\ IsSeed' = IsSeed
         /\ outcome = "written" => /\ pc' = "running" /\ todo' = rest /\ Stage' = StageOf(rest)
                                   /\ faults' = faults
         /\ outcome # "written" => /\ pc' = "aborting" /\ Stage' = "stop"
                                   /\ faults' = faults + 1
<1>1. IsSeed' = IsSeed
  BY DEF IsSeed
<1>2. CASE outcome = "written"
  <2>1. pc' = "running" /\ todo' = rest /\ faults' = faults
    BY <1>2 DEF Continue, Going
  <2>2. rest \in Seq(Range(rest))
    BY StepsTyped, RangeSeq DEF IsSeed
  <2>3. ControlType'
    BY <2>1, <2>2 DEF ControlType, Parts
  <2>4. Control'
    <3>1. todo' \in Seq({"prompt"}) \/ InSteps'
      <4>1. CASE rest = <<>>
        <5>1. <<>> \in Seq({"prompt"})
          OBVIOUS
        <5> QED BY <2>1, <4>1, <5>1
      <4>2. CASE StepsOf(IsSeed, rest)
        <5>1. StepsOf(IsSeed', todo')
          BY <1>1, <2>1, <4>2, Zenon
        <5> QED BY <5>1 DEF InSteps
      <4> QED BY <4>1, <4>2
    <3> QED BY <2>1, <3>1 DEF Control, Going
  <2> QED BY <1>1, <1>2, <2>1, <2>3, <2>4 DEF Stage
<1>3. CASE outcome # "written"
  <2>1. /\ pc' = "aborting" /\ todo' = LastFrom(1) /\ faults' = faults + 1
    BY <1>3, ListEnds DEF Continue, Raise, Fault, Going
  <2>2. Stage' = "stop"
    <3>1. StageOf(LastFrom(1)) = Terminal[1] /\ Terminal[1] = "stop"
      BY LastStagesAre DEF Terminal
    <3> QED BY <2>1, <3>1 DEF Stage
  <2>3. ControlType'
    <3>1. LastFrom(1) \in Seq(Range(LastFrom(1)))
      BY LastTyped, RangeSeq
    <3> QED BY <2>1, <3>1 DEF ControlType, Parts
  <2>4. Control'
    BY <2>1 DEF Control, InLast, Going
  <2> QED BY <1>1, <1>3, <2>1, <2>2, <2>3, <2>4
<1> QED BY <1>2, <1>3

(* An operation of the finalization leads to the next one, or to the       *)
(* aborted finalization.                                                   *)
LEMMA LastFlow ==
  ASSUME ControlType, Control, pc \in {"finishing", "aborting"}, NEW k \in 1 .. 3,
         todo = LastFrom(k) \/ (k = 2 /\ todo = Exporting),
         NEW outcome, Continue(outcome, LastFrom(k + 1)),
         UNCHANGED <<current, run, fates, kept, archived>>, Runtimes(runtime')
  PROVE  /\ ControlType' /\ Control'
         /\ outcome = "written" => /\ pc' = pc /\ todo' = LastFrom(k + 1) /\ faults' = faults
                                   /\ Stage' = Terminal[k + 1]
         /\ outcome # "written" => /\ pc' = "aborting" /\ faults' = faults + 1
                                   /\ pc = "finishing" => Stage' = "stop"
                                   /\ pc = "aborting" => Stage' = Terminal[k + 1]
<1>1. /\ LastFrom(k + 1) \in Seq(Ops) /\ StageOf(LastFrom(k + 1)) = Terminal[k + 1]
      /\ Tail(todo) = LastFrom(k + 1)
  <2>1. /\ LastFrom(k + 1) \in Seq(Ops) /\ StageOf(LastFrom(k + 1)) = Terminal[k + 1]
        /\ Tail(LastFrom(k)) = LastFrom(k + 1)
    BY LastLists, LastStagesAre
  <2>2. k = 2 => Tail(Exporting) = LastFrom(k + 1)
    BY ExportingIs
  <2> QED BY <2>1, <2>2
<1>2. LastFrom(1) \in Seq(Ops) /\ StageOf(LastFrom(1)) = "stop" /\ Terminal = LastFrom(1)
  <2>1. Terminal[1] = "stop"
    BY DEF Terminal
  <2> QED BY <2>1, LastLists, LastStagesAre, ListEnds
<1>3. LastFrom(k + 1) \in Seq(Range(LastFrom(k + 1))) /\ LastFrom(1) \in Seq(Range(LastFrom(1)))
  BY <1>1, <1>2, RangeSeq
<1>4. \/ /\ outcome = "written" /\ pc' = pc /\ todo' = LastFrom(k + 1) /\ faults' = faults
      \/ /\ outcome # "written" /\ pc' = "aborting" /\ faults' = faults + 1
         /\ pc = "finishing" /\ todo' = LastFrom(1)
      \/ /\ outcome # "written" /\ pc' = "aborting" /\ faults' = faults + 1
         /\ pc = "aborting" /\ todo' = LastFrom(k + 1)
  BY <1>1, <1>2 DEF Continue, Raise, Fault
<1>5. ControlType'
  BY <1>3, <1>4 DEF ControlType, Parts
<1>6. Control'
  <2>1. InLast'
    BY <1>4 DEF InLast
  <2> QED BY <1>4, <2>1 DEF Control
<1> QED BY <1>1, <1>2, <1>4, <1>5, <1>6 DEF Stage

(***************************************************************************)
(* Each operation in the flow of evolve.                                   *)
(***************************************************************************)
(* Where an operation leads to, written or not.                            *)
Steps(outcome, stages) ==
  /\ outcome = "written" => pc' = pc /\ Stage' \in stages /\ faults' = faults
  /\ outcome # "written" => pc' = "aborting" /\ Stage' = "stop" /\ faults' = faults + 1

(* The prompts, the budget events, and the call.                           *)
LEMMA PromptFlow ==
  ASSUME TypeOK, Control, NEW outcome, AddPrompt(outcome)
  PROVE  /\ pc = "running" /\ Stage = "opening" /\ ControlType' /\ Control'
         /\ Steps(outcome, {"opening", "between"})
<1>1. /\ pc = "running" /\ todo \in Seq({"prompt"}) /\ Stage = "opening" /\ todo # <<>>
      /\ Tail(todo) \in Seq({"prompt"})
  BY AtPrompt, PromptStages DEF AddPrompt, Doing
<1>2. /\ UNCHANGED <<current, run, fates, kept, archived, runtime>>
      /\ Continue(outcome, Tail(todo))
  BY DEF AddPrompt, memory, AddSeed
<1>3. ControlType
  BY DEF TypeOK
<1>4. CASE outcome = "written"
  <2>1. pc' = "running" /\ todo' = Tail(todo) /\ faults' = faults
    BY <1>1, <1>2, <1>4 DEF Continue
  <2>2. Tail(todo) = <<>> \/ StageOf(Tail(todo)) = "opening"
    BY <1>1, PromptStages
  <2>3. Stage' \in {"opening", "between"}
    BY <2>1, <2>2, ShortStages DEF Stage
  <2>4. Tail(todo) \in Seq(Range(Tail(todo)))
    BY <1>1, RangeSeq
  <2>5. ControlType'
    BY <1>2, <1>3, <2>1, <2>4 DEF ControlType, Parts
  <2>6. Control'
    BY <1>1, <1>2, <2>1 DEF Control
  <2> QED BY <1>1, <1>4, <2>1, <2>3, <2>5, <2>6 DEF Steps
<1>5. CASE outcome # "written"
  <2>1. Raise /\ Runtimes(runtime')
    BY <1>2, <1>3, <1>5 DEF Continue, ControlType
  <2> QED BY <1>1, <1>2, <1>3, <1>5, <2>1, RaiseFlow DEF Steps
<1> QED BY <1>4, <1>5

LEMMA BudgetFlow ==
  ASSUME TypeOK, Control,
         NEW kind \in {"seed_evaluation", "generation_started", "candidate_evaluation",
                       "generation_completed"},
         NEW outcome, BudgetEvent(kind, outcome)
  PROVE  /\ Going /\ ControlType' /\ Control'
         /\ \/ Stage = "before" /\ Steps(outcome, {"before"})
            \/ Stage = "after" /\ Steps(outcome, {"between"})
<1>1. /\ Going
      /\ \/ kind = "seed_evaluation" /\ IsSeed /\ todo = SeedFrom(1)
         \/ kind = "generation_started" /\ ~IsSeed /\ todo = ChildFrom(1)
         \/ kind = "candidate_evaluation" /\ ~IsSeed /\ todo = ChildFrom(4)
         \/ kind = "generation_completed" /\ ~IsSeed /\ todo = ChildFrom(11)
  BY AtBudget DEF BudgetEvent
<1>2. /\ UNCHANGED <<current, run, fates, kept, archived, runtime>>
      /\ Continue(outcome, Tail(todo)) /\ ControlType /\ todo # <<>>
  BY DEF BudgetEvent, LogControllerBudgetEvent, TypeOK, Doing
<1>3. /\ current' \in Candidates /\ current'.id = current.id /\ current'.parent = current.parent
      /\ kept' \in BOOLEAN /\ \A a \in archived' : a.id >= 0
  BY <1>1, <1>2 DEF Going, Control, ControlType
<1>4. ASSUME NEW rest, Tail(todo) = rest, rest = <<>> \/ StepsOf(IsSeed, rest)
      PROVE  ControlType' /\ Control' /\ Steps(outcome, {StageOf(rest)})
  BY <1>1, <1>2, <1>3, <1>4, RunningFlow DEF Steps, Going
<1>5. CASE kind = "seed_evaluation" /\ IsSeed /\ todo = SeedFrom(1)
  <2>1. Tail(todo) = SeedFrom(2) /\ StageOf(SeedFrom(2)) = "before" /\ Stage = "before"
    BY <1>5, SeedLists, SeedStages DEF Stage
  <2>2. StepsOf(IsSeed, SeedFrom(2))
    BY <1>5 DEF StepsOf
  <2> QED BY <1>1, <1>4, <2>1, <2>2
<1>6. CASE kind = "generation_started" /\ ~IsSeed /\ todo = ChildFrom(1)
  <2>1. Tail(todo) = ChildFrom(2) /\ StageOf(ChildFrom(2)) = "before" /\ Stage = "before"
    BY <1>6, ChildLists, ChildStages DEF Stage
  <2>2. StepsOf(IsSeed, ChildFrom(2))
    BY <1>6 DEF StepsOf
  <2> QED BY <1>1, <1>4, <2>1, <2>2
<1>7. CASE kind = "candidate_evaluation" /\ ~IsSeed /\ todo = ChildFrom(4)
  <2>1. Tail(todo) = ChildFrom(5) /\ StageOf(ChildFrom(5)) = "before" /\ Stage = "before"
    BY <1>7, ChildLists, ChildStages DEF Stage
  <2>2. StepsOf(IsSeed, ChildFrom(5))
    BY <1>7 DEF StepsOf
  <2> QED BY <1>1, <1>4, <2>1, <2>2
<1>8. CASE kind = "generation_completed" /\ ~IsSeed /\ todo = ChildFrom(11)
  <2>1. Tail(todo) = ChildFrom(12) /\ StageOf(ChildFrom(12)) = "between" /\ Stage = "after"
    BY <1>8, ChildLists, ChildStages DEF Stage
  <2>2. ChildFrom(12) = <<>>
    BY ListEnds
  <2> QED BY <1>1, <1>4, <2>1, <2>2
<1> QED BY <1>1, <1>5, <1>6, <1>7, <1>8

LEMMA CallFlow ==
  ASSUME TypeOK, Control, NEW outcome, NEW ending \in {"answered", "failed", "interrupted"},
         CallModel(outcome, ending)
  PROVE  /\ Going /\ ~IsSeed /\ Stage = "before" /\ ControlType' /\ Control'
         /\ pc' = "running" /\ Stage' = IF ending = "failed" THEN "failed" ELSE "before"
         /\ current'.id = current.id /\ ~IsSeed' /\ Going'
         /\ faults' = IF ending = "answered" THEN faults ELSE faults + 1
         /\ outcome # "written" => ending # "answered"
<1>1. Going /\ ~IsSeed /\ todo = ChildFrom(2)
  BY AtCall DEF CallModel
<1>2. /\ UNCHANGED <<run, fates, kept, archived, runtime>>
      /\ pc' = "running" /\ ControlType
      /\ current' = IF ending = "failed" THEN FailedProposal ELSE current
      /\ faults' = IF ending = "answered" THEN faults ELSE faults + 1
      /\ outcome # "written" => ending # "answered"
  BY <1>1 DEF CallModel, LogLLMCall, TypeOK, Fault, Going
<1>3. Stage = "before" /\ Tail(todo) = ChildFrom(3) /\ StageOf(ChildFrom(3)) = "before"
  BY <1>1, ChildStages, ChildLists DEF Stage
<1>4. /\ current' \in Candidates /\ current'.id = current.id /\ current'.parent = current.parent
  BY <1>1, <1>2, FailedCandidate DEF Going
<1>5. ~IsSeed' /\ Going'
  BY <1>1, <1>2, <1>4 DEF IsSeed, Going
<1>6. /\ StepsOf(FALSE, todo')
      /\ Stage' = IF ending = "failed" THEN "failed" ELSE "before"
  <2>1. CASE ending = "answered"
    <3>1. todo' = ChildFrom(3)
      BY <1>3, <2>1 DEF CallModel, AfterCall
    <3> QED BY <1>3, <2>1, <3>1 DEF StepsOf, Stage
  <2>2. CASE ending = "failed"
    <3>1. todo' = <<"llm_event", "log_failure">> /\ todo' \in CallFailed
      BY <2>2 DEF CallModel, AfterCall, CallFailed
    <3>2. StageOf(todo') = "failed"
      BY <3>1, ShortStages
    <3> QED BY <2>2, <3>1, <3>2 DEF StepsOf, Stage
  <2>3. CASE ending = "interrupted"
    <3>1. todo' = <<"llm_event", "interrupt">> /\ todo' \in CallBroken
      BY <2>3 DEF CallModel, AfterCall, CallBroken
    <3>2. StageOf(todo') = "before"
      BY <3>1, ShortStages
    <3> QED BY <2>3, <3>1, <3>2 DEF StepsOf, Stage
  <2> QED BY <2>1, <2>2, <2>3
<1>7. todo' \in Seq(Range(todo'))
  BY <1>6, StepsTyped, RangeSeq
<1>8. ControlType'
  BY <1>2, <1>4, <1>7 DEF ControlType, Parts
<1>9. Control'
  <2>1. InSteps'
    BY <1>5, <1>6 DEF InSteps, StepsOf
  <2>2. pc' = "running" /\ current' \in Candidates /\ current'.id >= 0 /\ archived' = archived
    BY <1>2, <1>5 DEF Going
  <2>3. current'.id >= -1
    BY <2>2 DEF Candidates
  <2> QED BY <2>1, <2>2, <2>3 DEF Control
<1> QED BY <1>1, <1>2, <1>3, <1>4, <1>5, <1>6, <1>8, <1>9

(* The record of the call, the admission, and what follows it.             *)
LEMMA CallEventFlow ==
  ASSUME TypeOK, Control, NEW outcome, NEW caught \in BOOLEAN, LogCallEvent(outcome, caught)
  PROVE  /\ Going /\ ~IsSeed /\ ControlType' /\ Control' /\ Stage \in {"before", "failed"}
         /\ current'.id = current.id
         /\ \/ /\ pc' = "running" /\ Stage' \in {"before", "failed"} /\ Going'
               /\ Stage = "failed" => Stage' = "failed"
               /\ IF outcome = "written" THEN faults' = faults ELSE faults' = faults + 1
            \/ pc' = "aborting" /\ Stage' = "stop" /\ faults' = faults + 1 /\ current' = current
               /\ outcome # "written"
<1>1. /\ Going /\ ~IsSeed
      /\ todo \in {ChildFrom(3), <<"llm_event", "log_failure">>, <<"llm_event", "interrupt">>}
  BY AtCallEvent DEF LogCallEvent
<1>2. /\ UNCHANGED <<run, fates, kept, archived, runtime>>
      /\ ControlType /\ todo # <<>>
  BY <1>1 DEF LogCallEvent, LogControllerBudgetEvent, TypeOK, Fault, Going, Doing
<1>3. CASE caught
  <2>1. /\ current' = FailedProposal /\ todo' = <<"log_failure">> /\ faults' = faults + 1
        /\ pc' = "running" /\ outcome # "written"
    BY <1>1, <1>3 DEF LogCallEvent, Fault, Going
  <2>2. /\ current' \in Candidates /\ current'.id = current.id /\ current'.parent = current.parent
    BY <1>1, <2>1, FailedCandidate DEF Going
  <2>3. todo' \in CallFailed /\ StageOf(todo') = "failed"
    BY <2>1, ShortStages DEF CallFailed
  <2>4. InSteps'
    BY <1>1, <2>2, <2>3 DEF InSteps, StepsOf, IsSeed
  <2>5. todo' \in Seq(Range(todo'))
    <3>1. StepsOf(FALSE, todo')
      BY <2>3 DEF StepsOf
    <3> QED BY <3>1, StepsTyped, RangeSeq
  <2>6. ControlType'
    BY <1>2, <2>1, <2>2, <2>5 DEF ControlType, Parts
  <2>7. current'.id >= 0 /\ current'.id >= -1
    BY <1>1, <2>2 DEF Going, Candidates
  <2>8. Control'
    BY <1>2, <2>1, <2>2, <2>4, <2>7 DEF Control
  <2>9. Stage \in {"before", "failed"}
    BY <1>1, ChildStages, ShortStages DEF Stage, CallFailed, CallBroken
  <2> QED BY <1>1, <2>1, <2>2, <2>3, <2>6, <2>7, <2>8, <2>9 DEF Stage, Going
<1>4. CASE ~caught
  <2>1. Continue(outcome, Tail(todo)) /\ current' = current
    BY <1>4 DEF LogCallEvent
  <2>2. /\ current' \in Candidates /\ current'.id = current.id /\ current'.parent = current.parent
        /\ kept' \in BOOLEAN /\ \A a \in archived' : a.id >= 0
    BY <1>1, <1>2, <2>1 DEF Going, Control, ControlType
  <2>3. ASSUME NEW rest, Tail(todo) = rest, StepsOf(FALSE, rest)
        PROVE  /\ ControlType' /\ Control' /\ Steps(outcome, {StageOf(rest)})
    <3>1. StepsOf(IsSeed, rest)
      BY <1>1, <2>3 DEF StepsOf
    <3> QED BY <1>1, <1>2, <2>1, <2>2, <2>3, <3>1, RunningFlow DEF Steps, Going
  <2>4. \/ Stage = "before" /\ ControlType' /\ Control' /\ Steps(outcome, {"before"})
        \/ Stage = "failed" /\ ControlType' /\ Control' /\ Steps(outcome, {"failed"})
    <3>1. CASE todo = ChildFrom(3)
      <4>1. /\ Tail(todo) = ChildFrom(4) /\ StageOf(ChildFrom(4)) = "before" /\ Stage = "before"
            /\ StepsOf(FALSE, ChildFrom(4))
        BY <3>1, ChildLists, ChildStages DEF Stage, StepsOf
      <4> QED BY <2>3, <4>1
    <3>2. CASE todo = <<"llm_event", "log_failure">>
      <4>1. Tail(todo) = <<"log_failure">> /\ <<"log_failure">> \in CallFailed /\ todo \in CallFailed
        BY <3>2, ShortLists DEF CallFailed
      <4>2. StageOf(<<"log_failure">>) = "failed" /\ Stage = "failed"
        BY <4>1, ShortStages DEF Stage
      <4>3. StepsOf(FALSE, <<"log_failure">>)
        BY <4>1 DEF StepsOf
      <4> QED BY <2>3, <4>1, <4>2, <4>3
    <3>3. CASE todo = <<"llm_event", "interrupt">>
      <4>1. Tail(todo) = <<"interrupt">> /\ <<"interrupt">> \in CallBroken /\ todo \in CallBroken
        BY <3>3, ShortLists DEF CallBroken
      <4>2. StageOf(<<"interrupt">>) = "before" /\ Stage = "before"
        BY <4>1, ShortStages DEF Stage
      <4>3. StepsOf(FALSE, <<"interrupt">>)
        BY <4>1 DEF StepsOf
      <4> QED BY <2>3, <4>1, <4>2, <4>3
    <3> QED BY <1>1, <3>1, <3>2, <3>3
  <2> QED BY <1>1, <2>1, <2>2, <2>4 DEF Steps, Going
<1> QED BY <1>3, <1>4

LEMMA AdmitFlow ==
  ASSUME TypeOK, Control, NEW outcome, NEW admitted \in BOOLEAN, AdmitCurrent(admitted, outcome)
  PROVE  /\ Going /\ Stage = "before" /\ ControlType' /\ Control'
         /\ Steps(outcome, {IF Fails(admitted) THEN "due" ELSE "told"})
<1>1. /\ Going
      /\ \/ IsSeed /\ todo = SeedFrom(2)
         \/ ~IsSeed /\ todo = ChildFrom(5)
  BY AtAdmit DEF AdmitCurrent
<1>2. /\ UNCHANGED <<current, run, fates, runtime>> /\ kept' = admitted
      /\ archived' = archived \cup (IF admitted THEN {current} ELSE {})
      /\ Continue(outcome, IF Fails(admitted) THEN Tail(todo) ELSE Tail(Tail(todo)))
      /\ ControlType /\ todo # <<>>
  BY DEF AdmitCurrent, Admit, TypeOK, Doing
<1>3. /\ current' \in Candidates /\ current'.id = current.id /\ current'.parent = current.parent
      /\ kept' \in BOOLEAN /\ \A a \in archived' : a.id >= 0
  BY <1>1, <1>2 DEF Going, Control
<1>4. ASSUME NEW rest, (IF Fails(admitted) THEN Tail(todo) ELSE Tail(Tail(todo))) = rest,
             StepsOf(IsSeed, rest)
      PROVE  ControlType' /\ Control' /\ Steps(outcome, {StageOf(rest)})
  BY <1>1, <1>2, <1>3, <1>4, RunningFlow DEF Steps, Going
<1>5. CASE IsSeed /\ todo = SeedFrom(2)
  <2>1. /\ Tail(todo) = SeedFrom(3) /\ Tail(SeedFrom(3)) = SeedFrom(4) /\ Stage = "before"
        /\ StageOf(SeedFrom(3)) = "due" /\ StageOf(SeedFrom(4)) = "told"
        /\ StepsOf(IsSeed, SeedFrom(3)) /\ StepsOf(IsSeed, SeedFrom(4))
    BY <1>5, SeedLists, SeedStages DEF Stage, StepsOf
  <2> QED BY <1>1, <1>4, <2>1
<1>6. CASE ~IsSeed /\ todo = ChildFrom(5)
  <2>1. /\ Tail(todo) = ChildFrom(6) /\ Tail(ChildFrom(6)) = ChildFrom(7) /\ Stage = "before"
        /\ StageOf(ChildFrom(6)) = "due" /\ StageOf(ChildFrom(7)) = "told"
        /\ StepsOf(IsSeed, ChildFrom(6)) /\ StepsOf(IsSeed, ChildFrom(7))
    <3>1. Tail(ChildFrom(5)) = ChildFrom(6) /\ Tail(ChildFrom(6)) = ChildFrom(7)
      <4>1. 5 \in 1 .. 11 /\ 6 \in 1 .. 11 /\ 5 + 1 = 6 /\ 6 + 1 = 7
        OBVIOUS
      <4>2. \A k \in 1 .. 11 : Tail(ChildFrom(k)) = ChildFrom(k + 1)
        BY ChildLists
      <4>3. Tail(ChildFrom(5)) = ChildFrom(6)
        BY <4>1, <4>2
      <4>4. Tail(ChildFrom(6)) = ChildFrom(7)
        BY <4>1, <4>2
      <4> QED BY <4>3, <4>4
    <3>2. /\ StageOf(ChildFrom(5)) = "before" /\ StageOf(ChildFrom(6)) = "due"
          /\ StageOf(ChildFrom(7)) = "told"
      BY ChildStages
    <3>3. StepsOf(IsSeed, ChildFrom(6)) /\ StepsOf(IsSeed, ChildFrom(7))
      BY <1>6 DEF StepsOf
    <3> QED BY <1>6, <3>1, <3>2, <3>3 DEF Stage
  <2> QED BY <1>1, <1>4, <2>1
<1> QED BY <1>1, <1>5, <1>6

LEMMA FailureFlow ==
  ASSUME TypeOK, Control, NEW outcome, RecordFailure(outcome)
  PROVE  /\ Going /\ ControlType' /\ Control'
         /\ \/ Stage = "due" /\ Steps(outcome, {"told"})
            \/ Stage = "failed" /\ ~IsSeed /\ Steps(outcome, {"between"})
<1>1. /\ Going
      /\ \/ IsSeed /\ todo = SeedFrom(3)
         \/ ~IsSeed /\ todo \in {ChildFrom(6), <<"log_failure">>}
  BY AtFailure DEF RecordFailure
<1>2. /\ UNCHANGED <<current, run, fates, kept, archived, runtime>>
      /\ Continue(outcome, Tail(todo)) /\ ControlType /\ todo # <<>>
  BY DEF RecordFailure, LogFailure, TypeOK, Doing
<1>3. /\ current' \in Candidates /\ current'.id = current.id /\ current'.parent = current.parent
      /\ kept' \in BOOLEAN /\ \A a \in archived' : a.id >= 0
  BY <1>1, <1>2 DEF Going, Control, ControlType
<1>4. ASSUME NEW rest, Tail(todo) = rest, rest = <<>> \/ StepsOf(IsSeed, rest)
      PROVE  ControlType' /\ Control' /\ Steps(outcome, {StageOf(rest)})
  BY <1>1, <1>2, <1>3, <1>4, RunningFlow DEF Steps, Going
<1>5. CASE IsSeed /\ todo = SeedFrom(3)
  <2>1. /\ Tail(todo) = SeedFrom(4) /\ Stage = "due"
        /\ StageOf(SeedFrom(4)) = "told" /\ StepsOf(IsSeed, SeedFrom(4))
    BY <1>5, SeedLists, SeedStages DEF Stage, StepsOf
  <2> QED BY <1>1, <1>4, <2>1
<1>6. CASE ~IsSeed /\ todo = ChildFrom(6)
  <2>1. /\ Tail(todo) = ChildFrom(7) /\ Stage = "due"
        /\ StageOf(ChildFrom(7)) = "told" /\ StepsOf(IsSeed, ChildFrom(7))
    BY <1>6, ChildLists, ChildStages DEF Stage, StepsOf
  <2> QED BY <1>1, <1>4, <2>1
<1>7. CASE ~IsSeed /\ todo = <<"log_failure">>
  <2>1. /\ Tail(todo) = <<>> /\ Stage = "failed" /\ StageOf(<<>>) = "between"
    BY <1>7, ShortLists, ShortStages DEF Stage, CallFailed
  <2> QED BY <1>1, <1>4, <1>7, <2>1
<1> QED BY <1>1, <1>5, <1>6, <1>7

LEMMA RewardFlow ==
  ASSUME TypeOK, Control, NEW outcome, LogReward(outcome)
  PROVE  Going /\ Stage = "told" /\ ControlType' /\ Control' /\ Steps(outcome, {"told"})
<1>1. Going /\ ~IsSeed /\ todo = ChildFrom(7)
  BY AtReward DEF LogReward
<1>2. /\ UNCHANGED <<current, run, fates, kept, archived, runtime>>
      /\ Continue(outcome, Tail(todo)) /\ ControlType /\ todo # <<>>
  BY DEF LogReward, LogLLMCall, TypeOK, Doing
<1>3. /\ current' \in Candidates /\ current'.id = current.id /\ current'.parent = current.parent
      /\ kept' \in BOOLEAN /\ \A a \in archived' : a.id >= 0
  BY <1>1, <1>2 DEF Going, Control, ControlType
<1>4. /\ Tail(todo) = ChildFrom(8) /\ Stage = "told" /\ StageOf(ChildFrom(8)) = "told"
      /\ StepsOf(IsSeed, ChildFrom(8))
  BY <1>1, ChildLists, ChildStages DEF Stage, StepsOf
<1> QED BY <1>1, <1>2, <1>3, <1>4, RunningFlow DEF Steps, Going

LEMMA LogFlow ==
  ASSUME TypeOK, Control, NEW outcome, LogProgram(outcome)
  PROVE  Going /\ Stage = "told" /\ ControlType' /\ Control' /\ Steps(outcome, {"between", "after"})
<1>1. /\ Going
      /\ \/ IsSeed /\ todo = SeedFrom(4)
         \/ ~IsSeed /\ todo = ChildFrom(8)
  BY AtLog DEF LogProgram
<1>2. /\ UNCHANGED <<current, run, fates, kept, archived, runtime>>
      /\ Continue(outcome, Tail(todo)) /\ ControlType /\ todo # <<>>
  BY DEF LogProgram, Log, TypeOK, Doing
<1>3. /\ current' \in Candidates /\ current'.id = current.id /\ current'.parent = current.parent
      /\ kept' \in BOOLEAN /\ \A a \in archived' : a.id >= 0
  BY <1>1, <1>2 DEF Going, Control, ControlType
<1>4. ASSUME NEW rest, Tail(todo) = rest, rest = <<>> \/ StepsOf(IsSeed, rest)
      PROVE  ControlType' /\ Control' /\ Steps(outcome, {StageOf(rest)})
  BY <1>1, <1>2, <1>3, <1>4, RunningFlow DEF Steps, Going
<1>5. CASE IsSeed /\ todo = SeedFrom(4)
  <2>1. Tail(todo) = SeedFrom(5) /\ SeedFrom(5) = <<>> /\ Stage = "told" /\ StageOf(SeedFrom(5)) = "between"
    BY <1>5, SeedLists, SeedStages, ListEnds DEF Stage
  <2> QED BY <1>1, <1>4, <2>1 DEF Steps
<1>6. CASE ~IsSeed /\ todo = ChildFrom(8)
  <2>1. /\ Tail(todo) = ChildFrom(9) /\ Stage = "told" /\ StageOf(ChildFrom(9)) = "after"
        /\ StepsOf(IsSeed, ChildFrom(9))
    BY <1>6, ChildLists, ChildStages DEF Stage, StepsOf
  <2> QED BY <1>1, <1>4, <2>1 DEF Steps
<1> QED BY <1>1, <1>5, <1>6

LEMMA ResultFlow ==
  ASSUME TypeOK, Control, NEW outcome, ScorePrompt(outcome)
  PROVE  Going /\ Stage = "after" /\ ControlType' /\ Control' /\ Steps(outcome, {"after"})
<1>1. Going /\ ~IsSeed /\ todo = ChildFrom(9)
  BY AtResult DEF ScorePrompt
<1>2. /\ UNCHANGED <<current, run, fates, kept, archived, runtime>>
      /\ Continue(outcome, Tail(todo)) /\ ControlType /\ todo # <<>>
  BY DEF ScorePrompt, RecordResult, memory, TypeOK, Doing
<1>3. /\ current' \in Candidates /\ current'.id = current.id /\ current'.parent = current.parent
      /\ kept' \in BOOLEAN /\ \A a \in archived' : a.id >= 0
  BY <1>1, <1>2 DEF Going, Control, ControlType
<1>4. /\ Tail(todo) = ChildFrom(10) /\ Stage = "after" /\ StageOf(ChildFrom(10)) = "after"
      /\ StepsOf(IsSeed, ChildFrom(10))
  BY <1>1, ChildLists, ChildStages DEF Stage, StepsOf
<1> QED BY <1>1, <1>2, <1>3, <1>4, RunningFlow DEF Steps, Going

LEMMA MigrateFlow ==
  ASSUME TypeOK, Control, NEW outcome, Migrate(outcome)
  PROVE  Going /\ Stage = "after" /\ ControlType' /\ Control' /\ Steps(outcome, {"after"})
<1>1. Going /\ ~IsSeed /\ todo = ChildFrom(10)
  BY AtMigrate DEF Migrate
<1>2. /\ UNCHANGED <<current, run, fates, kept, archived, runtime>>
      /\ Continue(outcome, Tail(todo)) /\ ControlType /\ todo # <<>>
  BY DEF Migrate, MaybeMigrate, memory, directory, TypeOK, Doing
<1>3. /\ current' \in Candidates /\ current'.id = current.id /\ current'.parent = current.parent
      /\ kept' \in BOOLEAN /\ \A a \in archived' : a.id >= 0
  BY <1>1, <1>2 DEF Going, Control, ControlType
<1>4. /\ Tail(todo) = ChildFrom(11) /\ Stage = "after" /\ StageOf(ChildFrom(11)) = "after"
      /\ StepsOf(IsSeed, ChildFrom(11))
  BY <1>1, ChildLists, ChildStages DEF Stage, StepsOf
<1> QED BY <1>1, <1>2, <1>3, <1>4, RunningFlow DEF Steps, Going

(***************************************************************************)
(* The ends of the loop, and the finalization.                             *)
(***************************************************************************)
(* A sequence with one element replaced.                                   *)
LEMMA Updated ==
  ASSUME NEW S, NEW s \in Seq(S), NEW i, NEW v \in S
  PROVE  /\ [s EXCEPT ![i] = v] \in Seq(S) /\ Len([s EXCEPT ![i] = v]) = Len(s)
         /\ DOMAIN [s EXCEPT ![i] = v] = DOMAIN s
         /\ i \in DOMAIN s => [s EXCEPT ![i] = v][i] = v
         /\ \A j \in DOMAIN s : j # i => [s EXCEPT ![i] = v][j] = s[j]
<1> DEFINE t == [s EXCEPT ![i] = v]
<1>1. s \in [1 .. Len(s) -> S] /\ Len(s) \in Nat
  OBVIOUS
<1>2. t \in [1 .. Len(s) -> S]
  BY <1>1
<1>3. t \in Seq(S) /\ Len(t) = Len(s)
  BY <1>1, <1>2
<1>4. DOMAIN t = DOMAIN s
  BY <1>1, <1>2
<1>5. /\ i \in DOMAIN s => t[i] = v
      /\ \A j \in DOMAIN s : j # i => t[j] = s[j]
  BY <1>1
<1> QED BY <1>3, <1>4, <1>5

LEMMA TerminalStage == StageOf(Terminal) = "stop" /\ Terminal = LastFrom(1)
<1>1. Terminal[1] = "stop"
  BY DEF Terminal
<1> QED BY <1>1, LastStagesAre, ListEnds

(* What sends evolve to the finalization, in its own words or by an        *)
(* exception.                                                              *)
LEMMA EndsFlow ==
  ASSUME ControlType, Control, pc' \in {"finishing", "aborting"}, todo' = Terminal,
         UNCHANGED <<run, fates, kept, archived, runtime>>, faults' \in Nat,
         current' \in Candidates \/ current' = NoCandidate, current'.id >= -1
  PROVE  ControlType' /\ Control' /\ Stage' = "stop"
<1>1. ControlType'
  BY TerminalSeq DEF ControlType, Parts
<1>2. InLast'
  BY TerminalStage DEF InLast
<1>3. Control'
  BY <1>2 DEF Control
<1> QED BY <1>1, <1>3, TerminalStage DEF Stage

LEMMA NoCallFlow ==
  ASSUME TypeOK, Control, NoCallLeft
  PROVE  /\ Going /\ ~IsSeed /\ Stage = "before" /\ ControlType' /\ Control'
         /\ pc' = "finishing" /\ Stage' = "stop" /\ current'.id = current.id - 1
<1>1. Going /\ ~IsSeed /\ Stage = "before"
  BY AtCall, ChildStages DEF NoCallLeft, Stage
<1>2. current'.id = current.id - 1 /\ current' \in Candidates
  BY <1>1 DEF NoCallLeft, Going, Candidates
<1>3. /\ pc' = "finishing" /\ todo' = Terminal
      /\ UNCHANGED <<run, fates, kept, archived, runtime, faults>> /\ ControlType /\ faults' \in Nat
  BY DEF NoCallLeft, directory, memory, TypeOK, ControlType
<1>4. current'.id >= -1
  BY <1>1, <1>2 DEF Going, Candidates
<1> QED BY <1>1, <1>2, <1>3, <1>4, EndsFlow

LEMMA ReraiseFlow ==
  ASSUME TypeOK, Control, Reraise
  PROVE  /\ Going /\ ControlType' /\ Control' /\ pc' = "aborting" /\ Stage' = "stop"
         /\ Stage = "before"
<1>1. Going /\ todo = <<"interrupt">>
  BY AtInterrupt DEF Reraise
<1>2. /\ pc' = "aborting" /\ todo' = Terminal
      /\ UNCHANGED <<current, run, fates, kept, archived, runtime, faults>> /\ ControlType
  BY DEF Reraise, directory, memory, TypeOK
<1>3. /\ faults' \in Nat /\ current'.id >= -1
      /\ current' \in Candidates \/ current' = NoCandidate
  BY <1>2 DEF ControlType, Control
<1>4. Stage = "before"
  BY <1>1, ShortStages DEF Stage, CallBroken
<1> QED BY <1>1, <1>2, <1>3, <1>4, EndsFlow

LEMMA FinishFlow ==
  ASSUME TypeOK, Control, Finish
  PROVE  /\ pc = "running" /\ Stage = "between" /\ ControlType' /\ Control'
         /\ pc' = "finishing" /\ Stage' = "stop"
<1>1. /\ pc = "running" /\ todo = <<>> /\ pc' = "finishing" /\ todo' = Terminal
      /\ UNCHANGED <<current, run, fates, kept, archived, runtime, faults>> /\ ControlType
  BY DEF Finish, directory, memory, TypeOK
<1>2. /\ faults' \in Nat /\ current'.id >= -1
      /\ current' \in Candidates \/ current' = NoCandidate
  BY <1>1 DEF ControlType, Control
<1> QED BY <1>1, <1>2, EndsFlow, ShortStages DEF Stage

LEMMA InterruptFlow ==
  ASSUME TypeOK, Control, Interrupt
  PROVE  /\ pc \in {"running", "finishing"} /\ ControlType' /\ Control'
         /\ pc' = "aborting" /\ Stage' = "stop" /\ faults' = faults + 1
<1>1. /\ pc \in {"running", "finishing"} /\ Raise
      /\ UNCHANGED <<current, run, fates, kept, archived, runtime>> /\ ControlType
  BY DEF Interrupt, directory, memory, TypeOK
<1>2. Runtimes(runtime')
  BY <1>1 DEF ControlType
<1> QED BY <1>1, <1>2, RaiseFlow

LEMMA StopFlow ==
  ASSUME TypeOK, Control, NEW outcome, LogStop(outcome)
  PROVE  /\ pc \in {"finishing", "aborting"} /\ Stage = "stop" /\ ControlType' /\ Control'
         /\ RuntimeShape(runtime')
         /\ outcome = "written" => pc' = pc /\ Stage' = "export" /\ faults' = faults
         /\ outcome # "written" => /\ pc' = "aborting" /\ faults' = faults + 1
                                   /\ pc = "finishing" => Stage' = "stop"
                                   /\ pc = "aborting" => Stage' = "export"
<1>1. "stop" \in LastStages
  BY DEF LastStages
<1>2. pc \in {"finishing", "aborting"} /\ todo = LastFrom(1)
  BY <1>1, AtLast DEF LogStop
<1>3. /\ Tail(todo) = LastFrom(1 + 1) /\ Stage = "stop" /\ Terminal[1 + 1] = "export"
  <2>1. Tail(LastFrom(1)) = LastFrom(1 + 1)
    BY LastLists
  <2>2. StageOf(LastFrom(1)) = "stop" /\ Terminal[2] = "export" /\ 1 + 1 = 2
    BY TerminalStage DEF Terminal
  <2> QED BY <1>2, <2>1, <2>2 DEF Stage
<1>4. RuntimeShape(runtime')
  BY DEF LogStop, RuntimeShape
<1>5. /\ UNCHANGED <<current, run, fates, kept, archived>>
      /\ ControlType /\ Continue(outcome, LastFrom(1 + 1)) /\ Runtimes(runtime')
  BY <1>3, <1>4 DEF LogStop, LogControllerBudgetEvent, TypeOK, Runtimes
<1>6. 1 \in 1 .. 3
  OBVIOUS
<1> QED BY <1>2, <1>3, <1>4, <1>5, <1>6, LastFlow

LEMMA HistoryFlow ==
  ASSUME TypeOK, Control, NEW outcome, SummarizeHistory(outcome)
  PROVE  /\ pc \in {"finishing", "aborting"} /\ Stage = "history" /\ ControlType' /\ Control'
         /\ outcome = "written" => pc' = pc /\ Stage' = "manifest" /\ faults' = faults
         /\ outcome # "written" => /\ pc' = "aborting" /\ faults' = faults + 1
                                   /\ pc = "finishing" => Stage' = "stop"
                                   /\ pc = "aborting" => Stage' = "manifest"
         /\ RuntimeShape(runtime) => RuntimeShape(runtime')
<1>1. "history" \in LastStages
  BY DEF LastStages
<1>2. pc \in {"finishing", "aborting"} /\ todo = LastFrom(3)
  BY <1>1, AtLast DEF SummarizeHistory
<1>3. /\ Tail(todo) = LastFrom(3 + 1) /\ Stage = "history" /\ Terminal[3 + 1] = "manifest"
  <2>1. StageOf(LastFrom(3)) = Terminal[3] /\ Tail(LastFrom(3)) = LastFrom(3 + 1)
    BY LastLists, LastStagesAre
  <2> QED BY <1>2, <2>1 DEF Stage, Terminal
<1>4. \/ runtime' = runtime
      \/ runtime' = [runtime EXCEPT !.history = HistorySummary,
                                    !.artifacts = PointersTo(WithResults(EvaluatorResults))]
  BY DEF SummarizeHistory
<1>5. RuntimeShape(runtime) => RuntimeShape(runtime')
  BY <1>4 DEF RuntimeShape
<1>6. ControlType
  BY DEF TypeOK
<1>7. Runtimes(runtime')
  <2>1. CASE RuntimeShape(runtime)
    BY <1>5, <2>1 DEF Runtimes
  <2>2. CASE runtime = Nothing
    <3>1. \A x, y : [Nothing EXCEPT !.history = x, !.artifacts = y] = Nothing
      BY DEF Nothing
    <3> QED BY <1>4, <2>2, <3>1 DEF Runtimes
  <2> QED BY <1>6, <2>1, <2>2 DEF ControlType, Runtimes
<1>8. /\ UNCHANGED <<current, run, fates, kept, archived>>
      /\ Continue(outcome, LastFrom(3 + 1))
  BY <1>3 DEF SummarizeHistory, memory
<1>9. 3 \in 1 .. 3
  OBVIOUS
<1> QED BY <1>2, <1>3, <1>5, <1>6, <1>7, <1>8, <1>9, LastFlow

LEMMA ManifestFlow ==
  ASSUME TypeOK, Control, NEW outcome, FinishManifest(outcome)
  PROVE  /\ pc \in {"finishing", "aborting"} /\ Stage = "manifest" /\ ControlType' /\ Control'
         /\ UNCHANGED <<current, kept, runtime, run>>
         /\ \/ /\ outcome = "written" \/ pc = "aborting"
               /\ pc' = "off" /\ faults' >= faults
               /\ fates' = [fates EXCEPT ![run] = IF pc = "finishing" THEN "completed" ELSE "aborted"]
            \/ /\ outcome # "written" /\ pc = "finishing"
               /\ pc' = "aborting" /\ Stage' = "stop" /\ fates' = fates /\ faults' = faults + 1
<1>1. "manifest" \in LastStages
  BY DEF LastStages
<1>2. pc \in {"finishing", "aborting"} /\ todo = LastFrom(4)
  BY <1>1, AtLast DEF FinishManifest
<1>3. Stage = "manifest"
  <2>1. StageOf(LastFrom(4)) = Terminal[4]
    BY LastStagesAre
  <2> QED BY <1>2, <2>1 DEF Stage, Terminal
<1>4. UNCHANGED <<current, kept, runtime, run, archived>> /\ ControlType
  BY DEF FinishManifest, memory, WriteManifest, directory, TypeOK
<1>5. CASE outcome = "written" \/ pc = "aborting"
  <2>1. /\ pc' = "off" /\ todo' = <<>>
        /\ fates' = [fates EXCEPT ![run] = IF pc = "finishing" THEN "completed" ELSE "aborted"]
        /\ faults' \in Nat /\ faults' >= faults
    BY <1>4, <1>5 DEF FinishManifest, Fault, ControlType
  <2>2. fates' \in Seq(FateNames) /\ Len(fates') = Len(fates)
    <3> DEFINE v == IF pc = "finishing" THEN "completed" ELSE "aborted"
    <3>1. v \in FateNames /\ fates \in Seq(FateNames)
      BY <1>4 DEF ControlType, FateNames
    <3>2. fates' = [fates EXCEPT ![run] = v]
      BY <2>1
    <3> HIDE DEF v
    <3> QED BY <3>1, <3>2, Updated
  <2>3. <<>> \in Seq(Range(<<>>))
    OBVIOUS
  <2>4. ControlType'
    BY <1>4, <2>1, <2>2, <2>3 DEF ControlType, Parts
  <2>5. Control'
    BY <1>4, <2>1 DEF Control
  <2> QED BY <1>2, <1>3, <1>4, <1>5, <2>1, <2>4, <2>5
<1>6. CASE ~(outcome = "written" \/ pc = "aborting")
  <2>1. Raise /\ fates' = fates /\ pc = "finishing" /\ Runtimes(runtime')
    BY <1>2, <1>4, <1>6 DEF FinishManifest, ControlType
  <2> QED BY <1>2, <1>3, <1>4, <1>6, <2>1, RaiseFlow
<1> QED BY <1>5, <1>6

(***************************************************************************)
(* The export.                                                             *)
(***************************************************************************)
(* The six paths of an export.                                             *)
LEMMA PathsAre ==
  /\ Places = {"best.py", "best_workspace"}
  /\ Temporary("best.py") = "best.py.tmp" /\ Temporary("best_workspace") = "best_workspace.tmp"
  /\ Backup("best.py") = "best.py.bak" /\ Backup("best_workspace") = "best_workspace.bak"
  /\ Paths = {"best.py", "best_workspace", "best.py.tmp", "best_workspace.tmp",
              "best.py.bak", "best_workspace.bak"}
<1>1. /\ Temporary("best.py") = "best.py.tmp" /\ Temporary("best_workspace") = "best_workspace.tmp"
      /\ Backup("best.py") = "best.py.bak" /\ Backup("best_workspace") = "best_workspace.bak"
  BY DEF Temporary, Backup
<1>2. /\ {Temporary(p) : p \in Places} = {"best.py.tmp", "best_workspace.tmp"}
      /\ {Backup(p) : p \in Places} = {"best.py.bak", "best_workspace.bak"}
  BY DEF Places, Temporary, Backup
<1> QED BY <1>1, <1>2 DEF Paths, Places

(* The operations of the export, of its rollback and of its cleanup.       *)
LEMMA OrdersAre ==
  /\ Len(Body) = 6 /\ Len(Undo) = 4 /\ Len(Cleanup) = 4
  /\ Body[1][1] = "write" /\ Body[1][2] = "best.py"
  /\ Body[2][1] = "write" /\ Body[2][2] = "best_workspace"
  /\ Body[3][1] = "keep" /\ Body[3][2] = "best.py"
  /\ Body[4][1] = "keep" /\ Body[4][2] = "best_workspace"
  /\ Body[5][1] = "install" /\ Body[5][2] = "best_workspace"
  /\ Body[6][1] = "install" /\ Body[6][2] = "best.py"
  /\ Undo[1][1] = "remove" /\ Undo[1][2] = "best.py"
  /\ Undo[2][1] = "remove" /\ Undo[2][2] = "best_workspace"
  /\ Undo[3][1] = "restore" /\ Undo[3][2] = "best.py"
  /\ Undo[4][1] = "restore" /\ Undo[4][2] = "best_workspace"
  /\ Cleanup[1] = Temporary("best.py") /\ Cleanup[2] = Temporary("best_workspace")
  /\ Cleanup[3] = Backup("best.py") /\ Cleanup[4] = Backup("best_workspace")
  BY DEF Body, Undo, Cleanup

LEMMA Orders ==
  /\ \A i \in 1 .. 6 : Body[i][1] \in {"write", "keep", "install"} /\ Body[i][2] \in Places
  /\ \A i \in 1 .. 4 : Undo[i][1] \in {"remove", "restore"} /\ Undo[i][2] \in Places
  /\ \A i \in 1 .. 4 : Cleanup[i] \in Paths
  /\ \A p \in Places : p \in Paths /\ Temporary(p) \in Paths /\ Backup(p) \in Paths
  BY OrdersAre, PathsAre

(* The tree with one path set, and with one path moved.                    *)
LEMMA TreeUpdated ==
  ASSUME NEW t \in Trees, NEW p \in Paths, NEW v \in TreeValues
  PROVE  [t EXCEPT ![p] = v] \in Trees
  BY DEF Trees

LEMMA TreeMoved ==
  ASSUME tree \in Trees, NEW p \in Paths, NEW q \in Paths
  PROVE  Moved(p, q) \in Trees
  BY DEF Trees, Moved, TreeValues

(* An export that is not idle.                                             *)
LEMMA UnderWay ==
  ASSUME TreeType, export.at # "idle"
  PROVE  export \in Exports /\ export.program \in TreeValues
         /\ (export.at \in {"rollback", "cleanup"} => export.step <= 4)
  BY DEF TreeType, Idle, Exports, TreeValues

LEMMA IdleIs == TreeType => (export.at = "idle" <=> export = Idle)
  BY DEF TreeType, Idle, Exports

LEMMA FailureTrees ==
  ASSUME TreeType, NEW i \in 1 .. 6
  PROVE  AfterFailure(Body[i][1], Body[i][2]) \subseteq Trees
<1>1. Temporary(Body[i][2]) \in Paths /\ tree \in Trees /\ Damaged \in TreeValues
  BY Orders DEF TreeType, TreeValues
<1> QED BY <1>1, TreeUpdated DEF AfterFailure

(* One field of an export at a time.                                       *)
Ends == {"body", "rollback", "cleanup", "completed", "failed", "interrupted"}
LEMMA AtSet ==
  ASSUME NEW e \in Exports, NEW v \in Ends, NEW g, g = [e EXCEPT !.at = v]
  PROVE  /\ g \in Exports /\ g.at = v
         /\ g.step = e.step /\ g.program = e.program /\ g.installed = e.installed
         /\ g.preserved = e.preserved /\ g.errors = e.errors
         /\ g.failed = e.failed /\ g.old = e.old
  BY DEF Exports, Ends

LEMMA StepSet ==
  ASSUME NEW e \in Exports, NEW v \in 1 .. 6, NEW g, g = [e EXCEPT !.step = v]
  PROVE  /\ g \in Exports /\ g.step = v
         /\ g.at = e.at /\ g.program = e.program /\ g.installed = e.installed
         /\ g.preserved = e.preserved /\ g.errors = e.errors
         /\ g.failed = e.failed /\ g.old = e.old
  BY DEF Exports, Ends

LEMMA InstalledSet ==
  ASSUME NEW e \in Exports, NEW v \in SUBSET Places, NEW g, g = [e EXCEPT !.installed = v]
  PROVE  /\ g \in Exports /\ g.installed = v
         /\ g.at = e.at /\ g.step = e.step /\ g.program = e.program
         /\ g.preserved = e.preserved /\ g.errors = e.errors
         /\ g.failed = e.failed /\ g.old = e.old
  BY DEF Exports, Ends

LEMMA PreservedSet ==
  ASSUME NEW e \in Exports, NEW v \in SUBSET Paths, NEW g, g = [e EXCEPT !.preserved = v]
  PROVE  /\ g \in Exports /\ g.preserved = v
         /\ g.at = e.at /\ g.step = e.step /\ g.program = e.program
         /\ g.installed = e.installed /\ g.errors = e.errors
         /\ g.failed = e.failed /\ g.old = e.old
  BY DEF Exports, Ends

LEMMA ErrorsSet ==
  ASSUME NEW e \in Exports, NEW v \in Nat, NEW g, g = [e EXCEPT !.errors = v]
  PROVE  /\ g \in Exports /\ g.errors = v
         /\ g.at = e.at /\ g.step = e.step /\ g.program = e.program
         /\ g.installed = e.installed /\ g.preserved = e.preserved
         /\ g.failed = e.failed /\ g.old = e.old
  BY DEF Exports, Ends

LEMMA FailedSet ==
  ASSUME NEW e \in Exports, NEW v \in BOOLEAN, NEW g, g = [e EXCEPT !.failed = v]
  PROVE  /\ g \in Exports /\ g.failed = v
         /\ g.at = e.at /\ g.step = e.step /\ g.program = e.program
         /\ g.installed = e.installed /\ g.preserved = e.preserved
         /\ g.errors = e.errors /\ g.old = e.old
  BY DEF Exports, Ends

LEMMA FailedTrue ==
  ASSUME NEW e \in Exports, NEW g, g = [e EXCEPT !.failed = TRUE]
  PROVE  /\ g \in Exports /\ g.failed = TRUE
         /\ g.at = e.at /\ g.step = e.step /\ g.program = e.program
         /\ g.installed = e.installed /\ g.preserved = e.preserved
         /\ g.errors = e.errors /\ g.old = e.old
  BY DEF Exports

(* The steps of the export keep the types of the tree and of the export.   *)
LEMMA BeginExportType ==
  ASSUME TreeType, NEW program \in Candidates, BeginExport(program)
  PROVE  TreeType' /\ export'.at = "body" /\ export'.program = program
<1>1. tree' \in Trees
  BY DEF BeginExport, TreeType, Trees, TreeValues
<1>2. export' \in Exports /\ export'.at = "body" /\ export'.program = program
  BY DEF BeginExport, TreeType, Exports
<1> QED BY <1>1, <1>2 DEF TreeType

LEMMA OperateType ==
  ASSUME TreeType, Operate
  PROVE  TreeType' /\ export' \in Exports /\ export'.program = export.program
<1>1. export \in Exports /\ export.program \in TreeValues /\ export.step \in 1 .. 6
  BY UnderWay DEF Operate, Exports
<1> DEFINE op == Body[export.step][1]
           place == Body[export.step][2]
<1>2. /\ op \in {"write", "keep", "install"} /\ place \in Places
      /\ place \in Paths /\ Temporary(place) \in Paths /\ Backup(place) \in Paths
      /\ Len(Body) = 6
  BY <1>1, Orders, OrdersAre
<1>3. /\ tree' = AfterOperation(op, place)
      /\ export' =
          [export EXCEPT
             !.installed = IF op = "install" THEN @ \cup {place} ELSE @,
             !.at = IF export.step = Len(Body) THEN "cleanup" ELSE "body",
             !.step = IF export.step = Len(Body) THEN 1 ELSE @ + 1]
  BY DEF Operate
<1> HIDE DEF op, place
<1>4. tree' \in Trees
  BY <1>1, <1>2, <1>3, TreeUpdated, TreeMoved DEF AfterOperation, TreeType
<1>5. /\ export' \in Exports /\ export'.program = export.program
      /\ export'.at = "cleanup" => export'.step = 1
      /\ export'.at \in {"body", "cleanup"}
  <2> DEFINE i == IF op = "install" THEN export.installed \cup {place} ELSE export.installed
             a == IF export.step = 6 THEN "cleanup" ELSE "body"
             s == IF export.step = 6 THEN 1 ELSE export.step + 1
             e == [export EXCEPT !.installed = i]
             g == [e EXCEPT !.at = a]
             h == [g EXCEPT !.step = s]
  <2>1. i \in SUBSET Places /\ a \in Ends /\ s \in 1 .. 6
    BY <1>1, <1>2 DEF Exports, Ends
  <2>2. export' = h
    BY <1>2, <1>3
  <2>3. a \in {"body", "cleanup"} /\ (a = "cleanup" => s = 1)
    OBVIOUS
  <2> HIDE DEF i, a, s
  <2>4. e \in Exports /\ e.program = export.program
    BY <1>1, <2>1, InstalledSet
  <2> HIDE DEF e
  <2>5. g \in Exports /\ g.program = export.program /\ g.at = a
    BY <2>1, <2>4, AtSet
  <2> HIDE DEF g
  <2>6. h \in Exports /\ h.program = export.program /\ h.at = a /\ h.step = s
    BY <2>1, <2>5, StepSet
  <2> QED BY <2>2, <2>3, <2>6
<1> QED BY <1>4, <1>5 DEF TreeType

LEMMA RollBackType ==
  ASSUME TreeType, RollBack \/ FailRollBack
  PROVE  TreeType' /\ export' \in Exports /\ export'.program = export.program
<1>1. export \in Exports /\ export.step \in 1 .. 4 /\ tree \in Trees /\ export.at = "rollback"
  BY UnderWay DEF RollBack, FailRollBack, Exports, TreeType
<1> DEFINE op == Undo[export.step][1]
           place == Undo[export.step][2]
<1>2. /\ op \in {"remove", "restore"} /\ place \in Places
      /\ place \in Paths /\ Temporary(place) \in Paths /\ Backup(place) \in Paths
      /\ Len(Undo) = 4
  BY <1>1, Orders, OrdersAre
<1>3. \/ tree' \in {tree, [tree EXCEPT ![place] = Nothing], Moved(Backup(place), place)}
      \/ tree' \in {tree, [tree EXCEPT !["best_workspace"] = Damaged]}
  BY DEF RollBack, FailRollBack
<1>4. \/ export' = [export EXCEPT !.at = NextUndo, !.step = AfterUndo]
      \/ export' = [export EXCEPT
                     !.at = NextUndo, !.step = AfterUndo, !.errors = @ + 1,
                     !.preserved = IF op = "restore" THEN @ \cup {Backup(place)} ELSE @]
  BY DEF RollBack, FailRollBack
<1> HIDE DEF op, place
<1>5. tree' \in Trees
  <2>1. Nothing \in TreeValues /\ Damaged \in TreeValues /\ "best_workspace" \in Paths
    BY PathsAre DEF TreeValues
  <2> QED BY <1>1, <1>2, <1>3, <2>1, TreeUpdated, TreeMoved
<1>6. NextUndo \in {"rollback", "cleanup"} /\ AfterUndo \in 1 .. 4
  BY <1>1, <1>2 DEF NextUndo, AfterUndo
<1>7. /\ export' \in Exports /\ export'.program = export.program /\ export'.step <= 4
  <2> DEFINE a == [export EXCEPT !.at = NextUndo]
             e == [a EXCEPT !.step = AfterUndo]
             g == [e EXCEPT !.errors = export.errors + 1]
             v == IF op = "restore" THEN export.preserved \cup {Backup(place)} ELSE export.preserved
             h == [g EXCEPT !.preserved = v]
  <2>1. NextUndo \in Ends /\ AfterUndo \in 1 .. 6 /\ export.errors + 1 \in Nat /\ v \in SUBSET Paths
    BY <1>1, <1>2, <1>6 DEF Exports, Ends
  <2>2. a \in Exports /\ a.program = export.program /\ a.errors = export.errors /\ a.preserved = export.preserved
    BY <1>1, <2>1, AtSet
  <2>3. export' \in {e, h}
    BY <1>4
  <2> HIDE DEF a, v
  <2>4. /\ e \in Exports /\ e.program = export.program /\ e.step = AfterUndo
    BY <2>1, <2>2, StepSet
  <2> HIDE DEF e
  <2>5. /\ g \in Exports /\ g.program = export.program /\ g.step = AfterUndo
    BY <2>1, <2>4, ErrorsSet
  <2> HIDE DEF g
  <2>6. /\ h \in Exports /\ h.program = export.program /\ h.step = AfterUndo
    BY <2>1, <2>5, PreservedSet
  <2> HIDE DEF h
  <2> QED BY <1>6, <2>3, <2>4, <2>6
<1> QED BY <1>5, <1>7 DEF TreeType

LEMMA CleanUpType ==
  ASSUME TreeType, NEW fails \in BOOLEAN, CleanUp(fails)
  PROVE  TreeType' /\ export' \in Exports /\ export'.program = export.program
<1>1. export \in Exports /\ export.step \in 1 .. 4 /\ tree \in Trees
  BY UnderWay DEF CleanUp, Exports, TreeType
<1>2. Cleanup[export.step] \in Paths /\ Len(Cleanup) = 4
  BY <1>1, Orders, OrdersAre
<1>3. tree' \in {tree, [tree EXCEPT ![Cleanup[export.step]] = Damaged],
                 [tree EXCEPT ![Cleanup[export.step]] = Nothing]}
  BY DEF CleanUp
<1>4. Nothing \in TreeValues /\ Damaged \in TreeValues
  BY DEF TreeValues
<1>5. tree' \in Trees
  BY <1>1, <1>2, <1>3, <1>4, TreeUpdated
<1> DEFINE failed == export.failed \/ fails
           e == IF export.step = 4 THEN Ended(failed) ELSE "cleanup"
           n == IF export.step = 4 THEN 4 ELSE export.step + 1
<1>6. export' = [export EXCEPT !.failed = failed, !.step = n, !.at = e]
  BY <1>2 DEF CleanUp
<1>7. failed \in BOOLEAN /\ n \in 1 .. 4 /\ e \in {"cleanup", "completed", "failed"}
  BY <1>1 DEF Ended, Exports
<1> HIDE DEF failed, e, n
<1>8. export' \in Exports /\ export'.program = export.program /\ export'.step <= 4
  <2> DEFINE f == [export EXCEPT !.failed = failed]
             g == [f EXCEPT !.step = n]
             h == [g EXCEPT !.at = e]
  <2>1. failed \in BOOLEAN /\ n \in 1 .. 6 /\ e \in Ends /\ export' = h
    BY <1>6, <1>7 DEF Ends
  <2>2. f \in Exports /\ f.program = export.program
    BY <1>1, <2>1, FailedSet
  <2> HIDE DEF f
  <2>3. g \in Exports /\ g.program = export.program /\ g.step = n
    BY <2>1, <2>2, StepSet
  <2> HIDE DEF g
  <2>4. h \in Exports /\ h.program = export.program /\ h.step = n
    BY <2>1, <2>3, AtSet
  <2> QED BY <1>7, <2>1, <2>4
<1> QED BY <1>5, <1>8 DEF TreeType

LEMMA StoppedType ==
  ASSUME TreeType, RefuseExport \/ FailOperation \/ InterruptExport
  PROVE  TreeType' /\ export' \in Exports /\ export'.program = export.program
<1>1. export \in Exports /\ export.step \in 1 .. 6 /\ tree \in Trees
  BY UnderWay DEF RefuseExport, FailOperation, InterruptExport, Exports, TreeType
<1>2. AfterFailure(Body[export.step][1], Body[export.step][2]) \subseteq Trees
  BY <1>1, FailureTrees
<1>3. tree' \in Trees
  BY <1>1, <1>2 DEF RefuseExport, FailOperation, InterruptExport, directory
<1>4. /\ export' \in Exports /\ export'.program = export.program
      /\ export'.at \in {"rollback", "cleanup"} => export'.step <= 4
  <2>1. CASE RefuseExport
    <3> DEFINE a == [export EXCEPT !.at = "failed"]
               f == [a EXCEPT !.failed = TRUE]
    <3>1. "failed" \in Ends /\ TRUE \in BOOLEAN /\ export' = f
      BY <2>1 DEF RefuseExport, Ends
    <3>2. a \in Exports /\ a.program = export.program /\ a.at = "failed"
      BY <1>1, <3>1, AtSet
    <3> HIDE DEF a
    <3>3. f \in Exports /\ f.program = export.program /\ f.at = "failed"
      BY <3>2, FailedTrue
    <3> QED BY <3>1, <3>3
  <2>2. CASE FailOperation
    <3> DEFINE a == [export EXCEPT !.at = "rollback"]
               s == [a EXCEPT !.step = 1]
               f == [s EXCEPT !.failed = TRUE]
    <3>1. "rollback" \in Ends /\ TRUE \in BOOLEAN /\ 1 \in 1 .. 6 /\ export' = f
      BY <2>2 DEF FailOperation, Ends
    <3>2. a \in Exports /\ a.program = export.program
      BY <1>1, <3>1, AtSet
    <3> HIDE DEF a
    <3>3. s \in Exports /\ s.program = export.program /\ s.step = 1
      BY <3>1, <3>2, StepSet
    <3> HIDE DEF s
    <3>4. f \in Exports /\ f.program = export.program /\ f.step = 1
      BY <3>3, FailedTrue
    <3> QED BY <3>1, <3>4
  <2>3. CASE InterruptExport
    <3>1. "interrupted" \in Ends /\ export' = [export EXCEPT !.at = "interrupted"]
      BY <2>3 DEF InterruptExport, Ends
    <3> QED BY <1>1, <3>1, AtSet
  <2> QED BY <2>1, <2>2, <2>3
<1> QED BY <1>3, <1>4 DEF TreeType

LEMMA ExportTypes ==
  ASSUME TreeType, ExportStep \/ ExportFault \/ InterruptExport
  PROVE  TreeType' /\ export' \in Exports /\ export'.program = export.program
         /\ UNCHANGED <<files, manifest, run>>
<1>1. UNCHANGED <<files, manifest, run>>
  BY DEF ExportStep, ExportFault, Operate, RollBack, CleanUp, RefuseExport, FailOperation,
         FailRollBack, InterruptExport, directory
<1>2. FALSE \in BOOLEAN /\ TRUE \in BOOLEAN
  OBVIOUS
<1> QED BY <1>1, <1>2, OperateType, RollBackType, CleanUpType, StoppedType DEF ExportStep, ExportFault

(***************************************************************************)
(* The names prepare_run_directory finds.                                  *)
(***************************************************************************)
(* The listing of s by S has every element of s in S.                      *)
LEMMA ListedAll ==
  ASSUME NEW s, NEW n \in Nat, DOMAIN s = 1 .. n, NEW S
  PROVE  /\ \A i \in DOMAIN s : s[i] \in S => s[i] \in Range(Listed(s, S))
         /\ Listed(s, S) \in Seq(Range(Listed(s, S)))
         /\ (\A i \in DOMAIN s : s[i] \notin S) => Listed(s, S) = <<>>
<1> DEFINE places == {i \in DOMAIN s : s[i] \in S}
           before(i) == {j \in places : j < i}
           Earlier(i) == Cardinality(before(i))
           m == Cardinality(places)
           at(k) == CHOOSE i \in places : Earlier(i) = k - 1
           l == [k \in 1 .. m |-> s[at(k)]]
<1>1. Listed(s, S) = l
  BY DEF Listed
<1>2. IsFiniteSet(places) /\ places \subseteq 1 .. n
  <2>1. places \subseteq 1 .. n
    OBVIOUS
  <2> QED BY <2>1, FS_Interval, FS_Subset
<1>3. m \in Nat
  BY <1>2, FS_CardinalityType
<1>4. \A i \in places : IsFiniteSet(before(i)) /\ Earlier(i) \in Nat
  BY <1>2, FS_Subset, FS_CardinalityType
<1>5. ASSUME NEW i \in places PROVE Earlier(i) < m
  <2>1. before(i) \subseteq places /\ i \in places /\ i \notin before(i)
    BY <1>2
  <2>2. Earlier(i) <= m /\ (Earlier(i) = m => before(i) = places)
    BY <1>2, <2>1, FS_Subset
  <2> HIDE DEF before, places
  <2>3. Earlier(i) # m
    BY <2>1, <2>2
  <2> HIDE DEF Earlier, m
  <2> QED BY <1>3, <1>4, <2>2, <2>3
<1>6. ASSUME NEW i \in places, NEW j \in places, i < j PROVE Earlier(i) # Earlier(j)
  <2>1. before(i) \subseteq before(j) /\ i \in before(j) /\ i \notin before(i)
    BY <1>2, <1>6
  <2>2. IsFiniteSet(before(j))
    BY <1>4
  <2>3. Earlier(i) = Earlier(j) => before(i) = before(j)
    BY <2>1, <2>2, FS_Subset
  <2> QED BY <2>1, <2>3
<1> HIDE DEF places, before, Earlier, m
<1>7. ASSUME NEW i \in places PROVE at(Earlier(i) + 1) = i
  <2> DEFINE k == Earlier(i) + 1
  <2>1. Earlier(i) = k - 1
    BY <1>4
  <2> HIDE DEF k
  <2>2. at(k) \in places /\ Earlier(at(k)) = k - 1
    BY <2>1
  <2> HIDE DEF at
  <2> DEFINE j == at(k)
  <2>4. j \in places /\ Earlier(j) = Earlier(i)
    BY <2>1, <2>2
  <2> HIDE DEF j
  <2>5. j \in Nat /\ i \in Nat
    BY <1>2, <2>4
  <2>6. ~(i < j) /\ ~(j < i)
    BY <1>6, <2>4
  <2>7. j = i
    BY <2>5, <2>6
  <2>3. at(k) = i
    BY <2>7 DEF j
  <2> QED BY <2>3 DEF k
<1>8. ASSUME NEW i \in places PROVE s[i] \in Range(l)
  <2>1. Earlier(i) + 1 \in 1 .. m
    BY <1>3, <1>4, <1>5
  <2> HIDE DEF at
  <2>2. l[Earlier(i) + 1] = s[i]
    BY <1>7, <2>1
  <2> QED BY <2>1, <2>2 DEF Range
<1>9. l \in Seq(Range(l))
  <2>1. \A k \in 1 .. m : l[k] \in Range(l)
    BY DEF Range
  <2> HIDE DEF at
  <2> QED BY <1>3, <2>1
<1>10. ASSUME places = {} PROVE l = <<>>
  <2>1. m = 0
    BY <1>10, FS_EmptySet DEF m
  <2> HIDE DEF at
  <2> QED BY <2>1
<1> HIDE DEF l, at
<1> QED BY <1>1, <1>8, <1>9, <1>10 DEF places

(* The names that may be there, and the ones that are.                     *)
LEMMA ManagedIs ==
  /\ DOMAIN Managed = 1 .. 10 /\ 10 \in Nat
  /\ Streams \cup Places \cup {"manifest"} = Range(Managed)
<1>1. DOMAIN Managed = 1 .. 10
  BY DEF Managed
<1>2. /\ Managed[1] = "archive_events" /\ Managed[2] = "best.py" /\ Managed[3] = "best_workspace"
      /\ Managed[4] = "controller_budget_events" /\ Managed[5] = "evaluator_results"
      /\ Managed[6] = "failure_history" /\ Managed[7] = "history" /\ Managed[8] = "llm_calls"
      /\ Managed[9] = "manifest" /\ Managed[10] = "prompt_history"
  BY DEF Managed
<1>3. Range(Managed) = {Managed[1], Managed[2], Managed[3], Managed[4], Managed[5], Managed[6],
                        Managed[7], Managed[8], Managed[9], Managed[10]}
  BY <1>1 DEF Range
<1> QED BY <1>1, <1>2, <1>3 DEF Streams, Places

LEMMA PresentIs ==
  /\ Present("manifest") <=> manifest # Nothing
  /\ \A p \in Places : Present(p) <=> tree[p] # Nothing
  /\ \A s \in Streams : Present(s) <=> files[s] # <<>>
  BY DEF Present, Places, Streams

LEMMA ExistingIs ==
  /\ \A name \in Range(Managed) : Present(name) => name \in Range(Existing)
  /\ Existing \in Seq(Range(Existing))
  /\ (\A name \in Range(Managed) : ~Present(name)) => Existing = <<>>
<1> DEFINE found == {name \in Range(Managed) : Present(name)}
<1>1. Existing = Listed(Managed, found)
  BY DEF Existing
<1>2. /\ \A i \in DOMAIN Managed : Managed[i] \in found => Managed[i] \in Range(Listed(Managed, found))
      /\ Listed(Managed, found) \in Seq(Range(Listed(Managed, found)))
      /\ (\A i \in DOMAIN Managed : Managed[i] \notin found) => Listed(Managed, found) = <<>>
  <2> HIDE DEF found
  <2> QED BY ListedAll, ManagedIs
<1>3. \A name \in Range(Managed) : \E i \in DOMAIN Managed : name = Managed[i]
  BY DEF Range
<1>4. \A i \in DOMAIN Managed : Managed[i] \in Range(Managed)
  BY DEF Range
<1> QED BY <1>1, <1>2, <1>3, <1>4

(* When every name was removed the directory is empty.                     *)
LEMMA ClearedAll ==
  ASSUME Cleared, todo = <<>>
  PROVE  /\ manifest = Nothing /\ \A p \in Places : tree[p] = Nothing
         /\ \A s \in Streams : files[s] = <<>>
<1>1. Range(todo) = {}
  BY DEF Range
<1>2. \A name \in Range(Managed) : ~Present(name)
  BY <1>1 DEF Cleared
<1> QED BY <1>2, ManagedIs, PresentIs

LEMMA NoneTyped == <<>> \in Seq(Range(<<>>)) /\ NoCandidate.id = -1
  BY DEF NoCandidate

(* The fate of the last run.                                               *)
LEMMA FatesAre ==
  ASSUME ControlType
  PROVE  /\ run # 0 => run \in DOMAIN fates /\ Fate = fates[run] /\ Fate \in FateNames
         /\ Fate = "none" <=> run = 0
<1>1. DOMAIN fates = 1 .. Len(fates) /\ \A i \in 1 .. Len(fates) : fates[i] \in FateNames
  BY DEF ControlType
<1>2. run \in Nat /\ Len(fates) = run
  BY DEF ControlType
<1>3. run # 0 => run \in DOMAIN fates /\ fates[run] \in FateNames
  BY <1>1, <1>2
<1> QED BY <1>3 DEF Fate, FateNames

(* Claiming, clearing and opening, and a kill.                             *)
LEMMA ClaimFlow ==
  ASSUME TypeOK, Control, FateOK, NEW policy, Claim(policy)
  PROVE  /\ pc = "off" /\ pc' = "clearing" /\ ControlType' /\ Control'
         /\ Fate' \in {"none", "cleared"}
<1>1. /\ pc = "off" /\ pc' = "clearing" /\ todo' = Existing
      /\ fates' = IF Existing = <<>> THEN fates ELSE [fates EXCEPT ![run] = "cleared"]
      /\ current' = NoCandidate /\ kept' = FALSE /\ runtime' = Nothing /\ archived' = {}
      /\ UNCHANGED <<files, manifest, tree, run, faults>> /\ ControlType
  BY DEF Claim, ForgetAll, OpenDatabase, directory, TypeOK
<1>2. fates' \in Seq(FateNames) /\ Len(fates') = run
  <2>1. "cleared" \in FateNames /\ fates \in Seq(FateNames)
    BY <1>1 DEF ControlType, FateNames
  <2> QED BY <1>1, <2>1, Updated DEF ControlType
<1>3. ControlType'
  BY <1>1, <1>2, ExistingIs DEF ControlType, Parts, Runtimes
<1>4. Control'
  <2>1. Cleared'
    <3> SUFFICES ASSUME NEW name \in Range(Managed), Present(name)' PROVE name \in Range(todo')
      BY DEF Cleared
    <3>1. Present(name)
      BY <1>1 DEF Present
    <3> QED BY <1>1, <3>1, ExistingIs
  <2> QED BY <1>1, <2>1, NoneTyped DEF Control
<1>5. Fate' \in {"none", "cleared"}
  <2>1. CASE run = 0
    BY <1>1, <2>1 DEF Fate
  <2>2. CASE run # 0 /\ Existing = <<>>
    <3>1. manifest = Nothing
      <4>1. Range(Existing) = {}
        BY <2>2 DEF Range
      <4> QED BY <4>1, ExistingIs, ManagedIs, PresentIs
    <3>2. Fate \in {"none", "cleared"}
      BY <1>1, <3>1 DEF FateOK
    <3> QED BY <1>1, <2>2, <3>2 DEF Fate
  <2>3. CASE run # 0 /\ Existing # <<>>
    <3>1. run \in DOMAIN fates /\ "cleared" \in FateNames /\ fates \in Seq(FateNames)
      BY <1>1, <2>3, FatesAre DEF ControlType, FateNames
    <3>2. fates'[run] = "cleared"
      BY <1>1, <2>3, <3>1, Updated
    <3> QED BY <1>1, <2>3, <3>2 DEF Fate
  <2> QED BY <2>1, <2>2, <2>3
<1> QED BY <1>1, <1>3, <1>4, <1>5

LEMMA RemoveNameIs ==
  ASSUME TypeOK, NEW name, RemoveName(name)
  PROVE  /\ FilesOK(files') /\ manifest' \in {manifest, Nothing} /\ run' = run
         /\ export' = export => TreeType'
         /\ \A other \in Range(Managed) : Present(other)' => Present(other) /\ other # name
<1>1. FilesOK(files')
  <2>1. CASE name \in Streams
    <3>1. files' = [files EXCEPT ![name] = <<>>]
      BY <2>1 DEF RemoveName
    <3>2. files = [s \in Streams |-> files[s]]
      BY DEF TypeOK, FilesOK
    <3>3. /\ files' = [s \in Streams |-> files'[s]]
          /\ \A s \in Streams : files'[s] \in {files[s], <<>>}
      BY <3>1, <3>2
    <3>4. /\ <<>> \in Seq(HistoryRows) /\ <<>> \in Seq(FailureRows)
          /\ <<>> \in Seq(AdmissionRows \cup MigrationTypes) /\ <<>> \in Seq(BudgetRows)
          /\ <<>> \in Seq(CallRows) /\ <<>> \in Seq(PromptRows) /\ <<>> \in Seq(ResultRows)
      OBVIOUS
    <3> QED BY <3>3, <3>4 DEF FilesOK, TypeOK, Streams
  <2>2. CASE name \notin Streams
    BY <2>2 DEF RemoveName, TypeOK
  <2> QED BY <2>1, <2>2
<1>2. manifest' \in {manifest, Nothing} /\ run' = run
  BY DEF RemoveName
<1>3. ASSUME export' = export PROVE TreeType'
  <2>1. Nothing \in TreeValues /\ Places \subseteq Paths
    BY Orders DEF TreeValues
  <2>2. tree' \in Trees
    BY <2>1, TreeUpdated DEF RemoveName, TypeOK, TreeType
  <2> QED BY <1>3, <2>2 DEF TypeOK, TreeType
<1>4. ASSUME NEW other \in Range(Managed), Present(other)'
      PROVE  Present(other) /\ other # name
  <2>1. other \in Streams \/ other \in Places \/ other = "manifest"
    BY ManagedIs
  <2>2. CASE other = "manifest"
    <3>1. manifest' # Nothing
      BY <1>4, <2>2 DEF Present, Places
    <3> QED BY <2>2, <3>1, PresentIs DEF RemoveName
  <2>3. CASE other \in Places
    <3>1. tree'[other] # Nothing /\ other \in Paths /\ tree \in Trees
      BY <1>4, <2>3, Orders DEF Present, Places, TypeOK, TreeType
    <3>2. tree' = IF name \in Places THEN [tree EXCEPT ![name] = Nothing] ELSE tree
      BY DEF RemoveName
    <3>3. tree[other] # Nothing /\ other # name
      BY <2>3, <3>1, <3>2 DEF Trees
    <3> QED BY <2>3, <3>3, PresentIs
  <2>4. CASE other \in Streams
    <3>1. files'[other] # <<>> /\ files = [s \in Streams |-> files[s]]
      BY <1>4, <2>4 DEF Present, Streams, Places, TypeOK, FilesOK
    <3>2. files' = IF name \in Streams THEN [files EXCEPT ![name] = <<>>] ELSE files
      BY DEF RemoveName
    <3>3. files[other] # <<>> /\ other # name
      BY <2>4, <3>1, <3>2
    <3> QED BY <2>4, <3>3, PresentIs
  <2> QED BY <2>1, <2>2, <2>3, <2>4
<1> QED BY <1>1, <1>2, <1>3, <1>4

LEMMA ClearFlow ==
  ASSUME TypeOK, Control, Clear
  PROVE  pc = "clearing" /\ pc' = "clearing" /\ ControlType' /\ Control'
<1>1. /\ pc = "clearing" /\ todo # <<>> /\ pc' = "clearing" /\ todo' = Tail(todo)
      /\ UNCHANGED <<archived, run, current, kept, runtime, fates, faults>> /\ ControlType
      /\ RemoveName(Head(todo))
  BY DEF Clear, RemoveName, memory, TypeOK
<1>2. ControlType'
  <2>1. Tail(todo) \in Seq(Range(Tail(todo)))
    BY <1>1, TailSeq DEF ControlType
  <2> QED BY <1>1, <2>1 DEF ControlType, Parts
<1>3. Cleared'
  <2> SUFFICES ASSUME NEW name \in Range(Managed), Present(name)' PROVE name \in Range(todo')
    BY DEF Cleared
  <2>1. Present(name) /\ name # Head(todo)
    BY <1>1, RemoveNameIs
  <2>2. name \in Range(todo)
    BY <1>1, <2>1 DEF Control, Cleared
  <2>3. todo \in Seq(Range(todo))
    BY <1>1 DEF ControlType
  <2>4. name \in Range(Tail(todo))
    <3>1. PICK i \in 1 .. Len(todo) : todo[i] = name
      BY <2>2, <2>3 DEF Range
    <3>2. i # 1 /\ i \in Int
      BY <2>1, <3>1
    <3>3. i - 1 \in DOMAIN Tail(todo) /\ Tail(todo)[i - 1] = name
      BY <1>1, <2>3, <3>1, <3>2
    <3> QED BY <3>3 DEF Range
  <2> QED BY <1>1, <2>4
<1>4. Control'
  BY <1>1, <1>3 DEF Control
<1> QED BY <1>1, <1>2, <1>4

LEMMA OpenFlow ==
  ASSUME TypeOK, Control, OpenRun
  PROVE  /\ pc = "clearing" /\ pc' = "running" /\ ControlType' /\ Control'
         /\ Stage' \in {"opening", "between"} /\ run' = run + 1 /\ Fate' = "under way"
         /\ \A s \in Streams : files'[s] = <<>>
         /\ manifest' = [run |-> run + 1, runtime |-> Nothing]
         /\ export' = Idle
<1>1. /\ pc = "clearing" /\ todo = <<>> /\ pc' = "running"
      /\ todo' = [i \in 1 .. Templates |-> "prompt"]
      /\ run' = run + 1 /\ fates' = Append(fates, "under way") /\ export' = Idle
      /\ UNCHANGED <<files, archived, current, kept, runtime, faults>> /\ ControlType
      /\ manifest' = [run |-> run + 1, runtime |-> Nothing]
  BY DEF OpenRun, memory, TypeOK
<1>2. todo' \in Seq({"prompt"})
  <2> DEFINE n == Templates
             l == [i \in 1 .. n |-> "prompt"]
  <2>1. n \in Nat
    BY ArtifactsAssumption
  <2>2. todo' = l
    BY <1>1
  <2> HIDE DEF n
  <2>3. l \in [1 .. n -> {"prompt"}]
    OBVIOUS
  <2> HIDE DEF l
  <2>4. l \in Seq({"prompt"})
    BY <2>1, <2>3
  <2> QED BY <2>2, <2>4
<1>3. Stage' \in {"opening", "between"}
  BY <1>2, PromptStages, ShortStages DEF Stage
<1>4. /\ fates' \in Seq(FateNames) /\ Len(fates') = run + 1 /\ fates'[run + 1] = "under way"
      /\ run \in Nat
  <2>1. fates \in Seq(FateNames) /\ Len(fates) = run /\ run \in Nat /\ "under way" \in FateNames
    BY <1>1 DEF ControlType, FateNames
  <2>2. /\ Append(fates, "under way") \in Seq(FateNames)
        /\ Len(Append(fates, "under way")) = Len(fates) + 1
        /\ Append(fates, "under way")[Len(fates) + 1] = "under way"
    BY <2>1, AppendIs
  <2> QED BY <1>1, <2>1, <2>2
<1>5. ControlType'
  <2>1. todo' \in Seq(Range(todo'))
    BY <1>2, RangeSeq
  <2>2. run' = run + 1 /\ run \in Nat /\ Len(fates') = run' /\ fates' \in Seq(FateNames)
    BY <1>1, <1>4 DEF ControlType
  <2>3. run' \in Nat
    BY <2>2
  <2>4. /\ pc' \in Parts /\ UNCHANGED <<current, kept, runtime, faults>> /\ ControlType
    BY <1>1 DEF Parts
  <2> QED BY <2>1, <2>2, <2>3, <2>4 DEF ControlType
<1>6. Control'
  BY <1>1, <1>2 DEF Control
<1>7. Fate' = "under way"
  <2>1. run' = run + 1 /\ run \in Nat
    BY <1>1 DEF ControlType
  <2>2. run' # 0
    BY <2>1
  <2>3. fates'[run'] = "under way"
    BY <1>4, <2>1
  <2> QED BY <2>2, <2>3 DEF Fate
<1>8. \A s \in Streams : files'[s] = <<>>
  BY <1>1, ClearedAll DEF Control
<1> QED BY <1>1, <1>3, <1>5, <1>6, <1>7, <1>8

LEMMA KillFlow ==
  ASSUME TypeOK, Control, Kill
  PROVE  /\ pc # "off" /\ pc' = "off" /\ ControlType' /\ Control'
         /\ pc = "clearing" => Fate' = Fate
         /\ pc # "clearing" /\ run # 0 => Fate' = "killed"
<1>1. /\ pc # "off" /\ pc' = "off" /\ todo' = <<>>
      /\ fates' = IF pc = "clearing" THEN fates ELSE [fates EXCEPT ![run] = "killed"]
      /\ current' = NoCandidate /\ kept' = FALSE /\ runtime' = Nothing /\ archived' = {}
      /\ faults' \in Nat /\ run' = run /\ ControlType
  BY DEF Kill, ForgetAll, OpenDatabase, directory, TypeOK, ControlType, Fault
<1>2. /\ fates' \in Seq(FateNames) /\ Len(fates') = run
      /\ pc # "clearing" /\ run # 0 => fates'[run] = "killed"
  <2>1. "killed" \in FateNames /\ fates \in Seq(FateNames) /\ (run # 0 => run \in DOMAIN fates)
    BY <1>1, FatesAre DEF ControlType, FateNames
  <2> QED BY <1>1, <2>1, Updated DEF ControlType
<1>3. ControlType'
  BY <1>1, <1>2, NoneTyped DEF ControlType, Parts, Runtimes
<1>4. Control'
  BY <1>1, NoneTyped DEF Control
<1> QED BY <1>1, <1>2, <1>3, <1>4 DEF Fate

(* A candidate is put in hand.                                             *)
LEMMA CandidateFlow ==
  ASSUME ControlType, Control, Ready, current' \in Candidates, current'.id = current.id + 1,
         UNCHANGED <<pc, run, fates, kept, archived, runtime, faults>>,
         \/ todo' = SeedSteps /\ IsSeed'
         \/ todo' = ChildSteps /\ ~IsSeed'
  PROVE  /\ pc = "running" /\ Stage = "between" /\ ControlType' /\ Control'
         /\ Stage' = "before" /\ Going'
<1>1. pc = "running" /\ todo = <<>> /\ Stage = "between" /\ pc' = "running"
  BY ShortStages DEF Ready, Stage
<1>2. current'.id >= 0 /\ current'.id >= -1 /\ current'.id \in Int
  BY DEF Control, Candidates, ControlType, NoCandidate
<1>3. \/ todo' = SeedFrom(1) /\ IsSeed' /\ StageOf(SeedFrom(1)) = "before"
      \/ todo' = ChildFrom(1) /\ ~IsSeed' /\ StageOf(ChildFrom(1)) = "before"
  <2>1. StageOf(SeedFrom(1)) = "before" /\ StageOf(ChildFrom(1)) = "before"
    BY SeedStages, ChildStages
  <2> QED BY <2>1, ListEnds
<1>4. InSteps' /\ Stage' = "before"
  <2>1. StepsOf(IsSeed', todo')
    BY <1>3 DEF StepsOf
  <2> QED BY <1>3, <2>1 DEF InSteps, Stage
<1>5. todo' \in Seq(Range(todo'))
  <2>1. SeedSteps \in Seq(Ops) /\ ChildSteps \in Seq(Ops)
    BY ListsAre
  <2> QED BY <2>1, RangeSeq
<1>6. ControlType'
  BY <1>1, <1>5 DEF ControlType
<1>7. Control'
  BY <1>1, <1>2, <1>4 DEF Control
<1> QED BY <1>1, <1>2, <1>4, <1>6, <1>7 DEF Going

LEMMA SeedFlow ==
  ASSUME TypeOK, Control, NEW valid \in BOOLEAN, NEW score \in Scores, NEW print \in Prints,
         NEW paths \in PathKinds, Seed(valid, score, print, paths)
  PROVE  /\ pc = "running" /\ Stage = "between" /\ ControlType' /\ Control'
         /\ Stage' = "before" /\ Going' /\ current'.id = current.id + 1 /\ pc' = "running"
<1>1. /\ current' = Candidate(valid, score, print, paths, NoParent, NoPrompt)
      /\ todo' = SeedSteps /\ Ready /\ ControlType
      /\ UNCHANGED <<pc, run, fates, kept, archived, runtime, faults>>
  BY DEF Seed, directory, memory, TypeOK
<1>2. /\ NoParent.id = -1 /\ NoParent.score = 0 /\ NoPrompt \in Int /\ paths \in PathNames
  BY DEF NoParent, NoPrompt, PathNames
<1>3. /\ current' \in Candidates /\ current'.id = current.id + 1 /\ current'.parent = NoParent.id
  BY <1>1, <1>2, NextCandidate
<1>4. IsSeed'
  BY <1>3 DEF IsSeed, NoParent
<1> QED BY <1>1, <1>3, <1>4, CandidateFlow

LEMMA ProposeFlow ==
  ASSUME TypeOK, Control, NEW valid \in BOOLEAN, NEW score \in Scores, NEW print \in Prints,
         NEW parent \in archived, NEW prompt \in Selectable,
         Propose(valid, score, print, parent, prompt)
  PROVE  /\ pc = "running" /\ Stage = "between" /\ ControlType' /\ Control'
         /\ Stage' = "before" /\ Going' /\ current'.id = current.id + 1 /\ pc' = "running"
<1>1. /\ current' = Candidate(valid, score, print, "plain", parent, prompt.id)
      /\ todo' = ChildSteps /\ Ready /\ ControlType
      /\ UNCHANGED <<pc, run, fates, kept, archived, runtime, faults>>
  BY DEF Propose, directory, memory, TypeOK
<1>2. /\ parent.id \in Int /\ parent.score \in Int /\ parent.id >= 0 /\ "plain" \in PathNames
  BY DEF TypeOK, MemoryType, Candidates, Control, PathNames
<1>3. prompt.id \in Int
  <2>1. \E i \in DOMAIN prompts : prompt = prompts[i]
    BY DEF Selectable, Untried, Range
  <2>2. prompts \in Seq(PromptPrograms)
    BY DEF TypeOK, PromptsType
  <2>3. prompt \in PromptPrograms
    BY <2>1, <2>2
  <2> QED BY <2>3 DEF PromptPrograms
<1>4. /\ current' \in Candidates /\ current'.id = current.id + 1 /\ current'.parent = parent.id
  BY <1>1, <1>2, <1>3, NextCandidate
<1>5. ~IsSeed'
  BY <1>2, <1>4 DEF IsSeed, NoParent
<1> QED BY <1>1, <1>4, <1>5, CandidateFlow

LEMMA AtExporting ==
  ASSUME Control, Doing("exporting")
  PROVE  pc \in {"finishing", "aborting"} /\ todo = Exporting /\ Stage = "exporting"
<1>1. "exporting" \in LastStages
  BY DEF LastStages
<1>2. pc \in {"finishing", "aborting"} /\ todo = Exporting
  BY <1>1, AtLast
<1> QED BY <1>2, LastStagesAre DEF Stage

(* The export, in the flow of the finalization.                            *)
LEMMA StartExportFlow ==
  ASSUME TypeOK, Control, StartExport
  PROVE  /\ pc \in {"finishing", "aborting"} /\ Stage = "export" /\ ControlType' /\ Control'
         /\ pc' = pc
         /\ \/ archived = {} /\ Stage' = "history" /\ UNCHANGED <<tree, export>>
            \/ /\ Stage' = "exporting" /\ export'.program \in Best /\ export'.at = "body"
               /\ TreeType' /\ \E b \in Best : BeginExport(b)
<1>1. "export" \in LastStages
  BY DEF LastStages
<1>2. pc \in {"finishing", "aborting"} /\ todo = LastFrom(2)
  BY <1>1, AtLast DEF StartExport
<1>3. /\ Stage = "export" /\ Tail(LastFrom(2)) = LastFrom(3) /\ StageOf(LastFrom(3)) = "history"
  <2>1. StageOf(LastFrom(2)) = Terminal[2] /\ StageOf(LastFrom(3)) = Terminal[3]
    BY LastStagesAre
  <2>2. Tail(LastFrom(2)) = LastFrom(2 + 1)
    BY LastLists
  <2> QED BY <1>2, <2>1, <2>2 DEF Stage, Terminal
<1>4. UNCHANGED <<run, archived, pc, current, kept, runtime, fates, faults>> /\ ControlType
  BY DEF StartExport, memory, TypeOK
<1>5. ASSUME todo' \in {LastFrom(3), Exporting} PROVE ControlType' /\ Control'
  <2>1. todo' \in Seq(Range(todo'))
    BY <1>5, LastTyped, RangeSeq
  <2>2. InLast'
    BY <1>5 DEF InLast
  <2>3. ControlType'
    BY <1>4, <2>1 DEF ControlType
  <2>4. Control'
    BY <1>2, <1>4, <2>2 DEF Control
  <2> QED BY <2>3, <2>4
<1>6. CASE archived = {}
  <2>1. todo' = LastFrom(3) /\ UNCHANGED <<tree, export>>
    BY <1>2, <1>3, <1>6 DEF StartExport
  <2> QED BY <1>2, <1>3, <1>4, <1>5, <1>6, <2>1 DEF Stage
<1>7. CASE archived # {}
  <2>1. PICK b \in Best : BeginExport(b)
    BY <1>7 DEF StartExport
  <2>2. todo' = Exporting
    BY <1>2, <1>3, <1>7 DEF StartExport, Exporting
  <2>3. b \in Candidates /\ TreeType
    BY DEF Best, TypeOK, MemoryType
  <2>4. TreeType' /\ export'.at = "body" /\ export'.program = b
    BY <2>1, <2>3, BeginExportType
  <2> QED BY <1>2, <1>3, <1>4, <1>5, <2>1, <2>2, <2>4, LastStagesAre DEF Stage
<1> QED BY <1>6, <1>7

LEMMA ExportFlow ==
  ASSUME TypeOK, Control, Export \/ ExportFails
  PROVE  /\ pc \in {"finishing", "aborting"} /\ Stage = "exporting" /\ ControlType' /\ Control'
         /\ pc' = pc /\ Stage' = "exporting" /\ TreeType' /\ export'.program = export.program
         /\ faults' >= faults /\ UNCHANGED <<files, manifest, run>>
         /\ export # Idle /\ export' # Idle
<1>1. Doing("exporting") /\ (ExportStep \/ ExportFault) /\ TreeType /\ ControlType
  BY DEF Export, ExportFails, TypeOK
<1>2. /\ TreeType' /\ export' \in Exports /\ export'.program = export.program
      /\ UNCHANGED <<files, manifest, run>>
  BY <1>1, ExportTypes
<1>3. UNCHANGED <<archived, pc, todo, current, kept, runtime, fates>> /\ faults' \in Nat /\ faults' >= faults
  BY <1>1 DEF Export, ExportFails, memory, control, Fault, ControlType
<1>4. pc \in {"finishing", "aborting"} /\ todo = Exporting /\ Stage = "exporting"
  BY <1>1, AtExporting
<1>5. ControlType'
  BY <1>1, <1>2, <1>3 DEF ControlType
<1>6. Control'
  <2>1. InLast'
    BY <1>3, <1>4 DEF InLast
  <2> QED BY <1>3, <1>4, <2>1 DEF Control
<1>7. export # Idle /\ export' # Idle
  <2>1. export.at # "idle"
    BY <1>1 DEF ExportStep, ExportFault, Operate, RollBack, CleanUp, RefuseExport, FailOperation,
                FailRollBack
  <2> QED BY <1>1, <1>2, <2>1, IdleIs DEF Exports, Idle
<1> QED BY <1>2, <1>3, <1>4, <1>5, <1>6, <1>7 DEF Stage

LEMMA ExportInterruptedFlow ==
  ASSUME TypeOK, Control, ExportInterrupted
  PROVE  /\ pc \in {"finishing", "aborting"} /\ Stage = "exporting" /\ ControlType' /\ Control'
         /\ pc' = "aborting" /\ faults' = faults + 1 /\ TreeType'
         /\ pc = "finishing" => Stage' = "stop"
         /\ pc = "aborting" => Stage' = "history"
         /\ UNCHANGED <<files, manifest, run>>
<1>1. pc \in {"finishing", "aborting"} /\ todo = Exporting /\ Stage = "exporting"
  BY AtExporting DEF ExportInterrupted
<1>2. TreeType' /\ UNCHANGED <<files, manifest, run>>
  BY ExportTypes DEF ExportInterrupted, TypeOK
<1>3. /\ Raise /\ UNCHANGED <<archived, current, kept, runtime, fates>> /\ ControlType
      /\ 2 \in 1 .. 3 /\ Terminal[2 + 1] = "history"
  BY DEF ExportInterrupted, memory, TypeOK, Terminal
<1>4. Continue("unsure", LastFrom(2 + 1)) /\ Runtimes(runtime')
  BY <1>3 DEF Continue, ControlType
<1> QED BY <1>1, <1>2, <1>3, <1>4, LastFlow

LEMMA EndExportFlow ==
  ASSUME TypeOK, Control, EndExport
  PROVE  /\ pc \in {"finishing", "aborting"} /\ Stage = "exporting" /\ ControlType' /\ Control'
         /\ pc' = pc /\ Stage' = "history"
         /\ RuntimeShape(runtime) => RuntimeShape(runtime')
<1>1. pc \in {"finishing", "aborting"} /\ todo = Exporting /\ Stage = "exporting"
  BY AtExporting DEF EndExport
<1>2. runtime' = [runtime EXCEPT !.export = export.at] /\ ControlType
  BY DEF EndExport, TypeOK
<1>3. RuntimeShape(runtime) => RuntimeShape(runtime')
  BY <1>2 DEF RuntimeShape
<1>4. Runtimes(runtime')
  <2>1. \A x : [Nothing EXCEPT !.export = x] = Nothing
    BY DEF Nothing
  <2> QED BY <1>2, <1>3, <2>1 DEF ControlType, Runtimes
<1>5. /\ UNCHANGED <<run, archived, pc, current, kept, fates, faults>>
      /\ todo' = LastFrom(3)
  BY <1>1, ExportingIs DEF EndExport, directory, memory
<1>6. Stage' = "history"
  <2>1. StageOf(LastFrom(3)) = Terminal[3]
    BY LastStagesAre
  <2> QED BY <1>5, <2>1 DEF Stage, Terminal
<1>7. ControlType'
  <2>1. todo' \in Seq(Range(todo'))
    BY <1>5, LastTyped, RangeSeq
  <2> QED BY <1>2, <1>4, <1>5, <2>1 DEF ControlType
<1>8. Control'
  <2>1. InLast'
    BY <1>5 DEF InLast
  <2> QED BY <1>1, <1>5, <2>1 DEF Control
<1> QED BY <1>1, <1>3, <1>5, <1>6, <1>7, <1>8

(***************************************************************************)
(* The base: types, the flow, and how the runs ended.                      *)
(***************************************************************************)
Base == TypeOK /\ Control /\ FateOK

(* A manifest and a runtime section are something.                         *)
LEMMA NotNothing ==
  /\ \A a, b : [run |-> a, runtime |-> b] # Nothing
  /\ \A r : RuntimeShape(r) => r # Nothing
<1>1. ASSUME NEW a, NEW b PROVE [run |-> a, runtime |-> b] # Nothing
  <2>1. DOMAIN [run |-> a, runtime |-> b] = {"run", "runtime"} /\ DOMAIN Nothing = {"none"}
    BY DEF Nothing
  <2> QED BY <2>1
<1>2. ASSUME NEW r, RuntimeShape(r) PROVE r # Nothing
  <2>1. DOMAIN r = {"status", "history", "artifacts", "export"} /\ DOMAIN Nothing = {"none"}
    BY <1>2 DEF Nothing, RuntimeShape
  <2> QED BY <2>1
<1> QED BY <1>1, <1>2

(* A step between two points of a run under way keeps the base when it     *)
(* keeps the types and the flow.                                           *)
LEMMA LiveBase ==
  ASSUME Base, Live, Live', UNCHANGED <<run, fates, manifest>>, ControlType', Control',
         MemoryType', PromptsType', TreeType', FilesOK(files')
  PROVE  Base'
<1>1. TypeOK'
  BY DEF TypeOK, Base
<1>2. FateOK'
  <2>1. run >= 1 /\ Fate = "under way" /\ manifest = [run |-> run, runtime |-> Nothing] /\ run \in Nat
    BY DEF Base, FateOK, TypeOK, ControlType
  <2>2. Fate' = Fate
    BY DEF Fate
  <2>3. pc' \notin {"off", "clearing"}
    BY DEF Live
  <2>4. run' = run /\ manifest' = manifest
    OBVIOUS
  <2>6. run \in Nat /\ run >= 1
    BY <2>1
  <2>7. run # 0
    BY <2>6
  <2>5. run' # 0 /\ run' >= 1
    BY <2>4, <2>6, <2>7, Zenon
  <2> QED BY <2>1, <2>2, <2>3, <2>4, <2>5 DEF FateOK
<1> QED BY <1>1, <1>2 DEF Base

LEMMA LiveUntouched ==
  ASSUME Base, Live, Live', UNCHANGED <<directory, memory, prompts, export, fates>>,
         ControlType', Control'
  PROVE  Base'
<1>1. UNCHANGED <<run, manifest>> /\ MemoryType' /\ PromptsType' /\ TreeType' /\ FilesOK(files')
  BY DEF Base, TypeOK, directory, memory, MemoryType, PromptsType, TreeType
<1> QED BY <1>1, LiveBase

LEMMA StepsLive ==
  ASSUME NEW outcome, NEW stages, Steps(outcome, stages), Going
  PROVE  Live /\ Live'
  BY DEF Steps, Going, Live

(* Operation by operation, the base is kept.                               *)
LEMMA PromptBase ==
  ASSUME Base, NEW outcome, AddPrompt(outcome)
  PROVE  Base'
<1>1. /\ pc = "running" /\ ControlType' /\ Control' /\ Steps(outcome, {"opening", "between"})
  BY PromptFlow DEF Base
<1>2. Live /\ Live'
  BY <1>1 DEF Steps, Live
<1>3. FilesOK(files') /\ PromptsType'
  BY AddSeedType DEF AddPrompt, Base
<1>4. UNCHANGED <<run, fates, manifest, memory, tree, export>>
  BY DEF AddPrompt, AddSeed
<1>5. MemoryType' /\ TreeType'
  BY <1>4 DEF Base, TypeOK, memory, MemoryType, TreeType
<1> QED BY <1>1, <1>2, <1>3, <1>4, <1>5, LiveBase

LEMMA LoggedBase ==
  ASSUME Base, Live, Live', ControlType', Control', FilesOK(files'), MemoryType',
         UNCHANGED <<run, fates, manifest, tree, prompts, export>>
  PROVE  Base'
<1>1. PromptsType' /\ TreeType'
  BY DEF Base, TypeOK, PromptsType, TreeType
<1> QED BY <1>1, LiveBase

LEMMA BudgetBase ==
  ASSUME Base,
         NEW kind \in {"seed_evaluation", "generation_started", "candidate_evaluation",
                       "generation_completed"},
         NEW outcome, BudgetEvent(kind, outcome)
  PROVE  Base'
<1>1. /\ Going /\ ControlType' /\ Control'
      /\ Steps(outcome, {"before"}) \/ Steps(outcome, {"between"})
  BY BudgetFlow DEF Base
<1>2. Live /\ Live'
  BY <1>1, StepsLive
<1>3. FilesOK(files') /\ MemoryType'
  BY BudgetEventType DEF BudgetEvent, Base, BudgetKinds
<1>4. UNCHANGED <<run, fates, manifest, tree, prompts, export>>
  BY DEF BudgetEvent, LogControllerBudgetEvent, promptsAndExport
<1> QED BY <1>1, <1>2, <1>3, <1>4, LoggedBase

LEMMA CallBase ==
  ASSUME Base, NEW outcome, NEW ending \in {"answered", "failed", "interrupted"},
         CallModel(outcome, ending)
  PROVE  Base'
<1>1. Going /\ Going' /\ ControlType' /\ Control'
  BY CallFlow DEF Base
<1>2. Live /\ Live'
  BY <1>1 DEF Going, Live
<1>3. FilesOK(files') /\ MemoryType'
  BY CallType DEF CallModel, Base
<1>4. UNCHANGED <<run, fates, manifest, tree, prompts, export>>
  BY DEF CallModel, LogLLMCall, promptsAndExport
<1> QED BY <1>1, <1>2, <1>3, <1>4, LoggedBase

LEMMA CallEventBase ==
  ASSUME Base, NEW outcome, NEW caught \in BOOLEAN, LogCallEvent(outcome, caught)
  PROVE  Base'
<1>1. Going /\ pc' \in {"running", "aborting"} /\ ControlType' /\ Control'
  BY CallEventFlow DEF Base
<1>2. Live /\ Live'
  BY <1>1 DEF Going, Live
<1>3. FilesOK(files') /\ MemoryType'
  BY BudgetEventType DEF LogCallEvent, Base, BudgetKinds
<1>4. UNCHANGED <<run, fates, manifest, tree, prompts, export>>
  BY DEF LogCallEvent, LogControllerBudgetEvent, promptsAndExport
<1> QED BY <1>1, <1>2, <1>3, <1>4, LoggedBase

LEMMA AdmitBase ==
  ASSUME Base, NEW outcome, NEW admitted \in BOOLEAN, AdmitCurrent(admitted, outcome)
  PROVE  Base'
<1>1. /\ Going /\ ControlType' /\ Control'
      /\ Steps(outcome, {IF Fails(admitted) THEN "due" ELSE "told"})
  BY AdmitFlow DEF Base
<1>2. Live /\ Live'
  BY <1>1, StepsLive
<1>3. FilesOK(files') /\ MemoryType'
  BY <1>1, AdmitType DEF AdmitCurrent, Base, Going
<1>4. UNCHANGED <<run, fates, manifest, tree, prompts, export>>
  BY DEF AdmitCurrent, Admit, promptsAndExport
<1> QED BY <1>1, <1>2, <1>3, <1>4, LoggedBase

LEMMA FailureBase ==
  ASSUME Base, NEW outcome, RecordFailure(outcome)
  PROVE  Base'
<1>1. /\ Going /\ ControlType' /\ Control'
      /\ Steps(outcome, {"told"}) \/ Steps(outcome, {"between"})
  BY FailureFlow DEF Base
<1>2. Live /\ Live'
  BY <1>1, StepsLive
<1>3. FilesOK(files') /\ MemoryType'
  BY <1>1, LogFailureType DEF RecordFailure, Base, Going
<1>4. UNCHANGED <<run, fates, manifest, tree, prompts, export>>
  BY DEF RecordFailure, LogFailure, promptsAndExport
<1> QED BY <1>1, <1>2, <1>3, <1>4, LoggedBase

LEMMA RewardBase ==
  ASSUME Base, NEW outcome, LogReward(outcome)
  PROVE  Base'
<1>1. Going /\ ControlType' /\ Control' /\ Steps(outcome, {"told"})
  BY RewardFlow DEF Base
<1>2. Live /\ Live'
  BY <1>1, StepsLive
<1>3. FilesOK(files') /\ MemoryType'
  BY CallType DEF LogReward, Base
<1>4. UNCHANGED <<run, fates, manifest, tree, prompts, export>>
  BY DEF LogReward, LogLLMCall, promptsAndExport
<1> QED BY <1>1, <1>2, <1>3, <1>4, LoggedBase

LEMMA LogBase ==
  ASSUME Base, NEW outcome, LogProgram(outcome)
  PROVE  Base'
<1>1. Going /\ ControlType' /\ Control' /\ Steps(outcome, {"between", "after"}) /\ kept \in BOOLEAN
  BY LogFlow DEF Base, TypeOK, ControlType
<1>2. Live /\ Live'
  BY <1>1, StepsLive
<1>3. FilesOK(files') /\ MemoryType'
  BY <1>1, LogType DEF LogProgram, Base, Going
<1>4. UNCHANGED <<run, fates, manifest, tree, prompts, export>>
  BY DEF LogProgram, Log, promptsAndExport
<1> QED BY <1>1, <1>2, <1>3, <1>4, LoggedBase

LEMMA ResultBase ==
  ASSUME Base, NEW outcome, ScorePrompt(outcome)
  PROVE  Base'
<1>1. Going /\ ControlType' /\ Control' /\ Steps(outcome, {"after"})
  BY ResultFlow DEF Base
<1>2. Live /\ Live'
  BY <1>1, StepsLive
<1>3. current.score - current.baseline \in Int
  BY <1>1 DEF Going, Candidates
<1>4. FilesOK(files') /\ PromptsType'
  BY <1>3, ResultType DEF ScorePrompt, Base
<1>5. UNCHANGED <<run, fates, manifest, tree, memory, export>>
  BY DEF ScorePrompt, RecordResult
<1>6. MemoryType' /\ TreeType'
  BY <1>5 DEF Base, TypeOK, memory, MemoryType, TreeType
<1> QED BY <1>1, <1>2, <1>4, <1>5, <1>6, LiveBase

LEMMA MigrateBase ==
  ASSUME Base, NEW outcome, Migrate(outcome)
  PROVE  Base'
<1>1. Going /\ ControlType' /\ Control' /\ Steps(outcome, {"after"})
  BY MigrateFlow DEF Base
<1>2. Live /\ Live'
  BY <1>1, StepsLive
<1>3. UNCHANGED <<run, fates, manifest, tree, prompts, export>>
  BY DEF Migrate, MaybeMigrate, promptsAndExport, directory
<1>4. FilesOK(files') /\ MemoryType'
  <2>1. CASE MaybeMigrate(outcome)
    BY <2>1, MigrateType DEF Base
  <2>2. CASE UNCHANGED <<directory, memory>>
    BY <2>2 DEF directory, memory, Base, TypeOK, MemoryType
  <2> QED BY <2>1, <2>2 DEF Migrate
<1> QED BY <1>1, <1>2, <1>3, <1>4, LoggedBase

LEMMA StopBase ==
  ASSUME Base, NEW outcome, LogStop(outcome)
  PROVE  Base'
<1>1. /\ pc \in {"finishing", "aborting"} /\ pc' \in {"finishing", "aborting"}
      /\ ControlType' /\ Control'
  BY StopFlow DEF Base
<1>2. Live /\ Live'
  BY <1>1 DEF Live
<1>3. FilesOK(files') /\ MemoryType'
  BY BudgetEventType DEF LogStop, Base, BudgetKinds
<1>4. UNCHANGED <<run, fates, manifest, tree, prompts, export>>
  BY DEF LogStop, LogControllerBudgetEvent, promptsAndExport
<1> QED BY <1>1, <1>2, <1>3, <1>4, LoggedBase

LEMMA HistoryBase ==
  ASSUME Base, NEW outcome, SummarizeHistory(outcome)
  PROVE  Base'
<1>1. /\ pc \in {"finishing", "aborting"} /\ pc' \in {"finishing", "aborting"}
      /\ ControlType' /\ Control'
  BY HistoryFlow DEF Base
<1>2. Live /\ Live'
  BY <1>1 DEF Live
<1>3. UNCHANGED <<run, fates, manifest, tree, prompts, export, memory>>
  BY DEF SummarizeHistory, promptsAndExport
<1>4. FilesOK(files') /\ MemoryType'
  <2>1. files' \in {files, WithResults(<<>>), WithResults(EvaluatorResults)}
    BY DEF SummarizeHistory
  <2> QED BY <1>3, <2>1, ResultsType, EvaluatorResultsType DEF Base, TypeOK, memory, MemoryType
<1> QED BY <1>1, <1>2, <1>3, <1>4, LoggedBase

LEMMA ManifestBase ==
  ASSUME Base, NEW outcome, FinishManifest(outcome)
  PROVE  Base'
<1>1. /\ pc \in {"finishing", "aborting"} /\ ControlType' /\ Control'
      /\ UNCHANGED <<current, kept, runtime, run>>
      /\ \/ /\ outcome = "written" \/ pc = "aborting"
            /\ pc' = "off"
            /\ fates' = [fates EXCEPT ![run] = IF pc = "finishing" THEN "completed" ELSE "aborted"]
         \/ /\ outcome # "written" /\ pc = "finishing"
            /\ pc' = "aborting" /\ fates' = fates
  BY ManifestFlow DEF Base
<1>2. UNCHANGED <<files, tree, memory, prompts, export>>
  BY DEF FinishManifest, WriteManifest, directory, promptsAndExport
<1>3. FilesOK(files') /\ MemoryType' /\ PromptsType' /\ TreeType'
  BY <1>2 DEF Base, TypeOK, MemoryType, PromptsType, TreeType, memory
<1>4. manifest = [run |-> run, runtime |-> Nothing] /\ run >= 1 /\ Runtimes(runtime)
  BY <1>1 DEF Base, FateOK, Live, TypeOK, ControlType
<1>5. manifest' = manifest \/ manifest' = [run |-> run, runtime |-> runtime]
  BY <1>4 DEF FinishManifest, WriteManifest, directory
<1>6. Manifests(manifest') /\ manifest' # Nothing
  <2>1. \A a, b : [run |-> a, runtime |-> b].runtime = b /\ [run |-> a, runtime |-> b].run = a
    OBVIOUS
  <2> QED BY <1>4, <1>5, <2>1, NotNothing DEF Manifests, Runtimes
<1>7. TypeOK'
  BY <1>1, <1>3, <1>6 DEF TypeOK
<1>8. CASE pc' = "off"
  <2>1. fates' = [fates EXCEPT ![run] = IF pc = "finishing" THEN "completed" ELSE "aborted"]
    BY <1>1, <1>8
  <2>2. run \in DOMAIN fates /\ run # 0
    BY <1>4, FatesAre DEF Base, TypeOK, ControlType
  <2>3. Fate' \in {"completed", "aborted"}
    BY <1>1, <2>1, <2>2 DEF Fate
  <2>4. FateOK'
    BY <1>1, <1>6, <1>8, <2>2, <2>3 DEF FateOK, Live
  <2> QED BY <1>1, <1>7, <2>4 DEF Base
<1>9. CASE pc' = "aborting"
  <2>1. Live /\ Live' /\ manifest' = manifest /\ fates' = fates
    BY <1>1, <1>9 DEF Live, FinishManifest, directory
  <2> QED BY <1>1, <1>3, <2>1, LiveBase
<1> QED BY <1>1, <1>8, <1>9

LEMMA ClaimBase ==
  ASSUME Base, NEW policy, Claim(policy)
  PROVE  Base'
<1>1. /\ pc = "off" /\ pc' = "clearing" /\ ControlType' /\ Control'
      /\ Fate' \in {"none", "cleared"}
  BY ClaimFlow DEF Base
<1>2. /\ UNCHANGED <<files, manifest, tree, run, export>> /\ OpenDatabase /\ ForgetPrompts
  BY DEF Claim, ForgetAll, directory
<1>3. MemoryType' /\ PromptsType' /\ TreeType' /\ FilesOK(files') /\ Manifests(manifest')
  BY <1>2 DEF OpenDatabase, ForgetPrompts, MemoryType, PromptsType, TreeType, Base, TypeOK
<1>4. TypeOK'
  BY <1>1, <1>3 DEF TypeOK
<1>5. FateOK'
  <2>1. \A name : Present(name)' <=> Present(name)
    BY <1>2 DEF Present
  <2> QED BY <1>1, <1>2, <2>1 DEF FateOK, Base, Live
<1> QED BY <1>1, <1>4, <1>5 DEF Base

LEMMA ClearBase ==
  ASSUME Base, Clear
  PROVE  Base'
<1>1. pc = "clearing" /\ pc' = "clearing" /\ ControlType' /\ Control'
  BY ClearFlow DEF Base
<1>2. /\ RemoveName(Head(todo)) /\ UNCHANGED <<memory, prompts, export, fates>>
  BY DEF Clear, promptsAndExport
<1>3. /\ FilesOK(files') /\ manifest' \in {manifest, Nothing} /\ run' = run /\ TreeType'
      /\ \A other \in Range(Managed) : Present(other)' => Present(other)
  BY <1>2, RemoveNameIs DEF Base
<1>4. MemoryType' /\ PromptsType' /\ Manifests(manifest')
  BY <1>2, <1>3 DEF memory, MemoryType, PromptsType, Base, TypeOK, Manifests
<1>5. TypeOK'
  BY <1>1, <1>3, <1>4 DEF TypeOK
<1>6. FateOK'
  <2>1. Fate' = Fate /\ Fate \in {"none", "cleared"}
    BY <1>1, <1>2, <1>3 DEF Fate, Base, FateOK
  <2> QED BY <1>1, <1>2, <1>3, <2>1 DEF FateOK, Base, Live
<1> QED BY <1>1, <1>5, <1>6 DEF Base

LEMMA OpenBase ==
  ASSUME Base, OpenRun
  PROVE  Base'
<1>1. /\ pc = "clearing" /\ pc' = "running" /\ ControlType' /\ Control'
      /\ run' = run + 1 /\ Fate' = "under way"
      /\ manifest' = [run |-> run + 1, runtime |-> Nothing] /\ export' = Idle
  BY OpenFlow DEF Base
<1>2. UNCHANGED <<files, memory, prompts>> /\ tree' = [p \in Paths |-> IF p \in Places THEN tree[p] ELSE Nothing]
  BY DEF OpenRun
<1>3. MemoryType' /\ PromptsType' /\ FilesOK(files') /\ TreeType'
  BY <1>1, <1>2 DEF memory, MemoryType, PromptsType, Base, TypeOK, TreeType, Trees, TreeValues
<1>4. Manifests(manifest') /\ manifest' # Nothing
  BY <1>1 DEF Manifests, Nothing, Runtimes
<1>5. TypeOK'
  BY <1>1, <1>3, <1>4 DEF TypeOK
<1>6. run \in Nat /\ run' # 0 /\ run' >= 1
  <2>1. run \in Nat /\ run' = run + 1
    BY <1>1 DEF Base, TypeOK, ControlType
  <2> QED BY <2>1
<1>7. FateOK'
  BY <1>1, <1>4, <1>6 DEF FateOK, Live
<1> QED BY <1>1, <1>5, <1>7 DEF Base

LEMMA KillBase ==
  ASSUME Base, Kill
  PROVE  Base'
<1>1. /\ pc # "off" /\ pc' = "off" /\ ControlType' /\ Control'
      /\ pc = "clearing" => Fate' = Fate
      /\ pc # "clearing" /\ run # 0 => Fate' = "killed"
  BY KillFlow DEF Base
<1>2. UNCHANGED <<files, manifest, tree, run, export>> /\ OpenDatabase /\ ForgetPrompts
  BY DEF Kill, ForgetAll, directory
<1>3. MemoryType' /\ PromptsType' /\ TreeType' /\ FilesOK(files') /\ Manifests(manifest')
  BY <1>2 DEF OpenDatabase, ForgetPrompts, MemoryType, PromptsType, TreeType, Base, TypeOK
<1>4. TypeOK'
  BY <1>1, <1>3 DEF TypeOK
<1>5. \A name : Present(name)' <=> Present(name)
  BY <1>2 DEF Present
<1>6. pc \in Parts
  BY DEF Base, TypeOK, ControlType
<1>7. CASE pc = "clearing"
  <2>1. Fate \in {"none", "cleared"} /\ Fate' = Fate
    BY <1>1, <1>7 DEF FateOK, Base
  <2>2. FateOK'
    BY <1>1, <1>2, <1>5, <2>1 DEF FateOK, Base, Live
  <2> QED BY <1>1, <1>4, <2>2 DEF Base
<1>8. CASE pc # "clearing"
  <2>1. Live /\ run # 0 /\ manifest # Nothing
    <3>1. Live
      BY <1>1, <1>6, <1>8 DEF Live, Parts
    <3>2. run \in Nat /\ run >= 1 /\ manifest = [run |-> run, runtime |-> Nothing]
      BY <3>1 DEF Base, FateOK, TypeOK, ControlType
    <3>3. run # 0
      BY <3>2
    <3>4. manifest # Nothing
      BY <3>2, NotNothing
    <3> QED BY <3>1, <3>3, <3>4
  <2>2. Fate' = "killed" /\ run' # 0 /\ manifest' # Nothing
    BY <1>1, <1>2, <1>8, <2>1
  <2>3. FateOK'
    BY <1>1, <2>2 DEF FateOK, Live
  <2> QED BY <1>1, <1>4, <2>3 DEF Base
<1> QED BY <1>7, <1>8

(* The steps that only turn evolve from one part to another.               *)
Turns ==
  \/ NoCallLeft \/ Reraise \/ Finish \/ Interrupt \/ EndExport
  \/ \E valid \in BOOLEAN, score \in Scores, print \in Prints :
       \/ \E paths \in PathKinds : Seed(valid, score, print, paths)
       \/ \E parent \in archived, prompt \in Selectable :
            Propose(valid, score, print, parent, prompt)

LEMMA TurnsBase ==
  ASSUME Base, Turns
  PROVE  Base' /\ Live /\ Live' /\ UNCHANGED <<directory, memory, prompts, export, fates>>
<1>1. UNCHANGED <<directory, memory, prompts, export, fates>>
  BY DEF Turns, NoCallLeft, Reraise, Finish, Interrupt, EndExport, Seed, Propose, promptsAndExport
<1>2. /\ pc \in {"running", "finishing", "aborting"} /\ pc' \in {"running", "finishing", "aborting"}
      /\ ControlType' /\ Control'
  <2>1. CASE NoCallLeft
    BY <2>1, NoCallFlow DEF Base, Going
  <2>2. CASE Reraise
    BY <2>2, ReraiseFlow DEF Base, Going
  <2>3. CASE Finish
    BY <2>3, FinishFlow DEF Base
  <2>4. CASE Interrupt
    BY <2>4, InterruptFlow DEF Base
  <2>5. CASE EndExport
    BY <2>5, EndExportFlow DEF Base
  <2>6. ASSUME NEW valid \in BOOLEAN, NEW score \in Scores, NEW print \in Prints,
               NEW paths \in PathKinds, Seed(valid, score, print, paths)
        PROVE  /\ pc \in {"running", "finishing", "aborting"} /\ pc' \in {"running", "finishing", "aborting"}
               /\ ControlType' /\ Control'
    BY <2>6, SeedFlow DEF Base
  <2>7. ASSUME NEW valid \in BOOLEAN, NEW score \in Scores, NEW print \in Prints,
               NEW parent \in archived, NEW prompt \in Selectable,
               Propose(valid, score, print, parent, prompt)
        PROVE  /\ pc \in {"running", "finishing", "aborting"} /\ pc' \in {"running", "finishing", "aborting"}
               /\ ControlType' /\ Control'
    BY <2>7, ProposeFlow DEF Base
  <2> QED BY <2>1, <2>2, <2>3, <2>4, <2>5, <2>6, <2>7 DEF Turns
<1>3. Live /\ Live'
  BY <1>2 DEF Live
<1> QED BY <1>1, <1>2, <1>3, LiveUntouched

(* The steps of the export.                                                *)
ExportSteps == StartExport \/ Export \/ ExportFails \/ ExportInterrupted

LEMMA ExportBase ==
  ASSUME Base, ExportSteps
  PROVE  /\ Base' /\ Live /\ Live' /\ UNCHANGED <<files, manifest, run, memory, prompts, fates>>
         /\ pc \in {"finishing", "aborting"} /\ pc' \in {"finishing", "aborting"}
         /\ pc = "aborting" => pc' = "aborting"
<1>1. UNCHANGED <<files, manifest, run, memory, prompts, fates>>
  <2>1. CASE StartExport
    BY <2>1 DEF StartExport
  <2>2. CASE Export \/ ExportFails \/ ExportInterrupted
    <3>1. TreeType /\ (ExportStep \/ ExportFault \/ InterruptExport)
      BY <2>2 DEF Export, ExportFails, ExportInterrupted, Base, TypeOK
    <3>2. UNCHANGED <<files, manifest, run>>
      BY <3>1, ExportTypes
    <3> QED BY <2>2, <3>2 DEF Export, ExportFails, ExportInterrupted, control
  <2> QED BY <2>1, <2>2 DEF ExportSteps
<1>2. /\ pc \in {"finishing", "aborting"} /\ pc' \in {"finishing", "aborting"}
      /\ ControlType' /\ Control' /\ TreeType' /\ (pc = "aborting" => pc' = "aborting")
  <2>1. CASE StartExport
    BY <2>1, StartExportFlow DEF Base, TypeOK, TreeType
  <2>2. CASE Export \/ ExportFails
    BY <2>2, ExportFlow DEF Base
  <2>3. CASE ExportInterrupted
    BY <2>3, ExportInterruptedFlow DEF Base
  <2> QED BY <2>1, <2>2, <2>3 DEF ExportSteps
<1>3. Live /\ Live'
  BY <1>2 DEF Live
<1>4. FilesOK(files') /\ MemoryType' /\ PromptsType'
  BY <1>1 DEF Base, TypeOK, memory, MemoryType, PromptsType
<1>5. Base'
  BY <1>1, <1>2, <1>3, <1>4, LiveBase
<1> QED BY <1>1, <1>2, <1>3, <1>5

(* A step is of one of these kinds.                                        *)
LEMMA NextIs ==
  ASSUME Next
  PROVE  \/ \E policy \in Policies : Claim(policy)
         \/ Clear \/ OpenRun \/ Turns \/ ExportSteps \/ Kill
         \/ \E outcome \in Outcomes : Logging(outcome)
  BY DEF Next, Turns, ExportSteps

LEMMA LoggingBase ==
  ASSUME Base, NEW outcome \in Outcomes, Logging(outcome)
  PROVE  Base'
<1>1. CASE AddPrompt(outcome)
  BY <1>1, PromptBase
<1>2. ASSUME NEW kind \in {"seed_evaluation", "generation_started", "candidate_evaluation",
                           "generation_completed"}, BudgetEvent(kind, outcome)
      PROVE  Base'
  BY <1>2, BudgetBase
<1>3. ASSUME NEW ending \in {"answered", "failed", "interrupted"}, CallModel(outcome, ending)
      PROVE  Base'
  BY <1>3, CallBase
<1>4. ASSUME NEW caught \in BOOLEAN, LogCallEvent(outcome, caught)
      PROVE  Base'
  BY <1>4, CallEventBase
<1>5. ASSUME NEW admitted \in BOOLEAN, AdmitCurrent(admitted, outcome)
      PROVE  Base'
  BY <1>5, AdmitBase
<1>6. CASE RecordFailure(outcome)
  BY <1>6, FailureBase
<1>7. CASE LogReward(outcome)
  BY <1>7, RewardBase
<1>8. CASE LogProgram(outcome)
  BY <1>8, LogBase
<1>9. CASE ScorePrompt(outcome)
  BY <1>9, ResultBase
<1>10. CASE Migrate(outcome)
  BY <1>10, MigrateBase
<1>11. CASE LogStop(outcome)
  BY <1>11, StopBase
<1>12. CASE SummarizeHistory(outcome)
  BY <1>12, HistoryBase
<1>13. CASE FinishManifest(outcome)
  BY <1>13, ManifestBase
<1> QED
  BY <1>1, <1>2, <1>3, <1>4, <1>5, <1>6, <1>7, <1>8, <1>9, <1>10, <1>11, <1>12, <1>13 DEF Logging

LEMMA BaseUntouched ==
  ASSUME Base, UNCHANGED vars
  PROVE  Base'
<1>1. UNCHANGED <<files, manifest, tree, run, archived, admissions, hops, logged, failures,
                  budgetEvents, llmCalls, prompts, export, pc, todo, current, kept, runtime,
                  fates, faults>>
  BY DEF vars, directory, memory, control
<1>2. TypeOK'
  BY <1>1 DEF Base, TypeOK, ControlType, MemoryType, PromptsType, TreeType
<1>3. Control'
  <2>1. (Cleared' <=> Cleared) /\ (InSteps' <=> InSteps) /\ (InLast' <=> InLast)
    BY <1>1 DEF Cleared, Present, InSteps, IsSeed, InLast
  <2> QED BY <1>1, <2>1 DEF Base, Control
<1>4. FateOK'
  BY <1>1 DEF Base, FateOK, Fate, Live, Present
<1> QED BY <1>2, <1>3, <1>4 DEF Base

(* The base is inductive.                                                  *)
LEMMA BaseNext ==
  ASSUME Base, [Next]_vars
  PROVE  Base'
<1>1. ASSUME NEW policy \in Policies, Claim(policy) PROVE Base'
  BY <1>1, ClaimBase
<1>2. ASSUME NEW outcome \in Outcomes, Logging(outcome) PROVE Base'
  BY <1>2, LoggingBase
<1>3. CASE Clear
  BY <1>3, ClearBase
<1>4. CASE OpenRun
  BY <1>4, OpenBase
<1>5. CASE Turns
  BY <1>5, TurnsBase
<1>6. CASE ExportSteps
  BY <1>6, ExportBase
<1>7. CASE Kill
  BY <1>7, KillBase
<1>8. CASE UNCHANGED vars
  BY <1>8, BaseUntouched
<1> QED BY <1>1, <1>2, <1>3, <1>4, <1>5, <1>6, <1>7, <1>8, NextIs

LEMMA BaseInit == Init => Base
<1> SUFFICES ASSUME Init PROVE Base
  OBVIOUS
<1>1. /\ files = [s \in Streams |-> <<>>] /\ manifest = Nothing /\ tree = [p \in Paths |-> Nothing]
      /\ run = 0 /\ archived = {} /\ admissions = 0 /\ hops = 0 /\ logged = <<>> /\ failures = <<>>
      /\ budgetEvents = 0 /\ llmCalls = 0 /\ prompts = <<>> /\ export = Idle
      /\ pc = "off" /\ todo = <<>> /\ current = NoCandidate /\ kept = FALSE
      /\ runtime = Nothing /\ fates = <<>> /\ faults = 0
  BY DEF Init, EmptyDirectory
<1>2. ControlType
  <2>1. /\ fates \in Seq(FateNames) /\ Len(fates) = run /\ run \in Nat /\ faults \in Nat
    BY <1>1
  <2>2. todo \in Seq(Range(todo))
    BY <1>1, NoneTyped, Zenon
  <2> QED BY <1>1, <2>1, <2>2 DEF ControlType, Parts, Runtimes
<1>3. MemoryType /\ PromptsType
  BY <1>1 DEF MemoryType, PromptsType
<1>4. TreeType
  BY <1>1 DEF TreeType, Trees, TreeValues
<1>5. FilesOK(files)
  BY <1>1 DEF FilesOK, Streams
<1>6. Manifests(manifest)
  BY <1>1 DEF Manifests
<1>7. TypeOK
  BY <1>2, <1>3, <1>4, <1>5, <1>6 DEF TypeOK
<1>8. Control
  BY <1>1, NoneTyped DEF Control
<1>9. FateOK
  <2>1. \A name \in Range(Managed) : ~Present(name)
    <3>1. \A s \in Streams : files[s] = <<>>
      BY <1>1
    <3>2. \A p \in Places : tree[p] = Nothing
      BY <1>1, Orders
    <3> QED BY <1>1, <3>1, <3>2, PresentIs, ManagedIs
  <2>2. Fate = "none"
    BY <1>1 DEF Fate
  <2> QED BY <1>1, <2>1, <2>2 DEF FateOK, Live
<1> QED BY <1>7, <1>8, <1>9 DEF Base

(* In every behaviour the variables have their types, what evolve has yet  *)
(* to do is the rest of one of its lists, and the directory of a run under *)
(* way has the startup manifest and nothing of the run before.             *)
THEOREM RunTyped == Spec => []Base
<1>1. Base /\ [Next]_vars => Base'
  BY BaseNext
<1> QED BY BaseInit, <1>1, PTL DEF Spec

(***************************************************************************)
(* Numbered rows, between appends. Of admissions and migrations every      *)
(* number is there once; of budget events and calls the next number may be *)
(* there already, left by an append that raised, and what repeats is       *)
(* bounded by the faults.                                                  *)
(***************************************************************************)
(* Numbers that go up by one.                                              *)
Upwards(rows, places, first) ==
  /\ \A i, j \in places : i < j => rows[i].number < rows[j].number
  /\ \A n \in Numbers(rows, places) : n >= first /\ first .. n \subseteq Numbers(rows, places)
UpTo(rows, places, first, next) == Numbers(rows, places) = first .. next - 1
(* Numbers of which the next may be there already.                         *)
Counting(rows, places, first, next, limit) ==
  /\ \A i, j \in places : i < j => rows[i].number <= rows[j].number
  /\ \A n \in Numbers(rows, places) : n \in first .. next
  /\ first .. next - 1 \subseteq Numbers(rows, places)
  /\ Cardinality(Repeats(rows, places))
       + (IF next \in Numbers(rows, places) THEN 1 ELSE 0) <= limit

RowsOwn == \A s \in Streams : \A i \in DOMAIN files[s] : files[s][i].run = run
Events == files["archive_events"]
EventsNumbered ==
  /\ Upwards(Events, Of("admission", Events), 1)
  /\ Upwards(Events, Of("migration", Events), 1)
  /\ pc # "aborting" => /\ UpTo(Events, Of("admission", Events), 1, admissions + 1)
                        /\ UpTo(Events, Of("migration", Events), 1, hops + 1)
Budget == files["controller_budget_events"]
BudgetNumbered == Counting(Budget, DOMAIN Budget, 0, budgetEvents, faults)
Calls == files["llm_calls"]
CallsNumbered == Counting(Calls, Of("call", Calls), 1, llmCalls + 1, faults)
NumbersInv == Live => RowsOwn /\ EventsNumbered /\ BudgetNumbered /\ CallsNumbered

(***************************************************************************)
(* Rows that are numbered.                                                 *)
(***************************************************************************)
(* Rows that stay keep their numbers.                                      *)
LEMMA SameNumbers ==
  ASSUME NEW rows, NEW more, NEW places, \A i \in places : more[i] = rows[i]
  PROVE  Numbers(more, places) = Numbers(rows, places) /\ Repeats(more, places) = Repeats(rows, places)
<1>1. Numbers(more, places) = Numbers(rows, places)
  BY DEF Numbers
<1>2. Repeats(more, places) = Repeats(rows, places)
  BY DEF Repeats
<1> QED BY <1>1, <1>2

LEMMA RepeatsFinite ==
  ASSUME NEW rows, NEW places, IsFiniteSet(places)
  PROVE  IsFiniteSet(Repeats(rows, places)) /\ Cardinality(Repeats(rows, places)) \in Nat
<1>1. Repeats(rows, places) \in SUBSET places
  BY DEF Repeats
<1> QED BY <1>1, FS_Subset, FS_CardinalityType

LEMMA CountingSame ==
  ASSUME NEW rows, NEW more, NEW places, IsFiniteSet(places), \A i \in places : more[i] = rows[i],
         NEW first, NEW next, NEW limit \in Nat, NEW most \in Nat, limit <= most,
         Counting(rows, places, first, next, limit)
  PROVE  Counting(more, places, first, next, most)
<1>1. Numbers(more, places) = Numbers(rows, places) /\ Repeats(more, places) = Repeats(rows, places)
  BY SameNumbers
<1>2. Cardinality(Repeats(rows, places)) \in Nat
  BY RepeatsFinite
<1>3. Cardinality(Repeats(more, places))
       + (IF next \in Numbers(more, places) THEN 1 ELSE 0) <= most
  <2>1. Cardinality(Repeats(rows, places))
          + (IF next \in Numbers(rows, places) THEN 1 ELSE 0) <= limit
    BY DEF Counting
  <2> QED BY <1>1, <1>2, <2>1
<1>4. \A i, j \in places : i < j => more[i].number <= more[j].number
  BY DEF Counting
<1> QED BY <1>1, <1>3, <1>4 DEF Counting

(* One row more: the next number, used up or not.                          *)
LEMMA CountingMore ==
  ASSUME NEW rows, NEW more, NEW n \in Nat, NEW places \in SUBSET Nat, IsFiniteSet(places),
         \A i \in places : more[i] = rows[i] /\ i < n,
         NEW first \in Nat, NEW next \in Nat, first <= next, NEW limit \in Nat,
         more[n].number = next, Counting(rows, places, first, next, limit)
  PROVE  /\ Counting(more, places \cup {n}, first, next, limit + 1)
         /\ Counting(more, places \cup {n}, first, next + 1, limit)
<1> DEFINE all == places \cup {n}
           old == Numbers(rows, places)
           twice == Repeats(rows, places)
           c == Cardinality(twice)
<1>1. Numbers(more, places) = old /\ Repeats(more, places) = twice
  BY SameNumbers
<1>2. Numbers(more, all) = old \cup {next}
  BY <1>1 DEF Numbers
<1>3. old \subseteq first .. next /\ first .. next - 1 \subseteq old
  BY DEF Counting
<1>4. c \in Nat /\ IsFiniteSet(twice) /\ twice \subseteq places
  BY RepeatsFinite DEF Repeats
<1>5. n \notin places
  OBVIOUS
<1>6. Repeats(more, all) = IF next \in old THEN twice \cup {n} ELSE twice
  <2>1. next \in old <=> \E i \in places : more[i].number = next
    BY <1>1 DEF Numbers
  <2>2. \A j \in places : j \in Repeats(more, all) <=> j \in twice
    BY <1>1 DEF Repeats
  <2>3. n \in Repeats(more, all) <=> next \in old
    BY <2>1 DEF Repeats
  <2>4. Repeats(more, all) \subseteq all /\ twice \subseteq places
    BY DEF Repeats
  <2>5. \A j : j \in Repeats(more, all) <=> (j \in twice \/ (j = n /\ next \in old))
    <3> SUFFICES ASSUME NEW j
                 PROVE  j \in Repeats(more, all) <=> (j \in twice \/ (j = n /\ next \in old))
      OBVIOUS
    <3>1. CASE j \in places
      BY <1>5, <2>2, <3>1
    <3>2. CASE j = n
      BY <1>5, <2>3, <2>4, <3>2
    <3>3. CASE j \notin all
      BY <2>4, <3>3
    <3> QED BY <3>1, <3>2, <3>3
  <2> HIDE DEF twice, all, old
  <2>6. CASE next \in old
    BY <2>5, <2>6
  <2>7. CASE next \notin old
    BY <2>5, <2>7
  <2> QED BY <2>6, <2>7
<1>7. Cardinality(Repeats(more, all)) = IF next \in old THEN c + 1 ELSE c
  BY <1>4, <1>5, <1>6, FS_AddElement
<1>8. c + (IF next \in old THEN 1 ELSE 0) <= limit
  BY DEF Counting
<1>9. \A i, j \in all : i < j => more[i].number <= more[j].number
  <2> SUFFICES ASSUME NEW i \in all, NEW j \in all, i < j
               PROVE  more[i].number <= more[j].number
    OBVIOUS
  <2>1. CASE i \in places /\ j \in places
    BY <2>1 DEF Counting
  <2>2. CASE i \in places /\ j = n
    <3>1. more[i].number \in old
      BY <2>2 DEF Numbers
    <3> QED BY <1>3, <2>2, <3>1
  <2>3. CASE i = n
    BY <2>3
  <2> QED BY <2>1, <2>2, <2>3
<1> HIDE DEF c, twice, old, all
<1>12. \A x \in old : x \in Nat /\ first <= x /\ x <= next
  BY <1>3
<1>13. \A x : x \in Numbers(more, all) <=> (x \in old \/ x = next)
  BY <1>2
<1>14. \A x \in first .. next - 1 : x \in old
  BY <1>3
<1>10. Counting(more, all, first, next, limit + 1)
  <2>1. \A x \in Numbers(more, all) : x \in first .. next
    BY <1>12, <1>13
  <2>2. first .. next - 1 \subseteq Numbers(more, all)
    BY <1>13, <1>14
  <2>3. Cardinality(Repeats(more, all)) + (IF next \in Numbers(more, all) THEN 1 ELSE 0) <= limit + 1
    BY <1>2, <1>4, <1>7, <1>8
  <2> HIDE DEF all
  <2> QED BY <1>9, <2>1, <2>2, <2>3 DEF Counting
<1>11. Counting(more, all, first, next + 1, limit)
  <2>1. \A x \in Numbers(more, all) : x \in first .. next + 1
    BY <1>12, <1>13
  <2>2. first .. (next + 1) - 1 \subseteq Numbers(more, all)
    <3>1. ASSUME NEW x \in first .. (next + 1) - 1 PROVE x \in Numbers(more, all)
      <4>1. x \in first .. next - 1 \/ x = next
        OBVIOUS
      <4> QED BY <1>13, <1>14, <4>1
    <3> QED BY <3>1
  <2>3. Cardinality(Repeats(more, all)) + (IF next + 1 \in Numbers(more, all) THEN 1 ELSE 0) <= limit
    <3>1. next + 1 \notin Numbers(more, all)
      BY <1>12, <1>13
    <3> QED BY <1>4, <1>7, <1>8, <3>1
  <2> HIDE DEF all
  <2> QED BY <1>9, <2>1, <2>2, <2>3 DEF Counting
<1> QED BY <1>10, <1>11 DEF all

LEMMA UpwardsSame ==
  ASSUME NEW rows, NEW more, NEW places, \A i \in places : more[i] = rows[i], NEW first, NEW next
  PROVE  /\ Upwards(rows, places, first) => Upwards(more, places, first)
         /\ UpTo(rows, places, first, next) => UpTo(more, places, first, next)
<1>1. Numbers(more, places) = Numbers(rows, places)
  BY SameNumbers
<1>2. Upwards(rows, places, first) => \A i, j \in places : i < j => more[i].number < more[j].number
  BY DEF Upwards
<1> QED BY <1>1, <1>2 DEF Upwards, UpTo

(* Rows that take the next numbers, one each.                              *)
LEMMA UpwardsMore ==
  ASSUME NEW rows, NEW more, NEW n \in Nat, NEW k \in Nat, NEW places \in SUBSET (1 .. n),
         \A i \in places : more[i] = rows[i],
         NEW first \in Nat, NEW next \in Nat, first <= next,
         \A i \in 1 .. k : more[n + i].number = next + i - 1,
         Upwards(rows, places, first), UpTo(rows, places, first, next)
  PROVE  /\ Upwards(more, places \cup (n + 1 .. n + k), first)
         /\ UpTo(more, places \cup (n + 1 .. n + k), first, next + k)
<1> DEFINE new == n + 1 .. n + k
           all == places \cup new
<1>1. Numbers(more, places) = first .. next - 1
  BY SameNumbers DEF UpTo
<1>2. \A j \in new : more[j].number = next + (j - n) - 1 /\ j - n \in 1 .. k
  <2> SUFFICES ASSUME NEW j \in new PROVE more[j].number = next + (j - n) - 1 /\ j - n \in 1 .. k
    OBVIOUS
  <2>1. j - n \in 1 .. k /\ n + (j - n) = j
    OBVIOUS
  <2> QED BY <2>1
<1>3. Numbers(more, new) = next .. next + k - 1
  <2>1. Numbers(more, new) \subseteq next .. next + k - 1
    BY <1>2 DEF Numbers
  <2>2. ASSUME NEW x \in next .. next + k - 1 PROVE x \in Numbers(more, new)
    <3>1. n + (x - next + 1) \in new /\ more[n + (x - next + 1)].number = x
      <4>1. x - next + 1 \in 1 .. k
        OBVIOUS
      <4>2. more[n + (x - next + 1)].number = next + (x - next + 1) - 1
        BY <4>1
      <4> QED BY <4>1, <4>2
    <3> QED BY <3>1 DEF Numbers
  <2> QED BY <2>1, <2>2
<1>4. Numbers(more, all) = Numbers(more, places) \cup Numbers(more, new)
  BY DEF Numbers
<1>5. Numbers(more, all) = first .. next + k - 1
  <2>1. (first .. next - 1) \cup (next .. next + k - 1) = first .. next + k - 1
    OBVIOUS
  <2> QED BY <1>1, <1>3, <1>4, <2>1
<1>6. \A i, j \in all : i < j => more[i].number < more[j].number
  <2> SUFFICES ASSUME NEW i \in all, NEW j \in all, i < j PROVE more[i].number < more[j].number
    OBVIOUS
  <2>1. CASE i \in places /\ j \in places
    BY <2>1 DEF Upwards
  <2>2. CASE i \in places /\ j \in new
    <3>1. more[i].number \in first .. next - 1
      BY <1>1, <2>2 DEF Numbers
    <3> QED BY <1>2, <2>2, <3>1
  <2>3. CASE i \in new /\ j \in new
    BY <1>2, <2>3
  <2>4. ~(i \in new /\ j \in places)
    OBVIOUS
  <2> QED BY <2>1, <2>2, <2>3, <2>4
<1> HIDE DEF all
<1>7. \A x \in Numbers(more, all) : x >= first /\ first .. x \subseteq Numbers(more, all)
  BY <1>5
<1>8. UpTo(more, all, first, next + k)
  BY <1>5 DEF UpTo
<1> QED BY <1>6, <1>7, <1>8 DEF Upwards, all

(***************************************************************************)
(* A step of a run under way.                                              *)
(***************************************************************************)
(* The run goes on.                                                        *)
Onward ==
  /\ Live /\ Live' /\ run' = run /\ faults' >= faults
  /\ pc = "aborting" => pc' = "aborting"

LEMMA OnwardSteps ==
  ASSUME Base, NEW outcome, NEW stages, Steps(outcome, stages), Going, run' = run
  PROVE  Onward /\ (pc' = "aborting" => outcome # "written")
         /\ (outcome = "written" => faults' = faults)
         /\ (outcome # "written" => faults' = faults + 1)
<1>1. faults \in Nat
  BY DEF Base, TypeOK, ControlType
<1> QED BY <1>1 DEF Steps, Going, Onward, Live

(* Such a step keeps the run, and an aborted run stays one.                *)
LEMMA OnwardTurns ==
  ASSUME Base, Turns
  PROVE  Onward
<1>1. Live /\ Live' /\ run' = run /\ faults \in Nat
  BY TurnsBase DEF Base, TypeOK, ControlType, directory
<1>2. faults' >= faults
  BY <1>1 DEF Turns, NoCallLeft, Reraise, Finish, Interrupt, EndExport, Seed, Propose, Raise, Fault
<1>3. pc = "aborting" => pc' = "aborting"
  <2>1. CASE NoCallLeft
    BY <2>1, NoCallFlow DEF Base, Going
  <2>2. CASE Reraise \/ Finish \/ Interrupt
    BY <2>2 DEF Reraise, Finish, Interrupt
  <2>3. CASE EndExport
    BY <2>3 DEF EndExport
  <2>4. ASSUME NEW valid \in BOOLEAN, NEW score \in Scores, NEW print \in Prints,
               NEW paths \in PathKinds, Seed(valid, score, print, paths)
        PROVE  pc # "aborting"
    BY <2>4 DEF Seed, Ready
  <2>5. ASSUME NEW valid \in BOOLEAN, NEW score \in Scores, NEW print \in Prints,
               NEW parent \in archived, NEW prompt \in Selectable,
               Propose(valid, score, print, parent, prompt)
        PROVE  pc # "aborting"
    BY <2>5 DEF Propose, Ready
  <2> QED BY <2>1, <2>2, <2>3, <2>4, <2>5 DEF Turns
<1> QED BY <1>1, <1>2, <1>3 DEF Onward

LEMMA OnwardExport ==
  ASSUME Base, ExportSteps
  PROVE  Onward
<1>1. /\ Live /\ Live' /\ run' = run /\ faults \in Nat
      /\ pc = "aborting" => pc' = "aborting"
  BY ExportBase DEF Base, TypeOK, ControlType
<1>2. faults' >= faults
  BY <1>1 DEF ExportSteps, StartExport, Export, ExportFails, ExportInterrupted, Raise, Fault, control
<1> QED BY <1>1, <1>2 DEF Onward

LEMMA OnwardLogging ==
  ASSUME Base, NEW outcome \in Outcomes, Logging(outcome), Live'
  PROVE  Onward
<1>1. faults \in Nat
  BY DEF Base, TypeOK, ControlType
<1>2. CASE AddPrompt(outcome)
  <2>1. pc = "running" /\ Steps(outcome, {"opening", "between"}) /\ run' = run
    BY <1>2, PromptFlow DEF Base, AddPrompt, AddSeed
  <2> QED BY <1>1, <2>1 DEF Steps, Onward, Live
<1>3. ASSUME NEW kind \in {"seed_evaluation", "generation_started", "candidate_evaluation",
                           "generation_completed"}, BudgetEvent(kind, outcome)
      PROVE  Onward
  <2>1. Going /\ (Steps(outcome, {"before"}) \/ Steps(outcome, {"between"})) /\ run' = run
    BY <1>3, BudgetFlow DEF Base, BudgetEvent, LogControllerBudgetEvent
  <2> QED BY <2>1, OnwardSteps
<1>4. ASSUME NEW ending \in {"answered", "failed", "interrupted"}, CallModel(outcome, ending)
      PROVE  Onward
  <2>1. Going /\ pc' = "running" /\ faults' \in {faults, faults + 1} /\ run' = run
    BY <1>4, CallFlow DEF Base, CallModel, LogLLMCall
  <2> QED BY <1>1, <2>1 DEF Onward, Live, Going
<1>5. ASSUME NEW caught \in BOOLEAN, LogCallEvent(outcome, caught)
      PROVE  Onward
  <2>1. Going /\ pc' \in {"running", "aborting"} /\ faults' \in {faults, faults + 1} /\ run' = run
    BY <1>5, CallEventFlow DEF Base, LogCallEvent, LogControllerBudgetEvent
  <2> QED BY <1>1, <2>1 DEF Onward, Live, Going
<1>6. ASSUME NEW admitted \in BOOLEAN, AdmitCurrent(admitted, outcome)
      PROVE  Onward
  <2>1. Going /\ Steps(outcome, {IF Fails(admitted) THEN "due" ELSE "told"}) /\ run' = run
    BY <1>6, AdmitFlow DEF Base, AdmitCurrent, Admit
  <2> QED BY <2>1, OnwardSteps
<1>7. CASE RecordFailure(outcome)
  <2>1. Going /\ (Steps(outcome, {"told"}) \/ Steps(outcome, {"between"})) /\ run' = run
    BY <1>7, FailureFlow DEF Base, RecordFailure, LogFailure
  <2> QED BY <2>1, OnwardSteps
<1>8. CASE LogReward(outcome)
  <2>1. Going /\ Steps(outcome, {"told"}) /\ run' = run
    BY <1>8, RewardFlow DEF Base, LogReward, LogLLMCall
  <2> QED BY <2>1, OnwardSteps
<1>9. CASE LogProgram(outcome)
  <2>1. Going /\ Steps(outcome, {"between", "after"}) /\ run' = run
    BY <1>9, LogFlow DEF Base, LogProgram, Log
  <2> QED BY <2>1, OnwardSteps
<1>10. CASE ScorePrompt(outcome)
  <2>1. Going /\ Steps(outcome, {"after"}) /\ run' = run
    BY <1>10, ResultFlow DEF Base, ScorePrompt, RecordResult
  <2> QED BY <2>1, OnwardSteps
<1>11. CASE Migrate(outcome)
  <2>1. Going /\ Steps(outcome, {"after"}) /\ run' = run
    BY <1>11, MigrateFlow DEF Base, Migrate, MaybeMigrate, directory
  <2> QED BY <2>1, OnwardSteps
<1>12. CASE LogStop(outcome)
  <2>1. /\ pc \in {"finishing", "aborting"} /\ pc' \in {pc, "aborting"} /\ run' = run
        /\ faults' \in {faults, faults + 1}
    BY <1>12, StopFlow DEF Base, LogStop, LogControllerBudgetEvent
  <2> QED BY <1>1, <2>1 DEF Onward, Live
<1>13. CASE SummarizeHistory(outcome)
  <2>1. /\ pc \in {"finishing", "aborting"} /\ pc' \in {pc, "aborting"} /\ run' = run
        /\ faults' \in {faults, faults + 1}
    BY <1>13, HistoryFlow DEF Base, SummarizeHistory
  <2> QED BY <1>1, <2>1 DEF Onward, Live
<1>14. CASE FinishManifest(outcome)
  <2>1. /\ pc = "finishing" /\ pc' = "aborting" /\ run' = run /\ faults' = faults + 1
    BY <1>14, ManifestFlow DEF Base, Live
  <2> QED BY <1>1, <2>1 DEF Onward, Live
<1> QED
  BY <1>2, <1>3, <1>4, <1>5, <1>6, <1>7, <1>8, <1>9, <1>10, <1>11, <1>12, <1>13, <1>14 DEF Logging

(* Streams and their rows.                                                 *)
LEMMA StreamsAre ==
  ASSUME NEW f, FilesOK(f), NEW s \in Streams
  PROVE  /\ f[s] \in Seq(Range(f[s])) /\ Len(f[s]) \in Nat /\ DOMAIN f[s] = 1 .. Len(f[s])
         /\ IsFiniteSet(DOMAIN f[s])
<1>1. ASSUME NEW R, f[s] \in Seq(R)
      PROVE  /\ f[s] \in Seq(Range(f[s])) /\ Len(f[s]) \in Nat /\ DOMAIN f[s] = 1 .. Len(f[s])
             /\ IsFiniteSet(DOMAIN f[s])
  <2>1. Len(f[s]) \in Nat /\ DOMAIN f[s] = 1 .. Len(f[s])
    BY <1>1
  <2>2. f[s] \in Seq(Range(f[s]))
    BY <1>1, RangeSeq
  <2>3. IsFiniteSet(1 .. Len(f[s]))
    BY <2>1, FS_Interval
  <2> QED BY <2>1, <2>2, <2>3
<1> QED BY <1>1 DEF FilesOK, Streams

LEMMA AppendedRow ==
  ASSUME FilesOK(files), NEW s \in Streams, NEW row, NEW outcome, files' = WithRow(s, row, outcome)
  PROVE  /\ \A t \in Streams : t # s => files'[t] = files[t]
         /\ Len(files[s]) \in Nat /\ DOMAIN files[s] = 1 .. Len(files[s])
         /\ outcome = "refused" => files'[s] = files[s]
         /\ outcome # "refused" =>
              /\ files'[s] = Append(files[s], row)
              /\ Len(files'[s]) = Len(files[s]) + 1
              /\ DOMAIN files'[s] = 1 .. Len(files[s]) + 1
              /\ \A i \in DOMAIN files[s] : files'[s][i] = files[s][i]
              /\ files'[s][Len(files[s]) + 1] = row
<1>1. files = [t \in Streams |-> files[t]]
  BY DEF FilesOK
<1>2. /\ \A t \in Streams : t # s => files'[t] = files[t]
      /\ outcome = "refused" => files'[s] = files[s]
      /\ outcome # "refused" => files'[s] = Append(files[s], row)
  BY <1>1, WithRowIs
<1> DEFINE R == Range(files[s]) \cup {row}
<1>3. files[s] \in Seq(Range(files[s])) /\ Len(files[s]) \in Nat /\ DOMAIN files[s] = 1 .. Len(files[s])
  BY StreamsAre
<1>4. files[s] \in Seq(R) /\ row \in R
  BY <1>3
<1> HIDE DEF R
<1>5. /\ Len(Append(files[s], row)) = Len(files[s]) + 1
      /\ DOMAIN Append(files[s], row) = 1 .. Len(files[s]) + 1
      /\ \A i \in 1 .. Len(files[s]) : Append(files[s], row)[i] = files[s][i]
      /\ Append(files[s], row)[Len(files[s]) + 1] = row
  BY <1>4, AppendIs
<1> QED BY <1>2, <1>3, <1>5

LEMMA OwnRow ==
  ASSUME FilesOK(files), NEW s \in Streams, NEW row, NEW outcome, files' = WithRow(s, row, outcome),
         row.run = run, run' = run, RowsOwn
  PROVE  RowsOwn'
<1> SUFFICES ASSUME NEW t \in Streams, NEW i \in DOMAIN files'[t] PROVE files'[t][i].run = run
  BY DEF RowsOwn
<1>1. CASE t # s \/ outcome = "refused"
  <2>1. files'[t] = files[t]
    BY <1>1, AppendedRow
  <2> QED BY <2>1 DEF RowsOwn
<1>2. CASE t = s /\ outcome # "refused"
  <2>1. i \in DOMAIN files[s] \/ i = Len(files[s]) + 1
    BY <1>2, AppendedRow
  <2>2. CASE i \in DOMAIN files[s]
    <3>1. files'[s][i] = files[s][i]
      BY <1>2, <2>2, AppendedRow
    <3> QED BY <1>2, <2>2, <3>1 DEF RowsOwn
  <2>3. CASE i = Len(files[s]) + 1
    BY <1>2, <2>3, AppendedRow
  <2> QED BY <2>1, <2>2, <2>3
<1> QED BY <1>1, <1>2

(* A stream that is left alone, with its counters.                         *)
LEMMA EventsSame ==
  ASSUME Onward, files'["archive_events"] = files["archive_events"],
         UNCHANGED <<admissions, hops>>, EventsNumbered
  PROVE  EventsNumbered'
BY DEF EventsNumbered, Events, Onward

LEMMA FaultsGrow ==
  ASSUME Base, Base', Onward
  PROVE  faults \in Nat /\ faults' \in Nat /\ faults <= faults' /\ run' = run /\ run \in Nat
<1>1. faults \in Nat /\ faults' \in Nat /\ run \in Nat
  BY DEF Base, TypeOK, ControlType
<1> QED BY <1>1 DEF Onward

LEMMA BudgetSame ==
  ASSUME Base, Base', Onward, files'["controller_budget_events"] = files["controller_budget_events"],
         budgetEvents' = budgetEvents, BudgetNumbered
  PROVE  BudgetNumbered'
<1>1. IsFiniteSet(DOMAIN Budget)
  BY StreamsAre DEF Budget, Streams, Base, TypeOK
<1>2. Counting(Budget, DOMAIN Budget, 0, budgetEvents, faults')
  BY <1>1, FaultsGrow, CountingSame DEF BudgetNumbered
<1> QED BY <1>2 DEF BudgetNumbered, Budget

LEMMA CallPlaces ==
  ASSUME NEW f, FilesOK(f), NEW s \in Streams, NEW type
  PROVE  /\ IsFiniteSet(Of(type, f[s])) /\ Of(type, f[s]) \in SUBSET (1 .. Len(f[s]))
         /\ Len(f[s]) \in Nat
<1>1. DOMAIN f[s] = 1 .. Len(f[s]) /\ IsFiniteSet(DOMAIN f[s]) /\ Len(f[s]) \in Nat
  BY StreamsAre
<1>2. Of(type, f[s]) \in SUBSET (DOMAIN f[s])
  BY DEF Of
<1> QED BY <1>1, <1>2, FS_Subset

LEMMA CallsSame ==
  ASSUME Base, Base', Onward, files'["llm_calls"] = files["llm_calls"],
         llmCalls' = llmCalls, CallsNumbered
  PROVE  CallsNumbered'
<1>1. IsFiniteSet(Of("call", Calls))
  BY CallPlaces DEF Calls, Streams, Base, TypeOK
<1>2. Counting(Calls, Of("call", Calls), 1, llmCalls + 1, faults')
  BY <1>1, FaultsGrow, CountingSame DEF CallsNumbered
<1> QED BY <1>2 DEF CallsNumbered, Calls

(* A budget event takes the next number, and uses it up when its append    *)
(* returned.                                                               *)
LEMMA BudgetMore ==
  ASSUME Base, Base', Onward, NEW kind, NEW outcome \in Outcomes,
         LogControllerBudgetEvent(kind, outcome), outcome # "written" => faults' = faults + 1,
         BudgetNumbered
  PROVE  BudgetNumbered'
<1> DEFINE row == [kind |-> kind, number |-> budgetEvents, run |-> run]
           new == files'["controller_budget_events"]
           n == Len(Budget) + 1
           places == DOMAIN Budget
<1>1. /\ files' = WithRow("controller_budget_events", row, outcome) /\ FilesOK(files)
      /\ budgetEvents' = IF outcome = "written" THEN budgetEvents + 1 ELSE budgetEvents
      /\ budgetEvents \in Nat
  BY DEF LogControllerBudgetEvent, Base, TypeOK, MemoryType
<1>2. "controller_budget_events" \in Streams
  BY DEF Streams
<1>3. /\ Len(Budget) \in Nat /\ DOMAIN Budget = 1 .. Len(Budget)
      /\ outcome = "refused" => new = Budget
      /\ outcome # "refused" => /\ DOMAIN new = 1 .. n /\ \A i \in places : new[i] = Budget[i]
                                /\ new[n] = row
  BY <1>1, <1>2, AppendedRow DEF Budget
<1>4. IsFiniteSet(places)
  BY <1>1, <1>2, StreamsAre DEF Budget
<1>5. CASE outcome = "refused"
  <2>1. new = Budget /\ budgetEvents' = budgetEvents
    BY <1>1, <1>3, <1>5
  <2> QED BY <2>1, BudgetSame DEF Budget
<1>6. CASE outcome # "refused"
  <2>1. /\ n \in Nat /\ places \in SUBSET Nat /\ \A i \in places : new[i] = Budget[i] /\ i < n
        /\ new[n].number = budgetEvents /\ DOMAIN new = places \cup {n}
    <3> HIDE DEF new
    <3> QED BY <1>3, <1>6
  <2> HIDE DEF new, n, places, row
  <2>2. Counting(Budget, places, 0, budgetEvents, faults)
    BY DEF BudgetNumbered, places
  <2>3. /\ Counting(new, places \cup {n}, 0, budgetEvents, faults + 1)
        /\ Counting(new, places \cup {n}, 0, budgetEvents + 1, faults)
    BY <1>1, <1>4, <2>1, <2>2, FaultsGrow, CountingMore
  <2>4. IsFiniteSet(places \cup {n})
    BY <1>4, FS_AddElement
  <2>5. Counting(new, places \cup {n}, 0, budgetEvents', faults')
    <3>1. CASE outcome = "written"
      <4>1. Counting(new, places \cup {n}, 0, budgetEvents + 1, faults')
        BY <2>3, <2>4, FaultsGrow, CountingSame
      <4> QED BY <1>1, <3>1, <4>1
    <3>2. CASE outcome # "written"
      BY <1>1, <2>3, <3>2
    <3> QED BY <3>1, <3>2
  <2> QED BY <2>1, <2>5 DEF BudgetNumbered, Budget, new
<1> QED BY <1>5, <1>6

(* So does a call; a reward takes none.                                    *)
LEMMA CallsMore ==
  ASSUME Base, Base', Onward, NEW type \in {"call", "reward"}, NEW outcome \in Outcomes,
         LogLLMCall(type, outcome),
         outcome # "written" => faults' = faults + 1,
         CallsNumbered
  PROVE  CallsNumbered'
<1> DEFINE row == [type |-> type, number |-> IF type = "call" THEN llmCalls + 1 ELSE 0, run |-> run]
           new == files'["llm_calls"]
           n == Len(Calls) + 1
           places == Of("call", Calls)
<1>1. /\ files' = WithRow("llm_calls", row, outcome) /\ FilesOK(files)
      /\ llmCalls' = IF type = "call" /\ outcome = "written" THEN llmCalls + 1 ELSE llmCalls
      /\ llmCalls \in Nat
  BY DEF LogLLMCall, Base, TypeOK, MemoryType
<1>2. "llm_calls" \in Streams
  BY DEF Streams
<1>3. /\ Len(Calls) \in Nat /\ DOMAIN Calls = 1 .. Len(Calls)
      /\ outcome = "refused" => new = Calls
      /\ outcome # "refused" => /\ DOMAIN new = 1 .. n /\ \A i \in DOMAIN Calls : new[i] = Calls[i]
                                /\ new[n] = row
  BY <1>1, <1>2, AppendedRow DEF Calls
<1>4. IsFiniteSet(places) /\ places \in SUBSET (1 .. Len(Calls))
  BY <1>1, <1>2, CallPlaces DEF Calls
<1>5. CASE outcome = "refused"
  <2>1. new = Calls /\ llmCalls' = llmCalls
    BY <1>1, <1>3, <1>5
  <2> QED BY <2>1, CallsSame DEF Calls
<1>6. CASE outcome # "refused" /\ type = "call"
  <2>1. /\ n \in Nat /\ places \in SUBSET Nat /\ \A i \in places : new[i] = Calls[i] /\ i < n
        /\ new[n].number = llmCalls + 1
    <3> HIDE DEF new, places
    <3> QED BY <1>3, <1>4, <1>6
  <2>7. Of("call", new) = places \cup {n}
    <3>1. new[n].type = "call" /\ n \in DOMAIN new
      BY <1>3, <1>6
    <3>2. \A i \in DOMAIN Calls : new[i] = Calls[i] /\ i \in DOMAIN new
      BY <1>3, <1>6
    <3>3. \A i \in DOMAIN new : i \in DOMAIN Calls \/ i = n
      BY <1>3, <1>6
    <3> HIDE DEF new, n
    <3> QED BY <3>1, <3>2, <3>3 DEF Of
  <2> HIDE DEF new, n, places, row
  <2>2. Counting(Calls, places, 1, llmCalls + 1, faults)
    BY DEF CallsNumbered, places
  <2>3. /\ Counting(new, places \cup {n}, 1, llmCalls + 1, faults + 1)
        /\ Counting(new, places \cup {n}, 1, llmCalls + 1 + 1, faults)
    <3>1. llmCalls + 1 \in Nat /\ 1 \in Nat /\ 1 <= llmCalls + 1
      BY <1>1
    <3> QED BY <3>1, <1>4, <2>1, <2>2, FaultsGrow, CountingMore
  <2>4. IsFiniteSet(places \cup {n})
    BY <1>4, FS_AddElement
  <2>5. Counting(new, places \cup {n}, 1, llmCalls' + 1, faults')
    <3>1. CASE outcome = "written"
      <4>1. Counting(new, places \cup {n}, 1, llmCalls + 1 + 1, faults')
        BY <2>3, <2>4, FaultsGrow, CountingSame
      <4>2. llmCalls' = llmCalls + 1
        BY <1>1, <1>6, <3>1
      <4> QED BY <4>1, <4>2
    <3>2. CASE outcome # "written"
      <4>1. llmCalls' = llmCalls /\ faults' = faults + 1
        BY <1>1, <3>2
      <4> QED BY <2>3, <4>1
    <3> QED BY <3>1, <3>2
  <2> QED BY <2>7, <2>5 DEF CallsNumbered, Calls, new
<1>7. CASE outcome # "refused" /\ type = "reward"
  <2>1. Of("call", new) = places
    <3>1. new[n].type # "call"
      BY <1>3, <1>7
    <3>2. \A i \in DOMAIN Calls : new[i] = Calls[i] /\ i \in DOMAIN new
      BY <1>3, <1>7
    <3>3. \A i \in DOMAIN new : i \in DOMAIN Calls \/ i = n
      BY <1>3, <1>7
    <3> HIDE DEF new, n
    <3> QED BY <3>1, <3>2, <3>3 DEF Of
  <2>2. \A i \in places : new[i] = Calls[i]
    BY <1>3, <1>7 DEF Of
  <2>3. llmCalls' = llmCalls
    BY <1>1, <1>7
  <2> HIDE DEF new, places
  <2>4. Counting(Calls, places, 1, llmCalls + 1, faults)
    BY DEF CallsNumbered, places
  <2>5. Counting(new, places, 1, llmCalls + 1, faults')
    BY <1>4, <2>2, <2>4, FaultsGrow, CountingSame
  <2> QED BY <2>1, <2>3, <2>5 DEF CallsNumbered, Calls, new
<1> QED BY <1>5, <1>6, <1>7

(* The events of a type, when rows of that type follow, or others.         *)
LEMMA EventsMore ==
  ASSUME FilesOK(files), NEW new, NEW k \in Nat,
         DOMAIN new = 1 .. Len(Events) + k, \A i \in DOMAIN Events : new[i] = Events[i],
         NEW type, NEW other, type # other,
         NEW next \in Nat, 1 <= next, NEW upto,
         \A j \in DOMAIN new : j > Len(Events) =>
           new[j].type = type /\ new[j].number = next + (j - Len(Events)) - 1,
         Upwards(Events, Of(type, Events), 1), UpTo(Events, Of(type, Events), 1, next)
  PROVE  /\ Upwards(new, Of(type, new), 1) /\ UpTo(new, Of(type, new), 1, next + k)
         /\ Upwards(Events, Of(other, Events), 1) => Upwards(new, Of(other, new), 1)
         /\ UpTo(Events, Of(other, Events), 1, upto) => UpTo(new, Of(other, new), 1, upto)
<1> DEFINE n == Len(Events)
<1>1. n \in Nat /\ DOMAIN Events = 1 .. n
  BY StreamsAre DEF Events, Streams
<1>2. Of(type, Events) \in SUBSET (1 .. n) /\ \A i \in Of(type, Events) : new[i] = Events[i]
  BY <1>1 DEF Of
<1>3. \A i \in n + 1 .. n + k :
        new[i].type = type /\ i \in DOMAIN new /\ new[i].number = next + (i - n) - 1
  <2>1. \A j \in DOMAIN new : j > n => new[j].type = type /\ new[j].number = next + (j - n) - 1
    OBVIOUS
  <2>2. n \in Nat /\ DOMAIN new = 1 .. n + k
    BY <1>1
  <2> HIDE DEF n
  <2> QED BY <2>1, <2>2
<1>4. \A i \in DOMAIN new : i \in DOMAIN Events \/ i \in n + 1 .. n + k
  BY <1>1
<1>5. \A i \in DOMAIN Events : i \in DOMAIN new
  BY <1>1
<1> HIDE DEF n
<1>6. Of(type, new) = Of(type, Events) \cup (n + 1 .. n + k)
  BY <1>3, <1>4, <1>5 DEF Of
<1>7. Of(other, new) = Of(other, Events) /\ \A i \in Of(other, Events) : new[i] = Events[i]
  BY <1>3, <1>4, <1>5 DEF Of
<1>8. \A i \in 1 .. k : new[n + i].number = next + i - 1
  <2> SUFFICES ASSUME NEW i \in 1 .. k PROVE new[n + i].number = next + i - 1
    OBVIOUS
  <2>1. n + i \in n + 1 .. n + k /\ (n + i) - n = i
    BY <1>1
  <2> QED BY <1>3, <2>1
<1>9. Upwards(new, Of(type, new), 1) /\ UpTo(new, Of(type, new), 1, next + k)
  <2> DEFINE places == Of(type, Events)
  <2>1. /\ n \in Nat /\ places \in SUBSET (1 .. n) /\ \A i \in places : new[i] = Events[i]
        /\ Upwards(Events, places, 1) /\ UpTo(Events, places, 1, next)
        /\ Of(type, new) = places \cup (n + 1 .. n + k)
    BY <1>1, <1>2, <1>6
  <2> HIDE DEF places
  <2>2. 1 \in Nat
    OBVIOUS
  <2>3. /\ Upwards(new, places \cup (n + 1 .. n + k), 1)
        /\ UpTo(new, places \cup (n + 1 .. n + k), 1, next + k)
    BY <1>8, <2>1, <2>2, UpwardsMore
  <2> QED BY <2>1, <2>3
<1>10. /\ Upwards(Events, Of(other, Events), 1) => Upwards(new, Of(other, new), 1)
       /\ UpTo(Events, Of(other, Events), 1, upto) => UpTo(new, Of(other, new), 1, upto)
  BY <1>7, UpwardsSame
<1> QED BY <1>9, <1>10

LEMMA EventsAborted ==
  ASSUME pc' = "aborting", files'["archive_events"] = Events, EventsNumbered
  PROVE  EventsNumbered'
BY DEF EventsNumbered, Events

(* An admission appends one event.                                         *)
LEMMA AdmitEvents ==
  ASSUME Base, NEW admitted \in BOOLEAN, NEW outcome \in Outcomes, AdmitCurrent(admitted, outcome),
         EventsNumbered
  PROVE  EventsNumbered'
<1> DEFINE row == [type |-> "admission", number |-> admissions + 1, id |-> current.id,
                   reason |-> AdmissionReason(current, admitted), run |-> run]
           new == files'["archive_events"]
<1>1. /\ files' = WithRow("archive_events", row, outcome) /\ FilesOK(files)
      /\ admissions' = admissions + 1 /\ hops' = hops /\ admissions \in Nat /\ hops \in Nat
  BY DEF AdmitCurrent, Admit, Base, TypeOK, MemoryType
<1>2. pc = "running" /\ (outcome # "written" => pc' = "aborting")
  BY AdmitFlow DEF Base, Going, Steps
<1>3. "archive_events" \in Streams
  BY DEF Streams
<1>4. /\ Len(Events) \in Nat /\ DOMAIN Events = 1 .. Len(Events)
      /\ outcome = "refused" => new = Events
      /\ outcome # "refused" =>
           /\ DOMAIN new = 1 .. Len(Events) + 1 /\ \A i \in DOMAIN Events : new[i] = Events[i]
           /\ new[Len(Events) + 1] = row
  BY <1>1, <1>3, AppendedRow DEF Events
<1>5. CASE outcome = "refused"
  BY <1>2, <1>4, <1>5, EventsAborted
<1>6. CASE outcome # "refused"
  <2>1. /\ Upwards(Events, Of("admission", Events), 1)
        /\ Upwards(Events, Of("migration", Events), 1)
        /\ UpTo(Events, Of("admission", Events), 1, admissions + 1)
        /\ UpTo(Events, Of("migration", Events), 1, hops + 1)
    BY <1>2 DEF EventsNumbered
  <2>2. /\ DOMAIN new = 1 .. Len(Events) + 1 /\ \A i \in DOMAIN Events : new[i] = Events[i]
        /\ new[Len(Events) + 1].type = "admission" /\ new[Len(Events) + 1].number = admissions + 1
    BY <1>4, <1>6
  <2> HIDE DEF new
  <2>3. \A j \in DOMAIN new : j > Len(Events) =>
          /\ new[j].type = "admission"
          /\ new[j].number = (admissions + 1) + (j - Len(Events)) - 1
    <3>1. \A j \in DOMAIN new : j > Len(Events) => j = Len(Events) + 1
      BY <1>4, <2>2
    <3> QED BY <1>1, <1>4, <2>2, <3>1
  <2>4. /\ Upwards(new, Of("admission", new), 1)
        /\ UpTo(new, Of("admission", new), 1, (admissions + 1) + 1)
        /\ Upwards(new, Of("migration", new), 1)
        /\ UpTo(new, Of("migration", new), 1, hops + 1)
    <3> DEFINE next == admissions + 1
               k == 1
    <3>1. next \in Nat /\ 1 <= next /\ k \in Nat /\ "admission" # "migration"
      BY <1>1
    <3>2. /\ Upwards(Events, Of("admission", Events), 1) /\ Upwards(Events, Of("migration", Events), 1)
          /\ UpTo(Events, Of("admission", Events), 1, next)
          /\ UpTo(Events, Of("migration", Events), 1, hops + 1)
          /\ DOMAIN new = 1 .. Len(Events) + k /\ \A i \in DOMAIN Events : new[i] = Events[i]
          /\ \A j \in DOMAIN new : j > Len(Events) =>
                new[j].type = "admission" /\ new[j].number = next + (j - Len(Events)) - 1
      BY <2>1, <2>2, <2>3
    <3> HIDE DEF next, k
    <3>3. /\ Upwards(new, Of("admission", new), 1)
          /\ UpTo(new, Of("admission", new), 1, next + k)
          /\ Upwards(new, Of("migration", new), 1)
          /\ UpTo(new, Of("migration", new), 1, hops + 1)
      BY <1>1, <3>1, <3>2, EventsMore
    <3> QED BY <3>3 DEF next, k
  <2> QED BY <1>1, <2>4 DEF EventsNumbered, Events, new
<1> QED BY <1>5, <1>6

(* Rows that follow rows.                                                  *)
Followed(s, t) == s \o t
Follow(all, s, t) ==
  /\ DOMAIN all = 1 .. Len(s) + Len(t)
  /\ \A i \in DOMAIN s : all[i] = s[i]
  /\ \A j \in DOMAIN all : j > Len(s) => all[j] = t[j - Len(s)]

(* One sequence after another.                                             *)
LEMMA FollowedIs ==
  ASSUME NEW R, NEW s \in Seq(R), NEW t \in Seq(R)
  PROVE  Follow(Followed(s, t), s, t)
BY DEF Followed, Follow

(* A migration appends events one after the other.                         *)
LEMMA MigrationsFollow ==
  ASSUME Base, NEW k \in Nat, NEW new, new = Followed(Events, MigrationRows(k))
  PROVE  /\ DOMAIN new = 1 .. Len(Events) + k /\ \A i \in DOMAIN Events : new[i] = Events[i]
         /\ \A j \in DOMAIN new : j > Len(Events) =>
              new[j] = [type |-> "migration", number |-> hops + (j - Len(Events)), run |-> run]
         /\ Len(Events) \in Nat /\ DOMAIN Events = 1 .. Len(Events)
<1> DEFINE rows == MigrationRows(k)
           R == Range(Events) \cup {rows[i] : i \in 1 .. k}
<1>1. Events \in Seq(Range(Events)) /\ Len(Events) \in Nat /\ DOMAIN Events = 1 .. Len(Events)
  BY StreamsAre DEF Events, Streams, Base, TypeOK
<1>2. \A i \in 1 .. k : rows[i] = [type |-> "migration", number |-> hops + i, run |-> run]
  BY DEF MigrationRows
<1>3. rows \in [1 .. k -> R]
  BY DEF MigrationRows
<1>4. Events \in Seq(R)
  BY <1>1
<1>5. new = Followed(Events, rows)
  OBVIOUS
<1> HIDE DEF R, rows
<1>6. rows \in Seq(R) /\ Len(rows) = k
  BY <1>3
<1>7. /\ DOMAIN new = 1 .. Len(Events) + Len(rows) /\ \A i \in DOMAIN Events : new[i] = Events[i]
      /\ \A j \in DOMAIN new : j > Len(Events) => new[j] = rows[j - Len(Events)]
  <2> DEFINE s == Events
  <2>1. s \in Seq(R) /\ rows \in Seq(R) /\ new = Followed(s, rows)
    BY <1>4, <1>5, <1>6
  <2> HIDE DEF s
  <2>2. /\ DOMAIN new = 1 .. Len(s) + Len(rows) /\ \A i \in DOMAIN s : new[i] = s[i]
        /\ \A j \in DOMAIN new : j > Len(s) => new[j] = rows[j - Len(s)]
    <3>1. Follow(new, s, rows)
      BY <2>1, FollowedIs
    <3> QED BY <3>1 DEF Follow
  <2> QED BY <2>2 DEF s
<1>8. ASSUME NEW j \in DOMAIN new, j > Len(Events)
      PROVE  new[j] = [type |-> "migration", number |-> hops + (j - Len(Events)), run |-> run]
  <2>1. j - Len(Events) \in 1 .. k
    BY <1>1, <1>6, <1>7, <1>8
  <2> QED BY <1>2, <1>7, <1>8, <2>1
<1> QED BY <1>1, <1>6, <1>7, <1>8

LEMMA MigrateEvents ==
  ASSUME Base, NEW outcome \in Outcomes, Migrate(outcome), MaybeMigrate(outcome),
         EventsNumbered
  PROVE  EventsNumbered'
<1> DEFINE new == files'["archive_events"]
<1>1. pc = "running" /\ (outcome # "written" => pc' = "aborting")
  BY MigrateFlow DEF Base, Going, Steps
<1>2. PICK n \in 1 .. MaxHops : \E k \in 0 .. n :
        /\ outcome = "written" => k = n
        /\ hops' = hops + n
        /\ files' = [files EXCEPT !["archive_events"] = @ \o MigrationRows(k)]
  BY DEF MaybeMigrate
<1>11. PICK k \in 0 .. n :
        /\ outcome = "written" => k = n
        /\ hops' = hops + n
        /\ files' = [files EXCEPT !["archive_events"] = @ \o MigrationRows(k)]
  BY <1>2
<1>3. /\ admissions' = admissions /\ admissions \in Nat /\ hops \in Nat /\ n \in Nat /\ k \in Nat
      /\ FilesOK(files)
  BY ArtifactsAssumption DEF MaybeMigrate, Base, TypeOK, MemoryType
<1>4. new = Followed(Events, MigrationRows(k))
  <2>1. files = [t \in Streams |-> files[t]] /\ "archive_events" \in Streams
    BY <1>3 DEF FilesOK, Streams
  <2> QED BY <1>11, <2>1 DEF Events, Followed
<1> HIDE DEF new
<1>5. /\ DOMAIN new = 1 .. Len(Events) + k /\ \A i \in DOMAIN Events : new[i] = Events[i]
      /\ \A j \in DOMAIN new : j > Len(Events) =>
           new[j] = [type |-> "migration", number |-> hops + (j - Len(Events)), run |-> run]
      /\ Len(Events) \in Nat
  BY <1>3, <1>4, MigrationsFollow
<1>6. \A j \in DOMAIN new : j > Len(Events) =>
        /\ new[j].type = "migration"
        /\ new[j].number = (hops + 1) + (j - Len(Events)) - 1
  BY <1>3, <1>5
<1>7. /\ Upwards(Events, Of("admission", Events), 1)
      /\ Upwards(Events, Of("migration", Events), 1)
      /\ UpTo(Events, Of("admission", Events), 1, admissions + 1)
      /\ UpTo(Events, Of("migration", Events), 1, hops + 1)
  BY <1>1 DEF EventsNumbered
<1>8. /\ Upwards(new, Of("migration", new), 1)
      /\ UpTo(new, Of("migration", new), 1, (hops + 1) + k)
      /\ Upwards(new, Of("admission", new), 1)
      /\ UpTo(new, Of("admission", new), 1, admissions + 1)
  <2>1. hops + 1 \in Nat /\ 1 <= hops + 1 /\ "migration" # "admission"
    BY <1>3
  <2> QED BY <1>3, <1>5, <1>6, <1>7, <2>1, EventsMore
<1>9. pc' # "aborting" => hops' + 1 = (hops + 1) + k
  BY <1>1, <1>11, <1>3 DEF Outcomes
<1> QED BY <1>3, <1>8, <1>9 DEF EventsNumbered, Events, new

(* A run that clears the directory starts with the memory of a process     *)
(* that has just begun.                                                    *)
Fresh ==
  pc = "clearing" =>
    /\ archived = {} /\ admissions = 0 /\ hops = 0 /\ logged = <<>> /\ failures = <<>>
    /\ budgetEvents = 0 /\ llmCalls = 0 /\ prompts = <<>>
    /\ current = NoCandidate /\ kept = FALSE /\ runtime = Nothing

LEMMA FreshNext ==
  ASSUME Base, Fresh, [Next]_vars
  PROVE  Fresh'
<1>1. ASSUME NEW policy \in Policies, Claim(policy) PROVE Fresh'
  BY <1>1 DEF Claim, ForgetAll, OpenDatabase, ForgetPrompts, Fresh
<1>2. CASE Clear
  BY <1>2 DEF Clear, memory, promptsAndExport, Fresh
<1>3. ASSUME NEW outcome \in Outcomes, Logging(outcome) PROVE pc' # "clearing"
  <2>1. Live
    BY <1>3 DEF Logging, AddPrompt, BudgetEvent, CallModel, LogCallEvent, AdmitCurrent,
      RecordFailure, LogReward, LogProgram, ScorePrompt, Migrate, LogStop, SummarizeHistory,
      FinishManifest, Doing, Live
  <2>2. pc' \in {pc, "aborting", "off"}
    BY <1>3 DEF Logging, AddPrompt, BudgetEvent, CallModel, LogCallEvent, AdmitCurrent,
      RecordFailure, LogReward, LogProgram, ScorePrompt, Migrate, LogStop, SummarizeHistory,
      FinishManifest, Continue, Raise
  <2> QED BY <2>1, <2>2 DEF Live
<1>4. CASE OpenRun \/ Kill
  BY <1>4 DEF OpenRun, Kill, Fresh
<1>5. CASE Turns
  BY <1>5, TurnsBase DEF Live, Fresh
<1>6. CASE ExportSteps
  BY <1>6, ExportBase DEF Live, Fresh
<1>7. CASE UNCHANGED vars
  BY <1>7 DEF vars, memory, control, Fresh
<1> QED BY <1>1, <1>2, <1>3, <1>4, <1>5, <1>6, <1>7, NextIs DEF Fresh

LEMMA FreshInit == Init => Fresh
  BY DEF Init, Fresh

(* Each step, by what it does to the numbered streams.                     *)
LEMMA NumbersKept ==
  ASSUME Base, Base', Onward, NumbersInv, RowsOwn',
         EventsNumbered => EventsNumbered',
         BudgetNumbered => BudgetNumbered',
         CallsNumbered => CallsNumbered'
  PROVE  NumbersInv'
BY DEF NumbersInv, Onward

LEMMA OwnSame ==
  ASSUME RowsOwn, run' = run, files' = files
  PROVE  RowsOwn'
BY DEF RowsOwn

LEMMA NumbersLogging ==
  ASSUME Base, Base', NEW outcome \in Outcomes, Logging(outcome), NumbersInv
  PROVE  NumbersInv'
<1> SUFFICES ASSUME Live' PROVE NumbersInv'
  BY DEF NumbersInv
<1>1. Onward /\ RowsOwn /\ FilesOK(files) /\ run' = run
  BY OnwardLogging DEF NumbersInv, Onward, Base, TypeOK
<1>2. ASSUME NEW s \in {"history", "failure_history", "prompt_history"}, NEW row, row.run = run,
             files' = WithRow(s, row, outcome),
             UNCHANGED <<admissions, hops, budgetEvents, llmCalls>>
      PROVE  NumbersInv'
  <2>1. s \in Streams
    BY DEF Streams
  <2>2. RowsOwn'
    BY <1>1, <1>2, <2>1, OwnRow
  <2>3. /\ files'["archive_events"] = files["archive_events"]
        /\ files'["controller_budget_events"] = files["controller_budget_events"]
        /\ files'["llm_calls"] = files["llm_calls"]
    BY <1>1, <1>2, <2>1, AppendedRow DEF Streams
  <2> QED BY <1>1, <1>2, <2>2, <2>3, NumbersKept, EventsSame, BudgetSame, CallsSame
<1>3. ASSUME NEW kind, LogControllerBudgetEvent(kind, outcome),
             outcome # "written" => faults' = faults + 1
      PROVE  NumbersInv'
  <2> DEFINE row == [kind |-> kind, number |-> budgetEvents, run |-> run]
  <2>1. "controller_budget_events" \in Streams /\ row.run = run
        /\ files' = WithRow("controller_budget_events", row, outcome)
        /\ UNCHANGED <<admissions, hops, llmCalls>>
    BY <1>3 DEF Streams, LogControllerBudgetEvent
  <2> HIDE DEF row
  <2>2. RowsOwn'
    BY <1>1, <2>1, OwnRow
  <2>3. /\ files'["archive_events"] = files["archive_events"]
        /\ files'["llm_calls"] = files["llm_calls"]
    BY <1>1, <2>1, AppendedRow DEF Streams
  <2> QED BY <1>1, <1>3, <2>1, <2>2, <2>3, NumbersKept, EventsSame, BudgetMore, CallsSame
<1>4. ASSUME NEW type \in {"call", "reward"}, LogLLMCall(type, outcome),
             outcome # "written" => faults' = faults + 1
      PROVE  NumbersInv'
  <2> DEFINE row == [type |-> type, number |-> IF type = "call" THEN llmCalls + 1 ELSE 0, run |-> run]
  <2>1. "llm_calls" \in Streams /\ row.run = run
        /\ files' = WithRow("llm_calls", row, outcome)
        /\ UNCHANGED <<admissions, hops, budgetEvents>>
    BY <1>4 DEF Streams, LogLLMCall
  <2> HIDE DEF row
  <2>2. RowsOwn'
    BY <1>1, <2>1, OwnRow
  <2>3. /\ files'["archive_events"] = files["archive_events"]
        /\ files'["controller_budget_events"] = files["controller_budget_events"]
    BY <1>1, <2>1, AppendedRow DEF Streams
  <2> QED BY <1>1, <1>4, <2>1, <2>2, <2>3, NumbersKept, EventsSame, BudgetSame, CallsMore
<1>5. CASE AddPrompt(outcome)
  <2>1. \E row : row.run = run /\ files' = WithRow("prompt_history", row, outcome)
    <3>1. PromptRow("add", SeedPrompt(Len(prompts) + 1)).run = run
      BY DEF PromptRow
    <3> QED BY <1>5, <3>1 DEF AddPrompt, AddSeed
  <2>2. UNCHANGED <<admissions, hops, budgetEvents, llmCalls>>
    BY <1>5 DEF AddPrompt, memory
  <2> QED BY <1>2, <2>1, <2>2
<1>6. ASSUME NEW kind \in {"seed_evaluation", "generation_started", "candidate_evaluation",
                           "generation_completed"}, BudgetEvent(kind, outcome)
      PROVE  NumbersInv'
  <2>1. LogControllerBudgetEvent(kind, outcome)
    BY <1>6 DEF BudgetEvent
  <2>2. outcome # "written" => faults' = faults + 1
    BY <1>6, BudgetFlow DEF Base, Steps
  <2> QED BY <1>3, <2>1, <2>2
<1>7. ASSUME NEW ending \in {"answered", "failed", "interrupted"}, CallModel(outcome, ending)
      PROVE  NumbersInv'
  <2>1. LogLLMCall("call", outcome)
    BY <1>7 DEF CallModel
  <2>2. outcome # "written" => faults' = faults + 1
    BY <1>7, CallFlow DEF Base
  <2> QED BY <1>4, <2>1, <2>2
<1>8. ASSUME NEW caught \in BOOLEAN, LogCallEvent(outcome, caught)
      PROVE  NumbersInv'
  <2>1. LogControllerBudgetEvent("llm_call", outcome)
    BY <1>8 DEF LogCallEvent
  <2>2. outcome # "written" => faults' = faults + 1
    BY <1>8, CallEventFlow DEF Base
  <2> QED BY <1>3, <2>1, <2>2
<1>9. ASSUME NEW admitted \in BOOLEAN, AdmitCurrent(admitted, outcome)
      PROVE  NumbersInv'
  <2> DEFINE row == [type |-> "admission", number |-> admissions + 1, id |-> current.id,
                     reason |-> AdmissionReason(current, admitted), run |-> run]
  <2>1. "archive_events" \in Streams /\ row.run = run
        /\ files' = WithRow("archive_events", row, outcome)
        /\ UNCHANGED <<budgetEvents, llmCalls>>
    BY <1>9 DEF Streams, AdmitCurrent, Admit
  <2> HIDE DEF row
  <2>2. RowsOwn'
    BY <1>1, <2>1, OwnRow
  <2>3. /\ files'["llm_calls"] = files["llm_calls"]
        /\ files'["controller_budget_events"] = files["controller_budget_events"]
    BY <1>1, <2>1, AppendedRow DEF Streams
  <2> QED BY <1>1, <1>9, <2>1, <2>2, <2>3, NumbersKept, AdmitEvents, BudgetSame, CallsSame
<1>10. CASE RecordFailure(outcome)
  <2>1. FailureRow(current).run = run
    BY DEF FailureRow
  <2>2. /\ files' = WithRow("failure_history", FailureRow(current), outcome)
        /\ UNCHANGED <<admissions, hops, budgetEvents, llmCalls>>
    BY <1>10 DEF RecordFailure, LogFailure
  <2> QED BY <1>2, <2>1, <2>2
<1>11. CASE LogReward(outcome)
  <2>1. LogLLMCall("reward", outcome)
    BY <1>11 DEF LogReward
  <2>2. outcome # "written" => faults' = faults + 1
    BY <1>11, RewardFlow DEF Base, Steps
  <2> QED BY <1>4, <2>1, <2>2
<1>12. CASE LogProgram(outcome)
  <2> DEFINE row == [id |-> current.id, admitted |-> kept, valid |-> current.valid,
                     score |-> current.score, parent |-> current.parent, paths |-> current.paths,
                     run |-> run]
  <2>1. /\ row.run = run /\ files' = WithRow("history", row, outcome)
        /\ UNCHANGED <<admissions, hops, budgetEvents, llmCalls>>
    BY <1>12 DEF LogProgram, Log
  <2> HIDE DEF row
  <2> QED BY <1>2, <2>1
<1>13. CASE ScorePrompt(outcome)
  <2>1. PICK i \in DOMAIN prompts :
          files' = WithRow("prompt_history",
            PromptRow("score", Scored(prompts[i], current.score - current.baseline)), outcome)
    BY <1>13 DEF ScorePrompt, RecordResult
  <2>2. UNCHANGED <<admissions, hops, budgetEvents, llmCalls>>
    BY <1>13 DEF ScorePrompt, memory
  <2>3. PromptRow("score", Scored(prompts[i], current.score - current.baseline)).run = run
    BY DEF PromptRow
  <2> QED BY <1>2, <2>1, <2>2, <2>3
<1>14. CASE Migrate(outcome)
  <2>1. CASE UNCHANGED <<directory, memory>>
    <3>1. /\ files' = files /\ UNCHANGED <<admissions, hops, budgetEvents, llmCalls>>
      BY <2>1 DEF directory, memory
    <3> QED BY <1>1, <3>1, NumbersKept, OwnSame, EventsSame, BudgetSame, CallsSame
  <2>2. CASE MaybeMigrate(outcome)
    <3>1. PICK k \in Nat : files' = [files EXCEPT !["archive_events"] = @ \o MigrationRows(k)]
      <4>1. PICK n \in 1 .. MaxHops :
              \E k \in 0 .. n : files' = [files EXCEPT !["archive_events"] = @ \o MigrationRows(k)]
        BY <2>2 DEF MaybeMigrate
      <4>2. PICK k \in 0 .. n : files' = [files EXCEPT !["archive_events"] = @ \o MigrationRows(k)]
        BY <4>1
      <4>3. k \in Nat
        OBVIOUS
      <4> QED BY <4>2, <4>3
    <3>2. /\ files = [s \in Streams |-> files[s]] /\ "archive_events" \in Streams
      BY <1>1 DEF FilesOK, Streams
    <3>3. /\ files'["archive_events"] = Followed(Events, MigrationRows(k))
          /\ \A s \in Streams : s # "archive_events" => files'[s] = files[s]
      BY <3>1, <3>2 DEF Followed, Events
    <3>4. RowsOwn'
      <4> SUFFICES ASSUME NEW s \in Streams, NEW i \in DOMAIN files'[s] PROVE files'[s][i].run = run
        BY <1>1 DEF RowsOwn
      <4>1. CASE s # "archive_events"
        BY <1>1, <3>3, <4>1 DEF RowsOwn
      <4>2. CASE s = "archive_events"
        <5> DEFINE new == files'["archive_events"]
        <5>1. new = Followed(Events, MigrationRows(k)) /\ i \in DOMAIN new
          BY <3>3, <4>2
        <5> HIDE DEF new
        <5>2. /\ DOMAIN new = 1 .. Len(Events) + k
              /\ \A j \in DOMAIN Events : new[j] = Events[j]
              /\ \A j \in DOMAIN new : j > Len(Events) => 
                   new[j] = [type |-> "migration", number |-> hops + (j - Len(Events)), run |-> run]
              /\ Len(Events) \in Nat /\ DOMAIN Events = 1 .. Len(Events)
          BY <5>1, MigrationsFollow
        <5>3. CASE i \in DOMAIN Events
          BY <1>1, <3>2, <5>2, <5>3, <4>2 DEF RowsOwn, Events, new
        <5>4. CASE i > Len(Events)
          BY <5>1, <5>2, <5>4, <4>2 DEF new
        <5>5. i \in DOMAIN Events \/ i > Len(Events)
          BY <5>1, <5>2
        <5> QED BY <5>3, <5>4, <5>5
      <4> QED BY <4>1, <4>2
    <3>5. /\ files'["llm_calls"] = files["llm_calls"]
          /\ files'["controller_budget_events"] = files["controller_budget_events"]
      BY <3>3 DEF Streams
    <3>6. UNCHANGED <<budgetEvents, llmCalls>>
      BY <2>2 DEF MaybeMigrate
    <3> QED BY <1>1, <1>14, <2>2, <3>4, <3>5, <3>6, NumbersKept, MigrateEvents, BudgetSame, CallsSame
  <2> QED BY <1>14, <2>1, <2>2 DEF Migrate
<1>15. CASE LogStop(outcome)
  <2>1. LogControllerBudgetEvent("stop", outcome)
    BY <1>15 DEF LogStop
  <2>2. outcome # "written" => faults' = faults + 1
    BY <1>15, StopFlow DEF Base
  <2> QED BY <1>3, <2>1, <2>2
<1>16. CASE SummarizeHistory(outcome)
  <2>1. PICK results \in {EvaluatorResults, <<>>} : files' \in {files, WithResults(results)}
    BY <1>16 DEF SummarizeHistory
  <2>2. /\ files = [s \in Streams |-> files[s]] /\ "evaluator_results" \in Streams
    BY <1>1 DEF FilesOK, Streams
  <2>3. /\ files'["evaluator_results"] \in {files["evaluator_results"], results}
        /\ \A s \in Streams : s # "evaluator_results" => files'[s] = files[s]
    <3>1. CASE files' = files
      BY <3>1
    <3>2. CASE files' = WithResults(results)
      <4>1. files' = [files EXCEPT !["evaluator_results"] = results]
        BY <3>2 DEF WithResults
      <4> HIDE DEF WithResults
      <4> QED BY <2>2, <4>1
    <3> QED BY <2>1, <3>1, <3>2
  <2>4. \A i \in DOMAIN results : results[i].run = run
    BY DEF EvaluatorResults
  <2>5. RowsOwn'
    <3> SUFFICES ASSUME NEW s \in Streams, NEW i \in DOMAIN files'[s] PROVE files'[s][i].run = run
      BY <1>1 DEF RowsOwn
    <3>1. files'[s] = files[s] \/ files'[s] = results
      BY <2>3
    <3> QED BY <1>1, <2>4, <3>1 DEF RowsOwn
  <2>6. /\ files'["archive_events"] = files["archive_events"]
        /\ files'["controller_budget_events"] = files["controller_budget_events"]
        /\ files'["llm_calls"] = files["llm_calls"]
    BY <2>3 DEF Streams
  <2>7. UNCHANGED <<admissions, hops, budgetEvents, llmCalls>>
    BY <1>16 DEF SummarizeHistory, memory
  <2> QED BY <1>1, <2>5, <2>6, <2>7, NumbersKept, EventsSame, BudgetSame, CallsSame
<1>17. CASE FinishManifest(outcome)
  <2>1. files' = files /\ UNCHANGED <<admissions, hops, budgetEvents, llmCalls>>
    BY <1>17 DEF FinishManifest, WriteManifest, directory, memory
  <2> QED BY <1>1, <2>1, NumbersKept, OwnSame, EventsSame, BudgetSame, CallsSame
<1> QED
  BY <1>5, <1>6, <1>7, <1>8, <1>9, <1>10, <1>11, <1>12, <1>13, <1>14, <1>15, <1>16, <1>17 DEF Logging

(* A run that opens has no rows.                                           *)
LEMMA NoNumbers ==
  ASSUME NEW limit \in Nat
  PROVE  /\ \A type : Of(type, <<>>) = {}
         /\ Upwards(<<>>, {}, 1) /\ UpTo(<<>>, {}, 1, 1)
         /\ Counting(<<>>, {}, 0, 0, limit) /\ Counting(<<>>, {}, 1, 1, limit)
<1>1. \A type : Of(type, <<>>) = {}
  BY DEF Of
<1>2. Numbers(<<>>, {}) = {} /\ Repeats(<<>>, {}) = {}
  BY DEF Numbers, Repeats
<1>3. Cardinality({}) = 0
  BY FS_EmptySet
<1>4. Upwards(<<>>, {}, 1)
  BY <1>2 DEF Upwards
<1>5. UpTo(<<>>, {}, 1, 1)
  BY <1>2 DEF UpTo
<1>6. ASSUME NEW n \in {0, 1} PROVE Counting(<<>>, {}, n, n, limit)
  <2>1. Cardinality(Repeats(<<>>, {})) = 0
    BY <1>2, <1>3
  <2>2. Cardinality(Repeats(<<>>, {})) + (IF n \in Numbers(<<>>, {}) THEN 1 ELSE 0) <= limit
    BY <1>2, <2>1
  <2>3. n .. n - 1 = {}
    OBVIOUS
  <2> QED BY <1>2, <2>2, <2>3 DEF Counting
<1>7. Counting(<<>>, {}, 0, 0, limit) /\ Counting(<<>>, {}, 1, 1, limit)
  BY <1>6
<1> QED BY <1>1, <1>4, <1>5, <1>6, <1>7

(* The numbers stay in step.                                               *)
LEMMA NumbersNext ==
  ASSUME Base, Base', Fresh, NumbersInv, [Next]_vars
  PROVE  NumbersInv'
<1> SUFFICES ASSUME Live' PROVE NumbersInv'
  BY DEF NumbersInv
<1>1. ASSUME NEW policy \in Policies, Claim(policy) PROVE NumbersInv'
  BY <1>1 DEF Claim, Live
<1>2. ASSUME NEW outcome \in Outcomes, Logging(outcome) PROVE NumbersInv'
  BY <1>2, NumbersLogging
<1>3. CASE Clear
  BY <1>3 DEF Clear, Live
<1>4. CASE OpenRun
  <2>1. \A s \in Streams : files'[s] = <<>>
    BY <1>4, OpenFlow DEF Base
  <2>2. /\ admissions' = 0 /\ hops' = 0 /\ budgetEvents' = 0 /\ llmCalls' = 0
    BY <1>4 DEF OpenRun, Fresh, memory
  <2>3. /\ Events' = <<>> /\ Budget' = <<>> /\ Calls' = <<>> /\ faults' \in Nat
    BY <2>1 DEF Events, Budget, Calls, Streams, Base, TypeOK, ControlType
  <2>4. RowsOwn'
    BY <2>1 DEF RowsOwn
  <2>5. EventsNumbered'
    <3>1. \A type : Of(type, Events') = {}
      BY <2>3, NoNumbers
    <3>2. admissions' + 1 = 1 /\ hops' + 1 = 1
      BY <2>2
    <3>3. Upwards(Events', {}, 1) /\ UpTo(Events', {}, 1, 1)
      BY <2>3, NoNumbers
    <3> QED BY <3>1, <3>2, <3>3 DEF EventsNumbered
  <2>6. BudgetNumbered'
    <3>1. Counting(<<>>, {}, 0, 0, faults') /\ DOMAIN <<>> = {}
      BY <2>3, NoNumbers
    <3> QED BY <2>2, <2>3, <3>1 DEF BudgetNumbered
  <2>7. CallsNumbered'
    <3>1. Of("call", Calls') = {} /\ Counting(Calls', {}, 1, 1, faults')
      BY <2>3, NoNumbers
    <3>2. llmCalls' + 1 = 1
      BY <2>2
    <3> QED BY <3>1, <3>2 DEF CallsNumbered
  <2> QED BY <2>4, <2>5, <2>6, <2>7 DEF NumbersInv
<1>5. CASE Turns \/ ExportSteps
  <2>1. Onward /\ run' = run
    BY <1>5, OnwardTurns, OnwardExport DEF Onward
  <2>2. files' = files /\ UNCHANGED <<admissions, hops, budgetEvents, llmCalls>>
    BY <1>5, TurnsBase, ExportBase DEF directory, memory
  <2>3. RowsOwn
    BY <2>1 DEF Onward, NumbersInv
  <2> QED BY <2>1, <2>2, <2>3, NumbersKept, OwnSame, EventsSame, BudgetSame, CallsSame
<1>6. CASE Kill
  BY <1>6 DEF Kill, Live
<1>7. CASE UNCHANGED vars
  <2>1. UNCHANGED <<files, run, pc, faults, admissions, hops, budgetEvents, llmCalls>>
    BY <1>7 DEF vars, directory, memory, control
  <2> QED
    BY <2>1 DEF NumbersInv, Live, RowsOwn, EventsNumbered, BudgetNumbered, CallsNumbered,
      Events, Budget, Calls
<1> QED BY <1>1, <1>2, <1>3, <1>4, <1>5, <1>6, <1>7, NextIs

(* What the invariants say of numbers is what the property says of them.   *)
LEMMA UpwardsNumbered ==
  ASSUME faults \in Nat, NEW rows, NEW places \in SUBSET Nat, NEW first,
         Upwards(rows, places, first), \A i \in places : rows[i].number \in Nat
  PROVE  Numbered(rows, places, first)
<1>1. Repeats(rows, places) = {}
  <2> SUFFICES ASSUME NEW j \in Repeats(rows, places) PROVE FALSE
    OBVIOUS
  <2>1. PICK i \in places : i < j /\ rows[i].number = rows[j].number /\ j \in places
    BY DEF Repeats
  <2>2. rows[i].number < rows[j].number /\ rows[i].number \in Nat
    BY <2>1 DEF Upwards
  <2> QED BY <2>1, <2>2
<1>2. Cardinality(Repeats(rows, places)) <= faults
  BY <1>1, FS_EmptySet
<1>3. \A i, j \in places : i < j => rows[i].number <= rows[j].number
  BY DEF Upwards
<1> QED BY <1>2, <1>3 DEF Numbered, Upwards

LEMMA CountingNumbered ==
  ASSUME faults \in Nat, NEW rows, NEW places, IsFiniteSet(places), NEW first \in Nat, NEW next \in Nat,
         Counting(rows, places, first, next, faults)
  PROVE  Numbered(rows, places, first)
<1> DEFINE all == Numbers(rows, places)
<1>1. Cardinality(Repeats(rows, places)) <= faults
  <2>1. Cardinality(Repeats(rows, places)) \in Nat
    BY RepeatsFinite
  <2>2. Cardinality(Repeats(rows, places)) + (IF next \in Numbers(rows, places) THEN 1 ELSE 0) <= faults
    BY DEF Counting
  <2> QED BY <2>1, <2>2
<1>2. \A n \in all : n \in first .. next
  BY DEF Counting
<1>3. \A n \in first .. next - 1 : n \in all
  BY DEF Counting
<1> HIDE DEF all
<1>4. \A n \in all : n >= first /\ first .. n \subseteq all
  <2> SUFFICES ASSUME NEW n \in all PROVE n >= first /\ \A x \in first .. n : x \in all
    OBVIOUS
  <2>1. n \in first .. next
    BY <1>2
  <2>2. ASSUME NEW x \in first .. n PROVE x \in all
    <3>1. x = n \/ x \in first .. next - 1
      BY <2>1
    <3> QED BY <1>3, <3>1
  <2> QED BY <2>1, <2>2
<1> QED BY <1>1, <1>4 DEF Numbered, Counting, all

LEMMA NumbersMean ==
  ASSUME Base, NumbersInv
  PROVE  NumbersInStep
<1> SUFFICES ASSUME Live PROVE NumbersInStep
  BY DEF NumbersInStep
<1>1. /\ RowsOwn /\ EventsNumbered /\ BudgetNumbered /\ CallsNumbered
      /\ FilesOK(files) /\ faults \in Nat /\ budgetEvents \in Nat /\ llmCalls \in Nat
  BY DEF NumbersInv, Base, TypeOK, ControlType, MemoryType
<1>2. manifest.run = run
  <2>1. manifest = [run |-> run, runtime |-> Nothing]
    BY Zenon DEF Base, FateOK
  <2> QED BY <2>1
<1>3. \A s \in Streams : \A i \in DOMAIN files[s] : files[s][i].run = run
  BY <1>1 DEF RowsOwn
<1>4. \A type : Of(type, Events) \in SUBSET Nat
  <2>1. "archive_events" \in Streams
    BY DEF Streams
  <2>2. \A type : Of(type, Events) \in SUBSET (1 .. Len(Events)) /\ Len(Events) \in Nat
    BY <1>1, <2>1, CallPlaces DEF Events
  <2> QED BY <2>2
<1>5. \A i \in DOMAIN Events : Events[i].number \in Nat
  <2>1. Events \in Seq(AdmissionRows \cup MigrationTypes)
    BY <1>1 DEF FilesOK, Events
  <2>2. \A i \in DOMAIN Events : Events[i] \in AdmissionRows \cup MigrationTypes
    BY <2>1
  <2> QED BY <2>2 DEF AdmissionRows, MigrationTypes
<1>6. \A type : \A i \in Of(type, Events) : Events[i].number \in Nat
  BY <1>5 DEF Of
<1>7. /\ Numbered(Events, Of("admission", Events), 1)
      /\ Numbered(Events, Of("migration", Events), 1)
  BY <1>1, <1>4, <1>6, UpwardsNumbered DEF EventsNumbered
<1>8. Numbered(Budget, DOMAIN Budget, 0)
  <2>1. IsFiniteSet(DOMAIN Budget) /\ 0 \in Nat
    BY <1>1, StreamsAre DEF Budget, Streams
  <2> QED BY <1>1, <2>1, CountingNumbered DEF BudgetNumbered
<1>9. Numbered(Calls, Of("call", Calls), 1)
  <2>1. IsFiniteSet(Of("call", Calls)) /\ 1 \in Nat /\ llmCalls + 1 \in Nat
    BY <1>1, CallPlaces DEF Calls, Streams
  <2> QED BY <1>1, <2>1, CountingNumbered DEF CallsNumbered
<1> QED BY <1>2, <1>3, <1>7, <1>8, <1>9 DEF NumbersInStep, Events, Budget, Calls

(* NumbersInStep for any scores, prints, candidates, runs and faults: a    *)
(* run adds to no other run's rows, and in each numbered stream no number  *)
(* is left out; one is there twice only after an append that raised with   *)
(* its row written.                                                        *)
THEOREM NumbersAreInStep == Spec => []NumbersInStep
<1> DEFINE Inv == Base /\ Fresh /\ NumbersInv
<1>1. Init => Inv
  <2>1. Init => ~Live
    BY DEF Init, Live
  <2> QED BY BaseInit, FreshInit, <2>1 DEF NumbersInv
<1>2. Inv /\ [Next]_vars => Inv'
  <2> SUFFICES ASSUME Inv, [Next]_vars PROVE Inv'
    OBVIOUS
  <2>1. Base'
    BY BaseNext
  <2> QED BY <2>1, FreshNext, NumbersNext
<1>3. Inv => NumbersInStep
  BY NumbersMean
<1> QED BY <1>1, <1>2, <1>3, PTL DEF Spec

(***************************************************************************)
(* The best pair while it is exported. Until the new pair is in place each *)
(* form of the old program is in its place or in its backup, step by step; *)
(* after a step that failed the rollback finds what it needs.              *)
(***************************************************************************)
(* The two forms of the old program are where they were or in their backup. *)
Kept(p, q) ==
  \/ tree[p] = export.old[p]
  \/ tree[q] = export.old[p] /\ (q \in export.preserved \/ export.old[p] = Nothing)
Untouched(p, q) == tree[p] = export.old[p] /\ tree[q] = Nothing
Away(p, q) == tree[p] = Nothing /\ tree[q] = export.old[p]
Replaced(p, q) == tree[p] = export.program /\ tree[q] = export.old[p]
NewPair == tree["best.py"] = export.program /\ tree["best_workspace"] = export.program
OldPair == tree["best.py"] = export.old["best.py"] /\ tree["best_workspace"] = export.old["best_workspace"]
FileThere == Untouched("best.py", "best.py.bak") \/ Away("best.py", "best.py.bak")
WorkspaceThere ==
  Untouched("best_workspace", "best_workspace.bak") \/ Away("best_workspace", "best_workspace.bak")
WorkspaceSaved == tree["best_workspace.bak"] = export.old["best_workspace"] /\ export.errors > 0
PairInBody ==
  /\ export.errors = 0 /\ ~export.failed /\ export.preserved = {}
  /\ export.installed = IF export.step = 6 THEN {"best_workspace"} ELSE {}
  /\ IF export.step <= 3 THEN Untouched("best.py", "best.py.bak") ELSE Away("best.py", "best.py.bak")
  /\ export.step <= 4 => Untouched("best_workspace", "best_workspace.bak")
  /\ export.step = 5 => Away("best_workspace", "best_workspace.bak")
  /\ export.step = 6 => Replaced("best_workspace", "best_workspace.bak")
  /\ export.step > 1 => tree["best.py.tmp"] = export.program
  /\ export.step \in {3, 4, 5} => tree["best_workspace.tmp"] = export.program
PairInRollback ==
  /\ export.failed /\ "best.py" \notin export.installed
  /\ export.step <= 3 => FileThere /\ export.preserved = {}
  /\ export.step <= 2 =>
       /\ \/ WorkspaceThere /\ "best_workspace" \notin export.installed
          \/ Replaced("best_workspace", "best_workspace.bak") /\ "best_workspace" \in export.installed
       /\ export.errors = 0
  /\ export.step > 2 => WorkspaceThere \/ WorkspaceSaved
  /\ export.step = 4 =>
       /\ Kept("best.py", "best.py.bak") /\ export.preserved \subseteq {"best.py.bak"}
       /\ export.errors = 0 => tree["best.py"] = export.old["best.py"]
PairAfter ==
  /\ NewPair \/ (Kept("best.py", "best.py.bak") /\ Kept("best_workspace", "best_workspace.bak"))
  /\ export.errors > 0 \/ NewPair \/ OldPair
  /\ ~export.failed \/ export.at = "completed" => NewPair
PairLeft ==
  \/ NewPair
  \/ /\ export.old["best.py"] \in {tree["best.py"], tree["best.py.bak"]}
     /\ export.old["best_workspace"] \in {tree["best_workspace"], tree["best_workspace.bak"]}
PairBody ==
  /\ export.at = "body" => PairInBody
  /\ export.at = "rollback" => PairInRollback
  /\ export.at \in {"cleanup", "completed", "failed"} => PairAfter
  /\ export.at = "interrupted" => PairLeft
PairInv == export # Idle /\ pc # "clearing" /\ Fate # "cleared" => PairBody

(***************************************************************************)
(* What an operation of the export does to the six paths.                  *)
(***************************************************************************)
SixPaths ==
  {"best.py", "best_workspace", "best.py.tmp", "best_workspace.tmp",
   "best.py.bak", "best_workspace.bak"}
Sets(p, v) == \A q \in SixPaths : tree'[q] = IF q = p THEN v ELSE tree[q]
Moves(p, r) ==
  \A q \in SixPaths : tree'[q] = IF q = p THEN Nothing ELSE IF q = r THEN tree[p] ELSE tree[q]
Still == \A q \in SixPaths : tree'[q] = tree[q]

(* The tree of a step in these words.                                      *)
LEMMA SetsIs ==
  ASSUME tree \in Trees, NEW p \in SixPaths, NEW v, tree' = [tree EXCEPT ![p] = v]
  PROVE  Sets(p, v)
BY PathsAre DEF Trees, Sets, SixPaths

LEMMA MovesIs ==
  ASSUME tree \in Trees, NEW p \in SixPaths, NEW r \in SixPaths, p # r, tree' = Moved(p, r)
  PROVE  Moves(p, r)
BY PathsAre DEF Trees, Moves, SixPaths, Moved

LEMMA StillIs == tree' = tree => Still
BY DEF Still

Stays(fields) ==
  /\ "installed" \in fields => export'.installed = export.installed
  /\ "preserved" \in fields => export'.preserved = export.preserved
  /\ "errors" \in fields => export'.errors = export.errors
  /\ "failed" \in fields => export'.failed = export.failed
  /\ export'.old = export.old /\ export'.program = export.program

(* An operation of the body.                                               *)
LEMMA OperateDoes ==
  ASSUME TreeType, Operate
  PROVE  /\ export \in Exports /\ export.at = "body" /\ export.step \in 1 .. 6
         /\ Stays({"preserved", "errors", "failed"})
         /\ IF export.step = 6 THEN export'.at = "cleanup" /\ export'.step = 1
            ELSE export'.at = "body" /\ export'.step = export.step + 1
         /\ export.step <= 4 => export'.installed = export.installed
         /\ export.step = 5 => export'.installed = export.installed \cup {"best_workspace"}
         /\ export.step = 1 => Sets("best.py.tmp", export.program)
         /\ export.step = 2 => Sets("best_workspace.tmp", export.program)
         /\ export.step = 3 => IF tree["best.py"] = Nothing THEN Still
                               ELSE Moves("best.py", "best.py.bak")
         /\ export.step = 4 => IF tree["best_workspace"] = Nothing THEN Still
                               ELSE Moves("best_workspace", "best_workspace.bak")
         /\ export.step = 5 => Moves("best_workspace.tmp", "best_workspace")
         /\ export.step = 6 => Moves("best.py.tmp", "best.py")
<1>1. export \in Exports /\ export.at = "body" /\ export.step \in 1 .. 6 /\ tree \in Trees
  BY UnderWay DEF Operate, Exports, TreeType
<1> DEFINE op == Body[export.step][1]
           place == Body[export.step][2]
<1>2. /\ op \in {"write", "keep", "install"} /\ place \in Places /\ Len(Body) = 6
      /\ export.step \in {1, 2} => op = "write"
      /\ export.step \in {3, 4} => op = "keep"
      /\ export.step \in {5, 6} => op = "install"
      /\ export.step \in {1, 3, 6} => place = "best.py"
      /\ export.step \in {2, 4, 5} => place = "best_workspace"
  BY <1>1, Orders, OrdersAre
<1>3. /\ tree' = AfterOperation(op, place)
      /\ export' =
          [export EXCEPT
             !.installed = IF op = "install" THEN @ \cup {place} ELSE @,
             !.at = IF export.step = Len(Body) THEN "cleanup" ELSE "body",
             !.step = IF export.step = Len(Body) THEN 1 ELSE @ + 1]
  BY DEF Operate
<1> HIDE DEF op, place
<1>4. /\ Stays({"preserved", "errors", "failed"})
      /\ export'.installed = IF op = "install" THEN export.installed \cup {place} ELSE export.installed
      /\ IF export.step = 6 THEN export'.at = "cleanup" /\ export'.step = 1
         ELSE export'.at = "body" /\ export'.step = export.step + 1
  <2> DEFINE i == IF op = "install" THEN export.installed \cup {place} ELSE export.installed
             a == IF export.step = 6 THEN "cleanup" ELSE "body"
             s == IF export.step = 6 THEN 1 ELSE export.step + 1
             e == [export EXCEPT !.installed = i]
             g == [e EXCEPT !.at = a]
             h == [g EXCEPT !.step = s]
  <2>1. i \in SUBSET Places /\ a \in Ends /\ s \in 1 .. 6
    BY <1>1, <1>2 DEF Exports, Ends
  <2>2. export' = h
    BY <1>2, <1>3
  <2> HIDE DEF i, a, s
  <2>4. e \in Exports /\ e.program = export.program /\ e.installed = i /\ e.preserved = export.preserved
        /\ e.errors = export.errors /\ e.failed = export.failed /\ e.old = export.old
    BY <1>1, <2>1, InstalledSet
  <2> HIDE DEF e
  <2>5. g \in Exports /\ g.program = export.program /\ g.at = a /\ g.installed = i
        /\ g.preserved = export.preserved
        /\ g.errors = export.errors /\ g.failed = export.failed /\ g.old = export.old
    BY <2>1, <2>4, AtSet
  <2> HIDE DEF g
  <2>6. h \in Exports /\ h.program = export.program /\ h.at = a /\ h.step = s /\ h.installed = i
        /\ h.preserved = export.preserved
        /\ h.errors = export.errors /\ h.failed = export.failed /\ h.old = export.old
    BY <2>1, <2>5, StepSet
  <2> QED BY <2>2, <2>6 DEF Stays, i, a, s
<1>5. /\ {"best.py", "best_workspace", "best.py.tmp", "best_workspace.tmp",
          "best.py.bak", "best_workspace.bak"} \subseteq SixPaths
      /\ "best.py" # "best.py.bak" /\ "best_workspace" # "best_workspace.bak"
      /\ "best.py.tmp" # "best.py" /\ "best_workspace.tmp" # "best_workspace"
  BY DEF SixPaths
<1>6. CASE export.step = 1
  <2>1. tree' = [tree EXCEPT !["best.py.tmp"] = export.program]
    BY <1>2, <1>3, <1>6, PathsAre DEF AfterOperation
  <2> QED BY <1>1, <1>2, <1>4, <1>5, <1>6, <2>1, SetsIs
<1>7. CASE export.step = 2
  <2>1. tree' = [tree EXCEPT !["best_workspace.tmp"] = export.program]
    BY <1>2, <1>3, <1>7, PathsAre DEF AfterOperation
  <2> QED BY <1>1, <1>2, <1>4, <1>5, <1>7, <2>1, SetsIs
<1>8. CASE export.step = 3
  <2>1. tree' = IF tree["best.py"] = Nothing THEN tree ELSE Moved("best.py", "best.py.bak")
    BY <1>2, <1>3, <1>8, PathsAre DEF AfterOperation
  <2> QED BY <1>1, <1>2, <1>4, <1>5, <1>8, <2>1, MovesIs, StillIs
<1>9. CASE export.step = 4
  <2>1. tree' = IF tree["best_workspace"] = Nothing THEN tree
                ELSE Moved("best_workspace", "best_workspace.bak")
    BY <1>2, <1>3, <1>9, PathsAre DEF AfterOperation
  <2> QED BY <1>1, <1>2, <1>4, <1>5, <1>9, <2>1, MovesIs, StillIs
<1>10. CASE export.step = 5
  <2>1. tree' = Moved("best_workspace.tmp", "best_workspace")
    BY <1>2, <1>3, <1>10, PathsAre DEF AfterOperation
  <2> QED BY <1>1, <1>2, <1>4, <1>5, <1>10, <2>1, MovesIs
<1>11. CASE export.step = 6
  <2>1. tree' = Moved("best.py.tmp", "best.py")
    BY <1>2, <1>3, <1>11, PathsAre DEF AfterOperation
  <2> QED BY <1>1, <1>2, <1>4, <1>5, <1>11, <2>1, MovesIs
<1> QED BY <1>1, <1>6, <1>7, <1>8, <1>9, <1>10, <1>11

(* A step of the rollback, and one that fails.                             *)
LEMMA RollBackDoes ==
  ASSUME TreeType, RollBack
  PROVE  /\ export \in Exports /\ export.at = "rollback" /\ export.step \in 1 .. 4
         /\ Stays({"installed", "preserved", "errors", "failed"})
         /\ IF export.step = 4 THEN export'.at = "cleanup" /\ export'.step = 1
            ELSE export'.at = "rollback" /\ export'.step = export.step + 1
         /\ export.step = 1 /\ "best.py" \notin export.installed => Still
         /\ export.step = 2 => IF "best_workspace" \in export.installed /\ tree["best_workspace"] # Nothing
                               THEN Sets("best_workspace", Nothing) ELSE Still
         /\ export.step = 3 => IF tree["best.py.bak"] = Nothing THEN Still
                               ELSE Moves("best.py.bak", "best.py")
         /\ export.step = 4 => IF tree["best_workspace.bak"] = Nothing THEN Still
                               ELSE Moves("best_workspace.bak", "best_workspace")
<1>1. export \in Exports /\ export.at = "rollback" /\ export.step \in 1 .. 4 /\ tree \in Trees
  BY UnderWay DEF RollBack, Exports, TreeType
<1> DEFINE op == Undo[export.step][1]
           place == Undo[export.step][2]
<1>2. /\ op \in {"remove", "restore"} /\ place \in Places /\ Len(Undo) = 4
      /\ export.step \in {1, 2} => op = "remove"
      /\ export.step \in {3, 4} => op = "restore"
      /\ export.step \in {1, 3} => place = "best.py"
      /\ export.step \in {2, 4} => place = "best_workspace"
  BY <1>1, Orders, OrdersAre
<1>3. /\ tree' = IF ~Undoes(op, place) THEN tree
                 ELSE IF op = "remove" THEN [tree EXCEPT ![place] = Nothing]
                 ELSE Moved(Backup(place), place)
      /\ export' = [export EXCEPT !.at = NextUndo, !.step = AfterUndo]
  BY DEF RollBack
<1> HIDE DEF op, place
<1>4. /\ Stays({"installed", "preserved", "errors", "failed"})
      /\ IF export.step = 4 THEN export'.at = "cleanup" /\ export'.step = 1
         ELSE export'.at = "rollback" /\ export'.step = export.step + 1
  <2> DEFINE a == [export EXCEPT !.at = NextUndo]
             e == [a EXCEPT !.step = AfterUndo]
  <2>1. NextUndo \in Ends /\ AfterUndo \in 1 .. 6 /\ export' = e
    BY <1>1, <1>2, <1>3 DEF NextUndo, AfterUndo, Ends
  <2>2. a \in Exports /\ a.program = export.program /\ a.at = NextUndo
        /\ a.installed = export.installed /\ a.preserved = export.preserved
        /\ a.errors = export.errors /\ a.failed = export.failed /\ a.old = export.old
    BY <1>1, <2>1, AtSet
  <2> HIDE DEF a
  <2>3. e \in Exports /\ e.program = export.program /\ e.at = NextUndo /\ e.step = AfterUndo
        /\ e.installed = export.installed /\ e.preserved = export.preserved
        /\ e.errors = export.errors /\ e.failed = export.failed /\ e.old = export.old
    BY <2>1, <2>2, StepSet
  <2> HIDE DEF e
  <2> QED BY <1>1, <1>2, <2>1, <2>3 DEF Stays, NextUndo, AfterUndo
<1>5. /\ {"best.py", "best_workspace", "best.py.bak", "best_workspace.bak"} \subseteq SixPaths
      /\ "best.py" # "best.py.bak" /\ "best_workspace" # "best_workspace.bak"
  BY DEF SixPaths
<1>6. CASE export.step = 1
  <2>1. "best.py" \notin export.installed => tree' = tree
    BY <1>2, <1>3, <1>6 DEF Undoes
  <2> QED BY <1>1, <1>4, <1>6, <2>1, StillIs
<1>7. CASE export.step = 2
  <2>1. tree' = IF "best_workspace" \in export.installed /\ tree["best_workspace"] # Nothing
                THEN [tree EXCEPT !["best_workspace"] = Nothing] ELSE tree
    BY <1>2, <1>3, <1>7 DEF Undoes
  <2> QED BY <1>1, <1>4, <1>5, <1>7, <2>1, SetsIs, StillIs
<1>8. CASE export.step = 3
  <2>1. tree' = IF tree["best.py.bak"] = Nothing THEN tree ELSE Moved("best.py.bak", "best.py")
    BY <1>2, <1>3, <1>8, PathsAre DEF Undoes
  <2> QED BY <1>1, <1>4, <1>5, <1>8, <2>1, MovesIs, StillIs
<1>9. CASE export.step = 4
  <2>1. tree' = IF tree["best_workspace.bak"] = Nothing THEN tree
                ELSE Moved("best_workspace.bak", "best_workspace")
    BY <1>2, <1>3, <1>9, PathsAre DEF Undoes
  <2> QED BY <1>1, <1>4, <1>5, <1>9, <2>1, MovesIs, StillIs
<1> QED BY <1>1, <1>6, <1>7, <1>8, <1>9

LEMMA FailRollBackDoes ==
  ASSUME TreeType, FailRollBack
  PROVE  /\ export \in Exports /\ export.at = "rollback" /\ export.step \in 1 .. 4
         /\ Stays({"installed", "failed"})
         /\ IF export.step = 4 THEN export'.at = "cleanup" /\ export'.step = 1
            ELSE export'.at = "rollback" /\ export'.step = export.step + 1
         /\ export'.errors = export.errors + 1
         /\ export.step <= 2 => export'.preserved = export.preserved
         /\ export.step = 1 => "best.py" \in export.installed
         /\ export.step = 2 => /\ "best_workspace" \in export.installed
                               /\ Still \/ Sets("best_workspace", Damaged)
         /\ export.step = 3 => /\ tree["best.py.bak"] # Nothing /\ Still
                               /\ export'.preserved = export.preserved \cup {"best.py.bak"}
         /\ export.step = 4 => /\ tree["best_workspace.bak"] # Nothing /\ Still
                               /\ export'.preserved = export.preserved \cup {"best_workspace.bak"}
<1>1. export \in Exports /\ export.at = "rollback" /\ export.step \in 1 .. 4 /\ tree \in Trees
  BY UnderWay DEF FailRollBack, Exports, TreeType
<1> DEFINE op == Undo[export.step][1]
           place == Undo[export.step][2]
<1>2. /\ op \in {"remove", "restore"} /\ place \in Places /\ Len(Undo) = 4
      /\ export.step \in {1, 2} => op = "remove"
      /\ export.step \in {3, 4} => op = "restore"
      /\ export.step \in {1, 3} => place = "best.py"
      /\ export.step \in {2, 4} => place = "best_workspace"
  BY <1>1, Orders, OrdersAre
<1>3. /\ Undoes(op, place)
      /\ tree' \in {tree} \cup (IF op = "remove" /\ place = "best_workspace"
                                THEN {[tree EXCEPT ![place] = Damaged]} ELSE {})
      /\ export' = [export EXCEPT
                     !.at = NextUndo, !.step = AfterUndo, !.errors = @ + 1,
                     !.preserved = IF op = "restore" THEN @ \cup {Backup(place)} ELSE @]
  BY DEF FailRollBack
<1> HIDE DEF op, place
<1>4. /\ Stays({"installed", "failed"}) /\ export'.errors = export.errors + 1
      /\ export'.preserved = IF op = "restore" THEN export.preserved \cup {Backup(place)} ELSE export.preserved
      /\ IF export.step = 4 THEN export'.at = "cleanup" /\ export'.step = 1
         ELSE export'.at = "rollback" /\ export'.step = export.step + 1
  <2> DEFINE a == [export EXCEPT !.at = NextUndo]
             e == [a EXCEPT !.step = AfterUndo]
             n == export.errors + 1
             g == [e EXCEPT !.errors = n]
             v == IF op = "restore" THEN export.preserved \cup {Backup(place)} ELSE export.preserved
             h == [g EXCEPT !.preserved = v]
  <2>1. NextUndo \in Ends /\ AfterUndo \in 1 .. 6 /\ n \in Nat /\ v \in SUBSET Paths
    <3>1. Backup(place) \in Paths
      BY <1>2, Orders
    <3> QED BY <1>1, <1>2, <3>1 DEF NextUndo, AfterUndo, Ends, Exports
  <2>2. a \in Exports /\ a.program = export.program /\ a.at = NextUndo
        /\ a.installed = export.installed /\ a.preserved = export.preserved
        /\ a.errors = export.errors /\ a.failed = export.failed /\ a.old = export.old
    BY <1>1, <2>1, AtSet
  <2>7. export' = h
    BY <1>3
  <2> HIDE DEF a, n, v
  <2>3. e \in Exports /\ e.program = export.program /\ e.at = NextUndo /\ e.step = AfterUndo
        /\ e.installed = export.installed /\ e.preserved = export.preserved
        /\ e.errors = export.errors /\ e.failed = export.failed /\ e.old = export.old
    BY <2>1, <2>2, StepSet
  <2> HIDE DEF e
  <2>4. g \in Exports /\ g.program = export.program /\ g.at = NextUndo /\ g.step = AfterUndo
        /\ g.installed = export.installed /\ g.errors = n /\ g.failed = export.failed
        /\ g.old = export.old
    BY <2>1, <2>3, ErrorsSet
  <2> HIDE DEF g
  <2>5. h \in Exports /\ h.program = export.program /\ h.at = NextUndo /\ h.step = AfterUndo
        /\ h.installed = export.installed /\ h.errors = n /\ h.failed = export.failed
        /\ h.old = export.old /\ h.preserved = v
    BY <2>1, <2>4, PreservedSet
  <2> HIDE DEF h
  <2> QED BY <1>1, <1>2, <2>1, <2>5, <2>7 DEF Stays, NextUndo, AfterUndo, n, v
<1>5. "best_workspace" \in SixPaths
  BY DEF SixPaths
<1>6. CASE export.step = 1
  BY <1>1, <1>2, <1>3, <1>4, <1>6 DEF Undoes
<1>7. CASE export.step = 2
  <2>1. tree' = tree \/ tree' = [tree EXCEPT !["best_workspace"] = Damaged]
    BY <1>2, <1>3, <1>7
  <2>2. "best_workspace" \in export.installed
    BY <1>2, <1>3, <1>7 DEF Undoes
  <2> QED BY <1>1, <1>2, <1>4, <1>5, <1>7, <2>1, <2>2, SetsIs, StillIs
<1>8. CASE export.step \in {3, 4}
  <2>1. tree' = tree /\ tree[Backup(place)] # Nothing
    BY <1>2, <1>3, <1>8 DEF Undoes
  <2> QED BY <1>1, <1>2, <1>4, <1>8, <2>1, StillIs, PathsAre
<1> QED BY <1>1, <1>6, <1>7, <1>8

(* A removal of the cleanup, and one that fails.                           *)
CleanedPath ==
  CASE export.step = 1 -> "best.py.tmp" [] export.step = 2 -> "best_workspace.tmp"
    [] export.step = 3 -> "best.py.bak" [] OTHER -> "best_workspace.bak"

LEMMA CleanUpDoes ==
  ASSUME TreeType, NEW fails \in BOOLEAN, CleanUp(fails)
  PROVE  /\ export \in Exports /\ export.at = "cleanup" /\ export.step \in 1 .. 4
         /\ Stays({"installed", "preserved", "errors"})
         /\ export'.failed = (export.failed \/ fails)
         /\ export'.at \in {"cleanup", Ended(export.failed \/ fails)}
         /\ \/ Still
            \/ Sets(CleanedPath, Nothing) /\ CleanedPath \notin export.preserved
            \/ /\ Sets(CleanedPath, Damaged) /\ CleanedPath \notin export.preserved
               /\ tree[CleanedPath] # Nothing
<1>1. export \in Exports /\ export.step \in 1 .. 4 /\ tree \in Trees /\ export.at = "cleanup"
  BY UnderWay DEF CleanUp, Exports, TreeType
<1>2. Cleanup[export.step] = CleanedPath /\ Len(Cleanup) = 4 /\ CleanedPath \in SixPaths
  BY <1>1, OrdersAre, PathsAre DEF CleanedPath, SixPaths
<1> DEFINE failed == export.failed \/ fails
           e == IF export.step = 4 THEN Ended(failed) ELSE "cleanup"
           n == IF export.step = 4 THEN 4 ELSE export.step + 1
<1>3. /\ export' = [export EXCEPT !.failed = failed, !.step = n, !.at = e]
      /\ fails => tree[CleanedPath] # Nothing /\ CleanedPath \notin export.preserved
      /\ tree' \in IF CleanedPath \in export.preserved THEN {tree}
                   ELSE IF fails THEN {tree, [tree EXCEPT ![CleanedPath] = Damaged]}
                   ELSE {[tree EXCEPT ![CleanedPath] = Nothing]}
  BY <1>2 DEF CleanUp
<1>4. failed \in BOOLEAN /\ n \in 1 .. 4 /\ e \in {"cleanup", "completed", "failed"}
      /\ e \in {"cleanup", Ended(failed)}
  BY <1>1 DEF Ended, Exports
<1>5. \/ Still
      \/ Sets(CleanedPath, Nothing) /\ CleanedPath \notin export.preserved
      \/ /\ Sets(CleanedPath, Damaged) /\ CleanedPath \notin export.preserved
         /\ tree[CleanedPath] # Nothing
  <2>1. \/ tree' = tree
        \/ tree' = [tree EXCEPT ![CleanedPath] = Nothing] /\ CleanedPath \notin export.preserved
        \/ /\ tree' = [tree EXCEPT ![CleanedPath] = Damaged] /\ CleanedPath \notin export.preserved
           /\ tree[CleanedPath] # Nothing
    BY <1>3
  <2> HIDE DEF CleanedPath
  <2> QED BY <1>1, <1>2, <2>1, SetsIs, StillIs
<1> HIDE DEF failed, e, n
<1>8. Stays({"installed", "preserved", "errors"}) /\ export'.failed = failed /\ export'.at = e
  <2> DEFINE f == [export EXCEPT !.failed = failed]
             g == [f EXCEPT !.step = n]
             h == [g EXCEPT !.at = e]
  <2>1. failed \in BOOLEAN /\ n \in 1 .. 6 /\ e \in Ends /\ export' = h
    BY <1>3, <1>4 DEF Ends
  <2>2. f \in Exports /\ f.program = export.program /\ f.failed = failed
        /\ f.installed = export.installed /\ f.preserved = export.preserved
        /\ f.errors = export.errors /\ f.old = export.old
    BY <1>1, <2>1, FailedSet
  <2> HIDE DEF f
  <2>3. g \in Exports /\ g.program = export.program /\ g.failed = failed
        /\ g.installed = export.installed /\ g.preserved = export.preserved
        /\ g.errors = export.errors /\ g.old = export.old
    BY <2>1, <2>2, StepSet
  <2> HIDE DEF g
  <2>4. h \in Exports /\ h.program = export.program /\ h.failed = failed /\ h.at = e
        /\ h.installed = export.installed /\ h.preserved = export.preserved
        /\ h.errors = export.errors /\ h.old = export.old
    BY <2>1, <2>3, AtSet
  <2> HIDE DEF h
  <2> QED BY <2>1, <2>4 DEF Stays
<1> QED BY <1>1, <1>4, <1>5, <1>8 DEF failed

(* An export that is refused, that fails, or that is interrupted.          *)
LEMMA StoppedDoes ==
  ASSUME TreeType, RefuseExport \/ FailOperation \/ InterruptExport
  PROVE  /\ export \in Exports /\ Stays({"installed", "preserved", "errors"})
         /\ \/ Still \/ (export.at = "body" /\ Sets("best.py.tmp", Damaged))
            \/ (export.at = "body" /\ Sets("best_workspace.tmp", Damaged))
         /\ RefuseExport => export.at = "body" /\ export.step = 1 /\ export'.at = "failed" /\ export'.failed
         /\ FailOperation => export.at = "body" /\ export'.at = "rollback" /\ export'.step = 1 /\ export'.failed
         /\ InterruptExport => export.at \in {"body", "rollback", "cleanup"} /\ export'.at = "interrupted"
<1>1. export \in Exports /\ export.step \in 1 .. 6 /\ tree \in Trees
  BY UnderWay DEF RefuseExport, FailOperation, InterruptExport, Exports, TreeType
<1>2. CASE RefuseExport
  <2> DEFINE a == [export EXCEPT !.at = "failed"]
             b == [a EXCEPT !.failed = TRUE]
  <2>1. export' = b /\ tree' = tree /\ export.at = "body" /\ export.step = 1 /\ "failed" \in Ends
    BY <1>2 DEF RefuseExport, directory, Ends
  <2>2. a \in Exports /\ a.at = "failed" /\ a.program = export.program
        /\ a.installed = export.installed /\ a.preserved = export.preserved
        /\ a.errors = export.errors /\ a.old = export.old
    BY <1>1, <2>1, AtSet
  <2> HIDE DEF a
  <2>3. b.at = "failed" /\ b.failed /\ b.program = export.program
        /\ b.installed = export.installed /\ b.preserved = export.preserved
        /\ b.errors = export.errors /\ b.old = export.old
    BY <2>2, FailedTrue
  <2> HIDE DEF b
  <2>4. ~FailOperation /\ ~InterruptExport
    <3>1. FailOperation => export'.at = "rollback"
      BY <1>1 DEF FailOperation, Exports
    <3>2. InterruptExport => export'.at = "interrupted"
      BY <1>1 DEF InterruptExport, Exports
    <3> QED BY <2>1, <2>3, <3>1, <3>2
  <2> QED BY <1>1, <2>1, <2>3, <2>4, StillIs DEF Stays
<1>3. ASSUME FailOperation \/ InterruptExport
      PROVE  \/ Still \/ (export.at = "body" /\ Sets("best.py.tmp", Damaged))
             \/ (export.at = "body" /\ Sets("best_workspace.tmp", Damaged))
  <2>1. CASE tree' = tree
    BY <2>1, StillIs
  <2>2. CASE tree' # tree
    <3>1. /\ tree' \in AfterFailure(Body[export.step][1], Body[export.step][2])
          /\ export.at = "body"
      BY <1>3, <2>2 DEF FailOperation, InterruptExport
    <3>2. tree' = [tree EXCEPT ![Temporary(Body[export.step][2])] = Damaged]
      BY <2>2, <3>1 DEF AfterFailure
    <3>3. Temporary(Body[export.step][2]) \in {"best.py.tmp", "best_workspace.tmp"}
      BY <1>1, Orders, PathsAre
    <3>4. {"best.py.tmp", "best_workspace.tmp"} \subseteq SixPaths
      BY DEF SixPaths
    <3> QED BY <1>1, <3>1, <3>2, <3>3, <3>4, SetsIs
  <2> QED BY <2>1, <2>2
<1>4. CASE FailOperation
  <2> DEFINE a == [export EXCEPT !.at = "rollback"]
             s == [a EXCEPT !.step = 1]
             b == [s EXCEPT !.failed = TRUE]
  <2>1. export' = b /\ export.at = "body" /\ "rollback" \in Ends /\ 1 \in 1 .. 6
    BY <1>4 DEF FailOperation, Ends
  <2>2. a \in Exports /\ a.at = "rollback" /\ a.program = export.program
        /\ a.installed = export.installed /\ a.preserved = export.preserved
        /\ a.errors = export.errors /\ a.old = export.old
    BY <1>1, <2>1, AtSet
  <2> HIDE DEF a
  <2>3. s \in Exports /\ s.at = "rollback" /\ s.step = 1 /\ s.program = export.program
        /\ s.installed = export.installed /\ s.preserved = export.preserved
        /\ s.errors = export.errors /\ s.old = export.old
    BY <2>1, <2>2, StepSet
  <2> HIDE DEF s
  <2>4. b.at = "rollback" /\ b.step = 1 /\ b.failed /\ b.program = export.program
        /\ b.installed = export.installed /\ b.preserved = export.preserved
        /\ b.errors = export.errors /\ b.old = export.old
    BY <2>3, FailedTrue
  <2> HIDE DEF b
  <2>5. ~RefuseExport /\ ~InterruptExport
    <3>1. RefuseExport => export' = [export EXCEPT !.at = "failed", !.failed = TRUE]
      BY DEF RefuseExport
    <3>2. InterruptExport => export'.at = "interrupted"
      BY <1>1, AtSet DEF InterruptExport, Ends
    <3>3. [export EXCEPT !.at = "failed", !.failed = TRUE].at = "failed"
      BY <1>1 DEF Exports
    <3> QED BY <2>1, <2>4, <3>1, <3>2, <3>3
  <2> QED BY <1>1, <1>3, <1>4, <2>1, <2>4, <2>5 DEF Stays
<1>5. CASE InterruptExport
  <2> DEFINE a == [export EXCEPT !.at = "interrupted"]
  <2>1. export' = a /\ export.at \in {"body", "rollback", "cleanup"} /\ "interrupted" \in Ends
    BY <1>5 DEF InterruptExport, Ends
  <2>2. a \in Exports /\ a.at = "interrupted" /\ a.program = export.program
        /\ a.installed = export.installed /\ a.preserved = export.preserved
        /\ a.errors = export.errors /\ a.old = export.old
    BY <1>1, <2>1, AtSet
  <2> HIDE DEF a
  <2>3. RefuseExport => export'.at = "failed"
    BY <1>1 DEF RefuseExport, Exports
  <2>4. FailOperation => export'.at = "rollback"
    BY <1>1 DEF FailOperation, Exports
  <2> QED BY <1>1, <1>3, <1>5, <2>1, <2>2, <2>3, <2>4 DEF Stays
<1> QED BY <1>2, <1>4, <1>5

(* The six paths, one by one.                                              *)
LEMMA SixAre ==
  /\ "best.py" \in SixPaths /\ "best_workspace" \in SixPaths
  /\ "best.py.tmp" \in SixPaths /\ "best_workspace.tmp" \in SixPaths
  /\ "best.py.bak" \in SixPaths /\ "best_workspace.bak" \in SixPaths
  BY DEF SixPaths

LEMMA SetsAre ==
  ASSUME NEW p \in SixPaths, NEW v, Sets(p, v)
  PROVE  /\ tree'[p] = v /\ \A q \in SixPaths : q # p => tree'[q] = tree[q]
  BY DEF Sets

LEMMA MovesAre ==
  ASSUME NEW p \in SixPaths, NEW r \in SixPaths, p # r, Moves(p, r)
  PROVE  /\ tree'[p] = Nothing /\ tree'[r] = tree[p]
         /\ \A q \in SixPaths : q # p /\ q # r => tree'[q] = tree[q]
  BY DEF Moves

(* Each step of the export keeps what is said of the pair.                 *)
LEMMA PairBegins ==
  ASSUME TreeType, NEW program \in Candidates, BeginExport(program)
  PROVE  PairBody'
<1>1. /\ export'.at = "body" /\ export'.step = 1 /\ export'.program = program
      /\ export'.installed = {} /\ export'.preserved = {} /\ export'.errors = 0
      /\ export'.failed = FALSE /\ export'.old = tree
  BY DEF BeginExport
<1>2. /\ tree'["best.py"] = tree["best.py"] /\ tree'["best_workspace"] = tree["best_workspace"]
      /\ tree'["best.py.bak"] = Nothing /\ tree'["best_workspace.bak"] = Nothing
  BY PathsAre DEF BeginExport
<1>3. Untouched("best.py", "best.py.bak")' /\ Untouched("best_workspace", "best_workspace.bak")'
  BY <1>1, <1>2 DEF Untouched
<1>4. PairInBody'
  BY <1>1, <1>3 DEF PairInBody
<1> QED BY <1>1, <1>4 DEF PairBody

LEMMA PairOperates ==
  ASSUME TreeType, Operate, PairBody
  PROVE  PairBody'
<1>1. /\ PairInBody /\ export.at = "body" /\ export.step \in 1 .. 6
      /\ Stays({"preserved", "errors", "failed"})
  BY OperateDoes DEF PairBody
<1>2. /\ export'.preserved = export.preserved /\ export'.errors = export.errors
      /\ export'.failed = export.failed /\ export'.old = export.old
      /\ export'.program = export.program
  BY <1>1 DEF Stays
<1>3. /\ export.errors = 0 /\ ~export.failed /\ export.preserved = {}
      /\ export.installed = IF export.step = 6 THEN {"best_workspace"} ELSE {}
  BY <1>1 DEF PairInBody
<1>4. CASE export.step = 1
  <2>1. /\ export'.at = "body" /\ export'.step = 2 /\ export'.installed = export.installed
        /\ Sets("best.py.tmp", export.program)
    BY <1>4, OperateDoes
  <2> QED BY <1>1, <1>2, <1>3, <1>4, <2>1, SixAre, SetsAre DEF PairBody, PairInBody, Untouched
<1>5. CASE export.step = 2
  <2>1. /\ export'.at = "body" /\ export'.step = 3 /\ export'.installed = export.installed
        /\ Sets("best_workspace.tmp", export.program)
    BY <1>5, OperateDoes
  <2> QED BY <1>1, <1>2, <1>3, <1>5, <2>1, SixAre, SetsAre DEF PairBody, PairInBody, Untouched
<1>6. CASE export.step = 3
  <2>1. /\ export'.at = "body" /\ export'.step = 4 /\ export'.installed = export.installed
        /\ IF tree["best.py"] = Nothing THEN Still ELSE Moves("best.py", "best.py.bak")
    BY <1>6, OperateDoes
  <2>2. CASE tree["best.py"] = Nothing
    BY <1>1, <1>2, <1>3, <1>6, <2>1, <2>2, SixAre DEF PairBody, PairInBody, Untouched, Away, Still
  <2>3. CASE tree["best.py"] # Nothing
    BY <1>1, <1>2, <1>3, <1>6, <2>1, <2>3, SixAre, MovesAre DEF PairBody, PairInBody, Untouched, Away
  <2> QED BY <2>2, <2>3
<1>7. CASE export.step = 4
  <2>1. /\ export'.at = "body" /\ export'.step = 5 /\ export'.installed = export.installed
        /\ IF tree["best_workspace"] = Nothing THEN Still
           ELSE Moves("best_workspace", "best_workspace.bak")
    BY <1>7, OperateDoes
  <2>2. CASE tree["best_workspace"] = Nothing
    BY <1>1, <1>2, <1>3, <1>7, <2>1, <2>2, SixAre DEF PairBody, PairInBody, Untouched, Away, Still
  <2>3. CASE tree["best_workspace"] # Nothing
    BY <1>1, <1>2, <1>3, <1>7, <2>1, <2>3, SixAre, MovesAre DEF PairBody, PairInBody, Untouched, Away
  <2> QED BY <2>2, <2>3
<1>8. CASE export.step = 5
  <2>1. /\ export'.at = "body" /\ export'.step = 6 /\ export'.installed = {"best_workspace"}
        /\ Moves("best_workspace.tmp", "best_workspace")
    BY <1>3, <1>8, OperateDoes
  <2> QED BY <1>1, <1>2, <1>3, <1>8, <2>1, SixAre, MovesAre DEF PairBody, PairInBody, Away, Replaced
<1>9. CASE export.step = 6
  <2>1. /\ export'.at = "cleanup" /\ Moves("best.py.tmp", "best.py")
    BY <1>9, OperateDoes
  <2>2. tree'["best.py"] = export'.program /\ tree'["best_workspace"] = export'.program
    BY <1>1, <1>2, <1>9, <2>1, SixAre, MovesAre DEF PairInBody, Replaced
  <2> QED BY <2>1, <2>2 DEF PairBody, PairAfter, NewPair
<1> QED BY <1>1, <1>4, <1>5, <1>6, <1>7, <1>8, <1>9

LEMMA PairRollsBack ==
  ASSUME TreeType, RollBack, PairBody
  PROVE  PairBody'
<1>1. /\ PairInRollback /\ export.at = "rollback" /\ export.step \in 1 .. 4
      /\ Stays({"installed", "preserved", "errors", "failed"})
      /\ export.errors \in Nat
  BY RollBackDoes DEF PairBody, Exports
<1>2. /\ export'.preserved = export.preserved /\ export'.errors = export.errors
      /\ export'.failed = export.failed /\ export'.old = export.old
      /\ export'.program = export.program /\ export'.installed = export.installed
      /\ export.failed /\ "best.py" \notin export.installed
  BY <1>1 DEF Stays, PairInRollback
<1>3. CASE export.step = 1
  <2>1. export'.at = "rollback" /\ export'.step = 2 /\ Still
    BY <1>2, <1>3, RollBackDoes
  <2> QED BY <1>1, <1>2, <1>3, <2>1, SixAre DEF PairBody, PairInRollback, FileThere, WorkspaceThere,
        Untouched, Away, Replaced, Still
<1>4. CASE export.step = 2
  <2>1. /\ export'.at = "rollback" /\ export'.step = 3
        /\ IF "best_workspace" \in export.installed /\ tree["best_workspace"] # Nothing
           THEN Sets("best_workspace", Nothing) ELSE Still
    BY <1>4, RollBackDoes
  <2>2. /\ tree'["best.py"] = tree["best.py"] /\ tree'["best.py.bak"] = tree["best.py.bak"]
        /\ tree'["best_workspace.bak"] = tree["best_workspace.bak"]
        /\ IF "best_workspace" \in export.installed THEN tree'["best_workspace"] = Nothing
           ELSE tree'["best_workspace"] = tree["best_workspace"]
    BY <2>1, SixAre, SetsAre DEF Still
  <2>3. FileThere' /\ export'.preserved = {}
    BY <1>1, <1>2, <1>4, <2>2 DEF PairInRollback, FileThere, Untouched, Away
  <2>4. WorkspaceThere'
    BY <1>1, <1>2, <1>4, <2>2 DEF PairInRollback, WorkspaceThere, Untouched, Away, Replaced
  <2> QED BY <1>2, <2>1, <2>3, <2>4 DEF PairBody, PairInRollback
<1>5. CASE export.step = 3
  <2>1. /\ export'.at = "rollback" /\ export'.step = 4
        /\ IF tree["best.py.bak"] = Nothing THEN Still ELSE Moves("best.py.bak", "best.py")
    BY <1>5, RollBackDoes
  <2>2. /\ tree'["best_workspace"] = tree["best_workspace"]
        /\ tree'["best_workspace.bak"] = tree["best_workspace.bak"]
        /\ IF tree["best.py.bak"] = Nothing THEN tree'["best.py"] = tree["best.py"]
           ELSE tree'["best.py"] = tree["best.py.bak"]
    BY <2>1, SixAre, MovesAre DEF Still
  <2>3. FileThere /\ export.preserved = {} /\ (WorkspaceThere \/ WorkspaceSaved)
    BY <1>1, <1>5 DEF PairInRollback
  <2>4. tree'["best.py"] = export'.old["best.py"]
    BY <1>2, <2>2, <2>3 DEF FileThere, Untouched, Away
  <2>5. WorkspaceThere' \/ WorkspaceSaved'
    BY <1>2, <2>2, <2>3 DEF WorkspaceThere, WorkspaceSaved, Untouched, Away
  <2> QED BY <1>2, <2>1, <2>3, <2>4, <2>5 DEF PairBody, PairInRollback, Kept
<1>6. CASE export.step = 4
  <2>1. /\ export'.at = "cleanup"
        /\ IF tree["best_workspace.bak"] = Nothing THEN Still
           ELSE Moves("best_workspace.bak", "best_workspace")
    BY <1>6, RollBackDoes
  <2>2. /\ tree'["best.py"] = tree["best.py"]
        /\ tree'["best.py.bak"] = tree["best.py.bak"]
        /\ IF tree["best_workspace.bak"] = Nothing
           THEN /\ tree'["best_workspace"] = tree["best_workspace"]
                /\ tree'["best_workspace.bak"] = tree["best_workspace.bak"]
           ELSE tree'["best_workspace"] = tree["best_workspace.bak"]
    BY <2>1, SixAre, MovesAre DEF Still
  <2>3. /\ Kept("best.py", "best.py.bak") /\ (WorkspaceThere \/ WorkspaceSaved)
        /\ export.errors = 0 => tree["best.py"] = export.old["best.py"]
    BY <1>1, <1>6 DEF PairInRollback
  <2>4. Kept("best.py", "best.py.bak")'
    BY <1>2, <2>2, <2>3 DEF Kept
  <2>5. Kept("best_workspace", "best_workspace.bak")'
    BY <1>2, <2>2, <2>3 DEF WorkspaceThere, WorkspaceSaved, Untouched, Away, Kept
  <2>6. export'.errors > 0 \/ OldPair'
    <3>1. WorkspaceThere => tree'["best_workspace"] = export.old["best_workspace"]
      BY <2>2 DEF WorkspaceThere, Untouched, Away
    <3> QED BY <1>1, <1>2, <2>2, <2>3, <3>1 DEF WorkspaceSaved, OldPair
  <2> QED BY <1>2, <2>1, <2>4, <2>5, <2>6 DEF PairBody, PairAfter
<1> QED BY <1>1, <1>3, <1>4, <1>5, <1>6

LEMMA PairRollBackFails ==
  ASSUME TreeType, FailRollBack, PairBody
  PROVE  PairBody'
<1>1. /\ PairInRollback /\ export.at = "rollback" /\ export.step \in 1 .. 4
      /\ Stays({"installed", "failed"}) /\ export'.errors = export.errors + 1
      /\ export.errors \in Nat
  BY FailRollBackDoes DEF PairBody, Exports
<1>2. /\ export'.failed = export.failed /\ export'.old = export.old
      /\ export'.program = export.program /\ export'.installed = export.installed
      /\ export.failed /\ "best.py" \notin export.installed /\ export'.errors > 0
      /\ export'.errors # 0
  <2>1. export'.errors > 0 /\ export'.errors # 0
    <3>1. export'.errors = export.errors + 1 /\ export.errors \in Nat
      BY <1>1
    <3> QED BY <3>1
  <2>2. /\ export'.failed = export.failed /\ export'.old = export.old
        /\ export'.program = export.program /\ export'.installed = export.installed
    BY <1>1 DEF Stays
  <2>3. export.failed /\ "best.py" \notin export.installed
    BY <1>1 DEF PairInRollback
  <2> QED BY <2>1, <2>2, <2>3
<1>3. export.step # 1
  BY <1>2, FailRollBackDoes
<1>4. CASE export.step = 2
  <2>1. /\ export'.at = "rollback" /\ export'.step = 3 /\ export'.preserved = export.preserved
        /\ "best_workspace" \in export.installed
        /\ Still \/ Sets("best_workspace", Damaged)
    BY <1>4, FailRollBackDoes
  <2>2. /\ tree'["best.py"] = tree["best.py"] /\ tree'["best.py.bak"] = tree["best.py.bak"]
        /\ tree'["best_workspace.bak"] = tree["best_workspace.bak"]
    BY <2>1, SixAre, SetsAre DEF Still
  <2>3. FileThere' /\ export'.preserved = {}
    BY <1>1, <1>2, <1>4, <2>1, <2>2 DEF PairInRollback, FileThere, Untouched, Away
  <2>4. WorkspaceSaved'
    BY <1>1, <1>2, <1>4, <2>1, <2>2 DEF PairInRollback, WorkspaceSaved, Replaced
  <2> QED BY <1>2, <2>1, <2>3, <2>4 DEF PairBody, PairInRollback
<1>5. CASE export.step = 3
  <2>1. /\ export'.at = "rollback" /\ export'.step = 4 /\ tree["best.py.bak"] # Nothing /\ Still
        /\ export'.preserved = export.preserved \cup {"best.py.bak"}
    BY <1>5, FailRollBackDoes
  <2>2. FileThere /\ export.preserved = {} /\ (WorkspaceThere \/ WorkspaceSaved)
    BY <1>1, <1>5 DEF PairInRollback
  <2>3. tree'["best.py.bak"] = export'.old["best.py"]
    BY <1>2, <2>1, <2>2, SixAre DEF Still, FileThere, Untouched, Away
  <2>4. Kept("best.py", "best.py.bak")' /\ export'.preserved \subseteq {"best.py.bak"}
    BY <2>1, <2>2, <2>3 DEF Kept
  <2>5. WorkspaceThere' \/ WorkspaceSaved'
    BY <1>2, <2>1, <2>2, SixAre DEF WorkspaceThere, WorkspaceSaved, Untouched, Away, Still
  <2> QED BY <1>2, <2>1, <2>4, <2>5 DEF PairBody, PairInRollback
<1>6. CASE export.step = 4
  <2>1. /\ export'.at = "cleanup" /\ tree["best_workspace.bak"] # Nothing /\ Still
        /\ export'.preserved = export.preserved \cup {"best_workspace.bak"}
    BY <1>6, FailRollBackDoes
  <2>2. Kept("best.py", "best.py.bak") /\ (WorkspaceThere \/ WorkspaceSaved)
    BY <1>1, <1>6 DEF PairInRollback
  <2>3. tree'["best_workspace.bak"] = export'.old["best_workspace"]
    BY <1>2, <2>1, <2>2, SixAre DEF Still, WorkspaceThere, WorkspaceSaved, Untouched, Away
  <2>4. Kept("best.py", "best.py.bak")' /\ Kept("best_workspace", "best_workspace.bak")'
    BY <1>2, <2>1, <2>2, <2>3, SixAre DEF Kept, Still
  <2> QED BY <1>2, <2>1, <2>4 DEF PairBody, PairAfter
<1> QED BY <1>1, <1>3, <1>4, <1>5, <1>6

LEMMA PairCleansUp ==
  ASSUME TreeType, NEW fails \in BOOLEAN, CleanUp(fails), PairBody
  PROVE  PairBody'
<1>1. /\ PairAfter /\ export.at = "cleanup" /\ export.step \in 1 .. 4
      /\ Stays({"installed", "preserved", "errors"})
      /\ export'.failed = (export.failed \/ fails)
      /\ export'.at \in {"cleanup", Ended(export.failed \/ fails)}
      /\ \/ Still
         \/ Sets(CleanedPath, Nothing) /\ CleanedPath \notin export.preserved
         \/ /\ Sets(CleanedPath, Damaged) /\ CleanedPath \notin export.preserved
            /\ tree[CleanedPath] # Nothing
  BY CleanUpDoes DEF PairBody
<1>2. /\ export'.preserved = export.preserved /\ export'.errors = export.errors
      /\ export'.old = export.old /\ export'.program = export.program
  BY <1>1 DEF Stays
<1>3. /\ CleanedPath \in SixPaths /\ CleanedPath # "best.py" /\ CleanedPath # "best_workspace"
  BY <1>1 DEF CleanedPath, SixPaths
<1>4. tree'["best.py"] = tree["best.py"] /\ tree'["best_workspace"] = tree["best_workspace"]
  <2> HIDE DEF CleanedPath
  <2> QED BY <1>1, <1>3, SixAre, SetsAre DEF Still
<1>5. ASSUME NEW p \in {"best.py", "best_workspace"}, NEW q \in {"best.py.bak", "best_workspace.bak"},
             Kept(p, q)
      PROVE  Kept(p, q)'
  <2> HIDE DEF CleanedPath
  <2>1. CASE tree'[q] = tree[q]
    BY <1>2, <1>4, <1>5, <2>1 DEF Kept
  <2>2. CASE tree'[q] # tree[q]
    <3>1. q \in SixPaths
      BY SixAre
    <3>2. q = CleanedPath
      BY <1>1, <1>3, <2>2, <3>1, SetsAre DEF Still
    <3>3. q \notin export.preserved /\ (tree'[q] = Nothing \/ tree[q] # Nothing)
      BY <1>1, <1>3, <2>2, <3>1, <3>2, SetsAre DEF Still
    <3> QED BY <1>2, <1>4, <1>5, <3>3 DEF Kept
  <2> QED BY <2>1, <2>2
<1>6. /\ NewPair => NewPair'
      /\ OldPair => OldPair'
  BY <1>2, <1>4 DEF NewPair, OldPair
<1>7. \/ NewPair'
      \/ Kept("best.py", "best.py.bak")' /\ Kept("best_workspace", "best_workspace.bak")'
  BY <1>1, <1>5, <1>6 DEF PairAfter
<1>8. export'.errors > 0 \/ NewPair' \/ OldPair'
  BY <1>1, <1>2, <1>6 DEF PairAfter
<1>9. ~export'.failed \/ export'.at = "completed" => NewPair'
  BY <1>1, <1>6 DEF PairAfter, Ended
<1>10. PairAfter'
  BY <1>7, <1>8, <1>9 DEF PairAfter
<1>11. export'.at \in {"cleanup", "completed", "failed"}
  BY <1>1 DEF Ended
<1> QED BY <1>10, <1>11 DEF PairBody

(* While the rollback can still run, each form of the old program is in    *)
(* its place or in its backup.                                             *)
LEMMA PairIsLeft ==
  ASSUME TreeType, export \in Exports, export # Idle, PairBody
  PROVE  PairLeft
<1>1. CASE export.at = "body"
  <2>1. PairInBody /\ export.step \in 1 .. 6
    BY <1>1 DEF PairBody, Exports
  <2> QED BY <2>1 DEF PairInBody, PairLeft, Untouched, Away, Replaced
<1>2. CASE export.at = "rollback"
  <2>1. PairInRollback /\ export.step \in 1 .. 4
    <3>1. export.step \in 1 .. 6 /\ export.step <= 4
      BY <1>2, UnderWay DEF Exports
    <3>2. PairInRollback
      BY <1>2 DEF PairBody
    <3> QED BY <3>1, <3>2
  <2>2. export.old["best.py"] \in {tree["best.py"], tree["best.py.bak"]}
    <3>1. CASE export.step <= 3
      BY <2>1, <3>1 DEF PairInRollback, FileThere, Untouched, Away
    <3>2. CASE export.step = 4
      BY <2>1, <3>2 DEF PairInRollback, Kept
    <3> QED BY <2>1, <3>1, <3>2
  <2>3. export.old["best_workspace"] \in {tree["best_workspace"], tree["best_workspace.bak"]}
    BY <2>1 DEF PairInRollback, WorkspaceThere, WorkspaceSaved, Untouched, Away, Replaced
  <2> QED BY <2>2, <2>3 DEF PairLeft
<1>3. CASE export.at \in {"cleanup", "completed", "failed"}
  BY <1>3 DEF PairBody, PairAfter, PairLeft, Kept
<1>4. CASE export.at = "interrupted"
  BY <1>4 DEF PairBody
<1>5. export.at # "idle"
  BY IdleIs
<1> QED BY <1>1, <1>2, <1>3, <1>4, <1>5 DEF Exports

LEMMA PairStops ==
  ASSUME TreeType, RefuseExport \/ FailOperation \/ InterruptExport, PairBody
  PROVE  PairBody'
<1>1. /\ export \in Exports /\ Stays({"installed", "preserved", "errors"})
      /\ \/ Still \/ (export.at = "body" /\ Sets("best.py.tmp", Damaged))
         \/ (export.at = "body" /\ Sets("best_workspace.tmp", Damaged))
  BY StoppedDoes
<1>2. /\ export'.preserved = export.preserved /\ export'.errors = export.errors
      /\ export'.old = export.old /\ export'.program = export.program
      /\ export'.installed = export.installed /\ export.errors \in Nat
  BY <1>1 DEF Stays, Exports
<1>3. /\ tree'["best.py"] = tree["best.py"] /\ tree'["best_workspace"] = tree["best_workspace"]
      /\ tree'["best.py.bak"] = tree["best.py.bak"]
      /\ tree'["best_workspace.bak"] = tree["best_workspace.bak"]
  BY <1>1, SixAre, SetsAre DEF Still
<1>4. CASE RefuseExport
  <2>1. export.at = "body" /\ export.step = 1 /\ export'.at = "failed" /\ export'.failed /\ PairInBody
    BY <1>4, StoppedDoes DEF PairBody
  <2>2. OldPair'
    BY <1>2, <1>3, <2>1 DEF PairInBody, OldPair, Untouched
  <2> QED BY <2>1, <2>2 DEF PairBody, PairAfter, Kept, OldPair
<1>5. CASE FailOperation
  <2>1. export.at = "body" /\ export'.at = "rollback" /\ export'.step = 1 /\ export'.failed /\ PairInBody
    BY <1>5, StoppedDoes DEF PairBody
  <2>2. FileThere'
    BY <1>2, <1>3, <2>1 DEF PairInBody, FileThere, Untouched, Away
  <2>3. \/ WorkspaceThere' /\ "best_workspace" \notin export'.installed
        \/ Replaced("best_workspace", "best_workspace.bak")' /\ "best_workspace" \in export'.installed
    <3>1. export.step \in 1 .. 6
      BY <1>1 DEF Exports
    <3> QED BY <1>2, <1>3, <2>1, <3>1 DEF PairInBody, WorkspaceThere, Untouched, Away, Replaced
  <2>4. export'.preserved = {} /\ export'.errors = 0 /\ "best.py" \notin export'.installed
    BY <1>2, <2>1 DEF PairInBody
  <2> QED BY <2>1, <2>2, <2>3, <2>4 DEF PairBody, PairInRollback
<1>6. CASE InterruptExport
  <2>1. export.at \in {"body", "rollback", "cleanup"} /\ export'.at = "interrupted"
    BY <1>6, StoppedDoes
  <2>2. export # Idle
    BY <2>1 DEF Idle
  <2>3. PairLeft
    BY <1>1, <2>2, PairIsLeft
  <2>4. PairLeft'
    BY <1>2, <1>3, <2>3 DEF PairLeft, NewPair
  <2> QED BY <2>1, <2>4 DEF PairBody
<1> QED BY <1>4, <1>5, <1>6

(* Nothing but the export touches the pair.                                *)
LEMMA LoggingLive ==
  ASSUME NEW outcome, Logging(outcome)
  PROVE  Live /\ tree' = tree /\ export' = export
<1>1. Live
  BY DEF Logging, AddPrompt, BudgetEvent, CallModel, LogCallEvent, AdmitCurrent,
    RecordFailure, LogReward, LogProgram, ScorePrompt, Migrate, LogStop, SummarizeHistory,
    FinishManifest, Doing, Live
<1>2. export' = export
  BY DEF Logging, AddPrompt, BudgetEvent, CallModel, LogCallEvent, AdmitCurrent,
    RecordFailure, LogReward, LogProgram, ScorePrompt, Migrate, LogStop, SummarizeHistory,
    FinishManifest, promptsAndExport
<1>3. tree' = tree
  BY DEF Logging, AddPrompt, AddSeed, BudgetEvent, CallModel, LogCallEvent, AdmitCurrent, Admit,
    RecordFailure, LogFailure, LogReward, LogProgram, Log, ScorePrompt, RecordResult, Migrate,
    MaybeMigrate, LogStop, SummarizeHistory, FinishManifest, WriteManifest,
    LogControllerBudgetEvent, LogLLMCall, directory
<1> QED BY <1>1, <1>2, <1>3

LEMMA PairStays ==
  ASSUME PairBody, tree' = tree, export' = export
  PROVE  PairBody'
BY DEF PairBody, PairInBody, PairInRollback, PairAfter, PairLeft, NewPair, OldPair, FileThere,
  WorkspaceThere, WorkspaceSaved, Untouched, Away, Replaced, Kept

LEMMA PairExports ==
  ASSUME Base, PairInv, ExportSteps
  PROVE  PairInv'
<1>1. TreeType /\ archived \subseteq Candidates /\ Live
  BY ExportBase DEF Base, TypeOK, MemoryType
<1>2. pc # "clearing" /\ Fate # "cleared"
  BY <1>1 DEF Live, Base, FateOK
<1>3. export # Idle => PairBody
  BY <1>2 DEF PairInv
<1> SUFFICES ASSUME export' # Idle PROVE PairBody'
  BY DEF PairInv
<1>4. CASE StartExport
  <2>1. CASE \E b \in Best : BeginExport(b)
    <3>1. PICK b \in Best : BeginExport(b)
      BY <2>1
    <3>2. b \in Candidates
      BY <1>1 DEF Best
    <3> QED BY <1>1, <3>1, <3>2, PairBegins
  <2>2. CASE UNCHANGED <<tree, export>>
    BY <1>3, <2>2, PairStays
  <2> QED BY <1>4, <2>1, <2>2, StartExportFlow DEF Base
<1>5. CASE Export \/ ExportFails
  <2>1. export # Idle
    BY <1>5, ExportFlow DEF Base
  <2>2. PairBody
    BY <1>3, <2>1
  <2>3. \/ Operate \/ RollBack \/ FailRollBack \/ RefuseExport \/ FailOperation
        \/ \E fails \in BOOLEAN : CleanUp(fails)
    BY <1>5 DEF Export, ExportFails, ExportStep, ExportFault
  <2> QED
    BY <1>1, <2>2, <2>3, PairOperates, PairRollsBack, PairRollBackFails, PairCleansUp, PairStops
<1>6. CASE ExportInterrupted
  <2>1. InterruptExport
    BY <1>6 DEF ExportInterrupted
  <2>2. export # Idle
    <3>1. export \in Exports
      BY <1>1, <2>1, StoppedDoes
    <3>2. export.at # "idle"
      BY <3>1 DEF Exports
    <3> QED BY <1>1, <3>2, IdleIs
  <2> QED BY <1>1, <1>3, <2>1, <2>2, PairStops
<1> QED BY <1>4, <1>5, <1>6 DEF ExportSteps

(* What is said of the pair is inductive.                                  *)
LEMMA PairNext ==
  ASSUME Base, PairInv, [Next]_vars
  PROVE  PairInv'
<1>1. ASSUME Live, tree' = tree, export' = export PROVE PairInv'
  <2>1. pc # "clearing" /\ Fate # "cleared"
    BY <1>1 DEF Live, Base, FateOK
  <2> QED BY <1>1, <2>1, PairStays DEF PairInv
<1>2. ASSUME NEW policy \in Policies, Claim(policy) PROVE PairInv'
  BY <1>2 DEF Claim, PairInv
<1>3. CASE Clear
  BY <1>3, ClearFlow DEF Base, PairInv
<1>4. CASE OpenRun
  BY <1>4, OpenFlow DEF Base, PairInv
<1>5. CASE Turns
  BY <1>1, <1>5, TurnsBase DEF directory
<1>6. CASE ExportSteps
  BY <1>6, PairExports
<1>7. ASSUME NEW outcome \in Outcomes, Logging(outcome) PROVE PairInv'
  BY <1>1, <1>7, LoggingLive
<1>8. CASE Kill
  <2>1. tree' = tree /\ export' = export
    BY <1>8 DEF Kill, directory
  <2>2. CASE Live
    BY <1>1, <2>1, <2>2
  <2>3. CASE pc = "clearing"
    <3>1. Fate' = Fate /\ Fate \in {"none", "cleared"}
      BY <1>8, <2>3, KillFlow DEF Base, FateOK
    <3>2. Fate = "none" => export = Idle
      BY FatesAre DEF Base, TypeOK, FateOK
    <3> QED BY <2>1, <3>1, <3>2 DEF PairInv
  <2> QED BY <1>8, <2>2, <2>3, KillFlow DEF Base, TypeOK, ControlType, Parts, Live
<1>9. CASE UNCHANGED vars
  <2>1. UNCHANGED <<tree, export, pc, run, fates>>
    BY <1>9 DEF vars, directory, control
  <2>2. Fate' = Fate
    BY <2>1 DEF Fate
  <2> QED BY <2>1, <2>2, PairStays DEF PairInv
<1> QED BY <1>2, <1>3, <1>4, <1>5, <1>6, <1>7, <1>8, <1>9, NextIs

LEMMA PairMean ==
  ASSUME Base, PairInv
  PROVE  PairIsWhole
<1> SUFFICES ASSUME export.at # "idle", pc # "clearing", Fate # "cleared" PROVE PairIsWhole
  BY DEF PairIsWhole
<1>1. export \in Exports /\ export # Idle /\ PairBody /\ TreeType
  BY UnderWay, IdleIs DEF Base, TypeOK, PairInv
<1>2. Places = {"best.py", "best_workspace"} /\ Backup("best.py") = "best.py.bak"
      /\ Backup("best_workspace") = "best_workspace.bak"
  BY PathsAre
<1>3. ASSUME export.at \in {"completed", "failed"}, export.errors = 0, Same(export.old)
      PROVE  Same(tree)
  <2>1. NewPair \/ OldPair
    BY <1>1, <1>3 DEF PairBody, PairAfter
  <2> QED BY <1>3, <2>1 DEF NewPair, OldPair, Same
<1>4. PairLeft
  BY <1>1, PairIsLeft
<1> QED BY <1>2, <1>3, <1>4 DEF PairIsWhole, PairLeft, NewPair

(* PairIsWhole, whatever fails, is interrupted or killed in an export: an  *)
(* export that ended well left two forms of one program, and until the new *)
(* pair is in place the old one is in place or in its backup.              *)
THEOREM PairStaysWhole == Spec => []PairIsWhole
<1> DEFINE Inv == Base /\ PairInv
<1>1. Init => Inv
  BY BaseInit DEF Init, PairInv
<1>2. Inv /\ [Next]_vars => Inv'
  <2> SUFFICES ASSUME Inv, [Next]_vars PROVE Inv'
    OBVIOUS
  <2> QED BY BaseNext, PairNext
<1>3. Inv => PairIsWhole
  BY PairMean
<1> QED BY <1>1, <1>2, <1>3, PTL DEF Spec

(***************************************************************************)
(* What a step leaves alone.                                               *)
(***************************************************************************)
(* An operation that logs appends to one stream.                           *)
LEMMA OtherStreams ==
  ASSUME Base, NEW outcome \in Outcomes
  PROVE  /\ AddPrompt(outcome) =>
              /\ UNCHANGED memory
              /\ \A s \in Streams : s # "prompt_history" => files'[s] = files[s]
         /\ \A kind \in {"seed_evaluation", "generation_started", "candidate_evaluation",
                         "generation_completed"} :
              BudgetEvent(kind, outcome) =>
                /\ UNCHANGED <<prompts, archived, logged, failures>>
                /\ \A s \in Streams : s # "controller_budget_events" => files'[s] = files[s]
         /\ \A ending \in {"answered", "failed", "interrupted"} :
              CallModel(outcome, ending) =>
                /\ UNCHANGED <<prompts, archived, logged, failures>>
                /\ \A s \in Streams : s # "llm_calls" => files'[s] = files[s]
         /\ \A caught \in BOOLEAN :
              LogCallEvent(outcome, caught) =>
                /\ UNCHANGED <<prompts, archived, logged, failures>>
                /\ \A s \in Streams : s # "controller_budget_events" => files'[s] = files[s]
         /\ \A admitted \in BOOLEAN :
              AdmitCurrent(admitted, outcome) =>
                /\ UNCHANGED <<prompts, logged, failures>>
                /\ \A s \in Streams : s # "archive_events" => files'[s] = files[s]
         /\ RecordFailure(outcome) =>
              /\ UNCHANGED <<prompts, archived, logged>>
              /\ \A s \in Streams : s # "failure_history" => files'[s] = files[s]
         /\ LogReward(outcome) =>
              /\ UNCHANGED <<prompts, archived, logged, failures>>
              /\ \A s \in Streams : s # "llm_calls" => files'[s] = files[s]
         /\ LogProgram(outcome) =>
              /\ UNCHANGED <<prompts, archived, failures>>
              /\ \A s \in Streams : s # "history" => files'[s] = files[s]
         /\ ScorePrompt(outcome) =>
              /\ UNCHANGED memory
              /\ \A s \in Streams : s # "prompt_history" => files'[s] = files[s]
         /\ LogStop(outcome) =>
              /\ UNCHANGED <<prompts, archived, logged, failures>>
              /\ \A s \in Streams : s # "controller_budget_events" => files'[s] = files[s]
<1>1. FilesOK(files)
  BY DEF Base, TypeOK
<1>2. ASSUME NEW stream \in Streams, NEW row, files' = WithRow(stream, row, outcome)
      PROVE  \A s \in Streams : s # stream => files'[s] = files[s]
  BY <1>1, <1>2, AppendedRow
<1>3. /\ "prompt_history" \in Streams /\ "controller_budget_events" \in Streams
      /\ "llm_calls" \in Streams /\ "archive_events" \in Streams
      /\ "failure_history" \in Streams /\ "history" \in Streams
  BY DEF Streams
<1>4. ASSUME AddPrompt(outcome)
      PROVE  /\ UNCHANGED memory
             /\ \A s \in Streams : s # "prompt_history" => files'[s] = files[s]
  BY <1>2, <1>3, <1>4 DEF AddPrompt, AddSeed
<1>5. ASSUME NEW kind, LogControllerBudgetEvent(kind, outcome)
      PROVE  /\ UNCHANGED <<archived, logged, failures>>
             /\ \A s \in Streams : s # "controller_budget_events" => files'[s] = files[s]
  BY <1>2, <1>3, <1>5 DEF LogControllerBudgetEvent
<1>6. ASSUME NEW type, LogLLMCall(type, outcome)
      PROVE  /\ UNCHANGED <<archived, logged, failures>>
             /\ \A s \in Streams : s # "llm_calls" => files'[s] = files[s]
  BY <1>2, <1>3, <1>6 DEF LogLLMCall
<1>7. ASSUME NEW kind, BudgetEvent(kind, outcome)
      PROVE  LogControllerBudgetEvent(kind, outcome) /\ prompts' = prompts
  BY <1>7 DEF BudgetEvent, promptsAndExport
<1>8. ASSUME NEW ending, CallModel(outcome, ending)
      PROVE  LogLLMCall("call", outcome) /\ prompts' = prompts
  BY <1>8 DEF CallModel, promptsAndExport
<1>9. ASSUME NEW caught, LogCallEvent(outcome, caught)
      PROVE  LogControllerBudgetEvent("llm_call", outcome) /\ prompts' = prompts
  BY <1>9 DEF LogCallEvent, promptsAndExport
<1>10. ASSUME NEW admitted, AdmitCurrent(admitted, outcome)
       PROVE  /\ UNCHANGED <<prompts, logged, failures>>
              /\ \A s \in Streams : s # "archive_events" => files'[s] = files[s]
  BY <1>2, <1>3, <1>10 DEF AdmitCurrent, Admit, promptsAndExport
<1>11. ASSUME RecordFailure(outcome)
       PROVE  /\ UNCHANGED <<prompts, archived, logged>>
              /\ \A s \in Streams : s # "failure_history" => files'[s] = files[s]
  BY <1>2, <1>3, <1>11 DEF RecordFailure, LogFailure, promptsAndExport
<1>12. ASSUME LogReward(outcome) PROVE LogLLMCall("reward", outcome) /\ prompts' = prompts
  BY <1>12 DEF LogReward, promptsAndExport
<1>13. ASSUME LogProgram(outcome)
       PROVE  /\ UNCHANGED <<prompts, archived, failures>>
              /\ \A s \in Streams : s # "history" => files'[s] = files[s]
  BY <1>2, <1>3, <1>13 DEF LogProgram, Log, promptsAndExport
<1>14. ASSUME ScorePrompt(outcome)
       PROVE  /\ UNCHANGED memory
              /\ \A s \in Streams : s # "prompt_history" => files'[s] = files[s]
  BY <1>2, <1>3, <1>14 DEF ScorePrompt, RecordResult
<1>15. ASSUME LogStop(outcome) PROVE LogControllerBudgetEvent("stop", outcome) /\ prompts' = prompts
  BY <1>15 DEF LogStop, promptsAndExport
<1> QED
  BY <1>4, <1>5, <1>6, <1>7, <1>8, <1>9, <1>10, <1>11, <1>12, <1>13, <1>14, <1>15

LEMMA SummaryStreams ==
  ASSUME Base, NEW outcome, SummarizeHistory(outcome)
  PROVE  /\ UNCHANGED <<memory, prompts>>
         /\ \A s \in Streams : s # "evaluator_results" => files'[s] = files[s]
<1>1. TypeOK
  BY DEF Base
<1>2. EvaluatorResults \in Seq(ResultRows) /\ <<>> \in Seq(ResultRows)
  BY <1>1, EvaluatorResultsType
<1>3. files' \in {files, WithResults(EvaluatorResults), WithResults(<<>>)}
  BY DEF SummarizeHistory
<1>4. UNCHANGED <<memory, prompts>>
  BY DEF SummarizeHistory, promptsAndExport
<1>5. \A results \in Seq(ResultRows) : \A s \in Streams :
        s # "evaluator_results" => WithResults(results)[s] = files[s]
  BY <1>1, ResultsType
<1> QED BY <1>2, <1>3, <1>4, <1>5

LEMMA MigrationStreams ==
  ASSUME Base, NEW outcome, Migrate(outcome)
  PROVE  /\ UNCHANGED <<prompts, archived, logged, failures>>
         /\ \A s \in Streams : s # "archive_events" => files'[s] = files[s]
         /\ EventedAsTaken' = EventedAsTaken
<1>1. FilesOK(files)
  BY DEF Base, TypeOK
<1>2. CASE UNCHANGED <<directory, memory>>
  <2>1. UNCHANGED <<files, prompts, archived, logged, failures>>
    BY <1>2 DEF Migrate, promptsAndExport, directory, memory
  <2> QED BY <2>1 DEF EventedAsTaken
<1>3. CASE MaybeMigrate(outcome)
  <2>1. PICK k \in Nat : files' = [files EXCEPT !["archive_events"] = @ \o MigrationRows(k)]
    <3>1. PICK n \in 1 .. MaxHops :
            \E k \in 0 .. n : files' = [files EXCEPT !["archive_events"] = @ \o MigrationRows(k)]
      BY <1>3 DEF MaybeMigrate
    <3>2. PICK k \in 0 .. n : files' = [files EXCEPT !["archive_events"] = @ \o MigrationRows(k)]
      BY <3>1
    <3>3. k \in Nat
      OBVIOUS
    <3> QED BY <3>2, <3>3
  <2>2. /\ files = [s \in Streams |-> files[s]] /\ "archive_events" \in Streams
    BY <1>1 DEF FilesOK, Streams
  <2>3. /\ Events' = Followed(Events, MigrationRows(k))
        /\ \A s \in Streams : s # "archive_events" => files'[s] = files[s]
    BY <2>1, <2>2 DEF Followed, Events
  <2>4. UNCHANGED <<prompts, archived, logged, failures>>
    BY <1>3 DEF Migrate, MaybeMigrate, promptsAndExport
  <2> DEFINE new == Events'
  <2>5. new = Followed(Events, MigrationRows(k))
    BY <2>3
  <2> HIDE DEF new
  <2>6. /\ DOMAIN new = 1 .. Len(Events) + k
        /\ \A i \in DOMAIN Events : new[i] = Events[i]
        /\ \A j \in DOMAIN new : j > Len(Events) =>
             new[j] = [type |-> "migration", number |-> hops + (j - Len(Events)), run |-> run]
        /\ Len(Events) \in Nat /\ DOMAIN Events = 1 .. Len(Events)
    BY <2>5, MigrationsFollow
  <2>7. Of("admission", new) = Of("admission", Events)
    <3>1. ASSUME NEW i \in Of("admission", new) PROVE i \in Of("admission", Events)
      <4>1. i \in DOMAIN new /\ new[i].type = "admission"
        BY DEF Of
      <4>2. ~(i > Len(Events))
        BY <2>6, <4>1
      <4>3. i \in DOMAIN Events
        BY <2>6, <4>1, <4>2
      <4> QED BY <2>6, <4>1, <4>3 DEF Of
    <3>2. ASSUME NEW i \in Of("admission", Events) PROVE i \in Of("admission", new)
      <4>1. i \in DOMAIN Events /\ Events[i].type = "admission"
        BY DEF Of
      <4>2. i \in DOMAIN new
        BY <2>6, <4>1
      <4> QED BY <2>6, <4>1, <4>2 DEF Of
    <3> QED BY <3>1, <3>2
  <2>8. \A i \in Of("admission", Events) : new[i] = Events[i]
    BY <2>6 DEF Of
  <2>9. EventedAsTaken' = {new[i].id : i \in {j \in Of("admission", new) : new[j].reason = "retained"}}
    BY DEF EventedAsTaken, new, Events
  <2>10. EventedAsTaken = {Events[i].id : i \in {j \in Of("admission", Events) : Events[j].reason = "retained"}}
    BY DEF EventedAsTaken, Events
  <2>11. EventedAsTaken' = EventedAsTaken
    BY <2>7, <2>8, <2>9, <2>10
  <2> QED BY <2>3, <2>4, <2>11
<1> QED BY <1>2, <1>3 DEF Migrate

(***************************************************************************)
(* The prompt log. The rows, read one after the other, give back the       *)
(* programs in memory, with one row more when its append raised.           *)
(***************************************************************************)
(* What reading the rows one after the other comes to.                     *)
Replays(rows, after) ==
  after = [n \in 0 .. Len(rows) |->
             IF n = 0 THEN [refused |-> FALSE, programs |-> <<>>]
             ELSE Read(after[n - 1], rows[n])]
ReplaysTo(rows, database) ==
  /\ \E after : Replays(rows, after)
  /\ \A after : Replays(rows, after) => after[Len(rows)] = database
Accepted(programs) == [refused |-> FALSE, programs |-> programs]
PromptRowsNow == files["prompt_history"]
ReplayInv ==
  /\ \E programs :
       /\ ReplaysTo(PromptRowsNow, Accepted(programs))
       /\ Sound => programs = prompts
  /\ \A i \in DOMAIN prompts : prompts[i].id = i

(***************************************************************************)
(* Replaying the prompt log.                                               *)
(***************************************************************************)
(* The rows replay in one way.                                             *)
LEMMA ReplayedIs ==
  ASSUME NEW rows, NEW database, ReplaysTo(rows, database)
  PROVE  Replayed(rows) = database
<1> DEFINE turn(f) ==
      [n \in 0 .. Len(rows) |->
         IF n = 0 THEN [refused |-> FALSE, programs |-> <<>>] ELSE Read(f[n - 1], rows[n])]
           after == CHOOSE f : f = turn(f)
<1>1. \E f : f = turn(f)
  BY DEF ReplaysTo, Replays
<1>2. after = turn(after)
  BY <1>1
<1>3. Replays(rows, after)
  BY <1>2 DEF Replays
<1>4. after[Len(rows)] = database
  BY <1>3 DEF ReplaysTo
<1>5. Replayed(rows) = after[Len(rows)]
  BY DEF Replayed
<1> QED BY <1>4, <1>5

LEMMA ReplaysNothing == ReplaysTo(<<>>, Accepted(<<>>))
<1>1. Len(<<>>) = 0 /\ 0 .. 0 = {0}
  OBVIOUS
<1> DEFINE first == [n \in 0 .. 0 |-> Accepted(<<>>)]
<1>2. Replays(<<>>, first)
  BY <1>1 DEF Replays, Accepted
<1>3. ASSUME NEW after, Replays(<<>>, after) PROVE after[0] = Accepted(<<>>)
  BY <1>1, <1>3 DEF Replays, Accepted
<1> QED BY <1>1, <1>2, <1>3 DEF ReplaysTo

(* One row more is one more reading.                                       *)
LEMMA ReplaysMore ==
  ASSUME NEW R, NEW rows \in Seq(R), NEW row \in R, NEW database, ReplaysTo(rows, database)
  PROVE  ReplaysTo(Append(rows, row), Read(database, row))
<1> DEFINE more == Append(rows, row)
           l == Len(rows)
           start == [refused |-> FALSE, programs |-> <<>>]
<1>1. /\ l \in Nat /\ Len(more) = l + 1 /\ more[l + 1] = row
      /\ \A i \in 1 .. l : more[i] = rows[i]
  BY AppendIs
<1>2. \A f : Replays(rows, f) <=> f = [n \in 0 .. l |-> IF n = 0 THEN start ELSE Read(f[n - 1], rows[n])]
  BY DEF Replays
<1>3. \A f : Replays(more, f) <=>
               f = [n \in 0 .. l + 1 |-> IF n = 0 THEN start ELSE Read(f[n - 1], more[n])]
  BY <1>1 DEF Replays
<1> HIDE DEF more, l, start
<1>4. \E after : Replays(more, after)
  <2>1. PICK f : Replays(rows, f)
    BY DEF ReplaysTo
  <2> DEFINE g == [n \in 0 .. l + 1 |-> IF n = l + 1 THEN Read(f[l], row) ELSE f[n]]
             h == [n \in 0 .. l + 1 |-> IF n = 0 THEN start ELSE Read(g[n - 1], more[n])]
  <2>2. ASSUME NEW n \in 0 .. l + 1 PROVE g[n] = IF n = 0 THEN start ELSE Read(g[n - 1], more[n])
    <3>1. CASE n = l + 1
      <4>1. g[n] = Read(f[l], row) /\ n - 1 = l /\ n # 0 /\ g[n - 1] = f[l]
        BY <1>1, <3>1
      <4> QED BY <1>1, <3>1, <4>1
    <3>2. CASE n # l + 1
      <4>1. n \in 0 .. l /\ g[n] = f[n]
        BY <1>1, <3>2
      <4>2. f[n] = IF n = 0 THEN start ELSE Read(f[n - 1], rows[n])
        BY <1>2, <2>1, <4>1
      <4>3. CASE n = 0
        BY <4>1, <4>2, <4>3
      <4>4. CASE n # 0
        <5>1. n \in 1 .. l /\ n - 1 \in 0 .. l + 1 /\ n - 1 # l + 1
          BY <1>1, <4>1, <4>4
        <5>2. g[n - 1] = f[n - 1] /\ more[n] = rows[n]
          BY <1>1, <5>1
        <5> QED BY <4>1, <4>2, <4>4, <5>2
      <4> QED BY <4>3, <4>4
    <3> QED BY <3>1, <3>2
  <2>3. g = h
    <3>1. /\ DOMAIN g = 0 .. l + 1 /\ DOMAIN h = 0 .. l + 1
          /\ g = [n \in DOMAIN g |-> g[n]] /\ h = [n \in DOMAIN h |-> h[n]]
      OBVIOUS
    <3>2. \A n \in 0 .. l + 1 : g[n] = h[n]
      BY <2>2
    <3> HIDE DEF g, h
    <3> QED BY <3>1, <3>2
  <2>4. Replays(more, g)
    BY <1>3, <2>3
  <2> QED BY <2>4
<1>5. ASSUME NEW after, Replays(more, after) PROVE after[l + 1] = Read(database, row)
  <2>1. after = [n \in 0 .. l + 1 |-> IF n = 0 THEN start ELSE Read(after[n - 1], more[n])]
    BY <1>3, <1>5
  <2> DEFINE f == [n \in 0 .. l |-> after[n]]
             h == [n \in 0 .. l |-> IF n = 0 THEN start ELSE Read(f[n - 1], rows[n])]
  <2>2. ASSUME NEW n \in 0 .. l PROVE f[n] = IF n = 0 THEN start ELSE Read(f[n - 1], rows[n])
    <3>1. n \in 0 .. l + 1 /\ f[n] = after[n]
      BY <1>1
    <3>2. after[n] = IF n = 0 THEN start ELSE Read(after[n - 1], more[n])
      BY <2>1, <3>1
    <3>3. CASE n = 0
      BY <3>1, <3>2, <3>3
    <3>4. CASE n # 0
      <4>1. n \in 1 .. l /\ n - 1 \in 0 .. l
        BY <1>1, <3>4
      <4>2. f[n - 1] = after[n - 1] /\ more[n] = rows[n]
        BY <1>1, <4>1
      <4> QED BY <3>1, <3>2, <3>4, <4>2
    <3> QED BY <3>3, <3>4
  <2>3. f = h
    <3>1. /\ DOMAIN f = 0 .. l /\ DOMAIN h = 0 .. l
          /\ f = [n \in DOMAIN f |-> f[n]] /\ h = [n \in DOMAIN h |-> h[n]]
      OBVIOUS
    <3>2. \A n \in 0 .. l : f[n] = h[n]
      BY <2>2
    <3> HIDE DEF f, h
    <3> QED BY <3>1, <3>2
  <2>4. Replays(rows, f)
    BY <1>2, <2>3
  <2>5. f[l] = database
    BY <2>4 DEF ReplaysTo, l
  <2>6. after[l] = database
    BY <1>1, <2>5
  <2>7. after[l + 1] = Read(after[l], more[l + 1])
    <3>1. l + 1 \in 0 .. l + 1 /\ l + 1 # 0 /\ (l + 1) - 1 = l
      BY <1>1
    <3>2. after[l + 1] = Read(after[(l + 1) - 1], more[l + 1])
      BY <2>1, <3>1
    <3> QED BY <3>1, <3>2
  <2> QED BY <1>1, <2>6, <2>7
<1> QED BY <1>1, <1>4, <1>5 DEF ReplaysTo, more

(* What a row does to a database it fits.                                  *)
LEMMA ReadIs ==
  ASSUME NEW programs, NEW row
  PROVE  Follows(programs, row) => Read(Accepted(programs), row) = Accepted(WithProgram(programs, row))
<1> SUFFICES ASSUME Follows(programs, row)
             PROVE  Read(Accepted(programs), row) = Accepted(WithProgram(programs, row))
  OBVIOUS
<1> DEFINE d == Accepted(programs)
           p == WithProgram(programs, row)
<1>1. d.refused = FALSE /\ d.programs = programs /\ d = [refused |-> FALSE, programs |-> programs]
  BY DEF Accepted
<1>2. Read(d, row) = [d EXCEPT !.programs = WithProgram(@, row)]
  BY <1>1 DEF Read
<1>3. Read(d, row) = [d EXCEPT !.programs = p]
  BY <1>1, <1>2
<1> HIDE DEF d, p
<1>4. Read(d, row) = [refused |-> FALSE, programs |-> p]
  BY <1>1, <1>3
<1> QED BY <1>4 DEF d, p, Accepted

(* A step of a run under way leads to no sound state but from one.         *)
LEMMA SoundBefore ==
  ASSUME Base, Live, Sound',
         Turns \/ ExportSteps \/ \E outcome \in Outcomes : Logging(outcome)
  PROVE  Sound /\ pc # "aborting"
<1> SUFFICES pc # "aborting"
  BY DEF Live, Sound
<1>1. CASE Live'
  <2>1. Onward
    BY <1>1, OnwardTurns, OnwardExport, OnwardLogging
  <2> QED BY <1>1, <2>1 DEF Onward, Sound, Live
<1>2. CASE ~Live'
  <2>1. PICK outcome \in Outcomes : Logging(outcome)
    BY <1>2, TurnsBase, ExportBase
  <2>2. FinishManifest(outcome)
    BY <1>2, <2>1 DEF Live, Logging, AddPrompt, BudgetEvent, CallModel, LogCallEvent, AdmitCurrent,
      RecordFailure, LogReward, LogProgram, ScorePrompt, Migrate, LogStop, SummarizeHistory,
      Continue, Raise
  <2>3. fates' = [fates EXCEPT ![run] = IF pc = "finishing" THEN "completed" ELSE "aborted"]
        /\ run' = run
    BY <1>2, <2>2, ManifestFlow DEF Base, Live
  <2>4. Fate' = "completed"
    BY <1>2 DEF Sound, Live
  <2>5. run # 0 /\ run \in DOMAIN fates
    BY FatesAre DEF Base, TypeOK, FateOK
  <2>6. Fate' = fates'[run]
    BY <2>3, <2>5 DEF Fate
  <2>7. fates'[run] = IF pc = "finishing" THEN "completed" ELSE "aborted"
    BY <2>3, <2>5
  <2> QED BY <2>4, <2>6, <2>7
<1> QED BY <1>1, <1>2

(* While no prompt row is written the log replays as it did.               *)
LEMMA ReplaysNow ==
  ASSUME ReplayInv
  PROVE  /\ Sound => ReplaysTo(PromptRowsNow, Accepted(prompts))
         /\ \E programs : ReplaysTo(PromptRowsNow, Accepted(programs))
         /\ \A i \in DOMAIN prompts : prompts[i].id = i
<1>1. PICK programs : /\ ReplaysTo(PromptRowsNow, Accepted(programs))
                      /\ Sound => programs = prompts
  BY Zenon DEF ReplayInv
<1>2. \A i \in DOMAIN prompts : prompts[i].id = i
  BY Zenon DEF ReplayInv
<1> QED BY <1>1, <1>2

(* A program that was added is read back.                                  *)
LEMMA AddReplays ==
  ASSUME Base, ReplayInv, NEW outcome \in Outcomes, AddPrompt(outcome)
  PROVE  ReplayInv'
<1>1. /\ pc = "running" /\ Steps(outcome, {"opening", "between"})
      /\ FilesOK(files) /\ prompts \in Seq(PromptPrograms)
  BY PromptFlow DEF Base, TypeOK, PromptsType
<1>2. ReplaysTo(PromptRowsNow, Accepted(prompts)) /\ \A i \in DOMAIN prompts : prompts[i].id = i
  BY <1>1, ReplaysNow DEF Sound
<1> DEFINE seed == SeedPrompt(Len(prompts) + 1)
           row == PromptRow("add", seed)
<1>3. /\ files' = WithRow("prompt_history", row, outcome)
      /\ prompts' = IF outcome = "written" THEN Append(prompts, seed) ELSE prompts
  BY DEF AddPrompt, AddSeed
<1>4. /\ Len(prompts) \in Nat /\ DOMAIN prompts = 1 .. Len(prompts)
      /\ seed = [id |-> Len(prompts) + 1, uses |-> 0, sum |-> 0]
      /\ seed \in PromptPrograms /\ run \in Nat
      /\ row.event = "add" /\ row.id = seed.id /\ row.uses = seed.uses /\ row.sum = seed.sum
  BY <1>1 DEF SeedPrompt, PromptPrograms, PromptRow, Base, TypeOK, ControlType
<1>5. row \in PromptRows
  BY <1>4 DEF PromptRow, PromptPrograms, PromptRows
<1>6. Follows(prompts, row) /\ WithProgram(prompts, row) = Append(prompts, seed)
  <2>1. Known(prompts, row.id) = {}
    <3> SUFFICES ASSUME NEW i \in Known(prompts, row.id) PROVE FALSE
      OBVIOUS
    <3>1. i \in 1 .. Len(prompts) /\ i = Len(prompts) + 1
      BY <1>2, <1>4 DEF Known
    <3> QED BY <1>4, <3>1
  <2> QED BY <1>4, <2>1 DEF Follows, WithProgram
<1> HIDE DEF row, seed
<1>7. \A i \in DOMAIN prompts' : prompts'[i].id = i
  <2>1. CASE outcome = "written"
    <3>1. /\ DOMAIN Append(prompts, seed) = 1 .. Len(prompts) + 1
          /\ \A i \in 1 .. Len(prompts) : Append(prompts, seed)[i] = prompts[i]
          /\ Append(prompts, seed)[Len(prompts) + 1] = seed
      BY <1>1, <1>4, AppendIs
    <3>2. seed.id = Len(prompts) + 1
      BY <1>4
    <3> QED BY <1>2, <1>3, <1>4, <2>1, <3>1, <3>2
  <2> QED BY <1>2, <1>3, <2>1
<1>8. /\ outcome = "refused" => PromptRowsNow' = PromptRowsNow
      /\ outcome # "refused" => PromptRowsNow' = Append(PromptRowsNow, row)
      /\ PromptRowsNow \in Seq(PromptRows)
  <2>1. "prompt_history" \in Streams
    BY DEF Streams
  <2> QED BY <1>1, <1>3, <2>1, AppendedRow DEF PromptRowsNow, FilesOK
<1>9. outcome # "refused" => ReplaysTo(PromptRowsNow', Accepted(Append(prompts, seed)))
  BY <1>2, <1>5, <1>6, <1>8, ReplaysMore, ReadIs
<1>10. Sound' => outcome = "written"
  BY <1>1 DEF Steps, Sound
<1>11. \E programs : ReplaysTo(PromptRowsNow', Accepted(programs)) /\ (Sound' => programs = prompts')
  <2>1. CASE outcome = "refused"
    BY <1>2, <1>8, <1>10, <2>1
  <2>2. CASE outcome # "refused"
    BY <1>3, <1>9, <1>10, <2>2
  <2> QED BY <2>1, <2>2
<1> QED BY <1>7, <1>11 DEF ReplayInv

(* A score that was recorded is read back.                                 *)
LEMMA ScoreReplays ==
  ASSUME Base, ReplayInv, NEW outcome \in Outcomes, ScorePrompt(outcome)
  PROVE  ReplayInv'
<1>1. /\ pc = "running" /\ Steps(outcome, {"after"}) /\ current \in Candidates
      /\ FilesOK(files) /\ prompts \in Seq(PromptPrograms) /\ run \in Nat
  BY ResultFlow DEF Base, TypeOK, PromptsType, Going, ControlType
<1>2. ReplaysTo(PromptRowsNow, Accepted(prompts)) /\ \A i \in DOMAIN prompts : prompts[i].id = i
  BY <1>1, ReplaysNow DEF Sound
<1> DEFINE reward == current.score - current.baseline
<1>3. reward \in Int
  BY <1>1 DEF Candidates
<1> HIDE DEF reward
<1>4. PICK i \in DOMAIN prompts :
        /\ files' = WithRow("prompt_history", PromptRow("score", Scored(prompts[i], reward)), outcome)
        /\ prompts' = IF outcome = "written" THEN [prompts EXCEPT ![i] = Scored(@, reward)] ELSE prompts
  BY DEF ScorePrompt, RecordResult, reward
<1> DEFINE p == Scored(prompts[i], reward)
           row == PromptRow("score", p)
           next == [prompts EXCEPT ![i] = p]
<1>5. /\ p \in PromptPrograms /\ p.id = i
      /\ p.uses >= prompts[i].uses /\ p.sum >= prompts[i].sum
  <2>1. prompts[i] \in PromptPrograms /\ prompts[i].id = i
    BY <1>1, <1>2
  <2> QED BY <1>3, <2>1, ScoredType
<1> HIDE DEF p
<1>6. /\ row.event = "score" /\ row.id = i /\ row.uses = p.uses /\ row.sum = p.sum
      /\ row \in PromptRows
  BY <1>1, <1>5 DEF PromptRow, PromptPrograms, PromptRows
<1>7. [id |-> row.id, uses |-> row.uses, sum |-> row.sum] = p
  BY <1>5, <1>6 DEF PromptPrograms
<1> HIDE DEF row
<1>8. Known(prompts, row.id) = {i}
  BY <1>2, <1>6 DEF Known
<1>9. Follows(prompts, row)
  BY <1>5, <1>6, <1>8 DEF Follows
<1>10. WithProgram(prompts, row) = next
  <2>1. (CHOOSE j \in {i} : TRUE) = i
    OBVIOUS
  <2> QED BY <1>6, <1>7, <1>8, <2>1 DEF WithProgram
<1>11. \A j \in DOMAIN next : next[j].id = j
  <2>1. /\ DOMAIN next = DOMAIN prompts /\ next[i] = p
        /\ \A j \in DOMAIN prompts : j # i => next[j] = prompts[j]
    BY <1>1, <1>5, Updated
  <2> QED BY <1>2, <1>5, <2>1
<1>12. prompts' = IF outcome = "written" THEN next ELSE prompts
  BY <1>4 DEF p
<1>13. files' = WithRow("prompt_history", row, outcome)
  BY <1>4 DEF p, row
<1> HIDE DEF next
<1>14. /\ outcome = "refused" => PromptRowsNow' = PromptRowsNow
       /\ outcome # "refused" => PromptRowsNow' = Append(PromptRowsNow, row)
       /\ PromptRowsNow \in Seq(PromptRows)
  <2>1. "prompt_history" \in Streams
    BY DEF Streams
  <2> QED BY <1>1, <1>13, <2>1, AppendedRow DEF PromptRowsNow, FilesOK
<1>15. outcome # "refused" => ReplaysTo(PromptRowsNow', Accepted(next))
  <2>1. Read(Accepted(prompts), row) = Accepted(next)
    BY <1>9, <1>10, ReadIs
  <2>2. ReplaysTo(Append(PromptRowsNow, row), Read(Accepted(prompts), row))
    BY <1>2, <1>6, <1>14, ReplaysMore
  <2> QED BY <1>14, <2>1, <2>2
<1>16. Sound' => outcome = "written"
  BY <1>1 DEF Steps, Sound
<1>17. \E programs : ReplaysTo(PromptRowsNow', Accepted(programs)) /\ (Sound' => programs = prompts')
  <2>1. CASE outcome = "refused"
    BY <1>2, <1>14, <1>16, <2>1
  <2>2. CASE outcome # "refused"
    BY <1>12, <1>15, <1>16, <2>2
  <2> QED BY <2>1, <2>2
<1> QED BY <1>2, <1>11, <1>12, <1>17 DEF ReplayInv

(* A run that was killed is not sound.                                     *)
LEMMA KilledUnsound ==
  ASSUME Base, Kill
  PROVE  pc' = "off" /\ ~Sound'
<1>1. pc # "off" /\ pc' = "off"
  BY DEF Kill
<1>2. CASE pc = "clearing"
  BY <1>1, <1>2, KillFlow DEF Base, FateOK, Sound
<1>3. CASE pc # "clearing"
  <2>1. Live /\ run \in Nat /\ run >= 1
    BY <1>1, <1>3 DEF Live, Base, TypeOK, ControlType, Parts, FateOK
  <2>2. run # 0
    BY <2>1
  <2> QED BY <1>1, <1>3, <2>2, KillFlow DEF Base, Sound
<1> QED BY <1>2, <1>3

(* The prompt log replays to what is in memory, after each step.           *)
LEMMA ReplayNext ==
  ASSUME Base, Fresh, ReplayInv, [Next]_vars
  PROVE  ReplayInv'
<1>1. ASSUME PromptRowsNow' = PromptRowsNow, prompts' = prompts, Sound' => Sound
      PROVE  ReplayInv'
  BY <1>1 DEF ReplayInv
<1>2. "prompt_history" \in Streams /\ FilesOK(files)
  BY DEF Streams, Base, TypeOK
<1>3. ASSUME NEW policy \in Policies, Claim(policy) PROVE ReplayInv'
  <2>1. pc' = "clearing" /\ files' = files /\ prompts' = <<>>
    BY <1>3 DEF Claim, ForgetAll, ForgetPrompts, directory
  <2> QED BY <2>1 DEF ReplayInv, Sound, PromptRowsNow
<1>4. CASE Clear
  <2>1. pc = "clearing" /\ pc' = "clearing" /\ prompts' = <<>>
    BY <1>4 DEF Clear, Fresh, promptsAndExport
  <2>2. PromptRowsNow' \in {PromptRowsNow, <<>>}
    BY <1>2, <1>4 DEF Clear, RemoveName, PromptRowsNow, FilesOK
  <2>3. \E programs : ReplaysTo(PromptRowsNow', Accepted(programs))
    BY <2>2, ReplaysNothing, ReplaysNow
  <2> QED BY <2>1, <2>3 DEF ReplayInv, Sound
<1>5. CASE OpenRun
  <2>1. prompts' = <<>> /\ PromptRowsNow' = <<>>
    BY <1>2, <1>5, OpenFlow DEF OpenRun, Fresh, PromptRowsNow, Base
  <2> QED BY <2>1, ReplaysNothing DEF ReplayInv
<1>6. CASE Turns \/ ExportSteps
  <2>1. prompts' = prompts /\ files' = files /\ Live
    BY <1>6, TurnsBase, ExportBase DEF directory
  <2>2. Sound' => Sound
    BY <1>6, <2>1, SoundBefore
  <2> QED BY <1>1, <2>1, <2>2 DEF PromptRowsNow
<1>7. ASSUME NEW outcome \in Outcomes, Logging(outcome) PROVE ReplayInv'
  <2>1. CASE AddPrompt(outcome)
    BY <2>1, AddReplays
  <2>2. CASE ScorePrompt(outcome)
    BY <2>2, ScoreReplays
  <2>3. ASSUME ~AddPrompt(outcome), ~ScorePrompt(outcome)
        PROVE  prompts' = prompts /\ files'["prompt_history"] = files["prompt_history"]
    <3>1. ASSUME FinishManifest(outcome) PROVE prompts' = prompts /\ files' = files
      BY <3>1 DEF FinishManifest, WriteManifest, directory, promptsAndExport
    <3>2. ASSUME SummarizeHistory(outcome)
          PROVE  prompts' = prompts /\ files'["prompt_history"] = files["prompt_history"]
      BY <1>2, <3>2, SummaryStreams
    <3>3. ASSUME Migrate(outcome)
          PROVE  prompts' = prompts /\ files'["prompt_history"] = files["prompt_history"]
      BY <1>2, <3>3, MigrationStreams
    <3> QED BY <1>2, <1>7, <2>3, <3>1, <3>2, <3>3, OtherStreams DEF Logging
  <2>4. Sound' => Sound
    BY <1>7, SoundBefore, LoggingLive
  <2> QED BY <1>1, <2>1, <2>2, <2>3, <2>4 DEF PromptRowsNow
<1>8. CASE Kill
  <2>1. pc' = "off" /\ files' = files /\ prompts' = <<>>
    BY <1>8 DEF Kill, ForgetAll, ForgetPrompts, directory
  <2>2. ~Sound'
    BY <1>8, KilledUnsound
  <2> QED BY <2>1, <2>2 DEF ReplayInv, PromptRowsNow
<1>9. CASE UNCHANGED vars
  BY <1>1, <1>9 DEF vars, directory, promptsAndExport, control, PromptRowsNow, Sound, Fate
<1> QED BY <1>3, <1>4, <1>5, <1>6, <1>7, <1>8, <1>9, NextIs

(* PromptReplays: the log of the prompts is never refused, and after a     *)
(* sound run it gives back the database in memory.                         *)
THEOREM PromptLogReplays == Spec => []PromptReplays
<1> DEFINE Inv == Base /\ Fresh /\ ReplayInv
<1>1. Init => Inv
  <2>1. Init => files["prompt_history"] = <<>> /\ prompts = <<>>
    BY DEF Init, EmptyDirectory, Streams
  <2> QED BY <2>1, BaseInit, FreshInit, ReplaysNothing DEF ReplayInv, PromptRowsNow
<1>2. Inv /\ [Next]_vars => Inv'
  <2> SUFFICES ASSUME Inv, [Next]_vars PROVE Inv'
    OBVIOUS
  <2> QED BY BaseNext, FreshNext, ReplayNext
<1>3. Inv => PromptReplays
  <2> SUFFICES ASSUME Inv PROVE PromptReplays
    OBVIOUS
  <2>1. PICK programs : /\ ReplaysTo(PromptRowsNow, Accepted(programs))
                        /\ Sound => programs = prompts
    BY Zenon DEF ReplayInv
  <2>2. Replayed(PromptRowsNow) = Accepted(programs)
    BY <2>1, ReplayedIs
  <2>3. Whole => Sound
    BY DEF Whole, Between, Sound
  <2> QED BY <2>1, <2>2, <2>3 DEF PromptReplays, PromptRowsNow, Accepted
<1> QED BY <1>1, <1>2, <1>3, PTL DEF Spec

(***************************************************************************)
(* The archive and the records of it: the candidate in hand may be         *)
(* retained and not recorded yet; in a sound state nobody else is.         *)
(***************************************************************************)
KeptIds == IF kept THEN {current.id} ELSE {}
ArchiveInv ==
  /\ Sound => IF Stage \in {"due", "told"}
              THEN /\ EventedAsTaken = Taken /\ Taken = RecordedAsTaken \cup KeptIds
                   /\ current.id \notin RecordedAsTaken
                   /\ kept => current \in archived /\ Eligible(current)
                   /\ \A a \in archived : a.id = current.id => a = current
              ELSE EventedAsTaken = Taken /\ Taken = RecordedAsTaken
  /\ pc = "aborting" => /\ RecordedAsTaken \subseteq EventedAsTaken
                        /\ EventedAsTaken \subseteq Taken
                        /\ Taken \ {current.id} \subseteq RecordedAsTaken
Tells(row, a) == row.admitted /\ row.valid /\ row.id = a.id /\ row.score = a.score
MatchInv ==
  Sound =>
    /\ \A i \in DOMAIN History : History[i].admitted =>
         \E a \in archived : Tells(History[i], a)
    /\ \A a \in archived : a.id \in RecordedAsTaken =>
         \E i \in DOMAIN History : Tells(History[i], a)

(***************************************************************************)
(* The candidates the two streams tell of: all up to the one in hand;      *)
(* while it is told, with or without it. What fell short is among the      *)
(* failures.                                                               *)
(***************************************************************************)
ToldOf == IdsOf(History) \cup IdsOf(FailureHistory)
Short == {History[i].id : i \in {j \in DOMAIN History : ~Eligible(History[j])}}
Level == IF Stage \in {"before", "due", "failed"} THEN current.id - 1 ELSE current.id
CoverInv ==
  Sound =>
    /\ Stage # "told" => ToldOf = 0 .. Level
    /\ Stage = "told" => /\ ToldOf \in {0 .. current.id - 1, 0 .. current.id}
                         /\ ~Eligible(current) => current.id \in IdsOf(FailureHistory)
    /\ Short \subseteq IdsOf(FailureHistory)
    /\ failures = FailureHistory
    /\ logged = [i \in DOMAIN History |-> History[i].id]
Alike(rows, i) == {j \in 1 .. i : rows[j].print = rows[i].print}
CountInv ==
  Live \/ Sound =>
    /\ \A i \in DOMAIN FailureHistory :
         FailureHistory[i].count = Cardinality(Alike(FailureHistory, i))
    /\ ~RepeatsAnId(History) /\ ~RepeatsAnId(FailureHistory)

(***************************************************************************)
(* Steps that tell nothing of a candidate: the archive and the rows of     *)
(* history and failures stay.                                              *)
(***************************************************************************)
RecordsStay ==
  /\ UNCHANGED <<archived, logged, failures>>
  /\ History' = History /\ FailureHistory' = FailureHistory
  /\ EventedAsTaken' = EventedAsTaken
Calm == Stage \notin {"due", "told"} /\ Stage' \notin {"due", "told"} /\ Level' = Level
Retold == Stage = "told" /\ Stage' = "told" /\ current' = current /\ kept' = kept
Quiet ==
  /\ RecordsStay
  /\ Sound' => Calm \/ Retold
  /\ pc' = "aborting" => current' = current

(* Candidates are numbered from 0.                                         *)
LEMMA IdIs == Base => current.id \in Int /\ current.id >= -1
BY DEF Base, TypeOK, ControlType, Control, Candidates, NoCandidate

(* A step that leaves the three streams alone leaves the records.          *)
LEMMA RecordsOfFiles ==
  ASSUME UNCHANGED <<archived, logged, failures>>,
         \A s \in {"history", "failure_history", "archive_events"} : files'[s] = files[s]
  PROVE  RecordsStay
<1>1. /\ files'["history"] = files["history"]
      /\ files'["failure_history"] = files["failure_history"]
      /\ files'["archive_events"] = files["archive_events"]
  OBVIOUS
<1>2. EventedAsTaken' = EventedAsTaken
  BY <1>1 DEF EventedAsTaken, Of
<1> QED BY <1>1, <1>2 DEF RecordsStay, History, FailureHistory

(* Most operations tell nothing of the candidate.                          *)
LEMMA StepsQuiet ==
  ASSUME Base, NEW outcome, NEW stages, Steps(outcome, stages), RecordsStay,
         Stage \notin {"due", "told"}, stages \cap {"due", "told"} = {}, current' = current,
         \A stage \in stages : stage \in {"before", "failed"} <=> Stage \in {"before", "failed"},
         pc \in {"running", "finishing"}
  PROVE  Quiet
<1>1. ASSUME Sound' PROVE Calm
  <2>1. outcome = "written" /\ Stage' \in stages
    BY <1>1 DEF Steps, Sound
  <2>2. Stage' \notin {"due", "told"} /\ (Stage' \in {"before", "failed"} <=> Stage \in {"before", "failed"})
    BY <2>1
  <2> QED BY <2>2 DEF Calm, Level
<1> QED BY <1>1 DEF Quiet

LEMMA QuietTurns ==
  ASSUME Base, Turns
  PROVE  Quiet
<1>1. RecordsStay
  BY TurnsBase, RecordsOfFiles DEF directory, memory
<1>2. current.id \in Int
  BY IdIs
<1>3. ASSUME NEW valid \in BOOLEAN, NEW score \in Scores, NEW print \in Prints,
             NEW paths \in PathKinds, Seed(valid, score, print, paths)
      PROVE  Quiet
  <2>1. Stage = "between" /\ Stage' = "before" /\ current'.id = current.id + 1 /\ pc' = "running"
    BY <1>3, SeedFlow DEF Base
  <2> QED BY <1>1, <1>2, <2>1 DEF Quiet, Calm, Level
<1>4. ASSUME NEW valid \in BOOLEAN, NEW score \in Scores, NEW print \in Prints,
             NEW parent \in archived, NEW prompt \in Selectable,
             Propose(valid, score, print, parent, prompt)
      PROVE  Quiet
  <2>1. Stage = "between" /\ Stage' = "before" /\ current'.id = current.id + 1 /\ pc' = "running"
    BY <1>4, ProposeFlow DEF Base
  <2> QED BY <1>1, <1>2, <2>1 DEF Quiet, Calm, Level
<1>5. CASE NoCallLeft
  <2>1. Stage = "before" /\ Stage' = "stop" /\ current'.id = current.id - 1 /\ pc' = "finishing"
    BY <1>5, NoCallFlow DEF Base
  <2> QED BY <1>1, <2>1 DEF Quiet, Calm, Level
<1>6. CASE Reraise
  <2>1. pc' = "aborting" /\ current' = current
    BY <1>6 DEF Reraise
  <2> QED BY <1>1, <2>1 DEF Quiet, Sound
<1>7. CASE Finish
  <2>1. Stage = "between" /\ Stage' = "stop" /\ current' = current
    BY <1>7, FinishFlow DEF Base, Finish
  <2> QED BY <1>1, <2>1 DEF Quiet, Calm, Level
<1>8. CASE Interrupt
  <2>1. pc' = "aborting" /\ current' = current
    BY <1>8, InterruptFlow DEF Interrupt, Base
  <2> QED BY <1>1, <2>1 DEF Quiet, Sound
<1>9. CASE EndExport
  <2>1. Stage = "exporting" /\ Stage' = "history" /\ current' = current
    BY <1>9, EndExportFlow DEF Base, EndExport
  <2> QED BY <1>1, <2>1 DEF Quiet, Calm, Level
<1> QED BY <1>3, <1>4, <1>5, <1>6, <1>7, <1>8, <1>9 DEF Turns

LEMMA QuietExports ==
  ASSUME Base, ExportSteps
  PROVE  Quiet
<1>1. RecordsStay /\ current' = current
  <2>1. files' = files /\ memory' = memory
    BY ExportBase
  <2>2. current' = current
    BY DEF ExportSteps, StartExport, Export, ExportFails, ExportInterrupted, control
  <2> QED BY <2>1, <2>2, RecordsOfFiles DEF memory
<1>2. ASSUME Stage \in LastStages, Stage' \in LastStages PROVE Quiet
  BY <1>1, <1>2 DEF Quiet, Calm, Level, LastStages
<1>3. CASE StartExport
  BY <1>2, <1>3, StartExportFlow DEF Base, LastStages
<1>4. CASE Export \/ ExportFails
  BY <1>2, <1>4, ExportFlow DEF Base, LastStages
<1>5. CASE ExportInterrupted
  BY <1>2, <1>5, ExportInterruptedFlow DEF Base, LastStages
<1> QED BY <1>3, <1>4, <1>5 DEF ExportSteps

LEMMA QuietLogging ==
  ASSUME Base, NEW outcome \in Outcomes, Logging(outcome),
         \A admitted \in BOOLEAN : ~AdmitCurrent(admitted, outcome),
         ~RecordFailure(outcome), ~LogProgram(outcome)
  PROVE  Quiet
<1>1. {"history", "failure_history", "archive_events"} \subseteq Streams
  BY DEF Streams
<1>2. CASE AddPrompt(outcome)
  <2>1. pc = "running" /\ Stage = "opening" /\ Steps(outcome, {"opening", "between"}) /\ current' = current
    BY <1>2, PromptFlow DEF Base, AddPrompt
  <2>2. RecordsStay
    BY <1>1, <1>2, OtherStreams, RecordsOfFiles DEF memory
  <2> QED BY <2>1, <2>2, StepsQuiet
<1>3. ASSUME NEW kind \in {"seed_evaluation", "generation_started", "candidate_evaluation",
                           "generation_completed"}, BudgetEvent(kind, outcome)
      PROVE  Quiet
  <2>1. /\ Going /\ current' = current
        /\ \/ Stage = "before" /\ Steps(outcome, {"before"})
           \/ Stage = "after" /\ Steps(outcome, {"between"})
    BY <1>3, BudgetFlow DEF Base, BudgetEvent
  <2>2. RecordsStay
    BY <1>1, <1>3, OtherStreams, RecordsOfFiles
  <2>3. pc = "running"
    BY <2>1 DEF Going
  <2> QED BY <2>1, <2>2, <2>3, StepsQuiet
<1>4. ASSUME NEW ending \in {"answered", "failed", "interrupted"}, CallModel(outcome, ending)
      PROVE  Quiet
  <2>1. Stage = "before" /\ pc' = "running" /\ Stage' \in {"before", "failed"} /\ current'.id = current.id
    BY <1>4, CallFlow DEF Base
  <2>2. RecordsStay
    BY <1>1, <1>4, OtherStreams, RecordsOfFiles
  <2> QED BY <2>1, <2>2 DEF Quiet, Calm, Level
<1>5. ASSUME NEW caught \in BOOLEAN, LogCallEvent(outcome, caught)
      PROVE  Quiet
  <2>1. /\ Stage \in {"before", "failed"} /\ current'.id = current.id
        /\ \/ pc' = "running" /\ Stage' \in {"before", "failed"}
           \/ pc' = "aborting" /\ current' = current
    BY <1>5, CallEventFlow DEF Base
  <2>2. RecordsStay
    BY <1>1, <1>5, OtherStreams, RecordsOfFiles
  <2> QED BY <2>1, <2>2 DEF Quiet, Calm, Level, Sound
<1>6. CASE LogReward(outcome)
  <2>1. Stage = "told" /\ Steps(outcome, {"told"}) /\ UNCHANGED <<current, kept>>
    BY <1>6, RewardFlow DEF Base, LogReward
  <2>2. RecordsStay
    BY <1>1, <1>6, OtherStreams, RecordsOfFiles
  <2> QED BY <2>1, <2>2 DEF Quiet, Retold, Steps, Sound
<1>7. CASE ScorePrompt(outcome)
  <2>1. Going /\ Stage = "after" /\ Steps(outcome, {"after"}) /\ current' = current
    BY <1>7, ResultFlow DEF Base, ScorePrompt
  <2>2. RecordsStay
    BY <1>1, <1>7, OtherStreams, RecordsOfFiles DEF memory
  <2> QED BY <2>1, <2>2, StepsQuiet DEF Going
<1>8. CASE Migrate(outcome)
  <2>1. Going /\ Stage = "after" /\ Steps(outcome, {"after"}) /\ current' = current
    BY <1>8, MigrateFlow DEF Base, Migrate
  <2>2. RecordsStay
    BY <1>1, <1>8, MigrationStreams DEF RecordsStay, History, FailureHistory
  <2> QED BY <2>1, <2>2, StepsQuiet DEF Going
<1>9. CASE LogStop(outcome)
  <2>1. Stage = "stop" /\ Stage' \in {"stop", "export"} /\ current' = current
    BY <1>9, StopFlow DEF Base, LogStop
  <2>2. RecordsStay
    BY <1>1, <1>9, OtherStreams, RecordsOfFiles
  <2> QED BY <2>1, <2>2 DEF Quiet, Calm, Level
<1>10. CASE SummarizeHistory(outcome)
  <2>1. Stage = "history" /\ Stage' \in {"stop", "manifest"} /\ current' = current
    BY <1>10, HistoryFlow DEF Base, SummarizeHistory
  <2>2. RecordsStay
    BY <1>1, <1>10, SummaryStreams, RecordsOfFiles DEF memory
  <2> QED BY <2>1, <2>2 DEF Quiet, Calm, Level
<1>11. CASE FinishManifest(outcome)
  <2>1. /\ Stage = "manifest" /\ current' = current
        /\ pc' = "off" \/ (pc' = "aborting" /\ Stage' = "stop")
    BY <1>11, ManifestFlow DEF Base
  <2>2. files' = files /\ memory' = memory
    BY <1>11 DEF FinishManifest, WriteManifest, directory
  <2>3. RecordsStay
    BY <2>2, RecordsOfFiles DEF memory
  <2>4. pc' = "off" => Stage' = "between"
    <3>1. pc' = "off" => todo' = <<>>
      BY <1>11, LoggingBase DEF Base, Control
    <3> QED BY <3>1, ShortStages DEF Stage
  <2> QED BY <2>1, <2>3, <2>4 DEF Quiet, Calm, Level
<1> QED BY <1>2, <1>3, <1>4, <1>5, <1>6, <1>7, <1>8, <1>9, <1>10, <1>11 DEF Logging

(***************************************************************************)
(* The archive and the two streams that tell of it.                        *)
(***************************************************************************)
(* A quiet step keeps what is said of the archive.                         *)
LEMMA SetsStay ==
  ASSUME RecordsStay
  PROVE  /\ Taken' = Taken /\ RecordedAsTaken' = RecordedAsTaken /\ EventedAsTaken' = EventedAsTaken
         /\ ToldOf' = ToldOf /\ Short' = Short /\ IdsOf(FailureHistory)' = IdsOf(FailureHistory)
BY DEF RecordsStay, Taken, RecordedAsTaken, ToldOf, Short, IdsOf, Eligible

LEMMA QuietArchive ==
  ASSUME Live, Quiet, ArchiveInv, Sound' => Sound
  PROVE  ArchiveInv'
<1>1. UNCHANGED <<archived, EventedAsTaken, Taken, RecordedAsTaken>>
  BY SetsStay DEF Quiet, RecordsStay
<1>2. ASSUME Sound', Calm PROVE ArchiveInv'
  <2>1. pc' # "aborting"
    BY <1>2 DEF Sound
  <2> QED BY <1>1, <1>2, <2>1 DEF ArchiveInv, Calm
<1>3. ASSUME Sound', Retold PROVE ArchiveInv'
  <2>1. pc' # "aborting"
    BY <1>3 DEF Sound
  <2>2. UNCHANGED <<current, kept, KeptIds>> /\ (Eligible(current) => Eligible(current)')
    BY <1>3 DEF Retold, KeptIds, Eligible
  <2>3. Stage = "told" /\ Stage' = "told" /\ Sound
    BY <1>3 DEF Retold
  <2> QED BY <1>1, <1>3, <2>1, <2>2, <2>3 DEF ArchiveInv
<1>4. ASSUME pc' = "aborting" PROVE ArchiveInv'
  <2>1. ~Sound' /\ current' = current
    BY <1>4 DEF Sound, Quiet
  <2>2. CASE Sound
    BY <1>1, <2>1, <2>2 DEF ArchiveInv, KeptIds
  <2>3. CASE pc = "aborting"
    BY <1>1, <2>1, <2>3 DEF ArchiveInv
  <2> QED BY <2>2, <2>3 DEF Live, Sound
<1>5. CASE ~Sound' /\ pc' # "aborting"
  BY <1>5 DEF ArchiveInv
<1> QED BY <1>2, <1>3, <1>4, <1>5 DEF Quiet

LEMMA QuietMatch ==
  ASSUME RecordsStay, MatchInv, Sound' => Sound
  PROVE  MatchInv'
<1>1. UNCHANGED <<archived, History, RecordedAsTaken>>
  BY SetsStay DEF RecordsStay
<1> QED BY <1>1 DEF MatchInv, Tells

(* The ids of a stream that is longer by a row.                            *)
LEMMA RowsMore ==
  ASSUME NEW R, NEW rows \in Seq(R), NEW row \in R, NEW more, more = Append(rows, row)
  PROVE  /\ IdsOf(more) = IdsOf(rows) \cup {row.id}
         /\ Len(rows) \in Nat /\ DOMAIN rows = 1 .. Len(rows) /\ DOMAIN more = 1 .. Len(rows) + 1
         /\ \A i \in DOMAIN rows : i \in DOMAIN more /\ more[i] = rows[i] /\ i <= Len(rows)
         /\ Len(rows) + 1 \in DOMAIN more /\ more[Len(rows) + 1] = row
         /\ \A i \in DOMAIN more : i \in DOMAIN rows \/ i = Len(rows) + 1
<1>1. /\ Len(rows) \in Nat /\ DOMAIN rows = 1 .. Len(rows) /\ DOMAIN more = 1 .. Len(rows) + 1
      /\ \A i \in 1 .. Len(rows) : more[i] = rows[i]
      /\ more[Len(rows) + 1] = row
  BY AppendIs
<1>2. \A i \in DOMAIN rows : i \in DOMAIN more /\ more[i] = rows[i] /\ i <= Len(rows)
  BY <1>1
<1>3. Len(rows) + 1 \in DOMAIN more
  BY <1>1
<1>4. \A i \in DOMAIN more : i \in DOMAIN rows \/ i = Len(rows) + 1
  BY <1>1
<1> DEFINE last == Len(rows) + 1
<1>5. IdsOf(more) = IdsOf(rows) \cup {row.id}
  <2>1. last \in DOMAIN more /\ more[last] = row /\ \A i \in DOMAIN more : i \in DOMAIN rows \/ i = last
    BY <1>1, <1>3, <1>4
  <2> HIDE DEF last
  <2> QED BY <1>2, <2>1 DEF IdsOf
<1> QED BY <1>1, <1>2, <1>3, <1>4, <1>5

(* An admission is in the archive before its event is logged.              *)
LEMMA AdmitSets ==
  ASSUME Base, NEW outcome \in Outcomes, NEW admitted \in BOOLEAN, AdmitCurrent(admitted, outcome)
  PROVE  /\ archived' = (IF admitted THEN archived \cup {current} ELSE archived)
         /\ admitted => Eligible(current)
         /\ Taken' = Taken \cup (IF admitted THEN {current.id} ELSE {})
         /\ current.id \notin Taken
         /\ EventedAsTaken' = EventedAsTaken \cup
              (IF admitted /\ outcome # "refused" THEN {current.id} ELSE {})
         /\ History' = History /\ FailureHistory' = FailureHistory
         /\ RecordedAsTaken' = RecordedAsTaken /\ UNCHANGED <<current, logged, failures>>
         /\ kept' = admitted
<1>1. /\ archived' = (IF admitted THEN archived \cup {current} ELSE archived)
      /\ admitted => Eligible(current)
      /\ kept' = admitted
      /\ UNCHANGED <<current, logged, failures>>
      /\ current.id \notin Taken
  BY DEF AdmitCurrent, Admit, Taken
<1>2. Taken' = Taken \cup (IF admitted THEN {current.id} ELSE {})
  BY <1>1 DEF Taken
<1>3. History' = History /\ FailureHistory' = FailureHistory
  BY OtherStreams DEF History, FailureHistory, Streams
<1>4. RecordedAsTaken' = RecordedAsTaken
  BY <1>3 DEF RecordedAsTaken
<1> DEFINE row == [type |-> "admission", number |-> admissions + 1, id |-> current.id,
                   reason |-> AdmissionReason(current, admitted), run |-> run]
<1>5. /\ files' = WithRow("archive_events", row, outcome)
      /\ row.type = "admission" /\ row.id = current.id
      /\ row.reason = "retained" <=> admitted
  <2>1. files' = WithRow("archive_events", row, outcome)
    BY DEF AdmitCurrent, Admit
  <2>2. AdmissionReason(current, admitted) = "retained" <=> admitted
    <3>1. CASE Eligible(current)
      <4>1. current.score \in Int /\ Threshold \in Int
        BY AdmitFlow, ArtifactsAssumption DEF Base, Going, Candidates
      <4>2. current.valid /\ ~(current.score < Threshold)
        BY <3>1, <4>1 DEF Eligible
      <4> QED BY <4>2 DEF AdmissionReason
    <3>2. CASE ~Eligible(current)
      <4>1. ~admitted
        BY <1>1, <3>2
      <4>2. CASE ~current.valid
        BY <4>1, <4>2 DEF AdmissionReason
      <4>3. CASE current.valid /\ ~(current.score >= Threshold)
        <5>1. current.score < Threshold
          <6>1. current.score \in Int /\ Threshold \in Int
            BY AdmitFlow, ArtifactsAssumption DEF Base, Going, Candidates
          <6> QED BY <4>3, <6>1
        <5> QED BY <4>1, <4>3, <5>1 DEF AdmissionReason
      <4> QED BY <3>2, <4>2, <4>3 DEF Eligible
    <3> QED BY <3>1, <3>2
  <2> QED BY <2>1, <2>2
<1> HIDE DEF row
<1>6. EventedAsTaken' = EventedAsTaken \cup
        (IF admitted /\ outcome # "refused" THEN {current.id} ELSE {})
  <2> DEFINE new == Events'
             n == Len(Events) + 1
  <2>1. FilesOK(files) /\ "archive_events" \in Streams
    BY DEF Base, TypeOK, Streams
  <2>2. EventedAsTaken = {Events[i].id : i \in {j \in Of("admission", Events) : Events[j].reason = "retained"}}
    BY DEF EventedAsTaken, Events
  <2>3. EventedAsTaken' = {new[i].id : i \in {j \in Of("admission", new) : new[j].reason = "retained"}}
    BY DEF EventedAsTaken, Events, new
  <2>4. CASE outcome = "refused"
    <3>1. new = Events
      BY <1>5, <2>1, <2>4, AppendedRow DEF Events, new
    <3> QED BY <2>2, <2>3, <2>4, <3>1
  <2>5. CASE outcome # "refused"
    <3>1. /\ DOMAIN new = 1 .. Len(Events) + 1 /\ Len(Events) \in Nat
          /\ DOMAIN Events = 1 .. Len(Events)
          /\ \A i \in DOMAIN Events : new[i] = Events[i]
          /\ new[n] = row
      BY <1>5, <2>1, <2>5, AppendedRow DEF Events, new
    <3>2. /\ \A i \in DOMAIN Events : i \in DOMAIN new /\ i # n
          /\ n \in DOMAIN new
          /\ \A i \in DOMAIN new : i \in DOMAIN Events \/ i = n
      BY <3>1
    <3> HIDE DEF new, n
    <3>3. ASSUME NEW x
          PROVE  x \in EventedAsTaken' <=>
                   \E i \in DOMAIN new : /\ new[i].type = "admission" /\ new[i].reason = "retained"
                                         /\ new[i].id = x
      BY <2>3 DEF Of
    <3>4. ASSUME NEW x
          PROVE  x \in EventedAsTaken <=>
                   \E i \in DOMAIN Events : /\ Events[i].type = "admission"
                                            /\ Events[i].reason = "retained"
                                            /\ Events[i].id = x
      BY <2>2 DEF Of
    <3>5. ASSUME NEW x
          PROVE  x \in EventedAsTaken' <=> x \in EventedAsTaken \/ (admitted /\ x = current.id)
      BY <1>5, <3>1, <3>2, <3>3, <3>4
    <3>6. CASE admitted
      <4>1. EventedAsTaken' = EventedAsTaken \cup {current.id}
        BY <3>5, <3>6
      <4> QED BY <2>5, <3>6, <4>1
    <3>7. CASE ~admitted
      <4>1. EventedAsTaken' = EventedAsTaken
        BY <3>5, <3>7
      <4> QED BY <3>7, <4>1
    <3> QED BY <3>6, <3>7
  <2> QED BY <2>4, <2>5
<1> QED BY <1>1, <1>2, <1>3, <1>4, <1>6

(* An admission, a failure and a row of history keep what is said of the   *)
(* archive.                                                                *)
LEMMA AdmitArchive ==
  ASSUME Base, NEW outcome \in Outcomes, NEW admitted \in BOOLEAN, AdmitCurrent(admitted, outcome),
         ArchiveInv, MatchInv
  PROVE  ArchiveInv' /\ MatchInv'
<1>1. /\ pc = "running" /\ Stage = "before" /\ Sound
      /\ Steps(outcome, {IF Fails(admitted) THEN "due" ELSE "told"})
  BY AdmitFlow DEF Base, Going, Sound
<1>2. EventedAsTaken = Taken /\ Taken = RecordedAsTaken
  BY <1>1 DEF ArchiveInv
<1>3. /\ archived' = (IF admitted THEN archived \cup {current} ELSE archived)
      /\ admitted => Eligible(current)
      /\ Taken' = Taken \cup (IF admitted THEN {current.id} ELSE {})
      /\ current.id \notin Taken
      /\ EventedAsTaken' = EventedAsTaken \cup
           (IF admitted /\ outcome # "refused" THEN {current.id} ELSE {})
      /\ History' = History
      /\ RecordedAsTaken' = RecordedAsTaken /\ current' = current
      /\ kept' = admitted
  BY AdmitSets
<1>4. CASE outcome = "written"
  <2>1. pc' = "running" /\ Stage' \in {"due", "told"}
    BY <1>1, <1>4 DEF Steps
  <2>2. KeptIds' = IF admitted THEN {current.id} ELSE {}
    BY <1>3 DEF KeptIds
  <2>3. kept' => current' \in archived' /\ Eligible(current)'
    BY <1>3 DEF Eligible
  <2>4. \A a \in archived' : a.id = current'.id => a = current'
    BY <1>3 DEF Taken
  <2>5. ArchiveInv'
    BY <1>2, <1>3, <1>4, <2>1, <2>2, <2>3, <2>4 DEF ArchiveInv
  <2>6. MatchInv'
    <3>1. ASSUME NEW a \in archived', a.id \in RecordedAsTaken PROVE a \in archived
      BY <1>2, <1>3, <3>1
    <3> QED BY <1>1, <1>3, <3>1 DEF MatchInv, Tells
  <2> QED BY <2>5, <2>6
<1>5. CASE outcome # "written"
  <2>1. pc' = "aborting" /\ ~Sound'
    BY <1>1, <1>5 DEF Steps, Sound
  <2> QED BY <1>2, <1>3, <2>1 DEF ArchiveInv, MatchInv
<1> QED BY <1>4, <1>5

LEMMA FailureArchive ==
  ASSUME Base, NEW outcome \in Outcomes, RecordFailure(outcome), ArchiveInv, MatchInv
  PROVE  ArchiveInv' /\ MatchInv'
<1>1. /\ pc = "running" /\ Sound
      /\ \/ Stage = "due" /\ Steps(outcome, {"told"})
         \/ Stage = "failed" /\ Steps(outcome, {"between"})
  BY FailureFlow DEF Base, Going, Sound
<1>2. archived' = archived /\ History' = History /\ files'["archive_events"] = files["archive_events"]
  BY OtherStreams DEF History, Streams
<1>3. UNCHANGED <<Taken, RecordedAsTaken, EventedAsTaken, KeptIds, current, kept>>
  BY <1>2 DEF Taken, RecordedAsTaken, EventedAsTaken, KeptIds, RecordFailure, Of
<1>4. CASE outcome = "written"
  <2>1. pc' = "running" /\ ((Stage = "due" /\ Stage' = "told") \/ (Stage = "failed" /\ Stage' = "between"))
    BY <1>1, <1>4 DEF Steps
  <2> QED BY <1>1, <1>2, <1>3, <2>1 DEF ArchiveInv, MatchInv, Tells, Eligible
<1>5. CASE outcome # "written"
  <2>1. pc' = "aborting" /\ ~Sound'
    BY <1>1, <1>5 DEF Steps, Sound
  <2> QED BY <1>1, <1>3, <2>1 DEF ArchiveInv, MatchInv, KeptIds
<1> QED BY <1>4, <1>5

(* The row of the candidate in history.                                    *)
LEMMA LogSets ==
  ASSUME Base, NEW outcome \in Outcomes, LogProgram(outcome), NEW row,
         row = [id |-> current.id, admitted |-> kept, valid |-> current.valid,
                score |-> current.score, parent |-> current.parent, paths |-> current.paths,
                run |-> run]
  PROVE  /\ row \in HistoryRows /\ History \in Seq(HistoryRows)
         /\ outcome = "refused" => History' = History
         /\ outcome # "refused" => History' = Append(History, row)
         /\ current.id \notin Range(logged)
         /\ logged' = IF outcome = "written" THEN Append(logged, current.id) ELSE logged
         /\ UNCHANGED <<current, kept, archived, failures, FailureHistory, EventedAsTaken, Taken>>
<1>1. /\ files' = WithRow("history", row, outcome)
      /\ current.id \notin Range(logged) /\ UNCHANGED <<current, kept>>
      /\ logged' = IF outcome = "written" THEN Append(logged, current.id) ELSE logged
  BY DEF LogProgram, Log
<1>2. /\ FilesOK(files) /\ "history" \in Streams /\ "failure_history" \in Streams
      /\ "archive_events" \in Streams /\ run \in Nat /\ kept \in BOOLEAN /\ current \in Candidates
  BY LogFlow DEF Base, TypeOK, Streams, ControlType, Going
<1>3. row \in HistoryRows
  BY <1>2 DEF Candidates, HistoryRows
<1>4. /\ archived' = archived /\ failures' = failures
      /\ files'["failure_history"] = files["failure_history"]
      /\ files'["archive_events"] = files["archive_events"]
  BY <1>2, OtherStreams
<1>5. UNCHANGED <<FailureHistory, EventedAsTaken, Taken>>
  BY <1>4 DEF FailureHistory, EventedAsTaken, Taken, Of
<1>6. /\ outcome = "refused" => files'["history"] = files["history"]
      /\ outcome # "refused" => files'["history"] = Append(files["history"], row)
  BY <1>1, <1>2, AppendedRow
<1>7. History \in Seq(HistoryRows)
  BY <1>2 DEF FilesOK, History
<1> QED BY <1>1, <1>3, <1>4, <1>5, <1>6, <1>7 DEF History

LEMMA LogArchive ==
  ASSUME Base, NEW outcome \in Outcomes, LogProgram(outcome), ArchiveInv, MatchInv
  PROVE  ArchiveInv' /\ MatchInv'
<1>1. /\ pc = "running" /\ Sound /\ Stage = "told" /\ Steps(outcome, {"between", "after"})
  BY LogFlow DEF Base, Going, Sound
<1> DEFINE row == [id |-> current.id, admitted |-> kept, valid |-> current.valid,
                   score |-> current.score, parent |-> current.parent, paths |-> current.paths,
                   run |-> run]
<1>2. /\ row.id = current.id /\ row.admitted = kept /\ row.valid = current.valid
      /\ row.score = current.score
  OBVIOUS
<1>3. /\ row \in HistoryRows /\ History \in Seq(HistoryRows)
      /\ outcome = "refused" => History' = History
      /\ outcome # "refused" => History' = Append(History, row)
      /\ UNCHANGED <<current, kept, archived, EventedAsTaken, Taken>>
  BY LogSets
<1> HIDE DEF row
<1>4. /\ EventedAsTaken = Taken /\ Taken = RecordedAsTaken \cup KeptIds
      /\ kept => current \in archived /\ Eligible(current)
      /\ \A a \in archived : a.id = current.id => a = current
  BY <1>1 DEF ArchiveInv
<1>5. outcome # "refused" => RecordedAsTaken' = RecordedAsTaken \cup KeptIds
  <2> SUFFICES ASSUME outcome # "refused" PROVE RecordedAsTaken' = RecordedAsTaken \cup KeptIds
    OBVIOUS
  <2> DEFINE new == History'
             n == Len(History) + 1
  <2>1. new = Append(History, row)
    BY <1>3
  <2> HIDE DEF new
  <2>2. /\ \A i \in DOMAIN History : i \in DOMAIN new /\ new[i] = History[i]
        /\ n \in DOMAIN new /\ new[n] = row
        /\ \A i \in DOMAIN new : i \in DOMAIN History \/ i = n
    BY <1>3, <2>1, RowsMore
  <2>3. RecordedAsTaken' = {new[i].id : i \in {j \in DOMAIN new : new[j].admitted}}
    BY DEF RecordedAsTaken, new
  <2> HIDE DEF n
  <2>4. ASSUME NEW x PROVE x \in RecordedAsTaken' <=> x \in RecordedAsTaken \/ (kept /\ x = current.id)
    BY <1>2, <2>2, <2>3 DEF RecordedAsTaken
  <2>5. CASE kept
    BY <2>4, <2>5 DEF KeptIds
  <2>6. CASE ~kept
    <3>1. RecordedAsTaken' = RecordedAsTaken
      BY <2>4, <2>6
    <3> QED BY <2>6, <3>1 DEF KeptIds
  <2> QED BY <2>5, <2>6
<1>6. CASE outcome = "written"
  <2>1. pc' = "running" /\ Stage' \in {"between", "after"} /\ outcome # "refused"
    BY <1>1, <1>6 DEF Steps
  <2>2. ArchiveInv'
    BY <1>3, <1>4, <1>5, <2>1 DEF ArchiveInv
  <2> DEFINE new == History'
             n == Len(History) + 1
  <2>3. new = Append(History, row)
    BY <1>3, <2>1
  <2>4. /\ \A i \in DOMAIN History : i \in DOMAIN new /\ new[i] = History[i]
        /\ n \in DOMAIN new /\ new[n] = row
        /\ \A i \in DOMAIN new : i \in DOMAIN History \/ i = n
    <3> HIDE DEF new
    <3> QED BY <1>3, <2>3, RowsMore
  <2> HIDE DEF n
  <2>5. ASSUME NEW i \in DOMAIN new, new[i].admitted PROVE \E a \in archived : Tells(new[i], a)
    <3>1. CASE i \in DOMAIN History
      BY <1>1, <2>4, <2>5, <3>1 DEF MatchInv
    <3>2. CASE i = n
      <4>1. kept /\ new[i] = row
        BY <1>2, <2>4, <2>5, <3>2
      <4>2. Tells(new[i], current)
        BY <1>2, <1>4, <4>1 DEF Tells, Eligible
      <4> QED BY <1>4, <4>1, <4>2
    <3> QED BY <2>4, <3>1, <3>2
  <2>6. ASSUME NEW a \in archived, a.id \in RecordedAsTaken \cup KeptIds
        PROVE  \E i \in DOMAIN new : Tells(new[i], a)
    <3>1. CASE a.id \in RecordedAsTaken
      BY <1>1, <2>4, <3>1 DEF MatchInv
    <3>2. CASE a.id \in KeptIds
      <4>1. kept /\ a = current
        BY <1>4, <3>2 DEF KeptIds
      <4>2. Tells(new[n], a)
        BY <1>2, <1>4, <2>4, <4>1 DEF Tells, Eligible
      <4> QED BY <2>4, <4>2
    <3> QED BY <2>6, <3>1, <3>2
  <2>7. MatchInv'
    BY <1>3, <1>5, <2>1, <2>5, <2>6 DEF MatchInv, Tells, new
  <2> QED BY <2>2, <2>7
<1>7. CASE outcome # "written"
  <2>1. pc' = "aborting" /\ ~Sound'
    BY <1>1, <1>7 DEF Steps, Sound
  <2>2. RecordedAsTaken' = RecordedAsTaken \/ RecordedAsTaken' = RecordedAsTaken \cup KeptIds
    BY <1>3, <1>5 DEF RecordedAsTaken
  <2> QED BY <1>3, <1>4, <2>1, <2>2 DEF ArchiveInv, MatchInv, KeptIds
<1> QED BY <1>6, <1>7

(***************************************************************************)
(* A step, by what it does to the records.                                 *)
(***************************************************************************)
(* A run that has just opened: no records.                                 *)
Opened ==
  /\ pc' = "running" /\ Stage' \in {"opening", "between"} /\ current' = NoCandidate
  /\ archived' = {} /\ logged' = <<>> /\ failures' = <<>>
  /\ \A s \in Streams : files'[s] = <<>>

(* A step is quiet, tells of the candidate, loses the run, or opens one.   *)
LEMMA StepIs ==
  ASSUME Base, Fresh, [Next]_vars
  PROVE  \/ Live /\ Quiet /\ (Sound' => Sound)
         \/ \E outcome \in Outcomes :
              \/ \E admitted \in BOOLEAN : AdmitCurrent(admitted, outcome)
              \/ RecordFailure(outcome) \/ LogProgram(outcome)
         \/ pc' \in {"clearing", "off"} /\ ~Sound'
         \/ Opened
         \/ UNCHANGED vars
<1>1. CASE Turns \/ ExportSteps
  BY <1>1, TurnsBase, ExportBase, QuietTurns, QuietExports, SoundBefore
<1>2. ASSUME NEW outcome \in Outcomes, Logging(outcome),
             \A admitted \in BOOLEAN : ~AdmitCurrent(admitted, outcome),
             ~RecordFailure(outcome), ~LogProgram(outcome)
      PROVE  Live /\ Quiet /\ (Sound' => Sound)
  BY <1>2, LoggingLive, QuietLogging, SoundBefore
<1>3. CASE Kill
  BY <1>3, KilledUnsound
<1>4. ASSUME (\E policy \in Policies : Claim(policy)) \/ Clear
      PROVE  pc' = "clearing" /\ ~Sound'
  <2>1. pc' = "clearing"
    BY <1>4, ClearFlow DEF Claim, Base
  <2> QED BY <2>1 DEF Sound
<1>5. CASE OpenRun
  <2>1. /\ pc' = "running" /\ Stage' \in {"opening", "between"} /\ pc = "clearing"
        /\ \A s \in Streams : files'[s] = <<>>
    BY <1>5, OpenFlow DEF Base
  <2>2. current' = NoCandidate /\ archived' = {} /\ logged' = <<>> /\ failures' = <<>>
    BY <1>5, <2>1 DEF OpenRun, Fresh, memory
  <2> QED BY <2>1, <2>2 DEF Opened
<1> QED BY <1>1, <1>2, <1>3, <1>4, <1>5, NextIs

LEMMA NoRecords ==
  ASSUME Opened
  PROVE  /\ History' = <<>> /\ FailureHistory' = <<>>
         /\ Taken' = {} /\ RecordedAsTaken' = {} /\ EventedAsTaken' = {} /\ ToldOf' = {} /\ Short' = {}
<1>1. History' = <<>> /\ FailureHistory' = <<>> /\ files'["archive_events"] = <<>>
  BY DEF Opened, History, FailureHistory, Streams
<1> QED BY <1>1 DEF Opened, Taken, RecordedAsTaken, EventedAsTaken, Of, ToldOf, Short, IdsOf

LEMMA RecordsUntouched ==
  ASSUME UNCHANGED vars
  PROVE  /\ UNCHANGED <<pc, current, kept, archived, logged, failures, History, FailureHistory>>
         /\ UNCHANGED <<Stage, Sound, Live, EventedAsTaken, Taken, RecordedAsTaken>>
<1>1. UNCHANGED <<pc, todo, run, fates, current, kept, archived, logged, failures, files>>
  BY DEF vars, directory, memory, control
<1> QED
  BY <1>1 DEF History, FailureHistory, Stage, Sound, Live, Fate, EventedAsTaken, Taken,
    RecordedAsTaken, Of

(* What is said of the archive is inductive.                               *)
LEMMA ArchiveNext ==
  ASSUME Base, Fresh, ArchiveInv, MatchInv, [Next]_vars
  PROVE  ArchiveInv' /\ MatchInv'
<1>1. CASE Live /\ Quiet /\ (Sound' => Sound)
  BY <1>1, QuietArchive, QuietMatch DEF Quiet
<1>2. ASSUME NEW outcome \in Outcomes,
             \/ \E admitted \in BOOLEAN : AdmitCurrent(admitted, outcome)
             \/ RecordFailure(outcome) \/ LogProgram(outcome)
      PROVE  ArchiveInv' /\ MatchInv'
  BY <1>2, AdmitArchive, FailureArchive, LogArchive
<1>3. CASE pc' \in {"clearing", "off"} /\ ~Sound'
  BY <1>3 DEF ArchiveInv, MatchInv
<1>4. CASE Opened
  <2>1. /\ Stage' \notin {"due", "told"} /\ pc' # "aborting" /\ archived' = {}
        /\ DOMAIN History' = {} /\ Taken' = {} /\ RecordedAsTaken' = {} /\ EventedAsTaken' = {}
    <3>1. DOMAIN <<>> = {}
      OBVIOUS
    <3> QED BY <1>4, <3>1, NoRecords DEF Opened
  <2>2. ArchiveInv'
    BY <2>1 DEF ArchiveInv
  <2>3. MatchInv'
    BY <2>1 DEF MatchInv
  <2> QED BY <2>2, <2>3
<1>5. CASE UNCHANGED vars
  BY <1>5, RecordsUntouched DEF ArchiveInv, MatchInv, KeptIds, Eligible, Tells
<1> QED BY <1>1, <1>2, <1>3, <1>4, <1>5, StepIs

(* Between candidates and after them, no record is due.                    *)
LEMMA WholeIs ==
  ASSUME Base, Whole
  PROVE  Sound /\ Stage \notin {"before", "failed", "due", "told"}
<1>1. CASE Between
  BY <1>1, ShortStages DEF Between, Sound, Stage
<1>2. CASE pc = "finishing"
  <2>1. InLast
    BY <1>2 DEF Base, Control
  <2>2. Stage \in LastStages
    <3>1. \A k \in 1 .. 4 : Terminal[k] \in LastStages
      BY DEF Terminal, LastStages
    <3> QED BY <2>1, <3>1, LastStagesAre DEF InLast, Stage, LastStages
  <2> QED BY <1>2, <2>2 DEF Sound, LastStages
<1>3. CASE pc = "off" /\ Fate = "completed"
  <2>1. todo = <<>>
    BY <1>3 DEF Base, Control
  <2> QED BY <1>3, <2>1, ShortStages DEF Sound, Stage
<1> QED BY <1>1, <1>2, <1>3 DEF Whole

LEMMA ArchiveMeans ==
  ASSUME Base, ArchiveInv
  PROVE  ArchiveIsRecorded
<1>1. Whole => Sound /\ Stage \notin {"due", "told"}
  BY WholeIs
<1>2. Whole => RecordedAsTaken = Taken /\ EventedAsTaken = Taken
  BY <1>1 DEF ArchiveInv
<1>3. ASSUME Live
      PROVE  /\ RecordedAsTaken \subseteq EventedAsTaken /\ EventedAsTaken \subseteq Taken
             /\ Taken \ {current.id} \subseteq RecordedAsTaken
  <2>1. CASE Sound
    BY <2>1 DEF ArchiveInv, KeptIds
  <2>2. CASE pc = "aborting"
    BY <2>2 DEF ArchiveInv
  <2> QED BY <1>3, <2>1, <2>2 DEF Live, Sound
<1> QED BY <1>2, <1>3 DEF ArchiveIsRecorded

(* ArchiveIsRecorded: the files never name a program the archive does not  *)
(* have, and the archive is ahead of them by the candidate in hand at      *)
(* most.                                                                   *)
THEOREM ArchiveStaysRecorded == Spec => []ArchiveIsRecorded
<1> DEFINE Inv == Base /\ Fresh /\ ArchiveInv /\ MatchInv
<1>1. Init => Inv
  <2>1. Init => pc = "off" /\ ~Sound
    BY DEF Init, EmptyDirectory, Sound, Fate
  <2> QED BY <2>1, BaseInit, FreshInit DEF ArchiveInv, MatchInv
<1>2. Inv /\ [Next]_vars => Inv'
  <2> SUFFICES ASSUME Inv, [Next]_vars PROVE Inv'
    OBVIOUS
  <2> QED BY BaseNext, FreshNext, ArchiveNext
<1>3. Inv => ArchiveIsRecorded
  BY ArchiveMeans
<1> QED BY <1>1, <1>2, <1>3, PTL DEF Spec

(***************************************************************************)
(* Every candidate is told of.                                             *)
(***************************************************************************)
(* A quiet step, and an admission.                                         *)
LEMMA QuietCover ==
  ASSUME Base, Quiet, CoverInv, Sound' => Sound
  PROVE  CoverInv'
<1> SUFFICES ASSUME Sound' PROVE CoverInv'
  BY DEF CoverInv
<1>1. /\ UNCHANGED <<ToldOf, Short, IdsOf(FailureHistory), failures, FailureHistory, History, logged>>
  BY SetsStay DEF Quiet, RecordsStay
<1>2. /\ Stage # "told" => ToldOf = 0 .. Level
      /\ Stage = "told" => /\ ToldOf \in {0 .. current.id - 1, 0 .. current.id}
                           /\ ~Eligible(current) => current.id \in IdsOf(FailureHistory)
      /\ Short \subseteq IdsOf(FailureHistory)
      /\ failures = FailureHistory
      /\ logged = [i \in DOMAIN History |-> History[i].id]
  BY DEF CoverInv
<1>3. /\ Stage' # "told" => ToldOf' = 0 .. Level'
      /\ Stage' = "told" => /\ ToldOf' \in {0 .. current'.id - 1, 0 .. current'.id}
                            /\ ~Eligible(current)' => current'.id \in IdsOf(FailureHistory)'
  <2>1. CASE Calm
    BY <1>1, <1>2, <2>1 DEF Calm
  <2>2. CASE Retold
    BY <1>1, <1>2, <2>2 DEF Retold, Eligible
  <2> QED BY <2>1, <2>2 DEF Quiet
<1>4. Short' \subseteq IdsOf(FailureHistory)'
  BY <1>1, <1>2
<1>5. failures' = FailureHistory' /\ logged' = [i \in DOMAIN History' |-> History'[i].id]
  BY <1>1, <1>2
<1> QED BY <1>3, <1>4, <1>5 DEF CoverInv

LEMMA QuietCount ==
  ASSUME Live, RecordsStay, CountInv
  PROVE  CountInv'
BY DEF RecordsStay, CountInv, Alike, RepeatsAnId

LEMMA AdmitCover ==
  ASSUME Base, NEW outcome \in Outcomes, NEW admitted \in BOOLEAN, AdmitCurrent(admitted, outcome),
         CoverInv, CountInv
  PROVE  CoverInv' /\ CountInv'
<1>1. /\ pc = "running" /\ Stage = "before" /\ Sound /\ Live /\ current.id \in Int
      /\ Steps(outcome, {IF Fails(admitted) THEN "due" ELSE "told"})
  BY AdmitFlow, IdIs DEF Base, Going, Sound, Live
<1>2. /\ admitted => Eligible(current)
      /\ History' = History /\ FailureHistory' = FailureHistory
      /\ UNCHANGED <<current, logged, failures>>
  BY AdmitSets
<1>3. CountInv'
  BY <1>1, <1>2 DEF CountInv, Alike, RepeatsAnId
<1>4. CASE outcome = "written"
  <2>1. Stage' = IF Fails(admitted) THEN "due" ELSE "told"
    BY <1>1, <1>4 DEF Steps
  <2>2. ~Fails(admitted) => Eligible(current)
    BY <1>2 DEF Fails
  <2>3. Level = current.id - 1 /\ ToldOf = 0 .. current.id - 1
    BY <1>1 DEF CoverInv, Level
  <2>4. ToldOf' = ToldOf /\ Short' = Short /\ IdsOf(FailureHistory)' = IdsOf(FailureHistory)
        /\ Eligible(current)' = Eligible(current)
    BY <1>2 DEF ToldOf, Short, IdsOf, Eligible
  <2>5. Stage' # "told" => ToldOf' = 0 .. Level'
    BY <1>2, <2>1, <2>3, <2>4 DEF Level
  <2>6. Stage' = "told" => /\ ToldOf' \in {0 .. current'.id - 1, 0 .. current'.id}
                           /\ ~Eligible(current)' => current'.id \in IdsOf(FailureHistory)'
    BY <1>2, <2>1, <2>2, <2>3, <2>4
  <2>7. /\ Short' \subseteq IdsOf(FailureHistory)'
        /\ failures' = FailureHistory'
        /\ logged' = [i \in DOMAIN History' |-> History'[i].id]
    BY <1>1, <1>2, <2>4 DEF CoverInv
  <2> QED BY <1>3, <2>5, <2>6, <2>7 DEF CoverInv
<1>5. CASE outcome # "written"
  BY <1>1, <1>3, <1>5 DEF Steps, CoverInv, Sound
<1> QED BY <1>4, <1>5

(* The rows of a fingerprint.                                              *)
Printed(rows, print) == {i \in DOMAIN rows : rows[i].print = print}
(* The rows of the same fingerprint, with a row more.                      *)
LEMMA AlikeMore ==
  ASSUME NEW R, NEW rows \in Seq(R), NEW row \in R, NEW more, more = Append(rows, row)
  PROVE  /\ \A i \in DOMAIN rows : Alike(more, i) = Alike(rows, i)
         /\ Cardinality(Alike(more, Len(rows) + 1)) = Cardinality(Printed(rows, row.print)) + 1
<1> DEFINE n == Len(rows) + 1
           old == {i \in DOMAIN rows : rows[i].print = row.print}
<1>1. /\ Len(rows) \in Nat /\ DOMAIN rows = 1 .. Len(rows)
      /\ \A i \in DOMAIN rows : more[i] = rows[i]
      /\ more[n] = row
  BY RowsMore
<1>2. ASSUME NEW i \in DOMAIN rows PROVE Alike(more, i) = Alike(rows, i)
  <2>1. \A j \in 1 .. i : more[j] = rows[j] /\ i \in 1 .. i
    BY <1>1
  <2> QED BY <2>1 DEF Alike
<1>3. Alike(more, n) = old \cup {n} /\ n \notin old
  <2>1. \A j : j \in 1 .. n <=> j \in DOMAIN rows \/ j = n
    BY <1>1
  <2>2. n \notin DOMAIN rows
    BY <1>1
  <2> HIDE DEF n
  <2> QED BY <1>1, <2>1, <2>2 DEF Alike
<1>4. IsFiniteSet(old)
  <2>1. IsFiniteSet(1 .. Len(rows))
    BY <1>1, FS_Interval
  <2>2. old \subseteq 1 .. Len(rows)
    BY <1>1
  <2> QED BY <2>1, <2>2, FS_Subset
<1> HIDE DEF old
<1>5. Cardinality(old \cup {n}) = Cardinality(old) + 1
  BY <1>3, <1>4, FS_AddElement
<1> QED BY <1>2, <1>3, <1>5 DEF old, Printed

(* A new id repeats none.                                                  *)
LEMMA IdsMore ==
  ASSUME NEW R, NEW rows \in Seq(R), NEW row \in R, NEW more, more = Append(rows, row),
         ~RepeatsAnId(rows), row.id \notin IdsOf(rows)
  PROVE  ~RepeatsAnId(more)
<1> DEFINE n == Len(rows) + 1
<1>1. /\ \A i \in DOMAIN rows : more[i] = rows[i]
      /\ more[n] = row
      /\ \A i \in DOMAIN more : i \in DOMAIN rows \/ i = n
  BY RowsMore
<1> HIDE DEF n
<1> SUFFICES ASSUME NEW i \in DOMAIN more, NEW j \in DOMAIN more, i # j, more[i].id = more[j].id
             PROVE  FALSE
  BY DEF RepeatsAnId
<1>2. CASE i \in DOMAIN rows /\ j \in DOMAIN rows
  BY <1>1, <1>2 DEF RepeatsAnId
<1>3. CASE i = n \/ j = n
  BY <1>1, <1>3 DEF IdsOf
<1> QED BY <1>1, <1>2, <1>3

(* A failure is told, then a row of history.                               *)
LEMMA FailureCover ==
  ASSUME Base, NEW outcome \in Outcomes, RecordFailure(outcome), CoverInv, CountInv
  PROVE  CoverInv' /\ CountInv'
<1>1. /\ Going /\ pc = "running" /\ Sound /\ Live /\ current.id \in Int /\ current.id >= 0
      /\ \/ Stage = "due" /\ Steps(outcome, {"told"})
         \/ Stage = "failed" /\ Steps(outcome, {"between"})
  BY FailureFlow, IdIs DEF Base, Going, Sound, Live
<1> DEFINE row == FailureRow(current)
<1>2. /\ files' = WithRow("failure_history", row, outcome)
      /\ current.id \notin {failures[i].id : i \in DOMAIN failures}
      /\ failures' = IF outcome = "written" THEN Append(failures, row) ELSE failures
      /\ current' = current
  BY DEF RecordFailure, LogFailure
<1>3. /\ row \in FailureRows /\ row.id = current.id /\ row.print = current.print
      /\ row.count = Repetitions(row.print) + 1
  BY <1>1, RowTypes DEF Going, Base, FailureRow
<1> HIDE DEF row
<1>4. FilesOK(files) /\ "failure_history" \in Streams /\ "history" \in Streams
  BY DEF Base, TypeOK, Streams
<1>5. /\ FailureHistory \in Seq(FailureRows)
      /\ outcome = "refused" => FailureHistory' = FailureHistory
      /\ outcome # "refused" => FailureHistory' = Append(FailureHistory, row)
  BY <1>2, <1>4, AppendedRow DEF FailureHistory, FilesOK
<1>6. logged' = logged /\ History' = History
  BY <1>4, OtherStreams DEF History
<1>7. /\ failures = FailureHistory
      /\ logged = [i \in DOMAIN History |-> History[i].id]
      /\ Short \subseteq IdsOf(FailureHistory)
      /\ ToldOf = 0 .. current.id - 1
  BY <1>1 DEF CoverInv, Level
<1>8. /\ \A i \in DOMAIN FailureHistory :
           FailureHistory[i].count = Cardinality(Alike(FailureHistory, i))
      /\ ~RepeatsAnId(History) /\ ~RepeatsAnId(FailureHistory)
  BY <1>1 DEF CountInv
<1>9. current.id \notin IdsOf(FailureHistory)
  BY <1>2, <1>7 DEF IdsOf
<1>10. CountInv'
  <2>1. CASE outcome = "refused"
    BY <1>5, <1>6, <1>8, <2>1 DEF CountInv
  <2>2. CASE outcome # "refused"
    <3> DEFINE new == FailureHistory'
               n == Len(FailureHistory) + 1
    <3>1. new = Append(FailureHistory, row)
      BY <1>5, <2>2
    <3> HIDE DEF new
    <3>2. ~RepeatsAnId(new)
      BY <1>3, <1>5, <1>8, <1>9, <3>1, IdsMore
    <3>3. /\ \A i \in DOMAIN FailureHistory : new[i] = FailureHistory[i]
          /\ new[n] = row
          /\ \A i \in DOMAIN new : i \in DOMAIN FailureHistory \/ i = n
      BY <1>3, <1>5, <3>1, RowsMore
    <3>4. /\ \A i \in DOMAIN FailureHistory : Alike(new, i) = Alike(FailureHistory, i)
          /\ Cardinality(Alike(new, n)) = Cardinality(Printed(FailureHistory, row.print)) + 1
      <4> DEFINE old == FailureHistory
      <4>1. old \in Seq(FailureRows) /\ new = Append(old, row) /\ row \in FailureRows
        BY <1>3, <1>5, <3>1
      <4> HIDE DEF old
      <4>2. /\ \A i \in DOMAIN old : Alike(new, i) = Alike(old, i)
            /\ Cardinality(Alike(new, Len(old) + 1)) = Cardinality(Printed(old, row.print)) + 1
        BY <4>1, AlikeMore
      <4> QED BY <4>2 DEF old
    <3>5. row.count = Cardinality(Printed(FailureHistory, row.print)) + 1
      BY <1>3, <1>7 DEF Repetitions, Printed
    <3> HIDE DEF n
    <3>6. \A i \in DOMAIN new : new[i].count = Cardinality(Alike(new, i))
      BY <1>8, <3>3, <3>4, <3>5
    <3> QED BY <1>6, <1>8, <3>2, <3>6 DEF CountInv, new
  <2> QED BY <2>1, <2>2
<1>11. CASE outcome = "written"
  <2>1. /\ Stage' \in {"told", "between"} /\ FailureHistory' = Append(FailureHistory, row)
        /\ failures' = FailureHistory'
    BY <1>1, <1>2, <1>5, <1>7, <1>11 DEF Steps
  <2> DEFINE new == FailureHistory'
  <2>2. new = Append(FailureHistory, row)
    BY <2>1
  <2> HIDE DEF new
  <2>3. IdsOf(new) = IdsOf(FailureHistory) \cup {current.id}
    <3>1. IdsOf(new) = IdsOf(FailureHistory) \cup {row.id}
      <4> DEFINE old == FailureHistory
      <4>1. old \in Seq(FailureRows) /\ new = Append(old, row) /\ row \in FailureRows
        BY <1>3, <1>5, <2>2
      <4> HIDE DEF old
      <4>2. IdsOf(new) = IdsOf(old) \cup {row.id}
        BY <4>1, RowsMore
      <4> QED BY <4>2 DEF old
    <3> QED BY <1>3, <3>1
  <2>4. ToldOf' = ToldOf \cup {current.id} /\ Short' = Short
    <3>1. ToldOf' = IdsOf(History) \cup IdsOf(new)
      BY <1>6 DEF ToldOf, new, IdsOf
    <3>2. Short' = Short
      BY <1>6 DEF Short, Eligible
    <3> QED BY <2>3, <3>1, <3>2 DEF ToldOf
  <2>5. ToldOf' = 0 .. current'.id
    <3>1. (0 .. current.id - 1) \cup {current.id} = 0 .. current.id
      BY <1>1
    <3> QED BY <1>2, <1>7, <2>4, <3>1
  <2>6. Level' = current'.id
    BY <2>1 DEF Level
  <2>7. IdsOf(FailureHistory)' = IdsOf(new)
    BY DEF IdsOf, new
  <2>8. current'.id \in IdsOf(FailureHistory)' /\ Short' \subseteq IdsOf(FailureHistory)'
    BY <1>2, <1>7, <2>3, <2>4, <2>7
  <2>9. logged' = [i \in DOMAIN History' |-> History'[i].id]
    BY <1>6, <1>7
  <2> QED BY <1>10, <2>1, <2>5, <2>6, <2>8, <2>9 DEF CoverInv
<1>12. CASE outcome # "written"
  BY <1>1, <1>10, <1>12 DEF Steps, CoverInv, Sound
<1> QED BY <1>11, <1>12

LEMMA LogCover ==
  ASSUME Base, NEW outcome \in Outcomes, LogProgram(outcome), CoverInv, CountInv
  PROVE  CoverInv' /\ CountInv'
<1>1. /\ Going /\ pc = "running" /\ Sound /\ Live /\ current.id \in Int /\ current.id >= 0
      /\ Stage = "told" /\ Steps(outcome, {"between", "after"})
  BY LogFlow, IdIs DEF Base, Going, Sound, Live
<1> DEFINE row == [id |-> current.id, admitted |-> kept, valid |-> current.valid,
                   score |-> current.score, parent |-> current.parent, paths |-> current.paths,
                   run |-> run]
<1>2. row.id = current.id /\ row.valid = current.valid /\ row.score = current.score
  OBVIOUS
<1>3. /\ row \in HistoryRows /\ History \in Seq(HistoryRows)
      /\ outcome = "refused" => History' = History
      /\ outcome # "refused" => History' = Append(History, row)
      /\ current.id \notin Range(logged)
      /\ logged' = IF outcome = "written" THEN Append(logged, current.id) ELSE logged
      /\ UNCHANGED <<current, failures, FailureHistory>>
  BY LogSets
<1> HIDE DEF row
<1>4. /\ failures = FailureHistory
      /\ logged = [i \in DOMAIN History |-> History[i].id]
      /\ Short \subseteq IdsOf(FailureHistory)
      /\ ToldOf \in {0 .. current.id - 1, 0 .. current.id}
      /\ ~Eligible(current) => current.id \in IdsOf(FailureHistory)
  BY <1>1 DEF CoverInv
<1>5. /\ \A i \in DOMAIN FailureHistory :
           FailureHistory[i].count = Cardinality(Alike(FailureHistory, i))
      /\ ~RepeatsAnId(History) /\ ~RepeatsAnId(FailureHistory)
  BY <1>1 DEF CountInv
<1>6. current.id \notin IdsOf(History)
  BY <1>3, <1>4 DEF IdsOf, Range
<1>7. CountInv'
  <2>1. CASE outcome = "refused"
    BY <1>3, <1>5, <2>1 DEF CountInv
  <2>2. CASE outcome # "refused"
    <3> DEFINE new == History'
    <3>1. new = Append(History, row)
      BY <1>3, <2>2
    <3> HIDE DEF new
    <3>2. ~RepeatsAnId(new)
      BY <1>2, <1>3, <1>5, <1>6, <3>1, IdsMore
    <3> QED BY <1>3, <1>5, <3>2 DEF CountInv, new
  <2> QED BY <2>1, <2>2
<1>8. CASE outcome = "written"
  <2> DEFINE new == History'
             n == Len(History) + 1
  <2>1. new = Append(History, row) /\ Stage' \in {"between", "after"}
    BY <1>1, <1>3, <1>8 DEF Steps
  <2> HIDE DEF new
  <2>2. /\ IdsOf(new) = IdsOf(History) \cup {row.id}
        /\ \A i \in DOMAIN History : i \in DOMAIN new /\ new[i] = History[i]
        /\ n \in DOMAIN new /\ new[n] = row
        /\ \A i \in DOMAIN new : i \in DOMAIN History \/ i = n
        /\ Len(History) \in Nat /\ DOMAIN History = 1 .. Len(History)
        /\ DOMAIN new = 1 .. Len(History) + 1
    <3> DEFINE old == History
    <3>1. old \in Seq(HistoryRows) /\ new = Append(old, row) /\ row \in HistoryRows
      BY <1>3, <2>1
    <3> HIDE DEF old
    <3>2. IdsOf(new) = IdsOf(old) \cup {row.id}
      BY <3>1, RowsMore
    <3>3. /\ \A i \in DOMAIN old : i \in DOMAIN new /\ new[i] = old[i]
          /\ Len(old) + 1 \in DOMAIN new /\ new[Len(old) + 1] = row
      BY <3>1, RowsMore
    <3>4. \A i \in DOMAIN new : i \in DOMAIN old \/ i = Len(old) + 1
      BY <3>1, RowsMore
    <3>5. /\ Len(old) \in Nat /\ DOMAIN old = 1 .. Len(old)
          /\ DOMAIN new = 1 .. Len(old) + 1
      BY <3>1
    <3> QED BY <3>2, <3>3, <3>4, <3>5 DEF old
  <2>3. ToldOf' = 0 .. current'.id
    <3>1. ToldOf' = IdsOf(new) \cup IdsOf(FailureHistory)
      BY <1>3 DEF ToldOf, IdsOf, new
    <3>2. ToldOf' = ToldOf \cup {current.id}
      BY <1>2, <2>2, <3>1 DEF ToldOf
    <3>3. (0 .. current.id - 1) \cup {current.id} = 0 .. current.id
      BY <1>1
    <3>4. (0 .. current.id) \cup {current.id} = 0 .. current.id
      BY <1>1
    <3> QED BY <1>3, <1>4, <3>2, <3>3, <3>4
  <2>4. Level' = current'.id /\ Stage' # "told"
    BY <2>1 DEF Level
  <2>5. Short' \subseteq IdsOf(FailureHistory)'
    <3>1. IdsOf(FailureHistory)' = IdsOf(FailureHistory)
      BY <1>3 DEF IdsOf
    <3>2. Short' = {new[i].id : i \in {j \in DOMAIN new : ~Eligible(new[j])}}
      BY DEF Short, Eligible, new
    <3> HIDE DEF n
    <3>3. ASSUME NEW i \in DOMAIN new, ~Eligible(new[i]) PROVE new[i].id \in IdsOf(FailureHistory)
      <4>1. CASE i \in DOMAIN History
        <5>1. History[i].id \in Short
          BY <2>2, <3>3, <4>1 DEF Short
        <5> QED BY <1>4, <2>2, <4>1, <5>1
      <4>2. CASE i = n
        BY <1>2, <1>4, <2>2, <3>3, <4>2 DEF Eligible
      <4> QED BY <2>2, <4>1, <4>2
    <3> QED BY <3>1, <3>2, <3>3
  <2>6. logged' = [i \in DOMAIN History' |-> History'[i].id]
    <3> DEFINE l == logged'
               m == [i \in DOMAIN new |-> new[i].id]
    <3>1. /\ logged \in Seq(Int) /\ Len(logged) = Len(History)
          /\ \A i \in 1 .. Len(History) : logged[i] = History[i].id
      <4>1. logged \in Seq(Int)
        BY DEF Base, TypeOK, MemoryType
      <4>2. DOMAIN logged = 1 .. Len(History)
        BY <1>4, <2>2
      <4>3. \A i \in 1 .. Len(History) : logged[i] = History[i].id
        BY <1>4, <2>2
      <4>4. Len(logged) = Len(History)
        BY <2>2, <4>1, <4>2
      <4> QED BY <4>1, <4>3, <4>4
    <3>2. l = Append(logged, current.id)
      BY <1>3, <1>8
    <3> HIDE DEF l
    <3>3. /\ l \in Seq(Int) /\ Len(l) = n
          /\ \A i \in 1 .. Len(History) : l[i] = History[i].id
          /\ l[n] = current.id
      BY <1>1, <3>1, <3>2, AppendIs
    <3>4. l = [i \in 1 .. n |-> l[i]]
      BY <3>3
    <3>5. \A i \in 1 .. n : l[i] = new[i].id
      <4>1. \A i \in DOMAIN History : l[i] = new[i].id
        BY <2>2, <3>3
      <4>2. l[n] = new[n].id
        BY <1>2, <2>2, <3>3
      <4>3. \A i \in 1 .. n : i \in DOMAIN History \/ i = n
        BY <2>2
      <4> HIDE DEF n
      <4> QED BY <4>1, <4>2, <4>3
    <3>6. DOMAIN new = 1 .. n
      BY <2>2
    <3> HIDE DEF n
    <3>7. l = m
      BY <3>4, <3>5, <3>6
    <3> QED BY <3>7 DEF l, m, new
  <2> QED BY <1>3, <1>4, <1>7, <2>3, <2>4, <2>5, <2>6 DEF CoverInv
<1>9. CASE outcome # "written"
  BY <1>1, <1>7, <1>9 DEF Steps, CoverInv, Sound
<1> QED BY <1>8, <1>9

(* What is said of the candidates told of is inductive.                    *)
LEMMA CoverNext ==
  ASSUME Base, Fresh, CoverInv, CountInv, [Next]_vars
  PROVE  CoverInv' /\ CountInv'
<1>1. CASE Live /\ Quiet /\ (Sound' => Sound)
  BY <1>1, QuietCover, QuietCount DEF Quiet
<1>2. ASSUME NEW outcome \in Outcomes,
             \/ \E admitted \in BOOLEAN : AdmitCurrent(admitted, outcome)
             \/ RecordFailure(outcome) \/ LogProgram(outcome)
      PROVE  CoverInv' /\ CountInv'
  BY <1>2, AdmitCover, FailureCover, LogCover
<1>3. CASE pc' \in {"clearing", "off"} /\ ~Sound'
  BY <1>3 DEF CoverInv, CountInv, Live
<1>4. CASE Opened
  <2>1. /\ Stage' # "told" /\ Level' = -1 /\ History' = <<>> /\ FailureHistory' = <<>>
        /\ ToldOf' = {} /\ Short' = {} /\ failures' = <<>> /\ logged' = <<>>
    BY <1>4, NoRecords DEF Opened, Level, NoCandidate
  <2>2. DOMAIN <<>> = {} /\ 0 .. -1 = {}
    OBVIOUS
  <2>3. [i \in DOMAIN History' |-> History'[i].id] = <<>>
    <3>1. \A f : DOMAIN f = {} /\ f = [x \in DOMAIN f |-> f[x]] => f = <<>>
      BY <2>2
    <3> QED BY <2>1, <2>2, <3>1
  <2>4. CoverInv'
    BY <2>1, <2>2, <2>3 DEF CoverInv
  <2>5. CountInv'
    BY <2>1, <2>2 DEF CountInv, RepeatsAnId
  <2> QED BY <2>4, <2>5
<1>5. CASE UNCHANGED vars
  <2>1. /\ UNCHANGED <<pc, current, kept, archived, logged, failures, History, FailureHistory>>
        /\ UNCHANGED <<Stage, Sound, Live>>
    BY <1>5, RecordsUntouched
  <2> QED
    BY <2>1 DEF CoverInv, CountInv, Alike, RepeatsAnId, ToldOf, Short, IdsOf, Level, Eligible
<1> QED BY <1>1, <1>2, <1>3, <1>4, <1>5, StepIs

(***************************************************************************)
(* The finalization: what the runtime section says at each stage of it,    *)
(* and what the manifest says once the run is over.                        *)
(***************************************************************************)
Pointed == runtime.artifacts = PointersTo(files)
ExportTrue ==
  runtime.export = "completed" =>
    /\ export.at = "completed" /\ export.program \in Best
    /\ \A p \in Places : tree[p] = export.program
Finished ==
  /\ RuntimeShape(runtime)
  /\ runtime.status = "completed" /\ runtime.history = HistorySummary /\ Pointed /\ ExportTrue
Finalizing ==
  pc \in {"finishing", "aborting"} /\ Stage # "stop" =>
    /\ RuntimeShape(runtime)
    /\ runtime.status = IF pc = "finishing" THEN "completed" ELSE "aborted"
    /\ Stage \in {"export", "exporting", "history"} =>
         runtime.artifacts = Nothing /\ runtime.history = Nothing
    /\ Stage \in {"export", "exporting"} => runtime.export = "none"
    /\ Stage = "manifest" => runtime.artifacts = Nothing \/ Pointed
    /\ Stage = "exporting" => export # Idle /\ export.program \in Best
    /\ pc = "finishing" /\ Stage = "history" => ExportTrue
    /\ pc = "finishing" /\ Stage = "manifest" => Finished
Finalized ==
  /\ pc = "off" /\ Fate = "completed" => manifest = [run |-> run, runtime |-> runtime] /\ Finished
  /\ pc = "off" /\ Fate = "aborted" =>
       \/ manifest = [run |-> run, runtime |-> Nothing]
       \/ /\ manifest = [run |-> run, runtime |-> runtime]
          /\ RuntimeShape(runtime) /\ runtime.status = "aborted"
          /\ runtime.artifacts = Nothing \/ Pointed
  /\ pc = "off" /\ Fate = "killed" => manifest = [run |-> run, runtime |-> Nothing]
LastInv == Finalizing /\ Finalized

(* The steps of the finalization, and the others.                          *)
LEMMA LastStepIs ==
  ASSUME Base, [Next]_vars
  PROVE  \/ pc' \in {"running", "clearing"}
         \/ pc' \in {"finishing", "aborting"} /\ Stage' = "stop"
         \/ Kill \/ ExportSteps \/ EndExport
         \/ \E outcome \in Outcomes :
              LogStop(outcome) \/ SummarizeHistory(outcome) \/ FinishManifest(outcome)
         \/ UNCHANGED vars
<1> DEFINE Idly == \/ pc' \in {"running", "clearing"}
                   \/ pc' \in {"finishing", "aborting"} /\ Stage' = "stop"
<1>1. ASSUME NEW policy \in Policies, Claim(policy) PROVE Idly
  BY <1>1 DEF Claim
<1>2. CASE Clear
  BY <1>2, ClearFlow DEF Base
<1>3. CASE OpenRun
  BY <1>3, OpenFlow DEF Base
<1>4. CASE Turns /\ ~EndExport
  <2>1. ASSUME NEW valid \in BOOLEAN, NEW score \in Scores, NEW print \in Prints,
               NEW paths \in PathKinds, Seed(valid, score, print, paths)
        PROVE  Idly
    BY <2>1, SeedFlow DEF Base
  <2>2. ASSUME NEW valid \in BOOLEAN, NEW score \in Scores, NEW print \in Prints,
               NEW parent \in archived, NEW prompt \in Selectable,
               Propose(valid, score, print, parent, prompt)
        PROVE  Idly
    BY <2>2, ProposeFlow DEF Base
  <2>3. CASE NoCallLeft
    BY <2>3, NoCallFlow DEF Base
  <2>4. CASE Reraise
    BY <2>4, ReraiseFlow DEF Base
  <2>5. CASE Finish
    BY <2>5, FinishFlow DEF Base
  <2>6. CASE Interrupt
    BY <2>6, InterruptFlow DEF Base
  <2> QED BY <1>4, <2>1, <2>2, <2>3, <2>4, <2>5, <2>6 DEF Turns
<1>5. ASSUME NEW outcome \in Outcomes, Logging(outcome),
             ~LogStop(outcome), ~SummarizeHistory(outcome), ~FinishManifest(outcome)
      PROVE  Idly
  <2> DEFINE Onto == \E stages : Going /\ Steps(outcome, stages)
  <2>1. Onto => Idly
    BY DEF Going, Steps
  <2>2. CASE AddPrompt(outcome)
    <3>1. pc = "running" /\ Steps(outcome, {"opening", "between"})
      BY <2>2, PromptFlow DEF Base
    <3> QED BY <3>1 DEF Steps
  <2>3. ASSUME NEW kind \in {"seed_evaluation", "generation_started", "candidate_evaluation",
                             "generation_completed"}, BudgetEvent(kind, outcome)
        PROVE  Idly
    BY <2>1, <2>3, BudgetFlow DEF Base
  <2>4. ASSUME NEW ending \in {"answered", "failed", "interrupted"}, CallModel(outcome, ending)
        PROVE  Idly
    BY <2>4, CallFlow DEF Base
  <2>5. ASSUME NEW caught \in BOOLEAN, LogCallEvent(outcome, caught)
        PROVE  Idly
    BY <2>5, CallEventFlow DEF Base
  <2>6. ASSUME NEW admitted \in BOOLEAN, AdmitCurrent(admitted, outcome)
        PROVE  Idly
    BY <2>1, <2>6, AdmitFlow DEF Base
  <2>7. CASE RecordFailure(outcome)
    BY <2>1, <2>7, FailureFlow DEF Base
  <2>8. CASE LogReward(outcome)
    BY <2>1, <2>8, RewardFlow DEF Base
  <2>9. CASE LogProgram(outcome)
    BY <2>1, <2>9, LogFlow DEF Base
  <2>10. CASE ScorePrompt(outcome)
    BY <2>1, <2>10, ResultFlow DEF Base
  <2>11. CASE Migrate(outcome)
    BY <2>1, <2>11, MigrateFlow DEF Base
  <2> HIDE DEF Onto, Idly
  <2> QED
    BY <1>5, <2>2, <2>3, <2>4, <2>5, <2>6, <2>7, <2>8, <2>9, <2>10, <2>11 DEF Logging
<1> QED BY <1>1, <1>2, <1>3, <1>4, <1>5, NextIs

(* What stands in the runtime once the summary is written, and once the    *)
(* export ended.                                                           *)
LEMMA RuntimeSet ==
  ASSUME NEW r, RuntimeShape(r), NEW h, NEW a, NEW e
  PROVE  /\ [r EXCEPT !.history = h, !.artifacts = a] =
              [status |-> r.status, history |-> h, artifacts |-> a, export |-> r.export]
         /\ [r EXCEPT !.export = e] =
              [status |-> r.status, history |-> r.history, artifacts |-> r.artifacts, export |-> e]
<1>1. \A f : RuntimeShape(f) => /\ RuntimeShape([f EXCEPT !.history = h])
                                /\ [f EXCEPT !.history = h].status = f.status
                                /\ [f EXCEPT !.history = h].history = h
                                /\ [f EXCEPT !.history = h].artifacts = f.artifacts
                                /\ [f EXCEPT !.history = h].export = f.export
  BY DEF RuntimeShape
<1>2. \A f : RuntimeShape(f) => /\ RuntimeShape([f EXCEPT !.artifacts = a])
                                /\ [f EXCEPT !.artifacts = a].status = f.status
                                /\ [f EXCEPT !.artifacts = a].history = f.history
                                /\ [f EXCEPT !.artifacts = a].artifacts = a
                                /\ [f EXCEPT !.artifacts = a].export = f.export
  BY DEF RuntimeShape
<1>3. \A f : RuntimeShape(f) => /\ RuntimeShape([f EXCEPT !.export = e])
                                /\ [f EXCEPT !.export = e].status = f.status
                                /\ [f EXCEPT !.export = e].history = f.history
                                /\ [f EXCEPT !.export = e].artifacts = f.artifacts
                                /\ [f EXCEPT !.export = e].export = e
  BY DEF RuntimeShape
<1> DEFINE g == [r EXCEPT !.history = h]
           k == [g EXCEPT !.artifacts = a]
           l == [r EXCEPT !.export = e]
<1>4. k = [r EXCEPT !.history = h, !.artifacts = a]
  OBVIOUS
<1>5. RuntimeShape(g) /\ g.status = r.status /\ g.history = h /\ g.export = r.export
  BY <1>1
<1>6. RuntimeShape(l) /\ l.status = r.status /\ l.history = r.history /\ l.artifacts = r.artifacts
      /\ l.export = e
  BY <1>3
<1> HIDE DEF g, l
<1>7. RuntimeShape(k) /\ k.status = r.status /\ k.history = h /\ k.artifacts = a
      /\ k.export = r.export
  BY <1>2, <1>5
<1> HIDE DEF k
<1>8. k = [status |-> r.status, history |-> h, artifacts |-> a, export |-> r.export]
  BY <1>7 DEF RuntimeShape
<1>9. l = [status |-> r.status, history |-> r.history, artifacts |-> r.artifacts, export |-> e]
  BY <1>6 DEF RuntimeShape
<1> QED BY <1>4, <1>8, <1>9 DEF l

(* The operations of the finalization, one by one.                         *)
LEMMA StopLast ==
  ASSUME Base, NEW outcome, LogStop(outcome)
  PROVE  LastInv'
<1>1. /\ pc' \in {"finishing", "aborting"}
      /\ Stage' # "stop" => Stage' = "export" /\ pc' = pc
      /\ RuntimeShape(runtime')
  BY StopFlow DEF Base
<1>2. runtime' = [status |-> IF pc = "finishing" THEN "completed" ELSE "aborted",
                  history |-> Nothing, artifacts |-> Nothing, export |-> "none"]
  BY DEF LogStop
<1>3. Finalizing'
  BY <1>1, <1>2 DEF Finalizing
<1> QED BY <1>1, <1>3 DEF LastInv, Finalized

LEMMA ExportLast ==
  ASSUME Base, ExportSteps, Finalizing
  PROVE  LastInv'
<1>1. /\ UNCHANGED <<archived, runtime>> /\ pc' \in {"finishing", "aborting"}
  BY ExportBase DEF memory, ExportSteps, StartExport, Export, ExportFails, ExportInterrupted, control
<1>2. Best' = Best
  BY <1>1 DEF Best
<1>3. CASE StartExport
  <2>1. /\ pc \in {"finishing", "aborting"} /\ Stage = "export" /\ pc' = pc
        /\ \/ Stage' = "history"
           \/ Stage' = "exporting" /\ export'.program \in Best /\ export' # Idle
    <3>1. ASSUME NEW b, BeginExport(b) PROVE export' # Idle
      <4>1. export'.at = "body" /\ Idle.at = "idle"
        BY <3>1 DEF BeginExport, Idle
      <4> QED BY <4>1
    <3> QED BY <1>3, <3>1, StartExportFlow DEF Base
  <2>2. /\ RuntimeShape(runtime)
        /\ runtime.status = IF pc = "finishing" THEN "completed" ELSE "aborted"
        /\ runtime.artifacts = Nothing /\ runtime.history = Nothing /\ runtime.export = "none"
    BY <2>1 DEF Finalizing
  <2>3. ExportTrue'
    BY <1>1, <2>2 DEF ExportTrue
  <2>4. Finalizing'
    BY <1>1, <1>2, <2>1, <2>2, <2>3 DEF Finalizing
  <2> QED BY <1>1, <2>4 DEF LastInv, Finalized
<1>4. CASE Export \/ ExportFails
  <2>1. /\ pc \in {"finishing", "aborting"} /\ Stage = "exporting" /\ pc' = pc
        /\ Stage' = "exporting" /\ export'.program = export.program /\ export' # Idle
    BY <1>4, ExportFlow DEF Base
  <2>2. Finalizing'
    BY <1>1, <1>2, <2>1 DEF Finalizing
  <2> QED BY <1>1, <2>2 DEF LastInv, Finalized
<1>5. CASE ExportInterrupted
  <2>1. /\ pc \in {"finishing", "aborting"} /\ Stage = "exporting" /\ pc' = "aborting"
        /\ pc = "finishing" => Stage' = "stop"
        /\ pc = "aborting" => Stage' = "history"
    BY <1>5, ExportInterruptedFlow DEF Base
  <2>2. Finalizing'
    BY <1>1, <2>1 DEF Finalizing
  <2> QED BY <1>1, <2>2 DEF LastInv, Finalized
<1> QED BY <1>3, <1>4, <1>5 DEF ExportSteps

LEMMA EndExportLast ==
  ASSUME Base, PairInv, EndExport, Finalizing
  PROVE  LastInv'
<1>1. /\ pc \in {"finishing", "aborting"} /\ Stage = "exporting" /\ pc' = pc /\ Stage' = "history"
      /\ UNCHANGED <<archived, tree, export>> /\ runtime' = [runtime EXCEPT !.export = export.at]
  BY EndExportFlow DEF Base, EndExport, memory, directory, promptsAndExport
<1>2. /\ RuntimeShape(runtime)
      /\ runtime.status = IF pc = "finishing" THEN "completed" ELSE "aborted"
      /\ runtime.artifacts = Nothing /\ runtime.history = Nothing
      /\ export # Idle /\ export.program \in Best
  BY <1>1 DEF Finalizing
<1>3. /\ RuntimeShape(runtime') /\ runtime'.status = runtime.status
      /\ runtime'.history = Nothing /\ runtime'.artifacts = Nothing
      /\ runtime'.export = export.at
  <2>1. runtime' = [status |-> runtime.status, history |-> runtime.history,
                    artifacts |-> runtime.artifacts, export |-> export.at]
    BY <1>1, <1>2, RuntimeSet
  <2> QED BY <1>2, <2>1 DEF RuntimeShape
<1>4. export.at = "completed" => NewPair
  <2>1. pc # "clearing" /\ Fate # "cleared"
    BY <1>1 DEF Base, FateOK, Live
  <2>2. PairBody
    BY <1>2, <2>1 DEF PairInv
  <2> QED BY <2>2 DEF PairBody, PairAfter
<1>5. Best' = Best
  BY <1>1 DEF Best
<1>6. ExportTrue'
  BY <1>1, <1>2, <1>3, <1>4, <1>5 DEF ExportTrue, NewPair, Places
<1>7. Finalizing'
  BY <1>1, <1>2, <1>3, <1>6 DEF Finalizing
<1> QED BY <1>1, <1>7 DEF LastInv, Finalized

LEMMA HistoryLast ==
  ASSUME Base, NEW outcome, SummarizeHistory(outcome), Finalizing
  PROVE  LastInv'
<1>1. /\ pc \in {"finishing", "aborting"} /\ Stage = "history"
      /\ outcome = "written" => pc' = pc /\ Stage' = "manifest"
      /\ outcome # "written" => /\ pc' = "aborting"
                                /\ pc = "finishing" => Stage' = "stop"
                                /\ pc = "aborting" => Stage' = "manifest"
  BY HistoryFlow DEF Base
<1>2. /\ UNCHANGED <<archived, logged, failures, tree, export>>
      /\ outcome = "written" =>
           /\ files' = WithResults(EvaluatorResults)
           /\ runtime' = [runtime EXCEPT !.history = HistorySummary,
                                         !.artifacts = PointersTo(WithResults(EvaluatorResults))]
      /\ outcome # "written" => runtime' = runtime
  BY DEF SummarizeHistory, memory, promptsAndExport
<1>3. /\ RuntimeShape(runtime)
      /\ runtime.status = IF pc = "finishing" THEN "completed" ELSE "aborted"
      /\ runtime.artifacts = Nothing
      /\ pc = "finishing" => ExportTrue
  BY <1>1 DEF Finalizing
<1>4. CASE outcome = "written"
  <2>1. /\ RuntimeShape(runtime') /\ runtime'.status = runtime.status
        /\ runtime'.history = HistorySummary /\ runtime'.export = runtime.export
        /\ runtime'.artifacts = PointersTo(WithResults(EvaluatorResults))
    <3>1. runtime' = [status |-> runtime.status, history |-> HistorySummary,
                      artifacts |-> PointersTo(WithResults(EvaluatorResults)),
                      export |-> runtime.export]
      BY <1>2, <1>3, <1>4, RuntimeSet
    <3> QED BY <3>1 DEF RuntimeShape
  <2>2. HistorySummary' = HistorySummary
    BY <1>2 DEF HistorySummary, FailureIndex, Repetitions, LastRepetition
  <2>3. PointersTo(files)' = PointersTo(WithResults(EvaluatorResults))
    BY <1>2, <1>4 DEF PointersTo
  <2>4. Pointed'
    BY <2>1, <2>3 DEF Pointed
  <2>5. pc = "finishing" => ExportTrue'
    <3>1. Best' = Best
      BY <1>2 DEF Best
    <3> QED BY <1>2, <1>3, <2>1, <3>1 DEF ExportTrue
  <2>6. pc' = "finishing" => Finished'
    BY <1>1, <1>3, <1>4, <2>1, <2>2, <2>4, <2>5 DEF Finished
  <2>7. Finalizing'
    BY <1>1, <1>3, <1>4, <2>1, <2>4, <2>6 DEF Finalizing
  <2> QED BY <1>1, <1>4, <2>7 DEF LastInv, Finalized
<1>5. CASE outcome # "written"
  <2>1. Finalizing'
    BY <1>1, <1>2, <1>3, <1>5 DEF Finalizing
  <2> QED BY <1>1, <1>5, <2>1 DEF LastInv, Finalized
<1> QED BY <1>4, <1>5

LEMMA ManifestLast ==
  ASSUME Base, Base', NEW outcome, FinishManifest(outcome), Finalizing
  PROVE  LastInv'
<1>1. /\ pc \in {"finishing", "aborting"} /\ Stage = "manifest" /\ UNCHANGED <<runtime, run>>
      /\ \/ /\ outcome = "written" \/ pc = "aborting"
            /\ pc' = "off"
            /\ fates' = [fates EXCEPT ![run] = IF pc = "finishing" THEN "completed" ELSE "aborted"]
         \/ outcome # "written" /\ pc = "finishing" /\ pc' = "aborting" /\ Stage' = "stop"
  BY ManifestFlow DEF Base
<1>2. /\ UNCHANGED <<files, tree, archived, logged, failures, export>>
      /\ manifest' = IF outcome = "written" THEN [manifest EXCEPT !.runtime = runtime] ELSE manifest
  BY DEF FinishManifest, WriteManifest, directory, memory, promptsAndExport
<1>3. /\ run \in Nat /\ run >= 1 /\ fates \in Seq(FateNames) /\ Len(fates) = run
      /\ manifest = [run |-> run, runtime |-> Nothing]
  BY <1>1 DEF Base, FateOK, Live, TypeOK, ControlType
<1>4. CASE pc' = "off"
  <2>1. outcome = "written" \/ pc = "aborting"
    BY <1>1, <1>4
  <2>2. Fate' = IF pc = "finishing" THEN "completed" ELSE "aborted"
    <3>1. run \in DOMAIN fates /\ run # 0
      BY <1>3
    <3>2. fates'[run] = IF pc = "finishing" THEN "completed" ELSE "aborted"
      BY <1>1, <1>4, <3>1
    <3> QED BY <1>1, <3>1, <3>2 DEF Fate
  <2>3. /\ RuntimeShape(runtime)
        /\ runtime.status = IF pc = "finishing" THEN "completed" ELSE "aborted"
        /\ runtime.artifacts = Nothing \/ Pointed
        /\ pc = "finishing" => Finished
    BY <1>1 DEF Finalizing
  <2>4. manifest' = IF outcome = "written" THEN [run |-> run, runtime |-> runtime]
                    ELSE [run |-> run, runtime |-> Nothing]
    BY <1>2, <1>3
  <2>5. HistorySummary' = HistorySummary /\ Best' = Best /\ PointersTo(files)' = PointersTo(files)
    BY <1>2 DEF HistorySummary, FailureIndex, Repetitions, LastRepetition, Best, PointersTo
  <2>6. Pointed' = Pointed
    BY <1>1, <2>5 DEF Pointed
  <2>7. Finished => Finished'
    BY <1>1, <1>2, <2>5, <2>6 DEF Finished, ExportTrue
  <2>8. Finalized'
    BY <1>1, <1>4, <2>1, <2>2, <2>3, <2>4, <2>6, <2>7 DEF Finalized
  <2> QED BY <1>4, <2>8 DEF LastInv, Finalizing
<1>5. CASE pc' # "off"
  BY <1>1, <1>5 DEF LastInv, Finalizing, Finalized
<1> QED BY <1>4, <1>5

LEMMA KillLast ==
  ASSUME Base, Kill
  PROVE  LastInv'
<1>1. /\ pc # "off" /\ pc' = "off" /\ manifest' = manifest /\ run' = run /\ run \in Nat
      /\ pc = "clearing" => Fate' = Fate
      /\ pc # "clearing" /\ run # 0 => Fate' = "killed"
  BY KillFlow DEF Base, Kill, directory, TypeOK, ControlType
<1>2. CASE pc = "clearing"
  BY <1>1, <1>2 DEF Base, FateOK, LastInv, Finalizing, Finalized
<1>3. CASE pc # "clearing"
  <2>1. Live
    BY <1>1, <1>3 DEF Base, TypeOK, ControlType, Parts, Live
  <2>2. run >= 1 /\ manifest = [run |-> run, runtime |-> Nothing]
    BY <2>1 DEF Base, FateOK
  <2>3. run # 0
    BY <1>1, <2>2
  <2>4. Fate' = "killed"
    BY <1>1, <1>3, <2>3
  <2> QED BY <1>1, <2>2, <2>4 DEF LastInv, Finalizing, Finalized
<1> QED BY <1>2, <1>3

(* What is said of the finalization is inductive.                          *)
LEMMA LastNext ==
  ASSUME Base, PairInv, LastInv, [Next]_vars
  PROVE  LastInv'
<1>1. Base' /\ Finalizing
  BY BaseNext DEF LastInv
<1>2. CASE \/ pc' \in {"running", "clearing"}
           \/ pc' \in {"finishing", "aborting"} /\ Stage' = "stop"
  BY <1>2 DEF LastInv, Finalizing, Finalized
<1>3. ASSUME NEW outcome \in Outcomes,
             LogStop(outcome) \/ SummarizeHistory(outcome) \/ FinishManifest(outcome)
      PROVE  LastInv'
  BY <1>1, <1>3, StopLast, HistoryLast, ManifestLast
<1>4. CASE UNCHANGED vars
  <2>1. UNCHANGED <<files, manifest, tree, run, archived, logged, failures, export, pc, todo,
                    runtime, fates>>
    BY <1>4 DEF vars, directory, memory, control
  <2>2. UNCHANGED <<Fate, Stage, HistorySummary, Best, PointersTo(files)>>
    BY <2>1 DEF Fate, Stage, HistorySummary, FailureIndex, Repetitions,
           LastRepetition, Best, PointersTo
  <2>3. UNCHANGED <<Pointed, ExportTrue, Finished>>
    BY <2>1, <2>2 DEF Pointed, ExportTrue, Finished
  <2> QED BY <2>1, <2>2, <2>3 DEF LastInv, Finalizing, Finalized
<1> QED BY <1>1, <1>2, <1>3, <1>4, LastStepIs, KillLast, ExportLast, EndExportLast

(* The natural numbers are well founded.                                   *)
LEMMA LeastNumber ==
  ASSUME NEW S \in SUBSET Nat, S # {}
  PROVE  \E i \in S : \A j \in S : i <= j
<1>1. IsWellFoundedOn(OpToRel(<, Nat), Nat)
  BY NatLessThanWellFounded
<1>2. PICK i \in S : \A j \in S : ~(<<j, i>> \in OpToRel(<, Nat))
  BY <1>1, WFMin
<1>3. \A j \in S : ~(j < i)
  BY <1>2 DEF OpToRel
<1> QED BY <1>3

(* Among finitely many rows one has the top score.                         *)
LEMMA TopExists ==
  ASSUME NEW n \in Nat, NEW S \in SUBSET (1 .. n), S # {}, NEW f, \A i \in S : f[i] \in Int
  PROVE  \E i \in S : \A j \in S : f[j] <= f[i]
<1> DEFINE Topped(k) == \E i \in S : i <= k /\ \A j \in S : j <= k => f[j] <= f[i]
           bad == {k \in 1 .. n : (\E i \in S : i <= k) /\ ~Topped(k)}
<1>1. bad = {}
  <2> SUFFICES ASSUME bad # {} PROVE FALSE
    OBVIOUS
  <2>1. bad \in SUBSET Nat
    OBVIOUS
  <2> HIDE DEF bad
  <2>2. PICK k \in bad : \A m \in bad : k <= m
    BY <2>1, LeastNumber
  <2>3. k \in 1 .. n /\ (\E i \in S : i <= k) /\ ~Topped(k)
    BY DEF bad
  <2>4. CASE \E i \in S : i <= k - 1
    <3>1. k - 1 \in 1 .. n
      BY <2>3, <2>4
    <3>2. k - 1 \notin bad
      BY <2>2, <2>3
    <3>3. Topped(k - 1)
      BY <2>4, <3>1, <3>2 DEF bad
    <3>4. PICK i \in S : i <= k - 1 /\ \A j \in S : j <= k - 1 => f[j] <= f[i]
      BY <3>3
    <3>5. CASE k \in S /\ f[k] > f[i]
      <4>1. \A j \in S : j <= k => f[j] <= f[k]
        BY <2>3, <3>4, <3>5
      <4> QED BY <2>3, <3>5, <4>1
    <3>6. CASE ~(k \in S /\ f[k] > f[i])
      <4>1. \A j \in S : j <= k => f[j] <= f[i]
        BY <2>3, <3>4, <3>6
      <4>2. i <= k
        BY <2>3, <3>4
      <4> QED BY <2>3, <4>1, <4>2
    <3> QED BY <3>5, <3>6
  <2>5. CASE ~\E i \in S : i <= k - 1
    <3>1. \A i \in S : i <= k => i = k
      BY <2>3, <2>5
    <3>2. k \in S
      BY <2>3, <3>1
    <3>3. \A j \in S : j <= k => f[j] <= f[k]
      BY <3>1, <3>2
    <3> QED BY <2>3, <3>2, <3>3
  <2> QED BY <2>4, <2>5
<1>2. n \in 1 .. n /\ \E i \in S : i <= n
  <2>1. PICK i \in S : TRUE
    OBVIOUS
  <2>2. i \in 1 .. n
    BY <2>1
  <2> QED BY <2>2
<1>3. Topped(n)
  BY <1>1, <1>2
<1> QED BY <1>3

(***************************************************************************)
(* No candidate is forgotten.                                              *)
(***************************************************************************)
(* How often each fingerprint is among the rows.                           *)
Counted(rows) ==
  {[print |-> rows[i].print,
    n |-> Cardinality({j \in DOMAIN rows : rows[j].print = rows[i].print})] : i \in DOMAIN rows}
(* The index of the failures counts the rows of each fingerprint.          *)
LEMMA IndexIs ==
  {[print |-> e.print, n |-> e.occurrences] : e \in FailureIndex} = Counted(failures)
<1> DEFINE Count(p) == [print |-> p, n |-> Repetitions(p)]
           Entry(p) == [print |-> p, occurrences |-> Repetitions(p), repetitions |-> LastRepetition(p)]
           Printed0 == {failures[i].print : i \in DOMAIN failures}
           Row(i) == [print |-> failures[i].print,
                      n |-> Cardinality({j \in DOMAIN failures :
                                           failures[j].print = failures[i].print})]
<1>1. FailureIndex = {Entry(p) : p \in Printed0}
  BY DEF FailureIndex
<1>2. \A p : [print |-> Entry(p).print, n |-> Entry(p).occurrences] = Count(p)
  OBVIOUS
<1>3. \A i : Count(failures[i].print) = Row(i)
  BY DEF Repetitions
<1>4. {Count(p) : p \in Printed0} = {Count(failures[i].print) : i \in DOMAIN failures}
  OBVIOUS
<1>5. Counted(failures) = {Row(i) : i \in DOMAIN failures}
  BY DEF Counted
<1> HIDE DEF Count, Entry, Row, Printed0
<1>6. {[print |-> e.print, n |-> e.occurrences] : e \in FailureIndex} = {Count(p) : p \in Printed0}
  BY <1>1, <1>2
<1>7. {Count(failures[i].print) : i \in DOMAIN failures} = {Row(i) : i \in DOMAIN failures}
  BY <1>3
<1> QED BY <1>4, <1>5, <1>6, <1>7

(* What is told, and what the manifest sums up.                            *)
LEMMA CoverMeans ==
  ASSUME Base, CoverInv, CountInv, LastInv
  PROVE  NoCandidateForgotten
<1>1. ASSUME Whole
      PROVE  /\ 0 .. current.id = IdsOf(History) \cup IdsOf(FailureHistory)
             /\ Short \subseteq IdsOf(FailureHistory)
  BY <1>1, WholeIs DEF CoverInv, Level, ToldOf
<1>2. ASSUME Live, NEW i \in DOMAIN FailureHistory
      PROVE  FailureHistory[i].count = Cardinality(Alike(FailureHistory, i))
  BY <1>2 DEF CountInv
<1>3. ASSUME pc = "off", Fate = "completed"
      PROVE  {[print |-> e.print, n |-> e.occurrences] : e \in manifest.runtime.history.index} =
             Counted(FailureHistory)
  <2>1. manifest.runtime.history = HistorySummary
    BY <1>3 DEF LastInv, Finalized, Finished
  <2>2. manifest.runtime.history.index = FailureIndex
    BY <2>1 DEF HistorySummary
  <2>3. failures = FailureHistory
    BY <1>3 DEF CoverInv, Sound
  <2> QED BY <2>2, <2>3, IndexIs
<1> QED BY <1>1, <1>2, <1>3 DEF NoCandidateForgotten, Alike, Short, Counted

(* NoCandidateForgotten: every candidate is in history or among the        *)
(* failures, whatever fell short is among the failures, with its count,    *)
(* and the manifest of a completed run sums them up.                       *)
THEOREM NoCandidateIsForgotten == Spec => []NoCandidateForgotten
<1> DEFINE Inv == Base /\ Fresh /\ PairInv /\ LastInv /\ CoverInv /\ CountInv
<1>1. Init => Inv
  <2>1. Init => pc = "off" /\ Fate = "none" /\ ~Sound /\ ~Live
    BY DEF Init, EmptyDirectory, Sound, Live, Fate
  <2>2. Init => PairInv
    BY DEF Init, PairInv
  <2>3. Init => LastInv /\ CoverInv /\ CountInv
    BY <2>1 DEF LastInv, Finalizing, Finalized, CoverInv, CountInv
  <2> QED BY <2>2, <2>3, BaseInit, FreshInit
<1>2. Inv /\ [Next]_vars => Inv'
  <2> SUFFICES ASSUME Inv, [Next]_vars PROVE Inv'
    OBVIOUS
  <2> QED BY BaseNext, FreshNext, PairNext, LastNext, CoverNext
<1>3. Inv => NoCandidateForgotten
  BY CoverMeans
<1> QED BY <1>1, <1>2, <1>3, PTL DEF Spec

(***************************************************************************)
(* What is shown is true.                                                  *)
(***************************************************************************)
(* The rows show looks for the best among.                                 *)
RetainedRows == {i \in DOMAIN History : Retained(History[i])}

(* Scores are numbers.                                                     *)
LEMMA HistoryTyped ==
  ASSUME Base
  PROVE  /\ Len(History) \in Nat /\ DOMAIN History = 1 .. Len(History)
         /\ \A i \in DOMAIN History : History[i].score \in Int
         /\ \A a \in archived : a.score \in Int
<1>1. History \in Seq(HistoryRows) /\ archived \subseteq Candidates
  BY DEF Base, TypeOK, FilesOK, MemoryType, History
<1>2. \A i \in DOMAIN History : History[i] \in HistoryRows
  BY <1>1
<1> QED BY <1>1, <1>2 DEF HistoryRows, Candidates

(* The row that is shown is of the top score.                              *)
LEMMA ShownBestIs ==
  ASSUME Base, RetainedRows # {}
  PROVE  \E b \in RetainedRows :
           /\ ShownBest = History[b]
           /\ \A i \in RetainedRows : History[i].score <= History[b].score
<1> DEFINE f == [i \in DOMAIN History |-> History[i].score]
           n == Len(History)
           top == {i \in RetainedRows : \A j \in RetainedRows : History[j].score <= History[i].score}
           b == CHOOSE i \in top : \A j \in top : i <= j
<1>1. /\ n \in Nat /\ RetainedRows \in SUBSET (1 .. n) /\ DOMAIN History = 1 .. n
      /\ \A i \in RetainedRows : f[i] \in Int /\ f[i] = History[i].score
  BY HistoryTyped DEF RetainedRows
<1> HIDE DEF n, f
<1>2. \E i \in RetainedRows : \A j \in RetainedRows : f[j] <= f[i]
  BY <1>1, TopExists
<1>3. top # {}
  BY <1>1, <1>2
<1>4. top \in SUBSET Nat
  <2>1. top \subseteq RetainedRows
    OBVIOUS
  <2>2. \A i \in 1 .. n : i \in Nat
    BY <1>1
  <2> HIDE DEF top
  <2> QED BY <1>1, <2>1, <2>2
<1>5. ShownBest = History[b]
  BY DEF ShownBest, RetainedRows
<1> HIDE DEF top
<1>6. \E i \in top : \A j \in top : i <= j
  BY <1>3, <1>4, LeastNumber
<1>7. b \in top
  BY <1>6
<1> HIDE DEF b
<1> QED BY <1>5, <1>7 DEF top

(* The refusals, in their order.                                           *)
LEMMA RefusalsAre ==
  /\ DOMAIN Refusals = 1 .. 6
  /\ Refusals[1].holds <=> History = <<>>
  /\ Refusals[2].holds <=> HistoryRefused
  /\ Refusals[3].holds <=> \A i \in DOMAIN History : ~Retained(History[i])
  /\ Refusals[4].holds <=> CountsDiffer
  /\ Refusals[5].holds <=> FailuresRefused
  /\ Refusals[6].holds <=> PolicyFails
  /\ Refusals[1].why = "no history" /\ Refusals[3].why = "nothing retained"
  /\ Refusals[5].why = "malformed failure history"
<1> DEFINE empty == History = <<>>
           barren == \A i \in DOMAIN History : ~Retained(History[i])
           R(w, h) == [why |-> w, holds |-> h]
           r1 == R("no history", empty)
           r2 == R("malformed history", HistoryRefused)
           r3 == R("nothing retained", barren)
           r4 == R("counts differ", CountsDiffer)
           r5 == R("malformed failure history", FailuresRefused)
           r6 == R("artifact policy", PolicyFails)
<1>1. Refusals = <<r1, r2, r3, r4, r5, r6>>
  BY Zenon DEF Refusals
<1>2. \A w, h : R(w, h).holds = h /\ R(w, h).why = w
  BY Zenon
<1> HIDE DEF empty, barren, R
<1>3. /\ r1.holds = empty /\ r2.holds = HistoryRefused /\ r3.holds = barren
      /\ r4.holds = CountsDiffer /\ r5.holds = FailuresRefused /\ r6.holds = PolicyFails
      /\ r1.why = "no history" /\ r3.why = "nothing retained"
      /\ r5.why = "malformed failure history"
  BY <1>2, Zenon
<1> HIDE DEF r1, r2, r3, r4, r5, r6
<1>4. /\ DOMAIN Refusals = 1 .. 6 /\ Refusals[1] = r1 /\ Refusals[2] = r2
      /\ Refusals[3] = r3 /\ Refusals[4] = r4 /\ Refusals[5] = r5 /\ Refusals[6] = r6
  BY <1>1
<1> QED BY <1>3, <1>4, Zenon DEF empty, barren

(* What is shown, and why not.                                             *)
LEMMA ShownMeans ==
  ASSUME Inspection.shown
  PROVE  /\ RetainedRows # {}
         /\ Inspection.status = RuntimeStatus /\ Inspection.best = ShownBest
<1>1. Objections = {}
  BY DEF Inspection
<1>2. ~Refusals[3].holds
  <2>1. 3 \in DOMAIN Refusals
    <3>1. DOMAIN Refusals = 1 .. 6
      BY RefusalsAre
    <3> QED BY <3>1
  <2> QED BY <1>1, <2>1, Zenon DEF Objections
<1> QED BY <1>1, <1>2, RefusalsAre DEF Inspection, RetainedRows

LEMMA RefusedMeans ==
  ASSUME ~Inspection.shown
  PROVE  \E i \in Objections :
           Inspection.why = Refusals[i].why /\ \A j \in Objections : i <= j
<1> DEFINE i == CHOOSE i \in Objections : \A j \in Objections : i <= j
<1>1. Objections # {}
  BY DEF Inspection
<1>2. Objections \in SUBSET Nat
  <2>1. DOMAIN Refusals = 1 .. 6
    BY RefusalsAre
  <2>2. Objections \subseteq DOMAIN Refusals
    BY Zenon DEF Objections
  <2> QED BY <2>1, <2>2
<1>3. \E k \in Objections : \A j \in Objections : k <= j
  BY <1>1, <1>2, LeastNumber
<1>4. i \in Objections /\ \A j \in Objections : i <= j
  BY <1>3
<1>5. Inspection.why = Refusals[i].why
  BY <1>1 DEF Inspection
<1> HIDE DEF i
<1> QED BY <1>4, <1>5

(* After a completed run the rows retained are the programs of the archive.*)
LEMMA CompletedIs ==
  ASSUME Base, ArchiveInv, MatchInv, CoverInv, CountInv, LastInv, pc = "off", Fate = "completed"
  PROVE  /\ manifest = [run |-> run, runtime |-> runtime] /\ Finished
         /\ \A i \in RetainedRows : \E a \in archived : a.score = History[i].score
         /\ \A a \in archived : \E i \in RetainedRows : a.score = History[i].score
         /\ ~RepeatsAnId(History) /\ ~RepeatsAnId(FailureHistory)
         /\ Len(logged) = Len(History)
<1>1. Sound /\ Stage \notin {"before", "failed", "due", "told"}
  BY WholeIs DEF Whole
<1>2. Taken = RecordedAsTaken
  BY <1>1 DEF ArchiveInv
<1>3. ASSUME NEW i \in RetainedRows PROVE \E a \in archived : a.score = History[i].score
  BY <1>1 DEF MatchInv, Tells, RetainedRows, Retained
<1>4. ASSUME NEW a \in archived PROVE \E i \in RetainedRows : a.score = History[i].score
  <2>1. a.id \in RecordedAsTaken
    BY <1>2 DEF Taken
  <2>2. PICK i \in DOMAIN History : Tells(History[i], a)
    BY <1>1, <2>1 DEF MatchInv
  <2> QED BY <2>2 DEF Tells, RetainedRows, Retained
<1>5. Len(logged) = Len(History)
  <2>1. logged = [i \in DOMAIN History |-> History[i].id] /\ logged \in Seq(Int)
    BY <1>1 DEF CoverInv, Base, TypeOK, MemoryType
  <2>2. DOMAIN logged = DOMAIN History
    BY <2>1
  <2> QED BY <2>1, <2>2, HistoryTyped
<1>6. manifest = [run |-> run, runtime |-> runtime] /\ Finished
  BY DEF LastInv, Finalized
<1> QED BY <1>1, <1>3, <1>4, <1>5, <1>6 DEF CountInv

(* Pointers are something.                                                 *)
LEMMA PointersThere == \A rows : PointersTo(rows) # Nothing
<1> DEFINE P(x, y) == [streams |-> x, best |-> y]
<1>1. \A x, y : P(x, y) # Nothing
  <2>1. \A x, y : DOMAIN P(x, y) = {"streams", "best"}
    OBVIOUS
  <2>2. DOMAIN Nothing = {"none"}
    BY DEF Nothing
  <2> HIDE DEF P
  <2> QED BY <2>1, <2>2
<1> QED BY <1>1 DEF PointersTo

(* What the invariants say of a run that is over is what show makes of it. *)
LEMMA ShownTrue ==
  ASSUME Base, ArchiveInv, MatchInv, CoverInv, CountInv, LastInv
  PROVE  ShownIsTrue
<1> SUFFICES ASSUME pc = "off", Fate # "none" PROVE ShownIsTrue
  BY DEF ShownIsTrue
<1>1. Fate \in {"cleared", "completed", "aborted", "killed"}
  BY DEF Base, FateOK
<1>2. Fate = "completed" => manifest = [run |-> run, runtime |-> runtime] /\ Finished
  BY DEF LastInv, Finalized
<1>3. Fate = "aborted" =>
        \/ manifest = [run |-> run, runtime |-> Nothing]
        \/ /\ manifest = [run |-> run, runtime |-> runtime]
           /\ RuntimeShape(runtime) /\ runtime.status = "aborted"
           /\ runtime.artifacts = Nothing \/ Pointed
  BY DEF LastInv, Finalized
<1>4. Fate = "killed" => manifest = [run |-> run, runtime |-> Nothing]
  BY DEF LastInv, Finalized
<1>5. ASSUME Fate \in {"completed", "aborted"}, HasRuntime, manifest.runtime.artifacts # Nothing
      PROVE  manifest.runtime.artifacts = PointersTo(files)
  BY <1>2, <1>3, <1>5 DEF HasRuntime, Finished, Pointed
<1>6. ASSUME Inspection.shown, Inspection.status = "completed"
      PROVE  /\ Fate \in {"completed", "cleared"}
             /\ Fate = "completed" =>
                  /\ \A a \in archived : a.score <= Inspection.best.score
                  /\ manifest.runtime.export = "completed" =>
                       \A p \in Places : tree[p].score = Inspection.best.score
  <2>1. RuntimeStatus = "completed" /\ Inspection.best = ShownBest /\ RetainedRows # {}
    BY <1>6, ShownMeans
  <2>2. Fate \in {"completed", "cleared"}
    <3>1. manifest = [run |-> run, runtime |-> Nothing] => RuntimeStatus # "completed"
      <4> SUFFICES ASSUME manifest = [run |-> run, runtime |-> Nothing]
                   PROVE  RuntimeStatus # "completed"
        OBVIOUS
      <4>1. manifest # Nothing /\ manifest.runtime = Nothing
        BY NotNothing
      <4> QED BY <4>1 DEF RuntimeStatus, HasRuntime
    <3>2. ASSUME manifest = [run |-> run, runtime |-> runtime], RuntimeShape(runtime),
                 runtime.status = "aborted"
          PROVE  RuntimeStatus # "completed"
      <4>1. manifest # Nothing /\ manifest.runtime # Nothing /\ manifest.runtime.status = "aborted"
        BY <3>2, NotNothing
      <4> QED BY <4>1 DEF RuntimeStatus, HasRuntime
    <3> QED BY <1>1, <1>3, <1>4, <2>1, <3>1, <3>2
  <2>3. ASSUME Fate = "completed"
        PROVE  /\ \A a \in archived : a.score <= Inspection.best.score
               /\ manifest.runtime.export = "completed" =>
                    \A p \in Places : tree[p].score = Inspection.best.score
    <3>1. PICK b \in RetainedRows :
            /\ ShownBest = History[b]
            /\ \A i \in RetainedRows : History[i].score <= History[b].score
      BY <2>1, ShownBestIs
    <3>2. /\ \A i \in RetainedRows : \E a \in archived : a.score = History[i].score
          /\ \A a \in archived : \E i \in RetainedRows : a.score = History[i].score
      BY <2>3, CompletedIs
    <3>3. Inspection.best.score = History[b].score
      BY <2>1, <3>1
    <3>4. \A a \in archived : a.score <= History[b].score
      BY <3>1, <3>2
    <3>5. ASSUME manifest.runtime.export = "completed", NEW p \in Places
          PROVE  tree[p].score = History[b].score
      <4>1. tree[p] = export.program /\ export.program \in Best
        BY <1>2, <2>3, <3>5 DEF Finished, ExportTrue
      <4>2. PICK a \in archived : a.score = History[b].score
        BY <3>2
      <4>3. export.program \in archived /\ a.score <= export.program.score
        BY <4>1, <4>2 DEF Best
      <4>4. a.score \in Int /\ export.program.score \in Int
        BY <4>2, <4>3, HistoryTyped
      <4>5. export.program.score <= History[b].score
        BY <3>4, <4>3
      <4> QED BY <4>1, <4>2, <4>3, <4>4, <4>5
    <3> QED BY <3>3, <3>4, <3>5
  <2> QED BY <2>2, <2>3
<1>7. ASSUME Fate = "completed", ~Inspection.shown
      PROVE  \/ archived = {} /\ Inspection.why \in {"no history", "nothing retained"}
             \/ /\ Inspection.why = "malformed failure history"
                /\ \E i \in DOMAIN FailureHistory : FailureHistory[i].paths = "reserved"
  <2>1. PICK i \in Objections : Inspection.why = Refusals[i].why /\ \A j \in Objections : i <= j
    BY <1>7, RefusedMeans
  <2>2. i \in 1 .. 6 /\ Refusals[i].holds
    BY RefusalsAre DEF Objections
  <2>3. /\ manifest = [run |-> run, runtime |-> runtime] /\ Finished
        /\ \A a \in archived : \E k \in RetainedRows : a.score = History[k].score
        /\ ~RepeatsAnId(History) /\ ~RepeatsAnId(FailureHistory)
        /\ Len(logged) = Len(History)
    BY <1>7, CompletedIs
  <2>4. RetainedRows = {} => archived = {}
    BY <2>3
  <2>5. CASE i = 1
    <3>1. RetainedRows = {}
      <4>1. History = <<>>
        BY <2>2, <2>5, RefusalsAre
      <4>2. DOMAIN History = {}
        BY <4>1
      <4> QED BY <4>2 DEF RetainedRows
    <3> QED BY <2>1, <2>4, <2>5, <3>1, RefusalsAre
  <2>6. i # 2
    BY <2>2, <2>3, RefusalsAre DEF HistoryRefused
  <2>7. CASE i = 3
    <3>1. RetainedRows = {}
      BY <2>2, <2>7, RefusalsAre DEF RetainedRows
    <3> QED BY <2>1, <2>4, <2>7, <3>1, RefusalsAre
  <2>8. i # 4
    <3>1. manifest.runtime.history.programs = Len(History)
      BY <2>3 DEF Finished, HistorySummary
    <3> QED BY <2>2, <3>1, RefusalsAre DEF CountsDiffer
  <2>9. CASE i = 5
    BY <2>1, <2>2, <2>3, <2>9, RefusalsAre DEF FailuresRefused
  <2>10. i # 6
    <3>1. manifest # Nothing /\ manifest.runtime # Nothing
      BY <2>3, NotNothing DEF Finished
    <3>2. manifest.runtime.artifacts # Nothing
      BY <2>3, PointersThere DEF Finished, Pointed
    <3>3. ~PolicyFails
      BY <3>1, <3>2 DEF PolicyFails, HasRuntime
    <3> QED BY <2>2, <3>3, RefusalsAre
  <2>11. i \in {1, 3, 5}
    <3>1. i \in 1 .. 6
      BY <2>2
    <3> QED BY <2>6, <2>8, <2>10, <3>1
  <2> QED BY <2>5, <2>7, <2>9, <2>11
<1> QED BY <1>5, <1>6, <1>7 DEF ShownIsTrue

(* ShownIsTrue: the pointers of a finished manifest are of the files as    *)
(* the run left them, what is shown as completed was and is of the top     *)
(* score, and a completed run is refused for one of two reasons only.      *)
THEOREM WhatIsShownIsTrue == Spec => []ShownIsTrue
<1> DEFINE Inv == /\ Base /\ Fresh /\ PairInv /\ LastInv /\ CoverInv /\ CountInv
                  /\ ArchiveInv /\ MatchInv
<1>1. Init => Inv
  <2>1. Init => pc = "off" /\ Fate = "none" /\ ~Sound /\ ~Live
    BY DEF Init, EmptyDirectory, Sound, Live, Fate
  <2>2. Init => PairInv
    BY DEF Init, PairInv
  <2>3. Init => LastInv /\ CoverInv /\ CountInv
    BY <2>1 DEF LastInv, Finalizing, Finalized, CoverInv, CountInv
  <2>4. Init => ArchiveInv /\ MatchInv
    BY <2>1 DEF ArchiveInv, MatchInv
  <2> QED BY <2>2, <2>3, <2>4, BaseInit, FreshInit
<1>2. Inv /\ [Next]_vars => Inv'
  <2> SUFFICES ASSUME Inv, [Next]_vars PROVE Inv'
    OBVIOUS
  <2> QED BY BaseNext, FreshNext, PairNext, LastNext, CoverNext, ArchiveNext
<1>3. Inv => ShownIsTrue
  BY ShownTrue
<1> QED BY <1>1, <1>2, <1>3, PTL DEF Spec
=============================================================================
