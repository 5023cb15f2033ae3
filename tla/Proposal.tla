------------------------------ MODULE Proposal ------------------------------
(***************************************************************************)
(* What becomes of one line of descent of candidates: a prompt is built    *)
(* from the parent, the answer of a model is applied to its workspace, the *)
(* child is checked against the limits of the run, written to a directory  *)
(* to be evaluated, and may be the parent of the next proposal.            *)
(***************************************************************************)
EXTENDS CandidateWorkspace, Materialization, PromptSampler

CONSTANTS
  Seeds,         \* initial workspaces of the problem
  Answers,       \* what a model may answer
  Modes,         \* mutation modes a run may be configured with
  Requests,      \* a sequence of what a prompt may be asked for with: records
                 \* [input, policy, budget], the policy as it is given
  ConfigLimits,  \* limits of the run, as in Limits
  MaxProposals   \* proposals applied along the line

(* A workspace has the fields of its class; what an answer holds are       *)
(* sections one after the other; a limit of a prompt is a number, or none. *)
ASSUME ProposalAssumption ==
  /\ \A w \in Seeds : DOMAIN w = {"files", "primary", "allowed", "statics"}
  /\ \A a \in Answers : a.sections \in Seq(Range(a.sections))
  /\ \A n \in DOMAIN Requests :
       {Requests[n].budget.chars, Requests[n].budget.tokens} \subseteq Nat \cup {None}

VARIABLES
  seed, mode,    \* fixed when the run starts
  workspace,     \* the youngest candidate of the line
  verdict,       \* what the last answer came to
  proposals,     \* answers so far
  prompt         \* a prompt to be sent and the request it was built for,
                 \* Asked when it is out, or NoPrompt

vars == <<seed, mode, workspace, verdict, proposals, prompt, tree, call>>

NoPrompt == [status |-> "none"]
Asked == [status |-> "asked"]

(* What each policy means, and what a prompt tells under it whatever the   *)
(* workspace.                                                              *)
AcceptedOf(asked) == {n \in DOMAIN asked : Accepted(asked[n].policy)}
AcceptedRequests == AcceptedOf(Requests)

PoliciesOf(asked) == [n \in AcceptedRequests |-> NormalPolicy(asked[n].policy)]
Policies == PoliciesOf(Requests)

ToldFor(asked, policies) == [n \in DOMAIN policies |-> Told(policies[n], asked[n].input)]
ToldBy == ToldFor(Requests, Policies)

LengthsFor(asked, policies, told) ==
  [n \in DOMAIN policies |-> ToldLengths(policies[n], asked[n].input, told[n])]
LengthsBy == LengthsFor(Requests, Policies, ToldBy)

SeedAccepted(w) ==
  /\ Constructible(w)
  /\ WithinWorkspaceLimits(w.files, w.statics, ConfigLimits)
  /\ \A p \in DOMAIN w.files : EvolveError(w.files[p]) = None

Init ==
  /\ seed \in {w \in Seeds : SeedAccepted(w)}
  /\ mode \in Modes
  /\ workspace = seed
  /\ verdict = "seed"
  /\ proposals = 0
  /\ prompt = NoPrompt
  /\ tree = NoTree
  /\ call = NoCall

(* A policy that is refused refuses the prompt.                            *)
SamplePrompt(n) ==
  /\ prompt = NoPrompt
  /\ call = NoCall
  /\ verdict # "aborted"
  /\ proposals < MaxProposals
  /\ n \in AcceptedRequests
  /\ prompt' = [request |-> n,
                 built |-> BuildPrompt(workspace, mode, Policies[n], LengthsBy[n],
                                       Requests[n].budget)]
  /\ UNCHANGED <<seed, mode, workspace, verdict, proposals, tree, call>>

Ask ==
  /\ prompt \notin {NoPrompt, Asked}
  /\ prompt' = Asked
  /\ UNCHANGED <<seed, mode, workspace, verdict, proposals, tree, call>>

(* A mutation that is refused is a candidate with an error, which its      *)
(* parent's workspace stands for; a child over the limits of the run, like *)
(* an exception, ends the run.                                             *)
BecomeCandidate(result) ==
  IF \/ result.error = Raised
     \/ ~WithinWorkspaceLimits(result.workspace.files, result.workspace.statics, ConfigLimits)
  THEN verdict' = "aborted" /\ UNCHANGED workspace
  ELSE /\ workspace' = result.workspace
       /\ verdict' = IF result.error = None THEN "accepted" ELSE "refused"

Propose(answer) ==
  /\ prompt = Asked
  /\ prompt' = NoPrompt
  /\ proposals' = proposals + 1
  /\ BecomeCandidate(ApplyWorkspaceMutation(workspace, answer, mode))
  /\ UNCHANGED <<seed, mode, tree, call>>

(* The evaluator writes a candidate without an error to a directory of its *)
(* own; other callers may write where there is one already.                *)
Materialize(existing) ==
  /\ call.at = "idle"
  /\ prompt = NoPrompt
  /\ verdict \in {"seed", "accepted"}
  /\ BeginMaterialize(existing, HostPathCollision(workspace.files, workspace.statics))
  /\ UNCHANGED <<seed, mode, workspace, verdict, proposals, prompt>>

(* The directory goes when the evaluation is over.                         *)
Discard ==
  /\ call.at \in Ends \ {"idle"}
  /\ call' = NoCall
  /\ tree' = NoTree
  /\ UNCHANGED <<seed, mode, workspace, verdict, proposals, prompt>>

Next ==
  \/ \E n \in DOMAIN Requests : SamplePrompt(n)
  \/ Ask
  \/ \E answer \in Answers : Propose(answer)
  \/ \E existing \in {Nothing, "old"} : Materialize(existing)
  \/ Discard
  \/ MaterializeStep /\ UNCHANGED <<seed, mode, workspace, verdict, proposals, prompt>>

Spec == Init /\ [][Next]_vars

(***************************************************************************)
(* Properties.                                                             *)
(***************************************************************************)
Locked(w) == {p \in DOMAIN w.statics : w.statics[p].policy # "llm_editable"}

(* Whatever sequence of answers led to it, a candidate is one the          *)
(* constructor accepts and the run has room for, its blocks parse, it has  *)
(* the locked members of the seed as they were and no others, and its      *)
(* paths collide only if the seed's did (apply_workspace_mutation,         *)
(* candidate.py:1035, loop.py:852).                                        *)
LineageSound ==
  /\ Constructible(workspace)
  /\ WithinWorkspaceLimits(workspace.files, workspace.statics, ConfigLimits)
  /\ \A p \in DOMAIN workspace.files : EvolveError(workspace.files[p]) = None
  /\ workspace.allowed = seed.allowed
  /\ Restrict(workspace.statics, Locked(workspace)) = Restrict(seed.statics, Locked(seed))
  /\ HostPathCollision(workspace.files, workspace.statics) =>
       HostPathCollision(seed.files, seed.statics)

(* The lines a diff may touch: those inside a block, or all of them.       *)
Editable(code) ==
  IF EvolveBlocks(code) = <<>> THEN DOMAIN code
  ELSE UNION {EvolveBlocks(code)[n].first..EvolveBlocks(code)[n].last :
                n \in DOMAIN EvolveBlocks(code)}

(* All files that one SEARCH/REPLACE block, applied at any place where it  *)
(* matches, makes of a file; a place that overlaps an earlier one is no    *)
(* place of its own.                                                       *)
EditedAnywhere(code, b) ==
  LET places == {j \in Matches(code, b.search) : j..(j + Len(b.search) - 1) \subseteq Editable(code)}
  IN {SubSeq(code, 1, i - 1) \o b.replace \o SubSeq(code, i + Len(b.search), Len(code)) :
        i \in {j \in places : \A k \in places : k < j => k + Len(b.search) <= j}}

DiffMeanings(code, blocks) ==
  FoldLeft(LAMBDA codes, b : UNION {EditedAnywhere(c, b) : c \in codes}, {code}, blocks)

(* The same file with other lines in its blocks.                           *)
SameSkeleton(code, other) ==
  LET Outside(c) == [n \in 1..Len(EvolveBlocks(c)) + 1 |->
        SubSeq(c, IF n = 1 THEN 1 ELSE EvolveBlocks(c)[n - 1].last + 1,
                  IF n > Len(EvolveBlocks(c)) THEN Len(c) ELSE EvolveBlocks(c)[n].first - 1)]
  IN Outside(code) = Outside(other)

Explains(payload, old, new) ==
  CASE mode = "diff" -> payload.form = "diff" /\ DiffMeanings(old, payload.blocks) = {new}
    [] mode = "full" /\ EvolveBlocks(old) = <<>> -> new = AsText(payload)
    [] mode = "full" /\ payload.form # "sections" ->
         \E b \in Range(EvolveBlocks(old)) : new = WithBlockContent(old, b, AsText(payload))
    [] OTHER -> /\ SameSkeleton(old, new)
                /\ \A n \in DOMAIN EvolveBlocks(old) :
                     LET Body(c) == BlockContent(c, EvolveBlocks(c)[n])
                     IN IF EvolveBlocks(old)[n].name \in DOMAIN NamedBodies(payload.sections)
                        THEN Body(new) = NamedBodies(payload.sections)[EvolveBlocks(old)[n].name]
                        ELSE Body(new) = Body(old)

(* The last name a file has in an answer that moves it.                    *)
Destination(sections, p) ==
  IF \E i \in Positions(sections, {"move"}) : sections[i].path = p
  THEN sections[CHOOSE i \in Positions(sections, {"move"}) : sections[i].path = p].target
  ELSE p

SectionsExplain(sections, old, new) ==
  LET edited == {sections[i].path : i \in Positions(sections, {"edit"})}
      deleted == {sections[i].path : i \in Positions(sections, {"delete"})}
      set == {sections[i].path : i \in Positions(sections, {"static"})}
      kept == DOMAIN old.files \ deleted
  IN /\ DOMAIN new.files = {Destination(sections, p) : p \in kept} \cup edited
     /\ \A p \in kept \ edited : new.files[Destination(sections, p)] = old.files[p]
     /\ \A i \in Positions(sections, {"edit"}) :
          LET p == sections[i].path
              before == IF p \in DOMAIN old.files THEN old.files[p] ELSE <<>>
          IN Explains(sections[i].payload, before, new.files[p])
     /\ DOMAIN new.statics = DOMAIN old.statics \cup set
     /\ \A p \in DOMAIN old.statics \ set : new.statics[p] = old.statics[p]
     /\ \A i \in Positions(sections, {"static"}) :
          new.statics[sections[i].path].content = sections[i].content
     /\ new.primary = IF ExplicitPrimary(sections) # None THEN ExplicitPrimary(sections)
                      ELSE Destination(sections, old.primary)

AnswerExplains(answer, old, new) ==
  IF answer.sections = <<>>
  THEN /\ [new EXCEPT !.files = old.files] = old
       /\ Restrict(new.files, DOMAIN new.files \ {old.primary})
            = Restrict(old.files, DOMAIN old.files \ {old.primary})
       /\ Explains(answer.payload, old.files[old.primary], new.files[old.primary])
  ELSE SectionsExplain(answer.sections, old, new)

StepExplained ==
  /\ workspace' # workspace =>
       \E answer \in Answers : AnswerExplains(answer, workspace, workspace')
  /\ proposals' # proposals => (verdict' = "accepted" <=> workspace' # workspace)

SectionsCommute ==
  \A answer \in Answers :
    Len(answer.sections) = 2 =>
      LET one == ApplyWorkspaceMutation(workspace, answer, mode)
          two == ApplyWorkspaceMutation(workspace, [answer EXCEPT !.sections = Reverse(@)], mode)
      IN one.error = None /\ two.error = None => one = two

(* A step either leaves the workspace as it was or makes the only child    *)
(* the answer can mean: each SEARCH had one place among the editable       *)
(* lines, what no section names is as it was, what is moved keeps its      *)
(* lines; an answer is accepted exactly when it changes something; and     *)
(* sections mean the same in every order in which they are accepted        *)
(* (candidate.py:992, 1035, 1421, 1704).                                   *)
OneMeaning == [](call.at = "idle" => SectionsCommute) /\ [][StepExplained]_vars

(***************************************************************************)
(* What a prompt shows and leaves out.                                     *)
(***************************************************************************)
Unordered(s, Key(_)) == \E i, j \in DOMAIN s : i < j /\ Key(s[i]) < Key(s[j])

(* Of all that may be shown, as much as the limit allows; and nothing that *)
(* is left out ranks above something that is shown.                        *)
BestOf(shown, allowed, limit, ranked, Key(_)) ==
  /\ IsInjective(shown)
  /\ Range(shown) \subseteq allowed
  /\ limit = None => Range(shown) = allowed
  /\ limit # None => Len(shown) = IF limit < Cardinality(allowed) THEN limit ELSE Cardinality(allowed)
  /\ ranked => /\ ~Unordered(shown, Key)
               /\ \A a \in allowed \ Range(shown), b \in Range(shown) : Key(a) <= Key(b)

SelectionKept(shown, texts, policy, WordsOf(_), WordsSeen(_)) ==
  BestOf(shown,
         {p \in DOMAIN texts : /\ policy.paths # <<>> => p \in Range(policy.paths)
                               /\ policy.required \subseteq WordsOf(p)
                               /\ policy.excluded \cap WordsOf(p) = {}},
         policy.limit, policy.ranked,
         LAMBDA p : Cardinality(WordsSeen(p) \cap
                      IF policy.ranking = {} THEN TaskTerms ELSE policy.ranking))

(* Recent failures are the last ones, in the order they happened.          *)
FailuresKept(shown, input, policy) ==
  LET allowed == {i \in DOMAIN input.failures : FailureAllowed(input.failures[i], policy)}
      Nth(i) == input.failures[i]
      limit == IF policy.limit = None \/ policy.limit > Cardinality(allowed)
               THEN Cardinality(allowed) ELSE policy.limit
      latest == {i \in allowed : Cardinality({j \in allowed : j > i}) < limit}
  IN /\ Len(shown) = limit
     /\ \A f \in Range(shown) : \E i \in allowed : Nth(i) = f
     /\ policy.pick = "recent" =>
          \A i \in latest : shown[Cardinality({j \in latest : j <= i})] = Nth(i)
     /\ policy.pick = "highest_repetition" => ~Unordered(shown, LAMBDA f : f.times)

(* What packing left out is the least important of what it may leave out,  *)
(* and no more than it had to.                                             *)
PackingKept(lengths, packed, budget, priorities) ==
  LET packable == {f \in Range(Fields) \ (Required \cup {"parent_score"}) :
                     Template[f] > 0 /\ lengths[f] > MarkerLength}
      gone == {f \in Range(Fields) : packed[f] # lengths[f]}
      Fits(ls) == WithinBudget(RenderedLength(ls), budget)
  IN /\ gone \subseteq packable
     /\ \A f \in gone, g \in packable \ gone : priorities[g] <= priorities[f]
     /\ gone # packable => Fits(packed)
     /\ gone # {} =>
          \E f \in gone : /\ \A g \in gone : priorities[f] <= priorities[g]
                          /\ ~Fits([packed EXCEPT ![f] = lengths[f]])

(* Nothing is told that the policy does not select or caps to nothing, and *)
(* nothing over its cap.  Checksums and sizes have no cap; what is told    *)
(* with a stage is capped with it.                                         *)
NeverCapped ==
  {"sha256", "redacted", "json_chars", "content_excerpt_truncated", "content_excerpt_status",
   "resource_limits", "artifact_content"}

FieldsKept(group, line) ==
  /\ DOMAIN line.shown \subseteq ToSet(group.fields)
  /\ \A f \in DOMAIN line.shown \ NeverCapped :
       line.shown[f] <= (IF f \in DOMAIN group.caps /\ group.caps[f] = 0 THEN 0
                         ELSE CutLength(line.shown[f], Given(group.caps, f, None)))

LinesKept(p, lines) ==
  \A n \in DOMAIN lines :
    /\ DOMAIN lines[n].shown # {}
    /\ lines[n].of \in DOMAIN p.groups => FieldsKept(p.groups[lines[n].of], lines[n])
    /\ lines[n].of # "stage_summary" =>
         \A l \in ToSet(lines[n].within) :
           l.of \in DOMAIN p.groups => FieldsKept(p.groups[l.of], l)

(* A table is told up to its number of records, and where it is longer it  *)
(* says so after the last of them.                                         *)
TableKept(lines, of, records) ==
  LET rows == {n \in DOMAIN lines : lines[n].of = of}
  IN /\ Cardinality(rows) <= MaxItems
     /\ rows # {} /\ Len(records) > MaxItems =>
          /\ Max(rows) < Len(lines)
          /\ lines[Max(rows) + 1].of = "omitted"

(* The groups a group tells within its own lines.                          *)
Nested ==
  [stage_summary |-> {"execution_output", "stage_metric_threshold", "artifact_output_check"},
   configured_stage_check |-> {"stage_metric_threshold", "artifact_output_check"},
   validator_boundary |-> {"resource_limit"}, validator_artifact |-> {"artifact_content"}]

(* What a policy says of some groups changes nothing of what is told of    *)
(* the others.                                                             *)
OthersUntouched(raw, lines, usual) ==
  \A g \in {l.of : l \in ToSet(usual)} \ {"omitted", "metadata"} :
    ({g} \cup Given(Nested, g, {})) \cap DOMAIN Given(raw, "groups", <<>>) = {} =>
      LET Of_g(l) == l.of = g
      IN SelectSeq(lines, Of_g) \in {<<>>, SelectSeq(usual, Of_g)}

(* The lines of a policy that asks for nothing in particular, of the same  *)
(* artifacts.                                                              *)
UsualLines(p, evaluation) ==
  SectionLines([DefaultPolicy EXCEPT
    !.validator_artifact_content_mode = p.validator_artifact_content_mode,
    !.validator_artifact_content_max_bytes = p.validator_artifact_content_max_bytes,
    !.validator_artifact_content_max_chars = p.validator_artifact_content_max_chars], evaluation)

SectionKept(raw, p, section, usual) ==
  /\ section.length =
       CutLength(section.length, Given(p.feedback_section_max_chars_by_name, section.name, None))
  /\ LinesKept(p, section.lines)
  /\ OthersUntouched(raw, section.lines, usual)

(* A section is told if it is selected, has lines and is not capped to     *)
(* nothing, in the order the policy gives, the others after.               *)
FeedbackKept(raw, p, feedback, lines, usual) ==
  LET given == Given(raw, "feedback_section_order", None)
      Place(name) == IF given = None \/ name \notin Range(given) THEN Len(FeedbackOrder) + 1
                     ELSE SelectInSeq(given, LAMBDA s : s = name)
  IN /\ {s.name : s \in Range(feedback.sections)} =
          {s \in ToSet(p.feedback_sections) :
             lines[s] # <<>> /\ Given(p.feedback_section_max_chars_by_name, s, None) # 0}
     /\ ~Unordered(feedback.sections, LAMBDA s : 0 - Place(s.name))
     /\ feedback.length <= MaxFeedback
     /\ \A s \in Range(feedback.sections) : SectionKept(raw, p, s, usual[s.name])

(* What the policy caps of a failure is within its cap, or not there.      *)
FailureTextKept(caps, text) ==
  \A field \in DOMAIN text \cap DOMAIN caps :
    /\ caps[field] = 0 => text[field] = 0
    /\ text[field] = CutLength(text[field], caps[field])

(* No section a prompt must have is left out by its policy, and there is   *)
(* something within all of its bounds.                                     *)
PolicySound(p) ==
  LET thresholds == p.inspiration_metric_thresholds
      bounds == {p.inspiration_fitness_threshold, p.recent_failure_repetition_threshold,
                 p.recent_failure_score_threshold} \cup Range(thresholds)
  IN /\ ToSet(p.disabled_sections) \cap Required = {}
     /\ \A b \in bounds \ {None} :
          \E n \in {b.min, b.max} \ {None} : Bounded(n, b)

(* The policy that is recorded with a prompt means what the given one did, *)
(* and what is told under it is what it asks for.                          *)
PolicyKept(raw, p, evaluation, told) ==
  /\ KnownAndValid(p, p) /\ NormalPolicy(p) = p
  /\ PolicySound(p)
  /\ FeedbackKept(raw, p, told.feedback, SectionLines(p, evaluation), UsualLines(p, evaluation))
  /\ TableKept(DiagnosticLines(p, evaluation), "metric_bound", Table(evaluation, "metric_bounds"))
  /\ \A f \in ToSet(told.failures) :
       FailureTextKept(p.recent_failure_max_chars_by_field,
                       FailureText(p.recent_failure_max_chars_by_field, f))

AskedAndTold(asked, policies, told) ==
  [n \in DOMAIN policies |->
     PolicyKept(asked[n].policy, policies[n], asked[n].input.evaluation, told[n])]
ToldAsAsked == AskedAndTold(Requests, Policies, ToldBy)

(* The prompt is within the limit in characters; unless its status says    *)
(* that it did not fit, it is whole, and its tokens fit too.               *)
Fitted(built, budget, max) ==
  /\ max # None => built.final <= max
  /\ built.status \in {"not_configured", "within_budget", "packed_optional_sections"} =>
       built.final = RenderedLength(built.packed) /\ TokensFit(built.final, budget)

Shown(input, p, told) ==
  /\ SelectionKept(told.sources, input.sources, SourceSelection(p),
                   LAMBDA s : Range(input.sources[s]),
                   LAMBDA s : Range(CutSource(input.sources[s], p.context_source_max_chars,
                                              p.context_source_truncation)))
  /\ SelectionKept(prompt.built.files, workspace.files, FileSelection(p),
                   LAMBDA f : Range(workspace.files[f]) \cup {f},
                   LAMBDA f : Range(workspace.files[f]) \cup {f})
  /\ FailuresKept(told.failures, input, FailureSelection(p))
  /\ Len(told.inspirations) <= InspirationSelection(p).count
  /\ \A i \in Range(told.inspirations) : InspirationAllowed(i, InspirationSelection(p))

LengthsAreNumbers ==
  prompt \notin {NoPrompt, Asked} => prompt.built.lengths \in [Range(Fields) -> Nat]

PackedAsAsked(built, budget, p) ==
  /\ Fitted(built, budget, EffectiveMax(budget))
  /\ PackingKept(built.lengths, built.packed, budget, Priorities(p))

(* A prompt never exceeds its budget without saying so; what is packed     *)
(* away matters least, and no more is than has to be (prompt.py:1631).     *)
PromptIsPacked ==
  prompt \notin {NoPrompt, Asked} =>
    PackedAsAsked(prompt.built, Requests[prompt.request].budget, Policies[prompt.request])

(* A prompt is packed as its budget asks, and what is shown and left out   *)
(* is what the policy asked for, field by field (prompt.py:1631, 1825,     *)
(* 2391, 3372, 3751, 6696, prompt_context_policy.py:496, loop.py:4180).    *)
PromptFits ==
  /\ LengthsAreNumbers /\ PromptIsPacked
  /\ prompt \notin {NoPrompt, Asked} =>
       /\ Shown(Requests[prompt.request].input, Policies[prompt.request], ToldBy[prompt.request])
       /\ ToldAsAsked[prompt.request]

(* "when EVOLVE-BLOCK markers are present, matches are restricted to       *)
(* marked regions so the skeleton is preserved" (candidate.py:1001): the   *)
(* lines outside the blocks of the seed are in every descendant.           *)
SkeletonLines(code) ==
  {code[i] : i \in DOMAIN code \ Editable(code)}

SkeletonKept ==
  EvolveBlocks(seed.files[seed.primary]) # <<>> =>
    SkeletonLines(seed.files[seed.primary]) \subseteq Range(workspace.files[workspace.primary])
=============================================================================
