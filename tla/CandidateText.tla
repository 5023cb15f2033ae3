--------------------------- MODULE CandidateText ---------------------------
(***************************************************************************)
(* The text of one candidate file and the mutations a model's answer can   *)
(* make to it: SEARCH/REPLACE blocks, whole replacements and named         *)
(* EVOLVE-BLOCK sections.  A file is a sequence of lines.  A line matters  *)
(* for being a block marker, for opening or closing a triple-quoted string *)
(* ("open"), for being a comment that holds triple quotes ("note"), or for *)
(* being neither.                                                          *)
(***************************************************************************)
EXTENDS Integers, Sequences, SequencesExt, FiniteSets

CONSTANT None  \* no error, no limit, nothing kept

End == "END"
Starts == {"START a", "START b", "START c"}
MarkerLines == Starts \cup {End}

(* The tokenizer sees no comment inside a string, and so no marker; quotes *)
(* in a comment end a string when there is one and open none.              *)
InString(code) ==
  LET inside[i \in 1..Len(code) + 1] ==
        /\ i > 1
        /\ \/ code[i - 1] = "open" /\ ~inside[i - 1]
           \/ code[i - 1] \notin {"open", "note"} /\ inside[i - 1]
  IN inside

(* A file that ends inside a string does not tokenize.                     *)
TokenizerFailed(code) == InString(code)[Len(code) + 1]

EvolveMarkers(code) ==
  LET inside == InString(code)
  IN SetToSortSeq({i \in DOMAIN code : code[i] \in MarkerLines /\ ~inside[i]}, <)

HasRawMarkerLines(code) == \E i \in DOMAIN code : code[i] \in MarkerLines

BlockNames(blocks) == {blocks[i].name : i \in DOMAIN blocks}

TakeMarker(code, parsed, i) ==
  CASE parsed.error # None -> parsed
    [] parsed.error = None /\ code[i] \in Starts ->
         IF parsed.open # 0 THEN [parsed EXCEPT !.error = "nested_start"]
         ELSE IF code[i] \in BlockNames(parsed.blocks) THEN [parsed EXCEPT !.error = "duplicate_name"]
         ELSE [parsed EXCEPT !.open = i]
    [] parsed.error = None /\ code[i] = End ->
         IF parsed.open = 0 THEN [parsed EXCEPT !.error = "orphan_end"]
         ELSE [parsed EXCEPT
                 !.open = 0,
                 !.blocks = Append(@, [name |-> code[parsed.open],
                                       first |-> parsed.open + 1, last |-> i - 1])]

Unread == [blocks |-> <<>>, open |-> 0, error |-> None]

AtEnd(read) ==
  IF read.error = None /\ read.open # 0 THEN [read EXCEPT !.error = "missing_end"] ELSE read

(* The blocks up to the first error, and the error.                        *)
ParseEvolveBlocks(code) ==
  IF TokenizerFailed(code) /\ HasRawMarkerLines(code)
  THEN [Unread EXCEPT !.error = "tokenize_error"]
  ELSE AtEnd(FoldLeft(LAMBDA p, i : TakeMarker(code, p, i), Unread, EvolveMarkers(code)))

EvolveBlocks(code) == ParseEvolveBlocks(code).blocks
EvolveError(code) == ParseEvolveBlocks(code).error

BlockContent(code, block) == SubSeq(code, block.first, block.last)

WithBlockContent(code, block, content) ==
  SubSeq(code, 1, block.first - 1) \o content \o SubSeq(code, block.last + 1, Len(code))

(***************************************************************************)
(* SEARCH/REPLACE.                                                         *)
(***************************************************************************)
Matches(code, search) ==
  {i \in 1..Len(code) - Len(search) + 1 : SubSeq(code, i, i + Len(search) - 1) = search}

(* str.count takes the matches from the left and none over another: two    *)
(* places that overlap count as one.                                       *)
Occurrences(code, search) ==
  FoldLeft(LAMBDA n, i : IF i < n.next THEN n
                         ELSE [count |-> n.count + 1, next |-> i + Len(search)],
           [count |-> 0, next |-> 1], SetToSortSeq(Matches(code, search), <)).count

ReplaceMatch(code, search, replace) ==
  LET at == CHOOSE i \in Matches(code, search) : \A j \in Matches(code, search) : i <= j
  IN SubSeq(code, 1, at - 1) \o replace \o SubSeq(code, at + Len(search), Len(code))

Done(code) == [code |-> code, error |-> None]
Refused(code, error) == [code |-> code, error |-> error]

(* Mutant: the first of several matches is taken.                          *)
FirstMatchWins(code, search, replace) ==
  IF search = <<>> \/ Matches(code, search) = {} THEN Refused(code, "search_not_found")
  ELSE Done(ReplaceMatch(code, search, replace))

(* One block against the whole file: its SEARCH must be there once.        *)
ReplaceInFile(code, search, replace) ==
  CASE search = <<>> \/ Matches(code, search) = {} -> Refused(code, "search_not_found")
    [] search # <<>> /\ Occurrences(code, search) > 1 ->
         Refused(code, "ambiguous_search_match")
    [] OTHER -> Done(ReplaceMatch(code, search, replace))

Holders(code, blocks, search) ==
  {b \in ToSet(blocks) : Matches(BlockContent(code, b), search) # {}}

ReplaceInHolder(code, holders, search, replace) ==
  IF search = <<>> \/ holders = {} THEN Refused(code, "search_not_found")
  ELSE IF \/ Cardinality(holders) > 1
          \/ \E b \in holders : Occurrences(BlockContent(code, b), search) > 1
  THEN Refused(code, "ambiguous_search_match")
  ELSE LET block == CHOOSE b \in holders : TRUE
       IN Done(WithBlockContent(code, block,
                 ReplaceMatch(BlockContent(code, block), search, replace)))

(* One block against a file with marked blocks: its SEARCH must be there   *)
(* once, inside one block.                                                 *)
ReplaceInBlocks(code, search, replace) ==
  ReplaceInHolder(code, Holders(code, EvolveBlocks(code), search), search, replace)

AllOrNothing(code, applied) ==
  CASE applied.error # None -> Refused(code, applied.error)
    [] applied.error = None /\ applied.code = code -> Refused(code, "no_valid_changes")
    [] OTHER -> applied

(* The blocks apply in their order, each to what the ones before it left;  *)
(* an error in any of them gives the file as it was.                       *)
FoldBlocks(Replace(_, _, _), code, blocks) ==
  AllOrNothing(code, FoldLeft(LAMBDA r, b : IF r.error # None THEN r
                                            ELSE Replace(r.code, b.search, b.replace),
                              Done(code), blocks))

(* Mutant: the marked blocks are not looked at.                            *)
ApplyDiffAnywhere(code, payload) ==
  IF payload.form # "diff" THEN Refused(code, "no_diff_blocks")
  ELSE FoldBlocks(ReplaceInFile, code, payload.blocks)

(* Text around the blocks is refused in a file without marked blocks and   *)
(* not looked at in one that has some.                                     *)
ApplyDiffToCandidate(code, payload) ==
  IF payload.form # "diff" THEN Refused(code, "no_diff_blocks")
  ELSE IF EvolveBlocks(code) # <<>> THEN FoldBlocks(ReplaceInBlocks, code, payload.blocks)
  ELSE IF payload.stray THEN Refused(code, "malformed_diff:unconsumed_text")
  ELSE FoldBlocks(ReplaceInFile, code, payload.blocks)

(***************************************************************************)
(* Full replacement.                                                       *)
(***************************************************************************)

(* What is written when an answer of another form is taken as file text.   *)
AsText(payload) == IF payload.form = "text" THEN payload.lines ELSE <<"raw">>

Replaced(code, result) ==
  IF result = code THEN Refused(code, "no_valid_changes") ELSE Done(result)

(* Mutant: the blocks are replaced front to back, at the places they had   *)
(* before the first was replaced.                                          *)
ReplaceFrontToBack(code, blocks, bodies) ==
  FoldLeft(LAMBDA text, b : IF b.name \in DOMAIN bodies
                            THEN WithBlockContent(text, b, bodies[b.name]) ELSE text,
           code, blocks)

(* The last block first, so that the places of the others hold.            *)
ReplaceNamed(code, blocks, bodies) ==
  FoldLeft(LAMBDA text, b : IF b.name \in DOMAIN bodies
                            THEN WithBlockContent(text, b, bodies[b.name]) ELSE text,
           code, Reverse(blocks))

NamedBodies(sections) ==
  [name \in {sections[i].name : i \in DOMAIN sections} |->
     sections[CHOOSE i \in DOMAIN sections : sections[i].name = name].body]

ApplyNamedBlockReplacement(code, blocks, payload) ==
  LET names == {payload.sections[i].name : i \in DOMAIN payload.sections}
  IN IF payload.stray THEN Refused(code, "malformed_block_sections:unconsumed_text")
     ELSE IF Cardinality(names) < Len(payload.sections)
     THEN Refused(code, "malformed_block_sections:duplicate_name")
     ELSE IF payload.sections = <<>> THEN Refused(code, "missing_block_sections")
     ELSE IF ~(names \subseteq BlockNames(blocks))
     THEN Refused(code, "malformed_block_sections:unknown_name")
     ELSE Replaced(code, ReplaceNamed(code, blocks, NamedBodies(payload.sections)))

ReplaceBlocks(code, blocks, payload) ==
  CASE blocks = <<>> -> Replaced(code, AsText(payload))
    [] blocks # <<>> /\ payload.form = "sections" ->
         ApplyNamedBlockReplacement(code, blocks, payload)
    [] blocks # <<>> /\ payload.form # "sections" /\ Len(blocks) = 1 ->
         Replaced(code, WithBlockContent(code, blocks[1], AsText(payload)))
    [] OTHER -> Refused(code, "missing_block_sections")

ApplyFullReplacement(code, payload) == ReplaceBlocks(code, EvolveBlocks(code), payload)

(***************************************************************************)
(* A payload is refused before anything is parsed when it is too long, or  *)
(* blank where a blank one means nothing.                                  *)
(***************************************************************************)
PayloadError(payload, allowBlank) ==
  CASE payload.form = "oversized" -> "oversized_mutation_payload"
    [] payload.form = "text" /\ payload.lines = <<>> /\ ~allowBlank -> "blank_mutation_payload"
    [] OTHER -> None

ApplyCandidateMutation(code, payload, mode, allowBlank) ==
  IF PayloadError(payload, allowBlank) # None
  THEN Refused(code, PayloadError(payload, allowBlank))
  ELSE IF EvolveError(code) # None THEN Refused(code, "malformed_evolve_blocks")
  ELSE IF mode = "diff" THEN ApplyDiffToCandidate(code, payload)
  ELSE ApplyFullReplacement(code, payload)
=============================================================================
