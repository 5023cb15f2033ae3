--------------------------- MODULE PromptDatabase ---------------------------
(***************************************************************************)
(* The prompt templates of a run, the choice among them, and the log that  *)
(* restores them.  Rewards are whole: a raw reward is clamped to the       *)
(* bounds, and a mean is compared by cross-multiplication.                 *)
(***************************************************************************)
EXTENDS RunDirectory

CONSTANTS
  Templates,     \* how many templates are configured
  RewardCeiling  \* the reward bounds are 0 and this

VARIABLE prompts  \* the programs of the database, in the order they were added

(* The id of a seed is made from its place among the templates.            *)
SeedPrompt(index) == [id |-> index, uses |-> 0, sum |-> 0]

(* The row of an add or a score is a copy of the whole program.            *)
PromptRow(event, p) ==
  [event |-> event, id |-> p.id, uses |-> p.uses, sum |-> p.sum, run |-> run]

ForgetPrompts == prompts' = <<>>

(* The constructor appends one add for each template, and the program      *)
(* enters memory when the append has returned.                             *)
AddSeed(outcome) ==
  LET seed == SeedPrompt(Len(prompts) + 1)
  IN /\ Len(prompts) < Templates
     /\ files' = WithRow("prompt_history", PromptRow("add", seed), outcome)
     /\ prompts' = IF outcome = "written" THEN Append(prompts, seed) ELSE prompts
     /\ UNCHANGED <<manifest, tree, run>>

Untried == {i \in DOMAIN prompts : prompts[i].uses = 0}

(* The upper confidence bound grows with the mean and falls with the uses; *)
(* of two programs, one with a better mean and no more uses wins.          *)
Outranks(p, q) ==
  /\ p.sum * q.uses >= q.sum * p.uses
  /\ p.uses <= q.uses
  /\ p.sum * q.uses > q.sum * p.uses \/ p.uses < q.uses

Selectable ==
  IF Untried # {} THEN {prompts[i] : i \in {j \in Untried : \A k \in Untried : j <= k}}
  ELSE {p \in Range(prompts) : \A q \in Range(prompts) : ~Outranks(q, p)}

(* Mutant: a reward is bounded above only.                                 *)
NormalizedAbove(reward) == IF reward > RewardCeiling THEN RewardCeiling ELSE reward

Normalized(reward) ==
  IF reward < 0 THEN 0 ELSE IF reward > RewardCeiling THEN RewardCeiling ELSE reward

Scored(p, reward) == [p EXCEPT !.uses = @ + 1, !.sum = @ + Normalized(reward)]

(* The program is scored in memory, and put back when the append raises.   *)
RecordResult(id, reward, outcome) ==
  \E i \in DOMAIN prompts :
    /\ prompts[i].id = id
    /\ files' = WithRow("prompt_history", PromptRow("score", Scored(prompts[i], reward)), outcome)
    /\ prompts' = IF outcome = "written" THEN [prompts EXCEPT ![i] = Scored(@, reward)]
                  ELSE prompts
    /\ UNCHANGED <<manifest, tree, run>>

(* What a database opened on these rows would hold, the validation of each *)
(* row first, and whether it takes them all.                               *)
Known(programs, id) == {i \in DOMAIN programs : programs[i].id = id}
Follows(programs, row) ==
  LET known == Known(programs, row.id)
  IN IF row.event = "add" THEN known = {}
     ELSE \E i \in known : row.uses >= programs[i].uses /\ row.sum >= programs[i].sum

WithProgram(programs, row) ==
  LET p == [id |-> row.id, uses |-> row.uses, sum |-> row.sum]
  IN IF row.event = "add" THEN Append(programs, p)
     ELSE [programs EXCEPT ![CHOOSE i \in Known(programs, row.id) : TRUE] = p]

Read(database, row) ==
  IF database.refused \/ ~Follows(database.programs, row)
  THEN [database EXCEPT !.refused = TRUE]
  ELSE [database EXCEPT !.programs = WithProgram(@, row)]

Replayed(rows) ==
  LET after[n \in 0 .. Len(rows)] ==
        IF n = 0 THEN [refused |-> FALSE, programs |-> <<>>]
        ELSE Read(after[n - 1], rows[n])
  IN after[Len(rows)]
=============================================================================
