---------------------------- MODULE MCEvolveLoop ---------------------------
(***************************************************************************)
(* Small instances of EvolveLoop for TLC.  A configuration names a set of  *)
(* limits and a set of results; the remaining constants are numbers.       *)
(***************************************************************************)
EXTENDS EvolveLoop, TLC

MCRoles == {"mutation"}
MCScopeRoles == [s \in {"mutation"} |-> {"mutation"}]
NoRoleLimits == [m \in RoleMeters |-> <<>>]
RoleTokenLimit ==
  [NoRoleLimits EXCEPT !["llm_role_token_limits"] = [s \in {"mutation"} |-> 2]]

NoLimits == <<>>
AllLimits ==
  [m \in {"max_llm_calls", "max_evaluations"} |-> 3]
    @@ "max_llm_tokens" :> 2 @@ "max_evaluator_timeouts" :> 1

Good == [fitness |-> 1, valid |-> TRUE, strict |-> TRUE]
Loose == [fitness |-> 1, valid |-> TRUE, strict |-> FALSE]
Low == [fitness |-> -1, valid |-> TRUE, strict |-> TRUE]
Invalid == [fitness |-> 0, valid |-> FALSE, strict |-> FALSE]
Broken == [fitness |-> -2, valid |-> FALSE, strict |-> FALSE]
GoodOrInvalid == {Good, Invalid}
LooseGoodOrLow == {Loose, Good, Low}
GoodOrLow == {Good, [Low EXCEPT !.strict = FALSE]}

Free == [m \in EvaluatorMeters |-> 0]
OneTimeout == [Free EXCEPT !["max_evaluator_timeouts"] = 1]
FreeEvaluations == {Free}
TimingOutEvaluations == {Free, OneTimeout}

Attempt == [m \in LLMMeters |-> IF m = "max_llm_provider_attempts" THEN 1
                                ELSE 0]
OneToken == [Attempt EXCEPT !["max_llm_tokens"] = 1]
Attempts == {Attempt}
Tokens == {Attempt, OneToken}
TokenEach == {OneToken}

Symmetry == Permutations(Workspaces)
=============================================================================
