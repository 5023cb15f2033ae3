--------------------------- MODULE MCLLMEnsemble ---------------------------
(***************************************************************************)
(* Small instances of LLMEnsemble for TLC.                                 *)
(***************************************************************************)
EXTENDS LLMEnsemble

MCRoles == {"mutation", "prompt:evolve"}
MutationOnly == {"mutation"}
MCScopeRoles ==
  [s \in {"mutation", "prompt:*", "*"} |->
     CASE s = "mutation" -> {"mutation"}
       [] s = "prompt:*" -> {"prompt:evolve"}
       [] s = "*" -> MCRoles]
None == <<>>
ThreeCallsTwoMutations ==
  [s \in {"*", "mutation"} |-> IF s = "*" THEN 3 ELSE 2]
MutationOnFirst == [r \in {"mutation"} |-> {0}]
MutationOnTwo == [r \in {"mutation"} |-> {0, 1}]
QuarantineMutation == [r \in {"mutation"} |-> 1]
QuarantineBoth == [r \in MCRoles |-> 1]
ZeroAndTwo == {0, 2}
=============================================================================
