----------------------------- MODULE MCJsonlLog -----------------------------
(***************************************************************************)
(* Small instances of JsonlLog for TLC; writers are interchangeable.       *)
(***************************************************************************)
EXTENDS JsonlLog, TLC

Symmetry == Permutations(Writers)
=============================================================================
