--------------------------- MODULE MCProviderCall ---------------------------
(***************************************************************************)
(* Small instances of ProviderCall for TLC.                                *)
(***************************************************************************)
EXTENDS ProviderCall
=============================================================================
