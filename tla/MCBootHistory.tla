--------------------------- MODULE MCBootHistory ---------------------------
(***************************************************************************)
(* The instances of MCBootloader with the history variable.                *)
(***************************************************************************)
EXTENDS MCBootloader, BootHistory
=============================================================================
