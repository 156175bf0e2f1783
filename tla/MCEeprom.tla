------------------------------ MODULE MCEeprom ------------------------------
(***************************************************************************)
(* Small instances of Eeprom: four bytes in pages of two, in one chip or   *)
(* in two.                                                                 *)
(***************************************************************************)
EXTENDS Eeprom

CONSTANTS x, y
=============================================================================
