---------------------------- MODULE MCBootloader ----------------------------
(***************************************************************************)
(* Small instances of Bootloader.  Five firmware files: v and w work,      *)
(* h hangs, b has a wrong CRC in its tag, r carries no tag.  Slots of four *)
(* cells in one or two sectors; copies wrap at four cells.                 *)
(***************************************************************************)
EXTENDS Bootloader

CONSTANTS v, w, h, b, r

MCImages    == {v, w, h, b, r}
MCBodyCells == [i \in MCImages |-> IF i \in {v, r} THEN 1 ELSE 2]
MCSectorOf  == [c \in 0..3 |-> c \div 2]
MCOneSector == [c \in 0..3 |-> 0]

(* Where flash operations may fail: one working and one failing image of *)
(* two cells each, in slots of three.                                    *)
FewImages    == {v, h}
FewBodyCells == [i \in FewImages |-> 1]
FewSectorOf  == [c \in 0..2 |-> c \div 2]
=============================================================================
