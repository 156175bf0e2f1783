------------------------------ MODULE FlashIf ------------------------------
(***************************************************************************)
(* The internal flash as the boot loader sees it: two slots (user and      *)
(* backup) of SlotCells cells each, and what erasing, programming and      *)
(* reading a slot's header do.                                             *)
(*                                                                         *)
(* A cell stands for one 512-byte TFTP block, the unit in which a firmware *)
(* file reaches the flash.  Cell 0 of a slot carries the FirmwareTag       *)
(* (size, crc, version, valid_flag, filename); cell 1 starts the image     *)
(* proper and with it the stack pointer main() inspects.  A cell is        *)
(* erased, holds cell k of the file of image i (<<i, k>>), or holds        *)
(* Garbage: bits no file contains (a torn erase or program, two values     *)
(* programmed over each other, the text of a TFTP ERROR packet).           *)
(***************************************************************************)
EXTENDS Integers

CONSTANTS
    Images,       \* the firmware files an operator may send
    BodyCells,    \* BodyCells[i]: cells of image i after the tag
    Tagged,       \* images whose tag has valid_flag = 0xA5A5A5A5
    CrcOk,        \* images whose tag states the CRC of their own body
    Ragged,       \* images whose size is not a multiple of four bytes
    Exact,        \* images whose file length is a multiple of 512 bytes
    SlotCells,    \* cells of one slot
    NumSectors,   \* flash sectors of one slot
    SectorOf,     \* SectorOf[c]: the sector of the slot that holds cell c
    LenMod,       \* what a uint16_t word count wraps at, in cells
    Erased,       \* an erased cell
    Garbage       \* a cell whose bits belong to no file

ASSUME FlashAssumption ==
    /\ BodyCells \in [Images -> Nat \ {0}]
    /\ Tagged \subseteq Images
    /\ CrcOk \subseteq Images
    /\ Ragged \subseteq Images
    /\ Exact \subseteq Images
    /\ SlotCells \in Nat \ {0, 1}
    /\ NumSectors \in Nat \ {0}
    /\ SectorOf \in [0..(SlotCells - 1) -> 0..(NumSectors - 1)]
    /\ LenMod \in 1..SlotCells
    /\ Erased # Garbage
    /\ {Erased, Garbage} \cap (Images \X Nat) = {}

Cell == 0..(SlotCells - 1)

Content == {Erased, Garbage} \union (Images \X Nat)

-----------------------------------------------------------------------------
(* HAL_FLASHEx_Erase clears the sectors of a slot one by one.              *)
EraseSector(slot, s) ==
    [c \in Cell |-> IF SectorOf[c] = s THEN Erased ELSE slot[c]]

(* What a cell holds after v is programmed over old: programming only      *)
(* clears bits, so anything but an erased cell or the same value is mixed. *)
Programmed(old, v) ==
    IF old \in {Erased, v} THEN v
    ELSE IF v = Erased THEN old
    ELSE Garbage

(* What the test valid_flag == 0xA5A5A5A5 may give for a slot's cell 0.    *)
(* A damaged tag may have kept its flag.                                   *)
ValidFlag(c) ==
    CASE c = Garbage -> BOOLEAN
      [] \E i \in Tagged : c = <<i, 0>> -> {TRUE}
      [] OTHER -> {FALSE}

(* Mutant of CopyLens: the 1024 bytes of the tag are left out. *)
CopyLensWithoutTag(c) ==
    IF c = Erased THEN {1}
    ELSE IF \E i \in Tagged : c = <<i, 0>>
    THEN {BodyCells[i] % LenMod : i \in {j \in Tagged : c = <<j, 0>>}}
    ELSE 0..(LenMod - 1)

(* data_len = (size + 1024) / 4, kept in a uint16_t, for the size found in *)
(* a slot's cell 0.  The division drops the last bytes of a ragged image.  *)
(* An erased size plus 1024 wraps to 1023: the copy covers tag words only. *)
(* A cell that is no tag yields any size.                                  *)
CopyLens(c) ==
    IF c = Erased THEN {1}
    ELSE IF \E i \in Tagged : c = <<i, 0>>
    THEN {(BodyCells[i] + (IF i \in Ragged THEN 0 ELSE 1)) % LenMod :
             i \in {j \in Tagged : c = <<j, 0>>}}
    ELSE 0..(LenMod - 1)

(* What the range test on the stack pointer at +0x400 may give for the     *)
(* cell found there.                                                       *)
StackPointerOk(c) ==
    CASE c = Erased -> {FALSE}
      [] \E i \in Images : c = <<i, 1>> -> {TRUE}
      [] OTHER -> BOOLEAN

(* The slot holds the whole file of image i. *)
Holds(slot, i) ==
    /\ BodyCells[i] < SlotCells
    /\ \A k \in 0..BodyCells[i] : slot[k] = <<i, k>>
=============================================================================
