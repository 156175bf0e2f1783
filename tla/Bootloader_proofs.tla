------------------------- MODULE Bootloader_proofs -------------------------
(***************************************************************************)
(* Proofs about Bootloader, for every set of images, slot size, sector     *)
(* layout and wrap of the word count.                                      *)
(***************************************************************************)
EXTENDS Bootloader, TLAPS

-----------------------------------------------------------------------------
(* Facts about the flash operators. *)

(* Erasing a sector keeps a slot well typed. *)
LEMMA EraseSectorType ==
    ASSUME NEW slot \in [Cell -> Content], NEW s
    PROVE  EraseSector(slot, s) \in [Cell -> Content]
BY DEF EraseSector, Content

(* Programming a value over a content gives a content. *)
LEMMA ProgrammedType ==
    ASSUME NEW old \in Content, NEW v \in Content
    PROVE  Programmed(old, v) \in Content
BY DEF Programmed, Content

(* A word count is a natural number, short of where it wraps. *)
LEMMA CopyLensType ==
    ASSUME NEW c, NEW n \in CopyLens(c)
    PROVE  n \in Nat /\ n <= LenMod
<1>1. LenMod \in Nat /\ LenMod > 0
  BY FlashAssumption
<1>2. CASE c = Erased
  BY <1>1, <1>2 DEF CopyLens
<1>3. CASE c # Erased /\ \E i \in Tagged : c = <<i, 0>>
  <2>1. PICK i \in Tagged :
          n = (BodyCells[i] + (IF i \in Ragged THEN 0 ELSE 1)) % LenMod
    BY <1>3 DEF CopyLens
  <2>2. BodyCells[i] + (IF i \in Ragged THEN 0 ELSE 1) \in Nat
    BY FlashAssumption
  <2>3. QED BY <1>1, <2>1, <2>2
<1>4. CASE c # Erased /\ ~ \E i \in Tagged : c = <<i, 0>>
  BY <1>1, <1>4 DEF CopyLens
<1>5. QED BY <1>2, <1>3, <1>4

(* Damaging cells keeps a slot well typed. *)
LEMMA DamagedType ==
    ASSUME NEW slot \in [Cell -> Content], NEW D
    PROVE  Damaged(slot, D) \in [Cell -> Content]
BY DEF Damaged, Content

(* Damaging no cell changes nothing. *)
LEMMA DamagedNothing ==
    ASSUME NEW slot \in [Cell -> Content], NEW D \in SUBSET {}
    PROVE  Damaged(slot, D) = slot
<1>1. Damaged(slot, D) = [c \in Cell |-> slot[c]]
  BY DEF Damaged
<1>2. QED BY <1>1

(* What a failing write leaves is a slot. *)
LEMMA FailedType ==
    ASSUME NEW slot \in [Cell -> Content], NEW c, NEW new \in Failed(slot, c)
    PROVE  new \in [Cell -> Content]
<1>1. new = slot \/ new = Damaged(slot, {c})
  BY DEF Failed
<1>2. QED BY <1>1, DamagedType

(* A block keeps the slots and the write address in their ranges. *)
LEMMA WriteBlockType ==
    ASSUME TypeOK, NEW v \in Content, WriteBlock(v)
    PROVE  /\ user' \in [Cell -> Content]
           /\ backup' \in [Cell -> Content]
           /\ waddr' \in 0..(2 * SlotCells)
<1> USE FlashAssumption
<1>1. waddr' \in 0..(2 * SlotCells)
  BY DEF WriteBlock, TypeOK
<1>2. CASE \E A : Spoil(A)
  <2>1. PICK A : Spoil(A)
    BY <1>2
  <2>2. user' = Damaged(user, A) /\ backup' = Damaged(backup, {a - SlotCells : a \in A})
    BY <2>1 DEF Spoil
  <2>3. user' \in [Cell -> Content]
    BY <2>2, DamagedType DEF TypeOK
  <2>4. backup' \in [Cell -> Content]
    BY <2>2, DamagedType DEF TypeOK
  <2>5. QED BY <1>1, <2>3, <2>4
<1>3. CASE ~ \E A : Spoil(A)
  <2>1. \/ UNCHANGED <<user, backup>>
        \/ /\ UNCHANGED backup
           /\ user' = [user EXCEPT ![waddr] = Programmed(user[waddr], v)]
        \/ /\ UNCHANGED user
           /\ backup' = [backup EXCEPT ![waddr - SlotCells] =
                           Programmed(backup[waddr - SlotCells], v)]
    BY <1>3 DEF WriteBlock
  <2>2. \A c \in Cell : Programmed(user[c], v) \in Content
    BY ProgrammedType DEF TypeOK
  <2>3. \A c \in Cell : Programmed(backup[c], v) \in Content
    BY ProgrammedType DEF TypeOK
  <2>4. user' \in [Cell -> Content]
    BY <2>1, <2>2 DEF TypeOK
  <2>5. backup' \in [Cell -> Content]
    BY <2>1, <2>3 DEF TypeOK
  <2>6. QED BY <1>1, <2>4, <2>5
<1>4. QED BY <1>2, <1>3

(* While fewer blocks than the slot has cells have been accepted, a block  *)
(* does not reach the backup slot, whatever failed before.                 *)
LEMMA WriteBlockInUser ==
    ASSUME TypeOK, NEW v, WriteBlock(v), sess \in Nat,
           waddr <= sess, sess < SlotCells
    PROVE  backup' = backup /\ waddr' \in {waddr, waddr + 1}
<1> USE FlashAssumption
<1>1. waddr \in Nat /\ SlotCells \in Nat /\ backup \in [Cell -> Content]
  BY DEF TypeOK
<1>2. waddr' \in {waddr, waddr + 1}
  BY <1>1 DEF WriteBlock
<1>3. CASE \E A \in SUBSET (0..(SlotCells - 1)) : Spoil(A)
  <2>1. PICK A \in SUBSET (0..(SlotCells - 1)) : Spoil(A)
    BY <1>3
  <2>2. \A c \in Cell : c \notin {a - SlotCells : a \in A}
    BY <1>1, <2>1 DEF Cell
  <2>3. backup' = Damaged(backup, {a - SlotCells : a \in A})
    BY <2>1 DEF Spoil
  <2>4. Damaged(backup, {a - SlotCells : a \in A}) = [c \in Cell |-> backup[c]]
    BY <2>2 DEF Damaged
  <2>5. QED BY <1>1, <1>2, <2>3, <2>4
<1>4. CASE ~ \E A \in SUBSET (0..(SlotCells - 1)) : Spoil(A)
  <2>1. {waddr} \in SUBSET (0..(SlotCells - 1))
    BY <1>1
  <2>2. waddr < sess => {waddr, waddr + 1} \in SUBSET (0..(SlotCells - 1))
    BY <1>1
  <2>3. ~Spoil({waddr}) /\ (waddr < sess => ~Spoil({waddr, waddr + 1}))
    BY <1>4, <2>1, <2>2
  <2>4. QED BY <1>1, <1>2, <2>3 DEF WriteBlock
<1>5. QED BY <1>3, <1>4

(* A restart puts everything held in RAM into its range. *)
LEMMA RestartType ==
    ASSUME Restart,
           user' \in [Cell -> Content], backup' \in [Cell -> Content],
           bkp' \in BOOLEAN, iwdg' \in BOOLEAN
    PROVE  TypeOK'
BY FlashAssumption, BootAssumption DEF Restart, TypeOK, NoSess

-----------------------------------------------------------------------------
(* Type correctness of the boot loader: every variable, the flash contents *)
(* and the write address included, stays in its range whatever packets     *)
(* arrive and whatever resets interrupt.                                   *)
THEOREM TypeCorrect == Spec => []TypeOK
<1>1. Init => TypeOK
  <2> SUFFICES ASSUME Init PROVE TypeOK
    OBVIOUS
  <2>1. PICK i \in Working :
          user = [c \in Cell |-> IF c <= BodyCells[i] THEN <<i, c>> ELSE Erased]
    BY DEF Init
  <2>2. \A c \in Cell : <<i, c>> \in Content /\ Erased \in Content
    BY FlashAssumption, BootAssumption DEF Content, Cell
  <2>3. user \in [Cell -> Content]
    BY <2>1, <2>2
  <2>4. backup \in [Cell -> Content]
    BY DEF Init, Content
  <2>5. QED
    <3>1. 0 \in 0..(2 * SlotCells) /\ PbufPool \in 0..PbufPool
      BY FlashAssumption, BootAssumption
    <3>2. bkp \in BOOLEAN /\ iwdg \in BOOLEAN
      BY DEF Init
    <3>3. QED
      BY <2>3, <2>4, <3>1, <3>2 DEF Init, TypeOK
<1>2. TypeOK /\ [Next]_vars => TypeOK'
  <2> SUFFICES ASSUME TypeOK, [Next]_vars PROVE TypeOK'
    OBVIOUS
  <2> USE FlashAssumption, BootAssumption
  <2>0. /\ write_boot_flag_soft_reset => bkp' \in BOOLEAN
        /\ clear_boot_flag => bkp' \in BOOLEAN
    BY DEF write_boot_flag_soft_reset, clear_boot_flag, TypeOK
  <2>1. CASE BootStep
    <3>1. CASE BootNoFirmware
      BY <2>0, <3>1, RestartType DEF BootNoFirmware, TypeOK, flash
    <3>2. CASE BootApp \/ BootKernel
      <4>1. CASE BootApp
        BY <4>1, SMTT(30) DEF BootApp, TypeOK, flash, tcpip, main
      <4>2. CASE BootKernel
        BY <4>2, SMTT(30) DEF BootKernel, TypeOK, flash, tcpip, main
      <4>3. QED BY <3>2, <4>1, <4>2
    <3>3. QED BY <2>1, <3>1, <3>2 DEF BootStep
  <2>2. CASE AppSoftReset \/ AppHangs
    BY <2>2, RestartType DEF AppSoftReset, AppHangs, TypeOK, flash
  <2>3. CASE Packet
    <3>1. CASE \E op \in {"wrq", "other"} : RecvPort69(op)
      BY <3>1 DEF RecvPort69, TypeOK, flash, main
    <3>2. ASSUME NEW blk \in Nat, NEW v \in Content, NEW size,
                 HandleBlock(blk, v, size)
          PROVE  TypeOK'
      <4>1. WriteBlock(v) \/ UNCHANGED <<user, backup, waddr>>
        BY <3>2 DEF HandleBlock
      <4>2. user' \in [Cell -> Content]
        BY <4>1, WriteBlockType DEF TypeOK
      <4>3. backup' \in [Cell -> Content]
        BY <4>1, WriteBlockType DEF TypeOK
      <4>4. waddr' \in 0..(2 * SlotCells)
        BY <4>1 DEF WriteBlock, TypeOK
      <4>5. sess' \in Nat \union {NoSess}
        BY <3>2 DEF HandleBlock, TypeOK
      <4>6. QED
        BY <3>2, <4>2, <4>3, <4>4, <4>5 DEF HandleBlock, TypeOK, main
    <3>3. CASE \E i \in Images : \E k \in 0..BodyCells[i] : RecvData(i, k)
      BY <3>2, <3>3 DEF RecvData, Content
    <3>4. CASE \E i \in Exact : RecvEmpty(i)
      BY <3>2, <3>4 DEF RecvEmpty, Content
    <3>5. CASE \E e \in ErrorCodes : RecvError(e)
      BY <3>2, <3>5 DEF RecvError, Content
    <3>6. CASE SoftResetCommand \/ ResetCommand
      BY <2>0, <3>6, RestartType DEF SoftResetCommand, ResetCommand, TypeOK,
         flash
    <3>7. CASE RecvChained
      BY <3>7 DEF RecvChained, TypeOK, flash, tcpip, main
    <3>8. QED BY <2>3, <3>1, <3>3, <3>4, <3>5, <3>6, <3>7 DEF Packet
  <2>4. CASE TcpipStep
    <3>1. CASE BackupErase
      BY <3>1, EraseSectorType, CopyLensType, SMTT(30)
         DEF BackupErase, TypeOK, main
    <3>2. CASE BackupCopy
      BY <3>2, ProgrammedType, FailedType, SMTT(30) DEF BackupCopy, TypeOK, main
    <3>3. CASE UserErase
      BY <3>3, EraseSectorType DEF UserErase, TypeOK, main
    <3>4. CASE RestoreErase
      BY <3>4, EraseSectorType, CopyLensType, SMTT(30)
         DEF RestoreErase, TypeOK, main
    <3>5. CASE RestoreCopy
      BY <3>5, ProgrammedType, FailedType, SMTT(30) DEF RestoreCopy, TypeOK, main
    <3>6. CASE BackupStart \/ BackupDone \/ OpenRefused \/ RestoreStart
      <4>1. CASE BackupStart
        BY <4>1 DEF BackupStart, TypeOK, flash, main
      <4>2. CASE BackupDone
        BY <4>2 DEF BackupDone, TypeOK, flash, main
      <4>3. CASE OpenRefused
        BY <4>3 DEF OpenRefused, TypeOK, flash, main
      <4>4. CASE RestoreStart
        BY <4>4 DEF RestoreStart, TypeOK, flash, main
      <4>5. QED BY <3>6, <4>1, <4>2, <4>3, <4>4
    <3>7. CASE OpenSession
      BY <3>7 DEF OpenSession, TypeOK, flash, main
    <3>8. CASE EndVerified
      BY <3>8 DEF EndVerified, TypeOK, flash, main
    <3>9. CASE EndUntagged \/ CrcSame \/ RestoreEnd
      BY <2>0, <3>9, RestartType DEF EndUntagged, CrcSame, RestoreEnd, TypeOK,
         flash
    <3>10. CASE OpenNoPcb
      BY <3>10 DEF OpenNoPcb, TypeOK, flash, main
    <3>11. QED
      BY <2>4, <3>1, <3>2, <3>3, <3>4, <3>5, <3>6, <3>7, <3>8, <3>9, <3>10
         DEF TcpipStep
  <2>5. CASE MainStep
    <3>1. CASE WdgErase
      BY <3>1, EraseSectorType, CopyLensType, SMTT(30) DEF WdgErase, TypeOK, tcpip
    <3>2. CASE WdgProgram
      BY <3>2, ProgrammedType, DamagedType, SMTT(30) DEF WdgProgram, TypeOK, tcpip
    <3>3. CASE WdgCatch \/ WdgLock
      <4>1. CASE WdgCatch
        BY <4>1, SMTT(30) DEF WdgCatch, TypeOK, flash, tcpip
      <4>2. CASE WdgLock
        BY <4>2, SMTT(30) DEF WdgLock, TypeOK, flash, tcpip
      <4>3. QED BY <3>3, <4>1, <4>2
    <3>4. CASE WdgEnd
      BY <2>0, <3>4 DEF WdgEnd, TypeOK, flash, tcpip
    <3>5. QED BY <2>5, <3>1, <3>2, <3>3, <3>4 DEF MainStep
  <2>6. CASE PowerLoss \/ WatchdogStarved
    <3>1. Tear
      BY <2>6 DEF PowerLoss, WatchdogStarved
    <3>2. PICK D : user' = Damaged(user, D)
      BY <3>1, Zenon DEF Tear
    <3>3. PICK E : backup' = Damaged(backup, E)
      BY <3>1, Zenon DEF Tear
    <3>4. user' \in [Cell -> Content] /\ backup' \in [Cell -> Content]
      BY <3>2, <3>3, DamagedType DEF TypeOK
    <3>5. bkp' \in BOOLEAN /\ iwdg' \in BOOLEAN /\ Restart
      BY <2>6 DEF PowerLoss, WatchdogStarved, TypeOK
    <3>6. QED BY <3>4, <3>5, RestartType
  <2>7. CASE UNCHANGED vars
    BY <2>7 DEF vars, tcpip, main, TypeOK
  <2>8. QED BY <2>1, <2>2, <2>3, <2>4, <2>5, <2>6, <2>7 DEF Next
<1>3. QED BY <1>1, <1>2, PTL DEF Spec

-----------------------------------------------------------------------------
(* Steps towards Recoverable. *)

(* A count below the modulus does not wrap. *)
LEMMA NoWrap ==
    ASSUME NEW n \in Nat, NEW m \in Nat, n < m
    PROVE  n % m = n
BY SMTT(20)

(* The tag of well-made working firmware: its flag is set and the word     *)
(* count computed from its size covers all of it.                          *)
LEMMA WorkingTag ==
    ASSUME WellMade, NEW slot, NEW i \in Working, Holds(slot, i)
    PROVE  /\ ValidFlag(slot[0]) = {TRUE}
           /\ CopyLens(slot[0]) = {BodyCells[i] + 1}
<1> USE FlashAssumption, BootAssumption
<1>1. slot[0] = <<i, 0>> /\ i \in Tagged /\ i \notin Ragged
  BY DEF Holds, WellMade
<1>2. <<i, 0>> \in Images \X Nat
  OBVIOUS
<1>3. slot[0] # Erased /\ slot[0] # Garbage
  BY <1>1, <1>2
<1>4. {j \in Tagged : slot[0] = <<j, 0>>} = {i}
  BY <1>1
<1>5. BodyCells[i] + 1 \in Nat /\ BodyCells[i] + 1 < LenMod /\ LenMod \in Nat
  BY DEF WellMade
<1>6. (BodyCells[i] + 1) % LenMod = BodyCells[i] + 1
  BY <1>5, NoWrap
<1>7. CopyLens(slot[0]) = {BodyCells[i] + 1}
  BY <1>1, <1>3, <1>4, <1>6 DEF CopyLens
<1>8. ValidFlag(slot[0]) = {TRUE}
  BY <1>1, <1>3 DEF ValidFlag
<1>9. QED BY <1>7, <1>8

(* After a restart only the slots and the watchdog flag matter. *)
LEMMA RestartInv ==
    ASSUME Restart, Recoverable', RollbackHasSource'
    PROVE  IInv'
BY DEF Restart, IInv, BackupPhase, UpdatePhase, Separation, WriteBound

(* A good backup that a step keeps is a good backup after it. *)
LEMMA BackupKept ==
    ASSUME BackupGood, backup' = backup
    PROVE  BackupGood'
BY DEF BackupGood, BackupHolds

(* Outside the backup phase a good backup is all Recoverable rests on. *)
LEMMA GoodBackupSuffices ==
    ASSUME BackupGood',
           tpc' \notin {"bkMsg", "bkErase", "bkCopy"},
           Separation', WriteBound'
    PROVE  IInv'
BY DEF IInv, BackupGood, Recoverable, RollbackHasSource, BackupPhase,
       UpdatePhase

(* A torn reset keeps the good slot good: the slot at risk is never the    *)
(* only good one.                                                          *)
LEMMA TearKeepsGood ==
    ASSUME TypeOK, IInv, Tear
    PROVE  Recoverable' /\ (tpc \notin {"bkErase", "bkCopy"} /\ BackupGood
                              => BackupGood')
<1> USE FlashAssumption, BootAssumption
<1>1. CASE tpc \in {"bkErase", "bkCopy"}
  <2>1. UserAtRisk = {}
    BY <1>1 DEF UserAtRisk, IInv, Separation
  <2>2. PICK D \in SUBSET UserAtRisk : user' = Damaged(user, D)
    BY DEF Tear
  <2>3. user' = user
    BY <2>1, <2>2, DamagedNothing DEF TypeOK
  <2>4. AppWorks
    BY <1>1 DEF IInv, BackupPhase
  <2>5. QED BY <1>1, <2>3, <2>4 DEF AppWorks, UserHolds, Recoverable
<1>2. CASE tpc \notin {"bkErase", "bkCopy"}
  <2>1. sess # NoSess /\ tpc = "idle" => waddr < SlotCells
    BY DEF IInv, WriteBound, TypeOK, NoSess
  <2>2. BackupAtRisk = {}
    BY <1>2, <2>1 DEF BackupAtRisk, Cell, TypeOK
  <2>3. PICK D \in SUBSET BackupAtRisk : backup' = Damaged(backup, D)
    BY DEF Tear
  <2>4. backup' = backup
    BY <2>2, <2>3, DamagedNothing DEF TypeOK
  <2>5. CASE BackupGood
    BY <2>4, <2>5, BackupKept DEF Recoverable, BackupGood
  <2>6. CASE ~BackupGood
    <3>1. tpc \in {"idle", "bkMsg"} /\ sess = NoSess /\ mpc = "loop"
      BY <1>2, <2>6 DEF IInv, UpdatePhase, Separation, RollbackHasSource,
         BackupGood
    <3>2. UserAtRisk = {}
      BY <3>1 DEF UserAtRisk
    <3>3. PICK E \in SUBSET UserAtRisk : user' = Damaged(user, E)
      BY DEF Tear
    <3>4. user' = user
      BY <3>2, <3>3, DamagedNothing DEF TypeOK
    <3>5. QED
      BY <2>4, <2>6, <3>4 DEF IInv, Recoverable, UserHolds, BackupHolds,
         BackupGood
  <2>7. QED BY <2>5, <2>6
<1>3. QED BY <1>1, <1>2

(* Resets without a tear: the slots are as before. *)
LEMMA PlainRestart ==
    ASSUME IInv, Restart, UNCHANGED flash,
           iwdg' = iwdg \/ (iwdg' = TRUE /\ BackupGood)
    PROVE  IInv'
<1>1. Recoverable'
  BY DEF IInv, Recoverable, UserHolds, BackupHolds, flash
<1>2. RollbackHasSource'
  BY DEF IInv, RollbackHasSource, BackupHolds, BackupGood, flash
<1>3. QED BY <1>1, <1>2, RestartInv

-----------------------------------------------------------------------------
(* One lemma per group of actions: each preserves the invariant. *)

(* main() and the application. *)
LEMMA BootStepsInv ==
    ASSUME Calm, IInv, BootStep \/ AppSoftReset \/ AppHangs
    PROVE  IInv'
<1>1. CASE BootApp \/ BootKernel
  <2>1. /\ mode = "reset"
        /\ UNCHANGED <<user, backup, iwdg, tpc, idx, cnt, sess, waddr, mpc>>
    BY <1>1 DEF BootApp, BootKernel, flash, tcpip, main
  <2>2. Separation'
    BY <2>1 DEF IInv, Separation
  <2>3. QED
    BY <2>1, <2>2 DEF IInv, Recoverable, RollbackHasSource, BackupPhase,
       AppWorks, UpdatePhase, BackupGood, WriteBound, UserHolds, BackupHolds
<1>2. CASE BootNoFirmware
  BY <1>2, PlainRestart DEF BootNoFirmware
<1>3. CASE AppSoftReset
  BY <1>3, PlainRestart DEF AppSoftReset
<1>4. CASE AppHangs
  <2>1. ~AppWorks
    BY <1>4 DEF AppHangs, Calm
  <2>2. BackupGood
    BY <2>1 DEF IInv, Recoverable, AppWorks, BackupGood
  <2>3. QED BY <1>4, <2>2, PlainRestart DEF AppHangs
<1>5. QED BY <1>1, <1>2, <1>3, <1>4 DEF BootStep

(* A packet on port 69: with working firmware in the user slot it starts a *)
(* backup, otherwise the backup is the good slot.                          *)
LEMMA RecvPort69Inv ==
    ASSUME WellMade, Calm, TypeOK, IInv, NEW op, RecvPort69(op)
    PROVE  IInv'
<1> USE FlashAssumption, BootAssumption
<1>1. ~iwdg /\ mpc = "loop" /\ mode = "boot" /\ tpc = "idle"
  BY DEF RecvPort69, Port69Expected, Calm, IInv, Separation
<1>2. PICK valid \in ValidFlag(user[0]) :
        tpc' = IF valid THEN "bkMsg" ELSE "open"
  BY DEF RecvPort69
<1>3. TRUE \notin ValidFlag(user[0]) \/ AppWorks
  BY DEF RecvPort69, Port69Expected, Calm
<1>4. UNCHANGED <<user, backup, iwdg, mode, sess, waddr, mpc, idx>>
  BY DEF RecvPort69, flash, main
<1>5. CASE AppWorks
  <2>1. ValidFlag(user[0]) = {TRUE}
    BY <1>5, WorkingTag DEF AppWorks, UserHolds
  <2>2. tpc' = "bkMsg"
    BY <1>2, <2>1
  <2>3. QED
    BY <1>1, <1>4, <1>5, <2>2 DEF IInv, Recoverable, RollbackHasSource,
       BackupPhase, AppWorks, UpdatePhase, BackupGood, Separation,
       WriteBound, UserHolds, BackupHolds
<1>6. CASE ~AppWorks
  <2>1. BackupGood'
    BY <1>4, <1>6, BackupKept DEF IInv, Recoverable, AppWorks, BackupGood
  <2>2. tpc' = "open"
    <3>1. valid # TRUE
      BY <1>3, <1>6
    <3>2. valid \in BOOLEAN
      BY <1>2 DEF ValidFlag
    <3>3. QED BY <1>2, <3>1, <3>2
  <2>3. Separation' /\ WriteBound'
    BY <1>1, <1>4, <2>2 DEF IInv, Separation, WriteBound
  <2>4. QED BY <2>1, <2>2, <2>3, GoodBackupSuffices
<1>7. QED BY <1>5, <1>6

(* A packet of an open transfer writes to the user slot only. *)
LEMMA HandleBlockInv ==
    ASSUME Calm, TypeOK, IInv, NEW blk \in Nat, NEW v, NEW size,
           size = "full" => blk < SlotCells,
           HandleBlock(blk, v, size)
    PROVE  IInv'
<1> USE FlashAssumption, BootAssumption
<1>1. sess \in Nat /\ waddr \in Nat /\ tpc = "idle" /\ mode = "boot"
  BY DEF HandleBlock, TypeOK
<1>2. waddr <= sess /\ sess < SlotCells
  BY <1>1 DEF HandleBlock, IInv, WriteBound
<1>3. BackupGood /\ ~iwdg /\ mpc = "loop"
  BY <1>1 DEF HandleBlock, IInv, UpdatePhase, Separation, NoSess
<1>4. backup' = backup /\ waddr' \in {waddr, waddr + 1}
      /\ (blk # sess + 1 => waddr' = waddr)
  <2>1. WriteBlock(v) \/ UNCHANGED <<backup, waddr>>
    BY DEF HandleBlock
  <2>2. blk # sess + 1 => UNCHANGED waddr
    BY DEF HandleBlock
  <2>3. QED BY <1>1, <1>2, <2>1, <2>2, WriteBlockInUser
<1>5. sess' = (IF blk = sess + 1 THEN blk ELSE sess)
      /\ tpc' = (IF size = "full" THEN "idle" ELSE "endMsg")
      /\ iwdg' = iwdg /\ mpc' = mpc /\ mode' = mode
  BY DEF HandleBlock, main
<1>6. Separation'
  BY <1>1, <1>3, <1>5 DEF Separation
<1>7. WriteBound'
  BY <1>1, <1>2, <1>4, <1>5 DEF WriteBound
<1>8. QED
  BY <1>3, <1>4, <1>5, <1>6, <1>7, BackupKept, GoodBackupSuffices

(* The packets and commands the loader receives. *)
LEMMA PacketInv ==
    ASSUME WellMade, Calm, TypeOK, IInv, Packet
    PROVE  IInv'
<1> USE FlashAssumption, BootAssumption
<1>1. CASE \E op \in {"wrq", "other"} : RecvPort69(op)
  BY <1>1, RecvPort69Inv
<1>2. CASE \E i \in Images : \E k \in 0..BodyCells[i] : RecvData(i, k)
  <2>1. PICK i \in Images : \E k \in 0..BodyCells[i] : RecvData(i, k)
    BY <1>2
  <2>2. PICK k \in 0..BodyCells[i] : RecvData(i, k)
    BY <2>1
  <2>3. k + 1 \in Nat /\ k + 1 < SlotCells
    BY DEF WellMade
  <2>4. QED BY <2>2, <2>3, HandleBlockInv DEF RecvData
<1>3. CASE \E i \in Exact : RecvEmpty(i)
  <2>1. PICK i \in Exact : HandleBlock(BodyCells[i] + 2, Erased, "empty")
    BY <1>3 DEF RecvEmpty
  <2>2. BodyCells[i] + 2 \in Nat /\ "empty" # "full"
    OBVIOUS
  <2>3. QED BY <2>1, <2>2, HandleBlockInv
<1>4. CASE \E e \in ErrorCodes : RecvError(e)
  <2>1. PICK e \in ErrorCodes : HandleBlock(e, Garbage, "short")
    BY <1>4 DEF RecvError
  <2>2. e \in Nat /\ "short" # "full"
    OBVIOUS
  <2>3. QED BY <2>1, <2>2, HandleBlockInv
<1>5. CASE RecvChained
  BY <1>5 DEF RecvChained, IInv, Recoverable, RollbackHasSource, BackupPhase,
     AppWorks, UpdatePhase, BackupGood, Separation, WriteBound, UserHolds,
     BackupHolds, flash, tcpip, main
<1>6. CASE SoftResetCommand \/ ResetCommand
  BY <1>6, PlainRestart DEF SoftResetCommand, ResetCommand
<1>7. QED BY <1>1, <1>2, <1>3, <1>4, <1>5, <1>6 DEF Packet

(* The backup: erasing and copying go on from where the invariant says. *)
LEMMA BackupStepsInv ==
    ASSUME WellMade, Calm, TypeOK, IInv,
           BackupStart \/ BackupErase \/ BackupCopy \/ BackupDone
    PROVE  IInv'
<1> USE FlashAssumption, BootAssumption
<1>1. /\ tpc \in {"bkMsg", "bkErase", "bkCopy"}
      /\ mode = "boot" /\ ~iwdg /\ mpc = "loop" /\ AppWorks
  BY DEF BackupStart, BackupErase, BackupCopy, BackupDone, IInv, Separation,
     BackupPhase
<1>2. UNCHANGED <<user, iwdg, mode, sess, waddr, mpc>>
  BY DEF BackupStart, BackupErase, BackupCopy, BackupDone, flash, main
<1>3. HalOk /\ ~HalFails
  BY <1>1 DEF HalOk, HalFails, MainLocks, Calm
<1>4. AppWorks' /\ Recoverable' /\ RollbackHasSource'
  BY <1>1, <1>2 DEF AppWorks, UserHolds, Recoverable, RollbackHasSource
<1>5. tpc' \in {"bkErase", "bkCopy", "open"}
  BY <1>1, <1>3 DEF BackupStart, BackupErase, BackupCopy, BackupDone
<1>6. Separation' /\ WriteBound'
  BY <1>1, <1>2, <1>5 DEF Separation, IInv, WriteBound
<1>7. CASE BackupStart
  <2>1. tpc' = "bkErase" /\ idx' = 0
    BY <1>7 DEF BackupStart
  <2>2. \A c \in Cell : ~(SectorOf[c] < 0)
    BY DEF Cell
  <2>3. BackupPhase'
    BY <1>4, <2>1, <2>2 DEF BackupPhase
  <2>4. UpdatePhase'
    BY <2>1 DEF UpdatePhase
  <2>5. QED BY <1>4, <1>6, <2>3, <2>4 DEF IInv
<1>8. CASE BackupErase
  <2>1. /\ idx \in Nat /\ idx < NumSectors
        /\ \A c \in Cell : SectorOf[c] < idx => backup[c] = Erased
        /\ backup' = EraseSector(backup, idx)
    BY <1>3, <1>8 DEF BackupErase, IInv, BackupPhase, TypeOK
  <2>2. \A c \in Cell : SectorOf[c] < idx + 1 => backup'[c] = Erased
    BY <2>1 DEF EraseSector, Cell
  <2>3. CASE idx + 1 < NumSectors
    <3>1. tpc' = "bkErase" /\ idx' = idx + 1
      BY <1>3, <1>8, <2>3 DEF BackupErase
    <3>2. BackupPhase'
      BY <1>4, <2>2, <2>3, <3>1 DEF BackupPhase
    <3>3. QED BY <1>4, <1>6, <3>1, <3>2 DEF IInv, UpdatePhase
  <2>4. CASE ~(idx + 1 < NumSectors)
    <3>1. tpc' = "bkCopy" /\ idx' = 0 /\ cnt' \in CopyLens(user[0])
      BY <1>3, <1>8, <2>4 DEF BackupErase
    <3>2. PICK i \in Working : UserHolds(i)
      BY <1>1 DEF AppWorks
    <3>3. cnt' = BodyCells[i] + 1
      <4>1. Holds(user, i)
        BY <3>2 DEF UserHolds
      <4>2. CopyLens(user[0]) = {BodyCells[i] + 1}
        BY <3>2, <4>1, WorkingTag, Zenon
      <4>3. QED BY <3>1, <4>2
    <3>4. \A c \in Cell : backup'[c] = Erased
      BY <2>1, <2>2, <2>4 DEF Cell
    <3>5. \A c \in Cell : ~(c < 0)
      BY DEF Cell
    <3>6. UserHolds(i)' /\ 0 <= BodyCells[i] + 1
      BY <1>2, <3>2 DEF UserHolds
    <3>7. BackupPhase'
      BY <1>4, <3>1, <3>3, <3>4, <3>5, <3>6 DEF BackupPhase
    <3>8. QED BY <1>4, <1>6, <3>1, <3>7 DEF IInv, UpdatePhase
  <2>5. QED BY <2>3, <2>4
<1>9. CASE BackupCopy
  <2>1. PICK i \in Working :
          /\ UserHolds(i)
          /\ cnt = BodyCells[i] + 1
          /\ idx <= cnt
          /\ \A c \in Cell : backup[c] = IF c < idx THEN user[c] ELSE Erased
    BY <1>9 DEF BackupCopy, IInv, BackupPhase
  <2>2. idx \in Cell /\ idx < cnt /\ cnt' = cnt
    BY <1>9, <2>1 DEF BackupCopy, TypeOK, Cell, UserHolds, Holds
  <2>3. backup' = [backup EXCEPT ![idx] = Programmed(backup[idx], user[idx])]
    BY <1>3, <1>9 DEF BackupCopy
  <2>4. Programmed(backup[idx], user[idx]) = user[idx]
    BY <2>1, <2>2 DEF Programmed, Cell
  <2>5. backup'[idx] = user[idx]
    BY <2>2, <2>3, <2>4 DEF TypeOK
  <2>6. tpc' = "bkCopy" /\ idx' = idx + 1
    BY <1>3, <1>9, <2>5 DEF BackupCopy
  <2>7. \A c \in Cell : backup'[c] = IF c < idx + 1 THEN user[c] ELSE Erased
    BY <2>1, <2>2, <2>3, <2>5 DEF TypeOK, Cell
  <2>8. UserHolds(i)' /\ idx + 1 <= cnt
    BY <1>2, <2>1, <2>2 DEF UserHolds, Cell
  <2>9. BackupPhase'
    BY <1>2, <1>4, <2>1, <2>2, <2>6, <2>7, <2>8 DEF BackupPhase
  <2>10. QED BY <1>4, <1>6, <2>6, <2>9 DEF IInv, UpdatePhase
<1>10. CASE BackupDone
  <2>1. PICK i \in Working :
          /\ UserHolds(i)
          /\ cnt = BodyCells[i] + 1
          /\ idx <= cnt
          /\ \A c \in Cell : backup[c] = IF c < idx THEN user[c] ELSE Erased
    BY <1>10 DEF BackupDone, IInv, BackupPhase
  <2>2. idx = cnt /\ tpc' = "open" /\ backup' = backup
    BY <1>10, <2>1 DEF BackupDone, TypeOK, flash
  <2>3. BodyCells[i] \in Nat /\ BodyCells[i] < SlotCells
    BY <2>1 DEF UserHolds, Holds
  <2>4. \A k \in 0..BodyCells[i] : k \in Cell /\ k < idx
    BY <2>1, <2>2, <2>3 DEF Cell
  <2>5. BackupHolds(i)
    BY <2>1, <2>3, <2>4 DEF BackupHolds, UserHolds, Holds
  <2>6. BackupGood'
    BY <2>2, <2>5, BackupKept DEF BackupGood
  <2>7. QED BY <1>6, <2>2, <2>6, GoodBackupSuffices
<1>11. QED BY <1>7, <1>8, <1>9, <1>10

(* The other steps of the tcpip thread leave a good backup alone. *)
LEMMA UpdateStepsInv ==
    ASSUME Calm, TypeOK, IInv,
           \/ OpenNoPcb \/ OpenRefused \/ OpenSession \/ UserErase
           \/ EndVerified \/ RestoreStart \/ RestoreErase \/ RestoreCopy
    PROVE  IInv'
<1> USE FlashAssumption, BootAssumption
<1>1. /\ tpc \in {"open", "uErase", "endMsg", "badMsg", "rErase", "rCopy"}
      /\ mode = "boot"
  BY DEF OpenNoPcb, OpenRefused, OpenSession, UserErase, EndVerified,
     RestoreStart, RestoreErase, RestoreCopy
<1>2. BackupGood /\ ~iwdg /\ mpc = "loop"
  BY <1>1 DEF IInv, UpdatePhase, Separation
<1>3. UNCHANGED <<backup, iwdg, mode, mpc>>
  BY DEF OpenNoPcb, OpenRefused, OpenSession, UserErase, EndVerified,
     RestoreStart, RestoreErase, RestoreCopy, flash, main
<1>4. tpc' \notin {"bkMsg", "bkErase", "bkCopy"}
  BY <1>1 DEF OpenNoPcb, OpenRefused, OpenSession, UserErase, EndVerified,
     RestoreStart, RestoreErase, RestoreCopy
<1>5. Separation'
  BY <1>1, <1>2, <1>3 DEF Separation
<1>6. WriteBound'
  <2>1. CASE OpenNoPcb \/ OpenRefused
    BY <1>1, <2>1 DEF OpenNoPcb, OpenRefused, IInv, WriteBound, flash, main
  <2>2. CASE OpenSession
    BY <2>2 DEF OpenSession, WriteBound
  <2>3. CASE UserErase
    BY <2>3 DEF UserErase, IInv, WriteBound
  <2>4. CASE EndVerified \/ RestoreStart \/ RestoreErase \/ RestoreCopy
    BY <2>4 DEF EndVerified, RestoreStart, RestoreErase, RestoreCopy, WriteBound
  <2>5. QED BY <2>1, <2>2, <2>3, <2>4
<1>7. QED BY <1>2, <1>3, <1>4, <1>5, <1>6, BackupKept, GoodBackupSuffices

(* The watchdog roll-back leaves a good backup alone. *)
LEMMA MainStepInv ==
    ASSUME IInv, MainStep
    PROVE  IInv'
<1>1. iwdg /\ mode = "boot"
  BY DEF MainStep, WdgCatch, WdgErase, WdgLock, WdgProgram, WdgEnd, MainRuns,
     IInv, Separation
<1>2. BackupGood /\ tpc = "idle" /\ sess = NoSess
  BY <1>1 DEF IInv, RollbackHasSource, BackupGood, Separation
<1>3. /\ UNCHANGED <<backup, mode, tpc, sess>>
      /\ iwdg' = iwdg \/ (iwdg' = FALSE /\ mpc' = "loop")
  BY DEF MainStep, WdgCatch, WdgErase, WdgLock, WdgProgram, WdgEnd, flash, tcpip
<1>4. Separation'
  BY <1>1, <1>2, <1>3 DEF Separation
<1>5. WriteBound'
  BY <1>2, <1>3 DEF WriteBound
<1>6. QED
  BY <1>2, <1>3, <1>4, <1>5, BackupKept, GoodBackupSuffices

(* Power losses and watchdog resets. *)
LEMMA CrashInv ==
    ASSUME Calm, TypeOK, IInv, PowerLoss \/ WatchdogStarved
    PROVE  IInv'
<1>1. Restart /\ Tear
  BY DEF PowerLoss, WatchdogStarved
<1>2. Recoverable'
  BY <1>1, TearKeepsGood
<1>3. RollbackHasSource'
  <2>1. CASE PowerLoss
    BY <2>1 DEF PowerLoss, RollbackHasSource
  <2>2. CASE WatchdogStarved
    <3>1. tpc \in {"uErase", "rErase", "rCopy"} \/ mpc # "loop"
      BY <2>2 DEF WatchdogStarved, Calm
    <3>2. BackupGood /\ tpc \notin {"bkErase", "bkCopy"}
      BY <3>1 DEF IInv, UpdatePhase, Separation, RollbackHasSource, BackupGood
    <3>3. QED
      BY <1>1, <3>2, TearKeepsGood DEF RollbackHasSource, BackupGood
  <2>3. QED BY <2>1, <2>2
<1>4. QED BY <1>1, <1>2, <1>3, RestartInv

-----------------------------------------------------------------------------
(* The invariant holds initially: the user slot is the factory firmware. *)
LEMMA InitInv ==
    ASSUME Init
    PROVE  IInv
<1> USE FlashAssumption, BootAssumption
<1>1. PICK i \in Working :
        /\ BodyCells[i] < SlotCells
        /\ user = [c \in Cell |-> IF c <= BodyCells[i] THEN <<i, c>> ELSE Erased]
  BY DEF Init
<1>2. BodyCells[i] \in Nat
  OBVIOUS
<1>3. UserHolds(i)
  <2>1. ASSUME NEW k \in 0..BodyCells[i]
        PROVE  user[k] = <<i, k>>
    <3>1. k \in Cell /\ k <= BodyCells[i]
      BY <1>1, <1>2 DEF Cell
    <3>2. QED BY <1>1, <3>1
  <2>2. QED BY <1>1, <2>1 DEF UserHolds, Holds
<1>4. QED
  BY <1>3 DEF Init, IInv, Recoverable, RollbackHasSource, BackupPhase,
     UpdatePhase, Separation, WriteBound

(* Every step preserves the invariant. *)
LEMMA StepInv ==
    ASSUME WellMade, Calm, TypeOK, IInv, [Next]_vars
    PROVE  IInv'
<1>1. CASE BootStep \/ AppSoftReset \/ AppHangs
  BY <1>1, BootStepsInv
<1>2. CASE Packet
  BY <1>2, PacketInv
<1>3. CASE BackupStart \/ BackupErase \/ BackupCopy \/ BackupDone
  BY <1>3, BackupStepsInv
<1>4. CASE \/ OpenNoPcb \/ OpenRefused \/ OpenSession \/ UserErase
           \/ EndVerified \/ RestoreStart \/ RestoreErase \/ RestoreCopy
  BY <1>4, UpdateStepsInv
<1>5. CASE EndUntagged \/ CrcSame \/ RestoreEnd
  BY <1>5, PlainRestart DEF EndUntagged, CrcSame, RestoreEnd
<1>6. CASE MainStep
  BY <1>6, MainStepInv
<1>7. CASE PowerLoss \/ WatchdogStarved
  BY <1>7, CrashInv
<1>8. CASE UNCHANGED vars
  BY <1>8 DEF vars, tcpip, main, IInv, Recoverable, RollbackHasSource,
     BackupPhase, AppWorks, UpdatePhase, BackupGood, Separation, WriteBound,
     UserHolds, BackupHolds
<1>9. QED
  BY <1>1, <1>2, <1>3, <1>4, <1>5, <1>6, <1>7, <1>8 DEF Next, TcpipStep

(* At every point of an update, a roll-back or a restart it is known which *)
(* slot is the good one: during the backup the user slot, which is then    *)
(* not touched, and from then on the backup, which no accepted block, no   *)
(* roll-back and no reset reaches.                                         *)
THEOREM InvariantHolds ==
    ASSUME WellMade, Calm
    PROVE  Spec => []IInv
<1>1. Init => IInv
  BY InitInv
<1>2. TypeOK /\ IInv /\ [Next]_vars => IInv'
  BY StepInv
<1>3. QED BY <1>1, <1>2, TypeCorrect, PTL DEF Spec

(* The update never loses the working firmware: with well-made images and  *)
(* an operator who starts updates from working firmware, some slot holds a *)
(* complete working firmware in every state, whatever packets come and     *)
(* wherever power fails or the watchdog interrupts the rewriting of the    *)
(* user slot.                                                              *)
THEOREM AlwaysRecoverable ==
    ASSUME WellMade, Calm
    PROVE  Spec => []Recoverable
<1>1. IInv => Recoverable
  BY DEF IInv
<1>2. QED BY <1>1, InvariantHolds, PTL

(* WDGbackup always finds a working firmware to roll back to. *)
THEOREM RollbackSafe ==
    ASSUME WellMade, Calm
    PROVE  Spec => []RollbackHasSource
<1>1. IInv => RollbackHasSource
  BY DEF IInv
<1>2. QED BY <1>1, InvariantHolds, PTL

-----------------------------------------------------------------------------
(* What "success backup" is worth.  Nothing is assumed of the environment: *)
(* every adversity may occur.                                              *)

(* Every step preserves the invariant of the copy. *)
LEMMA CopyPhaseStep ==
    ASSUME TypeOK, CopyPhase, [Next]_vars
    PROVE  CopyPhase'
<1> SUFFICES ASSUME tpc' = "bkCopy"
             PROVE  CopyPhase'
  BY DEF CopyPhase
<1>1. CASE BackupErase
  BY <1>1 DEF BackupErase, CopyPhase, TypeOK, Cell
<1>2. CASE BackupCopy
  <2>1. CASE UNCHANGED <<backup, idx>>
    BY <1>2, <2>1 DEF BackupCopy, CopyPhase
  <2>2. CASE /\ backup' = [backup EXCEPT ![idx] = Programmed(@, user[idx])]
             /\ backup'[idx] = user[idx]
             /\ idx' = idx + 1
    BY <1>2, <2>2 DEF BackupCopy, CopyPhase, TypeOK, Cell
  <2>3. QED BY <1>2, <2>1, <2>2 DEF BackupCopy
<1>3. CASE ~BackupErase /\ ~BackupCopy
  <2>1. UNCHANGED <<user, backup, tpc, idx, cnt>>
    <3>1. CASE BootStep \/ AppSoftReset \/ AppHangs \/ PowerLoss \/ WatchdogStarved
      BY <3>1 DEF BootStep, BootApp, BootNoFirmware, BootKernel, AppSoftReset,
         AppHangs, PowerLoss, WatchdogStarved, Restart, flash, tcpip
    <3>2. CASE MainStep
      BY <3>2 DEF MainStep, WdgCatch, WdgErase, WdgLock, WdgProgram, WdgEnd,
         MainRuns, tcpip
    <3>3. CASE TcpipStep
      BY <1>3, <3>3 DEF TcpipStep, BackupStart, BackupDone, OpenNoPcb,
         OpenRefused, OpenSession, UserErase, EndVerified, EndUntagged,
         CrcSame, RestoreStart, RestoreErase, RestoreCopy, RestoreEnd, Restart
    <3>4. CASE Packet
      BY <3>4 DEF Packet, RecvPort69, RecvData, RecvEmpty, RecvError,
         HandleBlock, RecvChained, SoftResetCommand, ResetCommand, Restart,
         flash, tcpip
    <3>5. CASE UNCHANGED vars
      BY <3>5 DEF vars, tcpip
    <3>6. QED BY <3>1, <3>2, <3>3, <3>4, <3>5 DEF Next
  <2>2. QED BY <2>1 DEF CopyPhase
<1>4. QED BY <1>1, <1>2, <1>3

(* A copy that has run to its end covers the whole image. *)
LEMMA CopyComplete ==
    ASSUME WholeWords, TypeOK, CopyPhase, BackupDone,
           NEW i \in Tagged, UserHolds(i)
    PROVE  BackupHolds(i)
<1> USE FlashAssumption
<1>1. BodyCells[i] \in Nat /\ BodyCells[i] < SlotCells
  BY DEF UserHolds, Holds
<1>2. user[0] = <<i, 0>>
  BY <1>1 DEF UserHolds, Holds
<1>3. cnt = BodyCells[i] + 1
  <2>1. user[0] # Erased
    BY <1>2
  <2>2. PICK j \in Tagged :
          /\ user[0] = <<j, 0>>
          /\ cnt = (BodyCells[j] + (IF j \in Ragged THEN 0 ELSE 1)) % LenMod
    BY <1>2, <2>1 DEF BackupDone, CopyPhase, CopyLens
  <2>3. j = i
    BY <1>2, <2>2
  <2>4. i \notin Ragged /\ BodyCells[i] + 1 < LenMod
    BY DEF WholeWords
  <2>5. BodyCells[i] + 1 \in Nat /\ LenMod \in Nat
    BY <1>1
  <2>6. (BodyCells[i] + 1) % LenMod = BodyCells[i] + 1
    BY <2>4, <2>5, NoWrap
  <2>7. QED BY <2>2, <2>3, <2>4, <2>6
<1>4. ASSUME NEW k \in 0..BodyCells[i]
      PROVE  backup[k] = <<i, k>>
  <2>1. k \in Cell /\ k < idx
    BY <1>1, <1>3 DEF BackupDone, TypeOK, Cell
  <2>2. backup[k] = user[k]
    BY <2>1 DEF BackupDone, CopyPhase
  <2>3. QED BY <2>2 DEF UserHolds, Holds
<1>5. QED BY <1>1, <1>4 DEF BackupHolds, Holds

(* A backup reported as written is a complete copy of the tagged firmware  *)
(* in the user slot, whatever fails, races or is retried, provided tagged  *)
(* images are whole words long and their word count fits a uint16_t.       *)
THEOREM BackupHonest ==
    ASSUME WholeWords
    PROVE  Spec => BackupIsCopy
<1>1. Init => CopyPhase
  BY DEF Init, CopyPhase
<1>2. TypeOK /\ CopyPhase /\ [Next]_vars => CopyPhase'
  BY CopyPhaseStep
<1>3. TypeOK /\ CopyPhase
        => (BackupDone => \A i \in Tagged : UserHolds(i) => BackupHolds(i))
  BY CopyComplete
<1>4. TypeOK /\ CopyPhase
        => [BackupDone => \A i \in Tagged : UserHolds(i) => BackupHolds(i)]_vars
  BY <1>3
<1>5. QED BY <1>1, <1>2, <1>4, TypeCorrect, PTL DEF Spec, BackupIsCopy
=============================================================================
