--------------------- MODULE Bootloader_rollback_proofs ---------------------
(***************************************************************************)
(* Proofs about what the boot loader puts into the two slots: a roll-back  *)
(* that has run to its end leaves working firmware, only working firmware  *)
(* is ever backed up, and main() starts no tagged firmware that fails its  *)
(* CRC.                                                                    *)
(***************************************************************************)
EXTENDS Bootloader_proofs, BootHistory

(* The sectors below s are erased. *)
ErasedBelow(slot, s) == \A c \in Cell : SectorOf[c] < s => slot[c] = Erased

(* The first n cells of slot are copied from source, the rest is erased. *)
CopiedUpTo(slot, source, n) ==
    \A c \in Cell : slot[c] = IF c < n THEN source[c] ELSE Erased

(* A copy of a working backup of n cells has got as far as p. *)
CopyUnderWay(p, n) ==
    \E i \in Working :
       /\ BackupHolds(i)
       /\ n = BodyCells[i] + 1
       /\ p <= n
       /\ CopiedUpTo(user, backup, p)

(* How far a roll-back has got, the one after a CRC mismatch and the one   *)
(* after a watchdog reset; neither is ever given up half way.              *)
RollbackPhase ==
    /\ tpc # "rEnd" /\ mpc # "wdEnd"
    /\ tpc = "rErase" => idx < NumSectors /\ ErasedBelow(user, idx)
    /\ tpc = "rCopy" => CopyUnderWay(idx, cnt)
    /\ mpc = "wdErase" => midx < NumSectors /\ ErasedBelow(user, midx)
    /\ mpc \in {"wdCopy", "wdProg"} => CopyUnderWay(midx, mcnt)
    /\ mpc = "wdProg" => midx < mcnt

-----------------------------------------------------------------------------
(* Facts about erasing and copying a slot. *)

(* Erasing the next sector; the last one leaves nothing but erased cells,  *)
(* which is a copy of length 0.                                            *)
LEMMA EraseOn ==
    ASSUME NEW slot, NEW source, NEW s \in Nat, ErasedBelow(slot, s)
    PROVE  /\ ErasedBelow(EraseSector(slot, s), s + 1)
           /\ s + 1 >= NumSectors => CopiedUpTo(EraseSector(slot, s), source, 0)
<1> USE FlashAssumption
<1>1. \A c \in Cell : SectorOf[c] \in Nat /\ SectorOf[c] < NumSectors /\ ~(c < 0)
  BY DEF Cell
<1>2. ASSUME NEW c \in Cell, SectorOf[c] < s + 1
      PROVE  EraseSector(slot, s)[c] = Erased
  BY <1>1, <1>2 DEF EraseSector, ErasedBelow
<1>3. ErasedBelow(EraseSector(slot, s), s + 1)
  BY <1>2 DEF ErasedBelow
<1>4. ASSUME s + 1 >= NumSectors
      PROVE  \A c \in Cell : SectorOf[c] < s + 1
  BY <1>1, <1>4
<1>5. s + 1 >= NumSectors => CopiedUpTo(EraseSector(slot, s), source, 0)
  BY <1>1, <1>2, <1>4 DEF CopiedUpTo
<1>6. QED BY <1>3, <1>5

(* Copying the next cell reads back what was programmed. *)
LEMMA CopyOn ==
    ASSUME NEW slot, NEW new, NEW source, NEW n \in Cell,
           CopiedUpTo(slot, source, n),
           \A c \in Cell :
              new[c] = IF c = n THEN Programmed(slot[n], source[n]) ELSE slot[c]
    PROVE  /\ new[n] = source[n]
           /\ CopiedUpTo(new, source, n + 1)
<1>1. slot[n] = Erased
  BY FlashAssumption DEF CopiedUpTo, Cell
<1>2. new[n] = source[n]
  BY <1>1 DEF Programmed
<1>3. ASSUME NEW c \in Cell
      PROVE  new[c] = IF c < n + 1 THEN source[c] ELSE Erased
  <2>1. CASE c = n
    BY <1>2, <2>1 DEF Cell
  <2>2. CASE c # n
    <3>1. new[c] = slot[c]
      BY <2>2
    <3>2. c < n + 1 <=> c < n
      BY <2>2, FlashAssumption DEF Cell
    <3>3. QED BY <3>1, <3>2 DEF CopiedUpTo
  <2>3. QED BY <2>1, <2>2
<1>4. QED BY <1>2, <1>3 DEF CopiedUpTo

(* A finished copy of a slot that holds an image holds it too. *)
LEMMA CopyEnds ==
    ASSUME NEW slot, NEW source, NEW i \in Images, Holds(source, i),
           CopiedUpTo(slot, source, BodyCells[i] + 1)
    PROVE  Holds(slot, i)
<1>1. BodyCells[i] \in Nat /\ BodyCells[i] < SlotCells /\ SlotCells \in Nat
  BY FlashAssumption DEF Holds
<1>2. \A k \in 0..BodyCells[i] : k \in Cell /\ k < BodyCells[i] + 1
  BY <1>1 DEF Cell
<1>3. QED BY <1>1, <1>2 DEF Holds, CopiedUpTo

(* With a good backup and an erased user slot a copy is under way, at its  *)
(* beginning.                                                              *)
LEMMA CopyBegins ==
    ASSUME WellMade, NEW i \in Working, Holds(backup, i),
           NEW slot, CopiedUpTo(slot, backup, 0), NEW n \in CopyLens(backup[0])
    PROVE  n = BodyCells[i] + 1 /\ 0 <= n
<1>1. CopyLens(backup[0]) = {BodyCells[i] + 1}
  BY WorkingTag, Zenon
<1>2. BodyCells[i] \in Nat
  BY FlashAssumption, BootAssumption
<1>3. QED BY <1>1, <1>2

-----------------------------------------------------------------------------
(* The roll-back of IAP_wrq_recv_callback after a CRC mismatch. *)
LEMMA RestoreSteps ==
    ASSUME WellMade, Calm, TypeOK, IInv, RollbackPhase,
           RestoreStart \/ RestoreErase \/ RestoreCopy
    PROVE  RollbackPhase'
<1> USE FlashAssumption, BootAssumption
<1>1. tpc \in {"badMsg", "rErase", "rCopy"} /\ idx \in Nat /\ cnt \in Nat
  BY DEF RestoreStart, RestoreErase, RestoreCopy, TypeOK
<1>2. BackupGood /\ mpc = "loop"
  BY <1>1 DEF IInv, UpdatePhase, Separation
<1>3. UNCHANGED <<backup, mpc>>
  BY DEF RestoreStart, RestoreErase, RestoreCopy, flash, main
<1>4. HalOk /\ ~HalFails
  BY <1>2 DEF HalOk, HalFails, MainLocks, Calm
<1>5. PICK i \in Working : Holds(backup, i)
  BY <1>2 DEF BackupGood, BackupHolds
<1>6. BackupHolds(i)' /\ i \in Images
  BY <1>3, <1>5 DEF BackupHolds
<1>7. CASE RestoreStart
  <2>1. tpc' = "rErase" /\ idx' = 0
    BY <1>7 DEF RestoreStart
  <2>2. ErasedBelow(user, idx)'
    BY <2>1 DEF ErasedBelow, Cell
  <2>3. QED BY <1>2, <1>3, <2>1, <2>2 DEF RollbackPhase
<1>8. CASE RestoreErase
  <2>1. idx < NumSectors /\ ErasedBelow(user, idx)
    BY <1>8 DEF RestoreErase, RollbackPhase
  <2>2. user' = EraseSector(user, idx)
    BY <1>4, <1>8 DEF RestoreErase
  <2>3. CASE idx + 1 < NumSectors
    <3>1. tpc' = "rErase" /\ idx' = idx + 1
      BY <1>4, <1>8, <2>3 DEF RestoreErase
    <3>2. ErasedBelow(user', idx + 1)
      BY <1>1, <2>1, <2>2, EraseOn
    <3>3. ErasedBelow(user, idx)'
      BY <3>1, <3>2 DEF ErasedBelow
    <3>4. QED BY <1>2, <1>3, <2>3, <3>1, <3>3 DEF RollbackPhase
  <2>4. CASE ~(idx + 1 < NumSectors)
    <3>1. tpc' = "rCopy" /\ idx' = 0 /\ cnt' \in CopyLens(backup[0])
      BY <1>4, <1>8, <2>4 DEF RestoreErase
    <3>2. CopiedUpTo(user', backup, 0)
      BY <1>1, <2>1, <2>2, <2>4, EraseOn
    <3>3. cnt' = BodyCells[i] + 1 /\ 0 <= cnt'
      BY <1>5, <3>1, <3>2, CopyBegins
    <3>4. CopyUnderWay(idx, cnt)'
      BY <1>3, <1>6, <3>1, <3>2, <3>3 DEF CopyUnderWay, CopiedUpTo
    <3>5. QED BY <1>2, <1>3, <3>1, <3>4 DEF RollbackPhase
  <2>5. QED BY <2>3, <2>4
<1>9. CASE RestoreCopy
  <2>1. PICK j \in Working :
          /\ BackupHolds(j) /\ cnt = BodyCells[j] + 1 /\ idx <= cnt
          /\ CopiedUpTo(user, backup, idx)
    BY <1>9 DEF RestoreCopy, RollbackPhase, CopyUnderWay
  <2>2. idx \in Cell /\ idx < cnt /\ cnt' = cnt
    BY <1>1, <1>9, <2>1 DEF RestoreCopy, Cell, BackupHolds, Holds
  <2>3. user' = [user EXCEPT ![idx] = Programmed(@, backup[idx])]
    BY <1>4, <1>9 DEF RestoreCopy
  <2>4. user'[idx] = backup[idx] /\ CopiedUpTo(user', backup, idx + 1)
    <3>1. user \in [Cell -> Content] /\ CopiedUpTo(user, backup, idx)
      BY <2>1 DEF TypeOK
    <3>2. \A c \in Cell :
            user'[c] = IF c = idx THEN Programmed(user[idx], backup[idx])
                       ELSE user[c]
      BY <2>2, <2>3, <3>1
    <3>3. QED BY <2>2, <3>1, <3>2, CopyOn
  <2>5. tpc' = "rCopy" /\ idx' = idx + 1
    BY <1>4, <1>9, <2>4 DEF RestoreCopy
  <2>6. BackupHolds(j)' /\ idx + 1 <= cnt
    BY <1>1, <1>3, <2>1, <2>2 DEF BackupHolds
  <2>7. CopyUnderWay(idx, cnt)'
    BY <1>3, <2>1, <2>2, <2>4, <2>5, <2>6 DEF CopyUnderWay, CopiedUpTo
  <2>8. QED BY <1>2, <1>3, <2>5, <2>7 DEF RollbackPhase
<1>10. QED BY <1>7, <1>8, <1>9

(* The roll-back of thread_main after a watchdog reset. *)
LEMMA WatchdogSteps ==
    ASSUME WellMade, Calm, TypeOK, IInv, RollbackPhase, MainStep
    PROVE  RollbackPhase'
<1> USE FlashAssumption, BootAssumption
<1>1. iwdg /\ mode = "boot"
  BY DEF MainStep, WdgCatch, WdgErase, WdgLock, WdgProgram, WdgEnd, MainRuns,
     IInv, Separation
<1>2. BackupGood /\ tpc = "idle"
  BY <1>1 DEF IInv, RollbackHasSource, BackupGood, Separation
<1>3. UNCHANGED <<backup, tpc>> /\ midx \in Nat /\ mcnt \in Nat
  BY DEF MainStep, WdgCatch, WdgErase, WdgLock, WdgProgram, WdgEnd, flash,
     tcpip, TypeOK
<1>4. ~MainHalFails
  BY DEF MainHalFails, Calm
<1>5. PICK i \in Working : Holds(backup, i)
  BY <1>2 DEF BackupGood, BackupHolds
<1>6. BackupHolds(i)' /\ i \in Images
  BY <1>3, <1>5 DEF BackupHolds
<1>7. CASE WdgCatch
  <2>1. mpc' = "wdErase" /\ midx' = 0
    BY <1>7 DEF WdgCatch
  <2>2. ErasedBelow(user, midx)'
    BY <2>1 DEF ErasedBelow, Cell
  <2>3. QED BY <1>2, <1>3, <2>1, <2>2 DEF RollbackPhase
<1>8. CASE WdgErase
  <2>1. midx < NumSectors /\ ErasedBelow(user, midx)
    BY <1>8 DEF WdgErase, RollbackPhase
  <2>2. user' = EraseSector(user, midx)
    BY <1>4, <1>8 DEF WdgErase
  <2>3. CASE midx + 1 < NumSectors
    <3>1. mpc' = "wdErase" /\ midx' = midx + 1
      BY <1>4, <1>8, <2>3 DEF WdgErase
    <3>2. ErasedBelow(user', midx + 1)
      BY <1>3, <2>1, <2>2, EraseOn
    <3>3. ErasedBelow(user, midx)'
      BY <3>1, <3>2 DEF ErasedBelow
    <3>4. QED BY <1>2, <1>3, <2>3, <3>1, <3>3 DEF RollbackPhase
  <2>4. CASE ~(midx + 1 < NumSectors)
    <3>1. mpc' = "wdCopy" /\ midx' = 0 /\ mcnt' \in CopyLens(backup[0])
      BY <1>4, <1>8, <2>4 DEF WdgErase
    <3>2. CopiedUpTo(user', backup, 0)
      BY <1>3, <2>1, <2>2, <2>4, EraseOn
    <3>3. mcnt' = BodyCells[i] + 1 /\ 0 <= mcnt'
      BY <1>5, <3>1, <3>2, CopyBegins
    <3>4. CopyUnderWay(midx, mcnt)'
      BY <1>3, <1>6, <3>1, <3>2, <3>3 DEF CopyUnderWay, CopiedUpTo
    <3>5. QED BY <1>2, <1>3, <3>1, <3>4 DEF RollbackPhase
  <2>5. QED BY <2>3, <2>4
<1>9. CASE WdgLock
  <2>1. mpc = "wdCopy" /\ mpc' = "wdProg" /\ midx < mcnt
    BY <1>9 DEF WdgLock
  <2>2. UNCHANGED <<user, midx, mcnt>>
    BY <1>9 DEF WdgLock, flash
  <2>3. CopyUnderWay(midx, mcnt)'
    BY <1>3, <2>1, <2>2 DEF RollbackPhase, CopyUnderWay, CopiedUpTo, BackupHolds
  <2>4. QED BY <1>2, <1>3, <2>1, <2>2, <2>3 DEF RollbackPhase
<1>10. CASE WdgProgram
  <2>1. PICK j \in Working :
          /\ BackupHolds(j) /\ mcnt = BodyCells[j] + 1 /\ midx < mcnt
          /\ CopiedUpTo(user, backup, midx)
    BY <1>10 DEF WdgProgram, RollbackPhase, CopyUnderWay
  <2>2. midx \in Cell /\ mcnt' = mcnt
    BY <1>3, <1>10, <2>1 DEF WdgProgram, Cell, BackupHolds, Holds
  <2>3. user' = [user EXCEPT ![midx] = Programmed(@, backup[midx])]
    BY <1>4, <1>10 DEF WdgProgram
  <2>4. user'[midx] = backup[midx] /\ CopiedUpTo(user', backup, midx + 1)
    <3>1. user \in [Cell -> Content] /\ CopiedUpTo(user, backup, midx)
      BY <2>1 DEF TypeOK
    <3>2. \A c \in Cell :
            user'[c] = IF c = midx THEN Programmed(user[midx], backup[midx])
                       ELSE user[c]
      BY <2>2, <2>3, <3>1
    <3>3. QED BY <2>2, <3>1, <3>2, CopyOn
  <2>5. mpc' = "wdCopy" /\ midx' = midx + 1
    BY <1>4, <1>10, <2>4 DEF WdgProgram
  <2>6. BackupHolds(j)' /\ midx + 1 <= mcnt
    BY <1>3, <2>1, <2>2 DEF BackupHolds
  <2>7. CopyUnderWay(midx, mcnt)'
    BY <1>3, <2>1, <2>2, <2>4, <2>5, <2>6 DEF CopyUnderWay, CopiedUpTo
  <2>8. QED BY <1>2, <1>3, <2>5, <2>7 DEF RollbackPhase
<1>11. CASE WdgEnd
  BY <1>2, <1>3, <1>11 DEF WdgEnd, RollbackPhase
<1>12. QED BY <1>7, <1>8, <1>9, <1>10, <1>11 DEF MainStep

(* A restart ends every roll-back. *)
LEMMA RestartPhase ==
    ASSUME Restart
    PROVE  RollbackPhase'
BY DEF Restart, RollbackPhase

(* Every other step starts no roll-back and, while the main thread makes   *)
(* one, leaves both slots alone.                                           *)
LEMMA OtherSteps ==
    ASSUME TypeOK, IInv, RollbackPhase,
           \/ BootApp \/ BootKernel \/ Packet \/ UNCHANGED vars
           \/ BackupStart \/ BackupErase \/ BackupCopy \/ BackupDone
           \/ OpenNoPcb \/ OpenRefused \/ OpenSession \/ UserErase
           \/ EndVerified
    PROVE  RollbackPhase'
<1>1. CASE Restart
  BY <1>1, RestartPhase
<1>2. CASE UNCHANGED vars
  BY <1>2 DEF vars, tcpip, main, RollbackPhase, CopyUnderWay, CopiedUpTo,
     ErasedBelow, BackupHolds
<1>3. CASE ~Restart /\ ~UNCHANGED vars
  <2>1. UNCHANGED main
    BY <1>3 DEF BootApp, BootKernel, Packet, RecvPort69, RecvData, RecvEmpty,
       RecvError, HandleBlock, RecvChained, SoftResetCommand, ResetCommand,
       BackupStart, BackupErase, BackupCopy, BackupDone, OpenNoPcb,
       OpenRefused, OpenSession, UserErase, EndVerified
  <2>2. tpc' \notin {"rErase", "rCopy", "rEnd"}
    <3>1. CASE BootApp \/ BootKernel
      BY <3>1 DEF BootApp, BootKernel, IInv, Separation, tcpip
    <3>2. CASE Packet
      BY <1>3, <3>2 DEF Packet, RecvPort69, RecvData, RecvEmpty, RecvError,
         HandleBlock, RecvChained, SoftResetCommand, ResetCommand, tcpip
    <3>3. CASE ~(BootApp \/ BootKernel \/ Packet)
      BY <1>3, <3>3 DEF BackupStart, BackupErase, BackupCopy, BackupDone,
         OpenNoPcb, OpenRefused, OpenSession, UserErase, EndVerified
    <3>4. QED BY <3>1, <3>2, <3>3
  <2>3. mpc # "loop" => UNCHANGED flash
    <3> SUFFICES ASSUME mpc # "loop" PROVE UNCHANGED flash
      OBVIOUS
    <3>1. tpc = "idle" /\ sess = NoSess
      BY DEF IInv, Separation
    <3>2. QED
      BY <1>3, <3>1 DEF BootApp, BootKernel, Packet, RecvPort69, RecvData,
         RecvEmpty, RecvError, HandleBlock, RecvChained, SoftResetCommand,
         ResetCommand, BackupStart, BackupErase, BackupCopy, BackupDone,
         OpenNoPcb, OpenRefused, OpenSession, UserErase, EndVerified
  <2>4. QED
    BY <2>1, <2>2, <2>3 DEF main, flash, RollbackPhase, CopyUnderWay,
       CopiedUpTo, ErasedBelow, BackupHolds
<1>4. QED BY <1>1, <1>2, <1>3

(* Every step preserves the invariant of the roll-backs. *)
LEMMA RollbackPhaseStep ==
    ASSUME WellMade, Calm, TypeOK, IInv, RollbackPhase, [Next]_vars
    PROVE  RollbackPhase'
<1>1. CASE RestoreStart \/ RestoreErase \/ RestoreCopy
  BY <1>1, RestoreSteps
<1>2. CASE MainStep
  BY <1>2, WatchdogSteps
<1>3. CASE \/ BootNoFirmware \/ AppSoftReset \/ AppHangs \/ EndUntagged
           \/ CrcSame \/ RestoreEnd \/ PowerLoss \/ WatchdogStarved
  BY <1>3, RestartPhase DEF BootNoFirmware, AppSoftReset, AppHangs,
     EndUntagged, CrcSame, RestoreEnd, PowerLoss, WatchdogStarved
<1>4. CASE \/ BootApp \/ BootKernel \/ Packet \/ UNCHANGED vars
           \/ BackupStart \/ BackupErase \/ BackupCopy \/ BackupDone
           \/ OpenNoPcb \/ OpenRefused \/ OpenSession \/ UserErase
           \/ EndVerified
  BY <1>4, OtherSteps
<1>5. QED BY <1>1, <1>2, <1>3, <1>4 DEF Next, BootStep, TcpipStep

(* A roll-back that ends has copied the whole backup. *)
LEMMA RollbackEnds ==
    ASSUME TypeOK, IInv, RollbackPhase, WdgEnd \/ RestoreEnd
    PROVE  AppWorks'
<1> USE FlashAssumption, BootAssumption
<1>1. user' = user
  BY DEF WdgEnd, RestoreEnd, flash
<1>2. PICK p \in Nat, n \in Nat : p >= n /\ CopyUnderWay(p, n)
  <2>1. CASE RestoreEnd
    BY <2>1 DEF RestoreEnd, RollbackPhase, TypeOK
  <2>2. CASE WdgEnd
    BY <2>2 DEF WdgEnd, RollbackPhase, TypeOK
  <2>3. QED BY <2>1, <2>2
<1>3. PICK i \in Working :
        /\ BackupHolds(i) /\ n = BodyCells[i] + 1 /\ p <= n
        /\ CopiedUpTo(user, backup, p)
  BY <1>2 DEF CopyUnderWay
<1>4. p = BodyCells[i] + 1 /\ i \in Images
  BY <1>2, <1>3
<1>5. Holds(user, i)
  BY <1>3, <1>4, CopyEnds DEF BackupHolds
<1>6. QED BY <1>1, <1>5 DEF AppWorks, UserHolds

(* The invariant of the roll-backs in every behaviour. *)
LEMMA RollbackPhaseHolds ==
    ASSUME WellMade, Calm
    PROVE  Spec => []RollbackPhase
<1>1. Init => RollbackPhase
  BY DEF Init, RollbackPhase
<1>2. TypeOK /\ IInv /\ RollbackPhase /\ [Next]_vars => RollbackPhase'
  BY RollbackPhaseStep
<1>3. QED BY <1>1, <1>2, TypeCorrect, InvariantHolds, PTL DEF Spec

(* When WDGbackup, or the roll-back after a CRC mismatch, reaches its end, *)
(* the user slot holds working firmware: no cell is left out, mixed with   *)
(* what was there or taken from a half-written backup.                     *)
THEOREM RollbackWorks ==
    ASSUME WellMade, Calm
    PROVE  Spec => RollbackComplete
<1>1. TypeOK /\ IInv /\ RollbackPhase
        => [WdgEnd \/ RestoreEnd => AppWorks']_vars
  BY RollbackEnds
<1>2. QED
  BY <1>1, TypeCorrect, InvariantHolds, RollbackPhaseHolds, PTL
     DEF RollbackComplete

-----------------------------------------------------------------------------
(* What is copied to the backup slot.  Flash operations may fail, power    *)
(* may be lost and the watchdog may fire anywhere; the operator is trusted *)
(* only not to start an update from firmware that does not work or while a *)
(* roll-back is pending, and not to send files larger than the slot.       *)

Trusted ==
    /\ Stress \cap {"retry", "race"} = {}
    /\ \A i \in Images : BodyCells[i] + 1 < SlotCells

(* The part of IInv that survives every fault: the source of a backup is   *)
(* working firmware, nobody else writes meanwhile, and no accepted block   *)
(* reaches the backup slot.                                                *)
BackupSource ==
    /\ tpc \in {"bkMsg", "bkErase", "bkCopy"} => AppWorks
    /\ Separation
    /\ WriteBound

(* A restart leaves nothing to keep. *)
LEMMA RestartSource ==
    ASSUME Restart
    PROVE  BackupSource'
BY DEF Restart, BackupSource, Separation, WriteBound

(* A packet on port 69 starts a backup only of working firmware. *)
LEMMA RecvPort69Source ==
    ASSUME Trusted, BackupSource, NEW op, RecvPort69(op)
    PROVE  BackupSource'
<1>1. ~iwdg /\ mode = "boot" /\ tpc = "idle"
  BY DEF RecvPort69, Port69Expected, Trusted
<1>2. UNCHANGED <<user, iwdg, mode, sess, waddr, mpc>>
  BY DEF RecvPort69, flash, main
<1>3. tpc' \in {"bkMsg", "open"} /\ (tpc' = "bkMsg" => AppWorks)
  <2>1. PICK valid \in ValidFlag(user[0]) :
          tpc' = IF valid THEN "bkMsg" ELSE "open"
    BY DEF RecvPort69
  <2>2. valid \in BOOLEAN
    BY DEF ValidFlag
  <2>3. TRUE \notin ValidFlag(user[0]) \/ AppWorks
    BY DEF RecvPort69, Port69Expected, Trusted
  <2>4. QED BY <2>1, <2>2, <2>3
<1>4. tpc' = "bkMsg" => AppWorks'
  BY <1>2, <1>3 DEF AppWorks, UserHolds
<1>5. QED
  BY <1>1, <1>2, <1>3, <1>4 DEF BackupSource, Separation, WriteBound

(* A packet of an open transfer advances the write address by no more than *)
(* the block number and never leaves the user slot.                        *)
LEMMA HandleBlockSource ==
    ASSUME TypeOK, BackupSource, NEW blk \in Nat, NEW v, NEW size,
           size = "full" => blk < SlotCells,
           HandleBlock(blk, v, size)
    PROVE  BackupSource' /\ backup' = backup
<1> USE FlashAssumption
<1>1. sess \in Nat /\ waddr \in Nat /\ tpc = "idle" /\ mode = "boot" /\ ~iwdg
  BY DEF HandleBlock, TypeOK, BackupSource, Separation
<1>2. waddr <= sess /\ sess < SlotCells
  BY <1>1 DEF HandleBlock, BackupSource, WriteBound
<1>3. backup' = backup /\ waddr' \in {waddr, waddr + 1}
      /\ (blk # sess + 1 => waddr' = waddr)
  <2>1. WriteBlock(v) \/ UNCHANGED <<backup, waddr>>
    BY DEF HandleBlock
  <2>2. blk # sess + 1 => UNCHANGED waddr
    BY DEF HandleBlock
  <2>3. QED BY <1>1, <1>2, <2>1, <2>2, WriteBlockInUser
<1>4. sess' = (IF blk = sess + 1 THEN blk ELSE sess)
      /\ tpc' = (IF size = "full" THEN "idle" ELSE "endMsg")
      /\ iwdg' = iwdg /\ mpc' = mpc /\ mode' = mode
  BY DEF HandleBlock, main
<1>5. Separation'
  BY <1>1, <1>4 DEF BackupSource, Separation
<1>6. WriteBound'
  BY <1>1, <1>2, <1>3, <1>4 DEF WriteBound
<1>7. QED BY <1>3, <1>4, <1>5, <1>6 DEF BackupSource

(* The packets and commands the loader receives. *)
LEMMA PacketSource ==
    ASSUME Trusted, TypeOK, BackupSource, Packet
    PROVE  BackupSource' /\ backup' = backup
<1> USE FlashAssumption, BootAssumption
<1>1. CASE \E op \in {"wrq", "other"} : RecvPort69(op)
  BY <1>1, RecvPort69Source DEF RecvPort69, flash
<1>2. CASE \E i \in Images : \E k \in 0..BodyCells[i] : RecvData(i, k)
  <2>1. PICK i \in Images : \E k \in 0..BodyCells[i] : RecvData(i, k)
    BY <1>2
  <2>2. PICK k \in 0..BodyCells[i] : RecvData(i, k)
    BY <2>1
  <2>3. k + 1 \in Nat /\ k + 1 < SlotCells
    BY DEF Trusted
  <2>4. QED BY <2>2, <2>3, HandleBlockSource DEF RecvData
<1>3. CASE \E i \in Exact : RecvEmpty(i)
  <2>1. PICK i \in Exact : HandleBlock(BodyCells[i] + 2, Erased, "empty")
    BY <1>3 DEF RecvEmpty
  <2>2. BodyCells[i] + 2 \in Nat /\ "empty" # "full"
    OBVIOUS
  <2>3. QED BY <2>1, <2>2, HandleBlockSource
<1>4. CASE \E e \in ErrorCodes : RecvError(e)
  <2>1. PICK e \in ErrorCodes : HandleBlock(e, Garbage, "short")
    BY <1>4 DEF RecvError
  <2>2. e \in Nat /\ "short" # "full"
    OBVIOUS
  <2>3. QED BY <2>1, <2>2, HandleBlockSource
<1>5. CASE RecvChained
  BY <1>5 DEF RecvChained, BackupSource, AppWorks, UserHolds, Separation,
     WriteBound, flash, tcpip, main
<1>6. CASE SoftResetCommand \/ ResetCommand
  BY <1>6, RestartSource DEF SoftResetCommand, ResetCommand, flash
<1>7. QED BY <1>1, <1>2, <1>3, <1>4, <1>5, <1>6 DEF Packet

(* The steps of the tcpip thread that do not restart. *)
LEMMA TcpipSource ==
    ASSUME TypeOK, BackupSource,
           \/ BackupStart \/ BackupErase \/ BackupCopy \/ BackupDone
           \/ OpenNoPcb \/ OpenRefused \/ OpenSession \/ UserErase
           \/ EndVerified \/ RestoreStart \/ RestoreErase \/ RestoreCopy
    PROVE  BackupSource'
<1> USE FlashAssumption
<1>1. /\ tpc # "idle" /\ mode = "boot"
      /\ UNCHANGED <<iwdg, mode, mpc>>
  BY DEF BackupStart, BackupErase, BackupCopy, BackupDone, OpenNoPcb,
     OpenRefused, OpenSession, UserErase, EndVerified, RestoreStart,
     RestoreErase, RestoreCopy, main
<1>2. Separation'
  BY <1>1 DEF BackupSource, Separation
<1>3. CASE BackupStart \/ BackupErase \/ BackupCopy \/ BackupDone
  <2>1. /\ tpc \in {"bkMsg", "bkErase", "bkCopy"}
        /\ tpc' \in {"bkErase", "bkCopy", "open"}
        /\ UNCHANGED <<user, sess, waddr>>
    BY <1>3 DEF BackupStart, BackupErase, BackupCopy, BackupDone, flash
  <2>2. AppWorks'
    BY <2>1 DEF BackupSource, AppWorks, UserHolds
  <2>3. WriteBound'
    BY <2>1 DEF BackupSource, WriteBound
  <2>4. QED BY <1>2, <2>2, <2>3 DEF BackupSource
<1>4. CASE \/ OpenNoPcb \/ OpenRefused \/ OpenSession \/ UserErase
           \/ EndVerified \/ RestoreStart \/ RestoreErase \/ RestoreCopy
  <2>1. tpc' \notin {"bkMsg", "bkErase", "bkCopy"}
    BY <1>4 DEF OpenNoPcb, OpenRefused, OpenSession, UserErase, EndVerified,
       RestoreStart, RestoreErase, RestoreCopy
  <2>2. CASE OpenNoPcb \/ OpenRefused
    BY <1>2, <2>1, <2>2 DEF OpenNoPcb, OpenRefused, BackupSource, WriteBound
  <2>3. CASE OpenSession
    BY <1>2, <2>1, <2>3 DEF OpenSession, BackupSource, WriteBound
  <2>4. CASE UserErase
    BY <1>2, <2>1, <2>4 DEF UserErase, BackupSource, WriteBound
  <2>5. CASE EndVerified \/ RestoreStart \/ RestoreErase \/ RestoreCopy
    BY <1>2, <2>1, <2>5 DEF EndVerified, RestoreStart, RestoreErase,
       RestoreCopy, BackupSource, WriteBound
  <2>6. QED BY <1>4, <2>2, <2>3, <2>4, <2>5
<1>5. QED BY <1>3, <1>4

(* Every step preserves the invariant. *)
LEMMA SourceStep ==
    ASSUME Trusted, TypeOK, BackupSource, [Next]_vars
    PROVE  BackupSource'
<1>1. CASE BootApp \/ BootKernel
  BY <1>1 DEF BootApp, BootKernel, BackupSource, AppWorks, UserHolds,
     Separation, WriteBound, flash, tcpip, main
<1>2. CASE \/ BootNoFirmware \/ AppSoftReset \/ AppHangs \/ EndUntagged
           \/ CrcSame \/ RestoreEnd \/ PowerLoss \/ WatchdogStarved
  BY <1>2, RestartSource DEF BootNoFirmware, AppSoftReset, AppHangs,
     EndUntagged, CrcSame, RestoreEnd, PowerLoss, WatchdogStarved
<1>3. CASE Packet
  BY <1>3, PacketSource
<1>4. CASE \/ BackupStart \/ BackupErase \/ BackupCopy \/ BackupDone
           \/ OpenNoPcb \/ OpenRefused \/ OpenSession \/ UserErase
           \/ EndVerified \/ RestoreStart \/ RestoreErase \/ RestoreCopy
  BY <1>4, TcpipSource
<1>5. CASE MainStep
  <2>1. iwdg /\ tpc = "idle" /\ sess = NoSess /\ mode = "boot"
    BY <1>5 DEF MainStep, WdgCatch, WdgErase, WdgLock, WdgProgram, WdgEnd,
       MainRuns, BackupSource, Separation
  <2>2. /\ UNCHANGED <<mode, tpc, sess>>
        /\ iwdg' = iwdg \/ (iwdg' = FALSE /\ mpc' = "loop")
    BY <1>5 DEF MainStep, WdgCatch, WdgErase, WdgLock, WdgProgram, WdgEnd,
       tcpip
  <2>3. QED BY <2>1, <2>2 DEF BackupSource, Separation, WriteBound
<1>6. CASE UNCHANGED vars
  BY <1>6 DEF vars, tcpip, main, BackupSource, AppWorks, UserHolds,
     Separation, WriteBound
<1>7. QED
  BY <1>1, <1>2, <1>3, <1>4, <1>5, <1>6 DEF Next, BootStep, TcpipStep

(* A torn reset damages the backup slot only while it is being rewritten. *)
LEMMA TearSource ==
    ASSUME TypeOK, BackupSource, Tear,
           tpc \notin {"bkErase", "bkCopy"}
    PROVE  backup' = backup
<1>1. sess # NoSess /\ tpc = "idle" => waddr < SlotCells
  BY FlashAssumption DEF BackupSource, WriteBound, TypeOK, NoSess
<1>2. BackupAtRisk = {}
  BY <1>1, FlashAssumption DEF BackupAtRisk, Cell, TypeOK
<1>3. PICK D \in SUBSET BackupAtRisk : backup' = Damaged(backup, D)
  BY DEF Tear
<1>4. QED BY <1>2, <1>3, DamagedNothing DEF TypeOK

(* Only a step of the backup changes the backup slot. *)
LEMMA BackupChanged ==
    ASSUME Trusted, TypeOK, BackupSource, [Next]_vars, backup' # backup
    PROVE  AppWorks
<1>1. CASE Packet
  BY <1>1, PacketSource
<1>2. CASE PowerLoss \/ WatchdogStarved
  BY <1>2, TearSource DEF PowerLoss, WatchdogStarved, BackupSource
<1>3. CASE TcpipStep
  BY <1>3 DEF TcpipStep, BackupStart, BackupErase, BackupCopy, BackupDone,
     OpenNoPcb, OpenRefused, OpenSession, UserErase, EndVerified,
     EndUntagged, CrcSame, RestoreStart, RestoreErase, RestoreCopy,
     RestoreEnd, flash, BackupSource
<1>4. CASE MainStep
  BY <1>4 DEF MainStep, WdgCatch, WdgErase, WdgLock, WdgProgram, WdgEnd, flash
<1>5. CASE BootStep \/ AppSoftReset \/ AppHangs \/ UNCHANGED vars
  BY <1>5 DEF BootStep, BootApp, BootNoFirmware, BootKernel, AppSoftReset,
     AppHangs, flash, vars
<1>6. QED BY <1>1, <1>2, <1>3, <1>4, <1>5 DEF Next

(* Only firmware that works is ever copied to the backup slot, and nothing *)
(* else changes the slot: whatever flash operation fails, wherever power   *)
(* is lost or the watchdog fires, and whatever block numbers packets carry.*)
THEOREM BackupWorthKeeping ==
    ASSUME Trusted
    PROVE  Spec => BackupOnlyWorking
<1>1. Init => BackupSource
  BY DEF Init, BackupSource, Separation, WriteBound
<1>2. TypeOK /\ BackupSource /\ [Next]_vars => BackupSource'
  BY SourceStep
<1>3. TypeOK /\ BackupSource /\ [Next]_vars
        => [backup' # backup => AppWorks]_vars
  BY BackupChanged
<1>4. QED
  BY <1>1, <1>2, <1>3, TypeCorrect, PTL DEF Spec, BackupOnlyWorking

-----------------------------------------------------------------------------
(* What is jumped to as verified.  Nothing is asked of the images, and of  *)
(* the environment only that no update is begun beside a roll-back.        *)

(* The slot compared stays as it was while the message is sent. *)
Compared == Separation /\ (tpc = "okMsg" => UserCrcOk)

(* A packet on port 69 waits until no roll-back is pending; other packets  *)
(* find the pcb open, and none of them sends the message.                  *)
LEMMA PacketCompared ==
    ASSUME "race" \notin Stress, Compared, Packet
    PROVE  Compared'
<1>1. CASE \E op \in {"wrq", "other"} : RecvPort69(op)
  <2>1. PICK op \in {"wrq", "other"} : RecvPort69(op)
    BY <1>1
  <2>2. PICK valid \in ValidFlag(user[0]) :
          tpc' = IF valid THEN "bkMsg" ELSE "open"
    BY <2>1 DEF RecvPort69
  <2>3. tpc' # "okMsg" /\ ~iwdg /\ mode = "boot"
    BY <2>1, <2>2 DEF RecvPort69, Port69Expected
  <2>4. UNCHANGED <<iwdg, mode, mpc>>
    BY <2>1 DEF RecvPort69, main
  <2>5. QED BY <2>3, <2>4 DEF Compared, Separation
<1>2. CASE \E blk, v, size : HandleBlock(blk, v, size)
  <2>1. PICK blk, v, size : HandleBlock(blk, v, size)
    BY <1>2
  <2>2. mode = "boot" /\ sess # NoSess /\ tpc' \in {"idle", "endMsg"}
    BY <2>1 DEF HandleBlock
  <2>3. UNCHANGED <<iwdg, mode, mpc>>
    BY <2>1 DEF HandleBlock, main
  <2>4. QED BY <2>2, <2>3 DEF Compared, Separation
<1>3. CASE RecvChained
  BY <1>3 DEF RecvChained, tcpip, main, Compared, Separation
<1>4. CASE SoftResetCommand \/ ResetCommand
  BY <1>4 DEF SoftResetCommand, ResetCommand, Restart, Compared, Separation
<1>5. QED
  BY <1>1, <1>2, <1>3, <1>4 DEF Packet, RecvData, RecvEmpty, RecvError

(* The flags and the two threads under the other steps. *)
LEMMA ThreadsCompared ==
    ASSUME Compared, \/ BootStep \/ MainStep \/ TcpipStep
                     \/ AppSoftReset \/ AppHangs
                     \/ PowerLoss \/ WatchdogStarved
                     \/ UNCHANGED vars
    PROVE  Compared'
<1>1. CASE BootApp \/ BootKernel
  BY <1>1 DEF BootApp, BootKernel, tcpip, main, Compared, Separation
<1>2. CASE \/ BootNoFirmware \/ AppSoftReset \/ AppHangs \/ EndUntagged
           \/ CrcSame \/ RestoreEnd \/ PowerLoss \/ WatchdogStarved
  BY <1>2 DEF BootNoFirmware, AppSoftReset, AppHangs, EndUntagged, CrcSame,
     RestoreEnd, PowerLoss, WatchdogStarved, Restart, Compared, Separation
<1>3. CASE MainStep
  <2>1. mode = "boot" /\ tpc = "idle" /\ sess = NoSess
    BY <1>3 DEF MainStep, WdgCatch, WdgErase, WdgLock, WdgProgram, WdgEnd,
       MainRuns, Compared, Separation
  <2>2. /\ UNCHANGED <<mode, tpc, sess>>
        /\ iwdg' = iwdg \/ mpc' = "loop"
        /\ iwdg
    BY <1>3 DEF MainStep, WdgCatch, WdgErase, WdgLock, WdgProgram, WdgEnd,
       tcpip, Compared, Separation
  <2>3. QED BY <2>1, <2>2 DEF Compared, Separation
<1>4. CASE EndVerified
  <2>1. /\ mode = "boot" /\ tpc = "endMsg"
        /\ UNCHANGED <<user, backup, iwdg, mode, mpc>>
        /\ tpc' = IF UserCrcOk THEN "okMsg" ELSE "badMsg"
    BY <1>4 DEF EndVerified, flash, main
  <2>2. UserCrcOk' = UserCrcOk
    BY <2>1 DEF UserCrcOk, FlashCell
  <2>3. QED BY <2>1, <2>2 DEF Compared, Separation
<1>5. CASE \/ BackupStart \/ BackupErase \/ BackupCopy \/ BackupDone
           \/ OpenNoPcb \/ OpenRefused \/ OpenSession \/ UserErase
           \/ RestoreStart \/ RestoreErase \/ RestoreCopy
  <2>1. mode = "boot" /\ tpc # "idle" /\ tpc' # "okMsg"
    BY <1>5 DEF BackupStart, BackupErase, BackupCopy, BackupDone, OpenNoPcb,
       OpenRefused, OpenSession, UserErase, RestoreStart, RestoreErase,
       RestoreCopy
  <2>2. UNCHANGED <<iwdg, mode, mpc>>
    BY <1>5 DEF BackupStart, BackupErase, BackupCopy, BackupDone, OpenNoPcb,
       OpenRefused, OpenSession, UserErase, RestoreStart, RestoreErase,
       RestoreCopy, main
  <2>3. QED BY <2>1, <2>2 DEF Compared, Separation
<1>6. CASE UNCHANGED vars
  BY <1>6 DEF vars, tcpip, main, Compared, Separation, UserCrcOk, FlashCell
<1>7. QED
  BY <1>1, <1>2, <1>3, <1>4, <1>5, <1>6 DEF BootStep, TcpipStep

(* Firmware jumped to with "CRC same, Jump to new FW" is a whole file with *)
(* the CRC its tag states: whatever flash operations failed unnoticed,     *)
(* whatever blocks of whatever files arrived, and although the main thread *)
(* runs between the comparison and the jump.                               *)
THEOREM VerifiedJumps ==
    ASSUME "race" \notin Stress
    PROVE  Spec => JumpsToVerified
<1>1. Init => Compared
  BY DEF Init, Compared, Separation
<1>2. Compared /\ [Next]_vars => Compared'
  BY PacketCompared, ThreadsCompared DEF Next
<1>3. Compared /\ [Next]_vars => [CrcSame => UserCrcOk']_vars
  <2>1. ASSUME Compared, CrcSame
        PROVE  UserCrcOk'
    BY <2>1 DEF Compared, CrcSame, flash, UserCrcOk, FlashCell
  <2>2. QED BY <2>1
<1>4. QED
  BY <1>1, <1>2, <1>3, PTL DEF Spec, JumpsToVerified

-----------------------------------------------------------------------------
(* What main() starts.  Tags of working firmware state the right CRC.      *)

HonestTags == Working \subseteq CrcOk

(* What BootsVerified asks of the user slot, or nothing to start at all. *)
TagHonest == TRUE \in ValidFlag(user[0]) => UserCrcOk
BootSafe  == user[1] = Erased \/ TagHonest

(* Where a data pcb, if there is one, waits for its next block. *)
Waiting == tpc \in {"idle", "bkMsg", "bkErase", "bkCopy", "open"}

(* What a transfer has left in the user slot: between transfers something  *)
(* that may be started unless the last one was cut off, during one a run   *)
(* of accepted blocks with nothing but erased cells after it, the tag not  *)
(* damaged, and at its end a damaged tag only if nothing follows it.       *)
VerifyPhase ==
    /\ ~cut /\ ~iwdg /\ sess = NoSess /\ Waiting => BootSafe
    /\ mode = "app" => ~iwdg /\ user[1] # Erased
    /\ tpc = "uErase" => idx < NumSectors /\ ErasedBelow(user, idx)
    /\ sess # NoSess /\ Waiting =>
          /\ waddr = sess
          /\ user[0] # Garbage
          /\ \A c \in Cell : c >= waddr => user[c] = Erased
    /\ tpc = "endMsg" =>
          sess # NoSess /\ (user[0] = Garbage => user[1] = Erased)
    /\ tpc = "okMsg" => UserCrcOk

(* main() finds no stack pointer in an erased cell. *)
LEMMA NoStackPointer == TRUE \notin StackPointerOk(Erased)
<1>1. \A i \in Images : Erased # <<i, 1>>
  <2>1. \A i \in Images : <<i, 1>> \in Images \X Nat
    OBVIOUS
  <2>2. QED BY <2>1, FlashAssumption
<1>2. StackPointerOk(Erased) = {FALSE}
  BY <1>1 DEF StackPointerOk
<1>3. QED BY <1>2

(* A cell that may be taken for a tag and for none is damaged. *)
LEMMA DamagedTag ==
    ASSUME NEW c, TRUE \in ValidFlag(c), FALSE \in ValidFlag(c)
    PROVE  c = Garbage
BY DEF ValidFlag

(* The tag and the body of working firmware. *)
LEMMA WorkingBody ==
    ASSUME WellMade, HonestTags, NEW slot, NEW i \in Working, Holds(slot, i)
    PROVE  /\ i \in Tagged \cap CrcOk
           /\ slot[0] = <<i, 0>>
           /\ BodyCells[i] < 2 * SlotCells
           /\ \A k \in 1..BodyCells[i] : k < SlotCells /\ slot[k] = <<i, k>>
<1> USE FlashAssumption, BootAssumption
<1>1. i \in Tagged \cap CrcOk
  BY DEF WellMade, HonestTags
<1>2. BodyCells[i] \in Nat /\ BodyCells[i] < SlotCells
  BY DEF Holds
<1>3. slot[0] = <<i, 0>>
  BY <1>2 DEF Holds
<1>4. QED BY <1>1, <1>2, <1>3 DEF Holds

(* Working firmware passes its CRC. *)
LEMMA WorkingVerified ==
    ASSUME WellMade, HonestTags
    PROVE  /\ AppWorks => UserCrcOk
           /\ AppWorks' => UserCrcOk'
<1>1. ASSUME AppWorks PROVE UserCrcOk
  <2>1. PICK i \in Working : Holds(user, i)
    BY <1>1 DEF AppWorks, UserHolds
  <2>2. QED BY <2>1, WorkingBody DEF UserCrcOk, FlashCell
<1>2. ASSUME AppWorks' PROVE UserCrcOk'
  <2>1. PICK i \in Working : Holds(user', i)
    BY <1>2 DEF AppWorks, UserHolds, Holds
  <2>2. QED BY <2>1, WorkingBody DEF UserCrcOk, FlashCell
<1>3. QED BY <1>1, <1>2

(* What the user slot may be started with depends on the slots alone. *)
LEMMA SafeKept ==
    ASSUME UNCHANGED flash
    PROVE  /\ BootSafe' <=> BootSafe
           /\ UserCrcOk' <=> UserCrcOk
<1>1. UserCrcOk' <=> UserCrcOk
  BY DEF flash, UserCrcOk, FlashCell
<1>2. QED BY <1>1 DEF flash, BootSafe, TagHonest

(* A restart from a slot that may be started, under the watchdog flag, or  *)
(* that cuts something off.                                                *)
LEMMA RestartVerified ==
    ASSUME Restart, iwdg' \/ cut' \/ BootSafe'
    PROVE  VerifyPhase'
<1>1. tpc' = "idle" /\ sess' = NoSess /\ mode' = "reset"
  BY DEF Restart
<1>2. ~cut' /\ ~iwdg' => BootSafe'
  OBVIOUS
<1>3. QED BY <1>1, <1>2 DEF VerifyPhase, Waiting

(* main(), the application and the commands. *)
LEMMA BootStepsVerified ==
    ASSUME IInv, VerifyPhase, cut => cut',
           SoftResetCommand \/ ResetCommand => (UnderWay => cut'),
           \/ BootStep \/ AppSoftReset \/ AppHangs
           \/ SoftResetCommand \/ ResetCommand
    PROVE  VerifyPhase'
<1>1. UNCHANGED flash
  BY DEF BootStep, BootApp, BootNoFirmware, BootKernel, AppSoftReset, AppHangs,
     SoftResetCommand, ResetCommand
<1>2. CASE BootApp \/ BootKernel
  <2>1. UNCHANGED <<user, iwdg, sess, tpc, idx, waddr>>
    BY <1>2 DEF BootApp, BootKernel, flash, tcpip
  <2>2. tpc = "idle" /\ sess = NoSess
    BY <1>2 DEF BootApp, BootKernel, IInv, Separation
  <2>3. mode' = "app" => ~iwdg /\ user[1] # Erased
    <3>1. TRUE \in StackPointerOk(user[1]) => user[1] # Erased
      BY NoStackPointer, Zenon
    <3>2. QED BY <1>2, <3>1 DEF BootApp, BootKernel
  <2>4. ~cut' /\ ~iwdg => BootSafe'
    BY <1>1, <2>2, SafeKept DEF VerifyPhase, Waiting
  <2>5. QED BY <2>1, <2>2, <2>3, <2>4 DEF VerifyPhase
<1>3. CASE AppHangs
  BY <1>3, RestartVerified DEF AppHangs
<1>4. CASE \/ BootNoFirmware \/ AppSoftReset
           \/ SoftResetCommand \/ ResetCommand
  <2>1. tpc = "idle" /\ UNCHANGED iwdg /\ Restart
    BY <1>4 DEF BootNoFirmware, AppSoftReset, SoftResetCommand, ResetCommand,
       IInv, Separation
  <2>2. sess = NoSess \/ cut'
    BY <1>4 DEF BootNoFirmware, AppSoftReset, UnderWay, IInv, Separation
  <2>3. ~cut' /\ ~iwdg => BootSafe
    BY <2>1, <2>2 DEF VerifyPhase, Waiting
  <2>4. QED BY <1>1, <2>1, <2>3, SafeKept, RestartVerified
<1>5. QED BY <1>2, <1>3, <1>4 DEF BootStep

(* Steps that leave the slots and the transfer as they are. *)
LEMMA QuietVerified ==
    ASSUME IInv, VerifyPhase, cut => cut',
           \/ \E op \in {"wrq", "other"} : RecvPort69(op)
           \/ RecvChained \/ UNCHANGED vars
           \/ BackupStart \/ BackupDone \/ OpenNoPcb \/ OpenRefused
    PROVE  VerifyPhase'
<1>1. UNCHANGED <<user, backup, iwdg, mode, sess, waddr>>
  BY DEF RecvPort69, RecvChained, BackupStart, BackupDone, OpenNoPcb,
     OpenRefused, flash, tcpip, vars
<1>2. CASE UNCHANGED tpc
  <2>1. UNCHANGED idx
    BY <1>2 DEF RecvPort69, RecvChained, BackupStart, BackupDone, OpenNoPcb,
       OpenRefused, tcpip, vars
  <2>2. QED
    BY <1>1, <1>2, <2>1, SafeKept DEF flash, VerifyPhase, Waiting, ErasedBelow
<1>3. CASE tpc' # tpc
  <2>1. Waiting /\ Waiting'
    BY <1>3 DEF RecvPort69, RecvChained, BackupStart, BackupDone, OpenNoPcb,
       OpenRefused, Waiting, tcpip, vars
  <2>2. QED BY <1>1, <2>1, SafeKept DEF flash, VerifyPhase, Waiting
<1>4. QED BY <1>2, <1>3

(* The backup does not touch the user slot, and the CRC of what is in it   *)
(* is computed over the user slot alone: it holds working firmware.        *)
LEMMA BackupVerified ==
    ASSUME WellMade, HonestTags, TypeOK, IInv, VerifyPhase,
           BackupErase \/ BackupCopy
    PROVE  VerifyPhase'
<1>1. /\ tpc \in {"bkErase", "bkCopy"} /\ mode = "boot"
      /\ UNCHANGED <<user, iwdg, mode, sess, waddr>>
      /\ tpc' \in {"bkErase", "bkCopy", "open"}
  BY DEF BackupErase, BackupCopy
<1>2. AppWorks'
  BY <1>1 DEF IInv, BackupPhase, AppWorks, UserHolds
<1>3. UserCrcOk'
  BY <1>2, WorkingVerified
<1>4. QED BY <1>1, <1>3 DEF VerifyPhase, Waiting, BootSafe, TagHonest

(* The transfer begins: a new pcb, then a slot of erased cells. *)
LEMMA BeginVerified ==
    ASSUME Calm, TypeOK, IInv, VerifyPhase, OpenSession \/ UserErase
    PROVE  VerifyPhase'
<1> USE FlashAssumption
<1>1. tpc \in {"open", "uErase"} /\ mode = "boot" /\ mode' = "boot"
  BY DEF OpenSession, UserErase
<1>2. CASE OpenSession
  <2>1. tpc' = "uErase" /\ idx' = 0
    BY <1>2 DEF OpenSession
  <2>2. ErasedBelow(user, idx)'
    BY <2>1 DEF ErasedBelow, Cell
  <2>3. QED BY <1>1, <2>1, <2>2 DEF VerifyPhase, Waiting
<1>3. CASE UserErase
  <2>1. /\ idx \in Nat /\ idx < NumSectors /\ ErasedBelow(user, idx)
        /\ sess = 0 /\ sess' = sess
    BY <1>3 DEF UserErase, VerifyPhase, TypeOK, IInv, WriteBound
  <2>2. HalOk /\ ~HalFails
    BY <1>1 DEF HalOk, HalFails, MainLocks, Calm, IInv, Separation
  <2>3. user' = EraseSector(user, idx)
    BY <1>3, <2>2 DEF UserErase
  <2>4. CASE idx + 1 < NumSectors
    <3>1. tpc' = "uErase" /\ idx' = idx + 1
      BY <1>3, <2>2, <2>4 DEF UserErase
    <3>2. ErasedBelow(user', idx + 1)
      BY <2>1, <2>3, EraseOn
    <3>3. ErasedBelow(user, idx)'
      BY <3>1, <3>2 DEF ErasedBelow
    <3>4. QED BY <1>1, <2>4, <3>1, <3>3 DEF VerifyPhase, Waiting
  <2>5. CASE ~(idx + 1 < NumSectors)
    <3>1. tpc' = "idle" /\ waddr' = 0
      BY <1>3, <2>2, <2>5 DEF UserErase
    <3>2. CopiedUpTo(user', user, 0)
      BY <2>1, <2>3, <2>5, EraseOn
    <3>3. \A c \in Cell : user'[c] = Erased
      BY <3>2 DEF CopiedUpTo, Cell
    <3>4. user'[0] # Garbage
      BY <3>3 DEF Cell
    <3>5. QED
      BY <1>1, <2>1, <3>1, <3>3, <3>4 DEF VerifyPhase, Waiting, NoSess
  <2>6. QED BY <2>4, <2>5
<1>4. QED BY <1>2, <1>3

(* A packet of the transfer.  Only one that ends it can damage the tag,    *)
(* and then it is the first block.                                         *)
LEMMA HandleBlockVerified ==
    ASSUME Calm, TypeOK, IInv, VerifyPhase,
           NEW blk \in Nat, NEW v \in Content, NEW size,
           v = Garbage => size # "full",
           HandleBlock(blk, v, size)
    PROVE  VerifyPhase'
<1> USE FlashAssumption
<1>1. /\ sess \in Nat /\ waddr \in Nat /\ tpc = "idle" /\ mode = "boot"
      /\ user \in [Cell -> Content]
  BY DEF HandleBlock, TypeOK
<1>2. /\ waddr = sess /\ sess < SlotCells /\ user[0] # Garbage
      /\ \A c \in Cell : c >= waddr => user[c] = Erased
  BY <1>1 DEF HandleBlock, IInv, WriteBound, VerifyPhase, Waiting, NoSess
<1>3. HalOk /\ ~HalFails /\ waddr \in Cell
  BY <1>1, <1>2 DEF HalOk, HalFails, MainLocks, Calm, IInv, Separation,
     NoSess, Cell
<1>4. /\ sess' = (IF blk = sess + 1 THEN blk ELSE sess)
      /\ tpc' = (IF size = "full" THEN "idle" ELSE "endMsg")
      /\ mode' = mode
  BY DEF HandleBlock
<1>5. sess' # NoSess
  BY <1>1, <1>4 DEF NoSess
<1>6. CASE blk = sess + 1 /\ size # "empty"
  <2>1. WriteBlock(v)
    BY <1>6 DEF HandleBlock
  <2>2. user' = [user EXCEPT ![waddr] = Programmed(user[waddr], v)]
    BY <1>1, <1>2, <1>3, <2>1 DEF WriteBlock, FlashCell
  <2>3. Programmed(user[waddr], v) = v
    BY <1>1, <1>2, <1>3 DEF Programmed
  <2>4. \A c \in Cell : user'[c] = IF c = waddr THEN v ELSE user[c]
    BY <1>1, <1>3, <2>2, <2>3
  <2>5. waddr' = waddr + 1
    BY <1>1, <1>2, <1>3, <2>1, <2>4 DEF WriteBlock, FlashCell
  <2>6. ASSUME NEW c \in Cell, c >= waddr + 1
        PROVE  user'[c] = Erased
    <3>1. c # waddr /\ c >= waddr
      BY <1>1, <2>6 DEF Cell
    <3>2. QED BY <1>2, <2>4, <3>1
  <2>7. 0 \in Cell /\ 1 \in Cell
    BY DEF Cell
  <2>8. user'[0] = Garbage => waddr = 0 /\ v = Garbage
    BY <1>2, <2>4, <2>7
  <2>9. CASE size = "full"
    BY <1>1, <1>2, <1>4, <1>6, <2>5, <2>6, <2>8, <2>9
       DEF VerifyPhase, Waiting, NoSess
  <2>10. CASE size # "full"
    <3>1. user'[0] = Garbage => user'[1] = Erased
      BY <1>1, <2>6, <2>7, <2>8
    <3>2. QED BY <1>1, <1>4, <1>5, <2>10, <3>1 DEF VerifyPhase, Waiting
  <2>11. QED BY <2>9, <2>10
<1>7. CASE ~(blk = sess + 1 /\ size # "empty")
  <2>1. UNCHANGED <<user, backup, waddr>>
    BY <1>7 DEF HandleBlock
  <2>2. CASE size = "full"
    BY <1>1, <1>2, <1>4, <1>7, <2>1, <2>2 DEF VerifyPhase, Waiting, NoSess
  <2>3. CASE size # "full"
    BY <1>1, <1>2, <1>4, <1>5, <2>1, <2>3 DEF VerifyPhase, Waiting
  <2>4. QED BY <2>2, <2>3
<1>8. QED BY <1>6, <1>7

(* The packets of a transfer. *)
LEMMA TransferVerified ==
    ASSUME Calm, TypeOK, IInv, VerifyPhase,
           \/ \E i \in Images : \E k \in 0..BodyCells[i] : RecvData(i, k)
           \/ \E i \in Exact : RecvEmpty(i)
           \/ \E e \in ErrorCodes : RecvError(e)
    PROVE  VerifyPhase'
<1> USE FlashAssumption, BootAssumption
<1>1. CASE \E i \in Images : \E k \in 0..BodyCells[i] : RecvData(i, k)
  <2>1. PICK i \in Images : \E k \in 0..BodyCells[i] : RecvData(i, k)
    BY <1>1
  <2>2. PICK k \in 0..BodyCells[i] : RecvData(i, k)
    BY <2>1
  <2>3. k \in Nat /\ k + 1 \in Nat
    OBVIOUS
  <2>4. <<i, k>> \in Content /\ <<i, k>> # Garbage
    BY <2>3 DEF Content
  <2>5. QED BY <2>2, <2>3, <2>4, HandleBlockVerified DEF RecvData
<1>2. CASE \E i \in Exact : RecvEmpty(i)
  <2>1. PICK i \in Exact : HandleBlock(BodyCells[i] + 2, Erased, "empty")
    BY <1>2 DEF RecvEmpty
  <2>2. BodyCells[i] + 2 \in Nat /\ "empty" # "full" /\ Erased \in Content
    BY DEF Content
  <2>3. QED BY <2>1, <2>2, HandleBlockVerified
<1>3. CASE \E e \in ErrorCodes : RecvError(e)
  <2>1. PICK e \in ErrorCodes : HandleBlock(e, Garbage, "short")
    BY <1>3 DEF RecvError
  <2>2. e \in Nat /\ "short" # "full" /\ Garbage \in Content
    BY DEF Content
  <2>3. QED BY <2>1, <2>2, HandleBlockVerified
<1>4. QED BY <1>1, <1>2, <1>3

(* The end of the transfer: the CRC is compared, a slot without a tag is   *)
(* left to main(), and a mismatch rolls back.                              *)
LEMMA EndVerifiedKeeps ==
    ASSUME WellMade, Calm, HonestTags, TypeOK, IInv, RollbackPhase, VerifyPhase,
           \/ EndVerified \/ EndUntagged \/ CrcSame
           \/ RestoreStart \/ RestoreErase \/ RestoreCopy \/ RestoreEnd
    PROVE  VerifyPhase'
<1>1. CASE EndVerified
  <2>1. /\ UNCHANGED flash /\ mode' = "boot"
        /\ tpc' = IF UserCrcOk THEN "okMsg" ELSE "badMsg"
    BY <1>1 DEF EndVerified
  <2>2. QED BY <2>1, SafeKept DEF VerifyPhase, Waiting
<1>2. CASE EndUntagged
  <2>1. UNCHANGED flash /\ Restart /\ FALSE \in ValidFlag(user[0])
    BY <1>2 DEF EndUntagged
  <2>2. user[0] = Garbage => user[1] = Erased
    BY <1>2 DEF EndUntagged, VerifyPhase
  <2>3. BootSafe
    BY <2>1, <2>2, DamagedTag DEF BootSafe, TagHonest
  <2>4. QED BY <2>1, <2>3, SafeKept, RestartVerified
<1>3. CASE CrcSame
  <2>1. UNCHANGED flash /\ Restart /\ UserCrcOk
    BY <1>3 DEF CrcSame, VerifyPhase
  <2>2. BootSafe
    BY <2>1 DEF BootSafe, TagHonest
  <2>3. QED BY <2>1, <2>2, SafeKept, RestartVerified
<1>4. CASE RestoreStart \/ RestoreErase \/ RestoreCopy
  <2>1. tpc' \in {"rErase", "rCopy", "rEnd"} /\ mode' = "boot"
    BY <1>4 DEF RestoreStart, RestoreErase, RestoreCopy
  <2>2. QED BY <2>1 DEF VerifyPhase, Waiting
<1>5. CASE RestoreEnd
  <2>1. AppWorks' /\ Restart
    BY <1>5, RollbackEnds DEF RestoreEnd
  <2>2. BootSafe'
    BY <2>1, WorkingVerified DEF BootSafe, TagHonest
  <2>3. QED BY <2>1, <2>2, RestartVerified
<1>6. QED BY <1>1, <1>2, <1>3, <1>4, <1>5

(* The watchdog: its flag stays up until a roll-back has put working       *)
(* firmware into the user slot.                                            *)
LEMMA WatchdogVerified ==
    ASSUME WellMade, Calm, HonestTags, TypeOK, IInv, RollbackPhase, VerifyPhase,
           MainStep \/ WatchdogStarved
    PROVE  VerifyPhase'
<1>1. CASE WatchdogStarved
  BY <1>1, RestartVerified DEF WatchdogStarved
<1>2. CASE MainStep
  <2>1. iwdg /\ mode = "boot" /\ tpc = "idle" /\ sess = NoSess
    BY <1>2 DEF MainStep, WdgCatch, WdgErase, WdgLock, WdgProgram, WdgEnd,
       MainRuns, IInv, Separation
  <2>2. UNCHANGED <<mode, tpc, sess>> /\ (WdgEnd \/ iwdg' = iwdg)
    BY <1>2 DEF MainStep, WdgCatch, WdgErase, WdgLock, WdgProgram, WdgEnd,
       tcpip
  <2>3. WdgEnd => BootSafe'
    BY RollbackEnds, WorkingVerified DEF BootSafe, TagHonest
  <2>4. QED BY <2>1, <2>2, <2>3 DEF VerifyPhase
<1>3. QED BY <1>1, <1>2

(* Power is lost: unless that cuts something off, the user slot is as it   *)
(* was, and a backup that is torn is not what main() starts.               *)
LEMMA PowerLossVerified ==
    ASSUME WellMade, HonestTags, TypeOK, IInv, VerifyPhase, cut => cut',
           UnderWay => cut', PowerLoss
    PROVE  VerifyPhase'
<1>1. Restart /\ Tear
  BY DEF PowerLoss
<1>2. ASSUME ~cut'
      PROVE  BootSafe'
  <2>1. /\ ~cut /\ ~iwdg /\ sess = NoSess
        /\ tpc \notin {"badMsg", "rErase", "rCopy", "rEnd"}
    BY <1>2 DEF UnderWay
  <2>2. tpc \notin {"uErase", "endMsg"} /\ mpc = "loop"
    BY <2>1 DEF VerifyPhase, IInv, WriteBound, Separation, NoSess
  <2>3. UserAtRisk = {}
    BY <2>1, <2>2 DEF UserAtRisk
  <2>4. user' = user
    BY <1>1, <2>3, DamagedNothing DEF Tear, TypeOK
  <2>5. CASE tpc \in {"bkErase", "bkCopy"}
    <3>1. AppWorks'
      BY <2>4, <2>5 DEF IInv, BackupPhase, AppWorks, UserHolds
    <3>2. QED BY <3>1, WorkingVerified DEF BootSafe, TagHonest
  <2>6. CASE tpc \notin {"bkErase", "bkCopy"}
    <3>1. BackupAtRisk = {}
      BY <2>1, <2>6 DEF BackupAtRisk
    <3>2. backup' = backup
      BY <1>1, <3>1, DamagedNothing DEF Tear, TypeOK
    <3>3. BootSafe
      <4>1. CASE tpc = "okMsg"
        BY <4>1 DEF VerifyPhase, BootSafe, TagHonest
      <4>2. CASE tpc # "okMsg"
        BY <2>1, <2>2, <4>2 DEF VerifyPhase, Waiting, TypeOK
      <4>3. QED BY <4>1, <4>2
    <3>4. QED BY <2>4, <3>2, <3>3, SafeKept DEF flash
  <2>7. QED BY <2>5, <2>6
<1>3. QED BY <1>1, <1>2, RestartVerified

(* Every step preserves the invariant. *)
LEMMA VerifyStep ==
    ASSUME WellMade, Calm, HonestTags, TypeOK, IInv, RollbackPhase, VerifyPhase,
           [HistoryNext]_historyVars
    PROVE  VerifyPhase'
<1>1. CASE UNCHANGED historyVars
  BY <1>1, QuietVerified DEF historyVars
<1>2. CASE OpenSession \/ WdgEnd \/ RestoreEnd
  BY <1>2, BeginVerified, WatchdogVerified, EndVerifiedKeeps DEF MainStep
<1>3. CASE HistoryNext /\ ~(OpenSession \/ WdgEnd \/ RestoreEnd)
  <2>1. /\ Next /\ (cut => cut')
        /\ PowerLoss \/ SoftResetCommand \/ ResetCommand => (UnderWay => cut')
    BY <1>3, Zenon DEF HistoryNext, RecordCut
  <2>2. CASE \/ BootStep \/ AppSoftReset \/ AppHangs
             \/ SoftResetCommand \/ ResetCommand
    BY <2>1, <2>2, BootStepsVerified
  <2>3. CASE \/ \E op \in {"wrq", "other"} : RecvPort69(op)
             \/ RecvChained
             \/ BackupStart \/ BackupDone \/ OpenNoPcb \/ OpenRefused
    BY <2>1, <2>3, QuietVerified
  <2>4. CASE BackupErase \/ BackupCopy
    BY <2>4, BackupVerified
  <2>5. CASE OpenSession \/ UserErase
    BY <2>5, BeginVerified
  <2>6. CASE \/ \E i \in Images : \E k \in 0..BodyCells[i] : RecvData(i, k)
             \/ \E i \in Exact : RecvEmpty(i)
             \/ \E e \in ErrorCodes : RecvError(e)
    BY <2>6, TransferVerified
  <2>7. CASE \/ EndVerified \/ EndUntagged \/ CrcSame
             \/ RestoreStart \/ RestoreErase \/ RestoreCopy \/ RestoreEnd
    BY <2>7, EndVerifiedKeeps
  <2>8. CASE MainStep \/ WatchdogStarved
    BY <2>8, WatchdogVerified
  <2>9. CASE PowerLoss
    BY <2>1, <2>9, PowerLossVerified
  <2>10. QED
    BY <2>1, <2>2, <2>3, <2>4, <2>5, <2>6, <2>7, <2>8, <2>9
       DEF Next, TcpipStep, Packet
<1>4. QED BY <1>1, <1>2, <1>3

(* The invariant holds of the factory firmware. *)
LEMMA VerifyInit ==
    ASSUME WellMade, HonestTags, Init
    PROVE  VerifyPhase
<1>1. PICK i \in Working :
        /\ BodyCells[i] < SlotCells
        /\ user = [c \in Cell |-> IF c <= BodyCells[i] THEN <<i, c>> ELSE Erased]
  BY DEF Init
<1>2. BodyCells[i] \in Nat /\ SlotCells \in Nat
  BY FlashAssumption, BootAssumption
<1>3. \A k \in 0..BodyCells[i] : k \in Cell /\ k <= BodyCells[i]
  BY <1>1, <1>2 DEF Cell
<1>4. Holds(user, i)
  BY <1>1, <1>3 DEF Holds
<1>5. UserCrcOk
  BY <1>4, WorkingVerified DEF AppWorks, UserHolds
<1>6. QED BY <1>5 DEF Init, VerifyPhase, BootSafe, TagHonest

(* main() never starts tagged firmware whose CRC does not match its tag,   *)
(* although it does not compute the CRC itself, unless power loss or a     *)
(* reset command cut off the transfer or roll-back that put it there:      *)
(* whatever blocks arrive in whatever order, repeated or of different      *)
(* files, and wherever the watchdog interrupts the rewriting of the slot.  *)
THEOREM OnlyVerifiedBoots ==
    ASSUME WellMade, Calm, HonestTags
    PROVE  HistorySpec => []BootsVerified
<1>1. HistoryInit => Init /\ VerifyPhase
  BY VerifyInit DEF HistoryInit
<1>2. [HistoryNext]_historyVars => [Next]_vars
  BY DEF HistoryNext, historyVars
<1>3. HistorySpec => Spec
  BY <1>1, <1>2, PTL DEF HistorySpec, Spec
<1>4. TypeOK /\ IInv /\ RollbackPhase /\ VerifyPhase /\ [HistoryNext]_historyVars
        => VerifyPhase'
  BY VerifyStep
<1>5. IInv /\ VerifyPhase => BootsVerified
  BY DEF IInv, Separation, VerifyPhase, BootsVerified, BootSafe, TagHonest,
     Waiting
<1>6. Spec => []IInv
  BY InvariantHolds
<1>7. Spec => []RollbackPhase
  BY RollbackPhaseHolds
<1>8. QED
  BY <1>1, <1>3, <1>4, <1>5, <1>6, <1>7, TypeCorrect, PTL DEF HistorySpec
=============================================================================
