----------------------------- MODULE Bootloader -----------------------------
(***************************************************************************)
(* The firmware-update boot loader: main() deciding what to start, the     *)
(* TFTP server that backs up and replaces the firmware, the watchdog       *)
(* roll-back of the main thread, the reset commands, and resets and power  *)
(* losses at any step.                                                     *)
(*                                                                         *)
(* Two threads touch the flash.  The tcpip thread (AboveNormal) runs every *)
(* network callback to its end, giving way only where udp_client_send      *)
(* sleeps; the main thread (Normal) runs in those gaps and while the tcpip *)
(* thread waits for a packet, and may be preempted anywhere, also inside a *)
(* HAL flash call whose lock it then keeps.                                *)
(***************************************************************************)
EXTENDS FlashIf

CONSTANTS
    Working,      \* images that keep refreshing the watchdog when run intact
    ErrorCodes,   \* error codes of TFTP ERROR packets a client may send
    PbufPool,     \* PBUF_POOL_SIZE
    BkpWritable,  \* backup-domain write access was enabled before main()
    Stress        \* the adversities admitted, see below

(***************************************************************************)
(* "power"    power is lost                                                *)
(* "starve"   the watchdog fires while the user slot is being rewritten    *)
(* "starvebk" the watchdog fires while the backup slot is being rewritten  *)
(* "glitch"   the watchdog fires although the application works            *)
(* "fault"    a HAL flash operation reports an error                       *)
(* "retry"    port 69 is used while a damaged or failing tagged image is   *)
(*            in the user slot                                             *)
(* "race"     port 69 is used while a watchdog roll-back is pending        *)
(* "cmd"      a reset command arrives while a roll-back is pending or a    *)
(*            transfer is open                                             *)
(***************************************************************************)
Adversities ==
    {"power", "starve", "starvebk", "glitch", "fault", "retry", "race", "cmd"}

ASSUME BootAssumption ==
    /\ Working \subseteq Images
    /\ ErrorCodes \subseteq Nat
    /\ PbufPool \in Nat \ {0}
    /\ BkpWritable \in BOOLEAN
    /\ Stress \subseteq Adversities

NoSess == -1      \* no data pcb is open

VARIABLES
    user, backup, \* contents of the two flash slots
    bkp,          \* RTC->BKP1R holds BOOT_FLAG_SOFT_RESET
    iwdg,         \* RCC_FLAG_IWDGRST
    mode,         \* "reset": main() starts; "app"; "boot": kernel running
    tpc,          \* where the tcpip thread is
    opc,          \* opcode of the port-69 packet in hand
    idx, cnt,     \* position and length of the tcpip thread's flash loop
    sess,         \* args->block of the open data pcb, or NoSess
    waddr,        \* Flash_Write_Address, in cells from the user slot's start
    mpc,          \* where the main thread is
    midx, mcnt,   \* position and length of the main thread's flash loop
    pbufs         \* free pbufs of the pool, none being processed

flash == <<user, backup>>
tcpip == <<tpc, opc, idx, cnt, sess, waddr>>
main  == <<mpc, midx, mcnt>>
vars  == <<user, backup, bkp, iwdg, mode, tcpip, main, pbufs>>

-----------------------------------------------------------------------------
UserHolds(i)   == Holds(user, i)
BackupHolds(i) == Holds(backup, i)

(* Flash is linear: a cell past the user slot lies in the backup slot. *)
FlashCell(a) == IF a < SlotCells THEN user[a] ELSE backup[a - SlotCells]

(* CAL_CRC over the size the tag states gives the crc the tag states. *)
UserCrcOk ==
    \E i \in Tagged \cap CrcOk :
        /\ user[0] = <<i, 0>>
        /\ BodyCells[i] < 2 * SlotCells
        /\ \A k \in 1..BodyCells[i] : FlashCell(k) = <<i, k>>

AppWorks == \E i \in Working : UserHolds(i)

(* The main thread holds the HAL flash lock inside an erase or a program.  *)
MainLocks == mpc \in {"wdErase", "wdProg"}

(* A flash call of the tcpip thread is refused (HAL_BUSY) while the main   *)
(* thread holds the lock, and any call may report a hardware error.        *)
HalOk        == ~MainLocks
HalFails     == MainLocks \/ "fault" \in Stress
MainHalFails == "fault" \in Stress

Damaged(slot, D) == [c \in Cell |-> IF c \in D THEN Garbage ELSE slot[c]]

(* What FLASH_If_Write leaves of a slot when a word of cell c fails: the   *)
(* words before it have been programmed.  A refused call programs nothing. *)
Failed(slot, c) == IF HalOk THEN {slot, Damaged(slot, {c})} ELSE {slot}

(* The main thread gets the processor: the tcpip thread waits for a packet *)
(* or sleeps in udp_client_send.                                           *)
MainRuns ==
    /\ mode = "boot"
    /\ tpc \in {"idle", "bkMsg", "open", "endMsg", "okMsg", "badMsg"}

write_boot_flag_soft_reset == bkp' = IF BkpWritable THEN TRUE ELSE bkp
clear_boot_flag            == bkp' = IF BkpWritable THEN FALSE ELSE bkp
is_soft_reset              == bkp

(* Any reset: the RAM is lost and main() starts again. *)
Restart ==
    /\ mode' = "reset"
    /\ tpc' = "idle" /\ opc' = "wrq" /\ idx' = 0 /\ cnt' = 0
    /\ sess' = NoSess /\ waddr' = 0
    /\ mpc' = "loop" /\ midx' = 0 /\ mcnt' = 0
    /\ pbufs' = PbufPool

(* Factory state: working firmware, no update request. *)
Init ==
    /\ \E i \in Working :
          /\ BodyCells[i] < SlotCells
          /\ user = [c \in Cell |->
                       IF c <= BodyCells[i] THEN <<i, c>> ELSE Erased]
    /\ backup = [c \in Cell |-> Erased]
    /\ bkp = FALSE /\ iwdg = FALSE
    /\ mode = "reset"
    /\ tpc = "idle" /\ opc = "wrq" /\ idx = 0 /\ cnt = 0
    /\ sess = NoSess /\ waddr = 0
    /\ mpc = "loop" /\ midx = 0 /\ mcnt = 0
    /\ pbufs = PbufPool

-----------------------------------------------------------------------------
(* main(): start the application, ask for boot mode, or run the kernel.    *)

BootApp ==
    /\ mode = "reset" /\ ~is_soft_reset /\ ~iwdg
    /\ TRUE \in StackPointerOk(user[1])
    /\ mode' = "app"
    /\ UNCHANGED <<flash, bkp, iwdg, tcpip, main, pbufs>>

(* Mutant of BootNoFirmware: the boot flag is not set before the reset. *)
BootNoFirmwareNoFlag ==
    /\ mode = "reset" /\ ~is_soft_reset /\ ~iwdg
    /\ FALSE \in StackPointerOk(user[1])
    /\ Restart
    /\ UNCHANGED <<flash, bkp, iwdg>>

BootNoFirmware ==
    /\ mode = "reset" /\ ~is_soft_reset /\ ~iwdg
    /\ FALSE \in StackPointerOk(user[1])
    /\ write_boot_flag_soft_reset
    /\ Restart
    /\ UNCHANGED <<flash, iwdg>>

BootKernel ==
    /\ mode = "reset" /\ (is_soft_reset \/ iwdg)
    /\ mode' = "boot"
    /\ UNCHANGED <<flash, bkp, iwdg, tcpip, main, pbufs>>

-----------------------------------------------------------------------------
(* The application (external): intact firmware answers the soft-reset      *)
(* command; firmware that does not work stops refreshing the watchdog.     *)

AppSoftReset ==
    /\ mode = "app"
    /\ AppWorks \/ UserCrcOk
    /\ bkp' = TRUE
    /\ Restart
    /\ UNCHANGED <<flash, iwdg>>

AppHangs ==
    /\ mode = "app"
    /\ AppWorks => "glitch" \in Stress
    /\ iwdg' = TRUE
    /\ Restart
    /\ UNCHANGED <<flash, bkp>>

-----------------------------------------------------------------------------
(* Reset commands on UDP port 8080, in boot mode. *)

(* When the operator sends a command, unless Stress says otherwise. *)
CommandExpected == iwdg \/ sess # NoSess => "cmd" \in Stress

SoftResetCommand ==
    /\ mode = "boot" /\ tpc = "idle" /\ pbufs > 0
    /\ CommandExpected
    /\ write_boot_flag_soft_reset
    /\ Restart
    /\ UNCHANGED <<flash, iwdg>>

ResetCommand ==
    /\ mode = "boot" /\ tpc = "idle" /\ pbufs > 0
    /\ CommandExpected
    /\ clear_boot_flag
    /\ Restart
    /\ UNCHANGED <<flash, iwdg>>

-----------------------------------------------------------------------------
(* IAP_tftp_recv_callback: any packet on port 69 first backs up a tagged   *)
(* user slot, then a write request opens a data pcb and erases the slot.   *)

(* What the operator is trusted with unless Stress says otherwise. *)
Port69Expected ==
    /\ \/ "retry" \in Stress
       \/ TRUE \notin ValidFlag(user[0])
       \/ AppWorks
    /\ iwdg => "race" \in Stress

(* Mutant of RecvPort69: the firmware is replaced without a backup. *)
RecvPort69NoBackup(op) ==
    /\ mode = "boot" /\ tpc = "idle" /\ pbufs > 0
    /\ Port69Expected
    /\ tpc' = "open" /\ opc' = op
    /\ UNCHANGED <<flash, bkp, iwdg, mode, idx, cnt, sess, waddr, main, pbufs>>

RecvPort69(op) ==
    /\ mode = "boot" /\ tpc = "idle" /\ pbufs > 0
    /\ Port69Expected
    /\ \E valid \in ValidFlag(user[0]) :
          tpc' = IF valid THEN "bkMsg" ELSE "open"
    /\ opc' = op
    /\ UNCHANGED <<flash, bkp, iwdg, mode, idx, cnt, sess, waddr, main, pbufs>>

BackupStart ==
    /\ mode = "boot" /\ tpc = "bkMsg"
    /\ tpc' = "bkErase" /\ idx' = 0
    /\ UNCHANGED <<flash, bkp, iwdg, mode, opc, cnt, sess, waddr, main, pbufs>>

(* FLASH_Backup_Erase; its result is not looked at. *)
BackupErase ==
    /\ mode = "boot" /\ tpc = "bkErase"
    /\ \/ /\ HalOk
          /\ backup' = EraseSector(backup, idx)
          /\ IF idx + 1 < NumSectors
             THEN idx' = idx + 1 /\ UNCHANGED <<tpc, cnt>>
             ELSE idx' = 0 /\ tpc' = "bkCopy" /\ cnt' \in CopyLens(user[0])
       \/ /\ HalFails
          /\ idx' = 0 /\ tpc' = "bkCopy" /\ cnt' \in CopyLens(user[0])
          /\ UNCHANGED backup
    /\ UNCHANGED <<user, bkp, iwdg, mode, opc, sess, waddr, main, pbufs>>

(* Mutant of BackupCopy: a programmed word is not read back. *)
BackupCopyUnchecked ==
    /\ mode = "boot" /\ tpc = "bkCopy" /\ idx < cnt
    /\ \/ /\ HalOk
          /\ backup' = [backup EXCEPT ![idx] = Programmed(@, user[idx])]
          /\ idx' = idx + 1 /\ UNCHANGED tpc
       \/ /\ HalFails
          /\ tpc' = "open"
          /\ backup' \in Failed(backup, idx)
          /\ UNCHANGED idx
    /\ UNCHANGED <<user, bkp, iwdg, mode, opc, cnt, sess, waddr, main, pbufs>>

(* FLASH_If_Write from the user slot to the backup slot: one cell, which   *)
(* may be refused or read back differently; the update goes on regardless. *)
BackupCopy ==
    /\ mode = "boot" /\ tpc = "bkCopy" /\ idx < cnt
    /\ \/ /\ HalOk
          /\ backup' = [backup EXCEPT ![idx] = Programmed(@, user[idx])]
          /\ IF backup'[idx] = user[idx]
             THEN idx' = idx + 1 /\ UNCHANGED tpc
             ELSE tpc' = "open" /\ UNCHANGED idx
       \/ /\ HalFails
          /\ tpc' = "open"
          /\ backup' \in Failed(backup, idx)
          /\ UNCHANGED idx
    /\ UNCHANGED <<user, bkp, iwdg, mode, opc, cnt, sess, waddr, main, pbufs>>

(* FLASH_If_Write returned 0: the branch commented "success backup". *)
BackupDone ==
    /\ mode = "boot" /\ tpc = "bkCopy" /\ idx >= cnt
    /\ tpc' = "open"
    /\ UNCHANGED <<flash, bkp, iwdg, mode, opc, idx, cnt, sess, waddr, main, pbufs>>

(* Three of the MEMP_NUM_UDP_PCB = 4 pcbs are taken for good, so udp_new   *)
(* fails while a data pcb is open; that path does not free the packet.     *)
OpenNoPcb ==
    /\ mode = "boot" /\ tpc = "open" /\ sess # NoSess
    /\ tpc' = "idle"
    /\ pbufs' = pbufs - 1
    /\ UNCHANGED <<flash, bkp, iwdg, mode, opc, idx, cnt, sess, waddr, main>>

(* Mutant of OpenRefused: the branch frees the packet that is freed again  *)
(* at the end of the callback.                                             *)
OpenRefusedFreesTwice ==
    /\ mode = "boot" /\ tpc = "open" /\ sess = NoSess
    /\ tpc' = "idle"
    /\ pbufs' = pbufs + 1
    /\ UNCHANGED <<flash, bkp, iwdg, mode, opc, idx, cnt, sess, waddr, main>>

(* Not a write request, or mem_malloc failed: the new pcb is removed.      *)
(* udp_bind finds a port among thousands for the fourth pcb: the branch    *)
(* for its failure is never taken.                                         *)
OpenRefused ==
    /\ mode = "boot" /\ tpc = "open" /\ sess = NoSess
    /\ tpc' = "idle"
    /\ UNCHANGED <<flash, bkp, iwdg, mode, opc, idx, cnt, sess, waddr, main, pbufs>>

(* IAP_tftp_process_write up to the erase of the user slot. *)
OpenSession ==
    /\ mode = "boot" /\ tpc = "open" /\ sess = NoSess /\ opc = "wrq"
    /\ sess' = 0
    /\ tpc' = "uErase" /\ idx' = 0
    /\ UNCHANGED <<flash, bkp, iwdg, mode, opc, cnt, waddr, main, pbufs>>

(* FLASH_If_Erase, whose result is ignored; then the write address starts  *)
(* over and ACK 0 goes out.                                                *)
UserErase ==
    /\ mode = "boot" /\ tpc = "uErase"
    /\ \/ /\ HalOk
          /\ user' = EraseSector(user, idx)
          /\ IF idx + 1 < NumSectors
             THEN idx' = idx + 1 /\ UNCHANGED <<tpc, waddr>>
             ELSE idx' = 0 /\ tpc' = "idle" /\ waddr' = 0
       \/ /\ HalFails
          /\ idx' = 0 /\ tpc' = "idle" /\ waddr' = 0
          /\ UNCHANGED user
    /\ UNCHANGED <<backup, bkp, iwdg, mode, opc, cnt, sess, main, pbufs>>

-----------------------------------------------------------------------------
(* IAP_wrq_recv_callback.  The opcode is never looked at; a block other    *)
(* than the next is only acknowledged again; a short packet of whatever    *)
(* block ends the transfer.                                                *)

(* The flash cells at A, which may reach into the backup slot, damaged. *)
Spoil(A) ==
    /\ user' = Damaged(user, A)
    /\ backup' = Damaged(backup, {a - SlotCells : a \in A})

(* FLASH_If_Write of one block; failures are ignored.  One in the middle   *)
(* of a block leaves the address inside a cell that is partly programmed,  *)
(* and blocks that follow are then written across two cells.               *)
WriteBlock(v) ==
    \/ /\ HalOk /\ waddr < SlotCells
       /\ user' = [user EXCEPT ![waddr] = Programmed(@, v)]
       /\ waddr' = IF user'[waddr] = v THEN waddr + 1 ELSE waddr
       /\ UNCHANGED backup
    \/ /\ HalOk /\ waddr >= SlotCells /\ waddr < 2 * SlotCells
       /\ backup' = [backup EXCEPT ![waddr - SlotCells] = Programmed(@, v)]
       /\ waddr' = IF backup'[waddr - SlotCells] = v THEN waddr + 1 ELSE waddr
       /\ UNCHANGED user
    \/ /\ HalOk /\ HalFails /\ waddr < 2 * SlotCells
       /\ Spoil({waddr})
       /\ UNCHANGED waddr
    \/ /\ HalOk /\ waddr < sess /\ waddr + 1 < 2 * SlotCells
       /\ FlashCell(waddr) = Garbage
       /\ Spoil({waddr, waddr + 1})
       /\ waddr' = waddr + 1
    \/ /\ HalFails \/ waddr >= 2 * SlotCells
       /\ UNCHANGED <<user, backup, waddr>>

(* blk is the field read as block number, v the payload, size "full" for   *)
(* 516 bytes, "short" for less, "empty" for a header only.                 *)
HandleBlock(blk, v, size) ==
    /\ mode = "boot" /\ tpc = "idle" /\ sess # NoSess /\ pbufs > 0
    /\ IF blk = sess + 1 /\ size # "empty"
       THEN WriteBlock(v)
       ELSE UNCHANGED <<user, backup, waddr>>
    /\ sess' = IF blk = sess + 1 THEN blk ELSE sess
    /\ tpc' = IF size = "full" THEN "idle" ELSE "endMsg"
    /\ UNCHANGED <<bkp, iwdg, mode, opc, idx, cnt, main, pbufs>>

(* Block k + 1 of the file of image i, whenever it was sent. *)
RecvData(i, k) ==
    HandleBlock(k + 1, <<i, k>>,
                IF k = BodyCells[i] /\ i \notin Exact THEN "short" ELSE "full")

(* The empty last block of a file that fills its blocks exactly. *)
RecvEmpty(i) == HandleBlock(BodyCells[i] + 2, Erased, "empty")

(* An ERROR packet: its code is taken for a block number. *)
RecvError(e) == HandleBlock(e, Garbage, "short")

(* A packet spread over two pbufs is dropped without being freed. *)
RecvChained ==
    /\ mode = "boot" /\ tpc = "idle" /\ sess # NoSess /\ pbufs > 1
    /\ pbufs' = pbufs - 2
    /\ UNCHANGED <<flash, bkp, iwdg, mode, tcpip, main>>

(* Mutant of EndVerified: the CRC is computed but not compared. *)
EndVerifiedAnyCrc ==
    /\ mode = "boot" /\ tpc = "endMsg"
    /\ TRUE \in ValidFlag(user[0])
    /\ sess' = NoSess
    /\ tpc' = "okMsg"
    /\ UNCHANGED <<flash, bkp, iwdg, mode, opc, idx, cnt, waddr, main, pbufs>>

(* End of the transfer: the pcb is removed, a tagged slot is verified.     *)
EndVerified ==
    /\ mode = "boot" /\ tpc = "endMsg"
    /\ TRUE \in ValidFlag(user[0])
    /\ sess' = NoSess
    /\ tpc' = IF UserCrcOk THEN "okMsg" ELSE "badMsg"
    /\ UNCHANGED <<flash, bkp, iwdg, mode, opc, idx, cnt, waddr, main, pbufs>>

EndUntagged ==
    /\ mode = "boot" /\ tpc = "endMsg"
    /\ FALSE \in ValidFlag(user[0])
    /\ clear_boot_flag
    /\ Restart
    /\ UNCHANGED <<flash, iwdg>>

(* Mutant of CrcSame: the boot flag is not cleared before the reset. *)
CrcSameKeepsFlag ==
    /\ mode = "boot" /\ tpc = "okMsg"
    /\ Restart
    /\ UNCHANGED <<flash, bkp, iwdg>>

(* "CRC same, Jump to new FW" *)
CrcSame ==
    /\ mode = "boot" /\ tpc = "okMsg"
    /\ clear_boot_flag
    /\ Restart
    /\ UNCHANGED <<flash, iwdg>>

(* "CRC not same, Back to before FW" *)
RestoreStart ==
    /\ mode = "boot" /\ tpc = "badMsg"
    /\ tpc' = "rErase" /\ idx' = 0
    /\ UNCHANGED <<flash, bkp, iwdg, mode, opc, cnt, sess, waddr, main, pbufs>>

(* Mutant of RestoreErase: FLASH_Backup_Erase in place of FLASH_If_Erase. *)
RestoreEraseWrongSlot ==
    /\ mode = "boot" /\ tpc = "rErase"
    /\ backup' = EraseSector(backup, idx)
    /\ IF idx + 1 < NumSectors
       THEN idx' = idx + 1 /\ UNCHANGED <<tpc, cnt>>
       ELSE idx' = 0 /\ tpc' = "rCopy" /\ cnt' \in CopyLens(backup[0])
    /\ UNCHANGED <<user, bkp, iwdg, mode, opc, sess, waddr, main, pbufs>>

RestoreErase ==
    /\ mode = "boot" /\ tpc = "rErase"
    /\ \/ /\ HalOk
          /\ user' = EraseSector(user, idx)
          /\ IF idx + 1 < NumSectors
             THEN idx' = idx + 1 /\ UNCHANGED <<tpc, cnt>>
             ELSE idx' = 0 /\ tpc' = "rCopy" /\ cnt' \in CopyLens(backup[0])
       \/ /\ HalFails
          /\ idx' = 0 /\ tpc' = "rCopy" /\ cnt' \in CopyLens(backup[0])
          /\ UNCHANGED user
    /\ UNCHANGED <<backup, bkp, iwdg, mode, opc, sess, waddr, main, pbufs>>

RestoreCopy ==
    /\ mode = "boot" /\ tpc = "rCopy" /\ idx < cnt
    /\ \/ /\ HalOk
          /\ user' = [user EXCEPT ![idx] = Programmed(@, backup[idx])]
          /\ IF user'[idx] = backup[idx]
             THEN idx' = idx + 1 /\ UNCHANGED tpc
             ELSE tpc' = "rEnd" /\ UNCHANGED idx
       \/ /\ HalFails
          /\ tpc' = "rEnd"
          /\ user' \in Failed(user, idx)
          /\ UNCHANGED idx
    /\ UNCHANGED <<backup, bkp, iwdg, mode, opc, cnt, sess, waddr, main, pbufs>>

RestoreEnd ==
    /\ mode = "boot"
    /\ tpc = "rEnd" \/ (tpc = "rCopy" /\ idx >= cnt)
    /\ clear_boot_flag
    /\ Restart
    /\ UNCHANGED <<flash, iwdg>>

-----------------------------------------------------------------------------
(* thread_main and WDGbackup: roll back after a watchdog reset.            *)

(* Mutants of WdgCatch: the reset flags are cleared before the roll-back;  *)
(* the roll-back is made only in a boot mode that was asked for.           *)
WdgCatchClearsFlag ==
    /\ MainRuns /\ mpc = "loop" /\ iwdg
    /\ iwdg' = FALSE
    /\ mpc' = "wdErase" /\ midx' = 0
    /\ UNCHANGED <<flash, bkp, mode, tcpip, mcnt, pbufs>>

WdgCatchIfAsked ==
    /\ MainRuns /\ mpc = "loop" /\ iwdg /\ bkp
    /\ mpc' = "wdErase" /\ midx' = 0
    /\ UNCHANGED <<flash, bkp, iwdg, mode, tcpip, mcnt, pbufs>>

WdgCatch ==
    /\ MainRuns /\ mpc = "loop" /\ iwdg
    /\ mpc' = "wdErase" /\ midx' = 0
    /\ UNCHANGED <<flash, bkp, iwdg, mode, tcpip, mcnt, pbufs>>

(* Mutant of WdgErase: NbSectors lacks the last sector. *)
WdgEraseOneShort ==
    /\ MainRuns /\ mpc = "wdErase"
    /\ user' = EraseSector(user, midx)
    /\ IF midx + 2 < NumSectors
       THEN midx' = midx + 1 /\ UNCHANGED <<mpc, mcnt>>
       ELSE midx' = 0 /\ mpc' = "wdCopy" /\ mcnt' \in CopyLens(backup[0])
    /\ UNCHANGED <<backup, bkp, iwdg, mode, tcpip, pbufs>>

WdgErase ==
    /\ MainRuns /\ mpc = "wdErase"
    /\ \/ /\ user' = EraseSector(user, midx)
          /\ IF midx + 1 < NumSectors
             THEN midx' = midx + 1 /\ UNCHANGED <<mpc, mcnt>>
             ELSE midx' = 0 /\ mpc' = "wdCopy" /\ mcnt' \in CopyLens(backup[0])
       \/ /\ MainHalFails
          /\ midx' = 0 /\ mpc' = "wdCopy" /\ mcnt' \in CopyLens(backup[0])
          /\ UNCHANGED user
    /\ UNCHANGED <<backup, bkp, iwdg, mode, tcpip, pbufs>>

(* HAL_FLASH_Program takes the lock ... *)
WdgLock ==
    /\ MainRuns /\ mpc = "wdCopy" /\ midx < mcnt
    /\ mpc' = "wdProg"
    /\ UNCHANGED <<flash, bkp, iwdg, mode, tcpip, midx, mcnt, pbufs>>

(* ... and releases it with the cell programmed, or the error noticed. *)
WdgProgram ==
    /\ MainRuns /\ mpc = "wdProg"
    /\ \/ /\ user' = [user EXCEPT ![midx] = Programmed(@, backup[midx])]
          /\ IF user'[midx] = backup[midx]
             THEN midx' = midx + 1 /\ mpc' = "wdCopy"
             ELSE mpc' = "wdEnd" /\ UNCHANGED midx
       \/ /\ MainHalFails
          /\ mpc' = "wdEnd"
          /\ user' \in {user, Damaged(user, {midx})}
          /\ UNCHANGED midx
    /\ UNCHANGED <<backup, bkp, iwdg, mode, tcpip, mcnt, pbufs>>

(* The reset flags and the boot flag are cleared; nothing resets, so the   *)
(* loader stays in boot mode.                                              *)
WdgEnd ==
    /\ MainRuns
    /\ mpc = "wdEnd" \/ (mpc = "wdCopy" /\ midx >= mcnt)
    /\ iwdg' = FALSE
    /\ clear_boot_flag
    /\ mpc' = "loop"
    /\ UNCHANGED <<flash, mode, tcpip, midx, mcnt, pbufs>>

-----------------------------------------------------------------------------
(* Resets nobody asked for.  A flash operation they interrupt leaves any   *)
(* of the cells it was working on damaged.                                 *)

Sector(s) == {c \in Cell : SectorOf[c] = s}

UserAtRisk ==
    (IF tpc \in {"uErase", "rErase"} THEN Sector(idx) ELSE {})
      \union (IF tpc = "rCopy" THEN {idx} \cap Cell ELSE {})
      \union (IF mpc = "wdErase" THEN Sector(midx) ELSE {})
      \union (IF mpc = "wdProg" THEN {midx} \cap Cell ELSE {})
      \union (IF sess # NoSess /\ tpc = "idle" THEN {waddr} \cap Cell ELSE {})

BackupAtRisk ==
    (IF tpc = "bkErase" THEN Sector(idx) ELSE {})
      \union (IF tpc = "bkCopy" THEN {idx} \cap Cell ELSE {})
      \union (IF sess # NoSess /\ tpc = "idle"
              THEN {waddr - SlotCells} \cap Cell ELSE {})

Tear ==
    /\ \E D \in SUBSET UserAtRisk : user' = Damaged(user, D)
    /\ \E D \in SUBSET BackupAtRisk : backup' = Damaged(backup, D)

PowerLoss ==
    /\ "power" \in Stress
    /\ Tear
    /\ bkp' \in {bkp, FALSE}
    /\ iwdg' = FALSE
    /\ Restart

(* The main thread alone refreshes the watchdog: it fires while the tcpip  *)
(* thread keeps the processor in a flash loop, or inside WDGbackup.        *)
WatchdogStarved ==
    /\ mode = "boot"
    /\ \/ "starve" \in Stress /\ (tpc \in {"uErase", "rErase", "rCopy"}
                                    \/ mpc # "loop")
       \/ "starvebk" \in Stress /\ tpc \in {"bkErase", "bkCopy"}
    /\ Tear
    /\ iwdg' = TRUE
    /\ Restart
    /\ UNCHANGED bkp

-----------------------------------------------------------------------------
MainStep ==
    WdgCatch \/ WdgErase \/ WdgLock \/ WdgProgram \/ WdgEnd

TcpipStep ==
    \/ BackupStart \/ BackupErase \/ BackupCopy \/ BackupDone
    \/ OpenNoPcb \/ OpenRefused \/ OpenSession \/ UserErase
    \/ EndVerified \/ EndUntagged \/ CrcSame
    \/ RestoreStart \/ RestoreErase \/ RestoreCopy \/ RestoreEnd

BootStep == BootApp \/ BootNoFirmware \/ BootKernel

Packet ==
    \/ \E op \in {"wrq", "other"} : RecvPort69(op)
    \/ \E i \in Images : \E k \in 0..BodyCells[i] : RecvData(i, k)
    \/ \E i \in Exact : RecvEmpty(i)
    \/ \E e \in ErrorCodes : RecvError(e)
    \/ RecvChained
    \/ SoftResetCommand
    \/ ResetCommand

Next ==
    \/ BootStep \/ MainStep \/ TcpipStep \/ Packet
    \/ AppSoftReset \/ AppHangs
    \/ PowerLoss \/ WatchdogStarved

Spec == Init /\ [][Next]_vars

(* Running threads go on, main() runs after a reset, and an application    *)
(* that does not refresh the watchdog is reset by it.  Packets, commands   *)
(* and power losses are never owed.                                        *)
FairSpec ==
    /\ Spec
    /\ WF_vars(BootStep)
    /\ WF_vars(MainStep)
    /\ WF_vars(TcpipStep)
    /\ WF_vars(AppHangs)

-----------------------------------------------------------------------------
(* Every variable stays in its range, and a port-69 packet in hand is one  *)
(* of the pool's.                                                          *)
TypeOK ==
    /\ user \in [Cell -> Content]
    /\ backup \in [Cell -> Content]
    /\ bkp \in BOOLEAN
    /\ iwdg \in BOOLEAN
    /\ mode \in {"reset", "app", "boot"}
    /\ tpc \in {"idle", "bkMsg", "bkErase", "bkCopy", "open", "uErase",
                "endMsg", "okMsg", "badMsg", "rErase", "rCopy", "rEnd"}
    /\ opc \in {"wrq", "other"}
    /\ idx \in Nat
    /\ cnt \in Nat
    /\ sess \in Nat \union {NoSess}
    /\ waddr \in 0..(2 * SlotCells)
    /\ mpc \in {"loop", "wdErase", "wdCopy", "wdProg", "wdEnd"}
    /\ midx \in Nat
    /\ mcnt \in Nat
    /\ pbufs \in 0..PbufPool
    /\ tpc \in {"bkMsg", "bkErase", "bkCopy", "open"} => pbufs > 0

(* Whatever step of backup, transfer, verification or roll-back a reset    *)
(* interrupts, one of the two slots holds a complete working firmware.     *)
Recoverable == \E i \in Working : UserHolds(i) \/ BackupHolds(i)

(* A watchdog reset makes thread_main erase the user slot and copy the     *)
(* backup over it without looking at the backup: whenever the flag is up,  *)
(* the backup slot holds a complete working firmware.                      *)
RollbackHasSource == iwdg => \E i \in Working : BackupHolds(i)

(* Firmware is jumped to as verified ("CRC same, Jump to new FW") only if  *)
(* the user slot holds a whole file with the CRC its tag states: although  *)
(* the results of writing its blocks were ignored, blocks may be of        *)
(* several files, and the main thread, which may roll the slot back, runs  *)
(* while the message is sent after the comparison.                         *)
JumpsToVerified == [][CrcSame => UserCrcOk']_vars

(* When WDGbackup, or the roll-back after a CRC mismatch, has run to its   *)
(* end, the user slot holds working firmware.                              *)
RollbackComplete == [][WdgEnd \/ RestoreEnd => AppWorks']_vars

(* A backup that FLASH_If_Write reports as written (it read every word     *)
(* back) is a complete copy of the tagged firmware in the user slot, also  *)
(* when the erase before it failed or the main thread took the flash lock. *)
BackupIsCopy ==
    [][BackupDone => \A i \in Tagged : UserHolds(i) => BackupHolds(i)]_vars

(* Only firmware that works is ever copied to the backup slot. *)
BackupOnlyWorking == [][backup' # backup => AppWorks]_vars

(* When IAP_wrq_recv_callback takes a transfer for finished, some file has *)
(* been received whole, that is its last block has been accepted.          *)
WholeFileReceived ==
    tpc = "endMsg" =>
        \E i \in Images :
            sess = BodyCells[i] + (IF i \in Exact THEN 2 ELSE 1)

(* As long as the loader runs, it can still receive a packet: neither a    *)
(* reset command nor a new transfer is shut out for ever.                  *)
Controllable == mode = "boot" => pbufs > 0

(* A watchdog reset leads to working firmware in the user slot, without    *)
(* anyone's help: the roll-back starts over however often the watchdog     *)
(* fires in the middle of it or a command resets the board, if this does   *)
(* not go on for ever.                                                     *)
WatchdogRestores ==
    <>[][~(WatchdogStarved \/ SoftResetCommand \/ ResetCommand)]_vars
      => (iwdg ~> AppWorks)

(* Without firmware main() ends up in boot mode rather than resetting for  *)
(* ever.                                                                   *)
NoFirmwareReachesBoot ==
    (mode = "reset" /\ FALSE \in StackPointerOk(user[1])
       /\ TRUE \notin StackPointerOk(user[1])) ~> mode = "boot"

(* Firmware accepted with "CRC same, Jump to new FW" is jumped to. *)
CrcSameJumps == (mode = "boot" /\ tpc = "okMsg") ~> mode = "app"
-----------------------------------------------------------------------------
(* The inductive invariant behind Recoverable: which slot is the good one  *)
(* at each point of an update.                                             *)

BackupGood == \E i \in Working : BackupHolds(i)

(* While the backup is rewritten the user slot is untouched and working,   *)
(* and the copy has got as far as idx.                                     *)
BackupPhase ==
    /\ tpc \in {"bkMsg", "bkErase", "bkCopy"} => AppWorks
    /\ tpc = "bkErase" =>
          /\ idx < NumSectors
          /\ \A c \in Cell : SectorOf[c] < idx => backup[c] = Erased
    /\ tpc = "bkCopy" =>
          \E i \in Working :
             /\ UserHolds(i)
             /\ cnt = BodyCells[i] + 1
             /\ idx <= cnt
             /\ \A c \in Cell :
                   backup[c] = IF c < idx THEN user[c] ELSE Erased

(* While the user slot is rewritten or given up the backup is good. *)
UpdatePhase ==
    \/ /\ tpc \in {"idle", "bkMsg"}
       /\ sess = NoSess
    \/ tpc \in {"bkErase", "bkCopy"}
    \/ BackupGood

(* The roll-back runs only with the flag up and never beside an update. *)
Separation ==
    /\ tpc # "idle" \/ sess # NoSess => ~iwdg
    /\ mpc # "loop" => iwdg
    /\ mode # "boot" => tpc = "idle" /\ sess = NoSess /\ mpc = "loop"

(* Accepted blocks stay inside the user slot. *)
WriteBound ==
    /\ tpc = "uErase" => sess = 0
    /\ sess # NoSess /\ tpc \in {"idle", "bkMsg", "bkErase", "bkCopy", "open"} =>
          waddr <= sess /\ sess < SlotCells

IInv ==
    /\ Recoverable
    /\ RollbackHasSource
    /\ BackupPhase
    /\ UpdatePhase
    /\ Separation
    /\ WriteBound

(* The invariant behind BackupIsCopy: no other thread runs while the copy  *)
(* is made, so what has been copied stays equal to its source.             *)
CopyPhase ==
    tpc = "bkCopy" =>
        /\ cnt \in CopyLens(user[0])
        /\ \A c \in Cell : c < idx => backup[c] = user[c]

(* What the argument needs of the images and of the environment: the       *)
(* working images have a tag, fit the 16-bit word count and are a whole    *)
(* number of words; every file fits the user slot; none of the adversities *)
(* occurs that the code has no answer to.                                  *)
WellMade ==
    /\ \A i \in Working :
          i \in Tagged /\ i \notin Ragged /\ BodyCells[i] + 1 < LenMod
    /\ \A i \in Images : BodyCells[i] + 1 < SlotCells

(* What a complete backup needs of the tagged images. *)
WholeWords ==
    \A i \in Tagged : i \notin Ragged /\ BodyCells[i] + 1 < LenMod

Calm == Stress \subseteq {"power", "starve", "cmd"}
=============================================================================
