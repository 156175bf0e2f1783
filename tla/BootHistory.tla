---------------------------- MODULE BootHistory ----------------------------
(***************************************************************************)
(* Bootloader with a history variable: whether what is in the user slot    *)
(* was left unfinished by a reset from outside.                            *)
(***************************************************************************)
EXTENDS Bootloader

VARIABLE cut     \* a transfer or a roll-back was cut off, and not repeated

historyVars == <<vars, cut>>

(* The user slot is being rewritten, or is still to be rolled back. *)
UnderWay ==
    iwdg \/ sess # NoSess \/ tpc \in {"badMsg", "rErase", "rCopy", "rEnd"}

(* A loss of power or a reset command cuts off what is under way; the next *)
(* transfer, or a roll-back that gets to its end, replaces what it left.   *)
RecordCut ==
    cut' = \/ cut /\ ~(OpenSession \/ WdgEnd \/ RestoreEnd)
           \/ UnderWay /\ (PowerLoss \/ SoftResetCommand \/ ResetCommand)

HistoryInit == Init /\ cut = FALSE
HistoryNext == Next /\ RecordCut
HistorySpec == HistoryInit /\ [][HistoryNext]_historyVars

(* main() computes no CRC (main.c:243-271), and still it starts no tagged  *)
(* firmware whose CRC does not match its tag, unless a loss of power or a  *)
(* reset command cut off the transfer or roll-back that was to put it      *)
(* there: IAP_wrq_recv_callback has verified it or put the backup in its   *)
(* place, also across watchdog resets in the middle of either.             *)
BootsVerified ==
    mode = "app" /\ TRUE \in ValidFlag(user[0]) /\ ~cut => UserCrcOk
=============================================================================
