------------------------------ MODULE MCTimers ------------------------------
(***************************************************************************)
(* Small instances of Timers: a counter of eight bits and three ticks per  *)
(* millisecond, the largest count a multiple of them, as 2^32 - 1 is of    *)
(* five.                                                                   *)
(***************************************************************************)
EXTENDS Timers

MCInterval == <<1, 5>>
=============================================================================
