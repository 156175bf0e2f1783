------------------------------- MODULE MCCan -------------------------------
(* Two controllers; a filter of two words of two bytes of two identifiers. *)
EXTENDS Can

IsoFd    == [clk |-> TRUE, can_mode |-> 1, listen_only |-> FALSE]
Classic  == [clk |-> TRUE, can_mode |-> 2, listen_only |-> TRUE]
PlainFd  == [clk |-> TRUE, can_mode |-> 0, listen_only |-> FALSE]
BadClock == [clk |-> FALSE, can_mode |-> 1, listen_only |-> FALSE]
BadMode  == [clk |-> TRUE, can_mode |-> 3, listen_only |-> FALSE]

MCTiming == {IsoFd, Classic, PlainFd, BadClock, BadMode}
MCTimingCANx == [b \in 1..Buses |-> IsoFd]
MCRanges == {<<0, 7>>, <<1, 4>>, <<2, 5>>, <<3, 3>>, <<5, 3>>, <<6, 8>>}
=============================================================================
