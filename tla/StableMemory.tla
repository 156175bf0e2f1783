---------------------------- MODULE StableMemory ----------------------------
(***************************************************************************)
(* What eeprom.h promises: a byte memory whose writes become durable some  *)
(* time later, all pending ones at once, and are durable when              *)
(* EEPROM_FlushCache returns.  A power loss undoes what is pending and may *)
(* damage what is still settling; a reset only undoes what is pending.     *)
(***************************************************************************)
EXTENDS Integers, Sequences

CONSTANTS
    Addr,       \* the addresses, an interval from 0
    Val,        \* the byte values
    Garbage     \* what a byte damaged by a power loss reads as

VARIABLES
    durable,    \* what is in the memory
    pending,    \* a function from the addresses written since, to values
    settling,   \* addresses a power loss may still damage
    req         \* the call being served: operation, address, bytes, result

mvars == <<durable, pending, settling, req>>

Nothing == [a \in {} |-> Garbage]

View(a) == IF a \in DOMAIN pending THEN pending[a] ELSE durable[a]

Idle == [op |-> "none", addr |-> 0, len |-> 0, buf |-> <<>>, got |-> <<>>]

MemInit ==
    /\ durable \in [Addr -> Val]
    /\ pending = Nothing
    /\ settling = {}
    /\ req = Idle

(* The call before has returned. *)
Served == req.len = 0 /\ req.op # "flush"

(* A call with legal parameters begins. *)
BeginWrite ==
    /\ Served
    /\ \E a, b \in Addr :
          /\ a <= b
          /\ \E buf \in [1..(b - a + 1) -> Val] :
                req' = [op |-> "write", addr |-> a, len |-> b - a + 1,
                        buf |-> buf, got |-> <<>>]
    /\ UNCHANGED <<durable, pending, settling>>

BeginRead ==
    /\ Served
    /\ \E a, b \in Addr :
          /\ a <= b
          /\ req' = [op |-> "read", addr |-> a, len |-> b - a + 1,
                     buf |-> <<>>, got |-> <<>>]
    /\ UNCHANGED <<durable, pending, settling>>

BeginFlush ==
    /\ Served
    /\ req' = [Idle EXCEPT !.op = "flush"]
    /\ UNCHANGED <<durable, pending, settling>>

(* The next byte of a write: the first of buf goes to addr. *)
PutByte ==
    /\ req.op = "write" /\ req.len > 0
    /\ pending' = [a \in DOMAIN pending \union {req.addr} |->
                     IF a = req.addr THEN req.buf[1] ELSE pending[a]]
    /\ req' = [req EXCEPT !.addr = @ + 1, !.len = @ - 1, !.buf = Tail(@)]
    /\ UNCHANGED <<durable, settling>>

(* The next byte of a read. *)
GetByte ==
    /\ req.op = "read" /\ req.len > 0
    /\ req' = [req EXCEPT !.addr = @ + 1, !.len = @ - 1,
                          !.got = Append(@, View(req.addr))]
    /\ UNCHANGED <<durable, pending, settling>>

(* A flush returns when nothing is pending or settling. *)
EndFlush ==
    /\ req.op = "flush" /\ pending = Nothing /\ settling = {}
    /\ req' = Idle
    /\ UNCHANGED <<durable, pending, settling>>

Persist ==
    /\ pending # Nothing
    /\ durable' = [a \in Addr |-> View(a)]
    /\ pending' = Nothing
    /\ settling' = settling \union DOMAIN pending
    /\ UNCHANGED req

Settle ==
    /\ settling' \subseteq settling
    /\ UNCHANGED <<durable, pending, req>>

Lose ==
    /\ \E D \in SUBSET settling :
          durable' = [a \in Addr |-> IF a \in D THEN Garbage ELSE durable[a]]
    /\ pending' = Nothing
    /\ settling' = {}
    /\ req' = Idle

MemNext ==
    \/ BeginWrite \/ BeginRead \/ BeginFlush
    \/ PutByte \/ GetByte \/ EndFlush
    \/ Persist \/ Settle \/ Lose

MemSpec == MemInit /\ [][MemNext]_mvars
=============================================================================
