-------------------------------- MODULE Can --------------------------------
(***************************************************************************)
(* The CAN driver (can.c) and its user layer (can_user.c).  Each           *)
(* controller, in an FPGA, has a transmit cache, an identifier filter and  *)
(* operating modes set by commands; one central fifo holds the records of  *)
(* all of them, and two DMA streams empty it in turn.  One thread uses     *)
(* the driver.  Its calls are split at the commands they write, between    *)
(* which the controllers run on.  The controllers are outside the          *)
(* repository: they are modelled from how the driver uses them.            *)
(***************************************************************************)
EXTENDS Integers, Sequences

CONSTANTS
    Buses,       \* controllers, CAN_BUS1 is 1
    MaxId,       \* 0x7FF
    WordIds,     \* identifiers in a word of the filter, 32
    ByteIds,     \* identifiers in a byte of it, 8
    Ranges,      \* FromID and ToID a caller passes
    Timing,      \* settings a caller passes: valid can_clk, can_mode, listen_only
    Timing_CANx, \* the settings of the user layer
    TxCap,       \* records the transmit cache takes
    FifoCap,     \* records the central fifo takes
    MaxCalls, MaxEvents   \* bounds: calls after CAN_UserInit, events on the buses

Bus == 1..Buses
Id  == 0..MaxId

ASSUME CanAssumption ==
    /\ Buses \in Nat \ {0}
    /\ ByteIds \in Nat \ {0} /\ WordIds \in Nat \ {0} /\ MaxId \in Nat
    /\ Ranges \subseteq Nat \X Nat
    /\ Timing \subseteq [clk : BOOLEAN, can_mode : Nat, listen_only : BOOLEAN]
    /\ Timing_CANx \in [Bus -> Timing]
    /\ TxCap \in Nat /\ FifoCap \in Nat
    /\ MaxCalls \in Nat /\ MaxEvents \in Nat

VARIABLES
    StdFilters,  \* identifiers whose bit is set, per bus
    filter,      \* identifiers the controller accepts
    ctl,         \* controller: mode, off (bus-off), options iso and force20
    cache,       \* records in the transmit cache
    flush,       \* buses whose transmit cache is being flushed
    fifo,        \* central receive fifo: bus and kind of each record
    dma_idx,     \* stream of the next transfer, 2 or 4
    prepared,    \* streams set up for a transfer
    buff,        \* the reader's buffer
    call,        \* the call in progress, its parameters and locals
    booted,      \* calls CAN_UserInit has made
    want,        \* history: the filter the calls ask for
    setup,       \* history: settings the bus was last initialised with
    lost,        \* history: buses whose bus-off record an overrun discarded
    queued, taken, \* history: records put into the fifo, records delivered
    calls, events

fpga == <<filter, ctl, cache, flush, fifo>>
read == <<dma_idx, prepared, buff>>
hist == <<want, setup, lost, queued, taken>>
vars == <<StdFilters, fpga, read, call, booted, hist, calls, events>>

Kind   == {"msg", "off", "other"}   \* "other": CRITICAL, status without bus_status
Record == [bus : Bus, kind : Kind]

NoCall   == [pc |-> "idle", bus |-> 1, op |-> "none", from |-> 0, to |-> 0,
             word |-> 0, timing |-> Timing_CANx[1]]
Call(b, p) == [NoCall EXCEPT !.pc = p, !.bus = b]
Goto(p)  == call' = [call EXCEPT !.pc = p]
Idle     == call.pc = "idle"

NoSetup  == [clk |-> FALSE, can_mode |-> 0, listen_only |-> FALSE]
Legal(t) == t.clk /\ t.can_mode \in 0..2

(* CAN_Startup has prepared the stream of the first transfer. *)
Init ==
    /\ StdFilters = [b \in Bus |-> {}]
    /\ filter = [b \in Bus |-> {}]
    /\ ctl = [b \in Bus |-> [mode |-> "reset", off |-> FALSE, iso |-> FALSE,
                             force20 |-> FALSE]]
    /\ cache = [b \in Bus |-> 0] /\ flush = {}
    /\ fifo = <<>> /\ dma_idx = 2 /\ prepared = {2}
    /\ buff = [bus |-> 1, kind |-> "other"]
    /\ call = NoCall /\ booted = 0
    /\ want = [b \in Bus |-> {}] /\ setup = [b \in Bus |-> NoSetup]
    /\ lost = {} /\ queued = <<>> /\ taken = <<>>
    /\ calls = 0 /\ events = 0

(* The application calls the driver once CAN_UserInit has returned. *)
AppCall ==
    /\ Idle /\ booted = 2 * Buses
    /\ calls < MaxCalls /\ calls' = calls + 1
    /\ UNCHANGED booted

-----------------------------------------------------------------------------
(* CAN_FilterAdd, CAN_FilterRem and CAN_FilterReset: the bits of the range,*)
(* one by one up to a byte boundary, then by bytes, then one by one, are   *)
(* changed in StdFilters; then all words are written to the controller.    *)

FilterCall(b, op, from, to) ==
    /\ call' = [Call(b, IF op = "reset" THEN "words" ELSE "bits")
                  EXCEPT !.op = op, !.from = from, !.to = to]
    /\ want' = [want EXCEPT ![b] = IF op = "add" THEN @ \union (from..to)
                                   ELSE @ \ (from..to)]
    /\ UNCHANGED <<StdFilters, fpga, read, setup, lost, queued, taken, events>>

CAN_FilterAdd(b, r) ==
    AppCall /\ r[1] <= r[2] /\ r[2] <= MaxId /\ FilterCall(b, "add", r[1], r[2])

CAN_FilterRem(b, r) ==
    AppCall /\ r[1] <= r[2] /\ r[2] <= MaxId /\ FilterCall(b, "rem", r[1], r[2])

CAN_FilterReset(b) == AppCall /\ FilterCall(b, "reset", 0, MaxId)

(* Mutant of Chunk: the last byte is taken whole. *)
ChunkWhole == IF call.from % ByteIds = 0 THEN ByteIds ELSE 1

(* The identifiers one turn of the loops takes. *)
Chunk ==
    IF call.from % ByteIds = 0 /\ call.from + ByteIds - 1 <= call.to
    THEN ByteIds ELSE 1

SetBits ==
    /\ call.pc = "bits" /\ call.from <= call.to
    /\ LET ids == call.from..(call.from + Chunk - 1) IN
       StdFilters' = [StdFilters EXCEPT ![call.bus] =
                        IF call.op = "add" THEN @ \union ids ELSE @ \ ids]
    /\ call' = [call EXCEPT !.from = @ + Chunk]
    /\ UNCHANGED <<fpga, read, booted, hist, calls, events>>

BitsDone ==
    /\ call.pc = "bits" /\ call.from > call.to
    /\ Goto("words")
    /\ UNCHANGED <<StdFilters, fpga, read, booted, hist, calls, events>>

WordOf(id)  == id \div WordIds
InWord(w)   == {i \in Id : WordOf(i) = w}

(* Mutant of WriteWord: the words not reached yet are cleared first. *)
WriteWordCleared ==
    /\ call.pc = "words"
    /\ LET b == call.bus
           ids == InWord(call.word)
           bits == IF call.op = "reset" THEN StdFilters[b] \ ids ELSE StdFilters[b] IN
       /\ StdFilters' = [StdFilters EXCEPT ![b] = bits]
       /\ filter' = [filter EXCEPT ![b] = IF call.word = 0 THEN bits \cap ids
                                          ELSE @ \union (bits \cap ids)]
    /\ call' = IF call.word = WordOf(MaxId) THEN NoCall
               ELSE [call EXCEPT !.word = @ + 1]
    /\ UNCHANGED <<ctl, cache, flush, fifo, read, booted, hist, calls, events>>

(* SET_STD_FILTER for one word, which CAN_FilterReset clears on the way. *)
WriteWord ==
    /\ call.pc = "words"
    /\ LET b == call.bus
           ids == InWord(call.word)
           bits == IF call.op = "reset" THEN StdFilters[b] \ ids ELSE StdFilters[b] IN
       /\ StdFilters' = [StdFilters EXCEPT ![b] = bits]
       /\ filter' = [filter EXCEPT ![b] = (@ \ ids) \union (bits \cap ids)]
    /\ call' = IF call.word = WordOf(MaxId) THEN NoCall
               ELSE [call EXCEPT !.word = @ + 1]
    /\ UNCHANGED <<ctl, cache, flush, fifo, read, booted, hist, calls, events>>

-----------------------------------------------------------------------------
(* CAN_Initialize and CAN_UnInitialize. *)

StartInitialize(b, t) ==
    /\ call' = [Call(b, "reset") EXCEPT !.timing = t]
    /\ UNCHANGED <<StdFilters, fpga, read, hist, events>>

CAN_Initialize(b, t) == AppCall /\ StartInitialize(b, t)

Reset(b) == ctl' = [ctl EXCEPT ![b].mode = "reset", ![b].off = FALSE]

CAN_UnInitialize(b) ==
    /\ AppCall /\ Reset(b)
    /\ setup' = [setup EXCEPT ![b] = NoSetup]
    /\ lost' = lost \ {b}
    /\ UNCHANGED <<StdFilters, filter, cache, flush, fifo, read, call, want,
                   queued, taken, events>>

ResetMode ==
    /\ call.pc = "reset" /\ Reset(call.bus)
    /\ setup' = [setup EXCEPT ![call.bus] = call.timing]
    /\ lost' = lost \ {call.bus}
    /\ Goto("flush")
    /\ UNCHANGED <<StdFilters, filter, cache, flush, fifo, read, booted, want,
                   queued, taken, calls, events>>

(* Mutant of FlushStart: the flush is not requested. *)
FlushNotStarted ==
    /\ call.pc = "flush" /\ Goto("empty")
    /\ UNCHANGED <<StdFilters, fpga, read, booted, hist, calls, events>>

FlushStart ==
    /\ call.pc = "flush" /\ Goto("empty")
    /\ flush' = flush \union {call.bus}
    /\ UNCHANGED <<StdFilters, filter, ctl, cache, fifo, read, booted, hist,
                   calls, events>>

(* Mutant of FlushEnd: the loop that waits for the empty cache is left out. *)
FlushNotAwaited ==
    /\ call.pc = "empty"
    /\ flush' = flush \ {call.bus}
    /\ IF call.timing.clk THEN Goto("options") ELSE call' = NoCall
    /\ UNCHANGED <<StdFilters, filter, ctl, cache, fifo, read, booted, hist,
                   calls, events>>

(* The cache is empty: end of the flush, clock rate and timings.  A clock  *)
(* that is not known ends the call, the controller stays in reset mode.    *)
FlushEnd ==
    /\ call.pc = "empty" /\ cache[call.bus] = 0
    /\ flush' = flush \ {call.bus}
    /\ IF call.timing.clk THEN Goto("options") ELSE call' = NoCall
    /\ UNCHANGED <<StdFilters, filter, ctl, cache, fifo, read, booted, hist,
                   calls, events>>

(* Mutant of SetOptions: force20 is left as it was in mode 1. *)
SetIsoOnly ==
    /\ call.pc = "options"
    /\ LET m == call.timing.can_mode IN
       /\ call' = IF m \in 0..2 THEN [call EXCEPT !.pc = "run"] ELSE NoCall
       /\ ctl' = [ctl EXCEPT ![call.bus].iso = IF m \in 0..2 THEN m # 0 ELSE @,
                             ![call.bus].force20 = IF m \in {0, 2} THEN m = 2 ELSE @]
    /\ UNCHANGED <<StdFilters, filter, cache, flush, fifo, read, booted, hist,
                   calls, events>>

(* The options of can_mode.  Mode 1 takes a second command. *)
SetOptions ==
    /\ call.pc = "options"
    /\ LET m == call.timing.can_mode IN
       /\ call' = IF m \in 0..2
                  THEN [call EXCEPT !.pc = IF m = 1 THEN "force20" ELSE "run"]
                  ELSE NoCall
       /\ ctl' = [ctl EXCEPT ![call.bus].iso = IF m \in 0..2 THEN m # 0 ELSE @,
                             ![call.bus].force20 = IF m \in {0, 2} THEN m = 2 ELSE @]
    /\ UNCHANGED <<StdFilters, filter, cache, flush, fifo, read, booted, hist,
                   calls, events>>

ClearForce20 ==
    /\ call.pc = "force20" /\ Goto("run")
    /\ ctl' = [ctl EXCEPT ![call.bus].force20 = FALSE]
    /\ UNCHANGED <<StdFilters, filter, cache, flush, fifo, read, booted, hist,
                   calls, events>>

RunMode ==
    /\ call.pc = "run" /\ call' = NoCall
    /\ ctl' = [ctl EXCEPT ![call.bus].mode =
                 IF call.timing.listen_only THEN "listen" ELSE "normal"]
    /\ UNCHANGED <<StdFilters, filter, cache, flush, fifo, read, booted, hist,
                   calls, events>>

(* CAN_UserInit: every bus is initialised and its filter opened. *)
CAN_UserInit ==
    /\ Idle /\ booted < 2 * Buses /\ booted' = booted + 1
    /\ LET b == booted \div 2 + 1 IN
       IF booted % 2 = 0 THEN StartInitialize(b, Timing_CANx[b])
       ELSE FilterCall(b, "add", 0, MaxId)
    /\ UNCHANGED calls

-----------------------------------------------------------------------------
(* CAN_Write, CAN_Read and CAN_UserRead. *)

(* Mutant of CAN_Write: the state of the cache is not looked at. *)
CAN_WriteUnchecked(b) ==
    /\ AppCall
    /\ cache' = [cache EXCEPT ![b] = @ + 1]
    /\ UNCHANGED <<StdFilters, filter, ctl, flush, fifo, read, call, hist, events>>

(* A full cache refuses the record. *)
CAN_Write(b) ==
    /\ AppCall
    /\ cache' = [cache EXCEPT ![b] = IF @ < TxCap THEN @ + 1 ELSE @]
    /\ UNCHANGED <<StdFilters, filter, ctl, flush, fifo, read, call, hist, events>>

(* Mutant of CAN_Read: the index is not changed for the next time. *)
CAN_ReadSameStream ==
    IF fifo = <<>> THEN call' = call /\ UNCHANGED <<read, fifo, taken>>
    ELSE /\ IF dma_idx \in prepared
            THEN buff' = Head(fifo) /\ fifo' = Tail(fifo)
            ELSE UNCHANGED <<buff, fifo>>
         /\ taken' = Append(taken, buff')
         /\ prepared' = (prepared \ {dma_idx}) \union {6 - dma_idx}
         /\ UNCHANGED dma_idx
         /\ call' = Call(buff'.bus, "dispatch")

(* A record is present: the stream of dma_idx moves it into the buffer,    *)
(* while the other one is prepared for the next time.  A stream that is    *)
(* not prepared moves nothing.                                             *)
CAN_Read ==
    IF fifo = <<>> THEN call' = call /\ UNCHANGED <<read, fifo, taken>>
    ELSE /\ IF dma_idx \in prepared
            THEN buff' = Head(fifo) /\ fifo' = Tail(fifo)
            ELSE UNCHANGED <<buff, fifo>>
         /\ taken' = Append(taken, buff')
         /\ prepared' = (prepared \ {dma_idx}) \union {6 - dma_idx}
         /\ dma_idx' = 6 - dma_idx
         /\ call' = Call(buff'.bus, "dispatch")

CAN_UserRead ==
    /\ AppCall /\ CAN_Read
    /\ UNCHANGED <<StdFilters, filter, ctl, cache, flush, want, setup, lost,
                   queued, events>>

(* Mutant of UserDispatch: the controller is reset and not initialised. *)
UserDispatchReset ==
    /\ call.pc = "dispatch"
    /\ IF buff.kind = "off"
       THEN /\ Reset(call.bus) /\ setup' = [setup EXCEPT ![call.bus] = NoSetup]
            /\ lost' = lost \ {call.bus}
            /\ call' = NoCall
       ELSE call' = NoCall /\ UNCHANGED <<ctl, setup, lost>>
    /\ UNCHANGED <<StdFilters, filter, cache, flush, fifo, read, booted, want,
                   queued, taken, calls, events>>

(* Mutant of UserDispatch: a bus-off status is dropped like the others. *)
UserDispatchDrops ==
    /\ call.pc = "dispatch" /\ call' = NoCall
    /\ UNCHANGED <<StdFilters, fpga, read, booted, hist, calls, events>>

(* The rest of CAN_UserRead: a bus-off status has the controller reset and *)
(* initialised again; a message goes to the caller, the rest is dropped.   *)
UserDispatch ==
    /\ call.pc = "dispatch"
    /\ IF buff.kind = "off"
       THEN /\ Reset(call.bus) /\ setup' = [setup EXCEPT ![call.bus] = NoSetup]
            /\ lost' = lost \ {call.bus}
            /\ call' = [call EXCEPT !.pc = "reset", !.timing = Timing_CANx[call.bus]]
       ELSE call' = NoCall /\ UNCHANGED <<ctl, setup, lost>>
    /\ UNCHANGED <<StdFilters, filter, cache, flush, fifo, read, booted, want,
                   queued, taken, calls, events>>

-----------------------------------------------------------------------------
(* The controllers.  A record that does not fit into the central fifo is   *)
(* discarded.                                                              *)

Put(b, k) ==
    /\ events < MaxEvents /\ events' = events + 1
    /\ LET room == Len(fifo) < FifoCap
           rec == [bus |-> b, kind |-> k] IN
       /\ fifo' = IF room THEN Append(fifo, rec) ELSE fifo
       /\ queued' = IF room THEN Append(queued, rec) ELSE queued
       /\ lost' = IF k = "off" /\ ~room THEN lost \union {b} ELSE lost
    /\ UNCHANGED <<StdFilters, filter, cache, flush, read, call, booted, want,
                   setup, taken, calls>>

GoesOff(b) ==
    /\ ctl[b].mode = "normal" /\ ~ctl[b].off
    /\ Put(b, "off")
    /\ ctl' = [ctl EXCEPT ![b].off = TRUE]

Receives(b, k) ==
    /\ ctl[b].mode # "reset" /\ ~ctl[b].off
    /\ Put(b, k) /\ UNCHANGED ctl

(* A record leaves the cache: onto the bus, or by the flush. *)
Sends(b) ==
    /\ cache[b] > 0
    /\ b \in flush \/ (ctl[b].mode = "normal" /\ ~ctl[b].off)
    /\ cache' = [cache EXCEPT ![b] = @ - 1]
    /\ UNCHANGED <<StdFilters, filter, ctl, flush, fifo, read, call, booted, hist,
                   calls, events>>

-----------------------------------------------------------------------------
Driver ==
    \/ CAN_UserInit \/ SetBits \/ BitsDone \/ WriteWord
    \/ ResetMode \/ FlushStart \/ FlushEnd \/ SetOptions \/ ClearForce20 \/ RunMode
    \/ UserDispatch

Next ==
    \/ Driver
    \/ \E b \in Bus :
         \/ \E r \in Ranges : CAN_FilterAdd(b, r) \/ CAN_FilterRem(b, r)
         \/ CAN_FilterReset(b)
         \/ \E t \in Timing : CAN_Initialize(b, t)
         \/ CAN_UnInitialize(b) \/ CAN_Write(b)
         \/ GoesOff(b) \/ Receives(b, "msg") \/ Receives(b, "other") \/ Sends(b)
    \/ CAN_UserRead

Spec == Init /\ [][Next]_vars

(* The thread of the driver runs, and the hardware empties a cache that is *)
(* being flushed.                                                          *)
FairSpec ==
    /\ Spec /\ WF_vars(Driver)
    /\ \A b \in Bus : WF_vars(b \in flush /\ Sends(b))

-----------------------------------------------------------------------------
(* Properties *)

FilterType ==
    /\ StdFilters \in [Bus -> SUBSET Id] /\ filter \in [Bus -> SUBSET Id]
    /\ want \in [Bus -> SUBSET Id]

Ctl == [mode : {"reset", "normal", "listen"}, off : BOOLEAN, iso : BOOLEAN,
        force20 : BOOLEAN]
CtlType ==
    /\ ctl \in [Bus -> Ctl]
    /\ setup \in [Bus -> Timing \union {NoSetup}]
    /\ cache \in [Bus -> 0..TxCap]
    /\ flush \subseteq Bus /\ lost \subseteq Bus

ReadType ==
    /\ fifo \in Seq(Record) /\ Len(fifo) <= FifoCap
    /\ queued \in Seq(Record) /\ taken \in Seq(Record)
    /\ dma_idx \in {2, 4} /\ prepared \subseteq {2, 4}
    /\ buff \in Record

Pc == {"idle", "bits", "words", "reset", "flush", "empty", "options", "force20",
       "run", "dispatch"}
CallType ==
    /\ call \in [pc : Pc, bus : Bus, op : {"none", "add", "rem", "reset"},
                 from : Nat, to : Id, word : Nat, timing : Timing]
    /\ booted \in 0..(2 * Buses)
    /\ calls \in 0..MaxCalls /\ events \in 0..MaxEvents

(* The variables have their types: the caches and the fifo keep to their   *)
(* sizes and the locals of the calls stay in range (can.c:77-738).         *)
TypeOK == FilterType /\ CtlType /\ ReadType /\ CallType

(* Between calls the controller accepts exactly the identifiers that the   *)
(* calls of CAN_FilterAdd, CAN_FilterRem and CAN_FilterReset so far ask    *)
(* for (can.c:354-520): the three loops neither miss nor overrun a bit,    *)
(* and the words written agree with StdFilters.                            *)
FilterExact ==
    Idle => filter = want

(* While a call writes the words one by one, an identifier that is         *)
(* accepted before and after it is accepted throughout, and one that is    *)
(* accepted neither before nor after never is: no traffic is lost or let   *)
(* in by changing the filter of a running bus (can.c:395-407).             *)
FilterKeeps ==
    [][\A b \in Bus : /\ filter[b] \cap want[b] \subseteq filter'[b]
                      /\ filter'[b] \subseteq filter[b] \union want[b]]_vars

(* A controller takes part in the bus only with the options of the         *)
(* settings it was last initialised with, never with settings that         *)
(* CAN_Initialize refuses, and with legal settings it does take part once  *)
(* the call has returned (can.c:560-738), whatever was set before.         *)
RunsAsSet ==
    \A b \in Bus :
      LET t == setup[b] IN
      /\ ctl[b].mode # "reset" =>
           /\ Legal(t)
           /\ ctl[b].mode = (IF t.listen_only THEN "listen" ELSE "normal")
           /\ ctl[b].iso = (t.can_mode # 0)
           /\ ctl[b].force20 = (t.can_mode = 2)
      /\ Idle /\ Legal(t) => ctl[b].mode # "reset"

(* Nothing that was queued before a controller was initialised goes onto   *)
(* the bus after it: the flush is over when the mode is set (can.c:590-598). *)
FlushedFirst ==
    [][\A b \in Bus : ctl[b].mode = "reset" /\ ctl'[b].mode # "reset"
                        => cache[b] = 0 /\ b \notin flush]_vars

(* A bus that went off is taken care of: its record is in the fifo, or     *)
(* CAN_UserRead has taken it and is initialising the bus, unless an        *)
(* overrun discarded the record (can.c:257-266, can_user.c:48-57).         *)
OffAnnounced ==
    \A b \in Bus :
      ctl[b].off =>
        \/ b \in lost
        \/ \E n \in 1..Len(fifo) : fifo[n] = [bus |-> b, kind |-> "off"]
        \/ call.pc = "dispatch" /\ buff = [bus |-> b, kind |-> "off"]

(* The two alternating streams deliver the records of the central fifo     *)
(* once each and in their order (can.c:270-334).                           *)
ReadOnce ==
    taken \o fifo = queued

(* The inductive invariant of the proofs, by its parts. *)

(* Where a call that changes the filter of its bus is. *)
FilterInv ==
    /\ \A b \in Bus :
         ~(call.pc \in {"bits", "words"} /\ call.bus = b)
           => StdFilters[b] = want[b] /\ filter[b] = want[b]
    /\ call.pc = "bits" =>
         LET bits == StdFilters[call.bus]
             left == call.from..call.to IN
         /\ call.word = 0
         /\ \/ call.op = "add" /\ want[call.bus] = bits \union left
            \/ call.op = "rem" /\ want[call.bus] = bits \ left
    /\ call.pc = "words" =>
         /\ call.word <= WordOf(MaxId)
         /\ \A i \in Id :
              /\ WordOf(i) < call.word =>
                   (i \in filter[call.bus] <=> i \in want[call.bus])
              /\ IF call.op = "reset" /\ WordOf(i) >= call.word
                 THEN i \notin want[call.bus]
                 ELSE i \in StdFilters[call.bus] <=> i \in want[call.bus]

(* Where CAN_Initialize is with its bus. *)
Initializing == {"flush", "empty", "options", "force20", "run"}
SetupInv ==
    /\ \A b \in Bus :
         LET t == setup[b] IN
         /\ ctl[b].mode # "reset" =>
              /\ Legal(t)
              /\ ctl[b].mode = (IF t.listen_only THEN "listen" ELSE "normal")
              /\ ctl[b].iso = (t.can_mode # 0)
              /\ ctl[b].force20 = (t.can_mode = 2)
         /\ ctl[b].mode = "reset" /\ Legal(t) =>
              call.pc \in Initializing /\ call.bus = b
    /\ call.pc \in Initializing =>
         ctl[call.bus].mode = "reset" /\ setup[call.bus] = call.timing
    /\ call.pc \in {"options", "force20", "run"} => call.timing.clk
    /\ call.pc \in {"force20", "run"} =>
         /\ call.timing.can_mode \in 0..2
         /\ ctl[call.bus].iso = (call.timing.can_mode # 0)
    /\ call.pc = "force20" => call.timing.can_mode = 1
    /\ call.pc = "run" => ctl[call.bus].force20 = (call.timing.can_mode = 2)

(* The flush of a bus is under way exactly while CAN_Initialize waits for  *)
(* it, and nothing enters the cache from then on.                          *)
FlushInv ==
    /\ flush = IF call.pc = "empty" THEN {call.bus} ELSE {}
    /\ call.pc \in {"options", "force20", "run"} => cache[call.bus] = 0

(* The stream of the next transfer is the one that is prepared. *)
ReadInv ==
    /\ prepared = {dma_idx}
    /\ call.pc = "dispatch" => call.bus = buff.bus
    /\ ReadOnce

IInv == TypeOK /\ FilterInv /\ SetupInv /\ FlushInv /\ ReadInv /\ OffAnnounced

(* Every call of the driver returns: the loop that waits for the empty     *)
(* transmit cache (can.c:592-595) ends, the bus being in reset mode.       *)
CallReturns ==
    ~Idle ~> Idle

(* A controller that was handed over to CAN_UserRead as bus-off takes part *)
(* in the bus again once the call has returned (can_user.c:50-57).         *)
Recovers ==
    \A b \in Bus :
      call.pc = "dispatch" /\ buff = [bus |-> b, kind |-> "off"]
        ~> Idle /\ setup[b] = Timing_CANx[b]
=============================================================================
