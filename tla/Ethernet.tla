------------------------------ MODULE Ethernet ------------------------------
(***************************************************************************)
(* The Ethernet driver between the MAC's DMA and lwIP: the receive ring,   *)
(* the receive interrupt, the binary semaphore and thread that drain the   *)
(* ring into pbufs and post them to the tcpip thread, and                  *)
(* low_level_output with the transmit ring.  Both directions share the HAL *)
(* handle and its lock, which the interrupt opens whoever holds it.        *)
(*                                                                         *)
(* Four contexts by falling priority: interrupt, receive thread            *)
(* (Realtime), tcpip thread (AboveNormal), main thread (Normal).  A step   *)
(* of one is taken only while the ones above it wait; the DMA runs beside  *)
(* them all.                                                               *)
(*                                                                         *)
(* A frame is a sequence of cells, a buffer holds BufCells of them.        *)
(***************************************************************************)
EXTENDS Integers, Sequences, SequencesExt

CONSTANTS
    RxN, TxN,    \* ETH_RXBUFNB, ETH_TXBUFNB
    BufCells,    \* ETH_RX_BUF_SIZE and ETH_TX_BUF_SIZE
    PbufCells,   \* PBUF_POOL_BUFSIZE
    PoolSize,    \* PBUF_POOL_SIZE
    MboxSize,    \* TCPIP_MBOX_SIZE
    MsgPool,     \* MEMP_NUM_TCPIP_MSG_INPKT
    RxLens,      \* lengths of the frames on the wire
    TxShapes,    \* lengths of the pbufs in the chains that are sent
    Senders,     \* threads that send: "tcpip", and "main" by udp_client_send
    MaxRx, MaxTx \* bounds: frames on the wire, calls of low_level_output

ASSUME EthernetAssumption ==
    /\ RxN \in Nat \ {0, 1} /\ TxN \in Nat \ {0}
    /\ BufCells \in Nat \ {0} /\ PbufCells \in Nat \ {0}
    /\ PoolSize \in Nat /\ MboxSize \in Nat /\ MsgPool \in Nat
    /\ RxLens \subseteq Nat \ {0}
    /\ \A shape \in TxShapes : shape \in Seq(Nat \ {0}) /\ shape # <<>>
    /\ Senders \subseteq {"tcpip", "main"}
    /\ MaxRx \in Nat /\ MaxTx \in Nat

VARIABLES
    \* the receive ring and the DMA
    rxd,         \* descriptors: own, fs, ls, fl (frame length), buf
    rxdma,       \* descriptor the DMA fills next
    rxframe,     \* frame being received: its cells, and how many are stored
    rxcount,     \* frames seen on the wire
    rflag,       \* DMASR.R, the receive interrupt is pending
    \* the interrupt, the semaphore and the receive thread
    irq,         \* "none", or "cb" between the callback and the end
    sem,         \* tokens of s_xSemaphore
    rpc,         \* where ethernetif_input is
    RxDesc, FSRxDesc, SegCount, length,   \* heth.RxDesc, heth.RxFrameInfos
    released,    \* descriptors given back by the loop that does so
    copy,        \* locals of the copy loops
    hand,        \* pbuf chain p, <<>> when NULL
    \* lwIP
    pool,        \* free pbufs of PBUF_POOL
    mbox,        \* pbuf chains in tcpip_mbox
    inp,         \* pbuf chain tcpip_thread works on, <<>> when none
    \* transmission
    lock,        \* heth.Lock
    TxDesc,      \* heth.TxDesc
    txd,         \* descriptors: own, size, buf
    txdma,       \* descriptor the DMA sends next
    out,         \* per thread: where low_level_output is, and its locals
    txcount,     \* calls of low_level_output
    reported,    \* frames reported with ERR_OK, by number: their cells
    wire,        \* frames sent
    \* history
    starved      \* pbuf_alloc failed since the ring was last found empty

ring == <<rxd, rxdma, rxframe, rxcount>>
thread == <<rpc, RxDesc, FSRxDesc, SegCount, length, released, copy, hand,
            starved>>
lwip == <<pool, mbox, inp>>
tx == <<TxDesc, txd, txdma, out, txcount, reported, wire>>
vars == <<ring, rflag, irq, sem, thread, lwip, lock, tx>>

-----------------------------------------------------------------------------
RxRing == 0..(RxN - 1)
TxRing == 0..(TxN - 1)

(* Buffer2NextDescAddr: the descriptors are chained into rings. *)
NextRx(d) == (d + 1) % RxN
NextTx(d) == (d + 1) % TxN

(* Cell k of frame number n with m cells; what a buffer held before. *)
Frame(n, m) == [k \in 1..m |-> <<n, k, m>>]
Stale == <<0, 0, 0>>

Pad(cells) == [k \in 1..BufCells |-> IF k <= Len(cells) THEN cells[k] ELSE Stale]

Pbufs(len) == (len + PbufCells - 1) \div PbufCells

Total(lens) ==
    LET sum[i \in 0..Len(lens)] == IF i = 0 THEN 0 ELSE sum[i - 1] + lens[i] IN
    sum[Len(lens)]

NoFrame == [cells |-> <<>>, done |-> 0]
NoCopy == [desc |-> 0, off |-> 0, left |-> 0, rest |-> 0]
Idle == [pc |-> "idle", chain |-> <<>>, cells |-> <<>>, len |-> 0, desc |-> 0]

-----------------------------------------------------------------------------
(* HAL_ETH_DMARxDescListInit, HAL_ETH_DMATxDescListInit, the semaphore     *)
(* with its token and the receive thread, about to take it.                *)
Init ==
    /\ rxd = [d \in RxRing |->
                [own |-> TRUE, fs |-> FALSE, ls |-> FALSE, fl |-> 0, buf |-> Pad(<<>>)]]
    /\ rxdma = 0 /\ rxframe = NoFrame /\ rxcount = 0
    /\ rflag = FALSE /\ irq = "none" /\ sem = 1
    /\ rpc = "wait" /\ RxDesc = 0 /\ FSRxDesc = 0 /\ SegCount = 0 /\ length = 0
    /\ released = 0 /\ copy = NoCopy /\ hand = <<>> /\ starved = FALSE
    /\ pool = PoolSize /\ mbox = <<>> /\ inp = <<>>
    /\ lock = FALSE
    /\ TxDesc = 0 /\ txdma = 0
    /\ txd = [d \in TxRing |-> [own |-> FALSE, size |-> 0, buf |-> Pad(<<>>)]]
    /\ out = [s \in Senders |-> Idle]
    /\ txcount = 0 /\ reported = <<>> /\ wire = <<>>

-----------------------------------------------------------------------------
(* The receiving DMA (external).  A frame that finds no descriptor is      *)
(* lost; one that runs out of them is cut short, its last segment closed   *)
(* as the last of the frame (FlushReceivedFrame is enabled).  The next     *)
(* frame makes a suspended DMA look again, as writing DMARPDR does.        *)

FrameArrives ==
    /\ rxcount < MaxRx
    /\ rxframe = NoFrame
    /\ rxcount' = rxcount + 1
    /\ \E m \in RxLens :
          rxframe' = IF rxd[rxdma].own
                     THEN [cells |-> Frame(rxcount + 1, m), done |-> 0]
                     ELSE NoFrame
    /\ UNCHANGED <<rxd, rxdma, rflag, irq, sem, thread, lwip, lock, tx>>

DmaStores ==
    /\ rxframe # NoFrame
    /\ LET cells == rxframe.cells
           end == IF rxframe.done + BufCells < Len(cells)
                  THEN rxframe.done + BufCells ELSE Len(cells)
           last == end = Len(cells) \/ ~rxd[NextRx(rxdma)].own IN
       /\ rxd' = [rxd EXCEPT ![rxdma] =
                    [own |-> FALSE, fs |-> rxframe.done = 0, ls |-> last,
                     fl |-> end,
                     buf |-> Pad(SubSeq(cells, rxframe.done + 1, end))]]
       /\ rflag' = (rflag \/ last)
       /\ rxframe' = IF last THEN NoFrame ELSE [rxframe EXCEPT !.done = end]
    /\ rxdma' = NextRx(rxdma)
    /\ UNCHANGED <<rxcount, irq, sem, thread, lwip, lock, tx>>

-----------------------------------------------------------------------------
(* ETH_IRQHandler, HAL_ETH_IRQHandler, HAL_ETH_RxCpltCallback.  Only the   *)
(* receive interrupt is enabled.  A full semaphore ignores the release.    *)

(* Mutant of IrqCallback: the semaphore counts. *)
IrqCallbackCounts ==
    /\ rflag /\ irq = "none"
    /\ sem' = sem + 1
    /\ irq' = "cb"
    /\ UNCHANGED <<ring, rflag, thread, lwip, lock, tx>>

IrqCallback ==
    /\ rflag /\ irq = "none"
    /\ sem' = 1
    /\ irq' = "cb"
    /\ UNCHANGED <<ring, rflag, thread, lwip, lock, tx>>

(* Mutant of IrqEnd: the lock is left alone. *)
IrqEndKeepsLock ==
    /\ irq = "cb"
    /\ rflag' = FALSE
    /\ irq' = "none"
    /\ UNCHANGED <<ring, sem, thread, lwip, lock, tx>>

IrqEnd ==
    /\ irq = "cb"
    /\ rflag' = FALSE
    /\ lock' = FALSE
    /\ irq' = "none"
    /\ UNCHANGED <<ring, sem, thread, lwip, tx>>

-----------------------------------------------------------------------------
(* ethernetif_input.  It is ready once it has a token and runs until it    *)
(* waits for the next one.                                                 *)

RxReady == rpc # "wait" \/ sem > 0

SemaphoreAcquire ==
    /\ irq = "none" /\ rpc = "wait" /\ sem > 0
    /\ sem' = 0
    /\ rpc' = "get"
    /\ UNCHANGED <<ring, rflag, irq, RxDesc, FSRxDesc, SegCount, length, released,
                   copy, hand, starved, lwip, lock, tx>>

(* The scan of HAL_ETH_GetReceivedFrame_IT: the descriptors from RxDesc on *)
(* that the DMA has closed, to the end of the frame if it is there.        *)
Closed(k) == \A i \in 0..(k - 1) : ~rxd[(RxDesc + i) % RxN].own
EndsAt(k) ==
    /\ k > 0 /\ Closed(k) /\ rxd[(RxDesc + k - 1) % RxN].ls
    /\ \A i \in 1..(k - 1) : ~rxd[(RxDesc + i - 1) % RxN].ls
FrameReady == \E k \in 1..RxN : EndsAt(k)
Scanned ==
    IF FrameReady
    THEN CHOOSE k \in 1..RxN : EndsAt(k)
    ELSE CHOOSE k \in 0..RxN : Closed(k) /\ (k < RxN => ~Closed(k + 1))

(* A first segment that is not the last restarts SegCount and FSRxDesc,    *)
(* any other adds to what an earlier scan began.                           *)
GetReceivedFrame ==
    /\ irq = "none" /\ rpc = "get"
    /\ IF lock
       THEN /\ rpc' = "wait"          \* HAL_BUSY: p is NULL, nothing done
            /\ UNCHANGED <<RxDesc, FSRxDesc, SegCount, length, starved>>
       ELSE /\ RxDesc' = (RxDesc + Scanned) % RxN
            /\ LET first == Scanned > 0 /\ rxd[RxDesc].fs /\ ~rxd[RxDesc].ls IN
               /\ SegCount' = IF first THEN Scanned ELSE SegCount + Scanned
               /\ FSRxDesc' = IF first \/ (FrameReady /\ SegCount' = 1)
                              THEN RxDesc ELSE FSRxDesc
            /\ IF FrameReady
               THEN /\ length' = rxd[(RxDesc + Scanned - 1) % RxN].fl
                    /\ rpc' = "alloc"
                    /\ UNCHANGED starved
               ELSE /\ rpc' = "wait"  \* HAL_ERROR: no complete frame
                    /\ starved' = FALSE
                    /\ UNCHANGED length
    /\ UNCHANGED <<ring, rflag, irq, sem, released, copy, hand, lwip, lock, tx>>

(* pbuf_alloc chains full pbufs and one with the rest, or fails. *)
PbufLen(rest) == IF rest < PbufCells THEN rest ELSE PbufCells

(* Mutant of AllocPbufs: a failure returns without releasing descriptors. *)
AllocFailReturns ==
    /\ irq = "none" /\ rpc = "alloc"
    /\ hand' = <<>>
    /\ released' = 0
    /\ IF Pbufs(length) <= pool
       THEN /\ pool' = pool - Pbufs(length)
            /\ copy' = [desc |-> FSRxDesc, off |-> 0, left |-> PbufLen(length),
                        rest |-> length - PbufLen(length)]
            /\ rpc' = "copy"
            /\ UNCHANGED starved
       ELSE /\ rpc' = "wait"
            /\ starved' = TRUE
            /\ UNCHANGED <<pool, copy>>
    /\ UNCHANGED <<ring, rflag, irq, sem, RxDesc, FSRxDesc, SegCount, length,
                   mbox, inp, lock, tx>>

AllocPbufs ==
    /\ irq = "none" /\ rpc = "alloc"
    /\ hand' = <<>>
    /\ released' = 0
    /\ IF Pbufs(length) <= pool
       THEN /\ pool' = pool - Pbufs(length)
            /\ copy' = [desc |-> FSRxDesc, off |-> 0, left |-> PbufLen(length),
                        rest |-> length - PbufLen(length)]
            /\ rpc' = "copy"
            /\ UNCHANGED starved
       ELSE /\ rpc' = "release"
            /\ starved' = TRUE
            /\ UNCHANGED <<pool, copy>>
    /\ UNCHANGED <<ring, rflag, irq, sem, RxDesc, FSRxDesc, SegCount, length,
                   mbox, inp, lock, tx>>

(* Mutant of CopyBuffer: it reads from the start of the buffer. *)
CopyFromStart ==
    /\ irq = "none" /\ rpc = "copy"
    /\ copy.left + copy.off > BufCells
    /\ hand' = hand \o SubSeq(rxd[copy.desc].buf, 1, BufCells - copy.off)
    /\ copy' = [copy EXCEPT !.desc = NextRx(@), !.off = 0,
                            !.left = @ - (BufCells - copy.off)]
    /\ UNCHANGED <<ring, rflag, irq, sem, rpc, RxDesc, FSRxDesc, SegCount, length,
                   released, starved, lwip, lock, tx>>

(* The copy loops: the rest of a buffer while the pbuf wants more than     *)
(* that, then what is left for the pbuf, then the next pbuf.               *)
CopyBuffer ==
    /\ irq = "none" /\ rpc = "copy"
    /\ copy.left + copy.off > BufCells
    /\ hand' = hand \o SubSeq(rxd[copy.desc].buf, copy.off + 1, BufCells)
    /\ copy' = [copy EXCEPT !.desc = NextRx(@), !.off = 0,
                            !.left = @ - (BufCells - copy.off)]
    /\ UNCHANGED <<ring, rflag, irq, sem, rpc, RxDesc, FSRxDesc, SegCount, length,
                   released, starved, lwip, lock, tx>>

CopyRest ==
    /\ irq = "none" /\ rpc = "copy"
    /\ copy.left + copy.off <= BufCells
    /\ hand' = hand \o SubSeq(rxd[copy.desc].buf, copy.off + 1, copy.off + copy.left)
    /\ copy' = [copy EXCEPT !.off = @ + copy.left,
                            !.left = PbufLen(copy.rest),
                            !.rest = @ - PbufLen(@)]
    /\ rpc' = IF copy.rest = 0 THEN "release" ELSE "copy"
    /\ UNCHANGED <<ring, rflag, irq, sem, RxDesc, FSRxDesc, SegCount, length,
                   released, starved, lwip, lock, tx>>

(* The OWN bits, one by one, then SegCount, RBUS and the return of p. *)
ReleaseDesc ==
    /\ irq = "none" /\ rpc = "release" /\ released < SegCount
    /\ rxd' = [rxd EXCEPT ![(FSRxDesc + released) % RxN].own = TRUE]
    /\ released' = released + 1
    /\ UNCHANGED <<rxdma, rxframe, rxcount, rflag, irq, sem, rpc, RxDesc, FSRxDesc,
                   SegCount, length, copy, hand, starved, lwip, lock, tx>>

InputReturns ==
    /\ irq = "none" /\ rpc = "release" /\ released = SegCount
    /\ SegCount' = 0
    /\ rpc' = IF hand = <<>> THEN "wait" ELSE "input"
    /\ UNCHANGED <<ring, rflag, irq, sem, RxDesc, FSRxDesc, length, released, copy,
                   hand, starved, lwip, lock, tx>>

(* netif->input is tcpip_input: a message from the pool, posted without    *)
(* waiting; the pbuf is freed if either fails.                             *)
Messages == Len(mbox) + (IF inp = <<>> THEN 0 ELSE 1)
Accepted == Messages < MsgPool /\ Len(mbox) < MboxSize

(* Mutants of NetifInput: one frame per token; a refused pbuf is kept. *)
InputOnce ==
    /\ irq = "none" /\ rpc = "input"
    /\ IF Accepted
       THEN mbox' = Append(mbox, hand) /\ UNCHANGED pool
       ELSE pool' = pool + Pbufs(Len(hand)) /\ UNCHANGED mbox
    /\ hand' = <<>>
    /\ rpc' = "wait"
    /\ UNCHANGED <<ring, rflag, irq, sem, RxDesc, FSRxDesc, SegCount, length,
                   released, copy, starved, inp, lock, tx>>

InputNotFreed ==
    /\ irq = "none" /\ rpc = "input"
    /\ mbox' = IF Accepted THEN Append(mbox, hand) ELSE mbox
    /\ hand' = <<>>
    /\ rpc' = "get"
    /\ UNCHANGED <<ring, rflag, irq, sem, RxDesc, FSRxDesc, SegCount, length,
                   released, copy, starved, pool, inp, lock, tx>>

NetifInput ==
    /\ irq = "none" /\ rpc = "input"
    /\ IF Accepted
       THEN mbox' = Append(mbox, hand) /\ UNCHANGED pool
       ELSE pool' = pool + Pbufs(Len(hand)) /\ UNCHANGED mbox
    /\ hand' = <<>>
    /\ rpc' = "get"
    /\ UNCHANGED <<ring, rflag, irq, sem, RxDesc, FSRxDesc, SegCount, length,
                   released, copy, starved, inp, lock, tx>>

-----------------------------------------------------------------------------
(* tcpip_thread takes a packet, may send while it works on it, frees it.   *)

TcpipRuns == irq = "none" /\ ~RxReady
TcpipSends == "tcpip" \in Senders /\ out["tcpip"] # Idle

MboxFetch ==
    /\ TcpipRuns /\ ~TcpipSends
    /\ inp = <<>> /\ mbox # <<>>
    /\ inp' = Head(mbox)
    /\ mbox' = Tail(mbox)
    /\ UNCHANGED <<ring, rflag, irq, sem, thread, pool, lock, tx>>

PacketDone ==
    /\ TcpipRuns /\ ~TcpipSends
    /\ inp # <<>>
    /\ pool' = pool + Pbufs(Len(inp))
    /\ inp' = <<>>
    /\ UNCHANGED <<ring, rflag, irq, sem, thread, mbox, lock, tx>>

-----------------------------------------------------------------------------
(* low_level_output by thread s.  The tcpip thread also sends from timers; *)
(* the main thread runs while the tcpip thread waits for a packet, or has  *)
(* one in hand and sleeps in udp_client_send after it has sent.            *)

Runs(s) ==
    /\ TcpipRuns
    /\ s = "main" => ~TcpipSends /\ (inp # <<>> \/ mbox = <<>>)

SenderStep(s, from, new) ==
    /\ Runs(s)
    /\ out[s].pc = from
    /\ out' = [out EXCEPT ![s] = new]
    /\ UNCHANGED <<ring, rflag, irq, sem, thread, lwip, txcount>>

(* DmaTxDesc and buffer are read from heth.TxDesc. *)
LowLevelOutput(s) ==
    /\ Runs(s) /\ out[s] = Idle
    /\ txcount < MaxTx
    /\ txcount' = txcount + 1
    /\ \E shape \in TxShapes :
          LET total == Total(shape) IN
          /\ total <= BufCells        \* netif->mtu keeps frames to one buffer
          /\ out' = [out EXCEPT ![s] =
                       [pc |-> "check", chain |-> shape,
                        cells |-> Frame(txcount + 1, total), len |-> 0,
                        desc |-> TxDesc]]
    /\ UNCHANGED <<ring, rflag, irq, sem, thread, lwip, lock, TxDesc, txd, txdma,
                   reported, wire>>

(* Mutant of CheckOwn: the buffer is written whoever owns it. *)
CopyAnyway(s) ==
    /\ SenderStep(s, "check", [out[s] EXCEPT !.pc = "copy"])
    /\ UNCHANGED <<lock, TxDesc, txd, txdma, reported, wire>>

(* A descriptor the DMA still has: ERR_USE. *)
CheckOwn(s) ==
    /\ SenderStep(s, "check",
         IF txd[out[s].desc].own THEN Idle ELSE [out[s] EXCEPT !.pc = "copy"])
    /\ UNCHANGED <<lock, TxDesc, txd, txdma, reported, wire>>

(* The next pbuf of the chain into the buffer. *)
CopyPbuf(s) ==
    LET o == out[s]
        end == o.len + Head(o.chain) IN
    /\ SenderStep(s, "copy",
         [o EXCEPT !.pc = IF Len(o.chain) = 1 THEN "lock" ELSE "check",
                   !.chain = Tail(@), !.len = end])
    /\ txd' = [txd EXCEPT ![o.desc].buf =
                 [k \in 1..BufCells |->
                    IF k \in (o.len + 1)..end THEN o.cells[k] ELSE @[k]]]
    /\ UNCHANGED <<lock, TxDesc, txdma, reported, wire>>

(* HAL_ETH_TransmitFrame, whose result is not looked at: a handle that is  *)
(* locked or a descriptor in use end it, and ERR_OK is returned.           *)
Reported(s) == reported' = Append(reported, out[s].cells)

(* __HAL_LOCK tests and then sets.  Whoever gets in between has opened the *)
(* lock again when the sender goes on: the interrupt only opens it, and a  *)
(* thread of higher priority locks and unlocks before it gives way.        *)
HalLock(s) ==
    /\ SenderStep(s, "lock", IF lock THEN Idle ELSE [out[s] EXCEPT !.pc = "own"])
    /\ IF lock THEN Reported(s) ELSE UNCHANGED reported
    /\ lock' = TRUE
    /\ UNCHANGED <<TxDesc, txd, txdma, wire>>

HalOwn(s) ==
    LET busy == txd[TxDesc].own IN
    /\ SenderStep(s, "own", IF busy THEN Idle ELSE [out[s] EXCEPT !.pc = "give"])
    /\ IF busy THEN Reported(s) /\ lock' = FALSE ELSE UNCHANGED <<reported, lock>>
    /\ UNCHANGED <<TxDesc, txd, txdma, wire>>

GiveToDma(s) ==
    /\ SenderStep(s, "give", [out[s] EXCEPT !.pc = "next"])
    /\ txd' = [txd EXCEPT ![TxDesc].own = TRUE, ![TxDesc].size = out[s].len]
    /\ UNCHANGED <<lock, TxDesc, txdma, reported, wire>>

NextTxDesc(s) ==
    /\ SenderStep(s, "next", [out[s] EXCEPT !.pc = "unlock"])
    /\ TxDesc' = NextTx(TxDesc)
    /\ UNCHANGED <<lock, txd, txdma, reported, wire>>

(* Poll demand, unlock, return ERR_OK. *)
HalUnlock(s) ==
    /\ SenderStep(s, "unlock", Idle)
    /\ lock' = FALSE
    /\ Reported(s)
    /\ UNCHANGED <<TxDesc, txd, txdma, wire>>

(* The sending DMA (external): store and forward, so nothing underflows. *)
DmaSends ==
    /\ txd[txdma].own
    /\ wire' = Append(wire, SubSeq(txd[txdma].buf, 1, txd[txdma].size))
    /\ txd' = [txd EXCEPT ![txdma].own = FALSE]
    /\ txdma' = NextTx(txdma)
    /\ UNCHANGED <<ring, rflag, irq, sem, thread, lwip, lock, TxDesc, out, txcount,
                   reported>>

-----------------------------------------------------------------------------
Irq == IrqCallback \/ IrqEnd

RxThread ==
    \/ SemaphoreAcquire \/ GetReceivedFrame
    \/ AllocPbufs \/ CopyBuffer \/ CopyRest
    \/ ReleaseDesc \/ InputReturns \/ NetifInput

Transmit(s) ==
    \/ CheckOwn(s) \/ CopyPbuf(s) \/ HalLock(s) \/ HalOwn(s)
    \/ GiveToDma(s) \/ NextTxDesc(s) \/ HalUnlock(s)

Tcpip == MboxFetch \/ PacketDone

Dma == DmaStores \/ DmaSends

Next ==
    \/ FrameArrives
    \/ Dma
    \/ Irq
    \/ RxThread
    \/ Tcpip
    \/ \E s \in Senders : LowLevelOutput(s) \/ Transmit(s)

Spec == Init /\ [][Next]_vars

(* The processor does not stop: it serves the interrupt or, there being    *)
(* none, the receive thread, which nothing else can keep from running.     *)
FairSpec == Spec /\ WF_vars(Irq \/ RxThread)

-----------------------------------------------------------------------------
Cell == Nat \X Nat \X Nat

(* Every variable stays in its range: the semaphore is binary             *)
(* (ethernetif.c:342), a copy stays in its buffer (519-541) and no more    *)
(* pbufs are freed than the pool has.                                      *)
TypeOK ==
    /\ rxd \in [RxRing -> [own : BOOLEAN, fs : BOOLEAN, ls : BOOLEAN, fl : Nat,
                           buf : [1..BufCells -> Cell]]]
    /\ rxdma \in RxRing
    /\ rxframe \in [cells : Seq(Cell), done : Nat]
    /\ rxcount \in Nat /\ txcount \in Nat
    /\ rflag \in BOOLEAN /\ lock \in BOOLEAN /\ starved \in BOOLEAN
    /\ irq \in {"none", "cb"} /\ sem \in {0, 1}
    /\ rpc \in {"wait", "get", "alloc", "copy", "release", "input"}
    /\ RxDesc \in RxRing /\ FSRxDesc \in RxRing
    /\ SegCount \in Nat /\ released \in Nat /\ length \in Nat
    /\ copy \in [desc : RxRing, off : 0..BufCells, left : Nat, rest : Nat]
    /\ hand \in Seq(Cell) /\ mbox \in Seq(Seq(Cell)) /\ inp \in Seq(Cell)
    /\ pool \in 0..PoolSize
    /\ TxDesc \in TxRing /\ txdma \in TxRing
    /\ txd \in [TxRing -> [own : BOOLEAN, size : Nat, buf : [1..BufCells -> Cell]]]
    /\ out \in [Senders ->
                  [pc : {"idle", "check", "copy", "lock", "own", "give", "next",
                         "unlock"},
                   chain : Seq(Nat), cells : Seq(Cell), len : Nat, desc : TxRing]]
    /\ reported \in Seq(Seq(Cell)) /\ wire \in Seq(Seq(Cell))

(* The interrupt has been served and the receive thread waits. *)
Asleep == rpc = "wait" /\ sem = 0 /\ ~rflag /\ irq = "none"

(* No wake-up is lost: when the receive thread sleeps, no complete frame   *)
(* waits in the ring (ethernetif.c:240-243, 585-597), unless a pbuf could  *)
(* not be allocated meanwhile, which ends the drain loop early (597).      *)
NoLostWakeup == Asleep /\ ~starved => ~FrameReady

(* Even then the ring never fills behind a sleeping thread: a descriptor   *)
(* is left for the frame whose interrupt wakes it, because the descriptors *)
(* are released without a pbuf too (ethernetif.c:544-552).                 *)
RingNotStuck == Asleep => \E d \in RxRing : rxd[d].own

(* The receive thread never meets a locked handle, on which it would give  *)
(* up without emptying the ring (ethernetif.c:502), although it preempts   *)
(* HAL_ETH_TransmitFrame anywhere: the interrupt that wakes it has opened  *)
(* the lock (stm32f7xx_hal_eth.c:1188).                                    *)
RxNeverBusy == irq = "none" /\ rpc = "get" => ~lock

(* Chains on their way up, oldest first. *)
Upward ==
    (IF inp = <<>> THEN <<>> ELSE <<inp>>) \o mbox
        \o (IF rpc = "input" THEN <<hand>> ELSE <<>>)

(* A packet lwIP gets is one frame of the wire, cell by cell, whole or cut *)
(* at the end of a buffer; packets keep the order of the wire              *)
(* (ethernetif.c:515-542, stm32f7xx_hal_eth.c:1093-1149).                  *)
PacketsIntact ==
    /\ \A i \in 1..Len(Upward) :
          LET p == Upward[i]
              whole == Frame(p[1][1], p[1][3]) IN
          /\ IsPrefix(p, whole)
          /\ p = whole \/ Len(p) % BufCells = 0
    /\ \A i, j \in 1..Len(Upward) : i < j => Upward[i][1][1] < Upward[j][1][1]

(* pbufs are neither leaked nor freed twice, whichever step refuses one    *)
(* (ethernetif.c:589-597, tcpip.c:254-267).                                *)
InHand ==
    IF rpc = "copy" THEN Pbufs(length)
    ELSE IF rpc \in {"release", "input"} THEN Pbufs(Len(hand)) ELSE 0
NoPbufLeak ==
    pool + InHand + Pbufs(Len(inp))
         + Total([i \in 1..Len(mbox) |-> Pbufs(Len(mbox[i]))]) = PoolSize

(* A frame that low_level_output reports with ERR_OK                       *)
(* (ethernetif.c:404-478) is on the wire or in the hands of the DMA,       *)
(* unchanged, although the result of HAL_ETH_TransmitFrame is dropped.     *)
Queued(cells) ==
    \E d \in TxRing :
        txd[d].own /\ SubSeq(txd[d].buf, 1, txd[d].size) = cells
ReportedGoesOut ==
    \A i \in 1..Len(reported) :
        (\E j \in 1..Len(wire) : wire[j] = reported[i]) \/ Queued(reported[i])

(* A full receive ring is emptied again, with pbufs or without             *)
(* (ethernetif.c:577-600).                                                 *)
RingFull == \A d \in RxRing : ~rxd[d].own
RingDrains == RingFull ~> ~RingFull
=============================================================================
