--------------------------- MODULE Ethernet_proofs ---------------------------
(***************************************************************************)
(* Proofs about the receive side of Ethernet, for rings, buffers, pools    *)
(* and frames of any size and any senders.                                 *)
(***************************************************************************)
EXTENDS Ethernet, TLAPS, WellFoundedInduction, SequenceTheorems

(* A set of naturals that is not empty has a least element. *)
LEMMA Least ==
    ASSUME NEW T \in SUBSET Nat, T # {}
    PROVE  \E n \in T : \A m \in T : n <= m
<1> DEFINE Lt == OpToRel(<, Nat)
<1>1. IsWellFoundedOn(Lt, Nat)
  BY NatLessThanWellFounded
<1>2. \A x, y \in Nat : y < x => <<y, x>> \in Lt
  BY Zenon DEF OpToRel
<1> HIDE DEF Lt
<1>3. PICK x \in T : \A y \in T : ~(<<y, x>> \in Lt)
  BY <1>1, WFMin
<1>4. \A y \in T : ~(y < x)
  BY <1>2, <1>3
<1>5. QED BY <1>4

(* Remainders on the receive ring. *)
LEMMA RxMod ==
    ASSUME NEW a \in Nat, a < RxN + RxN
    PROVE  a % RxN = IF a < RxN THEN a ELSE a - RxN
<1> DEFINE q == a \div RxN
           r == a % RxN
<1>0. RxN \in Nat \ {0}
  BY EthernetAssumption
<1>1. q \in Int /\ r \in Int /\ 0 <= r /\ r < RxN /\ a = RxN * q + r
  BY <1>0
<1> HIDE DEF q, r
<1>2. q >= 0 /\ q < 2
  <2>1. CASE q < 0
    BY <1>0, <1>1, <2>1
  <2>2. CASE q >= 2
    BY <1>0, <1>1, <2>2
  <2>3. QED BY <1>1, <2>1, <2>2
<1>3. q = 0 \/ q = 1
  BY <1>1, <1>2
<1>4. QED BY <1>0, <1>1, <1>3 DEF r

(* Walking the receive ring: the descriptor i further on. *)
LEMMA Walk ==
    ASSUME NEW d \in RxRing, NEW i \in 0..RxN
    PROVE  /\ (d + i) % RxN \in RxRing
           /\ i < RxN => NextRx((d + i) % RxN) = (d + (i + 1)) % RxN
           /\ (d + 0) % RxN = d /\ (d + RxN) % RxN = d
<1>1. RxN \in Nat /\ RxN > 1 /\ d \in Nat /\ d < RxN /\ i \in Nat /\ i <= RxN
  BY EthernetAssumption DEF RxRing
<1>2. (d + i) % RxN = IF d + i < RxN THEN d + i ELSE d + i - RxN
  <2>1. PICK a \in Nat : a = d + i /\ a < RxN + RxN
    BY <1>1
  <2>2. a % RxN = IF a < RxN THEN a ELSE a - RxN
    BY <2>1, RxMod
  <2>3. QED BY <1>1, <2>1, <2>2
<1>3. (d + 0) % RxN = d /\ (d + RxN) % RxN = d
  <2> DEFINE a == d + RxN
  <2>1. a \in Nat /\ a < RxN + RxN /\ ~(a < RxN) /\ a - RxN = d
    BY <1>1
  <2>2. d + 0 = d /\ d < RxN + RxN
    BY <1>1
  <2> HIDE DEF a
  <2>3. a % RxN = d
    BY <2>1, RxMod
  <2>4. d % RxN = d
    BY <1>1, <2>2, RxMod
  <2>5. QED BY <2>2, <2>3, <2>4 DEF a
<1>4. (d + i) % RxN \in RxRing
  BY <1>1, <1>2 DEF RxRing
<1>5. ASSUME i < RxN PROVE NextRx((d + i) % RxN) = (d + (i + 1)) % RxN
  <2> DEFINE a == d + (i + 1)
             b == (d + i) % RxN
             c == b + 1
  <2>1. a \in Nat /\ a < RxN + RxN
    BY <1>1, <1>5
  <2>2. c \in Nat /\ c < RxN + RxN
    BY <1>1, <1>4 DEF RxRing
  <2>3. c = IF d + i < RxN THEN a ELSE a - RxN
    BY <1>1, <1>2
  <2> HIDE DEF a, b, c
  <2>4. a % RxN = IF a < RxN THEN a ELSE a - RxN
    BY <2>1, RxMod
  <2>5. c % RxN = IF c < RxN THEN c ELSE c - RxN
    BY <2>2, RxMod
  <2>6. a < RxN => d + i < RxN
    BY <1>1 DEF a
  <2>7. ~(d + i < RxN) => a - RxN < RxN
    BY <1>1, <1>5 DEF a
  <2>8. c % RxN = a % RxN
    BY <1>1, <2>1, <2>2, <2>3, <2>4, <2>5, <2>6, <2>7
  <2>9. QED BY <2>8 DEF a, b, c, NextRx
<1>6. QED BY <1>3, <1>4, <1>5

(* Every descriptor is met on the way around. *)
LEMMA Around ==
    ASSUME NEW d \in RxRing, NEW e \in RxRing
    PROVE  \E i \in 0..(RxN - 1) : (d + i) % RxN = e
<1>1. RxN \in Nat /\ RxN > 1 /\ d \in Nat /\ d < RxN /\ e \in Nat /\ e < RxN
  BY EthernetAssumption DEF RxRing
<1>2. CASE d <= e
  <2>1. e - d \in 0..(RxN - 1) /\ d + (e - d) = e /\ e < RxN + RxN
    BY <1>1, <1>2
  <2>2. e % RxN = e
    BY <1>1, <2>1, RxMod
  <2>3. QED BY <2>1, <2>2
<1>3. CASE d > e
  <2>1. e - d + RxN \in 0..(RxN - 1) /\ d + (e - d + RxN) = e + RxN
    BY <1>1, <1>3
  <2>2. (e + RxN) % RxN = e
    <3>1. RxN \in 0..RxN
      BY <1>1
    <3>2. QED BY <3>1, Walk
  <2>3. QED BY <2>1, <2>2
<1>4. QED BY <1>1, <1>2, <1>3

(* The next descriptor is another one. *)
LEMMA NextDiffers ==
    ASSUME NEW d \in RxRing
    PROVE  NextRx(d) \in RxRing /\ NextRx(d) # d
<1>1. RxN \in Nat /\ RxN > 1 /\ d \in Nat /\ d < RxN
  BY EthernetAssumption DEF RxRing
<1> DEFINE a == d + 1
<1>2. a \in Nat /\ a < RxN + RxN
  BY <1>1
<1> HIDE DEF a
<1>3. a % RxN = IF a < RxN THEN a ELSE a - RxN
  BY <1>2, RxMod
<1>4. QED BY <1>1, <1>3 DEF a, NextRx, RxRing

-----------------------------------------------------------------------------
(* The inductive invariant, over the receive side and the handle's lock.   *)

(* The variables of the receive side stay in their ranges. *)
RxType ==
    /\ rxd \in [RxRing -> [own : BOOLEAN, fs : BOOLEAN, ls : BOOLEAN, fl : Nat,
                           buf : [1..BufCells -> Cell]]]
    /\ rxdma \in RxRing /\ RxDesc \in RxRing /\ FSRxDesc \in RxRing
    /\ rxframe \in [cells : Seq(Cell), done : Nat]
    /\ rxcount \in Nat
    /\ sem \in {0, 1}
    /\ SegCount \in Nat /\ released \in Nat /\ length \in Nat
    /\ copy \in [desc : RxRing, off : 0..BufCells, left : Nat, rest : Nat]
    /\ hand \in Seq(Cell)

(* While the receive thread could run the handle is open: its wake-up went *)
(* through the end of the interrupt, and who locks is kept from running.   *)
LockInv == irq = "none" /\ RxReady => ~lock

(* The callback has left a token, and nobody takes it in the interrupt. *)
TokenInv == irq = "cb" => sem = 1

(* A frame under way has cells, so a last segment counts at least one. *)
CellsInv ==
    /\ rxframe # NoFrame => Len(rxframe.cells) >= 1
    /\ \A d \in RxRing : ~rxd[d].own /\ rxd[d].ls => rxd[d].fl >= 1

(* Where the thread is and what it has: only a failed allocation leaves it *)
(* without a pbuf.                                                         *)
ThreadInv ==
    /\ rpc = "alloc" => length >= 1
    /\ rpc = "copy" => copy.left >= 1 /\ released = 0
    /\ rpc = "release" /\ hand = <<>> => starved
    /\ rpc \in {"alloc", "copy", "release"} => SegCount >= 1

(* A full ring holds the end of a frame, and somebody is on the way to it. *)
FullInv ==
    RingFull =>
        /\ \E d \in RxRing : rxd[d].ls
        /\ \/ rflag \/ sem = 1
           \/ rpc \in {"get", "alloc", "copy"}
           \/ rpc = "release" /\ released = 0

(* A frame the waiting thread has not seen has its interrupt or its token. *)
WakeInv == rpc = "wait" /\ ~starved /\ FrameReady => rflag \/ sem = 1

EthIInv ==
    /\ RxType /\ LockInv /\ TokenInv /\ CellsInv
    /\ ThreadInv /\ FullInv /\ WakeInv

-----------------------------------------------------------------------------
(* The initial state: the ring is empty and the thread has a token. *)
LEMMA InitIInv == Init => EthIInv
<1> SUFFICES ASSUME Init PROVE EthIInv
  OBVIOUS
<1>1. RxN \in Nat /\ RxN > 1 /\ BufCells \in Nat
  BY EthernetAssumption
<1>2. 0 \in RxRing
  BY <1>1 DEF RxRing
<1>3. Pad(<<>>) \in [1..BufCells -> Cell]
  BY <1>1 DEF Pad, Stale, Cell
<1>4. RxType
  BY <1>1, <1>2, <1>3 DEF Init, RxType, NoFrame, NoCopy
<1>5. LockInv /\ TokenInv /\ CellsInv /\ ThreadInv
  BY DEF Init, LockInv, TokenInv, CellsInv, ThreadInv, NoFrame
<1>6. FullInv /\ WakeInv
  BY <1>2 DEF Init, FullInv, WakeInv, RingFull
<1>7. QED BY <1>4, <1>5, <1>6 DEF EthIInv

(* Steps that leave the receive side alone, and lock only while its thread *)
(* waits: the tcpip thread, the senders, the sending DMA.                  *)
LEMMA Untouched ==
    ASSUME EthIInv, UNCHANGED <<ring, rflag, irq, sem, thread>>,
           lock' = lock \/ ~RxReady
    PROVE  EthIInv'
<1> USE DEF ring, thread
<1>1. RxType' /\ TokenInv' /\ CellsInv' /\ ThreadInv'
  BY DEF EthIInv, RxType, TokenInv, CellsInv, ThreadInv
<1>2. LockInv'
  BY DEF EthIInv, LockInv, RxReady
<1>3. FullInv' /\ WakeInv'
  BY DEF EthIInv, FullInv, WakeInv, RingFull, FrameReady, EndsAt, Closed
<1>4. QED BY <1>1, <1>2, <1>3 DEF EthIInv

(* A frame begins. *)
LEMMA FrameArrivesKeeps ==
    ASSUME EthIInv, FrameArrives
    PROVE  EthIInv'
<1> USE DEF thread
<1>1. PICK m \in RxLens :
        rxframe' = IF rxd[rxdma].own
                   THEN [cells |-> Frame(rxcount + 1, m), done |-> 0]
                   ELSE NoFrame
  BY DEF FrameArrives
<1>2. m \in Nat /\ m >= 1 /\ rxcount + 1 \in Nat
  BY EthernetAssumption DEF EthIInv, RxType
<1>3. Frame(rxcount + 1, m) \in Seq(Cell) /\ Len(Frame(rxcount + 1, m)) = m
  BY <1>2 DEF Frame, Cell
<1>4. RxType'
  BY <1>1, <1>2, <1>3 DEF EthIInv, RxType, FrameArrives, NoFrame
<1>5. CellsInv'
  BY <1>1, <1>2, <1>3 DEF EthIInv, CellsInv, FrameArrives, NoFrame
<1>6. LockInv' /\ TokenInv' /\ ThreadInv'
  BY DEF EthIInv, LockInv, RxReady, TokenInv, ThreadInv, FrameArrives
<1>7. FullInv' /\ WakeInv'
  BY DEF EthIInv, FullInv, WakeInv, RingFull, FrameReady, EndsAt, Closed, FrameArrives
<1>8. QED BY <1>4, <1>5, <1>6, <1>7 DEF EthIInv

(* The DMA fills a descriptor. *)
LEMMA DmaStoresKeeps ==
    ASSUME EthIInv, DmaStores
    PROVE  EthIInv'
<1> DEFINE cells == rxframe.cells
           end == IF rxframe.done + BufCells < Len(cells)
                  THEN rxframe.done + BufCells ELSE Len(cells)
           last == end = Len(cells) \/ ~rxd[NextRx(rxdma)].own
           seg == SubSeq(cells, rxframe.done + 1, end)
<1>1. /\ rxd' = [rxd EXCEPT ![rxdma] =
                   [own |-> FALSE, fs |-> rxframe.done = 0, ls |-> last,
                    fl |-> end, buf |-> Pad(seg)]]
      /\ rflag' = (rflag \/ last)
      /\ rxframe' = IF last THEN NoFrame ELSE [rxframe EXCEPT !.done = end]
      /\ rxdma' = NextRx(rxdma)
      /\ rxframe # NoFrame
      /\ UNCHANGED <<rxcount, irq, sem, thread, lwip, lock, tx>>
  BY DEF DmaStores
<1>2. /\ cells \in Seq(Cell) /\ Len(cells) \in Nat /\ Len(cells) >= 1
      /\ rxframe.done \in Nat /\ BufCells \in Nat /\ BufCells >= 1
      /\ rxframe = [cells |-> cells, done |-> rxframe.done]
  <2>1. BufCells \in Nat /\ BufCells >= 1
    BY EthernetAssumption
  <2>2. rxframe \in [cells : Seq(Cell), done : Nat]
    BY DEF EthIInv, RxType
  <2>3. /\ rxframe.cells \in Seq(Cell) /\ rxframe.done \in Nat
        /\ rxframe = [cells |-> rxframe.cells, done |-> rxframe.done]
    BY <2>2
  <2>4. Len(rxframe.cells) >= 1
    BY <1>1 DEF EthIInv, CellsInv
  <2>5. Len(rxframe.cells) \in Nat
    BY <2>3
  <2>6. QED BY <2>1, <2>3, <2>4, <2>5
<1>3. end \in Nat /\ end >= 1 /\ end <= Len(cells)
  BY <1>2
<1>4. seg \in Seq(Cell)
  BY <1>2, <1>3
<1>5. PICK e \in RxRing : e = rxdma
  BY DEF EthIInv, RxType
<1>6. NextRx(rxdma) \in RxRing /\ NextRx(rxdma) # rxdma
  BY <1>5, NextDiffers
<1>7. Pad(seg) \in [1..BufCells -> Cell]
  <2> HIDE DEF seg
  <2>1. \A k \in 1..BufCells : k <= Len(seg) => seg[k] \in Cell
    BY <1>2, <1>4
  <2>2. Stale \in Cell
    BY DEF Stale, Cell
  <2>3. QED BY <2>1, <2>2 DEF Pad
<1> HIDE DEF seg, end, last, cells
<1>8. last \in BOOLEAN
  BY DEF last
<1>9. rxd' \in [RxRing -> [own : BOOLEAN, fs : BOOLEAN, ls : BOOLEAN, fl : Nat,
                           buf : [1..BufCells -> Cell]]]
  BY <1>1, <1>3, <1>7, <1>8 DEF EthIInv, RxType
<1>10. RxType'
  <2>1. <<>> \in Seq(Cell) /\ NoFrame \in [cells : Seq(Cell), done : Nat]
    BY DEF NoFrame
  <2>2. [rxframe EXCEPT !.done = end] \in [cells : Seq(Cell), done : Nat]
    BY <1>3 DEF EthIInv, RxType
  <2>3. rxframe' \in [cells : Seq(Cell), done : Nat]
    BY <1>1, <2>1, <2>2
  <2>4. QED BY <1>1, <1>6, <1>9, <2>3 DEF EthIInv, RxType, thread
<1>11. CellsInv'
  <2>1. rxframe' # NoFrame => Len(rxframe'.cells) >= 1
    BY <1>1, <1>2 DEF NoFrame
  <2>2. \A d \in RxRing : ~rxd'[d].own /\ rxd'[d].ls => rxd'[d].fl >= 1
    BY <1>1, <1>3 DEF EthIInv, RxType, CellsInv
  <2>3. QED BY <2>1, <2>2 DEF CellsInv
<1>12. LockInv' /\ TokenInv' /\ ThreadInv'
  BY <1>1 DEF EthIInv, LockInv, RxReady, TokenInv, ThreadInv, thread
<1>13. CASE last
  <2>1. rflag' /\ rxd'[rxdma].ls /\ rxdma \in RxRing
    BY <1>1, <1>8, <1>13 DEF EthIInv, RxType
  <2>2. FullInv' /\ WakeInv'
    BY <2>1 DEF FullInv, WakeInv
  <2>3. QED BY <1>10, <1>11, <1>12, <2>2 DEF EthIInv
<1>14. CASE ~last
  <2>1. /\ rxd'[NextRx(rxdma)].own
        /\ \A d \in RxRing : d # rxdma => rxd'[d] = rxd[d]
        /\ ~rxd'[rxdma].ls
    BY <1>1, <1>6, <1>14 DEF EthIInv, RxType, last
  <2>2. FullInv'
    BY <1>6, <2>1 DEF FullInv, RingFull
  <2>3. ASSUME FrameReady' PROVE FrameReady
    <3>1. PICK k \in 1..RxN : EndsAt(k)'
      BY <2>3 DEF FrameReady
    <3>2. PICK c \in RxRing : c = RxDesc /\ c = RxDesc'
      BY <1>1 DEF EthIInv, RxType, thread
    <3>3. /\ \A i \in 0..(k - 1) : ~rxd'[(c + i) % RxN].own
          /\ rxd'[(c + k - 1) % RxN].ls
          /\ \A i \in 1..(k - 1) : ~rxd'[(c + i - 1) % RxN].ls
      BY <3>1, <3>2 DEF EndsAt, Closed
    <3>4. RxN \in Nat /\ k \in Nat /\ c \in Nat /\ k >= 1 /\ k <= RxN
      BY EthernetAssumption DEF RxRing
    <3>5. ASSUME NEW i \in 0..(k - 1) PROVE (c + i) % RxN # rxdma
      <4>1. SUFFICES ASSUME (c + i) % RxN = rxdma PROVE FALSE
        OBVIOUS
      <4>2. CASE i = k - 1
        <5>1. c + k - 1 = c + i
          BY <3>4, <4>2
        <5>2. QED BY <2>1, <3>3, <4>1, <5>1
      <4>3. CASE i # k - 1
        <5>1. i + 1 \in 0..(k - 1) /\ i < RxN /\ i \in 0..RxN
          BY <3>4, <4>3
        <5>2. NextRx(rxdma) = (c + (i + 1)) % RxN
          BY <4>1, <5>1, Walk
        <5>3. QED BY <2>1, <3>3, <5>1, <5>2
      <4>4. QED BY <4>2, <4>3
    <3>6. \A i \in 0..(k - 1) : rxd'[(c + i) % RxN] = rxd[(c + i) % RxN]
      <4>1. ASSUME NEW i \in 0..(k - 1)
            PROVE  rxd'[(c + i) % RxN] = rxd[(c + i) % RxN]
        <5>1. i \in 0..RxN
          BY <3>4
        <5>2. (c + i) % RxN \in RxRing
          BY <5>1, Walk
        <5>3. QED BY <2>1, <3>5, <5>2
      <4>2. QED BY <4>1
    <3>7. \A i \in 1..k : rxd'[(c + i - 1) % RxN] = rxd[(c + i - 1) % RxN]
      <4>1. ASSUME NEW i \in 1..k
            PROVE  rxd'[(c + i - 1) % RxN] = rxd[(c + i - 1) % RxN]
        <5>1. i - 1 \in 0..(k - 1) /\ c + i - 1 = c + (i - 1)
          BY <3>4
        <5>2. QED BY <3>6, <5>1
      <4>2. QED BY <4>1
    <3>8. EndsAt(k)
      <4>1. Closed(k)
        BY <3>2, <3>3, <3>6 DEF Closed
      <4>2. rxd[(RxDesc + k - 1) % RxN].ls
        BY <3>2, <3>3, <3>4, <3>7
      <4>3. \A i \in 1..(k - 1) : ~rxd[(RxDesc + i - 1) % RxN].ls
        BY <3>2, <3>3, <3>4, <3>7
      <4>4. QED BY <3>4, <4>1, <4>2, <4>3 DEF EndsAt
    <3>9. QED BY <3>8 DEF FrameReady
  <2>4. WakeInv'
    BY <1>1, <2>3 DEF EthIInv, WakeInv, thread
  <2>5. QED BY <1>10, <1>11, <1>12, <2>2, <2>4 DEF EthIInv
<1>15. QED BY <1>13, <1>14

(* The two halves of the interrupt. *)
LEMMA IrqKeeps ==
    ASSUME EthIInv, Irq
    PROVE  EthIInv'
<1> USE DEF ring, thread
<1>1. RxType' /\ TokenInv' /\ CellsInv' /\ ThreadInv'
  BY DEF EthIInv, RxType, TokenInv, CellsInv, ThreadInv, Irq, IrqCallback, IrqEnd
<1>2. LockInv'
  BY DEF EthIInv, LockInv, Irq, IrqCallback, IrqEnd
<1>3. sem' = 1
  BY DEF EthIInv, TokenInv, Irq, IrqCallback, IrqEnd
<1>4. FullInv' /\ WakeInv'
  BY <1>3 DEF EthIInv, FullInv, WakeInv, RingFull, Irq, IrqCallback, IrqEnd
<1>5. QED BY <1>1, <1>2, <1>4 DEF EthIInv

-----------------------------------------------------------------------------
(* A scan that finds a frame goes to its end. *)
LEMMA ScanFinds ==
    ASSUME FrameReady
    PROVE  Scanned \in 1..RxN /\ EndsAt(Scanned)
BY Zenon DEF Scanned, FrameReady

(* Any other scan goes as far as the descriptors are closed. *)
LEMMA ScanStops ==
    ASSUME ~FrameReady
    PROVE  /\ Scanned \in 0..RxN
           /\ Closed(Scanned) /\ (Scanned < RxN => ~Closed(Scanned + 1))
<1>1. RxN \in Nat
  BY EthernetAssumption
<1>2. PICK T \in SUBSET Nat : T = {k \in 0..RxN : k < RxN => ~Closed(k + 1)}
  <2>1. {k \in 0..RxN : k < RxN => ~Closed(k + 1)} \in SUBSET Nat
    BY <1>1
  <2>2. QED BY <2>1, Zenon
<1>3. RxN \in T
  BY <1>1, <1>2
<1>4. PICK k \in T : \A m \in T : k <= m
  BY <1>3, Least
<1>5. k \in 0..RxN /\ k \in Nat /\ (k < RxN => ~Closed(k + 1))
  BY <1>2
<1>6. Closed(k)
  <2>1. CASE k = 0
    BY <2>1 DEF Closed
  <2>2. CASE k # 0
    <3>1. k - 1 \in 0..RxN /\ k - 1 < RxN /\ ~(k <= k - 1) /\ k - 1 + 1 = k
      BY <1>1, <1>5, <2>2
    <3>2. k - 1 \notin T
      BY <1>4, <3>1
    <3>3. QED BY <1>2, <3>1, <3>2
  <2>3. QED BY <2>1, <2>2
<1>7. \E j \in 0..RxN : Closed(j) /\ (j < RxN => ~Closed(j + 1))
  BY <1>5, <1>6
<1>8. QED BY <1>7, Zenon DEF Scanned

(* In a full ring with the end of a frame in it, a scan finds a frame. *)
LEMMA FullHasFrame ==
    ASSUME RxType, RingFull, \E d \in RxRing : rxd[d].ls
    PROVE  FrameReady
<1>1. RxN \in Nat /\ RxN > 1
  BY EthernetAssumption
<1>2. PICK c \in RxRing : c = RxDesc
  BY DEF RxType
<1>3. PICK d \in RxRing : rxd[d].ls
  OBVIOUS
<1>4. PICK i \in 0..(RxN - 1) : (c + i) % RxN = d
  BY Around
<1>5. PICK T \in SUBSET Nat : T = {k \in 1..RxN : rxd[(c + (k - 1)) % RxN].ls}
  <2>1. {k \in 1..RxN : rxd[(c + (k - 1)) % RxN].ls} \in SUBSET Nat
    BY <1>1
  <2>2. QED BY <2>1, Zenon
<1>6. i + 1 \in T
  <2>1. i + 1 \in 1..RxN /\ i + 1 - 1 = i
    BY <1>1
  <2>2. QED BY <1>3, <1>4, <1>5, <2>1
<1>7. PICK k \in T : \A m \in T : k <= m
  BY <1>6, Least
<1>8. k \in 1..RxN /\ rxd[(c + (k - 1)) % RxN].ls /\ c \in Nat
  BY <1>5, <1>1 DEF RxRing
<1>9. \A j \in 1..(k - 1) : ~rxd[(c + (j - 1)) % RxN].ls
  <2>1. ASSUME NEW j \in 1..(k - 1) PROVE ~rxd[(c + (j - 1)) % RxN].ls
    <3>1. j \in 1..RxN /\ ~(k <= j)
      BY <1>1, <1>8
    <3>2. j \notin T
      BY <1>7, <3>1
    <3>3. QED BY <1>5, <3>1, <3>2
  <2>2. QED BY <2>1
<1>10. Closed(k)
  <2>1. ASSUME NEW j \in 0..(k - 1) PROVE ~rxd[(c + j) % RxN].own
    <3>1. j \in 0..RxN
      BY <1>1, <1>8
    <3>2. (c + j) % RxN \in RxRing
      BY <3>1, Walk
    <3>3. QED BY <3>2 DEF RingFull
  <2>2. QED BY <1>2, <2>1 DEF Closed
<1>11. \A j \in 1..k : c + (j - 1) = c + j - 1
  BY <1>8
<1>12. /\ k > 0 /\ rxd[(RxDesc + k - 1) % RxN].ls
       /\ \A j \in 1..(k - 1) : ~rxd[(RxDesc + j - 1) % RxN].ls
  BY <1>1, <1>2, <1>8, <1>9, <1>11
<1>13. EndsAt(k)
  BY <1>10, <1>12, Zenon DEF EndsAt
<1>14. QED BY <1>8, <1>13 DEF FrameReady

(* What a scan leaves behind.  With a frame: a length and its segments.    *)
(* Without: nothing the next scan would find, for it stands at a           *)
(* descriptor of the DMA or has been all around.                           *)
LEMMA GetReceivedFrameKeeps ==
    ASSUME EthIInv, GetReceivedFrame
    PROVE  EthIInv'
<1>0. /\ UNCHANGED <<ring, rflag, irq, sem, released, copy, hand, lwip, lock, tx>>
      /\ irq = "none" /\ rpc = "get"
  BY DEF GetReceivedFrame
<1>1. ~lock
  BY <1>0 DEF EthIInv, LockInv, RxReady
<1>2. RxN \in Nat /\ RxN > 1
  BY EthernetAssumption
<1>3. PICK c \in RxRing : c = RxDesc
  BY DEF EthIInv, RxType
<1>4. c \in Nat /\ c < RxN
  BY <1>2 DEF RxRing
<1>5. PICK n \in 0..RxN : n = Scanned
  BY ScanFinds, ScanStops, <1>2
<1> DEFINE first == n > 0 /\ rxd[c].fs /\ ~rxd[c].ls
<1>6. /\ RxDesc' = (c + n) % RxN
      /\ SegCount' = IF first THEN n ELSE SegCount + n
      /\ FSRxDesc' = IF first \/ (FrameReady /\ SegCount' = 1)
                     THEN c ELSE FSRxDesc
  BY <1>1, <1>3, <1>5 DEF GetReceivedFrame
<1>7. (c + n) % RxN \in RxRing
  BY Walk
<1>8. SegCount' \in Nat /\ FSRxDesc' \in RxRing
  BY <1>6 DEF EthIInv, RxType
<1>9. LockInv' /\ TokenInv' /\ CellsInv'
  BY <1>0, <1>1 DEF EthIInv, LockInv, TokenInv, CellsInv, ring
<1>10. CASE FrameReady
  <2>1. n \in 1..RxN /\ EndsAt(n)
    BY <1>5, <1>10, ScanFinds
  <2>2. length' = rxd[(c + n - 1) % RxN].fl /\ rpc' = "alloc" /\ starved' = starved
    BY <1>1, <1>3, <1>5, <1>10 DEF GetReceivedFrame
  <2>3. n - 1 \in 0..(n - 1) /\ n - 1 \in 0..RxN /\ c + n - 1 = c + (n - 1)
    BY <1>2, <1>4, <2>1
  <2>4. (c + n - 1) % RxN \in RxRing
    BY <2>3, Walk
  <2>5. rxd[(c + n - 1) % RxN].ls /\ ~rxd[(c + n - 1) % RxN].own
    BY <1>3, <2>1, <2>3 DEF EndsAt, Closed
  <2>6. length' \in Nat /\ length' >= 1
    BY <2>2, <2>4, <2>5 DEF EthIInv, RxType, CellsInv
  <2>7. SegCount' >= 1
    BY <1>6, <2>1 DEF EthIInv, RxType
  <2>8. RxType'
    BY <1>0, <1>6, <1>7, <1>8, <2>6 DEF EthIInv, RxType, ring
  <2>9. ThreadInv' /\ WakeInv'
    BY <2>2, <2>6, <2>7 DEF ThreadInv, WakeInv
  <2>10. FullInv'
    BY <1>0, <2>2 DEF EthIInv, FullInv, RingFull, ring
  <2>11. QED BY <1>9, <2>8, <2>9, <2>10 DEF EthIInv
<1>11. CASE ~FrameReady
  <2>1. Closed(n) /\ (n < RxN => ~Closed(n + 1))
    BY <1>5, <1>11, ScanStops
  <2>2. length' = length /\ rpc' = "wait"
    BY <1>1, <1>11 DEF GetReceivedFrame
  <2>3. RxType'
    BY <1>0, <1>6, <1>7, <1>8, <2>2 DEF EthIInv, RxType, ring
  <2>4. ~RingFull
    BY <1>11, FullHasFrame DEF EthIInv, FullInv
  <2>5. ThreadInv' /\ FullInv'
    BY <1>0, <2>2, <2>4 DEF ThreadInv, FullInv, RingFull, ring
  <2>6. ~FrameReady'
    <3>1. CASE n < RxN
      <4>1. rxd[(c + n) % RxN].own
        BY <1>2, <1>3, <2>1, <3>1 DEF Closed
      <4>2. (RxDesc' + 0) % RxN = RxDesc'
        <5>1. PICK b \in RxRing : b = RxDesc'
          BY <1>6, <1>7
        <5>2. 0 \in 0..RxN
          BY <1>2
        <5>3. QED BY <5>1, <5>2, Walk
      <4>3. rxd'[(RxDesc' + 0) % RxN].own
        BY <1>0, <1>6, <4>1, <4>2 DEF ring
      <4>4. ASSUME NEW k \in 1..RxN, EndsAt(k)' PROVE FALSE
        <5>1. 0 \in 0..(k - 1)
          BY <1>2
        <5>2. QED BY <4>3, <4>4, <5>1 DEF EndsAt, Closed
      <4>5. QED BY <4>4 DEF FrameReady
    <3>2. CASE n = RxN
      <4>1. RxDesc' = RxDesc
        BY <1>3, <1>6, <3>2, Walk
      <4>2. rxd' = rxd
        BY <1>0 DEF ring
      <4>3. QED BY <1>11, <4>1, <4>2 DEF FrameReady, EndsAt, Closed
    <3>3. QED BY <1>2, <3>1, <3>2
  <2>7. QED BY <1>9, <2>3, <2>5, <2>6 DEF EthIInv, WakeInv
<1>12. QED BY <1>10, <1>11

(* The token is taken. *)
LEMMA SemaphoreAcquireKeeps ==
    ASSUME EthIInv, SemaphoreAcquire
    PROVE  EthIInv'
<1> USE DEF ring, SemaphoreAcquire
<1>1. RxType' /\ TokenInv' /\ CellsInv' /\ ThreadInv'
  BY DEF EthIInv, RxType, TokenInv, CellsInv, ThreadInv
<1>2. LockInv'
  BY DEF EthIInv, LockInv, RxReady
<1>3. FullInv' /\ WakeInv'
  BY DEF EthIInv, FullInv, WakeInv, RingFull
<1>4. QED BY <1>1, <1>2, <1>3 DEF EthIInv

(* pbufs are allocated, or not. *)
LEMMA AllocPbufsKeeps ==
    ASSUME EthIInv, AllocPbufs
    PROVE  EthIInv'
<1> USE DEF ring
<1>1. PbufCells \in Nat /\ PbufCells >= 1 /\ BufCells \in Nat
  BY EthernetAssumption
<1>2. length \in Nat /\ length >= 1 /\ FSRxDesc \in RxRing
  BY DEF EthIInv, RxType, ThreadInv, AllocPbufs
<1>3. PbufLen(length) \in Nat /\ PbufLen(length) >= 1 /\ length - PbufLen(length) \in Nat
  BY <1>1, <1>2 DEF PbufLen
<1>4. \/ /\ rpc' = "copy" /\ starved' = starved /\ copy'.left >= 1
         /\ copy' \in [desc : RxRing, off : 0..BufCells, left : Nat, rest : Nat]
      \/ rpc' = "release" /\ starved' /\ copy' = copy
  <2>1. CASE Pbufs(length) <= pool
    <3> DEFINE new == [desc |-> FSRxDesc, off |-> 0, left |-> PbufLen(length),
                       rest |-> length - PbufLen(length)]
    <3>1. 0 \in 0..BufCells
      BY <1>1
    <3>2. /\ new \in [desc : RxRing, off : 0..BufCells, left : Nat, rest : Nat]
          /\ new.left >= 1
      BY <1>2, <1>3, <3>1
    <3>3. copy' = new /\ rpc' = "copy" /\ starved' = starved
      BY <2>1 DEF AllocPbufs
    <3>4. QED BY <3>2, <3>3
  <2>2. CASE ~(Pbufs(length) <= pool)
    BY <2>2 DEF AllocPbufs
  <2>3. QED BY <2>1, <2>2
<1>5. /\ hand' = <<>> /\ hand' \in Seq(Cell) /\ released' = 0
      /\ irq = "none" /\ rpc = "alloc"
      /\ UNCHANGED <<ring, rflag, irq, sem, RxDesc, FSRxDesc, SegCount, length,
                     mbox, inp, lock, tx>>
  BY DEF AllocPbufs
<1>6. RxType'
  BY <1>4, <1>5 DEF EthIInv, RxType
<1>7. LockInv' /\ TokenInv' /\ CellsInv'
  BY <1>4, <1>5 DEF EthIInv, LockInv, RxReady, TokenInv, CellsInv
<1>8. ThreadInv'
  BY <1>4, <1>5 DEF EthIInv, ThreadInv
<1>9. FullInv' /\ WakeInv'
  BY <1>4, <1>5 DEF EthIInv, FullInv, WakeInv, RingFull
<1>10. QED BY <1>6, <1>7, <1>8, <1>9 DEF EthIInv

(* A piece of a buffer that is not empty is appended to the pbuf chain. *)
LEMMA Appended ==
    ASSUME NEW h \in Seq(Cell), NEW b \in [1..BufCells -> Cell],
           NEW i \in 1..BufCells, NEW j \in 1..BufCells, i <= j
    PROVE  h \o SubSeq(b, i, j) \in Seq(Cell) /\ h \o SubSeq(b, i, j) # <<>>
<1>1. BufCells \in Nat
  BY EthernetAssumption
<1>2. b \in Seq(Cell) /\ Len(b) = BufCells
  BY <1>1
<1>3. SubSeq(b, i, j) \in Seq(Cell) /\ Len(SubSeq(b, i, j)) = j - i + 1
  BY <1>1, <1>2
<1>4. QED BY <1>1, <1>3

(* The rest of a buffer, when the pbuf wants more. *)
LEMMA CopyBufferKeeps ==
    ASSUME EthIInv, CopyBuffer
    PROVE  EthIInv'
<1> USE DEF ring
<1>1. /\ irq = "none" /\ rpc = "copy" /\ copy.left + copy.off > BufCells
      /\ hand' = hand \o SubSeq(rxd[copy.desc].buf, copy.off + 1, BufCells)
      /\ copy' = [copy EXCEPT !.desc = NextRx(copy.desc), !.off = 0,
                              !.left = copy.left - (BufCells - copy.off)]
      /\ UNCHANGED <<ring, rflag, irq, sem, rpc, RxDesc, FSRxDesc, SegCount, length,
                     released, starved, lwip, lock, tx>>
  BY DEF CopyBuffer
<1>2. BufCells \in Nat /\ BufCells >= 1
  BY EthernetAssumption
<1>3. /\ copy \in [desc : RxRing, off : 0..BufCells, left : Nat, rest : Nat]
      /\ copy.desc \in RxRing /\ copy.off \in 0..BufCells /\ copy.left \in Nat
      /\ hand \in Seq(Cell) /\ rxd[copy.desc].buf \in [1..BufCells -> Cell]
  BY DEF EthIInv, RxType
<1>4. NextRx(copy.desc) \in RxRing
  <2>1. PICK d \in RxRing : d = copy.desc
    BY <1>3
  <2>2. QED BY <2>1, NextDiffers
<1>5. copy.left - (BufCells - copy.off) \in Nat /\ copy.left - (BufCells - copy.off) >= 1
  BY <1>1, <1>2, <1>3
<1>6. copy' \in [desc : RxRing, off : 0..BufCells, left : Nat, rest : Nat] /\ copy'.left >= 1
  <2>1. 0 \in 0..BufCells
    BY <1>2
  <2>2. QED BY <1>1, <1>3, <1>4, <1>5, <2>1
<1>7. hand' \in Seq(Cell)
  <2>1. rxd[copy.desc].buf \in Seq(Cell) /\ Len(rxd[copy.desc].buf) = BufCells
    BY <1>2, <1>3
  <2>2. SubSeq(rxd[copy.desc].buf, copy.off + 1, BufCells) \in Seq(Cell)
    BY <1>2, <1>3, <2>1
  <2>3. QED BY <1>1, <1>3, <2>2
<1>8. RxType'
  BY <1>1, <1>6, <1>7 DEF EthIInv, RxType
<1>9. LockInv' /\ TokenInv' /\ CellsInv' /\ ThreadInv'
  BY <1>1, <1>6 DEF EthIInv, LockInv, RxReady, TokenInv, CellsInv, ThreadInv
<1>10. FullInv' /\ WakeInv'
  BY <1>1 DEF EthIInv, FullInv, WakeInv, RingFull
<1>11. QED BY <1>8, <1>9, <1>10 DEF EthIInv

(* What is left for a pbuf, so the chain is not empty any more. *)
LEMMA CopyRestKeeps ==
    ASSUME EthIInv, CopyRest
    PROVE  EthIInv'
<1> USE DEF ring
<1>1. /\ irq = "none" /\ rpc = "copy" /\ copy.left + copy.off <= BufCells
      /\ hand' = hand \o SubSeq(rxd[copy.desc].buf, copy.off + 1, copy.off + copy.left)
      /\ copy' = [copy EXCEPT !.off = copy.off + copy.left,
                              !.left = PbufLen(copy.rest),
                              !.rest = copy.rest - PbufLen(copy.rest)]
      /\ rpc' = IF copy.rest = 0 THEN "release" ELSE "copy"
      /\ UNCHANGED <<ring, rflag, irq, sem, RxDesc, FSRxDesc, SegCount, length,
                     released, starved, lwip, lock, tx>>
  BY DEF CopyRest
<1>2. /\ BufCells \in Nat /\ BufCells >= 1 /\ PbufCells \in Nat /\ PbufCells >= 1
  BY EthernetAssumption
<1>3. /\ copy \in [desc : RxRing, off : 0..BufCells, left : Nat, rest : Nat]
      /\ copy.desc \in RxRing /\ copy.off \in 0..BufCells /\ copy.left \in Nat
      /\ copy.rest \in Nat
      /\ hand \in Seq(Cell) /\ rxd[copy.desc].buf \in [1..BufCells -> Cell]
  BY DEF EthIInv, RxType
<1>4. copy.left >= 1 /\ released = 0 /\ SegCount >= 1
  BY <1>1 DEF EthIInv, ThreadInv
<1>5. /\ PbufLen(copy.rest) \in Nat /\ copy.rest - PbufLen(copy.rest) \in Nat
      /\ copy.rest # 0 => PbufLen(copy.rest) >= 1
      /\ copy.off + copy.left \in 0..BufCells
  BY <1>1, <1>2, <1>3 DEF PbufLen
<1>6. /\ copy' \in [desc : RxRing, off : 0..BufCells, left : Nat, rest : Nat]
      /\ copy.rest # 0 => copy'.left >= 1
  BY <1>1, <1>3, <1>5
<1>7. hand' \in Seq(Cell) /\ hand' # <<>>
  <2>1. PICK h \in Seq(Cell), b \in [1..BufCells -> Cell],
             i \in 1..BufCells, j \in 1..BufCells :
               /\ h = hand /\ b = rxd[copy.desc].buf
               /\ i = copy.off + 1 /\ j = copy.off + copy.left
    <3>1. copy.off + 1 \in 1..BufCells /\ copy.off + copy.left \in 1..BufCells
      BY <1>1, <1>2, <1>3, <1>4
    <3>2. QED BY <1>3, <3>1
  <2>2. i <= j
    BY <1>3, <1>4, <2>1
  <2>3. QED BY <1>1, <2>1, <2>2, Appended
<1>8. RxType'
  BY <1>1, <1>6, <1>7 DEF EthIInv, RxType
<1>9. LockInv' /\ TokenInv' /\ CellsInv'
  BY <1>1 DEF EthIInv, LockInv, RxReady, TokenInv, CellsInv
<1>10. ThreadInv'
  BY <1>1, <1>4, <1>6, <1>7 DEF ThreadInv
<1>11. FullInv' /\ WakeInv'
  BY <1>1, <1>4 DEF EthIInv, FullInv, WakeInv, RingFull
<1>12. QED BY <1>8, <1>9, <1>10, <1>11 DEF EthIInv

(* A descriptor goes back to the DMA: the ring is not full. *)
LEMMA ReleaseDescKeeps ==
    ASSUME EthIInv, ReleaseDesc
    PROVE  EthIInv'
<1>1. PICK e : e = (FSRxDesc + released) % RxN
  OBVIOUS
<1>2. e \in RxRing
  <2>1. RxN \in Nat \ {0} /\ FSRxDesc + released \in Nat
    BY EthernetAssumption DEF EthIInv, RxType, RxRing
  <2>2. QED BY <1>1, <2>1 DEF RxRing
<1>3. /\ irq = "none" /\ rpc = "release" /\ released < SegCount
      /\ rxd' = [rxd EXCEPT ![e].own = TRUE]
      /\ released' = released + 1
      /\ UNCHANGED <<rxdma, rxframe, rxcount, rflag, irq, sem, rpc, RxDesc, FSRxDesc,
                     SegCount, length, copy, hand, starved, lwip, lock, tx>>
  BY <1>1 DEF ReleaseDesc
<1>4. /\ rxd' \in [RxRing -> [own : BOOLEAN, fs : BOOLEAN, ls : BOOLEAN, fl : Nat,
                              buf : [1..BufCells -> Cell]]]
      /\ rxd'[e].own
      /\ \A d \in RxRing : d # e => rxd'[d] = rxd[d]
  BY <1>2, <1>3 DEF EthIInv, RxType
<1>5. RxType'
  <2>1. released' \in Nat
    BY <1>3 DEF EthIInv, RxType
  <2>2. QED BY <1>3, <1>4, <2>1 DEF EthIInv, RxType
<1>6. LockInv' /\ TokenInv' /\ ThreadInv'
  BY <1>3 DEF EthIInv, LockInv, RxReady, TokenInv, ThreadInv
<1>7. CellsInv'
  BY <1>3, <1>4 DEF EthIInv, CellsInv
<1>8. FullInv' /\ WakeInv'
  BY <1>2, <1>3, <1>4 DEF FullInv, WakeInv, RingFull
<1>9. QED BY <1>5, <1>6, <1>7, <1>8 DEF EthIInv

(* low_level_input returns: with no pbuf only after a failed allocation. *)
LEMMA InputReturnsKeeps ==
    ASSUME EthIInv, InputReturns
    PROVE  EthIInv'
<1> USE DEF ring, InputReturns
<1>1. RxType' /\ TokenInv' /\ CellsInv' /\ ThreadInv'
  BY DEF EthIInv, RxType, TokenInv, CellsInv, ThreadInv
<1>2. LockInv'
  BY DEF EthIInv, LockInv, RxReady
<1>3. released >= 1
  BY DEF EthIInv, ThreadInv
<1>4. FullInv'
  BY <1>3 DEF EthIInv, FullInv, RingFull
<1>5. WakeInv'
  BY DEF EthIInv, ThreadInv, WakeInv
<1>6. QED BY <1>1, <1>2, <1>4, <1>5 DEF EthIInv

(* The pbuf is passed on or freed. *)
LEMMA NetifInputKeeps ==
    ASSUME EthIInv, NetifInput
    PROVE  EthIInv'
<1>1. /\ irq = "none" /\ rpc = "input" /\ rpc' = "get"
      /\ hand' = <<>> /\ hand' \in Seq(Cell)
      /\ UNCHANGED <<ring, rflag, irq, sem, RxDesc, FSRxDesc, SegCount, length,
                     released, copy, starved, lock>>
  BY DEF NetifInput
<1> USE DEF ring
<1>2. RxType' /\ TokenInv' /\ CellsInv' /\ ThreadInv'
  BY <1>1 DEF EthIInv, RxType, TokenInv, CellsInv, ThreadInv
<1>3. LockInv'
  BY <1>1 DEF EthIInv, LockInv, RxReady
<1>4. FullInv' /\ WakeInv'
  BY <1>1 DEF EthIInv, FullInv, WakeInv, RingFull
<1>5. QED BY <1>2, <1>3, <1>4 DEF EthIInv

-----------------------------------------------------------------------------
(* Every step preserves the invariant. *)
LEMMA NextIInv == EthIInv /\ [Next]_vars => EthIInv'
<1> SUFFICES ASSUME EthIInv, [Next]_vars PROVE EthIInv'
  OBVIOUS
<1>1. CASE FrameArrives
  BY <1>1, FrameArrivesKeeps
<1>2. CASE DmaStores
  BY <1>2, DmaStoresKeeps
<1>3. CASE DmaSends
  BY <1>3, Untouched DEF DmaSends
<1>4. CASE Irq
  BY <1>4, IrqKeeps
<1>5. CASE RxThread
  BY <1>5, SemaphoreAcquireKeeps, GetReceivedFrameKeeps, AllocPbufsKeeps,
     CopyBufferKeeps, CopyRestKeeps, ReleaseDescKeeps, InputReturnsKeeps,
     NetifInputKeeps DEF RxThread
<1>6. CASE Tcpip
  BY <1>6, Untouched DEF Tcpip, MboxFetch, PacketDone
<1>7. ASSUME NEW s \in Senders, LowLevelOutput(s) PROVE EthIInv'
  BY <1>7, Untouched DEF LowLevelOutput
<1>8. ASSUME NEW s \in Senders, Transmit(s) PROVE EthIInv'
  <2>1. UNCHANGED <<ring, rflag, irq, sem, thread>> /\ ~RxReady
    BY <1>8 DEF Transmit, CheckOwn, CopyPbuf, HalLock, HalOwn, GiveToDma, NextTxDesc,
                HalUnlock, SenderStep, Runs, TcpipRuns
  <2>2. QED BY <2>1, Untouched
<1>9. CASE UNCHANGED vars
  BY <1>9, Untouched DEF vars
<1>10. QED BY <1>1, <1>2, <1>3, <1>4, <1>5, <1>6, <1>7, <1>8, <1>9 DEF Next, Dma

(* The invariant holds in every reachable state. *)
THEOREM EthernetInvariant == Spec => []EthIInv
BY InitIInv, NextIInv, PTL DEF Spec

(* The receive thread finds no complete frame left behind when it sleeps   *)
(* (ethernetif.c:585-597), for rings and frames of any size.               *)
THEOREM NoWakeupLost == Spec => []NoLostWakeup
<1>1. EthIInv => NoLostWakeup
  BY DEF EthIInv, WakeInv, NoLostWakeup, Asleep
<1>2. QED BY <1>1, EthernetInvariant, PTL

(* The DMA always has a descriptor when the receive thread sleeps          *)
(* (ethernetif.c:544-552), however many pbufs there are.                   *)
THEOREM RingNeverStuck == Spec => []RingNotStuck
<1>1. EthIInv => RingNotStuck
  BY DEF EthIInv, FullInv, RingFull, RingNotStuck, Asleep
<1>2. QED BY <1>1, EthernetInvariant, PTL

(* HAL_ETH_GetReceivedFrame_IT never returns HAL_BUSY to the receive       *)
(* thread (ethernetif.c:502), whoever sends.                               *)
THEOREM ReceiveNeverBusy == Spec => []RxNeverBusy
<1>1. EthIInv => RxNeverBusy
  BY DEF EthIInv, LockInv, RxReady, RxNeverBusy
<1>2. QED BY <1>1, EthernetInvariant, PTL
=============================================================================
