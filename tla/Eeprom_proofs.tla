--------------------------- MODULE Eeprom_proofs ---------------------------
(***************************************************************************)
(* Proofs about Eeprom, for every page size, number of pages and chips.    *)
(***************************************************************************)
EXTENDS Eeprom, TLAPS

-----------------------------------------------------------------------------
(* Pages. *)

(* The sizes are positive. *)
LEMMA Sizes ==
    /\ MemSize \in Nat /\ MemSize > 0
    /\ PageSize \in Nat /\ PageSize > 0
BY EepromAssumption, SMTT(30) DEF MemSize

(* An address lies inside its page. *)
LEMMA PageBounds ==
    ASSUME NEW a \in Nat
    PROVE  /\ Page(a) \in Nat
           /\ Page(a) * PageSize \in Nat
           /\ a = Page(a) * PageSize + (a % PageSize)
           /\ a % PageSize \in 0..(PageSize - 1)
           /\ Page(a) * PageSize <= a
           /\ a < Page(a) * PageSize + PageSize
<1>1. PageSize \in Nat /\ PageSize > 0
  BY EepromAssumption
<1>2. QED BY <1>1, SMTT(30) DEF Page

(* The page of an address lies inside the memory. *)
LEMMA PageFits ==
    ASSUME NEW a \in Addr
    PROVE  Page(a) * PageSize + PageSize <= MemSize
<1>1. PageSize \in Nat /\ PageSize > 0 /\ MemPages \in Nat
  BY EepromAssumption
<1>2. a \in Nat /\ a < MemPages * PageSize
  BY <1>1 DEF Addr, MemSize
<1>3. Page(a) \in Nat /\ Page(a) * PageSize <= a
  BY <1>2, PageBounds
<1>4. Page(a) < MemPages
  <2>1. SUFFICES ASSUME Page(a) >= MemPages
                 PROVE  FALSE
    BY <1>1, <1>3
  <2>2. Page(a) * PageSize >= MemPages * PageSize
    BY <1>1, <1>3, <2>1, SMTT(30)
  <2>3. QED BY <1>1, <1>2, <1>3, <2>2
<1>5. (Page(a) + 1) * PageSize <= MemPages * PageSize
  BY <1>1, <1>3, <1>4, SMTT(30)
<1>6. (Page(a) + 1) * PageSize = Page(a) * PageSize + PageSize
  BY <1>1, <1>3, SMTT(30)
<1>7. QED BY <1>5, <1>6 DEF MemSize

(* While the cache holds bytes of one page the chip does not wrap. *)
LEMMA NoPageWrap ==
    ASSUME TypeOK, OnePage, dirty, NEW i \in 0..(count - 1)
    PROVE  PageByte(i) = start + i /\ Page(start + i) = Page(start)
<1>0. start \in Nat /\ count \in Nat
  BY Sizes DEF TypeOK
<1>1. start + i \in Nat /\ Page(start + i) = Page(start)
  BY <1>0 DEF OnePage
<1>2. ASSUME NEW a \in Nat
      PROVE  (Page(a) * PageSize) + (a % PageSize) = a
  BY PageBounds
<1>3. (Page(start + i) * PageSize) + ((start + i) % PageSize) = start + i
  BY <1>1, <1>2, Zenon
<1>4. PageByte(i) = (Page(start + i) * PageSize) + ((start + i) % PageSize)
  BY <1>1, Zenon DEF PageByte
<1>5. QED BY <1>1, <1>3, <1>4, Zenon

(* What writecachepage writes lies in the memory, on one chip. *)
LEMMA WrittenOnChip ==
    ASSUME TypeOK, OnePage, dirty
    PROVE  /\ start \in Addr
           /\ Written \subseteq Addr
           /\ \A a \in Written : Chip(a) = Chip(start)
<1>1. start \in Addr
  BY Sizes DEF TypeOK, OnePage, Addr
<1>2. ASSUME NEW a \in Written
      PROVE  a \in Addr /\ Chip(a) = Chip(start)
  <2>1. PICK i \in 0..(count - 1) : a = PageByte(i)
    BY <1>2 DEF Written
  <2>2. a = start + i /\ Page(a) = Page(start)
    BY <2>1, NoPageWrap
  <2>3. QED BY <2>2, Sizes DEF Chip, Addr, TypeOK, OnePage
<1>3. QED BY <1>1, <1>2

(* A chip number is a natural number. *)
LEMMA ChipNat ==
    ASSUME NEW a \in Nat
    PROVE  Chip(a) \in Nat
<1>1. Page(a) \in Nat
  BY PageBounds
<1>2. ChipPages \in Nat /\ ChipPages > 0
  BY EepromAssumption
<1>3. QED BY <1>1, <1>2, SMTT(30) DEF Chip

(* What writecachepage sends are cached bytes. *)
LEMMA SentByte ==
    ASSUME TypeOK, OnePage, dirty, NEW a \in Written
    PROVE  Sent(a) \in Byte
<1> DEFINE Last(i) == /\ PageByte(i) = a
                      /\ \A j \in (i + 1)..(count - 1) : PageByte(j) # a
<1>1. start \in Nat /\ count \in Nat /\ count <= PageSize
  BY Sizes DEF TypeOK
<1>2. PICK i \in 0..(count - 1) : a = PageByte(i)
  BY DEF Written
<1>3. ASSUME NEW j \in (i + 1)..(count - 1)
      PROVE  PageByte(j) # a
  <2>1. j \in 0..(count - 1)
    BY <1>1
  <2>2. PageByte(j) = start + j
    BY <2>1, NoPageWrap
  <2>3. PageByte(i) = start + i
    BY NoPageWrap
  <2>4. QED BY <1>1, <1>2, <2>2, <2>3
<1>4. Last(i)
  BY <1>2, <1>3
<1>5. (CHOOSE k \in 0..(count - 1) : Last(k)) \in 0..(count - 1)
  BY <1>4
<1>6. \A k \in 0..(count - 1) : data[k] \in Byte
  BY <1>1, Sizes DEF TypeOK
<1>7. QED BY <1>5, <1>6 DEF Sent

-----------------------------------------------------------------------------
(* The invariant. *)

(* When the chip used last is ready, so is the other one. *)
LEMMA ReadyIsQuiet ==
    ASSUME BusyIsLast, Ready(last)
    PROVE  busy = {}
BY DEF BusyIsLast, Ready

(* What the start-up code leaves in the cache are bytes. *)
LEMMA ClearedType == Cleared \in [0..(PageSize - 1) -> Byte]
<1>1. (CHOOSE b \in Val : TRUE) \in Val
  BY EepromAssumption
<1>2. QED BY <1>1 DEF Cleared, Byte

(* EEPROM_Init leaves TypeOK /\ DriverInv true, whatever the chips hold. *)
LEMMA InitKeeps ==
    ASSUME TypeOK, EEPROM_Init, mem' \in [Addr -> Byte]
    PROVE  TypeOK' /\ DriverInv'
<1>1. NoCall \in [op : {"none", "write", "read", "flush"}, addr : 0..MemSize,
                  len : Nat, buf : Seq(Val), got : Seq(Byte)]
  <2>1. <<>> \in Seq(Val) /\ <<>> \in Seq(Byte) /\ 0 \in 0..MemSize
    BY Sizes
  <2>2. QED BY <2>1 DEF NoCall
<1>2. TypeOK'
  <2>1. start' \in 0..MemSize /\ count' \in 0..PageSize /\ last' \in Nat
    BY Sizes DEF EEPROM_Init, NoStart
  <2>2. dirty' \in BOOLEAN /\ busy' \subseteq Addr
    BY Zenon DEF EEPROM_Init
  <2>3. data' \in [0..(PageSize - 1) -> Byte]
    BY ClearedType DEF EEPROM_Init
  <2>4. QED BY <1>1, <2>1, <2>2, <2>3, Zenon DEF TypeOK, EEPROM_Init
<1>3. DriverInv'
  BY DEF EEPROM_Init, DriverInv, BusyIsLast, OnePage, CallInside
<1>4. QED BY <1>2, <1>3

(* Init establishes both. *)
LEMMA InitHolds == Init => TypeOK /\ DriverInv
<1>1. SUFFICES ASSUME Init PROVE TypeOK /\ DriverInv
  OBVIOUS
<1>2. <<>> \in Seq(Val) /\ <<>> \in Seq(Byte) /\ 0 \in 0..MemSize
  BY Sizes
<1>3. call \in [op : {"none", "write", "read", "flush"}, addr : 0..MemSize,
                len : Nat, buf : Seq(Val), got : Seq(Byte)]
  BY <1>1, <1>2 DEF Init, NoCall
<1>4. TypeOK
  <2>1. start \in 0..MemSize /\ count \in 0..PageSize /\ last \in Nat
    BY <1>1, Sizes DEF Init, NoStart
  <2>2. dirty \in BOOLEAN /\ busy \subseteq Addr
    BY <1>1, Zenon DEF Init
  <2>3. mem \in [Addr -> Byte] /\ data \in [0..(PageSize - 1) -> Byte]
    BY <1>1, ClearedType DEF Init, Byte
  <2>4. QED BY <1>1, <1>3, <2>1, <2>2, <2>3, Zenon DEF TypeOK, Init
<1>5. DriverInv
  BY <1>1 DEF Init, DriverInv, BusyIsLast, OnePage, CallInside
<1>6. QED BY <1>4, <1>5

(* EEPROM_Write is refused, or starts inside the memory. *)
LEMMA WriteCallKeeps ==
    ASSUME TypeOK, DriverInv, NEW a \in 0..MemSize, NEW n \in 0..MaxLen,
           NEW buf \in [1..n -> Val], EEPROM_Write(a, buf)
    PROVE  TypeOK' /\ DriverInv'
<1>1. n \in Nat /\ buf \in Seq(Val) /\ Len(buf) = n /\ <<>> \in Seq(Byte)
  BY EepromAssumption
<1>2. CASE Legal(a, n)
  <2>1. call' = [op |-> "write", addr |-> a, len |-> n, buf |-> buf, got |-> <<>>]
    BY <1>1, <1>2 DEF EEPROM_Write
  <2>2. TypeOK'
    BY <1>1, <1>2, <2>1 DEF EEPROM_Write, TypeOK, cache
  <2>3. CallInside'
    BY <1>1, <1>2, <2>1, Sizes DEF EEPROM_Write, CallInside, Legal
  <2>4. BusyIsLast' /\ OnePage'
    BY DEF EEPROM_Write, DriverInv, BusyIsLast, OnePage, cache
  <2>5. QED BY <2>2, <2>3, <2>4 DEF DriverInv
<1>3. CASE ~Legal(a, n)
  BY <1>1, <1>3 DEF EEPROM_Write, TypeOK, DriverInv, BusyIsLast, OnePage,
     CallInside, cache
<1>4. QED BY <1>2, <1>3

(* So does EEPROM_Read. *)
LEMMA ReadCallKeeps ==
    ASSUME TypeOK, DriverInv, NEW a \in 0..MemSize, NEW n \in 0..MaxLen,
           EEPROM_Read(a, n)
    PROVE  TypeOK' /\ DriverInv'
<1>1. n \in Nat /\ <<>> \in Seq(Val) /\ <<>> \in Seq(Byte)
  BY EepromAssumption
<1>2. CASE Legal(a, n)
  <2>1. call' = [op |-> "read", addr |-> a, len |-> n, buf |-> <<>>, got |-> <<>>]
    BY <1>2 DEF EEPROM_Read
  <2>2. TypeOK'
    BY <1>1, <1>2, <2>1 DEF EEPROM_Read, TypeOK, cache
  <2>3. CallInside'
    BY <1>1, <1>2, <2>1, Sizes DEF EEPROM_Read, CallInside, Legal
  <2>4. BusyIsLast' /\ OnePage'
    BY DEF EEPROM_Read, DriverInv, BusyIsLast, OnePage, cache
  <2>5. QED BY <2>2, <2>3, <2>4 DEF DriverInv
<1>3. CASE ~Legal(a, n)
  BY <1>3 DEF EEPROM_Read, TypeOK, DriverInv, BusyIsLast, OnePage,
     CallInside, cache
<1>4. QED BY <1>2, <1>3

(* EEPROM_FlushCache starts. *)
LEMMA FlushCallKeeps ==
    ASSUME TypeOK, DriverInv, EEPROM_FlushCache
    PROVE  TypeOK' /\ DriverInv'
<1>1. <<>> \in Seq(Val) /\ <<>> \in Seq(Byte) /\ 0 \in 0..MemSize
  BY Sizes
<1>2. TypeOK'
  BY <1>1 DEF EEPROM_FlushCache, TypeOK, NoCall, cache
<1>3. DriverInv'
  BY DEF EEPROM_FlushCache, DriverInv, BusyIsLast, OnePage, CallInside, cache
<1>4. QED BY <1>2, <1>3

(* writecachepage starts a write cycle on the chip it leaves in last. *)
LEMMA WriteBackKeeps ==
    ASSUME TypeOK, DriverInv, WriteBack
    PROVE  TypeOK' /\ DriverInv'
<1>1. dirty /\ Ready(last) /\ OnePage /\ BusyIsLast
  BY DEF WriteBack, writecachepage, DriverInv
<1>2. busy = {}
  BY <1>1, ReadyIsQuiet
<1>3. /\ start \in Addr /\ Written \subseteq Addr
      /\ \A a \in Written : Chip(a) = Chip(start)
  BY <1>1, WrittenOnChip
<1>4. last' \in Nat
  BY <1>3, ChipNat, Sizes DEF WriteBack, writecachepage, Addr
<1>5. /\ UNCHANGED <<start, count, data, call, ret>>
      /\ last' = Chip(start)
  BY DEF WriteBack, writecachepage
<1>6. CASE Ready(Chip(start))
  <2>1. /\ mem' = [a \in Addr |-> IF a \in Written THEN Sent(a) ELSE mem[a]]
        /\ busy' = Written
        /\ dirty' = FALSE
        /\ pc' = pc
    BY <1>2, <1>6 DEF WriteBack, writecachepage
  <2>2. \A a \in Written : Sent(a) \in Byte
    BY <1>1, SentByte
  <2>3. mem' \in [Addr -> Byte]
    BY <2>1, <2>2 DEF TypeOK
  <2>4. TypeOK'
    BY <1>3, <1>4, <1>5, <2>1, <2>3 DEF TypeOK
  <2>5. DriverInv'
    BY <1>3, <1>5, <2>1 DEF DriverInv, BusyIsLast, OnePage, CallInside, Chip, Page
  <2>6. QED BY <2>4, <2>5
<1>7. CASE ~Ready(Chip(start))
  <2>1. pc' = "hang" /\ UNCHANGED <<mem, busy, dirty>>
    BY <1>7 DEF WriteBack, writecachepage
  <2>2. TypeOK'
    BY <1>4, <1>5, <2>1 DEF TypeOK
  <2>3. DriverInv'
    BY <1>2, <1>5, <2>1 DEF DriverInv, BusyIsLast, OnePage, CallInside
  <2>4. QED BY <2>2, <2>3
<1>8. QED BY <1>6, <1>7

(* readcachepage fetches a page that lies in the memory. *)
LEMMA ReadPageKeeps ==
    ASSUME TypeOK, DriverInv, ReadPage
    PROVE  TypeOK' /\ DriverInv'
<1>1. busy = {}
  BY ReadyIsQuiet DEF ReadPage, DriverInv
<1>2. call.addr \in Addr
  BY Sizes DEF ReadPage, DriverInv, CallInside, Addr, TypeOK
<1>3. call.addr \in Nat
  BY <1>2, Sizes DEF Addr
<1>4. /\ Page(call.addr) * PageSize \in Nat
      /\ Page(call.addr) * PageSize + PageSize <= MemSize
  BY <1>2, <1>3, PageBounds, PageFits
<1>5. start' \in 0..MemSize
  BY <1>4, Sizes DEF ReadPage
<1>6. last' \in Nat
  BY <1>3, ChipNat DEF ReadPage
<1>7. data' \in [0..(PageSize - 1) -> Byte]
  <2>1. \A i \in 0..(PageSize - 1) : start' + i \in Addr
    BY <1>4, Sizes DEF ReadPage, Addr
  <2>2. \A i \in 0..(PageSize - 1) : mem[start' + i] \in Byte
    BY <2>1 DEF TypeOK
  <2>3. QED BY <2>2 DEF ReadPage, TypeOK
<1>8. pc' \in {"read", "hang"}
  BY DEF ReadPage
<1>9. TypeOK'
  BY <1>5, <1>6, <1>7, <1>8, Sizes, SMTT(30) DEF ReadPage, TypeOK
<1>10. DriverInv'
  BY <1>1 DEF ReadPage, DriverInv, BusyIsLast, OnePage, CallInside
<1>11. QED BY <1>9, <1>10

(* A byte is read from the cache. *)
LEMMA ReadByteKeeps ==
    ASSUME TypeOK, DriverInv, ReadByte
    PROVE  TypeOK' /\ DriverInv'
<1>1. /\ call.addr \in Nat /\ call.len \in Nat /\ call.len > 0
      /\ call.addr + call.len <= MemSize
  BY Sizes DEF ReadByte, DriverInv, CallInside, TypeOK
<1>2. call.addr - start \in 0..(PageSize - 1)
  BY <1>1, Sizes, SMTT(30) DEF ReadByte, ReadMiss, TypeOK
<1>3. data[call.addr - start] \in Byte
  BY <1>2 DEF TypeOK
<1>4. call' \in [op : {"none", "write", "read", "flush"}, addr : 0..MemSize,
                 len : Nat, buf : Seq(Val), got : Seq(Byte)]
  <2>1. call.addr + 1 \in 0..MemSize /\ call.len - 1 \in Nat
    BY <1>1, Sizes
  <2>2. Append(call.got, data[call.addr - start]) \in Seq(Byte)
    BY <1>3 DEF TypeOK
  <2>3. QED BY <2>1, <2>2 DEF ReadByte, TypeOK
<1>5. TypeOK'
  BY <1>4 DEF ReadByte, TypeOK, cache
<1>6. CallInside'
  BY <1>1, Sizes DEF ReadByte, CallInside, TypeOK
<1>7. BusyIsLast' /\ OnePage'
  BY DEF ReadByte, DriverInv, BusyIsLast, OnePage, cache
<1>8. QED BY <1>5, <1>6, <1>7 DEF DriverInv

(* A byte is appended only to a page it belongs to, which has room for it. *)
LEMMA WriteByteKeeps ==
    ASSUME TypeOK, DriverInv, WriteByte
    PROVE  TypeOK' /\ DriverInv'
<1> DEFINE n == IF dirty THEN count ELSE 0
           extends == call.addr = start' + n
<1>1. /\ call.addr \in Nat /\ call.len \in Nat /\ call.len > 0
      /\ call.addr + call.len <= MemSize
      /\ call.buf \in Seq(Val) /\ call.len <= Len(call.buf)
      /\ start \in Nat /\ count \in Nat /\ count <= PageSize
  BY Sizes DEF WriteByte, DriverInv, CallInside, TypeOK
<1>2. /\ dirty' = TRUE
      /\ start' = (IF dirty THEN start ELSE call.addr)
      /\ count' = (IF extends THEN n + 1 ELSE n)
      /\ data' = (IF extends THEN [data EXCEPT ![n] = call.buf[1]] ELSE data)
      /\ call' = [call EXCEPT !.addr = @ + 1, !.len = @ - 1,
                              !.buf = IF extends THEN Tail(@) ELSE @]
  BY DEF WriteByte
<1>3. start' \in Nat /\ start' <= call.addr /\ n \in Nat
  BY <1>1, <1>2 DEF WriteByte, WriteMiss
<1>4. extends => Page(start' + n) = Page(start')
  BY <1>1, <1>2 DEF WriteByte, WriteMiss
<1>5. extends => n < PageSize
  <2>1. SUFFICES ASSUME extends PROVE n < PageSize
    OBVIOUS
  <2>2. start' + n \in Nat
    <3>1. \A u, v \in Nat : u + v \in Nat
      OBVIOUS
    <3>2. QED BY <1>3, <3>1, Zenon
  <2>3. start' + n < Page(start' + n) * PageSize + PageSize
    <3>1. \A a \in Nat : a < Page(a) * PageSize + PageSize
      BY PageBounds
    <3>2. QED BY <2>2, <3>1, Zenon
  <2>4. Page(start') * PageSize <= start' /\ Page(start') * PageSize \in Nat
    BY <1>3, PageBounds
  <2>5. QED BY <1>3, <1>4, <2>1, <2>3, <2>4, Sizes
<1>6. call.buf[1] \in Val /\ Tail(call.buf) \in Seq(Val)
      /\ Len(Tail(call.buf)) = Len(call.buf) - 1
  BY <1>1
<1>7. /\ call'.addr = call.addr + 1
      /\ call'.len = call.len - 1
      /\ call'.buf = (IF extends THEN Tail(call.buf) ELSE call.buf)
      /\ call'.op = call.op /\ call'.got = call.got
  BY <1>2 DEF TypeOK
<1>8. TypeOK'
  <2>1. data' \in [0..(PageSize - 1) -> Byte]
    BY <1>2, <1>6 DEF TypeOK, Byte
  <2>2. start' \in 0..MemSize /\ count' \in 0..PageSize
    BY <1>1, <1>2, <1>3, <1>5, Sizes
  <2>3. call' \in [op : {"none", "write", "read", "flush"}, addr : 0..MemSize,
                   len : Nat, buf : Seq(Val), got : Seq(Byte)]
    <3>1. call.addr + 1 \in 0..MemSize /\ call.len - 1 \in Nat
      BY <1>1, Sizes
    <3>2. (IF extends THEN Tail(call.buf) ELSE call.buf) \in Seq(Val)
      BY <1>1, <1>6
    <3>3. QED BY <1>2, <3>1, <3>2 DEF TypeOK
  <2>4. dirty' \in BOOLEAN
    BY <1>2
  <2>5. QED BY <2>1, <2>2, <2>3, <2>4 DEF WriteByte, TypeOK
<1>9. OnePage'
  <2>1. count' > 0 /\ start' + count' <= MemSize
    BY <1>1, <1>2, <1>3, Sizes DEF DriverInv, OnePage
  <2>2. ASSUME NEW i \in 0..(count' - 1)
        PROVE  Page(start' + i) = Page(start')
    <3>1. CASE i = n
      BY <1>2, <1>3, <1>4, <3>1
    <3>2. CASE i # n
      <4>1. dirty /\ i \in 0..(count - 1) /\ start' = start
        BY <1>1, <1>2, <1>3, <3>2
      <4>2. QED BY <4>1 DEF DriverInv, OnePage
    <3>3. QED BY <3>1, <3>2
  <2>3. Page(start)' = Page(start')
    BY DEF Page
  <2>4. QED BY <2>1, <2>2, <2>3 DEF OnePage, Page
<1>10. CallInside'
  <2>1. pc' \in {"write", "idle"} /\ (pc' = "write" => call.len # 1)
    BY DEF WriteByte
  <2>2. QED BY <1>1, <1>6, <1>7, <2>1, Sizes, SMTT(30) DEF CallInside
<1>11. BusyIsLast'
  BY DEF WriteByte, DriverInv, BusyIsLast
<1>12. QED BY <1>8, <1>9, <1>10, <1>11 DEF DriverInv

(* EEPROM_FlushCache returns. *)
LEMMA FlushEndKeeps ==
    ASSUME TypeOK, DriverInv, FlushEnd
    PROVE  TypeOK' /\ DriverInv'
<1>1. <<>> \in Seq(Val) /\ <<>> \in Seq(Byte) /\ 0 \in 0..MemSize
  BY Sizes
<1>2. call' \in [op : {"none", "write", "read", "flush"}, addr : 0..MemSize,
                 len : Nat, buf : Seq(Val), got : Seq(Byte)]
  BY <1>1 DEF FlushEnd, NoCall
<1>3. TypeOK'
  BY <1>2, Sizes DEF FlushEnd, TypeOK
<1>4. DriverInv'
  BY DEF FlushEnd, DriverInv, BusyIsLast, OnePage, CallInside
<1>5. QED BY <1>3, <1>4

(* A write cycle ends. *)
LEMMA CycleEndsKeeps ==
    ASSUME TypeOK, DriverInv, NEW c, CycleEnds(c)
    PROVE  TypeOK' /\ DriverInv'
<1>1. TypeOK'
  BY DEF CycleEnds, TypeOK, cache
<1>2. DriverInv'
  BY DEF CycleEnds, DriverInv, BusyIsLast, OnePage, CallInside, cache
<1>3. QED BY <1>1, <1>2

(* A power loss damages bytes, and the driver starts again. *)
LEMMA PowerLossKeeps ==
    ASSUME TypeOK, PowerLoss
    PROVE  TypeOK' /\ DriverInv'
<1>1. mem' \in [Addr -> Byte]
  BY DEF PowerLoss, TypeOK, Byte
<1>2. QED BY <1>1, InitKeeps DEF PowerLoss

(* Every step keeps the invariant. *)
LEMMA StepKeeps ==
    ASSUME TypeOK, DriverInv, [Next]_vars
    PROVE  TypeOK' /\ DriverInv'
<1>1. CASE DriverStep
  BY <1>1, WriteBackKeeps, ReadPageKeeps, ReadByteKeeps, WriteByteKeeps,
     FlushEndKeeps DEF DriverStep
<1>2. CASE Call
  <2>1. ASSUME NEW a \in 0..MemSize, NEW n \in 0..MaxLen, EEPROM_Read(a, n)
        PROVE  TypeOK' /\ DriverInv'
    BY <2>1, ReadCallKeeps
  <2>2. ASSUME NEW a \in 0..MemSize, NEW n \in 0..MaxLen,
               NEW buf \in [1..n -> Val], EEPROM_Write(a, buf)
        PROVE  TypeOK' /\ DriverInv'
    BY <2>2, WriteCallKeeps
  <2>3. QED BY <1>2, <2>1, <2>2, FlushCallKeeps DEF Call
<1>3. CASE \E c \in Present : CycleEnds(c)
  BY <1>3, CycleEndsKeeps
<1>4. CASE Reset
  <2>1. mem' \in [Addr -> Byte]
    BY <1>4 DEF Reset, TypeOK
  <2>2. QED BY <1>4, <2>1, InitKeeps DEF Reset
<1>5. CASE PowerLoss
  BY <1>5, PowerLossKeeps
<1>6. CASE UNCHANGED vars
  BY <1>6 DEF vars, cache, TypeOK, DriverInv, BusyIsLast, OnePage, CallInside
<1>7. QED BY <1>1, <1>2, <1>3, <1>4, <1>5, <1>6 DEF Next

(* The invariant holds in every reachable state. *)
LEMMA InvHolds == Spec => [](TypeOK /\ DriverInv)
<1>1. Init => TypeOK /\ DriverInv
  BY InitHolds
<1>2. TypeOK /\ DriverInv /\ [Next]_vars => TypeOK' /\ DriverInv'
  BY StepKeeps
<1>3. QED BY <1>1, <1>2, PTL DEF Spec

-----------------------------------------------------------------------------
(* Type correctness: among others, the cache never holds more than a page  *)
(* (Cache.count) and no call runs past the memory.                         *)
THEOREM EepromTypeCorrect == Spec => []TypeOK
BY InvHolds, PTL

(* EEPROM_FlushCache polls only the chip used last, and that is enough:    *)
(* when it returns no chip is in a write cycle and nothing is pending.     *)
THEOREM FlushSafe == Spec => FlushDurable
<1>1. TypeOK /\ DriverInv /\ [Next]_vars
      => [FlushEnd => busy = {} /\ Pending = {}]_vars
  <2>1. SUFFICES ASSUME DriverInv, FlushEnd
                 PROVE  busy = {} /\ Pending = {}
    OBVIOUS
  <2>2. QED BY <2>1, ReadyIsQuiet DEF FlushEnd, Pending, DriverInv
<1>2. QED BY <1>1, InvHolds, PTL DEF Spec, FlushDurable

(* With every chip fitted the driver never starts a transfer on a chip     *)
(* that does not acknowledge, whatever is called and whenever it resets.   *)
THEOREM DriverNeverHangs ==
    ASSUME AllFitted
    PROVE  Spec => []NeverHangs
<1>1. Init => NeverHangs
  BY DEF Init, NeverHangs
<1>2. ASSUME TypeOK, DriverInv, NeverHangs, [Next]_vars
      PROVE  NeverHangs'
  <2>1. CASE WriteBack
    <3>1. dirty /\ Ready(last) /\ OnePage /\ BusyIsLast
      BY <1>2, <2>1 DEF WriteBack, writecachepage, DriverInv
    <3>2. busy = {} /\ start \in Addr
      BY <1>2, <3>1, ReadyIsQuiet, WrittenOnChip
    <3>3. Ready(Chip(start))
      BY <3>2 DEF AllFitted, Ready
    <3>4. QED BY <1>2, <2>1, <3>3 DEF WriteBack, writecachepage, NeverHangs
  <2>2. CASE ReadPage
    <3>1. busy = {}
      BY <1>2, <2>2, ReadyIsQuiet DEF ReadPage, DriverInv
    <3>2. call.addr \in Addr
      BY <1>2, <2>2, Sizes DEF ReadPage, DriverInv, CallInside, Addr, TypeOK
    <3>3. Ready(Chip(call.addr))
      BY <3>1, <3>2 DEF AllFitted, Ready
    <3>4. QED BY <1>2, <2>2, <3>3 DEF ReadPage, NeverHangs
  <2>3. CASE ReadByte \/ WriteByte \/ FlushEnd
    BY <1>2, <2>3 DEF ReadByte, WriteByte, FlushEnd, NeverHangs
  <2>4. CASE Call
    BY <1>2, <2>4 DEF Call, EEPROM_Read, EEPROM_Write, EEPROM_FlushCache,
       NeverHangs
  <2>5. CASE (\E c \in Present : CycleEnds(c)) \/ Reset \/ PowerLoss
    BY <1>2, <2>5 DEF CycleEnds, Reset, PowerLoss, EEPROM_Init, NeverHangs
  <2>6. CASE UNCHANGED vars
    BY <1>2, <2>6 DEF vars, NeverHangs
  <2>7. QED BY <1>2, <2>1, <2>2, <2>3, <2>4, <2>5, <2>6 DEF Next, DriverStep
<1>3. QED BY <1>1, <1>2, InvHolds, PTL DEF Spec
=============================================================================
