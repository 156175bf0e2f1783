---------------------- MODULE Eeprom_refinement_proofs ----------------------
(***************************************************************************)
(* The EEPROM driver implements StableMemory, for every page size, number  *)
(* of pages and chips, as long as no caller writes a byte again that is    *)
(* still in the cache.                                                     *)
(***************************************************************************)
EXTENDS Eeprom_proofs

(* The call in progress is the one the program counter says, and between   *)
(* calls nothing is left of the last one.                                  *)
CallMatches ==
    /\ pc = "idle" => call.len = 0 /\ call.op # "flush"
    /\ pc = "write" => call.op = "write"
    /\ pc = "read" => call.op = "read"
    /\ pc = "flush" => call.op = "flush"

(* What a clean cache holds is what the chips hold. *)
CleanIsMemory ==
    ~dirty /\ pc # "hang" => \A i \in 0..(count - 1) : data[i] = mem[start + i]

(* A write in progress does not come back to the bytes in the cache. *)
WriteIsFresh ==
    dirty /\ pc = "write" =>
        call.addr >= start + count \/ call.addr + call.len <= start

RefInv == CallMatches /\ CleanIsMemory /\ WriteIsFresh

-----------------------------------------------------------------------------
(* What writecachepage sends. *)

(* The chip gets exactly the bytes waiting in the cache, each at its       *)
(* address: the page never wraps.                                          *)
LEMMA WrittenIsPending ==
    ASSUME TypeOK, OnePage, dirty
    PROVE  /\ Written = Pending
           /\ \A a \in Pending : Sent(a) = data[a - start]
<1>1. start \in Nat /\ count \in Nat
  BY Sizes DEF TypeOK
<1>2. Pending = start..(start + count - 1)
  BY DEF Pending
<1>3. \A k \in 0..(count - 1) : PageByte(k) = start + k
  BY NoPageWrap
<1>4. Written \subseteq Pending
  BY <1>1, <1>2, <1>3 DEF Written
<1>5. ASSUME NEW a \in Pending
      PROVE  a - start \in 0..(count - 1) /\ PageByte(a - start) = a
  <2>1. a - start \in 0..(count - 1)
    BY <1>1, <1>2
  <2>2. PageByte(a - start) = start + (a - start)
    BY <1>3, <2>1
  <2>3. QED BY <1>1, <1>2, <2>1, <2>2
<1>6. Pending \subseteq Written
  BY <1>5, Zenon DEF Written
<1>7. ASSUME NEW a \in Pending
      PROVE  Sent(a) = data[a - start]
  <2> DEFINE Final(k) == /\ PageByte(k) = a
                         /\ \A j \in (k + 1)..(count - 1) : PageByte(j) # a
  <2>1. a \in Int /\ a - start \in 0..(count - 1)
    BY <1>1, <1>2, <1>5
  <2>2. \A k \in 0..(count - 1) : Final(k) => k = a - start
    BY <1>1, <1>3, <2>1
  <2>3. Final(a - start)
    BY <1>1, <1>3, <1>5, <2>1
  <2> HIDE DEF Final
  <2>4. (CHOOSE k \in 0..(count - 1) : Final(k)) = a - start
    BY <2>1, <2>2, <2>3, Zenon
  <2>5. QED BY <2>4, Zenon DEF Sent, Final
<1>8. QED BY <1>4, <1>6, <1>7

-----------------------------------------------------------------------------
(* The invariant behind the refinement. *)

(* The invariant holds initially. *)
LEMMA RefInit == Init => RefInv
BY DEF Init, NoCall, RefInv, CallMatches, CleanIsMemory, WriteIsFresh

(* A reset empties the cache and ends the call. *)
LEMMA RefReset ==
    ASSUME EEPROM_Init
    PROVE  RefInv'
BY DEF EEPROM_Init, NoCall, RefInv, CallMatches, CleanIsMemory, WriteIsFresh

(* Calls.  A caller that is trusted not to overwrite starts a fresh write. *)
LEMMA RefCall ==
    ASSUME ~Overwrites, TypeOK, DriverInv, RefInv, Call
    PROVE  RefInv'
<1>1. UNCHANGED <<mem, busy, start, count, dirty, data>> /\ pc = "idle"
  BY DEF Call, EEPROM_Read, EEPROM_Write, EEPROM_FlushCache, cache
<1>2. pc' # "hang" /\ pc # "hang"
  BY <1>1 DEF Call, EEPROM_Read, EEPROM_Write, EEPROM_FlushCache
<1>3. CleanIsMemory'
  BY <1>1, <1>2 DEF RefInv, CleanIsMemory
<1>4. CASE EEPROM_FlushCache
  BY <1>3, <1>4 DEF EEPROM_FlushCache, NoCall, RefInv, CallMatches, WriteIsFresh
<1>5. ASSUME NEW a \in 0..MemSize, NEW n \in 0..MaxLen, EEPROM_Read(a, n)
      PROVE  RefInv'
  BY <1>1, <1>3, <1>5 DEF EEPROM_Read, RefInv, CallMatches, WriteIsFresh
<1>6. ASSUME NEW a \in 0..MemSize, NEW n \in 0..MaxLen,
             NEW buf \in [1..n -> Val], EEPROM_Write(a, buf)
      PROVE  RefInv'
  <2>1. CASE Legal(a, Len(buf))
    <3>1. /\ pc' = "write"
          /\ call' = [op |-> "write", addr |-> a, len |-> Len(buf),
                      buf |-> buf, got |-> <<>>]
      BY <1>6, <2>1 DEF EEPROM_Write
    <3>2. dirty => a >= start + count \/ a + Len(buf) <= start
      BY <1>6 DEF EEPROM_Write, CallerExpected
    <3>3. QED BY <1>1, <1>3, <3>1, <3>2 DEF RefInv, CallMatches, WriteIsFresh
  <2>2. CASE ~Legal(a, Len(buf))
    BY <1>1, <1>3, <1>6, <2>2 DEF EEPROM_Write, RefInv, CallMatches, WriteIsFresh
  <2>3. QED BY <2>1, <2>2
<1>7. QED BY <1>4, <1>5, <1>6 DEF Call

(* After writecachepage the cache is clean and equal to the chip. *)
LEMMA RefWriteBack ==
    ASSUME TypeOK, DriverInv, RefInv, WriteBack
    PROVE  RefInv'
<1>1. dirty /\ OnePage /\ start \in Nat /\ count \in Nat
  BY Sizes DEF WriteBack, DriverInv, TypeOK
<1>2. UNCHANGED <<start, count, data, call>> /\ pc # "idle"
  BY DEF WriteBack, writecachepage
<1>3. CASE Ready(Chip(start))
  <2>1. /\ mem' = [a \in Addr |-> IF a \in Written THEN Sent(a) ELSE mem[a]]
        /\ dirty' = FALSE /\ pc' = pc
    BY <1>3 DEF WriteBack, writecachepage
  <2>2. /\ Written = Pending /\ Written \subseteq Addr
        /\ \A a \in Pending : Sent(a) = data[a - start]
    BY <1>1, WrittenIsPending, WrittenOnChip
  <2>3. ASSUME NEW i \in 0..(count - 1)
        PROVE  data[i] = mem'[start + i]
    <3>1. start + i \in Pending /\ (start + i) - start = i
      BY <1>1 DEF Pending
    <3>2. mem'[start + i] = Sent(start + i)
      BY <2>1, <2>2, <3>1
    <3>3. QED BY <2>2, <3>1, <3>2
  <2>4. QED
    BY <1>2, <2>1, <2>3 DEF RefInv, CallMatches, CleanIsMemory, WriteIsFresh
<1>4. CASE ~Ready(Chip(start))
  <2>1. pc' = "hang"
    BY <1>4 DEF WriteBack, writecachepage
  <2>2. QED BY <2>1 DEF RefInv, CallMatches, CleanIsMemory, WriteIsFresh
<1>5. QED BY <1>3, <1>4

(* readcachepage fills the cache from the chip. *)
LEMMA RefReadPage ==
    ASSUME RefInv, ReadPage
    PROVE  RefInv'
<1>1. /\ UNCHANGED <<mem, dirty, call>> /\ ~dirty
      /\ pc = "read" /\ pc' \in {"read", "hang"} /\ count' = PageSize
  BY DEF ReadPage
<1>2. pc' # "hang" => \A i \in 0..(PageSize - 1) : data'[i] = mem[start' + i]
  BY <1>1 DEF ReadPage
<1>3. QED
  BY <1>1, <1>2 DEF RefInv, CallMatches, CleanIsMemory, WriteIsFresh

(* A byte is read, or a flush returns: the cache stays as it is, or is     *)
(* given up.                                                               *)
LEMMA RefReadEnds ==
    ASSUME TypeOK, DriverInv, RefInv, ReadByte \/ FlushEnd
    PROVE  RefInv'
<1>1. CASE ReadByte
  <2>1. /\ UNCHANGED <<mem, start, count, dirty, data>> /\ ~dirty
        /\ pc = "read" /\ pc' \in {"read", "idle"}
    BY <1>1 DEF ReadByte, cache
  <2>2. call'.op = call.op /\ call'.len = call.len - 1 /\ call.len \in Nat
    BY <1>1 DEF ReadByte, TypeOK
  <2>3. pc' = "idle" <=> call.len = 1
    BY <1>1 DEF ReadByte
  <2>4. QED
    BY <2>1, <2>2, <2>3 DEF RefInv, CallMatches, CleanIsMemory, WriteIsFresh
<1>2. CASE FlushEnd
  BY <1>2 DEF FlushEnd, NoCall, RefInv, CallMatches, CleanIsMemory, WriteIsFresh
<1>3. QED BY <1>1, <1>2

(* One turn of the loop of a fresh write takes a byte, and the next byte   *)
(* is the one that extends the cache.                                      *)
LEMMA WriteExtends ==
    ASSUME TypeOK, DriverInv, RefInv, WriteByte
    PROVE  /\ call.addr \in Nat /\ call.len \in Nat /\ call.len > 0
           /\ dirty' = TRUE
           /\ start' \in Nat /\ start' + count' = call.addr + 1
           /\ start' = (IF dirty THEN start ELSE call.addr)
           /\ count' = (IF dirty THEN count ELSE 0) + 1
           /\ data' = [data EXCEPT ![IF dirty THEN count ELSE 0] = call.buf[1]]
           /\ call' = [call EXCEPT !.addr = @ + 1, !.len = @ - 1, !.buf = Tail(@)]
<1> DEFINE n == IF dirty THEN count ELSE 0
           extends == call.addr = start' + n
<1>1. /\ call.addr \in Nat /\ call.len \in Nat /\ call.len > 0
      /\ start \in Nat /\ count \in Nat
  BY Sizes DEF WriteByte, DriverInv, CallInside, TypeOK
<1>2. /\ dirty' = TRUE
      /\ start' = (IF dirty THEN start ELSE call.addr)
      /\ count' = (IF extends THEN n + 1 ELSE n)
      /\ data' = (IF extends THEN [data EXCEPT ![n] = call.buf[1]] ELSE data)
      /\ call' = [call EXCEPT !.addr = @ + 1, !.len = @ - 1,
                              !.buf = IF extends THEN Tail(@) ELSE @]
  BY DEF WriteByte
<1>3. extends
  <2>1. CASE ~dirty
    BY <1>1, <1>2, <2>1
  <2>2. CASE dirty
    <3>1. call.addr >= start /\ call.addr <= start + count
      BY <1>1, <2>2 DEF WriteByte, WriteMiss
    <3>2. call.addr >= start + count \/ call.addr + call.len <= start
      BY <2>2 DEF RefInv, WriteIsFresh, WriteByte
    <3>3. QED BY <1>1, <1>2, <2>2, <3>1, <3>2
  <2>3. QED BY <2>1, <2>2
<1>4. n \in Nat /\ start' \in Nat
  BY <1>1, <1>2
<1>5. start' + count' = call.addr + 1
  BY <1>1, <1>2, <1>3, <1>4
<1>6. QED BY <1>1, <1>2, <1>3, <1>4, <1>5

(* A byte written keeps the write fresh. *)
LEMMA RefWriteByte ==
    ASSUME TypeOK, DriverInv, RefInv, WriteByte
    PROVE  RefInv'
<1>1. /\ call.addr \in Nat /\ call.len \in Nat /\ dirty' = TRUE
      /\ start' + count' = call.addr + 1
      /\ call' = [call EXCEPT !.addr = @ + 1, !.len = @ - 1, !.buf = Tail(@)]
  BY WriteExtends
<1>2. call'.op = call.op /\ call'.len = call.len - 1 /\ call'.addr = call.addr + 1
  BY <1>1 DEF TypeOK
<1>3. pc = "write" /\ pc' \in {"write", "idle"} /\ (pc' = "idle" <=> call.len = 1)
  BY DEF WriteByte
<1>4. QED
  BY <1>1, <1>2, <1>3 DEF RefInv, CallMatches, CleanIsMemory, WriteIsFresh

(* Every step keeps the invariant. *)
LEMMA RefStep ==
    ASSUME ~Overwrites, TypeOK, DriverInv, RefInv, [Next]_vars
    PROVE  RefInv'
<1>1. CASE DriverStep
  BY <1>1, RefWriteBack, RefReadPage, RefReadEnds, RefWriteByte DEF DriverStep
<1>2. CASE Call
  BY <1>2, RefCall
<1>3. CASE \E c \in Present : CycleEnds(c)
  BY <1>3 DEF CycleEnds, cache, RefInv, CallMatches, CleanIsMemory, WriteIsFresh
<1>4. CASE Reset \/ PowerLoss
  BY <1>4, RefReset DEF Reset, PowerLoss
<1>5. CASE UNCHANGED vars
  BY <1>5 DEF vars, cache, RefInv, CallMatches, CleanIsMemory, WriteIsFresh
<1>6. QED BY <1>1, <1>2, <1>3, <1>4, <1>5 DEF Next

-----------------------------------------------------------------------------
(* Every step of the driver is a step of the memory, or none. *)

(* The pending bytes, as StableMemory sees them. *)
PendingBytes == [a \in Pending |-> data[a - start]]

(* A clean cache has nothing pending. *)
LEMMA CleanPending ==
    /\ ~dirty => PendingBytes = Memory!Nothing
    /\ ~dirty' => PendingBytes' = Memory!Nothing
<1>1. ASSUME ~dirty PROVE PendingBytes = Memory!Nothing
  BY <1>1 DEF PendingBytes, Pending, Memory!Nothing
<1>2. ASSUME ~dirty' PROVE PendingBytes' = Memory!Nothing
  BY <1>2 DEF PendingBytes, Pending, Memory!Nothing
<1>3. QED BY <1>1, <1>2

(* The initial states are initial states of the memory. *)
LEMMA SimInit == Init => Memory!MemInit
<1>1. SUFFICES ASSUME Init PROVE Memory!MemInit
  OBVIOUS
<1>2. PendingBytes = Memory!Nothing
  BY <1>1, CleanPending DEF Init
<1>3. QED
  BY <1>1, <1>2 DEF Init, NoCall, PendingBytes, Memory!MemInit, Memory!Idle

(* What a step leaves of the memory's state when it touches neither the    *)
(* chips nor the call nor the bytes pending.                               *)
LEMMA SimStutter ==
    ASSUME UNCHANGED <<mem, busy, call>>, PendingBytes' = PendingBytes
    PROVE  UNCHANGED Memory!mvars
BY DEF PendingBytes, Memory!mvars

(* Unchanged variables of the cache leave the pending bytes alone. *)
LEMMA PendingKept ==
    ASSUME UNCHANGED cache
    PROVE  PendingBytes' = PendingBytes
BY DEF cache, PendingBytes, Pending

(* A call begins, or is refused. *)
LEMMA SimCall ==
    ASSUME TypeOK, RefInv, Call
    PROVE  [Memory!MemNext]_Memory!mvars
<1>1. UNCHANGED <<mem, busy, cache>> /\ pc = "idle"
  BY DEF Call, EEPROM_Read, EEPROM_Write, EEPROM_FlushCache
<1>2. PendingBytes' = PendingBytes
  BY <1>1, PendingKept
<1>3. Memory!Served
  BY <1>1 DEF RefInv, CallMatches, Memory!Served
<1>4. CASE EEPROM_FlushCache
  <2>1. Memory!BeginFlush
    BY <1>1, <1>2, <1>3, <1>4 DEF EEPROM_FlushCache, NoCall, PendingBytes,
       Memory!BeginFlush, Memory!Idle
  <2>2. QED BY <2>1 DEF Memory!MemNext
<1>5. ASSUME NEW a \in 0..MemSize, NEW n \in Nat, Legal(a, n)
      PROVE  /\ a \in Addr /\ a + n - 1 \in Addr /\ a <= a + n - 1
             /\ (a + n - 1) - a + 1 = n
  BY <1>5, Sizes DEF Legal, Addr
<1>6. ASSUME NEW a \in 0..MemSize, NEW n \in 0..MaxLen, EEPROM_Read(a, n)
      PROVE  [Memory!MemNext]_Memory!mvars
  <2>1. n \in Nat
    BY EepromAssumption
  <2>2. CASE Legal(a, n)
    <3>1. call' = [op |-> "read", addr |-> a, len |-> n, buf |-> <<>>, got |-> <<>>]
      BY <1>6, <2>2 DEF EEPROM_Read
    <3>2. Memory!BeginRead
      BY <1>1, <1>2, <1>3, <1>5, <2>1, <2>2, <3>1 DEF PendingBytes, Memory!BeginRead
    <3>3. QED BY <3>2 DEF Memory!MemNext
  <2>3. CASE ~Legal(a, n)
    <3>1. call' = call
      BY <1>6, <2>3 DEF EEPROM_Read
    <3>2. QED BY <1>1, <1>2, <3>1, SimStutter
  <2>4. QED BY <2>2, <2>3
<1>7. ASSUME NEW a \in 0..MemSize, NEW n \in 0..MaxLen,
             NEW buf \in [1..n -> Val], EEPROM_Write(a, buf)
      PROVE  [Memory!MemNext]_Memory!mvars
  <2>1. n \in Nat /\ Len(buf) = n
    BY EepromAssumption
  <2>2. CASE Legal(a, n)
    <3>1. call' = [op |-> "write", addr |-> a, len |-> n, buf |-> buf, got |-> <<>>]
      BY <1>7, <2>1, <2>2 DEF EEPROM_Write
    <3>2. Memory!BeginWrite
      BY <1>1, <1>2, <1>3, <1>5, <2>1, <2>2, <3>1 DEF PendingBytes, Memory!BeginWrite
    <3>3. QED BY <3>2 DEF Memory!MemNext
  <2>3. CASE ~Legal(a, n)
    <3>1. call' = call
      BY <1>7, <2>1, <2>3 DEF EEPROM_Write
    <3>2. QED BY <1>1, <1>2, <3>1, SimStutter
  <2>4. QED BY <2>2, <2>3
<1>8. QED BY <1>4, <1>6, <1>7 DEF Call

(* writecachepage makes the pending bytes durable, all of them at once. *)
LEMMA SimWriteBack ==
    ASSUME TypeOK, DriverInv, WriteBack
    PROVE  [Memory!MemNext]_Memory!mvars
<1>1. dirty /\ OnePage /\ start \in Nat /\ count \in Nat /\ count > 0
  BY Sizes DEF WriteBack, DriverInv, OnePage, TypeOK
<1>2. UNCHANGED <<start, count, data, call>>
  BY DEF WriteBack, writecachepage
<1>3. /\ Written = Pending
      /\ \A a \in Pending : Sent(a) = data[a - start]
  BY <1>1, WrittenIsPending
<1>4. CASE Ready(Chip(start))
  <2>1. /\ mem' = [a \in Addr |-> IF a \in Written THEN Sent(a) ELSE mem[a]]
        /\ busy' = busy \union Written /\ dirty' = FALSE
    BY <1>4 DEF WriteBack, writecachepage
  <2>2. DOMAIN PendingBytes = Pending
    BY DEF PendingBytes
  <2>3. PendingBytes' = Memory!Nothing
    BY <2>1, CleanPending
  <2>4. start \in Pending
    BY <1>1 DEF Pending
  <2>5. PendingBytes # Memory!Nothing
    BY <2>2, <2>4 DEF Memory!Nothing
  <2>6. \A a \in Addr : (IF a \in Written THEN Sent(a) ELSE mem[a])
                          = Memory!View(a)
    BY <1>3 DEF Memory!View
  <2>7. mem' = [a \in Addr |-> Memory!View(a)]
    BY <2>1, <2>6
  <2>8. Memory!Persist
    BY <1>2, <1>3, <2>1, <2>2, <2>3, <2>5, <2>7 DEF PendingBytes, Memory!Persist
  <2>9. QED BY <2>8 DEF Memory!MemNext
<1>5. CASE ~Ready(Chip(start))
  <2>1. UNCHANGED <<mem, busy, dirty>>
    BY <1>5 DEF WriteBack, writecachepage
  <2>2. QED BY <1>2, <2>1, PendingKept, SimStutter DEF cache
<1>6. QED BY <1>4, <1>5

(* readcachepage is not seen. *)
LEMMA SimReadPage ==
    ASSUME ReadPage
    PROVE  [Memory!MemNext]_Memory!mvars
<1>1. ~dirty /\ ~dirty' /\ UNCHANGED <<mem, busy, call>>
  BY DEF ReadPage
<1>2. QED BY <1>1, CleanPending, SimStutter

(* A byte read from the cache is the byte in the memory. *)
LEMMA SimReadByte ==
    ASSUME TypeOK, DriverInv, RefInv, ReadByte
    PROVE  [Memory!MemNext]_Memory!mvars
<1>1. /\ call.addr \in Nat /\ call.len > 0 /\ start \in Nat /\ count \in Nat
      /\ call.op = "read" /\ ~dirty /\ pc # "hang"
  BY Sizes DEF ReadByte, DriverInv, CallInside, TypeOK, RefInv, CallMatches
<1>2. call.addr - start \in 0..(count - 1)
  BY <1>1 DEF ReadByte, ReadMiss
<1>3. data[call.addr - start] = mem[call.addr]
  <2>1. data[call.addr - start] = mem[start + (call.addr - start)]
    BY <1>1, <1>2 DEF RefInv, CleanIsMemory
  <2>2. start + (call.addr - start) = call.addr
    BY <1>1
  <2>3. QED BY <2>1, <2>2
<1>4. Memory!View(call.addr) = mem[call.addr]
  <2>1. DOMAIN PendingBytes = {}
    BY <1>1 DEF PendingBytes, Pending
  <2>2. QED BY <2>1 DEF PendingBytes, Memory!View
<1>5. UNCHANGED <<mem, busy, cache>>
  BY DEF ReadByte
<1>6. PendingBytes' = PendingBytes
  BY <1>5, PendingKept
<1>7. call' = [call EXCEPT !.addr = @ + 1, !.len = @ - 1,
                           !.got = Append(@, Memory!View(call.addr))]
  BY <1>3, <1>4 DEF ReadByte
<1>8. Memory!GetByte
  BY <1>1, <1>5, <1>6, <1>7 DEF PendingBytes, Memory!GetByte
<1>9. QED BY <1>8 DEF Memory!MemNext

(* A byte written becomes pending. *)
LEMMA SimWriteByte ==
    ASSUME TypeOK, DriverInv, RefInv, WriteByte
    PROVE  [Memory!MemNext]_Memory!mvars
<1> DEFINE n == IF dirty THEN count ELSE 0
<1>1. /\ call.addr \in Nat /\ call.len \in Nat /\ call.len > 0
      /\ dirty' = TRUE
      /\ start' \in Nat /\ start' + count' = call.addr + 1
      /\ start' = (IF dirty THEN start ELSE call.addr)
      /\ count' = n + 1
      /\ data' = [data EXCEPT ![n] = call.buf[1]]
      /\ call' = [call EXCEPT !.addr = @ + 1, !.len = @ - 1, !.buf = Tail(@)]
  BY WriteExtends
<1>2. /\ start \in Nat /\ count \in Nat /\ n \in Nat
      /\ data \in [0..(PageSize - 1) -> Byte]
  BY Sizes DEF TypeOK
<1>3. n \in 0..(PageSize - 1)
  <2>1. count' \in 0..PageSize
    BY WriteByteKeeps DEF TypeOK
  <2>2. QED BY <1>1, <1>2, <2>1, Sizes
<1>4. Pending' = Pending \union {call.addr}
  <2>1. Pending' = start'..(start' + count' - 1)
    BY <1>1 DEF Pending
  <2>2. CASE dirty
    <3>1. Pending = start..(start + count - 1) /\ start' = start
      BY <1>1, <2>2 DEF Pending
    <3>2. call.addr = start + count /\ start' + count' - 1 = start + count
      BY <1>1, <1>2, <2>2
    <3>3. QED BY <1>2, <2>1, <3>1, <3>2
  <2>3. CASE ~dirty
    <3>1. Pending = {} /\ start' = call.addr
      BY <1>1, <2>3 DEF Pending
    <3>2. start' + count' - 1 = call.addr
      BY <1>1, <1>2
    <3>3. QED BY <1>1, <2>1, <3>1, <3>2
  <2>4. QED BY <2>2, <2>3
<1>5. ASSUME NEW a \in Pending \union {call.addr}
      PROVE  data'[a - start'] = IF a = call.addr THEN call.buf[1]
                                 ELSE data[a - start]
  <2>1. CASE a = call.addr
    <3>1. a - start' = n
      BY <1>1, <1>2, <2>1
    <3>2. QED BY <1>1, <1>2, <1>3, <2>1, <3>1
  <2>2. CASE a # call.addr
    <3>1. dirty /\ start' = start /\ a \in start..(start + count - 1)
      BY <1>1, <2>2 DEF Pending
    <3>2. a - start # n
      BY <1>2, <3>1
    <3>3. data'[a - start] = data[a - start]
      BY <1>1, <1>2, <3>2
    <3>4. QED BY <2>2, <3>1, <3>3
  <2>3. QED BY <2>1, <2>2
<1>6. PendingBytes' = [a \in Pending \union {call.addr} |->
                         IF a = call.addr THEN call.buf[1] ELSE PendingBytes[a]]
  <2>1. PendingBytes' = [a \in Pending' |-> data'[a - start']]
    BY DEF PendingBytes
  <2>2. \A a \in Pending : PendingBytes[a] = data[a - start]
    BY DEF PendingBytes
  <2>3. QED BY <1>4, <1>5, <2>1, <2>2
<1>7. DOMAIN PendingBytes = Pending
  BY DEF PendingBytes
<1>8. UNCHANGED <<mem, busy>> /\ call.op = "write"
  BY DEF WriteByte, RefInv, CallMatches
<1>9. Memory!PutByte
  BY <1>1, <1>6, <1>7, <1>8 DEF PendingBytes, Memory!PutByte
<1>10. QED BY <1>9 DEF Memory!MemNext

(* A flush returns with nothing pending and nothing settling. *)
LEMMA SimFlushEnd ==
    ASSUME DriverInv, RefInv, FlushEnd
    PROVE  [Memory!MemNext]_Memory!mvars
<1>1. busy = {} /\ ~dirty /\ ~dirty' /\ call.op = "flush"
  BY ReadyIsQuiet DEF FlushEnd, DriverInv, RefInv, CallMatches
<1>2. UNCHANGED <<mem, busy>> /\ call' = NoCall
  BY DEF FlushEnd
<1>3. PendingBytes = Memory!Nothing /\ PendingBytes' = Memory!Nothing
  BY <1>1, CleanPending
<1>4. Memory!EndFlush
  BY <1>1, <1>2, <1>3 DEF PendingBytes, NoCall, Memory!EndFlush, Memory!Idle
<1>5. QED BY <1>4 DEF Memory!MemNext

(* A write cycle ends, and a reset or a power loss loses what is pending. *)
LEMMA SimChips ==
    ASSUME TypeOK, (\E c \in Present : CycleEnds(c)) \/ Reset \/ PowerLoss
    PROVE  [Memory!MemNext]_Memory!mvars
<1>1. CASE \E c \in Present : CycleEnds(c)
  <2>1. UNCHANGED <<mem, cache, call>> /\ busy' \subseteq busy
    BY <1>1 DEF CycleEnds
  <2>2. PendingBytes' = PendingBytes
    BY <2>1, PendingKept
  <2>3. Memory!Settle
    BY <2>1, <2>2 DEF PendingBytes, Memory!Settle
  <2>4. QED BY <2>3 DEF Memory!MemNext
<1>2. CASE Reset \/ PowerLoss
  <2>1. ~dirty' /\ busy' = {} /\ call' = Memory!Idle
    BY <1>2 DEF Reset, PowerLoss, EEPROM_Init, NoCall, Memory!Idle
  <2>2. PendingBytes' = Memory!Nothing
    BY <2>1, CleanPending
  <2>3. \E D \in SUBSET busy :
           mem' = [a \in Addr |-> IF a \in D THEN Garbage ELSE mem[a]]
    <3>1. CASE PowerLoss
      BY <3>1 DEF PowerLoss
    <3>2. CASE Reset
      <4>1. mem' = [a \in Addr |-> IF a \in {} THEN Garbage ELSE mem[a]]
        BY <3>2 DEF Reset, TypeOK
      <4>2. {} \in SUBSET busy
        OBVIOUS
      <4>3. QED BY <4>1, <4>2
    <3>3. QED BY <1>2, <3>1, <3>2
  <2>4. Memory!Lose
    BY <2>1, <2>2, <2>3 DEF PendingBytes, Memory!Lose
  <2>5. QED BY <2>4 DEF Memory!MemNext
<1>3. QED BY <1>1, <1>2

(* Every step. *)
LEMMA SimStep ==
    ASSUME TypeOK, DriverInv, RefInv, [Next]_vars
    PROVE  [Memory!MemNext]_Memory!mvars
<1>1. CASE DriverStep
  BY <1>1, SimWriteBack, SimReadPage, SimReadByte, SimWriteByte, SimFlushEnd
     DEF DriverStep
<1>2. CASE Call
  BY <1>2, SimCall
<1>3. CASE (\E c \in Present : CycleEnds(c)) \/ Reset \/ PowerLoss
  BY <1>3, SimChips
<1>4. CASE UNCHANGED vars
  BY <1>4, PendingKept, SimStutter DEF vars
<1>5. QED BY <1>1, <1>2, <1>3, <1>4 DEF Next

(* The driver is the memory eeprom.h describes: reads return what was      *)
(* written last, a reset or a power loss undoes no more than the latest    *)
(* contiguous run of writes and damages no more than the bytes in a write  *)
(* cycle, and nothing is lost once EEPROM_FlushCache has returned.         *)
THEOREM DriverImplementsMemory ==
    ASSUME ~Overwrites
    PROVE  Spec => MemoryImplemented
<1>1. Init => Memory!MemInit
  BY SimInit
<1>2. Init => RefInv
  BY RefInit
<1>3. TypeOK /\ DriverInv /\ RefInv /\ [Next]_vars => RefInv'
  BY RefStep
<1>4. TypeOK /\ DriverInv /\ RefInv /\ [Next]_vars
        => [Memory!MemNext]_Memory!mvars
  BY SimStep
<1>5. QED
  BY <1>1, <1>2, <1>3, <1>4, InvHolds, PTL
     DEF Spec, MemoryImplemented, Memory!MemSpec
=============================================================================
