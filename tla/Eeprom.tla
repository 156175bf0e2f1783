------------------------------- MODULE Eeprom -------------------------------
(***************************************************************************)
(* The EEPROM driver: two I2C chips behind one write-behind cache of one   *)
(* page.  A call is split at each byte and at each I2C transfer, where the *)
(* driver polls until the chip it used last is ready and where a reset or  *)
(* a power loss may strike.                                                *)
(***************************************************************************)
EXTENDS Integers, Sequences

CONSTANTS
    PageSize,    \* EEPROM_CACHE_SIZE
    ChipPages,   \* pages of one I2C device
    MemPages,    \* pages of all devices, EEPROM_MEM_SIZE / EEPROM_CACHE_SIZE
    Val,         \* byte values
    Garbage,     \* a byte damaged by a power loss
    MaxLen,      \* longest buffer a caller passes
    Present,     \* chips that are fitted (the second is on the PHY board)
    Overwrites   \* callers write bytes again that are still in the cache

ASSUME EepromAssumption ==
    /\ PageSize \in Nat \ {0}
    /\ ChipPages \in Nat \ {0}
    /\ MemPages \in Nat \ {0}
    /\ Garbage \notin Val /\ Val # {}
    /\ MaxLen \in Nat
    /\ Present \subseteq Nat
    /\ 0 \in Present
    /\ Overwrites \in BOOLEAN

MemSize == MemPages * PageSize
Addr == 0..(MemSize - 1)
Byte == Val \union {Garbage}
NoStart == MemSize     \* startaddr after EEPROM_Init: in no page

VARIABLES
    mem,         \* contents of the chips
    busy,        \* addresses whose write cycle is under way
    start, count, dirty, data,   \* Cache
    last,        \* chip in LastCntlByte
    pc,          \* where the call is, "hang" in a wait that never ends
    call,        \* operation, address, bytes left, *pBuff, bytes read
    ret          \* result of the last call

cache == <<start, count, dirty, data>>
vars  == <<mem, busy, cache, last, pc, call, ret>>

Page(a) == a \div PageSize

(* The upper address bits select the device. *)
Chip(a) == Page(a) \div ChipPages

(* ackpoll: the chip addressed last acknowledges. *)
Ready(c) == c \in Present /\ \A a \in busy : Chip(a) # c

(* Mutants of WriteMiss: the page is not compared; an address below the    *)
(* cached ones is not noticed.                                             *)
WriteMissAnyPage(a) == a < start \/ a > start + count
WriteMissAboveOnly(a) == Page(a) # Page(start) \/ a > start + count

(* SAMEPAGE fails, or addr is no byte of the cache nor the next. *)
WriteMiss(a) == Page(a) # Page(start) \/ a < start \/ a > start + count

ReadMiss(a) == a < start \/ a - start >= count

NoCall == [op |-> "none", addr |-> 0, len |-> 0, buf |-> <<>>, got |-> <<>>]

(* What the next reads will find at a. *)
Visible(a) ==
    IF dirty /\ a >= start /\ a < start + count THEN data[a - start] ELSE mem[a]

(* The cache is in .bss, which the start-up code clears. *)
Cleared ==
    LET zero == CHOOSE b \in Val : TRUE IN [i \in 0..(PageSize - 1) |-> zero]

Init ==
    /\ mem \in [Addr -> Val]
    /\ busy = {}
    /\ start = NoStart /\ count = 0 /\ dirty = FALSE
    /\ data = Cleared
    /\ last = 0
    /\ pc = "idle" /\ call = NoCall /\ ret = "ok"

-----------------------------------------------------------------------------
(* Calls.  Illegal parameters are refused at once.                         *)

Legal(a, n) == a < MemSize /\ n # 0 /\ a + n <= MemSize

(* What callers are trusted with unless Overwrites. *)
CallerExpected(a, n) ==
    \/ Overwrites
    \/ ~dirty
    \/ a + n <= start
    \/ a >= start + count

EEPROM_Write(a, buf) ==
    /\ pc = "idle"
    /\ CallerExpected(a, Len(buf))
    /\ IF Legal(a, Len(buf))
       THEN /\ pc' = "write"
            /\ call' = [op |-> "write", addr |-> a, len |-> Len(buf),
                        buf |-> buf, got |-> <<>>]
            /\ UNCHANGED ret
       ELSE /\ ret' = "illegal"
            /\ UNCHANGED <<pc, call>>
    /\ UNCHANGED <<mem, busy, cache, last>>

EEPROM_Read(a, n) ==
    /\ pc = "idle"
    /\ IF Legal(a, n)
       THEN /\ pc' = "read"
            /\ call' = [op |-> "read", addr |-> a, len |-> n,
                        buf |-> <<>>, got |-> <<>>]
            /\ UNCHANGED ret
       ELSE /\ ret' = "illegal"
            /\ UNCHANGED <<pc, call>>
    /\ UNCHANGED <<mem, busy, cache, last>>

EEPROM_FlushCache ==
    /\ pc = "idle"
    /\ pc' = "flush"
    /\ call' = [NoCall EXCEPT !.op = "flush"]
    /\ UNCHANGED <<mem, busy, cache, last, ret>>

-----------------------------------------------------------------------------
(* writecachepage, with something to write.  The chip wraps inside its     *)
(* page.  A chip that does not acknowledge leaves the driver waiting for   *)
(* TXIS.                                                                   *)

PageByte(i) == (Page(start) * PageSize) + ((start + i) % PageSize)

Written == {PageByte(i) : i \in 0..(count - 1)}

(* The cached byte that ends up at a, the last one sent there. *)
Sent(a) ==
    data[CHOOSE i \in 0..(count - 1) :
           /\ PageByte(i) = a
           /\ \A j \in (i + 1)..(count - 1) : PageByte(j) # a]

(* Mutant of writecachepage: LastCntlByte is not kept for the next poll. *)
writecachepageForgets ==
    /\ Ready(last)
    /\ IF Ready(Chip(start))
       THEN /\ mem' = [a \in Addr |-> IF a \in Written THEN Sent(a) ELSE mem[a]]
            /\ busy' = busy \union Written
            /\ dirty' = FALSE
            /\ UNCHANGED pc
       ELSE /\ pc' = "hang"
            /\ UNCHANGED <<mem, busy, dirty>>
    /\ UNCHANGED <<start, count, data, last, call, ret>>

writecachepage ==
    /\ Ready(last)
    /\ IF Ready(Chip(start))
       THEN /\ mem' = [a \in Addr |-> IF a \in Written THEN Sent(a) ELSE mem[a]]
            /\ busy' = busy \union Written
            /\ dirty' = FALSE
            /\ UNCHANGED pc
       ELSE /\ pc' = "hang"
            /\ UNCHANGED <<mem, busy, dirty>>
    /\ last' = Chip(start)
    /\ UNCHANGED <<start, count, data, call, ret>>

(* Each caller writes back first if the cache is dirty and in its way. *)
WriteBack ==
    /\ dirty
    /\ \/ pc = "write" /\ WriteMiss(call.addr)
       \/ pc = "read"
       \/ pc = "flush"
    /\ writecachepage

(* Mutant of ReadPage: Cache.count stays 0, nothing is ever found. *)
ReadPageEmpty ==
    /\ pc = "read" /\ ~dirty /\ ReadMiss(call.addr)
    /\ Ready(last)
    /\ start' = Page(call.addr) * PageSize
    /\ count' = 0
    /\ last' = Chip(call.addr)
    /\ data' = [i \in 0..(PageSize - 1) |-> mem[start' + i]]
    /\ UNCHANGED <<mem, busy, dirty, pc, call, ret>>

(* readcachepage, the cache being clean. *)
ReadPage ==
    /\ pc = "read" /\ ~dirty /\ ReadMiss(call.addr)
    /\ Ready(last)
    /\ start' = Page(call.addr) * PageSize
    /\ count' = PageSize
    /\ last' = Chip(call.addr)
    /\ IF Ready(Chip(call.addr))
       THEN /\ data' = [i \in 0..(PageSize - 1) |-> mem[start' + i]]
            /\ UNCHANGED pc
       ELSE /\ pc' = "hang"
            /\ UNCHANGED data
    /\ UNCHANGED <<mem, busy, dirty, call, ret>>

ReadByte ==
    /\ pc = "read" /\ ~dirty /\ ~ReadMiss(call.addr)
    /\ call' = [call EXCEPT !.addr = @ + 1, !.len = @ - 1,
                            !.got = Append(@, data[call.addr - start])]
    /\ IF call.len = 1
       THEN pc' = "idle" /\ ret' = "ok"
       ELSE UNCHANGED <<pc, ret>>
    /\ UNCHANGED <<mem, busy, cache, last>>

(* One turn of EEPROM_Write's loop.  A byte that does not extend the cache *)
(* is passed over, and *pBuff with it stays where it is.                   *)
WriteByte ==
    /\ pc = "write" /\ ~(dirty /\ WriteMiss(call.addr))
    /\ dirty' = TRUE
    /\ start' = IF dirty THEN start ELSE call.addr
    /\ LET n == IF dirty THEN count ELSE 0
           extends == call.addr = start' + n IN
       /\ count' = IF extends THEN n + 1 ELSE n
       /\ data' = IF extends THEN [data EXCEPT ![n] = call.buf[1]] ELSE data
       /\ call' = [call EXCEPT !.addr = @ + 1, !.len = @ - 1,
                               !.buf = IF extends THEN Tail(@) ELSE @]
    /\ IF call.len = 1
       THEN pc' = "idle" /\ ret' = "ok"
       ELSE UNCHANGED <<pc, ret>>
    /\ UNCHANGED <<mem, busy, last>>

(* Mutant of FlushEnd: the last page's write cycle is not waited for. *)
FlushEndAtOnce ==
    /\ pc = "flush" /\ ~dirty
    /\ count' = 0
    /\ pc' = "idle" /\ ret' = "ok" /\ call' = NoCall
    /\ UNCHANGED <<mem, busy, start, dirty, data, last>>

(* EEPROM_FlushCache waits for the write cycle and empties the cache. *)
FlushEnd ==
    /\ pc = "flush" /\ ~dirty
    /\ Ready(last)
    /\ count' = 0
    /\ pc' = "idle" /\ ret' = "ok" /\ call' = NoCall
    /\ UNCHANGED <<mem, busy, start, dirty, data, last>>

-----------------------------------------------------------------------------
(* The chips (external) end their write cycles. *)
CycleEnds(c) ==
    /\ \E a \in busy : Chip(a) = c
    /\ busy' = {a \in busy : Chip(a) # c}
    /\ UNCHANGED <<mem, cache, last, pc, call, ret>>

(* EEPROM_Init after a reset or a power loss.  Starting up takes longer    *)
(* than a write cycle, and a power loss may damage what was being written. *)
EEPROM_Init ==
    /\ start' = NoStart /\ count' = 0 /\ dirty' = FALSE
    /\ data' = Cleared
    /\ last' = 0
    /\ busy' = {}
    /\ pc' = "idle" /\ call' = NoCall /\ ret' = "ok"

Reset ==
    /\ EEPROM_Init
    /\ UNCHANGED mem

PowerLoss ==
    /\ EEPROM_Init
    /\ \E D \in SUBSET busy :
          mem' = [a \in Addr |-> IF a \in D THEN Garbage ELSE mem[a]]

-----------------------------------------------------------------------------
DriverStep == WriteBack \/ ReadPage \/ ReadByte \/ WriteByte \/ FlushEnd

Call ==
    \/ \E a \in 0..MemSize : \E n \in 0..MaxLen :
          \/ EEPROM_Read(a, n)
          \/ \E buf \in [1..n -> Val] : EEPROM_Write(a, buf)
    \/ EEPROM_FlushCache

Next ==
    \/ DriverStep
    \/ Call
    \/ \E c \in Present : CycleEnds(c)
    \/ Reset
    \/ PowerLoss

Spec == Init /\ [][Next]_vars

(* The driver runs on and a write cycle ends. *)
FairSpec ==
    /\ Spec
    /\ WF_vars(DriverStep)
    /\ \A c \in Present : WF_vars(CycleEnds(c))

-----------------------------------------------------------------------------
(* Every variable stays in its range. *)
TypeOK ==
    /\ mem \in [Addr -> Byte]
    /\ busy \subseteq Addr
    /\ start \in 0..MemSize
    /\ count \in 0..PageSize
    /\ dirty \in BOOLEAN
    /\ data \in [0..(PageSize - 1) -> Byte]
    /\ last \in Nat
    /\ pc \in {"idle", "write", "read", "flush", "hang"}
    /\ call \in [op : {"none", "write", "read", "flush"}, addr : 0..MemSize,
                 len : Nat, buf : Seq(Val), got : Seq(Byte)]
    /\ ret \in {"ok", "illegal"}

(* The bytes waiting in the cache. *)
Pending == IF dirty THEN start..(start + count - 1) ELSE {}

Memory == INSTANCE StableMemory WITH
    durable  <- mem,
    pending  <- [a \in Pending |-> data[a - start]],
    settling <- busy,
    req      <- call

(* The driver is the memory eeprom.h describes: reads return what was      *)
(* written last, a reset undoes only the latest contiguous run of writes,  *)
(* and nothing is lost once EEPROM_FlushCache has returned.                *)
MemoryImplemented == Memory!MemSpec

(* A byte EEPROM_Write takes from the user buffer is what the next read    *)
(* finds at its address.                                                   *)
WriteTakesEffect ==
    [][WriteByte => \A a \in Addr : a = call.addr => Visible(a)' = call.buf[1]]_vars

(* With both chips fitted no transfer is ever started on a chip in its     *)
(* write cycle, which would leave the driver waiting for TXIS for ever,    *)
(* although ackpoll polls the chip used last and not the one used next.    *)
NeverHangs == pc # "hang"

(* When EEPROM_FlushCache returns, neither chip has a write cycle under    *)
(* way that a power loss could damage.                                     *)
FlushDurable == [][FlushEnd => busy = {} /\ Pending = {}]_vars

(* Every call returns: neither the ready polls nor the waits inside a      *)
(* transfer go on for ever.                                                *)
CallReturns == pc # "idle" ~> pc = "idle"

-----------------------------------------------------------------------------
(* The inductive invariant behind NeverHangs and FlushDurable.             *)

(* Only the chip the next poll addresses can be in a write cycle. *)
BusyIsLast == \A a \in busy : Chip(a) = last

(* A dirty cache holds bytes of one page, the ones before start + count. *)
OnePage ==
    dirty =>
        /\ start + count <= MemSize
        /\ count > 0
        /\ \A i \in 0..(count - 1) : Page(start + i) = Page(start)

(* A call in progress stays inside the memory. *)
CallInside ==
    pc \in {"write", "read"} =>
        /\ call.len > 0
        /\ call.addr + call.len <= MemSize
        /\ pc = "write" => call.len <= Len(call.buf)

DriverInv == BusyIsLast /\ OnePage /\ CallInside

(* Every address belongs to a chip that is fitted. *)
AllFitted == \A a \in Addr : Chip(a) \in Present
=============================================================================
