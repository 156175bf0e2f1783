# A TLA+ verification project for the PCAN-Router Pro FD boot loader

The repository is the firmware of a second-stage boot loader for a
PCAN-Router Pro FD (STM32F765, RTX, lwIP 2.1.2). It receives application
firmware by TFTP, keeps a backup of the firmware it replaces, and rolls back
when the new firmware fails its CRC or is reset by the watchdog. Beside the
loader the repository holds the drivers of the board (EEPROM, Ethernet, CAN) and
the port of lwIP. This project models this code of the repository's own, with the
parts of lwIP and of the HAL it cannot be understood without, model-checks it on
small instances and proves its central safety properties for every instance.

## 1. Inventory

| Part | Source | State it keeps | Operations |
|---|---|---|---|
| Boot decision | `src/src/main.c` 231-307 | none (reads the flags and the flash) | start the application, ask for boot mode, start the kernel |
| Boot flag | `src/src/reset.c` | `RTC->BKP1R`, survives resets | set, clear, read |
| Main thread, watchdog roll-back | `main.c` 122-223, `tftpserver.c` 279-293 | its position; `RCC_FLAG_IWDGRST` | refresh the watchdog, `WDGbackup` |
| TFTP server | `tftpserver.c` | one data pcb with `args->block`, `Flash_Write_Address` | port-69 callback (backup, open, erase), data callback (write, acknowledge, verify, restore) |
| Backup and CRC | `backup.c` | the backup slot | `FLASH_Backup_Erase`, `CAL_CRC` |
| Flash interface | `flash_if.c`, two HAL calls | user and backup slot, the HAL lock | `FLASH_If_Erase`, `FLASH_If_Write` |
| UDP commands | `udp_total.c` | two pcbs | `SOFT RESET`, `RESET`, log messages |
| EEPROM driver | `eeprom.c` | a write-behind page cache, the chip addressed last | read, write, flush, init |
| Ethernet driver | `ethernetif.c`, `stm32f7xx_hal_eth.c` | two DMA rings, the HAL handle and its lock, a binary semaphore | receive interrupt, drain loop, `low_level_output` |
| CAN driver, user layer | `can.c`, `can_user.c` | filter tables, the DMA stream to use next; in the FPGA: modes, options, transmit caches, a central fifo | read, write, filters, initialisation, bus-off handling |
| lwIP port | `sys_arch.c` | none of its own | the clock, timed waits, posts |
| lwIP timers, tcpip thread | `timeouts.c`, `tcpip.c` | the sorted list of timeouts, the mailbox | cyclic timers, wait for a message, packet input |
| Board support | `hardware.c` | registers | LEDs, switches, power hold |
| lwIP, RTX, STM32 HAL, startup | vendored | - | - |

How the parts interact. After a reset `main()` either jumps to the application
in the user slot or starts two threads that matter here. The **tcpip thread**
(AboveNormal) runs every network callback to its end and gives way only where
`udp_client_send` sleeps in `osDelay(1)`. The **main thread** (Normal) rolls
back after a watchdog reset and is the only one that refreshes the watchdog, so
it is starved while the tcpip thread erases or copies flash. Both use the HAL
flash functions, whose lock makes the second caller fail (`HAL_BUSY`), and both
write the user slot. State survives a reset in the two flash slots, the boot
flag and the watchdog reset flag; everything else is lost.

What is hard, and what makes each part correct:

* **crashes**: a reset at any word of an erase or a copy must leave one slot
  with a complete working firmware (`Recoverable`), and since `WDGbackup` never
  looks at the backup, a pending roll-back must have one to copy
  (`RollbackHasSource`);
* **ignored results**: erase, program and backup results are dropped; only the
  read-back in `FLASH_If_Write` stands between a fault and a false "success
  backup" (`BackupIsCopy`), and only the CRC between ignored write failures and a jump
  to what they left (`JumpsToVerified`);
* **order**: blocks and ERROR packets of earlier transfers arrive late; the CRC
  at the end must catch every mixture (`BootsVerified`);
* **interleaving**: a roll-back and an update at once (`BackupIsCopy`); an
  interrupt, a receive thread and two senders that share one HAL handle and its
  lock (`NoLostWakeup`, `RxNeverBusy`, `ReportedGoesOut`); CAN controllers that run
  on between the commands of one call (`FilterKeeps`, `FlushedFirst`);
* **resources**: pbuf pool, mailbox, receive ring and CAN fifo at their limits
  (`RingNotStuck`, `NoPbufLeak`, `OffAnnounced`), one free pcb (`Controllable`);
* **edges**: frames, buffers and pbufs of different sizes (`PacketsIntact`), filter
  ranges set by bits and bytes (`FilterExact`), a clock that wraps elsewhere than
  lwIP's arithmetic (`OnTime`);
* **liveness**: a watchdog reset ends in working firmware, an empty slot in boot
  mode; every EEPROM and CAN call returns; a full ring is drained;
* **a cache before two chips**: reads must see what was written last through
  every write-back, and the driver polls the chip it used last while it is about
  to use another (`MemoryImplemented`, `NeverHangs`, `FlushDurable`).

`PROJECT.json` lists the hazards at their lines, with the properties that cover them or the
reason why none does.

## 2. Modules

| Module | What it is |
|---|---|
| `FlashIf` | slots, cells, erase, programming, what a tag says |
| `Bootloader` | the state machine; extends `FlashIf` |
| `BootHistory` | `Bootloader` with a history variable: was what is in the user slot cut off |
| `MCBootloader`, `MCBootHistory` | small instances for TLC |
| `Bootloader_proofs`, `Bootloader_rollback_proofs` | the theorems; the first extends `Bootloader` and TLAPS, the second the first and `BootHistory` |
| `StableMemory` | what `eeprom.h` promises: a write-behind memory |
| `Eeprom` | the EEPROM driver, shown to implement `StableMemory` |
| `MCEeprom`, `Eeprom_proofs`, `Eeprom_refinement_proofs` | its instances, its theorems and the proof of the refinement |
| `Ethernet`, `MCEthernet` | the Ethernet driver with the HAL and the hand-over to lwIP; instances |
| `Ethernet_proofs`, `Ethernet_frames_proofs` | its theorems: wake-ups and the ring; pbufs, frames and packets |
| `Timers`, `MCTimers`, `Timers_proofs` | lwIP's cyclic timers on this port's clock; instances and theorems |
| `Can`, `MCCan`, `Can_proofs` | the CAN driver and its user layer; instances and theorems |

The five state machines share no variables: the code they model shares none. The
loader uses the network through lwIP, whose behaviour towards it (packets lost,
repeated, late, a pool that runs out) is an input of `Bootloader`.

### FlashIf

A slot is a function from `Cell` to contents. A cell stands for one 512-byte
TFTP block; cell 0 carries the `FirmwareTag`, cell 1 the stack pointer that
`main()` inspects. A content is `Erased`, `<<i, k>>` (cell k of the file of
image i) or `Garbage` (bits of no file: a torn operation, two values programmed
over each other, the text of an ERROR packet). Images differ in what the code
can tell: `Tagged` (valid flag), `CrcOk`, `Ragged` (size not a multiple of
four), `Exact` (length a multiple of 512), their length `BodyCells`, and whether
they are `Working` when run. Programming clears bits only, hence `Programmed`.
`CopyLens` is `(size + 1024) / 4` in a `uint16_t`, scaled to cells: it wraps at
`LenMod` and loses the end of a ragged image. What a damaged tag says is a
nondeterministic choice.

The user slot really is 0x08040000-0x080FFFFF (sectors 5 to 7 are erased) and
the backup slot 0x08100000-0x081BFFFF (8 to 10): the same size and adjacent, so
a write past the user slot continues in the backup (`WriteBlock`).

### Bootloader

| Variables | Code |
|---|---|
| `user`, `backup` | the two flash slots |
| `bkp`, `iwdg` | `RTC->BKP1R`, `RCC_FLAG_IWDGRST` |
| `mode` | `main()` starting, application running, kernel running |
| `tpc`, `opc`, `idx`, `cnt` | where the tcpip thread is, the opcode in hand, its flash loop |
| `sess`, `waddr` | `args->block` of the open pcb, `Flash_Write_Address` |
| `mpc`, `midx`, `mcnt` | the main thread's position and flash loop |
| `pbufs` | free pool buffers |

A callback is split exactly where something else can happen: at each
`udp_client_send` (the main thread may run) and at each sector or cell of a
flash loop (a reset may strike). `MainRuns` is the scheduling rule. The main
thread can be preempted inside a HAL call, so `WdgLock` and `WdgProgram` are
two steps and the tcpip thread then meets the lock (`HalOk`, `HalFails`).
`Tear` leaves any subset of the cells under work as `Garbage`.

`FLASH_If_Write` programs words, a cell has 128 of them. A failure in the middle of a
cell leaves it partly programmed (`Failed`); of a TFTP block it also leaves the write
address inside the cell, so that blocks accepted later lie across two cells and neither
holds a cell of any file (`WriteBlock`, `Spoil`).

`BootHistory` adds `cut`: a loss of power or a reset command came while a transfer or a
roll-back was under way, and no later one has replaced what it left. `main()` checks no
CRC, so these are the cases in which it may start a half-written image
(`BootsVerified`); watchdog resets are not among them, since they end in a roll-back.

The application is external: intact working firmware runs on and answers the
soft-reset command, any other firmware is eventually reset by the watchdog that
`main()` has started.

`Stress` names the adversities an instance admits, so that each run says
precisely under which conditions a property holds: `power`, `starve` and
`starvebk` (the watchdog fires while the user slot, or the backup, is
rewritten), `glitch`, `fault`, `retry` and `race` (port 69 is used while a
damaged or failing image is in the slot, or while a roll-back is pending),
`cmd`. Without `retry` and `race` the operator is trusted to update from working
firmware; without `fault` HAL operations succeed.

`BkpWritable`: nothing in the repository calls `MX_RTC_Init`, which enables
writes to the backup domain. The instances assume that an earlier boot stage
has; with FALSE `main()` resets for ever on an empty slot (see the observations in
section 3). The theorems hold with either value.

Left out: message texts, filenames, acknowledgements (the client is any sender
of any packets), the hidden state of lwIP, `printf`.

### Eeprom and StableMemory

The EEPROM driver shares no state with the loader and is a system of its own.

| Variables | Code |
|---|---|
| `start`, `count`, `dirty`, `data` | `Cache` |
| `last` | the chip in `LastCntlByte`, which `ackpoll` addresses |
| `mem`, `busy` | the chips' contents; addresses in a write cycle (external) |
| `pc`, `call`, `ret` | the call in progress, its position in the loop, the result |

`EEPROM_Read`, `EEPROM_Write` and `EEPROM_FlushCache` start a call; one action per
loop turn or I2C transfer carries it on, so that a reset or a power loss can come
between any two. `Ready(last)` in a guard is a loop around `ackpoll`. A transfer to
a chip that does not acknowledge puts the driver in `hang`: the waits for `TXIS`
have no way out. The chip programs a page with wrap-around (`PageByte`), so a cache
that ran over its page would overwrite the page's start. A power loss may damage
every byte in a write cycle. A reset outlasts a write cycle (10 ms at most, and the
start-up before `EEPROM_Init` takes longer), so `EEPROM_Init` meets idle chips.

`Present` is the set of chips fitted (the second one sits on the PHY board).
`Overwrites` says whether callers write bytes again that are still in the dirty
cache; without it they are trusted not to, because such a write is lost
(see the observations in section 3).

`StableMemory` knows no pages, chips or cache: writes are pending, become durable
all at once at some time, settle, and are settled when a flush returns. The
refinement maps `durable` to `mem`, `pending` to the bytes of a dirty cache,
`settling` to `busy` and `req` to `call`. A reset or power loss loses exactly the
pending writes, and damages only what is settling.

Left out: a NULL buffer, and `addr + length` wrapping at 2^32 (it would pass the
check at line 301; the memory has 2^19 bytes and callers with buffers of 4 GB do
not exist). In the repository `hardware.c` calls
`EEPROM_Init` and `low_level_init` (`ethernetif.c` 292) reads the MAC address from the
second chip; the library is meant for applications too, so the model's callers are
any callers, one call at a time, as `eeprom.h` asks.

### Ethernet

| Variables | Code |
|---|---|
| `rxd`, `rxdma`, `rxframe`, `rflag` | receive descriptors and buffers; where the DMA is, the frame it stores, `DMASR.R` (external) |
| `irq`, `sem`, `lock` | the interrupt handler, `s_xSemaphore`, `heth.Lock` |
| `RxDesc`, `FSRxDesc`, `SegCount`, `length` | `heth.RxDesc`, `heth.RxFrameInfos` |
| `rpc`, `copy`, `released`, `hand` | `ethernetif_input` and the locals of `low_level_input` |
| `pool`, `mbox`, `inp` | free pbufs, `tcpip_mbox`, the packet the tcpip thread works on |
| `TxDesc`, `txd`, `txdma`, `out` | `heth.TxDesc`, transmit descriptors and buffers, where the DMA is, each thread's `low_level_output` |
| `reported`, `wire`, `starved` | history: frames reported as sent, frames sent, whether an allocation failed |

Four contexts take steps by priority: the interrupt, the receive thread (Realtime),
the tcpip thread, the main thread; the two DMAs run beside all of them. A context is
split where another one can come between: at every descriptor given back, at every
access to the lock, `TxDesc` and the OWN bits. The scan of
`HAL_ETH_GetReceivedFrame_IT` is one step, because only the DMA runs beside it and a
descriptor it closes during the scan could as well have been closed before or after.
`__HAL_LOCK`, which tests and then sets, is one step too: whoever comes in between has
opened the lock again when the sender goes on. The main thread runs while the tcpip
thread waits for a packet or sleeps in `udp_client_send` with one in hand (`Runs`).

A frame is a sequence of cells, each of which knows its frame and its place, so that
`PacketsIntact` can tell any mix-up. The DMA cuts a frame short when it runs into a
descriptor it does not own. Left out: `heth.State`, which nothing on these paths
tests; the flags `RBUS` and `TUS` and the poll demands they trigger (the DMA also
resumes with the next frame, and store-and-forward mode excludes an underflow); the
four bytes of the CRC taken off the length at `stm32f7xx_hal_eth.c` 1133; the loop of
`low_level_output` for frames longer than a buffer, which `netif->mtu` excludes
(`LowLevelOutput` has the bound as a conjunct).

### Timers

`list` is the chain at `next_timeout`, sorted by `TIME_LESS_THAN` at insertion; `pc`
follows `sys_timeouts_init` and then the tcpip thread through
`tcpip_timeouts_mbox_fetch`, `sys_arch_mbox_fetch`, `sys_check_timeouts` and
`lwip_cyclic_timer`. `Tick` is the kernel's tick, `Message` a message that ends the
wait. The tcpip thread can be kept from running for `Lag` ticks between two waits,
which stands for threads of higher priority and for the time its handlers take.
`W` is the width of the counters and `D` the ticks per millisecond; milliseconds and
ticks wrap at `W`. The real values are 2^32 and 5. `up` and `called` are history.
Left out: `sys_untimeout`, `sys_restart_timeouts` and the TCP timer, none of which the
loader uses.

### Can

| Variables | Code |
|---|---|
| `StdFilters`, `dma_idx` | the statics of `can.c` |
| `prepared` | DMA streams whose registers are set up |
| `filter`, `ctl`, `cache`, `flush`, `fifo` | the controllers in the FPGA (external) |
| `call`, `booted`, `buff` | the call in progress and its locals, the calls of `CAN_UserInit`, the reader's buffer |
| `want`, `setup`, `lost`, `queued`, `taken` | history: what the calls asked for, records discarded, queued and delivered |

A call is split at the commands it writes to a controller, since the controllers go on
between them: they receive, go off, empty their caches. `Chunk` and `SetBits` are the
three loops of `CAN_FilterAdd` and `CAN_FilterRem`; `WriteWord` one turn of the loop
over the 64 words, which in `CAN_FilterReset` also clears the table. `ResetMode`,
`FlushStart`, `FlushEnd`, `SetOptions`, `ClearForce20` and `RunMode` are the commands of
`CAN_Initialize`; the clock and timing values are abstracted to whether `can_clk` is
known. A comment in `can_user.c` (line 54) says that `CAN_UnInitialize` includes a flush
of the transmit path; it does not, but `CAN_Initialize`, called next, does.
The repository itself calls only `CAN_Startup` and `CAN_UserInit`; the driver is there
for applications, so the callers of the model are any callers, one call at a time.
`CAN_UserInvokeBootloader` (jump parameters and a reset) is left out, and so are the
contents of messages and the pause records of `CAN_Write`.

## 3. Runs

Instances: files v (one cell after the tag) and w (two) work, h hangs and fills
its blocks exactly, b has a wrong CRC, r has no tag; slots of four cells in two
sectors; the word count wraps at four cells; three pool buffers; error codes 0
and 1 (one that is the next block number, one that is not). Four cells is the
least at which a two-cell image, a sector boundary inside an image and an unused
cell occur together; three buffers suffice for a leak, a chained packet and an
empty pool.

| Run | Admits | Shows |
|---|---|---|
| `boot_recover` | power, starve, cmd | `Recoverable`, `RollbackHasSource`, `RollbackComplete`, `BootsVerified`, the inductive invariant `IInv`, `TypeOK` |
| `boot_fault` | all but retry and race | `BackupOnlyWorking`, `JumpsToVerified`; two images, slots of three cells, to keep the many failures tractable |
| `boot_race` | everything | `BackupIsCopy`; as `boot_fault`, with one pool buffer |
| `boot_live` | starve, cmd, fair | `WatchdogRestores`, `NoFirmwareReachesBoot`, `CrcSameJumps` |
| `eeprom` | resets, power losses; no overwriting; fair | `MemoryImplemented` (refinement), `NeverHangs`, `FlushDurable`, `CallReturns`, `TypeOK` |
| `eth` | one sender, fair | `NoLostWakeup`, `RingNotStuck`, `RingDrains`, `RxNeverBusy`, `PacketsIntact`, `NoPbufLeak`, `ReportedGoesOut`, `TypeOK` |
| `timers` | messages and lags anywhere, up to the wrap | `AllTimersListed`, `OnTime`, `NoDrift`, `TypeOK` |
| `can` | all calls, all events, fair | `FilterExact`, `FilterKeeps`, `RunsAsSet`, `FlushedFirst`, `OffAnnounced`, `ReadOnce`, `CallReturns`, `Recovers`, `TypeOK` |

Instances. *EEPROM*: four bytes in pages of two, one page per chip, two chips, and
buffers of up to two bytes: a call can cross a page and a chip boundary, start in the
middle of a page, and find the other page in the cache. *Ethernet*: three receive and two
transmit descriptors; buffers of three cells, pbufs of two; frames of one and of five
cells (one buffer, and two with the last not full), three frames and three sends; three
pbufs, a mailbox of one and two messages. So the ring fills in the middle of a frame, a
frame is cut short, every resource runs out, and both rings wrap. *Timers*: 2^8 and 3 for
2^32 and 5, intervals of 1 and 5 ms and a lag of 4 ticks, more than one interval and less
than the other; 250 ticks, just below the wrap, or 400 in `timers_wrap`. *CAN*: two buses,
eight identifiers in words of four and bytes of two, ranges with ends inside and at the
boundaries; a transmit cache of one record and a fifo of two, so that both overflow; two
calls after `CAN_UserInit` and three events.

The run `boot_live` and those of the bounded modules do not check for deadlock: with the
pool empty the loader idles for ever, and the other modules stop at their bounds.

Runs that refute a statement of the repository, each with its quotation under
`findings`:

| Run | What the code does |
|---|---|
| `boot_retry` | copies a damaged or half-written image over the backup |
| `boot_starved_backup` | the watchdog fires while the backup is rewritten; the roll-back then destroys the intact user slot |
| `eth_senders` | with two sending threads, reports a frame as sent that was refused or overwritten |
| `timers_wrap` | the clock jumps back when the ticks wrap; timers are no longer called |

More observations, which are not runs of their own; each can be reproduced by changing
a constant or the property of a run:

| Start from | Change | What fails, and why |
|---|---|---|
| `boot_race` | `Ragged = {v}` | `BackupIsCopy`: the backup of an image whose size is no multiple of four lacks its last bytes and is still taken for successful |
| `boot_recover` | `fault` added to `Stress` | `Recoverable`: a backup that failed is only logged (`tftpserver.c` 375), and the update erases the firmware it was to save |
| `boot_recover` | `~cut` left out of `BootsVerified` | a `RESET` command between two blocks (`udp_total.c` 44), or a loss of power, makes `main()` start a half-written tagged image |
| `boot_fault` | `race` added to `Stress` | `JumpsToVerified`: the main thread erases for its roll-back while the tcpip thread sends "CRC same" |
| `boot_recover` | `Stress` = `retry`, check `WholeFileReceived` | a stale short block or an ERROR packet ends a transfer whose file is not complete (`tftpserver.c` 236; the comment at 232 says that the whole file has been received) |
| `boot_recover` | `Stress` = `retry`, `race`, check `Controllable` | returns without `pbuf_free` (`tftpserver.c` 193, 402) empty the pool until nothing can be received |
| `boot_live` | `Stress` = `race` | `CrcSameJumps`: an update finished while a roll-back is pending is announced as a jump to the new firmware and then rolled back |
| `boot_live` | `starve` and `cmd` for ever: `iwdg ~> AppWorks` alone | each roll-back is cut off before its end |
| `boot_live` | `BkpWritable = FALSE`, `Stress` = `glitch` | `NoFirmwareReachesBoot`: the boot flag is not set, and `main()` resets for ever |
| `eeprom` | `Overwrites = TRUE`, check `WriteTakesEffect` | a byte written again while it is in the dirty cache keeps its old value (`eeprom.c` 414) |
| `eeprom` | `Present = {0}` | `NeverHangs` and `CallReturns`: an access to a chip that is not fitted never returns, although `eeprom.h` has the error `EEPROM_ERR_ILLDEVICE`; the first such access is the MAC address in `low_level_init` |

Every property of a passing run has a mutant: a plausible slip in one
definition, written just before it ("Mutant of ..."), under which TLC refutes
the property.

Fairness (`FairSpec`): weak fairness of `BootStep` (`main()` goes on), `TcpipStep`
and `MainStep` (RTX runs the highest ready thread, and the tcpip thread sleeps
between packets) and `AppHangs` (the watchdog hardware). Packets, commands and
resets are never owed, and `WatchdogRestores` speaks of runs in which watchdog resets in
boot mode and reset commands end some time. In `Eeprom`, weak fairness of `DriverStep` (polling code that
nothing stops) and of `CycleEnds` (the chips end a write cycle by themselves); no
call, reset or power loss is owed. In `Ethernet`, weak fairness of the interrupt and the
receive thread taken together: they have the highest priorities, so nothing keeps the
processor from them; frames, the other threads and the DMA owe nothing. In `Can`, weak
fairness of `Driver` (straight-line code and one loop) and of the hardware's part of a
flush, which the loop at `can.c` 592 waits for. `Timers` needs none: `OnTime` is an
invariant over ticks.

## 4. Proofs

`Bootloader_proofs` proves, for all images, slot sizes, sector layouts, wraps
and pool sizes that satisfy `FlashAssumption` and `BootAssumption`:

* `TypeCorrect`: `Spec => []TypeOK`, under every adversity.
* `InvariantHolds`, `AlwaysRecoverable`, `RollbackSafe`: `Spec => []IInv`,
  `Spec => []Recoverable` and `Spec => []RollbackHasSource`, assuming `WellMade` (working images carry a tag,
  are whole words long and fit the 16-bit count; every file fits the slot) and
  `Calm` (no adversity but `power`, `starve`, `cmd`). Each excluded condition is
  one a violation run, an observation in section 3 or a listed hazard shows to be needed.
* `BackupHonest`: `Spec => BackupIsCopy`, under every adversity, assuming only
  `WholeWords` (tagged images are whole words long and fit the count).

`Recoverable` is not inductive: that some slot is good says nothing about which
one a step may overwrite. `IInv` adds, for each point of an update, which slot is
the good one: while the backup is rewritten the user slot works and the copied
cells equal it (`BackupPhase`); from the moment a session opens the backup is good
(`UpdatePhase`); the roll-back runs only with the flag up and never beside an
update (`Separation`); accepted blocks stay inside the user slot (`WriteBound`).
The proof has one lemma per group of actions (`BootStepsInv`, `PacketInv`,
`BackupStepsInv`, `UpdateStepsInv`, `MainStepInv`, `CrashInv`); most of them
reduce to `GoodBackupSuffices`: a step that keeps a good backup keeps the
invariant. For `BackupHonest` the invariant is `CopyPhase`, which survives every
adversity because nothing else runs while the copy is made.

`Bootloader_rollback_proofs` adds what the loader puts into the slots:

* `RollbackWorks`: `Spec => RollbackComplete`, assuming `WellMade` and `Calm`. The
  invariant `RollbackPhase` says how far a roll-back is: the sectors below the index are
  erased, or the cells below it are those of a working backup and the others erased. It
  uses `IInv` for the backup that the roll-back starts from.
* `BackupWorthKeeping`: `Spec => BackupOnlyWorking`, assuming `Trusted` (no update is
  started over damaged firmware or while a roll-back is pending, and every file fits the
  slot). Flash faults, glitches, power loss and a watchdog reset in the middle of a
  backup are all allowed, so `IInv` cannot be used; `BackupSource` is the part of
  it that survives them.
* `VerifiedJumps`: `Spec => JumpsToVerified`, assuming only that no update is begun while a
  roll-back is pending (`race`). The CRC is compared before a message is sent, in which time the
  main thread runs; `Compared` says that the slot stays what it was, because `Separation` keeps
  a roll-back out. No assumption on the images or on the other adversities.
* `OnlyVerifiedBoots`: `HistorySpec => []BootsVerified`, assuming `WellMade`, `Calm` and
  `HonestTags` (working firmware states its CRC). `main()` checks no CRC, so
  this rests on what a transfer leaves behind: `VerifyPhase` says that the blocks accepted so
  far are followed by erased cells only and that the tag is not damaged, so a mismatch at
  the end is always found; while it is repaired the watchdog flag or the session keeps
  `main()` from starting what is there. A power loss or a reset command takes that
  protection away, and `cut` records it; `PowerLossVerified` shows that a power loss between
  transfers does no harm.

`Eeprom_proofs` proves, for every page size, number of pages and of chips:

* `EepromTypeCorrect`: `Spec => []TypeOK`; the cache never outgrows its page.
* `FlushSafe`: `Spec => FlushDurable`.
* `DriverNeverHangs`: `Spec => []NeverHangs`, assuming `AllFitted` (every address
  belongs to a chip that is fitted).

The inductive invariant is `TypeOK /\ DriverInv`. Its heart is `BusyIsLast`: only the
chip used last can be in a write cycle. It is inductive because every transfer first
waits until that chip is ready, so nothing is busy when another chip is addressed
(`ReadyIsQuiet`), and because a write-back stays on one chip, which needs `OnePage` (a
dirty cache holds bytes of one page) and `CallInside`. `NoPageWrap` derives from them
that the chip never wraps.

`Eeprom_refinement_proofs` proves `DriverImplementsMemory`: `Spec => MemoryImplemented`, assuming
`~Overwrites` (nobody writes a byte again while it is in the dirty cache; the hazard at
`eeprom.c:414` is what happens otherwise). `StableMemory`'s steps are shown one by one
(`SimInit`, one lemma per action, `SimStep`) from `RefInv`: a clean cache holds what the chips hold
(`CleanIsMemory`), the call in progress is the one the program counter says (`CallMatches`) and a
write in progress does not come back to cached bytes (`WriteIsFresh`). The step that matters
is the write-back: `WrittenIsPending` shows that the chip gets exactly the bytes waiting, each
at its address.

`Can_proofs` proves, for any number of buses, of identifiers, any word and byte size, any
ranges, settings and capacities: `CanTypeCorrect`, `FilterIsExact`, `FilterNeverBlinks`,
`ControllersRunAsSet`, `NothingStaleSent`, `BusOffAnnounced` and `RecordsReadOnce`, one for
each safety property of `can`. The inductive invariant `IInv` has a part per concern.
`FilterInv` says where a call that changes a filter is: what the bits set so far and the
range still to be set make up (`"bits"`), then which words the controller has already
(`"words"`). `SetupInv` says what is known at each command of `CAN_Initialize` about the
options that are set. `FlushInv` ties a flush to the loop that waits for it. `ReadInv` says
that the stream to be started is the one that is prepared. Only the filter part needs
arithmetic (`Chunk` never passes the end of the range; the words cover all identifiers).

`Timers_proofs` proves, for any timers, intervals, lag, width and any pool with an entry per
timer: `TimersTypeCorrect` and `NoTimerLost`, the wrap of the clock included, so the loss
of time that `timers_wrap` shows never becomes a loss of a timer. `AllTimersListed` is not
inductive, since a timer could find the pool empty: the invariant counts the entries
(`Taken`), all but one of which are in use when a handler starts its timer again.
The lemmas `Least`, `Inserted` and `PlaceInList` establish what the insertion into the
sorted list does.

It also proves, below the wrap, the two properties of time:

* `TimersOnTime`: `Spec => []OnTime`, and
* `TimersDoNotDrift`: `Spec => []NoDrift`, both assuming `BeforeWrap`: the run ends before
  the tick counter wraps (`MaxUp < W`), no timeout is due further ahead than half the width
  (`MaxUp \div D + Interval[t] < W \div 2`, so that `TIME_LESS_THAN` compares), and no wait is
  as long as `osWaitForever` (`Interval[t] * D < W - 1`). With the code's 2^32, 5 and intervals
  of at most 60 s that is every run up to the wrap; `timers_wrap` shows that it is needed.

`OnTime` speaks of the last call of a timer and so says nothing of why the next one will be in
time. `TimeInv` does: nothing in the list is due further ahead than its interval, nor further
from the timer's last call than that and a lag (`Timely`); the list is sorted (`Sorted`), so the
first timeout bounds the wait; the wait ends when that one is due, up to the rounding and to
the ticks between the two readings of the clock (`Waiting`); so the thread is never further
past a due time than its lag allows (`Reached`). The three lags of `OnTime` are the ticks
between the last call and the timer's restart, those between reading the clock and waiting,
and those after the wait. `OnGrid` is `NoDrift` for one timeout: `lwip_cyclic_timer` adds the
interval to the due time, not to the present (`NextOnGrid`), and `CyclicTime` shows that with
an interval of more than two lags it never takes the branch that starts from the present.
The arithmetic is in `Compared` (the modular comparison is `<` within half the width),
`Divided` and `DividedGrows`.

`Ethernet_proofs` proves, for receive rings, buffers, pbufs, pools and frames of any size and
any senders: `NoWakeupLost`, `RingNeverStuck` and `ReceiveNeverBusy`. None of the three
properties is inductive. `EthIInv` adds where a wake-up is while it is under way: the handle
is open whenever the receive thread could run (`LockInv`); the callback's token is still
there at the end of the interrupt (`TokenInv`), so clearing `DMASR.R` there loses nothing,
even when another frame has set it meanwhile; a waiting thread that could find a frame has
an interrupt or a token (`WakeInv`); a full ring holds the end of a frame and somebody is on
the way to it (`FullInv`); only a failed allocation leaves the thread without a pbuf
(`ThreadInv`, which needs that a frame and so every copy has at least one cell, `CellsInv`).
The two steps that matter are `DmaStores`, where a segment that is not the last leaves the
next descriptor to the DMA, so no scan can go past it, and `GetReceivedFrame`, where a scan
without a frame stops at a descriptor of the DMA or has been all around. The lemmas before
them are about walking the ring (`Walk`, `Around`) and about what a scan finds (`ScanFinds`,
`ScanStops`, `FullHasFrame`).

`Ethernet_frames_proofs` proves, for the same constants:

* `PbufsBalance`: `Spec => []NoPbufLeak`. The property is inductive only once the counts are
  known to be naturals (`PbufInv`), and the pbufs waiting in the mailbox are a sum over a
  sequence: the lemmas from `SumsAgree` to `TotalTail` establish what the fold computes when a
  message is put or fetched.
* `TypeCorrect`: `Spec => []TypeOK`. The copy loops of both directions need to know what is
  still to be copied (`CopyCount`, `SendFits`) to stay inside a buffer, a pbuf and a descriptor.
* `NothingReportedIsLost`: `Spec => []ReportedGoesOut`, assuming `OneSender`. `SentInv` follows
  one call of `low_level_output`: the descriptor it found free stays free and is the HAL's
  next one, the buffer holds what has been copied so far, and from the moment the DMA owns
  the descriptor the frame is on the wire or there. With two senders the property fails,
  as `eth_senders` shows.
* `PacketsArriveIntact`: `Spec => []PacketsIntact`, whoever sends. The property speaks of chains
  that are complete; `PacketInv` says where their cells come from. It reads the ring as a
  window: from some descriptor on, `c` descriptors are closed, the first `h` of them scanned
  and not yet released, all others the DMA's. Every closed descriptor holds a segment of a
  frame (`Segment`) that the next one continues or that ends there (`Follows`); the DMA stores
  at the end of the window (`Arriving`), the handle's descriptors are inside it (`Marks`), a
  scan has found the beginning or the whole of one frame (`Scan`), the copy loops have read
  its first cells and know where the next one is (`Copied`), and chains in hand or with lwIP
  are older than anything in the window (`InHands`, `Chains`). One lemma per action moves
  the window: `DmaStores` adds a segment (`WindowAppend`), `ReleaseDesc` drops one
  (`WindowDrop`), the others leave it. What holds it together is that a scan goes past no
  end of a frame and never past the window, even when the ring is full (`ScanWindow`).

Only model-checked: liveness, which is out of the prover's reach, and everything on the
violation runs.

## 5. Not modelled, and the plan

Modelled: the repository's own code that keeps state, except for what the notes of the
components marked `partly` in `PROJECT.json` name. What the plan has left:

1. A TFTP client composed with `Bootloader`, with timeouts and lost acknowledgements; at
   present the client is any sender of any packets.
2. Instances with an oversized file (a transfer running into the backup slot).

Left out for good:

* lwIP apart from its timers and the packet input, RTX, CMSIS, the STM32 HAL apart from
  the flash and Ethernet functions the drivers call, and the startup code. They are
  third-party code, vendored whole: some 180,000 of the repository's 190,000 lines, most of
  which are register definitions, inline wrappers and protocols (TCP, PPP, IPv6, HTTP) that
  the loader does not even link. Their limits and scheduling rules appear in the modules.
* `hardware.c`, `ethernetif_enter_sleep`, the PHY and link callbacks and
  `CAN_UserInvokeBootloader`: register accesses without a protocol.
* The wrappers of `sys_arch.c` around single RTX calls.
* The stack overrun in `udp_receive_callback`, whose outcome depends on the stack layout.
