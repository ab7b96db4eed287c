# A TLA+ model of MaldOS (uARM_pienv)

MaldOS is a hardware abstraction layer for the Raspberry Pi 3. It boots the four
cores, emulates printers, tapes and disks for a student's kernel, and passes
interrupts and system calls on to that kernel. These modules model the parts of it
where things happen in an order nobody chose: the emulated devices, their timers
and the two interrupt handlers that share them, the exception vectors and the
switching of processes, the start of the four cores, the SD card and its files, and
the example application that runs on all of that.

## The system

| part | state | operations | talks to |
|---|---|---|---|
| device timers (`source/emulated/emulated_timers.c`) | free and pending lists of 20 `timer_t` | `add_timer`, `next_timer`, `next_pending_timer` | called by the FIQ handler |
| printers (`emulated_printers.c`) | registers, character, cursor | RESET, ACK, READ_REGISTERS, PRINT_CHAR; completion | interrupt lines, device timers, frame buffer |
| tapes (`emulated_tapes.c`) | registers, head position, marker under the head | RESET, ACK, READ_REGISTERS, SKIPBLK, BACKBLK, READBLK; completion | the same, and files on the SD card |
| disks (`emulated_disks.c`) | registers, position of the heads | RESET, ACK, READ_REGISTERS, SEEKCYL, READBLK, WRITEBLK; completion | the same |
| FIQ handler (`interrupts.c`, `vectors.S`) | interrupt lines, virtual timer | mailbox half, timer half, `set_device_timer`, `clean_interrupt_lines` | everything above; the physical timer |
| IRQ handler and `setTIMER` (`interrupts.c`) | `scheduled_physical_timers`, physical timers | `c_irq_handler`, `setTIMER`, `clean_interrupt_lines` | interrupt lines; the kernel |
| frame buffer (`lfb.c`) | pixels | `lfb_send`, `terminal_grid` | printers |
| boot and cores (`init.S`, `bios_main.c`, `asmlib.S`) | spin table, `CoresReady`, `wait_lock` | release of the cores, `CoreExecute`, the spin loop, `WAIT`; `initSystem` | all |
| context switch (`asmlib.S`, `vectors.S`, `interrupts.c`) | old areas, registers of each level, the stack of EL2 | `LDST`, `STST`, `STST_asm`, `pushRegisters`, the exception entries, `c_swi_handler` | kernel, handlers |
| FAT32 (`hal/fat.c`) | cached sector of the table | `fat_readfile`, `fat_writefile`, `fat_transferfile` | tapes, disks, SD card |
| SD card (`hal/sd.c`) | what the driver knows of the card; the card itself | `sd_init`, `sd_cmd`, `sd_clk`, `sd_transferblock` | FAT32 |
| example application (`example/source/app_main.c`) | two processes, `current`, `semaforo`, register blocks on stacks | `test1`, `test2`, `term_putchar`, `testTape`, `testDisk`; `main`, `interrupt`, `synchronous` | mailbox of core 0, interrupt lines, `setTIMER`, `LDST` |
| GPU mailbox, UART, GPIO, MMU, utilities | device registers | input and output | - |

A client writes the address of a register block, with the device in its low bits,
to mailbox 0 of core 0. That is a FIQ: `c_fiq_handler` runs the command's first half
(accept, refuse, answer) at once, and arms a device timer for the second. All device
timers share the virtual timer of core 0, which is a FIQ too: `c_fiq_handler` then
completes what has expired, copies the registers to the client's block, raises an
interrupt line in memory, and makes the *physical* timer fire at once. That one is
an IRQ: `c_irq_handler` looks at the lines and enters the kernel. The kernel's own
`setTIMER` uses the same physical timer. FIQs go to EL2 and are not masked by
anything that runs at EL0 or EL1, so that they preempt `c_irq_handler` and
`setTIMER` between any two instructions; IRQs are taken at EL0 only.

What makes it hard: two interrupt handlers at different levels and the kernel share
bytes in memory without atomic operations; one virtual timer serves twelve devices,
and one physical timer serves both the kernel and the delivery of device
interrupts; commands of several clients interleave with resets and errors while a
timer of an earlier command is still running; cores count themselves, are called
and go to sleep with loads, stores and events only; FIQs come between the steps of
the vectors; the SD card may lose a command, an answer or data at any time; and the
example lets two processes and its kernel use the same devices.

What makes each part correct: a timer is never lost, late or doubled; a busy device
stops being busy and tells its client and the kernel; every message is answered;
an interrupt, once raised, reaches the kernel; a time asked for with `setTIMER`
comes; the tape head and the printers' cursors stay where they belong; what an
exception interrupts is saved completely; no core is counted or called twice, or
forgotten; a transfer reports a length only when that was moved; and the example's
processes wait for what they think they wait for.

## Modules

| module | models |
|---|---|
| `DeviceTimers` | abstract: at most one deadline per device, queries name an earliest one |
| `EmulatedTimers` | `emulated_timers.c`: two linked lists as sequences, each turn of a loop a step; implements `DeviceTimers` |
| `EmulatedTimersProofs` | theorems about it |
| `EmulatedIO` | what the devices share: registers, clients' blocks, interrupt lines, `set_device_timer` |
| `EmulatedPrinters`, `PrinterWindow` | `emulated_printers.c`; the cursor arithmetic of `printer_send` as operators |
| `EmulatedTapes`, `EmulatedDisks` | `emulated_tapes.c`, `emulated_disks.c` |
| `FiqHandler` | composes the three classes with `c_fiq_handler` and the clients of core 0 |
| `IrqHandler` | extends `FiqHandler` with `c_irq_handler` and `setTIMER` of every core |
| `InterruptsProofs` | theorems about `FiqHandler` and `IrqHandler` |
| `FatFiles` | `hal/fat.c`: reads and writes of files through cluster chains and the cached sector of the table |
| `DeviceFiles` | the offsets at which tapes and disks call it |
| `DeviceFilesProofs` | theorems about both |
| `Terminals` | the four windows of the printers, and the pixels that `lfb_send` writes at linear addresses |
| `TerminalsProofs` | theorems about it |
| `BlockTransfers` | abstract: a call moves the blocks it names, in order, and reports its length only if all were moved; a block that is written is on its way first, and may be lost when the call has returned |
| `SdCard` | `hal/sd.c` on a card with the states of the SD protocol; implements `BlockTransfers` |
| `SdCardProofs` | theorems about it |
| `ContextSwitch` | `vectors.S`, `LDST`, `STST_asm`, `STST_asm_el2`, `pushRegisters`, `c_swi_handler`, the end of `c_irq_handler`, and the kernel's switching of two processes, register by register |
| `ContextSwitchProofs` | theorems about it |
| `Cores` | `init.S`, `CoreExecute`, `bios_main`, `WAIT`: one instruction that touches a shared word per step |
| `CoresProofs` | theorems about it |
| `Application` | extends `IrqHandler` with the processes and the kernel of the example, statement by statement |
| `ApplicationProofs` | theorems about it |
| `MC...` | instances for TLC |

Definitions keep the names of the functions they model. The choices behind them:

* **Timers.** `EmulatedTimers` walks the loops of `removeTimerType` and
  `insertTimer` node by node. The devices then use the abstraction: `EmulatedIO`
  has a function `deadline` instead of lists, which is `DeviceTimers`' state.
  The refinement checked by `MCEmulatedTimers` is what justifies this.
* **Time** is the microsecond clock `getTOD()`. An ARM timer is the time at which
  it fires, or `Off`. The conversion to ticks is left out.
* **Blocks.** Of a client's register block only `status` and `mailbox` are kept,
  the two fields that clients wait on. `Post` clears `mailbox` as `term_putchar`
  does, before it posts any command of any device.
* **FIQ handler.** It cannot be preempted, so its steps are split only where time
  matters: `FiqEnter`, `FiqMailbox`, `FiqTimer` (reads `currentTime`), `FiqPop` (one
  turn of the loop), `FiqRearm`, `FiqClean`. Time passes between them, since
  `set_virtual_timer(next.time - currentTime)` counts from the moment it runs.
* **IRQ handler and `setTIMER`** are split at each load and store of the interrupt
  lines and between reading the clock and arming, because a FIQ can come there. In
  `clean_interrupt_lines` the FIQ handler's copy is one step and the IRQ handler's
  is a load and a store per byte. `mode` is what a core runs beneath the handlers.
* **tmp** of `c_irq_handler` is uninitialized on cores other than 0: `IrqEnter`
  chooses. **head** of `update_tape_head` is uninitialized when the read of the SD
  card fails (`SdFaults`) or lies beyond the file: `MarkersRead` chooses, and the
  history variable `misread` keeps that the card has failed there.
* Error paths that cannot be taken are left out: `fat_readfile` and
  `write_disk_block` never return a negative number, so that the READ_ERROR of
  disks and the first one of tapes, and WRITE_ERROR, never occur.
* **Files.** `FatFiles` counts in words of 4 bytes, since every offset and length
  is a multiple of 4. One step is one transfer of the SD card, one turn of
  `fat_transferfile` along the chain, or one `memcpy`; a word of the card is the
  place it was at first, or the place in what a caller wrote. The card has any
  layout in `Chains`, and the table follows from it. A transfer of data that fails
  reads nothing and writes some of the sectors. `FatFiles` assumes what the code
  takes for granted: that the buffer of 4096 bytes holds a cluster and what a write
  puts past it (with clusters of 4 KiB, it does not: the copy runs past the buffer),
  that no cluster has a number from 0xFFF8 on, and that the partition is recognised.
  `EmulatedTapes` and `EmulatedDisks` keep only whether a transfer succeeds.
* The interrupt mask is a constant set of lines, and `bios_main` starts the
  application in kernel mode. The kernel's interrupt handler is assumed installed.

* **SD card.** Which registers of the controller are busy is represented by what the
  code does next; `sd_status` and `sd_int` either succeed or time out. A command may
  be lost on the way, executed without an answer, or answered with an error. The
  card is external: it has the states of the protocol that the code leads through,
  answers only what is legal there, may take any number of tries to power up, and
  programs a written block some time after it has taken it, which is what the wait
  for `SR_DAT_INHIBIT` at the start of each transfer is for. `sending` is the block in
  the FIFO: the code goes on when that is filled, so that the card takes or loses the
  block (`Take`, `Lose`) while the code does something else, after the call has
  returned too. `errors` stands for the error bits of INTERRUPT, which `sd_status`
  refuses to go on with and only a failing `sd_int` clears. `sd_cmd` is one step: an
  error that comes between its `sd_status` and its store to INTERRUPT (line 163), which
  would drop it, is left out. A block is one value. `FatFiles` uses the contract that
  `SdCard` is shown to implement: a transfer that fails has moved some first part of
  its blocks. What is lost after a call has reported its length is not in `FatFiles`:
  with the code as it is, every later call on the card fails then.
* **Context switch.** A state is the 35 words of `state_t`; a value is told apart by
  the program and the register it was in at first, so that a word that lands in
  another register is seen. C code leaves `Junk` in registers. What the assembler
  pushes and pops within one routine is folded into it, since FIQs use the stack of
  EL2 and leave that of EL1 alone; the frames that FIQs themselves push are kept.
  Which address space TTBR0 selects is left out.
* **Cores.** wfe waits for an event register that sev sets on all cores; wfi ends
  with an interrupt only if the core is in it already. The stores of
  `start_kernel_core0`, which no barrier follows, are in a buffer (`buffered`) until
  the other cores see them, and its `sev` may be seen first; those of `CoreExecute`
  have a `dsb`, and those to `CoresReady` are seen in the order of the program, since
  nothing but their value depends on them. The three releases of
  `start_kernel_core0` are one action with the core as a variable. The firmware's spin loop is external.
* **Application.** Statements without effect on other parts (printing on the UART,
  delays, counters) are left out, consecutive waits on the same block are one, and
  strings are endless. `test2`'s system call and its interrupt of core 1 are left out
  (the former is in `ContextSwitch`). Register blocks are constants, one per local
  variable. The kernel's handler ends in an `LDST` that is taken to work: that it does
  not restore every register is the matter of `ContextSwitch`.

## Runs

All runs finish within five minutes, the longest (`MCFiq`, `MCIrq`, `MCSdCard`) in
two to three; the two that stop at a violation within seconds. Deadlock checking is off
wherever the system may stop: where the clock or the number of calls is bounded, and in
`MCSdCard`, where `sd_init` may fail.

| run | shows |
|---|---|
| `MCEmulatedTimers` | 3 blocks, 3 devices: type, partition, order, one timer per device, no exhaustion, refinement of `DeviceTimers` |
| `MCFiq` | a printer, a tape of two blocks and a disk on one virtual timer, and a disk that is not installed, with failing reads of the card, all commands but the ACK of disks, at the end of the tape too: `BusyArmed`, `TimersServed`, `HeadShowsMarker`, `CompletionTold`, `LinesKept`, `Answered`, and under fairness `BusyEnds` |
| `MCIrq` | core 0, a tape, and a printer masked as in the example application: `DeliveryArmed`, `ScheduledServed`, and under fairness `Delivered`, `TimerComes` |
| `MCIrqCores` | two cores, the second with an uninitialized `tmp`: `ScheduledServed` |
| `MCTerminals` | a display of the real width with windows of six and five rows: `CursorsInWindows`, `PrintersApart` |
| `MCDeviceFiles` | a tape and a disk file in three layouts, on a card whose transfers of data fail: `ReadsTheFile`, `WritesInside`, `CacheIsTable`, and under fairness `CallsReturn` |
| `MCContextSwitch` | two cores, two processes, three system calls and IRQs, any number of FIQs: `SyscallSaved`, `InterruptSaved`, `ProcessesKept`, `FiqTransparent` |
| `MCCores` | cores 0 to 2, two calls by a client, two interrupts that enter the kernel on core 0 or 1: `ReadyCounted`, `CalledOnce`, `WaitReturns`, and under fairness `Acknowledged`, `CallTaken` |
| `MCSdCard` | cards of both capacities, with and without block counts and a wide bus, hosts of both kinds, every fault: `InitAgrees`, refinement of `BlockTransfers`, and under fairness `SdReturns` |
| `MCApplication` | the example on everything below it, with failing reads of the card: `BlocksAlive`, `SemaphoreMeansDone`, `AckAnswered` |

These runs each find the code at odds with what a comment or the example says of
it (PROJECT.json quotes both):

| run | found |
|---|---|
| `MCTapeWaiter` | `clean_interrupt_lines` in `c_irq_handler` overwrites a line that a FIQ has just raised, and `test1` of the example waits forever for the tape's interrupt |
| `MCDiskWrite` | a write that starts inside of a cluster, as every write of a disk block does, loses words and reports success (`fat.c:366`) |

More properties stated in the modules fail of the code, some of them only outside of the
runs above. No run is kept for them; each is refuted by naming it as the property of
the configuration on the right.

| property | what the code does | configuration |
|---|---|---|
| `Answered` | an ACK to a busy disk is never answered (`emulated_disks.c:248`), although the example's kernel waits for an answer to its ACK; `AckAnswered` shows that it never meets a busy disk | `MCFiq`, with `Plain("ACK")` in `MCDiskCommands` |
| `MarkerShown` | after a read of the card that failed, `data1` is whatever was on the stack, if that is a marker (`emulated_tapes.c:86`); `HeadShowsMarker` excepts it | `MCFiq` |
| `FiresAtOnce` | `setTIMER` and `c_irq_handler` replace the immediate interrupt that a FIQ has asked for with a later one (`interrupts.c:83`) | `MCIrq` |
| `TimerLineAskedFor` | every device interrupt also raises the timer line: 0 stands for "no time set" and is always in the past (`interrupts.c:239`) | `MCIrq` |
| `Delivered` | RESET of a tape or disk raises a line, but arms nothing that would interrupt the core (`emulated_tapes.c:230`) | `MCIrq`, with `"RESET"` in `ClientOps` |
| `TimerLineKept` | cores overwrite each other's bits of the timer byte (`interrupts.c:241`) | `MCIrqCores` |
| `IrqLowersNothing` | the cause of `MCTapeWaiter`: a line that a FIQ raises between the load and the store of its byte is lowered (`interrupts.c:69`) | `MCIrq` |
| `TimerComes` | on cores 1 to 3 the timer line may never be raised: `tmp` is tested uninitialized (`interrupts.c:235`) | `MCIrqCores`, with `FairIrqSpec` |
| `Resumed` | `LDST` loads x2 to x29 from one word too far into the state (`asmlib.S:145`) | `MCContextSwitch` |
| `StackKept` | a system call of code at EL1 sets its stack pointer to the stack of EL2 (`interrupts.c:187`) | `MCContextSwitch` |
| `BootEnds` | the event that releases a core may come before the store that it announces, since there is no `dsb` (`init.S:100`): the core sleeps on and core 0 waits for it | `MCCores` |
| `WaitEnds` | an interrupt between the look at the lock and the `wfi` (`asmlib.S:53`) does not end `WAIT` | `MCCores` |
| `WokenSeen` | `wait_lock` is set as halfwords and tested as doublewords at 16 bytes per core (`interrupts.c:259`, `asmlib.S:48`): no other core than 0 is ever woken, and core 0 is not once core 1 has entered the kernel | `MCCores` |
| `PostedCalled` | a call that is posted before the core is back in its spin loop is cleared there (`init.S:139`) | `MCCores` |
| `Reported` | a write reports its length with its last block still in the FIFO (`sd.c:259`); the card may refuse it | `MCSdCard` |
| `PoweredUpTaken` | a card that powers up at the sixth ACMD41 is given up (`sd.c:416`) | `MCSdCard` |
| `CardReady` | a transfer of several blocks that fails leaves the card in it, since no STOP_TRANS follows (`sd.c:243`) | `MCSdCard` |
| `PutcharNotDropped` | a character that the printer refuses because of the other process is dropped, and `term_putchar` returns 0 (`app_main.c:93`) | `MCApplication` |
| `BlocksApart` | `seek_disk_block` gives different blocks one offset: it leaves out a factor for the heads and one for the cylinders (`emulated_disks.c:131`) | `MCDiskWrite` |
| `CacheIsTable`, and with it `ReadsTheFile` | a read of the table that fails leaves the old sector in the cache, and every later call follows it (`fat.c:177`) | `MCDeviceFiles`, with `Faults = {"table"}` |
| `OwnQuarter` | the last blank of a line feed in a right window wraps at the edge of the display into the left windows (`emulated_printers.c:79`) | `MCTerminals` |
| `GlyphShown` | the character that arrives at the right margin is not drawn (`emulated_printers.c:88`) | `MCTerminals` |

Two observations of `sd.c` without a property: the wait of a second after ACMD41 is
dead code, since `CMD_NEED_APP` has been cleared from the code it compares (line 166),
and the loop that reads SCR never counts down (line 450).

### Bounds

`Horizon` bounds the clock, `PostUntil` the time in which clients post and kernels
call `setTIMER`, `MaxRun` the time a handler takes from reading the clock to
arming, `MaxBlock` the tape head. `PostUntil` leaves room for a command to be
accepted, overlapped by a second one, reset and issued again, at each of the
moments before, at and after its deadline; `Horizon` lets every timer fire that was
armed until then, together with the delay and `MaxRun`. Delays are 1 or 2 instead
of 8 and 1000: what matters is the order of deadlines, and that a deadline can fall
before, on or after a reading of the clock. Three timers and devices give the list
loops a head, a middle and a tail. `MCIrq` keeps heads and cursors still (BACKBLK at the start of the tape,
carriage returns), since it is about timers and lines. `MCTerminals` has the real
width, at which pixels past the right edge wrap, and few rows; one printer prints in
each behaviour, because cursors are independent. `MaxBlock` is past the last block of
the tape, so that SKIPBLK and READBLK are posted at its end too.

`MCFiq` has all device classes, but not all products of what they do. The action
constraint `AloneOrTogether` cuts steps of clients, and nothing else: they use one
device with every command at every time until `PostUntil`, or the printer beside the
tape or the disk in the first two microseconds (without errors and ACKs), whose timers
then run out together. The handler and the clock are never cut before `Horizon`, and
clients are under no obligation: a behaviour without the post that is cut is one of
the specification, with the same fairness, so that `BusyEnds` is not made easier. One
block is shared by all clients there, so that each post may replace the block of
another before it is answered; the theorems have any number.

In `MCApplication` the tape has one block and the kernel's time slice is longer than a
printer's delay and shorter than the behaviour, so that both processes are in
`term_putchar` at once; every statement of the example is reached. In `MCSdCard` the
card has three blocks and calls one or two, so that a transfer of several blocks can
fail between them and a later one can find the card, and the errors, where the failure
left them; three tries of ACMD41 stand for six. In `MCCores` core 1 is started before and after another
(core 0, core 2), and the client's two calls overtake each other and `idle`. In
`MCContextSwitch` three exceptions are enough for a system call within the handler of
an IRQ of another core, and for a process to be switched out, in and out again.

In `MCDeviceFiles` a cluster has two sectors of two words, a block two clusters, and
a sector of the table four entries: blocks begin and end inside clusters, chains
visit every sector of the table in both directions, and the disk's inclusive bounds
reach past the end of its file.

Symmetry is used on timers and devices, which are interchangeable, in
`MCEmulatedTimers` only.

### Fairness

`FairSpec` says that the FIQ handler goes on (it is code without waits) and is
entered when its interrupt stays pending, and that time passes. `FairIrqSpec` adds
the same for `c_irq_handler` and `setTIMER` of each core, and that a kernel returns
to a process: weak fairness for all of them, because a FIQ preempts only finitely
often. Time is strongly fair there, since the bounds on running times switch the
clock off now and then. Clients are under no obligation. `FairFilesSpec` lets a call on a
file go on: it waits for the SD controller a bounded number of times, and
`FairSdSpec` says the same of the driver itself, that a block on its way to the card
arrives or is lost, and that a card ends its programming; the loop for SCR is the only
one without a bound, and its words do come. `FairCoresSpec` lets every core execute and
every store be seen in the end. It asks for no interrupts: nothing in the code makes
another one come when one has. Nobody has to post, to call `WAIT`, or to enter the
kernel.

## Proofs

`EmulatedTimersProofs` proves, for any number of timers and devices with at least
as many timers as devices:

* `TypeCorrect`: type correctness, with the cursors of the loops within the list;
* `TimersInvariant`: the inductive invariant `IndInv`, and from it `Partitioned`,
  `Sorted`, `OneTimer`, and with a counting argument `TimersSuffice` (if no block
  were free, all would be pending for as many different devices, none of which is
  the one being armed).

`IndInv` adds to the four properties what the loops have established so far: that
nodes behind the cursor of `removeTimerType` belong to other devices, and those
behind the cursor of `insertTimer` expire no later than the new timer. Without
them the last step of either loop preserves nothing.

`TimersImplementDeadlines` is the refinement of `DeviceTimers`: the deadline of a
device is that of the one block which waits for it, or of the call that is about to
insert one (`Waits`, `Calling`). `OneTimerPerKey` and `PendingSorted` give that this is
a function of the lists; one lemma per action says how it changes. A node that
`removeTimerType` unlinks while the device is armed again changes nothing of the
abstraction, because the call already counts.

`InterruptsProofs` proves of `FiqHandler`, for any number of devices, blocks and cores, any delays,
geometry and tape files, with `FiqInvariant` as the inductive invariant:
`FiqTypeCorrect`, `BusyDevicesArmed`, `DeadlinesServed`, `OnlyInstalledInterrupt`,
and from it `CursorsStayInWindow`, `HeadsStayOnTape`,
and the action properties `CompletionsTold`, `LinesAreKept` and `MessagesAnswered`
(`Answered`, if no client sends an ACK to a disk, `NoDiskAcks`: a busy disk ignores it).

* `IInv` adds to the properties that a device is NOT_INSTALLED from the boot on or
  never (otherwise an uninstalled one could interrupt), that a busy device's
  command is one that its `manage_...` function ends (otherwise its timer would
  expire and leave it busy), and that `currentTime` is at most `MaxRun` old when the
  virtual timer is set again (otherwise nothing bounds how late that sets it).
* The three classes are brought to a common form first: `MessageStep` and
  `ExpiryStep` say what a message to a device and the expiry of its timer may do to
  the shared registers, and one lemma per class shows that its handlers do no more.
  The invariant is then preserved by these steps, whatever the class.
* `HeadInv` adds to `HeadShowsMarker` that a READBLK in progress was accepted away
  from the end of the tape; nothing moves the head until it ends except a RESET,
  which also ends the command. `misread` excepts a marker that the card failed to
  give; what follows such a failure is again right from the next marker that is read.

Its second half is about `IrqHandler`: `c_irq_handler` and `setTIMER` run beneath the
FIQ handler, on any cores.

* `IrqInv` is `IInv` of the FIQ handler with what the locals of the two functions
  hold (a core never stores a line of a device that is not installed; the wait left
  to a scheduled time is positive). It gives `IrqTypeCorrect`, `SetTimesServed`
  (`ScheduledServed`) and `FiqInvariantAboveIrq`: the theorems about the FIQ handler
  hold with the other two as well. On the other cores than 0 `IrqInv` also bounds the
  physical timer by the scheduled time and `MaxRun`; on core 0 a FIQ between reading
  the clock and arming may take any time, and all that is left is that the timer is on.
* `ZeroInv` adds `ByteCurrent`, that a copy which core 0 has loaded holds no line that
  has gone down since, and `ArmedButInLoop`, the form of `DeliveryArmed` that the loop
  of the FIQ handler preserves. It gives `InterruptsArmed`, for core 0 alone (`OneCore`) and for
  clients that reset no unmasked tape or disk (`QuietCommands`); without the latter it
  fails, as does `Delivered` in the table above.

`ApplicationProofs` proves of `Application`, for any delays, geometry, tape and bounds,
`BlocksStayAlive` (`BlocksAlive`), `SemaphoreIsDone` (`SemaphoreMeansDone`) and
`AcksAnswered` (`AckAnswered`), with `AppInv` as the inductive invariant.

* `Mail` says what the message in the mailbox may be and where its sender then is: the
  kernel's ACK to a device that is not busy, a process's command of `term_putchar`, or
  one of `testTape` or `testDisk` to a device that is free, with its line down and
  `semaforo` at 0. It is why no answer and no completion comes to a sender elsewhere.
* `Blocks` gives each device its own blocks, which say BUSY as long as the device may
  complete into them; with it `term_putchar`, which waits for a status other than
  BUSY, leaves only when the printer has forgotten its block, even when its own
  character was refused.
* `LinesUp` says that a line of tape or disk is up only while test1 waits for it, and
  goes down with the ACK of the interrupt that set `semaforo`. That fails if a core
  stores a line that has gone down since it loaded the byte (`LoadedCurrent`).
* The FIQ handler's messages are brought to a common form again: `MessageEffect`. The
  blocks are different from each other because `Buffers` has five elements
  (`OwnBlocks`).
* `AppInv` was checked on the instance of `MCApplication` before it was proved.

`ApplicationIsClient` is the link to `IrqHandler`: if its clients may send what the
application does (`SendsAppCommands`), every step of the application is one of
`IrqHandler`. So the theorems about any clients are about the application, and
`AppInterruptsArmed` (`DeliveryArmed`) is one of them, since it sends no RESET.
`AppMessagesAnswered` is `Answered` for the application, which does send ACKs to the
disk: the kernel sends them when the disk is not busy (`Mail`), and these are answered.

`ContextSwitchProofs` proves, for any of the four cores and any processes, with
`CtxInv` as the inductive invariant: `ContextTyped`, `SyscallStateSaved`,
`InterruptStateSaved`, `ProcessesAreKept` and `FiqIsTransparent`.

* `Interrupted` says where the state that an exception interrupted is while the
  vectors have not yet stored it: in the general registers, in the banked SP, SPSR and
  ELR, or, when a FIQ has come in between, in what the FIQ has pushed. `SavedInv` ties
  it to the old area at each phase, and `NestingInv` says which handlers can be beneath
  which: without it, a system call of the kernel would count as one of a process.
* `FiqInv` gives the frames on the stack of EL2 word by word, and that `c_swi_handler`,
  which uses that stack too, is never beneath a FIQ.
* It was checked on an instance with one core and five old areas (45,396 states) and
  one with two cores (9,002 states). `Resumed` and `StackKept` are refuted, not proved.

`TerminalsProofs` proves for displays of any size `CursorsStayInWindows`, and
`PrintersKeepApart` (`PrintersApart`) for glyphs of 8 by 16 pixels, which the code has:
the pixels of a cell in the window do not pass the right edge, so that the linear
address does not wrap, and lie on the printer's side of the grid. The last blank of a
line feed in a right window is left out, which does wrap (`OwnQuarter`).

`SdCardProofs` proves, for cards of any size, with any losses of commands, answers and
data:

* `DriverAndCardAgree` (`InitAgrees`) for the clocks of the code (`CodeClocks`: the
  bound on the divided clock is arithmetic on these numbers). `InitInv` says for each
  statement of `sd_init` what the driver knows and what the card has been told; a card
  that took a command whose answer was lost is ahead of the driver, and every test
  that follows is in the invariant.
* `TransfersAreBlockTransfers`, the refinement of `BlockTransfers`: `MoveInv` says that
  the card is at the block that comes next, if it is in the state to move data at all
  and nothing is on its way; that it is one block behind (`Behind`) as long as one is;
  and that this one goes to the place which the call named (`OnItsWay`), also when the
  call has returned. The refinement maps the card with the block it is programming, and
  the block in the FIFO, to `blocks` and `flying`.

`DeviceFilesProofs` proves, for any geometry and layout of the card, any files and
calls of any length: `CachedTable` (`CacheIsTable`), `ReadsReturnTheFile`
(`ReadsTheFile`) and `WritesStayInside` (`WritesInside`), while transfers of data may fail.

* The hypothesis is `TableReads`: without it the three fail, see the table above.
* `FatInv` says where a turn of the loop is (`InOrder`: a read is where it should be, a
  write may be behind, which is the bug `MCDiskWrite` shows), that the walk along the
  chain is at the cluster its counter names (`Walk`), and that the buffer is the
  cluster but for the words to write (`Fetched`), which is why a write that lands too
  early stays within what it was asked to write. It was checked on the instances of
  `MCDeviceFiles` (92,235 states) and `MCDiskWrite` (12,367 states).
* The lemmas are about division (`Position`, `Split`, `ClustersInOrder`), the length of a
  chain without repetitions (`ChainLength`), and the table (`EntryOfChain`: the entry of
  a cluster of a file is the next one, and no other file's).

`CoresProofs` proves, for one to three secondary cores, any calls and any number of
posts and interrupts, with `CoresInv` as the inductive invariant: `CoresTypeCorrect`,
`CountNotLost` (`ReadyCounted`) and the action properties `NothingCalledTwice`
(`CalledOnce`) and `WaitsForInterrupt` (`WaitReturns`).

* `OneByOne` says why a count made of a load and a store is not lost: core 0 has
  released nobody beyond the core that is counting itself (`Counting`). `CountIs`
  ties `CoresReady` to where core 0 is, and says that the copy which a core has
  loaded is not yet stale; `ReadyCounted` alone says nothing of that copy.
* `EntriesPosted` follows an entry from the spin table to the register that `blr`
  jumps to. It does not hold of a core that has just returned from a call: until
  `start_idle_core_spin` clears the entry, what was posted there may go.
* `BufferedWaits` says that a release which nobody has seen yet is of the core that core
  0 waits for, and that this core is still with the firmware, so that it overwrites no
  call.
* `LocksWoken` says that a core in `WAIT` whose first halfword is 1 has been interrupted:
  nobody but the core itself sets that halfword. A doubleword that is 1 has it set.

Assumptions are those declared in the modules: finite sets, constants of the right
type, disjoint device classes, every printer installed, tape files that end with
their only end-of-tape marker, windows of two columns at least (with one, the
character after a wrap would leave the window). `DeviceSizes` is the only one of `DeviceFiles`' sizes: they are numbers.

What TLC alone checks: liveness (`BusyEnds`, `Delivered`, `CallsReturn`, `SdReturns`,
`Acknowledged`, `CallTaken`, `TimerComes`), which is beyond the provers, and the
properties that are refuted. Every safety property that a passing run checks is proved.

## Not modelled, and the plan

What could still be modelled, in this order:

1. The mailbox register itself: posts of several cores merge, since it is written
   by setting bits and cleared by the bits read. The example posts on core 0 only.
2. `c_irq_handler` for the real sources: the mailbox by which `test2` interrupts core
   1, and the UART.
3. FAT: the search of the directory and the checks of `fat_getpartition`.
4. Ticks: the conversion and width of `set_physical_timer`.
5. Aborts, and the address spaces of `LDST`.
6. The circular pointers of `listx.h` under the sequences of `EmulatedTimers`.

A proof to improve: `TableReads` could be weakened to let reads of the table fail until
the first of its sectors is cached.

GPU mailbox, UART and GPIO are registers of devices with busy waits; the MMU's
tables are built once; utilities have no state. They stay out.
