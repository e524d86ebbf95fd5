# Formal models of the embARC BSP

TLA+ modules, TLC runs and TLAPS proofs about the board support package in
`src/`: bare-metal drivers for Synopsys ARC cores.  The program is C for small
boards; what makes it hard is not computation but the fact that a thread, the
interrupt handlers that preempt it, other cores and the hardware all touch the
same registers and structures, mostly without a critical section.

Line numbers below refer to files under `src/`.

## 1. Inventory

| Component | State it keeps | Operations | Interacts with | Module |
|---|---|---|---|---|
| ARConnect driver `arc/arc_connect.c` | `arc_connect_lock`; the registers CMD, WDATA, READBACK; the unit behind them | about 50 API functions, all through `arc_connect_cmd_execute` | all cores of a cluster; `include/arc/arc_mp.h` for the lock; HSDK interrupt layer and SMP example as clients | `ArcConnectHw`, `ArcConnect`, `ConnectAtomic`, `ArcConnectProofs` |
| Interrupts `arc/arc_exception.c`, `include/arc/arc_exception.h`, `arc/arc_exc_asm.s` | STATUS32, AUX_IRQ_SELECT and its windows, AUX_IRQ_HINT, handler table | `int_enable`, `int_disable`, `int_pri_set`, `int_sw_trigger`, ..., `cpu_lock`; entry and return | every driver | `ArcInterrupt`, `CoreProofs` |
| uDMA `arc/arc_udma.c` | `g_dmac->dma_chns`, clients' `DMA_CHANNEL_T`, descriptors, unit registers | configure, reserve, start, wait, stop, clear, release; two handlers | client callbacks, DMA engine | `ArcUdma`, `ArcUdmaProofs` |
| Time base `board/board.c` (and `timer_current` of `arc/arc_timer.c`) | `gl_ms_cnt`, `sys_ms_update`, TIMER_0 | timer interrupt, `board_get_cur_us`, `board_get_hwticks`, `board_delay_ms` | everything that waits | `BoardTimer`, `CoreProofs` |
| DesignWare UART `device/ip/designware/uart/dw_uart.c` | `DEV_UART_INFO` (opn_cnt, status, buffers, callbacks), `int_status`, IER, LCR/DLL, FIFOs | open, close, control, write, read; `dw_uart_isr` | interrupt API, client callbacks, console | `DwUart`, `DwUartProofs` |
| SMP example `example/arc_feature/multicore/main.c` | `output_lock`, its program counters | raise, poll, handle and acknowledge inter-core interrupts | ARConnect driver | `MulticoreExample`, `MulticoreExampleProofs` |
| Other ARC timers, RTC, calibration `arc/arc_timer.c` | timer registers, `gl_loops_per_jiffy` | start, stop, calibrate, `arc_delay_us` | boards | plan |
| Secondary core start `arc/arc_mp.c`, `arc/startup/arc_startup.s` | `arc_cpu_wake_flag`, `arc_cpu_sp`, `arc_cpu_init` | `arc_start_slave_cpu`, `_slave_core_wait`, `arc_slave_start`, clearing of .bss | all cores of a cluster, through shared words | `SlaveStart`, `MulticoreExampleProofs` |
| DesignWare SPI `device/ip/designware/spi/dw_spi.c` | `DEV_SPI_INFO` (open count, status, chain of `DEV_SPI_TRANSFER`), interrupt mask, FIFOs | open, close, transfers by polling and by interrupt, aborts, slave selection, data size, enable, reset; `dw_spi_isr` | interrupt API, client callbacks | `DwSpi` |
| DesignWare I2C `device/ip/designware/iic/dw_iic.c` | `DEV_IIC_INFO` (status, state, three buffers), IC_INTR_MASK, FIFOs, bus | polled write and read with time-outs, master and slave transfers by interrupt, aborts; `dw_iic_mst_isr`, `dw_iic_slv_isr` | interrupt API, client callbacks | `DwIic` |
| DesignWare I2S `device/ip/designware/i2s/dw_i2s.c` | `DEV_I2S_INFO`, buffers, IMR, the pair FIFOs | open, close, buffers, trigger levels, polled and interrupt transfers; the master's routines | interrupt API, client callbacks | `DwI2s` |
| DesignWare GPIO `device/ip/designware/gpio/dw_gpio.c` | `DEV_GPIO_INFO`, SWPORTA_DR/DDR, INTEN, types, table of bit handlers | open, close, output, direction, interrupt configuration; `dw_gpio_isr_handler` | interrupt API, bit handlers | `DwGpio`, `GpioProofs` |
| Subsystem UART, SPI master, I2C master, GPIO, I2S masters `device/ip/subsystem/` | two layers each: the device object (`ss_*.c`: status flags, callbacks) and the controller's driver (buffers, counts, enable bits) | open, close, transfers, control; up to four routines per device | interrupt API, client callbacks | `SsUart`, `SsSpi`, `SsIic`, `SsGpio`, `SsI2s`; `GpioProofs` |
| Caches `arc/arc_cache.c` | configuration words; control, address, tag and data registers per cache | invalidation, flush and locking of ranges; direct and indirect access | uDMA (flush of descriptors), boards | `ArcCache`, `RangeProofs` |
| MPU `arc/arc_mpu.c` | region registers | enable, configure | | plan |
| W25Qxx flash `device/peripheral/flash/w25qxx/spi_flash_w25qxx.c` | the chip: memory, busy, write enable and protection bits | read, erase, write | `dw_spi` | `SpiFlash`, `RangeProofs` |
| HSDK interrupt layer `board/hsdk/configs/10/hsdk_interrupt.c` | second handler table; masks, modes and pending edges in ARConnect's interrupt distribution unit (IDU) | `int_enable`, `int_disable`, `int_sw_trigger`, `int_level_config`; `arc_connect_int_isr` | ARConnect driver, `arc_exception` | `HsdkInterrupt`, `HsdkInterruptProofs` |
| AXS interrupt layer | second handler table, cascaded controllers | the interrupt API again | `arc_exception` | plan |
| DesignWare PWM timer `device/ip/designware/pwm_timer/dw_pwm_timer.c` | `DEV_PWM_TIMER_INFO`, modes, count and control registers, table of handlers | open, close, write, configuration, channel and interrupt commands; `dw_pwm_timer_isr_handler` | interrupt API, channel handlers | `DwPwmTimer` |
| DesignWare SDIO `device/ip/designware/sdio/dw_sdio.c` | open count, PWREN, raw interrupts, FIFO | open, close, polled command with data | the card, `GET_CUR_MS` | `DwSdio` |
| Subsystem I2S and the slave drivers | info and control structures | open, close, control, transfers, routine | interrupt API | plan |
| TRNG, other peripherals, clock units, multiplexers, tables, console, C library | mostly registers without concurrency | | | see "Not modelled" |

`PROJECT.json` lists every component with its status and every hazard with the
line where it bites and the properties that would catch it.

The hard behaviours, and who meets them:

* several cores drive one register bank (ARConnect); the lock does not mask
  interrupts, so a handler can meet the lock its own core holds (SMP example);
* several cores leave reset together and share one flag and one stack word
  (secondary core start);
* a register that selects a window is written in one step and used in the next
  (AUX_IRQ_SELECT), a software trigger is one word (AUX_IRQ_HINT);
* a load and a store on words a handler also updates (IER, `int_status`, DR, INTEN,
  DMA channel status);
* completions, errors and aborts served before, in the middle of and after the
  call that started, stops or releases the transfer (uDMA, UART, SPI, I2C, I2S);
* a callback, run inside the routine, that starts the next transfer, while the
  routine goes on with what it read before (all drivers);
* two layers with a flag of their own for the same transfer (subsystem drivers);
* FIFOs that overflow, time-outs that leave requests behind, bus errors;
* two counters that are read one after the other while an interrupt steps both
  (time base).

## 2. Modules: state and actions against the code

**ArcConnectHw** is the unit (external hardware): `After` and `Reply` give, for
each command, its effect and its answer as the driver uses them.  `CmdOnly`,
`CmdReturn`, `CmdWdata` are the driver's operation macros.  Status that nothing
in the repository sets (debug and halt status, interrupt source) reads 0.

**ArcConnect** has one definition per API function (its sequence of commands)
and one action per access of `arc_connect_cmd_execute`: `LLock`, `SCondTakes` /
`SCondFails`, `WriteWdata`, `WriteCmd`, `ReadBack`, `Release`.  Variables are the
lock word and LLOCK reservations, the register banks (`wdata`, `readback`), the
unit, and per caller its place, current call, remaining commands and result.
Callers are threads and handlers; `RegOf` says which bank a core's auxiliary
accesses reach.  The C code does not settle whether the registers are per core;
it locks as if they were shared, so the runs use one shared bank and the proofs
leave the assignment arbitrary.  Only the ARC HS lock is modelled (the EM form
masks interrupts with CLRI and has one core).  Memory is sequentially
consistent: every lock operation has `arc_smp_mb` on both sides.

**ConnectAtomic** is what a caller may rely on: a command reaches the unit in one
step with the operand given, and its answer goes to its caller.

**MulticoreExample** composes ArcConnect with the example: threads raise, poll and
print, `cores_ici_isr` preempts the thread of its core, asks, prints and
acknowledges.  The timer delay may end at any time.

**ArcInterrupt** gives one core a thread and handlers nested by priority.  The two
accesses of a windowed function are the actions `Select` and `Access`;
`int_pri_set` is wrapped in `Lock`/`Unlock`, `int_secure_set` ends in `WriteBack`; `Take`, `EntryRead`,
`EntryClear`, `Handle`, `Return` follow `arc_exc_asm.s`: the handler address and
the hint are read, the hint is cleared, the handler is called, STATUS32 comes back.

**ArcUdma** has one action per API function; `dmac_start_channel` is split into
`Start`, `Enable`, `MarkBusy`, `Trigger` because the handler can come in between, and
`dmac_release_channel` and `dmac_clear_channel` after their first register access
(`Release`, `Clear`), because a transfer can fail before the second;
`IsrEnter`, `IsrStep`, `IsrLeave` are the handler's status read, its loop over
channels and its return; `BlockDone`/`BlockFails` are the engine.  With `Masks` the thread
may take any number of steps while an interrupt is latched, as it does when it holds
interrupts off: the handler then serves what was latched before a stop, a release or a
restart.  Without, a latched interrupt is taken before the thread's next step.  Assumptions about the unit:
disabling or enabling a channel clears its completion bit; an error sets only
the error bit (comment at `arc/arc_udma.c:630`).  Clients relink only
descriptors they have configured again, build acyclic chains and leave
descriptors alone while a transfer runs.

**BoardTimer** counts in ticks of TIMER_0: `Tick`, the timer interrupt
`board_timer_isr` (with `board_timer_update`), the two reads of
`board_get_cur_us` as `ReadCount` and `ReadMs`, and the loop of `board_delay_ms`
around them.  `board_get_hwticks` does the same in another unit.  An interrupt
period is `Limit` ticks.  A pending interrupt is taken before the next tick
unless interrupts are masked; they are unmasked before a second one would be lost.

**DwUart** keeps, per context, the list of accesses still to do (`todo`): a call
is expanded into accesses when it is made, conditional parts into `unless`
entries that are tested in place.  Where the thread can be interrupted a
`|=`/`&=` on IER or `int_status` is two steps (`Load`, `Store`).  `dw_uart_isr`
is entered when the controller lets it through and IIR names a cause; `Serve` is
its loop; `CallBack` runs any client reaction: nothing, switching its interrupt
off, starting a transfer in the other direction.  `Sent` and `Received` are the
line; they are taken only where an access can tell (`Sees`).
`Careless` names the calls a client makes without the discipline `Allowed`
describes: in critical sections while an interrupt is in use (a client without
callbacks may end its only transfer outside), no polled use of a direction that
is in interrupt use, no empty buffers.  The FIFO trigger is one byte; data
format, flow control and break only store a setting and are left out.

**SlaveStart** splits `arc_start_slave_cpu` into its four stores and its loop, and
the waiting core into the accesses of `_slave_core_wait` and `arc_slave_start`,
because all calls share `arc_cpu_wake_flag` and `arc_cpu_sp`.  A job is what one call
hands over; function, argument and stack are stored and read separately.  The words
of .bss are cleared in any order (`ClearBss`), and the flag holds any of `Leftovers`
at reset.  `early` records that a core saw its number before the flag was cleared:
everything claimed is claimed unless that happened.

**HsdkInterrupt** is one core of the HSDK.  A context (thread or routine) runs one IDU
command per pair of steps: `GetLock`, then the command with its effect and the
release, because `arc_connect_lock` does not mask interrupts.  `Enter` nests
`arc_connect_int_isr` by priority; its loop is `ReadMask`, `CheckStatus`, `Ack` for the
edge interrupts and `ReadMask`, `ReadMode`, `CheckFirst` for the others, then the
handler, then `Turn`.  `ArcInt` is the core's own enable bit, one step here (its two
accesses are ArcInterrupt's subject).  The history says which handler calls the code
makes without an event or for a disabled interrupt, and why.

**The eleven driver modules** (`DwSpi`, `DwIic`, `DwI2s`, `DwGpio`, `DwPwmTimer`, `DwSdio`,
`SsUart`, `SsSpi`, `SsIic`, `SsGpio`, `SsI2s`) are built alike.  Device object, registers, FIFOs and the thread
that uses the device are one record variable; a C function is an operator from
record to record, with the C function's name; the actions are the thread's calls
(split where the routine can come in between with effect), the routine, entered
when the controller's gates and the interrupt controller's let it through, and the
line, bus or peer.  Client callbacks run inside the routine and may call the
driver again.  What the properties need to know about the past is in history fields;
in particular a set (`cause`, `lost`, `raced`, ...) names the only paths of the code
on which a property fails, so that the property says: always, but for exactly
these.  Each such path is listed below as a divergence.

* `DwSpi`: the chain of transfers with `dw_spi_writer` and `dw_spi_reader` walking it,
  polled (interrupted between two turns) or by interrupt, the three aborts, slave
  selection, data size, enable, disable, reset.  The slave answers a frame with its
  number.
* `DwIic`: the routine reads IC_INTR_STAT in one step and acts in another, the bus
  moves in between.  Commands and bytes carry the parity of the transfer they
  belong to.
* `DwI2s`: one device, transmitter or receiver, on channel 0; a stereo pair is its
  position in the buffer.
* `DwGpio`: words are sets of bits; the thread's read-modify-writes are two steps.
* `DwPwmTimer`: a call of the thread is a list of accesses (`todo`), one per step, so that the
  routine and its handlers run between any two; `want` is what was last written to each channel,
  `tuned` and `raced` name the channels another command or a handler changed since.
* `DwSdio`: the call goes from busy wait to set-up, command, response and data; the controller
  sends, moves words and ends by itself, also after the driver has given up (`late`).  Words carry
  their call's number.  A time-out is the driver's choice at any turn of a loop that has one.
* `SsUart`, `SsSpi`, `SsIic`, `SsGpio`, `SsI2s`: wrapper and low-level driver in one record, so
  that a flag of one layer left behind by the other shows.  `Width` stands for the
  2^32 of the open counts.  `SsI2s` is the transmitter or the receiver; a sample is its
  position in the call's buffer.  Whether switching the unit off ends a pending overrun is
  left open (`sticky`).

**SpiFlash** has one step per SPI command of `w25qxx_erase` and `w25qxx_write`, and the chip
that executes, refuses or ignores it; between two commands the chip may finish (`Done`) and
any command may fail on the bus (`Fails`).  A byte of the memory is old, erased or its
position in the data written.  `want` is the memory as the returned calls promise it.  Wrong
parameters of the bus transfer, and the identification of the chip, are left out.

**ArcCache** is one core's instruction or data cache.  The functions on a range check their
arguments and take one line per step (`Line`, `Turn`), in addresses that wrap as 2^32 does;
those on the cache's own memory are one step per register access (`WriteAddr`, `ReadResult`,
`AccessTag`, `AccessData`), because they leave interrupts on and `Interrupt` puts another call
between two of them.  What a line operation does to a cache is hardware, modelled from the
control bits `arc_cache_init` selects.  The whole-cache functions are single register writes
and are left out, as is the eviction of lines.

**Harnesses.**  `MCCore` (ArcInterrupt and BoardTimer), `MCCluster` (SlaveStart, the
SMP example, HsdkInterrupt and ArcCache), `MCDesignWare` (the six drivers and SpiFlash) and
`MCSubsystem` put components that share no state into one run: a variable says which part a behaviour is of, the others keep an
initial state.  A property of a harness is the conjunction of what its parts claim
about one question; the parts' properties are defined in their own modules.

## 3. Runs

All runs finish exhaustively; distinct states in brackets.

| Run | Question | Bounds and why they are enough |
|---|---|---|
| `connect_refine` (108,687) | Is every command performed with its caller's operand and answered to its caller (`ImplementsAtomic`), by exclusion (`Exclusive`)?  Is the proofs' invariant `IInv` an invariant? | Two threads on two cores with a shared bank and a handler on core 0; every kind of command, two different operands for the same register; the counter up to 2. Two contenders and one preempting context give every interleaving of two register sequences; the proofs cover more. |
| `connect_api` (483,399) | `SemaphoreExclusive`, `GettersTellRegister`, `DistributionGuarded` (overlapping configurations: `QuietWhileConfiguring`, `RoutingReturns`), and under fairness `LockProgress` (the lock is handed back; while somebody wants it, somebody gets it) | Both cores configure an interrupt of their own, commands mixed, so that one turns the distribution on under the other; both contend for a semaphore; one reads registers. |
| `multicore_safe` (307,977) | Start: does a core run with its own job and is the hand-over by one call at a time (`Handover`, the proofs' invariant, of which `OwnJob` is a conjunct), do calls return and cores run (`WaitsEnd`)?  HSDK: is a handler called once per event and only while its interrupt is enabled (`DispatchedOnce`), is an event handled (`WaitsEnd`)?  Caches: does a function on a range operate on its lines and no other, is the cache's memory read and written at the address asked (`CacheAsAsked`), does a call end (`WaitsEnd`)?  Example: does the handler name a core that waits for it (`HandlerNamesRaiser`); is no interrupt raised on top of an unacknowledged one (`NoMergedInterrupt`)? | Start: two waiting cores, two jobs, and at reset 0, either core's number or another number in the flag. HSDK: an interrupt that is acknowledged and one that is not, either the more urgent, three kinds of program; the one served last is the one whose handling must end. Caches: 8 addresses in lines of 2, a capacity of 6; ranges from the middle of a line, to a line's first byte, to the end of the address space, too long, of nothing; a thread and a handler. Example: two cores, threads and handlers: each core is both raiser and target. |
| `multicore_deadlock` (violation) | `InterruptAcknowledged` | The example's instance, fairness below. |
| `core` (1.18 million) | `CriticalSection`, `TriggerKept`, `PriSetHits`; `TimeIsTrue` | Two interrupts, two priorities: a handler that preempts a handler that preempts a thread, each using SELECT and HINT. Time: 30 ticks of 3 per period, masked sections that lose no interrupt, delays of 1 and 2 ms; the millisecond counter does not wrap. |
| `interrupt_divert` (violation) | `EnableHits` | One handler that disables an interrupt, as `dw_uart_isr` does. |
| `udma` (7.2 million) | `ChannelsHeld` (`Bound` and `NoNullChannel`), `RunningIsBusy`, `EndMeansDone` | Two clients (symmetric) on two channels, one by software and one by a peripheral; chains of up to two descriptors; blocks that fail on the second channel (on both it passes too, with 11.8 million states); polled and with callbacks; interrupts served at once or late. Two channels make release and reservation under a running neighbour happen, two descriptors make the middle of a chain happen. |
| `udma_peripheral` (violation) | `WaitEnds` | One channel, one client. |
| `board_delay` (violation) | `DelayLongEnough` | The time base unmasked, a delay of 2 ms. |
| `uart` (2.9 million) | `Bookkeeping`, `InBuffer`, `EachOnce` for a careful client | Buffers of 1 and 2 bytes, a FIFO of 1 (full and empty both happen, as do transfers longer than the FIFO), 3 bytes in all, 2 nested opens, 2 baud rates. |
| `designware` (261,436) | `BytesInOrder`, `CompleteWhenDone`, `ToldOnce`, `GatesAgree`, `PinsAsAsked`, `FlashAsAsked`, `TransfersEnd` | SPI: chains of one element, of two whose parts overlap differently, at an odd offset, and with an empty part there (which at 16 bits never ends, the exception of `TransfersEnd`), data sizes 8 and 16, FIFOs of 2, 2 opens. I2C: buffers of 2 bytes, FIFOs of 1, so that each is full and empty in one transfer. I2S: 3 pairs through a FIFO of 3 with triggers 1 and 2, so that a batch does and does not divide the length. GPIO: 2 bits, 2 users, four kinds of client. PWM: 2 channels, clock 24, counts of 8 values, a wave, a timer and one too slow for its counter, six kinds of client, so that every kind of call meets the routine and every control register is read and written with the routine in between. SDIO: FIFO of 4; 1, 3 and 5 words are below the trigger level, within the FIFO and above it; 2 or 3 commands, so that one follows a failed one and one a stopped one; one failure; 2 cards. Flash: 12 bytes in sectors of 4 and pages of 2; a sector, parts of two and the last one; writes over three pages, within one and of nothing; 3 calls, one failing command; protection bits clear, set, and set for good. |
| `subsystem` (291,277) | `CallsInOrder`, `DoneMeansDone`, `NotWedged`, `PortAsAsked`, `CallsEnd` | UART: lengths 0 and 3, FIFO 2, counts modulo 4. SPI: 3 frames in one direction, equal and unequal pairs, FIFO 2, one cause of failure at a time. I2C: 3 bytes, FIFO 2, with and without a STOP_DET line. GPIO: 2 bits, 2 users. I2S: 0, 2 and 3 samples, FIFO 2 (lengths that are and are not whole batches), two thresholds. |

Three bytes through a FIFO of two is the least in which a FIFO is filled, refilled and
drained with a rest; two bits and two users are the least in which one disturbs the
other.

`CHECK_DEADLOCK FALSE` is said where the system may stop: a bounded counter or
horizon is used up, every core has been started, a client makes no more calls, or
(the deadlocks are the subject) a context spins.

### Fairness

* `connect_api`: weak fairness of every context's accesses;
  a core never stops executing.  No fairness between contenders of the LLOCK/SCOND
  loop: only that somebody enters is claimed, not that each does.
* `multicore_safe`, start: core 0 in a call and a core that has work go on.  Calls
  need not be made.
* `multicore_safe`, HSDK: a core that is in a call or a routine, or is asked for an
  interrupt it lets through, goes on; unless it spins on its own lock.
* `multicore_safe`, caches: a flush the hardware has begun ends, a call goes on.
* `multicore_deadlock`: weak fairness per core and strong fairness of both locks.
  The second is more than the instructions give, and the interrupt still is not
  acknowledged: the refutation does not depend on starvation.
* `udma_peripheral`: weak fairness of the thread inside a call, of the handler
  and of the engine.
* `designware`, `subsystem`: a pending routine that is let through runs, a thread in a
  call continues it, the controller shifts what is in its FIFO and the peer or
  bus moves what it is asked for; the SDIO controller goes on with what it has; the flash
  chip finishes what it has begun.  No client is made to call.  Where the peer may be
  silent in reality (CTS held off, a slave that never answers) the property is
  stated for a peer that is not.  Fairness is written `[]<>~guard \/ []<><<A>>_v`,
  weak fairness with the guard spelled out.
* The other runs claim safety only.

### What the violations show

`findings` in `PROJECT.json` quotes the comments.  In short: the example's
handler takes locks its own core's thread may hold; `int_enable` (and its
siblings, all but `int_pri_set`) can enable another interrupt; a peripheral
transfer can complete before `DMA_BUSY` is written, and the waiter spins for
ever; `board_delay_ms` can return at once.

### Divergences met while modelling, without a run

The models follow the code in each of these; where one breaks a property, the
property excepts exactly this path, by a history field set on it.

ARConnect, interrupts, uDMA, time, start:

* The five commands of `arc_connect_idu_config_irq` are locked one by one
  (`arc/arc_connect.c:317-321`): the last command of one core's configuration turns the
  distribution on while another core's is half-way, and interrupts are routed by what that
  has written so far.  `connect_api` reaches this; `QuietWhileConfiguring` says that nothing
  else does it.
* `arc_connect_idu_read_mode` issues READ_ENABLE (`arc/arc_connect.c:169`),
  `arc_connect_debug_mask_read` issues DEBUG_RUN (`:668`); `GettersTellRegister` is
  about the other getters.  The 64-bit counter is read in two locked halves (`:761`).
* `int_sw_trigger` writes a single hint (`arc/arc_exception.c:670`): triggers of
  two interrupts replace each other.  `TriggerKept` is checked for triggers of one.
* uDMA: a polled wait never reports an error (`arc/arc_udma.c:279`); the completion
  handler takes a polled channel's completion bit (`:618`); `dmac_check_channel`
  after a stop stores BUSY (`:1055`); only the last descriptor's interrupt bit is
  written, while `:825` says all (`:545`); the end address of a DMA_DWINC_CLR
  transfer is computed as if it were incremented (`:352`); `dmac_init` enables the
  interrupt before it installs the handler (`:503`).  `dmac_release_channel` clears the
  error (`:983`) before it disables the channel (`:984`): a transfer that fails in between
  leaves its bit on a channel without holder, and the error handler, for this error or
  a later one, writes the status through NULL (`:597`); `dmac_stop_channel` has the
  right order.  `NoNullChannel` excepts such a channel, marked `late`; where the write goes is
  not modelled.
* `usecs * gl_loops_per_jiffy` overflows 32 bits (`arc/arc_timer.c:380`); a precision
  below BOARD_SYS_TIMER_MS_HZ makes every interrupt a millisecond (`board/board.c:182`).
* The cores that wait read `arc_cpu_wake_flag` from reset on, before core 0 clears
  .bss (`arc/startup/arc_startup.s:124`).  `arc_cpu_sp` (`arc/arc_mp.c:46`) is a plain
  pointer to volatile bytes, so the language lets its store move behind that of the
  flag; the model keeps the source's order, and no barrier separates them on a core
  that reorders stores.

HSDK interrupt layer (`board/hsdk/configs/10/hsdk_interrupt.c`):

* `hsdk_interrupt_init` unmasks every interrupt of the unit (`:276`), so that a device's
  handler runs before anybody enabled it, as soon as any other interrupt is served.
* Every command takes `arc_connect_lock`, which does not mask interrupts: a routine entered
  while its core's thread holds it never returns (the hazard `multicore_deadlock` shows
  for the example).
* With nested priorities a routine that was preempted between its check and its handler
  calls the handler once more, for an event the nested routine has served (`:61-64`, `:71-74`).
* `int_level_config` tests the trigger bit of a "mode" that is the unit's enable bit
  (`:189`): an interrupt made edge triggered never becomes level triggered again, and
  one that is not in the routine's list is then never acknowledged.
* A handler that disables an interrupt between the two steps of the thread's `int_enable`
  leaves it unmasked (`:97-99`).

DesignWare drivers:

* UART: `dw_uart_enable_device` passes the baud rate where a divisor is expected
  (`uart/dw_uart.c:430`); close disables interrupts before it aborts, so the
  abort callbacks never run (`:608`); `err_cb` would get the info structure
  instead of the device object (`:898`), and is never called as the line-status
  interrupt is never enabled; a buffer of length 0 moves one byte; DIS_DEV with
  bytes pending makes close spin (`:336`); `opn_cnt` counts opens that returned
  E_OPNED; SET_TXINT and SET_RXINT outside a critical section lose an enable that a
  callback makes (`:353`).
* In UART (`uart/dw_uart.c:915`), SPI (`spi/dw_spi.c:1471`) and I2C (`iic/dw_iic.c:1075`)
  the routine clears the buffer after the callback: one the callback installed is lost.
* SPI: division by a data width of 0 (`:1446`); DIS_DEV, reset and the quad read are not
  refused in the middle of a transfer (`:1141`); a polled transfer as slave without a
  master never ends (`:889`); `dw_spi_writer` ignores the room for the answers (`:698`);
  a 16-bit transfer with an empty part at an odd place never reaches its length (`:855`; `Endless`).
* I2C: a polled write that meets a NACK counts bytes not sent (`:919`); RESET leaves the
  software state (`:656`); a timed-out call leaves requests or bytes without a STOP
  (`:988`, `:912`); the end of the routine discards what came while it ran (`:1100`).
* I2S: the interrupt stays on after a transfer that is a multiple of the batch
  (`i2s/dw_i2s.c:1289`, while `dev_i2s.h:245-249` says it is disabled); the odd last
  sample of a buffer (`:1160`); level and buffer may be changed in the middle of a transfer
  (`:1820`); after an overrun all 16 pairs are stored (`:1340`), or nobody is told (`:1273`).
* GPIO: a handler's write between the thread's load and store is undone (`gpio/dw_gpio.c:217`);
  the end of interrupt clears an edge unseen (`:533`).
* PWM timer: counts are cut to 16 bits, a slow timer becomes a fast one
  (`pwm_timer/dw_pwm_timer.c:90`, `:104`); SET_CFG leaves on what the channel's earlier mode needed,
  the PWM bit or the interrupt (`:312-324`); the routine, which every channel's interrupt enters,
  calls the handlers of channels whose own interrupt is disabled (`:389`) and clears an event that
  came during the handler (`:394`); a handler's write in the middle of the thread's leaves a mixture
  (`:254-275`); modes and counts survive close; GET_ISR returns nothing (`:353`).
* SDIO: a read that fits the FIFO may return E_OK with nothing read, because the end is looked for
  before the words (`sdio/dw_sdio.c:338`; one that stays below the trigger level always does); the FIFO
  loops have no limit, a transfer that fails under them hangs the call (`:73`, `:122`); after a time-out
  the controller goes on, and the next call may take its answer, end and words (`:352`, `:434`);
  the power register is written whole, so the second card's open switches the first card off
  (`:139`); close of a closed device counts below 0 (`:519`); `dw_sdio_reset_wait` returns E_SYS when
  it succeeded (`:268`), which nobody looks at.

Flash (`device/peripheral/flash/w25qxx/spi_flash_w25qxx.c`) and caches (`arc/arc_cache.c`):

* `w25qxx_erase` takes the next sector too when the range ends with one (`:268`; at the end of the
  chip that address is the first sector's, or refused: the model wraps), while its comment says
  `size` is the erase size.
* `w25qxx_write_enable` repeats for ever if the status never becomes 0x02, as when the protection
  bits cannot be cleared (`:146`).  `w25qxx_read` does not wait for the chip (`:244`): after a call
  that failed half-way it reads a busy one.
* The loops over lines compare addresses that wrap: a range that reaches the last line of the
  address space never ends, with interrupts locked, or does its first line only (`:78`).
* `arc_cache_init` selects that locked lines are not flushed (`:382`): `dcache_flush_mlines` leaves
  them in the cache, and returns 0.
* The direct and indirect accesses leave interrupts on between the address and the data
  (`:351-364`): a handler that uses them makes the thread access another entry.

Subsystem drivers:

* UART: a length of 0 never returns (`uart/ss_uart.c:364`); closing a closed device counts below
  0 (`:258`); `tx_size` is cleared after the callback (`uart/uart.c:681`); SET_TXINT 0 returns E_SYS.
* SPI: a second open is not counted (`spi/ss_spi_master.c:53`); the two directions of
  a transfer share a length (`:200`); a refused transfer leaves BUSY (`:191`); switching
  SPIEN empties the FIFOs (`spi/spi_master.c:854`).
* I2C: STOP_DET stays masked although the comment one line above speaks of it
  (`iic/i2c_master.c:335-336`); RESTART goes with the last byte; FIFO refilled after an abort
  (`:659`); TX_EMPTY left on when the receive half is done (`:674`); a full FIFO makes the
  loop wrap (`:835`); SET_TXCB replaces the driver's own callback
  (`iic/ss_i2c_master.c:241`); RESET loses the callbacks (`:103-109`); writing on a disabled
  device never returns.
* GPIO: close of a closed device counts below 0 (`gpio/ss_gpio.c:80`); the port's types are not
  reset at open (`:66`); SET_BIT_INT_CFG names other bits than it sets; `gpio/gpio.c:414` clears
  edges unseen; outputs are rebuilt from pin levels (`gpio/ss_gpio.c:182`).
* I2S: when a call's buffer has run out the data interrupt is masked
  (`i2s/i2s_tx_master.c:482`, `i2s/i2s_rx_master.c:474`) and only the first call after open
  unmasks it (`:369`): a second call returns only if it comes before the next interrupt.  A
  receiver's overrun stops the unit and ends no call: the error callback tests a flag nobody sets
  (`i2s/ss_i2s_master.c:339`), and the receiver's goes to the transmitter (`:135`).  A length of 0
  and a replaced callback (`:257`) never return.

## 4. Proofs

Eight modules, for twelve components: `MulticoreExampleProofs` also holds the theorems about
the start of the cores, `CoreProofs` those about the interrupts and the time base of a core,
`RangeProofs` those about the flash and the caches, whose calls both work on a range of memory
block by block, and `GpioProofs` those about the two drivers of parallel ports.  A hypothesis of a theorem is written in the theorem
(`ASSUME ... PROVE Spec => ...`); where it speaks of the constants only, the run of that
component evaluates it for its instance or satisfies it by its definitions.  Numbers in
brackets are obligations.

### ARConnect

`ArcConnectProofs` (966) proves, for any set of cores, callers, handlers, assignment of
banks and set of calls, with `ConnectAssumption` and `HwAssumption` only:

* `Invariant`: `Spec => []IInv`;
* `Exclusion`: `Spec => []Exclusive`;
* `Refinement`: `Spec => ImplementsAtomic`.

`Exclusive` alone is not inductive: a store conditional may take the lock only
because a reservation that still stands means that the lock word has not been
written since it was read as free (`ReservedFree`).  To know what `Perform` does in
the abstract specification, a caller inside the driver must have a command
pending (`Pending`), and between its WDATA and CMD writes the bank it reaches must
still hold its operand (`OperandKept`), which needs `Exclusive` in turn.  `IInv` is
the conjunction of these with `TypeOK`; `connect_refine` checks it with TLC.
There is one lemma per action for the invariant and one per action for the
refinement: `WriteCmd` performs a command without wanting an answer, `ReadBack`
one with an answer; the mapping (`atodo`, `agot`) hides the command from the moment
it is issued.  `After` and `Reply` are not expanded in these: the results do not depend on
what the hardware does with a command.

Three properties of the API rest on the refinement: a step of the driver is a command
performed whole (`Performs`) or leaves the unit and what is still to be performed alone, so
that each is proved as if commands were indivisible.  Each needs a discipline of the
programs, stated on their calls:

* `SemaphoresExclude`: `SemaphoreExclusive`, if contexts of one core do not release what
  another of them claims, and nobody forces a release (`OwnReleases`): the unit knows
  owners by core, so a handler's release does free its thread's semaphore;
* `DistributionIsGuarded`: `DistributionGuarded`, for any number of contexts that configure
  interrupts at the same time.  Between the first and the last command of
  `arc_connect_idu_config_irq` the distribution goes on only by another context's enable
  (what the others do is not restricted; `ConfiguresAsDriver` says that calls of that name
  are the function's, `ConfigShape` that the function's are such), and it is not left off
  by configurations that overlap, if only they disable it (`OnlyConfigsDisable`);
* `GettersTell`: `GettersTellRegister`, if nobody else stores in a register that a context
  reads (`OwnRegisters`).

### SMP example

`MulticoreExampleProofs` (771 with the start of the cores) proves, for any number of
cores, with the assumptions on the constants only:

* `HandlersNameRaisers`: `ESpec => []HandlerNamesRaiser`;
* `NoneMerged`: `ESpec => NoMergedInterrupt`.

The example's invariant `AppInv` is about what the abstract driver says: a core's interrupt
is pending at its neighbour only while its thread asks for the acknowledgement
(`ThreadInv`), a handler between its entry and its acknowledgement has a raiser and the mask
it read still names it (`HandlerInv`), and nobody but the core before it raises a core
(`Raisers`), so that the mask has one bit and `arc_find_lsb` finds it: `HwAssumption` says
of a word only that it tells the bits it has (`MaskOf`, in the runs a sum of powers of 2), so
`BitsIn` undoes it whatever the numbers are.  The invariant is inductive
together with `IInv` and the refinement (`EInv`).  There may be one core only, which then
raises its own interrupt.

### Start of the cores

`MulticoreExampleProofs` also proves, for any set of waiting cores, jobs and
contents of the flag at reset, with `StartAssumption` only:

* `HandoverHolds`: `StartSpec => []Handover`;
* `OwnJobHolds`: `StartSpec => []OwnJob`.

`OwnJob` (a core that runs has its own call's function, argument and stack) is not
inductive: the stack word is shared, so the proof needs that the flag is set only by
the call in progress, that the core that has seen its number is that call's and
has not cleared the flag (`OneAtATime`), and that what a call has written stays until
its core has read it (`Handed`).  `Handover` is the conjunction of these, of `OwnJob` and
of the types, and is what the run checks; there is one lemma per kind of step.

### uDMA

`ArcUdmaProofs` (1,018) proves, for any number of channels and any
clients, descriptors, sources and callbacks, with `UdmaAssumption` only:

* `Invariant`: `Spec => []IInv`;  `Types`: `Spec => []TypeOK`;
* `ChannelsAreHeld`: `Spec => []ChannelsHeld`;
* `RunningTransfersAreBusy`: `Spec => []RunningIsBusy`;
* `EndsAreKnown`: `Spec => []EndIsKnown`;  `EndsMeanDone`: `Spec => EndMeansDone`.

That a handler never meets the NULL of a channel nobody holds, however late it runs, rests
on a wider fact: no channel without a holder is enabled, requested, reports completion or is
in error, a `late` error apart (`LiveIsHeld`), which every call must keep,
`dmac_release_channel` by clearing the unit as well as the table.  Its completion interrupt may
well be latched; the handler then finds nothing to serve.  `InCall` says what a start in progress may
rely on at each of its points although handlers run in between, and `BlocksLinked`
that the engine never runs off a chain.  `RunningIsBusy` needs `RunningIsKnown`: a
running transfer has neither failed nor ended in the unit, so what a polled wait saw
before the handler ran is still about that transfer.  That a callback means the end
(`EndMeansDone`) needs `EndIsKnown`: only the last block of a chain interrupts, because
`dmac_process_desc` writes the INT field of the last descriptor alone.  The handlers serve the
lowest channel of a set; that there is one is taken from the well-foundedness of the order
of the numbers.  The proof of `Types` showed a flaw of the model: two arms of the
CASE of the handler's step overlapped, which TLC resolves by the order they are written
in and the semantics of TLA+ does not; they are disjoint now.

### Interrupts

`CoreProofs` (961 with the time base) proves, for any interrupts, any number of
priorities and any API calls of the thread and of the handlers:

* `InterruptInvariant`: `Spec => []IInv`;
* `InterruptTypes`: `Spec => []TypeOK`;
* `CriticalSectionHolds`: `Spec => []CriticalSection`;
* `PriSetHitsHolds`: `Spec => PriSetHits`;
* `TriggersAreKept`: `Spec => []TriggerKept`, if all software triggers are for one interrupt
  (`OneTrigger`: AUX_IRQ_HINT is one word).

The hypothesis is `InterruptConstants`, which `core` evaluates for its instance: there
is at least one interrupt and one priority, and what a call writes fits the register
(`Fits`; no function but `int_ipm_set` checks its value).  `CriticalSection` is not
inductive: `int_pri_set` in the section restores a saved status, so `StaysLocked` adds
that interrupts are off and that what it saved says so.  `PriSetHits` rests on
`Alone`: between its clri and its seti the context is the one that runs, interrupts
are off, and the window, then the priority, are the ones it was called with; no
interrupt is taken then, and whoever else returned before is gone.  `InCall` says
that a context inside a windowed function named a valid interrupt, `Caused` that an
active priority knows its interrupt.  No such invariant exists for `int_enable` and the
others, which do not lock: `interrupt_divert` refutes it.

### Time base

`CoreProofs` also proves, for any period of the timer, number of periods in a
millisecond, width of the counter and delays (`TimerConstants`, which `core` evaluates):

* `TimerTypes`: `Time!Spec => []Time!TypeOK`;
* `TimeIsKept`: `Time!Spec => Time!UsWithinPeriod` and `DelaysEnd`:
  `Time!Spec => Time!NeverOversleeps`, until
  `gl_ms_cnt` has wrapped (`NoWrap`; its 32 bits last 49 days, and past that
  `board_get_cur_us` starts again at 0); `TimeIsTold`: the two together, as
  `Time!Spec => Time!TimeIsTrue`.

The invariant is that nothing is counted twice or left out: the time is the milliseconds in
`gl_ms_cnt`, the periods in `sys_ms_update`, a pending period and the timer's count.  `core`
checks the same properties on one instance, as `CoreTypeOK` and `TimeIsTrue`.

### DesignWare UART

`DwUartProofs` (5,307) proves, for any buffers that are not empty, any baud rates, FIFO
depth and bounds (`NonEmpty`):

* `Types`: `Spec => []TypeOK` and `StaysInBuffer`: `Spec => []InBuffer`, for any client, also
  one without the discipline `Allowed` describes;
* `BooksAgree`: `Spec => []Bookkeeping` for a client that keeps to `Allowed`, except that its
  callbacks may hand over the next buffer (`Careful`).

`NonEmpty` is needed: the routine moves a byte before it compares `ofs` with `len`
(`uart/dw_uart.c:907`), and the driver takes any buffer it is given (`:758`).  The
invariant `UInv` is mostly about what is still to be done: queued accesses are of a context
that may make them, an `unless` leaves out plain accesses only, the loop of a flush comes
right after its set-up (`Queues`); a word that a `|=` or `&=` has loaded is one it can
have (`Words`); a buffer that is used up is about to be cleared by the routine (`Spent`).
TLC checked `UInv` on the instance of `uart`, and with all calls careless on a smaller one.

`Bookkeeping` is about a whole call: in the middle of one, `int_status`, IER and the controller
disagree, and each of their updates is itself a load and a store.  The proof therefore
annotates the accesses of a call like the lines of a sequential program: an outline gives the
states of the four words (`Switches`) before each access, `Fits` says that the access leads
from one to the next, where a skip may go, and, while the routine is not shut out
(`exposed`), that it can either not be entered (`Shut`: its interrupt is off in IER or at the
controller) or finds even books, which it leaves even.  `Leads(q, A, B, exposed, free)` says
that some outline takes the sequence `q` from `A` to `B`; one lemma per call gives it.  The
invariant `BooksInv` is then short: what the thread has left to do leads from the present
state to what `opn_cnt` promises (`ThreadSound`); a word it has loaded is still the word in
memory (`LoadedSound`, the update nobody loses); and a routine at work found its window
and will leave it even (`RoutineSound`).  `Careful` is needed: for a client that calls into
the middle of a critical section the load is stale and the update is lost.

`EachOnce` relates the calls of a client to its callbacks and is only model-checked.

### HSDK interrupt layer

`HsdkInterruptProofs` (1,376) proves, for any interrupts of the unit, any set of edges among
them, any priorities and operations and any depth of nesting (`HsdkConstants`):

* `Types`: `Spec => []TypeOK`;
* `HandledOnce`: `Spec => []OncePerEvent`;  `HandledEnabled`: `Spec => []QuietWhenDisabled`;
  `Dispatched`: the three together, as `Spec => []DispatchedOnce`;
* `StuckSpins`: `Spec => SpinsForEver`: a routine entered while its own core holds
  `arc_connect_lock` stays where it is, with all that it cut, for ever.

`multicore_safe` checks `DispatchedOnce` on one instance.  What a
routine has read of its interrupt is about a state that other routines change; `Looked` says
that it still holds unless one has run since (`stale`), and `Wired` that an edge latched and
a level asserted are events nobody has handled.  For `HandledEnabled` one must know of every
interrupt that was disabled and is not masked why (`Unmasked`): it is enabled at the core,
somebody is disabling it, or a handler disabled it between the two steps of an
`int_enable`, which then unmasks it.  `Held` gives the last theorem: whoever holds the lock is
in a command, and all routines over it wait at their first.

### Flash

`RangeProofs` (1,910 with the caches) proves, for any chip whose size is whole sectors of
whole pages and any calls that stay in it (`Chip`):

* `FlashTypes`: `Flash!Spec => []Flash!TypeOK`;
* `MemoryIsAsAsked`: `Flash!Spec => []Flash!MemoryAsAsked`; `ChipIsReady`:
  `Flash!Spec => []Flash!ChipReady`; `ChipsAsAsked`: the two together (`FlashAsAsked`).

In the middle of a call the memory is neither what it was nor what the call promises.  The
invariant says how far the call is: an erase has done the sectors below `address`, which is
the first byte of one and ends a sector behind `last` (`Erasing`); a write has put the first
`data` bytes in their places, and its next command ends with the page at the latest, so that
the chip's wrapping within a page moves nothing (`Writing`).  `Kept` is the frame, which a
failed command leaves true; `Enabled` says that from the last status of
`w25qxx_write_enable` to the command the chip is idle and enabled, and that only a failed
call leaves it at work.  The sector behind an erase that ends with a sector is in `excess`:
the loop compares with the sector of the byte behind the range.

### Caches

`RangeProofs` also proves, for any number of addresses, any line size and capacity, and any
calls of a context and of a handler that cuts it (`Memory`):

* `CacheTypes`: `Spec => []TypeOK`;
* `RangesAreDone`: `Spec => []RangeDone`; `EntriesAreOwn`: `Spec => []OwnEntry`;
  `CachesAsAsked`: the three together (`CacheAsAsked`).

A loop has operated on the lines from the range's first to the one before `start`, which is
always the first byte of a line, and the cache says so (`Looping`, `Effect`); that the last
line of the range is reached and not passed is arithmetic on division (`Divide`,
`Quotient`, `Times`), and needs that the range does not reach the last line of the address
space, where the comparison comes round.  The loops run with interrupts off, so that their
`Effect` is not disturbed; the functions on entries do not, so that a context that was cut
counts as raced, and the others have their own address in the register (`EntrySound`).

### Parallel ports

`GpioProofs` (1,226) proves for the DesignWare driver, for any bits of the port, any number of
users and any kinds of calls (`DwGpioConstants`):

* `PortTypes`: `Spec => []TypeOK`;
* `OutputsKept`: `Spec => []OutputsAsWritten`;  `EnablesKept`: `Spec => []EnablesAsAsked`;
  `ClosedPortQuiet`: `Spec => []ClosedIsQuiet`;

and for the subsystem's, of which `Ss` is the instance (`SsGpioConstants`, and a port has at
least one bit), the same four, `SsPortTypes`, `SsOutputsKept`, `SsEnablesKept` and
`SsClosedPortQuiet`, and `SsTypesKept`: `Ss!Spec => []Ss!TypesAsConfigured`.  These are
the GPIO part of `PinsAsAsked` (`designware`) and all of `PortAsAsked` (`subsystem`).

The properties speak of a port at rest and hold in the middle of no call.  The invariants
(`PortInv`, `SsInv`) say what a read-modify-write in progress may rely on: the word it is about
to write was computed from the register as it still is, or a handler has left its mark in
`raced` or `blurred` since (`Outputs`, `Enables`); in which order the enabled bits, the
port's interrupt and the device's method follow each other; and that after the last user has
gone the handlers' calls are refused, so that each step of close leaves what the ones before it
have done (`Quiet`).  The subsystem's driver makes the word it writes of the levels of the pins:
of it only the bits asked for, and those whose pins showed what is wanted, are sure
(`SsOutputs`), and `WrittenIs` is what its write does with them.  The handlers' calls (`ReactKept`,
`SsReactKept`) are whole, because the thread does not run between their steps.

### Only model-checked

Every liveness property (`LockProgress`, `WaitsEnd`, `TransfersEnd`, `CallsEnd`): the prover
has no rule for fairness and ENABLED here.  `EachOnce` of DwUart (it
depends on the client's discipline over several calls); the properties of the other
drivers of `designware` and `subsystem`; the four refuted properties.

## 5. Plan

In order; a later module may use the earlier ones.

1. The HSDK's distribution to several cores on top of ArcConnect; `AxsInterrupt`, once the
   wiring of the AXS board's cascaded controllers (which is in its FPGA, not in the
   sources) can be stated.
2. The slave drivers of the subsystem, which nothing in the repository calls.
3. An abstract `Transfer` specification (idle, running, finished or aborted, called back
   once) that DwUart, DwSpi, DwIic and the subsystem drivers are shown to implement.
4. `ArcDelay`: arithmetic modulo 2^32 against a reference definition; `ArcMpu`.
5. Theorems: `EachOnce` of DwUart for a careful client; the refinement of `Transfer`.

## 6. Not modelled, and why

Exceptions, register save and restore and the secure variants of the entry
(assembly without shared state); `dmac_init`, `dmac_close` and the per-channel
interrupts of the uDMA (DMA_MULTI_IRQ is off by default); the unit's address
arithmetic; board start-up order; pin multiplexers, clock and reset units and
device tables (register stores and data without concurrency); TRNG (polled);
`xprintf` (formatting); the vendored MPU9250 driver (more than 5,000 lines) and the
generated `apexextensions.h` headers, which with the headers of register tables
make up the larger part of the sources by lines; build and debug scripts.
