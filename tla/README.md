# Remote-IO: specifications

TLA+ specifications of the Remote-IO firmware: an STM32F103 board with eight input/output
channels on an RS-485 line, read and driven by a Modbus RTU master. The firmware is a bare
main loop (`src/emb/main.cpp`) and nine interrupt handlers; it has no tests. Paths below
are relative to `src/emb/`, `fm/` stands for `lib/freemodbus/modbus/`.

## 1. The system

```
 master ── RS-485 ── USART1 ──> usart1_isr ──┐ (priority 8)
                     TIM2 ────> tim2_isr ────┤ (priority 0)
                                             v
            main loop:  eMBPoll ── frame buffer, event queue
                           │ callbacks eMBReg*CB
                           v
                      register arrays  <──── exti0..4_isr, exti9_5_isr (priority 0) <── pins
                           ^
            main loop:  GpioModule::run, UsartModule::run, FlashModule::run ── flash page
```

Three kinds of concurrency make the code hard to test. The main loop is preempted by
`usart1_isr`, and both by `tim2_isr`; they share the receiver and transmitter states, the
frame buffer, the timer and a one-slot event queue, partly without critical sections. The
main loop is preempted by the EXTI handlers, which share the register arrays with it, never
with a critical section. And power may fail between any two half-words of a flash page.

| Component | Sources | State | Operations | Talks to |
|---|---|---|---|---|
| RTU link layer | `fm/rtu/mbrtu.c`, `mbcrc.c` | `eRcvState`, `eSndState`, `ucRTUBuf`, positions | start, receive, send, two state machines, t3.5 expiry | port layer (calls), `eMBPoll` (function pointers) |
| Port layer | `Modbus/port/*.c` | event queue, `downcounter`, interrupt enables | post/get event, timer on/off, serial enable, two handlers | link layer (callbacks), hardware |
| Stack main function | `fm/mb.c` | `eMBPoll`'s statics, `eMBState` | one event per call: receive, execute, reply | link layer, function handlers |
| Function handlers | `fm/functions/*.c` | none | decode, call a register callback, encode | register callbacks |
| Register map | `Modbus/modbus.{h,cpp}`, `registers.h` | four arrays | four callbacks, `get_iterator` | all modules (shared arrays) |
| GPIO module | `Module/gpio_module.*` | directions, output cache, fronts | `run`, six EXTI handlers | register arrays, pins, EXTI |
| USART module | `Module/usart_module.*` | `_baudrate` | `run`: check and set the rate | holding registers, USART1 |
| Flash module | `Module/flash_module.*` | RAM image, `_flag_write`, flash page | `run`: compare, write; read at start | coils, USART module, flash |
| Start-up | `main.cpp`, `ConfigModule/remote_module.*` | none | configuration, order of the main loop | all modules |
| I2C module, polling registers | `Module/i2c_module.*`, `polling_register*` | none | empty; not compiled | none |

What makes each one correct:

- *Link layer and port*: positions stay in the buffer; the line is half duplex; no assert
  fails; a frame is executed only if it is whole, for this slave, and once; the reply is
  whole, belongs to its request, and nothing touches it while it goes out; a request that
  arrived is executed and answered in the end.
- *GPIO*: the discrete input shows the pin; latches never tell a wrong edge; a counter
  neither invents nor misses a pulse; a WRITE channel drives what was written; a counter
  read is a value it had.
- *USART and flash*: only rates the master offered are used; only directions it set drive
  outputs; nothing stale or torn is taken over at start; what was saved comes back; the
  flash is not written for ever.
- *Register map and handlers*: an access stays in its array; the bytes of a reply are those
  of the registers asked for.

The hazards, each with its line, are listed in `PROJECT.json`.

## 2. Modules

| Module | Models | Kind |
|---|---|---|
| `SerialBytes` | bytes, frames and CRC on the line, symbolically | operators |
| `ModbusRTU` | `mbrtu.c`, `eMBPoll`, port layer, on an arbitrary bus | specification |
| `ModbusLink` | `ModbusRTU` with a master and time | composition |
| `RequestService` | what the master may expect of the line | abstract specification |
| `RegisterMap` | `fm/functions/*.c`, `modbus.cpp`, `registers.h` | specification |
| `RegisterStore` | what the master may expect of the registers | abstract specification |
| `GpioModule` | `gpio_module.cpp` and the register cells it shares | specification |
| `FlashModule` | `usart_module.cpp`, `flash_module.cpp`, restart | specification |
| `RemoteIO` | `main.cpp`: `ModbusLink` and `FlashModule` in one main loop | composition |
| `MC*` | small instances for TLC; `MCRemoteTimely` and `MCRegisterStore` also assume what the theorems about the line and the store need | model checking |
| `*_proofs` | theorems (section 4) | proofs |

```
 SerialBytes <── ModbusRTU <── ModbusLink <── RemoteIO ──> FlashModule
                                   └──> RequestService      (INSTANCE)
 RegisterMap ──> RegisterStore          GpioModule
```

Definitions keep the source's names where they can; comments marked *Mutant* precede
variants of a definition with a plausible bug, used to show that the properties notice it.

### ModbusRTU

A step is what one flow of control does between two points where another flow can tell the
difference. A critical section is one step. `xMBRTUReceiveFSM` takes three (`ReceiveByte`
reads the byte and the state, `StoreByte` changes buffer and state, `RestartTimer`), because
`tim2_isr` may run between them; `xMBPortEventGet` takes two (`GetEvent`, `ClearQueue`).
`vMBPortSerialEnable` is one step: `tim2_isr` does not look at what it changes. So are
`xMBRTUTransmitFSM` and `T35Expired`. Priorities are guards: `MainRuns` and `IsrRuns` say
that nothing of higher priority is pending. An assert that fails sets `halted` to its line
and stops everything.

The hardware: TIM2 counts all the time and sets UIF even while its interrupt is disabled
(`Tim2Update`), so that a first tick may come at once when it is enabled; the USART keeps
one received byte and loses the next (`UartReceive`); while the slave transmits RXNEIE is
off, and what arrives then is read first after. The function handlers of `fm/functions`
are any answer of `ReplyLength` bytes built in the frame buffer, in a step after the one
that reads the request; what they compute is the subject of `RegisterMap`.

`eMBPoll`'s variable for the event lives from `GetEvent` on; `poll` is its program counter.
The CRC is a free constructor: a frame passes `CrcOk` when nothing in it was disturbed. A
real CRC-16 fails to notice 1 disturbance in 65536.

### ModbusLink

Adds a master that sends each frame of `Frame` at most once, in any order, may stop in the
middle of one, and keeps the timing its constants say: `MaxGap` ticks between two bytes,
`MinSilence` between two frames, `Patience` for whose frames it waits until the slave is
idle. `MaxLag` says how many ticks a received byte may wait for `usart1_isr`. Time is
counted in ticks of TIM2. `executed` and `replies` record what was executed and sent.

### GpioModule

The main loop's program counter is `main`, the handler's is `isr`. An EXTI handler takes two
steps per channel, because an edge between the reset of the request and the read of the pin
behaves differently from one before or after; what follows the read is one step, since no
other code runs and pins do not matter any more. `exti9_5_isr` walks over its lines.
`EXTI_PR` is set by an edge whether the line is masked or not (STM32F10x reference manual,
external interrupt block diagram), which is why the shared handler serves masked lines.
Loops of the main program over the channels are one step where they touch one array
(channels do not read each other's registers), so `_latch_clear` is two steps. The loop over
the directions takes two steps for a channel that is turned, `SetMode` and `SetMask`: line 30
stores the direction, line 35 or 38 masks or enables the EXTI line, and the interrupts are
enabled in between. The stack's reads of counters are two loads per register; the compiler cannot merge them, because the
store of a byte between them may alias the array.

`edges`, `missed`, `edged` and `seen` are history variables.

### FlashModule

One specification of the settings, since both modules keep them. `page` is the image last
programmed and `programmed` the half-words of it that are in flash; what reads as erased is
`255`. Power may fail at any value of `main` in `RestartAt`, between two half-words included,
and operations may fail at those of `FailAt`. `flash_program_word` of libopencm3 programs the
low half-word, then the high one; the status is read after both. The baud rate is a pair of
half-words because the master writes it as two registers and the flash as two half-words.
A request stores a byte in each of some direction coils at once, as function 15 does: a `1`,
a `0`, or the packed byte that `coils` shows getting there.

The error register of `UsartModule` is written on every pass, together with the change of
the rate: `errorReg`.

### RegisterMap

A handler reads a PDU from the frame buffer and overwrites it with its reply, so `Handler`
is a function of the whole buffer, the bytes an older frame left behind the request
included. One action, `Execute`, is one `EV_EXECUTE` of `eMBPoll`: search of the table,
handler, callback, exception reply. Handler and callback run in the main loop and share
their arrays only with EXTI handlers that store single cells (`SenseBit`, `SenseCount`), so
a step is fine except for a counter read in two loads, which is in `GpioModule`. Two
handlers for bits and two for registers have the same text but for the names; `ReadBits` and
`ReadRegs` stand for both. Each access of a callback is recorded in `span` as registers of
an array and bytes of the buffer; a register outside the array reads as 0, and
`AccessesInBounds` says that this never happens.

`RegisterStore` is what a master may expect: registers that exist are read and written in
one piece, no others change, everything else is refused and changes nothing, but for
function 23, whose write stays when its read is refused. `Asked` and `Answered` read
request and reply as the application protocol defines them (big-endian words, protocol
addresses counted from 0); that is the refinement mapping, and `Meaning` is it for one PDU.
`Understood` names the requests `RegisterStore` has a word for; the theorem that it is
implemented needs it:

- bits one at a time, because several coils are packed wrongly (run `coils`);
- a count of function 3 below 256, because the handler drops its high byte;
- as many bytes to write as announced, because the handlers do not look (section 5);
- at most 120 holding registers in the array, which is what function 16 accepts at once.

### RemoteIO

Adds `FlashModule`'s variables to `ModbusLink`'s, and `due`: `eMBPoll` has returned and the
modules have not run yet. A pass of the modules that would change nothing is left out
(`PassDue`). `IdlePoll` is an `eMBPoll` that finds no event while the pass after it has
something to do: with a direction coil that is neither 0 nor 1, on every turn of the main
loop. The frames are told apart by the `Effect` of their handler: it writes nothing, the
rate, or any bytes into any of the direction coils. Three things of the modules reach the
line. The rate of the USART decides how long a character takes (`CharTicks`) and whether the
slave can read what the master sends; `usart_disable` disturbs what is going out; and a page erase halts the
core, interrupts included, while line and TIM2 go on (`StallTick`, external, STM32F10x flash
programming manual). An erase may take any time. `marred` notes the replies disturbed. The
master sends at the rate it asked for from the next frame on and, like a real one, waits
between two frames until a setting is in use; the bytes of a frame sent at another rate than
the slave's arrive as noise. A request that sets the directions leaves the rate register
alone and the other way round (`Writes`), and the master changes its rate after a request it
sent to this slave, not after one to another (`MasterRate`).

`Timely` says which master keeps the rules: it waits until the slave is done, sends no frame
of full length, and at both rates a character with its gap, and the lag of the interrupt, end
before t3.5, while the silence between frames is longer than that. It also writes a direction
as 0 or 1, as function 5 stores it: after the packed byte of a function 15 every pass erases
the page, and no reply and no frame is safe from it. It is the hypothesis of
the theorems about the line; TLC evaluates it in `MCRemoteTimely`, the instance of the run
`remote`.

## 3. Runs

| Run | Instance | Properties | Shows |
|---|---|---|---|
| `remote` | a master that keeps `Timely`; 4 frames (a read, a change of the rate, a foreign one, a broadcast that sets or clears a direction), buffer of 6, t3.5 of 5 ticks, characters of 1 or 2 ticks, fairness | `NoAssertFails`, `ExecutesOnlyOurFrames`, `ExecutesOnce`, `RepliesMatch`, `RepliesIntact`, `BufferStableWhileSending`, `T35OnlyInSilence`, `ImplementsService`, `SettingsReached` | with a master that keeps the rules the main loop does what it should, through a change of the rate and the erasing of a page; it implements `RequestService`, liveness included |
| `free` | the whole main loop; 2 frames, one longer than the buffer, the other storing a 2 in a direction coil, so that the page is erased for ever; no timing, no waiting | `TypeOK`, `HalfDuplex` | what holds whatever the master does |
| `registers` | the real register map; requests that are `Understood`, of every function at the first and last registers, next to them, with no and too many registers, wrong lengths, broadcasts | `TypeOK`, `AccessesInBounds`, `ImplementsStore` | no access leaves its array or the buffer; the handlers implement `RegisterStore` |
| `inputs` | channels 5 and 6 of the shared handler, 4 edges, counters wrapping after 1, clears | `TypeOK`, `InputFresh`, `LatchTellsLastEdge`, `NoPhantomPulse`, `CountsEveryPulse` | edges against clears; the shared handler loses no edge |
| `outputs` | channel 4 with a handler of its own and channel 5 of the shared one; directions and values 0, 1 and 2; counter reads | `OutputFollows`, `WritingPinQuiet` | the output side; a channel that drives its pin leaves its inputs alone once its line is masked |
| `settings` | one channel, 9 rates of which 2 legal can be composed, failures and power cuts everywhere, fairness | `TypeOK`, `NeverRestoresStale`, `WritesOnlyWhatWasSet`, `UartUsesOffered`, `ErrorTellsRate`, `FlashRests` | nothing stale or torn is taken over, the error register never lies, and the flash comes to rest |
| `hasty`, `longest` | a master that does not wait; a frame of full length | one each, violated | section 6 |
| `torn` | one channel, counter read while it counts | `ReadsCurrentValue`, violated | section 6 |
| `lost` | one channel, no failure | `SettingsSurvive`, violated | section 6 |
| `coils` | several coils read and written at once | `PackedBits`, violated | section 6 |
| `slow` | the rate set to 1200 baud | `T35OnlyInSilence`, violated | section 6 |

Three more configurations are kept for section 6, each violating its property:
`MCModbusLink_tooslow.cfg`, `MCModbusLink_pause.cfg` and `MCRemoteIO_odd.cfg`.

Bounds and why they are enough:

- *Buffer of 5 or 6 bytes, frames of 4 to 7*: minimum length, one more, exactly full and too
  long all occur; nothing depends on other lengths, and the theorems hold for every size.
- *t3.5 of 2 to 5 ticks, silence of 5 or 6, gap 1*: a gap is shorter, a silence longer than
  t3.5 with the immediate first tick taken into account (t3.5 lasts from `Timeout - 1` to
  `Timeout` ticks), which is the relation 35 ticks have to a character of 1.5 ticks. At the
  lower rate of `remote` a character with its gap still takes less than t3.5; in `slow` it
  takes `Timeout + 1`, as 9.2 ms is more than 2.1 ms, and the master leaves three characters
  and a half of silence (21 ticks), as the protocol wants it at that rate.
- *Replies of 0 or 2 bytes in `remote`*: no reply, or one longer than an exception; the
  theorems hold for all lengths.
- *Each frame once*: a repetition is a second frame with the same role; frames 1 and 2 are
  both for this slave, which is enough for stale events and stale buffers to show. The
  change of the rate may come first, last or between the others, and so may the broadcast.
- *The register map is that of `registers.h`*, the buffer just large enough for the longest
  access. Requests sit at the edges of the arrays and of the counts; the theorem
  `AccessesInBoundsCorrect` is about every request. Two requests the code executes are left
  out of `registers`, because `RegisterStore` refuses them: several coils at once (run
  `coils`) and a write whose byte count is larger than what was sent (section 5).
- *`MaxEdges`*: four edges are two whole pulses, enough to pass a wrap at 1 and to straddle a
  clear; clears start the count of edges again, so a run is not bounded by it.
- *Two channels*: two neighbours in the shared handler, or one of each handler kind; channels
  only meet in `exti9_5_isr`.
- *One channel in the flash*: its direction and the two halves of the baud rate already lie in
  different half-words of the page, with their two flags; directions are copied alike.

Of the runs only `free` has `CHECK_DEADLOCK FALSE`: there (and in the
configuration `odd`) a failed assert stops the program.

Fairness is assumed of the device: in `FlashModule` of the main loop (`while (true)`, no wait
in `eMBPoll` or `run`), in `RemoteIO` of main loop, pending interrupts, TIM2 and transmit
register together: while one of them has something to do, one of them goes on. That an
interrupt is served before the main loop is in the guards and not in the fairness. Nothing
is assumed of the master, the pins or the power: it may stop in the middle of a frame.
`FlashRests` asks for an end of requests, restarts and flash failures: a page that never
programs is tried for ever, by design of `run`. It also asks that every direction coil end as
0 or 1. Another byte counts as different from the image for ever, because the image holds a
bit, and `coils` shows that such a byte gets into a coil.

## 4. Proofs

Checked with TLAPS for every value of the constants that satisfies `FrameAssumption`,
`RTUAssumption`, `LinkAssumption`, `GpioAssumption`, `FlashAssumption`, `MapAssumption` and
`RemoteAssumption` (sizes are naturals, frames are a finite set of numbers other than 0, the
rates are legal, no legal rate has an erased half, the buffer holds the longest access; TLC
evaluates these assumptions in the runs). Two groups of theorems have a hypothesis besides:
those about the line `Timely`, the one about the store `Understood`. Both are evaluated by TLC
where the same properties are model-checked, and neither can be dropped: the runs `hasty`,
`longest`, `slow` and `coils` and the configuration `odd` violate a property in an instance
without it.

- `ModbusRTU_proofs`: `TypeOK` and `HalfDuplex`, on a bus that may deliver any byte at any
  moment. `TypeOK` carries `pucSndBufferCur + usSndBufferCount <= MB_SER_PDU_SIZE_MAX` and
  "the timer runs only above 0", without which the decrement of a `uint16_t` could wrap.
  `HalfDuplex` is inductive because it relates four things that change in different flows:
  the state of the transmitter, the two interrupt enables, the state of the receiver and
  where the handler is.
- `GpioModule_proofs`: `TypeOK`, `InputFresh`, `LatchTellsLastEdge`, `NoPhantomPulse`,
  `CountsEveryPulse`, `OutputFollows`, and the action property `WritingPinQuiet`. Each has a
  strengthening: `CountsEveryPulse` needs that the pin has left the level at which the front
  in the handler was read (`EdgeAhead`), which in turn follows from `InputFresh`;
  `LatchTellsLastEdge` holds between the two halves of a clear only because the low latch is
  cleared first; `WritingPinQuiet` needs that a channel in WRITE mode is masked unless it is
  just being turned, and that no handler of that channel is under way when the main loop
  runs. It excepts the window between lines 30 and 35 of `gpio_module.cpp`, in which an edge
  is still latched and counted.
- `FlashModule_proofs`: `TypeOK`; `WritesOnlyWhatWasSet` by `WriteKnown`, which says it of
  registers, image and page together; `NeverRestoresStale` by `NotDueMatches`: while no write
  is due, what the flags vouch for is what the image holds, and a write is due until the
  whole page is programmed; `UartUsesOffered` by `RatesOffered` and the lemma that a rate torn
  in flash has an erased half and is therefore not legal; `ErrorTellsRate` by `ErrorKnown`.
- `RegisterMap_proofs`: `TypeOK` and `AccessesInBounds` for every request, whatever its bytes
  and its length. `MapInv` joins them: a reply is made of bytes because every cell read is
  in range, and in range because the callbacks check address and count as integers, after
  the `USHORT` arithmetic of the handlers has wrapped. One lemma per handler says that its
  result keeps types and bounds. `IteratorInBounds`: `get_iterator` returns a register
  of the array of its address or nothing, although `_get_type` accepts one address too many.
- `RemoteIO_proofs`: the composition adds nothing to its parts. `RemoteImplementsRTU`: every
  step of the main loop, of the master at any rate and of the standing core is a step of
  `ModbusRTU`, whose bus is arbitrary, or leaves it alone; the only fact needed is where the
  master is in its frame (`LineOK`). So `TypeOK` and `HalfDuplex` hold of the whole.
  `RemoteImplementsSettings` does the same for `FlashModule`, and carries `UartUsesOffered`
  over. `NoIdlePoll` is the first step of everything under `Timely`: by `PassInv` a pass
  leaves nothing for the next one, because the saved form of a 0 or 1 is equal to it.

- `RegisterMap_proofs`, the store: `StoreImplemented`, for every array size, every content of
  the arrays and every request that is `Understood`. One lemma per function shows the action
  of `RegisterStore` that its handler performs. The argument has three parts. The range check
  of the callbacks is `Exists` although the address of the last register wraps to 0
  (`RangeIsExistence`). The bytes of a reply are the big-endian words of the registers, and
  the registers after a write are the words of the request (`WordsRead`, `WordsWritten`). And
  whether a reply says "done" or "refused" can be read from its first byte (`Outcome`).
- `RemoteLink_proofs`: `NoAssertFails`, `ExecutesOnlyOurFrames`, `T35OnlyInSilence` and
  `BufferStableWhileSending`, under `Timely`, for any frames, buffer and rates. The invariant
  `LinkInv` says where everything stands while one frame is received, handled and answered.
  `OneJob`: a frame is being received, waits for or is in `eMBPoll`, or its reply goes out,
  and never two of them, so that no two users of the one buffer meet. `Timing`: while a
  byte is waiting t3.5 lasts longer than the lag may, and between two bytes longer than the
  gap. `InFrame`: the bytes in the buffer, in the data register and in the handler are those of
  the frame begun last, in order, or noise. `Ready` carries that over from `eMBRTUReceive` to
  `EV_EXECUTE`, one `eMBPoll` later: the buffer is checked in one call and read in another.
- `RemoteReplies_proofs`: `ExecutesOnce` by `Once` (executed requests are those of different
  frames, which is a count of a finite set) and `RepliesMatch` by `Answering`: the request
  being answered is that of the last frame (`AnswersLast`); there are as many transmissions
  as requests to this slave alone, but for one being answered (`Counted`); each earlier one
  is the beginning of its answer (`Matched`); and what is in the buffer is the answer, without
  address and CRC until `eMBRTUSend`, of which the first `pucSndBufferCur` bytes are out
  (`OnTheWay`).
- `RemoteService_proofs`: `RepliesIntact` by `SettingInv`: only the pass after a request that
  changed a setting has anything to do (`Dirty`), and it comes before the next frame. And the
  safety part of `ImplementsService` (`RemoteImplementsService`): every step of the firmware, of the bus and
  of the master is a step of `RequestService` or leaves it alone. It needs `HearInv` (a request
  delivered and not executed is in the receiver, the buffer or the queue: nothing loses it,
  and USART and master use one rate during a frame) and `OwedInv` (an answer is owed exactly
  while it is composed or going out, so that its last byte settles it).

Failed attempts at these proofs corrected the model three times: a request that sets the
directions could change the rate register, the master changed its rate after a request to
another slave, and `Meaning` of an empty PDU was not defined.

Only model-checked: liveness under fairness, which is out of the prover's reach
(the liveness part of `ImplementsService`, `FlashRests`, `SettingsReached`). What the CRC
of a real frame is, is not a subject of either.

## 5. Not modelled

- Start-up: `eMBInit`, `eMBEnable`, and the failure of `eMBInit` for address 0 on the
  switches, whose status is ignored; the stack then stays disabled. `eMBDisable`, `eMBClose`,
  `eMBRTUStop`, `eMBRegisterCB`, `eMBSetSlaveID` are never called. LEDs.
- `GpioModule::run` in the composition: it changes pins and register cells, which neither the
  line nor the settings look at, but for the direction coils, which it only reads.
- A torn erase: a power failure during it leaves the page erased or as it was, where real
  flash may read anything in between. Only a failing erase may go either way.
- The flags in `SettingsReached`: it says that the page holds the data, not that the flag is
  there that makes a restart take it over, which run `lost` shows not to be so.
- A power failure in the composition: the line forgets everything, the settings are those of
  `settings`.
- The contents of a write whose byte count promises more than the frame holds
  (`mbfuncholding.c:130`, `mbfunccoils.c:233`): the bytes are what an older frame left;
  `AccessesInBounds` is proved for them, `ImplementsStore` excludes them (`Understood`).
- Real time: a tick is 60 microseconds where `porttimer.c:52` says 50, t3.5 is 2.1 ms and not
  1.75 ms. A master that leaves only 1.75 ms between two frames has them joined.
- Parity and framing errors (the handler does not look at them).
- Reordering by the compiler of the plain (not volatile) event queue, registers and
  `downcounter`: the model takes the order of the source.
- I2C module (empty), polling registers (not compiled), unused parts of `RemoteModule`
  (TIM3, PWM, second USART), and everything vendored that the firmware does not build:
  `FreeModbusOld`, Modbus ASCII and TCP, the demos of FreeModbus for other boards, the tests
  and the unused headers of the template library, libopencm3 (an empty submodule: its effect
  on the peripherals is modelled as external), and the release tooling. These are by far the
  largest part of the repository; the firmware's own code is about two thousand lines, and
  it builds about as many of FreeModbus.

## 6. Findings

1. `fm/mb.c:366`, run `hasty`: the address is checked when a frame is received, its PDU is
   read from the shared buffer one `eMBPoll` later. A frame for another slave received in
   between is executed.
2. `fm/rtu/mbrtu.c:157`, run `longest`: a frame of 256 bytes, the maximum, fails the assert.
3. `Modbus/modbus.cpp:88`, run `torn`: a counter is read in two loads.
4. `Module/flash_module.cpp:68`, run `lost`: saving one setting makes the other be forgotten.
5. `Modbus/modbus.cpp:161`, run `coils`: the callbacks keep one byte per coil or input also in
   the buffer, where `mb.h:356` promises eight to a byte. Several coils at once are neither
   read nor written correctly; a single one is (`registers`).
6. `Module/usart_module.cpp:46`, run `slow`: t3.5 stays that of the default rate. At a rate at
   which a character takes longer than 2.1 ms every byte ends a frame.

Seen on the way, without a run of their own in the list:

- `fm/rtu/mbrtu.c:198`, configuration `tooslow`: a reply is given up only while the newer
  frame is still being received, not once it is complete.
- `fm/rtu/mbrtu.c:262`, configuration `pause`: a pause of t3.5 in a frame may fail the assert
  at line 347.
- `fm/functions/mbfuncholding.c:186`: the high byte of the register count is overwritten, so
  that a read of 257 registers is answered as one of 1.
- `fm/functions/mbfuncholding.c:288`: function 23 has written when it answers that its read
  is impossible (`RefuseHalfway`).
- `Module/usart_module.cpp:43`, `Module/flash_module.cpp:61`: the reply to a request that
  writes a setting may itself be disturbed, by the change of the rate or by the erase;
  `RepliesIntact` says that no other reply is, as long as the directions are 0 or 1.
- `Module/flash_module.cpp:29`, configuration `odd`: a direction coil that is neither 0 nor 1,
  as a function 15 stores it (finding 5), never equals its saved form. The page is erased and
  programmed on every turn of the main loop, which wears it out, and replies to other
  requests are disturbed. A frame that arrives during such an erase can also fail the assert
  at `mbrtu.c:347`.
- `Module/gpio_module.cpp:30`: a channel is in WRITE mode before its line is masked; an edge
  in between is still latched and counted.

## 7. Plan

Done: the modules of section 2, their runs and the theorems of section 4.

Left, in this order:

1. `Boot`: address switches, `eMBInit`, `eMBEnable`, the order of start-up and of the first
   interrupts; `eMBState` added to `ModbusRTU`; restart in `RemoteIO`.
2. An atomic clear that `GpioModule` implements for each channel, as an abstract
   specification.
3. `RegisterStore` with several bits at a time as the standard packs them, so that `coils`
   becomes a violation of the refinement itself.
