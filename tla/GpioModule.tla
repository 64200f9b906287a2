------------------------------ MODULE GpioModule ------------------------------
(* The eight I/O channels of gpio_module.cpp.  The input side of a channel is a  *)
(* pin whose edges raise an EXTI interrupt; the handler puts its level into the  *)
(* discrete inputs, latches the edge and counts pulses.  The main loop serves    *)
(* the coils the Modbus master writes: direction, output value, latch clear and  *)
(* counter clear.  Two flows of control share the register arrays:               *)
(*   - the main loop: the master's requests (inside eMBPoll), GpioModule::run;   *)
(*   - the EXTI handlers, which preempt it and do not preempt one another.       *)
(* Channels do not read each other's registers, so a loop of the main program    *)
(* over all channels is one step wherever it touches a single thing the handlers *)
(* touch, too; the loop over the directions touches two and goes step by step.   *)
EXTENDS Integers

CONSTANTS
    Pin,                 \* 0..7 in the code
    Shared,              \* the pins of exti9_5_isr: 5..7
    MAX_VALUE_COUNTER,   \* 65534
    ByteSize,            \* values of a byte, for the two halves of a counter: 256
    SetByte, WriteByte, ClearByte,   \* bytes the master may write into these coils
    CounterRead,         \* the channels whose counter it reads
    MaxEdges             \* bound: edges of one pin between two clears of its counter

ASSUME GpioAssumption ==
    /\ Pin \subseteq Nat /\ Pin # {} /\ Shared \subseteq Pin /\ CounterRead \subseteq Pin
    /\ \A i, j \in Pin : i..j \subseteq Pin
    /\ \A i, j \in Shared : i..j \subseteq Shared
    /\ MAX_VALUE_COUNTER \in Nat \ {0} /\ ByteSize \in Nat \ {0} /\ MaxEdges \in Nat
    /\ SetByte \subseteq Nat /\ WriteByte \subseteq Nat /\ ClearByte \subseteq Nat

VARIABLES
    level,                     \* the input pins on port C
    pr, imr,                   \* EXTI: pending and mask register
    isr, pin,                  \* where a handler is, and the channel it is at
    gpioRead,                  \* Discrete::GPIO_READ_BITi
    latchLow, latchHigh,       \* Discrete::LATCHi_LOW, LATCHi_HIGH
    counter,                   \* Input::COUNTERi_VALUE
    frontRising, frontFalling, \* the static flags of the handlers
    gpioSet, gpioWrite,        \* Coil::GPIO_SET_BITi, GPIO_WRITE_BITi
    latchClear, counterClear,  \* Coil::LATCH_CLEAR, COUNTERi_CLEAR
    mode, cached, odr,         \* _gpio[i].mode, _cached_gpio_write, the output pins
    main, channel,             \* where the main loop is, the channel its loop is at
    asked, replyHigh, reply,   \* the counter being read, its first byte, the value sent
    seen,                      \* history: the values it had during that read
    edges, missed, edged       \* history: edges since the last clear, of them two were
                               \* seen as one, any edge since the start

pinVars     == <<level, edges, missed, edged>>
extiVars    == <<pr, imr, isr, pin>>
inputVars   == <<gpioRead, latchLow, latchHigh, counter, frontRising, frontFalling>>
coilVars    == <<gpioSet, gpioWrite, latchClear, counterClear>>
outputVars  == <<mode, cached, odr>>
mainVars    == <<main, channel>>
replyVars   == <<asked, replyHigh, reply>>
gpioVars == <<pinVars, extiVars, inputVars, coilVars, outputVars, mainVars, replyVars, seen>>

Zero == [i \in Pin |-> 0]

\* _gpio and the register arrays as they are defined; a pin may be high at start.
Init ==
    /\ level \in [Pin -> {0, 1}]
    /\ pr = Zero /\ imr = [i \in Pin |-> 1] /\ isr = "none" /\ pin = (CHOOSE i \in Pin : TRUE)
    /\ gpioRead = Zero /\ latchLow = [i \in Pin |-> 1] /\ latchHigh = Zero
    /\ counter = Zero /\ frontRising = Zero /\ frontFalling = Zero
    /\ gpioSet = Zero /\ gpioWrite = Zero /\ latchClear = 0 /\ counterClear = Zero
    /\ mode = Zero /\ cached = Zero /\ odr = Zero
    /\ main = "poll" /\ channel = (CHOOSE i \in Pin : TRUE)
    /\ asked = (CHOOSE i \in Pin : TRUE) /\ replyHigh = 0 /\ reply = 0 /\ seen = {0}
    /\ edges = Zero
    /\ missed = [i \in Pin |-> FALSE] /\ edged = [i \in Pin |-> FALSE]

(* ------------------------------ the pins ---------------------------------------- *)

\* The channel's handler has reset the request and not yet read the pin.
BeingRead(i) == isr = "read" /\ pin = i

\* An input pin changes.  The edge detector sets the pending bit, mask or not.
PinChanges(i) ==
    /\ edges[i] < MaxEdges
    /\ level' = [level EXCEPT ![i] = 1 - @]
    /\ pr' = [pr EXCEPT ![i] = 1]
    /\ edges' = [edges EXCEPT ![i] = @ + 1]
    /\ missed' = [missed EXCEPT ![i] = @ \/ pr[i] = 1 \/ BeingRead(i)]
    /\ edged' = [edged EXCEPT ![i] = TRUE]
    /\ UNCHANGED <<imr, isr, pin, inputVars, coilVars, outputVars, mainVars, replyVars, seen>>

(* ------------------------------ the EXTI handlers -------------------------------- *)

Requested(i) == pr[i] = 1 /\ imr[i] = 1

\* Mutant: the shared handler resets the requests of all its lines at once.
ResetGroup(i) == pr' = [j \in Pin |-> IF j = i \/ j \in Shared THEN 0 ELSE pr[j]]

\* exti_reset_request
ResetRequest(i) == pr' = [pr EXCEPT ![i] = 0]

\* exti0_isr .. exti4_isr: the request is reset before the pin is read.
EnterOwn(i) ==
    /\ isr = "none" /\ i \notin Shared /\ Requested(i)
    /\ ResetRequest(i)
    /\ isr' = "read" /\ pin' = i
    /\ UNCHANGED <<pinVars, imr, inputVars, coilVars, outputVars, mainVars, replyVars, seen>>

\* exti9_5_isr: it looks at all its lines in turn, whatever their mask.
EnterShared ==
    /\ isr = "none" /\ \E i \in Shared : Requested(i)
    /\ isr' = "scan"
    /\ pin' \in {i \in Shared : \A j \in Shared : i <= j}
    /\ UNCHANGED <<pinVars, pr, imr, inputVars, coilVars, outputVars, mainVars, replyVars, seen>>

\* The handler goes on with the next line, or returns.
NextLine ==
    IF pin \in Shared /\ pin + 1 \in Shared
    THEN isr' = "scan" /\ pin' = pin + 1
    ELSE isr' = "none" /\ UNCHANGED pin

ScanLine ==
    /\ isr = "scan"
    /\ IF pr[pin] = 1
       THEN ResetRequest(pin) /\ isr' = "read" /\ UNCHANGED pin
       ELSE NextLine /\ UNCHANGED pr
    /\ UNCHANGED <<pinVars, imr, inputVars, coilVars, outputVars, mainVars, replyVars, seen>>

\* Mutant: the counter starts again one too early.
CountUpEarly(c) == IF c + 1 >= MAX_VALUE_COUNTER THEN 0 ELSE c + 1

\* Mutant: it starts again one too late.
CountUpLate(c) == IF c > MAX_VALUE_COUNTER THEN 0 ELSE c + 1

\* The counter is incremented, and set to 0 above MAX_VALUE_COUNTER.
CountUp(c) == IF c + 1 > MAX_VALUE_COUNTER THEN 0 ELSE c + 1

\* Mutant: the falling front is not forgotten when a pulse has been counted.
FrontsKeepFalling(rising, falling, pulse) ==
    /\ frontRising' = [frontRising EXCEPT ![pin] = IF pulse THEN 0 ELSE rising]
    /\ frontFalling' = [frontFalling EXCEPT ![pin] = falling]

\* Both fronts are forgotten when they make a pulse.
Fronts(rising, falling, pulse) ==
    /\ frontRising' = [frontRising EXCEPT ![pin] = IF pulse THEN 0 ELSE rising]
    /\ frontFalling' = [frontFalling EXCEPT ![pin] = IF pulse THEN 0 ELSE falling]

\* The pin is read, the edge latched, and a rising and a falling front make a pulse.
ReadPin ==
    /\ isr = "read"
    /\ gpioRead' = [gpioRead EXCEPT ![pin] = level[pin]]
    /\ latchLow' = [latchLow EXCEPT ![pin] = 1 - level[pin]]
    /\ latchHigh' = [latchHigh EXCEPT ![pin] = 1 - level[pin]]
    /\ LET rising  == IF level[pin] = 1 THEN 1 ELSE frontRising[pin]
           falling == IF level[pin] = 0 THEN 1 ELSE frontFalling[pin]
           pulse   == rising = 1 /\ falling = 1
       IN  /\ Fronts(rising, falling, pulse)
           /\ counter' = [counter EXCEPT ![pin] = IF pulse THEN CountUp(@) ELSE @]
    /\ seen' = IF main = "low" /\ pin = asked THEN seen \cup {counter'[pin]} ELSE seen
    /\ NextLine
    /\ UNCHANGED <<pinVars, pr, imr, coilVars, outputVars, mainVars, replyVars>>

(* ------------------------------ the main loop ------------------------------------ *)

\* The handlers have a higher priority: the main loop runs when none has work.
MainRuns == isr = "none" /\ \A i \in Pin : ~Requested(i)

\* eMBRegCoilsCB: a request writes coils (one step each) before run() looks at them.
WriteCoil ==
    /\ MainRuns /\ main = "poll"
    /\ \/ /\ \E i \in Pin, b \in SetByte : gpioSet' = [gpioSet EXCEPT ![i] = b]
          /\ UNCHANGED <<gpioWrite, latchClear, counterClear>>
       \/ /\ \E i \in Pin, b \in WriteByte : gpioWrite' = [gpioWrite EXCEPT ![i] = b]
          /\ UNCHANGED <<gpioSet, latchClear, counterClear>>
       \/ /\ latchClear' \in ClearByte
          /\ UNCHANGED <<gpioSet, gpioWrite, counterClear>>
       \/ /\ \E i \in Pin, b \in ClearByte : counterClear' = [counterClear EXCEPT ![i] = b]
          /\ UNCHANGED <<gpioSet, gpioWrite, latchClear>>
    /\ UNCHANGED <<pinVars, extiVars, inputVars, outputVars, mainVars, replyVars, seen>>

\* eMBRegInputCB loads a counter twice, once for each byte of the reply.
ReadCounterHigh ==
    /\ MainRuns /\ main = "poll"
    /\ \E i \in CounterRead :
         /\ asked' = i /\ replyHigh' = counter[i] \div ByteSize /\ seen' = {counter[i]}
    /\ main' = "low"
    /\ UNCHANGED <<pinVars, extiVars, inputVars, coilVars, outputVars, reply, channel>>

ReadCounterLow ==
    /\ MainRuns /\ main = "low"
    /\ reply' = replyHigh * ByteSize + (counter[asked] % ByteSize)
    /\ main' = "answered"
    /\ UNCHANGED <<pinVars, extiVars, inputVars, coilVars, outputVars, asked, replyHigh, seen,
                   channel>>

\* _polling_gpio_registers begins with the directions, the first channel first.
BeginModes ==
    /\ MainRuns /\ main \in {"poll", "answered"}
    /\ main' = "mode"
    /\ channel' \in {i \in Pin : \A j \in Pin : i <= j}
    /\ UNCHANGED <<pinVars, extiVars, inputVars, coilVars, outputVars, replyVars, seen>>

\* The loop goes on with the next channel, or is done.
NextChannel ==
    IF channel + 1 \in Pin
    THEN main' = "mode" /\ channel' = channel + 1
    ELSE main' = "outputs" /\ UNCHANGED channel

\* A direction that differs from its coil is noted: 1 is WRITE, any other byte READ.
SetMode ==
    /\ MainRuns /\ main = "mode"
    /\ IF gpioSet[channel] = mode[channel]
       THEN NextChannel /\ UNCHANGED mode
       ELSE /\ mode' = [mode EXCEPT ![channel] = IF gpioSet[channel] = 1 THEN 1 ELSE 0]
            /\ main' = "mask" /\ UNCHANGED channel
    /\ UNCHANGED <<pinVars, extiVars, inputVars, coilVars, cached, odr, replyVars, seen>>

\* Mutant: the interrupt of a channel turned to WRITE is left enabled.
MaskNothing == UNCHANGED imr

\* exti_disable_request in WRITE mode, exti_enable_request in READ mode.
MaskWritten == imr' = [imr EXCEPT ![channel] = 1 - mode[channel]]

\* Only then is the line masked or enabled: an edge may have come in between.
SetMask ==
    /\ MainRuns /\ main = "mask"
    /\ MaskWritten
    /\ NextChannel
    /\ UNCHANGED <<pinVars, pr, isr, pin, inputVars, coilVars, outputVars, replyVars, seen>>

\* Mutant: the cached output follows the coil of a channel in READ mode, too.
CacheAlways == cached' = gpioWrite

\* The output value is noted for the channels in WRITE mode only.
CacheWritten == cached' = [i \in Pin |-> IF mode[i] = 1 THEN gpioWrite[i] ELSE cached[i]]

\* Then _polling_gpio_registers drives the outputs.
PollOutputs ==
    /\ MainRuns /\ main = "outputs"
    /\ odr' = [i \in Pin |->
                 IF mode[i] = 1 /\ cached[i] # gpioWrite[i] /\ gpioWrite[i] \in {0, 1}
                 THEN gpioWrite[i] ELSE odr[i]]
    /\ CacheWritten
    /\ main' = "latchLow"
    /\ UNCHANGED <<pinVars, extiVars, inputVars, coilVars, mode, channel, replyVars, seen>>

_polling_gpio_registers == BeginModes \/ SetMode \/ SetMask \/ PollOutputs

\* Mutant: the second array is filled like the first.
ClearedHighLikeLow == [i \in Pin |-> 1]

\* clear_high of _latch_clear
ClearedHigh == Zero

\* _latch_clear: first the low latches, then the high ones.
LatchClearLow ==
    /\ MainRuns /\ main = "latchLow"
    /\ IF latchClear = 0
       THEN main' = "counters" /\ UNCHANGED latchLow
       ELSE main' = "latchHigh" /\ latchLow' = [i \in Pin |-> 1]
    /\ UNCHANGED <<pinVars, extiVars, gpioRead, latchHigh, counter, frontRising,
                   frontFalling, coilVars, outputVars, replyVars, seen, channel>>

LatchClearHigh ==
    /\ MainRuns /\ main = "latchHigh"
    /\ latchHigh' = ClearedHigh
    /\ latchClear' = 0
    /\ main' = "counters"
    /\ UNCHANGED <<pinVars, extiVars, gpioRead, latchLow, counter, frontRising, frontFalling,
                   gpioSet, gpioWrite, counterClear, outputVars, replyVars, seen, channel>>

\* _counter_clear: the fronts of the handlers stay.
_counter_clear ==
    /\ MainRuns /\ main = "counters"
    /\ counter' = [i \in Pin |-> IF counterClear[i] # 0 THEN 0 ELSE counter[i]]
    /\ counterClear' = Zero
    /\ edges' = [i \in Pin |-> IF counterClear[i] # 0 THEN pr[i] ELSE edges[i]]
    /\ missed' = [i \in Pin |-> missed[i] /\ (counterClear[i] # 0 => pr[i] = 1)]
    /\ main' = "poll"
    /\ UNCHANGED <<level, edged, extiVars, gpioRead, latchLow, latchHigh, frontRising,
                   frontFalling, gpioSet, gpioWrite, latchClear, outputVars, replyVars, seen,
                   channel>>

(* ------------------------------ the system ---------------------------------------- *)

Exti == (\E i \in Pin : EnterOwn(i)) \/ EnterShared \/ ScanLine \/ ReadPin
Main == \/ WriteCoil \/ ReadCounterHigh \/ ReadCounterLow
        \/ _polling_gpio_registers \/ LatchClearLow \/ LatchClearHigh \/ _counter_clear

Next == (\E i \in Pin : PinChanges(i)) \/ Exti \/ Main

Spec == Init /\ [][Next]_gpioVars

(* ------------------------------ properties ----------------------------------------- *)

\* Every variable has its type; the counters stay below the wrap.
TypeOK ==
    /\ level \in [Pin -> {0, 1}] /\ pr \in [Pin -> {0, 1}] /\ imr \in [Pin -> {0, 1}]
    /\ isr \in {"none", "scan", "read"} /\ pin \in Pin
    /\ gpioRead \in [Pin -> {0, 1}]
    /\ latchLow \in [Pin -> {0, 1}] /\ latchHigh \in [Pin -> {0, 1}]
    /\ counter \in [Pin -> 0..MAX_VALUE_COUNTER]
    /\ frontRising \in [Pin -> {0, 1}] /\ frontFalling \in [Pin -> {0, 1}]
    /\ gpioSet \in [Pin -> Nat] /\ gpioWrite \in [Pin -> Nat]
    /\ latchClear \in Nat /\ counterClear \in [Pin -> Nat]
    /\ mode \in [Pin -> {0, 1}] /\ cached \in [Pin -> Nat] /\ odr \in [Pin -> {0, 1}]
    /\ main \in {"poll", "low", "answered", "mode", "mask", "outputs",
                 "latchLow", "latchHigh", "counters"}
    /\ channel \in Pin /\ asked \in Pin
    /\ edges \in [Pin -> Nat] /\ missed \in [Pin -> BOOLEAN] /\ edged \in [Pin -> BOOLEAN]

\* Once a pin has changed, its discrete input shows its level unless the handler is
\* still to come: no edge is lost between the reset of the request and the read,
\* and none while another line of the shared handler is served.
InputFresh ==
    \A i \in Pin : edged[i] /\ pr[i] = 0 /\ ~BeingRead(i) => gpioRead[i] = level[i]

\* The two latches of a channel are cleared (1, 0), or tell the edge its discrete
\* input shows: (0, 0) rising, (1, 1) falling.  It holds in the middle of a clear
\* into which an edge falls, too: never (0, 1), never the wrong edge.
LatchTellsLastEdge ==
    \A i \in Pin : /\ latchLow[i] = 0 => latchHigh[i] = 0 /\ gpioRead[i] = 1
                   /\ latchHigh[i] = 1 => latchLow[i] = 1 /\ gpioRead[i] = 0

\* The fronts that have been counted, or are half a pulse.
Counted(i) == 2 * counter[i] + frontRising[i] + frontFalling[i]

Unhandled(i) == pr[i] + (IF BeingRead(i) THEN 1 ELSE 0)

\* A counter never gets ahead of its pin: a pulse takes two edges since the clear,
\* but for one front from before it, which _counter_clear leaves in the handler.
NoPhantomPulse == \A i \in Pin : Counted(i) + Unhandled(i) <= edges[i] + 1

\* A counter misses nothing, but for its wraps at MAX_VALUE_COUNTER, when no two edges
\* came before the handler had read the first, whatever was cleared meanwhile.
CountsEveryPulse ==
    \A i \in Pin : ~missed[i] /\ Unhandled(i) = 0 =>
      \E carried \in {0, 1}, wraps \in 0..edges[i] :
        Counted(i) + 2 * (MAX_VALUE_COUNTER + 1) * wraps = edges[i] + carried

\* After the outputs were polled, a channel in WRITE mode drives what the master
\* wrote last, though it was written while the channel was in READ mode.
OutputFollows ==
    main \in {"latchLow", "latchHigh", "counters"} =>
      \A i \in Pin : mode[i] = 1 /\ gpioWrite[i] \in {0, 1} => odr[i] = gpioWrite[i]

\* The direction of a channel has been stored and its line not yet masked or enabled.
Turning(i) == main = "mask" /\ channel = i

\* A channel in WRITE mode with an EXTI line of its own leaves its inputs and latches, its
\* counter and the fronts in its handler alone, but for what the master clears: nothing
\* of an edge from before it was turned comes through afterwards.  The exceptions are an
\* edge in the few instructions between the two stores that turn it (gpio_module.cpp:30,
\* 35), and the shared handler, which serves its lines even when they are masked.
WritingPinKeepsInputs ==
    \A i \in Pin \ Shared : mode[i] = 1 /\ ~Turning(i) =>
      /\ gpioRead'[i] = gpioRead[i] /\ counter'[i] \in {counter[i], 0}
      /\ latchLow'[i] \in {latchLow[i], 1} /\ latchHigh'[i] \in {latchHigh[i], 0}
      /\ frontRising'[i] = frontRising[i] /\ frontFalling'[i] = frontFalling[i]

WritingPinQuiet == [][WritingPinKeepsInputs]_gpioVars

\* eMBRegInputCB supplies the current value of a register (mb.h:294): the value it
\* answers with is one the counter had while it was read.
ReadsCurrentValue == main = "answered" => reply \in seen
===============================================================================
