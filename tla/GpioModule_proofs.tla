--------------------------- MODULE GpioModule_proofs ---------------------------
(* For every set of channels, every split of them between handlers of their own  *)
(* and the shared one, every bound of the counters and any bytes in the coils:   *)
(* the types, the freshness of the inputs, the latches, the counters and the     *)
(* outputs of GpioModule.                                                        *)
EXTENDS GpioModule, TLAPS

\* What the main loop and the handlers know of one another: a channel is masked
\* exactly in WRITE mode, but while it is being turned, the shared handler scans only
\* its lines, and a handler of its own reads a pin only when the line is not masked.
MaskMatchesMode == \A i \in Pin : imr[i] = 1 - mode[i] \/ Turning(i)
HandlerAtLine ==
    /\ isr = "scan" => pin \in Shared
    /\ isr = "read" /\ pin \notin Shared => imr[pin] = 1

\* The output pin drives what is cached for it.
CacheMatchesPin == \A i \in Pin : cached[i] \in {0, 1} => odr[i] = cached[i]

(* ------------------------------ types -------------------------------------------- *)

\* The registers, as the program starts, have their types.
LEMMA InitTypeOK == Init => TypeOK
BY GpioAssumption DEF Init, TypeOK, Zero

\* Every step keeps the types: of the pins and the EXTI, of the handlers, of the
\* main loop.
LEMMA TypeStep == TypeOK /\ [Next]_gpioVars => TypeOK'
<1>0. /\ Pin \subseteq Nat /\ Shared \subseteq Pin /\ CounterRead \subseteq Pin
      /\ MAX_VALUE_COUNTER \in Nat \ {0}
      /\ SetByte \subseteq Nat /\ WriteByte \subseteq Nat /\ ClearByte \subseteq Nat
  BY GpioAssumption
<1> USE <1>0
<1> SUFFICES ASSUME TypeOK, [Next]_gpioVars PROVE TypeOK'
  OBVIOUS
<1>1. ASSUME NEW i \in Pin, PinChanges(i) PROVE TypeOK'
  BY <1>1 DEF TypeOK, PinChanges, inputVars, coilVars, outputVars, mainVars, replyVars
<1>2. ASSUME NEW i \in Pin, EnterOwn(i) PROVE TypeOK'
  BY <1>2 DEF TypeOK, EnterOwn, ResetRequest, pinVars, inputVars, coilVars, outputVars,
              mainVars, replyVars
<1>3. CASE EnterShared
  BY <1>3 DEF TypeOK, EnterShared, pinVars, inputVars, coilVars, outputVars, mainVars,
              replyVars
<1>4. CASE ScanLine
  BY <1>4 DEF TypeOK, ScanLine, ResetRequest, NextLine, pinVars, inputVars, coilVars,
              outputVars, mainVars, replyVars
<1>5. CASE ReadPin
  BY <1>5 DEF TypeOK, ReadPin, NextLine, Fronts, CountUp, pinVars, coilVars, outputVars,
              mainVars, replyVars
<1>6. CASE WriteCoil
  <2>1. UNCHANGED <<pinVars, extiVars, inputVars, outputVars, mainVars, replyVars>>
    BY <1>6 DEF WriteCoil
  <2>2. gpioSet' \in [Pin -> Nat] /\ gpioWrite' \in [Pin -> Nat]
        /\ latchClear' \in Nat /\ counterClear' \in [Pin -> Nat]
    BY <1>6 DEF TypeOK, WriteCoil
  <2> QED
    BY <2>1, <2>2 DEF TypeOK, pinVars, extiVars, inputVars, outputVars, mainVars, replyVars
<1>7. CASE ReadCounterHigh
  BY <1>7 DEF TypeOK, ReadCounterHigh, pinVars, extiVars, inputVars, coilVars, outputVars
<1>8. CASE ReadCounterLow
  BY <1>8 DEF TypeOK, ReadCounterLow, pinVars, extiVars, inputVars, coilVars, outputVars
<1>9. CASE _polling_gpio_registers
  <2>1. CASE BeginModes
    BY <2>1 DEF TypeOK, BeginModes, pinVars, extiVars, inputVars, coilVars, outputVars, replyVars
  <2>2. CASE SetMode
    BY <2>2 DEF TypeOK, SetMode, NextChannel, pinVars, extiVars, inputVars, coilVars, replyVars
  <2>3. CASE SetMask
    BY <2>3 DEF TypeOK, SetMask, MaskWritten, NextChannel, pinVars, inputVars, coilVars,
                outputVars, replyVars
  <2>4. CASE PollOutputs
    BY <2>4 DEF TypeOK, PollOutputs, CacheWritten, pinVars, extiVars, inputVars, coilVars,
                replyVars
  <2> QED
    BY <1>9, <2>1, <2>2, <2>3, <2>4 DEF _polling_gpio_registers
<1>10. CASE LatchClearLow
  BY <1>10 DEF TypeOK, LatchClearLow, pinVars, extiVars, coilVars, outputVars, replyVars
<1>11. CASE LatchClearHigh
  BY <1>11 DEF TypeOK, LatchClearHigh, ClearedHigh, Zero, pinVars, extiVars, outputVars,
               replyVars
<1>12. CASE _counter_clear
  BY <1>12 DEF TypeOK, _counter_clear, Zero, extiVars, outputVars, replyVars
<1>13. CASE UNCHANGED gpioVars
  BY <1>13 DEF TypeOK, gpioVars, pinVars, extiVars, inputVars, coilVars, outputVars,
               mainVars, replyVars
<1> QED
  BY <1>1, <1>2, <1>3, <1>4, <1>5, <1>6, <1>7, <1>8, <1>9, <1>10, <1>11, <1>12, <1>13
  DEF Next, Exti, Main

\* The registers keep their types and the counters stay at or below
\* MAX_VALUE_COUNTER, so a uint16_t never wraps.
THEOREM GpioTypeCorrect == Spec => []TypeOK
<1>1. Init => TypeOK
  BY InitTypeOK
<1>2. TypeOK /\ [Next]_gpioVars => TypeOK'
  BY TypeStep
<1> QED
  BY <1>1, <1>2, PTL DEF Spec

(* ------------------------------ the input side ------------------------------------- *)

\* An input stays fresh: its request is reset before its pin is read, a change of the
\* pin sets the request, and nothing else touches either.
LEMMA FreshStep == TypeOK /\ InputFresh /\ [Next]_gpioVars => InputFresh'
<1> SUFFICES ASSUME TypeOK, InputFresh, [Next]_gpioVars PROVE InputFresh'
  OBVIOUS
<1> USE DEF InputFresh, BeingRead
<1>1. ASSUME NEW i \in Pin, PinChanges(i) PROVE InputFresh'
  BY <1>1 DEF TypeOK, PinChanges, inputVars
<1>2. ASSUME NEW i \in Pin, EnterOwn(i) PROVE InputFresh'
  BY <1>2 DEF TypeOK, EnterOwn, ResetRequest, pinVars, inputVars
<1>3. CASE EnterShared
  BY <1>3 DEF TypeOK, EnterShared, pinVars, inputVars
<1>4. CASE ScanLine
  BY <1>4 DEF TypeOK, ScanLine, ResetRequest, NextLine, pinVars, inputVars
<1>5. CASE ReadPin
  BY <1>5 DEF TypeOK, ReadPin, NextLine, pinVars
<1>6. CASE Main \/ UNCHANGED gpioVars
  <2>1. UNCHANGED <<level, edged, pr, isr, pin, gpioRead>>
    BY <1>6 DEF Main, WriteCoil, ReadCounterHigh, ReadCounterLow, _polling_gpio_registers,
                BeginModes, SetMode, SetMask, PollOutputs,
                LatchClearLow, LatchClearHigh, _counter_clear, gpioVars, pinVars, extiVars,
                inputVars
  <2> QED
    BY <2>1
<1> QED
  BY <1>1, <1>2, <1>3, <1>4, <1>5, <1>6 DEF Next, Exti

\* Once a pin has changed, its discrete input is its level unless a handler is due.
THEOREM InputFreshCorrect == Spec => []InputFresh
<1>1. Init => InputFresh
  <2>1. Init => edged = [i \in Pin |-> FALSE]
    BY DEF Init
  <2> QED
    BY <2>1 DEF InputFresh
<1>2. TypeOK /\ InputFresh /\ [Next]_gpioVars => InputFresh'
  BY FreshStep
<1> QED
  BY <1>1, <1>2, GpioTypeCorrect, PTL DEF Spec

\* A handler sets both latches with the input it read; a clear moves either of them
\* only towards (1, 0), whatever a handler set in between.
LEMMA LatchStep == TypeOK /\ LatchTellsLastEdge /\ [Next]_gpioVars => LatchTellsLastEdge'
<1> SUFFICES ASSUME TypeOK, LatchTellsLastEdge, [Next]_gpioVars PROVE LatchTellsLastEdge'
  OBVIOUS
<1> USE DEF LatchTellsLastEdge
<1>1. CASE ReadPin
  BY <1>1 DEF TypeOK, ReadPin
<1>2. CASE LatchClearLow
  BY <1>2 DEF TypeOK, LatchClearLow
<1>3. CASE LatchClearHigh
  BY <1>3 DEF TypeOK, LatchClearHigh, ClearedHigh, Zero
<1>4. CASE \/ (\E i \in Pin : PinChanges(i) \/ EnterOwn(i)) \/ EnterShared \/ ScanLine
           \/ WriteCoil \/ ReadCounterHigh \/ ReadCounterLow \/ _polling_gpio_registers
           \/ _counter_clear \/ UNCHANGED gpioVars
  <2>1. UNCHANGED <<gpioRead, latchLow, latchHigh>>
    BY <1>4 DEF PinChanges, EnterOwn, EnterShared, ScanLine, WriteCoil, ReadCounterHigh,
                ReadCounterLow, _polling_gpio_registers, BeginModes, SetMode, SetMask,
                PollOutputs, _counter_clear, gpioVars, inputVars
  <2> QED
    BY <2>1
<1> QED
  BY <1>1, <1>2, <1>3, <1>4 DEF Next, Exti, Main

\* The latches of a channel are cleared, or tell the edge its discrete input shows.
THEOREM LatchesCorrect == Spec => []LatchTellsLastEdge
<1>1. Init => LatchTellsLastEdge
  <2> SUFFICES ASSUME Init, NEW i \in Pin PROVE latchLow[i] # 0 /\ latchHigh[i] # 1
    BY DEF LatchTellsLastEdge
  <2>1. latchLow[i] = 1 /\ latchHigh[i] = 0
    BY DEF Init, Zero
  <2> QED
    BY <2>1
<1>2. TypeOK /\ LatchTellsLastEdge /\ [Next]_gpioVars => LatchTellsLastEdge'
  BY LatchStep
<1> QED
  BY <1>1, <1>2, GpioTypeCorrect, PTL DEF Spec

(* ------------------------------ the counters ----------------------------------------- *)

\* At most one front is remembered: two make a pulse.
HalfPulse == \A i \in Pin : frontRising[i] + frontFalling[i] <= 1

\* The handler remembers one front, or counts a pulse and remembers none.
LEMMA HalfPulseStep == TypeOK /\ HalfPulse /\ [Next]_gpioVars => HalfPulse'
<1> SUFFICES ASSUME TypeOK, HalfPulse, [Next]_gpioVars PROVE HalfPulse'
  OBVIOUS
<1>1. CASE ReadPin
  BY <1>1 DEF TypeOK, HalfPulse, ReadPin, Fronts
<1>2. CASE \/ (\E i \in Pin : PinChanges(i) \/ EnterOwn(i)) \/ EnterShared \/ ScanLine
           \/ Main \/ UNCHANGED gpioVars
  <2>1. UNCHANGED <<frontRising, frontFalling>>
    BY <1>2 DEF PinChanges, EnterOwn, EnterShared, ScanLine, Main, WriteCoil,
                ReadCounterHigh, ReadCounterLow, _polling_gpio_registers, BeginModes,
                SetMode, SetMask, PollOutputs, LatchClearLow,
                LatchClearHigh, _counter_clear, gpioVars, inputVars
  <2> QED
    BY <2>1 DEF HalfPulse
<1> QED
  BY <1>1, <1>2 DEF Next, Exti

\* Handling one edge adds at most one to Counted: a front, or the second half of a
\* pulse in place of a front; a wrap takes some away.
LEMMA ReadPinCounts ==
  ASSUME TypeOK, ReadPin, NEW j \in Pin
  PROVE  /\ Counted(j)' \in Int /\ Counted(j) \in Int
         /\ Counted(j)' <= Counted(j) + 1
         /\ j # pin => Counted(j)' = Counted(j)
<1>1. /\ level[j] \in {0, 1} /\ frontRising[j] \in {0, 1} /\ frontFalling[j] \in {0, 1}
      /\ counter[j] \in Nat
  BY GpioAssumption DEF TypeOK
<1>2. ASSUME j # pin PROVE Counted(j)' = Counted(j)
  BY <1>2 DEF TypeOK, ReadPin, Fronts, Counted
<1> DEFINE rising  == IF level[j] = 1 THEN 1 ELSE frontRising[j]
           falling == IF level[j] = 0 THEN 1 ELSE frontFalling[j]
           pulse   == rising = 1 /\ falling = 1
<1>3. ASSUME j = pin PROVE Counted(j)' \in Int /\ Counted(j)' <= Counted(j) + 1
  <2>1. /\ frontRising'[j] = IF pulse THEN 0 ELSE rising
        /\ frontFalling'[j] = IF pulse THEN 0 ELSE falling
        /\ counter'[j] = IF pulse THEN CountUp(counter[j]) ELSE counter[j]
    BY <1>3 DEF TypeOK, ReadPin, Fronts
  <2>2. CountUp(counter[j]) \in 0..(counter[j] + 1)
    BY <1>1 DEF CountUp
  <2>3. CASE level[j] = 1
    BY <1>1, <2>1, <2>2, <2>3 DEF Counted
  <2>4. CASE level[j] = 0
    BY <1>1, <2>1, <2>2, <2>4 DEF Counted
  <2> QED
    BY <1>1, <2>3, <2>4
<1>4. Counted(j) \in Int
  BY <1>1 DEF Counted
<1> QED
  BY <1>2, <1>3, <1>4

\* No step lets the edges handled get ahead of the edges of the pin.
LEMMA PhantomStep == TypeOK /\ HalfPulse /\ NoPhantomPulse /\ [Next]_gpioVars => NoPhantomPulse'
<1> SUFFICES ASSUME TypeOK, HalfPulse, NoPhantomPulse, [Next]_gpioVars, NEW j \in Pin
             PROVE  (Counted(j) + Unhandled(j) <= edges[j] + 1)'
  BY DEF NoPhantomPulse
<1>0. /\ Counted(j) + Unhandled(j) <= edges[j] + 1
      /\ pr[j] \in {0, 1} /\ frontRising[j] \in {0, 1} /\ frontFalling[j] \in {0, 1}
      /\ counter[j] \in Nat /\ edges[j] \in Nat
  BY GpioAssumption DEF TypeOK, NoPhantomPulse
<1>1. ASSUME NEW i \in Pin, PinChanges(i) PROVE (Counted(j) + Unhandled(j) <= edges[j] + 1)'
  BY <1>0, <1>1 DEF TypeOK, PinChanges, Counted, Unhandled, BeingRead, inputVars
<1>2. ASSUME NEW i \in Pin, EnterOwn(i) PROVE (Counted(j) + Unhandled(j) <= edges[j] + 1)'
  BY <1>0, <1>2 DEF TypeOK, EnterOwn, Requested, ResetRequest, Counted, Unhandled, BeingRead,
                    pinVars, inputVars
<1>3. CASE EnterShared
  BY <1>0, <1>3 DEF EnterShared, Counted, Unhandled, BeingRead, pinVars, inputVars
<1>4. CASE ScanLine
  BY <1>0, <1>4 DEF TypeOK, ScanLine, ResetRequest, NextLine, Counted, Unhandled, BeingRead,
                    pinVars, inputVars
<1>5. CASE ReadPin
  <2>1. UNCHANGED <<edges, pr>> /\ ~BeingRead(j)'
    BY <1>5 DEF ReadPin, NextLine, BeingRead, pinVars
  <2>2. /\ Counted(j)' \in Int /\ Counted(j) \in Int
        /\ Counted(j)' <= Counted(j) + 1 /\ (j # pin => Counted(j)' = Counted(j))
    BY <1>5, ReadPinCounts
  <2>4. CASE j = pin
    BY <1>0, <1>5, <2>1, <2>2, <2>4 DEF Unhandled, BeingRead, ReadPin
  <2>5. CASE j # pin
    BY <1>0, <2>1, <2>2, <2>5 DEF Unhandled, BeingRead
  <2> QED
    BY <2>4, <2>5
<1>6. CASE _counter_clear
  <2>1. /\ UNCHANGED <<pr, frontRising, frontFalling>> /\ isr = "none" /\ isr' = "none"
        /\ IF counterClear[j] # 0 THEN counter'[j] = 0 /\ edges'[j] = pr[j]
                                  ELSE counter'[j] = counter[j] /\ edges'[j] = edges[j]
    BY <1>6 DEF _counter_clear, MainRuns, extiVars
  <2>2. frontRising[j] + frontFalling[j] <= 1
    BY DEF HalfPulse
  <2>3. Unhandled(j)' = pr[j] /\ Unhandled(j) = pr[j]
    BY <1>0, <2>1 DEF Unhandled, BeingRead
  <2>4. CASE counterClear[j] # 0
    BY <1>0, <2>1, <2>2, <2>3, <2>4 DEF Counted
  <2>5. CASE counterClear[j] = 0
    BY <1>0, <2>1, <2>3, <2>5 DEF Counted
  <2> QED
    BY <2>4, <2>5
<1>7. CASE \/ WriteCoil \/ ReadCounterHigh \/ ReadCounterLow \/ _polling_gpio_registers
           \/ LatchClearLow \/ LatchClearHigh \/ UNCHANGED gpioVars
  <2>1. UNCHANGED <<edges, pr, isr, pin, counter, frontRising, frontFalling>>
    BY <1>7 DEF WriteCoil, ReadCounterHigh, ReadCounterLow, _polling_gpio_registers,
                BeginModes, SetMode, SetMask, PollOutputs,
                LatchClearLow, LatchClearHigh, gpioVars, pinVars, extiVars, inputVars
  <2> QED
    BY <1>0, <2>1 DEF Counted, Unhandled, BeingRead
<1> QED
  BY <1>1, <1>2, <1>3, <1>4, <1>5, <1>6, <1>7 DEF Next, Exti, Main

\* A counter never gets ahead of its pin, at whatever moment it is cleared.
THEOREM NoPhantomPulseCorrect == Spec => []NoPhantomPulse
<1>1. Init => HalfPulse /\ NoPhantomPulse
  <2> SUFFICES ASSUME Init, NEW i \in Pin
               PROVE  /\ frontRising[i] + frontFalling[i] <= 1
                      /\ Counted(i) + Unhandled(i) <= edges[i] + 1
    BY DEF HalfPulse, NoPhantomPulse
  <2>1. /\ frontRising[i] = 0 /\ frontFalling[i] = 0 /\ counter[i] = 0 /\ pr[i] = 0
        /\ edges[i] = 0 /\ isr = "none"
    BY DEF Init, Zero
  <2> QED
    BY <2>1 DEF Counted, Unhandled, BeingRead
<1>2. TypeOK /\ HalfPulse /\ [Next]_gpioVars => HalfPulse'
  BY HalfPulseStep
<1>3. TypeOK /\ HalfPulse /\ NoPhantomPulse /\ [Next]_gpioVars => NoPhantomPulse'
  BY PhantomStep
<1> QED
  BY <1>1, <1>2, <1>3, GpioTypeCorrect, PTL DEF Spec

\* A front a handler remembers is the one its input shows, and both come from an edge.
FrontsTellInput ==
    \A i \in Pin : /\ frontRising[i] = 1 => gpioRead[i] = 1 /\ edged[i]
                   /\ frontFalling[i] = 1 => gpioRead[i] = 0 /\ edged[i]
                   /\ pr[i] = 1 \/ BeingRead(i) => edged[i]

\* While nothing was missed, one edge at most waits for its handler, and the pin has
\* left the level a remembered front was read at.
EdgeAhead ==
    \A i \in Pin : ~missed[i] /\ (pr[i] = 1 \/ BeingRead(i)) =>
      /\ ~(pr[i] = 1 /\ BeingRead(i))
      /\ frontRising[i] = 1 \/ frontFalling[i] = 1 => level[i] # gpioRead[i]

\* Two edges to a pulse, and one value more than MAX_VALUE_COUNTER to a wrap.
Cycle == 2 * (MAX_VALUE_COUNTER + 1)

\* While nothing was missed, the edges are those handled and the one that waits.
CountedSoFar ==
    \A i \in Pin : ~missed[i] =>
      \E carried \in {0, 1}, wraps \in Nat :
        Counted(i) + Unhandled(i) + Cycle * wraps = edges[i] + carried

\* A front is remembered with the input it was read at; only a handler changes either.
LEMMA FrontsStep == TypeOK /\ FrontsTellInput /\ [Next]_gpioVars => FrontsTellInput'
<1> SUFFICES ASSUME TypeOK, FrontsTellInput, [Next]_gpioVars PROVE FrontsTellInput'
  OBVIOUS
<1> USE DEF FrontsTellInput, BeingRead
<1>1. ASSUME NEW i \in Pin, PinChanges(i) PROVE FrontsTellInput'
  BY <1>1 DEF TypeOK, PinChanges, inputVars
<1>2. ASSUME NEW i \in Pin, EnterOwn(i) PROVE FrontsTellInput'
  BY <1>2 DEF TypeOK, EnterOwn, Requested, ResetRequest, pinVars, inputVars
<1>3. CASE EnterShared
  BY <1>3 DEF EnterShared, pinVars, inputVars
<1>4. CASE ScanLine
  BY <1>4 DEF TypeOK, ScanLine, ResetRequest, NextLine, pinVars, inputVars
<1>5. CASE ReadPin
  <2> SUFFICES ASSUME NEW j \in Pin
               PROVE  /\ frontRising'[j] = 1 => gpioRead'[j] = 1 /\ edged'[j]
                      /\ frontFalling'[j] = 1 => gpioRead'[j] = 0 /\ edged'[j]
                      /\ pr'[j] = 1 \/ BeingRead(j)' => edged'[j]
    OBVIOUS
  <2>1. UNCHANGED <<pr, edged>> /\ ~BeingRead(j)'
    BY <1>5 DEF ReadPin, NextLine, pinVars
  <2>2. CASE j = pin
    <3>1. edged[j]
      BY <1>5, <2>2 DEF ReadPin
    <3>2. /\ gpioRead'[j] = level[j] /\ level[j] \in {0, 1}
          /\ frontRising'[j] = 1 => level[j] = 1
          /\ frontFalling'[j] = 1 => level[j] = 0
      BY <1>5, <2>2 DEF TypeOK, ReadPin, Fronts
    <3> QED
      BY <2>1, <3>1, <3>2
  <2>3. CASE j # pin
    <3>1. UNCHANGED <<gpioRead[j], frontRising[j], frontFalling[j]>>
      BY <1>5, <2>3 DEF TypeOK, ReadPin, Fronts
    <3> QED
      BY <2>1, <3>1
  <2> QED
    BY <2>2, <2>3
<1>6. CASE Main \/ UNCHANGED gpioVars
  <2>1. UNCHANGED <<edged, pr, isr, pin, gpioRead, frontRising, frontFalling>>
    BY <1>6 DEF Main, WriteCoil, ReadCounterHigh, ReadCounterLow, _polling_gpio_registers,
                BeginModes, SetMode, SetMask, PollOutputs,
                LatchClearLow, LatchClearHigh, _counter_clear, gpioVars, pinVars, extiVars,
                inputVars
  <2> QED
    BY <2>1
<1> QED
  BY <1>1, <1>2, <1>3, <1>4, <1>5, <1>6 DEF Next, Exti

\* An edge that is not missed finds the input fresh; a clear that forgets what was
\* missed finds no edge waiting.
LEMMA AheadStep ==
    TypeOK /\ InputFresh /\ FrontsTellInput /\ EdgeAhead /\ [Next]_gpioVars => EdgeAhead'
<1> SUFFICES ASSUME TypeOK, InputFresh, FrontsTellInput, EdgeAhead, [Next]_gpioVars
             PROVE  EdgeAhead'
  OBVIOUS
<1>1. ASSUME NEW i \in Pin, PinChanges(i) PROVE EdgeAhead'
  BY <1>1 DEF TypeOK, InputFresh, FrontsTellInput, EdgeAhead, BeingRead, PinChanges, inputVars
<1>2. ASSUME NEW i \in Pin, EnterOwn(i) PROVE EdgeAhead'
  BY <1>2 DEF TypeOK, EdgeAhead, BeingRead, EnterOwn, Requested, ResetRequest, pinVars,
              inputVars
<1>3. CASE EnterShared
  BY <1>3 DEF EdgeAhead, BeingRead, EnterShared, pinVars, inputVars
<1>4. CASE ScanLine
  BY <1>4 DEF TypeOK, EdgeAhead, BeingRead, ScanLine, ResetRequest, NextLine, pinVars,
              inputVars
<1>5. CASE ReadPin
  <2> SUFFICES ASSUME NEW j \in Pin, ~missed'[j], pr'[j] = 1 \/ BeingRead(j)'
               PROVE  /\ ~(pr'[j] = 1 /\ BeingRead(j)')
                      /\ frontRising'[j] = 1 \/ frontFalling'[j] = 1 => level'[j] # gpioRead'[j]
    BY DEF EdgeAhead, BeingRead
  <2>1. UNCHANGED <<pr, missed, level>> /\ ~BeingRead(j)'
    BY <1>5 DEF ReadPin, NextLine, BeingRead, pinVars
  <2>2. j # pin
    BY <1>5, <2>1 DEF EdgeAhead, BeingRead, ReadPin
  <2>3. UNCHANGED <<gpioRead[j], frontRising[j], frontFalling[j]>>
    BY <1>5, <2>2 DEF TypeOK, ReadPin, Fronts
  <2> QED
    BY <2>1, <2>3 DEF EdgeAhead
<1>6. CASE _counter_clear
  BY <1>6 DEF TypeOK, EdgeAhead, BeingRead, _counter_clear, MainRuns, extiVars
<1>7. CASE \/ WriteCoil \/ ReadCounterHigh \/ ReadCounterLow \/ _polling_gpio_registers
           \/ LatchClearLow \/ LatchClearHigh \/ UNCHANGED gpioVars
  <2>1. UNCHANGED <<level, missed, pr, isr, pin, gpioRead, frontRising, frontFalling>>
    BY <1>7 DEF WriteCoil, ReadCounterHigh, ReadCounterLow, _polling_gpio_registers,
                BeginModes, SetMode, SetMask, PollOutputs,
                LatchClearLow, LatchClearHigh, gpioVars, pinVars, extiVars, inputVars
  <2> QED
    BY <2>1 DEF EdgeAhead, BeingRead
<1> QED
  BY <1>1, <1>2, <1>3, <1>4, <1>5, <1>6, <1>7 DEF Next, Exti, Main

\* An edge that was not missed adds exactly one to Counted, modulo a wrap.
LEMMA ReadPinCountsOne ==
  ASSUME TypeOK, FrontsTellInput, EdgeAhead, ReadPin, NEW j \in Pin, j = pin, ~missed[j]
  PROVE  /\ pr[j] = 0
         /\ \/ Counted(j)' = Counted(j) + 1
            \/ Counted(j)' + Cycle = Counted(j) + 1
<1> DEFINE rising  == IF level[j] = 1 THEN 1 ELSE frontRising[j]
           falling == IF level[j] = 0 THEN 1 ELSE frontFalling[j]
           pulse   == rising = 1 /\ falling = 1
<1>1. /\ level[j] \in {0, 1} /\ pr[j] \in {0, 1}
      /\ frontRising[j] \in {0, 1} /\ frontFalling[j] \in {0, 1}
      /\ counter[j] \in 0..MAX_VALUE_COUNTER /\ MAX_VALUE_COUNTER \in Nat
  BY GpioAssumption DEF TypeOK
<1>2. /\ pr[j] = 0
      /\ frontRising[j] = 1 => level[j] = 0
      /\ frontFalling[j] = 1 => level[j] = 1
  <2>1. BeingRead(j)
    BY DEF BeingRead, ReadPin
  <2> QED
    BY <1>1, <2>1 DEF EdgeAhead, FrontsTellInput
<1>3. /\ frontRising'[j] = IF pulse THEN 0 ELSE rising
      /\ frontFalling'[j] = IF pulse THEN 0 ELSE falling
      /\ counter'[j] = IF pulse THEN CountUp(counter[j]) ELSE counter[j]
  BY DEF TypeOK, ReadPin, Fronts
<1>4. \/ CountUp(counter[j]) = counter[j] + 1
      \/ CountUp(counter[j]) = 0 /\ counter[j] = MAX_VALUE_COUNTER
  BY <1>1 DEF CountUp
<1>5. CASE level[j] = 1
  BY <1>1, <1>2, <1>3, <1>4, <1>5 DEF Counted, Cycle
<1>6. CASE level[j] = 0
  BY <1>1, <1>2, <1>3, <1>4, <1>6 DEF Counted, Cycle
<1> QED
  BY <1>1, <1>2, <1>5, <1>6

\* One wrap more is one cycle more, and wraps are fewer than edges.
LEMMA OneMoreWrap == ASSUME NEW w \in Nat PROVE Cycle * (w + 1) = Cycle * w + Cycle
BY GpioAssumption DEF Cycle

LEMMA FewWraps ==
  ASSUME NEW w \in Nat, NEW e \in Nat, NEW c \in {0, 1}, NEW n \in Nat, n + Cycle * w = e + c
  PROVE  w \in 0..e
<1>1. Cycle \in Nat /\ Cycle >= 4
  BY GpioAssumption DEF Cycle
<1>2. Cycle * w \in Nat /\ Cycle * w >= 4 * w
  BY <1>1
<1> QED
  BY <1>2

\* What is counted keeps up with the edges at every step.
LEMMA CountStep ==
  TypeOK /\ HalfPulse /\ FrontsTellInput /\ EdgeAhead /\ CountedSoFar /\ [Next]_gpioVars
    => CountedSoFar'
<1> SUFFICES ASSUME TypeOK, HalfPulse, FrontsTellInput, EdgeAhead, CountedSoFar,
                    [Next]_gpioVars, NEW j \in Pin, ~missed'[j]
             PROVE  (\E carried \in {0, 1}, wraps \in Nat :
                       Counted(j) + Unhandled(j) + Cycle * wraps = edges[j] + carried)'
  BY DEF CountedSoFar
<1> DEFINE Known == \E carried \in {0, 1}, wraps \in Nat :
                      Counted(j) + Unhandled(j) + Cycle * wraps = edges[j] + carried
<1>k. ~missed[j] => Known
  BY DEF CountedSoFar
<1>0. /\ ~missed[j] => Known
      /\ pr[j] \in {0, 1} /\ frontRising[j] \in {0, 1} /\ frontFalling[j] \in {0, 1}
      /\ counter[j] \in Nat /\ edges[j] \in Nat /\ missed[j] \in BOOLEAN /\ Cycle \in Nat
  <2> HIDE DEF Known
  <2> QED
    BY <1>k, GpioAssumption DEF TypeOK, Cycle
<1>a. Counted(j) \in Nat /\ Unhandled(j) \in Nat
  BY <1>0 DEF Counted, Unhandled
<1>b. ASSUME ~missed[j], Counted(j)' = Counted(j), Unhandled(j)' = Unhandled(j), edges'[j] = edges[j]
      PROVE  Known'
  BY <1>0, <1>b
<1>1. ASSUME NEW i \in Pin, PinChanges(i) PROVE Known'
  <2>1. Counted(j)' = Counted(j)
    BY <1>1 DEF PinChanges, Counted, inputVars
  <2>2. CASE i = j
    <3>1. ~missed[j] /\ pr[j] = 0 /\ ~BeingRead(j) /\ edges'[j] = edges[j] + 1 /\ pr'[j] = 1
          /\ isr' = isr /\ pin' = pin
      BY <1>0, <1>1, <2>2 DEF TypeOK, PinChanges
    <3>2. Unhandled(j) = 0 /\ Unhandled(j)' = 1
      BY <3>1 DEF Unhandled, BeingRead
    <3>3. PICK carried \in {0, 1}, wraps \in Nat :
            Counted(j) + Unhandled(j) + Cycle * wraps = edges[j] + carried
      BY <1>0, <3>1
    <3>4. Cycle * wraps \in Nat
      BY <1>0
    <3>5. Counted(j)' + Unhandled(j)' + Cycle * wraps = edges'[j] + carried
      BY <1>0, <1>a, <2>1, <3>1, <3>2, <3>3, <3>4
    <3>6. Cycle' = Cycle
      BY DEF Cycle
    <3> QED
      BY <3>5, <3>6
  <2>3. CASE i # j
    <3>1. ~missed[j] /\ edges'[j] = edges[j] /\ pr'[j] = pr[j] /\ isr' = isr /\ pin' = pin
      BY <1>1, <2>3 DEF TypeOK, PinChanges
    <3>2. Unhandled(j)' = Unhandled(j)
      BY <3>1 DEF Unhandled, BeingRead
    <3> QED
      BY <1>b, <2>1, <3>1, <3>2
  <2> QED
    BY <2>2, <2>3
<1>2. ASSUME NEW i \in Pin, EnterOwn(i) PROVE Known'
  <2>1. UNCHANGED <<missed, edges, counter, frontRising, frontFalling>>
    BY <1>2 DEF EnterOwn, pinVars, inputVars
  <2>2. Unhandled(j)' = Unhandled(j)
    BY <1>0, <1>2 DEF TypeOK, EnterOwn, Requested, ResetRequest, Unhandled, BeingRead
  <2> QED
    BY <1>b, <2>1, <2>2 DEF Counted
<1>3. CASE EnterShared
  <2>1. UNCHANGED <<missed, edges, counter, frontRising, frontFalling>>
    BY <1>3 DEF EnterShared, pinVars, inputVars
  <2>2. Unhandled(j)' = Unhandled(j)
    BY <1>3 DEF EnterShared, Unhandled, BeingRead
  <2> QED
    BY <1>b, <2>1, <2>2 DEF Counted
<1>4. CASE ScanLine
  <2>1. UNCHANGED <<missed, edges, counter, frontRising, frontFalling>>
    BY <1>4 DEF ScanLine, pinVars, inputVars
  <2>2. Unhandled(j)' = Unhandled(j)
    BY <1>0, <1>4 DEF TypeOK, ScanLine, ResetRequest, NextLine, Unhandled, BeingRead
  <2> QED
    BY <1>b, <2>1, <2>2 DEF Counted
<1>5. CASE ReadPin
  <2>1. UNCHANGED <<missed, edges, pr>> /\ ~BeingRead(j)'
    BY <1>5 DEF ReadPin, NextLine, BeingRead, pinVars
  <2>2. CASE j = pin
    <3>1. /\ pr[j] = 0 /\ \/ Counted(j)' = Counted(j) + 1
                          \/ Counted(j)' + Cycle = Counted(j) + 1
      BY <1>5, <2>1, <2>2, ReadPinCountsOne
    <3>2. Unhandled(j) = 1 /\ Unhandled(j)' = 0
      BY <1>5, <2>1, <2>2, <3>1 DEF Unhandled, BeingRead, ReadPin
    <3>3. PICK carried \in {0, 1}, wraps \in Nat :
            Counted(j) + Unhandled(j) + Cycle * wraps = edges[j] + carried
      BY <1>0, <2>1
    <3>4. Cycle * wraps \in Nat
      BY <1>0
    <3>5. Cycle' = Cycle
      BY DEF Cycle
    <3>6. CASE Counted(j)' = Counted(j) + 1
      <4>1. Counted(j)' + Unhandled(j)' + Cycle * wraps = edges'[j] + carried
        BY <1>0, <1>a, <2>1, <3>2, <3>3, <3>4, <3>6
      <4> QED
        BY <3>5, <4>1
    <3>7. CASE Counted(j)' + Cycle = Counted(j) + 1
      <4>1. Counted(j)' \in Int
        <5>1. /\ frontRising'[j] \in Int /\ frontFalling'[j] \in Int /\ counter'[j] \in Int
          BY <1>5, TypeStep, GpioAssumption DEF TypeOK
        <5> QED
          BY <5>1 DEF Counted
      <4>2. Cycle * (wraps + 1) = Cycle * wraps + Cycle
        BY OneMoreWrap
      <4>3. Counted(j)' + Unhandled(j)' + Cycle * (wraps + 1) = edges'[j] + carried
        BY <1>0, <1>a, <2>1, <3>2, <3>3, <3>4, <3>7, <4>1, <4>2
      <4>4. wraps + 1 \in Nat
        OBVIOUS
      <4> QED
        BY <3>5, <4>3, <4>4
    <3> QED
      BY <3>1, <3>6, <3>7
  <2>3. CASE j # pin
    <3>1. Counted(j)' = Counted(j)
      BY <1>5, <2>3, ReadPinCounts
    <3>2. Unhandled(j)' = Unhandled(j)
      BY <2>1, <2>3 DEF Unhandled, BeingRead
    <3> QED
      BY <1>b, <2>1, <3>1, <3>2
  <2> QED
    BY <2>2, <2>3
<1>6. CASE _counter_clear
  <2>1. /\ UNCHANGED <<pr, frontRising, frontFalling>> /\ isr = "none" /\ isr' = "none"
        /\ missed'[j] = (missed[j] /\ (counterClear[j] # 0 => pr[j] = 1))
        /\ IF counterClear[j] # 0 THEN counter'[j] = 0 /\ edges'[j] = pr[j]
                                  ELSE counter'[j] = counter[j] /\ edges'[j] = edges[j]
    BY <1>6 DEF _counter_clear, MainRuns, extiVars
  <2>2. frontRising[j] + frontFalling[j] <= 1
    BY DEF HalfPulse
  <2>3. Unhandled(j)' = pr[j] /\ Unhandled(j) = pr[j]
    BY <1>0, <2>1 DEF Unhandled, BeingRead
  <2>4. CASE counterClear[j] # 0
    <3> DEFINE carried == frontRising[j] + frontFalling[j]
    <3>1. carried \in {0, 1} /\ Counted(j)' = carried
      BY <1>0, <2>1, <2>2, <2>4 DEF Counted
    <3>2. Cycle * 0 = 0
      BY <1>0
    <3> HIDE DEF carried
    <3>3. Counted(j)' + Unhandled(j)' + Cycle * 0 = edges'[j] + carried
      BY <1>0, <2>1, <2>3, <2>4, <3>1, <3>2
    <3>4. Cycle' = Cycle
      BY DEF Cycle
    <3> QED
      BY <3>1, <3>3, <3>4
  <2>5. CASE counterClear[j] = 0
    <3>1. ~missed[j] /\ Counted(j)' = Counted(j) /\ edges'[j] = edges[j]
      BY <1>0, <2>1, <2>5 DEF Counted
    <3> QED
      BY <1>b, <2>3, <3>1
  <2> QED
    BY <2>4, <2>5
<1>7. CASE \/ WriteCoil \/ ReadCounterHigh \/ ReadCounterLow \/ _polling_gpio_registers
           \/ LatchClearLow \/ LatchClearHigh \/ UNCHANGED gpioVars
  <2>1. UNCHANGED <<missed, edges, pr, isr, pin, counter, frontRising, frontFalling>>
    BY <1>7 DEF WriteCoil, ReadCounterHigh, ReadCounterLow, _polling_gpio_registers,
                BeginModes, SetMode, SetMask, PollOutputs,
                LatchClearLow, LatchClearHigh, gpioVars, pinVars, extiVars, inputVars
  <2> QED
    BY <1>b, <2>1 DEF Counted, Unhandled, BeingRead
<1> QED
  BY <1>1, <1>2, <1>3, <1>4, <1>5, <1>6, <1>7 DEF Next, Exti, Main

\* No pulse is lost, at any bound of the counters: what a counter shows, its wraps and
\* the front in the handler make up the edges since the clear.
THEOREM CountsEveryPulseCorrect == Spec => []CountsEveryPulse
<1>1. Init => HalfPulse /\ FrontsTellInput /\ EdgeAhead /\ CountedSoFar
  <2> SUFFICES ASSUME Init PROVE HalfPulse /\ FrontsTellInput /\ EdgeAhead /\ CountedSoFar
    OBVIOUS
  <2>1. \A i \in Pin : /\ frontRising[i] = 0 /\ frontFalling[i] = 0 /\ counter[i] = 0
                       /\ pr[i] = 0 /\ edges[i] = 0 /\ ~BeingRead(i)
    BY DEF Init, Zero, BeingRead
  <2>2. Cycle * 0 = 0
    BY GpioAssumption DEF Cycle
  <2>3. ASSUME NEW i \in Pin PROVE Counted(i) + Unhandled(i) + Cycle * 0 = edges[i] + 0
    <3>1. Counted(i) = 0 /\ Unhandled(i) = 0
      BY <2>1 DEF Counted, Unhandled
    <3> QED
      BY <2>1, <2>2, <3>1
  <2> QED
    BY <2>1, <2>3 DEF HalfPulse, FrontsTellInput, EdgeAhead, CountedSoFar
<1>2. TypeOK /\ HalfPulse /\ [Next]_gpioVars => HalfPulse'
  BY HalfPulseStep
<1>3. TypeOK /\ FrontsTellInput /\ [Next]_gpioVars => FrontsTellInput'
  BY FrontsStep
<1>4. TypeOK /\ InputFresh /\ FrontsTellInput /\ EdgeAhead /\ [Next]_gpioVars => EdgeAhead'
  BY AheadStep
<1>5. TypeOK /\ HalfPulse /\ FrontsTellInput /\ EdgeAhead /\ CountedSoFar /\ [Next]_gpioVars
        => CountedSoFar'
  BY CountStep
<1>6. TypeOK /\ CountedSoFar => CountsEveryPulse
  <2> SUFFICES ASSUME TypeOK, CountedSoFar, NEW i \in Pin, ~missed[i], Unhandled(i) = 0
               PROVE  \E carried \in {0, 1}, wraps \in 0..edges[i] :
                        Counted(i) + Cycle * wraps = edges[i] + carried
    BY DEF CountsEveryPulse, Cycle
  <2>1. PICK carried \in {0, 1}, wraps \in Nat :
          Counted(i) + Unhandled(i) + Cycle * wraps = edges[i] + carried
    BY DEF CountedSoFar
  <2>2. /\ counter[i] \in Nat /\ frontRising[i] \in {0, 1} /\ frontFalling[i] \in {0, 1}
        /\ edges[i] \in Nat
    BY GpioAssumption DEF TypeOK
  <2>3. Counted(i) \in Nat
    BY <2>2 DEF Counted
  <2>4. Counted(i) + Cycle * wraps = edges[i] + carried
    BY <2>1, <2>3
  <2>5. wraps \in 0..edges[i]
    BY <2>2, <2>3, <2>4, FewWraps
  <2> QED
    BY <2>4, <2>5
<1> QED
  BY <1>1, <1>2, <1>3, <1>4, <1>5, <1>6, GpioTypeCorrect, InputFreshCorrect, PTL DEF Spec

(* ------------------------------ the outputs ------------------------------------------- *)

\* An output pin is written whenever a new value of 0 or 1 is cached for it.
LEMMA CacheStep == TypeOK /\ CacheMatchesPin /\ [Next]_gpioVars => CacheMatchesPin'
<1> SUFFICES ASSUME TypeOK, CacheMatchesPin, [Next]_gpioVars PROVE CacheMatchesPin'
  OBVIOUS
<1>1. CASE PollOutputs
  BY <1>1 DEF TypeOK, CacheMatchesPin, PollOutputs, CacheWritten
<1>2. CASE \/ (\E i \in Pin : PinChanges(i)) \/ Exti \/ WriteCoil \/ ReadCounterHigh
           \/ ReadCounterLow \/ BeginModes \/ SetMode \/ SetMask \/ LatchClearLow
           \/ LatchClearHigh \/ _counter_clear \/ UNCHANGED gpioVars
  <2>1. UNCHANGED <<cached, odr>>
    BY <1>2 DEF PinChanges, Exti, EnterOwn, EnterShared, ScanLine, ReadPin, WriteCoil,
                ReadCounterHigh, ReadCounterLow, BeginModes, SetMode, SetMask, LatchClearLow,
                LatchClearHigh, _counter_clear, gpioVars, outputVars
  <2> QED
    BY <2>1 DEF CacheMatchesPin
<1> QED
  BY <1>1, <1>2 DEF Next, Main, _polling_gpio_registers

\* The outputs follow the coils from the poll of the coils to the next request.
LEMMA OutputStep ==
  TypeOK /\ CacheMatchesPin /\ OutputFollows /\ [Next]_gpioVars => OutputFollows'
<1> SUFFICES ASSUME TypeOK, CacheMatchesPin, OutputFollows, [Next]_gpioVars
             PROVE  OutputFollows'
  OBVIOUS
<1>1. CASE PollOutputs
  BY <1>1 DEF TypeOK, CacheMatchesPin, OutputFollows, PollOutputs, coilVars
<1>2. CASE (\E i \in Pin : PinChanges(i)) \/ Exti \/ UNCHANGED gpioVars
  <2>1. UNCHANGED <<main, mode, gpioWrite, odr>>
    BY <1>2 DEF PinChanges, Exti, EnterOwn, EnterShared, ScanLine, ReadPin, gpioVars,
                coilVars, outputVars, mainVars
  <2> QED
    BY <2>1 DEF OutputFollows
<1>3. CASE LatchClearLow \/ LatchClearHigh
  <2>1. UNCHANGED <<mode, gpioWrite, odr>> /\ main \in {"latchLow", "latchHigh"}
    BY <1>3 DEF LatchClearLow, LatchClearHigh, coilVars, outputVars
  <2> QED
    BY <2>1 DEF OutputFollows
<1>4. CASE \/ WriteCoil \/ ReadCounterHigh \/ ReadCounterLow \/ BeginModes \/ SetMode
           \/ SetMask \/ _counter_clear
  <2>1. main' \notin {"latchLow", "latchHigh", "counters"}
    BY <1>4 DEF WriteCoil, ReadCounterHigh, ReadCounterLow, BeginModes, SetMode, SetMask,
                NextChannel, _counter_clear, mainVars
  <2> QED
    BY <2>1 DEF OutputFollows
<1> QED
  BY <1>1, <1>2, <1>3, <1>4 DEF Next, Main, _polling_gpio_registers

\* A channel in WRITE mode drives what the master wrote last.
THEOREM OutputFollowsCorrect == Spec => []OutputFollows
<1>1. Init => CacheMatchesPin /\ OutputFollows
  <2>1. Init => cached = Zero /\ odr = Zero /\ main = "poll"
    BY DEF Init
  <2> QED
    BY <2>1 DEF CacheMatchesPin, OutputFollows
<1>2. TypeOK /\ CacheMatchesPin /\ [Next]_gpioVars => CacheMatchesPin'
  BY CacheStep
<1>3. TypeOK /\ CacheMatchesPin /\ OutputFollows /\ [Next]_gpioVars => OutputFollows'
  BY OutputStep
<1> QED
  BY <1>1, <1>2, <1>3, GpioTypeCorrect, PTL DEF Spec

(* ------------------------------ masked lines -------------------------------------------- *)

\* Masks change only after their modes, and only while no handler runs.
LEMMA MaskStep ==
  TypeOK /\ MaskMatchesMode /\ HandlerAtLine /\ [Next]_gpioVars
    => MaskMatchesMode' /\ HandlerAtLine'
<1> SUFFICES ASSUME TypeOK, MaskMatchesMode, HandlerAtLine, [Next]_gpioVars
             PROVE  MaskMatchesMode' /\ HandlerAtLine'
  OBVIOUS
<1>1. CASE Exti \/ \E i \in Pin : PinChanges(i)
  <2>1. UNCHANGED <<imr, mode, main, channel>>
    BY <1>1 DEF PinChanges, Exti, EnterOwn, EnterShared, ScanLine, ReadPin, outputVars, mainVars
  <2>2. HandlerAtLine'
    BY <1>1 DEF TypeOK, HandlerAtLine, PinChanges, Exti, EnterOwn, EnterShared, ScanLine,
                ReadPin, NextLine, Requested
  <2> QED
    BY <2>1, <2>2 DEF MaskMatchesMode, Turning
<1>2. CASE SetMode
  <2>1. UNCHANGED <<imr, isr, pin>> /\ main = "mode"
        /\ \/ UNCHANGED mode
           \/ /\ \A i \in Pin : i # channel => mode'[i] = mode[i]
              /\ main' = "mask" /\ channel' = channel
    BY <1>2 DEF SetMode, TypeOK, extiVars
  <2> QED
    BY <2>1 DEF MaskMatchesMode, HandlerAtLine, Turning
<1>3. CASE SetMask
  <2>1. isr = "none" /\ isr' = "none" /\ mode' = mode /\ main = "mask"
        /\ \A i \in Pin : imr'[i] = IF i = channel THEN 1 - mode[i] ELSE imr[i]
    BY <1>3 DEF SetMask, MaskWritten, MainRuns, TypeOK, outputVars
  <2> QED
    BY <2>1 DEF MaskMatchesMode, HandlerAtLine, Turning
<1>4. CASE \/ WriteCoil \/ ReadCounterHigh \/ ReadCounterLow \/ BeginModes \/ PollOutputs
           \/ LatchClearLow \/ LatchClearHigh \/ _counter_clear \/ UNCHANGED gpioVars
  <2>1. UNCHANGED <<imr, mode, isr, pin>> /\ (UNCHANGED <<main, channel>> \/ main # "mask")
    BY <1>4 DEF WriteCoil, ReadCounterHigh, ReadCounterLow, BeginModes, PollOutputs,
                LatchClearLow, LatchClearHigh, _counter_clear, gpioVars, extiVars, outputVars,
                mainVars
  <2> QED
    BY <2>1 DEF MaskMatchesMode, HandlerAtLine, Turning
<1> QED
  BY <1>1, <1>2, <1>3, <1>4 DEF Next, Main, _polling_gpio_registers

\* What WritingPinKeepsInputs asks for one channel.
InputsKept(i) ==
    /\ gpioRead'[i] = gpioRead[i] /\ counter'[i] \in {counter[i], 0}
    /\ latchLow'[i] \in {latchLow[i], 1} /\ latchHigh'[i] \in {latchHigh[i], 0}
    /\ frontRising'[i] = frontRising[i] /\ frontFalling'[i] = frontFalling[i]

\* A masked line with a handler of its own is not read: only a clear touches what its
\* handler keeps.
LEMMA QuietStep ==
  ASSUME TypeOK, MaskMatchesMode, HandlerAtLine, [Next]_gpioVars,
         NEW i \in Pin \ Shared, mode[i] = 1, ~Turning(i)
  PROVE  InputsKept(i)
<1> USE DEF InputsKept
<1>1. CASE ReadPin
  <2>1. pin # i
    BY <1>1 DEF TypeOK, MaskMatchesMode, HandlerAtLine, ReadPin
  <2> QED
    BY <1>1, <2>1 DEF TypeOK, ReadPin, Fronts
<1>2. CASE _counter_clear
  BY <1>2 DEF TypeOK, _counter_clear
<1>3. CASE LatchClearLow \/ LatchClearHigh
  BY <1>3 DEF TypeOK, LatchClearLow, LatchClearHigh, ClearedHigh, Zero
<1>4. CASE \/ (\E j \in Pin : PinChanges(j) \/ EnterOwn(j)) \/ EnterShared \/ ScanLine
           \/ WriteCoil \/ ReadCounterHigh \/ ReadCounterLow \/ _polling_gpio_registers
           \/ UNCHANGED gpioVars
  <2>1. UNCHANGED inputVars
    BY <1>4 DEF PinChanges, EnterOwn, EnterShared, ScanLine, WriteCoil, ReadCounterHigh,
                ReadCounterLow, _polling_gpio_registers, BeginModes, SetMode, SetMask,
                PollOutputs, gpioVars
  <2> QED
    BY <2>1 DEF inputVars
<1> QED
  BY <1>1, <1>2, <1>3, <1>4 DEF Next, Exti, Main

\* A channel in WRITE mode with an EXTI line of its own leaves its inputs alone, once its
\* line is masked: only the edge between gpio_module.cpp:30 and 35 still comes through.
THEOREM WritingPinQuietCorrect == Spec => WritingPinQuiet
<1> DEFINE Inv == TypeOK /\ MaskMatchesMode /\ HandlerAtLine
<1>1. Init => Inv
  BY InitTypeOK DEF Init, MaskMatchesMode, HandlerAtLine, Zero
<1>2. Inv /\ [Next]_gpioVars => Inv'
  BY TypeStep, MaskStep
<1>3. Inv /\ [Next]_gpioVars => [WritingPinKeepsInputs]_gpioVars
  BY QuietStep DEF WritingPinKeepsInputs, InputsKept
<1> QED
  BY <1>1, <1>2, <1>3, PTL DEF Spec, WritingPinQuiet
===============================================================================
