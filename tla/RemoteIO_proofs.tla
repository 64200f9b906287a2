--------------------------- MODULE RemoteIO_proofs ---------------------------
(* The composition adds nothing to its parts: for every value of the constants,   *)
(* every step of RemoteIO is a step of ModbusRTU, whose bus delivers any byte at  *)
(* any moment, or leaves it alone, and is a step of FlashModule or leaves the      *)
(* settings alone.  What is proved of the parts therefore holds of the whole.      *)
EXTENDS RemoteIO, ModbusRTU_proofs

\* The master is in the middle of a frame, or sends none.
LineOK == current # 0 => /\ current \in Frame
                         /\ at \in Nat /\ at + 1 \in 1..FrameLength[current]

\* The line delivers bytes of Byte, and leaves the master within its frame.
LEMMA PutByteOK ==
    ASSUME NEW f \in Frame, NEW i \in 1..FrameLength[f], NEW clear,
           PutByte(f, i, clear)
    PROVE  /\ \E b \in Byte : UartReceive(b)
           /\ LineOK'
<1>1. (IF clear THEN FrameBytes(f)[i] ELSE ZeroByte) \in Byte
    BY LinkAssumption
<1>2. \E b \in Byte : UartReceive(b)
    BY <1>1 DEF PutByte
<1>3. FrameLength[f] \in Nat
    BY FrameAssumption
<1>4. LineOK'
  <2>1. CASE i = FrameLength[f]
      BY <2>1 DEF PutByte, LineOK
  <2>2. CASE i # FrameLength[f]
    <3>1. current' = f /\ at' = i
        BY <2>2 DEF PutByte
    <3>2. i \in Nat /\ i + 1 \in 1..FrameLength[f]
        BY <2>2, <1>3
    <3>3. QED BY <3>1, <3>2 DEF LineOK
  <2>3. QED BY <2>1, <2>2
<1>5. QED BY <1>2, <1>4

\* Whatever the master does, the slave sees a byte or nothing.
LEMMA MasterOK ==
    ASSUME NEW n, NEW clear, LineOK, Master(n, clear)
    PROVE  [Next]_vars /\ LineOK'
<1>1. CASE \E f \in Frame : BeginFrame(f, clear)
  <2>1. PICK f \in Frame : PutByte(f, 1, clear)
      BY <1>1 DEF BeginFrame
  <2>2. 1 \in 1..FrameLength[f]
      BY LinkAssumption, FrameAssumption
  <2>3. (\E b \in Byte : UartReceive(b)) /\ LineOK'
      BY <2>1, <2>2, PutByteOK
  <2>4. QED BY <2>3 DEF Next, Hardware
<1>2. CASE ContinueFrame(n, clear)
  <2>1. current \in Frame /\ at + 1 \in 1..FrameLength[current] /\ PutByte(current, at + 1, clear)
      BY <1>2 DEF ContinueFrame, LineOK
  <2>2. (\E b \in Byte : UartReceive(b)) /\ LineOK'
      BY <2>1, PutByteOK
  <2>3. QED BY <2>2 DEF Next, Hardware
<1>3. CASE BreakFrame
    BY <1>3 DEF BreakFrame, LineOK
<1>4. QED BY <1>1, <1>2, <1>3 DEF Master

\* Interrupts and eMBPoll are those of ModbusRTU, a standing CPU and the modules leave
\* its variables alone but for a pending overflow of TIM2.
LEMMA SlaveOK ==
    ASSUME LineOK, Interrupt \/ StallTick \/ StackStep \/ IdlePoll \/ ModulesStep
    PROVE  [Next]_vars /\ LineOK'
<1>1. CASE Interrupt
  <2>1. Tim2Update \/ Tim2Isr \/ UsartIsr
      BY <1>1 DEF Interrupt, Tick, Tim2, ReceiveIsr, Transmit, UsartIsr
  <2>2. UNCHANGED masterVars
      BY <1>1 DEF Interrupt, Tick, Tim2, ReceiveIsr, Transmit
  <2>3. QED BY <2>1, <2>2 DEF Next, Hardware, masterVars, LineOK
<1>2. CASE StallTick
  <2>1. UNCHANGED masterVars
      BY <1>2 DEF StallTick
  <2>2. CASE Tim2Pending
    <3>1. uif' = uif
        BY <1>2, <2>2 DEF StallTick, Tim2Pending
    <3>2. UNCHANGED vars
        BY <1>2, <3>1 DEF StallTick, vars, timerVars, rcvVars, sndVars, queueVars,
                          usartVars, isrVars, mainVars
    <3>3. QED BY <3>2, <2>1 DEF masterVars, LineOK
  <2>3. CASE ~Tim2Pending
    <3>1. Tim2Update
        BY <1>2, <2>3 DEF StallTick, Tim2Update
    <3>2. QED BY <3>1, <2>1 DEF Next, Hardware, masterVars, LineOK
  <2>4. QED BY <2>2, <2>3
<1>3. CASE StackStep
  <2>1. eMBPoll
      BY <1>3 DEF StackStep, RunHandler, OtherPoll, SendReply, eMBPoll
  <2>2. UNCHANGED masterVars
      BY <1>3 DEF StackStep, RunHandler, OtherPoll, SendReply
  <2>3. QED BY <2>1, <2>2 DEF Next, masterVars, LineOK
<1>4. CASE IdlePoll \/ ModulesStep
    BY <1>4 DEF IdlePoll, ModulesStep, linkVars, masterVars, LineOK
<1>5. QED BY <1>1, <1>2, <1>3, <1>4

\* The firmware on its bus is the slave of ModbusRTU: the modules that run between two
\* calls of eMBPoll and the standing CPU give the stack nothing it is not proved for.
THEOREM RemoteImplementsRTU == RemoteSpec => Spec
<1>1. RemoteInit => Init /\ LineOK
    BY DEF RemoteInit, LinkInit, LineOK
<1>2. LineOK /\ [RemoteNext]_remoteVars => [Next]_vars /\ LineOK'
  <2> SUFFICES ASSUME LineOK, [RemoteNext]_remoteVars PROVE [Next]_vars /\ LineOK'
      OBVIOUS
  <2>1. CASE MasterStep
      BY <2>1, MasterOK DEF MasterStep
  <2>2. CASE Interrupt \/ StallTick \/ StackStep \/ IdlePoll \/ ModulesStep
      BY <2>2, SlaveOK
  <2>3. CASE UNCHANGED remoteVars
      BY <2>3 DEF remoteVars, linkVars, masterVars, LineOK
  <2>4. QED BY <2>1, <2>2, <2>3 DEF RemoteNext, Device
<1>3. QED BY <1>1, <1>2, PTL DEF RemoteSpec, Spec

\* Erasing pages and changing the rate break neither the half duplex of the line nor
\* the asserts about it: the receiver is off while the slave transmits (mbrtu.c:231, 290).
THEOREM RemoteHalfDuplex == RemoteSpec => []HalfDuplex
BY RemoteImplementsRTU, HalfDuplexCorrect, PTL

\* In the whole firmware, too, no position passes the end of the frame buffer and t3.5
\* is never decremented from 0.
THEOREM RemoteTypeCorrect == RemoteSpec => []TypeOK
BY RemoteImplementsRTU, TypeCorrect, PTL

\* FlashModule again, with what is proved of it.
Proved == INSTANCE FlashModule_proofs WITH FailAt <- {}, RestartAt <- {}

\* The two instances of FlashModule are the same system.
LEMMA SameInit == Settings!Init = Proved!Init
BY Zenon DEF Settings!Init, Proved!Init, Settings!NoBaudrate, Proved!NoBaudrate,
             Settings!HalfWord, Proved!HalfWord, Settings!EmptyData, Proved!EmptyData,
             Settings!_ERROR_BAUDRATE_OK, Proved!_ERROR_BAUDRATE_OK

LEMMA SameVars == Settings!settingsVars = Proved!settingsVars
BY Zenon DEF Settings!settingsVars, Proved!settingsVars, Settings!ramVars, Proved!ramVars,
             Settings!flashVars, Proved!flashVars

LEMMA SameRequest == Settings!Request = Proved!Request
BY Zenon DEF Settings!Request, Proved!Request, Settings!HalfWord, Proved!HalfWord,
             Settings!flashVars, Proved!flashVars

LEMMA SameUsart == Settings!_baudrate_set = Proved!_baudrate_set
BY Zenon DEF Settings!_baudrate_set, Proved!_baudrate_set, Settings!is_baudrate_correct,
             Proved!is_baudrate_correct, Settings!RateDiffers, Proved!RateDiffers,
             Settings!usart_set_baudrate, Proved!usart_set_baudrate, Settings!flashVars,
             Proved!flashVars, Settings!_ERROR_BAUDRATE_OK, Proved!_ERROR_BAUDRATE_OK,
             Settings!_ERROR_BAUDRATE, Proved!_ERROR_BAUDRATE

LEMMA SamePolling == Settings!_polling_flash_data = Proved!_polling_flash_data
BY Zenon DEF Settings!_polling_flash_data, Proved!_polling_flash_data, Settings!ModeOf,
             Proved!ModeOf, Settings!MustWrite, Proved!MustWrite, Settings!flashVars,
             Proved!flashVars, Settings!_FLASH_GPIO_FLAG, Proved!_FLASH_GPIO_FLAG,
             Settings!_FLASH_UART_BAUDRATE_FLAG, Proved!_FLASH_UART_BAUDRATE_FLAG

LEMMA SameWrite == /\ Settings!ErasePage = Proved!ErasePage
                   /\ Settings!ProgramHalfWord = Proved!ProgramHalfWord
<1>1. Settings!ErasePage = Proved!ErasePage
    BY Zenon DEF Settings!ErasePage, Proved!ErasePage, Settings!WriteFails, Proved!WriteFails
<1>2. Settings!ProgramHalfWord = Proved!ProgramHalfWord
    BY Zenon DEF Settings!ProgramHalfWord, Proved!ProgramHalfWord, Settings!WriteFails,
                 Proved!WriteFails, Settings!_size_flash_data, Proved!_size_flash_data
<1>3. QED BY <1>1, <1>2

\* The settings of the whole firmware are those of FlashModule: a request on the bus
\* writes what that module lets the master write, and passes run between two requests.
THEOREM RemoteImplementsSettings == RemoteSpec => Proved!Spec
<1>1. RemoteInit => Proved!Init
    BY SameInit DEF RemoteInit
<1>2. [RemoteNext]_remoteVars => [Proved!Next]_(Proved!settingsVars)
  <2> SUFFICES ASSUME [RemoteNext]_remoteVars PROVE [Proved!Next]_(Proved!settingsVars)
      OBVIOUS
  <2>1. CASE UNCHANGED settingVars
      BY <2>1 DEF settingVars, Proved!settingsVars, Proved!ramVars, Proved!flashVars
  <2>2. CASE StackStep
    <3>1. UNCHANGED settingVars \/ Settings!Request
        BY <2>2 DEF StackStep, Writes
    <3>2. QED BY <3>1, <2>1, SameRequest DEF Proved!Next
  <2>3. CASE ModulesStep
    <3>1. \/ Settings!_baudrate_set \/ Settings!_polling_flash_data
          \/ Settings!ErasePage \/ Settings!ProgramHalfWord
        BY <2>3 DEF ModulesStep, UsartPass, FlashPass
    <3>2. QED BY <3>1, SameUsart, SamePolling, SameWrite DEF Proved!Next, Proved!Run
  <2>4. CASE MasterStep \/ Interrupt \/ StallTick \/ IdlePoll \/ UNCHANGED remoteVars
    <3>1. UNCHANGED settingVars
        BY <2>4 DEF MasterStep, Interrupt, StallTick, IdlePoll, remoteVars
    <3>2. QED BY <3>1, <2>1
  <2>5. QED BY <2>2, <2>3, <2>4 DEF RemoteNext, Device
<1>3. QED BY <1>1, <1>2, PTL DEF RemoteSpec, Proved!Spec

\* What FlashModule assumes of its constants.
LEMMA Constants ==
    /\ Pin \subseteq 0..7 /\ SetByte \subseteq Proved!ByteValue /\ BaudHalf \subseteq Proved!HalfValue
    /\ Standard \subseteq Proved!Rate /\ Default \in Standard
    /\ Proved!NoBaudrate \notin Standard
    /\ \A b \in Standard : b["high"] # Proved!Erased /\ b["low"] # Proved!Erased
    /\ {} \subseteq {"erase", "program"}
    /\ {} \subseteq {"poll", "flash", "erase", "program"}
<1>1. Settings!ByteValue = Proved!ByteValue /\ Settings!Erased = Proved!Erased
    BY SMT DEF Settings!ByteValue, Proved!ByteValue, Settings!Erased, Proved!Erased
<1>2. Settings!HalfValue = Proved!HalfValue /\ Settings!HalfWord = Proved!HalfWord
  <2>1. Settings!HalfValue = Proved!HalfValue
      BY SMT DEF Settings!HalfValue, Proved!HalfValue
  <2>2. Settings!HalfWord = Proved!HalfWord
      BY Zenon DEF Settings!HalfWord, Proved!HalfWord
  <2>3. QED BY <2>1, <2>2
<1>3. Settings!Rate = Proved!Rate /\ Settings!NoBaudrate = Proved!NoBaudrate
    BY <1>2, Zenon DEF Settings!Rate, Proved!Rate, Settings!NoBaudrate, Proved!NoBaudrate
<1>4. "high" \in Proved!HalfWord /\ "low" \in Proved!HalfWord
    BY DEF Proved!HalfWord
<1>5. \A b \in Standard : b["high"] # Proved!Erased /\ b["low"] # Proved!Erased
    BY <1>1, <1>2, <1>4, RemoteAssumption
<1>6. /\ Pin \subseteq 0..7 /\ SetByte \subseteq Proved!ByteValue /\ BaudHalf \subseteq Proved!HalfValue
      /\ Standard \subseteq Proved!Rate /\ Default \in Standard
      /\ Proved!NoBaudrate \notin Standard
    BY <1>1, <1>2, <1>3, RemoteAssumption, Zenon
<1>7. QED BY <1>5, <1>6

\* On the bus, too, the USART runs at the default rate or at one the master had in both
\* registers at once, never at one half written.
THEOREM RemoteRates == RemoteSpec => []Proved!UartUsesOffered
<1>1. Proved!Spec => []Proved!UartUsesOffered
    BY Proved!RatesCorrect, Constants
<1>2. QED BY <1>1, RemoteImplementsSettings, PTL

(* ------------------------------ the passes ------------------------------------------ *)

\* What UsartModule::run has seen to.
RateTaken ==
    /\ ~Settings!RateDiffers
    /\ errorReg = IF Settings!is_baudrate_correct(baudReg)
                  THEN Settings!_ERROR_BAUDRATE_OK ELSE Settings!_ERROR_BAUDRATE

\* What FlashModule::run has seen to.
ImageTaken == _flash_data.mode = gpioSet /\ _flash_data.baudrate = _baudrate

\* A pass leaves nothing to do when every direction is 0 or 1.
PassInv ==
    /\ gpioSet \in [Pin -> {0, 1}]
    /\ {"mode", "baudrate"} \subseteq DOMAIN _flash_data
    /\ main \in {"poll", "flash", "erase", "program"}
    /\ main \in {"poll", "flash"} => _flag_write = 0
    /\ main # "poll" => ~due /\ poll = "get" /\ RateTaken
    /\ main \in {"erase", "program"} => _flag_write = 1 /\ ImageTaken
    /\ due => main = "poll" /\ poll = "get"
    /\ main = "poll" /\ poll = "get" /\ ~due => RateTaken /\ ImageTaken

\* The main loop at rest has nothing to do.
LEMMA NothingDue ==
    ASSUME PassInv, main = "poll", poll = "get", ~due
    PROVE  ~PassDue
BY DEF PassInv, RateTaken, ImageTaken, PassDue, Settings!Settled

\* A step that leaves the settings and the main loop alone.
LEMMA PassKept ==
    ASSUME PassInv, UNCHANGED <<settingVars, due, poll>>
    PROVE  PassInv'
<1> USE DEF settingVars
<1>1. (RateTaken' <=> RateTaken) /\ (ImageTaken' <=> ImageTaken)
    BY Zenon DEF RateTaken, ImageTaken, Settings!RateDiffers, Settings!is_baudrate_correct,
                 Settings!_ERROR_BAUDRATE_OK, Settings!_ERROR_BAUDRATE
<1>2. QED BY <1>1, Zenon DEF PassInv

\* What a request writes is a direction of 0 or 1.
LEMMA DirectionsWritten ==
    ASSUME Timely, gpioSet \in [Pin -> {0, 1}], Settings!Request
    PROVE  gpioSet' \in [Pin -> {0, 1}]
<1>1. SetByte \subseteq {0, 1}
    BY DEF Timely
<1>2. ASSUME NEW coils \in SUBSET Pin, NEW byte \in [coils -> SetByte],
             gpioSet' = [i \in Pin |-> IF i \in coils THEN byte[i] ELSE gpioSet[i]]
      PROVE  gpioSet' \in [Pin -> {0, 1}]
    BY <1>1, <1>2
<1>3. QED BY <1>2 DEF Settings!Request

\* eMBPoll makes the modules due if it left them something.
LEMMA StackPass ==
    ASSUME Timely, PassInv, StackStep
    PROVE  PassInv'
<1>1. /\ main = "poll" /\ due' = (poll' = "get" /\ PassDue')
      /\ UNCHANGED settingVars \/ Settings!Request
    BY DEF StackStep, Writes
<1>2. /\ gpioSet' \in [Pin -> {0, 1}]
      /\ main' = "poll" /\ _flag_write' = 0 /\ {"mode", "baudrate"} \subseteq DOMAIN _flash_data'
  <2>1. CASE UNCHANGED settingVars
      BY <1>1, <2>1 DEF settingVars, PassInv
  <2>2. CASE Settings!Request
    <3>1. UNCHANGED <<main, _flag_write, _flash_data>>
        BY <2>2 DEF Settings!Request
    <3>2. QED BY <1>1, <2>2, <3>1, DirectionsWritten DEF PassInv
  <2>3. QED BY <1>1, <2>1, <2>2
<1>3. poll' = "get" /\ ~due' => RateTaken' /\ ImageTaken'
    BY <1>1 DEF PassDue, RateTaken, ImageTaken, Settings!Settled
<1>4. due' => poll' = "get"
    BY <1>1
<1>5. QED BY <1>2, <1>3, <1>4 DEF PassInv

\* UsartModule::run takes over the rate.
LEMMA UsartTakes ==
    ASSUME PassInv, UsartPass, UNCHANGED poll
    PROVE  PassInv'
<1>1. /\ main = "poll" /\ due /\ main' = "flash" /\ due' = FALSE
      /\ IF Settings!RateDiffers THEN _baudrate' = baudReg ELSE _baudrate' = _baudrate
      /\ errorReg' = IF Settings!is_baudrate_correct(baudReg)
                     THEN Settings!_ERROR_BAUDRATE_OK ELSE Settings!_ERROR_BAUDRATE
      /\ UNCHANGED <<gpioSet, baudReg, _flash_data, _flag_write>>
    BY DEF UsartPass, Settings!_baudrate_set
<1>2. RateTaken'
  <2>1. ~Settings!RateDiffers'
      BY <1>1 DEF Settings!RateDiffers, Settings!is_baudrate_correct
  <2>2. errorReg' = IF Settings!is_baudrate_correct(baudReg')
                    THEN Settings!_ERROR_BAUDRATE_OK ELSE Settings!_ERROR_BAUDRATE
      BY <1>1, Zenon DEF Settings!is_baudrate_correct
  <2>3. QED BY <2>1, <2>2, Zenon DEF RateTaken, Settings!is_baudrate_correct,
                                     Settings!_ERROR_BAUDRATE_OK, Settings!_ERROR_BAUDRATE
<1>3. QED BY <1>1, <1>2 DEF PassInv

\* FlashModule::run takes over the directions, which are equal to their saved form, and
\* the rate.
LEMMA FlashTakes ==
    ASSUME PassInv, FlashPass, UNCHANGED poll
    PROVE  PassInv'
<1>1. UNCHANGED <<gpioSet, baudReg, _baudrate, errorReg, due>> /\ main # "poll"
    BY DEF FlashPass, Settings!_polling_flash_data, Settings!ErasePage, Settings!ProgramHalfWord
<1>2. RateTaken' /\ ~due' /\ poll' = "get" /\ gpioSet' \in [Pin -> {0, 1}]
  <2>1. RateTaken' <=> RateTaken
      BY <1>1, Zenon DEF RateTaken, Settings!RateDiffers, Settings!is_baudrate_correct,
                         Settings!_ERROR_BAUDRATE_OK, Settings!_ERROR_BAUDRATE
  <2>2. QED BY <1>1, <2>1 DEF PassInv
<1>3. CASE Settings!_polling_flash_data
  <2>1. main = "flash" /\ _flag_write = 0
      BY <1>3 DEF Settings!_polling_flash_data, PassInv
  <2>2. /\ _flash_data'.baudrate = _baudrate
        /\ _flash_data'.mode = [i \in Pin |-> IF _flash_data.mode[i] # gpioSet[i]
                                              THEN Settings!ModeOf(gpioSet[i])
                                              ELSE _flash_data.mode[i]]
        /\ {"mode", "baudrate"} \subseteq DOMAIN _flash_data'
        /\ \/ main' = "erase" /\ _flag_write' = 1
           \/ main' = "poll" /\ _flag_write' = 0
      BY <1>3, <2>1 DEF Settings!_polling_flash_data
  <2>3. _flash_data'.mode = gpioSet
    <3>1. gpioSet \in [Pin -> {0, 1}]
        BY DEF PassInv
    <3>2. \A i \in Pin : Settings!ModeOf(gpioSet[i]) = gpioSet[i]
        BY <3>1 DEF Settings!ModeOf
    <3>3. gpioSet = [i \in Pin |-> gpioSet[i]]
        BY <3>1
    <3>4. QED BY <2>2, <3>2, <3>3
  <2>4. QED BY <1>1, <1>2, <2>2, <2>3 DEF PassInv, ImageTaken
<1>4. CASE Settings!ErasePage
  <2>1. main = "erase" /\ main' = "program" /\ UNCHANGED <<_flash_data, _flag_write>>
      BY <1>4 DEF Settings!ErasePage, Settings!WriteFails
  <2>2. QED BY <1>1, <1>2, <2>1 DEF PassInv, ImageTaken
<1>5. CASE Settings!ProgramHalfWord
  <2>1. /\ main = "program"
        /\ \/ /\ main' = "poll" /\ _flag_write' = 0
              /\ _flash_data' = [_flash_data EXCEPT !.gpioFlag = 0, !.baudFlag = 0]
           \/ main' = "program" /\ UNCHANGED <<_flash_data, _flag_write>>
      BY <1>5 DEF Settings!ProgramHalfWord, Settings!WriteFails
  <2>2. _flag_write = 1 /\ ImageTaken /\ {"mode", "baudrate"} \subseteq DOMAIN _flash_data
      BY <2>1 DEF PassInv
  <2>3. ImageTaken' /\ {"mode", "baudrate"} \subseteq DOMAIN _flash_data'
      BY <1>1, <2>1, <2>2 DEF ImageTaken
  <2>4. QED BY <1>1, <1>2, <2>1, <2>2, <2>3 DEF PassInv
<1>6. QED BY <1>3, <1>4, <1>5 DEF FlashPass

\* The steps of a firmware whose eMBPoll never returns without an event to modules that
\* have something to do.
RestingNext == MasterStep \/ StallTick \/ Interrupt \/ StackStep \/ ModulesStep

\* Where the directions are 0 or 1 a pass leaves nothing for the next one.
LEMMA NoIdlePoll == Timely /\ RemoteSpec => [][RestingNext]_remoteVars
<1> SUFFICES ASSUME Timely PROVE RemoteSpec => [][RestingNext]_remoteVars
    OBVIOUS
<1>1. RemoteInit => PassInv
  <2> SUFFICES ASSUME RemoteInit PROVE PassInv
      OBVIOUS
  <2>1. poll = "get" /\ due = TRUE /\ main = "poll" /\ _flag_write = 0
        /\ gpioSet = [i \in Pin |-> 0] /\ _flash_data = Settings!EmptyData
      BY DEF RemoteInit, LinkInit, Init, Settings!Init
  <2>2. {"mode", "baudrate"} \subseteq DOMAIN _flash_data
      BY <2>1 DEF Settings!EmptyData
  <2>3. QED BY <2>1, <2>2 DEF PassInv
<1>2. PassInv /\ [RemoteNext]_remoteVars => PassInv'
  <2> SUFFICES ASSUME PassInv, [RemoteNext]_remoteVars PROVE PassInv'
      OBVIOUS
  <2>1. CASE MasterStep \/ Interrupt \/ StallTick \/ UNCHANGED remoteVars
    <3>1. UNCHANGED <<settingVars, due>>
        BY <2>1 DEF MasterStep, Interrupt, StallTick, remoteVars
    <3>2. UNCHANGED poll
      <4>1. CASE MasterStep
          BY <4>1 DEF MasterStep, Master, BeginFrame, ContinueFrame, BreakFrame, PutByte,
                      UartReceive, vars, mainVars
      <4>2. CASE Interrupt
          BY <4>2 DEF Interrupt, Tick, Tim2Update, Tim2, Tim2Isr, T35Expired, ReceiveIsr,
                      ReceiveByte, StoreByte, RestartTimer, Transmit, TransmitByte, Fail, mainVars
      <4>3. CASE StallTick \/ UNCHANGED remoteVars
          BY <4>3 DEF StallTick, remoteVars, linkVars, vars, mainVars
      <4>4. QED BY <2>1, <4>1, <4>2, <4>3
    <3>3. QED BY <3>1, <3>2, PassKept
  <2>2. CASE StackStep
      BY <2>2, StackPass
  <2>3. CASE ModulesStep
    <3>1. UNCHANGED poll
        BY <2>3 DEF ModulesStep, linkVars, vars, mainVars
    <3>2. QED BY <2>3, <3>1, UsartTakes, FlashTakes DEF ModulesStep
  <2>4. CASE IdlePoll
      BY <2>4, NothingDue DEF IdlePoll
  <2>5. QED BY <2>1, <2>2, <2>3, <2>4 DEF RemoteNext, Device
<1>3. PassInv /\ [RemoteNext]_remoteVars => [RestingNext]_remoteVars
  <2>1. PassInv => ~IdlePoll
      BY NothingDue DEF IdlePoll
  <2>2. QED BY <2>1 DEF RemoteNext, Device, RestingNext
<1>4. QED BY <1>1, <1>2, <1>3, PTL DEF RemoteSpec
===============================================================================
