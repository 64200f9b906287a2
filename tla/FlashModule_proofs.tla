--------------------------- MODULE FlashModule_proofs ---------------------------
(* For any channels, bytes, baud rates, failures of the flash and failures of     *)
(* power: what FlashModule keeps.  The flash is only ever what the RAM image was. *)
EXTENDS FlashModule, TLAPS

(* ------------------------------ types -------------------------------------------- *)

\* No rate is a rate, and the legal ones are.
LEMMA RateType == NoBaudrate \in Rate /\ Standard \subseteq Rate /\ Default \in Standard
<1>1. 0 \in HalfValue
  BY DEF HalfValue
<1> QED
  BY <1>1, FlashAssumption DEF NoBaudrate, Rate

\* The flags, the modes and an erased byte are bytes; an erased half-word is one.
LEMMA ByteType == /\ {0, 1, _FLASH_GPIO_FLAG, _FLASH_UART_BAUDRATE_FLAG, ErasedByte} \subseteq ByteValue
                  /\ Erased \in HalfValue
BY DEF ByteValue, HalfValue, _FLASH_GPIO_FLAG, _FLASH_UART_BAUDRATE_FLAG, ErasedByte, Erased

\* What the page reads as has the type of what it holds.
LEMMA SavedType ==
  ASSUME TypeOK
  PROVE  /\ SavedGpioFlag \in ByteValue /\ SavedBaudFlag \in ByteValue
         /\ \A i \in Pin : SavedMode(i) \in ByteValue
         /\ SavedBaudrate \in Rate
<1>1. /\ page.gpioFlag \in ByteValue /\ page.baudFlag \in ByteValue
      /\ page.mode \in [Pin -> ByteValue] /\ page.baudrate \in Rate
  BY DEF TypeOK, FlashData
<1>2. SavedGpioFlag \in ByteValue /\ SavedBaudFlag \in ByteValue
  BY <1>1, ByteType DEF SavedGpioFlag, SavedBaudFlag
<1>3. \A i \in Pin : SavedMode(i) \in ByteValue
  BY <1>1, ByteType DEF SavedMode
<1>4. SavedBaudrate \in Rate
  BY <1>1, ByteType DEF SavedBaudrate, Rate
<1> QED
  BY <1>2, <1>3, <1>4

\* The program starts with an empty image, which has its type.
LEMMA InitTypeOK == Init => TypeOK
<1>1. EmptyData \in FlashData
  BY RateType, ByteType DEF EmptyData, FlashData
<1> QED
  BY <1>1, RateType, ByteType DEF Init, TypeOK, _size_flash_data

\* Every step keeps the types.
LEMMA TypeStep == TypeOK /\ [Next]_settingsVars => TypeOK'
<1> SUFFICES ASSUME TypeOK, [Next]_settingsVars PROVE TypeOK'
  OBVIOUS
<1>1. CASE Request
  <2>1. gpioSet' \in [Pin -> ByteValue] /\ wasWrite' \subseteq Pin
    <3>1. SetByte \subseteq ByteValue
      BY FlashAssumption
    <3> QED
      BY <1>1, <3>1 DEF TypeOK, Request
  <2>2. baudReg' \in Rate /\ offered' \subseteq Standard
    <3>1. BaudHalf \subseteq HalfValue
      BY FlashAssumption
    <3> QED
      BY <1>1, <3>1 DEF TypeOK, Request, Rate
  <2> QED
    BY <1>1, <2>1, <2>2 DEF TypeOK, Request, flashVars
<1>2. CASE _baudrate_set
  BY <1>2 DEF TypeOK, _baudrate_set, RateDiffers, is_baudrate_correct, usart_set_baudrate,
              flashVars
<1>3. CASE _polling_flash_data
  <2>1. _flash_data' \in FlashData
    BY <1>3, RateType, ByteType DEF TypeOK, _polling_flash_data, FlashData, ModeOf
  <2>2. _flag_write' \in {0, 1}
    BY <1>3 DEF TypeOK, _polling_flash_data, MustWrite
  <2> QED
    BY <1>3, <2>1, <2>2 DEF TypeOK, _polling_flash_data, flashVars
<1>4. CASE ErasePage
  BY <1>4 DEF TypeOK, ErasePage, WriteFails, _size_flash_data
<1>5. CASE ProgramHalfWord
  <2>1. _flash_data' \in FlashData /\ page' \in FlashData
    BY <1>5, ByteType DEF TypeOK, ProgramHalfWord, WriteFails, FlashData
  <2>2. _flag_write' \in {0, 1} /\ main' \in {"poll", "program"}
    BY <1>5 DEF TypeOK, ProgramHalfWord, WriteFails
  <2>3. /\ programmed' \in 0..(2 * _size_flash_data)
        /\ main' = "program" => programmed' < 2 * _size_flash_data
    BY <1>5 DEF TypeOK, ProgramHalfWord, WriteFails, _size_flash_data
  <2> QED
    BY <1>5, <2>1, <2>2, <2>3 DEF TypeOK, ProgramHalfWord
<1>6. CASE Restart
  <2>1. gpioSet' \in [Pin -> ByteValue] /\ baudReg' \in Rate
    BY <1>6, SavedType, RateType, ByteType DEF Restart
  <2>2. _flash_data' = [EmptyData EXCEPT !.mode = gpioSet', !.baudrate = baudReg']
    BY <1>6 DEF Restart
  <2>3. _flash_data' \in FlashData
    BY <2>1, <2>2, ByteType DEF EmptyData, FlashData
  <2> QED
    BY <1>6, <2>1, <2>3, RateType DEF TypeOK, Restart, flashVars
<1>7. CASE UNCHANGED settingsVars
  BY <1>7 DEF TypeOK, settingsVars, ramVars, flashVars
<1> QED
  BY <1>1, <1>2, <1>3, <1>4, <1>5, <1>6, <1>7 DEF Next, Run

\* The settings, the image and the page have their types; the write stays in the page.
THEOREM FlashTypeCorrect == Spec => []TypeOK
<1>1. Init => TypeOK
  BY InitTypeOK
<1>2. TypeOK /\ [Next]_settingsVars => TypeOK'
  BY TypeStep
<1> QED
  BY <1>1, <1>2, PTL DEF Spec

(* ------------------------------ directions ------------------------------------------ *)

\* WRITE stands in the RAM image and in flash only for channels the master made so.
WriteKnown ==
    \A i \in Pin : \/ i \in wasWrite
                   \/ gpioSet[i] # 1 /\ _flash_data.mode[i] # 1 /\ page.mode[i] # 1

\* A direction read from the page is what was written there, or an erased byte.
LEMMA SavedModeKnown == \A i \in Pin : SavedMode(i) = 1 => page.mode[i] = 1
BY DEF SavedMode, ErasedByte

\* No step makes a channel WRITE that was not.
LEMMA WriteKnownStep == TypeOK /\ WriteKnown /\ [Next]_settingsVars => WriteKnown'
<1> SUFFICES ASSUME TypeOK, WriteKnown, [Next]_settingsVars PROVE WriteKnown'
  OBVIOUS
<1>1. CASE Request
  <2>1. UNCHANGED <<_flash_data, page>>
    BY <1>1 DEF Request, flashVars
  <2>2. wasWrite \subseteq wasWrite'
    BY <1>1 DEF Request
  <2>3. \A i \in Pin : gpioSet'[i] = 1 => gpioSet[i] = 1 \/ i \in wasWrite'
    BY <1>1 DEF TypeOK, Request
  <2> QED
    BY <2>1, <2>2, <2>3 DEF WriteKnown
<1>2. CASE _polling_flash_data
  <2>1. \A i \in Pin : _flash_data'.mode[i] = 1 => gpioSet[i] = 1 \/ _flash_data.mode[i] = 1
    BY <1>2 DEF _polling_flash_data, ModeOf
  <2>2. UNCHANGED <<gpioSet, page, wasWrite>>
    BY <1>2 DEF _polling_flash_data, flashVars
  <2> QED
    BY <2>1, <2>2 DEF WriteKnown
<1>3. CASE ProgramHalfWord
  <2>1. _flash_data'.mode = _flash_data.mode /\ page'.mode = _flash_data.mode
    BY <1>3 DEF TypeOK, FlashData, ProgramHalfWord, WriteFails
  <2>2. UNCHANGED <<gpioSet, wasWrite>>
    BY <1>3 DEF ProgramHalfWord
  <2> QED
    BY <2>1, <2>2 DEF WriteKnown
<1>4. CASE Restart
  <2>1. \A i \in Pin : gpioSet'[i] = 1 => page.mode[i] = 1
    BY <1>4, SavedModeKnown DEF Restart
  <2>2. _flash_data'.mode = gpioSet' /\ UNCHANGED <<page, wasWrite>>
    BY <1>4 DEF Restart, EmptyData, flashVars
  <2> QED
    BY <2>1, <2>2 DEF WriteKnown
<1>5. CASE _baudrate_set \/ ErasePage \/ UNCHANGED settingsVars
  <2>1. UNCHANGED <<gpioSet, page, wasWrite, _flash_data>>
    BY <1>5 DEF _baudrate_set, ErasePage, WriteFails, settingsVars, ramVars, flashVars
  <2> QED
    BY <2>1 DEF WriteKnown
<1> QED
  BY <1>1, <1>2, <1>3, <1>4, <1>5 DEF Next, Run

\* A channel drives its output only if the master once made it WRITE.
THEOREM DirectionsCorrect == Spec => []WritesOnlyWhatWasSet
<1>1. Init => WriteKnown
  <2> SUFFICES ASSUME Init, NEW i \in Pin
               PROVE  gpioSet[i] # 1 /\ _flash_data.mode[i] # 1 /\ page.mode[i] # 1
    BY DEF WriteKnown
  <2>1. gpioSet[i] = 0 /\ _flash_data.mode[i] = 0 /\ page.mode[i] = 0
    BY DEF Init, EmptyData
  <2> QED
    BY <2>1
<1>2. TypeOK /\ WriteKnown /\ [Next]_settingsVars => WriteKnown'
  BY WriteKnownStep
<1>3. WriteKnown => WritesOnlyWhatWasSet
  BY DEF WriteKnown, WritesOnlyWhatWasSet
<1> QED
  BY <1>1, <1>2, <1>3, FlashTypeCorrect, PTL DEF Spec

(* ------------------------------ stale settings ------------------------------------------ *)

\* What the flags vouch for in the page is what the RAM image holds.
PageMatchesImage ==
    /\ SavedGpioFlag = _FLASH_GPIO_FLAG => \A i \in Pin : SavedMode(i) = _flash_data.mode[i]
    /\ SavedBaudFlag = _FLASH_UART_BAUDRATE_FLAG => SavedBaudrate = _flash_data.baudrate

\* It does whenever no write is due; a write is due until the whole page is written.
NotDueMatches ==
    /\ main \in {"erase", "program"} => _flag_write = 1
    /\ _flag_write = 0 => PageMatchesImage

\* A page written to its end reads as the image it was written from.
LEMMA WholePage ==
  TypeOK /\ programmed = 2 * _size_flash_data =>
    /\ \A i \in Pin : SavedMode(i) = page.mode[i]
    /\ SavedBaudrate = page.baudrate
<1> SUFFICES ASSUME TypeOK, programmed = 2 * _size_flash_data
             PROVE  /\ \A i \in Pin : SavedMode(i) = page.mode[i]
                    /\ SavedBaudrate = page.baudrate
  OBVIOUS
<1>1. programmed = 8
  BY DEF _size_flash_data
<1>2. \A i \in Pin : SavedMode(i) = page.mode[i]
  <2>1. \A i \in 0..7 : 1 + i \div 2 < 8
    OBVIOUS
  <2>2. Pin \subseteq 0..7
    BY FlashAssumption
  <2> QED
    BY <1>1, <2>1, <2>2 DEF SavedMode
<1>3. SavedBaudrate = page.baudrate
  <2>1. page.baudrate \in Rate
    BY DEF TypeOK, FlashData
  <2> QED
    BY <1>1, <2>1 DEF SavedBaudrate, Rate
<1> QED
  BY <1>2, <1>3

\* No step lets the page and the image differ without a write being due.
LEMMA MatchStep == TypeOK /\ NotDueMatches /\ [Next]_settingsVars => NotDueMatches'
<1> SUFFICES ASSUME TypeOK, NotDueMatches, [Next]_settingsVars PROVE NotDueMatches'
  OBVIOUS
<1>0. TypeOK'
  BY TypeStep
<1>1. ASSUME UNCHANGED <<page, programmed, _flash_data>> PROVE PageMatchesImage' <=> PageMatchesImage
  BY <1>1 DEF PageMatchesImage, SavedGpioFlag, SavedBaudFlag, SavedMode, SavedBaudrate
<1>2. CASE Request \/ _baudrate_set \/ UNCHANGED settingsVars
  <2>1. /\ UNCHANGED <<page, programmed, _flash_data, _flag_write>>
        /\ main' \in {main, "flash"}
    BY <1>2 DEF Request, _baudrate_set, settingsVars, ramVars, flashVars
  <2> QED
    BY <1>1, <2>1 DEF NotDueMatches
<1>3. CASE _polling_flash_data
  <2>1. ASSUME _flag_write' = 0
        PROVE  /\ _flag_write = 0 /\ UNCHANGED <<page, programmed>>
               /\ \A i \in Pin : _flash_data'.mode[i] = _flash_data.mode[i]
               /\ _flash_data'.baudrate = _flash_data.baudrate
    BY <1>3, <2>1 DEF TypeOK, _polling_flash_data, MustWrite, flashVars
  <2>2. _flag_write' = 0 => PageMatchesImage'
    BY <2>1 DEF NotDueMatches, PageMatchesImage, SavedGpioFlag, SavedBaudFlag, SavedMode,
                SavedBaudrate
  <2>3. main' \in {"erase", "program"} => _flag_write' = 1
    BY <1>3 DEF _polling_flash_data
  <2> QED
    BY <2>2, <2>3 DEF NotDueMatches
<1>4. CASE ErasePage
  BY <1>4 DEF NotDueMatches, ErasePage, WriteFails
<1>5. CASE ProgramHalfWord
  <2>1. CASE _flag_write' = 1
    BY <2>1 DEF NotDueMatches
  <2>2. CASE _flag_write' # 1
    <3>1. /\ programmed' = 2 * _size_flash_data /\ page' = _flash_data
          /\ _flash_data' = [_flash_data EXCEPT !.gpioFlag = 0, !.baudFlag = 0]
          /\ main' = "poll"
      BY <1>5, <2>2 DEF TypeOK, NotDueMatches, ProgramHalfWord, WriteFails
    <3>2. _flash_data'.mode = page'.mode /\ _flash_data'.baudrate = page'.baudrate
      BY <3>1 DEF TypeOK, FlashData
    <3>3. PageMatchesImage'
      <4>1. (TypeOK /\ programmed = 2 * _size_flash_data =>
              /\ \A i \in Pin : SavedMode(i) = page.mode[i]
              /\ SavedBaudrate = page.baudrate)'
        BY WholePage, PTL
      <4>2. (programmed = 2 * _size_flash_data)'
        BY <3>1
      <4> QED
        BY <1>0, <3>2, <4>1, <4>2 DEF PageMatchesImage
    <3> QED
      BY <3>1, <3>3 DEF NotDueMatches
  <2> QED
    BY <2>1, <2>2
<1>6. CASE Restart
  <2>1. UNCHANGED <<page, programmed>> /\ main' = "poll"
    BY <1>6 DEF Restart, flashVars
  <2>2. SavedGpioFlag = _FLASH_GPIO_FLAG => \A i \in Pin : _flash_data'.mode[i] = SavedMode(i)
    BY <1>6 DEF Restart, EmptyData
  <2>3. SavedBaudFlag = _FLASH_UART_BAUDRATE_FLAG => _flash_data'.baudrate = SavedBaudrate
    BY <1>6 DEF Restart, EmptyData
  <2> QED
    BY <2>1, <2>2, <2>3 DEF NotDueMatches, PageMatchesImage, SavedGpioFlag, SavedBaudFlag,
                            SavedMode, SavedBaudrate
<1> QED
  BY <1>2, <1>3, <1>4, <1>5, <1>6 DEF Next, Run

\* At rest the page holds no setting older than the one in use.
THEOREM NeverStaleCorrect == Spec => []NeverRestoresStale
<1>1. Init => NotDueMatches
  BY DEF Init, NotDueMatches, PageMatchesImage, SavedGpioFlag, SavedBaudFlag, ErasedByte,
         _FLASH_GPIO_FLAG, _FLASH_UART_BAUDRATE_FLAG
<1>2. TypeOK /\ NotDueMatches /\ [Next]_settingsVars => NotDueMatches'
  BY MatchStep
<1>3. NotDueMatches => NeverRestoresStale
  BY DEF NotDueMatches, PageMatchesImage, NeverRestoresStale, Settled
<1> QED
  BY <1>1, <1>2, <1>3, FlashTypeCorrect, PTL DEF Spec

(* ------------------------------ the rate in use ------------------------------------- *)

\* Every legal rate found in a register, in the image or in flash was once offered.
RatesOffered ==
    /\ Default \in offered /\ uart \in offered
    /\ baudReg \in Standard => baudReg \in offered
    /\ _baudrate \in Standard => _baudrate \in offered
    /\ _flash_data.baudrate \in Standard => _flash_data.baudrate \in offered
    /\ page.baudrate \in Standard => page.baudrate \in offered

\* A rate torn in flash has an erased half and is not legal: a legal one is whole.
LEMMA LegalIsWhole == TypeOK /\ SavedBaudrate \in Standard => SavedBaudrate = page.baudrate
<1> SUFFICES ASSUME TypeOK, SavedBaudrate \in Standard PROVE SavedBaudrate = page.baudrate
  OBVIOUS
<1>1. SavedBaudrate["high"] # Erased /\ SavedBaudrate["low"] # Erased
  BY FlashAssumption
<1>2. \A h \in HalfWord : SavedBaudrate[h] = page.baudrate[h]
  BY <1>1 DEF SavedBaudrate, HalfWord
<1>3. page.baudrate = [h \in HalfWord |-> page.baudrate[h]]
  BY DEF TypeOK, FlashData, Rate
<1>4. SavedBaudrate = [h \in HalfWord |-> SavedBaudrate[h]]
  BY DEF SavedBaudrate
<1> QED
  BY <1>2, <1>3, <1>4

\* No step brings in a legal rate that was not offered.
LEMMA RatesStep == TypeOK /\ RatesOffered /\ [Next]_settingsVars => RatesOffered'
<1> SUFFICES ASSUME TypeOK, RatesOffered, [Next]_settingsVars PROVE RatesOffered'
  OBVIOUS
<1>1. CASE Request
  <2>1. UNCHANGED <<_baudrate, uart, _flash_data, page>> /\ offered \subseteq offered'
    BY <1>1 DEF Request, flashVars
  <2>2. baudReg' \in Standard => baudReg' \in offered'
    BY <1>1 DEF Request, RatesOffered
  <2> QED
    BY <2>1, <2>2 DEF RatesOffered
<1>2. CASE _baudrate_set
  <2>1. UNCHANGED <<baudReg, _flash_data, page, offered>>
    BY <1>2 DEF _baudrate_set, flashVars
  <2>2. \/ UNCHANGED <<_baudrate, uart>>
        \/ baudReg \in Standard /\ _baudrate' = baudReg /\ uart' = baudReg
    BY <1>2 DEF _baudrate_set, RateDiffers, is_baudrate_correct, usart_set_baudrate
  <2> QED
    BY <2>1, <2>2 DEF RatesOffered
<1>3. CASE _polling_flash_data
  <2>1. UNCHANGED <<baudReg, _baudrate, uart, page, offered>>
    BY <1>3 DEF _polling_flash_data, flashVars
  <2>2. _flash_data'.baudrate = _baudrate
    BY <1>3 DEF _polling_flash_data
  <2> QED
    BY <2>1, <2>2 DEF RatesOffered
<1>4. CASE ProgramHalfWord
  <2>1. UNCHANGED <<baudReg, _baudrate, uart, offered>> /\ page' = _flash_data
    BY <1>4 DEF ProgramHalfWord
  <2>2. _flash_data'.baudrate = _flash_data.baudrate
    BY <1>4 DEF TypeOK, FlashData, ProgramHalfWord, WriteFails
  <2> QED
    BY <2>1, <2>2 DEF RatesOffered
<1>5. CASE Restart
  <2>1. UNCHANGED <<page, offered>> /\ _baudrate' = NoBaudrate /\ uart' = Default
    BY <1>5 DEF Restart, flashVars
  <2>2. baudReg' \in {SavedBaudrate, NoBaudrate} /\ _flash_data'.baudrate = baudReg'
    BY <1>5 DEF Restart, EmptyData
  <2>3. SavedBaudrate \in Standard => SavedBaudrate \in offered
    BY LegalIsWhole DEF RatesOffered
  <2> QED
    BY <2>1, <2>2, <2>3, FlashAssumption DEF RatesOffered
<1>6. CASE ErasePage \/ UNCHANGED settingsVars
  <2>1. UNCHANGED <<baudReg, _baudrate, uart, page, offered, _flash_data>>
    BY <1>6 DEF ErasePage, WriteFails, settingsVars, ramVars, flashVars
  <2> QED
    BY <2>1 DEF RatesOffered
<1> QED
  BY <1>1, <1>2, <1>3, <1>4, <1>5, <1>6 DEF Next, Run

\* The USART never runs at a rate the master did not have in both registers at once.
THEOREM RatesCorrect == Spec => []UartUsesOffered
<1>1. Init => RatesOffered
  <2> SUFFICES ASSUME Init PROVE RatesOffered
    OBVIOUS
  <2>1. /\ baudReg = NoBaudrate /\ _baudrate = NoBaudrate /\ uart = Default
        /\ _flash_data.baudrate = NoBaudrate /\ page.baudrate = NoBaudrate
        /\ offered = {Default}
    BY DEF Init, EmptyData
  <2> QED
    BY <2>1, FlashAssumption DEF RatesOffered
<1>2. TypeOK /\ RatesOffered /\ [Next]_settingsVars => RatesOffered'
  BY RatesStep
<1>3. RatesOffered => UartUsesOffered
  BY DEF RatesOffered, UartUsesOffered
<1> QED
  BY <1>1, <1>2, <1>3, FlashTypeCorrect, PTL DEF Spec

(* ------------------------------ the error register ---------------------------------- *)

\* The USART runs at the rate the module noted, once it noted one; and between the two
\* modules of a pass the error register is clear exactly when that is the rate asked for.
ErrorKnown ==
    /\ _baudrate # NoBaudrate => uart = _baudrate
    /\ main # "poll" => IF errorReg = _ERROR_BAUDRATE_OK
                        THEN baudReg \in Standard /\ _baudrate = baudReg
                        ELSE baudReg \notin Standard

LEMMA ErrorStep == TypeOK /\ ErrorKnown /\ [Next]_settingsVars => ErrorKnown'
<1> SUFFICES ASSUME TypeOK, ErrorKnown, [Next]_settingsVars PROVE ErrorKnown'
  OBVIOUS
<1>1. CASE _baudrate_set
  BY <1>1 DEF ErrorKnown, _baudrate_set, RateDiffers, is_baudrate_correct, usart_set_baudrate,
              _ERROR_BAUDRATE_OK, _ERROR_BAUDRATE
<1>2. CASE Request
  BY <1>2 DEF ErrorKnown, Request
<1>3. CASE _polling_flash_data
  BY <1>3 DEF ErrorKnown, _polling_flash_data
<1>4. CASE ErasePage
  BY <1>4 DEF ErrorKnown, ErasePage
<1>5. CASE ProgramHalfWord
  BY <1>5 DEF ErrorKnown, ProgramHalfWord
<1>6. CASE Restart
  BY <1>6 DEF ErrorKnown, Restart
<1>7. CASE UNCHANGED settingsVars
  BY <1>7 DEF ErrorKnown, settingsVars, ramVars
<1> QED
  BY <1>1, <1>2, <1>3, <1>4, <1>5, <1>6, <1>7 DEF Next, Run

\* The error register never claims a rate the USART does not run at, nor the reverse.
THEOREM ErrorRegisterCorrect == Spec => []ErrorTellsRate
<1>1. Init => ErrorKnown
  BY DEF Init, ErrorKnown
<1>2. TypeOK /\ ErrorKnown /\ [Next]_settingsVars => ErrorKnown'
  BY ErrorStep
<1>3. TypeOK /\ ErrorKnown => ErrorTellsRate
  BY FlashAssumption DEF TypeOK, ErrorKnown, ErrorTellsRate
<1> QED
  BY <1>1, <1>2, <1>3, FlashTypeCorrect, PTL DEF Spec
===============================================================================
