----------------------------- MODULE FlashModule -----------------------------
(* The settings that survive a power cycle: the direction of every channel and   *)
(* the baud rate.  The master writes them into registers; usart_module.cpp puts a *)
(* legal baud rate into use; flash_module.cpp compares both with its RAM image    *)
(* and rewrites the last flash page when they differ; the constructor of          *)
(* RemoteModule reads the page at start.  Power may fail between any two steps,   *)
(* between two half-words being programmed, too.                                  *)
EXTENDS Integers

CONSTANTS
    Pin,          \* channels: 0..7 in the code
    SetByte,      \* bytes the master may write into a direction coil
    BaudHalf,     \* values it may write into either half of the baud rate
    Standard,     \* baudrate_array, each rate as its two half-words
    Default,      \* MODBUS_BAUDRATE, which the USART is started with
    FailAt,       \* where flash_get_status_flags may be other than EOP
    RestartAt     \* where the main loop may be when power fails

ByteValue == 0..255
HalfValue == 0..65535
ErasedByte == 255
Erased     == 65535   \* an erased half-word

\* A baud rate (uint32_t) as the two registers and half-words it occupies.
HalfWord == {"high", "low"}
Rate == [HalfWord -> HalfValue]
NoBaudrate == [h \in HalfWord |-> 0]

_FLASH_GPIO_FLAG == 10
_FLASH_UART_BAUDRATE_FLAG == 11

_ERROR_BAUDRATE_OK == 0
_ERROR_BAUDRATE    == 1

ASSUME FlashAssumption ==
    /\ Pin \subseteq 0..7 /\ SetByte \subseteq ByteValue /\ BaudHalf \subseteq HalfValue
    /\ Standard \subseteq Rate /\ Default \in Standard
    /\ NoBaudrate \notin Standard
    /\ \A b \in Standard : b["high"] # Erased /\ b["low"] # Erased
    /\ FailAt \subseteq {"erase", "program"}
    /\ RestartAt \subseteq {"poll", "flash", "erase", "program"}

VARIABLES
    gpioSet,           \* Coil::GPIO_SET_BITi
    baudReg,           \* Holding::UART_BAUDRATE_0 and _1
    _baudrate, uart,   \* UsartModule::_baudrate, the rate the USART runs at
    errorReg,          \* Input::ERROR_BAUDRATE_UART
    _flash_data,       \* the RAM image
    _flag_write,
    page, programmed,  \* the image in flash, the half-words of it programmed
    main,              \* where the main loop is
    wasWrite, offered  \* history: channels ever set to WRITE, legal rates ever set

ramVars   == <<gpioSet, baudReg, _baudrate, uart, errorReg, _flash_data, _flag_write>>
flashVars == <<page, programmed>>
settingsVars == <<ramVars, flashVars, main, wasWrite, offered>>

FlashData ==
    [gpioFlag : ByteValue, baudFlag : ByteValue, mode : [Pin -> ByteValue],
     baudrate : Rate]

EmptyData ==
    [gpioFlag |-> 0, baudFlag |-> 0, mode |-> [i \in Pin |-> 0],
     baudrate |-> NoBaudrate]

\* _flash_data_save: what the page reads as.  The flags are in half-word 0, the
\* directions in 1..4, two in each, the baud rate in 5 (low) and 6 (high).
SavedGpioFlag == IF programmed > 0 THEN page.gpioFlag ELSE ErasedByte
SavedBaudFlag == IF programmed > 0 THEN page.baudFlag ELSE ErasedByte
SavedMode(i)  == IF programmed > 1 + i \div 2 THEN page.mode[i] ELSE ErasedByte
SavedBaudrate ==
    [h \in HalfWord |-> IF programmed > (IF h = "high" THEN 6 ELSE 5)
                        THEN page.baudrate[h] ELSE Erased]

\* Power comes up with an erased page and the registers at zero.
Init ==
    /\ gpioSet = [i \in Pin |-> 0] /\ baudReg = NoBaudrate
    /\ _baudrate = NoBaudrate /\ uart = Default /\ errorReg = _ERROR_BAUDRATE_OK
    /\ _flash_data = EmptyData /\ _flag_write = 0
    /\ page = EmptyData /\ programmed = 0
    /\ main = "poll" /\ wasWrite = {} /\ offered = {Default}

(* ------------------------------ the master --------------------------------------- *)

\* A request (in eMBPoll) stores a byte into each of some direction coils, or writes a
\* half of the baud rate; one that writes both halves takes two of these steps.
Request ==
    /\ main = "poll"
    /\ \/ \E coils \in SUBSET Pin : \E byte \in [coils -> SetByte] :
            /\ gpioSet' = [i \in Pin |-> IF i \in coils THEN byte[i] ELSE gpioSet[i]]
            /\ wasWrite' = wasWrite \cup {i \in coils : byte[i] = 1}
            /\ UNCHANGED <<baudReg, offered>>
       \/ \E h \in HalfWord, v \in BaudHalf :
            /\ baudReg' = [baudReg EXCEPT ![h] = v]
            /\ offered' = offered \cup ({baudReg'} \cap Standard)
            /\ UNCHANGED <<gpioSet, wasWrite>>
    /\ UNCHANGED <<_baudrate, uart, errorReg, _flash_data, _flag_write, flashVars, main>>

(* ------------------------------ UsartModule::run ---------------------------------- *)

\* Mutant: any rate but 0 is taken.
AnyBaudrate(b) == b # NoBaudrate

is_baudrate_correct(b) == b \in Standard

\* Mutant: the rate is noted and the USART left as it is.
NotedOnly(b) == uart

\* The rate the USART gets with the new _baudrate.
usart_set_baudrate(b) == b

\* Mutant: the USART is disabled and set again on every pass.
SetAlways == is_baudrate_correct(baudReg)

\* A legal rate that differs from the one in use.
RateDiffers == is_baudrate_correct(baudReg) /\ _baudrate # baudReg

\* _baudrate_set: the error register tells whether the rate is legal, and a legal one
\* that differs is put into use.
_baudrate_set ==
    /\ main = "poll"
    /\ errorReg' = IF is_baudrate_correct(baudReg) THEN _ERROR_BAUDRATE_OK ELSE _ERROR_BAUDRATE
    /\ IF RateDiffers
       THEN _baudrate' = baudReg /\ uart' = usart_set_baudrate(baudReg)
       ELSE UNCHANGED <<_baudrate, uart>>
    /\ main' = "flash"
    /\ UNCHANGED <<gpioSet, baudReg, _flash_data, _flag_write, flashVars, wasWrite, offered>>

(* ------------------------------ FlashModule::run ----------------------------------- *)

\* Mutant: whatever is not READ is saved as WRITE.
ModeOrWrite(b) == IF b = 0 THEN 0 ELSE 1

\* Mutant: the two branches are swapped.
ModeSwapped(b) == IF b = 1 THEN 0 ELSE 1

\* A direction is saved as WRITE (1) or READ (0).
ModeOf(b) == IF b = 1 THEN 1 ELSE 0

\* Mutant: a new baud rate is noted and not written.
ForgetBaudrate(gpioChanged, baudChanged) == _flag_write = 1 \/ gpioChanged

MustWrite(gpioChanged, baudChanged) == _flag_write = 1 \/ gpioChanged \/ baudChanged

\* _polling_flash_data, and the test of _flag_write that follows it.
_polling_flash_data ==
    /\ main = "flash"
    /\ LET gpioChanged == \E i \in Pin : _flash_data.mode[i] # gpioSet[i]
           baudChanged == _flash_data.baudrate # _baudrate
       IN  /\ _flash_data' =
                [gpioFlag |-> IF gpioChanged THEN _FLASH_GPIO_FLAG ELSE _flash_data.gpioFlag,
                 baudFlag |-> IF baudChanged THEN _FLASH_UART_BAUDRATE_FLAG
                                             ELSE _flash_data.baudFlag,
                 mode     |-> [i \in Pin |-> IF _flash_data.mode[i] # gpioSet[i]
                                             THEN ModeOf(gpioSet[i]) ELSE _flash_data.mode[i]],
                 baudrate |-> _baudrate]
           /\ _flag_write' = IF MustWrite(gpioChanged, baudChanged) THEN 1 ELSE 0
    /\ main' = IF _flag_write' = 1 THEN "erase" ELSE "poll"
    /\ UNCHANGED <<gpioSet, baudReg, _baudrate, uart, errorReg, flashVars, wasWrite, offered>>

\* _write_data_to_flash returns early: _flag_write stays, the next run tries again.
WriteFails == main \in FailAt /\ main' = "poll" /\ UNCHANGED <<_flash_data, _flag_write>>

\* flash_erase_page; when it fails the page may be erased or not.
ErasePage ==
    /\ main = "erase"
    /\ \/ programmed' = 0 /\ main' = "program" /\ UNCHANGED <<_flash_data, _flag_write>>
       \/ programmed' \in {0, programmed} /\ WriteFails
    /\ UNCHANGED <<gpioSet, baudReg, _baudrate, uart, errorReg, page, wasWrite, offered>>

\* Mutant: the size in words is rounded down.
SizeRoundedDown == 14 \div 4

\* _size_flash_data: 14 bytes, in words, rounded up.
_size_flash_data == 14 \div 4 + 1

\* flash_program_word programs the low half-word, then the high one; the status is
\* looked at after the second.
ProgramHalfWord ==
    /\ main = "program"
    /\ page' = _flash_data
    /\ \/ /\ programmed' = programmed + 1
          /\ IF programmed' = 2 * _size_flash_data
             THEN /\ _flash_data' = [_flash_data EXCEPT !.gpioFlag = 0, !.baudFlag = 0]
                  /\ _flag_write' = 0
                  /\ main' = "poll"
             ELSE UNCHANGED <<_flash_data, _flag_write, main>>
       \/ /\ programmed % 2 = 1
          /\ programmed' \in {programmed, programmed + 1}
          /\ WriteFails
    /\ UNCHANGED <<gpioSet, baudReg, _baudrate, uart, errorReg, wasWrite, offered>>

(* ------------------------------ restart --------------------------------------------- *)

\* Power fails and comes back: RAM is initialised, the USART started with the default
\* rate, and read_data_from_flash takes over what the flags say was saved.
Restart ==
    LET gpio == SavedGpioFlag = _FLASH_GPIO_FLAG
        baud == SavedBaudFlag = _FLASH_UART_BAUDRATE_FLAG
        mode == [i \in Pin |-> IF gpio THEN SavedMode(i) ELSE 0]
        rate == IF baud THEN SavedBaudrate ELSE NoBaudrate
    IN  /\ main \in RestartAt
        /\ gpioSet' = mode /\ baudReg' = rate
        /\ _baudrate' = NoBaudrate /\ uart' = Default /\ errorReg' = _ERROR_BAUDRATE_OK
        /\ _flash_data' = [EmptyData EXCEPT !.mode = mode, !.baudrate = rate]
        /\ _flag_write' = 0
        /\ main' = "poll"
        /\ UNCHANGED <<flashVars, wasWrite, offered>>

(* ------------------------------ the system ------------------------------------------ *)

Run  == _baudrate_set \/ _polling_flash_data \/ ErasePage \/ ProgramHalfWord
Next == Request \/ Run \/ Restart

Spec == Init /\ [][Next]_settingsVars

\* The main loop goes on: it never waits for the master.
FairSpec == Spec /\ WF_settingsVars(Run)

(* ------------------------------ properties ------------------------------------------- *)

\* Every variable has its type; no more is programmed than was erased.
TypeOK ==
    /\ gpioSet \in [Pin -> ByteValue] /\ baudReg \in Rate
    /\ _baudrate \in Standard \cup {NoBaudrate} /\ uart \in Standard
    /\ errorReg \in {_ERROR_BAUDRATE_OK, _ERROR_BAUDRATE}
    /\ _flash_data \in FlashData /\ _flag_write \in {0, 1}
    /\ page \in FlashData /\ programmed \in 0..(2 * _size_flash_data)
    /\ main \in {"poll", "flash", "erase", "program"}
    /\ main = "program" => programmed < 2 * _size_flash_data
    /\ wasWrite \subseteq Pin /\ offered \subseteq Standard

\* The settings are at rest: nothing the master has written is still to be saved.
Settled ==
    /\ main = "poll" /\ _flag_write = 0
    /\ _flash_data.mode = gpioSet /\ _flash_data.baudrate = _baudrate

\* At rest the page holds no setting older than the one in use: what a restart would
\* take from it is the current one, after failed and torn writes, too.
NeverRestoresStale ==
    Settled =>
      /\ SavedGpioFlag = _FLASH_GPIO_FLAG => \A i \in Pin : SavedMode(i) = gpioSet[i]
      /\ SavedBaudFlag = _FLASH_UART_BAUDRATE_FLAG => SavedBaudrate = _baudrate

\* A channel is in WRITE mode, and drives its output, only if the master once made it
\* so: neither a page torn by a power failure nor an odd coil byte does it.
WritesOnlyWhatWasSet == \A i \in Pin : gpioSet[i] = 1 => i \in wasWrite

\* The USART runs at the default rate or at one the master had in both halves of the
\* register: never at one torn in flash or between two requests.
UartUsesOffered == uart \in offered

\* After a pass of UsartModule the error register is clear exactly when the USART runs
\* at the rate the registers ask for: after restarts, rates restored from flash and
\* rates half written, too.
ErrorTellsRate == main # "poll" => (errorReg = _ERROR_BAUDRATE_OK <=> uart = baudReg)

\* When the master and the power leave it alone with 0 or 1 in every direction coil,
\* and writes no longer fail, the module stops writing the flash, which wears: a
\* write that failed or was cut off before does not come back for ever.
FlashRests ==
    /\ <>[][~Request /\ ~Restart /\ ~WriteFails]_settingsVars
    /\ <>[](\A i \in Pin : gpioSet[i] \in {0, 1})
    => <>[](main \notin {"erase", "program"})

\* If Gpio was changed then the gpio module reads its data from flash, if the baud
\* rate was, the uart module does (flash_module.cpp:83-85): at rest a restart brings
\* both back.
SettingsSurvive ==
    Settled =>
      /\ \A i \in Pin : gpioSet[i] = IF SavedGpioFlag = _FLASH_GPIO_FLAG
                                     THEN SavedMode(i) ELSE 0
      /\ _baudrate = IF SavedBaudFlag = _FLASH_UART_BAUDRATE_FLAG
                     THEN SavedBaudrate ELSE NoBaudrate
===============================================================================
