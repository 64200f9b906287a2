------------------------------- MODULE RemoteIO -------------------------------
(* The whole main loop: eMBPoll on the bus of ModbusLink, then one pass of the    *)
(* modules (RemoteModule::run), where the settings of FlashModule are put into    *)
(* use and saved while a reply is still going out.  Two things of the modules     *)
(* reach the line: the USART is stopped to change its rate, and the CPU stands    *)
(* still, interrupts included, while a flash page is erased.  A pass that finds   *)
(* nothing to do is no step.  The variables of the settings are those of          *)
(* FlashModule, with no failing flash and no restart.                             *)
EXTENDS ModbusLink

CONSTANTS
    Pin, SetByte, BaudHalf, Standard, Default,   \* as in FlashModule
    Effect,     \* what the handler of a frame writes: "none", "mode", "rate"
    NewRate,    \* the rate a "rate" frame asks for (function 6, the low register)
    CharTicks   \* the ticks of TIM2 a character takes at a rate

VARIABLES
    gpioSet, baudReg, _baudrate, uart, errorReg, _flash_data, _flag_write,
    page, programmed, main, wasWrite, offered,   \* as in FlashModule
    due,       \* eMBPoll has returned and the pass of the modules has not begun
    marred     \* history: the replies during which the USART or the CPU stood still

Settings == INSTANCE FlashModule WITH FailAt <- {}, RestartAt <- {}

ASSUME RemoteAssumption ==
    /\ Pin \subseteq 0..7 /\ SetByte \subseteq Settings!ByteValue
    /\ BaudHalf \subseteq Settings!HalfValue
    /\ Standard \subseteq Settings!Rate /\ Default \in Standard
    /\ Settings!NoBaudrate \notin Standard
    /\ \A b \in Standard : \A h \in Settings!HalfWord : b[h] # Settings!Erased
    /\ Effect \in [Frame -> {"none", "mode", "rate"}]
    /\ NewRate \in Standard /\ NewRate["high"] = 0 /\ NewRate["low"] \in BaudHalf
    /\ CharTicks \in [Standard -> Nat \ {0}]

\* A master that keeps the rules, and an interrupt in time for it.  At any rate in use a
\* character with its gap and the lag ends before t3.5, which may last a tick less than
\* Timeout; the silence is longer than that gap; no frame has the full length (run
\* longest); the master waits until the slave is done (run hasty).  A direction is 0 or 1,
\* as function 5 stores it: a packed byte of function 15 is none (run coils), and makes
\* every pass erase the page.
Timely ==
    /\ Patience = "all" /\ SetByte \subseteq {0, 1}
    /\ MinSilence \in Nat /\ MaxGap \in Nat /\ MaxLag \in Nat
    /\ \A r \in {Default, NewRate} :
         /\ CharTicks[r] + MaxGap + MaxLag < Timeout
         /\ CharTicks[r] + MaxGap <= MinSilence
    /\ \A f \in Frame : FrameLength[f] \in MB_SER_PDU_SIZE_MIN..(MB_SER_PDU_SIZE_MAX - 1)

settingVars == <<gpioSet, baudReg, _baudrate, uart, errorReg, _flash_data, _flag_write,
                 page, programmed, main, wasWrite, offered>>
remoteVars  == <<linkVars, settingVars, due, marred>>

RemoteInit == LinkInit /\ Settings!Init /\ due = TRUE /\ marred = {}

(* ------------------------------ the master --------------------------------------- *)

\* The master changes its rate with its first frame after the one that asked this slave for it.
MasterRate ==
    IF \E f \in delivered : FrameAddress[f] # "other" /\ Effect[f] = "rate"
    THEN NewRate ELSE Default

\* A master that waits at all begins a frame only after the time the slave needs to put a
\* setting into use.
MasterStep ==
    /\ current = 0 /\ Patience # "none" => ~due /\ main = "poll"
    /\ Master(CharTicks[MasterRate], uart = MasterRate)
    /\ UNCHANGED <<settingVars, due, marred>>

(* ------------------------------ time and interrupts ------------------------------- *)

Stalled == main = "erase"

Interrupt ==
    /\ ~Stalled
    /\ Tick \/ Tim2 \/ ReceiveIsr \/ Transmit
    /\ UNCHANGED <<settingVars, due, marred>>

\* TIM2 and the line go on while the CPU stands still; overflows after the first are lost.
StallTick ==
    /\ Stalled /\ halted = "no"
    /\ uif' = 1
    /\ quiet' = IF quiet < MinSilence THEN quiet + 1 ELSE quiet
    /\ UNCHANGED <<rcvVars, ucRTUBuf, sndVars, downcounter, uie, queueVars, usartVars,
                   isrVars, mainVars, halted, masterVars, lag, history, settingVars,
                   due, marred>>

(* ------------------------------ Modbus::poll --------------------------------------- *)

\* A pass of the modules would change something.
PassDue ==
    \/ Settings!RateDiffers \/ ~Settings!Settled
    \/ errorReg # IF Settings!is_baudrate_correct(baudReg)
                  THEN Settings!_ERROR_BAUDRATE_OK ELSE Settings!_ERROR_BAUDRATE

\* The registers the handler of the PDU writes: a "mode" frame stores any bytes into any
\* of the direction coils.
Writes(pdu) ==
    LET effect == {Effect[f] : f \in {g \in Frame : FramePdu(g) = pdu}}
    IN  \/ /\ effect = {"rate"} /\ Settings!Request
           /\ baudReg' = NewRate /\ gpioSet' = gpioSet
        \/ /\ effect = {"mode"} /\ Settings!Request
           /\ baudReg' = baudReg
        \/ effect \subseteq {"none"} /\ UNCHANGED settingVars

StackStep ==
    /\ main = "poll" /\ ~due
    /\ \/ RunHandler /\ Writes(request')
       \/ (OtherPoll \/ SendReply) /\ UNCHANGED settingVars
    /\ due' = (poll' = "get" /\ PassDue')
    /\ UNCHANGED marred

\* eMBPoll finds no event.  The pass that follows has something to do if the one before
\* it left something: a direction that can never equal its saved form.
IdlePoll ==
    /\ MainRuns /\ main = "poll" /\ ~due
    /\ poll = "get" /\ xEventInQueue = 0 /\ PassDue
    /\ due' = TRUE
    /\ UNCHANGED <<linkVars, settingVars, marred>>

(* ------------------------------ RemoteModule::run ---------------------------------- *)

\* A reply is on its way: its last byte, too, takes a character after it was written.
Replying == eSndState = "TX_XMIT" \/ quiet < CharTicks[uart]

Disturbs(still) ==
    marred' = IF still /\ Replying THEN marred \cup {Len(replies)} ELSE marred

UsartPass ==
    /\ due /\ Settings!_baudrate_set
    /\ due' = FALSE
    /\ Disturbs(Settings!RateDiffers)

FlashPass ==
    /\ \/ Settings!_polling_flash_data
       \/ Settings!ErasePage
       \/ Settings!ProgramHalfWord
    /\ Disturbs(Stalled)
    /\ UNCHANGED due

\* ErasePage is the CPU standing still: no interrupt can hold it up.
ModulesStep ==
    /\ Stalled \/ MainRuns
    /\ UsartPass \/ FlashPass
    /\ UNCHANGED linkVars

(* ------------------------------ the system ------------------------------------------ *)

Device     == Interrupt \/ StackStep \/ IdlePoll \/ ModulesStep
RemoteNext == MasterStep \/ StallTick \/ Device

RemoteSpec == RemoteInit /\ [][RemoteNext]_remoteVars

\* The device goes on while it has something to do: the main loop never stops, pending
\* interrupts are served, TIM2 counts, an erase ends.  Which flow goes first is open,
\* and the master owes nothing.
FairRemoteSpec == RemoteSpec /\ WF_remoteVars(Device)

(* ------------------------------ properties ------------------------------------------- *)

\* The master is in the middle of a frame whose next byte is not overdue.
Sending == current # 0 /\ quiet < CharTicks[MasterRate] + MaxGap

\* The end of a frame is never seen in the middle of one: t3.5 does not end the frame
\* being received while the master is still sending it, at any rate (mbrtu.c:96-97).
T35OnlyInSilence ==
    [][eRcvState = "RX_RCV" /\ eRcvState' = "RX_IDLE" => ~Sending]_remoteVars

\* A reply is disturbed, by the change of the rate or by the erasing of a page, only
\* if its own request wrote a setting: never one to another request, as long as every
\* direction written is 0 or 1.
RepliesIntact ==
    \A k \in marred \cap DOMAIN replies :
      \E j \in DOMAIN executed, f \in Frame :
        Unicast(j, k) /\ FramePdu(f) = executed[j].pdu /\ Effect[f] # "none"

\* What the request f asks for is in use and in flash: every direction reads from the
\* page as it is, or all of them are still 0 and the page has never been written.
InForce(f) ==
    /\ Effect[f] = "rate" => uart = NewRate /\ Settings!SavedBaudrate = NewRate
    /\ Effect[f] = "mode" =>
         /\ Settings!Settled
         /\ \A i \in Pin :
              \/ Settings!SavedMode(i) = gpioSet[i]
              \/ programmed = 0 /\ gpioSet[i] = 0

\* Every setting the master has written is eventually in use and in flash, though the
\* pass that does it competes with the interrupts of the reply and with later frames.
SettingsReached == \A f \in Frame : IsExecuted(f) ~> InForce(f)
===============================================================================
