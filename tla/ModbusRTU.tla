------------------------------ MODULE ModbusRTU ------------------------------
(* The Modbus RTU slave of the firmware: eMBPoll (mb.c), the receive and        *)
(* transmit state machines (mbrtu.c) and the port layer under them (portevent,  *)
(* portserial, porttimer), with the three flows of control that share their     *)
(* variables:                                                                   *)
(*   - the main loop, which calls eMBPoll again and again;                      *)
(*   - usart1_isr, which preempts the main loop;                                *)
(*   - tim2_isr, which preempts both.                                           *)
(* A step is what one flow does between two points where another flow can see   *)
(* the difference; a critical section is one step.  The bus is free here: any   *)
(* byte of Byte may arrive at any moment (module ModbusLink adds a master).     *)
EXTENDS SerialBytes

CONSTANTS
    Byte,                 \* bytes the bus may deliver
    MB_SER_PDU_SIZE_MAX,  \* size of ucRTUBuf (256 in the code)
    Timeout,              \* ticks of TIM2 in t3.5 (35 in the code)
    ReplyLength           \* PDU lengths a handler may leave, 0: none built

MB_SER_PDU_SIZE_MIN == 4

ASSUME RTUAssumption ==
    /\ MB_SER_PDU_SIZE_MAX \in Nat /\ MB_SER_PDU_SIZE_MAX >= MB_SER_PDU_SIZE_MIN
    /\ Timeout \in 1..65535
    /\ ReplyLength \subseteq 0..(MB_SER_PDU_SIZE_MAX - 3)

VARIABLES
    eRcvState, usRcvBufferPos,                      \* receiver
    ucRTUBuf,                                       \* the one frame buffer
    eSndState, pucSndBufferCur, usSndBufferCount,   \* transmitter
    downcounter, uie, uif,                          \* t3.5: software counter and TIM2
    xEventInQueue, eQueuedEvent,                    \* the one-slot event queue
    rxie, txie, rdr,                                \* USART1: RXNEIE, TXEIE, data register
    isr, ucByte, stateRead,                         \* usart1_isr: where it is, its locals
    poll, eEvent, ucRcvAddress, usLength, request,  \* eMBPoll: where it is, its statics
    halted                                          \* the assert that stopped the program

rcvVars   == <<eRcvState, usRcvBufferPos>>
sndVars   == <<eSndState, pucSndBufferCur, usSndBufferCount>>
timerVars == <<downcounter, uie, uif>>
queueVars == <<xEventInQueue, eQueuedEvent>>
usartVars == <<rxie, txie, rdr>>
isrVars   == <<isr, ucByte, stateRead>>
frameVars == <<ucRcvAddress, usLength, request>>
mainVars  == <<poll, eEvent, ucRcvAddress, usLength, request>>
vars == <<rcvVars, ucRTUBuf, sndVars, timerVars, queueVars, usartVars, isrVars,
          mainVars, halted>>

eMBRcvState  == {"RX_INIT", "RX_IDLE", "RX_RCV", "RX_ERROR"}
eMBSndState  == {"TX_IDLE", "TX_XMIT"}
eMBEventType == {"EV_READY", "EV_FRAME_RECEIVED", "EV_EXECUTE", "EV_FRAME_SENT"}
Asserts      == {"mbrtu.c:157", "mbrtu.c:231", "mbrtu.c:290", "mbrtu.c:347"}

\* The first n bytes of the buffer from offset a, as a sequence.
Bytes(a, n) == [i \in 1..n |-> ucRTUBuf[a + i - 1]]

\* Mutant: eMBRTUStart begins with an idle receiver, the timer running.
StartStateIdle == "RX_IDLE"

\* The receiver state eMBRTUStart sets.
StartState == "RX_INIT"

\* eMBRTUStart: the receiver waits for a silent bus before it listens.
Init ==
    /\ eRcvState = StartState /\ usRcvBufferPos = 0
    /\ ucRTUBuf = [i \in 0..(MB_SER_PDU_SIZE_MAX - 1) |-> ZeroByte]
    /\ eSndState = "TX_IDLE" /\ pucSndBufferCur = 0 /\ usSndBufferCount = 0
    /\ downcounter = Timeout /\ uie = 1 /\ uif \in {0, 1}
    /\ xEventInQueue = 0 /\ eQueuedEvent = "EV_READY"
    /\ rxie = 1 /\ txie = 0 /\ rdr = <<>>
    /\ isr = "none" /\ ucByte = ZeroByte /\ stateRead = "RX_INIT"
    /\ poll = "get" /\ eEvent = "EV_READY"
    /\ ucRcvAddress = "other" /\ usLength = 0 /\ request = <<>>
    /\ halted = "no"

(* ------------------------------ port layer --------------------------------- *)

xMBPortEventPost(e) == xEventInQueue' = 1 /\ eQueuedEvent' = e

\* Mutant: a timer that is running is not started again.
TimersEnableOnce == downcounter' = (IF uie = 1 THEN downcounter ELSE Timeout) /\ uie' = 1

vMBPortTimersEnable == downcounter' = Timeout /\ uie' = 1

\* Mutant: the receiver is left enabled when the transmitter is turned on.
SerialEnableBoth(rx, tx) == rxie' = 1 /\ txie' = tx

\* vMBPortSerialEnable(xRxEnable, xTxEnable) for exactly one of them 1.
vMBPortSerialEnable(rx, tx) == rxie' = rx /\ txie' = tx

\* Priorities: tim2_isr runs as soon as it is pending, usart1_isr over the main loop.
Tim2Pending == uie = 1 /\ uif = 1
MainRuns    == halted = "no" /\ ~Tim2Pending /\ isr = "none"
IsrRuns     == halted = "no" /\ ~Tim2Pending

\* A failed assert: nothing of the program runs any more.
Fail(line) ==
    /\ halted' = line
    /\ UNCHANGED <<rcvVars, ucRTUBuf, sndVars, timerVars, queueVars, usartVars,
                   isrVars, mainVars>>

(* ------------------------------ the hardware -------------------------------- *)

\* A byte arrives.  While the last one has not been read it is lost (overrun).
UartReceive(b) ==
    /\ halted = "no"
    /\ rdr' = IF rdr = <<>> THEN <<b>> ELSE rdr
    /\ UNCHANGED <<rcvVars, ucRTUBuf, sndVars, timerVars, queueVars, rxie, txie,
                   isrVars, mainVars, halted>>

\* TIM2 overflows.  The counter runs all the time and sets UIF even while the
\* interrupt is disabled, so enabling it may be followed by an immediate tick.
Tim2Update ==
    /\ halted = "no" /\ ~Tim2Pending
    /\ uif' = 1
    /\ UNCHANGED <<rcvVars, ucRTUBuf, sndVars, downcounter, uie, queueVars,
                   usartVars, isrVars, mainVars, halted>>

(* ------------------------------ tim2_isr ------------------------------------ *)

\* xMBRTUTimerT35Expired.
T35Expired ==
    IF eRcvState = "RX_IDLE" THEN Fail("mbrtu.c:347")
    ELSE /\ \/ eRcvState = "RX_INIT"  /\ xMBPortEventPost("EV_READY")
            \/ eRcvState = "RX_RCV"   /\ xMBPortEventPost("EV_FRAME_RECEIVED")
            \/ eRcvState = "RX_ERROR" /\ UNCHANGED queueVars
         /\ uie' = 0
         /\ eRcvState' = "RX_IDLE"
         /\ uif' = 0 /\ downcounter' = 0
         /\ UNCHANGED <<usRcvBufferPos, ucRTUBuf, sndVars, usartVars, isrVars,
                        mainVars, halted>>

\* tim2_isr: one tick less; downcounter is a uint16_t.
Tim2Isr ==
    /\ halted = "no" /\ Tim2Pending
    /\ IF (downcounter - 1) % 65536 = 0
       THEN T35Expired
       ELSE /\ uif' = 0
            /\ downcounter' = (downcounter - 1) % 65536
            /\ UNCHANGED <<rcvVars, ucRTUBuf, sndVars, uie, queueVars, usartVars,
                           isrVars, mainVars, halted>>

(* ------------------------------ usart1_isr ----------------------------------- *)

\* Mutant: one byte too many is stored.
RoomForOneMore == usRcvBufferPos <= MB_SER_PDU_SIZE_MAX

RoomInBuffer == usRcvBufferPos < MB_SER_PDU_SIZE_MAX

\* xMBRTUReceiveFSM, in three steps: tim2_isr may run between the read of
\* eRcvState, the state change and the restart of the timer.
ReceiveByte ==
    /\ IsrRuns /\ isr = "none" /\ rxie = 1 /\ rdr # <<>>
    /\ IF eSndState # "TX_IDLE" THEN Fail("mbrtu.c:231")
       ELSE /\ ucByte' = rdr[1] /\ rdr' = <<>>
            /\ stateRead' = eRcvState
            /\ isr' = "store"
            /\ UNCHANGED <<rcvVars, ucRTUBuf, sndVars, timerVars, queueVars, rxie,
                           txie, mainVars, halted>>

StoreByte ==
    /\ IsrRuns /\ isr = "store"
    /\ \/ /\ stateRead \in {"RX_INIT", "RX_ERROR"}
          /\ UNCHANGED <<rcvVars, ucRTUBuf>>
       \/ /\ stateRead = "RX_IDLE"
          /\ ucRTUBuf' = [ucRTUBuf EXCEPT ![0] = ucByte]
          /\ usRcvBufferPos' = 1
          /\ eRcvState' = "RX_RCV"
       \/ /\ stateRead = "RX_RCV" /\ RoomInBuffer
          /\ ucRTUBuf' = [ucRTUBuf EXCEPT ![usRcvBufferPos] = ucByte]
          /\ usRcvBufferPos' = usRcvBufferPos + 1
          /\ UNCHANGED eRcvState
       \/ /\ stateRead = "RX_RCV" /\ ~RoomInBuffer
          /\ eRcvState' = "RX_ERROR"
          /\ UNCHANGED <<usRcvBufferPos, ucRTUBuf>>
    /\ isr' = "arm"
    /\ UNCHANGED <<sndVars, timerVars, queueVars, usartVars, ucByte, stateRead,
                   mainVars, halted>>

RestartTimer ==
    /\ IsrRuns /\ isr = "arm"
    /\ vMBPortTimersEnable
    /\ isr' = "none"
    /\ UNCHANGED <<rcvVars, ucRTUBuf, sndVars, uif, queueVars, usartVars, ucByte,
                   stateRead, mainVars, halted>>

\* xMBRTUTransmitFSM: the next byte, or after the last one back to listening.
TransmitByte ==
    /\ IsrRuns /\ isr = "none" /\ txie = 1
    /\ IF eRcvState # "RX_IDLE" THEN Fail("mbrtu.c:290")
       ELSE /\ IF eSndState = "TX_XMIT" /\ usSndBufferCount # 0
               THEN /\ pucSndBufferCur' = pucSndBufferCur + 1
                    /\ usSndBufferCount' = usSndBufferCount - 1
                    /\ UNCHANGED <<eSndState, queueVars, rxie, txie>>
               ELSE /\ IF eSndState = "TX_XMIT" THEN xMBPortEventPost("EV_FRAME_SENT")
                                                ELSE UNCHANGED queueVars
                    /\ vMBPortSerialEnable(1, 0)
                    /\ eSndState' = "TX_IDLE"
                    /\ UNCHANGED <<pucSndBufferCur, usSndBufferCount>>
            /\ UNCHANGED <<rcvVars, ucRTUBuf, timerVars, rdr, isrVars, mainVars, halted>>

(* ------------------------------ eMBPoll --------------------------------------- *)

\* xMBPortEventGet: the event is read here ...
GetEvent ==
    /\ MainRuns /\ poll = "get" /\ xEventInQueue = 1
    /\ eEvent' = eQueuedEvent
    /\ poll' = "clear"
    /\ UNCHANGED <<rcvVars, ucRTUBuf, sndVars, timerVars, queueVars, usartVars,
                   isrVars, frameVars, halted>>

\* ... and the queue marked empty here, whatever was posted since.
ClearQueue ==
    /\ MainRuns /\ poll = "clear"
    /\ xEventInQueue' = 0
    /\ poll' = IF eEvent = "EV_FRAME_RECEIVED" THEN "receive"
               ELSE IF eEvent = "EV_EXECUTE" THEN "execute" ELSE "get"
    /\ UNCHANGED <<rcvVars, ucRTUBuf, sndVars, timerVars, eQueuedEvent, usartVars,
                   isrVars, eEvent, frameVars, halted>>

\* The length and CRC check of eMBRTUReceive.
FrameOk ==
    /\ usRcvBufferPos >= MB_SER_PDU_SIZE_MIN
    /\ CrcOk(Bytes(0, usRcvBufferPos))

\* Mutant: every frame is taken for one of ours.
ForAnyone(address) == TRUE

\* The address check of eMBPoll.
ForUs(address) == address \in {"us", "broadcast"}

\* eMBRTUReceive (a critical section), and what eMBPoll makes of its result.
Receive ==
    /\ MainRuns /\ poll = "receive"
    /\ IF usRcvBufferPos >= MB_SER_PDU_SIZE_MAX THEN Fail("mbrtu.c:157")
       ELSE /\ IF FrameOk
               THEN /\ ucRcvAddress' = AddressOf(ucRTUBuf[0])
                    /\ usLength' = usRcvBufferPos - 1 - MB_SER_PDU_SIZE_CRC
                    /\ poll' = IF ForUs(AddressOf(ucRTUBuf[0])) THEN "post" ELSE "get"
               ELSE poll' = "get" /\ UNCHANGED <<ucRcvAddress, usLength>>
            /\ UNCHANGED <<rcvVars, ucRTUBuf, sndVars, timerVars, queueVars, usartVars,
                           isrVars, eEvent, request, halted>>

\* Mutant: the break is missing, the switch goes on into case EV_EXECUTE.
FallThrough == "execute"

\* The break of case EV_FRAME_RECEIVED: the next eMBPoll gets the event.
AfterPost == "get"

PostExecute ==
    /\ MainRuns /\ poll = "post"
    /\ xMBPortEventPost("EV_EXECUTE")
    /\ poll' = AfterPost
    /\ UNCHANGED <<rcvVars, ucRTUBuf, sndVars, timerVars, usartVars, isrVars, eEvent,
                   frameVars, halted>>

\* The handler reads the request from the buffer, of a frame received earlier.
Execute ==
    /\ MainRuns /\ poll = "execute"
    /\ request' = Bytes(1, usLength)
    /\ poll' = "reply"
    /\ UNCHANGED <<rcvVars, ucRTUBuf, sndVars, timerVars, queueVars, usartVars,
                   isrVars, eEvent, ucRcvAddress, usLength, halted>>

\* Mutant: broadcasts are answered, too.
AnswersAlways(address) == TRUE

\* A reply goes out unless the request was a broadcast.
Answers(address) == address # "broadcast"

\* The handler, or the exception branch, builds the answer in the same buffer.
BuildReply ==
    /\ MainRuns /\ poll = "reply"
    /\ \E n \in ReplyLength :
         /\ n > 0 \/ ucRcvAddress = "broadcast"
         /\ ucRTUBuf' = [i \in DOMAIN ucRTUBuf |->
                           IF i \in 1..n THEN AnswerByte(request, i) ELSE ucRTUBuf[i]]
         /\ usLength' = n
    /\ poll' = IF Answers(ucRcvAddress) THEN "send" ELSE "get"
    /\ UNCHANGED <<rcvVars, sndVars, timerVars, queueVars, usartVars, isrVars, eEvent,
                   ucRcvAddress, request, halted>>

\* eMBRTUSend (a critical section): given up when the receiver is busy again.
Send ==
    /\ MainRuns /\ poll = "send"
    /\ poll' = "get"
    /\ IF eRcvState = "RX_IDLE"
       THEN LET framed == [ucRTUBuf EXCEPT ![0] = OwnAddress]
                crc    == Crc([i \in 1..(usLength + 1) |-> framed[i - 1]])
            IN  /\ ucRTUBuf' = [framed EXCEPT ![usLength + 1] = crc[1],
                                              ![usLength + 2] = crc[2]]
                /\ pucSndBufferCur' = 0
                /\ usSndBufferCount' = usLength + 1 + MB_SER_PDU_SIZE_CRC
                /\ eSndState' = "TX_XMIT"
                /\ vMBPortSerialEnable(0, 1)
       ELSE UNCHANGED <<ucRTUBuf, sndVars, rxie, txie>>
    /\ UNCHANGED <<rcvVars, timerVars, queueVars, rdr, isrVars, eEvent, frameVars,
                   halted>>

(* ------------------------------ the system ------------------------------------ *)

Hardware == Tim2Update \/ \E b \in Byte : UartReceive(b)
UsartIsr == ReceiveByte \/ StoreByte \/ RestartTimer \/ TransmitByte
eMBPoll  == \/ GetEvent \/ ClearQueue \/ Receive \/ PostExecute
            \/ Execute \/ BuildReply \/ Send

Next == Hardware \/ Tim2Isr \/ UsartIsr \/ eMBPoll

Spec == Init /\ [][Next]_vars

(* ------------------------------ properties ------------------------------------- *)

ReceiverOK ==
    /\ eRcvState \in eMBRcvState
    /\ usRcvBufferPos \in 0..MB_SER_PDU_SIZE_MAX
    /\ DOMAIN ucRTUBuf = 0..(MB_SER_PDU_SIZE_MAX - 1)

TransmitterOK ==
    /\ eSndState \in eMBSndState
    /\ pucSndBufferCur \in Nat /\ usSndBufferCount \in Nat
    /\ pucSndBufferCur + usSndBufferCount <= MB_SER_PDU_SIZE_MAX

TimerOK ==
    /\ downcounter \in 0..Timeout /\ uie \in {0, 1} /\ uif \in {0, 1}
    /\ uie = 1 => downcounter > 0

InterruptsOK ==
    /\ xEventInQueue \in {0, 1} /\ eQueuedEvent \in eMBEventType
    /\ rxie \in {0, 1} /\ txie \in {0, 1}
    /\ isr \in {"none", "store", "arm"} /\ stateRead \in eMBRcvState

PollOK ==
    /\ poll \in {"get", "clear", "receive", "post", "execute", "reply", "send"}
    /\ eEvent \in eMBEventType
    /\ ucRcvAddress \in {"us", "other", "broadcast"}
    /\ usLength \in 0..(MB_SER_PDU_SIZE_MAX - 3)

\* Every variable has its type; the positions in ucRTUBuf never pass its end, and
\* the running t3.5 counter is never decremented from 0.
TypeOK ==
    /\ ReceiverOK /\ TransmitterOK /\ TimerOK /\ InterruptsOK /\ PollOK
    /\ halted \in Asserts \cup {"no"}

\* The line is half duplex.  While the slave transmits, its receiver is off and
\* at rest, no receive interrupt is half done, and what is left to send lies in
\* the buffer; otherwise it listens.  So neither assert of mbrtu.c about the
\* other direction (lines 231 and 290) can fail, whatever the bus does.
HalfDuplex ==
    /\ txie = 1 <=> eSndState = "TX_XMIT"
    /\ rxie = 1 <=> eSndState = "TX_IDLE"
    /\ eSndState = "TX_XMIT" => eRcvState = "RX_IDLE" /\ isr = "none"
    /\ halted \notin {"mbrtu.c:231", "mbrtu.c:290"}
===============================================================================
