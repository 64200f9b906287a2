--------------------------- MODULE ModbusRTU_proofs ---------------------------
(* Theorems about ModbusRTU for every buffer size, timeout and set of frames,    *)
(* and for a bus that delivers any byte at any moment.  TypeOK is proved part by *)
(* part: each part is touched by a few steps only.                               *)
EXTENDS ModbusRTU, TLAPS

\* A byte in the address position reads as one of the three kinds of address.
LEMMA AddressType == ASSUME NEW b PROVE AddressOf(b) \in {"us", "other", "broadcast"}
BY FrameAssumption DEF AddressOf

\* What the proofs need of the sizes.
LEMMA Sizes == /\ MB_SER_PDU_SIZE_MAX \in Nat /\ MB_SER_PDU_SIZE_MAX >= 4
               /\ Timeout \in Nat /\ 0 < Timeout /\ Timeout < 65536
BY RTUAssumption DEF MB_SER_PDU_SIZE_MIN

\* After eMBRTUStart everything has its type and the slave listens.
LEMMA InitOK == Init => TypeOK /\ HalfDuplex
<1> SUFFICES ASSUME Init PROVE TypeOK /\ HalfDuplex
    OBVIOUS
<1>1. ReceiverOK /\ TransmitterOK
  <2>1. /\ eRcvState = "RX_INIT" /\ usRcvBufferPos = 0
        /\ DOMAIN ucRTUBuf = 0..(MB_SER_PDU_SIZE_MAX - 1)
        /\ eSndState = "TX_IDLE" /\ pucSndBufferCur = 0 /\ usSndBufferCount = 0
      BY DEF Init, StartState
  <2>2. QED BY <2>1, Sizes DEF ReceiverOK, TransmitterOK, eMBRcvState, eMBSndState
<1>2. TimerOK
  <2>1. downcounter = Timeout /\ uie = 1 /\ uif \in {0, 1}
      BY DEF Init
  <2>2. QED BY <2>1, Sizes DEF TimerOK
<1>3. InterruptsOK
    BY DEF Init, InterruptsOK, eMBEventType, eMBRcvState
<1>4. PollOK
  <2>1. poll = "get" /\ eEvent = "EV_READY" /\ ucRcvAddress = "other" /\ usLength = 0
      BY DEF Init
  <2>2. 0 \in 0..(MB_SER_PDU_SIZE_MAX - 3)
      BY Sizes
  <2>3. QED BY <2>1, <2>2 DEF PollOK, eMBEventType
<1>5. halted \in Asserts \cup {"no"}
    BY DEF Init
<1>6. HalfDuplex
    BY DEF Init, HalfDuplex, StartState
<1>7. QED BY <1>1, <1>2, <1>3, <1>4, <1>5, <1>6 DEF TypeOK

\* The receive position stays in the buffer: the guard of StoreByte keeps it there.
LEMMA ReceiverStep == TypeOK /\ [Next]_vars => ReceiverOK'
<1> SUFFICES ASSUME TypeOK, [Next]_vars PROVE ReceiverOK'
    OBVIOUS
<1> USE DEF ReceiverOK, rcvVars
<1>1. ReceiverOK
    BY DEF TypeOK
<1>2. CASE StoreByte
  <2>1. usRcvBufferPos' \in 0..MB_SER_PDU_SIZE_MAX
    <3>1. \/ usRcvBufferPos' \in {1, usRcvBufferPos}
          \/ usRcvBufferPos < MB_SER_PDU_SIZE_MAX /\ usRcvBufferPos' = usRcvBufferPos + 1
        BY <1>2 DEF StoreByte, RoomInBuffer
    <3>2. QED BY <1>1, <3>1, Sizes
  <2>2. DOMAIN ucRTUBuf' = DOMAIN ucRTUBuf
      BY <1>2 DEF StoreByte
  <2>3. eRcvState' \in eMBRcvState
      BY <1>1, <1>2 DEF StoreByte, eMBRcvState
  <2>4. QED BY <1>1, <2>1, <2>2, <2>3
<1>3. CASE Tim2Isr
    BY <1>1, <1>3 DEF Tim2Isr, T35Expired, Fail, eMBRcvState
<1>4. CASE BuildReply
    BY <1>1, <1>4 DEF BuildReply
<1>5. CASE Send
  <2>1. DOMAIN ucRTUBuf' = DOMAIN ucRTUBuf
      BY <1>5 DEF Send
  <2>2. QED BY <1>1, <1>5, <2>1 DEF Send
<1>6. CASE Hardware \/ ReceiveByte \/ RestartTimer \/ TransmitByte
    BY <1>1, <1>6 DEF Hardware, Tim2Update, UartReceive, ReceiveByte, RestartTimer,
                      TransmitByte, Fail
<1>7. CASE GetEvent \/ ClearQueue \/ Receive \/ PostExecute \/ Execute
    BY <1>1, <1>7 DEF GetEvent, ClearQueue, Receive, PostExecute, Execute, Fail
<1>8. CASE UNCHANGED vars
    BY <1>1, <1>8 DEF vars
<1>9. QED BY <1>2, <1>3, <1>4, <1>5, <1>6, <1>7, <1>8 DEF Next, UsartIsr, eMBPoll

\* A reply fits: Send starts with at most MB_SER_PDU_SIZE_MAX bytes to go, and each
\* byte sent moves one from what is left to what is behind.
LEMMA TransmitterStep == TypeOK /\ [Next]_vars => TransmitterOK'
<1> SUFFICES ASSUME TypeOK, [Next]_vars PROVE TransmitterOK'
    OBVIOUS
<1> USE DEF TransmitterOK, sndVars
<1>1. TransmitterOK
    BY DEF TypeOK
<1>2. CASE Send
  <2>1. usLength \in 0..(MB_SER_PDU_SIZE_MAX - 3)
      BY DEF TypeOK, PollOK
  <2>2. CASE eRcvState = "RX_IDLE"
    <3>1. /\ pucSndBufferCur' = 0 /\ usSndBufferCount' = usLength + 3
          /\ eSndState' = "TX_XMIT"
        BY <1>2, <2>1, <2>2 DEF Send, MB_SER_PDU_SIZE_CRC
    <3>2. QED BY <2>1, <3>1, Sizes DEF eMBSndState
  <2>3. CASE eRcvState # "RX_IDLE"
      BY <1>1, <1>2, <2>3 DEF Send
  <2>4. QED BY <2>2, <2>3
<1>3. CASE TransmitByte
    BY <1>1, <1>3, Sizes, SMTT(20) DEF TransmitByte, Fail, eMBSndState
<1>4. CASE Hardware \/ Tim2Isr \/ ReceiveByte \/ StoreByte \/ RestartTimer
    BY <1>1, <1>4 DEF Hardware, Tim2Update, UartReceive, Tim2Isr, T35Expired,
                      ReceiveByte, StoreByte, RestartTimer, Fail
<1>5. CASE GetEvent \/ ClearQueue \/ Receive \/ PostExecute \/ Execute \/ BuildReply
    BY <1>1, <1>5 DEF GetEvent, ClearQueue, Receive, PostExecute, Execute, BuildReply,
                      Fail
<1>6. CASE UNCHANGED vars
    BY <1>1, <1>6 DEF vars
<1>7. QED BY <1>2, <1>3, <1>4, <1>5, <1>6 DEF Next, UsartIsr, eMBPoll

\* The running counter is positive: it is reloaded when the timer is enabled, and
\* the timer is disabled when it reaches 0.
LEMMA TimerStep == TypeOK /\ [Next]_vars => TimerOK'
<1> SUFFICES ASSUME TypeOK, [Next]_vars PROVE TimerOK'
    OBVIOUS
<1> USE DEF TimerOK, timerVars
<1>1. TimerOK
    BY DEF TypeOK
<1>2. CASE Tim2Isr
  <2>1. downcounter \in 1..Timeout /\ Timeout \in Nat /\ Timeout < 65536 /\ uie = 1
    <3>1. uie = 1
        BY <1>2 DEF Tim2Isr, Tim2Pending
    <3>2. QED BY <1>1, <3>1, Sizes
  <2>2. (downcounter - 1) % 65536 = downcounter - 1
    <3>1. downcounter - 1 \in Int /\ 0 <= downcounter - 1 /\ downcounter - 1 < 65536
        BY <2>1
    <3>2. \A n \in Int : 0 <= n /\ n < 65536 => n % 65536 = n
        OBVIOUS
    <3>3. QED BY <3>1, <3>2
  <2>3. CASE downcounter - 1 = 0
    <3>1. T35Expired
        BY <1>2, <2>1, <2>2, <2>3 DEF Tim2Isr
    <3>2. \/ uie' = 0 /\ uif' = 0 /\ downcounter' = 0
          \/ UNCHANGED timerVars
        BY <3>1 DEF T35Expired, Fail
    <3>3. QED BY <1>1, <2>1, <3>2
  <2>4. CASE downcounter - 1 # 0
    <3>1. uif' = 0 /\ downcounter' = downcounter - 1 /\ uie' = uie
        BY <1>2, <2>1, <2>2, <2>4 DEF Tim2Isr
    <3>2. QED BY <2>1, <2>4, <3>1
  <2>5. QED BY <2>3, <2>4
<1>3. CASE RestartTimer
    BY <1>1, <1>3, Sizes DEF RestartTimer, vMBPortTimersEnable
<1>4. CASE Hardware
    BY <1>1, <1>4 DEF Hardware, Tim2Update, UartReceive
<1>5. CASE ReceiveByte \/ StoreByte \/ TransmitByte
    BY <1>1, <1>5 DEF ReceiveByte, StoreByte, TransmitByte, Fail
<1>6. CASE eMBPoll
    BY <1>1, <1>6 DEF eMBPoll, GetEvent, ClearQueue, Receive, PostExecute, Execute,
                      BuildReply, Send, Fail
<1>7. CASE UNCHANGED vars
    BY <1>1, <1>7 DEF vars
<1>8. QED BY <1>2, <1>3, <1>4, <1>5, <1>6, <1>7 DEF Next, UsartIsr

\* The event queue, the USART enables and the interrupt's own state.
LEMMA InterruptsStep == TypeOK /\ [Next]_vars => InterruptsOK'
<1> SUFFICES ASSUME TypeOK, [Next]_vars PROVE InterruptsOK'
    OBVIOUS
<1> USE DEF InterruptsOK, queueVars, usartVars, isrVars
<1>1. InterruptsOK /\ eRcvState \in eMBRcvState
    BY DEF TypeOK, ReceiverOK
<1>2. CASE Hardware
    BY <1>1, <1>2 DEF Hardware, Tim2Update, UartReceive
<1>3. CASE Tim2Isr
    BY <1>1, <1>3 DEF Tim2Isr, T35Expired, Fail, xMBPortEventPost, eMBEventType
<1>4. CASE ReceiveByte \/ StoreByte \/ RestartTimer
    BY <1>1, <1>4 DEF ReceiveByte, StoreByte, RestartTimer, Fail
<1>5. CASE TransmitByte
    BY <1>1, <1>5 DEF TransmitByte, Fail, xMBPortEventPost, vMBPortSerialEnable,
                      eMBEventType
<1>6. CASE GetEvent \/ ClearQueue \/ Receive \/ Execute \/ BuildReply
    BY <1>1, <1>6 DEF GetEvent, ClearQueue, Receive, Execute,
                      BuildReply, Fail
<1>7. CASE PostExecute \/ Send
    BY <1>1, <1>7 DEF PostExecute, xMBPortEventPost, Send, vMBPortSerialEnable,
                      eMBEventType
<1>8. CASE UNCHANGED vars
    BY <1>1, <1>8 DEF vars
<1>9. QED BY <1>2, <1>3, <1>4, <1>5, <1>6, <1>7, <1>8 DEF Next, UsartIsr, eMBPoll

\* The length of the PDU handed to a handler, and of the one it leaves, fits.
LEMMA PollStep == TypeOK /\ [Next]_vars => PollOK'
<1> SUFFICES ASSUME TypeOK, [Next]_vars PROVE PollOK'
    OBVIOUS
<1> USE DEF PollOK, mainVars, frameVars
<1>1. PollOK /\ eQueuedEvent \in eMBEventType
    BY DEF TypeOK, InterruptsOK
<1>2. CASE Receive
  <2>1. usRcvBufferPos \in 0..MB_SER_PDU_SIZE_MAX
      BY DEF TypeOK, ReceiverOK
  <2>2. usLength' \in 0..(MB_SER_PDU_SIZE_MAX - 3)
      BY <1>1, <1>2, <2>1, RTUAssumption, SMTT(20)
      DEF Receive, Fail, FrameOk, MB_SER_PDU_SIZE_MIN, MB_SER_PDU_SIZE_CRC
  <2>3. ucRcvAddress' \in {"us", "other", "broadcast"}
      BY <1>1, <1>2, AddressType DEF Receive, Fail
  <2>4. QED BY <1>1, <1>2, <2>2, <2>3 DEF Receive, Fail
<1>3. CASE BuildReply
  <2>1. ReplyLength \subseteq 0..(MB_SER_PDU_SIZE_MAX - 3)
      BY RTUAssumption
  <2>2. usLength' \in ReplyLength /\ poll' \in {"send", "get"}
      BY <1>3 DEF BuildReply
  <2>3. UNCHANGED <<eEvent, ucRcvAddress>>
      BY <1>3 DEF BuildReply
  <2>4. QED BY <1>1, <2>1, <2>2, <2>3
<1>4. CASE GetEvent \/ ClearQueue \/ PostExecute \/ Execute \/ Send
    BY <1>1, <1>4 DEF GetEvent, ClearQueue, PostExecute, AfterPost, Execute, Send
<1>5. CASE Hardware \/ Tim2Isr
    BY <1>1, <1>5 DEF Hardware, Tim2Update, UartReceive, Tim2Isr, T35Expired, Fail
<1>6. CASE UsartIsr
    BY <1>1, <1>6 DEF UsartIsr, ReceiveByte, StoreByte, RestartTimer, TransmitByte, Fail
<1>7. CASE UNCHANGED vars
    BY <1>1, <1>7 DEF vars
<1>8. QED BY <1>2, <1>3, <1>4, <1>5, <1>6, <1>7 DEF Next, eMBPoll

\* Only the four asserts of mbrtu.c stop the program.
LEMMA HaltedStep == TypeOK /\ [Next]_vars => halted' \in Asserts \cup {"no"}
<1> SUFFICES ASSUME TypeOK, [Next]_vars PROVE halted' \in Asserts \cup {"no"}
    OBVIOUS
<1>1. halted \in Asserts \cup {"no"}
    BY DEF TypeOK
<1>2. CASE Hardware \/ Tim2Isr
    BY <1>1, <1>2 DEF Hardware, Tim2Update, UartReceive, Tim2Isr, T35Expired, Fail, Asserts
<1>3. CASE UsartIsr
    BY <1>1, <1>3 DEF UsartIsr, ReceiveByte, StoreByte, RestartTimer, TransmitByte,
                      Fail, Asserts
<1>4. CASE eMBPoll
    BY <1>1, <1>4 DEF eMBPoll, GetEvent, ClearQueue, Receive, PostExecute, Execute,
                      BuildReply, Send, Fail, Asserts
<1>5. CASE UNCHANGED vars
    BY <1>1, <1>5 DEF vars
<1>6. QED BY <1>2, <1>3, <1>4, <1>5 DEF Next

\* One step keeps the directions of the line apart.
LEMMA HalfDuplexStep == TypeOK /\ HalfDuplex /\ [Next]_vars => HalfDuplex'
<1> SUFFICES ASSUME TypeOK, HalfDuplex, [Next]_vars PROVE HalfDuplex'
    OBVIOUS
<1> USE DEF HalfDuplex, rcvVars, sndVars, usartVars, isrVars
<1>1. eSndState \in {"TX_IDLE", "TX_XMIT"} /\ rxie \in {0, 1} /\ txie \in {0, 1}
    BY DEF TypeOK, TransmitterOK, InterruptsOK, eMBSndState
<1>2. CASE Hardware
    BY <1>2 DEF Hardware, UartReceive, Tim2Update
<1>3. CASE Tim2Isr
    BY <1>3 DEF Tim2Isr, T35Expired, Fail
<1>4. CASE ReceiveByte \/ StoreByte \/ RestartTimer
    BY <1>1, <1>4 DEF ReceiveByte, StoreByte, RestartTimer, Fail
<1>5. CASE TransmitByte
    BY <1>1, <1>5 DEF TransmitByte, Fail, vMBPortSerialEnable
<1>6. CASE Send
    BY <1>1, <1>6 DEF Send, MainRuns, vMBPortSerialEnable
<1>7. CASE GetEvent \/ ClearQueue \/ Receive \/ PostExecute \/ Execute \/ BuildReply
    BY <1>7 DEF GetEvent, ClearQueue, Receive, PostExecute, Execute, BuildReply, Fail
<1>8. CASE UNCHANGED vars
    BY <1>8 DEF vars
<1>9. QED BY <1>2, <1>3, <1>4, <1>5, <1>6, <1>7, <1>8 DEF Next, UsartIsr, eMBPoll

\* Every variable keeps its type: no position passes the end of ucRTUBuf, and the
\* t3.5 counter is never decremented from 0, whatever bytes come and whenever.
THEOREM TypeCorrect == Spec => []TypeOK
<1>1. Init => TypeOK
    BY InitOK
<1>2. TypeOK /\ [Next]_vars => TypeOK'
    BY ReceiverStep, TransmitterStep, TimerStep, InterruptsStep, PollStep, HaltedStep
    DEF TypeOK
<1>3. QED BY <1>1, <1>2, PTL DEF Spec

\* The slave never receives while it transmits, and the asserts of
\* xMBRTUReceiveFSM and xMBRTUTransmitFSM about the other direction never fail,
\* whatever the bus does.
THEOREM HalfDuplexCorrect == Spec => []HalfDuplex
<1>1. Init => HalfDuplex
    BY InitOK
<1>2. TypeOK /\ HalfDuplex /\ [Next]_vars => HalfDuplex'
    BY HalfDuplexStep
<1>3. QED BY <1>1, <1>2, TypeCorrect, PTL DEF Spec
===============================================================================
