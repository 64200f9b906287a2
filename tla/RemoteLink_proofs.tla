-------------------------- MODULE RemoteLink_proofs --------------------------
(* The line under a master that keeps the rules (Timely): where the frame on the line, *)
(* the bytes in the buffer, t3.5, the event and the request being worked on stand to   *)
(* each other (LinkInv), through changes of the rate and erasures of a page.           *)
EXTENDS RemoteIO_proofs, SequenceTheorems, FiniteSetTheorems

(* ------------------------------ bytes ------------------------------------------- *)

\* The bytes of a frame before its CRC.
Data(f) == [i \in 1..(FrameLength[f] - 2) |-> [frame |-> f, at |-> i]]

\* A frame that keeps the rules has at least four bytes and leaves room in the buffer.
LEMMA Lengths ==
    ASSUME Timely, NEW f \in Frame
    PROVE  /\ FrameLength[f] \in Nat /\ FrameLength[f] >= 4
           /\ FrameLength[f] < MB_SER_PDU_SIZE_MAX
           /\ f \in Nat /\ f # 0
<1>1. MB_SER_PDU_SIZE_MAX \in Nat
    BY Sizes
<1>2. FrameLength[f] \in 4..(MB_SER_PDU_SIZE_MAX - 1)
    BY Zenon DEF Timely, MB_SER_PDU_SIZE_MIN
<1>3. f \in Nat \ {0}
    BY FrameAssumption, Zenon
<1>4. QED BY <1>1, <1>2, <1>3

\* Two bytes of CRC stand for nothing but what they are the CRC of.
LEMMA CrcBytes ==
    ASSUME NEW s, NEW t
    PROVE  /\ Crc(s) \in Seq({Crc(s)[1], Crc(s)[2]}) /\ Len(Crc(s)) = 2
           /\ Crc(s)[1] # Crc(t)[2]
           /\ Crc(s)[1] = Crc(t)[1] => s = t
           /\ Crc(s)[2] = Crc(t)[2] => s = t
<1>1. Crc(s) \in Seq({Crc(s)[1], Crc(s)[2]}) /\ Len(Crc(s)) = 2
    BY DEF Crc
<1>2. Crc(s)[1].crc = s /\ Crc(s)[2].crc = s /\ Crc(s)[1].at = 1 
    BY DEF Crc
<1>3. Crc(t)[1].crc = t /\ Crc(t)[2].crc = t /\ Crc(t)[2].at = 2
    BY DEF Crc
<1>4. QED BY <1>1, <1>2, <1>3

\* No byte of data, and no zero of the buffer, reads as a byte of CRC.
LEMMA CrcIsNoData ==
    ASSUME NEW s, NEW f, NEW i
    PROVE  [frame |-> f, at |-> i] \notin {Crc(s)[1], Crc(s)[2]}
<1>1. "frame" \in DOMAIN [frame |-> f, at |-> i]
    BY Zenon
<1>2. DOMAIN Crc(s)[1] = {"crc", "at"} /\ DOMAIN Crc(s)[2] = {"crc", "at"}
    BY DEF Crc
<1>3. "frame" \notin {"crc", "at"}
    OBVIOUS
<1>4. QED BY <1>1, <1>2, <1>3

\* The bytes of a frame, one by one.
LEMMA FrameByte ==
    ASSUME Timely, NEW f \in Frame
    PROVE  LET n == FrameLength[f] IN
           /\ Len(FrameBytes(f)) = n /\ DOMAIN FrameBytes(f) = 1..n
           /\ \A i \in 1..(n - 2) : FrameBytes(f)[i] = [frame |-> f, at |-> i]
           /\ FrameBytes(f)[n - 1] = Crc(Data(f))[1]
           /\ FrameBytes(f)[n] = Crc(Data(f))[2]
<1> DEFINE n == FrameLength[f]
<1>1. n \in Nat /\ n >= 4
    BY Lengths
<1> DEFINE d == Data(f)
           c == Crc(d)
           S == {d[i] : i \in 1..(n - 2)} \cup {c[1], c[2]}
<1>2. \A i \in 1..(n - 2) : d[i] = [frame |-> f, at |-> i]
    BY DEF Data
<1>3. d = [i \in 1..(n - 2) |-> d[i]]
    BY DEF Data
<1>4. FrameBytes(f) = d \o c
    BY DEF FrameBytes, Data, MB_SER_PDU_SIZE_CRC
<1>5. c \in Seq({c[1], c[2]}) /\ Len(c) = 2
    BY CrcBytes
<1> HIDE DEF d, c, n
<1>6. \A i \in 1..(n - 2) : d[i] \in S
    OBVIOUS
<1>7. d \in Seq(S) /\ Len(d) = n - 2
  <2> HIDE DEF S
  <2>1. n - 2 \in Nat
      BY <1>1
  <2>2. QED BY <1>3, <1>6, <2>1
<1>8. c \in Seq(S)
    BY <1>5, SeqMonotonic
<1>9. /\ d \o c \in Seq(S) /\ Len(d \o c) = n
      /\ \A i \in 1..n : (d \o c)[i] = IF i <= n - 2 THEN d[i] ELSE c[i - (n - 2)]
  <2> HIDE DEF S
  <2>1. Len(d) + Len(c) = n
      BY <1>1, <1>5, <1>7
  <2>2. QED BY <1>7, <1>8, <2>1, <1>7, ConcatProperties
<1>10. DOMAIN FrameBytes(f) = 1..n
    BY <1>4, <1>9, LenProperties
<1>11. \A i \in 1..(n - 2) : FrameBytes(f)[i] = [frame |-> f, at |-> i]
    BY <1>1, <1>2, <1>4, <1>9
<1>12. FrameBytes(f)[n - 1] = c[1] /\ FrameBytes(f)[n] = c[2]
  <2>1. n - 1 \in 1..n /\ n \in 1..n /\ (n - 1) - (n - 2) = 1 /\ n - (n - 2) = 2
        /\ ~(n - 1 <= n - 2) /\ ~(n <= n - 2)
      BY <1>1
  <2>2. QED BY <1>4, <1>9, <2>1
<1>13. QED BY <1>4, <1>9, <1>10, <1>11, <1>12 DEF d, c, n

\* The PDU of a frame is what stands between its address and its CRC.
LEMMA PduByte ==
    ASSUME Timely, NEW f \in Frame
    PROVE  FramePdu(f) = [i \in 1..(FrameLength[f] - 3) |-> FrameBytes(f)[i + 1]]
<1>1. FramePdu(f) = SubSeq(FrameBytes(f), 2, FrameLength[f] - 2)
    BY DEF FramePdu, Pdus, MB_SER_PDU_SIZE_CRC
<1>2. FrameLength[f] \in Nat /\ FrameLength[f] >= 4
    BY Lengths
<1>3. QED BY <1>1, <1>2

\* No two frames have the same PDU.
LEMMA PduTellsFrame ==
    ASSUME Timely, NEW f \in Frame, NEW g \in Frame, FramePdu(f) = FramePdu(g)
    PROVE  f = g
<1>1. \A h \in Frame : FramePdu(h)[1] = [frame |-> h, at |-> 2]
  <2> SUFFICES ASSUME NEW h \in Frame PROVE FramePdu(h)[1] = [frame |-> h, at |-> 2]
      OBVIOUS
  <2>1. 1 \in 1..(FrameLength[h] - 3) /\ 2 \in 1..(FrameLength[h] - 2)
      BY Lengths
  <2>2. FramePdu(h)[1] = FrameBytes(h)[2]
    <3>1. FramePdu(h) = [i \in 1..(FrameLength[h] - 3) |-> FrameBytes(h)[i + 1]]
        BY PduByte
    <3> HIDE DEF FramePdu, FrameBytes
    <3>2. QED BY <2>1, <3>1, 1 + 1 = 2
  <2>3. QED BY <2>1, <2>2, FrameByte
<1>2. [frame |-> f, at |-> 2] = [frame |-> g, at |-> 2]
    BY <1>1
<1>3. QED BY <1>2

\* What eMBRTUReceive accepts of a frame received in part, or with some of its bytes
\* replaced by noise, is the whole frame, undisturbed.
LEMMA WholeFrame ==
    ASSUME Timely, NEW f \in Frame, NEW n \in 4..FrameLength[f], NEW s, Len(s) = n,
           \A i \in 1..n : s[i] \in {ZeroByte, FrameBytes(f)[i]},
           CrcOk(s)
    PROVE  n = FrameLength[f] /\ \A i \in 1..n : s[i] = FrameBytes(f)[i]
<1> DEFINE p == SubSeq(s, 1, n - 2)
           l == FrameLength[f]
<1>1. l \in Nat /\ l >= 4 /\ n \in Nat /\ n >= 4 /\ n <= l
    BY Lengths
<1>2. SubSeq(s, n - 1, n) = Crc(p)
  <2>1. Len(s) - MB_SER_PDU_SIZE_CRC = n - 2 /\ (n - 2) + 1 = n - 1
      BY <1>1 DEF MB_SER_PDU_SIZE_CRC
  <2>2. QED BY <2>1 DEF CrcOk
<1>3. s[n - 1] = Crc(p)[1] /\ s[n] = Crc(p)[2]
  <2>1. SubSeq(s, n - 1, n)[1] = s[n - 1] /\ SubSeq(s, n - 1, n)[2] = s[n]
      BY <1>1
  <2>2. QED BY <1>2, <2>1
<1>4. \A i \in 1..(n - 2) : p[i] = s[i]
    BY <1>1
<1> HIDE DEF p
<1>5. ZeroByte \notin {Crc(p)[1], Crc(p)[2]}
    BY CrcIsNoData DEF ZeroByte
<1>6. FrameBytes(f)[n - 1] = Crc(p)[1] /\ FrameBytes(f)[n] = Crc(p)[2]
  <2>1. n - 1 \in 1..n /\ n \in 1..n
      BY <1>1
  <2>2. QED BY <1>3, <1>5, <2>1
<1>7. n = l
  <2>1. CASE n - 1 <= l - 2
    <3>1. n - 1 \in 1..(l - 2)
        BY <1>1, <2>1
    <3>2. FrameBytes(f)[n - 1] = [frame |-> f, at |-> n - 1]
        BY <3>1, FrameByte
    <3>3. QED BY <1>6, <3>2, CrcIsNoData
  <2>2. CASE ~(n - 1 <= l - 2)
      BY <1>1, <2>2
  <2>3. QED BY <2>1, <2>2
<1>8. p = Data(f)
  <2>1. FrameBytes(f)[n] = Crc(Data(f))[2]
      BY <1>7, FrameByte
  <2>2. QED BY <1>6, <2>1, CrcBytes
<1>9. \A i \in 1..n : s[i] = FrameBytes(f)[i]
  <2> SUFFICES ASSUME NEW i \in 1..n PROVE s[i] = FrameBytes(f)[i]
      OBVIOUS
  <2>1. CASE i \in 1..(n - 2)
    <3>1. s[i] = [frame |-> f, at |-> i]
        BY <1>4, <1>7, <1>8, <2>1 DEF Data
    <3>2. QED BY <1>7, <2>1, <3>1, FrameByte
  <2>2. CASE i = n - 1 \/ i = n
      BY <1>3, <1>6, <2>2
  <2>3. QED BY <1>1, <2>1, <2>2
<1>10. QED BY <1>7, <1>9

(* ------------------------------ the invariant ------------------------------------- *)

\* A received byte has not been stored and the timer started again.
HasByte == isr # "none" \/ rdr # <<>>

\* A frame is being received: t3.5 has not passed since its last byte.
Receiving == eRcvState = "RX_RCV" \/ HasByte

\* eMBPoll has an event or is at work on one.
EventPending == xEventInQueue = 1 \/ poll # "get"

\* The slave does one thing at a time: it waits for silence, receives a frame, works on
\* an event, transmits, or runs its modules; no assert has failed.
OneJob ==
    /\ halted = "no"
    /\ poll = "clear" => xEventInQueue = 1 /\ eEvent = eQueuedEvent
    /\ poll \notin {"get", "clear"} => xEventInQueue = 0
    /\ Receiving => ~EventPending /\ txie = 0 /\ ~due /\ main = "poll"
    /\ eRcvState = "RX_INIT" => ~EventPending /\ txie = 0 /\ ~Receiving
    /\ txie = 1 => ~EventPending /\ ~Receiving
    /\ main # "poll" \/ due => poll = "get"

\* The receiver never has a frame too long, and t3.5 runs exactly while it is not idle,
\* but between the first byte and the start of the timer.
Receiver ==
    /\ eRcvState # "RX_ERROR"
    /\ uie = 1 => eRcvState # "RX_IDLE"
    /\ eRcvState = "RX_INIT" => uie = 1
    /\ eRcvState = "RX_RCV" => uie = 1 \/ isr = "arm"
    /\ isr = "store" => stateRead = eRcvState
    /\ isr = "arm" => eRcvState = "RX_RCV"
    /\ rdr # <<>> => isr = "none"

\* The timer does not run out while a byte is waiting, nor before the next one is
\* overdue; a master whose next byte is overdue does not go on.
Timing ==
    /\ lag \in 0..MaxLag /\ quiet \in 0..MinSilence
    /\ ~HasByte => lag = 0
    /\ uie = 1 /\ HasByte => downcounter + lag > MaxLag + uif
    /\ eRcvState = "RX_RCV" /\ ~HasByte /\ quiet < MinSilence =>
         downcounter + quiet + 1 >= Timeout + uif
    /\ current # 0 /\ ~Receiving => quiet >= CharTicks[MasterRate] + MaxGap

\* The master has begun what it has delivered, and is sending the frame begun last.
Line ==
    /\ begun \subseteq Frame /\ delivered \subseteq begun /\ last \in begun \cup {0}
    /\ current # 0 => current = last /\ last \notin delivered

\* A frame is being received, or is in the buffer and not yet looked at.
FrameEvent ==
    \/ xEventInQueue = 1 /\ eQueuedEvent = "EV_FRAME_RECEIVED"
    \/ poll = "receive"
HasFrame == Receiving \/ FrameEvent

\* The bytes of it in the buffer, and those received.
Stored  == IF HasByte /\ eRcvState # "RX_RCV" THEN 0 ELSE usRcvBufferPos
Arrived == IF rdr # <<>> \/ isr = "store" THEN Stored + 1 ELSE Stored

\* Byte i of the frame, or what a USART at another rate makes of it.
Genuine(b, i) == b \in {ZeroByte, FrameBytes(last)[i]}

\* What is received is the frame begun last, each byte in its place; it is complete
\* exactly when the master has sent it to the end, and has not been executed.
InFrame ==
    HasFrame =>
      /\ last \in Frame /\ ~IsExecuted(last)
      /\ Arrived \in 1..FrameLength[last]
      /\ Arrived = FrameLength[last] <=> last \in delivered
      /\ current # 0 => at = Arrived
      /\ \A i \in 0..(Stored - 1) : Genuine(ucRTUBuf[i], i + 1)
      /\ rdr # <<>> => Genuine(rdr[1], Arrived)
      /\ isr = "store" => Genuine(ucByte, Arrived)

\* A frame has been accepted and not yet executed.
ToExecute ==
    \/ xEventInQueue = 1 /\ eQueuedEvent = "EV_EXECUTE"
    \/ poll \in {"post", "execute"}

\* A request has been executed and is being answered.
ToAnswer == poll \in {"reply", "send"} \/ txie = 1

\* What will be executed is the whole frame begun last, for the first time, and the line
\* is quiet until the answer is out.
Ready ==
    /\ ToExecute =>
         /\ last \in delivered /\ ~IsExecuted(last)
         /\ ucRcvAddress = FrameAddress[last] /\ ucRcvAddress # "other"
         /\ usLength = FrameLength[last] - 3
         /\ \A i \in 1..usLength : ucRTUBuf[i] = FrameBytes(last)[i + 1]
    /\ ToAnswer => last \in delivered

\* Requests executed are PDUs of frames.
Executions ==
    /\ executed \in Seq([pdu : {FramePdu(f) : f \in Frame}, to : {"us", "broadcast"}])
    /\ ExecutesOnlyOurFrames

JobInv  == OneJob /\ Receiver /\ Timing /\ Line /\ InFrame /\ Ready /\ Executions
LinkInv == TypeOK /\ HalfDuplex /\ JobInv

\* Where the receiver is fits the buffer.
LEMMA BufferSizes ==
    ASSUME LinkInv
    PROVE  /\ MB_SER_PDU_SIZE_MAX \in Nat
           /\ usRcvBufferPos \in Nat /\ usRcvBufferPos <= MB_SER_PDU_SIZE_MAX
           /\ DOMAIN ucRTUBuf = 0..(MB_SER_PDU_SIZE_MAX - 1)
<1>1. MB_SER_PDU_SIZE_MAX \in Nat
    BY Sizes
<1>2. usRcvBufferPos \in 0..MB_SER_PDU_SIZE_MAX /\ DOMAIN ucRTUBuf = 0..(MB_SER_PDU_SIZE_MAX - 1)
    BY Zenon DEF LinkInv, TypeOK, ReceiverOK
<1>3. QED BY <1>1, <1>2

\* The parts of JobInv that speak of bytes, when a step leaves all of them alone.
LEMMA BytesKept ==
    ASSUME InFrame, Ready, Executions,
           UNCHANGED <<rcvVars, ucRTUBuf, isrVars, rdr, queueVars, poll, ucRcvAddress,
                       usLength, txie, current, at, delivered, last, executed>>
    PROVE  InFrame' /\ Ready' /\ Executions'
<1> USE DEF rcvVars, isrVars, queueVars
<1>1. /\ HasByte' = HasByte /\ Receiving' = Receiving /\ HasFrame' = HasFrame
      /\ Stored' = Stored /\ Arrived' = Arrived
    BY Zenon DEF HasByte, Receiving, HasFrame, FrameEvent, Stored, Arrived
<1>2. InFrame'
    BY <1>1, Zenon DEF InFrame, Genuine, IsExecuted
<1>3. Ready'
    BY Zenon DEF Ready, ToExecute, ToAnswer, IsExecuted
<1>4. Executions'
    BY Zenon DEF Executions, ExecutesOnlyOurFrames
<1>5. QED BY <1>2, <1>3, <1>4

(* ------------------------------ the master ----------------------------------------- *)

\* The rates the master uses.
LEMMA Rates ==
    ASSUME Timely
    PROVE  /\ MasterRate \in {Default, NewRate}
           /\ \A r \in {Default, NewRate} :
                /\ CharTicks[r] \in Nat /\ CharTicks[r] >= 1
                /\ CharTicks[r] + MaxGap + MaxLag < Timeout
                /\ CharTicks[r] + MaxGap <= MinSilence
           /\ MaxGap \in Nat /\ MaxLag \in Nat /\ MinSilence \in Nat
           /\ Timeout \in Nat
<1>1. MasterRate \in {Default, NewRate}
    BY Zenon DEF MasterRate
<1>2. Timeout \in Nat
    BY Sizes
<1>3. \A r \in {Default, NewRate} : CharTicks[r] \in Nat \ {0}
    BY RemoteAssumption, Zenon
<1>4. /\ MaxGap \in Nat /\ MaxLag \in Nat /\ MinSilence \in Nat
      /\ \A r \in {Default, NewRate} :
           /\ CharTicks[r] + MaxGap + MaxLag < Timeout
           /\ CharTicks[r] + MaxGap <= MinSilence
    BY Zenon DEF Timely
<1>5. QED BY <1>1, <1>2, <1>3, <1>4

\* A frame begins when the slave has nothing to do.
LEMMA BeginStep ==
    ASSUME Timely, LinkInv, NEW f \in Frame, NEW clear, BeginFrame(f, clear),
           ~due, main = "poll", UNCHANGED <<settingVars, due>>
    PROVE  JobInv'
<1> USE DEF LinkInv, JobInv
<1>1. SlaveIdle /\ current = 0 /\ f \notin begun /\ begun' = begun \cup {f} /\ last' = f
      /\ PutByte(f, 1, clear)
    BY DEF BeginFrame, Waits, Timely
<1>2. FrameLength[f] \in Nat /\ FrameLength[f] >= 4 /\ f # 0
    BY Lengths
<1>3. poll = "get" /\ xEventInQueue = 0 /\ uie = 0 /\ isr = "none" /\ rdr = <<>> /\ txie = 0
    BY <1>1 DEF SlaveIdle
<1>4. eRcvState = "RX_IDLE" /\ halted = "no"
    BY <1>3 DEF OneJob, Receiver, TypeOK, ReceiverOK, eMBRcvState
<1>5. /\ rdr' = <<IF clear THEN FrameBytes(f)[1] ELSE ZeroByte>>
      /\ UNCHANGED <<rcvVars, ucRTUBuf, sndVars, timerVars, queueVars, rxie, txie,
                     isrVars, mainVars, halted, lag, history>>
      /\ quiet' = 0
      /\ current' = f /\ at' = 1 /\ delivered' = delivered
    BY <1>1, <1>2, <1>3 DEF PutByte, UartReceive
<1>6. main' = "poll" /\ ~due'
    BY DEF settingVars
<1>7. HasByte' /\ Receiving'
    BY <1>5 DEF HasByte, Receiving
<1>8. OneJob'
    BY <1>3, <1>4, <1>5, <1>6, <1>7 DEF OneJob, EventPending, rcvVars, queueVars, mainVars
<1>9. Receiver'
    BY <1>3, <1>4, <1>5 DEF Receiver, rcvVars, timerVars, isrVars
<1>10. Timing'
  <2>1. lag' \in 0..MaxLag /\ quiet' \in 0..MinSilence
      BY <1>5, Rates DEF Timing
  <2>2. uie' = 0 /\ eRcvState' = "RX_IDLE"
      BY <1>3, <1>4, <1>5 DEF timerVars, rcvVars
  <2>3. QED BY <1>7, <2>1, <2>2 DEF Timing
<1>11. Line'
    BY <1>1, <1>5 DEF Line
<1>12. ~IsExecuted(f)
  <2> SUFFICES ASSUME NEW k \in DOMAIN executed, executed[k].pdu = FramePdu(f) PROVE FALSE
      BY DEF IsExecuted
  <2>1. PICK g \in delivered : executed[k].pdu = FramePdu(g)
      BY DEF Executions, ExecutesOnlyOurFrames
  <2>2. g \in begun /\ g \in Frame
      BY DEF Line
  <2>3. QED BY <1>1, <2>1, <2>2, PduTellsFrame
<1>13. InFrame'
  <2>1. Stored' = 0 /\ Arrived' = 1
      BY <1>4, <1>5, <1>7 DEF Stored, Arrived, rcvVars
  <2>2. ~IsExecuted(last)'
      BY <1>1, <1>5, <1>12 DEF IsExecuted, history
  <2>3. last' \notin delivered'
      BY <1>1, <1>5 DEF Line
  <2>4. Genuine(rdr[1], Arrived)'
      BY <1>1, <1>5, <2>1 DEF Genuine
  <2>5. isr' # "store"
      BY <1>3, <1>5 DEF isrVars
  <2>6. QED BY <1>1, <1>2, <1>5, <2>1, <2>2, <2>3, <2>4, <2>5 DEF InFrame
<1>14. Ready'
    BY <1>3, <1>5 DEF Ready, ToExecute, ToAnswer, queueVars, mainVars
<1>15. Executions'
    BY <1>5 DEF Executions, ExecutesOnlyOurFrames, history
<1>16. QED BY <1>8, <1>9, <1>10, <1>11, <1>13, <1>14, <1>15

\* A byte of a frame follows the one before in time, and while the receiver waits for it.
LEMMA ContinueStep ==
    ASSUME Timely, LinkInv, NEW clear, ContinueFrame(CharTicks[MasterRate], clear),
           UNCHANGED <<settingVars, due>>
    PROVE  JobInv'
<1> USE DEF LinkInv, JobInv
<1> DEFINE n == CharTicks[MasterRate]
           f == current
<1>1. /\ f # 0 /\ quiet >= n /\ quiet <= n + MaxGap - 1 /\ ~ByteWaiting
      /\ begun' = begun /\ last' = last /\ PutByte(f, at + 1, clear)
  <2>1. quiet \in n..(n + MaxGap - 1)
      BY DEF ContinueFrame
  <2>2. n \in Nat /\ MaxGap \in Nat
      BY Rates
  <2>3. QED BY <2>1, <2>2 DEF ContinueFrame
<1>2. f = last /\ f \notin delivered /\ f \in Frame /\ f \in begun
    BY <1>1 DEF Line
<1>3. FrameLength[f] \in Nat /\ FrameLength[f] >= 4
    BY <1>2, Lengths
<1>4. n \in Nat /\ MaxGap \in Nat /\ MaxLag \in Nat /\ MinSilence \in Nat /\ quiet \in Nat
      /\ n + MaxGap <= MinSilence /\ n + MaxGap + MaxLag < Timeout /\ Timeout \in Nat
  <2>1. quiet \in 0..MinSilence
      BY DEF Timing
  <2>2. QED BY <2>1, Rates
<1>5. Receiving
    BY <1>1, <1>4 DEF Timing
<1>6. poll = "get" /\ xEventInQueue = 0 /\ txie = 0 /\ ~due /\ main = "poll" /\ halted = "no"
      /\ eRcvState # "RX_INIT"
    BY <1>5 DEF OneJob, EventPending, TypeOK, InterruptsOK
<1>7. isr = "none" /\ rdr = <<>>
    BY <1>1, <1>6 DEF ByteWaiting, HalfDuplex, TypeOK, TransmitterOK, eMBSndState
<1>8. ~HasByte /\ eRcvState = "RX_RCV" /\ uie = 1 /\ lag = 0
    BY <1>5, <1>7 DEF HasByte, Receiving, Receiver, Timing
<1>9. /\ rdr' = <<IF clear THEN FrameBytes(f)[at + 1] ELSE ZeroByte>>
      /\ UNCHANGED <<rcvVars, ucRTUBuf, sndVars, timerVars, queueVars, rxie, txie,
                     isrVars, mainVars, halted, lag, history>>
      /\ quiet' = 0
      /\ \/ at + 1 = FrameLength[f] /\ current' = 0 /\ delivered' = delivered \cup {f}
         \/ at + 1 # FrameLength[f] /\ current' = f /\ at' = at + 1 /\ delivered' = delivered
    BY <1>1, <1>7 DEF PutByte, UartReceive
<1>10. main' = "poll" /\ ~due'
    BY <1>6 DEF settingVars
<1>11. HasByte' /\ Receiving'
    BY <1>9 DEF HasByte, Receiving
<1>12. OneJob'
    BY <1>6, <1>8, <1>9, <1>10, <1>11 DEF OneJob, EventPending, rcvVars, queueVars, mainVars
<1>13. Receiver'
    BY <1>7, <1>8, <1>9 DEF Receiver, rcvVars, timerVars, isrVars
<1>14. Timing'
  <2>1. lag' = 0 /\ quiet' = 0 /\ UNCHANGED <<downcounter, uie, uif>>
      BY <1>8, <1>9 DEF timerVars
  <2>2. downcounter \in Nat /\ uif \in {0, 1}
      BY Rates DEF TypeOK, TimerOK
  <2>3. downcounter + quiet + 1 >= Timeout + uif
      BY <1>1, <1>4, <1>8 DEF Timing
  <2>4. downcounter + 0 > MaxLag + uif
      BY <1>1, <1>4, <2>2, <2>3
  <2>5. 0 \in 0..MaxLag /\ 0 \in 0..MinSilence
      BY <1>4
  <2>6. QED BY <1>11, <2>1, <2>4, <2>5 DEF Timing
<1>15. Line'
    BY <1>1, <1>2, <1>9 DEF Line
<1>16. InFrame'
  <2>1. HasFrame /\ Stored = usRcvBufferPos /\ Arrived = Stored
      BY <1>5, <1>7, <1>8 DEF HasFrame, Stored, Arrived
  <2>2. /\ ~IsExecuted(last) /\ at = usRcvBufferPos /\ at \in 1..FrameLength[f]
        /\ at # FrameLength[f]
        /\ \A i \in 0..(usRcvBufferPos - 1) : Genuine(ucRTUBuf[i], i + 1)
      BY <1>1, <1>2, <2>1 DEF InFrame
  <2>3. Stored' = at /\ Arrived' = at + 1
      BY <1>8, <1>9, <2>2 DEF Stored, Arrived, rcvVars
  <2>4. at + 1 \in 1..FrameLength[f] /\ at \in Nat
      BY <1>3, <2>2
  <2>5. ~IsExecuted(last)'
      BY <1>1, <1>9, <2>2 DEF IsExecuted, history
  <2>6. at + 1 = FrameLength[f] <=> f \in delivered'
      BY <1>2, <1>9
  <2>7. \A i \in 0..(Stored' - 1) : Genuine(ucRTUBuf[i], i + 1)'
      BY <1>1, <1>9, <2>2, <2>3 DEF Genuine
  <2>8. Genuine(rdr[1], Arrived)'
      BY <1>1, <1>2, <1>9, <2>3 DEF Genuine
  <2>9. isr' # "store" /\ current' # 0 => at' = at + 1
      BY <1>9
  <2>10. isr' = "none"
      BY <1>7, <1>9 DEF isrVars
  <2>11. QED BY <1>1, <1>2, <1>9, <2>3, <2>4, <2>5, <2>6, <2>7, <2>8, <2>10 DEF InFrame
<1>17. Ready'
    BY <1>6, <1>9 DEF Ready, ToExecute, ToAnswer, queueVars, mainVars
<1>18. Executions'
    BY <1>9 DEF Executions, ExecutesOnlyOurFrames, history
<1>19. QED BY <1>12, <1>13, <1>14, <1>15, <1>16, <1>17, <1>18

\* A frame broken off is not continued.
LEMMA BreakStep ==
    ASSUME Timely, LinkInv, BreakFrame, UNCHANGED <<settingVars, due>>
    PROVE  JobInv'
<1> USE DEF LinkInv, JobInv
<1>1. current' = 0 /\ UNCHANGED <<vars, begun, delivered, last, quiet, lag, executed, replies>>
    BY DEF BreakFrame, timeVars, history
<1>2. UNCHANGED <<main, due>>
    BY DEF settingVars
<1>3. UNCHANGED <<HasByte, Receiving, HasFrame, Stored, Arrived, EventPending>>
    BY <1>1, Zenon DEF vars, rcvVars, isrVars, usartVars, queueVars, mainVars, HasByte, Receiving,
              HasFrame, FrameEvent, Stored, Arrived, EventPending
<1>4. OneJob'
    BY <1>1, <1>2, <1>3 DEF OneJob, vars, rcvVars, queueVars, usartVars, mainVars
<1>5. Receiver'
    BY <1>1, Zenon DEF Receiver, vars, rcvVars, timerVars, isrVars, usartVars
<1>6. Timing'
    BY <1>1, <1>3 DEF Timing, vars, rcvVars, timerVars
<1>7. Line'
    BY <1>1 DEF Line
<1>8. InFrame'
    BY <1>1, <1>3, Zenon DEF InFrame, Genuine, IsExecuted, vars, usartVars, isrVars
<1>9. Ready'
    BY <1>1, Zenon DEF Ready, ToExecute, ToAnswer, IsExecuted, vars, queueVars, usartVars, mainVars
<1>10. Executions'
    BY <1>1, Zenon DEF Executions, ExecutesOnlyOurFrames
<1>11. QED BY <1>4, <1>5, <1>6, <1>7, <1>8, <1>9, <1>10

(* ------------------------------ time ------------------------------------------------ *)

\* While time passes and nothing else happens, only Timing is at stake.
LEMMA OnlyTime ==
    ASSUME JobInv, Timing',
           UNCHANGED <<rcvVars, ucRTUBuf, uie, queueVars, usartVars, isrVars, mainVars, halted,
                       masterVars, history, settingVars, due>>
    PROVE  JobInv'
<1> USE DEF JobInv, rcvVars, queueVars, usartVars, isrVars, mainVars, masterVars, history,
            settingVars
<1>1. UNCHANGED <<HasByte, Receiving, EventPending>>
    BY Zenon DEF HasByte, Receiving, EventPending
<1>2. OneJob'
    BY <1>1 DEF OneJob
<1>3. Receiver'
    BY Zenon DEF Receiver
<1>4. Line'
    BY Zenon DEF Line
<1>5. InFrame' /\ Ready' /\ Executions'
    BY BytesKept
<1>6. QED BY <1>2, <1>3, <1>4, <1>5

\* TIM2 counts on, and a waiting byte waits no longer than MaxLag.
LEMMA TickStep ==
    ASSUME Timely, LinkInv, Tick, UNCHANGED <<settingVars, due>>
    PROVE  JobInv'
<1> USE DEF LinkInv, JobInv
<1>1. /\ uif' = 1 /\ ~Tim2Pending
      /\ quiet' = IF quiet < MinSilence THEN quiet + 1 ELSE quiet
      /\ IF ByteWaiting THEN lag < MaxLag /\ lag' = lag + 1 ELSE lag' = 0
      /\ UNCHANGED <<rcvVars, ucRTUBuf, downcounter, uie, queueVars, usartVars, isrVars,
                     mainVars, halted, masterVars, history>>
    BY DEF Tick, Tim2Update
<1>2. /\ lag \in Nat /\ quiet \in Nat /\ quiet <= MinSilence /\ MinSilence \in Nat
      /\ lag <= MaxLag /\ MaxLag \in Nat
      /\ downcounter \in Nat /\ uif \in {0, 1} /\ uie \in {0, 1} /\ Timeout \in Nat
    BY Rates DEF Timing, TypeOK, TimerOK
<1>3. Timing'
  <2>1. UNCHANGED <<HasByte, Receiving, MasterRate>>
      BY <1>1 DEF HasByte, Receiving, MasterRate, rcvVars, usartVars, isrVars, masterVars
  <2>2. HasByte => ByteWaiting
    <3>1. rdr # <<>> => rxie = 1
        BY DEF OneJob, Receiving, HasByte, HalfDuplex, TypeOK, TransmitterOK, eMBSndState
    <3>2. QED BY <3>1 DEF HasByte, ByteWaiting
  <2>3. uie = 1 => uif = 0
      BY <1>1, <1>2 DEF Tim2Pending
  <2>4. lag' \in 0..MaxLag /\ quiet' \in 0..MinSilence
      BY <1>1, <1>2
  <2>5. ~HasByte => lag' = 0
      BY <1>1 DEF HasByte, ByteWaiting
  <2>6. ASSUME uie = 1, HasByte PROVE downcounter' + lag' > MaxLag + uif'
    <3>1. downcounter + lag > MaxLag + uif /\ lag' = lag + 1
        BY <1>1, <2>2, <2>6 DEF Timing
    <3>2. QED BY <1>1, <1>2, <2>3, <2>6, <3>1
  <2>7. ASSUME eRcvState = "RX_RCV", ~HasByte, quiet' < MinSilence
        PROVE  downcounter' + quiet' + 1 >= Timeout + uif'
    <3>1. quiet < MinSilence /\ quiet' = quiet + 1
        BY <1>1, <1>2, <2>7
    <3>2. downcounter + quiet + 1 >= Timeout + uif
        BY <2>7, <3>1 DEF Timing
    <3>3. uie = 1
        BY <2>7 DEF Receiver, HasByte
    <3>4. QED BY <1>1, <1>2, <2>3, <3>1, <3>2, <3>3
  <2>8. ASSUME current # 0, ~Receiving PROVE quiet' >= CharTicks[MasterRate] + MaxGap
    <3>1. CharTicks[MasterRate] + MaxGap \in Nat
        BY Rates
    <3>2. quiet >= CharTicks[MasterRate] + MaxGap
        BY <2>8 DEF Timing
    <3>3. QED BY <1>1, <1>2, <3>1, <3>2
  <2>9. eRcvState' = eRcvState /\ uie' = uie /\ current' = current
      BY <1>1 DEF rcvVars, masterVars
  <2>10. QED BY <2>1, <2>4, <2>5, <2>6, <2>7, <2>8, <2>9 DEF Timing
<1>4. QED BY <1>1, <1>3, OnlyTime

\* Time passes while the core stands still: then no frame is being received.
LEMMA StallStep ==
    ASSUME Timely, LinkInv, StallTick
    PROVE  JobInv'
<1> USE DEF LinkInv, JobInv
<1>1. /\ main = "erase" /\ UNCHANGED <<settingVars, due>>
      /\ quiet' = IF quiet < MinSilence THEN quiet + 1 ELSE quiet
      /\ UNCHANGED <<rcvVars, ucRTUBuf, downcounter, uie, queueVars, usartVars, isrVars,
                     mainVars, halted, masterVars, history, lag>>
    BY DEF StallTick, Stalled
<1>2. ~Receiving
    BY <1>1 DEF OneJob
<1>3. quiet \in Nat /\ quiet <= MinSilence /\ MinSilence \in Nat
    BY Rates DEF Timing
<1>4. Timing'
  <2>1. UNCHANGED <<HasByte, Receiving, MasterRate>>
      BY <1>1 DEF HasByte, Receiving, MasterRate, rcvVars, usartVars, isrVars, masterVars
  <2>2. quiet' \in 0..MinSilence /\ quiet' >= quiet /\ quiet' \in Nat
      BY <1>1, <1>3
  <2>3. ~HasByte /\ eRcvState # "RX_RCV"
      BY <1>2 DEF Receiving
  <2>4. CharTicks[MasterRate] + MaxGap \in Nat
      BY Rates
  <2>5. current # 0 => quiet' >= CharTicks[MasterRate] + MaxGap
      BY <1>2, <1>3, <2>2, <2>4 DEF Timing
  <2>6. lag' = lag /\ eRcvState' = eRcvState /\ current' = current
      BY <1>1 DEF rcvVars, masterVars
  <2>7. QED BY <2>1, <2>2, <2>3, <2>5, <2>6 DEF Timing
<1>5. QED BY <1>1, <1>4, OnlyTime

\* The running counter does not wrap.
LEMMA Countdown ==
    ASSUME TypeOK, uie = 1
    PROVE  downcounter \in Nat /\ downcounter >= 1
           /\ (downcounter - 1) % 65536 = downcounter - 1
<1>1. downcounter \in Nat /\ downcounter >= 1 /\ downcounter < 65536
    BY Sizes DEF TypeOK, TimerOK
<1>2. downcounter - 1 \in Int /\ 0 <= downcounter - 1 /\ downcounter - 1 < 65536
    BY <1>1
<1>3. \A n \in Int : 0 <= n /\ n < 65536 => n % 65536 = n
    OBVIOUS
<1>4. QED BY <1>1, <1>2, <1>3

\* t3.5 passes only when no byte is waiting and the next one is overdue.
LEMMA Expiry ==
    ASSUME Timely, LinkInv, Tim2Isr, (downcounter - 1) % 65536 = 0
    PROVE  /\ ~HasByte /\ uie = 1 /\ downcounter = 1
           /\ eRcvState = "RX_RCV" =>
                \A r \in {Default, NewRate} : quiet >= CharTicks[r] + MaxGap
<1> USE DEF LinkInv, JobInv
<1>1. uie = 1 /\ uif = 1
    BY DEF Tim2Isr, Tim2Pending
<1>2. downcounter = 1
    BY <1>1, Countdown
<1>3. lag \in Nat /\ lag <= MaxLag /\ MaxLag \in Nat /\ quiet \in Nat /\ quiet <= MinSilence
      /\ MinSilence \in Nat /\ Timeout \in Nat /\ MaxGap \in Nat
    BY Rates DEF Timing
<1>4. ~HasByte
    BY <1>1, <1>2, <1>3 DEF Timing
<1>5. ASSUME eRcvState = "RX_RCV", NEW r \in {Default, NewRate}
      PROVE  quiet >= CharTicks[r] + MaxGap
  <2>1. /\ CharTicks[r] \in Nat /\ CharTicks[r] + MaxGap + MaxLag < Timeout
        /\ CharTicks[r] + MaxGap <= MinSilence
      BY Rates
  <2>2. quiet < MinSilence => quiet + 2 >= Timeout + 1
      BY <1>1, <1>2, <1>3, <1>4, <1>5 DEF Timing
  <2>3. QED BY <1>3, <2>1, <2>2
<1>6. QED BY <1>1, <1>2, <1>4, <1>5

\* tim2_isr: the end of the initial silence, or of a frame, is told to eMBPoll.
LEMMA Tim2Step ==
    ASSUME Timely, LinkInv, Tim2, UNCHANGED <<settingVars, due>>
    PROVE  JobInv'
<1> USE DEF LinkInv, JobInv
<1>1. Tim2Isr /\ UNCHANGED <<masterVars, timeVars, history>>
    BY DEF Tim2
<1>2. uie = 1 /\ uif = 1 /\ halted = "no"
    BY <1>1 DEF Tim2Isr, Tim2Pending
<1>3. downcounter \in Nat /\ downcounter >= 1 /\ (downcounter - 1) % 65536 = downcounter - 1
    BY <1>2, Countdown
<1>4. CASE (downcounter - 1) % 65536 # 0
  <2>1. /\ uif' = 0 /\ downcounter' = downcounter - 1
        /\ UNCHANGED <<rcvVars, ucRTUBuf, uie, queueVars, usartVars, isrVars, mainVars, halted>>
      BY <1>1, <1>3, <1>4 DEF Tim2Isr
  <2>2. UNCHANGED <<HasByte, Receiving, MasterRate, lag, quiet, eRcvState, uie, current>>
      BY <1>1, <2>1 DEF HasByte, Receiving, MasterRate, rcvVars, usartVars, isrVars, masterVars,
                        timeVars
  <2>3. lag \in Nat /\ MaxLag \in Nat /\ quiet \in Nat /\ Timeout \in Nat
      BY Rates DEF Timing
  <2>4. uie = 1 /\ HasByte => downcounter' + lag > MaxLag + uif'
      BY <1>2, <1>3, <2>1, <2>3 DEF Timing
  <2>5. eRcvState = "RX_RCV" /\ ~HasByte /\ quiet < MinSilence =>
           downcounter' + quiet + 1 >= Timeout + uif'
      BY <1>2, <1>3, <2>1, <2>3 DEF Timing
  <2>6. Timing'
      BY <2>2, <2>4, <2>5 DEF Timing
  <2>7. QED BY <1>1, <2>1, <2>6, OnlyTime
<1>5. CASE (downcounter - 1) % 65536 = 0
  <2>1. /\ ~HasByte
        /\ eRcvState = "RX_RCV" => quiet >= CharTicks[MasterRate] + MaxGap
      BY <1>1, <1>5, Expiry, Rates
  <2>2. T35Expired
      BY <1>1, <1>5 DEF Tim2Isr
  <2>3. eRcvState \in {"RX_INIT", "RX_RCV"}
      BY <1>2 DEF Receiver, TypeOK, ReceiverOK, eMBRcvState
  <2>4. /\ uie' = 0 /\ eRcvState' = "RX_IDLE" /\ xEventInQueue' = 1
        /\ \/ eRcvState = "RX_INIT" /\ eQueuedEvent' = "EV_READY"
           \/ eRcvState = "RX_RCV" /\ eQueuedEvent' = "EV_FRAME_RECEIVED"
        /\ UNCHANGED <<usRcvBufferPos, ucRTUBuf, usartVars, isrVars, mainVars, halted>>
      BY <2>2, <2>3 DEF T35Expired, xMBPortEventPost
  <2>5. ~HasByte' /\ ~Receiving'
      BY <2>1, <2>4 DEF HasByte, Receiving, usartVars, isrVars
  <2>6. poll = "get" /\ xEventInQueue = 0 /\ txie = 0
      BY <2>3 DEF OneJob, Receiving, EventPending, TypeOK, InterruptsOK
  <2>7. OneJob'
      BY <1>2, <2>4, <2>5, <2>6 DEF OneJob, EventPending, usartVars, mainVars, settingVars
  <2>8. Receiver'
      BY <2>1, <2>4 DEF Receiver, HasByte, usartVars, isrVars
  <2>9. Timing'
    <3>1. UNCHANGED <<lag, quiet, current, MasterRate>>
        BY <1>1 DEF MasterRate, timeVars, masterVars
    <3>2. current # 0 => eRcvState = "RX_RCV" \/ ~Receiving
        BY <2>3 DEF Receiving, OneJob
    <3>3. current # 0 => quiet >= CharTicks[MasterRate] + MaxGap
        BY <2>1, <3>2 DEF Timing
    <3>4. QED BY <2>4, <2>5, <2>1, <3>1, <3>3 DEF Timing
  <2>10. Line'
      BY <1>1 DEF Line, masterVars
  <2>11. InFrame'
    <3>1. CASE eRcvState = "RX_INIT"
      <4>1. ~HasFrame'
          BY <2>4, <2>5, <2>6, <3>1 DEF HasFrame, FrameEvent, mainVars
      <4>2. QED BY <4>1 DEF InFrame
    <3>2. CASE eRcvState = "RX_RCV"
      <4>1. HasFrame /\ Stored = usRcvBufferPos /\ Stored' = Stored /\ Arrived' = Arrived
          BY <2>1, <2>4, <2>5, <3>2 DEF HasFrame, Receiving, Stored, Arrived, usartVars, isrVars
      <4>2. UNCHANGED <<last, delivered, current, at, executed, ucRTUBuf, rdr, isr, ucByte>>
          BY <1>1, <2>4 DEF masterVars, history, usartVars, isrVars
      <4>3. QED BY <4>1, <4>2, Zenon DEF InFrame, Genuine, IsExecuted
    <3>3. QED BY <2>3, <3>1, <3>2
  <2>12. Ready'
      BY <2>4, <2>6 DEF Ready, ToExecute, ToAnswer, mainVars, usartVars
  <2>13. Executions'
      BY <1>1 DEF Executions, ExecutesOnlyOurFrames, masterVars, history
  <2>14. QED BY <2>7, <2>8, <2>9, <2>10, <2>11, <2>12, <2>13
<1>6. QED BY <1>4, <1>5

(* ------------------------------ usart1_isr ------------------------------------------- *)

\* While a byte is being dealt with, the main loop has nothing to do and the timer has
\* not run out.
LEMMA ByteInHand ==
    ASSUME Timely, LinkInv, HasByte
    PROVE  /\ Receiving /\ HasFrame /\ last \in Frame
           /\ poll = "get" /\ xEventInQueue = 0 /\ txie = 0 /\ ~due /\ main = "poll"
           /\ halted = "no" /\ eSndState = "TX_IDLE"
           /\ eRcvState \in {"RX_IDLE", "RX_RCV"}
<1> USE DEF LinkInv, JobInv
<1>1. Receiving /\ HasFrame
    BY DEF Receiving, HasFrame
<1>2. poll = "get" /\ xEventInQueue = 0 /\ txie = 0 /\ ~due /\ main = "poll" /\ halted = "no"
      /\ eRcvState \in {"RX_IDLE", "RX_RCV"}
    BY <1>1 DEF OneJob, EventPending, TypeOK, InterruptsOK, ReceiverOK, eMBRcvState, Receiver
<1>3. eSndState = "TX_IDLE"
    BY <1>2 DEF HalfDuplex, TypeOK, TransmitterOK, eMBSndState
<1>4. last \in Frame
    BY <1>1 DEF InFrame
<1>5. QED BY <1>1, <1>2, <1>3, <1>4

\* The handler takes the byte out of the data register.
LEMMA ReceiveByteStep ==
    ASSUME Timely, LinkInv, ReceiveByte, lag' = lag,
           UNCHANGED <<masterVars, quiet, history, settingVars, due>>
    PROVE  JobInv'
<1> USE DEF LinkInv, JobInv
<1>1. rdr # <<>> /\ isr = "none" /\ HasByte
    BY DEF ReceiveByte, HasByte
<1>2. /\ ucByte' = rdr[1] /\ rdr' = <<>> /\ stateRead' = eRcvState /\ isr' = "store"
      /\ UNCHANGED <<rcvVars, ucRTUBuf, timerVars, queueVars, txie, mainVars, halted>>
    BY <1>1, ByteInHand DEF ReceiveByte
<1>3. HasByte' /\ Receiving' /\ Receiving
    BY <1>1, <1>2 DEF HasByte, Receiving
<1>4. OneJob'
    BY <1>1, <1>2, <1>3, ByteInHand DEF OneJob, EventPending, rcvVars, queueVars, mainVars,
                                        settingVars
<1>5. Receiver'
    BY <1>1, <1>2 DEF Receiver, rcvVars, timerVars
<1>6. Timing'
    BY <1>1, <1>2, <1>3 DEF Timing, rcvVars, timerVars
<1>7. Line'
    BY DEF Line, masterVars
<1>8. InFrame'
  <2>1. HasFrame /\ HasFrame' /\ Stored' = Stored /\ Arrived' = Arrived
      BY <1>1, <1>2, <1>3 DEF HasFrame, Stored, Arrived, rcvVars
  <2>2. UNCHANGED <<last, delivered, current, at, executed, ucRTUBuf>>
      BY <1>2 DEF masterVars, history
  <2>3. Genuine(rdr[1], Arrived)
      BY <1>1, <2>1 DEF InFrame
  <2>4. Genuine(ucByte, Arrived)'
      BY <1>2, <2>1, <2>2, <2>3 DEF Genuine
  <2>5. \A i \in 0..(Stored' - 1) : Genuine(ucRTUBuf[i], i + 1)'
      BY <2>1, <2>2 DEF InFrame, Genuine
  <2>6. QED BY <1>2, <2>1, <2>2, <2>4, <2>5 DEF InFrame, IsExecuted
<1>9. Ready'
    BY <1>1, <1>2, ByteInHand DEF Ready, ToExecute, ToAnswer, queueVars, mainVars
<1>10. Executions'
    BY DEF Executions, ExecutesOnlyOurFrames, masterVars, history
<1>11. QED BY <1>4, <1>5, <1>6, <1>7, <1>8, <1>9, <1>10

\* The handler puts the byte into its place in the buffer, which has room for it.
LEMMA StoredByte ==
    ASSUME Timely, LinkInv, StoreByte
    PROVE  /\ isr = "store" /\ stateRead = eRcvState /\ rdr = <<>> /\ isr' = "arm"
           /\ eRcvState' = "RX_RCV" /\ usRcvBufferPos' = Stored + 1
           /\ ucRTUBuf' = [ucRTUBuf EXCEPT ![Stored] = ucByte]
           /\ UNCHANGED <<timerVars, queueVars, usartVars, rdr, mainVars, halted>>
           /\ Stored \in Nat /\ Stored \in DOMAIN ucRTUBuf
<1> USE DEF LinkInv, JobInv
<1>1. isr = "store" /\ stateRead = eRcvState /\ rdr = <<>> /\ HasByte
    BY DEF StoreByte, Receiver, HasByte
<1>2. last \in Frame /\ Arrived = Stored + 1 /\ Arrived \in 1..FrameLength[last]
    BY <1>1, ByteInHand DEF InFrame, Arrived
<1>3. /\ Stored \in Nat /\ Stored < MB_SER_PDU_SIZE_MAX - 1 /\ MB_SER_PDU_SIZE_MAX \in Nat
      /\ Stored \in DOMAIN ucRTUBuf
  <2>1. Stored \in Nat
      BY Sizes DEF Stored, TypeOK, ReceiverOK
  <2>2. DOMAIN ucRTUBuf = 0..(MB_SER_PDU_SIZE_MAX - 1)
      BY DEF TypeOK, ReceiverOK
  <2>3. QED BY <1>2, <2>1, <2>2, Lengths, Sizes
<1>4. /\ eRcvState' = "RX_RCV" /\ isr' = "arm" /\ usRcvBufferPos' = Stored + 1
      /\ ucRTUBuf' = [ucRTUBuf EXCEPT ![Stored] = ucByte]
      /\ UNCHANGED <<timerVars, queueVars, usartVars, mainVars, halted>>
  <2>1. CASE eRcvState = "RX_IDLE"
    <3>1. Stored = 0
        BY <1>1, <2>1 DEF Stored
    <3>2. QED BY <1>1, <2>1, <3>1 DEF StoreByte
  <2>2. CASE eRcvState = "RX_RCV"
    <3>1. Stored = usRcvBufferPos
        BY <2>2 DEF Stored
    <3>2. RoomInBuffer
        BY <1>3, <3>1 DEF RoomInBuffer
    <3>3. QED BY <1>1, <2>2, <3>1, <3>2 DEF StoreByte
  <2>3. QED BY <1>1, <2>1, <2>2, ByteInHand
<1>5. QED BY <1>1, <1>3, <1>4 DEF usartVars

LEMMA StoreByteStep ==
    ASSUME Timely, LinkInv, StoreByte, lag' = lag,
           UNCHANGED <<masterVars, quiet, history, settingVars, due>>
    PROVE  JobInv'
<1> USE DEF LinkInv, JobInv
<1>1. isr = "store" /\ stateRead = eRcvState /\ rdr = <<>> /\ HasByte
    BY DEF StoreByte, Receiver, HasByte
<1>2. /\ HasFrame /\ last \in Frame /\ ~IsExecuted(last)
      /\ Arrived = Stored + 1 /\ Arrived \in 1..FrameLength[last]
      /\ Arrived = FrameLength[last] <=> last \in delivered
      /\ current # 0 => at = Arrived
      /\ \A i \in 0..(Stored - 1) : Genuine(ucRTUBuf[i], i + 1)
      /\ Genuine(ucByte, Arrived)
    BY <1>1, ByteInHand DEF InFrame, Arrived
<1>3. Stored \in Nat
    BY StoredByte
<1>4. /\ eRcvState' = "RX_RCV" /\ isr' = "arm" /\ usRcvBufferPos' = Stored + 1
      /\ ucRTUBuf' = [ucRTUBuf EXCEPT ![Stored] = ucByte]
      /\ Stored \in DOMAIN ucRTUBuf
      /\ UNCHANGED <<timerVars, queueVars, usartVars, mainVars, halted>>
    BY StoredByte
<1>5. HasByte' /\ Receiving' /\ Receiving
    BY <1>1, <1>4 DEF HasByte, Receiving
<1>6. OneJob'
    BY <1>1, <1>4, <1>5, ByteInHand DEF OneJob, EventPending, queueVars, usartVars, mainVars,
                                        settingVars
<1>7. Receiver'
    BY <1>1, <1>4 DEF Receiver, timerVars, usartVars
<1>8. Timing'
    BY <1>1, <1>4, <1>5 DEF Timing, timerVars
<1>9. Line'
    BY DEF Line, masterVars
<1>10. InFrame'
  <2>1. HasFrame' /\ Stored' = Stored + 1 /\ Arrived' = Stored + 1
      BY <1>1, <1>4, <1>5 DEF HasFrame, Stored, Arrived, usartVars
  <2>2. UNCHANGED <<last, delivered, current, at, executed, rdr>>
      BY <1>4 DEF masterVars, history, usartVars
  <2>3. ASSUME NEW i \in 0..(Stored' - 1) PROVE Genuine(ucRTUBuf[i], i + 1)'
    <3>1. CASE i = Stored
      <4>1. ucRTUBuf'[i] = ucByte
          BY <1>3, <1>4, <3>1 DEF TypeOK, ReceiverOK
      <4>2. QED BY <1>2, <2>2, <3>1, <4>1 DEF Genuine
    <3>2. CASE i # Stored
      <4>1. i \in 0..(Stored - 1)
          BY <1>3, <2>1, <3>2
      <4>2. ucRTUBuf'[i] = ucRTUBuf[i]
          BY <1>3, <1>4, <4>1, <3>2 DEF TypeOK, ReceiverOK
      <4>3. QED BY <1>2, <2>2, <4>1, <4>2 DEF Genuine
    <3>3. QED BY <3>1, <3>2
  <2>4. QED BY <1>1, <1>2, <1>4, <2>1, <2>2, <2>3 DEF InFrame, IsExecuted
<1>11. Ready'
    BY <1>1, <1>4, ByteInHand DEF Ready, ToExecute, ToAnswer, queueVars, usartVars, mainVars
<1>12. Executions'
    BY DEF Executions, ExecutesOnlyOurFrames, masterVars, history
<1>13. QED BY <1>6, <1>7, <1>8, <1>9, <1>10, <1>11, <1>12

\* The handler starts t3.5 again.
LEMMA RestartTimerStep ==
    ASSUME Timely, LinkInv, RestartTimer, lag' = 0,
           UNCHANGED <<masterVars, quiet, history, settingVars, due>>
    PROVE  JobInv'
<1> USE DEF LinkInv, JobInv
<1>1. isr = "arm" /\ eRcvState = "RX_RCV" /\ rdr = <<>> /\ HasByte
    BY DEF RestartTimer, Receiver, HasByte
<1>2. /\ isr' = "none" /\ downcounter' = Timeout /\ uie' = 1 /\ uif' = uif
      /\ UNCHANGED <<rcvVars, ucRTUBuf, queueVars, usartVars, ucByte, stateRead, mainVars,
                     halted>>
    BY DEF RestartTimer, vMBPortTimersEnable
<1>3. ~HasByte' /\ Receiving' /\ eRcvState' = "RX_RCV"
    BY <1>1, <1>2 DEF HasByte, Receiving, rcvVars, usartVars
<1>4. OneJob'
    BY <1>1, <1>2, <1>3, ByteInHand DEF OneJob, EventPending, queueVars, usartVars, mainVars,
                                        settingVars
<1>5. Receiver'
    BY <1>1, <1>2, <1>3 DEF Receiver, usartVars
<1>6. Timing'
  <2>1. quiet \in Nat /\ quiet \in 0..MinSilence /\ 0 \in 0..MaxLag /\ Timeout \in Nat
        /\ uif \in {0, 1}
      BY Rates DEF Timing, TypeOK, TimerOK
  <2>2. downcounter' + quiet' + 1 >= Timeout + uif'
      BY <1>2, <2>1
  <2>3. QED BY <1>3, <2>1, <2>2 DEF Timing
<1>7. Line'
    BY DEF Line, masterVars
<1>8. InFrame'
  <2>1. HasFrame /\ HasFrame' /\ Stored' = Stored /\ Arrived' = Arrived
      BY <1>1, <1>2, <1>3, ByteInHand DEF HasFrame, Stored, Arrived, rcvVars, usartVars
  <2>2. UNCHANGED <<last, delivered, current, at, executed, ucRTUBuf, rdr>>
      BY <1>2 DEF masterVars, history, usartVars
  <2>3. QED BY <1>1, <1>2, <2>1, <2>2 DEF InFrame, Genuine, IsExecuted
<1>9. Ready'
    BY <1>1, <1>2, ByteInHand DEF Ready, ToExecute, ToAnswer, queueVars, usartVars, mainVars
<1>10. Executions'
    BY DEF Executions, ExecutesOnlyOurFrames, masterVars, history
<1>11. QED BY <1>4, <1>5, <1>6, <1>7, <1>8, <1>9, <1>10

\* The transmitter: no frame is on the line, and after the last byte eMBPoll is told.
LEMMA TransmitStep ==
    ASSUME Timely, LinkInv, Transmit, UNCHANGED <<settingVars, due>>
    PROVE  JobInv'
<1> USE DEF LinkInv, JobInv
<1>1. /\ TransmitByte /\ txie = 1 /\ isr = "none" /\ quiet' \in {0, quiet}
      /\ UNCHANGED <<masterVars, lag, executed>>
    BY DEF Transmit, TransmitByte
<1>2. /\ poll = "get" /\ xEventInQueue = 0 /\ ~Receiving /\ halted = "no"
      /\ eSndState = "TX_XMIT" /\ eRcvState = "RX_IDLE" /\ rdr = <<>>
    BY <1>1 DEF OneJob, EventPending, Receiving, HasByte, HalfDuplex, TypeOK, InterruptsOK
<1>3. current = 0 /\ last \in delivered
    BY <1>1 DEF Ready, ToAnswer, Line
<1>4. /\ UNCHANGED <<rcvVars, ucRTUBuf, timerVars, rdr, isrVars, mainVars, halted>>
      /\ \/ txie' = 1 /\ UNCHANGED queueVars
         \/ txie' = 0 /\ xEventInQueue' = 1 /\ eQueuedEvent' = "EV_FRAME_SENT"
    BY <1>1, <1>2 DEF TransmitByte, xMBPortEventPost, vMBPortSerialEnable
<1>5. ~HasByte' /\ ~Receiving' /\ eRcvState' = "RX_IDLE"
    BY <1>1, <1>2, <1>4 DEF HasByte, Receiving, rcvVars, isrVars
<1>6. OneJob'
    BY <1>2, <1>4, <1>5 DEF OneJob, EventPending, queueVars, mainVars, settingVars
<1>7. Receiver'
    BY <1>2, <1>4, <1>5 DEF Receiver, timerVars, isrVars
<1>8. Timing'
  <2>1. lag' \in 0..MaxLag /\ lag' = 0
      BY <1>1, <1>2 DEF Timing, Receiving
  <2>2. quiet' \in 0..MinSilence
      BY <1>1, Rates DEF Timing
  <2>3. current' = 0
      BY <1>1, <1>3 DEF masterVars
  <2>4. QED BY <1>5, <2>1, <2>2, <2>3 DEF Timing
<1>9. Line'
    BY <1>1 DEF Line, masterVars
<1>10. InFrame'
    BY <1>2, <1>4, <1>5 DEF InFrame, HasFrame, FrameEvent, queueVars, mainVars
<1>11. Ready'
    BY <1>1, <1>2, <1>3, <1>4 DEF Ready, ToExecute, ToAnswer, queueVars, mainVars, masterVars
<1>12. Executions'
    BY <1>1 DEF Executions, ExecutesOnlyOurFrames, masterVars
<1>13. QED BY <1>6, <1>7, <1>8, <1>9, <1>10, <1>11, <1>12

(* ------------------------------ eMBPoll ----------------------------------------------- *)

\* While eMBPoll is at work nothing is received and nothing sent.
LEMMA AtWork ==
    ASSUME LinkInv, EventPending
    PROVE  /\ ~HasByte /\ ~Receiving /\ isr = "none" /\ rdr = <<>> /\ txie = 0
           /\ eRcvState = "RX_IDLE" /\ halted = "no" /\ Stored = usRcvBufferPos
           /\ Arrived = usRcvBufferPos
BY DEF LinkInv, JobInv, OneJob, Receiving, HasByte, TypeOK, ReceiverOK, InterruptsOK, eMBRcvState,
       Receiver, Stored, Arrived

\* What a step of eMBPoll leaves alone.
LEMMA PollKeeps ==
    ASSUME LinkInv, EventPending,
           UNCHANGED <<rcvVars, timerVars, rdr, isrVars, masterVars, timeVars>>
    PROVE  /\ Receiver' /\ Timing' /\ Line'
           /\ ~HasByte' /\ ~Receiving' /\ eRcvState' = "RX_IDLE"
           /\ Stored' = Stored /\ Arrived' = Arrived
<1> USE DEF LinkInv, JobInv, rcvVars, timerVars, isrVars, masterVars, timeVars
<1>1. /\ ~HasByte' /\ ~Receiving' /\ eRcvState' = "RX_IDLE"
      /\ Stored' = Stored /\ Arrived' = Arrived
    BY AtWork DEF HasByte, Receiving, Stored, Arrived
<1>2. Receiver'
    BY Zenon DEF Receiver
<1>3. Timing'
  <2>1. MasterRate' = MasterRate
      BY DEF MasterRate
  <2>2. QED BY <1>1, <2>1, AtWork DEF Timing
<1>4. Line'
    BY Zenon DEF Line
<1>5. QED BY <1>1, <1>2, <1>3, <1>4

\* The slave is left at one job by a step of eMBPoll.
LEMMA PollLeavesOneJob ==
    ASSUME LinkInv, EventPending, ~Receiving', eRcvState' = "RX_IDLE", halted' = "no",
           main' = "poll", due' => poll' = "get",
           poll' = "clear" => xEventInQueue' = 1 /\ eEvent' = eQueuedEvent',
           poll' \notin {"get", "clear"} => xEventInQueue' = 0,
           txie' = 1 => poll' = "get" /\ xEventInQueue' = 0
    PROVE  OneJob'
BY DEF OneJob, EventPending

\* The event is read.
LEMMA GetEventStep ==
    ASSUME Timely, LinkInv, GetEvent, UNCHANGED <<masterVars, timeVars, history>>,
           main' = "poll", due' => poll' = "get"
    PROVE  JobInv'
<1> USE DEF LinkInv, JobInv
<1>1. /\ poll = "get" /\ xEventInQueue = 1 /\ EventPending
      /\ poll' = "clear" /\ eEvent' = eQueuedEvent
      /\ UNCHANGED <<rcvVars, ucRTUBuf, sndVars, timerVars, queueVars, usartVars, isrVars,
                     frameVars, halted>>
    BY DEF GetEvent, EventPending
<1>2. /\ Receiver' /\ Timing' /\ Line' /\ ~HasByte' /\ ~Receiving' /\ eRcvState' = "RX_IDLE"
      /\ Stored' = Stored /\ Arrived' = Arrived
    BY <1>1, PollKeeps DEF usartVars
<1>3. OneJob'
    BY <1>1, <1>2, AtWork, PollLeavesOneJob DEF queueVars, usartVars
<1>4. UNCHANGED <<ucRTUBuf, rdr, isr, ucByte, txie, last, delivered, current, at, executed,
                  ucRcvAddress, usLength>>
    BY <1>1 DEF usartVars, isrVars, masterVars, history, frameVars
<1>5. InFrame'
  <2>1. HasFrame' => HasFrame
      BY <1>1, <1>2 DEF HasFrame, FrameEvent, queueVars
  <2>2. QED BY <1>2, <1>4, <2>1, Zenon DEF InFrame, Genuine, IsExecuted
<1>6. Ready'
  <2>1. (ToExecute' => ToExecute) /\ (ToAnswer' => ToAnswer)
      BY <1>1, <1>4 DEF ToExecute, ToAnswer, queueVars
  <2>2. QED BY <1>4, <2>1, Zenon DEF Ready, IsExecuted
<1>7. Executions'
    BY <1>4, Zenon DEF Executions, ExecutesOnlyOurFrames
<1>8. QED BY <1>2, <1>3, <1>5, <1>6, <1>7

\* The queue is emptied and the event told to its case.
LEMMA ClearQueueStep ==
    ASSUME Timely, LinkInv, ClearQueue, UNCHANGED <<masterVars, timeVars, history>>,
           main' = "poll", due' => poll' = "get"
    PROVE  JobInv'
<1> USE DEF LinkInv, JobInv
<1>1. /\ poll = "clear" /\ EventPending
      /\ xEventInQueue = 1 /\ eEvent = eQueuedEvent /\ xEventInQueue' = 0
      /\ poll' = IF eQueuedEvent = "EV_FRAME_RECEIVED" THEN "receive"
                 ELSE IF eQueuedEvent = "EV_EXECUTE" THEN "execute" ELSE "get"
      /\ UNCHANGED <<rcvVars, ucRTUBuf, sndVars, timerVars, eQueuedEvent, usartVars, isrVars,
                     eEvent, frameVars, halted>>
    BY DEF ClearQueue, EventPending, OneJob
<1>2. /\ Receiver' /\ Timing' /\ Line' /\ ~HasByte' /\ ~Receiving' /\ eRcvState' = "RX_IDLE"
      /\ Stored' = Stored /\ Arrived' = Arrived
    BY <1>1, PollKeeps DEF usartVars
<1>3. OneJob'
    BY <1>1, <1>2, AtWork, PollLeavesOneJob DEF usartVars
<1>4. UNCHANGED <<ucRTUBuf, rdr, isr, ucByte, txie, last, delivered, current, at, executed,
                  ucRcvAddress, usLength>>
    BY <1>1 DEF usartVars, isrVars, masterVars, history, frameVars
<1>5. InFrame'
  <2>1. HasFrame' => HasFrame
      BY <1>1, <1>2 DEF HasFrame, FrameEvent
  <2>2. QED BY <1>2, <1>4, <2>1, Zenon DEF InFrame, Genuine, IsExecuted
<1>6. Ready'
  <2>1. (ToExecute' => ToExecute) /\ (ToAnswer' => ToAnswer)
      BY <1>1, <1>4 DEF ToExecute, ToAnswer
  <2>2. QED BY <1>4, <2>1, Zenon DEF Ready, IsExecuted
<1>7. Executions'
    BY <1>4, Zenon DEF Executions, ExecutesOnlyOurFrames
<1>8. QED BY <1>2, <1>3, <1>5, <1>6, <1>7

\* The first byte of a frame tells whom it is for.
LEMMA FrameIsFor ==
    ASSUME Timely, NEW f \in Frame
    PROVE  AddressOf(FrameBytes(f)[1]) = FrameAddress[f]
<1>1. f # 0 /\ 1 \in 1..(FrameLength[f] - 2)
    BY Lengths
<1> DEFINE b == [frame |-> f, at |-> 1]
<1>2. FrameBytes(f)[1] = b
    BY <1>1, FrameByte
<1>3. b.frame = f /\ b.at = 1 /\ "frame" \in DOMAIN b
    OBVIOUS
<1>4. b # OwnAddress
  <2>1. OwnAddress.frame = 0
      BY DEF OwnAddress
  <2>2. QED BY <1>1, <1>3, <2>1
<1> HIDE DEF b
<1>5. QED BY <1>2, <1>3, <1>4 DEF AddressOf

\* What eMBRTUReceive finds in the buffer.
LEMMA Received ==
    ASSUME Timely, LinkInv, poll = "receive"
    PROVE  /\ usRcvBufferPos < MB_SER_PDU_SIZE_MAX
           /\ last \in Frame /\ ~IsExecuted(last)
           /\ FrameOk => /\ last \in delivered
                         /\ usRcvBufferPos = FrameLength[last]
                         /\ AddressOf(ucRTUBuf[0]) = FrameAddress[last]
                         /\ \A i \in 1..(FrameLength[last] - 3) :
                              ucRTUBuf[i] = FrameBytes(last)[i + 1]
<1> DEFINE n == usRcvBufferPos
           s == Bytes(0, n)
<1>1. EventPending /\ HasFrame /\ Stored = n /\ Arrived = n
    BY AtWork DEF EventPending, HasFrame, FrameEvent
<1>2. /\ last \in Frame /\ ~IsExecuted(last) /\ n \in 1..FrameLength[last]
      /\ n = FrameLength[last] <=> last \in delivered
      /\ \A i \in 0..(n - 1) : Genuine(ucRTUBuf[i], i + 1)
    BY <1>1 DEF LinkInv, JobInv, InFrame
<1>3. n < MB_SER_PDU_SIZE_MAX /\ n \in Nat /\ FrameLength[last] \in Nat
      /\ FrameLength[last] >= 4 /\ MB_SER_PDU_SIZE_MAX \in Nat
    BY <1>2, Lengths, BufferSizes
<1>4. ASSUME FrameOk
      PROVE  /\ last \in delivered /\ n = FrameLength[last]
             /\ AddressOf(ucRTUBuf[0]) = FrameAddress[last]
             /\ \A i \in 1..(FrameLength[last] - 3) : ucRTUBuf[i] = FrameBytes(last)[i + 1]
  <2>1. n \in 4..FrameLength[last] /\ CrcOk(s)
      BY <1>2, <1>3, <1>4 DEF FrameOk, MB_SER_PDU_SIZE_MIN
  <2>2. Len(s) = n /\ \A i \in 1..n : s[i] = ucRTUBuf[i - 1]
      BY <1>3 DEF Bytes
  <2> HIDE DEF s
  <2>3. \A i \in 1..n : s[i] \in {ZeroByte, FrameBytes(last)[i]}
    <3> SUFFICES ASSUME NEW i \in 1..n PROVE s[i] \in {ZeroByte, FrameBytes(last)[i]}
        OBVIOUS
    <3>1. i - 1 \in 0..(n - 1) /\ (i - 1) + 1 = i
        BY <1>3
    <3>2. QED BY <1>2, <2>2, <3>1 DEF Genuine
  <2>4. n = FrameLength[last] /\ \A i \in 1..n : s[i] = FrameBytes(last)[i]
    <3> HIDE DEF n
    <3>1. last \in Frame /\ n \in 4..FrameLength[last] /\ Len(s) = n /\ CrcOk(s)
        BY <1>2, <2>1, <2>2
    <3>2. QED BY <2>3, <3>1, WholeFrame
  <2>5. ucRTUBuf[0] = FrameBytes(last)[1]
    <3>1. 1 \in 1..n /\ 1 - 1 = 0
        BY <1>3, <2>4
    <3>2. QED BY <2>2, <2>4, <3>1
  <2>6. \A i \in 1..(FrameLength[last] - 3) : ucRTUBuf[i] = FrameBytes(last)[i + 1]
    <3> SUFFICES ASSUME NEW i \in 1..(FrameLength[last] - 3)
                 PROVE  ucRTUBuf[i] = FrameBytes(last)[i + 1]
        OBVIOUS
    <3>1. i + 1 \in 1..n /\ (i + 1) - 1 = i
        BY <1>3, <2>4
    <3>2. QED BY <2>2, <2>4, <3>1
  <2>7. QED BY <1>2, <2>4, <2>5, <2>6, FrameIsFor
<1>5. QED BY <1>2, <1>3, <1>4

\* A frame is looked at: what is accepted is one the master has sent to the end.
LEMMA ReceiveStep ==
    ASSUME Timely, LinkInv, Receive, UNCHANGED <<masterVars, timeVars, history>>,
           main' = "poll", due' => poll' = "get"
    PROVE  JobInv'
<1> USE DEF LinkInv, JobInv
<1>1. poll = "receive" /\ EventPending /\ xEventInQueue = 0
    BY DEF Receive, EventPending, OneJob, TypeOK, InterruptsOK
<1>2. /\ poll' \in {"post", "get"}
      /\ poll' = "post" => /\ FrameOk /\ ForUs(AddressOf(ucRTUBuf[0]))
                           /\ ucRcvAddress' = AddressOf(ucRTUBuf[0])
                           /\ usLength' = usRcvBufferPos - 3
      /\ UNCHANGED <<rcvVars, ucRTUBuf, sndVars, timerVars, queueVars, usartVars, isrVars,
                     eEvent, request, halted>>
  <2>1. ~(usRcvBufferPos >= MB_SER_PDU_SIZE_MAX)
      BY <1>1, Received, BufferSizes
  <2>2. usRcvBufferPos - 1 - 2 = usRcvBufferPos - 3
      BY DEF TypeOK, ReceiverOK
  <2>3. QED BY <2>1, <2>2 DEF Receive, MB_SER_PDU_SIZE_CRC
<1>3. /\ Receiver' /\ Timing' /\ Line' /\ ~HasByte' /\ ~Receiving' /\ eRcvState' = "RX_IDLE"
    BY <1>1, <1>2, PollKeeps DEF usartVars
<1>4. OneJob'
    BY <1>1, <1>2, <1>3, AtWork, PollLeavesOneJob DEF usartVars, queueVars
<1>5. ~HasFrame'
    BY <1>1, <1>2, <1>3 DEF HasFrame, FrameEvent, queueVars
<1>6. Ready'
  <2>1. ~ToAnswer'
      BY <1>1, <1>2, AtWork DEF ToAnswer, usartVars
  <2>2. ASSUME ToExecute' PROVE poll' = "post"
      BY <1>1, <1>2, <2>2 DEF ToExecute, queueVars
  <2>3. ASSUME poll' = "post"
        PROVE  /\ last' \in delivered' /\ ~IsExecuted(last)'
               /\ ucRcvAddress' = FrameAddress[last'] /\ ucRcvAddress' # "other"
               /\ usLength' = FrameLength[last'] - 3
               /\ \A i \in 1..(FrameLength[last'] - 3) : ucRTUBuf'[i] = FrameBytes(last')[i + 1]
    <3>1. UNCHANGED <<last, delivered, executed, ucRTUBuf>>
        BY <1>2 DEF masterVars, history
    <3>2. /\ last \in delivered /\ ~IsExecuted(last)
          /\ ucRcvAddress' = FrameAddress[last] /\ ucRcvAddress' # "other"
          /\ usLength' = FrameLength[last] - 3
          /\ \A i \in 1..(FrameLength[last] - 3) : ucRTUBuf[i] = FrameBytes(last)[i + 1]
        BY <1>1, <1>2, <2>3, Received DEF ForUs
    <3>3. QED BY <3>1, <3>2, Zenon DEF IsExecuted
  <2>4. QED BY <2>1, <2>2, <2>3 DEF Ready
<1>7. Executions'
    BY DEF Executions, ExecutesOnlyOurFrames, masterVars, history
<1>8. QED BY <1>3, <1>4, <1>5, <1>6, <1>7 DEF InFrame

\* The request is handed to the next eMBPoll.
LEMMA PostExecuteStep ==
    ASSUME Timely, LinkInv, PostExecute, UNCHANGED <<masterVars, timeVars, history>>,
           main' = "poll", due' => poll' = "get"
    PROVE  JobInv'
<1> USE DEF LinkInv, JobInv
<1>1. /\ poll = "post" /\ EventPending /\ poll' = "get"
      /\ xEventInQueue' = 1 /\ eQueuedEvent' = "EV_EXECUTE"
      /\ UNCHANGED <<rcvVars, ucRTUBuf, sndVars, timerVars, usartVars, isrVars, eEvent,
                     frameVars, halted>>
    BY DEF PostExecute, EventPending, xMBPortEventPost, AfterPost
<1>2. /\ Receiver' /\ Timing' /\ Line' /\ ~HasByte' /\ ~Receiving' /\ eRcvState' = "RX_IDLE"
    BY <1>1, PollKeeps DEF usartVars
<1>3. txie' = 0
    BY <1>1, AtWork DEF usartVars
<1>4. OneJob'
    BY <1>1, <1>2, <1>3, AtWork, PollLeavesOneJob
<1>5. ~HasFrame'
    BY <1>1, <1>2 DEF HasFrame, FrameEvent
<1>6. UNCHANGED <<ucRTUBuf, last, delivered, executed, ucRcvAddress, usLength>>
    BY <1>1 DEF masterVars, history, frameVars
<1>7. Ready'
  <2>1. ToExecute /\ ~ToAnswer'
      BY <1>1, <1>3 DEF ToExecute, ToAnswer
  <2>2. QED BY <1>6, <2>1, Zenon DEF Ready, IsExecuted
<1>8. Executions'
    BY <1>6, Zenon DEF Executions, ExecutesOnlyOurFrames
<1>9. QED BY <1>2, <1>4, <1>5, <1>7, <1>8 DEF InFrame

\* The history of executions grows by one.
LEMMA ExecutionAdded ==
    ASSUME Executions, NEW f \in Frame, f \in delivered, FrameAddress[f] # "other",
           executed' = Append(executed, [pdu |-> FramePdu(f), to |-> FrameAddress[f]]),
           delivered' = delivered
    PROVE  /\ Executions'
           /\ Len(executed) \in Nat /\ Len(executed') = Len(executed) + 1
           /\ \A k \in 1..Len(executed) : executed'[k] = executed[k]
           /\ executed'[Len(executed')] = [pdu |-> FramePdu(f), to |-> FrameAddress[f]]
           /\ DOMAIN executed = 1..Len(executed) /\ DOMAIN executed' = 1..Len(executed')
<1> DEFINE S == [pdu : {FramePdu(g) : g \in Frame}, to : {"us", "broadcast"}]
           e == [pdu |-> FramePdu(f), to |-> FrameAddress[f]]
<1>1. FrameAddress[f] \in {"us", "broadcast"}
    BY FrameAssumption
<1>2. e \in S /\ e.pdu = FramePdu(f) /\ e.to = FrameAddress[f]
    BY <1>1
<1>3. executed \in Seq(S)
    BY DEF Executions
<1> HIDE DEF S, e
<1>4. executed' = Append(executed, e)
    BY DEF e
<1>5. /\ executed' \in Seq(S)
      /\ Len(executed) \in Nat /\ Len(executed') = Len(executed) + 1
      /\ \A k \in 1..Len(executed) : executed'[k] = executed[k]
      /\ executed'[Len(executed')] = e
      /\ DOMAIN executed = 1..Len(executed) /\ DOMAIN executed' = 1..Len(executed')
    BY <1>2, <1>3, <1>4
<1>6. ExecutesOnlyOurFrames'
  <2> SUFFICES ASSUME NEW k \in DOMAIN executed'
               PROVE  \E g \in delivered : /\ FrameAddress[g] = executed'[k].to
                                           /\ executed'[k].to \in {"us", "broadcast"}
                                           /\ executed'[k].pdu = FramePdu(g)
      BY DEF ExecutesOnlyOurFrames
  <2>1. CASE k \in 1..Len(executed)
      BY <1>5, <2>1 DEF Executions, ExecutesOnlyOurFrames
  <2>2. CASE k = Len(executed')
      BY <1>1, <1>2, <1>5, <2>2
  <2>3. QED BY <1>5, <2>1, <2>2
<1>7. QED BY <1>5, <1>6 DEF Executions, S, e

\* What the handler reads is the PDU of the frame begun last.
LEMMA Handled ==
    ASSUME Timely, LinkInv, RunHandler
    PROVE  /\ last \in Frame /\ last \in delivered /\ ~IsExecuted(last)
           /\ request' = FramePdu(last)
           /\ ucRcvAddress = FrameAddress[last] /\ ucRcvAddress # "other"
           /\ executed' = Append(executed, [pdu |-> FramePdu(last), to |-> FrameAddress[last]])
<1> USE DEF LinkInv, JobInv
<1>1. poll = "execute" /\ request' = Bytes(1, usLength)
      /\ executed' = Append(executed, [pdu |-> request', to |-> ucRcvAddress])
    BY DEF RunHandler, Execute
<1>2. /\ last \in delivered /\ ~IsExecuted(last)
      /\ ucRcvAddress = FrameAddress[last] /\ ucRcvAddress # "other"
      /\ usLength = FrameLength[last] - 3
      /\ \A i \in 1..usLength : ucRTUBuf[i] = FrameBytes(last)[i + 1]
    BY <1>1 DEF Ready, ToExecute
<1>3. last \in Frame /\ last # 0
    BY <1>2, FrameAssumption DEF Line
<1>4. request' = FramePdu(last)
  <2>1. usLength \in Nat
      BY DEF TypeOK, PollOK
  <2>2. Bytes(1, usLength) = [i \in 1..usLength |-> ucRTUBuf[i]]
      BY <2>1 DEF Bytes
  <2>3. FramePdu(last) = [i \in 1..usLength |-> FrameBytes(last)[i + 1]]
    <3>1. FramePdu(last) = [i \in 1..(FrameLength[last] - 3) |-> FrameBytes(last)[i + 1]]
        BY <1>3, PduByte
    <3>2. QED BY <1>2, <3>1, Zenon
  <2> HIDE DEF FramePdu, FrameBytes
  <2>4. [i \in 1..usLength |-> ucRTUBuf[i]] = [i \in 1..usLength |-> FrameBytes(last)[i + 1]]
      BY <1>2
  <2>5. QED BY <1>1, <2>2, <2>3, <2>4
<1>5. QED BY <1>1, <1>2, <1>3, <1>4

\* The handler runs.
LEMMA ExecuteStep ==
    ASSUME Timely, LinkInv, RunHandler, main' = "poll", due' => poll' = "get"
    PROVE  JobInv'
<1> USE DEF LinkInv, JobInv
<1>1. /\ poll = "execute" /\ EventPending /\ xEventInQueue = 0 /\ poll' = "reply"
      /\ UNCHANGED <<rcvVars, ucRTUBuf, sndVars, timerVars, queueVars, usartVars, isrVars,
                     eEvent, ucRcvAddress, usLength, halted, masterVars, timeVars, replies>>
    BY DEF RunHandler, Execute, EventPending, OneJob, TypeOK, InterruptsOK
<1>2. /\ Receiver' /\ Timing' /\ Line' /\ ~HasByte' /\ ~Receiving' /\ eRcvState' = "RX_IDLE"
    BY <1>1, PollKeeps DEF usartVars
<1>3. txie' = 0 /\ xEventInQueue' = 0
    BY <1>1, AtWork DEF usartVars, queueVars
<1>4. OneJob'
    BY <1>1, <1>2, <1>3, AtWork, PollLeavesOneJob
<1>5. ~HasFrame' /\ ~ToExecute'
    BY <1>1, <1>2, <1>3 DEF HasFrame, FrameEvent, ToExecute
<1>6. Ready'
    BY <1>1, <1>5, Handled DEF Ready, masterVars
<1>7. Executions'
  <2>1. delivered' = delivered
      BY <1>1 DEF masterVars
  <2>2. QED BY <2>1, Handled, ExecutionAdded
<1>8. QED BY <1>2, <1>4, <1>5, <1>6, <1>7 DEF InFrame

\* The answer replaces the request in the buffer.
LEMMA BuildReplyStep ==
    ASSUME Timely, LinkInv, BuildReply, UNCHANGED <<masterVars, timeVars, history>>,
           main' = "poll", due' => poll' = "get"
    PROVE  JobInv'
<1> USE DEF LinkInv, JobInv
<1>1. /\ poll = "reply" /\ EventPending /\ xEventInQueue = 0
      /\ poll' \in {"send", "get"}
      /\ UNCHANGED <<rcvVars, sndVars, timerVars, queueVars, usartVars, isrVars, eEvent, halted>>
    BY DEF BuildReply, EventPending, OneJob, TypeOK, InterruptsOK
<1>2. /\ Receiver' /\ Timing' /\ Line' /\ ~HasByte' /\ ~Receiving' /\ eRcvState' = "RX_IDLE"
    BY <1>1, PollKeeps DEF usartVars
<1>3. txie' = 0 /\ xEventInQueue' = 0
    BY <1>1, AtWork DEF usartVars, queueVars
<1>4. OneJob'
    BY <1>1, <1>2, <1>3, AtWork, PollLeavesOneJob
<1>5. ~HasFrame' /\ ~ToExecute'
    BY <1>1, <1>2, <1>3 DEF HasFrame, FrameEvent, ToExecute
<1>6. Ready'
    BY <1>1, <1>5 DEF Ready, ToAnswer, masterVars
<1>7. Executions'
    BY DEF Executions, ExecutesOnlyOurFrames, masterVars, history
<1>8. QED BY <1>2, <1>4, <1>5, <1>6, <1>7 DEF InFrame

\* The answer goes out, the receiver being idle.
LEMMA SendStep ==
    ASSUME Timely, LinkInv, SendReply, main' = "poll", due' => poll' = "get"
    PROVE  JobInv'
<1> USE DEF LinkInv, JobInv
<1>1. /\ poll = "send" /\ EventPending /\ xEventInQueue = 0 /\ poll' = "get"
      /\ UNCHANGED <<rcvVars, timerVars, queueVars, rdr, isrVars, eEvent, frameVars, halted>>
      /\ UNCHANGED <<masterVars, timeVars, executed>>
    BY DEF SendReply, Send, EventPending, OneJob, TypeOK, InterruptsOK
<1>2. /\ Receiver' /\ Timing' /\ Line' /\ ~HasByte' /\ ~Receiving' /\ eRcvState' = "RX_IDLE"
    BY <1>1, PollKeeps
<1>3. xEventInQueue' = 0
    BY <1>1 DEF queueVars
<1>4. OneJob'
    BY <1>1, <1>2, <1>3, AtWork, PollLeavesOneJob
<1>5. ~HasFrame' /\ ~ToExecute'
    BY <1>1, <1>2, <1>3 DEF HasFrame, FrameEvent, ToExecute
<1>6. Ready'
    BY <1>1, <1>5 DEF Ready, ToAnswer, masterVars
<1>7. Executions'
    BY <1>1 DEF Executions, ExecutesOnlyOurFrames, masterVars
<1>8. QED BY <1>2, <1>4, <1>5, <1>6, <1>7 DEF InFrame

(* ------------------------------ the whole ----------------------------------------------- *)

\* The modules run while nothing is received.
LEMMA ModulesLeaveLine ==
    ASSUME LinkInv, ModulesStep
    PROVE  JobInv'
<1> USE DEF LinkInv, JobInv
<1>1. /\ due \/ main # "poll"
      /\ UNCHANGED <<vars, masterVars, timeVars, history>>
    BY DEF ModulesStep, UsartPass, FlashPass, Settings!_polling_flash_data, Settings!ErasePage,
           Settings!ProgramHalfWord, linkVars
<1>2. UNCHANGED <<rcvVars, ucRTUBuf, timerVars, queueVars, usartVars, isrVars, poll, eEvent,
                  ucRcvAddress, usLength, halted, begun, delivered, last, current, at, quiet,
                  lag, executed>>
    BY <1>1 DEF vars, mainVars, masterVars, timeVars, history
<1>3. ~Receiving /\ Receiving' = Receiving /\ HasByte' = HasByte /\ EventPending' = EventPending
    BY <1>1, <1>2, Zenon DEF OneJob, Receiving, HasByte, EventPending, rcvVars, isrVars, usartVars,
                             queueVars
<1>4. poll = "get"
    BY <1>1 DEF OneJob
<1>5. OneJob'
    BY <1>2, <1>3, <1>4 DEF OneJob, rcvVars, usartVars, queueVars
<1>6. Receiver'
    BY <1>2, Zenon DEF Receiver, rcvVars, timerVars, isrVars, usartVars
<1>7. Timing'
    BY <1>2, <1>3, Zenon DEF Timing, timerVars, rcvVars, MasterRate
<1>8. Line'
    BY <1>2, Zenon DEF Line
<1>9. InFrame' /\ Ready' /\ Executions'
    BY <1>2, BytesKept DEF usartVars
<1>10. QED BY <1>5, <1>6, <1>7, <1>8, <1>9

\* What eMBPoll does to the modules: they are due when it returns, and only then.
LEMMA StackLeavesMain ==
    ASSUME StackStep
    PROVE  main = "poll" /\ main' = "poll" /\ (due' => poll' = "get")
<1>1. main = "poll" /\ (due' => poll' = "get") /\ (UNCHANGED settingVars \/ Settings!Request)
    BY DEF StackStep, Writes
<1>2. main' = main
    BY <1>1 DEF settingVars, Settings!Request
<1>3. QED BY <1>1, <1>2

\* Every step keeps the invariant.
LEMMA JobStep ==
    ASSUME Timely, LinkInv, [RestingNext]_remoteVars
    PROVE  JobInv'
<1>1. CASE MasterStep
  <2>1. UNCHANGED <<settingVars, due>> /\ (current = 0 => ~due /\ main = "poll")
      BY <1>1 DEF MasterStep, Timely
  <2>2. CASE \E f \in Frame : BeginFrame(f, uart = MasterRate)
      BY <2>1, <2>2, BeginStep DEF BeginFrame
  <2>3. CASE ContinueFrame(CharTicks[MasterRate], uart = MasterRate)
      BY <2>1, <2>3, ContinueStep
  <2>4. CASE BreakFrame
      BY <2>1, <2>4, BreakStep
  <2>5. QED BY <1>1, <2>2, <2>3, <2>4 DEF MasterStep, Master
<1>2. CASE Interrupt
  <2>1. UNCHANGED <<settingVars, due>>
      BY <1>2 DEF Interrupt
  <2>2. CASE Tick
      BY <2>1, <2>2, TickStep
  <2>3. CASE Tim2
      BY <2>1, <2>3, Tim2Step
  <2>4. CASE ReceiveIsr
    <3>1. UNCHANGED <<masterVars, quiet, history>> /\ lag' = IF isr' = "none" THEN 0 ELSE lag
        BY <2>4 DEF ReceiveIsr
    <3>2. CASE ReceiveByte
      <4>1. HasByte
          BY <3>2 DEF ReceiveByte, HasByte
      <4>2. isr' = "store"
          BY <3>2, <4>1, ByteInHand DEF ReceiveByte
      <4>3. QED BY <2>1, <3>1, <3>2, <4>2, ReceiveByteStep
    <3>3. CASE StoreByte
      <4>1. isr' = "arm"
          BY <3>3 DEF StoreByte
      <4>2. QED BY <2>1, <3>1, <3>3, <4>1, StoreByteStep
    <3>4. CASE RestartTimer
      <4>1. isr' = "none"
          BY <3>4 DEF RestartTimer
      <4>2. QED BY <2>1, <3>1, <3>4, <4>1, RestartTimerStep
    <3>5. QED BY <2>4, <3>2, <3>3, <3>4 DEF ReceiveIsr
  <2>5. CASE Transmit
      BY <2>1, <2>5, TransmitStep
  <2>6. QED BY <1>2, <2>2, <2>3, <2>4, <2>5 DEF Interrupt
<1>3. CASE StallTick
    BY <1>3, StallStep
<1>4. CASE StackStep
  <2>1. main' = "poll" /\ (due' => poll' = "get")
      BY <1>4, StackLeavesMain
  <2>2. CASE RunHandler
      BY <2>1, <2>2, ExecuteStep
  <2>3. CASE SendReply
      BY <2>1, <2>3, SendStep
  <2>4. CASE OtherPoll
    <3>1. UNCHANGED <<masterVars, timeVars, history>>
        BY <2>4 DEF OtherPoll
    <3>2. QED BY <2>1, <2>4, <3>1, GetEventStep, ClearQueueStep, ReceiveStep, PostExecuteStep,
                 BuildReplyStep DEF OtherPoll
  <2>5. QED BY <1>4, <2>2, <2>3, <2>4 DEF StackStep
<1>5. CASE ModulesStep
    BY <1>5, ModulesLeaveLine
<1>6. CASE UNCHANGED remoteVars
  <2>1. UNCHANGED <<rcvVars, ucRTUBuf, timerVars, queueVars, usartVars, isrVars, poll, eEvent,
                    ucRcvAddress, usLength, halted, begun, delivered, last, current, at, quiet,
                    lag, executed, main, due>>
      BY <1>6 DEF remoteVars, linkVars, vars, mainVars, masterVars, timeVars, history, settingVars
  <2>2. OneJob' /\ Receiver' /\ Line'
      BY <2>1, Zenon DEF LinkInv, JobInv, OneJob, Receiver, Line, EventPending, Receiving, HasByte,
                         rcvVars, queueVars, usartVars, isrVars, timerVars
  <2>3. Timing'
      BY <2>1, Zenon DEF LinkInv, JobInv, Timing, MasterRate, Receiving, HasByte, rcvVars,
                         usartVars, isrVars, timerVars
  <2>4. InFrame' /\ Ready' /\ Executions'
      BY <2>1, BytesKept DEF LinkInv, JobInv, usartVars
  <2>5. QED BY <2>2, <2>3, <2>4 DEF JobInv
<1>7. QED BY <1>1, <1>2, <1>3, <1>4, <1>5, <1>6 DEF RestingNext

\* It holds at the start: a silent bus is waited for, t3.5 running.
LEMMA JobInit ==
    ASSUME Timely, RemoteInit
    PROVE  JobInv
<1>1. Init /\ LinkInit /\ Settings!Init /\ due = TRUE
    BY DEF RemoteInit, LinkInit
<1>2. main = "poll"
    BY <1>1 DEF Settings!Init
<1>3. /\ eRcvState = "RX_INIT" /\ uie = 1 /\ uif \in {0, 1} /\ downcounter = Timeout
      /\ isr = "none" /\ rdr = <<>> /\ xEventInQueue = 0 /\ poll = "get" /\ txie = 0
      /\ halted = "no" /\ eQueuedEvent = "EV_READY"
    BY <1>1 DEF Init, StartState
<1>4. current = 0 /\ begun = {} /\ delivered = {} /\ last = 0 /\ quiet = 0 /\ lag = 0
      /\ executed = <<>>
    BY <1>1 DEF LinkInit
<1>5. ~HasByte /\ ~Receiving /\ ~HasFrame /\ ~ToExecute /\ ~ToAnswer /\ ~EventPending
    BY <1>3 DEF HasByte, Receiving, HasFrame, FrameEvent, ToExecute, ToAnswer, EventPending
<1>6. OneJob /\ Receiver /\ Line
    BY <1>2, <1>3, <1>4, <1>5 DEF OneJob, Receiver, Line
<1>7. Timing
  <2>1. 0 \in 0..MaxLag /\ 0 \in 0..MinSilence
      BY Rates
  <2>2. QED BY <1>3, <1>4, <1>5, <2>1 DEF Timing
<1>8. InFrame /\ Ready
    BY <1>5 DEF InFrame, Ready
<1>9. Executions
    BY <1>4 DEF Executions, ExecutesOnlyOurFrames
<1>10. QED BY <1>6, <1>7, <1>8, <1>9 DEF JobInv

\* With a master that keeps the rules the invariant holds all the time.
LEMMA LinkInvariant == Timely /\ RemoteSpec => []LinkInv
<1> SUFFICES ASSUME Timely PROVE RemoteSpec => []LinkInv
    OBVIOUS
<1>1. RemoteInit => JobInv
    BY JobInit
<1>2. TypeOK /\ HalfDuplex /\ JobInv /\ [RestingNext]_remoteVars => JobInv'
    BY JobStep DEF LinkInv
<1>3. QED BY <1>1, <1>2, RemoteTypeCorrect, RemoteHalfDuplex, NoIdlePoll, PTL DEF RemoteSpec, LinkInv

(* ------------------------------ the theorems --------------------------------------------- *)

\* With a master that keeps the rules, and interrupts in time for it, no assert of mbrtu.c
\* fails, whatever the master sends and at whatever rate it is told to (mbrtu.c:157, 231,
\* 290, 347).
THEOREM RemoteNoAssertFails == Timely /\ RemoteSpec => []NoAssertFails
<1>1. LinkInv => NoAssertFails
    BY DEF LinkInv, JobInv, OneJob, NoAssertFails
<1>2. QED BY <1>1, LinkInvariant, PTL

\* A handler runs only on the whole, undisturbed PDU of a frame for this slave that the
\* master has sent to the end: a frame broken off, received at the wrong rate or followed by
\* another one is not executed (mb.c:365).
THEOREM RemoteExecutesOnlyOurFrames == Timely /\ RemoteSpec => []ExecutesOnlyOurFrames
<1>1. LinkInv => ExecutesOnlyOurFrames
    BY DEF LinkInv, JobInv, Executions
<1>2. QED BY <1>1, LinkInvariant, PTL

\* t3.5 never ends the frame being received while the master is still sending it, at either
\* rate, with the lag of usart1_isr and the standing CPU counted in (mbrtu.c:96-97).
THEOREM RemoteT35OnlyInSilence == Timely /\ RemoteSpec => T35OnlyInSilence
<1> SUFFICES ASSUME Timely PROVE RemoteSpec => T35OnlyInSilence
    OBVIOUS
<1> DEFINE A == eRcvState = "RX_RCV" /\ eRcvState' = "RX_IDLE" => ~Sending
<1>1. LinkInv /\ [RestingNext]_remoteVars => [A]_remoteVars
  <2> SUFFICES ASSUME LinkInv, RestingNext, eRcvState = "RX_RCV", eRcvState' = "RX_IDLE"
               PROVE  ~Sending
      OBVIOUS
  <2>1. eRcvState' # eRcvState
      OBVIOUS
  <2>2. CASE Tim2
    <3>1. Tim2Isr
        BY <2>2 DEF Tim2
    <3>2. (downcounter - 1) % 65536 = 0
        BY <2>1, <3>1 DEF Tim2Isr, rcvVars
    <3>3. quiet >= CharTicks[MasterRate] + MaxGap
        BY <3>1, <3>2, Expiry, Rates
    <3>4. quiet \in Nat /\ CharTicks[MasterRate] \in Nat /\ MaxGap \in Nat
        BY Rates DEF LinkInv, JobInv, Timing
    <3>5. QED BY <3>3, <3>4 DEF Sending
  <2>3. CASE Interrupt /\ ~Tim2
    <3>1. CASE Tick \/ Transmit
      <4>1. UNCHANGED rcvVars
          BY <3>1 DEF Tick, Tim2Update, Transmit, TransmitByte, Fail
      <4>2. QED BY <2>1, <4>1 DEF rcvVars
    <3>2. CASE ReceiveIsr
      <4>1. UNCHANGED rcvVars \/ eRcvState' # "RX_IDLE"
          BY <3>2 DEF ReceiveIsr, ReceiveByte, StoreByte, RestartTimer, Fail, rcvVars
      <4>2. QED BY <2>1, <4>1 DEF rcvVars
    <3>3. QED BY <2>3, <3>1, <3>2 DEF Interrupt
  <2>4. CASE MasterStep
    <3>1. UNCHANGED rcvVars
        BY <2>4 DEF MasterStep, Master, BeginFrame, ContinueFrame, BreakFrame, PutByte, UartReceive,
                    vars
    <3>2. QED BY <2>1, <3>1 DEF rcvVars
  <2>5. CASE StallTick \/ ModulesStep
    <3>1. UNCHANGED rcvVars
        BY <2>5 DEF StallTick, ModulesStep, linkVars, vars
    <3>2. QED BY <2>1, <3>1 DEF rcvVars
  <2>6. CASE StackStep
    <3>1. UNCHANGED rcvVars
        BY <2>6 DEF StackStep, RunHandler, SendReply, OtherPoll, GetEvent, ClearQueue, Receive,
                    PostExecute, Execute, BuildReply, Send, Fail
    <3>2. QED BY <2>1, <3>1 DEF rcvVars
  <2>7. QED BY <2>2, <2>3, <2>4, <2>5, <2>6 DEF RestingNext, Interrupt
<1>2. QED BY <1>1, LinkInvariant, NoIdlePoll, PTL DEF RemoteSpec, T35OnlyInSilence

\* The bytes of a reply stay as they are until the last one is out: with the receiver off and
\* eMBPoll idle nothing writes the one buffer they share with the requests.
THEOREM RemoteBufferStable == Timely /\ RemoteSpec => BufferStableWhileSending
<1> SUFFICES ASSUME Timely PROVE RemoteSpec => BufferStableWhileSending
    OBVIOUS
<1> DEFINE A == eSndState = "TX_XMIT" => ucRTUBuf' = ucRTUBuf
<1>1. LinkInv /\ [RestingNext]_remoteVars => [A]_linkVars
  <2> SUFFICES ASSUME LinkInv, [RestingNext]_remoteVars, eSndState = "TX_XMIT"
               PROVE  ucRTUBuf' = ucRTUBuf
      OBVIOUS
  <2>1. txie = 1 /\ poll = "get" /\ isr = "none"
      BY DEF LinkInv, JobInv, OneJob, EventPending, HalfDuplex
  <2>2. CASE Interrupt
    <3>1. CASE Tick \/ Tim2
        BY <3>1 DEF Tick, Tim2Update, Tim2, Tim2Isr, T35Expired, Fail
    <3>2. CASE ReceiveIsr \/ Transmit
        BY <2>1, <3>2 DEF ReceiveIsr, ReceiveByte, StoreByte, RestartTimer, Transmit, TransmitByte,
                          Fail
    <3>3. QED BY <2>2, <3>1, <3>2 DEF Interrupt
  <2>3. CASE MasterStep
      BY <2>3 DEF MasterStep, Master, BeginFrame, ContinueFrame, BreakFrame, PutByte, UartReceive,
                  vars
  <2>4. CASE StallTick \/ ModulesStep \/ UNCHANGED remoteVars
      BY <2>4 DEF StallTick, ModulesStep, remoteVars, linkVars, vars
  <2>5. CASE StackStep
      BY <2>1, <2>5 DEF StackStep, RunHandler, SendReply, OtherPoll, GetEvent, ClearQueue, Receive,
                        PostExecute, Execute, BuildReply, Send
  <2>6. QED BY <2>2, <2>3, <2>4, <2>5 DEF RestingNext
<1>2. QED BY <1>1, LinkInvariant, NoIdlePoll, PTL DEF RemoteSpec, BufferStableWhileSending
==============================================================================
