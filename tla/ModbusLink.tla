------------------------------ MODULE ModbusLink ------------------------------
(* The slave of ModbusRTU on a bus with a master: the master sends each frame   *)
(* of Frame at most once, in any order, and may break one off; time is counted  *)
(* in ticks of TIM2.  The constants say how the master keeps the timing of      *)
(* Modbus RTU and how late usart1_isr may be.                                    *)
EXTENDS ModbusRTU, FiniteSets, SequencesExt

CONSTANTS
    MaxGap,      \* ticks a byte of a frame may follow the one before it late, + 1
    MinSilence,  \* ticks of silence it leaves between two frames
    MaxLag,      \* ticks a received byte may wait until usart1_isr is done with it
    Patience     \* "all", "ours", "none": after which frames it waits for the slave

ASSUME LinkAssumption ==
    /\ IsFiniteSet(Frame)
    /\ ZeroByte \in Byte
    /\ \A f \in Frame : /\ FrameLength[f] > 0
                         /\ \A i \in 1..FrameLength[f] : FrameBytes(f)[i] \in Byte

VARIABLES
    current, at,   \* the frame on the line (0: none) and the bytes of it sent
    begun,         \* frames the master has begun
    delivered,     \* frames it has sent to the end
    last,          \* the frame begun last (0: none)
    quiet,         \* ticks since the last byte on the line, at most MinSilence
    lag,           \* ticks the received byte has been waiting
    executed,      \* the requests handlers ran on, with the address used
    replies        \* what the slave transmitted, one sequence per Send

masterVars == <<current, at, begun, delivered, last>>
timeVars   == <<quiet, lag>>
history    == <<executed, replies>>
linkVars   == <<vars, masterVars, timeVars, history>>

LinkInit ==
    /\ Init
    /\ current = 0 /\ at = 0 /\ begun = {} /\ delivered = {} /\ last = 0
    /\ quiet = 0 /\ lag = 0
    /\ executed = <<>> /\ replies = <<>>

(* ------------------------------ the master ------------------------------------ *)

\* The slave has nothing left to do for what it received.
SlaveIdle ==
    /\ poll = "get" /\ xEventInQueue = 0 /\ uie = 0
    /\ isr = "none" /\ rdr = <<>> /\ txie = 0

\* The response timeout (turnaround delay after a broadcast) exceeds the time the
\* slave needs, for a master that waits at all.
Waits == CASE Patience = "all"  -> TRUE
           [] Patience = "ours" -> last \in delivered /\ FrameAddress[last] # "other"
           [] Patience = "none" -> FALSE

\* A received byte has not been dealt with.
ByteWaiting == isr # "none" \/ (rxie = 1 /\ rdr # <<>>)

\* Byte i of frame f, which the USART takes for another one when it does not run at
\* the rate of the master.
PutByte(f, i, clear) ==
    /\ UartReceive(IF clear THEN FrameBytes(f)[i] ELSE ZeroByte)
    /\ quiet' = 0
    /\ UNCHANGED <<lag, history>>
    /\ IF i = FrameLength[f]
       THEN /\ current' = 0 /\ at' = 0
            /\ delivered' = delivered \cup {f}
       ELSE /\ current' = f /\ at' = i
            /\ UNCHANGED delivered

BeginFrame(f, clear) ==
    /\ current = 0 /\ quiet >= MinSilence /\ f \notin begun
    /\ Waits => SlaveIdle
    /\ begun' = begun \cup {f} /\ last' = f
    /\ PutByte(f, 1, clear)

\* A character takes at least a tick (87 against 60 us at 115200 baud), and usart1_isr
\* is done with one before the next is complete.
ContinueFrame(charTicks, clear) ==
    /\ current # 0 /\ quiet \in charTicks..(charTicks + MaxGap - 1) /\ ~ByteWaiting
    /\ UNCHANGED <<begun, last>>
    /\ PutByte(current, at + 1, clear)

\* The master stops in the middle of a frame (or the rest of it is lost).
BreakFrame ==
    /\ halted = "no" /\ current # 0
    /\ current' = 0 /\ at' = 0
    /\ UNCHANGED <<vars, begun, delivered, last, timeVars, history>>

Master(charTicks, clear) ==
    (\E f \in Frame : BeginFrame(f, clear)) \/ ContinueFrame(charTicks, clear) \/ BreakFrame

(* ------------------------------ time and the slave ----------------------------- *)

Tick ==
    /\ Tim2Update
    /\ quiet' = IF quiet < MinSilence THEN quiet + 1 ELSE quiet
    /\ IF ByteWaiting THEN lag < MaxLag /\ lag' = lag + 1 ELSE lag' = 0
    /\ UNCHANGED <<masterVars, history>>

Transmit ==
    /\ TransmitByte
    /\ IF usSndBufferCount # 0
       THEN /\ quiet' = 0
            /\ replies' = [replies EXCEPT ![Len(replies)] =
                             Append(@, ucRTUBuf[pucSndBufferCur])]
       ELSE UNCHANGED <<quiet, replies>>
    /\ UNCHANGED <<masterVars, lag, executed>>

ReceiveIsr ==
    /\ ReceiveByte \/ StoreByte \/ RestartTimer
    /\ lag' = IF isr' = "none" THEN 0 ELSE lag
    /\ UNCHANGED <<masterVars, quiet, history>>

RunHandler ==
    /\ Execute
    /\ executed' = Append(executed, [pdu |-> request', to |-> ucRcvAddress])
    /\ UNCHANGED <<masterVars, timeVars, replies>>

SendReply ==
    /\ Send
    /\ replies' = IF eSndState' = "TX_XMIT" THEN Append(replies, <<>>) ELSE replies
    /\ UNCHANGED <<masterVars, timeVars, executed>>

OtherPoll ==
    /\ GetEvent \/ ClearQueue \/ Receive \/ PostExecute \/ BuildReply
    /\ UNCHANGED <<masterVars, timeVars, history>>

Poll == OtherPoll \/ RunHandler \/ SendReply
Tim2 == Tim2Isr /\ UNCHANGED <<masterVars, timeVars, history>>

LinkNext == Master(1, TRUE) \/ Tick \/ Tim2 \/ ReceiveIsr \/ Transmit \/ Poll

LinkSpec == LinkInit /\ [][LinkNext]_linkVars

(* ------------------------------ properties ------------------------------------- *)

\* No assert of mbrtu.c fails.
NoAssertFails == halted = "no"

\* A handler runs only on the whole, undisturbed PDU of a frame addressed to this
\* slave (or broadcast) that the master has sent to the end (mb.c:365).
ExecutesOnlyOurFrames ==
    \A k \in DOMAIN executed :
      \E f \in delivered : /\ FrameAddress[f] = executed[k].to
                           /\ executed[k].to \in {"us", "broadcast"}
                           /\ executed[k].pdu = FramePdu(f)

\* A request is consumed with its event: no frame is executed twice, and there are
\* no more executions than frames for this slave.
ExecutesOnce ==
    /\ \A j, k \in DOMAIN executed : executed[j].pdu = executed[k].pdu => j = k
    /\ Len(executed) <= Cardinality({f \in delivered : FrameAddress[f] # "other"})

\* The whole reply to a request PDU, its answer n bytes long.
Reply(pdu, n) ==
    LET s == <<OwnAddress>> \o [i \in 1..n |-> AnswerByte(pdu, i)] IN s \o Crc(s)

\* The j-th request executed is the k-th of those for this slave alone.
Unicast(j, k) ==
    /\ executed[j].to # "broadcast"
    /\ Cardinality({i \in 1..j : executed[i].to # "broadcast"}) = k

\* The k-th transmission is, as far as it has got, the reply to the k-th request
\* executed for this slave alone: never to a broadcast, never mixed with a later
\* frame that came into the same buffer, never two for one request.
RepliesMatch ==
    \A k \in DOMAIN replies :
      \E j \in DOMAIN executed, n \in ReplyLength :
        Unicast(j, k) /\ IsPrefix(replies[k], Reply(executed[j].pdu, n))

\* The bytes being transmitted are not touched until the last one is out.
BufferStableWhileSending ==
    [][eSndState = "TX_XMIT" => ucRTUBuf' = ucRTUBuf]_linkVars

\* What the master sees is the abstract service of RequestService: a frame for the
\* slave is executed, once, before the next one, and answered unless broadcast.
IsExecuted(f)    == \E k \in DOMAIN executed : executed[k].pdu = FramePdu(f)
IsAnswered(f)    == \E k \in DOMAIN replies, n \in ReplyLength \ {0} :
                       Len(replies[k]) = n + 3 /\ replies[k] = Reply(FramePdu(f), n)
Outstanding(f)   == FrameAddress[f] # "other" /\ f \in delivered /\ ~IsExecuted(f)
Unanswered(f)    == FrameAddress[f] = "us" /\ IsExecuted(f) /\ ~IsAnswered(f)

Service == INSTANCE RequestService WITH
    requested <- {f \in Frame : Outstanding(f)},
    answering <- {f \in Frame : Unanswered(f)},
    done      <- {f \in Frame : IsExecuted(f) /\ ~Unanswered(f)}

ImplementsService == Service!Spec

\* A frame addressed to another slave is ignored (mb.c:365): no handler ever reads
\* a byte of one.
IgnoresForeignFrames ==
    \A k \in DOMAIN executed, i \in 1..MB_SER_PDU_SIZE_MAX :
      i \in DOMAIN executed[k].pdu =>
        \A f \in Frame : FrameAddress[f] = "other" =>
                           executed[k].pdu[i] \notin ToSet(FramePdu(f))

\* Sending is given up when the master has sent another frame meanwhile
\* (mbrtu.c:194): what is answered is the frame the master began last.
AbortsWhenTooSlow ==
    [][eSndState = "TX_IDLE" /\ eSndState' = "TX_XMIT" => request = FramePdu(last)]_linkVars

\* The two asserts about lengths and states of mbrtu.c that a frame can reach.
ReceiveAssertHolds == halted # "mbrtu.c:157"
TimerAssertHolds   == halted # "mbrtu.c:347"
===============================================================================
