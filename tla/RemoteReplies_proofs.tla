------------------------- MODULE RemoteReplies_proofs -------------------------
(* What the firmware executed and transmitted, under a master that keeps the rules:  *)
(* the histories of ModbusLink against the invariant of RemoteLink_proofs.           *)
EXTENDS RemoteLink_proofs

(* ------------------------------ requests executed ---------------------------------- *)

\* The frames whose requests have been executed.
ExecutedFrames == {f \in Frame : IsExecuted(f)}

\* Each execution is of a frame of its own.
Once ==
    /\ \A j, k \in DOMAIN executed : executed[j].pdu = executed[k].pdu => j = k
    /\ Len(executed) = Cardinality(ExecutedFrames)

\* Executions are added by the handler, and by nothing else.
LEMMA OnlyHandlersExecute ==
    ASSUME [RestingNext]_remoteVars
    PROVE  RunHandler \/ UNCHANGED executed
<1>1. CASE MasterStep
    BY <1>1 DEF MasterStep, Master, BeginFrame, ContinueFrame, BreakFrame, PutByte, history
<1>2. CASE Interrupt
    BY <1>2 DEF Interrupt, Tick, Tim2, ReceiveIsr, Transmit, history
<1>3. CASE StallTick \/ ModulesStep \/ UNCHANGED remoteVars
    BY <1>3 DEF StallTick, ModulesStep, remoteVars, linkVars, history
<1>4. CASE StackStep
    BY <1>4 DEF StackStep, OtherPoll, SendReply, history
<1>5. QED BY <1>1, <1>2, <1>3, <1>4 DEF RestingNext

\* The handler adds the frame begun last to those executed.
LEMMA HandlerExecutes ==
    ASSUME Timely, LinkInv, RunHandler
    PROVE  /\ ExecutedFrames' = ExecutedFrames \cup {last}
           /\ last \notin ExecutedFrames
           /\ Len(executed) \in Nat /\ Len(executed') = Len(executed) + 1
           /\ \A k \in 1..Len(executed) : executed'[k] = executed[k]
           /\ executed'[Len(executed')] = [pdu |-> FramePdu(last), to |-> FrameAddress[last]]
           /\ DOMAIN executed = 1..Len(executed) /\ DOMAIN executed' = 1..Len(executed')
<1> DEFINE e == [pdu |-> FramePdu(last), to |-> FrameAddress[last]]
           n == Len(executed)
<1>1. /\ last \in Frame /\ last \in delivered /\ ~IsExecuted(last)
      /\ FrameAddress[last] # "other" /\ executed' = Append(executed, e)
    BY Handled
<1>2. delivered' = delivered
    BY DEF RunHandler, masterVars
<1>3. /\ n \in Nat /\ Len(executed') = n + 1
      /\ \A k \in 1..n : executed'[k] = executed[k]
      /\ executed'[Len(executed')] = e
      /\ DOMAIN executed = 1..n /\ DOMAIN executed' = 1..Len(executed')
    BY <1>1, <1>2, ExecutionAdded DEF LinkInv, JobInv
<1>4. e.pdu = FramePdu(last)
    OBVIOUS
<1> HIDE DEF e, n
<1>5. ASSUME NEW f \in Frame PROVE IsExecuted(f)' <=> IsExecuted(f) \/ f = last
  <2>1. ASSUME IsExecuted(f)' PROVE IsExecuted(f) \/ f = last
    <3>1. PICK k \in 1..(n + 1) : executed'[k].pdu = FramePdu(f)
        BY <1>3, <2>1 DEF IsExecuted
    <3>2. CASE k \in 1..n
        BY <1>3, <3>1, <3>2 DEF IsExecuted
    <3>3. CASE k = n + 1
        BY <1>1, <1>3, <1>4, <3>1, <3>3, PduTellsFrame
    <3>4. QED BY <1>3, <3>1, <3>2, <3>3
  <2>2. ASSUME IsExecuted(f) PROVE IsExecuted(f)'
    <3>1. PICK k \in 1..n : executed[k].pdu = FramePdu(f)
        BY <1>3, <2>2 DEF IsExecuted
    <3>2. k \in 1..(n + 1) /\ executed'[k].pdu = FramePdu(f)
        BY <1>3, <3>1
    <3>3. QED BY <1>3, <3>2 DEF IsExecuted
  <2>3. IsExecuted(last)'
    <3>1. n + 1 \in 1..(n + 1) /\ executed'[n + 1].pdu = FramePdu(last)
        BY <1>3, <1>4
    <3>2. \E k \in DOMAIN executed' : executed'[k].pdu = FramePdu(last)
        BY <1>3, <3>1
    <3>3. last' = last
        BY DEF RunHandler, masterVars
    <3>4. QED BY <3>2, <3>3 DEF IsExecuted
  <2>4. CASE f = last
    <3>1. \E k \in DOMAIN executed' : executed'[k].pdu = FramePdu(f)
      <4>1. last' = last
          BY DEF RunHandler, masterVars
      <4>2. QED BY <2>3, <2>4, <4>1 DEF IsExecuted
    <3>2. QED BY <2>4, <3>1 DEF IsExecuted
  <2>5. QED BY <2>1, <2>2, <2>4
<1>6. ExecutedFrames' = ExecutedFrames \cup {last} /\ last \notin ExecutedFrames
    BY <1>1, <1>5 DEF ExecutedFrames
<1>7. QED BY <1>3, <1>6 DEF e, n

LEMMA OnceStep ==
    ASSUME Timely, LinkInv, Once, [RestingNext]_remoteVars
    PROVE  Once'
<1>1. CASE UNCHANGED executed
    BY <1>1, Zenon DEF Once, ExecutedFrames, IsExecuted
<1>2. CASE RunHandler
  <2> DEFINE n == Len(executed)
  <2>1. /\ ExecutedFrames' = ExecutedFrames \cup {last}
        /\ last \notin ExecutedFrames /\ last \in Frame
        /\ n \in Nat /\ Len(executed') = n + 1
        /\ \A k \in 1..n : executed'[k] = executed[k]
        /\ executed'[n + 1].pdu = FramePdu(last)
        /\ DOMAIN executed = 1..n /\ DOMAIN executed' = 1..(n + 1)
    <3>1. [pdu |-> FramePdu(last), to |-> FrameAddress[last]].pdu = FramePdu(last)
        OBVIOUS
    <3>2. QED BY <1>2, <3>1, HandlerExecutes, Handled
  <2>2. IsFiniteSet(ExecutedFrames)
      BY LinkAssumption, FS_Subset DEF ExecutedFrames
  <2>3. Cardinality(ExecutedFrames') = Cardinality(ExecutedFrames) + 1
      BY <2>1, <2>2, FS_AddElement
  <2>4. \A k \in 1..n : executed[k].pdu # FramePdu(last)
      BY <2>1 DEF ExecutedFrames, IsExecuted
  <2> HIDE DEF n
  <2>5. \A j, k \in DOMAIN executed' : executed'[j].pdu = executed'[k].pdu => j = k
    <3> SUFFICES ASSUME NEW j \in 1..(n + 1), NEW k \in 1..(n + 1),
                        executed'[j].pdu = executed'[k].pdu
                 PROVE  j = k
        BY <2>1
    <3>1. CASE j \in 1..n /\ k \in 1..n
        BY <2>1, <3>1 DEF Once
    <3>2. CASE j \notin 1..n \/ k \notin 1..n
        BY <2>1, <2>4, <3>2
    <3>3. QED BY <3>1, <3>2
  <2>6. QED BY <2>1, <2>3, <2>5 DEF Once, n
<1>3. QED BY <1>1, <1>2, OnlyHandlersExecute

\* A request is executed once, and no more requests are executed than the master has sent
\* frames for this slave to the end: an event that is posted, read and cleared in steps of
\* its own is neither repeated nor taken for another one (portevent.c:46-58).
THEOREM RemoteExecutesOnce == Timely /\ RemoteSpec => []ExecutesOnce
<1> SUFFICES ASSUME Timely PROVE RemoteSpec => []ExecutesOnce
    OBVIOUS
<1>1. RemoteInit => Once
  <2> SUFFICES ASSUME RemoteInit PROVE Once
      OBVIOUS
  <2>1. executed = <<>>
      BY DEF RemoteInit, LinkInit
  <2>2. ExecutedFrames = {}
      BY <2>1 DEF ExecutedFrames, IsExecuted
  <2>3. QED BY <2>1, <2>2, FS_EmptySet DEF Once
<1>2. LinkInv /\ Once /\ [RestingNext]_remoteVars => Once'
    BY OnceStep
<1>3. LinkInv /\ Once => ExecutesOnce
  <2> SUFFICES ASSUME LinkInv, Once PROVE ExecutesOnce
      OBVIOUS
  <2> DEFINE S == {f \in delivered : FrameAddress[f] # "other"}
  <2>1. delivered \subseteq Frame /\ IsFiniteSet(S)
    <3>1. delivered \subseteq Frame
        BY DEF LinkInv, JobInv, Line
    <3>2. QED BY <3>1, LinkAssumption, FS_Subset
  <2>2. ExecutedFrames \subseteq S
    <3> SUFFICES ASSUME NEW f \in Frame, NEW k \in DOMAIN executed,
                        executed[k].pdu = FramePdu(f)
                 PROVE  f \in S
        BY DEF ExecutedFrames, IsExecuted
    <3>1. PICK g \in delivered : /\ FrameAddress[g] = executed[k].to
                                 /\ executed[k].to \in {"us", "broadcast"}
                                 /\ executed[k].pdu = FramePdu(g)
        BY DEF LinkInv, JobInv, Executions, ExecutesOnlyOurFrames
    <3>2. f = g
        BY <2>1, <3>1, PduTellsFrame
    <3>3. QED BY <3>1, <3>2
  <2>3. Cardinality(ExecutedFrames) <= Cardinality(S)
      BY <2>1, <2>2, FS_Subset
  <2>4. QED BY <2>3 DEF Once, ExecutesOnce
<1>4. QED BY <1>1, <1>2, <1>3, LinkInvariant, NoIdlePoll, PTL DEF RemoteSpec

(* ------------------------------ replies ------------------------------------------------ *)

\* A reply before its CRC.
BeforeCrc(pdu, n) == [i \in 1..(n + 1) |-> IF i = 1 THEN OwnAddress ELSE AnswerByte(pdu, i - 1)]

\* The bytes of a reply, one by one.
LEMMA ReplyByte ==
    ASSUME NEW pdu, NEW n \in Nat
    PROVE  /\ Len(Reply(pdu, n)) = n + 3 /\ DOMAIN Reply(pdu, n) = 1..(n + 3)
           /\ \E S : Reply(pdu, n) \in Seq(S)
           /\ Reply(pdu, n)[1] = OwnAddress
           /\ \A i \in 1..n : Reply(pdu, n)[i + 1] = AnswerByte(pdu, i)
           /\ Reply(pdu, n)[n + 2] = Crc(BeforeCrc(pdu, n))[1]
           /\ Reply(pdu, n)[n + 3] = Crc(BeforeCrc(pdu, n))[2]
<1> DEFINE a == [i \in 1..n |-> AnswerByte(pdu, i)]
           h == BeforeCrc(pdu, n)
           c == Crc(h)
           S == {h[i] : i \in 1..(n + 1)} \cup {c[1], c[2]}
           T == {OwnAddress} \cup {a[i] : i \in 1..n}
<1>1. <<OwnAddress>> \o a = h
  <2>1. a \in Seq(T) /\ Len(a) = n /\ <<OwnAddress>> \in Seq(T) /\ Len(<<OwnAddress>>) = 1
        /\ <<OwnAddress>>[1] = OwnAddress
    <3>1. \A i \in 1..n : a[i] \in T
        OBVIOUS
    <3>2. a = [i \in 1..n |-> a[i]]
        OBVIOUS
    <3> HIDE DEF a
    <3>3. OwnAddress \in T
        OBVIOUS
    <3> HIDE DEF T
    <3>4. a \in Seq(T) /\ Len(a) = n
        BY <3>1, <3>2
    <3>5. QED BY <3>3, <3>4
  <2>2. \A i \in 1..n : a[i] = AnswerByte(pdu, i)
      OBVIOUS
  <2> HIDE DEF a, T
  <2> DEFINE s == <<OwnAddress>> \o a
  <2>3. /\ s \in Seq(T) /\ Len(s) = n + 1
        /\ \A i \in 1..(n + 1) : s[i] = IF i <= 1 THEN <<OwnAddress>>[i] ELSE a[i - 1]
    <3>1. Len(<<OwnAddress>>) + Len(a) = n + 1
        BY <2>1
    <3>2. QED BY <2>1, <3>1, ConcatProperties
  <2>4. s = [i \in 1..(n + 1) |-> s[i]]
      BY <2>3
  <2> HIDE DEF s
  <2>5. \A i \in 1..(n + 1) : s[i] = IF i = 1 THEN OwnAddress ELSE AnswerByte(pdu, i - 1)
      BY <2>1, <2>2, <2>3
  <2>6. s = h
    <3> HIDE DEF h
    <3>1. \A i \in 1..(n + 1) : h[i] = s[i]
        BY <2>5 DEF h, BeforeCrc
    <3>2. h = [i \in 1..(n + 1) |-> h[i]]
        BY DEF h, BeforeCrc
    <3>3. QED BY <2>4, <3>1, <3>2
  <2>7. QED BY <2>6 DEF s
<1>2. Reply(pdu, n) = h \o c
    BY <1>1 DEF Reply
<1>3. c \in Seq({c[1], c[2]}) /\ Len(c) = 2
    BY CrcBytes
<1>4. h = [i \in 1..(n + 1) |-> h[i]] /\ h[1] = OwnAddress
      /\ \A i \in 1..n : h[i + 1] = AnswerByte(pdu, i)
  <2>1. h = [i \in 1..(n + 1) |-> h[i]]
      BY DEF BeforeCrc
  <2>2. h[1] = OwnAddress
      BY DEF BeforeCrc
  <2>3. \A i \in 1..n : i + 1 \in 1..(n + 1) /\ i + 1 # 1 /\ (i + 1) - 1 = i
      OBVIOUS
  <2>4. QED BY <2>1, <2>2, <2>3 DEF BeforeCrc
<1> HIDE DEF h, c
<1>5. \A i \in 1..(n + 1) : h[i] \in S
    OBVIOUS
<1>6. {c[1], c[2]} \subseteq S
    OBVIOUS
<1> HIDE DEF S
<1>7. h \in Seq(S) /\ Len(h) = n + 1 /\ c \in Seq(S)
  <2>1. n + 1 \in Nat
      OBVIOUS
  <2>2. c \in Seq(S)
      BY <1>3, <1>6, SeqMonotonic
  <2>3. QED BY <1>4, <1>5, <2>1, <2>2
<1>8. /\ h \o c \in Seq(S) /\ Len(h \o c) = n + 3
      /\ \A i \in 1..(n + 3) : (h \o c)[i] = IF i <= n + 1 THEN h[i] ELSE c[i - (n + 1)]
  <2>1. Len(h) + Len(c) = n + 3
      BY <1>3, <1>7
  <2>2. QED BY <1>7, <2>1, ConcatProperties
<1>9. DOMAIN (h \o c) = 1..(n + 3)
    BY <1>8, LenProperties
<1>10. 1 \in 1..(n + 3) /\ 1 <= n + 1 /\ n + 2 \in 1..(n + 3) /\ n + 3 \in 1..(n + 3)
       /\ ~(n + 2 <= n + 1) /\ ~(n + 3 <= n + 1) /\ (n + 2) - (n + 1) = 1
       /\ (n + 3) - (n + 1) = 2
    OBVIOUS
<1>11. \A i \in 1..n : i + 1 \in 1..(n + 3) /\ i + 1 <= n + 1
    OBVIOUS
<1>12. /\ (h \o c)[1] = OwnAddress
       /\ \A i \in 1..n : (h \o c)[i + 1] = AnswerByte(pdu, i)
       /\ (h \o c)[n + 2] = c[1] /\ (h \o c)[n + 3] = c[2]
    BY <1>4, <1>8, <1>10, <1>11
<1>13. QED BY <1>2, <1>8, <1>9, <1>12 DEF h, c

\* A beginning of a sequence, and one byte more.
LEMMA OneMore ==
    ASSUME NEW S, NEW s \in Seq(S), NEW i \in Nat, i < Len(s)
    PROVE  /\ Append(SubSeq(s, 1, i), s[i + 1]) = SubSeq(s, 1, i + 1)
           /\ SubSeq(s, 1, i) \in Seq(S) /\ Len(SubSeq(s, 1, i)) = i
           /\ IsPrefix(SubSeq(s, 1, i), s)
           /\ s[i + 1] \in S
<1>1. Len(s) \in Nat /\ i + 1 \in 1..Len(s) /\ \A k \in 1..(i + 1) : s[k] \in S
    BY LenProperties, ElementOfSeq
<1>2. /\ SubSeq(s, 1, i) \in Seq(S) /\ Len(SubSeq(s, 1, i)) = i
  <2>1. \A k \in 1..i : s[k] \in S
      BY <1>1
  <2>2. (IF 1 <= i THEN i - 1 + 1 ELSE 0) = i
      OBVIOUS
  <2>3. QED BY <2>1, <2>2, SubSeqProperties
<1>3. SubSeq(s, 1, i + 1) = SubSeq(s, 1, i) \o <<s[i + 1]>>
  <2>1. 1 \in 1..Len(s) /\ i + 1 \in 1..Len(s) /\ (i + 1) - 1 = i
      BY <1>1
  <2>2. QED BY <2>1, SubSeqRecursiveSecond
<1>4. Append(SubSeq(s, 1, i), s[i + 1]) = SubSeq(s, 1, i) \o <<s[i + 1]>>
    BY <1>1, <1>2, AppendIsConcat
<1>5. SubSeq(SubSeq(s, 1, i), 1, i) = SubSeq(s, 1, i)
    BY <1>2, SubSeqFull
<1>6. IsPrefix(SubSeq(s, 1, i), s)
    BY <1>1, <1>2, <1>5 DEF IsPrefix
<1>7. QED BY <1>1, <1>2, <1>3, <1>4, <1>6

\* A beginning of a sequence is a prefix of it.
LEMMA Beginning ==
    ASSUME NEW S, NEW s \in Seq(S), NEW i \in 0..Len(s)
    PROVE  IsPrefix(SubSeq(s, 1, i), s)
<1>1. CASE i < Len(s)
    BY <1>1, OneMore
<1>2. CASE i = Len(s)
  <2>1. SubSeq(s, 1, i) = s
      BY <1>2, SubSeqFull
  <2>2. QED BY <1>2, <2>1 DEF IsPrefix
<1>3. QED BY <1>1, <1>2, LenProperties

\* The executions up to the j-th that are answered.
UnicastsTo(j) == {i \in 1..j : executed[i].to # "broadcast"}

\* What can be transmitted: the beginnings of replies.
Transmitted == {SubSeq(Reply(FramePdu(f), n), 1, i) : f \in Frame, n \in ReplyLength, i \in Nat}

\* The answer is being made or about to be sent.
Composing == poll \in {"reply", "send"}

\* The request executed last is the one being answered, and was that of the frame begun last.
AnswersLast ==
    /\ ToAnswer =>
         /\ last \in Frame /\ Len(executed) > 0
         /\ executed[Len(executed)].pdu = request /\ request = FramePdu(last)
         /\ executed[Len(executed)].to = ucRcvAddress
    /\ poll = "send" \/ txie = 1 => ucRcvAddress # "broadcast"

\* There are as many transmissions as requests to be answered, but for one being answered.
Counted ==
    /\ replies \in Seq(Transmitted)
    /\ Cardinality(UnicastsTo(Len(executed))) =
         Len(replies) + (IF Composing /\ ucRcvAddress # "broadcast" THEN 1 ELSE 0)

\* Transmissions are beginnings of the replies to the requests they answer.
Matched ==
    \A k \in DOMAIN replies :
      \E j \in DOMAIN executed, n \in ReplyLength, i \in Nat :
        /\ i <= n + 3 /\ Unicast(j, k)
        /\ replies[k] = SubSeq(Reply(executed[j].pdu, n), 1, i)

\* The answer is in the buffer, at first without address and CRC, and goes out in order.
OnTheWay ==
    /\ poll = "send" => /\ usLength \in ReplyLength
                        /\ \A i \in 1..usLength : ucRTUBuf[i] = AnswerByte(request, i)
    /\ txie = 1 =>
         \E n \in ReplyLength :
           /\ pucSndBufferCur + usSndBufferCount = n + 3
           /\ \A i \in 1..(n + 3) : ucRTUBuf[i - 1] = Reply(request, n)[i]
           /\ Len(replies) > 0
           /\ replies[Len(replies)] = SubSeq(Reply(request, n), 1, pucSndBufferCur)

Answering == AnswersLast /\ Counted /\ Matched /\ OnTheWay

\* Lengths of answers are numbers.
LEMMA ReplyLengths ==
    ASSUME NEW n \in ReplyLength
    PROVE  n \in Nat /\ n <= MB_SER_PDU_SIZE_MAX - 3 /\ n \in Int /\ n >= 0
BY RTUAssumption

\* Matched depends on the histories only.
LEMMA MatchedKept ==
    ASSUME Matched, UNCHANGED <<executed, replies>>
    PROVE  Matched'
<1>1. executed' = executed /\ replies' = replies
    OBVIOUS
<1>2. \A j, k : Unicast(j, k)' <=> Unicast(j, k)
    BY <1>1, Zenon DEF Unicast
<1>3. SUFFICES ASSUME NEW k \in DOMAIN replies'
               PROVE  (\E j \in DOMAIN executed, n \in ReplyLength, i \in Nat :
                        /\ i <= n + 3 /\ Unicast(j, k)
                        /\ replies[k] = SubSeq(Reply(executed[j].pdu, n), 1, i))'
    BY DEF Matched
<1>4. PICK j \in DOMAIN executed, n \in ReplyLength, i \in Nat :
        /\ i <= n + 3 /\ Unicast(j, k)
        /\ replies[k] = SubSeq(Reply(executed[j].pdu, n), 1, i)
  <2>1. k \in DOMAIN replies
      BY <1>1, Zenon
  <2>2. QED BY <2>1, Zenon DEF Matched
<1>5. j \in DOMAIN executed' /\ Unicast(j, k)'
    BY <1>1, <1>2, <1>4, Zenon
<1>6. replies'[k] = SubSeq(Reply(executed'[j].pdu, n), 1, i)
    BY <1>1, <1>4, Zenon
<1>7. QED BY <1>4, <1>5, <1>6, Zenon

\* A step that answers nothing and touches nothing of an answer.
LEMMA AnswerKept ==
    ASSUME Answering,
           UNCHANGED <<executed, replies, poll, txie, last, request, ucRcvAddress, usLength,
                       ucRTUBuf, sndVars>>
    PROVE  Answering'
<1> USE DEF sndVars
<1>1. AnswersLast'
    BY Zenon DEF Answering, AnswersLast, ToAnswer
<1>2. Counted'
    BY Zenon DEF Answering, Counted, UnicastsTo, Composing
<1>3. Matched'
    BY MatchedKept DEF Answering
<1>4. OnTheWay'
    BY Zenon DEF Answering, OnTheWay
<1>5. QED BY <1>1, <1>2, <1>3, <1>4 DEF Answering

\* A step while no request is answered, before nor after it.
LEMMA NothingToAnswer ==
    ASSUME Answering, ~ToAnswer, ~ToAnswer', UNCHANGED <<executed, replies>>
    PROVE  Answering'
<1>1. AnswersLast' /\ OnTheWay'
    BY DEF AnswersLast, OnTheWay, ToAnswer
<1>2. Counted'
  <2>1. UnicastsTo(Len(executed))' = UnicastsTo(Len(executed))
      BY Zenon DEF UnicastsTo
  <2>2. ~Composing /\ ~Composing'
      BY DEF ToAnswer, Composing
  <2>3. QED BY <2>1, <2>2 DEF Answering, Counted
<1>3. Matched'
    BY MatchedKept DEF Answering
<1>4. QED BY <1>1, <1>2, <1>3 DEF Answering

\* The master, the receiver and the modules do not touch an answer.
LEMMA LineLeavesAnswer ==
    ASSUME Timely, LinkInv,
           MasterStep \/ Tick \/ Tim2 \/ ReceiveIsr \/ StallTick \/ ModulesStep
             \/ UNCHANGED remoteVars
    PROVE  \/ UNCHANGED <<executed, replies, poll, txie, last, request, ucRcvAddress, usLength,
                          ucRTUBuf, sndVars>>
           \/ ~ToAnswer /\ ~ToAnswer' /\ UNCHANGED <<executed, replies>>
<1>1. CASE MasterStep
  <2>1. CASE \E f \in Frame : BeginFrame(f, uart = MasterRate)
    <3>1. PICK f \in Frame : BeginFrame(f, uart = MasterRate)
        BY <2>1
    <3>2. SlaveIdle /\ UNCHANGED <<executed, replies>> /\ poll' = poll /\ txie' = txie
        BY <3>1 DEF BeginFrame, Waits, Timely, PutByte, UartReceive, history, mainVars
    <3>3. QED BY <3>2 DEF SlaveIdle, ToAnswer
  <2>2. CASE ContinueFrame(CharTicks[MasterRate], uart = MasterRate)
      BY <2>2 DEF ContinueFrame, PutByte, UartReceive, history, mainVars
  <2>3. CASE BreakFrame
      BY <2>3 DEF BreakFrame, history, mainVars, vars, usartVars
  <2>4. QED BY <1>1, <2>1, <2>2, <2>3 DEF MasterStep, Master
<1>2. CASE Tick \/ Tim2
    BY <1>2 DEF Tick, Tim2Update, Tim2, Tim2Isr, T35Expired, Fail, history, mainVars, usartVars,
                masterVars
<1>3. CASE ReceiveIsr
  <2>1. CASE ReceiveByte \/ RestartTimer
      BY <1>3, <2>1 DEF ReceiveIsr, ReceiveByte, RestartTimer, Fail, history, mainVars, usartVars,
                        masterVars
  <2>2. CASE StoreByte
    <3>1. HasByte
        BY <2>2 DEF StoreByte, HasByte
    <3>2. UNCHANGED <<executed, replies, poll, txie>>
        BY <1>3, <2>2 DEF ReceiveIsr, StoreByte, history, mainVars, usartVars
    <3>3. QED BY <3>1, <3>2, ByteInHand DEF ToAnswer
  <2>3. QED BY <1>3, <2>1, <2>2 DEF ReceiveIsr
<1>4. CASE StallTick \/ ModulesStep \/ UNCHANGED remoteVars
    BY <1>4 DEF StallTick, ModulesStep, remoteVars, linkVars, vars, history, mainVars, usartVars,
                masterVars
<1>5. QED BY <1>1, <1>2, <1>3, <1>4

LEMMA LineKeepsAnswer ==
    ASSUME Timely, LinkInv, Answering,
           MasterStep \/ Tick \/ Tim2 \/ ReceiveIsr \/ StallTick \/ ModulesStep
             \/ UNCHANGED remoteVars
    PROVE  Answering'
BY LineLeavesAnswer, AnswerKept, NothingToAnswer

\* Events and frames looked at are no answers.
LEMMA NothingAnsweredYet ==
    ASSUME LinkInv, UNCHANGED history, GetEvent \/ ClearQueue \/ Receive \/ PostExecute
    PROVE  ~ToAnswer /\ ~ToAnswer' /\ UNCHANGED <<executed, replies>>
<1>1. EventPending /\ poll \notin {"reply", "send"}
    BY DEF GetEvent, ClearQueue, Receive, PostExecute, EventPending
<1>2. txie = 0 /\ txie' = 0 /\ poll' \notin {"reply", "send"}
  <2>1. txie = 0
      BY <1>1, AtWork
  <2>2. QED BY <1>1, <2>1 DEF GetEvent, ClearQueue, Receive, PostExecute, Fail, AfterPost, usartVars,
                              mainVars
<1>3. QED BY <1>1, <1>2 DEF ToAnswer, history

LEMMA ReceivingKeepsAnswer ==
    ASSUME LinkInv, Answering, UNCHANGED history,
           GetEvent \/ ClearQueue \/ Receive \/ PostExecute
    PROVE  Answering'
BY NothingAnsweredYet, NothingToAnswer

\* A handler adds to the requests to be answered the one it ran on, unless broadcast.
LEMMA HandlerCounts ==
    ASSUME Timely, LinkInv, Answering, RunHandler
    PROVE  Answering'
<1> DEFINE m == Len(executed)
           u == UnicastsTo(m)
           v == {i \in 1..(m + 1) : executed'[i].to # "broadcast"}
<1>1. /\ poll = "execute" /\ poll' = "reply" /\ txie = 0 /\ txie' = 0
      /\ UNCHANGED <<replies, last, ucRcvAddress>>
  <2>1. EventPending /\ poll = "execute"
      BY DEF RunHandler, Execute, EventPending
  <2>2. QED BY <2>1, AtWork DEF RunHandler, Execute, usartVars, masterVars
<1>2. /\ last \in Frame /\ request' = FramePdu(last) /\ ucRcvAddress = FrameAddress[last]
    BY Handled
<1>3. /\ m \in Nat /\ Len(executed') = m + 1
      /\ \A k \in 1..m : executed'[k] = executed[k]
      /\ executed'[m + 1].pdu = FramePdu(last)
      /\ executed'[m + 1].to = FrameAddress[last]
      /\ DOMAIN executed = 1..m /\ DOMAIN executed' = 1..(m + 1)
  <2> DEFINE e == [pdu |-> FramePdu(last), to |-> FrameAddress[last]]
  <2>1. e.pdu = FramePdu(last) /\ e.to = FrameAddress[last]
      OBVIOUS
  <2> HIDE DEF e
  <2>2. executed'[Len(executed')] = e
      BY HandlerExecutes DEF e
  <2>3. QED BY <2>1, <2>2, HandlerExecutes
<1> HIDE DEF m
<1>4. AnswersLast'
    BY <1>1, <1>2, <1>3 DEF AnswersLast
<1>5. OnTheWay'
    BY <1>1 DEF OnTheWay
<1>6. Cardinality(u) = Len(replies) /\ IsFiniteSet(u) /\ Len(replies) \in Nat
  <2>1. ~Composing
      BY <1>1 DEF Composing
  <2>2. Len(replies) \in Nat
      BY DEF Answering, Counted
  <2>3. IsFiniteSet(u)
    <3>1. IsFiniteSet(1..m) /\ u \subseteq 1..m
        BY <1>3, FS_Interval DEF UnicastsTo
    <3>2. QED BY <3>1, FS_Subset
  <2>4. QED BY <2>1, <2>2, <2>3 DEF Answering, Counted, m
<1>7. v = IF ucRcvAddress # "broadcast" THEN u \cup {m + 1} ELSE u
  <2>1. u = {i \in 1..m : executed[i].to # "broadcast"}
      BY DEF UnicastsTo
  <2>2. 1..(m + 1) = (1..m) \cup {m + 1} /\ m + 1 \notin 1..m
      BY <1>3
  <2>3. QED BY <1>2, <1>3, <2>1, <2>2
<1>8. m + 1 \notin u
    BY <1>3 DEF UnicastsTo
<1>9. Counted'
  <2>1. Cardinality(v) =
          Len(replies) + (IF ucRcvAddress # "broadcast" THEN 1 ELSE 0)
    <3> HIDE DEF u, v
    <3>1. Cardinality(u \cup {m + 1}) = Cardinality(u) + 1
        BY <1>6, <1>8, FS_AddElement
    <3>2. QED BY <1>6, <1>7, <3>1
  <2>2. UnicastsTo(Len(executed))' = v
      BY <1>3 DEF UnicastsTo
  <2>3. QED BY <1>1, <2>1, <2>2 DEF Answering, Counted, Composing
<1>10. Matched'
  <2> SUFFICES ASSUME NEW k \in DOMAIN replies'
               PROVE  (\E j \in DOMAIN executed, n \in ReplyLength, i \in Nat :
                        /\ i <= n + 3 /\ Unicast(j, k)
                        /\ replies[k] = SubSeq(Reply(executed[j].pdu, n), 1, i))'
      BY DEF Matched
  <2>1. PICK j \in DOMAIN executed, n \in ReplyLength, i \in Nat :
          /\ i <= n + 3 /\ Unicast(j, k)
          /\ replies[k] = SubSeq(Reply(executed[j].pdu, n), 1, i)
      BY <1>1 DEF Answering, Matched
  <2>2. j \in DOMAIN executed' /\ executed'[j] = executed[j]
      BY <1>3
  <2>3. Unicast(j, k)'
    <3>1. \A i1 \in 1..j : executed'[i1] = executed[i1]
        BY <1>3
    <3>2. {i1 \in 1..j : executed'[i1].to # "broadcast"}
            = {i1 \in 1..j : executed[i1].to # "broadcast"}
        BY <3>1
    <3>3. QED BY <2>1, <2>2, <3>2 DEF Unicast
  <2>4. replies'[k] = SubSeq(Reply(executed'[j].pdu, n), 1, i)
      BY <1>1, <2>1, <2>2, Zenon
  <2>5. QED BY <2>1, <2>2, <2>3, <2>4, Zenon
<1>11. QED BY <1>4, <1>5, <1>9, <1>10 DEF Answering

\* The answer is built where the request was; a broadcast gets none.
LEMMA AnswerBuilt ==
    ASSUME Timely, LinkInv, Answering, BuildReply, UNCHANGED <<masterVars, timeVars, history>>
    PROVE  Answering'
<1>1. /\ poll = "reply" /\ poll' \in {"send", "get"}
      /\ poll' = "send" <=> ucRcvAddress # "broadcast"
      /\ txie = 0 /\ txie' = 0
      /\ UNCHANGED <<executed, replies, last, request, ucRcvAddress>>
  <2>1. EventPending /\ poll = "reply"
      BY DEF BuildReply, EventPending
  <2>2. QED BY <2>1, AtWork DEF BuildReply, Answers, usartVars, masterVars, history
<1>2. AnswersLast'
    BY <1>1 DEF Answering, AnswersLast, ToAnswer
<1>3. Counted'
  <2>1. UnicastsTo(Len(executed))' = UnicastsTo(Len(executed))
      BY <1>1, Zenon DEF UnicastsTo
  <2>2. (Composing /\ ucRcvAddress # "broadcast") <=> (Composing /\ ucRcvAddress # "broadcast")'
      BY <1>1 DEF Composing
  <2>3. QED BY <1>1, <2>1, <2>2 DEF Answering, Counted
<1>4. Matched'
    BY <1>1, MatchedKept DEF Answering
<1>5. OnTheWay'
  <2>1. PICK n \in ReplyLength :
          /\ ucRTUBuf' = [i \in DOMAIN ucRTUBuf |->
                            IF i \in 1..n THEN AnswerByte(request, i) ELSE ucRTUBuf[i]]
          /\ usLength' = n
      BY DEF BuildReply
  <2>2. 1..n \subseteq DOMAIN ucRTUBuf
      BY ReplyLengths, BufferSizes
  <2>3. \A i \in 1..n : ucRTUBuf'[i] = AnswerByte(request', i)
      BY <1>1, <2>1, <2>2
  <2>4. QED BY <1>1, <2>1, <2>3 DEF OnTheWay
<1>6. QED BY <1>2, <1>3, <1>4, <1>5 DEF Answering

\* eMBRTUSend begins the transmission of the whole reply.
LEMMA AnswerSent ==
    ASSUME Timely, LinkInv, Answering, SendReply
    PROVE  Answering'
<1> DEFINE n == usLength
           framed == [ucRTUBuf EXCEPT ![0] = OwnAddress]
           crc == Crc([i \in 1..(n + 1) |-> framed[i - 1]])
<1>1. /\ poll = "send" /\ poll' = "get" /\ eRcvState = "RX_IDLE" /\ txie = 0
      /\ ToAnswer /\ Composing /\ ~Composing' /\ ucRcvAddress # "broadcast"
  <2>1. EventPending /\ poll = "send" /\ poll' = "get"
      BY DEF SendReply, Send, EventPending
  <2>2. QED BY <2>1, AtWork DEF ToAnswer, Composing, Answering, AnswersLast
<1>2. /\ ucRTUBuf' = [framed EXCEPT ![n + 1] = crc[1], ![n + 2] = crc[2]]
      /\ pucSndBufferCur' = 0 /\ usSndBufferCount' = n + 3
      /\ txie' = 1 /\ replies' = Append(replies, <<>>)
      /\ UNCHANGED <<executed, last, request, ucRcvAddress>>
  <2>1. usLength + 1 + 2 = n + 3
      BY DEF LinkInv, TypeOK, PollOK
  <2>2. QED BY <1>1, <2>1 DEF SendReply, Send, vMBPortSerialEnable, MB_SER_PDU_SIZE_CRC, frameVars,
                             masterVars
<1>3. /\ n \in ReplyLength /\ n \in Nat /\ n + 3 <= MB_SER_PDU_SIZE_MAX
      /\ MB_SER_PDU_SIZE_MAX \in Nat
      /\ \A i \in 1..n : ucRTUBuf[i] = AnswerByte(request, i)
      /\ DOMAIN ucRTUBuf = 0..(MB_SER_PDU_SIZE_MAX - 1)
  <2>1. n \in ReplyLength /\ \A i \in 1..n : ucRTUBuf[i] = AnswerByte(request, i)
      BY <1>1 DEF Answering, OnTheWay
  <2>2. n \in Nat /\ n + 3 <= MB_SER_PDU_SIZE_MAX /\ MB_SER_PDU_SIZE_MAX \in Nat
      BY <2>1, ReplyLengths, BufferSizes
  <2>3. QED BY <2>1, <2>2 DEF LinkInv, TypeOK, ReceiverOK
<1>4. /\ last \in Frame /\ Len(executed) > 0
      /\ executed[Len(executed)].pdu = request /\ request = FramePdu(last)
      /\ executed[Len(executed)].to = ucRcvAddress
    BY <1>1 DEF Answering, AnswersLast
<1> HIDE DEF n
<1>5. AnswersLast'
    BY <1>1, <1>2, <1>4 DEF AnswersLast
<1>6. crc = Crc(BeforeCrc(request, n))
  <2>1. \A i \in 1..(n + 1) : framed[i - 1] = IF i = 1 THEN OwnAddress
                                               ELSE AnswerByte(request, i - 1)
    <3> SUFFICES ASSUME NEW i \in 1..(n + 1)
                 PROVE  framed[i - 1] = IF i = 1 THEN OwnAddress ELSE AnswerByte(request, i - 1)
        OBVIOUS
    <3>1. CASE i = 1
        BY <1>3, <3>1
    <3>2. CASE i # 1
      <4>1. i - 1 \in 1..n /\ i - 1 \in 0..(MB_SER_PDU_SIZE_MAX - 1) /\ i - 1 # 0
          BY <1>3, <3>2
      <4>2. QED BY <1>3, <3>2, <4>1
    <3>3. QED BY <3>1, <3>2
  <2> HIDE DEF framed
  <2>2. [i \in 1..(n + 1) |-> framed[i - 1]] = BeforeCrc(request, n)
      BY <2>1 DEF BeforeCrc
  <2>3. QED BY <2>2
<1> HIDE DEF crc
<1>7. \A i \in 1..(n + 3) : ucRTUBuf'[i - 1] = Reply(request, n)[i]
  <2>1. /\ Reply(request, n)[1] = OwnAddress
        /\ \A i \in 1..n : Reply(request, n)[i + 1] = AnswerByte(request, i)
        /\ Reply(request, n)[n + 2] = crc[1] /\ Reply(request, n)[n + 3] = crc[2]
      BY <1>3, <1>6, ReplyByte
  <2> SUFFICES ASSUME NEW i \in 1..(n + 3) PROVE ucRTUBuf'[i - 1] = Reply(request, n)[i]
      OBVIOUS
  <2>2. i - 1 \in 0..(MB_SER_PDU_SIZE_MAX - 1)
      BY <1>3
  <2>3. CASE i = 1
    <3>1. ucRTUBuf'[0] = OwnAddress
        BY <1>2, <1>3
    <3>2. QED BY <2>1, <2>3, <3>1
  <2>4. CASE i = n + 2 \/ i = n + 3
    <3>1. n + 1 \in DOMAIN ucRTUBuf /\ n + 2 \in DOMAIN ucRTUBuf
        BY <1>3
    <3>2. ucRTUBuf'[n + 1] = crc[1] /\ ucRTUBuf'[n + 2] = crc[2]
        BY <1>2, <1>3, <3>1
    <3>3. QED BY <1>3, <2>1, <2>4, <3>2
  <2>5. CASE i # 1 /\ i # n + 2 /\ i # n + 3
    <3>1. i - 1 \in 1..n /\ i - 1 # 0 /\ i - 1 # n + 1 /\ i - 1 # n + 2 /\ (i - 1) + 1 = i
        BY <1>3, <2>5
    <3>2. ucRTUBuf'[i - 1] = ucRTUBuf[i - 1]
        BY <1>2, <1>3, <2>2, <3>1
    <3>3. ucRTUBuf[i - 1] = AnswerByte(request, i - 1)
        BY <1>3, <3>1
    <3>4. Reply(request, n)[(i - 1) + 1] = AnswerByte(request, i - 1)
        BY <2>1, <3>1
    <3>5. QED BY <3>1, <3>2, <3>3, <3>4
  <2>6. QED BY <2>3, <2>4, <2>5
<1>8. SubSeq(Reply(request, n), 1, 0) = <<>>
    BY SubSeqEmpty
<1>9. <<>> \in Transmitted
    BY <1>3, <1>4, <1>8 DEF Transmitted
<1>10. /\ replies \in Seq(Transmitted) /\ replies' \in Seq(Transmitted)
       /\ Len(replies) \in Nat /\ Len(replies') = Len(replies) + 1
       /\ \A k \in 1..Len(replies) : replies'[k] = replies[k]
       /\ replies'[Len(replies) + 1] = <<>>
       /\ DOMAIN replies = 1..Len(replies) /\ DOMAIN replies' = 1..(Len(replies) + 1)
  <2>1. replies \in Seq(Transmitted)
      BY DEF Answering, Counted
  <2> HIDE DEF Transmitted
  <2>2. QED BY <1>2, <1>9, <2>1, AppendProperties, LenProperties
<1>11. Cardinality(UnicastsTo(Len(executed))) = Len(replies) + 1
    BY <1>1 DEF Answering, Counted
<1>12. Counted'
  <2>1. UnicastsTo(Len(executed))' = UnicastsTo(Len(executed))
      BY <1>2, Zenon DEF UnicastsTo
  <2>2. QED BY <1>1, <1>10, <1>11, <2>1 DEF Counted
<1>13. Matched'
  <2> SUFFICES ASSUME NEW k \in DOMAIN replies'
               PROVE  (\E j \in DOMAIN executed, l \in ReplyLength, i \in Nat :
                        /\ i <= l + 3 /\ Unicast(j, k)
                        /\ replies[k] = SubSeq(Reply(executed[j].pdu, l), 1, i))'
      BY DEF Matched
  <2>1. \A j : Unicast(j, k)' <=> Unicast(j, k)
      BY <1>2, Zenon DEF Unicast
  <2>2. CASE k \in 1..Len(replies)
    <3>1. PICK j \in DOMAIN executed, l \in ReplyLength, i \in Nat :
            /\ i <= l + 3 /\ Unicast(j, k)
            /\ replies[k] = SubSeq(Reply(executed[j].pdu, l), 1, i)
        BY <1>10, <2>2 DEF Answering, Matched
    <3>2. replies'[k] = SubSeq(Reply(executed'[j].pdu, l), 1, i)
        BY <1>2, <1>10, <2>2, <3>1
    <3>3. j \in DOMAIN executed' /\ Unicast(j, k)'
        BY <1>2, <2>1, <3>1, Zenon
    <3>4. QED BY <3>1, <3>2, <3>3, Zenon
  <2>3. CASE k = Len(replies) + 1
    <3>1. PICK j \in DOMAIN executed : j = Len(executed) /\ Unicast(j, k)
      <4>1. Len(executed) \in DOMAIN executed
          BY <1>4, LenProperties DEF LinkInv, JobInv, Executions
      <4>2. Cardinality({i \in 1..Len(executed) : executed[i].to # "broadcast"}) = k
          BY <1>11, <2>3 DEF UnicastsTo
      <4>3. QED BY <1>1, <1>4, <4>1, <4>2 DEF Unicast
    <3>2. executed[j].pdu = request /\ replies'[k] = <<>>
        BY <1>4, <1>10, <2>3, <3>1
    <3>3. j \in DOMAIN executed' /\ Unicast(j, k)' /\ 0 <= n + 3 /\ 0 \in Nat
        BY <1>2, <1>3, <2>1, <3>1
    <3>4. replies'[k] = SubSeq(Reply(executed'[j].pdu, n), 1, 0)
        BY <1>2, <1>8, <3>2, Zenon
    <3>5. QED BY <1>3, <3>3, <3>4, Zenon
  <2>4. QED BY <1>10, <2>2, <2>3
<1>14. OnTheWay'
  <2>1. pucSndBufferCur' + usSndBufferCount' = n + 3
      BY <1>2, <1>3 DEF n
  <2>2. Len(replies') > 0 /\ replies'[Len(replies')] = <<>>
      BY <1>10
  <2>3. replies'[Len(replies')] = SubSeq(Reply(request', n), 1, pucSndBufferCur')
      BY <1>2, <1>8, <2>2
  <2>4. \A i \in 1..(n + 3) : ucRTUBuf'[i - 1] = Reply(request', n)[i]
      BY <1>2, <1>7
  <2>5. \E l \in ReplyLength :
           /\ pucSndBufferCur' + usSndBufferCount' = l + 3
           /\ \A i \in 1..(l + 3) : ucRTUBuf'[i - 1] = Reply(request', l)[i]
           /\ Len(replies') > 0
           /\ replies'[Len(replies')] = SubSeq(Reply(request', l), 1, pucSndBufferCur')
      BY <1>3, <2>1, <2>2, <2>3, <2>4, Zenon
  <2>6. QED BY <1>1, <2>5 DEF OnTheWay
<1>15. QED BY <1>5, <1>12, <1>13, <1>14 DEF Answering

\* A byte of a reply is the next one of it.
LEMMA AnswerGoesOn ==
    ASSUME Timely, LinkInv, Answering, Transmit
    PROVE  Answering'
<1>1. /\ txie = 1 /\ poll = "get" /\ ToAnswer /\ ~Composing
      /\ eSndState = "TX_XMIT" /\ eRcvState = "RX_IDLE" /\ TransmitByte
    BY DEF Transmit, TransmitByte, LinkInv, JobInv, OneJob, EventPending, HalfDuplex, ToAnswer,
           Composing
<1>2. UNCHANGED <<executed, last, request, ucRcvAddress, poll, ucRTUBuf>>
    BY <1>1 DEF Transmit, TransmitByte, masterVars, mainVars
<1>3. AnswersLast'
    BY <1>1, <1>2 DEF Answering, AnswersLast, ToAnswer
<1>4. ~Composing' /\ UnicastsTo(Len(executed))' = UnicastsTo(Len(executed))
    BY <1>1, <1>2, Zenon DEF Composing, UnicastsTo
<1>5. PICK n \in ReplyLength :
        /\ pucSndBufferCur + usSndBufferCount = n + 3
        /\ \A i \in 1..(n + 3) : ucRTUBuf[i - 1] = Reply(request, n)[i]
        /\ Len(replies) > 0
        /\ replies[Len(replies)] = SubSeq(Reply(request, n), 1, pucSndBufferCur)
    BY <1>1 DEF Answering, OnTheWay
<1>6. CASE usSndBufferCount = 0
  <2>1. UNCHANGED replies /\ txie' = 0
      BY <1>1, <1>6 DEF Transmit, TransmitByte, vMBPortSerialEnable
  <2>2. Counted'
      BY <1>1, <1>4, <2>1 DEF Answering, Counted
  <2>3. Matched'
      BY <1>2, <2>1, MatchedKept DEF Answering
  <2>4. OnTheWay'
      BY <1>1, <1>2, <2>1 DEF OnTheWay
  <2>5. QED BY <1>3, <2>2, <2>3, <2>4 DEF Answering
<1>7. CASE usSndBufferCount # 0
  <2> DEFINE cur == pucSndBufferCur
             r == Reply(request, n)
             q == Len(replies)
  <2>1. /\ cur \in Nat /\ usSndBufferCount \in Nat /\ usSndBufferCount >= 1
        /\ pucSndBufferCur' = cur + 1 /\ usSndBufferCount' = usSndBufferCount - 1
        /\ replies' = [replies EXCEPT ![q] = Append(@, ucRTUBuf[cur])]
        /\ txie' = 1
      BY <1>1, <1>7 DEF Transmit, TransmitByte, LinkInv, TypeOK, TransmitterOK
  <2>2. n \in Nat /\ cur < n + 3
      BY <1>5, <2>1, ReplyLengths
  <2>3. /\ last \in Frame /\ Len(executed) > 0
        /\ executed[Len(executed)].pdu = request /\ request = FramePdu(last)
        /\ executed[Len(executed)].to # "broadcast"
      BY <1>1 DEF Answering, AnswersLast
  <2>4. ucRTUBuf[cur] = r[cur + 1]
    <3>1. cur + 1 \in 1..(n + 3) /\ (cur + 1) - 1 = cur
        BY <2>1, <2>2
    <3>2. QED BY <1>5, <3>1
  <2>5. Append(SubSeq(r, 1, cur), r[cur + 1]) = SubSeq(r, 1, cur + 1)
    <3>1. Len(r) = n + 3 /\ \E S : r \in Seq(S)
        BY <2>2, ReplyByte
    <3> HIDE DEF r, cur
    <3>2. QED BY <2>1, <2>2, <3>1, OneMore
  <2>6. SubSeq(r, 1, cur + 1) \in Transmitted
    <3>1. cur + 1 \in Nat
        BY <2>1
    <3>2. SubSeq(Reply(FramePdu(last), n), 1, cur + 1) \in Transmitted
        BY <2>3, <3>1 DEF Transmitted
    <3>3. QED BY <2>3, <3>2, Zenon
  <2>7. /\ replies \in Seq(Transmitted) /\ q \in Nat /\ q \in 1..q
        /\ replies' \in Seq(Transmitted) /\ Len(replies') = q
        /\ \A k \in 1..q : k # q => replies'[k] = replies[k]
        /\ replies'[q] = SubSeq(r, 1, cur + 1)
        /\ DOMAIN replies = 1..q /\ DOMAIN replies' = 1..q
    <3>1. replies \in Seq(Transmitted)
        BY DEF Answering, Counted
    <3> HIDE DEF Transmitted, r
    <3>2. q \in Nat /\ q \in 1..q /\ DOMAIN replies = 1..q
        BY <1>5, <3>1, LenProperties
    <3>3. replies' = [replies EXCEPT ![q] = SubSeq(r, 1, cur + 1)]
        BY <1>5, <2>1, <2>4, <2>5 DEF r
    <3>4. /\ replies' \in Seq(Transmitted) /\ Len(replies') = q
          /\ \A k \in 1..q : replies'[k] = IF k = q THEN SubSeq(r, 1, cur + 1) ELSE replies[k]
      <4> HIDE DEF q, cur
      <4>1. q = Len(replies)
          BY DEF q
      <4>2. QED BY <2>6, <3>1, <3>2, <3>3, <4>1, ExceptSeq
    <3>5. QED BY <3>1, <3>2, <3>4, LenProperties
  <2>8. Cardinality(UnicastsTo(Len(executed))) = q
      BY <1>1, <2>7 DEF Answering, Counted
  <2>9. Counted'
    <3>1. Len(replies') = Len(replies) /\ Len(replies) \in Nat /\ replies' \in Seq(Transmitted)
        BY <2>7
    <3>2. QED BY <1>4, <2>8, <3>1 DEF Counted
  <2>10. Matched'
    <3> SUFFICES ASSUME NEW k \in DOMAIN replies'
                 PROVE  (\E j \in DOMAIN executed, l \in ReplyLength, i \in Nat :
                          /\ i <= l + 3 /\ Unicast(j, k)
                          /\ replies[k] = SubSeq(Reply(executed[j].pdu, l), 1, i))'
        BY DEF Matched
    <3>1. \A j : Unicast(j, k)' <=> Unicast(j, k)
        BY <1>2, Zenon DEF Unicast
    <3>2. CASE k # q
      <4>1. PICK j \in DOMAIN executed, l \in ReplyLength, i \in Nat :
              /\ i <= l + 3 /\ Unicast(j, k)
              /\ replies[k] = SubSeq(Reply(executed[j].pdu, l), 1, i)
          BY <2>7 DEF Answering, Matched
      <4>2. replies'[k] = SubSeq(Reply(executed'[j].pdu, l), 1, i)
          BY <1>2, <2>7, <3>2, <4>1
      <4>3. j \in DOMAIN executed' /\ Unicast(j, k)'
          BY <1>2, <3>1, <4>1, Zenon
      <4>4. QED BY <4>1, <4>2, <4>3, Zenon
    <3>3. CASE k = q
      <4>1. PICK j \in DOMAIN executed : j = Len(executed) /\ Unicast(j, k)
        <5>1. Len(executed) \in DOMAIN executed
            BY <2>3, LenProperties DEF LinkInv, JobInv, Executions
        <5>2. Cardinality({i \in 1..Len(executed) : executed[i].to # "broadcast"}) = k
            BY <2>8, <3>3 DEF UnicastsTo
        <5>3. QED BY <2>3, <5>1, <5>2 DEF Unicast
      <4>2. replies'[k] = SubSeq(Reply(executed'[j].pdu, n), 1, cur + 1)
          BY <1>2, <2>3, <2>7, <3>3, <4>1
      <4>3. j \in DOMAIN executed' /\ Unicast(j, k)' /\ cur + 1 \in Nat /\ cur + 1 <= n + 3
          BY <1>2, <2>1, <2>2, <3>1, <4>1
      <4>4. QED BY <4>2, <4>3, Zenon
    <3>4. QED BY <3>2, <3>3
  <2>11. OnTheWay'
    <3>1. pucSndBufferCur' + usSndBufferCount' = n + 3
        BY <1>5, <2>1
    <3>2. Len(replies') > 0 /\ replies'[Len(replies')] = SubSeq(Reply(request', n), 1, pucSndBufferCur')
      <4>1. Len(replies') = Len(replies) /\ replies'[Len(replies)] = SubSeq(r, 1, cur + 1)
          BY <2>7
      <4>2. QED BY <1>2, <1>5, <2>1, <4>1
    <3>3. \A i \in 1..(n + 3) : ucRTUBuf'[i - 1] = Reply(request', n)[i]
        BY <1>2, <1>5
    <3>4. \E l \in ReplyLength :
             /\ pucSndBufferCur' + usSndBufferCount' = l + 3
             /\ \A i \in 1..(l + 3) : ucRTUBuf'[i - 1] = Reply(request', l)[i]
             /\ Len(replies') > 0
             /\ replies'[Len(replies')] = SubSeq(Reply(request', l), 1, pucSndBufferCur')
        BY <3>1, <3>2, <3>3, Zenon
    <3>5. QED BY <1>1, <1>2, <3>4 DEF OnTheWay
  <2>12. QED BY <1>3, <2>9, <2>10, <2>11 DEF Answering
<1>8. QED BY <1>6, <1>7

LEMMA AnsweringStep ==
    ASSUME Timely, LinkInv, Answering, [RestingNext]_remoteVars
    PROVE  Answering'
<1>1. CASE MasterStep \/ StallTick \/ ModulesStep \/ UNCHANGED remoteVars
    BY <1>1, LineKeepsAnswer
<1>2. CASE Interrupt
    BY <1>2, LineKeepsAnswer, AnswerGoesOn DEF Interrupt
<1>3. CASE StackStep
  <2>1. CASE RunHandler
      BY <2>1, HandlerCounts
  <2>2. CASE SendReply
      BY <2>2, AnswerSent
  <2>3. CASE OtherPoll
      BY <2>3, AnswerBuilt, ReceivingKeepsAnswer DEF OtherPoll
  <2>4. QED BY <1>3, <2>1, <2>2, <2>3 DEF StackStep
<1>4. QED BY <1>1, <1>2, <1>3 DEF RestingNext

\* At first nothing has been executed and nothing transmitted.
LEMMA AnsweringInit ==
    ASSUME RemoteInit
    PROVE  Answering
<1>1. executed = <<>> /\ replies = <<>> /\ poll = "get" /\ txie = 0
    BY DEF RemoteInit, LinkInit, Init
<1>2. AnswersLast /\ OnTheWay /\ ~Composing
    BY <1>1 DEF AnswersLast, OnTheWay, ToAnswer, Composing
<1>3. Matched
    BY <1>1 DEF Matched
<1>4. Counted
  <2>1. UnicastsTo(Len(executed)) = {}
      BY <1>1 DEF UnicastsTo
  <2>2. replies \in Seq(Transmitted) /\ Len(replies) = 0
    <3> HIDE DEF Transmitted
    <3>1. QED BY <1>1
  <2>3. QED BY <1>2, <2>1, <2>2, FS_EmptySet DEF Counted
<1>5. QED BY <1>2, <1>3, <1>4 DEF Answering

\* The histories agree with the state all the time.
LEMMA AnsweringInvariant == Timely /\ RemoteSpec => [](LinkInv /\ Answering)
<1> SUFFICES ASSUME Timely PROVE RemoteSpec => [](LinkInv /\ Answering)
    OBVIOUS
<1>1. RemoteInit => Answering
    BY AnsweringInit
<1>2. LinkInv /\ Answering /\ [RestingNext]_remoteVars => Answering'
    BY AnsweringStep
<1>3. QED BY <1>1, <1>2, LinkInvariant, NoIdlePoll, PTL DEF RemoteSpec

\* Whatever the slave transmits is the reply, as far as it has got, to the request for it
\* alone whose turn it is: broadcasts are not answered, no request twice, and no later frame
\* gets into a reply through the one buffer (mb.c:393-406, mbrtu.c:194-217).
THEOREM RemoteRepliesMatch == Timely /\ RemoteSpec => []RepliesMatch
<1>1. Answering => RepliesMatch
  <2> SUFFICES ASSUME Answering, NEW k \in DOMAIN replies
               PROVE  \E j \in DOMAIN executed, n \in ReplyLength :
                        Unicast(j, k) /\ IsPrefix(replies[k], Reply(executed[j].pdu, n))
      BY DEF RepliesMatch
  <2>1. PICK j \in DOMAIN executed, n \in ReplyLength, i \in Nat :
          /\ i <= n + 3 /\ Unicast(j, k)
          /\ replies[k] = SubSeq(Reply(executed[j].pdu, n), 1, i)
      BY DEF Answering, Matched
  <2>2. Len(Reply(executed[j].pdu, n)) = n + 3 /\ \E S : Reply(executed[j].pdu, n) \in Seq(S)
      BY ReplyLengths, ReplyByte
  <2>3. i \in 0..(n + 3)
      BY <2>1, ReplyLengths
  <2>4. IsPrefix(replies[k], Reply(executed[j].pdu, n))
      BY <2>1, <2>2, <2>3, Beginning
  <2>5. QED BY <2>1, <2>4
<1>2. QED BY <1>1, AnsweringInvariant, PTL
==============================================================================
