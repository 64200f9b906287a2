----------------------------- MODULE RegisterMap -----------------------------
(* The four register arrays of modbus.cpp and what a request does to them: the  *)
(* handlers of freemodbus/modbus/functions, which eMBPoll calls on the frame     *)
(* buffer, the register callbacks they call, and the exception reply.  The       *)
(* handlers read a PDU and overwrite it with their reply, so they are functions  *)
(* of the whole buffer, the bytes behind the request included.                   *)
EXTENDS Integers, Sequences

CONSTANTS
    REG_COIL_NREGS, REG_DISCRETE_NREGS,     \* 32 and 24 in the code
    REG_HOLDING_NREGS, REG_INPUT_NREGS,     \* 4 and 11
    PduSize,       \* bytes of ucRTUBuf from the PDU on: 255
    Received,      \* what eMBPoll may find in the buffer at EV_EXECUTE
    SensedBit,     \* index and byte of what GpioModule puts into discrete inputs
    SensedCount    \* index and value of what it puts into input registers

Byte == 0..255
Half == 0..65535    \* a USHORT

REG_COIL_START     == 1       \* 0x0001
REG_DISCRETE_START == 4097    \* 0x1001
REG_HOLDING_START  == 16385   \* 0x4001
REG_INPUT_START    == 12289   \* 0x3001

\* The four arrays: how many registers each has, and the address of the first.
Nregs == [coil |-> REG_COIL_NREGS, discrete |-> REG_DISCRETE_NREGS,
          holding |-> REG_HOLDING_NREGS, input |-> REG_INPUT_NREGS]
Start == [coil |-> REG_COIL_START, discrete |-> REG_DISCRETE_START,
          holding |-> REG_HOLDING_START, input |-> REG_INPUT_START]

\* The frame buffer from the function code on, the length of the PDU in it, and
\* whether it came to this slave alone.
Frame == [frame : [0..(PduSize - 1) -> Byte], usLen : 1..(PduSize - 2), unicast : BOOLEAN]

ASSUME MapAssumption ==
    /\ REG_COIL_NREGS \in 1..4096 /\ REG_DISCRETE_NREGS \in 1..4096
    /\ REG_HOLDING_NREGS \in 1..4096 /\ REG_INPUT_NREGS \in 1..4096
    /\ PduSize \in 12..255
    \* the longest accesses of the buffer, and the CRC behind a reply
    /\ REG_COIL_NREGS + 6 <= PduSize /\ REG_DISCRETE_NREGS + 2 <= PduSize
    /\ 2 * REG_HOLDING_NREGS + 10 <= PduSize /\ 2 * REG_INPUT_NREGS + 4 <= PduSize
    /\ Received \subseteq Frame
    /\ SensedBit \subseteq ((0..(REG_DISCRETE_NREGS - 1)) \X Byte)
    /\ SensedCount \subseteq ((0..(REG_INPUT_NREGS - 1)) \X Half)

VARIABLES
    usRegCoilBuf, usRegDiscreteBuf, usRegHoldingBuf, usRegInputBuf,
    request,   \* the request executed last
    reply,     \* the PDU sent for it, empty after a broadcast
    span       \* the accesses the callbacks made for it

arrays  == <<usRegCoilBuf, usRegDiscreteBuf, usRegHoldingBuf, usRegInputBuf>>
mapVars == <<arrays, request, reply, span>>

Exception == {"MB_EX_NONE", "MB_EX_ILLEGAL_FUNCTION", "MB_EX_ILLEGAL_DATA_ADDRESS",
              "MB_EX_ILLEGAL_DATA_VALUE"}

(* ------------------------------ callbacks -------------------------------------- *)

\* Two bytes of the buffer as a USHORT, and the register address made of them.
Word(f, i)         == 256 * f[i] + f[i + 1]
usRegAddress(f, i) == (Word(f, i) + 1) % 65536

\* Mutant: one register past the end is let through.
InRangeOrNext(a, n, start, nregs) == a >= start /\ a + n <= start + nregs + 1

\* The range check of the callbacks.
InRange(a, n, start, nregs) == a >= start /\ a + n <= start + nregs

\* A register as the callbacks index it.  Beyond the array lies something else,
\* 0 here; AccessesInBounds says that it is never looked at.
Cell(regs, i) == IF i \in DOMAIN regs THEN regs[i] ELSE 0

\* One byte per coil or discrete input ...
BitBytes(regs, first, n) == [k \in 0..(n - 1) |-> Cell(regs, first + k)]

\* Mutant: the low byte first.
LowByteFirst(regs, first, n) ==
    [k \in 0..(2 * n - 1) |-> IF k % 2 = 0 THEN Cell(regs, first + k \div 2) % 256
                                           ELSE Cell(regs, first + k \div 2) \div 256]

\* ... and two per register, the high one first.
RegBytes(regs, first, n) ==
    [k \in 0..(2 * n - 1) |-> IF k % 2 = 0 THEN Cell(regs, first + k \div 2) \div 256
                                           ELSE Cell(regs, first + k \div 2) % 256]

\* What a write of n registers from the bytes at position at makes of the array.
BitsWritten(regs, first, n, f, at) ==
    [i \in DOMAIN regs |-> IF i - first \in 0..(n - 1) THEN f[at + i - first] ELSE regs[i]]
RegsWritten(regs, first, n, f, at) ==
    [i \in DOMAIN regs |-> IF i - first \in 0..(n - 1) THEN Word(f, at + 2 * (i - first))
                                                       ELSE regs[i]]

\* An access of a callback: n registers of an array, bytes bytes of the buffer.
Access(array, first, n, at, bytes) ==
    [array |-> array, first |-> first, count |-> n, at |-> at, bytes |-> bytes]

(* ------------------------------ handlers ---------------------------------------- *)

\* What a handler leaves: an exception, the length of the reply in the buffer, the
\* arrays it can write, and its accesses.
Result(m, eException, usLen) ==
    [eException |-> eException, frame |-> m.frame, usLen |-> usLen,
     coil |-> usRegCoilBuf, holding |-> usRegHoldingBuf, span |-> {}]

IllegalValue(m)   == Result(m, "MB_EX_ILLEGAL_DATA_VALUE", m.usLen)
IllegalAddress(m) == Result(m, "MB_EX_ILLEGAL_DATA_ADDRESS", m.usLen)

\* The checks every handler makes, in this order, before it lets a callback work.
Checked(m, legal, inRange, result) ==
    IF ~legal THEN IllegalValue(m) ELSE IF ~inRange THEN IllegalAddress(m) ELSE result

\* A read reply: function code, number of bytes, and the bytes of the callback.
ReadReply(m, len, bytes, access) ==
    [Result(m, "MB_EX_NONE", 2 + len) EXCEPT
        !.frame = [i \in DOMAIN m.frame |-> IF i = 1 THEN len
                                            ELSE IF i - 2 \in DOMAIN bytes THEN bytes[i - 2]
                                            ELSE m.frame[i]],
        !.span = {access}]

\* eMBFuncReadCoils and eMBFuncReadDiscreteInputs: the length counts eight bits to
\* a byte, the callback stores one.
ReadBits(m, array, regs, start, nregs) ==
    LET a == usRegAddress(m.frame, 1)
        n == Word(m.frame, 3)
    IN  Checked(m, m.usLen = 5 /\ n \in 1..1999, InRange(a, n, start, nregs),
                ReadReply(m, (n + 7) \div 8, BitBytes(regs, a - start, n),
                          Access(array, a - start, n, 2, n)))

\* eMBFuncReadHoldingRegister and eMBFuncReadInputRegister, for n registers.
ReadRegs(m, array, n, max, regs, start, nregs) ==
    LET a == usRegAddress(m.frame, 1)
    IN  Checked(m, m.usLen = 5 /\ n \in 1..max, InRange(a, n, start, nregs),
                ReadReply(m, 2 * n, RegBytes(regs, a - start, n),
                          Access(array, a - start, n, 2, 2 * n)))

\* The number of registers eMBFuncReadHoldingRegister reads: its second assignment
\* to usRegCount overwrites the first, the high byte is lost.
HoldingCount(f) == f[4]

\* eMBFuncWriteCoil: 0xFF00 sets the coil, 0 resets it; the reply is the request.
eMBFuncWriteCoil(m) ==
    LET a == usRegAddress(m.frame, 1)
        i == a - REG_COIL_START
    IN  Checked(m, m.usLen = 5 /\ m.frame[3] \in {0, 255} /\ m.frame[4] = 0,
                InRange(a, 1, REG_COIL_START, REG_COIL_NREGS),
                [Result(m, "MB_EX_NONE", 5) EXCEPT
                    !.coil = [j \in DOMAIN usRegCoilBuf |->
                                IF j # i THEN usRegCoilBuf[j]
                                ELSE IF m.frame[3] = 255 THEN 1 ELSE 0],
                    !.span = {Access("coil", i, 1, 3, 2)}])

\* eMBFuncWriteMultipleCoils.
eMBFuncWriteMultipleCoils(m) ==
    LET a == usRegAddress(m.frame, 1)
        n == Word(m.frame, 3)
    IN  Checked(m, m.usLen > 5 /\ n \in 1..1968 /\ (n + 7) \div 8 = m.frame[5],
                InRange(a, n, REG_COIL_START, REG_COIL_NREGS),
                [Result(m, "MB_EX_NONE", 5) EXCEPT
                    !.coil = BitsWritten(usRegCoilBuf, a - REG_COIL_START, n, m.frame, 6),
                    !.span = {Access("coil", a - REG_COIL_START, n, 6, n)}])

\* A write of n holding registers from the bytes at position at.
WriteRegs(m, a, n, at) ==
    [Result(m, "MB_EX_NONE", 5) EXCEPT
        !.holding = RegsWritten(usRegHoldingBuf, a - REG_HOLDING_START, n, m.frame, at),
        !.span = {Access("holding", a - REG_HOLDING_START, n, at, 2 * n)}]

InHolding(a, n) == InRange(a, n, REG_HOLDING_START, REG_HOLDING_NREGS)

eMBFuncWriteHoldingRegister(m) ==
    LET a == usRegAddress(m.frame, 1)
    IN  Checked(m, m.usLen = 5, InHolding(a, 1), WriteRegs(m, a, 1, 3))

eMBFuncWriteMultipleHoldingRegister(m) ==
    LET a == usRegAddress(m.frame, 1)
        n == Word(m.frame, 3)
    IN  Checked(m, m.usLen >= 6 /\ n \in 1..120 /\ m.frame[5] = (2 * n) % 256,
                InHolding(a, n), WriteRegs(m, a, n, 6))

\* Mutant: the registers are read before they are written.
ReadFirst(written) == usRegHoldingBuf

\* The registers the read part of function 23 sees.
ReadAfterWrite(written) == written

\* eMBFuncReadWriteMultipleHoldingRegister: a request that is too short is returned
\* as it came; when the range of the read is refused the write is done.
eMBFuncReadWriteMultipleHoldingRegister(m) ==
    LET a == usRegAddress(m.frame, 1)
        n == Word(m.frame, 3)
        b == usRegAddress(m.frame, 5)
        k == Word(m.frame, 7)
        w == WriteRegs(m, b, k, 10)
        r == ReadReply(m, 2 * n,
                       RegBytes(ReadAfterWrite(w.holding), a - REG_HOLDING_START, n),
                       Access("holding", a - REG_HOLDING_START, n, 2, 2 * n))
    IN  IF m.usLen < 10 THEN Result(m, "MB_EX_NONE", m.usLen)
        ELSE Checked(m, n \in 1..125 /\ k \in 1..121 /\ 2 * k = m.frame[9], InHolding(b, k),
                     IF InHolding(a, n)
                     THEN [r EXCEPT !.holding = w.holding, !.span = r.span \cup w.span]
                     ELSE [w EXCEPT !.eException = "MB_EX_ILLEGAL_DATA_ADDRESS"])

\* eMBFuncReportSlaveID: nobody calls eMBSetSlaveID, so the ID is empty.
eMBFuncReportSlaveID(m) == Result(m, "MB_EX_NONE", 1)

\* xFuncHandlers, and the loop of eMBPoll that searches it.
Handler(m) ==
    CASE m.frame[0] = 1  -> ReadBits(m, "coil", usRegCoilBuf, REG_COIL_START, REG_COIL_NREGS)
      [] m.frame[0] = 2  -> ReadBits(m, "discrete", usRegDiscreteBuf,
                                     REG_DISCRETE_START, REG_DISCRETE_NREGS)
      [] m.frame[0] = 3  -> ReadRegs(m, "holding", HoldingCount(m.frame), 125,
                                     usRegHoldingBuf, REG_HOLDING_START, REG_HOLDING_NREGS)
      [] m.frame[0] = 4  -> ReadRegs(m, "input", Word(m.frame, 3), 124,
                                     usRegInputBuf, REG_INPUT_START, REG_INPUT_NREGS)
      [] m.frame[0] = 5  -> eMBFuncWriteCoil(m)
      [] m.frame[0] = 6  -> eMBFuncWriteHoldingRegister(m)
      [] m.frame[0] = 15 -> eMBFuncWriteMultipleCoils(m)
      [] m.frame[0] = 16 -> eMBFuncWriteMultipleHoldingRegister(m)
      [] m.frame[0] = 17 -> eMBFuncReportSlaveID(m)
      [] m.frame[0] = 23 -> eMBFuncReadWriteMultipleHoldingRegister(m)
      [] OTHER           -> Result(m, "MB_EX_ILLEGAL_FUNCTION", m.usLen)

\* The exception reply: the function code with MB_FUNC_ERROR set, the exception.
ExceptionCode(e) == CASE e = "MB_EX_ILLEGAL_FUNCTION"     -> 1
                      [] e = "MB_EX_ILLEGAL_DATA_ADDRESS" -> 2
                      [] OTHER                            -> 3

\* Mutant: the error bit is added and not set.
ErrorBitAdded(code) == code + 128

ErrorBit(code) == IF code < 128 THEN code + 128 ELSE code

(* ------------------------------ behaviour ---------------------------------------- *)

\* The PDU of n bytes in the buffer.
Pdu(f, n) == [i \in 1..n |-> f[i - 1]]

\* The arrays as modbus.cpp initialises them: the latches read "low".
Init ==
    /\ usRegCoilBuf = [i \in 0..(REG_COIL_NREGS - 1) |-> 0]
    /\ usRegDiscreteBuf = [i \in 0..(REG_DISCRETE_NREGS - 1) |-> IF i \in 8..15 THEN 1 ELSE 0]
    /\ usRegHoldingBuf = [i \in 0..(REG_HOLDING_NREGS - 1) |-> 0]
    /\ usRegInputBuf = [i \in 0..(REG_INPUT_NREGS - 1) |-> 0]
    /\ request = <<>> /\ reply = <<>> /\ span = {}

\* EV_EXECUTE: the handler runs on the frame; a broadcast gets no reply.
Execute(m) ==
    LET r == Handler(m)
    IN  /\ usRegCoilBuf' = r.coil /\ usRegHoldingBuf' = r.holding
        /\ span' = r.span
        /\ request' = Pdu(m.frame, m.usLen)
        /\ reply' = IF ~m.unicast THEN <<>>
                    ELSE IF r.eException = "MB_EX_NONE" THEN Pdu(r.frame, r.usLen)
                    ELSE <<ErrorBit(m.frame[0]), ExceptionCode(r.eException)>>
        /\ UNCHANGED <<usRegDiscreteBuf, usRegInputBuf>>

\* GpioModule's handlers store inputs, latches and counters.
SenseBit ==
    /\ \E s \in SensedBit : usRegDiscreteBuf' = [usRegDiscreteBuf EXCEPT ![s[1]] = s[2]]
    /\ UNCHANGED <<usRegCoilBuf, usRegHoldingBuf, usRegInputBuf, request, reply, span>>

SenseCount ==
    /\ \E s \in SensedCount : usRegInputBuf' = [usRegInputBuf EXCEPT ![s[1]] = s[2]]
    /\ UNCHANGED <<usRegCoilBuf, usRegDiscreteBuf, usRegHoldingBuf, request, reply, span>>

\* GpioModule::run resets LATCH_CLEAR and COUNTERi_CLEAR when it has obeyed them.
ClearCoil == 16..24

ResetClear ==
    /\ \E i \in ClearCoil \cap DOMAIN usRegCoilBuf :
         usRegCoilBuf[i] # 0 /\ usRegCoilBuf' = [usRegCoilBuf EXCEPT ![i] = 0]
    /\ UNCHANGED <<usRegDiscreteBuf, usRegHoldingBuf, usRegInputBuf, request, reply, span>>

Next == (\E m \in Received : Execute(m)) \/ SenseBit \/ SenseCount \/ ResetClear

Spec == Init /\ [][Next]_mapVars

(* ------------------------------ Modbus::get_iterator ------------------------------ *)

\* _get_type: the upper bounds are one too large.
_get_type(address) ==
    CASE address \in REG_COIL_START..(REG_COIL_START + REG_COIL_NREGS)             -> "coil"
      [] address \in REG_DISCRETE_START..(REG_DISCRETE_START + REG_DISCRETE_NREGS) -> "discrete"
      [] address \in REG_HOLDING_START..(REG_HOLDING_START + REG_HOLDING_NREGS)    -> "holding"
      [] address \in REG_INPUT_START..(REG_INPUT_START + REG_INPUT_NREGS)          -> "input"
      [] OTHER                                                                     -> "error"

\* Where get_iterator points: an array and an index, or nullptr.
get_iterator(address) ==
    LET type == _get_type(address)
    IN  IF type # "error" /\ address < Nregs[type] + Start[type]
        THEN <<type, address - Start[type]>> ELSE <<"nullptr", 0>>

(* ------------------------------ properties ---------------------------------------- *)

\* The arrays hold what their types allow, and every element of a reply is a byte.
TypeOK ==
    /\ usRegCoilBuf \in [0..(REG_COIL_NREGS - 1) -> Byte]
    /\ usRegDiscreteBuf \in [0..(REG_DISCRETE_NREGS - 1) -> Byte]
    /\ usRegHoldingBuf \in [0..(REG_HOLDING_NREGS - 1) -> Half]
    /\ usRegInputBuf \in [0..(REG_INPUT_NREGS - 1) -> Half]
    /\ reply \in Seq(Byte)

\* Whatever address, count and length a request has, the callbacks touch no register
\* outside the array it names and no byte outside the frame buffer, and the reply
\* leaves room for the CRC (eMBRTUSend appends it unasked).
AccessesInBounds ==
    /\ \A s \in span : /\ s.first >= 0 /\ s.first + s.count <= Nregs[s.array]
                       /\ s.at + s.bytes <= PduSize
    /\ Len(reply) <= PduSize - 2

(* What a request asks for and a reply says, read as the Modbus application protocol *)
(* defines them: RegisterStore's view.  A coil or an input is set when its byte is   *)
(* not 0, and a master reads or writes one at a time.                                *)
At(p, i) == 256 * p[i] + p[i + 1]

Registers(array, p, i, n) == [array |-> array, first |-> At(p, i) + 1 - Start[array], count |-> n]

Values(array, p, i, values) ==
    [array |-> array, first |-> At(p, i) + 1 - Start[array], count |-> Len(values),
     values |-> values]

Words(p, i, n) == [k \in 1..n |-> At(p, i + 2 * (k - 1))]

ReadArray == <<"coil", "discrete", "holding", "input">>

Meaning(p) ==
    CASE p = <<>> -> [op |-> "none"]
      [] Len(p) = 5 /\ p[1] \in 1..4 /\ At(p, 4) \in 1..124 ->
           [op |-> "read", read |-> Registers(ReadArray[p[1]], p, 2, At(p, 4))]
      [] Len(p) = 5 /\ p[1] = 5 /\ At(p, 4) \in {0, 65280} ->
           [op |-> "write", write |-> Values("coil", p, 2, <<IF At(p, 4) = 0 THEN 0 ELSE 1>>)]
      [] Len(p) = 5 /\ p[1] = 6 ->
           [op |-> "write", write |-> Values("holding", p, 2, <<At(p, 4)>>)]
      [] Len(p) = 7 /\ p[1] = 15 /\ At(p, 4) = 1 /\ p[6] = 1 /\ p[7] \in {0, 1} ->
           [op |-> "write", write |-> Values("coil", p, 2, <<p[7]>>)]
      [] Len(p) > 6 /\ p[1] = 16 /\ p[6] = 2 * At(p, 4) /\ Len(p) = 6 + p[6] ->
           [op |-> "write", write |-> Values("holding", p, 2, Words(p, 7, At(p, 4)))]
      [] Len(p) > 10 /\ p[1] = 23 /\ p[10] = 2 * At(p, 8) /\ Len(p) = 10 + p[10]
         /\ At(p, 4) \in 1..125 ->
           [op |-> "exchange", read |-> Registers("holding", p, 2, At(p, 4)),
            write |-> Values("holding", p, 6, Words(p, 11, At(p, 8)))]
      [] p # <<>> /\ (p[1] = 17 \/ (p[1] = 23 /\ Len(p) < 10)) -> [op |-> "report"]
      [] OTHER -> [op |-> "other"]

Asked == Meaning(request)

\* The values in a read reply; a reply that does not hold as many as were asked for,
\* or an acknowledgement that does not repeat the request, says nothing.
BitReply(r, q) == r.count = 1 /\ Len(q) = 3 /\ q[2] = 1
RegReply(r, q) == q[2] = 2 * r.count /\ Len(q) = 2 + q[2]

Says(kind, values) == [kind |-> kind, values |-> values]

ReadValues(r, q) ==
    IF r.array \in {"coil", "discrete"}
    THEN IF BitReply(r, q) THEN Says("done", <<IF q[3] = 0 THEN 0 ELSE 1>>)
                           ELSE Says("garbled", <<>>)
    ELSE IF RegReply(r, q) THEN Says("done", Words(q, 3, r.count))
                           ELSE Says("garbled", <<>>)

Outcome(p, q) ==
    LET a == Meaning(p)
    IN  IF q = <<>> THEN Says("none", <<>>)
        ELSE IF q[1] >= 128 THEN Says("refused", <<>>)
        ELSE IF a.op \in {"read", "exchange"} THEN ReadValues(a.read, q)
        ELSE IF a.op = "report" \/ q = SubSeq(p, 1, 5) THEN Says("done", <<>>)
        ELSE Says("garbled", <<>>)

Answered == Outcome(request, reply)

Levels(regs) == [i \in DOMAIN regs |-> IF regs[i] = 0 THEN 0 ELSE 1]

StoreView == [coil     |-> Levels(usRegCoilBuf), discrete |-> Levels(usRegDiscreteBuf),
              holding  |-> usRegHoldingBuf,      input    |-> usRegInputBuf]

Store == INSTANCE RegisterStore WITH
    Nregs <- Nregs, store <- StoreView, asked <- Asked, answer <- Answered

\* The requests RegisterStore has a word for: bits one at a time (run coils), a count of
\* function 3 that fits its one byte, as many bytes to write as announced, and no array
\* longer than the longest write.
Understood ==
    /\ REG_HOLDING_NREGS <= 120
    /\ \A m \in Received :
         LET f == m.frame
         IN  /\ f[0] \in {1, 2} /\ m.usLen = 5 => Word(f, 3) <= 1
             /\ f[0] = 3 /\ m.usLen = 5 => f[3] = 0
             /\ f[0] = 15 /\ m.usLen > 5 =>
                  m.usLen = 7 /\ Word(f, 3) <= 1 /\ f[6] \in {0, 1}
             /\ f[0] = 16 /\ m.usLen > 5 /\ f[5] = 2 * Word(f, 3) => m.usLen = 6 + f[5]
             /\ f[0] = 23 /\ m.usLen > 9 /\ f[9] = 2 * Word(f, 7) => m.usLen = 10 + f[9]

\* Bytes, big-endian words, addresses counted from 1 and ranges together make the
\* store of RegisterStore: every register that exists can be read and written, no
\* other one changes, what is acknowledged is done, what is refused is not.
ImplementsStore == Store!Spec

\* The bits are packed in bytes, the first coil in the LSB of the first byte
\* (mb.h:356-358, for the requests as for the replies).
Bit(p, i, k) == (p[i + k \div 8] \div 2 ^ (k % 8)) % 2

PackedBits ==
    [][LET p == request'
           first == At(p, 2)
       IN  reply' # <<>> /\ reply'[1] = p[1] =>
             /\ p[1] = 1 => \A k \in 0..(At(p, 4) - 1) :
                              Bit(reply', 3, k) = 1 <=> usRegCoilBuf[first + k] # 0
             /\ p[1] = 15 => \A k \in 0..(At(p, 4) - 1) :
                               Bit(p, 7, k) = 1 <=> usRegCoilBuf'[first + k] # 0]_mapVars
===============================================================================
