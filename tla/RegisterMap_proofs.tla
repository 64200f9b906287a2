------------------------- MODULE RegisterMap_proofs -------------------------
(* Proofs about RegisterMap: whatever is in the frame buffer, the arrays and the  *)
(* reply keep their types, and no access leaves an array or the buffer.           *)
EXTENDS RegisterMap, SequenceTheorems, TLAPS

BufferOK(f) == f \in [0..(PduSize - 1) -> Byte]

\* An access lies in its array and in the buffer.
AccessOK(s) ==
    /\ s.first >= 0 /\ s.first + s.count <= Nregs[s.array]
    /\ s.at + s.bytes <= PduSize

\* What every handler leaves.
ResultOK(r) ==
    /\ r.coil \in [0..(REG_COIL_NREGS - 1) -> Byte]
    /\ r.holding \in [0..(REG_HOLDING_NREGS - 1) -> Half]
    /\ BufferOK(r.frame) /\ r.usLen \in 1..(PduSize - 2)
    /\ \A s \in r.span : AccessOK(s)

\* What a read puts into the buffer, and the reply it makes.
BytesOK(bytes)  == \A k \in DOMAIN bytes : bytes[k] \in Byte
HalvesOK(words) == \A k \in DOMAIN words : words[k] \in Half

ReadOK(len, bytes, access) ==
    len \in 1..255 /\ len <= PduSize - 4 /\ BytesOK(bytes) /\ AccessOK(access)

\* An array whose reads fit into the buffer, eight bits or one register at a time.
BitArray(array, regs, N, start) ==
    /\ N \in 1..4096 /\ start \in Nat /\ BytesOK(regs)
    /\ Nregs[array] = N /\ N + 2 <= PduSize
RegArray(array, regs, N, start) ==
    /\ N \in 1..4096 /\ start \in Nat /\ HalvesOK(regs)
    /\ Nregs[array] = N /\ 2 * N + 4 <= PduSize

(* ------------------------------ words and ranges -------------------------------- *)

\* A USHORT is a number below 65536; where the arrays begin.
LEMMA HalfIs == \A h : h \in Half <=> h \in Nat /\ h <= 65535
<1>1. PICK k : k = 65535
  OBVIOUS
<1>2. Half = 0..k
  BY <1>1, SMTT(20) DEF Half
<1>3. k \in Nat
  BY <1>1
<1>4. \A h : h \in 0..k <=> h \in Nat /\ h <= k
  BY <1>3
<1>5. \A h : h \in Half <=> h \in Nat /\ h <= k
  BY <1>2, <1>4
<1> QED
  BY <1>1, <1>5

LEMMA ByteIs == \A b : b \in Byte <=> b \in Nat /\ b <= 255
BY SMTT(20) DEF Byte

LEMMA Starts == /\ REG_COIL_START \in Nat /\ REG_DISCRETE_START \in Nat
                /\ REG_HOLDING_START \in Nat /\ REG_INPUT_START \in Nat
BY SMTT(20) DEF REG_COIL_START, REG_DISCRETE_START, REG_HOLDING_START, REG_INPUT_START

\* The byte count of a write of no more than 120 registers is a byte.
LEMMA ShortCount ==
    ASSUME NEW n \in Nat, n <= 120
    PROVE  (2 * n) % 256 = 2 * n
BY SMTT(20)

\* Two bytes make a USHORT, and a USHORT two bytes.
LEMMA WordOfBytes ==
    ASSUME NEW x \in Byte, NEW y \in Byte
    PROVE  256 * x + y \in Half
BY HalfIs, ByteIs, SMTT(20)

LEMMA BytesOfWord ==
    ASSUME NEW h \in Half
    PROVE  h \div 256 \in Byte /\ h % 256 \in Byte
<1>1. h \in Nat /\ h <= 65535
  BY HalfIs
<1>2. h % 256 \in 0..255
  BY <1>1
<1>3. h \div 256 \in Int /\ h \div 256 >= 0
  BY <1>1
<1>4. h \div 256 <= 255
  BY <1>1
<1> DEFINE q == h \div 256
<1> HIDE DEF q
<1>5. q \in 0..255
  BY <1>3, <1>4 DEF q
<1> QED
  BY <1>2, <1>5 DEF Byte, q

LEMMA WordType ==
    ASSUME NEW g, BufferOK(g), NEW j \in 0..(PduSize - 2)
    PROVE  Word(g, j) \in Half
<1>1. g[j] \in Byte /\ g[j + 1] \in Byte
  BY MapAssumption DEF MapAssumption, BufferOK
<1> QED
  BY <1>1, WordOfBytes, Zenon DEF Word

\* What follows a USHORT, and what is left of a number in one.
LEMMA HalfSuccessor ==
    ASSUME NEW h \in Half
    PROVE  h + 1 \in Nat
BY HalfIs

LEMMA Truncated ==
    ASSUME NEW n \in Nat
    PROVE  n % 65536 \in Half
BY HalfIs, SMTT(60)

\* A register address is a USHORT, after the increment, too.
LEMMA AddressType ==
    ASSUME NEW g, BufferOK(g), NEW j \in 0..(PduSize - 2)
    PROVE  usRegAddress(g, j) \in Half
<1> DEFINE n == Word(g, j) + 1
<1>1. n \in Nat
  BY WordType, HalfSuccessor, Zenon
<1>2. usRegAddress(g, j) = n % 65536
  BY SMT DEF usRegAddress
<1> HIDE DEF n
<1>3. n % 65536 \in Half
  BY <1>1, Truncated, SMT
<1> QED
  BY <1>2, <1>3

\* What the range check says about index and count.
LEMMA RangeBounds ==
    ASSUME NEW a \in Half, NEW n \in Half, NEW start \in Nat, NEW nregs \in Nat,
           InRange(a, n, start, nregs)
    PROVE  a - start \in Nat /\ (a - start) + n <= nregs /\ n <= nregs
BY HalfIs DEF InRange

(* ------------------------------ building blocks ---------------------------------- *)

\* A result before anything was done.
LEMMA PlainResult ==
    ASSUME TypeOK, NEW m \in Frame, NEW e, NEW n \in 1..(PduSize - 2)
    PROVE  ResultOK(Result(m, e, n))
BY DEF Result, ResultOK, TypeOK, Frame, BufferOK

\* The checks let a result through or replace it by an exception.
LEMMA CheckedOK ==
    ASSUME TypeOK, NEW m \in Frame, NEW legal, NEW inRange, NEW r,
           legal /\ inRange => ResultOK(r)
    PROVE  ResultOK(Checked(m, legal, inRange, r))
<1>1. m.usLen \in 1..(PduSize - 2)
  BY DEF Frame
<1>2. ResultOK(IllegalValue(m)) /\ ResultOK(IllegalAddress(m))
  BY <1>1, PlainResult DEF IllegalValue, IllegalAddress
<1>3. CASE ~legal
  BY <1>2, <1>3 DEF Checked
<1>4. CASE legal /\ ~inRange
  BY <1>2, <1>4 DEF Checked
<1>5. CASE legal /\ inRange
  BY <1>5 DEF Checked
<1> QED
  BY <1>3, <1>4, <1>5

\* A read reply is in order when its bytes are bytes and its access is.
LEMMA ReadReplyOK ==
    ASSUME TypeOK, NEW m \in Frame, NEW len, NEW bytes, NEW access, ReadOK(len, bytes, access)
    PROVE  ResultOK(ReadReply(m, len, bytes, access))
<1> DEFINE r0 == Result(m, "MB_EX_NONE", 2 + len)
           g  == [i \in DOMAIN m.frame |-> IF i = 1 THEN len
                                           ELSE IF i - 2 \in DOMAIN bytes THEN bytes[i - 2]
                                           ELSE m.frame[i]]
<1>1. m.frame \in [0..(PduSize - 1) -> Byte]
  BY DEF Frame
<1> USE DEF ReadOK
<1>2. BufferOK(g)
  <2>1. DOMAIN m.frame = 0..(PduSize - 1)
    BY <1>1
  <2>2. ASSUME NEW i \in 0..(PduSize - 1)
        PROVE  g[i] \in Byte
    <3>1. m.frame[i] \in Byte
      BY <1>1
    <3>2. CASE i = 1
      BY <2>1, <3>2 DEF Byte
    <3>3. CASE i # 1
      BY <2>1, <3>1, <3>3, Zenon DEF BytesOK
    <3> QED
      BY <3>2, <3>3
  <2> QED
    BY <2>1, <2>2 DEF BufferOK
<1>3. ResultOK(r0)
  <2>1. 2 + len \in 1..(PduSize - 2)
    BY MapAssumption DEF MapAssumption
  <2> QED
    BY <2>1, PlainResult
<1>4. ReadReply(m, len, bytes, access) = [r0 EXCEPT !.frame = g, !.span = {access}]
  BY DEF ReadReply
<1> HIDE DEF g
<1> QED
  BY <1>2, <1>3, <1>4 DEF ResultOK, Result

\* The bytes of a read are bytes.
LEMMA RegBytesOK ==
    ASSUME NEW regs, HalvesOK(regs), NEW first, NEW n
    PROVE  BytesOK(RegBytes(regs, first, n))
<1> SUFFICES ASSUME NEW k \in 0..(2 * n - 1)
             PROVE  RegBytes(regs, first, n)[k] \in Byte
  BY DEF RegBytes, BytesOK
<1>1. ASSUME NEW i
      PROVE  Cell(regs, i) \in Half
  <2>1. CASE i \in DOMAIN regs
    BY <2>1 DEF Cell, HalvesOK
  <2>2. CASE i \notin DOMAIN regs
    BY <2>2, HalfIs DEF Cell
  <2> QED
    BY <2>1, <2>2
<1>2. RegBytes(regs, first, n)[k] = IF k % 2 = 0 THEN Cell(regs, first + k \div 2) \div 256
                                                 ELSE Cell(regs, first + k \div 2) % 256
  BY Zenon DEF RegBytes
<1>3. /\ Cell(regs, first + k \div 2) \div 256 \in Byte
      /\ Cell(regs, first + k \div 2) % 256 \in Byte
  BY <1>1, BytesOfWord, Zenon
<1> QED
  BY <1>2, <1>3, Zenon

LEMMA BitBytesOK ==
    ASSUME NEW regs, BytesOK(regs), NEW first, NEW n
    PROVE  BytesOK(BitBytes(regs, first, n))
<1>1. ASSUME NEW i
      PROVE  Cell(regs, i) \in Byte
  <2>1. CASE i \in DOMAIN regs
    BY <2>1 DEF Cell, BytesOK
  <2>2. CASE i \notin DOMAIN regs
    BY <2>2 DEF Cell, Byte
  <2> QED
    BY <2>1, <2>2
<1> QED
  BY <1>1, Zenon DEF BitBytes, BytesOK

(* ------------------------------ reads -------------------------------------------- *)

\* Reading bits: eight to a byte in the length, one to a byte in the buffer.
LEMMA ReadBitsOK ==
    ASSUME TypeOK, NEW m \in Frame, NEW array, NEW N, NEW regs, NEW start,
           BitArray(array, regs, N, start)
    PROVE  ResultOK(ReadBits(m, array, regs, start, N))
<1> DEFINE a == usRegAddress(m.frame, 1)
           n == Word(m.frame, 3)
           legal == m.usLen = 5 /\ n \in 1..1999
           inRange == InRange(a, n, start, N)
           bytes == BitBytes(regs, a - start, n)
           len == (n + 7) \div 8
           access == Access(array, a - start, n, 2, n)
           r == ReadReply(m, len, bytes, access)
<1>0. /\ N \in 1..4096 /\ start \in Nat /\ BytesOK(regs)
      /\ Nregs[array] = N /\ N + 2 <= PduSize
  BY DEF BitArray
<1>1. PduSize \in 12..255
  BY MapAssumption DEF MapAssumption
<1>2. a \in Half /\ n \in Half
  BY <1>1, WordType, AddressType DEF Frame, BufferOK
<1>3. ReadBits(m, array, regs, start, N) = Checked(m, legal, inRange, r)
  BY DEF ReadBits
<1> HIDE DEF a, n
<1>4. ASSUME legal, inRange
      PROVE  ResultOK(r)
  <2>1. a - start \in Nat /\ (a - start) + n <= N /\ n <= N
    BY <1>0, <1>2, <1>4, RangeBounds
  <2>2. n \in 1..253 /\ n + 2 <= PduSize
    <3>1. n \in 1..1999 /\ PduSize \in 12..255 /\ N \in 1..4096 /\ N + 2 <= PduSize
      BY <1>0, <1>1, <1>4, SMTT(20)
    <3> QED
      BY <2>1, <3>1
  <2>3. len \in 1..255 /\ len <= PduSize - 4
    BY <1>1, <2>2
  <2>4. BytesOK(bytes)
    BY <1>0, BitBytesOK
  <2>5. AccessOK(access)
    BY <1>0, <2>1, <2>2 DEF AccessOK, Access
  <2> HIDE DEF len, bytes, access
  <2> QED
    BY <2>3, <2>4, <2>5, ReadReplyOK DEF ReadOK
<1> HIDE DEF legal, inRange, r
<1> QED
  BY <1>3, <1>4, CheckedOK

\* Reading registers, two bytes each.
LEMMA ReadRegsOK ==
    ASSUME TypeOK, NEW m \in Frame, NEW array, NEW n \in Half, NEW max \in {124, 125},
           NEW N, NEW regs, NEW start, RegArray(array, regs, N, start)
    PROVE  ResultOK(ReadRegs(m, array, n, max, regs, start, N))
<1> DEFINE a == usRegAddress(m.frame, 1)
           legal == m.usLen = 5 /\ n \in 1..max
           inRange == InRange(a, n, start, N)
           bytes == RegBytes(regs, a - start, n)
           len == 2 * n
           access == Access(array, a - start, n, 2, 2 * n)
           r == ReadReply(m, len, bytes, access)
<1>0. /\ N \in 1..4096 /\ start \in Nat /\ HalvesOK(regs)
      /\ Nregs[array] = N /\ 2 * N + 4 <= PduSize
  BY DEF RegArray
<1>1. PduSize \in 12..255
  BY MapAssumption DEF MapAssumption
<1>2. a \in Half
  BY <1>1, AddressType DEF Frame, BufferOK
<1>3. ReadRegs(m, array, n, max, regs, start, N) = Checked(m, legal, inRange, r)
  BY DEF ReadRegs
<1> HIDE DEF a
<1>4. ASSUME legal, inRange
      PROVE  ResultOK(r)
  <2>1. a - start \in Nat /\ (a - start) + n <= N /\ n <= N
    BY <1>0, <1>2, <1>4, RangeBounds
  <2>2. n \in 1..125
    BY <1>4
  <2>3. 2 * n + 4 <= PduSize
    BY <1>0, <1>1, <2>1, <2>2
  <2>4. len \in 1..255 /\ len <= PduSize - 4
    BY <1>1, <2>2, <2>3
  <2>5. BytesOK(bytes)
    BY <1>0, RegBytesOK
  <2>6. AccessOK(access)
    BY <1>0, <1>1, <2>1, <2>2, <2>3 DEF AccessOK, Access
  <2> HIDE DEF len, bytes, access
  <2> QED
    BY <2>4, <2>5, <2>6, ReadReplyOK DEF ReadOK
<1> HIDE DEF legal, inRange, r
<1> QED
  BY <1>3, <1>4, CheckedOK

(* ------------------------------ writes ------------------------------------------- *)

\* A write of holding registers that passed the range check.
LEMMA WriteRegsOK ==
    ASSUME TypeOK, NEW m \in Frame, NEW a \in Half, NEW n \in Half, InHolding(a, n),
           NEW at \in 0..10
    PROVE  ResultOK(WriteRegs(m, a, n, at))
<1> DEFINE first == a - REG_HOLDING_START
           h == RegsWritten(usRegHoldingBuf, first, n, m.frame, at)
           access == Access("holding", first, n, at, 2 * n)
           r0 == Result(m, "MB_EX_NONE", 5)
<1>1. /\ PduSize \in 12..255 /\ REG_HOLDING_NREGS \in 1..4096
      /\ 2 * REG_HOLDING_NREGS + 10 <= PduSize
  BY MapAssumption DEF MapAssumption
<1>2. /\ first \in Nat /\ first + n <= REG_HOLDING_NREGS /\ n <= REG_HOLDING_NREGS
      /\ n \in Nat
  <2>1. REG_HOLDING_START \in Nat /\ REG_HOLDING_NREGS \in Nat /\ n \in Nat
    BY <1>1, HalfIs, Starts
  <2> QED
    BY <2>1, RangeBounds DEF InHolding
<1>3. ResultOK(r0)
  BY <1>1, PlainResult
<1> HIDE DEF first
<1>4. h \in [0..(REG_HOLDING_NREGS - 1) -> Half]
  <2>1. /\ BufferOK(m.frame)
        /\ usRegHoldingBuf \in [0..(REG_HOLDING_NREGS - 1) -> Half]
    BY DEF Frame, BufferOK, TypeOK
  <2>2. ASSUME NEW i \in 0..(REG_HOLDING_NREGS - 1), i - first \in 0..(n - 1)
        PROVE  Word(m.frame, at + 2 * (i - first)) \in Half
    <3> DEFINE j == at + 2 * (i - first)
    <3>1. j \in 0..(PduSize - 2)
      BY <1>1, <1>2, <2>2
    <3> HIDE DEF j
    <3>2. Word(m.frame, j) \in Half
      BY <2>1, <3>1, WordType
    <3> QED
      BY <3>2 DEF j
  <2>3. DOMAIN usRegHoldingBuf = 0..(REG_HOLDING_NREGS - 1)
    BY <2>1
  <2>4. \A i \in 0..(REG_HOLDING_NREGS - 1) : usRegHoldingBuf[i] \in Half
    BY <2>1
  <2> QED
    BY <2>2, <2>3, <2>4, Zenon DEF RegsWritten
<1>5. AccessOK(access)
  <2>1. /\ access.array = "holding" /\ access.first = first /\ access.count = n
        /\ access.at = at /\ access.bytes = 2 * n
    BY DEF Access
  <2>2. Nregs["holding"] = REG_HOLDING_NREGS
    BY DEF Nregs
  <2>3. at + 2 * n <= PduSize
    BY <1>1, <1>2
  <2> HIDE DEF access
  <2> QED
    BY <1>1, <1>2, <2>1, <2>2, <2>3 DEF AccessOK
<1>6. WriteRegs(m, a, n, at) = [r0 EXCEPT !.holding = h, !.span = {access}]
  BY DEF WriteRegs, first
<1> HIDE DEF h, access
<1> QED
  BY <1>3, <1>4, <1>5, <1>6 DEF ResultOK, Result

\* Function 6 and function 16.
LEMMA WriteHoldingRegisterOK ==
    ASSUME TypeOK, NEW m \in Frame
    PROVE  ResultOK(eMBFuncWriteHoldingRegister(m))
<1> DEFINE a == usRegAddress(m.frame, 1)
           r == WriteRegs(m, a, 1, 3)
<1>1. a \in Half
  <2>1. 1 \in 0..(PduSize - 2) /\ BufferOK(m.frame)
    BY MapAssumption DEF MapAssumption, Frame, BufferOK
  <2> QED
    BY <2>1, AddressType
<1>2. eMBFuncWriteHoldingRegister(m) = Checked(m, m.usLen = 5, InHolding(a, 1), r)
  BY DEF eMBFuncWriteHoldingRegister
<1> HIDE DEF a
<1>3. ASSUME InHolding(a, 1)
      PROVE  ResultOK(r)
  <2>1. 1 \in Half /\ 3 \in 0..10
    BY HalfIs
  <2> QED
    BY <1>1, <1>3, <2>1, WriteRegsOK
<1> HIDE DEF r
<1> QED
  BY <1>2, <1>3, CheckedOK

LEMMA WriteMultipleHoldingRegisterOK ==
    ASSUME TypeOK, NEW m \in Frame
    PROVE  ResultOK(eMBFuncWriteMultipleHoldingRegister(m))
<1> DEFINE a == usRegAddress(m.frame, 1)
           n == Word(m.frame, 3)
           legal == m.usLen >= 6 /\ n \in 1..120 /\ m.frame[5] = (2 * n) % 256
           r == WriteRegs(m, a, n, 6)
<1>1. a \in Half /\ n \in Half /\ 6 \in 0..10
  BY MapAssumption, AddressType, WordType DEF MapAssumption, Frame, BufferOK
<1>2. eMBFuncWriteMultipleHoldingRegister(m) = Checked(m, legal, InHolding(a, n), r)
  BY DEF eMBFuncWriteMultipleHoldingRegister
<1> HIDE DEF a, n
<1>3. ASSUME InHolding(a, n)
      PROVE  ResultOK(r)
  BY <1>1, <1>3, WriteRegsOK
<1> HIDE DEF r, legal
<1> QED
  BY <1>2, <1>3, CheckedOK

\* Function 5.
LEMMA WriteCoilOK ==
    ASSUME TypeOK, NEW m \in Frame
    PROVE  ResultOK(eMBFuncWriteCoil(m))
<1> DEFINE a == usRegAddress(m.frame, 1)
           i == a - REG_COIL_START
           legal == m.usLen = 5 /\ m.frame[3] \in {0, 255} /\ m.frame[4] = 0
           inRange == InRange(a, 1, REG_COIL_START, REG_COIL_NREGS)
           coil == [j \in DOMAIN usRegCoilBuf |->
                      IF j # i THEN usRegCoilBuf[j]
                      ELSE IF m.frame[3] = 255 THEN 1 ELSE 0]
           access == Access("coil", i, 1, 3, 2)
           r0 == Result(m, "MB_EX_NONE", 5)
           r == [r0 EXCEPT !.coil = coil, !.span = {access}]
<1>1. PduSize \in 12..255 /\ REG_COIL_NREGS \in 1..4096
  BY MapAssumption DEF MapAssumption
<1>2. a \in Half
  BY <1>1, AddressType DEF Frame, BufferOK
<1>3. eMBFuncWriteCoil(m) = Checked(m, legal, inRange, r)
  BY DEF eMBFuncWriteCoil
<1> HIDE DEF a
<1>4. ASSUME inRange
      PROVE  ResultOK(r)
  <2>1. i \in Nat /\ i + 1 <= REG_COIL_NREGS
    BY <1>1, <1>2, <1>4, HalfIs, Starts DEF InRange
  <2>2. coil \in [0..(REG_COIL_NREGS - 1) -> Byte]
    BY DEF TypeOK, Byte
  <2>3. AccessOK(access)
    BY <1>1, <2>1 DEF AccessOK, Access, Nregs
  <2>4. ResultOK(r0)
    BY <1>1, PlainResult
  <2> HIDE DEF coil, access
  <2> QED
    BY <2>2, <2>3, <2>4 DEF ResultOK, Result
<1> HIDE DEF legal, inRange, r
<1> QED
  BY <1>3, <1>4, CheckedOK

\* Function 15.
LEMMA WriteMultipleCoilsOK ==
    ASSUME TypeOK, NEW m \in Frame
    PROVE  ResultOK(eMBFuncWriteMultipleCoils(m))
<1> DEFINE a == usRegAddress(m.frame, 1)
           n == Word(m.frame, 3)
           first == a - REG_COIL_START
           legal == m.usLen > 5 /\ n \in 1..1968 /\ (n + 7) \div 8 = m.frame[5]
           inRange == InRange(a, n, REG_COIL_START, REG_COIL_NREGS)
           coil == BitsWritten(usRegCoilBuf, first, n, m.frame, 6)
           access == Access("coil", first, n, 6, n)
           r0 == Result(m, "MB_EX_NONE", 5)
           r == [r0 EXCEPT !.coil = coil, !.span = {access}]
<1>1. PduSize \in 12..255 /\ REG_COIL_NREGS \in 1..4096 /\ REG_COIL_NREGS + 6 <= PduSize
  BY MapAssumption DEF MapAssumption
<1>2. a \in Half /\ n \in Half
  BY <1>1, AddressType, WordType DEF Frame, BufferOK
<1>3. eMBFuncWriteMultipleCoils(m) = Checked(m, legal, inRange, r)
  BY DEF eMBFuncWriteMultipleCoils
<1> HIDE DEF a, n
<1>4. ASSUME inRange
      PROVE  ResultOK(r)
  <2>1. first \in Nat /\ first + n <= REG_COIL_NREGS /\ n <= REG_COIL_NREGS /\ n \in Nat
    <3>1. REG_COIL_START \in Nat /\ REG_COIL_NREGS \in Nat /\ n \in Nat
      BY <1>1, <1>2, HalfIs, Starts
    <3> QED
      BY <1>2, <1>4, <3>1, RangeBounds, SMTT(20)
  <2> HIDE DEF first
  <2>2. coil \in [0..(REG_COIL_NREGS - 1) -> Byte]
    <3>1. /\ m.frame \in [0..(PduSize - 1) -> Byte]
          /\ usRegCoilBuf \in [0..(REG_COIL_NREGS - 1) -> Byte]
      BY DEF Frame, TypeOK
    <3>2. ASSUME NEW i \in 0..(REG_COIL_NREGS - 1), i - first \in 0..(n - 1)
          PROVE  m.frame[6 + i - first] \in Byte
      <4>1. 6 + i - first \in 0..(PduSize - 1)
        BY <1>1, <2>1, <3>2
      <4> QED
        BY <3>1, <4>1
    <3>3. DOMAIN usRegCoilBuf = 0..(REG_COIL_NREGS - 1)
      BY <3>1
    <3>4. \A i \in 0..(REG_COIL_NREGS - 1) : usRegCoilBuf[i] \in Byte
      BY <3>1
    <3> QED
      BY <3>2, <3>3, <3>4, Zenon DEF BitsWritten
  <2>3. AccessOK(access)
    <3>1. /\ access.array = "coil" /\ access.first = first /\ access.count = n
          /\ access.at = 6 /\ access.bytes = n
      BY DEF Access
    <3>2. Nregs["coil"] = REG_COIL_NREGS
      BY DEF Nregs
    <3>3. 6 + n <= PduSize
      BY <1>1, <2>1
    <3> HIDE DEF access
    <3> QED
      BY <1>1, <2>1, <3>1, <3>2, <3>3 DEF AccessOK
  <2>4. ResultOK(r0)
    BY <1>1, PlainResult
  <2> HIDE DEF coil, access
  <2> QED
    BY <2>2, <2>3, <2>4 DEF ResultOK, Result
<1> HIDE DEF legal, inRange, r
<1> QED
  BY <1>3, <1>4, CheckedOK

\* Function 23: the write, then the read of what it left.
LEMMA ReadWriteMultipleHoldingRegisterOK ==
    ASSUME TypeOK, NEW m \in Frame
    PROVE  ResultOK(eMBFuncReadWriteMultipleHoldingRegister(m))
<1> DEFINE a == usRegAddress(m.frame, 1)
           n == Word(m.frame, 3)
           b == usRegAddress(m.frame, 5)
           k == Word(m.frame, 7)
           w == WriteRegs(m, b, k, 10)
           len == 2 * n
           bytes == RegBytes(ReadAfterWrite(w.holding), a - REG_HOLDING_START, n)
           access == Access("holding", a - REG_HOLDING_START, n, 2, 2 * n)
           r == ReadReply(m, len, bytes, access)
           both == [r EXCEPT !.holding = w.holding, !.span = r.span \cup w.span]
           half == [w EXCEPT !.eException = "MB_EX_ILLEGAL_DATA_ADDRESS"]
           legal == n \in 1..125 /\ k \in 1..121 /\ 2 * k = m.frame[9]
           done == IF InHolding(a, n) THEN both ELSE half
           short == Result(m, "MB_EX_NONE", m.usLen)
<1>1. /\ PduSize \in 12..255 /\ REG_HOLDING_NREGS \in 1..4096
      /\ 2 * REG_HOLDING_NREGS + 10 <= PduSize
  BY MapAssumption DEF MapAssumption
<1>2. /\ a \in Half /\ b \in Half /\ n \in Half /\ k \in Half
      /\ REG_HOLDING_START \in Nat /\ REG_HOLDING_NREGS \in Nat
  BY <1>1, WordType, AddressType, Starts DEF Frame, BufferOK
<1>3. eMBFuncReadWriteMultipleHoldingRegister(m) =
        IF m.usLen < 10 THEN short ELSE Checked(m, legal, InHolding(b, k), done)
  BY DEF eMBFuncReadWriteMultipleHoldingRegister
<1> HIDE DEF a, n, b, k
<1>4. ResultOK(short)
  BY PlainResult DEF Frame
<1>5. ASSUME legal, InHolding(b, k)
      PROVE  ResultOK(done)
  <2>1. ResultOK(w)
    <3>1. 10 \in 0..10
      OBVIOUS
    <3> QED
      BY <1>2, <1>5, <3>1, WriteRegsOK
  <2>2. half.coil = w.coil /\ half.holding = w.holding /\ half.frame = w.frame
        /\ half.usLen = w.usLen /\ half.span = w.span
    BY DEF WriteRegs, Result
  <2>3. ResultOK(half)
    BY <2>1, <2>2 DEF ResultOK
  <2>4. ASSUME InHolding(a, n)
        PROVE  ResultOK(both)
    <3>1. /\ a - REG_HOLDING_START \in Nat /\ n <= REG_HOLDING_NREGS
          /\ (a - REG_HOLDING_START) + n <= REG_HOLDING_NREGS
      BY <1>2, <2>4, RangeBounds DEF InHolding
    <3>2. n \in 1..125
      BY <1>5
    <3>3. len \in 1..255 /\ len <= PduSize - 4 /\ 2 + 2 * n <= PduSize
      BY <1>1, <3>1, <3>2
    <3>4. BytesOK(bytes)
      <4>1. HalvesOK(w.holding)
        BY <2>1 DEF ResultOK, HalvesOK
      <4> QED
        BY <4>1, RegBytesOK DEF ReadAfterWrite
    <3>5. AccessOK(access)
      <4>1. /\ access.array = "holding" /\ access.first = a - REG_HOLDING_START
            /\ access.count = n /\ access.at = 2 /\ access.bytes = 2 * n
        BY DEF Access
      <4>2. Nregs["holding"] = REG_HOLDING_NREGS
        BY DEF Nregs
      <4> HIDE DEF access
      <4> QED
        BY <1>1, <3>1, <3>3, <4>1, <4>2 DEF AccessOK
    <3> HIDE DEF len, bytes, access
    <3>6. ResultOK(r)
      BY <3>3, <3>4, <3>5, ReadReplyOK DEF ReadOK
    <3>7. /\ both.coil = r.coil /\ both.holding = w.holding /\ both.frame = r.frame
          /\ both.usLen = r.usLen /\ both.span = r.span \cup w.span
      BY DEF ReadReply, Result
    <3> HIDE DEF both, r, w
    <3> QED
      BY <2>1, <3>6, <3>7 DEF ResultOK
  <2> HIDE DEF both, half
  <2> QED
    BY <2>3, <2>4
<1> HIDE DEF legal, done, short
<1>6. ResultOK(Checked(m, legal, InHolding(b, k), done))
  BY <1>5, CheckedOK
<1> QED
  BY <1>3, <1>4, <1>6

(* ------------------------------ the handler table --------------------------------- *)

\* Whatever the frame says, its handler leaves arrays, buffer and length in order.
LEMMA HandlerOK ==
    ASSUME TypeOK, NEW m \in Frame
    PROVE  ResultOK(Handler(m))
<1>1. /\ PduSize \in 12..255
      /\ REG_COIL_NREGS \in 1..4096 /\ REG_DISCRETE_NREGS \in 1..4096
      /\ REG_HOLDING_NREGS \in 1..4096 /\ REG_INPUT_NREGS \in 1..4096
      /\ REG_COIL_NREGS + 2 <= PduSize /\ REG_DISCRETE_NREGS + 2 <= PduSize
      /\ 2 * REG_HOLDING_NREGS + 4 <= PduSize /\ 2 * REG_INPUT_NREGS + 4 <= PduSize
  BY MapAssumption DEF MapAssumption
<1>2. /\ BytesOK(usRegCoilBuf) /\ BytesOK(usRegDiscreteBuf)
      /\ HalvesOK(usRegHoldingBuf) /\ HalvesOK(usRegInputBuf)
  BY DEF TypeOK, BytesOK, HalvesOK
<1>3. /\ REG_COIL_START \in Nat /\ REG_DISCRETE_START \in Nat
      /\ REG_HOLDING_START \in Nat /\ REG_INPUT_START \in Nat
  BY Starts
<1>4. /\ BitArray("coil", usRegCoilBuf, REG_COIL_NREGS, REG_COIL_START)
      /\ BitArray("discrete", usRegDiscreteBuf, REG_DISCRETE_NREGS, REG_DISCRETE_START)
      /\ RegArray("holding", usRegHoldingBuf, REG_HOLDING_NREGS, REG_HOLDING_START)
      /\ RegArray("input", usRegInputBuf, REG_INPUT_NREGS, REG_INPUT_START)
  BY <1>1, <1>2, <1>3 DEF BitArray, RegArray, Nregs
<1>5. /\ ResultOK(ReadBits(m, "coil", usRegCoilBuf, REG_COIL_START, REG_COIL_NREGS))
      /\ ResultOK(ReadBits(m, "discrete", usRegDiscreteBuf, REG_DISCRETE_START,
                           REG_DISCRETE_NREGS))
  BY <1>4, ReadBitsOK, Zenon
<1>6. HoldingCount(m.frame) \in Half /\ Word(m.frame, 3) \in Half
  <2>1. BufferOK(m.frame) /\ 3 \in 0..(PduSize - 2) /\ 4 \in 0..(PduSize - 1)
    BY <1>1 DEF Frame, BufferOK
  <2>2. m.frame[4] \in Byte
    BY <2>1 DEF BufferOK
  <2>3. HoldingCount(m.frame) \in Half
    <3>1. \A x \in Byte : x \in Half
      BY HalfIs, ByteIs
    <3> QED
      BY <2>2, <3>1, Zenon DEF HoldingCount
  <2> QED
    BY <2>1, <2>3, WordType
<1>7. ResultOK(ReadRegs(m, "holding", HoldingCount(m.frame), 125, usRegHoldingBuf,
                        REG_HOLDING_START, REG_HOLDING_NREGS))
  BY <1>4, <1>6, ReadRegsOK, Zenon
<1>8. ResultOK(ReadRegs(m, "input", Word(m.frame, 3), 124, usRegInputBuf,
                        REG_INPUT_START, REG_INPUT_NREGS))
  BY <1>4, <1>6, ReadRegsOK, Zenon
<1>9. \A e : ResultOK(Result(m, e, 1)) /\ ResultOK(Result(m, e, m.usLen))
  BY <1>1, PlainResult DEF Frame
<1> QED
  BY <1>5, <1>7, <1>8, <1>9, WriteCoilOK, WriteHoldingRegisterOK, WriteMultipleCoilsOK,
     WriteMultipleHoldingRegisterOK, ReadWriteMultipleHoldingRegisterOK, Zenon
     DEF Handler, eMBFuncReportSlaveID

(* ------------------------------ the theorems -------------------------------------- *)

\* A PDU in the buffer is a sequence of bytes.
LEMMA PduOK ==
    ASSUME NEW g, BufferOK(g), NEW n \in 1..(PduSize - 2)
    PROVE  Pdu(g, n) \in Seq(Byte) /\ Len(Pdu(g, n)) = n
<1>1. PduSize \in 12..255
  BY MapAssumption DEF MapAssumption
<1>2. n \in Nat
  BY <1>1
<1>3. ASSUME NEW i \in 1..n
      PROVE  g[i - 1] \in Byte
  <2>1. i - 1 \in 0..(PduSize - 1)
    BY <1>1
  <2> QED
    BY <2>1 DEF BufferOK
<1>4. [i \in 1..n |-> g[i - 1]] \in Seq(Byte) /\ Len([i \in 1..n |-> g[i - 1]]) = n
  <2>1. [i \in 1..n |-> g[i - 1]] \in [1..n -> Byte]
    BY <1>3
  <2> DEFINE s == [i \in 1..n |-> g[i - 1]]
  <2>2. DOMAIN s = 1..n
    OBVIOUS
  <2> HIDE DEF s
  <2>3. s \in Seq(Byte)
    BY <1>2, <2>1, SeqDef DEF s
  <2>4. Len(s) = n
    BY <1>2, <2>2, <2>3, LenProperties
  <2> QED
    BY <2>3, <2>4 DEF s
<1> QED
  BY <1>4 DEF Pdu

\* The inductive invariant: the types, and where the accesses were.
MapInv == TypeOK /\ AccessesInBounds

LEMMA MapInit == Init => MapInv
<1> SUFFICES ASSUME Init PROVE MapInv
  OBVIOUS
<1>1. TypeOK
  <2>1. 0 \in Byte /\ 1 \in Byte /\ 0 \in Half
    BY HalfIs, ByteIs
  <2>2. reply \in Seq(Byte)
    BY DEF Init
  <2> QED
    BY <2>1, <2>2, Zenon DEF Init, TypeOK
<1>2. AccessesInBounds
  BY MapAssumption DEF Init, AccessesInBounds, MapAssumption
<1> QED
  BY <1>1, <1>2 DEF MapInv

LEMMA ExecuteOK ==
    ASSUME MapInv, NEW m \in Received, Execute(m)
    PROVE  MapInv'
<1> DEFINE r == Handler(m)
<1>1. PduSize \in 12..255 /\ m \in Frame
  BY MapAssumption DEF MapAssumption
<1>2. ResultOK(r)
  BY <1>1, HandlerOK DEF MapInv
<1> HIDE DEF r
<1>3. /\ usRegCoilBuf' = r.coil /\ usRegHoldingBuf' = r.holding /\ span' = r.span
      /\ reply' = IF ~m.unicast THEN <<>>
                  ELSE IF r.eException = "MB_EX_NONE" THEN Pdu(r.frame, r.usLen)
                  ELSE <<ErrorBit(m.frame[0]), ExceptionCode(r.eException)>>
      /\ usRegDiscreteBuf' = usRegDiscreteBuf /\ usRegInputBuf' = usRegInputBuf
  BY DEF Execute, r
<1>4. reply' \in Seq(Byte) /\ Len(reply') <= PduSize - 2
  <2>1. CASE ~m.unicast
    BY <1>1, <1>3, <2>1
  <2>2. CASE m.unicast /\ r.eException = "MB_EX_NONE"
    <3>1. Pdu(r.frame, r.usLen) \in Seq(Byte) /\ Len(Pdu(r.frame, r.usLen)) = r.usLen
      BY <1>2, PduOK DEF ResultOK
    <3>2. r.usLen \in 1..(PduSize - 2)
      BY <1>2 DEF ResultOK
    <3> QED
      BY <1>1, <1>3, <2>2, <3>1, <3>2
  <2>3. CASE m.unicast /\ r.eException # "MB_EX_NONE"
    <3>1. m.frame[0] \in 0..255
      BY <1>1 DEF Frame, Byte
    <3>2. ErrorBit(m.frame[0]) \in Byte /\ ExceptionCode(r.eException) \in Byte
      BY <3>1 DEF ErrorBit, ExceptionCode, Byte
    <3>3. reply' = <<ErrorBit(m.frame[0]), ExceptionCode(r.eException)>>
      BY <1>3, <2>3
    <3> QED
      BY <1>1, <3>2, <3>3
  <2> QED
    BY <2>1, <2>2, <2>3
<1>5. TypeOK'
  BY <1>2, <1>3, <1>4 DEF MapInv, TypeOK, ResultOK
<1>6. AccessesInBounds'
  BY <1>2, <1>3, <1>4 DEF AccessesInBounds, ResultOK, AccessOK
<1> QED
  BY <1>5, <1>6 DEF MapInv

LEMMA MapStep == MapInv /\ [Next]_mapVars => MapInv'
<1> SUFFICES ASSUME MapInv, [Next]_mapVars PROVE MapInv'
  OBVIOUS
<1> USE DEF MapInv
<1>1. CASE \E m \in Received : Execute(m)
  BY <1>1, ExecuteOK
<1>2. CASE SenseBit
  <2>1. PICK s \in SensedBit : usRegDiscreteBuf' = [usRegDiscreteBuf EXCEPT ![s[1]] = s[2]]
    BY <1>2 DEF SenseBit
  <2>2. s[2] \in Byte
    BY MapAssumption DEF MapAssumption
  <2>3. usRegDiscreteBuf' \in [0..(REG_DISCRETE_NREGS - 1) -> Byte]
    BY <2>1, <2>2 DEF TypeOK
  <2> QED
    BY <1>2, <2>3 DEF SenseBit, TypeOK, AccessesInBounds
<1>3. CASE SenseCount
  <2>1. PICK s \in SensedCount : usRegInputBuf' = [usRegInputBuf EXCEPT ![s[1]] = s[2]]
    BY <1>3 DEF SenseCount
  <2>2. s[2] \in Half
    BY MapAssumption DEF MapAssumption
  <2>3. usRegInputBuf' \in [0..(REG_INPUT_NREGS - 1) -> Half]
    BY <2>1, <2>2 DEF TypeOK
  <2> QED
    BY <1>3, <2>3 DEF SenseCount, TypeOK, AccessesInBounds
<1>4. CASE ResetClear
  <2>1. PICK i \in ClearCoil : usRegCoilBuf' = [usRegCoilBuf EXCEPT ![i] = 0]
    BY <1>4 DEF ResetClear
  <2>2. usRegCoilBuf' \in [0..(REG_COIL_NREGS - 1) -> Byte]
    <3>1. 0 \in Byte
      BY DEF Byte
    <3> QED
      BY <2>1, <3>1 DEF TypeOK
  <2> QED
    BY <1>4, <2>2 DEF ResetClear, TypeOK, AccessesInBounds
<1>5. CASE UNCHANGED mapVars
  BY <1>5 DEF mapVars, arrays, TypeOK, AccessesInBounds
<1> QED
  BY <1>1, <1>2, <1>3, <1>4, <1>5 DEF Next

\* Every register of every array keeps its type and every reply consists of bytes,
\* whatever the requests say (TypeOK of modbus.cpp's arrays).
THEOREM MapTypeCorrect == Spec => []TypeOK
<1>1. MapInv => TypeOK
  BY DEF MapInv
<1> QED
  BY MapInit, MapStep, <1>1, PTL DEF Spec

\* No address, count or length in a request makes a callback leave its register
\* array or the frame buffer, and every reply leaves room for its CRC.
THEOREM AccessesInBoundsCorrect == Spec => []AccessesInBounds
<1>1. MapInv => AccessesInBounds
  BY DEF MapInv
<1> QED
  BY MapInit, MapStep, <1>1, PTL DEF Spec

\* get_iterator never points behind an array, although _get_type accepts one
\* address too many for each (modbus.cpp:56, modbus.h:107).
THEOREM IteratorInBounds ==
    ASSUME NEW address \in Half
    PROVE  LET it == get_iterator(address)
           IN  it[1] # "nullptr" => it[2] \in 0..(Nregs[it[1]] - 1)
<1>1. /\ REG_COIL_NREGS \in 1..4096 /\ REG_DISCRETE_NREGS \in 1..4096
      /\ REG_HOLDING_NREGS \in 1..4096 /\ REG_INPUT_NREGS \in 1..4096
  BY MapAssumption DEF MapAssumption
<1> USE <1>1 DEF get_iterator, Nregs, Start, Half,
        REG_COIL_START, REG_DISCRETE_START, REG_HOLDING_START, REG_INPUT_START
<1>2. _get_type(address) = "coil" => address \in 1..(1 + REG_COIL_NREGS)
  BY DEF _get_type
<1>3. _get_type(address) = "discrete" => address \in 4097..(4097 + REG_DISCRETE_NREGS)
  BY DEF _get_type
<1>4. _get_type(address) = "holding" => address \in 16385..(16385 + REG_HOLDING_NREGS)
  BY DEF _get_type
<1>5. _get_type(address) = "input" => address \in 12289..(12289 + REG_INPUT_NREGS)
  BY DEF _get_type
<1>6. _get_type(address) \in {"coil", "discrete", "holding", "input", "error"}
  BY DEF _get_type
<1> QED
  BY <1>2, <1>3, <1>4, <1>5, <1>6, SMTT(20)

(* ------------------------------ what a request means ------------------------------- *)

\* The elements and the words of a PDU, where they lie in the buffer.
LEMMA PduAt ==
    ASSUME NEW g, BufferOK(g), NEW n \in 1..(PduSize - 2)
    PROVE  /\ Pdu(g, n) \in Seq(Byte) /\ Len(Pdu(g, n)) = n /\ Pdu(g, n) # <<>>
           /\ \A i \in 1..n : Pdu(g, n)[i] = g[i - 1]
           /\ \A i \in 1..(n - 1) : At(Pdu(g, n), i) = Word(g, i - 1)
<1>1. Pdu(g, n) \in Seq(Byte) /\ Len(Pdu(g, n)) = n
  BY PduOK
<1>2. n \in Nat /\ n > 0
  BY MapAssumption DEF MapAssumption
<1>3. ASSUME NEW i \in 1..n
      PROVE  Pdu(g, n)[i] = g[i - 1]
  BY DEF Pdu
<1>4. ASSUME NEW i \in 1..(n - 1)
      PROVE  At(Pdu(g, n), i) = Word(g, i - 1)
  <2>1. i \in 1..n /\ i + 1 \in 1..n /\ (i + 1) - 1 = (i - 1) + 1
    BY <1>2
  <2>2. Pdu(g, n)[i] = g[i - 1] /\ Pdu(g, n)[i + 1] = g[(i - 1) + 1]
    BY <1>3, <2>1
  <2> QED
    BY <2>2, Zenon DEF At, Word
<1>5. Pdu(g, n) # <<>>
  BY <1>1, <1>2
<1> QED
  BY <1>1, <1>3, <1>4, <1>5

\* What the codes of RegisterStore's requests look like, code by code; a request that is
\* none of them asks for nothing that exists.
LEMMA MeansRead ==
    ASSUME NEW p, p # <<>>, Len(p) \in Nat, p[1] \in 1..4
    PROVE  Meaning(p) = IF Len(p) = 5 /\ At(p, 4) \in 1..124
                        THEN [op |-> "read",
                              read |-> Registers(ReadArray[p[1]], p, 2, At(p, 4))]
                        ELSE [op |-> "other"]
BY DEF Meaning

SetOrReset == {0, 65280}

LEMMA MeansSetCoil ==
    ASSUME NEW p, p # <<>>, Len(p) \in Nat, p[1] = 5
    PROVE  Meaning(p) = IF Len(p) = 5 /\ At(p, 4) \in SetOrReset
                        THEN [op |-> "write",
                              write |-> Values("coil", p, 2, <<IF At(p, 4) = 0 THEN 0 ELSE 1>>)]
                        ELSE [op |-> "other"]
BY DEF Meaning, SetOrReset

LEMMA MeansSetRegister ==
    ASSUME NEW p, p # <<>>, Len(p) \in Nat, p[1] = 6
    PROVE  Meaning(p) = IF Len(p) = 5
                        THEN [op |-> "write", write |-> Values("holding", p, 2, <<At(p, 4)>>)]
                        ELSE [op |-> "other"]
BY DEF Meaning

LEMMA MeansWriteCoil ==
    ASSUME NEW p, p # <<>>, Len(p) \in Nat, p[1] = 15
    PROVE  Meaning(p) = IF Len(p) = 7 /\ At(p, 4) = 1 /\ p[6] = 1 /\ p[7] \in {0, 1}
                        THEN [op |-> "write", write |-> Values("coil", p, 2, <<p[7]>>)]
                        ELSE [op |-> "other"]
BY DEF Meaning

LEMMA MeansWriteRegisters ==
    ASSUME NEW p, p # <<>>, Len(p) \in Nat, p[1] = 16
    PROVE  Meaning(p) = IF Len(p) > 6 /\ p[6] = 2 * At(p, 4) /\ Len(p) = 6 + p[6]
                        THEN [op |-> "write",
                              write |-> Values("holding", p, 2, Words(p, 7, At(p, 4)))]
                        ELSE [op |-> "other"]
BY DEF Meaning

LEMMA MeansExchange ==
    ASSUME NEW p, p # <<>>, Len(p) \in Nat, p[1] = 23
    PROVE  Meaning(p) =
             IF Len(p) < 10 THEN [op |-> "report"]
             ELSE IF /\ Len(p) > 10 /\ p[10] = 2 * At(p, 8) /\ Len(p) = 10 + p[10]
                     /\ At(p, 4) \in 1..125
             THEN [op |-> "exchange", read |-> Registers("holding", p, 2, At(p, 4)),
                   write |-> Values("holding", p, 6, Words(p, 11, At(p, 8)))]
             ELSE [op |-> "other"]
BY DEF Meaning

LEMMA MeansReport ==
    ASSUME NEW p, p # <<>>, Len(p) \in Nat, p[1] = 17
    PROVE  Meaning(p) = [op |-> "report"]
BY DEF Meaning

LEMMA MeansNothing ==
    ASSUME NEW p, p # <<>>, Len(p) \in Nat, p[1] \in Byte,
           p[1] \notin {1, 2, 3, 4, 5, 6, 15, 16, 17, 23}
    PROVE  Meaning(p) = [op |-> "other"]
BY DEF Meaning, Byte

(* ------------------------------ the store ------------------------------------------ *)

\* A request that writes nothing leaves the store alone.
LEMMA StoreKept ==
    ASSUME UNCHANGED arrays
    PROVE  StoreView' = StoreView
BY Zenon DEF arrays, StoreView, Levels

\* A write of coils, or of holding registers, as the store sees it.
LEMMA CoilsStored ==
    ASSUME NEW w, w.array = "coil",
           UNCHANGED <<usRegDiscreteBuf, usRegHoldingBuf, usRegInputBuf>>,
           Levels(usRegCoilBuf') = Store!Written(Levels(usRegCoilBuf), w.first, w.values)
    PROVE  StoreView' = Store!After(w)
<1>1. StoreView' = [coil |-> Levels(usRegCoilBuf'), discrete |-> Levels(usRegDiscreteBuf),
                    holding |-> usRegHoldingBuf, input |-> usRegInputBuf]
  BY Zenon DEF StoreView, Levels
<1>2. Store!After(w) =
        [StoreView EXCEPT !["coil"] = Store!Written(@, w.first, w.values)]
  BY Zenon DEF Store!After
<1>3. /\ StoreView.coil = Levels(usRegCoilBuf)
      /\ StoreView = [coil |-> Levels(usRegCoilBuf), discrete |-> Levels(usRegDiscreteBuf),
                      holding |-> usRegHoldingBuf, input |-> usRegInputBuf]
  BY DEF StoreView
<1> QED
  BY <1>1, <1>2, <1>3

LEMMA HoldingReplaced ==
    ASSUME NEW c, NEW d, NEW h, NEW i, NEW x, NEW r, NEW s,
           r = [coil |-> c, discrete |-> d, holding |-> h, input |-> i],
           s = [coil |-> c, discrete |-> d, holding |-> x, input |-> i]
    PROVE  s = [r EXCEPT !["holding"] = x]
<1> DEFINE t == [r EXCEPT !["holding"] = x]
           names == {"coil", "discrete", "holding", "input"}
<1>1. DOMAIN s = names /\ DOMAIN r = names
  OBVIOUS
<1>2. \A j \in names : s[j] = IF j = "holding" THEN x ELSE r[j]
  OBVIOUS
<1>3. t = [j \in DOMAIN r |-> IF j = "holding" THEN x ELSE r[j]]
  BY <1>1
<1>4. s = [j \in names |-> s[j]]
  OBVIOUS
<1> QED
  BY <1>1, <1>2, <1>3, <1>4

LEMMA RegistersStored ==
    ASSUME NEW w, w.array = "holding",
           UNCHANGED <<usRegCoilBuf, usRegDiscreteBuf, usRegInputBuf>>,
           usRegHoldingBuf' = Store!Written(usRegHoldingBuf, w.first, w.values)
    PROVE  StoreView' = Store!After(w)
<1> DEFINE c == Levels(usRegCoilBuf)
           d == Levels(usRegDiscreteBuf)
           h == usRegHoldingBuf
           i == usRegInputBuf
           x == Store!Written(usRegHoldingBuf, w.first, w.values)
           r == StoreView
           s == StoreView'
<1>1. r = [coil |-> c, discrete |-> d, holding |-> h, input |-> i]
  BY Zenon DEF StoreView
<1>2. s = [coil |-> c, discrete |-> d, holding |-> x, input |-> i]
  BY Zenon DEF StoreView, Levels
<1>3. r.holding = h
  BY DEF StoreView
<1>4. Store!After(w) = [r EXCEPT !["holding"] = Store!Written(@, w.first, w.values)]
  BY Zenon DEF Store!After
<1>5. Store!After(w) = [r EXCEPT !["holding"] = x]
  BY <1>3, <1>4, Zenon
<1> HIDE DEF c, d, h, i, x, r, s
<1>6. s = [r EXCEPT !["holding"] = x]
  BY <1>1, <1>2, HoldingReplaced
<1> QED
  BY <1>5, <1>6, Zenon DEF s

(* ------------------------------ what a reply says ------------------------------------ *)

\* An exception is a refusal, and a broadcast is not answered.
LEMMA ExceptionRefuses ==
    ASSUME MapInv, NEW m \in Frame, Execute(m), Handler(m).eException # "MB_EX_NONE"
    PROVE  Answered' \in {Says("refused", <<>>), Says("none", <<>>)}
<1>1. CASE ~m.unicast
  <2>1. reply' = <<>>
    BY <1>1 DEF Execute
  <2> QED
    BY <2>1 DEF Answered, Outcome
<1>2. CASE m.unicast
  <2> DEFINE code == ErrorBit(m.frame[0])
             e == ExceptionCode(Handler(m).eException)
  <2>1. reply' = <<code, e>>
    BY <1>2, Zenon DEF Execute
  <2>2. m.frame[0] \in 0..255
    BY MapAssumption DEF MapAssumption, Frame, Byte
  <2>3. code >= 128
    BY <2>2 DEF ErrorBit
  <2> HIDE DEF code, e
  <2>4. reply' # <<>> /\ reply'[1] >= 128
    BY <2>1, <2>3
  <2> QED
    BY <2>4 DEF Answered, Outcome
<1> QED
  BY <1>1, <1>2

\* An acknowledgement repeats the first five bytes of the request.
LEMMA Acknowledged ==
    ASSUME MapInv, NEW m \in Frame, Execute(m), m.usLen >= 5, m.frame[0] < 128,
           Asked'.op = "write",
           Handler(m).eException = "MB_EX_NONE", Handler(m).frame = m.frame,
           Handler(m).usLen = 5
    PROVE  Answered' \in {Says("done", <<>>), Says("none", <<>>)}
<1>1. CASE ~m.unicast
  <2>1. reply' = <<>>
    BY <1>1 DEF Execute
  <2> QED
    BY <2>1 DEF Answered, Outcome
<1>2. CASE m.unicast
  <2> DEFINE p == Pdu(m.frame, m.usLen)
             q == Pdu(m.frame, 5)
  <2>1. request' = p /\ reply' = q
    BY <1>2 DEF Execute
  <2>2. m.usLen \in 1..(PduSize - 2) /\ PduSize \in 12..255 /\ BufferOK(m.frame)
    BY MapAssumption DEF MapAssumption, Frame, BufferOK
  <2>3. 5 \in 1..(PduSize - 2)
    BY <2>2
  <2>4. /\ Len(p) = m.usLen /\ \A i \in 1..m.usLen : p[i] = m.frame[i - 1]
        /\ p \in Seq(Byte)
    BY <2>2, PduAt
  <2>5. /\ q # <<>> /\ \A i \in 1..5 : q[i] = m.frame[i - 1]
        /\ q = [i \in 1..5 |-> m.frame[i - 1]]
    BY <2>2, <2>3, PduAt DEF Pdu
  <2>6. SubSeq(p, 1, 5) = q
    <3>1. SubSeq(p, 1, 5) = [i \in 1..5 |-> p[i]]
      BY <2>2, <2>4
    <3>2. \A i \in 1..5 : p[i] = m.frame[i - 1]
      BY <2>2, <2>4
    <3> HIDE DEF p, q
    <3> QED
      BY <2>5, <3>1, <3>2
  <2>7. q[1] = m.frame[0]
    BY <2>5
  <2> HIDE DEF p, q
  <2>8. Meaning(p).op = "write"
    BY <2>1 DEF Asked
  <2>9. Outcome(p, q) = Says("done", <<>>)
    <3>1. ~(q[1] >= 128)
      <4>1. m.frame[0] \in 0..255
        <5>1. 0 \in 0..(PduSize - 1)
          BY <2>2
        <5> QED
          BY <2>2, <5>1 DEF BufferOK, Byte
      <4> QED
        BY <2>7, <4>1
    <3> QED
      BY <2>5, <2>6, <2>8, <3>1 DEF Outcome
  <2> QED
    BY <2>1, <2>9 DEF Answered
<1> QED
  BY <1>1, <1>2

(* ------------------------------ steps of the store ----------------------------------- *)

\* A request that is refused asked for nothing, or for what does not exist.
LEMMA RefuseStep ==
    ASSUME MapInv, NEW m \in Frame, Execute(m), Handler(m).eException # "MB_EX_NONE",
           Handler(m).coil = usRegCoilBuf, Handler(m).holding = usRegHoldingBuf,
           \/ Asked'.op = "other"
           \/ Asked'.op = "read" /\ ~Store!Exists(Asked'.read)
           \/ Asked'.op \in {"write", "exchange"} /\ ~Store!Exists(Asked'.write)
    PROVE  Store!Refuse
<1>1. StoreView' = StoreView
  <2>1. UNCHANGED arrays
    BY Zenon DEF Execute, arrays
  <2> QED
    BY <2>1, StoreKept
<1>2. Store!Answer("refused", <<>>)
  BY ExceptionRefuses DEF Store!Answer, Says
<1> QED
  BY <1>1, <1>2, Zenon DEF Store!Refuse

\* A request that writes is carried out on the registers it names.
LEMMA WriteStep ==
    ASSUME MapInv, NEW m \in Frame, Execute(m), m.usLen >= 5, m.frame[0] < 128,
           Handler(m).eException = "MB_EX_NONE", Handler(m).frame = m.frame,
           Handler(m).usLen = 5,
           Asked'.op = "write", Store!Exists(Asked'.write),
           StoreView' = Store!After(Asked'.write)
    PROVE  Store!Write
<1>1. Store!Answer("done", <<>>)
  BY Acknowledged DEF Store!Answer, Says
<1> QED
  BY <1>1, Zenon DEF Store!Write

(* ------------------------------ reads, as the store sees them ------------------------- *)

\* The request executed is what lies in the buffer.
LEMMA RequestIs ==
    ASSUME NEW m \in Frame, Execute(m)
    PROVE  /\ request' \in Seq(Byte) /\ request' # <<>> /\ Len(request') = m.usLen
           /\ m.usLen \in Nat /\ m.usLen >= 1
           /\ \A i \in 1..m.usLen : request'[i] = m.frame[i - 1]
           /\ \A i \in 1..(m.usLen - 1) : At(request', i) = Word(m.frame, i - 1)
           /\ request'[1] = m.frame[0]
<1>1. m.usLen \in 1..(PduSize - 2) /\ BufferOK(m.frame) /\ PduSize \in 12..255
  BY MapAssumption DEF MapAssumption, Frame, BufferOK
<1>2. request' = Pdu(m.frame, m.usLen)
  BY DEF Execute
<1>3. m.usLen \in Nat /\ m.usLen >= 1 /\ 1 \in 1..m.usLen
  BY <1>1
<1>4. /\ request' \in Seq(Byte) /\ request' # <<>> /\ Len(request') = m.usLen
      /\ \A i \in 1..m.usLen : request'[i] = m.frame[i - 1]
      /\ \A i \in 1..(m.usLen - 1) : At(request', i) = Word(m.frame, i - 1)
  BY <1>1, <1>2, PduAt, Zenon
<1>5. request'[1] = m.frame[0]
  <2>1. request'[1] = m.frame[1 - 1]
    BY <1>3, <1>4, Zenon
  <2> QED
    BY <2>1
<1> QED
  BY <1>3, <1>4, <1>5

\* A USHORT is a number.
LEMMA HalfIsNatural ==
    ASSUME NEW h \in Half
    PROVE  h \in Nat /\ h <= 65535
BY HalfIs

LEMMA HalfInNat ==
    ASSUME NEW h \in Half
    PROVE  h \in Nat
BY HalfIsNatural

\* Where an address lies behind a protocol address, and what arrays there are.
Address(h) == (h + 1) % 65536
IsArray(start, N) == start \in Nat \ {0} /\ N \in Nat /\ start + N \in Half

\* The range check of the callbacks lets through what exists, although the address
\* wraps to 0 behind 65535.
LEMMA ArrayIsNatural ==
    ASSUME NEW start, NEW N, IsArray(start, N)
    PROVE  start \in Nat /\ N \in Nat
BY SMTT(20) DEF IsArray

LEMMA RangeIsExistence ==
    ASSUME NEW h \in Half, NEW n \in Half, NEW start, NEW N, IsArray(start, N),
           NEW a, a = Address(h)
    PROVE  /\ InRange(a, n, start, N) <=> h + 1 - start >= 0 /\ h + 1 - start + n <= N
           /\ InRange(a, n, start, N) => a = h + 1
<1>1. /\ h \in Nat /\ h <= 65535 /\ n \in Nat /\ a = (h + 1) % 65536
      /\ start \in Nat /\ start # 0 /\ N \in Nat /\ start + N <= 65535
  BY HalfIsNatural, SMTT(20) DEF Address, IsArray
<1>2. CASE h = 65535
  <2>1. (h + 1) % 65536 = 0
    BY <1>2
  <2> QED
    BY <1>1, <1>2, <2>1 DEF InRange
<1>3. CASE h # 65535
  <2>1. h \in Int /\ h >= 0 /\ h <= 65534
    BY <1>1, <1>3
  <2>2. (h + 1) % 65536 = h + 1
    BY <2>1
  <2> QED
    BY <1>1, <1>3, <2>2 DEF InRange
<1> QED
  BY <1>2, <1>3

\* What an exception leaves.
LEMMA ExceptionLeaves ==
    ASSUME NEW m
    PROVE  \A r \in {IllegalValue(m), IllegalAddress(m)} :
             /\ r.eException # "MB_EX_NONE"
             /\ r.coil = usRegCoilBuf /\ r.holding = usRegHoldingBuf
BY DEF IllegalValue, IllegalAddress, Result

\* A read reply: function code, number of bytes, the bytes.
InOneByte(len) == len \in 1..255

Returns(m, len, bytes) ==
    /\ Handler(m).eException = "MB_EX_NONE" /\ Handler(m).usLen = 2 + len
    /\ Handler(m).frame = [i \in DOMAIN m.frame |->
                             IF i = 1 THEN len
                             ELSE IF i - 2 \in DOMAIN bytes THEN bytes[i - 2]
                             ELSE m.frame[i]]

Sends(code, len, bytes) ==
    \/ reply' = <<>>
    \/ /\ reply' \in Seq(Byte) /\ reply' # <<>> /\ Len(reply') = 2 + len
       /\ reply'[1] = code /\ reply'[2] = len
       /\ \A k \in 0..(len - 1) : reply'[3 + k] = bytes[k]

LEMMA ReadReplySays ==
    ASSUME MapInv, NEW m \in Frame, Execute(m), NEW len, InOneByte(len), NEW bytes,
           DOMAIN bytes = 0..(len - 1), Returns(m, len, bytes)
    PROVE  Sends(m.frame[0], len, bytes)
<1>0. len \in 1..255
  BY DEF InOneByte
<1> DEFINE r == Handler(m)
           g == r.frame
<1>1. ResultOK(r)
  BY HandlerOK DEF MapInv
<1>2. BufferOK(g) /\ r.usLen \in 1..(PduSize - 2) /\ r.usLen = 2 + len
  BY <1>1 DEF ResultOK, Returns
<1>3. PduSize \in 12..255 /\ DOMAIN m.frame = 0..(PduSize - 1) /\ 2 + len <= PduSize - 2
  <2>1. PduSize \in 12..255 /\ DOMAIN m.frame = 0..(PduSize - 1)
    BY MapAssumption DEF MapAssumption, Frame
  <2> QED
    BY <1>0, <1>2, <2>1
<1>4. reply' = <<>> \/ reply' = Pdu(g, 2 + len)
  BY <1>2, Zenon DEF Execute, Returns
<1>5. g = [i \in DOMAIN m.frame |-> IF i = 1 THEN len
                                    ELSE IF i - 2 \in DOMAIN bytes THEN bytes[i - 2]
                                    ELSE m.frame[i]]
  BY DEF Returns
<1> HIDE DEF r, g
<1> DEFINE q == Pdu(g, 2 + len)
<1>6. /\ q \in Seq(Byte) /\ q # <<>> /\ Len(q) = 2 + len
      /\ \A i \in 1..(2 + len) : q[i] = g[i - 1]
  <2>1. 2 + len \in 1..(PduSize - 2)
    BY <1>0, <1>2
  <2> QED
    BY <1>2, <2>1, PduAt, Zenon
<1> HIDE DEF q
<1>7. q[1] = m.frame[0] /\ q[2] = len
  <2>1. q[1] = g[0] /\ q[2] = g[1]
    BY <1>0, <1>6
  <2>2. g[0] = m.frame[0] /\ g[1] = len
    BY <1>0, <1>3, <1>5
  <2> QED
    BY <2>1, <2>2
<1>8. ASSUME NEW k \in 0..(len - 1)
      PROVE  q[3 + k] = bytes[k]
  <2>1. q[3 + k] = g[2 + k]
    BY <1>0, <1>6
  <2>2. 2 + k \in DOMAIN m.frame /\ 2 + k # 1 /\ (2 + k) - 2 = k
    <3>1. k \in Nat /\ k <= len - 1 /\ 2 + k \in 0..(PduSize - 1)
      BY <1>0, <1>3
    <3> QED
      BY <1>3, <3>1
  <2>3. g[2 + k] = bytes[k]
    BY <1>5, <2>2
  <2> QED
    BY <2>1, <2>3
<1> QED
  BY <1>4, <1>6, <1>7, <1>8, Zenon DEF q, Sends

\* The halves of a register, put together again.
LEMMA JoinedBytes ==
    ASSUME NEW h \in Int
    PROVE  256 * (h \div 256) + (h % 256) = h
BY SMT

LEMMA EvenAndOdd ==
    ASSUME NEW k \in Nat \ {0}
    PROVE  /\ (2 * k - 2) % 2 = 0 /\ (2 * k - 2) \div 2 = k - 1
           /\ (2 * k - 1) % 2 = 1 /\ (2 * k - 1) \div 2 = k - 1
OBVIOUS

\* The two words behind the function code.
LEMMA FirstWords ==
    ASSUME NEW m \in Frame, Execute(m)
    PROVE  /\ Word(m.frame, 1) \in Half /\ Word(m.frame, 3) \in Half
           /\ Word(m.frame, 1) \in Nat /\ Word(m.frame, 3) \in Nat
           /\ usRegAddress(m.frame, 1) = Address(Word(m.frame, 1))
           /\ m.usLen >= 5 => /\ At(request', 2) = Word(m.frame, 1)
                              /\ At(request', 4) = Word(m.frame, 3)
<1>1. PduSize \in 12..255 /\ BufferOK(m.frame)
  BY MapAssumption DEF MapAssumption, Frame, BufferOK
<1>2. 1 \in 0..(PduSize - 2) /\ 3 \in 0..(PduSize - 2)
  BY <1>1
<1>3. Word(m.frame, 1) \in Half /\ Word(m.frame, 3) \in Half
  BY <1>1, <1>2, WordType, Zenon
<1>4. usRegAddress(m.frame, 1) = Address(Word(m.frame, 1))
  BY SMT DEF usRegAddress, Address
<1>5. m.usLen >= 5 => /\ At(request', 2) = Word(m.frame, 1)
                      /\ At(request', 4) = Word(m.frame, 3)
  <2>1. m.usLen \in Nat /\ \A i \in 1..(m.usLen - 1) : At(request', i) = Word(m.frame, i - 1)
    BY RequestIs
  <2> QED
    BY <2>1
<1>6. Word(m.frame, 1) \in Nat /\ Word(m.frame, 3) \in Nat
  BY <1>3, HalfInNat, Zenon
<1> QED
  BY <1>3, <1>4, <1>5, <1>6, Zenon

\* A request to read, and what the store calls its registers.
Wanted(array, m, n) ==
    [array |-> array, first |-> Word(m.frame, 1) + 1 - Start[array], count |-> n]

LEMMA ReadMeans ==
    ASSUME NEW m \in Frame, Execute(m), m.frame[0] \in 1..4
    PROVE  Asked' = IF m.usLen = 5 /\ Word(m.frame, 3) \in 1..124
                    THEN [op |-> "read",
                          read |-> Wanted(ReadArray[m.frame[0]], m, Word(m.frame, 3))]
                    ELSE [op |-> "other"]
<1> DEFINE p == request'
           n == Word(m.frame, 3)
           wanted == Wanted(ReadArray[m.frame[0]], m, n)
<1>1. /\ p # <<>> /\ Len(p) = m.usLen /\ m.usLen \in Nat /\ p[1] = m.frame[0]
  BY RequestIs
<1>2. m.usLen = 5 => At(p, 2) = Word(m.frame, 1) /\ At(p, 4) = n
  BY FirstWords
<1>3. Asked' = Meaning(p)
  BY Zenon DEF Asked
<1> HIDE DEF p
<1>4. Meaning(p) = IF Len(p) = 5 /\ At(p, 4) \in 1..124
                   THEN [op |-> "read", read |-> Registers(ReadArray[p[1]], p, 2, At(p, 4))]
                   ELSE [op |-> "other"]
  BY <1>1, MeansRead
<1>5. m.usLen = 5 => Registers(ReadArray[p[1]], p, 2, At(p, 4)) = wanted
  BY <1>1, <1>2, Zenon DEF Registers, Wanted
<1> HIDE DEF wanted, n
<1>6. Asked' = IF m.usLen = 5 /\ n \in 1..124
               THEN [op |-> "read", read |-> wanted] ELSE [op |-> "other"]
  <2>1. CASE m.usLen = 5
    BY <1>1, <1>2, <1>3, <1>4, <1>5, <2>1, Zenon
  <2>2. CASE m.usLen # 5
    BY <1>1, <1>3, <1>4, <2>2, Zenon
  <2> QED
    BY <2>1, <2>2
<1> QED
  BY <1>6, Zenon DEF wanted, n

\* What is in the range of the callback exists, and lies where the callback looks.
LEMMA WantedExists ==
    ASSUME NEW m \in Frame, Execute(m), NEW array, NEW n \in Half,
           IsArray(Start[array], Nregs[array])
    PROVE  LET a == usRegAddress(m.frame, 1)
               wanted == Wanted(array, m, n)
           IN  /\ InRange(a, n, Start[array], Nregs[array]) <=> Store!Exists(wanted)
               /\ InRange(a, n, Start[array], Nregs[array]) =>
                    /\ a - Start[array] = wanted.first /\ wanted.first \in Nat
                    /\ wanted.first + n <= Nregs[array]
<1> DEFINE a == usRegAddress(m.frame, 1)
           w == Word(m.frame, 1)
           start == Start[array]
           N == Nregs[array]
           wanted == Wanted(array, m, n)
<1>1. a = Address(w) /\ w \in Half /\ w \in Nat /\ n \in Nat
  BY FirstWords, HalfInNat, Zenon
<1>2. wanted.array = array /\ wanted.first = w + 1 - start /\ wanted.count = n
  BY DEF Wanted
<1>3. Store!Exists(wanted) <=> wanted.first >= 0 /\ wanted.first + n <= N
  BY <1>2, Zenon DEF Store!Exists
<1>4. IsArray(start, N)
  OBVIOUS
<1> HIDE DEF a, w, start, N, wanted
<1>5. /\ InRange(a, n, start, N) <=> w + 1 - start >= 0 /\ w + 1 - start + n <= N
      /\ InRange(a, n, start, N) => a = w + 1
  BY <1>1, <1>4, RangeIsExistence, Zenon
<1>6. /\ InRange(a, n, start, N) <=> Store!Exists(wanted)
      /\ InRange(a, n, start, N) => /\ a - start = wanted.first /\ wanted.first \in Nat
                                    /\ wanted.first + n <= N
  <2>1. start \in Nat /\ N \in Nat
    BY <1>4, ArrayIsNatural, Zenon
  <2> QED
    BY <1>1, <1>2, <1>3, <1>5, <2>1, SMTT(20)
<1> QED
  BY <1>6, Zenon DEF a, start, N, wanted

(* ------------------------------ functions 1 to 4 ---------------------------------- *)

\* The four arrays lie apart, below 0x5000.
LEMMA Arrays ==
    /\ IsArray(Start["coil"], Nregs["coil"]) /\ IsArray(Start["discrete"], Nregs["discrete"])
    /\ IsArray(Start["holding"], Nregs["holding"]) /\ IsArray(Start["input"], Nregs["input"])
<1>1. PICK top : top = 4096
  OBVIOUS
<1>2. ASSUME NEW start \in {REG_COIL_START, REG_DISCRETE_START, REG_HOLDING_START,
                            REG_INPUT_START},
             NEW N \in 1..top
      PROVE  IsArray(start, N)
  <2>1. start \in Nat \ {0} /\ start <= 16385
    BY DEF REG_COIL_START, REG_DISCRETE_START, REG_HOLDING_START, REG_INPUT_START
  <2>2. N \in Nat /\ start + N <= 65535
    BY <1>1, <2>1
  <2> QED
    BY <2>1, <2>2, HalfIs DEF IsArray
<1>3. /\ Start["coil"] = REG_COIL_START /\ Start["discrete"] = REG_DISCRETE_START
      /\ Start["holding"] = REG_HOLDING_START /\ Start["input"] = REG_INPUT_START
  BY DEF Start
<1>4. /\ Nregs["coil"] \in 1..top /\ Nregs["discrete"] \in 1..top
      /\ Nregs["holding"] \in 1..top /\ Nregs["input"] \in 1..top
  BY <1>1, MapAssumption DEF MapAssumption, Nregs
<1> QED
  BY <1>2, <1>3, <1>4, Zenon

\* What an answered read is: its reply, or silence after a broadcast.
LEMMA AnsweredRead ==
    ASSUME NEW r, Asked'.op \in {"read", "exchange"}, Asked'.read = r,
           NEW values, reply' # <<>> => reply'[1] < 128 /\ reply'[1] \in Int,
           reply' # <<>> => ReadValues(r, reply') = Says("done", values)
    PROVE  Store!Answer("done", values)
<1>1. Meaning(request').op \in {"read", "exchange"} /\ Meaning(request').read = r
  BY Zenon DEF Asked
<1>2. Answered' = Outcome(request', reply')
  BY Zenon DEF Answered
<1>3. CASE reply' = <<>>
  <2>1. Answered' = Says("none", <<>>)
    BY <1>2, <1>3, Zenon DEF Outcome
  <2> QED
    BY <2>1, Zenon DEF Store!Answer, Says
<1>4. CASE reply' # <<>>
  <2>1. ~(reply'[1] >= 128)
    BY <1>4
  <2>2. Answered' = Says("done", values)
    BY <1>1, <1>2, <1>4, <2>1, Zenon DEF Outcome
  <2> QED
    BY <2>2, Zenon DEF Store!Answer, Says
<1> QED
  BY <1>3, <1>4

\* The three ways through the checks of a handler.
LEMMA ThroughChecks ==
    ASSUME NEW m, NEW legal \in BOOLEAN, NEW inRange \in BOOLEAN, NEW result
    PROVE  LET r == Checked(m, legal, inRange, result)
           IN  /\ ~legal => r = IllegalValue(m)
               /\ legal /\ ~inRange => r = IllegalAddress(m)
               /\ legal /\ inRange => r = result
BY Zenon DEF Checked

BitCount == 1..1999

LEMMA ReadBitsIs ==
    ASSUME NEW m, NEW array, NEW regs, NEW start, NEW N
    PROVE  LET a == usRegAddress(m.frame, 1)
               n == Word(m.frame, 3)
           IN  ReadBits(m, array, regs, start, N) =
                 Checked(m, m.usLen = 5 /\ n \in BitCount, InRange(a, n, start, N),
                         ReadReply(m, (n + 7) \div 8, BitBytes(regs, a - start, n),
                                   Access(array, a - start, n, 2, n)))
BY SMT DEF ReadBits, BitCount

\* A request for bits: the array, and what the handler makes of it.
BitRequest(m, array, regs) ==
    /\ MapInv /\ Execute(m)
    /\ m.frame[0] \in {1, 2} /\ ReadArray[m.frame[0]] = array
    /\ array \in {"coil", "discrete"} /\ IsArray(Start[array], Nregs[array])
    /\ m.usLen = 5 => Word(m.frame, 3) <= 1
    /\ Handler(m) = ReadBits(m, array, regs, Start[array], Nregs[array])
    /\ DOMAIN regs = 0..(Nregs[array] - 1) /\ StoreView[array] = Levels(regs)

\* Bits that exist are read.
LEMMA BitsRead ==
    ASSUME NEW m \in Frame, NEW array, NEW regs, BitRequest(m, array, regs),
           m.usLen = 5, Word(m.frame, 3) = 1,
           InRange(usRegAddress(m.frame, 1), 1, Start[array], Nregs[array])
    PROVE  Store!Read
<1> DEFINE a == usRegAddress(m.frame, 1)
           wanted == Wanted(array, m, 1)
           first == a - Start[array]
           bytes == BitBytes(regs, first, 1)
<1>1. Execute(m) /\ MapInv
  BY DEF BitRequest
<1>2. Asked' = [op |-> "read", read |-> wanted]
  <2>1. m.frame[0] \in 1..4 /\ ReadArray[m.frame[0]] = array /\ 1 \in 1..124
    BY DEF BitRequest
  <2> QED
    BY <1>1, <2>1, ReadMeans, Zenon
<1>3. /\ Store!Exists(wanted) /\ first = wanted.first /\ wanted.first \in Nat
      /\ wanted.first + 1 <= Nregs[array]
  <2>1. 1 \in Half /\ IsArray(Start[array], Nregs[array])
    BY HalfIs DEF BitRequest
  <2> QED
    BY <1>1, <2>1, WantedExists, Zenon
<1>4. Handler(m) = ReadReply(m, 1, bytes, Access(array, first, 1, 2, 1))
  <2> DEFINE result == ReadReply(m, (1 + 7) \div 8, bytes, Access(array, first, 1, 2, 1))
             legal == m.usLen = 5 /\ 1 \in BitCount
             inRange == InRange(a, 1, Start[array], Nregs[array])
  <2>1. Handler(m) = ReadBits(m, array, regs, Start[array], Nregs[array])
    BY DEF BitRequest
  <2>2. ReadBits(m, array, regs, Start[array], Nregs[array]) = Checked(m, legal, inRange, result)
    BY ReadBitsIs, Zenon
  <2>3. 1 \in BitCount /\ (1 + 7) \div 8 = 1
    BY DEF BitCount
  <2>4. result = ReadReply(m, 1, bytes, Access(array, first, 1, 2, 1))
    BY <2>3, Zenon
  <2>5. legal \in BOOLEAN /\ inRange \in BOOLEAN /\ legal /\ inRange
    BY <2>3 DEF InRange
  <2> HIDE DEF result, legal, inRange
  <2> QED
    BY <2>1, <2>2, <2>4, <2>5, ThroughChecks, Zenon
<1>5. /\ Handler(m).eException = "MB_EX_NONE" /\ Handler(m).usLen = 2 + 1
      /\ Handler(m).coil = usRegCoilBuf /\ Handler(m).holding = usRegHoldingBuf
      /\ Handler(m).frame = [i \in DOMAIN m.frame |->
                               IF i = 1 THEN 1
                               ELSE IF i - 2 \in DOMAIN bytes THEN bytes[i - 2]
                               ELSE m.frame[i]]
  <2> HIDE DEF bytes, first
  <2> QED
    BY <1>4 DEF ReadReply, Result
<1>6. first \in DOMAIN regs
  <2>1. IsArray(Start[array], Nregs[array]) /\ DOMAIN regs = 0..(Nregs[array] - 1)
    BY Zenon DEF BitRequest
  <2>2. Nregs[array] \in Nat
    BY <2>1, ArrayIsNatural, Zenon
  <2> QED
    BY <1>3, <2>1, <2>2
<1>7. DOMAIN bytes = 0..(1 - 1) /\ bytes[0] = regs[first]
  <2>1. bytes = [k \in 0..(1 - 1) |-> Cell(regs, first + k)]
    BY Zenon DEF BitBytes
  <2>2. first + 0 = first
    BY <1>3
  <2>3. Cell(regs, first) = regs[first]
    BY <1>6, Zenon DEF Cell
  <2> HIDE DEF bytes, first
  <2> QED
    BY <2>1, <2>2, <2>3
<1> HIDE DEF bytes, first, wanted
<1>8. Sends(m.frame[0], 1, bytes)
  <2>1. InOneByte(1)
    BY DEF InOneByte
  <2>2. Returns(m, 1, bytes)
    BY <1>5, Zenon DEF Returns
  <2> QED
    BY <1>1, <1>7, <2>1, <2>2, ReadReplySays, Zenon
<1>9. UNCHANGED arrays
  BY <1>1, <1>5, Zenon DEF Execute, arrays
<1>10. wanted.array = array /\ wanted.count = 1
  BY DEF wanted, Wanted
<1>11. Store!ValuesOf(StoreView, wanted) = <<IF regs[first] = 0 THEN 0 ELSE 1>>
  <2>1. StoreView[wanted.array] = Levels(regs)
    BY <1>10 DEF BitRequest
  <2>2. Levels(regs)[first] = IF regs[first] = 0 THEN 0 ELSE 1
    BY <1>6 DEF Levels
  <2>3. Store!ValuesOf(StoreView, wanted) = [k \in 1..1 |-> Levels(regs)[wanted.first + k - 1]]
    BY <1>10, <2>1, Zenon DEF Store!ValuesOf
  <2>4. wanted.first + 1 - 1 = first
    BY <1>3
  <2> DEFINE l == Levels(regs)
  <2> HIDE DEF l
  <2>5. Store!ValuesOf(StoreView, wanted) = <<l[first]>>
    BY <2>3, <2>4 DEF l
  <2> QED
    BY <2>2, <2>5 DEF l
<1>12. Store!Answer("done", Store!ValuesOf(StoreView, wanted))
  <2> DEFINE values == Store!ValuesOf(StoreView, wanted)
  <2>1. reply' # <<>> => reply'[1] < 128 /\ reply'[1] \in Int
    BY <1>8 DEF BitRequest, Sends
  <2>2. reply' # <<>> => ReadValues(wanted, reply') = Says("done", values)
    <3>1. SUFFICES ASSUME reply' # <<>>
                   PROVE  ReadValues(wanted, reply') = Says("done", values)
      OBVIOUS
    <3>2. BitReply(wanted, reply') /\ reply'[3] = regs[first]
      BY <1>7, <1>8, <1>10, <3>1 DEF BitReply, Sends
    <3>3. array \in {"coil", "discrete"}
      BY DEF BitRequest
    <3> QED
      BY <1>10, <1>11, <3>2, <3>3, Zenon DEF ReadValues
  <2>3. Asked'.op \in {"read", "exchange"} /\ Asked'.read = wanted
    BY <1>2
  <2> HIDE DEF values
  <2>4. Store!Answer("done", values)
    BY <2>1, <2>2, <2>3, AnsweredRead
  <2> QED
    BY <2>4, Zenon DEF values
<1>13. StoreView' = StoreView
  BY <1>9, StoreKept
<1>14. Asked'.op = "read" /\ Asked'.read = wanted
  BY <1>2
<1> QED
  BY <1>3, <1>12, <1>13, <1>14, Zenon DEF Store!Read

\* Functions 1 and 2: the bit is read, or the request is refused and none exists.
LEMMA ReadBitsStep ==
    ASSUME NEW m \in Frame, NEW array, NEW regs, BitRequest(m, array, regs)
    PROVE  Store!Read \/ Store!Refuse
<1> DEFINE a == usRegAddress(m.frame, 1)
           n == Word(m.frame, 3)
           inRange == InRange(a, n, Start[array], Nregs[array])
<1>1. Execute(m) /\ MapInv /\ (m.usLen = 5 => n <= 1)
  BY DEF BitRequest
<1>2. n \in Half /\ n \in Nat
  BY <1>1, FirstWords
<1>3. Asked' = IF m.usLen = 5 /\ n \in 1..124
               THEN [op |-> "read", read |-> Wanted(array, m, n)] ELSE [op |-> "other"]
  <2>1. m.frame[0] \in 1..4 /\ ReadArray[m.frame[0]] = array
    BY DEF BitRequest
  <2> QED
    BY <1>1, <2>1, ReadMeans, Zenon
<1>4. inRange <=> Store!Exists(Wanted(array, m, n))
  <2>1. IsArray(Start[array], Nregs[array])
    BY DEF BitRequest
  <2> QED
    BY <1>1, <1>2, <2>1, WantedExists, Zenon
<1> DEFINE legal == m.usLen = 5 /\ n \in BitCount
           result == ReadReply(m, (n + 7) \div 8, BitBytes(regs, a - Start[array], n),
                               Access(array, a - Start[array], n, 2, n))
<1>8. Handler(m) = Checked(m, legal, inRange, result)
  <2>1. Handler(m) = ReadBits(m, array, regs, Start[array], Nregs[array])
    BY DEF BitRequest
  <2> QED
    BY <2>1, ReadBitsIs, Zenon
<1>9. legal \in BOOLEAN /\ inRange \in BOOLEAN
  BY DEF InRange
<1>10. legal <=> m.usLen = 5 /\ n = 1
  BY <1>1, <1>2 DEF BitCount
<1> HIDE DEF a, n, inRange, legal, result
<1>5. CASE ~legal
  <2>1. Handler(m) = IllegalValue(m)
    BY <1>5, <1>8, <1>9, ThroughChecks, Zenon
  <2>2. Asked'.op = "other"
    BY <1>1, <1>2, <1>3, <1>5, <1>10
  <2>3. /\ Handler(m).eException # "MB_EX_NONE"
        /\ Handler(m).coil = usRegCoilBuf /\ Handler(m).holding = usRegHoldingBuf
    BY <2>1, ExceptionLeaves, Zenon
  <2> QED
    BY <1>1, <2>2, <2>3, RefuseStep, Zenon
<1>6. CASE legal /\ ~inRange
  <2>1. Handler(m) = IllegalAddress(m)
    BY <1>6, <1>8, <1>9, ThroughChecks, Zenon
  <2>2. m.usLen = 5 /\ n \in 1..124
    BY <1>2, <1>6, <1>10
  <2>3. Asked'.op = "read" /\ ~Store!Exists(Asked'.read)
    <3>1. Asked' = [op |-> "read", read |-> Wanted(array, m, n)]
      BY <1>3, <2>2, Zenon
    <3>2. Asked'.op = "read" /\ Asked'.read = Wanted(array, m, n)
      BY <3>1
    <3> QED
      BY <1>4, <1>6, <3>2, Zenon
  <2>4. /\ Handler(m).eException # "MB_EX_NONE"
        /\ Handler(m).coil = usRegCoilBuf /\ Handler(m).holding = usRegHoldingBuf
    BY <2>1, ExceptionLeaves, Zenon
  <2> QED
    BY <1>1, <2>3, <2>4, RefuseStep, Zenon
<1>7. CASE legal /\ inRange
  <2>1. m.usLen = 5 /\ n = 1
    BY <1>7, <1>10
  <2> QED
    BY <1>7, <2>1, BitsRead, Zenon DEF a, n, inRange
<1> QED
  BY <1>5, <1>6, <1>7

\* The registers of an array, and the words a reply makes of their bytes.
IsRegisters(regs, N) == DOMAIN regs = 0..(N - 1) /\ \A i \in 0..(N - 1) : regs[i] \in Half

SentBytes(q, bytes, len) == \A k \in 0..(len - 1) : q[3 + k] = bytes[k]

LEMMA WordsRead ==
    ASSUME NEW regs, NEW N \in Nat, IsRegisters(regs, N), NEW first \in Nat, NEW n \in Nat,
           first + n <= N, NEW q, SentBytes(q, RegBytes(regs, first, n), 2 * n)
    PROVE  Words(q, 3, n) = [k \in 1..n |-> regs[first + k - 1]]
<1> DEFINE bytes == RegBytes(regs, first, n)
<1>1. ASSUME NEW k \in 1..n
      PROVE  At(q, 3 + 2 * (k - 1)) = regs[first + k - 1]
  <2> DEFINE h == regs[first + (k - 1)]
             j == 2 * k - 2
  <2>1. /\ k \in Nat \ {0} /\ first + (k - 1) \in 0..(N - 1)
        /\ j \in 0..(2 * n - 1) /\ j + 1 \in 0..(2 * n - 1)
        /\ 3 + 2 * (k - 1) = 3 + j /\ (3 + j) + 1 = 3 + (j + 1)
        /\ first + k - 1 = first + (k - 1)
    OBVIOUS
  <2>2. j % 2 = 0 /\ j \div 2 = k - 1 /\ (j + 1) % 2 = 1 /\ (j + 1) \div 2 = k - 1
    <3>1. /\ (2 * k - 2) % 2 = 0 /\ (2 * k - 2) \div 2 = k - 1
          /\ (2 * k - 1) % 2 = 1 /\ (2 * k - 1) \div 2 = k - 1
      BY <2>1, EvenAndOdd
    <3>2. (2 * k - 2) + 1 = 2 * k - 1
      BY <2>1
    <3> QED
      BY <3>1, <3>2
  <2> HIDE DEF j
  <2>3. Cell(regs, first + (k - 1)) = h
    BY <2>1 DEF Cell, IsRegisters
  <2>4. bytes[j] = h \div 256 /\ bytes[j + 1] = h % 256
    BY <2>1, <2>2, <2>3 DEF RegBytes
  <2>5. q[3 + j] = h \div 256 /\ q[(3 + j) + 1] = h % 256
    <3>1. q[3 + j] = bytes[j] /\ q[3 + (j + 1)] = bytes[j + 1]
      BY <2>1 DEF SentBytes
    <3> QED
      BY <2>1, <2>4, <3>1
  <2>6. h \in Int
    <3>1. h \in Half
      BY <2>1 DEF IsRegisters
    <3> QED
      BY <3>1, HalfIsNatural
  <2> HIDE DEF h
  <2>7. 256 * (h \div 256) + (h % 256) = h
    BY <2>6, JoinedBytes
  <2>8. At(q, 3 + j) = 256 * q[3 + j] + q[(3 + j) + 1]
    BY Zenon DEF At
  <2>9. At(q, 3 + j) = h
    BY <2>5, <2>7, <2>8, Zenon
  <2> QED
    BY <2>1, <2>9, Zenon DEF h
<1> QED
  BY <1>1, Zenon DEF Words

\* A request for n registers: the array, and what the handler makes of it.
RegRequest(m, array, regs, n, max) ==
    /\ MapInv /\ Execute(m)
    /\ m.frame[0] \in {3, 4} /\ ReadArray[m.frame[0]] = array
    /\ array \in {"holding", "input"} /\ IsArray(Start[array], Nregs[array])
    /\ 2 * Nregs[array] + 4 <= PduSize
    /\ max = 124 \/ (max = 125 /\ Nregs[array] <= 120)
    /\ n \in Nat /\ (m.usLen = 5 => Word(m.frame, 3) = n)
    /\ Handler(m) = ReadRegs(m, array, n, max, regs, Start[array], Nregs[array])
    /\ IsRegisters(regs, Nregs[array]) /\ StoreView[array] = regs

\* Registers that exist are read.
LEMMA RegsRead ==
    ASSUME NEW m \in Frame, NEW array, NEW regs, NEW n, NEW max,
           RegRequest(m, array, regs, n, max), m.usLen = 5,
           Asked' = [op |-> "read", read |-> Wanted(array, m, n)],
           n \in Nat \ {0},
           InRange(usRegAddress(m.frame, 1), n, Start[array], Nregs[array]),
           LET first == usRegAddress(m.frame, 1) - Start[array]
           IN  Handler(m) = ReadReply(m, 2 * n, RegBytes(regs, first, n),
                                      Access(array, first, n, 2, 2 * n))
    PROVE  Store!Read
<1> DEFINE a == usRegAddress(m.frame, 1)
           wanted == Wanted(array, m, n)
           first == a - Start[array]
           bytes == RegBytes(regs, first, n)
           N == Nregs[array]
<1>1. Execute(m) /\ MapInv /\ IsArray(Start[array], N) /\ N \in Nat
  BY ArrayIsNatural, Zenon DEF RegRequest
<1>2. /\ Store!Exists(wanted) /\ first = wanted.first /\ wanted.first \in Nat
      /\ wanted.first + n <= N
  <2>1. n \in Half
    <3>1. Word(m.frame, 3) = n
      BY Zenon DEF RegRequest
    <3> QED
      BY <1>1, <3>1, FirstWords
  <2> QED
    BY <1>1, <2>1, WantedExists, Zenon
<1>3. /\ Handler(m).coil = usRegCoilBuf /\ Handler(m).holding = usRegHoldingBuf
      /\ Returns(m, 2 * n, bytes)
  <2>1. Handler(m) = ReadReply(m, 2 * n, bytes, Access(array, first, n, 2, 2 * n))
    BY Zenon
  <2> DEFINE len == 2 * n
             access == Access(array, first, n, 2, 2 * n)
  <2> HIDE DEF bytes, first, len, access
  <2>2. Handler(m) = ReadReply(m, len, bytes, access)
    BY <2>1, Zenon DEF len, access
  <2>3. /\ Handler(m).coil = usRegCoilBuf /\ Handler(m).holding = usRegHoldingBuf
        /\ Returns(m, len, bytes)
    BY <2>2 DEF ReadReply, Result, Returns
  <2> QED
    BY <2>3, Zenon DEF len
<1>4. DOMAIN bytes = 0..(2 * n - 1)
  BY Zenon DEF RegBytes
<1>5. InOneByte(2 * n)
  <2>1. 2 * N + 4 <= PduSize /\ PduSize \in 12..255
    BY MapAssumption DEF RegRequest, MapAssumption
  <2>2. n \in Nat /\ n > 0 /\ n <= N
    BY <1>1, <1>2
  <2> HIDE DEF N
  <2> QED
    BY <1>1, <2>1, <2>2 DEF InOneByte
<1>6. IsRegisters(regs, N) /\ StoreView[array] = regs
  BY Zenon DEF RegRequest
<1> HIDE DEF first, wanted, N
<1>7. Sends(m.frame[0], 2 * n, bytes)
  BY <1>1, <1>3, <1>4, <1>5, ReadReplySays, Zenon
<1>8. wanted.array = array /\ wanted.count = n
  BY DEF wanted, Wanted
<1>9. Store!ValuesOf(StoreView, wanted) = [k \in 1..n |-> regs[first + k - 1]]
  BY <1>2, <1>6, <1>8, Zenon DEF Store!ValuesOf
<1>10. Store!Answer("done", Store!ValuesOf(StoreView, wanted))
  <2> DEFINE values == Store!ValuesOf(StoreView, wanted)
  <2>1. reply' # <<>> => reply'[1] < 128 /\ reply'[1] \in Int
    BY <1>7 DEF RegRequest, Sends
  <2>2. reply' # <<>> => ReadValues(wanted, reply') = Says("done", values)
    <3>1. SUFFICES ASSUME reply' # <<>>
                   PROVE  ReadValues(wanted, reply') = Says("done", values)
      OBVIOUS
    <3>2. RegReply(wanted, reply')
      BY <1>7, <1>8, <3>1 DEF RegReply, Sends
    <3>3. SentBytes(reply', bytes, 2 * n)
      BY <1>7, <3>1, Zenon DEF Sends, SentBytes
    <3>4. Words(reply', 3, n) = [k \in 1..n |-> regs[first + k - 1]]
      <4>1. first + n <= N /\ first \in Nat /\ n \in Nat
        BY <1>2
      <4>2. SentBytes(reply', RegBytes(regs, first, n), 2 * n)
        BY <3>3
      <4> HIDE DEF bytes
      <4> QED
        BY <1>1, <1>6, <4>1, <4>2, WordsRead
    <3>5. array \notin {"coil", "discrete"}
      BY DEF RegRequest
    <3> QED
      BY <1>8, <1>9, <3>2, <3>4, <3>5, Zenon DEF ReadValues
  <2>3. Asked'.op \in {"read", "exchange"} /\ Asked'.read = wanted
    BY DEF wanted
  <2> HIDE DEF values
  <2>4. Store!Answer("done", values)
    BY <2>1, <2>2, <2>3, AnsweredRead
  <2> QED
    BY <2>4, Zenon DEF values
<1>11. StoreView' = StoreView
  <2>1. UNCHANGED arrays
    BY <1>1, <1>3, Zenon DEF Execute, arrays
  <2> QED
    BY <2>1, StoreKept
<1>12. Asked'.op = "read" /\ Asked'.read = wanted
  BY DEF wanted
<1> QED
  BY <1>2, <1>10, <1>11, <1>12, Zenon DEF Store!Read

LEMMA ReadRegsIs ==
    ASSUME NEW m, NEW array, NEW n, NEW max, NEW regs, NEW start, NEW N
    PROVE  LET a == usRegAddress(m.frame, 1)
           IN  ReadRegs(m, array, n, max, regs, start, N) =
                 Checked(m, m.usLen = 5 /\ n \in 1..max, InRange(a, n, start, N),
                         ReadReply(m, 2 * n, RegBytes(regs, a - start, n),
                                   Access(array, a - start, n, 2, 2 * n)))
BY Zenon DEF ReadRegs

\* Functions 3 and 4: the registers are read, or the request is refused and not all exist.
LEMMA ReadRegsStep ==
    ASSUME NEW m \in Frame, NEW array, NEW regs, NEW n, NEW max,
           RegRequest(m, array, regs, n, max)
    PROVE  Store!Read \/ Store!Refuse
<1> DEFINE a == usRegAddress(m.frame, 1)
           first == a - Start[array]
           legal == m.usLen = 5 /\ n \in 1..max
           inRange == InRange(a, n, Start[array], Nregs[array])
           result == ReadReply(m, 2 * n, RegBytes(regs, first, n),
                               Access(array, first, n, 2, 2 * n))
           wanted == Wanted(array, m, n)
<1>1. Execute(m) /\ MapInv /\ n \in Nat
  BY DEF RegRequest
<1>2. /\ m.usLen = 5 => Word(m.frame, 3) = n
      /\ m.usLen = 5 => n \in Half
  <2>1. m.usLen = 5 => Word(m.frame, 3) = n
    BY DEF RegRequest
  <2> QED
    BY <1>1, <2>1, FirstWords
<1>3. Asked' = IF m.usLen = 5 /\ n \in 1..124
               THEN [op |-> "read", read |-> wanted] ELSE [op |-> "other"]
  <2>1. m.frame[0] \in 1..4 /\ ReadArray[m.frame[0]] = array
    BY DEF RegRequest
  <2>2. Asked' = IF m.usLen = 5 /\ Word(m.frame, 3) \in 1..124
                 THEN [op |-> "read", read |-> Wanted(array, m, Word(m.frame, 3))]
                 ELSE [op |-> "other"]
    BY <1>1, <2>1, ReadMeans, Zenon
  <2> QED
    BY <1>2, <2>2, Zenon
<1>4. m.usLen = 5 => (inRange <=> Store!Exists(wanted))
  <2>1. IsArray(Start[array], Nregs[array])
    BY DEF RegRequest
  <2> QED
    BY <1>1, <1>2, <2>1, WantedExists, Zenon
<1>5. Handler(m) = Checked(m, legal, inRange, result)
  <2>1. Handler(m) = ReadRegs(m, array, n, max, regs, Start[array], Nregs[array])
    BY DEF RegRequest
  <2> QED
    BY <2>1, ReadRegsIs, Zenon
<1>6. legal \in BOOLEAN /\ inRange \in BOOLEAN
  BY DEF InRange
<1>7. /\ legal /\ inRange => m.usLen = 5 /\ n \in 1..124
      /\ m.usLen = 5 /\ n \in 1..124 => legal
  <2>1. max = 124 \/ (max = 125 /\ Nregs[array] <= 120)
    BY DEF RegRequest
  <2>2. m.usLen = 5 /\ inRange => n <= Nregs[array] /\ Nregs[array] \in Nat
    <3>1. IsArray(Start[array], Nregs[array])
      BY DEF RegRequest
    <3>2. Nregs[array] \in Nat
      BY <3>1, ArrayIsNatural, Zenon
    <3>3. m.usLen = 5 /\ inRange =>
            /\ a - Start[array] = wanted.first /\ wanted.first \in Nat
            /\ wanted.first + n <= Nregs[array]
      BY <1>1, <1>2, <3>1, WantedExists, Zenon
    <3> QED
      BY <1>1, <3>2, <3>3
  <2> HIDE DEF inRange
  <2> QED
    BY <1>1, <2>1, <2>2
<1> HIDE DEF legal, inRange, result, wanted
<1>8. CASE ~legal
  <2>1. Handler(m) = IllegalValue(m)
    BY <1>5, <1>6, <1>8, ThroughChecks, Zenon
  <2>2. Asked'.op = "other"
    BY <1>3, <1>7, <1>8
  <2>3. /\ Handler(m).eException # "MB_EX_NONE"
        /\ Handler(m).coil = usRegCoilBuf /\ Handler(m).holding = usRegHoldingBuf
    BY <2>1, ExceptionLeaves, Zenon
  <2> QED
    BY <1>1, <2>2, <2>3, RefuseStep, Zenon
<1>9. CASE legal /\ ~inRange
  <2>1. Handler(m) = IllegalAddress(m)
    BY <1>5, <1>6, <1>9, ThroughChecks, Zenon
  <2>2. Asked'.op = "other" \/ (Asked'.op = "read" /\ ~Store!Exists(Asked'.read))
    <3>1. m.usLen = 5 /\ ~Store!Exists(wanted)
      BY <1>4, <1>9 DEF legal
    <3>2. CASE Asked' = [op |-> "read", read |-> wanted]
      <4>1. Asked'.op = "read" /\ Asked'.read = wanted
        BY <3>2
      <4> QED
        BY <3>1, <4>1, Zenon
    <3>3. CASE Asked' = [op |-> "other"]
      <4>1. Asked'.op = "other"
        BY <3>3
      <4> QED
        BY <4>1, Zenon
    <3> QED
      BY <1>3, <3>2, <3>3
  <2>3. /\ Handler(m).eException # "MB_EX_NONE"
        /\ Handler(m).coil = usRegCoilBuf /\ Handler(m).holding = usRegHoldingBuf
    BY <2>1, ExceptionLeaves, Zenon
  <2> QED
    BY <1>1, <2>2, <2>3, RefuseStep, Zenon
<1>10. CASE legal /\ inRange
  <2>1. Handler(m) = result
    BY <1>5, <1>6, <1>10, ThroughChecks, Zenon
  <2>2. m.usLen = 5 /\ n \in 1..124
    BY <1>7, <1>10
  <2>3. Asked' = [op |-> "read", read |-> wanted]
    BY <1>3, <2>2
  <2>4. n \in Nat \ {0}
    BY <2>2
  <2> QED
    BY <1>10, <2>1, <2>2, <2>3, <2>4, RegsRead, Zenon DEF wanted, inRange, result
<1> QED
  BY <1>8, <1>9, <1>10

(* ------------------------------ writes, as the store sees them ------------------------ *)

\* The registers of a request exist when its range passes the check of the callback.
LEMMA RegistersExist ==
    ASSUME NEW array, IsArray(Start[array], Nregs[array]), NEW h \in Half, NEW n \in Half,
           NEW r, r.array = array, r.first = h + 1 - Start[array], r.count = n
    PROVE  /\ InRange(Address(h), n, Start[array], Nregs[array]) <=> Store!Exists(r)
           /\ InRange(Address(h), n, Start[array], Nregs[array]) =>
                /\ Address(h) - Start[array] = r.first /\ r.first \in Nat
                /\ r.first + n <= Nregs[array]
<1> DEFINE a == Address(h)
           start == Start[array]
           N == Nregs[array]
<1>1. h \in Nat /\ n \in Nat /\ start \in Nat /\ N \in Nat /\ IsArray(start, N)
  BY HalfInNat, ArrayIsNatural, Zenon
<1>2. Store!Exists(r) <=> r.first >= 0 /\ r.first + n <= N
  BY Zenon DEF Store!Exists
<1> HIDE DEF a, start, N
<1>3. /\ InRange(a, n, start, N) <=> h + 1 - start >= 0 /\ h + 1 - start + n <= N
      /\ InRange(a, n, start, N) => a = h + 1
  BY <1>1, RangeIsExistence, Zenon DEF a
<1>4. r.first = h + 1 - start
  BY DEF start
<1>5. /\ InRange(a, n, start, N) <=> Store!Exists(r)
      /\ InRange(a, n, start, N) => /\ a - start = r.first /\ r.first \in Nat
                                    /\ r.first + n <= N
  BY <1>1, <1>2, <1>3, <1>4
<1> QED
  BY <1>5, Zenon DEF a, start, N

\* What Execute leaves in the arrays when the handler refuses with one of its checks.
LEMMA RefusedStep ==
    ASSUME MapInv, NEW m \in Frame, Execute(m),
           Handler(m) \in {IllegalValue(m), IllegalAddress(m)},
           \/ Asked'.op = "other"
           \/ Asked'.op = "read" /\ ~Store!Exists(Asked'.read)
           \/ Asked'.op \in {"write", "exchange"} /\ ~Store!Exists(Asked'.write)
    PROVE  Store!Refuse
<1>1. /\ Handler(m).eException # "MB_EX_NONE"
      /\ Handler(m).coil = usRegCoilBuf /\ Handler(m).holding = usRegHoldingBuf
  BY ExceptionLeaves, Zenon
<1> QED
  BY <1>1, RefuseStep, Zenon

\* An acknowledged write: what it leaves but for the registers written.
Acknowledges(m) ==
    /\ MapInv /\ Execute(m) /\ m.usLen >= 5 /\ m.frame[0] < 128
    /\ Handler(m).eException = "MB_EX_NONE" /\ Handler(m).frame = m.frame
    /\ Handler(m).usLen = 5

\* One coil set or reset, in bytes and in levels.
LEMMA OneCoil ==
    ASSUME NEW regs, NEW N \in Nat, DOMAIN regs = 0..(N - 1), NEW i \in Nat, NEW v \in {0, 1}
    PROVE  Levels([j \in DOMAIN regs |-> IF j = i THEN v ELSE regs[j]]) =
             Store!Written(Levels(regs), i, <<v>>)
<1> DEFINE new == [j \in DOMAIN regs |-> IF j = i THEN v ELSE regs[j]]
           level(j) == IF regs[j] = 0 THEN 0 ELSE 1
<1>1. Levels(new) = [j \in DOMAIN regs |-> IF j = i THEN v ELSE level(j)]
  BY DEF Levels
<1>2. Store!Written(Levels(regs), i, <<v>>) =
        [j \in DOMAIN regs |-> IF j - i + 1 \in DOMAIN <<v>> THEN <<v>>[j - i + 1]
                                                             ELSE level(j)]
  BY DEF Levels, Store!Written
<1>3. ASSUME NEW j \in DOMAIN regs
      PROVE  (IF j = i THEN v ELSE level(j)) =
             (IF j - i + 1 \in DOMAIN <<v>> THEN <<v>>[j - i + 1] ELSE level(j))
  <2>1. DOMAIN <<v>> = 1..1 /\ <<v>>[1] = v
    OBVIOUS
  <2>2. j \in Int /\ (j = i => j - i + 1 = 1) /\ (j # i => j - i + 1 \notin 1..1)
    OBVIOUS
  <2> QED
    BY <2>1, <2>2
<1> QED
  BY <1>1, <1>2, <1>3, Zenon

CoilRequest(h, v) ==
    [op |-> "write", write |-> [array |-> "coil", first |-> h + 1 - Start["coil"],
                                count |-> 1, values |-> <<v>>]]

LEMMA CoilStep ==
    ASSUME NEW m \in Frame, Acknowledges(m), NEW h \in Half, NEW v \in {0, 1},
           Asked' = CoilRequest(h, v),
           InRange(Address(h), 1, Start["coil"], Nregs["coil"]),
           Handler(m).holding = usRegHoldingBuf,
           Handler(m).coil = [j \in DOMAIN usRegCoilBuf |->
                                IF j = Address(h) - Start["coil"] THEN v ELSE usRegCoilBuf[j]]
    PROVE  Store!Write
<1> DEFINE w == Asked'.write
<1>1. /\ Asked'.op = "write" /\ w.array = "coil" /\ w.first = h + 1 - Start["coil"]
      /\ w.count = 1 /\ w.values = <<v>>
  BY DEF CoilRequest
<1> HIDE DEF w
<1>2. Store!Exists(w) /\ Address(h) - Start["coil"] = w.first /\ w.first \in Nat
  <2>1. 1 \in Half
    BY HalfIs
  <2>2. IsArray(Start["coil"], Nregs["coil"])
    BY Arrays, Zenon
  <2> QED
    BY <1>1, <2>1, <2>2, RegistersExist, SMTT(20)
<1>3. UNCHANGED <<usRegDiscreteBuf, usRegHoldingBuf, usRegInputBuf>>
  BY Zenon DEF Acknowledges, Execute
<1>4. usRegCoilBuf' = [j \in DOMAIN usRegCoilBuf |-> IF j = w.first THEN v ELSE usRegCoilBuf[j]]
  BY <1>2, Zenon DEF Acknowledges, Execute
<1>5. DOMAIN usRegCoilBuf = 0..(REG_COIL_NREGS - 1) /\ REG_COIL_NREGS \in Nat
  BY MapAssumption DEF Acknowledges, MapInv, TypeOK, MapAssumption
<1>6. Levels(usRegCoilBuf') = Store!Written(Levels(usRegCoilBuf), w.first, w.values)
  BY <1>1, <1>2, <1>4, <1>5, OneCoil, Zenon
<1>7. StoreView' = Store!After(w)
  BY <1>1, <1>3, <1>6, CoilsStored, Zenon
<1>8. Asked'.write = w
  BY DEF w
<1> QED
  BY <1>1, <1>2, <1>7, <1>8, WriteStep, Zenon DEF Acknowledges

(* ------------------------------ functions 5 and 15 ----------------------------------- *)

\* The bytes of a frame are bytes.
LEMMA FrameBytes ==
    ASSUME NEW m \in Frame
    PROVE  \A i \in 0..10 : m.frame[i] \in 0..255
<1>1. m.frame \in [0..(PduSize - 1) -> 0..255]
  BY DEF Frame, Byte
<1>2. PduSize \in 12..255
  BY MapAssumption DEF MapAssumption
<1>3. \A i \in 0..10 : i \in 0..(PduSize - 1)
  BY <1>2
<1> QED
  BY <1>1, <1>3

LEMMA HandlerOfWrites ==
    ASSUME NEW m
    PROVE  /\ m.frame[0] = 5  => Handler(m) = eMBFuncWriteCoil(m)
           /\ m.frame[0] = 6  => Handler(m) = eMBFuncWriteHoldingRegister(m)
           /\ m.frame[0] = 15 => Handler(m) = eMBFuncWriteMultipleCoils(m)
           /\ m.frame[0] = 16 => Handler(m) = eMBFuncWriteMultipleHoldingRegister(m)
           /\ m.frame[0] = 17 => Handler(m) = eMBFuncReportSlaveID(m)
           /\ m.frame[0] = 23 => Handler(m) = eMBFuncReadWriteMultipleHoldingRegister(m)
BY DEF Handler

\* The range check of a coil, with the names of the code.
LEMMA CoilCheck ==
    ASSUME NEW m \in Frame, Execute(m)
    PROVE  /\ usRegAddress(m.frame, 1) = Address(Word(m.frame, 1))
           /\ Word(m.frame, 1) \in Half
           /\ InRange(usRegAddress(m.frame, 1), 1, REG_COIL_START, REG_COIL_NREGS)
              <=> InRange(Address(Word(m.frame, 1)), 1, Start["coil"], Nregs["coil"])
           /\ usRegAddress(m.frame, 1) - REG_COIL_START =
              Address(Word(m.frame, 1)) - Start["coil"]
<1>1. Start["coil"] = REG_COIL_START /\ Nregs["coil"] = REG_COIL_NREGS
  BY DEF Start, Nregs
<1>2. usRegAddress(m.frame, 1) = Address(Word(m.frame, 1)) /\ Word(m.frame, 1) \in Half
  BY FirstWords, Zenon
<1> QED
  BY <1>1, <1>2, Zenon

\* A coil request that is refused named no coil.
LEMMA CoilRefused ==
    ASSUME MapInv, NEW m \in Frame, Execute(m), Handler(m) = IllegalAddress(m),
           NEW h \in Half, NEW v, Asked' = CoilRequest(h, v),
           ~InRange(Address(h), 1, Start["coil"], Nregs["coil"])
    PROVE  Store!Refuse
<1>1. /\ Asked'.op = "write" /\ Asked'.write.array = "coil"
      /\ Asked'.write.first = h + 1 - Start["coil"] /\ Asked'.write.count = 1
  BY SMTT(20) DEF CoilRequest
<1>2. 1 \in Half /\ IsArray(Start["coil"], Nregs["coil"])
  BY Arrays, HalfIs
<1>3. ~Store!Exists(Asked'.write)
  <2> DEFINE w == Asked'.write
  <2>1. w.array = "coil" /\ w.first = h + 1 - Start["coil"] /\ w.count = 1
    BY <1>1
  <2> HIDE DEF w
  <2>2. ~Store!Exists(w)
    BY <1>2, <2>1, RegistersExist
  <2> QED
    BY <2>2, Zenon DEF w
<1>4. Asked'.op \in {"write", "exchange"}
  BY <1>1
<1> QED
  BY <1>3, <1>4, RefusedStep, Zenon

\* Function 5.
LEMMA SetCoilStep ==
    ASSUME MapInv, NEW m \in Frame, Execute(m), m.frame[0] = 5
    PROVE  Store!Write \/ Store!Refuse
<1> DEFINE f == m.frame
           p == request'
           h == Word(m.frame, 1)
           n == Word(m.frame, 3)
           v == IF n = 0 THEN 0 ELSE 1
           legal == m.usLen = 5 /\ f[3] \in {0, 255} /\ f[4] = 0
           inRange == InRange(usRegAddress(f, 1), 1, REG_COIL_START, REG_COIL_NREGS)
           i == usRegAddress(f, 1) - REG_COIL_START
           coil == [j \in DOMAIN usRegCoilBuf |->
                      IF j # i THEN usRegCoilBuf[j] ELSE IF f[3] = 255 THEN 1 ELSE 0]
           result == [Result(m, "MB_EX_NONE", 5) EXCEPT
                        !.coil = coil, !.span = {Access("coil", i, 1, 3, 2)}]
<1>1. f[3] \in 0..255 /\ f[4] \in 0..255
  BY FrameBytes
<1>2. /\ f[3] \in {0, 255} /\ f[4] = 0 <=> n \in SetOrReset
      /\ n \in SetOrReset => (n = 0 <=> f[3] # 255)
  <2>1. n = 256 * f[3] + f[4]
    BY DEF Word
  <2> DEFINE x == f[3]
             y == f[4]
  <2>2. x \in 0..255 /\ y \in 0..255 /\ n = 256 * x + y
    BY <1>1, <2>1
  <2> HIDE DEF x, y, f, n
  <2>3. /\ x \in {0, 255} /\ y = 0 <=> n \in SetOrReset
        /\ n \in SetOrReset => (n = 0 <=> x # 255)
    BY <2>2 DEF SetOrReset
  <2> QED
    BY <2>3, Zenon DEF x, y
<1>3. Handler(m) = Checked(m, legal, inRange, result)
  BY HandlerOfWrites, Zenon DEF eMBFuncWriteCoil
<1>4. /\ h \in Half /\ (inRange <=> InRange(Address(h), 1, Start["coil"], Nregs["coil"]))
      /\ i = Address(h) - Start["coil"]
  BY CoilCheck, Zenon
<1>5. Asked' = IF m.usLen = 5 /\ n \in SetOrReset THEN CoilRequest(h, v) ELSE [op |-> "other"]
  <2>1. /\ p # <<>> /\ Len(p) = m.usLen /\ m.usLen \in Nat /\ p[1] = 5
        /\ m.usLen = 5 => At(p, 2) = h /\ At(p, 4) = n
    BY RequestIs, FirstWords
  <2>2. Asked' = Meaning(p)
    BY Zenon DEF Asked
  <2> HIDE DEF p, h, n, v
  <2>3. Len(<<v>>) = 1
    OBVIOUS
  <2>4. m.usLen = 5 => Values("coil", p, 2, <<v>>) = CoilRequest(h, v).write
    BY <2>1, <2>3 DEF Values, CoilRequest
  <2>5. CASE m.usLen = 5 /\ n \in SetOrReset
    <3>1. Meaning(p) = [op |-> "write", write |-> Values("coil", p, 2, <<v>>)]
      BY <2>1, <2>5, MeansSetCoil, Zenon DEF v
    <3> QED
      BY <2>1, <2>2, <2>4, <2>5, <3>1 DEF CoilRequest
  <2>6. CASE ~(m.usLen = 5 /\ n \in SetOrReset)
    <3>1. ~(Len(p) = 5 /\ At(p, 4) \in SetOrReset)
      BY <2>1, <2>6, Zenon
    <3>2. Meaning(p) = [op |-> "other"]
      BY <2>1, <3>1, MeansSetCoil, Zenon
    <3> QED
      BY <2>2, <2>6, <3>2, Zenon
  <2> QED
    BY <2>5, <2>6
<1>6. legal \in BOOLEAN /\ inRange \in BOOLEAN /\ (legal <=> m.usLen = 5 /\ n \in SetOrReset)
  BY <1>2 DEF InRange
<1> HIDE DEF h, n, legal, inRange, coil, result
<1>7. CASE ~legal
  <2>1. Asked'.op = "other"
    <3>1. Asked' = [op |-> "other"]
      BY <1>5, <1>6, <1>7, Zenon
    <3> QED
      BY <3>1
  <2>2. Handler(m) \in {IllegalValue(m), IllegalAddress(m)}
    BY <1>3, <1>6, <1>7, ThroughChecks, Zenon
  <2> QED
    BY <2>1, <2>2, RefusedStep, Zenon
<1>8. CASE legal /\ ~inRange
  <2>1. Asked' = CoilRequest(h, v)
    BY <1>5, <1>6, <1>8, Zenon
  <2>2. Handler(m) = IllegalAddress(m)
    BY <1>3, <1>6, <1>8, ThroughChecks, Zenon
  <2> QED
    BY <1>4, <1>8, <2>1, <2>2, CoilRefused, Zenon
<1>9. CASE legal /\ inRange
  <2>1. Asked' = CoilRequest(h, v)
    BY <1>5, <1>6, <1>9, Zenon
  <2>2. Handler(m) = result
    BY <1>3, <1>6, <1>9, ThroughChecks, Zenon
  <2>3. /\ Handler(m).eException = "MB_EX_NONE" /\ Handler(m).frame = m.frame
        /\ Handler(m).usLen = 5 /\ Handler(m).holding = usRegHoldingBuf
        /\ Handler(m).coil = coil
    <3> HIDE DEF i
    <3> QED
      BY <2>2 DEF result, Result
  <2>4. coil = [j \in DOMAIN usRegCoilBuf |->
                  IF j = Address(h) - Start["coil"] THEN v ELSE usRegCoilBuf[j]]
    <3>1. v = IF f[3] = 255 THEN 1 ELSE 0
      BY <1>2, <1>6, <1>9
    <3> HIDE DEF i, v
    <3>2. coil = [j \in DOMAIN usRegCoilBuf |-> IF j = i THEN v ELSE usRegCoilBuf[j]]
      BY <3>1 DEF coil
    <3> QED
      BY <1>4, <3>2, Zenon
  <2>5. Acknowledges(m)
    <3>1. m.usLen >= 5 /\ m.frame[0] < 128
      BY <1>6, <1>9
    <3> QED
      BY <2>3, <3>1, Zenon DEF Acknowledges
  <2>6. v \in {0, 1}
    OBVIOUS
  <2> HIDE DEF v
  <2> QED
    BY <1>4, <1>9, <2>1, <2>3, <2>4, <2>5, <2>6, CoilStep, Zenon
<1> QED
  BY <1>6, <1>7, <1>8, <1>9

CoilCount == 1..1968

LEMMA WriteMultipleCoilsIs ==
    ASSUME NEW m
    PROVE  LET a == usRegAddress(m.frame, 1)
               n == Word(m.frame, 3)
           IN  eMBFuncWriteMultipleCoils(m) =
                 Checked(m, m.usLen > 5 /\ n \in CoilCount /\ (n + 7) \div 8 = m.frame[5],
                         InRange(a, n, REG_COIL_START, REG_COIL_NREGS),
                         [Result(m, "MB_EX_NONE", 5) EXCEPT
                            !.coil = BitsWritten(usRegCoilBuf, a - REG_COIL_START, n, m.frame, 6),
                            !.span = {Access("coil", a - REG_COIL_START, n, 6, n)}])
BY SMT DEF eMBFuncWriteMultipleCoils, CoilCount

LEMMA CoilBytes ==
    ASSUME MapInv
    PROVE  DOMAIN usRegCoilBuf = 0..(REG_COIL_NREGS - 1) /\ REG_COIL_NREGS \in Nat
<1>1. REG_COIL_NREGS \in Nat
  BY MapAssumption DEF MapAssumption
<1>2. DOMAIN usRegCoilBuf = 0..(REG_COIL_NREGS - 1)
  BY DEF MapInv, TypeOK
<1> QED
  BY <1>1, <1>2

\* A write of one bit, the array in bytes.
LEMMA OneCoilWritten ==
    ASSUME MapInv, NEW i \in Nat, NEW f
    PROVE  BitsWritten(usRegCoilBuf, i, 1, f, 6) =
             [j \in DOMAIN usRegCoilBuf |-> IF j = i THEN f[6] ELSE usRegCoilBuf[j]]
<1>1. ASSUME NEW j \in DOMAIN usRegCoilBuf
      PROVE  (IF j - i \in 0..(1 - 1) THEN f[6 + j - i] ELSE usRegCoilBuf[j]) =
             (IF j = i THEN f[6] ELSE usRegCoilBuf[j])
  <2>1. j \in Int
    BY CoilBytes
  <2>2. CASE j = i
    <3>1. j - i \in 0..(1 - 1) /\ 6 + j - i = 6
      BY <2>1, <2>2
    <3> QED
      BY <2>2, <3>1, Zenon
  <2>3. CASE j # i
    <3>1. j - i \notin 0..(1 - 1)
      BY <2>1, <2>3
    <3> QED
      BY <2>3, <3>1, Zenon
  <2> QED
    BY <2>2, <2>3
<1> QED
  BY <1>1, Zenon DEF BitsWritten

\* Function 15, for one coil.
LEMMA WriteCoilStep ==
    ASSUME MapInv, NEW m \in Frame, Execute(m), m.frame[0] = 15,
           m.usLen > 5 => m.usLen = 7 /\ Word(m.frame, 3) <= 1 /\ m.frame[6] \in {0, 1}
    PROVE  Store!Write \/ Store!Refuse
<1> DEFINE f == m.frame
           p == request'
           h == Word(m.frame, 1)
           n == Word(m.frame, 3)
           v == f[6]
           legal == m.usLen > 5 /\ n \in CoilCount /\ (n + 7) \div 8 = m.frame[5]
           inRange == InRange(usRegAddress(f, 1), n, REG_COIL_START, REG_COIL_NREGS)
           i == usRegAddress(f, 1) - REG_COIL_START
           coil == BitsWritten(usRegCoilBuf, i, n, f, 6)
           one == m.usLen = 7 /\ n = 1 /\ f[5] = 1 /\ v \in {0, 1}
           result == [Result(m, "MB_EX_NONE", 5) EXCEPT
                        !.coil = coil, !.span = {Access("coil", i, n, 6, n)}]
<1>1. f[5] \in 0..255 /\ n \in Nat /\ m.usLen \in Nat /\ h \in Half
  BY FrameBytes, RequestIs, FirstWords
<1>2. /\ m.usLen > 5 => m.usLen = 7 /\ n <= 1 /\ v \in {0, 1}
      /\ legal \in BOOLEAN /\ inRange \in BOOLEAN
  BY DEF InRange
<1>3. legal <=> one
  <2>1. n = 1 => (n + 7) \div 8 = 1
    OBVIOUS
  <2>2. n <= 1 => (n \in CoilCount <=> n = 1)
    BY <1>1 DEF CoilCount
  <2> HIDE DEF n
  <2> QED
    BY <1>1, <1>2, <2>1, <2>2
<1>4. Handler(m) = Checked(m, legal, inRange, result)
  BY HandlerOfWrites, WriteMultipleCoilsIs, Zenon
<1>5. Asked' = IF one THEN CoilRequest(h, v) ELSE [op |-> "other"]
  <2>1. /\ p # <<>> /\ Len(p) = m.usLen /\ p[1] = 15
        /\ m.usLen >= 5 => At(p, 2) = h /\ At(p, 4) = n
        /\ m.usLen = 7 => p[6] = f[5] /\ p[7] = v
    <3>1. /\ p # <<>> /\ Len(p) = m.usLen /\ p[1] = 15
          /\ m.usLen >= 5 => At(p, 2) = h /\ At(p, 4) = n
      BY RequestIs, FirstWords
    <3>2. m.usLen = 7 => p[6] = m.frame[6 - 1] /\ p[7] = m.frame[7 - 1]
      BY RequestIs
    <3> QED
      BY <3>1, <3>2
  <2>2. Asked' = Meaning(p)
    BY Zenon DEF Asked
  <2> HIDE DEF p, h, n, v
  <2>3. Len(<<v>>) = 1
    OBVIOUS
  <2>4. m.usLen = 7 => Values("coil", p, 2, <<v>>) = CoilRequest(h, v).write
    BY <2>1, <2>3 DEF Values, CoilRequest
  <2>5. one <=> Len(p) = 7 /\ At(p, 4) = 1 /\ p[6] = 1 /\ p[7] \in {0, 1}
    BY <2>1
  <2>6. CASE one
    <3>1. Meaning(p) = [op |-> "write", write |-> Values("coil", p, 2, <<p[7]>>)]
      BY <1>1, <2>1, <2>5, <2>6, MeansWriteCoil, Zenon
    <3>2. p[7] = v
      BY <2>1, <2>6
    <3> QED
      BY <2>2, <2>4, <2>6, <3>1, <3>2 DEF CoilRequest
  <2>7. CASE ~one
    <3>1. Meaning(p) = [op |-> "other"]
      BY <1>1, <2>1, <2>5, <2>7, MeansWriteCoil, Zenon
    <3> QED
      BY <2>2, <2>7, <3>1, Zenon
  <2> QED
    BY <2>6, <2>7
<1>6. /\ n = 1 => (inRange <=> InRange(Address(h), 1, Start["coil"], Nregs["coil"]))
      /\ i = Address(h) - Start["coil"]
  BY CoilCheck, Zenon
<1> HIDE DEF h, n, v, one, legal, inRange, coil, result
<1>7. CASE ~legal
  <2>1. Asked'.op = "other"
    <3>1. Asked' = [op |-> "other"]
      BY <1>3, <1>5, <1>7, Zenon
    <3> QED
      BY <3>1
  <2>2. Handler(m) \in {IllegalValue(m), IllegalAddress(m)}
    BY <1>2, <1>4, <1>7, ThroughChecks, Zenon
  <2> QED
    BY <2>1, <2>2, RefusedStep, Zenon
<1>8. CASE legal /\ ~inRange
  <2>1. Asked' = CoilRequest(h, v)
    BY <1>3, <1>5, <1>8, Zenon
  <2>2. Handler(m) = IllegalAddress(m)
    BY <1>2, <1>4, <1>8, ThroughChecks, Zenon
  <2>3. n = 1
    BY <1>3, <1>8 DEF one
  <2> QED
    BY <1>1, <1>6, <1>8, <2>1, <2>2, <2>3, CoilRefused, Zenon
<1>9. CASE legal /\ inRange
  <2>1. Asked' = CoilRequest(h, v)
    BY <1>3, <1>5, <1>9, Zenon
  <2>2. Handler(m) = result
    BY <1>2, <1>4, <1>9, ThroughChecks, Zenon
  <2>3. /\ Handler(m).eException = "MB_EX_NONE" /\ Handler(m).frame = m.frame
        /\ Handler(m).usLen = 5 /\ Handler(m).holding = usRegHoldingBuf
        /\ Handler(m).coil = coil
    <3> HIDE DEF i
    <3> QED
      BY <2>2 DEF result, Result
  <2>4. n = 1 /\ m.usLen = 7 /\ v \in {0, 1}
    BY <1>3, <1>9 DEF one
  <2>5. InRange(Address(h), 1, Start["coil"], Nregs["coil"])
    BY <1>6, <1>9, <2>4
  <2>6. i \in Nat
    <3>1. 1 \in Half /\ IsArray(Start["coil"], Nregs["coil"])
      BY Arrays, HalfIs
    <3> DEFINE r == CoilRequest(h, v).write
    <3>2. r.array = "coil" /\ r.first = h + 1 - Start["coil"] /\ r.count = 1
      BY DEF CoilRequest
    <3> HIDE DEF r
    <3>3. Address(h) - Start["coil"] = r.first /\ r.first \in Nat
      BY <1>1, <2>5, <3>1, <3>2, RegistersExist
    <3> QED
      BY <1>6, <3>3, Zenon
  <2>7. DOMAIN usRegCoilBuf = 0..(REG_COIL_NREGS - 1) /\ REG_COIL_NREGS \in Nat
    BY CoilBytes, Zenon
  <2>8. coil = [j \in DOMAIN usRegCoilBuf |->
                  IF j = Address(h) - Start["coil"] THEN v ELSE usRegCoilBuf[j]]
    <3> HIDE DEF i
    <3>1. coil = [j \in DOMAIN usRegCoilBuf |-> IF j = i THEN v ELSE usRegCoilBuf[j]]
      <4>1. coil = BitsWritten(usRegCoilBuf, i, 1, m.frame, 6)
        BY <2>4, Zenon DEF coil
      <4>2. BitsWritten(usRegCoilBuf, i, 1, m.frame, 6) =
              [j \in DOMAIN usRegCoilBuf |-> IF j = i THEN m.frame[6] ELSE usRegCoilBuf[j]]
        BY <2>6, OneCoilWritten, Zenon
      <4> QED
        BY <4>1, <4>2, Zenon DEF v
    <3> QED
      BY <1>6, <3>1, Zenon
  <2>9. Acknowledges(m)
    <3>1. m.usLen >= 5 /\ m.frame[0] < 128
      BY <2>4
    <3> QED
      BY <2>3, <3>1, Zenon DEF Acknowledges
  <2> QED
    BY <1>1, <2>1, <2>3, <2>4, <2>5, <2>8, <2>9, CoilStep, Zenon
<1> QED
  BY <1>2, <1>7, <1>8, <1>9

(* ------------------------------ functions 6 and 16 ----------------------------------- *)

\* n words of a request are n values, and the callback writes those.
LEMMA WordsOfRequest ==
    ASSUME NEW m \in Frame, Execute(m), NEW at \in Nat, NEW n \in Nat, at + 2 * n <= m.usLen
    PROVE  \A k \in 1..n : Words(request', at + 1, n)[k] = Word(m.frame, at + 2 * (k - 1))
<1>1. m.usLen \in Nat /\ \A i \in 1..(m.usLen - 1) : At(request', i) = Word(m.frame, i - 1)
  BY RequestIs
<1>2. ASSUME NEW k \in 1..n
      PROVE  Words(request', at + 1, n)[k] = Word(m.frame, at + 2 * (k - 1))
  <2> DEFINE i == at + 1 + 2 * (k - 1)
  <2>1. i \in 1..(m.usLen - 1) /\ i - 1 = at + 2 * (k - 1)
    BY <1>1
  <2>2. Words(request', at + 1, n)[k] = At(request', i)
    BY DEF Words
  <2> HIDE DEF i
  <2>3. At(request', i) = Word(m.frame, i - 1)
    BY <1>1, <2>1
  <2> QED
    BY <2>1, <2>2, <2>3, Zenon
<1> QED
  BY <1>2

LEMMA WordsLength ==
    ASSUME NEW p, NEW i, NEW n \in Nat
    PROVE  DOMAIN Words(p, i, n) = 1..n /\ Len(Words(p, i, n)) = n
<1> DEFINE s == Words(p, i, n)
           S == {s[k] : k \in 1..n}
<1>1. s = [k \in 1..n |-> At(p, i + 2 * (k - 1))]
  BY Zenon DEF Words
<1>2. DOMAIN s = 1..n
  BY <1>1
<1> HIDE DEF s
<1>3. s \in [1..n -> S]
  <2>1. s = [k \in 1..n |-> s[k]]
    BY <1>1
  <2>2. \A k \in 1..n : s[k] \in S
    BY DEF S
  <2> HIDE DEF S
  <2> QED
    BY <2>1, <2>2
<1> HIDE DEF S
<1>4. s \in Seq(S)
  BY <1>3, SeqDef
<1>5. Len(s) = n
  BY <1>2, <1>4, LenProperties
<1> QED
  BY <1>2, <1>5, Zenon DEF s

\* The n words of the buffer from position at on.
AreWords(values, n, f, at) ==
    DOMAIN values = 1..n /\ \A k \in 1..n : values[k] = Word(f, at + 2 * (k - 1))

LEMMA WordsWritten ==
    ASSUME NEW regs, NEW N \in Nat, DOMAIN regs = 0..(N - 1), NEW first \in Nat, NEW n \in Nat,
           NEW f, NEW at \in Nat, NEW values, AreWords(values, n, f, at)
    PROVE  RegsWritten(regs, first, n, f, at) = Store!Written(regs, first, values)
<1>1. ASSUME NEW i \in DOMAIN regs
      PROVE  (IF i - first \in 0..(n - 1) THEN Word(f, at + 2 * (i - first)) ELSE regs[i]) =
             (IF i - first + 1 \in DOMAIN values THEN values[i - first + 1] ELSE regs[i])
  <2>1. i \in Int
    OBVIOUS
  <2>2. CASE i - first \in 0..(n - 1)
    <3>1. i - first + 1 \in 1..n /\ (i - first + 1) - 1 = i - first
      BY <2>1, <2>2
    <3>2. values[i - first + 1] = Word(f, at + 2 * (i - first))
      BY <3>1 DEF AreWords
    <3> QED
      BY <2>2, <3>1, <3>2, Zenon DEF AreWords
  <2>3. CASE i - first \notin 0..(n - 1)
    <3>1. i - first + 1 \notin 1..n
      BY <2>1, <2>3
    <3> QED
      BY <2>3, <3>1, Zenon DEF AreWords
  <2> QED
    BY <2>2, <2>3
<1> QED
  BY <1>1, Zenon DEF RegsWritten, Store!Written

\* A write of holding registers: what it asks for, and what it does.
NamesHolding(w, h, n) ==
    w.array = "holding" /\ w.first = h + 1 - Start["holding"] /\ w.count = n

LEMMA HoldingExists ==
    ASSUME NEW h \in Half, NEW n \in Half, NEW w, NamesHolding(w, h, n)
    PROVE  /\ InHolding(Address(h), n) <=> Store!Exists(w)
           /\ InHolding(Address(h), n) =>
                /\ Address(h) - REG_HOLDING_START = w.first /\ w.first \in Nat
                /\ w.first + n <= REG_HOLDING_NREGS
<1>1. IsArray(Start["holding"], Nregs["holding"])
  BY Arrays
<1>2. Start["holding"] = REG_HOLDING_START /\ Nregs["holding"] = REG_HOLDING_NREGS
  BY DEF Start, Nregs
<1>3. /\ InRange(Address(h), n, Start["holding"], Nregs["holding"]) <=> Store!Exists(w)
      /\ InRange(Address(h), n, Start["holding"], Nregs["holding"]) =>
           /\ Address(h) - Start["holding"] = w.first /\ w.first \in Nat
           /\ w.first + n <= Nregs["holding"]
  BY <1>1, RegistersExist DEF NamesHolding
<1> QED
  BY <1>2, <1>3, Zenon DEF InHolding

LEMMA HoldingWords ==
    ASSUME MapInv
    PROVE  /\ DOMAIN usRegHoldingBuf = 0..(REG_HOLDING_NREGS - 1) /\ REG_HOLDING_NREGS \in Nat
           /\ IsRegisters(usRegHoldingBuf, REG_HOLDING_NREGS)
<1>1. REG_HOLDING_NREGS \in Nat
  BY MapAssumption DEF MapAssumption
<1>2. /\ DOMAIN usRegHoldingBuf = 0..(REG_HOLDING_NREGS - 1)
      /\ IsRegisters(usRegHoldingBuf, REG_HOLDING_NREGS)
  BY DEF MapInv, TypeOK, IsRegisters
<1> QED
  BY <1>1, <1>2

\* The registers a handler wrote are the registers the store has after the request.
LEMMA HoldingStored ==
    ASSUME MapInv, NEW m \in Frame, Execute(m), NEW h \in Half, NEW n \in Half, n \in Nat,
           NEW w, NamesHolding(w, h, n), InHolding(Address(h), n),
           NEW at \in Nat, AreWords(w.values, n, m.frame, at),
           Handler(m).coil = usRegCoilBuf,
           Handler(m).holding =
             RegsWritten(usRegHoldingBuf, Address(h) - REG_HOLDING_START, n, m.frame, at)
    PROVE  StoreView' = Store!After(w)
<1>1. Address(h) - REG_HOLDING_START = w.first /\ w.first \in Nat
  BY HoldingExists
<1>2. usRegHoldingBuf' = RegsWritten(usRegHoldingBuf, w.first, n, m.frame, at)
  BY <1>1, Zenon DEF Execute
<1>3. RegsWritten(usRegHoldingBuf, w.first, n, m.frame, at) =
        Store!Written(usRegHoldingBuf, w.first, w.values)
  <2> DEFINE regs == usRegHoldingBuf
             N == REG_HOLDING_NREGS
             first == w.first
             values == w.values
             f == m.frame
  <2>1. N \in Nat /\ DOMAIN regs = 0..(N - 1)
    BY HoldingWords, Zenon
  <2>2. first \in Nat /\ AreWords(values, n, f, at)
    BY <1>1
  <2> HIDE DEF regs, N, first, values, f
  <2>3. RegsWritten(regs, first, n, f, at) = Store!Written(regs, first, values)
    BY <2>1, <2>2, WordsWritten
  <2> QED
    BY <2>3, Zenon DEF regs, first, values, f
<1>4. UNCHANGED <<usRegCoilBuf, usRegDiscreteBuf, usRegInputBuf>>
  BY Zenon DEF Execute
<1> QED
  BY <1>2, <1>3, <1>4, RegistersStored, Zenon DEF NamesHolding

LEMMA HoldingStep ==
    ASSUME MapInv, NEW m \in Frame, Execute(m), m.usLen >= 5, m.frame[0] < 128,
           NEW h \in Half, NEW n \in Half, NEW w, Asked' = [op |-> "write", write |-> w],
           NamesHolding(w, h, n), InHolding(Address(h), n),
           NEW at \in Nat, AreWords(w.values, n, m.frame, at),
           Handler(m) = WriteRegs(m, Address(h), n, at)
    PROVE  Store!Write
<1>1. /\ Handler(m).eException = "MB_EX_NONE" /\ Handler(m).frame = m.frame
      /\ Handler(m).usLen = 5 /\ Handler(m).coil = usRegCoilBuf
      /\ Handler(m).holding =
           RegsWritten(usRegHoldingBuf, Address(h) - REG_HOLDING_START, n, m.frame, at)
  <2> DEFINE first == Address(h) - REG_HOLDING_START
             access == Access("holding", first, n, at, 2 * n)
             regs == RegsWritten(usRegHoldingBuf, first, n, m.frame, at)
  <2>1. Handler(m) = [Result(m, "MB_EX_NONE", 5) EXCEPT !.holding = regs, !.span = {access}]
    BY Zenon DEF WriteRegs
  <2> HIDE DEF first, access, regs
  <2>2. /\ Handler(m).eException = "MB_EX_NONE" /\ Handler(m).frame = m.frame
        /\ Handler(m).usLen = 5 /\ Handler(m).coil = usRegCoilBuf
        /\ Handler(m).holding = regs
    BY <2>1 DEF Result
  <2> QED
    BY <2>2, Zenon DEF regs, first
<1>2. StoreView' = Store!After(w)
  <2>1. n \in Nat
    BY HalfInNat, Zenon
  <2> QED
    BY <1>1, <2>1, HoldingStored
<1>3. Store!Exists(w)
  BY HoldingExists
<1>4. Asked'.op = "write" /\ Asked'.write = w
  OBVIOUS
<1> QED
  BY <1>1, <1>2, <1>3, <1>4, WriteStep, Zenon

LEMMA HoldingRefused ==
    ASSUME MapInv, NEW m \in Frame, Execute(m),
           Handler(m) \in {IllegalValue(m), IllegalAddress(m)},
           NEW h \in Half, NEW n \in Half, NEW w, NamesHolding(w, h, n),
           Asked'.op \in {"write", "exchange"}, Asked'.write = w, ~InHolding(Address(h), n)
    PROVE  Store!Refuse
<1>1. ~Store!Exists(w)
  BY HoldingExists
<1> QED
  BY <1>1, RefusedStep, Zenon

\* Function 6.
LEMMA SetRegisterStep ==
    ASSUME MapInv, NEW m \in Frame, Execute(m), m.frame[0] = 6
    PROVE  Store!Write \/ Store!Refuse
<1> DEFINE p == request'
           h == Word(m.frame, 1)
           x == Word(m.frame, 3)
           legal == m.usLen = 5
           inRange == InHolding(Address(h), 1)
           result == WriteRegs(m, Address(h), 1, 3)
           w == Values("holding", p, 2, <<At(p, 4)>>)
<1>1. /\ p # <<>> /\ Len(p) = m.usLen /\ p[1] = 6 /\ m.usLen \in Nat
      /\ m.usLen >= 5 => At(p, 2) = h /\ At(p, 4) = x
      /\ h \in Half /\ usRegAddress(m.frame, 1) = Address(h)
  BY RequestIs, FirstWords
<1>2. Handler(m) = Checked(m, legal, inRange, result)
  BY <1>1, HandlerOfWrites, Zenon DEF eMBFuncWriteHoldingRegister
<1>3. Asked' = IF legal THEN [op |-> "write", write |-> w] ELSE [op |-> "other"]
  <2>1. Asked' = Meaning(p)
    BY Zenon DEF Asked
  <2> HIDE DEF p, h, x
  <2> QED
    BY <1>1, <2>1, MeansSetRegister, Zenon
<1>4. legal => NamesHolding(w, h, 1) /\ AreWords(w.values, 1, m.frame, 3)
  <2>1. SUFFICES ASSUME legal PROVE NamesHolding(w, h, 1) /\ AreWords(w.values, 1, m.frame, 3)
    OBVIOUS
  <2>2. At(p, 2) = h /\ At(p, 4) = x
    BY <1>1, <2>1
  <2> HIDE DEF p, h, x
  <2>3. Len(<<At(p, 4)>>) = 1
    OBVIOUS
  <2>4. /\ w.array = "holding" /\ w.first = h + 1 - Start["holding"] /\ w.count = 1
        /\ w.values = <<At(p, 4)>>
    BY <2>2, <2>3 DEF Values
  <2>5. \A k \in 1..1 : <<At(p, 4)>>[k] = Word(m.frame, 3 + 2 * (k - 1))
    <3>1. \A k \in 1..1 : k = 1 /\ 3 + 2 * (k - 1) = 3
      OBVIOUS
    <3>2. <<At(p, 4)>>[1] = Word(m.frame, 3)
      BY <2>2 DEF x
    <3> QED
      BY <3>1, <3>2, Zenon
  <2>6. DOMAIN <<At(p, 4)>> = 1..1
    OBVIOUS
  <2> HIDE DEF w
  <2> QED
    BY <2>4, <2>5, <2>6, Zenon DEF NamesHolding, AreWords
<1>5. legal \in BOOLEAN /\ inRange \in BOOLEAN /\ 1 \in Half
  BY HalfIs DEF InHolding, InRange
<1>6. legal => m.usLen >= 5 /\ m.frame[0] < 128
  OBVIOUS
<1> HIDE DEF h, x, legal, inRange, result, w
<1>7. CASE ~legal
  <2>1. Asked'.op = "other"
    <3>1. Asked' = [op |-> "other"]
      BY <1>3, <1>7, Zenon
    <3> QED
      BY <3>1
  <2>2. Handler(m) \in {IllegalValue(m), IllegalAddress(m)}
    BY <1>2, <1>5, <1>7, ThroughChecks, Zenon
  <2> QED
    BY <2>1, <2>2, RefusedStep, Zenon
<1>8. CASE legal /\ ~inRange
  <2>1. Asked'.op \in {"write", "exchange"} /\ Asked'.write = w
    <3>1. Asked' = [op |-> "write", write |-> w]
      BY <1>3, <1>8, Zenon
    <3> QED
      BY <3>1
  <2>2. Handler(m) \in {IllegalValue(m), IllegalAddress(m)}
    BY <1>2, <1>5, <1>8, ThroughChecks, Zenon
  <2> QED
    BY <1>1, <1>4, <1>5, <1>8, <2>1, <2>2, HoldingRefused, Zenon DEF inRange
<1>9. CASE legal /\ inRange
  <2>1. Asked' = [op |-> "write", write |-> w]
    BY <1>3, <1>9, Zenon
  <2>2. Handler(m) = WriteRegs(m, Address(h), 1, 3)
    BY <1>2, <1>5, <1>9, ThroughChecks, Zenon DEF result
  <2>3. 3 \in Nat
    OBVIOUS
  <2>4. InHolding(Address(h), 1)
    BY <1>9 DEF inRange
  <2>5. h \in Half
    BY <1>1
  <2> QED
    BY <1>4, <1>5, <1>6, <1>9, <2>1, <2>2, <2>3, <2>4, <2>5, HoldingStep, Zenon
<1> QED
  BY <1>5, <1>7, <1>8, <1>9

\* Function 16.
LEMMA WriteRegistersStep ==
    ASSUME MapInv, NEW m \in Frame, Execute(m), m.frame[0] = 16, REG_HOLDING_NREGS <= 120,
           m.usLen > 5 /\ m.frame[5] = 2 * Word(m.frame, 3) => m.usLen = 6 + m.frame[5]
    PROVE  Store!Write \/ Store!Refuse
<1> DEFINE p == request'
           h == Word(m.frame, 1)
           n == Word(m.frame, 3)
           bytes == m.frame[5]
           legal == m.usLen >= 6 /\ n \in 1..120 /\ bytes = (2 * n) % 256
           fits == m.usLen > 6 /\ bytes = 2 * n /\ m.usLen = 6 + bytes
           inRange == InHolding(Address(h), n)
           result == WriteRegs(m, Address(h), n, 6)
           w == Values("holding", p, 2, Words(p, 7, n))
<1>1. /\ p # <<>> /\ Len(p) = m.usLen /\ p[1] = 16 /\ m.usLen \in Nat
      /\ m.usLen >= 5 => At(p, 2) = h /\ At(p, 4) = n
      /\ h \in Half /\ n \in Half /\ usRegAddress(m.frame, 1) = Address(h) /\ n \in Nat
  BY RequestIs, FirstWords
<1>2. m.usLen >= 6 => p[6] = bytes
  <2>1. m.usLen >= 6 => p[6] = m.frame[6 - 1]
    BY RequestIs
  <2> QED
    BY <2>1
<1>3. bytes \in 0..255
  BY FrameBytes
<1>4. Handler(m) = Checked(m, legal, inRange, result)
  BY <1>1, HandlerOfWrites DEF eMBFuncWriteMultipleHoldingRegister
<1>5. /\ legal => fits
      /\ fits => m.usLen = 6 + 2 * n /\ m.usLen >= 6 /\ n > 0
      /\ fits /\ ~legal => n > 120
  <2>1. n <= 120 => (2 * n) % 256 = 2 * n
    BY <1>1, ShortCount
  <2>2. m.usLen > 5 /\ bytes = 2 * n => m.usLen = 6 + bytes
    OBVIOUS
  <2> HIDE DEF n, bytes
  <2>3. legal => fits
    BY <1>1, <1>3, <2>1, <2>2
  <2>4. fits => m.usLen = 6 + 2 * n /\ m.usLen >= 6 /\ n > 0
    BY <1>1, <1>3
  <2>5. fits /\ n <= 120 => legal
    BY <1>1, <1>3, <2>1, <2>4
  <2> HIDE DEF legal, fits
  <2> QED
    BY <1>1, <2>3, <2>4, <2>5
<1>6. Asked' = IF fits THEN [op |-> "write", write |-> w] ELSE [op |-> "other"]
  <2>1. Asked' = Meaning(p)
    BY Zenon DEF Asked
  <2> HIDE DEF p, h, n, bytes
  <2>2. fits <=> Len(p) > 6 /\ p[6] = 2 * At(p, 4) /\ Len(p) = 6 + p[6]
    BY <1>1, <1>2
  <2>3. fits => At(p, 4) = n
    BY <1>1
  <2> HIDE DEF fits
  <2> QED
    BY <1>1, <2>1, <2>2, <2>3, MeansWriteRegisters, Zenon
<1>7. fits => NamesHolding(w, h, n) /\ AreWords(w.values, n, m.frame, 6)
  <2>1. SUFFICES ASSUME fits PROVE NamesHolding(w, h, n) /\ AreWords(w.values, n, m.frame, 6)
    OBVIOUS
  <2>2. At(p, 2) = h
    BY <1>1, <1>5, <2>1
  <2> DEFINE values == Words(p, 7, n)
  <2>3. DOMAIN values = 1..n /\ Len(values) = n
    BY <1>1, WordsLength, Zenon
  <2>4. \A k \in 1..n : values[k] = Word(m.frame, 6 + 2 * (k - 1))
    <3>1. 6 + 2 * n <= m.usLen /\ 6 \in Nat /\ n \in Nat
      BY <1>1, <1>5, <2>1
    <3> HIDE DEF n
    <3>2. \A k \in 1..n : Words(request', 6 + 1, n)[k] = Word(m.frame, 6 + 2 * (k - 1))
      BY <3>1, WordsOfRequest
    <3>3. 6 + 1 = 7
      OBVIOUS
    <3> QED
      BY <3>2, <3>3
  <2> HIDE DEF p, h, n, values
  <2>5. /\ w.array = "holding" /\ w.first = h + 1 - Start["holding"] /\ w.count = n
        /\ w.values = values
    BY <2>2, <2>3 DEF Values, values
  <2> HIDE DEF w
  <2> QED
    BY <2>3, <2>4, <2>5, Zenon DEF NamesHolding, AreWords
<1>8. legal \in BOOLEAN /\ inRange \in BOOLEAN
  BY DEF InHolding, InRange
<1>9. fits /\ inRange => legal
  <2>1. fits /\ inRange => w.first \in Nat /\ w.first + n <= REG_HOLDING_NREGS
    BY <1>1, <1>7, HoldingExists
  <2>2. REG_HOLDING_NREGS \in Nat
    BY HoldingWords, Zenon
  <2> HIDE DEF n, fits, inRange, legal, w
  <2> QED
    BY <1>1, <1>5, <2>1, <2>2
<1> HIDE DEF h, n, bytes, legal, fits, inRange, result, w
<1>10. CASE ~fits
  <2>1. Asked'.op = "other"
    <3>1. Asked' = [op |-> "other"]
      BY <1>6, <1>10, Zenon
    <3> QED
      BY <3>1
  <2>2. Handler(m) \in {IllegalValue(m), IllegalAddress(m)}
    BY <1>4, <1>5, <1>8, <1>10, ThroughChecks, Zenon
  <2> QED
    BY <2>1, <2>2, RefusedStep, Zenon
<1>11. CASE fits /\ ~inRange
  <2>1. Asked'.op \in {"write", "exchange"} /\ Asked'.write = w
    <3>1. Asked' = [op |-> "write", write |-> w]
      BY <1>6, <1>11, Zenon
    <3> QED
      BY <3>1
  <2>2. Handler(m) \in {IllegalValue(m), IllegalAddress(m)}
    BY <1>4, <1>8, <1>11, ThroughChecks, Zenon
  <2> QED
    BY <1>1, <1>7, <1>11, <2>1, <2>2, HoldingRefused, Zenon DEF inRange
<1>12. CASE fits /\ inRange
  <2>1. Asked' = [op |-> "write", write |-> w]
    BY <1>6, <1>12, Zenon
  <2>2. Handler(m) = WriteRegs(m, Address(h), n, 6)
    BY <1>4, <1>8, <1>9, <1>12, ThroughChecks, Zenon DEF result
  <2>3. 6 \in Nat /\ m.usLen >= 5 /\ m.frame[0] < 128
    BY <1>1, <1>5, <1>12
  <2>4. InHolding(Address(h), n) /\ h \in Half /\ n \in Half
    BY <1>1, <1>12 DEF inRange
  <2> QED
    BY <1>7, <1>12, <2>1, <2>2, <2>3, <2>4, HoldingStep, Zenon
<1> QED
  BY <1>10, <1>11, <1>12

(* ------------------------------ function 17, and no function ------------------------- *)

\* A request about no register is answered.
LEMMA ReportStep ==
    ASSUME MapInv, NEW m \in Frame, Execute(m), Asked'.op = "report", m.frame[0] < 128,
           NEW len \in 1..(PduSize - 2), Handler(m) = Result(m, "MB_EX_NONE", len)
    PROVE  Store!Report
<1>1. /\ Handler(m).eException = "MB_EX_NONE" /\ Handler(m).frame = m.frame
      /\ Handler(m).usLen = len /\ Handler(m).coil = usRegCoilBuf
      /\ Handler(m).holding = usRegHoldingBuf
  BY DEF Result
<1>2. StoreView' = StoreView
  <2>1. UNCHANGED arrays
    BY <1>1, Zenon DEF Execute, arrays
  <2> QED
    BY <2>1, StoreKept
<1>3. reply' = <<>> \/ reply' = Pdu(m.frame, len)
  BY <1>1, Zenon DEF Execute
<1>4. Pdu(m.frame, len) # <<>> /\ Pdu(m.frame, len)[1] = m.frame[0]
  <2>1. BufferOK(m.frame) /\ PduSize \in 12..255
    BY MapAssumption DEF MapAssumption, Frame, BufferOK
  <2>2. 1 \in 1..len
    BY <2>1
  <2>3. Pdu(m.frame, len) # <<>> /\ \A i \in 1..len : Pdu(m.frame, len)[i] = m.frame[i - 1]
    BY <2>1, PduAt, Zenon
  <2> QED
    BY <2>2, <2>3
<1>5. m.frame[0] \in 0..255
  BY FrameBytes
<1>6. Answered' \in {Says("done", <<>>), Says("none", <<>>)}
  <2>1. Answered' = Outcome(request', reply') /\ Meaning(request').op = "report"
    BY Zenon DEF Answered, Asked
  <2> DEFINE q == reply'
             p == request'
  <2>2. q # <<>> => q[1] = m.frame[0]
    BY <1>3, <1>4
  <2>3. q # <<>> => ~(q[1] >= 128)
    <3>1. ~(m.frame[0] >= 128)
      BY <1>5
    <3> QED
      BY <2>2, <3>1, Zenon
  <2> HIDE DEF q, p
  <2>4. Outcome(p, q) \in {Says("done", <<>>), Says("none", <<>>)}
    <3>1. Meaning(p).op = "report"
      BY <2>1 DEF p
    <3> QED
      BY <2>3, <3>1 DEF Outcome
  <2> QED
    BY <2>1, <2>4 DEF p, q
<1>7. Store!Answer("done", <<>>)
  BY <1>6, Zenon DEF Store!Answer, Says
<1> QED
  BY <1>2, <1>7, Zenon DEF Store!Report

(* ------------------------------ function 23 ------------------------------------------- *)

\* Every word of a frame, as a number, as an address and in the request.
LEMMA FrameWords ==
    ASSUME NEW m \in Frame, Execute(m), NEW i \in 0..9
    PROVE  /\ Word(m.frame, i) \in Half /\ Word(m.frame, i) \in Nat
           /\ usRegAddress(m.frame, i) = Address(Word(m.frame, i))
           /\ m.usLen >= i + 2 => At(request', i + 1) = Word(m.frame, i)
<1>1. PduSize \in 12..255 /\ BufferOK(m.frame)
  BY MapAssumption DEF MapAssumption, Frame, BufferOK
<1>2. i \in 0..(PduSize - 2)
  BY <1>1
<1>3. Word(m.frame, i) \in Half
  BY <1>1, <1>2, WordType, Zenon
<1>4. usRegAddress(m.frame, i) = Address(Word(m.frame, i))
  BY SMT DEF usRegAddress, Address
<1>5. m.usLen >= i + 2 => At(request', i + 1) = Word(m.frame, i)
  <2>1. m.usLen \in Nat /\ \A j \in 1..(m.usLen - 1) : At(request', j) = Word(m.frame, j - 1)
    BY RequestIs
  <2>2. m.usLen >= i + 2 => i + 1 \in 1..(m.usLen - 1) /\ (i + 1) - 1 = i
    BY <2>1
  <2> QED
    BY <2>1, <2>2, Zenon
<1>6. Word(m.frame, i) \in Nat
  BY <1>3, HalfInNat, Zenon
<1> QED
  BY <1>3, <1>4, <1>5, <1>6, Zenon

\* What function 23 does to the registers, and what it returns.
ExchangeCounts(n, k, bytes) == n \in 1..125 /\ k \in 1..121 /\ 2 * k = bytes

LEMMA ExchangeIs ==
    ASSUME NEW m, m.frame[0] = 23,
           NEW a, NEW n, NEW b, NEW k, a = usRegAddress(m.frame, 1), n = Word(m.frame, 3),
           b = usRegAddress(m.frame, 5), k = Word(m.frame, 7)
    PROVE  LET written == RegsWritten(usRegHoldingBuf, b - REG_HOLDING_START, k, m.frame, 10)
               legal   == ExchangeCounts(n, k, m.frame[9])
               r       == Handler(m)
           IN  /\ m.usLen < 10 => r = Result(m, "MB_EX_NONE", m.usLen)
               /\ ~(m.usLen < 10) =>
                    /\ ~legal => r = IllegalValue(m)
                    /\ legal /\ ~InHolding(b, k) => r = IllegalAddress(m)
                    /\ legal /\ InHolding(b, k) =>
                         /\ r.coil = usRegCoilBuf /\ r.holding = written
                         /\ ~InHolding(a, n) => r.eException # "MB_EX_NONE"
                         /\ InHolding(a, n) =>
                              Returns(m, 2 * n, RegBytes(written, a - REG_HOLDING_START, n))
<1> DEFINE first == b - REG_HOLDING_START
           start == a - REG_HOLDING_START
           written == RegsWritten(usRegHoldingBuf, first, k, m.frame, 10)
           legal == ExchangeCounts(n, k, m.frame[9])
           w == WriteRegs(m, b, k, 10)
           bytes == RegBytes(written, start, n)
           access == Access("holding", start, n, 2, 2 * n)
           r == ReadReply(m, 2 * n, RegBytes(ReadAfterWrite(w.holding), start, n), access)
           both == [r EXCEPT !.holding = w.holding, !.span = r.span \cup w.span]
           half == [w EXCEPT !.eException = "MB_EX_ILLEGAL_DATA_ADDRESS"]
           result == IF InHolding(a, n) THEN both ELSE half
<1>1. Handler(m) = IF m.usLen < 10 THEN Result(m, "MB_EX_NONE", m.usLen)
                   ELSE Checked(m, legal, InHolding(b, k), result)
  <2>1. Handler(m) = eMBFuncReadWriteMultipleHoldingRegister(m)
    BY HandlerOfWrites, Zenon
  <2> QED
    BY <2>1, Zenon DEF eMBFuncReadWriteMultipleHoldingRegister, ExchangeCounts
<1>2. /\ w.holding = written /\ w.coil = usRegCoilBuf /\ w.frame = m.frame
      /\ w.eException = "MB_EX_NONE"
      /\ half.eException = "MB_EX_ILLEGAL_DATA_ADDRESS" /\ half.holding = written
      /\ half.coil = usRegCoilBuf
  <2> DEFINE s == {Access("holding", first, k, 10, 2 * k)}
  <2>1. w = [Result(m, "MB_EX_NONE", 5) EXCEPT !.holding = written, !.span = s]
    BY Zenon DEF WriteRegs
  <2> HIDE DEF written, s
  <2>2. w = [eException |-> "MB_EX_NONE", frame |-> m.frame, usLen |-> 5,
             coil |-> usRegCoilBuf, holding |-> written, span |-> s]
    BY <2>1 DEF Result
  <2> HIDE DEF w
  <2> QED
    BY <2>2
<1>3. r = ReadReply(m, 2 * n, bytes, access)
  BY <1>2, Zenon DEF ReadAfterWrite
<1> HIDE DEF bytes, access, w
<1>4. /\ both.coil = usRegCoilBuf /\ both.holding = written
      /\ both.eException = "MB_EX_NONE" /\ both.usLen = 2 + 2 * n
      /\ both.frame = [i \in DOMAIN m.frame |->
                         IF i = 1 THEN 2 * n
                         ELSE IF i - 2 \in DOMAIN bytes THEN bytes[i - 2]
                         ELSE m.frame[i]]
  <2> DEFINE len == 2 * n
             frame == [i \in DOMAIN m.frame |->
                         IF i = 1 THEN len
                         ELSE IF i - 2 \in DOMAIN bytes THEN bytes[i - 2]
                         ELSE m.frame[i]]
  <2>1. r = [Result(m, "MB_EX_NONE", 2 + len) EXCEPT !.frame = frame, !.span = {access}]
    BY <1>3, Zenon DEF ReadReply
  <2> HIDE DEF frame, len, r
  <2>2. r = [eException |-> "MB_EX_NONE", frame |-> frame, usLen |-> 2 + len,
             coil |-> usRegCoilBuf, holding |-> usRegHoldingBuf, span |-> {access}]
    BY <2>1 DEF Result
  <2> DEFINE c == w.holding
             s == r.span \cup w.span
  <2>3. both = [r EXCEPT !.holding = c, !.span = s]
    OBVIOUS
  <2> HIDE DEF both, c, s
  <2>4. /\ both.coil = usRegCoilBuf /\ both.holding = c /\ both.eException = "MB_EX_NONE"
        /\ both.usLen = 2 + len /\ both.frame = frame
    BY <2>2, <2>3
  <2> QED
    BY <1>2, <2>4, Zenon DEF c, frame, len
<1> HIDE DEF both, half
<1>5. Handler(m) = both => Returns(m, 2 * n, bytes)
  BY <1>4, Zenon DEF Returns
<1>6. /\ legal \in BOOLEAN /\ InHolding(b, k) \in BOOLEAN
  BY DEF ExchangeCounts, InHolding, InRange
<1> HIDE DEF legal, result, written
<1>7. m.usLen < 10 => Handler(m) = Result(m, "MB_EX_NONE", m.usLen)
  BY <1>1, Zenon
<1>8. ASSUME ~(m.usLen < 10)
      PROVE  /\ ~legal => Handler(m) = IllegalValue(m)
             /\ legal /\ ~InHolding(b, k) => Handler(m) = IllegalAddress(m)
             /\ legal /\ InHolding(b, k) => Handler(m) = result
  <2>1. Handler(m) = Checked(m, legal, InHolding(b, k), result)
    BY <1>1, <1>8, Zenon
  <2> QED
    BY <1>6, <2>1, ThroughChecks, Zenon
<1>9. ASSUME Handler(m) = result
      PROVE  /\ Handler(m).coil = usRegCoilBuf /\ Handler(m).holding = written
             /\ ~InHolding(a, n) => Handler(m).eException # "MB_EX_NONE"
             /\ InHolding(a, n) => Returns(m, 2 * n, bytes)
  <2>1. CASE InHolding(a, n)
    <3>1. Handler(m) = both
      BY <1>9, <2>1, Zenon DEF result
    <3> QED
      BY <1>4, <1>5, <2>1, <3>1, Zenon
  <2>2. CASE ~InHolding(a, n)
    <3>1. Handler(m) = half
      BY <1>9, <2>2, Zenon DEF result
    <3> QED
      BY <1>2, <2>2, <3>1, Zenon
  <2> QED
    BY <2>1, <2>2
<1> QED
  BY <1>7, <1>8, <1>9, Zenon DEF bytes, legal, written

\* An exchange: what it asks for, read and written.
ExchangeRequest(m, w, r, h, n, g, k) ==
    /\ MapInv /\ Execute(m) /\ m.frame[0] = 23
    /\ Asked' = [op |-> "exchange", read |-> r, write |-> w]
    /\ NamesHolding(r, h, n) /\ NamesHolding(w, g, k) /\ AreWords(w.values, k, m.frame, 10)
    /\ h \in Half /\ n \in Half /\ g \in Half /\ k \in Half

\* The write of an exchange, whatever becomes of its read.
LEMMA ExchangeWrites ==
    ASSUME NEW m \in Frame, NEW w, NEW r, NEW h, NEW n, NEW g, NEW k,
           ExchangeRequest(m, w, r, h, n, g, k), InHolding(Address(g), k),
           Handler(m).coil = usRegCoilBuf,
           Handler(m).holding =
             RegsWritten(usRegHoldingBuf, Address(g) - REG_HOLDING_START, k, m.frame, 10)
    PROVE  Store!Exists(w) /\ StoreView' = Store!After(w)
<1>1. /\ MapInv /\ Execute(m) /\ NamesHolding(w, g, k) /\ AreWords(w.values, k, m.frame, 10)
      /\ g \in Half /\ k \in Half
  BY Zenon DEF ExchangeRequest
<1>2. k \in Nat /\ 10 \in Nat
  BY <1>1, HalfInNat
<1>3. Store!Exists(w)
  BY <1>1, HoldingExists
<1>4. StoreView' = Store!After(w)
  BY <1>1, <1>2, HoldingStored
<1> QED
  BY <1>3, <1>4

\* The registers an exchange returns are those it leaves.
LEMMA ExchangeReads ==
    ASSUME NEW m \in Frame, NEW w, NEW r, NEW h, NEW n, NEW g, NEW k,
           ExchangeRequest(m, w, r, h, n, g, k), InHolding(Address(h), n),
           n > 0, REG_HOLDING_NREGS <= 120, StoreView' = Store!After(w),
           Returns(m, 2 * n, RegBytes(Handler(m).holding, Address(h) - REG_HOLDING_START, n))
    PROVE  Store!Exists(r) /\ Store!Answer("done", Store!ValuesOf(Store!After(w), r))
<1> DEFINE first == Address(h) - REG_HOLDING_START
           N == REG_HOLDING_NREGS
           regs == Handler(m).holding
           bytes == RegBytes(regs, first, n)
           values == Store!ValuesOf(Store!After(w), r)
<1>1. /\ MapInv /\ Execute(m) /\ m.frame[0] = 23 /\ NamesHolding(r, h, n)
      /\ Asked' = [op |-> "exchange", read |-> r, write |-> w] /\ h \in Half /\ n \in Half
  BY Zenon DEF ExchangeRequest
<1>2. Store!Exists(r) /\ first = r.first /\ r.first \in Nat /\ r.first + n <= N
  BY <1>1, HoldingExists
<1>3. N \in Nat /\ n \in Nat
  BY <1>1, HoldingWords, HalfInNat, Zenon
<1>4. IsRegisters(regs, N)
  <2>1. ResultOK(Handler(m))
    BY <1>1, HandlerOK DEF MapInv
  <2> QED
    BY <2>1 DEF ResultOK, IsRegisters
<1>5. InOneByte(2 * n)
  <2> HIDE DEF first
  <2>1. n <= 120
    BY <1>2, <1>3
  <2> QED
    BY <1>3, <2>1 DEF InOneByte
<1>6. DOMAIN bytes = 0..(2 * n - 1) /\ Returns(m, 2 * n, bytes)
  BY Zenon DEF RegBytes
<1> HIDE DEF first, N, bytes, regs
<1>7. Sends(m.frame[0], 2 * n, bytes)
  BY <1>1, <1>5, <1>6, ReadReplySays, Zenon
<1>8. r.array = "holding" /\ r.count = n
  BY <1>1, Zenon DEF NamesHolding
<1>9. values = [j \in 1..n |-> regs[first + j - 1]]
  <2>1. Store!After(w)["holding"] = regs
    <3>1. StoreView'["holding"] = usRegHoldingBuf'
      BY DEF StoreView
    <3>2. usRegHoldingBuf' = regs
      BY <1>1, Zenon DEF Execute, regs
    <3> QED
      BY <3>1, <3>2, Zenon
  <2> QED
    BY <1>2, <1>8, <2>1, Zenon DEF Store!ValuesOf
<1>10. reply' # <<>> => reply'[1] < 128 /\ reply'[1] \in Int
  BY <1>1, <1>7 DEF Sends
<1>11. reply' # <<>> => ReadValues(r, reply') = Says("done", values)
  <2>1. SUFFICES ASSUME reply' # <<>> PROVE ReadValues(r, reply') = Says("done", values)
    OBVIOUS
  <2>2. RegReply(r, reply')
    BY <1>7, <1>8, <2>1 DEF RegReply, Sends
  <2>3. SentBytes(reply', RegBytes(regs, first, n), 2 * n)
    BY <1>7, <2>1, Zenon DEF Sends, SentBytes, bytes
  <2>4. Words(reply', 3, n) = [j \in 1..n |-> regs[first + j - 1]]
    <3>1. first + n <= N /\ first \in Nat /\ n \in Nat
      BY <1>2, <1>3
    <3> QED
      BY <1>3, <1>4, <2>3, <3>1, WordsRead
  <2>5. r.array \notin {"coil", "discrete"}
    BY <1>8
  <2> HIDE DEF values
  <2> QED
    BY <1>8, <1>9, <2>2, <2>4, <2>5, Zenon DEF ReadValues
<1>12. Asked'.op \in {"read", "exchange"} /\ Asked'.read = r
  BY <1>1
<1> HIDE DEF values
<1>13. Store!Answer("done", values)
  BY <1>10, <1>11, <1>12, AnsweredRead
<1> QED
  BY <1>2, <1>13, Zenon DEF values

\* Function 23: registers are written, then read; a read that is refused leaves the write
\* done; a request that is too short is sent back.
LEMMA ExchangeStep ==
    ASSUME MapInv, NEW m \in Frame, Execute(m), m.frame[0] = 23, REG_HOLDING_NREGS <= 120,
           m.usLen > 9 /\ m.frame[9] = 2 * Word(m.frame, 7) => m.usLen = 10 + m.frame[9]
    PROVE  Store!Report \/ Store!Exchange \/ Store!Refuse \/ Store!RefuseHalfway
<1> DEFINE p == request'
           h == Word(m.frame, 1)
           n == Word(m.frame, 3)
           g == Word(m.frame, 5)
           k == Word(m.frame, 7)
           bytes == m.frame[9]
           legal == ExchangeCounts(n, k, bytes)
           fits == m.usLen > 10 /\ bytes = 2 * k /\ m.usLen = 10 + bytes /\ n \in 1..125
           inW == InHolding(Address(g), k)
           inR == InHolding(Address(h), n)
           w == Values("holding", p, 6, Words(p, 11, k))
           r == Registers("holding", p, 2, n)
           written == RegsWritten(usRegHoldingBuf, Address(g) - REG_HOLDING_START, k, m.frame, 10)
<1>1. /\ p # <<>> /\ Len(p) = m.usLen /\ p[1] = 23 /\ m.usLen \in Nat
      /\ m.usLen \in 1..(PduSize - 2)
  BY RequestIs, MapAssumption DEF MapAssumption, Frame
<1>2. /\ h \in Half /\ n \in Half /\ g \in Half /\ k \in Half /\ n \in Nat /\ k \in Nat
      /\ usRegAddress(m.frame, 1) = Address(h) /\ usRegAddress(m.frame, 5) = Address(g)
      /\ m.usLen >= 10 => At(p, 2) = h /\ At(p, 4) = n /\ At(p, 6) = g /\ At(p, 8) = k
  <2>1. /\ h \in Half /\ usRegAddress(m.frame, 1) = Address(h)
        /\ m.usLen >= 1 + 2 => At(p, 1 + 1) = h
    BY FrameWords
  <2>2. n \in Half /\ n \in Nat /\ (m.usLen >= 3 + 2 => At(p, 3 + 1) = n)
    BY FrameWords
  <2>3. /\ g \in Half /\ usRegAddress(m.frame, 5) = Address(g)
        /\ m.usLen >= 5 + 2 => At(p, 5 + 1) = g
    BY FrameWords
  <2>4. k \in Half /\ k \in Nat /\ (m.usLen >= 7 + 2 => At(p, 7 + 1) = k)
    BY FrameWords
  <2>5. /\ 1 + 1 = 2 /\ 3 + 1 = 4 /\ 5 + 1 = 6 /\ 7 + 1 = 8
        /\ m.usLen >= 10 => m.usLen >= 1 + 2 /\ m.usLen >= 3 + 2 /\ m.usLen >= 5 + 2
                            /\ m.usLen >= 7 + 2
    BY <1>1
  <2> HIDE DEF p, h, n, g, k
  <2>6. m.usLen >= 10 => At(p, 2) = h /\ At(p, 4) = n
    BY <2>1, <2>2, <2>5
  <2>7. m.usLen >= 10 => At(p, 6) = g /\ At(p, 8) = k
    BY <2>3, <2>4, <2>5
  <2> QED
    BY <2>1, <2>2, <2>3, <2>4, <2>6, <2>7, Zenon
<1>3. bytes \in 0..255 /\ (m.usLen >= 10 => p[10] = bytes)
  <2>1. m.usLen >= 10 => p[10] = m.frame[10 - 1]
    BY RequestIs
  <2> QED
    BY <2>1, FrameBytes
<1>4. /\ m.usLen >= 10 /\ legal => fits
      /\ fits => m.usLen = 10 + 2 * k /\ m.usLen >= 10 /\ k > 0 /\ n > 0
      /\ fits /\ k <= 120 => legal
  <2>1. m.usLen > 9 /\ bytes = 2 * k => m.usLen = 10 + bytes
    OBVIOUS
  <2> HIDE DEF n, k, bytes
  <2>2. m.usLen >= 10 /\ legal => fits
    <3>1. m.usLen >= 10 /\ legal =>
            k \in 1..121 /\ bytes = 2 * k /\ m.usLen = 10 + bytes /\ n \in 1..125
      BY <1>1, <2>1 DEF ExchangeCounts
    <3> HIDE DEF legal
    <3> QED
      BY <1>1, <1>2, <1>3, <3>1
  <2>3. fits => m.usLen = 10 + 2 * k /\ m.usLen >= 10 /\ k > 0 /\ n > 0
    <3>1. SUFFICES ASSUME fits
                   PROVE  m.usLen = 10 + 2 * k /\ m.usLen >= 10 /\ k > 0 /\ n > 0
      OBVIOUS
    <3>2. m.usLen = 10 + 2 * k /\ m.usLen > 10
      BY <3>1
    <3>3. n > 0
      BY <1>2, <3>1
    <3> QED
      BY <1>1, <1>2, <3>2, <3>3
  <2>4. fits /\ k <= 120 => legal
    BY <1>1, <1>2, <1>3, <2>3 DEF ExchangeCounts
  <2> QED
    BY <2>2, <2>3, <2>4
<1>5. /\ m.usLen < 10 => Asked'.op = "report"
      /\ m.usLen >= 10 /\ ~fits => Asked'.op = "other"
      /\ fits => Asked' = [op |-> "exchange", read |-> r, write |-> w]
  <2>1. Asked' = Meaning(p)
    BY Zenon DEF Asked
  <2> HIDE DEF p, h, n, g, k, bytes
  <2>2. m.usLen >= 10 => At(p, 4) = n /\ At(p, 8) = k
    BY <1>2
  <2>3. m.usLen >= 10 =>
          (fits <=> /\ Len(p) > 10 /\ p[10] = 2 * At(p, 8) /\ Len(p) = 10 + p[10]
                    /\ At(p, 4) \in 1..125)
    BY <1>1, <1>3, <2>2
  <2>4. Meaning(p) =
          IF Len(p) < 10 THEN [op |-> "report"]
          ELSE IF /\ Len(p) > 10 /\ p[10] = 2 * At(p, 8) /\ Len(p) = 10 + p[10]
                  /\ At(p, 4) \in 1..125
          THEN [op |-> "exchange", read |-> Registers("holding", p, 2, At(p, 4)),
                write |-> Values("holding", p, 6, Words(p, 11, At(p, 8)))]
          ELSE [op |-> "other"]
    BY <1>1, MeansExchange, Zenon
  <2>5. m.usLen < 10 => Meaning(p) = [op |-> "report"]
    BY <1>1, <2>4, Zenon
  <2>6. m.usLen >= 10 => ~(Len(p) < 10)
    BY <1>1
  <2>7. fits => m.usLen >= 10
    BY <1>4
  <2> HIDE DEF fits
  <2>8. m.usLen >= 10 /\ ~fits => Meaning(p) = [op |-> "other"]
    BY <2>3, <2>4, <2>6, Zenon
  <2>9. fits => Meaning(p) = [op |-> "exchange", read |-> r, write |-> w]
    BY <2>2, <2>3, <2>4, <2>6, <2>7, Zenon
  <2> HIDE DEF r, w
  <2>10. m.usLen < 10 => Asked'.op = "report"
    BY <2>1, <2>5
  <2>11. m.usLen >= 10 /\ ~fits => Asked'.op = "other"
    BY <2>1, <2>8
  <2> QED
    BY <2>1, <2>9, <2>10, <2>11, Zenon
<1>6. fits => ExchangeRequest(m, w, r, h, n, g, k)
  <2>1. SUFFICES ASSUME fits PROVE ExchangeRequest(m, w, r, h, n, g, k)
    OBVIOUS
  <2>2. At(p, 2) = h /\ At(p, 6) = g
    BY <1>2, <1>4, <2>1
  <2> DEFINE values == Words(p, 11, k)
  <2>3. DOMAIN values = 1..k /\ Len(values) = k
    BY <1>2, WordsLength, Zenon
  <2>4. \A j \in 1..k : values[j] = Word(m.frame, 10 + 2 * (j - 1))
    <3>1. 10 + 2 * k <= m.usLen /\ 10 \in Nat /\ k \in Nat
      BY <1>1, <1>2, <1>4, <2>1
    <3> HIDE DEF k
    <3>2. \A j \in 1..k : Words(request', 10 + 1, k)[j] = Word(m.frame, 10 + 2 * (j - 1))
      BY <3>1, WordsOfRequest
    <3>3. 10 + 1 = 11
      OBVIOUS
    <3> QED
      BY <3>2, <3>3
  <2> HIDE DEF p, h, n, g, k, values
  <2>5. /\ w.array = "holding" /\ w.first = g + 1 - Start["holding"] /\ w.count = k
        /\ w.values = values
    BY <2>2, <2>3 DEF Values, values
  <2>6. r.array = "holding" /\ r.first = h + 1 - Start["holding"] /\ r.count = n
    BY <2>2 DEF Registers
  <2>7. Asked' = [op |-> "exchange", read |-> r, write |-> w]
    BY <1>5, <2>1
  <2> HIDE DEF w, r, fits
  <2> QED
    BY <1>2, <2>3, <2>4, <2>5, <2>6, <2>7, Zenon DEF ExchangeRequest, NamesHolding, AreWords
<1>7. /\ m.usLen < 10 => Handler(m) = Result(m, "MB_EX_NONE", m.usLen)
      /\ m.usLen >= 10 =>
           /\ ~legal => Handler(m) = IllegalValue(m)
           /\ legal /\ ~inW => Handler(m) = IllegalAddress(m)
           /\ legal /\ inW =>
                /\ Handler(m).coil = usRegCoilBuf /\ Handler(m).holding = written
                /\ ~inR => Handler(m).eException # "MB_EX_NONE"
                /\ inR => Returns(m, 2 * n, RegBytes(written, Address(h) - REG_HOLDING_START, n))
  <2>1. m.usLen >= 10 => ~(m.usLen < 10)
    BY <1>1
  <2> HIDE DEF h, n, g, k
  <2> QED
    BY <1>2, <2>1, ExchangeIs, Zenon DEF h, n, g, k
<1>8. fits /\ inW => legal
  <2>1. fits /\ inW => w.first \in Nat /\ w.first + k <= REG_HOLDING_NREGS
    <3>1. fits => NamesHolding(w, g, k) /\ g \in Half /\ k \in Half
      BY <1>6, Zenon DEF ExchangeRequest
    <3> HIDE DEF w, g, k, fits
    <3> QED
      BY <3>1, HoldingExists
  <2>2. REG_HOLDING_NREGS \in Nat
    BY HoldingWords, Zenon
  <2> HIDE DEF k, fits, inW, legal, w
  <2> QED
    BY <1>2, <1>4, <2>1, <2>2
<1>9. m.usLen < 10 \/ m.usLen >= 10
  BY <1>1
<1> HIDE DEF h, n, g, k, bytes, legal, fits, inW, inR, w, r, written
<1>10. CASE m.usLen < 10
  <2>1. m.frame[0] < 128
    OBVIOUS
  <2> QED
    BY <1>1, <1>5, <1>7, <1>10, <2>1, ReportStep, Zenon
<1>11. CASE m.usLen >= 10 /\ ~fits
  <2>1. Handler(m) \in {IllegalValue(m), IllegalAddress(m)}
    BY <1>4, <1>7, <1>11, Zenon
  <2>2. Asked'.op = "other"
    BY <1>5, <1>11
  <2> QED
    BY <2>1, <2>2, RefusedStep, Zenon
<1>12. CASE fits /\ ~inW
  <2>1. Handler(m) \in {IllegalValue(m), IllegalAddress(m)}
    BY <1>4, <1>7, <1>12, Zenon
  <2>2. Asked'.op \in {"write", "exchange"} /\ Asked'.write = w
    <3>1. Asked' = [op |-> "exchange", read |-> r, write |-> w]
      BY <1>5, <1>12, Zenon
    <3> QED
      BY <3>1
  <2>3. NamesHolding(w, g, k) /\ g \in Half /\ k \in Half
    BY <1>6, <1>12, Zenon DEF ExchangeRequest
  <2> QED
    BY <1>12, <2>1, <2>2, <2>3, HoldingRefused, Zenon DEF inW
<1>13. CASE fits /\ inW
  <2>1. /\ Handler(m).coil = usRegCoilBuf /\ Handler(m).holding = written
        /\ ~inR => Handler(m).eException # "MB_EX_NONE"
        /\ inR => Returns(m, 2 * n, RegBytes(written, Address(h) - REG_HOLDING_START, n))
    BY <1>4, <1>7, <1>8, <1>13, Zenon
  <2>2. ExchangeRequest(m, w, r, h, n, g, k)
    BY <1>6, <1>13
  <2>3. Store!Exists(w) /\ StoreView' = Store!After(w)
    BY <1>13, <2>1, <2>2, ExchangeWrites, Zenon DEF inW, written
  <2>4. Asked'.op = "exchange" /\ Asked'.write = w /\ Asked'.read = r
    <3>1. Asked' = [op |-> "exchange", read |-> r, write |-> w]
      BY <1>5, <1>13, Zenon
    <3> QED
      BY <3>1
  <2>5. CASE inR
    <3>1. Returns(m, 2 * n, RegBytes(Handler(m).holding, Address(h) - REG_HOLDING_START, n))
      BY <2>1, <2>5, Zenon
    <3>2. Store!Exists(r) /\ Store!Answer("done", Store!ValuesOf(Store!After(w), r))
      <4>1. n > 0
        BY <1>4, <1>13
      <4>2. InHolding(Address(h), n)
        BY <2>5 DEF inR
      <4> QED
        BY <2>2, <2>3, <3>1, <4>1, <4>2, ExchangeReads
    <3> QED
      BY <2>3, <2>4, <3>2, Zenon DEF Store!Exchange
  <2>6. CASE ~inR
    <3>1. ~Store!Exists(r)
      <4>1. NamesHolding(r, h, n) /\ h \in Half /\ n \in Half
        BY <2>2, Zenon DEF ExchangeRequest
      <4> QED
        BY <2>6, <4>1, HoldingExists, Zenon DEF inR
    <3>2. Store!Answer("refused", <<>>)
      BY <2>1, <2>6, ExceptionRefuses DEF Store!Answer, Says
    <3> QED
      BY <2>3, <2>4, <3>1, <3>2, Zenon DEF Store!RefuseHalfway
  <2> QED
    BY <2>5, <2>6
<1> QED
  BY <1>9, <1>10, <1>11, <1>12, <1>13

(* ------------------------------ the registers are a RegisterStore ----------------------- *)

\* A code without a handler is refused.
LEMMA UnknownStep ==
    ASSUME MapInv, NEW m \in Frame, Execute(m),
           m.frame[0] \notin {1, 2, 3, 4, 5, 6, 15, 16, 17, 23}
    PROVE  Store!Refuse
<1>1. Handler(m) = Result(m, "MB_EX_ILLEGAL_FUNCTION", m.usLen)
  BY DEF Handler
<1>2. /\ Handler(m).eException # "MB_EX_NONE"
      /\ Handler(m).coil = usRegCoilBuf /\ Handler(m).holding = usRegHoldingBuf
  BY <1>1 DEF Result
<1>3. Asked'.op = "other"
  <2> DEFINE p == request'
  <2>1. p # <<>> /\ Len(p) \in Nat /\ p[1] = m.frame[0]
    BY RequestIs
  <2>2. m.frame[0] \in 0..255
    BY FrameBytes
  <2>3. Asked' = Meaning(p)
    BY Zenon DEF Asked
  <2> HIDE DEF p
  <2>4. p[1] \in Byte
    BY <2>1, <2>2 DEF Byte
  <2>5. Meaning(p) = [op |-> "other"]
    BY <2>1, <2>4, MeansNothing
  <2> QED
    BY <2>3, <2>5
<1> QED
  BY <1>2, <1>3, RefuseStep, Zenon

\* The requests of function 1 to 4, as the lemmas on reads want them.
LEMMA BitRequests ==
    ASSUME MapInv, NEW m \in Frame, Execute(m), m.usLen = 5 => Word(m.frame, 3) <= 1
    PROVE  /\ m.frame[0] = 1 => BitRequest(m, "coil", usRegCoilBuf)
           /\ m.frame[0] = 2 => BitRequest(m, "discrete", usRegDiscreteBuf)
<1>1. /\ Start["coil"] = REG_COIL_START /\ Nregs["coil"] = REG_COIL_NREGS
      /\ Start["discrete"] = REG_DISCRETE_START /\ Nregs["discrete"] = REG_DISCRETE_NREGS
      /\ ReadArray[1] = "coil" /\ ReadArray[2] = "discrete"
  BY DEF Start, Nregs, ReadArray
<1>2. /\ StoreView["coil"] = Levels(usRegCoilBuf)
      /\ StoreView["discrete"] = Levels(usRegDiscreteBuf)
  BY DEF StoreView
<1>3. /\ DOMAIN usRegCoilBuf = 0..(REG_COIL_NREGS - 1)
      /\ DOMAIN usRegDiscreteBuf = 0..(REG_DISCRETE_NREGS - 1)
  BY DEF MapInv, TypeOK
<1>4. /\ m.frame[0] = 1 => Handler(m) = ReadBits(m, "coil", usRegCoilBuf, REG_COIL_START,
                                                 REG_COIL_NREGS)
      /\ m.frame[0] = 2 => Handler(m) = ReadBits(m, "discrete", usRegDiscreteBuf,
                                                 REG_DISCRETE_START, REG_DISCRETE_NREGS)
  BY DEF Handler
<1>5. /\ IsArray(Start["coil"], Nregs["coil"]) /\ IsArray(Start["discrete"], Nregs["discrete"])
      /\ {1, 2} = {x \in {1, 2} : TRUE}
  BY Arrays
<1>6. ASSUME m.frame[0] = 1
      PROVE  BitRequest(m, "coil", usRegCoilBuf)
  BY <1>1, <1>2, <1>3, <1>4, <1>5, <1>6, Zenon DEF BitRequest
<1>7. ASSUME m.frame[0] = 2
      PROVE  BitRequest(m, "discrete", usRegDiscreteBuf)
  BY <1>1, <1>2, <1>3, <1>4, <1>5, <1>7, Zenon DEF BitRequest
<1> QED
  BY <1>6, <1>7

LEMMA RegRequests ==
    ASSUME MapInv, NEW m \in Frame, Execute(m), REG_HOLDING_NREGS <= 120
    PROVE  /\ m.frame[0] = 3 /\ (m.usLen = 5 => m.frame[3] = 0) =>
                RegRequest(m, "holding", usRegHoldingBuf, m.frame[4], 125)
           /\ m.frame[0] = 4 =>
                RegRequest(m, "input", usRegInputBuf, Word(m.frame, 3), 124)
<1>1. /\ Start["holding"] = REG_HOLDING_START /\ Nregs["holding"] = REG_HOLDING_NREGS
      /\ Start["input"] = REG_INPUT_START /\ Nregs["input"] = REG_INPUT_NREGS
      /\ ReadArray[3] = "holding" /\ ReadArray[4] = "input"
  BY DEF Start, Nregs, ReadArray
<1>2. StoreView["holding"] = usRegHoldingBuf /\ StoreView["input"] = usRegInputBuf
  BY DEF StoreView
<1>3. /\ IsRegisters(usRegHoldingBuf, REG_HOLDING_NREGS)
      /\ IsRegisters(usRegInputBuf, REG_INPUT_NREGS)
  BY DEF MapInv, TypeOK, IsRegisters
<1>4. /\ m.frame[0] = 3 => Handler(m) = ReadRegs(m, "holding", m.frame[4], 125,
                             usRegHoldingBuf, REG_HOLDING_START, REG_HOLDING_NREGS)
      /\ m.frame[0] = 4 => Handler(m) = ReadRegs(m, "input", Word(m.frame, 3), 124,
                             usRegInputBuf, REG_INPUT_START, REG_INPUT_NREGS)
  BY DEF Handler, HoldingCount
<1>5. IsArray(Start["holding"], Nregs["holding"]) /\ IsArray(Start["input"], Nregs["input"])
  BY Arrays
<1>6. 2 * Nregs["holding"] + 4 <= PduSize /\ 2 * Nregs["input"] + 4 <= PduSize
  BY <1>1, MapAssumption DEF MapAssumption
<1>7. Word(m.frame, 3) \in Nat /\ m.frame[4] \in Nat
      /\ (m.frame[3] = 0 => Word(m.frame, 3) = m.frame[4])
  <2>1. m.frame[4] \in 0..255
    BY FrameBytes
  <2>2. Word(m.frame, 3) = 256 * m.frame[3] + m.frame[4]
    BY DEF Word
  <2>3. Word(m.frame, 3) \in Nat
    BY FirstWords
  <2> QED
    BY <2>1, <2>2, <2>3
<1>8. ASSUME m.frame[0] = 3, m.usLen = 5 => m.frame[3] = 0
      PROVE  RegRequest(m, "holding", usRegHoldingBuf, m.frame[4], 125)
  <2>1. m.frame[0] \in {3, 4} /\ "holding" \in {"holding", "input"}
    BY <1>8
  <2> QED
    BY <1>1, <1>2, <1>3, <1>4, <1>5, <1>6, <1>7, <1>8, <2>1, Zenon DEF RegRequest
<1>9. ASSUME m.frame[0] = 4
      PROVE  RegRequest(m, "input", usRegInputBuf, Word(m.frame, 3), 124)
  <2>1. m.frame[0] \in {3, 4} /\ "input" \in {"holding", "input"}
    BY <1>9
  <2> QED
    BY <1>1, <1>2, <1>3, <1>4, <1>5, <1>6, <1>7, <1>9, <2>1, Zenon DEF RegRequest
<1> QED
  BY <1>8, <1>9

\* Every request is a step of the store.
LEMMA ExecuteStores ==
    ASSUME MapInv, Understood, NEW m \in Received, Execute(m)
    PROVE  Store!Next
<1> DEFINE f == m.frame
<1>1. m \in Frame /\ m.usLen \in Nat
  <2>1. m \in Frame
    BY MapAssumption DEF MapAssumption
  <2> QED
    BY <2>1, RequestIs
<1>2. /\ REG_HOLDING_NREGS <= 120
      /\ f[0] \in {1, 2} => (m.usLen = 5 => Word(f, 3) <= 1)
      /\ f[0] = 3 => (m.usLen = 5 => f[3] = 0)
      /\ f[0] = 15 => (m.usLen > 5 => m.usLen = 7 /\ Word(f, 3) <= 1 /\ f[6] \in {0, 1})
      /\ f[0] = 16 => (m.usLen > 5 /\ f[5] = 2 * Word(f, 3) => m.usLen = 6 + f[5])
      /\ f[0] = 23 => (m.usLen > 9 /\ f[9] = 2 * Word(f, 7) => m.usLen = 10 + f[9])
  BY DEF Understood
<1> HIDE DEF f
<1>3. CASE f[0] = 1
  BY <1>1, <1>2, <1>3, BitRequests, ReadBitsStep DEF f, Store!Next
<1>4. CASE f[0] = 2
  BY <1>1, <1>2, <1>4, BitRequests, ReadBitsStep DEF f, Store!Next
<1>5. CASE f[0] = 3
  BY <1>1, <1>2, <1>5, RegRequests, ReadRegsStep DEF f, Store!Next
<1>6. CASE f[0] = 4
  BY <1>1, <1>2, <1>6, RegRequests, ReadRegsStep DEF f, Store!Next
<1>7. CASE f[0] = 5
  BY <1>1, <1>7, SetCoilStep DEF f, Store!Next
<1>8. CASE f[0] = 6
  BY <1>1, <1>8, SetRegisterStep DEF f, Store!Next
<1>9. CASE f[0] = 15
  BY <1>1, <1>2, <1>9, WriteCoilStep DEF f, Store!Next
<1>10. CASE f[0] = 16
  BY <1>1, <1>2, <1>10, WriteRegistersStep DEF f, Store!Next
<1>11. CASE f[0] = 17
  <2>1. Asked'.op = "report"
    <3> DEFINE p == request'
    <3>1. p # <<>> /\ Len(p) \in Nat /\ p[1] = 17
      BY <1>1, <1>11, RequestIs DEF f
    <3>2. Asked' = Meaning(p)
      BY Zenon DEF Asked
    <3> HIDE DEF p
    <3>3. Meaning(p) = [op |-> "report"]
      BY <3>1, MeansReport
    <3> QED
      BY <3>2, <3>3
  <2>2. Handler(m) = Result(m, "MB_EX_NONE", 1)
    BY <1>11, HandlerOfWrites, Zenon DEF f, eMBFuncReportSlaveID
  <2>3. 1 \in 1..(PduSize - 2) /\ m.frame[0] < 128
    BY <1>11, MapAssumption DEF f, MapAssumption
  <2> QED
    BY <1>1, <2>1, <2>2, <2>3, ReportStep DEF Store!Next
<1>12. CASE f[0] = 23
  BY <1>1, <1>2, <1>12, ExchangeStep DEF f, Store!Next
<1>13. CASE f[0] \notin {1, 2, 3, 4, 5, 6, 15, 16, 17, 23}
  BY <1>1, <1>13, UnknownStep DEF f, Store!Next
<1> QED
  BY <1>3, <1>4, <1>5, <1>6, <1>7, <1>8, <1>9, <1>10, <1>11, <1>12, <1>13

\* What is neither a coil nor a holding register changes as it likes, a clear coil falls.
LEMMA SenseStep ==
    ASSUME UNCHANGED <<usRegHoldingBuf, request, reply>>,
           \A i \in DOMAIN usRegCoilBuf :
             \/ Levels(usRegCoilBuf')[i] = Levels(usRegCoilBuf)[i]
             \/ /\ i \in ClearCoil /\ Levels(usRegCoilBuf)[i] = 1
                /\ Levels(usRegCoilBuf')[i] = 0
    PROVE  Store!Sense
<1>1. /\ StoreView["coil"] = Levels(usRegCoilBuf) /\ StoreView["holding"] = usRegHoldingBuf
      /\ StoreView'["coil"] = Levels(usRegCoilBuf') /\ StoreView'["holding"] = usRegHoldingBuf
  <2>1. StoreView' = [coil |-> Levels(usRegCoilBuf'), discrete |-> Levels(usRegDiscreteBuf'),
                      holding |-> usRegHoldingBuf, input |-> usRegInputBuf']
    BY Zenon DEF StoreView, Levels
  <2>2. StoreView = [coil |-> Levels(usRegCoilBuf), discrete |-> Levels(usRegDiscreteBuf),
                     holding |-> usRegHoldingBuf, input |-> usRegInputBuf]
    BY Zenon DEF StoreView
  <2> QED
    BY <2>1, <2>2
<1>2. DOMAIN Levels(usRegCoilBuf) = DOMAIN usRegCoilBuf
  BY DEF Levels
<1>3. ASSUME NEW array \in {"coil", "holding"}, NEW i \in DOMAIN StoreView[array]
      PROVE  \/ StoreView'[array][i] = StoreView[array][i]
             \/ array = "coil" /\ i \in ClearCoil /\ StoreView[array][i] = 1
                /\ StoreView'[array][i] = 0
  <2>1. CASE array = "coil"
    BY <1>1, <1>2, <2>1, Zenon
  <2>2. CASE array = "holding"
    BY <1>1, <2>2, Zenon
  <2> QED
    BY <2>1, <2>2
<1>4. UNCHANGED <<Asked, Answered>>
  BY Zenon DEF Asked, Answered
<1> QED
  BY <1>3, <1>4, Zenon DEF Store!Sense

LEMMA StoreInit == Init => Store!Init
<1> SUFFICES ASSUME Init PROVE Store!Init
  OBVIOUS
<1> DEFINE regs(array) == [i \in 0..(Nregs[array] - 1) |->
                             IF array = "discrete" /\ i \in 8..15 THEN 1 ELSE 0]
<1>1. /\ usRegHoldingBuf = regs("holding") /\ usRegInputBuf = regs("input")
      /\ usRegCoilBuf = regs("coil") /\ usRegDiscreteBuf = regs("discrete")
  BY DEF Init, Nregs
<1>2. Levels(regs("coil")) = regs("coil") /\ Levels(regs("discrete")) = regs("discrete")
  BY DEF Levels
<1>3. DOMAIN Nregs = {"coil", "discrete", "holding", "input"}
  BY DEF Nregs
<1>4. StoreView = [array \in {"coil", "discrete", "holding", "input"} |-> regs(array)]
  <2>1. StoreView = [coil |-> regs("coil"), discrete |-> regs("discrete"),
                     holding |-> regs("holding"), input |-> regs("input")]
    BY <1>1, <1>2, Zenon DEF StoreView
  <2> HIDE DEF regs
  <2> QED
    BY <2>1
<1>5. Asked = [op |-> "none"] /\ Answered = [kind |-> "none", values |-> <<>>]
  <2>1. request = <<>> /\ reply = <<>>
    BY DEF Init
  <2>2. Meaning(<<>>) = [op |-> "none"]
    BY DEF Meaning
  <2>3. Outcome(<<>>, <<>>) = Says("none", <<>>)
    BY Zenon DEF Outcome
  <2> QED
    BY <2>1, <2>2, <2>3, Zenon DEF Asked, Answered, Says
<1> QED
  BY <1>3, <1>4, <1>5, Zenon DEF Store!Init

LEMMA StoreStep ==
    ASSUME MapInv, Understood, [Next]_mapVars
    PROVE  [Store!Next]_(Store!storeVars)
<1>1. CASE \E m \in Received : Execute(m)
  BY <1>1, ExecuteStores, Zenon
<1>2. CASE SenseBit
  BY <1>2, SenseStep, Zenon DEF SenseBit, Store!Next
<1>3. CASE SenseCount
  BY <1>3, SenseStep, Zenon DEF SenseCount, Store!Next
<1>4. CASE ResetClear
  <2>1. PICK c \in ClearCoil \cap DOMAIN usRegCoilBuf :
          usRegCoilBuf[c] # 0 /\ usRegCoilBuf' = [usRegCoilBuf EXCEPT ![c] = 0]
    BY <1>4 DEF ResetClear
  <2>2. UNCHANGED <<usRegHoldingBuf, request, reply>>
    BY <1>4 DEF ResetClear
  <2>3. ASSUME NEW i \in DOMAIN usRegCoilBuf
        PROVE  \/ Levels(usRegCoilBuf')[i] = Levels(usRegCoilBuf)[i]
               \/ /\ i \in ClearCoil /\ Levels(usRegCoilBuf)[i] = 1
                  /\ Levels(usRegCoilBuf')[i] = 0
    <3>1. CASE i = c
      BY <2>1, <3>1 DEF Levels
    <3>2. CASE i # c
      BY <2>1, <3>2 DEF Levels
    <3> QED
      BY <3>1, <3>2
  <2>4. Store!Sense
    BY <2>2, <2>3, SenseStep, Zenon
  <2> QED
    BY <2>4, Zenon DEF Store!Next
<1>5. CASE UNCHANGED mapVars
  <2>1. StoreView' = StoreView
    BY <1>5, StoreKept DEF mapVars
  <2>2. UNCHANGED <<request, reply>>
    BY <1>5 DEF mapVars
  <2>3. UNCHANGED <<Asked, Answered>>
    BY <2>2, Zenon DEF Asked, Answered
  <2> QED
    BY <2>1, <2>3, Zenon DEF Store!storeVars
<1> QED
  BY <1>1, <1>2, <1>3, <1>4, <1>5 DEF Next

\* Whatever understood requests arrive, in whatever order, together with what the inputs
\* do: the arrays of modbus.cpp behind the handlers of freemodbus/modbus/functions are the
\* registers of RegisterStore.  What exists is read and written, in one piece and nothing
\* else with it; what does not exist is refused and changes nothing.
THEOREM StoreImplemented == Understood /\ Spec => ImplementsStore
<1> SUFFICES ASSUME Understood PROVE Spec => ImplementsStore
  OBVIOUS
<1>1. Init => MapInv /\ Store!Init
  BY MapInit, StoreInit
<1>2. MapInv /\ [Next]_mapVars => MapInv' /\ [Store!Next]_(Store!storeVars)
  BY MapStep, StoreStep
<1> QED
  BY <1>1, <1>2, PTL DEF Spec, ImplementsStore, Store!Spec
==============================================================================
