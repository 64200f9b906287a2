----------------------------- MODULE SerialBytes -----------------------------
(* Bytes on the RS-485 line, kept symbolic: a byte is known by the frame it     *)
(* belongs to, by the request it answers, or by the bytes it is a CRC of.  The  *)
(* CRC of freemodbus/modbus/rtu/mbcrc.c is a free constructor here: two         *)
(* sequences have the same CRC only if they are equal, so usMBCRC16 over a      *)
(* frame with its CRC appended is 0 exactly when nothing in it was disturbed.   *)
EXTENDS Integers, Sequences

CONSTANTS
    Frame,          \* the frames the master sends: a finite set of numbers > 0
    FrameLength,    \* bytes of each frame, address and CRC included
    FrameAddress    \* "us", "other" or "broadcast", from its first byte

MB_SER_PDU_SIZE_CRC == 2

ASSUME FrameAssumption ==
    /\ Frame \subseteq Nat \ {0}
    /\ FrameLength \in [Frame -> Nat]
    /\ FrameAddress \in [Frame -> {"us", "other", "broadcast"}]

\* The zeros the buffer holds at start, and the own address Send writes.
ZeroByte   == [frame |-> 0, at |-> 0]
OwnAddress == [frame |-> 0, at |-> 1]

\* Byte i of the answer to the request PDU pdu.
AnswerByte(pdu, i) == [answers |-> pdu, at |-> i]

\* usMBCRC16(s): the two bytes that make the checksum of s followed by them 0.
Crc(s) == << [crc |-> s, at |-> 1], [crc |-> s, at |-> 2] >>

\* usMBCRC16(s) == 0
CrcOk(s) ==
    LET n == Len(s) - MB_SER_PDU_SIZE_CRC
    IN  n >= 0 /\ SubSeq(s, n + 1, Len(s)) = Crc(SubSeq(s, 1, n))

\* A frame as the master puts it on the line: data bytes, then their CRC.
FrameBytes(f) ==
    LET data == [i \in 1..(FrameLength[f] - MB_SER_PDU_SIZE_CRC) |->
                    [frame |-> f, at |-> i]]
    IN  data \o Crc(data)

\* The PDU of every frame: what is left without the address and the CRC.
Pdus == [f \in Frame |-> SubSeq(FrameBytes(f), 2, FrameLength[f] - MB_SER_PDU_SIZE_CRC)]

FramePdu(f) == Pdus[f]

\* How a byte reads when it stands in the address position.
AddressOf(b) ==
    IF b = OwnAddress THEN "us"
    ELSE IF "frame" \in DOMAIN b /\ b.at = 1 /\ b.frame \in Frame
         THEN FrameAddress[b.frame]
         ELSE "other"
===============================================================================
