---------------------------- MODULE MCModbusLink ----------------------------
(* Small instances of ModbusLink: two frames for this slave, a broadcast or a   *)
(* frame for another slave, buffers of five or six bytes, three or four ticks.  *)
EXTENDS ModbusLink

MCLength == [f \in Frame |-> CASE f = 2 -> 5 [] f = 6 -> MB_SER_PDU_SIZE_MAX [] OTHER -> 4]
MCAddress == [f \in Frame |-> CASE f = 3 -> "other" [] f = 4 -> "broadcast" [] OTHER -> "us"]
MCByte == {ZeroByte} \cup UNION {ToSet(FrameBytes(f)) : f \in Frame}
MCReplyLength == {0, 1, 2}
===============================================================================
