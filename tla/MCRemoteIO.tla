----------------------------- MODULE MCRemoteIO -----------------------------
(* Small instances of RemoteIO: a request that writes nothing, one that changes   *)
(* the rate, a frame for another slave, a broadcast and a request that change a    *)
(* direction, a frame longer than the buffer; the default rate and two lower ones  *)
(* whose characters take longer.                                                   *)
EXTENDS RemoteIO

MCLength  == [f \in Frame |-> CASE f = 2 -> 5 [] f = 5 -> MB_SER_PDU_SIZE_MAX + 1 [] OTHER -> 4]
MCAddress == [f \in Frame |-> CASE f = 3 -> "other" [] f = 4 -> "broadcast" [] OTHER -> "us"]
MCByte    == {ZeroByte} \cup UNION {ToSet(FrameBytes(f)) : f \in Frame}
MCEffect  == [f \in Frame |-> CASE f = 2 -> "rate" [] f \in {4, 6} -> "mode" [] OTHER -> "none"]

MCRate(high, low) == [h \in {"high", "low"} |-> IF h = "high" THEN high ELSE low]

MCDefault  == MCRate(1, 49664)
Rate57600  == MCRate(0, 57600)
Rate1200   == MCRate(0, 1200)
MCStandard == {Rate1200, Rate57600, MCDefault}
MCTicks    == [r \in Standard |-> CASE r = Rate1200 -> Timeout + 1
                                    [] r = Rate57600 -> 2 [] OTHER -> 1]
===============================================================================
