---------------------------- MODULE MCRegisterMap ----------------------------
(* Requests at the edges of the real register map: the first and the last         *)
(* registers of each array, the ones next to them, none and too many, with legal   *)
(* and wrong lengths, behind them the bytes of an older frame.                     *)
EXTENDS RegisterMap

MCFrame(pdu, behind, unicast) ==
    [frame |-> [i \in 0..(PduSize - 1) |-> IF i < Len(pdu) THEN pdu[i + 1] ELSE behind],
     usLen |-> Len(pdu), unicast |-> unicast]

MCWord(w) == <<w \div 256, w % 256>>
MCRequest(code, address, w) == <<code>> \o MCWord(address) \o MCWord(w)

\* First and last register, one past it, and an address that wraps to 0.
MCAddress(array) == {0, Nregs[array] - 1, Nregs[array]}
MCProtocol(array) == {Start[array] - 1 + i : i \in MCAddress(array)} \cup {65535}

MCReads ==
    UNION {{MCRequest(c, a, 1) : a \in MCProtocol(ReadArray[c])} : c \in 1..4}
    \cup {MCRequest(c, 0, 0) : c \in 1..4}
    \cup {MCRequest(c, Start[ReadArray[c]] - 1, n) : c \in {3, 4}, n \in {2, 4, 5, 11, 12, 126}}
    \cup {<<3, 64, 0, 0>>, <<1, 0, 0, 0, 1, 0>>}

MCSingles ==
    {MCRequest(5, a, w) : a \in MCProtocol("coil") \cup {16}, w \in {0, 1, 65280}}
    \cup {MCRequest(6, a, 512) : a \in MCProtocol("holding")}

MCMultiples ==
    {MCRequest(15, a, n) \o <<1, b>> : a \in {31, 32}, n \in {0, 1}, b \in {0, 1}}
    \cup {MCRequest(16, a, 1) \o <<2, 2, 0>> : a \in {16384, 16387, 16388}}
    \cup {MCRequest(16, 16384, 2) \o <<k, 2, 0, 0, 1>> : k \in {2, 4}}

MCExchanges ==
    {MCRequest(23, a, n) \o MCWord(b) \o <<0, 1, 2, 2, 0>> :
        a \in {16384, 16387}, n \in {1, 2}, b \in {16384, 16388}}
    \cup {<<23, 64, 0>>}

MCReceived ==
    {MCFrame(p, 7, TRUE) : p \in MCReads \cup MCSingles \cup MCMultiples \cup MCExchanges
                                 \cup {<<17>>, <<43, 14>>, <<0, 1>>, <<135, 2>>}}
    \cup {MCFrame(MCRequest(5, 0, 65280), 7, FALSE), MCFrame(MCRequest(6, 16388, 1), 7, FALSE)}

\* Reads and writes of several coils at once.
MCPacked ==
    {MCFrame(MCRequest(5, 1, 65280), 0, TRUE), MCFrame(MCRequest(1, 0, 2), 0, TRUE),
     MCFrame(MCRequest(15, 0, 8) \o <<1, 255>>, 0, TRUE)}

MCSensedBit == {<<3, 8>>}
MCSensedCount == {<<10, 256>>}
===============================================================================
