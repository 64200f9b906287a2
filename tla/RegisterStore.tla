---------------------------- MODULE RegisterStore ----------------------------
(* What a master may expect of the registers: a request that names registers     *)
(* that exist is carried out in one piece, on exactly those registers, and       *)
(* answered with their values; any other is refused and changes nothing.  The    *)
(* inputs move on their own, and a clear coil falls back when it was obeyed.      *)
EXTENDS Integers, Sequences

CONSTANTS
    Nregs,       \* number of registers of "coil", "discrete", "holding", "input"
    ClearCoil    \* the coils that fall back by themselves

VARIABLES
    store,    \* store[array][i], from 0
    asked,    \* the last request: which registers to read, which to write
    answer    \* its kind: "none", "refused" or "done", and the values read

storeVars == <<store, asked, answer>>

Exists(r) == r.first >= 0 /\ r.first + r.count <= Nregs[r.array]

\* The registers of an array from first on hold values now.
Written(regs, first, values) ==
    [i \in DOMAIN regs |-> IF i - first + 1 \in DOMAIN values THEN values[i - first + 1]
                                                              ELSE regs[i]]
After(w) == [store EXCEPT ![w.array] = Written(@, w.first, w.values)]

ValuesOf(s, r) == [k \in 1..r.count |-> s[r.array][r.first + k - 1]]

Init ==
    /\ store = [array \in DOMAIN Nregs |->
                  [i \in 0..(Nregs[array] - 1) |-> IF array = "discrete" /\ i \in 8..15
                                                   THEN 1 ELSE 0]]
    /\ asked = [op |-> "none"] /\ answer = [kind |-> "none", values |-> <<>>]

\* A broadcast is carried out like any request, and not answered.
Answer(kind, values) ==
    answer' \in {[kind |-> kind, values |-> values], [kind |-> "none", values |-> <<>>]}

Read ==
    /\ asked'.op = "read" /\ Exists(asked'.read)
    /\ Answer("done", ValuesOf(store, asked'.read))
    /\ UNCHANGED store

Write ==
    /\ asked'.op = "write" /\ Exists(asked'.write)
    /\ store' = After(asked'.write)
    /\ Answer("done", <<>>)

\* Write, then read.
Exchange ==
    /\ asked'.op = "exchange" /\ Exists(asked'.write) /\ Exists(asked'.read)
    /\ store' = After(asked'.write)
    /\ Answer("done", ValuesOf(After(asked'.write), asked'.read))

\* Only an exchange may be refused halfway: its write is done, its read impossible.
Refuse ==
    /\ \/ asked'.op = "other"
       \/ asked'.op = "read" /\ ~Exists(asked'.read)
       \/ asked'.op \in {"write", "exchange"} /\ ~Exists(asked'.write)
    /\ Answer("refused", <<>>)
    /\ UNCHANGED store

RefuseHalfway ==
    /\ asked'.op = "exchange" /\ Exists(asked'.write) /\ ~Exists(asked'.read)
    /\ store' = After(asked'.write)
    /\ Answer("refused", <<>>)

\* Discrete inputs and input registers change; a clear coil is reset.
Sense ==
    /\ \A array \in {"coil", "holding"} : \A i \in DOMAIN store[array] :
         \/ store'[array][i] = store[array][i]
         \/ array = "coil" /\ i \in ClearCoil /\ store[array][i] = 1 /\ store'[array][i] = 0
    /\ UNCHANGED <<asked, answer>>

\* A request about no register.
Report == asked'.op = "report" /\ Answer("done", <<>>) /\ UNCHANGED store

Next == Report \/ Read \/ Write \/ Exchange \/ Refuse \/ RefuseHalfway \/ Sense

Spec == Init /\ [][Next]_storeVars
===============================================================================
