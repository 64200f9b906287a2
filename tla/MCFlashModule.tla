---------------------------- MODULE MCFlashModule ----------------------------
(* Small instances of FlashModule: one channel, the default baud rate and two     *)
(* others the master can put together.                                            *)
EXTENDS FlashModule

MCRate(high, low) == [h \in HalfWord |-> IF h = "high" THEN high ELSE low]

MCStandard == {MCRate(0, 1200), MCRate(0, 4800), MCRate(1, 49664)}
MCDefault  == MCRate(1, 49664)
===============================================================================
