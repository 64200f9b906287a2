---------------------------- MODULE MCGpioModule ----------------------------
(* Small instances of GpioModule: a channel with an EXTI line of its own, two    *)
(* that share a handler, counters that wrap after 1 or 2 and bytes of two values. *)
EXTENDS GpioModule
===============================================================================
