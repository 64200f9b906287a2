--------------------------- MODULE MCRemoteTimely ---------------------------
(* An instance of RemoteIO whose master keeps the rules: the hypothesis of the  *)
(* theorems about the line holds here, and the runs of the others show why it   *)
(* is needed.                                                                    *)
EXTENDS MCRemoteIO

ASSUME TimelyAssumption == Timely
===============================================================================
