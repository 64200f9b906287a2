--------------------------- MODULE MCRegisterStore ---------------------------
(* An instance of RegisterMap whose requests RegisterStore understands: the      *)
(* hypothesis of the theorem that the one implements the other holds here.        *)
EXTENDS MCRegisterMap

ASSUME UnderstoodAssumption == Understood
===============================================================================
