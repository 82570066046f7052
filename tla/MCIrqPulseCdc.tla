---------------------------- MODULE MCIrqPulseCdc ----------------------------
(* The pulse synchroniser with the divisor settings a counter can reach,   *)
(* and with the larger ones the 4-bit divisor register also accepts.       *)
EXTENDS IrqPulseCdc

ReachableDivisors == 1 .. CntValues - 1

RegisterDivisors == 2 .. 15
=============================================================================
