------------------------------ MODULE MCLsuBus ------------------------------
(* One word of data memory and one peripheral register. *)
EXTENDS LsuBus

CONSTANTS dmem, preg
=============================================================================
