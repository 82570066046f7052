---------------------------- MODULE MCNestedTrap ----------------------------
(* Interrupt levels whose handlers mix the kinds of trampoline. *)
EXTENDS NestedTrap

(* Three levels, lowest first, in which every kind of handler is preempted *)
(* directly by every kind.                                                 *)
Mixtures ==
  {<<"nested", "pcs", "plain">>, <<"closure", "nested", "plain">>,
   <<"nested", "closure", "closure">>, <<"pcs", "closure", "plain">>,
   <<"closure", "pcs", "closure">>, <<"nested", "plain", "nested">>,
   <<"pcs", "plain", "closure">>, <<"plain", "nested", "nested">>,
   <<"plain", "pcs", "pcs">>, <<"plain", "pcs", "nested">>,
   <<"plain", "plain", "nested">>}

SoftwareStacked == [Interrupts -> {"nested", "closure"}]

(* The ilp32e ABI of the build target lets a function overwrite all of     *)
(* these, x6, x7 and x14 included, which archi.rs counts as callee-save.   *)
Ilp32eVolatile == Registers
=============================================================================
