----------------------------- MODULE Interrupts -----------------------------
(***************************************************************************)
(* The interrupts of the board support package: their numbers in the CLIC  *)
(* (interrupt.rs) and the vector table through which the core finds the    *)
(* handler of each (trap.rs).  A handler is known by the name of the       *)
(* symbol _start_<name>_trap; a program that does not define the symbol    *)
(* gets the runtime crate's DefaultHandler.                                *)
(***************************************************************************)
EXTENDS Integers, Sequences

(* enum Interrupt: the input of the CLIC each interrupt is wired to. *)
Number == [MachineSoft |-> 3, MachineTimer |-> 7, MachineExternal |-> 11,
           Uart |-> 17, Gpio |-> 18, SpiRxTxIrq |-> 19, SpiEotIrq |-> 20,
           Timer0Ovf |-> 21, Timer0Cmp |-> 22, Timer1Ovf |-> 23,
           Timer1Cmp |-> 24, Timer2Ovf |-> 25, Timer2Cmp |-> 26,
           Timer3Ovf |-> 27, Timer3Cmp |-> 28, Nmi |-> 31,
           Dma0 |-> 32, Dma1 |-> 33, Dma2 |-> 34, Dma3 |-> 35, Dma4 |-> 36,
           Dma5 |-> 37, Dma6 |-> 38, Dma7 |-> 39, Dma8 |-> 40, Dma9 |-> 41,
           Dma10 |-> 42, Dma11 |-> 43, Dma12 |-> 44, Dma13 |-> 45,
           Dma14 |-> 46, Dma15 |-> 47]

(* The interrupts from_number() knows: the timers, GPIO, SPI and NMI are   *)
(* missing from its match.                                                 *)
Decodable == {i \in DOMAIN Number : Number[i] \notin 18 .. 31}

Default(n) == [k \in 1 .. n |-> "DefaultHandler"]

(* _vector_table from its word 1 on; word 0 is the exception entry. *)
VectorTable ==
  <<"SupervisorSoft", "DefaultHandler", "MachineSoft", "DefaultHandler",
    "SupervisorTimer", "DefaultHandler", "MachineTimer", "DefaultHandler",
    "SupervisorExternal", "DefaultHandler", "MachineExternal">>
  \o Default(5)
  \o <<"Uart", "Gpio", "SpiRxTxIrq", "SpiEotIrq", "Timer0Ovf", "Timer0Cmp",
       "Timer1Ovf", "Timer1Cmp", "Timer2Ovf", "Timer2Cmp", "Timer3Ovf",
       "Timer3Cmp">>
  \o Default(2)
  \o <<"Nmi", "Dma0", "Dma1", "Dma2", "Dma3", "Dma4", "Dma5", "Dma6", "Dma7",
       "Dma8", "Dma9", "Dma10", "Dma11", "Dma12", "Dma13", "Dma14", "Dma15">>
  \o Default(16)

(* The symbol whose address the core loads for interrupt i. *)
Vector(i) == VectorTable[Number[i]]
=============================================================================
