------------------------------ MODULE MCConsole ------------------------------
(***************************************************************************)
(* The board's serial line with either of the two pieces of software that  *)
(* drive it: the Rust programs of Console, or the C test of UartTx, which  *)
(* has a UART and variables of its own here.  One of them runs; the other  *)
(* keeps its initial state.                                                *)
(***************************************************************************)
EXTENDS Console

CONSTANTS NoChar, RingSize

VARIABLES
  rust,                 \* whether a Rust program runs
  buffer, head, tail, pc, pushed, handler, c_ier, c_fifo, c_shift, thri,
  c_ip, c_sent

(* Six characters for a ring of three wrap it around twice, and fill it. *)
Numbered == <<1, 2, 3, 4, 5, 6>>

cvars ==
  <<buffer, head, tail, pc, pushed, handler, c_ier, c_fifo, c_shift, thri, c_ip,
    c_sent>>

C == INSTANCE UartTx WITH Size <- RingSize, Message <- Numbered,
       ier <- c_ier, fifo <- c_fifo, shift <- c_shift, ip <- c_ip,
       sent <- c_sent

ASSUME RingAssumption == C!UartAssumption

(* In 100 Hz: CPU_FREQ and UART_BAUD of the two targets. *)
TheFreq == [fpga |-> 300000, rtl_tb |-> 1000000]
TheBaud == [fpga |-> 1152, rtl_tb |-> 15000]

(* With these, every setting of the clock divider gives a usable rate. *)
UsableRates ==
  \A t \in Targets, d \in Dividers \cup {1} : Fits(DivisorFor(t, d), t, d)

ASSUME RateAssumption == UsableRates

(* Codes 5 and 2: load access fault and illegal instruction. *)
SomeCodes == {{0, 2}, {1}}

-----------------------------------------------------------------------------
InitBoth ==
  /\ Init /\ C!Init
  /\ rust \in BOOLEAN
  /\ ~rust => job = "minimal" /\ target = "fpga" /\ div = ResetDivider

RustStep(A) == rust /\ A /\ UNCHANGED <<rust, cvars>>
CStep(A) == ~rust /\ A /\ UNCHANGED <<rust, vars>>

NextBoth == RustStep(Next) \/ CStep(C!Next)

both == <<vars, rust, cvars>>

SpecBoth ==
  /\ InitBoth /\ [][NextBoth]_both
  /\ WF_both(RustStep(Core)) /\ WF_both(RustStep(Shift))
  /\ WF_both(RustStep(Transmit)) /\ WF_both(RustStep(Timeout))
  /\ WF_both(RustStep(AlarmRings))
  /\ WF_both(CStep(C!WriteSerial)) /\ WF_both(CStep(C!UartHandler))
  /\ WF_both(CStep(C!Shift)) /\ WF_both(CStep(C!Transmit))

-----------------------------------------------------------------------------
(* The types of both.  The C driver's are those of uart_interrupt.h. *)
TypesOK == TypeOK /\ C!TypeOK

(* What write_serial has pushed leaves the UART in order, nothing lost and *)
(* nothing twice, also in the middle of a push and of the handler.         *)
InOrder == C!InOrder

(* write_serial returns, however often the ring is full. *)
PrintReturns == rust \/ C!PrintReturns
=============================================================================
