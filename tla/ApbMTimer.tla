------------------------------ MODULE ApbMTimer ------------------------------
(***************************************************************************)
(* The RISC-V machine timer peripheral, src/src/ip/apb_mtimer.sv: a 64-bit *)
(* count and compare register behind a 32-bit APB port, a prescaler and    *)
(* its counter, and a level-sensitive interrupt line.                      *)
(*                                                                         *)
(* One action is one cycle of the peripheral clock.  A cycle either        *)
(* completes an APB write to one register or it does not; the counting     *)
(* logic runs only in the cycles that carry no write, and every write, to  *)
(* whichever register of the block, restarts the prescale counter.         *)
(***************************************************************************)
EXTENDS DoubleWord

CONSTANT MaxPrescaler  \* the largest value of the 3-bit prescaler field: 7

ASSUME PrescalerAssumption == MaxPrescaler \in Nat

VARIABLES
  mtime,      \* mtime_q
  mtimecmp,   \* mtimecmp_q
  prescaler,  \* prescaler_q
  counter,    \* counter_q, the prescale counter
  enable      \* enable_q

timerVars == <<mtime, mtimecmp, prescaler, counter, enable>>

Prescalers == 0 .. MaxPrescaler

TimerTypeOK ==
  /\ mtime \in Doubles
  /\ mtimecmp \in Doubles
  /\ prescaler \in Prescalers
  /\ counter \in Prescalers
  /\ enable \in BOOLEAN

TimerInit ==
  /\ mtime = Zero
  /\ mtimecmp = Zero
  /\ prescaler = 0
  /\ counter = 0
  /\ enable = FALSE

(* A deviation: the line does not depend on the enable bit. *)
IrqUngated == Geq(mtime, mtimecmp)

(* timer_irq_o: a level, high for as long as the comparison holds. *)
Irq == enable /\ Geq(mtime, mtimecmp)

(* A deviation: the count does not depend on the enable bit. *)
CountedUngated == IF counter = prescaler THEN Increment(mtime) ELSE mtime

(* The value mtime takes at the end of a cycle without a write. *)
Counted ==
  IF enable /\ counter = prescaler THEN Increment(mtime) ELSE mtime

(* A cycle that writes no register: idle, or the access phase of a read.   *)
(* A read returns the value before the cycle's increment.                  *)
CountCycle ==
  /\ mtime' = Counted
  /\ counter' = IF enable /\ counter # prescaler
                THEN Successor(counter, MaxPrescaler)
                ELSE 0
  /\ UNCHANGED <<mtimecmp, prescaler, enable>>

(* A cycle that completes a write to (a word of) mtime. *)
WriteTime(v) ==
  /\ mtime' = v
  /\ counter' = 0
  /\ UNCHANGED <<mtimecmp, prescaler, enable>>

(* A cycle that completes a write to (a word of) mtimecmp. *)
WriteCmp(v) ==
  /\ mtimecmp' = v
  /\ counter' = 0
  /\ UNCHANGED <<mtime, prescaler, enable>>

(* A deviation: the prescale counter runs on. *)
WriteCtrlKeepsCounter(en, pre) ==
  /\ enable' = en
  /\ prescaler' = pre
  /\ UNCHANGED <<mtime, mtimecmp, counter>>

(* A cycle that completes a write to the control register. *)
WriteCtrl(en, pre) ==
  /\ enable' = en
  /\ prescaler' = pre
  /\ counter' = 0
  /\ UNCHANGED <<mtime, mtimecmp>>

(* The prescale counter never passes the prescaler, so the equality test   *)
(* that ends a prescale period is never stepped over.                      *)
PrescaleBounded == counter <= prescaler
=============================================================================
