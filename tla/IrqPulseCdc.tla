----------------------------- MODULE IrqPulseCdc -----------------------------
(***************************************************************************)
(* The interrupt pulse synchroniser, src/src/ip/irq_pulse_cdc.sv.  A pulse *)
(* one cycle of the fast clock long is stretched by a counter so that a    *)
(* register on the slow clock, which has one edge every divisor fast       *)
(* cycles, samples it.  rt_peripherals.sv uses it to hand the core's       *)
(* interrupt acknowledge and the DMA interrupts to the peripheral clock.   *)
(*                                                                         *)
(* One step is one rising edge of the fast clock.  The slow edge coincides *)
(* with a fast one; whether its register sees the counter before or after  *)
(* that edge is a race between the two clock trees, so late is either.     *)
(*                                                                         *)
(* owed is a history variable: pulses sent minus slow cycles in which the  *)
(* output was made high.                                                   *)
(***************************************************************************)
EXTENDS Integers

CONSTANTS
  CntValues,  \* the number of values of the stretch counter, 2^CntWidth
  Divisors    \* the divisor settings considered

ASSUME CdcAssumption ==
  /\ CntValues \in Nat \ {0}
  /\ Divisors \subseteq Nat \ {0}

VARIABLES
  divisor,  \* divisor_i, constant while pulses are in flight
  late,     \* the slow register samples the counter after the common edge
  cnt,      \* cnt_q
  phase,    \* fast cycles since the last slow edge
  out,      \* pulse_o
  owed

vars == <<divisor, late, cnt, phase, out, owed>>

TypeOK ==
  /\ divisor \in Divisors
  /\ late \in BOOLEAN
  /\ cnt \in 0 .. CntValues - 1
  /\ phase \in 0 .. divisor - 1
  /\ out \in BOOLEAN
  /\ owed \in 0 .. 1  \* of the divisors the counter can reach

Init ==
  /\ divisor \in Divisors
  /\ late \in BOOLEAN
  /\ cnt = 0
  /\ phase \in 0 .. divisor - 1
  /\ out = FALSE
  /\ owed = 0

(* n truncated to the width of the counter, for n up to one past its end. *)
Truncate(n) == IF n = CntValues THEN 0 ELSE n

(* A deviation: the counter is cleared in the cycle after the pulse. *)
NextCntUnstretched(pulse) == IF pulse THEN Truncate(1) ELSE 0

(* cnt_d of the always_comb block. *)
NextCnt(pulse) ==
  CASE pulse                               -> Truncate(1)
    [] ~pulse /\ cnt \in {0, divisor}      -> 0
    [] ~pulse /\ cnt \notin {0, divisor}   -> Truncate(cnt + 1)

(* A deviation: the lowest bit of decode is dropped. *)
StretchedFromTwo(n) == n > 1

(* pulse_d: decode = 2^cnt - 1 has a bit set exactly when cnt is not zero. *)
Stretched(n) == n # 0

(* A deviation: a divider whose period is one cycle too long. *)
SlowEdgeLate == phase = divisor

(* The divided clock rises once in divisor fast cycles. *)
SlowEdge == phase = divisor - 1

(* The sources leave at least divisor fast cycles between two pulses. *)
Ready == cnt \in {0, divisor}

Edge(pulse) ==
  LET sample == Stretched(IF late THEN NextCnt(pulse) ELSE cnt)
      sent == IF pulse THEN 1 ELSE 0
      got == IF SlowEdge /\ sample THEN 1 ELSE 0
  IN /\ cnt' = NextCnt(pulse)
     /\ phase' = IF SlowEdge THEN 0 ELSE phase + 1
     /\ out' = IF SlowEdge THEN sample ELSE out
     /\ owed' = owed + sent - got
     /\ UNCHANGED <<divisor, late>>

Pulse == Ready /\ Edge(TRUE)

Idle == Edge(FALSE)

Next == Pulse \/ Idle

Spec == Init /\ [][Next]_vars

(* The fast clock is free-running. *)
FairSpec == Spec /\ WF_vars(Idle)

(* No pulse is lost or doubled: while the counter is stretching a pulse at *)
(* most that one is outstanding, and when it stops every pulse has made    *)
(* the output high for one slow cycle (irq_pulse_cdc.sv: one clk_b cycle   *)
(* long output pulse from one clk_a cycle long input pulse).               *)
OnePerPulse ==
  /\ owed \in {0, 1}
  /\ cnt = 0 => owed = 0

(* A pulse that is owed reaches the output. *)
PulseDelivered == owed > 0 ~> out
=============================================================================
