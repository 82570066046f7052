-------------------------- MODULE IrqPulseCdcProofs --------------------------
(***************************************************************************)
(* The synchroniser delivers exactly one output cycle per pulse for every  *)
(* counter width and every divisor that the counter can reach.             *)
(***************************************************************************)
EXTENDS IrqPulseCdc, TLAPS

(* No slow edge has sampled the pulse being stretched: the last one lies   *)
(* further back than the first cycle in which it could have been seen.     *)
Unseen == IF late THEN phase >= cnt ELSE phase + 1 >= cnt

StretchInv ==
  /\ TypeOK
  /\ cnt <= divisor
  /\ owed = IF cnt # 0 /\ Unseen THEN 1 ELSE 0

(* The divisors for which the stretch lasts one full slow period. *)
Reachable == Divisors \subseteq 1 .. CntValues - 1

LEMMA StretchInit == ASSUME Reachable PROVE Init => StretchInv
<1> SUFFICES ASSUME Init PROVE StretchInv
  OBVIOUS
<1>1. divisor \in Divisors /\ cnt = 0 /\ owed = 0 /\ phase \in 0 .. divisor - 1
  BY DEF Init
<1>2. late \in BOOLEAN /\ out \in BOOLEAN
  BY DEF Init
<1>3. cnt \in 0 .. CntValues - 1 /\ cnt <= divisor
  BY <1>1, CdcAssumption DEF CdcAssumption, Reachable
<1>4. QED
  BY <1>1, <1>2, <1>3 DEF StretchInv, TypeOK

(* One edge of the fast clock, with or without a new pulse. *)
LEMMA StretchEdge ==
  ASSUME Reachable, StretchInv, NEW pulse \in BOOLEAN,
         pulse => Ready, Edge(pulse)
  PROVE  StretchInv'
<1> USE CdcAssumption DEF CdcAssumption, Reachable, StretchInv, TypeOK
<1>1. /\ divisor \in 1 .. CntValues - 1
      /\ divisor' = divisor
      /\ late' = late
      /\ CntValues \in Nat
  BY DEF Edge
<1>2. cnt' = IF pulse THEN 1 ELSE IF cnt \in {0, divisor} THEN 0 ELSE cnt + 1
  BY <1>1 DEF Edge, NextCnt, Truncate
<1>3. cnt' \in 0 .. CntValues - 1 /\ cnt' <= divisor'
  BY <1>1, <1>2
<1>4. phase' \in 0 .. divisor' - 1
  BY <1>1 DEF Edge, SlowEdge
<1>5. phase' = IF phase = divisor - 1 THEN 0 ELSE phase + 1
  BY DEF Edge, SlowEdge
<1>6. owed' = owed + (IF pulse THEN 1 ELSE 0)
              - (IF phase = divisor - 1 /\ (IF late THEN cnt' # 0 ELSE cnt # 0)
                 THEN 1 ELSE 0)
  BY DEF Edge, SlowEdge, Stretched
<1>7. owed' = IF cnt' # 0 /\ Unseen' THEN 1 ELSE 0
  <2>1. CASE pulse
    BY <2>1, <1>1, <1>2, <1>5, <1>6 DEF Unseen, Ready
  <2>2. CASE ~pulse
    BY <2>2, <1>1, <1>2, <1>5, <1>6 DEF Unseen
  <2>3. QED
    BY <2>1, <2>2
<1>8. owed' \in 0 .. 1
  BY <1>7
<1>9. out' \in BOOLEAN
  BY DEF Edge, Stretched
<1>10. divisor' \in Divisors /\ late' \in BOOLEAN
  BY <1>1
<1>11. QED
  BY <1>3, <1>4, <1>7, <1>8, <1>9, <1>10

LEMMA StretchStep ==
  ASSUME Reachable PROVE StretchInv /\ [Next]_vars => StretchInv'
<1> SUFFICES ASSUME StretchInv, [Next]_vars PROVE StretchInv'
  OBVIOUS
<1>1. CASE Pulse
  BY <1>1, StretchEdge DEF Pulse
<1>2. CASE Idle
  BY <1>2, StretchEdge DEF Idle
<1>3. CASE UNCHANGED vars
  BY <1>3 DEF vars, StretchInv, TypeOK, Unseen
<1>4. QED
  BY <1>1, <1>2, <1>3 DEF Next

(* irq_pulse_cdc loses no pulse and doubles none, whatever the width of    *)
(* its counter, the phase of the clocks and the side of the clock race,    *)
(* provided that the divisor fits in the counter.                          *)
THEOREM OnePerPulseTheorem == ASSUME Reachable PROVE Spec => []OnePerPulse
<1>1. Init => StretchInv
  BY StretchInit
<1>2. StretchInv /\ [Next]_vars => StretchInv'
  BY StretchStep
<1>3. StretchInv => OnePerPulse
  BY DEF StretchInv, OnePerPulse
<1>4. QED
  BY <1>1, <1>2, <1>3, PTL DEF Spec

(* The counter, the phase and what is owed stay in their ranges: at most   *)
(* one pulse is ever on its way.                                           *)
THEOREM TypeCorrect == ASSUME Reachable PROVE Spec => []TypeOK
<1>1. Init => StretchInv
  BY StretchInit
<1>2. StretchInv /\ [Next]_vars => StretchInv'
  BY StretchStep
<1>3. StretchInv => TypeOK
  BY DEF StretchInv
<1>4. QED
  BY <1>1, <1>2, <1>3, PTL DEF Spec
=============================================================================
