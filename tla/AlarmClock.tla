----------------------------- MODULE AlarmClock -----------------------------
(***************************************************************************)
(* What the machine timer promises its user, whatever the width of the bus *)
(* and however many accesses a call takes: a clock that counts while it is *)
(* on, and a bell that rings exactly when the clock is on and has reached  *)
(* the deadline.                                                           *)
(*                                                                         *)
(* Replacing the deadline takes time.  Meanwhile both the old and the new  *)
(* deadline are candidates: the bell may ring only if one of them has been *)
(* reached, and may stay silent.                                           *)
(***************************************************************************)
EXTENDS DoubleWord

CONSTANT NoDeadline

VARIABLES
  now,       \* the clock
  on,        \* the clock counts and the bell may ring
  adjusting, \* somebody is setting the clock
  current,   \* the deadline in force
  next,      \* the deadline replacing it, or NoDeadline
  ringing    \* the bell

clockVars == <<now, on, adjusting, current, next, ringing>>

Reached(d) == Geq(now, d)

BellOK ==
  /\ ringing => on /\ (Reached(current) \/ (next # NoDeadline /\ Reached(next)))
  /\ on /\ next = NoDeadline /\ Reached(current) => ringing

ClockInit ==
  /\ now = Zero
  /\ current = Zero
  /\ next = NoDeadline
  /\ on = FALSE
  /\ adjusting = FALSE
  /\ ringing = FALSE

Advance ==
  /\ on
  /\ now' = Increment(now)
  /\ UNCHANGED <<on, current, next>>

Adjust ==
  /\ adjusting
  /\ UNCHANGED <<on, current, next>>

Switch == UNCHANGED <<now, current, next>>

Propose ==
  /\ next = NoDeadline
  /\ next' \in Doubles
  /\ UNCHANGED <<now, on, current>>

Settle ==
  /\ next # NoDeadline
  /\ current' = next
  /\ next' = NoDeadline
  /\ UNCHANGED <<now, on>>

ClockNext == BellOK' /\ (Advance \/ Adjust \/ Switch \/ Propose \/ Settle)

ClockSpec == ClockInit /\ [][ClockNext]_clockVars
=============================================================================
