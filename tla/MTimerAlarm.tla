----------------------------- MODULE MTimerAlarm -----------------------------
(***************************************************************************)
(* With no preemption (SingleLevel) the driver and the peripheral together *)
(* implement AlarmClock.  While a replacement of mtimecmp is under way the *)
(* deadline in force is the one found at its first write.                  *)
(***************************************************************************)
EXTENDS MTimer

CONSTANT NoDeadline

ASSUME NoDeadlineAssumption == NoDeadline \notin Doubles

SingleLevel == Levels = 1

Replacing == pc[1] \in {"cmp_hi", "cmp_lo", "reset_cmp_hi"}

Adjusting == pc[1] \in {"time_set_lo", "time_set_hi", "time_only_lo",
                        "reset_time_lo", "reset_time_hi"}

Current == IF Replacing THEN from[1] ELSE mtimecmp

Replacement ==
  CASE pc[1] = "reset_cmp_hi" -> MaxDouble
    [] pc[1] \in {"cmp_hi", "cmp_lo"} -> arg[1]
    [] OTHER -> NoDeadline

Clock == INSTANCE AlarmClock WITH
  now <- mtime, on <- enable, adjusting <- Adjusting,
  current <- Current, next <- Replacement, ringing <- Irq

(* The driver on its peripheral is an alarm clock: it counts only while    *)
(* enabled, is set only by set_counter and reset, and its interrupt line   *)
(* tells exactly whether the deadline is reached, except that while a new  *)
(* deadline replaces an old one it may go by either or stay low.           *)
ImplementsAlarmClock == Clock!ClockSpec
=============================================================================
