---------------------------- MODULE MCMTimerAlarm ----------------------------
(* The machine timer as an alarm clock, on a small instance for TLC. *)
EXTENDS MTimerAlarm

ASSUME OneCaller == SingleLevel

AllDeadlines == Doubles

AllDurations == Words
=============================================================================
