-------------------------------- MODULE MTimer --------------------------------
(***************************************************************************)
(* The machine-timer driver of the board support package                   *)
(* (src/examples/atalanta-bsp/src/mtimer.rs) running against the           *)
(* peripheral of ApbMTimer.                                                *)
(*                                                                         *)
(* A driver call is a series of single-word bus accesses; the peripheral   *)
(* goes on counting between any two of them and during the reads.  One     *)
(* action is one access, or one cycle without any.  The calls are made by  *)
(* nested contexts 1 .. Levels of one core: context 1 is the main program, *)
(* a higher context is an interrupt handler, which may preempt any lower   *)
(* context between two accesses and which finishes before that continues.  *)
(*                                                                         *)
(* from, clean, alarm and quiet are history variables: no guard and no     *)
(* register update reads them.                                             *)
(***************************************************************************)
EXTENDS ApbMTimer

CONSTANTS
  Levels,      \* depth of preemption; 1 means that nothing preempts main
  Deadlines,   \* the arguments given to set_cmp
  Counts,      \* the arguments given to set_counter
  Durations    \* the OneShot durations, in ticks of the peripheral clock

ASSUME DriverAssumption ==
  /\ Levels \in Nat \ {0}
  /\ Deadlines \subseteq Doubles
  /\ Counts \subseteq Doubles
  /\ Durations \subseteq Words

Contexts == 1 .. Levels

VARIABLES
  op,     \* op[c]: the driver function context c is executing, or "none"
  pc,     \* pc[c]: its next bus access
  arg,    \* arg[c]: the 64-bit argument, or the deadline OneShot computed
  seen,   \* seen[c]: the words of a 64-bit register read so far
  ctrl,   \* ctrl[c]: the prescaler argument, or that of the word just read
  from,   \* from[c]: the register the call works on, when its accesses began
  clean,  \* clean[c]: no other context made a call since c's call began
  alarm,  \* the OneShot schedule in force, see SetAlarm
  quiet   \* reset() completed and nothing was scheduled since

driverVars == <<op, pc, arg, seen, ctrl, from, clean, alarm, quiet>>
vars == <<timerVars, driverVars>>

Ops == {"set_cmp", "set_counter", "lo_set_counter", "reset", "enable",
        "enable_with_prescaler", "disable", "counter", "cmp", "start"}

(* The calls that only read registers. *)
Readers == {"counter", "cmp"}

(* The first bus access of each function. *)
FirstAccess ==
  [o \in Ops |->
     CASE o = "set_cmp"               -> "cmp_lo_max"
       [] o = "set_counter"           -> "time_set_lo"
       [] o = "lo_set_counter"        -> "time_only_lo"
       [] o = "reset"                 -> "reset_ctrl"
       [] o = "enable"                -> "ctrl_read"
       [] o = "enable_with_prescaler" -> "ctrl_set"
       [] o = "disable"               -> "ctrl_read"
       [] o = "counter"               -> "time_hi"
       [] o = "cmp"                   -> "cmp_read_hi"
       [] o = "start"                 -> "time_hi"]

Accesses ==
  {"cmp_lo_max", "cmp_hi", "cmp_lo", "time_set_lo", "time_set_hi",
   "time_only_lo", "reset_ctrl", "reset_time_lo", "reset_time_hi",
   "reset_cmp_lo", "reset_cmp_hi", "ctrl_read", "ctrl_write", "ctrl_set",
   "time_hi", "time_lo", "cmp_read_hi", "cmp_read_lo"}

NoAlarm == [state |-> "none", dur |-> 0, age |-> 0]

Alarms == [state : {"none", "armed", "live"}, dur : Words, age : 0 .. Base]

TypeOK ==
  /\ TimerTypeOK
  /\ op \in [Contexts -> Ops \cup {"none"}]
  /\ pc \in [Contexts -> Accesses \cup {"idle"}]
  /\ arg \in [Contexts -> Doubles]
  /\ seen \in [Contexts -> Doubles]
  /\ ctrl \in [Contexts -> Prescalers]
  /\ from \in [Contexts -> Doubles]
  /\ clean \in [Contexts -> BOOLEAN]
  /\ alarm \in Alarms
  /\ quiet \in BOOLEAN

Init ==
  /\ TimerInit
  /\ op = [c \in Contexts |-> "none"]
  /\ pc = [c \in Contexts |-> "idle"]
  /\ arg = [c \in Contexts |-> Zero]
  /\ seen = [c \in Contexts |-> Zero]
  /\ ctrl = [c \in Contexts |-> 0]
  /\ from = [c \in Contexts |-> Zero]
  /\ clean = [c \in Contexts |-> TRUE]
  /\ alarm = NoAlarm
  /\ quiet = FALSE

-----------------------------------------------------------------------------
(* Contexts: priority nesting on one core. *)

Runs(c) == \A d \in Contexts : d > c => pc[d] = "idle"

(* Context c enters function o.  A call that changes the timer ends what   *)
(* earlier calls had scheduled.                                            *)
Begin(c, o, a, p) ==
  /\ pc[c] = "idle"
  /\ Runs(c)
  /\ op' = [op EXCEPT ![c] = o]
  /\ pc' = [pc EXCEPT ![c] = FirstAccess[o]]
  /\ arg' = [arg EXCEPT ![c] = a]
  /\ ctrl' = [ctrl EXCEPT ![c] = p]
  /\ clean' = [d \in Contexts |-> d = c \/ pc[d] = "idle"]
  /\ alarm' = IF o \in Readers THEN alarm ELSE NoAlarm
  /\ quiet' = (quiet /\ o \notin {"set_cmp", "set_counter", "lo_set_counter",
                                  "reset", "start"})
  /\ UNCHANGED <<timerVars, seen, from>>

BeginCall(c) ==
  \/ \E a \in Deadlines : Begin(c, "set_cmp", a, 0)
  \/ \E a \in Counts : Begin(c, "set_counter", a, 0)
  \/ \E a \in Counts : Begin(c, "lo_set_counter", a, 0)
  \/ \E p \in Prescalers : Begin(c, "enable_with_prescaler", Zero, p)
  \/ \E d \in Durations : Begin(c, "start", [hi |-> 0, lo |-> d], 0)
  \/ \E o \in {"reset", "enable", "disable", "counter", "cmp"} :
       Begin(c, o, Zero, 0)

(* Context c's access is done and another one follows / none follows. *)
Goto(c, next) ==
  /\ pc' = [pc EXCEPT ![c] = next]
  /\ UNCHANGED <<op, clean>>

Return(c) ==
  /\ op' = [op EXCEPT ![c] = "none"]
  /\ pc' = [pc EXCEPT ![c] = "idle"]
  /\ arg' = [arg EXCEPT ![c] = Zero]
  /\ seen' = [seen EXCEPT ![c] = Zero]
  /\ ctrl' = [ctrl EXCEPT ![c] = 0]
  /\ from' = [from EXCEPT ![c] = Zero]
  /\ clean' = [clean EXCEPT ![c] = TRUE]

At(c, access) == pc[c] = access /\ Runs(c)

(* The age of an alarm in mtime increments, counted no further than Base,  *)
(* which no duration exceeds.                                              *)
Aged ==
  IF enable /\ counter = prescaler /\ alarm.state # "none" /\ alarm.age < Base
  THEN [alarm EXCEPT !.age = @ + 1]
  ELSE alarm

(* No other context is in the middle of a call. *)
Alone(c) == \A d \in Contexts \ {c} : pc[d] = "idle"

(* OneShot::start read the count t and computed the deadline t + dur.  The *)
(* alarm is live at once if the timer is stopped, and otherwise as soon as *)
(* the deadline is in place; it is not tracked if the sum overflowed, if   *)
(* another context's call overlaps with this one, or if the low word       *)
(* carried between the two reads.                                          *)
SetAlarm(c) ==
  LET carried == mtime.hi # seen[c].hi
      ticked == IF enable /\ counter = prescaler THEN 1 ELSE 0
  IN IF carried \/ ~clean[c] \/ ~Alone(c) \/ Overflows(mtime, arg[c].lo)
     THEN NoAlarm
     ELSE [state |-> IF enable THEN "armed" ELSE "live",
           dur |-> arg[c].lo, age |-> ticked]

-----------------------------------------------------------------------------
(* set_cmp: low word to all ones, high word, low word. *)

(* A deviation: the low word is set at once to its final value. *)
CmpLoNow(c) ==
  /\ At(c, "cmp_lo_max")
  /\ WriteCmp([mtimecmp EXCEPT !.lo = arg[c].lo])
  /\ from' = [from EXCEPT ![c] = mtimecmp]
  /\ Goto(c, "cmp_hi")
  /\ UNCHANGED <<arg, seen, ctrl, alarm, quiet>>

CmpLoMax(c) ==
  /\ At(c, "cmp_lo_max")
  /\ WriteCmp([mtimecmp EXCEPT !.lo = MaxWord])
  /\ from' = [from EXCEPT ![c] = mtimecmp]
  /\ Goto(c, "cmp_hi")
  /\ UNCHANGED <<arg, seen, ctrl, alarm, quiet>>

CmpHi(c) ==
  /\ At(c, "cmp_hi")
  /\ WriteCmp([mtimecmp EXCEPT !.hi = arg[c].hi])
  /\ Goto(c, "cmp_lo")
  /\ UNCHANGED <<arg, seen, ctrl, from, alarm, quiet>>

(* The last access of set_cmp; OneShot::start goes on with enable(). *)
CmpLo(c) ==
  /\ At(c, "cmp_lo")
  /\ WriteCmp([mtimecmp EXCEPT !.lo = arg[c].lo])
  /\ alarm' = IF op[c] = "start" /\ clean[c] /\ alarm.state = "armed"
              THEN [alarm EXCEPT !.state = "live"]
              ELSE alarm
  /\ UNCHANGED quiet
  /\ \/ /\ op[c] = "start"
        /\ Goto(c, "ctrl_read")
        /\ UNCHANGED <<arg, seen, ctrl, from>>
     \/ op[c] # "start" /\ Return(c)

(* set_counter: low word, high word.  MTimerLo writes the low word only. *)

TimeSetLo(c) ==
  /\ At(c, "time_set_lo")
  /\ WriteTime([mtime EXCEPT !.lo = arg[c].lo])
  /\ from' = [from EXCEPT ![c] = mtime]
  /\ Goto(c, "time_set_hi")
  /\ UNCHANGED <<arg, seen, ctrl, alarm, quiet>>

TimeSetHi(c) ==
  /\ At(c, "time_set_hi")
  /\ WriteTime([mtime EXCEPT !.hi = arg[c].hi])
  /\ Return(c)
  /\ UNCHANGED <<alarm, quiet>>

TimeOnlyLo(c) ==
  /\ At(c, "time_only_lo")
  /\ WriteTime([mtime EXCEPT !.lo = arg[c].lo])
  /\ Return(c)
  /\ UNCHANGED <<alarm, quiet>>

(* reset: stop the timer, clear mtime, set mtimecmp to all ones. *)

ResetCtrl(c) ==
  /\ At(c, "reset_ctrl")
  /\ WriteCtrl(FALSE, 0)
  /\ Goto(c, "reset_time_lo")
  /\ UNCHANGED <<arg, seen, ctrl, from, alarm, quiet>>

ResetTimeLo(c) ==
  /\ At(c, "reset_time_lo")
  /\ WriteTime([mtime EXCEPT !.lo = 0])
  /\ Goto(c, "reset_time_hi")
  /\ UNCHANGED <<arg, seen, ctrl, from, alarm, quiet>>

ResetTimeHi(c) ==
  /\ At(c, "reset_time_hi")
  /\ WriteTime([mtime EXCEPT !.hi = 0])
  /\ Goto(c, "reset_cmp_lo")
  /\ UNCHANGED <<arg, seen, ctrl, from, alarm, quiet>>

ResetCmpLo(c) ==
  /\ At(c, "reset_cmp_lo")
  /\ WriteCmp([mtimecmp EXCEPT !.lo = MaxWord])
  /\ from' = [from EXCEPT ![c] = mtimecmp]
  /\ Goto(c, "reset_cmp_hi")
  /\ UNCHANGED <<arg, seen, ctrl, alarm, quiet>>

(* A deviation: mtimecmp becomes u32::MAX. *)
ResetCmpHiZero(c) ==
  /\ At(c, "reset_cmp_hi")
  /\ WriteCmp([mtimecmp EXCEPT !.hi = 0])
  /\ quiet' = (clean[c] /\ Alone(c))
  /\ Return(c)
  /\ UNCHANGED alarm

ResetCmpHi(c) ==
  /\ At(c, "reset_cmp_hi")
  /\ WriteCmp([mtimecmp EXCEPT !.hi = MaxWord])
  /\ quiet' = (clean[c] /\ Alone(c))
  /\ Return(c)
  /\ UNCHANGED alarm

(* enable and disable: read the control word, write it back with bit 0     *)
(* set or cleared.  enable_with_prescaler: one write of both fields.       *)

CtrlRead(c) ==
  /\ At(c, "ctrl_read")
  /\ ctrl' = [ctrl EXCEPT ![c] = prescaler]
  /\ CountCycle
  /\ alarm' = Aged
  /\ Goto(c, "ctrl_write")
  /\ UNCHANGED <<arg, seen, from, quiet>>

(* Two deviations: the other field is overwritten; the bit is not set. *)
CtrlWriteWord(c) ==
  /\ At(c, "ctrl_write")
  /\ WriteCtrl(op[c] # "disable", 0)
  /\ Return(c)
  /\ UNCHANGED <<alarm, quiet>>

CtrlWriteBack(c) ==
  /\ At(c, "ctrl_write")
  /\ WriteCtrl(enable /\ op[c] # "disable", ctrl[c])
  /\ Return(c)
  /\ UNCHANGED <<alarm, quiet>>

CtrlWrite(c) ==
  /\ At(c, "ctrl_write")
  /\ WriteCtrl(op[c] # "disable", ctrl[c])
  /\ Return(c)
  /\ UNCHANGED <<alarm, quiet>>

CtrlSet(c) ==
  /\ At(c, "ctrl_set")
  /\ WriteCtrl(TRUE, ctrl[c])
  /\ Return(c)
  /\ UNCHANGED <<alarm, quiet>>

(* counter and the first half of OneShot::start: high word, low word. *)

TimeReadHi(c) ==
  /\ At(c, "time_hi")
  /\ seen' = [seen EXCEPT ![c].hi = mtime.hi]
  /\ from' = [from EXCEPT ![c] = mtime]
  /\ CountCycle
  /\ alarm' = Aged
  /\ Goto(c, "time_lo")
  /\ UNCHANGED <<arg, ctrl, quiet>>

(* What counter() returns when its low-word read sees the current mtime. *)
Reading(c) == [hi |-> seen[c].hi, lo |-> mtime.lo]

TimeReadLo(c) ==
  /\ At(c, "time_lo")
  /\ CountCycle
  /\ UNCHANGED quiet
  /\ \/ /\ op[c] = "counter"
        /\ alarm' = Aged
        /\ Return(c)
     \/ /\ op[c] = "start"
        /\ arg' = [arg EXCEPT ![c] = Plus(Reading(c), arg[c].lo)]
        /\ alarm' = SetAlarm(c)
        /\ Goto(c, "cmp_lo_max")
        /\ UNCHANGED <<seen, ctrl, from>>

(* cmp: high word, low word. *)

CmpReadHi(c) ==
  /\ At(c, "cmp_read_hi")
  /\ seen' = [seen EXCEPT ![c].hi = mtimecmp.hi]
  /\ from' = [from EXCEPT ![c] = mtimecmp]
  /\ CountCycle
  /\ alarm' = Aged
  /\ Goto(c, "cmp_read_lo")
  /\ UNCHANGED <<arg, ctrl, quiet>>

CmpReadLo(c) ==
  /\ At(c, "cmp_read_lo")
  /\ CountCycle
  /\ alarm' = Aged
  /\ Return(c)
  /\ UNCHANGED quiet

-----------------------------------------------------------------------------
(* A cycle of the peripheral clock in which no access completes. *)
Cycle ==
  /\ CountCycle
  /\ alarm' = Aged
  /\ UNCHANGED <<op, pc, arg, seen, ctrl, from, clean, quiet>>

Access(c) ==
  \/ CmpLoMax(c) \/ CmpHi(c) \/ CmpLo(c)
  \/ TimeSetLo(c) \/ TimeSetHi(c) \/ TimeOnlyLo(c)
  \/ ResetCtrl(c) \/ ResetTimeLo(c) \/ ResetTimeHi(c)
  \/ ResetCmpLo(c) \/ ResetCmpHi(c)
  \/ CtrlRead(c) \/ CtrlWrite(c) \/ CtrlSet(c)
  \/ TimeReadHi(c) \/ TimeReadLo(c)
  \/ CmpReadHi(c) \/ CmpReadLo(c)

Next ==
  \/ Cycle
  \/ \E c \in Contexts : BeginCall(c) \/ Access(c)

Spec == Init /\ [][Next]_vars

(* The peripheral clock is never gated, and a core that is executing a     *)
(* driver call goes on to its next access.                                 *)
Fairness == WF_vars(Cycle) /\ \A c \in Contexts : WF_vars(Access(c))

FairSpec == Spec /\ Fairness

-----------------------------------------------------------------------------
(* Properties. *)

InSetCmp(c) == pc[c] \in {"cmp_hi", "cmp_lo"}

(* set_cmp raises no interrupt of its own: half-way through, the line is   *)
(* high only if the count has reached the deadline being replaced or the   *)
(* one being installed (mtimer.rs: the low word is set to all ones first). *)
SetCmpNoSpurious ==
  \A c \in Contexts :
    InSetCmp(c) /\ clean[c] /\ Irq =>
      Geq(mtime, from[c]) \/ Geq(mtime, arg[c])

(* After reset() nothing interrupts, whatever is enabled later, before     *)
(* the count reaches all ones or a deadline is set.                        *)
ResetIsQuiet == quiet /\ Irq => mtime = MaxDouble

(* OneShot::start never interrupts before its duration has passed on the   *)
(* timer, counted from the read of the count's low word.                   *)
OneShotNotEarly == alarm.state = "live" /\ Irq => alarm.age >= alarm.dur

(* set_counter on a stopped timer that nobody else touches installs        *)
(* exactly its argument: the two halves belong to one value.               *)
SetCounterLands ==
  [][\A c \in Contexts :
       TimeSetHi(c) /\ clean[c] /\ ~enable => mtime' = arg[c]]_vars

(* enable() and disable() leave the prescaler as it was, unless a handler  *)
(* used the driver between their read and their write.                     *)
EnableKeepsPrescaler ==
  [][\A c \in Contexts : CtrlWrite(c) /\ clean[c] => prescaler' = prescaler]_vars

(* A counter() call nobody interrupts returns a count the timer held       *)
(* between the call's two reads.                                           *)
CounterInWindow ==
  [][\A c \in Contexts :
       TimeReadLo(c) /\ clean[c] =>
         /\ Geq(Reading(c), from[c]) \/ ~Geq(mtime, from[c])
         /\ Geq(mtime, Reading(c)) \/ ~Geq(mtime, from[c])]_vars

(* A live OneShot interrupts, unless another call reschedules the timer. *)
OneShotFires == alarm.state = "live" ~> (Irq \/ alarm.state # "live")
=============================================================================
