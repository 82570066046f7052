----------------------------- MODULE MTimerProofs -----------------------------
(***************************************************************************)
(* Safety of the timer driver for every word size, every prescaler range,  *)
(* every depth of preemption and every argument: type correctness, and     *)
(* what the words written so far guarantee to the rest of a call.  And the *)
(* refinement of AlarmClock, where there is one caller.                    *)
(***************************************************************************)
EXTENDS MTimerAlarm, TLAPS

LEMMA WordFacts ==
  /\ Zero \in Doubles
  /\ MaxDouble \in Doubles
  /\ MaxWord \in Words
  /\ 0 \in Words
  /\ \A d \in Doubles : d.hi \in Words /\ d.lo \in Words
  /\ \A d \in Doubles, w \in Words :
       [d EXCEPT !.lo = w] \in Doubles /\ [d EXCEPT !.hi = w] \in Doubles
  BY BaseAssumption
  DEF BaseAssumption, Zero, MaxDouble, MaxWord, Words, Doubles

LEMMA IncrementType == \A d \in Doubles : Increment(d) \in Doubles
  BY BaseAssumption
  DEF BaseAssumption, Increment, Successor, Doubles, Words, MaxWord

LEMMA PlusType ==
  \A d \in Doubles, w \in Words : Plus(d, w) \in Doubles
  BY BaseAssumption
  DEF BaseAssumption, Plus, Successor, Doubles, Words, MaxWord

LEMMA CountCycleType ==
  ASSUME TimerTypeOK, CountCycle PROVE TimerTypeOK'
  <1>1. mtime' \in Doubles
    BY IncrementType DEF TimerTypeOK, CountCycle, Counted
  <1>2. counter' \in Prescalers
    BY PrescalerAssumption
    DEF PrescalerAssumption, TimerTypeOK, CountCycle, Successor, Prescalers
  <1> QED BY <1>1, <1>2 DEF TimerTypeOK, CountCycle

LEMMA WriteTimeType ==
  ASSUME TimerTypeOK, NEW v \in Doubles, WriteTime(v) PROVE TimerTypeOK'
  BY PrescalerAssumption
  DEF PrescalerAssumption, TimerTypeOK, WriteTime, Prescalers

LEMMA WriteCmpType ==
  ASSUME TimerTypeOK, NEW v \in Doubles, WriteCmp(v) PROVE TimerTypeOK'
  BY PrescalerAssumption
  DEF PrescalerAssumption, TimerTypeOK, WriteCmp, Prescalers

LEMMA WriteCtrlType ==
  ASSUME TimerTypeOK, NEW en \in BOOLEAN, NEW pre \in Prescalers,
         WriteCtrl(en, pre)
  PROVE  TimerTypeOK'
  <1>1. enable' \in BOOLEAN BY DEF WriteCtrl
  <1>2. counter' \in Prescalers
    BY PrescalerAssumption DEF PrescalerAssumption, WriteCtrl, Prescalers
  <1> QED BY <1>1, <1>2 DEF TimerTypeOK, WriteCtrl

LEMMA AgedType == ASSUME TypeOK PROVE Aged \in Alarms
  BY BaseAssumption DEF BaseAssumption, TypeOK, Aged, Alarms

LEMMA SetAlarmType ==
  ASSUME TypeOK, NEW c \in Contexts PROVE SetAlarm(c) \in Alarms
  BY BaseAssumption, WordFacts
  DEF BaseAssumption, TypeOK, SetAlarm, Alarms, NoAlarm, Words

LEMMA FirstAccessType == \A o \in Ops : FirstAccess[o] \in Accesses
  BY DEF Ops, FirstAccess, Accesses

LEMMA GotoType ==
  ASSUME TypeOK, NEW c \in Contexts, NEW a \in Accesses, Goto(c, a)
  PROVE  /\ op' \in [Contexts -> Ops \cup {"none"}]
         /\ pc' \in [Contexts -> Accesses \cup {"idle"}]
         /\ clean' \in [Contexts -> BOOLEAN]
  BY DEF TypeOK, Goto

LEMMA ReturnType ==
  ASSUME TypeOK, NEW c \in Contexts, Return(c)
  PROVE  /\ op' \in [Contexts -> Ops \cup {"none"}]
         /\ pc' \in [Contexts -> Accesses \cup {"idle"}]
         /\ arg' \in [Contexts -> Doubles]
         /\ seen' \in [Contexts -> Doubles]
         /\ ctrl' \in [Contexts -> Prescalers]
         /\ from' \in [Contexts -> Doubles]
         /\ clean' \in [Contexts -> BOOLEAN]
  <1>1. 0 \in Prescalers
    BY PrescalerAssumption DEF PrescalerAssumption, Prescalers
  <1>2. clean' \in [Contexts -> BOOLEAN] BY DEF TypeOK, Return
  <1> QED BY <1>1, <1>2, WordFacts DEF TypeOK, Return

LEMMA BeginType ==
  ASSUME TypeOK, NEW c \in Contexts, NEW o \in Ops, NEW a \in Doubles,
         NEW p \in Prescalers, Begin(c, o, a, p)
  PROVE  TypeOK'
  <1>1. TimerTypeOK' BY DEF TypeOK, Begin, TimerTypeOK, timerVars
  <1>2. alarm' \in Alarms
    BY WordFacts, BaseAssumption
    DEF BaseAssumption, TypeOK, Begin, NoAlarm, Alarms
  <1>3. /\ op' \in [Contexts -> Ops \cup {"none"}]
        /\ pc' \in [Contexts -> Accesses \cup {"idle"}]
    BY FirstAccessType DEF TypeOK, Begin
  <1>4. /\ arg' \in [Contexts -> Doubles]
        /\ seen' \in [Contexts -> Doubles]
        /\ ctrl' \in [Contexts -> Prescalers]
        /\ from' \in [Contexts -> Doubles]
    BY DEF TypeOK, Begin
  <1>5. clean' \in [Contexts -> BOOLEAN] BY Zenon DEF Begin
  <1>6. quiet' \in BOOLEAN BY Zenon DEF Begin
  <1> QED BY <1>1, <1>2, <1>3, <1>4, <1>5, <1>6 DEF TypeOK

(* Every argument a caller passes has the type of the register it is for. *)
LEMMA BeginCallCases ==
  ASSUME NEW c \in Contexts, BeginCall(c)
  PROVE  \E o \in Ops, a \in Doubles, p \in Prescalers : Begin(c, o, a, p)
  <1>1. /\ 0 \in Prescalers
        /\ \A d \in Words : [hi |-> 0, lo |-> d] \in Doubles
    BY PrescalerAssumption, WordFacts
    DEF PrescalerAssumption, Prescalers, Doubles
  <1> QED
    BY <1>1, WordFacts, DriverAssumption
    DEF DriverAssumption, BeginCall, Ops

LEMMA CmpType ==
  ASSUME TypeOK, NEW c \in Contexts,
         CmpLoMax(c) \/ CmpHi(c) \/ CmpLo(c)
  PROVE  TypeOK'
  <1> USE WordFacts DEF Accesses
  <1>1. CASE CmpLoMax(c)
    <2>1. TimerTypeOK' BY <1>1, WriteCmpType DEF TypeOK, TimerTypeOK, CmpLoMax
    <2> QED BY <1>1, <2>1, GotoType DEF TypeOK, TimerTypeOK, CmpLoMax
  <1>2. CASE CmpHi(c)
    <2>1. TimerTypeOK' BY <1>2, WriteCmpType DEF TypeOK, TimerTypeOK, CmpHi
    <2> QED BY <1>2, <2>1, GotoType DEF TypeOK, CmpHi
  <1>3. CASE CmpLo(c)
    <2>1. TimerTypeOK' BY <1>3, WriteCmpType DEF TypeOK, TimerTypeOK, CmpLo
    <2>2. alarm' \in Alarms BY <1>3 DEF TypeOK, CmpLo, Alarms
    <2>3. CASE op[c] = "start"
      BY <1>3, <2>1, <2>2, <2>3, GotoType DEF TypeOK, CmpLo
    <2>4. CASE op[c] # "start"
      BY <1>3, <2>1, <2>2, <2>4, ReturnType DEF TypeOK, CmpLo
    <2> QED BY <2>3, <2>4
  <1> QED BY <1>1, <1>2, <1>3

LEMMA TimeType ==
  ASSUME TypeOK, NEW c \in Contexts,
         TimeSetLo(c) \/ TimeSetHi(c) \/ TimeOnlyLo(c)
  PROVE  TypeOK'
  <1> USE WordFacts DEF Accesses
  <1>1. CASE TimeSetLo(c)
    <2>1. TimerTypeOK' BY <1>1, WriteTimeType DEF TypeOK, TimerTypeOK, TimeSetLo
    <2> QED BY <1>1, <2>1, GotoType DEF TypeOK, TimerTypeOK, TimeSetLo
  <1>2. CASE TimeSetHi(c)
    <2>1. TimerTypeOK' BY <1>2, WriteTimeType DEF TypeOK, TimerTypeOK, TimeSetHi
    <2> QED BY <1>2, <2>1, ReturnType DEF TypeOK, TimeSetHi
  <1>3. CASE TimeOnlyLo(c)
    <2>1. TimerTypeOK' BY <1>3, WriteTimeType DEF TypeOK, TimerTypeOK, TimeOnlyLo
    <2> QED BY <1>3, <2>1, ReturnType DEF TypeOK, TimeOnlyLo
  <1> QED BY <1>1, <1>2, <1>3

LEMMA ResetType ==
  ASSUME TypeOK, NEW c \in Contexts,
         \/ ResetCtrl(c) \/ ResetTimeLo(c) \/ ResetTimeHi(c)
         \/ ResetCmpLo(c) \/ ResetCmpHi(c)
  PROVE  TypeOK'
  <1> USE WordFacts DEF Accesses
  <1>1. CASE ResetCtrl(c)
    <2>1. 0 \in Prescalers
      BY PrescalerAssumption DEF PrescalerAssumption, Prescalers
    <2>2. TimerTypeOK' BY <1>1, <2>1, WriteCtrlType DEF TypeOK, ResetCtrl
    <2> QED BY <1>1, <2>2, GotoType DEF TypeOK, ResetCtrl
  <1>2. CASE ResetTimeLo(c)
    <2>1. TimerTypeOK' BY <1>2, WriteTimeType DEF TypeOK, TimerTypeOK, ResetTimeLo
    <2> QED BY <1>2, <2>1, GotoType DEF TypeOK, ResetTimeLo
  <1>3. CASE ResetTimeHi(c)
    <2>1. TimerTypeOK' BY <1>3, WriteTimeType DEF TypeOK, TimerTypeOK, ResetTimeHi
    <2> QED BY <1>3, <2>1, GotoType DEF TypeOK, ResetTimeHi
  <1>4. CASE ResetCmpLo(c)
    <2>1. TimerTypeOK' BY <1>4, WriteCmpType DEF TypeOK, TimerTypeOK, ResetCmpLo
    <2> QED BY <1>4, <2>1, GotoType DEF TypeOK, TimerTypeOK, ResetCmpLo
  <1>5. CASE ResetCmpHi(c)
    <2>1. TimerTypeOK' BY <1>5, WriteCmpType DEF TypeOK, TimerTypeOK, ResetCmpHi
    <2>2. quiet' \in BOOLEAN BY <1>5, Zenon DEF ResetCmpHi
    <2> QED BY <1>5, <2>1, <2>2, ReturnType DEF TypeOK, ResetCmpHi
  <1> QED BY <1>1, <1>2, <1>3, <1>4, <1>5

LEMMA CtrlType ==
  ASSUME TypeOK, NEW c \in Contexts, CtrlRead(c) \/ CtrlWrite(c) \/ CtrlSet(c)
  PROVE  TypeOK'
  <1> USE DEF Accesses
  <1>1. CASE CtrlRead(c)
    <2>1. TimerTypeOK' BY <1>1, CountCycleType DEF TypeOK, CtrlRead
    <2> QED BY <1>1, <2>1, AgedType, GotoType DEF TypeOK, TimerTypeOK, CtrlRead
  <1>2. CASE CtrlWrite(c)
    <2>1. ctrl[c] \in Prescalers /\ (op[c] # "disable") \in BOOLEAN
      BY DEF TypeOK
    <2>2. TimerTypeOK' BY <1>2, <2>1, WriteCtrlType DEF TypeOK, CtrlWrite
    <2> QED BY <1>2, <2>2, ReturnType DEF TypeOK, CtrlWrite
  <1>3. CASE CtrlSet(c)
    <2>1. TimerTypeOK' BY <1>3, WriteCtrlType DEF TypeOK, CtrlSet
    <2> QED BY <1>3, <2>1, ReturnType DEF TypeOK, CtrlSet
  <1> QED BY <1>1, <1>2, <1>3

LEMMA ReadType ==
  ASSUME TypeOK, NEW c \in Contexts,
         TimeReadHi(c) \/ TimeReadLo(c) \/ CmpReadHi(c) \/ CmpReadLo(c)
  PROVE  TypeOK'
  <1> USE AgedType, CountCycleType, WordFacts DEF Accesses
  <1>1. TimerTypeOK'
    BY DEF TypeOK, TimeReadHi, TimeReadLo, CmpReadHi, CmpReadLo
  <1>2. CASE TimeReadHi(c)
    BY <1>1, <1>2, GotoType DEF TypeOK, TimerTypeOK, TimeReadHi
  <1>3. CASE TimeReadLo(c)
    <2>1. CASE op[c] = "counter"
      BY <1>1, <1>3, <2>1, ReturnType DEF TypeOK, TimeReadLo
    <2>2. CASE op[c] = "start"
      <3>1. Reading(c) \in Doubles /\ arg[c].lo \in Words
        BY DEF TypeOK, TimerTypeOK, Reading, Doubles
      <3>2. Plus(Reading(c), arg[c].lo) \in Doubles
        BY <3>1, PlusType
      <3>3. arg' = [arg EXCEPT ![c] = Plus(Reading(c), arg[c].lo)]
        BY <1>3, <2>2 DEF TimeReadLo
      <3>4. arg' \in [Contexts -> Doubles]
        BY <3>2, <3>3 DEF TypeOK
      <3> QED
        BY <1>1, <1>3, <2>2, <3>4, SetAlarmType, GotoType DEF TypeOK, TimeReadLo
    <2> QED BY <1>3, <2>1, <2>2 DEF TimeReadLo
  <1>4. CASE CmpReadHi(c)
    BY <1>1, <1>4, GotoType DEF TypeOK, TimerTypeOK, CmpReadHi
  <1>5. CASE CmpReadLo(c)
    BY <1>1, <1>5, ReturnType DEF TypeOK, CmpReadLo
  <1> QED BY <1>2, <1>3, <1>4, <1>5

LEMMA TypeStep == ASSUME TypeOK, [Next]_vars PROVE TypeOK'
  <1>1. CASE Cycle
    BY <1>1, CountCycleType, AgedType DEF TypeOK, Cycle
  <1>2. ASSUME NEW c \in Contexts, BeginCall(c) PROVE TypeOK'
    BY <1>2, BeginCallCases, BeginType
  <1>3. ASSUME NEW c \in Contexts, Access(c) PROVE TypeOK'
    BY <1>3, CmpType, TimeType, ResetType, CtrlType, ReadType DEF Access
  <1>4. CASE UNCHANGED vars
    BY <1>4 DEF TypeOK, TimerTypeOK, vars, timerVars, driverVars
  <1> QED BY <1>1, <1>2, <1>3, <1>4 DEF Next

LEMMA TypeInit == Init => TypeOK
  <1>1. 0 \in Prescalers
    BY PrescalerAssumption DEF PrescalerAssumption, Prescalers
  <1>2. NoAlarm \in Alarms
    BY WordFacts, BaseAssumption DEF BaseAssumption, NoAlarm, Alarms
  <1> SUFFICES ASSUME Init PROVE TypeOK
    OBVIOUS
  <1>3. TimerTypeOK
    BY <1>1, WordFacts DEF Init, TimerInit, TimerTypeOK
  <1>4. clean \in [Contexts -> BOOLEAN] /\ quiet \in BOOLEAN
    BY DEF Init
  <1>5. /\ op \in [Contexts -> Ops \cup {"none"}]
        /\ pc \in [Contexts -> Accesses \cup {"idle"}]
    BY DEF Init
  <1>6. /\ arg \in [Contexts -> Doubles]
        /\ seen \in [Contexts -> Doubles]
        /\ ctrl \in [Contexts -> Prescalers]
        /\ from \in [Contexts -> Doubles]
    BY <1>1, WordFacts DEF Init
  <1> QED BY <1>2, <1>3, <1>4, <1>5, <1>6 DEF Init, TypeOK

(* Every register and every driver variable keeps its type: in particular  *)
(* no sum in the counting logic or in OneShot::start leaves its width.     *)
THEOREM TypeCorrect == Spec => []TypeOK
  <1> QED BY TypeInit, TypeStep, PTL DEF Spec

-----------------------------------------------------------------------------
(* The prescaler. *)

(* Each step of the driver is one cycle of the peripheral, or none. *)
TimerStep ==
  \/ CountCycle
  \/ \E v \in Doubles : WriteTime(v) \/ WriteCmp(v)
  \/ \E en \in BOOLEAN, pre \in Prescalers : WriteCtrl(en, pre)
  \/ UNCHANGED timerVars

LEMMA TimerSteps == ASSUME TypeOK, [Next]_vars PROVE TimerStep
  <1> USE WordFacts
  <1>1. CASE Cycle \/ UNCHANGED vars
    BY <1>1 DEF Cycle, vars, TimerStep
  <1>2. ASSUME NEW c \in Contexts, BeginCall(c) PROVE TimerStep
    BY <1>2, BeginCallCases DEF Begin, TimerStep
  <1>3. ASSUME NEW c \in Contexts, Access(c) PROVE TimerStep
    <2>1. CASE CmpLoMax(c) \/ CmpHi(c) \/ CmpLo(c)
      BY <1>3, <2>1 DEF TypeOK, TimerTypeOK, CmpLoMax, CmpHi, CmpLo, TimerStep
    <2>2. CASE TimeSetLo(c) \/ TimeSetHi(c) \/ TimeOnlyLo(c)
      BY <1>3, <2>2
      DEF TypeOK, TimerTypeOK, TimeSetLo, TimeSetHi, TimeOnlyLo, TimerStep
    <2>3. CASE ResetTimeLo(c) \/ ResetTimeHi(c)
      BY <1>3, <2>3 DEF TypeOK, TimerTypeOK, ResetTimeLo, ResetTimeHi, TimerStep
    <2>4. CASE ResetCmpLo(c) \/ ResetCmpHi(c)
      BY <1>3, <2>4 DEF TypeOK, TimerTypeOK, ResetCmpLo, ResetCmpHi, TimerStep
    <2>5. CASE ResetCtrl(c)
      <3>1. 0 \in Prescalers
        BY PrescalerAssumption DEF PrescalerAssumption, Prescalers
      <3> QED BY <2>5, <3>1 DEF ResetCtrl, TimerStep
    <2>6. CASE CtrlWrite(c) \/ CtrlSet(c)
      <3>1. ctrl[c] \in Prescalers /\ (op[c] # "disable") \in BOOLEAN
        BY DEF TypeOK
      <3> QED BY <2>6, <3>1 DEF CtrlWrite, CtrlSet, TimerStep
    <2>7. CASE CtrlRead(c) \/ TimeReadHi(c) \/ TimeReadLo(c)
               \/ CmpReadHi(c) \/ CmpReadLo(c)
      BY <2>7
      DEF CtrlRead, TimeReadHi, TimeReadLo, CmpReadHi, CmpReadLo, TimerStep
    <2> QED BY <1>3, <2>1, <2>2, <2>3, <2>4, <2>5, <2>6, <2>7 DEF Access
  <1> QED BY <1>1, <1>2, <1>3 DEF Next

LEMMA PrescaleStep ==
  ASSUME TypeOK, PrescaleBounded, [Next]_vars PROVE PrescaleBounded'
  <1> USE PrescalerAssumption
      DEF PrescalerAssumption, TypeOK, TimerTypeOK, PrescaleBounded, Prescalers
  <1>1. TimerStep BY TimerSteps
  <1>2. CASE CountCycle BY <1>2 DEF CountCycle, Successor
  <1>3. CASE \E v \in Doubles : WriteTime(v) \/ WriteCmp(v)
    BY <1>3 DEF WriteTime, WriteCmp
  <1>4. CASE \E en \in BOOLEAN, pre \in Prescalers : WriteCtrl(en, pre)
    BY <1>4 DEF WriteCtrl
  <1>5. CASE UNCHANGED timerVars
    BY <1>5 DEF timerVars
  <1> QED BY <1>1, <1>2, <1>3, <1>4, <1>5 DEF TimerStep

(* The prescale counter never exceeds the prescaler: a write of a smaller  *)
(* prescaler cannot leave the counter beyond the value that restarts it.   *)
THEOREM PrescaleCorrect == Spec => []PrescaleBounded
  <1>1. Init => PrescaleBounded
    BY DEF Init, TimerInit, PrescaleBounded
  <1> QED BY <1>1, PrescaleStep, TypeCorrect, PTL DEF Spec

-----------------------------------------------------------------------------
(* The inductive invariant. *)

(* What the accesses made so far have put into the registers. *)
Holds(c) ==
  /\ pc[c] = "cmp_hi" => mtimecmp = [hi |-> from[c].hi, lo |-> MaxWord]
  /\ pc[c] = "cmp_lo" => mtimecmp = [hi |-> arg[c].hi, lo |-> MaxWord]
  /\ pc[c] = "reset_cmp_hi" => mtimecmp.lo = MaxWord
  /\ pc[c] = "time_set_hi" /\ ~enable => mtime.lo = arg[c].lo
  /\ pc[c] = "ctrl_write" => ctrl[c] = prescaler

(* It is still there unless another context has used the driver since. *)
Established == \A c \in Contexts : clean[c] => Holds(c)

(* A call that is under way and undisturbed has no call nested in it. *)
Exclusive ==
  \A c, d \in Contexts :
    pc[c] # "idle" /\ clean[c] /\ d > c => pc[d] = "idle"

(* The accesses that write mtimecmp belong to calls that schedule or reset. *)
Matches ==
  \A c \in Contexts :
    /\ pc[c] = "idle" => op[c] = "none"
    /\ pc[c] \in {"time_hi", "time_lo"} => op[c] \in {"counter", "start"}
    /\ pc[c] \in {"cmp_lo_max", "cmp_hi", "cmp_lo"} =>
         op[c] \in {"set_cmp", "start"}
    /\ pc[c] \in {"reset_ctrl", "reset_time_lo", "reset_time_hi",
                  "reset_cmp_lo", "reset_cmp_hi"} => op[c] = "reset"

Schedulers == {"set_cmp", "start", "reset"}

StaysQuiet ==
  quiet => mtimecmp = MaxDouble /\ \A c \in Contexts : op[c] \notin Schedulers

DriverInv ==
  /\ TypeOK
  /\ Established
  /\ Exclusive
  /\ Matches
  /\ StaysQuiet

LEMMA Order ==
  \A c, d \in Contexts : c # d <=> c > d \/ d > c
  BY DriverAssumption DEF DriverAssumption, Contexts

(* Whatever another context was doing when c runs is idle or disturbed. *)
LEMMA Others ==
  ASSUME Exclusive, NEW c \in Contexts, pc[c] # "idle", Runs(c)
  PROVE  \A d \in Contexts \ {c} : pc[d] = "idle" \/ ~clean[d]
  BY Order DEF Exclusive, Runs

(* An access has to establish only what its own context goes on to rely on. *)
LEMMA Frame ==
  ASSUME TypeOK, Established, Exclusive, NEW c \in Contexts,
         pc[c] # "idle", Runs(c),
         Return(c) \/ (\E a \in Accesses : Goto(c, a) /\ (clean[c] => Holds(c)'))
  PROVE  Established' /\ Exclusive'
  <1>1. \A d \in Contexts \ {c} :
          pc'[d] = pc[d] /\ clean'[d] = clean[d]
    BY DEF TypeOK, Return, Goto
  <1>2. \A d \in Contexts \ {c} : pc'[d] = "idle" \/ ~clean'[d]
    BY <1>1, Others
  <1>3. \A d \in Contexts \ {c} : clean'[d] => Holds(d)'
    BY <1>2 DEF Holds
  <1>4. CASE Return(c)
    <2>1. pc'[c] = "idle" BY <1>4 DEF TypeOK, Return
    <2>2. Holds(c)' BY <2>1 DEF Holds
    <2>3. Established' BY <1>3, <2>2 DEF Established
    <2>4. Exclusive' BY <1>2, <2>1 DEF Exclusive
    <2> QED BY <2>3, <2>4
  <1>5. ASSUME NEW a \in Accesses, Goto(c, a), clean[c] => Holds(c)'
        PROVE  Established' /\ Exclusive'
    <2>1. clean'[c] = clean[c] BY <1>5 DEF Goto
    <2>2. Established' BY <1>3, <1>5, <2>1 DEF Established
    <2>3. Exclusive' BY <1>1, <1>2 DEF Exclusive, Runs
    <2> QED BY <2>2, <2>3
  <1> QED BY <1>4, <1>5

LEMMA MatchesGoto ==
  ASSUME TypeOK, Matches, NEW c \in Contexts, NEW a \in Accesses, Goto(c, a),
         a \in {"time_hi", "time_lo"} => op[c] \in {"counter", "start"},
         a \in {"cmp_lo_max", "cmp_hi", "cmp_lo"} => op[c] \in {"set_cmp", "start"},
         a \in {"reset_ctrl", "reset_time_lo", "reset_time_hi",
                "reset_cmp_lo", "reset_cmp_hi"} => op[c] = "reset"
  PROVE  Matches'
  <1>1. op' = op /\ pc' = [pc EXCEPT ![c] = a] BY DEF Goto
  <1>2. a # "idle" BY DEF Accesses
  <1> QED BY <1>1, <1>2 DEF TypeOK, Matches

LEMMA MatchesReturn ==
  ASSUME TypeOK, Matches, NEW c \in Contexts, Return(c)
  PROVE  Matches'
  BY DEF TypeOK, Matches, Return

(* The end of a call makes no context a scheduler. *)
LEMMA QuietFrame ==
  ASSUME TypeOK, StaysQuiet, NEW c \in Contexts,
         Return(c) \/ UNCHANGED op, quiet' = quiet, mtimecmp' = mtimecmp
  PROVE  StaysQuiet'
  <1>1. \A d \in Contexts : op'[d] = op[d] \/ op'[d] = "none"
    BY DEF TypeOK, Return
  <1> QED BY <1>1 DEF StaysQuiet, Schedulers

LEMMA BeginInv ==
  ASSUME DriverInv, NEW c \in Contexts, NEW o \in Ops, NEW a \in Doubles,
         NEW p \in Prescalers, Begin(c, o, a, p)
  PROVE  DriverInv'
  <1> USE DEF DriverInv
  <1>1. TypeOK' BY BeginType
  <1>2. /\ pc[c] = "idle" /\ Runs(c)
        /\ pc' = [pc EXCEPT ![c] = FirstAccess[o]]
        /\ op' = [op EXCEPT ![c] = o]
        /\ clean' = [d \in Contexts |-> d = c \/ pc[d] = "idle"]
        /\ UNCHANGED timerVars
    BY DEF Begin
  <1>3. \A d \in Contexts \ {c} :
          pc'[d] = pc[d] /\ op'[d] = op[d] /\ (clean'[d] => pc'[d] = "idle")
    BY <1>2 DEF TypeOK
  <1>4. pc'[c] = FirstAccess[o] /\ op'[c] = o
    BY <1>2 DEF TypeOK
  <1>5. FirstAccess[o] \notin
          {"idle", "cmp_hi", "cmp_lo", "reset_cmp_hi", "time_set_hi", "ctrl_write"}
    BY DEF Ops, FirstAccess
  <1>6. Established' BY <1>3, <1>4, <1>5 DEF Established, Holds
  <1>7. Exclusive' BY Order, <1>2, <1>3 DEF Exclusive, Runs
  <1>8. Matches'
    <2>1. /\ FirstAccess[o] \in {"time_hi", "time_lo"} => o \in {"counter", "start"}
          /\ FirstAccess[o] \in {"cmp_lo_max", "cmp_hi", "cmp_lo"} =>
               o \in {"set_cmp", "start"}
          /\ FirstAccess[o] \in {"reset_ctrl", "reset_time_lo", "reset_time_hi",
                                 "reset_cmp_lo", "reset_cmp_hi"} => o = "reset"
      BY DEF Ops, FirstAccess
    <2> QED BY <1>3, <1>4, <1>5, <2>1 DEF Matches
  <1>9. StaysQuiet'
    <2>1. quiet' => quiet /\ o \notin Schedulers BY DEF Begin, Schedulers
    <2>2. mtimecmp' = mtimecmp BY <1>2 DEF timerVars
    <2> QED BY <1>3, <1>4, <2>1, <2>2 DEF StaysQuiet, MaxDouble
  <1> QED BY <1>1, <1>6, <1>7, <1>8, <1>9

LEMMA AccessCases ==
  ASSUME NEW c \in Contexts, Access(c)
  PROVE  pc[c] # "idle" /\ Runs(c)
  BY DEF Access, At, CmpLoMax, CmpHi, CmpLo, TimeSetLo, TimeSetHi, TimeOnlyLo,
         ResetCtrl, ResetTimeLo, ResetTimeHi, ResetCmpLo, ResetCmpHi,
         CtrlRead, CtrlWrite, CtrlSet, TimeReadHi, TimeReadLo,
         CmpReadHi, CmpReadLo

LEMMA CmpInv ==
  ASSUME DriverInv, NEW c \in Contexts, CmpLoMax(c) \/ CmpHi(c) \/ CmpLo(c)
  PROVE  DriverInv'
  <1> USE DEF DriverInv, At, WriteCmp, Accesses
  <1>1. TypeOK' /\ pc[c] # "idle" /\ Runs(c)
    BY CmpType DEF CmpLoMax, CmpHi, CmpLo
  <1>2. StaysQuiet'
    <2>1. ~quiet
      BY DEF StaysQuiet, Schedulers, Matches, CmpLoMax, CmpHi, CmpLo
    <2> QED BY <2>1 DEF StaysQuiet, CmpLoMax, CmpHi, CmpLo
  <1>3. CASE CmpLoMax(c)
    <2>1. pc'[c] = "cmp_hi" /\ from'[c] = mtimecmp
      BY <1>3 DEF TypeOK, CmpLoMax, Goto
    <2>2. mtimecmp' = [hi |-> mtimecmp.hi, lo |-> MaxWord]
      BY <1>3 DEF TypeOK, TimerTypeOK, Doubles, CmpLoMax
    <2>3. Holds(c)' BY <2>1, <2>2 DEF Holds, MaxWord
    <2>4. Goto(c, "cmp_hi") BY <1>3 DEF CmpLoMax
    <2>5. Established' /\ Exclusive' BY <1>1, <2>3, <2>4, Frame
    <2>6. Matches' BY <1>3, <2>4, MatchesGoto DEF CmpLoMax, Matches
    <2> QED BY <1>1, <1>2, <2>5, <2>6
  <1>4. CASE CmpHi(c)
    <2>1. pc'[c] = "cmp_lo" /\ arg' = arg
      BY <1>4 DEF TypeOK, CmpHi, Goto
    <2>2. clean[c] => mtimecmp' = [hi |-> arg[c].hi, lo |-> MaxWord]
      BY <1>4 DEF Established, Holds, CmpHi
    <2>3. clean[c] => Holds(c)' BY <2>1, <2>2 DEF Holds, MaxWord
    <2>4. Goto(c, "cmp_lo") BY <1>4 DEF CmpHi
    <2>5. Established' /\ Exclusive' BY <1>1, <2>3, <2>4, Frame
    <2>6. Matches' BY <1>4, <2>4, MatchesGoto DEF CmpHi, Matches
    <2> QED BY <1>1, <1>2, <2>5, <2>6
  <1>5. CASE CmpLo(c)
    <2>1. CASE op[c] = "start"
      <3>1. Goto(c, "ctrl_read") BY <1>5, <2>1 DEF CmpLo
      <3>2. Holds(c)' BY <3>1 DEF TypeOK, Goto, Holds
      <3>3. Established' /\ Exclusive' BY <1>1, <3>1, <3>2, Frame
      <3>4. Matches' BY <3>1, MatchesGoto
      <3> QED BY <1>1, <1>2, <3>3, <3>4
    <2>2. CASE op[c] # "start"
      <3>1. Return(c) BY <1>5, <2>2 DEF CmpLo
      <3>2. Established' /\ Exclusive' BY <1>1, <3>1, Frame
      <3> QED BY <1>1, <1>2, <3>1, <3>2, MatchesReturn
    <2> QED BY <2>1, <2>2
  <1> QED BY <1>3, <1>4, <1>5

LEMMA TimeInv ==
  ASSUME DriverInv, NEW c \in Contexts,
         TimeSetLo(c) \/ TimeSetHi(c) \/ TimeOnlyLo(c)
  PROVE  DriverInv'
  <1> USE DEF DriverInv, At, WriteTime, Accesses
  <1>1. TypeOK' /\ pc[c] # "idle" /\ Runs(c)
    BY TimeType DEF TimeSetLo, TimeSetHi, TimeOnlyLo
  <1>2. CASE TimeSetLo(c)
    <2>1. Goto(c, "time_set_hi") BY <1>2 DEF TimeSetLo
    <2>2. mtime'.lo = arg'[c].lo
      BY <1>2 DEF TypeOK, TimerTypeOK, Doubles, TimeSetLo
    <2>3. Holds(c)' BY <2>1, <2>2 DEF TypeOK, Goto, Holds
    <2>4. Established' /\ Exclusive' BY <1>1, <2>1, <2>3, Frame
    <2>5. Matches' BY <2>1, MatchesGoto
    <2>6. StaysQuiet' BY <1>2, QuietFrame DEF TimeSetLo, Goto
    <2> QED BY <1>1, <2>4, <2>5, <2>6
  <1>3. CASE TimeSetHi(c) \/ TimeOnlyLo(c)
    <2>1. Return(c) BY <1>3 DEF TimeSetHi, TimeOnlyLo
    <2>2. Established' /\ Exclusive' BY <1>1, <2>1, Frame
    <2>3. StaysQuiet' BY <1>3, <2>1, QuietFrame DEF TimeSetHi, TimeOnlyLo
    <2> QED BY <1>1, <2>1, <2>2, <2>3, MatchesReturn
  <1> QED BY <1>2, <1>3

LEMMA ResetInv ==
  ASSUME DriverInv, NEW c \in Contexts,
         \/ ResetCtrl(c) \/ ResetTimeLo(c) \/ ResetTimeHi(c)
         \/ ResetCmpLo(c) \/ ResetCmpHi(c)
  PROVE  DriverInv'
  <1> USE DEF DriverInv, At, WriteTime, WriteCmp, WriteCtrl, Accesses
  <1>1. TypeOK' /\ pc[c] # "idle" /\ Runs(c)
    BY ResetType
    DEF ResetCtrl, ResetTimeLo, ResetTimeHi, ResetCmpLo, ResetCmpHi
  <1>2. op[c] = "reset" /\ ~quiet
    BY DEF ResetCtrl, ResetTimeLo, ResetTimeHi, ResetCmpLo, ResetCmpHi,
           Matches, StaysQuiet, Schedulers
  <1>3. CASE ResetCtrl(c) \/ ResetTimeLo(c) \/ ResetTimeHi(c)
    <2>1. PICK a \in {"reset_time_lo", "reset_time_hi", "reset_cmp_lo"} : Goto(c, a)
      BY <1>3 DEF ResetCtrl, ResetTimeLo, ResetTimeHi
    <2>2. Holds(c)' BY <2>1 DEF TypeOK, Goto, Holds
    <2>3. a \in Accesses OBVIOUS
    <2>4. Established' /\ Exclusive' BY <1>1, <2>1, <2>2, <2>3, Frame
    <2>5. Matches' BY <1>2, <2>1, <2>3, MatchesGoto
    <2>6. StaysQuiet'
      BY <1>2, <1>3 DEF StaysQuiet, ResetCtrl, ResetTimeLo, ResetTimeHi
    <2> QED BY <1>1, <2>4, <2>5, <2>6
  <1>4. CASE ResetCmpLo(c)
    <2>1. Goto(c, "reset_cmp_hi") BY <1>4 DEF ResetCmpLo
    <2>2. mtimecmp'.lo = MaxWord
      BY <1>4 DEF TypeOK, TimerTypeOK, Doubles, ResetCmpLo
    <2>3. Holds(c)' BY <2>1, <2>2 DEF TypeOK, Goto, Holds, MaxWord
    <2>4. Established' /\ Exclusive' BY <1>1, <2>1, <2>3, Frame
    <2>5. Matches' BY <1>2, <2>1, MatchesGoto
    <2>6. StaysQuiet' BY <1>2, <1>4 DEF StaysQuiet, ResetCmpLo
    <2> QED BY <1>1, <2>4, <2>5, <2>6
  <1>5. CASE ResetCmpHi(c)
    <2>1. Return(c) BY <1>5 DEF ResetCmpHi
    <2>2. Established' /\ Exclusive' BY <1>1, <2>1, Frame
    <2>3. StaysQuiet'
      <3> SUFFICES ASSUME clean[c], Alone(c) PROVE StaysQuiet'
        BY <1>5 DEF StaysQuiet, ResetCmpHi
      <3>1. mtimecmp' = MaxDouble
        BY <1>5 DEF TypeOK, TimerTypeOK, Doubles, Established, Holds,
                    ResetCmpHi, MaxDouble
      <3>2. \A d \in Contexts : op'[d] = "none"
        BY <2>1 DEF TypeOK, Matches, Alone, Return
      <3> QED BY <3>1, <3>2 DEF StaysQuiet, Schedulers, MaxDouble, MaxWord
    <2> QED BY <1>1, <2>1, <2>2, <2>3, MatchesReturn
  <1> QED BY <1>3, <1>4, <1>5

LEMMA CtrlInv ==
  ASSUME DriverInv, NEW c \in Contexts, CtrlRead(c) \/ CtrlWrite(c) \/ CtrlSet(c)
  PROVE  DriverInv'
  <1> USE DEF DriverInv, At, WriteCtrl, CountCycle, Accesses
  <1>1. TypeOK' /\ pc[c] # "idle" /\ Runs(c)
    BY CtrlType DEF CtrlRead, CtrlWrite, CtrlSet
  <1>2. CASE CtrlRead(c)
    <2>1. Goto(c, "ctrl_write") BY <1>2 DEF CtrlRead
    <2>2. ctrl'[c] = prescaler' BY <1>2 DEF TypeOK, CtrlRead
    <2>3. Holds(c)' BY <2>1, <2>2 DEF TypeOK, Goto, Holds
    <2>4. Established' /\ Exclusive' BY <1>1, <2>1, <2>3, Frame
    <2>5. Matches' BY <2>1, MatchesGoto
    <2>6. StaysQuiet' BY <1>2, <2>1, QuietFrame DEF CtrlRead, Goto
    <2> QED BY <1>1, <2>4, <2>5, <2>6
  <1>3. CASE CtrlWrite(c) \/ CtrlSet(c)
    <2>1. Return(c) BY <1>3 DEF CtrlWrite, CtrlSet
    <2>2. Established' /\ Exclusive' BY <1>1, <2>1, Frame
    <2>3. StaysQuiet' BY <1>3, <2>1, QuietFrame DEF CtrlWrite, CtrlSet
    <2> QED BY <1>1, <2>1, <2>2, <2>3, MatchesReturn
  <1> QED BY <1>2, <1>3

LEMMA ReadInv ==
  ASSUME DriverInv, NEW c \in Contexts,
         TimeReadHi(c) \/ TimeReadLo(c) \/ CmpReadHi(c) \/ CmpReadLo(c)
  PROVE  DriverInv'
  <1> USE DEF DriverInv, At, Accesses
  <1>1. TypeOK' /\ pc[c] # "idle" /\ Runs(c)
    BY ReadType DEF TimeReadHi, TimeReadLo, CmpReadHi, CmpReadLo
  <1>2. quiet' = quiet /\ mtimecmp' = mtimecmp
    BY DEF TimeReadHi, TimeReadLo, CmpReadHi, CmpReadLo, CountCycle
  <1>3. CASE Return(c)
    <2>1. Established' /\ Exclusive' BY <1>1, <1>3, Frame
    <2>2. StaysQuiet' BY <1>2, <1>3, QuietFrame
    <2> QED BY <1>1, <1>3, <2>1, <2>2, MatchesReturn
  <1>4. CASE ~Return(c)
    <2>1. PICK a \in {"time_lo", "cmp_lo_max", "cmp_read_lo"} : Goto(c, a)
      BY <1>4 DEF TimeReadHi, TimeReadLo, CmpReadHi, CmpReadLo
    <2>2. /\ a = "time_lo" => op[c] \in {"counter", "start"}
          /\ a = "cmp_lo_max" => op[c] = "start"
      BY <1>4, <2>1
      DEF TypeOK, Matches, Goto, TimeReadHi, TimeReadLo, CmpReadHi, CmpReadLo
    <2>3. Holds(c)' BY <2>1 DEF TypeOK, Goto, Holds
    <2>4. Established' /\ Exclusive' BY <1>1, <2>1, <2>3, Frame
    <2>5. Matches' BY <2>1, <2>2, MatchesGoto
    <2>6. StaysQuiet' BY <1>2, <2>1, QuietFrame DEF Goto
    <2> QED BY <1>1, <2>4, <2>5, <2>6
  <1> QED BY <1>3, <1>4

LEMMA CycleInv == ASSUME DriverInv, Cycle PROVE DriverInv'
  <1>1. TypeOK' BY CountCycleType, AgedType DEF DriverInv, TypeOK, Cycle
  <1>2. UNCHANGED <<op, pc, arg, ctrl, from, clean, quiet,
                    mtimecmp, prescaler, enable>>
    BY DEF Cycle, CountCycle
  <1>3. ~enable => mtime' = mtime BY DEF Cycle, CountCycle, Counted
  <1>4. Established'
    BY <1>2, <1>3 DEF DriverInv, Established, Holds, MaxWord
  <1>5. Exclusive' /\ Matches' /\ StaysQuiet'
    BY <1>2 DEF DriverInv, Exclusive, Matches, StaysQuiet, MaxDouble
  <1> QED BY <1>1, <1>4, <1>5 DEF DriverInv

LEMMA DriverInvStep == ASSUME DriverInv, [Next]_vars PROVE DriverInv'
  <1>1. ASSUME NEW c \in Contexts, BeginCall(c) PROVE DriverInv'
    BY <1>1, BeginCallCases, BeginInv
  <1>2. ASSUME NEW c \in Contexts, Access(c) PROVE DriverInv'
    BY <1>2, CmpInv, TimeInv, ResetInv, CtrlInv, ReadInv DEF Access
  <1>3. CASE UNCHANGED vars
    BY <1>3, TypeStep
    DEF DriverInv, Established, Holds, Exclusive, Matches, StaysQuiet,
        MaxDouble, MaxWord, vars, timerVars, driverVars
  <1> QED BY <1>1, <1>2, <1>3, CycleInv DEF Next

LEMMA DriverInvInit == Init => DriverInv
  <1> SUFFICES ASSUME Init PROVE DriverInv
    OBVIOUS
  <1>1. \A c \in Contexts : pc[c] = "idle" /\ op[c] = "none" /\ ~quiet
    BY DEF Init
  <1> QED
    BY <1>1, TypeInit
    DEF Init, DriverInv, Established, Holds, Exclusive, Matches, StaysQuiet

LEMMA DriverInvariant == Spec => []DriverInv
  BY DriverInvInit, DriverInvStep, PTL DEF Spec

-----------------------------------------------------------------------------
(* The properties. *)

LEMMA InvNoSpurious == ASSUME DriverInv PROVE SetCmpNoSpurious
  <1> SUFFICES ASSUME NEW c \in Contexts, InSetCmp(c), clean[c], Irq
               PROVE  Geq(mtime, from[c]) \/ Geq(mtime, arg[c])
    BY DEF SetCmpNoSpurious
  <1> USE BaseAssumption
      DEF BaseAssumption, DriverInv, TypeOK, TimerTypeOK, Doubles, Words,
          Established, Holds, Irq, Geq, MaxWord
  <1>1. CASE pc[c] = "cmp_hi" BY <1>1
  <1>2. CASE pc[c] = "cmp_lo" BY <1>2
  <1> QED BY <1>1, <1>2 DEF InSetCmp

(* Between the writes of set_cmp the interrupt line is high only if the    *)
(* count has reached the old deadline or the new one.                      *)
THEOREM NoSpurious == Spec => []SetCmpNoSpurious
  BY DriverInvariant, InvNoSpurious, PTL

LEMMA InvResetQuiet == ASSUME DriverInv PROVE ResetIsQuiet
  BY BaseAssumption
  DEF BaseAssumption, DriverInv, TypeOK, TimerTypeOK, Doubles, Words,
      StaysQuiet, MaxDouble, MaxWord, Irq, Geq, ResetIsQuiet

(* Once reset() is done, no later sequence of calls raises the interrupt   *)
(* before a deadline is set or the count reaches all ones.                 *)
THEOREM ResetQuiet == Spec => []ResetIsQuiet
  BY DriverInvariant, InvResetQuiet, PTL

(* set_counter on a stopped timer never mixes the halves of two values.    *)
THEOREM CounterLands == Spec => SetCounterLands
  <1>1. ASSUME DriverInv, NEW c \in Contexts, TimeSetHi(c), clean[c], ~enable
        PROVE  mtime' = arg[c]
    BY <1>1
    DEF DriverInv, TypeOK, TimerTypeOK, Doubles, Established, Holds,
        TimeSetHi, At, WriteTime
  <1>2. DriverInv =>
          [\A c \in Contexts :
             TimeSetHi(c) /\ clean[c] /\ ~enable => mtime' = arg[c]]_vars
    BY <1>1
  <1> QED BY <1>2, DriverInvariant, PTL DEF Spec, SetCounterLands

(* The read-modify-write of enable() and disable() loses no prescaler      *)
(* setting unless a handler's own call falls between the two accesses.     *)
THEOREM PrescalerKept == Spec => EnableKeepsPrescaler
  <1>1. DriverInv =>
          [\A c \in Contexts :
             CtrlWrite(c) /\ clean[c] => prescaler' = prescaler]_vars
    BY DEF DriverInv, Established, Holds, CtrlWrite, At, WriteCtrl
  <1> QED BY <1>1, DriverInvariant, PTL DEF Spec, EnableKeepsPrescaler

-----------------------------------------------------------------------------
(* OneShot: the deadline stays ahead of the count by the rest of the       *)
(* duration.                                                               *)

(* A call is at one of its own accesses. *)
OwnAccesses ==
  \A c \in Contexts :
    /\ op[c] = "none" => pc[c] = "idle"
    /\ op[c] = "counter" => pc[c] \in {"time_hi", "time_lo"}
    /\ op[c] = "cmp" => pc[c] \in {"cmp_read_hi", "cmp_read_lo"}
    /\ op[c] = "start" => pc[c] \in {"time_hi", "time_lo", "cmp_lo_max",
                                     "cmp_hi", "cmp_lo", "ctrl_read", "ctrl_write"}

(* Deadline d is what remains of alarm a's duration after count m. *)
AheadOf(a, m, d) ==
  a.age < a.dur => ~Overflows(m, a.dur - a.age) /\ d = Plus(m, a.dur - a.age)

Ahead(d) == AheadOf(alarm, mtime, d)

(* Context c has computed the deadline and is installing it. *)
Installing(c) == op[c] = "start" /\ pc[c] \in {"cmp_lo_max", "cmp_hi", "cmp_lo"}

(* Nobody but the call that scheduled it writes to the timer. *)
OneScheduler ==
  /\ \A c \in Contexts : op[c] \in Readers \cup {"none", "start"}
  /\ \A c \in Contexts : op[c] = "start" => pc[c] \notin {"time_hi", "time_lo"}
  /\ \A c, d \in Contexts : op[c] = "start" /\ op[d] = "start" => c = d

DeadlineInForce ==
  /\ \A c \in Contexts : Installing(c) =>
       /\ Ahead(arg[c])
       /\ alarm.state = "live" => ~enable
       /\ pc[c] = "cmp_lo" => mtimecmp.hi = arg[c].hi
  /\ (\A c \in Contexts : ~Installing(c)) => Ahead(mtimecmp)

AlarmInv ==
  /\ OwnAccesses
  /\ alarm.state # "none" => OneScheduler /\ DeadlineInForce

(* One count nearer to a deadline r away. *)
LEMMA PlusLater ==
  ASSUME NEW m \in Doubles, NEW r \in Words, r > 0, ~Overflows(m, r)
  PROVE  ~Overflows(Increment(m), r - 1) /\ Plus(Increment(m), r - 1) = Plus(m, r)
<1>1. Base \in Nat /\ Base >= 2 /\ r \in Nat /\ r < Base
  BY BaseAssumption DEF BaseAssumption, Words
<1>2. PICK h \in Words, l \in Words : m = [hi |-> h, lo |-> l]
  BY DEF Doubles
<1>3. h \in Nat /\ l \in Nat /\ h <= MaxWord /\ l <= MaxWord /\ MaxWord = Base - 1
  BY <1>1, <1>2 DEF Words, MaxWord
<1>4. CASE l < MaxWord
  <2>1. Increment(m) = [hi |-> h, lo |-> l + 1]
    BY <1>2, <1>4 DEF Increment
  <2>2. l + 1 + (r - 1) = l + r
    BY <1>1, <1>3
  <2>3. ~Overflows(Increment(m), r - 1)
    BY <1>2, <2>1, <2>2 DEF Overflows
  <2>4. Plus(m, r) = IF l + r < Base THEN [hi |-> h, lo |-> l + r]
                     ELSE [hi |-> Successor(h, MaxWord), lo |-> l + r - Base]
    BY <1>2 DEF Plus
  <2>5. Plus(Increment(m), r - 1) =
          IF l + r < Base THEN [hi |-> h, lo |-> l + r]
          ELSE [hi |-> Successor(h, MaxWord), lo |-> l + r - Base]
    <3>1. PICK k, q, n : k = l + 1 /\ q = r - 1 /\ n = Increment(m)
      OBVIOUS
    <3>2. n = [hi |-> h, lo |-> k]
      BY <2>1, <3>1
    <3>3. Plus(n, q) = IF k + q < Base THEN [hi |-> h, lo |-> k + q]
                       ELSE [hi |-> Successor(h, MaxWord), lo |-> k + q - Base]
      BY <3>2 DEF Plus
    <3>4. k + q = l + r /\ k \in Int /\ q \in Int
      BY <1>1, <1>3, <2>2, <3>1
    <3>5. Plus(n, q) = IF l + r < Base THEN [hi |-> h, lo |-> l + r]
                       ELSE [hi |-> Successor(h, MaxWord), lo |-> l + r - Base]
      BY <1>1, <1>3, <3>3, <3>4
    <3> QED BY <3>1, <3>5
  <2> QED BY <2>3, <2>4, <2>5
<1>5. CASE l = MaxWord
  <2>1. l + r >= Base /\ ~(l + r < Base) /\ l + r - Base = r - 1
    BY <1>1, <1>3, <1>5
  <2>2. h # MaxWord
    BY <1>2, <2>1 DEF Overflows
  <2>3. Increment(m) = [hi |-> h + 1, lo |-> 0]
    BY <1>2, <1>3, <1>5, <2>2 DEF Increment, Successor
  <2>4. Plus(m, r) = [hi |-> h + 1, lo |-> r - 1]
    BY <1>2, <2>1, <2>2 DEF Plus, Successor
  <2>5. 0 + (r - 1) < Base /\ ~(0 + (r - 1) >= Base) /\ 0 + (r - 1) = r - 1
    BY <1>1
  <2>6. Plus(Increment(m), r - 1) = [hi |-> h + 1, lo |-> r - 1]
    BY <2>3, <2>5 DEF Plus
  <2>7. ~Overflows(Increment(m), r - 1)
    BY <2>3, <2>5 DEF Overflows
  <2> QED BY <2>4, <2>6, <2>7
<1> QED BY <1>3, <1>4, <1>5

LEMMA PlusAhead ==
  ASSUME NEW m \in Doubles, NEW r \in Words, r > 0, ~Overflows(m, r)
  PROVE  ~Geq(m, Plus(m, r))
<1>1. Base \in Nat /\ Base >= 2 /\ r \in Nat /\ r < Base
  BY BaseAssumption DEF BaseAssumption, Words
<1>2. PICK h \in Words, l \in Words : m = [hi |-> h, lo |-> l]
  BY DEF Doubles
<1>3. h \in Nat /\ l \in Nat
  BY <1>1, <1>2 DEF Words
<1>4. CASE l + r < Base
  BY <1>1, <1>2, <1>3, <1>4 DEF Plus, Geq
<1>5. CASE ~(l + r < Base)
  <2>1. h # MaxWord
    BY <1>1, <1>2, <1>3, <1>5 DEF Overflows
  <2>2. Plus(m, r) = [hi |-> h + 1, lo |-> l + r - Base]
    BY <1>2, <1>5, <2>1 DEF Plus, Successor
  <2> QED BY <1>2, <1>3, <2>2 DEF Geq
<1> QED BY <1>4, <1>5

(* A cycle of the peripheral takes its count nearer to the deadline and    *)
(* makes the alarm older.                                                  *)
LEMMA TickAhead ==
  ASSUME TypeOK, CountCycle, alarm' = Aged, alarm.state # "none",
         NEW d, Ahead(d)
  PROVE  AheadOf(alarm', mtime', d) /\ alarm'.state = alarm.state
<1>1. PICK st \in {"none", "armed", "live"}, u \in Words, g \in 0 .. Base :
        alarm = [state |-> st, dur |-> u, age |-> g]
  BY DEF TypeOK, Alarms
<1>2. mtime \in Doubles /\ Base \in Nat /\ u \in Nat /\ g \in Nat /\ u < Base
  BY BaseAssumption, <1>1 DEF TypeOK, TimerTypeOK, BaseAssumption, Words
<1>3. CASE enable /\ counter = prescaler /\ g < Base
  <2>1. mtime' = Increment(mtime)
    BY <1>3 DEF CountCycle, Counted
  <2>2. alarm' = [state |-> st, dur |-> u, age |-> g + 1]
    BY <1>1, <1>3 DEF Aged
  <2>3. ASSUME g + 1 < u
        PROVE  /\ ~Overflows(mtime', u - (g + 1))
               /\ d = Plus(mtime', u - (g + 1))
    <3>1. u - g \in Words /\ u - g > 0 /\ g < u /\ u - (g + 1) = (u - g) - 1
      BY <1>2, <2>3 DEF Words
    <3>2. ~Overflows(mtime, u - g) /\ d = Plus(mtime, u - g)
      BY <1>1, <3>1 DEF Ahead, AheadOf
    <3> QED BY <1>2, <2>1, <3>1, <3>2, PlusLater
  <2> QED BY <1>1, <2>2, <2>3 DEF AheadOf
<1>4. CASE ~(enable /\ counter = prescaler)
  <2>1. mtime' = mtime /\ alarm' = alarm
    BY <1>4 DEF CountCycle, Counted, Aged
  <2> QED BY <2>1 DEF Ahead
<1>5. CASE ~(g < Base)
  <2>1. alarm' = alarm
    BY <1>1, <1>5 DEF Aged
  <2>2. ~(g < u)
    BY <1>2, <1>5
  <2> QED BY <1>1, <2>1, <2>2 DEF AheadOf
<1> QED BY <1>3, <1>4, <1>5

(* Moving on and returning keep a context at its own accesses. *)
LEMMA OwnStep ==
  ASSUME TypeOK, OwnAccesses, NEW c \in Contexts,
         \/ Return(c)
         \/ \E a \in Accesses :
              /\ Goto(c, a)
              /\ op[c] # "none"
              /\ op[c] = "counter" => a \in {"time_hi", "time_lo"}
              /\ op[c] = "cmp" => a \in {"cmp_read_hi", "cmp_read_lo"}
              /\ op[c] = "start" => a \in {"time_hi", "time_lo", "cmp_lo_max",
                                     "cmp_hi", "cmp_lo", "ctrl_read", "ctrl_write"}
  PROVE  OwnAccesses'
  BY DEF TypeOK, OwnAccesses, Return, Goto

(* The scheduler goes on, and a call ends. *)
LEMMA SchedulerStep ==
  ASSUME TypeOK, OneScheduler, NEW c \in Contexts,
         \/ Return(c)
         \/ \E a \in Accesses :
              /\ Goto(c, a)
              /\ op[c] = "start" => a \notin {"time_hi", "time_lo"}
  PROVE  OneScheduler'
  BY DEF TypeOK, OneScheduler, Return, Goto

(* Time passes and nobody starts or ends an installation. *)
LEMMA TickAlarm ==
  ASSUME TypeOK, CountCycle, alarm' = Aged, alarm.state # "none",
         DeadlineInForce,
         \A c \in Contexts :
           /\ Installing(c)' <=> Installing(c)
           /\ Installing(c) => arg'[c] = arg[c] /\ pc'[c] = pc[c]
  PROVE  DeadlineInForce'
<1>1. mtimecmp' = mtimecmp /\ enable' = enable
  BY DEF CountCycle
<1>2. ASSUME NEW d, Ahead(d)
      PROVE  AheadOf(alarm', mtime', d) /\ alarm'.state = alarm.state
  BY <1>2, TickAhead
<1>3. ASSUME NEW c \in Contexts, Installing(c)'
      PROVE  /\ AheadOf(alarm', mtime', arg'[c])
             /\ alarm'.state = "live" => ~enable'
             /\ pc'[c] = "cmp_lo" => mtimecmp'.hi = arg'[c].hi
  <2>1. Installing(c) /\ arg'[c] = arg[c] /\ pc'[c] = pc[c]
    BY <1>3
  <2>2. Ahead(arg[c]) /\ (alarm.state = "live" => ~enable)
        /\ (pc[c] = "cmp_lo" => mtimecmp.hi = arg[c].hi)
    BY <2>1 DEF DeadlineInForce
  <2>3. AheadOf(alarm', mtime', arg[c]) /\ alarm'.state = alarm.state
    BY <1>2, <2>2
  <2> QED BY <1>1, <2>1, <2>2, <2>3
<1>4. ASSUME \A c \in Contexts : ~Installing(c)'
      PROVE  AheadOf(alarm', mtime', mtimecmp')
  <2>1. Ahead(mtimecmp)
    BY <1>4 DEF DeadlineInForce
  <2> QED BY <1>1, <1>2, <2>1
<1> QED BY <1>3, <1>4 DEF DeadlineInForce, Ahead

LEMMA BeginAlarm ==
  ASSUME DriverInv, AlarmInv, NEW c \in Contexts, NEW o \in Ops,
         NEW a \in Doubles, NEW p \in Prescalers, Begin(c, o, a, p)
  PROVE  AlarmInv'
<1>1. /\ pc[c] = "idle" /\ op[c] = "none"
      /\ op' = [op EXCEPT ![c] = o]
      /\ pc' = [pc EXCEPT ![c] = FirstAccess[o]]
      /\ arg' = [arg EXCEPT ![c] = a]
      /\ alarm' = IF o \in Readers THEN alarm ELSE NoAlarm
      /\ UNCHANGED <<mtime, mtimecmp, enable>>
  BY DEF Begin, timerVars, DriverInv, Matches
<1>2. /\ op \in [Contexts -> Ops \cup {"none"}]
      /\ pc \in [Contexts -> Accesses \cup {"idle"}]
      /\ arg \in [Contexts -> Doubles]
  BY DEF DriverInv, TypeOK
<1>3. OwnAccesses'
  <2>1. /\ FirstAccess["counter"] = "time_hi" /\ FirstAccess["cmp"] = "cmp_read_hi"
        /\ FirstAccess["start"] = "time_hi" /\ "none" \notin Ops
    BY DEF FirstAccess, Ops
  <2> QED BY <1>1, <1>2, <2>1 DEF AlarmInv, OwnAccesses
<1>4. ASSUME alarm'.state # "none" PROVE OneScheduler' /\ DeadlineInForce'
  <2>1. o \in Readers /\ alarm' = alarm
    BY <1>1, <1>4 DEF NoAlarm
  <2>2. OneScheduler /\ DeadlineInForce
    BY <1>4, <2>1 DEF AlarmInv
  <2>3. o # "start" /\ "none" # "start"
    BY <2>1 DEF Readers
  <2>4. OneScheduler'
    BY <1>1, <1>2, <2>1, <2>2, <2>3 DEF OneScheduler
  <2>5. \A d \in Contexts : /\ Installing(d)' <=> Installing(d)
                            /\ Installing(d) => arg'[d] = arg[d] /\ pc'[d] = pc[d]
    BY <1>1, <1>2, <2>3 DEF Installing
  <2>6. DeadlineInForce'
    BY <1>1, <2>1, <2>2, <2>5 DEF DeadlineInForce, Ahead
  <2> QED BY <2>4, <2>6
<1> QED BY <1>3, <1>4 DEF AlarmInv

LEMMA CycleAlarm == ASSUME DriverInv, AlarmInv, Cycle PROVE AlarmInv'
<1>1. CountCycle /\ alarm' = Aged /\ UNCHANGED <<op, pc, arg>>
  BY DEF Cycle
<1>2. OwnAccesses'
  BY <1>1 DEF AlarmInv, OwnAccesses
<1>3. ASSUME alarm'.state # "none" PROVE OneScheduler' /\ DeadlineInForce'
  <2>1. alarm.state # "none"
    BY <1>1, <1>3 DEF Aged, DriverInv, TypeOK, Alarms
  <2>2. OneScheduler'
    BY <1>1, <2>1 DEF AlarmInv, OneScheduler
  <2>3. DeadlineInForce'
    BY <1>1, <2>1, TickAlarm DEF AlarmInv, DriverInv, Installing
  <2> QED BY <2>2, <2>3
<1> QED BY <1>2, <1>3 DEF AlarmInv

(* Reading accesses, apart from the one that schedules. *)
LEMMA ReadAlarm ==
  ASSUME DriverInv, AlarmInv, NEW c \in Contexts,
         \/ CtrlRead(c) \/ TimeReadHi(c) \/ CmpReadHi(c) \/ CmpReadLo(c)
         \/ TimeReadLo(c) /\ op[c] # "start"
  PROVE  AlarmInv'
<1>1. /\ CountCycle /\ alarm' = Aged
      /\ \/ Return(c)
         \/ /\ arg' = arg
            /\ \/ pc[c] = "ctrl_read" /\ Goto(c, "ctrl_write")
               \/ pc[c] = "time_hi" /\ Goto(c, "time_lo")
               \/ pc[c] = "cmp_read_hi" /\ Goto(c, "cmp_read_lo")
      /\ pc[c] \in {"ctrl_read", "time_hi", "time_lo", "cmp_read_hi", "cmp_read_lo"}
  BY DEF CtrlRead, TimeReadHi, CmpReadHi, CmpReadLo, TimeReadLo, At
<1>2. TypeOK /\ OwnAccesses
  BY DEF DriverInv, AlarmInv
<1>3. OwnAccesses'
  BY <1>1, <1>2, OwnStep DEF OwnAccesses, Accesses
<1>4. ASSUME alarm'.state # "none" PROVE OneScheduler' /\ DeadlineInForce'
  <2>1. alarm.state # "none"
    BY <1>1, <1>2, <1>4 DEF Aged, TypeOK, Alarms
  <2>2. OneScheduler /\ DeadlineInForce
    BY <2>1 DEF AlarmInv
  <2>3. OneScheduler'
    BY <1>1, <1>2, <2>2, SchedulerStep DEF OneScheduler, Accesses
  <2>4. \A d \in Contexts : /\ Installing(d)' <=> Installing(d)
                            /\ Installing(d) => arg'[d] = arg[d] /\ pc'[d] = pc[d]
    <3>1. \A d \in Contexts \ {c} :
            op'[d] = op[d] /\ pc'[d] = pc[d] /\ arg'[d] = arg[d]
      BY <1>1, <1>2 DEF TypeOK, Return, Goto
    <3>2. ~Installing(c) /\ ~Installing(c)'
      BY <1>1, <1>2 DEF TypeOK, Return, Goto, Installing
    <3> QED BY <3>1, <3>2 DEF Installing
  <2> QED BY <1>1, <1>2, <2>1, <2>2, <2>3, <2>4, TickAlarm
<1> QED BY <1>3, <1>4 DEF AlarmInv

(* The read that schedules: the count's low word, in OneShot::start. *)
LEMMA StartAlarm ==
  ASSUME DriverInv, AlarmInv, NEW c \in Contexts, TimeReadLo(c), op[c] = "start"
  PROVE  AlarmInv'
<1>1. /\ pc[c] = "time_lo" /\ CountCycle
      /\ arg' = [arg EXCEPT ![c] = Plus(Reading(c), arg[c].lo)]
      /\ alarm' = SetAlarm(c)
      /\ Goto(c, "cmp_lo_max")
  BY DEF TimeReadLo, At
<1>2. TypeOK /\ OwnAccesses /\ Matches
  BY DEF DriverInv, AlarmInv
<1>3. OwnAccesses'
  BY <1>1, <1>2, OwnStep DEF OwnAccesses, Accesses
<1>4. ASSUME alarm'.state # "none" PROVE OneScheduler' /\ DeadlineInForce'
  <2> DEFINE u == arg[c].lo
             k == IF enable /\ counter = prescaler THEN 1 ELSE 0
  <2>1. /\ mtime.hi = seen[c].hi /\ clean[c] /\ Alone(c) /\ ~Overflows(mtime, u)
        /\ alarm' = [state |-> IF enable THEN "armed" ELSE "live",
                     dur |-> u, age |-> k]
    BY <1>1, <1>4 DEF SetAlarm, NoAlarm
  <2>2. /\ op' = op /\ pc' = [pc EXCEPT ![c] = "cmp_lo_max"]
        /\ \A d \in Contexts \ {c} : op[d] = "none" /\ pc[d] = "idle"
    BY <1>1, <1>2, <2>1 DEF Goto, Alone, TypeOK, OwnAccesses, Matches
  <2>3. OneScheduler'
    BY <1>2, <2>2 DEF TypeOK, OneScheduler
  <2>4. Reading(c) = mtime
    BY <1>2, <2>1 DEF TypeOK, TimerTypeOK, Doubles, Reading
  <2>5. arg'[c] = Plus(mtime, u) /\ mtime \in Doubles /\ u \in Words
    BY <1>1, <1>2, <2>4 DEF TypeOK, TimerTypeOK, Doubles
  <2>6. AheadOf(alarm', mtime', arg'[c])
    <3>1. Base \in Nat /\ u \in Nat /\ u < Base
      BY <2>5, BaseAssumption DEF BaseAssumption, Words
    <3> HIDE DEF u
    <3>2. CASE enable /\ counter = prescaler
      <4>1. mtime' = Increment(mtime) /\ k = 1
        BY <1>1, <3>2 DEF CountCycle, Counted
      <4>2. 1 < u => /\ ~Overflows(mtime', u - 1)
                     /\ arg'[c] = Plus(mtime', u - 1)
        BY <2>1, <2>5, <3>1, <4>1, PlusLater
      <4> QED BY <2>1, <4>1, <4>2 DEF AheadOf
    <3>3. CASE ~(enable /\ counter = prescaler)
      <4>1. mtime' = mtime /\ k = 0 /\ u - 0 = u
        BY <1>1, <3>1, <3>3 DEF CountCycle, Counted
      <4> QED BY <2>1, <2>5, <4>1 DEF AheadOf
    <3> QED BY <3>2, <3>3
  <2>7. enable' = enable /\ pc'[c] = "cmp_lo_max" /\ op'[c] = "start"
    BY <1>1, <1>2, <2>2 DEF CountCycle, TypeOK
  <2>8. \A d \in Contexts : Installing(d)' <=> d = c
    BY <1>2, <2>2, <2>7 DEF TypeOK, Installing
  <2>9. alarm'.state = "live" => ~enable'
    BY <2>1, <2>7
  <2> HIDE DEF u, k
  <2>10. DeadlineInForce'
    BY <2>6, <2>7, <2>8, <2>9 DEF DeadlineInForce, Ahead
  <2> QED BY <2>3, <2>10
<1> QED BY <1>3, <1>4 DEF AlarmInv

(* Installing the deadline: all ones, high word, low word. *)
LEMMA InstallAlarm ==
  ASSUME DriverInv, AlarmInv, NEW c \in Contexts,
         CmpLoMax(c) \/ CmpHi(c) \/ CmpLo(c)
  PROVE  AlarmInv'
<1>1. TypeOK /\ OwnAccesses /\ Matches
  BY DEF DriverInv, AlarmInv
<1>2. /\ pc[c] \in {"cmp_lo_max", "cmp_hi", "cmp_lo"}
      /\ op[c] \in {"set_cmp", "start"}
      /\ mtime' = mtime /\ enable' = enable
  BY <1>1 DEF CmpLoMax, CmpHi, CmpLo, At, WriteCmp, Matches
<1>3. OwnAccesses'
  <2>1. CASE CmpLoMax(c) \/ CmpHi(c)
    BY <1>1, <1>2, <2>1, OwnStep DEF CmpLoMax, CmpHi, Accesses
  <2>2. CASE CmpLo(c)
    BY <1>1, <1>2, <2>2, OwnStep DEF CmpLo, Accesses
  <2> QED BY <2>1, <2>2
<1>4. ASSUME alarm'.state # "none" PROVE OneScheduler' /\ DeadlineInForce'
  <2>1. alarm.state # "none" /\ alarm'.age = alarm.age /\ alarm'.dur = alarm.dur
    BY <1>1, <1>4 DEF CmpLoMax, CmpHi, CmpLo, TypeOK, Alarms
  <2>2. OneScheduler /\ DeadlineInForce
    BY <2>1 DEF AlarmInv
  <2>3. op[c] = "start" /\ Installing(c)
    BY <1>2, <2>2 DEF OneScheduler, Readers, Installing
  <2>4. \A d \in Contexts \ {c} : op[d] # "start" /\ op'[d] = op[d]
    BY <1>1, <2>2, <2>3
    DEF OneScheduler, CmpLoMax, CmpHi, CmpLo, TypeOK, Return, Goto
  <2>5. /\ Ahead(arg[c]) /\ (alarm.state = "live" => ~enable)
        /\ pc[c] = "cmp_lo" => mtimecmp.hi = arg[c].hi
    BY <2>2, <2>3 DEF DeadlineInForce
  <2>6. AheadOf(alarm', mtime', arg[c])
    BY <1>2, <2>1, <2>5 DEF Ahead, AheadOf
  <2>7. CASE CmpLoMax(c) \/ CmpHi(c)
    <3>1. OneScheduler'
      BY <1>1, <2>2, <2>7, SchedulerStep DEF CmpLoMax, CmpHi, Accesses
    <3>2. alarm' = alarm /\ arg' = arg /\ op' = op
      BY <2>7 DEF CmpLoMax, CmpHi, Goto
    <3>3. /\ pc'[c] \in {"cmp_hi", "cmp_lo"}
          /\ pc'[c] = "cmp_lo" => mtimecmp'.hi = arg[c].hi
      <4>1. CASE CmpLoMax(c)
        BY <1>1, <4>1 DEF CmpLoMax, TypeOK, Goto
      <4>2. CASE CmpHi(c)
        BY <1>1, <4>2 DEF CmpHi, WriteCmp, TypeOK, TimerTypeOK, Doubles, Goto
      <4> QED BY <2>7, <4>1, <4>2
    <3>4. \A d \in Contexts : Installing(d)' <=> d = c
      BY <2>3, <2>4, <3>2, <3>3 DEF Installing
    <3>5. DeadlineInForce'
      BY <1>2, <2>5, <2>6, <3>2, <3>3, <3>4 DEF DeadlineInForce, Ahead
    <3> QED BY <3>1, <3>5
  <2>8. CASE CmpLo(c)
    <3>1. Goto(c, "ctrl_read")
      BY <2>3, <2>8 DEF CmpLo
    <3>2. OneScheduler'
      BY <1>1, <2>2, <3>1, SchedulerStep DEF Accesses
    <3>3. \A d \in Contexts : ~Installing(d)'
      BY <1>1, <2>4, <3>1 DEF TypeOK, Goto, Installing
    <3>4. mtimecmp' = arg[c]
      <4>1. pc[c] = "cmp_lo" /\ mtimecmp' = [mtimecmp EXCEPT !.lo = arg[c].lo]
        BY <2>8 DEF CmpLo, At, WriteCmp
      <4> QED BY <1>1, <2>5, <4>1 DEF TypeOK, TimerTypeOK, Doubles
    <3>5. DeadlineInForce'
      BY <2>6, <3>3, <3>4 DEF DeadlineInForce, Ahead
    <3> QED BY <3>2, <3>5
  <2> QED BY <2>7, <2>8
<1> QED BY <1>3, <1>4 DEF AlarmInv

(* The accesses of other calls, of which there are none while an alarm is  *)
(* in force, and the last access of start.                                 *)
LEMMA WriteAlarm ==
  ASSUME DriverInv, AlarmInv, NEW c \in Contexts,
         \/ TimeSetLo(c) \/ TimeSetHi(c) \/ TimeOnlyLo(c)
         \/ ResetCtrl(c) \/ ResetTimeLo(c) \/ ResetTimeHi(c)
         \/ ResetCmpLo(c) \/ ResetCmpHi(c) \/ CtrlWrite(c) \/ CtrlSet(c)
  PROVE  AlarmInv'
<1>1. TypeOK /\ OwnAccesses
  BY DEF DriverInv, AlarmInv
<1> DEFINE Writes == {"time_set_lo", "time_set_hi", "time_only_lo", "reset_ctrl",
                      "reset_time_lo", "reset_time_hi", "reset_cmp_lo",
                      "reset_cmp_hi", "ctrl_write", "ctrl_set"}
<1>2. /\ alarm' = alarm
      /\ pc[c] \in Writes
      /\ Return(c) \/ \E a \in Accesses : Goto(c, a)
      /\ pc[c] = "ctrl_write" =>
           Return(c) /\ UNCHANGED <<mtime, mtimecmp>>
  BY DEF TimeSetLo, TimeSetHi, TimeOnlyLo, ResetCtrl, ResetTimeLo, ResetTimeHi,
         ResetCmpLo, ResetCmpHi, CtrlWrite, CtrlSet, At, WriteCtrl, Accesses
<1>3. /\ op[c] \in Readers \cup {"none", "start"} => pc[c] = "ctrl_write"
      /\ op[c] # "none"
  BY <1>1, <1>2 DEF OwnAccesses, Readers
<1>4. OwnAccesses'
  <2>1. CASE Return(c)
    BY <1>1, <2>1, OwnStep
  <2>2. CASE pc[c] # "ctrl_write" /\ \E a \in Accesses : Goto(c, a)
    BY <1>1, <1>3, <2>2, OwnStep DEF Readers
  <2> QED BY <1>2, <2>1, <2>2
<1>5. ASSUME alarm'.state # "none" PROVE OneScheduler' /\ DeadlineInForce'
  <2>1. OneScheduler /\ DeadlineInForce
    BY <1>2, <1>5 DEF AlarmInv
  <2>2. pc[c] = "ctrl_write" /\ op[c] \in Readers \cup {"none", "start"}
    BY <1>3, <2>1 DEF OneScheduler
  <2>3. op[c] = "start" /\ Return(c) /\ UNCHANGED <<mtime, mtimecmp>>
    BY <1>1, <1>2, <2>2 DEF OwnAccesses, Readers
  <2>4. OneScheduler'
    BY <1>1, <2>1, <2>3, SchedulerStep
  <2>5. \A d \in Contexts : ~Installing(d) /\ ~Installing(d)'
    BY <1>1, <2>1, <2>2, <2>3 DEF OneScheduler, Installing, TypeOK, Return
  <2>6. DeadlineInForce'
    BY <1>2, <2>1, <2>3, <2>5 DEF DeadlineInForce, Ahead
  <2> QED BY <2>4, <2>6
<1> QED BY <1>4, <1>5 DEF AlarmInv

LEMMA AlarmStep == ASSUME DriverInv, AlarmInv, [Next]_vars PROVE AlarmInv'
  <1>1. ASSUME NEW c \in Contexts, BeginCall(c) PROVE AlarmInv'
    BY <1>1, BeginCallCases, BeginAlarm
  <1>2. ASSUME NEW c \in Contexts, Access(c) PROVE AlarmInv'
    BY <1>2, ReadAlarm, StartAlarm, InstallAlarm, WriteAlarm DEF Access
  <1>3. CASE UNCHANGED vars
    BY <1>3 DEF vars, timerVars, driverVars, AlarmInv, OwnAccesses, OneScheduler,
                DeadlineInForce, Installing, Ahead
  <1> QED BY <1>1, <1>2, <1>3, CycleAlarm DEF Next

LEMMA AlarmInit == Init => AlarmInv
  BY DEF Init, AlarmInv, OwnAccesses, NoAlarm

LEMMA AlarmInvariant == Spec => []AlarmInv
  BY AlarmInit, AlarmStep, DriverInvariant, PTL DEF Spec

LEMMA InvNotEarly == ASSUME DriverInv, AlarmInv PROVE OneShotNotEarly
<1> SUFFICES ASSUME alarm.state = "live", Irq, ~(alarm.age >= alarm.dur)
             PROVE  FALSE
  BY DEF OneShotNotEarly
<1>1. enable /\ Geq(mtime, mtimecmp)
  BY DEF Irq
<1>2. \A c \in Contexts : ~Installing(c)
  BY <1>1 DEF AlarmInv, DeadlineInForce
<1>3. Ahead(mtimecmp)
  BY <1>2 DEF AlarmInv, DeadlineInForce
<1> DEFINE r == alarm.dur - alarm.age
<1>4. alarm.age < alarm.dur /\ r \in Words /\ r > 0
  BY BaseAssumption DEF BaseAssumption, DriverInv, TypeOK, Alarms, Words
<1>5. ~Overflows(mtime, r) /\ mtimecmp = Plus(mtime, r) /\ mtime \in Doubles
  BY <1>3, <1>4 DEF Ahead, AheadOf, DriverInv, TypeOK, TimerTypeOK
<1> HIDE DEF r
<1> QED BY <1>1, <1>4, <1>5, PlusAhead

(* A OneShot never interrupts before its duration has passed, at any word  *)
(* size, duration and prescaler, with carries between the words and calls  *)
(* by other contexts.                                                      *)
THEOREM NotEarly == Spec => []OneShotNotEarly
  BY DriverInvariant, AlarmInvariant, InvNotEarly, PTL

-----------------------------------------------------------------------------
(* The refinement.  Without preemption a state of the driver is a state of *)
(* the clock whose bell rings as it may (BellRight): while mtimecmp is     *)
(* being replaced its high word belongs to the old deadline or to the new  *)
(* one and its low word is all ones, so a count that reaches it has        *)
(* reached that deadline.  Each access is then one step of the clock, or   *)
(* none.                                                                   *)

(* Nothing disturbs a call, and reset() leaves the high word to its last   *)
(* access.                                                                 *)
Undisturbed ==
  /\ clean[1]
  /\ pc[1] = "reset_cmp_hi" => mtimecmp.hi = from[1].hi

SingleInv == DriverInv /\ Undisturbed

LEMMA OnlyMain == ASSUME SingleLevel PROVE Contexts = {1} /\ 1 \in Contexts
  BY DEF SingleLevel, Contexts

LEMMA UndisturbedStep ==
  ASSUME SingleLevel, SingleInv, [Next]_vars
  PROVE  Undisturbed'
<1>1. /\ TypeOK /\ clean[1]
      /\ clean \in [Contexts -> BOOLEAN] /\ pc \in [Contexts -> Accesses \cup {"idle"}]
      /\ from \in [Contexts -> Doubles] /\ mtimecmp \in Doubles
  BY DEF SingleInv, DriverInv, Undisturbed, TypeOK, TimerTypeOK
<1>2. CASE Cycle \/ UNCHANGED vars
  BY <1>2 DEF SingleInv, Undisturbed, Cycle, CountCycle, vars, timerVars, driverVars
<1>3. ASSUME BeginCall(1) PROVE Undisturbed'
  <2>1. PICK o \in Ops, a \in Doubles, p \in Prescalers : Begin(1, o, a, p)
    BY <1>3, OnlyMain, BeginCallCases
  <2>2. clean'[1] /\ pc'[1] = FirstAccess[o]
    BY <1>1, <2>1, OnlyMain DEF Begin
  <2>3. FirstAccess[o] # "reset_cmp_hi"
    BY DEF Ops, FirstAccess
  <2> QED BY <2>2, <2>3 DEF Undisturbed
<1>4. ASSUME Access(1) PROVE Undisturbed'
  <2>1. CASE ResetCmpLo(1)
    <3>1. /\ from' = [from EXCEPT ![1] = mtimecmp] /\ Goto(1, "reset_cmp_hi")
          /\ mtimecmp' = [mtimecmp EXCEPT !.lo = MaxWord]
      BY <2>1 DEF ResetCmpLo, WriteCmp
    <3> QED BY <1>1, <3>1, OnlyMain DEF Goto, Undisturbed, Doubles
  <2>2. CASE ~ResetCmpLo(1)
    <3>1. Return(1) \/ \E a \in Accesses \ {"reset_cmp_hi"} : Goto(1, a)
      BY <1>4, <2>2
      DEF Access, CmpLoMax, CmpHi, CmpLo, TimeSetLo, TimeSetHi, TimeOnlyLo,
          ResetCtrl, ResetTimeLo, ResetTimeHi, ResetCmpHi, CtrlRead, CtrlWrite,
          CtrlSet, TimeReadHi, TimeReadLo, CmpReadHi, CmpReadLo, Accesses
    <3>2. clean'[1] /\ pc'[1] # "reset_cmp_hi"
      BY <1>1, <3>1, OnlyMain DEF Return, Goto
    <3> QED BY <3>2 DEF Undisturbed
  <2> QED BY <2>1, <2>2
<1> QED BY <1>2, <1>3, <1>4, OnlyMain DEF Next

LEMMA SingleInvariant == ASSUME SingleLevel PROVE Spec => []SingleInv
<1>1. Init => Undisturbed
  BY OnlyMain DEF Init, Undisturbed
<1>2. SingleInv /\ [Next]_vars => SingleInv'
  BY UndisturbedStep, DriverInvStep DEF SingleInv
<1> QED BY <1>1, <1>2, DriverInvInit, PTL DEF Spec, SingleInv

-----------------------------------------------------------------------------
(* The bell. *)

LEMMA ReplacementFacts ==
  ASSUME SingleLevel, TypeOK
  PROVE  /\ Replacing <=> Replacement # NoDeadline
         /\ ~Replacing <=> Replacement = NoDeadline
         /\ pc[1] = "reset_cmp_hi" => Replacement = MaxDouble
         /\ pc[1] \in {"cmp_hi", "cmp_lo"} => Replacement = arg[1]
<1>1. arg[1] \in Doubles /\ MaxDouble \in Doubles
  BY OnlyMain, WordFacts DEF TypeOK
<1>2. pc[1] = "reset_cmp_hi" => Replacement = MaxDouble
  BY DEF Replacement
<1>3. pc[1] \in {"cmp_hi", "cmp_lo"} => Replacement = arg[1]
  BY DEF Replacement
<1>4. ~Replacing => Replacement = NoDeadline
  BY DEF Replacement, Replacing
<1> QED BY <1>1, <1>2, <1>3, <1>4, NoDeadlineAssumption DEF Replacing

LEMMA BellRight == ASSUME SingleLevel, SingleInv PROVE Clock!BellOK
<1>1. /\ TypeOK /\ Holds(1)
      /\ pc[1] = "reset_cmp_hi" => mtimecmp.hi = from[1].hi
  BY OnlyMain DEF SingleInv, DriverInv, Established, Undisturbed
<1>2. /\ mtime \in Doubles /\ mtimecmp \in Doubles
      /\ from[1] \in Doubles /\ arg[1] \in Doubles
  BY <1>1, OnlyMain DEF TypeOK, TimerTypeOK
<1>3. CASE ~Replacing
  <2>1. Replacement = NoDeadline /\ Current = mtimecmp
    BY <1>1, <1>3, ReplacementFacts DEF Current
  <2> QED BY <2>1 DEF Clock!BellOK, Clock!Reached, Clock!Geq, Irq, Geq
<1>4. CASE Replacing
  <2>1. Replacement # NoDeadline /\ Current = from[1]
    BY <1>1, <1>4, ReplacementFacts DEF Current
  <2>2. Geq(mtime, mtimecmp) =>
          Geq(mtime, from[1]) \/ Geq(mtime, Replacement)
    <3>1. ASSUME NEW d \in Doubles, mtimecmp.hi = d.hi, mtimecmp.lo = MaxWord,
                 Geq(mtime, mtimecmp)
          PROVE  Geq(mtime, d)
      BY <1>2, <3>1, BaseAssumption DEF BaseAssumption, Geq, Doubles, Words, MaxWord
    <3>2. CASE pc[1] = "cmp_hi"
      <4>1. mtimecmp.hi = from[1].hi /\ mtimecmp.lo = MaxWord
        BY <1>1, <3>2 DEF Holds
      <4> QED BY <1>2, <3>1, <4>1
    <3>3. CASE pc[1] = "cmp_lo"
      <4>1. mtimecmp.hi = arg[1].hi /\ mtimecmp.lo = MaxWord
        BY <1>1, <3>3 DEF Holds
      <4> QED BY <1>1, <1>2, <3>1, <3>3, <4>1, ReplacementFacts
    <3>4. CASE pc[1] = "reset_cmp_hi"
      <4>1. mtimecmp.hi = from[1].hi /\ mtimecmp.lo = MaxWord
        BY <1>1, <3>4 DEF Holds
      <4> QED BY <1>2, <3>1, <4>1
    <3> QED BY <1>4, <3>2, <3>3, <3>4 DEF Replacing
  <2> QED BY <2>1, <2>2 DEF Clock!BellOK, Clock!Reached, Clock!Geq, Irq, Geq
<1> QED BY <1>3, <1>4

-----------------------------------------------------------------------------
(* The steps. *)

(* A step of the clock, apart from what the bell does. *)
ClockStep ==
  Clock!Advance \/ Clock!Adjust \/ Clock!Switch \/ Clock!Propose \/ Clock!Settle

(* What the clock sees of a state with mtimecmp and the call unchanged. *)
LEMMA SameDeadlines ==
  ASSUME mtimecmp' = mtimecmp, pc' = pc, from' = from, arg' = arg
  PROVE  Current' = Current /\ Replacement' = Replacement
  BY DEF Current, Replacement, Replacing, MaxDouble, MaxWord

(* Outside the replacement of a deadline. *)
LEMMA Settled ==
  ASSUME pc[1] \notin {"cmp_hi", "cmp_lo", "reset_cmp_hi"}
  PROVE  Current = mtimecmp /\ Replacement = NoDeadline
  BY DEF Current, Replacement, Replacing

LEMMA StillSettled ==
  ASSUME pc'[1] \notin {"cmp_hi", "cmp_lo", "reset_cmp_hi"}
  PROVE  Current' = mtimecmp' /\ Replacement' = NoDeadline
  BY DEF Current, Replacement, Replacing

(* A cycle without a write advances the clock or leaves it. *)
LEMMA CountStep ==
  ASSUME CountCycle, Current' = Current, Replacement' = Replacement
  PROVE  ClockStep
<1>1. enable' = enable /\ (mtime' = mtime \/ (enable /\ mtime' = Increment(mtime)))
  <2>1. CASE enable /\ counter = prescaler
    BY <2>1, Zenon DEF CountCycle, Counted
  <2>2. CASE ~(enable /\ counter = prescaler)
    BY <2>2 DEF CountCycle, Counted
  <2> QED BY <2>1, <2>2
<1>2. Clock!Increment(mtime) = Increment(mtime)
  BY DEF Clock!Increment, Increment, Clock!Successor, Successor, Clock!MaxWord, MaxWord
<1> QED BY <1>1, <1>2 DEF ClockStep, Clock!Advance, Clock!Switch

(* The places that follow an access. *)
LEMMA PlaceAfter ==
  ASSUME SingleLevel, TypeOK
  PROVE  /\ \A a \in Accesses : Goto(1, a) => pc'[1] = a
         /\ Return(1) => pc'[1] = "idle"
  BY OnlyMain DEF TypeOK, Goto, Return

LEMMA CmpClock ==
  ASSUME SingleLevel, SingleInv, CmpLoMax(1) \/ CmpHi(1) \/ CmpLo(1)
  PROVE  ClockStep
<1>1. /\ TypeOK /\ Holds(1) /\ arg[1] \in Doubles /\ mtimecmp \in Doubles
      /\ mtime' = mtime /\ enable' = enable
  BY OnlyMain
  DEF SingleInv, DriverInv, Established, Undisturbed, TypeOK, TimerTypeOK,
      CmpLoMax, CmpHi, CmpLo, WriteCmp
<1>2. Clock!Doubles = Doubles
  BY DEF Clock!Doubles, Doubles, Clock!Words, Words
<1>3. CASE CmpLoMax(1)
  <2>1. pc[1] = "cmp_lo_max" /\ pc'[1] = "cmp_hi" /\ from'[1] = mtimecmp /\ arg' = arg
    BY <1>1, <1>3, OnlyMain, PlaceAfter DEF CmpLoMax, At, TypeOK, Accesses
  <2>2. Current = mtimecmp /\ Replacement = NoDeadline
    BY <2>1, Settled
  <2>3. Current' = mtimecmp /\ Replacement' = arg[1]
    BY <2>1 DEF Current, Replacement, Replacing
  <2> QED BY <1>1, <1>2, <2>2, <2>3 DEF ClockStep, Clock!Propose
<1>4. CASE CmpHi(1)
  <2>1. pc[1] = "cmp_hi" /\ pc'[1] = "cmp_lo" /\ from' = from /\ arg' = arg
    BY <1>1, <1>4, PlaceAfter DEF CmpHi, At, Accesses
  <2>2. Current' = Current /\ Replacement' = Replacement
    BY <2>1 DEF Current, Replacement, Replacing
  <2> QED BY <1>1, <2>2 DEF ClockStep, Clock!Switch
<1>5. CASE CmpLo(1)
  <2>1. /\ pc[1] = "cmp_lo" /\ pc'[1] \in {"ctrl_read", "idle"}
        /\ mtimecmp' = [mtimecmp EXCEPT !.lo = arg[1].lo]
    BY <1>1, <1>5, PlaceAfter DEF CmpLo, At, WriteCmp, Accesses
  <2>2. mtimecmp' = arg[1]
    <3>1. mtimecmp.hi = arg[1].hi
      BY <1>1, <2>1 DEF Holds
    <3> QED BY <1>1, <2>1, <3>1 DEF Doubles
  <2>3. Replacement = arg[1] /\ Replacement # NoDeadline
    BY <1>1, <2>1, ReplacementFacts DEF Replacing
  <2>4. Current' = arg[1] /\ Replacement' = NoDeadline
    BY <2>1, <2>2, StillSettled
  <2> QED BY <1>1, <2>3, <2>4 DEF ClockStep, Clock!Settle
<1> QED BY <1>3, <1>4, <1>5

LEMMA TimeClock ==
  ASSUME SingleLevel, SingleInv,
         \/ TimeSetLo(1) \/ TimeSetHi(1) \/ TimeOnlyLo(1)
         \/ ResetTimeLo(1) \/ ResetTimeHi(1)
  PROVE  ClockStep
<1>1. TypeOK /\ enable' = enable /\ mtimecmp' = mtimecmp
  BY DEF SingleInv, DriverInv, TimeSetLo, TimeSetHi, TimeOnlyLo,
         ResetTimeLo, ResetTimeHi, WriteTime
<1>2. /\ Adjusting
      /\ pc[1] \notin {"cmp_hi", "cmp_lo", "reset_cmp_hi"}
      /\ pc'[1] \notin {"cmp_hi", "cmp_lo", "reset_cmp_hi"}
  BY <1>1, PlaceAfter
  DEF Adjusting, TimeSetLo, TimeSetHi, TimeOnlyLo, ResetTimeLo, ResetTimeHi,
      At, Accesses
<1>3. Current' = Current /\ Replacement' = Replacement
  BY <1>1, <1>2, Settled, StillSettled
<1> QED BY <1>1, <1>2, <1>3 DEF ClockStep, Clock!Adjust

LEMMA CtrlClock ==
  ASSUME SingleLevel, SingleInv, ResetCtrl(1) \/ CtrlWrite(1) \/ CtrlSet(1)
  PROVE  ClockStep
<1>1. TypeOK /\ mtime' = mtime /\ mtimecmp' = mtimecmp
  BY DEF SingleInv, DriverInv, ResetCtrl, CtrlWrite, CtrlSet, WriteCtrl
<1>2. /\ pc[1] \notin {"cmp_hi", "cmp_lo", "reset_cmp_hi"}
      /\ pc'[1] \notin {"cmp_hi", "cmp_lo", "reset_cmp_hi"}
  BY <1>1, PlaceAfter DEF ResetCtrl, CtrlWrite, CtrlSet, At, Accesses
<1>3. Current' = Current /\ Replacement' = Replacement
  BY <1>1, <1>2, Settled, StillSettled
<1> QED BY <1>1, <1>3 DEF ClockStep, Clock!Switch

LEMMA ResetCmpClock ==
  ASSUME SingleLevel, SingleInv, ResetCmpLo(1) \/ ResetCmpHi(1)
  PROVE  ClockStep
<1>1. /\ TypeOK /\ Holds(1) /\ mtimecmp \in Doubles
      /\ mtime' = mtime /\ enable' = enable
  BY OnlyMain
  DEF SingleInv, DriverInv, Established, Undisturbed, TypeOK, TimerTypeOK,
      ResetCmpLo, ResetCmpHi, WriteCmp
<1>2. Clock!Doubles = Doubles /\ MaxDouble \in Doubles
  BY WordFacts DEF Clock!Doubles, Doubles, Clock!Words, Words
<1>3. CASE ResetCmpLo(1)
  <2>1. pc[1] = "reset_cmp_lo" /\ pc'[1] = "reset_cmp_hi" /\ from'[1] = mtimecmp
    BY <1>1, <1>3, OnlyMain, PlaceAfter DEF ResetCmpLo, At, TypeOK, Accesses
  <2>2. Current = mtimecmp /\ Replacement = NoDeadline
    BY <2>1, Settled
  <2>3. Current' = mtimecmp /\ Replacement' = MaxDouble
    BY <2>1 DEF Current, Replacement, Replacing, MaxDouble, MaxWord
  <2> QED BY <1>1, <1>2, <2>2, <2>3 DEF ClockStep, Clock!Propose
<1>4. CASE ResetCmpHi(1)
  <2>1. /\ pc[1] = "reset_cmp_hi" /\ pc'[1] = "idle"
        /\ mtimecmp' = [mtimecmp EXCEPT !.hi = MaxWord]
    BY <1>1, <1>4, PlaceAfter DEF ResetCmpHi, At, WriteCmp
  <2>2. mtimecmp' = MaxDouble
    BY <1>1, <2>1 DEF Holds, Doubles, MaxDouble
  <2>3. Replacement = MaxDouble /\ Replacement # NoDeadline
    BY <1>1, <2>1, ReplacementFacts DEF Replacing
  <2>4. Current' = MaxDouble /\ Replacement' = NoDeadline
    BY <2>1, <2>2, StillSettled
  <2> QED BY <1>1, <2>3, <2>4 DEF ClockStep, Clock!Settle
<1> QED BY <1>3, <1>4

LEMMA ReadClock ==
  ASSUME SingleLevel, SingleInv,
         \/ CtrlRead(1) \/ TimeReadHi(1) \/ TimeReadLo(1)
         \/ CmpReadHi(1) \/ CmpReadLo(1)
  PROVE  ClockStep
<1>1. TypeOK /\ CountCycle /\ mtimecmp' = mtimecmp
  BY DEF SingleInv, DriverInv, CtrlRead, TimeReadHi, TimeReadLo, CmpReadHi,
         CmpReadLo, CountCycle
<1>2. /\ pc[1] \notin {"cmp_hi", "cmp_lo", "reset_cmp_hi"}
      /\ pc'[1] \notin {"cmp_hi", "cmp_lo", "reset_cmp_hi"}
  BY <1>1, PlaceAfter
  DEF CtrlRead, TimeReadHi, TimeReadLo, CmpReadHi, CmpReadLo, At, Accesses
<1>3. Current' = Current /\ Replacement' = Replacement
  BY <1>1, <1>2, Settled, StillSettled
<1> QED BY <1>1, <1>3, CountStep

LEMMA RestClock ==
  ASSUME SingleLevel, SingleInv, Cycle \/ BeginCall(1) \/ UNCHANGED vars
  PROVE  ClockStep
<1>1. CASE Cycle
  <2>1. CountCycle /\ mtimecmp' = mtimecmp /\ pc' = pc /\ from' = from /\ arg' = arg
    BY <1>1 DEF Cycle, CountCycle
  <2> QED BY <2>1, SameDeadlines, CountStep
<1>2. CASE BeginCall(1)
  <2>1. PICK o \in Ops, a \in Doubles, p \in Prescalers : Begin(1, o, a, p)
    BY <1>2, OnlyMain, BeginCallCases
  <2>2. pc[1] = "idle" /\ pc'[1] = FirstAccess[o] /\ UNCHANGED timerVars
    BY <2>1, OnlyMain DEF Begin, SingleInv, DriverInv, TypeOK
  <2>3. FirstAccess[o] \notin {"cmp_hi", "cmp_lo", "reset_cmp_hi"}
    BY DEF Ops, FirstAccess
  <2>4. Current' = Current /\ Replacement' = Replacement
    BY <2>2, <2>3, Settled, StillSettled DEF timerVars
  <2> QED BY <2>2, <2>4 DEF ClockStep, Clock!Switch, timerVars
<1>3. CASE UNCHANGED vars
  <2>1. /\ mtime' = mtime /\ mtimecmp' = mtimecmp /\ pc' = pc /\ from' = from
        /\ arg' = arg
    BY <1>3 DEF vars, timerVars, driverVars
  <2> QED BY <2>1, SameDeadlines DEF ClockStep, Clock!Switch
<1> QED BY <1>1, <1>2, <1>3

(* Every step of the driver and the peripheral is a step of the clock. *)
LEMMA StepsRefine == ASSUME SingleLevel, SingleInv, [Next]_vars PROVE ClockStep
<1>1. ASSUME Access(1) PROVE ClockStep
  BY <1>1, CmpClock, TimeClock, CtrlClock, ResetCmpClock, ReadClock DEF Access
<1>2. \A c \in Contexts : c = 1
  BY OnlyMain
<1> QED BY <1>1, <1>2, RestClock DEF Next

(* With no preemption the driver's calls, many accesses each, and the      *)
(* peripheral counting between them implement the alarm clock: only setting *)
(* it changes the count out of turn, and the interrupt line follows the    *)
(* deadline, by either of the two while one replaces the other.            *)
THEOREM Implements == ASSUME SingleLevel PROVE Spec => ImplementsAlarmClock
<1>1. Init => Clock!ClockInit
  <2> SUFFICES ASSUME Init PROVE Clock!ClockInit
    OBVIOUS
  <2>1. /\ pc[1] = "idle" /\ mtime = Zero /\ mtimecmp = Zero /\ enable = FALSE
    BY OnlyMain DEF Init, TimerInit
  <2>2. Current = mtimecmp /\ Replacement = NoDeadline
    BY <2>1, Settled
  <2>3. Irq = FALSE /\ Adjusting = FALSE /\ Clock!Zero = Zero
    BY <2>1 DEF Irq, Adjusting, Clock!Zero, Zero
  <2> QED BY <2>1, <2>2, <2>3 DEF Clock!ClockInit
<1>2. SingleInv /\ [Next]_vars /\ Clock!BellOK' => [Clock!ClockNext]_Clock!clockVars
  BY StepsRefine DEF ClockStep, Clock!ClockNext
<1>3. SingleInv => Clock!BellOK
  BY BellRight
<1> QED BY <1>1, <1>2, <1>3, SingleInvariant, PTL
        DEF Spec, ImplementsAlarmClock, Clock!ClockSpec
=============================================================================
