---------------------------- MODULE TestPrograms ----------------------------
(***************************************************************************)
(* The test programs of the repository that configure interrupts and wait  *)
(* for them: the examples of hello_rt and periodic_tasks.  A program is a  *)
(* record: main and the handlers (by the name of their trap symbol) as     *)
(* sequences of operations, the interrupts it uses and its static          *)
(* variables with their initial values.  An operation is one call of the   *)
(* board support package, one access to a static variable, or a stretch of *)
(* work without either; module TestBoard says what each does.  Durations   *)
(* are in ticks at divider 1; a tick stands for several cycles of the      *)
(* timers' clock.  Printing that no property tells apart, the LEDs and the *)
(* UART are left out.                                                      *)
(***************************************************************************)
EXTENDS Interrupts, SequencesExt

CONSTANTS
  TestDuration,  \* periodic_tasks: the deadline of the test
  Periods,       \* periodic_tasks: the periods of the tasks, by task number
  Workloads,     \* periodic_tasks: the longest work of the tasks, in operations
  Timeout,       \* trampolines: the time given to the six interrupts
  Interval,      \* timer_group_irq, mtimer_is_monotonic: INTERVAL
  Capacity,      \* mtimer_is_monotonic: the capacity of SAMPLES
  Second,        \* mtimer_as_rtc, clic_mtimer: a second
  Seconds,       \* mtimer_as_rtc: the seconds it counts
  PrintSteps,    \* the longest printing in a handler, in operations
  Delay          \* the length of asm_delay, in operations

Tasks == 0 .. 3

ASSUME ProgramAssumption ==
  /\ {Periods, Workloads} \subseteq [Tasks -> Nat \ {0}]
  /\ \A n \in {TestDuration, Timeout, Interval, Capacity, Second, Seconds,
               PrintSteps, Delay} : n \in Nat \ {0}

-----------------------------------------------------------------------------
(* Operations. *)

Setup(i, l) == <<[op |-> "setup", irq |-> i, level |-> l]>>
Tear(i) == <<[op |-> "tear", irq |-> i]>>
Configure(i, c) == <<[op |-> "configure", irq |-> i, change |-> c]>>
Pcs(i, on) == Configure(i, [pcs |-> on])
Threshold(l) == <<[op |-> "threshold", to |-> l]>>
Interrupts(on) == <<[op |-> "mie", to |-> on]>>
Pend(i) == <<[op |-> "pend", irq |-> i]>>
Unpend(i) == <<[op |-> "unpend", irq |-> i]>>

Write(v, x) == <<[op |-> "write", var |-> v, val |-> x]>>
Load(v) == <<[op |-> "load", var |-> v]>>
StoreNext(v) == <<[op |-> "store_next", var |-> v]>>
StoreWithCode(v) == <<[op |-> "store_with_code", var |-> v]>>
Increment(v) == Load(v) \o StoreNext(v)
RecordCode(v) == Load(v) \o StoreWithCode(v)

(* Assertions, the branch of a test that ends in signal_fail, the end. *)
AssertIn(v, s) == <<[op |-> "assert", var |-> v, ok |-> s]>>
AssertCode(s) == <<[op |-> "assert_code", ok |-> s]>>
AssertRising(v) == <<[op |-> "assert_rising", var |-> v]>>
Pass == <<[op |-> "pass"]>>

Work(n) == <<[op |-> "work", most |-> n]>>
Printing == Work(PrintSteps)
Spin(v, s) == <<[op |-> "spin", var |-> v, ok |-> s]>>

(* while !(v in s) { wfi } : the test and the wfi are two instructions. *)
SleepUntil(v, s) == <<[op |-> "until", var |-> v, ok |-> s], [op |-> "wfi"]>>

Divide(d) == <<[op |-> "divide", by |-> d]>>
TimerInit(k) == <<[op |-> "timer_init", timer |-> k]>>
TimerCmp(k, c) == <<[op |-> "timer_cmp", timer |-> k, cmp |-> c]>>
TimerPeriod(k, t) == <<[op |-> "timer_period", timer |-> k, ticks |-> t]>>
TimerRun(k, on) == <<[op |-> "timer_run", timer |-> k, to |-> on]>>

AlarmAt(c) == <<[op |-> "mtimer_cmp", cmp |-> c]>>
AlarmAfterSample(t) == <<[op |-> "mtimer_after_sample", ticks |-> t]>>
OneShot(t) == <<[op |-> "oneshot", ticks |-> t]>>
MTimerRun(on) == <<[op |-> "mtimer_run", to |-> on]>>
MTimerReset == <<[op |-> "mtimer_reset"]>>
MTimerToMax == <<[op |-> "mtimer_to_max"]>>
Sample == <<[op |-> "sample"]>>
PushSample(v) == <<[op |-> "push", var |-> v]>>
SkipUnlessFull(v, n) == <<[op |-> "skip_unless_full", var |-> v, n |-> n]>>
(* match Interrupt::from_number(mcause): the handler goes on in arms[irq]. *)
MatchIrq(arms) == <<[op |-> "match", arms |-> arms]>>
ReturnNow == <<[op |-> "return"]>>

(* F(s[1]), F(s[2]), ... one after the other. *)
ForAll(s, F(_)) == FlattenSeq([k \in DOMAIN s |-> F(s[k])])

(* #[nested_interrupt] and nested(): interrupts on around the body. *)
Nested(body) == Interrupts(TRUE) \o body \o Interrupts(FALSE)

-----------------------------------------------------------------------------
(* clic_pend.rs and mcause_should_be_interrupt.rs *)

None == 0

ClicPend ==
  [uses |-> {"MachineSoft"}, vars |-> [LAST_IRQ |-> None],
   main |-> Setup("MachineSoft", 136) \o Interrupts(TRUE) \o Pend("MachineSoft")
            \o AssertIn("LAST_IRQ", {Number["MachineSoft"]})
            \o Tear("MachineSoft") \o Pass,
   isr |-> [DefaultHandler |->
              AssertCode({Number["MachineSoft"]})
              \o Write("LAST_IRQ", Number["MachineSoft"])]]

McauseShouldBeInterrupt ==
  [uses |-> {"MachineSoft"}, vars |-> [LAST_IRQ |-> None],
   main |-> Configure("MachineSoft", [edge |-> TRUE])
            \o Configure("MachineSoft", [shv |-> TRUE])
            \o Configure("MachineSoft", [level |-> 136])
            \o Configure("MachineSoft", [ie |-> TRUE])
            \o Interrupts(TRUE) \o Pend("MachineSoft")
            \o AssertIn("LAST_IRQ", {3})
            \o Configure("MachineSoft", [ie |-> FALSE])
            \o Configure("MachineSoft", [shv |-> FALSE])
            \o Configure("MachineSoft", [edge |-> FALSE]) \o Pass,
   isr |-> [DefaultHandler |->
              Unpend("MachineSoft") \o AssertCode({3}) \o Write("LAST_IRQ", 3)]]

(* clic_all_irqs.rs *)

TestIrqs == <<"MachineSoft", "MachineTimer", "MachineExternal", "Uart",
              "Dma0", "Dma1", "Dma2", "Dma3", "Dma4", "Dma5", "Dma6", "Dma7",
              "Dma8", "Dma9", "Dma10", "Dma11", "Dma12", "Dma13", "Dma14",
              "Dma15">>

ClicAllIrqs ==
  LET used == {TestIrqs[k] : k \in DOMAIN TestIrqs}
      SetupOne(i) == Setup(i, 136)
  IN  [uses |-> used, vars |-> [IRQ_RECVD |-> {}],
       main |-> ForAll(TestIrqs, SetupOne) \o Interrupts(TRUE) \o ForAll(TestIrqs, Pend)
                \o Work(Delay)
                \o AssertIn("IRQ_RECVD", {{Number[i] : i \in used}})
                \o ForAll(TestIrqs, Tear) \o Pass,
       isr |-> [DefaultHandler |-> RecordCode("IRQ_RECVD")]]

-----------------------------------------------------------------------------
(* clic_nested.rs, nested_interrupt_macros.rs, nested_pcs_..._macros.rs *)

(* With the threshold raised, the pending interrupts are kept back. *)
HeldBack(pends) == Threshold(255) \o Interrupts(TRUE) \o pends \o Threshold(0)

(* One handler for both: the code in mcause says which came. *)
ClicNested ==
  [uses |-> {"Dma0", "Dma1"}, vars |-> [LOCK |-> 0],
   main |-> Setup("Dma0", 1) \o Setup("Dma1", 2)
            \o HeldBack(Pend("Dma0") \o Pend("Dma1")) \o Work(Delay)
            \o AssertIn("LOCK", {2}) \o Interrupts(FALSE)
            \o Tear("Dma0") \o Tear("Dma1") \o Pass,
   isr |-> [DefaultHandler |-> MatchIrq([Dma0 |-> "lo", Dma1 |-> "hi"]),
            lo |-> Nested(Spin("LOCK", {1, 2})) \o Write("LOCK", 2),
            hi |-> Write("LOCK", 1)]]

LockHandlers ==
  [Dma0 |-> Nested(Pend("Dma1") \o Spin("LOCK", {1, 2}) \o Write("LOCK", 2)),
   Dma1 |-> Nested(Write("LOCK", 1))]

NestedInterruptMacros ==
  [uses |-> {"Dma0", "Dma1"}, vars |-> [LOCK |-> 0],
   main |-> Setup("Dma0", 1) \o Setup("Dma1", 2) \o HeldBack(Pend("Dma0"))
            \o Spin("LOCK", {2}) \o Interrupts(FALSE)
            \o Tear("Dma0") \o Tear("Dma1") \o AssertIn("LOCK", {2}) \o Pass,
   isr |-> LockHandlers]

(* The body of the loop that is run twice. *)
PcsRound ==
  Write("LOCK", 0) \o Setup("Dma0", 1) \o Setup("Dma1", 2)
  \o Pcs("Dma0", TRUE) \o Pcs("Dma1", TRUE) \o HeldBack(Pend("Dma0"))
  \o Spin("LOCK", {2}) \o Interrupts(FALSE) \o Tear("Dma0") \o Tear("Dma1")
  \o Pcs("Dma0", FALSE) \o Pcs("Dma1", FALSE)

NestedPcsInterruptMacros ==
  [uses |-> {"Dma0", "Dma1"}, vars |-> [LOCK |-> 0],
   main |-> PcsRound \o PcsRound \o AssertIn("LOCK", {2}) \o Pass,
   isr |-> LockHandlers]

-----------------------------------------------------------------------------
(* trampolines.rs *)

Emulated == <<"Dma0", "Dma1", "Dma2", "Dma3", "Dma4", "Dma5">>
HardwareStacked == <<"Dma2", "Dma4", "Dma5">>
Counter == [Dma0 |-> "CNT0", Dma1 |-> "CNT1", Dma2 |-> "CNT2",
            Dma3 |-> "CNT3", Dma4 |-> "CNT4", Dma5 |-> "CNT5"]

TrampolinesMain ==
  LET PcsOn(i) == Pcs(i, TRUE)
  IN  FlattenSeq([k \in DOMAIN Emulated |-> Setup(Emulated[k], k)])
      \o Setup("MachineTimer", 255) \o ForAll(HardwareStacked, PcsOn)
      \o Interrupts(TRUE) \o OneShot(Timeout) \o ForAll(Emulated, Pend)
      \o SleepUntil("CNT0", {})

(* The six ways to enter a handler, and the timeout that checks them. *)
TrampolinesHandlers ==
  LET Count(i) == Increment(Counter[i])
      CountedOnce(i) == AssertIn(Counter[i], {1})
      PcsOff(i) == Pcs(i, FALSE)
  IN  [Dma0 |-> Count("Dma0"),
       Dma1 |-> Nested(Count("Dma1")), Dma2 |-> Nested(Count("Dma2")),
       Dma3 |-> Nested(Count("Dma3")), Dma4 |-> Nested(Count("Dma4")),
       Dma5 |-> Nested(Count("Dma5")),
       MachineTimer |-> ForAll(Emulated, CountedOnce) \o ForAll(Emulated, Tear)
                        \o Tear("MachineTimer")
                        \o ForAll(HardwareStacked, PcsOff) \o Pass]

Trampolines ==
  [uses |-> {Emulated[k] : k \in DOMAIN Emulated} \union {"MachineTimer"},
   vars |-> [v \in {Counter[i] : i \in DOMAIN Counter} |-> 0],
   main |-> TrampolinesMain, isr |-> TrampolinesHandlers]

-----------------------------------------------------------------------------
(* timer_group_irq.rs *)

CmpIrq == [k \in Tasks |-> <<"Timer0Cmp", "Timer1Cmp", "Timer2Cmp",
                             "Timer3Cmp">>[k + 1]]
TimersOf == {CmpIrq[k] : k \in Tasks}

(* F(0), F(1), F(2), F(3): what is written out for the four timers. *)
ForTimers(F(_)) == F(0) \o F(1) \o F(2) \o F(3)

TimerGroupMain ==
  LET SetupTimer(k) == Setup(CmpIrq[k], 136)
      TearTimer(k) == Tear(CmpIrq[k])
      CmpTimer(k) == TimerCmp(k, (k + 1) * Interval)
      EnableTimer(k) == TimerRun(k, TRUE)
  IN  ForTimers(SetupTimer) \o Setup("MachineTimer", 136)
      \o AlarmAt(5 * Interval) \o ForTimers(TimerInit) \o ForTimers(CmpTimer)
      \o ForTimers(EnableTimer) \o MTimerRun(TRUE) \o Interrupts(TRUE)
      \o SleepUntil("TIMEOUT", {TRUE}) \o Interrupts(FALSE)
      \o ForTimers(TearTimer) \o Tear("MachineTimer")
      \o AssertIn("IRQ_RECVD", {{Number[i] : i \in TimersOf}}) \o Pass

FlagOnce(k) == TimerRun(k, FALSE) \o Printing \o RecordCode("IRQ_RECVD")

TimerGroupHandlers ==
  [Timer0Cmp |-> FlagOnce(0), Timer1Cmp |-> FlagOnce(1),
   Timer2Cmp |-> FlagOnce(2), Timer3Cmp |-> FlagOnce(3),
   MachineTimer |-> Write("TIMEOUT", TRUE) \o MTimerReset]

TimerGroupIrq ==
  [uses |-> TimersOf \union {"MachineTimer"},
   vars |-> [IRQ_RECVD |-> {}, TIMEOUT |-> FALSE],
   main |-> TimerGroupMain, isr |-> TimerGroupHandlers]

-----------------------------------------------------------------------------
(* mtimer_as_rtc.rs, mtimer_is_monotonic.rs and clic_mtimer.rs *)

(* A line of text is short against a second. *)
MtimerAsRtc ==
  [uses |-> {"MachineTimer", "Timer0Cmp"}, vars |-> [IRQ_COUNTER |-> 0],
   main |-> Setup("MachineTimer", 136) \o TimerInit(0)
            \o Setup("Timer0Cmp", 136) \o OneShot(Second)
            \o TimerCmp(0, Second \div 2) \o TimerRun(0, TRUE)
            \o Interrupts(TRUE) \o SleepUntil("IRQ_COUNTER", {Seconds})
            \o Interrupts(FALSE) \o Tear("MachineTimer") \o Tear("Timer0Cmp")
            \o Pass,
   isr |-> [MachineTimer |-> Increment("IRQ_COUNTER") \o OneShot(Second)
                             \o Work(2),
            Timer0Cmp |-> Work(2)]]

SampleHandler ==
  Sample \o Printing \o PushSample("SAMPLES")
  \o SkipUnlessFull("SAMPLES", 2) \o Write("STOP", TRUE) \o ReturnNow
  \o AlarmAfterSample(Interval)

MtimerIsMonotonic ==
  [uses |-> {"MachineTimer"}, vars |-> [SAMPLES |-> <<>>, STOP |-> FALSE],
   main |-> Setup("MachineTimer", 136) \o Sample \o AlarmAfterSample(Interval)
            \o Interrupts(TRUE) \o MTimerRun(TRUE)
            \o SleepUntil("STOP", {TRUE}) \o AssertRising("SAMPLES")
            \o Tear("MachineTimer") \o Pass,
   isr |-> [MachineTimer |-> SampleHandler]]

(* The lock is polled between changes of the LEDs: no wfi.  The two writes *)
(* of the control register set a prescaler too, which slows the timer down.*)
ClicMtimer ==
  [uses |-> {"MachineTimer"}, vars |-> [LOCK |-> TRUE],
   main |-> Interrupts(TRUE) \o Setup("MachineTimer", 136)
            \o AlarmAt(2 * Second) \o MTimerRun(TRUE) \o Spin("LOCK", {FALSE})
            \o MTimerRun(FALSE) \o AlarmAt(0) \o Tear("MachineTimer")
            \o Interrupts(FALSE) \o Pass,
   isr |-> [DefaultHandler |-> Unpend("MachineTimer") \o Write("LOCK", FALSE)]]

-----------------------------------------------------------------------------
(* periodic_tasks: TASKk runs every Periods[k], and all of it stops after  *)
(* TestDuration.                                                           *)

TaskCount == [k \in Tasks |-> <<"TASK0_COUNT", "TASK1_COUNT", "TASK2_COUNT",
                                "TASK3_COUNT">>[k + 1]]
TaskLevel(k) == k + 1

(* What a test of duration d demands of the count of a task with period p: *)
(* d / p, or one less.  A period lasts one tick more than p.               *)
Expected(d, p) == (d \div p) - 1 .. d \div p

TestRound(d, periods) ==
  LET ClearCount(k) == Write(TaskCount[k], 0)
      SetPeriod(k) == TimerPeriod(k, periods[k])
      StartTimer(k) == TimerRun(k, TRUE)
      AssertCount(k) == AssertIn(TaskCount[k], Expected(d, periods[k]))
  IN  ForTimers(ClearCount) \o Write("TIMEOUT", FALSE)
      \o ForTimers(TimerInit) \o ForTimers(SetPeriod)
      \o OneShot(d) \o ForTimers(StartTimer) \o Interrupts(TRUE)
      \o SleepUntil("TIMEOUT", {TRUE}) \o Interrupts(FALSE)
      \o ForTimers(AssertCount)

PeriodicMain(d, periods) ==
  LET SetupTask(k) == Setup(CmpIrq[k], TaskLevel(k))
      StackTask(k) == Pcs(CmpIrq[k], TRUE)
      TearTask(k) == Tear(CmpIrq[k])
      UnstackTask(k) == Pcs(CmpIrq[k], FALSE)
  IN  Divide(1) \o ForTimers(SetupTask) \o Setup("MachineTimer", 255)
      \o ForTimers(StackTask) \o TestRound(d, periods) \o ForTimers(TearTask)
      \o Tear("MachineTimer") \o ForTimers(UnstackTask) \o Pass

TaskHandler(k) == Nested(Increment(TaskCount[k]) \o Work(Workloads[k]))

StopTimers == LET StopTimer(k) == TimerRun(k, FALSE) IN ForTimers(StopTimer)

DropPending ==
  LET DropTimer(k) == Unpend(CmpIrq[k])
  IN  Unpend("MachineTimer") \o ForTimers(DropTimer)

(* A deviation: what is pending is dropped before the timers are stopped. *)
DropThenStop == DropPending \o StopTimers

StopThenDrop == StopTimers \o DropPending

TimeoutHandler ==
  Write("TIMEOUT", TRUE) \o MTimerRun(FALSE) \o MTimerToMax \o StopThenDrop

Periodic(d, periods) ==
  [uses |-> TimersOf \union {"MachineTimer"},
   vars |-> [v \in {TaskCount[k] : k \in Tasks} \union {"TIMEOUT"} |->
               IF v = "TIMEOUT" THEN FALSE ELSE 0],
   main |-> PeriodicMain(d, periods),
   isr |-> [Timer0Cmp |-> TaskHandler(0), Timer1Cmp |-> TaskHandler(1),
            Timer2Cmp |-> TaskHandler(2), Timer3Cmp |-> TaskHandler(3),
            MachineTimer |-> TimeoutHandler]]

(* A deviation, that of the FPGA build: at 30 MHz the releases that the    *)
(* test demands of task 3 take all of its duration but the last tick.      *)
PeriodicTasksAt30MHz == Periodic(TestDuration + 1, [Periods EXCEPT ![3] = @ - 1])

PeriodicTasks == Periodic(TestDuration, Periods)

-----------------------------------------------------------------------------
ProgramTable ==
  [clic_pend |-> ClicPend,
   mcause_should_be_interrupt |-> McauseShouldBeInterrupt,
   clic_all_irqs |-> ClicAllIrqs,
   clic_nested |-> ClicNested,
   nested_interrupt_macros |-> NestedInterruptMacros,
   nested_pcs_interrupt_macros |-> NestedPcsInterruptMacros,
   trampolines |-> Trampolines,
   timer_group_irq |-> TimerGroupIrq,
   mtimer_as_rtc |-> MtimerAsRtc,
   mtimer_is_monotonic |-> MtimerIsMonotonic,
   clic_mtimer |-> ClicMtimer,
   periodic_tasks |-> PeriodicTasks]
=============================================================================
