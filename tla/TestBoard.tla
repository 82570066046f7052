----------------------------- MODULE TestBoard ------------------------------
(***************************************************************************)
(* The test programs of TestPrograms running on the board: the core, the   *)
(* CLIC, the machine timer and the four timers, at the level of one call   *)
(* of a driver per step.  What happens inside a call, down to the bus, is  *)
(* the subject of ClicInt, MTimer and NestedTrap; here the question is how *)
(* calls, handlers and the passing of time combine.                        *)
(*                                                                         *)
(* Time: a tick stands for so many cycles of the timers' clock that, while *)
(* a timer runs, MinSteps .. MaxSteps operations of the core fall into it  *)
(* at clock divider 1, and div times as many at divider div.  A timer's    *)
(* pulse reaches the CLIC at most Lag operations after the tick.  The core *)
(* takes an interrupt between two operations as soon as it may.  mtime     *)
(* stops at Horizon, which stands for u64::MAX.                            *)
(***************************************************************************)
EXTENDS TestPrograms

CONSTANTS MinSteps, MaxSteps, Lag, Horizon, Chosen

ASSUME BoardAssumption ==
  /\ {MinSteps, MaxSteps, Lag, Horizon} \subseteq Nat \ {0}
  /\ Lag <= MinSteps /\ MinSteps <= MaxSteps
  /\ Chosen \subseteq DOMAIN ProgramTable

VARIABLES
  prog,    \* the program that runs
  stack,   \* the active contexts, main first:
           \* [irq, code, level, at, acc, worked]
  mie,     \* mstatus.MIE
  thresh,  \* mintthresh
  clic,    \* the configuration of each interrupt the program uses
  ip,      \* the pending interrupts
  mem,     \* the program's static variables
  div,     \* the peripheral clock divider
  timers,  \* the four timers: [on, cnt, cmp]
  mtimer,  \* the machine timer: [on, cnt, cmp]
  wire,    \* timer interrupts on their way to the CLIC
  age,     \* operations since the tick that sent them
  steps,   \* operations since the last tick; at a start, the clock's phase
  asleep,  \* the core waits in wfi
  verdict

vars == <<prog, stack, mie, thresh, clic, ip, mem, div, timers, mtimer, wire,
          age, steps, asleep, verdict>>

Program == ProgramTable[prog]
Unconfigured == [ie |-> FALSE, level |-> 0, shv |-> FALSE, edge |-> FALSE,
                 pcs |-> FALSE]
Main == [irq |-> "none", code |-> "main", level |-> 0, at |-> 1, acc |-> 0,
         worked |-> 0]

Init ==
  /\ prog \in Chosen
  /\ stack = <<Main>>
  /\ mie = FALSE
  /\ thresh = 0
  /\ clic = [i \in Program.uses |-> Unconfigured]
  /\ ip = {}
  /\ mem = Program.vars
  /\ div = 1
  /\ timers = [k \in Tasks |-> [on |-> FALSE, cnt |-> 0, cmp |-> 0]]
  /\ mtimer = [on |-> FALSE, cnt |-> 0, cmp |-> 0]
  /\ wire = {}
  /\ age = 0
  /\ steps \in 0 .. MinSteps
  /\ asleep = FALSE
  /\ verdict = "run"

-----------------------------------------------------------------------------
(* The core. *)

Top == Last(stack)
Code == IF Top.code = "main" THEN Program.main ELSE Program.isr[Top.code]
Done == Top.at > Len(Code)
Op == Code[Top.at]

(* The symbol the vector of i refers to, or the default it falls back to. *)
HandlerOf(i) ==
  IF Vector(i) \in DOMAIN Program.isr THEN Vector(i) ELSE "DefaultHandler"

(* A deviation: the level of the running handler does not count. *)
EligibleAtAnyLevel == {i \in ip : clic[i].ie /\ clic[i].level > thresh}

Eligible ==
  {i \in ip : /\ clic[i].ie
              /\ clic[i].level > thresh
              /\ clic[i].level > Top.level}

Above(i, j) ==
  \/ clic[i].level > clic[j].level
  \/ clic[i].level = clic[j].level /\ Number[i] > Number[j]

(* The highest level first, then the highest number. *)
Winner == CHOOSE i \in Eligible : \A j \in Eligible \ {i} : Above(i, j)

Interrupted == mie /\ Eligible # {}

Counting == mtimer.on \/ \E k \in Tasks : timers[k].on

(* The core may do something now: neither time nor a pulse is overdue. *)
InTime ==
  /\ verdict = "run"
  /\ ~asleep
  /\ Counting => steps < MaxSteps * div
  /\ wire # {} => age < Lag

Passing ==
  /\ steps' = IF Counting THEN steps + 1 ELSE steps
  /\ age' = IF wire # {} THEN age + 1 ELSE 0

Take ==
  /\ InTime /\ Interrupted
  /\ stack' = Append(stack, [irq |-> Winner, code |-> HandlerOf(Winner),
                             level |-> clic[Winner].level, at |-> 1, acc |-> 0,
                             worked |-> 0])
  /\ ip' = ip \ {Winner}
  /\ mie' = FALSE
  /\ Passing
  /\ UNCHANGED <<prog, thresh, clic, mem, div, timers, mtimer, wire, asleep,
                 verdict>>

(* mret *)
Return ==
  /\ InTime /\ ~Interrupted /\ Done
  /\ stack' = Front(stack)
  /\ mie' = TRUE
  /\ Passing
  /\ UNCHANGED <<prog, thresh, clic, ip, mem, div, timers, mtimer, wire, asleep,
                 verdict>>

(* The next operation is o; afterwards the context goes on as frame f says.*)
Perform(o) ==
  /\ InTime /\ ~Interrupted /\ ~Done
  /\ Op.op = o
  /\ Passing
  /\ UNCHANGED <<prog, wire>>

Continue(f) == stack' = [stack EXCEPT ![Len(stack)] = f]
Jump(n) == Continue([Top EXCEPT !.at = @ + n])
NextOp == Jump(1)
Keep(x) == Continue([Top EXCEPT !.at = @ + 1, !.acc = x])

csrs == <<mie, thresh>>
outcome == <<asleep, verdict>>
peripherals == <<div, timers, mtimer>>

-----------------------------------------------------------------------------
(* Calls of the CLIC driver and of the core's CSR functions. *)

SetupIrq ==
  /\ Perform("setup")
  /\ clic' = [clic EXCEPT ![Op.irq] =
                [@ EXCEPT !.edge = TRUE, !.shv = TRUE, !.level = Op.level,
                          !.ie = TRUE]]
  /\ NextOp
  /\ UNCHANGED <<csrs, ip, mem, peripherals, outcome>>

(* A deviation: as the old API's tear_irq, it keeps the level. *)
TearIrqKeepsLevel ==
  /\ Perform("tear")
  /\ clic' = [clic EXCEPT ![Op.irq] =
                [@ EXCEPT !.ie = FALSE, !.shv = FALSE, !.edge = FALSE]]
  /\ NextOp
  /\ UNCHANGED <<csrs, ip, mem, peripherals, outcome>>

TearIrq ==
  /\ Perform("tear")
  /\ clic' = [clic EXCEPT ![Op.irq] =
                [@ EXCEPT !.ie = FALSE, !.level = 0, !.shv = FALSE,
                          !.edge = FALSE]]
  /\ NextOp
  /\ UNCHANGED <<csrs, ip, mem, peripherals, outcome>>

(* A function that sets one field of the interrupt's word. *)
ConfigureIrq ==
  /\ Perform("configure")
  /\ clic' = [clic EXCEPT ![Op.irq] =
                [f \in DOMAIN @ |-> IF f \in DOMAIN Op.change THEN Op.change[f]
                                                              ELSE @[f]]]
  /\ NextOp
  /\ UNCHANGED <<csrs, ip, mem, peripherals, outcome>>

PendIrq ==
  /\ Perform("pend")
  /\ ip' = ip \union {Op.irq}
  /\ NextOp
  /\ UNCHANGED <<csrs, clic, mem, peripherals, outcome>>

UnpendIrq ==
  /\ Perform("unpend")
  /\ ip' = ip \ {Op.irq}
  /\ NextOp
  /\ UNCHANGED <<csrs, clic, mem, peripherals, outcome>>

SetThreshold ==
  /\ Perform("threshold")
  /\ thresh' = Op.to
  /\ NextOp
  /\ UNCHANGED <<mie, clic, ip, mem, peripherals, outcome>>

SetInterrupts ==
  /\ Perform("mie")
  /\ mie' = Op.to
  /\ NextOp
  /\ UNCHANGED <<thresh, clic, ip, mem, peripherals, outcome>>

clicAndCore == <<csrs, clic, ip, outcome>>

-----------------------------------------------------------------------------
(* The program's own steps. *)

WriteTo(x) ==
  /\ mem' = [mem EXCEPT ![Op.var] = x]
  /\ NextOp
  /\ UNCHANGED <<clicAndCore, peripherals>>

WriteVar == Perform("write") /\ WriteTo(Op.val)
StoreNextVar == Perform("store_next") /\ WriteTo(Top.acc + 1)
StoreCodeVar ==
  Perform("store_with_code") /\ WriteTo(Top.acc \union {Number[Top.irq]})
PushVar == Perform("push") /\ WriteTo(Append(mem[Op.var], Top.acc))

(* Operations that move this context on and leave all else alone. *)
LoadVar == Perform("load") /\ Keep(mem[Op.var])
SampleCounter == Perform("sample") /\ Keep(mtimer.cnt)
Working ==
  /\ Perform("work")
  /\ \/ Continue([Top EXCEPT !.at = @ + 1, !.worked = 0])
     \/ Top.worked + 1 < Op.most /\ Continue([Top EXCEPT !.worked = @ + 1])
Spinning ==
  /\ Perform("spin")
  /\ IF mem[Op.var] \in Op.ok THEN NextOp ELSE Jump(0)
Skipping ==
  /\ Perform("skip_unless_full")
  /\ Jump(IF Len(mem[Op.var]) = Capacity THEN 1 ELSE 1 + Op.n)
Returning == Perform("return") /\ Continue([Top EXCEPT !.at = Len(Code) + 1])
TestFlag ==
  /\ Perform("until")
  /\ Jump(IF mem[Op.var] \in Op.ok THEN 2 ELSE 1)

ContextStep ==
  /\ \/ LoadVar \/ SampleCounter \/ Working \/ Spinning \/ Skipping
     \/ Returning \/ TestFlag
  /\ UNCHANGED <<clicAndCore, mem, peripherals>>

(* wfi, after which the loop tests its flag again.  A pending interrupt    *)
(* that is enabled lets it through.                                        *)
WaitForInterrupt ==
  /\ Perform("wfi")
  /\ asleep' = (\A i \in ip : ~clic[i].ie)
  /\ Jump(-1)
  /\ UNCHANGED <<csrs, clic, ip, mem, peripherals, verdict>>

Checks(holds) ==
  /\ verdict' = IF holds THEN "run" ELSE "fail"
  /\ NextOp

Rising(s) == \A a, b \in DOMAIN s : a < b => s[a] < s[b]

(* assert!, the comparison before signal_fail, from_number's promise. *)
Asserting ==
  /\ \/ Perform("assert") /\ Checks(mem[Op.var] \in Op.ok)
     \/ Perform("assert_code") /\ Checks(Number[Top.irq] \in Op.ok)
     \/ Perform("assert_rising") /\ Checks(Rising(mem[Op.var]))
     \/ /\ Perform("match")
        /\ verdict' = IF Top.irq \in Decodable THEN "run" ELSE "fail"
        /\ Continue([Top EXCEPT !.code = Op.arms[Top.irq], !.at = 1])
  /\ UNCHANGED <<csrs, clic, ip, mem, peripherals, asleep>>

SignalPass ==
  /\ Perform("pass")
  /\ verdict' = "pass"
  /\ UNCHANGED <<stack, csrs, clic, ip, mem, peripherals, asleep>>

-----------------------------------------------------------------------------
(* Calls of the timer drivers. *)

DivideClock ==
  /\ Perform("divide")
  /\ div' = Op.by
  /\ NextOp
  /\ UNCHANGED <<clicAndCore, mem, timers, mtimer>>

SetTimer(t) ==
  /\ timers' = [timers EXCEPT ![Op.timer] = t]
  /\ NextOp
  /\ UNCHANGED <<clicAndCore, mem, div, mtimer>>

TimerNow == timers[Op.timer]

(* Writing the compare register zeroes the counter. *)
InitTimer ==
  Perform("timer_init") /\ SetTimer([on |-> FALSE, cnt |-> 0, cmp |-> Horizon])
SetTimerCmp ==
  Perform("timer_cmp") /\ SetTimer([TimerNow EXCEPT !.cmp = Op.cmp, !.cnt = 0])

SetPeriod ==
  /\ Perform("timer_period")
  /\ SetTimer([TimerNow EXCEPT !.cmp = Op.ticks \div div, !.cnt = 0])
RunTimer == Perform("timer_run") /\ SetTimer([TimerNow EXCEPT !.on = Op.to])

TimerCall == InitTimer \/ SetTimerCmp \/ SetPeriod \/ RunTimer

(* The machine timer's line, high while the counter has reached compare. *)
Line(m) == m.on /\ m.cnt >= m.cmp

(* The machine timer becomes m; low says that its line was low on the way. *)
SetMTimer(m, low) ==
  /\ mtimer' = m
  /\ ip' = IF Line(m) /\ (low \/ ~Line(mtimer))
           THEN ip \union {"MachineTimer"} ELSE ip
  /\ UNCHANGED <<csrs, clic, outcome, mem, div, timers>>

(* A deviation: the compare register goes from old to new directly. *)
SetCmpDirectly(c) == SetMTimer([mtimer EXCEPT !.cmp = c], FALSE)

(* MTimer::set_cmp: the low word is at its maximum in between. *)
SetCmp(c) == SetMTimer([mtimer EXCEPT !.cmp = c], TRUE)

(* OneShot::start: the compare value first, then the enable bit. *)
StartOneShot(c) == SetMTimer([mtimer EXCEPT !.cmp = c, !.on = TRUE], TRUE)

MTimerCall ==
  /\ \/ Perform("mtimer_cmp") /\ SetCmp(Op.cmp)
     \/ Perform("mtimer_after_sample") /\ SetCmp(Top.acc + Op.ticks)
     \/ Perform("oneshot") /\ StartOneShot(mtimer.cnt + Op.ticks \div div)
     \/ Perform("mtimer_run") /\ SetMTimer([mtimer EXCEPT !.on = Op.to], FALSE)
     \/ /\ Perform("mtimer_reset")
        /\ SetMTimer([on |-> FALSE, cnt |-> 0, cmp |-> Horizon], FALSE)
     \/ /\ Perform("mtimer_to_max")
        /\ SetMTimer([mtimer EXCEPT !.cnt = Horizon], FALSE)
  /\ NextOp

-----------------------------------------------------------------------------
(* Time. *)

(* The timer is reset to zero in the tick after it has reached compare. *)
Expires(t) == t.on /\ t.cnt >= t.cmp
Ticked(t) == CASE ~t.on -> t
               [] Expires(t) -> [t EXCEPT !.cnt = 0]
               [] OTHER -> [t EXCEPT !.cnt = @ + 1]

(* A sleeping core wakes at once: no tick passes between. *)
Waking == asleep /\ \E i \in ip : clic[i].ie

Tick ==
  /\ verdict = "run" /\ Counting
  /\ asleep \/ steps >= MinSteps * div
  /\ ~Waking
  /\ wire = {}
  /\ steps' = 0
  /\ age' = 0
  /\ timers' = [k \in Tasks |-> Ticked(timers[k])]
  /\ wire' = {CmpIrq[k] : k \in {n \in Tasks : Expires(timers[n])}}
  /\ mtimer' = IF mtimer.on /\ mtimer.cnt < Horizon
               THEN [mtimer EXCEPT !.cnt = @ + 1] ELSE mtimer
  /\ ip' = IF Line(mtimer') /\ ~Line(mtimer) THEN ip \union {"MachineTimer"}
                                             ELSE ip
  /\ UNCHANGED <<prog, stack, csrs, clic, mem, div, outcome>>

Arrive ==
  /\ verdict = "run"
  /\ \E i \in wire :
       /\ wire' = wire \ {i}
       /\ ip' = ip \union {i}
  /\ UNCHANGED <<prog, stack, csrs, clic, mem, peripherals, age, steps, outcome>>

Wake ==
  /\ verdict = "run" /\ Waking
  /\ asleep' = FALSE
  /\ UNCHANGED <<prog, stack, csrs, clic, ip, mem, peripherals, wire, age, steps,
                 verdict>>

Core ==
  \/ Take \/ Return
  \/ SetupIrq \/ TearIrq \/ ConfigureIrq \/ PendIrq \/ UnpendIrq
  \/ SetThreshold \/ SetInterrupts
  \/ WriteVar \/ StoreNextVar \/ StoreCodeVar \/ PushVar
  \/ ContextStep \/ WaitForInterrupt \/ Asserting \/ SignalPass
  \/ DivideClock \/ TimerCall \/ MTimerCall

Next == Core \/ Tick \/ Arrive \/ Wake

Spec == Init /\ [][Next]_vars

(* The core executes, the clocks run, and lines and the wake-up are wires. *)
FairSpec == Spec /\ WF_vars(Core) /\ WF_vars(Tick) /\ WF_vars(Arrive)
                 /\ WF_vars(Wake)

-----------------------------------------------------------------------------
TypeOK ==
  /\ prog \in Chosen
  /\ \A n \in DOMAIN stack :
       /\ stack[n].irq \in IF n = 1 THEN {"none"} ELSE Program.uses
       /\ stack[n].level \in 0 .. 255
       /\ n > 1 => stack[n - 1].level < stack[n].level
  /\ mie \in BOOLEAN /\ thresh \in 0 .. 255
  /\ DOMAIN clic = Program.uses /\ ip \subseteq Program.uses
  /\ DOMAIN mem = DOMAIN Program.vars
  /\ "SAMPLES" \in DOMAIN mem => Len(mem.SAMPLES) <= Capacity  \* not checked by push
  /\ div \in 1 .. 15
  /\ \A t \in {timers[k] : k \in Tasks} \union {mtimer} :
       t.on \in BOOLEAN /\ {t.cnt, t.cmp} \subseteq 0 .. Horizon
  /\ wire \subseteq Program.uses /\ age \in 0 .. Lag
  /\ steps \in 0 .. MaxSteps * div
  /\ asleep \in BOOLEAN /\ verdict \in {"run", "pass", "fail"}

(* No assertion of any program fails on the simulation target, however the *)
(* core's speed varies between MinSteps and MaxSteps: the counts, codes,   *)
(* orders and deadlines the tests check are those the code produces.  It   *)
(* takes a core of that speed, for six handlers have to come before the    *)
(* timeout (trampolines.rs:38), and a slack that the starts of the timers  *)
(* do not use up (periodic_tasks); at 30 MHz they do, and                  *)
(* PeriodicTasksAt30MHz fails.                                             *)
TestsPass == verdict # "fail"

Ended == \E v \in {"TIMEOUT", "STOP"} \intersect DOMAIN mem : mem[v]

(* Once the handler that ends a test has returned, no handler starts: what *)
(* main then reads without a lock (timer_group_irq.rs, mtimer_is_monotonic *)
(* and periodic_tasks) does not change under it.                           *)
QuietAfterEnd ==
  [][Ended /\ Top.irq # "MachineTimer" => Len(stack') <= Len(stack)]_vars

(* "Tear down the IRQ configuration to avoid side-effects for further      *)
(* testing": every interrupt a test has set up is back to its reset        *)
(* configuration when the test reports, hardware stacking included.  The   *)
(* old API's tear_irq leaves the level.                                    *)
CleanAfterPass ==
  verdict = "pass" =>
    \A i \in Program.uses :
      clic[i] = [Unconfigured EXCEPT
                   !.level = IF prog = "mcause_should_be_interrupt"
                             THEN clic[i].level ELSE 0]

(* The flag main waits for is set and the core sleeps: the interrupt that  *)
(* set it came between the test of the flag and the wfi.                   *)
Overslept ==
  /\ asleep
  /\ Len(stack) = 1
  /\ Op.op = "until" /\ mem[Op.var] \in Op.ok

(* Every test comes to its report, except that it may sleep for ever in    *)
(* that way.                                                               *)
EventuallyReports == <>(verdict = "pass") \/ <>[]Overslept

(* What main.rs promises: "Test will end when MachineTimer fires".         *)
TestEnds == <>(verdict # "run")
=============================================================================
