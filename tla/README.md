# Atalanta: formal models

TLA+ models of the Atalanta real-time subsystem: its own RTL (`src/ip`), the
board support package that drives it (`examples/atalanta-bsp`) and the programs
around it. The models are checked with TLC on small instances; theorems about
them are checked with TLAPS for every value of their constants. `PROJECT.json`
lists components, runs, the source lines behind every definition, hazards,
findings and theorems in machine-readable form.

## 1. Inventory

Atalanta is a microcontroller built for short interrupt latency: an Ibex core
with a CLIC interrupt controller and a hardware register stack for interrupts
(PCS), tightly coupled instruction and data memories, a main OBI crossbar and,
behind an APB bridge and a clock divider, the slow peripherals.

| Part | State | Operations | Interacts with |
|---|---|---|---|
| `apb_mtimer.sv` | mtime, mtimecmp, prescaler, its counter, enable | count in every cycle without a write; word writes and reads | driver over APB; level interrupt to the CLIC |
| `mtimer.rs` | none of its own; calls in progress | enable, disable, counter, set_counter, reset, cmp, set_cmp, OneShot start/cancel | one APB access at a time, preemptible |
| `irq_pulse_cdc.sv` | stretch counter, output register | stretch a pulse; sample on the slow clock | core's interrupt acknowledge, DMA interrupts, CLIC |
| Trap trampolines, `nested()` | frames on the stack, mepc, mcause, MIE | entry, enable, call, disable, restore, mret | core, CLIC, compiled handlers |
| `clicint_reg_top.sv`, `clic/*.rs` | per interrupt: ip, ie, pcs, shv, trigger, mode, level | read-modify-write of one word; hardware sets and clears ip | gateway, core, drivers in every context |
| `obi_to_apb_intf.sv`, `obi_handshake_fsm.sv`, `obi_cut_intf.sv`, `obi_sram_intf.sv` | phase of a transfer; spill registers | request, grant, response | core, debug module, DMA; memories and APB |
| `rt_core.sv`, `rt_interconnect.sv`, `rt_pkg.sv` | none (routing by address) | demultiplex, arbitrate | every manager and subordinate |
| `apb_cfg_regs.sv`, FPGA clock divider | divisor, divider counter | write divisor; divide | all peripherals, timer drivers |
| `uart.rs`, `mock_uart.sv` | line, interrupt and divisor registers | init, listen, putc, getc, flush | APB |
| `uart_interrupt.h`, `circular_buffer.h`, `pattern_buffer.h` | rings with head and tail; pattern window | push, pop; handler and main share them | UART interrupt |
| `timer_group.rs`, `periodic_tasks`, interrupt tests of `hello_rt` | counter and compare of four timers; task counts, flags, samples | set_period, set_cmp, start, disable; set up and tear down; tasks; timeout handlers | CLIC, mtimer, nested traps |
| `gpio.rs`, `led.rs`, `lib.rs` | GPIO registers | set, clear, toggle: read-modify-write | handlers and main |
| `tb.rs`, panic and exception handlers | whether the UART is initialised; the test bench's mailbox; LEDs | signal_pass, signal_fail, blink patterns, report of a fault | UART, LEDs, test bench |
| `interrupt.rs`, `trap.rs` | none: numbers and the vector table | number to handler | CLIC, handlers |
| `register.rs` | CSR fields | bit-field extraction | core |
| `vip_rt_top.sv` | JTAG loader | load ELF, wait for the end | debug module |
| `rt_debug.sv`, `rt_top*.sv`, AXI bridges, FPGA wrappers | - | wiring of third-party IP | - |

What is hard here is not computation but time and interleaving:

* 64-bit registers accessed in 32-bit halves while the hardware counts;
* read-modify-write sequences in drivers, preempted by handlers that use the
  same driver, and raced by hardware that changes the same word;
* nesting: from the instruction that enables interrupts on, everything a
  trampoline has not put on the stack can change;
* two clocks with a programmable ratio;
* rings and flags shared between a handler and main, and a main that sleeps
  until a flag is set;
* tests whose assertions depend on the speed of the core against the timers;
* faults that come before, between and after the calls of the drivers that
  report them.

The properties that make each part correct: a timer interrupts exactly when the
deadline in force has been reached, and setting it up never makes it interrupt
early or not at all; a pulse crosses the clock boundary exactly once; a handler
returns to exactly the context it interrupted, at any nesting; a pending
interrupt is neither lost nor invented by configuration; every bus request gets
exactly one response with the data of its own address; every character put into
a ring leaves it once, in order, eventually; a periodic task runs once per
period until the end and never after it; a test ends with a verdict and leaves
the interrupts as it found them; whatever is printed arrives legibly, and a
fault is reported on the line and by the LEDs.

## 2. Plan

Modules, in order. Those marked * exist; section 3 describes them.

1. `DoubleWord`*, `ApbMTimer`*, `MTimer`*: timer peripheral and driver;
   `AlarmClock`* is their abstract specification, `MTimerAlarm`* the refinement.
2. `IrqPulseCdc`*.
3. `NestedTrap`*: trampolines on the core.
4. `ClicInt`*: one interrupt's register word, gateway and drivers.
5. `LsuBus`* with the abstract `OrderedMemory`*: routing, cuts, memory
   handshake, APB bridge.
6. `UartTx`*: the C driver's transmit ring.
7. `Interrupts`*, `TestPrograms`*, `TestBoard`*: the interrupt tests and
   `periodic_tasks`, which compose timers, interrupts and nested handlers.
8. `ConsolePrograms`*, `Console`*, `MCConsole`*: the programs that print, blink,
   read and fail, on the UART driver, the GPIO and the fault handlers.

Left for later: `UartRx` (receive loop, pattern window and the reader in
`uart_rx.c`), the address maps of `rt_pkg.sv` as functions, the bit fields of
`register.rs`, the JTAG loader of `vip_rt_top.sv`, the FPGA's clock divider.

One run per component answers its questions; safety and liveness of a component
share an instance wherever its state graph allows.

Theorems: the pulse synchroniser*; type correctness and the safety properties of
the timer driver for every word size and nesting depth*; the interrupt word for
every nesting depth and set of calls*; `InOrder` of the ring for every message
and size*; the refinement of `OrderedMemory` by the bus for every set of
addresses and values*; context restoration of nested traps for every number of
levels*, and the depth of their stack*; `OneShotNotEarly`* and the refinement of
the alarm clock*; the transmit FIFO, the receiving handler and the format and rate
of what `Console` prints, for every program and clock setting*. Left: the
properties of `TestBoard`.

## 3. Modules

### DoubleWord, ApbMTimer

`ApbMTimer` is `apb_mtimer.sv` with one action per peripheral clock cycle. The
three `Write...` actions are the cycles in which `penable_i && pwrite_i`;
`CountCycle` is every other cycle, reads included. A write to any register of
the block clears the prescale counter and skips one count, as in the RTL.
Registers of 64 bits are pairs of words over a `Base` (2^32 in the device), so
carries between the halves happen in small instances. `Irq` is the
combinational output.

### MTimer

The driver. A call is a sequence of word accesses; `pc[c]` is the next one and
every access is one action named for it, so the hardware counts (`Cycle`) and
other contexts run between any two. Contexts `1 .. Levels` are main and nested
handlers: a context moves only when all higher ones are idle, which is how one
core with nested interrupts behaves. `OneShot::start` is `counter`, `set_cmp`
and `enable` in sequence under `op = "start"`; `cancel` is `set_cmp` with all
ones; `MTimerLo::set_cmp` is `set_cmp` with a zero high word. Single-word reads
without an effect are `Cycle`.

`from`, `clean`, `alarm` and `quiet` are history variables. `clean[c]` says that
nobody else has made a call since c's began, which is the exclusivity that
`&mut self` promises within a program but `instance()` does not enforce.

### AlarmClock, MTimerAlarm

What a user is promised: a clock, a deadline, and a bell that rings exactly when
the clock is on and has reached the deadline. While a deadline is being
replaced the bell may go by the old or the new one. `MTimerAlarm` maps the
registers to it: the deadline in force is the one found by the first write of a
replacement until its last.

### IrqPulseCdc, IrqPulseCdcProofs

The stretch counter `cnt`, the slow output register, and the slow clock as a
`phase` with one edge in `divisor` fast cycles. `late` resolves the race between
the two edges either way. `owed` is pulses sent minus slow cycles in which the
output was set. Sources are assumed to leave `divisor` cycles between pulses.

### NestedTrap

Interrupts `1 .. MaxLevel`, one per level, each with a handler of one of four
kinds (`nested`, `pcs`, `plain`, `closure`), chosen at the start among
`Programs`. Registers hold tokens saying whose value they contain. A run of
instructions with interrupts disabled is one action; with interrupts enabled,
every instruction that matters is. The stack is explicit: frames are pushed and
popped word by word, and words below the stack pointer are `Dead`. The core
(entry, `mret`, PCS stacking), the CLIC's arbitration and the runtime crate's
trampoline are outside this repository and modelled from how it uses them.
`Volatile` is the set of registers a compiled handler overwrites: for the ABI of
the build target, ilp32e, all that the model has. The trampolines of this
repository put the EABI's caller-save registers away (archi.rs), so x6, x7 and
x14 of a preempted context are lost. `Lost(l)` names them for each handler:
nothing for one behind the runtime crate's trampoline. The properties promise
every other register, for whatever ABI; `ReturnRestoresAll` promises all of them,
and is false (section 5).

### ClicInt

One 32-bit interrupt word. A driver function is an update `[field, val]`; every
function reads the word (`Read`) and writes all of it back with one field
changed (`Write`), because the register block rejects narrower writes. A call is
a sequence of updates: a single function, or the sequences `setup_irq` and
`tear_irq` of the example programs. Contexts nest as in `MTimer`, by level. The
gateway (`LineChange`, `Follow`), the claim (`Take`) and other interrupts
(`TakeOther`) are modelled from their use, since `clic_apb` and the core are
external. Arbitration is the one that intctl.rs:13-15 documents: the higher
level, and at one level the higher number (`Outranks`). Another interrupt has a
level and a number that is higher or lower than this one's (`Rivals`); it is
taken before this one only if it outranks it. `setup_irq` of
`hello_rt` puts every interrupt at level 0x88, so there the number decides, and an interrupt with a low
number can starve: nothing is claimed of one that others outrank. `held[c]` is
the word in a register of context c between its read and its write: the state
that goes stale. `owed` is a history variable: an edge or a `pend()` that has
been neither taken nor unpended. `overlap` is chosen at the start: without it
nothing happens between a read and its write, as in a program that configures an
interrupt while its source is silent.

### LsuBus, OrderedMemory

The path of the core's load/store unit, one step per clock cycle of every part:
the demultiplexer of `rt_core.sv`, the crossbar's, the three register cuts in
the path as queues `a` (requests) and `r` (answers), the data memory's two-state
handshake and the three-state APB bridge. `lsu.cnt` and `xbar.cnt` are the
demultiplexers' counters of transactions in flight. `dbg` is `debug_mode |
debug_req_i`, free in every cycle: it switches the route to data memory. The
other managers (fetch, debug module, DMA, AXI) appear as multiplexers that do
not serve the LSU in a cycle (`stalled`), and the peripheral side of the clock
domain crossing as an access that takes any number of cycles (`busy`, `ready`)
and whose read data stays on the bus until the next one, which is what the
bridge's late `rvalid` needs. The OBI demultiplexers are external; `Opens` is
their rule that a port is left only when nothing is in flight on it.

`OrderedMemory` is what a program relies on: requests accepted, performed and
answered in one order. The refinement maps `todo` to the request queues and
`done` to the answer queues followed by the word that the memory or the bridge
is about to present.

### UartTx

`write_serial` at the granularity of its accesses to ring and registers, the
handler's accesses to the UART, and the UART's transmitter. The handler runs
between any two steps of main and main stands still meanwhile. The UART is
external (`apb_uart`), modelled as a 16550: the transmit interrupt is raised
when the FIFO becomes empty or is empty when the interrupt is enabled, and
cleared by reading the identification or by writing a character. The CLIC
latches its rising edge, as `init_uart_irq` configures it.

### Interrupts, TestPrograms, TestBoard

`Interrupts` holds the numbers of `interrupt.rs` and the vector table of
`trap.rs`: the core finds a handler by number, so a wrong entry of the table runs
another handler here too. `TestPrograms` holds the twelve programs of `hello_rt`
and `periodic_tasks` that configure interrupts and wait for them. Each is a
record of sequences: main, the handlers, the interrupts it uses and its static
variables. An operation is one call of the board support package (`setup`,
`tear`, `pend`, `set_period`, ...), one access to a static variable, one branch or
a stretch of work of any length up to a bound.

`TestBoard` executes them. One step of `Core` is one operation of the running
context; interrupts are taken between two operations as the level, the threshold
and `mstatus.MIE` allow, through the vector table, with or without hardware
stacking. `Tick` counts in the timers and the machine timer; a timer that
reaches its compare value sends its interrupt (`wire`), which arrives at the CLIC
a little later (`Arrive`). A failed assertion ends in `verdict = "fail"`, the end
of main in `"pass"`. `wfi` sleeps until something is pending and enabled (`Wake`).

External here: the CLIC's arbitration (the highest level, then the highest
number, as clic/intctl.rs documents), the timers of the timer group (a counter
that reaches its compare value raises the interrupt and is reset to zero, as
timer_group.rs:83 says, and zero is a count too, so a period has one tick more
than the compare value), and `wfi`, which ends without `mstatus.MIE` being set.

Time is relative. A tick stands for about 50 cycles of the 100 MHz clock of the
simulation target (`rtl-tb`). Between two ticks the core does at least `MinSteps`
and at most `MaxSteps` operations at clock divider 1, and divider times as many
otherwise; an operation, a driver call of one or two bus accesses or a few
instructions, is thus 4 to 10 cycles. When a timer is started the clock may be
anywhere between two ticks. An interrupt is at most `Lag` operations on its way,
and `mtime` stops at `Horizon`, which stands for `u64::MAX`. `Workloads` are the
longest bodies of the tasks in operations; every activation counts its own work.

### ConsolePrograms, Console, MCConsole

Nine programs that talk to a person or the test bench: the pass, fail and blink
examples, `gpio_blink`, a program that divides the clock, `rust_minimal`'s UART
example, `uart_irq`, `uart_echo` and the UART and LED side of `clic_mtimer`.
`ConsolePrograms` translates `uart.rs`, `gpio.rs`, `led.rs`, `tb.rs` and the panic
and exception handlers into sequences of single register accesses, and `Console`
executes them on a UART that decodes its registers as `mock_uart.sv` does. Reads
and writes of a read-modify-write are two steps, so a handler may come between
them. What was read is in the context's accumulator (`acc`).

A line of text is represented by its last character, a test tag by one character
of its own. `shift` sends a character well if the frame has eight bits and the
divisor gives the target's baud rate, at the clock divider that is in force,
with at most five percent of error; otherwise it is garbled. Of what was sent,
only the reports of faults and the number of garbled characters are remembered.
Frequencies and rates are in units of 100 Hz. Application code between driver
calls (`MayFault`) may panic or run into an exception. The handler that reports
an exception exists on the FPGA only (tb.rs:115); in simulation the runtime
crate's default handler loops for ever and the bench is told nothing, so
`OutcomeTold` excepts that case. It promises the verdict of a program that ends
without a fault, its `[PASSED]` or `[FAILED]` tag and the word for the bench, as
well as the report of a fault. `gpio_blink` toggles bits 0 to 3 of the outputs,
of which only bit 0 is an LED.

The person at the other end types only when the UART is initialised, no further
ahead than the trigger level `Burst` of the receive FIFO, and no longer after a
fault. `uart_irq` and `uart_echo` run on the FPGA target only: the mock receives
nothing. The FIFO, the shift register, the receive timeout and the trigger are
external, modelled as a 16550's.

`MCConsole` puts the Rust programs and the C driver of `UartTx` on the line in
turn: `rust` says which of the two runs, the other keeps its initial state.

## 4. Runs

| Run | Question | Instance |
|---|---|---|
| `mtimer_single` | Does the driver without preemption implement the alarm clock, and does a OneShot fire? | words of 3 values, all deadlines, counts and durations, prescaler 0..1 |
| `mtimer_preempt` | Does every call keep its promise when handlers use the driver too? | words of 2 values, 2 contexts |
| `mtimer_torn_read` | Is `counter()` torn without an interruption? (violation) | words of 3 values |
| `cdc_reachable` | Exactly one output cycle per pulse? | 8 counter values, divisors 1..7 |
| `cdc_register` | And with the width the instance has? (violation) | 4 counter values, divisors 2..15 |
| `trap_nesting` | Do nested handlers restore what they interrupted, and is the highest level served? | 3 levels, 11 programs, ilp32e |
| `trap_ilp32e` | And with the ABI of the build target? (violation) | 2 levels |
| `clic_setup` | Does configuring an interrupt disturb other fields, take it too early, lose or invent an edge, leave an edge unserved? | levels 0..2, 3 contexts, others of every lower level and of the same one |
| `lsu_bus` | Is the bus one ordered memory, with an answer to every request? | one memory word, one register, 2 values, 3 transactions in flight as in `rt_pkg` |
| `console` | Does everything that is printed arrive legibly, is the FIFO never overrun, are verdicts and faults told on the line, to the bench and by the LEDs, is what is typed read; with the C driver, do characters leave in order and does printing return? | 9 programs, 2 targets, dividers 1 and 2, transmit FIFO of 2, trigger level 2, 3 characters typed, 2 causes of exceptions; ring of 3, message of 6 |
| `programs` | Do the assertions of the tests hold at any speed of the core, is everything torn down, is it quiet after the end, does every test report? | 12 programs, 5 to 12 operations a tick, periods 40, 20, 14, 10 in a test of 80 ticks |
| `lost_wakeup` | Does `periodic_tasks` end when the timeout fires? (violation) | the same, `periodic_tasks` alone |

Words of two or three values are enough for every carry and every order of two
values in either half; a third level gives a handler that is both preempted and
preempting. With one interrupt per level, a handler cannot be re-entered, as in
the CLIC where a level must be exceeded. A trampoline can only be disturbed by
one that preempts it directly or by what that one lets in, so `trap_nesting`
runs the 11 programs of `Mixtures`, in which each of the sixteen pairs of kinds
occurs as a handler and the one that preempts it. Three transactions fill the
APB cut behind a slow peripheral and hold the next one in the cut before it. A
message of twice the ring's size wraps around it and fills it.

`programs`: the numbers are those of the simulation target, scaled by the tick. A
period of n lasts n + 1 ticks, as in the device, and the number of releases in
the test must stay within the tolerance of the assertion. In the device 319
periods of 313 cycles take 99847 of 100000 in simulation, which leaves 153
cycles, three ticks, to start the timers after the test's deadline has been set;
there, seven releases of task 3 are demanded in 80 ticks and take 77, which
leaves three ticks too. Starting the timers takes four operations, and may begin
anywhere in a tick, at the slowest core five operations to a tick. Tighter
numbers fail: at 30 MHz, the FPGA's clock, 319 periods of 94 cycles take 29986
of 30000, which the deviation `PeriodicTasksAt30MHz` stands for (section 5).
The work of the tasks is scaled likewise, and releases meet in every way: of task
2 while task 3 runs (ticks 45 and 44), as they always do in the device (626 cycles
are two times 313), and of task 1 while task 0 runs (42 and 41). The bound of 10 ticks for
`trampolines` is the 5 us, 500 cycles, of its source. With 7 ticks or less, or
with three operations a tick, the timeout overtakes the last handler and
`TestsPass` fails: the run is close to the edge it is about. Printing in
a handler takes up to 14 operations, more than a tick at any speed, so that it
overlaps with other interrupts.

`console`: a FIFO of two instead of sixteen is full after the second character
of any line; three characters typed with a trigger level of two arrive as a burst
and as a straggler that only the timeout announces.

Fairness. `MTimer`: the peripheral clock runs (`WF(Cycle)`) and a core in a call
proceeds. `IrqPulseCdc`: the fast clock runs. `NestedTrap`: a handler proceeds
and the core takes an interrupt it can take. `ClicInt`: weak fairness for the
core in a driver call; strong fairness for a handler's return (it makes finitely
many calls) and for taking the interrupt, which the core does at the first
instruction at which it may. `LsuBus`: again and again there is a cycle in which
no other manager is in the way and the peripheral is ready; arbitration in the
multiplexers is round-robin. `TestBoard`: the core executes, the clock ticks, and
an interrupt line and the wake-up are wires; nothing else is assumed, so a spin
on a variable proceeds only because a timer does. `Console`: the core does not
stop, what the UART and the timer have begun comes to its end, and nobody has to
type. `UartTx`: main, the handler, the wire.

## 5. Findings

* `counter()` (mtimer.rs:50) can be torn by a carry with no interruption at
  all: it reads high, then low, and does not re-read the high word. The comment
  blames interruption only. `OneShot::start` builds its deadline on it and then
  fires at once.
* `irq_pulse_cdc` gets a counter of `$clog2(4) = 2` bits for a 4-bit divisor;
  with a divisor of 4 or more pulses are lost.
* The nested trampolines save the EABI's caller-save registers, and the build
  target is `ilp32e`, where x6, x7 and x14 are caller-save too. `nested()`
  itself uses x6. `trap_ilp32e` shows such a register changed on return
  (`ReturnRestoresAll`).
* `periodic_tasks` (main.rs:176) tests `TIMEOUT` and then executes `wfi`, with
  interrupts enabled in between. When the timeout comes between the two the core
  sleeps for ever, since everything that could wake it has been disabled.
  `timer_group_irq.rs:71` and `mtimer_is_monotonic.rs:47` wait in the same way.
  `EventuallyReports` shows that this is the only way in which a test fails to
  report.

Findings on passing runs; the property holds there, and a deviation or the
assumptions of the run show the point:

* `periodic_tasks` on the FPGA (main.rs:219): at 30 MHz, 3125 ns are 93 ticks, a
  release comes every 94 cycles, and the 319 releases of task 3 that the
  assertion demands take 29986 of 30000 cycles. Timer 3 is started after
  `mtimer.start` and three other timers (main.rs:168-171), each a
  read-modify-write over APB, and that takes more than the 14 cycles left. The
  comment at main.rs:214 explains the tolerance of one by the task in flight; the
  drift and the late start need it too. The mutant `PeriodicTasksAt30MHz` of
  `TestsPass` is this case.
* `clic_nested.rs:3` calls the test unsound because it relies on interrupts being
  taken in the order of arrival. The model arbitrates by priority, as intctl.rs
  documents it, and the test passes.
* `mcause_should_be_interrupt.rs:4` says that the test fails in debug mode for an
  unknown reason. At the level of driver calls there is no such reason: the
  assertions hold wherever the interrupt falls. What a debug build does inside a
  call is not modelled, so the failure itself is not reproduced.
* `mtimer.rs:63` says that `reset()` sets the compare value to `u32::MAX`; the code
  writes all ones to both words. The comment's version is the mutant
  `ResetCmpHiZero`, which violates `ResetIsQuiet`.

Limitations that the models make visible and that are not runs of their own:

* `trampolines.rs` gives its six interrupts 5 us: 500 cycles in simulation, but
  150 on the FPGA, which is 3 ticks of the model. With `Timeout = 3` `TestsPass`
  fails even with the fastest core of the run: the timeout, at level 255,
  overtakes the handlers and finds a counter at zero.
* An interrupt at the same level as another with a higher number can starve
  (intctl.rs:13-15); `setup_irq` of `hello_rt` puts every interrupt at one level.
* A driver call that a handler's call on the same register interrupts between
  its read and its write undoes the handler's change: `enable()` of the timer,
  every function on an interrupt's word, the GPIO. `EnableKeepsPrescaler`,
  `SetCounterLands` and `CallSetsItsField` except it (`clean`).
* An exception in simulation ends in a loop of the runtime crate; only the
  bench's own timeout ends such a test.
* Every driver function that changes a field of an interrupt (intie.rs:61 and
  its siblings) writes back the pending bit it read: an edge between the read
  and the write is lost. `PendingIsOwed` holds when the source is silent
  meanwhile (`overlap = FALSE`).
* `uart_handler` turns its interrupt off and sends one character; after the last
  `write_serial` nobody turns it on again, so the tail of a message stays in the
  ring until something is printed again.
* `listen()` (uart.rs:133) says that it deasserts LCR[7] but keeps nothing else
  of the register: the frame has five bits while it writes the interrupt enable
  register, and a character that is sent meanwhile is garbled. `WellFormed`
  excepts it.
* The example of `rust_minimal` (uart.rs:19) takes the clock divider to be two,
  the reset value is one (rt_peripherals.sv:71); what it prints after a reset is
  not legible. `WellFormed` excepts it.
* The divisor is truncated (uart.rs:52), which gives a usable rate for some
  clock dividers only.
* The handler of `uart_irq` reads one character per edge of a line that is a
  level: with more characters waiting than the trigger level, no edge comes any
  more.
* `GpioHi` ignores its base address (gpio.rs:21). In `clic_mtimer`, main's
  read-modify-write of the LEDs can undo the handler's toggle.

## 6. Proofs

`MTimerProofs`, for every word size, prescaler range, set of arguments and depth
of preemption: `TypeCorrect`, `PrescaleCorrect`, `NoSpurious`, `ResetQuiet`,
`CounterLands` and `PrescalerKept`. None of the safety properties is inductive:
they speak of a call that is half done and say nothing of why. The invariant
`DriverInv` adds what the words written so far guarantee while a call is `clean`
(`Established`: for instance that the low half of mtimecmp is all ones between
the first and the last write of `set_cmp`), that a clean call has no other call
nested in it (`Exclusive`), that the next access belongs to the call's function
(`Matches`), and that `quiet` keeps mtimecmp at all ones (`StaysQuiet`). There
is one lemma per group of accesses, and the theorems follow from the invariant.
The assumptions are those of the modules: `Base` above 1, `Levels` above 0.
`NotEarly` states `OneShotNotEarly`. `AlarmInv` says that, while nobody else writes
to the timer, the deadline in force is what remains of the duration after the
current count (`Ahead`): the deadline that a call is installing until it has
written both halves, `mtimecmp` from then on. `PlusLater` is the arithmetic of
double words behind it.

For one caller (`SingleLevel`), `Implements` states `ImplementsAlarmClock`.
`SingleInv` adds to `DriverInv` that nothing disturbs the one call there is.
`BellRight` shows that what the peripheral signals is what the bell may do at
that moment, also between the writes of a deadline. Then each access is matched
with the step of the clock that it is, or with none. `MTimerAlarm` assumes that
its mark for a missing deadline is no double word (`NoDeadlineAssumption`); TLC
evaluates both in the instance of `MCMTimerAlarm`.

`OnePerPulseTheorem` (in `IrqPulseCdcProofs`): for all counter sizes and all
sets of divisors with `divisor < CntValues`, `[]OnePerPulse`, and `TypeCorrect`
under the same condition. The invariant adds
to `OnePerPulse` the relation between `cnt`, `phase` and `owed`: while the
counter runs, the pulse is owed exactly until the first slow edge after it.

`ClicIntProofs`, for every number of levels, depth of nesting and set of calls:

* `TypeCorrect`, with the invariant that a context between its read and its
  write is live and has an update left (`CallsUnderWay`).
* `FieldsKept` states `CallSetsItsField`. The invariant `CleanReads` says that a
  word that was read, and not written by another context since, still has the
  configuration that was read; the hardware changes only `ip`.
* `EdgesKept` states `PendingIsOwed`. Without overlap, a context between its read
  and its write is the one that runs, so there is only one (`RunsOnce`), and the
  word it holds is still the word (`Alone`); the pending bit it writes back is the
  one that is owed.
* `TakenSetUp` states `TakenAsSetUp`, assuming that main only calls `setup_irq`
  and `tear_irq` and that handlers change no more than the pending bit and the
  hardware stacking (`SetupAndTear`). The invariant `Ordered` says, for every
  prefix of the two sequences, what the word is already known to contain: the
  enable bit is set last and cleared first.

`UartTxProofs`, for every message and every size of the ring:
`CharactersInOrder` states `InOrder`, and `TypeCorrect` follows from it, because
no queue can be longer than what was pushed. The invariant adds what holds in the
middle of a push: the interrupt is off and the handler does not use the ring
(`Alone`), the ring is not full before a push and holds the new character before
head moves (`Place`). The lemmas `ToWire`, `ToLine`, `ToFifo` and `ToRing` say that
moving a character from one part of the queue to the next leaves the
concatenation as it is; `AdvanceContents` and `StartContents` do the arithmetic
of the ring, also where it wraps.

`LsuBusProofs`, for every set of addresses and values and every limit on the
transactions in flight: `TypeCorrect` (no queue overflows, no counter leaves its
range), `ApbHandshake` states `ApbProtocol`, and `Implements` states
`ImplementsOrderedMemory`. `BusAssumption` is all they assume: the address sets
are disjoint, there is a value, and a limit of at least one. `CycleMoves` first
replaces the wires of a cycle by six names for what moves in it. The invariant
`Inv` says that a demultiplexer counts what is in flight behind it (`XbarFlow`,
`LsuFlow`), that all of it is behind the port it has selected while the queues
of the other are empty, that a finished access still has its request in the
queue (`ApbBusy`) and that answers are never held up (`AnswersPass`). Without
the second part the refinement mapping, which puts the queues one behind the
other, would reorder requests. With it, the request queues are one line
(`TodoStep`), and so are the answers (`AllAnswers`, `DoneStep`); at most one
request is performed in a cycle (`OnePerforms`), and it is the first
(`FrontStep`).

`NestedTrapProofs`, for every number of levels, every assignment of trampolines to
interrupts and every size of the stack: `TypeCorrect`, `ContextRestored` states
`ReturnRestoresContext`, `RegistersOwned` states `OwnRegisters` and
`OwnHandlerCalled` states `CallsOwnHandler`. Nothing is assumed of the ABI: `Volatile`
is any set of registers. What the properties promise is every register that the
trampoline puts away or compiled code leaves alone, and the run `trap_ilp32e`
shows that these are not all. The invariant
describes every context on the stack, the running one and the preempted ones, by
the same predicate `Intact`: where its frame is and that the frame holds the
registers, `mepc` and `mcause` of what it preempted. `Chain` orders the preempted
contexts, so that what runs writes below all their frames (`StillIntact`), and
`CsrKept` says that interrupts are off whenever `mepc` and `mcause` are in no
frame. `Taken` shows that an interrupt, `GoesOn` that a handler's own steps and
`Returned` that an `mret` preserve all this; each trampoline only has to be shown
to be one of these. `StackDepth` states `StackBounded`. The depth allowed is
a sum over the levels defined by recursion, and the invariant leads from each
preempted context to the next one below it, down to main, whose stack pointer is
the top; the induction along the levels is done with a least counterexample
(`LeastElement`).

`ConsoleProofs`, for every program of `ConsolePrograms`, every initial setting of
the clock, every depth of the FIFO and every sequence of characters, faults and
interrupts:

* `Board` shows the invariant `BoardInv`. Its first half is about texts. The
  operations that only make sense behind another one (a character behind its
  poll, the line control register behind its read, the divisor behind the write
  that sets DLAB) are `Bound` and must directly follow it (`Follows`), and no jump
  lands on one (`Lands`). `Text` says this of a whole text and is shown of every
  program along its composition, so a further program only needs a lemma on how
  it is put together. The second half is about contexts: main, a handler,
  a panic or an exception above it, and a handler above a panic; each of them that
  stands before a bound operation knows what the operation before it has established, because
  what interrupts it changes nothing of that or does not return (`Frame`).
* `NotOverrun` states `FifoNotOverrun`. `putc` polls for an empty FIFO and writes
  in two accesses; a panic or a handler that prints can come in between, so
  `Queued` counts the writes still to come of the two uppermost contexts. Hence
  the hypothesis of two places; with one the property is false.
* `NeverSpins` states `GetcFinds`. `IrqInv` says that the interrupt is pending, or
  the handler still to read, only while the UART's line is high, which means that
  a character waits; and that nothing is received before the initialisation is
  over, so what it does to the UART cannot leave a stale interrupt.
* `PrinterInOrder` states `InOrder` of the C test on the same board, with the
  proof of `UartTxProofs` instantiated for its variables.

`ConsoleFormatProofs`, in the same generality: `SentWell` states `WellFormed`. The
property only counts characters that were garbled; why there are none is a matter
of what the UART's registers hold whenever a character leaves it, and that
depends on how far whoever runs has got with initialising it.

* The first part is again about texts: where in each program the eleven
  operations of `init` are (`Starts`, `Boots`), and that what comes behind them does
  not touch the divisor, the line control register or `is_init`, and does not jump
  back (`Late`, `Beyond`); the one exception is `listen` in `uart_irq` (`Opening`).
* `StageInv` gives every context its `Stage` in the initialisation, 0 to 12. Only
  the uppermost context can be in the middle of it; a panic or an exception that
  interrupts it starts over, and never returns; handlers run only when it is over.
  `is_init` tells a fault handler whether there is anything left to do.
* `RateInv` says what is `Known` of the registers at each stage: DLAB, the computed
  divisor, its halves as they are written, the frame. Nothing is in the FIFO or
  on the line before the last stage, so a half-written divisor sends nothing.
* `CountInv` is about the last accesses of `listen`, during which the frame has
  five bits. Only the line end that was written before, behind a poll for an empty
  FIFO, can still be on its way then: one character in the FIFO and one on the line.
* `MinimalInv` is the same for `rust_minimal`, which initialises in its own order
  (`Prepared`) and computes its divisor for a clock divided by two: two characters
  are printed, and they are legible when the divider is two.

`RateAssumption` is what the proof assumes of the numbers: with each setting that
the clock divider may have, `init` computes a divisor of one byte, not zero, and
within five percent of the rate (`UsableRates`). Integer division makes this false
for some settings, so it cannot be left out; TLC evaluates it for the settings of
the run.

Model-checked only:

* liveness, which is out of the prover's reach: `OneShotFires`, `PulseDelivered`,
  `HighestServed`, `EdgeServed`, `Answered`, `RxServed`, `PrintReturns`,
  `EventuallyReports`, `OutcomeTold`;
* `TypesOK` of the console: the type of the accumulator and of the programs'
  variables depends on which operation of each text was executed last, so that a
  proof would list the texts again; what of it matters, `BoardInv`, `StageInv` and
  `RateInv` state and the theorems use;
* the properties of `TestBoard`: they are about twelve fixed programs with fixed
  periods and time-outs, so that there is no constant to generalise over; a proof
  would go through the same cases as the run. `TestsPass` in particular is about
  how long things take in these programs.

## 7. Not modelled

Third-party IP in git submodules (Ibex, CLIC gateway, APB timers, UART, SPI,
DMA, crossbars) appears only as far as the code here depends on it. Top levels,
FPGA wrappers, AXI bridges and the debug wrapper are wiring. Output formatting,
build scripts and the instruction-level content of handlers are left out.

`uart_irq` of the C tests receives with `uart_interrupt.h` and `pattern_buffer.h`;
that side is not modelled, nor are the two hazards listed for it. The FPGA's
clock divider, the address maps, `register.rs` and the test bench's JTAG loader
are not modelled. Functions of the drivers that no program calls
(`set_period_offset`, `set_input`, `signal_wait`) are left out.
