--------------------------- MODULE ConsolePrograms ---------------------------
(***************************************************************************)
(* The programs that talk to a person or to the test bench: through the    *)
(* UART driver (uart.rs), the LEDs (led.rs, gpio.rs) and the end-of-test   *)
(* signals and fault handlers (tb.rs, panic_handler in lib.rs).  As in     *)
(* TestPrograms a program is a sequence of operations, but here an         *)
(* operation is one access to a register: module Console says what each    *)
(* does.  A line of text stands for its last character, a tag for a        *)
(* character of its own.                                                   *)
(***************************************************************************)
EXTENDS Naturals, SequencesExt

CONSTANTS
  Freq,        \* CPU_FREQ of each target
  Baud,        \* UART_BAUD of each target
  BufferSize   \* uart_echo: the capacity of buf

Targets == {"fpga", "rtl_tb"}

ASSUME ConsoleAssumption ==
  /\ Freq \in [Targets -> Nat \ {0}] /\ Baud \in [Targets -> Nat \ {0}]
  /\ BufferSize \in Nat \ {0}

(* Characters: CR, LF, 'q', any other one, and one of each test tag. *)
CR == 13
LF == 10
Quit == 113
Other == 97
Passed == 80
Failed == 70

-----------------------------------------------------------------------------
(* Operations. *)

Do(o) == <<[op |-> o]>>
Divisor(v) == <<[op |-> "divisor", by |-> v]>>
Write(r, v) == <<[op |-> "write", reg |-> r, val |-> v]>>
SetLcr(f) == <<[op |-> "write_lcr", how |-> f]>>
ModifyLcr(f) == Do("read_lcr") \o SetLcr(f)
GoBack(n) == <<[op |-> "back", by |-> n]>>
Set(v, x) == <<[op |-> "set", var |-> v, to |-> x]>>
Alarm(on) == <<[op |-> "alarm", to |-> on]>>
Enable(on) == <<[op |-> "mie", to |-> on]>>
SetIrq(i, on) == <<[op |-> "irq", irq |-> i, to |-> on]>>
(* while v # x { wfi } : the test and the wfi are two instructions. *)
SleepUntil(v, x) == <<[op |-> "until", var |-> v, is |-> x]>> \o Do("wfi")
Forever(body) == body \o GoBack(Len(body))
(* Out of the loop when v = x. *)
Break(v, x) == <<[op |-> "break", var |-> v, is |-> x]>>

ForEach(s, F(_)) == FlattenSeq([k \in DOMAIN s |-> F(s[k])])

(* Application code between the calls of drivers: what may fault. *)
MayFault == Do("app")

(* A deviation: the frame is set, and DLAB cleared, before the divisor. *)
InitUartFrameFirst ==
  Divisor("register") \o Write("ier_dlm", 0) \o ModifyLcr("dlab_on")
  \o SetLcr("bits8") \o Do("divisor_lo") \o Do("divisor_hi")
  \o ModifyLcr("dlab_off") \o Do("clear_fifos") \o Set("is_init", TRUE)

(* ApbUartHal::init.  The divisor is computed from the clock divider. *)
InitUart ==
  Divisor("register") \o Write("ier_dlm", 0) \o ModifyLcr("dlab_on")
  \o Do("divisor_lo") \o Do("divisor_hi") \o SetLcr("bits8")
  \o ModifyLcr("dlab_off") \o Do("clear_fifos") \o Set("is_init", TRUE)

(* rust_minimal's init_uart: the same for a clock divider of 2. *)
InitUartMinimal ==
  Divisor("two") \o Write("ier_dlm", 0) \o SetLcr("dlab") \o Do("divisor_lo")
  \o Do("divisor_hi") \o SetLcr("bits8") \o Do("clear_fifos")

(* A deviation: the transmitter is not polled. *)
PutWithoutPoll(c) == Write("thr", c)

Put(c) == Do("poll_empty") \o Write("thr", c)

Line == Put(LF)

GetChar == Do("poll_data") \o Do("read")
PutChar == Do("poll_empty") \o Do("write_acc")

(* A deviation: DLAB is set while IER is written. *)
ListenLatched(i) ==
  Do("read_lcr") \o SetLcr("dlab_on") \o Write("ier_dlm", i) \o SetLcr("restore")

(* listen: the line control register is put aside, and all of it but DLAB  *)
(* cleared, while the interrupt enable register is written.                *)
Listen(i) ==
  Do("read_lcr") \o SetLcr("only_dlab") \o Write("ier_dlm", i)
  \o SetLcr("restore")

OnData == 1

-----------------------------------------------------------------------------
(* gpio.rs, and led.rs on top of it: a register is read, modified and      *)
(* written; a mask is a set of LEDs.                                       *)

Leds == 0 .. 3
Modify(r, how, m) ==
  <<[op |-> "read_gpio", reg |-> r],
    [op |-> "write_gpio", reg |-> r, how |-> how, mask |-> m]>>
Outputs(m) == Modify("en", "set", m) \o Modify("dir", "set", m)
LedOn(l) == Outputs({l}) \o Modify("out", "set", {l})
LedOff(l) == Outputs({l}) \o Modify("out", "clear", {l})
LedToggle(l) == Outputs({l}) \o Modify("out", "toggle", {l})
LedSet(l, on) == IF on THEN LedOn(l) ELSE LedOff(l)
AllOn == ForEach(<<0, 1, 2, 3>>, LedOn)
AllOff == ForEach(<<0, 1, 2, 3>>, LedOff)

(* Steps of a chase: the first LED of a pair goes off, the second on. *)
Chase(pairs) == LET Step(p) == LedOff(p[1]) \o LedOn(p[2]) IN ForEach(pairs, Step)

OkBlink ==
  LedOff(2) \o LedOff(3)
  \o Forever(LedOn(0) \o LedOn(1) \o LedOff(0) \o LedOff(1))

FailBlink == Forever(AllOn \o AllOff)
BlinkPanic == Forever(Chase(<<<<3, 1>>, <<1, 2>>, <<2, 0>>, <<0, 3>>>>))

(* signal_pass and signal_fail, by target; a store for the test bench, or  *)
(* LEDs for ever.                                                          *)
Signal(t, tag, word, blink) ==
  Put(tag) \o Line \o (IF t = "fpga" THEN blink ELSE Set("tb", word))
SignalPass(t) == Signal(t, Passed, "ok", OkBlink)
SignalFail(t) == Signal(t, Failed, "fail", FailBlink)

(* The UART is initialised by the fault handler unless it was already. *)
EnsureUart == <<[op |-> "skip_if_init", by |-> Len(InitUart)]>> \o InitUart

(* blink_exception: the LEDs show the low bits of mcause. *)
BlinkException(code) ==
  LET Show(l) == LedSet(l, l \in code)
  IN  EnsureUart \o Put(Failed) \o Line \o Line
      \o Forever(ForEach(<<0, 1, 2, 3>>, Show) \o AllOff)

(* What a panic says. *)
PanicMessage(t) ==
  Put(Other) \o Line \o (IF t = "fpga" THEN BlinkPanic ELSE Set("tb", "fail"))

(* A deviation: a fault before init prints with the UART as it is. *)
PanicHandlerTrusting(t) == PanicMessage(t)

PanicHandler(t) == EnsureUart \o PanicMessage(t)

PanicIn == [fpga |-> PanicHandler("fpga"), rtl_tb |-> PanicHandler("rtl_tb")]

(* blink_exception exists on the FPGA only (tb.rs:115): elsewhere the      *)
(* runtime crate's handler (external) loops for ever, and does nothing.    *)
ExceptionIn ==
  [fpga |-> [code \in SUBSET Leds |-> BlinkException(code)],
   rtl_tb |-> [code \in SUBSET Leds |-> <<>>]]

-----------------------------------------------------------------------------
(* The programs, for target t. *)

(* What the tests have in common: they print, test and signal. *)
Report(verdict) ==
  MayFault \o InitUart \o Line \o MayFault \o Line \o MayFault \o verdict

(* periodic_tasks sets the clock divider first. *)
Divided(t) == Do("divide") \o Report(SignalPass(t))

Minimal(t) == InitUartMinimal \o Put(Other) \o Line

(* Example led.rs: the LEDs and nothing else. *)
Blinky(t) == Forever(Chase(<<<<3, 0>>, <<0, 1>>, <<1, 2>>, <<2, 3>>>>))

(* Example gpio_blink.rs: of the bits 0 to 3 that it toggles only bit 0 is *)
(* an LED's; the LEDs are at bits 0, 8, 16 and 24.                         *)
GpioBlink(t) ==
  InitUart \o Line \o Outputs({0}) \o Forever(Modify("out", "toggle", {0}))

(* uart_irq.rs *)
UartIrqMain(t) ==
  InitUart \o Put(Other) \o Line \o SetIrq("Uart", TRUE) \o Listen(OnData)
  \o Enable(TRUE) \o Line \o SleepUntil("running", FALSE)
  \o SetIrq("Uart", FALSE) \o Enable(FALSE)

(* A deviation: the handler reads on, whether there is more or not. *)
UartHandlerReadsOn ==
  Line \o GetChar \o GetChar \o PutChar \o Do("quit_if_q") \o Line

UartHandler == Line \o GetChar \o PutChar \o Do("quit_if_q") \o Line

(* uart_echo.rs: the buffer is printed when it is full or a line ends. *)
EchoFlush == Line \o Do("clear_buffer") \o Line

(* A deviation: it is printed when a line ends only. *)
EchoUnlessFull ==
  <<[op |-> "skip_unless_done", full |-> FALSE, by |-> Len(EchoFlush)]>>

EchoTest ==
  <<[op |-> "skip_unless_done", full |-> TRUE, by |-> Len(EchoFlush)]>>

UartEcho(t) ==
  InitUart \o Line
  \o Forever(GetChar \o PutChar \o Do("push") \o EchoTest \o EchoFlush)

(* clic_mtimer.rs: LEDs 3 and 2 in turn until the handler opens the lock.  *)
WaitOnLock ==
  LET Turn(p) == Break("locked", FALSE) \o LedOff(p[1]) \o LedOn(p[2])
  IN  Forever(Turn(<<3, 2>>) \o Turn(<<2, 3>>))

ClicMtimerMain(t) ==
  InitUart \o Line \o Enable(TRUE) \o SetIrq("MachineTimer", TRUE)
  \o Alarm(TRUE) \o WaitOnLock \o Alarm(FALSE) \o SetIrq("MachineTimer", FALSE)
  \o Enable(FALSE) \o SignalPass(t)

LockHandler == Do("unpend") \o LedToggle(0) \o Set("locked", FALSE)

Programs(t) ==
  [pass |-> Report(SignalPass(t)),
   fail |-> Report(SignalFail(t)),
   blinky |-> Blinky(t),
   gpio_blink |-> GpioBlink(t),
   divided |-> Divided(t),
   minimal |-> Minimal(t),
   uart_irq |-> UartIrqMain(t),
   uart_echo |-> UartEcho(t),
   clic_mtimer |-> ClicMtimerMain(t)]

MainOf == [fpga |-> Programs("fpga"), rtl_tb |-> Programs("rtl_tb")]
Jobs == DOMAIN MainOf.fpga
=============================================================================
