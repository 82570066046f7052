------------------------------- MODULE Console -------------------------------
(***************************************************************************)
(* The programs of ConsolePrograms on a UART, LEDs and the core.  One step *)
(* of the core is one access to a register or a variable; the UART sends   *)
(* and receives meanwhile.                                                 *)
(*                                                                         *)
(* The UART decodes its registers as mock_uart.sv does.  On the mock a     *)
(* character is out at once and nothing is received; otherwise the part    *)
(* behind the registers is a 16550 (external): a transmit FIFO, a shift    *)
(* register that sends with the format and rate that are set, a receive    *)
(* FIFO that interrupts when Burst characters have arrived or when some    *)
(* have been waiting for a while.  The person at the other end types no    *)
(* more than Burst characters ahead and MaxTyped in all.                   *)
(***************************************************************************)
EXTENDS ConsolePrograms, FiniteSets

CONSTANTS
  Burst, MaxTyped,          \* the trigger level; what is typed in a run
  Dividers, ResetDivider,   \* settings of the peripheral clock divider
  Codes,                    \* causes of exceptions, as sets of LEDs
  FifoDepth                 \* of the transmitter

ASSUME BoardAssumption ==
  /\ {Burst, MaxTyped, FifoDepth} \subseteq Nat \ {0}
  /\ ResetDivider \in Dividers /\ Dividers \subseteq 1 .. 15 /\ Codes \subseteq SUBSET Leds

VARIABLES
  job, target, mock,   \* what runs where, and whether on mock_uart
  stack,               \* the active contexts: [code, at, acc, divisor]
  mie, ie, ip,         \* the core's and the CLIC's view of two interrupts
  alarm,               \* clic_mtimer's timer is running
  div,                 \* the peripheral clock divider
  lcr, dl, ier,        \* line control, divisor latch, interrupt enable
  fifo, shift,         \* transmission; shift: at most one [char, ok]
  legible, garbled,    \* which texts of Told were sent well, how many not
  rx, waiting, typed,  \* reception; characters have been waiting
  gpio,                \* en, dir and out as sets of LEDs
  mem,                 \* is_init, running, locked, buf, tb
  fault, cause         \* the fault that has happened

sent == <<legible, garbled>>
uart == <<lcr, dl, ier, fifo, shift, sent, rx, waiting>>
irqs == <<mie, ie, ip, alarm>>
chosen == <<job, target, mock>>
vars == <<chosen, stack, irqs, div, uart, typed, gpio, mem, fault, cause>>

(* The texts that tell how a program ended: a panic's message, the tags. *)
Told == {Other, Passed, Failed}

Start(c) == [code |-> c, at |-> 1, acc |-> 0, divisor |-> 0]

Init ==
  /\ job \in Jobs /\ target \in Targets
  /\ mock \in BOOLEAN
  /\ mock => target = "rtl_tb"
  /\ job \in {"uart_irq", "uart_echo"} => target = "fpga"
  /\ job = "divided" => target = "fpga" \/ mock
  /\ div \in Dividers
  /\ div # ResetDivider => job \in {"pass", "minimal", "divided"}
  /\ stack = <<Start("main")>>
  /\ mie = FALSE /\ ie = {} /\ ip = {} /\ alarm = FALSE
  /\ lcr = [dlab |-> FALSE, bits |-> 5] /\ dl = [lo |-> 0, hi |-> 0] /\ ier = 0
  /\ fifo = <<>> /\ shift = <<>> /\ legible = {} /\ garbled = 0
  /\ rx = <<>> /\ waiting = FALSE /\ typed = 0
  /\ gpio = [en |-> {}, dir |-> {}, out |-> {}]
  /\ mem = [is_init |-> FALSE, running |-> TRUE, locked |-> TRUE, buf |-> 0,
            tb |-> "none"]
  /\ fault = "none" /\ cause = {}

-----------------------------------------------------------------------------
(* The core.  At a wfi it waits for an interrupt, and goes on behind it.   *)

Top == Last(stack)
Code ==
  CASE Top.code = "main" -> MainOf[target][job]
    [] Top.code = "Uart" -> UartHandler
    [] Top.code = "MachineTimer" -> LockHandler
    [] Top.code = "panic" -> PanicIn[target]
    [] Top.code = "exception" -> ExceptionIn[target][cause]

Op == Code[Top.at]
Running == Top.at <= Len(Code)
Interrupted == mie /\ ip \cap ie # {}

Continue(f) == stack' = [stack EXCEPT ![Len(stack)] = f]
Goto(n) == Continue([Top EXCEPT !.at = n])
Skip(n) == Goto(Top.at + 1 + n)
NextOp == Skip(0)
Keep(x) == Continue([Top EXCEPT !.at = @ + 1, !.acc = x])

Perform(o) == ~Interrupted /\ Running /\ Op.op = o /\ UNCHANGED chosen

(* The first of the two interrupts; a wfi is over when one is taken. *)
Take ==
  /\ Interrupted
  /\ \E i \in ip \cap ie :
       /\ stack' = Append([stack EXCEPT ![Len(stack)].at =
                             IF Running /\ Op.op = "wfi" THEN @ - 1 ELSE @],
                          Start(i))
       /\ ip' = ip \ {i}
  /\ mie' = FALSE
  /\ UNCHANGED <<chosen, ie, alarm, div, uart, typed, gpio, mem, fault, cause>>

Return ==
  /\ ~Running /\ Top.code \in {"Uart", "MachineTimer"}
  /\ stack' = Front(stack)
  /\ mie' = TRUE
  /\ UNCHANGED <<chosen, ie, ip, alarm, div, uart, typed, gpio, mem, fault, cause>>

(* Application code goes on, panics, or runs into an exception. *)
App ==
  /\ Perform("app")
  /\ \/ NextOp /\ UNCHANGED <<mie, fault, cause>>
     \/ /\ fault' = "panic"
        /\ stack' = Append(stack, Start("panic"))
        /\ UNCHANGED <<mie, cause>>
     \/ /\ fault' = "exception" /\ cause' \in Codes
        /\ stack' = Append(stack, Start("exception"))
        /\ mie' = FALSE
  /\ UNCHANGED <<ie, ip, alarm, div, uart, typed, gpio, mem>>

outside == <<irqs, div, typed, fault, cause>>

Jumping ==
  /\ \/ Perform("back") /\ Goto(Top.at - Op.by)
     \/ Perform("skip_if_init") /\ Skip(IF mem.is_init THEN Op.by ELSE 0)
     \/ /\ Perform("break")
        /\ IF mem[Op.var] = Op.is
           THEN Goto(1 + CHOOSE n \in Top.at .. Len(Code) :
                           /\ Code[n].op = "back"
                           /\ \A k \in Top.at .. n - 1 : Code[k].op # "back")
           ELSE NextOp
     \/ Perform("until") /\ Skip(IF mem[Op.var] = Op.is THEN 1 ELSE 0)
     \/ /\ Perform("skip_unless_done")
        /\ LET done == Top.acc = CR \/ (Op.full /\ mem.buf = BufferSize)
           IN  Skip(IF done THEN 0 ELSE Op.by)
  /\ UNCHANGED <<outside, uart, gpio, mem>>

Storing ==
  /\ \/ Perform("set") /\ mem' = [mem EXCEPT ![Op.var] = Op.to]
     \/ /\ Perform("quit_if_q")
        /\ mem' = [mem EXCEPT !.running = @ /\ Top.acc # Quit]
     \/ Perform("push") /\ mem' = [mem EXCEPT !.buf = @ + 1]
     \/ Perform("clear_buffer") /\ mem' = [mem EXCEPT !.buf = 0]
  /\ NextOp
  /\ UNCHANGED <<outside, uart, gpio>>

Configuring ==
  /\ \/ Perform("mie") /\ mie' = Op.to /\ UNCHANGED <<ie, alarm, div>>
     \/ /\ Perform("irq")
        /\ ie' = IF Op.to THEN ie \union {Op.irq} ELSE ie \ {Op.irq}
        /\ UNCHANGED <<mie, alarm, div>>
     \/ Perform("alarm") /\ alarm' = Op.to /\ UNCHANGED <<mie, ie, div>>
     \/ Perform("unpend") /\ UNCHANGED <<mie, ie, alarm, div>>
     \/ Perform("divide") /\ div' = 1 /\ UNCHANGED <<mie, ie, alarm>>
  /\ ip' = IF Op.op = "unpend" THEN ip \ {Top.code} ELSE ip
  /\ NextOp
  /\ UNCHANGED <<typed, fault, cause, uart, gpio, mem>>

-----------------------------------------------------------------------------
(* LEDs: a word is read, then written with one bit changed. *)

ReadGpio ==
  /\ Perform("read_gpio")
  /\ Keep(gpio[Op.reg])
  /\ UNCHANGED <<outside, uart, gpio, mem>>

Changed(word, how, m) ==
  CASE how = "set" -> word \union m
    [] how = "clear" -> word \ m
    [] how = "toggle" -> (word \ m) \union (m \ word)

WriteGpio ==
  /\ Perform("write_gpio")
  /\ gpio' = [gpio EXCEPT ![Op.reg] = Changed(Top.acc, Op.how, Op.mask)]
  /\ NextOp
  /\ UNCHANGED <<outside, uart, mem>>

Lit == gpio.en \cap gpio.dir \cap gpio.out

-----------------------------------------------------------------------------
(* The UART. *)

Rate == 256 * dl.hi + dl.lo

(* Divisor v is within five percent of the rate of target t, at which the  *)
(* last bit of a frame is still hit, when the clock is divided by d.       *)
Fits(v, t, d) ==
  LET f == 16 * v * Baud[t] * d
  IN  v \in 1 .. 255 /\ 20 * (f - Freq[t]) <= Freq[t]
                     /\ 20 * (Freq[t] - f) <= Freq[t]

RightRate == Fits(Rate, target, div)

Legible == lcr.bits = 8 /\ RightRate

(* A character that is being sent suffers from every change. *)
ShiftOn == shift' = [n \in DOMAIN shift |->
                       [shift[n] EXCEPT !.ok = @ /\ Legible']]

Interrupting == ier % 2 = 1 /\ (waiting \/ Len(rx) >= Burst)
Latch ==
  ip' = IF Interrupting' /\ ~Interrupting THEN ip \union {"Uart"} ELSE ip

Lcr(how) ==
  CASE how = "dlab_on" -> [Top.acc EXCEPT !.dlab = TRUE]
    [] how = "dlab_off" -> [Top.acc EXCEPT !.dlab = FALSE]
    [] how = "only_dlab" -> [Top.acc EXCEPT !.bits = 5]
    [] how = "restore" -> Top.acc
    [] how = "bits8" -> [dlab |-> FALSE, bits |-> 8]
    [] how = "dlab" -> [dlab |-> TRUE, bits |-> 5]

ReadLcr ==
  /\ Perform("read_lcr")
  /\ Keep(lcr)
  /\ UNCHANGED <<outside, uart, gpio, mem>>

WriteLcr ==
  /\ Perform("write_lcr")
  /\ lcr' = Lcr(Op.how)
  /\ NextOp
  /\ UNCHANGED <<outside, dl, ier, fifo, sent, rx, waiting, gpio, mem>>
  /\ ShiftOn

(* A register's address means another register while DLAB is set. *)
WriteIerDlm(v) ==
  /\ IF lcr.dlab
     THEN dl' = [dl EXCEPT !.hi = v] /\ UNCHANGED ier
     ELSE ier' = v /\ UNCHANGED dl
  /\ NextOp
  /\ UNCHANGED <<mie, ie, alarm, div, typed, fault, cause, lcr, fifo, sent, rx,
                 waiting, gpio, mem>>
  /\ ShiftOn /\ Latch

(* A character for the transmitter, or the low byte of the divisor. *)
WriteThrDll(c) ==
  /\ \/ /\ lcr.dlab
        /\ dl' = [dl EXCEPT !.lo = c]
        /\ UNCHANGED <<fifo, sent>>
     \/ /\ ~lcr.dlab /\ mock
        /\ legible' = legible \union ({c} \cap Told)
        /\ UNCHANGED <<dl, fifo, garbled>>
     \/ /\ ~lcr.dlab /\ ~mock
        /\ fifo' = Append(fifo, c)
        /\ UNCHANGED <<dl, sent>>
  /\ NextOp
  /\ UNCHANGED <<outside, lcr, ier, rx, waiting, gpio, mem>>
  /\ ShiftOn

WriteChar ==
  \/ Perform("write") /\ Op.reg = "thr" /\ WriteThrDll(Op.val)
  \/ Perform("write_acc") /\ WriteThrDll(Top.acc)
  \/ Perform("divisor_lo") /\ WriteThrDll(Top.divisor % 256)

WriteIer ==
  \/ Perform("write") /\ Op.reg = "ier_dlm" /\ WriteIerDlm(Op.val)
  \/ Perform("divisor_hi") /\ WriteIerDlm(Top.divisor \div 256)

DivisorFor(t, d) == (Freq[t] \div d) \div (16 * Baud[t])

ComputeDivisor ==
  /\ Perform("divisor")
  /\ LET by == IF Op.by = "register" THEN div ELSE 2
     IN  Continue([Top EXCEPT !.at = @ + 1, !.divisor = DivisorFor(target, by)])
  /\ UNCHANGED <<outside, uart, gpio, mem>>

ClearFifos ==
  /\ Perform("clear_fifos")
  /\ fifo' = <<>> /\ rx' = <<>> /\ waiting' = FALSE
  /\ NextOp
  /\ UNCHANGED <<mie, ie, alarm, div, typed, fault, cause, lcr, dl, ier, shift, sent,
                 gpio, mem>>
  /\ Latch

(* A loop on the line status: over when the condition holds. *)
Poll ==
  /\ \/ Perform("poll_empty") /\ fifo = <<>>
     \/ Perform("poll_data") /\ rx # <<>>
  /\ NextOp
  /\ UNCHANGED <<outside, uart, gpio, mem>>

ReadChar ==
  /\ Perform("read")
  /\ Keep(Head(rx))
  /\ rx' = Tail(rx) /\ waiting' = FALSE
  /\ UNCHANGED <<mie, ie, alarm, div, typed, fault, cause, lcr, dl, ier, fifo, shift,
                 sent, gpio, mem>>
  /\ Latch

-----------------------------------------------------------------------------
(* What goes on by itself. *)

idle == <<chosen, stack, mie, ie, div, lcr, dl, ier, gpio, mem, fault, cause>>

Shift ==
  /\ fifo # <<>> /\ shift = <<>>
  /\ fifo' = Tail(fifo)
  /\ shift' = <<[char |-> Head(fifo), ok |-> Legible]>>
  /\ UNCHANGED <<idle, ip, alarm, sent, rx, waiting, typed>>

Transmit ==
  /\ shift # <<>>
  /\ IF shift[1].ok
     THEN legible' = legible \union ({shift[1].char} \cap Told) /\ UNCHANGED garbled
     ELSE garbled' = garbled + 1 /\ UNCHANGED legible
  /\ shift' = <<>>
  /\ UNCHANGED <<idle, ip, alarm, fifo, rx, waiting, typed>>

Type ==
  /\ fault = "none" /\ mem.is_init /\ Legible /\ Len(rx) < Burst /\ typed < MaxTyped
  /\ \E c \in IF job = "uart_irq" THEN {Other, Quit}
             ELSE IF job = "uart_echo" THEN {Other, CR} ELSE {} :
       rx' = Append(rx, c)
  /\ typed' = typed + 1
  /\ UNCHANGED <<idle, alarm, fifo, shift, sent, waiting>>
  /\ Latch

Timeout ==
  /\ rx # <<>> /\ ~waiting
  /\ waiting' = TRUE
  /\ UNCHANGED <<idle, alarm, fifo, shift, sent, rx, typed>>
  /\ Latch

AlarmRings ==
  /\ alarm
  /\ alarm' = FALSE
  /\ ip' = ip \union {"MachineTimer"}
  /\ UNCHANGED <<idle, fifo, shift, sent, rx, waiting, typed>>

-----------------------------------------------------------------------------
Core ==
  \/ Take \/ Return \/ App \/ Jumping \/ Storing \/ Configuring
  \/ ReadGpio \/ WriteGpio \/ ReadLcr \/ WriteLcr \/ WriteIer \/ WriteChar
  \/ ComputeDivisor \/ ClearFifos \/ Poll \/ ReadChar

Next == Core \/ Shift \/ Transmit \/ Type \/ Timeout \/ AlarmRings

Spec == Init /\ [][Next]_vars

(* The core does not stop; what the UART and the timer have begun comes to *)
(* its end.  Nobody has to type.                                           *)
FairSpec ==
  /\ Spec
  /\ WF_vars(Core) /\ WF_vars(Shift) /\ WF_vars(Transmit)
  /\ WF_vars(Timeout) /\ WF_vars(AlarmRings)

-----------------------------------------------------------------------------
(* Properties. *)

Chars == {CR, LF, Quit, Other, Passed, Failed}
Frames == {"main", "Uart", "MachineTimer", "panic", "exception"}

TypeOK ==
  /\ job \in Jobs /\ target \in Targets /\ mock \in BOOLEAN
  /\ Len(stack) \in 1 .. 3
  /\ \A n \in DOMAIN stack :
       /\ stack[n].code \in Frames /\ stack[n].at \in Nat \ {0}
       /\ stack[n].divisor \in Nat
  /\ mie \in BOOLEAN /\ alarm \in BOOLEAN
  /\ ie \union ip \subseteq {"Uart", "MachineTimer"}
  /\ div \in Dividers
  /\ lcr \in [dlab : BOOLEAN, bits : {5, 8}]
  /\ dl \in [lo : 0 .. 255, hi : 0 .. 255] /\ ier \in {0, OnData}
  /\ \A n \in DOMAIN fifo : fifo[n] \in Chars
  /\ Len(shift) <= 1
  /\ \A n \in DOMAIN shift : shift[n].char \in Chars
  /\ legible \subseteq Told /\ garbled \in Nat
  /\ \A n \in DOMAIN rx : rx[n] \in {Other, Quit, CR}
  /\ waiting \in BOOLEAN /\ typed \in 0 .. MaxTyped
  /\ gpio \in [{"en", "dir", "out"} -> SUBSET Leds]
  /\ mem \in [is_init : BOOLEAN, running : BOOLEAN, locked : BOOLEAN,
               buf : 0 .. BufferSize, tb : {"none", "ok", "fail"}]
  /\ fault \in {"none", "panic", "exception"} /\ cause \in SUBSET Leds

(* Whatever is printed is sent in the format and at the rate that the      *)
(* other end expects, whoever initialised the UART and whenever.  Two      *)
(* exceptions: rust_minimal takes the clock divider to be two, and listen  *)
(* cuts the frame to five bits while it writes the interrupt enable        *)
(* register, so in uart_irq the end of the line before it may be garbled.  *)
WellFormed ==
  garbled <= IF job = "uart_irq" \/ (job = "minimal" /\ div # 2) THEN 2 ELSE 0

(* putc's poll keeps the transmit FIFO from overrunning although a handler *)
(* that prints may come between main's poll and its write.                 *)
FifoNotOverrun == Len(fifo) <= FifoDepth

(* uart_irq: the handler's getc never spins: an interrupt means that a     *)
(* character is there, and none of them is counted twice.                  *)
GetcFinds ==
  Top.code = "Uart" /\ Running /\ Op.op = "poll_data" => rx # <<>>

(* A fault before, between and after the calls of the UART driver is told  *)
(* in a legible line, and to the test bench if that is where it runs; but  *)
(* for an exception on the test bench, which only the bench's own timeout  *)
(* ends.                                                                   *)
FaultIsReported ==
  fault = "panic" \/ (fault = "exception" /\ target = "fpga") ~>
    /\ (IF fault = "panic" THEN Other ELSE Failed) \in legible
    /\ target = "rtl_tb" => mem.tb = "fail"

(* Without a fault the verdict is told in the same ways. *)
VerdictIsReported ==
  job \in {"pass", "fail", "divided", "clic_mtimer"} ~>
    \/ fault # "none"
    \/ /\ (IF job = "fail" THEN Failed ELSE Passed) \in legible
       /\ target = "rtl_tb" => mem.tb = IF job = "fail" THEN "fail" ELSE "ok"

(* What the LEDs show in the end tells how the program ended: those of the *)
(* exception's code, all four, a pair, or one that moves.                  *)
Meant ==
  CASE fault = "exception" -> cause
    [] fault = "none" /\ job = "fail" -> Leds
    [] fault = "none" /\ job \in {"pass", "divided", "clic_mtimer"} -> {0, 1}
    [] OTHER -> {}

Blinking == target = "fpga" /\ (fault = "exception" \/ Meant # {})
Chasing == target = "fpga" /\ (fault = "panic" \/ job = "blinky")

LedsTell ==
  /\ <>[]Blinking =>
       <>[](Lit \subseteq Meant) /\ []<>(Lit = Meant) /\ []<>(Lit = {})
  /\ <>[]Chasing =>
       /\ <>[](Cardinality(Lit) <= 1)
       /\ []<>(Lit = {0}) /\ []<>(Lit = {1}) /\ []<>(Lit = {2}) /\ []<>(Lit = {3})

(* How a program ended is told: a verdict or a fault on the line and to    *)
(* the test bench, or by the LEDs.                                         *)
OutcomeTold == FaultIsReported /\ VerdictIsReported /\ LedsTell

(* What has been typed is read in the end: the interrupt is not lost,      *)
(* whatever order characters, timeouts and reads come in.                  *)
RxServed ==
  []<>(rx = <<>> \/ fault # "none" \/ ~mem.running)
=============================================================================
