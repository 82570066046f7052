-------------------------------- MODULE UartTx --------------------------------
(***************************************************************************)
(* Interrupt-driven printing of the C tests (examples/smoke_tests/include: *)
(* uart_interrupt.h, circular_buffer.h): write_serial puts characters into *)
(* a ring and uart_handler moves them to the UART, one per interrupt.      *)
(*                                                                         *)
(* The interrupt is edge-triggered, and each side turns the UART's         *)
(* interrupts off while it uses the ring.  The handler interrupts main     *)
(* between any two accesses and runs to its end before main goes on; the   *)
(* UART goes on all the time.                                              *)
(***************************************************************************)
EXTENDS Naturals, Sequences

CONSTANTS
  Size,     \* UART_BUFFER_SIZE
  Message,  \* what main prints: a sequence of characters
  NoChar

Chars == {Message[i] : i \in 1 .. Len(Message)}

(* Of the parameters. *)
UartAssumption ==
  /\ Size \in Nat \ {0, 1}
  /\ Message \in Seq(Chars) \ {<<>>}
  /\ NoChar \notin Chars

MainSteps == {"poll", "off", "store", "advance", "wrap", "on", "done"}
HandlerSteps == {"idle", "ident", "off", "start", "return"}

VARIABLES
  buffer, head, tail,  \* tx_buffer
  pc,                  \* the next access of main
  pushed,              \* how many characters main has pushed
  handler,             \* the next access of the handler
  ier,                 \* whether the transmit interrupt is enabled
  fifo,                \* the UART's transmit FIFO
  shift,               \* the character on the wire, or NoChar
  thri,                \* the UART's "transmitter empty" interrupt
  ip,                  \* the pending bit of line 17
  sent                 \* what has left the UART

ring == <<buffer, head, tail>>
uart == <<ier, fifo, shift, thri, sent>>
vars == <<ring, pc, pushed, handler, uart, ip>>

TypeOK ==
  /\ buffer \in [0 .. Size - 1 -> Chars \cup {NoChar}]
  /\ head \in 0 .. Size
  /\ tail \in 0 .. Size - 1
  /\ pc \in MainSteps /\ pushed \in 0 .. Len(Message)
  /\ handler \in HandlerSteps
  /\ ier \in BOOLEAN
  /\ fifo \in Seq(Chars) /\ Len(fifo) <= Len(Message)
  /\ shift \in Chars \cup {NoChar}
  /\ thri \in BOOLEAN /\ ip \in BOOLEAN
  /\ sent \in Seq(Chars) /\ Len(sent) <= Len(Message)

(* After init_uart and init_uart_irq. *)
Init ==
  /\ buffer = [i \in 0 .. Size - 1 |-> NoChar]
  /\ head = 0 /\ tail = 0
  /\ pc = "poll" /\ pushed = 0
  /\ handler = "idle"
  /\ ier = FALSE /\ fifo = <<>> /\ shift = NoChar /\ thri = FALSE
  /\ ip = FALSE
  /\ sent = <<>>

-----------------------------------------------------------------------------
(* circular_buffer.h *)

(* A deviation: the ring is full when head has come round to tail. *)
FullTooLate == head = tail /\ buffer[head] # NoChar

Full == tail = (IF head + 1 = Size THEN 0 ELSE head + 1)

Empty == tail = head

(* Main's next character. *)
Char == Message[pushed + 1]

-----------------------------------------------------------------------------
(* The UART and its line to the interrupt controller, which latches a rise.*)

Line == ier /\ thri

Latch == ip' = (ip \/ (~Line /\ Line'))

(* Enabling the interrupt while the FIFO is empty raises it. *)
WriteIer(on) ==
  /\ ier' = on
  /\ thri' = (thri \/ (on /\ fifo = <<>>))
  /\ Latch

(* The FIFO's last character going out raises the interrupt. *)
Shift ==
  /\ shift = NoChar
  /\ fifo # <<>>
  /\ shift' = Head(fifo)
  /\ fifo' = Tail(fifo)
  /\ thri' = (thri \/ Tail(fifo) = <<>>)
  /\ UNCHANGED <<ring, pc, pushed, handler, ier, sent>>
  /\ Latch

Transmit ==
  /\ shift # NoChar
  /\ sent' = Append(sent, shift)
  /\ shift' = NoChar
  /\ UNCHANGED <<ring, pc, pushed, handler, ier, fifo, thri, ip>>

-----------------------------------------------------------------------------
(* write_serial: main is at step s and may go on to step t. *)

Main(s, t) == handler = "idle" /\ pc = s /\ pc' = t

Poll ==
  /\ ~Full
  /\ Main("poll", "off")
  /\ UNCHANGED <<ring, pushed, handler, uart, ip>>

TurnOff ==
  /\ Main("off", "store")
  /\ WriteIer(FALSE)
  /\ UNCHANGED <<ring, pushed, handler, fifo, shift, sent>>

Store ==
  /\ Main("store", "advance")
  /\ buffer' = [buffer EXCEPT ![head] = Char]
  /\ UNCHANGED <<head, tail, pushed, handler, uart, ip>>

Advance ==
  /\ Main("advance", "wrap")
  /\ head' = head + 1
  /\ pushed' = pushed + 1
  /\ UNCHANGED <<buffer, tail, handler, uart, ip>>

Wrap ==
  /\ Main("wrap", "on")
  /\ head' = IF head = Size THEN 0 ELSE head
  /\ UNCHANGED <<buffer, tail, pushed, handler, uart, ip>>

(* A deviation: interrupts are turned on only by the first character. *)
TurnOnOnce ==
  /\ Main("on", IF pushed = Len(Message) THEN "done" ELSE "poll")
  /\ WriteIer(pushed = 1)
  /\ UNCHANGED <<ring, pushed, handler, fifo, shift, sent>>

TurnOn ==
  /\ Main("on", IF pushed = Len(Message) THEN "done" ELSE "poll")
  /\ WriteIer(TRUE)
  /\ UNCHANGED <<ring, pushed, handler, fifo, shift, sent>>

-----------------------------------------------------------------------------
(* uart_handler.  Main stands still; only the UART sees its accesses. *)

Handler(s, t) == handler = s /\ handler' = t

Enter ==
  /\ ip
  /\ Handler("idle", "ident")
  /\ ip' = FALSE
  /\ UNCHANGED <<ring, pc, pushed, uart>>

(* Reading the identification clears the transmit interrupt if it is the   *)
(* one that is identified; nothing else is ever received here.             *)
Identify ==
  /\ Handler("ident", IF Line THEN "off" ELSE "return")
  /\ thri' = (thri /\ ~ier)
  /\ UNCHANGED <<ring, pc, pushed, ier, fifo, shift, sent, ip>>

HandlerOff ==
  /\ Handler("off", "start")
  /\ WriteIer(FALSE)
  /\ UNCHANGED <<ring, pc, pushed, fifo, shift, sent>>

(* start_tx: one character, if there is one. *)
Start ==
  /\ Handler("start", "return")
  /\ IF Empty
     THEN UNCHANGED <<tail, fifo, thri>>
     ELSE /\ fifo' = Append(fifo, buffer[tail])
          /\ tail' = IF tail + 1 = Size THEN 0 ELSE tail + 1
          /\ thri' = FALSE
  /\ UNCHANGED <<buffer, head, pc, pushed, ier, shift, sent, ip>>

Return ==
  /\ Handler("return", "idle")
  /\ UNCHANGED <<ring, pc, pushed, uart, ip>>

-----------------------------------------------------------------------------
WriteSerial == Poll \/ TurnOff \/ Store \/ Advance \/ Wrap \/ TurnOn

UartHandler == Enter \/ Identify \/ HandlerOff \/ Start \/ Return

Next == WriteSerial \/ UartHandler \/ Shift \/ Transmit

Spec == Init /\ [][Next]_vars

(* The core does not stop, in main or in the handler; a pending interrupt  *)
(* is taken; the UART goes on.                                             *)
FairSpec ==
  /\ Spec
  /\ WF_vars(WriteSerial) /\ WF_vars(UartHandler)
  /\ WF_vars(Shift) /\ WF_vars(Transmit)

-----------------------------------------------------------------------------
(* Properties. *)

(* The characters in the ring, from tail up to head. *)
Contents ==
  LET top == IF head = Size THEN 0 ELSE head
      n == IF top >= tail THEN top - tail ELSE top + Size - tail
      at(i) == IF tail + i >= Size THEN tail + i - Size ELSE tail + i
  IN [i \in 1 .. n |-> buffer[at(i - 1)]]

(* What has been pushed leaves in order, nothing lost and nothing twice:   *)
(* it is sent, on the wire, in the FIFO or in the ring, also in the middle *)
(* of a push and of the handler.                                           *)
InOrder ==
  sent \o (IF shift = NoChar THEN <<>> ELSE <<shift>>) \o fifo \o Contents
    = SubSeq(Message, 1, pushed)

(* write_serial does not wait for ever on a full ring: printing comes to   *)
(* its end.                                                                *)
PrintReturns == <>(pc = "done")
=============================================================================
