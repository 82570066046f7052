------------------------------ MODULE NestedTrap ------------------------------
(***************************************************************************)
(* Nested interrupt handling on the core: the trap trampolines that the    *)
(* board support package generates (macros/src/trampoline.rs), its         *)
(* nested() function (interrupt.rs), and the handlers that do not nest.    *)
(*                                                                         *)
(* Interrupt l has level l and a handler of kind kind[l]:                  *)
(*   "nested"   #[nested_interrupt]: the trampoline stacks the caller-save *)
(*              registers, mcause and mepc, and enables interrupts;        *)
(*   "pcs"      #[nested_interrupt(pcs)]: the core stacks the same context *)
(*              and the trampoline only enables interrupts;                *)
(*   "plain"    #[interrupt]: the runtime crate's trampoline stacks the    *)
(*              registers and interrupts stay disabled;                    *)
(*   "closure"  #[interrupt] whose body runs inside nested().              *)
(*                                                                         *)
(* Instructions executed with interrupts disabled cannot be interleaved,   *)
(* so such a run of them is one action.  Register contents are tokens that *)
(* say whose live value the register holds.  Stack words grow downwards;   *)
(* a word below sp is Dead.  saved is a history variable: the context each *)
(* active handler preempted.                                               *)
(***************************************************************************)
EXTENDS Integers, Sequences, Functions

CONSTANTS
  MaxLevel,  \* the interrupt levels are 1 .. MaxLevel, level 0 is main
  Programs,  \* the assignments of handler kinds to interrupts considered
  Volatile,  \* the registers a compiled function may overwrite, by the build's ABI
  StackTop,  \* number of words of the stack
  Dead       \* the content of a word that belongs to no frame

Interrupts == 1 .. MaxLevel
Contexts == 0 .. MaxLevel

(* CALLER_SAVE_EABI, in the order in which the nested frame holds them. *)
CallerSave == <<"x1", "x5", "x10", "x11", "x12", "x13", "x15">>

(* The frame of the runtime crate's trampoline: every register of the      *)
(* ilp32e ABI that a call does not preserve.                               *)
RuntimeSave == CallerSave \o <<"x6", "x7", "x14">>

Registers == Range(RuntimeSave)

Kinds == {"nested", "pcs", "plain", "closure"}

ASSUME TrapAssumption ==
  /\ MaxLevel \in Nat
  /\ Programs \subseteq [Interrupts -> Kinds]
  /\ Volatile \subseteq Registers
  /\ StackTop \in Nat
  /\ Dead \notin Contexts

(* CAUSE_POS and EPC_POS, in words, and the size of the nested frame. *)
CausePos == Len(CallerSave)
EpcPos == CausePos + 1

(* A deviation: the frame that is freed is larger than the one stored. *)
FrameWordsPadded == CausePos + 3

FrameWords == CausePos + 2

VARIABLES
  kind,    \* the kind of each interrupt's handler, fixed by the program
  pc,      \* [ctx, at]: whose code runs, and where in it
  mie,     \* mstatus.MIE
  mil,     \* mintstatus.mil, the level of the running context
  mepc,    \* where mret returns to
  mcause,  \* [irq, mpil, mpie]: the level and enable that mret restores
  thresh,  \* mintthresh
  ip,      \* the interrupts pending in the CLIC
  regs,    \* the registers a function call does not preserve
  sp,      \* x2, as an index into stack
  stack,
  hw,      \* hw[l]: the context the core stacked for PCS interrupt l
  turn,    \* turn[c]: parity of context c's activations, to tell them apart
  saved

vars == <<kind, pc, mie, mil, mepc, mcause, thresh, ip, regs, sp, stack, hw,
          turn, saved>>

(* The value that context c's own computation keeps in every register. *)
Live(c) == [what |-> "live", ctx |-> c, turn |-> turn[c]]

HandlerAddr(l) == [what |-> "handler", ctx |-> l, turn |-> 0]

(* A return address into context c's trampoline. *)
ReturnAddr(c) == [what |-> "return", ctx |-> c, turn |-> 0]

(* The words of a frame of n words at address a, w[i] at offset i - 1. *)
Push(w) ==
  /\ sp >= Len(w)
  /\ sp' = sp - Len(w)
  /\ stack' = [a \in DOMAIN stack |->
                 IF a \in sp - Len(w) .. sp - 1 THEN w[a - (sp - Len(w)) + 1]
                                                ELSE stack[a]]

Pop(n) ==
  /\ sp' = sp + n
  /\ stack' = [a \in DOMAIN stack |->
                 IF a \in sp .. sp + n - 1 THEN Dead ELSE stack[a]]

(* store_trap: the words of a frame that holds registers f. *)
Stored(f) == [i \in DOMAIN f |-> regs[f[i]]]

(* A deviation: a0, which the trampoline uses itself, is not restored. *)
LoadedWithoutA0(f) ==
  [r \in Registers |->
     IF r \in Range(f) \ {"x10"}
     THEN stack[sp + (CHOOSE i \in DOMAIN f : f[i] = r) - 1]
     ELSE regs[r]]

(* load_trap: the registers f read back from the frame at sp. *)
Loaded(f) ==
  [r \in Registers |->
     IF r \in Range(f)
     THEN stack[sp + (CHOOSE i \in DOMAIN f : f[i] = r) - 1]
     ELSE regs[r]]

NoContext == [regs |-> Dead, mepc |-> Dead, mcause |-> Dead]
NotActive == [regs |-> Dead, pc |-> Dead, mil |-> Dead, sp |-> Dead]

Init ==
  /\ kind \in Programs
  /\ pc = [ctx |-> 0, at |-> "run"]
  /\ mie = FALSE
  /\ mil = 0
  /\ mepc = pc
  /\ mcause = [irq |-> 0, mpil |-> 0, mpie |-> FALSE]
  /\ thresh = 0
  /\ ip = {}
  /\ turn = [c \in Contexts |-> 0]
  /\ regs = [r \in Registers |-> Live(0)]
  /\ sp = StackTop
  /\ stack = [a \in 0 .. StackTop - 1 |-> Dead]
  /\ hw = [l \in Interrupts |-> NoContext]
  /\ saved = [l \in Interrupts |-> NotActive]

csrVars == <<mie, mil, mepc, mcause, thresh>>
stackVars == <<sp, stack>>

-----------------------------------------------------------------------------
(* The core and the interrupt controller. *)

(* An edge on interrupt l latches its pending bit. *)
Raise(l) ==
  /\ l \notin ip
  /\ ip' = ip \cup {l}
  /\ UNCHANGED <<kind, pc, csrVars, regs, stackVars, hw, turn, saved>>

(* The core takes the pending interrupt of the highest level, if it is     *)
(* above the running level and the threshold.  Claiming it clears its      *)
(* pending bit.  For a PCS interrupt the core also stacks the context that *)
(* the nested trampoline would stack.                                      *)
TakeIrq(l) ==
  /\ mie
  /\ l \in ip
  /\ \A j \in ip : j <= l
  /\ l > mil
  /\ l > thresh
  /\ ip' = ip \ {l}
  /\ mepc' = pc
  /\ mcause' = [irq |-> l, mpil |-> mil, mpie |-> mie]
  /\ mil' = l
  /\ mie' = FALSE
  /\ pc' = [ctx |-> l, at |-> "entry"]
  /\ turn' = [turn EXCEPT ![l] = 1 - @]
  /\ hw' = IF kind[l] = "pcs"
           THEN [hw EXCEPT ![l] = [regs |-> regs, mepc |-> mepc',
                                   mcause |-> mcause']]
           ELSE hw
  /\ saved' = [saved EXCEPT ![l] = [regs |-> regs, pc |-> pc, mil |-> mil,
                                    sp |-> sp]]
  /\ UNCHANGED <<kind, thresh, regs, stackVars>>

(* A deviation: mret does not restore the level. *)
MretKeepsLevel(epc, cause) ==
  /\ pc' = epc
  /\ mil' = mil
  /\ mie' = cause.mpie
  /\ mepc' = epc
  /\ mcause' = cause
  /\ saved' = [saved EXCEPT ![pc.ctx] = NotActive]

(* mret with the given mepc and mcause. *)
Mret(epc, cause) ==
  /\ pc' = epc
  /\ mil' = cause.mpil
  /\ mie' = cause.mpie
  /\ mepc' = epc
  /\ mcause' = cause
  /\ saved' = [saved EXCEPT ![pc.ctx] = NotActive]

-----------------------------------------------------------------------------
(* Main: switches interrupts on and off, moves the threshold, computes. *)

At(c, at) == pc = [ctx |-> c, at |-> at]

Goto(at) == pc' = [pc EXCEPT !.at = at]

MainEnable ==
  /\ At(0, "run")
  /\ mie' \in BOOLEAN
  /\ UNCHANGED <<kind, pc, mil, mepc, mcause, thresh, ip, regs, stackVars, hw,
                 turn, saved>>

MainThreshold ==
  /\ At(0, "run")
  /\ thresh' \in {0, MaxLevel}
  /\ UNCHANGED <<kind, pc, mie, mil, mepc, mcause, ip, regs, stackVars, hw,
                 turn, saved>>

MainCompute ==
  /\ At(0, "run")
  /\ turn' = [turn EXCEPT ![0] = 1 - @]
  /\ regs' = [r \in Registers |-> [Live(0) EXCEPT !.turn = 1 - @]]
  /\ UNCHANGED <<kind, pc, csrVars, ip, stackVars, hw, saved>>

-----------------------------------------------------------------------------
(* Trap entry. *)

(* A deviation: mcause and mepc are read before the frame is stored. *)
NestedEntryReadsFirst(l) ==
  /\ kind[l] = "nested" /\ At(l, "entry")
  /\ regs' = [regs EXCEPT !["x5"] = mcause, !["x15"] = mepc]
  /\ Push([i \in DOMAIN CallerSave |-> regs'[CallerSave[i]]]
          \o <<mcause, mepc>>)
  /\ mie' = TRUE
  /\ Goto("load")
  /\ UNCHANGED <<kind, mil, mepc, mcause, thresh, ip, hw, turn, saved>>

(* _start_{irq}_trap: store the frame, read mcause and mepc into it, then  *)
(* csrsi mstatus, 8.                                                       *)
NestedEntry(l) ==
  /\ kind[l] = "nested" /\ At(l, "entry")
  /\ Push(Stored(CallerSave) \o <<mcause, mepc>>)
  /\ mie' = TRUE
  /\ Goto("load")
  /\ regs' = [regs EXCEPT !["x5"] = mcause, !["x15"] = mepc]
  /\ UNCHANGED <<kind, mil, mepc, mcause, thresh, ip, hw, turn, saved>>

(* The PCS trampoline: csrsi mstatus, 8 is its first instruction. *)
PcsEntry(l) ==
  /\ kind[l] = "pcs" /\ At(l, "entry")
  /\ mie' = TRUE
  /\ Goto("load")
  /\ UNCHANGED <<kind, mil, mepc, mcause, thresh, ip, regs, stackVars, hw,
                 turn, saved>>

(* The runtime crate's trampoline: stores the registers, calls the handler. *)
PlainEntry(l) ==
  /\ kind[l] \in {"plain", "closure"} /\ At(l, "entry")
  /\ Push(Stored(RuntimeSave))
  /\ regs' = [regs EXCEPT !["x1"] = ReturnAddr(l)]
  /\ Goto(IF kind[l] = "plain" THEN "body" ELSE "outer")
  /\ UNCHANGED <<kind, csrVars, ip, hw, turn, saved>>

(* nested(): push mcause and mepc, enable interrupts, enter the closure.   *)
(* The handler keeps its return address in its own frame word.             *)
ClosureEnter(l) ==
  /\ At(l, "outer")
  /\ Push(<<mcause, mepc, regs["x1"]>>)
  /\ mie' = TRUE
  /\ regs' = [regs EXCEPT !["x1"] = ReturnAddr(l), !["x5"] = mcause,
                           !["x6"] = mepc]
  /\ Goto("body")
  /\ UNCHANGED <<kind, mil, mepc, mcause, thresh, ip, hw, turn, saved>>

(* la a0, {irq} *)
LoadHandler(l) ==
  /\ At(l, "load")
  /\ regs' = [regs EXCEPT !["x10"] = HandlerAddr(l)]
  /\ Goto("call")
  /\ UNCHANGED <<kind, csrVars, ip, stackVars, hw, turn, saved>>

(* jalr ra, a0, 0: whatever a0 holds by now is called. *)
CallHandler(l) ==
  /\ At(l, "call")
  /\ regs["x10"] \in {HandlerAddr(c) : c \in Interrupts}
  /\ pc' = [ctx |-> regs["x10"].ctx, at |-> "body"]
  /\ regs' = [regs EXCEPT !["x1"] = ReturnAddr(l)]
  /\ UNCHANGED <<kind, csrVars, ip, stackVars, hw, turn, saved>>

-----------------------------------------------------------------------------
(* The compiled handler: an ordinary function that stacks its return       *)
(* address, uses every register its ABI lets it and returns.               *)

BodyEnter(l) ==
  /\ At(l, "body")
  /\ Push(<<regs["x1"]>>)
  /\ regs' = [r \in Registers |->
                IF r \in Volatile THEN Live(l) ELSE regs[r]]
  /\ Goto("work")
  /\ UNCHANGED <<kind, csrVars, ip, hw, turn, saved>>

BodyReturn(l) ==
  /\ At(l, "work")
  /\ stack[sp] \in {ReturnAddr(c) : c \in Interrupts}
  /\ pc' = [ctx |-> stack[sp].ctx,
            at |-> IF kind[l] = "closure" THEN "inner" ELSE "exit"]
  /\ regs' = [regs EXCEPT !["x1"] = stack[sp]]
  /\ Pop(1)
  /\ UNCHANGED <<kind, csrVars, ip, hw, turn, saved>>

-----------------------------------------------------------------------------
(* Trap exit. *)

(* A deviation: the frame is not freed. *)
NestedExitLeaks(l) ==
  /\ kind[l] = "nested" /\ At(l, "exit")
  /\ Mret(stack[sp + EpcPos], stack[sp + CausePos])
  /\ regs' = Loaded(CallerSave)
  /\ UNCHANGED <<kind, stackVars, thresh, ip, hw, turn>>

(* _continue_nested_trap after the handler: csrci mstatus, 8, then mepc,   *)
(* mcause and the registers from the frame, free it, mret.                 *)
NestedExit(l) ==
  /\ kind[l] = "nested" /\ At(l, "exit")
  /\ Mret(stack[sp + EpcPos], stack[sp + CausePos])
  /\ regs' = Loaded(CallerSave)
  /\ Pop(FrameWords)
  /\ UNCHANGED <<kind, thresh, ip, hw, turn>>

(* The PCS trampoline: csrci mstatus, 8 and an mret for which the core     *)
(* restores the context it had stacked.                                    *)
PcsExit(l) ==
  /\ kind[l] = "pcs" /\ At(l, "exit")
  /\ Mret(hw[l].mepc, hw[l].mcause)
  /\ regs' = [r \in Registers |->
                IF r \in Range(CallerSave) THEN hw[l].regs[r] ELSE regs[r]]
  /\ hw' = [hw EXCEPT ![l] = NoContext]
  /\ UNCHANGED <<kind, thresh, ip, stackVars, turn>>

(* A deviation: nested() restores mcause only. *)
ClosureLeaveStaleEpc(l) ==
  /\ At(l, "inner")
  /\ mie' = FALSE
  /\ mcause' = stack[sp]
  /\ regs' = [regs EXCEPT !["x1"] = stack[sp + 2]]
  /\ Pop(3)
  /\ Goto("exit")
  /\ UNCHANGED <<kind, mil, mepc, thresh, ip, hw, turn, saved>>

(* nested() after the closure: disable interrupts, restore mcause and mepc. *)
ClosureLeave(l) ==
  /\ At(l, "inner")
  /\ mie' = FALSE
  /\ mcause' = stack[sp]
  /\ mepc' = stack[sp + 1]
  /\ regs' = [regs EXCEPT !["x1"] = stack[sp + 2]]
  /\ Pop(3)
  /\ Goto("exit")
  /\ UNCHANGED <<kind, mil, thresh, ip, hw, turn, saved>>

(* The runtime crate's trampoline: restore the registers, mret. *)
PlainExit(l) ==
  /\ kind[l] \in {"plain", "closure"} /\ At(l, "exit")
  /\ Mret(mepc, mcause)
  /\ regs' = Loaded(RuntimeSave)
  /\ Pop(Len(RuntimeSave))
  /\ UNCHANGED <<kind, thresh, ip, hw, turn>>

-----------------------------------------------------------------------------
Enter(l) == NestedEntry(l) \/ PcsEntry(l) \/ PlainEntry(l) \/ ClosureEnter(l)

Leave(l) == NestedExit(l) \/ PcsExit(l) \/ ClosureLeave(l) \/ PlainExit(l)

Handler(l) ==
  \/ Enter(l) \/ LoadHandler(l) \/ CallHandler(l)
  \/ BodyEnter(l) \/ BodyReturn(l) \/ Leave(l)

Main == MainEnable \/ MainThreshold \/ MainCompute

Next ==
  \/ Main
  \/ \E l \in Interrupts : Raise(l) \/ TakeIrq(l) \/ Handler(l)

Spec == Init /\ [][Next]_vars

(* The core does not stop: a handler goes on, and an interrupt that the    *)
(* core can take it takes.                                                 *)
Fairness ==
  \A l \in Interrupts :
    WF_vars(Handler(l)) /\ WF_vars(TakeIrq(l))

FairSpec == Spec /\ Fairness

-----------------------------------------------------------------------------
(* Properties. *)

Places == {"entry", "load", "call", "outer", "body", "work", "inner", "exit"}

TypeOK ==
  /\ kind \in Programs
  /\ \/ pc = [ctx |-> 0, at |-> "run"]
     \/ pc.ctx \in Interrupts /\ pc.at \in Places
  /\ mie \in BOOLEAN
  /\ mil = pc.ctx  \* also after any nesting and return
  /\ thresh \in {0, MaxLevel}
  /\ ip \subseteq Interrupts
  /\ DOMAIN regs = Registers
  /\ sp \in 0 .. StackTop
  /\ DOMAIN stack = 0 .. StackTop - 1
  /\ turn \in [Contexts -> 0 .. 1]

(* The registers that the handler of interrupt l may have changed when it  *)
(* returns.  The nested trampolines and the core's stacking put only the   *)
(* EABI's caller-save registers away; what else compiled code overwrites   *)
(* is lost.  The runtime crate's trampoline puts all of them away.         *)
Lost(l) ==
  IF kind[l] \in {"nested", "pcs"} THEN Volatile \ Range(CallerSave) ELSE {}

(* What context c may lose to the interrupts above it. *)
LostAbove(c) == UNION {Lost(l) : l \in {i \in Interrupts : i > c}}

(* A handler's end resumes exactly what it preempted: the instruction, the *)
(* level, the stack pointer and interrupts enabled, and every register but *)
(* those its trampoline leaves out (the trampolines' restore of mepc,      *)
(* mcause and the frame).                                                  *)
ReturnRestoresContext ==
  [][\A l \in Interrupts :
       saved[l] # NotActive /\ saved'[l] = NotActive =>
         /\ pc' = saved[l].pc
         /\ mil' = saved[l].mil
         /\ sp' = saved[l].sp
         /\ \A r \in Registers \ Lost(l) : regs'[r] = saved[l].regs[r]
         /\ mie']_vars

(* The trampoline's "frame for caller save registers" (trampoline.rs:100)  *)
(* does what its name says: a handler's end restores every register.       *)
ReturnRestoresAll ==
  [][\A l \in Interrupts :
       saved[l] # NotActive /\ saved'[l] = NotActive => regs' = saved[l].regs]_vars

(* Code sees its own registers: main and a handler body never find a value *)
(* of another context, or of an earlier activation, in a live register,    *)
(* but for those that a trampoline above them leaves out.                  *)
OwnRegisters ==
  /\ pc.at = "run" => \A r \in Registers \ LostAbove(0) : regs[r] = Live(0)
  /\ pc.at = "work" =>
       \A r \in Volatile \ LostAbove(pc.ctx) : regs[r] = Live(pc.ctx)

(* The trampoline calls its own handler, also when it was preempted        *)
(* between loading the handler's address and jumping to it.                *)
CallsOwnHandler == pc.at = "call" => regs["x10"] = HandlerAddr(pc.ctx)

(* The words that a handler of interrupt l has on the stack at most. *)
FrameBound(l) ==
  CASE kind[l] = "nested"  -> FrameWords + 1
    [] kind[l] = "pcs"     -> 1
    [] kind[l] = "plain"   -> Len(RuntimeSave) + 1
    [] kind[l] = "closure" -> Len(RuntimeSave) + 4

DepthTo[l \in Contexts] ==
  IF l = 0 THEN 0 ELSE DepthTo[l - 1] + FrameBound(l)

(* The stack holds the frames of one handler for each level up to the      *)
(* running one, and none that a finished handler left behind: its depth is *)
(* limited by the number of levels and not by the number of interrupts.    *)
StackBounded == StackTop - sp <= DepthTo[mil]

(* A pending interrupt of the highest level is taken, unless main keeps    *)
(* interrupts off or raises the threshold.                                 *)
HighestServed ==
  MaxLevel \in ip ~> (MaxLevel \notin ip \/ thresh # 0 \/ (pc.ctx = 0 /\ ~mie))
=============================================================================
