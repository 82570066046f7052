-------------------------- MODULE NestedTrapProofs --------------------------
(***************************************************************************)
(* A handler's end restores what it preempted, for every number of levels, *)
(* every assignment of trampolines to interrupts, every depth of stack and *)
(* every ABI: all but the registers that the ABI lets a handler overwrite  *)
(* and its trampoline leaves out (Lost).                                   *)
(*                                                                         *)
(* The invariant says for every context, running or preempted, where its   *)
(* frame is and what it contains (Intact).  A preempted context's frame is *)
(* above the stack pointer it was preempted with, and what runs on top of  *)
(* it writes below: so a frame stays as it is while others come and go     *)
(* (StillIntact).  While mepc and mcause are not in a frame yet, or not    *)
(* any more, interrupts are off (CsrKept).  A preempted context stays      *)
(* intact without the registers it may lose, because what the trampolines  *)
(* and handlers rely on is in the others (LosesLittle).                    *)
(***************************************************************************)
EXTENDS NestedTrap, SequenceTheorems, WellFoundedInduction, TLAPS

-----------------------------------------------------------------------------
(* The frames. *)

Active(l) == saved[l] # NotActive

(* What is known of context l besides registers and stack. *)
View(l) ==
  IF l = 0 THEN [ctx |-> 0, live |-> Live(0), lost |-> LostAbove(0)]
  ELSE [ctx |-> l, live |-> Live(l), kind |-> kind[l], old |-> saved[l],
        hw |-> hw[l], lost |-> LostAbove(l)]

Cause(v) == [irq |-> v.ctx, mpil |-> v.old.mil, mpie |-> TRUE]

RegsAt(f, s, stk, old) == \A i \in DOMAIN f : stk[s + i - 1] = old[f[i]]

NestedFrame(v, s, stk) ==
  /\ s + FrameWords = v.old.sp
  /\ RegsAt(CallerSave, s, stk, v.old.regs)
  /\ stk[s + CausePos] = Cause(v)
  /\ stk[s + EpcPos] = v.old.pc

PcsFrame(v, s) ==
  /\ s = v.old.sp
  /\ v.hw = [regs |-> v.old.regs, mepc |-> v.old.pc, mcause |-> Cause(v)]

RuntimeFrame(v, s, stk) ==
  /\ s + Len(RuntimeSave) = v.old.sp
  /\ RegsAt(RuntimeSave, s, stk, v.old.regs)

ClosureFrame(v, s, stk) ==
  /\ RuntimeFrame(v, s + 3, stk)
  /\ stk[s] = Cause(v)
  /\ stk[s + 1] = v.old.pc

(* What is on the stack while the handler itself runs. *)
Held(v, s, stk) ==
  \/ v.kind = "nested" /\ NestedFrame(v, s, stk)
  \/ v.kind = "pcs" /\ PcsFrame(v, s)
  \/ v.kind = "plain" /\ RuntimeFrame(v, s, stk)
  \/ v.kind = "closure" /\ ClosureFrame(v, s, stk)

(* What is on the stack at place p. *)
FrameAt(v, p, s, stk) ==
  \/ p = "entry" /\ s = v.old.sp /\ (v.kind = "pcs" => PcsFrame(v, s))
  \/ p \in {"load", "call"} /\ v.kind \in {"nested", "pcs"} /\ Held(v, s, stk)
  \/ p = "body" /\ Held(v, s, stk)
  \/ p = "work" /\ Held(v, s + 1, stk) /\ stk[s] = ReturnAddr(v.ctx)
  \/ p = "outer" /\ v.kind = "closure" /\ RuntimeFrame(v, s, stk)
  \/ p = "inner" /\ v.kind = "closure" /\ ClosureFrame(v, s, stk)
  \/ p = "exit" /\ v.kind = "closure" /\ RuntimeFrame(v, s, stk)
  \/ p = "exit" /\ v.kind # "closure" /\ Held(v, s, stk)

(* The registers that neither a nested trampoline nor compiled code uses.  *)
Untouched == Registers \ (Range(CallerSave) \cup Volatile)

(* What is in the registers at place p. *)
RegsOf(v, p, r) ==
  /\ p = "entry" => r = v.old.regs
  /\ p = "call" => r["x10"] = HandlerAddr(v.ctx)
  /\ p = "body" => r["x1"] = ReturnAddr(v.ctx)
  /\ p = "work" => \A x \in Volatile \ v.lost : r[x] = v.live
  /\ v.kind \in {"nested", "pcs"} =>
       \A x \in Untouched : r[x] = v.old.regs[x]

(* A context at place p with registers r and stack pointer s. *)
Intact(v, p, r, s, stk) ==
  /\ s \in Nat
  /\ r = [x \in Registers |-> r[x]]
  /\ v.ctx = 0 => /\ p = "run" /\ s = StackTop
                  /\ \A x \in Registers \ v.lost : r[x] = v.live
  /\ v.ctx # 0 => /\ p \in Places
                  /\ v.old # NotActive
                  /\ v.old.sp \in Nat /\ v.old.sp <= StackTop
                  /\ FrameAt(v, p, s, stk)
                  /\ RegsOf(v, p, r)

(* Interrupts are off, and mepc and mcause are in no frame. *)
Off(k, p) ==
  p \in {"entry", "outer"} \/ k = "plain" \/ (k = "closure" /\ p = "exit")

CsrKept ==
  pc.ctx # 0 /\ Off(kind[pc.ctx], pc.at) =>
    /\ ~mie
    /\ mepc = saved[pc.ctx].pc
    /\ mcause = Cause(View(pc.ctx))

Shapes ==
  /\ kind \in [Interrupts -> Kinds]
  /\ pc = [ctx |-> pc.ctx, at |-> pc.at] /\ pc.ctx \in Contexts
  /\ saved = [l \in Interrupts |-> saved[l]]
  /\ hw = [l \in Interrupts |-> hw[l]]
  /\ regs = [x \in Registers |-> regs[x]]
  /\ stack = [a \in 0 .. StackTop - 1 |-> stack[a]]

(* The preempted contexts, one below the other. *)
Link(k) ==
  /\ k <= pc.ctx
  /\ saved[k].pc = [ctx |-> saved[k].pc.ctx, at |-> saved[k].pc.at]
  /\ saved[k].pc.ctx \in Contexts /\ saved[k].pc.ctx < k
  /\ \A j \in Interrupts : Active(j) /\ j < k => j <= saved[k].pc.ctx
  /\ saved[k].mil = saved[k].pc.ctx
  /\ saved[k].sp \in Nat /\ saved[k].sp <= StackTop
  /\ saved[k].pc.ctx # 0 =>
       ~Off(kind[saved[k].pc.ctx], saved[k].pc.at)
  /\ \A j \in Interrupts : Active(j) /\ j <= k => saved[k].sp <= saved[j].sp

Chain == \A k \in Interrupts : Active(k) => Link(k)

Preempted ==
  \A k \in Interrupts : Active(k) =>
    Intact(View(saved[k].pc.ctx), saved[k].pc.at, saved[k].regs, saved[k].sp, stack)

Running == Intact(View(pc.ctx), pc.at, regs, sp, stack)

Inv == TypeOK /\ Shapes /\ Chain /\ Preempted /\ Running /\ CsrKept

-----------------------------------------------------------------------------
(* The registers that are stacked. *)

LEMMA CallerSaveFacts ==
  /\ Len(CallerSave) = 7 /\ DOMAIN CallerSave = 1 .. 7
  /\ CausePos = 7 /\ EpcPos = 8 /\ FrameWords = 9
  /\ \A x \in {"x1", "x5", "x10", "x15"} : x \in Range(CallerSave)
<1>1. Len(CallerSave) = 7 /\ DOMAIN CallerSave = 1 .. 7
  BY DEF CallerSave
<1>2. CausePos = 7 /\ EpcPos = 8 /\ FrameWords = 9
  BY <1>1 DEF CausePos, EpcPos, FrameWords
<1>3. CallerSave[1] = "x1" /\ CallerSave[2] = "x5" /\ CallerSave[3] = "x10"
      /\ CallerSave[7] = "x15"
  BY DEF CallerSave
<1> QED BY <1>1, <1>2, <1>3 DEF Range

LEMMA RuntimeSaveFacts ==
  /\ Len(RuntimeSave) = 10 /\ DOMAIN RuntimeSave = 1 .. 10
  /\ Range(CallerSave) \subseteq Registers
  /\ Registers = Range(RuntimeSave)
  /\ \A x \in {"x1", "x5", "x6", "x10", "x15"} : x \in Registers
<1> DEFINE more == <<"x6", "x7", "x14">>
           S == {"x1", "x5", "x10", "x11", "x12", "x13", "x15", "x6", "x7", "x14"}
<1>1. CallerSave \in Seq(S) /\ more \in Seq(S)
  BY DEF CallerSave
<1>2. Len(more) = 3 /\ more[1] = "x6"
  OBVIOUS
<1>3. RuntimeSave = CallerSave \o more
  BY DEF RuntimeSave
<1> HIDE DEF more, S
<1>4. /\ RuntimeSave \in Seq(S)
      /\ Len(RuntimeSave) = 10
      /\ \A i \in 1 .. 10 : RuntimeSave[i] = IF i <= 7 THEN CallerSave[i] ELSE more[i - 7]
  <2>1. Len(CallerSave) = 7
    BY CallerSaveFacts
  <2>2. /\ CallerSave \o more \in Seq(S)
        /\ Len(CallerSave \o more) = Len(CallerSave) + Len(more)
        /\ \A i \in 1 .. Len(CallerSave) + Len(more) : (CallerSave \o more)[i] =
             IF i <= Len(CallerSave) THEN CallerSave[i] ELSE more[i - Len(CallerSave)]
    BY <1>1, ConcatProperties
  <2>3. RuntimeSave \in Seq(S)
    BY <1>3, <2>2
  <2>4. Len(RuntimeSave) = 10
    BY <1>2, <1>3, <2>1, <2>2
  <2>5. \A i \in 1 .. 10 : RuntimeSave[i] = IF i <= 7 THEN CallerSave[i] ELSE more[i - 7]
    <3>1. Len(CallerSave) + Len(more) = 10
      BY <1>2, <2>1
    <3>2. \A i \in 1 .. 10 : (CallerSave \o more)[i] =
             IF i <= 7 THEN CallerSave[i] ELSE more[i - 7]
      BY <2>1, <2>2, <3>1
    <3> QED BY <1>3, <3>2
  <2> QED BY <2>3, <2>4, <2>5
<1>5. DOMAIN RuntimeSave = 1 .. 10
  BY <1>4
<1>6. Range(CallerSave) \subseteq Range(RuntimeSave)
  <2> SUFFICES ASSUME NEW i \in 1 .. 7
               PROVE  CallerSave[i] \in Range(RuntimeSave)
    BY CallerSaveFacts DEF Range
  <2>1. i \in 1 .. 10 /\ RuntimeSave[i] = CallerSave[i]
    BY <1>4
  <2> QED BY <1>5, <2>1 DEF Range
<1>7. "x6" \in Range(RuntimeSave)
  <2>1. RuntimeSave[8] = "x6"
    BY <1>2, <1>4
  <2> QED BY <1>5, <2>1 DEF Range
<1> QED BY <1>4, <1>5, <1>6, <1>7, CallerSaveFacts DEF Registers

-----------------------------------------------------------------------------
(* The stack. *)

(* The words of a frame. *)
WordsAre(w, f, rest) ==
  /\ Len(w) = Len(f) + Len(rest)
  /\ \A i \in 1 .. Len(f) : w[i] = regs[f[i]]
  /\ \A i \in 1 .. Len(rest) : w[Len(f) + i] = rest[i]

LEMMA StoredWords ==
  ASSUME NEW w, NEW S,
         regs = [x \in Registers |-> regs[x]],
         NEW f \in Seq(Registers), NEW rest \in Seq(S),
         w = Stored(f) \o rest
  PROVE  WordsAre(w, f, rest)
<1> DEFINE T == S \cup {regs[x] : x \in Registers}
<1>1. Len(f) \in Nat /\ DOMAIN f = 1 .. Len(f) /\ \A i \in 1 .. Len(f) : f[i] \in Registers
  BY ElementOfSeq, LenProperties
<1>2. Stored(f) = [i \in 1 .. Len(f) |-> regs[f[i]]]
  BY <1>1 DEF Stored
<1>3. Stored(f) \in Seq(T) /\ Len(Stored(f)) = Len(f)
  <2>1. \A i \in 1 .. Len(f) : regs[f[i]] \in T
    BY <1>1
  <2> HIDE DEF T
  <2>2. Stored(f) \in [1 .. Len(f) -> T]
    BY <1>2, <2>1
  <2>3. Stored(f) \in Seq(T)
    BY <1>1, <2>2, SeqDef
  <2>4. DOMAIN Stored(f) = 1 .. Len(f)
    BY <1>2
  <2> DEFINE u == Stored(f)
             n == Len(f)
  <2>5. u \in Seq(T) /\ DOMAIN u = 1 .. n /\ n \in Nat
    BY <1>1, <2>3, <2>4
  <2> HIDE DEF u, n
  <2>6. Len(u) = n
    BY <2>5, LenProperties
  <2> QED BY <2>3, <2>6 DEF u, n
<1>4. rest \in Seq(T) /\ Len(rest) \in Nat
  <2>1. S \subseteq T
    OBVIOUS
  <2> HIDE DEF T
  <2> QED BY <2>1, SeqMonotonic, LenProperties
<1> HIDE DEF T
<1>5. /\ Len(w) = Len(f) + Len(rest)
      /\ \A i \in 1 .. Len(f) + Len(rest) : w[i] =
           IF i <= Len(f) THEN Stored(f)[i] ELSE rest[i - Len(f)]
  <2>1. /\ Len(Stored(f) \o rest) = Len(Stored(f)) + Len(rest)
        /\ \A i \in 1 .. Len(Stored(f)) + Len(rest) : (Stored(f) \o rest)[i] =
             IF i <= Len(Stored(f)) THEN Stored(f)[i] ELSE rest[i - Len(Stored(f))]
    BY <1>3, <1>4, ConcatProperties
  <2> QED BY <1>3, <2>1
<1> QED BY <1>1, <1>2, <1>4, <1>5 DEF WordsAre

(* n words are pushed, w[1] to w[n]. *)
Pushes(n, w) ==
  /\ sp' \in Nat /\ sp' + n = sp
  /\ \A a \in sp .. StackTop - 1 : stack'[a] = stack[a]
  /\ \A i \in 1 .. n : stack'[sp' + i - 1] = w[i]
  /\ stack' = [a \in 0 .. StackTop - 1 |-> stack'[a]]

LEMMA PushWords ==
  ASSUME NEW w, NEW n \in Nat, Len(w) = n, Push(w), Shapes, sp \in Nat,
         sp <= StackTop
  PROVE  Pushes(n, w)
<1>1. /\ sp >= n
      /\ sp' = sp - n
      /\ stack' = [a \in DOMAIN stack |->
           IF a \in sp - n .. sp - 1 THEN w[a - (sp - n) + 1] ELSE stack[a]]
  BY DEF Push
<1>2. DOMAIN stack = 0 .. StackTop - 1 /\ StackTop \in Nat
  BY TrapAssumption DEF Shapes, TrapAssumption
<1>3. \A a \in sp .. StackTop - 1 : stack'[a] = stack[a]
  BY <1>1, <1>2
<1>4. ASSUME NEW i \in 1 .. n PROVE stack'[sp' + i - 1] = w[i]
  <2>1. /\ sp' + i - 1 \in DOMAIN stack
        /\ sp' + i - 1 \in sp - n .. sp - 1
        /\ (sp' + i - 1) - (sp - n) + 1 = i
    BY <1>1, <1>2
  <2> QED BY <1>1, <2>1
<1>5. stack' = [a \in 0 .. StackTop - 1 |-> stack'[a]]
  BY <1>1, <1>2
<1> QED BY <1>1, <1>3, <1>4, <1>5 DEF Pushes

Pops(n) ==
  /\ sp' = sp + n
  /\ \A a \in sp + n .. StackTop - 1 : stack'[a] = stack[a]
  /\ stack' = [a \in 0 .. StackTop - 1 |-> stack'[a]]

LEMMA PopWords ==
  ASSUME NEW n \in Nat, Pop(n), Shapes, sp \in Nat
  PROVE  Pops(n)
<1>1. DOMAIN stack = 0 .. StackTop - 1 /\ StackTop \in Nat
  BY TrapAssumption DEF Shapes, TrapAssumption
<1> QED BY <1>1 DEF Pop, Pops

(* The registers f are read back from a frame that holds them. *)
LEMMA LoadsBack ==
  ASSUME NEW f \in Seq(Registers), NEW old, RegsAt(f, sp, stack, old),
         NEW x \in Registers
  PROVE  Loaded(f)[x] = IF x \in Range(f) THEN old[x] ELSE regs[x]
<1>1. CASE x \in Range(f)
  <2> DEFINE i == CHOOSE j \in DOMAIN f : f[j] = x
  <2>1. i \in DOMAIN f /\ f[i] = x
    BY <1>1 DEF Range
  <2>2. Loaded(f)[x] = stack[sp + i - 1]
    BY <1>1 DEF Loaded
  <2> HIDE DEF i
  <2> QED BY <1>1, <2>1, <2>2 DEF RegsAt
<1>2. CASE x \notin Range(f)
  BY <1>2 DEF Loaded
<1> QED BY <1>1, <1>2

(* A context is not affected by what is written below its stack pointer. *)
LEMMA StillIntact ==
  ASSUME NEW v, NEW p, NEW r, NEW s, NEW stk, NEW stk2,
         Intact(v, p, r, s, stk),
         \A a \in s .. StackTop - 1 : stk2[a] = stk[a]
  PROVE  Intact(v, p, r, s, stk2)
<1> SUFFICES ASSUME v.ctx # 0 PROVE FrameAt(v, p, s, stk2)
  BY DEF Intact
<1>1. /\ s \in Nat /\ v.old.sp \in Nat /\ v.old.sp <= StackTop /\ StackTop \in Nat
      /\ FrameAt(v, p, s, stk)
  BY TrapAssumption DEF Intact, TrapAssumption
<1>2. ASSUME NEW b \in Nat, b >= s, RuntimeFrame(v, b, stk)
      PROVE  RuntimeFrame(v, b, stk2)
  <2>1. \A i \in 1 .. 10 : b + i - 1 \in s .. StackTop - 1
    BY <1>1, <1>2, RuntimeSaveFacts DEF RuntimeFrame
  <2> QED BY <1>2, <2>1, RuntimeSaveFacts DEF RuntimeFrame, RegsAt
<1>3. ASSUME NEW b \in Nat, b >= s, NestedFrame(v, b, stk)
      PROVE  NestedFrame(v, b, stk2)
  <2>1. \A i \in 1 .. 9 : b + i - 1 \in s .. StackTop - 1
    BY <1>1, <1>3, CallerSaveFacts DEF NestedFrame
  <2>2. RegsAt(CallerSave, b, stk2, v.old.regs)
    BY <1>3, <2>1, CallerSaveFacts DEF NestedFrame, RegsAt
  <2>3. b + 7 \in s .. StackTop - 1 /\ b + 8 \in s .. StackTop - 1
    BY <1>1, <1>3, CallerSaveFacts DEF NestedFrame
  <2> QED BY <1>3, <2>2, <2>3, CallerSaveFacts DEF NestedFrame
<1>4. ASSUME NEW b \in Nat, b >= s, ClosureFrame(v, b, stk)
      PROVE  ClosureFrame(v, b, stk2)
  <2>1. b + 3 \in Nat /\ b + 3 >= s
    BY <1>1, <1>4
  <2>2. RuntimeFrame(v, b + 3, stk2)
    BY <1>2, <1>4, <2>1 DEF ClosureFrame
  <2>3. b \in s .. StackTop - 1 /\ b + 1 \in s .. StackTop - 1
    BY <1>1, <1>4, RuntimeSaveFacts DEF ClosureFrame, RuntimeFrame
  <2> QED BY <1>4, <2>2, <2>3 DEF ClosureFrame
<1>5. ASSUME NEW b \in Nat, b >= s, Held(v, b, stk) PROVE Held(v, b, stk2)
  BY <1>2, <1>3, <1>4, <1>5 DEF Held
<1>6. ASSUME Held(v, s + 1, stk), stk[s] = ReturnAddr(v.ctx)
      PROVE  Held(v, s + 1, stk2) /\ stk2[s] = ReturnAddr(v.ctx)
  <2>1. s + 1 \in Nat /\ s + 1 >= s
    BY <1>1
  <2>2. s + 1 <= v.old.sp
    BY <1>1, <1>6, CallerSaveFacts, RuntimeSaveFacts
       DEF Held, NestedFrame, PcsFrame, RuntimeFrame, ClosureFrame
  <2>3. s \in s .. StackTop - 1
    BY <1>1, <2>2
  <2> QED BY <1>5, <1>6, <2>1, <2>3
<1>7. s >= s
  BY <1>1
<1> QED BY <1>1, <1>2, <1>4, <1>5, <1>6, <1>7 DEF FrameAt

(* Context v goes on after an interrupt although some of its registers are *)
(* lost.                                                                   *)
LEMMA LosesLittle ==
  ASSUME NEW v, NEW p, NEW r, NEW r2, NEW s, NEW stk, NEW D,
         Intact(v, p, r, s, stk), v.ctx # 0 => p # "entry",
         D \subseteq v.lost, D \subseteq Volatile \ Range(CallerSave),
         r2 = [x \in Registers |-> r2[x]],
         \A x \in Registers \ D : r2[x] = r[x]
  PROVE  Intact(v, p, r2, s, stk)
<1>1. CASE v.ctx = 0
  BY <1>1 DEF Intact
<1>2. CASE v.ctx # 0
  <2>1. "x1" \in Registers \ D /\ "x10" \in Registers \ D
    BY CallerSaveFacts, RuntimeSaveFacts
  <2>2. \A x \in Untouched : x \in Registers \ D
    BY DEF Untouched
  <2>3. \A x \in Volatile \ v.lost : x \in Registers \ D
    BY TrapAssumption DEF TrapAssumption
  <2>4. RegsOf(v, p, r)
    BY <1>2 DEF Intact
  <2>5. RegsOf(v, p, r2)
    BY <1>2, <2>1, <2>2, <2>3, <2>4 DEF RegsOf
  <2> QED BY <1>2, <2>5 DEF Intact
<1> QED BY <1>1, <1>2

(* A context's stack is below what it found. *)
LEMMA GoesDown ==
  ASSUME NEW v, NEW p, NEW r, NEW s, NEW stk, v.ctx # 0,
         Intact(v, p, r, s, stk)
  PROVE  s <= v.old.sp
<1>1. s \in Nat /\ v.old.sp \in Nat /\ FrameAt(v, p, s, stk)
  BY DEF Intact
<1> QED BY <1>1, CallerSaveFacts, RuntimeSaveFacts
        DEF FrameAt, Held, NestedFrame, PcsFrame, RuntimeFrame, ClosureFrame

-----------------------------------------------------------------------------
(* Contexts. *)

LEMMA ViewOf ==
  ASSUME NEW l \in Interrupts
  PROVE  /\ View(l).ctx = l /\ View(l).live = Live(l) /\ View(l).kind = kind[l]
         /\ View(l).old = saved[l] /\ View(l).hw = hw[l] /\ l # 0
         /\ View(l).lost = LostAbove(l)
  BY DEF View, Interrupts

LEMMA LostSame ==
  ASSUME UNCHANGED kind, NEW k
  PROVE  LostAbove(k)' = LostAbove(k)
  BY DEF LostAbove, Lost

(* What a handler may lose is part of what any context below it may lose.  *)
LEMMA LostIsLost ==
  ASSUME NEW l \in Interrupts, NEW c \in Contexts, c < l
  PROVE  /\ View(c).lost = LostAbove(c)
         /\ Lost(l) \subseteq LostAbove(c)
         /\ Lost(l) \subseteq Volatile \ Range(CallerSave)
  BY DEF LostAbove, Lost, View

LEMMA ContextOrder ==
  /\ MaxLevel \in Nat
  /\ Contexts = Interrupts \cup {0} /\ 0 \notin Interrupts
  /\ \A l \in Contexts : l \in Nat
  BY TrapAssumption DEF TrapAssumption, Interrupts, Contexts

(* Context l is in an action that ends in the same context: it writes into *)
(* its own part of the stack.                                              *)
StaysIn(l) ==
  /\ UNCHANGED <<kind, mil, thresh, hw, turn, saved>>
  /\ ip' = ip
  /\ pc' = [ctx |-> l, at |-> pc'.at]
  /\ mie' \in BOOLEAN
  /\ \A a \in saved[l].sp .. StackTop - 1 : stack'[a] = stack[a]
  /\ stack' = [a \in 0 .. StackTop - 1 |-> stack'[a]]

(* The control registers of context l with view v, at place p. *)
CsrFits(v, p) ==
  Off(v.kind, p) => ~mie' /\ mepc' = v.old.pc /\ mcause' = Cause(v)

LEMMA ViewsSame ==
  ASSUME UNCHANGED <<kind, hw, turn, saved>>, NEW k \in Contexts
  PROVE  View(k)' = View(k)
  BY LostSame DEF View, Live

LEMMA GoesOn ==
  ASSUME Inv, NEW l \in Interrupts, pc.ctx = l, StaysIn(l),
         NEW v, v = View(l), Intact(v, pc'.at, regs', sp', stack'),
         CsrFits(v, pc'.at)
  PROVE  Inv'
<1>1. /\ v.ctx = l /\ v.old = saved[l] /\ v.kind = kind[l] /\ l # 0 /\ l \in Contexts
  BY ViewOf, ContextOrder
<1>2. /\ UNCHANGED <<kind, mil, thresh, ip, hw, turn, saved>>
      /\ pc' = [ctx |-> l, at |-> pc'.at] /\ pc'.ctx = l
      /\ mie' \in BOOLEAN
      /\ \A a \in saved[l].sp .. StackTop - 1 : stack'[a] = stack[a]
      /\ stack' = [a \in 0 .. StackTop - 1 |-> stack'[a]]
  BY DEF StaysIn
<1>3. \A k \in Contexts : View(k)' = View(k)
  BY <1>2, ViewsSame
<1>4. /\ sp' \in Nat /\ regs' = [x \in Registers |-> regs'[x]]
      /\ pc'.at \in Places /\ v.old # NotActive
      /\ v.old.sp \in Nat /\ v.old.sp <= StackTop /\ sp' <= v.old.sp
  BY <1>1, GoesDown DEF Intact
<1>5. TypeOK'
  <2>1. TypeOK /\ StackTop \in Nat
    BY TrapAssumption DEF Inv, TrapAssumption
  <2>2. DOMAIN regs' = Registers /\ DOMAIN stack' = 0 .. StackTop - 1
    BY <1>2, <1>4
  <2>3. sp' \in 0 .. StackTop
    BY <1>4, <2>1
  <2>4. mil' = pc'.ctx
    BY <1>2, <2>1 DEF TypeOK
  <2> QED BY <1>2, <1>4, <2>1, <2>2, <2>3, <2>4 DEF TypeOK
<1>6. Shapes'
  BY <1>1, <1>2, <1>4 DEF Inv, Shapes
<1>7. Chain'
  BY <1>2 DEF Inv, Chain, Link, Active
<1>8. Preempted'
  <2> SUFFICES ASSUME NEW k \in Interrupts, Active(k)
               PROVE  Intact(View(saved[k].pc.ctx), saved[k].pc.at,
                             saved[k].regs, saved[k].sp, stack')
    <3>1. \A k \in Interrupts : Active(k) => saved[k].pc.ctx \in Contexts
      BY DEF Inv, Chain, Link
    <3>2. \A k \in Interrupts : Active(k)' => Active(k)
      BY <1>2 DEF Active
    <3>3. ASSUME NEW k \in Interrupts, Active(k)'
          PROVE  (View(saved[k].pc.ctx))' = View(saved[k].pc.ctx)
      BY <1>2, <1>3, <3>1, <3>2, <3>3
    <3> QED BY <1>2, <3>2, <3>3 DEF Preempted
  <2>1. Active(l) /\ k <= l
    BY <1>1, <1>4 DEF Active, Inv, Chain, Link
  <2>2. saved[k].sp \in Nat /\ saved[l].sp <= saved[k].sp /\ saved[l].sp \in Nat
    BY <2>1 DEF Inv, Chain, Link
  <2>3. \A a \in saved[k].sp .. StackTop - 1 : stack'[a] = stack[a]
    BY <1>2, <2>2
  <2>4. Intact(View(saved[k].pc.ctx), saved[k].pc.at, saved[k].regs,
               saved[k].sp, stack)
    BY DEF Inv, Preempted
  <2> QED BY <2>3, <2>4, StillIntact
<1>9. Running'
  <2>1. (View(pc.ctx))' = v
    BY <1>1, <1>2, <1>3
  <2> QED BY <2>1 DEF Running
<1>10. CsrKept'
  <2>1. (View(pc.ctx))' = v
    BY <1>1, <1>2, <1>3
  <2>2. (kind[pc.ctx])' = v.kind /\ (saved[pc.ctx].pc)' = v.old.pc
    BY <1>1, <1>2
  <2> QED BY <2>1, <2>2 DEF CsrKept, CsrFits
<1> QED BY <1>5, <1>6, <1>7, <1>8, <1>9, <1>10 DEF Inv

(* Context l ends: everything is as it was when it preempted another, but  *)
(* for the registers it may lose.                                          *)
Resumes(l) ==
  /\ UNCHANGED <<kind, thresh, turn>>
  /\ ip' = ip
  /\ hw' = [k \in Interrupts |-> hw'[k]]
  /\ \A k \in Interrupts \ {l} : hw'[k] = hw[k]
  /\ \A a \in saved[l].sp .. StackTop - 1 : stack'[a] = stack[a]
  /\ stack' = [a \in 0 .. StackTop - 1 |-> stack'[a]]
  /\ saved' = [saved EXCEPT ![l] = NotActive]
  /\ pc' = saved[l].pc
  /\ mil' = saved[l].mil
  /\ sp' = saved[l].sp
  /\ regs' = [x \in Registers |-> regs'[x]]
  /\ \A x \in Registers \ Lost(l) : regs'[x] = saved[l].regs[x]
  /\ mie' = TRUE

LEMMA Returned ==
  ASSUME Inv, NEW l \in Interrupts, pc.ctx = l, Resumes(l)
  PROVE  Inv'
<1> DEFINE c == saved[l].pc.ctx
<1>1. Active(l)
  <2>1. View(l).ctx = l /\ View(l).old = saved[l] /\ l # 0
    BY ViewOf
  <2> QED BY <2>1 DEF Inv, Running, Intact, Active
<1>2. /\ UNCHANGED <<kind, thresh, turn, ip>>
      /\ \A k \in Interrupts \ {l} : hw'[k] = hw[k]
      /\ \A a \in saved[l].sp .. StackTop - 1 : stack'[a] = stack[a]
      /\ pc' = saved[l].pc /\ mil' = saved[l].mil /\ sp' = saved[l].sp
      /\ regs' = [x \in Registers |-> regs'[x]]
      /\ \A x \in Registers \ Lost(l) : regs'[x] = saved[l].regs[x]
      /\ mie' = TRUE
  BY DEF Resumes
<1>3. /\ DOMAIN saved = Interrupts /\ DOMAIN saved' = Interrupts
      /\ saved'[l] = NotActive
      /\ \A k \in Interrupts \ {l} : saved'[k] = saved[k]
  BY DEF Inv, Shapes, Resumes
<1>4. /\ saved[l].pc = [ctx |-> c, at |-> saved[l].pc.at]
      /\ c \in Contexts /\ c < l
      /\ \A j \in Interrupts : Active(j) /\ j < l => j <= c
      /\ saved[l].mil = c
      /\ saved[l].sp \in Nat /\ saved[l].sp <= StackTop
      /\ c # 0 => ~Off(kind[c], saved[l].pc.at)
  BY <1>1 DEF Inv, Chain, Link
<1>5. /\ \A k \in Interrupts : Active(k)' => Active(k) /\ k # l
      /\ \A k \in Interrupts : Active(k) => k <= l
  BY <1>3 DEF Inv, Chain, Link, Active
<1>6. \A k \in Interrupts : Active(k)' =>
        /\ k < l /\ k <= c
        /\ saved'[k] = saved[k] /\ saved[k].pc.ctx \in Contexts
        /\ saved[k].pc.ctx < l
  <2> SUFFICES ASSUME NEW k \in Interrupts, Active(k)'
               PROVE  /\ k < l /\ k <= c
                      /\ saved'[k] = saved[k] /\ saved[k].pc.ctx \in Contexts
                      /\ saved[k].pc.ctx < l
    OBVIOUS
  <2>1. Active(k) /\ k # l /\ k <= l /\ k \in Nat /\ l \in Nat
    BY <1>5, ContextOrder
  <2>2. k < l
    BY <2>1
  <2>3. saved[k].pc.ctx \in Contexts /\ saved[k].pc.ctx < k /\ saved[k].pc.ctx \in Nat
    BY <2>1, ContextOrder DEF Inv, Chain, Link
  <2> QED BY <1>3, <1>4, <2>1, <2>2, <2>3
<1>7. \A k \in Contexts : k # l => View(k)' = View(k)
  BY <1>2, <1>3, ContextOrder, LostSame DEF View, Live
<1>8. c # l /\ c \in Nat
  BY <1>4, ContextOrder
<1>9. Intact(View(c), saved[l].pc.at, saved[l].regs, saved[l].sp, stack)
  BY <1>1 DEF Inv, Preempted
<1>10. Intact(View(c), pc'.at, regs', sp', stack')
  <2> DEFINE at == saved[l].pc.at
             v == View(c)
  <2>1. v.lost = LostAbove(c) /\ Lost(l) \subseteq LostAbove(c)
        /\ Lost(l) \subseteq Volatile \ Range(CallerSave)
    BY <1>4, LostIsLost
  <2>2. v.ctx # 0 => at # "entry"
    BY <1>4 DEF View, Off
  <2>3. Intact(v, at, saved[l].regs, saved[l].sp, stack')
    BY <1>2, <1>9, StillIntact
  <2> HIDE DEF v, at, c
  <2>4. Intact(v, at, regs', saved[l].sp, stack')
    BY <1>2, <2>1, <2>2, <2>3, LosesLittle
  <2> QED BY <1>2, <2>4 DEF v, at, c
<1>11. (View(pc.ctx))' = View(c)
  BY <1>2, <1>4, <1>7, <1>8
<1> HIDE DEF c
<1>12. Running'
  BY <1>10, <1>11 DEF Running
<1>13. CsrKept'
  <2>1. pc'.ctx = c
    BY <1>2 DEF c
  <2> QED BY <1>2, <1>4, <2>1 DEF CsrKept
<1>14. Preempted'
  <2> SUFFICES ASSUME NEW k \in Interrupts, Active(k)'
               PROVE  Intact((View(saved[k].pc.ctx))', saved'[k].pc.at,
                             saved'[k].regs, saved'[k].sp, stack')
    BY DEF Preempted
  <2>1. Active(k) /\ saved'[k] = saved[k] /\ k < l /\ k <= l
    BY <1>5, <1>6
  <2>2. saved[k].sp \in Nat /\ saved[l].sp <= saved[k].sp
    BY <1>1, <2>1 DEF Inv, Chain, Link
  <2>3. \A a \in saved[k].sp .. StackTop - 1 : stack'[a] = stack[a]
    BY <1>2, <1>4, <2>2
  <2>4. Intact(View(saved[k].pc.ctx), saved[k].pc.at, saved[k].regs,
               saved[k].sp, stack)
    BY <2>1 DEF Inv, Preempted
  <2>5. saved[k].pc.ctx \in Contexts /\ saved[k].pc.ctx # l
    BY <1>6, ContextOrder
  <2>6. (View(saved[k].pc.ctx))' = View(saved[k].pc.ctx)
    BY <1>7, <2>1, <2>5
  <2> QED BY <2>1, <2>3, <2>4, <2>6, StillIntact
<1>15. Chain'
  <2> SUFFICES ASSUME NEW k \in Interrupts, Active(k)'
               PROVE  Link(k)'
    BY DEF Chain
  <2>1. Active(k) /\ saved'[k] = saved[k] /\ k <= c
    BY <1>5, <1>6
  <2> QED BY <1>2, <1>5, <1>6, <2>1 DEF Inv, Chain, Link, c
<1>16. Shapes'
  <2>1. pc' = [ctx |-> c, at |-> saved[l].pc.at]
    BY <1>2, <1>4
  <2>2. pc'.ctx = c /\ pc'.at = saved[l].pc.at
    BY <2>1
  <2>3. saved' = [k \in Interrupts |-> saved'[k]]
    BY DEF Inv, Shapes, Resumes
  <2>4. regs' = [x \in Registers |-> regs'[x]]
    BY <1>10 DEF Intact
  <2> QED BY <1>2, <1>4, <2>1, <2>2, <2>3, <2>4 DEF Inv, Shapes, Resumes
<1>17. TypeOK'
  <2>1. TypeOK /\ StackTop \in Nat
    BY TrapAssumption DEF Inv, TrapAssumption
  <2>2. DOMAIN regs' = Registers /\ DOMAIN stack' = 0 .. StackTop - 1
    BY <1>16 DEF Shapes
  <2>3. sp' \in 0 .. StackTop
    BY <1>2, <1>4, <2>1
  <2>4. mil' = pc'.ctx
    BY <1>2, <1>4
  <2>5. pc' = [ctx |-> 0, at |-> "run"] \/ (pc'.ctx \in Interrupts /\ pc'.at \in Places)
    <3>1. pc'.ctx = c /\ pc' = [ctx |-> c, at |-> pc'.at]
      BY <1>2, <1>4
    <3>2. CASE c = 0
      <4>1. View(c).ctx = 0
        BY <3>2 DEF View
      <4> QED BY <1>10, <3>1, <3>2, <4>1 DEF Intact
    <3>3. CASE c # 0
      <4>1. c \in Interrupts
        BY <1>4, <3>3, ContextOrder
      <4>2. View(c).ctx # 0
        BY <4>1, ViewOf
      <4> QED BY <1>10, <3>1, <4>1, <4>2 DEF Intact
    <3> QED BY <3>2, <3>3
  <2> QED BY <1>2, <2>1, <2>2, <2>3, <2>4, <2>5 DEF TypeOK
<1> QED BY <1>12, <1>13, <1>14, <1>15, <1>16, <1>17 DEF Inv

-----------------------------------------------------------------------------
(* The core and main. *)

(* No more than the pending interrupts changes. *)
LEMMA OnlyPending ==
  ASSUME Inv, ip' \subseteq Interrupts,
         UNCHANGED <<kind, pc, csrVars, regs, stackVars, hw, turn, saved>>
  PROVE  Inv'
<1>1. /\ ip' \subseteq Interrupts
      /\ UNCHANGED <<kind, pc, mie, mil, mepc, mcause, thresh, regs, sp, stack, hw,
                     turn, saved>>
  BY DEF csrVars, stackVars
<1>2. \A k \in Contexts : View(k)' = View(k)
  BY <1>1, ViewsSame
<1>3. pc.ctx \in Contexts
  BY DEF Inv, Shapes
<1>4. \A k \in Interrupts : Active(k) => saved[k].pc.ctx \in Contexts
  BY DEF Inv, Chain, Link
<1>5. Running'
  <2>1. (View(pc.ctx))' = View(pc.ctx)
    BY <1>1, <1>2, <1>3
  <2> QED BY <1>1, <2>1 DEF Inv, Running
<1>6. Preempted'
  <2> SUFFICES ASSUME NEW k \in Interrupts, Active(k)'
               PROVE  Intact((View(saved[k].pc.ctx))', saved'[k].pc.at,
                             saved'[k].regs, saved'[k].sp, stack')
    BY DEF Preempted
  <2>1. Active(k) /\ saved'[k] = saved[k]
    BY <1>1 DEF Active
  <2>2. (View(saved[k].pc.ctx))' = View(saved[k].pc.ctx)
    BY <1>1, <1>2, <1>4, <2>1
  <2> QED BY <1>1, <2>1, <2>2 DEF Inv, Preempted
<1>7. CsrKept'
  <2>1. (View(pc.ctx))' = View(pc.ctx)
    BY <1>1, <1>2, <1>3
  <2> QED BY <1>1, <2>1 DEF Inv, CsrKept
<1>8. TypeOK' /\ Shapes' /\ Chain'
  BY <1>1 DEF Inv, TypeOK, Shapes, Chain, Link, Active
<1> QED BY <1>5, <1>6, <1>7, <1>8 DEF Inv

LEMMA Raised == ASSUME Inv, NEW l \in Interrupts, Raise(l) PROVE Inv'
<1>1. /\ ip' \subseteq Interrupts
      /\ UNCHANGED <<kind, pc, csrVars, regs, stackVars, hw, turn, saved>>
  BY DEF Raise, Inv, TypeOK
<1> QED BY <1>1, OnlyPending

LEMMA Taken == ASSUME Inv, NEW l \in Interrupts, TakeIrq(l) PROVE Inv'
<1> DEFINE c == pc.ctx
           old == [regs |-> regs, pc |-> pc, mil |-> mil, sp |-> sp]
<1>1. /\ mie /\ l > mil
      /\ ip' \subseteq Interrupts
      /\ mepc' = pc
      /\ mcause' = [irq |-> l, mpil |-> mil, mpie |-> mie]
      /\ mil' = l /\ mie' = FALSE
      /\ pc' = [ctx |-> l, at |-> "entry"]
      /\ turn' = [turn EXCEPT ![l] = 1 - @]
      /\ hw' = IF kind[l] = "pcs"
               THEN [hw EXCEPT ![l] = [regs |-> regs, mepc |-> mepc',
                                       mcause |-> mcause']]
               ELSE hw
      /\ saved' = [saved EXCEPT ![l] = old]
      /\ UNCHANGED <<kind, thresh, regs, sp, stack>>
  BY DEF TakeIrq, stackVars, Inv, TypeOK
<1>2. /\ mil = c /\ c \in Contexts /\ pc = [ctx |-> c, at |-> pc.at]
      /\ mie = TRUE /\ sp \in Nat /\ sp <= StackTop
      /\ regs = [x \in Registers |-> regs[x]]
  BY <1>1 DEF Inv, TypeOK, Shapes
<1>3. c \in Nat /\ l \in Nat /\ c < l /\ l # 0 /\ l \in Contexts
  BY <1>1, <1>2, ContextOrder
<1>4. /\ DOMAIN saved = Interrupts /\ DOMAIN saved' = Interrupts
      /\ saved'[l] = old
      /\ \A k \in Interrupts \ {l} : saved'[k] = saved[k]
  BY <1>1 DEF Inv, Shapes
<1>5. old # NotActive
  <2>1. mil # Dead
    BY <1>2, TrapAssumption DEF TrapAssumption
  <2>2. old.mil = mil /\ NotActive.mil = Dead
    BY DEF NotActive
  <2> QED BY <2>1, <2>2
<1>6. \A k \in Contexts : k # l => View(k)' = View(k)
  <2>1. \A k \in Interrupts : k # l => hw'[k] = hw[k]
    BY <1>1
  <2>2. \A k \in Contexts : k # l => turn'[k] = turn[k]
    BY <1>1 DEF Inv, TypeOK
  <2> QED BY <1>1, <1>4, <2>1, <2>2, ContextOrder, LostSame DEF View, Live
<1>7. /\ View(l)'.ctx = l /\ View(l)'.old = old
      /\ View(l)'.kind = kind[l] /\ View(l)'.hw = hw'[l]
  BY <1>1, <1>3, <1>4 DEF View
<1>8. View(l)'.kind = "pcs" => PcsFrame(View(l)', sp)
  <2> SUFFICES ASSUME kind[l] = "pcs" PROVE PcsFrame(View(l)', sp)
    BY <1>7
  <2>1. hw'[l] = [regs |-> regs, mepc |-> pc, mcause |-> mcause']
    BY <1>1 DEF Inv, Shapes
  <2>2. Cause(View(l)') = mcause'
    BY <1>1, <1>2, <1>7 DEF Cause
  <2>3. old.regs = regs /\ old.pc = pc /\ old.sp = sp
    OBVIOUS
  <2> HIDE DEF old
  <2> QED BY <1>7, <2>1, <2>2, <2>3 DEF PcsFrame
<1>9. Intact(View(l)', "entry", regs, sp, stack)
  <2>1. FrameAt(View(l)', "entry", sp, stack)
    BY <1>7, <1>8 DEF FrameAt
  <2>2. RegsOf(View(l)', "entry", regs)
    BY <1>7 DEF RegsOf
  <2> QED BY <1>2, <1>3, <1>5, <1>7, <2>1, <2>2 DEF Intact, Places
<1>10. \A k \in Interrupts : Active(k)' => k = l \/ (Active(k) /\ k <= c /\ k # l)
  <2> SUFFICES ASSUME NEW k \in Interrupts, Active(k)', k # l
               PROVE  Active(k) /\ k <= c
    OBVIOUS
  <2>1. Active(k)
    BY <1>4 DEF Active
  <2> QED BY <2>1 DEF Inv, Chain, Link
<1>11. ASSUME NEW k \in Interrupts, Active(k) PROVE sp <= saved[k].sp
  <2>1. k <= c /\ k \in Nat /\ k # 0 /\ saved[k].sp \in Nat
    BY <1>11, ContextOrder DEF Inv, Chain, Link
  <2>2. c \in Interrupts
    BY <1>2, <1>3, <2>1, ContextOrder
  <2>3. View(c).ctx # 0 /\ View(c).old = saved[c]
    BY <2>2, ViewOf
  <2>4. sp <= saved[c].sp /\ Active(c)
    BY <2>3, GoesDown DEF Inv, Running, Intact, Active
  <2>5. saved[c].sp <= saved[k].sp /\ saved[c].sp \in Nat
    BY <1>11, <2>1, <2>2, <2>4 DEF Inv, Chain, Link
  <2> QED BY <1>2, <2>1, <2>4, <2>5
<1>12. c # 0 => ~Off(kind[c], pc.at)
  BY <1>2 DEF Inv, CsrKept
<1>13. Running'
  BY <1>1, <1>9 DEF Running
<1>14. CsrKept'
  <2>1. (View(pc.ctx))' = View(l)' /\ (saved[pc.ctx].pc)' = pc
    BY <1>1, <1>4
  <2>2. Cause(View(l)') = mcause'
    BY <1>1, <1>2, <1>7 DEF Cause
  <2> QED BY <1>1, <2>1, <2>2 DEF CsrKept
<1>15. Preempted'
  <2> SUFFICES ASSUME NEW k \in Interrupts, Active(k)'
               PROVE  Intact((View(saved[k].pc.ctx))', saved'[k].pc.at,
                             saved'[k].regs, saved'[k].sp, stack)
    BY <1>1 DEF Preempted
  <2>1. CASE k = l
    <3>1. (View(saved[k].pc.ctx))' = View(c)
      BY <1>2, <1>3, <1>4, <1>6, <2>1
    <3> QED BY <1>4, <2>1, <3>1 DEF Inv, Running
  <2>2. CASE k # l
    <3>1. Active(k) /\ k <= c /\ saved'[k] = saved[k] /\ k \in Nat
      BY <1>4, <1>10, <2>2, ContextOrder
    <3>2. saved[k].pc.ctx \in Contexts /\ saved[k].pc.ctx < k /\ saved[k].pc.ctx \in Nat
      BY <3>1, ContextOrder DEF Inv, Chain, Link
    <3>3. saved[k].pc.ctx # l
      BY <1>3, <3>1, <3>2
    <3>4. (View(saved[k].pc.ctx))' = View(saved[k].pc.ctx)
      BY <1>6, <3>1, <3>2, <3>3
    <3> QED BY <3>1, <3>4 DEF Inv, Preempted
  <2> QED BY <2>1, <2>2
<1>16. Chain'
  <2> SUFFICES ASSUME NEW k \in Interrupts, Active(k)' PROVE Link(k)'
    BY DEF Chain
  <2>1. CASE k = l
    <3>1. saved'[k] = old /\ old.pc = pc /\ old.mil = mil /\ old.sp = sp
      BY <1>4, <2>1
    <3>2. \A j \in Interrupts : Active(j)' /\ j < k => j <= c
      BY <1>3, <1>10, <2>1
    <3>3. \A j \in Interrupts : Active(j)' /\ j <= k => sp <= saved'[j].sp
      BY <1>2, <1>4, <1>10, <1>11
    <3> HIDE DEF old
    <3> QED BY <1>1, <1>2, <1>3, <1>12, <2>1, <3>1, <3>2, <3>3 DEF Link
  <2>2. CASE k # l
    <3>1. Active(k) /\ k <= c /\ saved'[k] = saved[k] /\ k \in Nat
      BY <1>4, <1>10, <2>2, ContextOrder
    <3>2. \A j \in Interrupts : Active(j)' /\ j <= k =>
            Active(j) /\ saved'[j] = saved[j]
      BY <1>3, <1>4, <1>10, <3>1, ContextOrder
    <3>3. Link(k)
      BY <3>1 DEF Inv, Chain
    <3>4. k <= l
      BY <1>3, <3>1
    <3>5. \A j \in Interrupts : Active(j)' /\ j < k => Active(j)
      BY <3>1, <3>2, ContextOrder
    <3> QED BY <1>1, <3>1, <3>2, <3>3, <3>4, <3>5 DEF Link
  <2> QED BY <2>1, <2>2
<1>17. Shapes'
  <2>1. hw' = [k \in Interrupts |-> hw'[k]]
    BY <1>1 DEF Inv, Shapes
  <2>2. saved' = [k \in Interrupts |-> saved'[k]]
    BY <1>1 DEF Inv, Shapes
  <2> QED BY <1>1, <1>2, <1>3, <2>1, <2>2 DEF Inv, Shapes
<1>18. TypeOK'
  <2>1. turn' \in [Contexts -> 0 .. 1]
    <3>1. turn \in [Contexts -> 0 .. 1]
      BY DEF Inv, TypeOK
    <3>2. 1 - turn[l] \in 0 .. 1
      BY <1>3, <3>1
    <3> QED BY <1>1, <3>1, <3>2
  <2>2. pc'.ctx = l /\ pc'.at = "entry" /\ "entry" \in Places
    BY <1>1 DEF Places
  <2> QED BY <1>1, <1>3, <2>1, <2>2 DEF Inv, TypeOK
<1> QED BY <1>13, <1>14, <1>15, <1>16, <1>17, <1>18 DEF Inv

LEMMA MainStep == ASSUME Inv, Main PROVE Inv' /\ saved' = saved
<1>1. /\ pc = [ctx |-> 0, at |-> "run"] /\ pc' = pc /\ pc.ctx = 0
      /\ UNCHANGED <<kind, mil, ip, stackVars, hw, saved>>
  BY DEF Main, MainEnable, MainThreshold, MainCompute, At, csrVars
<1>2. \A k \in Interrupts : ~Active(k)
  <2>1. \A k \in Interrupts : Active(k) => k <= 0
    BY <1>1 DEF Inv, Chain, Link
  <2>2. \A k \in Interrupts : k \in Nat /\ k # 0
    BY ContextOrder
  <2> QED BY <2>1, <2>2
<1>3. mie' \in BOOLEAN /\ thresh' \in {0, MaxLevel} /\ turn' \in [Contexts -> 0 .. 1]
  BY DEF Main, MainEnable, MainThreshold, MainCompute, Inv, TypeOK, csrVars
<1>4. /\ regs' = [x \in Registers |-> regs'[x]]
      /\ \A x \in Registers \ LostAbove(0) : regs'[x] = Live(0)'
  <2>1. /\ regs = [x \in Registers |-> regs[x]]
        /\ \A x \in Registers \ LostAbove(0) : regs[x] = Live(0)
    BY <1>1 DEF Inv, Running, Intact, View
  <2>2. CASE MainEnable \/ MainThreshold
    BY <2>1, <2>2 DEF MainEnable, MainThreshold, Live
  <2>3. CASE MainCompute
    <3>1. [Live(0) EXCEPT !.turn = 1 - @] = Live(0)'
      <4>1. turn'[0] = 1 - turn[0]
        BY <2>3, ContextOrder DEF MainCompute, Inv, TypeOK
      <4> QED BY <4>1 DEF Live
    <3> QED BY <2>3, <3>1 DEF MainCompute
  <2> QED BY <2>2, <2>3 DEF Main
<1>5. Running'
  <2>1. sp \in Nat /\ sp = StackTop
    <3>1. View(pc.ctx).ctx = 0
      BY <1>1 DEF View
    <3> QED BY <3>1 DEF Inv, Running, Intact
  <2>2. (View(pc.ctx))'.ctx = 0 /\ (View(pc.ctx))'.live = Live(0)'
        /\ (View(pc.ctx))'.lost = LostAbove(0)
    BY <1>1, LostSame DEF View
  <2> QED BY <1>1, <1>4, <2>1, <2>2 DEF Running, Intact, stackVars
<1>6. Chain' /\ Preempted' /\ CsrKept'
  BY <1>1, <1>2 DEF Chain, Preempted, CsrKept, Active
<1>7. Shapes' /\ TypeOK'
  BY <1>1, <1>3, <1>4 DEF Inv, Shapes, TypeOK, stackVars
<1> QED BY <1>1, <1>5, <1>6, <1>7 DEF Inv

-----------------------------------------------------------------------------
(* Handlers. *)

(* What the invariant says of the running context l, at place p. *)
HereFacts(l, v, p) ==
  /\ pc = [ctx |-> l, at |-> p] /\ pc.ctx = l /\ pc.at = p
  /\ v.ctx = l /\ v.ctx # 0 /\ v.old = saved[l] /\ v.kind = kind[l] /\ v.hw = hw[l]
  /\ v.live = Live(l) /\ v.lost = LostAbove(l) /\ v.kind \in Kinds
  /\ sp \in Nat /\ sp <= StackTop /\ sp <= v.old.sp
  /\ v.old.sp \in Nat /\ v.old.sp <= StackTop /\ v.old # NotActive
  /\ v.old.regs = [x \in Registers |-> v.old.regs[x]]
  /\ regs = [x \in Registers |-> regs[x]]
  /\ stack = [a \in 0 .. StackTop - 1 |-> stack[a]] /\ StackTop \in Nat
  /\ mie \in BOOLEAN
  /\ Intact(v, p, regs, sp, stack) /\ FrameAt(v, p, sp, stack) /\ RegsOf(v, p, regs)
  /\ Off(v.kind, p) => ~mie /\ mepc = v.old.pc /\ mcause = Cause(v)

LEMMA Here ==
  ASSUME Inv, NEW l \in Interrupts, NEW p, At(l, p), NEW v, v = View(l)
  PROVE  HereFacts(l, v, p)
<1>1. pc = [ctx |-> l, at |-> p] /\ pc.ctx = l /\ pc.at = p
  BY DEF At
<1>2. v.ctx = l /\ v.live = Live(l) /\ v.kind = kind[l] /\ v.old = saved[l]
      /\ v.hw = hw[l] /\ l # 0 /\ v.lost = LostAbove(l)
  BY ViewOf
<1>3. Intact(v, p, regs, sp, stack)
  BY <1>1 DEF Inv, Running
<1>4. /\ sp \in Nat /\ v.old.sp \in Nat /\ v.old.sp <= StackTop
      /\ v.old # NotActive /\ FrameAt(v, p, sp, stack) /\ RegsOf(v, p, regs)
      /\ regs = [x \in Registers |-> regs[x]]
  BY <1>2, <1>3 DEF Intact
<1>5. sp <= v.old.sp
  BY <1>2, <1>3, GoesDown
<1>6. v.old.regs = [x \in Registers |-> v.old.regs[x]]
  <2>1. Active(l)
    BY <1>2, <1>4 DEF Active
  <2> QED BY <1>2, <2>1 DEF Inv, Preempted, Intact
<1>7. v.kind \in Kinds /\ stack = [a \in 0 .. StackTop - 1 |-> stack[a]]
      /\ mie \in BOOLEAN /\ StackTop \in Nat /\ sp <= StackTop
  BY <1>2, TrapAssumption DEF Inv, Shapes, TypeOK, TrapAssumption
<1>8. Off(v.kind, p) => ~mie /\ mepc = v.old.pc /\ mcause = Cause(v)
  BY <1>1, <1>2 DEF Inv, CsrKept
<1> QED BY <1>1, <1>2, <1>3, <1>4, <1>5, <1>6, <1>7, <1>8 DEF HereFacts

LEMMA SavesAreSeqs ==
  CallerSave \in Seq(Registers) /\ RuntimeSave \in Seq(Registers)
<1>1. ASSUME NEW f, NEW n \in Nat, f = [i \in 1 .. n |-> f[i]],
             \A i \in 1 .. n : f[i] \in Registers
      PROVE  f \in Seq(Registers)
  BY <1>1, SeqDef
<1>2. CallerSave = [i \in 1 .. 7 |-> CallerSave[i]]
  BY DEF CallerSave
<1>3. \A i \in 1 .. 7 : CallerSave[i] \in Registers
  BY CallerSaveFacts, RuntimeSaveFacts DEF Range
<1>4. RuntimeSave = [i \in 1 .. 10 |-> RuntimeSave[i]]
  BY RuntimeSaveFacts, <1>2 DEF RuntimeSave
<1>5. \A i \in 1 .. 10 : RuntimeSave[i] \in Registers
  BY RuntimeSaveFacts DEF Range
<1> QED BY <1>1, <1>2, <1>3, <1>4, <1>5

(* A frame is pushed: registers f, then the words rest. *)
LEMMA FramePushed ==
  ASSUME Inv, NEW f \in Seq(Registers), NEW S, NEW rest \in Seq(S),
         Push(Stored(f) \o rest)
  PROVE  /\ sp' \in Nat /\ sp' + (Len(f) + Len(rest)) = sp
         /\ \A a \in sp .. StackTop - 1 : stack'[a] = stack[a]
         /\ RegsAt(f, sp', stack', regs)
         /\ \A i \in 1 .. Len(rest) : stack'[sp' + (Len(f) + i) - 1] = rest[i]
         /\ stack' = [a \in 0 .. StackTop - 1 |-> stack'[a]]
<1> DEFINE w == Stored(f) \o rest
           n == Len(f) + Len(rest)
<1>1. Len(f) \in Nat /\ Len(rest) \in Nat /\ DOMAIN f = 1 .. Len(f)
  BY LenProperties
<1>2. /\ Len(w) = n
      /\ \A i \in 1 .. Len(f) : w[i] = regs[f[i]]
      /\ \A i \in 1 .. Len(rest) : w[Len(f) + i] = rest[i]
  <2>1. regs = [x \in Registers |-> regs[x]] /\ w = Stored(f) \o rest
    BY DEF Inv, Shapes
  <2> HIDE DEF w
  <2>2. WordsAre(w, f, rest)
    BY <2>1, StoredWords
  <2> QED BY <2>2 DEF WordsAre
<1>3. Shapes /\ sp \in Nat /\ sp <= StackTop
  BY DEF Inv, TypeOK
<1>4. Push(w) /\ n \in Nat
  BY <1>1
<1> HIDE DEF w
<1>5. Pushes(n, w)
  BY <1>2, <1>3, <1>4, PushWords
<1>6. RegsAt(f, sp', stack', regs)
  BY <1>1, <1>2, <1>5 DEF RegsAt, Pushes
<1>7. \A i \in 1 .. Len(rest) : stack'[sp' + (Len(f) + i) - 1] = rest[i]
  <2> SUFFICES ASSUME NEW i \in 1 .. Len(rest)
               PROVE  stack'[sp' + (Len(f) + i) - 1] = rest[i]
    OBVIOUS
  <2>1. Len(f) + i \in 1 .. n
    BY <1>1
  <2>2. stack'[sp' + (Len(f) + i) - 1] = w[Len(f) + i]
    BY <1>5, <2>1 DEF Pushes
  <2> QED BY <1>2, <2>2
<1> QED BY <1>5, <1>6, <1>7 DEF Pushes

LEMMA NestedEntryStep ==
  ASSUME Inv, NEW l \in Interrupts, NestedEntry(l)
  PROVE  Inv' /\ saved' = saved
<1>1. PICK v : v = View(l)
  OBVIOUS
<1>2. /\ kind[l] = "nested" /\ At(l, "entry")
      /\ Push(Stored(CallerSave) \o <<mcause, mepc>>)
      /\ mie' = TRUE
      /\ pc' = [pc EXCEPT !.at = "load"]
      /\ regs' = [regs EXCEPT !["x5"] = mcause, !["x15"] = mepc]
      /\ UNCHANGED <<kind, mil, mepc, mcause, thresh, ip, hw, turn, saved>>
  BY DEF NestedEntry, Goto
<1>3. HereFacts(l, v, "entry")
  BY <1>1, <1>2, Here
<1>4. /\ sp = v.old.sp /\ regs = v.old.regs
      /\ mepc = v.old.pc /\ mcause = Cause(v)
  BY <1>3 DEF HereFacts, FrameAt, RegsOf, Off
<1>5. pc' = [ctx |-> l, at |-> "load"]
  BY <1>2, <1>3 DEF HereFacts
<1>6. /\ sp' \in Nat /\ sp' + 9 = sp
      /\ \A a \in sp .. StackTop - 1 : stack'[a] = stack[a]
      /\ RegsAt(CallerSave, sp', stack', regs)
      /\ stack'[sp' + 7] = mcause /\ stack'[sp' + 8] = mepc
      /\ stack' = [a \in 0 .. StackTop - 1 |-> stack'[a]]
  <2> DEFINE rest == <<mcause, mepc>>
  <2>1. rest \in Seq({mcause, mepc}) /\ Len(rest) = 2 /\ rest[1] = mcause /\ rest[2] = mepc
    OBVIOUS
  <2>2. CallerSave \in Seq(Registers) /\ Len(CallerSave) = 7
    BY SavesAreSeqs, CallerSaveFacts
  <2>3. Push(Stored(CallerSave) \o rest)
    BY <1>2
  <2> HIDE DEF rest
  <2>4. /\ sp' \in Nat /\ sp' + (Len(CallerSave) + Len(rest)) = sp
        /\ \A a \in sp .. StackTop - 1 : stack'[a] = stack[a]
        /\ RegsAt(CallerSave, sp', stack', regs)
        /\ \A i \in 1 .. Len(rest) :
             stack'[sp' + (Len(CallerSave) + i) - 1] = rest[i]
        /\ stack' = [a \in 0 .. StackTop - 1 |-> stack'[a]]
    BY <2>1, <2>2, <2>3, FramePushed
  <2>5. /\ sp' \in Nat /\ sp' + (7 + 2) = sp
        /\ \A a \in sp .. StackTop - 1 : stack'[a] = stack[a]
        /\ RegsAt(CallerSave, sp', stack', regs)
        /\ \A i \in 1 .. 2 : stack'[sp' + (7 + i) - 1] = rest[i]
        /\ stack' = [a \in 0 .. StackTop - 1 |-> stack'[a]]
    BY <2>1, <2>2, <2>4
  <2>6. stack'[sp' + 7] = rest[1] /\ stack'[sp' + 8] = rest[2]
    BY <2>5
  <2> QED BY <2>1, <2>5, <2>6
<1>7. NestedFrame(v, sp', stack')
  BY <1>4, <1>6, CallerSaveFacts DEF NestedFrame
<1>8. FrameAt(v, "load", sp', stack')
  BY <1>2, <1>3, <1>7 DEF FrameAt, Held, HereFacts
<1>9. regs' = [x \in Registers |-> regs'[x]]
      /\ \A x \in Untouched : regs'[x] = v.old.regs[x]
  BY <1>2, <1>3, <1>4, CallerSaveFacts DEF HereFacts, Untouched
<1>10. Intact(v, pc'.at, regs', sp', stack')
  BY <1>3, <1>5, <1>6, <1>8, <1>9 DEF Intact, HereFacts, RegsOf, Places
<1>11. StaysIn(l)
  <2>1. \A a \in saved[l].sp .. StackTop - 1 : stack'[a] = stack[a]
    BY <1>3, <1>4, <1>6 DEF HereFacts
  <2>2. mie' \in BOOLEAN /\ pc' = [ctx |-> l, at |-> pc'.at]
    BY <1>2, <1>5
  <2> QED BY <1>2, <1>6, <2>1, <2>2 DEF StaysIn
<1>12. CsrFits(v, pc'.at)
  BY <1>2, <1>3, <1>5 DEF CsrFits, Off, HereFacts
<1> QED BY <1>1, <1>2, <1>3, <1>10, <1>11, <1>12, GoesOn DEF HereFacts

LEMMA PcsEntryStep ==
  ASSUME Inv, NEW l \in Interrupts, PcsEntry(l)
  PROVE  Inv' /\ saved' = saved
<1>1. PICK v : v = View(l)
  OBVIOUS
<1>2. /\ kind[l] = "pcs" /\ At(l, "entry")
      /\ mie' = TRUE
      /\ pc' = [pc EXCEPT !.at = "load"]
      /\ UNCHANGED <<kind, mil, mepc, mcause, thresh, ip, regs, sp, stack, hw,
                     turn, saved>>
  BY DEF PcsEntry, Goto, stackVars
<1>3. HereFacts(l, v, "entry")
  BY <1>1, <1>2, Here
<1>4. PcsFrame(v, sp) /\ regs = v.old.regs
  BY <1>2, <1>3 DEF HereFacts, FrameAt, RegsOf
<1>5. pc' = [ctx |-> l, at |-> "load"]
  BY <1>2, <1>3 DEF HereFacts
<1>6. FrameAt(v, "load", sp, stack)
  BY <1>2, <1>3, <1>4 DEF FrameAt, Held, HereFacts
<1>7. Intact(v, pc'.at, regs', sp', stack')
  BY <1>2, <1>3, <1>4, <1>5, <1>6 DEF Intact, HereFacts, RegsOf, Places
<1>8. StaysIn(l)
  BY <1>2, <1>3, <1>5 DEF StaysIn, HereFacts
<1>9. CsrFits(v, pc'.at)
  BY <1>2, <1>3, <1>5 DEF CsrFits, Off, HereFacts
<1> QED BY <1>1, <1>2, <1>3, <1>7, <1>8, <1>9, GoesOn DEF HereFacts

LEMMA PlainEntryStep ==
  ASSUME Inv, NEW l \in Interrupts, PlainEntry(l)
  PROVE  Inv' /\ saved' = saved
<1>1. PICK v : v = View(l)
  OBVIOUS
<1>2. /\ kind[l] \in {"plain", "closure"} /\ At(l, "entry")
      /\ Push(Stored(RuntimeSave))
      /\ regs' = [regs EXCEPT !["x1"] = ReturnAddr(l)]
      /\ pc' = [pc EXCEPT !.at = IF kind[l] = "plain" THEN "body" ELSE "outer"]
      /\ UNCHANGED <<kind, mie, mil, mepc, mcause, thresh, ip, hw, turn, saved>>
  BY DEF PlainEntry, Goto, csrVars
<1>3. HereFacts(l, v, "entry")
  BY <1>1, <1>2, Here
<1>4. /\ sp = v.old.sp /\ regs = v.old.regs
      /\ ~mie /\ mepc = v.old.pc /\ mcause = Cause(v)
  BY <1>3 DEF HereFacts, FrameAt, RegsOf, Off
<1>5. pc' = [ctx |-> l, at |-> IF kind[l] = "plain" THEN "body" ELSE "outer"]
  BY <1>2, <1>3 DEF HereFacts
<1>6. /\ sp' \in Nat /\ sp' + 10 = sp
      /\ \A a \in sp .. StackTop - 1 : stack'[a] = stack[a]
      /\ RegsAt(RuntimeSave, sp', stack', regs)
      /\ stack' = [a \in 0 .. StackTop - 1 |-> stack'[a]]
  <2> DEFINE w == Stored(RuntimeSave)
  <2>1. w = [i \in 1 .. 10 |-> regs[RuntimeSave[i]]]
    BY RuntimeSaveFacts DEF Stored
  <2>2. Len(w) = 10
    BY <2>1
  <2>3. Shapes /\ sp \in Nat /\ sp <= StackTop
    BY DEF Inv, TypeOK
  <2>4. Push(w)
    BY <1>2
  <2> HIDE DEF w
  <2>5. Pushes(10, w)
    BY <2>2, <2>3, <2>4, PushWords
  <2>6. RegsAt(RuntimeSave, sp', stack', regs)
    BY <2>1, <2>5, RuntimeSaveFacts DEF RegsAt, Pushes
  <2> QED BY <2>5, <2>6 DEF Pushes
<1>7. RuntimeFrame(v, sp', stack')
  BY <1>4, <1>6, RuntimeSaveFacts DEF RuntimeFrame
<1>8. FrameAt(v, pc'.at, sp', stack')
  BY <1>2, <1>3, <1>5, <1>7 DEF FrameAt, Held, HereFacts
<1>9. regs' = [x \in Registers |-> regs'[x]] /\ regs'["x1"] = ReturnAddr(l)
  BY <1>2, <1>3, RuntimeSaveFacts DEF HereFacts
<1>10. Intact(v, pc'.at, regs', sp', stack')
  BY <1>2, <1>3, <1>5, <1>6, <1>8, <1>9 DEF Intact, HereFacts, RegsOf, Places
<1>11. StaysIn(l)
  <2>1. \A a \in saved[l].sp .. StackTop - 1 : stack'[a] = stack[a]
    BY <1>3, <1>4, <1>6 DEF HereFacts
  <2>2. mie' \in BOOLEAN /\ pc' = [ctx |-> l, at |-> pc'.at]
    BY <1>2, <1>3, <1>5 DEF HereFacts
  <2> QED BY <1>2, <1>6, <2>1, <2>2 DEF StaysIn
<1>12. CsrFits(v, pc'.at)
  BY <1>2, <1>4 DEF CsrFits
<1> QED BY <1>1, <1>2, <1>3, <1>10, <1>11, <1>12, GoesOn DEF HereFacts

LEMMA ClosureEnterStep ==
  ASSUME Inv, NEW l \in Interrupts, ClosureEnter(l)
  PROVE  Inv' /\ saved' = saved
<1>1. PICK v : v = View(l)
  OBVIOUS
<1>2. /\ At(l, "outer")
      /\ Push(<<mcause, mepc, regs["x1"]>>)
      /\ mie' = TRUE
      /\ regs' = [regs EXCEPT !["x1"] = ReturnAddr(l), !["x5"] = mcause,
                              !["x6"] = mepc]
      /\ pc' = [pc EXCEPT !.at = "body"]
      /\ UNCHANGED <<kind, mil, mepc, mcause, thresh, ip, hw, turn, saved>>
  BY DEF ClosureEnter, Goto
<1>3. HereFacts(l, v, "outer")
  BY <1>1, <1>2, Here
<1>4. v.kind = "closure" /\ mepc = v.old.pc /\ mcause = Cause(v)
  BY <1>3 DEF HereFacts, FrameAt, Off
<1>5. pc' = [ctx |-> l, at |-> "body"]
  BY <1>2, <1>3 DEF HereFacts
<1>6. /\ sp' \in Nat /\ sp' + 3 = sp
      /\ \A a \in sp .. StackTop - 1 : stack'[a] = stack[a]
      /\ stack'[sp'] = mcause /\ stack'[sp' + 1] = mepc
      /\ stack' = [a \in 0 .. StackTop - 1 |-> stack'[a]]
  <2> DEFINE w == <<mcause, mepc, regs["x1"]>>
  <2>1. Len(w) = 3 /\ w[1] = mcause /\ w[2] = mepc
    OBVIOUS
  <2>2. Shapes /\ sp \in Nat /\ sp <= StackTop
    BY DEF Inv, TypeOK
  <2>3. Push(w)
    BY <1>2
  <2> HIDE DEF w
  <2>4. Pushes(3, w)
    BY <2>1, <2>2, <2>3, PushWords
  <2> QED BY <2>1, <2>4 DEF Pushes
<1>7. Intact(v, "outer", regs, sp, stack')
  BY <1>3, <1>6, StillIntact DEF HereFacts
<1>8. RuntimeFrame(v, sp' + 3, stack')
  BY <1>3, <1>6, <1>7 DEF Intact, HereFacts, FrameAt
<1>9. FrameAt(v, "body", sp', stack')
  BY <1>4, <1>6, <1>8 DEF FrameAt, Held, ClosureFrame
<1>10. regs' = [x \in Registers |-> regs'[x]] /\ regs'["x1"] = ReturnAddr(l)
  BY <1>2, <1>3, RuntimeSaveFacts DEF HereFacts
<1>11. Intact(v, pc'.at, regs', sp', stack')
  BY <1>3, <1>4, <1>5, <1>6, <1>9, <1>10 DEF Intact, HereFacts, RegsOf, Places
<1>12. StaysIn(l)
  <2>1. \A a \in saved[l].sp .. StackTop - 1 : stack'[a] = stack[a]
    <3>1. sp <= saved[l].sp /\ sp \in Nat /\ saved[l].sp \in Nat
      BY <1>3 DEF HereFacts
    <3> QED BY <1>6, <3>1
  <2>2. pc' = [ctx |-> l, at |-> pc'.at]
    BY <1>5
  <2> QED BY <1>2, <1>6, <2>1, <2>2 DEF StaysIn
<1>13. CsrFits(v, pc'.at)
  BY <1>4, <1>5 DEF CsrFits, Off
<1> QED BY <1>1, <1>2, <1>3, <1>11, <1>12, <1>13, GoesOn DEF HereFacts

LEMMA LoadHandlerStep ==
  ASSUME Inv, NEW l \in Interrupts, LoadHandler(l)
  PROVE  Inv' /\ saved' = saved
<1>1. PICK v : v = View(l)
  OBVIOUS
<1>2. /\ At(l, "load")
      /\ regs' = [regs EXCEPT !["x10"] = HandlerAddr(l)]
      /\ pc' = [pc EXCEPT !.at = "call"]
      /\ UNCHANGED <<kind, mie, mil, mepc, mcause, thresh, ip, sp, stack, hw,
                     turn, saved>>
  BY DEF LoadHandler, Goto, csrVars, stackVars
<1>3. HereFacts(l, v, "load")
  BY <1>1, <1>2, Here
<1>4. v.kind \in {"nested", "pcs"} /\ Held(v, sp, stack)
  BY <1>3 DEF HereFacts, FrameAt
<1>5. pc' = [ctx |-> l, at |-> "call"]
  BY <1>2, <1>3 DEF HereFacts
<1>6. FrameAt(v, "call", sp, stack)
  BY <1>4 DEF FrameAt
<1>7. /\ regs' = [x \in Registers |-> regs'[x]]
      /\ regs'["x10"] = HandlerAddr(l)
      /\ \A x \in Untouched : regs'[x] = v.old.regs[x]
  BY <1>2, <1>3, <1>4, CallerSaveFacts, RuntimeSaveFacts DEF HereFacts, RegsOf, Untouched
<1>8. Intact(v, pc'.at, regs', sp', stack')
  BY <1>2, <1>3, <1>5, <1>6, <1>7 DEF Intact, HereFacts, RegsOf, Places
<1>9. StaysIn(l)
  BY <1>2, <1>3, <1>5 DEF StaysIn, HereFacts
<1>10. CsrFits(v, pc'.at)
  BY <1>4, <1>5 DEF CsrFits, Off
<1> QED BY <1>1, <1>2, <1>3, <1>8, <1>9, <1>10, GoesOn DEF HereFacts

LEMMA CallHandlerStep ==
  ASSUME Inv, NEW l \in Interrupts, CallHandler(l)
  PROVE  Inv' /\ saved' = saved
<1>1. PICK v : v = View(l)
  OBVIOUS
<1>2. /\ At(l, "call")
      /\ pc' = [ctx |-> regs["x10"].ctx, at |-> "body"]
      /\ regs' = [regs EXCEPT !["x1"] = ReturnAddr(l)]
      /\ UNCHANGED <<kind, mie, mil, mepc, mcause, thresh, ip, sp, stack, hw,
                     turn, saved>>
  BY DEF CallHandler, csrVars, stackVars
<1>3. HereFacts(l, v, "call")
  BY <1>1, <1>2, Here
<1>4. v.kind \in {"nested", "pcs"} /\ Held(v, sp, stack)
  BY <1>3 DEF HereFacts, FrameAt
<1>5. pc' = [ctx |-> l, at |-> "body"]
  BY <1>2, <1>3 DEF HereFacts, RegsOf, HandlerAddr
<1>6. FrameAt(v, "body", sp, stack)
  BY <1>4 DEF FrameAt
<1>7. /\ regs' = [x \in Registers |-> regs'[x]]
      /\ RegsOf(v, "body", regs')
  <2>1. /\ regs' = [x \in Registers |-> regs'[x]]
        /\ regs'["x1"] = ReturnAddr(l)
        /\ \A x \in Untouched : regs'[x] = v.old.regs[x]
    BY <1>2, <1>3, <1>4, CallerSaveFacts, RuntimeSaveFacts
       DEF HereFacts, RegsOf, Untouched
  <2>2. v.ctx = l
    BY <1>3 DEF HereFacts
  <2> QED BY <2>1, <2>2 DEF RegsOf
<1>8. Intact(v, pc'.at, regs', sp', stack')
  BY <1>2, <1>3, <1>5, <1>6, <1>7 DEF Intact, HereFacts, Places
<1>9. StaysIn(l)
  BY <1>2, <1>3, <1>5 DEF StaysIn, HereFacts
<1>10. CsrFits(v, pc'.at)
  BY <1>4, <1>5 DEF CsrFits, Off
<1> QED BY <1>1, <1>2, <1>3, <1>8, <1>9, <1>10, GoesOn DEF HereFacts

LEMMA BodyEnterStep ==
  ASSUME Inv, NEW l \in Interrupts, BodyEnter(l)
  PROVE  Inv' /\ saved' = saved
<1>1. PICK v : v = View(l)
  OBVIOUS
<1>2. /\ At(l, "body")
      /\ Push(<<regs["x1"]>>)
      /\ regs' = [r \in Registers |-> IF r \in Volatile THEN Live(l) ELSE regs[r]]
      /\ pc' = [pc EXCEPT !.at = "work"]
      /\ UNCHANGED <<kind, mie, mil, mepc, mcause, thresh, ip, hw, turn, saved>>
  BY DEF BodyEnter, Goto, csrVars
<1>3. HereFacts(l, v, "body")
  BY <1>1, <1>2, Here
<1>4. regs["x1"] = ReturnAddr(l)
  BY <1>3 DEF HereFacts, RegsOf
<1>5. pc' = [ctx |-> l, at |-> "work"]
  BY <1>2, <1>3 DEF HereFacts
<1>6. /\ sp' \in Nat /\ sp' + 1 = sp
      /\ \A a \in sp .. StackTop - 1 : stack'[a] = stack[a]
      /\ stack'[sp'] = ReturnAddr(l)
      /\ stack' = [a \in 0 .. StackTop - 1 |-> stack'[a]]
  <2> DEFINE w == <<regs["x1"]>>
  <2>1. Len(w) = 1 /\ w[1] = ReturnAddr(l)
    BY <1>4
  <2>2. Shapes /\ sp \in Nat /\ sp <= StackTop
    BY DEF Inv, TypeOK
  <2>3. Push(w)
    BY <1>2
  <2> HIDE DEF w
  <2>4. Pushes(1, w)
    BY <2>1, <2>2, <2>3, PushWords
  <2> QED BY <2>1, <2>4 DEF Pushes
<1>7. Intact(v, "body", regs, sp, stack')
  BY <1>3, <1>6, StillIntact DEF HereFacts
<1>8. Held(v, sp' + 1, stack')
  BY <1>3, <1>6, <1>7 DEF Intact, HereFacts, FrameAt
<1>9. FrameAt(v, "work", sp', stack')
  BY <1>3, <1>6, <1>8 DEF FrameAt, HereFacts
<1>10. regs' = [x \in Registers |-> regs'[x]]
  BY <1>2
<1>11. \A x \in Volatile : regs'[x] = v.live
  BY <1>2, <1>3, TrapAssumption DEF HereFacts, TrapAssumption
<1>12. v.kind \in {"nested", "pcs"} =>
         \A x \in Untouched : regs'[x] = v.old.regs[x]
  BY <1>2, <1>3 DEF HereFacts, RegsOf, Untouched
<1>13. RegsOf(v, "work", regs')
  BY <1>11, <1>12 DEF RegsOf
<1>14. Intact(v, pc'.at, regs', sp', stack')
  BY <1>3, <1>5, <1>6, <1>9, <1>10, <1>13 DEF Intact, HereFacts, Places
<1>15. StaysIn(l)
  <2>1. \A a \in saved[l].sp .. StackTop - 1 : stack'[a] = stack[a]
    <3>1. sp <= saved[l].sp /\ sp \in Nat /\ saved[l].sp \in Nat
      BY <1>3 DEF HereFacts
    <3> QED BY <1>6, <3>1
  <2>2. mie' \in BOOLEAN /\ pc' = [ctx |-> l, at |-> pc'.at]
    BY <1>2, <1>3, <1>5 DEF HereFacts
  <2> QED BY <1>2, <1>6, <2>1, <2>2 DEF StaysIn
<1>16. CsrFits(v, pc'.at)
  BY <1>2, <1>3, <1>5 DEF CsrFits, Off, HereFacts
<1> QED BY <1>1, <1>2, <1>3, <1>14, <1>15, <1>16, GoesOn DEF HereFacts

LEMMA BodyReturnStep ==
  ASSUME Inv, NEW l \in Interrupts, BodyReturn(l)
  PROVE  Inv' /\ saved' = saved
<1>1. PICK v : v = View(l)
  OBVIOUS
<1> DEFINE p == IF kind[l] = "closure" THEN "inner" ELSE "exit"
<1>2. /\ At(l, "work")
      /\ pc' = [ctx |-> stack[sp].ctx, at |-> p]
      /\ regs' = [regs EXCEPT !["x1"] = stack[sp]]
      /\ Pop(1)
      /\ UNCHANGED <<kind, mie, mil, mepc, mcause, thresh, ip, hw, turn, saved>>
  BY DEF BodyReturn, csrVars
<1>3. HereFacts(l, v, "work")
  BY <1>1, <1>2, Here
<1>4. Held(v, sp + 1, stack) /\ stack[sp] = ReturnAddr(l)
  BY <1>3 DEF HereFacts, FrameAt
<1>5. pc' = [ctx |-> l, at |-> p]
  BY <1>2, <1>4 DEF ReturnAddr
<1>6. /\ sp' = sp + 1
      /\ \A a \in sp + 1 .. StackTop - 1 : stack'[a] = stack[a]
      /\ stack' = [a \in 0 .. StackTop - 1 |-> stack'[a]]
  <2>1. Shapes /\ sp \in Nat
    BY DEF Inv, TypeOK
  <2> QED BY <1>2, <2>1, PopWords DEF Pops
<1>7. FrameAt(v, p, sp', stack)
  BY <1>3, <1>4, <1>6 DEF FrameAt, Held, HereFacts
<1>8. regs' = [x \in Registers |-> regs'[x]]
      /\ (v.kind \in {"nested", "pcs"} =>
            \A x \in Untouched : regs'[x] = v.old.regs[x])
  BY <1>2, <1>3, CallerSaveFacts DEF HereFacts, RegsOf, Untouched
<1>9. Intact(v, p, regs', sp', stack)
  <2>1. RegsOf(v, p, regs')
    BY <1>8 DEF RegsOf
  <2> QED BY <1>3, <1>6, <1>7, <1>8, <2>1 DEF Intact, HereFacts, Places
<1>10. Intact(v, pc'.at, regs', sp', stack')
  <2>1. pc'.at = p /\ \A a \in sp' .. StackTop - 1 : stack'[a] = stack[a]
    BY <1>5, <1>6
  <2> QED BY <1>9, <2>1, StillIntact
<1>11. StaysIn(l)
  <2>1. \A a \in saved[l].sp .. StackTop - 1 : stack'[a] = stack[a]
    <3>1. sp' <= saved[l].sp /\ sp' \in Nat /\ saved[l].sp \in Nat
      BY <1>3, <1>9, GoesDown DEF HereFacts, Intact
    <3> QED BY <1>6, <3>1
  <2>2. mie' \in BOOLEAN /\ pc' = [ctx |-> l, at |-> pc'.at]
    BY <1>2, <1>3, <1>5 DEF HereFacts
  <2> QED BY <1>2, <1>6, <2>1, <2>2 DEF StaysIn
<1>12. CsrFits(v, pc'.at)
  BY <1>2, <1>3, <1>5 DEF CsrFits, Off, HereFacts
<1> QED BY <1>1, <1>2, <1>3, <1>10, <1>11, <1>12, GoesOn DEF HereFacts

LEMMA ClosureLeaveStep ==
  ASSUME Inv, NEW l \in Interrupts, ClosureLeave(l)
  PROVE  Inv' /\ saved' = saved
<1>1. PICK v : v = View(l)
  OBVIOUS
<1>2. /\ At(l, "inner")
      /\ mie' = FALSE
      /\ mcause' = stack[sp]
      /\ mepc' = stack[sp + 1]
      /\ regs' = [regs EXCEPT !["x1"] = stack[sp + 2]]
      /\ Pop(3)
      /\ pc' = [pc EXCEPT !.at = "exit"]
      /\ UNCHANGED <<kind, mil, thresh, ip, hw, turn, saved>>
  BY DEF ClosureLeave, Goto
<1>3. HereFacts(l, v, "inner")
  BY <1>1, <1>2, Here
<1>4. v.kind = "closure" /\ ClosureFrame(v, sp, stack)
  BY <1>3 DEF HereFacts, FrameAt
<1>5. pc' = [ctx |-> l, at |-> "exit"]
  BY <1>2, <1>3 DEF HereFacts
<1>6. /\ sp' = sp + 3
      /\ \A a \in sp + 3 .. StackTop - 1 : stack'[a] = stack[a]
      /\ stack' = [a \in 0 .. StackTop - 1 |-> stack'[a]]
  <2>1. Shapes /\ sp \in Nat
    BY DEF Inv, TypeOK
  <2> QED BY <1>2, <2>1, PopWords DEF Pops
<1>7. FrameAt(v, "exit", sp', stack)
  BY <1>4, <1>6 DEF FrameAt, ClosureFrame
<1>8. regs' = [x \in Registers |-> regs'[x]]
  BY <1>2, <1>3 DEF HereFacts
<1>9. Intact(v, "exit", regs', sp', stack)
  BY <1>3, <1>4, <1>6, <1>7, <1>8 DEF Intact, HereFacts, RegsOf, Places
<1>10. Intact(v, pc'.at, regs', sp', stack')
  <2>1. pc'.at = "exit" /\ \A a \in sp' .. StackTop - 1 : stack'[a] = stack[a]
    BY <1>5, <1>6
  <2> QED BY <1>9, <2>1, StillIntact
<1>11. StaysIn(l)
  <2>1. \A a \in saved[l].sp .. StackTop - 1 : stack'[a] = stack[a]
    <3>1. sp' <= saved[l].sp /\ sp' \in Nat /\ saved[l].sp \in Nat
      BY <1>3, <1>9, GoesDown DEF HereFacts, Intact
    <3> QED BY <1>6, <3>1
  <2>2. pc' = [ctx |-> l, at |-> pc'.at]
    BY <1>5
  <2> QED BY <1>2, <1>6, <2>1, <2>2 DEF StaysIn
<1>12. CsrFits(v, pc'.at)
  BY <1>2, <1>4 DEF CsrFits, ClosureFrame
<1> QED BY <1>1, <1>2, <1>3, <1>10, <1>11, <1>12, GoesOn DEF HereFacts

-----------------------------------------------------------------------------
(* mret. *)

(* mret restores the program counter, level and enable of a frame. *)
LEMMA MretOf ==
  ASSUME NEW l \in Interrupts, NEW v, v.ctx = l, v.old = saved[l], pc.ctx = l,
         Mret(v.old.pc, Cause(v))
  PROVE  /\ pc' = saved[l].pc /\ mil' = saved[l].mil /\ mie' = TRUE
         /\ saved' = [saved EXCEPT ![l] = NotActive]
  BY DEF Mret, Cause

LEMMA NestedExitReturns ==
  ASSUME Inv, NEW l \in Interrupts, NestedExit(l)
  PROVE  pc.ctx = l /\ Resumes(l)
<1>1. PICK v : v = View(l)
  OBVIOUS
<1>2. /\ kind[l] = "nested" /\ At(l, "exit")
      /\ Mret(stack[sp + EpcPos], stack[sp + CausePos])
      /\ regs' = Loaded(CallerSave)
      /\ Pop(FrameWords)
      /\ UNCHANGED <<kind, thresh, ip, hw, turn>>
  BY DEF NestedExit
<1>3. HereFacts(l, v, "exit")
  BY <1>1, <1>2, Here
<1>4. NestedFrame(v, sp, stack)
  BY <1>2, <1>3 DEF HereFacts, FrameAt, Held
<1>5. /\ pc' = saved[l].pc /\ mil' = saved[l].mil /\ mie' = TRUE
      /\ saved' = [saved EXCEPT ![l] = NotActive]
  BY <1>2, <1>3, <1>4, MretOf DEF NestedFrame, HereFacts
<1>6. /\ sp' = saved[l].sp
      /\ \A a \in saved[l].sp .. StackTop - 1 : stack'[a] = stack[a]
      /\ stack' = [a \in 0 .. StackTop - 1 |-> stack'[a]]
  <2>1. Shapes /\ sp \in Nat /\ FrameWords \in Nat
    BY CallerSaveFacts DEF Inv, TypeOK
  <2>2. Pops(FrameWords) /\ sp + FrameWords = saved[l].sp
    BY <1>2, <1>3, <1>4, <2>1, PopWords DEF NestedFrame, HereFacts
  <2> QED BY <2>2 DEF Pops
<1>7. /\ regs' = [x \in Registers |-> regs'[x]]
      /\ \A x \in Registers \ Lost(l) : regs'[x] = saved[l].regs[x]
  <2>1. \A x \in Registers \ Lost(l) : Loaded(CallerSave)[x] = v.old.regs[x]
    <3> TAKE x \in Registers \ Lost(l)
    <3>1. Loaded(CallerSave)[x] =
            IF x \in Range(CallerSave) THEN v.old.regs[x] ELSE regs[x]
      BY <1>4, SavesAreSeqs, LoadsBack DEF NestedFrame
    <3>2. x \in Range(CallerSave) \/ x \in Untouched
      BY <1>2 DEF Lost, Untouched
    <3> QED BY <1>2, <1>3, <3>1, <3>2 DEF HereFacts, RegsOf
  <2>2. Loaded(CallerSave) = [x \in Registers |-> Loaded(CallerSave)[x]]
    BY DEF Loaded
  <2> QED BY <1>2, <1>3, <2>1, <2>2 DEF HereFacts
<1>8. hw' = [k \in Interrupts |-> hw'[k]]
  BY <1>2 DEF Inv, Shapes
<1> QED BY <1>2, <1>3, <1>5, <1>6, <1>7, <1>8 DEF Resumes, HereFacts

LEMMA PcsExitReturns ==
  ASSUME Inv, NEW l \in Interrupts, PcsExit(l)
  PROVE  pc.ctx = l /\ Resumes(l)
<1>1. PICK v : v = View(l)
  OBVIOUS
<1>2. /\ kind[l] = "pcs" /\ At(l, "exit")
      /\ Mret(hw[l].mepc, hw[l].mcause)
      /\ regs' = [r \in Registers |->
                    IF r \in Range(CallerSave) THEN hw[l].regs[r] ELSE regs[r]]
      /\ hw' = [hw EXCEPT ![l] = NoContext]
      /\ UNCHANGED <<kind, thresh, ip, sp, stack, turn>>
  BY DEF PcsExit, stackVars
<1>3. HereFacts(l, v, "exit")
  BY <1>1, <1>2, Here
<1>4. PcsFrame(v, sp)
  BY <1>2, <1>3 DEF HereFacts, FrameAt, Held
<1>5. hw[l].mepc = v.old.pc /\ hw[l].mcause = Cause(v) /\ hw[l].regs = v.old.regs
  BY <1>3, <1>4 DEF PcsFrame, HereFacts
<1>6. /\ pc' = saved[l].pc /\ mil' = saved[l].mil /\ mie' = TRUE
      /\ saved' = [saved EXCEPT ![l] = NotActive]
  BY <1>2, <1>3, <1>5, MretOf DEF HereFacts
<1>7. /\ sp' = saved[l].sp
      /\ \A a \in saved[l].sp .. StackTop - 1 : stack'[a] = stack[a]
      /\ stack' = [a \in 0 .. StackTop - 1 |-> stack'[a]]
  BY <1>2, <1>3, <1>4 DEF PcsFrame, HereFacts
<1>8. /\ regs' = [x \in Registers |-> regs'[x]]
      /\ \A x \in Registers \ Lost(l) : regs'[x] = saved[l].regs[x]
  <2>1. \A x \in Untouched : regs[x] = v.old.regs[x]
    BY <1>2, <1>3 DEF HereFacts, RegsOf
  <2>2. \A x \in Registers \ Lost(l) : x \in Range(CallerSave) \/ x \in Untouched
    BY <1>2 DEF Lost, Untouched
  <2> QED BY <1>2, <1>3, <1>5, <2>1, <2>2 DEF HereFacts
<1>9. hw' = [k \in Interrupts |-> hw'[k]] /\ \A k \in Interrupts \ {l} : hw'[k] = hw[k]
  BY <1>2 DEF Inv, Shapes
<1> QED BY <1>2, <1>3, <1>6, <1>7, <1>8, <1>9 DEF Resumes, HereFacts

LEMMA PlainExitReturns ==
  ASSUME Inv, NEW l \in Interrupts, PlainExit(l)
  PROVE  pc.ctx = l /\ Resumes(l)
<1>1. PICK v : v = View(l)
  OBVIOUS
<1>2. /\ kind[l] \in {"plain", "closure"} /\ At(l, "exit")
      /\ Mret(mepc, mcause)
      /\ regs' = Loaded(RuntimeSave)
      /\ Pop(Len(RuntimeSave))
      /\ UNCHANGED <<kind, thresh, ip, hw, turn>>
  BY DEF PlainExit
<1>3. HereFacts(l, v, "exit")
  BY <1>1, <1>2, Here
<1>4. /\ RuntimeFrame(v, sp, stack)
      /\ mepc = v.old.pc /\ mcause = Cause(v)
  BY <1>2, <1>3 DEF HereFacts, FrameAt, Held, Off
<1>5. /\ pc' = saved[l].pc /\ mil' = saved[l].mil /\ mie' = TRUE
      /\ saved' = [saved EXCEPT ![l] = NotActive]
  BY <1>2, <1>3, <1>4, MretOf DEF HereFacts
<1>6. /\ sp' = saved[l].sp
      /\ \A a \in saved[l].sp .. StackTop - 1 : stack'[a] = stack[a]
      /\ stack' = [a \in 0 .. StackTop - 1 |-> stack'[a]]
  <2>1. Shapes /\ sp \in Nat /\ Len(RuntimeSave) \in Nat
    BY RuntimeSaveFacts DEF Inv, TypeOK
  <2>2. Pops(Len(RuntimeSave)) /\ sp + Len(RuntimeSave) = saved[l].sp
    BY <1>2, <1>3, <1>4, <2>1, PopWords DEF RuntimeFrame, HereFacts
  <2> QED BY <2>2 DEF Pops
<1>7. /\ regs' = [x \in Registers |-> regs'[x]]
      /\ \A x \in Registers : regs'[x] = saved[l].regs[x]
  <2>1. \A x \in Registers : Loaded(RuntimeSave)[x] = v.old.regs[x]
    <3> TAKE x \in Registers
    <3>1. Loaded(RuntimeSave)[x] =
            IF x \in Range(RuntimeSave) THEN v.old.regs[x] ELSE regs[x]
      BY <1>4, SavesAreSeqs, LoadsBack DEF RuntimeFrame
    <3> QED BY <3>1, RuntimeSaveFacts
  <2>2. Loaded(RuntimeSave) = [x \in Registers |-> Loaded(RuntimeSave)[x]]
    BY DEF Loaded
  <2> QED BY <1>2, <1>3, <2>1, <2>2 DEF HereFacts
<1>8. hw' = [k \in Interrupts |-> hw'[k]]
  BY <1>2 DEF Inv, Shapes
<1> QED BY <1>2, <1>3, <1>5, <1>6, <1>7, <1>8 DEF Resumes, HereFacts

-----------------------------------------------------------------------------
(* The specification. *)

LEMMA Initially == ASSUME Init PROVE Inv
<1>1. /\ kind \in Programs /\ pc = [ctx |-> 0, at |-> "run"] /\ pc.ctx = 0
      /\ mie = FALSE /\ mil = 0 /\ thresh = 0 /\ ip = {}
      /\ turn = [c \in Contexts |-> 0]
      /\ regs = [r \in Registers |-> Live(0)]
      /\ sp = StackTop
      /\ stack = [a \in 0 .. StackTop - 1 |-> Dead]
      /\ hw = [l \in Interrupts |-> NoContext]
      /\ saved = [l \in Interrupts |-> NotActive]
  BY DEF Init
<1>2. kind \in [Interrupts -> Kinds] /\ StackTop \in Nat /\ 0 \in Contexts
  BY <1>1, TrapAssumption, ContextOrder DEF TrapAssumption
<1>3. TypeOK
  <2>1. DOMAIN regs = Registers /\ DOMAIN stack = 0 .. StackTop - 1
    BY <1>1
  <2>2. sp \in 0 .. StackTop /\ turn \in [Contexts -> 0 .. 1]
    BY <1>1, <1>2
  <2>3. mil = pc.ctx /\ thresh \in {0, MaxLevel} /\ ip \subseteq Interrupts
    BY <1>1
  <2> QED BY <1>1, <2>1, <2>2, <2>3 DEF TypeOK
<1>4. Shapes
  BY <1>1, <1>2 DEF Shapes
<1>5. Chain /\ Preempted /\ CsrKept
  BY <1>1 DEF Chain, Preempted, CsrKept, Active
<1>6. Running
  BY <1>1, <1>2 DEF Running, Intact, View
<1> QED BY <1>3, <1>4, <1>5, <1>6 DEF Inv

(* What mret of context l has restored. *)
Restores(l) ==
  saved[l] # NotActive /\ saved'[l] = NotActive =>
    /\ pc' = saved[l].pc
    /\ mil' = saved[l].mil
    /\ sp' = saved[l].sp
    /\ \A r \in Registers \ Lost(l) : regs'[r] = saved[l].regs[r]
    /\ mie'

LEMMA NextStep ==
  ASSUME Inv, Next
  PROVE  Inv' /\ \A l \in Interrupts : Restores(l)
<1>1. ASSUME saved' = saved PROVE \A l \in Interrupts : Restores(l)
  BY <1>1 DEF Restores
<1>2. ASSUME NEW l \in Interrupts, pc.ctx = l, Resumes(l)
      PROVE  Inv' /\ \A k \in Interrupts : Restores(k)
  <2>1. \A k \in Interrupts \ {l} : saved'[k] = saved[k]
    BY <1>2 DEF Resumes, Inv, Shapes
  <2>2. Restores(l)
    BY <1>2 DEF Restores, Resumes
  <2> QED BY <1>2, <2>1, <2>2, Returned DEF Restores
<1>3. CASE Main
  BY <1>1, <1>3, MainStep
<1>4. ASSUME NEW l \in Interrupts, Raise(l)
      PROVE  Inv' /\ \A k \in Interrupts : Restores(k)
  <2>1. saved' = saved
    BY <1>4 DEF Raise
  <2> QED BY <1>1, <1>4, <2>1, Raised
<1>5. ASSUME NEW l \in Interrupts, TakeIrq(l)
      PROVE  Inv' /\ \A k \in Interrupts : Restores(k)
  <2>1. l > pc.ctx /\ pc.ctx \in Nat /\ l \in Nat
    BY <1>5, ContextOrder DEF TakeIrq, Inv, TypeOK, Shapes
  <2>2. ~Active(l)
    <3>1. Active(l) => l <= pc.ctx
      BY DEF Inv, Chain, Link
    <3> QED BY <2>1, <3>1
  <2>3. \A k \in Interrupts \ {l} : saved'[k] = saved[k]
    BY <1>5 DEF TakeIrq, Inv, Shapes
  <2> QED BY <1>5, <2>2, <2>3, Taken DEF Restores, Active
<1>6. ASSUME NEW l \in Interrupts, Handler(l)
      PROVE  Inv' /\ \A k \in Interrupts : Restores(k)
  <2>1. CASE Enter(l)
    BY <1>1, <2>1, NestedEntryStep, PcsEntryStep, PlainEntryStep, ClosureEnterStep
       DEF Enter
  <2>2. CASE LoadHandler(l) \/ CallHandler(l)
    BY <1>1, <2>2, LoadHandlerStep, CallHandlerStep
  <2>3. CASE BodyEnter(l) \/ BodyReturn(l)
    BY <1>1, <2>3, BodyEnterStep, BodyReturnStep
  <2>4. CASE Leave(l)
    <3>1. CASE NestedExit(l) \/ PcsExit(l) \/ PlainExit(l)
      BY <1>2, <3>1, NestedExitReturns, PcsExitReturns, PlainExitReturns
    <3>2. CASE ClosureLeave(l)
      BY <1>1, <3>2, ClosureLeaveStep
    <3> QED BY <2>4, <3>1, <3>2 DEF Leave
  <2> QED BY <1>6, <2>1, <2>2, <2>3, <2>4 DEF Handler
<1> QED BY <1>3, <1>4, <1>5, <1>6 DEF Next

LEMMA Stays == ASSUME Inv, UNCHANGED vars PROVE Inv'
<1>1. /\ ip' \subseteq Interrupts
      /\ UNCHANGED <<kind, pc, csrVars, regs, stackVars, hw, turn, saved>>
  BY DEF vars, csrVars, stackVars, Inv, TypeOK
<1> QED BY <1>1, OnlyPending

LEMMA Invariance == Spec => []Inv
<1>1. Init => Inv
  BY Initially
<1>2. Inv /\ [Next]_vars => Inv'
  BY NextStep, Stays
<1> QED BY <1>1, <1>2, PTL DEF Spec

(* Level, stack pointer and place stay within their ranges: the running    *)
(* level is the level of the code that runs, at any nesting.               *)
THEOREM TypeCorrect == Spec => []TypeOK
<1>1. Inv => TypeOK
  BY DEF Inv
<1> QED BY <1>1, Invariance, PTL

(* A handler's end resumes exactly what it preempted: place, level, stack  *)
(* pointer and enabled interrupts, and every register but those that its   *)
(* trampoline does not put away and the ABI lets it overwrite, through     *)
(* every trampoline and whatever preempts it meanwhile.                    *)
THEOREM ContextRestored == Spec => ReturnRestoresContext
<1>1. Inv /\ [Next]_vars => [\A l \in Interrupts : Restores(l)]_vars
  BY NextStep
<1> QED BY <1>1, Invariance, PTL DEF Spec, ReturnRestoresContext, Restores

(* Main and handlers find their own values in the registers, but for those *)
(* that a handler above them may lose.                                     *)
THEOREM RegistersOwned == Spec => []OwnRegisters
<1>1. Inv => OwnRegisters
  <2> SUFFICES ASSUME Inv PROVE OwnRegisters
    OBVIOUS
  <2>1. CASE pc.ctx = 0
    <3>1. View(pc.ctx).ctx = 0 /\ View(pc.ctx).live = Live(0)
          /\ View(pc.ctx).lost = LostAbove(0)
      BY <2>1 DEF View
    <3> QED BY <3>1 DEF Inv, Running, Intact, OwnRegisters
  <2>2. CASE pc.ctx # 0
    <3>1. pc.ctx \in Interrupts
      BY <2>2, ContextOrder DEF Inv, Shapes
    <3>2. View(pc.ctx).ctx # 0 /\ View(pc.ctx).live = Live(pc.ctx)
          /\ View(pc.ctx).lost = LostAbove(pc.ctx)
      BY <3>1, ViewOf
    <3> QED BY <3>2 DEF Inv, Running, Intact, RegsOf, OwnRegisters, Places
  <2> QED BY <2>1, <2>2
<1> QED BY <1>1, Invariance, PTL

(* A trampoline that was preempted after it loaded its handler's address   *)
(* still jumps to its own handler.                                         *)
THEOREM OwnHandlerCalled == Spec => []CallsOwnHandler
<1>1. Inv => CallsOwnHandler
  <2> SUFFICES ASSUME Inv, pc.at = "call" PROVE regs["x10"] = HandlerAddr(pc.ctx)
    BY DEF CallsOwnHandler
  <2>1. CASE pc.ctx = 0
    <3>1. View(pc.ctx).ctx = 0
      BY <2>1 DEF View
    <3> QED BY <3>1 DEF Inv, Running, Intact
  <2>2. CASE pc.ctx # 0
    <3>1. pc.ctx \in Interrupts
      BY <2>2, ContextOrder DEF Inv, Shapes
    <3>2. View(pc.ctx).ctx = pc.ctx
      BY <3>1, ViewOf
    <3> QED BY <2>2, <3>2 DEF Inv, Running, Intact, RegsOf
  <2> QED BY <2>1, <2>2
<1> QED BY <1>1, Invariance, PTL

-----------------------------------------------------------------------------
(* The depth of the stack.  Sums over the levels are reasoned about with a *)
(* least counterexample: a set of numbers that is not empty has a least.   *)

LEMMA LeastElement ==
  ASSUME NEW T, T \subseteq Nat, T # {}
  PROVE  \E x \in T : \A y \in T : x <= y
<1>1. IsWellFoundedOn(OpToRel(<, Nat), Nat)
  BY NatLessThanWellFounded
<1>2. PICK x \in T : \A y \in T : ~ (<<y, x>> \in OpToRel(<, Nat))
  BY <1>1, WFMin
<1>3. ASSUME NEW y \in T PROVE x <= y
  <2>1. x \in Nat /\ y \in Nat
    OBVIOUS
  <2>2. <<y, x>> \notin OpToRel(<, Nat)
    BY <1>2
  <2>3. ~(y < x)
    BY <2>1, <2>2 DEF OpToRel
  <2> QED BY <2>1, <2>3
<1> QED BY <1>3

LEMMA FrameBoundNat ==
  ASSUME Shapes, NEW l \in Interrupts
  PROVE  FrameBound(l) \in Nat
<1>1. kind[l] \in Kinds
  BY DEF Shapes
<1> QED BY <1>1, CallerSaveFacts, RuntimeSaveFacts DEF FrameBound, Kinds

(* g satisfies the definition of DepthTo on the levels up to n. *)
DepthUpTo(n, g) ==
  g = [l \in 0 .. n |-> IF l = 0 THEN 0 ELSE g[l - 1] + FrameBound(l)]

LEMMA DepthExists ==
  ASSUME Shapes
  PROVE  \E g : DepthUpTo(MaxLevel, g)
<1> DEFINE T == {n \in Contexts : ~ \E g : DepthUpTo(n, g)}
<1>1. MaxLevel \in Contexts /\ T \subseteq Nat
  BY ContextOrder DEF Contexts
<1>2. SUFFICES ASSUME T # {} PROVE FALSE
  BY <1>1
<1>3. PICK n \in T : \A y \in T : n <= y
  BY <1>1, <1>2, LeastElement
<1>4. n \in Nat /\ n \in Contexts
  BY <1>1, <1>3
<1>5. CASE n = 0
  <2> DEFINE g == [l \in 0 .. 0 |-> 0]
  <2>1. g = [l \in 0 .. 0 |-> IF l = 0 THEN 0 ELSE g[l - 1] + FrameBound(l)]
    OBVIOUS
  <2>2. DepthUpTo(n, g)
    BY <1>5, <2>1 DEF DepthUpTo
  <2> QED BY <1>3, <2>2
<1>6. CASE n # 0
  <2>1. n - 1 \in Contexts /\ n - 1 \in Nat /\ ~(n <= n - 1)
    BY <1>4, <1>6, ContextOrder DEF Contexts
  <2>2. PICK f : DepthUpTo(n - 1, f)
    BY <1>3, <2>1
  <2> DEFINE g == [l \in 0 .. n |-> IF l = n THEN f[n - 1] + FrameBound(n) ELSE f[l]]
  <2>3. ASSUME NEW l \in 0 .. n
        PROVE  g[l] = IF l = 0 THEN 0 ELSE g[l - 1] + FrameBound(l)
    <3>1. CASE l = n
      <4>1. l - 1 \in 0 .. n /\ l - 1 # n /\ l # 0
        BY <1>4, <1>6, <3>1
      <4>2. g[l - 1] = f[n - 1]
        BY <3>1, <4>1
      <4> QED BY <3>1, <4>1, <4>2
    <3>2. CASE l # n
      <4>1. l \in 0 .. n - 1
        BY <1>4, <3>2
      <4>2. f[l] = IF l = 0 THEN 0 ELSE f[l - 1] + FrameBound(l)
        BY <2>2, <4>1 DEF DepthUpTo
      <4>3. l # 0 => l - 1 \in 0 .. n /\ l - 1 # n
        BY <1>4, <3>2, <4>1
      <4> QED BY <3>2, <4>2, <4>3
    <3> QED BY <3>1, <3>2
  <2>4. DepthUpTo(n, g)
    <3>1. g = [l \in 0 .. n |-> g[l]]
      OBVIOUS
    <3> HIDE DEF g
    <3> QED BY <2>3, <3>1 DEF DepthUpTo
  <2> QED BY <1>3, <2>4
<1> QED BY <1>5, <1>6

(* DepthTo satisfies its definition. *)
LEMMA DepthUnfolds ==
  ASSUME Shapes
  PROVE  /\ DepthTo[0] = 0
         /\ \A l \in Interrupts : DepthTo[l] = DepthTo[l - 1] + FrameBound(l)
<1>1. DepthTo = CHOOSE g : DepthUpTo(MaxLevel, g)
  BY DEF DepthTo, DepthUpTo, Contexts
<1>2. DepthUpTo(MaxLevel, DepthTo)
  BY <1>1, DepthExists
<1>3. /\ \A l \in Contexts : DepthTo[l] =
           IF l = 0 THEN 0 ELSE DepthTo[l - 1] + FrameBound(l)
  BY <1>2 DEF DepthUpTo, Contexts
<1> QED BY <1>3, ContextOrder

(* More levels, more depth. *)
LEMMA DepthGrows ==
  ASSUME Shapes
  PROVE  \A l \in Contexts : /\ DepthTo[l] \in Nat
                             /\ \A k \in 0 .. l : DepthTo[k] <= DepthTo[l]
<1> DEFINE Grows(l) == /\ DepthTo[l] \in Nat
                       /\ \A k \in 0 .. l : DepthTo[k] <= DepthTo[l]
           T == {n \in Contexts : ~Grows(n)}
<1>1. T \subseteq Nat
  BY ContextOrder
<1>2. SUFFICES ASSUME T # {} PROVE FALSE
  OBVIOUS
<1>3. PICK n \in T : \A y \in T : n <= y
  BY <1>1, <1>2, LeastElement
<1>4. n \in Nat /\ n \in Contexts /\ ~Grows(n)
  BY <1>1, <1>3
<1>5. CASE n = 0
  BY <1>4, <1>5, DepthUnfolds
<1>6. CASE n # 0
  <2>1. n - 1 \in Contexts /\ n - 1 \in Nat /\ ~(n <= n - 1)
    BY <1>4, <1>6, ContextOrder DEF Contexts
  <2>2. Grows(n - 1)
    BY <1>3, <2>1
  <2>3. n \in Interrupts
    BY <1>4, <1>6, ContextOrder
  <2>4. DepthTo[n] = DepthTo[n - 1] + FrameBound(n) /\ FrameBound(n) \in Nat
    BY <2>3, DepthUnfolds, FrameBoundNat
  <2>5. DepthTo[n] \in Nat /\ DepthTo[n - 1] <= DepthTo[n]
    BY <2>2, <2>4
  <2>6. ASSUME NEW k \in 0 .. n PROVE DepthTo[k] <= DepthTo[n]
    <3>1. CASE k = n
      BY <2>5, <3>1
    <3>2. CASE k # n
      <4>1. k \in 0 .. n - 1 /\ k \in 0 .. n /\ 0 <= n - 1
        BY <1>4, <2>1, <3>2
      <4>2. n - 1 \in 0 .. n - 1 /\ 0 \in 0 .. n - 1
        BY <2>1
      <4>3. DepthTo[k] <= DepthTo[n - 1]
        BY <2>2, <4>1
      <4>4. k \in Contexts
        BY <1>4, <4>1, ContextOrder DEF Contexts
      <4>5. DepthTo[k] \in Nat
        <5>1. k \notin T
          BY <1>3, <1>4, <4>1
        <5> QED BY <4>4, <5>1
      <4> QED BY <2>2, <2>5, <4>3, <4>5
    <3> QED BY <3>1, <3>2
  <2> QED BY <1>4, <2>5, <2>6
<1> QED BY <1>5, <1>6

(* What a context holds of the stack, at most. *)
LEMMA FrameFits ==
  ASSUME Inv, NEW l \in Interrupts, NEW p, NEW r, NEW s,
         Intact(View(l), p, r, s, stack)
  PROVE  saved[l].sp - s <= FrameBound(l)
<1>1. PICK v : v = View(l)
  OBVIOUS
<1>2. v.ctx # 0 /\ v.old = saved[l] /\ v.kind = kind[l]
  BY <1>1, ViewOf
<1>3. s \in Nat /\ v.old.sp \in Nat /\ FrameAt(v, p, s, stack)
  BY <1>1, <1>2 DEF Intact
<1>4. v.kind \in Kinds
  BY <1>2 DEF Inv, Shapes
<1>5. /\ v.kind = "nested" => FrameBound(l) = 10
      /\ v.kind = "pcs" => FrameBound(l) = 1
      /\ v.kind = "plain" => FrameBound(l) = 11
      /\ v.kind = "closure" => FrameBound(l) = 14
  BY <1>2, CallerSaveFacts, RuntimeSaveFacts DEF FrameBound
<1>6. v.old.sp - s <= FrameBound(l)
  BY <1>3, <1>4, <1>5, CallerSaveFacts, RuntimeSaveFacts
     DEF FrameAt, Held, NestedFrame, PcsFrame, RuntimeFrame, ClosureFrame, Kinds
<1> QED BY <1>2, <1>6

(* Context c at stack pointer s is within the depth of its level, if what  *)
(* it preempted is.                                                        *)
LEMMA DepthFits ==
  ASSUME Inv, NEW c \in Contexts, NEW p, NEW r, NEW s,
         Intact(View(c), p, r, s, stack),
         c # 0 => StackTop - saved[c].sp <= DepthTo[saved[c].pc.ctx]
  PROVE  StackTop - s <= DepthTo[c]
<1>1. Shapes /\ s \in Nat /\ StackTop \in Nat
  BY TrapAssumption DEF Inv, Intact, TrapAssumption
<1>2. CASE c = 0
  <2>1. View(c).ctx = 0
    BY <1>2 DEF View
  <2> QED BY <1>1, <1>2, <2>1, DepthUnfolds DEF Intact
<1>3. CASE c # 0
  <2>1. c \in Interrupts /\ c \in Nat
    BY <1>3, ContextOrder
  <2>2. Active(c)
    BY <2>1, ViewOf DEF Intact, Active
  <2> DEFINE j == saved[c].pc.ctx
  <2>3. j \in Contexts /\ j \in Nat /\ j < c /\ saved[c].sp \in Nat
    BY <2>1, <2>2, ContextOrder DEF Inv, Chain, Link
  <2>4. j \in 0 .. c - 1 /\ c - 1 \in Contexts
    BY <2>1, <2>3, ContextOrder DEF Contexts
  <2>5. DepthTo[j] <= DepthTo[c - 1] /\ DepthTo[c - 1] \in Nat /\ DepthTo[j] \in Nat
    BY <1>1, <2>3, <2>4, DepthGrows
  <2>6. DepthTo[c] = DepthTo[c - 1] + FrameBound(c) /\ FrameBound(c) \in Nat
    BY <1>1, <2>1, DepthUnfolds, FrameBoundNat
  <2>7. saved[c].sp - s <= FrameBound(c)
    BY <2>1, FrameFits
  <2>8. StackTop - saved[c].sp <= DepthTo[j]
    BY <1>3
  <2> HIDE DEF j
  <2> QED BY <1>1, <2>3, <2>5, <2>6, <2>7, <2>8
<1> QED BY <1>2, <1>3

(* Every preempted context is within the depth of its level. *)
LEMMA PreemptedFit ==
  ASSUME Inv
  PROVE  \A k \in Interrupts :
           Active(k) => StackTop - saved[k].sp <= DepthTo[saved[k].pc.ctx]
<1> DEFINE Fits(k) == StackTop - saved[k].sp <= DepthTo[saved[k].pc.ctx]
           T == {k \in Interrupts : Active(k) /\ ~Fits(k)}
<1>1. T \subseteq Nat
  BY ContextOrder
<1>2. SUFFICES ASSUME T # {} PROVE FALSE
  OBVIOUS
<1>3. PICK k \in T : \A y \in T : k <= y
  BY <1>1, <1>2, LeastElement
<1>4. k \in Interrupts /\ k \in Nat /\ Active(k) /\ ~Fits(k)
  BY <1>1, <1>3
<1> DEFINE c == saved[k].pc.ctx
<1>5. c \in Contexts /\ c \in Nat /\ c < k
  BY <1>4, ContextOrder DEF Inv, Chain, Link
<1>6. Intact(View(c), saved[k].pc.at, saved[k].regs, saved[k].sp, stack)
  BY <1>4 DEF Inv, Preempted
<1>7. c # 0 => Fits(c)
  <2> SUFFICES ASSUME c # 0 PROVE Fits(c)
    OBVIOUS
  <2>1. c \in Interrupts
    BY <1>5, ContextOrder
  <2>2. Active(c)
    BY <1>6, <2>1, ViewOf DEF Intact, Active
  <2>3. c \notin T
    BY <1>3, <1>4, <1>5
  <2> QED BY <2>1, <2>2, <2>3
<1> HIDE DEF c
<1>8. StackTop - saved[k].sp <= DepthTo[c]
  BY <1>5, <1>6, <1>7, DepthFits
<1> QED BY <1>4, <1>8 DEF c

(* The stack never holds more than the frames of one handler for each      *)
(* level up to the running one: no exit leaves a frame behind, whatever    *)
(* has been nested in it.                                                  *)
THEOREM StackDepth == Spec => []StackBounded
<1>1. Inv => StackBounded
  <2> SUFFICES ASSUME Inv PROVE StackTop - sp <= DepthTo[mil]
    BY DEF StackBounded
  <2>1. pc.ctx \in Contexts /\ mil = pc.ctx
    BY DEF Inv, Shapes, TypeOK
  <2>2. Intact(View(pc.ctx), pc.at, regs, sp, stack)
    BY DEF Inv, Running
  <2>3. pc.ctx # 0 => Active(pc.ctx) /\ pc.ctx \in Interrupts
    BY <2>1, <2>2, ContextOrder, ViewOf DEF Intact, Active
  <2> QED BY <2>1, <2>2, <2>3, PreemptedFit, DepthFits
<1> QED BY <1>1, Invariance, PTL
=============================================================================
