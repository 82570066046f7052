------------------------------- MODULE ClicInt -------------------------------
(***************************************************************************)
(* One interrupt of the CLIC: its 32-bit register word (src/src/ip/         *)
(* clicint_reg_top.sv), the hardware that sets and claims its pending bit, *)
(* and the drivers (atalanta-bsp clic/*.rs, the clic.rs and lib.rs of       *)
(* hello_rt, clic.h) that change one field of the word at a time.          *)
(*                                                                         *)
(* All fields share one word and the block accepts only writes of the      *)
(* whole word, so every driver function reads the word, changes its field  *)
(* and writes everything back: the pending bit too, which the hardware may *)
(* have changed in between.  One action is one bus access or one event.    *)
(*                                                                         *)
(* Context 1 is the main program, higher contexts are interrupt handlers,  *)
(* of this interrupt or of others; a handler finishes before the context   *)
(* it interrupted goes on.                                                 *)
(***************************************************************************)
EXTENDS Integers, Sequences

CONSTANTS
  MaxLevel,   \* the highest interrupt level
  Depth,      \* how many contexts may be nested, main included
  MainCalls,  \* the driver calls main makes, each a sequence of updates
  IrqCalls,   \* the driver calls handlers make
  Others,     \* the other interrupts: see Rivals
  Overlaps    \* the kinds of program: see overlap

Levels == 0 .. MaxLevel
Contexts == 1 .. Depth

Modes == {"machine", "supervisor", "user"}

Word == [ip : BOOLEAN, ie : BOOLEAN, pcs : BOOLEAN, shv : BOOLEAN,
         edge : BOOLEAN, neg : BOOLEAN, mode : Modes, level : Levels]

(* Another interrupt: its level, and whether its number is the higher one. *)
Rivals == [level : Levels, first : BOOLEAN]

(* The fields software configures; ip is the remaining one. *)
ConfigFields == {"ie", "pcs", "shv", "edge", "neg", "mode", "level"}

(* An update is what one driver function does: it gives one field a value. *)
Updates ==
  [field : {"ip", "ie", "pcs", "shv", "edge", "neg"}, val : BOOLEAN]
    \cup [field : {"mode"}, val : Modes]
    \cup [field : {"level"}, val : Levels]

Set(f, v) == [field |-> f, val |-> v]

ASSUME ClicAssumption ==
  /\ MaxLevel \in Nat
  /\ Depth \in Nat \ {0}
  /\ MainCalls \subseteq Seq(Updates)
  /\ IrqCalls \subseteq Seq(Updates)
  /\ Others \subseteq Rivals
  /\ Overlaps \subseteq BOOLEAN

(* A deviation: the interrupt is enabled before it is configured. *)
SetupIrqEnablesFirst(l) ==
  <<Set("level", l), Set("ie", TRUE), Set("edge", TRUE), Set("neg", FALSE),
    Set("shv", TRUE)>>

(* setup_irq and tear_irq of the examples. *)
SetupIrq(l) ==
  <<Set("edge", TRUE), Set("neg", FALSE), Set("shv", TRUE), Set("level", l),
    Set("ie", TRUE)>>

TearIrq ==
  <<Set("ie", FALSE), Set("level", 0), Set("shv", FALSE), Set("edge", FALSE),
    Set("neg", FALSE)>>

(* The driver's functions, by themselves. *)
Functions == {<<u>> : u \in Updates}

VARIABLES
  word,   \* the register word
  line,   \* the interrupt input
  lvl,    \* lvl[c]: the level context c runs at, or -1 if there is none
  todo,   \* todo[c]: the updates context c's call still has to make
  held,   \* held[c]: the word as context c read it; meaningful if mid[c]
  mid,    \* mid[c]: context c has read the word and not yet written it
  clean,  \* clean[c]: no other context wrote the word since c read it
  owed,   \* an edge or pend() came that is neither taken nor unpended
  overlap \* whether anything can happen in the middle of an update

vars == <<word, line, lvl, todo, held, mid, clean, owed, overlap>>

ResetWord == [ip |-> FALSE, ie |-> FALSE, pcs |-> FALSE, shv |-> FALSE,
              edge |-> FALSE, neg |-> FALSE, mode |-> "machine", level |-> 0]

TypeOK ==
  /\ word \in Word
  /\ line \in BOOLEAN
  /\ lvl \in [Contexts -> Levels \cup {-1}]
  /\ todo \in [Contexts -> Seq(Updates)]
  /\ held \in [Contexts -> Word]
  /\ mid \in [Contexts -> BOOLEAN]
  /\ clean \in [Contexts -> BOOLEAN]
  /\ owed \in BOOLEAN
  /\ overlap \in Overlaps

Init ==
  /\ word = ResetWord
  /\ line = FALSE
  /\ lvl = [c \in Contexts |-> IF c = 1 THEN 0 ELSE -1]
  /\ todo = [c \in Contexts |-> <<>>]
  /\ held = [c \in Contexts |-> ResetWord]
  /\ mid = [c \in Contexts |-> FALSE]
  /\ clean = [c \in Contexts |-> TRUE]
  /\ owed = FALSE
  /\ overlap \in Overlaps

-----------------------------------------------------------------------------
(* Driver calls. *)

Live(c) == lvl[c] # -1
Runs(c) == Live(c) /\ \A d \in Contexts : d > c => ~Live(d)

Begin(c) ==
  /\ Runs(c)
  /\ todo[c] = <<>>
  /\ \E call \in (IF c = 1 THEN MainCalls ELSE IrqCalls) :
       todo' = [todo EXCEPT ![c] = call]
  /\ UNCHANGED <<word, line, lvl, held, mid, clean, owed, overlap>>

(* The read of Reg::set_bit, clear_bit, write_bits, modify_u32, write_word. *)
Read(c) ==
  /\ Runs(c)
  /\ todo[c] # <<>>
  /\ ~mid[c]
  /\ held' = [held EXCEPT ![c] = word]
  /\ mid' = [mid EXCEPT ![c] = TRUE]
  /\ clean' = [clean EXCEPT ![c] = TRUE]
  /\ UNCHANGED <<word, line, lvl, todo, owed, overlap>>

(* A deviation: the level is added to the old one, not put in its place. *)
UpdatedByAdding(w, u) ==
  [w EXCEPT ![u.field] = IF u.field = "level" THEN @ + u.val ELSE u.val]

(* A deviation: the rest of the word is written, but with ip cleared. *)
UpdatedDropsPending(w, u) ==
  [w EXCEPT !.ip = FALSE, ![u.field] = u.val]

(* The field's bits are cleared and its new value put in. *)
Updated(w, u) == [w EXCEPT ![u.field] = u.val]

(* The write: every field of the word takes the value on the bus, and so   *)
(* does ip, whatever the hardware gives it in the same cycle.  Changing    *)
(* from level to edge leaves ip undefined, so what it is then is owed.     *)
Write(c) ==
  LET u == Head(todo[c])
      new == Updated(held[c], u)
  IN /\ Runs(c)
     /\ mid[c]
     /\ word' = new
     /\ owed' = IF ~new.edge THEN FALSE
                ELSE IF u.field = "ip" \/ ~word.edge THEN new.ip
                ELSE owed
     /\ mid' = [mid EXCEPT ![c] = FALSE]
     /\ clean' = [d \in Contexts |-> d = c \/ (clean[d] /\ ~mid[d])]
     /\ todo' = [todo EXCEPT ![c] = Tail(@)]
     /\ held' = [held EXCEPT ![c] = ResetWord]
     /\ UNCHANGED <<line, lvl, overlap>>

-----------------------------------------------------------------------------
(* The hardware around the word: gateway, arbitration, claim. *)

(* Programs that configure an interrupt while its source is silent and     *)
(* interrupts are disabled are those with overlap = FALSE.                 *)
Undisturbed == overlap \/ \A c \in Contexts : ~mid[c]

Active(w, l) == l # w.neg

(* The input changes; in edge mode a rise to active sets the pending bit. *)
LineChange ==
  /\ Undisturbed
  /\ line' = ~line
  /\ LET rise == word.edge /\ Active(word, line') IN
     /\ word' = [word EXCEPT !.ip = @ \/ rise]
     /\ owed' = (owed \/ rise)
  /\ UNCHANGED <<lvl, todo, held, mid, clean, overlap>>

(* In level mode the pending bit follows the input, at the latest in the   *)
(* cycle after software has written something else into it.                *)
Follow ==
  /\ ~word.edge
  /\ word.ip # Active(word, line)
  /\ word' = [word EXCEPT !.ip = Active(word, line)]
  /\ UNCHANGED <<line, lvl, todo, held, mid, clean, owed, overlap>>

Enter(l) ==
  \E c \in Contexts \ {1} :
    /\ Runs(c - 1)
    /\ l > lvl[c - 1]
    /\ lvl' = [lvl EXCEPT ![c] = l]

(* The core takes the interrupt; the claim clears an edge's pending bit. *)
Take ==
  /\ Undisturbed
  /\ word.ip /\ word.ie
  /\ Enter(word.level)
  /\ word' = [word EXCEPT !.ip = @ /\ ~word.edge]
  /\ owed' = FALSE
  /\ UNCHANGED <<line, todo, held, mid, clean, overlap>>

(* Arbitration: the higher level goes first, and at one level the higher   *)
(* number (intctl.rs).                                                     *)
Outranks(o) ==
  \/ o.level > word.level
  \/ o.level = word.level /\ o.first

(* The core takes another interrupt, which this one lets pass only if it   *)
(* is not itself asking or is outranked.                                   *)
TakeOther ==
  /\ Undisturbed
  /\ \E o \in Others :
       /\ word.ip /\ word.ie => Outranks(o)
       /\ Enter(o.level)
  /\ UNCHANGED <<word, line, todo, held, mid, clean, owed, overlap>>

Return(c) ==
  /\ c > 1
  /\ Runs(c)
  /\ todo[c] = <<>>
  /\ lvl' = [lvl EXCEPT ![c] = -1]
  /\ UNCHANGED <<word, line, todo, held, mid, clean, owed, overlap>>

Hardware == LineChange \/ Follow \/ Take \/ TakeOther

Next ==
  \/ Hardware
  \/ \E c \in Contexts : Begin(c) \/ Read(c) \/ Write(c) \/ Return(c)

Spec == Init /\ [][Next]_vars

(* A core that is in a driver call goes on, and a handler makes only so    *)
(* many calls before it returns.  The core takes the interrupt that wins   *)
(* the arbitration at the first instruction at which it may: being able to *)
(* between one update and the next is enough.  This assumes nothing of an  *)
(* interrupt that others outrank, and EdgeServed claims nothing for it:    *)
(* they may win every time, and it starves.                                *)
Fairness ==
  /\ \A c \in Contexts : WF_vars(Read(c) \/ Write(c)) /\ SF_vars(Return(c))
  /\ SF_vars(Take)

FairSpec == Spec /\ Fairness

-----------------------------------------------------------------------------
(* Properties. *)

(* A driver function changes its own configuration field and no other,     *)
(* unless a handler's call came between its read and its write.            *)
CallSetsItsField ==
  [][\A c \in Contexts :
       Write(c) /\ clean[c] =>
         LET u == Head(todo[c]) IN
         \A f \in ConfigFields :
           word'[f] = IF f = u.field THEN u.val ELSE word[f]]_vars

(* An interrupt that setup_irq and tear_irq configure is never taken with  *)
(* a configuration that is not complete: not before setup_irq has finished *)
(* and not once tear_irq has begun, whatever handlers run in between.      *)
TakenAsSetUp == [][Take => word.edge /\ ~word.neg /\ word.shv]_vars

(* While nothing overlaps with the updates, the pending bit of an          *)
(* edge-triggered interrupt is exactly the edge that is still to be served:*)
(* no call loses one or makes one up.                                      *)
PendingIsOwed == word.edge /\ ~overlap => (word.ip <=> owed)

(* An edge on an enabled interrupt that no other outranks is served,       *)
(* however often the others, those of its own level included, interrupt    *)
(* main, unless it is torn down or outranked by a new level instead.       *)
Served == ~owed \/ ~word.ie \/ \E o \in Others : Outranks(o)

EdgeServed == ~overlap /\ ~Served ~> Served
=============================================================================
