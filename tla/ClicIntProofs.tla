---------------------------- MODULE ClicIntProofs ----------------------------
(***************************************************************************)
(* The register word of an interrupt, for every number of levels, every    *)
(* depth of nesting and every set of calls: its types, what a driver       *)
(* function changes, that no edge is lost or made up when nothing overlaps *)
(* with an update, and that setup_irq and tear_irq keep a half-configured  *)
(* interrupt from being taken.                                             *)
(***************************************************************************)
EXTENDS ClicInt, TLAPS

(* Changing a field to a value of its own gives a word. *)
LEMMA UpdatedType ==
  ASSUME NEW w \in Word, NEW u \in Updates PROVE Updated(w, u) \in Word
<1>1. CASE u \in [field : {"ip", "ie", "pcs", "shv", "edge", "neg"},
                  val : BOOLEAN]
  BY <1>1 DEF Updated, Word
<1>2. CASE u \in [field : {"mode"}, val : Modes]
  BY <1>2 DEF Updated, Word
<1>3. CASE u \in [field : {"level"}, val : Levels]
  BY <1>3 DEF Updated, Word
<1> QED BY <1>1, <1>2, <1>3 DEF Updates

(* ... and leaves the others as they are. *)
LEMMA UpdatedFields ==
  ASSUME NEW w \in Word, NEW u \in Updates
  PROVE  /\ u.field \in ConfigFields \cup {"ip"}
         /\ \A f \in ConfigFields \cup {"ip"} :
              Updated(w, u)[f] = IF f = u.field THEN u.val ELSE w[f]
<1>1. u.field \in ConfigFields \cup {"ip"}
  BY DEF Updates, ConfigFields
<1>2. DOMAIN w = ConfigFields \cup {"ip"}
  BY DEF Word, ConfigFields
<1> QED BY <1>1, <1>2 DEF Updated

LEMMA ResetWordType == ResetWord \in Word
  BY ClicAssumption DEF ClicAssumption, ResetWord, Word, Modes, Levels

LEMMA IpType ==
  ASSUME NEW w \in Word, NEW b \in BOOLEAN PROVE [w EXCEPT !.ip = b] \in Word
  BY DEF Word

LEMMA TypeInit == ASSUME Init PROVE TypeOK
<1> USE DEF Init
<1>1. lvl \in [Contexts -> Levels \cup {-1}]
  BY ClicAssumption DEF ClicAssumption, Levels
<1>2. held \in [Contexts -> Word] /\ word \in Word
  BY ResetWordType
<1>3. todo \in [Contexts -> Seq(Updates)]
  OBVIOUS
<1>4. /\ mid \in [Contexts -> BOOLEAN] /\ clean \in [Contexts -> BOOLEAN]
      /\ line \in BOOLEAN /\ owed \in BOOLEAN /\ overlap \in Overlaps
  OBVIOUS
<1> QED BY <1>1, <1>2, <1>3, <1>4 DEF TypeOK

LEMMA HardwareType == ASSUME TypeOK, Hardware PROVE TypeOK'
<1> USE DEF TypeOK
<1>1. CASE LineChange
  <2>1. line' \in BOOLEAN /\ (word.edge /\ Active(word, line')) \in BOOLEAN
    BY <1>1 DEF LineChange
  <2>2. word.ip \in BOOLEAN
    BY DEF Word
  <2>3. word' \in Word /\ owed' \in BOOLEAN
    BY <1>1, <2>1, <2>2, IpType DEF LineChange
  <2> QED BY <1>1, <2>1, <2>3 DEF LineChange
<1>2. CASE Follow
  <2>1. Active(word, line) \in BOOLEAN
    BY DEF Active
  <2> QED BY <1>2, <2>1, IpType DEF Follow
<1>3. CASE Take
  <2>1. word.ip \in BOOLEAN /\ word.edge \in BOOLEAN /\ word.level \in Levels
    BY DEF Word
  <2>2. word' \in Word
    BY <1>3, <2>1, IpType DEF Take
  <2>3. lvl' \in [Contexts -> Levels \cup {-1}]
    BY <1>3, <2>1 DEF Take, Enter
  <2> QED BY <1>3, <2>2, <2>3 DEF Take
<1>4. CASE TakeOther
  <2>1. lvl' \in [Contexts -> Levels \cup {-1}]
    BY <1>4, ClicAssumption DEF TakeOther, Enter, ClicAssumption, Rivals
  <2> QED BY <1>4, <2>1 DEF TakeOther
<1> QED BY <1>1, <1>2, <1>3, <1>4 DEF Hardware

(* What is left of a call is a sequence of updates. *)
LEMMA NextUpdate ==
  ASSUME TypeOK, NEW c \in Contexts, todo[c] # <<>>
  PROVE  Head(todo[c]) \in Updates /\ Tail(todo[c]) \in Seq(Updates)
  BY DEF TypeOK

(* Every call that is under way has an update left to make. *)
CallsUnderWay ==
  \A c \in Contexts : mid[c] => todo[c] # <<>> /\ Live(c)

LEMMA WriteType ==
  ASSUME TypeOK, CallsUnderWay, NEW c \in Contexts, Write(c) PROVE TypeOK'
<1> USE DEF TypeOK
<1>1. Head(todo[c]) \in Updates /\ Tail(todo[c]) \in Seq(Updates)
  BY NextUpdate DEF Write, CallsUnderWay
<1>2. Updated(held[c], Head(todo[c])) \in Word
  BY <1>1, UpdatedType
<1>3. word' \in Word
  BY <1>2 DEF Write
<1>4. owed' \in BOOLEAN
  BY <1>2 DEF Write, Word
<1>5. todo' \in [Contexts -> Seq(Updates)]
  BY <1>1 DEF Write
<1>6. held' \in [Contexts -> Word] /\ mid' \in [Contexts -> BOOLEAN]
  BY ResetWordType DEF Write
<1>7. clean' \in [Contexts -> BOOLEAN]
  BY DEF Write
<1> QED BY <1>3, <1>4, <1>5, <1>6, <1>7 DEF Write

LEMMA CallType ==
  ASSUME TypeOK, CallsUnderWay, NEW c \in Contexts,
         Begin(c) \/ Read(c) \/ Write(c) \/ Return(c)
  PROVE  TypeOK'
<1> USE DEF TypeOK
<1>1. CASE Begin(c)
  BY <1>1, ClicAssumption DEF Begin, ClicAssumption
<1>2. CASE Read(c)
  BY <1>2 DEF Read
<1>3. CASE Write(c)
  BY <1>3, WriteType
<1>4. CASE Return(c)
  BY <1>4 DEF Return
<1> QED BY <1>1, <1>2, <1>3, <1>4

LEMMA UnderWayStep ==
  ASSUME TypeOK, CallsUnderWay, [Next]_vars PROVE CallsUnderWay'
<1> USE DEF TypeOK, CallsUnderWay, Live
<1>1. CASE LineChange \/ Follow
  BY <1>1 DEF LineChange, Follow
<1>2. CASE Take \/ TakeOther
  <2>1. UNCHANGED <<todo, mid>>
    BY <1>2 DEF Take, TakeOther
  <2>2. \E l \in Levels : Enter(l)
    BY <1>2, ClicAssumption DEF Take, TakeOther, Word, ClicAssumption, Rivals
  <2>3. \A c \in Contexts : lvl[c] # -1 => lvl'[c] # -1
    BY <2>2, ClicAssumption DEF Enter, Levels, ClicAssumption
  <2> QED BY <2>1, <2>3
<1>3. ASSUME NEW c \in Contexts, Begin(c) \/ Read(c) \/ Write(c) \/ Return(c)
      PROVE  CallsUnderWay'
  <2>1. CASE Begin(c)
    BY <1>3, <2>1, ClicAssumption DEF Begin, ClicAssumption
  <2>2. CASE Read(c)
    BY <2>2 DEF Read, Runs
  <2>3. CASE Write(c)
    BY <2>3 DEF Write
  <2>4. CASE Return(c)
    BY <2>4 DEF Return
  <2> QED BY <1>3, <2>1, <2>2, <2>3, <2>4
<1>4. CASE UNCHANGED vars
  BY <1>4 DEF vars
<1> QED BY <1>1, <1>2, <1>3, <1>4 DEF Next, Hardware

TypeInv == TypeOK /\ CallsUnderWay

LEMMA TypeInvariant == Spec => []TypeInv
<1>1. Init => TypeInv
  BY TypeInit DEF TypeInv, CallsUnderWay, Init
<1>2. TypeInv /\ [Next]_vars => TypeInv'
  <2> SUFFICES ASSUME TypeInv, [Next]_vars PROVE TypeInv'
    OBVIOUS
  <2>1. CallsUnderWay'
    BY UnderWayStep DEF TypeInv
  <2>2. CASE Hardware
    BY <2>1, <2>2, HardwareType DEF TypeInv
  <2>3. CASE \E c \in Contexts : Begin(c) \/ Read(c) \/ Write(c) \/ Return(c)
    BY <2>1, <2>3, CallType DEF TypeInv
  <2>4. CASE UNCHANGED vars
    BY <2>1, <2>4 DEF TypeInv, TypeOK, vars
  <2> QED BY <2>2, <2>3, <2>4 DEF Next
<1> QED BY <1>1, <1>2, PTL DEF Spec

(* The register word holds a value of every field, whatever calls nest. *)
THEOREM TypeCorrect == Spec => []TypeOK
<1>1. TypeInv => TypeOK
  BY DEF TypeInv
<1> QED BY <1>1, TypeInvariant, PTL
-----------------------------------------------------------------------------
(* What a driver function changes. *)

Agree(w, v) == \A f \in ConfigFields : w[f] = v[f]

(* A word that was read, and not written by another context since, still   *)
(* has the configuration that was read: only ip changes by itself.         *)
CleanReads ==
  \A c \in Contexts : mid[c] /\ clean[c] => Agree(held[c], word)

LEMMA HardwareKeepsConfig ==
  ASSUME TypeOK, Hardware PROVE Agree(word', word)
<1> USE DEF TypeOK, Agree, ConfigFields, Word
<1>1. CASE LineChange
  BY <1>1 DEF LineChange
<1>2. CASE Follow
  BY <1>2 DEF Follow
<1>3. CASE Take
  BY <1>3 DEF Take
<1>4. CASE TakeOther
  BY <1>4 DEF TakeOther
<1> QED BY <1>1, <1>2, <1>3, <1>4 DEF Hardware

LEMMA CleanReadsStep ==
  ASSUME TypeInv, CleanReads, [Next]_vars PROVE CleanReads'
<1> USE DEF TypeInv, TypeOK, CleanReads
<1>1. CASE Hardware
  <2>1. UNCHANGED <<held, mid, clean>>
    BY <1>1 DEF Hardware, LineChange, Follow, Take, TakeOther
  <2> QED BY <1>1, <2>1, HardwareKeepsConfig DEF Agree
<1>2. ASSUME NEW c \in Contexts, Begin(c) \/ Return(c) PROVE CleanReads'
  BY <1>2 DEF Begin, Return
<1>3. ASSUME NEW c \in Contexts, Read(c) PROVE CleanReads'
  BY <1>3 DEF Read, Agree
<1>4. ASSUME NEW c \in Contexts, Write(c) PROVE CleanReads'
  BY <1>4 DEF Write
<1>5. CASE UNCHANGED vars
  BY <1>5 DEF vars
<1> QED BY <1>1, <1>2, <1>3, <1>4, <1>5 DEF Next

(* set_level, enable, set_trig and the others change their own field of    *)
(* the word only, when no handler's call came between read and write.      *)
THEOREM FieldsKept == Spec => CallSetsItsField
<1>1. Init => CleanReads
  BY DEF Init, CleanReads
<1>2. TypeInv /\ CleanReads /\ [Next]_vars => CleanReads'
  BY CleanReadsStep
<1>3. ASSUME TypeInv, CleanReads, NEW c \in Contexts, Write(c), clean[c]
      PROVE  LET u == Head(todo[c]) IN
             \A f \in ConfigFields :
               word'[f] = IF f = u.field THEN u.val ELSE word[f]
  <2> USE DEF TypeInv, TypeOK
  <2>1. Head(todo[c]) \in Updates
    BY <1>3, NextUpdate DEF Write, CallsUnderWay
  <2>2. held[c] \in Word /\ Agree(held[c], word)
    BY <1>3 DEF CleanReads, Write
  <2>3. word' = Updated(held[c], Head(todo[c]))
    BY <1>3 DEF Write
  <2> QED BY <2>1, <2>2, <2>3, UpdatedFields DEF Agree
<1>4. TypeInv /\ CleanReads =>
        \A c \in Contexts :
          Write(c) /\ clean[c] =>
            LET u == Head(todo[c]) IN
            \A f \in ConfigFields :
              word'[f] = IF f = u.field THEN u.val ELSE word[f]
  BY <1>3
<1> QED BY <1>1, <1>2, <1>4, TypeInvariant, PTL DEF Spec, CallSetsItsField

-----------------------------------------------------------------------------
(* Edges. *)

(* Without overlap, an update that is under way is that of the context     *)
(* that runs, and the word is still what it read, but that a level's       *)
(* pending bit may have followed its input.                                *)
Alone ==
  ~overlap =>
    /\ word.edge => (word.ip <=> owed)
    /\ \A c \in Contexts : mid[c] =>
         /\ Runs(c)
         /\ held[c].edge = word.edge
         /\ word.edge => held[c] = word

LEMMA RunsOnce ==
  ASSUME NEW c \in Contexts, NEW d \in Contexts, Runs(c), Runs(d) PROVE c = d
  BY DEF Runs, Contexts

LEMMA AloneHardware ==
  ASSUME TypeInv, Alone, ~overlap, Hardware PROVE Alone'
<1> USE DEF TypeInv, TypeOK
<1>1. CASE LineChange
  <2>1. \A c \in Contexts : ~mid[c]
    BY <1>1 DEF LineChange, Undisturbed
  <2>2. word'.edge = word.edge
        /\ word'.ip = (word.ip \/ (word.edge /\ Active(word, line')))
    BY <1>1 DEF LineChange, Word
  <2>3. owed' = (owed \/ (word.edge /\ Active(word, line')))
    BY <1>1 DEF LineChange
  <2> QED BY <1>1, <2>1, <2>2, <2>3 DEF Alone, LineChange, Word
<1>2. CASE Follow
  <2>1. word'.edge = FALSE /\ word.edge = FALSE
    BY <1>2 DEF Follow, Word
  <2> QED BY <1>2, <2>1 DEF Alone, Follow, Runs, Live
<1>3. CASE Take
  <2>1. \A c \in Contexts : ~mid[c]
    BY <1>3 DEF Take, Undisturbed
  <2>2. word'.edge = word.edge /\ word'.ip = (word.ip /\ ~word.edge)
    BY <1>3 DEF Take, Word
  <2> QED BY <1>3, <2>1, <2>2 DEF Alone, Take, Word
<1>4. CASE TakeOther
  BY <1>4 DEF Alone, TakeOther, Undisturbed
<1> QED BY <1>1, <1>2, <1>3, <1>4 DEF Hardware

LEMMA AloneWrite ==
  ASSUME TypeInv, Alone, ~overlap, NEW c \in Contexts, Write(c) PROVE Alone'
<1> USE DEF TypeInv, TypeOK
<1> DEFINE u == Head(todo[c])
           new == Updated(held[c], u)
<1>1. mid[c] /\ Runs(c) /\ u \in Updates
  BY NextUpdate DEF Write, CallsUnderWay
<1>2. \A d \in Contexts : ~mid'[d]
  BY <1>1, RunsOnce DEF Alone, Write
<1>3. /\ word' = new /\ overlap' = overlap
      /\ owed' = IF ~new.edge THEN FALSE
                 ELSE IF u.field = "ip" \/ ~word.edge THEN new.ip ELSE owed
  BY DEF Write
<1>4. /\ new \in Word
      /\ u.field # "ip" => new.ip = held[c].ip
  BY <1>1, UpdatedType, UpdatedFields
<1>5. word.edge /\ u.field # "ip" => (new.ip <=> owed)
  BY <1>1, <1>4 DEF Alone, Word
<1> HIDE DEF u, new
<1>6. new.edge => (new.ip <=> owed')
  BY <1>3, <1>4, <1>5 DEF Word
<1> QED BY <1>2, <1>3, <1>6 DEF Alone

LEMMA AloneStep == ASSUME TypeInv, Alone, [Next]_vars PROVE Alone'
<1> USE DEF TypeInv, TypeOK
<1>1. CASE overlap
  BY <1>1 DEF Alone, Next, Hardware, LineChange, Follow, Take, TakeOther, Begin,
    Read, Write, Return, vars
<1>2. CASE ~overlap /\ Hardware
  BY <1>2, AloneHardware
<1>3. ASSUME ~overlap, NEW c \in Contexts, Begin(c) PROVE Alone'
  BY <1>3 DEF Alone, Begin, Runs, Live
<1>4. ASSUME ~overlap, NEW c \in Contexts, Read(c) PROVE Alone'
  <2>1. \A d \in Contexts : d # c /\ mid'[d] => mid[d] /\ held'[d] = held[d]
    BY <1>4 DEF Read
  <2>2. Runs(c) /\ held'[c] = word
    BY <1>4 DEF Read
  <2> QED BY <1>4, <2>1, <2>2 DEF Alone, Read, Runs, Live
<1>5. ASSUME ~overlap, NEW c \in Contexts, Write(c) PROVE Alone'
  BY <1>5, AloneWrite
<1>6. ASSUME ~overlap, NEW c \in Contexts, Return(c) PROVE Alone'
  <2>1. Runs(c) /\ ~mid[c]
    BY <1>6 DEF Return, CallsUnderWay
  <2>2. \A d \in Contexts : ~mid[d]
    BY <1>6, <2>1, RunsOnce DEF Alone
  <2> QED BY <1>6, <2>2 DEF Alone, Return
<1>7. CASE UNCHANGED vars
  BY <1>7 DEF Alone, vars, Runs, Live
<1> QED BY <1>1, <1>2, <1>3, <1>4, <1>5, <1>6, <1>7 DEF Next

(* No driver call loses an edge that is pending or makes one up, as long   *)
(* as nothing happens between its read and its write.                      *)
THEOREM EdgesKept == Spec => []PendingIsOwed
<1>1. Init => Alone
  BY DEF Init, Alone, ResetWord
<1>2. TypeInv /\ Alone /\ [Next]_vars => Alone'
  BY AloneStep
<1>3. Alone => PendingIsOwed
  BY DEF Alone, PendingIsOwed
<1> QED BY <1>1, <1>2, <1>3, TypeInvariant, PTL DEF Spec

-----------------------------------------------------------------------------
(* setup_irq and tear_irq. *)

(* Main sets the interrupt up and tears it down; handlers at most pend,    *)
(* unpend it or change its hardware stacking.                              *)
SetupAndTear ==
  /\ MainCalls \subseteq {SetupIrq(l) : l \in Levels} \cup {TearIrq}
  /\ IrqCalls \subseteq {<<Set(f, v)>> : f \in {"ip", "pcs"}, v \in BOOLEAN}

SetupFields == {"ie", "edge", "neg", "shv"}

(* What main has still to do to the word, and what it has done already. *)
SettingUp ==
  \E l \in Levels :
    \/ todo[1] = SetupIrq(l)
    \/ /\ todo[1] = <<Set("neg", FALSE), Set("shv", TRUE), Set("level", l),
                      Set("ie", TRUE)>>
       /\ word.edge
    \/ /\ todo[1] = <<Set("shv", TRUE), Set("level", l), Set("ie", TRUE)>>
       /\ word.edge /\ ~word.neg
    \/ /\ todo[1] = <<Set("level", l), Set("ie", TRUE)>>
       /\ word.edge /\ ~word.neg /\ word.shv
    \/ /\ todo[1] = <<Set("ie", TRUE)>>
       /\ word.edge /\ ~word.neg /\ word.shv

TearingDown ==
  \/ todo[1] = TearIrq
  \/ /\ todo[1] \in {<<Set("level", 0), Set("shv", FALSE), Set("edge", FALSE),
                      Set("neg", FALSE)>>,
                    <<Set("shv", FALSE), Set("edge", FALSE), Set("neg", FALSE)>>,
                    <<Set("edge", FALSE), Set("neg", FALSE)>>,
                    <<Set("neg", FALSE)>>}
     /\ ~word.ie

(* Nobody else writes these fields between a read and its write, so that   *)
(* the order of main's updates decides what the interrupt is enabled with. *)
Ordered ==
  /\ word.ie => word.edge /\ ~word.neg /\ word.shv
  /\ todo[1] = <<>> \/ SettingUp \/ TearingDown
  /\ \A c \in Contexts \ {1} :
       todo[c] # <<>> =>
         \E f \in {"ip", "pcs"}, v \in BOOLEAN : todo[c] = <<Set(f, v)>>
  /\ \A c \in Contexts :
       mid[c] => \A f \in SetupFields : held[c][f] = word[f]

LEMMA SetupSteps ==
  ASSUME NEW l
  PROVE  LET a == Set("edge", TRUE)
             b == Set("neg", FALSE)
             c == Set("shv", TRUE)
             d == Set("level", l)
             e == Set("ie", TRUE)
         IN  /\ Head(SetupIrq(l)) = a /\ Tail(SetupIrq(l)) = <<b, c, d, e>>
             /\ Head(<<b, c, d, e>>) = b /\ Tail(<<b, c, d, e>>) = <<c, d, e>>
             /\ Head(<<c, d, e>>) = c /\ Tail(<<c, d, e>>) = <<d, e>>
             /\ Head(<<d, e>>) = d /\ Tail(<<d, e>>) = <<e>>
             /\ Head(<<e>>) = e /\ Tail(<<e>>) = <<>>
<1> DEFINE a == Set("edge", TRUE)
           b == Set("neg", FALSE)
           c == Set("shv", TRUE)
           d == Set("level", l)
           e == Set("ie", TRUE)
<1> HIDE DEF a, b, c, d, e
<1>1. Head(<<a, b, c, d, e>>) = a /\ Tail(<<a, b, c, d, e>>) = <<b, c, d, e>>
  OBVIOUS
<1>2. Head(<<b, c, d, e>>) = b /\ Tail(<<b, c, d, e>>) = <<c, d, e>>
  OBVIOUS
<1>3. Head(<<c, d, e>>) = c /\ Tail(<<c, d, e>>) = <<d, e>>
  OBVIOUS
<1>4. Head(<<d, e>>) = d /\ Tail(<<d, e>>) = <<e>>
  OBVIOUS
<1>5. Head(<<e>>) = e /\ Tail(<<e>>) = <<>>
  OBVIOUS
<1> QED BY <1>1, <1>2, <1>3, <1>4, <1>5 DEF SetupIrq, a, b, c, d, e

LEMMA TearSteps ==
  LET a == Set("ie", FALSE)
      b == Set("level", 0)
      c == Set("shv", FALSE)
      d == Set("edge", FALSE)
      e == Set("neg", FALSE)
  IN  /\ Head(TearIrq) = a /\ Tail(TearIrq) = <<b, c, d, e>>
      /\ Head(<<b, c, d, e>>) = b /\ Tail(<<b, c, d, e>>) = <<c, d, e>>
      /\ Head(<<c, d, e>>) = c /\ Tail(<<c, d, e>>) = <<d, e>>
      /\ Head(<<d, e>>) = d /\ Tail(<<d, e>>) = <<e>>
      /\ Head(<<e>>) = e /\ Tail(<<e>>) = <<>>
<1> DEFINE a == Set("ie", FALSE)
           b == Set("level", 0)
           c == Set("shv", FALSE)
           d == Set("edge", FALSE)
           e == Set("neg", FALSE)
<1> HIDE DEF a, b, c, d, e
<1>1. Head(<<a, b, c, d, e>>) = a /\ Tail(<<a, b, c, d, e>>) = <<b, c, d, e>>
  OBVIOUS
<1>2. Head(<<b, c, d, e>>) = b /\ Tail(<<b, c, d, e>>) = <<c, d, e>>
  OBVIOUS
<1>3. Head(<<c, d, e>>) = c /\ Tail(<<c, d, e>>) = <<d, e>>
  OBVIOUS
<1>4. Head(<<d, e>>) = d /\ Tail(<<d, e>>) = <<e>>
  OBVIOUS
<1>5. Head(<<e>>) = e /\ Tail(<<e>>) = <<>>
  OBVIOUS
<1> QED BY <1>1, <1>2, <1>3, <1>4, <1>5 DEF TearIrq, a, b, c, d, e

LEMMA OrderedSame ==
  ASSUME Ordered, UNCHANGED <<todo, mid, held>>,
         \A f \in SetupFields : word'[f] = word[f]
  PROVE  Ordered'
<1>1. /\ word'.ie = word.ie /\ word'.edge = word.edge
      /\ word'.neg = word.neg /\ word'.shv = word.shv
  BY DEF SetupFields
<1>2. SettingUp => SettingUp'
  BY <1>1 DEF SettingUp
<1>3. TearingDown => TearingDown'
  BY <1>1 DEF TearingDown
<1> QED BY <1>1, <1>2, <1>3 DEF Ordered

(* A write of main's takes it one update further. *)
LEMMA OrderedMain ==
  ASSUME TypeInv, Ordered, Write(1), 1 \in Contexts PROVE Ordered'
<1> USE DEF TypeInv, TypeOK
<1> DEFINE u == Head(todo[1])
<1>1. mid[1] /\ Runs(1) /\ todo[1] # <<>> /\ u \in Updates
  BY NextUpdate DEF Write, CallsUnderWay
<1>2. \A c \in Contexts : c # 1 => ~mid[c]
  BY <1>1 DEF Runs, CallsUnderWay, Contexts
<1>3. \A f \in SetupFields :
        word'[f] = IF f = u.field THEN u.val ELSE word[f]
  <2>1. word' = Updated(held[1], u)
    BY DEF Write
  <2>2. \A f \in SetupFields : held[1][f] = word[f]
    BY <1>1 DEF Ordered
  <2> QED BY <1>1, <2>1, <2>2, UpdatedFields DEF SetupFields, ConfigFields
<1>4. /\ todo'[1] = Tail(todo[1])
      /\ \A c \in Contexts : c # 1 => todo'[c] = todo[c]
      /\ \A c \in Contexts : ~mid'[c]
  BY <1>2 DEF Write
<1>5. /\ word'.ie = IF u.field = "ie" THEN u.val ELSE word.ie
      /\ word'.edge = IF u.field = "edge" THEN u.val ELSE word.edge
      /\ word'.neg = IF u.field = "neg" THEN u.val ELSE word.neg
      /\ word'.shv = IF u.field = "shv" THEN u.val ELSE word.shv
  BY <1>3 DEF SetupFields
<1>6. /\ word'.ie => word'.edge /\ ~word'.neg /\ word'.shv
      /\ todo'[1] = <<>> \/ SettingUp' \/ TearingDown'
  <2>1. CASE SettingUp
    <3>1. PICK l \in Levels :
        \/ todo[1] = SetupIrq(l)
        \/ /\ todo[1] = <<Set("neg", FALSE), Set("shv", TRUE), Set("level", l),
                          Set("ie", TRUE)>>
           /\ word.edge
        \/ /\ todo[1] = <<Set("shv", TRUE), Set("level", l), Set("ie", TRUE)>>
           /\ word.edge /\ ~word.neg
        \/ /\ todo[1] = <<Set("level", l), Set("ie", TRUE)>>
           /\ word.edge /\ ~word.neg /\ word.shv
        \/ /\ todo[1] = <<Set("ie", TRUE)>>
           /\ word.edge /\ ~word.neg /\ word.shv
      BY <2>1 DEF SettingUp
    <3>2. CASE todo[1] = SetupIrq(l)
      <4>1. u = Set("edge", TRUE) /\ Tail(todo[1]) =
              <<Set("neg", FALSE), Set("shv", TRUE), Set("level", l),
                Set("ie", TRUE)>>
        BY <3>2, SetupSteps
      <4>2. word'.edge
        BY <4>1, <1>5 DEF Set
      <4>3. SettingUp'
        BY <4>1, <4>2, <1>4 DEF SettingUp
      <4>4. word'.ie => word'.edge /\ ~word'.neg /\ word'.shv
        BY <4>1, <1>5 DEF Set, Ordered
      <4> QED BY <4>3, <4>4
    <3>3. CASE /\ todo[1] = <<Set("neg", FALSE), Set("shv", TRUE),
                             Set("level", l), Set("ie", TRUE)>>
               /\ word.edge
      <4>1. u = Set("neg", FALSE) /\ Tail(todo[1]) =
              <<Set("shv", TRUE), Set("level", l), Set("ie", TRUE)>>
        BY <3>3, SetupSteps
      <4>2. SettingUp' /\ (word'.ie => word'.edge /\ ~word'.neg /\ word'.shv)
        BY <3>3, <4>1, <1>4, <1>5 DEF SettingUp, Set, Ordered
      <4> QED BY <4>2
    <3>4. CASE /\ todo[1] = <<Set("shv", TRUE), Set("level", l), Set("ie", TRUE)>>
               /\ word.edge /\ ~word.neg
      <4>1. u = Set("shv", TRUE) /\ Tail(todo[1]) =
              <<Set("level", l), Set("ie", TRUE)>>
        BY <3>4, SetupSteps
      <4>2. SettingUp' /\ (word'.ie => word'.edge /\ ~word'.neg /\ word'.shv)
        BY <3>4, <4>1, <1>4, <1>5 DEF SettingUp, Set, Ordered
      <4> QED BY <4>2
    <3>5. CASE /\ todo[1] = <<Set("level", l), Set("ie", TRUE)>>
               /\ word.edge /\ ~word.neg /\ word.shv
      <4>1. u = Set("level", l) /\ Tail(todo[1]) = <<Set("ie", TRUE)>>
        BY <3>5, SetupSteps
      <4>2. SettingUp' /\ (word'.ie => word'.edge /\ ~word'.neg /\ word'.shv)
        BY <3>5, <4>1, <1>4, <1>5 DEF SettingUp, Set, Ordered
      <4> QED BY <4>2
    <3>6. CASE /\ todo[1] = <<Set("ie", TRUE)>>
               /\ word.edge /\ ~word.neg /\ word.shv
      <4>1. u = Set("ie", TRUE) /\ Tail(todo[1]) = <<>>
        BY <3>6, SetupSteps
      <4> QED BY <3>6, <4>1, <1>4, <1>5 DEF Set
    <3> QED BY <3>1, <3>2, <3>3, <3>4, <3>5, <3>6
  <2>2. CASE TearingDown
    <3>1. CASE todo[1] = TearIrq
      <4>1. u = Set("ie", FALSE) /\ Tail(todo[1]) =
              <<Set("level", 0), Set("shv", FALSE), Set("edge", FALSE),
                Set("neg", FALSE)>>
        BY <3>1, TearSteps
      <4>2. ~word'.ie /\ TearingDown'
        BY <4>1, <1>4, <1>5 DEF TearingDown, Set
      <4> QED BY <4>2
    <3>2. CASE todo[1] = <<Set("level", 0), Set("shv", FALSE),
                           Set("edge", FALSE), Set("neg", FALSE)>> /\ ~word.ie
      <4>1. u = Set("level", 0) /\ Tail(todo[1]) =
              <<Set("shv", FALSE), Set("edge", FALSE), Set("neg", FALSE)>>
        BY <3>2, TearSteps
      <4>2. ~word'.ie /\ TearingDown'
        BY <3>2, <4>1, <1>4, <1>5 DEF TearingDown, Set
      <4> QED BY <4>2
    <3>3. CASE todo[1] = <<Set("shv", FALSE), Set("edge", FALSE),
                           Set("neg", FALSE)>> /\ ~word.ie
      <4>1. u = Set("shv", FALSE) /\ Tail(todo[1]) =
              <<Set("edge", FALSE), Set("neg", FALSE)>>
        BY <3>3, TearSteps
      <4>2. ~word'.ie /\ TearingDown'
        BY <3>3, <4>1, <1>4, <1>5 DEF TearingDown, Set
      <4> QED BY <4>2
    <3>4. CASE todo[1] = <<Set("edge", FALSE), Set("neg", FALSE)>> /\ ~word.ie
      <4>1. u = Set("edge", FALSE) /\ Tail(todo[1]) = <<Set("neg", FALSE)>>
        BY <3>4, TearSteps
      <4>2. ~word'.ie /\ TearingDown'
        BY <3>4, <4>1, <1>4, <1>5 DEF TearingDown, Set
      <4> QED BY <4>2
    <3>5. CASE todo[1] = <<Set("neg", FALSE)>> /\ ~word.ie
      <4>1. u = Set("neg", FALSE) /\ Tail(todo[1]) = <<>>
        BY <3>5, TearSteps
      <4> QED BY <3>5, <4>1, <1>4, <1>5 DEF Set
    <3> QED BY <2>2, <3>1, <3>2, <3>3, <3>4, <3>5 DEF TearingDown
  <2> QED BY <1>1, <2>1, <2>2 DEF Ordered
<1> QED BY <1>4, <1>6 DEF Ordered

(* A handler's write changes none of the fields. *)
LEMMA OrderedHandler ==
  ASSUME TypeInv, Ordered, NEW c \in Contexts \ {1}, Write(c) PROVE Ordered'
<1> USE DEF TypeInv, TypeOK
<1>1. mid[c] /\ todo[c] # <<>>
  BY DEF Write, CallsUnderWay
<1>2. PICK f \in {"ip", "pcs"}, v \in BOOLEAN : todo[c] = <<Set(f, v)>>
  BY <1>1 DEF Ordered
<1>3. Head(todo[c]) = Set(f, v) /\ Tail(todo[c]) = <<>> /\ Set(f, v).field = f
  BY <1>2 DEF Set
<1>4. Head(todo[c]) \in Updates
  BY <1>1, NextUpdate
<1>5. \A g \in SetupFields : word'[g] = word[g]
  <2>1. word' = Updated(held[c], Set(f, v))
    BY <1>3 DEF Write
  <2>2. \A g \in SetupFields : g # f
    BY DEF SetupFields
  <2>3. \A g \in SetupFields : held[c][g] = word[g]
    BY <1>1 DEF Ordered
  <2> QED BY <1>3, <1>4, <2>1, <2>2, <2>3, UpdatedFields
        DEF SetupFields, ConfigFields
<1>6. todo' = [todo EXCEPT ![c] = <<>>] /\ todo'[1] = todo[1]
  <2>1. todo' = [todo EXCEPT ![c] = Tail(todo[c])]
    BY DEF Write
  <2>2. 1 \in Contexts
    BY ClicAssumption DEF ClicAssumption, Contexts
  <2> QED BY <1>3, <2>1, <2>2
<1>7. \A d \in Contexts : mid'[d] => mid[d] /\ held'[d] = held[d]
  BY DEF Write
<1>8. /\ word'.ie = word.ie /\ word'.edge = word.edge
      /\ word'.neg = word.neg /\ word'.shv = word.shv
  BY <1>5 DEF SetupFields
<1>9. (SettingUp => SettingUp') /\ (TearingDown => TearingDown')
  BY <1>6, <1>8 DEF SettingUp, TearingDown
<1>10. (word.ie => word.edge /\ ~word.neg /\ word.shv)'
  BY <1>8 DEF Ordered
<1>11. (todo[1] = <<>> \/ SettingUp \/ TearingDown)'
  BY <1>6, <1>9 DEF Ordered
<1>12. \A d \in Contexts \ {1} :
         todo'[d] # <<>> =>
           \E g \in {"ip", "pcs"}, w \in BOOLEAN : todo'[d] = <<Set(g, w)>>
  <2> SUFFICES ASSUME NEW d \in Contexts \ {1}, todo'[d] # <<>>
               PROVE  todo'[d] = todo[d]
    BY DEF Ordered
  <2> QED BY <1>6
<1>13. \A d \in Contexts : mid'[d] => \A g \in SetupFields : held'[d][g] = word'[g]
  BY <1>5, <1>7 DEF Ordered
<1> QED BY <1>10, <1>11, <1>12, <1>13 DEF Ordered

LEMMA OrderedStep ==
  ASSUME SetupAndTear, TypeInv, Ordered, [Next]_vars PROVE Ordered'
<1> USE DEF TypeInv, TypeOK
<1>1. CASE Hardware
  <2>1. UNCHANGED <<todo, mid, held>>
    BY <1>1 DEF Hardware, LineChange, Follow, Take, TakeOther
  <2> QED BY <1>1, <2>1, HardwareKeepsConfig, OrderedSame
        DEF Agree, ConfigFields, SetupFields
<1>2. ASSUME NEW c \in Contexts, Begin(c) PROVE Ordered'
  <2>1. ~mid[c]
    BY <1>2 DEF Begin, CallsUnderWay
  <2>2. UNCHANGED <<word, mid, held>>
    BY <1>2 DEF Begin
  <2>3. CASE c = 1
    <3>1. PICK call \in MainCalls : todo' = [todo EXCEPT ![1] = call]
      BY <1>2, <2>3 DEF Begin
    <3>2. todo'[1] = call /\ \A d \in Contexts \ {1} : todo'[d] = todo[d]
      BY <1>2, <2>3, <3>1
    <3>3. call = TearIrq \/ \E l \in Levels : call = SetupIrq(l)
      BY <3>1 DEF SetupAndTear
    <3>4. SettingUp' \/ TearingDown'
      BY <3>2, <3>3 DEF SettingUp, TearingDown
    <3> QED BY <2>2, <3>2, <3>4 DEF Ordered
  <2>4. CASE c # 1
    <3>1. PICK call \in IrqCalls : todo' = [todo EXCEPT ![c] = call]
      BY <1>2, <2>4 DEF Begin
    <3>2. todo'[c] = call /\ \A d \in Contexts \ {c} : todo'[d] = todo[d]
      BY <1>2, <2>4, <3>1
    <3>3. todo'[1] = todo[1]
      BY <2>4, <3>1
    <3>4. (SettingUp => SettingUp') /\ (TearingDown => TearingDown')
      BY <2>2, <3>3 DEF SettingUp, TearingDown
    <3>5. \E f \in {"ip", "pcs"}, v \in BOOLEAN : call = <<Set(f, v)>>
      BY <3>1 DEF SetupAndTear
    <3> QED BY <2>2, <2>4, <3>2, <3>3, <3>4, <3>5 DEF Ordered
  <2> QED BY <2>3, <2>4
<1>3. ASSUME NEW c \in Contexts, Read(c) PROVE Ordered'
  <2>1. UNCHANGED <<word, todo>>
    BY <1>3 DEF Read
  <2>2. (SettingUp => SettingUp') /\ (TearingDown => TearingDown')
    BY <2>1 DEF SettingUp, TearingDown
  <2> QED BY <1>3, <2>1, <2>2 DEF Read, Ordered
<1>4. ASSUME NEW c \in Contexts, Write(c) PROVE Ordered'
  BY <1>4, OrderedMain, OrderedHandler
<1>5. ASSUME NEW c \in Contexts, Return(c) PROVE Ordered'
  BY <1>5, OrderedSame DEF Return
<1>6. CASE UNCHANGED vars
  BY <1>6, OrderedSame DEF vars
<1> QED BY <1>1, <1>2, <1>3, <1>4, <1>5, <1>6 DEF Next

(* An interrupt that setup_irq and tear_irq configure is taken only with   *)
(* its configuration complete, whatever handlers come in between, because  *)
(* the enable bit is set last and cleared first.                           *)
THEOREM TakenSetUp == ASSUME SetupAndTear PROVE Spec => TakenAsSetUp
<1>1. Init => Ordered
  BY ClicAssumption DEF Init, Ordered, ResetWord, ClicAssumption, Contexts
<1>2. TypeInv /\ Ordered /\ [Next]_vars => Ordered'
  BY OrderedStep
<1>3. Ordered => (Take => word.edge /\ ~word.neg /\ word.shv)
  BY DEF Ordered, Take
<1> QED BY <1>1, <1>2, <1>3, TypeInvariant, PTL DEF Spec, TakenAsSetUp
=============================================================================
