-------------------------- MODULE ConsoleFormatProofs --------------------------
(***************************************************************************)
(* What is printed is sent well: characters on the wire have the frame and *)
(* the rate that the other end expects, whatever the program of            *)
(* ConsolePrograms, the clock settings, the characters typed and the       *)
(* faults.                                                                 *)
(*                                                                         *)
(* The first part says which operations of a program initialise the UART,  *)
(* and that what comes behind them cannot undo it.                         *)
(*                                                                         *)
(* The second part is about the contexts of the core.  Each one is at some *)
(* stage of the eleven operations of the initialisation (Stage, StageInv); *)
(* the stage says what the registers hold (Known, RateInv), and CountInv   *)
(* counts what listen of uart_irq may garble.  MinimalInv does the same    *)
(* for rust_minimal, which initialises in its own way.                     *)
(***************************************************************************)
EXTENDS ConsoleProofs

(* The operations of each program by their position: first those that      *)
(* initialise the UART, then what cannot undo it.                          *)

(* What may come behind the initialisation. *)
Early ==
  {"divisor", "divisor_lo", "divisor_hi", "read_lcr", "write_lcr", "clear_fifos",
   "divide", "skip_if_init"}

Late(o) ==
  /\ o.op \notin Early
  /\ o.op = "write" => o.reg = "thr"
  /\ o.op = "set" => o.var # "is_init"

Calm(s) == IsSeq(s) /\ \A n \in 1 .. Len(s) : Late(s[n])

(* It begins with h, and from behind h it does not go back there. *)
Beyond(o, n) ==
  /\ Late(o)
  /\ o.op = "back" => o.by \in Nat /\ n - o.by >= 1
  /\ o.op = "wfi" => n - 1 >= 1

Starts(s, h) ==
  /\ IsSeq(s) /\ IsSeq(h) /\ Len(h) <= Len(s)
  /\ \A n \in 1 .. Len(s) :
       IF n <= Len(h) THEN s[n] = h[n] ELSE Beyond(s[n], n - Len(h))

LEMMA CalmOne == ASSUME NEW o, Late(o) PROVE Calm(<<o>>)
<1>1. PICK s : s = <<o>>
  OBVIOUS
<1>2. IsSeq(s) /\ Len(s) = 1 /\ s[1] = o
  BY <1>1, OneOp
<1>3. \A n \in 1 .. Len(s) : n = 1
  BY <1>2
<1>4. Calm(s)
  BY <1>2, <1>3 DEF Calm
<1> QED BY <1>1, <1>4

LEMMA CalmJoin == ASSUME NEW a, NEW b, Calm(a), Calm(b) PROVE Calm(a \o b)
<1>1. PICK s : s = a \o b
  OBVIOUS
<1>2. PICK la : la = Len(a)
  OBVIOUS
<1>3. PICK lb : lb = Len(b)
  OBVIOUS
<1>4. /\ IsSeq(s) /\ la \in Nat /\ lb \in Nat /\ Len(s) = la + lb
      /\ \A n \in 1 .. la : s[n] = a[n]
      /\ \A n \in la + 1 .. la + lb : s[n] = b[n - la]
  BY <1>1, <1>2, <1>3, Joined DEF Calm
<1>5. ASSUME NEW n \in 1 .. la + lb PROVE Late(s[n])
  <2>1. CASE n \in 1 .. la
    BY <2>1, <1>2, <1>4 DEF Calm
  <2>2. CASE n \in la + 1 .. la + lb
    <3>1. n - la \in 1 .. lb
      BY <2>2, <1>4
    <3> QED BY <2>2, <3>1, <1>3, <1>4 DEF Calm
  <2> QED BY <2>1, <2>2, <1>4
<1>6. Calm(s)
  BY <1>4, <1>5 DEF Calm
<1> QED BY <1>1, <1>6

LEMMA CalmFlatten ==
  ASSUME NEW q, q = [k \in 1 .. 4 |-> q[k]], \A k \in 1 .. 4 : Calm(q[k])
  PROVE  Calm(FlattenSeq(q))
<1>1. Calm(q[1]) /\ Calm(q[2]) /\ Calm(q[3]) /\ Calm(q[4])
  OBVIOUS
<1>2. Calm(((q[1] \o q[2]) \o q[3]) \o q[4])
  BY <1>1, CalmJoin
<1> QED BY <1>2, FlattenFour

LEMMA CalmForever == ASSUME NEW b, Calm(b) PROVE Calm(Forever(b))
<1>1. PICK o : o = [op |-> "back", by |-> Len(b)]
  OBVIOUS
<1>2. Late(o)
  BY <1>1 DEF Late, Early
<1> QED BY <1>1, <1>2, CalmOne, CalmJoin DEF Forever, GoBack

LEMMA CalmOps ==
  /\ \A o : o \notin Early \cup {"write", "set"} => Calm(Do(o))
  /\ \A c : Calm(Put(c))
  /\ \A v, x : v # "is_init" => Calm(Set(v, x))
  /\ \A x : Calm(Alarm(x)) /\ Calm(Enable(x))
  /\ \A i, x : Calm(SetIrq(i, x))
  /\ \A v, x : Calm(SleepUntil(v, x)) /\ Calm(Break(v, x))
  /\ \A r, h, m : Calm(Modify(r, h, m))
<1>1. ASSUME NEW o, o \notin Early \cup {"write", "set"} PROVE Calm(Do(o))
  <2>1. PICK p : p = [op |-> o]
    OBVIOUS
  <2>2. Late(p)
    BY <1>1, <2>1 DEF Late
  <2> QED BY <2>1, <2>2, CalmOne DEF Do
<1>2. ASSUME NEW c PROVE Calm(Put(c))
  <2>1. PICK p : p = [op |-> "write", reg |-> "thr", val |-> c]
    OBVIOUS
  <2>2. Late(p)
    BY <2>1 DEF Late, Early
  <2>3. Calm(Write("thr", c))
    BY <2>1, <2>2, CalmOne DEF Write
  <2>4. Calm(Do("poll_empty"))
    BY <1>1 DEF Early
  <2> QED BY <2>3, <2>4, CalmJoin DEF Put
<1>3. ASSUME NEW v, NEW x, v # "is_init" PROVE Calm(Set(v, x))
  <2>1. PICK p : p = [op |-> "set", var |-> v, to |-> x]
    OBVIOUS
  <2>2. Late(p)
    BY <1>3, <2>1 DEF Late, Early
  <2> QED BY <2>1, <2>2, CalmOne DEF Set
<1>4. ASSUME NEW x PROVE Calm(Alarm(x)) /\ Calm(Enable(x))
  <2>1. PICK p : p = [op |-> "alarm", to |-> x]
    OBVIOUS
  <2>2. PICK r : r = [op |-> "mie", to |-> x]
    OBVIOUS
  <2>3. Late(p) /\ Late(r)
    BY <2>1, <2>2 DEF Late, Early
  <2> QED BY <2>1, <2>2, <2>3, CalmOne DEF Alarm, Enable
<1>5. ASSUME NEW i, NEW x PROVE Calm(SetIrq(i, x))
  <2>1. PICK p : p = [op |-> "irq", irq |-> i, to |-> x]
    OBVIOUS
  <2>2. Late(p)
    BY <2>1 DEF Late, Early
  <2> QED BY <2>1, <2>2, CalmOne DEF SetIrq
<1>6. ASSUME NEW v, NEW x PROVE Calm(SleepUntil(v, x)) /\ Calm(Break(v, x))
  <2>1. PICK p : p = [op |-> "until", var |-> v, is |-> x]
    OBVIOUS
  <2>2. PICK r : r = [op |-> "break", var |-> v, is |-> x]
    OBVIOUS
  <2>3. Late(p) /\ Late(r)
    BY <2>1, <2>2 DEF Late, Early
  <2>4. Calm(Do("wfi"))
    BY <1>1 DEF Early
  <2> QED BY <2>1, <2>2, <2>3, <2>4, CalmOne, CalmJoin DEF SleepUntil, Break
<1>7. ASSUME NEW r, NEW h, NEW m PROVE Calm(Modify(r, h, m))
  <2>1. PICK o : o = [op |-> "read_gpio", reg |-> r]
    OBVIOUS
  <2>2. PICK p : p = [op |-> "write_gpio", reg |-> r, how |-> h, mask |-> m]
    OBVIOUS
  <2>3. Modify(r, h, m) = <<o>> \o <<p>>
    BY <2>1, <2>2 DEF Modify
  <2>4. Late(o) /\ Late(p)
    BY <2>1, <2>2 DEF Late, Early
  <2> QED BY <2>3, <2>4, CalmOne, CalmJoin
<1> QED BY <1>1, <1>2, <1>3, <1>4, <1>5, <1>6, <1>7

LEMMA CalmLeds ==
  /\ \A l : Calm(Outputs(l)) /\ Calm(LedOn(l)) /\ Calm(LedOff(l)) /\ Calm(LedToggle(l))
  /\ \A l, on : Calm(LedSet(l, on))
  /\ Calm(AllOn) /\ Calm(AllOff)
  /\ \A a, b, c, d : Calm(Chase(<<a, b, c, d>>))
<1>1. \A l : Calm(Outputs(l))
  BY CalmOps, CalmJoin DEF Outputs
<1>2. \A l : Calm(LedOn(l)) /\ Calm(LedOff(l)) /\ Calm(LedToggle(l))
  BY <1>1, CalmOps, CalmJoin DEF LedOn, LedOff, LedToggle
<1>3. Calm(AllOn)
  <2>1. PICK q : q = [k \in 1 .. 4 |-> LedOn(<<0, 1, 2, 3>>[k])]
    OBVIOUS
  <2>2. AllOn = FlattenSeq(q)
    BY <2>1 DEF AllOn, ForEach
  <2>3. q = [k \in 1 .. 4 |-> q[k]] /\ \A k \in 1 .. 4 : Calm(q[k])
    BY <2>1, <1>2
  <2> QED BY <2>2, <2>3, CalmFlatten
<1>4. Calm(AllOff)
  <2>1. PICK q : q = [k \in 1 .. 4 |-> LedOff(<<0, 1, 2, 3>>[k])]
    OBVIOUS
  <2>2. AllOff = FlattenSeq(q)
    BY <2>1 DEF AllOff, ForEach
  <2>3. q = [k \in 1 .. 4 |-> q[k]] /\ \A k \in 1 .. 4 : Calm(q[k])
    BY <2>1, <1>2
  <2> QED BY <2>2, <2>3, CalmFlatten
<1>5. ASSUME NEW a, NEW b, NEW c, NEW d PROVE Calm(Chase(<<a, b, c, d>>))
  <2>1. PICK p : p = <<a, b, c, d>>
    OBVIOUS
  <2>2. PICK q : q = [k \in 1 .. 4 |-> LedOff(p[k][1]) \o LedOn(p[k][2])]
    OBVIOUS
  <2>3. DOMAIN p = 1 .. 4
    BY <2>1
  <2>4. Chase(p) = FlattenSeq(q)
    BY <2>2, <2>3 DEF Chase, ForEach
  <2>5. q = [k \in 1 .. 4 |-> q[k]] /\ \A k \in 1 .. 4 : Calm(q[k])
    BY <2>2, <1>2, CalmJoin
  <2> QED BY <2>1, <2>4, <2>5, CalmFlatten
<1> QED BY <1>1, <1>2, <1>3, <1>4, <1>5 DEF LedSet

LEMMA CalmPieces ==
  /\ Calm(Line) /\ Calm(MayFault) /\ Calm(GetChar) /\ Calm(PutChar)
  /\ \A t : /\ Calm(SignalPass(t)) /\ Calm(SignalFail(t)) /\ Calm(PanicMessage(t))
            /\ Calm(Blinky(t))
  /\ Calm(WaitOnLock) /\ Calm(LockHandler) /\ Calm(UartHandler)
  /\ \A code : LET Show(l) == LedSet(l, l \in code)
               IN  Calm(Forever(ForEach(<<0, 1, 2, 3>>, Show) \o AllOff))
<1>1. Calm(Line) /\ Calm(MayFault)
  BY CalmOps DEF Line, MayFault, Early
<1>2. Calm(GetChar) /\ Calm(PutChar)
  <2>1. /\ Calm(Do("poll_data")) /\ Calm(Do("read"))
        /\ Calm(Do("poll_empty")) /\ Calm(Do("write_acc"))
    BY CalmOps DEF Early
  <2> QED BY <2>1, CalmJoin DEF GetChar, PutChar
<1>3. Calm(OkBlink) /\ Calm(FailBlink) /\ Calm(BlinkPanic)
  <2>1. Calm(LedOn(0) \o LedOn(1) \o LedOff(0) \o LedOff(1))
    BY CalmLeds, CalmJoin
  <2>2. Calm(OkBlink)
    BY <2>1, CalmLeds, CalmJoin, CalmForever DEF OkBlink
  <2> QED BY <2>2, CalmLeds, CalmJoin, CalmForever DEF FailBlink, BlinkPanic
<1>4. Calm(Set("tb", "ok")) /\ Calm(Set("tb", "fail")) /\ Calm(Set("locked", FALSE))
  BY CalmOps
<1>5. ASSUME NEW t
      PROVE  /\ Calm(SignalPass(t)) /\ Calm(SignalFail(t)) /\ Calm(PanicMessage(t))
             /\ Calm(Blinky(t))
  <2>1. Calm(SignalPass(t)) /\ Calm(SignalFail(t))
    BY <1>1, <1>3, <1>4, CalmOps, CalmJoin DEF SignalPass, SignalFail, Signal
  <2>2. Calm(PanicMessage(t))
    BY <1>1, <1>3, <1>4, CalmOps, CalmJoin DEF PanicMessage
  <2>3. Calm(Blinky(t))
    BY CalmLeds, CalmForever DEF Blinky
  <2> QED BY <2>1, <2>2, <2>3
<1>6. Calm(WaitOnLock)
  <2>1. \A l, m : Calm((Break("locked", FALSE) \o LedOff(l)) \o LedOn(m))
    BY CalmOps, CalmLeds, CalmJoin
  <2>2. PICK a : a = (Break("locked", FALSE) \o LedOff(3)) \o LedOn(2)
    OBVIOUS
  <2>3. PICK b : b = (Break("locked", FALSE) \o LedOff(2)) \o LedOn(3)
    OBVIOUS
  <2>4. Calm(Forever(a \o b))
    BY <2>1, <2>2, <2>3, CalmJoin, CalmForever
  <2>5. WaitOnLock = Forever(a \o b)
    BY <2>2, <2>3 DEF WaitOnLock
  <2> QED BY <2>4, <2>5
<1>7. Calm(LockHandler) /\ Calm(UartHandler)
  <2>1. Calm(Do("unpend")) /\ Calm(Do("quit_if_q"))
    BY CalmOps DEF Early
  <2>2. Calm(LockHandler)
    BY <2>1, <1>4, CalmLeds, CalmJoin DEF LockHandler
  <2> QED BY <2>1, <2>2, <1>1, <1>2, CalmJoin DEF UartHandler
<1>8. ASSUME NEW code
      PROVE  LET Show(l) == LedSet(l, l \in code)
             IN  Calm(Forever(ForEach(<<0, 1, 2, 3>>, Show) \o AllOff))
  <2>1. PICK q : q = [k \in 1 .. 4 |->
                        LedSet(<<0, 1, 2, 3>>[k], <<0, 1, 2, 3>>[k] \in code)]
    OBVIOUS
  <2>2. q = [k \in 1 .. 4 |-> q[k]] /\ \A k \in 1 .. 4 : Calm(q[k])
    BY <2>1, CalmLeds
  <2>3. Calm(FlattenSeq(q))
    BY <2>2, CalmFlatten
  <2>4. Calm(Forever(FlattenSeq(q) \o AllOff))
    BY <2>3, CalmLeds, CalmJoin, CalmForever
  <2>5. q = [k \in DOMAIN <<0, 1, 2, 3>> |->
               LedSet(<<0, 1, 2, 3>>[k], <<0, 1, 2, 3>>[k] \in code)]
    BY <2>1
  <2> QED BY <2>4, <2>5, Zenon DEF ForEach
<1> QED BY <1>1, <1>2, <1>5, <1>6, <1>7, <1>8

LEMMA StartsSelf == ASSUME NEW h, IsSeq(h) PROVE Starts(h, h)
<1>1. Len(h) \in Nat
  BY Joined
<1> QED BY <1>1 DEF Starts

LEMMA StartsJoin ==
  ASSUME NEW a, NEW b, NEW h, NEW K, Starts(a, h), Text(b, K), Calm(b)
  PROVE  Starts(a \o b, h)
<1>1. PICK s : s = a \o b
  OBVIOUS
<1>2. PICK la : la = Len(a)
  OBVIOUS
<1>3. PICK lb : lb = Len(b)
  OBVIOUS
<1>4. /\ IsSeq(s) /\ la \in Nat /\ lb \in Nat /\ Len(s) = la + lb
      /\ \A n \in 1 .. la : s[n] = a[n]
      /\ \A n \in la + 1 .. la + lb : s[n] = b[n - la]
  BY <1>1, <1>2, <1>3, Joined DEF Starts, Calm
<1>5. PICK i : i = Len(h)
  OBVIOUS
<1>6. i \in Nat /\ i <= la /\ IsSeq(h)
  BY <1>2, <1>5, Joined DEF Starts
<1>7. ASSUME NEW n \in 1 .. la + lb
      PROVE  IF n <= i THEN s[n] = h[n] ELSE Beyond(s[n], n - i)
  <2>1. CASE n \in 1 .. la
    BY <2>1, <1>2, <1>4, <1>5 DEF Starts
  <2>2. CASE n \in la + 1 .. la + lb
    <3>1. PICK m : m = n - la
      OBVIOUS
    <3>2. m \in 1 .. lb /\ ~(n <= i) /\ s[n] = b[m] /\ n - i = m + (la - i) /\ m \in Int
      BY <2>2, <3>1, <1>4, <1>6
    <3>3. Late(b[m]) /\ Jumps(b, m)
      BY <3>2, <1>3 DEF Calm, Text, Part
    <3>4. b[m].op = "back" => b[m].by \in Nat /\ m - b[m].by >= 1
      BY <3>3 DEF Jumps, Lands
    <3>5. b[m].op = "wfi" => m - 1 >= 1
      BY <3>3 DEF Jumps, Lands
    <3>6. la - i \in Nat
      BY <1>4, <1>6
    <3>7. b[m].op = "back" => b[m].by \in Nat /\ (n - i) - b[m].by >= 1
      BY <3>2, <3>4, <3>6
    <3>8. b[m].op = "wfi" => (n - i) - 1 >= 1
      BY <3>2, <3>5, <3>6
    <3> QED BY <3>2, <3>3, <3>7, <3>8 DEF Beyond
  <2> QED BY <2>1, <2>2, <1>4
<1>8. Starts(s, h)
  BY <1>4, <1>5, <1>6, <1>7 DEF Starts
<1> QED BY <1>1, <1>8

(* In front of both. *)
LEMMA StartsBehind ==
  ASSUME NEW p, IsSeq(p), NEW s, NEW h, Starts(s, h)
  PROVE  Starts(p \o s, p \o h)
<1>1. PICK lp : lp = Len(p)
  OBVIOUS
<1>2. PICK ls : ls = Len(s)
  OBVIOUS
<1>3. PICK lh : lh = Len(h)
  OBVIOUS
<1>4. PICK a : a = p \o s
  OBVIOUS
<1>5. PICK b : b = p \o h
  OBVIOUS
<1>6. /\ IsSeq(a) /\ lp \in Nat /\ ls \in Nat /\ Len(a) = lp + ls
      /\ \A n \in 1 .. lp : a[n] = p[n]
      /\ \A n \in lp + 1 .. lp + ls : a[n] = s[n - lp]
  BY <1>1, <1>2, <1>4, Joined DEF Starts
<1>7. /\ IsSeq(b) /\ lh \in Nat /\ Len(b) = lp + lh
      /\ \A n \in 1 .. lp : b[n] = p[n]
      /\ \A n \in lp + 1 .. lp + lh : b[n] = h[n - lp]
  BY <1>1, <1>3, <1>5, Joined DEF Starts
<1>8. lh <= ls
  BY <1>2, <1>3 DEF Starts
<1>9. ASSUME NEW n \in 1 .. lp + ls
      PROVE  IF n <= lp + lh THEN a[n] = b[n] ELSE Beyond(a[n], n - (lp + lh))
  <2>1. CASE n \in 1 .. lp
    BY <2>1, <1>6, <1>7
  <2>2. CASE n \in lp + 1 .. lp + ls
    <3>1. PICK m : m = n - lp
      OBVIOUS
    <3>2. m \in 1 .. ls /\ a[n] = s[m] /\ (n <= lp + lh <=> m <= lh)
          /\ n - (lp + lh) = m - lh
      BY <2>2, <3>1, <1>6, <1>7
    <3>3. IF m <= lh THEN s[m] = h[m] ELSE Beyond(s[m], m - lh)
      BY <3>2, <1>2, <1>3 DEF Starts
    <3>4. m <= lh => n \in lp + 1 .. lp + lh
      BY <2>2, <3>1, <3>2, <1>7
    <3> QED BY <3>1, <3>2, <3>3, <3>4, <1>7
  <2> QED BY <2>1, <2>2, <1>6
<1>10. Starts(a, b)
  BY <1>6, <1>7, <1>8, <1>9 DEF Starts
<1> QED BY <1>4, <1>5, <1>10

(* An operation more. *)
LEMMA ThenOne ==
  ASSUME NEW a, IsSeq(a), NEW o
  PROVE  /\ IsSeq(a \o <<o>>) /\ Len(a \o <<o>>) = Len(a) + 1
         /\ (a \o <<o>>)[Len(a) + 1] = o
         /\ \A k \in 1 .. Len(a) : (a \o <<o>>)[k] = a[k]
<1>1. PICK b : b = <<o>>
  OBVIOUS
<1>2. IsSeq(b)
  BY <1>1, OneOp
<1>3. Len(b) = 1 /\ b[1] = o
  BY <1>1, OneOp
<1>4. PICK l : l = Len(b)
  OBVIOUS
<1>5. PICK la : la = Len(a)
  OBVIOUS
<1>6. PICK s : s = a \o b
  OBVIOUS
<1>7. /\ IsSeq(s) /\ Len(s) = la + l
      /\ \A k \in 1 .. la : s[k] = a[k]
      /\ \A k \in 1 .. l : s[la + k] = b[k]
  BY <1>2, <1>4, <1>5, <1>6, Joined
<1>8. l = 1 /\ 1 \in 1 .. l
  BY <1>3, <1>4
<1>9. IsSeq(s) /\ Len(s) = la + 1 /\ s[la + 1] = o /\ \A k \in 1 .. la : s[k] = a[k]
  BY <1>3, <1>7, <1>8
<1> QED BY <1>1, <1>5, <1>6, <1>9

LEMMA ThenTwo ==
  ASSUME NEW a, IsSeq(a), NEW o, NEW p
  PROVE  a \o (<<o>> \o <<p>>) = (a \o <<o>>) \o <<p>>
<1>1. PICK b : b = <<o>>
  OBVIOUS
<1>2. PICK c : c = <<p>>
  OBVIOUS
<1>3. IsSeq(b) /\ IsSeq(c)
  BY <1>1, <1>2, OneOp
<1> QED BY <1>1, <1>2, <1>3, Associative

(* The initialisation, operation by operation. *)
LEMMA InitList ==
  /\ IsSeq(InitUart) /\ Len(InitUart) = 11
  /\ InitUart[1] = [op |-> "divisor", by |-> "register"]
  /\ InitUart[2] = [op |-> "write", reg |-> "ier_dlm", val |-> 0]
  /\ InitUart[3] = [op |-> "read_lcr"]
  /\ InitUart[4] = [op |-> "write_lcr", how |-> "dlab_on"]
  /\ InitUart[5] = [op |-> "divisor_lo"]
  /\ InitUart[6] = [op |-> "divisor_hi"]
  /\ InitUart[7] = [op |-> "write_lcr", how |-> "bits8"]
  /\ InitUart[8] = [op |-> "read_lcr"]
  /\ InitUart[9] = [op |-> "write_lcr", how |-> "dlab_off"]
  /\ InitUart[10] = [op |-> "clear_fifos"]
  /\ InitUart[11] = [op |-> "set", var |-> "is_init", to |-> TRUE]
<1>1. PICK o1 : o1 = [op |-> "divisor", by |-> "register"]
  OBVIOUS
<1>2. PICK o2 : o2 = [op |-> "write", reg |-> "ier_dlm", val |-> 0]
  OBVIOUS
<1>3. PICK o3 : o3 = [op |-> "read_lcr"]
  OBVIOUS
<1>4. PICK o4 : o4 = [op |-> "write_lcr", how |-> "dlab_on"]
  OBVIOUS
<1>5. PICK o5 : o5 = [op |-> "divisor_lo"]
  OBVIOUS
<1>6. PICK o6 : o6 = [op |-> "divisor_hi"]
  OBVIOUS
<1>7. PICK o7 : o7 = [op |-> "write_lcr", how |-> "bits8"]
  OBVIOUS
<1>8. PICK o8 : o8 = [op |-> "read_lcr"]
  OBVIOUS
<1>9. PICK o9 : o9 = [op |-> "write_lcr", how |-> "dlab_off"]
  OBVIOUS
<1>10. PICK o10 : o10 = [op |-> "clear_fifos"]
  OBVIOUS
<1>11. PICK o11 : o11 = [op |-> "set", var |-> "is_init", to |-> TRUE]
  OBVIOUS
<1>12. PICK s1 : s1 = <<o1>>
  OBVIOUS
<1>13. IsSeq(s1)
  BY <1>12, OneOp
<1>14. Len(s1) = 1 /\ s1[1] = o1
  BY <1>12, OneOp
<1>15. PICK s2 : s2 = s1 \o <<o2>>
  OBVIOUS
<1>16. /\ IsSeq(s2) /\ Len(s2) = Len(s1) + 1 /\ s2[Len(s1) + 1] = o2
      /\ \A k \in 1 .. Len(s1) : s2[k] = s1[k]
  BY <1>15, <1>13, ThenOne, Zenon
<1>17. IsSeq(s2)
  BY <1>16
<1>18. /\ Len(s2) = 2
      /\ s2[1] = o1 /\ s2[2] = o2
  BY <1>16, <1>14
<1>19. PICK s3 : s3 = s2 \o <<o3>>
  OBVIOUS
<1>20. /\ IsSeq(s3) /\ Len(s3) = Len(s2) + 1 /\ s3[Len(s2) + 1] = o3
      /\ \A k \in 1 .. Len(s2) : s3[k] = s2[k]
  BY <1>19, <1>17, ThenOne, Zenon
<1>21. IsSeq(s3)
  BY <1>20
<1>22. /\ Len(s3) = 3
      /\ s3[1] = o1 /\ s3[2] = o2 /\ s3[3] = o3
  BY <1>20, <1>18
<1>23. PICK s4 : s4 = s3 \o <<o4>>
  OBVIOUS
<1>24. /\ IsSeq(s4) /\ Len(s4) = Len(s3) + 1 /\ s4[Len(s3) + 1] = o4
      /\ \A k \in 1 .. Len(s3) : s4[k] = s3[k]
  BY <1>23, <1>21, ThenOne, Zenon
<1>25. IsSeq(s4)
  BY <1>24
<1>26. /\ Len(s4) = 4
      /\ s4[1] = o1 /\ s4[2] = o2 /\ s4[3] = o3 /\ s4[4] = o4
  BY <1>24, <1>22
<1>27. PICK s5 : s5 = s4 \o <<o5>>
  OBVIOUS
<1>28. /\ IsSeq(s5) /\ Len(s5) = Len(s4) + 1 /\ s5[Len(s4) + 1] = o5
      /\ \A k \in 1 .. Len(s4) : s5[k] = s4[k]
  BY <1>27, <1>25, ThenOne, Zenon
<1>29. IsSeq(s5)
  BY <1>28
<1>30. /\ Len(s5) = 5
      /\ s5[1] = o1 /\ s5[2] = o2 /\ s5[3] = o3 /\ s5[4] = o4 /\ s5[5] = o5
  BY <1>28, <1>26
<1>31. PICK s6 : s6 = s5 \o <<o6>>
  OBVIOUS
<1>32. /\ IsSeq(s6) /\ Len(s6) = Len(s5) + 1 /\ s6[Len(s5) + 1] = o6
      /\ \A k \in 1 .. Len(s5) : s6[k] = s5[k]
  BY <1>31, <1>29, ThenOne, Zenon
<1>33. IsSeq(s6)
  BY <1>32
<1>34. /\ Len(s6) = 6
      /\ s6[1] = o1 /\ s6[2] = o2 /\ s6[3] = o3 /\ s6[4] = o4 /\ s6[5] = o5 /\ s6[6] = o6
  BY <1>32, <1>30
<1>35. PICK s7 : s7 = s6 \o <<o7>>
  OBVIOUS
<1>36. /\ IsSeq(s7) /\ Len(s7) = Len(s6) + 1 /\ s7[Len(s6) + 1] = o7
      /\ \A k \in 1 .. Len(s6) : s7[k] = s6[k]
  BY <1>35, <1>33, ThenOne, Zenon
<1>37. IsSeq(s7)
  BY <1>36
<1>38. /\ Len(s7) = 7
      /\ s7[1] = o1 /\ s7[2] = o2 /\ s7[3] = o3 /\ s7[4] = o4 /\ s7[5] = o5
      /\ s7[6] = o6 /\ s7[7] = o7
  BY <1>36, <1>34
<1>39. PICK s8 : s8 = s7 \o <<o8>>
  OBVIOUS
<1>40. /\ IsSeq(s8) /\ Len(s8) = Len(s7) + 1 /\ s8[Len(s7) + 1] = o8
      /\ \A k \in 1 .. Len(s7) : s8[k] = s7[k]
  BY <1>39, <1>37, ThenOne, Zenon
<1>41. IsSeq(s8)
  BY <1>40
<1>42. /\ Len(s8) = 8
      /\ s8[1] = o1 /\ s8[2] = o2 /\ s8[3] = o3 /\ s8[4] = o4 /\ s8[5] = o5
      /\ s8[6] = o6 /\ s8[7] = o7 /\ s8[8] = o8
  BY <1>40, <1>38
<1>43. PICK s9 : s9 = s8 \o <<o9>>
  OBVIOUS
<1>44. /\ IsSeq(s9) /\ Len(s9) = Len(s8) + 1 /\ s9[Len(s8) + 1] = o9
      /\ \A k \in 1 .. Len(s8) : s9[k] = s8[k]
  BY <1>43, <1>41, ThenOne, Zenon
<1>45. IsSeq(s9)
  BY <1>44
<1>46. /\ Len(s9) = 9
      /\ s9[1] = o1 /\ s9[2] = o2 /\ s9[3] = o3 /\ s9[4] = o4 /\ s9[5] = o5
      /\ s9[6] = o6 /\ s9[7] = o7 /\ s9[8] = o8 /\ s9[9] = o9
  BY <1>44, <1>42
<1>47. PICK s10 : s10 = s9 \o <<o10>>
  OBVIOUS
<1>48. /\ IsSeq(s10) /\ Len(s10) = Len(s9) + 1 /\ s10[Len(s9) + 1] = o10
      /\ \A k \in 1 .. Len(s9) : s10[k] = s9[k]
  BY <1>47, <1>45, ThenOne, Zenon
<1>49. IsSeq(s10)
  BY <1>48
<1>50. /\ Len(s10) = 10
      /\ s10[1] = o1 /\ s10[2] = o2 /\ s10[3] = o3 /\ s10[4] = o4 /\ s10[5] = o5
      /\ s10[6] = o6 /\ s10[7] = o7 /\ s10[8] = o8 /\ s10[9] = o9 /\ s10[10] = o10
  BY <1>48, <1>46
<1>51. PICK s11 : s11 = s10 \o <<o11>>
  OBVIOUS
<1>52. /\ IsSeq(s11) /\ Len(s11) = Len(s10) + 1 /\ s11[Len(s10) + 1] = o11
      /\ \A k \in 1 .. Len(s10) : s11[k] = s10[k]
  BY <1>51, <1>49, ThenOne, Zenon
<1>53. IsSeq(s11)
  BY <1>52
<1>54. /\ Len(s11) = 11
      /\ s11[1] = o1 /\ s11[2] = o2 /\ s11[3] = o3 /\ s11[4] = o4 /\ s11[5] = o5
      /\ s11[6] = o6 /\ s11[7] = o7 /\ s11[8] = o8 /\ s11[9] = o9 /\ s11[10] = o10 /\ s11[11] = o11
  BY <1>52, <1>50
<1>55. s4 = s2 \o (<<o3>> \o <<o4>>)
  BY <1>19, <1>23, <1>17, ThenTwo
<1>56. s9 = s7 \o (<<o8>> \o <<o9>>)
  BY <1>39, <1>43, <1>37, ThenTwo
<1>57. s11 = InitUart
  BY <1>1, <1>2, <1>3, <1>4, <1>5, <1>6, <1>7, <1>8, <1>9, <1>10, <1>11, <1>12, <1>15, <1>27, <1>31, <1>35, <1>47, <1>51, <1>55, <1>56 DEF InitUart, Divisor, Write, ModifyLcr, Do, SetLcr, Set
<1> QED BY <1>1, <1>2, <1>3, <1>4, <1>5, <1>6, <1>7, <1>8, <1>9, <1>10, <1>11, <1>53, <1>54, <1>57

(* That of rust_minimal, and the two characters that it prints. *)
LEMMA MinimalList ==
  ASSUME NEW t
  PROVE  /\ IsSeq(Minimal(t)) /\ Len(Minimal(t)) = 11
         /\ Minimal(t)[1] = [op |-> "divisor", by |-> "two"]
         /\ Minimal(t)[2] = [op |-> "write", reg |-> "ier_dlm", val |-> 0]
         /\ Minimal(t)[3] = [op |-> "write_lcr", how |-> "dlab"]
         /\ Minimal(t)[4] = [op |-> "divisor_lo"]
         /\ Minimal(t)[5] = [op |-> "divisor_hi"]
         /\ Minimal(t)[6] = [op |-> "write_lcr", how |-> "bits8"]
         /\ Minimal(t)[7] = [op |-> "clear_fifos"]
         /\ Minimal(t)[8] = [op |-> "poll_empty"]
         /\ Minimal(t)[9] = [op |-> "write", reg |-> "thr", val |-> Other]
         /\ Minimal(t)[10] = [op |-> "poll_empty"]
         /\ Minimal(t)[11] = [op |-> "write", reg |-> "thr", val |-> LF]
<1>1. PICK o1 : o1 = [op |-> "divisor", by |-> "two"]
  OBVIOUS
<1>2. PICK o2 : o2 = [op |-> "write", reg |-> "ier_dlm", val |-> 0]
  OBVIOUS
<1>3. PICK o3 : o3 = [op |-> "write_lcr", how |-> "dlab"]
  OBVIOUS
<1>4. PICK o4 : o4 = [op |-> "divisor_lo"]
  OBVIOUS
<1>5. PICK o5 : o5 = [op |-> "divisor_hi"]
  OBVIOUS
<1>6. PICK o6 : o6 = [op |-> "write_lcr", how |-> "bits8"]
  OBVIOUS
<1>7. PICK o7 : o7 = [op |-> "clear_fifos"]
  OBVIOUS
<1>8. PICK o8 : o8 = [op |-> "poll_empty"]
  OBVIOUS
<1>9. PICK o9 : o9 = [op |-> "write", reg |-> "thr", val |-> Other]
  OBVIOUS
<1>10. PICK o10 : o10 = [op |-> "poll_empty"]
  OBVIOUS
<1>11. PICK o11 : o11 = [op |-> "write", reg |-> "thr", val |-> LF]
  OBVIOUS
<1>12. PICK s1 : s1 = <<o1>>
  OBVIOUS
<1>13. IsSeq(s1)
  BY <1>12, OneOp
<1>14. Len(s1) = 1 /\ s1[1] = o1
  BY <1>12, OneOp
<1>15. PICK s2 : s2 = s1 \o <<o2>>
  OBVIOUS
<1>16. /\ IsSeq(s2) /\ Len(s2) = Len(s1) + 1 /\ s2[Len(s1) + 1] = o2
      /\ \A k \in 1 .. Len(s1) : s2[k] = s1[k]
  BY <1>15, <1>13, ThenOne, Zenon
<1>17. IsSeq(s2)
  BY <1>16
<1>18. /\ Len(s2) = 2
      /\ s2[1] = o1 /\ s2[2] = o2
  BY <1>16, <1>14
<1>19. PICK s3 : s3 = s2 \o <<o3>>
  OBVIOUS
<1>20. /\ IsSeq(s3) /\ Len(s3) = Len(s2) + 1 /\ s3[Len(s2) + 1] = o3
      /\ \A k \in 1 .. Len(s2) : s3[k] = s2[k]
  BY <1>19, <1>17, ThenOne, Zenon
<1>21. IsSeq(s3)
  BY <1>20
<1>22. /\ Len(s3) = 3
      /\ s3[1] = o1 /\ s3[2] = o2 /\ s3[3] = o3
  BY <1>20, <1>18
<1>23. PICK s4 : s4 = s3 \o <<o4>>
  OBVIOUS
<1>24. /\ IsSeq(s4) /\ Len(s4) = Len(s3) + 1 /\ s4[Len(s3) + 1] = o4
      /\ \A k \in 1 .. Len(s3) : s4[k] = s3[k]
  BY <1>23, <1>21, ThenOne, Zenon
<1>25. IsSeq(s4)
  BY <1>24
<1>26. /\ Len(s4) = 4
      /\ s4[1] = o1 /\ s4[2] = o2 /\ s4[3] = o3 /\ s4[4] = o4
  BY <1>24, <1>22
<1>27. PICK s5 : s5 = s4 \o <<o5>>
  OBVIOUS
<1>28. /\ IsSeq(s5) /\ Len(s5) = Len(s4) + 1 /\ s5[Len(s4) + 1] = o5
      /\ \A k \in 1 .. Len(s4) : s5[k] = s4[k]
  BY <1>27, <1>25, ThenOne, Zenon
<1>29. IsSeq(s5)
  BY <1>28
<1>30. /\ Len(s5) = 5
      /\ s5[1] = o1 /\ s5[2] = o2 /\ s5[3] = o3 /\ s5[4] = o4 /\ s5[5] = o5
  BY <1>28, <1>26
<1>31. PICK s6 : s6 = s5 \o <<o6>>
  OBVIOUS
<1>32. /\ IsSeq(s6) /\ Len(s6) = Len(s5) + 1 /\ s6[Len(s5) + 1] = o6
      /\ \A k \in 1 .. Len(s5) : s6[k] = s5[k]
  BY <1>31, <1>29, ThenOne, Zenon
<1>33. IsSeq(s6)
  BY <1>32
<1>34. /\ Len(s6) = 6
      /\ s6[1] = o1 /\ s6[2] = o2 /\ s6[3] = o3 /\ s6[4] = o4 /\ s6[5] = o5 /\ s6[6] = o6
  BY <1>32, <1>30
<1>35. PICK s7 : s7 = s6 \o <<o7>>
  OBVIOUS
<1>36. /\ IsSeq(s7) /\ Len(s7) = Len(s6) + 1 /\ s7[Len(s6) + 1] = o7
      /\ \A k \in 1 .. Len(s6) : s7[k] = s6[k]
  BY <1>35, <1>33, ThenOne, Zenon
<1>37. IsSeq(s7)
  BY <1>36
<1>38. /\ Len(s7) = 7
      /\ s7[1] = o1 /\ s7[2] = o2 /\ s7[3] = o3 /\ s7[4] = o4 /\ s7[5] = o5
      /\ s7[6] = o6 /\ s7[7] = o7
  BY <1>36, <1>34
<1>39. PICK s8 : s8 = s7 \o <<o8>>
  OBVIOUS
<1>40. /\ IsSeq(s8) /\ Len(s8) = Len(s7) + 1 /\ s8[Len(s7) + 1] = o8
      /\ \A k \in 1 .. Len(s7) : s8[k] = s7[k]
  BY <1>39, <1>37, ThenOne, Zenon
<1>41. IsSeq(s8)
  BY <1>40
<1>42. /\ Len(s8) = 8
      /\ s8[1] = o1 /\ s8[2] = o2 /\ s8[3] = o3 /\ s8[4] = o4 /\ s8[5] = o5
      /\ s8[6] = o6 /\ s8[7] = o7 /\ s8[8] = o8
  BY <1>40, <1>38
<1>43. PICK s9 : s9 = s8 \o <<o9>>
  OBVIOUS
<1>44. /\ IsSeq(s9) /\ Len(s9) = Len(s8) + 1 /\ s9[Len(s8) + 1] = o9
      /\ \A k \in 1 .. Len(s8) : s9[k] = s8[k]
  BY <1>43, <1>41, ThenOne, Zenon
<1>45. IsSeq(s9)
  BY <1>44
<1>46. /\ Len(s9) = 9
      /\ s9[1] = o1 /\ s9[2] = o2 /\ s9[3] = o3 /\ s9[4] = o4 /\ s9[5] = o5
      /\ s9[6] = o6 /\ s9[7] = o7 /\ s9[8] = o8 /\ s9[9] = o9
  BY <1>44, <1>42
<1>47. PICK s10 : s10 = s9 \o <<o10>>
  OBVIOUS
<1>48. /\ IsSeq(s10) /\ Len(s10) = Len(s9) + 1 /\ s10[Len(s9) + 1] = o10
      /\ \A k \in 1 .. Len(s9) : s10[k] = s9[k]
  BY <1>47, <1>45, ThenOne, Zenon
<1>49. IsSeq(s10)
  BY <1>48
<1>50. /\ Len(s10) = 10
      /\ s10[1] = o1 /\ s10[2] = o2 /\ s10[3] = o3 /\ s10[4] = o4 /\ s10[5] = o5
      /\ s10[6] = o6 /\ s10[7] = o7 /\ s10[8] = o8 /\ s10[9] = o9 /\ s10[10] = o10
  BY <1>48, <1>46
<1>51. PICK s11 : s11 = s10 \o <<o11>>
  OBVIOUS
<1>52. /\ IsSeq(s11) /\ Len(s11) = Len(s10) + 1 /\ s11[Len(s10) + 1] = o11
      /\ \A k \in 1 .. Len(s10) : s11[k] = s10[k]
  BY <1>51, <1>49, ThenOne, Zenon
<1>53. IsSeq(s11)
  BY <1>52
<1>54. /\ Len(s11) = 11
      /\ s11[1] = o1 /\ s11[2] = o2 /\ s11[3] = o3 /\ s11[4] = o4 /\ s11[5] = o5
      /\ s11[6] = o6 /\ s11[7] = o7 /\ s11[8] = o8 /\ s11[9] = o9 /\ s11[10] = o10 /\ s11[11] = o11
  BY <1>52, <1>50
<1>55. s9 = s7 \o (<<o8>> \o <<o9>>)
  BY <1>39, <1>43, <1>37, ThenTwo
<1>56. s11 = s9 \o (<<o10>> \o <<o11>>)
  BY <1>47, <1>51, <1>45, ThenTwo
<1>57. s11 = Minimal(t)
  BY <1>1, <1>2, <1>3, <1>4, <1>5, <1>6, <1>7, <1>8, <1>9, <1>10, <1>11, <1>12, <1>15, <1>19, <1>23, <1>27, <1>31, <1>35, <1>55, <1>56 DEF Minimal, InitUartMinimal, Divisor, Write, Do, SetLcr, Put, Line
<1> QED BY <1>1, <1>2, <1>3, <1>4, <1>5, <1>6, <1>7, <1>8, <1>9, <1>10, <1>11, <1>53, <1>54, <1>57

(* Listen. *)
LEMMA ListenList ==
  /\ IsSeq(Listen(OnData)) /\ Len(Listen(OnData)) = 4
  /\ Listen(OnData)[1] = [op |-> "read_lcr"]
  /\ Listen(OnData)[2] = [op |-> "write_lcr", how |-> "only_dlab"]
  /\ Listen(OnData)[3] = [op |-> "write", reg |-> "ier_dlm", val |-> OnData]
  /\ Listen(OnData)[4] = [op |-> "write_lcr", how |-> "restore"]
<1>1. PICK o1 : o1 = [op |-> "read_lcr"]
  OBVIOUS
<1>2. PICK o2 : o2 = [op |-> "write_lcr", how |-> "only_dlab"]
  OBVIOUS
<1>3. PICK o3 : o3 = [op |-> "write", reg |-> "ier_dlm", val |-> OnData]
  OBVIOUS
<1>4. PICK o4 : o4 = [op |-> "write_lcr", how |-> "restore"]
  OBVIOUS
<1>5. PICK s1 : s1 = <<o1>>
  OBVIOUS
<1>6. IsSeq(s1)
  BY <1>5, OneOp
<1>7. Len(s1) = 1 /\ s1[1] = o1
  BY <1>5, OneOp
<1>8. PICK s2 : s2 = s1 \o <<o2>>
  OBVIOUS
<1>9. /\ IsSeq(s2) /\ Len(s2) = Len(s1) + 1 /\ s2[Len(s1) + 1] = o2
      /\ \A k \in 1 .. Len(s1) : s2[k] = s1[k]
  BY <1>8, <1>6, ThenOne, Zenon
<1>10. IsSeq(s2)
  BY <1>9
<1>11. /\ Len(s2) = 2
      /\ s2[1] = o1 /\ s2[2] = o2
  BY <1>9, <1>7
<1>12. PICK s3 : s3 = s2 \o <<o3>>
  OBVIOUS
<1>13. /\ IsSeq(s3) /\ Len(s3) = Len(s2) + 1 /\ s3[Len(s2) + 1] = o3
      /\ \A k \in 1 .. Len(s2) : s3[k] = s2[k]
  BY <1>12, <1>10, ThenOne, Zenon
<1>14. IsSeq(s3)
  BY <1>13
<1>15. /\ Len(s3) = 3
      /\ s3[1] = o1 /\ s3[2] = o2 /\ s3[3] = o3
  BY <1>13, <1>11
<1>16. PICK s4 : s4 = s3 \o <<o4>>
  OBVIOUS
<1>17. /\ IsSeq(s4) /\ Len(s4) = Len(s3) + 1 /\ s4[Len(s3) + 1] = o4
      /\ \A k \in 1 .. Len(s3) : s4[k] = s3[k]
  BY <1>16, <1>14, ThenOne, Zenon
<1>18. IsSeq(s4)
  BY <1>17
<1>19. /\ Len(s4) = 4
      /\ s4[1] = o1 /\ s4[2] = o2 /\ s4[3] = o3 /\ s4[4] = o4
  BY <1>17, <1>15
<1>20. s4 = Listen(OnData)
  BY <1>1, <1>2, <1>3, <1>4, <1>5, <1>8, <1>12, <1>16 DEF Listen, Do, SetLcr, Write
<1> QED BY <1>1, <1>2, <1>3, <1>4, <1>18, <1>19, <1>20

(* The text initialises the UART behind its first o operations, and does not *)
(* go back there.                                                            *)
Boots(s, o) ==
  /\ IsSeq(s)
  /\ \A n \in 1 .. Len(s) :
       /\ n \in o + 1 .. o + 11 => s[n] = InitUart[n - o]
       /\ n > o + 11 => Beyond(s[n], n - (o + 11))

LEMMA StartsBoots ==
  ASSUME NEW p, IsSeq(p), NEW s, Starts(s, p \o InitUart)
  PROVE  Boots(s, Len(p)) /\ Len(p) <= Len(s) /\ \A n \in 1 .. Len(p) : s[n] = p[n]
<1>1. PICK o : o = Len(p)
  OBVIOUS
<1>2. PICK h : h = p \o InitUart
  OBVIOUS
<1>3. PICK l : l = Len(InitUart)
  OBVIOUS
<1>4. IsSeq(InitUart)
  BY InitList
<1>5. /\ o \in Nat /\ l \in Nat /\ Len(h) = o + l
      /\ \A n \in 1 .. o : h[n] = p[n]
      /\ \A n \in o + 1 .. o + l : h[n] = InitUart[n - o]
  BY <1>1, <1>2, <1>3, <1>4, Joined
<1>6. l = 11
  BY <1>3, InitList
<1>7. IsSeq(s) /\ Len(h) <= Len(s) /\
      \A n \in 1 .. Len(s) :
        IF n <= Len(h) THEN s[n] = h[n] ELSE Beyond(s[n], n - Len(h))
  BY <1>2 DEF Starts
<1>8. Len(s) \in Nat
  BY <1>7, Joined
<1>9. Len(h) = o + 11 /\ o + 11 <= Len(s)
  BY <1>5, <1>6, <1>7
<1>10. ASSUME NEW n \in 1 .. Len(s)
       PROVE  /\ n \in o + 1 .. o + 11 => s[n] = InitUart[n - o]
              /\ n > o + 11 => Beyond(s[n], n - (o + 11))
  BY <1>5, <1>6, <1>7, <1>8, <1>9
<1>11. \A n \in 1 .. o : s[n] = p[n]
  BY <1>5, <1>7, <1>8, <1>9
<1> QED BY <1>1, <1>5, <1>7, <1>8, <1>9, <1>10, <1>11 DEF Boots

LEMMA StartsInit ==
  ASSUME NEW s, Starts(s, InitUart) PROVE Boots(s, 0)
<1>1. Len(InitUart) = 11
  BY InitList
<1>2. Len(s) \in Nat
  BY Joined DEF Starts
<1>3. ASSUME NEW n \in 1 .. Len(s)
      PROVE  /\ n \in 0 + 1 .. 0 + 11 => s[n] = InitUart[n - 0]
             /\ n > 0 + 11 => Beyond(s[n], n - (0 + 11))
  <2>1. IF n <= 11 THEN s[n] = InitUart[n] ELSE Beyond(s[n], n - 11)
    BY <1>1 DEF Starts
  <2>2. n \in Nat /\ n - 0 = n /\ 0 + 11 = 11
    BY <1>2
  <2> QED BY <2>1, <2>2
<1> QED BY <1>3 DEF Boots, Starts

(* The tests ... *)
LEMMA ReportBoots ==
  ASSUME NEW v, Text(v, Service), Calm(v)
  PROVE  Starts(Report(v), MayFault \o InitUart)
<1>1. PICK K : K = Service \cup {"app"}
  OBVIOUS
<1>2. PICK h : h = MayFault \o InitUart
  OBVIOUS
<1>3. IsSeq(MayFault) /\ IsSeq(InitUart)
  BY CalmPieces, InitList DEF Calm
<1>4. Starts(h, h)
  BY <1>2, <1>3, Joined, StartsSelf
<1>5. Text(MayFault, K)
  BY <1>1, DoBlock, BlockLift, BlockText DEF MayFault, Jumpers, Skips
<1>6. Text(Line, K) /\ Text(v, K)
  BY <1>1, PutText, BlockLift
<1>7. Calm(Line) /\ Calm(MayFault)
  BY CalmPieces
<1>8. Starts((((h \o Line) \o MayFault) \o Line) \o MayFault, h)
  BY <1>4, <1>5, <1>6, <1>7, StartsJoin
<1>9. Starts(((((h \o Line) \o MayFault) \o Line) \o MayFault) \o v, h)
  BY <1>6, <1>8, StartsJoin
<1> QED BY <1>2, <1>9 DEF Report

LEMMA TestTexts ==
  ASSUME NEW t
  PROVE  /\ \A v \in {SignalPass(t), SignalFail(t)} :
              Boots(Report(v), 1) /\ Report(v)[1].op = "app"
         /\ Boots(Divided(t), 2) /\ Divided(t)[1].op = "divide"
         /\ Divided(t)[2].op = "app"
<1>1. PICK a : a = [op |-> "app"]
  OBVIOUS
<1>2. MayFault = <<a>> /\ a.op = "app"
  BY <1>1 DEF MayFault, Do
<1>3. IsSeq(MayFault) /\ Len(MayFault) = 1 /\ MayFault[1] = a
  BY <1>2, OneOp
<1>4. \A v \in {SignalPass(t), SignalFail(t)} : Starts(Report(v), MayFault \o InitUart)
  BY SignalText, CalmPieces, ReportBoots
<1>5. ASSUME NEW v \in {SignalPass(t), SignalFail(t)}
      PROVE  Boots(Report(v), 1) /\ Report(v)[1].op = "app"
  <2>1. PICK s : s = Report(v)
    OBVIOUS
  <2>2. IsSeq(MayFault) /\ Starts(s, MayFault \o InitUart)
    BY <1>3, <1>4, <2>1
  <2>3. Boots(s, Len(MayFault)) /\ \A n \in 1 .. Len(MayFault) : s[n] = MayFault[n]
    BY <2>2, StartsBoots
  <2>4. 1 \in 1 .. Len(MayFault)
    BY <1>3
  <2> QED BY <1>2, <1>3, <2>1, <2>3, <2>4
<1>6. PICK d : d = [op |-> "divide"]
  OBVIOUS
<1>7. Do("divide") = <<d>> /\ d.op = "divide"
  BY <1>6 DEF Do
<1>8. PICK p : p = <<d>> \o <<a>>
  OBVIOUS
<1>9. PICK e : e = <<d>>
  OBVIOUS
<1>10. IsSeq(e)
  BY <1>9, OneOp
<1>11. IsSeq(e \o <<a>>) /\ Len(e \o <<a>>) = Len(e) + 1
       /\ (e \o <<a>>)[Len(e) + 1] = a /\ \A k \in 1 .. Len(e) : (e \o <<a>>)[k] = e[k]
  BY <1>10, ThenOne
<1>12. Len(e) = 1 /\ e[1] = d
  BY <1>9, OneOp
<1>13. IsSeq(p)
  BY <1>8, <1>9, <1>11
<1>14. Len(p) = 2 /\ p[1] = d /\ p[2] = a
  BY <1>8, <1>9, <1>11, <1>12
<1>15. Starts(Divided(t), p \o InitUart)
  <2>1. Starts(Divided(t), Do("divide") \o (MayFault \o InitUart))
    BY <1>4, <1>7, <1>9, <1>10, StartsBehind DEF Divided
  <2>2. e \o (MayFault \o InitUart) = (e \o MayFault) \o InitUart
    <3>1. IsSeq(MayFault) /\ IsSeq(InitUart)
      BY <1>3, InitList
    <3> QED BY <3>1, <1>10, Associative
  <2> QED BY <2>1, <2>2, <1>2, <1>7, <1>8, <1>9
<1>16. PICK s : s = Divided(t)
  OBVIOUS
<1>17. Boots(s, Len(p)) /\ \A n \in 1 .. Len(p) : s[n] = p[n]
  BY <1>13, <1>15, <1>16, StartsBoots
<1>18. Boots(s, 2) /\ s[1] = d /\ s[2] = a
  BY <1>14, <1>17
<1> QED BY <1>1, <1>5, <1>7, <1>16, <1>18

(* ... the other programs that print ... *)
LEMMA OtherBoots ==
  ASSUME NEW t
  PROVE  Boots(GpioBlink(t), 0) /\ Boots(UartEcho(t), 0) /\ Boots(ClicMtimerMain(t), 0)
<1>1. Starts(InitUart, InitUart)
  BY InitList, StartsSelf
<1>2. Starts(InitUart \o Line, InitUart)
  BY <1>1, PutText, CalmPieces, StartsJoin
<1>3. Starts(GpioBlink(t), InitUart)
  <2>1. Text(Modify("out", "toggle", {0}), Service)
    BY ModifyBlock, ServiceText
  <2>2. Text(Forever(Modify("out", "toggle", {0})), Service)
    BY <2>1, ServiceForever
  <2>3. Calm(Forever(Modify("out", "toggle", {0})))
    BY CalmOps, CalmForever
  <2>4. Text(Outputs({0}), Service) /\ Calm(Outputs({0}))
    BY LedText, CalmLeds
  <2>5. Starts((InitUart \o Line) \o Outputs({0}), InitUart)
    BY <1>2, <2>4, StartsJoin
  <2> QED BY <2>2, <2>3, <2>5, StartsJoin DEF GpioBlink
<1>4. Starts(UartEcho(t), InitUart)
  <2>1. PICK b : b = ((((GetChar \o PutChar) \o Do("push")) \o EchoTest) \o EchoFlush)
    OBVIOUS
  <2>2. UartEcho(t) = (InitUart \o Line) \o EchoLoop /\ EchoLoop = Forever(b)
    BY <2>1, Zenon DEF UartEcho, EchoLoop
  <2>3. Calm(EchoTest)
    <3>1. PICK o : o = [op |-> "skip_unless_done", full |-> TRUE, by |-> Len(EchoFlush)]
      OBVIOUS
    <3>2. Late(o)
      BY <3>1 DEF Late, Early
    <3> QED BY <3>1, <3>2, CalmOne DEF EchoTest
  <2>4. Calm(Do("push")) /\ Calm(Do("clear_buffer"))
    BY CalmOps DEF Early
  <2>5. Calm(EchoFlush)
    BY <2>4, CalmPieces, CalmJoin DEF EchoFlush
  <2>6. Calm(b)
    BY <2>1, <2>3, <2>4, <2>5, CalmPieces, CalmJoin
  <2>7. Calm(EchoLoop)
    BY <2>2, <2>6, CalmForever
  <2> QED BY <1>2, <2>2, <2>7, EchoLoopText, StartsJoin
<1>5. Starts(ClicMtimerMain(t), InitUart)
  <2>1. PICK K : K = KindsOf("clic_mtimer")
    OBVIOUS
  <2>2. K = Service \cup {"mie", "irq", "MachineTimer"}
    BY <2>1 DEF KindsOf
  <2>3. \A s : Text(s, Service) => Text(s, K)
    BY <2>2, BlockLift
  <2>4. \A x : Text(Enable(x), K) /\ Text(SetIrq("MachineTimer", x), K)
    BY <2>2, EnableText, IrqText DEF Irqs
  <2>5. /\ Text(WaitOnLock, K) /\ Text(SignalPass(t), K) /\ \A x : Text(Alarm(x), K)
    BY <2>3, LockText, SignalText, AlarmText
  <2>6. /\ \A x : Calm(Enable(x)) /\ Calm(SetIrq("MachineTimer", x)) /\ Calm(Alarm(x))
        /\ Calm(WaitOnLock) /\ Calm(SignalPass(t))
    BY CalmOps, CalmPieces
  <2>7. PICK a : a = InitUart \o Line
    OBVIOUS
  <2>8. Starts(((a \o Enable(TRUE)) \o SetIrq("MachineTimer", TRUE)) \o Alarm(TRUE), InitUart)
    BY <1>2, <2>4, <2>5, <2>6, <2>7, StartsJoin
  <2>9. PICK b : b = ((a \o Enable(TRUE)) \o SetIrq("MachineTimer", TRUE)) \o Alarm(TRUE)
    OBVIOUS
  <2>10. Starts((((b \o WaitOnLock) \o Alarm(FALSE)) \o SetIrq("MachineTimer", FALSE)) \o Enable(FALSE), InitUart)
    BY <2>4, <2>5, <2>6, <2>8, <2>9, StartsJoin
  <2>11. Starts(((((b \o WaitOnLock) \o Alarm(FALSE)) \o SetIrq("MachineTimer", FALSE))
                 \o Enable(FALSE)) \o SignalPass(t), InitUart)
    BY <2>5, <2>6, <2>10, StartsJoin
  <2> QED BY <2>7, <2>9, <2>11 DEF ClicMtimerMain
<1> QED BY <1>3, <1>4, <1>5, StartsInit

(* ... and what a fault executes. *)
LEMMA FaultBoots ==
  ASSUME NEW s, NEW b, s = EnsureUart \o b, Text(b, Service), Calm(b)
  PROVE  Boots(s, 1) /\ s[1] = [op |-> "skip_if_init", by |-> 11]
<1>1. PICK o : o = [op |-> "skip_if_init", by |-> 11]
  OBVIOUS
<1>2. PICK p : p = <<o>>
  OBVIOUS
<1>3. IsSeq(p)
  BY <1>2, OneOp
<1>4. Len(p) = 1 /\ p[1] = o
  BY <1>2, OneOp
<1>5. EnsureUart = p \o InitUart
  BY <1>1, <1>2, InitList DEF EnsureUart
<1>6. IsSeq(p \o InitUart)
  BY <1>3, InitList, Joined
<1>7. Starts(EnsureUart, p \o InitUart)
  BY <1>5, <1>6, StartsSelf
<1>8. Starts(s, p \o InitUart)
  BY <1>7, StartsJoin
<1>9. Boots(s, Len(p)) /\ \A n \in 1 .. Len(p) : s[n] = p[n]
  BY <1>3, <1>8, StartsBoots
<1>10. 1 \in 1 .. Len(p)
  BY <1>4
<1> QED BY <1>1, <1>4, <1>9, <1>10

LEMMA FaultsBoot ==
  /\ \A t : /\ Boots(PanicHandler(t), 1)
            /\ PanicHandler(t)[1] = [op |-> "skip_if_init", by |-> 11]
  /\ \A code : /\ Boots(BlinkException(code), 1)
               /\ BlinkException(code)[1] = [op |-> "skip_if_init", by |-> 11]
<1>1. ASSUME NEW t
      PROVE  /\ Boots(PanicHandler(t), 1)
             /\ PanicHandler(t)[1] = [op |-> "skip_if_init", by |-> 11]
  <2>1. Text(PanicMessage(t), Service)
    BY PutText, SetText, BlinkText, TextJoin DEF PanicMessage
  <2>2. Calm(PanicMessage(t))
    BY CalmPieces
  <2> QED BY <2>1, <2>2, FaultBoots DEF PanicHandler
<1>2. ASSUME NEW code
      PROVE  /\ Boots(BlinkException(code), 1)
             /\ BlinkException(code)[1] = [op |-> "skip_if_init", by |-> 11]
  <2>1. PICK q : q = [k \in 1 .. 4 |->
                        LedSet(<<0, 1, 2, 3>>[k], <<0, 1, 2, 3>>[k] \in code)]
    OBVIOUS
  <2>2. q = [k \in 1 .. 4 |-> q[k]]
        /\ \A k \in 1 .. 4 : Text(q[k], Service) /\ Calm(q[k])
    BY <2>1, LedText, CalmLeds
  <2>3. PICK w : w = Forever(FlattenSeq(q) \o AllOff)
    OBVIOUS
  <2>4. Text(w, Service) /\ Calm(w)
    <3>1. Text(FlattenSeq(q), Service) /\ Calm(FlattenSeq(q))
      BY <2>2, FlattenText, CalmFlatten
    <3>2. Text(AllOff, Service) /\ Calm(AllOff)
      BY AllText, CalmLeds
    <3> QED BY <2>3, <3>1, <3>2, TextJoin, CalmJoin, ServiceForever, CalmForever
  <2>5. BlinkException(code) = (((EnsureUart \o Put(Failed)) \o Line) \o Line) \o w
    <3>1. q = [k \in DOMAIN <<0, 1, 2, 3>> |->
                 LedSet(<<0, 1, 2, 3>>[k], <<0, 1, 2, 3>>[k] \in code)]
      BY <2>1
    <3> QED BY <2>3, <3>1, Zenon DEF BlinkException, ForEach
  <2>6. PICK b : b = ((Put(Failed) \o Line) \o Line) \o w
    OBVIOUS
  <2>7. Text(b, Service) /\ Calm(b)
    BY <2>4, <2>6, PutText, CalmOps, CalmPieces, TextJoin, CalmJoin
  <2>8. (((EnsureUart \o Put(Failed)) \o Line) \o Line) \o w = EnsureUart \o b
    <3>1. PICK e : e = EnsureUart
      OBVIOUS
    <3>2. PICK f : f = Put(Failed)
      OBVIOUS
    <3>3. IsSeq(e) /\ IsSeq(f) /\ IsSeq(Line) /\ IsSeq(w)
      BY <2>4, <3>1, <3>2, EnsureText, CalmOps, CalmPieces DEF Calm, Text, Part
    <3>4. PICK x : x = f \o Line
      OBVIOUS
    <3>5. PICK y : y = x \o Line
      OBVIOUS
    <3>6. IsSeq(x) /\ IsSeq(y)
      BY <3>3, <3>4, <3>5, Joined
    <3>7. (e \o f) \o Line = e \o x
      BY <3>3, <3>4, Associative
    <3>8. (e \o x) \o Line = e \o y
      BY <3>3, <3>5, <3>6, Associative
    <3>9. (e \o y) \o w = e \o (y \o w)
      BY <3>3, <3>6, Associative
    <3> QED BY <2>6, <3>1, <3>2, <3>4, <3>5, <3>7, <3>8, <3>9
  <2> QED BY <2>5, <2>7, <2>8, FaultBoots
<1> QED BY <1>1, <1>2

(* The LEDs alone: blinky does nothing else. *)
Dark(s) ==
  IsSeq(s) /\ \A n \in 1 .. Len(s) : s[n].op \in {"read_gpio", "write_gpio", "back"}

LEMMA DarkJoin == ASSUME NEW a, NEW b, Dark(a), Dark(b) PROVE Dark(a \o b)
<1>1. PICK s : s = a \o b
  OBVIOUS
<1>2. PICK la : la = Len(a)
  OBVIOUS
<1>3. PICK lb : lb = Len(b)
  OBVIOUS
<1>4. /\ IsSeq(s) /\ la \in Nat /\ lb \in Nat /\ Len(s) = la + lb
      /\ \A n \in 1 .. la : s[n] = a[n]
      /\ \A n \in la + 1 .. la + lb : s[n] = b[n - la]
  BY <1>1, <1>2, <1>3, Joined DEF Dark
<1>5. ASSUME NEW n \in 1 .. la + lb
      PROVE  s[n].op \in {"read_gpio", "write_gpio", "back"}
  <2>1. CASE n \in 1 .. la
    BY <2>1, <1>2, <1>4 DEF Dark
  <2>2. CASE n \in la + 1 .. la + lb
    <3>1. n - la \in 1 .. lb
      BY <2>2, <1>4
    <3> QED BY <2>2, <3>1, <1>3, <1>4 DEF Dark
  <2> QED BY <2>1, <2>2, <1>4
<1>6. Dark(s)
  BY <1>4, <1>5 DEF Dark
<1> QED BY <1>1, <1>6

LEMMA DarkOne ==
  ASSUME NEW o, o.op \in {"read_gpio", "write_gpio", "back"} PROVE Dark(<<o>>)
<1>1. PICK s : s = <<o>>
  OBVIOUS
<1>2. IsSeq(s) /\ Len(s) = 1 /\ s[1] = o
  BY <1>1, OneOp
<1>3. \A n \in 1 .. Len(s) : n = 1
  BY <1>2
<1>4. Dark(s)
  BY <1>2, <1>3 DEF Dark
<1> QED BY <1>1, <1>4

LEMMA BlinkyDark == ASSUME NEW t PROVE Dark(Blinky(t))
<1>1. ASSUME NEW r, NEW h, NEW m PROVE Dark(Modify(r, h, m))
  <2>1. PICK o : o = [op |-> "read_gpio", reg |-> r]
    OBVIOUS
  <2>2. PICK p : p = [op |-> "write_gpio", reg |-> r, how |-> h, mask |-> m]
    OBVIOUS
  <2>3. Modify(r, h, m) = <<o>> \o <<p>>
    BY <2>1, <2>2 DEF Modify
  <2>4. o.op = "read_gpio" /\ p.op = "write_gpio"
    BY <2>1, <2>2
  <2> QED BY <2>3, <2>4, DarkOne, DarkJoin
<1>2. \A l : Dark(Outputs(l))
  BY <1>1, DarkJoin DEF Outputs
<1>3. \A l : Dark(LedOn(l)) /\ Dark(LedOff(l))
  BY <1>1, <1>2, DarkJoin DEF LedOn, LedOff
<1>4. ASSUME NEW a, NEW b, NEW c, NEW d PROVE Dark(Chase(<<a, b, c, d>>))
  <2>1. PICK p : p = <<a, b, c, d>>
    OBVIOUS
  <2>2. PICK q : q = [k \in 1 .. 4 |-> LedOff(p[k][1]) \o LedOn(p[k][2])]
    OBVIOUS
  <2>3. DOMAIN p = 1 .. 4
    BY <2>1
  <2>4. Chase(p) = FlattenSeq(q)
    BY <2>2, <2>3 DEF Chase, ForEach
  <2>5. q = [k \in 1 .. 4 |-> q[k]] /\ \A k \in 1 .. 4 : Dark(q[k])
    BY <2>2, <1>3, DarkJoin
  <2>6. Dark(((q[1] \o q[2]) \o q[3]) \o q[4])
    BY <2>5, DarkJoin
  <2> QED BY <2>1, <2>4, <2>5, <2>6, FlattenFour
<1>5. ASSUME NEW b, Dark(b) PROVE Dark(Forever(b))
  <2>1. PICK o : o = [op |-> "back", by |-> Len(b)]
    OBVIOUS
  <2>2. o.op = "back"
    BY <2>1
  <2> QED BY <1>5, <2>1, <2>2, DarkOne, DarkJoin DEF Forever, GoBack
<1> QED BY <1>4, <1>5 DEF Blinky

-----------------------------------------------------------------------------
(* uart_irq until it enables interrupts. *)
Opening ==
  InitUart \o Put(Other) \o Line \o SetIrq("Uart", TRUE) \o Listen(OnData)
  \o Enable(TRUE)

Plain(o) == Late(o) /\ o.op \notin Jumpers \cup {"mie"}

LEMMA OpeningOps ==
  /\ IsSeq(Opening) /\ Len(Opening) = 21
  /\ \A n \in 1 .. 11 : Opening[n] = InitUart[n]
  /\ \A n \in 12 .. 16 : Plain(Opening[n])
  /\ \A n \in 17 .. 20 : Opening[n] = Listen(OnData)[n - 16]
  /\ Opening[21].op = "mie"
<1>1. /\ IsSeq(Put(Other)) /\ Len(Put(Other)) = 2
      /\ \A n \in 1 .. 2 : Plain(Put(Other)[n])
  <2>1. PICK o : o = [op |-> "poll_empty"]
    OBVIOUS
  <2>2. PICK p : p = [op |-> "write", reg |-> "thr", val |-> Other]
    OBVIOUS
  <2>3. PICK a : a = <<o>>
    OBVIOUS
  <2>4. Put(Other) = a \o <<p>>
    BY <2>1, <2>2, <2>3 DEF Put, Do, Write
  <2>5. IsSeq(a)
    BY <2>3, OneOp
  <2>6. IsSeq(a \o <<p>>) /\ Len(a \o <<p>>) = Len(a) + 1
        /\ (a \o <<p>>)[Len(a) + 1] = p /\ \A k \in 1 .. Len(a) : (a \o <<p>>)[k] = a[k]
    BY <2>5, ThenOne
  <2>7. Len(a) = 1 /\ a[1] = o
    BY <2>3, OneOp
  <2>8. PICK q : q = a \o <<p>>
    OBVIOUS
  <2>9. Len(q) = 2 /\ q[1] = o /\ q[2] = p
    BY <2>6, <2>7, <2>8
  <2>10. Plain(o) /\ Plain(p)
    BY <2>1, <2>2 DEF Plain, Late, Early, Jumpers, Skips
  <2>11. \A n \in 1 .. 2 : Plain(q[n])
    BY <2>9, <2>10
  <2> QED BY <2>4, <2>6, <2>8, <2>9, <2>11
<1>2. /\ IsSeq(Line) /\ Len(Line) = 2
      /\ \A n \in 1 .. 2 : Plain(Line[n])
  <2>1. PICK o : o = [op |-> "poll_empty"]
    OBVIOUS
  <2>2. PICK p : p = [op |-> "write", reg |-> "thr", val |-> LF]
    OBVIOUS
  <2>3. PICK a : a = <<o>>
    OBVIOUS
  <2>4. Line = a \o <<p>>
    BY <2>1, <2>2, <2>3 DEF Line, Put, Do, Write
  <2>5. IsSeq(a)
    BY <2>3, OneOp
  <2>6. IsSeq(a \o <<p>>) /\ Len(a \o <<p>>) = Len(a) + 1
        /\ (a \o <<p>>)[Len(a) + 1] = p /\ \A k \in 1 .. Len(a) : (a \o <<p>>)[k] = a[k]
    BY <2>5, ThenOne
  <2>7. Len(a) = 1 /\ a[1] = o
    BY <2>3, OneOp
  <2>8. PICK q : q = a \o <<p>>
    OBVIOUS
  <2>9. Len(q) = 2 /\ q[1] = o /\ q[2] = p
    BY <2>6, <2>7, <2>8
  <2>10. Plain(o) /\ Plain(p)
    BY <2>1, <2>2 DEF Plain, Late, Early, Jumpers, Skips
  <2>11. \A n \in 1 .. 2 : Plain(q[n])
    BY <2>9, <2>10
  <2> QED BY <2>4, <2>6, <2>8, <2>9, <2>11
<1>3. PICK i : i = [op |-> "irq", irq |-> "Uart", to |-> TRUE]
  OBVIOUS
<1>4. PICK m : m = [op |-> "mie", to |-> TRUE]
  OBVIOUS
<1>5. Plain(i) /\ m.op = "mie"
  BY <1>3, <1>4 DEF Plain, Late, Early, Jumpers, Skips
<1>6. PICK u : u = InitUart
  OBVIOUS
<1>7. IsSeq(u)
  BY <1>6, InitList
<1>8. Len(u) = 11
  BY <1>6, InitList
<1>9. PICK p : p = Put(Other)
  OBVIOUS
<1>10. PICK a1 : a1 = u \o p
  OBVIOUS
<1>11. IsSeq(p) /\ IsSeq(Line)
  BY <1>1, <1>2, <1>9
<1>12. /\ IsSeq(a1) /\ Len(a1) = Len(u) + Len(p)
       /\ \A n \in 1 .. Len(u) : a1[n] = u[n]
       /\ \A n \in 1 .. Len(p) : a1[Len(u) + n] = p[n]
  BY <1>7, <1>10, <1>11, Joined
<1>13. Len(p) = 2 /\ Plain(p[1]) /\ Plain(p[2])
  BY <1>1, <1>9
<1>14. Len(a1) = 13 /\ (\A n \in 1 .. 11 : a1[n] = u[n]) /\ a1[12] = p[1] /\ a1[13] = p[2]
  BY <1>8, <1>12, <1>13
<1>15. IsSeq(a1)
  BY <1>12
<1>16. PICK a2 : a2 = a1 \o Line
  OBVIOUS
<1>17. /\ IsSeq(a2) /\ Len(a2) = Len(a1) + Len(Line)
       /\ \A n \in 1 .. Len(a1) : a2[n] = a1[n]
       /\ \A n \in 1 .. Len(Line) : a2[Len(a1) + n] = Line[n]
  BY <1>11, <1>15, <1>16, Joined
<1>18. Len(Line) = 2 /\ Plain(Line[1]) /\ Plain(Line[2])
  BY <1>2
<1>19. Len(a2) = 15 /\ (\A n \in 1 .. 13 : a2[n] = a1[n]) /\ a2[14] = Line[1] /\ a2[15] = Line[2]
  BY <1>14, <1>17, <1>18
<1>20. IsSeq(a2)
  BY <1>17
<1>21. PICK a3 : a3 = a2 \o <<i>>
  OBVIOUS
<1>22. /\ IsSeq(a3) /\ Len(a3) = Len(a2) + 1 /\ a3[Len(a2) + 1] = i
       /\ \A n \in 1 .. Len(a2) : a3[n] = a2[n]
  BY <1>20, <1>21, ThenOne, Zenon
<1>23. Len(a3) = 16 /\ (\A n \in 1 .. 15 : a3[n] = a2[n]) /\ a3[16] = i
  BY <1>19, <1>22
<1>24. PICK l : l = Listen(OnData)
  OBVIOUS
<1>25. IsSeq(l) /\ IsSeq(a3)
  BY <1>22, <1>24, ListenList
<1>26. PICK a4 : a4 = a3 \o l
  OBVIOUS
<1>27. /\ IsSeq(a4) /\ Len(a4) = Len(a3) + Len(l)
       /\ \A n \in 1 .. Len(a3) : a4[n] = a3[n]
       /\ \A n \in Len(a3) + 1 .. Len(a3) + Len(l) : a4[n] = l[n - Len(a3)]
  BY <1>25, <1>26, Joined
<1>28. Len(l) = 4
  BY <1>24, ListenList
<1>29. /\ Len(a4) = 20 /\ \A n \in 1 .. 16 : a4[n] = a3[n]
       /\ \A n \in 17 .. 20 : a4[n] = l[n - 16]
  BY <1>23, <1>27, <1>28
<1>30. IsSeq(a4)
  BY <1>27
<1>31. PICK a5 : a5 = a4 \o <<m>>
  OBVIOUS
<1>32. /\ IsSeq(a5) /\ Len(a5) = Len(a4) + 1 /\ a5[Len(a4) + 1] = m
       /\ \A n \in 1 .. Len(a4) : a5[n] = a4[n]
  BY <1>30, <1>31, ThenOne, Zenon
<1>33. Len(a5) = 21 /\ (\A n \in 1 .. 20 : a5[n] = a4[n]) /\ a5[21] = m
  BY <1>29, <1>32
<1>34. a5 = Opening
  BY <1>3, <1>4, <1>6, <1>9, <1>10, <1>16, <1>21, <1>24, <1>26, <1>31
     DEF Opening, SetIrq, Enable
<1>35. \A n \in 1 .. 11 : a5[n] = u[n]
  BY <1>14, <1>19, <1>23, <1>29, <1>33
<1>36. \A n \in 12 .. 16 : Plain(a5[n])
  <2>1. a5[12] = p[1] /\ a5[13] = p[2]
    BY <1>14, <1>19, <1>23, <1>29, <1>33
  <2>2. a5[14] = Line[1] /\ a5[15] = Line[2] /\ a5[16] = i
    BY <1>19, <1>23, <1>29, <1>33
  <2>3. \A n \in 12 .. 16 : n \in {12, 13, 14, 15, 16}
    OBVIOUS
  <2> QED BY <2>1, <2>2, <2>3, <1>5, <1>13, <1>18
<1>37. \A n \in 17 .. 20 : a5[n] = l[n - 16]
  BY <1>29, <1>33
<1> QED BY <1>5, <1>6, <1>24, <1>32, <1>33, <1>34, <1>35, <1>36, <1>37

LEMMA IrqMainStarts == ASSUME NEW t PROVE Starts(UartIrqMain(t), Opening)
<1>1. PICK K : K = KindsOf("uart_irq")
  OBVIOUS
<1>2. K = Service \cup {"mie", "irq", "Uart"}
  BY <1>1 DEF KindsOf
<1>3. \A s : Text(s, Service) => Text(s, K)
  BY <1>2, BlockLift
<1>4. /\ Text(Enable(FALSE), K) /\ Text(SetIrq("Uart", FALSE), K) /\ Text(Line, K)
      /\ Text(SleepUntil("running", FALSE), K)
  BY <1>2, <1>3, EnableText, IrqText, PutText, SleepText DEF Irqs, Service
<1>5. /\ Calm(Enable(FALSE)) /\ Calm(SetIrq("Uart", FALSE)) /\ Calm(Line)
      /\ Calm(SleepUntil("running", FALSE))
  BY CalmOps, CalmPieces
<1>6. PICK h : h = Opening
  OBVIOUS
<1>7. Starts(h, h)
  BY <1>6, OpeningOps, StartsSelf
<1>8. Starts(h \o Line, h)
  BY <1>4, <1>5, <1>7, StartsJoin
<1>9. Starts((h \o Line) \o SleepUntil("running", FALSE), h)
  BY <1>4, <1>5, <1>8, StartsJoin
<1>10. Starts(((h \o Line) \o SleepUntil("running", FALSE)) \o SetIrq("Uart", FALSE), h)
  BY <1>4, <1>5, <1>9, StartsJoin
<1>11. Starts((((h \o Line) \o SleepUntil("running", FALSE)) \o SetIrq("Uart", FALSE))
             \o Enable(FALSE), h)
  BY <1>4, <1>5, <1>10, StartsJoin
<1> QED BY <1>6, <1>11 DEF UartIrqMain, Opening

-----------------------------------------------------------------------------
(* How far the initialisation of a context is.                             *)

(* How many operations come before the initialisation in context c. *)
Offset(c) ==
  IF c # "main" \/ job \in {"pass", "fail"} THEN 1
  ELSE IF job = "divided" THEN 2 ELSE 0

(* Which operation of the initialisation comes next: 0 when none has been *)
(* executed and 12 when all have.                                         *)
Stage(f) ==
  LET k == f.at - Offset(f.code)
  IN  CASE f.code \in Irqs -> 12
        [] f.code = "main" /\ job = "blinky" -> 0
        [] OTHER -> IF k < 1 THEN 0 ELSE IF k > 11 THEN 12 ELSE k

Before == {"app", "divide"}
Skipping(o) == o = [op |-> "skip_if_init", by |-> 11]

(* What the context on top executes. *)
LEMMA Shapes ==
  ASSUME BoardInv, job # "minimal"
  PROVE  \/ Top.code \in Irqs /\ Calm(Here)
         \/ Top.code = "main" /\ job = "blinky" /\ Dark(Here)
         \/ Top.code = "main" /\ job = "uart_irq" /\ Starts(Here, Opening)
         \/ /\ Top.code = "main" /\ job \notin {"blinky", "uart_irq"}
            /\ Offset("main") \in 0 .. 2 /\ Boots(Here, Offset("main"))
            /\ \A n \in 1 .. Offset("main") : Here[n].op \in Before
         \/ /\ Top.code \in {"panic", "exception"}
            /\ Boots(Here, 1) /\ Skipping(Here[1])
         \/ Top.code = "exception" /\ Here = <<>>
<1>1. Here = TextAt(Top.code, job, target, cause)
  BY TopFacts DEF Here, TextOf
<1>2. Top.code \in Frames /\ job \in Jobs /\ target \in Targets /\ cause \in SUBSET Leds
  BY TopFacts DEF BoardInv
<1>3. CASE Top.code \in Irqs
  <2>1. Here = UartHandler \/ Here = LockHandler
    BY <1>1, <1>3 DEF TextAt, Irqs
  <2> QED BY <1>3, <2>1, CalmPieces
<1>4. CASE Top.code = "main"
  <2>1. PICK p : p = Programs(target)
    OBVIOUS
  <2>2. Here = p[job]
    BY <1>1, <1>2, <1>4, <2>1 DEF TextAt, MainOf, Targets
  <2>3. job \in {"pass", "fail", "blinky", "gpio_blink", "divided", "uart_irq",
                 "uart_echo", "clic_mtimer"}
    BY <1>2 DEF Jobs, MainOf, Programs
  <2>4. CASE job = "blinky"
    <3>1. Here = Blinky(target)
      BY <2>1, <2>2, <2>4 DEF Programs
    <3> QED BY <1>4, <2>4, <3>1, BlinkyDark
  <2>5. CASE job = "uart_irq"
    <3>1. Here = UartIrqMain(target)
      BY <2>1, <2>2, <2>5 DEF Programs
    <3> QED BY <1>4, <2>5, <3>1, IrqMainStarts
  <2>6. CASE job \in {"gpio_blink", "uart_echo", "clic_mtimer"}
    <3>1. Here \in {GpioBlink(target), UartEcho(target), ClicMtimerMain(target)}
      BY <2>1, <2>2, <2>6 DEF Programs
    <3>2. Offset("main") = 0
      BY <2>6 DEF Offset
    <3>3. \A n \in 1 .. 0 : FALSE
      OBVIOUS
    <3> QED BY <1>4, <2>6, <3>1, <3>2, <3>3, OtherBoots
  <2>7. CASE job \in {"pass", "fail"}
    <3>1. \E v \in {SignalPass(target), SignalFail(target)} : Here = Report(v)
      BY <2>1, <2>2, <2>7 DEF Programs
    <3>2. Offset("main") = 1
      BY <2>7 DEF Offset
    <3>3. Boots(Here, 1) /\ Here[1].op = "app"
      BY <3>1, TestTexts
    <3>4. \A n \in 1 .. 1 : n = 1
      OBVIOUS
    <3> QED BY <1>4, <2>7, <3>2, <3>3, <3>4 DEF Before
  <2>8. CASE job = "divided"
    <3>1. Here = Divided(target)
      BY <2>1, <2>2, <2>8 DEF Programs
    <3>2. Offset("main") = 2
      BY <2>8 DEF Offset
    <3>3. Boots(Here, 2) /\ Here[1].op = "divide" /\ Here[2].op = "app"
      BY <3>1, TestTexts
    <3>4. \A n \in 1 .. 2 : n = 1 \/ n = 2
      OBVIOUS
    <3> QED BY <1>4, <2>8, <3>2, <3>3, <3>4 DEF Before
  <2> QED BY <2>3, <2>4, <2>5, <2>6, <2>7, <2>8
<1>5. CASE Top.code = "panic"
  <2>1. Here = PanicHandler(target)
    BY <1>1, <1>2, <1>5 DEF TextAt, PanicIn, Targets
  <2> QED BY <1>5, <2>1, FaultsBoot DEF Skipping
<1>6. CASE Top.code = "exception"
  <2>1. Here = ExceptionIn[target][cause]
    BY <1>1, <1>6 DEF TextAt
  <2>2. CASE target = "fpga"
    <3>1. Here = BlinkException(cause)
      BY <1>2, <2>1, <2>2 DEF ExceptionIn
    <3> QED BY <1>6, <3>1, FaultsBoot DEF Skipping
  <2>3. CASE target = "rtl_tb"
    BY <1>2, <1>6, <2>1, <2>3 DEF ExceptionIn
  <2> QED BY <1>2, <2>2, <2>3 DEF Targets
<1> QED BY <1>2, <1>3, <1>4, <1>5, <1>6 DEF Frames, Irqs

(* How a step of the context on top leads to position t. *)
Goes(t) ==
  CASE Op.op = "back" -> t = Top.at - Op.by
    [] Op.op = "skip_if_init" -> t = Top.at + 1 + (IF mem.is_init THEN Op.by ELSE 0)
    [] Op.op \in Jumpers \ {"back", "skip_if_init"} -> t > Top.at
    [] OTHER -> t = Top.at + 1

(* From behind the beginning no step leads back into it. *)
LEMMA BeyondGoes ==
  ASSUME BoardInv, Running, NEW t, t \in Nat, Goes(t), NEW i \in Nat, Top.at > i,
         Beyond(Op, Top.at - i)
  PROVE  t > i
<1>1. PICK a : a = Top.at
  OBVIOUS
<1>2. a \in Nat
  BY <1>1, TopFacts
<1>3. CASE Op.op = "back"
  <2>1. PICK m : m = Op.by
    OBVIOUS
  <2>2. m \in Nat /\ (a - i) - m >= 1
    BY <1>1, <1>3, <2>1 DEF Beyond
  <2>3. t = a - m
    BY <1>1, <1>3, <2>1 DEF Goes
  <2> QED BY <1>2, <2>2, <2>3
<1>4. CASE Op.op # "back"
  <2>1. Op.op # "skip_if_init"
    BY DEF Beyond, Late, Early
  <2>2. t > a \/ t = a + 1
    BY <1>1, <1>4, <2>1 DEF Goes, Jumpers, Skips
  <2> QED BY <1>1, <1>2, <2>2
<1> QED BY <1>3, <1>4

LEMMA InitPlain ==
  \A k \in 1 .. 11 : InitUart[k].op \notin Jumpers \cup {"mie", "app", "irq"}
<1>1. Len(InitUart) = 11
  BY InitList
<1>2. \A k \in 1 .. 11 :
        IF k < 11 THEN InitUart[k].op \in Booting \ Jumpers
        ELSE InitUart[k] = [op |-> "set", var |-> "is_init", to |-> TRUE]
  BY <1>1, InitOps
<1> QED BY <1>2 DEF Jumpers, Skips, Booting

LEMMA OpeningPlain == \A n \in 12 .. 21 : Opening[n].op \notin Jumpers
<1>1. ASSUME NEW n \in 17 .. 20 PROVE Opening[n].op \notin Jumpers
  <2>1. Opening[n] = Listen(OnData)[n - 16] /\ n - 16 \in {1, 2, 3, 4}
    BY OpeningOps
  <2>2. Listen(OnData)[n - 16].op \in {"read_lcr", "write_lcr", "write"}
    BY <2>1, ListenList
  <2> QED BY <2>1, <2>2 DEF Jumpers, Skips
<1>2. Opening[21].op \notin Jumpers
  BY OpeningOps DEF Jumpers, Skips
<1>3. \A n \in 12 .. 16 : Opening[n].op \notin Jumpers
  BY OpeningOps DEF Plain
<1>4. \A n \in 12 .. 21 : n \in 12 .. 16 \/ n \in 17 .. 20 \/ n = 21
  OBVIOUS
<1> QED BY <1>1, <1>2, <1>3, <1>4

(* The main program of uart_irq at its listen. *)
Hears(a, b) == job = "uart_irq" /\ stack[1].at \in a .. b

(* What is executed at which stage, and which stage follows. *)
LEMMA Stages ==
  ASSUME BoardInv, job # "minimal", Running,
         NEW g, g.code = Top.code, g.at \in Nat, Goes(g.at)
  PROVE  \/ /\ Stage(Top) = 0 /\ Top.code = "main" /\ Stage(g) \in {0, 1}
            /\ Op.op \in Before \cup {"read_gpio", "write_gpio", "back"}
         \/ /\ Stage(Top) = 0 /\ Top.code # "main" /\ Op.op = "skip_if_init"
            /\ Stage(g) = IF mem.is_init THEN 12 ELSE 1
         \/ /\ Stage(Top) \in 1 .. 11 /\ Op = InitUart[Stage(Top)]
            /\ Stage(g) = Stage(Top) + 1
         \/ /\ Stage(Top) = 12 /\ Stage(g) = 12
            /\ Late(Op) \/ (/\ job = "uart_irq" /\ Top.code = "main"
                            /\ Top.at \in 17 .. 20 /\ Op = Listen(OnData)[Top.at - 16])
<1>1. PICK a : a = Top.at
  OBVIOUS
<1>2. PICK s : s = Here
  OBVIOUS
<1>3. PICK b : b = g.at
  OBVIOUS
<1>4. a \in Nat \ {0} /\ b \in Nat /\ Len(s) \in Nat /\ a \in 1 .. Len(s) /\ Op = s[a]
  BY <1>1, <1>2, <1>3, TopFacts
<1>5. \A k \in 1 .. 11 : InitUart[k].op \notin Jumpers
  BY InitPlain
<1>6. Op.op \notin Jumpers => b = a + 1
  BY <1>1, <1>3 DEF Goes, Jumpers, Skips
<1>7. ASSUME NEW o \in 0 .. 2, Boots(s, o), Offset(Top.code) = o, a > o,
             Top.code \notin Irqs, ~(Top.code = "main" /\ job = "blinky")
      PROVE  \/ /\ Stage(Top) \in 1 .. 11 /\ Op = InitUart[Stage(Top)]
                /\ Stage(g) = Stage(Top) + 1
             \/ Stage(Top) = 12 /\ Stage(g) = 12 /\ Late(Op)
  <2>1. Stage(Top) = IF a - o < 1 THEN 0 ELSE IF a - o > 11 THEN 12 ELSE a - o
    BY <1>1, <1>7 DEF Stage
  <2>2. Stage(g) = IF b - o < 1 THEN 0 ELSE IF b - o > 11 THEN 12 ELSE b - o
    BY <1>3, <1>7 DEF Stage
  <2>3. CASE a <= o + 11
    <3>1. a \in o + 1 .. o + 11 /\ a - o \in 1 .. 11
      BY <1>4, <1>7, <2>3
    <3>2. Op = InitUart[a - o]
      BY <1>4, <1>7, <3>1 DEF Boots
    <3>3. b = a + 1
      BY <1>5, <1>6, <3>1, <3>2
    <3>4. Stage(Top) = a - o
      BY <1>4, <2>1, <3>1
    <3>5. Stage(g) = (a - o) + 1
      BY <1>4, <2>2, <3>1, <3>3
    <3> QED BY <3>1, <3>2, <3>4, <3>5
  <2>4. CASE a > o + 11
    <3>1. Beyond(Op, a - (o + 11))
      BY <1>4, <1>7, <2>4 DEF Boots
    <3>2. b > o + 11
      <4>1. o + 11 \in Nat
        OBVIOUS
      <4> QED BY <1>1, <1>3, <1>4, <2>4, <3>1, <4>1, BeyondGoes
    <3>3. Stage(Top) = 12
      BY <1>4, <1>7, <2>1, <2>4
    <3>4. Stage(g) = 12
      BY <1>4, <1>7, <2>2, <3>2
    <3> QED BY <3>1, <3>3, <3>4 DEF Beyond
  <2> QED BY <1>4, <1>7, <2>3, <2>4
<1>8. CASE Top.code \in Irqs /\ Calm(Here)
  <2>1. Stage(Top) = 12 /\ Stage(g) = 12
    BY <1>8 DEF Stage, Irqs
  <2>2. Late(Op)
    BY <1>2, <1>4, <1>8 DEF Calm
  <2> QED BY <2>1, <2>2
<1>9. CASE Top.code = "main" /\ job = "blinky" /\ Dark(Here)
  BY <1>2, <1>4, <1>9 DEF Dark, Stage, Irqs
<1>10. CASE Top.code = "main" /\ job = "uart_irq" /\ Starts(Here, Opening)
  <2>1. Offset("main") = 0
    BY <1>10 DEF Offset
  <2>2. Stage(Top) = IF a < 1 THEN 0 ELSE IF a > 11 THEN 12 ELSE a
    <3>1. a - 0 = a
      BY <1>4
    <3> QED BY <1>1, <1>10, <2>1, <3>1 DEF Stage, Irqs
  <2>3. Stage(g) = IF b < 1 THEN 0 ELSE IF b > 11 THEN 12 ELSE b
    <3>1. b - 0 = b
      BY <1>4
    <3> QED BY <1>3, <1>10, <2>1, <3>1 DEF Stage, Irqs
  <2>4. IF a <= 21 THEN Op = Opening[a] ELSE Beyond(Op, a - 21)
    BY <1>2, <1>4, <1>10, OpeningOps DEF Starts
  <2>5. CASE a <= 11
    <3>1. a \in 1 .. 11 /\ a <= 21
      BY <1>4, <2>5
    <3>2. Op = InitUart[a]
      BY <2>4, <3>1, OpeningOps
    <3>3. b = a + 1
      BY <1>5, <1>6, <3>1, <3>2
    <3> QED BY <2>2, <2>3, <3>1, <3>2, <3>3
  <2>6. CASE a \in 12 .. 21
    <3>1. Op = Opening[a]
      BY <2>4, <2>6
    <3>2. Op.op \notin Jumpers
      BY <2>6, <3>1, OpeningPlain
    <3>3. b = a + 1
      BY <1>6, <3>2
    <3>4. Stage(Top) = 12 /\ Stage(g) = 12
      BY <2>2, <2>3, <2>6, <3>3
    <3>5. CASE a \in 17 .. 20
      <4>1. Op = Listen(OnData)[a - 16]
        BY <3>1, <3>5, OpeningOps
      <4> QED BY <1>1, <1>10, <3>4, <3>5, <4>1
    <3>6. CASE a \notin 17 .. 20
      <4>1. a \in 12 .. 16 \/ a = 21
        BY <2>6, <3>6
      <4>2. Late(Op)
        BY <3>1, <4>1, OpeningOps DEF Plain, Late, Early
      <4> QED BY <3>4, <4>2
    <3> QED BY <3>5, <3>6
  <2>7. CASE a > 21
    <3>1. Beyond(Op, a - 21)
      BY <1>4, <2>4, <2>7
    <3>2. b > 21
      <4>1. 21 \in Nat
        OBVIOUS
      <4> QED BY <1>1, <1>3, <1>4, <2>7, <3>1, <4>1, BeyondGoes
    <3> QED BY <1>4, <2>2, <2>3, <2>7, <3>1, <3>2 DEF Beyond
  <2> QED BY <1>4, <2>5, <2>6, <2>7
<1>11. CASE /\ Top.code = "main" /\ job \notin {"blinky", "uart_irq"}
            /\ Offset("main") \in 0 .. 2 /\ Boots(Here, Offset("main"))
            /\ \A n \in 1 .. Offset("main") : Here[n].op \in Before
  <2>1. PICK o \in 0 .. 2 : o = Offset("main")
    BY <1>11
  <2>2. CASE a > o
    BY <1>2, <1>7, <1>11, <2>1, <2>2 DEF Irqs
  <2>3. CASE a <= o
    <3>1. a \in 1 .. o
      BY <1>4, <2>1, <2>3
    <3>2. Op.op \in Before
      BY <1>2, <1>4, <1>11, <2>1, <3>1
    <3>3. b = a + 1
      BY <1>6, <3>2 DEF Before, Jumpers, Skips
    <3>4. Stage(Top) = IF a - o < 1 THEN 0 ELSE IF a - o > 11 THEN 12 ELSE a - o
      BY <1>1, <1>11, <2>1 DEF Stage, Irqs
    <3>5. Stage(g) = IF b - o < 1 THEN 0 ELSE IF b - o > 11 THEN 12 ELSE b - o
      BY <1>3, <1>11, <2>1 DEF Stage, Irqs
    <3>6. a - o < 1 /\ b - o <= 1 /\ (b - o < 1 \/ b - o = 1)
      BY <1>4, <2>1, <2>3, <3>3
    <3>7. Stage(Top) = 0 /\ Stage(g) \in {0, 1}
      BY <3>4, <3>5, <3>6
    <3> QED BY <1>11, <3>2, <3>7
  <2> QED BY <1>4, <2>1, <2>2, <2>3
<1>12. CASE /\ Top.code \in {"panic", "exception"}
            /\ Boots(Here, 1) /\ Skipping(Here[1])
  <2>1. Top.code # "main" /\ Top.code \notin Irqs
    BY <1>12 DEF Irqs
  <2>a. Offset(Top.code) = 1
    BY <2>1 DEF Offset
  <2>2. CASE a > 1
    <3>1. 1 \in 0 .. 2
      OBVIOUS
    <3> QED BY <1>2, <1>7, <1>12, <2>1, <2>a, <2>2, <3>1
  <2>3. CASE a = 1
    <3>1. Op.op = "skip_if_init" /\ Op.by = 11
      BY <1>2, <1>4, <1>12, <2>3 DEF Skipping
    <3>2. b = IF mem.is_init THEN 13 ELSE 2
      BY <1>1, <1>3, <2>3, <3>1 DEF Goes
    <3>3. Stage(Top) = 0
      BY <1>1, <2>1, <2>a, <2>3 DEF Stage
    <3>4. Stage(g) = IF b - 1 < 1 THEN 0 ELSE IF b - 1 > 11 THEN 12 ELSE b - 1
      BY <1>3, <2>1, <2>a DEF Stage
    <3>5. Stage(g) = IF mem.is_init THEN 12 ELSE 1
      BY <3>2, <3>4
    <3> QED BY <2>1, <3>1, <3>3, <3>5
  <2> QED BY <1>4, <2>2, <2>3
<1>13. Here # <<>>
  BY <1>2, <1>4
<1> QED BY <1>8, <1>9, <1>10, <1>11, <1>12, <1>13, Shapes

(* The main program of uart_irq goes straight on until it enables interrupts. *)
LEMMA Hearing ==
  ASSUME BoardInv, job = "uart_irq", Top.code = "main", Running,
         NEW t, t \in Nat, Goes(t)
  PROVE  IF Top.at <= 21 THEN t = Top.at + 1 /\ (Op.op = "mie" => Top.at = 21)
         ELSE t > 21
<1>1. PICK a : a = Top.at
  OBVIOUS
<1>2. a \in 1 .. Len(Here) /\ a \in Nat \ {0} /\ Op = Here[a]
  BY <1>1, TopFacts
<1>3. Starts(Here, Opening)
  BY Shapes DEF Irqs
<1>4. IF a <= 21 THEN Op = Opening[a] ELSE Beyond(Op, a - 21)
  BY <1>2, <1>3, OpeningOps DEF Starts
<1>5. CASE a <= 21
  <2>1. a \in 1 .. 11 \/ a \in 12 .. 21
    BY <1>2, <1>5
  <2>2. a \in 1 .. 11 => Op = InitUart[a]
    BY <1>4, <1>5, OpeningOps
  <2>3. Op.op \notin Jumpers
    BY <1>4, <1>5, <2>1, <2>2, InitPlain, OpeningPlain
  <2>4. t = a + 1
    BY <1>1, <2>3 DEF Goes, Jumpers, Skips
  <2>5. Op.op = "mie" => a = 21
    <3>1. a \in 1 .. 11 => Op.op # "mie"
      BY <2>2, InitPlain
    <3>2. a \in 12 .. 16 => Op.op # "mie"
      BY <1>4, <1>5, OpeningOps DEF Plain
    <3>3. a \in 17 .. 20 => Op.op # "mie"
      <4> SUFFICES ASSUME a \in 17 .. 20 PROVE Op.op # "mie"
        OBVIOUS
      <4>1. Op = Listen(OnData)[a - 16] /\ a - 16 \in {1, 2, 3, 4}
        BY <1>4, <1>5, OpeningOps
      <4> QED BY <4>1, ListenList
    <3>4. a \in 12 .. 21 => a \in 12 .. 16 \/ a \in 17 .. 20 \/ a = 21
      OBVIOUS
    <3> QED BY <2>1, <3>1, <3>2, <3>3, <3>4
  <2> QED BY <1>1, <1>5, <2>4, <2>5
<1>6. CASE a > 21
  <2>1. Beyond(Op, a - 21) /\ 21 \in Nat
    BY <1>2, <1>4, <1>6
  <2>2. t > 21
    BY <1>1, <1>6, <2>1, BeyondGoes
  <2> QED BY <1>1, <1>2, <1>6, <2>2
<1> QED BY <1>2, <1>5, <1>6

(* What a step of the context on top changes besides what Moves says. *)
Effects ==
  /\ Top'.code = Top.code /\ Goes(Top'.at)
  /\ Op.op = "divisor" =>
       Top'.divisor = DivisorFor(target, IF Op.by = "register" THEN div ELSE 2)
  /\ Op.op # "divisor" => Top'.divisor = Top.divisor
  /\ div' = IF Op.op = "divide" THEN 1 ELSE div
  /\ garbled' = garbled
  /\ shift' = shift \/ ShiftOn
  /\ "is_init" \in DOMAIN mem =>
       /\ "is_init" \in DOMAIN mem'
       /\ Op.op # "set" \/ Op.var # "is_init" => mem'.is_init = mem.is_init
       /\ Op.op = "set" /\ Op.var = "is_init" => mem'.is_init = Op.to
  /\ ~lcr.dlab \/ Op.op \notin {"write", "write_acc", "divisor_lo", "divisor_hi"} =>
       dl' = dl
  /\ lcr.dlab /\ Op.op = "divisor_lo" => dl' = [dl EXCEPT !.lo = Top.divisor % 256]
  /\ lcr.dlab /\ Op.op = "divisor_hi" => dl' = [dl EXCEPT !.hi = Top.divisor \div 256]

(* The context on top afterwards. *)
LEMMA Went ==
  ASSUME BoardInv, Running
  PROVE  /\ \A t : Goto(t) =>
              Top'.code = Top.code /\ Top'.at = t /\ Top'.divisor = Top.divisor
         /\ NextOp =>
              /\ Top'.code = Top.code /\ Top'.at = Top.at + 1
              /\ Top'.divisor = Top.divisor
         /\ \A x : Keep(x) =>
              /\ Top'.code = Top.code /\ Top'.at = Top.at + 1
              /\ Top'.divisor = Top.divisor
         /\ \A d : Continue([Top EXCEPT !.at = @ + 1, !.divisor = d]) =>
              Top'.code = Top.code /\ Top'.at = Top.at + 1 /\ Top'.divisor = d
<1>1. Top = [code |-> Top.code, at |-> Top.at, acc |-> Top.acc,
             divisor |-> Top.divisor] /\ Top.at \in Nat
  BY TopFacts DEF Frame
<1>2. IsSeq(stack) /\ Len(stack) > 0
  BY DEF BoardInv, Nesting
<1>3. ASSUME NEW f, Continue(f) PROVE Top' = f
  <2>1. PICK r : r = stack'
    OBVIOUS
  <2>2. r = WithTop(stack, f)
    BY <1>3, <2>1 DEF Continue, WithTop
  <2>3. Len(r) = Len(stack) /\ r[Len(stack)] = f
    BY <1>2, <2>2, Replaced
  <2> QED BY <2>1, <2>3 DEF Top, Last
<1>4. PICK top : top = Top
  OBVIOUS
<1>5. ASSUME NEW t, Goto(t)
      PROVE  Top'.code = Top.code /\ Top'.at = t /\ Top'.divisor = Top.divisor
  <2>1. PICK f : f = [Top EXCEPT !.at = t]
    OBVIOUS
  <2>2. Top' = f
    BY <1>3, <1>5, <2>1 DEF Goto
  <2>3. f.code = top.code /\ f.at = t /\ f.divisor = top.divisor
    BY <1>1, <1>4, <2>1
  <2> QED BY <1>4, <2>2, <2>3
<1>6. NextOp => Goto(Top.at + 1)
  <2>1. Top.at + 1 + 0 = Top.at + 1
    BY <1>1
  <2> QED BY <2>1 DEF NextOp, Skip
<1>7. ASSUME NEW x, Keep(x)
      PROVE  /\ Top'.code = Top.code /\ Top'.at = Top.at + 1
             /\ Top'.divisor = Top.divisor
  <2>1. PICK f : f = [Top EXCEPT !.at = @ + 1, !.acc = x]
    OBVIOUS
  <2>2. Top' = f
    BY <1>3, <1>7, <2>1 DEF Keep
  <2>3. f.code = top.code /\ f.at = top.at + 1 /\ f.divisor = top.divisor
    BY <1>1, <1>4, <2>1
  <2> QED BY <1>4, <2>2, <2>3
<1>8. ASSUME NEW d, Continue([Top EXCEPT !.at = @ + 1, !.divisor = d])
      PROVE  Top'.code = Top.code /\ Top'.at = Top.at + 1 /\ Top'.divisor = d
  <2>1. PICK f : f = [Top EXCEPT !.at = @ + 1, !.divisor = d]
    OBVIOUS
  <2>2. Top' = f
    BY <1>3, <1>8, <2>1
  <2>3. f.code = top.code /\ f.at = top.at + 1 /\ f.divisor = d
    BY <1>1, <1>4, <2>1
  <2> QED BY <1>4, <2>2, <2>3
<1> QED BY <1>5, <1>6, <1>7, <1>8

(* Operations that leave these variables alone and go on. *)
LEMMA PlainEffects ==
  ASSUME BoardInv, Running, NextOp \/ (\E x : Keep(x)),
         UNCHANGED <<div, garbled, mem, dl>>, shift' = shift \/ ShiftOn,
         Op.op \notin Jumpers \cup {"divisor", "divide", "set", "divisor_lo", "divisor_hi"}
  PROVE  Effects
<1>1. Top'.code = Top.code /\ Top'.at = Top.at + 1 /\ Top'.divisor = Top.divisor
  BY Went
<1>2. Goes(Top.at + 1)
  BY DEF Goes, Jumpers, Skips
<1> QED BY <1>1, <1>2 DEF Effects, Jumpers, Skips

LEMMA JumpingEffects == ASSUME BoardInv, Jumping PROVE Effects
<1>1. /\ Running /\ UNCHANGED <<div, garbled, mem, dl, shift>>
      /\ Op.op \in {"back", "skip_if_init", "break", "until", "skip_unless_done"}
  BY DEF Jumping, Perform, outside, uart, sent
<1>2. /\ Op = Here[Top.at] /\ Top.at \in 1 .. Len(Here) /\ Code = Here
      /\ Top.at \in Nat \ {0} /\ Len(Here) \in Nat
  BY <1>1, TopFacts
<1>3. ASSUME NEW t, Goto(t), Goes(t) PROVE Effects
  <2>1. Top'.code = Top.code /\ Top'.at = t /\ Top'.divisor = Top.divisor
    BY <1>1, <1>3, Went
  <2> QED BY <1>1, <1>3, <2>1 DEF Effects
<1>4. Text(Here, Kinds(Top.code, job)) /\ Jumps(Here, Top.at)
  BY <1>2, TopFacts DEF Text, Part
<1>5. CASE Perform("back") /\ Goto(Top.at - Op.by)
  <2>1. Goes(Top.at - Op.by)
    BY <1>5 DEF Perform, Goes
  <2> QED BY <1>3, <1>5, <2>1
<1>6. CASE Perform("skip_if_init") /\ Skip(IF mem.is_init THEN Op.by ELSE 0)
  <2>1. Goes(Top.at + 1 + (IF mem.is_init THEN Op.by ELSE 0))
    BY <1>6 DEF Perform, Goes
  <2> QED BY <1>3, <1>6, <2>1 DEF Skip
<1>7. \A n \in Nat : Op.op \in {"break", "until", "skip_unless_done"} /\ Skip(n) => Effects
  <2> SUFFICES ASSUME NEW n \in Nat, Op.op \in {"break", "until", "skip_unless_done"}, Skip(n)
               PROVE  Effects
    OBVIOUS
  <2>1. Top.at + 1 + n > Top.at
    BY <1>2
  <2>2. Goes(Top.at + 1 + n)
    BY <2>1 DEF Goes, Jumpers, Skips
  <2> QED BY <1>3, <2>2 DEF Skip
<1>8. CASE Perform("until") /\ Skip(IF mem[Op.var] = Op.is THEN 1 ELSE 0)
  <2>1. Skip(0) \/ Skip(1)
    BY <1>8
  <2> QED BY <1>7, <1>8, <2>1 DEF Perform
<1>9. CASE /\ Perform("skip_unless_done")
           /\ LET done == Top.acc = CR \/ (Op.full /\ mem.buf = BufferSize)
              IN  Skip(IF done THEN 0 ELSE Op.by)
  <2>1. Op.by \in Nat
    BY <1>2, <1>4, <1>9 DEF Perform, Jumps, Skips
  <2>2. Skip(0) \/ Skip(Op.by)
    BY <1>9
  <2> QED BY <1>7, <1>9, <2>1, <2>2 DEF Perform
<1>10. CASE /\ Perform("break")
            /\ IF mem[Op.var] = Op.is
               THEN Goto(1 + CHOOSE n \in Top.at .. Len(Code) :
                               /\ Code[n].op = "back"
                               /\ \A k \in Top.at .. n - 1 : Code[k].op # "back")
               ELSE NextOp
  <2>1. PICK m : m = CHOOSE n \in Top.at .. Len(Code) :
                       /\ Code[n].op = "back"
                       /\ \A k \in Top.at .. n - 1 : Code[k].op # "back"
    OBVIOUS
  <2>2. Here[Top.at].op = "break" /\ Op.op = "break"
    BY <1>2, <1>10 DEF Perform
  <2>3. PICK s : s = Here
    OBVIOUS
  <2>4. m = CHOOSE n \in Top.at .. Len(s) :
              s[n].op = "back" /\ \A k \in Top.at .. n - 1 : s[k].op # "back"
    BY <1>2, <2>1, <2>3
  <2>5. m \in Top.at .. Len(Here)
    BY <1>2, <1>4, <2>2, <2>3, <2>4, FirstBack
  <2>6. 1 + m > Top.at
    BY <1>2, <2>5
  <2>7. Goes(1 + m)
    BY <2>2, <2>6 DEF Goes, Jumpers, Skips
  <2>8. Goto(1 + m) \/ Skip(0)
    BY <2>1, <1>10 DEF NextOp
  <2> QED BY <1>3, <1>7, <2>2, <2>7, <2>8
<1> QED BY <1>5, <1>6, <1>8, <1>9, <1>10 DEF Jumping

LEMMA StoringEffects == ASSUME BoardInv, Storing PROVE Effects
<1>1. /\ Running /\ UNCHANGED <<div, garbled, dl, shift>> /\ NextOp
      /\ Op.op \in {"set", "quit_if_q", "push", "clear_buffer"}
  BY DEF Storing, Perform, outside, uart, sent
<1>2. Top'.code = Top.code /\ Top'.at = Top.at + 1 /\ Top'.divisor = Top.divisor
  BY <1>1, Went
<1>3. Goes(Top.at + 1)
  BY <1>1 DEF Goes, Jumpers, Skips
<1>4. ASSUME "is_init" \in DOMAIN mem
      PROVE  /\ "is_init" \in DOMAIN mem'
             /\ Op.op # "set" \/ Op.var # "is_init" => mem'.is_init = mem.is_init
             /\ Op.op = "set" /\ Op.var = "is_init" => mem'.is_init = Op.to
  <2>1. CASE Op.op = "set"
    <3>1. mem' = [mem EXCEPT ![Op.var] = Op.to]
      BY <2>1 DEF Storing, Perform
    <3> QED BY <1>4, <2>1, <3>1
  <2>2. CASE Op.op # "set"
    BY <1>4, <2>2 DEF Storing, Perform
  <2> QED BY <2>1, <2>2
<1> QED BY <1>1, <1>2, <1>3, <1>4 DEF Effects

LEMMA ConfiguringEffects == ASSUME BoardInv, Configuring PROVE Effects
<1>1. /\ Running /\ UNCHANGED <<garbled, mem, dl, shift>> /\ NextOp
      /\ Op.op \in {"mie", "irq", "alarm", "unpend", "divide"}
      /\ div' = IF Op.op = "divide" THEN 1 ELSE div
  BY DEF Configuring, Perform, uart, sent
<1>2. Top'.code = Top.code /\ Top'.at = Top.at + 1 /\ Top'.divisor = Top.divisor
  BY <1>1, Went
<1>3. Goes(Top.at + 1)
  BY <1>1 DEF Goes, Jumpers, Skips
<1> QED BY <1>1, <1>2, <1>3 DEF Effects

LEMMA RegisterEffects ==
  ASSUME BoardInv, \/ ReadGpio \/ WriteGpio \/ ReadLcr \/ WriteLcr \/ ClearFifos
                   \/ Poll \/ ReadChar
  PROVE  Effects
<1>1. CASE ReadGpio \/ ReadLcr \/ ReadChar
  <2>1. /\ Running /\ UNCHANGED <<div, garbled, mem, dl, shift>> /\ \E x : Keep(x)
        /\ Op.op \in {"read_gpio", "read_lcr", "read"}
    BY <1>1 DEF ReadGpio, ReadLcr, ReadChar, Perform, outside, uart, sent
  <2> QED BY <2>1, PlainEffects DEF Jumpers, Skips
<1>2. CASE WriteGpio \/ Poll
  <2>1. /\ Running /\ UNCHANGED <<div, garbled, mem, dl, shift>> /\ NextOp
        /\ Op.op \in {"write_gpio", "poll_empty", "poll_data"}
    BY <1>2 DEF WriteGpio, Poll, Perform, outside, uart, sent
  <2> QED BY <2>1, PlainEffects DEF Jumpers, Skips
<1>3. CASE WriteLcr
  <2>1. /\ Running /\ UNCHANGED <<div, garbled, mem, dl>> /\ NextOp /\ ShiftOn
        /\ Op.op = "write_lcr"
    BY <1>3 DEF WriteLcr, Perform, outside, sent
  <2> QED BY <2>1, PlainEffects DEF Jumpers, Skips
<1>4. CASE ClearFifos
  <2>1. /\ Running /\ UNCHANGED <<div, garbled, mem, dl, shift>> /\ NextOp
        /\ Op.op = "clear_fifos"
    BY <1>4 DEF ClearFifos, Perform, sent
  <2> QED BY <2>1, PlainEffects DEF Jumpers, Skips
<1> QED BY <1>1, <1>2, <1>3, <1>4

LEMMA WriteIerEffects == ASSUME BoardInv, WriteIer PROVE Effects
<1>1. /\ Running /\ UNCHANGED <<div, garbled, mem>> /\ NextOp /\ ShiftOn
      /\ Op.op \in {"write", "divisor_hi"}
      /\ ~lcr.dlab => dl' = dl
      /\ lcr.dlab /\ Op.op = "divisor_hi" => dl' = [dl EXCEPT !.hi = Top.divisor \div 256]
  BY DEF WriteIer, WriteIerDlm, Perform, sent
<1>2. Top'.code = Top.code /\ Top'.at = Top.at + 1 /\ Top'.divisor = Top.divisor
  BY <1>1, Went
<1>3. Goes(Top.at + 1)
  BY <1>1 DEF Goes, Jumpers, Skips
<1> QED BY <1>1, <1>2, <1>3 DEF Effects

LEMMA WriteCharEffects == ASSUME BoardInv, WriteChar PROVE Effects
<1>1. PICK c : WriteThrDll(c) /\ (Op.op = "divisor_lo" => c = Top.divisor % 256)
  BY DEF WriteChar, Perform
<1>2. /\ Running /\ NextOp /\ ShiftOn /\ Op.op \in {"write", "write_acc", "divisor_lo"}
      /\ UNCHANGED <<div, mem>>
  BY <1>1 DEF WriteChar, WriteThrDll, Perform, outside
<1>3. garbled' = garbled /\ (~lcr.dlab => dl' = dl)
      /\ (lcr.dlab => dl' = [dl EXCEPT !.lo = c])
  BY <1>1 DEF WriteThrDll, sent
<1>4. Top'.code = Top.code /\ Top'.at = Top.at + 1 /\ Top'.divisor = Top.divisor
  BY <1>2, Went
<1>5. Goes(Top.at + 1)
  BY <1>2 DEF Goes, Jumpers, Skips
<1> QED BY <1>1, <1>2, <1>3, <1>4, <1>5 DEF Effects

LEMMA ComputeEffects == ASSUME BoardInv, ComputeDivisor PROVE Effects
<1>1. PICK d : d = DivisorFor(target, IF Op.by = "register" THEN div ELSE 2)
  OBVIOUS
<1>2. /\ Running /\ UNCHANGED <<div, garbled, mem, dl, shift>> /\ Op.op = "divisor"
      /\ Continue([Top EXCEPT !.at = @ + 1, !.divisor = d])
  BY <1>1 DEF ComputeDivisor, Perform, outside, uart, sent
<1>3. Top'.code = Top.code /\ Top'.at = Top.at + 1 /\ Top'.divisor = d
  BY <1>2, Went
<1>4. Goes(Top.at + 1)
  BY <1>2 DEF Goes, Jumpers, Skips
<1> QED BY <1>1, <1>2, <1>3, <1>4 DEF Effects

AppGoesOn ==
  /\ Perform("app") /\ NextOp
  /\ UNCHANGED <<mie, cause, ie, div, uart, mem>>

(* The operations of the context on top, but for a fault. *)
Acting ==
  \/ Jumping \/ Storing \/ Configuring \/ ReadGpio \/ WriteGpio \/ ReadLcr
  \/ WriteLcr \/ WriteIer \/ WriteChar \/ ComputeDivisor \/ ClearFifos \/ Poll
  \/ ReadChar \/ AppGoesOn

LEMMA Acts ==
  ASSUME BoardInv, Acting
  PROVE  Running /\ Effects /\ \E g : Moves(Op, g)
<1>1. CASE AppGoesOn
  <2>1. /\ Running /\ Op.op = "app" /\ NextOp
        /\ UNCHANGED <<chosen, ie, mie, cause, div, garbled, mem, dl, shift, lcr, fifo>>
    BY <1>1 DEF AppGoesOn, Perform, uart, sent
  <2>2. Effects
    BY <2>1, PlainEffects DEF Jumpers, Skips
  <2>3. \E g : Moves(Op, g)
    BY <2>1, PlainMoves
  <2> QED BY <2>1, <2>2, <2>3
<1>2. CASE Acting /\ ~AppGoesOn
  <2>1. Running
    BY <1>2 DEF Acting, Jumping, Storing, Configuring, ReadGpio, WriteGpio, ReadLcr,
      WriteLcr, WriteIer, WriteChar, ComputeDivisor, ClearFifos, Poll, ReadChar, Perform
  <2>2. Effects
    BY <1>2, JumpingEffects, StoringEffects, ConfiguringEffects, RegisterEffects,
       WriteIerEffects, WriteCharEffects, ComputeEffects DEF Acting
  <2>3. \E g : Moves(Op, g)
    BY <1>2, JumpingMoves, StoringMoves, ConfiguringMoves, GpioMoves, LcrMoves,
       WriteIerMoves, WriteCharMoves, ComputeMoves, FifoMoves DEF Acting
  <2> QED BY <2>1, <2>2, <2>3
<1> QED BY <1>1, <1>2

-----------------------------------------------------------------------------
(* What is known of the UART at each stage.                                *)

TheDivisor == DivisorFor(target, div)
Eight == [dlab |-> FALSE, bits |-> 8]
Five == [dlab |-> FALSE, bits |-> 5]

(* What is known of the UART and its driver at stage k. *)
Known(k) ==
  /\ k \in 0 .. 4 => ~lcr.dlab
  /\ k \in 5 .. 7 => lcr.dlab
  /\ k \in 2 .. 6 => Top.divisor = TheDivisor
  /\ k \in 6 .. 12 => dl.lo = TheDivisor % 256
  /\ k \in 7 .. 12 => dl.hi = TheDivisor \div 256
  /\ k \in 8 .. 12 => lcr = Eight
  /\ k = 9 => Top.acc = Eight

(* Who has initialised the UART, and whether it is. *)
StageInv ==
  /\ "is_init" \in DOMAIN mem
  /\ \A n \in 1 .. Len(stack) :
       /\ Stage(stack[n]) = 12 => mem.is_init
       /\ Stage(stack[n]) \in 1 .. 11 => n = Len(stack) /\ ~mem.is_init
  /\ Len(stack) = 1 /\ Stage(Top) = 0 => ~mem.is_init
  /\ mie \/ Top.code \in Irqs => Stage(stack[1]) = 12
  /\ Hears(1, 21) => Len(stack) = 1 /\ ~mie

(* The format and the rate, then. *)
RateInv ==
  /\ dl = [lo |-> dl.lo, hi |-> dl.hi]
  /\ div \in Dividers \cup {1}
  /\ ~mem.is_init => Known(Stage(Top)) /\ fifo = <<>> /\ shift = <<>>
  /\ mem.is_init /\ ~Hears(19, 20) => Known(12)
  /\ Hears(19, 20) =>
       lcr = Five /\ dl.lo = TheDivisor % 256 /\ dl.hi = TheDivisor \div 256
  /\ Hears(18, 20) => Top.acc = Eight

OneShift ==
  /\ IsSeq(shift) /\ Len(shift) <= 1
  /\ \A n \in 1 .. Len(shift) : "ok" \in DOMAIN shift[n]

Bad == IF shift # <<>> /\ ~shift[1].ok THEN 1 ELSE 0
Past(a) == job = "uart_irq" /\ stack[1].at > a

(* What has been garbled, and what still can be. *)
CountInv ==
  /\ garbled \in Nat /\ OneShift
  /\ ~Past(18) => garbled = 0 /\ Bad = 0
  /\ Hears(1, 18) => Len(fifo) + Poised(Top, Here) <= 1
  /\ Hears(19, 20) => garbled + Len(shift) + Len(fifo) <= 2
  /\ Past(20) => garbled + Bad <= 2

FormatInv == job # "minimal" => StageInv /\ RateInv /\ CountInv

(* The stage does not depend on the step. *)
LEMMA StageStays ==
  ASSUME job' = job
  PROVE  \A f, g : f = g => Stage(g)' = Stage(f)
BY DEF Stage, Offset

(* The stages after a step of the context on top. *)
LEMMA StageStep ==
  ASSUME BoardInv, job # "minimal", Acting
  PROVE  /\ Len(stack') = Len(stack) /\ job' = job
         /\ \A n \in 1 .. Len(stack) - 1 : stack'[n] = stack[n]
         /\ Top' = stack'[Len(stack)] /\ Top'.code = Top.code
         /\ Top'.at \in Nat /\ Goes(Top'.at)
         /\ \A n \in 1 .. Len(stack) - 1 : Stage(stack[n])' = Stage(stack[n])
         /\ \/ /\ Stage(Top) = 0 /\ Top.code = "main" /\ Stage(Top)' \in {0, 1}
               /\ Op.op \in Before \cup {"read_gpio", "write_gpio", "back"}
            \/ /\ Stage(Top) = 0 /\ Top.code # "main" /\ Op.op = "skip_if_init"
               /\ Stage(Top)' = IF mem.is_init THEN 12 ELSE 1
            \/ /\ Stage(Top) \in 1 .. 11 /\ Op = InitUart[Stage(Top)]
               /\ Stage(Top)' = Stage(Top) + 1
            \/ /\ Stage(Top) = 12 /\ Stage(Top)' = 12
               /\ Late(Op) \/ (/\ job = "uart_irq" /\ Top.code = "main"
                               /\ Top.at \in 17 .. 20 /\ Op = Listen(OnData)[Top.at - 16])
<1>1. PICK g : Moves(Op, g)
  BY Acts
<1>2. Running /\ Effects
  BY Acts
<1>3. /\ Len(stack') = Len(stack) /\ Top' = g /\ stack'[Len(stack)] = g
      /\ \A n \in 1 .. Len(stack) - 1 : stack'[n] = stack[n]
  BY <1>1, TopMoves
<1>4. job' = job
  BY <1>1 DEF Moves, chosen
<1>5. g.code = Top.code /\ Goes(g.at)
  BY <1>2, <1>3 DEF Effects
<1>6. g.at \in Nat
  <2>1. g.at \in 1 .. Len(Here) + 1
    BY <1>1 DEF Moves, Moved, Arrives
  <2> QED BY <2>1, TopFacts
<1>7. Stage(Top)' = Stage(g)
  BY <1>3, <1>4 DEF Stage, Offset
<1>8. ASSUME NEW n \in 1 .. Len(stack) - 1 PROVE Stage(stack[n])' = Stage(stack[n])
  BY <1>3, <1>4, <1>8 DEF Stage, Offset
<1> QED BY <1>2, <1>3, <1>4, <1>5, <1>6, <1>7, <1>8, Stages

(* A main program has only itself, and whoever is not on top stays. *)
LEMMA MainAlone ==
  ASSUME BoardInv
  PROVE  /\ Len(stack) \in 1 .. 3 /\ stack[1].code = "main"
         /\ Top.code = "main" <=> Len(stack) = 1
         /\ Len(stack) = 1 => Top = stack[1]
<1>1. Len(stack) \in 1 .. 3 /\ \A n \in 1 .. Len(stack) : n = 1 <=> stack[n].code = "main"
  BY DEF BoardInv, Nesting
<1>2. Len(stack) \in 1 .. Len(stack) /\ 1 \in 1 .. Len(stack)
  BY <1>1
<1> QED BY <1>1, <1>2, TopFacts

(* How far the main program of uart_irq is. *)
LEMMA HearsStep ==
  ASSUME BoardInv, job = "uart_irq", Acting
  PROVE  /\ stack[1].at \in Nat /\ stack'[1].at \in Nat
         /\ Len(stack) = 1 =>
              IF stack[1].at <= 21
              THEN stack'[1].at = stack[1].at + 1 /\ (Op.op = "mie" => stack[1].at = 21)
              ELSE stack'[1].at > 21
         /\ Len(stack) # 1 => stack'[1].at = stack[1].at
<1>1. job # "minimal"
  OBVIOUS
<1>2. Running
  BY Acts
<1>3. CASE Len(stack) = 1
  <2>1. Top = stack[1] /\ Top.code = "main"
    BY <1>3, MainAlone
  <2>2. PICK t : t = Top'.at
    OBVIOUS
  <2>3. Top' = stack'[1] /\ t \in Nat /\ Goes(t)
    BY <1>1, <1>3, <2>2, StageStep
  <2>4. IF Top.at <= 21 THEN t = Top.at + 1 /\ (Op.op = "mie" => Top.at = 21) ELSE t > 21
    BY <1>2, <2>1, <2>3, Hearing
  <2>5. Top.at \in Nat
    BY TopFacts
  <2> QED BY <1>3, <2>1, <2>2, <2>3, <2>4, <2>5
<1>4. CASE Len(stack) # 1
  <2>1. 1 \in 1 .. Len(stack) - 1 /\ 1 \in 1 .. Len(stack)
    BY <1>4, MainAlone
  <2>2. stack'[1] = stack[1]
    BY <1>1, <2>1, StageStep
  <2>3. stack[1].at \in 1 .. Len(TextOf(1)) + 1
    BY <2>1 DEF BoardInv, Nesting, Frame
  <2>4. Len(TextOf(1)) \in Nat
    <3>1. TextOf(1) = TextAt(stack[1].code, job, target, cause) /\ stack[1].code \in Frames
      BY MainAlone DEF TextOf, Frames
    <3>2. IsSeq(TextOf(1))
      BY <3>1, Texts DEF BoardInv, Text, Part
    <3> QED BY <3>2, Joined
  <2> QED BY <1>4, <2>2, <2>3, <2>4
<1> QED BY <1>3, <1>4

(* With the right divisor and frame every character is legible. *)
LEMMA KnownLegible ==
  ASSUME BoardInv, RateInv, mem.is_init, ~Hears(19, 20) PROVE Legible
<1>1. Known(12)
  BY DEF RateInv
<1>2. lcr = Eight /\ dl.lo = TheDivisor % 256 /\ dl.hi = TheDivisor \div 256
  BY <1>1 DEF Known
<1>3. target \in Targets /\ div \in Dividers \cup {1}
  BY DEF BoardInv, RateInv
<1>4. Fits(TheDivisor, target, div)
  BY <1>3, RateAssumption DEF UsableRates, TheDivisor
<1>5. TheDivisor \in 1 .. 255
  BY <1>4 DEF Fits
<1>6. Rate = TheDivisor
  BY <1>2, <1>5 DEF Rate
<1> QED BY <1>2, <1>4, <1>6 DEF Legible, RightRate, Eight

(* A character that is being sent. *)
LEMMA ShiftStep ==
  ASSUME OneShift, shift' = shift \/ ShiftOn
  PROVE  /\ OneShift' /\ Len(shift') = Len(shift)
         /\ shift' = <<>> <=> shift = <<>>
         /\ Legible' /\ Bad = 0 => Bad' = 0
         /\ Bad \in {0, 1} /\ Bad' \in {0, 1} /\ Bad <= Len(shift) /\ Bad' <= Len(shift)
<1>1. IsSeq(shift) /\ Len(shift) \in Nat /\ Len(shift) <= 1
  BY Joined DEF OneShift
<1>2. PICK l : l = Len(shift)
  OBVIOUS
<1>3. l \in {0, 1}
  BY <1>1, <1>2
<1>4. DOMAIN shift = 1 .. l
  BY <1>1, <1>2 DEF IsSeq
<1>5. l = 0 <=> shift = <<>>
  BY <1>1, <1>2 DEF IsSeq
<1>6. CASE shift' = shift
  BY <1>1, <1>2, <1>3, <1>5, <1>6 DEF OneShift, Bad
<1>7. CASE ShiftOn
  <2>1. shift' = [n \in 1 .. l |-> [shift[n] EXCEPT !.ok = @ /\ Legible']]
    BY <1>4, <1>7 DEF ShiftOn
  <2>2. PICK w : w = shift'
    OBVIOUS
  <2>3. w \in Seq({w[n] : n \in 1 .. l}) /\ Len(w) = l
    BY <1>3, <2>1, <2>2
  <2>4. IsSeq(w) /\ Len(w) = l /\ (l = 0 <=> w = <<>>)
    BY <1>3, <2>3, IsSeqIntro
  <2>5. ASSUME l = 1
        PROVE  "ok" \in DOMAIN w[1] /\ (w[1].ok <=> shift[1].ok /\ Legible')
    <3>1. w[1] = [shift[1] EXCEPT !.ok = @ /\ Legible']
      BY <2>1, <2>2, <2>5
    <3>2. "ok" \in DOMAIN shift[1]
      BY <1>2, <2>5 DEF OneShift
    <3> QED BY <3>1, <3>2
  <2>6. \A n \in 1 .. l : "ok" \in DOMAIN w[n]
    BY <1>3, <2>5
  <2>7. OneShift'
    BY <1>1, <1>2, <2>2, <2>4, <2>6 DEF OneShift, IsSeq
  <2>8. Legible' /\ Bad = 0 => Bad' = 0
    BY <1>3, <1>5, <2>2, <2>4, <2>5 DEF Bad
  <2>9. Bad \in {0, 1} /\ Bad' \in {0, 1} /\ Bad <= Len(shift) /\ Bad' <= Len(shift)
    BY <1>2, <1>3, <1>5, <2>2, <2>4 DEF Bad
  <2> QED BY <1>2, <1>5, <2>2, <2>4, <2>7, <2>8, <2>9
<1> QED BY <1>6, <1>7

(* Interrupts are only enabled by a main program. *)
LEMMA MieMain ==
  ASSUME BoardInv, Running, Op.op = "mie" PROVE Len(stack) = 1
<1>1. Op = Here[Top.at] /\ Top.at \in 1 .. Len(Here)
  BY TopFacts
<1>2. Op.op \in Kinds(Top.code, job)
  BY <1>1, TopFacts DEF Text, Part, Uses
<1>3. Top.code = "main"
  BY <1>2, TopFacts DEF Kinds, Handling, Service, Irqs, Frames
<1> QED BY <1>3, MainAlone

(* What the operation of a stage may be. *)
LEMMA StageOps ==
  ASSUME BoardInv, job # "minimal", Acting
  PROVE  /\ Stage(Top) \in 0 .. 12
         /\ Stage(Top) # 12 => Op.op \notin {"mie", "app"} \/ Stage(Top) = 0
         /\ Op.op = "mie" => Stage(Top) = 12
         /\ Stage(Top) # 11 => Op.op # "set" \/ Op.var # "is_init"
         /\ Stage(Top) = 11 => Op = [op |-> "set", var |-> "is_init", to |-> TRUE]
<1>1. CASE Stage(Top) = 0
  BY <1>1, StageStep DEF Before
<1>2. CASE Stage(Top) \in 1 .. 11
  <2>1. Op = InitUart[Stage(Top)]
    BY <1>2, StageStep
  <2>2. Op.op \notin {"mie", "app"}
    BY <1>2, <2>1, InitPlain
  <2>3. Stage(Top) \in {1, 2, 3, 4, 5, 6, 7, 8, 9, 10, 11}
    BY <1>2
  <2>4. Stage(Top) # 11 => Op.op # "set"
    BY <2>1, <2>3, InitList
  <2>5. Stage(Top) = 11 => Op = [op |-> "set", var |-> "is_init", to |-> TRUE]
    BY <2>1, InitList
  <2> QED BY <1>2, <2>2, <2>4, <2>5
<1>3. CASE Stage(Top) = 12
  <2>1. CASE Late(Op)
    BY <1>3, <2>1 DEF Late
  <2>2. CASE Top.at \in 17 .. 20 /\ Op = Listen(OnData)[Top.at - 16]
    <3>1. Top.at - 16 \in {1, 2, 3, 4}
      BY <2>2
    <3>2. Op.op # "set"
      BY <2>2, <3>1, ListenList
    <3> QED BY <1>3, <3>2
  <2> QED BY <1>3, <2>1, <2>2, StageStep
<1> QED BY <1>1, <1>2, <1>3, StageStep

LEMMA ActingInit ==
  ASSUME BoardInv, job # "minimal", Acting, StageInv
  PROVE  /\ "is_init" \in DOMAIN mem'
         /\ Stage(Top) # 11 => mem'.is_init = mem.is_init
         /\ Stage(Top) = 11 => mem'.is_init
<1>1. Effects /\ "is_init" \in DOMAIN mem
  BY Acts DEF StageInv
<1>2. CASE Stage(Top) # 11
  BY <1>1, <1>2, StageOps DEF Effects
<1>3. CASE Stage(Top) = 11
  <2>1. Op.op = "set" /\ Op.var = "is_init" /\ Op.to = TRUE
    BY <1>3, StageOps
  <2> QED BY <1>1, <1>3, <2>1 DEF Effects
<1> QED BY <1>2, <1>3

LEMMA StageActs ==
  ASSUME BoardInv, job # "minimal", Acting, StageInv
  PROVE  StageInv'
<1>1. PICK l : l = Len(stack)
  OBVIOUS
<1>2. l \in 1 .. 3 /\ l \in 1 .. l /\ Top = stack[l]
  BY <1>1, MainAlone, TopFacts
<1>3. /\ Len(stack') = l /\ job' = job /\ Top' = stack'[l] /\ Top'.code = Top.code
      /\ \A n \in 1 .. l - 1 : stack'[n] = stack[n]
      /\ \A n \in 1 .. l - 1 : Stage(stack[n])' = Stage(stack[n])
  BY <1>1, StageStep
<1>4. PICK k : k = Stage(Top)
  OBVIOUS
<1>5. PICK m : m = Stage(Top)'
  OBVIOUS
<1>6. \/ k = 0 /\ Top.code = "main" /\ m \in {0, 1}
      \/ k = 0 /\ Top.code # "main" /\ m = IF mem.is_init THEN 12 ELSE 1
      \/ k \in 1 .. 11 /\ m = k + 1
      \/ k = 12 /\ m = 12
  BY <1>4, <1>5, StageStep
<1>7. /\ "is_init" \in DOMAIN mem'
      /\ k # 11 => mem'.is_init = mem.is_init
      /\ k = 11 => mem'.is_init
  BY <1>4, ActingInit
<1>8. \A n \in 1 .. l :
        /\ Stage(stack[n]) = 12 => mem.is_init
        /\ Stage(stack[n]) \in 1 .. 11 => n = l /\ ~mem.is_init
  BY <1>1 DEF StageInv
<1>9. /\ k = 12 => mem.is_init
      /\ k \in 1 .. 11 => ~mem.is_init
      /\ Top.code = "main" => l = 1
      /\ l = 1 => Top = stack[1]
      /\ l = 1 /\ k = 0 => ~mem.is_init
  <2>1. l = 1 /\ k = 0 => ~mem.is_init
    BY <1>1, <1>4 DEF StageInv
  <2> QED BY <1>1, <1>2, <1>4, <1>8, <2>1, MainAlone
<1>10. /\ m = 12 => mem'.is_init
       /\ m \in 1 .. 11 => ~mem'.is_init
       /\ l = 1 /\ m = 0 => ~mem'.is_init
  BY <1>2, <1>6, <1>7, <1>9
<1>11. ASSUME NEW n \in 1 .. l
       PROVE  /\ Stage(stack[n])' = 12 => mem'.is_init
              /\ Stage(stack[n])' \in 1 .. 11 => n = l /\ ~mem'.is_init
  <2>1. CASE n = l
    <3>1. Stage(stack[n])' = m
      BY <1>3, <1>5, <2>1
    <3> QED BY <1>10, <2>1, <3>1
  <2>2. CASE n # l
    <3>1. n \in 1 .. l - 1
      BY <1>2, <2>2
    <3>2. Stage(stack[n])' = Stage(stack[n])
      BY <1>3, <3>1
    <3>3. Stage(stack[n]) \notin 1 .. 11
      BY <1>8, <2>2
    <3>4. Stage(stack[n]) = 12 => mem'.is_init
      BY <1>7, <1>8
    <3> QED BY <3>2, <3>3, <3>4
  <2> QED BY <2>1, <2>2
<1>12. ASSUME mie' \/ Top'.code \in Irqs PROVE Stage(stack[1])' = 12
  <2>1. PICK g : Moves(Op, g)
    BY Acts
  <2>2. mie' = mie \/ Op.op = "mie"
    BY <2>1 DEF Moves
  <2>3. CASE Op.op = "mie"
    <3>1. l = 1
      BY <1>1, <2>3, Acts, MieMain
    <3>2. k = 12
      BY <1>4, <2>3, StageOps
    <3>3. m = 12
      BY <1>6, <3>2
    <3> QED BY <1>3, <1>5, <3>1, <3>3
  <2>4. CASE Op.op # "mie"
    <3>1. mie \/ Top.code \in Irqs
      BY <1>3, <1>12, <2>2, <2>4
    <3>2. Stage(stack[1]) = 12
      BY <3>1 DEF StageInv
    <3>3. CASE l = 1
      <4>1. k = 12
        BY <1>4, <1>9, <3>2, <3>3
      <4>2. m = 12
        BY <1>6, <4>1
      <4> QED BY <1>3, <1>5, <3>3, <4>2
    <3>4. CASE l # 1
      <4>1. 1 \in 1 .. l - 1
        BY <1>2, <3>4
      <4> QED BY <1>3, <3>2, <4>1
    <3> QED BY <3>3, <3>4
  <2> QED BY <2>3, <2>4
<1>13. ASSUME Hears(1, 21)' PROVE l = 1 /\ ~mie'
  <2>1. job = "uart_irq" /\ stack'[1].at \in 1 .. 21
    BY <1>3, <1>13 DEF Hears
  <2>2. PICK a : a = stack[1].at
    OBVIOUS
  <2>3. PICK b : b = stack'[1].at
    OBVIOUS
  <2>4. /\ a \in Nat /\ b \in Nat /\ b \in 1 .. 21
        /\ l = 1 => IF a <= 21 THEN b = a + 1 /\ (Op.op = "mie" => a = 21) ELSE b > 21
        /\ l # 1 => b = a
    BY <1>1, <2>1, <2>2, <2>3, HearsStep
  <2>5. l = 1 => Top.at \in Nat \ {0} /\ Top = stack[1]
    BY <1>9, TopFacts
  <2>6. a \in 1 .. 21
    <3>1. CASE l = 1
      BY <2>2, <2>4, <2>5, <3>1
    <3>2. CASE l # 1
      BY <2>4, <3>2
    <3> QED BY <3>1, <3>2
  <2>7. l = 1 /\ ~mie
    BY <1>1, <2>1, <2>2, <2>6 DEF StageInv, Hears
  <2>8. Op.op # "mie"
    BY <2>4, <2>6, <2>7
  <2>9. PICK g : Moves(Op, g)
    BY Acts
  <2>10. mie' = mie
    BY <2>8, <2>9 DEF Moves
  <2> QED BY <2>7, <2>10
<1>14. Len(stack)' = 1 /\ Stage(Top)' = 0 => ~mem'.is_init
  BY <1>3, <1>5, <1>10
<1>15. Len(stack)' = l
  BY <1>3
<1> QED BY <1>7, <1>11, <1>12, <1>13, <1>14, <1>15 DEF StageInv

(* What a step of the context on top does to the UART. *)
LEMMA UartActs ==
  ASSUME BoardInv, job # "minimal", Acting, RateInv
  PROVE  /\ job' = job /\ target' = target
         /\ div' \in Dividers \cup {1}
         /\ Op.op # "divide" => div' = div /\ TheDivisor' = TheDivisor
         /\ dl = [lo |-> dl.lo, hi |-> dl.hi]
         /\ Op.op # "write_lcr" => lcr' = lcr
         /\ Op.op = "write_lcr" => lcr' = Lcr(Op.how)
         /\ Op.op = "read_lcr" => Top'.acc = lcr
         /\ Op.op \in {"write", "write_lcr"} => Top'.acc = Top.acc
         /\ Op.op # "divisor" => Top'.divisor = Top.divisor
         /\ Op.op = "divisor" /\ Op.by = "register" => Top'.divisor = TheDivisor
         /\ ~lcr.dlab => dl' = dl
         /\ Op.op \notin {"write", "write_acc", "divisor_lo", "divisor_hi"} => dl' = dl
         /\ lcr.dlab /\ Op.op = "divisor_lo" =>
              dl' = [lo |-> Top.divisor % 256, hi |-> dl.hi]
         /\ lcr.dlab /\ Op.op = "divisor_hi" =>
              dl' = [lo |-> dl.lo, hi |-> Top.divisor \div 256]
         /\ fifo = <<>> /\ ~Sending(Op) => fifo' = <<>>
         /\ shift = <<>> => shift' = <<>>
<1>1. PICK g : Moves(Op, g)
  BY Acts
<1>2. Effects
  BY Acts
<1>3. Top' = g
  BY <1>1, TopMoves
<1>4. /\ job' = job /\ target' = target
      /\ Op.op = "read_lcr" => g.acc = lcr
      /\ Op.op \in {"write", "write_lcr"} => g.acc = Top.acc
      /\ lcr' = IF Op.op = "write_lcr" THEN Lcr(Op.how) ELSE lcr
      /\ fifo = <<>> /\ ~Sending(Op) => fifo' = <<>>
  BY <1>1 DEF Moves, chosen
<1>5. div \in Dividers \cup {1} /\ dl = [lo |-> dl.lo, hi |-> dl.hi]
  BY DEF RateInv
<1>6. div' = IF Op.op = "divide" THEN 1 ELSE div
  BY <1>2 DEF Effects
<1>7. PICK d : d = dl
  OBVIOUS
<1>8. /\ lcr.dlab /\ Op.op = "divisor_lo" =>
           dl' = [lo |-> Top.divisor % 256, hi |-> dl.hi]
      /\ lcr.dlab /\ Op.op = "divisor_hi" =>
           dl' = [lo |-> dl.lo, hi |-> Top.divisor \div 256]
  <2>1. \A x : [dl EXCEPT !.lo = x] = [lo |-> x, hi |-> dl.hi]
               /\ [dl EXCEPT !.hi = x] = [lo |-> dl.lo, hi |-> x]
    <3>1. d = [lo |-> d.lo, hi |-> d.hi]
      BY <1>5, <1>7
    <3>2. \A x : [d EXCEPT !.lo = x] = [lo |-> x, hi |-> d.hi]
                 /\ [d EXCEPT !.hi = x] = [lo |-> d.lo, hi |-> x]
      BY <3>1
    <3> QED BY <1>7, <3>2
  <2> QED BY <1>2, <2>1 DEF Effects
<1>9. shift = <<>> => shift' = <<>>
  <2>1. shift' = shift \/ ShiftOn
    BY <1>2 DEF Effects
  <2>2. ASSUME shift = <<>>, ShiftOn PROVE shift' = <<>>
    <3>1. DOMAIN shift = {}
      BY <2>2
    <3>2. shift' = [n \in {} |-> [shift[n] EXCEPT !.ok = @ /\ Legible']]
      BY <2>2, <3>1 DEF ShiftOn
    <3> QED BY <3>2
  <2> QED BY <2>1, <2>2
<1>10. Op.op # "divide" => TheDivisor' = TheDivisor
  BY <1>4, <1>6 DEF TheDivisor, DivisorFor
<1>11. Op.op = "divisor" /\ Op.by = "register" => Top'.divisor = TheDivisor
  BY <1>2 DEF Effects, TheDivisor
<1>12. /\ ~lcr.dlab => dl' = dl
       /\ Op.op \notin {"write", "write_acc", "divisor_lo", "divisor_hi"} => dl' = dl
       /\ Op.op # "divisor" => Top'.divisor = Top.divisor
  BY <1>2 DEF Effects
<1> QED BY <1>3, <1>4, <1>5, <1>6, <1>8, <1>9, <1>10, <1>11, <1>12

(* The main program of uart_irq at its listen. *)
LEMMA ListenActs ==
  ASSUME BoardInv, Acting, StageInv, Hears(17, 20)
  PROVE  /\ Len(stack) = 1 /\ Top = stack[1] /\ Stage(Top) = 12 /\ mem.is_init
         /\ Op = Listen(OnData)[stack[1].at - 16]
         /\ stack'[1].at = stack[1].at + 1
<1>1. job = "uart_irq" /\ stack[1].at \in 17 .. 20
  BY DEF Hears
<1>2. Len(stack) = 1
  BY <1>1 DEF StageInv, Hears
<1>3. Top = stack[1] /\ Top.code = "main"
  BY <1>2, MainAlone
<1>4. Stage(Top) = 12
  <2>1. Offset("main") = 0 /\ "main" \notin Irqs
    BY <1>1 DEF Offset, Irqs
  <2>2. Top.at - 0 = Top.at /\ ~(Top.at < 1) /\ Top.at > 11
    BY <1>1, <1>3
  <2> QED BY <1>1, <1>3, <2>1, <2>2 DEF Stage
<1>5. mem.is_init
  <2>1. 1 \in 1 .. Len(stack)
    BY <1>2
  <2> QED BY <1>3, <1>4, <2>1 DEF StageInv
<1>6. Op = Listen(OnData)[Top.at - 16]
  <2>1. Starts(Here, Opening)
    BY <1>1, <1>3, Shapes DEF Irqs
  <2>2. PICK a : a = Top.at
    OBVIOUS
  <2>3. a \in 17 .. 20 /\ a \in 1 .. Len(Here) /\ Op = Here[a]
    BY <1>1, <1>3, <2>2, Acts, TopFacts
  <2>4. Op = Opening[a]
    BY <2>1, <2>3, OpeningOps DEF Starts
  <2> QED BY <2>2, <2>3, <2>4, OpeningOps
<1>7. stack'[1].at = stack[1].at + 1
  BY <1>1, <1>2, HearsStep
<1> QED BY <1>2, <1>3, <1>4, <1>5, <1>6, <1>7

LEMMA HearsBack ==
  ASSUME BoardInv, Acting, StageInv, Hears(18, 21)'
  PROVE  Hears(17, 20)
<1>1. job' = job
  <2>1. \E g : Moves(Op, g)
    BY Acts
  <2> QED BY <2>1 DEF Moves, chosen
<1>2. job = "uart_irq" /\ stack'[1].at \in 18 .. 21
  BY <1>1 DEF Hears
<1>3. PICK a : a = stack[1].at
  OBVIOUS
<1>4. PICK b : b = stack'[1].at
  OBVIOUS
<1>5. /\ a \in Nat /\ b \in 18 .. 21
      /\ Len(stack) = 1 => IF a <= 21 THEN b = a + 1 ELSE b > 21
      /\ Len(stack) # 1 => b = a
  BY <1>2, <1>3, <1>4, HearsStep
<1>6. Len(stack) # 1 => FALSE
  <2>1. Len(stack) # 1 => Hears(1, 21)
    BY <1>2, <1>3, <1>5 DEF Hears
  <2> QED BY <2>1 DEF StageInv
<1>7. a \in 17 .. 20
  BY <1>5, <1>6
<1> QED BY <1>2, <1>3, <1>7 DEF Hears

(* Nothing is sent before the initialisation is complete. *)
LEMMA BootActs ==
  ASSUME BoardInv, job # "minimal", Acting, StageInv, RateInv, ~mem.is_init
  PROVE  /\ Known(Stage(Top))' /\ fifo' = <<>> /\ shift' = <<>>
         /\ mem'.is_init => Stage(Top)' = 12
<1>1. PICK k : k = Stage(Top)
  OBVIOUS
<1>2. PICK m : m = Stage(Top)'
  OBVIOUS
<1>3. Known(k) /\ fifo = <<>> /\ shift = <<>>
  BY <1>1 DEF RateInv
<1>4. \/ /\ k = 0 /\ m \in {0, 1}
         /\ Op.op \in Before \cup {"read_gpio", "write_gpio", "back", "skip_if_init"}
      \/ k \in 1 .. 11 /\ Op = InitUart[k] /\ m = k + 1
  <2>1. k # 12
    <3>1. Len(stack) \in 1 .. Len(stack) /\ Top = stack[Len(stack)]
      BY MainAlone, TopFacts
    <3> QED BY <1>1, <3>1 DEF StageInv
  <2> QED BY <1>1, <1>2, <2>1, StageStep
<1>5. mem'.is_init => m = 12
  <2>1. k # 11 => mem'.is_init = mem.is_init
    BY <1>1, ActingInit
  <2>2. k = 11 => m = 12
    BY <1>4
  <2> QED BY <2>1, <2>2
<1>6. ASSUME k = 0 PROVE Known(m)' /\ ~Sending(Op)
  <2>1. m \in {0, 1} /\ Op.op \notin {"write_lcr", "write", "write_acc"}
    BY <1>4, <1>6 DEF Before
  <2>2. lcr' = lcr
    BY <2>1, UartActs
  <2>3. ~lcr.dlab
    BY <1>3, <1>6 DEF Known
  <2> QED BY <2>1, <2>2, <2>3 DEF Known, Sending
<1>7. ASSUME k \in 1 .. 11 PROVE Known(m)' /\ ~Sending(Op)
  <2>0. k \in {1, 2, 3, 4, 5, 6, 7, 8, 9, 10, 11} /\ m = k + 1 /\ Op = InitUart[k]
    BY <1>4, <1>7
  <2>1. CASE k = 1
    <3>1. Op = [op |-> "divisor", by |-> "register"]
      BY <2>0, <2>1, InitList
    <3>2. Op.op = "divisor" /\ Op.by = "register"
      BY <3>1
    <3>3. m = 2 /\ ~lcr.dlab
      BY <1>3, <2>0, <2>1 DEF Known
    <3>4. lcr' = lcr /\ Top'.divisor = TheDivisor /\ TheDivisor' = TheDivisor
      BY <3>2, UartActs
    <3> QED BY <3>2, <3>3, <3>4 DEF Known, Sending
  <2>2. CASE k = 2
    <3>1. Op = [op |-> "write", reg |-> "ier_dlm", val |-> 0]
      BY <2>0, <2>2, InitList
    <3>2. Op.op = "write" /\ Op.reg = "ier_dlm"
      BY <3>1
    <3>3. m = 3 /\ ~lcr.dlab /\ Top.divisor = TheDivisor
      BY <1>3, <2>0, <2>2 DEF Known
    <3>4. lcr' = lcr /\ Top'.divisor = Top.divisor /\ TheDivisor' = TheDivisor
      BY <3>2, UartActs
    <3> QED BY <3>2, <3>3, <3>4 DEF Known, Sending
  <2>3. CASE k = 3
    <3>1. Op = [op |-> "read_lcr"]
      BY <2>0, <2>3, InitList
    <3>2. Op.op = "read_lcr"
      BY <3>1
    <3>3. m = 4 /\ ~lcr.dlab /\ Top.divisor = TheDivisor
      BY <1>3, <2>0, <2>3 DEF Known
    <3>4. lcr' = lcr /\ Top'.divisor = Top.divisor /\ TheDivisor' = TheDivisor
      BY <3>2, UartActs
    <3> QED BY <3>2, <3>3, <3>4 DEF Known, Sending
  <2>4. CASE k = 4
    <3>1. Op = [op |-> "write_lcr", how |-> "dlab_on"]
      BY <2>0, <2>4, InitList
    <3>2. Op.op = "write_lcr" /\ Op.how = "dlab_on"
      BY <3>1
    <3>3. m = 5 /\ Top.divisor = TheDivisor
      BY <1>3, <2>0, <2>4 DEF Known
    <3>4. Top'.divisor = Top.divisor /\ TheDivisor' = TheDivisor
      BY <3>2, UartActs
    <3>5. lcr'.dlab
      <4>1. \E g : Moves(Op, g)
        BY Acts
      <4>2. LcrWrite(Op, {"dlab_on", "dlab"})
        BY <3>2 DEF LcrWrite
      <4> QED BY <4>1, <4>2, MovesLcr
    <3> QED BY <3>2, <3>3, <3>4, <3>5 DEF Known, Sending
  <2>5. CASE k = 5
    <3>1. Op = [op |-> "divisor_lo"]
      BY <2>0, <2>5, InitList
    <3>2. Op.op = "divisor_lo"
      BY <3>1
    <3>3. m = 6 /\ lcr.dlab /\ Top.divisor = TheDivisor
      BY <1>3, <2>0, <2>5 DEF Known
    <3>4. /\ Top'.divisor = Top.divisor /\ TheDivisor' = TheDivisor /\ lcr' = lcr
          /\ dl' = [lo |-> Top.divisor % 256, hi |-> dl.hi]
      BY <3>2, <3>3, UartActs
    <3>5. dl'.lo = TheDivisor % 256
      BY <3>3, <3>4
    <3> QED BY <3>2, <3>3, <3>4, <3>5 DEF Known, Sending
  <2>6. CASE k = 6
    <3>1. Op = [op |-> "divisor_hi"]
      BY <2>0, <2>6, InitList
    <3>2. Op.op = "divisor_hi"
      BY <3>1
    <3>3. m = 7 /\ lcr.dlab /\ Top.divisor = TheDivisor /\ dl.lo = TheDivisor % 256
      BY <1>3, <2>0, <2>6 DEF Known
    <3>4. /\ TheDivisor' = TheDivisor /\ lcr' = lcr
          /\ dl' = [lo |-> dl.lo, hi |-> Top.divisor \div 256]
      BY <3>2, <3>3, UartActs
    <3>5. dl'.lo = TheDivisor % 256 /\ dl'.hi = TheDivisor \div 256
      BY <3>3, <3>4
    <3> QED BY <3>2, <3>3, <3>4, <3>5 DEF Known, Sending
  <2>7. CASE k = 7
    <3>1. Op = [op |-> "write_lcr", how |-> "bits8"]
      BY <2>0, <2>7, InitList
    <3>2. Op.op = "write_lcr" /\ Op.how = "bits8"
      BY <3>1
    <3>3. m = 8 /\ dl.lo = TheDivisor % 256 /\ dl.hi = TheDivisor \div 256
      BY <1>3, <2>0, <2>7 DEF Known
    <3>4. TheDivisor' = TheDivisor /\ lcr' = Lcr(Op.how) /\ dl' = dl
      BY <3>2, UartActs
    <3>5. lcr' = Eight
      BY <3>2, <3>4 DEF Lcr, Eight
    <3> QED BY <3>2, <3>3, <3>4, <3>5 DEF Known, Sending, Eight
  <2>8. CASE k = 8
    <3>1. Op = [op |-> "read_lcr"]
      BY <2>0, <2>8, InitList
    <3>2. Op.op = "read_lcr"
      BY <3>1
    <3>3. m = 9 /\ dl.lo = TheDivisor % 256 /\ dl.hi = TheDivisor \div 256 /\ lcr = Eight
      BY <1>3, <2>0, <2>8 DEF Known
    <3>4. TheDivisor' = TheDivisor /\ lcr' = lcr /\ dl' = dl /\ Top'.acc = lcr
      BY <3>2, UartActs
    <3> QED BY <3>2, <3>3, <3>4 DEF Known, Sending, Eight
  <2>9. CASE k = 9
    <3>1. Op = [op |-> "write_lcr", how |-> "dlab_off"]
      BY <2>0, <2>9, InitList
    <3>2. Op.op = "write_lcr" /\ Op.how = "dlab_off"
      BY <3>1
    <3>3. /\ m = 10 /\ dl.lo = TheDivisor % 256 /\ dl.hi = TheDivisor \div 256
          /\ Top.acc = Eight
      BY <1>3, <2>0, <2>9 DEF Known
    <3>4. TheDivisor' = TheDivisor /\ lcr' = Lcr(Op.how) /\ dl' = dl
      BY <3>2, UartActs
    <3>5. lcr' = Eight
      <4>1. PICK e : e = Top.acc
        OBVIOUS
      <4>2. lcr' = [e EXCEPT !.dlab = FALSE]
        BY <3>2, <3>4, <4>1 DEF Lcr
      <4>3. e = [dlab |-> FALSE, bits |-> 8]
        BY <3>3, <4>1 DEF Eight
      <4>4. [e EXCEPT !.dlab = FALSE] = [dlab |-> FALSE, bits |-> 8]
        <5>1. \A x : e = [dlab |-> x, bits |-> 8] =>
                [e EXCEPT !.dlab = x] = [dlab |-> x, bits |-> 8]
          OBVIOUS
        <5> QED BY <4>3, <5>1, Zenon
      <4> QED BY <4>2, <4>4 DEF Eight
    <3> QED BY <3>2, <3>3, <3>4, <3>5 DEF Known, Sending, Eight
  <2>10. CASE k = 10 \/ k = 11
    <3>1. k = 10 => Op = [op |-> "clear_fifos"]
      BY <2>0, InitList
    <3>2. k = 11 => Op = [op |-> "set", var |-> "is_init", to |-> TRUE]
      BY <2>0, InitList
    <3>3. Op.op \in {"clear_fifos", "set"}
      BY <2>10, <3>1, <3>2
    <3>4. /\ m \in {11, 12} /\ dl.lo = TheDivisor % 256 /\ dl.hi = TheDivisor \div 256
          /\ lcr = Eight
      BY <1>3, <2>0, <2>10 DEF Known
    <3>5. TheDivisor' = TheDivisor /\ lcr' = lcr /\ dl' = dl
      BY <3>3, UartActs
    <3> QED BY <3>3, <3>4, <3>5 DEF Known, Sending, Eight
  <2> QED BY <2>0, <2>1, <2>2, <2>3, <2>4, <2>5, <2>6, <2>7, <2>8, <2>9, <2>10
<1>8. k = 0 \/ k \in 1 .. 11
  BY <1>4
<1>9. Known(m)' /\ ~Sending(Op)
  BY <1>6, <1>7, <1>8
<1>10. fifo' = <<>> /\ shift' = <<>>
  BY <1>3, <1>9, UartActs
<1>11. Known(Stage(Top))'
  BY <1>2, <1>9 DEF Known
<1> QED BY <1>2, <1>5, <1>10, <1>11

(* listen puts the line control register aside and back again. *)
LEMMA ListenRate ==
  ASSUME BoardInv, Acting, StageInv, RateInv, Hears(17, 20)
  PROVE  /\ IF Hears(18, 19) THEN lcr' = Five ELSE lcr' = Eight
         /\ dl' = dl /\ TheDivisor' = TheDivisor
         /\ dl.lo = TheDivisor % 256 /\ dl.hi = TheDivisor \div 256
         /\ Top'.acc = Eight
         /\ Hears(17, 19) <=> Hears(18, 20)'
         /\ Hears(18, 19) <=> Hears(19, 20)'
         /\ ~Sending(Op) /\ Op.op # "poll_empty"
<1>0. job = "uart_irq" /\ job # "minimal"
  BY DEF Hears
<1>1. PICK a : a = stack[1].at
  OBVIOUS
<1>2. /\ a \in {17, 18, 19, 20} /\ mem.is_init /\ Top = stack[1]
      /\ Op = Listen(OnData)[a - 16] /\ stack'[1].at = a + 1
  BY <1>1, ListenActs DEF Hears
<1>3. job' = job
  BY <1>0, UartActs
<1>4. \A m, n : (Hears(m, n) <=> a \in m .. n) /\ (Hears(m, n)' <=> a + 1 \in m .. n)
  BY <1>0, <1>1, <1>2, <1>3 DEF Hears
<1>5. a \in {17, 18} => Known(12)
  <2>1. ~(17 \in 19 .. 20) /\ ~(18 \in 19 .. 20)
    OBVIOUS
  <2> QED BY <1>2, <1>4, <2>1 DEF RateInv
<1>6. a \in {17, 18} => lcr = Eight /\ dl.lo = TheDivisor % 256 /\ dl.hi = TheDivisor \div 256
  BY <1>5 DEF Known
<1>7. a \in {19, 20} => lcr = Five /\ dl.lo = TheDivisor % 256 /\ dl.hi = TheDivisor \div 256
  <2>1. 19 \in 19 .. 20 /\ 20 \in 19 .. 20
    OBVIOUS
  <2> QED BY <1>4, <2>1 DEF RateInv
<1>8. a \in {18, 19, 20} => Top.acc = Eight
  <2>1. a \in {18, 19, 20} => a \in 18 .. 20
    OBVIOUS
  <2> QED BY <1>4, <2>1 DEF RateInv
<1>9. ~lcr.dlab /\ Eight.dlab = FALSE /\ Five.dlab = FALSE
  BY <1>2, <1>6, <1>7 DEF Eight, Five
<1>10. /\ a = 17 => Op = [op |-> "read_lcr"]
       /\ a = 18 => Op = [op |-> "write_lcr", how |-> "only_dlab"]
       /\ a = 19 => Op = [op |-> "write", reg |-> "ier_dlm", val |-> OnData]
       /\ a = 20 => Op = [op |-> "write_lcr", how |-> "restore"]
  BY <1>2, ListenList
<1>11. /\ a = 17 => Op.op = "read_lcr"
       /\ a = 18 => Op.op = "write_lcr" /\ Op.how = "only_dlab"
       /\ a = 19 => Op.op = "write" /\ Op.reg = "ier_dlm"
       /\ a = 20 => Op.op = "write_lcr" /\ Op.how = "restore"
  BY <1>10
<1>12. dl' = dl /\ TheDivisor' = TheDivisor
  BY <1>0, <1>2, <1>9, <1>11, UartActs
<1>13. lcr' = IF a \in {18, 19} THEN Five ELSE Eight
  <2>1. CASE a = 17
    BY <1>0, <1>6, <1>11, <2>1, UartActs
  <2>2. CASE a = 18
    <3>1. PICK e : e = Top.acc
      OBVIOUS
    <3>2. lcr' = [e EXCEPT !.bits = 5]
      BY <1>0, <1>11, <2>2, <3>1, UartActs DEF Lcr
    <3>3. e = [dlab |-> FALSE, bits |-> 8]
      BY <1>8, <2>2, <3>1 DEF Eight
    <3>4. \A x : e = [dlab |-> x, bits |-> 8] =>
            [e EXCEPT !.bits = 5] = [dlab |-> x, bits |-> 5]
      OBVIOUS
    <3>5. [e EXCEPT !.bits = 5] = [dlab |-> FALSE, bits |-> 5]
      BY <3>3, <3>4, Zenon
    <3> QED BY <2>2, <3>2, <3>5 DEF Five
  <2>3. CASE a = 19
    BY <1>0, <1>7, <1>11, <2>3, UartActs
  <2>4. CASE a = 20
    <3>1. lcr' = Top.acc
      BY <1>0, <1>11, <2>4, UartActs DEF Lcr
    <3> QED BY <1>8, <2>4, <3>1
  <2> QED BY <1>2, <2>1, <2>2, <2>3, <2>4
<1>14. Top'.acc = Eight
  <2>1. CASE a = 17
    BY <1>0, <1>6, <1>11, <2>1, UartActs
  <2>2. CASE a \in {18, 19, 20}
    BY <1>0, <1>8, <1>11, <2>2, UartActs
  <2> QED BY <1>2, <2>1, <2>2
<1>15. ~Sending(Op) /\ Op.op # "poll_empty"
  BY <1>2, <1>11 DEF Sending
<1>16. Hears(18, 19) <=> a \in {18, 19}
  BY <1>2, <1>4
<1>17. (Hears(17, 19) <=> Hears(18, 20)') /\ (Hears(18, 19) <=> Hears(19, 20)')
  <2>1. a \in 17 .. 19 <=> a + 1 \in 18 .. 20
    BY <1>2
  <2>2. a \in 18 .. 19 <=> a + 1 \in 19 .. 20
    BY <1>2
  <2> QED BY <1>4, <2>1, <2>2
<1> QED BY <1>2, <1>6, <1>7, <1>12, <1>13, <1>14, <1>15, <1>16, <1>17

(* What is known after the initialisation stays so. *)
LEMMA LateRate ==
  ASSUME BoardInv, job # "minimal", Acting, StageInv, RateInv, mem.is_init,
         ~Hears(17, 20)
  PROVE  Known(12)' /\ (Late(Op) \/ Op.op = "skip_if_init")
<1>1. ~Hears(19, 20)
  <2>1. \A n : n \in 19 .. 20 => n \in 17 .. 20
    OBVIOUS
  <2> QED BY <2>1 DEF Hears
<1>2. lcr = Eight /\ dl.lo = TheDivisor % 256 /\ dl.hi = TheDivisor \div 256
  BY <1>1 DEF RateInv, Known
<1>3. Late(Op) \/ Op.op = "skip_if_init"
  <2>1. PICK k : k = Stage(Top)
    OBVIOUS
  <2>2. k \notin 1 .. 11
    <3>1. Len(stack) \in 1 .. Len(stack) /\ Top = stack[Len(stack)]
      BY MainAlone, TopFacts
    <3> QED BY <2>1, <3>1 DEF StageInv
  <2>3. ~(k = 0 /\ Top.code = "main")
    BY <2>1, MainAlone DEF StageInv
  <2>4. ~(job = "uart_irq" /\ Top.code = "main" /\ Top.at \in 17 .. 20)
    BY MainAlone DEF Hears
  <2> QED BY <2>1, <2>2, <2>3, <2>4, StageStep
<1>4. Op.op \notin {"write_lcr", "divide"}
  BY <1>3 DEF Late, Early
<1>5. ~lcr.dlab
  BY <1>2 DEF Eight
<1>6. lcr' = lcr /\ dl' = dl /\ TheDivisor' = TheDivisor
  BY <1>4, <1>5, UartActs
<1> QED BY <1>2, <1>3, <1>6 DEF Known, Eight

LEMMA RateActs ==
  ASSUME BoardInv, job # "minimal", Acting, StageInv, RateInv
  PROVE  RateInv'
<1>1. div' \in Dividers \cup {1} /\ job' = job
  BY UartActs
<1>2. dl' = [lo |-> dl'.lo, hi |-> dl'.hi]
  <2>1. dl = [lo |-> dl.lo, hi |-> dl.hi]
    BY UartActs
  <2>2. ~lcr.dlab => dl' = dl
    BY UartActs
  <2>3. Op.op \notin {"write", "write_acc", "divisor_lo", "divisor_hi"} => dl' = dl
    BY UartActs
  <2>4. lcr.dlab => Op.op \notin {"write", "write_acc"}
    <3> SUFFICES ASSUME lcr.dlab PROVE Op.op \notin {"write", "write_acc"}
      OBVIOUS
    <3>1. ~mem.is_init
      BY DEF RateInv, Known, Eight, Five
    <3>2. PICK k : k = Stage(Top)
      OBVIOUS
    <3>3. Known(k)
      BY <3>1, <3>2 DEF RateInv
    <3>4. k \in {5, 6, 7} \/ k \notin 0 .. 12
      BY <3>3 DEF Known, Eight
    <3>5. k \in {5, 6, 7}
      BY <3>2, <3>4, StageOps
    <3>6. Op = InitUart[k]
      BY <3>2, <3>5, StageStep
    <3> QED BY <3>5, <3>6, InitList
  <2>5. \A x, y : dl' = [lo |-> x, hi |-> y] => dl' = [lo |-> dl'.lo, hi |-> dl'.hi]
    OBVIOUS
  <2>6. CASE dl' = dl
    BY <2>1, <2>6
  <2>7. CASE lcr.dlab /\ Op.op = "divisor_lo"
    BY <2>5, <2>7, UartActs
  <2>8. CASE lcr.dlab /\ Op.op = "divisor_hi"
    BY <2>5, <2>8, UartActs
  <2> QED BY <2>2, <2>3, <2>4, <2>6, <2>7, <2>8
<1>3. CASE ~mem.is_init
  <2>1. ~Hears(18, 20)' /\ ~Hears(19, 20)'
    <3>1. ~Hears(18, 21)'
      BY <1>3, HearsBack, ListenActs
    <3>2. \A n : n \in 18 .. 20 \/ n \in 19 .. 20 => n \in 18 .. 21
      OBVIOUS
    <3> QED BY <3>1, <3>2 DEF Hears
  <2>2. /\ Known(Stage(Top))' /\ fifo' = <<>> /\ shift' = <<>>
        /\ mem'.is_init => Stage(Top)' = 12
    BY <1>3, BootActs
  <2>3. mem'.is_init => Known(12)'
    BY <2>2 DEF Known
  <2> QED BY <1>1, <1>2, <2>1, <2>2, <2>3 DEF RateInv
<1>4. CASE mem.is_init
  <2>1. mem'.is_init
    BY <1>4, ActingInit
  <2>2. CASE Hears(17, 20)
    <3>1. Hears(19, 20)' => lcr' = Five
      BY <2>2, ListenRate
    <3>2. ~Hears(19, 20)' => lcr' = Eight
      BY <2>2, ListenRate
    <3>3. dl'.lo = TheDivisor' % 256 /\ dl'.hi = TheDivisor' \div 256 /\ Top'.acc = Eight
      BY <2>2, ListenRate
    <3>4. ~Hears(19, 20)' => Known(12)'
      BY <3>2, <3>3 DEF Known, Eight
    <3> QED BY <1>1, <1>2, <2>1, <3>1, <3>3, <3>4 DEF RateInv, Five, Eight
  <2>3. CASE ~Hears(17, 20)
    <3>1. Known(12)'
      BY <1>4, <2>3, LateRate
    <3>2. ~Hears(18, 21)'
      BY <2>3, HearsBack
    <3>3. ~Hears(18, 20)' /\ ~Hears(19, 20)'
      <4>1. \A n : n \in 18 .. 20 \/ n \in 19 .. 20 => n \in 18 .. 21
        OBVIOUS
      <4> QED BY <3>2, <4>1 DEF Hears
    <3> QED BY <1>1, <1>2, <2>1, <3>1, <3>3 DEF RateInv
  <2> QED BY <2>2, <2>3
<1> QED BY <1>3, <1>4

(* The same of the next state. *)
LEMMA NextLegible ==
  ASSUME BoardInv', RateInv', mem'.is_init, ~Hears(19, 20)' PROVE Legible'
<1>1. Known(12)'
  BY DEF RateInv
<1>2. /\ lcr' = Eight /\ dl'.lo = TheDivisor' % 256 /\ dl'.hi = TheDivisor' \div 256
  BY <1>1 DEF Known, Eight
<1>3. target' \in Targets /\ div' \in Dividers \cup {1}
  BY DEF BoardInv, RateInv
<1>4. PICK v : v = TheDivisor'
  OBVIOUS
<1>5. v = DivisorFor(target', div')
  BY <1>4 DEF TheDivisor, DivisorFor
<1>6. \A t \in Targets, d \in Dividers \cup {1} : Fits(DivisorFor(t, d), t, d)
  BY RateAssumption DEF UsableRates
<1>7. Fits(v, target', div')
  BY <1>3, <1>5, <1>6
<1>8. v \in 1 .. 255
  BY <1>7 DEF Fits
<1>9. Rate' = v
  <2>1. PICK lo : lo = v % 256
    OBVIOUS
  <2>2. PICK hi : hi = v \div 256
    OBVIOUS
  <2>3. 256 * hi + lo = v
    BY <1>8, <2>1, <2>2
  <2>4. dl'.lo = lo /\ dl'.hi = hi
    BY <1>2, <1>4, <2>1, <2>2
  <2>5. Rate' = 256 * hi + lo
    BY <2>4 DEF Rate
  <2> QED BY <2>3, <2>5
<1>10. RightRate'
  BY <1>7, <1>9 DEF RightRate, Fits
<1> QED BY <1>2, <1>10 DEF Legible, Eight

(* Only the listen of uart_irq garbles what is being sent. *)
LEMMA BadStep ==
  ASSUME BoardInv', RateInv', OneShift, shift' = shift \/ ShiftOn, ~Hears(19, 20)'
  PROVE  Bad' <= Bad
<1>1. Bad \in {0, 1} /\ Bad' \in {0, 1} /\ (Legible' /\ Bad = 0 => Bad' = 0)
  BY ShiftStep
<1>2. CASE mem'.is_init
  BY <1>1, <1>2, NextLegible
<1>3. CASE ~mem'.is_init
  <2>1. Bad' = 0
    BY <1>3 DEF RateInv, Bad
  <2> QED BY <1>1, <2>1
<1> QED BY <1>2, <1>3

(* How far the main program of uart_irq is after a step. *)
LEMMA PastActs ==
  ASSUME BoardInv, job # "minimal", Acting, StageInv
  PROVE  /\ Past(18) => Past(18)'
         /\ Past(20)' => Past(20) \/ Hears(20, 20)
         /\ Hears(1, 18)' => Hears(1, 18)
         /\ Past(20) => Past(20)'
<1>0. job' = job
  BY StageStep
<1>1. CASE job # "uart_irq"
  BY <1>0, <1>1 DEF Past, Hears
<1>2. CASE job = "uart_irq"
  <2>1. PICK a : a = stack[1].at
    OBVIOUS
  <2>2. PICK b : b = stack'[1].at
    OBVIOUS
  <2>3. PICK l : l = Len(stack)
    OBVIOUS
  <2>4. /\ a \in Nat /\ b \in Nat
        /\ l = 1 => IF a <= 21 THEN b = a + 1 ELSE b > 21
        /\ l # 1 => b = a
    BY <1>2, <2>1, <2>2, <2>3, HearsStep
  <2>5. l = 1 => a \in Nat \ {0}
    BY <2>1, <2>3, MainAlone, TopFacts
  <2>6. /\ a > 18 => b > 18
        /\ a > 20 => b > 20
        /\ b > 20 => a > 20 \/ a = 20
        /\ b \in 1 .. 18 => a \in 1 .. 18
    <3>1. CASE l = 1
      BY <2>4, <2>5, <3>1
    <3>2. CASE l # 1
      BY <2>4, <3>2
    <3> QED BY <3>1, <3>2
  <2>7. a = 20 => a \in 20 .. 20
    OBVIOUS
  <2> QED BY <1>0, <1>2, <2>1, <2>2, <2>6, <2>7 DEF Past, Hears
<1> QED BY <1>1, <1>2

(* Whoever writes has polled: before listen there is one character at most. *)
LEMMA FewActs ==
  ASSUME BoardInv, NEW o, NEW g, Moves(o, g), Len(fifo) + Poised(Top, Here) <= 1
  PROVE  Len(fifo') \in Nat /\ Len(fifo') + Poised(Top, Here)' <= 1
<1>1. /\ o = Here[Top.at] /\ Top.at \in 1 .. Len(Here) /\ Top.at <= Len(Here)
      /\ Arrives(Here, Top.at, g.at) /\ g.code = Top.code
      /\ UNCHANGED <<job, target, cause>>
  BY TopFacts DEF Moves, Moved, chosen
<1>2. Len(stack') = Len(stack) /\ Top' = g /\ stack'[Len(stack)] = g
  BY TopMoves
<1>3. Here' = Here
  BY <1>1, <1>2, TopFacts DEF Here, TextOf
<1>4. PICK p : p = Poised(g, Here)
  OBVIOUS
<1>5. Poised(Top, Here)' = p
  BY <1>2, <1>3, <1>4 DEF Poised
<1>6. PICK q : q = Poised(Top, Here)
  OBVIOUS
<1>7. PICK l : l = Len(fifo)
  OBVIOUS
<1>8. p \in {0, 1} /\ q \in {0, 1} /\ l \in Nat /\ l + q <= 1
  BY <1>4, <1>6, <1>7, PoisedIs, QueueFacts
<1>9. p = 1 => o.op = "poll_empty"
  <2>1. ASSUME p = 1 PROVE o.op = "poll_empty"
    <3>1. g.at <= Len(Here) /\ Sending(Here[g.at])
      BY <1>4, <2>1 DEF Poised
    <3>2. Follows(Here[g.at], o)
      BY <1>1, <3>1 DEF Arrives, Bound
    <3> QED BY <3>1, <3>2 DEF Follows, Sending, LcrWrite, Listens
  <2> QED BY <2>1
<1>10. IsSeq(fifo) /\ Len(<<>>) = 0
  BY DEF BoardInv, Queued
<1>11. \/ fifo' = fifo /\ (o.op = "poll_empty" => fifo = <<>>)
       \/ fifo' = <<>>
       \/ Sending(o) /\ \E c : fifo' = Append(fifo, c)
  BY DEF Moves
<1>12. PICK m : m = Len(fifo')
  OBVIOUS
<1>13. CASE fifo' = fifo /\ (o.op = "poll_empty" => fifo = <<>>)
  <2>1. m = l /\ (p = 1 => l = 0)
    BY <1>7, <1>9, <1>10, <1>12, <1>13
  <2>2. m \in Nat /\ m + p <= 1
    BY <1>8, <2>1
  <2> QED BY <1>5, <1>12, <2>2
<1>14. CASE fifo' = <<>>
  <2>1. m = 0
    BY <1>10, <1>12, <1>14
  <2>2. m \in Nat /\ m + p <= 1
    BY <1>8, <2>1
  <2> QED BY <1>5, <1>12, <2>2
<1>15. CASE Sending(o) /\ \E c : fifo' = Append(fifo, c)
  <2>1. p = 0
    BY <1>8, <1>9, <1>15 DEF Sending
  <2>2. q = 1
    BY <1>1, <1>6, <1>15 DEF Poised
  <2>3. PICK c : fifo' = Append(fifo, c)
    BY <1>15
  <2>4. Len(fifo') = Len(fifo) + 1
    BY <1>10, <2>3, Appended
  <2>5. m = l + 1
    BY <1>7, <1>12, <2>4
  <2>6. m \in Nat /\ m + p <= 1
    BY <1>8, <2>1, <2>2, <2>5
  <2> QED BY <1>5, <1>12, <2>6
<1> QED BY <1>11, <1>13, <1>14, <1>15

LEMMA CountActs ==
  ASSUME BoardInv, job # "minimal", Acting, StageInv, RateInv, CountInv,
         BoardInv', StageInv', RateInv'
  PROVE  CountInv'
<1>1. Effects
  BY Acts
<1>2. PICK g : Moves(Op, g)
  BY Acts
<1>3. garbled' = garbled /\ (shift' = shift \/ ShiftOn)
  BY <1>1 DEF Effects
<1>4. garbled \in Nat /\ OneShift
  BY DEF CountInv
<1>5. /\ OneShift' /\ Len(shift') = Len(shift)
      /\ Bad \in {0, 1} /\ Bad' \in {0, 1} /\ Bad <= Len(shift) /\ Bad' <= Len(shift)
  BY <1>3, <1>4, ShiftStep
<1>6. ~Hears(19, 20)' => Bad' <= Bad
  BY <1>3, <1>4, BadStep
<1>7. Len(shift) \in Nat /\ Len(shift) <= 1
  BY <1>4, Joined DEF OneShift
<1>8. /\ Past(18) => Past(18)'
      /\ Past(20)' => Past(20) \/ Hears(20, 20)
      /\ Hears(1, 18)' => Hears(1, 18)
  BY PastActs
<1>9. ASSUME ~Past(18)' PROVE garbled' = 0 /\ Bad' = 0
  <2>1. garbled = 0 /\ Bad = 0
    BY <1>8, <1>9 DEF CountInv
  <2>2. ~Hears(19, 20)'
    <3>1. \A n : n \in 19 .. 20 => n > 18
      OBVIOUS
    <3> QED BY <1>9, <3>1 DEF Hears, Past
  <2>3. Bad' <= 0
    BY <1>6, <2>1, <2>2
  <2> QED BY <1>3, <1>5, <2>1, <2>3
<1>10. ASSUME Hears(1, 18)' PROVE Len(fifo') + Poised(Top, Here)' <= 1
  <2>1. Len(fifo) + Poised(Top, Here) <= 1
    BY <1>8, <1>10 DEF CountInv
  <2> QED BY <1>2, <2>1, FewActs
<1>11. ASSUME Hears(19, 20)' PROVE garbled' + Len(shift') + Len(fifo') <= 2
  <2>1. Hears(18, 21)'
    <3>1. \A n : n \in 19 .. 20 => n \in 18 .. 21
      OBVIOUS
    <3> QED BY <1>11, <3>1 DEF Hears
  <2>2. Hears(17, 20)
    BY <2>1, HearsBack
  <2>3. Hears(18, 19) /\ ~Sending(Op)
    BY <1>11, <2>2, ListenRate
  <2>4. fifo' = fifo \/ fifo' = <<>>
    BY <1>2, <2>3 DEF Moves
  <2>5. Len(fifo) \in Nat /\ Len(<<>>) = 0
    BY QueueFacts
  <2>6. Len(fifo') \in Nat /\ Len(fifo') <= Len(fifo)
    <3>1. CASE fifo' = fifo
      BY <2>5, <3>1
    <3>2. CASE fifo' = <<>>
      BY <2>5, <3>2
    <3> QED BY <2>4, <3>1, <3>2
  <2>7. garbled + Len(shift) + Len(fifo) <= 2
    <3>1. job = "uart_irq" /\ (stack[1].at = 18 \/ stack[1].at = 19)
      BY <2>3 DEF Hears
    <3>2. CASE stack[1].at = 18
      <4>1. ~Past(18) /\ Hears(1, 18)
        <5>1. 18 \in 1 .. 18 /\ ~(18 > 18)
          OBVIOUS
        <5> QED BY <3>1, <3>2, <5>1 DEF Past, Hears
      <4>2. garbled = 0 /\ Len(fifo) + Poised(Top, Here) <= 1
        BY <4>1 DEF CountInv
      <4>3. Poised(Top, Here) \in {0, 1}
        BY PoisedIs
      <4> QED BY <1>7, <2>5, <4>2, <4>3
    <3>3. CASE stack[1].at = 19
      <4>1. Hears(19, 20)
        <5>1. 19 \in 19 .. 20
          OBVIOUS
        <5> QED BY <3>1, <3>3, <5>1 DEF Hears
      <4> QED BY <4>1 DEF CountInv
    <3> QED BY <3>1, <3>2, <3>3
  <2> QED BY <1>3, <1>4, <1>5, <1>7, <2>5, <2>6, <2>7
<1>12. ASSUME Past(20)' PROVE garbled' + Bad' <= 2
  <2>1. CASE Past(20)
    <3>1. garbled + Bad <= 2
      BY <2>1 DEF CountInv
    <3>2. ~Hears(19, 20)'
      <4> SUFFICES ASSUME Hears(19, 20)' PROVE FALSE
        OBVIOUS
      <4>1. stack'[1].at \in 19 .. 20 /\ stack'[1].at > 20
        BY <1>12 DEF Hears, Past
      <4> QED BY <4>1
    <3>3. Bad' <= Bad
      BY <1>6, <3>2
    <3>4. \A x \in Nat, y, z \in {0, 1} : x + y <= 2 /\ z <= y => x + z <= 2
      OBVIOUS
    <3>5. garbled + Bad' <= 2
      BY <1>4, <1>5, <3>1, <3>3, <3>4
    <3> QED BY <1>3, <3>5
  <2>2. CASE Hears(20, 20)
    <3>1. Hears(19, 20)
      <4>1. \A n : n \in 20 .. 20 => n \in 19 .. 20
        OBVIOUS
      <4> QED BY <2>2, <4>1 DEF Hears
    <3>2. garbled + Len(shift) + Len(fifo) <= 2 /\ Len(fifo) \in Nat
      BY <3>1, QueueFacts DEF CountInv
    <3>3. \A x, y, w \in Nat, z \in {0, 1} :
            x + y + w <= 2 /\ z <= y => x + z <= 2
      OBVIOUS
    <3>4. garbled + Bad' <= 2
      BY <1>4, <1>5, <1>7, <3>2, <3>3
    <3> QED BY <1>3, <3>4
  <2> QED BY <1>8, <1>12, <2>1, <2>2
<1> QED BY <1>3, <1>4, <1>5, <1>9, <1>10, <1>11, <1>12 DEF CountInv

(* As long as contexts, interrupts and driver stay, the stages do. *)
LEMMA StageKept ==
  ASSUME StageInv, UNCHANGED <<job, stack, mie, mem>> PROVE StageInv'
<1>1. Top' = Top
  BY DEF Top, Last
<1>2. \A n : Stage(stack[n])' = Stage(stack[n])
  BY DEF Stage, Offset
<1>3. Stage(Top)' = Stage(Top)
  BY <1>1 DEF Stage, Offset
<1>4. Hears(1, 21)' = Hears(1, 21)
  BY DEF Hears
<1> QED BY <1>1, <1>2, <1>3, <1>4 DEF StageInv

kept == <<chosen, stack, mie, div, lcr, dl, mem, cause>>

(* The format and the rate do, too. *)
LEMMA RateKept ==
  ASSUME RateInv, UNCHANGED kept,
         ~mem.is_init => fifo' = <<>> /\ shift' = <<>>
  PROVE  /\ RateInv'
         /\ \A m, n : Hears(m, n)' = Hears(m, n) /\ Past(m)' = Past(m)
         /\ Top' = Top /\ Here' = Here /\ Poised(Top, Here)' = Poised(Top, Here)
<1>1. UNCHANGED <<job, target, stack, div, lcr, dl, mem, cause>>
  BY DEF kept, chosen
<1>2. Top' = Top
  BY <1>1 DEF Top, Last
<1>3. Stage(Top)' = Stage(Top)
  BY <1>1, <1>2 DEF Stage, Offset
<1>4. TheDivisor' = TheDivisor
  BY <1>1 DEF TheDivisor, DivisorFor
<1>5. \A k : Known(k) => Known(k)'
  BY <1>1, <1>2, <1>4 DEF Known, Eight
<1>6. \A m, n : Hears(m, n)' = Hears(m, n) /\ Past(m)' = Past(m)
  BY <1>1 DEF Hears, Past
<1>7. Here' = Here
  BY <1>1 DEF Here, TextOf
<1>8. Poised(Top, Here)' = Poised(Top, Here)
  BY <1>2, <1>7 DEF Poised
<1>9. ~mem.is_init => Known(Stage(Top))'
  <2>1. PICK k : k = Stage(Top)
    OBVIOUS
  <2>2. ~mem.is_init => Known(k)'
    BY <1>5, <2>1 DEF RateInv
  <2>3. Stage(Top)' = k
    BY <1>3, <2>1
  <2> QED BY <2>2, <2>3 DEF Known
<1>10. /\ mem.is_init /\ ~Hears(19, 20) => Known(12)'
       /\ Hears(19, 20) => lcr' = Five /\ dl'.lo = TheDivisor' % 256
                           /\ dl'.hi = TheDivisor' \div 256
       /\ Hears(18, 20) => Top'.acc = Eight
  BY <1>1, <1>2, <1>4, <1>5 DEF RateInv
<1>11. /\ dl' = [lo |-> dl'.lo, hi |-> dl'.hi] /\ div' \in Dividers \cup {1}
  BY <1>1 DEF RateInv
<1>12. RateInv'
  BY <1>1, <1>6, <1>9, <1>10, <1>11 DEF RateInv, Five, Eight
<1> QED BY <1>2, <1>6, <1>7, <1>8, <1>12

(* Of the listen only the middle garbles. *)
LEMMA HearsPast ==
  /\ ~Past(18) => ~Hears(19, 20)
  /\ Past(20) => ~Hears(19, 20) /\ ~Hears(1, 18)
<1>1. \A n : /\ n \in 19 .. 20 => n > 18 /\ ~(n > 20)
             /\ n \in 1 .. 18 => ~(n > 20)
  OBVIOUS
<1> QED BY <1>1 DEF Hears, Past

(* The UART, the timer and the person at the other end. *)
LEMMA QuietFormat ==
  ASSUME StageInv, RateInv, CountInv, UNCHANGED <<kept, fifo, shift, garbled>>
  PROVE  StageInv' /\ RateInv' /\ CountInv'
<1>1. UNCHANGED <<job, stack, mie, mem, fifo, shift, garbled>>
  BY DEF kept, chosen
<1>2. StageInv'
  BY <1>1, StageKept
<1>3. ~mem.is_init => fifo' = <<>> /\ shift' = <<>>
  BY <1>1 DEF RateInv
<1>4. /\ RateInv'
      /\ \A m, n : Hears(m, n)' = Hears(m, n) /\ Past(m)' = Past(m)
      /\ Poised(Top, Here)' = Poised(Top, Here)
  BY <1>3, RateKept
<1>5. Bad' = Bad /\ OneShift'
  BY <1>1 DEF CountInv, OneShift, Bad, IsSeq
<1>6. CountInv'
  BY <1>1, <1>4, <1>5 DEF CountInv
<1> QED BY <1>2, <1>4, <1>6

(* A character goes from the FIFO to the shift register ... *)
LEMMA ShiftCount ==
  ASSUME BoardInv, Shift
  PROVE  /\ UNCHANGED kept /\ UNCHANGED garbled
         /\ fifo # <<>> /\ shift = <<>> /\ Len(shift) = 0 /\ Bad = 0
         /\ OneShift' /\ Len(shift') = 1 /\ (Legible => Bad' = 0)
         /\ Len(fifo) \in Nat /\ Len(fifo') \in Nat /\ Len(fifo) = Len(fifo') + 1
<1>1. /\ UNCHANGED kept /\ UNCHANGED garbled
      /\ fifo # <<>> /\ shift = <<>> /\ fifo' = Tail(fifo)
      /\ shift' = <<[char |-> Head(fifo), ok |-> Legible]>>
  BY DEF Shift, kept, idle, chosen, sent
<1>2. PICK c : c = [char |-> Head(fifo), ok |-> Legible]
  OBVIOUS
<1>3. PICK s : s = <<c>>
  OBVIOUS
<1>4. shift' = s
  BY <1>1, <1>2, <1>3
<1>5. IsSeq(s) /\ Len(s) = 1 /\ s[1] = c /\ s # <<>>
  BY <1>3, OneOp
<1>6. "ok" \in DOMAIN c /\ (c.ok <=> Legible)
  BY <1>2
<1>7. OneShift' /\ Len(shift') = 1
  <2>1. \A n \in 1 .. 1 : n = 1
    OBVIOUS
  <2> QED BY <1>4, <1>5, <1>6, <2>1 DEF OneShift, IsSeq
<1>8. Legible => Bad' = 0
  BY <1>4, <1>5, <1>6 DEF Bad
<1>9. PICK l : l = Len(fifo)
  OBVIOUS
<1>10. PICK m : m = Len(fifo')
  OBVIOUS
<1>11. l \in Nat /\ m \in Nat /\ l = m + 1
  <2>1. PICK S : S = {fifo[n] : n \in 1 .. Len(fifo)}
    OBVIOUS
  <2>2. fifo \in Seq(S)
    BY <2>1 DEF BoardInv, Queued, IsSeq
  <2>3. l \in Nat /\ l # 0
    BY <1>1, <1>9, <2>2
  <2>4. m = l - 1
    BY <1>1, <1>9, <1>10, <2>2
  <2> QED BY <2>3, <2>4
<1>12. Len(shift) = 0 /\ Bad = 0
  BY <1>1 DEF Bad
<1> QED BY <1>1, <1>7, <1>8, <1>9, <1>10, <1>11, <1>12

(* ... and out, legible or not. *)
LEMMA TransmitCount ==
  ASSUME OneShift, garbled \in Nat, Transmit
  PROVE  /\ UNCHANGED kept /\ UNCHANGED fifo
         /\ shift # <<>> /\ shift' = <<>> /\ Len(shift) = 1
         /\ OneShift' /\ Len(shift') = 0 /\ Bad' = 0
         /\ Bad \in {0, 1} /\ garbled' = garbled + Bad /\ garbled' \in Nat
<1>1. /\ UNCHANGED kept /\ UNCHANGED fifo
      /\ shift # <<>> /\ shift' = <<>>
      /\ IF shift[1].ok THEN garbled' = garbled ELSE garbled' = garbled + 1
  BY DEF Transmit, kept, idle, chosen, sent
<1>2. PICK g : g = garbled
  OBVIOUS
<1>3. PICK b : b = Bad
  OBVIOUS
<1>4. garbled' = g + b /\ b \in {0, 1} /\ g \in Nat
  BY <1>1, <1>2, <1>3 DEF Bad
<1>5. garbled' \in Nat
  BY <1>4
<1>6. Bad' = 0 /\ OneShift' /\ Len(shift') = 0
  <2>1. IsSeq(<<>>) /\ Len(<<>>) = 0 /\ \A n : n \notin 1 .. 0
    BY DEF IsSeq
  <2> QED BY <1>1, <2>1 DEF Bad, OneShift, IsSeq
<1>7. Len(shift) = 1
  <2>1. PICK k : k = Len(shift)
    OBVIOUS
  <2>2. k \in Nat /\ k <= 1 /\ (k = 0 => shift = <<>>)
    BY <2>1, Joined DEF OneShift, IsSeq
  <2> QED BY <1>1, <2>1, <2>2
<1> QED BY <1>1, <1>2, <1>3, <1>4, <1>5, <1>6, <1>7

LEMMA ShiftFormat ==
  ASSUME BoardInv, StageInv, RateInv, CountInv, Shift
  PROVE  StageInv' /\ RateInv' /\ CountInv'
<1>1. /\ UNCHANGED kept /\ UNCHANGED <<job, stack, mie, mem, garbled>>
      /\ fifo # <<>> /\ Len(shift) = 0 /\ OneShift' /\ Len(shift') = 1
      /\ Legible => Bad' = 0
  BY ShiftCount DEF kept, chosen
<1>2. mem.is_init
  BY <1>1 DEF RateInv
<1>3. StageInv'
  BY <1>1, StageKept
<1>4. /\ RateInv'
      /\ \A m, n : Hears(m, n)' = Hears(m, n) /\ Past(m)' = Past(m)
      /\ Poised(Top, Here)' = Poised(Top, Here)
  BY <1>1, <1>2, RateKept
<1>5. ~Hears(19, 20) => Bad' = 0 /\ Bad = 0
  BY <1>1, <1>2, KnownLegible, ShiftCount
<1>6. PICK l : l = Len(fifo)
  OBVIOUS
<1>7. PICK m : m = Len(fifo')
  OBVIOUS
<1>8. l \in Nat /\ m \in Nat /\ l = m + 1
  BY <1>6, <1>7, ShiftCount
<1>9. garbled \in Nat
  BY DEF CountInv
<1>10. ~Past(18)' => garbled' = 0 /\ Bad' = 0
  BY <1>1, <1>4, <1>5, HearsPast DEF CountInv
<1>11. Hears(1, 18)' => Len(fifo') + Poised(Top, Here)' <= 1
  <2>1. PICK p : p = Poised(Top, Here)
    OBVIOUS
  <2>2. p \in {0, 1}
    BY <2>1, PoisedIs
  <2>3. Hears(1, 18) => l + p <= 1
    BY <1>6, <2>1 DEF CountInv
  <2>4. l + p <= 1 => m + p <= 1
    BY <1>8, <2>2
  <2> QED BY <1>4, <1>7, <2>1, <2>3, <2>4
<1>12. Hears(19, 20)' => garbled' + Len(shift') + Len(fifo') <= 2
  <2>1. Hears(19, 20) => garbled + 0 + l <= 2
    BY <1>1, <1>6 DEF CountInv
  <2>2. PICK n : n = garbled
    OBVIOUS
  <2>3. n + 0 + l <= 2 => n + 1 + m <= 2
    BY <1>8, <1>9, <2>2
  <2> QED BY <1>1, <1>4, <1>7, <2>1, <2>2, <2>3
<1>13. Past(20)' => garbled' + Bad' <= 2
  <2>1. Past(20) => garbled + 0 <= 2
    BY <1>5, HearsPast DEF CountInv
  <2> QED BY <1>1, <1>4, <1>5, <2>1, HearsPast
<1>14. CountInv'
  BY <1>1, <1>9, <1>10, <1>11, <1>12, <1>13 DEF CountInv
<1> QED BY <1>3, <1>4, <1>14

LEMMA TransmitFormat ==
  ASSUME BoardInv, StageInv, RateInv, CountInv, Transmit
  PROVE  StageInv' /\ RateInv' /\ CountInv'
<1>1. /\ UNCHANGED kept /\ UNCHANGED <<job, stack, mie, mem, fifo>>
      /\ shift # <<>> /\ shift' = <<>>
      /\ OneShift' /\ Bad' = 0 /\ garbled' = garbled + Bad /\ garbled' \in Nat
      /\ Len(shift) = 1 /\ Len(shift') = 0
  BY TransmitCount DEF kept, chosen, CountInv
<1>2. mem.is_init
  BY <1>1 DEF RateInv
<1>3. StageInv'
  BY <1>1, StageKept
<1>4. /\ RateInv'
      /\ \A m, n : Hears(m, n)' = Hears(m, n) /\ Past(m)' = Past(m)
      /\ Poised(Top, Here)' = Poised(Top, Here)
  BY <1>1, <1>2, RateKept
<1>5. PICK g \in Nat : g = garbled
  BY DEF CountInv
<1>6. PICK b \in {0, 1} : b = Bad
  BY TransmitCount DEF CountInv
<1>7. PICK l \in Nat : l = Len(fifo)
  BY QueueFacts
<1>8. ~Past(18) => g + b = 0
  BY <1>5, <1>6 DEF CountInv
<1>9. Hears(19, 20) => g + b + 0 + l <= 2
  <2>1. Hears(19, 20) => g + 1 + l <= 2
    BY <1>1, <1>5, <1>7 DEF CountInv
  <2>2. g + 1 + l <= 2 => g + b + 0 + l <= 2
    BY <1>5, <1>6, <1>7
  <2> QED BY <2>1, <2>2
<1>10. Past(20) => (g + b) + 0 <= 2
  <2>1. Past(20) => g + b <= 2
    BY <1>5, <1>6 DEF CountInv
  <2> QED BY <1>5, <1>6, <2>1
<1>11. Hears(1, 18) => Len(fifo) + Poised(Top, Here) <= 1
  BY DEF CountInv
<1>12. CountInv'
  BY <1>1, <1>4, <1>5, <1>6, <1>7, <1>8, <1>9, <1>10, <1>11 DEF CountInv
<1> QED BY <1>3, <1>4, <1>12

LEMMA FirstAt == ASSUME BoardInv PROVE stack[1].at \in Nat \ {0}
<1>1. 1 \in 1 .. Len(stack) /\ stack[1].code = "main"
  BY MainAlone
<1>2. stack[1].at \in 1 .. Len(TextOf(1)) + 1
  BY <1>1 DEF BoardInv, Nesting, Frame
<1>3. TextOf(1) = TextAt("main", job, target, cause) /\ "main" \in Frames
  BY <1>1 DEF TextOf, Frames
<1>4. IsSeq(TextOf(1))
  BY <1>3, Texts DEF BoardInv, Text, Part
<1> QED BY <1>2, <1>4, Joined

(* When uart_irq enables interrupts its listen is behind it. *)
LEMMA Onwards ==
  ASSUME BoardInv, StageInv, job = "uart_irq", mie \/ Len(stack) # 1
  PROVE  stack[1].at > 21
<1>1. ~Hears(1, 21)
  BY DEF StageInv
<1>2. stack[1].at \in Nat \ {0}
  BY FirstAt
<1> QED BY <1>1, <1>2 DEF Hears

(* When contexts come and go the format and the rate stay. *)
LEMMA ContextRate ==
  ASSUME RateInv, CountInv,
         UNCHANGED <<job, target, div, lcr, dl, fifo, shift, garbled, mem>>,
         NEW a \in Int, NEW b \in Int, a = stack[1].at, b = stack'[1].at,
         job = "uart_irq" => a > 21 /\ b > 21,
         ~mem.is_init => Known(Stage(Top))'
  PROVE  RateInv' /\ CountInv'
<1>1. /\ a > 21 => a > 18 /\ a > 20
      /\ b > 21 => b > 18 /\ b > 20
      /\ \A m, n \in 1 .. 20 : (a > 21 => a \notin m .. n) /\ (b > 21 => b \notin m .. n)
  OBVIOUS
<1>2. /\ ~Hears(18, 20) /\ ~Hears(19, 20) /\ ~Hears(1, 18)
      /\ ~Hears(18, 20)' /\ ~Hears(19, 20)' /\ ~Hears(1, 18)'
  <2>1. 1 \in 1 .. 20 /\ 18 \in 1 .. 20 /\ 19 \in 1 .. 20 /\ 20 \in 1 .. 20
    OBVIOUS
  <2> QED BY <1>1, <2>1 DEF Hears
<1>3. TheDivisor' = TheDivisor
  BY DEF TheDivisor, DivisorFor
<1>4. mem'.is_init => Known(12)'
  BY <1>2, <1>3 DEF RateInv, Known, Eight
<1>5. dl' = [lo |-> dl'.lo, hi |-> dl'.hi] /\ div' \in Dividers \cup {1}
  BY DEF RateInv
<1>6. ~mem'.is_init => Known(Stage(Top))' /\ fifo' = <<>> /\ shift' = <<>>
  BY DEF RateInv
<1>7. RateInv'
  BY <1>2, <1>4, <1>5, <1>6 DEF RateInv
<1>8. Bad' = Bad /\ OneShift' /\ garbled' = garbled
  BY DEF CountInv, OneShift, Bad, IsSeq
<1>9. /\ Past(18) <=> job = "uart_irq"
      /\ Past(20) <=> job = "uart_irq"
      /\ Past(18)' <=> job = "uart_irq"
      /\ Past(20)' <=> job = "uart_irq"
  BY <1>1 DEF Past
<1>10. CountInv'
  BY <1>2, <1>8, <1>9 DEF CountInv
<1> QED BY <1>7, <1>10

(* Behind a wfi comes its test: neither stands in the initialisation. *)
LEMMA WfiStage ==
  ASSUME BoardInv, job # "minimal", Running, Op.op = "wfi",
         job = "uart_irq" => stack[1].at > 21,
         NEW g, g.code = Top.code, g.at = Top.at - 1
  PROVE  /\ Stage(Top) = 12 /\ Stage(g) = 12
         /\ job = "uart_irq" /\ Top.code = "main" => g.at > 21
<1>1. PICK a : a = Top.at
  OBVIOUS
<1>2. PICK s : s = Here
  OBVIOUS
<1>3. /\ a \in Nat \ {0} /\ Len(s) \in Nat /\ a \in 1 .. Len(s) /\ Op = s[a]
      /\ g.at = a - 1
  BY <1>1, <1>2, TopFacts
<1>4. \A k \in 1 .. 11 : InitUart[k].op # "wfi"
  BY InitPlain DEF Jumpers
<1>5. Late(Op) \/ ~Late(Op)
  OBVIOUS
<1>6. ASSUME NEW o \in 0 .. 2, Boots(s, o), Offset(Top.code) = o, a > o,
             Top.code \notin Irqs, ~(Top.code = "main" /\ job = "blinky")
      PROVE  Stage(Top) = 12 /\ Stage(g) = 12
  <2>1. a > o + 11
    <3> SUFFICES ASSUME a <= o + 11 PROVE FALSE
      BY <1>3
    <3>1. a \in o + 1 .. o + 11 /\ a - o \in 1 .. 11
      BY <1>3, <1>6
    <3>2. Op = InitUart[a - o]
      BY <1>3, <1>6, <3>1 DEF Boots
    <3> QED BY <1>4, <3>1, <3>2
  <2>2. Beyond(Op, a - (o + 11))
    BY <1>3, <1>6, <2>1 DEF Boots
  <2>3. (a - (o + 11)) - 1 >= 1
    BY <2>2 DEF Beyond
  <2>4. ~(a - o < 1) /\ a - o > 11 /\ ~((a - 1) - o < 1) /\ (a - 1) - o > 11
    BY <1>3, <2>3
  <2>5. Stage(Top) = IF a - o < 1 THEN 0 ELSE IF a - o > 11 THEN 12 ELSE a - o
    BY <1>1, <1>6 DEF Stage
  <2>6. Stage(g) = IF (a - 1) - o < 1 THEN 0 ELSE IF (a - 1) - o > 11 THEN 12 ELSE (a - 1) - o
    BY <1>3, <1>6 DEF Stage
  <2> QED BY <2>4, <2>5, <2>6
<1>7. CASE Top.code \in Irqs /\ Calm(Here)
  <2>1. "main" \notin Irqs
    BY DEF Irqs
  <2> QED BY <1>7, <2>1 DEF Stage
<1>8. CASE Top.code = "main" /\ job = "blinky" /\ Dark(Here)
  BY <1>2, <1>3, <1>8 DEF Dark
<1>9. CASE Top.code = "main" /\ job = "uart_irq" /\ Starts(Here, Opening)
  <2>1. a > 21
    BY <1>1, <1>9, MainAlone
  <2>2. Beyond(Op, a - 21)
    BY <1>2, <1>3, <1>9, <2>1, OpeningOps DEF Starts
  <2>3. (a - 21) - 1 >= 1
    BY <2>2 DEF Beyond
  <2>4. g.at > 21 /\ ~(a < 1) /\ a > 11 /\ ~(a - 1 < 1) /\ a - 1 > 11
    BY <1>3, <2>3
  <2>5. Offset("main") = 0 /\ "main" \notin Irqs
    BY <1>9 DEF Offset, Irqs
  <2>6. a - 0 = a /\ (a - 1) - 0 = a - 1
    BY <1>3
  <2>7. Stage(Top) = IF a < 1 THEN 0 ELSE IF a > 11 THEN 12 ELSE a
    BY <1>1, <1>9, <2>5, <2>6 DEF Stage
  <2>8. Stage(g) = IF a - 1 < 1 THEN 0 ELSE IF a - 1 > 11 THEN 12 ELSE a - 1
    BY <1>3, <1>9, <2>5, <2>6 DEF Stage
  <2> QED BY <2>4, <2>7, <2>8
<1>10. CASE /\ Top.code = "main" /\ job \notin {"blinky", "uart_irq"}
            /\ Offset("main") \in 0 .. 2 /\ Boots(Here, Offset("main"))
            /\ \A n \in 1 .. Offset("main") : Here[n].op \in Before
  <2>1. PICK o \in 0 .. 2 : o = Offset("main")
    BY <1>10
  <2>2. a > o
    <3> SUFFICES ASSUME a <= o PROVE FALSE
      BY <1>3
    <3>1. a \in 1 .. o
      BY <1>3
    <3>2. Op.op \in Before
      BY <1>2, <1>3, <1>10, <2>1, <3>1
    <3> QED BY <3>2 DEF Before
  <2> QED BY <1>2, <1>6, <1>10, <2>1, <2>2 DEF Irqs
<1>11. CASE /\ Top.code \in {"panic", "exception"}
            /\ Boots(Here, 1) /\ Skipping(Here[1])
  <2>1. Top.code # "main" /\ Top.code \notin Irqs
    BY <1>11 DEF Irqs
  <2>2. Offset(Top.code) = 1
    BY <2>1 DEF Offset
  <2>3. a # 1
    BY <1>2, <1>3, <1>11 DEF Skipping
  <2>4. a > 1 /\ 1 \in 0 .. 2
    BY <1>3, <2>3
  <2> QED BY <1>2, <1>6, <1>11, <2>1, <2>2, <2>4
<1>12. Here # <<>>
  BY <1>2, <1>3
<1> QED BY <1>7, <1>8, <1>9, <1>10, <1>11, <1>12, Shapes

driven == <<job, target, div, lcr, dl, fifo, shift, garbled, mem>>

(* What an interrupt does to the contexts. *)
LEMMA Taken ==
  ASSUME BoardInv, Take
  PROVE  /\ mie /\ ~mie' /\ UNCHANGED driven
         /\ Len(stack') = Len(stack) + 1 /\ Top' = stack'[Len(stack) + 1]
         /\ Top'.code \in Irqs /\ Top.code \notin Irqs
         /\ \A n \in 1 .. Len(stack) - 1 : stack'[n] = stack[n]
         /\ stack'[Len(stack)].code = Top.code
         /\ stack'[Len(stack)].at = IF Running /\ Op.op = "wfi" THEN Top.at - 1
                                    ELSE Top.at
<1>1. mie /\ ~mie' /\ UNCHANGED driven
  BY DEF Take, Interrupted, chosen, uart, sent, driven
<1>2. PICK l : l = Len(stack)
  OBVIOUS
<1>3. /\ IsSeq(stack) /\ l \in 1 .. 3 /\ l \in 1 .. l
      /\ \A n \in 1 .. l : stack[n].code \in Irqs \cup {"exception"} => n = l /\ ~mie
  BY <1>2 DEF BoardInv, Nesting
<1>4. Top = stack[l]
  BY <1>2, TopFacts
<1>5. Top.code \notin Irqs
  BY <1>1, <1>3, <1>4
<1>6. PICK t : t = IF Running /\ Op.op = "wfi" THEN Top.at - 1 ELSE Top.at
  OBVIOUS
<1>7. PICK g : g = [Top EXCEPT !.at = t]
  OBVIOUS
<1>8. PICK i \in ip \cap ie : stack' = Append(WithTop(stack, g), Start(i))
  <2>1. PICK i \in ip \cap ie :
          stack' = Append([stack EXCEPT ![Len(stack)].at =
                             IF Running /\ Op.op = "wfi" THEN @ - 1 ELSE @], Start(i))
    BY DEF Take
  <2>2. PICK a : a = stack[l].at
    OBVIOUS
  <2>3. t = IF Running /\ Op.op = "wfi" THEN a - 1 ELSE a
    BY <1>4, <1>6, <2>2
  <2>4. [stack EXCEPT ![l].at = IF Running /\ Op.op = "wfi" THEN @ - 1 ELSE @]
          = [stack EXCEPT ![l] = [stack[l] EXCEPT !.at = t]]
    BY <2>2, <2>3, Zenon
  <2> QED BY <1>2, <1>4, <1>7, <2>1, <2>4 DEF WithTop
<1>9. i \in Irqs
  BY <1>8 DEF BoardInv
<1>10. g.code = Top.code /\ g.at = t
  <2>1. Top = [code |-> Top.code, at |-> Top.at, acc |-> Top.acc,
               divisor |-> Top.divisor]
    BY TopFacts DEF Frame
  <2>2. PICK top : top = Top
    OBVIOUS
  <2> QED BY <1>7, <2>1, <2>2
<1>11. /\ IsSeq(stack') /\ Len(stack') = l + 1
       /\ stack'[l + 1] = Start(i) /\ stack'[l] = g
       /\ \A n \in 1 .. l - 1 : stack'[n] = stack[n]
  <2>1. PICK q : q = WithTop(stack, g)
    OBVIOUS
  <2>2. /\ IsSeq(q) /\ Len(q) = l /\ q[l] = g
        /\ \A n \in 1 .. l - 1 : q[n] = stack[n]
    <3>1. Len(stack) > 0
      BY <1>2, <1>3
    <3> QED BY <1>2, <1>3, <2>1, <3>1, Replaced
  <2>3. PICK f : f = Start(i)
    OBVIOUS
  <2>4. /\ IsSeq(Append(q, f)) /\ Len(Append(q, f)) = l + 1
        /\ Append(q, f)[l + 1] = f
        /\ \A n \in 1 .. l : Append(q, f)[n] = q[n]
    BY <2>2, Appended
  <2>5. stack' = Append(q, f)
    BY <1>8, <2>1, <2>3
  <2>6. /\ IsSeq(stack') /\ Len(stack') = l + 1 /\ stack'[l + 1] = f
        /\ \A n \in 1 .. l : stack'[n] = q[n]
    BY <2>4, <2>5
  <2>7. \A n \in 1 .. l - 1 : n \in 1 .. l
    BY <1>3
  <2> QED BY <1>3, <2>2, <2>3, <2>6, <2>7
<1>12. Top' = stack'[l + 1]
  BY <1>11 DEF Top, Last
<1>13. Top'.code \in Irqs
  BY <1>9, <1>11, <1>12 DEF Start
<1> QED BY <1>1, <1>2, <1>5, <1>6, <1>10, <1>11, <1>12, <1>13

LEMMA TakeFormat ==
  ASSUME BoardInv, job # "minimal", StageInv, RateInv, CountInv, Take
  PROVE  StageInv' /\ RateInv' /\ CountInv'
<1>1. PICK l : l = Len(stack)
  OBVIOUS
<1>2. l \in 1 .. 3 /\ l \in 1 .. l /\ Top = stack[l] /\ stack[1].code = "main"
  BY <1>1, MainAlone, TopFacts
<1>3. /\ mie /\ ~mie' /\ UNCHANGED driven
      /\ Len(stack') = l + 1 /\ Top' = stack'[l + 1]
      /\ Top'.code \in Irqs /\ Top.code \notin Irqs
      /\ \A n \in 1 .. l - 1 : stack'[n] = stack[n]
      /\ stack'[l].code = Top.code
      /\ stack'[l].at = IF Running /\ Op.op = "wfi" THEN Top.at - 1 ELSE Top.at
  BY <1>1, Taken
<1>4. Stage(stack[1]) = 12
  BY <1>3 DEF StageInv
<1>5. mem.is_init /\ "is_init" \in DOMAIN mem
  <2>1. 1 \in 1 .. l
    BY <1>2
  <2> QED BY <1>1, <1>4, <2>1 DEF StageInv
<1>6. \A n \in 1 .. l : Stage(stack[n]) \notin 1 .. 11
  BY <1>1, <1>5 DEF StageInv
<1>7. job = "uart_irq" => stack[1].at > 21
  BY <1>3, Onwards
<1>8. job' = job
  BY <1>3 DEF driven
<1>9. \A n \in 1 .. l - 1 : Stage(stack[n])' = Stage(stack[n])
  BY <1>3, <1>8 DEF Stage, Offset
<1>10. /\ \/ Stage(stack[l])' = Stage(Top)
          \/ Stage(stack[l])' = 12 /\ Stage(Top) = 12
       /\ job = "uart_irq" /\ l = 1 => stack'[1].at > 21
  <2>1. PICK g : g = stack'[l]
    OBVIOUS
  <2>2. Stage(stack[l])' = Stage(g)
    BY <1>8, <2>1 DEF Stage, Offset
  <2>3. CASE Running /\ Op.op = "wfi"
    <3>1. g.code = Top.code /\ g.at = Top.at - 1
      BY <1>3, <2>1, <2>3
    <3>2. Stage(Top) = 12 /\ Stage(g) = 12
      BY <1>7, <2>3, <3>1, WfiStage
    <3>3. job = "uart_irq" /\ l = 1 => g.at > 21
      BY <1>2, <1>7, <2>3, <3>1, WfiStage
    <3> QED BY <2>1, <2>2, <3>2, <3>3
  <2>4. CASE ~(Running /\ Op.op = "wfi")
    <3>1. g.code = Top.code /\ g.at = Top.at
      BY <1>3, <2>1, <2>4
    <3>2. Stage(g) = Stage(Top)
      BY <3>1 DEF Stage
    <3> QED BY <1>2, <1>7, <2>1, <2>2, <3>1, <3>2
  <2> QED BY <2>3, <2>4
<1>11. Stage(stack[l + 1])' = 12
  <2>1. PICK g : g = stack'[l + 1]
    OBVIOUS
  <2>2. g.code \in Irqs
    BY <1>3, <2>1
  <2>3. Stage(stack[l + 1])' = Stage(g)
    BY <1>8, <2>1 DEF Stage, Offset
  <2>4. Stage(g) = 12
    BY <2>2 DEF Stage, Irqs
  <2> QED BY <2>3, <2>4
<1>12. Stage(stack[1])' = 12
  <2>1. CASE l = 1
    BY <1>2, <1>4, <1>10, <2>1
  <2>2. CASE l # 1
    <3>1. 1 \in 1 .. l - 1
      BY <1>2, <2>2
    <3> QED BY <1>4, <1>9, <3>1
  <2> QED BY <2>1, <2>2
<1>13. ASSUME NEW n \in 1 .. l + 1 PROVE Stage(stack[n])' \notin 1 .. 11
  <2>1. n \in 1 .. l - 1 \/ n = l \/ n = l + 1
    BY <1>2
  <2>2. n \in 1 .. l - 1 => n \in 1 .. l
    BY <1>2
  <2>3. 12 \notin 1 .. 11
    OBVIOUS
  <2> QED BY <1>2, <1>6, <1>9, <1>10, <1>11, <2>1, <2>2, <2>3
<1>14. job = "uart_irq" => stack'[1].at > 21
  <2>1. CASE l = 1
    BY <1>10, <2>1
  <2>2. CASE l # 1
    <3>1. 1 \in 1 .. l - 1
      BY <1>2, <2>2
    <3> QED BY <1>3, <1>7, <3>1
  <2> QED BY <2>1, <2>2
<1>15. stack[1].at \in Int /\ stack'[1].at \in Int
  <2>1. stack[1].at \in Nat \ {0} /\ Top.at \in Nat
    BY FirstAt, TopFacts
  <2>2. CASE l = 1
    <3>1. stack'[1].at = Top.at - 1 \/ stack'[1].at = Top.at
      BY <1>3, <2>2
    <3> QED BY <2>1, <3>1
  <2>3. CASE l # 1
    <3>1. 1 \in 1 .. l - 1
      BY <1>2, <2>3
    <3> QED BY <1>3, <2>1, <3>1
  <2> QED BY <2>2, <2>3
<1>16. ~Hears(1, 21)'
  <2>1. \A n \in 1 .. 21 : ~(n > 21)
    OBVIOUS
  <2> QED BY <1>8, <1>14, <2>1 DEF Hears
<1>17. Len(stack') # 1
  BY <1>2, <1>3
<1>18. mem' = mem
  BY <1>3 DEF driven
<1>19. StageInv'
  BY <1>3, <1>5, <1>12, <1>13, <1>16, <1>17, <1>18 DEF StageInv
<1>20. RateInv' /\ CountInv'
  <2>1. UNCHANGED <<job, target, div, lcr, dl, fifo, shift, garbled, mem>>
    BY <1>3 DEF driven
  <2> QED BY <1>5, <1>7, <1>14, <1>15, <2>1, ContextRate
<1> QED BY <1>19, <1>20

(* Behind a handler its program goes on, long past its initialisation. *)
LEMMA ReturnFormat ==
  ASSUME BoardInv, StageInv, RateInv, CountInv, Return
  PROVE  StageInv' /\ RateInv' /\ CountInv'
<1>1. Top.code \in Irqs /\ stack' = Front(stack) /\ UNCHANGED driven
  BY DEF Return, Irqs, driven, chosen, uart, sent
<1>2. PICK l : l = Len(stack)
  OBVIOUS
<1>3. PICK m : m = l - 1
  OBVIOUS
<1>4. IsSeq(stack) /\ l \in 1 .. 3
  BY <1>2 DEF BoardInv, Nesting
<1>5. l # 1
  <2>1. Top.code # "main"
    BY <1>1 DEF Irqs
  <2> QED BY <1>2, <2>1, MainAlone
<1>6. m \in 1 .. 2 /\ 1 \in 1 .. m /\ m \in 1 .. m /\ \A n \in 1 .. m : n \in 1 .. l
  BY <1>3, <1>4, <1>5
<1>7. Len(stack') = m /\ \A n \in 1 .. m : stack'[n] = stack[n]
  <2>1. Len(stack) > 0
    BY <1>2, <1>4
  <2> QED BY <1>1, <1>2, <1>3, <1>4, <2>1, Fronted
<1>8. Top' = stack'[m]
  BY <1>7 DEF Top, Last
<1>9. job' = job /\ mem' = mem
  BY <1>1 DEF driven
<1>10. \A n \in 1 .. m : Stage(stack[n])' = Stage(stack[n])
  BY <1>7, <1>9 DEF Stage, Offset
<1>11. Stage(stack[1]) = 12
  BY <1>1 DEF StageInv
<1>12. mem.is_init /\ "is_init" \in DOMAIN mem
  <2>1. 1 \in 1 .. l
    BY <1>4
  <2> QED BY <1>2, <1>11, <2>1 DEF StageInv
<1>13. \A n \in 1 .. m : Stage(stack[n])' \notin 1 .. 11
  BY <1>2, <1>6, <1>10, <1>12 DEF StageInv
<1>14. m = 1 => Stage(Top)' = 12
  BY <1>6, <1>8, <1>10, <1>11
<1>15. PICK a : a = stack[1].at
  OBVIOUS
<1>16. a \in Nat /\ (job = "uart_irq" => a > 21) /\ stack'[1].at = a
  BY <1>2, <1>5, <1>6, <1>7, <1>15, FirstAt, Onwards
<1>17. ~Hears(1, 21)'
  <2>1. \A n \in 1 .. 21 : ~(n > 21)
    OBVIOUS
  <2> QED BY <1>9, <1>16, <2>1 DEF Hears
<1>18. StageInv'
  BY <1>6, <1>7, <1>9, <1>10, <1>11, <1>12, <1>13, <1>14, <1>17 DEF StageInv
<1>19. RateInv' /\ CountInv'
  <2>1. UNCHANGED <<job, target, div, lcr, dl, fifo, shift, garbled, mem>>
    BY <1>1 DEF driven
  <2>2. a \in Int /\ a = stack'[1].at
    BY <1>16
  <2> QED BY <1>12, <1>15, <1>16, <2>1, <2>2, ContextRate
<1> QED BY <1>18, <1>19

(* A fault of application code: where it struck, the UART was as it is     *)
(* before or after an initialisation.                                      *)
LEMMA FaultFormat ==
  ASSUME BoardInv, job # "minimal", StageInv, RateInv, CountInv, Perform("app"),
         UNCHANGED <<div, uart, mem>>, mie' = mie \/ mie' = FALSE,
         NEW c \in {"panic", "exception"}, stack' = Append(stack, Start(c))
  PROVE  StageInv' /\ RateInv' /\ CountInv'
<1>1. /\ Running /\ Op.op = "app"
      /\ UNCHANGED <<job, target, div, lcr, dl, fifo, shift, garbled, mem>>
  BY DEF Perform, chosen, uart, sent
<1>2. Op = Here[Top.at] /\ Top.at \in 1 .. Len(Here)
  BY <1>1, TopFacts
<1>3. Op.op \in Kinds(Top.code, job)
  BY <1>2, TopFacts DEF Text, Part, Uses
<1>4. Top.code = "main" /\ job # "uart_irq"
  BY <1>1, <1>3, TopFacts DEF Kinds, KindsOf, Handling, Service, Irqs, Frames
<1>5. Len(stack) = 1 /\ stack[1] = Top
  BY <1>4, MainAlone
<1>6. /\ Len(stack') = 2 /\ stack'[1] = stack[1] /\ stack'[2] = Start(c)
  <2>1. PICK f : f = Start(c)
    OBVIOUS
  <2>2. IsSeq(stack) /\ 1 \in 1 .. 1
    BY DEF BoardInv, Nesting
  <2>3. PICK l : l = Len(stack)
    OBVIOUS
  <2>4. /\ Len(Append(stack, f)) = l + 1 /\ Append(stack, f)[l + 1] = f
        /\ \A n \in 1 .. l : Append(stack, f)[n] = stack[n]
    BY <2>2, <2>3, Appended
  <2>5. stack' = Append(stack, f) /\ l = 1
    BY <1>5, <2>1, <2>3
  <2>6. /\ Len(stack') = l + 1 /\ stack'[l + 1] = f
        /\ \A n \in 1 .. l : stack'[n] = stack[n]
    BY <2>4, <2>5
  <2>7. l + 1 = 2 /\ 1 \in 1 .. l
    BY <2>5
  <2> QED BY <2>1, <2>6, <2>7
<1>7. Start(c).code = c /\ Start(c).at = 1
  BY DEF Start
<1>8. Top' = stack'[2]
  BY <1>6 DEF Top, Last
<1>9. Stage(stack[1])' = Stage(Top) /\ Stage(stack[2])' = 0 /\ Stage(Top)' = 0
  <2>1. Stage(stack[1])' = Stage(Top)
    BY <1>1, <1>5, <1>6 DEF Stage, Offset
  <2>2. PICK f : f = stack'[2]
    OBVIOUS
  <2>3. f.code = c /\ f.at = 1
    BY <1>6, <1>7, <2>2
  <2>4. Stage(f) = 0
    <3>1. c \notin Irqs /\ c # "main"
      BY DEF Irqs
    <3>2. Offset(f.code) = 1
      BY <2>3, <3>1 DEF Offset
    <3> QED BY <2>3, <3>1, <3>2 DEF Stage
  <2>5. Stage(stack[2])' = Stage(f) /\ Stage(Top)' = Stage(f)
    BY <1>1, <1>8, <2>2 DEF Stage, Offset
  <2> QED BY <2>1, <2>4, <2>5
<1>10. PICK k : k = Stage(Top)
  OBVIOUS
<1>11. k = 0 \/ k = 12
  <2>1. PICK g : g = [code |-> Top.code, at |-> Top.at + 1]
    OBVIOUS
  <2>2. g.code = Top.code /\ g.at = Top.at + 1
    BY <2>1
  <2>3. g.at \in Nat
    BY <2>2, TopFacts
  <2>4. Goes(g.at)
    BY <1>1, <2>2 DEF Goes, Jumpers, Skips
  <2>5. k \in 1 .. 11 => Op = InitUart[k]
    BY <1>1, <1>10, <2>2, <2>3, <2>4, Stages
  <2>6. k = 0 \/ k \in 1 .. 11 \/ k = 12
    BY <1>1, <1>10, <2>2, <2>3, <2>4, Stages
  <2> QED BY <1>1, <2>5, <2>6, InitPlain
<1>12. k = 12 => mem.is_init
  <2>1. 1 \in 1 .. Len(stack)
    BY <1>5
  <2> QED BY <1>5, <1>10, <2>1 DEF StageInv
<1>13. "is_init" \in DOMAIN mem /\ mem' = mem
  BY <1>1 DEF StageInv
<1>14. ASSUME NEW n \in 1 .. 2
       PROVE  /\ Stage(stack[n])' = 12 => mem'.is_init
              /\ Stage(stack[n])' \notin 1 .. 11
  <2>1. n = 1 \/ n = 2
    OBVIOUS
  <2>2. CASE n = 1
    <3>1. Stage(stack[n])' = k
      BY <1>9, <1>10, <2>2
    <3> QED BY <1>11, <1>12, <1>13, <3>1
  <2>3. CASE n = 2
    <3>1. Stage(stack[n])' = 0
      BY <1>9, <2>3
    <3> QED BY <3>1
  <2> QED BY <2>1, <2>2, <2>3
<1>15. mie' \/ Top'.code \in Irqs => Stage(stack[1])' = 12
  <2>1. Top'.code \notin Irqs
    BY <1>6, <1>7, <1>8 DEF Irqs
  <2>2. mie' => mie
    OBVIOUS
  <2>3. mie => Stage(Top) = 12
    BY <1>5 DEF StageInv
  <2> QED BY <1>9, <2>1, <2>2, <2>3
<1>16. ~Hears(1, 21)'
  BY <1>1, <1>4 DEF Hears
<1>17. StageInv'
  <2>1. Len(stack)' = 2
    BY <1>6
  <2> QED BY <1>13, <1>14, <1>15, <1>16, <2>1 DEF StageInv
<1>18. ~mem.is_init => Known(Stage(Top))'
  <2> SUFFICES ASSUME ~mem.is_init PROVE Known(Stage(Top))'
    OBVIOUS
  <2>1. k = 0
    BY <1>11, <1>12
  <2>2. ~lcr.dlab
    BY <1>10, <2>1 DEF RateInv, Known
  <2> QED BY <1>1, <1>9, <2>2 DEF Known
<1>19. RateInv' /\ CountInv'
  <2>1. PICK a : a = stack[1].at
    OBVIOUS
  <2>2. a \in Int /\ a = stack'[1].at
    BY <1>6, <2>1, FirstAt
  <2> QED BY <1>1, <1>4, <1>18, <2>1, <2>2, ContextRate
<1> QED BY <1>17, <1>19

(* At the start nothing has been initialised and nothing sent. *)
LEMMA FormatInit == Init => FormatInv
<1> SUFFICES ASSUME Init, job # "minimal" PROVE StageInv /\ RateInv /\ CountInv
  BY DEF FormatInv
<1>1. /\ mie = FALSE /\ div \in Dividers /\ lcr.dlab = FALSE
      /\ fifo = <<>> /\ shift = <<>> /\ garbled = 0
      /\ "is_init" \in DOMAIN mem /\ ~mem.is_init
      /\ dl = [lo |-> 0, hi |-> 0]
  <2>1. /\ lcr = [dlab |-> FALSE, bits |-> 5]
        /\ mem = [is_init |-> FALSE, running |-> TRUE, locked |-> TRUE, buf |-> 0,
                  tb |-> "none"]
    BY DEF Init
  <2>2. "is_init" \in DOMAIN mem /\ ~mem.is_init
    BY <2>1
  <2> QED BY <2>1, <2>2 DEF Init
<1>2. Len(stack) = 1 /\ stack[1].code = "main" /\ stack[1].at = 1 /\ Top = stack[1]
  <2>1. PICK f : f = Start("main")
    OBVIOUS
  <2>2. stack = <<f>> /\ f.code = "main" /\ f.at = 1
    BY <2>1 DEF Init, Start
  <2>3. Len(stack) = 1 /\ stack[1] = f
    BY <2>2, OneOp
  <2> QED BY <2>2, <2>3 DEF Top, Last
<1>3. Stage(Top) \in {0, 1}
  <2>1. Top.code \notin Irqs /\ Top.at = 1
    BY <1>2 DEF Irqs
  <2>2. PICK o : o = Offset(Top.code)
    OBVIOUS
  <2>3. o \in {0, 1, 2}
    BY <2>2 DEF Offset
  <2>4. (IF 1 - o < 1 THEN 0 ELSE IF 1 - o > 11 THEN 12 ELSE 1 - o) \in {0, 1}
    BY <2>3
  <2> QED BY <2>1, <2>2, <2>4 DEF Stage
<1>4. StageInv
  <2>1. \A n \in 1 .. 1 : n = 1
    OBVIOUS
  <2>2. Top.code \notin Irqs
    BY <1>2 DEF Irqs
  <2>3. \A n \in 1 .. Len(stack) :
          /\ Stage(stack[n]) # 12
          /\ Stage(stack[n]) \in 1 .. 11 => n = Len(stack) /\ ~mem.is_init
    BY <1>1, <1>2, <1>3, <2>1
  <2> QED BY <1>1, <1>2, <2>2, <2>3 DEF StageInv
<1>5. ~Hears(18, 20) /\ ~Hears(19, 20) /\ ~Past(18) /\ ~Past(20)
  BY <1>2 DEF Hears, Past
<1>6. RateInv
  <2>1. dl = [lo |-> dl.lo, hi |-> dl.hi]
    BY <1>1
  <2>2. \A k \in {0, 1} : Known(k)
    BY <1>1 DEF Known
  <2> QED BY <1>1, <1>3, <1>5, <2>1, <2>2 DEF RateInv
<1>7. CountInv
  <2>1. IsSeq(<<>>) /\ Len(<<>>) = 0 /\ \A n : n \notin 1 .. 0
    BY DEF IsSeq
  <2>2. OneShift
    BY <1>1, <2>1 DEF OneShift
  <2>3. Bad = 0
    BY <1>1 DEF Bad
  <2>4. PICK p : p = Poised(Top, Here)
    OBVIOUS
  <2>5. p \in {0, 1}
    BY <2>4, PoisedIs
  <2>6. 0 + p <= 1
    BY <2>5
  <2>7. Len(fifo) + Poised(Top, Here) <= 1
    BY <1>1, <2>1, <2>4, <2>6
  <2> QED BY <1>1, <1>5, <2>2, <2>3, <2>7 DEF CountInv
<1> QED BY <1>4, <1>6, <1>7

(* No step changes which program runs. *)
LEMMA JobStays == [Next]_vars => job' = job /\ target' = target
BY DEF Next, Core, Take, Return, App, Jumping, Storing, Configuring, ReadGpio,
  WriteGpio, ReadLcr, WriteLcr, WriteIer, WriteChar, ComputeDivisor, ClearFifos,
  Poll, ReadChar, Shift, Transmit, Type, Timeout, AlarmRings, idle, vars, chosen,
  Perform

LEMMA FormatStep == BoardInv /\ FormatInv /\ [Next]_vars => FormatInv'
<1> SUFFICES ASSUME BoardInv, FormatInv, [Next]_vars, job' # "minimal"
             PROVE  StageInv' /\ RateInv' /\ CountInv'
  BY DEF FormatInv
<1>0. job # "minimal" /\ StageInv /\ RateInv /\ CountInv /\ BoardInv'
  BY JobStays, BoardStep DEF FormatInv
<1>1. ASSUME Acting PROVE StageInv' /\ RateInv' /\ CountInv'
  <2>1. StageInv' /\ RateInv'
    BY <1>0, <1>1, StageActs, RateActs
  <2>2. CountInv'
    BY <1>0, <1>1, <2>1, CountActs
  <2> QED BY <2>1, <2>2
<1>2. CASE Take
  BY <1>0, <1>2, TakeFormat
<1>3. CASE Return
  BY <1>0, <1>3, ReturnFormat
<1>4. CASE App
  <2>1. Perform("app") /\ UNCHANGED <<ie, div, uart, mem>>
    BY <1>4 DEF App
  <2>2. CASE NextOp /\ UNCHANGED <<mie, fault, cause>>
    <3>1. Acting
      BY <2>1, <2>2 DEF Acting, AppGoesOn
    <3> QED BY <1>1, <3>1
  <2>3. CASE stack' = Append(stack, Start("panic")) /\ mie' = mie
    BY <1>0, <2>1, <2>3, FaultFormat
  <2>4. CASE stack' = Append(stack, Start("exception")) /\ mie' = FALSE
    BY <1>0, <2>1, <2>4, FaultFormat
  <2> QED BY <1>4, <2>2, <2>3, <2>4 DEF App
<1>5. CASE \/ Jumping \/ Storing \/ Configuring \/ ReadGpio \/ WriteGpio \/ ReadLcr
           \/ WriteLcr \/ WriteIer \/ WriteChar \/ ComputeDivisor \/ ClearFifos
           \/ Poll \/ ReadChar
  BY <1>1, <1>5 DEF Acting
<1>6. CASE Shift
  BY <1>0, <1>6, ShiftFormat
<1>7. CASE Transmit
  BY <1>0, <1>7, TransmitFormat
<1>8. CASE Type \/ Timeout \/ AlarmRings \/ UNCHANGED vars
  <2>1. UNCHANGED <<kept, fifo, shift, garbled>>
    BY <1>8 DEF Type, Timeout, AlarmRings, idle, vars, irqs, uart, sent, kept
  <2> QED BY <1>0, <2>1, QuietFormat
<1> QED BY <1>2, <1>3, <1>4, <1>5, <1>6, <1>7, <1>8 DEF Next, Core

-----------------------------------------------------------------------------
(* rust_minimal, which has an initialisation of its own.                   *)

(* rust_minimal takes the clock divider to be two. *)
TwoDivisor == DivisorFor(target, 2)

Prepared(p) ==
  /\ p \in 1 .. 3 => ~lcr.dlab
  /\ p \in 4 .. 6 => lcr.dlab
  /\ p \in 2 .. 5 => Top.divisor = TwoDivisor
  /\ p \in 5 .. 12 => dl.lo = TwoDivisor % 256
  /\ p \in 6 .. 12 => dl.hi = TwoDivisor \div 256
  /\ p \in 7 .. 12 => lcr = Eight

Written(p) == IF p <= 9 THEN 0 ELSE IF p <= 11 THEN 1 ELSE 2

(* Of its two characters those that are written are in the FIFO, in the    *)
(* shift register or out; and out well if the divider is two.              *)
MinimalInv ==
  job = "minimal" =>
    /\ Len(stack) = 1
    /\ dl = [lo |-> dl.lo, hi |-> dl.hi] /\ div \in Dividers \cup {1}
    /\ Prepared(Top.at)
    /\ garbled \in Nat /\ OneShift
    /\ garbled + Len(shift) + Len(fifo) <= Written(Top.at)
    /\ div = 2 => garbled = 0 /\ Bad = 0

(* The divisor for two, when the divider has that setting. *)
LEMMA TwoFits ==
  ASSUME NEW t \in Targets, 2 \in Dividers \cup {1},
         NEW v, v = DivisorFor(t, 2)
  PROVE  Fits(v, t, 2) /\ v \in 1 .. 255
<1>1. Fits(v, t, 2)
  BY RateAssumption DEF UsableRates
<1>2. v \in 1 .. 255
  BY <1>1 DEF Fits
<1> QED BY <1>1, <1>2

LEMMA PreparedLegible ==
  ASSUME target \in Targets, div \in Dividers \cup {1}, div = 2,
         NEW p \in 7 .. 12, Prepared(p)
  PROVE  Legible
<1>1. lcr = Eight /\ dl.lo = TwoDivisor % 256 /\ dl.hi = TwoDivisor \div 256
  BY DEF Prepared
<1>2. PICK v : v = TwoDivisor
  OBVIOUS
<1>3. Fits(v, target, 2) /\ v \in 1 .. 255
  BY <1>2, TwoFits DEF TwoDivisor
<1>4. Rate = v
  <2>1. PICK lo : lo = v % 256
    OBVIOUS
  <2>2. PICK hi : hi = v \div 256
    OBVIOUS
  <2>3. 256 * hi + lo = v
    BY <1>3, <2>1, <2>2
  <2>4. Rate = 256 * hi + lo
    BY <1>1, <1>2, <2>1, <2>2 DEF Rate
  <2> QED BY <2>3, <2>4
<1> QED BY <1>1, <1>3, <1>4 DEF Legible, RightRate, Eight

(* The program and where it stands. *)
LEMMA MinimalTop ==
  ASSUME BoardInv, job = "minimal", Len(stack) = 1
  PROVE  /\ Top.code = "main" /\ Here = Minimal(target)
         /\ Top.at \in 1 .. 12 /\ ie = {}
         /\ Running => Top.at \in 1 .. 11 /\ Op = Minimal(target)[Top.at]
<1>1. Top.code = "main"
  BY MainAlone
<1>2. Here = Minimal(target)
  <2>1. Here = MainOf[target]["minimal"]
    BY <1>1, TopFacts DEF Here, TextOf, TextAt
  <2> QED BY <2>1 DEF BoardInv, MainOf, Programs, Targets
<1>3. Len(Here) = 11
  BY <1>2, MinimalList
<1>4. Top.at \in 1 .. 12
  <2>1. Top.at \in 1 .. 11 + 1
    BY <1>3, TopFacts DEF Frame
  <2> QED BY <2>1
<1>5. ie = {}
  BY DEF BoardInv, KindsOf, Irqs, Service, Handling
<1> QED BY <1>1, <1>2, <1>3, <1>4, <1>5, TopFacts

(* What is known before an operation is known behind it. *)
LEMMA MinimalActs ==
  ASSUME BoardInv, job = "minimal", MinimalInv, Acting
  PROVE  /\ Top.at \in 1 .. 11 /\ Top'.at = Top.at + 1 /\ Prepared(Top.at)'
         /\ Len(stack') = 1 /\ dl' = [lo |-> dl'.lo, hi |-> dl'.hi]
         /\ div' = div /\ target' = target /\ garbled' = garbled
         /\ shift' = shift \/ ShiftOn
         /\ Sending(Op) => Top.at \in {9, 11}
<1>1. PICK g : Moves(Op, g)
  BY Acts
<1>2. Running /\ Effects
  BY Acts
<1>3. PICK a : a = Top.at
  OBVIOUS
<1>4. Len(stack) = 1 /\ dl = [lo |-> dl.lo, hi |-> dl.hi] /\ Prepared(a)
  BY <1>3 DEF MinimalInv
<1>5. a \in {1, 2, 3, 4, 5, 6, 7, 8, 9, 10, 11} /\ Op = Minimal(target)[a]
  BY <1>2, <1>3, <1>4, MinimalTop
<1>6. /\ a = 1 => Op.op = "divisor" /\ Op.by = "two"
      /\ a = 2 => Op.op = "write" /\ Op.reg = "ier_dlm"
      /\ a = 3 => Op.op = "write_lcr" /\ Op.how = "dlab"
      /\ a = 4 => Op.op = "divisor_lo"
      /\ a = 5 => Op.op = "divisor_hi"
      /\ a = 6 => Op.op = "write_lcr" /\ Op.how = "bits8"
      /\ a = 7 => Op.op = "clear_fifos"
      /\ a \in {8, 10} => Op.op = "poll_empty"
      /\ a \in {9, 11} => Op.op = "write" /\ Op.reg = "thr"
  BY <1>5, MinimalList
<1>7. Op.op \notin Jumpers \cup {"divide"}
  BY <1>5, <1>6 DEF Jumpers, Skips
<1>8. Top'.at = a + 1
  BY <1>2, <1>3, <1>7 DEF Effects, Goes, Jumpers, Skips
<1>9. /\ target' = target /\ div' = div /\ garbled' = garbled
      /\ shift' = shift \/ ShiftOn
      /\ lcr' = IF Op.op = "write_lcr" THEN Lcr(Op.how) ELSE lcr
      /\ Len(stack') = 1
  BY <1>1, <1>2, <1>4, <1>7, TopMoves DEF Moves, chosen, Effects
<1>10. PICK v : v = TwoDivisor
  OBVIOUS
<1>11. TwoDivisor' = v
  BY <1>9, <1>10 DEF TwoDivisor, DivisorFor
<1>12. Sending(Op) => a \in {9, 11}
  BY <1>5, <1>6 DEF Sending
<1>13. PICK d : d = dl
  OBVIOUS
<1>14. \A x : [dl EXCEPT !.lo = x] = [lo |-> x, hi |-> dl.hi]
              /\ [dl EXCEPT !.hi = x] = [lo |-> dl.lo, hi |-> x]
  <2>1. d = [lo |-> d.lo, hi |-> d.hi]
    BY <1>4, <1>13
  <2>2. \A x : [d EXCEPT !.lo = x] = [lo |-> x, hi |-> d.hi]
               /\ [d EXCEPT !.hi = x] = [lo |-> d.lo, hi |-> x]
    BY <2>1
  <2> QED BY <1>13, <2>2
<1>15. /\ a # 4 /\ a # 5 => dl' = dl
       /\ a = 4 => dl' = [lo |-> v % 256, hi |-> dl.hi]
       /\ a = 5 => dl' = [lo |-> dl.lo, hi |-> v \div 256]
  <2>1. CASE a \in {4, 5}
    <3>1. lcr.dlab /\ Top.divisor = v
      BY <1>4, <1>10, <2>1 DEF Prepared
    <3> QED BY <1>2, <1>6, <1>14, <2>1, <3>1 DEF Effects
  <2>2. CASE a \in {2, 9, 11}
    <3>1. ~lcr.dlab
      BY <1>4, <2>2 DEF Prepared, Eight
    <3> QED BY <1>2, <2>2, <3>1 DEF Effects
  <2>3. CASE a \in {1, 3, 6, 7, 8, 10}
    <3>1. Op.op \notin {"write", "write_acc", "divisor_lo", "divisor_hi"}
      BY <1>6, <2>3
    <3> QED BY <1>2, <2>3, <3>1 DEF Effects
  <2> QED BY <1>5, <2>1, <2>2, <2>3
<1>16. dl' = [lo |-> dl'.lo, hi |-> dl'.hi]
  <2>1. \A x, y : dl' = [lo |-> x, hi |-> y] => dl' = [lo |-> dl'.lo, hi |-> dl'.hi]
    OBVIOUS
  <2> QED BY <1>4, <1>5, <1>15, <2>1
<1>17. /\ a + 1 \in 5 .. 12 => dl'.lo = v % 256
       /\ a + 1 \in 6 .. 12 => dl'.hi = v \div 256
  <2>1. \A x, y : dl' = [lo |-> x, hi |-> y] => dl'.lo = x /\ dl'.hi = y
    OBVIOUS
  <2>2. a \in 5 .. 12 => dl.lo = v % 256
    BY <1>4, <1>10 DEF Prepared
  <2>3. a \in 6 .. 12 => dl.hi = v \div 256
    BY <1>4, <1>10 DEF Prepared
  <2> QED BY <1>5, <1>15, <2>1, <2>2, <2>3
<1>18. a + 1 \in 2 .. 5 => Top'.divisor = v
  <2>1. a = 1 => Top'.divisor = v
    BY <1>2, <1>6, <1>10 DEF Effects, TwoDivisor
  <2>2. a \in {2, 3, 4} => Top'.divisor = v
    <3>1. a \in {2, 3, 4} => Top.divisor = v
      BY <1>4, <1>10 DEF Prepared
    <3> QED BY <1>2, <1>6, <3>1 DEF Effects
  <2> QED BY <1>5, <2>1, <2>2
<1>19. /\ a + 1 \in 1 .. 3 => ~lcr'.dlab
       /\ a + 1 \in 4 .. 6 => lcr'.dlab
       /\ a + 1 \in 7 .. 12 => lcr' = Eight
  <2>1. CASE a \in {1, 2, 4, 5, 7, 8, 9, 10, 11}
    <3>1. lcr' = lcr
      BY <1>6, <1>9, <2>1
    <3>2. /\ a \in 1 .. 3 => ~lcr.dlab
          /\ a \in 4 .. 6 => lcr.dlab
          /\ a \in 7 .. 12 => lcr = Eight
      BY <1>4 DEF Prepared
    <3> QED BY <2>1, <3>1, <3>2
  <2>2. CASE a = 3
    BY <1>6, <1>9, <2>2 DEF Lcr
  <2>3. CASE a = 6
    BY <1>6, <1>9, <2>3 DEF Lcr, Eight
  <2> QED BY <1>5, <2>1, <2>2, <2>3
<1>20. Prepared(a + 1)'
  BY <1>11, <1>17, <1>18, <1>19 DEF Prepared, Eight
<1>21. Prepared(Top.at)'
  BY <1>8, <1>20 DEF Prepared, Eight
<1> QED BY <1>3, <1>5, <1>8, <1>9, <1>12, <1>16, <1>21

LEMMA MinimalKept ==
  ASSUME BoardInv, job = "minimal", MinimalInv, UNCHANGED kept
  PROVE  /\ job' = job /\ target' = target /\ div' = div /\ Len(stack') = 1
         /\ Top'.at = Top.at /\ Prepared(Top.at)'
         /\ dl' = [lo |-> dl'.lo, hi |-> dl'.hi] /\ div' \in Dividers \cup {1}
<1>1. UNCHANGED <<job, target, stack, div, lcr, dl>>
  BY DEF kept, chosen
<1>2. Top' = Top
  BY <1>1 DEF Top, Last
<1>3. TwoDivisor' = TwoDivisor
  BY <1>1 DEF TwoDivisor, DivisorFor
<1>4. Prepared(Top.at)'
  BY <1>1, <1>2, <1>3 DEF MinimalInv, Prepared, Eight
<1> QED BY <1>1, <1>2, <1>4 DEF MinimalInv

(* What is sent. *)
LEMMA MinimalCount ==
  ASSUME BoardInv, job = "minimal", MinimalInv, Acting, BoardInv'
  PROVE  MinimalInv'
<1>1. PICK a : a = Top.at
  OBVIOUS
<1>2. /\ a \in 1 .. 11 /\ Top'.at = a + 1 /\ Prepared(Top.at)'
      /\ Len(stack') = 1 /\ dl' = [lo |-> dl'.lo, hi |-> dl'.hi]
      /\ div' = div /\ target' = target /\ garbled' = garbled
      /\ shift' = shift \/ ShiftOn
      /\ Sending(Op) => a \in {9, 11}
  BY <1>1, MinimalActs
<1>3. garbled \in Nat /\ OneShift /\ div \in Dividers \cup {1}
  BY DEF MinimalInv
<1>4. /\ OneShift' /\ Len(shift') = Len(shift) /\ (shift' = <<>> <=> shift = <<>>)
      /\ Legible' /\ Bad = 0 => Bad' = 0
  BY <1>2, <1>3, ShiftStep
<1>5. PICK n : n = garbled
  OBVIOUS
<1>6. PICK k : k = Len(shift)
  OBVIOUS
<1>7. PICK l : l = Len(fifo)
  OBVIOUS
<1>8. PICK m : m = Len(fifo')
  OBVIOUS
<1>9. n \in Nat /\ k \in Nat /\ l \in Nat /\ (k = 0 => shift = <<>>)
  BY <1>3, <1>5, <1>6, <1>7, Joined, QueueFacts DEF OneShift, IsSeq
<1>10. n + k + l <= Written(a)
  BY <1>1, <1>5, <1>6, <1>7 DEF MinimalInv
<1>11. m \in Nat /\ (m <= l \/ (a \in {9, 11} /\ m = l + 1))
  <2>1. PICK g : Moves(Op, g)
    BY Acts
  <2>2. IsSeq(fifo) /\ Len(<<>>) = 0
    BY DEF BoardInv, Queued
  <2>3. CASE fifo' = fifo
    BY <1>7, <1>8, <1>9, <2>3
  <2>4. CASE fifo' = <<>>
    BY <1>8, <1>9, <2>2, <2>4
  <2>5. CASE Sending(Op) /\ \E c : fifo' = Append(fifo, c)
    <3>1. PICK c : fifo' = Append(fifo, c)
      BY <2>5
    <3>2. Len(fifo') = Len(fifo) + 1
      BY <2>2, <3>1, Appended
    <3> QED BY <1>2, <1>7, <1>8, <1>9, <2>5, <3>2
  <2> QED BY <2>1, <2>3, <2>4, <2>5 DEF Moves
<1>12. n + k + m <= Written(a + 1)
  BY <1>2, <1>9, <1>10, <1>11 DEF Written
<1>13. garbled' + Len(shift') + Len(fifo') <= Written(Top'.at)
  BY <1>2, <1>4, <1>5, <1>6, <1>8, <1>12
<1>14. ASSUME div' = 2 PROVE garbled' = 0 /\ Bad' = 0
  <2>1. garbled = 0 /\ Bad = 0
    BY <1>2, <1>14 DEF MinimalInv
  <2>2. CASE a <= 9
    <3>1. k = 0
      BY <1>9, <1>10, <2>2 DEF Written
    <3> QED BY <1>2, <1>4, <1>9, <2>1, <3>1 DEF Bad
  <2>3. CASE a > 9
    <3>1. PICK p \in 7 .. 12 : p = Top'.at
      BY <1>2, <2>3
    <3>2. Legible'
      <4>1. Prepared(p)'
        BY <1>2, <3>1 DEF Prepared, Eight
      <4>2. lcr' = Eight /\ dl'.lo = TwoDivisor' % 256 /\ dl'.hi = TwoDivisor' \div 256
        BY <4>1 DEF Prepared, Eight
      <4>3. PICK v : v = DivisorFor(target, 2)
        OBVIOUS
      <4>4. TwoDivisor' = v
        BY <1>2, <4>3 DEF TwoDivisor, DivisorFor
      <4>5. target \in Targets /\ 2 \in Dividers \cup {1}
        BY <1>2, <1>3, <1>14 DEF BoardInv
      <4>6. Fits(v, target, 2) /\ v \in 1 .. 255
        BY <4>3, <4>5, TwoFits
      <4>7. Rate' = v
        <5>1. PICK lo : lo = v % 256
          OBVIOUS
        <5>2. PICK hi : hi = v \div 256
          OBVIOUS
        <5>3. 256 * hi + lo = v
          BY <4>6, <5>1, <5>2
        <5>4. Rate' = 256 * hi + lo
          BY <4>2, <4>4, <5>1, <5>2 DEF Rate
        <5> QED BY <5>3, <5>4
      <4>8. RightRate'
        BY <1>2, <1>14, <4>6, <4>7 DEF RightRate, Fits
      <4> QED BY <4>2, <4>8 DEF Legible, Eight
    <3> QED BY <1>2, <1>4, <2>1, <3>2
  <2> QED BY <1>2, <2>2, <2>3
<1> QED BY <1>2, <1>3, <1>4, <1>13, <1>14 DEF MinimalInv

LEMMA MinimalQuiet ==
  ASSUME BoardInv, job = "minimal", MinimalInv, UNCHANGED <<kept, fifo, shift, garbled>>
  PROVE  MinimalInv'
<1>1. /\ target' = target /\ div' = div /\ Len(stack') = 1
      /\ Top'.at = Top.at /\ Prepared(Top.at)'
      /\ dl' = [lo |-> dl'.lo, hi |-> dl'.hi] /\ div' \in Dividers \cup {1}
  BY MinimalKept
<1>2. Bad' = Bad /\ OneShift'
  BY DEF MinimalInv, OneShift, Bad, IsSeq
<1> QED BY <1>1, <1>2 DEF MinimalInv, Written

LEMMA MinimalSends ==
  ASSUME BoardInv, job = "minimal", MinimalInv, Shift \/ Transmit
  PROVE  MinimalInv'
<1>1. UNCHANGED kept
  BY DEF Shift, Transmit, idle, kept, chosen, sent
<1>2. /\ target' = target /\ div' = div /\ Len(stack') = 1
      /\ Top'.at = Top.at /\ Prepared(Top.at)'
      /\ dl' = [lo |-> dl'.lo, hi |-> dl'.hi] /\ div' \in Dividers \cup {1}
  BY <1>1, MinimalKept
<1>3. garbled \in Nat /\ OneShift /\ (div = 2 => garbled = 0 /\ Bad = 0)
  BY DEF MinimalInv
<1>4. PICK n \in Nat : n = garbled
  BY <1>3
<1>5. PICK w : w = Written(Top.at)
  OBVIOUS
<1>6. w \in {0, 1, 2} /\ w = Written(Top'.at)
  BY <1>2, <1>5 DEF Written
<1>7. n + Len(shift) + Len(fifo) <= w
  BY <1>4, <1>5 DEF MinimalInv
<1>8. CASE Shift
  <2>1. PICK l \in Nat : l = Len(fifo)
    BY <1>8, ShiftCount
  <2>2. PICK m \in Nat : m = Len(fifo')
    BY <1>8, ShiftCount
  <2>3. /\ garbled' = n /\ Len(shift) = 0 /\ Len(shift') = 1 /\ OneShift' /\ l = m + 1
        /\ Legible => Bad' = 0
    BY <1>4, <1>8, <2>1, <2>2, ShiftCount
  <2>4. n + 0 + l <= w
    BY <1>7, <2>1, <2>3
  <2>5. n + 1 + m <= w /\ w > 0
    BY <1>4, <1>6, <2>1, <2>2, <2>3, <2>4
  <2>6. div = 2 => Legible
    <3>1. Top.at \in 1 .. 12
      BY MinimalTop DEF MinimalInv
    <3>2. Top.at \in 7 .. 12
      BY <1>5, <2>5, <3>1 DEF Written
    <3> QED BY <3>2, PreparedLegible DEF MinimalInv, BoardInv
  <2>7. garbled' + Len(shift') + Len(fifo') <= Written(Top'.at)
    BY <1>6, <2>2, <2>3, <2>5
  <2> QED BY <1>2, <1>3, <1>4, <2>3, <2>6, <2>7 DEF MinimalInv
<1>9. CASE Transmit
  <2>1. PICK b \in {0, 1} : b = Bad
    BY <1>3, <1>9, TransmitCount
  <2>2. PICK l \in Nat : l = Len(fifo)
    BY QueueFacts
  <2>3. /\ garbled' = n + b /\ Len(shift) = 1 /\ Len(shift') = 0 /\ OneShift'
        /\ Bad' = 0 /\ Len(fifo') = l
    BY <1>3, <1>4, <1>9, <2>1, <2>2, TransmitCount
  <2>4. n + 1 + l <= w
    BY <1>7, <2>2, <2>3
  <2>5. n + b + 0 + l <= w /\ n + b \in Nat
    BY <1>4, <1>6, <2>1, <2>2, <2>4
  <2>6. garbled' + Len(shift') + Len(fifo') <= Written(Top'.at)
    BY <1>6, <2>3, <2>5
  <2>7. div' = 2 => garbled' = 0
    BY <1>2, <1>3, <1>4, <2>1, <2>3
  <2> QED BY <1>2, <2>3, <2>5, <2>6, <2>7 DEF MinimalInv
<1> QED BY <1>8, <1>9

LEMMA MinimalInit == Init => MinimalInv
<1> SUFFICES ASSUME Init, job = "minimal" PROVE MinimalInv
  BY DEF MinimalInv
<1>1. /\ div \in Dividers /\ lcr.dlab = FALSE /\ fifo = <<>> /\ shift = <<>>
      /\ garbled = 0 /\ dl = [lo |-> 0, hi |-> 0]
  BY DEF Init
<1>2. Len(stack) = 1 /\ Top.at = 1
  <2>1. PICK f : f = Start("main")
    OBVIOUS
  <2>2. stack = <<f>> /\ f.at = 1
    BY <2>1 DEF Init, Start
  <2>3. Len(stack) = 1 /\ stack[1] = f
    BY <2>2, OneOp
  <2> QED BY <2>2, <2>3 DEF Top, Last
<1>3. IsSeq(<<>>) /\ Len(<<>>) = 0 /\ \A n : n \notin 1 .. 0
  BY DEF IsSeq
<1>4. OneShift /\ Bad = 0
  BY <1>1, <1>3 DEF OneShift, Bad
<1>5. dl = [lo |-> dl.lo, hi |-> dl.hi]
  BY <1>1
<1>6. Prepared(1)
  BY <1>1 DEF Prepared
<1> QED BY <1>1, <1>2, <1>3, <1>4, <1>5, <1>6 DEF MinimalInv, Written

LEMMA MinimalStep == BoardInv /\ MinimalInv /\ [Next]_vars => MinimalInv'
<1> SUFFICES ASSUME BoardInv, MinimalInv, [Next]_vars, job' = "minimal" PROVE MinimalInv'
  BY DEF MinimalInv
<1>0. job = "minimal" /\ BoardInv' /\ Len(stack) = 1
  BY JobStays, BoardStep DEF MinimalInv
<1>1. CASE Take
  BY <1>0, <1>1, MinimalTop DEF Take, Interrupted
<1>2. CASE Return
  BY <1>0, <1>2, MinimalTop DEF Return
<1>3. CASE App
  <2>1. PICK a : a = Top.at
    OBVIOUS
  <2>2. a \in {1, 2, 3, 4, 5, 6, 7, 8, 9, 10, 11} /\ Op = Minimal(target)[a] /\ Op.op = "app"
    BY <1>0, <1>3, <2>1, MinimalTop DEF App, Perform
  <2> QED BY <2>2, MinimalList
<1>4. CASE \/ Jumping \/ Storing \/ Configuring \/ ReadGpio \/ WriteGpio \/ ReadLcr
           \/ WriteLcr \/ WriteIer \/ WriteChar \/ ComputeDivisor \/ ClearFifos
           \/ Poll \/ ReadChar
  BY <1>0, <1>4, MinimalCount DEF Acting
<1>5. CASE Shift \/ Transmit
  BY <1>0, <1>5, MinimalSends
<1>6. CASE Type \/ Timeout \/ AlarmRings \/ UNCHANGED vars
  <2>1. UNCHANGED <<kept, fifo, shift, garbled>>
    BY <1>6 DEF Type, Timeout, AlarmRings, idle, vars, irqs, uart, sent, kept
  <2> QED BY <1>0, <2>1, MinimalQuiet
<1> QED BY <1>1, <1>2, <1>3, <1>4, <1>5, <1>6 DEF Next, Core

(* Console!WellFormed: whatever is printed is sent in the format and at    *)
(* the rate of the other end, whichever program, handler or fault handler  *)
(* initialised the UART, and whenever an interrupt or a fault came in      *)
(* between.  listen of uart_irq garbles two characters at most, and so     *)
(* does rust_minimal when the clock divider is not two as it expects.      *)
THEOREM SentWell == SpecBoth => []WellFormed
<1>1. InitBoth => FormatInv /\ MinimalInv
  BY FormatInit, MinimalInit DEF InitBoth
<1>2. BoardInv /\ FormatInv /\ MinimalInv /\ [NextBoth]_both => FormatInv' /\ MinimalInv'
  <2>1. [NextBoth]_both => [Next]_vars
    BY RustSteps DEF both
  <2> QED BY <2>1, FormatStep, MinimalStep
<1>3. BoardInv /\ FormatInv /\ MinimalInv => WellFormed
  <2> SUFFICES ASSUME BoardInv, FormatInv, MinimalInv PROVE WellFormed
    OBVIOUS
  <2>1. CASE job = "minimal"
    <3>1. garbled + Len(shift) + Len(fifo) <= Written(Top.at) /\ garbled \in Nat
      BY <2>1 DEF MinimalInv
    <3>2. Len(shift) \in Nat /\ Len(fifo) \in Nat
      BY <2>1, Joined, QueueFacts DEF MinimalInv, OneShift
    <3>3. PICK w \in {0, 1, 2} : w = Written(Top.at)
      BY DEF Written
    <3>4. garbled <= 2
      BY <3>1, <3>2, <3>3
    <3>5. div = 2 => garbled = 0
      BY <2>1 DEF MinimalInv
    <3> QED BY <2>1, <3>4, <3>5 DEF WellFormed
  <2>2. CASE job # "minimal"
    <3>1. StageInv /\ RateInv /\ CountInv /\ garbled \in Nat
      BY <2>2 DEF FormatInv, CountInv
    <3>2. job # "uart_irq" => garbled = 0
      BY <3>1 DEF CountInv, Past
    <3>3. ASSUME job = "uart_irq" PROVE garbled <= 2
      <4>1. PICK a \in Nat : a = stack[1].at
        BY FirstAt
      <4>2. a \in 19 .. 20 \/ ~(a > 18) \/ a > 20
        BY <4>1
      <4>3. CASE a \in 19 .. 20
        <5>1. garbled + Len(shift) + Len(fifo) <= 2
          BY <3>1, <3>3, <4>1, <4>3 DEF CountInv, Hears
        <5>2. Len(shift) \in Nat /\ Len(fifo) \in Nat
          BY <3>1, Joined, QueueFacts DEF CountInv, OneShift
        <5> QED BY <3>1, <5>1, <5>2
      <4>4. CASE ~(a > 18)
        BY <3>1, <4>1, <4>4 DEF CountInv, Past
      <4>5. CASE a > 20
        <5>1. garbled + Bad <= 2
          BY <3>1, <3>3, <4>1, <4>5 DEF CountInv, Past
        <5>2. PICK b \in {0, 1} : b = Bad
          BY DEF Bad
        <5> QED BY <3>1, <5>1, <5>2
      <4> QED BY <4>2, <4>3, <4>4, <4>5
    <3> QED BY <2>2, <3>2, <3>3 DEF WellFormed
  <2> QED BY <2>1, <2>2
<1> QED BY <1>1, <1>2, <1>3, Board, PTL DEF SpecBoth
=============================================================================
