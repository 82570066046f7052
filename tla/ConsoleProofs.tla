----------------------------- MODULE ConsoleProofs -----------------------------
(***************************************************************************)
(* What holds of every program of ConsolePrograms on the board, whatever   *)
(* the clock settings, the characters typed and the faults: the transmit   *)
(* FIFO is not overrun, and the handler of uart_irq never spins in getc.   *)
(* And of the C test beside them: it prints in order.                      *)
(*                                                                         *)
(* The first part is about the programs as texts.  Some operations are     *)
(* bound to the one before them: a character is written behind a poll, the *)
(* line control register behind a read of it, the divisor behind a write   *)
(* that sets DLAB (Bound, Follows).  No jump lands on such an operation    *)
(* (Lands, Jumps).  Text says both, and is shown of every program piece by *)
(* piece, in the order in which ConsolePrograms composes them.             *)
(*                                                                         *)
(* The second part is about the contexts of the core.  A context that      *)
(* stands before a bound operation has just executed the one before it,    *)
(* also after an interrupt; so BoardInv can say what it knows: that the    *)
(* FIFO was empty, that the accumulator holds the line control register,   *)
(* that DLAB is set.                                                       *)
(*                                                                         *)
(* The third part is about uart_irq (IrqInv): a pending interrupt, and a   *)
(* handler that has not read yet, mean that the UART's interrupt line is   *)
(* high, hence that a character waits.                                     *)
(***************************************************************************)
EXTENDS MCConsole, SequenceTheorems, WellFoundedInduction, TLAPS

(* Operations that are bound to the one before them, and to which. *)

IsSeq(s) == s \in Seq({s[n] : n \in 1 .. Len(s)})

Sending(o) == o.op = "write_acc" \/ (o.op = "write" /\ o.reg = "thr")
Listens(o) == o.op = "write" /\ o.reg = "ier_dlm" /\ o.val = OnData
LcrWrite(o, hows) == o.op = "write_lcr" /\ o.how \in hows
Changes == {"dlab_on", "dlab_off", "only_dlab"}

Bound(o) ==
  \/ Sending(o) \/ Listens(o) \/ o.op = "divisor_lo"
  \/ o.op = "write_lcr" /\ o.how \notin {"bits8", "dlab"}

Follows(o, p) ==
  \/ Sending(o) /\ p.op = "poll_empty"
  \/ o.op = "divisor_lo" /\ LcrWrite(p, {"dlab_on", "dlab"})
  \/ LcrWrite(o, Changes) /\ p.op = "read_lcr"
  \/ Listens(o) /\ LcrWrite(p, {"only_dlab"})
  \/ LcrWrite(o, {"restore"}) /\ Listens(p)

(* A jump goes to an operation that is not bound, or behind the end. *)
Lands(s, t) == t \in 1 .. Len(s) + 1 /\ (t <= Len(s) => ~Bound(s[t]))

Skips == {"skip_if_init", "skip_unless_done"}

Jumps(s, n) ==
  /\ s[n].op = "back" => s[n].by \in Nat /\ Lands(s, n - s[n].by)
  /\ s[n].op \in Skips => s[n].by \in Nat /\ Lands(s, n + 1 + s[n].by)
  /\ s[n].op = "until" => Lands(s, n + 2)
  /\ s[n].op = "wfi" => Lands(s, n - 1)

Irqs == {"Uart", "MachineTimer"}

(* Only operations of K, and only the interrupts named in it. *)
Uses(s, K) ==
  \A n \in 1 .. Len(s) :
    s[n].op \in K /\ (s[n].op = "irq" => s[n].irq \in K \cap Irqs)

(* A piece of a program, and one in which every break has its loop. *)
Part(s, K) ==
  /\ IsSeq(s)
  /\ \A n \in 1 .. Len(s) :
       /\ Bound(s[n]) => n > 1 /\ Follows(s[n], s[n - 1])
       /\ Jumps(s, n)
  /\ Uses(s, K)

Text(s, K) ==
  /\ Part(s, K)
  /\ \A n \in 1 .. Len(s) :
       s[n].op = "break" => \E m \in n .. Len(s) : s[m].op = "back"

-----------------------------------------------------------------------------
(* Sequences. *)

(* What is a sequence over any set is one over its own elements. *)
LEMMA IsSeqIntro == ASSUME NEW S, NEW s \in Seq(S) PROVE IsSeq(s)
<1>1. /\ Len(s) \in Nat /\ \A n \in 1 .. Len(s) : s[n] \in {s[m] : m \in 1 .. Len(s)}
      /\ s \in [1 .. Len(s) -> S]
  OBVIOUS
<1>2. s \in [1 .. Len(s) -> {s[m] : m \in 1 .. Len(s)}]
  BY <1>1
<1> QED BY <1>1, <1>2 DEF IsSeq

(* Concatenation, element by element. *)
LEMMA Joined ==
  ASSUME NEW a, NEW b, IsSeq(a), IsSeq(b)
  PROVE  /\ IsSeq(a \o b) /\ Len(a) \in Nat /\ Len(b) \in Nat
         /\ Len(a \o b) = Len(a) + Len(b)
         /\ \A n \in 1 .. Len(a) : (a \o b)[n] = a[n]
         /\ \A n \in 1 .. Len(b) : (a \o b)[Len(a) + n] = b[n]
         /\ \A n \in Len(a) + 1 .. Len(a) + Len(b) : (a \o b)[n] = b[n - Len(a)]
<1> DEFINE A == {a[n] : n \in 1 .. Len(a)}
           B == {b[n] : n \in 1 .. Len(b)}
<1>1. a \in Seq(A) /\ b \in Seq(B)
  BY DEF IsSeq
<1> HIDE DEF A, B
<1>2. a \in Seq(A \cup B) /\ b \in Seq(A \cup B)
  BY <1>1
<1>3. /\ a \o b \in Seq(A \cup B)
      /\ Len(a \o b) = Len(a) + Len(b)
      /\ \A n \in 1 .. Len(a) + Len(b) :
           (a \o b)[n] = IF n <= Len(a) THEN a[n] ELSE b[n - Len(a)]
  BY <1>2, ConcatProperties
<1>4. IsSeq(a \o b)
  BY <1>3, IsSeqIntro
<1>5. Len(a) \in Nat /\ Len(b) \in Nat
  BY <1>1
<1>6. \A n \in 1 .. Len(a) : (a \o b)[n] = a[n]
  BY <1>3, <1>5
<1>7. \A n \in Len(a) + 1 .. Len(a) + Len(b) : (a \o b)[n] = b[n - Len(a)]
  BY <1>3, <1>5
<1>8. \A n \in 1 .. Len(b) : (a \o b)[Len(a) + n] = b[n]
  <2> TAKE n \in 1 .. Len(b)
  <2>1. Len(a) + n \in Len(a) + 1 .. Len(a) + Len(b) /\ (Len(a) + n) - Len(a) = n
    BY <1>5
  <2> QED BY <2>1, <1>7
<1> QED BY <1>3, <1>4, <1>5, <1>6, <1>7, <1>8

LEMMA Associative ==
  ASSUME NEW a, NEW b, NEW c, IsSeq(a), IsSeq(b), IsSeq(c)
  PROVE  (a \o b) \o c = a \o (b \o c)
<1> DEFINE A == {a[n] : n \in 1 .. Len(a)}
           B == {b[n] : n \in 1 .. Len(b)}
           C0 == {c[n] : n \in 1 .. Len(c)}
<1>1. a \in Seq(A) /\ b \in Seq(B) /\ c \in Seq(C0)
  BY DEF IsSeq
<1> HIDE DEF A, B, C0
<1>2. PICK S : S = A \cup B \cup C0
  OBVIOUS
<1>3. a \in Seq(S) /\ b \in Seq(S) /\ c \in Seq(S)
  BY <1>1, <1>2
<1> QED BY <1>3, ConcatAssociative

(* Pieces of text one after the other. *)
LEMMA PartJoin ==
  ASSUME NEW a, NEW b, NEW K, Part(a, K), Part(b, K)
  PROVE  Part(a \o b, K)
<1>1. IsSeq(a) /\ IsSeq(b)
  BY DEF Part
<1>2. PICK c : c = a \o b
  OBVIOUS
<1>3. PICK la : la = Len(a)
  OBVIOUS
<1>4. PICK lb : lb = Len(b)
  OBVIOUS
<1>5. /\ IsSeq(c) /\ la \in Nat /\ lb \in Nat /\ Len(c) = la + lb
      /\ \A n \in 1 .. la : c[n] = a[n]
      /\ \A n \in 1 .. lb : c[la + n] = b[n]
      /\ \A n \in la + 1 .. la + lb : c[n] = b[n - la]
  BY <1>1, <1>2, <1>3, <1>4, Joined
<1>a. /\ \A n \in 1 .. la :
           /\ Bound(a[n]) => n > 1 /\ Follows(a[n], a[n - 1])
           /\ Jumps(a, n)
           /\ a[n].op \in K /\ (a[n].op = "irq" => a[n].irq \in K \cap Irqs)
  BY <1>3 DEF Part, Uses
<1>b. /\ \A n \in 1 .. lb :
           /\ Bound(b[n]) => n > 1 /\ Follows(b[n], b[n - 1])
           /\ Jumps(b, n)
           /\ b[n].op \in K /\ (b[n].op = "irq" => b[n].irq \in K \cap Irqs)
  BY <1>4 DEF Part, Uses
<1>6. \A t : Lands(a, t) => Lands(c, t)
  <2> SUFFICES ASSUME NEW t, Lands(a, t) PROVE Lands(c, t)
    OBVIOUS
  <2>1. t \in 1 .. la + 1 /\ (t <= la => ~Bound(a[t]))
    BY <1>3 DEF Lands
  <2>2. t \in 1 .. (la + lb) + 1
    BY <2>1, <1>5
  <2>3. CASE t <= la
    BY <2>1, <2>2, <2>3, <1>5 DEF Lands
  <2>4. CASE t = la + 1
    <3>1. ASSUME t <= la + lb PROVE ~Bound(c[t])
      <4>1. 1 \in 1 .. lb /\ c[t] = b[1]
        BY <3>1, <2>4, <1>5
      <4>2. ~Bound(b[1])
        BY <4>1, <1>b
      <4> QED BY <4>1, <4>2
    <3> QED BY <3>1, <2>2, <1>5 DEF Lands
  <2> QED BY <2>1, <2>3, <2>4, <1>5
<1>7. \A t : Lands(b, t) => Lands(c, la + t)
  <2> SUFFICES ASSUME NEW t, Lands(b, t) PROVE Lands(c, la + t)
    OBVIOUS
  <2>1. t \in 1 .. lb + 1 /\ (t <= lb => ~Bound(b[t]))
    BY <1>4 DEF Lands
  <2>2. la + t \in 1 .. (la + lb) + 1
    BY <2>1, <1>5
  <2>3. la + t <= la + lb => t \in 1 .. lb
    BY <2>1, <1>5
  <2> QED BY <2>1, <2>2, <2>3, <1>5 DEF Lands
<1>8. ASSUME NEW n \in 1 .. la
      PROVE  /\ Bound(c[n]) => n > 1 /\ Follows(c[n], c[n - 1])
             /\ Jumps(c, n)
             /\ c[n].op \in K /\ (c[n].op = "irq" => c[n].irq \in K \cap Irqs)
  <2>1. c[n] = a[n]
    BY <1>5
  <2>2. ASSUME Bound(c[n]) PROVE n > 1 /\ Follows(c[n], c[n - 1])
    <3>1. n > 1 /\ Follows(a[n], a[n - 1])
      BY <2>1, <2>2, <1>a
    <3>2. n - 1 \in 1 .. la
      BY <3>1, <1>5
    <3> QED BY <3>1, <3>2, <1>5
  <2>3. Jumps(c, n)
    BY <2>1, <1>6, <1>a DEF Jumps
  <2> QED BY <2>1, <2>2, <2>3, <1>a
<1>9. ASSUME NEW n \in la + 1 .. la + lb
      PROVE  /\ Bound(c[n]) => n > 1 /\ Follows(c[n], c[n - 1])
             /\ Jumps(c, n)
             /\ c[n].op \in K /\ (c[n].op = "irq" => c[n].irq \in K \cap Irqs)
  <2>1. PICK k \in 1 .. lb : n = la + k
    <3>1. n - la \in 1 .. lb /\ n = la + (n - la)
      BY <1>5
    <3> QED BY <3>1
  <2>2. c[n] = b[k]
    BY <2>1, <1>5
  <2>3. ASSUME Bound(c[n]) PROVE n > 1 /\ Follows(c[n], c[n - 1])
    <3>1. k > 1 /\ Follows(b[k], b[k - 1])
      BY <2>2, <2>3, <1>b
    <3>2. k - 1 \in 1 .. lb /\ n - 1 = la + (k - 1) /\ n > 1
      BY <3>1, <2>1, <1>5
    <3>3. c[n - 1] = b[k - 1]
      BY <3>2, <1>5
    <3> QED BY <3>1, <3>2, <3>3, <2>2
  <2>4. Jumps(c, n)
    <3>1. ASSUME NEW m \in Nat
          PROVE  n - m = la + (k - m) /\ n + 1 + m = la + (k + 1 + m)
      BY <2>1, <1>5
    <3>2. n + 2 = la + (k + 2) /\ n - 1 = la + (k - 1)
      BY <2>1, <1>5
    <3>3. Jumps(b, k)
      BY <1>b
    <3>4. c[n].op = "back" => c[n].by \in Nat /\ Lands(c, n - c[n].by)
      BY <3>1, <3>3, <2>2, <1>7 DEF Jumps
    <3>5. c[n].op \in Skips => c[n].by \in Nat /\ Lands(c, n + 1 + c[n].by)
      BY <3>1, <3>3, <2>2, <1>7 DEF Jumps
    <3>6. c[n].op = "until" => Lands(c, n + 2)
      BY <3>2, <3>3, <2>2, <1>7 DEF Jumps
    <3>7. c[n].op = "wfi" => Lands(c, n - 1)
      BY <3>2, <3>3, <2>2, <1>7 DEF Jumps
    <3> QED BY <3>4, <3>5, <3>6, <3>7 DEF Jumps
  <2> QED BY <2>2, <2>3, <2>4, <1>b
<1>10. \A n \in 1 .. Len(c) : n \in 1 .. la \/ n \in la + 1 .. la + lb
  BY <1>5
<1>11. Part(c, K)
  BY <1>5, <1>8, <1>9, <1>10 DEF Part, Uses
<1> QED BY <1>2, <1>11

(* Texts one after the other. *)
LEMMA TextJoin ==
  ASSUME NEW a, NEW b, NEW K, Text(a, K), Text(b, K)
  PROVE  Text(a \o b, K)
<1>1. Part(a, K) /\ Part(b, K) /\ Part(a \o b, K)
  BY PartJoin DEF Text
<1>2. PICK c : c = a \o b
  OBVIOUS
<1>3. PICK la : la = Len(a)
  OBVIOUS
<1>4. PICK lb : lb = Len(b)
  OBVIOUS
<1>5. /\ la \in Nat /\ lb \in Nat /\ Len(c) = la + lb
      /\ \A n \in 1 .. la : c[n] = a[n]
      /\ \A n \in 1 .. lb : c[la + n] = b[n]
      /\ \A n \in la + 1 .. la + lb : c[n] = b[n - la]
  BY <1>1, <1>2, <1>3, <1>4, Joined DEF Part
<1>6. ASSUME NEW n \in 1 .. la + lb, c[n].op = "break"
      PROVE  \E m \in n .. la + lb : c[m].op = "back"
  <2>1. CASE n <= la
    <3>1. PICK m \in n .. la : a[m].op = "back"
      BY <2>1, <1>3, <1>5, <1>6 DEF Text
    <3>2. m \in n .. la + lb /\ c[m] = a[m]
      BY <3>1, <1>5
    <3> QED BY <3>1, <3>2
  <2>2. CASE n > la
    <3>1. PICK k \in 1 .. lb : n = la + k
      <4>1. n - la \in 1 .. lb /\ n = la + (n - la)
        BY <2>2, <1>5
      <4> QED BY <4>1
    <3>2. b[k].op = "break"
      BY <3>1, <1>5, <1>6
    <3>3. PICK m \in k .. lb : b[m].op = "back"
      BY <3>2, <1>4 DEF Text
    <3>4. la + m \in n .. la + lb /\ m \in 1 .. lb
      BY <3>1, <3>3, <1>5
    <3>5. c[la + m].op = "back"
      BY <3>3, <3>4, <1>5
    <3> QED BY <3>4, <3>5
  <2> QED BY <2>1, <2>2, <1>5
<1> QED BY <1>1, <1>2, <1>5, <1>6 DEF Text

-----------------------------------------------------------------------------
(* Straight pieces. *)

Jumpers == Skips \cup {"back", "until", "wfi", "break"}

Block(s, K) ==
  /\ IsSeq(s) /\ Len(s) > 0
  /\ \A n \in 1 .. Len(s) :
       /\ s[n].op \in K \ (Jumpers \cup {"irq"})
       /\ Bound(s[n]) => n > 1 /\ Follows(s[n], s[n - 1])

EndOf(s) == s[Len(s)]

LEMMA OneOp ==
  ASSUME NEW o
  PROVE  IsSeq(<<o>>) /\ Len(<<o>>) = 1 /\ <<o>>[1] = o
<1>1. <<o>> \in Seq({o})
  OBVIOUS
<1> QED BY <1>1, IsSeqIntro

(* A straight piece is built operation by operation: the first ... *)
LEMMA BlockOne ==
  ASSUME NEW K, NEW o, o.op \in K \ (Jumpers \cup {"irq"}), ~Bound(o)
  PROVE  Block(<<o>>, K) /\ EndOf(<<o>>) = o
<1>1. PICK s : s = <<o>>
  OBVIOUS
<1>2. IsSeq(s) /\ Len(s) = 1 /\ s[1] = o
  BY <1>1, OneOp
<1>3. \A n \in 1 .. Len(s) : n = 1
  BY <1>2
<1>4. Block(s, K) /\ EndOf(s) = o
  BY <1>2, <1>3 DEF Block, EndOf
<1> QED BY <1>1, <1>4

(* ... and one more, which may be bound to the one before it. *)
LEMMA BlockMore ==
  ASSUME NEW K, NEW a, Block(a, K),
         NEW o, o.op \in K \ (Jumpers \cup {"irq"}),
         Bound(o) => Follows(o, EndOf(a))
  PROVE  Block(a \o <<o>>, K) /\ EndOf(a \o <<o>>) = o
<1>1. PICK s : s = a \o <<o>>
  OBVIOUS
<1>2. PICK l : l = Len(a)
  OBVIOUS
<1>3. /\ IsSeq(s) /\ l \in Nat /\ Len(s) = l + 1
      /\ \A n \in 1 .. l : s[n] = a[n]
      /\ \A n \in l + 1 .. l + 1 : s[n] = <<o>>[n - l]
  BY <1>1, <1>2, OneOp, Joined DEF Block
<1>4. s[l + 1] = o
  <2>1. (l + 1) - l = 1 /\ l + 1 \in l + 1 .. l + 1
    BY <1>3
  <2> QED BY <2>1, <1>3, OneOp
<1>5. l > 0
  BY <1>2 DEF Block
<1>6. ASSUME NEW n \in 1 .. l + 1
      PROVE  /\ s[n].op \in K \ (Jumpers \cup {"irq"})
             /\ Bound(s[n]) => n > 1 /\ Follows(s[n], s[n - 1])
  <2>1. CASE n = l + 1
    <3>1. n - 1 = l /\ n > 1 /\ l \in 1 .. l
      BY <2>1, <1>3, <1>5
    <3> QED BY <2>1, <3>1, <1>2, <1>3, <1>4 DEF EndOf
  <2>2. CASE n \in 1 .. l
    <3>1. s[n] = a[n] /\ a[n].op \in K \ (Jumpers \cup {"irq"})
      BY <2>2, <1>2, <1>3 DEF Block
    <3>2. ASSUME Bound(a[n]) PROVE n > 1 /\ Follows(s[n], s[n - 1])
      <4>1. n > 1 /\ Follows(a[n], a[n - 1])
        BY <2>2, <3>2, <1>2 DEF Block
      <4>2. n - 1 \in 1 .. l
        BY <2>2, <4>1, <1>3
      <4> QED BY <3>1, <4>1, <4>2, <1>3
    <3> QED BY <3>1, <3>2
  <2> QED BY <2>1, <2>2, <1>3
<1>7. Block(s, K) /\ EndOf(s) = o
  BY <1>3, <1>4, <1>5, <1>6 DEF Block, EndOf
<1> QED BY <1>1, <1>7

(* A straight piece is a text. *)
LEMMA BlockText ==
  ASSUME NEW K, NEW s, Block(s, K)
  PROVE  Text(s, K)
<1>1. \A n \in 1 .. Len(s) : s[n].op \in K \ (Jumpers \cup {"irq"})
  BY DEF Block
<1>2. \A n \in 1 .. Len(s) : Jumps(s, n)
  BY <1>1 DEF Jumps, Jumpers, Skips
<1>3. Uses(s, K)
  BY <1>1 DEF Uses
<1>4. Part(s, K)
  BY <1>2, <1>3 DEF Part, Block
<1>5. \A n \in 1 .. Len(s) : s[n].op # "break"
  BY <1>1 DEF Jumpers
<1> QED BY <1>4, <1>5 DEF Text

(* Straight pieces one after the other. *)
LEMMA BlockJoin ==
  ASSUME NEW K, NEW a, NEW b, Block(a, K), Block(b, K)
  PROVE  Block(a \o b, K) /\ EndOf(a \o b) = EndOf(b)
<1>1. PICK s : s = a \o b
  OBVIOUS
<1>2. PICK la : la = Len(a)
  OBVIOUS
<1>3. PICK lb : lb = Len(b)
  OBVIOUS
<1>4. /\ IsSeq(s) /\ la \in Nat /\ lb \in Nat /\ Len(s) = la + lb
      /\ \A n \in 1 .. la : s[n] = a[n]
      /\ \A n \in 1 .. lb : s[la + n] = b[n]
      /\ \A n \in la + 1 .. la + lb : s[n] = b[n - la]
  BY <1>1, <1>2, <1>3, Joined DEF Block
<1>5. lb > 0
  BY <1>3 DEF Block
<1>6. EndOf(s) = EndOf(b)
  BY <1>3, <1>4, <1>5 DEF EndOf
<1>7. Part(s, K)
  BY <1>1, BlockText, PartJoin DEF Text
<1>8. ASSUME NEW n \in 1 .. la + lb
      PROVE  s[n].op \notin Jumpers \cup {"irq"}
  <2>1. CASE n \in 1 .. la
    BY <2>1, <1>2, <1>4 DEF Block
  <2>2. CASE n \in la + 1 .. la + lb
    <3>1. n - la \in 1 .. lb
      BY <2>2, <1>4
    <3> QED BY <2>2, <3>1, <1>3, <1>4 DEF Block
  <2> QED BY <2>1, <2>2, <1>4
<1>9. Block(s, K)
  BY <1>4, <1>5, <1>7, <1>8 DEF Block, Part, Uses
<1> QED BY <1>1, <1>3, <1>6, <1>9

-----------------------------------------------------------------------------
(* Jumps. *)

(* A piece that uses few kinds of operations uses more. *)
LEMMA BlockLift ==
  ASSUME NEW K, NEW L, K \subseteq L, NEW s
  PROVE  (Block(s, K) => Block(s, L)) /\ (Text(s, K) => Text(s, L))
BY DEF Block, Text, Part, Uses

(* A skip over a text lands behind it. *)
LEMMA SkipText ==
  ASSUME NEW K, NEW o, NEW b, Text(b, K), o.op \in K \cap Skips, o.by = Len(b)
  PROVE  Text(<<o>> \o b, K)
<1>1. PICK s : s = <<o>> \o b
  OBVIOUS
<1>2. PICK lb : lb = Len(b)
  OBVIOUS
<1>3. /\ IsSeq(s) /\ lb \in Nat /\ Len(s) = 1 + lb
      /\ s[1] = o
      /\ \A n \in 1 .. lb : s[1 + n] = b[n]
  <2>1. IsSeq(b)
    BY DEF Text, Part
  <2>2. /\ IsSeq(s) /\ lb \in Nat /\ Len(s) = 1 + lb
        /\ \A n \in 1 .. 1 : s[n] = <<o>>[n]
        /\ \A n \in 1 .. lb : s[1 + n] = b[n]
    BY <1>1, <1>2, <2>1, OneOp, Joined
  <2>3. 1 \in 1 .. 1
    OBVIOUS
  <2> QED BY <2>2, <2>3, OneOp
<1>4. ~Bound(o) /\ o.op \notin {"back", "until", "wfi", "break", "irq"}
  BY DEF Bound, Sending, Listens, Skips
<1>5. \A n \in 1 .. 1 + lb : n = 1 \/ (n - 1 \in 1 .. lb /\ n = 1 + (n - 1))
  BY <1>3
<1>b. \A n \in 1 .. lb :
        /\ Bound(b[n]) => n > 1 /\ Follows(b[n], b[n - 1])
        /\ Jumps(b, n)
        /\ b[n].op \in K /\ (b[n].op = "irq" => b[n].irq \in K \cap Irqs)
        /\ b[n].op = "break" => \E m \in n .. lb : b[m].op = "back"
  BY <1>2 DEF Text, Part, Uses
<1>6. \A t : Lands(b, t) => Lands(s, 1 + t)
  <2> SUFFICES ASSUME NEW t, Lands(b, t) PROVE Lands(s, 1 + t)
    OBVIOUS
  <2>1. t \in 1 .. lb + 1 /\ (t <= lb => ~Bound(b[t]))
    BY <1>2 DEF Lands
  <2>2. 1 + t \in 1 .. (1 + lb) + 1
    BY <2>1, <1>3
  <2>3. 1 + t <= 1 + lb => t \in 1 .. lb
    BY <2>1, <1>3
  <2> QED BY <2>1, <2>2, <2>3, <1>3 DEF Lands
<1>7. Jumps(s, 1)
  <2>1. 1 + 1 + lb \in 1 .. (1 + lb) + 1 /\ ~(1 + 1 + lb <= 1 + lb)
    BY <1>3
  <2>2. Lands(s, 1 + 1 + lb)
    BY <2>1, <1>3 DEF Lands
  <2> QED BY <2>2, <1>2, <1>3, <1>4 DEF Jumps
<1>8. ASSUME NEW k \in 1 .. lb
      PROVE  /\ Bound(s[1 + k]) => 1 + k > 1 /\ Follows(s[1 + k], s[(1 + k) - 1])
             /\ Jumps(s, 1 + k)
             /\ s[1 + k].op = "break" => \E m \in 1 + k .. 1 + lb : s[m].op = "back"
  <2>1. s[1 + k] = b[k]
    BY <1>3
  <2>2. ASSUME Bound(b[k]) PROVE 1 + k > 1 /\ Follows(s[1 + k], s[(1 + k) - 1])
    <3>1. k > 1 /\ Follows(b[k], b[k - 1])
      BY <2>2, <1>b
    <3>2. k - 1 \in 1 .. lb /\ (1 + k) - 1 = 1 + (k - 1) /\ 1 + k > 1
      BY <3>1, <1>3
    <3>3. s[1 + (k - 1)] = b[k - 1]
      BY <3>2, <1>3
    <3> QED BY <3>1, <3>2, <3>3, <2>1
  <2>3. Jumps(s, 1 + k)
    <3>1. ASSUME NEW m \in Nat
          PROVE  (1 + k) - m = 1 + (k - m) /\ (1 + k) + 1 + m = 1 + (k + 1 + m)
      BY <1>3
    <3>2. (1 + k) + 2 = 1 + (k + 2) /\ (1 + k) - 1 = 1 + (k - 1)
      BY <1>3
    <3>3. Jumps(b, k)
      BY <1>b
    <3>4. s[1 + k].op = "back" => s[1 + k].by \in Nat /\ Lands(s, (1 + k) - s[1 + k].by)
      BY <3>1, <3>3, <2>1, <1>6 DEF Jumps
    <3>5. s[1 + k].op \in Skips
            => s[1 + k].by \in Nat /\ Lands(s, (1 + k) + 1 + s[1 + k].by)
      BY <3>1, <3>3, <2>1, <1>6 DEF Jumps
    <3>6. s[1 + k].op = "until" => Lands(s, (1 + k) + 2)
      BY <3>2, <3>3, <2>1, <1>6 DEF Jumps
    <3>7. s[1 + k].op = "wfi" => Lands(s, (1 + k) - 1)
      BY <3>2, <3>3, <2>1, <1>6 DEF Jumps
    <3> QED BY <3>4, <3>5, <3>6, <3>7 DEF Jumps
  <2>4. ASSUME b[k].op = "break" PROVE \E m \in 1 + k .. 1 + lb : s[m].op = "back"
    <3>1. PICK m \in k .. lb : b[m].op = "back"
      BY <2>4, <1>b
    <3>2. 1 + m \in 1 + k .. 1 + lb /\ m \in 1 .. lb
      BY <3>1, <1>3
    <3> QED BY <3>1, <3>2, <1>3
  <2> QED BY <2>1, <2>2, <2>3, <2>4
<1>9. Uses(s, K)
  <2>1. ASSUME NEW n \in 1 .. 1 + lb
        PROVE  s[n].op \in K /\ (s[n].op = "irq" => s[n].irq \in K \cap Irqs)
    <3>1. CASE n = 1
      BY <3>1, <1>3, <1>4
    <3>2. CASE n # 1
      <4>1. PICK k \in 1 .. lb : n = 1 + k
        BY <3>2, <1>5
      <4>2. s[n] = b[k]
        BY <4>1, <1>3
      <4> QED BY <4>2, <1>b
    <3> QED BY <3>1, <3>2
  <2> QED BY <2>1, <1>3 DEF Uses
<1>10. \A n \in 1 .. 1 + lb :
         /\ Bound(s[n]) => n > 1 /\ Follows(s[n], s[n - 1])
         /\ Jumps(s, n)
         /\ s[n].op = "break" => \E m \in n .. 1 + lb : s[m].op = "back"
  BY <1>3, <1>4, <1>5, <1>7, <1>8
<1>11. Text(s, K)
  BY <1>3, <1>9, <1>10 DEF Text, Part
<1> QED BY <1>1, <1>11

(* A loop goes back to the beginning of its body. *)
LEMMA ForeverText ==
  ASSUME NEW K, NEW b, Part(b, K), "back" \in K
  PROVE  Text(Forever(b), K)
<1>1. PICK s : s = Forever(b)
  OBVIOUS
<1>2. PICK l : l = Len(b)
  OBVIOUS
<1>3. PICK o : o = [op |-> "back", by |-> l]
  OBVIOUS
<1>4. s = b \o <<o>> /\ o.op = "back" /\ o.by = l
  BY <1>1, <1>2, <1>3 DEF Forever, GoBack
<1>5. /\ IsSeq(s) /\ l \in Nat /\ Len(s) = l + 1
      /\ \A n \in 1 .. l : s[n] = b[n]
      /\ s[l + 1] = o
  <2>1. IsSeq(b)
    BY DEF Part
  <2>2. /\ IsSeq(s) /\ l \in Nat /\ Len(s) = l + 1
        /\ \A n \in 1 .. l : s[n] = b[n]
        /\ \A n \in 1 .. 1 : s[l + n] = <<o>>[n]
    BY <1>2, <1>4, <2>1, OneOp, Joined
  <2>3. 1 \in 1 .. 1
    OBVIOUS
  <2> QED BY <2>2, <2>3, OneOp
<1>6. ~Bound(o)
  BY <1>4 DEF Bound, Sending, Listens
<1>b. \A n \in 1 .. l :
        /\ Bound(b[n]) => n > 1 /\ Follows(b[n], b[n - 1])
        /\ Jumps(b, n)
        /\ b[n].op \in K /\ (b[n].op = "irq" => b[n].irq \in K \cap Irqs)
  BY <1>2 DEF Part, Uses
<1>7. \A t : Lands(b, t) => Lands(s, t)
  <2> SUFFICES ASSUME NEW t, Lands(b, t) PROVE Lands(s, t)
    OBVIOUS
  <2>1. t \in 1 .. l + 1 /\ (t <= l => ~Bound(b[t]))
    BY <1>2 DEF Lands
  <2>2. t \in 1 .. (l + 1) + 1
    BY <2>1, <1>5
  <2>3. t <= l + 1 => ~Bound(s[t])
    <3>1. CASE t <= l
      BY <2>1, <3>1, <1>5
    <3>2. CASE t = l + 1
      BY <3>2, <1>5, <1>6
    <3> QED BY <2>1, <3>1, <3>2, <1>5
  <2> QED BY <2>2, <2>3, <1>5 DEF Lands
<1>8. Jumps(s, l + 1)
  <2>1. ~Bound(s[1])
    <3>1. CASE l = 0
      BY <3>1, <1>5, <1>6
    <3>2. CASE l > 0
      <4>1. 1 \in 1 .. l
        BY <3>2, <1>5
      <4> QED BY <4>1, <1>5, <1>b
    <3> QED BY <3>1, <3>2, <1>5
  <2>2. (l + 1) - l = 1 /\ 1 \in 1 .. (l + 1) + 1
    BY <1>5
  <2>3. Lands(s, (l + 1) - l)
    BY <2>1, <2>2, <1>5 DEF Lands
  <2> QED BY <2>3, <1>4, <1>5 DEF Jumps, Skips
<1>9. ASSUME NEW n \in 1 .. l
      PROVE  /\ Bound(s[n]) => n > 1 /\ Follows(s[n], s[n - 1])
             /\ Jumps(s, n)
  <2>1. s[n] = b[n]
    BY <1>5
  <2>2. ASSUME Bound(b[n]) PROVE n > 1 /\ Follows(s[n], s[n - 1])
    <3>1. n > 1 /\ Follows(b[n], b[n - 1])
      BY <2>2, <1>b
    <3>2. n - 1 \in 1 .. l
      BY <3>1, <1>5
    <3> QED BY <2>1, <3>1, <3>2, <1>5
  <2>3. Jumps(s, n)
    BY <2>1, <1>7, <1>b DEF Jumps
  <2> QED BY <2>1, <2>2, <2>3
<1>10. \A n \in 1 .. l + 1 : n \in 1 .. l \/ n = l + 1
  BY <1>5
<1>11. Part(s, K)
  <2>1. Uses(s, K)
    BY <1>4, <1>5, <1>10, <1>b DEF Uses
  <2>2. \A n \in 1 .. l + 1 : /\ Bound(s[n]) => n > 1 /\ Follows(s[n], s[n - 1])
                              /\ Jumps(s, n)
    BY <1>5, <1>6, <1>8, <1>9, <1>10
  <2> QED BY <2>1, <2>2, <1>5 DEF Part
<1>12. \A n \in 1 .. l + 1 : \E m \in n .. l + 1 : s[m].op = "back"
  <2> TAKE n \in 1 .. l + 1
  <2>1. l + 1 \in n .. l + 1
    BY <1>5
  <2> QED BY <2>1, <1>4, <1>5
<1>13. Text(s, K)
  BY <1>5, <1>11, <1>12 DEF Text
<1> QED BY <1>1, <1>13

(* while v # x { wfi } *)
LEMMA SleepText ==
  ASSUME NEW K, NEW v, NEW x, {"until", "wfi"} \subseteq K
  PROVE  Text(SleepUntil(v, x), K)
<1>1. PICK s : s = SleepUntil(v, x)
  OBVIOUS
<1>2. PICK o : o = [op |-> "until", var |-> v, is |-> x]
  OBVIOUS
<1>3. PICK p : p = [op |-> "wfi"]
  OBVIOUS
<1>4. s = <<o>> \o <<p>> /\ o.op = "until" /\ p.op = "wfi"
  BY <1>1, <1>2, <1>3 DEF SleepUntil, Do
<1>5. IsSeq(s) /\ Len(s) = 2 /\ s[1] = o /\ s[2] = p
  <2>1. /\ IsSeq(s) /\ Len(s) = 1 + 1
        /\ \A n \in 1 .. 1 : s[n] = <<o>>[n]
        /\ \A n \in 1 .. 1 : s[1 + n] = <<p>>[n]
    BY <1>4, OneOp, Joined
  <2> QED BY <2>1, OneOp
<1>6. ~Bound(o) /\ ~Bound(p)
  BY <1>4 DEF Bound, Sending, Listens
<1>7. Lands(s, 3) /\ Lands(s, 1)
  BY <1>5, <1>6 DEF Lands
<1>8. Jumps(s, 1) /\ Jumps(s, 2)
  BY <1>4, <1>5, <1>7 DEF Jumps, Skips
<1>9. \A n \in 1 .. Len(s) : n = 1 \/ n = 2
  BY <1>5
<1>10. Uses(s, K)
  BY <1>4, <1>5, <1>9 DEF Uses
<1>11. Text(s, K)
  BY <1>4, <1>5, <1>6, <1>8, <1>9, <1>10 DEF Text, Part
<1> QED BY <1>1, <1>11

(* A break is part of the loop around it. *)
LEMMA BreakPart ==
  ASSUME NEW K, NEW v, NEW x, "break" \in K
  PROVE  Part(Break(v, x), K)
<1>1. PICK o : o = [op |-> "break", var |-> v, is |-> x]
  OBVIOUS
<1>2. o.op = "break" /\ Break(v, x) = <<o>>
  BY <1>1 DEF Break
<1>3. PICK s : s = <<o>>
  OBVIOUS
<1>4. IsSeq(s) /\ Len(s) = 1 /\ s[1] = o
  BY <1>3, OneOp
<1>5. ~Bound(o)
  BY <1>2 DEF Bound, Sending, Listens
<1>6. Jumps(s, 1)
  BY <1>2, <1>4 DEF Jumps, Skips
<1>7. \A n \in 1 .. Len(s) : n = 1
  BY <1>4
<1>8. Part(s, K)
  BY <1>2, <1>4, <1>5, <1>6, <1>7 DEF Part, Uses
<1> QED BY <1>2, <1>3, <1>8

(* Enabling or disabling an interrupt that the program uses. *)
LEMMA IrqText ==
  ASSUME NEW K, NEW i \in Irqs, NEW x, {"irq", i} \subseteq K
  PROVE  Text(SetIrq(i, x), K)
<1>1. PICK o : o = [op |-> "irq", irq |-> i, to |-> x]
  OBVIOUS
<1>2. o.op = "irq" /\ o.irq = i /\ SetIrq(i, x) = <<o>>
  BY <1>1 DEF SetIrq
<1>3. PICK s : s = <<o>>
  OBVIOUS
<1>4. IsSeq(s) /\ Len(s) = 1 /\ s[1] = o
  BY <1>3, OneOp
<1>5. ~Bound(o)
  BY <1>2 DEF Bound, Sending, Listens
<1>6. Jumps(s, 1)
  BY <1>2, <1>4 DEF Jumps, Skips
<1>7. \A n \in 1 .. Len(s) : n = 1
  BY <1>4
<1>8. Text(s, K)
  BY <1>2, <1>4, <1>5, <1>6, <1>7 DEF Text, Part, Uses
<1> QED BY <1>2, <1>3, <1>8

-----------------------------------------------------------------------------
(* ForEach of four pieces. *)

(* ForEach over four elements. *)
LEMMA FlattenFour ==
  ASSUME NEW q, q = [k \in 1 .. 4 |-> q[k]]
  PROVE  FlattenSeq(q) = ((q[1] \o q[2]) \o q[3]) \o q[4]
<1> DEFINE def(g, i) == IF i = 1 THEN q[i] ELSE g[i - 1] \o q[i]
           f == CHOOSE g : g = [i \in 1 .. 4 |-> def(g, i)]
           w == [i \in 1 .. 4 |->
                   IF i = 1 THEN q[1]
                   ELSE IF i = 2 THEN q[1] \o q[2]
                   ELSE IF i = 3 THEN (q[1] \o q[2]) \o q[3]
                   ELSE ((q[1] \o q[2]) \o q[3]) \o q[4]]
<1>1. Len(q) = 4
  OBVIOUS
<1>2. w = [i \in 1 .. 4 |-> def(w, i)]
  <2>1. \A i \in 1 .. 4 : i = 1 \/ i = 2 \/ i = 3 \/ i = 4
    OBVIOUS
  <2> QED BY <2>1
<1>3. f = [i \in 1 .. 4 |-> def(f, i)]
  BY <1>2, Zenon
<1>5. FlattenSeq(q) = f[4]
  BY <1>1 DEF FlattenSeq
<1> HIDE DEF f
<1>4. f[1] = q[1] /\ f[2] = f[1] \o q[2] /\ f[3] = f[2] \o q[3] /\ f[4] = f[3] \o q[4]
  <2>1. \A i \in 1 .. 4 : f[i] = def(f, i)
    BY <1>3
  <2>2. 1 \in 1 .. 4 /\ 2 \in 1 .. 4 /\ 3 \in 1 .. 4 /\ 4 \in 1 .. 4
    OBVIOUS
  <2>3. 2 - 1 = 1 /\ 3 - 1 = 2 /\ 4 - 1 = 3 /\ 2 # 1 /\ 3 # 1 /\ 4 # 1
    OBVIOUS
  <2>4. f[1] = q[1]
    BY <2>1, <2>2
  <2>5. f[2] = f[2 - 1] \o q[2]
    BY <2>1, <2>2, <2>3
  <2>6. f[3] = f[3 - 1] \o q[3]
    BY <2>1, <2>2, <2>3
  <2>7. f[4] = f[4 - 1] \o q[4]
    BY <2>1, <2>2, <2>3
  <2> QED BY <2>3, <2>4, <2>5, <2>6, <2>7
<1> QED BY <1>4, <1>5

LEMMA FlattenText ==
  ASSUME NEW K, NEW q, q = [k \in 1 .. 4 |-> q[k]],
         \A k \in 1 .. 4 : Text(q[k], K)
  PROVE  Text(FlattenSeq(q), K)
<1>1. Text(q[1], K) /\ Text(q[2], K) /\ Text(q[3], K) /\ Text(q[4], K)
  OBVIOUS
<1>2. Text(((q[1] \o q[2]) \o q[3]) \o q[4], K)
  BY <1>1, TextJoin
<1> QED BY <1>2, FlattenFour

-----------------------------------------------------------------------------
(* The pieces of the programs. *)

Handling ==
  {"poll_empty", "write", "write_acc", "poll_data", "read", "quit_if_q",
   "unpend", "read_gpio", "write_gpio", "set"}
Service ==
  Handling \cup
  {"divisor", "divisor_lo", "divisor_hi", "read_lcr", "write_lcr", "clear_fifos",
   "back", "skip_if_init", "skip_unless_done", "until", "wfi", "break", "push",
   "clear_buffer", "alarm", "divide"}

(* The pieces that ConsolePrograms is made of. *)
LEMMA DoBlock ==
  ASSUME NEW o \in Handling \cup Service \cup {"app"},
         o \notin Jumpers \cup {"divisor_lo", "write", "write_acc", "write_lcr"}
  PROVE  Block(Do(o), {o}) /\ EndOf(Do(o)).op = o
<1>1. PICK p : p = [op |-> o]
  OBVIOUS
<1>2. p.op = o /\ ~Bound(p) /\ p.op \notin Jumpers \cup {"irq"}
  BY <1>1 DEF Bound, Sending, Listens, Handling, Service
<1>3. Block(<<p>>, {o}) /\ EndOf(<<p>>) = p
  BY <1>2, BlockOne
<1> QED BY <1>1, <1>2, <1>3 DEF Do

LEMMA PutBlock == ASSUME NEW c PROVE Block(Put(c), Handling)
<1>1. PICK a : a = Do("poll_empty")
  OBVIOUS
<1>2. PICK o : o = [op |-> "write", reg |-> "thr", val |-> c]
  OBVIOUS
<1>3. Put(c) = a \o <<o>>
  BY <1>1, <1>2 DEF Put, Write
<1>4. Block(a, {"poll_empty"}) /\ EndOf(a).op = "poll_empty"
  BY <1>1, DoBlock DEF Handling, Service, Jumpers, Skips
<1>5. Block(a, Handling)
  BY <1>4, BlockLift DEF Handling
<1>6. Follows(o, EndOf(a)) /\ o.op \in Handling \ (Jumpers \cup {"irq"})
  BY <1>2, <1>4 DEF Follows, Sending, Handling, Jumpers, Skips
<1> QED BY <1>3, <1>5, <1>6, BlockMore

LEMMA CharBlocks == Block(Line, Handling) /\ Block(GetChar, Handling) /\ Block(PutChar, Handling)
<1>1. Block(Line, Handling)
  BY PutBlock DEF Line
<1>2. Block(GetChar, Handling)
  <2>1. Block(Do("poll_data"), {"poll_data"}) /\ Block(Do("read"), {"read"})
    BY DoBlock DEF Handling, Service, Jumpers, Skips
  <2>2. Block(Do("poll_data"), Handling) /\ Block(Do("read"), Handling)
    BY <2>1, BlockLift DEF Handling
  <2> QED BY <2>2, BlockJoin DEF GetChar
<1>3. Block(PutChar, Handling)
  <2>1. PICK a : a = Do("poll_empty")
    OBVIOUS
  <2>2. PICK o : o = [op |-> "write_acc"]
    OBVIOUS
  <2>3. PutChar = a \o <<o>>
    BY <2>1, <2>2 DEF PutChar, Do
  <2>4. Block(a, {"poll_empty"}) /\ EndOf(a).op = "poll_empty"
    BY <2>1, DoBlock DEF Handling, Service, Jumpers, Skips
  <2>5. Block(a, Handling)
    BY <2>4, BlockLift DEF Handling
  <2>6. Follows(o, EndOf(a)) /\ o.op \in Handling \ (Jumpers \cup {"irq"})
    BY <2>2, <2>4 DEF Follows, Sending, Handling, Jumpers, Skips
  <2> QED BY <2>3, <2>5, <2>6, BlockMore
<1> QED BY <1>1, <1>2, <1>3

LEMMA ModifyBlock ==
  ASSUME NEW r, NEW h, NEW m PROVE Block(Modify(r, h, m), Handling)
<1>1. PICK o : o = [op |-> "read_gpio", reg |-> r]
  OBVIOUS
<1>2. PICK p : p = [op |-> "write_gpio", reg |-> r, how |-> h, mask |-> m]
  OBVIOUS
<1>3. Modify(r, h, m) = <<o>> \o <<p>>
  BY <1>1, <1>2 DEF Modify
<1>4. /\ o.op = "read_gpio" /\ p.op = "write_gpio" /\ ~Bound(o) /\ ~Bound(p)
  BY <1>1, <1>2 DEF Bound, Sending, Listens
<1>5. Block(<<o>>, Handling)
  BY <1>4, BlockOne DEF Handling, Jumpers, Skips
<1>6. Block(<<o>> \o <<p>>, Handling)
  BY <1>4, <1>5, BlockMore DEF Handling, Jumpers, Skips
<1> QED BY <1>3, <1>6

LEMMA LedBlock ==
  ASSUME NEW l
  PROVE  /\ Block(Outputs(l), Handling)
         /\ Block(LedOn(l), Handling) /\ Block(LedOff(l), Handling)
         /\ Block(LedToggle(l), Handling)
         /\ \A on : Block(LedSet(l, on), Handling)
<1>1. \A m : Block(Outputs(m), Handling)
  BY ModifyBlock, BlockJoin DEF Outputs
<1>2. Block(LedOn(l), Handling)
  BY <1>1, ModifyBlock, BlockJoin DEF LedOn
<1>3. Block(LedOff(l), Handling)
  BY <1>1, ModifyBlock, BlockJoin DEF LedOff
<1>4. Block(LedToggle(l), Handling)
  BY <1>1, ModifyBlock, BlockJoin DEF LedToggle
<1>5. \A on : Block(LedSet(l, on), Handling)
  BY <1>2, <1>3 DEF LedSet
<1> QED BY <1>1, <1>2, <1>3, <1>4, <1>5

(* The two interrupt handlers. *)
LEMMA HandlerTexts == Text(UartHandler, Handling) /\ Text(LockHandler, Handling)
<1>1. Block(Do("quit_if_q"), {"quit_if_q"}) /\ Block(Do("unpend"), {"unpend"})
  BY DoBlock DEF Handling, Service, Jumpers, Skips
<1>2. Block(Do("quit_if_q"), Handling) /\ Block(Do("unpend"), Handling)
  BY <1>1, BlockLift DEF Handling
<1>3. Block(Set("locked", FALSE), Handling)
  <2>1. PICK o : o = [op |-> "set", var |-> "locked", to |-> FALSE]
    OBVIOUS
  <2>2. o.op = "set" /\ ~Bound(o)
    BY <2>1 DEF Bound, Sending, Listens
  <2> QED BY <2>1, <2>2, BlockOne DEF Set, Handling, Jumpers, Skips
<1>4. Block(UartHandler, Handling)
  BY <1>2, CharBlocks, BlockJoin DEF UartHandler
<1>5. Block(LockHandler, Handling)
  BY <1>2, <1>3, LedBlock, BlockJoin DEF LockHandler
<1> QED BY <1>4, <1>5, BlockText

-----------------------------------------------------------------------------
(* The initialisation of the UART: all of it but the last operation. *)

Boot ==
  Divisor("register") \o Write("ier_dlm", 0) \o ModifyLcr("dlab_on")
  \o Do("divisor_lo") \o Do("divisor_hi") \o SetLcr("bits8")
  \o ModifyLcr("dlab_off") \o Do("clear_fifos")

Booting ==
  {"divisor", "write", "read_lcr", "write_lcr", "divisor_lo", "divisor_hi",
   "clear_fifos"}

LEMMA BootOps ==
  /\ \A v : Block(Divisor(v), Booting)
  /\ Block(Write("ier_dlm", 0), Booting)
  /\ Block(ModifyLcr("dlab_on"), Booting)
  /\ LET m == ModifyLcr("dlab_on") IN LcrWrite(EndOf(m), {"dlab_on"})
  /\ Block(ModifyLcr("dlab_off"), Booting)
  /\ Block(SetLcr("bits8"), Booting)
  /\ Block(SetLcr("dlab"), Booting)
  /\ LET m == SetLcr("dlab") IN LcrWrite(EndOf(m), {"dlab"})
  /\ Block(Do("divisor_hi"), Booting)
  /\ Block(Do("clear_fifos"), Booting)
<1>1. ASSUME NEW v PROVE Block(Divisor(v), Booting)
  <2>1. PICK o : o = [op |-> "divisor", by |-> v]
    OBVIOUS
  <2>2. o.op = "divisor" /\ ~Bound(o)
    BY <2>1 DEF Bound, Sending, Listens
  <2> QED BY <2>1, <2>2, BlockOne DEF Divisor, Booting, Jumpers, Skips
<1>2. Block(Write("ier_dlm", 0), Booting)
  <2>1. PICK o : o = [op |-> "write", reg |-> "ier_dlm", val |-> 0]
    OBVIOUS
  <2>2. o.op = "write" /\ ~Bound(o)
    BY <2>1 DEF Bound, Sending, Listens, OnData
  <2> QED BY <2>1, <2>2, BlockOne DEF Write, Booting, Jumpers, Skips
<1>3. ASSUME NEW h \in {"dlab_on", "dlab_off"}
      PROVE  /\ Block(ModifyLcr(h), Booting)
             /\ LET m == ModifyLcr(h) IN LcrWrite(EndOf(m), {h})
  <2>1. PICK o : o = [op |-> "write_lcr", how |-> h]
    OBVIOUS
  <2>2. PICK a : a = Do("read_lcr")
    OBVIOUS
  <2>3. Block(a, {"read_lcr"}) /\ EndOf(a).op = "read_lcr"
    BY <2>2, DoBlock DEF Handling, Service, Jumpers, Skips
  <2>4. Block(a, Booting)
    BY <2>3, BlockLift DEF Booting
  <2>5. Follows(o, EndOf(a)) /\ o.op \in Booting \ (Jumpers \cup {"irq"})
    BY <2>1, <2>3 DEF Follows, LcrWrite, Changes, Booting, Jumpers, Skips
  <2>6. LcrWrite(o, {h}) /\ ModifyLcr(h) = a \o <<o>>
    BY <2>1, <2>2 DEF LcrWrite, ModifyLcr, SetLcr
  <2> QED BY <2>4, <2>5, <2>6, BlockMore
<1>4. ASSUME NEW h \in {"bits8", "dlab"}
      PROVE  /\ Block(SetLcr(h), Booting)
             /\ LET m == SetLcr(h) IN LcrWrite(EndOf(m), {h})
  <2>1. PICK o : o = [op |-> "write_lcr", how |-> h]
    OBVIOUS
  <2>2. o.op = "write_lcr" /\ ~Bound(o) /\ LcrWrite(o, {h})
    BY <2>1 DEF Bound, Sending, Listens, LcrWrite
  <2>3. SetLcr(h) = <<o>>
    BY <2>1 DEF SetLcr
  <2> QED BY <2>2, <2>3, BlockOne DEF Booting, Jumpers, Skips
<1>5. /\ Block(Do("divisor_hi"), {"divisor_hi"})
      /\ Block(Do("clear_fifos"), {"clear_fifos"})
  BY DoBlock DEF Handling, Service, Jumpers, Skips
<1>6. Block(Do("divisor_hi"), Booting) /\ Block(Do("clear_fifos"), Booting)
  BY <1>5, BlockLift DEF Booting
<1> QED BY <1>1, <1>2, <1>3, <1>4, <1>6

(* The low byte of the divisor is written while DLAB is set. *)
LEMMA LoAfter ==
  ASSUME NEW a, Block(a, Booting), LcrWrite(EndOf(a), {"dlab_on", "dlab"})
  PROVE  Block(a \o Do("divisor_lo"), Booting)
<1>1. PICK o : o = [op |-> "divisor_lo"]
  OBVIOUS
<1>2. o.op = "divisor_lo" /\ Do("divisor_lo") = <<o>>
  BY <1>1 DEF Do
<1>3. Follows(o, EndOf(a)) /\ o.op \in Booting \ (Jumpers \cup {"irq"})
  BY <1>2 DEF Follows, Booting, Jumpers, Skips
<1> QED BY <1>2, <1>3, BlockMore

LEMMA SetBlock ==
  ASSUME NEW v, NEW x
  PROVE  Block(Set(v, x), {"set"})
<1>1. PICK o : o = [op |-> "set", var |-> v, to |-> x]
  OBVIOUS
<1>2. o.op = "set" /\ ~Bound(o)
  BY <1>1 DEF Bound, Sending, Listens
<1> QED BY <1>1, <1>2, BlockOne DEF Set, Jumpers, Skips

LEMMA InitBlocks ==
  /\ Block(Boot, Booting) /\ InitUart = Boot \o Set("is_init", TRUE)
  /\ Block(InitUart, Service)
  /\ Block(InitUartMinimal, Booting)
<1>1. Block(Boot, Booting)
  <2>1. PICK a : a = Divisor("register") \o Write("ier_dlm", 0)
    OBVIOUS
  <2>2. PICK m : m = ModifyLcr("dlab_on")
    OBVIOUS
  <2>3. Block(a, Booting)
    BY <2>1, BootOps, BlockJoin
  <2>4. Block(m, Booting) /\ LcrWrite(EndOf(m), {"dlab_on"})
    BY <2>2, BootOps
  <2>5. PICK c : c = a \o m
    OBVIOUS
  <2>6. Block(c, Booting) /\ EndOf(c) = EndOf(m)
    BY <2>3, <2>4, <2>5, BlockJoin
  <2>7. LcrWrite(EndOf(c), {"dlab_on", "dlab"})
    BY <2>4, <2>6 DEF LcrWrite
  <2>8. Block(c \o Do("divisor_lo"), Booting)
    BY <2>6, <2>7, LoAfter
  <2> QED BY <2>1, <2>2, <2>5, <2>8, BootOps, BlockJoin DEF Boot
<1>2. InitUart = Boot \o Set("is_init", TRUE)
  BY DEF InitUart, Boot
<1>3. Block(InitUart, Service)
  <2>1. Block(Boot, Service)
    BY <1>1, BlockLift DEF Booting, Service, Handling
  <2>2. Block(Set("is_init", TRUE), Service)
    BY SetBlock, BlockLift DEF Service, Handling
  <2> QED BY <1>2, <2>1, <2>2, BlockJoin
<1>4. Block(InitUartMinimal, Booting)
  <2>1. PICK a : a = Divisor("two") \o Write("ier_dlm", 0)
    OBVIOUS
  <2>2. PICK m : m = SetLcr("dlab")
    OBVIOUS
  <2>3. Block(a, Booting)
    BY <2>1, BootOps, BlockJoin
  <2>4. Block(m, Booting) /\ LcrWrite(EndOf(m), {"dlab"})
    BY <2>2, BootOps
  <2>5. PICK c : c = a \o m
    OBVIOUS
  <2>6. Block(c, Booting) /\ EndOf(c) = EndOf(m)
    BY <2>3, <2>4, <2>5, BlockJoin
  <2>7. LcrWrite(EndOf(c), {"dlab_on", "dlab"})
    BY <2>4, <2>6 DEF LcrWrite
  <2>8. Block(c \o Do("divisor_lo"), Booting)
    BY <2>6, <2>7, LoAfter
  <2> QED BY <2>1, <2>2, <2>5, <2>8, BootOps, BlockJoin DEF InitUartMinimal
<1> QED BY <1>1, <1>2, <1>3, <1>4

Listening == {"write", "read_lcr", "write_lcr"}

LEMMA ListenBlock == Block(Listen(OnData), Listening)
<1>1. PICK a : a = Do("read_lcr")
  OBVIOUS
<1>2. PICK o : o = [op |-> "write_lcr", how |-> "only_dlab"]
  OBVIOUS
<1>3. PICK p : p = [op |-> "write", reg |-> "ier_dlm", val |-> OnData]
  OBVIOUS
<1>4. PICK r : r = [op |-> "write_lcr", how |-> "restore"]
  OBVIOUS
<1>5. Listen(OnData) = ((a \o <<o>>) \o <<p>>) \o <<r>>
  BY <1>1, <1>2, <1>3, <1>4 DEF Listen, SetLcr, Write
<1>6. Block(a, {"read_lcr"}) /\ EndOf(a).op = "read_lcr"
  BY <1>1, DoBlock DEF Handling, Service, Jumpers, Skips
<1>7. Block(a, Listening)
  BY <1>6, BlockLift DEF Listening
<1>8. /\ Follows(o, EndOf(a)) /\ Follows(p, o) /\ Follows(r, p)
      /\ {o.op, p.op, r.op} \subseteq Listening \ (Jumpers \cup {"irq"})
  BY <1>2, <1>3, <1>4, <1>6
     DEF Follows, LcrWrite, Changes, Listens, Listening, Jumpers, Skips
<1>9. PICK b : b = a \o <<o>>
  OBVIOUS
<1>10. Block(b, Listening) /\ EndOf(b) = o
  BY <1>7, <1>8, <1>9, BlockMore
<1>11. PICK c : c = b \o <<p>>
  OBVIOUS
<1>12. Block(c, Listening) /\ EndOf(c) = p
  BY <1>8, <1>10, <1>11, BlockMore
<1>13. Block(c \o <<r>>, Listening)
  BY <1>8, <1>12, BlockMore
<1> QED BY <1>5, <1>9, <1>11, <1>13

-----------------------------------------------------------------------------
(* The texts of the programs. *)

LEMMA ServiceText ==
  ASSUME NEW s
  PROVE  /\ Block(s, Handling) => Text(s, Service)
         /\ Block(s, Booting) => Text(s, Service)
         /\ Block(s, Listening) => Text(s, Service)
         /\ Block(s, Service) => Text(s, Service)
<1>1. Handling \subseteq Service /\ Booting \subseteq Service /\ Listening \subseteq Service
  BY DEF Booting, Listening, Service, Handling
<1>2. /\ Block(s, Handling) => Block(s, Service)
      /\ Block(s, Booting) => Block(s, Service)
      /\ Block(s, Listening) => Block(s, Service)
  BY <1>1, BlockLift
<1> QED BY <1>2, BlockText

LEMMA LedText ==
  ASSUME NEW l
  PROVE  /\ Text(Outputs(l), Service)
         /\ Text(LedOn(l), Service) /\ Text(LedOff(l), Service)
         /\ \A on : Text(LedSet(l, on), Service)
BY LedBlock, ServiceText

LEMMA ServiceForever ==
  ASSUME NEW b, Text(b, Service) PROVE Text(Forever(b), Service)
BY ForeverText DEF Text, Service, Handling

LEMMA AllText == Text(AllOn, Service) /\ Text(AllOff, Service)
<1>1. Text(AllOn, Service)
  <2>1. PICK q : q = [k \in 1 .. 4 |-> LedOn(<<0, 1, 2, 3>>[k])]
    OBVIOUS
  <2>2. AllOn = FlattenSeq(q)
    BY <2>1 DEF AllOn, ForEach
  <2>3. q = [k \in 1 .. 4 |-> q[k]] /\ \A k \in 1 .. 4 : Text(q[k], Service)
    BY <2>1, LedText
  <2> QED BY <2>2, <2>3, FlattenText
<1>2. Text(AllOff, Service)
  <2>1. PICK q : q = [k \in 1 .. 4 |-> LedOff(<<0, 1, 2, 3>>[k])]
    OBVIOUS
  <2>2. AllOff = FlattenSeq(q)
    BY <2>1 DEF AllOff, ForEach
  <2>3. q = [k \in 1 .. 4 |-> q[k]] /\ \A k \in 1 .. 4 : Text(q[k], Service)
    BY <2>1, LedText
  <2> QED BY <2>2, <2>3, FlattenText
<1> QED BY <1>1, <1>2

LEMMA ChaseText ==
  ASSUME NEW a, NEW b, NEW c, NEW d
  PROVE  Text(Chase(<<a, b, c, d>>), Service)
<1>1. PICK p : p = <<a, b, c, d>>
  OBVIOUS
<1>2. PICK q : q = [k \in 1 .. 4 |-> LedOff(p[k][1]) \o LedOn(p[k][2])]
  OBVIOUS
<1>3. DOMAIN p = 1 .. 4
  BY <1>1
<1>4. Chase(p) = FlattenSeq(q)
  BY <1>2, <1>3 DEF Chase, ForEach
<1>5. q = [k \in 1 .. 4 |-> q[k]] /\ \A k \in 1 .. 4 : Text(q[k], Service)
  BY <1>2, LedText, TextJoin
<1> QED BY <1>1, <1>4, <1>5, FlattenText

LEMMA BlinkText ==
  Text(OkBlink, Service) /\ Text(FailBlink, Service) /\ Text(BlinkPanic, Service)
<1>1. Text(OkBlink, Service)
  <2>1. Text(Forever(LedOn(0) \o LedOn(1) \o LedOff(0) \o LedOff(1)), Service)
    BY LedText, TextJoin, ServiceForever
  <2> QED BY <2>1, LedText, TextJoin DEF OkBlink
<1>2. Text(FailBlink, Service)
  BY AllText, TextJoin, ServiceForever DEF FailBlink
<1>3. Text(BlinkPanic, Service)
  BY ChaseText, ServiceForever DEF BlinkPanic
<1> QED BY <1>1, <1>2, <1>3

LEMMA PutText == /\ \A c : Text(Put(c), Service)
                 /\ Text(Line, Service) /\ Text(GetChar, Service) /\ Text(PutChar, Service)
BY PutBlock, CharBlocks, ServiceText

LEMMA SetText == \A v, x : Text(Set(v, x), Service)
BY SetBlock, BlockLift, BlockText DEF Service, Handling

LEMMA SignalText ==
  ASSUME NEW t PROVE Text(SignalPass(t), Service) /\ Text(SignalFail(t), Service)
BY PutText, SetText, BlinkText, TextJoin DEF SignalPass, SignalFail, Signal

LEMMA EnsureText == Text(EnsureUart, Service)
<1>1. PICK o : o = [op |-> "skip_if_init", by |-> Len(InitUart)]
  OBVIOUS
<1>2. o.op \in Service \cap Skips /\ o.by = Len(InitUart)
  BY <1>1 DEF Service, Skips
<1>3. Text(InitUart, Service)
  BY InitBlocks, ServiceText
<1> QED BY <1>1, <1>2, <1>3, SkipText DEF EnsureUart

(* The panic handler and blink_exception. *)
LEMMA FaultTexts ==
  /\ \A t : Text(PanicHandler(t), Service)
  /\ \A code : Text(BlinkException(code), Service)
<1>1. ASSUME NEW t PROVE Text(PanicHandler(t), Service)
  <2>1. Text(PanicMessage(t), Service)
    BY PutText, SetText, BlinkText, TextJoin DEF PanicMessage
  <2> QED BY <2>1, EnsureText, TextJoin DEF PanicHandler
<1>2. ASSUME NEW code PROVE Text(BlinkException(code), Service)
  <2>1. PICK q : q = [k \in 1 .. 4 |->
                        LedSet(<<0, 1, 2, 3>>[k], <<0, 1, 2, 3>>[k] \in code)]
    OBVIOUS
  <2>2. q = [k \in 1 .. 4 |-> q[k]] /\ \A k \in 1 .. 4 : Text(q[k], Service)
    BY <2>1, LedText
  <2>3. Text(FlattenSeq(q), Service)
    BY <2>2, FlattenText
  <2>4. Text(Forever(FlattenSeq(q) \o AllOff), Service)
    BY <2>3, AllText, TextJoin, ServiceForever
  <2>5. BlinkException(code)
          = EnsureUart \o Put(Failed) \o Line \o Line \o Forever(FlattenSeq(q) \o AllOff)
    <3>1. q = [k \in DOMAIN <<0, 1, 2, 3>> |->
                 LedSet(<<0, 1, 2, 3>>[k], <<0, 1, 2, 3>>[k] \in code)]
      BY <2>1
    <3> QED BY <3>1, Zenon DEF BlinkException, ForEach
  <2> QED BY <2>4, <2>5, EnsureText, PutText, TextJoin
<1> QED BY <1>1, <1>2

(* What the programs use, and which interrupts they touch. *)
KindsOf(j) ==
  CASE j = "uart_irq" -> Service \cup {"mie", "irq", "Uart"}
    [] j = "clic_mtimer" -> Service \cup {"mie", "irq", "MachineTimer"}
    [] OTHER -> Service \cup {"app"}

LEMMA DoText ==
  ASSUME NEW o \in Service \ (Jumpers \cup {"divisor_lo", "write", "write_acc", "write_lcr"})
  PROVE  Text(Do(o), Service)
<1>1. Block(Do(o), {o})
  BY DoBlock
<1> QED BY <1>1, BlockLift, BlockText

LEMMA EnableText ==
  ASSUME NEW K, NEW x, "mie" \in K PROVE Text(Enable(x), K)
<1>1. PICK o : o = [op |-> "mie", to |-> x]
  OBVIOUS
<1>2. o.op = "mie" /\ ~Bound(o)
  BY <1>1 DEF Bound, Sending, Listens
<1> QED BY <1>1, <1>2, BlockOne, BlockText DEF Enable, Jumpers, Skips

LEMMA AlarmText == ASSUME NEW x PROVE Text(Alarm(x), Service)
<1>1. PICK o : o = [op |-> "alarm", to |-> x]
  OBVIOUS
<1>2. o.op = "alarm" /\ ~Bound(o)
  BY <1>1 DEF Bound, Sending, Listens
<1> QED BY <1>1, <1>2, BlockOne, BlockText DEF Alarm, Service, Jumpers, Skips

LEMMA ReportText ==
  ASSUME NEW K, Service \cup {"app"} \subseteq K, NEW v, Text(v, Service)
  PROVE  Text(Report(v), K)
<1>1. Text(MayFault, K)
  BY DoBlock, BlockLift, BlockText DEF MayFault, Jumpers, Skips
<1>2. Text(InitUart, K) /\ Text(Line, K) /\ Text(v, K)
  BY InitBlocks, ServiceText, PutText, BlockLift
<1> QED BY <1>1, <1>2, TextJoin DEF Report

LEMMA PlainTexts ==
  ASSUME NEW t
  PROVE  /\ Text(Blinky(t), Service) /\ Text(GpioBlink(t), Service)
         /\ Text(Minimal(t), Service)
<1>1. Text(Blinky(t), Service)
  BY ChaseText, ServiceForever DEF Blinky
<1>2. Text(GpioBlink(t), Service)
  <2>1. Text(Modify("out", "toggle", {0}), Service)
    BY ModifyBlock, ServiceText
  <2>2. Text(Forever(Modify("out", "toggle", {0})), Service)
    BY <2>1, ServiceForever
  <2> QED BY <2>2, InitBlocks, ServiceText, PutText, LedText, TextJoin DEF GpioBlink
<1>3. Text(Minimal(t), Service)
  BY InitBlocks, ServiceText, PutText, TextJoin DEF Minimal
<1> QED BY <1>1, <1>2, <1>3

(* The loop of uart_echo. *)
EchoLoop ==
  Forever(GetChar \o PutChar \o Do("push") \o EchoTest \o EchoFlush)

LEMMA EchoLoopText == Text(EchoLoop, Service)
<1>1. Text(EchoFlush, Service)
  <2>1. Text(Do("clear_buffer"), Service)
    BY DoText DEF Service, Jumpers, Skips
  <2> QED BY <2>1, PutText, TextJoin DEF EchoFlush
<1>2. Text(EchoTest \o EchoFlush, Service)
  <2>1. PICK o : o = [op |-> "skip_unless_done", full |-> TRUE, by |-> Len(EchoFlush)]
    OBVIOUS
  <2>2. o.op \in Service \cap Skips /\ o.by = Len(EchoFlush)
    BY <2>1 DEF Service, Skips
  <2> QED BY <1>1, <2>1, <2>2, SkipText DEF EchoTest
<1>3. PICK a : a = (GetChar \o PutChar) \o Do("push")
  OBVIOUS
<1>4. Text(a, Service)
  <2>1. Text(Do("push"), Service)
    BY DoText DEF Service, Jumpers, Skips
  <2> QED BY <1>3, <2>1, PutText, TextJoin
<1>5. Text(a \o (EchoTest \o EchoFlush), Service)
  BY <1>2, <1>4, TextJoin
<1>6. (a \o EchoTest) \o EchoFlush = a \o (EchoTest \o EchoFlush)
  <2>1. IsSeq(EchoTest)
    BY OneOp DEF EchoTest
  <2>2. IsSeq(a) /\ IsSeq(EchoFlush)
    BY <1>1, <1>4 DEF Text, Part
  <2> QED BY <2>1, <2>2, Associative
<1>7. Text(Forever((a \o EchoTest) \o EchoFlush), Service)
  BY <1>5, <1>6, ServiceForever
<1>8. EchoLoop = Forever((a \o EchoTest) \o EchoFlush)
  BY <1>3, Zenon DEF EchoLoop
<1> QED BY <1>7, <1>8

LEMMA EchoText == ASSUME NEW t PROVE Text(UartEcho(t), Service)
<1>1. UartEcho(t) = (InitUart \o Line) \o EchoLoop
  BY Zenon DEF UartEcho, EchoLoop
<1> QED BY <1>1, EchoLoopText, InitBlocks, ServiceText, PutText, TextJoin

LEMMA LockText == Text(WaitOnLock, Service)
<1>1. \A l : Part(LedOn(l), Service) /\ Part(LedOff(l), Service)
  BY LedText DEF Text
<1>2. Part(Break("locked", FALSE), Service)
  <2>1. "break" \in Service
    BY DEF Service
  <2> QED BY <2>1, BreakPart
<1>3. \A l, m : Part((Break("locked", FALSE) \o LedOff(l)) \o LedOn(m), Service)
  BY <1>1, <1>2, PartJoin
<1>4. PICK a : a = (Break("locked", FALSE) \o LedOff(3)) \o LedOn(2)
  OBVIOUS
<1>5. PICK b : b = (Break("locked", FALSE) \o LedOff(2)) \o LedOn(3)
  OBVIOUS
<1>6. Text(Forever(a \o b), Service)
  BY <1>3, <1>4, <1>5, PartJoin, ForeverText DEF Service
<1>7. WaitOnLock = Forever(a \o b)
  BY <1>4, <1>5 DEF WaitOnLock
<1> QED BY <1>6, <1>7

LEMMA MtimerText ==
  ASSUME NEW t PROVE Text(ClicMtimerMain(t), KindsOf("clic_mtimer"))
<1>1. PICK K : K = KindsOf("clic_mtimer")
  OBVIOUS
<1>2. K = Service \cup {"mie", "irq", "MachineTimer"}
  BY <1>1 DEF KindsOf
<1>3. \A s : Text(s, Service) => Text(s, K)
  BY <1>2, BlockLift
<1>4. \A x : Text(Enable(x), K) /\ Text(SetIrq("MachineTimer", x), K)
  BY <1>2, EnableText, IrqText DEF Irqs
<1>5. /\ Text(InitUart, K) /\ Text(Line, K) /\ Text(WaitOnLock, K)
      /\ Text(SignalPass(t), K) /\ \A x : Text(Alarm(x), K)
  BY <1>3, InitBlocks, ServiceText, PutText, LockText, SignalText, AlarmText
<1>6. Text(ClicMtimerMain(t), K)
  BY <1>4, <1>5, TextJoin DEF ClicMtimerMain
<1> QED BY <1>1, <1>6

LEMMA IrqMainText ==
  ASSUME NEW t PROVE Text(UartIrqMain(t), KindsOf("uart_irq"))
<1>1. PICK K : K = KindsOf("uart_irq")
  OBVIOUS
<1>2. K = Service \cup {"mie", "irq", "Uart"}
  BY <1>1 DEF KindsOf
<1>3. \A s : Text(s, Service) => Text(s, K)
  BY <1>2, BlockLift
<1>4. \A x : Text(Enable(x), K) /\ Text(SetIrq("Uart", x), K)
  BY <1>2, EnableText, IrqText DEF Irqs
<1>5. /\ Text(InitUart, K) /\ Text(Line, K) /\ Text(Put(Other), K)
      /\ Text(Listen(OnData), K)
  BY <1>3, InitBlocks, ServiceText, PutText, ListenBlock
<1>6. Text(SleepUntil("running", FALSE), K)
  BY <1>2, SleepText DEF Service
<1>7. Text(UartIrqMain(t), K)
  BY <1>4, <1>5, <1>6, TextJoin DEF UartIrqMain
<1> QED BY <1>1, <1>7

(* The text of every program. *)
LEMMA MainTexts ==
  ASSUME NEW t \in Targets, NEW j \in Jobs
  PROVE  Text(MainOf[t][j], KindsOf(j))
<1>1. MainOf[t] = Programs(t)
  BY DEF MainOf, Targets
<1>2. Jobs = {"pass", "fail", "blinky", "gpio_blink", "divided", "minimal",
              "uart_irq", "uart_echo", "clic_mtimer"}
  BY DEF Jobs, MainOf, Programs
<1>3. PICK K : K = Service \cup {"app"}
  OBVIOUS
<1>4. \A s : Text(s, Service) => Text(s, K)
  BY <1>3, BlockLift
<1>5. /\ Text(Report(SignalPass(t)), K) /\ Text(Report(SignalFail(t)), K)
      /\ Text(Divided(t), K)
  <2>1. Text(Do("divide"), Service)
    BY DoText DEF Service, Jumpers, Skips
  <2>2. Text(Report(SignalPass(t)), K) /\ Text(Report(SignalFail(t)), K)
    BY <1>3, ReportText, SignalText
  <2> QED BY <2>1, <2>2, <1>4, TextJoin DEF Divided
<1>6. /\ Text(Blinky(t), K) /\ Text(GpioBlink(t), K) /\ Text(Minimal(t), K)
      /\ Text(UartEcho(t), K)
  BY <1>4, PlainTexts, EchoText
<1>7. j \notin {"uart_irq", "clic_mtimer"} => KindsOf(j) = K
  BY <1>3 DEF KindsOf
<1>8. CASE j = "uart_irq"
  BY <1>1, <1>8, IrqMainText DEF Programs
<1>9. CASE j = "clic_mtimer"
  BY <1>1, <1>9, MtimerText DEF Programs
<1>10. CASE j \notin {"uart_irq", "clic_mtimer"}
  <2>1. Text(Programs(t)[j], K)
    <3>1. CASE j = "pass"
      BY <3>1, <1>5 DEF Programs
    <3>2. CASE j = "fail"
      BY <3>2, <1>5 DEF Programs
    <3>3. CASE j = "divided"
      BY <3>3, <1>5 DEF Programs
    <3>4. CASE j \in {"blinky", "gpio_blink", "minimal", "uart_echo"}
      BY <3>4, <1>6 DEF Programs
    <3> QED BY <3>1, <3>2, <3>3, <3>4, <1>2, <1>10
  <2> QED BY <2>1, <1>1, <1>7, <1>10
<1> QED BY <1>8, <1>9, <1>10

-----------------------------------------------------------------------------
(* uart_irq after the initialisation. *)

Resting ==
  {"poll_empty", "irq", "read_lcr", "write_lcr", "mie", "until", "wfi", "quit_if_q"}

Rest(s) ==
  /\ IsSeq(s)
  /\ \A n \in 1 .. Len(s) : s[n].op \in Resting \/ Sending(s[n]) \/ Listens(s[n])

(* The same for what uart_irq does after its initialisation. *)
LEMMA RestOne ==
  ASSUME NEW o, o.op \in Resting \/ Sending(o) \/ Listens(o)
  PROVE  Rest(<<o>>)
<1>1. PICK s : s = <<o>>
  OBVIOUS
<1>2. IsSeq(s) /\ Len(s) = 1 /\ s[1] = o
  BY <1>1, OneOp
<1>3. \A n \in 1 .. Len(s) : n = 1
  BY <1>2
<1>4. Rest(s)
  BY <1>2, <1>3 DEF Rest
<1> QED BY <1>1, <1>4

LEMMA RestJoin ==
  ASSUME NEW a, NEW b, Rest(a), Rest(b) PROVE Rest(a \o b)
<1>1. PICK s : s = a \o b
  OBVIOUS
<1>2. PICK la : la = Len(a)
  OBVIOUS
<1>3. PICK lb : lb = Len(b)
  OBVIOUS
<1>4. /\ IsSeq(s) /\ la \in Nat /\ lb \in Nat /\ Len(s) = la + lb
      /\ \A n \in 1 .. la : s[n] = a[n]
      /\ \A n \in la + 1 .. la + lb : s[n] = b[n - la]
  BY <1>1, <1>2, <1>3, Joined DEF Rest
<1>5. ASSUME NEW n \in 1 .. la + lb
      PROVE  s[n].op \in Resting \/ Sending(s[n]) \/ Listens(s[n])
  <2>1. CASE n \in 1 .. la
    BY <2>1, <1>2, <1>4 DEF Rest
  <2>2. CASE n \in la + 1 .. la + lb
    <3>1. n - la \in 1 .. lb
      BY <2>2, <1>4
    <3> QED BY <2>2, <3>1, <1>3, <1>4 DEF Rest
  <2> QED BY <2>1, <2>2, <1>4
<1>6. Rest(s)
  BY <1>4, <1>5 DEF Rest
<1> QED BY <1>1, <1>6

LEMMA RestPieces ==
  /\ \A c : Rest(Put(c))
  /\ Rest(Line)
  /\ \A x : Rest(SetIrq("Uart", x)) /\ Rest(Enable(x))
  /\ Rest(Listen(OnData))
  /\ Rest(SleepUntil("running", FALSE)) /\ Rest(Do("quit_if_q")) /\ Rest(PutChar)
<1>1. ASSUME NEW o \in Resting PROVE Rest(Do(o))
  <2>1. PICK p : p = [op |-> o]
    OBVIOUS
  <2>2. p.op \in Resting
    BY <2>1
  <2> QED BY <2>1, <2>2, RestOne DEF Do
<1>2. ASSUME NEW c PROVE Rest(Write("thr", c))
  <2>1. PICK p : p = [op |-> "write", reg |-> "thr", val |-> c]
    OBVIOUS
  <2>2. Sending(p)
    BY <2>1 DEF Sending
  <2> QED BY <2>1, <2>2, RestOne DEF Write
<1>3. \A c : Rest(Put(c))
  BY <1>1, <1>2, RestJoin DEF Put, Resting
<1>4. ASSUME NEW x PROVE Rest(SetIrq("Uart", x)) /\ Rest(Enable(x))
  <2>1. PICK o : o = [op |-> "irq", irq |-> "Uart", to |-> x]
    OBVIOUS
  <2>2. PICK p : p = [op |-> "mie", to |-> x]
    OBVIOUS
  <2>3. o.op \in Resting /\ p.op \in Resting
    BY <2>1, <2>2 DEF Resting
  <2> QED BY <2>1, <2>2, <2>3, RestOne DEF SetIrq, Enable
<1>5. ASSUME NEW h PROVE Rest(SetLcr(h))
  <2>1. PICK o : o = [op |-> "write_lcr", how |-> h]
    OBVIOUS
  <2>2. o.op \in Resting
    BY <2>1 DEF Resting
  <2> QED BY <2>1, <2>2, RestOne DEF SetLcr
<1>6. Rest(Write("ier_dlm", OnData))
  <2>1. PICK p : p = [op |-> "write", reg |-> "ier_dlm", val |-> OnData]
    OBVIOUS
  <2>2. Listens(p)
    BY <2>1 DEF Listens
  <2> QED BY <2>1, <2>2, RestOne DEF Write
<1>7. Rest(Listen(OnData))
  <2>1. Rest(Do("read_lcr"))
    BY <1>1 DEF Resting
  <2> QED BY <2>1, <1>5, <1>6, RestJoin DEF Listen
<1>8. Rest(SleepUntil("running", FALSE))
  <2>1. PICK o : o = [op |-> "until", var |-> "running", is |-> FALSE]
    OBVIOUS
  <2>2. o.op \in Resting
    BY <2>1 DEF Resting
  <2>3. Rest(Do("wfi"))
    BY <1>1 DEF Resting
  <2> QED BY <2>1, <2>2, <2>3, RestOne, RestJoin DEF SleepUntil
<1>9. Rest(Do("quit_if_q")) /\ Rest(PutChar)
  <2>1. PICK p : p = [op |-> "write_acc"]
    OBVIOUS
  <2>2. Sending(p)
    BY <2>1 DEF Sending
  <2>3. Rest(Do("write_acc"))
    BY <2>1, <2>2, RestOne DEF Do
  <2> QED BY <1>1, <2>3, RestJoin DEF PutChar, Resting
<1> QED BY <1>3, <1>4, <1>7, <1>8, <1>9 DEF Line

(* A beginning h, then such operations. *)
Ready(s, h) ==
  /\ IsSeq(s) /\ IsSeq(h) /\ Len(h) <= Len(s)
  /\ \A n \in 1 .. Len(s) :
       IF n <= Len(h) THEN s[n] = h[n]
       ELSE s[n].op \in Resting \/ Sending(s[n]) \/ Listens(s[n])

(* A beginning is kept when more is appended. *)
LEMMA ReadyJoin ==
  ASSUME NEW a, NEW b, NEW h, Ready(a, h), Rest(b) PROVE Ready(a \o b, h)
<1>1. PICK s : s = a \o b
  OBVIOUS
<1>2. PICK la : la = Len(a)
  OBVIOUS
<1>3. PICK lb : lb = Len(b)
  OBVIOUS
<1>4. /\ IsSeq(s) /\ la \in Nat /\ lb \in Nat /\ Len(s) = la + lb
      /\ \A n \in 1 .. la : s[n] = a[n]
      /\ \A n \in la + 1 .. la + lb : s[n] = b[n - la]
  BY <1>1, <1>2, <1>3, Joined DEF Ready, Rest
<1>5. PICK i : i = Len(h)
  OBVIOUS
<1>6. i \in Nat /\ i <= la /\ IsSeq(h)
  BY <1>2, <1>5, Joined DEF Ready
<1>7. ASSUME NEW n \in 1 .. la + lb
      PROVE  IF n <= i THEN s[n] = h[n]
             ELSE s[n].op \in Resting \/ Sending(s[n]) \/ Listens(s[n])
  <2>1. CASE n \in 1 .. la
    BY <2>1, <1>2, <1>4, <1>5 DEF Ready
  <2>2. CASE n \in la + 1 .. la + lb
    <3>1. n - la \in 1 .. lb /\ ~(n <= i)
      BY <2>2, <1>4, <1>6
    <3> QED BY <2>2, <3>1, <1>3, <1>4 DEF Rest
  <2> QED BY <2>1, <2>2, <1>4
<1>8. Ready(s, h)
  BY <1>4, <1>5, <1>6, <1>7 DEF Ready
<1> QED BY <1>1, <1>8

LEMMA ReadySelf == ASSUME NEW h, IsSeq(h) PROVE Ready(h, h)
<1>1. Len(h) \in Nat
  BY Joined
<1> QED BY <1>1 DEF Ready

LEMMA IrqMainReady == ASSUME NEW t PROVE Ready(UartIrqMain(t), InitUart)
<1>1. Ready(InitUart, InitUart)
  BY InitBlocks, ReadySelf DEF Block
<1> QED BY <1>1, RestPieces, ReadyJoin DEF UartIrqMain

(* What main begins with. *)
LEMMA InitOps ==
  /\ IsSeq(InitUart) /\ Len(InitUart) \in Nat \ {0}
  /\ \A n \in 1 .. Len(InitUart) :
       IF n < Len(InitUart) THEN InitUart[n].op \in Booting \ Jumpers
       ELSE InitUart[n] = [op |-> "set", var |-> "is_init", to |-> TRUE]
<1>1. PICK o : o = [op |-> "set", var |-> "is_init", to |-> TRUE]
  OBVIOUS
<1>2. IsSeq(<<o>>) /\ Len(<<o>>) = 1 /\ <<o>>[1] = o
  BY OneOp
<1>3. PICK i : i = InitUart
  OBVIOUS
<1>4. PICK l : l = Len(Boot)
  OBVIOUS
<1>5. i = Boot \o <<o>>
  BY <1>1, <1>3, InitBlocks DEF Set
<1>6. IsSeq(Boot) /\ \A n \in 1 .. l : Boot[n].op \in Booting \ Jumpers
  BY <1>4, InitBlocks DEF Block
<1>7. /\ IsSeq(i) /\ l \in Nat /\ Len(i) = l + 1
      /\ \A n \in 1 .. l : i[n] = Boot[n]
      /\ \A n \in 1 .. 1 : i[l + n] = <<o>>[n]
  BY <1>2, <1>4, <1>5, <1>6, Joined
<1>8. i[l + 1] = o
  BY <1>2, <1>7
<1>9. \A n \in 1 .. l + 1 : n \in 1 .. l \/ (n = l + 1 /\ ~(n < l + 1))
  BY <1>7
<1>10. \A n \in 1 .. l + 1 : IF n < l + 1 THEN i[n].op \in Booting \ Jumpers ELSE i[n] = o
  BY <1>6, <1>7, <1>8, <1>9
<1>11. Len(i) \in Nat \ {0} /\ \A n \in 1 .. Len(i) :
         IF n < Len(i) THEN i[n].op \in Booting \ Jumpers ELSE i[n] = o
  BY <1>7, <1>10
<1> QED BY <1>1, <1>3, <1>7, <1>11

(* What the handler begins with: it reads one character. *)
Reads == Line \o GetChar

(* Its four operations. *)
LEMMA ReadsOps ==
  /\ IsSeq(Reads) /\ Len(Reads) = 4
  /\ Reads[1].op \in Resting /\ Sending(Reads[2])
  /\ Reads[3].op = "poll_data" /\ Reads[4].op = "read"
<1>1. PICK a : a = [op |-> "poll_empty"]
  OBVIOUS
<1>2. PICK b : b = [op |-> "write", reg |-> "thr", val |-> LF]
  OBVIOUS
<1>3. PICK c : c = [op |-> "poll_data"]
  OBVIOUS
<1>4. PICK d : d = [op |-> "read"]
  OBVIOUS
<1>5. Reads = (<<a>> \o <<b>>) \o (<<c>> \o <<d>>)
  BY <1>1, <1>2, <1>3, <1>4 DEF Reads, Line, Put, GetChar, Do, Write
<1>6. ASSUME NEW x, NEW y
      PROVE  IsSeq(<<x>> \o <<y>>) /\ Len(<<x>> \o <<y>>) = 2
             /\ (<<x>> \o <<y>>)[1] = x /\ (<<x>> \o <<y>>)[2] = y
  <2>1. PICK p : p = <<x>>
    OBVIOUS
  <2>2. PICK q : q = <<y>>
    OBVIOUS
  <2>3. IsSeq(p) /\ IsSeq(q) /\ Len(p) = 1 /\ Len(q) = 1 /\ p[1] = x /\ q[1] = y
    BY <2>1, <2>2, OneOp
  <2>4. PICK r : r = p \o q
    OBVIOUS
  <2>5. PICK k : k = Len(p)
    OBVIOUS
  <2>6. PICK l : l = Len(q)
    OBVIOUS
  <2>7. /\ IsSeq(r) /\ Len(r) = k + l /\ \A n \in 1 .. k : r[n] = p[n]
        /\ \A n \in 1 .. l : r[k + n] = q[n]
    <3>1. IsSeq(p) /\ IsSeq(q)
      BY <2>3
    <3> QED BY <3>1, <2>4, <2>5, <2>6, Joined
  <2>8. k = 1 /\ l = 1
    BY <2>3, <2>5, <2>6
  <2>9. Len(r) = 2 /\ r[1] = x /\ r[2] = y
    BY <2>3, <2>7, <2>8
  <2> QED BY <2>1, <2>2, <2>4, <2>7, <2>9
<1>7. PICK p : p = <<a>> \o <<b>>
  OBVIOUS
<1>8. PICK q : q = <<c>> \o <<d>>
  OBVIOUS
<1>9. IsSeq(p) /\ IsSeq(q) /\ Len(p) = 2 /\ Len(q) = 2 /\ p[1] = a /\ p[2] = b
      /\ q[1] = c /\ q[2] = d
  BY <1>6, <1>7, <1>8
<1>10. PICK r : r = p \o q
  OBVIOUS
<1>11. PICK k : k = Len(p)
  OBVIOUS
<1>12. PICK l : l = Len(q)
  OBVIOUS
<1>13. /\ IsSeq(r) /\ Len(r) = k + l /\ \A n \in 1 .. k : r[n] = p[n]
       /\ \A n \in 1 .. l : r[k + n] = q[n]
  <2>1. IsSeq(p) /\ IsSeq(q)
    BY <1>9
  <2> QED BY <2>1, <1>10, <1>11, <1>12, Joined
<1>14. k = 2 /\ l = 2
  BY <1>9, <1>11, <1>12
<1>15. Len(r) = 4 /\ r[1] = a /\ r[2] = b /\ r[3] = c /\ r[4] = d
  BY <1>9, <1>13, <1>14
<1>16. r = Reads
  BY <1>5, <1>7, <1>8, <1>10
<1>17. a.op \in Resting /\ Sending(b) /\ c.op = "poll_data" /\ d.op = "read"
  BY <1>1, <1>2, <1>3, <1>4 DEF Sending, Resting
<1> QED BY <1>13, <1>15, <1>16, <1>17

LEMMA HandlerReady == Ready(UartHandler, Reads)
<1>1. Ready(Reads, Reads)
  BY ReadsOps, ReadySelf
<1>2. UartHandler = ((Reads \o PutChar) \o Do("quit_if_q")) \o Line
  BY DEF UartHandler, Reads
<1> QED BY <1>1, <1>2, RestPieces, ReadyJoin DEF Line

-----------------------------------------------------------------------------
(* Where the core can come from an operation. *)

Arrives(s, n, t) ==
  /\ t \in 1 .. Len(s) + 1
  /\ t <= Len(s) /\ Bound(s[t]) => t = n + 1 /\ Follows(s[t], s[n])

(* To the next operation, to a landing place, behind a loop. *)
LEMMA ArriveNext ==
  ASSUME NEW K, NEW s, Text(s, K), NEW n \in 1 .. Len(s)
  PROVE  Arrives(s, n, n + 1)
<1>1. PICK l : l = Len(s)
  OBVIOUS
<1>2. l \in Nat
  <2>1. IsSeq(s)
    BY DEF Text, Part
  <2> QED BY <2>1, <1>1, Joined
<1>3. ASSUME n + 1 <= l, Bound(s[n + 1]) PROVE Follows(s[n + 1], s[n])
  <2>1. PICK m : m = n + 1
    OBVIOUS
  <2>2. m \in 1 .. l /\ m - 1 = n
    BY <1>1, <1>2, <1>3, <2>1
  <2>3. Follows(s[m], s[m - 1])
    BY <1>1, <1>3, <2>1, <2>2 DEF Text, Part
  <2> QED BY <2>1, <2>2, <2>3
<1> QED BY <1>1, <1>2, <1>3 DEF Arrives

LEMMA ArriveThere ==
  ASSUME NEW s, NEW n, NEW t, Lands(s, t)
  PROVE  Arrives(s, n, t)
BY DEF Lands, Arrives

LEMMA ArriveBehind ==
  ASSUME NEW K, NEW s, Text(s, K), NEW n, NEW m \in 1 .. Len(s), s[m].op = "back"
  PROVE  Arrives(s, n, 1 + m)
<1>1. Arrives(s, m, m + 1)
  BY ArriveNext
<1>2. Len(s) \in Nat
  <2>1. IsSeq(s)
    BY DEF Text, Part
  <2> QED BY <2>1, Joined
<1>3. ~(m + 1 <= Len(s) /\ Bound(s[m + 1]))
  BY <1>1 DEF Arrives, Follows, LcrWrite, Listens
<1>4. m + 1 = 1 + m
  BY <1>2
<1> QED BY <1>1, <1>3, <1>4 DEF Arrives

(* A loop has an end. *)
LEMMA FirstBack ==
  ASSUME NEW K, NEW s, Text(s, K), NEW n \in 1 .. Len(s), s[n].op = "break",
         NEW p, p = CHOOSE m \in n .. Len(s) :
                      s[m].op = "back" /\ \A k \in n .. m - 1 : s[k].op # "back"
  PROVE  p \in n .. Len(s) /\ p \in 1 .. Len(s) /\ s[p].op = "back"
<1>1. PICK l : l = Len(s)
  OBVIOUS
<1>2. l \in Nat
  <2>1. IsSeq(s)
    BY DEF Text, Part
  <2> QED BY <2>1, <1>1, Joined
<1>3. PICK T : T = {m \in n .. l : s[m].op = "back"}
  OBVIOUS
<1>4. T \subseteq Nat /\ T # {}
  BY <1>1, <1>2, <1>3 DEF Text
<1>5. PICK m \in T : \A k \in T : m <= k
  <2>1. IsWellFoundedOn(OpToRel(<, Nat), Nat)
    BY NatLessThanWellFounded
  <2>2. PICK m \in T : \A k \in T : ~ (<<k, m>> \in OpToRel(<, Nat))
    BY <1>4, <2>1, WFMin
  <2>3. ASSUME NEW k \in T PROVE m <= k
    <3>1. m \in Nat /\ k \in Nat /\ <<k, m>> \notin OpToRel(<, Nat)
      BY <1>4, <2>2
    <3> QED BY <3>1 DEF OpToRel
  <2> QED BY <2>3
<1>6. m \in n .. l /\ s[m].op = "back" /\ \A k \in n .. m - 1 : s[k].op # "back"
  <2>1. m \in n .. l /\ s[m].op = "back"
    BY <1>3, <1>5
  <2>2. ASSUME NEW k \in n .. m - 1, s[k].op = "back" PROVE FALSE
    <3>1. k \in n .. l /\ ~(m <= k)
      BY <2>1, <1>2
    <3> QED BY <2>2, <3>1, <1>3, <1>5
  <2> QED BY <2>1, <2>2
<1>7. p \in n .. l /\ s[p].op = "back"
  BY <1>1, <1>6
<1>8. p \in 1 .. l
  BY <1>1, <1>2, <1>7
<1> QED BY <1>1, <1>7, <1>8

-----------------------------------------------------------------------------
(* The contexts of the core. *)

TextAt(c, j, t, e) ==
  CASE c = "main" -> MainOf[t][j]
    [] c = "Uart" -> UartHandler
    [] c = "MachineTimer" -> LockHandler
    [] c = "panic" -> PanicIn[t]
    [] c = "exception" -> ExceptionIn[t][e]

Kinds(c, j) ==
  CASE c = "main" -> KindsOf(j)
    [] c \in Irqs -> Handling
    [] c \in {"panic", "exception"} -> Service

(* An exception on the test bench executes nothing. *)
LEMMA NoText == ASSUME NEW K PROVE Text(<<>>, K)
<1>1. PICK s : s = <<>>
  OBVIOUS
<1>2. IsSeq(s) /\ Len(s) = 0
  <2>1. s \in Seq({}) /\ Len(s) = 0
    BY <1>1
  <2> QED BY <2>1, IsSeqIntro
<1>3. \A n \in 1 .. Len(s) : FALSE
  BY <1>2
<1>4. Text(s, K)
  BY <1>2, <1>3 DEF Text, Part, Uses
<1> QED BY <1>1, <1>4

(* Whatever a context executes is such a text. *)
LEMMA Texts ==
  ASSUME NEW j \in Jobs, NEW t \in Targets, NEW e \in SUBSET Leds, NEW c \in Frames
  PROVE  Text(TextAt(c, j, t, e), Kinds(c, j))
<1>1. CASE c = "main"
  <2>1. TextAt(c, j, t, e) = MainOf[t][j] /\ Kinds(c, j) = KindsOf(j)
    BY <1>1 DEF TextAt, Kinds, Irqs
  <2> QED BY <2>1, MainTexts
<1>2. CASE c \in Irqs
  BY <1>2, HandlerTexts DEF TextAt, Kinds, Irqs
<1>3. CASE c = "panic"
  <2>1. PanicIn[t] = PanicHandler(t)
    BY DEF PanicIn, Targets
  <2> QED BY <1>3, <2>1, FaultTexts DEF TextAt, Kinds, Irqs
<1>4. CASE c = "exception"
  <2>1. TextAt(c, j, t, e) = ExceptionIn[t][e] /\ Kinds(c, j) = Service
    BY <1>4 DEF TextAt, Kinds, Irqs
  <2>2. CASE t = "fpga"
    <3>1. ExceptionIn[t][e] = BlinkException(e)
      BY <2>2 DEF ExceptionIn
    <3> QED BY <2>1, <3>1, FaultTexts
  <2>3. CASE t = "rtl_tb"
    <3>1. ExceptionIn[t][e] = <<>>
      BY <2>3 DEF ExceptionIn
    <3> QED BY <2>1, <3>1, NoText
  <2> QED BY <2>2, <2>3 DEF Targets
<1> QED BY <1>1, <1>2, <1>3, <1>4 DEF Frames, Irqs

Lcrs == [dlab : BOOLEAN, bits : {5, 8}]
HoldsLcr(o) == LcrWrite(o, Changes \cup {"restore"}) \/ Listens(o)

(* A context f in text s, when the line control register is l. *)
Frame(f, s, l) ==
  /\ f = [code |-> f.code, at |-> f.at, acc |-> f.acc, divisor |-> f.divisor]
  /\ f.code \in Frames /\ f.at \in 1 .. Len(s) + 1
  /\ f.at <= Len(s) =>
       /\ s[f.at].op = "divisor_lo" => l.dlab
       /\ HoldsLcr(s[f.at]) => f.acc \in Lcrs

(* It stands before an operation of application code. *)
InApp(f, s) == f.at <= Len(s) /\ s[f.at].op = "app"

(* It is about to write a character that it has polled for. *)
Poised(f, s) == IF f.at <= Len(s) /\ Sending(s[f.at]) THEN 1 ELSE 0

TextOf(n) == TextAt(stack[n].code, job, target, cause)

(* Main, whatever has stopped it for good, and one handler on top; a       *)
(* handler and an exception run with interrupts off.                       *)
Nesting ==
  /\ IsSeq(stack) /\ Len(stack) \in 1 .. 3
  /\ \A n \in 1 .. Len(stack) :
       /\ Frame(stack[n], TextOf(n), lcr)
       /\ n = 1 <=> stack[n].code = "main"
       /\ stack[n].code \in Irqs \cup {"exception"} => n = Len(stack) /\ ~mie
       /\ stack[n].code \in Irqs => stack[n].code \in KindsOf(job)
       /\ stack[n].code \in {"panic", "exception"} =>
            n = 2 /\ InApp(stack[1], TextOf(1))

(* The writes that are still to come of the two uppermost contexts have    *)
(* their place: whoever polls has seen an empty FIFO.                      *)
Waiting(n) == IF n > 0 THEN Poised(stack[n], TextOf(n)) ELSE 0

Queued ==
  IsSeq(fifo) /\ Len(fifo) + Waiting(Len(stack)) + Waiting(Len(stack) - 1) <= 2

BoardInv ==
  /\ job \in Jobs /\ target \in Targets /\ cause \in SUBSET Leds
  /\ ie \subseteq KindsOf(job) \cap Irqs
  /\ lcr \in Lcrs
  /\ Nesting /\ Queued

-----------------------------------------------------------------------------
(* One operation of the core: context f becomes g. *)

Here == TextOf(Len(stack))

Moved(f, g, s) ==
  /\ g = [code |-> f.code, at |-> g.at, acc |-> g.acc, divisor |-> g.divisor]
  /\ f.at \in 1 .. Len(s) /\ Arrives(s, f.at, g.at)

Moves(o, g) ==
  /\ stack' = [stack EXCEPT ![Len(stack)] = g]
  /\ Moved(Top, g, Here) /\ o = Here[Top.at]
  /\ UNCHANGED <<chosen, cause>>
  /\ o.op = "read_lcr" => g.acc = lcr
  /\ o.op \in {"write", "write_lcr"} => g.acc = Top.acc
  /\ lcr' = IF o.op = "write_lcr" THEN Lcr(o.how) ELSE lcr
  /\ \/ fifo' = fifo /\ (o.op = "poll_empty" => fifo = <<>>)
     \/ fifo' = <<>>
     \/ Sending(o) /\ \E c : fifo' = Append(fifo, c)
  /\ mie' = mie \/ o.op = "mie"
  /\ ie' \subseteq ie \/ (o.op = "irq" /\ ie' \subseteq ie \cup {o.irq})

(* What holds of the context on top. *)
LEMMA TopFacts ==
  ASSUME BoardInv
  PROVE  /\ Top = stack[Len(stack)] /\ Len(stack) \in Nat
         /\ Top.code \in Frames /\ Code = Here
         /\ Frame(Top, Here, lcr)
         /\ Text(Here, Kinds(Top.code, job))
         /\ Top.at \in Nat \ {0} /\ Len(Here) \in Nat
         /\ Running => Top.at \in 1 .. Len(Here) /\ Op = Here[Top.at]
<1>1. Top = stack[Len(stack)]
  BY DEF Top, Last
<1>2. Len(stack) \in 1 .. 3 /\ Len(stack) \in 1 .. Len(stack)
  BY DEF BoardInv, Nesting
<1>3. Frame(Top, Here, lcr)
  BY <1>1, <1>2 DEF BoardInv, Nesting, Here
<1>4. Top.code \in Frames /\ Top.at \in 1 .. Len(Here) + 1
  BY <1>3 DEF Frame
<1>5. Here = TextAt(Top.code, job, target, cause)
  BY <1>1 DEF Here, TextOf
<1>6. Code = Here
  BY <1>4, <1>5 DEF Code, TextAt, Frames
<1>7. Text(Here, Kinds(Top.code, job))
  BY <1>4, <1>5, Texts DEF BoardInv
<1>8. Len(Here) \in Nat
  <2>1. IsSeq(Here)
    BY <1>7 DEF Text, Part
  <2> QED BY <2>1, Joined
<1>9. Top.at \in Nat \ {0}
  BY <1>4, <1>8
<1>10. Running => Top.at \in 1 .. Len(Here) /\ Op = Here[Top.at]
  BY <1>6, <1>8, <1>9 DEF Running, Op
<1> QED BY <1>1, <1>2, <1>3, <1>4, <1>6, <1>7, <1>8, <1>9, <1>10

(* Going on to position t with accumulator x. *)
LEMMA Going ==
  ASSUME BoardInv, Running, NEW f, NEW t, Arrives(Here, Top.at, t),
         f = [Top EXCEPT !.at = t]
  PROVE  /\ Moved(Top, f, Here) /\ f.acc = Top.acc /\ f.at = t
         /\ (Continue(f) => stack' = [stack EXCEPT ![Len(stack)] = f])
<1>1. Top = [code |-> Top.code, at |-> Top.at, acc |-> Top.acc,
             divisor |-> Top.divisor]
  BY TopFacts DEF Frame
<1>2. PICK top : top = Top
  OBVIOUS
<1>3. /\ f = [code |-> top.code, at |-> f.at, acc |-> f.acc, divisor |-> f.divisor]
      /\ f.acc = top.acc /\ f.at = t
  BY <1>1, <1>2
<1> QED BY <1>2, <1>3, TopFacts DEF Moved, Continue

(* To the next operation. *)
LEMMA GoingOn ==
  ASSUME BoardInv, Running
  PROVE  /\ Arrives(Here, Top.at, Top.at + 1)
         /\ \A f : f = [Top EXCEPT !.at = Top.at + 1] =>
              Moved(Top, f, Here) /\ f.acc = Top.acc
         /\ NextOp => stack' = [stack EXCEPT ![Len(stack)] =
                                  [Top EXCEPT !.at = Top.at + 1]]
<1>1. Arrives(Here, Top.at, Top.at + 1)
  BY TopFacts, ArriveNext
<1>2. \A f : f = [Top EXCEPT !.at = Top.at + 1] =>
              Moved(Top, f, Here) /\ f.acc = Top.acc
  BY <1>1, Going
<1>3. Top.at + 1 + 0 = Top.at + 1
  BY TopFacts
<1> QED BY <1>1, <1>2, <1>3 DEF NextOp, Skip, Goto, Continue

(* To the next operation with another accumulator. *)
LEMMA Keeping ==
  ASSUME BoardInv, Running, NEW x, Keep(x)
  PROVE  \E f : /\ stack' = [stack EXCEPT ![Len(stack)] = f]
                /\ Moved(Top, f, Here) /\ f.acc = x
<1>1. Top = [code |-> Top.code, at |-> Top.at, acc |-> Top.acc,
             divisor |-> Top.divisor]
  BY TopFacts DEF Frame
<1>2. PICK top : top = Top
  OBVIOUS
<1>3. PICK f : f = [Top EXCEPT !.at = @ + 1, !.acc = x]
  OBVIOUS
<1>4. /\ f = [code |-> top.code, at |-> f.at, acc |-> f.acc, divisor |-> f.divisor]
      /\ f.acc = x /\ f.at = top.at + 1
  BY <1>1, <1>2, <1>3
<1>5. Arrives(Here, top.at, f.at)
  BY <1>2, <1>4, GoingOn
<1>6. Moved(Top, f, Here)
  BY <1>2, <1>4, <1>5, TopFacts DEF Moved
<1>7. stack' = [stack EXCEPT ![Len(stack)] = f]
  BY <1>3 DEF Keep, Continue
<1> QED BY <1>4, <1>6, <1>7

(* Every operation of Core is such a step. *)
LEMMA JumpingMoves == ASSUME BoardInv, Jumping PROVE \E g : Moves(Op, g)
<1> USE DEF Jumping
<1>1. /\ Running /\ UNCHANGED <<chosen, cause, lcr, fifo, mie, ie>>
      /\ Op.op \in {"back", "skip_if_init", "break", "until", "skip_unless_done"}
  BY DEF Perform, outside, irqs, uart
<1>2. Op = Here[Top.at] /\ Top.at \in 1 .. Len(Here) /\ Code = Here
  BY <1>1, TopFacts
<1>3. \A t : Arrives(Here, Top.at, t) /\ Goto(t) => \E g : Moves(Op, g)
  <2> SUFFICES ASSUME NEW t, Arrives(Here, Top.at, t), Goto(t)
               PROVE  \E g : Moves(Op, g)
    OBVIOUS
  <2>1. PICK f : f = [Top EXCEPT !.at = t]
    OBVIOUS
  <2>2. Moved(Top, f, Here) /\ f.acc = Top.acc
        /\ stack' = [stack EXCEPT ![Len(stack)] = f]
    BY <2>1, <1>1, Going DEF Goto
  <2>3. Moves(Op, f)
    BY <1>1, <1>2, <2>2 DEF Moves
  <2> QED BY <2>3
<1>4. Text(Here, Kinds(Top.code, job)) /\ Jumps(Here, Top.at)
  BY <1>2, TopFacts DEF Text, Part
<1>5. Top.at + 1 + 0 = Top.at + 1 /\ Top.at + 1 + 1 = Top.at + 2
  BY TopFacts
<1>6. Arrives(Here, Top.at, Top.at + 1)
  BY <1>1, GoingOn
<1>7. CASE Perform("back") /\ Goto(Top.at - Op.by)
  <2>1. Arrives(Here, Top.at, Top.at - Op.by)
    BY <1>2, <1>4, <1>7, ArriveThere DEF Perform, Jumps
  <2> QED BY <2>1, <1>3, <1>7
<1>8. CASE Perform("skip_if_init") /\ Skip(IF mem.is_init THEN Op.by ELSE 0)
  <2>1. Arrives(Here, Top.at, Top.at + 1 + Op.by)
    BY <1>2, <1>4, <1>8, ArriveThere DEF Perform, Jumps, Skips
  <2> QED BY <2>1, <1>3, <1>5, <1>6, <1>8 DEF Skip
<1>9. CASE Perform("until") /\ Skip(IF mem[Op.var] = Op.is THEN 1 ELSE 0)
  <2>1. Arrives(Here, Top.at, Top.at + 2)
    BY <1>2, <1>4, <1>9, ArriveThere DEF Perform, Jumps
  <2> QED BY <2>1, <1>3, <1>5, <1>6, <1>9 DEF Skip
<1>10. CASE /\ Perform("skip_unless_done")
            /\ LET done == Top.acc = CR \/ (Op.full /\ mem.buf = BufferSize)
               IN  Skip(IF done THEN 0 ELSE Op.by)
  <2>1. Arrives(Here, Top.at, Top.at + 1 + Op.by)
    BY <1>2, <1>4, <1>10, ArriveThere DEF Perform, Jumps, Skips
  <2> QED BY <2>1, <1>3, <1>5, <1>6, <1>10 DEF Skip
<1>11. CASE /\ Perform("break")
            /\ IF mem[Op.var] = Op.is
               THEN Goto(1 + CHOOSE n \in Top.at .. Len(Code) :
                               /\ Code[n].op = "back"
                               /\ \A k \in Top.at .. n - 1 : Code[k].op # "back")
               ELSE NextOp
  <2>1. PICK m : m = CHOOSE n \in Top.at .. Len(Code) :
                       /\ Code[n].op = "back"
                       /\ \A k \in Top.at .. n - 1 : Code[k].op # "back"
    OBVIOUS
  <2>2. Here[Top.at].op = "break"
    BY <1>2, <1>11 DEF Perform
  <2>3. PICK s : s = Here
    OBVIOUS
  <2>4. m = CHOOSE n \in Top.at .. Len(s) :
              s[n].op = "back" /\ \A k \in Top.at .. n - 1 : s[k].op # "back"
    BY <1>2, <2>1, <2>3
  <2>5. m \in 1 .. Len(Here) /\ Here[m].op = "back"
    BY <1>2, <1>4, <2>2, <2>3, <2>4, FirstBack
  <2>6. Arrives(Here, Top.at, 1 + m)
    BY <1>4, <2>5, ArriveBehind
  <2>7. Goto(1 + m) \/ Goto(Top.at + 1)
    <3>1. Goto(1 + m) \/ NextOp
      BY <2>1, <1>11
    <3> QED BY <3>1, <1>5 DEF NextOp, Skip
  <2> QED BY <2>6, <2>7, <1>3, <1>6
<1> QED BY <1>7, <1>8, <1>9, <1>10, <1>11

(* Operations that go on to the next one and leave these variables alone. *)
LEMMA PlainMoves ==
  ASSUME BoardInv, Running, NextOp, UNCHANGED <<chosen, cause, lcr, fifo>>,
         Op.op \notin {"read_lcr", "write_lcr"}, Op.op = "poll_empty" => fifo = <<>>,
         mie' = mie \/ Op.op = "mie",
         ie' \subseteq ie \/ (Op.op = "irq" /\ ie' \subseteq ie \cup {Op.irq})
  PROVE  \E g : Moves(Op, g)
<1>1. PICK f : f = [Top EXCEPT !.at = Top.at + 1]
  OBVIOUS
<1>2. /\ Moved(Top, f, Here) /\ f.acc = Top.acc
      /\ stack' = [stack EXCEPT ![Len(stack)] = f]
  BY <1>1, GoingOn
<1>3. Op = Here[Top.at]
  BY TopFacts
<1>4. Moves(Op, f)
  BY <1>2, <1>3 DEF Moves
<1> QED BY <1>4

LEMMA StoringMoves == ASSUME BoardInv, Storing PROVE \E g : Moves(Op, g)
<1>1. /\ Running /\ UNCHANGED <<chosen, cause, lcr, fifo, mie, ie>> /\ NextOp
      /\ Op.op \in {"set", "quit_if_q", "push", "clear_buffer"}
  BY DEF Storing, Perform, outside, irqs, uart
<1> QED BY <1>1, PlainMoves

LEMMA ConfiguringMoves == ASSUME BoardInv, Configuring PROVE \E g : Moves(Op, g)
<1>1. /\ Running /\ UNCHANGED <<chosen, cause, lcr, fifo>> /\ NextOp
      /\ Op.op \in {"mie", "irq", "alarm", "unpend", "divide"}
      /\ mie' = mie \/ Op.op = "mie"
      /\ ie' = ie \/ (Op.op = "irq" /\ (ie' = ie \cup {Op.irq} \/ ie' = ie \ {Op.irq}))
  BY DEF Configuring, Perform, uart
<1>2. ie' \subseteq ie \/ (Op.op = "irq" /\ ie' \subseteq ie \cup {Op.irq})
  BY <1>1
<1> QED BY <1>1, <1>2, PlainMoves

LEMMA GpioMoves ==
  ASSUME BoardInv, ReadGpio \/ WriteGpio PROVE \E g : Moves(Op, g)
<1>1. CASE WriteGpio
  <2>1. /\ Running /\ UNCHANGED <<chosen, cause, lcr, fifo, mie, ie>> /\ NextOp
        /\ Op.op = "write_gpio"
    BY <1>1 DEF WriteGpio, Perform, outside, irqs, uart
  <2> QED BY <2>1, PlainMoves
<1>2. CASE ReadGpio
  <2>1. /\ Running /\ UNCHANGED <<chosen, cause, lcr, fifo, mie, ie>>
        /\ Keep(gpio[Op.reg]) /\ Op.op = "read_gpio"
    BY <1>2 DEF ReadGpio, Perform, outside, irqs, uart
  <2>2. PICK f : stack' = [stack EXCEPT ![Len(stack)] = f] /\ Moved(Top, f, Here)
    BY <2>1, Keeping
  <2>3. Op = Here[Top.at]
    BY <2>1, TopFacts
  <2>4. Moves(Op, f)
    BY <2>1, <2>2, <2>3 DEF Moves
  <2> QED BY <2>4
<1> QED BY <1>1, <1>2

LEMMA LcrMoves ==
  ASSUME BoardInv, ReadLcr \/ WriteLcr PROVE \E g : Moves(Op, g)
<1>1. CASE ReadLcr
  <2>1. /\ Running /\ UNCHANGED <<chosen, cause, lcr, fifo, mie, ie>>
        /\ Keep(lcr) /\ Op.op = "read_lcr"
    BY <1>1 DEF ReadLcr, Perform, outside, irqs, uart
  <2>2. PICK f : /\ stack' = [stack EXCEPT ![Len(stack)] = f]
                 /\ Moved(Top, f, Here) /\ f.acc = lcr
    BY <2>1, Keeping
  <2>3. Op = Here[Top.at]
    BY <2>1, TopFacts
  <2>4. Moves(Op, f)
    BY <2>1, <2>2, <2>3 DEF Moves
  <2> QED BY <2>4
<1>2. CASE WriteLcr
  <2>1. /\ Running /\ UNCHANGED <<chosen, cause, fifo, mie, ie>> /\ NextOp
        /\ Op.op = "write_lcr" /\ lcr' = Lcr(Op.how)
    BY <1>2 DEF WriteLcr, Perform, outside, irqs
  <2>2. PICK f : f = [Top EXCEPT !.at = Top.at + 1]
    OBVIOUS
  <2>3. /\ Moved(Top, f, Here) /\ f.acc = Top.acc
        /\ stack' = [stack EXCEPT ![Len(stack)] = f]
    BY <2>1, <2>2, GoingOn
  <2>4. Op = Here[Top.at]
    BY <2>1, TopFacts
  <2>5. Moves(Op, f)
    BY <2>1, <2>3, <2>4 DEF Moves
  <2> QED BY <2>5
<1> QED BY <1>1, <1>2

LEMMA WriteIerMoves == ASSUME BoardInv, WriteIer PROVE \E g : Moves(Op, g)
<1>1. /\ Running /\ UNCHANGED <<chosen, cause, lcr, fifo, mie, ie>> /\ NextOp
      /\ Op.op \in {"write", "divisor_hi"}
  BY DEF WriteIer, WriteIerDlm, Perform
<1> QED BY <1>1, PlainMoves

LEMMA WriteCharMoves == ASSUME BoardInv, WriteChar PROVE \E g : Moves(Op, g)
<1>1. PICK c : WriteThrDll(c)
  BY DEF WriteChar
<1>2. /\ Running /\ UNCHANGED <<chosen, cause, lcr, mie, ie>> /\ NextOp
      /\ Sending(Op) \/ Op.op = "divisor_lo"
  BY <1>1 DEF WriteChar, WriteThrDll, Perform, Sending, outside, irqs
<1>3. fifo' = fifo \/ (fifo' = Append(fifo, c) /\ ~lcr.dlab)
  BY <1>1 DEF WriteThrDll
<1>4. Op = Here[Top.at] /\ Top.at <= Len(Here)
  BY <1>2, TopFacts
<1>5. Op.op = "divisor_lo" => lcr.dlab
  BY <1>4, TopFacts DEF Frame
<1>6. fifo' = fifo \/ (Sending(Op) /\ fifo' = Append(fifo, c))
  BY <1>2, <1>3, <1>5
<1>7. Op.op \in {"write", "write_acc", "divisor_lo"}
  BY <1>2 DEF Sending
<1>8. PICK f : f = [Top EXCEPT !.at = Top.at + 1]
  OBVIOUS
<1>9. /\ Moved(Top, f, Here) /\ f.acc = Top.acc
      /\ stack' = [stack EXCEPT ![Len(stack)] = f]
  BY <1>2, <1>8, GoingOn
<1>10. Moves(Op, f)
  BY <1>2, <1>4, <1>6, <1>7, <1>9 DEF Moves
<1> QED BY <1>10

LEMMA ComputeMoves == ASSUME BoardInv, ComputeDivisor PROVE \E g : Moves(Op, g)
<1>1. PICK d : stack' = [stack EXCEPT ![Len(stack)] =
                           [Top EXCEPT !.at = @ + 1, !.divisor = d]]
  BY DEF ComputeDivisor, Continue
<1>2. /\ Running /\ UNCHANGED <<chosen, cause, lcr, fifo, mie, ie>>
      /\ Op.op = "divisor"
  BY DEF ComputeDivisor, Perform, outside, irqs, uart
<1>3. Top = [code |-> Top.code, at |-> Top.at, acc |-> Top.acc,
             divisor |-> Top.divisor]
  BY TopFacts DEF Frame
<1>4. PICK top : top = Top
  OBVIOUS
<1>5. PICK f : f = [Top EXCEPT !.at = @ + 1, !.divisor = d]
  OBVIOUS
<1>6. /\ f = [code |-> top.code, at |-> f.at, acc |-> f.acc, divisor |-> f.divisor]
      /\ f.acc = top.acc /\ f.at = top.at + 1
  BY <1>3, <1>4, <1>5
<1>7. Moved(Top, f, Here)
  BY <1>2, <1>4, <1>6, GoingOn, TopFacts DEF Moved
<1>8. Moves(Op, f)
  BY <1>1, <1>2, <1>5, <1>7, TopFacts DEF Moves
<1> QED BY <1>8

LEMMA FifoMoves ==
  ASSUME BoardInv, ClearFifos \/ Poll \/ ReadChar PROVE \E g : Moves(Op, g)
<1>1. CASE ClearFifos
  <2>1. /\ Running /\ UNCHANGED <<chosen, cause, lcr, mie, ie>> /\ NextOp
        /\ Op.op = "clear_fifos" /\ fifo' = <<>>
    BY <1>1 DEF ClearFifos, Perform
  <2>2. PICK f : f = [Top EXCEPT !.at = Top.at + 1]
    OBVIOUS
  <2>3. /\ Moved(Top, f, Here) /\ f.acc = Top.acc
        /\ stack' = [stack EXCEPT ![Len(stack)] = f]
    BY <2>1, <2>2, GoingOn
  <2>4. Moves(Op, f)
    BY <2>1, <2>3, TopFacts DEF Moves
  <2> QED BY <2>4
<1>2. CASE Poll
  <2>1. /\ Running /\ UNCHANGED <<chosen, cause, lcr, fifo, mie, ie>> /\ NextOp
        /\ Op.op \in {"poll_empty", "poll_data"} /\ (Op.op = "poll_empty" => fifo = <<>>)
    BY <1>2 DEF Poll, Perform, outside, irqs, uart
  <2> QED BY <2>1, PlainMoves
<1>3. CASE ReadChar
  <2>1. /\ Running /\ UNCHANGED <<chosen, cause, lcr, fifo, mie, ie>>
        /\ Keep(Head(rx)) /\ Op.op = "read"
    BY <1>3 DEF ReadChar, Perform
  <2>2. PICK f : stack' = [stack EXCEPT ![Len(stack)] = f] /\ Moved(Top, f, Here)
    BY <2>1, Keeping
  <2>3. Moves(Op, f)
    BY <2>1, <2>2, TopFacts DEF Moves
  <2> QED BY <2>3
<1> QED BY <1>1, <1>2, <1>3

-----------------------------------------------------------------------------
(* Such a step keeps the invariant. *)

WithTop(q, g) == [q EXCEPT ![Len(q)] = g]

(* Only the context on top changes. *)
LEMMA Replaced ==
  ASSUME NEW q, IsSeq(q), NEW g, Len(q) > 0
  PROVE  /\ IsSeq(WithTop(q, g)) /\ Len(WithTop(q, g)) = Len(q)
         /\ WithTop(q, g)[Len(q)] = g
         /\ \A n \in 1 .. Len(q) - 1 : WithTop(q, g)[n] = q[n]
<1>0. PICK r : r = WithTop(q, g)
  OBVIOUS
<1>1. PICK S : S = {q[n] : n \in 1 .. Len(q)} \cup {g}
  OBVIOUS
<1>2. q \in Seq(S) /\ Len(q) \in Nat
  <2>1. PICK T : T = {q[n] : n \in 1 .. Len(q)}
    OBVIOUS
  <2>2. q \in Seq(T) /\ T \subseteq S
    BY <1>1, <2>1 DEF IsSeq
  <2> QED BY <2>2
<1>3. PICK l : l = Len(q)
  OBVIOUS
<1>4. /\ r \in Seq(S) /\ Len(r) = l /\ r[l] = g
      /\ \A n \in 1 .. l - 1 : r[n] = q[n]
  <2>1. g \in S /\ l \in 1 .. l
    BY <1>1, <1>2, <1>3
  <2>2. r = [q EXCEPT ![l] = g]
    BY <1>0, <1>3 DEF WithTop
  <2>3. r \in Seq(S) /\ Len(r) = l
    BY <1>2, <1>3, <2>1, <2>2
  <2>4. DOMAIN q = 1 .. l
    BY <1>2, <1>3
  <2> QED BY <1>2, <1>3, <2>1, <2>2, <2>3, <2>4
<1> QED BY <1>0, <1>3, <1>4, IsSeqIntro

LEMMA PoisedIs == \A f, s : Poised(f, s) \in {0, 1}
  BY DEF Poised

(* Each of two contexts waits to write at most one character. *)
LEMMA QueueFacts ==
  ASSUME BoardInv
  PROVE  /\ Len(fifo) \in Nat /\ \A n : Waiting(n) \in {0, 1}
         /\ Waiting(Len(stack)) = Poised(Top, Here)
<1>1. Len(fifo) \in Nat
  BY Joined DEF BoardInv, Queued
<1>2. \A n : Waiting(n) \in {0, 1}
  BY PoisedIs DEF Waiting
<1>3. Len(stack) > 0
  BY DEF BoardInv, Nesting
<1> QED BY <1>1, <1>2, <1>3, TopFacts DEF Waiting, Here

(* The line control register is only written with what was read from it. *)
LEMMA MovesLcr ==
  ASSUME BoardInv, NEW o, NEW g, Moves(o, g)
  PROVE  /\ lcr' \in Lcrs
         /\ LcrWrite(o, {"dlab_on", "dlab"}) => lcr'.dlab
<1>1. o = Here[Top.at] /\ Top.at \in 1 .. Len(Here) /\ Top.at <= Len(Here)
  BY TopFacts DEF Moves, Moved
<1>2. CASE o.op # "write_lcr"
  BY <1>2 DEF Moves, BoardInv, LcrWrite
<1>3. CASE o.op = "write_lcr"
  <2>1. lcr' = Lcr(o.how)
    BY <1>3 DEF Moves
  <2>2. CASE o.how \in {"bits8", "dlab"}
    BY <2>1, <2>2 DEF Lcr, Lcrs, LcrWrite
  <2>3. CASE o.how \notin {"bits8", "dlab"}
    <3>1. Bound(o)
      BY <1>3, <2>3 DEF Bound
    <3>2. Follows(o, Here[Top.at - 1])
      BY <1>1, <3>1, TopFacts DEF Text, Part
    <3>3. LcrWrite(o, Changes \cup {"restore"})
      BY <1>3, <3>2 DEF Follows, Sending, LcrWrite, Listens
    <3>4. Top.acc \in Lcrs
      BY <1>1, <3>3, TopFacts DEF Frame, HoldsLcr
    <3>5. o.how \in {"dlab_on", "dlab_off", "only_dlab", "restore"}
      BY <3>3 DEF LcrWrite, Changes
    <3>6. PICK a : a = Top.acc
      OBVIOUS
    <3>7. lcr' \in {[a EXCEPT !.dlab = TRUE], [a EXCEPT !.dlab = FALSE],
                    [a EXCEPT !.bits = 5], a}
          /\ (o.how = "dlab_on" => lcr' = [a EXCEPT !.dlab = TRUE])
      BY <2>1, <3>5, <3>6 DEF Lcr
    <3>8. a \in Lcrs
      BY <3>4, <3>6
    <3> QED BY <2>3, <3>7, <3>8 DEF Lcrs, LcrWrite
  <2> QED BY <2>2, <2>3
<1> QED BY <1>2, <1>3

(* The line control register is not touched while a handler runs or while *)
(* main could still use it.                                                *)
LEMMA OnlyUser ==
  ASSUME BoardInv, NEW o, NEW g, Moves(o, g), o.op = "write_lcr",
         NEW n \in 1 .. Len(stack) - 1
  PROVE  InApp(stack[n], TextOf(n))
<1>1. o = Here[Top.at] /\ Top.at \in 1 .. Len(Here)
  BY DEF Moves, Moved
<1>2. o.op \in Kinds(Top.code, job)
  BY <1>1, TopFacts DEF Text, Part, Uses
<1>3. Top.code \notin Irqs
  BY <1>2 DEF Kinds, Handling, Irqs
<1>4. Len(stack) \in 1 .. 3 /\ Len(stack) # 1 /\ Top = stack[Len(stack)]
  BY TopFacts DEF BoardInv, Nesting
<1>5. Top.code # "main" /\ Top.code \in Frames
  BY <1>4, TopFacts DEF BoardInv, Nesting
<1>6. Top.code \in {"panic", "exception"}
  BY <1>3, <1>5 DEF Frames, Irqs
<1>7. Len(stack) = 2 /\ InApp(stack[1], TextOf(1))
  BY <1>4, <1>6 DEF BoardInv, Nesting
<1> QED BY <1>7

(* The context on top is where it may be. *)
LEMMA MovesFrame ==
  ASSUME BoardInv, NEW o, NEW g, Moves(o, g)
  PROVE  Frame(g, Here, lcr')
<1>1. /\ o = Here[Top.at] /\ Top.at \in 1 .. Len(Here) /\ Top.at <= Len(Here)
      /\ Arrives(Here, Top.at, g.at)
      /\ g = [code |-> g.code, at |-> g.at, acc |-> g.acc, divisor |-> g.divisor]
      /\ g.code = Top.code
  BY TopFacts DEF Moves, Moved
<1>2. PICK s : s = Here
  OBVIOUS
<1>3. ASSUME g.at <= Len(s)
      PROVE  /\ s[g.at].op = "divisor_lo" => lcr'.dlab
             /\ HoldsLcr(s[g.at]) => g.acc \in Lcrs
  <2>1. PICK p : p = s[g.at]
    OBVIOUS
  <2>2. ASSUME p.op = "divisor_lo" PROVE lcr'.dlab
    <3>1. Bound(p)
      BY <2>2 DEF Bound
    <3>2. Follows(p, o)
      BY <1>1, <1>2, <1>3, <2>1, <3>1 DEF Arrives
    <3>3. LcrWrite(o, {"dlab_on", "dlab"})
      BY <2>2, <3>2 DEF Follows, Sending, LcrWrite, Listens
    <3> QED BY <3>3, MovesLcr
  <2>3. ASSUME HoldsLcr(p) PROVE g.acc \in Lcrs
    <3>1. Bound(p)
      BY <2>3 DEF Bound, HoldsLcr, LcrWrite, Changes
    <3>2. Follows(p, o)
      BY <1>1, <1>2, <1>3, <2>1, <3>1 DEF Arrives
    <3>3. o.op = "read_lcr" \/ HoldsLcr(o)
      BY <2>3, <3>2 DEF Follows, Sending, HoldsLcr, LcrWrite, Listens, Changes
    <3>4. CASE o.op = "read_lcr"
      BY <3>4 DEF Moves, BoardInv
    <3>5. CASE HoldsLcr(o)
      <4>1. Top.acc \in Lcrs
        BY <1>1, <3>5, TopFacts DEF Frame
      <4>2. g.acc = Top.acc
        BY <3>5 DEF Moves, HoldsLcr, LcrWrite, Listens
      <4> QED BY <4>1, <4>2
    <3> QED BY <3>3, <3>4, <3>5
  <2> QED BY <2>1, <2>2, <2>3
<1>4. g.at \in 1 .. Len(s) + 1
  BY <1>1, <1>2 DEF Arrives
<1> QED BY <1>1, <1>2, <1>3, <1>4, TopFacts DEF Frame

(* A character is only added by a context that has polled for it, and *)
(* whoever polls finds the FIFO empty.                                *)
LEMMA MovesQueue ==
  ASSUME BoardInv, NEW o, NEW g, Moves(o, g)
  PROVE  /\ IsSeq(fifo')
         /\ Len(fifo') + Poised(g, Here) + Waiting(Len(stack) - 1) <= 2
<1>1. /\ o = Here[Top.at] /\ Top.at \in 1 .. Len(Here) /\ Top.at <= Len(Here)
      /\ Arrives(Here, Top.at, g.at)
  BY TopFacts DEF Moves, Moved
<1>2. PICK w : w = Waiting(Len(stack) - 1)
  OBVIOUS
<1>3. PICK p : p = Poised(g, Here)
  OBVIOUS
<1>4. PICK l : l = Len(fifo)
  OBVIOUS
<1>5. /\ w \in {0, 1} /\ p \in {0, 1} /\ l \in Nat
      /\ l + Poised(Top, Here) + w <= 2
  BY <1>2, <1>3, <1>4, QueueFacts, PoisedIs DEF BoardInv, Queued
<1>6. p = 1 => o.op = "poll_empty"
  <2>1. ASSUME p = 1 PROVE o.op = "poll_empty"
    <3>1. g.at <= Len(Here) /\ Sending(Here[g.at])
      BY <1>3, <2>1 DEF Poised
    <3>2. Follows(Here[g.at], o)
      BY <1>1, <3>1 DEF Arrives, Bound
    <3> QED BY <3>1, <3>2 DEF Follows, Sending, LcrWrite, Listens
  <2> QED BY <2>1
<1>7. IsSeq(fifo) /\ IsSeq(<<>>) /\ Len(<<>>) = 0
  BY DEF BoardInv, Queued, IsSeq
<1>8. \/ fifo' = fifo /\ (o.op = "poll_empty" => fifo = <<>>)
      \/ fifo' = <<>>
      \/ Sending(o) /\ \E c : fifo' = Append(fifo, c)
  BY DEF Moves
<1>9. CASE fifo' = fifo /\ (o.op = "poll_empty" => fifo = <<>>)
  <2>1. Len(fifo') = l /\ (p = 1 => l = 0)
    BY <1>4, <1>6, <1>7, <1>9
  <2>2. Poised(Top, Here) \in {0, 1}
    BY PoisedIs
  <2>3. l + p + w <= 2
    BY <1>5, <2>1, <2>2
  <2> QED BY <1>2, <1>3, <1>7, <1>9, <2>1, <2>3
<1>10. CASE fifo' = <<>>
  <2>1. 0 + p + w <= 2
    BY <1>5
  <2> QED BY <1>2, <1>3, <1>7, <1>10, <2>1
<1>11. CASE Sending(o) /\ \E c : fifo' = Append(fifo, c)
  <2>1. p = 0
    BY <1>5, <1>6, <1>11 DEF Sending
  <2>2. Poised(Top, Here) = 1
    BY <1>1, <1>11 DEF Poised
  <2>3. PICK c : fifo' = Append(fifo, c)
    BY <1>11
  <2>4. IsSeq(fifo') /\ Len(fifo') = l + 1
    <3>1. PICK S : S = {fifo[n] : n \in 1 .. Len(fifo)} \cup {c}
      OBVIOUS
    <3>2. fifo \in Seq(S) /\ c \in S
      <4>1. PICK T : T = {fifo[n] : n \in 1 .. Len(fifo)}
        OBVIOUS
      <4>2. fifo \in Seq(T) /\ T \subseteq S
        BY <1>7, <3>1, <4>1 DEF IsSeq
      <4> QED BY <3>1, <4>2
    <3>3. fifo' \in Seq(S) /\ Len(fifo') = l + 1
      BY <1>4, <2>3, <3>2, AppendProperties
    <3> QED BY <3>3, IsSeqIntro
  <2>5. (l + 1) + p + w <= 2
    BY <1>5, <2>1, <2>2
  <2> QED BY <1>2, <1>3, <2>4, <2>5
<1> QED BY <1>8, <1>9, <1>10, <1>11

(* So a step of the context on top keeps the invariant. *)
LEMMA MovesStep ==
  ASSUME BoardInv, NEW o, NEW g, Moves(o, g)
  PROVE  BoardInv'
<1>1. PICK l : l = Len(stack)
  OBVIOUS
<1>2. l \in 1 .. 3 /\ IsSeq(stack)
  BY <1>1 DEF BoardInv, Nesting
<1>3. /\ IsSeq(stack') /\ Len(stack') = l /\ stack'[l] = g
      /\ \A n \in 1 .. l - 1 : stack'[n] = stack[n]
  <2>1. stack' = WithTop(stack, g) /\ Len(stack) > 0
    BY <1>1, <1>2 DEF Moves, WithTop
  <2>2. PICK r : r = stack'
    OBVIOUS
  <2>3. /\ IsSeq(r) /\ Len(r) = Len(stack) /\ r[Len(stack)] = g
        /\ \A n \in 1 .. Len(stack) - 1 : r[n] = stack[n]
    BY <1>2, <2>1, <2>2, Replaced
  <2> QED BY <1>1, <2>2, <2>3
<1>4. g.code = Top.code /\ Top = stack[l]
  BY <1>1, TopFacts DEF Moves, Moved
<1>5. UNCHANGED <<job, target, cause>>
  BY DEF Moves, chosen
<1>6. ASSUME NEW n \in 1 .. l
      PROVE  TextOf(n)' = TextOf(n) /\ stack'[n].code = stack[n].code
  <2>1. CASE n = l
    BY <2>1, <1>3, <1>4, <1>5 DEF TextOf
  <2>2. CASE n \in 1 .. l - 1
    BY <2>2, <1>3, <1>5 DEF TextOf
  <2> QED BY <2>1, <2>2, <1>2
<1>7. lcr' \in Lcrs
  BY MovesLcr
<1>8. ASSUME NEW n \in 1 .. l PROVE Frame(stack'[n], TextOf(n), lcr')
  <2>1. CASE n = l
    BY <2>1, <1>1, <1>3, MovesFrame DEF Here
  <2>2. CASE n \in 1 .. l - 1
    <3>1. Frame(stack[n], TextOf(n), lcr)
      BY <1>1, <1>2 DEF BoardInv, Nesting
    <3>2. stack'[n] = stack[n]
      BY <2>2, <1>3
    <3>3. CASE o.op = "write_lcr"
      <4>1. InApp(stack[n], TextOf(n))
        BY <1>1, <2>2, <3>3, OnlyUser
      <4> QED BY <3>1, <3>2, <4>1 DEF Frame, InApp
    <3>4. CASE o.op # "write_lcr"
      BY <3>1, <3>2, <3>4 DEF Moves
    <3> QED BY <3>3, <3>4
  <2> QED BY <2>1, <2>2, <1>2
<1>9. o = Here[Top.at] /\ Top.at \in 1 .. Len(Here) /\ o.op \in Kinds(Top.code, job)
      /\ (o.op = "irq" => o.irq \in Kinds(Top.code, job) \cap Irqs)
  BY TopFacts DEF Moves, Moved, Text, Part, Uses
<1>10. o.op \in {"mie", "irq"} => Top.code = "main"
  BY <1>9, TopFacts DEF Kinds, Handling, Service, Irqs, Frames
<1>11. ASSUME NEW n \in 1 .. l, stack[n].code \in Irqs \cup {"exception"}
       PROVE  n = l /\ ~mie'
  <2>1. n = l /\ ~mie /\ stack[n].code # "main"
    BY <1>1, <1>11 DEF BoardInv, Nesting, Irqs
  <2>2. o.op # "mie"
    BY <2>1, <1>4, <1>10
  <2> QED BY <2>1, <2>2 DEF Moves
<1>12. ASSUME NEW n \in 1 .. l, stack[n].code \in {"panic", "exception"}
       PROVE  n = 2 /\ InApp(stack'[1], TextOf(1))
  <2>1. n = 2 /\ InApp(stack[1], TextOf(1))
    BY <1>1, <1>12 DEF BoardInv, Nesting
  <2>2. 1 \in 1 .. l - 1
    BY <2>1, <1>2
  <2> QED BY <2>1, <2>2, <1>3
<1>13. \A n \in 1 .. l :
         /\ n = 1 <=> stack[n].code = "main"
         /\ stack[n].code \in Irqs => stack[n].code \in KindsOf(job)
  BY <1>1 DEF BoardInv, Nesting
<1>14. Nesting'
  <2>1. TextOf(1)' = TextOf(1)
    BY <1>2, <1>6
  <2>2. \A n \in 1 .. l :
           /\ Frame(stack'[n], TextOf(n)', lcr')
           /\ n = 1 <=> stack'[n].code = "main"
           /\ stack'[n].code \in Irqs \cup {"exception"} => n = l /\ ~mie'
           /\ stack'[n].code \in Irqs => stack'[n].code \in KindsOf(job')
           /\ stack'[n].code \in {"panic", "exception"} =>
                n = 2 /\ InApp(stack'[1], TextOf(1)')
    BY <2>1, <1>5, <1>6, <1>8, <1>11, <1>12, <1>13
  <2> QED BY <2>2, <1>2, <1>3 DEF Nesting
<1>15. Queued'
  <2>1. Waiting(l)' = Poised(g, Here)
    BY <1>1, <1>2, <1>3, <1>6 DEF Waiting, Here
  <2>2. Waiting(l - 1)' = Waiting(l - 1)
    <3>1. CASE l = 1
      BY <3>1 DEF Waiting
    <3>2. CASE l > 1
      <4>1. PICK k : k = l - 1
        OBVIOUS
      <4>2. k \in 1 .. l - 1 /\ k \in 1 .. l
        BY <1>2, <3>2, <4>1
      <4>3. Waiting(k)' = Waiting(k)
        BY <1>3, <1>6, <4>2 DEF Waiting
      <4> QED BY <4>1, <4>3
    <3> QED BY <1>2, <3>1, <3>2
  <2>3. Len(stack') = l
    BY <1>3
  <2>4. Waiting(Len(stack))' = Waiting(l)' /\ Waiting(Len(stack) - 1)' = Waiting(l - 1)'
    BY <2>3 DEF Waiting, TextOf
  <2> QED BY <2>1, <2>2, <2>4, <1>1, MovesQueue DEF Queued
<1>16. ie' \subseteq KindsOf(job) \cap Irqs
  <2>1. CASE ie' \subseteq ie
    BY <2>1 DEF BoardInv
  <2>2. CASE o.op = "irq" /\ ie' \subseteq ie \cup {o.irq}
    <3>1. o.irq \in KindsOf(job) \cap Irqs
      BY <2>2, <1>9, <1>10 DEF Kinds, Irqs
    <3> QED BY <2>2, <3>1 DEF BoardInv
  <2> QED BY <2>1, <2>2 DEF Moves
<1> QED BY <1>5, <1>7, <1>14, <1>15, <1>16 DEF BoardInv

-----------------------------------------------------------------------------
(* A context more, and one less. *)

LEMMA Appended ==
  ASSUME NEW q, IsSeq(q), NEW g
  PROVE  /\ IsSeq(Append(q, g)) /\ Len(Append(q, g)) = Len(q) + 1
         /\ Append(q, g)[Len(q) + 1] = g
         /\ \A n \in 1 .. Len(q) : Append(q, g)[n] = q[n]
<1>1. PICK S : S = {q[n] : n \in 1 .. Len(q)} \cup {g}
  OBVIOUS
<1>2. q \in Seq(S) /\ g \in S
  <2>1. PICK T : T = {q[n] : n \in 1 .. Len(q)}
    OBVIOUS
  <2>2. q \in Seq(T) /\ T \subseteq S
    BY <1>1, <2>1 DEF IsSeq
  <2> QED BY <1>1, <2>2
<1>3. /\ Append(q, g) \in Seq(S)
      /\ Len(Append(q, g)) = Len(q) + 1
      /\ \A n \in 1 .. Len(q) : Append(q, g)[n] = q[n]
      /\ Append(q, g)[Len(q) + 1] = g
  BY <1>2, AppendProperties
<1> QED BY <1>3, IsSeqIntro

LEMMA Fronted ==
  ASSUME NEW q, IsSeq(q), Len(q) > 0
  PROVE  /\ IsSeq(Front(q)) /\ Len(Front(q)) = Len(q) - 1
         /\ \A n \in 1 .. Len(q) - 1 : Front(q)[n] = q[n]
<1>1. PICK S : S = {q[n] : n \in 1 .. Len(q)}
  OBVIOUS
<1>2. q \in Seq(S) /\ Len(q) \in Nat
  BY <1>1 DEF IsSeq
<1>3. PICK m : m = Len(q) - 1
  OBVIOUS
<1>4. m \in Nat /\ m <= Len(q)
  BY <1>2, <1>3
<1>5. PICK r : r = SubSeq(q, 1, m)
  OBVIOUS
<1>6. r \in Seq(S) /\ Len(r) = m /\ \A n \in 1 .. m : r[n] = q[n]
  BY <1>2, <1>4, <1>5
<1>7. Front(q) = r
  BY <1>3, <1>5 DEF Front
<1> QED BY <1>3, <1>6, <1>7, IsSeqIntro

(* A new context waits for nothing. *)
LEMMA Fresh ==
  ASSUME NEW K, NEW s, Text(s, K), NEW c \in Frames, NEW l
  PROVE  Frame(Start(c), s, l) /\ Poised(Start(c), s) = 0 /\ Start(c).code = c
<1>1. PICK f : f = Start(c)
  OBVIOUS
<1>2. /\ f = [code |-> f.code, at |-> f.at, acc |-> f.acc, divisor |-> f.divisor]
      /\ f.code = c /\ f.at = 1
  BY <1>1 DEF Start
<1>3. Len(s) \in Nat
  <2>1. IsSeq(s)
    BY DEF Text, Part
  <2> QED BY <2>1, Joined
<1>4. 1 <= Len(s) => ~Bound(s[1])
  BY <1>3 DEF Text, Part
<1>5. Frame(f, s, l)
  BY <1>2, <1>3, <1>4 DEF Frame, Bound, HoldsLcr, LcrWrite, Changes
<1>6. Poised(f, s) = 0
  BY <1>2, <1>4 DEF Poised, Bound
<1> QED BY <1>1, <1>2, <1>5, <1>6

(* Application code goes on, or is stopped for good by a fault. *)
LEMMA AppStep == ASSUME BoardInv, App PROVE BoardInv'
<1>1. Running /\ Op.op = "app" /\ UNCHANGED <<chosen, ie, lcr, fifo>>
  BY DEF App, Perform, uart
<1>2. Op = Here[Top.at] /\ Top.at \in 1 .. Len(Here) /\ Top.at <= Len(Here)
  BY <1>1, TopFacts
<1>3. Op.op \in Kinds(Top.code, job)
  BY <1>2, TopFacts DEF Text, Part, Uses
<1>4. Top.code = "main"
  BY <1>1, <1>3, TopFacts DEF Kinds, Handling, Service, Irqs, Frames
<1>5. Len(stack) = 1 /\ stack[1] = Top
  <2>1. Len(stack) \in 1 .. Len(stack) /\ Top = stack[Len(stack)]
    BY TopFacts DEF BoardInv, Nesting
  <2> QED BY <1>4, <2>1 DEF BoardInv, Nesting
<1>6. InApp(stack[1], TextOf(1))
  BY <1>1, <1>2, <1>5 DEF InApp, Here
<1>7. UNCHANGED <<job, target>>
  BY <1>1 DEF chosen
<1>8. CASE NextOp /\ UNCHANGED <<mie, fault, cause>>
  <2>1. \E g : Moves(Op, g)
    BY <1>1, <1>8, PlainMoves
  <2> QED BY <2>1, MovesStep
<1>9. ASSUME NEW c \in {"panic", "exception"}, stack' = Append(stack, Start(c)),
             cause' \in SUBSET Leds, c = "exception" => ~mie'
      PROVE  BoardInv'
  <2>1. /\ IsSeq(stack') /\ Len(stack') = 2
        /\ stack'[1] = stack[1] /\ stack'[2] = Start(c)
    <3>1. IsSeq(stack) /\ 1 \in 1 .. Len(stack)
      BY <1>5 DEF BoardInv, Nesting
    <3>2. PICK g : g = Start(c)
      OBVIOUS
    <3>3. PICK l : l = Len(stack)
      OBVIOUS
    <3>4. /\ IsSeq(Append(stack, g)) /\ Len(Append(stack, g)) = l + 1
          /\ Append(stack, g)[l + 1] = g
          /\ \A n \in 1 .. l : Append(stack, g)[n] = stack[n]
      BY <3>1, <3>3, Appended
    <3>5. stack' = Append(stack, g) /\ l = 1
      BY <1>5, <1>9, <3>2, <3>3
    <3>6. IsSeq(stack') /\ Len(stack') = l + 1 /\ stack'[l + 1] = g
          /\ \A n \in 1 .. l : stack'[n] = stack[n]
      BY <3>4, <3>5
    <3>7. l + 1 = 2 /\ 1 \in 1 .. l
      BY <3>5
    <3> QED BY <3>2, <3>6, <3>7
  <2>2. TextOf(1)' = TextOf(1)
    BY <1>4, <1>5, <1>7, <2>1 DEF TextOf, TextAt
  <2>3. PICK s : s = TextOf(2)'
    OBVIOUS
  <2>4. Start(c).code = c
    BY DEF Start
  <2>5. s = TextAt(c, job', target', cause')
    BY <2>1, <2>3, <2>4 DEF TextOf
  <2>6. c \in Frames /\ job' \in Jobs /\ target' \in Targets
    BY <1>7 DEF BoardInv, Frames
  <2>7. Text(s, Kinds(c, job'))
    BY <1>9, <2>5, <2>6, Texts
  <2>8. Frame(Start(c), s, lcr') /\ Poised(Start(c), s) = 0
    BY <2>6, <2>7, Fresh
  <2>9. Frame(stack[1], TextOf(1), lcr)
    BY <1>5 DEF BoardInv, Nesting
  <2>10. Nesting'
    <3>1. \A n \in 1 .. 2 : n = 1 \/ n = 2
      OBVIOUS
    <3>2. /\ Frame(stack'[1], TextOf(1)', lcr')
          /\ Frame(stack'[2], TextOf(2)', lcr')
      BY <1>1, <2>1, <2>2, <2>3, <2>8, <2>9
    <3>3. stack'[1].code = "main" /\ stack'[2].code = c
      BY <1>4, <1>5, <2>1, <2>4
    <3>4. InApp(stack'[1], TextOf(1)')
      BY <1>6, <2>1, <2>2
    <3>5. c # "main" /\ c \notin Irqs /\ "main" \notin Irqs \cup {"panic", "exception"}
      BY DEF Irqs
    <3>6. \A n \in 1 .. 2 :
             /\ Frame(stack'[n], TextOf(n)', lcr')
             /\ n = 1 <=> stack'[n].code = "main"
             /\ stack'[n].code \in Irqs \cup {"exception"} => n = 2 /\ ~mie'
             /\ stack'[n].code \in Irqs => stack'[n].code \in KindsOf(job')
             /\ stack'[n].code \in {"panic", "exception"} =>
                  n = 2 /\ InApp(stack'[1], TextOf(1)')
      BY <1>9, <3>1, <3>2, <3>3, <3>4, <3>5
    <3> QED BY <2>1, <3>6 DEF Nesting
  <2>11. Queued'
    <3>1. Waiting(2)' = 0
      BY <2>1, <2>3, <2>8 DEF Waiting
    <3>2. Waiting(1)' = Waiting(1)
      BY <2>1, <2>2 DEF Waiting
    <3>3. Waiting(Len(stack))' = Waiting(2)' /\ Waiting(Len(stack) - 1)' = Waiting(1)'
      BY <2>1 DEF Waiting, TextOf
    <3>4. Len(fifo) + Waiting(1) + Waiting(0) <= 2 /\ Waiting(0) = 0
      BY <1>5 DEF BoardInv, Queued, Waiting
    <3>5. Len(fifo) \in Nat /\ Waiting(1) \in {0, 1}
      BY QueueFacts
    <3>6. Len(fifo) + 0 + Waiting(1) <= 2
      BY <3>4, <3>5
    <3> QED BY <1>1, <3>1, <3>2, <3>3, <3>6 DEF Queued, BoardInv
  <2> QED BY <1>1, <1>7, <1>9, <2>10, <2>11 DEF BoardInv
<1>10. CASE fault' = "panic" /\ stack' = Append(stack, Start("panic"))
            /\ UNCHANGED <<mie, cause>>
  BY <1>9, <1>10 DEF BoardInv
<1>11. CASE /\ fault' = "exception" /\ cause' \in Codes
            /\ stack' = Append(stack, Start("exception"))
            /\ mie' = FALSE
  BY <1>9, <1>11, BoardAssumption
<1> QED BY <1>8, <1>10, <1>11 DEF App

(* An interrupt: main or the panic handler is left where it can go on. *)
LEMMA TakeStep == ASSUME BoardInv, Take PROVE BoardInv'
<1>1. mie /\ ~mie' /\ UNCHANGED <<job, target, ie, lcr, fifo, cause>>
  BY DEF Take, Interrupted, chosen, uart
<1>2. PICK l : l = Len(stack)
  OBVIOUS
<1>3. /\ IsSeq(stack) /\ l \in 1 .. 3
      /\ \A n \in 1 .. l :
           /\ Frame(stack[n], TextOf(n), lcr)
           /\ n = 1 <=> stack[n].code = "main"
           /\ stack[n].code \in Irqs \cup {"exception"} => n = l /\ ~mie
           /\ stack[n].code \in Irqs => stack[n].code \in KindsOf(job)
           /\ stack[n].code \in {"panic", "exception"} =>
                n = 2 /\ InApp(stack[1], TextOf(1))
  BY <1>2 DEF BoardInv, Nesting
<1>4. Top = stack[l] /\ l \in 1 .. l /\ Top.code \in Frames /\ Here = TextOf(l)
  BY <1>2, <1>3, TopFacts DEF Here
<1>5. \A n \in 1 .. l : stack[n].code \notin Irqs \cup {"exception"}
  BY <1>1, <1>3
<1>6. l \in 1 .. 2
  <2>1. Top.code \in {"main", "panic"}
    BY <1>4, <1>5 DEF Frames, Irqs
  <2>2. l = 1 \/ l = 2
    BY <1>3, <1>4, <2>1
  <2> QED BY <2>2
<1>7. PICK t : t = IF Running /\ Op.op = "wfi" THEN Top.at - 1 ELSE Top.at
  OBVIOUS
<1>8. PICK g : g = [Top EXCEPT !.at = t]
  OBVIOUS
<1>9. PICK i \in ip \cap ie : stack' = Append(WithTop(stack, g), Start(i))
  <2>1. PICK i \in ip \cap ie :
          stack' = Append([stack EXCEPT ![Len(stack)].at =
                             IF Running /\ Op.op = "wfi" THEN @ - 1 ELSE @], Start(i))
    BY DEF Take
  <2>2. PICK a : a = stack[l].at
    OBVIOUS
  <2>3. t = IF Running /\ Op.op = "wfi" THEN a - 1 ELSE a
    BY <1>4, <1>7, <2>2
  <2>4. [stack EXCEPT ![l].at = IF Running /\ Op.op = "wfi" THEN @ - 1 ELSE @]
          = [stack EXCEPT ![l] = [stack[l] EXCEPT !.at = t]]
    BY <2>2, <2>3, Zenon
  <2> QED BY <1>2, <1>4, <1>8, <2>1, <2>4 DEF WithTop
<1>10. i \in Irqs /\ i \in Frames /\ i \in KindsOf(job)
  BY <1>9 DEF BoardInv, Irqs, Frames
<1>11. /\ g = [code |-> g.code, at |-> g.at, acc |-> g.acc, divisor |-> g.divisor]
       /\ g.code = Top.code /\ g.acc = Top.acc /\ g.at = t
  <2>1. Top = [code |-> Top.code, at |-> Top.at, acc |-> Top.acc,
               divisor |-> Top.divisor]
    BY TopFacts DEF Frame
  <2>2. PICK top : top = Top
    OBVIOUS
  <2> QED BY <1>8, <2>1, <2>2
<1>12. Frame(g, Here, lcr) /\ Poised(g, Here) <= Poised(Top, Here)
  <2>1. PICK s : s = Here
    OBVIOUS
  <2>2. CASE Running /\ Op.op = "wfi"
    <3>1. t = Top.at - 1 /\ Top.at \in 1 .. Len(s) /\ s[Top.at].op = "wfi"
      BY <1>7, <2>1, <2>2, TopFacts
    <3>2. Lands(s, t)
      BY <2>1, <3>1, TopFacts DEF Text, Part, Jumps
    <3>3. t \in 1 .. Len(s) + 1 /\ (t <= Len(s) => ~Bound(s[t]))
      BY <3>2 DEF Lands
    <3>4. Frame(g, s, lcr)
      BY <1>4, <1>11, <3>3 DEF Frame, Bound, HoldsLcr, LcrWrite, Changes
    <3>5. Poised(g, s) = 0
      BY <1>11, <3>3 DEF Poised, Bound
    <3>6. Poised(Top, s) \in {0, 1}
      BY PoisedIs
    <3> QED BY <2>1, <3>4, <3>5, <3>6
  <2>3. CASE ~(Running /\ Op.op = "wfi")
    <3>1. t = Top.at
      BY <1>7, <2>3
    <3>2. Frame(Top, Here, lcr)
      BY TopFacts
    <3>3. Frame(g, Here, lcr) /\ Poised(g, Here) = Poised(Top, Here)
      BY <1>11, <3>1, <3>2 DEF Frame, Poised
    <3>4. Poised(Top, Here) \in {0, 1}
      BY PoisedIs
    <3> QED BY <3>3, <3>4
  <2> QED BY <2>2, <2>3
<1>13. /\ IsSeq(stack') /\ Len(stack') = l + 1
       /\ stack'[l + 1] = Start(i) /\ stack'[l] = g
       /\ \A n \in 1 .. l - 1 : stack'[n] = stack[n]
  <2>1. PICK q : q = WithTop(stack, g)
    OBVIOUS
  <2>2. /\ IsSeq(q) /\ Len(q) = l /\ q[l] = g
        /\ \A n \in 1 .. l - 1 : q[n] = stack[n]
    <3>1. Len(stack) > 0
      BY <1>2, <1>3
    <3> QED BY <1>2, <1>3, <2>1, <3>1, Replaced
  <2>3. PICK f : f = Start(i)
    OBVIOUS
  <2>4. /\ IsSeq(Append(q, f)) /\ Len(Append(q, f)) = l + 1
        /\ Append(q, f)[l + 1] = f
        /\ \A n \in 1 .. l : Append(q, f)[n] = q[n]
    BY <2>2, Appended
  <2>5. stack' = Append(q, f)
    BY <1>9, <2>1, <2>3
  <2>6. /\ IsSeq(stack') /\ Len(stack') = l + 1 /\ stack'[l + 1] = f
        /\ \A n \in 1 .. l : stack'[n] = q[n]
    BY <2>4, <2>5
  <2>7. \A n \in 1 .. l - 1 : n \in 1 .. l
    BY <1>3
  <2> QED BY <1>4, <2>2, <2>3, <2>6, <2>7
<1>14. ASSUME NEW n \in 1 .. l
       PROVE  /\ TextOf(n)' = TextOf(n) /\ stack'[n].code = stack[n].code
              /\ n < l => stack'[n] = stack[n]
  <2>1. CASE n = l
    BY <2>1, <1>1, <1>4, <1>11, <1>13 DEF TextOf
  <2>2. CASE n \in 1 .. l - 1
    BY <2>2, <1>1, <1>13 DEF TextOf
  <2> QED BY <2>1, <2>2, <1>3
<1>15. PICK s : s = TextOf(l + 1)'
  OBVIOUS
<1>16. Start(i).code = i /\ Frame(Start(i), s, lcr) /\ Poised(Start(i), s) = 0
  <2>1. Start(i).code = i
    BY DEF Start
  <2>2. s = TextAt(i, job, target, cause)
    BY <1>1, <1>13, <1>15, <2>1 DEF TextOf
  <2>3. Text(s, Kinds(i, job))
    BY <1>10, <2>2, Texts DEF BoardInv
  <2> QED BY <1>10, <2>1, <2>3, Fresh
<1>17. Nesting'
  <2>1. ASSUME NEW n \in 1 .. l
        PROVE  /\ Frame(stack'[n], TextOf(n)', lcr')
               /\ n = 1 <=> stack'[n].code = "main"
               /\ stack'[n].code \notin Irqs \cup {"exception"}
               /\ stack'[n].code = "panic" => n = 2 /\ InApp(stack'[1], TextOf(1)')
    <3>1. Frame(stack'[n], TextOf(n)', lcr')
      <4>1. CASE n = l
        BY <4>1, <1>1, <1>4, <1>12, <1>13, <1>14
      <4>2. CASE n < l
        BY <4>2, <1>1, <1>3, <1>14
      <4> QED BY <4>1, <4>2, <1>3
    <3>2. ASSUME stack'[n].code = "panic"
          PROVE  n = 2 /\ InApp(stack'[1], TextOf(1)')
      <4>1. n = 2 /\ InApp(stack[1], TextOf(1))
        BY <3>2, <1>3, <1>14
      <4>2. 1 \in 1 .. l /\ 1 < l
        BY <4>1, <1>6
      <4> QED BY <4>1, <4>2, <1>14
    <3> QED BY <3>1, <3>2, <1>3, <1>5, <1>14
  <2>2. /\ Frame(stack'[l + 1], TextOf(l + 1)', lcr')
        /\ stack'[l + 1].code = i /\ i # "main" /\ i \notin {"panic", "exception"}
    BY <1>1, <1>10, <1>13, <1>15, <1>16 DEF Irqs
  <2>3. ASSUME NEW n \in 1 .. l + 1
        PROVE  /\ Frame(stack'[n], TextOf(n)', lcr')
               /\ n = 1 <=> stack'[n].code = "main"
               /\ stack'[n].code \in Irqs \cup {"exception"} => n = l + 1
               /\ stack'[n].code \in Irqs => stack'[n].code \in KindsOf(job')
               /\ stack'[n].code \in {"panic", "exception"} =>
                    n = 2 /\ InApp(stack'[1], TextOf(1)')
    <3>1. CASE n = l + 1
      <4>1. n # 1
        BY <1>6, <3>1
      <4> QED BY <1>1, <1>10, <2>2, <3>1, <4>1
    <3>2. CASE n \in 1 .. l
      BY <2>1, <3>2
    <3> QED BY <3>1, <3>2, <1>6
  <2>4. l + 1 \in 1 .. 3
    BY <1>6
  <2> QED BY <1>1, <1>13, <2>3, <2>4 DEF Nesting
<1>18. Queued'
  <2>1. Waiting(l + 1)' = 0
    BY <1>13, <1>15, <1>16 DEF Waiting
  <2>2. Waiting(l)' = Poised(g, Here)
    <3>1. l > 0
      BY <1>6
    <3> QED BY <1>4, <1>13, <1>14, <3>1 DEF Waiting
  <2>3. PICK k : k = l + 1
    OBVIOUS
  <2>4. Waiting(Len(stack))' = 0 /\ Waiting(Len(stack) - 1)' = Poised(g, Here)
    <3>1. Len(stack') = k /\ k - 1 = l
      BY <1>6, <1>13, <2>3
    <3>2. Waiting(Len(stack))' = Waiting(k)' /\ Waiting(Len(stack) - 1)' = Waiting(l)'
      BY <3>1 DEF Waiting, TextOf
    <3> QED BY <2>1, <2>2, <2>3, <3>2
  <2>5. /\ Len(fifo) \in Nat /\ Waiting(l - 1) \in {0, 1}
        /\ Waiting(l) = Poised(Top, Here)
        /\ IsSeq(fifo) /\ Len(fifo) + Waiting(l) + Waiting(l - 1) <= 2
    BY <1>2, QueueFacts DEF BoardInv, Queued
  <2>6. Poised(g, Here) \in {0, 1} /\ Poised(Top, Here) \in {0, 1}
    BY PoisedIs
  <2>7. Len(fifo) + 0 + Poised(g, Here) <= 2
    BY <1>12, <2>5, <2>6
  <2> QED BY <1>1, <2>4, <2>5, <2>7 DEF Queued
<1> QED BY <1>1, <1>17, <1>18 DEF BoardInv

(* mret *)
LEMMA ReturnStep == ASSUME BoardInv, Return PROVE BoardInv'
<1>1. Top.code \in Irqs /\ stack' = Front(stack)
      /\ UNCHANGED <<job, target, ie, lcr, fifo, cause>>
  BY DEF Return, chosen, uart, Irqs
<1>2. PICK l : l = Len(stack)
  OBVIOUS
<1>3. /\ IsSeq(stack) /\ l \in 1 .. 3
      /\ \A n \in 1 .. l :
           /\ Frame(stack[n], TextOf(n), lcr)
           /\ n = 1 <=> stack[n].code = "main"
           /\ stack[n].code \in Irqs \cup {"exception"} => n = l /\ ~mie
           /\ stack[n].code \in Irqs => stack[n].code \in KindsOf(job)
           /\ stack[n].code \in {"panic", "exception"} =>
                n = 2 /\ InApp(stack[1], TextOf(1))
  BY <1>2 DEF BoardInv, Nesting
<1>4. Top = stack[l] /\ l \in 1 .. l
  BY <1>2, <1>3, TopFacts
<1>5. l \in 2 .. 3
  <2>1. l # 1
    BY <1>1, <1>3, <1>4 DEF Irqs
  <2> QED BY <1>3, <2>1
<1>6. PICK m : m = l - 1
  OBVIOUS
<1>7. m \in 1 .. 2 /\ \A n \in 1 .. m : n \in 1 .. l /\ n # l
  BY <1>5, <1>6
<1>8. /\ IsSeq(stack') /\ Len(stack') = m
      /\ \A n \in 1 .. m : stack'[n] = stack[n]
  <2>1. Len(stack) > 0
    BY <1>2, <1>5
  <2> QED BY <1>1, <1>2, <1>3, <1>6, <2>1, Fronted
<1>9. \A n \in 1 .. m : TextOf(n)' = TextOf(n)
  BY <1>1, <1>8 DEF TextOf
<1>10. ASSUME NEW n \in 1 .. m
       PROVE  /\ Frame(stack'[n], TextOf(n)', lcr')
              /\ n = 1 <=> stack'[n].code = "main"
              /\ stack'[n].code \notin Irqs \cup {"exception"}
              /\ stack'[n].code \in {"panic", "exception"} =>
                   n = 2 /\ InApp(stack'[1], TextOf(1)')
  <2>1. 1 \in 1 .. m
    BY <1>7
  <2> QED BY <1>1, <1>3, <1>7, <1>8, <1>9, <2>1
<1>11. Nesting'
  <2>1. m \in 1 .. 3
    BY <1>7
  <2> QED BY <1>8, <1>10, <2>1 DEF Nesting
<1>12. \A n \in 1 .. m : Waiting(n)' = Waiting(n)
  BY <1>8, <1>9 DEF Waiting
<1>13. Waiting(m - 1)' = 0
  <2>1. CASE m = 1
    BY <2>1 DEF Waiting
  <2>2. CASE m = 2
    <3>1. 2 \in 1 .. l /\ 2 # l /\ 1 \in 1 .. m
      BY <2>2, <1>7
    <3>2. stack[2].code \in Frames
      BY <1>3, <3>1 DEF Frame
    <3>3. stack[2].code = "panic"
      BY <1>3, <3>1, <3>2 DEF Frames, Irqs
    <3>4. InApp(stack[1], TextOf(1))
      BY <1>3, <3>1, <3>3
    <3>5. Waiting(1) = 0
      BY <3>4 DEF Waiting, Poised, InApp, Sending
    <3>6. m - 1 = 1
      BY <2>2
    <3>7. Waiting(1)' = 0
      BY <1>12, <3>1, <3>5
    <3> QED BY <3>6, <3>7
  <2> QED BY <1>7, <2>1, <2>2
<1>14. Queued'
  <2>1. Waiting(Len(stack))' = Waiting(m)' /\ Waiting(Len(stack) - 1)' = Waiting(m - 1)'
    BY <1>8 DEF Waiting, TextOf
  <2>2. Waiting(m)' = Waiting(l - 1)
    <3>1. m \in 1 .. m
      BY <1>7
    <3> QED BY <1>6, <1>12, <3>1
  <2>3. /\ Len(fifo) \in Nat /\ Waiting(l - 1) \in {0, 1} /\ Waiting(l) \in {0, 1}
        /\ IsSeq(fifo) /\ Len(fifo) + Waiting(l) + Waiting(l - 1) <= 2
    BY <1>2, QueueFacts DEF BoardInv, Queued
  <2>4. Len(fifo) + Waiting(l - 1) + 0 <= 2
    BY <2>3
  <2> QED BY <1>1, <1>13, <2>1, <2>2, <2>3, <2>4 DEF Queued
<1> QED BY <1>1, <1>11, <1>14 DEF BoardInv

(* The UART, the timer and the person at the other end. *)
LEMMA IdleStep ==
  ASSUME BoardInv, UNCHANGED <<chosen, stack, mie, ie, lcr, cause>>,
         fifo' = fifo \/ (fifo # <<>> /\ fifo' = Tail(fifo))
  PROVE  BoardInv'
<1>1. UNCHANGED <<job, target, stack, mie, ie, lcr, cause>>
  BY DEF chosen
<1>2. \A n : TextOf(n)' = TextOf(n) /\ Waiting(n)' = Waiting(n)
  BY <1>1 DEF TextOf, Waiting
<1>3. Nesting'
  BY <1>1, <1>2 DEF BoardInv, Nesting
<1>4. IsSeq(fifo') /\ Len(fifo') <= Len(fifo) /\ Len(fifo') \in Nat
  <2>1. CASE fifo' = fifo
    BY <2>1, QueueFacts DEF BoardInv, Queued
  <2>2. CASE fifo # <<>> /\ fifo' = Tail(fifo)
    <3>1. PICK S : S = {fifo[n] : n \in 1 .. Len(fifo)}
      OBVIOUS
    <3>2. fifo \in Seq(S)
      BY <3>1 DEF BoardInv, Queued, IsSeq
    <3>3. fifo' \in Seq(S) /\ Len(fifo') = Len(fifo) - 1
      BY <2>2, <3>2
    <3>4. Len(fifo) \in Nat /\ Len(fifo') \in Nat
      BY <3>2, <3>3
    <3> QED BY <3>3, <3>4, IsSeqIntro
  <2> QED BY <2>1, <2>2
<1>5. PICK l : l = Len(stack)
  OBVIOUS
<1>6. Queued'
  <2>1. Waiting(Len(stack))' = Waiting(l) /\ Waiting(Len(stack) - 1)' = Waiting(l - 1)
    BY <1>1, <1>2, <1>5 DEF Waiting, TextOf
  <2>2. /\ Len(fifo) \in Nat /\ Waiting(l - 1) \in {0, 1} /\ Waiting(l) \in {0, 1}
        /\ Len(fifo) + Waiting(l) + Waiting(l - 1) <= 2
    BY <1>5, QueueFacts DEF BoardInv, Queued
  <2>3. Len(fifo') + Waiting(l) + Waiting(l - 1) <= 2
    BY <1>4, <2>2
  <2> QED BY <1>4, <2>1, <2>3 DEF Queued
<1> QED BY <1>1, <1>3, <1>6 DEF BoardInv

-----------------------------------------------------------------------------
(* The invariant of the board. *)

(* The invariant holds at the start ... *)
LEMMA BoardInit == Init => BoardInv
<1> SUFFICES ASSUME Init PROVE BoardInv
  OBVIOUS
<1>1. /\ job \in Jobs /\ target \in Targets /\ cause = {} /\ ie = {}
      /\ lcr = [dlab |-> FALSE, bits |-> 5] /\ fifo = <<>>
      /\ stack = <<Start("main")>>
  BY DEF Init
<1>2. IsSeq(stack) /\ Len(stack) = 1 /\ stack[1] = Start("main")
  <2>1. PICK f : f = Start("main")
    OBVIOUS
  <2> QED BY <1>1, <2>1, OneOp
<1>3. stack[1].code = "main" /\ "main" \in Frames
  BY <1>2 DEF Start, Frames
<1>4. Frame(stack[1], TextOf(1), lcr) /\ Poised(stack[1], TextOf(1)) = 0
  <2>1. TextOf(1) = TextAt("main", job, target, cause)
    BY <1>3 DEF TextOf
  <2>2. Text(TextOf(1), Kinds("main", job))
    BY <1>1, <1>3, <2>1, Texts
  <2> QED BY <1>2, <1>3, <2>2, Fresh
<1>5. Nesting
  <2>1. \A n \in 1 .. 1 : n = 1
    OBVIOUS
  <2> QED BY <1>2, <1>3, <1>4, <2>1 DEF Nesting, Irqs
<1>6. Queued
  <2>1. IsSeq(fifo) /\ Len(fifo) = 0
    BY <1>1 DEF IsSeq
  <2>2. Waiting(1) = 0 /\ Waiting(1 - 1) = 0
    BY <1>4 DEF Waiting
  <2> QED BY <1>2, <2>1, <2>2 DEF Queued
<1>7. lcr \in Lcrs
  BY <1>1 DEF Lcrs
<1> QED BY <1>1, <1>5, <1>6, <1>7 DEF BoardInv

(* ... and is kept by every step. *)
LEMMA BoardStep == BoardInv /\ [Next]_vars => BoardInv'
<1> SUFFICES ASSUME BoardInv, [Next]_vars PROVE BoardInv'
  OBVIOUS
<1>1. CASE Take
  BY <1>1, TakeStep
<1>2. CASE Return
  BY <1>2, ReturnStep
<1>3. CASE App
  BY <1>3, AppStep
<1>4. CASE \/ Jumping \/ Storing \/ Configuring \/ ReadGpio \/ WriteGpio \/ ReadLcr
           \/ WriteLcr \/ WriteIer \/ WriteChar \/ ComputeDivisor \/ ClearFifos
           \/ Poll \/ ReadChar
  <2>1. \E g : Moves(Op, g)
    BY <1>4, JumpingMoves, StoringMoves, ConfiguringMoves, GpioMoves, LcrMoves,
       WriteIerMoves, WriteCharMoves, ComputeMoves, FifoMoves
  <2> QED BY <2>1, MovesStep
<1>5. CASE Shift
  BY <1>5, IdleStep DEF Shift, idle
<1>6. CASE Transmit
  BY <1>6, IdleStep DEF Transmit, idle
<1>7. CASE Type
  BY <1>7, IdleStep DEF Type, idle
<1>8. CASE Timeout
  BY <1>8, IdleStep DEF Timeout, idle
<1>9. CASE AlarmRings
  BY <1>9, IdleStep DEF AlarmRings, idle
<1>10. CASE UNCHANGED vars
  BY <1>10, IdleStep DEF vars, irqs, uart
<1> QED
  BY <1>1, <1>2, <1>3, <1>4, <1>5, <1>6, <1>7, <1>8, <1>9, <1>10 DEF Next, Core

(* SpecBoth lets one of the two run. *)
LEMMA RustSteps == NextBoth => [Next]_vars
  BY DEF NextBoth, RustStep, CStep

(* At every moment of every program: the contexts nest, each of them       *)
(* stands where its text lets it, and the transmit FIFO holds no more than *)
(* the pollers allow.                                                      *)
THEOREM Board == SpecBoth => []BoardInv
<1>1. InitBoth => BoardInv
  BY BoardInit DEF InitBoth
<1>2. BoardInv /\ [NextBoth]_both => BoardInv'
  <2>1. [NextBoth]_both => [Next]_vars
    BY RustSteps DEF both
  <2> QED BY <2>1, BoardStep
<1> QED BY <1>1, <1>2, PTL DEF SpecBoth

(* Console!FifoNotOverrun: putc polls for an empty FIFO and then writes,  *)
(* in two accesses, and a handler that prints may come in between.  Main  *)
(* and the handler then both write, so two places in the FIFO are enough, *)
(* and are needed: with fewer it would overrun.                           *)
THEOREM NotOverrun ==
  ASSUME FifoDepth >= 2 PROVE SpecBoth => []FifoNotOverrun
<1>1. BoardInv => FifoNotOverrun
  <2> SUFFICES ASSUME BoardInv PROVE FifoNotOverrun
    OBVIOUS
  <2>1. PICK l : l = Len(stack)
    OBVIOUS
  <2>2. /\ Len(fifo) \in Nat /\ Waiting(l - 1) \in {0, 1} /\ Waiting(l) \in {0, 1}
        /\ Len(fifo) + Waiting(l) + Waiting(l - 1) <= 2
    BY <2>1, QueueFacts DEF BoardInv, Queued
  <2>3. FifoDepth \in Nat
    BY BoardAssumption
  <2> QED BY <2>2, <2>3 DEF FifoNotOverrun
<1> QED BY <1>1, Board, PTL

-----------------------------------------------------------------------------
(* uart_irq: an interrupt means that a character is there. *)

(* The handler of uart_irq has not read its character yet. *)
Reading == Len(stack) = 2 /\ stack[2].at <= 4

(* Nothing is received before the initialisation is over; then a pending   *)
(* interrupt, and a handler that is still to read, mean a line that is     *)
(* high; and waiting, the line's other cause, means that something waits.  *)
IrqInv ==
  job = "uart_irq" =>
    /\ "is_init" \in DOMAIN mem
    /\ stack[1].at < Len(InitUart) => ~mem.is_init
    /\ ~mem.is_init =>
         Len(stack) = 1 /\ rx = <<>> /\ ~waiting /\ "Uart" \notin ip
    /\ IsSeq(rx) /\ (waiting => rx # <<>>)
    /\ "Uart" \in ip => Interrupting /\ ~Reading
    /\ Reading => Interrupting

(* The line is high: a character is there. *)
LEMMA Found ==
  ASSUME job = "uart_irq", IrqInv, Interrupting PROVE rx # <<>>
<1>1. waiting \/ Len(rx) >= Burst
  BY DEF Interrupting
<1>2. Burst \in Nat \ {0}
  BY BoardAssumption
<1>3. rx = <<>> => Len(rx) = 0
  OBVIOUS
<1> QED BY <1>1, <1>2, <1>3 DEF IrqInv

(* Main, or the handler on top of it. *)
LEMMA IrqContexts ==
  ASSUME BoardInv, job = "uart_irq"
  PROVE  \/ /\ Len(stack) = 1 /\ Top = stack[1] /\ Top.code = "main"
            /\ Here = UartIrqMain(target)
         \/ /\ Len(stack) = 2 /\ Top = stack[2] /\ Top.code = "Uart"
            /\ Here = UartHandler /\ ~mie
<1>1. KindsOf(job) = Service \cup {"mie", "irq", "Uart"}
  BY DEF KindsOf
<1>2. PICK l : l = Len(stack)
  OBVIOUS
<1>3. /\ l \in 1 .. 3 /\ Top = stack[l] /\ Top.code \in Frames
      /\ \A n \in 1 .. l :
           /\ Frame(stack[n], TextOf(n), lcr)
           /\ n = 1 <=> stack[n].code = "main"
           /\ stack[n].code \in Irqs \cup {"exception"} => n = l /\ ~mie
           /\ stack[n].code \in Irqs => stack[n].code \in KindsOf(job)
           /\ stack[n].code \in {"panic", "exception"} =>
                n = 2 /\ InApp(stack[1], TextOf(1))
  BY <1>2, TopFacts DEF BoardInv, Nesting
<1>4. job \in Jobs /\ target \in Targets
  BY DEF BoardInv
<1>5. MainOf[target][job] = UartIrqMain(target)
  BY <1>4 DEF MainOf, Targets, Programs
<1>6. 1 \in 1 .. l
  BY <1>3
<1>7. TextOf(1) = UartIrqMain(target)
  <2>1. stack[1].code = "main"
    BY <1>3, <1>6
  <2> QED BY <2>1, <1>5 DEF TextOf, TextAt
<1>8. ~InApp(stack[1], TextOf(1))
  <2>1. PICK s : s = TextOf(1)
    OBVIOUS
  <2>2. Uses(s, KindsOf(job))
    BY <1>7, <2>1, IrqMainText DEF Text, Part
  <2>3. \A n \in 1 .. Len(s) : s[n].op # "app"
    BY <1>1, <2>2 DEF Uses, Service, Handling
  <2>4. stack[1].at \in 1 .. Len(s) + 1
    BY <1>3, <1>6, <2>1 DEF Frame
  <2>5. IsSeq(s)
    BY <1>7, <2>1, IrqMainText DEF Text, Part
  <2>6. Len(s) \in Nat
    BY <2>5, Joined
  <2>7. stack[1].at <= Len(s) => stack[1].at \in 1 .. Len(s)
    BY <2>4, <2>6
  <2> QED BY <2>1, <2>3, <2>7 DEF InApp
<1>9. \A n \in 1 .. l : stack[n].code \in {"main", "Uart"}
  <2> TAKE n \in 1 .. l
  <2>1. stack[n].code \in Frames
    BY <1>3 DEF Frame
  <2>2. stack[n].code # "MachineTimer"
    BY <1>1, <1>3 DEF Service, Handling, Irqs
  <2> QED BY <1>3, <1>8, <2>1, <2>2 DEF Frames
<1>10. CASE l = 1
  BY <1>2, <1>3, <1>6, <1>7, <1>10 DEF Here
<1>11. CASE l # 1
  <2>1. 2 \in 1 .. l /\ 2 # 1
    BY <1>3, <1>11
  <2>2. stack[2].code = "Uart"
    BY <1>3, <1>9, <2>1
  <2>3. l = 2 /\ ~mie
    BY <1>3, <2>1, <2>2 DEF Irqs
  <2>4. TextOf(2) = UartHandler
    BY <2>2 DEF TextOf, TextAt
  <2> QED BY <1>2, <1>3, <2>2, <2>3, <2>4 DEF Here
<1> QED BY <1>10, <1>11

(* What is executed after the initialisation and outside of getc. *)
Lately(o) == o.op \in Resting \/ Sending(o) \/ Listens(o)

(* What is executed, and what is known then. *)
LEMMA IrqOps ==
  ASSUME BoardInv, IrqInv, job = "uart_irq", Running
  PROVE  \/ /\ Top.code = "main" /\ Len(stack) = 1 /\ Top = stack[1]
            /\ \/ Top.at < Len(InitUart) /\ Op.op \in Booting \ Jumpers /\ ~mem.is_init
               \/ /\ Top.at = Len(InitUart)
                  /\ Op = [op |-> "set", var |-> "is_init", to |-> TRUE]
               \/ Top.at > Len(InitUart) /\ Lately(Op)
         \/ /\ Top.code = "Uart" /\ Len(stack) = 2 /\ Top = stack[2] /\ mem.is_init
            /\ \/ Top.at # 4 /\ (Lately(Op) \/ Op.op = "poll_data")
               \/ Top.at = 4 /\ Op.op = "read"
<1>1. Top.at \in 1 .. Len(Here) /\ Op = Here[Top.at]
  BY TopFacts
<1>2. CASE Len(stack) = 1 /\ Top = stack[1] /\ Top.code = "main"
           /\ Here = UartIrqMain(target)
  <2>1. PICK i : i = Len(InitUart)
    OBVIOUS
  <2>2. PICK a : a = Top.at
    OBVIOUS
  <2>3. i \in Nat \ {0} /\ a \in Nat
    BY <2>1, <2>2, InitOps, TopFacts
  <2>4. IF a <= i THEN Op = InitUart[a] ELSE Lately(Op)
    BY <1>1, <1>2, <2>1, <2>2, IrqMainReady DEF Ready, Lately
  <2>5. CASE a < i
    <3>1. a \in 1 .. i
      BY <1>1, <2>2, <2>3, <2>5
    <3>2. Op.op \in Booting \ Jumpers
      BY <2>1, <2>3, <2>4, <2>5, <3>1, InitOps
    <3>3. ~mem.is_init
      BY <1>2, <2>1, <2>2, <2>5 DEF IrqInv
    <3> QED BY <1>2, <2>1, <2>2, <2>5, <3>2, <3>3
  <2>6. CASE a = i
    <3>1. a \in 1 .. i /\ ~(a < i) /\ a <= i
      BY <2>3, <2>6
    <3>2. Op = [op |-> "set", var |-> "is_init", to |-> TRUE]
      BY <2>1, <2>4, <3>1, InitOps
    <3> QED BY <1>2, <2>1, <2>2, <2>6, <3>2
  <2>7. CASE a > i
    <3>1. ~(a <= i)
      BY <2>3, <2>7
    <3> QED BY <1>2, <2>1, <2>2, <2>4, <2>7, <3>1
  <2> QED BY <2>3, <2>5, <2>6, <2>7
<1>3. CASE Len(stack) = 2 /\ Top = stack[2] /\ Top.code = "Uart"
           /\ Here = UartHandler /\ ~mie
  <2>1. mem.is_init
    BY <1>3 DEF IrqInv
  <2>2. PICK a : a = Top.at
    OBVIOUS
  <2>3. a \in 1 .. Len(UartHandler) /\ a \in Nat \ {0}
    BY <1>1, <1>3, <2>2, TopFacts
  <2>4. IF a <= 4 THEN Op = Reads[a] ELSE Lately(Op)
    BY <1>1, <1>3, <2>2, <2>3, HandlerReady, ReadsOps DEF Ready, Lately
  <2>5. CASE a = 4
    BY <1>3, <2>1, <2>2, <2>4, <2>5, ReadsOps
  <2>6. CASE a # 4
    <3>1. a <= 4 => a \in {1, 2, 3}
      BY <2>3, <2>6
    <3>2. Lately(Op) \/ Op.op = "poll_data"
      BY <2>4, <3>1, ReadsOps DEF Lately
    <3> QED BY <1>3, <2>1, <2>2, <2>6, <3>2
  <2> QED BY <2>5, <2>6
<1> QED BY <1>2, <1>3, IrqContexts

(* What a step of the context on top does to the receiver. *)
Serves ==
  /\ Top'.at > Top.at
  /\ "is_init" \in DOMAIN mem' /\ (mem.is_init => mem'.is_init)
  /\ Top.code = "main" /\ Top.at < Len(InitUart) => ~mem'.is_init
  /\ IsSeq(rx') /\ (waiting' => rx' # <<>>)
  /\ ~mem.is_init => rx' = <<>> /\ ~waiting'
  /\ ip' \subseteq ip \/ Latch
  /\ Interrupting => Interrupting' \/ (Top.code = "Uart" /\ Top.at = 4)

(* The other contexts stay as they are. *)
LEMMA TopMoves ==
  ASSUME BoardInv, NEW o, NEW g, Moves(o, g)
  PROVE  /\ Len(stack') = Len(stack) /\ Top' = g /\ stack'[Len(stack)] = g
         /\ \A n \in 1 .. Len(stack) - 1 : stack'[n] = stack[n]
<1>1. PICK l : l = Len(stack)
  OBVIOUS
<1>2. l \in 1 .. 3 /\ IsSeq(stack)
  BY <1>1 DEF BoardInv, Nesting
<1>3. /\ IsSeq(stack') /\ Len(stack') = l /\ stack'[l] = g
      /\ \A n \in 1 .. l - 1 : stack'[n] = stack[n]
  <2>1. stack' = WithTop(stack, g) /\ Len(stack) > 0
    BY <1>1, <1>2 DEF Moves, WithTop
  <2>2. PICK r : r = stack'
    OBVIOUS
  <2>3. /\ IsSeq(r) /\ Len(r) = Len(stack) /\ r[Len(stack)] = g
        /\ \A n \in 1 .. Len(stack) - 1 : r[n] = stack[n]
    BY <1>2, <2>1, <2>2, Replaced
  <2> QED BY <1>1, <2>2, <2>3
<1>4. Top' = stack'[l]
  BY <1>3 DEF Top, Last
<1> QED BY <1>1, <1>3, <1>4

(* So such a step keeps the invariant. *)
LEMMA ServesStep ==
  ASSUME BoardInv, IrqInv, job = "uart_irq", NEW o, NEW g, Moves(o, g), Serves
  PROVE  IrqInv'
<1>1. PICK i : i = Len(InitUart)
  OBVIOUS
<1>2. i \in Nat /\ Top.at \in Nat /\ Burst \in Nat \ {0}
  BY <1>1, InitOps, TopFacts, BoardAssumption
<1>3. Top' = g /\ Len(stack') = Len(stack)
  BY TopMoves
<1>4. g.at \in Nat /\ g.at > Top.at
  <2>1. g.at \in 1 .. Len(Here) + 1
    BY DEF Moves, Moved, Arrives
  <2>2. g.at \in Nat
    BY <2>1, TopFacts
  <2> QED BY <2>2, <1>3 DEF Serves
<1>5. job' = job
  BY DEF Moves, chosen
<1>6. stack'[1].at < i => ~mem'.is_init
  <2>1. CASE Len(stack) = 1 /\ Top = stack[1] /\ Top.code = "main"
    <3>1. stack'[1] = g
      BY <2>1, TopMoves
    <3>2. g.at < i => Top.at < i
      BY <1>2, <1>4
    <3> QED BY <1>1, <2>1, <3>1, <3>2 DEF Serves
  <2>2. CASE Len(stack) = 2
    <3>1. stack'[1] = stack[1]
      <4>1. 1 \in 1 .. Len(stack) - 1
        BY <2>2
      <4> QED BY <4>1, TopMoves
    <3>2. mem.is_init
      BY <2>2 DEF IrqInv
    <3>3. ~(stack[1].at < i)
      BY <3>2, <1>1 DEF IrqInv
    <3> QED BY <3>1, <3>3
  <2> QED BY <2>1, <2>2, IrqContexts
<1>7. ~mem.is_init => ~Interrupting' /\ "Uart" \notin ip'
  <2> SUFFICES ASSUME ~mem.is_init PROVE ~Interrupting' /\ "Uart" \notin ip'
    OBVIOUS
  <2>1. rx' = <<>> /\ ~waiting' /\ "Uart" \notin ip
    BY DEF Serves, IrqInv
  <2>2. Len(rx') = 0
    BY <2>1
  <2>3. ~(Len(rx') >= Burst)
    BY <2>2, <1>2
  <2>4. ~Interrupting'
    BY <2>1, <2>3 DEF Interrupting
  <2> QED BY <2>1, <2>4 DEF Serves, Latch
<1>8. ~mem'.is_init =>
         Len(stack') = 1 /\ rx' = <<>> /\ ~waiting' /\ "Uart" \notin ip'
  BY <1>3, <1>7 DEF Serves, IrqInv
<1>9. Reading <=> Top.code = "Uart" /\ Top.at <= 4
  BY IrqContexts DEF Reading
<1>10. Reading' <=> Top.code = "Uart" /\ g.at <= 4
  <2>1. CASE Len(stack) = 1 /\ Top.code = "main"
    BY <2>1, <1>3 DEF Reading
  <2>2. CASE Len(stack) = 2 /\ Top.code = "Uart"
    <3>1. stack'[2] = g
      BY <2>2, TopMoves
    <3> QED BY <2>2, <3>1, <1>3 DEF Reading
  <2> QED BY <2>1, <2>2, IrqContexts
<1>11. Reading' => Reading /\ Top.at # 4
  BY <1>2, <1>4, <1>9, <1>10
<1>12. Reading' => Interrupting'
  BY <1>11 DEF Serves, IrqInv
<1>13. "Uart" \in ip' => Interrupting' /\ ~Reading'
  <2> SUFFICES ASSUME "Uart" \in ip' PROVE Interrupting' /\ ~Reading'
    OBVIOUS
  <2>1. CASE "Uart" \in ip
    <3>1. Interrupting /\ ~Reading
      BY <2>1 DEF IrqInv
    <3>2. ~(Top.code = "Uart" /\ Top.at = 4)
      BY <3>1, <1>9
    <3> QED BY <3>1, <3>2, <1>11 DEF Serves
  <2>2. CASE "Uart" \notin ip
    <3>1. Latch
      BY <2>2 DEF Serves
    <3>2. Interrupting' /\ ~Interrupting
      BY <2>2, <3>1 DEF Latch
    <3> QED BY <3>2, <1>11 DEF IrqInv
  <2> QED BY <2>1, <2>2
<1> QED BY <1>1, <1>5, <1>6, <1>8, <1>12, <1>13 DEF IrqInv, Serves

(* A step of uart_irq goes forwards. *)
LEMMA Onward ==
  ASSUME BoardInv, Running
  PROVE  /\ \A n \in Nat : Skip(n) => Top'.at > Top.at
         /\ \A x : Keep(x) => Top'.at > Top.at
         /\ \A d : Continue([Top EXCEPT !.at = @ + 1, !.divisor = d])
                     => Top'.at > Top.at
<1>1. Top = [code |-> Top.code, at |-> Top.at, acc |-> Top.acc,
             divisor |-> Top.divisor] /\ Top.at \in Nat
  BY TopFacts DEF Frame
<1>2. IsSeq(stack) /\ Len(stack) > 0
  BY DEF BoardInv, Nesting
<1>3. ASSUME NEW f, Continue(f), f.at > Top.at PROVE Top'.at > Top.at
  <2>1. PICK r : r = stack'
    OBVIOUS
  <2>2. r = WithTop(stack, f)
    BY <1>3, <2>1 DEF Continue, WithTop
  <2>3. Len(r) = Len(stack) /\ r[Len(stack)] = f
    BY <1>2, <2>2, Replaced
  <2>4. Top' = f
    BY <2>1, <2>3 DEF Top, Last
  <2> QED BY <1>3, <2>4
<1>4. PICK top : top = Top
  OBVIOUS
<1>5. ASSUME NEW n \in Nat, Skip(n) PROVE Top'.at > Top.at
  <2>1. PICK f : f = [Top EXCEPT !.at = Top.at + 1 + n]
    OBVIOUS
  <2>2. Continue(f)
    BY <1>5, <2>1 DEF Skip, Goto
  <2>3. f.at = Top.at + 1 + n
    BY <1>1, <1>4, <2>1
  <2>4. f.at > Top.at
    BY <1>1, <2>3
  <2> QED BY <1>3, <2>2, <2>4
<1>6. ASSUME NEW x, Keep(x) PROVE Top'.at > Top.at
  <2>1. PICK f : f = [Top EXCEPT !.at = @ + 1, !.acc = x]
    OBVIOUS
  <2>2. Continue(f)
    BY <1>6, <2>1 DEF Keep
  <2>3. f.at = Top.at + 1
    BY <1>1, <1>4, <2>1
  <2>4. f.at > Top.at
    BY <1>1, <2>3
  <2> QED BY <1>3, <2>2, <2>4
<1>7. ASSUME NEW d, Continue([Top EXCEPT !.at = @ + 1, !.divisor = d])
      PROVE  Top'.at > Top.at
  <2>1. PICK f : f = [Top EXCEPT !.at = @ + 1, !.divisor = d]
    OBVIOUS
  <2>2. Continue(f)
    BY <1>7, <2>1
  <2>3. f.at = Top.at + 1
    BY <1>1, <1>4, <2>1
  <2>4. f.at > Top.at
    BY <1>1, <2>3
  <2> QED BY <1>3, <2>2, <2>4
<1> QED BY <1>5, <1>6, <1>7

(* What neither the receiver nor its driver's state notices. *)
LEMMA QuietServes ==
  ASSUME BoardInv, IrqInv, job = "uart_irq", Running, Top'.at > Top.at,
         mem' = mem, UNCHANGED <<rx, waiting, ier>>, ip' \subseteq ip
  PROVE  Serves
<1>1. Interrupting' = Interrupting
  BY DEF Interrupting
<1>2. Top.code = "main" => Top = stack[1]
  BY IrqContexts
<1>3. Top.code = "main" /\ Top.at < Len(InitUart) => ~mem.is_init
  BY <1>2 DEF IrqInv
<1> QED BY <1>1, <1>3 DEF Serves, IrqInv

LEMMA QuietActions ==
  ASSUME BoardInv, IrqInv, job = "uart_irq",
         \/ Jumping \/ Configuring \/ ReadGpio \/ WriteGpio \/ ReadLcr \/ WriteLcr
         \/ WriteChar \/ ComputeDivisor \/ Poll
  PROVE  Serves
<1>1. CASE Jumping
  <2>1. /\ Running /\ mem' = mem /\ UNCHANGED <<rx, waiting, ier, ip>>
        /\ Op.op \in {"back", "skip_if_init", "break", "until", "skip_unless_done"}
    BY <1>1 DEF Jumping, Perform, outside, irqs, uart
  <2>2. Op.op = "until"
    BY <2>1, IrqOps DEF Lately, Resting, Sending, Listens, Jumpers, Skips
  <2>3. Skip(0) \/ Skip(1)
    BY <1>1, <2>2 DEF Jumping, Perform
  <2>4. Top'.at > Top.at
    BY <2>1, <2>3, Onward
  <2> QED BY <2>1, <2>4, QuietServes
<1>2. CASE Configuring
  <2>1. /\ Running /\ mem' = mem /\ UNCHANGED <<rx, waiting, ier>> /\ ip' \subseteq ip
        /\ Skip(0)
    BY <1>2 DEF Configuring, Perform, uart, NextOp
  <2> QED BY <2>1, Onward, QuietServes
<1>3. CASE ReadGpio \/ ReadLcr
  <2>1. /\ Running /\ mem' = mem /\ UNCHANGED <<rx, waiting, ier, ip>>
        /\ \E x : Keep(x)
    BY <1>3 DEF ReadGpio, ReadLcr, Perform, outside, irqs, uart
  <2> QED BY <2>1, Onward, QuietServes
<1>4. CASE WriteGpio
  <2>1. /\ Running /\ mem' = mem /\ UNCHANGED <<rx, waiting, ier, ip>> /\ Skip(0)
    BY <1>4 DEF WriteGpio, Perform, outside, irqs, uart, NextOp
  <2> QED BY <2>1, Onward, QuietServes
<1>5. CASE WriteLcr
  <2>1. /\ Running /\ mem' = mem /\ UNCHANGED <<rx, waiting, ier, ip>> /\ Skip(0)
    BY <1>5 DEF WriteLcr, Perform, outside, irqs, NextOp
  <2> QED BY <2>1, Onward, QuietServes
<1>6. CASE WriteChar
  <2>1. PICK c : WriteThrDll(c)
    BY <1>6 DEF WriteChar
  <2>2. Running
    BY <1>6 DEF WriteChar, Perform
  <2>3. mem' = mem /\ UNCHANGED <<rx, waiting, ier, ip>> /\ Skip(0)
    BY <2>1 DEF WriteThrDll, outside, irqs, NextOp
  <2> QED BY <2>2, <2>3, Onward, QuietServes
<1>7. CASE ComputeDivisor
  <2>1. PICK d : Continue([Top EXCEPT !.at = @ + 1, !.divisor = d])
    BY <1>7 DEF ComputeDivisor
  <2>2. Running /\ mem' = mem /\ UNCHANGED <<rx, waiting, ier, ip>>
    BY <1>7 DEF ComputeDivisor, Perform, outside, irqs, uart
  <2> QED BY <2>1, <2>2, Onward, QuietServes
<1>8. CASE Poll
  <2>1. /\ Running /\ mem' = mem /\ UNCHANGED <<rx, waiting, ier, ip>> /\ Skip(0)
    BY <1>8 DEF Poll, Perform, outside, irqs, uart, NextOp
  <2> QED BY <2>1, Onward, QuietServes
<1> QED BY <1>1, <1>2, <1>3, <1>4, <1>5, <1>6, <1>7, <1>8

LEMMA StoringServes ==
  ASSUME BoardInv, IrqInv, job = "uart_irq", Storing PROVE Serves
<1>1. /\ Running /\ UNCHANGED <<rx, waiting, ier, ip>> /\ Skip(0)
      /\ Op.op \in {"set", "quit_if_q", "push", "clear_buffer"}
  BY DEF Storing, Perform, outside, irqs, uart, NextOp
<1>2. Top'.at > Top.at
  BY <1>1, Onward
<1>3. Interrupting' = Interrupting
  BY <1>1 DEF Interrupting
<1>4. Top.code = "main" /\ Top.at < Len(InitUart) => ~mem.is_init
  <2>1. Top.code = "main" => Top = stack[1]
    BY IrqContexts
  <2> QED BY <2>1 DEF IrqInv
<1>5. "is_init" \in DOMAIN mem
  BY DEF IrqInv
<1>6. CASE Op.op = "set"
  <2>1. /\ Top.code = "main" /\ Top.at = Len(InitUart)
        /\ Op = [op |-> "set", var |-> "is_init", to |-> TRUE]
    BY <1>1, <1>6, IrqOps DEF Lately, Resting, Sending, Listens, Booting
  <2>2. mem' = [mem EXCEPT !["is_init"] = TRUE]
    BY <1>6, <2>1 DEF Storing, Perform
  <2>3. "is_init" \in DOMAIN mem' /\ mem'.is_init
    BY <1>5, <2>2
  <2>4. ~(Top.at < Len(InitUart))
    BY <2>1, TopFacts
  <2> QED BY <1>1, <1>2, <1>3, <2>3, <2>4 DEF Serves, IrqInv
<1>7. CASE Op.op # "set"
  <2>1. "is_init" \in DOMAIN mem' /\ mem'.is_init = mem.is_init
    BY <1>5, <1>7 DEF Storing, Perform
  <2> QED BY <1>1, <1>2, <1>3, <1>4, <2>1 DEF Serves, IrqInv
<1> QED BY <1>6, <1>7

(* Before the initialisation is over nothing is received. *)
LEMMA NotYet ==
  ASSUME IrqInv, job = "uart_irq", ~mem.is_init PROVE ~Interrupting
<1>1. rx = <<>> /\ ~waiting
  BY DEF IrqInv
<1>2. Len(rx) = 0 /\ Burst \in Nat \ {0}
  BY <1>1, BoardAssumption
<1>3. ~(Len(rx) >= Burst)
  BY <1>2
<1> QED BY <1>1, <1>3 DEF Interrupting

LEMMA WriteIerServes ==
  ASSUME BoardInv, IrqInv, job = "uart_irq", WriteIer PROVE Serves
<1>1. /\ Running /\ UNCHANGED <<rx, waiting, mem>> /\ Skip(0) /\ Latch
  BY DEF WriteIer, WriteIerDlm, Perform, NextOp
<1>2. Top'.at > Top.at
  BY <1>1, Onward
<1>3. Top.code = "main" /\ Top.at < Len(InitUart) => ~mem.is_init
  <2>1. Top.code = "main" => Top = stack[1]
    BY IrqContexts
  <2> QED BY <2>1 DEF IrqInv
<1>4. ASSUME Interrupting PROVE Interrupting'
  <2>1. mem.is_init
    BY <1>4, NotYet
  <2>2. \/ Op.op = "write" /\ Op.reg = "ier_dlm" /\ WriteIerDlm(Op.val)
        \/ Op.op = "divisor_hi"
    BY DEF WriteIer, Perform
  <2>3. Listens(Op)
    BY <1>1, <2>1, <2>2, IrqOps DEF Lately, Resting, Sending, Listens
  <2>4. WriteIerDlm(1)
    BY <2>2, <2>3 DEF Listens, OnData
  <2>5. ier' = ier \/ ier' = 1
    BY <2>4 DEF WriteIerDlm
  <2>6. ier' % 2 = 1
    BY <1>4, <2>5 DEF Interrupting
  <2> QED BY <1>1, <1>4, <2>6 DEF Interrupting
<1> QED BY <1>1, <1>2, <1>3, <1>4 DEF Serves, IrqInv

LEMMA ClearServes ==
  ASSUME BoardInv, IrqInv, job = "uart_irq", ClearFifos PROVE Serves
<1>1. /\ Running /\ rx' = <<>> /\ waiting' = FALSE /\ mem' = mem /\ Skip(0) /\ Latch
      /\ Op.op = "clear_fifos"
  BY DEF ClearFifos, Perform, NextOp
<1>2. Top'.at > Top.at
  BY <1>1, Onward
<1>3. ~mem.is_init
  BY <1>1, IrqOps DEF Lately, Resting, Sending, Listens
<1>4. ~Interrupting
  BY <1>3, NotYet
<1>5. IsSeq(rx')
  BY <1>1 DEF IsSeq
<1> QED BY <1>1, <1>2, <1>3, <1>4, <1>5 DEF Serves, IrqInv

LEMMA ReadServes ==
  ASSUME BoardInv, IrqInv, job = "uart_irq", ReadChar PROVE Serves
<1>1. /\ Running /\ rx' = Tail(rx) /\ waiting' = FALSE /\ mem' = mem /\ Latch
      /\ Op.op = "read" /\ Keep(Head(rx))
  BY DEF ReadChar, Perform
<1>2. Top'.at > Top.at
  BY <1>1, Onward
<1>3. Top.code = "Uart" /\ Top.at = 4 /\ Len(stack) = 2 /\ Top = stack[2] /\ mem.is_init
  BY <1>1, IrqOps DEF Lately, Resting, Sending, Listens, Booting
<1>4. Reading
  BY <1>3 DEF Reading
<1>5. rx # <<>> /\ IsSeq(rx)
  BY <1>4, Found DEF IrqInv
<1>6. IsSeq(rx')
  <2>1. PICK S : S = {rx[n] : n \in 1 .. Len(rx)}
    OBVIOUS
  <2>2. rx \in Seq(S)
    BY <1>5, <2>1 DEF IsSeq
  <2>3. rx' \in Seq(S)
    BY <1>1, <1>5, <2>2
  <2> QED BY <2>3, IsSeqIntro
<1> QED BY <1>1, <1>2, <1>3, <1>6 DEF Serves, IrqInv

(* An interrupt is taken: the line is high, and stays so until the read. *)
LEMMA IrqTake == ASSUME BoardInv, IrqInv, job = "uart_irq", Take PROVE IrqInv'
<1>1. /\ mie /\ UNCHANGED <<job, ie, ier, rx, waiting, mem>>
  BY DEF Take, Interrupted, chosen, uart
<1>2. PICK i \in ip \cap ie :
        /\ stack' = Append([stack EXCEPT ![Len(stack)].at =
                              IF Running /\ Op.op = "wfi" THEN @ - 1 ELSE @], Start(i))
        /\ ip' = ip \ {i}
  BY DEF Take
<1>3. i = "Uart"
  <2>1. i \in KindsOf(job) \cap Irqs
    BY <1>2 DEF BoardInv
  <2> QED BY <2>1 DEF KindsOf, Service, Handling, Irqs
<1>4. Interrupting /\ mem.is_init
  BY <1>2, <1>3 DEF IrqInv
<1>5. Len(stack) = 1 /\ Top = stack[1] /\ Top.code = "main"
  BY <1>1, IrqContexts
<1>6. PICK a : a = stack[1].at
  OBVIOUS
<1>7. PICK t : t = IF Running /\ Op.op = "wfi" THEN a - 1 ELSE a
  OBVIOUS
<1>8. PICK g : g = [Top EXCEPT !.at = t]
  OBVIOUS
<1>9. stack' = Append(WithTop(stack, g), Start(i))
  <2>1. [stack EXCEPT ![1].at = IF Running /\ Op.op = "wfi" THEN @ - 1 ELSE @]
          = [stack EXCEPT ![1] = [stack[1] EXCEPT !.at = t]]
    BY <1>6, <1>7, Zenon
  <2> QED BY <1>2, <1>5, <1>8, <2>1 DEF WithTop
<1>10. g.at = t
  <2>1. Top = [code |-> Top.code, at |-> Top.at, acc |-> Top.acc,
               divisor |-> Top.divisor]
    BY TopFacts DEF Frame
  <2>2. PICK top : top = Top
    OBVIOUS
  <2> QED BY <1>8, <2>1, <2>2
<1>11. Len(stack') = 2 /\ stack'[2] = Start(i) /\ stack'[1] = g
  <2>1. PICK q : q = WithTop(stack, g)
    OBVIOUS
  <2>2. PICK l : l = Len(stack)
    OBVIOUS
  <2>3. l = 1 /\ IsSeq(stack)
    BY <1>5, <2>2 DEF BoardInv, Nesting
  <2>4. IsSeq(q) /\ Len(q) = l /\ q[l] = g
    <3>1. Len(stack) > 0 /\ IsSeq(stack)
      BY <2>2, <2>3
    <3> QED BY <2>1, <2>2, <3>1, Replaced
  <2>5. PICK f : f = Start(i)
    OBVIOUS
  <2>6. /\ Len(Append(q, f)) = l + 1
        /\ Append(q, f)[l + 1] = f
        /\ \A n \in 1 .. l : Append(q, f)[n] = q[n]
    BY <2>4, Appended
  <2>7. stack' = Append(q, f)
    BY <1>9, <2>1, <2>5
  <2>8. Len(stack') = l + 1 /\ stack'[l + 1] = f /\ \A n \in 1 .. l : stack'[n] = q[n]
    BY <2>6, <2>7
  <2>9. l + 1 = 2 /\ l \in 1 .. l
    BY <2>3
  <2> QED BY <2>3, <2>4, <2>5, <2>8, <2>9
<1>12. ~(stack'[1].at < Len(InitUart))
  <2>1. PICK k : k = Len(InitUart)
    OBVIOUS
  <2>2. k \in Nat /\ a \in Nat
    BY <1>5, <1>6, <2>1, InitOps, TopFacts
  <2>3. ~(a < k)
    BY <1>4, <1>6, <2>1 DEF IrqInv
  <2>4. ASSUME Running, Op.op = "wfi" PROVE a > k
    <3>1. Top.at > Len(InitUart)
      BY <1>4, <1>5, <2>4, IrqOps
    <3> QED BY <1>5, <1>6, <2>1, <3>1
  <2>5. ~(t < k)
    BY <1>7, <2>2, <2>3, <2>4
  <2> QED BY <1>10, <1>11, <2>1, <2>5
<1>13. Interrupting' = Interrupting
  BY <1>1 DEF Interrupting
<1>14. "Uart" \notin ip'
  BY <1>2, <1>3
<1> QED BY <1>1, <1>4, <1>12, <1>13, <1>14 DEF IrqInv

(* The handler returns. *)
LEMMA IrqReturn == ASSUME BoardInv, IrqInv, job = "uart_irq", Return PROVE IrqInv'
<1>1. /\ Top.code \in Irqs /\ stack' = Front(stack)
      /\ UNCHANGED <<job, ip, ier, rx, waiting, mem>>
  BY DEF Return, chosen, uart, Irqs
<1>2. Len(stack) = 2 /\ IsSeq(stack)
  BY <1>1, IrqContexts DEF Irqs, BoardInv, Nesting
<1>3. Len(stack') = 1 /\ stack'[1] = stack[1]
  <2>1. PICK l : l = Len(stack)
    OBVIOUS
  <2>2. l = 2 /\ Len(stack) > 0
    BY <1>2, <2>1
  <2>3. PICK r : r = Front(stack)
    OBVIOUS
  <2>4. Len(r) = l - 1 /\ \A n \in 1 .. l - 1 : r[n] = stack[n]
    BY <1>2, <2>1, <2>2, <2>3, Fronted
  <2>5. l - 1 = 1 /\ 1 \in 1 .. l - 1
    BY <2>2
  <2> QED BY <1>1, <2>3, <2>4, <2>5
<1>4. Interrupting' = Interrupting
  BY <1>1 DEF Interrupting
<1>5. ~Reading'
  BY <1>3 DEF Reading
<1>6. mem.is_init
  BY <1>2 DEF IrqInv
<1> QED BY <1>1, <1>3, <1>4, <1>5, <1>6 DEF IrqInv

(* The line and its timer: what is received only gets more. *)
LEMMA IrqIdle ==
  ASSUME BoardInv, IrqInv, job = "uart_irq",
         UNCHANGED <<chosen, stack, mem, ier>>, "Uart" \in ip' => "Uart" \in ip \/ Latch,
         \/ UNCHANGED <<rx, waiting>>
         \/ mem.is_init /\ waiting' = waiting /\ \E c : rx' = Append(rx, c)
         \/ mem.is_init /\ rx # <<>> /\ rx' = rx /\ waiting' = TRUE
  PROVE  IrqInv'
<1>1. job' = job /\ Reading' = Reading
  BY DEF chosen, Reading
<1>2. /\ IsSeq(rx') /\ (waiting' => rx' # <<>>) /\ (Interrupting => Interrupting')
      /\ ~mem.is_init => rx' = <<>> /\ ~waiting'
  <2>1. CASE UNCHANGED <<rx, waiting>>
    <3>1. Interrupting' = Interrupting
      BY <2>1 DEF Interrupting
    <3> QED BY <2>1, <3>1 DEF IrqInv
  <2>2. CASE mem.is_init /\ waiting' = waiting /\ \E c : rx' = Append(rx, c)
    <3>1. PICK c : rx' = Append(rx, c)
      BY <2>2
    <3>2. IsSeq(rx) /\ Len(rx) \in Nat
      BY Joined DEF IrqInv
    <3>3. IsSeq(rx') /\ Len(rx') = Len(rx) + 1
      BY <3>1, <3>2, Appended
    <3>4. rx' # <<>>
      <4>1. Len(rx') # 0
        BY <3>2, <3>3
      <4> QED BY <4>1
    <3>5. Len(rx) >= Burst => Len(rx') >= Burst
      BY <3>2, <3>3, BoardAssumption
    <3>6. Interrupting => Interrupting'
      BY <2>2, <3>5 DEF Interrupting
    <3> QED BY <2>2, <3>3, <3>4, <3>6
  <2>3. CASE mem.is_init /\ rx # <<>> /\ rx' = rx /\ waiting' = TRUE
    BY <2>3 DEF Interrupting, IrqInv
  <2> QED BY <2>1, <2>2, <2>3
<1>3. ~mem.is_init => ~Interrupting'
  <2> SUFFICES ASSUME ~mem.is_init PROVE ~Interrupting'
    OBVIOUS
  <2>1. Len(rx') = 0 /\ Burst \in Nat \ {0}
    BY <1>2, BoardAssumption
  <2>2. ~(Len(rx') >= Burst)
    BY <2>1
  <2> QED BY <1>2, <2>2 DEF Interrupting
<1>4. "Uart" \in ip' => Interrupting' /\ ~Reading
  BY <1>2 DEF IrqInv, Latch
<1> QED BY <1>1, <1>2, <1>3, <1>4 DEF IrqInv

(* The invariant holds at the start ... *)
LEMMA IrqInit == Init => IrqInv
<1> SUFFICES ASSUME Init, job = "uart_irq" PROVE IrqInv
  BY DEF IrqInv
<1>1. /\ stack = <<Start("main")>> /\ ip = {} /\ rx = <<>> /\ waiting = FALSE
      /\ mem = [is_init |-> FALSE, running |-> TRUE, locked |-> TRUE, buf |-> 0,
                tb |-> "none"]
  BY DEF Init
<1>2. Len(stack) = 1
  <2>1. PICK f : f = Start("main")
    OBVIOUS
  <2> QED BY <1>1, <2>1
<1>3. "is_init" \in DOMAIN mem /\ ~mem.is_init /\ IsSeq(rx)
  BY <1>1 DEF IsSeq
<1> QED BY <1>1, <1>2, <1>3 DEF IrqInv, Reading

(* ... and is kept by every step. *)
LEMMA IrqStep == BoardInv /\ IrqInv /\ [Next]_vars => IrqInv'
<1> SUFFICES ASSUME BoardInv, IrqInv, [Next]_vars, job' = "uart_irq" PROVE IrqInv'
  BY DEF IrqInv
<1>0. job = "uart_irq"
  <2>1. job' = job
    BY DEF Next, Core, Take, Return, App, Jumping, Storing, Configuring, ReadGpio,
      WriteGpio, ReadLcr, WriteLcr, WriteIer, WriteChar, ComputeDivisor, ClearFifos,
      Poll, ReadChar, Shift, Transmit, Type, Timeout, AlarmRings, idle, vars, chosen,
      Perform
  <2> QED BY <2>1
<1>1. CASE Take
  BY <1>0, <1>1, IrqTake
<1>2. CASE Return
  BY <1>0, <1>2, IrqReturn
<1>3. CASE App
  <2>1. Running /\ Op.op = "app"
    BY <1>3 DEF App, Perform
  <2> QED BY <1>0, <2>1, IrqOps DEF Lately, Resting, Sending, Listens, Booting
<1>4. CASE \/ Jumping \/ Storing \/ Configuring \/ ReadGpio \/ WriteGpio \/ ReadLcr
           \/ WriteLcr \/ WriteIer \/ WriteChar \/ ComputeDivisor \/ ClearFifos
           \/ Poll \/ ReadChar
  <2>1. \E g : Moves(Op, g)
    BY <1>4, JumpingMoves, StoringMoves, ConfiguringMoves, GpioMoves, LcrMoves,
       WriteIerMoves, WriteCharMoves, ComputeMoves, FifoMoves
  <2>2. Serves
    BY <1>0, <1>4, QuietActions, StoringServes, WriteIerServes, ClearServes, ReadServes
  <2> QED BY <1>0, <2>1, <2>2, ServesStep
<1>5. CASE Shift \/ Transmit
  <2>1. UNCHANGED <<chosen, stack, mem, ier, ip, rx, waiting>>
    BY <1>5 DEF Shift, Transmit, idle
  <2> QED BY <1>0, <2>1, IrqIdle
<1>6. CASE Type
  <2>1. /\ UNCHANGED <<chosen, stack, mem, ier>> /\ Latch /\ mem.is_init
        /\ waiting' = waiting /\ \E c : rx' = Append(rx, c)
    BY <1>6 DEF Type, idle
  <2> QED BY <1>0, <2>1, IrqIdle
<1>7. CASE Timeout
  <2>1. /\ UNCHANGED <<chosen, stack, mem, ier>> /\ Latch /\ rx # <<>>
        /\ rx' = rx /\ waiting' = TRUE
    BY <1>7 DEF Timeout, idle
  <2>2. mem.is_init
    BY <1>0, <2>1 DEF IrqInv
  <2> QED BY <1>0, <2>1, <2>2, IrqIdle
<1>8. CASE AlarmRings
  <2>1. /\ UNCHANGED <<chosen, stack, mem, ier, rx, waiting>>
        /\ ip' = ip \cup {"MachineTimer"}
    BY <1>8 DEF AlarmRings, idle
  <2>2. "Uart" \in ip' => "Uart" \in ip
    BY <2>1
  <2> QED BY <1>0, <2>1, <2>2, IrqIdle
<1>9. CASE UNCHANGED vars
  <2>1. UNCHANGED <<chosen, stack, mem, ier, ip, rx, waiting>>
    BY <1>9 DEF vars, irqs, uart
  <2> QED BY <1>0, <2>1, IrqIdle
<1> QED
  BY <1>1, <1>2, <1>3, <1>4, <1>5, <1>6, <1>7, <1>8, <1>9 DEF Next, Core

(* Console!GetcFinds: when the handler of uart_irq comes to poll for its  *)
(* character there is one, so the loop of getc ends at once, whatever the *)
(* order in which characters, timeouts, reads and interrupts come.        *)
THEOREM NeverSpins == SpecBoth => []GetcFinds
<1>1. InitBoth => IrqInv
  BY IrqInit DEF InitBoth
<1>2. BoardInv /\ IrqInv /\ [NextBoth]_both => IrqInv'
  <2>1. [NextBoth]_both => [Next]_vars
    BY RustSteps DEF both
  <2> QED BY <2>1, IrqStep
<1>3. BoardInv /\ IrqInv => GetcFinds
  <2> SUFFICES ASSUME BoardInv, IrqInv, Top.code = "Uart", Running, Op.op = "poll_data"
               PROVE  rx # <<>>
    BY DEF GetcFinds
  <2>1. job = "uart_irq"
    <3>1. PICK l : l = Len(stack)
      OBVIOUS
    <3>2. l \in 1 .. 3 /\ \A n \in 1 .. l :
            stack[n].code \in Irqs => stack[n].code \in KindsOf(job)
      BY <3>1 DEF BoardInv, Nesting
    <3>3. l \in 1 .. l /\ stack[l].code = "Uart"
      BY <3>1, <3>2, TopFacts
    <3>4. "Uart" \in KindsOf(job)
      BY <3>2, <3>3 DEF Irqs
    <3> QED BY <3>4 DEF KindsOf, Service, Handling
  <2>2. Top.at = 3 /\ Len(stack) = 2 /\ Top = stack[2]
    <3>1. Len(stack) = 2 /\ Top = stack[2] /\ Here = UartHandler
      BY <2>1, IrqContexts
    <3>2. PICK a : a = Top.at
      OBVIOUS
    <3>3. a \in 1 .. Len(UartHandler) /\ a \in Nat \ {0} /\ Op = UartHandler[a]
      BY <3>1, <3>2, TopFacts
    <3>4. IF a <= 4 THEN Op = Reads[a] ELSE Lately(Op)
      BY <3>3, HandlerReady, ReadsOps DEF Ready, Lately
    <3>5. a <= 4
      BY <3>4 DEF Lately, Resting, Sending, Listens
    <3>6. a \in {1, 2, 3, 4}
      BY <3>3, <3>5
    <3>7. a = 3
      BY <3>4, <3>5, <3>6, ReadsOps DEF Resting, Sending
    <3> QED BY <3>1, <3>2, <3>7
  <2>3. Reading
    BY <2>2 DEF Reading
  <2> QED BY <2>1, <2>3, Found DEF IrqInv
<1> QED BY <1>1, <1>2, <1>3, Board, PTL DEF SpecBoth

-----------------------------------------------------------------------------
(* The C test's serial output. *)

P == INSTANCE UartTxProofs WITH Size <- RingSize, Message <- Numbered,
       ier <- c_ier, fifo <- c_fifo, shift <- c_shift, ip <- c_ip,
       sent <- c_sent

(* The two instances of UartTx, in MCConsole and here, are the same. *)
LEMMA SameAssumption == P!UartAssumption
  BY RingAssumption DEF C!UartAssumption, P!UartAssumption, C!Chars, P!Chars

LEMMA SameInit == C!Init => P!Init
  BY DEF C!Init, P!Init

LEMMA SameWriteSerial == C!WriteSerial => P!WriteSerial
  BY DEF C!WriteSerial, P!WriteSerial, C!Poll, P!Poll, C!TurnOff, P!TurnOff,
     C!Store, P!Store, C!Advance, P!Advance, C!Wrap, P!Wrap, C!TurnOn, P!TurnOn,
     C!Main, P!Main, C!WriteIer, P!WriteIer, C!Latch, P!Latch, C!Line, P!Line,
     C!Full, P!Full, C!Char, P!Char, C!ring, P!ring, C!uart, P!uart

LEMMA SameHandler == C!UartHandler => P!UartHandler
  BY DEF C!UartHandler, P!UartHandler, C!Enter, P!Enter, C!Identify, P!Identify,
     C!HandlerOff, P!HandlerOff, C!Start, P!Start, C!Return, P!Return,
     C!Handler, P!Handler, C!WriteIer, P!WriteIer, C!Latch, P!Latch, C!Line, P!Line,
     C!Empty, P!Empty, C!ring, P!ring, C!uart, P!uart

LEMMA SameNext == C!Next => P!Next
<1>1. C!Shift => P!Shift
  BY DEF C!Shift, P!Shift, C!Latch, P!Latch, C!Line, P!Line, C!ring, P!ring
<1>2. C!Transmit => P!Transmit
  BY DEF C!Transmit, P!Transmit, C!ring, P!ring
<1> QED BY <1>1, <1>2, SameWriteSerial, SameHandler DEF C!Next, P!Next

(* A step of either program keeps the invariant of UartTxProofs. *)
LEMMA PrinterStep == ASSUME P!Inv, [NextBoth]_both PROVE P!Inv'
<1>1. [P!Next]_P!vars
  <2>1. CASE CStep(C!Next)
    BY <2>1, SameNext DEF CStep
  <2>2. CASE RustStep(Next) \/ UNCHANGED both
    BY <2>2 DEF RustStep, both, cvars, P!vars, P!ring, P!uart
  <2> QED BY <2>1, <2>2 DEF NextBoth
<1> QED BY <1>1, SameAssumption, P!InvStep

(* MCConsole!InOrder: what write_serial of uart_interrupt.h has pushed leaves *)
(* the UART in order, also while a push or the handler is under way, with     *)
(* the proof of UartTxProofs for the variables of this module.                *)
THEOREM PrinterInOrder == SpecBoth => []InOrder
<1>1. InitBoth => P!Inv
  BY SameAssumption, SameInit, P!InvInit DEF InitBoth
<1>2. P!Inv /\ [NextBoth]_both => P!Inv'
  BY PrinterStep
<1>3. P!Inv => InOrder
  BY DEF P!Inv, P!Flow, P!Wire, InOrder, C!InOrder, P!Contents, C!Contents
<1> QED BY <1>1, <1>2, <1>3, PTL DEF SpecBoth
=============================================================================
