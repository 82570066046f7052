---------------------------- MODULE LsuBusProofs ----------------------------
(***************************************************************************)
(* The bus implements an ordered memory, for every set of addresses and    *)
(* values and every limit on the transactions in flight.                   *)
(*                                                                         *)
(* The invariant says why: a demultiplexer counts what is in flight behind *)
(* it, all of it is behind the port it has selected, and the other port's  *)
(* queues are empty.  The four request queues and the answers of a cycle   *)
(* are then one line each, whichever way it leads.                         *)
(***************************************************************************)
EXTENDS LsuBus, SequenceTheorems, TLAPS

-----------------------------------------------------------------------------
(* Queues. *)

One(b) == IF b THEN 1 ELSE 0

LEMMA NoneOrOne == ASSUME NEW n \in Nat, n <= 1 PROVE n = 0 \/ n = 1
  OBVIOUS

LEMMA NoneOfThree ==
  ASSUME NEW a \in Nat, NEW b \in Nat, NEW c \in Nat, (a + b) + c = 0
  PROVE  a = 0 /\ b = 0 /\ c = 0
  OBVIOUS

LEMMA WhenSeq ==
  ASSUME NEW S, NEW b \in BOOLEAN, NEW x, b => x \in S
  PROVE  When(b, x) \in Seq(S) /\ Len(When(b, x)) = One(b)
  BY DEF When, One

LEMMA PopSeq ==
  ASSUME NEW S, NEW s \in Seq(S), NEW b \in BOOLEAN, b => s # <<>>
  PROVE  /\ PopIf(s, b) \in Seq(S)
         /\ Len(PopIf(s, b)) = Len(s) - One(b)
  BY HeadTailProperties DEF PopIf, One

LEMMA EmptyLen ==
  ASSUME NEW S, NEW s \in Seq(S)
  PROVE  Len(s) \in Nat /\ (s = <<>> <=> Len(s) = 0)
  BY EmptySeq, LenProperties

(* A queue that may lose its head and get something new at its end. *)
Queue(s, b, c, x) == PopIf(s, b) \o When(c, x)

QueueOK(S, s, b, c, x) ==
  /\ Queue(s, b, c, x) \in Seq(S)
  /\ Len(Queue(s, b, c, x)) = (Len(s) - One(b)) + One(c)

LEMMA QueueSeq ==
  ASSUME NEW S, NEW s \in Seq(S), NEW b \in BOOLEAN, b => s # <<>>,
         NEW c \in BOOLEAN, NEW x, c => x \in S
  PROVE  QueueOK(S, s, b, c, x)
<1>1. PopIf(s, b) \in Seq(S) /\ Len(PopIf(s, b)) = Len(s) - One(b)
  BY PopSeq
<1>2. When(c, x) \in Seq(S) /\ Len(When(c, x)) = One(c)
  BY WhenSeq
<1> DEFINE p == PopIf(s, b)
           w == When(c, x)
<1>3. p \in Seq(S) /\ w \in Seq(S)
  BY <1>1, <1>2
<1>4. p \o w \in Seq(S) /\ Len(p \o w) = Len(p) + Len(w)
  <2> HIDE DEF p, w
  <2> QED BY <1>3, ConcatProperties
<1> QED BY <1>1, <1>2, <1>4 DEF Queue, QueueOK

(* The head of what is appended to is the head of the whole. *)
LEMMA HeadOfConcat ==
  ASSUME NEW S, NEW s \in Seq(S), NEW t \in Seq(S), s # <<>>
  PROVE  /\ s \o t # <<>>
         /\ Head(s \o t) = Head(s)
         /\ Tail(s \o t) = Tail(s) \o t
<1>1. Len(s) \in Nat \ {0} /\ Len(t) \in Nat
  BY EmptyLen
<1>2. /\ s \o t \in Seq(S) /\ Len(s \o t) = Len(s) + Len(t)
      /\ \A i \in 1 .. Len(s) + Len(t) :
           (s \o t)[i] = IF i <= Len(s) THEN s[i] ELSE t[i - Len(s)]
  BY ConcatProperties
<1>3. s \o t # <<>>
  BY <1>1, <1>2, EmptyLen
<1>4. Head(s \o t) = Head(s)
  BY <1>1, <1>2, <1>3, HeadTailProperties
<1>5. /\ Tail(s) \in Seq(S) /\ Len(Tail(s)) = Len(s) - 1
      /\ \A i \in 1 .. Len(s) - 1 : Tail(s)[i] = s[i + 1]
  BY <1>1, HeadTailProperties
<1>6. /\ Tail(s \o t) \in Seq(S) /\ Len(Tail(s \o t)) = Len(s) + Len(t) - 1
      /\ \A i \in 1 .. Len(s) + Len(t) - 1 : Tail(s \o t)[i] = (s \o t)[i + 1]
  BY <1>1, <1>2, <1>3, HeadTailProperties
<1>7. /\ Tail(s) \o t \in Seq(S) /\ Len(Tail(s) \o t) = Len(s) - 1 + Len(t)
      /\ \A i \in 1 .. Len(s) - 1 + Len(t) : (Tail(s) \o t)[i] =
           IF i <= Len(s) - 1 THEN Tail(s)[i] ELSE t[i - (Len(s) - 1)]
  BY <1>1, <1>5, ConcatProperties
<1>8. \A i \in 1 .. Len(s) + Len(t) - 1 : Tail(s \o t)[i] = (Tail(s) \o t)[i]
  <2> TAKE i \in 1 .. Len(s) + Len(t) - 1
  <2>1. i + 1 \in 1 .. Len(s) + Len(t)
    BY <1>1
  <2>2. CASE i <= Len(s) - 1
    <3>1. Tail(s \o t)[i] = s[i + 1]
      BY <1>1, <1>2, <1>6, <2>1, <2>2
    <3>2. (Tail(s) \o t)[i] = s[i + 1]
      BY <1>1, <1>5, <1>7, <2>2
    <3> QED BY <3>1, <3>2
  <2>3. CASE ~(i <= Len(s) - 1)
    <3>1. Tail(s \o t)[i] = t[(i + 1) - Len(s)]
      BY <1>1, <1>2, <1>6, <2>1, <2>3
    <3>2. (Tail(s) \o t)[i] = t[i - (Len(s) - 1)]
      BY <1>1, <1>7, <2>3
    <3>3. (i + 1) - Len(s) = i - (Len(s) - 1)
      BY <1>1
    <3> QED BY <3>1, <3>2, <3>3
  <2> QED BY <2>2, <2>3
<1>9. Tail(s \o t) = Tail(s) \o t
  BY <1>1, <1>6, <1>7, <1>8, SeqEqual
<1> QED BY <1>3, <1>4, <1>9

(* Popping the front of a concatenation. *)
LEMMA PopFront ==
  ASSUME NEW S, NEW s \in Seq(S), NEW t \in Seq(S), NEW b \in BOOLEAN,
         b => s # <<>>
  PROVE  PopIf(s, b) \o t = PopIf(s \o t, b)
  BY HeadOfConcat DEF PopIf

(* The head that is taken off is put in front again. *)
LEMMA HeadBack ==
  ASSUME NEW S, NEW s \in Seq(S), NEW b \in BOOLEAN, b => s # <<>>
  PROVE  When(b, Head(s)) \o PopIf(s, b) = s
<1>1. CASE ~b
  <2>1. <<>> \o s = s
    BY ConcatEmptySeq
  <2> QED BY <1>1, <2>1 DEF When, PopIf
<1>2. CASE b
  <2> DEFINE h == Head(s)
             t == Tail(s)
  <2>1. h \in S /\ t \in Seq(S) /\ Len(t) = Len(s) - 1
        /\ \A i \in 1 .. Len(t) : t[i] = s[i + 1]
    BY <1>2, HeadTailProperties
  <2>2. h = s[1] /\ Len(s) \in Nat \ {0}
    BY <1>2, EmptyLen
  <2> HIDE DEF h, t
  <2>3. <<h>> \in Seq(S) /\ Len(<<h>>) = 1 /\ <<h>>[1] = h
    BY <2>1
  <2>4. /\ <<h>> \o t \in Seq(S) /\ Len(<<h>> \o t) = 1 + Len(t)
        /\ \A i \in 1 .. 1 + Len(t) :
             (<<h>> \o t)[i] = IF i <= 1 THEN <<h>>[i] ELSE t[i - 1]
    BY <2>1, <2>3, ConcatProperties
  <2>5. Len(<<h>> \o t) = Len(s)
    BY <2>1, <2>2, <2>4
  <2>6. \A i \in 1 .. Len(s) : (<<h>> \o t)[i] = s[i]
    <3> TAKE i \in 1 .. Len(s)
    <3>1. CASE i = 1
      BY <2>1, <2>2, <2>3, <2>4, <3>1
    <3>2. CASE i # 1
      <4>1. i \in 2 .. 1 + Len(t) /\ i - 1 \in 1 .. Len(t)
        BY <2>1, <2>2, <3>2
      <4>2. (<<h>> \o t)[i] = t[i - 1]
        BY <2>1, <2>2, <2>4, <4>1
      <4>3. t[i - 1] = s[(i - 1) + 1]
        BY <2>1, <4>1
      <4>4. (i - 1) + 1 = i
        BY <4>1
      <4> QED BY <4>2, <4>3, <4>4
    <3> QED BY <3>1, <3>2
  <2>7. <<h>> \o t = s
    BY <2>4, <2>5, <2>6, SeqEqual
  <2> QED BY <1>2, <2>7 DEF h, t, When, PopIf
<1> QED BY <1>1, <1>2

(* A queue of one or none is its head. *)
LEMMA OneInQueue ==
  ASSUME NEW S, NEW s \in Seq(S), Len(s) <= 1
  PROVE  s = IF s # <<>> THEN <<Head(s)>> ELSE <<>>
<1>1. CASE s # <<>>
  <2> DEFINE h == Head(s)
  <2>1. Len(s) = 1 /\ h = s[1] /\ h \in S
    <3>1. Len(s) \in Nat /\ Len(s) # 0
      BY <1>1, EmptyLen
    <3>2. Len(s) = 1
      BY <3>1, NoneOrOne
    <3> QED BY <1>1, <3>2, HeadTailProperties
  <2> HIDE DEF h
  <2>2. <<h>> \in Seq(S) /\ Len(<<h>>) = 1 /\ <<h>>[1] = h
    BY <2>1
  <2>3. s = <<h>>
    BY <2>1, <2>2, SeqEqual
  <2> QED BY <1>1, <2>3 DEF h
<1> QED BY <1>1

-----------------------------------------------------------------------------
(* What moves in a cycle: the direct port (mg) or the core's cut (cg)      *)
(* grants a request, the crossbar passes one on to port xs (xg), the       *)
(* memory performs one from its cut (pm), the bridge ends an access (pa).  *)

(* The requests and the answers in each cut. *)
CoreA == cut["core"].a
CoreR == cut["core"].r
MemA == cut["mem"].a
MemR == cut["mem"].r
ApbA == cut["apb"].a
ApbR == cut["apb"].r

XbarAnswer == IF xbar.sel = "mem" THEN MemR ELSE ApbR

Answer ==
  IF lsu.sel = "direct" THEN When(mem = "ACK" /\ via = "direct", rdata)
                        ELSE CoreR

Moves(mg, cg, xg, xs, pm, pa) ==
  LET performed == IF mg THEN <<req>> ELSE When(pm, Head(MemA))
      accessed  == When(pa, Head(ApbA))
  IN /\ ~(mg /\ cg) /\ ~(mg /\ pm)
     /\ mg => /\ req # NoRequest /\ req.addr \in MemAddresses
              /\ Opens(lsu, "direct", Answer # <<>>)
     /\ cg => /\ req # NoRequest /\ Opens(lsu, "ext", Answer # <<>>)
              /\ Len(CoreA) < 2
     /\ xg => /\ CoreA # <<>>
              /\ Opens(xbar, xs, XbarAnswer # <<>>)
              /\ Len(IF xs = "mem" THEN MemA ELSE ApbA) < 2
     /\ pm => MemA # <<>>
     /\ pa => apb = "ACCESS" /\ busy
     /\ resp' = Answer
     /\ lsu' = Count(lsu, IF mg THEN "direct" ELSE "ext", mg \/ cg,
                     Answer # <<>>)
     /\ xbar' = Count(xbar, xs, xg, XbarAnswer # <<>>)
     /\ CoreA' = Queue(CoreA, xg, cg, req)
     /\ CoreR' = XbarAnswer
     /\ MemA' = Queue(MemA, pm, xg /\ xs = "mem", Head(CoreA))
     /\ MemR' = When(mem = "ACK" /\ via = "ext", rdata)
     /\ ApbA' = Queue(ApbA, pa, xg /\ xs = "apb", Head(CoreA))
     /\ ApbR' = When(apb = "HANDSHAKE", prdata)
     /\ mem' = IF mg \/ pm THEN "ACK" ELSE "IDLE"
     /\ via' = IF mg THEN "direct" ELSE "ext"
     /\ rdata' = IF performed # <<>> /\ ~Head(performed).we
                 THEN store[Head(performed).addr] ELSE rdata
     /\ apb' = ApbNext(ApbA # <<>>, pa)
     /\ busy' = (apb = "ACCESS" /\ ~pa)
     /\ prdata' = IF pa /\ ~Head(accessed).we
                  THEN store[Head(accessed).addr] ELSE prdata
     /\ store' = IF performed # <<>> THEN Stored(Head(performed))
                 ELSE IF pa THEN Stored(Head(accessed)) ELSE store
     /\ NextRequest(mg \/ cg)
     /\ dbg' \in BOOLEAN

LEMMA CycleMoves ==
  ASSUME NEW stalled, NEW ready \in BOOLEAN, TypeOK,
         Cycle(stalled, ready)
  PROVE  \E mg, cg, xg, pm, pa \in BOOLEAN, xs \in {"mem", "apb"} :
           Moves(mg, cg, xg, xs, pm, pa)
<1> DEFINE
      open == req # NoRequest /\ Opens(lsu, LsuSel, Answer # <<>>)
      memReq == open /\ LsuSel = "direct"
      mg == memReq /\ "dmem" \notin stalled
      pm == cut["mem"].a # <<>> /\ ~memReq /\ "dmem" \notin stalled
      cg == /\ open /\ LsuSel = "ext"
            /\ CutGrants("core") /\ "ext" \notin stalled
      xReq == cut["core"].a # <<>>
      xs == IF xReq THEN XbarSel(Head(cut["core"].a)) ELSE "mem"
      xg == /\ xReq /\ Opens(xbar, xs, cut[xbar.sel].r # <<>>)
            /\ CutGrants(xs) /\ "xbar" \notin stalled
      pa == apb = "ACCESS" /\ busy /\ ready
      performed == IF mg THEN <<req>> ELSE When(pm, Head(cut["mem"].a))
      accessed  == When(pa, Head(cut["apb"].a))
<1>1. xs \in {"mem", "apb"}
  BY DEF XbarSel
<1>0. busy \in BOOLEAN /\ xbar.sel \in {"mem", "apb"}
  BY DEF TypeOK
<1>2. /\ mg \in BOOLEAN /\ cg \in BOOLEAN /\ xg \in BOOLEAN
      /\ pm \in BOOLEAN /\ pa \in BOOLEAN
  BY <1>0
<1>3. /\ ~(mg /\ cg) /\ ~(mg /\ pm)
      /\ pm => cut["mem"].a # <<>>
      /\ pa => apb = "ACCESS" /\ busy
  BY DEF LsuSel
<1>4. /\ mg => /\ req # NoRequest /\ req.addr \in MemAddresses
               /\ Opens(lsu, "direct", Answer # <<>>)
      /\ cg => /\ req # NoRequest /\ Opens(lsu, "ext", Answer # <<>>)
               /\ Len(cut["core"].a) < 2
      /\ xg => /\ cut["core"].a # <<>>
               /\ Opens(xbar, xs, cut[xbar.sel].r # <<>>)
               /\ Len(cut[xs].a) < 2
  BY DEF LsuSel, CutGrants
<1>5. /\ resp' = Answer
      /\ lsu' = Count(lsu, LsuSel, mg \/ cg, Answer # <<>>)
      /\ xbar' = Count(xbar, xs, xg, cut[xbar.sel].r # <<>>)
  BY DEF Cycle, Answer, CoreR
<1>6. Count(lsu, LsuSel, mg \/ cg, Answer # <<>>)
        = Count(lsu, IF mg THEN "direct" ELSE "ext", mg \/ cg, Answer # <<>>)
  BY DEF Count
<1>7. cut' = [c \in Cuts |->
        CASE c = "core" ->
               [a |-> PopIf(cut[c].a, xg) \o When(cg, req),
                r |-> cut[xbar.sel].r]
          [] c = "mem" ->
               [a |-> PopIf(cut[c].a, pm) \o
                        When(xg /\ xs = c, Head(cut["core"].a)),
                r |-> When(mem = "ACK" /\ via = "ext", rdata)]
          [] c = "apb" ->
               [a |-> PopIf(cut[c].a, pa) \o
                        When(xg /\ xs = c, Head(cut["core"].a)),
                r |-> When(apb = "HANDSHAKE", prdata)]]
  BY DEF Cycle, Answer, CoreR
<1>8. /\ cut'["core"].a = PopIf(cut["core"].a, xg) \o When(cg, req)
      /\ cut'["core"].r = cut[xbar.sel].r
      /\ cut'["mem"].a = PopIf(cut["mem"].a, pm)
                           \o When(xg /\ xs = "mem", Head(cut["core"].a))
      /\ cut'["mem"].r = When(mem = "ACK" /\ via = "ext", rdata)
      /\ cut'["apb"].a = PopIf(cut["apb"].a, pa)
                           \o When(xg /\ xs = "apb", Head(cut["core"].a))
      /\ cut'["apb"].r = When(apb = "HANDSHAKE", prdata)
  <2> HIDE DEF mg, cg, xg, pm, pa, xs
  <2> QED BY <1>7 DEF Cuts
<1>9. performed # <<>> <=> mg \/ pm
  BY DEF When
<1>10. /\ mem' = MemNext(performed # <<>>)
       /\ via' = IF mg THEN "direct" ELSE "ext"
       /\ rdata' = IF performed # <<>> /\ ~Head(performed).we
                   THEN store[Head(performed).addr] ELSE rdata
       /\ apb' = ApbNext(cut["apb"].a # <<>>, pa)
       /\ busy' = (apb = "ACCESS" /\ ~pa)
  BY DEF Cycle, Answer, CoreR
<1>11. /\ prdata' = IF pa /\ ~Head(accessed).we
                    THEN store[Head(accessed).addr] ELSE prdata
       /\ store' = IF performed # <<>> THEN Stored(Head(performed))
                   ELSE IF pa THEN Stored(Head(accessed)) ELSE store
       /\ NextRequest(mg \/ cg)
       /\ dbg' \in BOOLEAN
  BY DEF Cycle, Answer, CoreR
<1>12. Moves(mg, cg, xg, xs, pm, pa)
  <2>1. XbarAnswer = cut[xbar.sel].r
    BY <1>0 DEF XbarAnswer, MemR, ApbR
  <2>2. cut[xs].a = IF xs = "mem" THEN MemA ELSE ApbA
    BY <1>1 DEF MemA, ApbA
  <2> HIDE DEF mg, cg, xg, pm, pa, xs
  <2> QED BY <1>3, <1>4, <1>5, <1>6, <1>8, <1>9, <1>10, <1>11, <2>1, <2>2
          DEF Moves, MemNext, Queue, CoreA, CoreR, MemA, MemR, ApbA, ApbR
<1> HIDE DEF mg, cg, xg, pm, pa, xs
<1> QED BY <1>1, <1>2, <1>12

-----------------------------------------------------------------------------
(* The invariant. *)

(* What is behind each port of the crossbar, and behind the crossbar. *)
BehindMem == Len(MemA) + Len(MemR)
               + One(mem = "ACK" /\ via = "ext")
BehindApb == Len(ApbA) + Len(ApbR) + One(apb = "HANDSHAKE")

XbarFlow ==
  /\ xbar.sel = "mem" => xbar.cnt = BehindMem /\ BehindApb = 0
  /\ xbar.sel = "apb" => xbar.cnt = BehindApb /\ BehindMem = 0

LsuFlow ==
  LET ext == Len(CoreA) + Len(CoreR) + xbar.cnt
      direct == One(mem = "ACK" /\ via = "direct")
  IN /\ lsu.sel = "direct" => lsu.cnt = direct /\ ext = 0
     /\ lsu.sel = "ext" => lsu.cnt = ext /\ direct = 0

ApbBusy == (apb = "ACCESS" => ApbA # <<>>) /\ (busy => apb = "ACCESS")

(* Answers do not queue: a cut passes one on in the cycle after it came. *)
AnswersPass == Len(CoreR) <= 1 /\ Len(MemR) <= 1 /\ Len(ApbR) <= 1

Inv == TypeOK /\ XbarFlow /\ LsuFlow /\ ApbBusy /\ AnswersPass

LEMMA CutType ==
  ASSUME TypeOK
  PROVE  /\ CoreA \in Seq(Requests) /\ Len(CoreA) \in Nat /\ Len(CoreA) <= 2
         /\ MemA \in Seq(Requests) /\ Len(MemA) \in Nat /\ Len(MemA) <= 2
         /\ ApbA \in Seq(Requests) /\ Len(ApbA) \in Nat /\ Len(ApbA) <= 2
         /\ CoreR \in Seq(Values) /\ Len(CoreR) \in Nat
         /\ MemR \in Seq(Values) /\ Len(MemR) \in Nat
         /\ ApbR \in Seq(Values) /\ Len(ApbR) \in Nat
<1>1. \A c \in Cuts : /\ cut[c].a \in Seq(Requests) /\ Len(cut[c].a) <= 2
                      /\ cut[c].r \in Seq(Values) /\ Len(cut[c].r) <= 2
  BY DEF TypeOK
<1>2. /\ CoreA \in Seq(Requests) /\ Len(CoreA) <= 2
      /\ MemA \in Seq(Requests) /\ Len(MemA) <= 2
      /\ ApbA \in Seq(Requests) /\ Len(ApbA) <= 2
      /\ CoreR \in Seq(Values) /\ MemR \in Seq(Values) /\ ApbR \in Seq(Values)
  BY <1>1 DEF Cuts, CoreA, MemA, ApbA, CoreR, MemR, ApbR
<1> QED BY <1>2, EmptyLen

LEMMA BusInit == ASSUME Init PROVE Inv
<1>1. \A S : <<>> \in Seq(S) /\ Len(<<>>) = 0
  BY EmptySeq
<1>2. \A c \in Cuts : cut[c].a = <<>> /\ cut[c].r = <<>>
  BY DEF Init
<1>3. \A c \in Cuts : /\ cut[c].a \in Seq(Requests) /\ Len(cut[c].a) = 0
                      /\ cut[c].r \in Seq(Values) /\ Len(cut[c].r) = 0
  BY <1>1, <1>2
<1>4. /\ lsu = [sel |-> "direct", cnt |-> 0] /\ xbar = [sel |-> "mem", cnt |-> 0]
      /\ mem = "IDLE" /\ via = "direct" /\ apb = "SETUP" /\ ~busy
      /\ resp \in Seq(Values) /\ Len(resp) = 0
  BY <1>1 DEF Init
<1>5. TypeOK
  <2>1. MaxTrans \in Nat
    BY BusAssumption DEF BusAssumption
  <2>2. /\ req = NoRequest /\ dbg = FALSE /\ busy = FALSE
        /\ rdata \in Values /\ prdata \in Values /\ store \in [Addresses -> Values]
    BY DEF Init
  <2>3. \A c \in Cuts : /\ cut[c].a \in Seq(Requests) /\ Len(cut[c].a) <= 2
                        /\ cut[c].r \in Seq(Values) /\ Len(cut[c].r) <= 2
    BY <1>3
  <2>4. Len(resp) <= 1
    BY <1>4
  <2>5. lsu \in [sel : {"direct", "ext"}, cnt : 0 .. MaxTrans]
        /\ xbar \in [sel : {"mem", "apb"}, cnt : 0 .. MaxTrans]
    BY <1>4, <2>1
  <2> QED BY <1>4, <2>2, <2>3, <2>4, <2>5 DEF TypeOK
<1>6. /\ Len(CoreA) = 0 /\ Len(CoreR) = 0 /\ Len(MemA) = 0 /\ Len(MemR) = 0
      /\ Len(ApbA) = 0 /\ Len(ApbR) = 0
  BY <1>3 DEF Cuts, CoreA, CoreR, MemA, MemR, ApbA, ApbR
<1>7. BehindMem = 0 /\ BehindApb = 0
  BY <1>4, <1>6 DEF BehindMem, BehindApb, One
<1> QED BY <1>4, <1>5, <1>6, <1>7 DEF Inv, XbarFlow, LsuFlow, ApbBusy,
        AnswersPass, One

(* How the queues change. *)
Queues(mg, cg, xg, xs, pm, pa) ==
  /\ (xg => CoreA # <<>> /\ Head(CoreA) \in Requests)
  /\ (cg => req \in Requests) /\ (mg => req \in Requests)
  /\ (pm => MemA # <<>>) /\ (pa => ApbA # <<>>)
  /\ CoreA' \in Seq(Requests)
  /\ Len(CoreA') = (Len(CoreA) - One(xg)) + One(cg)
  /\ MemA' \in Seq(Requests)
  /\ Len(MemA') = (Len(MemA) - One(pm)) + One(xg /\ xs = "mem")
  /\ ApbA' \in Seq(Requests)
  /\ Len(ApbA') = (Len(ApbA) - One(pa)) + One(xg /\ xs = "apb")
  /\ CoreR' \in Seq(Values) /\ CoreR' = XbarAnswer
  /\ MemR' \in Seq(Values)
  /\ Len(MemR') = One(mem = "ACK" /\ via = "ext")
  /\ ApbR' \in Seq(Values)
  /\ Len(ApbR') = One(apb = "HANDSHAKE")

LEMMA Lengths ==
  ASSUME Inv, NEW mg \in BOOLEAN, NEW cg \in BOOLEAN, NEW xg \in BOOLEAN,
         NEW xs \in {"mem", "apb"}, NEW pm \in BOOLEAN, NEW pa \in BOOLEAN,
         Moves(mg, cg, xg, xs, pm, pa)
  PROVE  Queues(mg, cg, xg, xs, pm, pa)
<1>1. TypeOK /\ ApbBusy
  BY DEF Inv
<1>2. req \in Requests \cup {NoRequest} /\ rdata \in Values /\ prdata \in Values
  BY <1>1 DEF TypeOK
<1>3. (xg => CoreA # <<>>) /\ (cg => req \in Requests) /\ (mg => req \in Requests)
      /\ (pm => MemA # <<>>) /\ (pa => ApbA # <<>>)
  BY <1>1, <1>2 DEF Moves, ApbBusy
<1>4. xg => Head(CoreA) \in Requests
  BY <1>1, <1>3, CutType, HeadTailProperties
<1> DEFINE toMem == xg /\ xs = "mem"
           toApb == xg /\ xs = "apb"
           atMem == mem = "ACK" /\ via = "ext"
           atApb == apb = "HANDSHAKE"
<1>5. /\ CoreA' = Queue(CoreA, xg, cg, req)
      /\ MemA' = Queue(MemA, pm, toMem, Head(CoreA))
      /\ ApbA' = Queue(ApbA, pa, toApb, Head(CoreA))
      /\ CoreR' = XbarAnswer
      /\ MemR' = When(atMem, rdata)
      /\ ApbR' = When(atApb, prdata)
  BY DEF Moves
<1>6. /\ toMem \in BOOLEAN /\ (toMem => Head(CoreA) \in Requests)
      /\ toApb \in BOOLEAN /\ (toApb => Head(CoreA) \in Requests)
      /\ atMem \in BOOLEAN /\ atApb \in BOOLEAN
  BY <1>4
<1>7. XbarAnswer \in Seq(Values)
  BY <1>1, CutType DEF XbarAnswer
<1>8. CoreA \in Seq(Requests) /\ MemA \in Seq(Requests) /\ ApbA \in Seq(Requests)
  BY <1>1, CutType
<1> HIDE DEF toMem, toApb, atMem, atApb
<1>9. QueueOK(Requests, CoreA, xg, cg, req)
  BY <1>3, <1>8, QueueSeq
<1>10. QueueOK(Requests, MemA, pm, toMem, Head(CoreA))
  BY <1>3, <1>6, <1>8, QueueSeq
<1>11. QueueOK(Requests, ApbA, pa, toApb, Head(CoreA))
  BY <1>3, <1>6, <1>8, QueueSeq
<1>12. MemR' \in Seq(Values) /\ Len(MemR') = One(atMem)
  BY <1>2, <1>5, <1>6, WhenSeq
<1>13. ApbR' \in Seq(Values) /\ Len(ApbR') = One(atApb)
  BY <1>2, <1>5, <1>6, WhenSeq
<1> QED BY <1>3, <1>4, <1>5, <1>7, <1>9, <1>10, <1>11, <1>12, <1>13
        DEF toMem, toApb, atMem, atApb, QueueOK, Queues

-----------------------------------------------------------------------------
(* Every cycle keeps the invariant. *)

XbarMoved(xg) ==
  /\ XbarFlow'
  /\ xbar'.cnt = (xbar.cnt + One(xg)) - One(XbarAnswer # <<>>)
  /\ Len(XbarAnswer) = One(XbarAnswer # <<>>)
  /\ xbar' \in [sel : {"mem", "apb"}, cnt : 0 .. MaxTrans]

LEMMA XbarFlowStep ==
  ASSUME Inv, NEW mg \in BOOLEAN, NEW cg \in BOOLEAN, NEW xg \in BOOLEAN,
         NEW xs \in {"mem", "apb"}, NEW pm \in BOOLEAN, NEW pa \in BOOLEAN,
         Moves(mg, cg, xg, xs, pm, pa)
  PROVE  XbarMoved(xg)
<1>1. TypeOK /\ XbarFlow /\ Len(MemR) <= 1 /\ Len(ApbR) <= 1
  BY DEF Inv, AnswersPass
<1>2. /\ Len(MemA) \in Nat /\ Len(MemR) \in Nat
      /\ Len(ApbA) \in Nat /\ Len(ApbR) \in Nat
  BY <1>1, CutType
<1>3. /\ xbar.sel \in {"mem", "apb"} /\ xbar.cnt \in 0 .. MaxTrans
      /\ apb \in {"SETUP", "ACCESS", "HANDSHAKE"} /\ mem \in {"IDLE", "ACK"}
      /\ via \in {"direct", "ext"}
  BY <1>1 DEF TypeOK
<1>4. MaxTrans \in Nat
  BY BusAssumption DEF BusAssumption
<1> DEFINE answered == XbarAnswer # <<>>
<1>5. Queues(mg, cg, xg, xs, pm, pa)
  BY Lengths
<1>6. /\ xbar' = Count(xbar, xs, xg, answered)
      /\ xg => Opens(xbar, xs, answered)
      /\ mem' = IF mg \/ pm THEN "ACK" ELSE "IDLE"
      /\ via' = IF mg THEN "direct" ELSE "ext"
      /\ apb' = ApbNext(ApbA # <<>>, pa)
      /\ ~(mg /\ pm)
      /\ pa => apb = "ACCESS"
      /\ pm => MemA # <<>>
      /\ pa => ApbA # <<>>
  BY <1>5 DEF Moves, Queues
<1> DEFINE atMem == One(mem = "ACK" /\ via = "ext")
           atApb == One(apb = "HANDSHAKE")
           toMem == One(xg /\ xs = "mem")
           toApb == One(xg /\ xs = "apb")
<1>7. atMem \in 0 .. 1 /\ atApb \in 0 .. 1 /\ toMem \in 0 .. 1 /\ toApb \in 0 .. 1
      /\ One(pm) \in 0 .. 1 /\ One(pa) \in 0 .. 1
  BY DEF One
<1>8. /\ Len(MemA') = (Len(MemA) - One(pm)) + toMem
      /\ Len(ApbA') = (Len(ApbA) - One(pa)) + toApb
      /\ Len(MemR') = atMem
      /\ Len(ApbR') = atApb
  BY <1>5 DEF Queues
<1>9. atApb' = One(pa)
  BY <1>3, <1>6 DEF ApbNext, One
<1>10. atMem' = One(pm)
  BY <1>6 DEF One
<1>11. BehindMem = Len(MemA) + Len(MemR) + atMem
       /\ BehindMem' = Len(MemA') + Len(MemR') + atMem'
  BY DEF BehindMem
<1>12. BehindApb = Len(ApbA) + Len(ApbR) + atApb
       /\ BehindApb' = Len(ApbA') + Len(ApbR') + atApb'
  BY DEF BehindApb
<1> HIDE DEF atMem, atApb, toMem, toApb
<1>13. BehindMem' = (BehindMem - Len(MemR)) + toMem
  BY <1>2, <1>7, <1>8, <1>10, <1>11, SMTT(40)
<1>14. BehindApb' = (BehindApb - Len(ApbR)) + toApb
  BY <1>2, <1>7, <1>8, <1>9, <1>12, SMTT(40)
<1>15. /\ xbar' = [sel |-> IF xg THEN xs ELSE xbar.sel,
                    cnt |-> (xbar.cnt + One(xg)) - One(answered)]
       /\ xg => /\ xbar.cnt < MaxTrans
                /\ xbar.sel = xs \/ xbar.cnt = 0 \/ (xbar.cnt = 1 /\ answered)
  BY <1>6 DEF Count, Opens, One
<1>16. One(xg) \in 0 .. 1 /\ One(answered) \in 0 .. 1 /\ (xg <=> One(xg) = 1)
       /\ (answered <=> One(answered) = 1)
  BY DEF One
<1>17. (toMem = IF xs = "mem" THEN One(xg) ELSE 0)
       /\ (toApb = IF xs = "apb" THEN One(xg) ELSE 0)
  BY DEF toMem, toApb, One
<1>18. CASE xbar.sel = "mem"
  <2>0. XbarAnswer = MemR
    BY <1>18 DEF XbarAnswer
  <2>1. (answered => Len(MemR) = 1) /\ (~answered => Len(MemR) = 0)
    <3>1. (MemR # <<>> => Len(MemR) = 1) /\ (MemR = <<>> => Len(MemR) = 0)
      <4>1. MemR \in Seq(Values) /\ Len(MemR) \in Nat
        BY <1>1, CutType
      <4>2. MemR = <<>> <=> Len(MemR) = 0
        BY <4>1, EmptyLen
      <4>3. Len(MemR) = 0 \/ Len(MemR) = 1
        BY <1>1, <1>2, NoneOrOne
      <4> QED BY <4>2, <4>3
    <3> QED BY <2>0, <3>1
  <2>2. xbar.cnt = BehindMem /\ BehindApb = 0 /\ Len(MemR) <= BehindMem
        /\ Len(ApbR) = 0
    BY <1>1, <1>2, <1>7, <1>11, <1>12, <1>18 DEF XbarFlow
  <2> HIDE DEF answered
  <2>3. One(answered) = Len(MemR)
    BY <2>1 DEF One
  <2>4. xbar'.cnt \in 0 .. MaxTrans
    BY <1>3, <1>4, <1>15, <1>16, <2>2, <2>3, <1>2
  <2>5. XbarFlow'
    BY <1>2, <1>3, <1>13, <1>14, <1>15, <1>16, <1>17, <1>18, <2>1, <2>2, <2>3
       DEF XbarFlow
  <2>6. xbar' \in [sel : {"mem", "apb"}, cnt : 0 .. MaxTrans]
    BY <1>3, <1>15, <2>4
  <2>7. xbar'.cnt = (xbar.cnt + One(xg)) - One(answered)
    BY <1>15
  <2>8. Len(XbarAnswer) = One(answered)
    BY <2>0, <2>3
  <2> QED BY <2>5, <2>6, <2>7, <2>8 DEF answered, XbarMoved
<1>19. CASE xbar.sel = "apb"
  <2>0. XbarAnswer = ApbR
    BY <1>19 DEF XbarAnswer
  <2>1. (answered => Len(ApbR) = 1) /\ (~answered => Len(ApbR) = 0)
    <3>1. (ApbR # <<>> => Len(ApbR) = 1) /\ (ApbR = <<>> => Len(ApbR) = 0)
      <4>1. ApbR \in Seq(Values) /\ Len(ApbR) \in Nat
        BY <1>1, CutType
      <4>2. ApbR = <<>> <=> Len(ApbR) = 0
        BY <4>1, EmptyLen
      <4>3. Len(ApbR) = 0 \/ Len(ApbR) = 1
        BY <1>1, <1>2, NoneOrOne
      <4> QED BY <4>2, <4>3
    <3> QED BY <2>0, <3>1
  <2>2. xbar.cnt = BehindApb /\ BehindMem = 0 /\ Len(ApbR) <= BehindApb
        /\ Len(MemR) = 0
    BY <1>1, <1>2, <1>7, <1>11, <1>12, <1>19 DEF XbarFlow
  <2> HIDE DEF answered
  <2>3. One(answered) = Len(ApbR)
    BY <2>1 DEF One
  <2>4. xbar'.cnt \in 0 .. MaxTrans
    BY <1>3, <1>4, <1>15, <1>16, <2>2, <2>3, <1>2
  <2>5. XbarFlow'
    BY <1>2, <1>3, <1>13, <1>14, <1>15, <1>16, <1>17, <1>19, <2>1, <2>2, <2>3
       DEF XbarFlow
  <2>6. xbar' \in [sel : {"mem", "apb"}, cnt : 0 .. MaxTrans]
    BY <1>3, <1>15, <2>4
  <2>7. xbar'.cnt = (xbar.cnt + One(xg)) - One(answered)
    BY <1>15
  <2>8. Len(XbarAnswer) = One(answered)
    BY <2>0, <2>3
  <2> QED BY <2>5, <2>6, <2>7, <2>8 DEF answered, XbarMoved
<1> QED BY <1>3, <1>18, <1>19

LsuMoved ==
  /\ LsuFlow'
  /\ lsu' \in [sel : {"direct", "ext"}, cnt : 0 .. MaxTrans]

LEMMA LsuFlowStep ==
  ASSUME Inv, NEW mg \in BOOLEAN, NEW cg \in BOOLEAN, NEW xg \in BOOLEAN,
         NEW xs \in {"mem", "apb"}, NEW pm \in BOOLEAN, NEW pa \in BOOLEAN,
         Moves(mg, cg, xg, xs, pm, pa)
  PROVE  LsuMoved
<1>1. TypeOK /\ LsuFlow /\ Len(CoreR) <= 1
  BY DEF Inv, AnswersPass
<1>2. Len(CoreA) \in Nat /\ Len(CoreR) \in Nat
  BY <1>1, CutType
<1>3. /\ lsu.sel \in {"direct", "ext"} /\ lsu.cnt \in 0 .. MaxTrans
      /\ xbar.cnt \in Nat
  BY <1>1 DEF TypeOK
<1>4. MaxTrans \in Nat
  BY BusAssumption DEF BusAssumption
<1> DEFINE answered == Answer # <<>>
<1>5. Queues(mg, cg, xg, xs, pm, pa) /\ XbarMoved(xg)
  BY Lengths, XbarFlowStep
<1>6. /\ lsu' = Count(lsu, IF mg THEN "direct" ELSE "ext", mg \/ cg, answered)
      /\ mg => Opens(lsu, "direct", answered)
      /\ cg => Opens(lsu, "ext", answered)
      /\ ~(mg /\ cg)
      /\ mem' = IF mg \/ pm THEN "ACK" ELSE "IDLE"
      /\ via' = IF mg THEN "direct" ELSE "ext"
  BY DEF Moves
<1> DEFINE direct == One(mem = "ACK" /\ via = "direct")
           ext == Len(CoreA) + Len(CoreR) + xbar.cnt
           n == Len(XbarAnswer)
<1>7. direct \in 0 .. 1 /\ One(mg) \in 0 .. 1 /\ One(cg) \in 0 .. 1
      /\ One(xg) \in 0 .. 1 /\ One(XbarAnswer # <<>>) \in 0 .. 1
  BY DEF One
<1>8. /\ Len(CoreA') = (Len(CoreA) - One(xg)) + One(cg)
      /\ Len(CoreR') = n
      /\ xbar'.cnt = (xbar.cnt + One(xg)) - n
      /\ n \in 0 .. 1
  BY <1>5, <1>7 DEF Queues, XbarMoved
<1>9. direct' = One(mg)
  BY <1>6 DEF One
<1>10. LsuFlow <=> /\ lsu.sel = "direct" => lsu.cnt = direct /\ ext = 0
                   /\ lsu.sel = "ext" => lsu.cnt = ext /\ direct = 0
  BY DEF LsuFlow
<1>11. LsuFlow' <=> /\ lsu'.sel = "direct" => lsu'.cnt = direct' /\ ext' = 0
                    /\ lsu'.sel = "ext" => lsu'.cnt = ext' /\ direct' = 0
  BY DEF LsuFlow
<1>12. ext' = (ext - Len(CoreR)) + One(cg) /\ Len(CoreR) <= ext
  <2> HIDE DEF n
  <2>1. ext' = Len(CoreA') + Len(CoreR') + xbar'.cnt
    OBVIOUS
  <2> HIDE DEF ext
  <2>2. ext' = ((Len(CoreA) - One(xg)) + One(cg)) + xbar.cnt + One(xg)
    BY <1>2, <1>3, <1>7, <1>8, <2>1
  <2> QED BY <1>2, <1>3, <1>7, <2>2 DEF ext
<1>13. /\ lsu'.sel = IF mg THEN "direct" ELSE IF cg THEN "ext" ELSE lsu.sel
       /\ lsu'.cnt = (lsu.cnt + One(mg \/ cg)) - One(answered)
       /\ lsu' = [sel |-> lsu'.sel, cnt |-> lsu'.cnt]
       /\ mg \/ cg =>
            /\ lsu.cnt < MaxTrans
            /\ \/ lsu.sel = IF mg THEN "direct" ELSE "ext"
               \/ lsu.cnt = 0 \/ (lsu.cnt = 1 /\ answered)
  BY <1>6 DEF Count, Opens, One
<1>14. One(answered) = IF lsu.sel = "direct" THEN direct ELSE Len(CoreR)
  <2>1. CASE lsu.sel = "direct"
    BY <2>1 DEF Answer, When, One
  <2>2. CASE lsu.sel = "ext"
    <3>1. Len(CoreR) = 0 \/ Len(CoreR) = 1
      BY <1>1, <1>2, NoneOrOne
    <3>2. answered <=> CoreR # <<>>
      BY <2>2 DEF Answer
    <3>3. CoreR = <<>> <=> Len(CoreR) = 0
      BY <1>1, CutType, EmptyLen
    <3> QED BY <2>2, <3>1, <3>2, <3>3 DEF One
  <2> QED BY <1>3, <2>1, <2>2
<1>15. /\ One(answered) \in 0 .. 1 /\ (answered <=> One(answered) = 1)
       /\ One(mg \/ cg) = One(mg) + One(cg)
       /\ (mg <=> One(mg) = 1) /\ (cg <=> One(cg) = 1)
  BY <1>6 DEF One
<1> HIDE DEF answered, direct, ext
<1>16. ext \in Nat
  BY <1>2, <1>3 DEF ext
<1>17. LsuFlow' /\ lsu'.cnt \in 0 .. MaxTrans
  <2>1. CASE lsu.sel = "direct"
    <3>1. lsu.cnt = direct /\ ext = 0 /\ Len(CoreR) = 0 /\ One(answered) = direct
      BY <1>1, <1>2, <1>10, <1>12, <1>14, <2>1
    <3>2. ext' = One(cg) /\ lsu'.cnt = One(mg) + One(cg)
      BY <1>7, <1>12, <1>13, <1>15, <3>1
    <3> QED BY <1>4, <1>3, <1>7, <1>9, <1>11, <1>13, <1>15, <2>1, <3>1, <3>2
  <2>2. CASE lsu.sel = "ext"
    <3>1. lsu.cnt = ext /\ direct = 0 /\ One(answered) = Len(CoreR)
      BY <1>1, <1>10, <1>14, <2>2
    <3>2. lsu'.cnt = (ext + One(mg) + One(cg)) - Len(CoreR)
      BY <1>2, <1>7, <1>13, <1>15, <1>16, <3>1
    <3>3. mg => ext - Len(CoreR) = 0
      BY <1>2, <1>13, <1>15, <1>16, <2>2, <3>1, <1>12
    <3> QED BY <1>2, <1>3, <1>4, <1>7, <1>9, <1>11, <1>12, <1>13, <1>15, <1>16,
               <2>2, <3>1, <3>2, <3>3
  <2> QED BY <1>3, <2>1, <2>2
<1>19. lsu' \in [sel : {"direct", "ext"}, cnt : 0 .. MaxTrans]
  BY <1>3, <1>13, <1>17
<1> QED BY <1>17, <1>19 DEF LsuMoved

(* The request that a write-like operation performs. *)
LEMMA StoredType ==
  ASSUME TypeOK, NEW r \in Requests
  PROVE  /\ Stored(r) \in [Addresses -> Values] /\ store[r.addr] \in Values
         /\ r.we \in BOOLEAN /\ r.addr \in Addresses /\ r.val \in Values
<1>1. r.we \in BOOLEAN /\ r.addr \in Addresses /\ r.val \in Values
  BY BusAssumption DEF Requests, BusAssumption
<1>2. store \in [Addresses -> Values]
  BY DEF TypeOK
<1> QED BY <1>1, <1>2 DEF Stored

(* What is performed, by the memory for either port and by the bridge. *)
Performed(mg, pm, pa) ==
  /\ mg => store' = Stored(req)
           /\ rdata' = IF req.we THEN rdata ELSE store[req.addr]
  /\ pm => store' = Stored(Head(MemA))
           /\ rdata' = IF Head(MemA).we THEN rdata ELSE store[Head(MemA).addr]
  /\ ~mg /\ ~pm => rdata' = rdata
                   /\ store' = IF pa THEN Stored(Head(ApbA)) ELSE store
  /\ prdata' = IF pa /\ ~Head(ApbA).we THEN store[Head(ApbA).addr] ELSE prdata

LEMMA Performing ==
  ASSUME NEW mg \in BOOLEAN, NEW cg \in BOOLEAN, NEW xg \in BOOLEAN,
         NEW xs \in {"mem", "apb"}, NEW pm \in BOOLEAN, NEW pa \in BOOLEAN,
         Moves(mg, cg, xg, xs, pm, pa)
  PROVE  Performed(mg, pm, pa)
<1> DEFINE performed == IF mg THEN <<req>> ELSE When(pm, Head(MemA))
           accessed == When(pa, Head(ApbA))
<1>1. \A x : <<x>> # <<>> /\ Head(<<x>>) = x
  OBVIOUS
<1>2. /\ mg => performed # <<>> /\ Head(performed) = req
      /\ ~mg /\ pm => performed # <<>> /\ Head(performed) = Head(MemA)
      /\ ~mg /\ ~pm => performed = <<>>
  <2> DEFINE h == Head(MemA)
  <2> HIDE DEF h
  <2>1. (pm => When(pm, h) = <<h>>) /\ (~pm => When(pm, h) = <<>>)
    BY DEF When
  <2>2. performed = IF mg THEN <<req>> ELSE When(pm, h)
    BY DEF h
  <2> HIDE DEF performed
  <2>3. mg => performed = <<req>>
    BY <2>2
  <2>4. ~mg /\ pm => performed = <<h>>
    BY <2>1, <2>2
  <2>5. ~mg /\ ~pm => performed = <<>>
    BY <2>1, <2>2
  <2> QED BY <1>1, <2>3, <2>4, <2>5 DEF h
<1>3. pa => Head(accessed) = Head(ApbA)
  <2> DEFINE h == Head(ApbA)
  <2> HIDE DEF h
  <2>1. pa => When(pa, h) = <<h>>
    BY DEF When
  <2> QED BY <1>1, <2>1 DEF h
<1>4. /\ rdata' = IF performed # <<>> /\ ~Head(performed).we
                  THEN store[Head(performed).addr] ELSE rdata
      /\ prdata' = IF pa /\ ~Head(accessed).we
                   THEN store[Head(accessed).addr] ELSE prdata
      /\ store' = IF performed # <<>> THEN Stored(Head(performed))
                  ELSE IF pa THEN Stored(Head(accessed)) ELSE store
      /\ ~(mg /\ pm)
  BY DEF Moves
<1> HIDE DEF performed, accessed
<1> QED BY <1>2, <1>3, <1>4 DEF Performed

LEMMA InvStep ==
  ASSUME Inv, NEW mg \in BOOLEAN, NEW cg \in BOOLEAN, NEW xg \in BOOLEAN,
         NEW xs \in {"mem", "apb"}, NEW pm \in BOOLEAN, NEW pa \in BOOLEAN,
         Moves(mg, cg, xg, xs, pm, pa)
  PROVE  Inv'
<1>1. TypeOK /\ AnswersPass /\ ApbBusy
  BY DEF Inv
<1>2. Queues(mg, cg, xg, xs, pm, pa) /\ XbarMoved(xg) /\ LsuMoved
  BY Lengths, XbarFlowStep, LsuFlowStep
<1>3. /\ apb \in {"SETUP", "ACCESS", "HANDSHAKE"} /\ busy \in BOOLEAN
      /\ rdata \in Values /\ prdata \in Values /\ store \in [Addresses -> Values]
      /\ req \in Requests \cup {NoRequest}
  BY <1>1 DEF TypeOK
<1>4. AnswersPass'
  <2>1. Len(CoreR') <= 1
    BY <1>2 DEF Queues, XbarMoved, One
  <2>2. Len(MemR') <= 1
    BY <1>2 DEF Queues, One
  <2>3. Len(ApbR') <= 1
    BY <1>2 DEF Queues, One
  <2> QED BY <2>1, <2>2, <2>3 DEF AnswersPass
<1>5. ApbBusy'
  <2>1. /\ apb' = ApbNext(ApbA # <<>>, pa)
        /\ busy' = (apb = "ACCESS" /\ ~pa)
        /\ ApbA' = Queue(ApbA, pa, xg /\ xs = "apb", Head(CoreA))
    BY DEF Moves
  <2>2. apb' = "ACCESS" => ApbA # <<>> /\ ~pa
    <3>1. pa => apb = "ACCESS"
      BY DEF Moves
    <3> QED BY <1>1, <1>3, <2>1, <3>1 DEF ApbNext, ApbBusy
  <2>3. ~pa => Len(ApbA') >= Len(ApbA)
    <3>1. Len(ApbA') = (Len(ApbA) - One(pa)) + One(xg /\ xs = "apb")
      BY <1>2 DEF Queues
    <3>2. Len(ApbA) \in Nat
      BY <1>1, CutType
    <3>3. (~pa => One(pa) = 0) /\ One(xg /\ xs = "apb") \in 0 .. 1
      BY DEF One
    <3> QED BY <3>1, <3>2, <3>3
  <2>4. apb' = "ACCESS" => ApbA' # <<>>
    <3>1. ApbA \in Seq(Requests) /\ ApbA' \in Seq(Requests)
      BY <1>1, <1>2, CutType DEF Queues
    <3>2. ApbA # <<>> => Len(ApbA) \in Nat \ {0}
      BY <3>1, EmptyLen
    <3>3. ApbA' = <<>> => Len(ApbA') = 0
      BY <3>1, EmptyLen
    <3> QED BY <2>2, <2>3, <3>2, <3>3
  <2>5. busy' => apb' = "ACCESS"
    BY <2>1 DEF ApbNext
  <2> QED BY <2>4, <2>5 DEF ApbBusy
<1>6. TypeOK'
  <2>1. /\ req' \in Requests \cup {NoRequest} /\ dbg' \in BOOLEAN
        /\ mem' \in {"IDLE", "ACK"} /\ via' \in {"direct", "ext"}
        /\ apb' \in {"SETUP", "ACCESS", "HANDSHAKE"} /\ busy' \in BOOLEAN
    BY <1>3 DEF Moves, NextRequest, ApbNext
  <2>2. lsu' \in [sel : {"direct", "ext"}, cnt : 0 .. MaxTrans]
        /\ xbar' \in [sel : {"mem", "apb"}, cnt : 0 .. MaxTrans]
    BY <1>2 DEF XbarMoved, LsuMoved
  <2>3. rdata' \in Values /\ prdata' \in Values /\ store' \in [Addresses -> Values]
    <3>1. Performed(mg, pm, pa)
      BY Performing
    <3>2. /\ mg => req \in Requests
          /\ pm => Head(MemA) \in Requests
          /\ pa => Head(ApbA) \in Requests
      <4>1. /\ mg => req \in Requests
            /\ pm => MemA # <<>>
            /\ pa => ApbA # <<>>
        BY <1>2 DEF Queues
      <4> QED BY <1>1, <4>1, CutType, HeadTailProperties
    <3>3. CASE mg
      BY <1>1, <1>3, <3>1, <3>2, <3>3, StoredType DEF Performed
    <3>4. CASE pm
      BY <1>1, <1>3, <3>1, <3>2, <3>4, StoredType DEF Performed
    <3>5. CASE ~mg /\ ~pm
      BY <1>1, <1>3, <3>1, <3>2, <3>5, StoredType DEF Performed
    <3> QED BY <3>3, <3>4, <3>5
  <2>4. resp' \in Seq(Values) /\ Len(resp') <= 1
    <3>1. resp' = IF lsu.sel = "direct"
                  THEN When(mem = "ACK" /\ via = "direct", rdata) ELSE CoreR
      BY DEF Moves, Answer
    <3>2. CoreR \in Seq(Values) /\ Len(CoreR) <= 1
      BY <1>1, CutType DEF AnswersPass
    <3> DEFINE at == mem = "ACK" /\ via = "direct"
    <3>3. at \in BOOLEAN
      OBVIOUS
    <3> HIDE DEF at
    <3>4. When(at, rdata) \in Seq(Values) /\ Len(When(at, rdata)) <= 1
      <4>1. When(at, rdata) \in Seq(Values) /\ Len(When(at, rdata)) = One(at)
        BY <1>3, <3>3, WhenSeq
      <4>2. One(at) <= 1
        BY DEF One
      <4> QED BY <4>1, <4>2
    <3> QED BY <3>1, <3>2, <3>4 DEF at
  <2>5. Len(CoreA') <= 2 /\ Len(MemA') <= 2 /\ Len(ApbA') <= 2
    <3> DEFINE toMem == xg /\ xs = "mem"
               toApb == xg /\ xs = "apb"
    <3>1. /\ (cg => Len(CoreA) < 2) /\ (toMem => Len(MemA) < 2)
          /\ (toApb => Len(ApbA) < 2)
      BY DEF Moves
    <3>2. /\ Len(CoreA) \in Nat /\ Len(CoreA) <= 2
          /\ Len(MemA) \in Nat /\ Len(MemA) <= 2
          /\ Len(ApbA) \in Nat /\ Len(ApbA) <= 2
      BY <1>1, CutType
    <3>3. /\ Len(CoreA') = (Len(CoreA) - One(xg)) + One(cg)
          /\ Len(MemA') = (Len(MemA) - One(pm)) + One(toMem)
          /\ Len(ApbA') = (Len(ApbA) - One(pa)) + One(toApb)
      BY <1>2 DEF Queues
    <3>4. toMem \in BOOLEAN /\ toApb \in BOOLEAN
      OBVIOUS
    <3> HIDE DEF toMem, toApb
    <3>5. /\ One(xg) \in 0 .. 1 /\ One(pm) \in 0 .. 1 /\ One(pa) \in 0 .. 1
          /\ One(cg) = (IF cg THEN 1 ELSE 0)
          /\ One(toMem) = (IF toMem THEN 1 ELSE 0)
          /\ One(toApb) = (IF toApb THEN 1 ELSE 0)
      BY DEF One
    <3>6. Len(CoreA') <= 2
      BY <3>1, <3>2, <3>3, <3>5
    <3>7. Len(MemA') <= 2
      BY <3>1, <3>2, <3>3, <3>4, <3>5
    <3>8. Len(ApbA') <= 2
      BY <3>1, <3>2, <3>3, <3>4, <3>5
    <3> QED BY <3>6, <3>7, <3>8
  <2>6. \A c \in Cuts : /\ cut'[c].a \in Seq(Requests) /\ Len(cut'[c].a) <= 2
                        /\ cut'[c].r \in Seq(Values) /\ Len(cut'[c].r) <= 2
    <3>1. /\ CoreA' \in Seq(Requests) /\ MemA' \in Seq(Requests)
          /\ ApbA' \in Seq(Requests) /\ CoreR' \in Seq(Values)
          /\ MemR' \in Seq(Values) /\ ApbR' \in Seq(Values)
      BY <1>2 DEF Queues
    <3>2. Len(CoreR') <= 2 /\ Len(MemR') <= 2 /\ Len(ApbR') <= 2
      <4>1. /\ Len(CoreR') \in Nat /\ Len(CoreR') <= 1
            /\ Len(MemR') \in Nat /\ Len(MemR') <= 1
            /\ Len(ApbR') \in Nat /\ Len(ApbR') <= 1
        BY <1>4, <3>1, EmptyLen DEF AnswersPass
      <4> QED BY <4>1
    <3> QED BY <2>5, <3>1, <3>2 DEF Cuts, CoreA, CoreR, MemA, MemR, ApbA, ApbR
  <2> QED BY <2>1, <2>2, <2>3, <2>4, <2>6 DEF TypeOK
<1> QED BY <1>2, <1>4, <1>5, <1>6 DEF Inv, XbarMoved, LsuMoved

-----------------------------------------------------------------------------
(* The queues as one line: what OrderedMemory calls todo and done. *)

AtMem == mem = "ACK" /\ via = "ext"
AtApb == apb = "HANDSHAKE"

Front == MemA \o ApbA
Todo == Front \o CoreA

(* The answers behind the one that is given in this cycle. *)
Later == ((MemR \o ApbR) \o When(AtMem, rdata)) \o When(AtApb, prdata)
Done == Answer \o Later

(* Nothing is on the way behind a port that is not selected. *)
LEMMA OneLine ==
  ASSUME Inv
  PROVE  /\ xbar.sel = "mem" => ApbA = <<>> /\ ApbR = <<>> /\ ~AtApb
         /\ xbar.sel = "apb" => MemA = <<>> /\ MemR = <<>> /\ ~AtMem
         /\ lsu.sel = "direct" => /\ CoreA = <<>> /\ CoreR = <<>>
                                  /\ MemA = <<>> /\ MemR = <<>> /\ ~AtMem
                                  /\ ApbA = <<>> /\ ApbR = <<>> /\ ~AtApb
         /\ lsu.sel = "ext" => ~(mem = "ACK" /\ via = "direct")
<1>1. TypeOK /\ XbarFlow /\ LsuFlow
  BY DEF Inv
<1>2. /\ Len(CoreA) \in Nat /\ Len(CoreR) \in Nat
      /\ Len(MemA) \in Nat /\ Len(MemR) \in Nat
      /\ Len(ApbA) \in Nat /\ Len(ApbR) \in Nat
  BY <1>1, CutType
<1>3. /\ Len(CoreA) = 0 => CoreA = <<>>
      /\ Len(CoreR) = 0 => CoreR = <<>>
      /\ Len(MemA) = 0 => MemA = <<>>
      /\ Len(MemR) = 0 => MemR = <<>>
      /\ Len(ApbA) = 0 => ApbA = <<>>
      /\ Len(ApbR) = 0 => ApbR = <<>>
  BY <1>1, CutType, EmptyLen
<1>4. One(AtMem) \in 0 .. 1 /\ One(AtApb) \in 0 .. 1
      /\ (One(AtMem) = 0 => ~AtMem) /\ (One(AtApb) = 0 => ~AtApb)
  BY DEF One
<1>5. BehindMem = Len(MemA) + Len(MemR) + One(AtMem)
      /\ BehindApb = Len(ApbA) + Len(ApbR) + One(AtApb)
  BY DEF BehindMem, BehindApb, AtMem, AtApb
<1>6. BehindMem = 0 => MemA = <<>> /\ MemR = <<>> /\ ~AtMem
  <2> SUFFICES ASSUME BehindMem = 0
               PROVE  Len(MemA) = 0 /\ Len(MemR) = 0 /\ One(AtMem) = 0
    BY <1>3, <1>4
  <2> QED BY <1>2, <1>4, <1>5
<1>7. BehindApb = 0 => ApbA = <<>> /\ ApbR = <<>> /\ ~AtApb
  <2> SUFFICES ASSUME BehindApb = 0
               PROVE  Len(ApbA) = 0 /\ Len(ApbR) = 0 /\ One(AtApb) = 0
    BY <1>3, <1>4
  <2> QED BY <1>2, <1>4, <1>5
<1>8. xbar.sel \in {"mem", "apb"} /\ xbar.cnt \in Nat
  BY <1>1 DEF TypeOK
<1>9. lsu.sel = "direct" => CoreA = <<>> /\ CoreR = <<>> /\ xbar.cnt = 0
  <2> SUFFICES ASSUME lsu.sel = "direct"
               PROVE  Len(CoreA) = 0 /\ Len(CoreR) = 0 /\ xbar.cnt = 0
    BY <1>3
  <2>1. Len(CoreA) + Len(CoreR) + xbar.cnt = 0
    BY <1>1 DEF LsuFlow
  <2> QED BY <1>2, <1>8, <2>1
<1>10. lsu.sel = "ext" => ~(mem = "ACK" /\ via = "direct")
  BY <1>1 DEF LsuFlow, One
<1>11. xbar.cnt = 0 => BehindMem = 0 /\ BehindApb = 0
  BY <1>1, <1>8 DEF XbarFlow
<1>12. (xbar.sel = "mem" => BehindApb = 0) /\ (xbar.sel = "apb" => BehindMem = 0)
  BY <1>1 DEF XbarFlow
<1> QED BY <1>6, <1>7, <1>9, <1>10, <1>11, <1>12

LEMMA LineTypes ==
  ASSUME Inv
  PROVE  /\ Front \in Seq(Requests) /\ Len(Front) = Len(MemA) + Len(ApbA)
         /\ Todo \in Seq(Requests) /\ Len(Todo) = Len(Front) + Len(CoreA)
         /\ Answer \in Seq(Values) /\ Len(Answer) <= 1
         /\ Later \in Seq(Values) /\ Done \in Seq(Values)
         /\ Len(Later) = Len(MemR) + Len(ApbR) + One(AtMem) + One(AtApb)
         /\ Len(Done) = Len(Answer) + Len(Later)
<1>1. /\ CoreA \in Seq(Requests) /\ MemA \in Seq(Requests) /\ ApbA \in Seq(Requests)
      /\ CoreR \in Seq(Values) /\ MemR \in Seq(Values) /\ ApbR \in Seq(Values)
      /\ Len(CoreR) <= 1
  BY CutType DEF Inv, AnswersPass
<1>2. rdata \in Values /\ prdata \in Values
  BY DEF Inv, TypeOK
<1>3. Front \in Seq(Requests) /\ Len(Front) = Len(MemA) + Len(ApbA)
  BY <1>1, ConcatProperties DEF Front
<1>4. Todo \in Seq(Requests) /\ Len(Todo) = Len(Front) + Len(CoreA)
  BY <1>1, <1>3, ConcatProperties DEF Todo
<1> DEFINE w1 == When(AtMem, rdata)
           w2 == When(AtApb, prdata)
           at == mem = "ACK" /\ via = "direct"
           w3 == When(at, rdata)
<1>5. AtMem \in BOOLEAN /\ AtApb \in BOOLEAN /\ at \in BOOLEAN
  BY DEF AtMem, AtApb
<1>6. /\ w1 \in Seq(Values) /\ Len(w1) = One(AtMem)
      /\ w2 \in Seq(Values) /\ Len(w2) = One(AtApb)
      /\ w3 \in Seq(Values) /\ Len(w3) = One(at)
  <2> HIDE DEF at
  <2> QED BY <1>2, <1>5, WhenSeq
<1>7. Answer \in Seq(Values) /\ Len(Answer) <= 1
  <2>1. Answer = IF lsu.sel = "direct" THEN w3 ELSE CoreR
    BY DEF Answer
  <2>2. One(at) <= 1
    BY DEF One
  <2> HIDE DEF w3, at
  <2> QED BY <1>1, <1>6, <2>1, <2>2
<1> HIDE DEF w1, w2, w3, at
<1>8. MemR \o ApbR \in Seq(Values) /\ Len(MemR \o ApbR) = Len(MemR) + Len(ApbR)
  BY <1>1, ConcatProperties
<1> DEFINE q == MemR \o ApbR
<1>9. (q \o w1) \in Seq(Values) /\ Len(q \o w1) = Len(q) + Len(w1)
  <2> HIDE DEF q
  <2>1. q \in Seq(Values)
    BY <1>8 DEF q
  <2> QED BY <1>6, <2>1, ConcatProperties
<1> DEFINE u == q \o w1
<1>10. (u \o w2) \in Seq(Values) /\ Len(u \o w2) = Len(u) + Len(w2)
  <2> HIDE DEF u
  <2>1. u \in Seq(Values)
    BY <1>9 DEF u
  <2> QED BY <1>6, <2>1, ConcatProperties
<1>11. Later = u \o w2
  BY DEF Later, w1, w2
<1>12. Later \in Seq(Values)
       /\ Len(Later) = Len(MemR) + Len(ApbR) + One(AtMem) + One(AtApb)
  BY <1>6, <1>8, <1>9, <1>10, <1>11
<1>13. Done \in Seq(Values) /\ Len(Done) = Len(Answer) + Len(Later)
  BY <1>7, <1>12, ConcatProperties DEF Done
<1> QED BY <1>3, <1>4, <1>7, <1>12, <1>13

(* The answers as the refinement lists them. *)
DoneLine == (((CoreR \o MemR) \o ApbR) \o When(mem = "ACK", rdata))
              \o When(AtApb, prdata)

LEMMA AllAnswers == ASSUME Inv PROVE DoneLine = Done
<1>1. /\ CoreR \in Seq(Values) /\ MemR \in Seq(Values) /\ ApbR \in Seq(Values)
  BY CutType DEF Inv
<1>2. /\ rdata \in Values /\ prdata \in Values /\ via \in {"direct", "ext"}
      /\ lsu.sel \in {"direct", "ext"}
  BY DEF Inv, TypeOK
<1> DEFINE w1 == When(AtMem, rdata)
           w2 == When(AtApb, prdata)
           w3 == When(mem = "ACK" /\ via = "direct", rdata)
           w == When(mem = "ACK", rdata)
<1>3. w1 \in Seq(Values) /\ w2 \in Seq(Values)
      /\ w3 \in Seq(Values) /\ w \in Seq(Values)
  BY <1>2 DEF When
<1>4. CASE lsu.sel = "direct"
  <2>1. /\ CoreR = <<>> /\ MemR = <<>> /\ ApbR = <<>> /\ ~AtMem /\ ~AtApb
    BY <1>4, OneLine
  <2>2. w1 = <<>> /\ w2 = <<>> /\ w = w3
    BY <1>2, <2>1 DEF When, AtMem
  <2>3. Answer = w3
    BY <1>4 DEF Answer
  <2>4. DoneLine = (((<<>> \o <<>>) \o <<>>) \o w) \o <<>>
    BY <2>1, <2>2 DEF DoneLine
  <2>5. Done = w \o (((<<>> \o <<>>) \o <<>>) \o <<>>)
    BY <2>1, <2>2, <2>3 DEF Done, Later
  <2> HIDE DEF w
  <2>6. <<>> \o <<>> = <<>> /\ <<>> \o w = w /\ w \o <<>> = w
    BY <1>3, ConcatEmptySeq, EmptySeq
  <2> QED BY <2>4, <2>5, <2>6
<1>5. CASE lsu.sel = "ext"
  <2>1. w = w1
    BY <1>2, <1>5, OneLine DEF AtMem
  <2>2. Answer = CoreR
    BY <1>5 DEF Answer
  <2>3. DoneLine = (((CoreR \o MemR) \o ApbR) \o w1) \o w2
    BY <2>1 DEF DoneLine
  <2>4. Done = CoreR \o (((MemR \o ApbR) \o w1) \o w2)
    BY <2>2 DEF Done, Later
  <2> HIDE DEF w, w1, w2, w3
  <2>5. (CoreR \o MemR) \o ApbR = CoreR \o (MemR \o ApbR)
    BY <1>1, ConcatAssociative
  <2> DEFINE q == MemR \o ApbR
             u == q \o w1
  <2>6. q \in Seq(Values) /\ CoreR \in Seq(Values)
        /\ w1 \in Seq(Values) /\ w2 \in Seq(Values)
    BY <1>1, <1>3, ConcatProperties
  <2> HIDE DEF q
  <2>7. u \in Seq(Values)
    BY <1>3, <2>6, ConcatProperties
  <2>8. (CoreR \o q) \o w1 = CoreR \o u
    BY <2>6, ConcatAssociative, SMTT(40)
  <2> HIDE DEF u
  <2>11. (CoreR \o u) \o w2 = CoreR \o (u \o w2)
    <3>1. u \in Seq(Values)
      BY <2>7 DEF u
    <3>2. CoreR \in Seq(Values) /\ w2 \in Seq(Values)
      BY <2>6
    <3> QED BY <3>1, <3>2, ConcatAssociative
  <2>9. DoneLine = (CoreR \o u) \o w2
    BY <2>3, <2>5, <2>8 DEF q
  <2>10. Done = CoreR \o (u \o w2)
    BY <2>4 DEF q, u
  <2> QED BY <2>9, <2>10, <2>11
<1> QED BY <1>2, <1>4, <1>5

LEMMA Counted == ASSUME Inv PROVE lsu.cnt = Len(Todo) + Len(Done)
<1>1. XbarFlow /\ LsuFlow /\ TypeOK
  BY DEF Inv
<1>2. lsu.sel \in {"direct", "ext"} /\ xbar.sel \in {"mem", "apb"}
      /\ xbar.cnt \in Nat /\ rdata \in Values
  BY <1>1 DEF TypeOK
<1>3. /\ Len(CoreA) \in Nat /\ Len(CoreR) \in Nat
      /\ Len(MemA) \in Nat /\ Len(MemR) \in Nat
      /\ Len(ApbA) \in Nat /\ Len(ApbR) \in Nat
  BY <1>1, CutType
<1>4. /\ Len(Todo) = (Len(MemA) + Len(ApbA)) + Len(CoreA)
      /\ Len(Done) = Len(Answer)
                       + (Len(MemR) + Len(ApbR) + One(AtMem) + One(AtApb))
  BY LineTypes
<1>5. One(AtMem) \in 0 .. 1 /\ One(AtApb) \in 0 .. 1
  BY DEF One
<1>6. /\ BehindMem = Len(MemA) + Len(MemR) + One(AtMem)
      /\ BehindApb = Len(ApbA) + Len(ApbR) + One(AtApb)
      /\ xbar.cnt = BehindMem + BehindApb
  BY <1>1, <1>2, <1>3, <1>5 DEF BehindMem, BehindApb, XbarFlow, AtMem, AtApb
<1> DEFINE at == mem = "ACK" /\ via = "direct"
           ext == Len(CoreA) + Len(CoreR) + xbar.cnt
<1>7. /\ lsu.sel = "direct" => lsu.cnt = One(at) /\ ext = 0
      /\ lsu.sel = "ext" => lsu.cnt = ext
  BY <1>1 DEF LsuFlow
<1>8. /\ lsu.sel = "direct" => Len(Answer) = One(at)
      /\ lsu.sel = "ext" => Len(Answer) = Len(CoreR)
  <2>1. at \in BOOLEAN
    OBVIOUS
  <2>2. Answer = IF lsu.sel = "direct" THEN When(at, rdata) ELSE CoreR
    BY DEF Answer
  <2> HIDE DEF at
  <2>3. Len(When(at, rdata)) = One(at)
    BY <1>2, <2>1, WhenSeq
  <2> QED BY <2>2, <2>3
<1> HIDE DEF at
<1>9. CASE lsu.sel = "direct"
  <2>1. One(at) \in 0 .. 1 /\ Len(Answer) = One(at) /\ lsu.cnt = One(at)
    BY <1>7, <1>8, <1>9 DEF One
  <2>2. /\ CoreA = <<>> /\ MemA = <<>> /\ ApbA = <<>>
        /\ MemR = <<>> /\ ApbR = <<>> /\ ~AtMem /\ ~AtApb
    BY <1>9, OneLine
  <2>3. /\ Len(CoreA) = 0 /\ Len(MemA) = 0 /\ Len(ApbA) = 0
        /\ Len(MemR) = 0 /\ Len(ApbR) = 0
    BY <1>1, <2>2, CutType, EmptyLen
  <2>4. One(AtMem) = 0 /\ One(AtApb) = 0
    BY <2>2 DEF One
  <2> QED BY <1>4, <2>1, <2>3, <2>4
<1>10. CASE lsu.sel = "ext"
  <2>1. lsu.cnt = Len(CoreA) + Len(CoreR) + (BehindMem + BehindApb)
        /\ Len(Answer) = Len(CoreR)
    BY <1>6, <1>7, <1>8, <1>10
  <2> HIDE DEF ext
  <2>2. lsu.cnt = Len(CoreA) + Len(CoreR)
                    + ((Len(MemA) + Len(MemR) + One(AtMem))
                         + (Len(ApbA) + Len(ApbR) + One(AtApb)))
    BY <1>6, <2>1
  <2>3. Len(Todo) + Len(Done)
          = ((Len(MemA) + Len(ApbA)) + Len(CoreA))
              + (Len(CoreR) + (Len(MemR) + Len(ApbR) + One(AtMem) + One(AtApb)))
    BY <1>4, <2>1
  <2> QED BY <1>3, <1>5, <2>2, <2>3, SMTT(40)
<1> QED BY <1>2, <1>9, <1>10

(* Which of them performs one; the direct port only when nothing is queued. *)
LEMMA OnePerforms ==
  ASSUME Inv, NEW mg \in BOOLEAN, NEW cg \in BOOLEAN, NEW xg \in BOOLEAN,
         NEW xs \in {"mem", "apb"}, NEW pm \in BOOLEAN, NEW pa \in BOOLEAN,
         Moves(mg, cg, xg, xs, pm, pa)
  PROVE  /\ mg => /\ ~cg /\ ~xg /\ ~pm /\ ~pa
                  /\ MemA = <<>> /\ ApbA = <<>> /\ CoreA = <<>>
         /\ pm => ApbA = <<>> /\ ~pa
         /\ pa => MemA = <<>>
         /\ xg => IF xs = "mem" THEN ApbA = <<>> ELSE MemA = <<>>
<1>1. XbarFlow /\ LsuFlow /\ TypeOK
  BY DEF Inv
<1>2. /\ ~(mg /\ cg) /\ ~(mg /\ pm)
      /\ mg => Opens(lsu, "direct", Answer # <<>>)
      /\ xg => CoreA # <<>> /\ Opens(xbar, xs, XbarAnswer # <<>>)
      /\ pm => MemA # <<>>
      /\ pa => ApbA # <<>>
  <2>1. Queues(mg, cg, xg, xs, pm, pa)
    BY Lengths
  <2> QED BY <2>1 DEF Moves, Queues
<1>3. lsu.sel \in {"direct", "ext"} /\ xbar.sel \in {"mem", "apb"}
  BY <1>1 DEF TypeOK
<1>4. /\ pm => ApbA = <<>>
      /\ pa => MemA = <<>>
  BY <1>2, <1>3, OneLine
<1>5. lsu.cnt = 0 => Len(Todo) = 0
  BY Counted, LineTypes, EmptyLen
<1>6. lsu.cnt = 1 /\ Answer # <<>> => Len(Todo) = 0
  <2> SUFFICES ASSUME lsu.cnt = 1, Answer # <<>> PROVE Len(Todo) = 0
    OBVIOUS
  <2>1. Len(Answer) \in Nat /\ Len(Answer) # 0
    BY LineTypes, EmptyLen
  <2>2. /\ lsu.cnt = Len(Todo) + Len(Done)
        /\ Len(Done) = Len(Answer) + Len(Later)
    BY Counted, LineTypes
  <2>3. Len(Todo) \in Nat /\ Len(Later) \in Nat
    BY LineTypes, EmptyLen
  <2> QED BY <2>1, <2>2, <2>3
<1>7. Len(Todo) = 0 => MemA = <<>> /\ ApbA = <<>> /\ CoreA = <<>>
  <2>1. Len(Todo) = (Len(MemA) + Len(ApbA)) + Len(CoreA)
    BY LineTypes
  <2>2. Len(CoreA) \in Nat /\ Len(MemA) \in Nat /\ Len(ApbA) \in Nat
    BY <1>1, CutType
  <2>3. /\ Len(CoreA) = 0 => CoreA = <<>>
        /\ Len(MemA) = 0 => MemA = <<>>
        /\ Len(ApbA) = 0 => ApbA = <<>>
    BY <1>1, CutType, EmptyLen
  <2> SUFFICES ASSUME Len(Todo) = 0
               PROVE  Len(MemA) = 0 /\ Len(ApbA) = 0 /\ Len(CoreA) = 0
    BY <2>3
  <2> QED BY <2>1, <2>2, NoneOfThree
<1>8. mg => MemA = <<>> /\ ApbA = <<>> /\ CoreA = <<>>
  <2>1. mg => lsu.sel = "direct" \/ lsu.cnt = 0 \/ (lsu.cnt = 1 /\ Answer # <<>>)
    BY <1>2 DEF Opens
  <2> QED BY <1>5, <1>6, <1>7, <2>1, OneLine
<1>9. xbar.cnt = 0 \/ (xbar.cnt = 1 /\ XbarAnswer # <<>>)
        => MemA = <<>> /\ ApbA = <<>>
  <2>1. /\ Len(MemA) \in Nat /\ Len(MemR) \in Nat
        /\ Len(ApbA) \in Nat /\ Len(ApbR) \in Nat
    BY <1>1, CutType
  <2>2. /\ Len(MemA) = 0 => MemA = <<>>
        /\ Len(ApbA) = 0 => ApbA = <<>>
        /\ Len(MemR) = 0 => MemR = <<>>
        /\ Len(ApbR) = 0 => ApbR = <<>>
    BY <1>1, CutType, EmptyLen
  <2>3. One(AtMem) \in 0 .. 1 /\ One(AtApb) \in 0 .. 1
    BY DEF One
  <2>4. /\ BehindMem = Len(MemA) + Len(MemR) + One(AtMem)
        /\ BehindApb = Len(ApbA) + Len(ApbR) + One(AtApb)
    BY DEF BehindMem, BehindApb, AtMem, AtApb
  <2>5. CASE xbar.sel = "mem"
    <3>1. XbarAnswer = MemR /\ xbar.cnt = BehindMem /\ ApbA = <<>>
      BY <1>1, <2>5, OneLine DEF XbarAnswer, XbarFlow
    <3>2. MemR # <<>> => Len(MemR) >= 1
      BY <2>1, <2>2
    <3>3. xbar.cnt = 0 \/ (xbar.cnt = 1 /\ MemR # <<>>) => Len(MemA) = 0
      BY <2>1, <2>3, <2>4, <3>1, <3>2
    <3> QED BY <2>2, <3>1, <3>3
  <2>6. CASE xbar.sel = "apb"
    <3>1. XbarAnswer = ApbR /\ xbar.cnt = BehindApb /\ MemA = <<>>
      BY <1>1, <2>6, OneLine DEF XbarAnswer, XbarFlow
    <3>2. ApbR # <<>> => Len(ApbR) >= 1
      BY <2>1, <2>2
    <3>3. xbar.cnt = 0 \/ (xbar.cnt = 1 /\ ApbR # <<>>) => Len(ApbA) = 0
      BY <2>1, <2>3, <2>4, <3>1, <3>2
    <3> QED BY <2>2, <3>1, <3>3
  <2> QED BY <1>3, <2>5, <2>6
<1>10. xg => IF xs = "mem" THEN ApbA = <<>> ELSE MemA = <<>>
  <2>1. xg => xbar.sel = xs \/ xbar.cnt = 0 \/ (xbar.cnt = 1 /\ XbarAnswer # <<>>)
    BY <1>2 DEF Opens
  <2> QED BY <1>3, <1>9, <2>1, OneLine
<1> QED BY <1>2, <1>4, <1>8, <1>10

(* The front of the line loses the request that is performed and gets the  *)
(* one that the crossbar passes on.                                        *)
LEMMA FrontStep ==
  ASSUME Inv, NEW mg \in BOOLEAN, NEW cg \in BOOLEAN, NEW xg \in BOOLEAN,
         NEW xs \in {"mem", "apb"}, NEW pm \in BOOLEAN, NEW pa \in BOOLEAN,
         Moves(mg, cg, xg, xs, pm, pa)
  PROVE  /\ Front' = PopIf(Front, pm \/ pa) \o When(xg, Head(CoreA))
         /\ pm => Front # <<>> /\ Head(Front) = Head(MemA)
         /\ pa => Front # <<>> /\ Head(Front) = Head(ApbA)
<1>1. /\ MemA' = Queue(MemA, pm, xg /\ xs = "mem", Head(CoreA))
      /\ ApbA' = Queue(ApbA, pa, xg /\ xs = "apb", Head(CoreA))
  BY DEF Moves
<1>2. Queues(mg, cg, xg, xs, pm, pa)
  BY Lengths
<1>3. /\ pm => ApbA = <<>> /\ ~pa /\ MemA # <<>>
      /\ pa => MemA = <<>> /\ ApbA # <<>>
      /\ xg => IF xs = "mem" THEN ApbA = <<>> ELSE MemA = <<>>
  BY <1>2, OnePerforms, ZenonT(40) DEF Queues
<1>4. MemA \in Seq(Requests) /\ ApbA \in Seq(Requests)
  BY CutType DEF Inv
<1> DEFINE h == Head(CoreA)
           w == When(xg, h)
<1>5. w \in Seq(Requests)
  BY <1>2, WhenSeq DEF Queues
<1>6. <<>> \in Seq(Requests) /\ <<>> \o <<>> = <<>>
  BY EmptySeq, ConcatEmptySeq
<1> HIDE DEF h
<1>7. When(FALSE, h) = <<>>
  BY DEF When
<1>8. MemA \o <<>> = MemA /\ <<>> \o ApbA = ApbA /\ ApbA \o <<>> = ApbA
  BY <1>4, ConcatEmptySeq
<1>9. CASE ApbA = <<>> /\ ~pa /\ (xg => xs = "mem")
  <2>1. MemA' = PopIf(MemA, pm) \o w
    <3>1. (xg /\ xs = "mem") = xg
      BY <1>9
    <3> QED BY <1>1, <3>1 DEF Queue, h
  <2>2. ApbA' = <<>>
    <3>1. (xg /\ xs = "apb") = FALSE
      BY <1>9
    <3>2. ApbA' = PopIf(ApbA, FALSE) \o When(FALSE, h)
      BY <1>1, <1>9, <3>1 DEF Queue, h
    <3>3. PopIf(ApbA, FALSE) = <<>>
      BY <1>9 DEF PopIf
    <3> QED BY <1>6, <1>7, <3>2, <3>3
  <2>3. Front' = PopIf(MemA, pm) \o w
    <3>1. PopIf(MemA, pm) \in Seq(Requests)
      BY <1>3, <1>4, PopSeq
    <3>2. PopIf(MemA, pm) \o w \in Seq(Requests)
      <4> HIDE DEF w
      <4> QED BY <1>5, <3>1, ConcatProperties
    <3>3. MemA' \o <<>> = MemA'
      BY <2>1, <3>2, ConcatEmptySeq
    <3> QED BY <2>1, <2>2, <3>3 DEF Front
  <2>4. Front = MemA
    BY <1>8, <1>9 DEF Front
  <2>5. (pm \/ pa) = pm
    BY <1>9
  <2> QED BY <1>3, <1>9, <2>3, <2>4, <2>5 DEF h
<1>10. CASE MemA = <<>> /\ ~pm /\ (xg => xs = "apb")
  <2>1. ApbA' = PopIf(ApbA, pa) \o w
    <3>1. (xg /\ xs = "apb") = xg
      BY <1>10
    <3> QED BY <1>1, <3>1 DEF Queue, h
  <2>2. MemA' = <<>>
    <3>1. (xg /\ xs = "mem") = FALSE
      BY <1>10
    <3>2. MemA' = PopIf(MemA, FALSE) \o When(FALSE, h)
      BY <1>1, <1>10, <3>1 DEF Queue, h
    <3>3. PopIf(MemA, FALSE) = <<>>
      BY <1>10 DEF PopIf
    <3> QED BY <1>6, <1>7, <3>2, <3>3
  <2>3. Front' = PopIf(ApbA, pa) \o w
    <3>1. PopIf(ApbA, pa) \in Seq(Requests)
      BY <1>3, <1>4, PopSeq
    <3>2. PopIf(ApbA, pa) \o w \in Seq(Requests)
      <4> HIDE DEF w
      <4> QED BY <1>5, <3>1, ConcatProperties
    <3>3. <<>> \o ApbA' = ApbA'
      BY <2>1, <3>2, ConcatEmptySeq
    <3> QED BY <2>1, <2>2, <3>3 DEF Front
  <2>4. Front = ApbA
    BY <1>8, <1>10 DEF Front
  <2>5. (pm \/ pa) = pa
    BY <1>10
  <2> QED BY <1>3, <1>10, <2>3, <2>4, <2>5 DEF h
<1>11. CASE ~pm /\ ~pa /\ ~xg
  <2>1. MemA' = MemA /\ ApbA' = ApbA
    BY <1>1, <1>8, <1>11 DEF Queue, PopIf, When
  <2>2. Front' = Front /\ w = <<>>
    BY <1>11, <2>1 DEF Front, When
  <2>3. Front \o <<>> = Front
    BY LineTypes, ConcatEmptySeq
  <2> QED BY <1>11, <2>2, <2>3 DEF h, PopIf
<1> QED BY <1>3, <1>9, <1>10, <1>11

(* The line gets the request that is granted and loses the one that is     *)
(* performed.                                                              *)
LEMMA TodoStep ==
  ASSUME Inv, NEW mg \in BOOLEAN, NEW cg \in BOOLEAN, NEW xg \in BOOLEAN,
         NEW xs \in {"mem", "apb"}, NEW pm \in BOOLEAN, NEW pa \in BOOLEAN,
         Moves(mg, cg, xg, xs, pm, pa), ~mg
  PROVE  Todo' = PopIf(Todo \o When(cg, req), pm \/ pa)
<1> DEFINE h == Head(CoreA)
           w == When(cg, req)
           p == pm \/ pa
           f == PopIf(Front, p)
           x == When(xg, h)
           c == PopIf(CoreA, xg)
<1>1. Queues(mg, cg, xg, xs, pm, pa)
  BY Lengths
<1>2. /\ Front' = f \o x
      /\ p => Front # <<>>
  BY FrontStep
<1>3. CoreA' = c \o w
  BY DEF Moves, Queue
<1>4. /\ Front \in Seq(Requests) /\ CoreA \in Seq(Requests)
      /\ p \in BOOLEAN /\ (xg => CoreA # <<>>)
  BY <1>1, LineTypes, CutType DEF Queues, Inv
<1>5. f \in Seq(Requests)
  <2> HIDE DEF p
  <2> QED BY <1>2, <1>4, PopSeq
<1>6. x \in Seq(Requests) /\ w \in Seq(Requests) /\ c \in Seq(Requests)
  BY <1>1, <1>4, WhenSeq, PopSeq DEF Queues
<1>7. x \o c = CoreA
  BY <1>4, HeadBack
<1> HIDE DEF h, w, f, x, c
<1>8. Todo' = (f \o x) \o (c \o w)
  BY <1>2, <1>3 DEF Todo
<1>9. Todo' = f \o (CoreA \o w)
  <2> DEFINE d == c \o w
  <2>1. f \in Seq(Requests) /\ x \in Seq(Requests) /\ c \in Seq(Requests)
        /\ w \in Seq(Requests)
    BY <1>5, <1>6
  <2>2. d \in Seq(Requests)
    BY <2>1, ConcatProperties
  <2>3. (f \o x) \o d = f \o (x \o d)
    <3> HIDE DEF d
    <3>1. d \in Seq(Requests)
      BY <2>2 DEF d
    <3> QED BY <2>1, <3>1, ConcatAssociative
  <2>4. x \o (c \o w) = (x \o c) \o w
    BY <2>1, ConcatAssociative, SMTT(40)
  <2> QED BY <1>7, <1>8, <2>3, <2>4
<1>10. CoreA \o w \in Seq(Requests)
  BY <1>4, <1>6, ConcatProperties
<1>11. f \o (CoreA \o w) = PopIf(Front \o (CoreA \o w), p)
  <2> DEFINE t == CoreA \o w
  <2>1. t \in Seq(Requests)
    BY <1>10
  <2> HIDE DEF t, p
  <2>2. PopIf(Front, p) \o t = PopIf(Front \o t, p)
    BY <1>2, <1>4, <2>1, PopFront
  <2> QED BY <2>2 DEF f, t
<1>12. Front \o (CoreA \o w) = Todo \o w
  BY <1>4, <1>6, ConcatAssociative, SMTT(40) DEF Todo
<1> QED BY <1>9, <1>11, <1>12 DEF w

(* The answer of a cycle leaves the line and what was performed joins it. *)
DoneMoved(mg, pm, pa) ==
  DoneLine' = (Later \o When(mg \/ pm, rdata')) \o When(pa, prdata')

LEMMA DoneStep ==
  ASSUME Inv, NEW mg \in BOOLEAN, NEW cg \in BOOLEAN, NEW xg \in BOOLEAN,
         NEW xs \in {"mem", "apb"}, NEW pm \in BOOLEAN, NEW pa \in BOOLEAN,
         Moves(mg, cg, xg, xs, pm, pa)
  PROVE  DoneMoved(mg, pm, pa)
<1>1. /\ CoreR' = XbarAnswer
      /\ MemR' = When(AtMem, rdata)
      /\ ApbR' = When(AtApb, prdata)
      /\ mem' = IF mg \/ pm THEN "ACK" ELSE "IDLE"
      /\ apb' = ApbNext(ApbA # <<>>, pa)
      /\ pa => apb = "ACCESS"
  BY DEF Moves, AtMem, AtApb
<1>2. /\ MemR \in Seq(Values) /\ ApbR \in Seq(Values)
  BY CutType DEF Inv
<1>3. XbarAnswer = MemR \o ApbR
  <2>1. xbar.sel \in {"mem", "apb"}
    BY DEF Inv, TypeOK
  <2>2. CASE xbar.sel = "mem"
    <3>1. MemR \o <<>> = MemR
      BY <1>2, ConcatEmptySeq
    <3> QED BY <2>2, <3>1, OneLine DEF XbarAnswer
  <2>3. CASE xbar.sel = "apb"
    <3>1. <<>> \o ApbR = ApbR
      BY <1>2, ConcatEmptySeq
    <3> QED BY <2>3, <3>1, OneLine DEF XbarAnswer
  <2> QED BY <2>1, <2>2, <2>3
<1>4. (CoreR' \o MemR') \o ApbR' = Later
  BY <1>1, <1>3 DEF Later
<1>5. (mem' = "ACK") = (mg \/ pm)
  BY <1>1
<1>6. (apb' = "HANDSHAKE") = pa
  <2>1. apb \in {"SETUP", "ACCESS", "HANDSHAKE"}
    BY DEF Inv, TypeOK
  <2> QED BY <1>1, <2>1 DEF ApbNext
<1>7. DoneLine' = (((CoreR' \o MemR') \o ApbR') \o When(mem' = "ACK", rdata'))
                    \o When(apb' = "HANDSHAKE", prdata')
  BY DEF DoneLine, AtApb
<1> QED BY <1>4, <1>5, <1>6, <1>7 DEF DoneMoved

-----------------------------------------------------------------------------
(* Every cycle is a step of the ordered memory. *)

(* Performing request r with answer v, as OrderedMemory has it. *)
LEMMA PerformsRequest ==
  ASSUME TypeOK, NEW r \in Requests, store' = Stored(r),
         NEW v, ~r.we => v = store[r.addr]
  PROVE  Ordered!Performs(r, v)
<1>1. store \in [Addresses -> Values]
  BY DEF TypeOK
<1>2. r.we \in BOOLEAN /\ r.addr \in Addresses
  BY StoredType
<1>3. CASE r.we
  BY <1>1, <1>2, <1>3 DEF Stored, Ordered!Performs
<1>4. CASE ~r.we
  <2>1. store' = store
    BY <1>1, <1>4 DEF Stored
  <2> QED BY <1>4, <2>1 DEF Ordered!Performs
<1> QED BY <1>2, <1>3, <1>4

(* A step of OrderedMemory, in the names of this module. *)
LEMMA StepIs ==
  ASSUME NEW accepted \in Ordered!AtMostOne(Ordered!Requests),
         NEW answered \in BOOLEAN,
         accepted # <<>> => Len(Todo) + Len(DoneLine) < MaxTrans,
         answered => DoneLine # <<>>,
         resp' = IF answered THEN <<Head(DoneLine)>> ELSE <<>>,
         NEW later, later = IF answered THEN Tail(DoneLine) ELSE DoneLine,
         NEW waiting, waiting = Todo \o accepted,
         \/ /\ waiting # <<>>
            /\ Todo' = Tail(waiting)
            /\ \E v \in Values : /\ DoneLine' = later \o <<v>>
                                 /\ Ordered!Performs(Head(waiting), v)
         \/ Todo' = waiting /\ DoneLine' = later /\ UNCHANGED store
  PROVE  Ordered!Step
  BY DEF Ordered!Step, Todo, Front, CoreA, MemA, ApbA, CoreR, MemR, ApbR,
         DoneLine, AtApb

LEMMA RefineStep ==
  ASSUME Inv, NEW mg \in BOOLEAN, NEW cg \in BOOLEAN, NEW xg \in BOOLEAN,
         NEW xs \in {"mem", "apb"}, NEW pm \in BOOLEAN, NEW pa \in BOOLEAN,
         Moves(mg, cg, xg, xs, pm, pa)
  PROVE  Ordered!Step
<1> DEFINE accepted == When(mg \/ cg, req)
           answered == Answer # <<>>
           r == IF mg THEN req ELSE Head(Front)
           waiting == Todo \o accepted
           steps ==
             \/ /\ waiting # <<>>
                /\ Todo' = Tail(waiting)
                /\ \E u \in Values : /\ DoneLine' = Later \o <<u>>
                                     /\ Ordered!Performs(Head(waiting), u)
             \/ Todo' = waiting /\ DoneLine' = Later /\ store' = store
<1>1. /\ mg => req \in Requests
      /\ cg => req \in Requests
      /\ pm => Head(MemA) \in Requests
      /\ pa => Head(ApbA) \in Requests
      /\ ~(mg /\ cg) /\ ~(mg /\ pm)
  <2>1. Queues(mg, cg, xg, xs, pm, pa)
    BY Lengths
  <2>2. MemA \in Seq(Requests) /\ ApbA \in Seq(Requests)
    BY CutType DEF Inv
  <2> QED BY <2>1, <2>2, HeadTailProperties DEF Queues, Moves
<1>2. DoneLine = Answer \o Later
  BY AllAnswers DEF Done
<1>3. /\ Todo \in Seq(Requests) /\ Front \in Seq(Requests)
      /\ Answer \in Seq(Values) /\ Len(Answer) <= 1 /\ Later \in Seq(Values)
  BY LineTypes
<1>4. accepted \in Seq(Requests) /\ accepted \in Ordered!AtMostOne(Ordered!Requests)
  <2>1. \A q \in Requests : q \in Ordered!Requests
    BY BusAssumption DEF Requests, Ordered!Requests, BusAssumption
  <2>2. CASE mg \/ cg
    <3>1. req \in Requests /\ accepted = <<req>>
      BY <1>1, <2>2 DEF When
    <3>2. <<req>> \in {<<q>> : q \in Ordered!Requests}
      BY <2>1, <3>1
    <3>3. <<req>> \in Ordered!AtMostOne(Ordered!Requests)
      BY <3>2 DEF Ordered!AtMostOne
    <3>4. <<req>> \in Seq(Requests)
      BY <3>1
    <3> HIDE DEF accepted
    <3> QED BY <3>1, <3>3, <3>4
  <2>3. CASE ~(mg \/ cg)
    BY <2>3, EmptySeq DEF When, Ordered!AtMostOne
  <2> QED BY <2>2, <2>3
<1>5. accepted # <<>> => Len(Todo) + Len(DoneLine) < MaxTrans
  <2>1. lsu.cnt = Len(Todo) + Len(DoneLine)
    BY Counted, AllAnswers
  <2>2. accepted # <<>> => mg \/ cg
    BY DEF When
  <2>3. mg \/ cg => lsu.cnt < MaxTrans
    BY DEF Moves, Opens
  <2> QED BY <2>1, <2>2, <2>3
<1>6. /\ answered => DoneLine # <<>>
      /\ resp' = IF answered THEN <<Head(DoneLine)>> ELSE <<>>
  <2>1. resp' = IF answered THEN <<Head(Answer)>> ELSE <<>>
    <3>1. resp' = Answer
      BY DEF Moves
    <3>2. Answer = IF answered THEN <<Head(Answer)>> ELSE <<>>
      BY <1>3, OneInQueue
    <3> QED BY <3>1, <3>2
  <2>2. answered => Answer \o Later # <<>> /\ Head(Answer \o Later) = Head(Answer)
    BY <1>3, HeadOfConcat
  <2> QED BY <1>2, <2>1, <2>2
<1>7. (IF answered THEN Tail(DoneLine) ELSE DoneLine) = Later
  <2>1. <<>> \o Later = Later
    BY <1>3, ConcatEmptySeq
  <2>2. CASE answered
    <3>1. Tail(Answer \o Later) = Tail(Answer) \o Later
      BY <1>3, <2>2, HeadOfConcat
    <3>2. Tail(Answer) = <<>>
      <4>1. Len(Answer) \in Nat /\ Len(Answer) # 0
        BY <1>3, <2>2, EmptyLen
      <4>2. Len(Answer) = 1
        BY <1>3, <4>1, NoneOrOne
      <4>3. Tail(Answer) \in Seq(Values) /\ Len(Tail(Answer)) = Len(Answer) - 1
        BY <1>3, <2>2, HeadTailProperties
      <4>4. Len(Tail(Answer)) = 0
        BY <4>2, <4>3
      <4> QED BY <4>3, <4>4, EmptyLen
    <3> QED BY <1>2, <2>1, <2>2, <3>1, <3>2
  <2>3. CASE ~answered
    BY <1>2, <2>1, <2>3
  <2> QED BY <2>2, <2>3
<1>8. DoneMoved(mg, pm, pa)
  BY DoneStep
<1>9. ASSUME mg PROVE steps
  <2>1. /\ ~cg /\ ~xg /\ ~pm /\ ~pa
        /\ MemA = <<>> /\ ApbA = <<>> /\ CoreA = <<>>
    BY <1>9, OnePerforms, ZenonT(40)
  <2>2. <<>> \o <<>> = <<>> /\ <<>> \o <<req>> = <<req>>
    <3>1. <<req>> \in Seq(Requests)
      BY <1>1, <1>9
    <3> QED BY <3>1, EmptySeq, ConcatEmptySeq
  <2>3. Front = <<>> /\ Todo = <<>>
    BY <2>1, <2>2 DEF Front, Todo
  <2>4. waiting = <<req>>
    BY <1>9, <2>2, <2>3 DEF When
  <2>5. waiting # <<>> /\ Head(waiting) = r /\ Tail(waiting) = <<>>
    <3>1. \A q : <<q>> # <<>> /\ Head(<<q>>) = q /\ Tail(<<q>>) = <<>>
      OBVIOUS
    <3> QED BY <1>9, <2>4, <3>1
  <2>6. Front' = PopIf(Front, pm \/ pa) \o When(xg, Head(CoreA))
    BY FrontStep, ZenonT(40)
  <2>7. CoreA' = Queue(CoreA, xg, cg, req)
    BY DEF Moves
  <2>8. Front' = <<>> /\ CoreA' = <<>>
    BY <2>1, <2>2, <2>3, <2>6, <2>7 DEF PopIf, When, Queue
  <2>9. Todo' = <<>>
    BY <2>2, <2>8 DEF Todo
  <2>10. store' = Stored(req)
         /\ rdata' = IF req.we THEN rdata ELSE store[req.addr]
    BY <1>9, Performing DEF Performed
  <2>11. rdata' \in Values
    BY InvStep DEF Inv, TypeOK
  <2>12. Ordered!Performs(req, rdata')
    BY <1>1, <1>9, <2>10, PerformsRequest DEF Inv
  <2>13. DoneLine' = Later \o <<rdata'>>
    <3>1. DoneLine' = (Later \o When(mg \/ pm, rdata')) \o When(pa, prdata')
      BY <1>8 DEF DoneMoved
    <3>2. When(mg \/ pm, rdata') = <<rdata'>> /\ When(pa, prdata') = <<>>
      BY <1>9, <2>1 DEF When
    <3>3. Later \o <<rdata'>> \in Seq(Values)
      BY <1>3, <2>11, ConcatProperties
    <3>4. (Later \o <<rdata'>>) \o <<>> = Later \o <<rdata'>>
      BY <3>3, ConcatEmptySeq
    <3> QED BY <3>1, <3>2, <3>4
  <2>14. Head(waiting) = req
    BY <1>9, <2>5
  <2> QED BY <1>9, <2>5, <2>9, <2>11, <2>12, <2>13, <2>14
<1>10. ASSUME ~mg PROVE steps
  <2>1. Todo' = PopIf(waiting, pm \/ pa)
    BY <1>10, TodoStep
  <2>2. /\ (pm \/ pa) => Front # <<>>
        /\ pm => Head(Front) = Head(MemA)
        /\ pa => Head(Front) = Head(ApbA)
    BY FrontStep, ZenonT(40)
  <2>3. CoreA \in Seq(Requests)
    BY CutType DEF Inv
  <2>4. (pm \/ pa) => waiting # <<>> /\ Head(waiting) = Head(Front)
    <3> SUFFICES ASSUME pm \/ pa PROVE waiting # <<>> /\ Head(waiting) = Head(Front)
      OBVIOUS
    <3>1. Todo # <<>> /\ Head(Todo) = Head(Front)
      BY <1>3, <2>2, <2>3, HeadOfConcat DEF Todo
    <3> HIDE DEF accepted
    <3> QED BY <1>3, <1>4, <3>1, HeadOfConcat
  <2>5. DoneLine' = (Later \o When(pm, rdata')) \o When(pa, prdata')
    <3>1. (mg \/ pm) = pm
      BY <1>10
    <3>2. DoneLine' = (Later \o When(mg \/ pm, rdata')) \o When(pa, prdata')
      BY <1>8 DEF DoneMoved
    <3> QED BY <3>1, <3>2
  <2>6. Performed(mg, pm, pa)
    BY Performing
  <2>7. rdata' \in Values /\ prdata' \in Values
    BY InvStep DEF Inv, TypeOK
  <2>8. Later \o <<>> = Later /\ TypeOK
    BY <1>3, ConcatEmptySeq DEF Inv
  <2>9. CASE pm
    <3>1. ~pa
      BY <2>9, OnePerforms
    <3>2. When(pm, rdata') = <<rdata'>> /\ When(pa, prdata') = <<>>
      BY <2>9, <3>1 DEF When
    <3>3. Later \o <<rdata'>> \in Seq(Values)
      BY <1>3, <2>7, ConcatProperties
    <3>4. (Later \o <<rdata'>>) \o <<>> = Later \o <<rdata'>>
      BY <3>3, ConcatEmptySeq
    <3>5. DoneLine' = Later \o <<rdata'>>
      BY <2>5, <3>2, <3>4
    <3>6. Ordered!Performs(Head(MemA), rdata')
      BY <1>1, <2>6, <2>8, <2>9, PerformsRequest DEF Performed
    <3> QED BY <2>1, <2>2, <2>4, <2>7, <2>9, <3>5, <3>6 DEF PopIf
  <2>10. CASE pa
    <3>1. ~pm
      BY <2>10, OnePerforms
    <3>2. When(pm, rdata') = <<>> /\ When(pa, prdata') = <<prdata'>>
      BY <2>10, <3>1 DEF When
    <3>3. DoneLine' = Later \o <<prdata'>>
      BY <2>5, <2>8, <3>2
    <3>4. Ordered!Performs(Head(ApbA), prdata')
      BY <1>1, <1>10, <2>6, <2>8, <2>10, <3>1, PerformsRequest DEF Performed
    <3> QED BY <2>1, <2>2, <2>4, <2>7, <2>10, <3>3, <3>4 DEF PopIf
  <2>11. CASE ~pm /\ ~pa
    <3>1. When(pm, rdata') = <<>> /\ When(pa, prdata') = <<>>
      BY <2>11 DEF When
    <3> QED BY <1>10, <2>1, <2>5, <2>6, <2>8, <2>11, <3>1 DEF PopIf, Performed
  <2> QED BY <2>9, <2>10, <2>11
<1>11. answered \in BOOLEAN
  OBVIOUS
<1>12. steps
  BY <1>9, <1>10
<1> HIDE DEF accepted, answered, waiting
<1>13. waiting = Todo \o accepted
  BY DEF waiting
<1> QED BY <1>4, <1>5, <1>6, <1>7, <1>11, <1>12, <1>13, StepIs

-----------------------------------------------------------------------------
(* The specification. *)

LEMMA CycleOfNext ==
  ASSUME TypeOK, Next
  PROVE  \E mg, cg, xg, pm, pa \in BOOLEAN, xs \in {"mem", "apb"} :
           Moves(mg, cg, xg, xs, pm, pa)
<1>1. PICK stalled \in SUBSET Asked, ready \in {TRUE, ~busy} :
             Cycle(stalled, ready)
  BY DEF Next
<1>2. ready \in BOOLEAN
  BY DEF TypeOK
<1> QED BY <1>1, <1>2, CycleMoves

LEMMA Stays == ASSUME Inv, UNCHANGED vars PROVE Inv'
  BY DEF vars, Inv, TypeOK, XbarFlow, LsuFlow, ApbBusy, AnswersPass,
         BehindMem, BehindApb, CoreA, MemA, ApbA, CoreR, MemR, ApbR

LEMMA Invariance == Spec => []Inv
<1>1. Init => Inv
  BY BusInit
<1>2. Inv /\ [Next]_vars => Inv'
  <2> SUFFICES ASSUME Inv, [Next]_vars PROVE Inv'
    OBVIOUS
  <2>1. CASE Next
    <3>1. PICK mg, cg, xg, pm, pa \in BOOLEAN, xs \in {"mem", "apb"} :
                 Moves(mg, cg, xg, xs, pm, pa)
      BY <2>1, CycleOfNext DEF Inv
    <3> QED BY <3>1, InvStep
  <2>2. CASE UNCHANGED vars
    BY <2>2, Stays
  <2> QED BY <2>1, <2>2
<1> QED BY <1>1, <1>2, PTL DEF Spec

(* Queues never overflow and counters stay within MaxTrans: the limit of a *)
(* demultiplexer, and two registers in each cut, are enough.               *)
THEOREM TypeCorrect == Spec => []TypeOK
<1>1. Inv => TypeOK
  BY DEF Inv
<1> QED BY <1>1, Invariance, PTL

(* The bridge keeps to the APB protocol: the request of an access phase is *)
(* there one cycle earlier, and stays until the peripheral is ready.       *)
THEOREM ApbHandshake == Spec => ApbProtocol
<1> DEFINE Kept ==
      apb' = "ACCESS" => /\ ApbA # <<>>
                         /\ ApbA' # <<>>
                         /\ Head(ApbA') = Head(ApbA)
<1>1. Inv /\ [Next]_vars => [Kept]_vars
  <2> SUFFICES ASSUME Inv, Next PROVE Kept
    OBVIOUS
  <2>1. PICK mg, cg, xg, pm, pa \in BOOLEAN, xs \in {"mem", "apb"} :
               Moves(mg, cg, xg, xs, pm, pa)
    BY CycleOfNext DEF Inv
  <2> SUFFICES ASSUME apb' = "ACCESS"
               PROVE  /\ ApbA # <<>>
                      /\ ApbA' # <<>>
                      /\ Head(ApbA') = Head(ApbA)
    OBVIOUS
  <2>2. apb' = ApbNext(ApbA # <<>>, pa) /\ (pa => apb = "ACCESS")
    BY <2>1 DEF Moves
  <2>3. apb \in {"SETUP", "ACCESS", "HANDSHAKE"} /\ ApbBusy
    BY DEF Inv, TypeOK
  <2>4. ~pa /\ ApbA # <<>>
    BY <2>2, <2>3 DEF ApbNext, ApbBusy
  <2> DEFINE w == When(xg /\ xs = "apb", Head(CoreA))
  <2>5. ApbA' = ApbA \o w
    BY <2>1, <2>4 DEF Moves, Queue, PopIf
  <2>6. ApbA \in Seq(Requests) /\ w \in Seq(Requests)
    <3>1. CoreA \in Seq(Requests) /\ ApbA \in Seq(Requests)
      BY CutType DEF Inv
    <3>2. xg => CoreA # <<>>
      BY <2>1 DEF Moves
    <3>3. xg => Head(CoreA) \in Requests
      BY <3>1, <3>2, HeadTailProperties
    <3> QED BY <3>1, <3>3, EmptySeq DEF When
  <2> HIDE DEF w
  <2>7. ApbA \o w # <<>> /\ Head(ApbA \o w) = Head(ApbA)
    BY <2>4, <2>6, HeadOfConcat
  <2> QED BY <2>4, <2>5, <2>7
<1>2. Kept <=> (apb' = "ACCESS" =>
                  /\ cut["apb"].a # <<>>
                  /\ cut'["apb"].a # <<>>
                  /\ Head(cut'["apb"].a) = Head(cut["apb"].a))
  BY DEF ApbA
<1> QED BY <1>1, <1>2, Invariance, PTL DEF Spec, ApbProtocol

(* The bus is an ordered memory: whatever route a request takes, and       *)
(* whenever debugging changes the route, it is performed once, in the      *)
(* order of the grants, and answered in that order.                        *)
THEOREM Implements == Spec => ImplementsOrderedMemory
<1>1. Init => Ordered!Init
  <2> SUFFICES ASSUME Init PROVE Ordered!Init
    OBVIOUS
  <2>1. \A c \in Cuts : cut[c].a = <<>> /\ cut[c].r = <<>>
    BY DEF Init
  <2>2. /\ store \in [Addresses -> Values] /\ resp = <<>>
        /\ mem = "IDLE" /\ apb = "SETUP"
    BY DEF Init
  <2>3. <<>> \o <<>> = <<>>
    BY EmptySeq, ConcatEmptySeq
  <2> QED BY <2>1, <2>2, <2>3 DEF Ordered!Init, Cuts, When
<1>2. Inv /\ [Next]_vars => [Ordered!Step]_<<store,
                                 cut["mem"].a \o cut["apb"].a \o cut["core"].a,
                                 cut["core"].r \o cut["mem"].r \o cut["apb"].r
                                   \o When(mem = "ACK", rdata)
                                   \o When(apb = "HANDSHAKE", prdata),
                                 resp>>
  <2> SUFFICES ASSUME Inv, [Next]_vars
               PROVE  Ordered!Step \/ UNCHANGED vars
    BY DEF vars, When
  <2>1. CASE Next
    <3>1. PICK mg, cg, xg, pm, pa \in BOOLEAN, xs \in {"mem", "apb"} :
                 Moves(mg, cg, xg, xs, pm, pa)
      BY <2>1, CycleOfNext DEF Inv
    <3> QED BY <3>1, RefineStep
  <2> QED BY <2>1
<1> QED BY <1>1, <1>2, Invariance, PTL DEF Spec, ImplementsOrderedMemory, Ordered!Spec
=============================================================================
