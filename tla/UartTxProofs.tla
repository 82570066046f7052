----------------------------- MODULE UartTxProofs -----------------------------
(***************************************************************************)
(* Interrupt-driven printing keeps characters in order, loses none and     *)
(* doubles none, for every message and every size of the ring.             *)
(***************************************************************************)
EXTENDS UartTx, SequenceTheorems, TLAPS

-----------------------------------------------------------------------------
(* A character on its way from one part of the queue to the next.          *)

LEMMA HeadFirst ==
  ASSUME NEW S, NEW f \in Seq(S), f # <<>>
  PROVE  <<Head(f)>> \o Tail(f) = f /\ Head(f) \in S /\ Tail(f) \in Seq(S)
<1>1. Head(f) \in S /\ Tail(f) \in Seq(S) /\ Len(Tail(f)) = Len(f) - 1
      /\ \A i \in 1 .. Len(Tail(f)) : Tail(f)[i] = f[i + 1]
  BY HeadTailProperties
<1>2. <<Head(f)>> \in Seq(S) /\ Len(<<Head(f)>>) = 1 /\ <<Head(f)>>[1] = f[1]
  BY <1>1
<1> DEFINE g == <<Head(f)>> \o Tail(f)
<1>3. /\ g \in Seq(S) /\ Len(g) = 1 + Len(Tail(f))
      /\ \A i \in 1 .. 1 + Len(Tail(f)) :
           g[i] = IF i <= 1 THEN <<Head(f)>>[i] ELSE Tail(f)[i - 1]
  BY <1>1, <1>2, ConcatProperties
<1>4. Len(f) \in Nat /\ Len(f) >= 1 /\ Len(g) = Len(f)
  BY <1>1, <1>3
<1>5. \A i \in 1 .. Len(g) : g[i] = f[i]
  BY <1>1, <1>2, <1>3, <1>4
<1>6. g = f
  BY <1>3, <1>4, <1>5, SeqEqual
<1> QED BY <1>1, <1>6

LEMMA ToWire ==
  ASSUME NEW S, NEW s \in Seq(S), NEW f \in Seq(S), f # <<>>
  PROVE  (s \o <<>>) \o f = (s \o <<Head(f)>>) \o Tail(f)
<1>1. Head(f) \in S /\ Tail(f) \in Seq(S) /\ <<Head(f)>> \o Tail(f) = f
  BY HeadFirst
<1>2. <<Head(f)>> \in Seq(S)
  BY <1>1
<1>3. (s \o <<Head(f)>>) \o Tail(f) = s \o (<<Head(f)>> \o Tail(f))
  BY <1>1, <1>2, ConcatAssociative
<1> QED BY <1>1, <1>3, ConcatEmptySeq

LEMMA ToLine ==
  ASSUME NEW S, NEW s \in Seq(S), NEW c \in S
  PROVE  s \o <<c>> = Append(s, c) \o <<>>
<1>1. Append(s, c) \in Seq(S) /\ Append(s, c) = s \o <<c>>
  BY AppendProperties, AppendIsConcat
<1> QED BY <1>1, ConcatEmptySeq

LEMMA ToFifo ==
  ASSUME NEW S, NEW s \in Seq(S), NEW f \in Seq(S), NEW x \in S, NEW r \in Seq(S)
  PROVE  (s \o f) \o (<<x>> \o r) = (s \o Append(f, x)) \o r
<1>1. <<x>> \in Seq(S) /\ Append(f, x) = f \o <<x>>
  BY AppendIsConcat
<1>2. s \o (f \o <<x>>) = (s \o f) \o <<x>>
  BY <1>1, ConcatAssociative
<1>3. s \o f \in Seq(S)
  BY ConcatProperties
<1>4. ((s \o f) \o <<x>>) \o r = (s \o f) \o (<<x>> \o r)
  BY <1>1, <1>3, ConcatAssociative
<1> QED BY <1>1, <1>2, <1>4

LEMMA ToRing ==
  ASSUME NEW S, NEW s \in Seq(S), NEW r \in Seq(S), NEW x \in S
  PROVE  s \o Append(r, x) = Append(s \o r, x)
<1>1. <<x>> \in Seq(S) /\ Append(r, x) = r \o <<x>>
  BY AppendIsConcat
<1>2. s \o r \in Seq(S)
  BY ConcatProperties
<1>3. Append(s \o r, x) = (s \o r) \o <<x>>
  BY <1>2, AppendIsConcat
<1> QED BY <1>1, <1>3, ConcatAssociative

-----------------------------------------------------------------------------
(* The ring. *)

(* What the parts are, without bounds on the queues. *)
Types ==
  /\ buffer \in [0 .. Size - 1 -> Chars \cup {NoChar}]
  /\ head \in 0 .. Size
  /\ tail \in 0 .. Size - 1
  /\ pc \in MainSteps /\ pushed \in 0 .. Len(Message)
  /\ handler \in HandlerSteps
  /\ ier \in BOOLEAN
  /\ fifo \in Seq(Chars)
  /\ shift \in Chars \cup {NoChar}
  /\ thri \in BOOLEAN /\ ip \in BOOLEAN
  /\ sent \in Seq(Chars)

(* Main is in the middle of a push or has not ended it: the transmit       *)
(* interrupt is off and the handler does nothing when it comes.            *)
Pushing == {"store", "advance", "wrap", "on"}

Alone ==
  pc \in Pushing => ~ier /\ handler \notin {"off", "start"}

Place ==
  /\ head = Size => pc = "wrap"
  /\ pc = "wrap" => head >= 1
  /\ pc \in {"off", "store", "advance"} => ~Full
  /\ pc \in {"poll", "off", "store", "advance"} => pushed < Len(Message)
  /\ pc = "advance" => buffer[head] = Char

Wire == IF shift = NoChar THEN <<>> ELSE <<shift>>

Flow ==
  /\ Contents \in Seq(Chars)
  /\ ((sent \o Wire) \o fifo) \o Contents = SubSeq(Message, 1, pushed)

Inv == Types /\ Alone /\ Place /\ Flow

LEMMA WireType == ASSUME Types PROVE Wire \in Seq(Chars)
  BY DEF Types, Wire

LEMMA CharType ==
  ASSUME UartAssumption, Types, pushed < Len(Message) PROVE Char \in Chars
  BY DEF UartAssumption, Types, Chars, Char

(* How many characters the ring holds, and where. *)
Top == IF head = Size THEN 0 ELSE head
Count == IF Top >= tail THEN Top - tail ELSE Top + Size - tail
At(i) == IF tail + i >= Size THEN tail + i - Size ELSE tail + i

LEMMA ContentsIs ==
  Contents = [i \in 1 .. Count |-> buffer[At(i - 1)]]
  BY DEF Contents, Count, Top, At

LEMMA ContentsLen ==
  ASSUME UartAssumption, Types
  PROVE  Count \in 0 .. Size - 1 /\ Len(Contents) = Count
<1>1. Count \in 0 .. Size - 1
  BY DEF UartAssumption, Types, Count, Top
<1> QED BY <1>1, ContentsIs

(* A push adds its character behind the others, also when head wraps. *)
LEMMA AdvanceContents ==
  ASSUME UartAssumption, Types, Place, Contents \in Seq(Chars), Advance
  PROVE  Contents' = Append(Contents, Char) /\ Char \in Chars
<1> USE DEF UartAssumption, Types
<1>1. /\ head \in 0 .. Size - 1 /\ ~Full /\ pushed < Len(Message)
      /\ buffer[head] = Char
  BY DEF Advance, Main, Place
<1>2. Char \in Chars
  BY <1>1, CharType
<1>3. head' = head + 1 /\ tail' = tail /\ buffer' = buffer
  BY DEF Advance
<1>4. Count \in 0 .. Size - 1 /\ Len(Contents) = Count
  BY ContentsLen
<1>5. Count' = Count + 1
  <2>1. Top = head /\ Top' = IF head + 1 = Size THEN 0 ELSE head + 1
    BY <1>1, <1>3 DEF Top
  <2>2. tail # Top'
    BY <1>1, <2>1 DEF Full
  <2>3. Count' = IF Top' >= tail THEN Top' - tail ELSE Top' + Size - tail
    BY <1>3 DEF Count
  <2>4. CASE head + 1 = Size
    <3>1. Top' = 0 /\ ~(Top' >= tail) /\ Top >= tail
      BY <2>1, <2>2, <2>4
    <3>2. Count' = Size - tail /\ Count = head - tail
      BY <2>1, <2>3, <3>1 DEF Count
    <3> QED BY <2>4, <3>2
  <2>5. CASE head + 1 # Size
    BY <1>1, <2>1, <2>2, <2>3, <2>5 DEF Count
  <2> QED BY <2>4, <2>5
<1>6. At(Count) = head
  BY <1>1 DEF At, Count, Top
<1>7. Contents' = [i \in 1 .. Count + 1 |-> buffer[At(i - 1)]]
  <2>1. Contents' = [i \in 1 .. Count' |-> buffer'[At(i - 1)']]
    BY DEF Contents, Count, Top, At
  <2>2. \A i : At(i)' = At(i)
    BY <1>3 DEF At
  <2> QED BY <1>3, <1>5, <2>1, <2>2
<1>8. \A i \in 1 .. Count : Contents[i] = buffer[At(i - 1)]
  BY ContentsIs
<1>9. \A i \in 1 .. Count : Contents[i] \in Chars
  BY <1>4
<1>10. \A i \in 1 .. Count + 1 :
         Contents'[i] = IF i <= Count THEN Contents[i] ELSE Char
  BY <1>1, <1>4, <1>6, <1>7, <1>8
<1>11. Contents' \in Seq(Chars) /\ Len(Contents') = Count + 1
  <2>1. \A i \in 1 .. Count + 1 : Contents'[i] \in Chars
    BY <1>2, <1>4, <1>9, <1>10
  <2>2. Contents' \in [1 .. Count + 1 -> Chars]
    BY <1>7, <2>1
  <2> QED BY <1>4, <1>7, <2>2
<1>12. /\ Append(Contents, Char) \in Seq(Chars)
       /\ Len(Append(Contents, Char)) = Count + 1
       /\ \A i \in 1 .. Count : Append(Contents, Char)[i] = Contents[i]
       /\ Append(Contents, Char)[Count + 1] = Char
  BY <1>2, <1>4, AppendProperties
<1>13. \A i \in 1 .. Count + 1 : Contents'[i] = Append(Contents, Char)[i]
  BY <1>4, <1>10, <1>12
<1> QED BY <1>2, <1>11, <1>12, <1>13, SeqEqual

(* start_tx takes the first character out of the ring. *)
LEMMA StartContents ==
  ASSUME UartAssumption, Types, Contents \in Seq(Chars),
         head < Size, ~Empty, UNCHANGED <<head, buffer>>,
         tail' = IF tail + 1 = Size THEN 0 ELSE tail + 1
  PROVE  /\ buffer[tail] \in Chars
         /\ Contents' \in Seq(Chars)
         /\ Contents = <<buffer[tail]>> \o Contents'
<1> USE DEF UartAssumption, Types
<1>1. Count \in 1 .. Size - 1 /\ Len(Contents) = Count
  <2>1. Count # 0
    BY DEF Count, Top, Empty
  <2> QED BY <2>1, ContentsLen
<1>2. Contents # <<>> /\ Contents[1] = buffer[tail]
  <2>1. At(0) = tail
    BY DEF At
  <2>2. Contents[1] = buffer[At(1 - 1)]
    BY <1>1, ContentsIs
  <2> QED BY <1>1, <2>1, <2>2
<1>3. /\ Tail(Contents) \in Seq(Chars) /\ Len(Tail(Contents)) = Count - 1
      /\ \A i \in 1 .. Count - 1 : Tail(Contents)[i] = Contents[i + 1]
  BY <1>1, <1>2, HeadTailProperties
<1>4. Count' = Count - 1
  BY <1>1 DEF Count, Top, Empty
<1>5. \A i \in 0 .. Count - 2 : At(i)' = At(i + 1)
  BY <1>1 DEF At
<1>6. Contents' = [i \in 1 .. Count - 1 |-> buffer[At(i - 1)']]
  <2>1. Contents' = [i \in 1 .. Count' |-> buffer'[At(i - 1)']]
    BY DEF Contents, Count, Top, At
  <2> QED BY <1>4, <2>1
<1>7. \A i \in 1 .. Count - 1 : Contents'[i] = Tail(Contents)[i]
  <2>1. \A i \in 1 .. Count - 1 : Contents[i + 1] = buffer[At(i)]
    BY <1>1, ContentsIs
  <2>2. \A i \in 1 .. Count - 1 : At(i - 1)' = At(i)
    BY <1>1, <1>5
  <2> QED BY <1>1, <1>3, <1>6, <2>1, <2>2
<1>8. Contents' = Tail(Contents)
  <2>1. \A i \in 1 .. Count - 1 : Contents'[i] \in Chars
    BY <1>1, <1>3, <1>7
  <2>2. Contents' \in [1 .. Count - 1 -> Chars]
    BY <1>6, <2>1
  <2>3. Contents' \in Seq(Chars) /\ Len(Contents') = Count - 1
    BY <1>1, <1>6, <2>2
  <2> QED BY <1>1, <1>3, <1>7, <2>3, SeqEqual
<1>9. Head(Contents) = buffer[tail]
  BY <1>2
<1> QED BY <1>2, <1>3, <1>8, <1>9, HeadFirst

(* The other steps of main leave the ring as it is. *)
LEMMA SameContents ==
  ASSUME UNCHANGED <<head, tail>>,
         \A i \in 1 .. Count : buffer'[At(i - 1)] = buffer[At(i - 1)]
  PROVE  Contents' = Contents
<1>1. Count' = Count /\ \A i : At(i)' = At(i)
  BY DEF Count, Top, At
<1>2. Contents' = [i \in 1 .. Count' |-> buffer'[At(i - 1)']]
  BY DEF Contents, Count, Top, At
<1> QED BY <1>1, <1>2, ContentsIs

-----------------------------------------------------------------------------
(* Every step keeps the invariant. *)

LEMMA MessageFacts ==
  ASSUME UartAssumption
  PROVE  /\ Message \in Seq(Chars) /\ Len(Message) \in Nat \ {0}
         /\ \A i \in 1 .. Len(Message) : Message[i] \in Chars
         /\ Size \in Nat /\ Size > 1
  BY DEF UartAssumption

LEMMA InvInit == ASSUME UartAssumption, Init PROVE Inv
<1> USE DEF Init
<1>1. Types
  BY MessageFacts, SMTT(30) DEF Types, MainSteps, HandlerSteps
<1>2. Alone /\ Place
  BY MessageFacts DEF Alone, Place, Pushing
<1>3. Contents = <<>>
  BY MessageFacts, ContentsIs DEF Count, Top
<1>4. SubSeq(Message, 1, pushed) = <<>>
  BY SubSeqEmpty
<1>5. Wire = <<>>
  BY DEF Wire
<1>6. Flow
  BY <1>3, <1>4, <1>5 DEF Flow
<1> QED BY <1>1, <1>2, <1>6 DEF Inv

LEMMA WriteIerType ==
  ASSUME Types, NEW on \in BOOLEAN, WriteIer(on)
  PROVE  ier' = on /\ thri' \in BOOLEAN /\ ip' \in BOOLEAN
  BY DEF Types, WriteIer, Latch, Line

LEMMA SameFlow ==
  ASSUME Flow, Contents' = Contents, UNCHANGED <<sent, shift, fifo, pushed>>
  PROVE  Flow'
  BY DEF Flow, Wire

(* The UART. *)
LEMMA ShiftStep == ASSUME UartAssumption, Inv, Shift PROVE Inv'
<1> USE DEF Inv
<1>1. Head(fifo) \in Chars /\ Tail(fifo) \in Seq(Chars)
  BY HeadFirst DEF Shift, Types
<1>2. Types'
  BY <1>1 DEF Shift, Types, Latch, Line, ring
<1>3. Alone' /\ Place'
  BY DEF Shift, Alone, Place, Full, Char, ring
<1>4. Contents' = Contents
  BY SameContents DEF Shift, ring
<1>5. Wire = <<>> /\ Wire' = <<Head(fifo)>>
  BY <1>1 DEF Shift, Wire, UartAssumption
<1>6. (sent \o Wire) \o fifo = (sent' \o Wire') \o fifo'
  BY <1>5, ToWire DEF Shift, Types
<1>7. Flow'
  BY <1>4, <1>6 DEF Flow, Shift
<1> QED BY <1>2, <1>3, <1>7

LEMMA TransmitStep == ASSUME UartAssumption, Inv, Transmit PROVE Inv'
<1> USE DEF Inv
<1>1. shift \in Chars
  BY DEF Types, Transmit
<1>2. Types'
  BY <1>1, AppendProperties DEF Transmit, Types, ring
<1>3. Alone' /\ Place'
  BY DEF Transmit, Alone, Place, Full, Char, ring
<1>4. Contents' = Contents
  BY SameContents DEF Transmit, ring
<1>5. Wire = <<shift>> /\ Wire' = <<>>
  BY DEF Transmit, Wire
<1>6. sent \o Wire = sent' \o Wire'
  BY <1>1, <1>5, ToLine DEF Transmit, Types
<1>7. Flow'
  BY <1>4, <1>6 DEF Flow, Transmit
<1> QED BY <1>2, <1>3, <1>7

(* Main: the steps that do not touch the ring. *)
LEMMA PollStep == ASSUME UartAssumption, Inv, Poll PROVE Inv'
<1> USE DEF Inv
<1>1. Types'
  BY DEF Poll, Main, Types, MainSteps, ring, uart
<1>2. Alone' /\ Place'
  BY DEF Poll, Main, Alone, Place, Full, Pushing, Char, ring, uart
<1>3. Contents' = Contents
  BY SameContents DEF Poll, ring
<1>4. Flow'
  BY <1>3, SameFlow DEF Poll, uart
<1> QED BY <1>1, <1>2, <1>4

LEMMA TurnOffStep == ASSUME UartAssumption, Inv, TurnOff PROVE Inv'
<1> USE DEF Inv
<1>1. ier' = FALSE /\ thri' \in BOOLEAN /\ ip' \in BOOLEAN
  BY WriteIerType DEF TurnOff
<1>2. Types'
  BY <1>1 DEF TurnOff, Main, Types, MainSteps, ring
<1>3. Alone'
  BY <1>1 DEF TurnOff, Main, Alone
<1>4. Place'
  BY DEF TurnOff, Main, Place, Full, Char, ring
<1>5. Contents' = Contents
  BY SameContents DEF TurnOff, ring
<1>6. Flow'
  BY <1>5, SameFlow DEF TurnOff
<1> QED BY <1>2, <1>3, <1>4, <1>6

LEMMA TurnOnStep == ASSUME UartAssumption, Inv, TurnOn PROVE Inv'
<1> USE DEF Inv
<1>1. ier' = TRUE /\ thri' \in BOOLEAN /\ ip' \in BOOLEAN
  BY WriteIerType DEF TurnOn
<1>2. pc' \in {"done", "poll"} /\ (pc' = "poll" => pushed # Len(Message))
  BY DEF TurnOn, Main
<1>3. Types'
  BY <1>1, <1>2 DEF TurnOn, Types, MainSteps, ring
<1>4. Alone'
  BY <1>2 DEF Alone, Pushing
<1>5. pc = "on" /\ UNCHANGED <<ring, pushed, fifo, shift, sent>>
  BY DEF TurnOn, Main
<1>6. Place'
  BY <1>2, <1>5, MessageFacts DEF Place, ring, Types
<1>7. Contents' = Contents
  BY <1>5, SameContents DEF ring
<1>8. Flow'
  BY <1>5, <1>7, SameFlow
<1> QED BY <1>3, <1>4, <1>6, <1>8

(* Main: the push. *)
LEMMA StoreStep == ASSUME UartAssumption, Inv, Store PROVE Inv'
<1> USE DEF Inv
<1>1. /\ pc = "store" /\ pc' = "advance" /\ head \in 0 .. Size - 1
      /\ pushed < Len(Message) /\ ~Full
      /\ UNCHANGED <<head, tail, pushed, handler, uart, ip>>
      /\ buffer' = [buffer EXCEPT ![head] = Char]
  BY MessageFacts DEF Store, Main, Place, Types
<1>2. Char \in Chars
  BY <1>1, CharType
<1>3. Types'
  BY <1>1, <1>2 DEF Types, MainSteps, uart
<1>4. Alone'
  BY <1>1 DEF Alone, Pushing, uart
<1>5. buffer'[head'] = Char'
  BY <1>1 DEF Types, Char
<1>6. Place'
  BY <1>1, <1>5, MessageFacts DEF Place, Full, Types
<1>7. \A i \in 1 .. Count : At(i - 1) \in 0 .. Size - 1 /\ At(i - 1) # head
  BY <1>1, MessageFacts DEF Types, Count, Top, At
<1>8. \A i \in 1 .. Count : buffer'[At(i - 1)] = buffer[At(i - 1)]
  BY <1>1, <1>7 DEF Types
<1>9. Contents' = Contents
  BY <1>1, <1>8, SameContents
<1>10. Flow'
  BY <1>1, <1>9, SameFlow DEF uart
<1> QED BY <1>3, <1>4, <1>6, <1>10

LEMMA AdvanceStep == ASSUME UartAssumption, Inv, Advance PROVE Inv'
<1> USE DEF Inv
<1>1. /\ pc = "advance" /\ pc' = "wrap" /\ head \in 0 .. Size - 1
      /\ pushed < Len(Message) /\ pushed \in Nat
      /\ UNCHANGED <<buffer, tail, handler, uart, ip>>
      /\ head' = head + 1 /\ pushed' = pushed + 1
  BY MessageFacts DEF Advance, Main, Place, Types
<1>2. Types'
  BY <1>1, MessageFacts DEF Types, MainSteps, uart
<1>3. Alone'
  BY <1>1 DEF Alone, Pushing, uart
<1>4. Place'
  BY <1>1 DEF Place
<1>5. Contents' = Append(Contents, Char) /\ Char \in Chars
  BY AdvanceContents DEF Flow
<1> DEFINE sofar == (sent \o Wire) \o fifo
<1>6. sofar \in Seq(Chars) /\ sofar' = sofar
  <2>1. sofar \in Seq(Chars)
    BY WireType, ConcatProperties DEF Types
  <2>2. sofar' = sofar
    BY <1>1 DEF uart, Wire
  <2> QED BY <2>1, <2>2
<1>7. SubSeq(Message, 1, pushed + 1) = Append(SubSeq(Message, 1, pushed), Char)
  <2>1. /\ pushed + 1 \in 1 .. Len(Message) /\ pushed + 1 - 1 = pushed
        /\ 1 \in 1 .. Len(Message) /\ pushed \in Int
        /\ \A i \in 1 .. pushed : Message[i] \in Chars
    BY <1>1, MessageFacts
  <2>2. SubSeq(Message, 1, pushed + 1)
          = SubSeq(Message, 1, pushed) \o <<Message[pushed + 1]>>
    <3>1. SubSeq(Message, 1, pushed + 1)
            = SubSeq(Message, 1, pushed + 1 - 1) \o <<Message[pushed + 1]>>
      <4> HIDE DEF Inv
      <4> QED BY <2>1, MessageFacts, SubSeqRecursiveSecond
    <3> QED BY <2>1, <3>1
  <2>3. SubSeq(Message, 1, pushed) \in Seq(Chars)
    BY <2>1, MessageFacts, SubSeqProperties
  <2> QED BY <1>5, <2>2, <2>3, AppendIsConcat DEF Char
<1> HIDE DEF sofar
<1>8. sofar \o Append(Contents, Char) = Append(sofar \o Contents, Char)
  BY <1>5, <1>6, ToRing DEF Flow
<1>9. Contents' \in Seq(Chars)
  BY <1>5, AppendProperties DEF Flow
<1>10. sofar' \o Contents' = SubSeq(Message, 1, pushed')
  BY <1>1, <1>5, <1>6, <1>7, <1>8 DEF Flow, sofar
<1>11. Flow'
  BY <1>9, <1>10 DEF Flow, sofar
<1> QED BY <1>2, <1>3, <1>4, <1>11

LEMMA WrapStep == ASSUME UartAssumption, Inv, Wrap PROVE Inv'
<1> USE DEF Inv
<1>1. /\ pc = "wrap" /\ pc' = "on" /\ head \in 1 .. Size
      /\ UNCHANGED <<buffer, tail, pushed, handler, uart, ip>>
      /\ head' = IF head = Size THEN 0 ELSE head
  BY MessageFacts DEF Wrap, Main, Place, Types
<1>2. Types'
  BY <1>1, MessageFacts DEF Types, MainSteps, uart
<1>3. Alone'
  BY <1>1 DEF Alone, Pushing, uart
<1>4. Place'
  BY <1>1, MessageFacts DEF Place
<1>5. Contents' = Contents
  <2>1. Top' = Top
    BY <1>1, MessageFacts DEF Top
  <2>2. Count' = Count /\ \A i : At(i)' = At(i)
    BY <1>1, <2>1 DEF Count, At
  <2>3. Contents' = [i \in 1 .. Count' |-> buffer'[At(i - 1)']]
    BY DEF Contents, Count, Top, At
  <2> QED BY <1>1, <2>2, <2>3, ContentsIs
<1>6. Flow'
  BY <1>1, <1>5, SameFlow DEF uart
<1> QED BY <1>2, <1>3, <1>4, <1>6

(* The handler. *)
LEMMA EnterReturnStep == ASSUME UartAssumption, Inv, Enter \/ Return PROVE Inv'
<1> USE DEF Inv
<1>1. /\ handler' \in {"ident", "idle"} /\ ip' \in BOOLEAN
      /\ UNCHANGED <<ring, pc, pushed, uart>>
  BY DEF Enter, Return, Handler, Types
<1>2. Types'
  BY <1>1 DEF Types, HandlerSteps, ring, uart
<1>3. Alone' /\ Place'
  BY <1>1 DEF Alone, Place, Full, Char, ring, uart
<1>4. Contents' = Contents
  BY <1>1, SameContents DEF ring
<1>5. Flow'
  BY <1>1, <1>4, SameFlow DEF uart
<1> QED BY <1>2, <1>3, <1>5

LEMMA IdentifyStep == ASSUME UartAssumption, Inv, Identify PROVE Inv'
<1> USE DEF Inv
<1>1. /\ handler' \in {"off", "return"} /\ (handler' = "off" => ier)
      /\ thri' \in BOOLEAN
      /\ UNCHANGED <<ring, pc, pushed, ier, fifo, shift, sent, ip>>
  BY DEF Identify, Handler, Line, Types
<1>2. Types'
  BY <1>1 DEF Types, HandlerSteps, ring
<1>3. Alone' /\ Place'
  BY <1>1 DEF Alone, Place, Full, Char, ring
<1>4. Contents' = Contents
  BY <1>1, SameContents DEF ring
<1>5. Flow'
  BY <1>1, <1>4, SameFlow
<1> QED BY <1>2, <1>3, <1>5

LEMMA HandlerOffStep == ASSUME UartAssumption, Inv, HandlerOff PROVE Inv'
<1> USE DEF Inv
<1>1. ier' = FALSE /\ thri' \in BOOLEAN /\ ip' \in BOOLEAN
  BY WriteIerType DEF HandlerOff
<1>2. /\ handler = "off" /\ handler' = "start"
      /\ UNCHANGED <<ring, pc, pushed, fifo, shift, sent>>
  BY DEF HandlerOff, Handler
<1>3. Types'
  BY <1>1, <1>2 DEF Types, HandlerSteps, ring
<1>4. Alone' /\ Place'
  BY <1>1, <1>2 DEF Alone, Place, Full, Char, ring
<1>5. Contents' = Contents
  BY <1>2, SameContents DEF ring
<1>6. Flow'
  BY <1>2, <1>5, SameFlow
<1> QED BY <1>3, <1>4, <1>6

LEMMA StartStep == ASSUME UartAssumption, Inv, Start PROVE Inv'
<1> USE DEF Inv
<1>1. /\ handler = "start" /\ handler' = "return"
      /\ UNCHANGED <<buffer, head, pc, pushed, ier, shift, sent, ip>>
  BY DEF Start, Handler
<1>2. pc \notin Pushing /\ head \in 0 .. Size - 1
  BY <1>1, MessageFacts DEF Alone, Place, Types, Pushing
<1>3. CASE Empty
  <2>1. UNCHANGED <<tail, fifo, thri>>
    BY <1>3 DEF Start
  <2>2. Types' /\ Alone' /\ Place'
    BY <1>1, <2>1 DEF Types, HandlerSteps, Alone, Place, Full, Char
  <2>3. Contents' = Contents
    BY <1>1, <2>1, SameContents
  <2>4. Flow'
    BY <1>1, <2>1, <2>3, SameFlow
  <2> QED BY <2>2, <2>4
<1>4. CASE ~Empty
  <2>1. /\ fifo' = Append(fifo, buffer[tail]) /\ thri' = FALSE
        /\ tail' = IF tail + 1 = Size THEN 0 ELSE tail + 1
    BY <1>4 DEF Start
  <2>2. /\ buffer[tail] \in Chars
        /\ Contents' \in Seq(Chars)
        /\ Contents = <<buffer[tail]>> \o Contents'
    BY <1>1, <1>2, <1>4, <2>1, StartContents, MessageFacts DEF Flow
  <2>3. Types'
    <3>1. fifo' \in Seq(Chars)
      BY <2>1, <2>2, AppendProperties DEF Types
    <3>2. tail' \in 0 .. Size - 1
      BY <2>1, MessageFacts DEF Types
    <3> QED BY <1>1, <2>1, <3>1, <3>2 DEF Types, HandlerSteps
  <2>4. Alone'
    BY <1>1, <1>2 DEF Alone
  <2>5. Place'
    BY <1>1, <1>2, <1>4, <2>1, MessageFacts
       DEF Place, Full, Empty, Char, Pushing, Types
  <2>6. sent \o Wire \in Seq(Chars) /\ sent' \o Wire' = sent \o Wire
    BY <1>1, WireType, ConcatProperties DEF Types, Wire
  <2>7. ((sent \o Wire) \o fifo) \o Contents
          = ((sent \o Wire) \o fifo') \o Contents'
    <3> DEFINE front == sent \o Wire
               left == Contents'
               char == buffer[tail]
    <3>1. front \in Seq(Chars) /\ left \in Seq(Chars) /\ char \in Chars
          /\ fifo \in Seq(Chars)
      BY <2>2, <2>6 DEF Types
    <3> HIDE DEF front, left, char
    <3>2. (front \o fifo) \o (<<char>> \o left)
            = (front \o Append(fifo, char)) \o left
      BY <3>1, ToFifo, SMTT(30)
    <3> QED BY <2>1, <2>2, <3>2 DEF front, left, char
  <2>8. Flow'
    BY <1>1, <2>2, <2>6, <2>7 DEF Flow
  <2> QED BY <2>3, <2>4, <2>5, <2>8
<1> QED BY <1>3, <1>4

LEMMA InvStep == ASSUME UartAssumption, Inv, [Next]_vars PROVE Inv'
<1>1. CASE WriteSerial
  BY <1>1, PollStep, TurnOffStep, StoreStep, AdvanceStep, WrapStep, TurnOnStep
     DEF WriteSerial
<1>2. CASE UartHandler
  BY <1>2, EnterReturnStep, IdentifyStep, HandlerOffStep, StartStep
     DEF UartHandler
<1>3. CASE Shift \/ Transmit
  BY <1>3, ShiftStep, TransmitStep
<1>4. CASE UNCHANGED vars
  <2>1. Contents' = Contents
    BY <1>4, SameContents DEF vars, ring
  <2>2. Types' /\ Alone' /\ Place'
    BY <1>4 DEF Inv, Types, Alone, Place, Full, Char, vars, ring, uart
  <2>3. Flow'
    BY <1>4, <2>1, SameFlow DEF Inv, vars, uart
  <2> QED BY <2>2, <2>3 DEF Inv
<1> QED BY <1>1, <1>2, <1>3, <1>4 DEF Next

LEMMA Invariant == ASSUME UartAssumption PROVE Spec => []Inv
<1>1. Init => Inv
  BY InvInit
<1>2. Inv /\ [Next]_vars => Inv'
  BY InvStep
<1> QED BY <1>1, <1>2, PTL DEF Spec

(* write_serial and uart_handler deliver what was written, in order, each  *)
(* character once, however their accesses and the UART interleave.         *)
THEOREM CharactersInOrder == ASSUME UartAssumption PROVE Spec => []InOrder
<1>1. Inv => InOrder
  BY DEF Inv, Flow, InOrder, Wire
<1> QED BY <1>1, Invariant, PTL

(* The variables keep their types: no more is ever in the FIFO or on the   *)
(* other side than was pushed.                                             *)
THEOREM TypeCorrect == ASSUME UartAssumption PROVE Spec => []TypeOK
<1>1. ASSUME Inv PROVE TypeOK
  <2> USE <1>1 DEF Inv
  <2>1. Types
    OBVIOUS
  <2>2. pushed \in Nat /\ pushed <= Len(Message) /\ Len(Message) \in Nat
    BY <2>1, MessageFacts DEF Types
  <2>3. Len(SubSeq(Message, 1, pushed)) = pushed
    BY <2>2, MessageFacts, SubSeqProperties
  <2>4. /\ sent \in Seq(Chars) /\ fifo \in Seq(Chars)
        /\ Wire \in Seq(Chars) /\ Contents \in Seq(Chars)
    BY <2>1, WireType DEF Types, Flow
  <2>5. sent \o Wire \in Seq(Chars) /\ Len(sent \o Wire) = Len(sent) + Len(Wire)
    BY <2>4, ConcatProperties
  <2>6. /\ (sent \o Wire) \o fifo \in Seq(Chars)
        /\ Len((sent \o Wire) \o fifo) = Len(sent \o Wire) + Len(fifo)
    BY <2>4, <2>5, ConcatProperties
  <2>7. Len(((sent \o Wire) \o fifo) \o Contents)
          = Len((sent \o Wire) \o fifo) + Len(Contents)
    BY <2>4, <2>6, ConcatProperties
  <2>8. pushed = Len(sent) + Len(Wire) + Len(fifo) + Len(Contents)
    BY <2>3, <2>5, <2>6, <2>7 DEF Flow
  <2>9. /\ Len(sent) \in Nat /\ Len(Wire) \in Nat /\ Len(fifo) \in Nat
        /\ Len(Contents) \in Nat
    BY <2>4
  <2>10. Len(sent) <= Len(Message) /\ Len(fifo) <= Len(Message)
    BY <2>2, <2>8, <2>9
  <2> QED BY <2>1, <2>10 DEF Types, TypeOK
<1>2. Inv => TypeOK
  BY <1>1
<1> QED BY <1>2, Invariant, PTL
=============================================================================
