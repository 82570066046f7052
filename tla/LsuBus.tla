-------------------------------- MODULE LsuBus --------------------------------
(***************************************************************************)
(* The core's load/store port and the bus behind it (src/src/ip): the      *)
(* demultiplexer of rt_core.sv that leads directly to the data memory or   *)
(* out to the main crossbar, the register cuts (obi_cut_intf.sv), the      *)
(* memory's handshake (obi_handshake_fsm.sv, obi_sram_intf.sv) and the APB *)
(* bridge (obi_to_apb_intf.sv).                                            *)
(*                                                                         *)
(*            +-- direct ------------------------------+                   *)
(*   LSU --demux                                       mux -- data memory  *)
(*            +-- core cut -- crossbar -- mem cut -----+                   *)
(*                               +------- apb cut -- bridge -- APB         *)
(*                                                                         *)
(* The data memory is reached directly, and through the crossbar while the *)
(* debugger holds the core: debug_mode and debug_req_i take part in the    *)
(* selection and may change in any cycle.  One step is one clock cycle of  *)
(* all parts.                                                              *)
(***************************************************************************)
EXTENDS Naturals, Sequences

CONSTANTS
  MemAddresses,  \* words of the data memory
  ApbAddresses,  \* registers behind the bridge
  Values,
  MaxTrans,      \* NumMaxTrans of every demultiplexer
  NoRequest

ASSUME BusAssumption ==
  /\ MaxTrans \in Nat \ {0}
  /\ Values # {}
  /\ MemAddresses \cap ApbAddresses = {}

Addresses == MemAddresses \cup ApbAddresses

(* A read has some data on its bus too: any value, always the same here.   *)
Requests ==
  [addr : Addresses, we : {TRUE}, val : Values]
    \cup [addr : Addresses, we : {FALSE}, val : {CHOOSE v \in Values : TRUE}]

Cuts == {"core", "mem", "apb"}

VARIABLES
  req,     \* the request the LSU asserts, or NoRequest
  dbg,     \* if_dbg_sel: debug_mode | debug_req_i
  lsu,     \* the LSU demultiplexer: selected port, transactions in flight
  xbar,    \* the crossbar's demultiplexer for the core: likewise
  cut,     \* the two registers of each cut, as queues a and r
  mem,     \* the memory's handshake: "IDLE" or "ACK"
  via,     \* the port of the memory's multiplexer the next answer is for
  rdata,   \* the memory's output register
  apb,     \* the bridge: "SETUP", "ACCESS" or "HANDSHAKE"
  busy,    \* the peripheral side is performing an access
  prdata,  \* the read data it returned last
  store,   \* the contents of memory words and registers
  resp     \* the answer the LSU received in the last cycle

vars == <<req, dbg, lsu, xbar, cut, mem, via, rdata, apb, busy, prdata,
          store, resp>>

TypeOK ==
  /\ req \in Requests \cup {NoRequest}
  /\ dbg \in BOOLEAN
  /\ lsu \in [sel : {"direct", "ext"}, cnt : 0 .. MaxTrans]
  /\ xbar \in [sel : {"mem", "apb"}, cnt : 0 .. MaxTrans]
  /\ \A c \in Cuts : /\ cut[c].a \in Seq(Requests) /\ Len(cut[c].a) <= 2
                     /\ cut[c].r \in Seq(Values) /\ Len(cut[c].r) <= 2
  /\ mem \in {"IDLE", "ACK"} /\ via \in {"direct", "ext"} /\ rdata \in Values
  /\ apb \in {"SETUP", "ACCESS", "HANDSHAKE"}
  /\ busy \in BOOLEAN /\ prdata \in Values
  /\ store \in [Addresses -> Values]
  /\ resp \in Seq(Values) /\ Len(resp) <= 1

Init ==
  /\ req = NoRequest
  /\ dbg = FALSE
  /\ lsu = [sel |-> "direct", cnt |-> 0]
  /\ xbar = [sel |-> "mem", cnt |-> 0]
  /\ cut = [c \in Cuts |-> [a |-> <<>>, r |-> <<>>]]
  /\ mem = "IDLE" /\ via = "direct" /\ rdata \in Values
  /\ apb = "SETUP" /\ busy = FALSE /\ prdata \in Values
  /\ store \in [Addresses -> Values]
  /\ resp = <<>>

-----------------------------------------------------------------------------
(* Parts.  Each operator gives a signal of this cycle, or a next state.    *)

(* A sequence of none or one: x if it is valid. *)
When(valid, x) == IF valid THEN <<x>> ELSE <<>>

PopIf(q, pop) == IF pop THEN Tail(q) ELSE q

(* A deviation: the port follows the selection, whatever is in flight. *)
OpensAlways(d, port, answered) == d.cnt < MaxTrans

(* The demultiplexers' rule: another port is selected only when nothing is *)
(* in flight, or the last answer arrives in this cycle.                    *)
Opens(d, port, answered) ==
  /\ d.cnt < MaxTrans
  /\ d.sel = port \/ d.cnt = 0 \/ (d.cnt = 1 /\ answered)

Count(d, port, granted, answered) ==
  [sel |-> IF granted THEN port ELSE d.sel,
   cnt |-> (d.cnt + (IF granted THEN 1 ELSE 0)) - (IF answered THEN 1 ELSE 0)]

(* A deviation: a cut grants although both of its registers are full. *)
CutGrantsAlways(c) == Len(cut[c].a) < 3

(* A cut grants while one of its two request registers is free. *)
CutGrants(c) == Len(cut[c].a) < 2

(* lsu_sel: the direct route is for data memory, outside of debugging. *)
LsuSel == IF dbg \/ req.addr \notin MemAddresses THEN "ext" ELSE "direct"

(* The crossbar's address map. *)
XbarSel(r) == IF r.addr \in MemAddresses THEN "mem" ELSE "apb"

(* A deviation: the bridge goes on without answering. *)
ApbNextUnanswered(waiting, pready) ==
  CASE apb = "SETUP"     -> IF waiting THEN "ACCESS" ELSE "SETUP"
    [] apb = "ACCESS"    -> IF pready THEN "SETUP" ELSE "ACCESS"
    [] apb = "HANDSHAKE" -> IF waiting THEN "ACCESS" ELSE "SETUP"

(* A deviation: the bridge enters the access phase with nothing to do. *)
ApbNextUnasked(waiting, pready) ==
  CASE apb = "SETUP"     -> IF waiting THEN "ACCESS" ELSE "SETUP"
    [] apb = "ACCESS"    -> IF pready THEN "HANDSHAKE" ELSE "ACCESS"
    [] apb = "HANDSHAKE" -> "ACCESS"

(* The bridge's state machine; a request that waits while the last one is  *)
(* being answered has its setup phase in that cycle.                       *)
ApbNext(waiting, pready) ==
  CASE apb = "SETUP"     -> IF waiting THEN "ACCESS" ELSE "SETUP"
    [] apb = "ACCESS"    -> IF pready THEN "HANDSHAKE" ELSE "ACCESS"
    [] apb = "HANDSHAKE" -> IF waiting THEN "ACCESS" ELSE "SETUP"

(* The memory's handshake: a grant in any state, an answer in the cycle     *)
(* after it.                                                               *)
MemNext(granted) == IF granted THEN "ACK" ELSE "IDLE"

(* The next state of a word store and of a data register that request r,   *)
(* if there is one, reads into.                                            *)
Stored(r) == [a \in Addresses |-> IF r.we /\ r.addr = a THEN r.val ELSE store[a]]

(* The LSU holds a request until it is granted, then may assert another.   *)
NextRequest(granted) ==
  IF req # NoRequest /\ ~granted
  THEN UNCHANGED req
  ELSE req' \in Requests \cup {NoRequest}

-----------------------------------------------------------------------------
(* One clock cycle.  stalled: the multiplexers that serve another manager  *)
(* (instruction fetch, debugger, DMA); ready: the peripheral side finishes *)
(* the access it is performing.                                            *)
Cycle(stalled, ready) ==
  LET \* answers
      fromMem    == mem = "ACK" /\ via = "direct"
      toMemCut   == When(mem = "ACK" /\ via = "ext", rdata)
      toApbCut   == When(apb = "HANDSHAKE", prdata)
      toCoreCut  == cut[xbar.sel].r
      answer     == IF lsu.sel = "direct" THEN When(fromMem, rdata)
                                          ELSE cut["core"].r
      answered   == answer # <<>>
      xAnswered  == toCoreCut # <<>>
      \* requests
      open       == req # NoRequest /\ Opens(lsu, LsuSel, answered)
      memReq     == open /\ LsuSel = "direct"
      memCutReq  == cut["mem"].a # <<>>
      memGnt     == memReq /\ "dmem" \notin stalled
      memCutGnt  == memCutReq /\ ~memReq /\ "dmem" \notin stalled
      coreGnt    == /\ open /\ LsuSel = "ext"
                    /\ CutGrants("core") /\ "ext" \notin stalled
      granted    == memGnt \/ coreGnt
      xReq       == cut["core"].a # <<>>
      xSel       == IF xReq THEN XbarSel(Head(cut["core"].a)) ELSE "mem"
      xGnt       == /\ xReq /\ Opens(xbar, xSel, xAnswered)
                    /\ CutGrants(xSel) /\ "xbar" \notin stalled
      pready     == apb = "ACCESS" /\ busy /\ ready
      performed  == IF memGnt THEN <<req>>
                    ELSE When(memCutGnt, Head(cut["mem"].a))
      accessed   == When(pready, Head(cut["apb"].a))
  IN /\ resp' = answer
     /\ lsu' = Count(lsu, LsuSel, granted, answered)
     /\ xbar' = Count(xbar, xSel, xGnt, xAnswered)
     /\ cut' = [c \in Cuts |->
          CASE c = "core" ->
                 [a |-> PopIf(cut[c].a, xGnt) \o When(coreGnt, req),
                  r |-> toCoreCut]
            [] c = "mem" ->
                 [a |-> PopIf(cut[c].a, memCutGnt) \o
                          When(xGnt /\ xSel = c, Head(cut["core"].a)),
                  r |-> toMemCut]
            [] c = "apb" ->
                 [a |-> PopIf(cut[c].a, pready) \o
                          When(xGnt /\ xSel = c, Head(cut["core"].a)),
                  r |-> toApbCut]]
     /\ mem' = MemNext(performed # <<>>)
     /\ via' = IF memGnt THEN "direct" ELSE "ext"
     /\ rdata' = IF performed # <<>> /\ ~Head(performed).we
                 THEN store[Head(performed).addr] ELSE rdata
     /\ apb' = ApbNext(cut["apb"].a # <<>>, pready)
     /\ busy' = (apb = "ACCESS" /\ ~pready)
     /\ prdata' = IF pready /\ ~Head(accessed).we
                  THEN store[Head(accessed).addr] ELSE prdata
     /\ store' = IF performed # <<>> THEN Stored(Head(performed))
                 ELSE IF pready THEN Stored(Head(accessed)) ELSE store
     /\ NextRequest(granted)
     /\ dbg' \in BOOLEAN

(* The multiplexers where the LSU has a request, and may have to wait. *)
Asked ==
  (IF req = NoRequest THEN {} ELSE {"dmem", "ext"})
    \cup (IF cut["mem"].a = <<>> THEN {} ELSE {"dmem"})
    \cup (IF cut["core"].a = <<>> THEN {} ELSE {"xbar"})

Next ==
  \E stalled \in SUBSET Asked, ready \in {TRUE, ~busy} : Cycle(stalled, ready)

Spec == Init /\ [][Next]_vars

(* The clock runs, and neither other managers (the multiplexers arbitrate  *)
(* fairly) nor the peripheral side keep the LSU waiting for ever.          *)
FairSpec == Spec /\ WF_vars(Cycle({}, TRUE))

-----------------------------------------------------------------------------
(* Properties. *)

(* The bus is an ordered memory: whatever route a request takes, and       *)
(* whenever debugging changes the route, requests are performed once, in   *)
(* the order they were granted, and answered in that order, each read with *)
(* the value that was there.                                               *)
Ordered == INSTANCE OrderedMemory WITH
  todo <- cut["mem"].a \o cut["apb"].a \o cut["core"].a,
  done <- cut["core"].r \o cut["mem"].r \o cut["apb"].r
            \o When(mem = "ACK", rdata) \o When(apb = "HANDSHAKE", prdata)

ImplementsOrderedMemory == Ordered!Spec

(* The APB protocol at the bridge: an access phase follows a setup phase   *)
(* with the same request, and the request stays as it is until the         *)
(* peripheral is ready.                                                    *)
ApbProtocol ==
  [][apb' = "ACCESS" =>
       /\ cut["apb"].a # <<>>
       /\ cut'["apb"].a # <<>>
       /\ Head(cut'["apb"].a) = Head(cut["apb"].a)]_vars

(* Every request is answered: a port with something to do receives another *)
(* answer.                                                                 *)
Answered == (req # NoRequest \/ lsu.cnt > 0) ~> resp # <<>>
=============================================================================
