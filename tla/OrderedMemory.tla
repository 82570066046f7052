---------------------------- MODULE OrderedMemory ----------------------------
(***************************************************************************)
(* What a bus promises to a manager: requests are performed one after      *)
(* another in the order in which they were accepted, each exactly once,    *)
(* and answered in that order, a read with the value it found.             *)
(*                                                                         *)
(* One step is one clock cycle, in which one request may be accepted, one  *)
(* performed and one answered.                                             *)
(***************************************************************************)
EXTENDS Naturals, Sequences

CONSTANTS
  Addresses,
  Values,
  MaxTrans   \* the most requests that are accepted and not answered

Requests == [addr : Addresses, we : BOOLEAN, val : Values]

VARIABLES
  store,  \* the contents of every register and memory word
  todo,   \* requests accepted and not performed
  done,   \* the answers to requests performed and not answered
  resp    \* the answer given in the last cycle: a sequence of none or one

Init ==
  /\ store \in [Addresses -> Values]
  /\ todo = <<>>
  /\ done = <<>>
  /\ resp = <<>>

AtMostOne(S) == {<<>>} \cup {<<s>> : s \in S}

(* r is performed, with answer v; the answer to a write means nothing. *)
Performs(r, v) ==
  IF r.we
  THEN store' = [store EXCEPT ![r.addr] = r.val]
  ELSE v = store[r.addr] /\ UNCHANGED store

Step ==
  \E accepted \in AtMostOne(Requests), answered \in BOOLEAN :
    LET waiting == todo \o accepted IN
    /\ accepted # <<>> => Len(todo) + Len(done) < MaxTrans
    /\ answered => done # <<>>
    /\ resp' = IF answered THEN <<Head(done)>> ELSE <<>>
    /\ \/ /\ waiting # <<>>
          /\ todo' = Tail(waiting)
          /\ \E v \in Values :
               /\ done' = (IF answered THEN Tail(done) ELSE done) \o <<v>>
               /\ Performs(Head(waiting), v)
       \/ /\ todo' = waiting
          /\ done' = IF answered THEN Tail(done) ELSE done
          /\ UNCHANGED store

Spec == Init /\ [][Step]_<<store, todo, done, resp>>
=============================================================================
