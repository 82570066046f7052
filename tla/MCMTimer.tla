------------------------------ MODULE MCMTimer ------------------------------
(* Small instances of the machine timer for TLC. *)
EXTENDS MTimer

(* One deadline below, one at and one above a carry of the low word. *)
SomeDeadlines ==
  {[hi |-> 0, lo |-> 1], [hi |-> 1, lo |-> 0], MaxDouble}

(* The count just before a carry, and all ones as periodic_tasks sets it. *)
SomeCounts == {[hi |-> 0, lo |-> MaxWord], MaxDouble}

SomeDurations == {1, Base - 1}
=============================================================================
