----------------------------- MODULE DoubleWord -----------------------------
(***************************************************************************)
(* The 64-bit values of the machine timer, kept as the two bus words the   *)
(* hardware and the driver handle separately.  A word ranges over          *)
(* 0 .. Base-1; the device has Base = 2^32, TLC uses a small Base and the   *)
(* proofs hold for every one.                                              *)
(***************************************************************************)
EXTENDS Integers

CONSTANT Base  \* the number of values of a bus word

ASSUME BaseAssumption == Base \in Nat /\ Base >= 2

Words == 0 .. Base - 1

MaxWord == Base - 1

Doubles == [hi : Words, lo : Words]

Zero == [hi |-> 0, lo |-> 0]

MaxDouble == [hi |-> MaxWord, lo |-> MaxWord]

(* Unsigned comparison of {hi, lo} concatenations. *)
Geq(a, b) == a.hi > b.hi \/ (a.hi = b.hi /\ a.lo >= b.lo)

(* A deviation the type invariant must notice: the carry out is kept. *)
SuccessorUnwrapped(n, max) == n + 1

(* The next value of a field whose largest value is max. *)
Successor(n, max) == IF n = max THEN 0 ELSE n + 1

(* The 64-bit increment: the low word's carry goes into the high word, and *)
(* the whole value wraps to zero.                                          *)
Increment(a) ==
  IF a.lo < MaxWord
  THEN [a EXCEPT !.lo = @ + 1]
  ELSE [hi |-> Successor(a.hi, MaxWord), lo |-> 0]

(* A deviation: the words are added separately. *)
PlusWithoutCarry(a, d) ==
  [a EXCEPT !.lo = IF @ + d < Base THEN @ + d ELSE @ + d - Base]

(* a + d for a one-word d, modulo 2^64. *)
Plus(a, d) ==
  IF a.lo + d < Base
  THEN [a EXCEPT !.lo = @ + d]
  ELSE [hi |-> Successor(a.hi, MaxWord), lo |-> a.lo + d - Base]

(* The sum a + d does not fit in 64 bits. *)
Overflows(a, d) == a.hi = MaxWord /\ a.lo + d >= Base
=============================================================================
