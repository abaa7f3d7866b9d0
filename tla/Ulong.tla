--------------------------------- MODULE Ulong ---------------------------------
(* ulong and size_t arithmetic: what goes below zero or past the last value *)
(* wraps.  Word is 2^64.                                                    *)
EXTENDS Integers

CONSTANT Word

ASSUME WordAssumption == Word \in Nat \ {0}

(* Fault: signed arithmetic. *)
Minus_Signed(a, b) == a - b

Minus(a, b) == (a - b) % Word

Succ(a) == (a + 1) % Word
=============================================================================
