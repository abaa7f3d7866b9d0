---------------------------- MODULE MCCyclicBuffer ----------------------------
(* Instances of CyclicBuffer for TLC. *)
EXTENDS CyclicBuffer, TLC

CONSTANTS w1, w2, r1

OneWriter == {w1}
TwoWriters == {w1, w2}
OneReader == {r1}

(* Two writers differ in nothing but their name. *)
WriterSymmetry == Permutations(Writers)
=============================================================================
