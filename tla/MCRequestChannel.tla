---------------------------- MODULE MCRequestChannel ----------------------------
(* Two processes that share a server. *)
EXTENDS RequestChannel, TLC

Symmetry == Permutations(Clients)
=================================================================================
