-------------------------------- MODULE MCTopic --------------------------------
(* Instances of Topic for TLC. *)
EXTENDS Topic, TLC

CONSTANTS c1, c2

OneClient == {c1}
TwoClients == {c1, c2}

(* Clients differ in nothing but their name. *)
ClientSymmetry == Permutations(Clients)
=============================================================================
