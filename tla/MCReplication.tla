----------------------------- MODULE MCReplication -----------------------------
EXTENDS Replication

(* A message of several leaves, a single datagram and a message of one leaf. *)
MCChunks == <<5, 1, 2>>
=================================================================================
