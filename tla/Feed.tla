---------------------------------- MODULE Feed ----------------------------------
(***************************************************************************)
(* What a topic promises, without slots, semaphores, requests or threads:   *)
(* messages are published one after the other; whoever joins reads them in  *)
(* order, each one once, from the first published after it joined (or from  *)
(* the one being published then), until it leaves.                          *)
(***************************************************************************)
EXTENDS Naturals

CONSTANT Readers

VARIABLES
    published,       \* messages 0 .. published - 1 are in the topic
    phase,           \* of each reader
    since,           \* how many messages there were when it joined
    next             \* the message it reads next

vars == <<published, phase, since, next>>

Init ==
    /\ published = 0
    /\ phase = [r \in Readers |-> "out"]
    /\ since = [r \in Readers |-> 0]
    /\ next = [r \in Readers |-> 0]

Publish ==
    /\ published' = published + 1
    /\ UNCHANGED <<phase, since, next>>

Join(r) ==
    /\ phase[r] = "out"
    /\ phase' = [phase EXCEPT ![r] = "joined"]
    /\ since' = [since EXCEPT ![r] = published]
    /\ UNCHANGED <<published, next>>

(* The reader learns where it starts, at a message that is there. *)
Start(r) ==
    /\ phase[r] = "joined"
    /\ \E k \in 0..(published - 1) :
          /\ k \in {since[r] - 1, since[r]}
          /\ next' = [next EXCEPT ![r] = k]
    /\ phase' = [phase EXCEPT ![r] = "reading"]
    /\ UNCHANGED <<published, since>>

Read(r) ==
    /\ phase[r] = "reading"
    /\ next[r] < published
    /\ next' = [next EXCEPT ![r] = @ + 1]
    /\ UNCHANGED <<published, phase, since>>

Leave(r) ==
    /\ phase[r] \in {"joined", "reading"}
    /\ phase' = [phase EXCEPT ![r] = "out"]
    /\ since' = [since EXCEPT ![r] = 0]
    /\ next' = [next EXCEPT ![r] = 0]
    /\ UNCHANGED published

Next ==
    \/ Publish
    \/ \E r \in Readers : Join(r) \/ Start(r) \/ Read(r) \/ Leave(r)

Spec == Init /\ [][Next]_vars

=================================================================================
