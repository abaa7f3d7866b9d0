---------------------------- MODULE ReplicatedTopic ----------------------------
(***************************************************************************)
(* A topic of a source channel and its copy in the channel of a target:     *)
(* what UdpReplicator and TcpReplicator have in common.                     *)
(***************************************************************************)
EXTENDS Naturals, Sequences

CONSTANT Chunks      \* of each message, the datagrams it takes

ASSUME ChunksAssumption == Chunks \in Seq(Nat \ {0})

Messages == 1..Len(Chunks)

VARIABLES
    published,       \* the messages the source topic has
    replica          \* what the target topic has: [msg, parts, conn]

topicVars == <<published, replica>>

TopicInit ==
    /\ published = 0
    /\ replica = <<>>

Publish ==
    /\ published < Len(Chunks)
    /\ published' = published + 1
    /\ UNCHANGED replica

AllParts(m) == 0..(Chunks[m] - 1)

(* The target publishes what it wrote of message m. *)
CopyInto(m, parts, c) == replica' = Append(replica, [msg |-> m, parts |-> parts, conn |-> c])

=================================================================================
