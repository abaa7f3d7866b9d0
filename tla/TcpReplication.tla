----------------------------- MODULE TcpReplication -----------------------------
(***************************************************************************)
(* Replication of one topic over TCP.  TcpReplicationTarget connects, names *)
(* the topic and copies what comes; TcpReplicationSource subscribes to the  *)
(* topic anew for each connection and writes each message as a header and   *)
(* its bytes.  A connection is cut at any moment, the source's process      *)
(* stops and starts again, and the target connects again.                   *)
(***************************************************************************)
EXTENDS ReplicatedTopic

CONSTANTS
    MaxConnections, MaxStops     \* bounds

ASSUME ConnectionAssumption == MaxConnections \in Nat

Connections == 1..MaxConnections

VARIABLES
    link,            \* of each connection: "none", "open", "closed" by the source, "cut"
    request,         \* the name of the topic has been written
    toTarget,        \* header and payload under way: <<kind, msg>>
    \* the source
    sourceUp, stops,
    serving,         \* where the threads of each connection stand
    cursor,          \* of each connection: the messages its cursor has passed
    \* the target
    conn,            \* the connection of _socket
    tpc              \* where its threads stand

linkVars   == <<link, request, toTarget>>
sourceTcpVars == <<sourceUp, stops, serving, cursor>>
tcpVars    == <<linkVars, sourceTcpVars, conn, tpc>>

TcpInit ==
    /\ link = [c \in Connections |-> "none"]
    /\ request = [c \in Connections |-> FALSE]
    /\ toTarget = [c \in Connections |-> <<>>]
    /\ sourceUp = TRUE /\ stops = 0
    /\ serving = [c \in Connections |-> "none"]
    /\ cursor = [c \in Connections |-> 0]
    /\ conn = 0
    /\ tpc = "construct"

Broken(c) == link[c] \in {"closed", "cut"}

-----------------------------------------------------------------------------
(* The target: the constructor, ReplicateTopic, ReplicateLoop, Reconnect.  *)

(* Reconnect, in the constructor and in ReplicateLoop.  A connection that   *)
(* is refused or times out is tried again.                                  *)
Connect ==
    /\ tpc \in {"construct", "reconnect"}
    /\ sourceUp
    /\ conn < MaxConnections
    /\ conn' = conn + 1
    /\ link' = [link EXCEPT ![conn + 1] = "open"]
    /\ serving' = [serving EXCEPT ![conn + 1] = "backlog"]
    /\ tpc' = IF tpc = "construct" THEN "first" ELSE "again"
    /\ UNCHANGED <<topicVars, request, toTarget, sourceUp, stops, cursor>>

(* Any other error: the constructor throws, ReplicateLoop returns. *)
ConnectFails ==
    /\ tpc \in {"construct", "reconnect"}
    /\ tpc' = "stopped"
    /\ UNCHANGED <<topicVars, linkVars, sourceTcpVars, conn>>

(* StartReplication: what is written to a broken connection is lost. *)
StartReplication ==
    /\ tpc \in {"first", "again"}
    /\ request' = [request EXCEPT ![conn] = link[conn] = "open"]
    /\ tpc' = IF tpc = "first" THEN "begin" ELSE "header"
    /\ UNCHANGED <<topicVars, link, toTarget, sourceTcpVars, conn>>

(* Or the write throws: to the caller of ReplicateTopic, or out of the      *)
(* handler of ReplicateLoop, which ends the process.                        *)
StartReplicationThrows ==
    /\ tpc \in {"first", "again"}
    /\ Broken(conn)
    /\ tpc' = IF tpc = "first" THEN "stopped" ELSE "terminated"
    /\ UNCHANGED <<topicVars, linkVars, sourceTcpVars, conn>>

(* ReplicateLoop asks for the peer's address, which a cut connection may no *)
(* longer have; the exception ends the process.                             *)
BeginLoop ==
    /\ tpc = "begin"
    /\ tpc' \in {"header"} \union IF link[conn] = "cut" THEN {"terminated"} ELSE {}
    /\ UNCHANGED <<topicVars, linkVars, sourceTcpVars, conn>>

Arrives(kind) == toTarget[conn] # <<>> /\ Head(toTarget[conn])[1] = kind

ReadHeader ==
    /\ tpc = "header"
    /\ Arrives("header")
    /\ toTarget' = [toTarget EXCEPT ![conn] = Tail(@)]
    /\ tpc' = "payload"
    /\ UNCHANGED <<topicVars, link, request, sourceTcpVars, conn>>

(* The payload is read into the span, committed and announced. *)
ReadPayload ==
    /\ tpc = "payload"
    /\ Arrives("payload")
    /\ LET m == Head(toTarget[conn])[2] IN CopyInto(m, AllParts(m), conn)
    /\ toTarget' = [toTarget EXCEPT ![conn] = Tail(@)]
    /\ tpc' = "header"
    /\ UNCHANGED <<published, link, request, sourceTcpVars, conn>>

(* The end of the data, or an error of the connection: the span is given    *)
(* back without a commit.  An aborted connection ends the loop, and an      *)
(* error of another kind the process.                                       *)
ReadFails ==
    /\ tpc \in {"header", "payload"}
    /\ Broken(conn)
    /\ toTarget[conn] = <<>>
    /\ tpc' \in {"reconnect"} \union IF link[conn] = "cut" THEN {"stopped", "terminated"} ELSE {}
    /\ UNCHANGED <<topicVars, linkVars, sourceTcpVars, conn>>

-----------------------------------------------------------------------------
(* The source: AcceptLoop, HandleNewClient, HandleReplicateSubscription,   *)
(* ReplicateLoop.                                                          *)

Accept(c) ==
    /\ sourceUp
    /\ serving[c] = "backlog"
    /\ serving' = [serving EXCEPT ![c] = "accepted"]
    /\ UNCHANGED <<topicVars, linkVars, sourceUp, stops, cursor, conn, tpc>>

(* The name arrives: a cursor at the end of the topic, and its thread. *)
HandleReplicateSubscription(c) ==
    /\ serving[c] = "accepted"
    /\ request[c]
    /\ cursor' = [cursor EXCEPT ![c] = published]
    /\ serving' = [serving EXCEPT ![c] = "message"]
    /\ UNCHANGED <<topicVars, linkVars, sourceUp, stops, conn, tpc>>

(* The read of the name throws: HandleNewClient forgets the connection. *)
HandleNewClientFails(c) ==
    /\ serving[c] = "accepted"
    /\ link[c] = "cut"
    /\ serving' = [serving EXCEPT ![c] = "ended"]
    /\ UNCHANGED <<topicVars, linkVars, sourceUp, stops, cursor, conn, tpc>>

(* Fault: a message that arrives as the wait ends is passed over. *)
TryReadFor_PassesOver(c) ==
    /\ serving[c] = "message"
    /\ cursor[c] < published
    /\ \E k \in {cursor[c] + 1, published} : cursor' = [cursor EXCEPT ![c] = k]
    /\ serving' = [serving EXCEPT ![c] = "header"]
    /\ UNCHANGED <<topicVars, linkVars, sourceUp, stops, conn, tpc>>

TryReadFor(c) ==
    /\ serving[c] = "message"
    /\ cursor[c] < published
    /\ cursor' = [cursor EXCEPT ![c] = @ + 1]
    /\ serving' = [serving EXCEPT ![c] = "header"]
    /\ UNCHANGED <<topicVars, linkVars, sourceUp, stops, conn, tpc>>

(* What is written to a cut connection before the source learns of the cut  *)
(* is lost.                                                                 *)
Written(c, kind) ==
    toTarget' = IF link[c] = "open"
                THEN [toTarget EXCEPT ![c] = Append(@, <<kind, cursor[c]>>)]
                ELSE toTarget

WriteHeader(c) ==
    /\ serving[c] = "header"
    /\ Written(c, "header")
    /\ serving' = [serving EXCEPT ![c] = "payload"]
    /\ UNCHANGED <<topicVars, link, request, sourceUp, stops, cursor, conn, tpc>>

WritePayload(c) ==
    /\ serving[c] = "payload"
    /\ Written(c, "payload")
    /\ serving' = [serving EXCEPT ![c] = "message"]
    /\ UNCHANGED <<topicVars, link, request, sourceUp, stops, cursor, conn, tpc>>

(* A write throws: the message in hand is dropped with the connection. *)
WriteFails(c) ==
    /\ serving[c] \in {"header", "payload"}
    /\ link[c] = "cut"
    /\ serving' = [serving EXCEPT ![c] = "ended"]
    /\ UNCHANGED <<topicVars, linkVars, sourceUp, stops, cursor, conn, tpc>>

-----------------------------------------------------------------------------
(* The network and the source's process.                                   *)

(* The data under way are lost from some point on. *)
Cut(c) ==
    /\ link[c] = "open"
    /\ link' = [link EXCEPT ![c] = "cut"]
    /\ \E k \in 0..Len(toTarget[c]) :
           toTarget' = [toTarget EXCEPT ![c] = SubSeq(@, 1, k)]
    /\ UNCHANGED <<topicVars, request, sourceTcpVars, conn, tpc>>

(* The source's process ends, between two steps of its threads; the target  *)
(* reads what was written and then the end of the data.                     *)
StopSource ==
    /\ sourceUp
    /\ stops < MaxStops
    /\ stops' = stops + 1
    /\ sourceUp' = FALSE
    /\ link' = [c \in Connections |-> IF link[c] = "open" THEN "closed" ELSE link[c]]
    /\ serving' = [c \in Connections |-> IF serving[c] = "none" THEN "none" ELSE "ended"]
    /\ UNCHANGED <<topicVars, request, toTarget, cursor, conn, tpc>>

StartSource ==
    /\ ~sourceUp
    /\ sourceUp' = TRUE
    /\ UNCHANGED <<topicVars, linkVars, stops, serving, cursor, conn, tpc>>

-----------------------------------------------------------------------------
TargetSteps ==
    \/ Connect \/ ConnectFails \/ StartReplication \/ StartReplicationThrows
    \/ BeginLoop \/ ReadHeader \/ ReadPayload \/ ReadFails

SourceSteps(c) ==
    \/ Accept(c) \/ HandleReplicateSubscription(c) \/ HandleNewClientFails(c)
    \/ TryReadFor(c) \/ WriteHeader(c) \/ WritePayload(c) \/ WriteFails(c)

TcpNext ==
    \/ TargetSteps
    \/ \E c \in Connections : SourceSteps(c) \/ Cut(c)
    \/ StopSource \/ StartSource

=================================================================================
