------------------------------ MODULE Replication ------------------------------
(***************************************************************************)
(* The replication of a topic over the one transport or the other, as the   *)
(* url given to the program says.                                           *)
(***************************************************************************)
EXTENDS UdpReplication, TcpReplication

VARIABLE transport

vars == <<topicVars, udpVars, tcpVars, transport>>

Init ==
    /\ TopicInit /\ UdpInit /\ TcpInit
    /\ transport \in {"udp", "tcp"}

Next ==
    \/ Publish /\ UNCHANGED <<udpVars, tcpVars, transport>>
    \/ transport = "udp" /\ UdpNext /\ UNCHANGED <<tcpVars, transport>>
    \/ transport = "tcp" /\ TcpNext /\ UNCHANGED <<udpVars, transport>>

Spec == Init /\ [][Next]_vars

-----------------------------------------------------------------------------
(* A message that is not whole counts as none that was published. *)
Copied == [i \in DOMAIN replica |->
              IF replica[i].parts = AllParts(replica[i].msg) THEN replica[i].msg
              ELSE published + 1]

(* TCP brings each message once, UDP those it cuts in parts. *)
Once == {m \in Messages : transport = "tcp" \/ Chunks[m] > 1}

Copy == INSTANCE Replica WITH copied <- Copied, once <- Once, inOrder <- ~restarted

(* Whatever the network does, and however often the target connects again,  *)
(* the copy holds whole messages of the topic, and over TCP all of them,    *)
(* over UDP those of several datagrams, come once and in order: the new     *)
(* subscription of a connection never yields what an earlier one brought,   *)
(* and a fragment is never taken for one of another message.  The UDP order *)
(* is that of the source's steady clock: once its host has restarted, a     *)
(* delayed fragment of an earlier message has the later stamp.              *)
ImplementsReplica == Copy!Spec

-----------------------------------------------------------------------------
(* Over UDP, while the network delivers each datagram once and in order and *)
(* the clock goes on, the target is up and has, whole and in order, the     *)
(* messages whose datagrams have all arrived.  One datagram lost, repeated  *)
(* or out of order inside a message of several can end the target.          *)
InOrderNetworkIsExact ==
    transport = "udp" /\ ~disturbed =>
        /\ up
        /\ \A i \in DOMAIN replica : replica[i].msg = i /\ replica[i].parts = AllParts(i)
        /\ net = {} /\ sending = NoDatagram => Len(replica) = position

(* Over TCP a message is missing from the copy only where the connection    *)
(* changed: what one connection brought is without a gap.                   *)
GapsOnlyAtReconnects ==
    transport = "tcp" =>
        \A i \in DOMAIN replica \ {1} :
            replica[i].conn = replica[i - 1].conn => replica[i].msg = replica[i - 1].msg + 1

=================================================================================
