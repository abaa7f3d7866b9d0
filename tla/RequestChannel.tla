----------------------------- MODULE RequestChannel -----------------------------
(***************************************************************************)
(* The request channel: a server's message queue, named after the channel,  *)
(* and one for the answers to each client, named after channel and pid.     *)
(* Servers and clients come and go, a topic is created and removed, and     *)
(* what is found under a name is not always what was there before: queues,  *)
(* the topic's shared memory and the client's view of it are numbered.      *)
(*                                                                          *)
(* Topic models the same slots with their semaphores and messages; here a   *)
(* publication is the disposal of slots that NotifyAll ends with.  The      *)
(* queues of 256 do not fill: a client has one request under way.           *)
(***************************************************************************)
EXTENDS Naturals, Sequences, FiniteSets

CONSTANTS
    Clients,         \* processes, by pid
    NumSlots,        \* 256 in the code; enough here for all that is granted
    \* bounds
    MaxObjects,      \* SharedMemoryClients created, by all the processes
    MaxRequests,     \* calls of Connect and Subscribe, of them all
    MaxCommands,     \* calls of CreateTopic and RemoveTopic
    MaxStarts        \* servers

ASSUME ChannelAssumption ==
    /\ NumSlots \in Nat \ {0} /\ MaxObjects \in Nat /\ MaxRequests \in Nat /\ MaxStarts \in Nat
    /\ MaxRequests <= NumSlots

Slots == 0..(NumSlots - 1)
Nobody == "nobody"

VARIABLES
    \* what has a name: the number of the object that has it, or 0
    srvName, inboxName, shm,
    queue,           \* of each server queue, its requests
    inbox,           \* of each client and queue, its answers
    queues, shms,    \* queues of servers and shared memory objects created so far
    sems,            \* the semaphores: <<pid, slot>>
    \* the table in shared memory, and the server's _subscriptions and _idPool
    \* (owner is Pid, which stays when the slot is not Active any more)
    owner, active, pending, bag, rented,
    \* the server
    srv, starts, known, cached, spc, commands, dpc,
    \* the clients: application thread, dispatcher, _srvQueue, _topics; created
    \* and calls count objects and requests of them all
    cpc, why, answer, objects, created, calls, handle, topicOf, cursors, openSlots, rest, rpc,
    misled           \* history: those with a cursor on a slot not granted

namedVars  == <<srvName, inboxName, shm, queue, inbox, queues, shms, sems>>
tableVars  == <<owner, active, pending, bag, rented>>
serverVars == <<srv, starts, known, cached, spc, commands, dpc>>
clientVars == <<cpc, why, answer, objects, created, calls, handle, topicOf, cursors, openSlots,
                rest, rpc, misled>>
vars == <<namedVars, tableVars, serverVars, clientVars>>

Queues == 1..(MaxStarts + 1)

Init ==
    /\ srvName = 0 /\ queues = 0 /\ shm = 0 /\ shms = 0 /\ sems = {}
    /\ inboxName = [p \in Clients |-> 0]
    /\ queue = [g \in Queues |-> <<>>]
    /\ inbox = [p \in Clients |-> [g \in 1..MaxObjects |-> <<>>]]
    /\ owner = [i \in Slots |-> Nobody]
    /\ active = {} /\ pending = {} /\ bag = {} /\ rented = {}
    /\ srv = "down" /\ starts = 0 /\ known = FALSE
    /\ cached = [p \in Clients |-> 0]
    /\ spc = "idle" /\ commands = 0 /\ dpc = "ended"
    /\ cpc = [p \in Clients |-> "none"]
    /\ why = [p \in Clients |-> "hello"]
    /\ answer = [p \in Clients |-> <<>>]
    /\ objects = [p \in Clients |-> 0]
    /\ created = 0 /\ calls = 0
    /\ handle = [p \in Clients |-> 0]
    /\ topicOf = [p \in Clients |-> 0]
    /\ cursors = [p \in Clients |-> {}]
    /\ openSlots = [p \in Clients |-> <<>>]
    /\ rest = [p \in Clients |-> <<>>]
    /\ rpc = [p \in Clients |-> "ended"]
    /\ misled = {}

-----------------------------------------------------------------------------
(* The client's application thread: SharedMemoryClient, its cursors and     *)
(* what Topic does for them.  It waits in the call for the answer.          *)

(* open_or_create of the server's queue. *)
OpenQueue ==
    IF srvName = 0 THEN srvName' = queues + 1 /\ queues' = queues + 1
    ELSE UNCHANGED <<srvName, queues>>

NewClient(p) ==
    /\ cpc[p] = "none"
    /\ created < MaxObjects
    /\ OpenQueue
    /\ handle' = [handle EXCEPT ![p] = srvName']
    /\ created' = created + 1
    /\ objects' = [objects EXCEPT ![p] = @ + 1]
    /\ inboxName' = [inboxName EXCEPT ![p] = objects'[p]]
    /\ cpc' = [cpc EXCEPT ![p] = "idle"]
    /\ rpc' = [rpc EXCEPT ![p] = "receive"]
    /\ UNCHANGED <<shm, queue, inbox, shms, sems, tableVars, serverVars, why, answer, calls,
                   topicOf, cursors, openSlots, rest, misled>>

(* The callback is registered under a new correlation id, the request sent. *)
Request(p, kind, slot) ==
    /\ queue' = [queue EXCEPT ![handle[p]] =
                                  Append(@, [kind |-> kind, client |-> p, slot |-> slot])]
    /\ cpc' = [cpc EXCEPT ![p] = "waiting"]
    /\ UNCHANGED <<srvName, inboxName, shm, inbox, queues, shms, sems, tableVars, serverVars,
                   answer, objects, created, handle, topicOf, rpc, misled>>

Connect(p) ==
    /\ cpc[p] = "idle" /\ calls < MaxRequests
    /\ calls' = calls + 1
    /\ why' = [why EXCEPT ![p] = "hello"]
    /\ Request(p, "hello", 0)
    /\ UNCHANGED <<cursors, openSlots, rest>>

Subscribe(p) ==
    /\ cpc[p] = "idle" /\ calls < MaxRequests
    /\ calls' = calls + 1
    /\ why' = [why EXCEPT ![p] = "subscribe"]
    /\ Request(p, "subscribe", 0)
    /\ UNCHANGED <<cursors, openSlots, rest>>

Without(slots, i) == SelectSeq(slots, LAMBDA j : j # i)

(* ~SubscriptionCursor *)
CloseCursor(p) ==
    /\ cpc[p] = "idle"
    /\ \E k \in cursors[p] :
           /\ cursors' = [cursors EXCEPT ![p] = @ \ {k}]
           /\ openSlots' = [openSlots EXCEPT ![p] = Without(@, k.slot)]
           /\ rest' = [rest EXCEPT ![p] = <<k.slot>>]
           /\ Request(p, "unsubscribe", k.slot)
    /\ why' = [why EXCEPT ![p] = "close"]
    /\ UNCHANGED calls

(* ~SharedMemoryClient: UnsubscribeAll works on a copy of the slots.  The   *)
(* cursors still open are not used any more.                                *)
Destroy(p) ==
    /\ cpc[p] = "idle"
    /\ rest' = [rest EXCEPT ![p] = openSlots[p]]
    /\ cursors' = [cursors EXCEPT ![p] = {}]
    /\ cpc' = [cpc EXCEPT ![p] = "destroying"]
    /\ UNCHANGED <<namedVars, tableVars, serverVars, why, answer, objects, created, calls, handle,
                   topicOf, openSlots, rpc, misled>>

UnsubscribeNext(p) ==
    /\ cpc[p] = "destroying" /\ rest[p] # <<>>
    /\ openSlots' = [openSlots EXCEPT ![p] = Without(@, Head(rest[p]))]
    /\ rest' = [rest EXCEPT ![p] = Tail(@)]
    /\ why' = [why EXCEPT ![p] = "destroy"]
    /\ Request(p, "unsubscribe", Head(rest[p]))
    /\ UNCHANGED <<calls, cursors>>

(* The topic is erased from _topics, its _openSlots with it, and message 0  *)
(* sent to the client's own queue.                                          *)
EraseTopic(p) ==
    /\ cpc[p] = "destroying" /\ rest[p] = <<>>
    /\ topicOf' = [topicOf EXCEPT ![p] = 0]
    /\ openSlots' = [openSlots EXCEPT ![p] = <<>>]
    /\ inbox' = [inbox EXCEPT ![p][objects[p]] = Append(@, [kind |-> "exit"])]
    /\ cpc' = [cpc EXCEPT ![p] = "joining"]
    /\ UNCHANGED <<srvName, inboxName, shm, queue, queues, shms, sems, tableVars, serverVars, why,
                   answer, objects, created, calls, handle, cursors, rest, rpc, misled>>

RemoveQueue(p) ==
    /\ cpc[p] = "joining" /\ rpc[p] = "ended"
    /\ inboxName' = [inboxName EXCEPT ![p] = 0]
    /\ cpc' = [cpc EXCEPT ![p] = "none"]
    /\ UNCHANGED <<srvName, shm, queue, inbox, queues, shms, sems, tableVars, serverVars, why,
                   answer, objects, created, calls, handle, topicOf, cursors, openSlots, rest,
                   rpc, misled>>

-----------------------------------------------------------------------------
(* The answer has come.                                                    *)

Continue(p, next) == cpc' = [cpc EXCEPT ![p] = next] /\ answer' = [answer EXCEPT ![p] = <<>>]

FinishConnect(p) ==
    /\ cpc[p] = "answered" /\ why[p] = "hello"
    /\ Continue(p, "idle")
    /\ UNCHANGED <<namedVars, tableVars, serverVars, why, objects, created, calls, handle, topicOf,
                   cursors, openSlots, rest, rpc, misled>>

(* GetOrCreate, which throws when the topic is in neither _topics nor       *)
(* shared memory, and the constructor of SubscriptionCursor, which throws   *)
(* when the semaphore is not there.                                         *)
FinishSubscribe(p) ==
    LET slot   == answer[p].slot
        memory == IF topicOf[p] = 0 THEN shm ELSE topicOf[p]
        opens  == memory # 0 /\ <<p, slot>> \in sems
        cursor == [id |-> calls, slot |-> slot, memory |-> memory]
    IN  /\ cpc[p] = "answered" /\ why[p] = "subscribe"
        /\ topicOf' = [topicOf EXCEPT ![p] = memory]
        /\ cursors' = [cursors EXCEPT ![p] = IF opens THEN @ \union {cursor} ELSE @]
        /\ openSlots' = [openSlots EXCEPT ![p] = IF opens THEN Append(@, slot) ELSE @]
        /\ misled' = IF opens /\ ~answer[p].granted THEN misled \union {p} ELSE misled
        /\ Continue(p, "idle")
        /\ UNCHANGED <<namedVars, tableVars, serverVars, why, objects, created, calls, handle,
                       rest, rpc>>

(* Fault: the topic is let go with its last subscription. *)
FinishClose_LetsGo(p) ==
    /\ cpc[p] = "answered" /\ why[p] = "close"
    /\ sems' = sems \ {<<p, Head(rest[p])>>}
    /\ topicOf' = [topicOf EXCEPT ![p] = IF openSlots[p] = <<>> THEN 0 ELSE @]
    /\ rest' = [rest EXCEPT ![p] = <<>>]
    /\ Continue(p, "idle")
    /\ UNCHANGED <<srvName, inboxName, shm, queue, inbox, queues, shms, tableVars, serverVars, why,
                   objects, created, calls, handle, cursors, openSlots, rpc, misled>>

(* The semaphore goes with its cursor. *)
FinishClose(p) ==
    /\ cpc[p] = "answered" /\ why[p] = "close"
    /\ sems' = sems \ {<<p, Head(rest[p])>>}
    /\ rest' = [rest EXCEPT ![p] = <<>>]
    /\ Continue(p, "idle")
    /\ UNCHANGED <<srvName, inboxName, shm, queue, inbox, queues, shms, tableVars, serverVars, why,
                   objects, created, calls, handle, topicOf, cursors, openSlots, rpc, misled>>

FinishUnsubscribe(p) ==
    /\ cpc[p] = "answered" /\ why[p] = "destroy"
    /\ Continue(p, "destroying")
    /\ UNCHANGED <<namedVars, tableVars, serverVars, why, objects, created, calls, handle, topicOf,
                   cursors, openSlots, rest, rpc, misled>>

-----------------------------------------------------------------------------
(* The client's dispatcher.                                                *)

(* DispatchResponses: the callback sets the promise. *)
ReceiveAnswer(p) ==
    LET m == Head(inbox[p][objects[p]])
    IN  /\ rpc[p] = "receive"
        /\ inbox[p][objects[p]] # <<>>
        /\ inbox' = [inbox EXCEPT ![p][objects[p]] = Tail(@)]
        /\ IF m.kind = "exit"
           THEN rpc' = [rpc EXCEPT ![p] = "ended"] /\ UNCHANGED <<cpc, answer>>
           ELSE /\ rpc' = [rpc EXCEPT ![p] =
                               IF m.kind = "unsubscribe" /\ m.granted THEN "ack" ELSE @]
                /\ cpc' = [cpc EXCEPT ![p] = "answered"]
                /\ answer' = [answer EXCEPT ![p] = m]
        /\ UNCHANGED <<srvName, inboxName, shm, queue, queues, shms, sems, tableVars, serverVars,
                       why, objects, created, calls, handle, topicOf, cursors, openSlots, rest,
                       misled>>

(* The rest of OnUnsubscribed, after the promise: Get, and AckUnsubscribed  *)
(* on what it gives, which is a null pointer when the topic was erased.     *)
AckUnsubscribed(p) ==
    /\ rpc[p] = "ack"
    /\ IF topicOf[p] # 0
       THEN rpc' = [rpc EXCEPT ![p] = "receive"] /\ UNCHANGED cpc
       ELSE rpc' = [rpc EXCEPT ![p] = "ended"] /\ cpc' = [cpc EXCEPT ![p] = "crashed"]
    /\ UNCHANGED <<namedVars, tableVars, serverVars, why, answer, objects, created, calls,
                   handle, topicOf, cursors, openSlots, rest, misled>>

-----------------------------------------------------------------------------
(* The server: its application thread.                                     *)

StartServer ==
    /\ srv = "down" /\ starts < MaxStarts
    /\ OpenQueue
    /\ srv' = "up" /\ starts' = starts + 1
    /\ dpc' = "receive"
    /\ cached' = [p \in Clients |-> 0]
    /\ UNCHANGED <<inboxName, shm, queue, inbox, shms, sems, tableVars, known, spc, commands,
                   clientVars>>

Command(kind, next) ==
    /\ srv = "up" /\ spc = "idle"
    /\ queue' = [queue EXCEPT ![srvName] = Append(@, [kind |-> kind])]
    /\ spc' = next
    /\ UNCHANGED <<srvName, inboxName, shm, inbox, queues, shms, sems, tableVars, srv, starts,
                   known, cached, dpc, clientVars>>

CreateTopic == commands < MaxCommands /\ commands' = commands + 1 /\ Command("create", "waiting")

RemoveTopic == commands < MaxCommands /\ commands' = commands + 1 /\ Command("remove", "waiting")

StopServer == Command("exit", "stopping") /\ UNCHANGED commands

(* ~TopicService: its shared memory goes when nobody subscribes. *)
DeleteTopic ==
    /\ known' = FALSE
    /\ shm' = IF known /\ bag = {} THEN 0 ELSE shm
    /\ bag' = {} /\ rented' = {}
    /\ UNCHANGED <<owner, active, pending>>

(* ~SharedMemoryServer, from the join on: the queue goes when there was no  *)
(* topic.                                                                   *)
FinishStop ==
    /\ srv = "up" /\ spc = "stopping" /\ dpc = "ended"
    /\ DeleteTopic
    /\ srvName' = IF known THEN srvName ELSE 0
    /\ srv' = "down" /\ spc' = "idle"
    /\ UNCHANGED <<inboxName, queue, inbox, queues, shms, sems, starts, cached, commands, dpc,
                   clientVars>>

(* The end of NotifyAll: Close removes the semaphore and clears the index,  *)
(* so the id is not given back.                                             *)
NotifyAll ==
    LET removed == pending \intersect bag
    IN  /\ srv = "up" /\ known /\ removed # {}
        /\ bag' = bag \ removed
        /\ active' = active \ removed
        /\ pending' = pending \ removed
        /\ sems' = sems \ {<<owner[i], i>> : i \in removed}
        /\ UNCHANGED <<srvName, inboxName, shm, queue, inbox, queues, shms, owner, rented,
                       serverVars, clientVars>>

-----------------------------------------------------------------------------
(* The server's dispatcher: a message is one step, from its receipt to the  *)
(* answer, because no other thread writes what it works on but NotifyAll    *)
(* and the queues at their other ends.                                      *)

Message == Head(queue[srvName])

Receive(kind) ==
    /\ srv = "up" /\ dpc = "receive"
    /\ queue[srvName] # <<>> /\ Message.kind = kind
    /\ queue' = [queue EXCEPT ![srvName] = Tail(@)]
    /\ UNCHANGED <<srvName, inboxName, queues, starts, commands, clientVars>>

(* GetClient, whose open_only throws when there is no such queue and ends   *)
(* the process, and the send.                                               *)
Answer(p, m) ==
    /\ cached' = [cached EXCEPT ![p] = IF @ = 0 THEN inboxName[p] ELSE @]
    /\ IF cached'[p] = 0
       THEN srv' = "died" /\ UNCHANGED inbox
       ELSE inbox' = [inbox EXCEPT ![p][cached'[p]] = Append(@, m)] /\ UNCHANGED srv

OnExit ==
    /\ Receive("exit")
    /\ dpc' = "ended"
    /\ UNCHANGED <<shm, inbox, shms, sems, tableVars, srv, known, cached, spc>>

(* Fault: the ids of the subscriptions found are not rented. *)
OnCreateTopic_RentsNothing ==
    LET dangling == active \intersect pending
        kept     == active \ pending
    IN  /\ Receive("create")
        /\ known' = TRUE
        /\ CASE known -> UNCHANGED <<shm, shms, sems, tableVars>>
             [] ~known /\ shm = 0 ->
                    /\ shms' = shms + 1 /\ shm' = shms + 1
                    /\ owner' = [i \in Slots |-> Nobody]
                    /\ active' = {} /\ pending' = {}
                    /\ UNCHANGED <<sems, bag, rented>>
             [] ~known /\ shm # 0 ->
                    /\ sems' = (sems \ {<<owner[i], i>> : i \in dangling})
                                  \union {<<owner[i], i>> : i \in kept}
                    /\ pending' = pending \ dangling
                    /\ bag' = kept /\ rented' = {}
                    /\ UNCHANGED <<shm, shms, owner, active>>
        /\ spc' = "idle"
        /\ UNCHANGED <<inbox, srv, cached, dpc>>

(* OnCreateTopic and TopicService: memory of a new topic, or memory that    *)
(* was found, from which the subscriptions are rebuilt.  The processes all  *)
(* run.                                                                     *)
OnCreateTopic ==
    LET dangling == active \intersect pending
        kept     == active \ pending
    IN  /\ Receive("create")
        /\ known' = TRUE
        /\ CASE known -> UNCHANGED <<shm, shms, sems, tableVars>>
             [] ~known /\ shm = 0 ->
                    /\ shms' = shms + 1 /\ shm' = shms + 1
                    /\ owner' = [i \in Slots |-> Nobody]
                    /\ active' = {} /\ pending' = {}
                    /\ UNCHANGED <<sems, bag, rented>>
             [] ~known /\ shm # 0 ->
                    /\ sems' = (sems \ {<<owner[i], i>> : i \in dangling})
                                  \union {<<owner[i], i>> : i \in kept}
                    /\ pending' = pending \ dangling
                    /\ bag' = kept /\ rented' = kept
                    /\ UNCHANGED <<shm, shms, owner, active>>
        /\ spc' = "idle"
        /\ UNCHANGED <<inbox, srv, cached, dpc>>

(* RemoveSubscription *)
OnRemoveTopic ==
    /\ Receive("remove")
    /\ DeleteTopic
    /\ spc' = "idle"
    /\ UNCHANGED <<inbox, shms, sems, srv, cached, dpc>>

OnHello ==
    /\ Receive("hello")
    /\ Answer(Message.client, [kind |-> "hello"])
    /\ UNCHANGED <<shm, shms, sems, tableVars, known, spc, dpc>>

(* SharedMemoryServer::Subscribe answers slot 0 for a topic it has not, and *)
(* TopicService::Subscribe throws when there is no free slot.               *)
OnSubscribe ==
    LET p    == Message.client
        free == Slots \ rented
        slot == CHOOSE i \in free : \A j \in free : i <= j
    IN  /\ Receive("subscribe")
        /\ CASE ~known ->
                    /\ Answer(p, [kind |-> "subscribe", slot |-> 0, granted |-> FALSE])
                    /\ UNCHANGED <<sems, tableVars>>
             [] known /\ free = {} ->
                    srv' = "died" /\ UNCHANGED <<inbox, cached, sems, tableVars>>
             [] known /\ free # {} ->
                    /\ Answer(p, [kind |-> "subscribe", slot |-> slot, granted |-> TRUE])
                    /\ owner' = [owner EXCEPT ![slot] = p]
                    /\ active' = active \union {slot}
                    /\ pending' = pending \ {slot}
                    /\ bag' = bag \union {slot} /\ rented' = rented \union {slot}
                    /\ sems' = sems \union {<<p, slot>>}
        /\ UNCHANGED <<shm, shms, known, spc, dpc>>

(* Fault: no answer about a topic that the server has not. *)
OnUnsubscribe_Silent ==
    LET p  == Message.client
        i  == Message.slot
        ok == known /\ owner[i] = p /\ i \notin pending
    IN  /\ Receive("unsubscribe")
        /\ IF known THEN Answer(p, [kind |-> "unsubscribe", slot |-> i, granted |-> ok])
           ELSE UNCHANGED <<cached, srv, inbox>>
        /\ pending' = IF ok THEN pending \union {i} ELSE pending
        /\ UNCHANGED <<shm, shms, sems, owner, active, bag, rented, known, spc, dpc>>

OnUnsubscribe ==
    LET p  == Message.client
        i  == Message.slot
        ok == known /\ owner[i] = p /\ i \notin pending
    IN  /\ Receive("unsubscribe")
        /\ Answer(p, [kind |-> "unsubscribe", slot |-> i, granted |-> ok])
        /\ pending' = IF ok THEN pending \union {i} ELSE pending
        /\ UNCHANGED <<shm, shms, sems, owner, active, bag, rented, known, spc, dpc>>

-----------------------------------------------------------------------------
Client(p) ==
    \/ NewClient(p) \/ Connect(p) \/ Subscribe(p) \/ CloseCursor(p)
    \/ Destroy(p) \/ UnsubscribeNext(p) \/ EraseTopic(p) \/ RemoveQueue(p)
    \/ FinishConnect(p) \/ FinishSubscribe(p) \/ FinishClose(p) \/ FinishUnsubscribe(p)
    \/ ReceiveAnswer(p) \/ AckUnsubscribed(p)

Server ==
    \/ StartServer \/ CreateTopic \/ RemoveTopic \/ StopServer \/ FinishStop \/ NotifyAll
    \/ OnExit \/ OnCreateTopic \/ OnRemoveTopic \/ OnHello \/ OnSubscribe \/ OnUnsubscribe

Next == Server \/ \E p \in Clients : Client(p)

Spec == Init /\ [][Next]_vars

-----------------------------------------------------------------------------
Requests == {"hello", "subscribe", "unsubscribe"}

RequestsOf(p) ==
    {r \in UNION {{g} \X DOMAIN queue[g] : g \in Queues} :
        LET m == queue[r[1]][r[2]] IN m.kind \in Requests /\ m.client = p}

AnswersOf(p) ==
    {a \in UNION {{g} \X DOMAIN inbox[p][g] : g \in 1..MaxObjects} :
        inbox[p][a[1]][a[2]].kind # "exit"}

(* A call that waits has exactly one request or answer under way, whether   *)
(* servers stop, topics are removed or other calls are answered meanwhile:  *)
(* the dispatcher answers each request it takes, once.  Nobody may read it: *)
(* a request in a queue whose name the server removed as it stopped, or the *)
(* answer in the queue of a former client object of the same pid, which     *)
(* GetClient remembers; without these two, the answer is in the queue the   *)
(* client reads.                                                            *)
CallsWaitForSomething ==
    \A p \in Clients : (cpc[p] = "waiting" /\ srv # "died") =>
        /\ Cardinality(RequestsOf(p)) + Cardinality(AnswersOf(p)) = 1
        /\ \A r \in RequestsOf(p) : r[1] = handle[p]
        /\ \A a \in AnswersOf(p) : a[1] # objects[p] => objects[p] > 1

(* A cursor on the memory that a server knows the topic by has a slot of    *)
(* its own there, with its process's pid, which every publication notifies, *)
(* whatever other processes, removals of the topic and restarts did; the    *)
(* exception is a process that was given slot 0 of a topic unknown to the   *)
(* server (Subscribe).                                                      *)
SubscriptionsAreKept ==
    known => \A p \in Clients \ misled :
        \A k \in cursors[p] : k.memory = shm =>
            /\ owner[k.slot] = p
            /\ k.slot \in bag \ pending
            /\ \A l \in cursors[p] \ {k} : l.memory = shm => l.slot # k.slot

(* No request outlives the queue for its answer (GetClient would end the    *)
(* server), and a client's dispatcher acknowledges an unsubscription of a   *)
(* topic that has gone (OnUnsubscribed) only when the client object is      *)
(* being destroyed.                                                         *)
DiesOnlyInDestructor ==
    /\ srv # "died"
    /\ \A p \in Clients :
           /\ rpc[p] = "ack" /\ topicOf[p] = 0 => cpc[p] = "joining"
           /\ cpc[p] = "crashed" => rest[p] = <<>>

=================================================================================
