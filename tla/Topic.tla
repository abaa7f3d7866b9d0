--------------------------------- MODULE Topic ---------------------------------
(***************************************************************************)
(* One topic from the publisher to its subscribers: TopicService and the    *)
(* dispatcher thread in the server, the table of subscription slots and the *)
(* message counter in shared memory, one named semaphore per slot, and the  *)
(* SubscriptionCursor of each client.                                       *)
(*                                                                          *)
(* Three kinds of thread run interleaved: the dispatcher takes requests     *)
(* from the channel's message queue one at a time; the publish thread,      *)
(* "which is different that subscribe thread" (SharedMemoryServer.h),       *)
(* publishes and then walks the subscriptions in NotifyAll; each client     *)
(* subscribes, reads and unsubscribes.  Messages are their indices: what    *)
(* the ring holds at an index is the matter of CyclicBuffer.                *)
(***************************************************************************)
EXTENDS Ulong, Sequences, FiniteSets

CONSTANTS
    Clients,         \* client processes, each with at most one subscription
    NumSlots,        \* 256 in the code: entries of the table and of the id pool
    MaxMessages,     \* bound on published messages
    MaxSubscribes    \* bound on subscribe requests

Slots == 0..(NumSlots - 1)

ASSUME TopicAssumption ==
    /\ NumSlots \in Nat \ {0}
    /\ MaxMessages \in Nat
    /\ MaxSubscribes \in Nat
    /\ MaxMessages + 1 < Word

VARIABLES
    nextIndex,       \* CyclicBuffer::State::_nextIndex
    \* SubscriptionSharedData of each slot
    NextIndex, Notified, PendingRemove, Active, Pid,
    sem,             \* count of the slot's named semaphore
    queue,           \* the channel's message queue
    \* the server process
    up,              \* it is running
    freeIds,         \* _idPool
    bag,             \* _subscriptions, by slot
    dpc, handling,   \* dispatcher: next step, and the request it works on
    ppc,             \* publish thread: next step
    todo, cur,       \* NotifyAll: subscriptions not yet done, the one in hand
    doomed,          \* NotifyAll: toRemove
    \* the clients
    cpc,             \* where the client is
    slot,            \* SubscriptionCursor::_sloth
    opened, Index,   \* SubscriptionCursor::_cursor exists, and its Index
    \* history
    joined,          \* nextIndex when the slot was pushed to the bag
    asked            \* subscribe requests sent

tableVars  == <<NextIndex, Notified, PendingRemove, Active, Pid>>
dispVars   == <<up, freeIds, dpc, handling>>
pubVars    == <<ppc, todo, cur, doomed>>
clientVars == <<slot, opened, Index>>
vars == <<nextIndex, tableVars, sem, queue, dispVars, bag, pubVars, cpc, clientVars,
          joined, asked>>

Nobody == "nobody"
Request == [kind : {"subscribe", "unsubscribe"}, client : Clients, slot : Slots]
NoRequest == [kind |-> "none", client |-> Nobody, slot |-> 0]

(* A client has a process id: 0 in the Pid of a slot stands for none. *)
ASSUME ClientsAssumption == Nobody \notin Clients

(* A client without a cursor; one that waits for the answer to Subscribe;   *)
(* one that was given a slot, or slot 0 by a server without the topic; one  *)
(* whose cursor waits, or has taken a token; a destructor of the cursor     *)
(* that waits for its answer, or has it; a read that threw; no process.     *)
ClientStates == {"out", "subscribing", "granted", "misled", "ready", "holding", "leaving",
                 "closing", "failed", "dead"}

TypeOK ==
    /\ nextIndex \in Nat
    /\ NextIndex \in [Slots -> Nat]
    /\ Notified \in [Slots -> Nat]
    /\ PendingRemove \in [Slots -> BOOLEAN]
    /\ Active \in [Slots -> BOOLEAN]
    /\ Pid \in [Slots -> Clients \union {Nobody}]
    /\ sem \in [Slots -> Nat]
    /\ queue \in Seq(Request)
    /\ up \in BOOLEAN
    /\ freeIds \subseteq Slots
    /\ bag \subseteq Slots
    /\ dpc \in {"idle", "push", "answer"}
    /\ handling \in Request \union {NoRequest}
    /\ ppc \in {"idle", "begin", "visit", "start", "release", "remove", "deactivate"}
    /\ todo \subseteq Slots
    /\ cur \in Slots
    /\ doomed \subseteq Slots
    /\ cpc \in [Clients -> ClientStates]
    /\ slot \in [Clients -> Slots]
    /\ opened \in [Clients -> BOOLEAN]
    /\ Index \in [Clients -> Nat]
    /\ joined \in [Slots -> Nat]
    /\ asked \in Nat

Init ==
    /\ nextIndex = 0
    /\ NextIndex = [i \in Slots |-> 0]
    /\ Notified = [i \in Slots |-> 0]
    /\ PendingRemove = [i \in Slots |-> FALSE]
    /\ Active = [i \in Slots |-> FALSE]
    /\ Pid = [i \in Slots |-> Nobody]
    /\ sem = [i \in Slots |-> 0]
    /\ queue = <<>>
    /\ up = TRUE
    /\ freeIds = Slots
    /\ bag = {}
    /\ dpc = "idle"
    /\ handling = NoRequest
    /\ ppc = "idle"
    /\ todo = {}
    /\ cur = 0
    /\ doomed = {}
    /\ cpc = [c \in Clients |-> "out"]
    /\ slot = [c \in Clients |-> 0]
    /\ opened = [c \in Clients |-> FALSE]
    /\ Index = [c \in Clients |-> 0]
    /\ joined = [i \in Slots |-> 0]
    /\ asked = 0

-----------------------------------------------------------------------------
(* The dispatcher thread.                                                  *)

(* Fault: the rented id stays in the pool. *)
TakeSubscribe_KeepsId(i) ==
    /\ up /\ dpc = "idle" /\ queue # <<>>
    /\ Head(queue).kind = "subscribe"
    /\ i \in freeIds
    /\ Pid' = [Pid EXCEPT ![i] = Head(queue).client]
    /\ Notified' = [Notified EXCEPT ![i] = 0]
    /\ Active' = [Active EXCEPT ![i] = TRUE]
    /\ PendingRemove' = [PendingRemove EXCEPT ![i] = FALSE]
    /\ sem' = [sem EXCEPT ![i] = 0]
    /\ handling' = [Head(queue) EXCEPT !.slot = i]
    /\ queue' = Tail(queue)
    /\ dpc' = "push"
    /\ UNCHANGED <<nextIndex, NextIndex, up, freeIds, bag, pubVars, cpc, clientVars, joined,
                   asked>>

(* Case 1, Subscribe: an id is rented, the slot is reset and the semaphore *)
(* is created; nobody else looks at the slot before it is pushed.  Which   *)
(* free id is taken is the pool's business.                                *)
TakeSubscribe(i) ==
    /\ up /\ dpc = "idle" /\ queue # <<>>
    /\ Head(queue).kind = "subscribe"
    /\ i \in freeIds
    /\ freeIds' = freeIds \ {i}
    /\ Pid' = [Pid EXCEPT ![i] = Head(queue).client]
    /\ Notified' = [Notified EXCEPT ![i] = 0]
    /\ Active' = [Active EXCEPT ![i] = TRUE]
    /\ PendingRemove' = [PendingRemove EXCEPT ![i] = FALSE]
    /\ sem' = [sem EXCEPT ![i] = 0]
    /\ handling' = [Head(queue) EXCEPT !.slot = i]
    /\ queue' = Tail(queue)
    /\ dpc' = "push"
    /\ UNCHANGED <<nextIndex, NextIndex, up, bag, pubVars, cpc, clientVars, joined, asked>>

(* "Cannot find free id." is thrown out of the thread: the process ends. *)
TerminateNoFreeId ==
    /\ up /\ dpc = "idle" /\ queue # <<>>
    /\ Head(queue).kind = "subscribe"
    /\ freeIds = {}
    /\ up' = FALSE
    /\ queue' = Tail(queue)
    /\ UNCHANGED <<nextIndex, tableVars, sem, freeIds, dpc, handling, bag, pubVars, cpc,
                   clientVars, joined, asked>>

(* Fault: no response is sent. *)
PushSubscription_NoAnswer ==
    /\ up /\ dpc = "push"
    /\ bag' = bag \union {handling.slot}
    /\ joined' = [joined EXCEPT ![handling.slot] = nextIndex]
    /\ dpc' = "idle"
    /\ UNCHANGED <<nextIndex, tableVars, sem, queue, up, freeIds, handling, pubVars, cpc,
                   clientVars, asked>>

PushSubscription ==
    /\ up /\ dpc = "push"
    /\ bag' = bag \union {handling.slot}
    /\ joined' = [joined EXCEPT ![handling.slot] = nextIndex]
    /\ dpc' = "answer"
    /\ UNCHANGED <<nextIndex, tableVars, sem, queue, up, freeIds, handling, pubVars, cpc,
                   clientVars, asked>>

(* Case 6, Unsubscribe: the slot is only marked, and only for its owner. *)
TakeUnsubscribe ==
    /\ up /\ dpc = "idle" /\ queue # <<>>
    /\ Head(queue).kind = "unsubscribe"
    /\ LET i == Head(queue).slot
       IN  PendingRemove' = [PendingRemove EXCEPT ![i] = @ \/ Pid[i] = Head(queue).client]
    /\ handling' = Head(queue)
    /\ queue' = Tail(queue)
    /\ dpc' = "answer"
    /\ UNCHANGED <<nextIndex, NextIndex, Notified, Active, Pid, sem, up, freeIds, bag,
                   pubVars, cpc, clientVars, joined, asked>>

(* The response reaches the client, which waits for it on a promise. *)
Answer ==
    /\ up /\ dpc = "answer"
    /\ LET c == handling.client
       IN  \/ /\ cpc[c] = "subscribing"
              /\ cpc' = [cpc EXCEPT ![c] = "granted"]
              /\ slot' = [slot EXCEPT ![c] = handling.slot]
              /\ UNCHANGED <<opened, Index>>
           \/ /\ cpc[c] = "leaving"
              /\ cpc' = [cpc EXCEPT ![c] = "closing"]
              /\ UNCHANGED clientVars
           \/ /\ cpc[c] = "dead"
              /\ UNCHANGED <<cpc, clientVars>>
    /\ dpc' = "idle"
    /\ handling' = NoRequest
    /\ UNCHANGED <<nextIndex, tableVars, sem, queue, up, freeIds, bag, pubVars, joined, asked>>

-----------------------------------------------------------------------------
(* The publish thread.                                                     *)

(* ~PublishScope up to _scope.reset(): the message is in the buffer.  Its  *)
(* steps inside the buffer are those of CyclicBuffer.                      *)
PublishMessage ==
    /\ up /\ ppc = "idle"
    /\ nextIndex < MaxMessages
    /\ nextIndex' = nextIndex + 1
    /\ ppc' = "begin"
    /\ UNCHANGED <<tableVars, sem, queue, dispVars, bag, todo, cur, doomed, cpc,
                   clientVars, joined, asked>>

(* NotifyAll: the iterator takes the head of the list of subscriptions, so *)
(* one pushed later is not visited.                                        *)
BeginNotify ==
    /\ up /\ ppc = "begin"
    /\ todo' = bag
    /\ ppc' = "visit"
    /\ UNCHANGED <<nextIndex, tableVars, sem, queue, dispVars, bag, cur, doomed, cpc,
                   clientVars, joined, asked>>

(* A subscription marked for removal is put aside. *)
SetAside(i) ==
    /\ up /\ ppc = "visit"
    /\ i \in todo
    /\ PendingRemove[i]
    /\ todo' = todo \ {i}
    /\ doomed' = doomed \union {i}
    /\ UNCHANGED <<nextIndex, tableVars, sem, queue, dispVars, bag, ppc, cur, cpc,
                   clientVars, joined, asked>>

(* Notified.fetch_add(1) *)
CountNotification(i) ==
    /\ up /\ ppc = "visit"
    /\ i \in todo
    /\ ~PendingRemove[i]
    /\ Notified' = [Notified EXCEPT ![i] = @ + 1]
    /\ cur' = i
    /\ ppc' = IF Notified[i] = 0 THEN "start" ELSE "release"
    /\ UNCHANGED <<nextIndex, NextIndex, PendingRemove, Active, Pid, sem, queue, dispVars,
                   bag, todo, doomed, cpc, clientVars, joined, asked>>

(* Fault: the subscriber starts after the message it is notified of. *)
SetStart_AfterMessage ==
    /\ up /\ ppc = "start"
    /\ NextIndex' = [NextIndex EXCEPT ![cur] = nextIndex]
    /\ ppc' = "release"
    /\ UNCHANGED <<nextIndex, Notified, PendingRemove, Active, Pid, sem, queue, dispVars,
                   bag, todo, cur, doomed, cpc, clientVars, joined, asked>>

(* Fault: the subscriber starts with the whole history. *)
SetStart_AtZero ==
    /\ up /\ ppc = "start"
    /\ NextIndex' = [NextIndex EXCEPT ![cur] = 0]
    /\ ppc' = "release"
    /\ UNCHANGED <<nextIndex, Notified, PendingRemove, Active, Pid, sem, queue, dispVars,
                   bag, todo, cur, doomed, cpc, clientVars, joined, asked>>

(* The first notification says where the subscriber's cursor starts. *)
SetStart ==
    /\ up /\ ppc = "start"
    /\ NextIndex' = [NextIndex EXCEPT ![cur] = nextIndex - 1]
    /\ ppc' = "release"
    /\ UNCHANGED <<nextIndex, Notified, PendingRemove, Active, Pid, sem, queue, dispVars,
                   bag, todo, cur, doomed, cpc, clientVars, joined, asked>>

(* Faults: a semaphore released twice, and one that does not count. *)
ReleaseSemaphore_Twice ==
    /\ up /\ ppc = "release"
    /\ sem' = [sem EXCEPT ![cur] = @ + 2]
    /\ todo' = todo \ {cur}
    /\ ppc' = "visit"
    /\ UNCHANGED <<nextIndex, tableVars, queue, dispVars, bag, cur, doomed, cpc,
                   clientVars, joined, asked>>

ReleaseSemaphore_Binary ==
    /\ up /\ ppc = "release"
    /\ sem' = [sem EXCEPT ![cur] = 1]
    /\ todo' = todo \ {cur}
    /\ ppc' = "visit"
    /\ UNCHANGED <<nextIndex, tableVars, queue, dispVars, bag, cur, doomed, cpc,
                   clientVars, joined, asked>>

ReleaseSemaphore ==
    /\ up /\ ppc = "release"
    /\ sem' = [sem EXCEPT ![cur] = @ + 1]
    /\ todo' = todo \ {cur}
    /\ ppc' = "visit"
    /\ UNCHANGED <<nextIndex, tableVars, queue, dispVars, bag, cur, doomed, cpc,
                   clientVars, joined, asked>>

EndVisits ==
    /\ up /\ ppc = "visit"
    /\ todo = {}
    /\ ppc' = "remove"
    /\ UNCHANGED <<nextIndex, tableVars, sem, queue, dispVars, bag, todo, cur, doomed, cpc,
                   clientVars, joined, asked>>

(* The second loop.  remove does not find the subscription if one was      *)
(* pushed during its search (RemovalMissesOnlyByPush): it stays in the bag, *)
(* active and pending, until the next NotifyAll.  The search is one step,   *)
(* placed right after that push.                                           *)
RemovalMissed(i) ==
    /\ up /\ ppc = "remove"
    /\ i \in doomed
    /\ dpc = "answer" /\ handling.kind = "subscribe"
    /\ doomed' = doomed \ {i}
    /\ UNCHANGED <<nextIndex, tableVars, sem, queue, dispVars, bag, ppc, todo, cur, cpc,
                   clientVars, joined, asked>>

(* ... or the subscription leaves the bag, its semaphore is removed, and   *)
(* the slot is no longer pending.                                          *)
RemoveSubscription(i) ==
    /\ up /\ ppc = "remove"
    /\ i \in doomed
    /\ bag' = bag \ {i}
    /\ PendingRemove' = [PendingRemove EXCEPT ![i] = FALSE]
    /\ cur' = i
    /\ ppc' = "deactivate"
    /\ UNCHANGED <<nextIndex, NextIndex, Notified, Active, Pid, sem, queue, dispVars, todo,
                   doomed, cpc, clientVars, joined, asked>>

(* Subscription::Close leaves -1 in the Index of the subscription. *)
IndexAfterClose(i) == -1

(* Fault: the slot stays active. *)
Deactivate_LeavesActive ==
    /\ up /\ ppc = "deactivate"
    /\ freeIds' = freeIds \union {i \in {IndexAfterClose(cur)} : i >= 0}
    /\ doomed' = doomed \ {cur}
    /\ ppc' = "remove"
    /\ UNCHANGED <<nextIndex, tableVars, sem, queue, up, dpc, handling, bag, todo, cur, cpc,
                   clientVars, joined, asked>>

(* ... and the slot is no longer active.  Its id goes back to the pool if  *)
(* the Index is still one, after Close.                                    *)
Deactivate ==
    /\ up /\ ppc = "deactivate"
    /\ Active' = [Active EXCEPT ![cur] = FALSE]
    /\ freeIds' = freeIds \union {i \in {IndexAfterClose(cur)} : i >= 0}
    /\ doomed' = doomed \ {cur}
    /\ ppc' = "remove"
    /\ UNCHANGED <<nextIndex, NextIndex, Notified, PendingRemove, Pid, sem, queue, up, dpc,
                   handling, bag, todo, cur, cpc, clientVars, joined, asked>>

EndNotify ==
    /\ up /\ ppc = "remove"
    /\ doomed = {}
    /\ ppc' = "idle"
    /\ UNCHANGED <<nextIndex, tableVars, sem, queue, dispVars, bag, todo, cur, doomed, cpc,
                   clientVars, joined, asked>>

-----------------------------------------------------------------------------
(* A client.                                                               *)

Subscribe(c) ==
    /\ cpc[c] = "out"
    /\ asked < MaxSubscribes
    /\ asked' = asked + 1
    /\ queue' = Append(queue, [kind |-> "subscribe", client |-> c, slot |-> 0])
    /\ cpc' = [cpc EXCEPT ![c] = "subscribing"]
    /\ UNCHANGED <<nextIndex, tableVars, sem, dispVars, bag, pubVars, clientVars, joined>>

(* The constructor of the SubscriptionCursor opens the semaphore by name. *)
OpenSemaphore(c) ==
    /\ cpc[c] = "granted"
    /\ cpc' = [cpc EXCEPT ![c] = "ready"]
    /\ UNCHANGED <<nextIndex, tableVars, sem, queue, dispVars, bag, pubVars, clientVars,
                   joined, asked>>

(* Fault: the cursor is opened at every read, as if it were not kept. *)
Acquire_Reopens(c) ==
    /\ cpc[c] = "ready"
    /\ sem[slot[c]] > 0
    /\ sem' = [sem EXCEPT ![slot[c]] = @ - 1]
    /\ opened' = [opened EXCEPT ![c] = TRUE]
    /\ Index' = [Index EXCEPT ![c] = Minus(NextIndex[slot[c]], 1)]
    /\ cpc' = [cpc EXCEPT ![c] = "holding"]
    /\ UNCHANGED <<nextIndex, tableVars, queue, dispVars, bag, pubVars, slot, joined, asked>>

(* Read, TryRead and TryReadFor begin alike: a token is taken from the     *)
(* semaphore and, the first time, the cursor is opened at the slot's       *)
(* NextIndex.  A try that finds no token returns false.                    *)
Acquire(c) ==
    /\ cpc[c] = "ready"
    /\ sem[slot[c]] > 0
    /\ sem' = [sem EXCEPT ![slot[c]] = @ - 1]
    /\ opened' = [opened EXCEPT ![c] = TRUE]
    /\ Index' = [Index EXCEPT ![c] =
                    IF opened[c] THEN @ ELSE Minus(NextIndex[slot[c]], 1)]
    /\ cpc' = [cpc EXCEPT ![c] = "holding"]
    /\ UNCHANGED <<nextIndex, tableVars, queue, dispVars, bag, pubVars, slot, joined, asked>>

(* Cursor::TryRead: true, and the next message is handed out, or false     *)
(* fifty times in a row, and "TryRead returned false." is thrown.          *)
ReadMessage(c) ==
    LET found == Minus(nextIndex, Index[c]) > 1
    IN  /\ cpc[c] = "holding"
        /\ Index' = [Index EXCEPT ![c] = IF found THEN Succ(@) ELSE @]
        /\ cpc' = [cpc EXCEPT ![c] = IF found THEN "ready" ELSE "failed"]
        /\ UNCHANGED <<nextIndex, tableVars, sem, queue, dispVars, bag, pubVars, slot, opened,
                       joined, asked>>

(* ~SubscriptionCursor sends the request and waits. *)
Unsubscribe(c) ==
    /\ cpc[c] = "ready"
    /\ queue' = Append(queue, [kind |-> "unsubscribe", client |-> c, slot |-> slot[c]])
    /\ cpc' = [cpc EXCEPT ![c] = "leaving"]
    /\ UNCHANGED <<nextIndex, tableVars, sem, dispVars, bag, pubVars, clientVars, joined,
                   asked>>

(* The destructor goes on, whatever the answer was: semaphore and cursor    *)
(* are closed, and the name of the semaphore is removed.                   *)
CloseCursor(c) ==
    /\ cpc[c] = "closing"
    /\ cpc' = [cpc EXCEPT ![c] = "out"]
    /\ slot' = [slot EXCEPT ![c] = 0]
    /\ opened' = [opened EXCEPT ![c] = FALSE]
    /\ Index' = [Index EXCEPT ![c] = 0]
    /\ UNCHANGED <<nextIndex, tableVars, sem, queue, dispVars, bag, pubVars, joined, asked>>

-----------------------------------------------------------------------------
Dispatcher ==
    \/ \E i \in Slots : TakeSubscribe(i)
    \/ TerminateNoFreeId
    \/ PushSubscription
    \/ TakeUnsubscribe
    \/ Answer

NotifyAll ==
    \/ BeginNotify
    \/ \E i \in Slots : SetAside(i) \/ CountNotification(i) \/ RemoveSubscription(i)
                          \/ RemovalMissed(i)
    \/ SetStart
    \/ ReleaseSemaphore
    \/ EndVisits
    \/ Deactivate
    \/ EndNotify

Read(c) == OpenSemaphore(c) \/ Acquire(c) \/ ReadMessage(c)

Leave(c) == Unsubscribe(c) \/ CloseCursor(c)

Next ==
    \/ Dispatcher
    \/ PublishMessage
    \/ NotifyAll
    \/ \E c \in Clients : Subscribe(c) \/ Read(c) \/ Leave(c)

(* The threads of the server run; a subscribed client goes on reading until *)
(* it destroys its cursor.  Nobody has to publish, subscribe or leave.      *)
Fairness ==
    /\ WF_vars(Dispatcher)
    /\ WF_vars(NotifyAll)
    /\ \A c \in Clients : WF_vars(Read(c))

Spec == Init /\ [][Next]_vars

FairSpec == Spec /\ Fairness

-----------------------------------------------------------------------------
Subscribed(c) == cpc[c] \in {"granted", "ready", "holding"}

(* The publisher has yet to raise the semaphore of slot i for the message   *)
(* it published last.                                                       *)
Owed(i) == i \in bag /\ (ppc = "begin" \/ i \in todo)

One(b) == IF b THEN 1 ELSE 0

(* The first notification of slot i is complete but for the semaphore. *)
Started(i) == Notified[i] > 0 /\ ~(ppc = "start" /\ cur = i)

(* Every message after the cursor is matched by exactly one token: in the   *)
(* semaphore, in the client's hand, or about to be released.  One more and  *)
(* a read would throw, one less and the reader would stay behind forever.   *)
TokensMatchMessages ==
    \A c \in Clients :
        LET i == slot[c]
            tokens == sem[i] + One(cpc[c] = "holding") + One(Owed(i))
        IN  Subscribed(c) /\ Started(i) =>
              IF opened[c] THEN tokens = Minus(nextIndex, Index[c]) - 1
              ELSE tokens = nextIndex - NextIndex[i]

(* NotifyAll runs after the message is in the buffer, so whoever gets a     *)
(* token finds a message: "TryRead returned false." is never thrown.        *)
ReadNeverThrows ==
    \A c \in Clients : cpc[c] # "failed"

(* "subscribe operation, makes all following publish operation readable for *)
(* cursor": a subscriber starts with the first message published after its  *)
(* slot was pushed, or with the one whose NotifyAll was about to run then.  *)
(* It neither misses one nor is handed older ones.                          *)
StartsWhereItJoined ==
    \A i \in bag : Started(i) => NextIndex[i] \in {joined[i] - 1, joined[i]}

(* A slot serves one client: the slot of a subscribed client is active, in  *)
(* the bag, its own, and nobody else's.                                     *)
SlotsAreExclusive ==
    /\ \A c \in Clients : Subscribed(c) =>
          LET i == slot[c]
          IN  i \in bag /\ Active[i] /\ Pid[i] = c /\ ~PendingRemove[i] /\ i \notin freeIds
    /\ \A c, d \in Clients : Subscribed(c) /\ Subscribed(d) /\ slot[c] = slot[d] => c = d

(* The bag, which only the server sees, and the Active flags in shared      *)
(* memory, which a restarted server sees, agree between two requests and    *)
(* two removals.                                                            *)
BagMatchesTable ==
    \A i \in Slots :
        \/ i \in bag <=> Active[i]
        \/ dpc = "push" /\ handling.slot = i
        \/ ppc = "deactivate" /\ cur = i

(* "When client disconnects, we only mark subscription to be disposed on    *)
(* the next iteration of publish loop": once that iteration is over, a slot *)
(* that is not in use can be rented again.                                  *)
DisposedSlotsAreFree ==
    ppc = "idle" /\ dpc = "idle" => \A i \in Slots : ~Active[i] => i \in freeIds

(* A message published after a slot was pushed reaches its subscriber,      *)
(* unless the subscriber leaves or the server is gone: no token is lost and *)
(* the cursor does not stay behind.                                         *)
MessagesAreDelivered ==
    \A c \in Clients : \A k \in 0..(MaxMessages - 1) :
        Subscribed(c) /\ joined[slot[c]] <= k /\ k < nextIndex
            ~> \/ cpc[c] \in {"leaving", "out"} \/ ~up
               \/ opened[c] /\ Index[c] \in k..MaxMessages

(* A request is answered, or the server is gone. *)
RequestsAreAnswered ==
    \A c \in Clients :
        cpc[c] \in {"subscribing", "leaving"}
            ~> (cpc[c] \notin {"subscribing", "leaving"} \/ ~up)

-----------------------------------------------------------------------------
(* The topic as one of its clients sees it.  A client has joined when its   *)
(* subscription is in the bag, before it is told so.                        *)
BeingGranted(c) == cpc[c] = "subscribing" /\ dpc = "answer" /\ handling.client = c

SlotOf(c) == IF BeingGranted(c) THEN handling.slot ELSE slot[c]

PhaseOf(c) ==
    IF cpc[c] = "failed" THEN "failed"
    ELSE IF ~(Subscribed(c) \/ BeingGranted(c)) THEN "out"
    ELSE IF opened[c] THEN "reading" ELSE "joined"

SinceOf(c) == IF PhaseOf(c) \in {"joined", "reading"} THEN joined[SlotOf(c)] ELSE 0

NextOf(c) == IF PhaseOf(c) = "reading" THEN Succ(Index[c]) ELSE 0

Promise == INSTANCE Feed WITH
    Readers   <- Clients,
    published <- nextIndex,
    phase     <- [c \in Clients |-> PhaseOf(c)],
    since     <- [c \in Clients |-> SinceOf(c)],
    next      <- [c \in Clients |-> NextOf(c)]

(* "just as if we were communicating through bare Shm": slots, tokens, the  *)
(* two threads of the server and the removal one publication late add up to *)
(* a feed that each reader reads in order, without a gap or a repetition,   *)
(* from the moment it joined.                                               *)
ImplementsFeed == Promise!Spec

=============================================================================
