----------------------------- MODULE Topic_proofs -----------------------------
(***************************************************************************)
(* What holds of a topic for every number of clients, slots and messages.   *)
(***************************************************************************)
EXTENDS Topic, TLAPS

-----------------------------------------------------------------------------
(* Types.                                                                  *)

LEMMA MinusType ==
    ASSUME NEW a \in Int, NEW b \in Int
    PROVE  Minus(a, b) \in Nat
  BY WordAssumption DEF Minus

LEMMA SuccType == ASSUME NEW a \in Nat PROVE Succ(a) \in Nat
  BY WordAssumption DEF Succ

(* NotifyAll runs for a message that has been published. *)
NotifiesMessage == ppc # "idle" => nextIndex > 0

TypeInv == TypeOK /\ NotifiesMessage

LEMMA TypeInit == Init => TypeInv
  <1> SUFFICES ASSUME Init PROVE TypeInv
    OBVIOUS
  <1>1. 0 \in Slots
    BY TopicAssumption DEF Slots
  <1>2. queue \in Seq(Request)
    BY DEF Init
  <1>3. TypeOK
    BY <1>1, <1>2 DEF Init, TypeOK, ClientStates
  <1> QED
    BY <1>3 DEF Init, TypeInv, NotifiesMessage

LEMMA HeadRequest ==
    ASSUME TypeOK, queue # <<>>
    PROVE  /\ Head(queue) \in Request
           /\ Tail(queue) \in Seq(Request)
           /\ Head(queue).client \in Clients
           /\ Head(queue).slot \in Slots
  <1>1. Head(queue) \in Request /\ Tail(queue) \in Seq(Request)
    BY DEF TypeOK
  <1> QED
    BY <1>1 DEF Request

LEMMA HandlingSlot ==
    ASSUME TypeOK
    PROVE  handling.slot \in Slots /\ 0 \in Slots
  <1>1. 0 \in Slots
    BY TopicAssumption DEF Slots
  <1>2. CASE handling \in Request
    BY <1>1, <1>2 DEF Request
  <1>3. CASE handling = NoRequest
    BY <1>1, <1>3 DEF NoRequest
  <1> QED
    BY <1>2, <1>3 DEF TypeOK

LEMMA TypeDispatcher ==
    ASSUME TypeInv, Dispatcher
    PROVE  TypeInv'
  <1> USE DEF TypeInv, TypeOK, NotifiesMessage, tableVars, dispVars, pubVars, clientVars
  <1>1. ASSUME NEW i \in Slots, TakeSubscribe(i) PROVE TypeInv'
    <2>1. /\ Head(queue) \in Request
          /\ Tail(queue) \in Seq(Request)
          /\ Head(queue).client \in Clients
      BY <1>1, HeadRequest DEF TakeSubscribe
    <2>2. [Head(queue) EXCEPT !.slot = i] \in Request
      BY <2>1 DEF Request
    <2> QED
      BY <1>1, <2>1, <2>2 DEF TakeSubscribe
  <1>2. CASE TerminateNoFreeId
    <2>1. Tail(queue) \in Seq(Request)
      BY <1>2, HeadRequest DEF TerminateNoFreeId
    <2> QED
      BY <1>2, <2>1 DEF TerminateNoFreeId
  <1>3. CASE PushSubscription
    <2>1. handling.slot \in Slots
      BY HandlingSlot
    <2> QED
      BY <1>3, <2>1 DEF PushSubscription
  <1>4. CASE TakeUnsubscribe
    <2>1. Head(queue) \in Request /\ Tail(queue) \in Seq(Request)
      BY <1>4, HeadRequest DEF TakeUnsubscribe
    <2>2. PendingRemove' \in [Slots -> BOOLEAN]
      BY <1>4 DEF TakeUnsubscribe
    <2> QED
      BY <1>4, <2>1, <2>2 DEF TakeUnsubscribe
  <1>5. CASE Answer
    <2> DEFINE c == handling.client
    <2>1. handling.slot \in Slots /\ 0 \in Slots
      BY HandlingSlot
    <2>2. /\ cpc' \in [Clients -> ClientStates]
          /\ slot' \in [Clients -> Slots]
          /\ opened' \in [Clients -> BOOLEAN]
          /\ Index' \in [Clients -> Nat]
      <3>1. CASE /\ cpc' = [cpc EXCEPT ![c] = "granted"]
                 /\ slot' = [slot EXCEPT ![c] = handling.slot]
                 /\ UNCHANGED <<opened, Index>>
        BY <2>1, <3>1 DEF ClientStates
      <3>2. CASE /\ cpc' = [cpc EXCEPT ![c] = "closing"]
                 /\ UNCHANGED clientVars
        BY <3>2 DEF ClientStates
      <3>3. CASE UNCHANGED <<cpc, clientVars>>
        BY <3>3
      <3> QED
        BY <1>5, <3>1, <3>2, <3>3 DEF Answer
    <2> QED
      BY <1>5, <2>2 DEF Answer
  <1> QED
    BY <1>1, <1>2, <1>3, <1>4, <1>5 DEF Dispatcher

LEMMA TypePublisher ==
    ASSUME TypeInv, PublishMessage \/ NotifyAll
    PROVE  TypeInv'
  <1> USE DEF TypeInv, TypeOK, NotifiesMessage, tableVars, dispVars, pubVars, clientVars
  <1>1. CASE PublishMessage
    BY <1>1 DEF PublishMessage
  <1>2. CASE BeginNotify
    BY <1>2 DEF BeginNotify
  <1>3. ASSUME NEW i \in Slots, SetAside(i) PROVE TypeInv'
    BY <1>3 DEF SetAside
  <1>4. ASSUME NEW i \in Slots, CountNotification(i) PROVE TypeInv'
    BY <1>4 DEF CountNotification
  <1>5. CASE SetStart
    BY <1>5 DEF SetStart
  <1>6. CASE ReleaseSemaphore
    BY <1>6 DEF ReleaseSemaphore
  <1>7. CASE EndVisits
    BY <1>7 DEF EndVisits
  <1>8. ASSUME NEW i \in Slots, RemoveSubscription(i) PROVE TypeInv'
    BY <1>8 DEF RemoveSubscription
  <1>9. CASE Deactivate
    BY <1>9, TopicAssumption DEF Deactivate, IndexAfterClose
  <1>10. CASE EndNotify
    BY <1>10 DEF EndNotify
  <1>11. ASSUME NEW i \in Slots, RemovalMissed(i) PROVE TypeInv'
    BY <1>11 DEF RemovalMissed
  <1> QED
    BY <1>1, <1>2, <1>3, <1>4, <1>5, <1>6, <1>7, <1>8, <1>9, <1>10, <1>11 DEF NotifyAll

(* What a client changes; the rest of the state is not its own. *)
LEMMA ClientVariables ==
    ASSUME TypeInv,
           UNCHANGED <<nextIndex, tableVars, dispVars, bag, pubVars, joined>>,
           sem' \in [Slots -> Nat], queue' \in Seq(Request), asked' \in Nat,
           cpc' \in [Clients -> ClientStates],
           slot' \in [Clients -> Slots], opened' \in [Clients -> BOOLEAN], Index' \in [Clients -> Nat]
    PROVE  TypeInv'
  BY DEF TypeInv, TypeOK, NotifiesMessage, tableVars, dispVars, pubVars

LEMMA TypeClient ==
    ASSUME TypeInv, NEW c \in Clients, Subscribe(c) \/ Read(c) \/ Leave(c)
    PROVE  TypeInv'
  <1>0. /\ queue \in Seq(Request) /\ sem \in [Slots -> Nat] /\ asked \in Nat
        /\ slot \in [Clients -> Slots] /\ opened \in [Clients -> BOOLEAN]
        /\ Index \in [Clients -> Nat] /\ NextIndex \in [Slots -> Nat]
        /\ cpc \in [Clients -> ClientStates]
    BY DEF TypeInv, TypeOK
  <1>1. CASE Subscribe(c)
    <2>1. [kind |-> "subscribe", client |-> c, slot |-> 0] \in Request
      BY TopicAssumption DEF Request, Slots
    <2>2. queue' \in Seq(Request) /\ cpc' \in [Clients -> ClientStates]
      BY <1>0, <1>1, <2>1 DEF Subscribe, ClientStates
    <2>3. asked' \in Nat /\ UNCHANGED <<sem, slot, opened, Index>>
      BY <1>0, <1>1 DEF Subscribe, clientVars
    <2> QED
      BY <1>0, <1>1, <2>2, <2>3, ClientVariables DEF Subscribe
  <1>2. CASE OpenSemaphore(c)
    <2>1. cpc' \in [Clients -> ClientStates]
      BY <1>0, <1>2 DEF OpenSemaphore, ClientStates
    <2>2. UNCHANGED <<sem, queue, asked, slot, opened, Index>>
      BY <1>2 DEF OpenSemaphore, clientVars
    <2> QED
      BY <1>0, <1>2, <2>1, <2>2, ClientVariables DEF OpenSemaphore
  <1>3. CASE Acquire(c)
    <2>1. NextIndex[slot[c]] \in Int /\ 1 \in Int
      BY <1>0
    <2>2. Minus(NextIndex[slot[c]], 1) \in Nat
      BY <2>1, MinusType
    <2>3. sem' \in [Slots -> Nat]
      BY <1>0, <1>3 DEF Acquire
    <2>4. /\ opened' \in [Clients -> BOOLEAN] /\ Index' \in [Clients -> Nat]
          /\ cpc' \in [Clients -> ClientStates]
      BY <1>0, <1>3, <2>2 DEF Acquire, ClientStates
    <2> QED
      BY <1>0, <1>3, <2>3, <2>4, ClientVariables DEF Acquire
  <1>4. CASE ReadMessage(c)
    <2>1. Succ(Index[c]) \in Nat
      BY <1>0, SuccType
    <2>2. /\ Index' \in [Clients -> Nat]
          /\ cpc' \in [Clients -> ClientStates]
      BY <1>0, <1>4, <2>1 DEF ReadMessage, ClientStates
    <2> QED
      BY <1>0, <1>4, <2>2, ClientVariables DEF ReadMessage
  <1>5. CASE Unsubscribe(c)
    <2>1. [kind |-> "unsubscribe", client |-> c, slot |-> slot[c]] \in Request
      BY <1>0 DEF Request
    <2>2. queue' \in Seq(Request) /\ cpc' \in [Clients -> ClientStates]
      BY <1>0, <1>5, <2>1 DEF Unsubscribe, ClientStates
    <2>3. UNCHANGED <<sem, asked, slot, opened, Index>>
      BY <1>5 DEF Unsubscribe, clientVars
    <2> QED
      BY <1>0, <1>5, <2>2, <2>3, ClientVariables DEF Unsubscribe
  <1>6. CASE CloseCursor(c)
    <2>1. 0 \in Slots
      BY TopicAssumption DEF Slots
    <2>2. /\ cpc' \in [Clients -> ClientStates] /\ slot' \in [Clients -> Slots]
          /\ opened' \in [Clients -> BOOLEAN] /\ Index' \in [Clients -> Nat]
      BY <1>0, <1>6, <2>1 DEF CloseCursor, ClientStates
    <2>3. UNCHANGED <<sem, queue, asked>>
      BY <1>6 DEF CloseCursor
    <2> QED
      BY <1>0, <1>6, <2>2, <2>3, ClientVariables DEF CloseCursor
  <1> QED
    BY <1>1, <1>2, <1>3, <1>4, <1>5, <1>6 DEF Read, Leave

LEMMA TypeStep == TypeInv /\ [Next]_vars => TypeInv'
  <1> SUFFICES ASSUME TypeInv, [Next]_vars PROVE TypeInv'
    OBVIOUS
  <1>1. CASE UNCHANGED vars
    BY <1>1 DEF TypeInv, TypeOK, NotifiesMessage, vars, tableVars, dispVars, pubVars,
                clientVars
  <1> QED
    BY <1>1, TypeDispatcher, TypePublisher, TypeClient DEF Next

THEOREM TypeInvariant == Spec => []TypeInv
  BY TypeInit, TypeStep, PTL DEF Spec

(* Every variable of a topic keeps its type: NextIndex and the cursors are   *)
(* ulongs although both are computed by subtraction.                        *)
THEOREM TypeCorrect == Spec => []TypeOK
  BY TypeInvariant, PTL DEF TypeInv

-----------------------------------------------------------------------------
(* Slots.                                                                  *)

(* These invariants are those of a topic whose processes may die, too: see  *)
(* TopicRecovery_proofs.  A client that died no longer waits, and a server   *)
(* that was killed has neither bag nor pool.                               *)

(* A client has one request on its way at most, and waits for its answer. *)
RequestsMatchClients ==
    \A m \in 1..Len(queue) :
        /\ queue[m].kind = "subscribe" => cpc[queue[m].client] \in {"subscribing", "dead"}
        /\ queue[m].kind = "unsubscribe" => cpc[queue[m].client] \in {"leaving", "dead"}
        /\ dpc # "idle" => queue[m].client # handling.client
        /\ \A n \in 1..Len(queue) : queue[n].client = queue[m].client => n = m

(* Slot i has been reset for client c and c has not left it; the pool does  *)
(* not have its id either.                                                 *)
Keeps(c, i) == Active[i] /\ Pid[i] = c /\ ~PendingRemove[i]
Held(c, i) == Keeps(c, i) /\ i \notin freeIds

(* The request in the dispatcher's hand. *)
HandlingMatches ==
    /\ dpc # "idle" => handling \in Request
    /\ dpc # "idle" /\ handling.kind = "subscribe" =>
          /\ cpc[handling.client] \in {"subscribing", "dead"}
          /\ Held(handling.client, handling.slot)
          /\ dpc = "push" <=> handling.slot \notin bag
    /\ dpc # "idle" /\ handling.kind = "unsubscribe" =>
          dpc = "answer" /\ cpc[handling.client] \in {"leaving", "dead"}

(* The server runs, or it ended by itself and its bag is as it left it. *)
Serving == up \/ freeIds = {}

SubscribersHold ==
    \A c \in Clients : Subscribed(c) =>
        /\ Keeps(c, slot[c])
        /\ Serving => slot[c] \in bag /\ slot[c] \notin freeIds

(* What NotifyAll has put aside stays in the bag, and pending, until the    *)
(* second loop comes to it.                                                *)
RemovalsPending ==
    /\ bag \intersect freeIds = {}
    /\ todo \subseteq bag
    /\ ppc \in {"idle", "begin", "remove", "deactivate"} => todo = {}
    /\ ppc \in {"start", "release"} => cur \in todo
    /\ ppc = "deactivate" =>
          /\ cur \in doomed /\ cur \notin bag /\ cur \notin freeIds
          /\ dpc = "push" => handling.slot # cur
    /\ \A i \in doomed : (ppc = "deactivate" /\ i = cur) \/ (i \in bag /\ PendingRemove[i])

SlotInv ==
    /\ TypeInv
    /\ RequestsMatchClients
    /\ HandlingMatches
    /\ SubscribersHold
    /\ RemovalsPending

LEMMA SlotInit == Init => SlotInv
  BY TypeInit DEF Init, SlotInv, RequestsMatchClients, HandlingMatches, SubscribersHold,
                  Subscribed, RemovalsPending

(* Steps that leave requests, slots and the bag alone. *)
LEMMA SlotKept ==
    ASSUME SlotInv, TypeInv',
           UNCHANGED <<queue, cpc, dpc, handling, bag, up, freeIds, slot, Pid, Active,
                       PendingRemove>>
    PROVE  RequestsMatchClients' /\ HandlingMatches' /\ SubscribersHold'
  BY DEF SlotInv, RequestsMatchClients, HandlingMatches, SubscribersHold, Subscribed, Held, Keeps,
         Serving

(* What a running server knows of the slot of a subscribed client. *)
LEMMA SubscriberServed ==
    ASSUME SlotInv, Serving, NEW c \in Clients, Subscribed(c)
    PROVE  slot[c] \in Slots /\ slot[c] \in bag /\ Held(c, slot[c])
  BY DEF SlotInv, SubscribersHold, Held, TypeInv, TypeOK

(* A queued request is another client's than the one in hand, and its      *)
(* client waits.                                                           *)
LEMMA QueuedRequest ==
    ASSUME SlotInv, NEW m \in 1..Len(queue)
    PROVE  /\ queue[m].client \in Clients
           /\ cpc[queue[m].client] \in {"subscribing", "leaving", "dead"}
           /\ dpc # "idle" => queue[m].client # handling.client
  <1>1. queue \in Seq(Request)
    BY DEF SlotInv, TypeInv, TypeOK
  <1>2. queue[m] \in Request
    BY <1>1
  <1>3. queue[m].client \in Clients /\ queue[m].kind \in {"subscribe", "unsubscribe"}
    BY <1>2 DEF Request
  <1> QED
    BY <1>3 DEF SlotInv, RequestsMatchClients

LEMMA FirstRequest ==
    ASSUME SlotInv, queue # <<>>
    PROVE  /\ Head(queue) \in Request
           /\ Head(queue).kind = "subscribe" =>
                cpc[Head(queue).client] \in {"subscribing", "dead"}
           /\ Head(queue).kind = "unsubscribe" =>
                cpc[Head(queue).client] \in {"leaving", "dead"}
           /\ \A m \in 1..Len(Tail(queue)) :
                /\ m + 1 \in 1..Len(queue)
                /\ Tail(queue)[m] = queue[m + 1]
                /\ queue[m + 1].client # Head(queue).client
  <1>1. queue \in Seq(Request)
    BY DEF SlotInv, TypeInv, TypeOK
  <1>2. Head(queue) = queue[1] /\ 1 \in 1..Len(queue) /\ Head(queue) \in Request
    BY <1>1
  <1>3. ASSUME NEW m \in 1..Len(Tail(queue))
        PROVE  m + 1 \in 1..Len(queue) /\ Tail(queue)[m] = queue[m + 1] /\ m + 1 # 1
    BY <1>1
  <1> QED
    BY <1>2, <1>3 DEF SlotInv, RequestsMatchClients

LEMMA RequestsTaken ==
    ASSUME SlotInv, queue # <<>>, queue' = Tail(queue), cpc' = cpc,
           dpc' # "idle" => handling'.client = Head(queue).client
    PROVE  RequestsMatchClients'
  <1> SUFFICES ASSUME NEW m \in 1..Len(queue')
               PROVE  /\ queue'[m].kind = "subscribe" =>
                            cpc[queue'[m].client] \in {"subscribing", "dead"}
                      /\ queue'[m].kind = "unsubscribe" =>
                            cpc[queue'[m].client] \in {"leaving", "dead"}
                      /\ dpc' # "idle" => queue'[m].client # handling'.client
                      /\ \A n \in 1..Len(queue') : queue'[n].client = queue'[m].client => n = m
    BY DEF RequestsMatchClients
  <1>1. \A n \in 1..Len(queue') : n \in Nat /\ n + 1 \in 1..Len(queue) /\ queue'[n] = queue[n + 1]
    BY FirstRequest
  <1>2. queue[m + 1].client # Head(queue).client
    BY FirstRequest
  <1>3. \A n \in 1..Len(queue') : queue'[n].client = queue'[m].client => n + 1 = m + 1
    BY <1>1 DEF SlotInv, RequestsMatchClients
  <1>4. \A n \in 1..Len(queue') : queue'[n].client = queue'[m].client => n = m
    BY <1>1, <1>3
  <1> QED
    BY <1>1, <1>2, <1>4 DEF SlotInv, RequestsMatchClients

LEMMA SlotTakeSubscribe ==
    ASSUME SlotInv, TypeInv', NEW i \in Slots, TakeSubscribe(i)
    PROVE  SlotInv'
  <1> DEFINE c == Head(queue).client
  <1>1. /\ Head(queue) \in Request /\ Head(queue).kind = "subscribe"
        /\ cpc[c] \in {"subscribing", "dead"}
        /\ queue # <<>> /\ up /\ Serving
    BY FirstRequest DEF TakeSubscribe, Serving
  <1>2. /\ handling' = [Head(queue) EXCEPT !.slot = i]
        /\ handling' \in Request
        /\ handling'.client = c /\ handling'.kind = "subscribe" /\ handling'.slot = i
    BY <1>1 DEF TakeSubscribe, Request
  <1>3. i \in freeIds /\ i \notin bag
    BY DEF TakeSubscribe, SlotInv, RemovalsPending
  <1>4. /\ Active'[i] /\ Pid'[i] = c /\ ~PendingRemove'[i] /\ i \notin freeIds'
        /\ bag' = bag /\ cpc' = cpc /\ dpc' = "push"
    BY DEF TakeSubscribe, SlotInv, TypeInv, TypeOK
  <1>5. RequestsMatchClients'
    BY <1>1, <1>2, RequestsTaken DEF TakeSubscribe
  <1>6. HandlingMatches'
    BY <1>1, <1>2, <1>3, <1>4 DEF HandlingMatches, Held, Keeps
  <1>7. SubscribersHold'
    <2> SUFFICES ASSUME NEW d \in Clients, Subscribed(d)
                 PROVE  slot[d] \in bag /\ Held(d, slot[d])'
      BY DEF TakeSubscribe, SubscribersHold, Subscribed, Held, clientVars
    <2>1. slot[d] \in bag /\ Held(d, slot[d])
      BY <1>1, SubscriberServed
    <2> QED
      BY <1>3, <2>1 DEF TakeSubscribe, Held, Keeps, SlotInv, TypeInv, TypeOK, clientVars
  <1>8. RemovalsPending'
    <2>1. \A j \in Slots : j # i => PendingRemove'[j] = PendingRemove[j]
      BY DEF TakeSubscribe, SlotInv, TypeInv, TypeOK
    <2>2. /\ freeIds' \subseteq freeIds /\ doomed' = doomed /\ todo' = todo
          /\ ppc' = ppc /\ cur' = cur /\ doomed \subseteq Slots
      BY DEF TakeSubscribe, SlotInv, TypeInv, TypeOK, pubVars
    <2>3. ppc = "deactivate" => i # cur
      BY <1>3 DEF SlotInv, RemovalsPending
    <2> QED
      BY <1>2, <1>3, <1>4, <2>1, <2>2, <2>3 DEF SlotInv, RemovalsPending
  <1> QED
    BY <1>5, <1>6, <1>7, <1>8 DEF SlotInv

LEMMA SlotPush ==
    ASSUME SlotInv, TypeInv', PushSubscription
    PROVE  SlotInv'
  <1>1. /\ handling \in Request /\ handling.kind = "subscribe"
        /\ handling.slot \notin bag /\ handling.slot \notin freeIds
    BY DEF PushSubscription, SlotInv, HandlingMatches, Held, Request
  <1>2. RequestsMatchClients'
    BY DEF PushSubscription, SlotInv, RequestsMatchClients
  <1>3. HandlingMatches'
    BY <1>1 DEF PushSubscription, SlotInv, HandlingMatches, Held, Keeps, tableVars
  <1>4. SubscribersHold'
    BY DEF PushSubscription, SlotInv, SubscribersHold, Subscribed, Keeps, Serving, tableVars,
           clientVars
  <1>5. RemovalsPending'
    BY <1>1 DEF PushSubscription, SlotInv, RemovalsPending, tableVars, pubVars
  <1> QED
    BY <1>2, <1>3, <1>4, <1>5 DEF SlotInv

LEMMA SlotTakeUnsubscribe ==
    ASSUME SlotInv, TypeInv', TakeUnsubscribe
    PROVE  SlotInv'
  <1> DEFINE r == Head(queue)
  <1>1. /\ r \in Request /\ r.kind = "unsubscribe" /\ cpc[r.client] \in {"leaving", "dead"}
        /\ queue # <<>> /\ Serving
    BY FirstRequest DEF TakeUnsubscribe, Serving
  <1>2. RequestsMatchClients'
    BY <1>1, RequestsTaken DEF TakeUnsubscribe
  <1>3. HandlingMatches'
    BY <1>1 DEF TakeUnsubscribe, HandlingMatches
  <1>4. \A i \in Slots : PendingRemove[i] => PendingRemove'[i]
    BY <1>1 DEF TakeUnsubscribe, SlotInv, TypeInv, TypeOK, Request
  <1>5. SubscribersHold'
    <2> SUFFICES ASSUME NEW c \in Clients, Subscribed(c)
                 PROVE  slot[c] \in bag /\ Held(c, slot[c])'
      BY DEF TakeUnsubscribe, SubscribersHold, Subscribed, Held, clientVars
    <2>1. slot[c] \in bag /\ Held(c, slot[c])
      BY <1>1, SubscriberServed
    <2>2. r.client # c
      BY <1>1 DEF Subscribed
    <2>3. PendingRemove'[slot[c]] = PendingRemove[slot[c]]
      BY <2>1, <2>2 DEF TakeUnsubscribe, Held, Keeps, SlotInv, TypeInv, TypeOK
    <2> QED
      BY <2>1, <2>3 DEF TakeUnsubscribe, Held, Keeps, clientVars
  <1>6. RemovalsPending'
    BY <1>4 DEF TakeUnsubscribe, SlotInv, RemovalsPending, TypeInv, TypeOK, pubVars
  <1> QED
    BY <1>2, <1>3, <1>5, <1>6 DEF SlotInv

LEMMA SlotAnswer ==
    ASSUME SlotInv, TypeInv', Answer
    PROVE  SlotInv'
  <1> DEFINE h == handling.client
  <1>1. /\ handling \in Request /\ h \in Clients /\ handling.slot \in Slots
        /\ handling.kind \in {"subscribe", "unsubscribe"}
    BY DEF Answer, SlotInv, HandlingMatches, Request
  <1>2. /\ UNCHANGED <<queue, bag, freeIds, Active, Pid, PendingRemove>>
        /\ dpc' = "idle" /\ Serving
    BY DEF Answer, Serving, tableVars
  <1>3. \A c \in Clients : c # h => cpc'[c] = cpc[c] /\ slot'[c] = slot[c]
    BY DEF Answer, clientVars, SlotInv, TypeInv, TypeOK
  <1>4. RequestsMatchClients'
    <2>1. \A m \in 1..Len(queue) : queue[m].client \in Clients /\ queue[m].client # h
      BY QueuedRequest DEF Answer
    <2> QED
      BY <1>2, <1>3, <2>1 DEF SlotInv, RequestsMatchClients
  <1>5. HandlingMatches'
    BY <1>2 DEF HandlingMatches
  <1>6. SubscribersHold'
    <2> SUFFICES ASSUME NEW c \in Clients, Subscribed(c)'
                 PROVE  slot'[c] \in bag /\ Held(c, slot'[c])
      BY <1>2 DEF SubscribersHold, Held, Keeps
    <2>1. CASE c # h
      BY <1>2, <1>3, <2>1, SubscriberServed DEF Subscribed
    <2>2. CASE c = h
      <3>1. cpc[c] = "subscribing" /\ slot'[c] = handling.slot
        BY <1>1, <2>2 DEF Answer, Subscribed, SlotInv, HandlingMatches, TypeInv, TypeOK, clientVars
      <3>2. handling.kind = "subscribe"
        BY <1>1, <2>2, <3>1 DEF Answer, SlotInv, HandlingMatches
      <3> QED
        BY <2>2, <3>1, <3>2 DEF Answer, SlotInv, HandlingMatches, Held
    <2> QED
      BY <2>1, <2>2
  <1>7. RemovalsPending'
    BY <1>2 DEF Answer, SlotInv, RemovalsPending, pubVars
  <1> QED
    BY <1>4, <1>5, <1>6, <1>7 DEF SlotInv

(* What the dispatcher has pushed, and what it is about to push. *)
LEMMA HandlingHeld ==
    ASSUME SlotInv, dpc # "idle", handling.kind = "subscribe"
    PROVE  /\ handling \in Request
           /\ Held(handling.client, handling.slot)
           /\ dpc # "push" => handling.slot \in bag
  BY DEF SlotInv, HandlingMatches

LEMMA PushesSubscription ==
    ASSUME SlotInv, dpc = "push"
    PROVE  handling.kind = "subscribe"
  BY DEF SlotInv, HandlingMatches, Request

LEMMA SlotRemove ==
    ASSUME SlotInv, TypeInv', NEW i \in Slots, RemoveSubscription(i)
    PROVE  SlotInv'
  <1>1. /\ i \in bag /\ PendingRemove[i] /\ i \notin freeIds /\ i \in doomed /\ todo = {}
        /\ Serving
    BY DEF RemoveSubscription, SlotInv, RemovalsPending, Serving
  <1>2. /\ UNCHANGED <<queue, cpc, slot, dpc, handling, freeIds, Active, Pid, doomed, todo>>
        /\ bag' = bag \ {i} /\ cur' = i /\ ppc' = "deactivate"
    BY DEF RemoveSubscription, dispVars, clientVars
  <1>3. \A j \in Slots : j # i => PendingRemove'[j] = PendingRemove[j]
    BY DEF RemoveSubscription, SlotInv, TypeInv, TypeOK
  <1>4. RequestsMatchClients'
    BY <1>2 DEF SlotInv, RequestsMatchClients
  <1>5. dpc # "idle" /\ handling.kind = "subscribe" =>
            handling.slot \in Slots /\ handling.slot # i
    BY <1>1, HandlingHeld DEF Held, Keeps, Request
  <1>6. HandlingMatches'
    BY <1>2, <1>3, <1>5 DEF SlotInv, HandlingMatches, Held, Keeps
  <1>7. SubscribersHold'
    <2> SUFFICES ASSUME NEW c \in Clients, Subscribed(c)
                 PROVE  slot[c] \in bag' /\ Held(c, slot[c])'
      BY <1>2 DEF SubscribersHold, Subscribed, Held
    <2>1. slot[c] \in bag /\ Held(c, slot[c]) /\ slot[c] \in Slots
      BY <1>1, SubscriberServed
    <2>2. slot[c] # i
      BY <1>1, <2>1 DEF Held, Keeps
    <2> QED
      BY <1>2, <1>3, <2>1, <2>2 DEF Held, Keeps
  <1>8. RemovalsPending'
    <2>1. dpc = "push" => handling.slot # i
      BY <1>5, PushesSubscription
    <2>2. doomed \subseteq Slots
      BY DEF SlotInv, TypeInv, TypeOK
    <2>3. \A j \in doomed : j \in bag /\ PendingRemove[j]
      BY DEF RemoveSubscription, SlotInv, RemovalsPending
    <2> QED
      BY <1>1, <1>2, <1>3, <2>1, <2>2, <2>3 DEF SlotInv, RemovalsPending
  <1> QED
    BY <1>4, <1>6, <1>7, <1>8 DEF SlotInv

LEMMA SlotDeactivate ==
    ASSUME SlotInv, TypeInv', Deactivate
    PROVE  SlotInv'
  <1>1. cur \notin bag /\ Serving /\ (dpc = "push" => handling.slot # cur)
    BY DEF Deactivate, SlotInv, RemovalsPending, Serving
  <1>2. /\ UNCHANGED <<queue, cpc, slot, dpc, handling, bag, Pid, PendingRemove, todo, cur>>
        /\ freeIds' = freeIds /\ doomed' = doomed \ {cur} /\ ppc' = "remove"
    BY DEF Deactivate, clientVars, IndexAfterClose
  <1>3. \A j \in Slots : j # cur => Active'[j] = Active[j]
    BY DEF Deactivate, SlotInv, TypeInv, TypeOK
  <1>4. RequestsMatchClients'
    BY <1>2 DEF SlotInv, RequestsMatchClients
  <1>5. dpc # "idle" /\ handling.kind = "subscribe" =>
            handling.slot \in Slots /\ handling.slot # cur
    BY <1>1, HandlingHeld DEF Request
  <1>6. HandlingMatches'
    BY <1>2, <1>3, <1>5 DEF SlotInv, HandlingMatches, Held, Keeps
  <1>7. SubscribersHold'
    <2> SUFFICES ASSUME NEW c \in Clients, Subscribed(c)
                 PROVE  slot[c] \in bag /\ Held(c, slot[c])'
      BY <1>2 DEF SubscribersHold, Subscribed, Held
    <2>1. slot[c] \in bag /\ Held(c, slot[c]) /\ slot[c] \in Slots
      BY <1>1, SubscriberServed
    <2> QED
      BY <1>1, <1>2, <1>3, <2>1 DEF Held, Keeps
  <1>8. RemovalsPending'
    BY <1>2 DEF Deactivate, SlotInv, RemovalsPending
  <1> QED
    BY <1>4, <1>6, <1>7, <1>8 DEF SlotInv

(* The steps of the publish thread that touch no slot and not the bag. *)
WalkStep ==
    \/ PublishMessage
    \/ BeginNotify
    \/ \E i \in Slots : SetAside(i) \/ CountNotification(i) \/ RemovalMissed(i)
    \/ SetStart
    \/ ReleaseSemaphore
    \/ EndVisits
    \/ EndNotify

LEMMA WalkKeepsSlots ==
    ASSUME WalkStep
    PROVE  UNCHANGED <<queue, cpc, dpc, handling, bag, up, freeIds, slot, Pid, Active,
                       PendingRemove>>
  BY DEF WalkStep, PublishMessage, BeginNotify, SetAside, CountNotification, RemovalMissed,
         SetStart, ReleaseSemaphore, EndVisits, EndNotify, tableVars, dispVars, pubVars, clientVars

LEMMA SlotWalk ==
    ASSUME SlotInv, TypeInv', WalkStep
    PROVE  SlotInv'
  <1> USE WalkKeepsSlots DEF SlotInv, RemovalsPending, tableVars, dispVars, pubVars
  <1>1. CASE PublishMessage
    BY <1>1, SlotKept DEF PublishMessage
  <1>2. CASE BeginNotify
    BY <1>2, SlotKept DEF BeginNotify
  <1>3. ASSUME NEW i \in Slots, SetAside(i) PROVE SlotInv'
    BY <1>3, SlotKept DEF SetAside
  <1>4. ASSUME NEW i \in Slots, CountNotification(i) PROVE SlotInv'
    BY <1>4, SlotKept DEF CountNotification
  <1>5. CASE SetStart
    BY <1>5, SlotKept DEF SetStart
  <1>6. CASE ReleaseSemaphore
    BY <1>6, SlotKept DEF ReleaseSemaphore
  <1>7. CASE EndVisits
    BY <1>7, SlotKept DEF EndVisits
  <1>8. CASE EndNotify
    BY <1>8, SlotKept DEF EndNotify
  <1>9. ASSUME NEW i \in Slots, RemovalMissed(i) PROVE SlotInv'
    BY <1>9, SlotKept DEF RemovalMissed
  <1> QED
    BY <1>1, <1>2, <1>3, <1>4, <1>5, <1>6, <1>7, <1>8, <1>9 DEF WalkStep

(* A client with no request on its way sends one. *)
LEMMA RequestSent ==
    ASSUME SlotInv, TypeInv', NEW c \in Clients, NEW r \in Request, NEW pc,
           r.client = c, cpc[c] \in {"out", "ready"}, pc \in {"subscribing", "leaving"},
           r.kind = "subscribe" => pc = "subscribing",
           r.kind = "unsubscribe" => pc = "leaving",
           queue' = Append(queue, r),
           cpc' = [cpc EXCEPT ![c] = pc],
           UNCHANGED <<dpc, handling, bag, up, freeIds, slot, Pid, Active, PendingRemove,
                       pubVars>>
    PROVE  SlotInv'
  <1>1. queue \in Seq(Request) /\ cpc \in [Clients -> ClientStates]
    BY DEF SlotInv, TypeInv, TypeOK
  <1>2. /\ Len(queue') = Len(queue) + 1 /\ Len(queue) \in Nat
        /\ queue'[Len(queue) + 1] = r
        /\ \A m \in 1..Len(queue) : queue'[m] = queue[m] /\ queue[m] \in Request
    BY <1>1
  <1>3. \A m \in 1..Len(queue) :
            queue[m].client \in Clients /\ queue[m].client # c
    BY <1>2 DEF SlotInv, RequestsMatchClients, Request
  <1>4. dpc # "idle" => handling.client \in Clients /\ handling.client # c
    BY DEF SlotInv, HandlingMatches, Request
  <1>5. \A d \in Clients : d # c => cpc'[d] = cpc[d]
    BY <1>1
  <1>6. cpc'[c] = pc
    BY <1>1
  <1>7. RequestsMatchClients'
    <2> SUFFICES ASSUME NEW m \in 1..Len(queue')
                 PROVE  /\ queue'[m].kind = "subscribe" =>
                              cpc'[queue'[m].client] \in {"subscribing", "dead"}
                        /\ queue'[m].kind = "unsubscribe" =>
                              cpc'[queue'[m].client] \in {"leaving", "dead"}
                        /\ dpc # "idle" => queue'[m].client # handling.client
                        /\ \A n \in 1..Len(queue') :
                               queue'[n].client = queue'[m].client => n = m
      BY DEF RequestsMatchClients
    <2>1. \A n \in 1..Len(queue') : n \in 1..Len(queue) \/ n = Len(queue) + 1
      BY <1>2
    <2>2. CASE m \in 1..Len(queue)
      BY <1>2, <1>3, <1>5, <2>1, <2>2 DEF SlotInv, RequestsMatchClients
    <2>3. CASE m = Len(queue) + 1
      BY <1>2, <1>3, <1>4, <1>6, <2>1, <2>3
    <2> QED
      BY <2>1, <2>2, <2>3
  <1>8. HandlingMatches'
    BY <1>4, <1>5 DEF SlotInv, HandlingMatches, Held, Keeps
  <1>9. SubscribersHold'
    BY <1>5, <1>6 DEF SlotInv, SubscribersHold, Subscribed, Keeps, Serving
  <1>10. RemovalsPending'
    BY DEF SlotInv, RemovalsPending, pubVars
  <1> QED
    BY <1>7, <1>8, <1>9, <1>10 DEF SlotInv

LEMMA SlotClient ==
    ASSUME SlotInv, TypeInv', NEW c \in Clients, Subscribe(c) \/ Read(c) \/ Leave(c)
    PROVE  SlotInv'
  <1>1. CASE Subscribe(c)
    <2>1. [kind |-> "subscribe", client |-> c, slot |-> 0] \in Request
      BY TopicAssumption DEF Request, Slots
    <2> QED
      BY <1>1, <2>1, RequestSent DEF Subscribe, tableVars, dispVars, clientVars
  <1>2. CASE Unsubscribe(c)
    <2>1. [kind |-> "unsubscribe", client |-> c, slot |-> slot[c]] \in Request
      BY DEF Request, SlotInv, TypeInv, TypeOK
    <2> QED
      BY <1>2, <2>1, RequestSent DEF Unsubscribe, tableVars, dispVars, clientVars
  <1>3. CASE Read(c) \/ CloseCursor(c)
    <2>1. /\ UNCHANGED <<queue, dpc, handling, bag, up, freeIds, Pid, Active, PendingRemove,
                         pubVars>>
          /\ cpc[c] \in {"granted", "ready", "holding", "closing"}
          /\ cpc' \in {[cpc EXCEPT ![c] = pc] : pc \in {"ready", "holding", "failed", "out"}}
      BY <1>3 DEF Read, OpenSemaphore, Acquire, ReadMessage, CloseCursor, tableVars, dispVars,
                  clientVars
    <2>2. /\ \A d \in Clients : d # c => cpc'[d] = cpc[d] /\ slot'[d] = slot[d]
          /\ Subscribed(c)' => Subscribed(c) /\ slot'[c] = slot[c]
      BY <1>3 DEF Read, OpenSemaphore, Acquire, ReadMessage, CloseCursor, Subscribed, clientVars,
                  SlotInv, TypeInv, TypeOK
    <2>3. RequestsMatchClients'
      <3>1. \A m \in 1..Len(queue) : queue[m].client \in Clients /\ queue[m].client # c
        BY <2>1, QueuedRequest
      <3> QED
        BY <2>1, <2>2, <3>1 DEF SlotInv, RequestsMatchClients
    <2>4. HandlingMatches'
      <3>1. dpc # "idle" => handling.client \in Clients /\ handling.client # c
        BY <2>1 DEF SlotInv, HandlingMatches, Request
      <3> QED
        BY <2>1, <2>2, <3>1 DEF SlotInv, HandlingMatches, Held, Keeps
    <2>5. SubscribersHold'
      BY <2>1, <2>2 DEF SlotInv, SubscribersHold, Subscribed, Keeps, Serving
    <2>6. RemovalsPending'
      BY <2>1 DEF SlotInv, RemovalsPending, pubVars
    <2> QED
      BY <2>3, <2>4, <2>5, <2>6 DEF SlotInv
  <1> QED
    BY <1>1, <1>2, <1>3 DEF Leave

LEMMA SlotStep == SlotInv /\ [Next]_vars => SlotInv'
  <1> SUFFICES ASSUME SlotInv, [Next]_vars PROVE SlotInv'
    OBVIOUS
  <1>1. TypeInv'
    BY TypeStep DEF SlotInv
  <1>2. CASE UNCHANGED vars
    BY <1>1, <1>2, SlotKept DEF SlotInv, RemovalsPending, vars, tableVars, dispVars, pubVars,
                                clientVars
  <1>3. CASE TerminateNoFreeId
    <2>1. RequestsMatchClients'
      BY <1>3, RequestsTaken DEF TerminateNoFreeId
    <2> QED
      BY <1>1, <1>3, <2>1 DEF TerminateNoFreeId, SlotInv, HandlingMatches, SubscribersHold,
                              Subscribed, Held, Keeps, Serving, RemovalsPending, tableVars,
                              pubVars, clientVars
  <1>4. CASE Dispatcher
    BY <1>1, <1>3, <1>4, SlotTakeSubscribe, SlotPush, SlotTakeUnsubscribe, SlotAnswer
       DEF Dispatcher
  <1>5. CASE PublishMessage \/ NotifyAll
    BY <1>1, <1>5, SlotWalk, SlotRemove, SlotDeactivate DEF NotifyAll, WalkStep
  <1> QED
    BY <1>1, <1>2, <1>4, <1>5, SlotClient DEF Next

THEOREM SlotInvariant == Spec => []SlotInv
  BY SlotInit, SlotStep, PTL DEF Spec

(* Nobody kills the server or a client in this specification. *)
Undisturbed == Serving /\ \A c \in Clients : cpc[c] # "dead"

LEMMA AlwaysUndisturbed == Spec => []Undisturbed
  <1>1. Init => Undisturbed
    BY DEF Init, Undisturbed, Serving
  <1>2. TypeInv /\ Undisturbed /\ [Next]_vars => Undisturbed'
    <2> SUFFICES ASSUME TypeInv, Undisturbed, [Next]_vars PROVE Undisturbed'
      OBVIOUS
    <2> USE DEF Undisturbed, Serving
    <2>1. cpc \in [Clients -> ClientStates]
      BY DEF TypeInv, TypeOK
    <2>2. CASE UNCHANGED vars \/ TerminateNoFreeId
      BY <2>2 DEF vars, dispVars, TerminateNoFreeId
    <2>3. CASE Answer
      BY <2>1, <2>3 DEF Answer
    <2>4. CASE Dispatcher
      BY <2>2, <2>3, <2>4 DEF Dispatcher, TakeSubscribe, PushSubscription, TakeUnsubscribe
    <2>5. CASE PublishMessage \/ NotifyAll
      BY <2>5 DEF PublishMessage, NotifyAll, BeginNotify, SetAside, CountNotification, RemovalMissed,
                  RemoveSubscription, SetStart, ReleaseSemaphore, EndVisits, Deactivate,
                  EndNotify, dispVars
    <2>6. ASSUME NEW c \in Clients, Subscribe(c) \/ Read(c) \/ Leave(c)
          PROVE  Undisturbed'
      BY <2>1, <2>6 DEF Subscribe, Read, OpenSemaphore, Acquire, ReadMessage, Leave,
                        Unsubscribe, CloseCursor, dispVars
    <2> QED
      BY <2>2, <2>4, <2>5, <2>6 DEF Next
  <1> QED
    BY <1>1, <1>2, TypeInvariant, PTL DEF Spec

(* A slot serves one client, however many clients and slots there are: two  *)
(* subscribed clients never read from the same semaphore.                   *)
THEOREM SlotsServeOneClient == Spec => []SlotsAreExclusive
  <1>1. SlotInv /\ Serving => SlotsAreExclusive
    BY DEF SlotInv, SubscribersHold, Keeps, SlotsAreExclusive
  <1> QED
    BY <1>1, SlotInvariant, AlwaysUndisturbed, PTL DEF Undisturbed

LEMMA BagStep == SlotInv /\ BagMatchesTable /\ [Next]_vars => BagMatchesTable'
  <1> SUFFICES ASSUME SlotInv, BagMatchesTable, [Next]_vars PROVE BagMatchesTable'
    OBVIOUS
  <1> USE DEF BagMatchesTable
  <1>1. ASSUME NEW i \in Slots, TakeSubscribe(i) PROVE BagMatchesTable'
    <2>1. handling'.slot = i
      BY <1>1, FirstRequest DEF TakeSubscribe, Request
    <2> QED
      BY <1>1, <2>1 DEF TakeSubscribe, SlotInv, TypeInv, TypeOK, pubVars
  <1>2. CASE PushSubscription
    <2>1. Active[handling.slot]
      BY <1>2, PushesSubscription, HandlingHeld DEF PushSubscription, Held, Keeps
    <2> QED
      BY <1>2, <2>1 DEF PushSubscription, tableVars, pubVars
  <1>3. ASSUME NEW i \in Slots, RemoveSubscription(i) PROVE BagMatchesTable'
    BY <1>3 DEF RemoveSubscription, dispVars
  <1>4. CASE Deactivate
    BY <1>4 DEF Deactivate, SlotInv, RemovalsPending, TypeInv, TypeOK
  <1>5. CASE WalkStep
    <2>1. ppc # "deactivate" /\ ppc' # "deactivate"
      BY <1>5 DEF WalkStep, PublishMessage, BeginNotify, SetAside, CountNotification, RemovalMissed,
                  SetStart, ReleaseSemaphore, EndVisits, EndNotify
    <2> QED
      BY <1>5, <2>1, WalkKeepsSlots
  <1>6. CASE UNCHANGED vars \/ TerminateNoFreeId \/ TakeUnsubscribe \/ Answer
    BY <1>6 DEF vars, tableVars, dispVars, pubVars, TerminateNoFreeId, TakeUnsubscribe, Answer
  <1>7. ASSUME NEW c \in Clients, Subscribe(c) \/ Read(c) \/ Leave(c)
        PROVE  BagMatchesTable'
    BY <1>7 DEF tableVars, dispVars, pubVars, Subscribe, Read, OpenSemaphore, Acquire,
                ReadMessage, Leave, Unsubscribe, CloseCursor
  <1> QED
    BY <1>1, <1>2, <1>3, <1>4, <1>5, <1>6, <1>7 DEF Next, Dispatcher, NotifyAll, WalkStep

(* What a restarted server reads from shared memory is what the server that *)
(* went had in its bag, up to the one request and the one removal at work.  *)
THEOREM TableShowsBag == Spec => []BagMatchesTable
  <1>1. Init => BagMatchesTable
    BY DEF Init, BagMatchesTable
  <1> QED
    BY <1>1, BagStep, SlotInvariant, PTL DEF Spec

-----------------------------------------------------------------------------
(* Where subscribers start.                                                *)

(* What NotifyAll has counted, that it does not count what it put aside, and *)
(* that it has not counted what is not pushed yet.                         *)
WalkInv ==
    /\ ppc \in {"start", "release"} => Notified[cur] > 0
    /\ ppc \in {"idle", "begin"} => doomed = {}
    /\ todo \intersect doomed = {}
    /\ dpc = "push" => Notified[handling.slot] = 0

CountInv == SlotInv /\ WalkInv

LEMMA CountInit == Init => CountInv
  BY SlotInit DEF Init, CountInv, WalkInv

(* Steps that neither notify nor change the bag. *)
LEMMA CountKept ==
    ASSUME CountInv, SlotInv', dpc' = "push" => dpc = "push" /\ handling' = handling,
           UNCHANGED <<Notified, pubVars>>
    PROVE  CountInv'
  BY DEF CountInv, WalkInv, pubVars

LEMMA CountTake ==
    ASSUME CountInv, SlotInv', NEW i \in Slots, TakeSubscribe(i)
    PROVE  CountInv' /\ handling'.slot = i
  <1>1. i \notin bag /\ todo \subseteq bag /\ cur \in Slots
    BY DEF TakeSubscribe, CountInv, SlotInv, RemovalsPending, TypeInv, TypeOK
  <1>2. Notified'[i] = 0 /\ \A j \in Slots : j # i => Notified'[j] = Notified[j]
    BY DEF TakeSubscribe, CountInv, SlotInv, TypeInv, TypeOK
  <1>3. handling'.slot = i
    BY FirstRequest DEF TakeSubscribe, Request, CountInv
  <1>4. WalkInv'
    BY <1>1, <1>2, <1>3 DEF TakeSubscribe, CountInv, WalkInv, SlotInv, RemovalsPending, pubVars
  <1> QED
    BY <1>3, <1>4 DEF CountInv

LEMMA CountWalk ==
    ASSUME CountInv, SlotInv', WalkStep
    PROVE  CountInv'
  <1>1. /\ todo \subseteq bag /\ bag \subseteq Slots /\ Notified \in [Slots -> Nat]
        /\ ppc \in {"idle", "begin", "remove", "deactivate"} => todo = {}
        /\ ppc \in {"start", "release"} => cur \in todo
        /\ dpc = "push" => handling.slot \notin bag /\ handling.slot \in Slots
    BY PushesSubscription
       DEF CountInv, SlotInv, HandlingMatches, Request, RemovalsPending, TypeInv, TypeOK
  <1>2. UNCHANGED <<dpc, handling, bag>>
    BY WalkKeepsSlots
  <1> USE DEF CountInv, WalkInv
  <1>3. CASE PublishMessage
    BY <1>1, <1>2, <1>3 DEF PublishMessage, tableVars
  <1>4. CASE BeginNotify
    BY <1>1, <1>2, <1>4 DEF BeginNotify, tableVars
  <1>5. ASSUME NEW i \in Slots, SetAside(i) PROVE CountInv'
    BY <1>1, <1>2, <1>5 DEF SetAside, tableVars
  <1>6. ASSUME NEW i \in Slots, CountNotification(i) PROVE CountInv'
    <2>1. /\ i \in todo /\ ppc = "visit" /\ cur' = i
          /\ UNCHANGED <<todo, doomed>>
          /\ ppc' = IF Notified[i] = 0 THEN "start" ELSE "release"
      BY <1>6 DEF CountNotification
    <2>2. /\ Notified'[i] = Notified[i] + 1
          /\ \A j \in Slots : j # i => Notified'[j] = Notified[j]
      BY <1>1, <1>6 DEF CountNotification
    <2> QED
      BY <1>1, <1>2, <2>1, <2>2
  <1>7. CASE SetStart
    BY <1>1, <1>2, <1>7 DEF SetStart
  <1>8. CASE ReleaseSemaphore
    BY <1>1, <1>2, <1>8 DEF ReleaseSemaphore, tableVars
  <1>9. CASE EndVisits
    BY <1>1, <1>2, <1>9 DEF EndVisits, tableVars
  <1>10. CASE EndNotify
    BY <1>1, <1>2, <1>10 DEF EndNotify, tableVars
  <1>11. ASSUME NEW i \in Slots, RemovalMissed(i) PROVE CountInv'
    BY <1>1, <1>2, <1>11 DEF RemovalMissed, tableVars
  <1> QED
    BY <1>3, <1>4, <1>5, <1>6, <1>7, <1>8, <1>9, <1>10, <1>11 DEF WalkStep

LEMMA CountRemoval ==
    ASSUME CountInv, SlotInv', (\E i \in Slots : RemoveSubscription(i)) \/ Deactivate
    PROVE  CountInv'
  <1>1. ppc' \in {"remove", "deactivate"} /\ todo = {}
    BY DEF RemoveSubscription, Deactivate, CountInv, SlotInv, RemovalsPending
  <1>2. UNCHANGED <<Notified, todo, dpc, handling>>
    BY DEF RemoveSubscription, Deactivate, dispVars
  <1> QED
    BY <1>1, <1>2 DEF CountInv, WalkInv

LEMMA CountStep == CountInv /\ [Next]_vars => CountInv'
  <1> SUFFICES ASSUME CountInv, [Next]_vars PROVE CountInv'
    OBVIOUS
  <1>1. SlotInv'
    BY SlotStep DEF CountInv
  <1>2. CASE UNCHANGED vars \/ TerminateNoFreeId \/ PushSubscription \/ TakeUnsubscribe \/ Answer
    BY <1>1, <1>2, CountKept DEF vars, tableVars, dispVars, TerminateNoFreeId, PushSubscription,
                                 TakeUnsubscribe, Answer
  <1>3. ASSUME NEW c \in Clients, Subscribe(c) \/ Read(c) \/ Leave(c)
        PROVE  CountInv'
    BY <1>1, <1>3, CountKept DEF tableVars, dispVars, Subscribe, Read, OpenSemaphore, Acquire,
                                 ReadMessage, Leave, Unsubscribe, CloseCursor
  <1>4. CASE Dispatcher
    BY <1>1, <1>2, <1>4, CountTake DEF Dispatcher
  <1>5. CASE PublishMessage \/ NotifyAll
    BY <1>1, <1>5, CountWalk, CountRemoval DEF NotifyAll, WalkStep
  <1> QED
    BY <1>2, <1>3, <1>4, <1>5 DEF Next

(* A slot in the bag that has no start yet was pushed when the last message *)
(* was out, or when the one being notified was about to be.  Nothing is     *)
(* said of a slot marked for removal, which may miss any number of messages *)
(* in the bag, unless the mark came when its start was about to be set.     *)
StartOf(i) ==
    IF Started(i) THEN NextIndex[i] \in {joined[i] - 1, joined[i]}
    ELSE ~PendingRemove[i] \/ (ppc = "start" /\ cur = i) =>
             joined[i] \in {nextIndex - One(Owed(i)), nextIndex}

StartInv == CountInv /\ \A i \in bag : StartOf(i)

LEMMA StartInit == Init => StartInv
  BY CountInit DEF Init, StartInv

(* Steps that neither publish, notify nor change the bag. *)
LEMMA StartKept ==
    ASSUME StartInv, CountInv',
           UNCHANGED <<nextIndex, NextIndex, Notified, joined, bag, pubVars>>,
           \A i \in bag : PendingRemove[i] => PendingRemove'[i]
    PROVE  StartInv'
  BY DEF StartInv, StartOf, Started, Owed, One, pubVars

LEMMA StartTake ==
    ASSUME StartInv, CountInv', NEW i \in Slots, TakeSubscribe(i)
    PROVE  StartInv'
  <1>1. i \notin bag /\ bag \subseteq Slots /\ todo \subseteq bag /\ cur \in Slots
    BY DEF TakeSubscribe, StartInv, CountInv, SlotInv, RemovalsPending, TypeInv, TypeOK
  <1>2. \A j \in Slots : j # i => /\ Notified'[j] = Notified[j]
                                  /\ PendingRemove'[j] = PendingRemove[j]
    BY DEF TakeSubscribe, StartInv, CountInv, SlotInv, TypeInv, TypeOK
  <1>3. UNCHANGED <<nextIndex, NextIndex, joined, bag, pubVars>>
    BY DEF TakeSubscribe
  <1>4. \A j \in bag : StartOf(j)'
    BY <1>1, <1>2, <1>3 DEF StartInv, StartOf, Started, Owed, One, pubVars
  <1> QED
    BY <1>3, <1>4 DEF StartInv

LEMMA StartPush ==
    ASSUME StartInv, CountInv', PushSubscription
    PROVE  StartInv'
  <1> DEFINE h == handling.slot
  <1>1. h \in Slots /\ Notified[h] = 0 /\ bag \subseteq Slots /\ bag' = bag \union {h}
        /\ h \notin bag
    BY PushesSubscription, HandlingHeld
       DEF PushSubscription, StartInv, CountInv, WalkInv, SlotInv, HandlingMatches, Request,
           TypeInv, TypeOK
  <1>2. joined'[h] = nextIndex /\ \A j \in Slots : j # h => joined'[j] = joined[j]
    BY <1>1 DEF PushSubscription, StartInv, CountInv, SlotInv, TypeInv, TypeOK
  <1>3. UNCHANGED <<nextIndex, NextIndex, Notified, PendingRemove, pubVars, handling>>
    BY DEF PushSubscription, tableVars
  <1>4. StartOf(h)'
    BY <1>1, <1>2, <1>3 DEF StartOf, Started
  <1>5. ASSUME NEW j \in bag PROVE StartOf(j)'
    BY <1>1, <1>2, <1>3 DEF StartInv, StartOf, Started, Owed, One, pubVars
  <1> QED
    BY <1>1, <1>3, <1>4, <1>5 DEF StartInv

LEMMA StartWalk ==
    ASSUME StartInv, CountInv', WalkStep
    PROVE  StartInv'
  <1>1. /\ nextIndex \in Nat /\ todo \subseteq bag /\ bag \subseteq Slots
        /\ NextIndex \in [Slots -> Nat] /\ Notified \in [Slots -> Nat]
        /\ joined \in [Slots -> Nat]
        /\ ppc \in {"idle", "begin", "remove", "deactivate"} => todo = {}
        /\ ppc \in {"start", "release"} => cur \in todo
    BY DEF StartInv, CountInv, SlotInv, RemovalsPending, TypeInv, TypeOK
  <1>2. UNCHANGED <<dpc, handling, bag, PendingRemove>>
    BY WalkKeepsSlots
  <1>0. WalkInv
    BY DEF StartInv, CountInv
  <1> USE <1>0 DEF StartInv, WalkInv, StartOf, Started, Owed, One
  <1>3. CASE PublishMessage
    BY <1>1, <1>2, <1>3 DEF PublishMessage, tableVars
  <1>4. CASE BeginNotify
    BY <1>1, <1>2, <1>4 DEF BeginNotify, tableVars
  <1>5. ASSUME NEW i \in Slots, SetAside(i) PROVE StartInv'
    BY <1>1, <1>2, <1>5 DEF SetAside, tableVars
  <1>6. ASSUME NEW i \in Slots, CountNotification(i) PROVE StartInv'
    <2>1. /\ i \in todo /\ ~PendingRemove[i] /\ ppc = "visit" /\ cur' = i
          /\ ppc' = IF Notified[i] = 0 THEN "start" ELSE "release"
          /\ UNCHANGED <<nextIndex, NextIndex, joined, todo, doomed>>
      BY <1>6 DEF CountNotification
    <2>2. /\ Notified'[i] = Notified[i] + 1
          /\ \A j \in Slots : j # i => Notified'[j] = Notified[j]
      BY <1>1, <1>6 DEF CountNotification
    <2>5. StartOf(i)'
      BY <1>1, <1>2, <2>1, <2>2
    <2>6. ASSUME NEW j \in bag, j # i PROVE StartOf(j)'
      BY <1>1, <1>2, <2>1, <2>2, <2>6
    <2> QED
      BY <1>2, <2>5, <2>6
  <1>7. CASE SetStart
    <2>1. /\ cur \in bag /\ Owed(cur) /\ ~Started(cur)
          /\ NextIndex'[cur] = nextIndex - 1
          /\ \A j \in Slots : j # cur => NextIndex'[j] = NextIndex[j]
      BY <1>1, <1>7 DEF SetStart
    <2>2. UNCHANGED <<nextIndex, Notified, joined, todo, doomed, cur>> /\ ppc' = "release"
      BY <1>7 DEF SetStart
    <2>3. StartOf(cur)'
      <3>1. joined[cur] \in {nextIndex - 1, nextIndex} /\ joined[cur] \in Nat
        BY <1>1, <1>7, <2>1 DEF SetStart
      <3>2. nextIndex - 1 \in {joined[cur] - 1, joined[cur]}
        BY <1>1, <3>1
      <3>3. Started(cur)'
        BY <1>7, <2>2 DEF SetStart
      <3> QED
        BY <2>1, <2>2, <3>2, <3>3
    <2>4. ASSUME NEW j \in bag, j # cur PROVE StartOf(j)'
      <3>1. j \in Slots /\ StartOf(j) /\ NextIndex'[j] = NextIndex[j]
        BY <1>1, <2>1, <2>4
      <3>2. (Started(j)' <=> Started(j)) /\ (Owed(j)' <=> Owed(j))
        BY <1>2, <1>7, <2>2, <2>4 DEF SetStart
      <3> QED
        BY <1>2, <2>2, <2>4, <3>1, <3>2
    <2> QED
      BY <1>2, <2>2, <2>3, <2>4
  <1>8. CASE ReleaseSemaphore
    BY <1>1, <1>2, <1>8 DEF ReleaseSemaphore, tableVars
  <1>9. CASE EndVisits
    BY <1>1, <1>2, <1>9 DEF EndVisits, tableVars
  <1>10. CASE EndNotify
    BY <1>1, <1>2, <1>10 DEF EndNotify, tableVars
  <1>11. ASSUME NEW i \in Slots, RemovalMissed(i) PROVE StartInv'
    BY <1>1, <1>2, <1>11 DEF RemovalMissed, tableVars
  <1> QED
    BY <1>3, <1>4, <1>5, <1>6, <1>7, <1>8, <1>9, <1>10, <1>11 DEF WalkStep

LEMMA StartRemoval ==
    ASSUME StartInv, CountInv', (\E i \in Slots : RemoveSubscription(i)) \/ Deactivate
    PROVE  StartInv'
  <1>1. ppc' \in {"remove", "deactivate"} /\ ppc \in {"remove", "deactivate"} /\ todo = {}
    BY DEF RemoveSubscription, Deactivate, StartInv, CountInv, SlotInv, RemovalsPending
  <1>2. UNCHANGED <<nextIndex, NextIndex, Notified, joined, todo>> /\ bag' \subseteq bag
    BY DEF RemoveSubscription, Deactivate, dispVars
  <1>3. \A i \in bag' : PendingRemove'[i] = PendingRemove[i]
    BY DEF RemoveSubscription, Deactivate, StartInv, CountInv, SlotInv, TypeInv, TypeOK
  <1>4. \A i \in bag' : StartOf(i)'
    BY <1>1, <1>2, <1>3 DEF StartInv, StartOf, Started, Owed, One
  <1> QED
    BY <1>4 DEF StartInv

LEMMA StartStep == StartInv /\ [Next]_vars => StartInv'
  <1> SUFFICES ASSUME StartInv, [Next]_vars PROVE StartInv'
    OBVIOUS
  <1>1. CountInv'
    BY CountStep DEF StartInv
  <1>2. CASE UNCHANGED vars \/ TerminateNoFreeId \/ TakeUnsubscribe \/ Answer
    <2>1. \A i \in bag : PendingRemove[i] => PendingRemove'[i]
      BY <1>2 DEF vars, tableVars, TerminateNoFreeId, TakeUnsubscribe, Answer, StartInv, CountInv,
                  SlotInv, TypeInv, TypeOK
    <2> QED
      BY <1>1, <1>2, <2>1, StartKept DEF vars, tableVars, dispVars, TerminateNoFreeId,
                                         TakeUnsubscribe, Answer
  <1>3. ASSUME NEW c \in Clients, Subscribe(c) \/ Read(c) \/ Leave(c)
        PROVE  StartInv'
    BY <1>1, <1>3, StartKept DEF tableVars, dispVars, Subscribe, Read, OpenSemaphore, Acquire,
                                 ReadMessage, Leave, Unsubscribe, CloseCursor
  <1>4. CASE Dispatcher
    BY <1>1, <1>2, <1>4, StartTake, StartPush DEF Dispatcher
  <1>5. CASE PublishMessage \/ NotifyAll
    BY <1>1, <1>5, StartWalk, StartRemoval DEF NotifyAll, WalkStep
  <1> QED
    BY <1>2, <1>3, <1>4, <1>5 DEF Next

THEOREM StartInvariant == Spec => []StartInv
  BY StartInit, StartStep, PTL DEF Spec

(* A subscriber starts with the first message published after its slot was  *)
(* pushed, or the one about to be notified then, whatever the interleaving  *)
(* of the dispatcher and the publish thread.                                *)
THEOREM SubscribersStartWhereTheyJoined == Spec => []StartsWhereItJoined
  <1>1. StartInv => StartsWhereItJoined
    BY DEF StartInv, StartOf, StartsWhereItJoined
  <1> QED
    BY <1>1, StartInvariant, PTL

-----------------------------------------------------------------------------
(* Tokens.                                                                 *)

(* How many messages a cursor that has read up to k has before it: -1 is    *)
(* the cursor that has read nothing.                                       *)
Ahead(k) == IF k = Word - 1 THEN nextIndex ELSE nextIndex - k - 1
Behind(k) == k < nextIndex \/ k = Word - 1

(* What is there to be read in slot i, with a cursor at k if one is open,   *)
(* and the tokens that stand for it, of which its client holds so many.     *)
Unread(i, open, k) == IF open THEN Ahead(k) ELSE nextIndex - NextIndex[i]
Tokens(i, held) == sem[i] + held + One(Owed(i))

(* The slot in the dispatcher's hand is not in the bag yet. *)
Pushed(i) == ~(dpc = "push" /\ handling.slot = i)

(* Never more tokens than messages, and no more than n fewer; none at all   *)
(* before the start is set.  n counts the times that a NotifyAll was cut    *)
(* short: never, while the server runs, so that both are equal.  A slot     *)
(* that lost its start to such a cut may hold the start of an earlier       *)
(* subscriber, and then nothing is said of what it lost.                    *)
Balance(i, open, k, held, n) ==
    IF Started(i)
    THEN /\ Tokens(i, held) <= Unread(i, open, k)
         /\ n = 0 \/ NextIndex[i] >= joined[i] => Unread(i, open, k) <= Tokens(i, held) + n
    ELSE /\ sem[i] = 0 /\ held = 0 /\ ~open
         /\ Pushed(i) => nextIndex - joined[i] <= One(Owed(i)) + n

CursorInv ==
    \A c \in Clients :
        /\ cpc[c] \in {"out", "subscribing", "granted", "misled"} => ~opened[c]
        /\ cpc[c] = "holding" => opened[c]
        /\ cpc[c] # "failed"
        /\ opened[c] => Behind(Index[c])

ReadersBalance(n) ==
    \A c \in Clients :
        Subscribed(c) => Balance(slot[c], opened[c], Index[c], One(cpc[c] = "holding"), n)

(* The slot in the dispatcher's hand, whose client does not know it yet. *)
HandedBalance(n) ==
    dpc # "idle" /\ handling.kind = "subscribe" => Balance(handling.slot, FALSE, 0, 0, n)

TokenInv(n) ==
    /\ CountInv
    /\ nextIndex <= MaxMessages
    /\ \A i \in Slots : NextIndex[i] <= nextIndex
    /\ CursorInv
    /\ ReadersBalance(n)
    /\ HandedBalance(n)

(* The arithmetic of ulong does not wrap but for the cursor at -1. *)
LEMMA MinusBehind ==
    ASSUME nextIndex \in Nat, nextIndex <= MaxMessages, NEW k \in Nat, Behind(k)
    PROVE  /\ Minus(nextIndex, k) - 1 = Ahead(k)
           /\ Ahead(k) \in Int
           /\ Ahead(k) > 0 => Behind(Succ(k)) /\ Ahead(Succ(k)) = Ahead(k) - 1
  <1>1. MaxMessages + 1 < Word /\ Word \in Nat /\ MaxMessages \in Nat
    BY TopicAssumption, WordAssumption
  <1>2. CASE k = Word - 1
    <2>1. nextIndex - k \in Int /\ -Word <= nextIndex - k /\ nextIndex - k < 0
      BY <1>1, <1>2
    <2>2. Minus(nextIndex, k) = nextIndex + 1
      BY <1>1, <1>2, <2>1 DEF Minus
    <2>3. Succ(k) = 0
      BY <1>1, <1>2 DEF Succ
    <2> QED
      BY <1>1, <1>2, <2>2, <2>3 DEF Ahead, Behind
  <1>3. CASE k < nextIndex
    <2>1. nextIndex - k \in 0..(Word - 1) /\ k + 1 \in 0..(Word - 1)
      BY <1>1, <1>3
    <2>2. Minus(nextIndex, k) = nextIndex - k
      BY <1>1, <2>1 DEF Minus
    <2>3. Succ(k) = k + 1
      BY <1>1, <2>1 DEF Succ
    <2> QED
      BY <1>1, <1>3, <2>2, <2>3 DEF Ahead, Behind
  <1> QED
    BY <1>2, <1>3 DEF Behind

LEMMA MinusOne ==
    ASSUME nextIndex <= MaxMessages, nextIndex \in Nat, NEW n \in Nat, n < nextIndex
    PROVE  Behind(Minus(n, 1)) /\ Ahead(Minus(n, 1)) = nextIndex - n
  <1>1. MaxMessages + 1 < Word /\ Word \in Nat /\ MaxMessages \in Nat
    BY TopicAssumption, WordAssumption
  <1>2. CASE n = 0
    <2>1. Minus(n, 1) = Word - 1
      BY <1>1, <1>2 DEF Minus
    <2> QED
      BY <1>2, <2>1 DEF Behind, Ahead
  <1>3. CASE n > 0
    <2>1. n - 1 \in 0..(Word - 1)
      BY <1>1, <1>3
    <2>2. Minus(n, 1) = n - 1
      BY <1>1, <2>1 DEF Minus
    <2> QED
      BY <1>1, <1>3, <2>2 DEF Behind, Ahead
  <1> QED
    BY <1>2, <1>3

LEMMA TokenInit == Init => TokenInv(0)
  <1> SUFFICES ASSUME Init PROVE TokenInv(0)
    OBVIOUS
  <1>1. CountInv /\ nextIndex <= MaxMessages
    BY CountInit, TopicAssumption DEF Init
  <1> QED
    BY <1>1 DEF Init, TokenInv, CursorInv, ReadersBalance, HandedBalance, Subscribed

(* A slot in use is in the bag and not marked, or about to be pushed. *)
InUse(i) == IF i \in bag THEN Pushed(i) /\ ~PendingRemove[i] ELSE Notified[i] = 0 /\ ~Pushed(i)

LEMMA OneType == ASSUME NEW b PROVE One(b) \in 0..1
  BY DEF One

(* The token in a client's hand is one that the semaphore had. *)
LEMMA TokenCount ==
    ASSUME NEW i, sem[i] \in Nat
    PROVE  /\ Tokens(i, 0) \in Nat /\ Tokens(i, 1) \in Nat
           /\ Tokens(i, 1) = Tokens(i, 0) + 1
           /\ sem[i] <= Tokens(i, 0)
  BY DEF Tokens, One

(* A slot that a step does not concern. *)
LEMMA BalanceKept ==
    ASSUME NEW i, NEW open, NEW k, NEW held, NEW n, Balance(i, open, k, held, n),
           nextIndex' = nextIndex, sem'[i] = sem[i], NextIndex'[i] = NextIndex[i],
           joined'[i] = joined[i], Started(i)' <=> Started(i), Owed(i)' <=> Owed(i),
           Pushed(i)' => Pushed(i)
    PROVE  Balance(i, open, k, held, n)'
  <1>1. Unread(i, open, k)' = Unread(i, open, k) /\ Tokens(i, held)' = Tokens(i, held)
    BY DEF Unread, Ahead, Tokens, One
  <1> QED
    BY <1>1 DEF Balance, One

(* The publish thread preserves the balance of every slot in use. *)
LEMMA BalanceWalk ==
    ASSUME NEW n \in Nat, CountInv, nextIndex <= MaxMessages, WalkStep, NEW i \in Slots, InUse(i),
           NEW open \in BOOLEAN, NEW k \in Nat, NEW held \in 0..1, open => Behind(k),
           Balance(i, open, k, held, n)
    PROVE  Balance(i, open, k, held, n)'
  <1>1. /\ nextIndex \in Nat /\ todo \subseteq bag /\ bag \subseteq Slots
        /\ NextIndex \in [Slots -> Nat] /\ Notified \in [Slots -> Nat] /\ sem \in [Slots -> Nat]
        /\ joined \in [Slots -> Nat]
        /\ ppc \in {"idle", "begin", "remove", "deactivate"} => todo = {}
        /\ ppc \in {"start", "release"} => cur \in todo /\ Notified[cur] > 0
        /\ nextIndex <= MaxMessages /\ MaxMessages + 1 < Word
        /\ Word \in Nat /\ MaxMessages \in Nat
    BY TopicAssumption, WordAssumption
       DEF CountInv, WalkInv, SlotInv, RemovalsPending, TypeInv, TypeOK
  <1>2. bag' = bag /\ (Pushed(i)' <=> Pushed(i))
    BY WalkKeepsSlots DEF Pushed
  <1>a. joined' = joined
    BY DEF WalkStep, PublishMessage, BeginNotify, SetAside, CountNotification, RemovalMissed,
           SetStart, ReleaseSemaphore, EndVisits, EndNotify
  <1>b. One(Owed(i)) \in 0..1
    BY OneType
  <1>3. CASE PublishMessage
    <2>1. /\ ppc = "idle" /\ ppc' = "begin" /\ nextIndex' = nextIndex + 1
          /\ UNCHANGED <<sem, Notified, NextIndex, todo, cur>>
      BY <1>3 DEF PublishMessage, tableVars
    <2>2. ~Owed(i) /\ (Owed(i)' <=> i \in bag) /\ (Started(i)' <=> Started(i))
      BY <1>1, <1>2, <2>1 DEF Owed, Started
    <2>3. CASE Started(i)
      <3>1. i \in bag
        BY <1>1, <2>3 DEF InUse, Started
      <3>2. Unread(i, open, k) \in Int /\ Unread(i, open, k)' = Unread(i, open, k) + 1
        BY <1>1, <2>1 DEF Unread, Ahead, Behind
      <3>3. Tokens(i, held) \in Int /\ Tokens(i, held)' = Tokens(i, held) + 1
        BY <1>1, <1>b, <2>1, <2>2, <3>1 DEF Tokens, One
      <3> HIDE DEF Unread, Tokens
      <3> QED
        BY <1>a, <2>1, <2>2, <2>3, <3>2, <3>3 DEF Balance
    <2>4. CASE ~Started(i)
      <3>1. sem[i] = 0 /\ held = 0 /\ ~open /\ (Pushed(i) => nextIndex - joined[i] <= n)
        BY <1>1, <2>2, <2>4 DEF Balance, One
      <3>2. Pushed(i) => Owed(i)'
        BY <2>2 DEF InUse
      <3> QED
        BY <1>1, <1>2, <1>a, <2>1, <2>2, <2>4, <3>1, <3>2 DEF Balance, One
    <2> QED
      BY <2>3, <2>4
  <1>4. CASE BeginNotify \/ EndVisits \/ EndNotify \/ \E j \in Slots : RemovalMissed(j)
    <2>1. /\ UNCHANGED <<nextIndex, sem, Notified, NextIndex, cur>>
          /\ ppc # "start" /\ ppc' # "start"
      BY <1>4 DEF BeginNotify, EndVisits, EndNotify, RemovalMissed, tableVars
    <2>2. Owed(i)' <=> Owed(i)
      BY <1>1, <1>2, <1>4 DEF Owed, BeginNotify, EndVisits, EndNotify, RemovalMissed
    <2> QED
      BY <1>2, <1>a, <2>1, <2>2, BalanceKept DEF Started
  <1>5. ASSUME NEW j \in Slots, SetAside(j) PROVE Balance(i, open, k, held, n)'
    <2>1. /\ UNCHANGED <<nextIndex, sem, Notified, NextIndex, cur, ppc>>
          /\ j \in bag /\ PendingRemove[j] /\ todo' = todo \ {j}
      BY <1>1, <1>5 DEF SetAside, tableVars
    <2>2. Owed(i)' <=> Owed(i)
      BY <1>1, <1>2, <2>1 DEF Owed, InUse
    <2> QED
      BY <1>2, <1>a, <2>1, <2>2, BalanceKept DEF Started
  <1>6. ASSUME NEW j \in Slots, CountNotification(j) PROVE Balance(i, open, k, held, n)'
    <2>1. /\ UNCHANGED <<nextIndex, sem, NextIndex, todo>>
          /\ ppc = "visit" /\ cur' = j
          /\ ppc' = IF Notified[j] = 0 THEN "start" ELSE "release"
          /\ Notified' = [Notified EXCEPT ![j] = @ + 1]
      BY <1>6 DEF CountNotification
    <2>2. Started(i)' <=> Started(i)
      BY <1>1, <2>1 DEF Started
    <2>3. Owed(i)' <=> Owed(i)
      BY <1>2, <2>1 DEF Owed
    <2> QED
      BY <1>2, <1>a, <2>1, <2>2, <2>3, BalanceKept
  <1>7. CASE SetStart
    <2>1. /\ UNCHANGED <<nextIndex, sem, Notified, todo, cur>>
          /\ ppc = "start" /\ ppc' = "release"
          /\ NextIndex' = [NextIndex EXCEPT ![cur] = nextIndex - 1]
      BY <1>7 DEF SetStart
    <2>2. Owed(i)' <=> Owed(i)
      BY <1>2, <2>1 DEF Owed
    <2>3. CASE i = cur
      <3>1. ~Started(i) /\ Started(i)' /\ Owed(i)
        BY <1>1, <2>1, <2>3 DEF Started, Owed
      <3>2. sem[i] = 0 /\ held = 0 /\ ~open
        BY <3>1 DEF Balance
      <3>3. NextIndex'[i] = nextIndex - 1 /\ nextIndex - (nextIndex - 1) = 1
        BY <1>1, <2>1, <2>3
      <3>4. Tokens(i, held)' = 1 /\ Unread(i, open, k)' = 1
        BY <2>1, <2>2, <3>1, <3>2, <3>3 DEF Tokens, Unread, One
      <3> QED
        BY <3>1, <3>4 DEF Balance
    <2>4. CASE i # cur
      <3>1. NextIndex'[i] = NextIndex[i] /\ (Started(i)' <=> Started(i))
        BY <1>1, <2>1, <2>4 DEF Started
      <3> QED
        BY <1>2, <1>a, <2>1, <2>2, <3>1, BalanceKept
    <2> QED
      BY <2>3, <2>4
  <1>8. CASE ReleaseSemaphore
    <2>1. /\ UNCHANGED <<nextIndex, NextIndex, Notified, cur>>
          /\ ppc = "release" /\ ppc' = "visit"
          /\ sem' = [sem EXCEPT ![cur] = @ + 1] /\ todo' = todo \ {cur}
      BY <1>8 DEF ReleaseSemaphore, tableVars
    <2>2. Started(i)' <=> Started(i)
      BY <2>1 DEF Started
    <2>3. CASE i = cur
      <3>1. Started(i) /\ Owed(i) /\ ~Owed(i)' /\ sem'[i] = sem[i] + 1
        BY <1>1, <1>2, <2>1, <2>3 DEF Started, Owed
      <3>2. Tokens(i, held)' = Tokens(i, held) /\ Unread(i, open, k)' = Unread(i, open, k)
        BY <1>1, <1>b, <2>1, <3>1 DEF Tokens, Unread, Ahead, One
      <3> HIDE DEF Unread, Tokens
      <3> QED
        BY <1>a, <2>1, <2>2, <3>1, <3>2 DEF Balance
    <2>4. CASE i # cur
      <3>1. (Owed(i)' <=> Owed(i)) /\ sem'[i] = sem[i]
        BY <1>1, <1>2, <2>1, <2>4 DEF Owed
      <3> QED
        BY <1>2, <1>a, <2>1, <2>2, <3>1, BalanceKept
    <2> QED
      BY <2>3, <2>4
  <1> QED
    BY <1>3, <1>4, <1>5, <1>6, <1>7, <1>8 DEF WalkStep

LEMMA SubscriberInUse ==
    ASSUME NEW n \in Nat, TokenInv(n), NEW c \in Clients, Subscribed(c)
    PROVE  /\ slot[c] \in Slots /\ opened[c] \in BOOLEAN /\ Index[c] \in Nat
           /\ Keeps(c, slot[c]) /\ Pushed(slot[c])
           /\ Serving => slot[c] \in bag /\ InUse(slot[c])
           /\ Balance(slot[c], opened[c], Index[c], One(cpc[c] = "holding"), n)
           /\ opened[c] => Behind(Index[c])
  <1>1. SlotInv
    BY DEF TokenInv, CountInv
  <1>2. slot[c] \in Slots /\ opened[c] \in BOOLEAN /\ Index[c] \in Nat
    BY <1>1 DEF SlotInv, TypeInv, TypeOK
  <1>3. Keeps(c, slot[c]) /\ (Serving => slot[c] \in bag)
    BY <1>1 DEF SlotInv, SubscribersHold
  <1>4. Pushed(slot[c])
    <2>1. dpc = "push" => Pid[handling.slot] = handling.client /\ ~Subscribed(handling.client)
      BY <1>1, PushesSubscription DEF SlotInv, HandlingMatches, Held, Keeps, Subscribed
    <2> QED
      BY <1>3, <2>1 DEF Pushed, Keeps
  <1>5. Serving => InUse(slot[c])
    BY <1>3, <1>4 DEF InUse, Keeps
  <1>6. Balance(slot[c], opened[c], Index[c], One(cpc[c] = "holding"), n)
    BY DEF TokenInv, ReadersBalance
  <1>7. opened[c] => Behind(Index[c])
    BY DEF TokenInv, CursorInv
  <1> QED
    BY <1>2, <1>3, <1>4, <1>5, <1>6, <1>7

LEMMA HandedInUse ==
    ASSUME NEW n \in Nat, TokenInv(n), dpc # "idle", handling.kind = "subscribe"
    PROVE  /\ handling.slot \in Slots /\ handling.client \in Clients
           /\ Held(handling.client, handling.slot) /\ InUse(handling.slot)
           /\ cpc[handling.client] \in {"subscribing", "dead"}
           /\ Balance(handling.slot, FALSE, 0, 0, n)
  <1>1. SlotInv
    BY DEF TokenInv, CountInv
  <1>2. handling \in Request /\ Held(handling.client, handling.slot)
    BY <1>1, HandlingHeld
  <1>4. /\ dpc = "push" <=> handling.slot \notin bag
        /\ cpc[handling.client] \in {"subscribing", "dead"}
    BY <1>1 DEF SlotInv, HandlingMatches
  <1>5. dpc = "push" => Notified[handling.slot] = 0
    BY DEF TokenInv, CountInv, WalkInv
  <1>6. InUse(handling.slot)
    BY <1>2, <1>4, <1>5 DEF InUse, Held, Keeps, Pushed
  <1>7. handling.slot \in Slots /\ handling.client \in Clients
    BY <1>2 DEF Request
  <1>8. Balance(handling.slot, FALSE, 0, 0, n)
    BY DEF TokenInv, HandedBalance
  <1> QED
    BY <1>2, <1>4, <1>6, <1>7, <1>8

LEMMA TokenWalk ==
    ASSUME NEW n \in Nat, TokenInv(n), CountInv', WalkStep
    PROVE  TokenInv(n)'
  <1>1. /\ UNCHANGED <<cpc, slot, opened, Index, dpc, handling>>
        /\ nextIndex' \in {nextIndex, nextIndex + 1}
        /\ nextIndex' <= MaxMessages
        /\ nextIndex \in Nat
    <2>1. nextIndex \in Nat /\ nextIndex <= MaxMessages /\ MaxMessages \in Nat
      BY TopicAssumption DEF TokenInv, CountInv, SlotInv, TypeInv, TypeOK
    <2> QED
      BY <2>1 DEF WalkStep, PublishMessage, BeginNotify, SetAside, CountNotification, RemovalMissed,
                  SetStart, ReleaseSemaphore, EndVisits, EndNotify, tableVars, dispVars, clientVars
  <1>2. CursorInv'
    <2>1. \A c \in Clients : Index[c] \in Nat
      BY DEF TokenInv, CountInv, SlotInv, TypeInv, TypeOK
    <2>2. \A c \in Clients : Behind(Index[c]) => Behind(Index[c])'
      BY <1>1, <2>1 DEF Behind
    <2> QED
      BY <1>1, <2>2 DEF TokenInv, CursorInv
  <1>3. \A i \in Slots : NextIndex'[i] <= nextIndex'
    <2>1. /\ NextIndex \in [Slots -> Nat]
          /\ NextIndex' = NextIndex \/ NextIndex' = [NextIndex EXCEPT ![cur] = nextIndex - 1]
      BY DEF WalkStep, PublishMessage, BeginNotify, SetAside, CountNotification, RemovalMissed,
             SetStart, ReleaseSemaphore, EndVisits, EndNotify, tableVars,
             TokenInv, CountInv, SlotInv, TypeInv, TypeOK
    <2>2. \A i \in Slots : NextIndex[i] \in Nat /\ NextIndex[i] <= nextIndex
      BY <2>1 DEF TokenInv
    <2> QED
      BY <1>1, <2>1, <2>2
  <1>4. up /\ Serving
    BY DEF WalkStep, PublishMessage, BeginNotify, SetAside, CountNotification, RemovalMissed,
           SetStart, ReleaseSemaphore, EndVisits, EndNotify, Serving
  <1>5. ReadersBalance(n)'
    <2> SUFFICES ASSUME NEW c \in Clients, Subscribed(c)
                 PROVE  Balance(slot[c], opened[c], Index[c], One(cpc[c] = "holding"), n)'
      BY <1>1 DEF ReadersBalance, Subscribed
    <2> DEFINE h == One(cpc[c] = "holding")
    <2>1. \A i \in Slots, open \in BOOLEAN, k \in Nat, held \in 0..1 :
              InUse(i) /\ (open => Behind(k)) /\ Balance(i, open, k, held, n)
                  => Balance(i, open, k, held, n)'
      BY BalanceWalk DEF TokenInv
    <2>3. PICK i, open, k, held : i = slot[c] /\ open = opened[c] /\ k = Index[c] /\ held = h
      OBVIOUS
    <2>4. /\ i \in Slots /\ open \in BOOLEAN /\ k \in Nat /\ held \in 0..1
          /\ InUse(i) /\ (open => Behind(k)) /\ Balance(i, open, k, held, n)
      BY <1>4, <2>3, SubscriberInUse, OneType
    <2>5. Balance(i, open, k, held, n)'
      BY <2>1, <2>4
    <2>6. i = slot'[c] /\ open = opened'[c] /\ k = Index'[c] /\ held = One((cpc'[c] = "holding"))
      BY <1>1, <2>3
    <2> QED
      BY <2>5, <2>6
  <1>6. HandedBalance(n)'
    <2> SUFFICES ASSUME dpc # "idle", handling.kind = "subscribe"
                 PROVE  Balance(handling.slot, FALSE, 0, 0, n)'
      BY <1>1 DEF HandedBalance
    <2>1. PICK i : i = handling.slot
      OBVIOUS
    <2>2. i \in Slots /\ InUse(i) /\ Balance(i, FALSE, 0, 0, n)
      BY <2>1, HandedInUse
    <2>3. FALSE \in BOOLEAN /\ 0 \in Nat /\ 0 \in 0..1
      OBVIOUS
    <2>4. Balance(i, FALSE, 0, 0, n)'
      BY <2>2, <2>3, BalanceWalk DEF TokenInv
    <2> QED
      BY <1>1, <2>1, <2>4
  <1> QED
    BY <1>1, <1>2, <1>3, <1>5, <1>6 DEF TokenInv

(* A subscribed client that no step of another thread disturbs. *)
LEMMA ReaderKept ==
    ASSUME NEW n \in Nat, TokenInv(n), NEW c \in Clients, Subscribed(c),
           nextIndex' = nextIndex, cpc'[c] = cpc[c], slot'[c] = slot[c],
           opened'[c] = opened[c], Index'[c] = Index[c],
           sem'[slot[c]] = sem[slot[c]], NextIndex'[slot[c]] = NextIndex[slot[c]],
           joined'[slot[c]] = joined[slot[c]],
           Started(slot[c])' <=> Started(slot[c]), Owed(slot[c])' <=> Owed(slot[c])
    PROVE  Balance(slot[c], opened[c], Index[c], One(cpc[c] = "holding"), n)'
  <1>1. PICK i, open, k, held :
            i = slot[c] /\ open = opened[c] /\ k = Index[c] /\ held = One(cpc[c] = "holding")
    OBVIOUS
  <1>2. /\ Balance(i, open, k, held, n) /\ Pushed(i)
        /\ sem'[i] = sem[i] /\ NextIndex'[i] = NextIndex[i] /\ joined'[i] = joined[i]
        /\ (Started(i)' <=> Started(i)) /\ (Owed(i)' <=> Owed(i))
    BY <1>1, SubscriberInUse
  <1>3. Balance(i, open, k, held, n)'
    BY <1>2, BalanceKept
  <1>4. i = slot'[c] /\ open = opened'[c] /\ k = Index'[c] /\ held = One((cpc'[c] = "holding"))
    BY <1>1
  <1> QED
    BY <1>3, <1>4

LEMMA HandedKept ==
    ASSUME NEW n \in Nat, TokenInv(n), dpc # "idle", handling.kind = "subscribe",
           nextIndex' = nextIndex, handling' = handling, dpc' = dpc,
           sem'[handling.slot] = sem[handling.slot],
           NextIndex'[handling.slot] = NextIndex[handling.slot],
           joined'[handling.slot] = joined[handling.slot],
           Started(handling.slot)' <=> Started(handling.slot),
           Owed(handling.slot)' <=> Owed(handling.slot)
    PROVE  Balance(handling.slot, FALSE, 0, 0, n)'
  <1>1. PICK i : i = handling.slot
    OBVIOUS
  <1>2. /\ Balance(i, FALSE, 0, 0, n) /\ (Pushed(i)' <=> Pushed(i))
        /\ sem'[i] = sem[i] /\ NextIndex'[i] = NextIndex[i] /\ joined'[i] = joined[i]
        /\ (Started(i)' <=> Started(i)) /\ (Owed(i)' <=> Owed(i))
    BY <1>1, HandedInUse DEF Pushed
  <1>3. Balance(i, FALSE, 0, 0, n)'
    BY <1>2, BalanceKept
  <1> QED
    BY <1>1, <1>3

LEMMA CursorsKept ==
    ASSUME NEW n \in Nat, TokenInv(n), UNCHANGED <<nextIndex, NextIndex, cpc, opened, Index>>
    PROVE  CursorInv' /\ nextIndex' <= MaxMessages /\ \A i \in Slots : NextIndex'[i] <= nextIndex'
  BY DEF TokenInv, CursorInv, Behind

LEMMA TokenTakeSubscribe ==
    ASSUME NEW n \in Nat, TokenInv(n), CountInv', NEW i \in Slots, TakeSubscribe(i)
    PROVE  TokenInv(n)'
  <1>1. /\ i \notin bag /\ todo \subseteq bag /\ bag \subseteq Slots /\ cur \in Slots
        /\ Serving
    BY DEF TakeSubscribe, TokenInv, CountInv, SlotInv, RemovalsPending, TypeInv, TypeOK, Serving
  <1>2. /\ UNCHANGED <<nextIndex, NextIndex, joined, bag, ppc, todo, cur, cpc, slot, opened,
                       Index>>
        /\ Notified'[i] = 0 /\ sem'[i] = 0 /\ dpc' = "push"
        /\ \A j \in Slots : j # i => Notified'[j] = Notified[j] /\ sem'[j] = sem[j]
    BY DEF TakeSubscribe, TokenInv, CountInv, SlotInv, TypeInv, TypeOK, pubVars, clientVars
  <1>3. handling'.slot = i
    BY CountTake DEF TokenInv, CountInv
  <1>4. ReadersBalance(n)'
    <2> SUFFICES ASSUME NEW c \in Clients, Subscribed(c)
                 PROVE  Balance(slot[c], opened[c], Index[c], One(cpc[c] = "holding"), n)'
      BY <1>2 DEF ReadersBalance, Subscribed
    <2>1. slot[c] \in Slots /\ slot[c] # i
      BY <1>1, SubscriberInUse
    <2>2. (Started(slot[c])' <=> Started(slot[c])) /\ (Owed(slot[c])' <=> Owed(slot[c]))
      BY <1>2, <2>1 DEF Started, Owed
    <2> QED
      BY <1>2, <2>1, <2>2, ReaderKept
  <1>5. HandedBalance(n)'
    <2>1. ~Started(handling.slot)' /\ sem'[handling'.slot] = 0 /\ ~Pushed(handling.slot)'
      BY <1>2, <1>3 DEF Started, Pushed
    <2>2. Balance(handling.slot, FALSE, 0, 0, n)'
      BY <2>1 DEF Balance
    <2> QED
      BY <2>2 DEF HandedBalance
  <1> QED
    BY <1>2, <1>4, <1>5, CursorsKept DEF TokenInv

LEMMA TokenPush ==
    ASSUME NEW n \in Nat, TokenInv(n), CountInv', PushSubscription
    PROVE  TokenInv(n)'
  <1>1. /\ dpc = "push" /\ handling.kind = "subscribe"
        /\ UNCHANGED <<nextIndex, NextIndex, Notified, sem, handling, ppc, todo, cur, cpc, slot,
                       opened, Index>>
        /\ bag' = bag \union {handling.slot}
        /\ joined' = [joined EXCEPT ![handling.slot] = nextIndex]
        /\ joined \in [Slots -> Nat] /\ nextIndex \in Nat
    BY PushesSubscription
       DEF PushSubscription, TokenInv, CountInv, SlotInv, TypeInv, TypeOK, tableVars, pubVars,
           clientVars
  <1>2. ReadersBalance(n)'
    <2> SUFFICES ASSUME NEW c \in Clients, Subscribed(c)
                 PROVE  Balance(slot[c], opened[c], Index[c], One(cpc[c] = "holding"), n)'
      BY <1>1 DEF ReadersBalance, Subscribed
    <2>0. slot[c] \in Slots /\ slot[c] # handling.slot
      BY <1>1, SubscriberInUse DEF Pushed
    <2>1. (Started(slot[c])' <=> Started(slot[c])) /\ (Owed(slot[c])' <=> Owed(slot[c]))
      BY <1>1, <2>0 DEF Started, Owed
    <2>2. joined'[slot[c]] = joined[slot[c]]
      BY <1>1, <2>0
    <2> QED
      BY <1>1, <2>1, <2>2, ReaderKept
  <1>3. HandedBalance(n)'
    <2>1. Notified[handling.slot] = 0 /\ handling.slot \in Slots
      BY <1>1, HandedInUse DEF TokenInv, CountInv, WalkInv
    <2>2. ~Started(handling.slot) /\ ~Started(handling.slot)' /\ joined'[handling.slot] = nextIndex
      BY <1>1, <2>1 DEF Started
    <2>3. sem[handling.slot] = 0
      BY <1>1, <2>2, HandedInUse DEF Balance
    <2> QED
      BY <1>1, <2>2, <2>3 DEF HandedBalance, Balance, One
  <1> QED
    BY <1>1, <1>2, <1>3, CursorsKept DEF TokenInv

LEMMA TokenAnswer ==
    ASSUME NEW n \in Nat, TokenInv(n), CountInv', Answer
    PROVE  TokenInv(n)'
  <1> DEFINE h == handling.client
  <1>1. /\ UNCHANGED <<nextIndex, NextIndex, Notified, joined, sem, bag, ppc, todo, cur>>
        /\ dpc = "answer" /\ dpc' = "idle"
    BY DEF Answer, tableVars, pubVars
  <1>2. /\ handling \in Request /\ h \in Clients
        /\ handling.kind \in {"subscribe", "unsubscribe"}
        /\ handling.kind = "subscribe" => cpc[h] \in {"subscribing", "dead"}
        /\ handling.kind = "unsubscribe" => cpc[h] \in {"leaving", "dead"}
    BY <1>1 DEF TokenInv, CountInv, SlotInv, HandlingMatches, Request
  <1>3. \A c \in Clients : c # h => /\ cpc'[c] = cpc[c] /\ slot'[c] = slot[c]
                                   /\ opened'[c] = opened[c] /\ Index'[c] = Index[c]
    BY DEF Answer, clientVars, TokenInv, CountInv, SlotInv, TypeInv, TypeOK
  <1>4. \/ /\ handling.kind = "subscribe" /\ cpc'[h] = "granted"
           /\ slot'[h] = handling.slot /\ ~opened'[h]
        \/ cpc'[h] \in {"closing", "dead"} /\ opened'[h] = opened[h] /\ Index'[h] = Index[h]
    BY <1>2 DEF Answer, clientVars, TokenInv, CountInv, SlotInv, TypeInv, TypeOK, CursorInv
  <1>5. CursorInv'
    BY <1>1, <1>2, <1>3, <1>4 DEF TokenInv, CursorInv, Behind
  <1>6. ReadersBalance(n)'
    <2> SUFFICES ASSUME NEW c \in Clients, Subscribed(c)'
                 PROVE  Balance(slot[c], opened[c], Index[c], One(cpc[c] = "holding"), n)'
      BY DEF ReadersBalance
    <2>1. CASE c # h
      <3>1. Subscribed(c)
        BY <1>3, <2>1 DEF Subscribed
      <3>2. (Started(slot[c])' <=> Started(slot[c])) /\ (Owed(slot[c])' <=> Owed(slot[c]))
        BY <1>1, <1>3, <2>1 DEF Started, Owed
      <3> QED
        BY <1>1, <1>3, <2>1, <3>1, <3>2, ReaderKept
    <2>2. CASE c = h
      <3>1. /\ handling.kind = "subscribe" /\ cpc'[c] = "granted"
            /\ slot'[c] = handling.slot /\ ~opened'[c]
        BY <1>4, <2>2 DEF Subscribed
      <3>2. Balance(handling.slot, FALSE, 0, 0, n) /\ Pushed(handling.slot)
        BY <1>1, <3>1, HandedInUse DEF Pushed
      <3> QED
        BY <1>1, <3>1, <3>2 DEF Balance, Tokens, Unread, Started, Owed, One
    <2> QED
      BY <2>1, <2>2
  <1>7. HandedBalance(n)'
    BY <1>1 DEF HandedBalance
  <1> QED
    BY <1>1, <1>5, <1>6, <1>7 DEF TokenInv

(* Steps that change neither tokens, messages nor the bag. *)
LEMMA TokenKept ==
    ASSUME NEW n \in Nat, TokenInv(n), CountInv',
           \/ UNCHANGED <<dpc, handling>>
           \/ dpc = "idle" /\ handling'.kind = "unsubscribe",
           UNCHANGED <<nextIndex, NextIndex, Notified, joined, sem, bag, ppc, todo, cur, cpc,
                       slot, opened, Index>>
    PROVE  TokenInv(n)'
  <1>1. ReadersBalance(n)'
    <2> SUFFICES ASSUME NEW c \in Clients, Subscribed(c)
                 PROVE  Balance(slot[c], opened[c], Index[c], One(cpc[c] = "holding"), n)'
      BY DEF ReadersBalance, Subscribed
    <2>1. (Started(slot[c])' <=> Started(slot[c])) /\ (Owed(slot[c])' <=> Owed(slot[c]))
      BY DEF Started, Owed
    <2> QED
      BY <2>1, ReaderKept
  <1>2. HandedBalance(n)'
    <2> SUFFICES ASSUME dpc # "idle", handling.kind = "subscribe", UNCHANGED <<dpc, handling>>
                 PROVE  Balance(handling.slot, FALSE, 0, 0, n)'
      BY DEF HandedBalance
    <2>1. /\ Started(handling.slot)' <=> Started(handling.slot)
          /\ Owed(handling.slot)' <=> Owed(handling.slot)
      BY DEF Started, Owed
    <2> QED
      BY <2>1, HandedKept
  <1> QED
    BY <1>1, <1>2, CursorsKept DEF TokenInv

LEMMA TokenRemoval ==
    ASSUME NEW n \in Nat, TokenInv(n), CountInv',
           (\E i \in Slots : RemoveSubscription(i)) \/ Deactivate
    PROVE  TokenInv(n)'
  <1>1. /\ UNCHANGED <<nextIndex, NextIndex, Notified, joined, sem, todo, cpc, slot, opened, Index,
                       dpc, handling>>
        /\ ppc \in {"remove", "deactivate"} /\ ppc' \in {"remove", "deactivate"}
        /\ todo = {}
    BY DEF RemoveSubscription, Deactivate, TokenInv, CountInv, SlotInv, RemovalsPending, dispVars,
           clientVars
  <1>3. ReadersBalance(n)'
    <2> SUFFICES ASSUME NEW c \in Clients, Subscribed(c)
                 PROVE  Balance(slot[c], opened[c], Index[c], One(cpc[c] = "holding"), n)'
      BY <1>1 DEF ReadersBalance, Subscribed
    <2>1. (Started(slot[c])' <=> Started(slot[c])) /\ (Owed(slot[c])' <=> Owed(slot[c]))
      BY <1>1 DEF Started, Owed
    <2> QED
      BY <1>1, <2>1, ReaderKept
  <1>4. HandedBalance(n)'
    <2> SUFFICES ASSUME dpc # "idle", handling.kind = "subscribe"
                 PROVE  Balance(handling.slot, FALSE, 0, 0, n)'
      BY <1>1 DEF HandedBalance
    <2>1. /\ Started(handling.slot)' <=> Started(handling.slot)
          /\ Owed(handling.slot)' <=> Owed(handling.slot)
      BY <1>1 DEF Started, Owed
    <2> QED
      BY <1>1, <2>1, HandedKept
  <1> QED
    BY <1>1, <1>3, <1>4, CursorsKept DEF TokenInv

LEMMA TokenAcquire ==
    ASSUME NEW n \in Nat, TokenInv(n), CountInv', NEW c \in Clients, Acquire(c)
    PROVE  TokenInv(n)'
  <1> DEFINE i == slot[c]
  <1>1. /\ i \in Slots /\ Keeps(c, i) /\ Pushed(i) /\ cpc[c] = "ready" /\ sem[i] > 0
        /\ Balance(i, opened[c], Index[c], 0, n)
        /\ opened[c] => Behind(Index[c])
    <2>1. cpc[c] = "ready" /\ sem[i] > 0 /\ Subscribed(c) /\ One(cpc[c] = "holding") = 0
      BY DEF Acquire, Subscribed, One
    <2> QED
      BY <2>1, SubscriberInUse
  <1>2. /\ UNCHANGED <<nextIndex, NextIndex, Notified, joined, bag, ppc, todo, cur, slot, dpc,
                       handling>>
        /\ sem' = [sem EXCEPT ![i] = @ - 1]
        /\ cpc' = [cpc EXCEPT ![c] = "holding"]
        /\ opened' = [opened EXCEPT ![c] = TRUE]
        /\ Index' = [Index EXCEPT ![c] = IF opened[c] THEN @ ELSE Minus(NextIndex[i], 1)]
    BY DEF Acquire, tableVars, dispVars, pubVars
  <1>3. /\ nextIndex \in Nat /\ sem \in [Slots -> Nat] /\ NextIndex \in [Slots -> Nat]
        /\ nextIndex <= MaxMessages /\ \A j \in Slots : NextIndex[j] <= nextIndex
        /\ Index \in [Clients -> Nat] /\ opened \in [Clients -> BOOLEAN]
        /\ joined \in [Slots -> Nat]
        /\ cpc \in [Clients -> ClientStates]
    BY DEF TokenInv, CountInv, SlotInv, TypeInv, TypeOK
  <1>4. \A d \in Clients : d # c => /\ cpc'[d] = cpc[d] /\ opened'[d] = opened[d]
                                   /\ Index'[d] = Index[d]
    BY <1>2, <1>3
  <1>5. /\ sem'[i] = sem[i] - 1 /\ cpc'[c] = "holding" /\ opened'[c]
        /\ Index'[c] = IF opened[c] THEN Index[c] ELSE Minus(NextIndex[i], 1)
        /\ \A j \in Slots : j # i => sem'[j] = sem[j]
    BY <1>1, <1>2, <1>3
  <1>6. /\ Started(i) /\ Tokens(i, 0) > 0
        /\ Tokens(i, 0) <= Unread(i, opened[c], Index[c])
        /\ n = 0 \/ NextIndex[i] >= joined[i] =>
               Unread(i, opened[c], Index[c]) <= Tokens(i, 0) + n
    <2>1. sem[i] \in Nat /\ Tokens(i, 0) \in Nat /\ sem[i] <= Tokens(i, 0)
      BY <1>1, <1>3, TokenCount
    <2> HIDE DEF i
    <2> QED
      BY <1>1, <2>1 DEF Balance
  <1>7. Behind(Index'[c]) /\ Ahead(Index'[c]) = Unread(i, opened[c], Index[c])
    <2>1. CASE opened[c]
      BY <1>1, <1>5, <2>1 DEF Unread
    <2>2. CASE ~opened[c]
      <3>1. Unread(i, opened[c], Index[c]) = nextIndex - NextIndex[i] /\ NextIndex[i] \in Nat
        BY <1>1, <1>3, <2>2 DEF Unread
      <3>2. Tokens(i, 0) \in Nat
        BY <1>1, <1>3, TokenCount
      <3>3. NextIndex[i] < nextIndex
        BY <1>3, <1>6, <3>1, <3>2
      <3> QED
        BY <1>3, <1>5, <2>2, <3>1, <3>3, MinusOne
    <2> QED
      BY <2>1, <2>2
  <1>8. /\ (Behind(Index[c])' <=> Behind(Index'[c])) /\ Ahead(Index[c])' = Ahead(Index'[c])
        /\ Unread(slot[c], opened[c], Index[c])' = Ahead(Index'[c])
    BY <1>2, <1>5 DEF Behind, Ahead, Unread
  <1>9. CursorInv'
    <2>1. \A d \in Clients : d # c => (Behind(Index[d])' <=> Behind(Index[d]))
      BY <1>2, <1>4 DEF Behind
    <2> QED
      BY <1>4, <1>5, <1>7, <1>8, <2>1 DEF TokenInv, CursorInv
  <1>10. ReadersBalance(n)'
    <2> SUFFICES ASSUME NEW d \in Clients, Subscribed(d)'
                 PROVE  Balance(slot[d], opened[d], Index[d], One(cpc[d] = "holding"), n)'
      BY DEF ReadersBalance
    <2>1. CASE d # c
      <3>1. Subscribed(d)
        BY <1>4, <2>1 DEF Subscribed
      <3>2. slot[d] \in Slots /\ slot[d] # i
        BY <1>1, <2>1, <3>1, SubscriberInUse DEF Keeps
      <3>3. (Started(slot[d])' <=> Started(slot[d])) /\ (Owed(slot[d])' <=> Owed(slot[d]))
        BY <1>2 DEF Started, Owed
      <3> QED
        BY <1>2, <1>4, <1>5, <2>1, <3>1, <3>2, <3>3, ReaderKept
    <2>2. CASE d = c
      <3>1. (Started(slot[c])' <=> Started(i)) /\ (Owed(slot[c])' <=> Owed(i))
        BY <1>2 DEF Started, Owed
      <3>2. Tokens(slot[c], One(cpc[c] = "holding"))' = Tokens(i, 0)
        <4>1. sem[i] \in Nat /\ sem'[slot'[c]] = sem[i] - 1
          BY <1>1, <1>2, <1>3, <1>5
        <4> QED
          BY <1>5, <3>1, <4>1 DEF Tokens, One
      <3> HIDE DEF Tokens, Unread
      <3> QED
        BY <1>2, <1>6, <1>7, <1>8, <2>2, <3>1, <3>2 DEF Balance
    <2> QED
      BY <2>1, <2>2
  <1>11. HandedBalance(n)'
    <2> SUFFICES ASSUME dpc # "idle", handling.kind = "subscribe"
                 PROVE  Balance(handling.slot, FALSE, 0, 0, n)'
      BY <1>2 DEF HandedBalance
    <2>1. /\ handling.slot \in Slots /\ Held(handling.client, handling.slot)
          /\ cpc[handling.client] \in {"subscribing", "dead"}
      BY HandedInUse
    <2>2. handling.slot # i
      BY <1>1, <2>1 DEF Held, Keeps
    <2>3. /\ Started(handling.slot)' <=> Started(handling.slot)
          /\ Owed(handling.slot)' <=> Owed(handling.slot)
      BY <1>2 DEF Started, Owed
    <2> QED
      BY <1>2, <1>5, <2>1, <2>2, <2>3, HandedKept
  <1> QED
    BY <1>2, <1>3, <1>9, <1>10, <1>11 DEF TokenInv

(* A client that takes a step of its own which moves neither its cursor nor *)
(* a token: the others do not notice.                                      *)
LEMMA OthersKept ==
    ASSUME NEW n \in Nat, TokenInv(n), NEW c \in Clients,
           UNCHANGED <<nextIndex, NextIndex, Notified, joined, sem, bag, ppc, todo, cur, dpc,
                       handling>>,
           \A d \in Clients : d # c => /\ cpc'[d] = cpc[d] /\ slot'[d] = slot[d]
                                       /\ opened'[d] = opened[d] /\ Index'[d] = Index[d]
    PROVE  /\ HandedBalance(n)'
           /\ \A d \in Clients : d # c /\ Subscribed(d)' =>
                   Balance(slot[d], opened[d], Index[d], One(cpc[d] = "holding"), n)'
  <1>1. HandedBalance(n)'
    <2> SUFFICES ASSUME dpc # "idle", handling.kind = "subscribe"
                 PROVE  Balance(handling.slot, FALSE, 0, 0, n)'
      BY DEF HandedBalance
    <2>1. /\ Started(handling.slot)' <=> Started(handling.slot)
          /\ Owed(handling.slot)' <=> Owed(handling.slot)
      BY DEF Started, Owed
    <2> QED
      BY <2>1, HandedKept
  <1>2. ASSUME NEW d \in Clients, d # c, Subscribed(d)'
        PROVE  Balance(slot[d], opened[d], Index[d], One(cpc[d] = "holding"), n)'
    <2>1. Subscribed(d)
      BY <1>2 DEF Subscribed
    <2>2. (Started(slot[d])' <=> Started(slot[d])) /\ (Owed(slot[d])' <=> Owed(slot[d]))
      BY <1>2 DEF Started, Owed
    <2> QED
      BY <1>2, <2>1, <2>2, ReaderKept
  <1> QED
    BY <1>1, <1>2

LEMMA TokenRead ==
    ASSUME NEW n \in Nat, TokenInv(n), CountInv', NEW c \in Clients, ReadMessage(c)
    PROVE  TokenInv(n)'
  <1> DEFINE k == Index[c]
             i == slot[c]
             found == Minus(nextIndex, Index[c]) > 1
  <1>1. cpc[c] = "holding" /\ opened[c] = TRUE
    BY DEF ReadMessage, TokenInv, CursorInv, CountInv, SlotInv, TypeInv, TypeOK
  <1>2. /\ nextIndex \in Nat /\ nextIndex <= MaxMessages /\ k \in Nat /\ Behind(k)
        /\ i \in Slots /\ sem[i] \in Nat /\ Ahead(k) \in Int
        /\ Balance(i, TRUE, k, 1, n)
    <2>0. Subscribed(c) /\ One(cpc[c] = "holding") = 1
      BY <1>1 DEF Subscribed, One
    <2>1. Balance(i, TRUE, k, 1, n) /\ Behind(k) /\ i \in Slots
      BY <1>1, <2>0, SubscriberInUse
    <2>2. /\ nextIndex \in Nat /\ nextIndex <= MaxMessages /\ k \in Nat /\ sem[i] \in Nat
      BY <2>1 DEF TokenInv, CountInv, SlotInv, TypeInv, TypeOK
    <2> QED
      BY <2>1, <2>2, MinusBehind
  <1>3. /\ Started(i) /\ Tokens(i, 1) \in Nat /\ Tokens(i, 1) > 0
        /\ Tokens(i, 1) <= Ahead(k)
        /\ n = 0 \/ NextIndex[i] >= joined[i] => Ahead(k) <= Tokens(i, 1) + n
    <2>1. Tokens(i, 1) \in Nat /\ Tokens(i, 1) > 0
      BY <1>2, TokenCount
    <2> QED
      BY <1>2, <2>1 DEF Balance, Unread
  <1>4. found
    <2>1. Ahead(k) > 0
      BY <1>2, <1>3
    <2>2. Minus(nextIndex, k) \in Nat /\ Minus(nextIndex, k) - 1 = Ahead(k)
      <3> HIDE DEF k, i, found
      <3>1. Minus(nextIndex, k) - 1 = Ahead(k)
        BY <1>2, MinusBehind
      <3>2. nextIndex \in Int /\ k \in Int
        BY <1>2
      <3>3. Minus(nextIndex, k) \in Nat
        BY <3>2, MinusType
      <3> QED
        BY <3>1, <3>3
    <2> QED
      BY <1>2, <2>1, <2>2
  <1>5. /\ UNCHANGED <<nextIndex, NextIndex, Notified, joined, sem, bag, ppc, todo, cur, slot,
                       opened, dpc, handling>>
        /\ Index' = [Index EXCEPT ![c] = Succ(@)]
        /\ cpc' = [cpc EXCEPT ![c] = "ready"]
    BY <1>4 DEF ReadMessage, tableVars, dispVars, pubVars
  <1>6. /\ Index'[c] = Succ(k) /\ cpc'[c] = "ready"
        /\ \A d \in Clients : d # c => cpc'[d] = cpc[d] /\ Index'[d] = Index[d]
    BY <1>5 DEF TokenInv, CountInv, SlotInv, TypeInv, TypeOK
  <1>7. Behind(Succ(k)) /\ Ahead(Succ(k)) = Ahead(k) - 1
    BY <1>2, <1>3, MinusBehind
  <1>8. Behind(Index[c])' /\ Unread(slot[c], opened[c], Index[c])' = Ahead(k) - 1
    BY <1>1, <1>5, <1>6, <1>7 DEF Behind, Ahead, Unread
  <1>9. CursorInv'
    <2>1. \A d \in Clients : d # c => (Behind(Index[d])' <=> Behind(Index[d]))
      BY <1>5, <1>6 DEF Behind
    <2> QED
      BY <1>1, <1>5, <1>6, <1>8, <2>1 DEF TokenInv, CursorInv
  <1>10. Balance(slot[c], opened[c], Index[c], One(cpc[c] = "holding"), n)'
    <2>1. (Started(slot[c])' <=> Started(i)) /\ (Owed(slot[c])' <=> Owed(i))
      BY <1>5 DEF Started, Owed
    <2>2. Tokens(slot[c], One(cpc[c] = "holding"))' = Tokens(i, 1) - 1
      BY <1>2, <1>5, <1>6, <2>1 DEF Tokens, One
    <2> HIDE DEF Tokens, Unread
    <2> QED
      BY <1>2, <1>3, <1>5, <1>8, <2>1, <2>2 DEF Balance
  <1>11. HandedBalance(n)' /\ ReadersBalance(n)'
    BY <1>5, <1>6, <1>10, OthersKept DEF ReadersBalance
  <1> QED
    BY <1>2, <1>5, <1>9, <1>11 DEF TokenInv

LEMMA TokenClient ==
    ASSUME NEW n \in Nat, TokenInv(n), CountInv', NEW c \in Clients,
           Subscribe(c) \/ Read(c) \/ Leave(c)
    PROVE  TokenInv(n)'
  <1>1. CASE Subscribe(c) \/ OpenSemaphore(c) \/ Unsubscribe(c)
    <2>1. /\ UNCHANGED <<nextIndex, NextIndex, Notified, joined, sem, bag, ppc, todo, cur, slot,
                         opened, Index, dpc, handling>>
          /\ \/ cpc[c] = "out" /\ cpc'[c] = "subscribing"
             \/ cpc[c] = "granted" /\ cpc'[c] = "ready"
             \/ cpc[c] = "ready" /\ cpc'[c] = "leaving"
          /\ \A d \in Clients : d # c => cpc'[d] = cpc[d]
      BY <1>1 DEF Subscribe, OpenSemaphore, Unsubscribe, tableVars, dispVars, pubVars, clientVars,
                  TokenInv, CountInv, SlotInv, TypeInv, TypeOK
    <2>2. CursorInv'
      BY <2>1 DEF TokenInv, CursorInv, Behind
    <2>3. ASSUME Subscribed(c)'
          PROVE  Balance(slot[c], opened[c], Index[c], One(cpc[c] = "holding"), n)'
      <3>1. cpc[c] = "granted" /\ cpc'[c] = "ready"
        BY <2>1, <2>3 DEF Subscribed
      <3>a. Subscribed(c) /\ One(cpc[c] = "holding") = 0
        BY <3>1 DEF Subscribed, One
      <3>2. Balance(slot[c], opened[c], Index[c], 0, n) /\ Pushed(slot[c])
        BY <3>a, SubscriberInUse
      <3> QED
        BY <2>1, <3>1, <3>2 DEF Balance, Tokens, Unread, Started, Owed, One, Ahead
    <2>4. HandedBalance(n)' /\ ReadersBalance(n)'
      BY <2>1, <2>3, OthersKept DEF ReadersBalance
    <2> QED
      BY <2>1, <2>2, <2>4 DEF TokenInv
  <1>2. CASE CloseCursor(c)
    <2>1. /\ UNCHANGED <<nextIndex, NextIndex, Notified, joined, sem, bag, ppc, todo, cur, dpc,
                         handling>>
          /\ cpc'[c] = "out" /\ ~opened'[c]
          /\ \A d \in Clients : d # c => /\ cpc'[d] = cpc[d] /\ slot'[d] = slot[d]
                                      /\ opened'[d] = opened[d] /\ Index'[d] = Index[d]
      BY <1>2 DEF CloseCursor, tableVars, dispVars, pubVars, TokenInv, CountInv, SlotInv, TypeInv,
                  TypeOK
    <2>2. CursorInv'
      BY <2>1 DEF TokenInv, CursorInv, Behind
    <2>3. ~Subscribed(c)'
      BY <2>1 DEF Subscribed
    <2>4. HandedBalance(n)' /\ ReadersBalance(n)'
      BY <2>1, <2>3, OthersKept DEF ReadersBalance
    <2> QED
      BY <2>1, <2>2, <2>4 DEF TokenInv
  <1> QED
    BY <1>1, <1>2, TokenAcquire, TokenRead DEF Read, Leave

LEMMA TokenStep == \A n \in Nat : TokenInv(n) /\ [Next]_vars => TokenInv(n)'
  <1> SUFFICES ASSUME NEW n \in Nat, TokenInv(n), [Next]_vars PROVE TokenInv(n)'
    OBVIOUS
  <1>1. CountInv'
    BY CountStep DEF TokenInv
  <1>2. CASE UNCHANGED vars \/ TerminateNoFreeId
    BY <1>1, <1>2, TokenKept DEF TerminateNoFreeId, vars, tableVars, dispVars, pubVars, clientVars
  <1>3. CASE TakeUnsubscribe
    <2>1. handling'.kind = "unsubscribe" /\ dpc = "idle"
      BY <1>3 DEF TakeUnsubscribe
    <2> QED
      BY <1>1, <1>3, <2>1, TokenKept DEF TakeUnsubscribe, pubVars, clientVars
  <1>4. CASE Dispatcher
    BY <1>1, <1>2, <1>3, <1>4, TokenTakeSubscribe, TokenPush, TokenAnswer DEF Dispatcher
  <1>5. CASE PublishMessage \/ NotifyAll
    BY <1>1, <1>5, TokenWalk, TokenRemoval DEF NotifyAll, WalkStep
  <1> QED
    BY <1>1, <1>2, <1>4, <1>5, TokenClient DEF Next

(* No NotifyAll is cut short while nobody kills the server. *)
TopicInv == TokenInv(0) /\ StartInv /\ Undisturbed

THEOREM TokenInvariant == Spec => []TopicInv
  <1>1. TokenInv(0) /\ [Next]_vars => TokenInv(0)'
    BY TokenStep
  <1> QED
    BY <1>1, TokenInit, StartInvariant, AlwaysUndisturbed, PTL DEF Spec, TopicInv

(* Every message after a subscriber's cursor is matched by exactly one      *)
(* token of its semaphore, with any number of clients and messages: the     *)
(* semaphore never promises a message that is not there and never forgets   *)
(* one that is.                                                            *)
THEOREM TokensCountMessages == Spec => []TokensMatchMessages
  <1>1. TokenInv(0) => TokensMatchMessages
    <2> SUFFICES ASSUME TokenInv(0), NEW c \in Clients, Subscribed(c), Started(slot[c])
                 PROVE  sem[slot[c]] + One(cpc[c] = "holding") + One(Owed(slot[c])) =
                            IF opened[c] THEN Minus(nextIndex, Index[c]) - 1
                            ELSE nextIndex - NextIndex[slot[c]]
      BY DEF TokensMatchMessages
    <2> DEFINE h == One(cpc[c] = "holding")
               i == slot[c]
    <2>1. /\ nextIndex \in Nat /\ nextIndex <= MaxMessages
          /\ i \in Slots /\ NextIndex[i] \in Nat /\ sem[i] \in Nat
      BY DEF TokenInv, CountInv, SlotInv, TypeInv, TypeOK
    <2>2. Tokens(i, h) <= Unread(i, opened[c], Index[c])
          /\ Unread(i, opened[c], Index[c]) <= Tokens(i, h) + 0
      BY SubscriberInUse DEF Balance
    <2>3. /\ opened[c] => Ahead(Index[c]) \in Int
          /\ opened[c] => Minus(nextIndex, Index[c]) - 1 = Ahead(Index[c])
      BY <2>1, SubscriberInUse, MinusBehind
    <2>4. Unread(i, opened[c], Index[c]) \in Int
      BY <2>1, <2>3 DEF Unread
    <2>5. Tokens(i, h) \in Int
      <3>1. h \in 0..1 /\ One(Owed(i)) \in 0..1
        BY OneType
      <3> QED
        BY <2>1, <3>1 DEF Tokens
    <2>6. Tokens(i, h) = Unread(i, opened[c], Index[c])
      BY <2>2, <2>4, <2>5
    <2> QED
      BY <2>3, <2>6 DEF Tokens, Unread
  <1> QED
    BY <1>1, TokenInvariant, PTL DEF TopicInv

(* A client that has taken a token finds a message in the buffer: the       *)
(* exception of a read that returns false is never thrown.                  *)
THEOREM ReadsFindTheirMessage == Spec => []ReadNeverThrows
  <1>1. TokenInv(0) => ReadNeverThrows
    BY DEF TokenInv, CursorInv, ReadNeverThrows
  <1> QED
    BY <1>1, TokenInvariant, PTL DEF TopicInv

-----------------------------------------------------------------------------
(* A topic implements the feed: every step of the server's two threads and  *)
(* of the clients is one of its steps or changes nothing a client sees.     *)

View(c) == <<PhaseOf(c), SinceOf(c), NextOf(c)>>

(* What the feed's view of the clients is made of. *)
viewVars == <<cpc, clientVars, joined, dpc, handling>>

LEMMA FeedInit == Init => Promise!Init
  <1> SUFFICES ASSUME Init PROVE Promise!Init
    OBVIOUS
  <1>1. \A c \in Clients : PhaseOf(c) = "out" /\ SinceOf(c) = 0 /\ NextOf(c) = 0
    BY DEF Init, PhaseOf, SinceOf, NextOf, Subscribed, BeingGranted
  <1> QED
    BY <1>1 DEF Init, Promise!Init

LEMMA ViewsKept ==
    ASSUME nextIndex' = nextIndex, \A c \in Clients : View(c)' = View(c)
    PROVE  UNCHANGED Promise!vars
  <1>1. \A c \in Clients :
            PhaseOf(c)' = PhaseOf(c) /\ SinceOf(c)' = SinceOf(c) /\ NextOf(c)' = NextOf(c)
    BY DEF View
  <1> QED
    BY <1>1 DEF Promise!vars

(* A client none of whose variables changes, and which the dispatcher does  *)
(* not begin or cease to answer, sees nothing.                              *)
LEMMA ViewKept ==
    ASSUME NEW c \in Clients,
           cpc'[c] = cpc[c], slot'[c] = slot[c], opened'[c] = opened[c], Index'[c] = Index[c],
           BeingGranted(c)' <=> BeingGranted(c),
           BeingGranted(c) => handling'.slot = handling.slot,
           joined'[SlotOf(c)] = joined[SlotOf(c)]
    PROVE  View(c)' = View(c)
  <1>1. SlotOf(c)' = SlotOf(c)
    BY DEF SlotOf, BeingGranted
  <1>2. PhaseOf(c)' = PhaseOf(c)
    BY DEF PhaseOf, Subscribed
  <1>3. SinceOf(c)' = SinceOf(c) /\ NextOf(c)' = NextOf(c)
    BY <1>1, <1>2 DEF SinceOf, NextOf
  <1> QED
    BY <1>2, <1>3 DEF View

(* What a subscribed client has of its slot. *)
LEMMA ClientInUse ==
    ASSUME TopicInv, NEW c \in Clients, Subscribed(c)
    PROVE  /\ slot[c] \in Slots /\ slot[c] \in bag /\ Pushed(slot[c])
           /\ Balance(slot[c], opened[c], Index[c], One(cpc[c] = "holding"), 0)
           /\ opened[c] => Behind(Index[c])
  <1>1. 0 \in Nat /\ TokenInv(0) /\ Serving
    BY DEF TopicInv, Undisturbed
  <1> QED
    BY <1>1, SubscriberInUse

(* The dispatcher grants a slot to a client that waits for one. *)
LEMMA GrantedClient ==
    ASSUME TopicInv, NEW c \in Clients, BeingGranted(c)
    PROVE  /\ handling.kind = "subscribe" /\ ~opened[c] /\ cpc[c] = "subscribing"
           /\ handling.slot \in Slots
  <1>1. cpc[c] = "subscribing" /\ dpc = "answer" /\ handling.client = c
    BY DEF BeingGranted
  <1>2. SlotInv
    BY DEF TopicInv, TokenInv, CountInv
  <1>3. handling \in Request
    BY <1>1, <1>2 DEF SlotInv, HandlingMatches
  <1>4. handling.kind = "subscribe"
    BY <1>1, <1>2, <1>3 DEF SlotInv, HandlingMatches, Request
  <1>5. ~opened[c]
    BY <1>1 DEF TopicInv, TokenInv, CursorInv
  <1> QED
    BY <1>1, <1>3, <1>4, <1>5 DEF Request

-----------------------------------------------------------------------------
(* The dispatcher's steps.                                                 *)

LEMMA FeedTake ==
    ASSUME TopicInv, TopicInv', (\E i \in Slots : TakeSubscribe(i)) \/ TakeUnsubscribe
    PROVE  UNCHANGED Promise!vars
  <1>1. /\ UNCHANGED <<nextIndex, cpc, slot, opened, Index, joined>>
        /\ dpc = "idle"
        /\ dpc' = "push" \/ (dpc' = "answer" /\ handling'.kind = "unsubscribe")
    BY DEF TakeSubscribe, TakeUnsubscribe, clientVars
  <1>2. \A c \in Clients : ~BeingGranted(c) /\ ~BeingGranted(c)'
    <2>1. HandlingMatches'
      BY DEF TopicInv, TokenInv, CountInv, SlotInv
    <2> QED
      BY <1>1, <2>1 DEF BeingGranted, HandlingMatches
  <1>3. \A c \in Clients : View(c)' = View(c)
    BY <1>1, <1>2, ViewKept
  <1> QED
    BY <1>1, <1>3, ViewsKept

LEMMA FeedPush ==
    ASSUME TopicInv, PushSubscription
    PROVE  \E c \in Clients : Promise!Join(c)
  <1> PICK h, i : h = handling.client /\ i = handling.slot
    OBVIOUS
  <1>1. handling.kind = "subscribe" /\ dpc = "push"
    BY PushesSubscription DEF PushSubscription, TopicInv, TokenInv, CountInv
  <1>2. h \in Clients /\ i \in Slots /\ cpc[h] = "subscribing" /\ ~opened[h]
    <2>1. 0 \in Nat /\ TokenInv(0) /\ dpc # "idle"
      BY <1>1 DEF TopicInv
    <2>2. h \in Clients /\ i \in Slots /\ cpc[h] \in {"subscribing", "dead"}
      BY <1>1, <2>1, HandedInUse
    <2> QED
      BY <2>1, <2>2 DEF TopicInv, Undisturbed, TokenInv, CursorInv
  <1>3. /\ UNCHANGED <<nextIndex, cpc, slot, opened, Index, handling>>
        /\ dpc' = "answer" /\ joined' = [joined EXCEPT ![i] = nextIndex]
    BY DEF PushSubscription, clientVars
  <1>4. joined'[i] = nextIndex /\ \A j \in Slots : j # i => joined'[j] = joined[j]
    BY <1>2, <1>3 DEF TopicInv, TokenInv, CountInv, SlotInv, TypeInv, TypeOK
  <1>5. \A c \in Clients : ~BeingGranted(c) /\ (BeingGranted(c)' <=> c = h)
    BY <1>1, <1>2, <1>3 DEF BeingGranted
  <1>6. ASSUME NEW c \in Clients, c # h PROVE View(c)' = View(c)
    <2>1. CASE Subscribed(c)
      <3>1. slot[c] \in Slots
        BY <2>1, ClientInUse
      <3>2. slot[c] # i
        BY <1>1, <2>1, ClientInUse DEF Pushed
      <3>3. joined'[SlotOf(c)] = joined[SlotOf(c)]
        BY <1>4, <1>5, <3>1, <3>2 DEF SlotOf
      <3> QED
        BY <1>3, <1>5, <1>6, <3>3, ViewKept
    <2>2. CASE ~Subscribed(c)
      <3>1. ~Subscribed(c)'
        BY <1>3, <2>2 DEF Subscribed
      <3>2. /\ PhaseOf(c) = IF cpc[c] = "failed" THEN "failed" ELSE "out"
            /\ PhaseOf(c)' = PhaseOf(c)
        BY <1>3, <1>5, <1>6, <2>2, <3>1 DEF PhaseOf
      <3> QED
        BY <3>2 DEF View, SinceOf, NextOf
    <2> QED
      BY <2>1, <2>2
  <1>7. /\ PhaseOf(h) = "out" /\ PhaseOf(h)' = "joined"
        /\ SinceOf(h)' = nextIndex
        /\ NextOf(h) = 0 /\ NextOf(h)' = 0
    <2>1. PhaseOf(h) = "out"
      BY <1>2, <1>5 DEF PhaseOf, Subscribed
    <2>2. BeingGranted(h)'
      BY <1>2, <1>5
    <2>3. PhaseOf(h)' = "joined"
      BY <1>2, <1>3, <2>2 DEF PhaseOf
    <2>4. SlotOf(h)' = i
      BY <1>3, <2>2 DEF SlotOf
    <2>5. SinceOf(h)' = nextIndex
      BY <1>4, <2>3, <2>4 DEF SinceOf
    <2> QED
      BY <2>1, <2>3, <2>5 DEF NextOf
  <1>8. Promise!Join(h)
    BY <1>2, <1>3, <1>6, <1>7 DEF View, Promise!Join
  <1> QED
    BY <1>2, <1>8

LEMMA FeedAnswer ==
    ASSUME TopicInv, TopicInv', Answer
    PROVE  UNCHANGED Promise!vars
  <1> PICK h : h = handling.client
    OBVIOUS
  <1>1. SlotInv /\ dpc = "answer" /\ dpc' = "idle" /\ UNCHANGED <<nextIndex, joined>>
    BY DEF TopicInv, TokenInv, CountInv, Answer
  <1>2. h \in Clients /\ cpc[h] \in {"subscribing", "leaving"}
    <2>1. handling \in Request
      BY <1>1 DEF SlotInv, HandlingMatches
    <2> QED
      BY <1>1, <2>1 DEF SlotInv, HandlingMatches, Request, TopicInv, Undisturbed
  <1>3. \A c \in Clients : ~BeingGranted(c)' /\ (BeingGranted(c) => c = h)
    BY <1>1 DEF BeingGranted
  <1>4. ASSUME NEW c \in Clients, c # h PROVE View(c)' = View(c)
    <2>1. cpc'[c] = cpc[c] /\ slot'[c] = slot[c] /\ opened'[c] = opened[c] /\ Index'[c] = Index[c]
      BY <1>4 DEF Answer, clientVars, TopicInv, TokenInv, CountInv, SlotInv, TypeInv, TypeOK
    <2> QED
      BY <1>1, <1>3, <1>4, <2>1, ViewKept
  <1>5. View(h)' = View(h)
    <2>1. CASE cpc[h] = "subscribing"
      <3>1. BeingGranted(h)
        BY <1>1, <2>1 DEF BeingGranted
      <3>2. ~opened[h]
        BY <1>2, <3>1, GrantedClient
      <3>3. cpc'[h] = "granted" /\ slot'[h] = handling.slot /\ UNCHANGED <<opened, Index>>
        BY <1>2, <2>1 DEF Answer, TopicInv, TokenInv, CountInv, SlotInv, TypeInv, TypeOK
      <3>4. PhaseOf(h) = "joined" /\ SlotOf(h) = handling.slot
        BY <2>1, <3>1, <3>2 DEF PhaseOf, SlotOf
      <3>5. PhaseOf(h)' = "joined" /\ SlotOf(h)' = handling.slot
        BY <1>2, <1>3, <3>2, <3>3 DEF PhaseOf, SlotOf, Subscribed
      <3> QED
        BY <1>1, <3>4, <3>5 DEF View, SinceOf, NextOf
    <2>2. CASE cpc[h] = "leaving"
      <3>1. cpc'[h] = "closing"
        BY <1>2, <2>2 DEF Answer, TopicInv, TokenInv, CountInv, SlotInv, TypeInv, TypeOK
      <3>2. PhaseOf(h) = "out" /\ PhaseOf(h)' = "out"
        BY <1>2, <1>3, <2>2, <3>1 DEF PhaseOf, Subscribed, BeingGranted
      <3> QED
        BY <3>2 DEF View, SinceOf, NextOf
    <2> QED
      BY <1>2, <2>1, <2>2
  <1>6. \A c \in Clients : View(c)' = View(c)
    BY <1>4, <1>5
  <1> QED
    BY <1>1, <1>6, ViewsKept

-----------------------------------------------------------------------------
(* The publish thread's steps.                                             *)

LEMMA FeedPublish ==
    ASSUME PublishMessage
    PROVE  Promise!Publish
  <1>1. nextIndex' = nextIndex + 1 /\ UNCHANGED viewVars
    BY DEF PublishMessage, viewVars, dispVars
  <1>2. \A c \in Clients : View(c)' = View(c)
    BY <1>1, ViewKept DEF viewVars, clientVars, BeingGranted
  <1> QED
    BY <1>1, <1>2 DEF View, Promise!Publish

LEMMA FeedUnseen ==
    ASSUME UNCHANGED <<nextIndex, viewVars>>
    PROVE  UNCHANGED Promise!vars
  <1>1. \A c \in Clients : View(c)' = View(c)
    BY ViewKept DEF viewVars, clientVars, BeingGranted
  <1> QED
    BY <1>1, ViewsKept

LEMMA NotifyUnseen ==
    ASSUME NotifyAll
    PROVE  UNCHANGED <<nextIndex, viewVars>>
  BY DEF NotifyAll, BeginNotify, SetAside, CountNotification, RemovalMissed,
         RemoveSubscription, SetStart, ReleaseSemaphore, EndVisits, Deactivate, EndNotify, viewVars, dispVars

-----------------------------------------------------------------------------
(* A client's steps.                                                       *)

(* What a step of client c leaves of the others. *)
LEMMA OthersUnseen ==
    ASSUME NEW c \in Clients, TopicInv, UNCHANGED <<nextIndex, joined, dpc, handling>>,
           \A d \in Clients : d # c => /\ cpc'[d] = cpc[d] /\ slot'[d] = slot[d]
                                       /\ opened'[d] = opened[d] /\ Index'[d] = Index[d]
    PROVE  \A d \in Clients : d # c => View(d)' = View(d)
  BY ViewKept DEF BeingGranted

(* The slot of a subscribed client is its own. *)
LEMMA SubscriberView ==
    ASSUME NEW c \in Clients, Subscribed(c)
    PROVE  /\ PhaseOf(c) = IF opened[c] THEN "reading" ELSE "joined"
           /\ SinceOf(c) = joined[slot[c]]
           /\ NextOf(c) = IF opened[c] THEN Succ(Index[c]) ELSE 0
  <1>1. ~BeingGranted(c) /\ cpc[c] # "failed"
    BY DEF Subscribed, BeingGranted
  <1>2. PhaseOf(c) = IF opened[c] THEN "reading" ELSE "joined"
    BY <1>1 DEF PhaseOf
  <1> QED
    BY <1>1, <1>2 DEF SinceOf, NextOf, SlotOf

LEMMA FeedSubscribe ==
    ASSUME TopicInv, NEW c \in Clients, Subscribe(c) \/ OpenSemaphore(c)
    PROVE  UNCHANGED Promise!vars
  <1>1. /\ UNCHANGED <<nextIndex, joined, dpc, handling, slot, opened, Index>>
        /\ \/ cpc[c] = "out" /\ cpc'[c] = "subscribing"
           \/ cpc[c] = "granted" /\ cpc'[c] = "ready"
        /\ \A d \in Clients : d # c => cpc'[d] = cpc[d]
    BY DEF Subscribe, OpenSemaphore, dispVars, clientVars, TopicInv, TokenInv, CountInv, SlotInv, TypeInv,
           TypeOK
  <1>2. cpc[c] = "out" => ~(dpc = "answer" /\ handling.client = c)
    BY DEF TopicInv, TokenInv, CountInv, SlotInv, HandlingMatches, Request
  <1>3. ~BeingGranted(c) /\ ~BeingGranted(c)'
    BY <1>1, <1>2 DEF BeingGranted
  <1>4. PhaseOf(c)' = PhaseOf(c) /\ SlotOf(c)' = SlotOf(c)
    BY <1>1, <1>3 DEF PhaseOf, SlotOf, Subscribed
  <1>5. View(c)' = View(c)
    BY <1>1, <1>4 DEF View, SinceOf, NextOf
  <1>6. \A d \in Clients : View(d)' = View(d)
    BY <1>1, <1>5, OthersUnseen
  <1> QED
    BY <1>1, <1>6, ViewsKept

(* The first acquisition opens the cursor at the slot's NextIndex, which is *)
(* where the client joined; the token says that a message is there.         *)
LEMMA FeedAcquire ==
    ASSUME TopicInv, NEW c \in Clients, Acquire(c)
    PROVE  Promise!Start(c) \/ UNCHANGED Promise!vars
  <1> DEFINE i == slot[c]
  <1>1. /\ Subscribed(c) /\ cpc[c] = "ready" /\ i \in Slots /\ i \in bag /\ sem[i] > 0
        /\ One(cpc[c] = "holding") = 0
    BY ClientInUse DEF Acquire, Subscribed, One
  <1>2. /\ nextIndex \in Nat /\ nextIndex <= MaxMessages /\ MaxMessages + 1 < Word
        /\ MaxMessages \in Nat /\ Word \in Nat
        /\ NextIndex[i] \in Nat /\ sem[i] \in Nat /\ opened[c] \in BOOLEAN
    BY <1>1, TopicAssumption, WordAssumption DEF TopicInv, TokenInv, CountInv, SlotInv, TypeInv, TypeOK
  <1>3. /\ UNCHANGED <<nextIndex, joined, dpc, handling, slot>>
        /\ cpc'[c] = "holding" /\ opened'[c]
        /\ Index'[c] = IF opened[c] THEN Index[c] ELSE Minus(NextIndex[i], 1)
        /\ \A d \in Clients : d # c => /\ cpc'[d] = cpc[d] /\ opened'[d] = opened[d]
                                       /\ Index'[d] = Index[d]
    BY DEF Acquire, dispVars, TopicInv, TokenInv, CountInv, SlotInv, TypeInv, TypeOK
  <1>4. \A d \in Clients : d # c => View(d)' = View(d)
    BY <1>3, OthersUnseen
  <1>5. Subscribed(c)'
    BY <1>3 DEF Subscribed
  <1>6. /\ PhaseOf(c)' = "reading" /\ SinceOf(c)' = joined[i]
        /\ NextOf(c)' = Succ(Index'[c])
    <2>1. ~BeingGranted(c)'
      BY <1>3 DEF BeingGranted
    <2>2. PhaseOf(c)' = "reading" /\ SlotOf(c)' = i
      BY <1>3, <1>5, <2>1 DEF PhaseOf, SlotOf
    <2> QED
      BY <1>3, <2>2 DEF SinceOf, NextOf
  <1>7. CASE opened[c]
    <2>1. View(c)' = View(c)
      BY <1>1, <1>3, <1>6, <1>7, SubscriberView DEF View
    <2> QED
      BY <1>3, <1>4, <2>1, ViewsKept
  <1>8. CASE ~opened[c]
    <2>1. Started(i) /\ Tokens(i, 0) <= nextIndex - NextIndex[i]
      BY <1>1, <1>2, <1>8, ClientInUse DEF Balance, Unread
    <2>2. NextIndex[i] < nextIndex
      BY <1>1, <1>2, <2>1, TokenCount
    <2>3. NextIndex[i] \in {joined[i] - 1, joined[i]}
      BY <1>1, <2>1 DEF TopicInv, StartInv, StartOf
    <2>4. NextOf(c)' = NextIndex[i]
      <3>1. Index'[c] = (NextIndex[i] - 1) % Word
        BY <1>3, <1>8 DEF Minus
      <3>2. NextOf(c)' = (((NextIndex[i] - 1) % Word) + 1) % Word
        BY <1>6, <3>1 DEF Succ
      <3>3. CASE NextIndex[i] = 0
        <4>1. (NextIndex[i] - 1) % Word = Word - 1
          BY <1>2, <3>3
        <4>2. Word % Word = 0
          BY <1>2
        <4> QED
          BY <1>2, <3>2, <3>3, <4>1, <4>2
      <3>4. CASE NextIndex[i] > 0
        <4>1. (NextIndex[i] - 1) % Word = NextIndex[i] - 1
          BY <1>2, <2>2, <3>4
        <4> QED
          BY <1>2, <2>2, <3>2, <3>4, <4>1
      <3> QED
        BY <1>2, <3>3, <3>4
    <2>5. /\ PhaseOf(c) = "joined" /\ SinceOf(c) = joined[i]
          /\ NextIndex[i] \in 0..(nextIndex - 1)
      BY <1>1, <1>2, <1>8, <2>2, SubscriberView
    <2>6. \A d \in Clients : SinceOf(d)' = SinceOf(d)
      BY <1>4, <1>6, <2>5 DEF View
    <2> QED
      BY <1>3, <1>4, <1>6, <2>3, <2>4, <2>5, <2>6 DEF View, Promise!Start
  <1> QED
    BY <1>2, <1>7, <1>8

LEMMA FeedRead ==
    ASSUME TopicInv, TopicInv', NEW c \in Clients, ReadMessage(c)
    PROVE  Promise!Read(c)
  <1> DEFINE k == Index[c]
  <1>1. Subscribed(c) /\ cpc[c] = "holding" /\ opened[c]
    BY DEF ReadMessage, Subscribed, TopicInv, TokenInv, CursorInv
  <1>2. /\ nextIndex \in Nat /\ nextIndex <= MaxMessages /\ MaxMessages + 1 < Word
        /\ MaxMessages \in Nat /\ Word \in Nat /\ k \in Nat /\ Behind(k)
        /\ sem[slot[c]] \in Nat
    BY <1>1, ClientInUse, TopicAssumption, WordAssumption
       DEF TopicInv, TokenInv, CountInv, SlotInv, TypeInv, TypeOK
  <1>3. Ahead(k) > 0 /\ Ahead(k) \in Int
    <2>1. Balance(slot[c], opened[c], k, 1, 0)
      BY <1>1, ClientInUse DEF One
    <2>2. Tokens(slot[c], 1) <= Ahead(k)
      BY <1>1, <2>1 DEF Balance, Unread
    <2>3. Ahead(k) \in Int /\ Tokens(slot[c], 1) \in Nat /\ Tokens(slot[c], 1) > 0
      BY <1>2, MinusBehind, TokenCount
    <2> QED
      BY <2>2, <2>3
  <1>4. Minus(nextIndex, k) > 1
    <2>1. Minus(nextIndex, k) - 1 = Ahead(k)
      BY <1>2, MinusBehind
    <2>2. Minus(nextIndex, k) \in Nat
      <3>1. nextIndex \in Int /\ k \in Int
        BY <1>2
      <3> QED
        BY <3>1, MinusType
    <2> QED
      BY <1>3, <2>1, <2>2
  <1>5. /\ UNCHANGED <<nextIndex, joined, dpc, handling, slot, opened>>
        /\ cpc'[c] = "ready" /\ Index'[c] = Succ(k)
        /\ \A d \in Clients : d # c => cpc'[d] = cpc[d] /\ Index'[d] = Index[d]
    BY <1>4 DEF ReadMessage, dispVars, TopicInv, TokenInv, CountInv, SlotInv, TypeInv, TypeOK
  <1>6. \A d \in Clients : d # c => View(d)' = View(d)
    BY <1>5, OthersUnseen
  <1>7. Subscribed(c)'
    BY <1>5 DEF Subscribed
  <1>8. PhaseOf(c) = "reading" /\ SinceOf(c) = joined[slot[c]] /\ NextOf(c) = Succ(k)
    BY <1>1, SubscriberView
  <1>9. PhaseOf(c)' = "reading" /\ SinceOf(c)' = joined[slot[c]] /\ NextOf(c)' = Succ(Succ(k))
    <2>1. ~BeingGranted(c)'
      BY <1>5 DEF BeingGranted
    <2>2. PhaseOf(c)' = "reading" /\ SlotOf(c)' = slot[c]
      BY <1>1, <1>5, <1>7, <2>1 DEF PhaseOf, SlotOf
    <2> QED
      BY <1>5, <2>2 DEF SinceOf, NextOf
  <1>10. Succ(k) < nextIndex /\ Succ(Succ(k)) = Succ(k) + 1
    <2>1. CASE k = Word - 1
      <3>1. (k + 1) % Word = 0
        BY <1>2, <2>1
      <3>2. 1 % Word = 1
        BY <1>2, <1>3, <2>1 DEF Ahead
      <3> QED
        BY <1>2, <1>3, <2>1, <3>1, <3>2 DEF Succ, Ahead
    <2>2. CASE k # Word - 1
      <3>1. k + 1 < nextIndex
        BY <1>2, <1>3, <2>2 DEF Ahead
      <3>2. (k + 1) % Word = k + 1 /\ (k + 2) % Word = k + 2
        BY <1>2, <3>1
      <3> QED
        BY <1>2, <3>1, <3>2 DEF Succ
    <2> QED
      BY <2>1, <2>2
  <1>11. /\ \A d \in Clients : PhaseOf(d)' = PhaseOf(d) /\ SinceOf(d)' = SinceOf(d)
         /\ \A d \in Clients : NextOf(d)' = IF d = c THEN NextOf(c) + 1 ELSE NextOf(d)
    BY <1>6, <1>8, <1>9, <1>10 DEF View
  <1> QED
    BY <1>5, <1>8, <1>10, <1>11 DEF Promise!Read

LEMMA FeedLeave ==
    ASSUME TopicInv, NEW c \in Clients, Unsubscribe(c)
    PROVE  Promise!Leave(c)
  <1>1. Subscribed(c)
    BY DEF Unsubscribe, Subscribed
  <1>2. /\ UNCHANGED <<nextIndex, joined, dpc, handling, slot, opened, Index>>
        /\ cpc'[c] = "leaving"
        /\ \A d \in Clients : d # c => cpc'[d] = cpc[d]
    BY DEF Unsubscribe, dispVars, clientVars, TopicInv, TokenInv, CountInv, SlotInv, TypeInv, TypeOK
  <1>3. \A d \in Clients : d # c => View(d)' = View(d)
    BY <1>2, OthersUnseen
  <1>4. PhaseOf(c) \in {"joined", "reading"}
    BY <1>1, SubscriberView
  <1>5. PhaseOf(c)' = "out"
    BY <1>2 DEF PhaseOf, Subscribed, BeingGranted
  <1>6. SinceOf(c)' = 0 /\ NextOf(c)' = 0
    BY <1>5 DEF SinceOf, NextOf
  <1> QED
    BY <1>2, <1>3, <1>4, <1>5, <1>6 DEF View, Promise!Leave

LEMMA FeedClose ==
    ASSUME TopicInv, NEW c \in Clients, CloseCursor(c)
    PROVE  UNCHANGED Promise!vars
  <1>1. /\ UNCHANGED <<nextIndex, joined, dpc, handling>>
        /\ cpc[c] = "closing" /\ cpc'[c] = "out"
        /\ \A d \in Clients : d # c => /\ cpc'[d] = cpc[d] /\ slot'[d] = slot[d]
                                    /\ opened'[d] = opened[d] /\ Index'[d] = Index[d]
    BY DEF CloseCursor, dispVars, TopicInv, TokenInv, CountInv, SlotInv, TypeInv, TypeOK
  <1>2. \A d \in Clients : d # c => View(d)' = View(d)
    BY <1>1, OthersUnseen
  <1>3. PhaseOf(c) = "out" /\ PhaseOf(c)' = "out"
    BY <1>1 DEF PhaseOf, Subscribed, BeingGranted
  <1>4. View(c)' = View(c)
    BY <1>3 DEF View, SinceOf, NextOf
  <1> QED
    BY <1>1, <1>2, <1>4, ViewsKept

-----------------------------------------------------------------------------
LEMMA FeedStep ==
    ASSUME TopicInv, TopicInv', [Next]_vars
    PROVE  [Promise!Next]_(Promise!vars)
  <1> USE DEF Promise!Next
  <1>1. CASE UNCHANGED vars \/ TerminateNoFreeId
    <2>1. UNCHANGED <<nextIndex, viewVars>>
      BY <1>1 DEF vars, TerminateNoFreeId, viewVars, dispVars
    <2> QED
      BY <2>1, FeedUnseen
  <1>2. CASE Dispatcher
    BY <1>1, <1>2, FeedTake, FeedPush, FeedAnswer DEF Dispatcher
  <1>3. CASE PublishMessage \/ NotifyAll
    BY <1>3, FeedPublish, NotifyUnseen, FeedUnseen
  <1>4. ASSUME NEW c \in Clients, Subscribe(c) \/ Read(c) \/ Leave(c)
        PROVE  [Promise!Next]_(Promise!vars)
    BY <1>4, FeedSubscribe, FeedAcquire, FeedRead, FeedLeave, FeedClose DEF Read, Leave
  <1> QED
    BY <1>1, <1>2, <1>3, <1>4 DEF Next

(* Each client reads the messages published since it joined in order, once  *)
(* each and without a gap, whatever the two threads of the server and the   *)
(* other clients do in between: the topic implements the feed.              *)
THEOREM TopicImplementsFeed == Spec => ImplementsFeed
  <1>1. Init => Promise!Init
    BY FeedInit
  <1>2. TopicInv /\ TopicInv' /\ [Next]_vars => [Promise!Next]_(Promise!vars)
    BY FeedStep
  <1> QED
    BY <1>1, <1>2, TokenInvariant, PTL DEF Spec, ImplementsFeed, Promise!Spec

=================================================================================
