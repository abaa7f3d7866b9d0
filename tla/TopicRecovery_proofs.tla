-------------------------- MODULE TopicRecovery_proofs --------------------------
(***************************************************************************)
(* What holds of a topic although its processes die, for every number of    *)
(* clients, slots, messages and deaths.  The invariants are those of        *)
(* Topic_proofs: their steps cover the living, so what is left are deaths,  *)
(* restarts, what a server without the topic answers, and the clients that  *)
(* come back to a slot they had left by that answer.                       *)
(***************************************************************************)
EXTENDS TopicRecovery, Topic_proofs

(* Of a server that died nothing is left, and without a death nobody is     *)
(* answered for want of a topic.                                           *)
BookInv ==
    /\ bare \in BOOLEAN /\ old \in Nat /\ named \subseteq Slots /\ released \subseteq Slots
    /\ crashes \in Nat
    /\ bare => ~up
    /\ ~up => bag = {} /\ freeIds = Slots /\ ppc = "idle" /\ dpc = "idle" /\ crashes > 0
    /\ \A c \in Clients : cpc[c] = "misled" => crashes > 0

(* A name stands for a slot that a living client reads from, is about to    *)
(* get, has left unmarked, or is about to leave; and what a request to      *)
(* leave names is what its client leaves.                                  *)
NamesInv ==
    /\ \A i \in named :
          /\ Active[i]
          /\ up => i \in bag \/ ~Pushed(i)
          /\ PendingRemove[i] /\ Running(Pid[i]) =>
                cpc[Pid[i]] \in {"leaving", "closing"} /\ slot[Pid[i]] = i
    /\ \A c \in Clients : Subscribed(c) => slot[c] \in named
    /\ dpc # "idle" /\ handling.kind = "subscribe" => handling.slot \in named
    /\ \A m \in 1..Len(queue) :
          queue[m].kind = "unsubscribe" /\ cpc[queue[m].client] # "dead" =>
              slot[queue[m].client] = queue[m].slot

(* A slot kept for a client that has no cursor on it: it was not told of it *)
(* yet, or it has left it to a server without the topic, or was never told. *)
(* A client told slot 0 for want of a topic may find such a slot there.     *)
Occupied(i) ==
    cpc[Pid[i]] \in {"granted", "ready", "holding", "leaving", "closing"} /\ slot[Pid[i]] = i
Vacant(i) == i \in named /\ ~PendingRemove[i] /\ Running(Pid[i]) /\ ~Occupied(i)

NoExcess(i) ==
    IF Started(i) THEN Tokens(i, 0) <= nextIndex - NextIndex[i] ELSE sem[i] = 0

VacantInv == \A i \in Slots : Vacant(i) => NoExcess(i)

RecoveryInv ==
    /\ BookInv
    /\ TokenInv(crashes)
    /\ NamesInv
    /\ VacantInv

LEMMA RecoveryStart == RecoveryInit => RecoveryInv
  <1> SUFFICES ASSUME RecoveryInit PROVE RecoveryInv
    OBVIOUS
  <1>1. crashes = 0 /\ TokenInv(0)
    BY TokenInit DEF RecoveryInit
  <1>2. BookInv
    BY DEF RecoveryInit, Init, BookInv
  <1>3. named = {} /\ queue = <<>> /\ dpc = "idle" /\ \A c \in Clients : ~Subscribed(c)
    BY DEF RecoveryInit, Init, Subscribed
  <1>4. NamesInv /\ VacantInv
    BY <1>3 DEF NamesInv, VacantInv, Vacant
  <1> QED
    BY <1>1, <1>2, <1>4 DEF RecoveryInv

LEMMA RecoveryFacts ==
    ASSUME RecoveryInv
    PROVE  /\ crashes \in Nat /\ named \subseteq Slots
           /\ TokenInv(crashes) /\ CountInv /\ WalkInv /\ SlotInv /\ TypeInv /\ TypeOK
           /\ HandlingMatches /\ RemovalsPending /\ SubscribersHold /\ CursorInv
           /\ nextIndex <= MaxMessages /\ \A i \in Slots : NextIndex[i] <= nextIndex
           /\ Serving <=> up
  <1>1. 0 \in Slots
    BY TopicAssumption DEF Slots
  <1>2. Serving <=> up
    BY <1>1 DEF RecoveryInv, BookInv, Serving
  <1> QED
    BY <1>2 DEF RecoveryInv, BookInv, TokenInv, CountInv, SlotInv, TypeInv

(* A slot with a name is known to a server that knows the topic. *)
LEMMA NamedServed ==
    ASSUME RecoveryInv, up, NEW i \in named
    PROVE  /\ i \in Slots /\ i \notin freeIds
           /\ i \in bag \/ ~Pushed(i)
           /\ ~PendingRemove[i] => InUse(i)
           /\ i \in bag => Pushed(i)
  <1>1. i \in Slots /\ (i \in bag \/ ~Pushed(i))
    BY RecoveryFacts DEF RecoveryInv, NamesInv
  <1>2. CASE ~Pushed(i)
    <2>1. dpc = "push" /\ handling.slot = i
      BY <1>2 DEF Pushed
    <2>2. handling.kind = "subscribe"
      BY <2>1, PushesSubscription, RecoveryFacts
    <2>3. i \notin bag /\ i \notin freeIds /\ Notified[i] = 0
      BY <2>1, <2>2, RecoveryFacts DEF HandlingMatches, Held, WalkInv
    <2> QED
      BY <1>1, <1>2, <2>3 DEF InUse
  <1>3. CASE i \in bag /\ Pushed(i)
    BY <1>1, <1>3, RecoveryFacts DEF RemovalsPending, InUse
  <1> QED
    BY <1>1, <1>2, <1>3

(* Who holds a slot, and who waits for one. *)
LEMMA OwnersDiffer ==
    ASSUME RecoveryInv, NEW c \in Clients, cpc[c] \notin {"subscribing", "dead"}
    PROVE  /\ dpc # "idle" /\ handling.kind = "subscribe" =>
                  /\ handling.slot \in Slots /\ handling.client \in Clients
                  /\ handling.client # c /\ Pid[handling.slot] = handling.client
           /\ \A d \in Clients : Subscribed(d) => slot[d] \in Slots /\ Pid[slot[d]] = d
  <1>1. dpc # "idle" /\ handling.kind = "subscribe" =>
                  /\ handling.slot \in Slots /\ handling.client \in Clients
                  /\ handling.client # c /\ Pid[handling.slot] = handling.client
    BY RecoveryFacts DEF HandlingMatches, Held, Keeps, Request
  <1>2. \A d \in Clients : Subscribed(d) => slot[d] \in Slots /\ Pid[slot[d]] = d
    BY RecoveryFacts DEF SubscribersHold, Keeps, TypeOK
  <1> QED
    BY <1>1, <1>2

-----------------------------------------------------------------------------
(* Slots without a cursor.                                                 *)

LEMMA ExcessKept ==
    ASSUME RecoveryInv, NEW i \in Slots, NoExcess(i),
           nextIndex' = nextIndex, NextIndex'[i] = NextIndex[i], sem'[i] \in 0..sem[i],
           Started(i)' <=> Started(i), Owed(i)' => Owed(i)
    PROVE  NoExcess(i)'
  <1>1. nextIndex \in Nat /\ NextIndex[i] \in Nat /\ sem[i] \in Nat
    BY RecoveryFacts DEF TypeOK
  <1>2. Tokens(i, 0) \in Int /\ Tokens(i, 0)' \in Int /\ Tokens(i, 0)' <= Tokens(i, 0)
    BY <1>1 DEF Tokens, One
  <1>3. sem[i] = 0 => sem'[i] = 0
    BY <1>1
  <1> QED
    BY <1>1, <1>2, <1>3 DEF NoExcess

(* A NotifyAll that is cut short raises no semaphore. *)
LEMMA ExcessCut ==
    ASSUME RecoveryInv, NEW i \in Slots, NoExcess(i),
           UNCHANGED <<nextIndex, NextIndex, Notified>>, sem'[i] = sem[i],
           ppc' = "idle", todo' = {}
    PROVE  NoExcess(i)'
  <1>1. nextIndex \in Nat /\ NextIndex[i] \in Nat /\ sem[i] \in Nat /\ NextIndex[i] <= nextIndex
    BY RecoveryFacts DEF TypeOK
  <1>2. Tokens(i, 0)' = sem[i] /\ Tokens(i, 0) \in Int /\ sem[i] <= Tokens(i, 0)
    BY <1>1 DEF Tokens, One, Owed
  <1>3. Started(i) => Started(i)'
    BY DEF Started
  <1>4. CASE Started(i)
    BY <1>1, <1>2, <1>3, <1>4 DEF NoExcess
  <1>5. CASE ~Started(i)
    <2>1. sem[i] = 0 /\ Tokens(i, 0)' = 0 /\ sem'[i] = 0
      BY <1>2, <1>5 DEF NoExcess
    <2>2. 0 <= nextIndex' - NextIndex'[i]
      BY <1>1
    <2> QED
      BY <2>1, <2>2 DEF NoExcess
  <1> QED
    BY <1>4, <1>5

LEMMA ExcessWalk ==
    ASSUME RecoveryInv, WalkStep, NEW i \in Slots, InUse(i), NoExcess(i)
    PROVE  NoExcess(i)'
  <1>1. /\ nextIndex \in Nat /\ NextIndex[i] \in Nat /\ sem[i] \in Nat /\ joined[i] \in Nat
        /\ nextIndex <= MaxMessages /\ MaxMessages \in Nat /\ CountInv
    BY RecoveryFacts, TopicAssumption DEF TypeOK
  <1>2. One(Owed(i)) \in 0..1
    BY OneType
  <1>3. Tokens(i, 0) \in Nat /\ Unread(i, FALSE, 0) = nextIndex - NextIndex[i]
    BY <1>1, <1>2 DEF Tokens, Unread
  <1>4. Balance(i, FALSE, 0, 0, MaxMessages)
    <2>1. CASE Started(i)
      <3>1. Tokens(i, 0) <= nextIndex - NextIndex[i]
        BY <2>1 DEF NoExcess
      <3>2. nextIndex - NextIndex[i] <= Tokens(i, 0) + MaxMessages
        BY <1>1, <1>3
      <3> QED
        BY <1>3, <2>1, <3>1, <3>2 DEF Balance
    <2>2. CASE ~Started(i)
      <3>1. sem[i] = 0 /\ nextIndex - joined[i] <= One(Owed(i)) + MaxMessages
        BY <1>1, <1>2, <2>2 DEF NoExcess
      <3> QED
        BY <2>2, <3>1 DEF Balance
    <2> QED
      BY <2>1, <2>2
  <1>5. FALSE \in BOOLEAN /\ 0 \in Nat /\ 0 \in 0..1
    OBVIOUS
  <1>6. Balance(i, FALSE, 0, 0, MaxMessages)'
    BY <1>1, <1>4, <1>5, BalanceWalk
  <1> QED
    BY <1>6 DEF Balance, NoExcess, Unread

(* A step that gives nobody a name and leaves its client alone. *)
LEMMA VacantKept ==
    ASSUME RecoveryInv, named' \subseteq named,
           UNCHANGED <<nextIndex, NextIndex, Notified, Pid, cpc, slot, ppc, todo, cur>>,
           \A i \in named' : PendingRemove[i] => PendingRemove'[i],
           \A i \in Slots : sem'[i] \in 0..sem[i],
           bag' \subseteq bag
    PROVE  VacantInv'
  <1> SUFFICES ASSUME NEW i \in Slots, Vacant(i)' PROVE NoExcess(i)'
    BY DEF VacantInv
  <1>1. Vacant(i)
    BY DEF Vacant, Running, Occupied
  <1>2. (Started(i)' <=> Started(i)) /\ (Owed(i)' => Owed(i))
    BY DEF Started, Owed
  <1>3. NoExcess(i)
    BY <1>1 DEF RecoveryInv, VacantInv
  <1> QED
    BY <1>2, <1>3, ExcessKept

(* A step of client c: nobody else's slot is vacated by it. *)
LEMMA VacantMove ==
    ASSUME RecoveryInv, NEW c \in Clients, named' \subseteq named,
           UNCHANGED <<nextIndex, NextIndex, Notified, PendingRemove, Pid, bag, ppc, todo, cur>>,
           \A d \in Clients : d # c => cpc'[d] = cpc[d] /\ slot'[d] = slot[d],
           \A i \in Slots : sem'[i] \in 0..sem[i],
           \A i \in named' : Pid[i] = c /\ Vacant(i)' => Vacant(i)
    PROVE  VacantInv'
  <1> SUFFICES ASSUME NEW i \in Slots, Vacant(i)' PROVE NoExcess(i)'
    BY DEF VacantInv
  <1>1. Vacant(i)
    <2>1. CASE Pid[i] = c
      BY <2>1 DEF Vacant
    <2>2. CASE Pid[i] # c
      <3>1. i \in named /\ Pid'[i] = Pid[i] /\ Pid[i] \in Clients \union {Nobody}
        BY RecoveryFacts DEF Vacant, TypeOK
      <3>2. Pid[i] \in Clients
        BY <3>1 DEF Vacant, Running
      <3> QED
        BY <2>2, <3>1, <3>2 DEF Vacant, Running, Occupied
    <2> QED
      BY <2>1, <2>2
  <1>2. (Started(i)' <=> Started(i)) /\ (Owed(i)' => Owed(i))
    BY DEF Started, Owed
  <1>3. NoExcess(i)
    BY <1>1 DEF RecoveryInv, VacantInv
  <1> QED
    BY <1>2, <1>3, ExcessKept

(* ... and nobody else's name. *)
LEMMA NamesMove ==
    ASSUME RecoveryInv, NEW c \in Clients,
           UNCHANGED <<Active, PendingRemove, Pid, up, bag, dpc, handling>>,
           \A d \in Clients : d # c => cpc'[d] = cpc[d] /\ slot'[d] = slot[d],
           \/ named' = named
           \/ named' = named \ {slot[c]} /\ Pid[slot[c]] = c /\ cpc[c] = "closing",
           \A i \in named' : PendingRemove[i] /\ Pid[i] = c /\ cpc'[c] # "dead" =>
               cpc'[c] \in {"leaving", "closing"} /\ slot'[c] = i,
           Subscribed(c)' => slot'[c] \in named',
           \A m \in 1..Len(queue') :
               queue'[m].kind = "unsubscribe" /\ cpc'[queue'[m].client] # "dead" =>
                   slot'[queue'[m].client] = queue'[m].slot
    PROVE  NamesInv'
  <1>0. \A d \in Clients : Subscribed(d) => slot[d] \in Slots /\ Pid[slot[d]] = d
    BY RecoveryFacts DEF SubscribersHold, Keeps, TypeOK
  <1>1. ASSUME NEW i \in named'
        PROVE  /\ Active'[i]
               /\ up' => i \in bag' \/ ~Pushed(i)'
               /\ PendingRemove'[i] /\ Running(Pid[i])' =>
                     cpc'[Pid'[i]] \in {"leaving", "closing"} /\ slot'[Pid'[i]] = i
    <2>1. i \in named /\ i \in Slots /\ Pid[i] \in Clients \union {Nobody}
      BY <1>1, RecoveryFacts DEF TypeOK
    <2>2. Active'[i] /\ (up' => i \in bag' \/ ~Pushed(i)')
      BY <2>1 DEF RecoveryInv, NamesInv, Pushed
    <2>3. CASE Pid[i] = c
      BY <1>1, <2>2, <2>3 DEF Running
    <2>4. CASE Pid[i] # c
      BY <2>1, <2>2, <2>4 DEF RecoveryInv, NamesInv, Running
    <2> QED
      BY <2>3, <2>4
  <1>2. ASSUME NEW d \in Clients, Subscribed(d)' PROVE slot'[d] \in named'
    <2>1. CASE d # c
      <3>1. Subscribed(d) /\ slot'[d] = slot[d]
        BY <1>2, <2>1 DEF Subscribed
      <3>2. slot[d] \in named /\ Pid[slot[d]] = d
        BY <1>0, <3>1 DEF RecoveryInv, NamesInv
      <3> QED
        BY <2>1, <3>1, <3>2
    <2> QED
      BY <1>2, <2>1
  <1>3. dpc' # "idle" /\ handling'.kind = "subscribe" => handling'.slot \in named'
    <2>1. dpc # "idle" /\ handling.kind = "subscribe" => handling.slot \in named
      BY DEF RecoveryInv, NamesInv
    <2> QED
      BY <2>1, OwnersDiffer
  <1> QED
    BY <1>1, <1>2, <1>3 DEF NamesInv

-----------------------------------------------------------------------------
(* The steps of the server's threads.                                      *)

(* What is left in the queue when its first request is taken. *)
LEMMA RestOfQueue ==
    ASSUME RecoveryInv, queue # <<>>, queue' = Tail(queue)
    PROVE  \A m \in 1..Len(queue') :
               /\ queue'[m].client # Head(queue).client /\ queue'[m].client \in Clients
               /\ queue'[m].kind = "unsubscribe" /\ cpc[queue'[m].client] # "dead" =>
                      slot[queue'[m].client] = queue'[m].slot
  <1> SUFFICES ASSUME NEW m \in 1..Len(queue')
               PROVE  /\ queue'[m].client # Head(queue).client /\ queue'[m].client \in Clients
                      /\ queue'[m].kind = "unsubscribe" /\ cpc[queue'[m].client] # "dead" =>
                             slot[queue'[m].client] = queue'[m].slot
    OBVIOUS
  <1>1. /\ m + 1 \in 1..Len(queue) /\ queue'[m] = queue[m + 1]
        /\ queue[m + 1].client # Head(queue).client
    BY FirstRequest, RecoveryFacts
  <1>2. queue[m + 1].client \in Clients
    BY <1>1, QueuedRequest, RecoveryFacts
  <1> QED
    BY <1>1, <1>2 DEF RecoveryInv, NamesInv

LEMMA QueueKept ==
    ASSUME RecoveryInv, NEW c \in Clients, queue' = queue,
           cpc[c] \notin {"subscribing", "leaving"} \/ cpc'[c] = "dead",
           \A d \in Clients : d # c => cpc'[d] = cpc[d] /\ slot'[d] = slot[d],
           cpc[c] = "dead" => cpc'[c] = "dead"
    PROVE  \A m \in 1..Len(queue') :
               queue'[m].kind = "unsubscribe" /\ cpc'[queue'[m].client] # "dead" =>
                   slot'[queue'[m].client] = queue'[m].slot
  <1> SUFFICES ASSUME NEW m \in 1..Len(queue), queue[m].kind = "unsubscribe",
                      cpc'[queue[m].client] # "dead"
               PROVE  slot'[queue[m].client] = queue[m].slot
    OBVIOUS
  <1>1. /\ queue[m].client \in Clients
        /\ cpc[queue[m].client] \in {"subscribing", "leaving", "dead"}
    BY QueuedRequest, RecoveryFacts
  <1>2. queue[m].client # c
    BY <1>1
  <1> QED
    BY <1>1, <1>2 DEF RecoveryInv, NamesInv

LEMMA NamesTakeSubscribe ==
    ASSUME RecoveryInv, NEW i \in Slots, TakeSubscribe(i), named' = named \union {i}
    PROVE  NamesInv' /\ VacantInv'
  <1>1. /\ i \notin bag /\ todo \subseteq bag /\ up /\ dpc = "idle" /\ dpc' = "push"
        /\ queue # <<>> /\ queue' = Tail(queue)
        /\ UNCHANGED <<nextIndex, NextIndex, up, bag, cpc, slot, ppc, todo, cur>>
    BY RecoveryFacts DEF TakeSubscribe, RemovalsPending, pubVars, clientVars
  <1>2. /\ Active'[i] /\ ~PendingRemove'[i] /\ Notified'[i] = 0 /\ sem'[i] = 0
        /\ \A j \in Slots : j # i =>
              /\ Active'[j] = Active[j] /\ PendingRemove'[j] = PendingRemove[j]
              /\ Pid'[j] = Pid[j] /\ Notified'[j] = Notified[j] /\ sem'[j] = sem[j]
    BY RecoveryFacts DEF TakeSubscribe, TypeOK
  <1>3. handling'.slot = i
    BY FirstRequest, RecoveryFacts DEF TakeSubscribe, Request
  <1>4. NamesInv'
    <2>1. ASSUME NEW j \in named'
          PROVE  /\ Active'[j]
                 /\ up' => j \in bag' \/ ~Pushed(j)'
                 /\ PendingRemove'[j] /\ Running(Pid[j])' =>
                       cpc'[Pid'[j]] \in {"leaving", "closing"} /\ slot'[Pid'[j]] = j
      <3>1. CASE j = i
        BY <1>1, <1>2, <1>3, <3>1 DEF Pushed
      <3>2. CASE j # i
        <4>1. j \in named /\ j \in Slots /\ Pushed(j)
          BY <1>1, <2>1, <3>2, RecoveryFacts DEF Pushed
        <4> QED
          BY <1>1, <1>2, <3>2, <4>1 DEF RecoveryInv, NamesInv, Running
      <3> QED
        BY <3>1, <3>2
    <2>2. \A c \in Clients : Subscribed(c)' => slot'[c] \in named'
      BY <1>1 DEF RecoveryInv, NamesInv, Subscribed
    <2>3. \A m \in 1..Len(queue') :
              queue'[m].kind = "unsubscribe" /\ cpc'[queue'[m].client] # "dead" =>
                  slot'[queue'[m].client] = queue'[m].slot
      BY <1>1, RestOfQueue
    <2> QED
      BY <1>3, <2>1, <2>2, <2>3 DEF NamesInv
  <1>5. VacantInv'
    <2> SUFFICES ASSUME NEW j \in Slots, Vacant(j)' PROVE NoExcess(j)'
      BY DEF VacantInv
    <2>1. CASE j = i
      BY <1>2, <2>1 DEF NoExcess, Started
    <2>2. CASE j # i
      <3>1. Vacant(j)
        BY <1>1, <1>2, <2>2 DEF Vacant, Running, Occupied
      <3>2. (Started(j)' <=> Started(j)) /\ (Owed(j)' => Owed(j)) /\ sem'[j] \in 0..sem[j]
        BY <1>1, <1>2, <2>2, RecoveryFacts DEF Started, Owed, TypeOK
      <3>3. NoExcess(j)
        BY <3>1 DEF RecoveryInv, VacantInv
      <3> QED
        BY <1>1, <3>2, <3>3, ExcessKept
    <2> QED
      BY <2>1, <2>2
  <1> QED
    BY <1>4, <1>5

LEMMA NamesPush ==
    ASSUME RecoveryInv, PushSubscription, named' = named
    PROVE  NamesInv' /\ VacantInv'
  <1>1. /\ up /\ dpc = "push" /\ dpc' = "answer" /\ handling.kind = "subscribe"
        /\ bag' = bag \union {handling.slot}
        /\ UNCHANGED <<nextIndex, NextIndex, Notified, PendingRemove, Active, Pid, sem, queue,
                       handling, up, cpc, slot, ppc, todo, cur>>
    BY PushesSubscription, RecoveryFacts DEF PushSubscription, tableVars, pubVars, clientVars
  <1>2. NamesInv'
    BY <1>1 DEF RecoveryInv, NamesInv, Subscribed, Running, Pushed
  <1>3. VacantInv'
    <2> SUFFICES ASSUME NEW j \in Slots, Vacant(j)' PROVE NoExcess(j)'
      BY DEF VacantInv
    <2>1. Vacant(j) /\ NoExcess(j)
      BY <1>1 DEF Vacant, Running, Occupied, RecoveryInv, VacantInv
    <2>2. CASE j = handling.slot
      <3>1. Notified[j] = 0
        BY <1>1, <2>2, RecoveryFacts DEF WalkInv
      <3>2. ~Started(j) /\ ~Started(j)'
        BY <1>1, <3>1 DEF Started
      <3> QED
        BY <1>1, <2>1, <3>2 DEF NoExcess
    <2>3. CASE j # handling.slot
      <3>1. (Started(j)' <=> Started(j)) /\ (Owed(j)' => Owed(j)) /\ sem'[j] \in 0..sem[j]
        BY <1>1, <2>3, RecoveryFacts DEF Started, Owed, TypeOK
      <3> QED
        BY <1>1, <2>1, <3>1, ExcessKept
    <2> QED
      BY <2>2, <2>3
  <1> QED
    BY <1>2, <1>3

LEMMA NamesTakeUnsubscribe ==
    ASSUME RecoveryInv, TakeUnsubscribe, named' = named
    PROVE  NamesInv' /\ VacantInv'
  <1> DEFINE r == Head(queue)
  <1>1. /\ up /\ dpc = "idle" /\ dpc' = "answer" /\ handling' = r
        /\ queue # <<>> /\ queue' = Tail(queue) /\ r.kind = "unsubscribe"
        /\ UNCHANGED <<nextIndex, NextIndex, Notified, Active, Pid, sem, up, bag, cpc, slot,
                       ppc, todo, cur>>
    BY DEF TakeUnsubscribe, pubVars, clientVars
  <1>2. \A j \in Slots : PendingRemove'[j] <=>
             PendingRemove[j] \/ (j = r.slot /\ Pid[j] = r.client)
    BY FirstRequest, RecoveryFacts DEF TakeUnsubscribe, TypeOK, Request
  <1>3. /\ cpc[r.client] \in {"leaving", "dead"}
        /\ cpc[r.client] # "dead" => slot[r.client] = r.slot
    <2>1. r = queue[1] /\ 1 \in 1..Len(queue)
      BY <1>1, RecoveryFacts DEF TypeOK
    <2> QED
      BY <1>1, <2>1, FirstRequest, RecoveryFacts DEF RecoveryInv, NamesInv
  <1>4. NamesInv'
    <2>1. ASSUME NEW j \in named'
          PROVE  /\ Active'[j]
                 /\ up' => j \in bag' \/ ~Pushed(j)'
                 /\ PendingRemove'[j] /\ Running(Pid[j])' =>
                       cpc'[Pid'[j]] \in {"leaving", "closing"} /\ slot'[Pid'[j]] = j
      <3>1. j \in named /\ j \in Slots /\ Pushed(j)
        BY <1>1, <2>1, RecoveryFacts DEF Pushed
      <3> QED
        BY <1>1, <1>2, <1>3, <3>1 DEF RecoveryInv, NamesInv, Running
    <2>2. \A c \in Clients : Subscribed(c)' => slot'[c] \in named'
      BY <1>1 DEF RecoveryInv, NamesInv, Subscribed
    <2>3. \A m \in 1..Len(queue') :
              queue'[m].kind = "unsubscribe" /\ cpc'[queue'[m].client] # "dead" =>
                  slot'[queue'[m].client] = queue'[m].slot
      BY <1>1, RestOfQueue
    <2> QED
      BY <1>1, <2>1, <2>2, <2>3 DEF NamesInv
  <1>5. VacantInv'
    <2>1. \A j \in Slots : sem'[j] \in 0..sem[j]
      BY <1>1, RecoveryFacts DEF TypeOK
    <2>2. \A j \in named' : PendingRemove'[j] = PendingRemove[j] \/ PendingRemove'[j]
      <3>1. PendingRemove' \in [Slots -> BOOLEAN] /\ PendingRemove \in [Slots -> BOOLEAN]
        BY RecoveryFacts DEF TakeUnsubscribe, TypeOK
      <3> QED
        BY <1>2, <3>1, RecoveryFacts
    <2> QED
      BY <1>1, <2>1, <2>2, VacantKept
  <1> QED
    BY <1>4, <1>5

LEMMA NamesAnswer ==
    ASSUME RecoveryInv, Answer, named' = named
    PROVE  NamesInv' /\ VacantInv'
  <1> DEFINE h == handling.client
  <1>1. /\ UNCHANGED <<nextIndex, NextIndex, Notified, PendingRemove, Active, Pid, sem, queue,
                       up, bag, ppc, todo, cur>>
        /\ up /\ dpc = "answer" /\ dpc' = "idle"
    BY DEF Answer, tableVars, pubVars
  <1>2. /\ h \in Clients /\ handling.kind \in {"subscribe", "unsubscribe"}
        /\ handling.kind = "subscribe" => cpc[h] \in {"subscribing", "dead"}
        /\ handling.kind = "unsubscribe" => cpc[h] \in {"leaving", "dead"}
    BY <1>1, RecoveryFacts DEF HandlingMatches, Request
  <1>3. \A c \in Clients : c # h => cpc'[c] = cpc[c] /\ slot'[c] = slot[c]
    BY RecoveryFacts DEF Answer, clientVars, TypeOK
  <1>4. \/ /\ cpc[h] = "subscribing" /\ handling.kind = "subscribe"
           /\ cpc'[h] = "granted" /\ slot'[h] = handling.slot
        \/ cpc[h] = "leaving" /\ cpc'[h] = "closing" /\ slot'[h] = slot[h]
        \/ cpc[h] = "dead" /\ cpc'[h] = "dead" /\ slot'[h] = slot[h]
    BY <1>2, RecoveryFacts DEF Answer, clientVars, TypeOK
  <1>5. NamesInv'
    <2>1. ASSUME NEW j \in named'
          PROVE  /\ Active'[j]
                 /\ up' => j \in bag' \/ ~Pushed(j)'
                 /\ PendingRemove'[j] /\ Running(Pid[j])' =>
                       cpc'[Pid'[j]] \in {"leaving", "closing"} /\ slot'[Pid'[j]] = j
      <3>1. /\ j \in named /\ j \in Slots /\ Pushed(j) /\ Pid[j] \in Clients \union {Nobody}
            /\ Active[j] /\ (up => j \in bag)
            /\ PendingRemove[j] /\ Running(Pid[j]) =>
                  cpc[Pid[j]] \in {"leaving", "closing"} /\ slot[Pid[j]] = j
        BY <1>1, <2>1, RecoveryFacts DEF Pushed, TypeOK, RecoveryInv, NamesInv
      <3>2. CASE Pid[j] = h
        BY <1>1, <1>4, <3>1, <3>2 DEF Running
      <3>3. CASE Pid[j] # h
        BY <1>1, <1>3, <3>1, <3>3 DEF Running
      <3> QED
        BY <3>2, <3>3
    <2>2. ASSUME NEW c \in Clients, Subscribed(c)' PROVE slot'[c] \in named'
      <3>1. CASE c # h
        BY <1>3, <2>2, <3>1 DEF RecoveryInv, NamesInv, Subscribed
      <3>2. CASE c = h
        BY <1>1, <1>4, <2>2, <3>2 DEF RecoveryInv, NamesInv, Subscribed
      <3> QED
        BY <3>1, <3>2
    <2>3. ASSUME NEW m \in 1..Len(queue)
          PROVE  queue[m].kind = "unsubscribe" /\ cpc'[queue[m].client] # "dead" =>
                     slot'[queue[m].client] = queue[m].slot
      <3>1. queue[m].client \in Clients /\ queue[m].client # h
        BY <1>1, QueuedRequest, RecoveryFacts
      <3> QED
        BY <1>3, <3>1 DEF RecoveryInv, NamesInv
    <2> QED
      BY <1>1, <2>1, <2>2, <2>3 DEF NamesInv
  <1>6. VacantInv'
    <2>1. \A j \in Slots : sem'[j] \in 0..sem[j]
      BY <1>1, RecoveryFacts DEF TypeOK
    <2>2. \A j \in named' : Pid[j] = h /\ Vacant(j)' => Vacant(j)
      BY <1>1, <1>4 DEF Vacant, Running, Occupied
    <2> QED
      BY <1>1, <1>2, <1>3, <2>1, <2>2, VacantMove
  <1> QED
    BY <1>5, <1>6

LEMMA NamesRemove ==
    ASSUME RecoveryInv, NEW i \in Slots, RemoveSubscription(i), named' = named \ {i}
    PROVE  NamesInv' /\ VacantInv'
  <1>1. /\ UNCHANGED <<nextIndex, NextIndex, Notified, Active, Pid, sem, queue, up, dpc, handling,
                       cpc, slot, todo>>
        /\ up /\ bag' = bag \ {i} /\ ppc = "remove" /\ ppc' = "deactivate" /\ i \in doomed
        /\ PendingRemove[i] /\ todo = {}
    BY RecoveryFacts DEF RemoveSubscription, dispVars, clientVars, RemovalsPending
  <1>2. \A j \in Slots : j # i => PendingRemove'[j] = PendingRemove[j]
    BY RecoveryFacts DEF RemoveSubscription, TypeOK
  <1>3. NamesInv'
    <2>1. ASSUME NEW j \in named'
          PROVE  /\ Active'[j]
                 /\ up' => j \in bag' \/ ~Pushed(j)'
                 /\ PendingRemove'[j] /\ Running(Pid[j])' =>
                       cpc'[Pid'[j]] \in {"leaving", "closing"} /\ slot'[Pid'[j]] = j
      <3>1. j \in named /\ j \in Slots /\ j # i
        BY <2>1, RecoveryFacts
      <3> QED
        BY <1>1, <1>2, <3>1 DEF RecoveryInv, NamesInv, Running, Pushed
    <2>2. ASSUME NEW c \in Clients, Subscribed(c)' PROVE slot'[c] \in named'
      <3>1. Subscribed(c)
        BY <1>1, <2>2 DEF Subscribed
      <3>2. slot[c] \in named /\ ~PendingRemove[slot[c]]
        BY <3>1, RecoveryFacts DEF RecoveryInv, NamesInv, SubscribersHold, Keeps
      <3> QED
        BY <1>1, <3>2
    <2>3. dpc # "idle" /\ handling.kind = "subscribe" => handling.slot \in named'
      BY <1>1, HandlingHeld, RecoveryFacts DEF RecoveryInv, NamesInv, Held, Keeps
    <2> QED
      BY <1>1, <2>1, <2>2, <2>3 DEF RecoveryInv, NamesInv
  <1>4. VacantInv'
    <2> SUFFICES ASSUME NEW j \in Slots, Vacant(j)' PROVE NoExcess(j)'
      BY DEF VacantInv
    <2>1. Vacant(j) /\ j # i
      BY <1>1, <1>2 DEF Vacant, Running, Occupied
    <2>2. NoExcess(j) /\ (Started(j)' <=> Started(j)) /\ (Owed(j)' => Owed(j))
      BY <1>1, <2>1 DEF RecoveryInv, VacantInv, Started, Owed
    <2>3. sem'[j] \in 0..sem[j]
      BY <1>1, RecoveryFacts DEF TypeOK
    <2> QED
      BY <1>1, <2>2, <2>3, ExcessKept
  <1> QED
    BY <1>3, <1>4

LEMMA NamesDeactivate ==
    ASSUME RecoveryInv, Deactivate, named' = named
    PROVE  NamesInv' /\ VacantInv'
  <1>1. /\ UNCHANGED <<nextIndex, NextIndex, Notified, PendingRemove, Pid, sem, queue, up, bag,
                       dpc, handling, cpc, slot, todo, cur>>
        /\ up /\ ppc = "deactivate" /\ ppc' = "remove" /\ todo = {}
        /\ cur \notin bag /\ (dpc = "push" => handling.slot # cur)
    BY RecoveryFacts DEF Deactivate, clientVars, RemovalsPending
  <1>2. cur \notin named
    BY <1>1 DEF RecoveryInv, NamesInv, Pushed
  <1>3. \A j \in Slots : j # cur => Active'[j] = Active[j]
    BY RecoveryFacts DEF Deactivate, TypeOK
  <1>4. NamesInv'
    <2>1. ASSUME NEW j \in named'
          PROVE  /\ Active'[j]
                 /\ up' => j \in bag' \/ ~Pushed(j)'
                 /\ PendingRemove'[j] /\ Running(Pid[j])' =>
                       cpc'[Pid'[j]] \in {"leaving", "closing"} /\ slot'[Pid'[j]] = j
      <3>1. j \in named /\ j \in Slots /\ j # cur
        BY <1>2, <2>1, RecoveryFacts
      <3> QED
        BY <1>1, <1>3, <3>1 DEF RecoveryInv, NamesInv, Running, Pushed
    <2> QED
      BY <1>1, <2>1 DEF RecoveryInv, NamesInv, Subscribed
  <1>5. VacantInv'
    <2> SUFFICES ASSUME NEW j \in Slots, Vacant(j)' PROVE NoExcess(j)'
      BY DEF VacantInv
    <2>1. Vacant(j)
      BY <1>1 DEF Vacant, Running, Occupied
    <2>2. NoExcess(j) /\ (Started(j)' <=> Started(j)) /\ (Owed(j)' => Owed(j))
      BY <1>1, <2>1 DEF RecoveryInv, VacantInv, Started, Owed
    <2>3. sem'[j] \in 0..sem[j]
      BY <1>1, RecoveryFacts DEF TypeOK
    <2> QED
      BY <1>1, <2>2, <2>3, ExcessKept
  <1> QED
    BY <1>4, <1>5

LEMMA NamesWalk ==
    ASSUME RecoveryInv, WalkStep, named' = named
    PROVE  NamesInv' /\ VacantInv'
  <1>1. UNCHANGED <<queue, cpc, dpc, handling, bag, up, slot, Pid, Active, PendingRemove>>
    BY WalkKeepsSlots
  <1>2. up
    BY DEF WalkStep, PublishMessage, BeginNotify, SetAside, CountNotification, RemovalMissed,
           SetStart, ReleaseSemaphore, EndVisits, EndNotify
  <1>3. NamesInv'
    BY <1>1 DEF RecoveryInv, NamesInv, Subscribed, Running, Pushed
  <1>4. VacantInv'
    <2> SUFFICES ASSUME NEW j \in Slots, Vacant(j)' PROVE NoExcess(j)'
      BY DEF VacantInv
    <2>1. Vacant(j)
      BY <1>1 DEF Vacant, Running, Occupied
    <2>2. NoExcess(j) /\ InUse(j)
      BY <1>2, <2>1, NamedServed DEF RecoveryInv, VacantInv, Vacant
    <2> QED
      BY <2>2, ExcessWalk
  <1> QED
    BY <1>3, <1>4

LEMMA ServerLives ==
    ASSUME RecoveryInv, ServerStep
    PROVE  RecoveryInv'
  <1>1. UNCHANGED <<bare, old, crashes>> /\ [Next]_vars
    BY DEF ServerStep, Next, Dispatcher, NotifyAll
  <1>2. TokenInv(crashes)'
    <2>1. PICK n \in Nat : n = crashes
      BY RecoveryFacts
    <2>2. TokenInv(n)'
      BY <1>1, <2>1, TokenStep, RecoveryFacts
    <2> QED
      BY <1>1, <2>1, <2>2
  <1>3. NamesInv' /\ VacantInv'
    BY NamesTakeSubscribe, NamesPush, NamesTakeUnsubscribe, NamesAnswer, NamesRemove,
       NamesDeactivate, NamesWalk DEF ServerStep, WalkStep
  <1>4. up /\ up'
    BY DEF ServerStep, TakeSubscribe, SetAside, CountNotification, RemoveSubscription,
           RemovalMissed, PushSubscription, TakeUnsubscribe, Answer, PublishMessage, BeginNotify,
           SetStart, ReleaseSemaphore, EndVisits, Deactivate, EndNotify, dispVars
  <1>5. named' \subseteq Slots /\ released' \subseteq Slots
    <2>1. named \subseteq Slots /\ released \subseteq Slots /\ cur \in Slots
      BY RecoveryFacts DEF RecoveryInv, BookInv, TypeOK
    <2> QED
      BY <2>1 DEF ServerStep
  <1>6. \A c \in Clients : cpc'[c] = "misled" => cpc[c] = "misled"
    <2>1. CASE Answer
      BY <2>1, RecoveryFacts DEF Answer, TypeOK
    <2>2. CASE ~Answer
      <3>1. cpc' = cpc
        BY <2>2 DEF ServerStep, TakeSubscribe, SetAside, CountNotification, RemoveSubscription,
           RemovalMissed, PushSubscription, TakeUnsubscribe, PublishMessage, BeginNotify,
           SetStart, ReleaseSemaphore, EndVisits, Deactivate, EndNotify
      <3> QED
        BY <3>1
    <2> QED
      BY <2>1, <2>2
  <1>7. BookInv'
    BY <1>1, <1>4, <1>5, <1>6 DEF RecoveryInv, BookInv
  <1> QED
    BY <1>2, <1>3, <1>7 DEF RecoveryInv

-----------------------------------------------------------------------------
(* The steps of a client that lives.                                       *)

LEMMA RequestQueued ==
    ASSUME RecoveryInv, NEW c \in Clients, NEW r \in Request, queue' = Append(queue, r),
           r.client = c, slot' = slot, r.kind = "unsubscribe" => r.slot = slot[c],
           cpc[c] \notin {"subscribing", "leaving", "dead"},
           \A d \in Clients : d # c => cpc'[d] = cpc[d]
    PROVE  \A m \in 1..Len(queue') :
               queue'[m].kind = "unsubscribe" /\ cpc'[queue'[m].client] # "dead" =>
                   slot'[queue'[m].client] = queue'[m].slot
  <1> SUFFICES ASSUME NEW m \in 1..Len(queue'), queue'[m].kind = "unsubscribe",
                      cpc'[queue'[m].client] # "dead"
               PROVE  slot'[queue'[m].client] = queue'[m].slot
    OBVIOUS
  <1>1. queue \in Seq(Request)
    BY RecoveryFacts DEF TypeOK
  <1>2. \/ m \in 1..Len(queue) /\ queue'[m] = queue[m]
        \/ queue'[m] = r
    BY <1>1
  <1>3. CASE m \in 1..Len(queue) /\ queue'[m] = queue[m]
    <2>1. /\ queue[m].client \in Clients
          /\ cpc[queue[m].client] \in {"subscribing", "leaving", "dead"}
      BY <1>3, QueuedRequest, RecoveryFacts
    <2>2. queue[m].client # c
      BY <2>1
    <2> QED
      BY <1>3, <2>1, <2>2 DEF RecoveryInv, NamesInv
  <1>4. CASE queue'[m] = r
    BY <1>4
  <1> QED
    BY <1>2, <1>3, <1>4

LEMMA NamesClient ==
    ASSUME RecoveryInv, TokenInv(crashes)', NEW c \in Clients, ClientStep(c)
    PROVE  NamesInv' /\ VacantInv'
  <1>1. /\ cpc \in [Clients -> ClientStates] /\ slot \in [Clients -> Slots]
        /\ sem \in [Slots -> Nat]
    BY RecoveryFacts DEF TypeOK
  <1>2. /\ UNCHANGED <<nextIndex, NextIndex, Notified, PendingRemove, Active, Pid, up, bag, dpc,
                       handling, ppc, todo, cur>>
        /\ \A d \in Clients : d # c => cpc'[d] = cpc[d] /\ slot'[d] = slot[d]
    BY <1>1 DEF ClientStep, Subscribe, OpenSemaphore, Acquire, ReadMessage, Unsubscribe,
                CloseCursor, tableVars, dispVars, pubVars, clientVars
  <1>3. \A j \in Slots : sem'[j] \in 0..sem[j]
    BY <1>1 DEF ClientStep, Subscribe, OpenSemaphore, Acquire, ReadMessage, Unsubscribe,
                CloseCursor
  <1>4. ASSUME NEW j \in named, PendingRemove[j], Pid[j] = c, cpc[c] # "dead"
        PROVE  cpc[c] \in {"leaving", "closing"} /\ slot[c] = j
    <2>1. c # Nobody
      BY ClientsAssumption
    <2> QED
      BY <1>4, <2>1 DEF RecoveryInv, NamesInv, Running
  <1>5. CASE Subscribe(c)
    <2>1. /\ cpc[c] = "out" /\ cpc'[c] = "subscribing" /\ slot' = slot /\ named' = named
          /\ queue' = Append(queue, [kind |-> "subscribe", client |-> c, slot |-> 0])
      BY <1>1, <1>5 DEF Subscribe, clientVars, ClientStep, CloseCursor, OpenSemaphore
    <2>2. [kind |-> "subscribe", client |-> c, slot |-> 0] \in Request
      BY TopicAssumption DEF Request, Slots
    <2>3. \A m \in 1..Len(queue') :
               queue'[m].kind = "unsubscribe" /\ cpc'[queue'[m].client] # "dead" =>
                   slot'[queue'[m].client] = queue'[m].slot
      BY <1>2, <2>1, <2>2, RequestQueued
    <2>4. NamesInv'
      BY <1>2, <1>4, <2>1, <2>3, NamesMove DEF Subscribed
    <2>5. VacantInv'
      <3>1. \A j \in named' : Pid[j] = c /\ Vacant(j)' => Vacant(j)
        BY <1>2, <2>1 DEF Vacant, Running, Occupied
      <3> QED
        BY <1>2, <1>3, <2>1, <3>1, VacantMove
    <2> QED
      BY <2>4, <2>5
  <1>6. CASE Unsubscribe(c)
    <2>1. /\ cpc[c] = "ready" /\ cpc'[c] = "leaving" /\ slot' = slot /\ named' = named
          /\ queue' = Append(queue, [kind |-> "unsubscribe", client |-> c, slot |-> slot[c]])
      BY <1>1, <1>6 DEF Unsubscribe, clientVars, ClientStep, CloseCursor, OpenSemaphore
    <2>2. [kind |-> "unsubscribe", client |-> c, slot |-> slot[c]] \in Request
      BY <1>1 DEF Request
    <2>3. \A m \in 1..Len(queue') :
               queue'[m].kind = "unsubscribe" /\ cpc'[queue'[m].client] # "dead" =>
                   slot'[queue'[m].client] = queue'[m].slot
      BY <1>2, <2>1, <2>2, RequestQueued
    <2>4. NamesInv'
      BY <1>2, <1>4, <2>1, <2>3, NamesMove DEF Subscribed
    <2>5. VacantInv'
      <3>1. \A j \in named' : Pid[j] = c /\ Vacant(j)' => Vacant(j)
        BY <1>2, <2>1 DEF Vacant, Running, Occupied
      <3> QED
        BY <1>2, <1>3, <2>1, <3>1, VacantMove
    <2> QED
      BY <2>4, <2>5
  <1>7. CASE OpenSemaphore(c) \/ Acquire(c) \/ ReadMessage(c)
    <2>1. /\ cpc[c] \in {"granted", "ready", "holding"} /\ queue' = queue
          /\ cpc'[c] \in {"ready", "holding", "failed"} /\ slot' = slot /\ named' = named
      BY <1>1, <1>7 DEF OpenSemaphore, Acquire, ReadMessage, clientVars, ClientStep, CloseCursor
    <2>2. cpc'[c] # "failed"
      BY DEF TokenInv, CursorInv
    <2>3. \A m \in 1..Len(queue') :
               queue'[m].kind = "unsubscribe" /\ cpc'[queue'[m].client] # "dead" =>
                   slot'[queue'[m].client] = queue'[m].slot
      BY <1>2, <2>1, QueueKept
    <2>4. NamesInv'
      <3>1. Subscribed(c) /\ slot[c] \in named
        BY <2>1 DEF Subscribed, RecoveryInv, NamesInv
      <3> QED
        BY <1>2, <1>4, <2>1, <2>3, <3>1, NamesMove
    <2>5. VacantInv'
      <3>1. \A j \in named' : Pid[j] = c /\ Vacant(j)' => Vacant(j)
        BY <1>2, <2>1, <2>2 DEF Vacant, Running, Occupied
      <3> QED
        BY <1>2, <1>3, <2>1, <3>1, VacantMove
    <2> QED
      BY <2>4, <2>5
  <1>8. CASE CloseCursor(c)
    <2>1. cpc[c] = "closing" /\ queue' = queue /\ cpc'[c] = "out" /\ slot'[c] = 0
      BY <1>1, <1>8 DEF CloseCursor
    <2>2. named' = IF FindsSemaphore(c) THEN named \ {slot[c]} ELSE named
      BY <2>1 DEF ClientStep, OpenSemaphore, Subscribe, Acquire, ReadMessage, Unsubscribe
    <2>3. \A m \in 1..Len(queue') :
               queue'[m].kind = "unsubscribe" /\ cpc'[queue'[m].client] # "dead" =>
                   slot'[queue'[m].client] = queue'[m].slot
      BY <1>2, <2>1, QueueKept
    <2>4. \A j \in named' : ~(Pid[j] = c /\ slot[c] = j)
      BY <2>2 DEF FindsSemaphore
    <2>5. NamesInv'
      <3>1. \/ named' = named
            \/ named' = named \ {slot[c]} /\ Pid[slot[c]] = c /\ cpc[c] = "closing"
        BY <2>1, <2>2 DEF FindsSemaphore
      <3>2. \A j \in named' : ~(PendingRemove[j] /\ Pid[j] = c)
        BY <1>4, <2>1, <2>2, <2>4
      <3> QED
        BY <1>2, <2>1, <2>3, <3>1, <3>2, NamesMove DEF Subscribed
    <2>6. VacantInv'
      <3>1. named' \subseteq named
        BY <2>2
      <3>2. \A j \in named' : Pid[j] = c /\ Vacant(j)' => Vacant(j)
        BY <1>2, <2>1, <2>4, <3>1 DEF Vacant, Running, Occupied
      <3> QED
        BY <1>2, <1>3, <3>1, <3>2, VacantMove
    <2> QED
      BY <2>5, <2>6
  <1> QED
    BY <1>5, <1>6, <1>7, <1>8 DEF ClientStep

LEMMA ClientLives ==
    ASSUME RecoveryInv, NEW c \in Clients, ClientStep(c)
    PROVE  RecoveryInv'
  <1>1. UNCHANGED <<bare, old, released, crashes>> /\ [Next]_vars
    BY DEF ClientStep, Next, Read, Leave
  <1>2. TokenInv(crashes)'
    <2>1. PICK n \in Nat : n = crashes
      BY RecoveryFacts
    <2>2. TokenInv(n)'
      BY <1>1, <2>1, TokenStep, RecoveryFacts
    <2> QED
      BY <1>1, <2>1, <2>2
  <1>3. NamesInv' /\ VacantInv'
    BY <1>2, NamesClient
  <1>4. UNCHANGED <<up, bag, freeIds, ppc, dpc>> /\ named' \subseteq named
    BY DEF ClientStep, Subscribe, OpenSemaphore, Acquire, ReadMessage, Unsubscribe, CloseCursor,
           dispVars, pubVars
  <1>5. \A d \in Clients : cpc'[d] = "misled" => cpc[d] = "misled"
    BY RecoveryFacts DEF ClientStep, Subscribe, OpenSemaphore, Acquire, ReadMessage, Unsubscribe,
                         CloseCursor, TypeOK
  <1>6. BookInv'
    BY <1>1, <1>4, <1>5 DEF RecoveryInv, BookInv
  <1> QED
    BY <1>2, <1>3, <1>6 DEF RecoveryInv

-----------------------------------------------------------------------------
(* Deaths of the server, and its start without the topic.                  *)

LEMMA StartOfServer ==
    ASSUME RecoveryInv, ServerStarts \/ UNCHANGED recoveryVars
    PROVE  RecoveryInv'
  <1>1. UNCHANGED vars /\ UNCHANGED <<named, released, crashes>>
    BY DEF ServerStarts, recoveryVars
  <1>2. PICK n \in Nat : n = crashes
    BY RecoveryFacts
  <1>3. TokenInv(n)'
    BY <1>1, <1>2, TokenStep, RecoveryFacts
  <1>4. UNCHANGED <<nextIndex, NextIndex, Notified, PendingRemove, Active, Pid, sem, queue, up,
                    freeIds, bag, dpc, handling, ppc, todo, cur, cpc, slot>>
    BY <1>1 DEF vars, tableVars, dispVars, pubVars, clientVars
  <1>5. NamesInv'
    BY <1>1, <1>4 DEF RecoveryInv, NamesInv, Subscribed, Running, Pushed
  <1>6. VacantInv'
    <2>1. \A i \in Slots : sem'[i] \in 0..sem[i]
      BY <1>4, RecoveryFacts DEF TypeOK
    <2> QED
      BY <1>1, <1>4, <2>1, VacantKept
  <1>7. BookInv'
    <2>1. bare' \in BOOLEAN /\ old' \in Nat /\ (bare' => ~up)
      <3>1. queue \in Seq(Request)
        BY RecoveryFacts DEF TypeOK
      <3>2. Len(queue) \in Nat
        BY <3>1
      <3>3. CASE ServerStarts
        BY <3>2, <3>3 DEF ServerStarts
      <3>4. CASE UNCHANGED recoveryVars
        BY <3>4 DEF recoveryVars, RecoveryInv, BookInv
      <3> QED
        BY <3>3, <3>4
    <2> QED
      BY <1>1, <1>4, <2>1 DEF RecoveryInv, BookInv
  <1> QED
    BY <1>1, <1>2, <1>3, <1>5, <1>6, <1>7 DEF RecoveryInv

(* A NotifyAll that is cut short costs a slot in use one token at most; a   *)
(* slot that was waiting for its start keeps the one it has.                *)
LEMMA BalanceCut ==
    ASSUME NEW n \in Nat, TokenInv(n), NEW i \in Slots, Pushed(i),
           NEW open \in BOOLEAN, NEW k \in Nat, NEW held \in 0..1, open => Behind(k),
           Balance(i, open, k, held, n),
           UNCHANGED <<nextIndex, NextIndex, Notified, joined>>, sem'[i] = sem[i],
           ppc' = "idle", todo' = {}
    PROVE  Balance(i, open, k, held, n + 1)'
  <1>1. /\ nextIndex \in Nat /\ NextIndex[i] \in Nat /\ joined[i] \in Nat /\ sem[i] \in Nat
        /\ NextIndex[i] <= nextIndex
    BY DEF TokenInv, CountInv, SlotInv, TypeInv, TypeOK
  <1>2. open => Ahead(k) \in Int
    BY <1>1, MinusBehind DEF TokenInv
  <1>3. Unread(i, open, k) \in Int /\ Unread(i, open, k)' = Unread(i, open, k)
    BY <1>1, <1>2 DEF Unread, Ahead
  <1>4. /\ Tokens(i, held) \in Int /\ Tokens(i, held)' \in Int
        /\ Tokens(i, held)' <= Tokens(i, held) /\ Tokens(i, held) <= Tokens(i, held)' + 1
    BY <1>1 DEF Tokens, Owed, One
  <1>5. Started(i) => Started(i)'
    BY DEF Started
  <1>6. CASE Started(i)
    BY <1>3, <1>4, <1>5, <1>6 DEF Balance
  <1>7. CASE ~Started(i)
    <2>1. sem[i] = 0 /\ held = 0 /\ ~open /\ nextIndex - joined[i] <= n + 1
      BY <1>1, <1>7 DEF Balance, One
    <2>2. Tokens(i, held)' = 0 /\ Unread(i, open, k)' = nextIndex - NextIndex[i]
      BY <2>1 DEF Tokens, Unread, Owed, One
    <2>3. CASE Started(i)'
      BY <1>1, <2>1, <2>2, <2>3 DEF Balance
    <2>4. CASE ~Started(i)'
      <3>1. ~Owed(i)'
        BY DEF Owed
      <3> QED
        BY <1>1, <2>1, <2>4, <3>1 DEF Balance, One
    <2> QED
      BY <2>3, <2>4
  <1> QED
    BY <1>6, <1>7

(* Neither threads nor requests in hand: what is left of the invariants.    *)
LEMMA IdleServer ==
    ASSUME SlotInv, TypeOK', SubscribersHold', bag' \intersect freeIds' = {},
           dpc' = "idle", ppc' = "idle", todo' = {}, doomed' = {}, cpc' = cpc,
           \/ queue' = queue
           \/ queue # <<>> /\ queue' = Tail(queue)
    PROVE  CountInv'
  <1>1. TypeInv'
    BY DEF TypeInv, NotifiesMessage
  <1>2. RequestsMatchClients'
    <2>1. CASE queue' = queue
      BY <2>1 DEF SlotInv, RequestsMatchClients
    <2>2. CASE queue # <<>> /\ queue' = Tail(queue)
      BY <2>2, RequestsTaken
    <2> QED
      BY <2>1, <2>2
  <1>3. HandlingMatches' /\ RemovalsPending' /\ WalkInv'
    BY DEF HandlingMatches, RemovalsPending, WalkInv
  <1> QED
    BY <1>1, <1>2, <1>3 DEF CountInv, SlotInv

(* The subscribers keep their balance, less what a cut costs. *)
LEMMA ReadersCut ==
    ASSUME NEW n \in Nat, TokenInv(n), CountInv',
           UNCHANGED <<nextIndex, NextIndex, Notified, joined, cpc, clientVars>>,
           \A c \in Clients : Subscribed(c) => sem'[slot[c]] = sem[slot[c]],
           dpc' = "idle", ppc' = "idle", todo' = {}
    PROVE  TokenInv(n + 1)'
  <1>1. UNCHANGED <<slot, opened, Index>>
    BY DEF clientVars
  <1>2. ReadersBalance(n + 1)'
    <2> SUFFICES ASSUME NEW c \in Clients, Subscribed(c)
                 PROVE  Balance(slot[c], opened[c], Index[c], One(cpc[c] = "holding"), n + 1)'
      BY DEF ReadersBalance, Subscribed
    <2>1. PICK i, open, k, held : /\ i = slot[c] /\ open = opened[c] /\ k = Index[c]
                                  /\ held = One(cpc[c] = "holding")
      OBVIOUS
    <2>2. /\ i \in Slots /\ Pushed(i) /\ open \in BOOLEAN /\ k \in Nat /\ held \in 0..1
          /\ open => Behind(k)
          /\ Balance(i, open, k, held, n) /\ sem'[i] = sem[i]
      BY <2>1, SubscriberInUse, OneType
    <2>3. Balance(i, open, k, held, n + 1)'
      BY <2>2, BalanceCut
    <2>4. i = slot'[c] /\ open = opened'[c] /\ k = Index'[c] /\ held = One((cpc'[c] = "holding"))
      BY <1>1, <2>1
    <2> QED
      BY <2>3, <2>4
  <1>3. HandedBalance(n + 1)'
    BY DEF HandedBalance
  <1> QED
    BY <1>1, <1>2, <1>3, CursorsKept DEF TokenInv

LEMMA ServerDeath ==
    ASSUME RecoveryInv, ServerDies \/ ServerTerminates
    PROVE  RecoveryInv'
  <1>1. PICK n \in Nat : n = crashes /\ TokenInv(n)
    BY RecoveryFacts
  <1>2. /\ up' = FALSE /\ bare' = FALSE /\ old' = 0 /\ crashes' = n + 1
        /\ dpc' = "idle" /\ handling' = NoRequest
        /\ ppc' = "idle" /\ todo' = {} /\ cur' = 0 /\ doomed' = {}
        /\ bag' = {} /\ freeIds' = Slots
        /\ queue' = queue \/ (queue # <<>> /\ queue' = Tail(queue))
        /\ UNCHANGED <<nextIndex, NextIndex, Notified, PendingRemove, Active, Pid, sem, cpc,
                       slot, opened, Index, joined, asked, named, released>>
    BY <1>1 DEF ServerDies, ServerTerminates, ServerEnds, tableVars, clientVars
  <1>3. 0 \in Slots
    BY TopicAssumption DEF Slots
  <1>4. ~Serving'
    BY <1>2, <1>3 DEF Serving
  <1>5. TypeOK'
    <2>1. TypeOK /\ queue' \in Seq(Request)
      BY <1>2, HeadRequest, RecoveryFacts DEF TypeOK
    <2> QED
      BY <1>2, <1>3, <2>1 DEF TypeOK
  <1>6. SubscribersHold'
    BY <1>2, <1>4, RecoveryFacts DEF SubscribersHold, Subscribed, Keeps
  <1>7. CountInv'
    BY <1>2, <1>5, <1>6, IdleServer, RecoveryFacts
  <1>8. TokenInv(n + 1)'
    BY <1>1, <1>2, <1>7, ReadersCut DEF clientVars
  <1>9. TokenInv(crashes)'
    BY <1>2, <1>8
  <1>10. NamesInv'
    <2>1. \A m \in 1..Len(queue') :
              queue'[m].kind = "unsubscribe" /\ cpc'[queue'[m].client] # "dead" =>
                  slot'[queue'[m].client] = queue'[m].slot
      <3>1. CASE queue' = queue
        BY <1>2, <3>1 DEF RecoveryInv, NamesInv
      <3>2. CASE queue # <<>> /\ queue' = Tail(queue)
        BY <1>2, <3>2, RestOfQueue
      <3> QED
        BY <1>2, <3>1, <3>2
    <2> QED
      BY <1>2, <2>1 DEF RecoveryInv, NamesInv, Subscribed, Running
  <1>11. VacantInv'
    <2> SUFFICES ASSUME NEW i \in Slots, Vacant(i)' PROVE NoExcess(i)'
      BY DEF VacantInv
    <2>1. Vacant(i)
      BY <1>2 DEF Vacant, Running, Occupied
    <2>2. NoExcess(i)
      BY <2>1 DEF RecoveryInv, VacantInv
    <2> QED
      BY <1>2, <2>2, ExcessCut
  <1>12. BookInv'
    <2>1. crashes' \in Nat /\ crashes' > 0
      BY <1>2
    <2> QED
      BY <1>2, <2>1 DEF RecoveryInv, BookInv
  <1> QED
    BY <1>9, <1>10, <1>11, <1>12 DEF RecoveryInv

-----------------------------------------------------------------------------
(* The topic is made again.                                                *)

(* The constructor finds the slots of the subscribers, and their names. *)
LEMMA SubscribersRebuilt ==
    ASSUME RecoveryInv, NEW c \in Clients, Subscribed(c)
    PROVE  /\ slot[c] \in Slots /\ slot[c] \in named
           /\ slot[c] \in Rebuilt /\ slot[c] \notin Dangling
  <1>1. slot[c] \in Slots /\ Keeps(c, slot[c])
    BY RecoveryFacts DEF SubscribersHold, TypeOK
  <1>2. Pid[slot[c]] = c /\ cpc[c] # "dead"
    BY <1>1 DEF Keeps, Subscribed
  <1>3. c # Nobody
    BY ClientsAssumption
  <1>4. slot[c] \in named
    BY DEF RecoveryInv, NamesInv
  <1> QED
    BY <1>1, <1>2, <1>3, <1>4 DEF Rebuilt, Dangling, Running, Keeps

LEMMA TopicMade ==
    ASSUME RecoveryInv, CreateTopic
    PROVE  RecoveryInv'
  <1>1. /\ ~up /\ up' = TRUE /\ bare' = FALSE
        /\ bag' = Rebuilt /\ freeIds' = Slots \ Rebuilt
        /\ PendingRemove' = [i \in Slots |-> PendingRemove[i] /\ i \notin Dangling]
        /\ sem' = [i \in Slots |-> IF i \in named \ Dangling THEN sem[i] ELSE 0]
        /\ named' = (named \ Dangling) \union Rebuilt
        /\ UNCHANGED <<nextIndex, NextIndex, Notified, Active, Pid, queue, dpc, handling, ppc,
                       todo, cur, doomed, cpc, slot, opened, Index, joined, asked, old,
                       released, crashes>>
    BY DEF CreateTopic, pubVars, clientVars, RecoveryInv, BookInv
  <1>2. /\ bag = {} /\ ppc = "idle" /\ dpc = "idle" /\ todo = {} /\ doomed = {}
        /\ crashes \in Nat /\ crashes > 0 /\ named \subseteq Slots
    BY <1>1, RecoveryFacts DEF RecoveryInv, BookInv, RemovalsPending, WalkInv
  <1>3. Rebuilt \subseteq Slots /\ Rebuilt \intersect Dangling = {}
    BY DEF Rebuilt, Dangling
  <1>4. TypeOK'
    <2>1. /\ PendingRemove' \in [Slots -> BOOLEAN] /\ sem' \in [Slots -> Nat]
          /\ bag' \subseteq Slots /\ freeIds' \subseteq Slots /\ up' \in BOOLEAN
      BY <1>1, <1>3, RecoveryFacts DEF TypeOK
    <2> QED
      BY <1>1, <2>1, RecoveryFacts DEF TypeOK
  <1>5. ASSUME NEW c \in Clients, Subscribed(c)
        PROVE  /\ Keeps(c, slot[c])' /\ slot[c] \in bag' /\ slot[c] \notin freeIds'
               /\ sem'[slot[c]] = sem[slot[c]] /\ slot[c] \in named'
    <2>1. /\ slot[c] \in Slots /\ slot[c] \in named
          /\ slot[c] \in Rebuilt /\ slot[c] \notin Dangling
      BY <1>5, SubscribersRebuilt
    <2>2. Keeps(c, slot[c])
      BY <1>5, RecoveryFacts DEF SubscribersHold
    <2>3. PendingRemove'[slot[c]] = FALSE /\ sem'[slot[c]] = sem[slot[c]]
      BY <1>1, <2>1, <2>2 DEF Keeps
    <2> QED
      BY <1>1, <2>1, <2>2, <2>3 DEF Keeps
  <1>6. SubscribersHold'
    BY <1>1, <1>5 DEF SubscribersHold, Subscribed
  <1>7. CountInv'
    <2>1. bag' \intersect freeIds' = {}
      BY <1>1
    <2>2. dpc' = "idle" /\ ppc' = "idle" /\ todo' = {} /\ doomed' = {}
      BY <1>1, <1>2
    <2> QED
      BY <1>1, <1>4, <1>6, <2>1, <2>2, IdleServer, RecoveryFacts
  <1>8. TokenInv(crashes)'
    <2>1. PICK n \in Nat : n = crashes /\ TokenInv(n)
      BY RecoveryFacts
    <2>2. ReadersBalance(n)'
      <3> SUFFICES ASSUME NEW c \in Clients, Subscribed(c)
                   PROVE  Balance(slot[c], opened[c], Index[c], One(cpc[c] = "holding"), n)'
        BY <1>1 DEF ReadersBalance, Subscribed
      <3>1. sem'[slot[c]] = sem[slot[c]]
        BY <1>5
      <3>2. (Started(slot[c])' <=> Started(slot[c])) /\ (Owed(slot[c])' <=> Owed(slot[c]))
        BY <1>1, <1>2 DEF Started, Owed
      <3> QED
        BY <1>1, <2>1, <3>1, <3>2, ReaderKept
    <2>3. HandedBalance(n)'
      BY <1>1, <1>2 DEF HandedBalance
    <2>4. TokenInv(n)'
      BY <1>1, <1>7, <2>1, <2>2, <2>3, CursorsKept DEF TokenInv
    <2> QED
      BY <1>1, <2>1, <2>4
  <1>9. NamesInv'
    <2>1. ASSUME NEW i \in named'
          PROVE  Active'[i] /\ i \in bag' /\ ~PendingRemove'[i]
      <3>1. i \in Slots /\ Active[i]
        BY <1>1, <1>2, <2>1 DEF RecoveryInv, NamesInv, Rebuilt
      <3>2. i \in Rebuilt
        BY <1>1, <2>1, <3>1 DEF Dangling
      <3>3. ~PendingRemove[i]
        BY <3>2 DEF Rebuilt
      <3> QED
        BY <1>1, <3>1, <3>2, <3>3
    <2>2. \A c \in Clients : Subscribed(c)' => slot'[c] \in named'
      BY <1>1, <1>5 DEF Subscribed
    <2>3. \A m \in 1..Len(queue') :
              queue'[m].kind = "unsubscribe" /\ cpc'[queue'[m].client] # "dead" =>
                  slot'[queue'[m].client] = queue'[m].slot
      BY <1>1 DEF RecoveryInv, NamesInv
    <2> QED
      BY <1>1, <1>2, <2>1, <2>2, <2>3 DEF NamesInv
  <1>10. VacantInv'
    <2> SUFFICES ASSUME NEW i \in Slots, Vacant(i)' PROVE NoExcess(i)'
      BY DEF VacantInv
    <2>1. ~Owed(i) /\ ~Owed(i)' /\ (Started(i)' <=> Started(i))
      BY <1>1, <1>2 DEF Owed, Started
    <2>2. CASE i \in named \ Dangling
      <3>1. Active[i] /\ i \in Rebuilt
        BY <2>2 DEF RecoveryInv, NamesInv, Dangling
      <3>2. Vacant(i) /\ sem'[i] = sem[i]
        BY <1>1, <2>2, <3>1 DEF Vacant, Running, Occupied, Rebuilt
      <3>3. NoExcess(i) /\ sem'[i] \in 0..sem[i]
        BY <3>2, RecoveryFacts DEF RecoveryInv, VacantInv, TypeOK
      <3> QED
        BY <1>1, <2>1, <3>3, ExcessKept
    <2>3. CASE i \notin named \ Dangling
      <3>1. sem'[i] = 0 /\ Tokens(i, 0)' = 0
        BY <1>1, <2>1, <2>3 DEF Tokens, One
      <3>2. 0 <= nextIndex' - NextIndex'[i]
        BY <1>1, RecoveryFacts DEF TypeOK
      <3> QED
        BY <3>1, <3>2 DEF NoExcess
    <2> QED
      BY <2>2, <2>3
  <1>11. BookInv'
    <2>1. named' \subseteq Slots
      BY <1>1, <1>2, <1>3
    <2> QED
      BY <1>1, <2>1 DEF RecoveryInv, BookInv
  <1> QED
    BY <1>8, <1>9, <1>10, <1>11 DEF RecoveryInv

-----------------------------------------------------------------------------
(* Answers without the topic, and what their clients make of them.         *)

(* A client that goes, waits no longer, or is told slot 0 takes nothing     *)
(* from the others.                                                        *)
LEMMA TokensOfOthers ==
    ASSUME NEW n \in Nat, TokenInv(n), NEW c \in Clients, NEW pc \in ClientStates,
           UNCHANGED <<nextIndex, NextIndex, Notified, PendingRemove, Active, Pid, sem, up,
                       freeIds, dpc, handling, bag, ppc, todo, cur, doomed, opened, Index,
                       joined, asked>>,
           cpc' = [cpc EXCEPT ![c] = pc],
           slot' \in [Clients -> Slots], \A d \in Clients : d # c => slot'[d] = slot[d],
           queue' \in Seq(Request), RequestsMatchClients',
           pc \in {"out", "misled", "closing", "dead"},
           pc \in {"out", "misled"} => ~opened[c],
           dpc # "idle" => pc = "dead" \/ handling.client # c
    PROVE  TokenInv(n)'
  <1>1. SlotInv /\ TypeOK /\ WalkInv
    BY DEF TokenInv, CountInv, SlotInv, TypeInv
  <1>2. cpc'[c] = pc /\ \A d \in Clients : d # c => cpc'[d] = cpc[d]
    BY <1>1 DEF TypeOK
  <1>3. TypeInv'
    <2>1. cpc' \in [Clients -> ClientStates]
      BY <1>1 DEF TypeOK
    <2> QED
      BY <1>1, <2>1 DEF SlotInv, TypeInv, TypeOK, NotifiesMessage
  <1>4. HandlingMatches'
    <2>1. dpc # "idle" => handling.client \in Clients
      BY <1>1 DEF SlotInv, HandlingMatches, Request
    <2> QED
      BY <1>1, <1>2, <2>1 DEF SlotInv, HandlingMatches, Held, Keeps
  <1>5. ASSUME NEW d \in Clients, Subscribed(d)' PROVE d # c /\ Subscribed(d)
    BY <1>2, <1>5 DEF Subscribed
  <1>6. SubscribersHold'
    BY <1>1, <1>5 DEF SlotInv, SubscribersHold, Keeps, Serving
  <1>7. CountInv'
    <2>1. RemovalsPending' /\ WalkInv'
      BY <1>1 DEF SlotInv, RemovalsPending, WalkInv
    <2> QED
      BY <1>3, <1>4, <1>6, <2>1 DEF CountInv, SlotInv
  <1>8. HandedBalance(n)' /\ ReadersBalance(n)'
    BY <1>2, <1>5, OthersKept DEF ReadersBalance
  <1>9. CursorInv'
    BY <1>2 DEF TokenInv, CursorInv, Behind
  <1> QED
    BY <1>7, <1>8, <1>9 DEF TokenInv

LEMMA ToldWithoutTopic ==
    ASSUME RecoveryInv, AnswerWithoutTopic
    PROVE  RecoveryInv'
  <1> DEFINE r == Head(queue)
  <1>1. PICK c : c = r.client
    OBVIOUS
  <1>2. /\ queue # <<>> /\ queue' = Tail(queue) /\ bare /\ ~up /\ dpc = "idle"
        /\ crashes > 0
        /\ UNCHANGED <<nextIndex, NextIndex, Notified, PendingRemove, Active, Pid, sem, up,
                       freeIds, dpc, handling, bag, ppc, todo, cur, doomed, opened, Index,
                       joined, asked, bare, named, released, crashes>>
    BY DEF AnswerWithoutTopic, tableVars, dispVars, pubVars, RecoveryInv, BookInv
  <1>3. /\ r \in Request /\ c \in Clients
        /\ r.kind = "subscribe" => cpc[c] \in {"subscribing", "dead"}
        /\ r.kind = "unsubscribe" => cpc[c] \in {"leaving", "dead"}
    BY <1>1, <1>2, FirstRequest, RecoveryFacts DEF Request
  <1>4. cpc \in [Clients -> ClientStates] /\ slot \in [Clients -> Slots] /\ 0 \in Slots
    BY HandlingSlot, RecoveryFacts DEF TypeOK
  <1>5. PICK pc \in {"misled", "closing", "dead"} :
            /\ cpc' = [cpc EXCEPT ![c] = pc]
            /\ \/ cpc[c] = "subscribing" /\ pc = "misled" /\ slot' = [slot EXCEPT ![c] = 0]
               \/ cpc[c] = "leaving" /\ pc = "closing" /\ slot' = slot
               \/ cpc[c] = "dead" /\ pc = "dead" /\ slot' = slot
    <2>1. CASE cpc[c] = "subscribing"
      BY <1>1, <2>1 DEF AnswerWithoutTopic
    <2>2. CASE cpc[c] = "leaving"
      BY <1>1, <2>2 DEF AnswerWithoutTopic
    <2>3. CASE cpc[c] = "dead"
      <3>1. cpc' = [cpc EXCEPT ![c] = "dead"] /\ slot' = slot
        BY <1>1, <1>4, <2>3 DEF AnswerWithoutTopic
      <3> QED
        BY <2>3, <3>1
    <2> QED
      BY <1>1, <2>1, <2>2, <2>3 DEF AnswerWithoutTopic
  <1>6. /\ cpc'[c] = pc
        /\ slot' \in [Clients -> Slots]
        /\ \A d \in Clients : d # c => cpc'[d] = cpc[d] /\ slot'[d] = slot[d]
    BY <1>3, <1>4, <1>5
  <1>7. RequestsMatchClients'
    <2> SUFFICES ASSUME NEW m \in 1..Len(queue')
                 PROVE  /\ queue'[m].kind = "subscribe" =>
                              cpc'[queue'[m].client] \in {"subscribing", "dead"}
                        /\ queue'[m].kind = "unsubscribe" =>
                              cpc'[queue'[m].client] \in {"leaving", "dead"}
                        /\ dpc' # "idle" => queue'[m].client # handling'.client
                        /\ \A k \in 1..Len(queue') :
                              queue'[k].client = queue'[m].client => k = m
      BY DEF RequestsMatchClients
    <2>1. \A k \in 1..Len(queue') :
              k \in Nat /\ k + 1 \in 1..Len(queue) /\ queue'[k] = queue[k + 1]
      BY <1>2, FirstRequest, RecoveryFacts
    <2>2. queue'[m].client # c /\ queue'[m].client \in Clients
      BY <1>1, <1>2, RestOfQueue
    <2>3. cpc'[queue'[m].client] = cpc[queue'[m].client]
      BY <1>6, <2>2
    <2>4. \A k \in 1..Len(queue') : queue'[k].client = queue'[m].client => k + 1 = m + 1
      <3>1. \A a, b \in 1..Len(queue) : queue[b].client = queue[a].client => b = a
        BY RecoveryFacts DEF SlotInv, RequestsMatchClients
      <3> QED
        BY <2>1, <3>1
    <2>5. \A k \in 1..Len(queue') : queue'[k].client = queue'[m].client => k = m
      BY <2>1, <2>4
    <2> QED
      BY <1>2, <2>1, <2>3, <2>5, RecoveryFacts DEF SlotInv, RequestsMatchClients
  <1>8. TokenInv(crashes)'
    <2>1. PICK n \in Nat : n = crashes /\ TokenInv(n)
      BY RecoveryFacts
    <2>2. queue' \in Seq(Request)
      BY <1>2, HeadRequest, RecoveryFacts
    <2>3. pc = "misled" => ~opened[c]
      BY <1>3, <1>5, RecoveryFacts DEF CursorInv
    <2>4. TokenInv(n)'
      BY <1>2, <1>3, <1>5, <1>6, <1>7, <2>1, <2>2, <2>3, TokensOfOthers DEF ClientStates
    <2> QED
      BY <1>2, <2>1, <2>4
  <1>9. NamesInv'
    <2>1. \A m \in 1..Len(queue') :
              queue'[m].kind = "unsubscribe" /\ cpc'[queue'[m].client] # "dead" =>
                  slot'[queue'[m].client] = queue'[m].slot
      BY <1>1, <1>2, <1>6, RestOfQueue
    <2>2. ASSUME NEW i \in named, PendingRemove[i], Pid[i] = c, cpc'[c] # "dead"
          PROVE  cpc'[c] \in {"leaving", "closing"} /\ slot'[c] = i
      <3>1. c # Nobody /\ cpc[c] # "dead"
        BY <1>3, <1>5, <1>6, <2>2, ClientsAssumption
      <3>2. cpc[c] \in {"leaving", "closing"} /\ slot[c] = i
        BY <2>2, <3>1 DEF RecoveryInv, NamesInv, Running
      <3> QED
        BY <1>5, <1>6, <3>2
    <2>3. ~Subscribed(c)'
      BY <1>6 DEF Subscribed
    <2> QED
      BY <1>2, <1>3, <1>6, <2>1, <2>2, <2>3, NamesMove
  <1>10. VacantInv'
    <2>1. \A i \in Slots : sem'[i] \in 0..sem[i]
      BY <1>2, RecoveryFacts DEF TypeOK
    <2>2. \A i \in named' : Pid[i] = c /\ Vacant(i)' => Vacant(i)
      BY <1>2, <1>5, <1>6 DEF Vacant, Running, Occupied
    <2> QED
      BY <1>2, <1>3, <1>6, <2>1, <2>2, VacantMove
  <1>11. BookInv'
    <2>1. old' \in Nat
      BY DEF AnswerWithoutTopic, RecoveryInv, BookInv
    <2> QED
      BY <1>2, <2>1 DEF RecoveryInv, BookInv
  <1> QED
    BY <1>8, <1>9, <1>10, <1>11 DEF RecoveryInv

(* Who finds a semaphore has been given its slot before, and has left it    *)
(* unmarked: no server that runs gives it to another.                      *)
LEMMA LeftUnmarked ==
    ASSUME RecoveryInv, NEW c \in Clients, cpc[c] = "misled", FindsSemaphore(c)
    PROVE  /\ slot[c] \in Slots /\ slot[c] \in named /\ Pid[slot[c]] = c
           /\ Keeps(c, slot[c]) /\ NoExcess(slot[c])
           /\ up => slot[c] \in bag /\ slot[c] \notin freeIds
  <1>1. slot[c] \in Slots /\ slot[c] \in named /\ Pid[slot[c]] = c /\ Running(c)
    BY RecoveryFacts, ClientsAssumption DEF FindsSemaphore, Running
  <1>2. Keeps(c, slot[c])
    BY <1>1 DEF RecoveryInv, NamesInv, Keeps
  <1>3. NoExcess(slot[c])
    BY <1>1, <1>2 DEF RecoveryInv, VacantInv, Vacant, Occupied, Keeps
  <1>4. up => slot[c] \in bag /\ slot[c] \notin freeIds
    <2>1. ~Pushed(slot[c]) => cpc[Pid[slot[c]]] \in {"subscribing", "dead"}
      <3> SUFFICES ASSUME dpc = "push", handling.slot = slot[c]
                   PROVE  cpc[Pid[slot[c]]] \in {"subscribing", "dead"}
        BY DEF Pushed
      <3> QED
        BY PushesSubscription, RecoveryFacts DEF HandlingMatches, Held, Keeps
    <2> QED
      BY <1>1, <2>1, NamedServed
  <1> QED
    BY <1>1, <1>2, <1>3, <1>4

(* It subscribes by that, with all that is to come. *)
LEMMA MisledOpens ==
    ASSUME RecoveryInv, NEW c \in Clients, OpenMisled(c)
    PROVE  RecoveryInv'
  <1>1. PICK i : i = slot[c]
    OBVIOUS
  <1>2. /\ cpc[c] = "misled" /\ FindsSemaphore(c) /\ ~opened[c]
        /\ cpc' = [cpc EXCEPT ![c] = "ready"] /\ joined' = [joined EXCEPT ![i] = nextIndex]
        /\ UNCHANGED <<nextIndex, NextIndex, Notified, PendingRemove, Active, Pid, sem, queue,
                       up, freeIds, dpc, handling, bag, ppc, todo, cur, doomed, slot, opened,
                       Index, asked, bare, old, named, released, crashes>>
    BY <1>1, RecoveryFacts DEF OpenMisled, tableVars, dispVars, pubVars, clientVars, CursorInv
  <1>3. /\ i \in Slots /\ i \in named /\ Pid[i] = c /\ Keeps(c, i) /\ NoExcess(i)
        /\ up => i \in bag /\ i \notin freeIds
    BY <1>1, <1>2, LeftUnmarked
  <1>4. /\ cpc'[c] = "ready" /\ \A d \in Clients : d # c => cpc'[d] = cpc[d]
        /\ joined'[i] = nextIndex /\ \A j \in Slots : j # i => joined'[j] = joined[j]
    BY <1>2, <1>3, RecoveryFacts DEF TypeOK
  <1>5. /\ nextIndex \in Nat /\ NextIndex[i] \in Nat /\ sem[i] \in Nat
        /\ NextIndex[i] <= nextIndex
    BY <1>3, RecoveryFacts DEF TypeOK
  <1>6. PICK n \in Nat : n = crashes /\ TokenInv(n) /\ n > 0
    BY <1>2, RecoveryFacts DEF RecoveryInv, BookInv
  <1>7. RequestsMatchClients' /\ HandlingMatches'
    <2>1. \A m \in 1..Len(queue) : queue[m].client \in Clients /\ queue[m].client # c
      BY <1>2, QueuedRequest, RecoveryFacts
    <2>2. RequestsMatchClients'
      BY <1>2, <1>4, <2>1, RecoveryFacts DEF SlotInv, RequestsMatchClients
    <2>3. dpc # "idle" => handling.client \in Clients /\ handling.client # c
      BY <1>2, RecoveryFacts DEF HandlingMatches, Request
    <2>4. HandlingMatches'
      BY <1>2, <1>4, <2>3, RecoveryFacts DEF HandlingMatches, Held, Keeps
    <2> QED
      BY <2>2, <2>4
  <1>8. SubscribersHold'
    <2> SUFFICES ASSUME NEW d \in Clients, Subscribed(d)'
                 PROVE  Keeps(d, slot[d]) /\ (up => slot[d] \in bag /\ slot[d] \notin freeIds)
      <3>1. Serving' => up
        BY <1>2, RecoveryFacts DEF Serving
      <3> QED
        BY <1>2, <3>1 DEF SubscribersHold, Keeps
    <2>1. CASE d = c
      BY <1>1, <1>3, <2>1
    <2>2. CASE d # c
      <3>1. Subscribed(d)
        BY <1>4, <2>2 DEF Subscribed
      <3> QED
        BY <3>1, RecoveryFacts DEF SubscribersHold
    <2> QED
      BY <2>1, <2>2
  <1>9. CountInv'
    <2>1. TypeInv'
      <3>1. cpc' \in [Clients -> ClientStates] /\ joined' \in [Slots -> Nat]
        BY <1>2, <1>5, RecoveryFacts DEF TypeOK, ClientStates
      <3> QED
        BY <1>2, <3>1, RecoveryFacts DEF TypeInv, TypeOK, NotifiesMessage
    <2>2. RemovalsPending' /\ WalkInv'
      BY <1>2, RecoveryFacts DEF RemovalsPending, WalkInv
    <2> QED
      BY <1>7, <1>8, <2>1, <2>2 DEF CountInv, SlotInv
  <1>10. ReadersBalance(n)'
    <2> SUFFICES ASSUME NEW d \in Clients, Subscribed(d)'
                 PROVE  Balance(slot[d], opened[d], Index[d], One(cpc[d] = "holding"), n)'
      BY DEF ReadersBalance
    <2>0. \A j \in Slots : (Started(j)' <=> Started(j)) /\ (Owed(j)' <=> Owed(j))
      BY <1>2 DEF Started, Owed
    <2>1. CASE d = c
      <3>1. One(cpc[d] = "holding")' = 0 /\ ~opened'[d] /\ slot'[d] = i
        BY <1>1, <1>2, <1>4, <2>1 DEF One
      <3>2. PICK open, k : open = opened'[d] /\ k = Index'[d]
        OBVIOUS
      <3>3. /\ Unread(i, open, k)' = nextIndex - NextIndex[i]
            /\ Tokens(i, 0)' = Tokens(i, 0) /\ Tokens(i, 0) \in Nat
            /\ (Started(i)' <=> Started(i))
        <4>1. One(Owed(i)) \in 0..1 /\ One(Owed(i))' = One(Owed(i))
          BY <1>3, <2>0, OneType DEF One
        <4> QED
          BY <1>2, <1>3, <1>5, <2>0, <3>1, <3>2, <4>1 DEF Unread, Tokens
      <3>4. Balance(i, open, k, 0, n)'
        <4>1. CASE Started(i)
          <5>1. Tokens(i, 0) <= nextIndex - NextIndex[i]
            BY <1>3, <4>1 DEF NoExcess
          <5>2. n = 0 \/ NextIndex[i] >= nextIndex => nextIndex - NextIndex[i] <= Tokens(i, 0) + n
            BY <1>5, <1>6, <3>3
          <5> QED
            BY <1>2, <1>4, <3>3, <4>1, <5>1, <5>2 DEF Balance
        <4>2. CASE ~Started(i)
          <5>1. sem[i] = 0
            BY <1>3, <4>2 DEF NoExcess
          <5>2. nextIndex - nextIndex <= One(Owed(i))' + n
            BY <1>5, <1>6 DEF One
          <5> QED
            BY <1>2, <1>4, <3>1, <3>2, <3>3, <4>2, <5>1, <5>2 DEF Balance
        <4> QED
          BY <4>1, <4>2
      <3> QED
        BY <3>1, <3>2, <3>4
    <2>2. CASE d # c
      <3>1. Subscribed(d)
        BY <1>4, <2>2 DEF Subscribed
      <3>2. slot[d] \in Slots /\ slot[d] # i
        BY <1>2, <1>3, <2>2, <3>1, OwnersDiffer
      <3> QED
        BY <1>2, <1>4, <1>6, <2>0, <2>2, <3>1, <3>2, ReaderKept
    <2> QED
      BY <2>1, <2>2
  <1>11. HandedBalance(n)'
    <2> SUFFICES ASSUME dpc # "idle", handling.kind = "subscribe"
                 PROVE  Balance(handling.slot, FALSE, 0, 0, n)'
      BY <1>2 DEF HandedBalance
    <2>1. handling.slot \in Slots /\ handling.slot # i
      BY <1>2, <1>3, OwnersDiffer
    <2>2. /\ Started(handling.slot)' <=> Started(handling.slot)
          /\ Owed(handling.slot)' <=> Owed(handling.slot)
      BY <1>2 DEF Started, Owed
    <2> QED
      BY <1>2, <1>4, <1>6, <2>1, <2>2, HandedKept
  <1>12. CursorInv' /\ nextIndex' <= MaxMessages /\ \A j \in Slots : NextIndex'[j] <= nextIndex'
    BY <1>2, <1>4, RecoveryFacts DEF CursorInv, Behind
  <1>13. TokenInv(crashes)'
    BY <1>2, <1>6, <1>9, <1>10, <1>11, <1>12 DEF TokenInv
  <1>14. NamesInv'
    <2>1. \A m \in 1..Len(queue') :
              queue'[m].kind = "unsubscribe" /\ cpc'[queue'[m].client] # "dead" =>
                  slot'[queue'[m].client] = queue'[m].slot
      BY <1>2, <1>4, QueueKept
    <2>2. \A j \in named : PendingRemove[j] /\ Pid[j] = c => FALSE
      BY <1>2, ClientsAssumption DEF RecoveryInv, NamesInv, Running
    <2> QED
      BY <1>1, <1>2, <1>3, <1>4, <2>1, <2>2, NamesMove
  <1>15. VacantInv'
    <2>1. \A j \in Slots : sem'[j] \in 0..sem[j]
      BY <1>2, RecoveryFacts DEF TypeOK
    <2>2. \A j \in named' : Pid[j] = c /\ Vacant(j)' => Vacant(j)
      BY <1>2, <1>4 DEF Vacant, Running, Occupied
    <2> QED
      BY <1>2, <1>4, <2>1, <2>2, VacantMove
  <1>16. BookInv'
    <2>1. \A d \in Clients : cpc'[d] = "misled" => cpc[d] = "misled"
      BY <1>4
    <2> QED
      BY <1>2, <2>1 DEF RecoveryInv, BookInv
  <1> QED
    BY <1>13, <1>14, <1>15, <1>16 DEF RecoveryInv

(* Only who was told slot 0 for want of a topic finds no semaphore. *)
LEMMA ClientGoes ==
    ASSUME RecoveryInv, NEW c \in Clients, SubscribeThrows(c) \/ ClientDies(c)
    PROVE  RecoveryInv'
  <1>1. /\ cpc \in [Clients -> ClientStates] /\ slot \in [Clients -> Slots] /\ 0 \in Slots
        /\ queue \in Seq(Request)
    BY HandlingSlot, RecoveryFacts DEF TypeOK
  <1>2. UNCHANGED <<nextIndex, NextIndex, Notified, PendingRemove, Active, Pid, sem, queue, up,
                    freeIds, dpc, handling, bag, ppc, todo, cur, doomed, opened, Index, joined,
                    asked, bare, old, named, released, crashes>>
    BY DEF SubscribeThrows, ClientDies, tableVars, dispVars, pubVars, clientVars
  <1>3. PICK pc \in {"out", "dead"} :
            /\ cpc' = [cpc EXCEPT ![c] = pc]
            /\ pc = "out" => cpc[c] = "misled"
            /\ slot' = slot \/ slot' = [slot EXCEPT ![c] = 0]
    <2>1. CASE SubscribeThrows(c)
      <3>1. cpc[c] # "granted"
        <4> SUFFICES ASSUME cpc[c] = "granted" PROVE FALSE
          OBVIOUS
        <4>1. Subscribed(c)
          BY DEF Subscribed
        <4>2. slot[c] \in named /\ Pid[slot[c]] = c
          BY <4>1, RecoveryFacts DEF RecoveryInv, NamesInv, SubscribersHold, Keeps
        <4> QED
          BY <2>1, <4>2 DEF SubscribeThrows, FindsSemaphore
      <3> QED
        BY <2>1, <3>1 DEF SubscribeThrows
    <2>2. CASE ClientDies(c)
      BY <2>2 DEF ClientDies, clientVars
    <2> QED
      BY <2>1, <2>2
  <1>4. /\ cpc'[c] = pc /\ slot' \in [Clients -> Slots]
        /\ \A d \in Clients : d # c => cpc'[d] = cpc[d] /\ slot'[d] = slot[d]
    BY <1>1, <1>3
  <1>5. RequestsMatchClients'
    <2> SUFFICES ASSUME NEW m \in 1..Len(queue)
                 PROVE  /\ queue[m].kind = "subscribe" =>
                              cpc'[queue[m].client] \in {"subscribing", "dead"}
                        /\ queue[m].kind = "unsubscribe" =>
                              cpc'[queue[m].client] \in {"leaving", "dead"}
      BY <1>2, RecoveryFacts DEF SlotInv, RequestsMatchClients
    <2>1. queue[m].client \in Clients
      BY QueuedRequest, RecoveryFacts
    <2>2. pc = "out" => queue[m].client # c
      BY <1>3, QueuedRequest, RecoveryFacts
    <2> QED
      BY <1>4, <2>1, <2>2, RecoveryFacts DEF SlotInv, RequestsMatchClients
  <1>6. TokenInv(crashes)'
    <2>1. PICK n \in Nat : n = crashes /\ TokenInv(n)
      BY RecoveryFacts
    <2>2. pc = "out" => ~opened[c]
      BY <1>3, RecoveryFacts DEF CursorInv
    <2>3. dpc # "idle" => pc = "dead" \/ handling.client # c
      <3>1. dpc # "idle" => cpc[handling.client] \in {"subscribing", "leaving", "dead"}
        BY RecoveryFacts DEF HandlingMatches, Request
      <3> QED
        BY <1>3, <3>1
    <2>4. TokenInv(n)'
      BY <1>1, <1>2, <1>3, <1>4, <1>5, <2>1, <2>2, <2>3, TokensOfOthers DEF ClientStates
    <2> QED
      BY <1>2, <2>1, <2>4
  <1>7. NamesInv'
    <2>1. \A m \in 1..Len(queue') :
              queue'[m].kind = "unsubscribe" /\ cpc'[queue'[m].client] # "dead" =>
                  slot'[queue'[m].client] = queue'[m].slot
      <3>1. cpc[c] \notin {"subscribing", "leaving"} \/ cpc'[c] = "dead"
        BY <1>3, <1>4
      <3>2. cpc[c] = "dead" => cpc'[c] = "dead"
        BY <1>3, <1>4
      <3> QED
        BY <1>2, <1>4, <3>1, <3>2, QueueKept
    <2>2. \A i \in named' : PendingRemove[i] /\ Pid[i] = c => cpc'[c] = "dead"
      BY <1>2, <1>3, <1>4, ClientsAssumption DEF RecoveryInv, NamesInv, Running
    <2>3. ~Subscribed(c)'
      BY <1>4 DEF Subscribed
    <2> QED
      BY <1>2, <1>4, <2>1, <2>2, <2>3, NamesMove
  <1>8. VacantInv'
    <2>1. \A i \in Slots : sem'[i] \in 0..sem[i]
      BY <1>2, RecoveryFacts DEF TypeOK
    <2>2. \A i \in named' : Pid[i] = c /\ Vacant(i)' => Vacant(i)
      BY <1>2, <1>3, <1>4 DEF Vacant, Running, Occupied
    <2> QED
      BY <1>2, <1>4, <2>1, <2>2, VacantMove
  <1>9. BookInv'
    <2>1. \A d \in Clients : cpc'[d] = "misled" => cpc[d] = "misled"
      BY <1>4
    <2> QED
      BY <1>2, <2>1 DEF RecoveryInv, BookInv
  <1> QED
    BY <1>6, <1>7, <1>8, <1>9 DEF RecoveryInv

LEMMA RecoveryStep == RecoveryInv /\ [RecoveryNext]_recoveryVars => RecoveryInv'
  BY ServerLives, ClientLives, StartOfServer, ServerDeath, TopicMade, ToldWithoutTopic,
     MisledOpens, ClientGoes DEF RecoveryNext

THEOREM RecoveryInvariant == RecoverySpec => []RecoveryInv
  BY RecoveryStart, RecoveryStep, PTL DEF RecoverySpec

-----------------------------------------------------------------------------
(* Every variable keeps its type over deaths and restarts: a new server      *)
(* finds in shared memory nothing that it does not expect there.            *)
THEOREM RecoveryKeepsTypes == RecoverySpec => []RecoveryTypeOK
  <1>1. RecoveryInv => RecoveryTypeOK
    BY RecoveryFacts DEF RecoveryInv, BookInv, RecoveryTypeOK
  <1> QED
    BY <1>1, RecoveryInvariant, PTL

(* The constructor of TopicService rebuilds the subscription of every client *)
(* that reads and keeps its id from the pool: wherever the server died, and  *)
(* whatever a server without the topic answered, the slot of a subscriber    *)
(* is its own, and no other client reads from its semaphore.                *)
THEOREM SlotsSurviveRestarts == RecoverySpec => []SubscribersKeepTheirSlots
  <1>1. RecoveryInv => SubscribersKeepTheirSlots
    BY RecoveryFacts DEF SubscribersHold, Keeps, SubscribersKeepTheirSlots
  <1> QED
    BY <1>1, RecoveryInvariant, PTL

(* What the balance of a reading client says in the variables of the model. *)
LEMMA ReaderBalance ==
    ASSUME NEW n \in Nat, TokenInv(n), NEW c \in Clients, Subscribed(c), Started(slot[c]),
           NEW tokens, tokens = sem[slot[c]] + One(cpc[c] = "holding") + One(Owed(slot[c])),
           NEW unread, unread = IF opened[c] THEN Minus(nextIndex, Index[c]) - 1
                                ELSE nextIndex - NextIndex[slot[c]]
    PROVE  /\ tokens \in Int /\ unread \in Int /\ tokens <= unread
           /\ NextIndex[slot[c]] >= joined[slot[c]] => unread <= tokens + n
  <1>1. PICK i, held : i = slot[c] /\ held = One(cpc[c] = "holding")
    OBVIOUS
  <1>2. /\ nextIndex \in Nat /\ nextIndex <= MaxMessages
        /\ i \in Slots /\ NextIndex[i] \in Nat /\ sem[i] \in Nat
    BY <1>1 DEF TokenInv, CountInv, SlotInv, TypeInv, TypeOK
  <1>3. /\ Balance(i, opened[c], Index[c], held, n) /\ Index[c] \in Nat
        /\ opened[c] => Behind(Index[c])
    BY <1>1, SubscriberInUse
  <1>4. /\ opened[c] => Ahead(Index[c]) \in Int
        /\ opened[c] => Minus(nextIndex, Index[c]) - 1 = Ahead(Index[c])
    BY <1>2, <1>3, MinusBehind
  <1>5. unread = Unread(i, opened[c], Index[c]) /\ unread \in Int
    BY <1>1, <1>2, <1>4 DEF Unread
  <1>6. tokens = Tokens(i, held) /\ tokens \in Int
    <2>1. held \in 0..1 /\ One(Owed(i)) \in 0..1
      BY <1>1, OneType
    <2> QED
      BY <1>1, <1>2, <2>1 DEF Tokens
  <1> QED
    BY <1>1, <1>3, <1>5, <1>6 DEF Balance

(* A token still stands for a message, wherever the server died, between     *)
(* the publication of a message and the release of a semaphore or within a   *)
(* subscribe or a removal, and also for a client that comes back to a slot   *)
(* it had left to a server without the topic.                               *)
THEOREM TokensStandForMessages == RecoverySpec => []TokensNeverExceedMessages
  <1>1. RecoveryInv => TokensNeverExceedMessages
    <2> SUFFICES ASSUME RecoveryInv, NEW c \in Clients, Subscribed(c), Started(slot[c])
                 PROVE  sem[slot[c]] + One(cpc[c] = "holding") + One(Owed(slot[c])) <=
                            IF opened[c] THEN Minus(nextIndex, Index[c]) - 1
                            ELSE nextIndex - NextIndex[slot[c]]
      BY DEF TokensNeverExceedMessages
    <2> QED
      BY RecoveryFacts, ReaderBalance
  <1> QED
    BY <1>1, RecoveryInvariant, PTL

(* A death of the server in PublishScope's destructor or in NotifyAll costs  *)
(* each subscriber one token at most, however many deaths there are and      *)
(* wherever they strike, if its NextIndex was set since it joined.  Who came *)
(* back to a slot that it had left to a server without the topic has joined  *)
(* anew, at an older NextIndex, and nothing is said of what it reads again.  *)
THEOREM OneTokenPerDeath == RecoverySpec => []OneTokenLostPerCrash
  <1>1. RecoveryInv => OneTokenLostPerCrash
    <2> SUFFICES ASSUME RecoveryInv, NEW c \in Clients, Subscribed(c), Started(slot[c]),
                        NextIndex[slot[c]] >= joined[slot[c]]
                 PROVE  (IF opened[c] THEN Minus(nextIndex, Index[c]) - 1
                         ELSE nextIndex - NextIndex[slot[c]]) <=
                          (sem[slot[c]] + One(cpc[c] = "holding") + One(Owed(slot[c]))) + crashes
      BY DEF OneTokenLostPerCrash
    <2>1. PICK tokens, unread :
            /\ tokens = sem[slot[c]] + One(cpc[c] = "holding") + One(Owed(slot[c]))
            /\ unread = IF opened[c] THEN Minus(nextIndex, Index[c]) - 1
                        ELSE nextIndex - NextIndex[slot[c]]
      OBVIOUS
    <2>2. unread <= tokens + crashes
      BY <2>1, RecoveryFacts, ReaderBalance
    <2> QED
      BY <2>1, <2>2
  <1> QED
    BY <1>1, RecoveryInvariant, PTL

(* "TryRead returned false." is never thrown, although servers and clients   *)
(* die: a token taken before or after a restart finds its message.          *)
THEOREM ReadsNeverThrowAfterDeaths == RecoverySpec => []ReadNeverThrows
  <1>1. RecoveryInv => ReadNeverThrows
    BY RecoveryFacts DEF CursorInv, ReadNeverThrows
  <1> QED
    BY <1>1, RecoveryInvariant, PTL

=============================================================================
