----------------------------- MODULE TopicRecovery -----------------------------
(***************************************************************************)
(* A topic whose processes die.  The slots, the message counter, the        *)
(* semaphores and the message queue outlive the server; its bag, id pool    *)
(* and threads do not.  A new server answers the requests it finds in the   *)
(* queue before it knows the topic: they are in front of the command that   *)
(* creates it.  The constructor of TopicService then rebuilds bag and pool  *)
(* from the Active flags.  A client that dies leaves its slot as it is.     *)
(***************************************************************************)
EXTENDS Topic

CONSTANT MaxCrashes      \* bound on deaths of the server by a signal

VARIABLES
    bare,      \* a server runs and does not know the topic; up is one that does
    old,       \* requests at the head of the queue sent before that server started
    named,     \* slots that have a semaphore by the name made of their Pid and number
    \* history
    released,  \* active slots whose Unsubscribe the server accepted
    crashes    \* deaths of the server

recoveryVars == <<vars, bare, old, named, released, crashes>>

RecoveryTypeOK ==
    /\ TypeOK
    /\ bare \in BOOLEAN
    /\ old \in Nat
    /\ named \subseteq Slots
    /\ released \subseteq Slots
    /\ crashes \in Nat

(* The first server has made the topic when the first request comes. *)
RecoveryInit ==
    /\ Init
    /\ bare = FALSE
    /\ old = 0
    /\ named = {}
    /\ released = {}
    /\ crashes = 0

-----------------------------------------------------------------------------
(* Deaths.                                                                 *)

(* What a server has in its own memory is gone. *)
ServerEnds ==
    /\ up' = FALSE /\ bare' = FALSE /\ old' = 0
    /\ dpc' = "idle" /\ handling' = NoRequest
    /\ ppc' = "idle" /\ todo' = {} /\ cur' = 0 /\ doomed' = {}
    /\ bag' = {} /\ freeIds' = Slots
    /\ crashes' = crashes + 1
    /\ UNCHANGED <<nextIndex, tableVars, sem, cpc, clientVars, joined, asked, named, released>>

(* The server is killed between any two steps of its threads: a request in *)
(* hand, or one just received that nothing was done about, is lost, and a  *)
(* NotifyAll under way goes no further.  One killed before it made the     *)
(* topic had not sent itself the command: its next life would take that    *)
(* from the queue and answer to an address of the old process.             *)
ServerDies ==
    /\ up \/ bare
    /\ crashes < MaxCrashes
    /\ \/ queue' = queue
       \/ dpc = "idle" /\ queue # <<>> /\ queue' = Tail(queue)
    /\ ServerEnds

(* "Cannot find free id." is thrown out of the dispatcher's thread. *)
ServerTerminates ==
    /\ up /\ dpc = "idle" /\ queue # <<>>
    /\ Head(queue).kind = "subscribe"
    /\ freeIds = {}
    /\ queue' = Tail(queue)
    /\ ServerEnds

(* A client's process dies without running the destructor of its cursor. *)
ClientDies(c) ==
    /\ cpc[c] # "dead"
    /\ cpc' = [cpc EXCEPT ![c] = "dead"]
    /\ UNCHANGED <<nextIndex, tableVars, sem, queue, dispVars, bag, pubVars, clientVars,
                   joined, asked, bare, old, named, released, crashes>>

-----------------------------------------------------------------------------
(* A new server.                                                           *)

(* Its constructor starts the dispatcher, with no topic. *)
ServerStarts ==
    /\ ~up /\ ~bare
    /\ bare' = TRUE
    /\ old' = Len(queue)
    /\ UNCHANGED <<vars, named, released, crashes>>

(* Subscribe finds no topic and returns slot 0; OnUnsubscribe finds none   *)
(* and marks nothing.  The client does not see the difference: it takes    *)
(* the slot, and it does not look at IsSuccess.                            *)
AnswerWithoutTopic ==
    /\ bare /\ queue # <<>>
    /\ LET c == Head(queue).client
       IN  \/ /\ cpc[c] = "subscribing"
              /\ cpc' = [cpc EXCEPT ![c] = "misled"]
              /\ slot' = [slot EXCEPT ![c] = 0]
           \/ /\ cpc[c] = "leaving"
              /\ cpc' = [cpc EXCEPT ![c] = "closing"]
              /\ UNCHANGED slot
           \/ /\ cpc[c] = "dead"
              /\ UNCHANGED <<cpc, slot>>
    /\ queue' = Tail(queue)
    /\ old' = IF old > 0 THEN old - 1 ELSE 0
    /\ UNCHANGED <<nextIndex, tableVars, sem, dispVars, bag, pubVars, opened, Index, joined,
                   asked, bare, named, released, crashes>>

(* is_process_running *)
Running(p) == p # Nobody /\ cpc[p] # "dead"

(* The slots whose subscription the constructor rebuilds, and those it     *)
(* takes for dangling.                                                     *)
Rebuilt == {i \in Slots : Active[i] /\ ~PendingRemove[i] /\ Running(Pid[i])}
Dangling == {i \in Slots : Active[i]} \ Rebuilt

(* Fault: ids are given out as if no slot were in use. *)
CreateTopic_PoolUntouched ==
    /\ bare /\ old = 0
    /\ up' = TRUE /\ bare' = FALSE
    /\ bag' = Rebuilt
    /\ freeIds' = Slots
    /\ PendingRemove' = [i \in Slots |-> PendingRemove[i] /\ i \notin Dangling]
    /\ sem' = [i \in Slots |-> IF i \in named \ Dangling THEN sem[i] ELSE 0]
    /\ named' = (named \ Dangling) \union Rebuilt
    /\ UNCHANGED <<nextIndex, NextIndex, Notified, Active, Pid, queue, dpc, handling, pubVars,
                   cpc, clientVars, joined, asked, old, released, crashes>>

(* Fault: the notifications of a rebuilt subscription are counted anew. *)
CreateTopic_CountsAnew ==
    /\ bare /\ old = 0
    /\ up' = TRUE /\ bare' = FALSE
    /\ bag' = Rebuilt
    /\ freeIds' = Slots \ Rebuilt
    /\ Notified' = [i \in Slots |-> IF i \in Rebuilt THEN 0 ELSE Notified[i]]
    /\ PendingRemove' = [i \in Slots |-> PendingRemove[i] /\ i \notin Dangling]
    /\ sem' = [i \in Slots |-> IF i \in named \ Dangling THEN sem[i] ELSE 0]
    /\ named' = (named \ Dangling) \union Rebuilt
    /\ UNCHANGED <<nextIndex, NextIndex, Active, Pid, queue, dpc, handling, pubVars, cpc,
                   clientVars, joined, asked, old, released, crashes>>

(* Fault: a rebuilt subscription gets a new semaphore. *)
CreateTopic_FreshSemaphores ==
    /\ bare /\ old = 0
    /\ up' = TRUE /\ bare' = FALSE
    /\ bag' = Rebuilt
    /\ freeIds' = Slots \ Rebuilt
    /\ PendingRemove' = [i \in Slots |-> PendingRemove[i] /\ i \notin Dangling]
    /\ sem' = [i \in Slots |-> 0]
    /\ named' = (named \ Dangling) \union Rebuilt
    /\ UNCHANGED <<nextIndex, NextIndex, Notified, Active, Pid, queue, dpc, handling, pubVars,
                   cpc, clientVars, joined, asked, old, released, crashes>>

(* The server sends itself the command when it likes, behind the requests  *)
(* of before its start.  The constructor of TopicService finds the memory: *)
(* a rebuilt subscription keeps its semaphore, with its count, or gets a   *)
(* new one if its name was removed; of a dangling one the semaphore is     *)
(* removed and the slot is no longer pending.                              *)
CreateTopic ==
    /\ bare /\ old = 0
    /\ up' = TRUE /\ bare' = FALSE
    /\ bag' = Rebuilt
    /\ freeIds' = Slots \ Rebuilt
    /\ PendingRemove' = [i \in Slots |-> PendingRemove[i] /\ i \notin Dangling]
    /\ sem' = [i \in Slots |-> IF i \in named \ Dangling THEN sem[i] ELSE 0]
    /\ named' = (named \ Dangling) \union Rebuilt
    /\ UNCHANGED <<nextIndex, NextIndex, Notified, Active, Pid, queue, dpc, handling, pubVars,
                   cpc, clientVars, joined, asked, old, released, crashes>>

-----------------------------------------------------------------------------
(* The name of the semaphore that client c was told to open exists. *)
FindsSemaphore(c) == slot[c] \in named /\ Pid[slot[c]] = c

(* A client that was given slot 0 for want of a topic opens the semaphore  *)
(* if slot 0 is, or was left to be, its own; it subscribes by that.        *)
OpenMisled(c) ==
    /\ cpc[c] = "misled"
    /\ FindsSemaphore(c)
    /\ cpc' = [cpc EXCEPT ![c] = "ready"]
    /\ joined' = [joined EXCEPT ![slot[c]] = nextIndex]
    /\ UNCHANGED <<nextIndex, tableVars, sem, queue, dispVars, bag, pubVars, clientVars, asked,
                   bare, old, named, released, crashes>>

(* The constructor of the cursor throws, and nobody unsubscribes. *)
SubscribeThrows(c) ==
    /\ cpc[c] \in {"granted", "misled"}
    /\ ~FindsSemaphore(c)
    /\ cpc' = [cpc EXCEPT ![c] = "out"]
    /\ slot' = [slot EXCEPT ![c] = 0]
    /\ UNCHANGED <<nextIndex, tableVars, sem, queue, dispVars, bag, pubVars, opened, Index,
                   joined, asked, bare, old, named, released, crashes>>

(* The steps of Topic, with what they do to the names of semaphores. *)
ServerStep ==
    /\ \/ \E i \in Slots :
             \/ /\ TakeSubscribe(i)
                /\ named' = named \union {i}
                /\ released' = released \ {i}
             \/ RemoveSubscription(i) /\ named' = named \ {i} /\ UNCHANGED released
             \/ SetAside(i) /\ UNCHANGED <<named, released>>
             \/ CountNotification(i) /\ UNCHANGED <<named, released>>
             \/ RemovalMissed(i) /\ UNCHANGED <<named, released>>
       \/ TakeUnsubscribe /\ released' = released \union {i \in Slots : PendingRemove'[i]}
                          /\ UNCHANGED named
       \/ Deactivate /\ released' = released \ {cur} /\ UNCHANGED named
       \/ /\ \/ PushSubscription \/ Answer \/ PublishMessage
             \/ BeginNotify \/ SetStart \/ ReleaseSemaphore \/ EndVisits \/ EndNotify
          /\ UNCHANGED <<named, released>>
    /\ UNCHANGED <<bare, old, crashes>>

ClientStep(c) ==
    /\ \/ CloseCursor(c) /\ named' = IF FindsSemaphore(c) THEN named \ {slot[c]} ELSE named
       \/ OpenSemaphore(c) /\ FindsSemaphore(c) /\ UNCHANGED named
       \/ /\ Subscribe(c) \/ Acquire(c) \/ ReadMessage(c) \/ Unsubscribe(c)
          /\ UNCHANGED named
    /\ UNCHANGED <<bare, old, released, crashes>>

RecoveryNext ==
    \/ ServerStep
    \/ ServerTerminates
    \/ ServerDies
    \/ ServerStarts
    \/ AnswerWithoutTopic
    \/ CreateTopic
    \/ \E c \in Clients : ClientStep(c) \/ OpenMisled(c) \/ SubscribeThrows(c) \/ ClientDies(c)

RecoverySpec == RecoveryInit /\ [][RecoveryNext]_recoveryVars

-----------------------------------------------------------------------------
(* A client keeps its slot from the grant to the destructor of its cursor,  *)
(* whatever dies: it is active and the client's own throughout, the new     *)
(* server serves it again and gives it to nobody else.  This holds of a     *)
(* client that was answered slot 0 for want of a topic, too, from when it   *)
(* has a cursor: the semaphore it opened by its name is that of its slot.   *)
SubscribersKeepTheirSlots ==
    /\ \A c \in Clients : Subscribed(c) =>
          LET i == slot[c]
          IN  /\ Active[i] /\ ~PendingRemove[i] /\ Pid[i] = c
              /\ up => i \in bag /\ i \notin freeIds
    /\ \A c, d \in Clients : Subscribed(c) /\ Subscribed(d) /\ slot[c] = slot[d] => c = d

(* Wherever the server died, a token still stands for a message: there are  *)
(* never more tokens than messages after the cursor, so no read throws.     *)
TokensNeverExceedMessages ==
    \A c \in Clients :
        LET i == slot[c]
            tokens == sem[i] + One(cpc[c] = "holding") + One(Owed(i))
        IN  Subscribed(c) /\ Started(i) =>
              IF opened[c] THEN tokens <= Minus(nextIndex, Index[c]) - 1
              ELSE tokens <= nextIndex - NextIndex[i]

(* A death of the server between the publication of a message and the       *)
(* release of a semaphore costs that subscriber one token, for good: it     *)
(* stays that many messages behind.  It never costs more than one each.     *)
(* This is said of those whose NextIndex was set since they joined.  One    *)
(* whose start a death cut short may be at the start of an earlier          *)
(* subscriber of the slot; one that was answered slot 0 for want of a       *)
(* topic, and joined by opening what it had left there, is at its own old   *)
(* start, with a new semaphore, and reads old messages again.               *)
OneTokenLostPerCrash ==
    \A c \in Clients :
        LET i == slot[c]
            tokens == sem[i] + One(cpc[c] = "holding") + One(Owed(i))
        IN  Subscribed(c) /\ Started(i) /\ NextIndex[i] >= joined[i] =>
              IF opened[c] THEN Minus(nextIndex, Index[c]) - 1 <= tokens + crashes
              ELSE nextIndex - NextIndex[i] <= tokens + crashes

(* "remove dangling resources": a subscription whose end the server has     *)
(* accepted is not served again.  In the bag it is marked, so that no       *)
(* NotifyAll counts for it and the next one removes it.                     *)
EndedSubscriptionsAreNotServed ==
    \A i \in bag : i \in released => PendingRemove[i]

=============================================================================
