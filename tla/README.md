# ZeroCopyRpc: a TLA+ development

ZeroCopyRpc is a publish/subscribe library over shared memory.  A server process publishes
messages of a *topic* into a ring in shared memory; client processes read them in place
("zero copy") and are woken by one named semaphore per subscription.  Requests to subscribe
and unsubscribe travel over a message queue per channel.

Source paths below are relative to `NativeRpc/ZeroCopyRpc/`.

## Inventory

| Part | State | Operations | Talks to |
|---|---|---|---|
| Byte pool, `CyclicMemoryPool.hpp` | `_offset`, `_size`, `_inUse` in shared memory; one `Span` per writer | `GetWriteSpan`, `Span::Commit`, `~Span`, `Unlock` | used by the ring |
| Message ring, `CyclicBuffer.hpp` | `_nextIndex`, `_currentSize`, entries; a `Cursor` per reader | `WriteScope`, `~WriterScope`, `OpenCursor`, `Cursor::TryRead`, `Data` | pool; written by the server, read by clients |
| Topic on the server, `TopicService` | table of 256 `SubscriptionSharedData` in shared memory; in the process a bag of `Subscription` and an id pool | `Subscribe`, `Unsubscribe`, `Prepare`/`Publish`, `NotifyAll`, the constructor that rebuilds after a restart | ring, semaphores; called by the dispatcher and by the publisher |
| Dispatcher and request channel, `SharedMemoryServer` | message queue, `_topics`, cache of client queues | `DispatchMessages`, `CreateTopic`, `RemoveTopic`, `GetClient` | clients' queues, `TopicService` |
| Client, `SharedMemoryClient.cpp` | pending callbacks by correlation id, `_topics`, a `SubscriptionCursor` per subscription | `Connect`, `Subscribe`, `Read`/`TryRead`/`TryReadFor`, the destructors | request channel, ring, semaphores |
| Named semaphore, `NamedSemaphore.cpp` | a counter that outlives both processes | `Acquire`, `TryAcquire(For)`, `Release`, `Remove` | publisher releases, client acquires |
| Id pool, `IDPool.hpp` | lock-free list of 256 ids | `rent`, `try_rent`, `returns` | `TopicService` |
| Bag, `ConcurrentBag.hpp` | lock-free list over a free list | `push`, `remove`, iteration | dispatcher pushes, publisher walks and removes |
| UDP replication, `UdpFrameDefragmentator.h`, `UdpReplicator.cpp` | current and previous frame, bit set of fragments, a span of the pool | `ProcessFragment`, the replication loops | network, ring |
| TCP replication, `TcpReplicator.cpp` | a socket and a cursor | the replication loops, `Reconnect` | network, ring |
| Dictionary, `ConcurrentDictionary.hpp` | a map under one mutex | the client's callbacks by correlation id | client |
| Timers, process and platform helpers, command line | none that the protocols depend on | | |

What is hard here:

* **three kinds of thread** on one topic: the dispatcher subscribes, the publish thread
  publishes and removes, the clients read and leave; nothing but atomics between them;
* **processes that die and restart** on shared memory that keeps whatever they had stored,
  in whatever order they had stored it;
* **zero copy**: a reader holds pointers into a ring its writer may lap at any time;
* **two counters that must agree**: the semaphore counts messages the cursor has not read;
* **unsigned arithmetic** for the distance between a cursor and the writer, and the ring and
  the pool wrapping independently of one another.

What makes each part correct: the pool hands out one span at a time, inside the pool, that
starts where the last one ended; the ring never shows an index whose entry is incomplete, and
keeps a message whole until about a pool of bytes later; a subscriber has exactly one token
for each message after its cursor, starts with the first message after it joined, and owns its
slot alone; a restart finds the subscribers again and costs each at most one token.  The full
list of what can go wrong, line by line, is under `hazards` in `PROJECT.json`.

## Modules

| Module | Models |
|---|---|
| `Ulong` | `ulong`/`size_t` difference and increment modulo `Word` (2^64 in the code) |
| `CyclicMemoryPool` | the byte pool |
| `CyclicBuffer` | the ring over the pool (extends `CyclicMemoryPool`) |
| `Topic` | one topic from publisher to subscribers: dispatcher, `NotifyAll`, table, semaphores, clients |
| `TopicRecovery` | `Topic` whose server and clients die, the new server before it has the topic, and the constructor that rebuilds |
| `Feed` | what a topic promises a reader, without slots, semaphores or threads (abstract) |
| `ConcurrentBag`, `IdPool` | the two lock-free lists of a topic |
| `SharedSets` | two sets with atomic operations, which the lists are shown to implement (abstract) |
| `SubscriptionTables` | the two lists together, and the refinement mapping |
| `RequestChannel` | server, client objects, their queues; topics created and removed; names and what is found under them |
| `FastBitSet` | the tree of bits that says which fragments have come |
| `ReplicatedTopic` | a topic and its copy in another channel, which both transports share |
| `UdpReplication` | fragments, the network, the defragmentator |
| `TcpReplication` | connections, requests, both loops, reconnection |
| `Replica` | what replication promises of the copy (abstract) |
| `Replication` | one transport or the other, and the refinement mapping |
| `MCCyclicBuffer`, `MCTopic`, `MCTopicRecovery`, `MCSubscriptionTables`, `MCReplication`, `MCRequestChannel` | instances for TLC |
| `CyclicBuffer_proofs` | theorems about the pool and the ring, for any number of publishing threads and for one |
| `Topic_proofs` | theorems about `Topic`, which implements `Feed` |
| `TopicRecovery_proofs` | theorems about `TopicRecovery` (extends `Topic_proofs`) |
| `SubscriptionTables_proofs` | theorems about the two lists, which implement `SharedSets` |
| `RequestChannel_proofs` | theorems about `RequestChannel` |
| `FastBitSet_proofs` | theorem about the tree of bits |
| `Tcp_proofs` | theorem about replication over TCP |
| `Replication_proofs` | replication implements `Replica`, and over an orderly UDP network is exact (extends the two above) |

Definitions whose name has a suffix after an underscore and whose comment begins with "Fault"
(`TakeSpan_NoSwap`, `SetStart_AtZero` ...) are plausible bugs of the definition they are named after.
No specification uses them; each is there to show that a property notices it.

### CyclicMemoryPool

`GetWriteSpan` is two steps, because the code reads the free space (`CyclicMemoryPool.hpp:143`)
before it takes the flag (`:147`): `ReadRemaining` stores it in the writer's local `free`, and
`TakeSpan` decides with that value.  `RefuseSpan` is the exception thrown when the flag is
taken, `Commit` is `Span::Commit` with its bound, `ReleaseSpan` is `~Span`.  A request larger
than the pool, or a commit larger than the span, throws before anything changes and is a
guard.  `RestartPool` is the death of the process followed by the constructor that attaches
and by `Unlock()`: the offset survives, spans and the flag do not.

### CyclicBuffer

A message is the index it is published at; a byte of the pool holds the index of the message
constructed over it.  `~WriterScope` is one step per effect on shared memory: `Account`
(`_currentSize`), `BeginEntry` and `EndEntry` (the entry is several plain stores, so between
the two it may be any mixture of old and new), `Advance` (`_nextIndex.fetch_add`), `CloseScope`
(the `Span` member is destroyed last).  `Restart` may come between any two.  A reader opens a
cursor at any index up to the next one (the client opens at an index saved earlier),
`TryRead` advances it, `FetchEntry` looks at the entry through the pointer `Data()` returned,
and the bytes are looked at in a later state.  `log` and `written` are history variables: what
was published, and how many bytes were committed in all.  The bound on the messages,
`MaxMessages`, is a guard of `OpenScope`: a scope that is open may always publish.  `CommitSpan` has an assumption on callers:
they commit no more than they asked for, as `Write` and the replicators do.  `Span::Commit` itself allows up to the size of
the span.  The entry's `Type` is left out; it is stored and
read with the other two fields.

### Topic

State in shared memory: `nextIndex` of the ring, the five fields of each slot, the semaphore
counts.  State of the server: `bag` (`_subscriptions`), `freeIds` (`_idPool`), the dispatcher's
and the publisher's program counters and locals.  State of a client: its cursor.

* Dispatcher: `TakeSubscribe` (id rented, slot reset, semaphore created), `PushSubscription`,
  `TakeUnsubscribe` (the slot is marked if the pid is its owner's), `Answer`,
  `TerminateNoFreeId`.  The fields set by `Reset` and the semaphore are one step: the slot is in
  nobody's bag until it is pushed, so no other thread looks at it.
* Publisher: `PublishMessage` is `_scope.reset()`, whose inside is `CyclicBuffer`; then `NotifyAll`
  subscription by subscription: the test of `PendingRemove`, `Notified.fetch_add`,
  `NextIndex.store` and `Release` are separate steps, and so are the removal of a subscription
  with `PendingRemove.store(false)` and `Active.store(false)`.  `RemovalMissed` is the `remove` that returns false: the
  subscription stays in the bag, active and pending, until the next `NotifyAll`.  By `RemovalMissesOnlyByPush` that takes a
  push during the search, so the step asks for a dispatcher that has pushed and not yet answered.  The search only reads,
  and nothing it does is seen before its result, so it may be placed right after that push even if in the code it ends
  later.
* Client: `Subscribe`, `OpenSemaphore`, `Acquire` (with the opening of the cursor the first
  time), `ReadMessage` (which may throw), `Unsubscribe` and, once it is answered in whatever way, `CloseCursor`.  `Read`, `TryRead` and `TryReadFor` differ
  only in what they do without a token, where a try changes nothing.

The bag and the id pool are sets whose operations are atomic, as `SubscriptionTables` shows them to be.  `Promise`
maps a state to one of `Feed`: a client has joined from the moment its subscription is in the bag, whether or
not it has its answer, and reads from the moment it has opened its cursor.  Each client has one subscription at a time, and one topic is modelled.

### TopicRecovery

`ServerDies` ends the server between any two steps: a request in hand, or received and not yet acted on, is lost.
`ServerTerminates` is the end by the exception of a subscribe that finds no free id.  `ClientDies` leaves a slot behind.
The message queue outlives them all.

A new server goes through two phases.  From `ServerStarts`, the constructor of `SharedMemoryServer`, its dispatcher runs
without a topic (`bare`).  `CreateTopic` is a command that the server sends itself through the same queue, so it comes after
every request of before the start (`old` counts those that are left), and after as many later ones as had come when it was
sent.  What is handled in between is `AnswerWithoutTopic`: a subscribe is answered slot 0, an unsubscribe is answered false and
marks nothing.  The client sees no difference.  One that unsubscribed goes on with `CloseCursor` and removes its
semaphore's name.  One that was given slot 0 (`misled`) opens the semaphore whose name has its pid and 0, and has
a subscription if there is one (`OpenMisled`), or throws (`SubscribeThrows`): `named` is the set of slots that have a
semaphore by the name that goes with their `Pid`.

`CreateTopic` is then the constructor of `TopicService` on the memory it finds: active slots that are not pending and
whose pid runs are rebuilt, with the semaphore they had if it has its name still, and with a new one if not; the others lose
their semaphore and their pending flag.  The loop over the slots is one step: the dispatcher runs it, nobody publishes
before it ends, and what a living client does meanwhile concerns one slot, before or after the constructor has been there.  The first server is taken to have its topic before the first request (`RecoveryInit`),
and a server that is killed before `CreateTopic` not to have sent the command: its next life would take it from the
queue and set a promise at an address of the old process.

The properties say how far this goes.  A client with a cursor keeps its slot, one that was misled too
(`SubscribersKeepTheirSlots`): between the answer and the opening of the semaphore it has no subscription, and it finds
the semaphore only if slot 0 is or was left to be its own.  Such a client joins at the slot's old `NextIndex` and may have
a new semaphore, so it lags by as many messages as were published since, and reads old ones again.
`OneTokenLostPerCrash` is about those whose `NextIndex` was set since they joined (`joined` is set
by `OpenMisled` too), and `TokensNeverExceedMessages` about all.

### ConcurrentBag, IdPool and SubscriptionTables

A step is one access to what both threads see, with accesses to nodes that only its thread can reach.  The
threads are those the program has: the dispatcher pushes and rents, the publish thread walks, removes and
returns (`try_pop`, which only tests call, is given to that thread).  `aside` is `toRemove` of `NotifyAll`.
`try_rent` runs in a constructor, before the threads: `PoolInit` is the pool after it took any set `kept`.

`ImplementsSets` maps the bag to the items that can be reached from `items_head`, a walk to the items it has
yet to visit, and the pool to the ids that are off its free list.  `remove` may return false though the item is there
(`CutMissed`: a push moved the head, and the search goes on behind the node); `RemovalMissesOnlyByPush` says
that there is no other reason.  `ReturnThrowsOnlyForKept`: `try_rent` of the id at the head leaves its flag clear,
so its `returns` throws.

### RequestChannel

Queues, the topic's shared memory and the client objects of a process are numbered, because what matters is
whether the one that has a name is the one somebody holds: `srvName`, `inboxName` and `shm` are the names, `handle`,
`topicOf` and `cached` what a client or the server remembers.  A call of the client is one action up to the
`send`, and another one when the promise is set; in between is its dispatcher's `ReceiveAnswer`, and after an
unsubscription its `AckUnsubscribed`, which runs beside the caller that goes on.  The server's application thread
creates and removes the topic (`CreateTopic`, `RemoveTopic`, which wait) and stops (`StopServer`,
`FinishStop`); its dispatcher handles a message in one step (`OnSubscribe` ...), for no other thread writes
what it works on but `NotifyAll`.  `owner` is `Pid`, which stays in the table after `Active` is cleared.

`created` and `calls` count what the bounds limit and are no state of the program; `calls` numbers the cursors as well.
`ChannelAssumption` has `MaxRequests <= NumSlots`: an id is not given back to the pool (`topic_slot_leak`), so
`TopicService::Subscribe` throws in the dispatcher, and ends the process, when it is called for the 257th time,
whoever has left; the properties are about what happens before.

### FastBitSet, UdpReplication and TcpReplication

The bit set is the tree of the code, with blocks as sets of bits.  A datagram is the message it is part of,
its stamp and its sequence number.  The four branches of `ProcessFragment` are `ProcessWhole`, `ProcessOpen`,
`ProcessNew` and `ProcessLate`.  The pool gives one span at a time, so a frame that opens while another is open throws
`runtime_error`, which `ReplicateLoop` does not catch: `Terminate`.  That is why the branch for the previous frame never
completes a frame in the program, though the model has it.  `RestartSource` sets the steady clock of the source
back; stamps before and after are odd and even, so that they differ.

Over TCP, data under way is a sequence of headers and payloads per connection.  `Cut` breaks a connection at
any moment, and loses the data from some point on; the threads of the source and of the target learn of it at
their next read or write.  `StopSource` ends the source's process, `StartSource` starts it.  What an error does depends on
its kind (reconnect, end of the loop, end of the process), and the model takes each.

## Runs

| Run | Bounds | Shows |
|---|---|---|
| `buffer_one` | 1 writer, 1 reader, pool of 6 bytes, requests up to 2, 3 entries, 5 messages, 1 restart | types; spans inside the pool; the offset is the span's end; entries fresh; messages intact for as long as the pool allows; size counter exact; cursors never ahead; a reader that keeps up gets its message |
| `buffer_two` | 2 writers, pool of 4, 2 entries, 3 messages, 1 restart, writers symmetric | the flag is a lock over spans and destructors |
| `buffer_stale` | 2 writers, pool of 3 | **violation**: free space read before the lock |
| `buffer_overrun` | 1 writer, 1 reader, pool of 4, 2 entries, 4 messages | **violation**: a lapped reader is not told |
| `topic` | 2 clients, 2 slots, 3 messages, 3 subscriptions, clients symmetric | tokens match messages; no read throws; subscribers start where they joined; slots exclusive; bag and table agree; the topic implements `Feed` |
| `topic_live` | as above with 2 messages, fairness, no symmetry | messages are delivered, requests are answered |
| `topic_slot_leak` | 1 client | **violation**: ids never return to the pool |
| `topic_recovery` | 2 clients, 2 slots, 2 messages, 3 subscriptions, 1 death by a signal, any number of ends by itself, clients symmetric | a restart keeps subscribers, tokens never exceed messages, one lost per end of the server |
| `topic_zombie` | 1 client, 1 subscription, 2 deaths | **violation**: a slot revived by the second restart |
| `lists` | 4 items for 3 nodes (one push finds the bag full), 3 ids | the lock-free lists implement sets; nodes conserved; failures only for the reasons given |
| `replication` | messages of 5, 1 and 2 fragments, blocks of 2 bits, 2 duplicates; 3 connections, 1 stop of the source | the copy holds whole messages, once and in order; exact on a quiet network; gaps only at reconnections |
| `channel` | 2 processes (symmetric), 2 client objects, 3 requests, 2 commands, 2 servers, 3 slots | every call has one request or answer under way; subscriptions are kept; nobody dies but a client in its destructor |

The bounds let the interesting cases happen.  With 5 messages of up to 2 bytes the ring of 3
laps and the pool of 6 wraps with a gap at its end, out of step with the ring.  `LiveBytesIntact`
and `TimelyReadIsExact` hold for a lag up to `Size - 2 * MaxRequest + 1` bytes, and this bound
is tight: with one more, TLC finds a counterexample.  In `topic`, 3 subscribe requests for 2 clients and
2 slots make one client leave and come back to find no free id.  In `topic_recovery`, the 3 subscriptions make a client leave to a server
without the topic, be answered slot 0 and read from what it had left; that subscribe ends the server when no id
is free, in addition to the one death by a signal, so several ends of the server follow one another.  `topic_zombie` needs
two deaths.  In `replication`, a message of 5 fragments
has 3 leaves and 2 inner nodes with one bit of padding, so every case of the tree occurs; the others are a single
datagram and a message of one leaf.  In `channel`, the two client objects may be of one process, whose second one
meets the queue that the server remembers, or of two processes, one of which subscribes after a restart that
rebuilt the other's slot.  Deadlock is not checked: all
these systems stop when the bounded publisher and the clients are through.  `Word` is 1000,
larger than any count that occurs; what matters is that a difference below zero is huge.

Fairness (`topic_live`): weak fairness of the dispatcher and of the publisher's `NotifyAll`
(threads that run whenever they can: neither waits for anybody), and of each client's reading,
since delivery to a client that never calls `Read` is not promised.  Nobody is required to publish, to subscribe
or to leave.  A client blocked on its semaphore is not enabled, so weak fairness is enough.

### What the violations say of the code

* `buffer_stale` (`CyclicMemoryPool.hpp:143`): two threads that publish at once.  The second
  one's free space is stale when it gets the flag; its span passes the end of the pool.  With
  one publishing thread (`buffer_one`) every span is in bounds.
* `buffer_overrun` (`CyclicBuffer.hpp:132`): Reame.md asks for an exception when the server is too
  close to the reader; `TryRead` has no such test.
* `topic_slot_leak` (`SharedMemoryServer.cpp:81-85`): `Close()` sets `Index` to -1 before the code
  tests it to return the id.
* `topic_zombie` (`SharedMemoryServer.cpp:125-130`): `RemoveDanglingSubscriptionEntry` clears
  `PendingRemove` and not `Active`, so the restart after the next serves a subscription whose end was accepted.

## Proofs

Every invariant of every passing run, and the three refinements (`TopicImplementsFeed`, `TablesImplementSets`,
`ReplicationImplementsReplica`), are theorems, for every value of the constants that satisfies the assumptions of their
modules.  What only TLC checks are the liveness properties of `topic_live`.

`CyclicBuffer_proofs` is about every number of writers and readers, every pool size, request
bound, capacity, number of messages and number of restarts.  Its assumptions are
`WordAssumption`, `PoolAssumption`, `BufferAssumption`, and for the size counter `SizesAssumption`: the bytes a full
ring of the largest messages takes are less than 2^64.

* `SpansAreExclusive` and `OffsetFollowsSpan`.  Together with the types of the pool they are
  inductive (`LockInv`): a step that opens a span finds the flag clear, hence no span open.
* `TypeCorrect`.  Types are inductive with `LockInv` and `Counted` (a span's bytes are part of all
  bytes committed).
* `EntriesStayFresh`.  `EntriesFresh` says nothing of the destructors under way, so `RingInv` adds that
  only the holder of the flag is in `~WriterScope`, that it works on the slot of the next index,
  and that past the assignment that slot holds its entry.  The arithmetic at the bottom is
  `SlotsDiffer`: two indices less than a ring apart have different slots.
* `CursorsReadOnlyPublished`.  A cursor is on a published message or at the largest `ulong`, and the unsigned
  distance tells whether there is data (`DistanceTellsData`).  `FetchedFresh` keeps what a reader fetched: no
  message becomes live again.
* `CurrentSizeIsExact`.  `SizeCounted` gives `_currentSize` between `Account` and `Advance` as well, where it
  already has the message to come and lacks the one it overwrites, whose entry must still be there for its size to be
  taken off (`OldestFresh`).  The sizes are differences of the places that messages have among all bytes committed
  (`Chained`), whose growth per message is bounded, so that by `SizesAssumption` the counter does not wrap.  It is a
  claim about runs without a restart: a crash after `Account` leaves a message counted that is never published.

Its last section is what holds for one publishing thread; `buffer_stale` shows that two break it.

* `SpansStayInBounds`.  `BoundsInv` says that the offset is inside the
  pool and that a writer between the two halves of `GetWriteSpan` knows the free space there is (`FreeIsCurrent`); the
  latter is what a second writer's commit breaks.
* `MessagesStayWhole` and `TimelyReadsAreExact`.  `Placed` says of each message of the log where it lies with
  respect to the offset: its lag behind it, or the pool has wrapped since, which wasted less than a request at the end.  A span then overwrites nothing that lags by no
  more than `Size - 2 * MaxRequest + 1`, the bound TLC finds to be tight.  `Constructed` says that what a writer has
  committed and not yet published is constructed.

`Topic_proofs` proves every invariant of the run `topic`, for every number of clients, slots, messages
and subscriptions, from `WordAssumption`, `ClientsAssumption` (`Nobody` is not a client) and `TopicAssumption` (of which
it needs that the
message count plus one stays below `Word`: `ulong` never wraps but for the cursor at -1).  Its invariants allow for
clients that died, for a server that has ended and for `n` calls of `NotifyAll` cut short, so that
`TopicRecovery_proofs` has their steps from here; under `Spec` nobody dies and `n` is 0.  The
inductive invariants build on each other:

* `SlotInv` (`SlotsServeOneClient`, `TableShowsBag`).  Exclusive slots are not inductive: what counts is that
  a client has one request on its way at most (`RequestsMatchClients`), that the dispatcher's slot
  is already its client's (`HandlingMatches`), and that whatever `NotifyAll` has put aside stays in the
  bag and pending until its second loop (`RemovalsPending`).  So the publisher never removes the slot of a
  client that has not asked for it.
* `StartInv` (`SubscribersStartWhereTheyJoined`).  A slot without a start was pushed at the present index, or at
  the one before while its notification is still owed (`StartOf`); a start is set only for a slot that was
  counted and not put aside (`WalkInv`).
* `TokenInv` (`TokensCountMessages`, `ReadsFindTheirMessage`).  `Balance` relates the semaphore of a slot to the
  cursor that reads it: as many tokens as messages once it has started, none before.  It must be known of the slot
  in the dispatcher's hand as well (`HandedBalance`), whose client does not know it yet.
  `MinusBehind` and `MinusOne` are the modular arithmetic.

`TopicRecovery_proofs` proves every invariant of the run `topic_recovery`, for every number of deaths too:
`RecoveryKeepsTypes`, `SlotsSurviveRestarts`, `TokensStandForMessages`, `OneTokenPerDeath` and
`ReadsNeverThrowAfterDeaths`.  Its inductive invariant is `RecoveryInv`:

* `TokenInv(crashes)`, the invariant of `Topic_proofs` with one token of loss for each death.  `SubscribersHold` in it has what
  memory alone must tell the constructor: the slot of a subscribed client is active, its own and not pending
  whether or not a server runs (`Keeps`), and in the bag while one does (`Serving`).  A death is the step from `n` to
  `n + 1`: a `NotifyAll` that is cut short leaves one token of a slot unreleased, or a start unset.
* `BookInv`: a server without the topic runs only after a death, and without a topic nothing is in a bag or in a hand.
* `NamesInv`: which slots have a semaphore by their name.  A slot that does is active, and marked only if its client is
  leaving it; the slot of every cursor does.  So a client that was misled, and finds a name, finds it on an active slot of
  its own that is not pending: what `SubscribersKeepTheirSlots` needs when it opens it.
* `VacantInv`: of a slot that is kept for a living client without a cursor on it, the tokens are no more than the
  messages after its start, and none before it has one.  It is what `TokenInv` does not say, being about cursors and the
  request in hand, and what a misled client must find to read without an exception.

The last section of `Topic_proofs` proves `TopicImplementsFeed`: `Spec => Promise!Spec`, for every number of clients, slots and messages, by
the invariants above.  An action that publishes, pushes, opens a cursor, reads or leaves is a step of `Feed`, every
other one a stutter; that a reader starts at a message that is there and was published after it joined comes from
`StartInv` and `TokenInv`.

`SubscriptionTables_proofs` proves every invariant of `lists`, and `TablesImplementSets`: `Spec => ImplementsSets`, for any number
of nodes and ids.  A list is a set of nodes that the links go through (`IsChain`: it has a function that
numbers its nodes from 1 in the order of the links).  A push, a cut and the end of a walk change that set and its numbering
in ways stated once (`ItemsAfter`, `FreeListAfter`), and everything the specification says of
`Reachable` follows from the set.  Facts about every position of a list are proved by induction over the naturals, for which
there is a least counterexample in every set of naturals: the library's
induction theorems take an operator as a parameter, which these provers cannot instantiate.

* `NodesConserved` and `RemovalMisses` follow from `BagInv`.  The search of `remove` goes behind a
  node that a push has put in front (`Searched`): what it has passed is not the item unless the item is behind a head
  that moved.  A compare-and-swap cannot mistake a node that left and came back for itself, because each list has one thread
  that takes nodes away.
* `KeptIdsAloneThrow` follows from `PoolInv`: an id off the free list has its flag set, but for those
  `try_rent` took.
* The step of the walk that counts is where it ends: what the walk has not visited is what was in the bag
  when it began, less what it has removed since.

`RequestChannel_proofs` proves every invariant of `channel`, for every number of processes, client objects, calls,
commands and servers, from `ChannelAssumption`.  Its invariants build on each other:

* `NamesInv`: a server that runs has a queue, a process that has a client object has a queue by its pid, and what
  `GetClient` remembers is the queue of an object of that process.
* `CallInv` (`CallsWaitForSomethingAlways`).  A client that waits has one request in the queue it holds, or one answer
  in a queue of its pid, and everybody else has neither (`CallsUnderWay`); what is under way is of the kind of
  the call (`RequestsFit`, `AnswersFit`).  Hence the client of the request in hand waits, and
  `GetClient` finds its queue (`ClientFound`).  `RequestTaken` and `AnswerTaken` say where the messages of a sequence are
  after its `Tail`, for which the positions of all move.
* `UseInv` (`DiesOnlyInDestructorAlways`).  Each call takes one slot at most (`SlotsCounted`), so that a request not
  yet handled finds one (`SlotLeft`); a client that unsubscribes, or has cursors or slots to unsubscribe, has
  its topic (`TopicInUse`), and its cursors are all on the memory it has (`CursorsInUse`).
* `KeepInv` (`SubscriptionsAreAlwaysKept`).  The property itself is not inductive: it must be known without a server, when
  the table in shared memory alone can tell the next one (`Holds`); of a slot that is granted and not
  opened (`GrantsHold`); and a request to unsubscribe must be about a slot that no cursor of the client is on
  (`LeavesOld`), also when it waits in the queue while the topic is removed and created.  Memory objects
  are numbered in the order of their creation, so a new one is nobody's (`MemoryNumbered`).

`Tcp_proofs` proves `NoGapsWithinConnection`, for every number of messages, connections and stops of the source, from
`ConnectionAssumption`.  `TcpInv` numbers the headers and payloads of a connection and says that the items under way
follow without a gap the last one the target has read and end with the last one the source has written (`Stream`);
that a connection not yet served, or just opened, has brought nothing (`Unserved`, `Opening`); and that no
gap has been copied (`NoGap`).  A cut only takes the end of the items away, and the source writes no more behind it.

`FastBitSet_proofs` proves `BitSetTellsCompleteness`, for every size of block and number of bits, from `BlockAssumption`:
whatever bits are set in a new tree, the root is full exactly when all were.  `TreeOf` is what every `setBit` keeps: each inner
node is the conjunction of the two below it, the padding of the last leaf is ones, and a bit is one if it was set.  The way up in
`updateParents` is a recursive function over the nodes, of which `UpdateParentsRestores` says that
the conjunctions hold again at its end: on the way they hold but at the node above the one just written (`Pending`), and
where a node does not change, those above it hold as they did.

`Replication_proofs` proves `ReplicationImplementsReplica`: `Spec => ImplementsReplica`, for every topic, block size, number of
connections, stops and duplicates, with `ChunksAssumption`, `BlockAssumption` and `ConnectionAssumption`.

* Over UDP, `UdpInv(r)` has the stamp of every message as a function of its number (`StampOf`), where `r` is how many
  messages had been published when the source's host restarted.  The stamps of two messages differ, also across the
  restart, so a fragment goes to the frame of its own message (`UdpSameMessage`) and a frame whose tree is full
  is the whole message (`WrittenFrame`, from the theorem on the tree).  A frame is opened for a stamp later than
  any before, hence what it completes is not in the copy (`CopiesState`, `Fresh`).  While the target is up no previous frame is
  open (`FrameState`): the branch that would complete one is never taken.
* Over TCP, `TcpOrder` says that what the source has in hand for the target's connection and what is under way on it is
  later than all of the copy (`DataLater`).  When the target copies a message, `TcpInv` gives the numbers of what follows it on the
  connection, which are greater; a new connection's cursor begins at the number of messages published
  (`CursorsBehind`), which is no less than any copied.
* A step that copies is a step of `Replica` (`CopyMaps`), the restart of the source its loss of order, every other one but
  `Publish` a stutter (`NothingToMap`).

It also proves `InOrderNetworkGivesExactCopy`: `Spec => []InOrderNetworkIsExact`.  `InOrder(ts)` says where source and target
are: datagram `ts` of message `Len(replica) + 1` is the next one the target needs, `SourceMsg` and `SourceSeq` the next one to be sent,
and the datagrams under way are exactly those between the two places (`UnderWay`).  A datagram that arrives with none
sent before it under way is then the one the target needs (`NextInOrder`), so a frame opens only when the one before it
was completed and has given its span back: the target never asks for a second span, which would end it.
`NextPlace` is the arithmetic of the lexicographic order.

Each step lemma is one action of the specification, or a group that leaves the same state alone
(`WalkStep`).  TLC checked `RingInv` on the instances of
`buffer_one` and `buffer_two` before it was proved, the invariants of `Topic_proofs` on that of `topic`, those of
`TopicRecovery_proofs` on that of `topic_recovery`, those of `RequestChannel_proofs` on that of `channel`, and `TcpInv`,
`UdpInv`, `TcpOrder` and `InOrder` on that of `replication`.

Only model-checked: the liveness properties of `topic_live`, which are out of the prover's reach, as all liveness under
fairness is.

## What could follow

`RequestChannel` with clients and servers that are killed, and the destructors of the replicators, would add cases.

## Not modelled

* Timers, busy waiting, random correlation ids (each is taken to be new), platform shims, the test frame, and of
  the command line program all but the choice of a transport.
* `ClearIfExists`, which wipes a topic's memory, live subscribers or not, and `TryRemove`: nothing in the library calls
  them.
* A client that is killed between two calls of `RequestChannel`.  Its boost queue outlives it, so `GetClient` opens it and
  the answers pile up in it: a subscription's answer that no longer fits is dropped, any other one blocks the dispatcher, and
  the next client object with that pid cannot create its queue.  A server that is killed there (`TopicRecovery` has it, for a
  topic that is not removed); a publication while the topic is removed, which the library leaves to its caller;
  queues that fill up.
* Two topics on one TCP connection or one UDP socket: a TCP source reads one request from each connection,
  so the second is never served, and two threads of the target read from the same socket.  The destructors of the
  replicators, whose detached threads go on using them.
* Memory is sequentially consistent in the models: the atomics of the ring and of the table use the default
  order except for two relaxed loads in the constructor, and the plain stores of an entry precede a `fetch_add`; the
  lists use release and relaxed orders, whose reorderings are not explored.
* Reuse of a pid by another process, and the largest value of a semaphore.

### What the models show and no document denies

These behaviours are in the models, and the properties are stated around them:

* a client object that replaces a former one of the same process is answered into the former one's queue
  (`SharedMemoryServer.cpp:376`), and waits for ever; so does a call sent to a queue whose server stopped without a
  topic;
* the destructor of a client with subscriptions races its own dispatcher (`SharedMemoryClient.cpp:144`): `Get` may return a
  null pointer, which is dereferenced;
* an unsubscribe that a restarted server handles before it has the topic is answered and marks nothing
  (`SharedMemoryServer.cpp:368`); the topic that is created then rebuilds the slot, and notifies it for nobody;
* a client that was answered slot 0 for want of a topic and finds its former semaphore, or that of its former slot made
  anew, reads with it from the slot's old start (`SharedMemoryServer.cpp:356`);
* a client keeps the memory of a topic that was removed and created again (`SharedMemoryClient.cpp:161`);
* over UDP a fragment lost from a message of several ends the target process as soon as the next message comes,
  and after a reboot of the source's host messages of several fragments are ignored until its clock has passed
  the former stamps.
