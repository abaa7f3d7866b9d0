------------------------------ MODULE CyclicBuffer ------------------------------
(***************************************************************************)
(* The message ring of a topic (CyclicBuffer.hpp) over its byte pool        *)
(* (CyclicMemoryPool): a writer asks for a span, constructs the message in  *)
(* it, commits it, and the destructor of the WriterScope publishes it.      *)
(* Readers follow with cursors and look at the bytes in place (zero copy),  *)
(* with nothing that stops the writer from lapping them.                    *)
(*                                                                          *)
(* A message is known by the index at which it is published.  A byte holds  *)
(* the index of the message that was constructed over it last; the Type     *)
(* field travels with the entry and is left out.                            *)
(***************************************************************************)
EXTENDS CyclicMemoryPool, Sequences

CONSTANTS
    Capacity,     \* entries in the ring (State::_capacity)
    Readers,      \* cursors
    MaxMessages,  \* bound on the number of published messages
    MaxRestarts   \* bound on the number of writer process restarts

ASSUME BufferAssumption ==
    /\ Capacity \in Nat \ {0}
    /\ MaxMessages \in Nat
    /\ MaxRestarts \in Nat
    /\ MaxMessages + 1 < Word

(* The sizes that currentSize adds up fit in a ulong. *)
ASSUME SizesAssumption == Capacity * MaxRequest < Word

VARIABLES
    nextIndex,    \* State::_nextIndex
    currentSize,  \* State::_currentSize
    items,        \* the ring of Entry
    bytes,        \* for each byte, the message it holds
    dtor,         \* per writer, the progress of ~WriterScope
    nx,           \* per writer, its local copy of nextIndex in ~WriterScope
    cursor,       \* per reader, its Cursor and the Entry it has fetched
    log,          \* history: the messages published, in order
    written,      \* history: the bytes committed so far
    restarts      \* history: the number of restarts

bufferVars == <<nextIndex, currentSize, items, bytes, dtor, nx, cursor,
                log, written, restarts>>
vars == <<poolVars, bufferVars>>

Entry == [Size : Nat, Offset : Nat]
NoEntry == [Size |-> 0, Offset |-> 0]

Slot(i) == i % Capacity

TypeOK ==
    /\ PoolTypeOK
    /\ nextIndex \in Nat
    /\ currentSize \in Nat
    /\ items \in [0..(Capacity - 1) -> Entry]
    /\ bytes \in [0..(Size - 1) -> Int]
    /\ dtor \in [Writers -> {"none", "entry", "torn", "next", "done"}]
    /\ nx \in [Writers -> Nat]
    /\ cursor \in [Readers -> [pc : {"closed", "idle", "data", "entry"},
                               Index : Nat, entry : Entry]]
    /\ log \in Seq([entry : Entry, before : Nat])
    /\ written \in Nat
    /\ restarts \in Nat

Init ==
    /\ PoolInit
    /\ nextIndex = 0
    /\ currentSize = 0
    /\ items = [s \in 0..(Capacity - 1) |-> NoEntry]
    /\ bytes = [b \in 0..(Size - 1) |-> -1]
    /\ dtor = [w \in Writers |-> "none"]
    /\ nx = [w \in Writers |-> 0]
    /\ cursor = [r \in Readers |-> [pc |-> "closed", Index |-> 0, entry |-> NoEntry]]
    /\ log = <<>>
    /\ written = 0
    /\ restarts = 0

-----------------------------------------------------------------------------
(* WriteScope: the span of the pool, one step of GetWriteSpan at a time. *)
AskSpan(w, minSize) == ReadRemaining(w, minSize) /\ UNCHANGED bufferVars

Refuse(w) == RefuseSpan(w) /\ UNCHANGED bufferVars

OpenScope(w) ==
    /\ nextIndex < MaxMessages
    /\ TakeSpan(w)
    /\ UNCHANGED bufferVars

Requested(w) == (span[w].Start .. span[w].Start + need[w] - 1) \intersect DOMAIN bytes

(* The caller constructs its message over the bytes it asked for. *)
Fill(w) ==
    /\ wpc[w] = "open"
    /\ dtor[w] = "none"
    /\ span[w].committed = 0
    /\ bytes' = [b \in DOMAIN bytes |-> IF b \in Requested(w) THEN nextIndex ELSE bytes[b]]
    /\ UNCHANGED poolVars
    /\ UNCHANGED <<nextIndex, currentSize, items, dtor, nx, cursor, log, written, restarts>>

(* Span::Commit, of bytes the caller has constructed. *)
CommitSpan(w, n) ==
    /\ dtor[w] = "none"
    /\ n + span[w].committed <= need[w]
    /\ \A b \in Requested(w) : bytes[b] = nextIndex
    /\ Commit(w, n)
    /\ written' = written + n
    /\ UNCHANGED <<nextIndex, currentSize, items, bytes, dtor, nx, cursor, log, restarts>>

(* Fault: the size of the entry about to be overwritten stays counted. *)
Account_ForgetsOld(w) ==
    /\ wpc[w] = "open"
    /\ dtor[w] = "none"
    /\ span[w].committed > 0
    /\ nx' = [nx EXCEPT ![w] = nextIndex]
    /\ currentSize' = currentSize + span[w].committed
    /\ dtor' = [dtor EXCEPT ![w] = "entry"]
    /\ UNCHANGED poolVars
    /\ UNCHANGED <<nextIndex, items, bytes, cursor, log, written, restarts>>

(* ~WriterScope, first half: the entry about to be overwritten no longer   *)
(* counts, the new one does.                                               *)
Account(w) ==
    LET prvSize == IF nextIndex >= Capacity
                   THEN items[Slot(nextIndex - Capacity)].Size ELSE 0
    IN  /\ wpc[w] = "open"
        /\ dtor[w] = "none"
        /\ span[w].committed > 0
        /\ nx' = [nx EXCEPT ![w] = nextIndex]
        /\ currentSize' = Minus(currentSize + span[w].committed, prvSize)
        /\ dtor' = [dtor EXCEPT ![w] = "entry"]
        /\ UNCHANGED poolVars
        /\ UNCHANGED <<nextIndex, items, bytes, cursor, log, written, restarts>>

NewEntry(w) == [Size |-> span[w].committed, Offset |-> span[w].Start]

(* ~WriterScope, the assignment of the entry.  It is several stores, so a  *)
(* reader or a crash may find some fields old and some new.                *)
BeginEntry(w) ==
    /\ dtor[w] = "entry"
    /\ \E s \in {NewEntry(w).Size, items[Slot(nx[w])].Size},
          o \in {NewEntry(w).Offset, items[Slot(nx[w])].Offset} :
            items' = [items EXCEPT ![Slot(nx[w])] = [Size |-> s, Offset |-> o]]
    /\ dtor' = [dtor EXCEPT ![w] = "torn"]
    /\ UNCHANGED poolVars
    /\ UNCHANGED <<nextIndex, currentSize, bytes, nx, cursor, log, written, restarts>>

EndEntry(w) ==
    /\ dtor[w] = "torn"
    /\ items' = [items EXCEPT ![Slot(nx[w])] = NewEntry(w)]
    /\ dtor' = [dtor EXCEPT ![w] = "next"]
    /\ UNCHANGED poolVars
    /\ UNCHANGED <<nextIndex, currentSize, bytes, nx, cursor, log, written, restarts>>

(* Fault: the index is published before the entry is stored. *)
Advance_BeforeEntry(w) ==
    /\ dtor[w] = "entry"
    /\ nextIndex' = nextIndex + 1
    /\ log' = Append(log, [entry |-> NewEntry(w), before |-> written - span[w].committed])
    /\ dtor' = [dtor EXCEPT ![w] = "done"]
    /\ UNCHANGED poolVars
    /\ UNCHANGED <<currentSize, items, bytes, nx, cursor, written, restarts>>

(* ~WriterScope, the publication: nextIndex.fetch_add(1). *)
Advance(w) ==
    /\ dtor[w] = "next"
    /\ nextIndex' = nextIndex + 1
    /\ log' = Append(log, [entry |-> NewEntry(w), before |-> written - span[w].committed])
    /\ dtor' = [dtor EXCEPT ![w] = "done"]
    /\ UNCHANGED poolVars
    /\ UNCHANGED <<currentSize, items, bytes, nx, cursor, written, restarts>>

(* The Span member is destroyed after the body of ~WriterScope has run; a  *)
(* scope with nothing committed publishes nothing.                         *)
CloseScope(w) ==
    /\ \/ dtor[w] = "done"
       \/ dtor[w] = "none" /\ span[w].committed = 0
    /\ ReleaseSpan(w)
    /\ dtor' = [dtor EXCEPT ![w] = "none"]
    /\ UNCHANGED <<nextIndex, currentSize, items, bytes, nx, cursor, log, written, restarts>>

(* The writer's process dies between any two steps and starts again on the *)
(* same shared memory, whose flag Unlock() clears.                         *)
Restart ==
    /\ restarts < MaxRestarts
    /\ restarts' = restarts + 1
    /\ RestartPool
    /\ dtor' = [w \in Writers |-> "none"]
    /\ nx' = [w \in Writers |-> 0]
    /\ UNCHANGED <<nextIndex, currentSize, items, bytes, cursor, log, written>>

-----------------------------------------------------------------------------
(* OpenCursor(at): at is nextIndex or an index saved for the subscriber.   *)
OpenCursor(r, at) ==
    /\ cursor[r].pc = "closed"
    /\ cursor' = [cursor EXCEPT ![r] = [@ EXCEPT !.pc = "idle", !.Index = Minus(at, 1)]]
    /\ UNCHANGED poolVars
    /\ UNCHANGED <<nextIndex, currentSize, items, bytes, dtor, nx, log, written, restarts>>

(* Fault: a distance of one, the cursor's own position, counts as data. *)
TryRead_Off(r) ==
    /\ cursor[r].pc = "idle"
    /\ Minus(nextIndex, cursor[r].Index) >= 1
    /\ cursor' = [cursor EXCEPT ![r] =
                    [@ EXCEPT !.pc = "data", !.Index = Succ(cursor[r].Index)]]
    /\ UNCHANGED poolVars
    /\ UNCHANGED <<nextIndex, currentSize, items, bytes, dtor, nx, log, written, restarts>>

(* Cursor::TryRead returning true; the caller then holds Data(), a pointer *)
(* into the ring.  When it returns false nothing changes.                  *)
TryRead(r) ==
    /\ cursor[r].pc = "idle"
    /\ Minus(nextIndex, cursor[r].Index) > 1
    /\ cursor' = [cursor EXCEPT ![r] =
                    [@ EXCEPT !.pc = "data", !.Index = Succ(cursor[r].Index)]]
    /\ UNCHANGED poolVars
    /\ UNCHANGED <<nextIndex, currentSize, items, bytes, dtor, nx, log, written, restarts>>

(* Fault: the entry of the position after the cursor's. *)
FetchEntry_NextSlot(r) ==
    /\ cursor[r].pc = "data"
    /\ cursor' = [cursor EXCEPT ![r] =
                    [@ EXCEPT !.pc = "entry", !.entry = items[Slot(cursor[r].Index + 1)]]]
    /\ UNCHANGED poolVars
    /\ UNCHANGED <<nextIndex, currentSize, items, bytes, dtor, nx, log, written, restarts>>

(* Accessor::Size / Get: the entry is read through the pointer, later. *)
FetchEntry(r) ==
    /\ cursor[r].pc = "data"
    /\ cursor' = [cursor EXCEPT ![r] =
                    [@ EXCEPT !.pc = "entry", !.entry = items[Slot(cursor[r].Index)]]]
    /\ UNCHANGED poolVars
    /\ UNCHANGED <<nextIndex, currentSize, items, bytes, dtor, nx, log, written, restarts>>

(* The caller is through with the bytes. *)
DoneWithBytes(r) ==
    /\ cursor[r].pc = "entry"
    /\ cursor' = [cursor EXCEPT ![r] = [@ EXCEPT !.pc = "idle", !.entry = NoEntry]]
    /\ UNCHANGED poolVars
    /\ UNCHANGED <<nextIndex, currentSize, items, bytes, dtor, nx, log, written, restarts>>

-----------------------------------------------------------------------------
WriterStep(w) ==
    \/ \E n \in 0..MaxRequest : AskSpan(w, n)
    \/ Refuse(w)
    \/ OpenScope(w)
    \/ Fill(w)
    \/ \E n \in 1..MaxRequest : CommitSpan(w, n)
    \/ Account(w)
    \/ BeginEntry(w)
    \/ EndEntry(w)
    \/ Advance(w)
    \/ CloseScope(w)

ReaderStep(r) ==
    \/ \E at \in 0..nextIndex : OpenCursor(r, at)
    \/ TryRead(r)
    \/ FetchEntry(r)
    \/ DoneWithBytes(r)

Next ==
    \/ \E w \in Writers : WriterStep(w)
    \/ \E r \in Readers : ReaderStep(r)
    \/ Restart

Spec == Init /\ [][Next]_vars

-----------------------------------------------------------------------------
Message(i) == log[i + 1]

(* The last Capacity - 1 messages: the writer may be rewriting the entry of *)
(* the one before them.                                                     *)
Live == {i \in 0..(nextIndex - 1) : i > nextIndex - Capacity}

(* Bytes committed since message i was begun, i included. *)
Lag(i) == written - Message(i).before

BytesIntact(i) ==
    \A b \in Message(i).entry.Offset ..
             Message(i).entry.Offset + Message(i).entry.Size - 1 :
        b \in DOMAIN bytes /\ bytes[b] = i

(* Whatever the writers do, and wherever one of them died, the ring entry   *)
(* of each of the last Capacity - 1 messages is the one its writer stored:  *)
(* ~WriterScope never advances past an entry that is not complete.          *)
EntriesFresh ==
    \A i \in Live : items[Slot(i)] = Message(i).entry

(* A message stays whole in the pool until about a pool's worth of bytes    *)
(* has been committed after it: the only loss is one gap at the end of the  *)
(* pool (less than a request) and the span being filled.                    *)
LiveBytesIntact ==
    \A i \in 0..(nextIndex - 1) :
        Lag(i) + 2 * MaxRequest - 1 <= Size => BytesIntact(i)

(* BufferItemsSize(): between two destructors, currentSize is the total     *)
(* size of the messages that still have an entry.                           *)
Quiet == \A w \in Writers : dtor[w] \in {"none", "done"}

CommittedUnpublished ==
    {w \in Writers : dtor[w] = "none" /\ span[w].committed > 0}

CurrentSizeExact ==
    restarts = 0 /\ Quiet /\ CommittedUnpublished = {} =>
        currentSize = written - (IF nextIndex > Capacity
                                 THEN Message(nextIndex - Capacity).before ELSE 0)

(* A cursor hands out only messages that have been published, although the  *)
(* distance in TryRead is an unsigned difference that would be huge for a   *)
(* cursor ahead of the writer.                                              *)
ReadsOnlyPublished ==
    \A r \in Readers : cursor[r].pc \in {"data", "entry"} => cursor[r].Index < nextIndex

Exact(r) ==
    LET i == cursor[r].Index
    IN  cursor[r].entry = Message(i).entry /\ BytesIntact(i)

(* A reader that is less than a ring of entries and a pool of bytes behind  *)
(* when it looks at the bytes gets exactly the message of its index, even   *)
(* though the entry was fetched earlier and nothing is locked.              *)
TimelyReadIsExact ==
    \A r \in Readers :
        LET i == cursor[r].Index
        IN  cursor[r].pc = "entry" /\ i \in Live /\ Lag(i) + 2 * MaxRequest - 1 <= Size
                => Exact(r)

(* Reame.md: "if the server is too close to last read position, the         *)
(* exception shall be thrown. (from Client's prespective)".  Nothing throws *)
(* in TryRead or Data, so this says that what is handed out is the message. *)
NoSilentOverrun ==
    \A r \in Readers : cursor[r].pc = "entry" => Exact(r)

=============================================================================
