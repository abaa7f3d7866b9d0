------------------------- MODULE CyclicBuffer_proofs -------------------------
(***************************************************************************)
(* What holds of the message ring for every number of writers and readers,  *)
(* every pool size and every ring capacity.                                 *)
(***************************************************************************)
EXTENDS CyclicBuffer, TLAPS

-----------------------------------------------------------------------------
(* The pool's flag is a lock. *)

(* A difference of ulongs is a ulong. *)
LEMMA MinusType ==
    ASSUME NEW a \in Int, NEW b \in Int
    PROVE  Minus(a, b) \in Nat
  BY WordAssumption DEF Minus

LEMMA NoSpanType == NoSpan \in Spans
  BY DEF NoSpan, Spans

(* What the flag and the spans satisfy, with the types it takes to say so. *)
LockInv ==
    /\ PoolTypeOK
    /\ ExclusiveSpan
    /\ OffsetIsSpanEnd

LEMMA LockInit == PoolInit => LockInv
  <1> SUFFICES ASSUME PoolInit PROVE LockInv
    OBVIOUS
  <1>1. PoolTypeOK
    <2>1. 0 \in 0..MaxRequest /\ 0 \in Nat /\ 0 \in Int
      BY PoolAssumption
    <2>2. /\ wpc \in [Writers -> {"idle", "sized", "open"}]
          /\ need \in [Writers -> 0..MaxRequest]
          /\ free \in [Writers -> Nat]
      BY <2>1 DEF PoolInit
    <2>3. span \in [Writers -> Spans]
      BY NoSpanType DEF PoolInit
    <2> QED
      BY <2>1, <2>2, <2>3 DEF PoolInit, PoolTypeOK
  <1>2. ExclusiveSpan
    BY DEF PoolInit, ExclusiveSpan
  <1>3. OffsetIsSpanEnd
    BY DEF PoolInit, OffsetIsSpanEnd
  <1> QED
    BY <1>1, <1>2, <1>3 DEF LockInv

(* Each step of GetWriteSpan, Commit, ~Span and of a restart keeps it. *)
LEMMA LockReadRemaining ==
    ASSUME LockInv, NEW w \in Writers, NEW n \in 0..MaxRequest, ReadRemaining(w, n)
    PROVE  LockInv'
  <1>1. PoolTypeOK'
    <2>1. Size \in Int /\ offset \in Int
      BY PoolAssumption DEF LockInv, PoolTypeOK
    <2>2. Remaining \in Nat
      BY <2>1, MinusType DEF Remaining
    <2> QED
      BY <2>2 DEF LockInv, PoolTypeOK, ReadRemaining
  <1>2. ExclusiveSpan'
    BY DEF LockInv, PoolTypeOK, ExclusiveSpan, ReadRemaining
  <1>3. OffsetIsSpanEnd'
    BY DEF LockInv, PoolTypeOK, OffsetIsSpanEnd, ReadRemaining
  <1> QED
    BY <1>1, <1>2, <1>3 DEF LockInv

LEMMA LockRefuseSpan ==
    ASSUME LockInv, NEW w \in Writers, RefuseSpan(w)
    PROVE  LockInv'
  <1>1. PoolTypeOK'
    BY DEF LockInv, PoolTypeOK, RefuseSpan
  <1>2. ExclusiveSpan'
    BY DEF LockInv, PoolTypeOK, ExclusiveSpan, RefuseSpan
  <1>3. OffsetIsSpanEnd'
    BY DEF LockInv, PoolTypeOK, OffsetIsSpanEnd, RefuseSpan
  <1> QED
    BY <1>1, <1>2, <1>3 DEF LockInv

LEMMA LockTakeSpan ==
    ASSUME LockInv, NEW w \in Writers, TakeSpan(w)
    PROVE  LockInv'
  <1>1. PoolTypeOK'
    <2>1. PICK o \in Nat, n \in Nat :
             /\ offset' = o
             /\ span' = [span EXCEPT ![w] = [Start |-> o, Size |-> n, committed |-> 0]]
      BY PoolAssumption DEF LockInv, PoolTypeOK, TakeSpan
    <2>2. [Start |-> o, Size |-> n, committed |-> 0] \in Spans
      BY DEF Spans
    <2>3. span' \in [Writers -> Spans]
      BY <2>1, <2>2 DEF LockInv, PoolTypeOK
    <2>4. wpc' \in [Writers -> {"idle", "sized", "open"}]
      BY DEF LockInv, PoolTypeOK, TakeSpan
    <2> QED
      BY <2>1, <2>3, <2>4 DEF LockInv, PoolTypeOK, TakeSpan
  <1>2. ExclusiveSpan'
    BY DEF LockInv, PoolTypeOK, ExclusiveSpan, TakeSpan
  <1>3. OffsetIsSpanEnd'
    BY DEF LockInv, PoolTypeOK, ExclusiveSpan, OffsetIsSpanEnd, TakeSpan
  <1> QED
    BY <1>1, <1>2, <1>3 DEF LockInv

LEMMA LockCommit ==
    ASSUME LockInv, NEW w \in Writers, NEW n \in Nat, Commit(w, n)
    PROVE  LockInv'
  <1>1. PoolTypeOK'
    <2>1. span[w] \in Spans
      BY DEF LockInv, PoolTypeOK
    <2>2. [span[w] EXCEPT !.committed = @ + n] \in Spans
      BY <2>1 DEF Spans
    <2>3. span' = [span EXCEPT ![w] = [span[w] EXCEPT !.committed = @ + n]]
      BY DEF Commit
    <2>4. span' \in [Writers -> Spans]
      BY <2>2, <2>3 DEF LockInv, PoolTypeOK
    <2> QED
      BY <2>4 DEF LockInv, PoolTypeOK, Commit
  <1>2. ExclusiveSpan'
    BY DEF LockInv, PoolTypeOK, ExclusiveSpan, Commit
  <1>3. OffsetIsSpanEnd'
    <2> SUFFICES ASSUME NEW v \in Writers, wpc'[v] = "open"
                 PROVE  offset' = span'[v].Start + span'[v].committed
      BY DEF OffsetIsSpanEnd
    <2>1. v = w
      BY DEF LockInv, ExclusiveSpan, Commit
    <2>2. offset = span[w].Start + span[w].committed
      BY DEF LockInv, OffsetIsSpanEnd, Commit
    <2>3. span[w] \in Spans
      BY DEF LockInv, PoolTypeOK
    <2>4. /\ span'[w].Start = span[w].Start
          /\ span'[w].committed = span[w].committed + n
      BY <2>3 DEF LockInv, PoolTypeOK, Commit, Spans
    <2>5. span[w].Start \in Nat /\ span[w].committed \in Nat
      BY <2>3 DEF Spans
    <2> QED
      BY <2>1, <2>2, <2>4, <2>5 DEF Commit
  <1> QED
    BY <1>1, <1>2, <1>3 DEF LockInv

LEMMA LockReleaseSpan ==
    ASSUME LockInv, NEW w \in Writers, ReleaseSpan(w)
    PROVE  LockInv'
  <1>1. PoolTypeOK'
    BY NoSpanType DEF LockInv, PoolTypeOK, ReleaseSpan
  <1>2. ExclusiveSpan'
    BY DEF LockInv, PoolTypeOK, ExclusiveSpan, ReleaseSpan
  <1>3. OffsetIsSpanEnd'
    BY DEF LockInv, PoolTypeOK, OffsetIsSpanEnd, ReleaseSpan
  <1> QED
    BY <1>1, <1>2, <1>3 DEF LockInv

LEMMA LockRestart ==
    ASSUME LockInv, RestartPool
    PROVE  LockInv'
  <1>1. PoolTypeOK'
    <2>1. 0 \in 0..MaxRequest /\ 0 \in Int
      BY PoolAssumption
    <2>2. /\ wpc' \in [Writers -> {"idle", "sized", "open"}]
          /\ need' \in [Writers -> 0..MaxRequest]
          /\ free' \in [Writers -> Nat]
      BY <2>1 DEF RestartPool
    <2>3. span' \in [Writers -> Spans]
      BY NoSpanType DEF RestartPool
    <2> QED
      BY <2>2, <2>3 DEF LockInv, PoolTypeOK, RestartPool
  <1>2. ExclusiveSpan'
    BY DEF ExclusiveSpan, RestartPool
  <1>3. OffsetIsSpanEnd'
    BY DEF OffsetIsSpanEnd, RestartPool
  <1> QED
    BY <1>1, <1>2, <1>3 DEF LockInv

LEMMA LockUnchanged ==
    ASSUME LockInv, UNCHANGED poolVars
    PROVE  LockInv'
  BY DEF LockInv, PoolTypeOK, ExclusiveSpan, OffsetIsSpanEnd, poolVars


(* Every step of the ring is a step of the pool, or leaves the pool alone. *)
LEMMA LockStep == LockInv /\ [Next]_vars => LockInv'
  <1> SUFFICES ASSUME LockInv, [Next]_vars PROVE LockInv'
    OBVIOUS
  <1>1. ASSUME NEW w \in Writers, WriterStep(w) PROVE LockInv'
    <2>1. ASSUME NEW n \in 0..MaxRequest, AskSpan(w, n) PROVE LockInv'
      BY <2>1, LockReadRemaining DEF AskSpan
    <2>2. CASE Refuse(w)
      BY <2>2, LockRefuseSpan DEF Refuse
    <2>3. CASE OpenScope(w)
      BY <2>3, LockTakeSpan DEF OpenScope
    <2>4. ASSUME NEW n \in 1..MaxRequest, CommitSpan(w, n) PROVE LockInv'
      <3>1. n \in Nat
        BY PoolAssumption
      <3> QED
        BY <2>4, <3>1, LockCommit DEF CommitSpan
    <2>5. CASE CloseScope(w)
      BY <2>5, LockReleaseSpan DEF CloseScope
    <2>6. CASE Fill(w) \/ Account(w) \/ BeginEntry(w) \/ EndEntry(w) \/ Advance(w)
      BY <2>6, LockUnchanged DEF Fill, Account, BeginEntry, EndEntry, Advance
    <2> QED
      BY <1>1, <2>1, <2>2, <2>3, <2>4, <2>5, <2>6 DEF WriterStep
  <1>2. ASSUME NEW r \in Readers, ReaderStep(r) PROVE LockInv'
    BY <1>2, LockUnchanged DEF ReaderStep, OpenCursor, TryRead, FetchEntry, DoneWithBytes
  <1>3. CASE Restart
    BY <1>3, LockRestart DEF Restart
  <1>4. CASE UNCHANGED vars
    BY <1>4, LockUnchanged DEF vars
  <1> QED
    BY <1>1, <1>2, <1>3, <1>4 DEF Next

THEOREM LockInvariant == Spec => []LockInv
  <1>1. Init => LockInv
    BY LockInit DEF Init
  <1> QED
    BY <1>1, LockStep, PTL DEF Spec

(* The compare-and-swap on State::_inUse is enough: however many threads    *)
(* call GetWriteSpan, and wherever a process died before Unlock(), one span  *)
(* is open at most, and the flag says so.                                   *)
THEOREM SpansAreExclusive == Spec => []ExclusiveSpan
  BY LockInvariant, PTL DEF LockInv

(* The two places that Span::Commit moves, the span's and the pool's, never  *)
(* drift apart, so consecutive spans do not overlap.                        *)
THEOREM OffsetFollowsSpan == Spec => []OffsetIsSpanEnd
  BY LockInvariant, PTL DEF LockInv

-----------------------------------------------------------------------------
(* The types of the ring. *)

(* What a span has committed is part of what was committed in all: it is    *)
(* what keeps the "before" of a log entry a natural number.                 *)
Counted == \A w \in Writers : span[w].committed <= written

TypeInv ==
    /\ LockInv
    /\ TypeOK
    /\ Counted

LEMMA SlotType == ASSUME NEW i \in Nat PROVE Slot(i) \in 0..(Capacity - 1)
  BY BufferAssumption DEF Slot

LEMMA NewEntryType ==
    ASSUME LockInv, NEW w \in Writers
    PROVE  NewEntry(w) \in Entry
  <1>1. span[w] \in Spans
    BY DEF LockInv, PoolTypeOK
  <1> QED
    BY <1>1 DEF NewEntry, Entry, Spans

LEMMA TypeInit == Init => TypeInv
  <1> SUFFICES ASSUME Init PROVE TypeInv
    OBVIOUS
  <1>1. LockInv
    BY LockInit DEF Init
  <1>2. items \in [0..(Capacity - 1) -> Entry] /\ NoEntry \in Entry
    BY DEF Init, NoEntry, Entry
  <1>3. cursor \in [Readers -> [pc : {"closed", "idle", "data", "entry"},
                                 Index : Nat, entry : Entry]]
    BY <1>2 DEF Init
  <1>4. TypeOK
    BY <1>1, <1>2, <1>3 DEF Init, TypeOK, LockInv
  <1>5. Counted
    BY DEF Init, PoolInit, NoSpan, Counted
  <1> QED
    BY <1>1, <1>4, <1>5 DEF TypeInv

LEMMA CountedKept ==
    ASSUME Counted, written \in Nat, written' = written,
           \A v \in Writers : span'[v].committed = 0 \/ span'[v] = span[v]
    PROVE  Counted'
  BY DEF Counted

LEMMA TypeWriter ==
    ASSUME TypeInv, LockInv', NEW w \in Writers, WriterStep(w)
    PROVE  TypeOK' /\ Counted'
  <1> USE DEF TypeInv, TypeOK
  <1>0. span[w] \in Spans /\ PoolTypeOK'
    BY DEF LockInv, PoolTypeOK
  <1>1. ASSUME NEW n \in 0..MaxRequest, AskSpan(w, n) PROVE TypeOK' /\ Counted'
    BY <1>0, <1>1 DEF AskSpan, ReadRemaining, bufferVars, Counted
  <1>2. CASE Refuse(w)
    BY <1>0, <1>2 DEF Refuse, RefuseSpan, bufferVars, Counted
  <1>3. CASE OpenScope(w)
    <2>1. \A v \in Writers : span'[v].committed = 0 \/ span'[v] = span[v]
      BY <1>3 DEF OpenScope, TakeSpan, LockInv, PoolTypeOK
    <2>2. written' = written /\ written \in Nat
      BY <1>3 DEF OpenScope, bufferVars
    <2>3. Counted'
      BY <2>1, <2>2, CountedKept
    <2>4. UNCHANGED bufferVars
      BY <1>3 DEF OpenScope
    <2>5. TypeOK'
      BY <1>0, <2>4 DEF bufferVars
    <2> QED
      BY <2>3, <2>5
  <1>4. CASE Fill(w)
    BY <1>0, <1>4 DEF Fill, poolVars, Counted
  <1>5. ASSUME NEW n \in 1..MaxRequest, CommitSpan(w, n) PROVE TypeOK' /\ Counted'
    <2>1. n \in Nat /\ written' \in Nat /\ written' = written + n
      BY <1>5, PoolAssumption DEF CommitSpan
    <2>2. \A v \in Writers : /\ span[v].committed \in Nat
                             /\ span'[v].committed \in {span[v].committed,
                                                       span[v].committed + n}
      BY <1>5, <2>1 DEF CommitSpan, Commit, LockInv, PoolTypeOK, Spans
    <2>3. Counted'
      <3> SUFFICES ASSUME NEW v \in Writers PROVE span'[v].committed <= written'
        BY DEF Counted
      <3>1. span[v].committed <= written
        BY DEF Counted
      <3>2. CASE span'[v].committed = span[v].committed
        BY <2>1, <2>2, <3>1, <3>2
      <3>3. CASE span'[v].committed = span[v].committed + n
        BY <2>1, <2>2, <3>1, <3>3
      <3> QED
        BY <2>2, <3>2, <3>3
    <2> QED
      BY <1>0, <1>5, <2>1, <2>3 DEF CommitSpan
  <1>6. CASE Account(w)
    <2>1. \A s \in Int : Minus(currentSize + span[w].committed, s) \in Nat
      <3>1. currentSize + span[w].committed \in Int
        BY <1>0 DEF Spans
      <3> QED
        BY <3>1, MinusType
    <2>2. nextIndex >= Capacity => items[Slot(nextIndex - Capacity)].Size \in Int
      <3> SUFFICES ASSUME nextIndex >= Capacity
                   PROVE  items[Slot(nextIndex - Capacity)].Size \in Int
        OBVIOUS
      <3>1. nextIndex - Capacity \in Nat
        BY BufferAssumption
      <3>2. Slot(nextIndex - Capacity) \in 0..(Capacity - 1)
        BY <3>1, SlotType
      <3> QED
        BY <3>2 DEF Entry
    <2>3. currentSize' \in Nat
      <3>1. PICK s \in Int : currentSize' = Minus(currentSize + span[w].committed, s)
        BY <1>6, <2>2 DEF Account
      <3> QED
        BY <2>1, <3>1
    <2> QED
      BY <1>0, <1>6, <2>3 DEF Account, poolVars, Counted
  <1>7. CASE BeginEntry(w)
    <2>1. PICK s \in {NewEntry(w).Size, items[Slot(nx[w])].Size},
               o \in {NewEntry(w).Offset, items[Slot(nx[w])].Offset} :
            items' = [items EXCEPT ![Slot(nx[w])] = [Size |-> s, Offset |-> o]]
      BY <1>7 DEF BeginEntry
    <2>2. NewEntry(w) \in Entry /\ items[Slot(nx[w])] \in Entry
      BY NewEntryType, SlotType
    <2>3. [Size |-> s, Offset |-> o] \in Entry
      BY <2>1, <2>2 DEF Entry
    <2>4. items' \in [0..(Capacity - 1) -> Entry]
      BY <2>1, <2>3
    <2> QED
      BY <1>0, <1>7, <2>4 DEF BeginEntry, poolVars, Counted
  <1>8. CASE EndEntry(w)
    <2>1. NewEntry(w) \in Entry
      BY NewEntryType
    <2> QED
      BY <1>0, <1>8, <2>1 DEF EndEntry, poolVars, Counted
  <1>9. CASE Advance(w)
    <2>1. NewEntry(w) \in Entry
      BY NewEntryType
    <2>2. written - span[w].committed \in Nat
      BY <1>0 DEF Counted, Spans
    <2>3. [entry |-> NewEntry(w), before |-> written - span[w].committed]
             \in [entry : Entry, before : Nat]
      BY <2>1, <2>2
    <2>4. log' \in Seq([entry : Entry, before : Nat])
      BY <1>9, <2>3 DEF Advance
    <2> QED
      BY <1>0, <1>9, <2>4 DEF Advance, poolVars, Counted
  <1>10. CASE CloseScope(w)
    <2>0. span \in [Writers -> Spans]
      BY DEF LockInv, PoolTypeOK
    <2>1. \A v \in Writers : span'[v].committed = 0 \/ span'[v] = span[v]
      BY <1>10, <2>0 DEF CloseScope, ReleaseSpan, NoSpan
    <2>2. written' = written /\ written \in Nat
      BY <1>10 DEF CloseScope
    <2>3. Counted'
      BY <2>1, <2>2, CountedKept
    <2>4. dtor' \in [Writers -> {"none", "entry", "torn", "next", "done"}]
      BY <1>10 DEF CloseScope
    <2>5. TypeOK'
      BY <1>0, <1>10, <2>4 DEF CloseScope
    <2> QED
      BY <2>3, <2>5
  <1> QED
    BY <1>1, <1>2, <1>3, <1>4, <1>5, <1>6, <1>7, <1>8, <1>9, <1>10 DEF WriterStep

LEMMA SuccType == ASSUME NEW a \in Nat PROVE Succ(a) \in Nat
  BY WordAssumption DEF Succ

Cursors == [pc : {"closed", "idle", "data", "entry"}, Index : Nat, entry : Entry]

LEMMA TypeReader ==
    ASSUME TypeInv, LockInv', NEW r \in Readers, ReaderStep(r)
    PROVE  TypeOK' /\ Counted'
  <1> USE DEF TypeInv, TypeOK
  <1>0. /\ PoolTypeOK'
        /\ cursor \in [Readers -> Cursors]
    BY DEF LockInv, Cursors
  <1>1. cursor[r] \in Cursors
    BY <1>0
  <1>2. cursor' \in [Readers -> Cursors]
    <2>1. ASSUME NEW at \in 0..nextIndex, OpenCursor(r, at)
          PROVE  cursor' \in [Readers -> Cursors]
      <3>1. Minus(at, 1) \in Nat
        <4>1. at \in Int /\ 1 \in Int
          OBVIOUS
        <4> QED
          BY <4>1, MinusType
      <3>2. [cursor[r] EXCEPT !.pc = "idle", !.Index = Minus(at, 1)] \in Cursors
        BY <1>1, <3>1 DEF Cursors
      <3> QED
        BY <1>0, <2>1, <3>2 DEF OpenCursor
    <2>2. CASE TryRead(r)
      <3>1. Succ(cursor[r].Index) \in Nat
        BY <1>1, SuccType DEF Cursors
      <3>2. [cursor[r] EXCEPT !.pc = "data", !.Index = Succ(cursor[r].Index)] \in Cursors
        BY <1>1, <3>1 DEF Cursors
      <3> QED
        BY <1>0, <2>2, <3>2 DEF TryRead
    <2>3. CASE FetchEntry(r)
      <3>1. items[Slot(cursor[r].Index)] \in Entry
        BY <1>1, SlotType DEF Cursors
      <3>2. [cursor[r] EXCEPT !.pc = "entry", !.entry = items[Slot(cursor[r].Index)]]
               \in Cursors
        BY <1>1, <3>1 DEF Cursors
      <3> QED
        BY <1>0, <2>3, <3>2 DEF FetchEntry
    <2>4. CASE DoneWithBytes(r)
      <3>1. [cursor[r] EXCEPT !.pc = "idle", !.entry = NoEntry] \in Cursors
        BY <1>1 DEF Cursors, Entry, NoEntry
      <3> QED
        BY <1>0, <2>4, <3>1 DEF DoneWithBytes
    <2> QED
      BY <2>1, <2>2, <2>3, <2>4 DEF ReaderStep
  <1> QED
    BY <1>0, <1>2 DEF ReaderStep, OpenCursor, TryRead, FetchEntry, DoneWithBytes, poolVars,
                      Cursors, Counted

LEMMA TypeRestart ==
    ASSUME TypeInv, LockInv', Restart
    PROVE  TypeOK' /\ Counted'
  <1>1. PoolTypeOK'
    BY DEF LockInv
  <1>2. TypeOK'
    BY <1>1 DEF TypeInv, TypeOK, Restart
  <1>3. Counted'
    BY DEF TypeInv, TypeOK, Counted, Restart, RestartPool, NoSpan
  <1> QED
    BY <1>2, <1>3

LEMMA TypeStep == TypeInv /\ [Next]_vars => TypeInv'
  <1> SUFFICES ASSUME TypeInv, [Next]_vars PROVE TypeInv'
    OBVIOUS
  <1>0. LockInv'
    BY LockStep DEF TypeInv
  <1>1. CASE Next
    BY <1>0, <1>1, TypeWriter, TypeReader, TypeRestart DEF Next, TypeInv
  <1>2. CASE UNCHANGED vars
    BY <1>0, <1>2 DEF TypeInv, TypeOK, LockInv, Counted, vars, poolVars, bufferVars
  <1> QED
    BY <1>1, <1>2

THEOREM TypeInvariant == Spec => []TypeInv
  BY TypeInit, TypeStep, PTL DEF Spec

(* Every variable of the pool and of the ring keeps its type, the size_t     *)
(* differences included.                                                    *)
THEOREM TypeCorrect == Spec => []TypeOK
  BY TypeInvariant, PTL DEF TypeInv

-----------------------------------------------------------------------------
(* The entries of the ring. *)

(* What makes EntriesFresh inductive: only the thread that holds the flag   *)
(* is in ~WriterScope, it works on the slot of the next index, and past the *)
(* assignment of the entry that slot is complete.                           *)
DtorHoldsFlag == \A w \in Writers : dtor[w] # "none" => wpc[w] = "open"

DtorAtNextIndex ==
    \A w \in Writers : dtor[w] \in {"entry", "torn", "next"} => nx[w] = nextIndex

EntryStored ==
    \A w \in Writers : dtor[w] = "next" => items[Slot(nextIndex)] = NewEntry(w)

RingInv ==
    /\ TypeInv
    /\ Len(log) = nextIndex
    /\ DtorHoldsFlag
    /\ DtorAtNextIndex
    /\ EntryStored
    /\ EntriesFresh

(* Two indices less than a ring apart have different slots. *)
LEMMA QuotientRemainder ==
    ASSUME NEW i \in Int
    PROVE  /\ i \div Capacity \in Int /\ i % Capacity \in Int
           /\ i = Capacity * (i \div Capacity) + (i % Capacity)
  BY BufferAssumption

LEMMA MultipleBounds ==
    ASSUME NEW d \in Int
    PROVE  (d <= 0 => Capacity * d <= 0) /\ (d >= 1 => Capacity * d >= Capacity)
  BY BufferAssumption

LEMMA Distributes ==
    ASSUME NEW a \in Int, NEW b \in Int
    PROVE  Capacity * a - Capacity * b = Capacity * (a - b)
  BY BufferAssumption

LEMMA SlotsDiffer ==
    ASSUME NEW i \in Nat, NEW j \in Nat, i < j, j < i + Capacity
    PROVE  Slot(i) # Slot(j)
  <1> SUFFICES ASSUME i % Capacity = j % Capacity PROVE FALSE
    BY DEF Slot
  <1> DEFINE d == (j \div Capacity) - (i \div Capacity)
  <1>1. /\ i \div Capacity \in Int /\ i % Capacity \in Int
        /\ i = Capacity * (i \div Capacity) + (i % Capacity)
        /\ j \div Capacity \in Int
        /\ j = Capacity * (j \div Capacity) + (j % Capacity)
    BY QuotientRemainder
  <1>2. j - i = Capacity * (j \div Capacity) - Capacity * (i \div Capacity)
    BY <1>1, BufferAssumption
  <1>3. j - i = Capacity * d
    BY <1>1, <1>2, Distributes
  <1>4. d \in Int /\ Capacity * d \in Int
    BY <1>1, BufferAssumption
  <1> HIDE DEF d
  <1> QED
    BY <1>3, <1>4, MultipleBounds, BufferAssumption

LEMMA LiveSlotsDiffer ==
    ASSUME TypeInv, NEW i \in Live
    PROVE  i \in Nat /\ i < nextIndex /\ Slot(i) # Slot(nextIndex)
  <1>1. nextIndex \in Nat
    BY DEF TypeInv, TypeOK
  <1>2. i \in Nat /\ i < nextIndex /\ nextIndex < i + Capacity
    BY <1>1, BufferAssumption DEF Live
  <1> QED
    BY <1>1, <1>2, SlotsDiffer

LEMMA RingInit == Init => RingInv
  <1> SUFFICES ASSUME Init PROVE RingInv
    OBVIOUS
  <1>1. Live = {}
    BY BufferAssumption DEF Init, Live
  <1> QED
    BY <1>1, TypeInit DEF Init, RingInv, DtorHoldsFlag, DtorAtNextIndex, EntryStored,
                          EntriesFresh

(* A thread that is not in ~WriterScope and leaves the ring alone. *)
LEMMA RingKept ==
    ASSUME RingInv, TypeInv', NEW w \in Writers, dtor[w] = "none",
           UNCHANGED <<nextIndex, items, dtor, nx, log>>,
           \A v \in Writers \ {w} : wpc'[v] = wpc[v] /\ span'[v] = span[v]
    PROVE  RingInv'
  <1>1. DtorHoldsFlag'
    BY DEF RingInv, DtorHoldsFlag
  <1>2. DtorAtNextIndex'
    BY DEF RingInv, DtorAtNextIndex
  <1>3. EntryStored'
    BY DEF RingInv, EntryStored, NewEntry
  <1>4. EntriesFresh'
    BY DEF RingInv, EntriesFresh, Live, Message
  <1> QED
    BY <1>1, <1>2, <1>3, <1>4 DEF RingInv

LEMMA RingAsk ==
    ASSUME RingInv, TypeInv', NEW w \in Writers, NEW n \in 0..MaxRequest, AskSpan(w, n)
    PROVE  RingInv'
  <1>1. dtor[w] = "none"
    BY DEF RingInv, DtorHoldsFlag, AskSpan, ReadRemaining
  <1>2. \A v \in Writers \ {w} : wpc'[v] = wpc[v] /\ span'[v] = span[v]
    BY DEF RingInv, TypeInv, LockInv, PoolTypeOK, AskSpan, ReadRemaining
  <1> QED
    BY <1>1, <1>2, RingKept DEF AskSpan, bufferVars

LEMMA RingOpen ==
    ASSUME RingInv, TypeInv', NEW w \in Writers, Refuse(w) \/ OpenScope(w)
    PROVE  RingInv'
  <1>1. dtor[w] = "none"
    BY DEF RingInv, DtorHoldsFlag, Refuse, RefuseSpan, OpenScope, TakeSpan
  <1>2. \A v \in Writers \ {w} : wpc'[v] = wpc[v] /\ span'[v] = span[v]
    BY DEF RingInv, TypeInv, LockInv, PoolTypeOK, Refuse, RefuseSpan, OpenScope, TakeSpan
  <1> QED
    BY <1>1, <1>2, RingKept DEF Refuse, OpenScope, bufferVars

LEMMA RingFill ==
    ASSUME RingInv, TypeInv', NEW w \in Writers,
           Fill(w) \/ (\E n \in 1..MaxRequest : CommitSpan(w, n))
    PROVE  RingInv'
  <1>1. dtor[w] = "none"
    BY DEF Fill, CommitSpan
  <1>2. \A v \in Writers \ {w} : wpc'[v] = wpc[v] /\ span'[v] = span[v]
    BY DEF RingInv, TypeInv, LockInv, PoolTypeOK, Fill, CommitSpan, Commit, poolVars
  <1> QED
    BY <1>1, <1>2, RingKept DEF Fill, CommitSpan

(* The thread in ~WriterScope is the only one. *)
LEMMA OneDtor ==
    ASSUME RingInv, NEW v \in Writers, NEW w \in Writers,
           dtor[v] # "none", wpc[w] = "open"
    PROVE  v = w
  BY DEF RingInv, TypeInv, LockInv, ExclusiveSpan, DtorHoldsFlag

LEMMA RingAccount ==
    ASSUME RingInv, TypeInv', NEW w \in Writers, Account(w)
    PROVE  RingInv'
  <1>1. \A v \in Writers : dtor'[v] # "none" => v = w
    BY OneDtor DEF Account, RingInv, TypeInv, TypeOK
  <1>2. dtor'[w] = "entry" /\ nx'[w] = nextIndex /\ wpc'[w] = "open"
    BY DEF Account, RingInv, TypeInv, TypeOK, poolVars
  <1>3. EntriesFresh' /\ Len(log') = nextIndex'
    BY DEF RingInv, EntriesFresh, Live, Message, Account
  <1>4. nextIndex' = nextIndex
    BY DEF Account
  <1> QED
    BY <1>1, <1>2, <1>3, <1>4 DEF RingInv, DtorHoldsFlag, DtorAtNextIndex, EntryStored

(* The assignment of the entry touches no slot of a live message. *)
LEMMA RingEntry ==
    ASSUME RingInv, TypeInv', NEW w \in Writers, BeginEntry(w) \/ EndEntry(w)
    PROVE  RingInv'
  <1>1. dtor[w] \in {"entry", "torn"} /\ wpc[w] = "open" /\ nx[w] = nextIndex
    BY DEF BeginEntry, EndEntry, RingInv, DtorHoldsFlag, DtorAtNextIndex
  <1>2. UNCHANGED <<nextIndex, log, nx, wpc, span>>
    BY DEF BeginEntry, EndEntry, poolVars
  <1>3. \A v \in Writers : dtor'[v] # "none" => v = w
    BY <1>1, OneDtor DEF BeginEntry, EndEntry, RingInv, TypeInv, TypeOK
  <1>4. \A i \in Live : items'[Slot(i)] = items[Slot(i)]
    <2> TAKE i \in Live
    <2>1. i \in Nat /\ Slot(i) # Slot(nextIndex)
      BY LiveSlotsDiffer DEF RingInv
    <2>2. Slot(i) \in 0..(Capacity - 1)
      BY <2>1, SlotType
    <2> QED
      BY <1>1, <2>1, <2>2 DEF BeginEntry, EndEntry, RingInv, TypeInv, TypeOK
  <1>5. EntriesFresh'
    BY <1>2, <1>4 DEF RingInv, EntriesFresh, Live, Message
  <1>6. EntryStored'
    <2> SUFFICES ASSUME NEW v \in Writers, dtor'[v] = "next"
                 PROVE  items'[Slot(nextIndex')] = NewEntry(v)'
      BY DEF EntryStored
    <2>1. v = w
      BY <1>3
    <2>2. EndEntry(w)
      BY <2>1 DEF BeginEntry, EndEntry, RingInv, TypeInv, TypeOK
    <2>3. Slot(nextIndex) \in 0..(Capacity - 1)
      BY SlotType DEF RingInv, TypeInv, TypeOK
    <2>4. items'[Slot(nextIndex)] = NewEntry(w)
      BY <1>1, <2>2, <2>3 DEF EndEntry, RingInv, TypeInv, TypeOK
    <2> QED
      BY <1>2, <2>1, <2>4 DEF NewEntry
  <1>7. DtorHoldsFlag' /\ DtorAtNextIndex'
    BY <1>1, <1>2, <1>3 DEF DtorHoldsFlag, DtorAtNextIndex
  <1> QED
    BY <1>2, <1>5, <1>6, <1>7 DEF RingInv

LEMMA RingAdvance ==
    ASSUME RingInv, TypeInv', NEW w \in Writers, Advance(w)
    PROVE  RingInv'
  <1> DEFINE rec == [entry |-> NewEntry(w), before |-> written - span[w].committed]
  <1>1. dtor[w] = "next" /\ wpc[w] = "open" /\ items[Slot(nextIndex)] = NewEntry(w)
    BY DEF Advance, RingInv, DtorHoldsFlag, EntryStored
  <1>2. \A v \in Writers : dtor'[v] # "none" => v = w /\ dtor'[v] = "done"
    BY <1>1, OneDtor DEF Advance, RingInv, TypeInv, TypeOK
  <1>3. wpc'[w] = "open"
    BY <1>1 DEF Advance, poolVars
  <1>4. nextIndex \in Nat /\ Len(log) = nextIndex /\ log \in Seq([entry : Entry, before : Nat])
    BY DEF RingInv, TypeInv, TypeOK
  <1>5. /\ nextIndex' = nextIndex + 1
        /\ log' = Append(log, rec)
        /\ items' = items
    BY DEF Advance
  <1>6. Len(log') = nextIndex'
    BY <1>4, <1>5
  <1>7. EntriesFresh'
    <2> SUFFICES ASSUME NEW i \in Live' PROVE items'[Slot(i)] = Message(i).entry'
      BY DEF EntriesFresh
    <2>1. i \in Nat /\ i <= nextIndex /\ i > nextIndex + 1 - Capacity
      BY <1>4, <1>5, BufferAssumption DEF Live
    <2>2. CASE i < nextIndex
      <3>1. i \in Live
        BY <1>4, <2>1, <2>2, BufferAssumption DEF Live
      <3>2. log'[i + 1] = log[i + 1]
        BY <1>4, <1>5, <2>1, <2>2
      <3> QED
        BY <1>5, <3>1, <3>2 DEF RingInv, EntriesFresh, Message
    <2>3. CASE i = nextIndex
      <3>1. log'[i + 1] = rec
        BY <1>4, <1>5, <2>3
      <3>2. log'[i + 1].entry = NewEntry(w)
        BY <3>1
      <3>3. items'[Slot(i)] = NewEntry(w)
        BY <1>1, <1>5, <2>3
      <3> QED
        BY <3>2, <3>3 DEF Message
    <2> QED
      BY <1>4, <2>1, <2>2, <2>3
  <1>8. DtorHoldsFlag' /\ DtorAtNextIndex' /\ EntryStored'
    BY <1>2, <1>3 DEF DtorHoldsFlag, DtorAtNextIndex, EntryStored
  <1> QED
    BY <1>6, <1>7, <1>8 DEF RingInv

LEMMA RingClose ==
    ASSUME RingInv, TypeInv', NEW w \in Writers, CloseScope(w)
    PROVE  RingInv'
  <1>1. wpc[w] = "open"
    BY DEF CloseScope, ReleaseSpan
  <1>2. \A v \in Writers : dtor'[v] = "none"
    BY <1>1, OneDtor DEF CloseScope, RingInv, TypeInv, TypeOK
  <1>3. EntriesFresh' /\ Len(log') = nextIndex'
    BY DEF RingInv, EntriesFresh, Live, Message, CloseScope
  <1> QED
    BY <1>2, <1>3 DEF RingInv, DtorHoldsFlag, DtorAtNextIndex, EntryStored

LEMMA RingRestart ==
    ASSUME RingInv, TypeInv', Restart
    PROVE  RingInv'
  <1>1. \A v \in Writers : dtor'[v] = "none"
    BY DEF Restart
  <1>2. EntriesFresh' /\ Len(log') = nextIndex'
    BY DEF RingInv, EntriesFresh, Live, Message, Restart
  <1> QED
    BY <1>1, <1>2 DEF RingInv, DtorHoldsFlag, DtorAtNextIndex, EntryStored

LEMMA RingUntouched ==
    ASSUME RingInv, TypeInv', UNCHANGED <<nextIndex, items, dtor, nx, log, wpc, span>>
    PROVE  RingInv'
  <1>1. EntriesFresh'
    BY DEF RingInv, EntriesFresh, Live, Message
  <1> QED
    BY <1>1 DEF RingInv, DtorHoldsFlag, DtorAtNextIndex, EntryStored, NewEntry

LEMMA RingStep == RingInv /\ [Next]_vars => RingInv'
  <1> SUFFICES ASSUME RingInv, [Next]_vars PROVE RingInv'
    OBVIOUS
  <1>0. TypeInv'
    BY TypeStep DEF RingInv
  <1>1. ASSUME NEW w \in Writers, WriterStep(w) PROVE RingInv'
    BY <1>0, <1>1, RingAsk, RingOpen, RingFill, RingAccount, RingEntry, RingAdvance, RingClose
       DEF WriterStep
  <1>2. ASSUME NEW r \in Readers, ReaderStep(r) PROVE RingInv'
    <2>1. UNCHANGED <<nextIndex, items, dtor, nx, log, wpc, span>>
      BY <1>2 DEF ReaderStep, OpenCursor, TryRead, FetchEntry, DoneWithBytes, poolVars
    <2> QED
      BY <1>0, <2>1, RingUntouched
  <1>3. CASE UNCHANGED vars
    BY <1>0, <1>3, RingUntouched DEF vars, poolVars, bufferVars
  <1>4. CASE Restart
    BY <1>0, <1>4, RingRestart
  <1> QED
    BY <1>1, <1>2, <1>3, <1>4 DEF Next

THEOREM RingInvariant == Spec => []RingInv
  BY RingInit, RingStep, PTL DEF Spec

(* However many threads publish, and wherever ~WriterScope was cut short by *)
(* the death of its process, the entry of each of the last Capacity - 1     *)
(* messages is the one its writer stored.                                   *)
THEOREM EntriesStayFresh == Spec => []EntriesFresh
  BY RingInvariant, PTL DEF RingInv

-----------------------------------------------------------------------------
(* The cursors. *)

(* A scope that is open has an index to publish at. *)
RoomForIndex ==
    /\ nextIndex <= MaxMessages
    /\ \A w \in Writers : wpc[w] = "open" /\ dtor[w] # "done" => nextIndex < MaxMessages

(* A cursor that waits is behind the writer, or before the first message,    *)
(* at the largest ulong; one that has data is on a published message.        *)
CursorsFollow ==
    \A r \in Readers :
        /\ cursor[r].pc = "idle" => cursor[r].Index < nextIndex \/ cursor[r].Index = Word - 1
        /\ cursor[r].pc \in {"data", "entry"} => cursor[r].Index < nextIndex

(* An entry that was fetched stays the message's while the message is live:  *)
(* the log only grows, and no message becomes live again.                    *)
FetchedFresh ==
    \A r \in Readers :
        cursor[r].pc = "entry" /\ cursor[r].Index \in Live
            => cursor[r].entry = Message(cursor[r].Index).entry

ReadInv ==
    /\ RingInv
    /\ RoomForIndex
    /\ CursorsFollow
    /\ FetchedFresh

LEMMA CursorBeforeNext ==
    ASSUME NEW n \in Nat, n <= MaxMessages, NEW at \in 0..n
    PROVE  Minus(at, 1) < n \/ Minus(at, 1) = Word - 1
  <1>1. MaxMessages + 1 < Word /\ Word \in Nat /\ MaxMessages \in Nat
    BY BufferAssumption, WordAssumption
  <1>2. CASE at = 0
    BY <1>1, <1>2 DEF Minus
  <1>3. CASE at > 0
    <2>1. at - 1 \in 0..(Word - 1) /\ at - 1 < n
      BY <1>1, <1>3
    <2>2. Minus(at, 1) = at - 1
      BY <1>1, <2>1 DEF Minus
    <2> QED
      BY <2>1, <2>2
  <1> QED
    BY <1>2, <1>3

(* The distance of TryRead, unsigned as it is, tells whether there is data.  *)
LEMMA DistanceTellsData ==
    ASSUME NEW n \in Nat, n <= MaxMessages, NEW k \in Nat, k < n \/ k = Word - 1,
           Minus(n, k) > 1
    PROVE  Succ(k) < n
  <1>1. MaxMessages + 1 < Word /\ Word \in Nat /\ MaxMessages \in Nat
    BY BufferAssumption, WordAssumption
  <1>2. CASE k = Word - 1
    <2>1. n - k \in Int /\ -Word <= n - k /\ n - k < 0
      BY <1>1, <1>2
    <2>2. Minus(n, k) = n + 1
      BY <1>1, <1>2, <2>1 DEF Minus
    <2>3. Succ(k) = 0
      BY <1>1, <1>2 DEF Succ
    <2> QED
      BY <2>2, <2>3
  <1>3. CASE k < n
    <2>1. n - k \in 0..(Word - 1) /\ k + 1 \in 0..(Word - 1)
      BY <1>1, <1>3
    <2>2. Minus(n, k) = n - k
      BY <1>1, <2>1 DEF Minus
    <2>3. Succ(k) = k + 1
      BY <1>1, <2>1 DEF Succ
    <2> QED
      BY <2>2, <2>3
  <1> QED
    BY <1>2, <1>3

LEMMA ReadInit == Init => ReadInv
  BY RingInit, BufferAssumption
     DEF Init, PoolInit, ReadInv, RoomForIndex, CursorsFollow, FetchedFresh

LEMMA RoomStep ==
    ASSUME ReadInv, [Next]_vars
    PROVE  RoomForIndex'
  <1> USE DEF ReadInv, RingInv, TypeInv, TypeOK, LockInv, PoolTypeOK
  <1>0. nextIndex \in Nat /\ MaxMessages \in Nat
    BY BufferAssumption
  <1>1. ASSUME NEW w \in Writers, WriterStep(w) PROVE RoomForIndex'
    <2>1. CASE (\E n \in 0..MaxRequest : AskSpan(w, n)) \/ Refuse(w)
      BY <2>1 DEF AskSpan, ReadRemaining, Refuse, RefuseSpan, bufferVars, RoomForIndex
    <2>2. CASE OpenScope(w)
      BY <2>2 DEF OpenScope, TakeSpan, bufferVars, RoomForIndex
    <2>3. CASE Fill(w) \/ (\E n \in 1..MaxRequest : CommitSpan(w, n))
      BY <2>3 DEF Fill, CommitSpan, Commit, poolVars, RoomForIndex
    <2>4. CASE Account(w) \/ BeginEntry(w) \/ EndEntry(w)
      <3>1. UNCHANGED <<wpc, nextIndex>> /\ dtor[w] # "done"
        BY <2>4 DEF Account, BeginEntry, EndEntry, poolVars
      <3>2. \A v \in Writers : dtor'[v] = dtor[v] \/ v = w
        BY <2>4 DEF Account, BeginEntry, EndEntry
      <3> QED
        BY <3>1, <3>2 DEF RoomForIndex
    <2>5. CASE Advance(w)
      <3>1. wpc[w] = "open" /\ dtor[w] # "done"
        BY <2>5 DEF Advance, DtorHoldsFlag
      <3>2. \A v \in Writers : wpc[v] = "open" => v = w
        BY <3>1 DEF ExclusiveSpan
      <3>3. nextIndex < MaxMessages /\ nextIndex' = nextIndex + 1 /\ wpc' = wpc
            /\ dtor'[w] = "done"
        BY <2>5, <3>1 DEF Advance, poolVars, RoomForIndex
      <3> QED
        BY <1>0, <3>2, <3>3 DEF RoomForIndex
    <2>6. CASE CloseScope(w)
      BY <2>6 DEF CloseScope, ReleaseSpan, RoomForIndex
    <2> QED
      BY <1>1, <2>1, <2>2, <2>3, <2>4, <2>5, <2>6 DEF WriterStep
  <1>2. ASSUME NEW r \in Readers, ReaderStep(r) PROVE RoomForIndex'
    BY <1>2 DEF ReaderStep, OpenCursor, TryRead, FetchEntry, DoneWithBytes, poolVars, RoomForIndex
  <1>3. CASE Restart
    BY <1>3 DEF Restart, RestartPool, RoomForIndex
  <1>4. CASE UNCHANGED vars
    BY <1>4 DEF vars, poolVars, bufferVars, RoomForIndex
  <1> QED
    BY <1>1, <1>2, <1>3, <1>4 DEF Next

LEMMA ReaderMoves ==
    ASSUME ReadInv, NEW r \in Readers, ReaderStep(r)
    PROVE  CursorsFollow' /\ FetchedFresh'
  <1>0. /\ cursor \in [Readers -> Cursors] /\ nextIndex \in Nat /\ nextIndex <= MaxMessages
        /\ cursor[r].Index \in Nat
    BY DEF ReadInv, RingInv, TypeInv, TypeOK, Cursors, RoomForIndex
  <1>1. UNCHANGED <<nextIndex, log>> /\ Live' = Live
    BY DEF ReaderStep, OpenCursor, TryRead, FetchEntry, DoneWithBytes, Live
  <1>2. \A q \in Readers : q # r => cursor'[q] = cursor[q]
    BY <1>0 DEF ReaderStep, OpenCursor, TryRead, FetchEntry, DoneWithBytes
  <1>3. /\ cursor'[r].pc = "idle"
               => cursor'[r].Index < nextIndex \/ cursor'[r].Index = Word - 1
        /\ cursor'[r].pc \in {"data", "entry"} => cursor'[r].Index < nextIndex
        /\ cursor'[r].pc = "entry" /\ cursor'[r].Index \in Live
               => cursor'[r].entry = Message(cursor'[r].Index).entry
    <2>1. ASSUME NEW at \in 0..nextIndex, OpenCursor(r, at)
          PROVE  cursor'[r].pc = "idle" /\ cursor'[r].Index = Minus(at, 1)
      BY <1>0, <2>1 DEF OpenCursor, Cursors
    <2>2. CASE TryRead(r)
      <3>1. cursor'[r].pc = "data" /\ cursor'[r].Index = Succ(cursor[r].Index)
        BY <1>0, <2>2 DEF TryRead, Cursors
      <3>2. Succ(cursor[r].Index) < nextIndex
        BY <1>0, <2>2, DistanceTellsData DEF TryRead, ReadInv, CursorsFollow
      <3> QED
        BY <3>1, <3>2
    <2>3. CASE FetchEntry(r)
      <3>1. /\ cursor'[r].pc = "entry" /\ cursor'[r].Index = cursor[r].Index
            /\ cursor'[r].entry = items[Slot(cursor[r].Index)]
        BY <1>0, <2>3 DEF FetchEntry, Cursors
      <3>2. cursor[r].Index < nextIndex
        BY <2>3 DEF FetchEntry, ReadInv, CursorsFollow
      <3> QED
        BY <3>1, <3>2 DEF ReadInv, RingInv, EntriesFresh
    <2>4. CASE DoneWithBytes(r)
      <3>1. cursor'[r].pc = "idle" /\ cursor'[r].Index = cursor[r].Index
        BY <1>0, <2>4 DEF DoneWithBytes, Cursors
      <3>2. cursor[r].Index < nextIndex
        BY <2>4 DEF DoneWithBytes, ReadInv, CursorsFollow
      <3> QED
        BY <3>1, <3>2
    <2>5. ASSUME NEW at \in 0..nextIndex
          PROVE  Minus(at, 1) < nextIndex \/ Minus(at, 1) = Word - 1
      BY <1>0, CursorBeforeNext
    <2>6. ASSUME NEW at \in 0..nextIndex, OpenCursor(r, at)
          PROVE  /\ cursor'[r].pc = "idle"
                 /\ cursor'[r].Index < nextIndex \/ cursor'[r].Index = Word - 1
      BY <2>1, <2>5, <2>6
    <2> QED
      BY <2>2, <2>3, <2>4, <2>6 DEF ReaderStep
  <1>4. CursorsFollow'
    BY <1>1, <1>2, <1>3 DEF ReadInv, CursorsFollow
  <1>5. FetchedFresh'
    BY <1>1, <1>2, <1>3 DEF ReadInv, FetchedFresh, Message
  <1> QED
    BY <1>4, <1>5

(* What Advance appends to the log. *)
LogRecords == [entry : Entry, before : Nat]
Record(w) == [entry |-> NewEntry(w), before |-> written - span[w].committed]

LEMMA RecordType ==
    ASSUME TypeInv, NEW w \in Writers
    PROVE  Record(w) \in LogRecords
  <1>1. span[w] \in Spans /\ written \in Nat /\ span[w].committed <= written
    BY DEF TypeInv, TypeOK, LockInv, PoolTypeOK, Counted
  <1>2. written - span[w].committed \in Nat
    BY <1>1 DEF Spans
  <1> QED
    BY <1>2, NewEntryType DEF TypeInv, Record, LogRecords

LEMMA StillLive ==
    ASSUME NEW m \in Nat, NEW n \in Nat, NEW c \in Nat, NEW i \in 0..(n - 1),
           m <= n, i > n - c, i < m
    PROVE  i \in 0..(m - 1) /\ i > m - c
  OBVIOUS

(* The readers are where they were, and the log has grown by one at most. *)
LEMMA ReadersStay ==
    ASSUME ReadInv, RingInv', cursor' = cursor,
           \/ UNCHANGED <<nextIndex, log>>
           \/ nextIndex' = nextIndex + 1 /\ \E m \in LogRecords : log' = Append(log, m)
    PROVE  CursorsFollow' /\ FetchedFresh'
  <1>0. /\ cursor \in [Readers -> Cursors] /\ nextIndex \in Nat
        /\ log \in Seq(LogRecords) /\ Len(log) = nextIndex
        /\ Capacity \in Nat
    BY BufferAssumption DEF ReadInv, RingInv, TypeInv, TypeOK, Cursors, LogRecords
  <1>1. nextIndex' \in Nat /\ nextIndex <= nextIndex'
    BY <1>0
  <1>2. \A i \in 0..(nextIndex - 1) : log'[i + 1] = log[i + 1]
    BY <1>0
  <1>3. ASSUME NEW i \in Live', i < nextIndex PROVE i \in Live
    <2>1. i \in 0..(nextIndex' - 1) /\ i > nextIndex' - Capacity
      BY <1>3 DEF Live
    <2>2. i \in 0..(nextIndex - 1) /\ i > nextIndex - Capacity
      BY <1>0, <1>1, <1>3, <2>1, StillLive
    <2> QED
      BY <2>2 DEF Live
  <1>4. \A r \in Readers : cursor[r].Index \in Nat
    BY <1>0 DEF Cursors
  <1>5. CursorsFollow'
    BY <1>0, <1>1, <1>4 DEF ReadInv, CursorsFollow
  <1>6. FetchedFresh'
    <2> SUFFICES ASSUME NEW r \in Readers, cursor[r].pc = "entry", cursor[r].Index \in Live'
                 PROVE  cursor[r].entry = Message(cursor[r].Index).entry'
      BY DEF FetchedFresh
    <2>1. cursor[r].Index < nextIndex
      BY DEF ReadInv, CursorsFollow
    <2>2. cursor[r].Index \in Live /\ cursor[r].Index \in 0..(nextIndex - 1)
      BY <1>0, <1>3, <1>4, <2>1
    <2> QED
      BY <1>2, <2>2 DEF ReadInv, FetchedFresh, Message
  <1> QED
    BY <1>5, <1>6

LEMMA ReadStep == ReadInv /\ [Next]_vars => ReadInv'
  <1> SUFFICES ASSUME ReadInv, [Next]_vars PROVE ReadInv'
    OBVIOUS
  <1>0. RingInv' /\ RoomForIndex'
    BY RingStep, RoomStep DEF ReadInv
  <1>1. ASSUME NEW w \in Writers, WriterStep(w) PROVE CursorsFollow' /\ FetchedFresh'
    <2>1. cursor' = cursor
      BY <1>1 DEF WriterStep, AskSpan, Refuse, OpenScope, Fill, CommitSpan, Account, BeginEntry,
                  EndEntry, Advance, CloseScope, bufferVars
    <2>2. CASE Advance(w)
      <3>1. nextIndex' = nextIndex + 1 /\ log' = Append(log, Record(w))
        BY <2>2 DEF Advance, Record
      <3>2. Record(w) \in LogRecords
        BY RecordType DEF ReadInv, RingInv
      <3> QED
        BY <1>0, <2>1, <3>1, <3>2, ReadersStay
    <2>3. CASE ~Advance(w)
      <3>1. UNCHANGED <<nextIndex, log>>
        BY <1>1, <2>3 DEF WriterStep, AskSpan, Refuse, OpenScope, Fill, CommitSpan, Account,
                          BeginEntry, EndEntry, CloseScope, bufferVars
      <3> QED
        BY <1>0, <2>1, <3>1, ReadersStay
    <2> QED
      BY <2>2, <2>3
  <1>2. ASSUME NEW r \in Readers, ReaderStep(r) PROVE CursorsFollow' /\ FetchedFresh'
    BY <1>2, ReaderMoves
  <1>3. CASE Restart \/ UNCHANGED vars
    <2>1. cursor' = cursor /\ UNCHANGED <<nextIndex, log>>
      BY <1>3 DEF Restart, vars, bufferVars
    <2> QED
      BY <1>0, <2>1, ReadersStay DEF ReadInv
  <1> QED
    BY <1>0, <1>1, <1>2, <1>3 DEF Next, ReadInv

THEOREM ReadInvariant == Spec => []ReadInv
  BY ReadInit, ReadStep, PTL DEF Spec

(* However many threads publish and crash, a cursor hands out only messages  *)
(* that have been published: the unsigned difference in TryRead never takes  *)
(* a cursor past the writer.                                                 *)
THEOREM CursorsReadOnlyPublished == Spec => []ReadsOnlyPublished
  <1>1. ReadInv => ReadsOnlyPublished
    BY DEF ReadInv, CursorsFollow, ReadsOnlyPublished
  <1> QED
    BY <1>1, ReadInvariant, PTL

-----------------------------------------------------------------------------
(* The size of the messages that have an entry. *)

(* The bytes committed for the first k messages, once there is no restart    *)
(* that leaves a span half committed.                                        *)
EndOf(k) == IF k = 0 THEN 0 ELSE log[k].before + log[k].entry.Size

(* The bytes of the messages whose entry is gone once n are published.       *)
Overwritten(n) == IF n >= Capacity THEN EndOf(n - Capacity) ELSE 0

(* Nobody commits more than it asked for. *)
Asked ==
    /\ \A w \in Writers : wpc[w] = "open" => span[w].committed <= need[w]
    /\ \A k \in 1..nextIndex : log[k].entry.Size <= MaxRequest

(* Each message begins where the one before ends. *)
Chained ==
    /\ \A k \in 0..(nextIndex - 1) : Message(k).before = EndOf(k)
    /\ \A j, k \in 0..nextIndex :
          j <= k => EndOf(j) <= EndOf(k) /\ EndOf(k) <= EndOf(j) + (k - j) * MaxRequest

(* What was committed and not published is in the one span that is open.     *)
Writing(w) == wpc[w] = "open" /\ dtor[w] # "done"

PublishedOrOpen ==
    /\ \A w \in Writers : Writing(w) => written = EndOf(nextIndex) + span[w].committed
    /\ (\A w \in Writers : ~Writing(w)) => written = EndOf(nextIndex)

(* The entry about to be overwritten is still the one that was stored, so    *)
(* that its size can be taken off.                                           *)
OldestFresh ==
    nextIndex >= Capacity /\ (\A w \in Writers : dtor[w] \notin {"torn", "next"})
        => items[Slot(nextIndex - Capacity)] = Message(nextIndex - Capacity).entry

Accounting(w) == dtor[w] \in {"entry", "torn", "next"}

SizeCounted ==
    /\ (\A w \in Writers : ~Accounting(w)) =>
          currentSize = EndOf(nextIndex) - Overwritten(nextIndex)
    /\ \A w \in Writers : Accounting(w) =>
          currentSize = EndOf(nextIndex) + span[w].committed - Overwritten(nextIndex + 1)

Sizes == Chained /\ PublishedOrOpen /\ OldestFresh /\ SizeCounted

SizeInv ==
    /\ RingInv
    /\ Asked
    /\ restarts = 0 => Sizes

LEMMA Product ==
    ASSUME NEW m \in Nat, NEW a \in Nat
    PROVE  /\ a * m \in Nat /\ (a + 1) * m = a * m + m /\ 0 * m = 0
           /\ \A b \in Nat : a <= b => a * m <= b * m
  OBVIOUS

LEMMA RingTypes ==
    ASSUME RingInv
    PROVE  /\ nextIndex \in Nat /\ currentSize \in Nat /\ written \in Nat /\ restarts \in Nat
           /\ log \in Seq(LogRecords) /\ Len(log) = nextIndex
           /\ Capacity \in Nat /\ Capacity >= 1 /\ MaxRequest \in Nat
           /\ \A w \in Writers : /\ span[w].committed \in Nat /\ span[w].Start \in Nat
                                 /\ span[w].Size \in Nat /\ need[w] \in 0..MaxRequest
  BY BufferAssumption, PoolAssumption
     DEF RingInv, TypeInv, TypeOK, LockInv, PoolTypeOK, Spans, LogRecords

LEMMA RecordTypes ==
    ASSUME RingInv, NEW k \in 1..nextIndex
    PROVE  /\ log[k].before \in Nat /\ log[k].entry.Size \in Nat
           /\ log[k].entry.Offset \in Nat
  <1>1. log[k] \in LogRecords
    BY RingTypes
  <1> QED
    BY <1>1 DEF LogRecords, Entry

LEMMA EndOfType ==
    ASSUME RingInv, NEW k \in 0..nextIndex
    PROVE  EndOf(k) \in Nat
  <1>1. CASE k = 0
    BY <1>1 DEF EndOf
  <1>2. CASE k # 0
    <2>1. k \in 1..nextIndex
      BY <1>2, RingTypes
    <2> QED
      BY <1>2, <2>1, RecordTypes DEF EndOf
  <1> QED
    BY <1>1, <1>2

(* The messages that keep an entry take no more than a ring of requests.     *)
LEMMA RingOfSizes ==
    ASSUME RingInv, Chained
    PROVE  /\ Overwritten(nextIndex + 1) \in Nat
           /\ EndOf(nextIndex) - Overwritten(nextIndex + 1) \in 0..((Capacity - 1) * MaxRequest)
  <1> DEFINE n == nextIndex
             c == Capacity
  <1>1. n \in Nat /\ c \in Nat /\ c >= 1 /\ MaxRequest \in Nat /\ c - 1 \in Nat
    BY RingTypes
  <1>2. n \in 0..n /\ 0 \in 0..n /\ EndOf(n) \in Nat /\ EndOf(0) = 0
    BY <1>1, EndOfType DEF EndOf
  <1>3. (c - 1) * MaxRequest \in Nat
    BY <1>1, Product
  <1>4. CASE n + 1 >= c
    <2>1. n + 1 - c \in 0..n /\ n + 1 - c <= n /\ n - (n + 1 - c) = c - 1
      BY <1>1, <1>4
    <2>2. /\ EndOf(n + 1 - c) <= EndOf(n)
          /\ EndOf(n) <= EndOf(n + 1 - c) + (n - (n + 1 - c)) * MaxRequest
      BY <1>2, <2>1 DEF Chained
    <2>3. EndOf(n + 1 - c) \in Nat
      BY <2>1, EndOfType
    <2>4. Overwritten(n + 1) = EndOf(n + 1 - c)
      BY <1>1, <1>4 DEF Overwritten
    <2>5. EndOf(n) <= EndOf(n + 1 - c) + (c - 1) * MaxRequest
      BY <2>1, <2>2
    <2>6. PICK a \in Nat, b \in Nat, p \in Nat :
             a = EndOf(n) /\ b = EndOf(n + 1 - c) /\ p = (c - 1) * MaxRequest
      BY <1>2, <1>3, <2>3
    <2>7. a - b \in 0..p
      BY <2>2, <2>5, <2>6
    <2> QED
      BY <2>3, <2>4, <2>6, <2>7
  <1>5. CASE n + 1 < c
    <2>1. EndOf(n) <= EndOf(0) + (n - 0) * MaxRequest
      BY <1>1, <1>2 DEF Chained
    <2>2. n <= c - 1 /\ n - 0 = n
      BY <1>1, <1>5
    <2>3. n * MaxRequest <= (c - 1) * MaxRequest /\ n * MaxRequest \in Nat
      BY <1>1, <2>2, Product
    <2>4. Overwritten(n + 1) = 0
      BY <1>1, <1>5 DEF Overwritten
    <2>5. EndOf(n) <= n * MaxRequest
      BY <1>2, <2>1, <2>2, <2>3
    <2>6. EndOf(n) <= (c - 1) * MaxRequest
      BY <1>2, <1>3, <2>3, <2>5
    <2> QED
      BY <1>2, <1>3, <2>4, <2>6
  <1> QED
    BY <1>1, <1>4, <1>5

LEMMA SizesInit == Init => SizeInv
  <1> SUFFICES ASSUME Init PROVE SizeInv
    OBVIOUS
  <1>1. nextIndex = 0 /\ currentSize = 0 /\ written = 0 /\ EndOf(0) = 0
    BY DEF Init, EndOf
  <1>2. /\ \A w \in Writers : wpc[w] = "idle" /\ dtor[w] = "none"
        /\ Capacity \in Nat \ {0} /\ MaxRequest \in Nat
    BY BufferAssumption, PoolAssumption DEF Init, PoolInit
  <1>3. Chained
    <2>1. 0..(nextIndex - 1) = {} /\ 0..nextIndex = {0}
      BY <1>1
    <2>2. (0 - 0) * MaxRequest = 0
      BY <1>2
    <2> QED
      BY <1>1, <2>1, <2>2 DEF Chained
  <1>4. PublishedOrOpen /\ OldestFresh
    BY <1>1, <1>2 DEF PublishedOrOpen, OldestFresh, Writing
  <1>5. Overwritten(0) = 0
    BY <1>1, <1>2 DEF Overwritten
  <1>6. SizeCounted
    BY <1>1, <1>2, <1>5 DEF SizeCounted, Accounting
  <1>7. Asked
    BY <1>1, <1>2 DEF Asked
  <1> QED
    BY <1>3, <1>4, <1>6, <1>7, RingInit DEF SizeInv, Sizes

(* A step that publishes nothing keeps the sizes of what is published. *)
LEMMA EndsKept ==
    ASSUME UNCHANGED <<nextIndex, log>>
    PROVE  /\ \A k : EndOf(k)' = EndOf(k)
           /\ \A k : Overwritten(k)' = Overwritten(k)
           /\ Chained => Chained'
  BY DEF EndOf, Overwritten, Chained, Message

(* A step of a thread that is not in ~WriterScope, or of none. *)
LEMMA SizesKept ==
    ASSUME Sizes, UNCHANGED <<nextIndex, log, items, currentSize, dtor>>,
           \A w \in Writers : Accounting(w) => span'[w].committed = span[w].committed
    PROVE  Chained' /\ OldestFresh' /\ SizeCounted'
  <1>1. Chained'
    BY EndsKept DEF Sizes
  <1>2. OldestFresh'
    BY DEF Sizes, OldestFresh, Message
  <1>3. \A w \in Writers : Accounting(w)' <=> Accounting(w)
    BY DEF Accounting
  <1>4. SizeCounted'
    BY <1>3, EndsKept DEF Sizes, SizeCounted
  <1> QED
    BY <1>1, <1>2, <1>4

(* Only the holder of the flag is in ~WriterScope. *)
LEMMA NoneOpen ==
    ASSUME RingInv, \A v \in Writers : wpc[v] # "open"
    PROVE  \A v \in Writers : dtor[v] = "none" /\ ~Accounting(v) /\ ~Writing(v)
  BY DEF RingInv, DtorHoldsFlag, Accounting, Writing

LEMMA OnlyOpen ==
    ASSUME RingInv, NEW w \in Writers, wpc[w] = "open", NEW v \in Writers, v # w
    PROVE  wpc[v] # "open" /\ dtor[v] = "none" /\ ~Accounting(v) /\ ~Writing(v)
  BY DEF RingInv, TypeInv, LockInv, ExclusiveSpan, DtorHoldsFlag, Accounting, Writing

LEMMA SizesAsk ==
    ASSUME SizeInv, NEW w \in Writers,
           Refuse(w) \/ \E n \in 0..MaxRequest : AskSpan(w, n)
    PROVE  Asked' /\ (restarts' = 0 => Sizes')
  <1>1. /\ UNCHANGED <<nextIndex, log, items, currentSize, dtor, span, written, restarts>>
        /\ \A v \in Writers : (wpc'[v] = "open" <=> wpc[v] = "open")
        /\ \A v \in Writers : wpc[v] = "open" => need'[v] = need[v]
    BY DEF SizeInv, RingInv, TypeInv, LockInv, PoolTypeOK, Refuse, RefuseSpan, AskSpan,
           ReadRemaining, bufferVars
  <1>2. Asked'
    BY <1>1 DEF SizeInv, Asked
  <1>3. ASSUME Sizes PROVE PublishedOrOpen'
    <2>1. \A v \in Writers : Writing(v)' <=> Writing(v)
      BY <1>1 DEF Writing
    <2> QED
      BY <1>1, <1>3, <2>1, EndsKept DEF Sizes, PublishedOrOpen
  <1> QED
    BY <1>1, <1>2, <1>3, SizesKept DEF SizeInv, Sizes

LEMMA SizesOpen ==
    ASSUME SizeInv, NEW w \in Writers, OpenScope(w)
    PROVE  Asked' /\ (restarts' = 0 => Sizes')
  <1>1. \A v \in Writers : wpc[v] # "open"
    BY DEF OpenScope, TakeSpan, SizeInv, RingInv, TypeInv, LockInv, ExclusiveSpan
  <1>2. UNCHANGED <<nextIndex, log, items, currentSize, dtor, need, written, restarts>>
    BY DEF OpenScope, TakeSpan, bufferVars
  <1>3. \A v \in Writers : /\ wpc'[v] = "open" => v = w
                           /\ ~Accounting(v)
    BY <1>1, NoneOpen
       DEF OpenScope, TakeSpan, SizeInv, RingInv, TypeInv, LockInv, PoolTypeOK
  <1>4. span'[w].committed = 0
    BY DEF OpenScope, TakeSpan, SizeInv, RingInv, TypeInv, LockInv, PoolTypeOK
  <1>5. Asked'
    <2>1. need[w] \in Nat
      BY RingTypes DEF SizeInv
    <2> QED
      BY <1>2, <1>3, <1>4, <2>1 DEF SizeInv, Asked
  <1>6. ASSUME Sizes PROVE PublishedOrOpen'
    <2>1. written = EndOf(nextIndex) /\ EndOf(nextIndex) \in Nat
      BY <1>1, <1>6, NoneOpen, EndOfType, RingTypes DEF SizeInv, Sizes, PublishedOrOpen
    <2>2. EndOf(nextIndex)' = EndOf(nextIndex)
      BY <1>2 DEF EndOf
    <2>3. \A v \in Writers : Writing(v)' => v = w
      BY <1>3 DEF Writing
    <2>4. written' = EndOf(nextIndex)' /\ written' + 0 = written'
      BY <1>2, <2>1, <2>2
    <2> QED
      BY <1>4, <2>3, <2>4 DEF PublishedOrOpen
  <1> QED
    BY <1>2, <1>3, <1>5, <1>6, SizesKept DEF SizeInv, Sizes

(* Steps that move no size: Fill, the readers', stuttering. *)
LEMMA SizesUntouched ==
    ASSUME SizeInv,
           UNCHANGED <<nextIndex, log, items, currentSize, dtor, wpc, need, span, written,
                       restarts>>
    PROVE  Asked' /\ (restarts' = 0 => Sizes')
  <1>1. Asked'
    BY DEF SizeInv, Asked
  <1>2. ASSUME Sizes PROVE PublishedOrOpen'
    BY <1>2, EndsKept DEF Sizes, PublishedOrOpen, Writing
  <1> QED
    BY <1>1, <1>2, SizesKept DEF SizeInv, Sizes

LEMMA SizesCommit ==
    ASSUME SizeInv, NEW w \in Writers, NEW n \in 1..MaxRequest, CommitSpan(w, n)
    PROVE  Asked' /\ (restarts' = 0 => Sizes')
  <1>1. /\ UNCHANGED <<nextIndex, log, items, currentSize, dtor, wpc, need, restarts>>
        /\ wpc[w] = "open" /\ dtor[w] = "none" /\ n \in Nat
        /\ n + span[w].committed <= need[w] /\ written' = written + n
    BY PoolAssumption DEF CommitSpan, Commit
  <1>2. \A v \in Writers : v # w => wpc[v] # "open" /\ ~Accounting(v) /\ ~Writing(v)
    BY <1>1, OnlyOpen DEF SizeInv
  <1>3. span'[w].committed = span[w].committed + n /\ span[w].committed \in Nat
    BY <1>1 DEF CommitSpan, Commit, SizeInv, RingInv, TypeInv, LockInv, PoolTypeOK, Spans
  <1>4. Asked'
    <2>1. span'[w].committed <= need[w]
      BY <1>1, <1>3
    <2> QED
      BY <1>1, <1>2, <2>1 DEF SizeInv, Asked
  <1>5. \A v \in Writers : ~Accounting(v)
    BY <1>1, <1>2 DEF Accounting
  <1>6. ASSUME Sizes PROVE PublishedOrOpen'
    <2>1. Writing(w) /\ Writing(w)' /\ \A v \in Writers : Writing(v)' => v = w
      BY <1>1, <1>2 DEF Writing
    <2>2. written = EndOf(nextIndex) + span[w].committed
      BY <1>6, <2>1 DEF Sizes, PublishedOrOpen
    <2>3. EndOf(nextIndex) \in Nat /\ EndOf(nextIndex)' = EndOf(nextIndex)
      BY <1>1, EndOfType, RingTypes DEF SizeInv, EndOf
    <2>4. written' = EndOf(nextIndex)' + span'[w].committed
      BY <1>1, <1>3, <2>2, <2>3
    <2> QED
      BY <2>1, <2>4 DEF PublishedOrOpen
  <1> QED
    BY <1>1, <1>4, <1>5, <1>6, SizesKept DEF SizeInv, Sizes

(* Neither the sum nor the difference wraps, and the entry whose size is     *)
(* taken off is the one of the message a ring before.                        *)
LEMMA SizesAccount ==
    ASSUME SizeInv, NEW w \in Writers, Account(w)
    PROVE  Asked' /\ (restarts' = 0 => Sizes')
  <1> DEFINE prv == IF nextIndex >= Capacity
                    THEN items[Slot(nextIndex - Capacity)].Size ELSE 0
  <1>1. /\ UNCHANGED <<nextIndex, log, items, wpc, need, span, written, restarts>>
        /\ wpc[w] = "open" /\ dtor[w] = "none"
        /\ currentSize' = Minus(currentSize + span[w].committed, prv)
        /\ dtor' = [dtor EXCEPT ![w] = "entry"]
    BY DEF Account, poolVars
  <1>2. \A v \in Writers : v # w => dtor[v] = "none" /\ ~Accounting(v) /\ ~Writing(v)
    BY <1>1, OnlyOpen DEF SizeInv
  <1>3. \A v \in Writers : dtor'[v] = IF v = w THEN "entry" ELSE dtor[v]
    BY <1>1 DEF SizeInv, RingInv, TypeInv, TypeOK
  <1>4. Asked'
    BY <1>1 DEF SizeInv, Asked
  <1>5. /\ nextIndex \in Nat /\ Capacity \in Nat /\ Capacity >= 1 /\ MaxRequest \in Nat
        /\ Word \in Nat /\ span[w].committed \in Nat
    BY RingTypes, WordAssumption DEF SizeInv
  <1>6. span[w].committed <= MaxRequest
    <2>1. span[w].committed <= need[w] /\ need[w] \in 0..MaxRequest
      BY <1>1, RingTypes DEF SizeInv, Asked
    <2> QED
      BY <1>5, <2>1
  <1>7. ASSUME Sizes PROVE Sizes'
    <2>1. Chained' /\ \A k : EndOf(k)' = EndOf(k) /\ Overwritten(k)' = Overwritten(k)
      BY <1>1, <1>7, EndsKept DEF Sizes
    <2>2. PublishedOrOpen'
      <3>1. \A v \in Writers : Writing(v)' <=> Writing(v)
        BY <1>1, <1>2, <1>3 DEF Writing
      <3> QED
        BY <1>1, <1>7, <2>1, <3>1 DEF Sizes, PublishedOrOpen
    <2>3. OldestFresh'
      <3>1. (\A v \in Writers : dtor'[v] \notin {"torn", "next"})
              => \A v \in Writers : dtor[v] \notin {"torn", "next"}
        BY <1>1, <1>3
      <3> QED
        BY <1>1, <1>7, <3>1 DEF Sizes, OldestFresh, Message
    <2>4. currentSize = EndOf(nextIndex) - Overwritten(nextIndex)
      <3>1. \A v \in Writers : ~Accounting(v)
        BY <1>1, <1>2 DEF Accounting
      <3> QED
        BY <1>7, <3>1 DEF Sizes, SizeCounted
    <2>5. /\ prv \in Nat /\ Overwritten(nextIndex) \in Nat
          /\ Overwritten(nextIndex) + prv = Overwritten(nextIndex + 1)
      <3>1. CASE nextIndex >= Capacity
        <4>1. PICK k \in Nat : k = nextIndex - Capacity
          BY <1>5, <3>1
        <4>2. k \in 0..(nextIndex - 1) /\ k + 1 \in 1..nextIndex /\ k \in 0..nextIndex
              /\ k + 1 = (nextIndex + 1) - Capacity /\ k + 1 # 0
              /\ nextIndex + 1 >= Capacity
          BY <1>5, <3>1, <4>1
        <4>3. \A v \in Writers : dtor[v] \notin {"torn", "next"}
          BY <1>1, <1>2
        <4>4. items[Slot(k)] = log[k + 1].entry
          BY <1>7, <3>1, <4>1, <4>3 DEF Sizes, OldestFresh, Message
        <4>5. prv = log[k + 1].entry.Size
          BY <3>1, <4>1, <4>4
        <4>6. Overwritten(nextIndex) = EndOf(k)
          BY <3>1, <4>1 DEF Overwritten
        <4>7. Overwritten(nextIndex + 1) = EndOf(k + 1)
          BY <4>2 DEF Overwritten
        <4>8. EndOf(k + 1) = EndOf(k) + log[k + 1].entry.Size
          <5>1. log[k + 1].before = EndOf(k)
            BY <1>7, <4>2 DEF Sizes, Chained, Message
          <5> QED
            BY <4>2, <5>1 DEF EndOf
        <4>9. log[k + 1].entry.Size \in Nat /\ EndOf(k) \in Nat
          BY <4>2, RecordTypes, EndOfType DEF SizeInv
        <4> HIDE DEF prv
        <4> QED
          BY <4>5, <4>6, <4>7, <4>8, <4>9
      <3>2. CASE nextIndex < Capacity
        <4>1. prv = 0 /\ Overwritten(nextIndex) = 0
          BY <1>5, <3>2 DEF Overwritten
        <4>2. Overwritten(nextIndex + 1) = 0
          <5>1. CASE nextIndex + 1 >= Capacity
            <6>1. nextIndex + 1 - Capacity = 0
              BY <1>5, <3>2, <5>1
            <6>2. EndOf(0) = 0
              BY DEF EndOf
            <6> QED
              BY <1>5, <5>1, <6>1, <6>2 DEF Overwritten
          <5>2. CASE nextIndex + 1 < Capacity
            BY <1>5, <5>2 DEF Overwritten
          <5> QED
            BY <1>5, <5>1, <5>2
        <4> HIDE DEF prv
        <4> QED
          BY <4>1, <4>2
      <3> QED
        BY <1>5, <3>1, <3>2
    <2> HIDE DEF prv
    <2>6. /\ EndOf(nextIndex) \in Nat /\ Overwritten(nextIndex + 1) \in Nat
          /\ EndOf(nextIndex) - Overwritten(nextIndex + 1) \in 0..((Capacity - 1) * MaxRequest)
      BY <1>5, <1>7, EndOfType, RingOfSizes DEF SizeInv, Sizes
    <2>7. currentSize + span[w].committed - prv
             = EndOf(nextIndex) + span[w].committed - Overwritten(nextIndex + 1)
      BY <1>5, <2>4, <2>5, <2>6
    <2>8. EndOf(nextIndex) + span[w].committed - Overwritten(nextIndex + 1) \in 0..(Word - 1)
      <3>1. (Capacity - 1) * MaxRequest \in Nat
            /\ (Capacity - 1) * MaxRequest + MaxRequest = Capacity * MaxRequest
        <4>1. Capacity - 1 \in Nat /\ (Capacity - 1) + 1 = Capacity
          BY <1>5
        <4> QED
          BY <1>5, <4>1, Product
      <3>2. PICK p \in Nat : p = (Capacity - 1) * MaxRequest /\ p + MaxRequest < Word
        BY <3>1, SizesAssumption
      <3> QED
        BY <1>5, <1>6, <2>6, <3>2
    <2>9. currentSize' = EndOf(nextIndex) + span[w].committed - Overwritten(nextIndex + 1)
      <3>1. PICK a \in 0..(Word - 1) : a = currentSize + span[w].committed - prv
        BY <2>7, <2>8
      <3>2. a % Word = a
        BY <1>5
      <3>3. Minus(currentSize + span[w].committed, prv) = a
        <4>1. (currentSize + span[w].committed) - prv = a
          BY <1>5, <2>4, <2>5, <2>6, <3>1
        <4> QED
          BY <3>2, <4>1 DEF Minus
      <3> QED
        BY <1>1, <2>7, <3>1, <3>3
    <2>10. SizeCounted'
      <3>1. \A v \in Writers : Accounting(v)' <=> v = w
        BY <1>2, <1>3 DEF Accounting
      <3> QED
        BY <1>1, <2>1, <2>9, <3>1 DEF SizeCounted
    <2> QED
      BY <2>1, <2>2, <2>3, <2>10 DEF Sizes
  <1> QED
    BY <1>1, <1>4, <1>7 DEF SizeInv

(* The stores of the entry: no size is taken off before the next scope.      *)
LEMMA SizesEntry ==
    ASSUME SizeInv, NEW w \in Writers, BeginEntry(w) \/ EndEntry(w)
    PROVE  Asked' /\ (restarts' = 0 => Sizes')
  <1>1. /\ UNCHANGED <<nextIndex, log, currentSize, wpc, need, span, written, restarts>>
        /\ dtor[w] \in {"entry", "torn"}
        /\ \A v \in Writers : dtor'[v] = dtor[v] \/ v = w
        /\ dtor'[w] \in {"torn", "next"}
    BY DEF BeginEntry, EndEntry, poolVars, SizeInv, RingInv, TypeInv, TypeOK
  <1>2. \A v \in Writers : (Accounting(v)' <=> Accounting(v)) /\ (Writing(v)' <=> Writing(v))
    BY <1>1 DEF Accounting, Writing
  <1>3. Asked'
    BY <1>1 DEF SizeInv, Asked
  <1>4. ASSUME Sizes PROVE Sizes'
    <2>1. Chained' /\ \A k : EndOf(k)' = EndOf(k) /\ Overwritten(k)' = Overwritten(k)
      BY <1>1, <1>4, EndsKept DEF Sizes
    <2>2. PublishedOrOpen'
      BY <1>1, <1>2, <1>4, <2>1 DEF Sizes, PublishedOrOpen
    <2>3. OldestFresh'
      BY <1>1 DEF OldestFresh
    <2>4. SizeCounted'
      BY <1>1, <1>2, <1>4, <2>1 DEF Sizes, SizeCounted
    <2> QED
      BY <2>1, <2>2, <2>3, <2>4 DEF Sizes
  <1> QED
    BY <1>1, <1>3, <1>4 DEF SizeInv

(* The publication appends one message, which begins where the last ends.    *)
LEMMA SizesAdvance ==
    ASSUME SizeInv, NEW w \in Writers, Advance(w)
    PROVE  Asked' /\ (restarts' = 0 => Sizes')
  <1>1. PICK n \in Nat, c \in Nat, s \in Nat, m \in Nat :
          /\ n = nextIndex /\ c = span[w].committed /\ s = Capacity /\ s >= 1
          /\ m = MaxRequest /\ Len(log) = n /\ log \in Seq(LogRecords) /\ written \in Nat
    BY RingTypes DEF SizeInv
  <1>2. /\ nextIndex' = n + 1 /\ log' = Append(log, Record(w)) /\ Record(w) \in LogRecords
        /\ UNCHANGED <<currentSize, items, wpc, need, span, written, restarts>>
        /\ dtor[w] = "next" /\ wpc[w] = "open" /\ dtor' = [dtor EXCEPT ![w] = "done"]
    BY <1>1, RecordType DEF Advance, Record, poolVars, SizeInv, RingInv, DtorHoldsFlag
  <1>3. \A v \in Writers : v # w => dtor[v] = "none" /\ wpc[v] # "open"
    BY <1>2, OnlyOpen DEF SizeInv
  <1>4. \A v \in Writers : dtor'[v] = IF v = w THEN "done" ELSE dtor[v]
    BY <1>2 DEF SizeInv, RingInv, TypeInv, TypeOK
  <1>5. c <= m
    <2>1. c <= need[w] /\ need[w] \in 0..MaxRequest
      BY <1>1, <1>2, RingTypes DEF SizeInv, Asked
    <2> QED
      BY <1>1, <2>1
  <1>6. /\ \A k \in 1..n : log'[k] = log[k]
        /\ log'[n + 1] = Record(w)
    BY <1>1, <1>2
  <1>7. /\ log'[n + 1].before = written - c
        /\ log'[n + 1].entry = NewEntry(w) /\ log'[n + 1].entry.Size = c
    BY <1>1, <1>6 DEF Record, NewEntry
  <1>8. Asked'
    <2>1. \A k \in 1..(n + 1) : log'[k].entry.Size <= MaxRequest
      <3> TAKE k \in 1..(n + 1)
      <3>1. CASE k = n + 1
        BY <1>1, <1>5, <1>7, <3>1
      <3>2. CASE k # n + 1
        <4>1. k \in 1..n
          BY <1>1, <3>2
        <4> QED
          BY <1>1, <1>6, <4>1 DEF SizeInv, Asked
      <3> QED
        BY <3>1, <3>2
    <2> QED
      BY <1>2, <2>1 DEF SizeInv, Asked
  <1>9. ASSUME Sizes PROVE Sizes'
    <2>1. ASSUME NEW k \in 0..n PROVE EndOf(k)' = EndOf(k) /\ EndOf(k) \in Nat
      <3>1. k # 0 => k \in 1..n
        BY <1>1
      <3>2. EndOf(k)' = EndOf(k)
        BY <1>6, <3>1 DEF EndOf
      <3> QED
        BY <1>1, <3>2, EndOfType DEF SizeInv
    <2>2. written = EndOf(n) + c /\ written - c = EndOf(n)
      <3>1. Writing(w)
        BY <1>2 DEF Writing
      <3>2. EndOf(n) \in Nat
        BY <1>1, EndOfType DEF SizeInv
      <3>3. written = EndOf(n) + c
        BY <1>1, <1>9, <3>1 DEF Sizes, PublishedOrOpen
      <3> QED
        BY <1>1, <3>2, <3>3
    <2>3. EndOf(n + 1)' = EndOf(n) + c
      <3>1. n + 1 # 0
        BY <1>1
      <3>2. EndOf(n + 1)' = log'[n + 1].before + log'[n + 1].entry.Size
        BY <3>1 DEF EndOf
      <3> QED
        BY <1>7, <2>2, <3>2
    <2>4. \A k \in 0..n : log'[k + 1].before = EndOf(k)'
      <3> TAKE k \in 0..n
      <3>1. CASE k = n
        BY <1>7, <2>1, <2>2, <3>1
      <3>2. CASE k # n
        <4>1. k \in 0..(n - 1) /\ k + 1 \in 1..n
          BY <1>1, <3>2
        <4>2. log[k + 1].before = EndOf(k)
          BY <1>1, <1>9, <4>1 DEF Sizes, Chained, Message
        <4> QED
          BY <1>6, <2>1, <4>1, <4>2
      <3> QED
        BY <3>1, <3>2
    <2>5. \A j, k \in 0..(n + 1) :
             j <= k => EndOf(j)' <= EndOf(k)' /\ EndOf(k)' <= EndOf(j)' + (k - j) * MaxRequest
      <3> SUFFICES ASSUME NEW j \in 0..(n + 1), NEW k \in 0..(n + 1), j <= k
                   PROVE  /\ EndOf(j)' <= EndOf(k)'
                          /\ EndOf(k)' <= EndOf(j)' + (k - j) * m
        BY <1>1
      <3>1. CASE k # n + 1
        <4>1. j \in 0..n /\ k \in 0..n
          BY <1>1, <3>1
        <4>2. EndOf(j) <= EndOf(k) /\ EndOf(k) <= EndOf(j) + (k - j) * m
          BY <1>1, <1>9, <4>1 DEF Sizes, Chained
        <4> QED
          BY <2>1, <4>1, <4>2
      <3>2. CASE k = n + 1 /\ j = n + 1
        <4>1. (k - j) * m = 0
          <5>1. k - j = 0
            BY <1>1, <3>2
          <5> QED
            BY <1>1, <5>1, Product
        <4>2. PICK e \in Nat : e = EndOf(n) + c
          BY <1>1, <2>1
        <4>3. EndOf(j)' = e /\ EndOf(k)' = e
          BY <2>3, <3>2, <4>2
        <4> QED
          BY <4>1, <4>2, <4>3
      <3>3. CASE k = n + 1 /\ j # n + 1
        <4>1. j \in 0..n /\ n \in 0..n /\ n - j \in Nat /\ (n - j) + 1 = k - j
          BY <1>1, <3>3
        <4>2. EndOf(j) <= EndOf(n) /\ EndOf(n) <= EndOf(j) + (n - j) * m
          <5>1. \A a, b \in 0..n :
                   a <= b => EndOf(a) <= EndOf(b) /\ EndOf(b) <= EndOf(a) + (b - a) * m
            BY <1>1, <1>9 DEF Sizes, Chained
          <5>2. j <= n
            BY <4>1
          <5> QED
            BY <4>1, <5>1, <5>2
        <4>3. (k - j) * m = (n - j) * m + m /\ (n - j) * m \in Nat
          BY <1>1, <4>1, Product
        <4>4. PICK e \in Nat, f \in Nat, p \in Nat :
                 e = EndOf(j) /\ f = EndOf(n) /\ p = (n - j) * m
          BY <2>1, <4>1, <4>3
        <4>5. e <= f + c /\ f + c <= e + (p + m)
          BY <1>1, <1>5, <4>2, <4>4
        <4>6. EndOf(j)' = e /\ EndOf(k)' = f + c /\ (k - j) * m = p + m
          BY <2>1, <2>3, <3>3, <4>1, <4>3, <4>4
        <4> QED
          BY <4>5, <4>6
      <3> QED
        BY <3>1, <3>2, <3>3
    <2>6. Chained'
      <3>1. 0..(nextIndex' - 1) = 0..n /\ 0..nextIndex' = 0..(n + 1)
        BY <1>1, <1>2
      <3> QED
        BY <2>4, <2>5, <3>1 DEF Chained, Message
    <2>7. PublishedOrOpen'
      <3>1. \A v \in Writers : ~Writing(v)'
        BY <1>2, <1>3, <1>4 DEF Writing
      <3>2. EndOf(nextIndex)' = EndOf(n + 1)'
        BY <1>2 DEF EndOf
      <3> QED
        BY <1>2, <2>2, <2>3, <3>1, <3>2 DEF PublishedOrOpen
    <2>8. OldestFresh'
      <3> SUFFICES ASSUME n + 1 >= s
                   PROVE  items[Slot(n + 1 - s)] = log'[(n + 1 - s) + 1].entry
        BY <1>1, <1>2 DEF OldestFresh, Message
      <3>1. PICK k \in 0..n : k = n + 1 - s
        BY <1>1
      <3>2. CASE k = n
        BY <1>1, <1>2, <1>7, <3>1, <3>2 DEF SizeInv, RingInv, EntryStored
      <3>3. CASE k # n
        <4>1. k \in 0..(n - 1) /\ k > n - s /\ k + 1 \in 1..n
          BY <1>1, <3>1, <3>3
        <4>2. k \in Live
          BY <1>1, <4>1 DEF Live
        <4> QED
          BY <1>6, <3>1, <4>1, <4>2 DEF SizeInv, RingInv, EntriesFresh, Message
      <3> QED
        BY <3>2, <3>3
    <2>9. SizeCounted'
      <3>1. \A v \in Writers : ~Accounting(v)'
        BY <1>3, <1>4 DEF Accounting
      <3>2. currentSize = EndOf(n) + c - Overwritten(n + 1)
        BY <1>1, <1>2, <1>9 DEF Sizes, SizeCounted, Accounting
      <3>3. Overwritten(n + 1)' = Overwritten(n + 1) /\ Overwritten(n + 1) \in Nat
        <4>1. CASE n + 1 >= Capacity
          <5>1. PICK k \in 0..n : k = n + 1 - Capacity
            BY <1>1, <4>1
          <5>2. Overwritten(n + 1)' = EndOf(k)' /\ Overwritten(n + 1) = EndOf(k)
            BY <1>1, <4>1, <5>1 DEF Overwritten
          <5> QED
            BY <2>1, <5>2
        <4>2. CASE ~(n + 1 >= Capacity)
          BY <4>2 DEF Overwritten
        <4> QED
          BY <4>1, <4>2
      <3>4. EndOf(n) \in Nat
        BY <1>1, <2>1
      <3>5. currentSize = EndOf(n + 1)' - Overwritten(n + 1)'
        BY <1>1, <2>3, <3>2, <3>3, <3>4
      <3>6. EndOf(nextIndex)' = EndOf(n + 1)' /\ Overwritten(nextIndex)' = Overwritten(n + 1)'
        BY <1>2 DEF EndOf, Overwritten
      <3> QED
        BY <1>2, <3>1, <3>5, <3>6 DEF SizeCounted
    <2> QED
      BY <2>6, <2>7, <2>8, <2>9 DEF Sizes
  <1> QED
    BY <1>2, <1>8, <1>9 DEF SizeInv

LEMMA SizesClose ==
    ASSUME SizeInv, NEW w \in Writers, CloseScope(w)
    PROVE  Asked' /\ (restarts' = 0 => Sizes')
  <1>1. /\ UNCHANGED <<nextIndex, log, items, currentSize, need, written, restarts>>
        /\ wpc[w] = "open" /\ wpc' = [wpc EXCEPT ![w] = "idle"]
        /\ dtor' = [dtor EXCEPT ![w] = "none"]
        /\ \/ dtor[w] = "done"
           \/ dtor[w] = "none" /\ span[w].committed = 0
    BY DEF CloseScope, ReleaseSpan
  <1>2. \A v \in Writers : v # w => dtor[v] = "none" /\ wpc[v] # "open"
    BY <1>1, OnlyOpen DEF SizeInv
  <1>3. \A v \in Writers : wpc'[v] # "open" /\ dtor'[v] = "none" /\ ~Accounting(v)
    BY <1>1, <1>2 DEF Accounting, SizeInv, RingInv, TypeInv, LockInv, PoolTypeOK, TypeOK
  <1>4. Asked'
    BY <1>1, <1>3 DEF SizeInv, Asked
  <1>5. ASSUME Sizes PROVE Sizes'
    <2>1. Chained' /\ \A k : EndOf(k)' = EndOf(k) /\ Overwritten(k)' = Overwritten(k)
      BY <1>1, <1>5, EndsKept DEF Sizes
    <2>2. written = EndOf(nextIndex)
      <3>1. CASE dtor[w] = "done"
        BY <1>2, <1>5, <3>1 DEF Sizes, PublishedOrOpen, Writing
      <3>2. CASE dtor[w] = "none" /\ span[w].committed = 0
        <4>1. EndOf(nextIndex) \in Nat
          BY EndOfType, RingTypes DEF SizeInv
        <4>2. written = EndOf(nextIndex) + 0
          BY <1>1, <1>5, <3>2 DEF Sizes, PublishedOrOpen, Writing
        <4> QED
          BY <4>1, <4>2
      <3> QED
        BY <1>1, <3>1, <3>2
    <2>3. PublishedOrOpen'
      BY <1>1, <1>3, <2>1, <2>2 DEF PublishedOrOpen, Writing
    <2>4. OldestFresh'
      <3>1. \A v \in Writers : dtor[v] \notin {"torn", "next"}
        BY <1>1, <1>2
      <3> QED
        BY <1>1, <1>5, <3>1 DEF Sizes, OldestFresh, Message
    <2>5. SizeCounted'
      BY <1>1, <1>3, <1>5, <2>1 DEF Sizes, SizeCounted, Accounting
    <2> QED
      BY <2>1, <2>3, <2>4, <2>5 DEF Sizes
  <1> QED
    BY <1>1, <1>4, <1>5 DEF SizeInv

LEMMA SizesRestart ==
    ASSUME SizeInv, Restart
    PROVE  Asked' /\ (restarts' = 0 => Sizes')
  <1>1. restarts' # 0
    BY RingTypes DEF SizeInv, Restart
  <1>2. Asked'
    BY DEF SizeInv, Asked, Restart, RestartPool
  <1> QED
    BY <1>1, <1>2

LEMMA SizesStep == SizeInv /\ [Next]_vars => SizeInv'
  <1> SUFFICES ASSUME SizeInv, [Next]_vars PROVE SizeInv'
    OBVIOUS
  <1>0. RingInv'
    BY RingStep DEF SizeInv
  <1>1. ASSUME NEW w \in Writers, WriterStep(w) PROVE Asked' /\ (restarts' = 0 => Sizes')
    <2>1. CASE Fill(w)
      <3>1. UNCHANGED <<nextIndex, log, items, currentSize, dtor, wpc, need, span, written,
                        restarts>>
        BY <2>1 DEF Fill, poolVars
      <3> QED
        BY <3>1, SizesUntouched
    <2> QED
      BY <1>1, <2>1, SizesAsk, SizesOpen, SizesCommit, SizesAccount, SizesEntry, SizesAdvance,
         SizesClose DEF WriterStep
  <1>2. ASSUME Restart PROVE Asked' /\ (restarts' = 0 => Sizes')
    BY <1>2, SizesRestart
  <1>3. ASSUME (\E r \in Readers : ReaderStep(r)) \/ UNCHANGED vars
        PROVE  Asked' /\ (restarts' = 0 => Sizes')
    <2>1. UNCHANGED <<nextIndex, log, items, currentSize, dtor, wpc, need, span, written,
                      restarts>>
      BY <1>3 DEF ReaderStep, OpenCursor, TryRead, FetchEntry, DoneWithBytes, vars, poolVars,
                  bufferVars
    <2> QED
      BY <2>1, SizesUntouched
  <1>4. Asked' /\ (restarts' = 0 => Sizes')
    BY <1>1, <1>2, <1>3 DEF Next
  <1> QED
    BY <1>0, <1>4 DEF SizeInv

THEOREM SizeInvariant == Spec => []SizeInv
  BY SizesInit, SizesStep, PTL DEF Spec

(* However many threads publish, and as long as no process dies in the       *)
(* middle of a scope, BufferItemsSize() between two destructors is the total *)
(* size of the messages that still have an entry; neither the sum nor the    *)
(* difference of ~WriterScope wraps.                                         *)
THEOREM CurrentSizeIsExact == Spec => []CurrentSizeExact
  <1>1. ASSUME SizeInv PROVE CurrentSizeExact
    <2> SUFFICES ASSUME restarts = 0, Quiet, CommittedUnpublished = {}
                 PROVE  currentSize = written - (IF nextIndex > Capacity
                                        THEN Message(nextIndex - Capacity).before ELSE 0)
      BY DEF CurrentSizeExact
    <2>1. Sizes /\ RingInv /\ nextIndex \in Nat /\ Capacity \in Nat /\ Capacity >= 1
      BY <1>1, RingTypes DEF SizeInv
    <2>2. written = EndOf(nextIndex)
      <3>1. EndOf(nextIndex) \in Nat
        BY <2>1, EndOfType
      <3>2. ASSUME NEW w \in Writers, Writing(w) PROVE written = EndOf(nextIndex)
        <4>1. dtor[w] = "none" /\ span[w].committed \in Nat
          BY <2>1, <3>2, RingTypes DEF Quiet, Writing
        <4>2. span[w].committed = 0
          BY <4>1 DEF CommittedUnpublished
        <4>3. written = EndOf(nextIndex) + 0
          BY <2>1, <3>2, <4>2 DEF Sizes, PublishedOrOpen
        <4> QED
          BY <3>1, <4>3
      <3> QED
        BY <2>1, <3>2 DEF Sizes, PublishedOrOpen
    <2>3. currentSize = EndOf(nextIndex) - Overwritten(nextIndex)
      <3>1. \A w \in Writers : ~Accounting(w)
        BY DEF Quiet, Accounting
      <3> QED
        BY <2>1, <3>1 DEF Sizes, SizeCounted
    <2>4. Overwritten(nextIndex) = IF nextIndex > Capacity
                                   THEN Message(nextIndex - Capacity).before ELSE 0
      <3>1. CASE nextIndex > Capacity
        <4>1. nextIndex - Capacity \in 0..(nextIndex - 1) /\ nextIndex >= Capacity
          BY <2>1, <3>1
        <4>2. Message(nextIndex - Capacity).before = EndOf(nextIndex - Capacity)
          BY <2>1, <4>1 DEF Sizes, Chained
        <4> QED
          BY <3>1, <4>1, <4>2 DEF Overwritten
      <3>2. CASE nextIndex = Capacity
        <4>1. nextIndex - Capacity = 0 /\ EndOf(0) = 0 /\ ~(nextIndex > Capacity)
          BY <2>1, <3>2 DEF EndOf
        <4> QED
          BY <2>1, <3>2, <4>1 DEF Overwritten
      <3>3. CASE nextIndex < Capacity
        BY <2>1, <3>3 DEF Overwritten
      <3> QED
        BY <2>1, <3>1, <3>2, <3>3
    <2> QED
      BY <2>2, <2>3, <2>4
  <1> QED
    BY <1>1, SizeInvariant, PTL

-----------------------------------------------------------------------------
(* One thread publishes: GetWriteSpan decides with a free space that is     *)
(* still the one there is.  With two threads it need not be.                *)
OneWriter == \A v, w \in Writers : v = w

(* A writer between the two halves of GetWriteSpan knows what is left. *)
FreeIsCurrent ==
    \A w \in Writers : wpc[w] = "sized" => need[w] <= Size /\ free[w] = Size - offset

OffsetInPool == offset <= Size

BoundsInv ==
    /\ OffsetInPool
    /\ FreeIsCurrent
    /\ SpanInBounds

LEMMA RemainingIsRest ==
    ASSUME offset \in Nat, OffsetInPool
    PROVE  Remaining = Size - offset
  <1>1. Word \in Nat \ {0} /\ Size \in Nat /\ Size < Word
    BY WordAssumption, PoolAssumption
  <1>2. Size - offset \in 0..(Word - 1)
    BY <1>1 DEF OffsetInPool
  <1> QED
    BY <1>1, <1>2 DEF Remaining, Minus

LEMMA BoundsInit == Init => BoundsInv
  BY PoolAssumption DEF Init, PoolInit, BoundsInv, OffsetInPool, FreeIsCurrent, SpanInBounds

LEMMA BoundsAsk ==
    ASSUME LockInv, BoundsInv, NEW w \in Writers, NEW n \in 0..MaxRequest, ReadRemaining(w, n)
    PROVE  BoundsInv'
  <1>1. Remaining = Size - offset
    BY RemainingIsRest DEF LockInv, PoolTypeOK, BoundsInv
  <1>2. FreeIsCurrent'
    BY <1>1 DEF LockInv, PoolTypeOK, BoundsInv, FreeIsCurrent, ReadRemaining
  <1>3. SpanInBounds'
    BY DEF LockInv, PoolTypeOK, BoundsInv, SpanInBounds, ReadRemaining
  <1> QED
    BY <1>2, <1>3 DEF BoundsInv, OffsetInPool, ReadRemaining

LEMMA BoundsRefuse ==
    ASSUME LockInv, BoundsInv, NEW w \in Writers, RefuseSpan(w)
    PROVE  BoundsInv'
  BY DEF LockInv, PoolTypeOK, BoundsInv, OffsetInPool, FreeIsCurrent, SpanInBounds, RefuseSpan

(* The offset may go back to the beginning, so that no other writer may     *)
(* have read the free space.                                                *)
LEMMA BoundsTake ==
    ASSUME OneWriter, LockInv, BoundsInv, NEW w \in Writers, TakeSpan(w)
    PROVE  BoundsInv'
  <1>1. \A v \in Writers : v = w
    BY DEF OneWriter
  <1>2. /\ Size \in Nat /\ offset \in Nat /\ offset <= Size
        /\ need[w] \in Nat /\ need[w] <= Size /\ free[w] = Size - offset
    BY PoolAssumption DEF LockInv, PoolTypeOK, BoundsInv, OffsetInPool, FreeIsCurrent, TakeSpan
  <1>3. OffsetInPool'
    BY <1>2 DEF OffsetInPool, TakeSpan
  <1>4. wpc'[w] = "open" /\ need' = need
    BY DEF LockInv, PoolTypeOK, TakeSpan
  <1>5. span'[w].Start + span'[w].Size <= Size /\ need[w] <= span'[w].Size
    <2>1. CASE free[w] < need[w]
      <3>1. span'[w] = [Start |-> 0, Size |-> Size, committed |-> 0]
        BY <2>1, <1>2 DEF LockInv, PoolTypeOK, TakeSpan
      <3> QED
        BY <1>2, <3>1
    <2>2. CASE free[w] >= need[w]
      <3>1. span'[w] = [Start |-> offset, Size |-> free[w], committed |-> 0]
        BY <2>2, <1>2 DEF LockInv, PoolTypeOK, TakeSpan
      <3> QED
        BY <1>2, <2>2, <3>1
    <2> QED
      BY <1>2, <2>1, <2>2
  <1>6. FreeIsCurrent' /\ SpanInBounds'
    BY <1>1, <1>4, <1>5 DEF FreeIsCurrent, SpanInBounds
  <1> QED
    BY <1>3, <1>6 DEF BoundsInv

(* A commit stays inside its span, which is inside the pool. *)
LEMMA BoundsCommit ==
    ASSUME OneWriter, LockInv, BoundsInv, NEW w \in Writers, NEW n \in Nat, Commit(w, n)
    PROVE  BoundsInv'
  <1>1. \A v \in Writers : v = w
    BY DEF OneWriter
  <1>2. /\ span[w] \in Spans /\ wpc[w] = "open" /\ wpc' = wpc /\ need' = need
        /\ span \in [Writers -> Spans]
    BY DEF LockInv, PoolTypeOK, Commit
  <1>3. /\ span[w].Start \in Nat /\ span[w].Size \in Nat /\ span[w].committed \in Nat
        /\ span'[w].Start = span[w].Start /\ span'[w].Size = span[w].Size
    BY <1>2 DEF Spans, Commit
  <1>4. /\ offset = span[w].Start + span[w].committed
        /\ span[w].Start + span[w].Size <= Size /\ need[w] <= span[w].Size
    BY <1>2 DEF LockInv, OffsetIsSpanEnd, BoundsInv, SpanInBounds
  <1>5. n <= span[w].Size - span[w].committed /\ offset' = offset + n
    BY DEF Commit
  <1>6. OffsetInPool'
    BY <1>3, <1>4, <1>5, PoolAssumption DEF OffsetInPool
  <1>7. FreeIsCurrent' /\ SpanInBounds'
    BY <1>1, <1>2, <1>3, <1>4 DEF FreeIsCurrent, SpanInBounds
  <1> QED
    BY <1>6, <1>7 DEF BoundsInv

LEMMA BoundsRelease ==
    ASSUME LockInv, BoundsInv, NEW w \in Writers, ReleaseSpan(w)
    PROVE  BoundsInv'
  BY DEF LockInv, PoolTypeOK, BoundsInv, OffsetInPool, FreeIsCurrent, SpanInBounds, ReleaseSpan

LEMMA BoundsRestart ==
    ASSUME LockInv, BoundsInv, RestartPool
    PROVE  BoundsInv'
  BY DEF BoundsInv, OffsetInPool, FreeIsCurrent, SpanInBounds, RestartPool

LEMMA BoundsUnchanged ==
    ASSUME BoundsInv, UNCHANGED poolVars
    PROVE  BoundsInv'
  BY DEF BoundsInv, OffsetInPool, FreeIsCurrent, SpanInBounds, poolVars

LEMMA BoundsStep ==
    ASSUME OneWriter
    PROVE  LockInv /\ BoundsInv /\ [Next]_vars => BoundsInv'
  <1> SUFFICES ASSUME LockInv, BoundsInv, [Next]_vars PROVE BoundsInv'
    OBVIOUS
  <1>1. ASSUME NEW w \in Writers, WriterStep(w) PROVE BoundsInv'
    <2>1. ASSUME NEW n \in 0..MaxRequest, AskSpan(w, n) PROVE BoundsInv'
      BY <2>1, BoundsAsk DEF AskSpan
    <2>2. CASE Refuse(w)
      BY <2>2, BoundsRefuse DEF Refuse
    <2>3. CASE OpenScope(w)
      BY <2>3, BoundsTake DEF OpenScope
    <2>4. ASSUME NEW n \in 1..MaxRequest, CommitSpan(w, n) PROVE BoundsInv'
      <3>1. n \in Nat
        BY PoolAssumption
      <3> QED
        BY <2>4, <3>1, BoundsCommit DEF CommitSpan
    <2>5. CASE CloseScope(w)
      BY <2>5, BoundsRelease DEF CloseScope
    <2>6. CASE Fill(w) \/ Account(w) \/ BeginEntry(w) \/ EndEntry(w) \/ Advance(w)
      BY <2>6, BoundsUnchanged DEF Fill, Account, BeginEntry, EndEntry, Advance
    <2> QED
      BY <1>1, <2>1, <2>2, <2>3, <2>4, <2>5, <2>6 DEF WriterStep
  <1>2. ASSUME NEW r \in Readers, ReaderStep(r) PROVE BoundsInv'
    BY <1>2, BoundsUnchanged DEF ReaderStep, OpenCursor, TryRead, FetchEntry, DoneWithBytes
  <1>3. CASE Restart
    BY <1>3, BoundsRestart DEF Restart
  <1>4. CASE UNCHANGED vars
    BY <1>4, BoundsUnchanged DEF vars
  <1> QED
    BY <1>1, <1>2, <1>3, <1>4 DEF Next

(* With one publishing thread every span that GetWriteSpan hands out lies   *)
(* inside the pool and is as large as was asked for, although the free      *)
(* space is read before the flag is taken, and wherever the process died.   *)
THEOREM SpansStayInBounds == OneWriter => (Spec => []SpanInBounds)
  <1> SUFFICES ASSUME OneWriter PROVE Spec => []SpanInBounds
    OBVIOUS
  <1>1. LockInv /\ BoundsInv /\ [Next]_vars => BoundsInv'
    BY BoundsStep
  <1>2. BoundsInv => SpanInBounds
    BY DEF BoundsInv
  <1> QED
    BY <1>1, <1>2, BoundsInit, LockInvariant, PTL DEF Spec

-----------------------------------------------------------------------------
(* The bytes of the messages. *)

(* A message lies inside the pool, and so much has been committed after it:  *)
(* either the pool has not wrapped since, and the offset tells how much, or  *)
(* it has, and all of the pool but the message's beginning and one gap that  *)
(* was too small for a request was used.                                     *)
Placed(i) ==
    /\ Message(i).entry.Size <= Lag(i)
    /\ Message(i).entry.Offset + Message(i).entry.Size <= Size
    /\ \/ offset = Message(i).entry.Offset + Lag(i)
       \/ Lag(i) + Message(i).entry.Offset + MaxRequest > Size + offset

MessagesPlaced == \A i \in 0..(nextIndex - 1) : Placed(i)

(* What is committed has been constructed. *)
Constructed ==
    \A w \in Writers :
        Writing(w) /\ span[w].committed > 0 => \A b \in Requested(w) : bytes[b] = nextIndex

BytesInv ==
    /\ MessagesPlaced
    /\ Constructed
    /\ LiveBytesIntact

WholeInv ==
    /\ SizeInv
    /\ BoundsInv
    /\ BytesInv

LEMMA MessageTypes ==
    ASSUME RingInv, NEW i \in 0..(nextIndex - 1)
    PROVE  /\ Message(i).before \in Nat /\ Message(i).entry.Size \in Nat
           /\ Message(i).entry.Offset \in Nat /\ Lag(i) \in Int
  <1>1. i + 1 \in 1..nextIndex /\ written \in Nat
    BY RingTypes
  <1> QED
    BY <1>1, RecordTypes DEF Message, Lag

LEMMA PoolTypes ==
    ASSUME RingInv
    PROVE  /\ Size \in Nat /\ offset \in Nat /\ MaxRequest \in Nat
           /\ bytes \in [0..(Size - 1) -> Int] /\ DOMAIN bytes = 0..(Size - 1)
  BY PoolAssumption DEF RingInv, TypeInv, TypeOK, LockInv, PoolTypeOK

LEMMA BytesInit == Init => BytesInv
  <1> SUFFICES ASSUME Init PROVE BytesInv
    OBVIOUS
  <1>1. 0..(nextIndex - 1) = {}
    BY DEF Init
  <1> QED
    BY <1>1 DEF Init, PoolInit, BytesInv, MessagesPlaced, Constructed, LiveBytesIntact, Writing

(* A step that neither commits nor publishes nor constructs. *)
LEMMA BytesUntouched ==
    ASSUME BytesInv, UNCHANGED <<nextIndex, log, written, bytes, offset>>,
           \A w \in Writers :
              Writing(w)' => Writing(w) /\ span'[w] = span[w] /\ need'[w] = need[w]
    PROVE  BytesInv'
  <1>1. MessagesPlaced' /\ LiveBytesIntact'
    BY DEF BytesInv, MessagesPlaced, Placed, LiveBytesIntact, BytesIntact, Message, Lag
  <1>2. Constructed'
    <2> SUFFICES ASSUME NEW w \in Writers, Writing(w)', span'[w].committed > 0
                 PROVE  \A b \in Requested(w)' : bytes[b] = nextIndex
      BY DEF Constructed
    <2>1. Requested(w)' = Requested(w)
      BY DEF Requested
    <2> QED
      BY <2>1 DEF BytesInv, Constructed
  <1> QED
    BY <1>1, <1>2 DEF BytesInv

(* When the offset goes back to the beginning, all but less than a request   *)
(* of the pool behind the message has been used.                             *)
LEMMA BytesOpen ==
    ASSUME WholeInv, NEW w \in Writers, OneWriter, OpenScope(w)
    PROVE  BytesInv'
  <1>1. /\ UNCHANGED <<nextIndex, log, written, bytes>>
        /\ span'[w].committed = 0 /\ \A v \in Writers : v = w
    BY DEF OpenScope, TakeSpan, bufferVars, OneWriter, WholeInv, SizeInv, RingInv, TypeInv, LockInv,
           PoolTypeOK
  <1>2. Constructed'
    BY <1>1 DEF Constructed
  <1>3. LiveBytesIntact'
    BY <1>1 DEF WholeInv, BytesInv, LiveBytesIntact, BytesIntact, Message, Lag
  <1>4. offset' = offset \/ (offset' = 0 /\ Size - offset < MaxRequest)
    <2>1. free[w] = Size - offset /\ need[w] \in 0..MaxRequest /\ free[w] \in Nat
      BY RingTypes
         DEF OpenScope, TakeSpan, WholeInv, BoundsInv, FreeIsCurrent, SizeInv, RingInv, TypeInv,
             LockInv, PoolTypeOK
    <2>2. /\ Size \in Nat /\ offset \in Nat /\ MaxRequest \in Nat
      BY PoolTypes DEF WholeInv, SizeInv
    <2> QED
      BY <2>1, <2>2 DEF OpenScope, TakeSpan
  <1>5. ASSUME NEW i \in 0..(nextIndex - 1) PROVE Placed(i)'
    <2>1. /\ Message(i).entry.Size \in Nat /\ Message(i).entry.Offset \in Nat /\ Lag(i) \in Int
          /\ Size \in Nat /\ offset \in Nat /\ MaxRequest \in Nat
      BY MessageTypes, PoolTypes DEF WholeInv, SizeInv
    <2>2. Placed(i)
      BY DEF WholeInv, BytesInv, MessagesPlaced
    <2>3. Message(i)' = Message(i) /\ Lag(i)' = Lag(i)
      BY <1>1 DEF Message, Lag
    <2>4. PICK a \in Int, o \in Nat, p \in Nat :
             a = Lag(i) /\ o = Message(i).entry.Offset /\ p = offset
      BY <2>1
    <2>5. \/ offset' = o + a
          \/ a + o + MaxRequest > Size + offset'
      <3>1. CASE offset' = offset
        BY <2>2, <2>4, <3>1 DEF Placed
      <3>2. CASE offset' = 0 /\ Size - offset < MaxRequest
        <4>1. a + o + MaxRequest > Size
          <5>1. CASE p = o + a
            BY <2>1, <2>4, <3>2, <5>1
          <5>2. CASE a + o + MaxRequest > Size + p
            BY <2>1, <2>4, <5>2
          <5> QED
            BY <2>2, <2>4, <5>1, <5>2 DEF Placed
        <4> QED
          BY <2>1, <3>2, <4>1
      <3> QED
        BY <1>4, <3>1, <3>2
    <2> QED
      BY <2>2, <2>3, <2>4, <2>5 DEF Placed
  <1> QED
    BY <1>1, <1>2, <1>3, <1>5 DEF BytesInv, MessagesPlaced

(* A commit moves the offset and the distance of every message alike. *)
LEMMA BytesCommit ==
    ASSUME WholeInv, NEW w \in Writers, OneWriter, NEW n \in 1..MaxRequest, CommitSpan(w, n)
    PROVE  BytesInv'
  <1>1. /\ UNCHANGED <<nextIndex, log, bytes, need, wpc, dtor>>
        /\ written' = written + n /\ offset' = offset + n /\ n \in Nat
        /\ \A b \in Requested(w) : bytes[b] = nextIndex
        /\ \A v \in Writers : v = w
    BY PoolAssumption DEF CommitSpan, Commit, OneWriter
  <1>2. Requested(w)' = Requested(w)
    BY <1>1
       DEF CommitSpan, Commit, Requested, WholeInv, SizeInv, RingInv, TypeInv, LockInv, PoolTypeOK,
           Spans
  <1>3. Constructed'
    BY <1>1, <1>2 DEF Constructed
  <1>4. ASSUME NEW i \in 0..(nextIndex - 1)
        PROVE  Placed(i)' /\ (Lag(i)' + 2 * MaxRequest - 1 <= Size => BytesIntact(i)')
    <2>1. /\ Message(i).entry.Size \in Nat /\ Message(i).entry.Offset \in Nat /\ Lag(i) \in Int
          /\ Size \in Nat /\ offset \in Nat /\ MaxRequest \in Nat /\ written \in Nat
          /\ Message(i).before \in Nat
      BY MessageTypes, PoolTypes, RingTypes DEF WholeInv, SizeInv
    <2>2. Placed(i) /\ (Lag(i) + 2 * MaxRequest - 1 <= Size => BytesIntact(i))
      BY DEF WholeInv, BytesInv, MessagesPlaced, LiveBytesIntact
    <2>3. Message(i)' = Message(i) /\ Lag(i)' = Lag(i) + n
      BY <1>1, <2>1 DEF Message, Lag
    <2>4. PICK a \in Int, o \in Nat, p \in Nat, s \in Nat :
             /\ a = Lag(i) /\ o = Message(i).entry.Offset /\ p = offset
             /\ s = Message(i).entry.Size
      BY <2>1
    <2>5. /\ s <= a + n /\ o + s <= Size
          /\ p + n = o + (a + n) \/ (a + n) + o + MaxRequest > Size + (p + n)
      <3>1. /\ s <= a /\ o + s <= Size
            /\ p = o + a \/ a + o + MaxRequest > Size + p
        BY <2>2, <2>4 DEF Placed
      <3> QED
        BY <1>1, <2>1, <3>1
    <2>6. Placed(i)'
      BY <1>1, <2>3, <2>4, <2>5 DEF Placed
    <2>7. (a + n) + 2 * MaxRequest - 1 <= Size => a + 2 * MaxRequest - 1 <= Size
      BY <1>1, <2>1
    <2>8. BytesIntact(i)' <=> BytesIntact(i)
      BY <1>1, <2>3 DEF BytesIntact
    <2> QED
      BY <2>2, <2>3, <2>4, <2>6, <2>7, <2>8
  <1> QED
    BY <1>1, <1>3, <1>4 DEF BytesInv, MessagesPlaced, LiveBytesIntact

(* The bytes that a message is constructed over are those of no message that *)
(* is less than a pool back, the span being filled and the gap included.     *)
LEMMA BytesFill ==
    ASSUME WholeInv, NEW w \in Writers, OneWriter, Fill(w)
    PROVE  BytesInv'
  <1>1. /\ UNCHANGED <<nextIndex, log, written, offset, need, wpc, dtor, span>>
        /\ wpc[w] = "open" /\ span[w].committed = 0
        /\ bytes' = [b \in DOMAIN bytes |-> IF b \in Requested(w) THEN nextIndex ELSE bytes[b]]
        /\ \A v \in Writers : v = w
    BY DEF Fill, poolVars, OneWriter
  <1>2. Constructed'
    BY <1>1 DEF Constructed
  <1>3. MessagesPlaced'
    BY <1>1 DEF WholeInv, BytesInv, MessagesPlaced, Placed, Message, Lag
  <1>4. /\ Size \in Nat /\ offset \in Nat /\ MaxRequest \in Nat /\ need[w] \in Nat
        /\ need[w] <= MaxRequest /\ DOMAIN bytes = 0..(Size - 1) /\ DOMAIN bytes' = DOMAIN bytes
        /\ span[w].Start \in Nat
    <2>1. need[w] \in 0..MaxRequest
      BY RingTypes DEF WholeInv, SizeInv
    <2> QED
      BY <1>1, <2>1, PoolTypes, RingTypes DEF WholeInv, SizeInv
  <1>5. span[w].Start = offset
    <2>1. offset = span[w].Start + span[w].committed
      BY <1>1 DEF WholeInv, SizeInv, RingInv, TypeInv, LockInv, OffsetIsSpanEnd
    <2> QED
      BY <1>1, <1>4, <2>1
  <1>6. ASSUME NEW i \in 0..(nextIndex - 1), Lag(i) + 2 * MaxRequest - 1 <= Size
        PROVE  BytesIntact(i)'
    <2>1. /\ Message(i).entry.Size \in Nat /\ Message(i).entry.Offset \in Nat /\ Lag(i) \in Int
      BY MessageTypes DEF WholeInv, SizeInv
    <2>2. Placed(i) /\ BytesIntact(i)
      BY <1>6 DEF WholeInv, BytesInv, MessagesPlaced, LiveBytesIntact
    <2>3. PICK a \in Int, o \in Nat, p \in Nat, s \in Nat, m \in Nat, d \in Nat :
             /\ a = Lag(i) /\ o = Message(i).entry.Offset /\ p = offset
             /\ s = Message(i).entry.Size /\ m = MaxRequest /\ d = need[w]
      BY <1>4, <2>1
    <2>4. /\ s <= a
          /\ p = o + a \/ a + o + m > Size + p
          /\ d <= m /\ a + 2 * m - 1 <= Size
      BY <1>4, <1>6, <2>2, <2>3 DEF Placed
    <2> SUFFICES ASSUME NEW b \in o..(o + s - 1)
                 PROVE  b \in DOMAIN bytes' /\ bytes'[b] = i
      BY <1>1, <2>3 DEF BytesIntact, Message
    <2>5. b \in DOMAIN bytes /\ bytes[b] = i
      BY <2>2, <2>3 DEF BytesIntact
    <2>6. b \notin p..(p + d - 1)
      <3>1. CASE p = o + a
        BY <2>4, <3>1
      <3>2. CASE a + o + m > Size + p
        <4>1. a <= (Size + 1) - 2 * m
          BY <1>4, <2>4
        <4>2. o >= p + m
          BY <1>4, <3>2, <4>1
        <4> QED
          BY <2>4, <4>2
      <3> QED
        BY <2>4, <3>1, <3>2
    <2>7. b \notin Requested(w)
      BY <1>5, <2>3, <2>6 DEF Requested
    <2> QED
      BY <1>1, <2>5, <2>7
  <1>7. LiveBytesIntact'
    <2>1. ASSUME NEW i \in 0..(nextIndex - 1) PROVE Lag(i)' = Lag(i)
      BY <1>1 DEF Lag, Message
    <2> QED
      BY <1>1, <1>6, <2>1 DEF LiveBytesIntact
  <1> QED
    BY <1>2, <1>3, <1>7 DEF BytesInv

(* What ~WriterScope publishes lies where the span lay, and was constructed. *)
LEMMA BytesAdvance ==
    ASSUME WholeInv, NEW w \in Writers, OneWriter, Advance(w)
    PROVE  BytesInv'
  <1>1. PICK n \in Nat, c \in Nat, o \in Nat :
          /\ n = nextIndex /\ c = span[w].committed /\ o = span[w].Start
          /\ Len(log) = n /\ log \in Seq(LogRecords) /\ written \in Nat
    BY RingTypes DEF WholeInv, SizeInv
  <1>2. /\ nextIndex' = n + 1 /\ log' = Append(log, Record(w)) /\ Record(w) \in LogRecords
        /\ UNCHANGED <<written, bytes, offset, wpc, need, span>>
        /\ dtor[w] = "next" /\ wpc[w] = "open" /\ dtor'[w] = "done"
        /\ \A v \in Writers : v = w
    BY <1>1, RecordType
       DEF Advance, Record, poolVars, OneWriter, WholeInv, SizeInv, RingInv, DtorHoldsFlag, TypeInv,
           TypeOK
  <1>3. /\ Size \in Nat /\ offset \in Nat /\ MaxRequest \in Nat /\ need[w] \in Nat
        /\ DOMAIN bytes = 0..(Size - 1) /\ span[w].Size \in Nat
    <2>1. need[w] \in 0..MaxRequest
      BY RingTypes DEF WholeInv, SizeInv
    <2> QED
      BY <2>1, PoolTypes, RingTypes DEF WholeInv, SizeInv
  <1>4. Constructed'
    BY <1>2 DEF Constructed, Writing
  <1>5. ASSUME NEW i \in 0..(n - 1)
        PROVE  Message(i)' = Message(i) /\ Lag(i)' = Lag(i)
    <2>1. log'[i + 1] = log[i + 1]
      BY <1>1, <1>2
    <2> QED
      BY <1>2, <2>1 DEF Message, Lag
  <1>6. ASSUME NEW i \in 0..(n - 1)
        PROVE  Placed(i)' /\ (Lag(i)' + 2 * MaxRequest - 1 <= Size => BytesIntact(i)')
    <2>1. Placed(i) /\ (Lag(i) + 2 * MaxRequest - 1 <= Size => BytesIntact(i))
      BY <1>1 DEF WholeInv, BytesInv, MessagesPlaced, LiveBytesIntact
    <2> QED
      BY <1>2, <1>5, <2>1 DEF Placed, BytesIntact
  <1>7. /\ Message(n)'.entry.Size = c /\ Message(n)'.entry.Offset = o /\ Lag(n)' = c
    <2>1. log'[n + 1] = Record(w)
      BY <1>1, <1>2
    <2>2. /\ log'[n + 1].before = written - c
          /\ log'[n + 1].entry.Size = c /\ log'[n + 1].entry.Offset = o
      BY <1>1, <2>1 DEF Record, NewEntry
    <2>3. written - (written - c) = c
      BY <1>1
    <2> QED
      BY <1>2, <2>2, <2>3 DEF Message, Lag
  <1>8. offset = o + c /\ c <= need[w] /\ o + span[w].Size <= Size /\ need[w] <= span[w].Size
    <2>1. offset = o + c
      BY <1>1, <1>2 DEF WholeInv, SizeInv, RingInv, TypeInv, LockInv, OffsetIsSpanEnd
    <2>2. c <= need[w]
      BY <1>1, <1>2 DEF WholeInv, SizeInv, Asked
    <2>3. o + span[w].Size <= Size /\ need[w] <= span[w].Size
      BY <1>1, <1>2 DEF WholeInv, BoundsInv, SpanInBounds
    <2> QED
      BY <2>1, <2>2, <2>3
  <1>9. Placed(n)'
    <2>1. c <= c /\ o + c <= Size
      <3>1. PICK s \in Nat, d \in Nat : s = span[w].Size /\ d = need[w]
        BY <1>3
      <3>2. c <= d /\ d <= s /\ o + s <= Size /\ Size \in Nat
        BY <1>3, <1>8, <3>1
      <3> QED
        BY <3>2
    <2>2. offset' = o + Lag(n)'
      BY <1>2, <1>7, <1>8
    <2>3. /\ Message(n)'.entry.Size <= Lag(n)'
          /\ Message(n)'.entry.Offset + Message(n)'.entry.Size <= Size
      BY <1>7, <2>1
    <2>4. offset' = Message(n)'.entry.Offset + Lag(n)'
      BY <1>7, <2>2
    <2> QED
      BY <2>3, <2>4 DEF Placed
  <1>10. BytesIntact(n)'
    <2> SUFFICES ASSUME NEW b \in o..(o + c - 1)
                 PROVE  b \in DOMAIN bytes /\ bytes[b] = n
      BY <1>2, <1>7 DEF BytesIntact
    <2>1. b \in DOMAIN bytes /\ b \in o..(o + need[w] - 1)
      <3>1. PICK d \in Nat, z \in Nat : d = need[w] /\ z = span[w].Size
        BY <1>3
      <3>2. c <= d /\ d <= z /\ o + z <= Size
        BY <1>8, <3>1
      <3>3. b \in 0..(Size - 1) /\ b \in o..(o + d - 1)
        BY <1>3, <3>2
      <3> QED
        BY <1>3, <3>1, <3>3
    <2>2. c > 0
      BY <1>1
    <2>3. \A a \in Requested(w) : bytes[a] = n
      BY <1>1, <1>2, <2>2 DEF WholeInv, BytesInv, Constructed, Writing
    <2> QED
      BY <1>1, <2>1, <2>3 DEF Requested
  <1>11. ASSUME NEW i \in 0..(nextIndex' - 1)
         PROVE  Placed(i)' /\ (Lag(i)' + 2 * MaxRequest - 1 <= Size => BytesIntact(i)')
    <2>1. CASE i = n
      BY <1>9, <1>10, <2>1
    <2>2. CASE i # n
      <3>1. i \in 0..(n - 1)
        BY <1>1, <1>2, <2>2
      <3> QED
        BY <1>6, <3>1
    <2> QED
      BY <2>1, <2>2
  <1> QED
    BY <1>4, <1>11 DEF BytesInv, MessagesPlaced, LiveBytesIntact

LEMMA BytesStep ==
    ASSUME OneWriter
    PROVE  WholeInv /\ [Next]_vars => WholeInv'
  <1> SUFFICES ASSUME WholeInv, [Next]_vars PROVE WholeInv'
    OBVIOUS
  <1>0. SizeInv' /\ BoundsInv'
    BY SizesStep, BoundsStep DEF WholeInv, SizeInv, RingInv, TypeInv
  <1>1. ASSUME NEW w \in Writers, WriterStep(w) PROVE BytesInv'
    <2>0. \A v \in Writers : v = w
      BY DEF OneWriter
    <2>1. CASE Refuse(w) \/ \E n \in 0..MaxRequest : AskSpan(w, n)
      <3>1. UNCHANGED <<nextIndex, log, written, bytes, offset>> /\ wpc'[w] # "open"
        BY <2>1 DEF Refuse, RefuseSpan, AskSpan, ReadRemaining, bufferVars, WholeInv, SizeInv,
                    RingInv, TypeInv, LockInv, PoolTypeOK
      <3>2. \A v \in Writers : ~Writing(v)'
        BY <2>0, <3>1 DEF Writing
      <3> QED
        BY <3>1, <3>2, BytesUntouched DEF WholeInv
    <2>2. CASE Account(w) \/ BeginEntry(w) \/ EndEntry(w)
      <3>1. /\ UNCHANGED <<nextIndex, log, written, bytes, offset>>
            /\ UNCHANGED <<wpc, span, need>> /\ dtor[w] # "done"
        BY <2>2 DEF Account, BeginEntry, EndEntry, poolVars
      <3>2. \A v \in Writers : Writing(v)' => Writing(v)
        BY <2>0, <3>1 DEF Writing
      <3> QED
        BY <3>1, <3>2, BytesUntouched DEF WholeInv
    <2>3. CASE CloseScope(w)
      <3>1. UNCHANGED <<nextIndex, log, written, bytes, offset>> /\ wpc'[w] # "open"
        BY <2>3 DEF CloseScope, ReleaseSpan, WholeInv, SizeInv, RingInv, TypeInv, LockInv,
                    PoolTypeOK
      <3>2. \A v \in Writers : ~Writing(v)'
        BY <2>0, <3>1 DEF Writing
      <3> QED
        BY <3>1, <3>2, BytesUntouched DEF WholeInv
    <2> QED
      BY <1>1, <2>1, <2>2, <2>3, BytesOpen, BytesFill, BytesCommit, BytesAdvance DEF WriterStep
  <1>2. ASSUME Restart PROVE BytesInv'
    <2>1. UNCHANGED <<nextIndex, log, written, bytes, offset>>
      BY <1>2 DEF Restart, RestartPool
    <2>2. \A v \in Writers : ~Writing(v)'
      BY <1>2 DEF Restart, RestartPool, Writing
    <2> QED
      BY <2>1, <2>2, BytesUntouched DEF WholeInv
  <1>3. ASSUME (\E r \in Readers : ReaderStep(r)) \/ UNCHANGED vars PROVE BytesInv'
    <2>1. /\ UNCHANGED <<nextIndex, log, written, bytes, offset>>
          /\ UNCHANGED <<wpc, span, need, dtor>>
      BY <1>3 DEF ReaderStep, OpenCursor, TryRead, FetchEntry, DoneWithBytes, vars, poolVars,
                  bufferVars
    <2>2. \A v \in Writers : Writing(v)' => Writing(v)
      BY <2>1 DEF Writing
    <2> QED
      BY <2>1, <2>2, BytesUntouched DEF WholeInv
  <1>4. BytesInv'
    BY <1>1, <1>2, <1>3 DEF Next
  <1> QED
    BY <1>0, <1>4 DEF WholeInv

LEMMA WholeInvariant == OneWriter => (Spec => []WholeInv)
  <1> SUFFICES ASSUME OneWriter PROVE Spec => []WholeInv
    OBVIOUS
  <1>1. Init => WholeInv
    BY SizesInit, BoundsInit, BytesInit DEF WholeInv
  <1>2. WholeInv /\ [Next]_vars => WholeInv'
    BY BytesStep
  <1> QED
    BY <1>1, <1>2, PTL DEF Spec

(* With one publishing thread a message stays whole in the pool until about  *)
(* a pool's worth of bytes has been committed after it, for any sizes, and   *)
(* wherever a process died: Span::Commit and the reset of the offset never   *)
(* reach back over it earlier.                                               *)
THEOREM MessagesStayWhole == OneWriter => (Spec => []LiveBytesIntact)
  <1> SUFFICES ASSUME OneWriter PROVE Spec => []LiveBytesIntact
    OBVIOUS
  <1>1. WholeInv => LiveBytesIntact
    BY DEF WholeInv, BytesInv
  <1> QED
    BY <1>1, WholeInvariant, PTL

(* A reader that is less than a ring of entries and a pool of bytes behind   *)
(* when it looks at the bytes gets exactly the message of its index, with    *)
(* one publishing thread, however long ago it fetched the entry: zero copy   *)
(* without a lock is safe for a reader that is on time.                      *)
THEOREM TimelyReadsAreExact == OneWriter => (Spec => []TimelyReadIsExact)
  <1> SUFFICES ASSUME OneWriter PROVE Spec => []TimelyReadIsExact
    OBVIOUS
  <1>1. ASSUME WholeInv, ReadInv PROVE TimelyReadIsExact
    <2> SUFFICES ASSUME NEW r \in Readers, cursor[r].pc = "entry", cursor[r].Index \in Live,
                        Lag(cursor[r].Index) + 2 * MaxRequest - 1 <= Size
                 PROVE  Exact(r)
      BY DEF TimelyReadIsExact
    <2>1. cursor[r].entry = Message(cursor[r].Index).entry
      BY <1>1 DEF ReadInv, FetchedFresh
    <2>2. BytesIntact(cursor[r].Index)
      BY <1>1 DEF WholeInv, BytesInv, LiveBytesIntact, Live
    <2> QED
      BY <2>1, <2>2 DEF Exact
  <1> QED
    BY <1>1, WholeInvariant, ReadInvariant, PTL

=================================================================================
