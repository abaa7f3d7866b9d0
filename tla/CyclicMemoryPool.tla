--------------------------- MODULE CyclicMemoryPool ---------------------------
(***************************************************************************)
(* The byte pool of a topic (CyclicMemoryPool.hpp): one contiguous block,   *)
(* a write offset, and a flag taken with a compare-and-swap that is never   *)
(* waited for.  GetWriteSpan is two steps because the code reads the free   *)
(* space BEFORE it takes the flag.  Writers are the threads that may ask    *)
(* for a span; a topic has one publish thread, so one writer is the         *)
(* supported use and several are what the flag is there to refuse.          *)
(***************************************************************************)
EXTENDS Ulong

CONSTANTS
    Writers,      \* threads that call GetWriteSpan
    Size,         \* bytes in the pool (State::_size)
    MaxRequest    \* bound on the minSize of a request

ASSUME PoolAssumption ==
    /\ Size \in Nat \ {0}
    /\ MaxRequest \in Nat
    /\ Size < Word

VARIABLES
    offset,       \* State::_offset
    inUse,        \* State::_inUse
    wpc,          \* where each writer is: "idle", "sized" or "open"
    need,         \* minSize of its request
    free,         \* its local freeSpace
    span          \* its Span, while wpc is "open"

poolVars == <<offset, inUse, wpc, need, free, span>>

Spans == [Start : Nat, Size : Nat, committed : Nat]
NoSpan == [Start |-> 0, Size |-> 0, committed |-> 0]

PoolTypeOK ==
    /\ offset \in Nat
    /\ inUse \in BOOLEAN
    /\ wpc \in [Writers -> {"idle", "sized", "open"}]
    /\ need \in [Writers -> 0..MaxRequest]
    /\ free \in [Writers -> Nat]
    /\ span \in [Writers -> Spans]

PoolInit ==
    /\ offset = 0
    /\ inUse = FALSE
    /\ wpc = [w \in Writers |-> "idle"]
    /\ need = [w \in Writers |-> 0]
    /\ free = [w \in Writers |-> 0]
    /\ span = [w \in Writers |-> NoSpan]

-----------------------------------------------------------------------------
(* size_t subtraction: an offset past the end wraps to a huge free space. *)
Remaining == Minus(Size, offset)

(* GetWriteSpan up to the read of freeSpace.  A request larger than the    *)
(* pool throws before anything is touched, so it is only a guard here.     *)
ReadRemaining(w, minSize) ==
    /\ wpc[w] = "idle"
    /\ minSize <= Size
    /\ need' = [need EXCEPT ![w] = minSize]
    /\ free' = [free EXCEPT ![w] = Remaining]
    /\ wpc' = [wpc EXCEPT ![w] = "sized"]
    /\ UNCHANGED <<offset, inUse, span>>

(* The compare-and-swap fails: "Buffer is already in use." is thrown. *)
RefuseSpan(w) ==
    /\ wpc[w] = "sized"
    /\ inUse
    /\ wpc' = [wpc EXCEPT ![w] = "idle"]
    /\ UNCHANGED <<offset, inUse, need, free, span>>

(* Faults for the checks to find: the flag tested and not swapped, the     *)
(* reset of the free space without that of the offset, a reset every time, *)
(* a commit that does not move the pool's pointer.                         *)
TakeSpan_NoSwap(w) ==
    /\ wpc[w] = "sized"
    /\ inUse' = TRUE
    /\ wpc' = [wpc EXCEPT ![w] = "open"]
    /\ offset' = offset
    /\ span' = [span EXCEPT ![w] = [Start |-> offset, Size |-> free[w], committed |-> 0]]
    /\ UNCHANGED <<need, free>>

TakeSpan_KeepsOffset(w) ==
    /\ wpc[w] = "sized"
    /\ ~inUse
    /\ inUse' = TRUE
    /\ wpc' = [wpc EXCEPT ![w] = "open"]
    /\ offset' = offset
    /\ span' = [span EXCEPT ![w] =
                  [Start |-> offset, committed |-> 0,
                   Size |-> IF free[w] < need[w] THEN Size ELSE free[w]]]
    /\ UNCHANGED <<need, free>>

TakeSpan_Rewinds(w) ==
    /\ wpc[w] = "sized"
    /\ ~inUse
    /\ inUse' = TRUE
    /\ wpc' = [wpc EXCEPT ![w] = "open"]
    /\ offset' = 0
    /\ span' = [span EXCEPT ![w] = [Start |-> 0, Size |-> Size, committed |-> 0]]
    /\ UNCHANGED <<need, free>>

Commit_KeepsOffset(w, n) ==
    /\ wpc[w] = "open"
    /\ n <= span[w].Size - span[w].committed
    /\ span' = [span EXCEPT ![w].committed = @ + n]
    /\ UNCHANGED <<offset, inUse, wpc, need, free>>

(* The compare-and-swap succeeds; the offset goes back to the beginning    *)
(* when the free space read earlier is too small.                          *)
TakeSpan(w) ==
    /\ wpc[w] = "sized"
    /\ ~inUse
    /\ inUse' = TRUE
    /\ wpc' = [wpc EXCEPT ![w] = "open"]
    /\ \/ /\ free[w] < need[w]
          /\ offset' = 0
          /\ span' = [span EXCEPT ![w] = [Start |-> 0, Size |-> Size, committed |-> 0]]
       \/ /\ free[w] >= need[w]
          /\ offset' = offset
          /\ span' = [span EXCEPT ![w] =
                        [Start |-> offset, Size |-> free[w], committed |-> 0]]
    /\ UNCHANGED <<need, free>>

(* Span::Commit; more than the span has left throws and changes nothing. *)
Commit(w, n) ==
    /\ wpc[w] = "open"
    /\ n <= span[w].Size - span[w].committed
    /\ span' = [span EXCEPT ![w].committed = @ + n]
    /\ offset' = offset + n
    /\ UNCHANGED <<inUse, wpc, need, free>>

(* ~Span *)
ReleaseSpan(w) ==
    /\ wpc[w] = "open"
    /\ inUse' = FALSE
    /\ wpc' = [wpc EXCEPT ![w] = "idle"]
    /\ span' = [span EXCEPT ![w] = NoSpan]
    /\ UNCHANGED <<offset, need, free>>

(* The process dies with its writers wherever they are, and the next one   *)
(* maps the same block and calls Unlock() before anything else.            *)
RestartPool ==
    /\ inUse' = FALSE
    /\ wpc' = [w \in Writers |-> "idle"]
    /\ need' = [w \in Writers |-> 0]
    /\ free' = [w \in Writers |-> 0]
    /\ span' = [w \in Writers |-> NoSpan]
    /\ offset' = offset

PoolNext ==
    \/ \E w \in Writers :
          \/ \E n \in 0..MaxRequest : ReadRemaining(w, n)
          \/ RefuseSpan(w)
          \/ TakeSpan(w)
          \/ \E n \in 1..MaxRequest : Commit(w, n)
          \/ ReleaseSpan(w)
    \/ RestartPool

PoolSpec == PoolInit /\ [][PoolNext]_poolVars

-----------------------------------------------------------------------------
(* The flag is a lock: it is set exactly while one span is open, whichever  *)
(* threads call GetWriteSpan and whenever the process is restarted.         *)
ExclusiveSpan ==
    /\ inUse <=> \E w \in Writers : wpc[w] = "open"
    /\ \A v, w \in Writers : wpc[v] = "open" /\ wpc[w] = "open" => v = w

(* While a span is open the shared write offset is exactly its end, so the  *)
(* next span cannot start inside committed bytes (Span::Commit moves both). *)
OffsetIsSpanEnd ==
    \A w \in Writers :
        wpc[w] = "open" => offset = span[w].Start + span[w].committed

(* "Check if there is enough space, or reset the pointer": a span handed    *)
(* out lies inside the pool and is at least as large as was asked for.      *)
SpanInBounds ==
    \A w \in Writers :
        wpc[w] = "open" =>
            /\ span[w].Start + span[w].Size <= Size
            /\ need[w] <= span[w].Size

=============================================================================
