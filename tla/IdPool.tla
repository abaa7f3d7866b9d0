--------------------------------- MODULE IdPool ---------------------------------
(***************************************************************************)
(* IDPool: a node per id, the free ones linked from _head, and a flag per   *)
(* node that says it is rented.  The constructor of a topic found in shared *)
(* memory takes the ids of the slots it keeps with try_rent; then one       *)
(* thread rents and another returns.                                        *)
(***************************************************************************)
EXTENDS Naturals

CONSTANT NumIds      \* TSize, 256 in the code

ASSUME PoolAssumption == NumIds \in Nat \ {0}

Ids == 0..(NumIds - 1)
NoNode == NumIds     \* nullptr

VARIABLES
    _head, nextId, in_use,
    kept,            \* the ids try_rent took
    held,            \* the ids in the hands of callers
    rentPc, oldHead, rentNext,
    returnPc, returning

listVars == <<_head, nextId, in_use>>
poolVars == <<listVars, kept, held, rentPc, oldHead, rentNext, returnPc, returning>>

(* The free list without the ids of K, in the order of the ids. *)
NextFree(i, K) ==
    LET free == {j \in Ids : j > i /\ j \notin K}
    IN  IF free = {} THEN NoNode ELSE CHOOSE j \in free : \A k \in free : j <= k

FirstFree(K) == IF 0 \notin K THEN 0 ELSE NextFree(0, K)

(* Fault: try_rent sets no flag at all. *)
MarkedByTryRent_None(K) == {}

(* try_rent is called for the ids of K in rising order.  An id behind the   *)
(* head is marked; one at the head, which is one with no free id below it,  *)
(* is taken by the compare-and-swap alone, and is not.                      *)
MarkedByTryRent(K) == {i \in K : \E j \in Ids : j < i /\ j \notin K}

PoolInit ==
    /\ kept \in SUBSET Ids
    /\ held = kept
    /\ _head = FirstFree(kept)
    /\ nextId = [i \in Ids |-> NextFree(i, kept)]
    /\ in_use = [i \in Ids |-> i \in MarkedByTryRent(kept)]
    /\ rentPc = "idle" /\ oldHead = NoNode /\ rentNext = NoNode
    /\ returnPc = "idle" /\ returning = 0

(* rent *)
Rent ==
    /\ rentPc = "idle"
    /\ _head # NoNode
    /\ oldHead' = _head
    /\ rentNext' = nextId[_head]
    /\ rentPc' = "take"
    /\ UNCHANGED <<listVars, kept, held, returnPc, returning>>

TakeId ==
    /\ rentPc = "take"
    /\ IF _head = oldHead
       THEN _head' = rentNext /\ rentPc' = "mark"
       ELSE rentPc' = "idle" /\ UNCHANGED _head
    /\ UNCHANGED <<nextId, in_use, kept, held, oldHead, rentNext, returnPc, returning>>

MarkId ==
    /\ rentPc = "mark"
    /\ in_use' = [in_use EXCEPT ![oldHead] = TRUE]
    /\ held' = held \union {oldHead}
    /\ rentPc' = "idle"
    /\ UNCHANGED <<_head, nextId, kept, oldHead, rentNext, returnPc, returning>>

(* returns: the flag is taken back first. *)
Return(i) ==
    /\ returnPc = "idle"
    /\ i \in held
    /\ in_use[i]
    /\ in_use' = [in_use EXCEPT ![i] = FALSE]
    /\ held' = held \ {i}
    /\ kept' = kept \ {i}
    /\ returning' = i
    /\ returnPc' = "link"
    /\ UNCHANGED <<_head, nextId, rentPc, oldHead, rentNext>>

(* "ID already returned to pool" *)
ReturnThrows(i) ==
    /\ returnPc = "idle"
    /\ i \in held
    /\ ~in_use[i]
    /\ returning' = i
    /\ returnPc' = "thrown"
    /\ UNCHANGED <<listVars, kept, held, rentPc, oldHead, rentNext>>

LinkId ==
    /\ returnPc = "link"
    /\ nextId' = [nextId EXCEPT ![returning] = _head]
    /\ returnPc' = "give"
    /\ UNCHANGED <<_head, in_use, kept, held, rentPc, oldHead, rentNext, returning>>

GiveId ==
    /\ returnPc = "give"
    /\ IF _head = nextId[returning]
       THEN _head' = returning /\ returnPc' = "idle"
       ELSE returnPc' = "link" /\ UNCHANGED _head
    /\ UNCHANGED <<nextId, in_use, kept, held, rentPc, oldHead, rentNext, returning>>

PoolNext ==
    \/ Rent \/ TakeId \/ MarkId
    \/ \E i \in Ids : Return(i) \/ ReturnThrows(i)
    \/ LinkId \/ GiveId

-----------------------------------------------------------------------------
(* The ids on the free list. *)
FreeIds ==
    LET upTo[k \in 0..NumIds] ==
            IF k = 0 THEN {_head} ELSE upTo[k - 1] \union {nextId[i] : i \in upTo[k - 1] \ {NoNode}}
    IN  upTo[NumIds] \ {NoNode}

(* returns throws for an id its caller does hold, and has not returned, in  *)
(* one case only: try_rent took it from the head of the list, which it is   *)
(* when every lower id was kept too.                                        *)
ReturnThrowsOnlyForKept ==
    returnPc = "thrown" => 0..returning \subseteq kept

=============================================================================
