----------------------------- MODULE ConcurrentBag -----------------------------
(***************************************************************************)
(* ConcurrentBag: an array of nodes, some linked from items_head and the    *)
(* others from free_list_head, changed by compare-and-swap alone.           *)
(*                                                                          *)
(* Two threads use the bag of a topic: the dispatcher pushes, the publish   *)
(* thread walks over it with an Iterator and then removes what it put       *)
(* aside; try_pop is that thread's too.  A step of a thread is one access   *)
(* to what both see, with the accesses to nodes only it can reach.          *)
(***************************************************************************)
EXTENDS Naturals

CONSTANTS
    Items,           \* what is pushed, each item once (a subscription)
    Capacity         \* 256 in the code

ASSUME BagAssumption == Capacity \in Nat \ {0}

Nodes == 0..(Capacity - 1)
Nil == Capacity      \* static_cast<size_t>(-1)

VARIABLES
    value, nextNode, \* of each node
    free_list_head, items_head,
    \* the thread that pushes
    pushPc, pushing, \* next step, and the item in hand
    pushed,          \* items pushed so far
    node, after,     \* new_node_idx or old_head, and next
    \* the thread that walks and removes
    walkPc, target,  \* next step, and the item to remove
    current, previous, following,
    aside,           \* toRemove
    overtaken        \* history: a push has succeeded since remove began

nodeVars == <<value, nextNode, free_list_head, items_head>>
pushVars == <<pushPc, pushing, pushed, node, after>>
walkVars == <<walkPc, target, current, previous, following, aside>>
bagVars  == <<nodeVars, pushVars, walkVars, overtaken>>

NoItem == "none"

BagInit ==
    /\ value = [n \in Nodes |-> NoItem]
    /\ nextNode = [n \in Nodes |-> n + 1]
    /\ free_list_head = 0
    /\ items_head = Nil
    /\ pushPc = "idle" /\ pushing = NoItem /\ pushed = {}
    /\ node = Nil /\ after = Nil
    /\ walkPc = "idle" /\ target = NoItem
    /\ current = Nil /\ previous = Nil /\ following = Nil
    /\ aside = {}
    /\ overtaken = FALSE

-----------------------------------------------------------------------------
(* push, with pop_from_free_list.                                          *)

Push(x) ==
    /\ pushPc = "idle"
    /\ x \notin pushed
    /\ pushing' = x
    /\ pushed' = pushed \union {x}
    /\ node' = free_list_head
    /\ pushPc' = "next"
    /\ UNCHANGED <<nodeVars, after, walkVars, overtaken>>

(* "Bag is full" *)
PushFails ==
    /\ pushPc = "next" /\ node = Nil
    /\ pushed' = pushed \ {pushing}
    /\ pushPc' = "idle"
    /\ UNCHANGED <<nodeVars, pushing, node, after, walkVars, overtaken>>

LoadFreeNext ==
    /\ pushPc = "next" /\ node # Nil
    /\ after' = nextNode[node]
    /\ pushPc' = "take"
    /\ UNCHANGED <<nodeVars, pushing, pushed, node, walkVars, overtaken>>

(* The compare-and-swap leaves the head it found in old_head. *)
TakeNode ==
    /\ pushPc = "take"
    /\ IF free_list_head = node
       THEN free_list_head' = after /\ pushPc' = "fill" /\ UNCHANGED node
       ELSE node' = free_list_head /\ pushPc' = "next" /\ UNCHANGED free_list_head
    /\ UNCHANGED <<value, nextNode, items_head, pushing, pushed, after, walkVars, overtaken>>

(* The item is stored, and the node linked to the head of the list. *)
FillNode ==
    /\ pushPc = "fill"
    /\ value' = [value EXCEPT ![node] = pushing]
    /\ nextNode' = [nextNode EXCEPT ![node] = items_head]
    /\ pushPc' = "swing"
    /\ UNCHANGED <<free_list_head, items_head, pushing, pushed, node, after, walkVars, overtaken>>

(* Fault: the head of the list is stored, not compared and swapped. *)
SwingHead_Blind ==
    /\ pushPc = "swing"
    /\ items_head' = node
    /\ overtaken' = TRUE
    /\ pushPc' = "idle"
    /\ UNCHANGED <<value, nextNode, free_list_head, pushing, pushed, node, after, walkVars>>

SwingHead ==
    /\ pushPc = "swing"
    /\ IF items_head = nextNode[node]
       THEN items_head' = node /\ overtaken' = TRUE /\ pushPc' = "idle" /\ UNCHANGED nextNode
       ELSE /\ nextNode' = [nextNode EXCEPT ![node] = items_head]
            /\ UNCHANGED <<items_head, overtaken, pushPc>>
    /\ UNCHANGED <<value, free_list_head, pushing, pushed, node, after, walkVars>>

-----------------------------------------------------------------------------
(* The Iterator: begin, current_item and ++.                               *)

BeginWalk ==
    /\ walkPc = "idle"
    /\ current' = items_head
    /\ walkPc' = "visit"
    /\ UNCHANGED <<nodeVars, pushVars, target, previous, following, aside, overtaken>>

(* The caller puts the item aside for removal, or not. *)
VisitItem ==
    /\ walkPc = "visit" /\ current # Nil
    /\ aside' \in {aside, aside \union {value[current]}}
    /\ walkPc' = "step"
    /\ UNCHANGED <<nodeVars, pushVars, target, current, previous, following, overtaken>>

StepIterator ==
    /\ walkPc = "step"
    /\ current' = nextNode[current]
    /\ walkPc' = "visit"
    /\ UNCHANGED <<nodeVars, pushVars, target, previous, following, aside, overtaken>>

EndWalk ==
    /\ walkPc = "visit" /\ current = Nil
    /\ walkPc' = IF aside = {} THEN "idle" ELSE "remove"
    /\ UNCHANGED <<nodeVars, pushVars, target, current, previous, following, aside, overtaken>>

-----------------------------------------------------------------------------
(* remove, with push_to_free_list.                                         *)

(* Fault: the search begins behind the head. *)
BeginRemove_BehindHead(x) ==
    /\ walkPc = "remove"
    /\ x \in aside
    /\ target' = x
    /\ current' = IF items_head = Nil THEN Nil ELSE nextNode[items_head]
    /\ previous' = items_head
    /\ overtaken' = FALSE
    /\ walkPc' = "look"
    /\ UNCHANGED <<nodeVars, pushVars, following, aside>>

BeginRemove(x) ==
    /\ walkPc = "remove"
    /\ x \in aside
    /\ target' = x
    /\ current' = items_head
    /\ previous' = Nil
    /\ overtaken' = FALSE
    /\ walkPc' = "look"
    /\ UNCHANGED <<nodeVars, pushVars, following, aside>>

LookAt ==
    /\ walkPc = "look" /\ current # Nil
    /\ following' = nextNode[current]
    /\ IF value[current] = target
       THEN walkPc' = "cut" /\ UNCHANGED <<current, previous>>
       ELSE current' = nextNode[current] /\ previous' = current /\ UNCHANGED walkPc
    /\ UNCHANGED <<nodeVars, pushVars, target, aside, overtaken>>

(* What leads to the node after p: the head, or p's next. *)
LinkFrom(p) == IF p = Nil THEN items_head ELSE nextNode[p]

(* Fault: the node is cut out without a look at what leads to it now. *)
CutOut_Blind ==
    /\ walkPc = "cut"
    /\ IF previous = Nil
       THEN items_head' = following /\ UNCHANGED nextNode
       ELSE nextNode' = [nextNode EXCEPT ![previous] = following] /\ UNCHANGED items_head
    /\ walkPc' = "free"
    /\ UNCHANGED <<value, free_list_head, pushVars, target, current, previous, following, aside,
                   overtaken>>

CutOut ==
    /\ walkPc = "cut"
    /\ LinkFrom(previous) = current
    /\ IF previous = Nil
       THEN items_head' = following /\ UNCHANGED nextNode
       ELSE nextNode' = [nextNode EXCEPT ![previous] = following] /\ UNCHANGED items_head
    /\ walkPc' = "free"
    /\ UNCHANGED <<value, free_list_head, pushVars, target, current, previous, following, aside,
                   overtaken>>

(* The failed compare-and-swap has put what it found into current, which    *)
(* becomes previous; the search goes on behind the node it was to remove.   *)
CutMissed ==
    /\ walkPc = "cut"
    /\ LinkFrom(previous) # current
    /\ previous' = LinkFrom(previous)
    /\ current' = following
    /\ walkPc' = "look"
    /\ UNCHANGED <<nodeVars, pushVars, target, following, aside, overtaken>>

(* remove returns false: the caller leaves the item in the bag. *)
RemoveFails ==
    /\ walkPc = "look" /\ current = Nil
    /\ aside' = aside \ {target}
    /\ target' = NoItem
    /\ walkPc' = IF aside' = {} THEN "idle" ELSE "remove"
    /\ UNCHANGED <<nodeVars, pushVars, current, previous, following, overtaken>>

LinkFree ==
    /\ walkPc = "free"
    /\ nextNode' = [nextNode EXCEPT ![current] = free_list_head]
    /\ walkPc' = "give"
    /\ UNCHANGED <<value, free_list_head, items_head, pushVars, target, current, previous,
                   following, aside, overtaken>>

GiveNode ==
    /\ walkPc = "give"
    /\ IF free_list_head = nextNode[current]
       THEN /\ free_list_head' = current
            /\ aside' = aside \ {target}
            /\ target' = NoItem
            /\ walkPc' = IF aside' = {} THEN "idle" ELSE "remove"
            /\ UNCHANGED nextNode
       ELSE /\ nextNode' = [nextNode EXCEPT ![current] = free_list_head]
            /\ UNCHANGED <<free_list_head, aside, target, walkPc>>
    /\ UNCHANGED <<value, items_head, pushVars, current, previous, following, overtaken>>

-----------------------------------------------------------------------------
(* try_pop.                                                                *)

BeginPop ==
    /\ walkPc = "idle"
    /\ items_head # Nil
    /\ current' = items_head
    /\ previous' = Nil
    /\ walkPc' = "popnext"
    /\ UNCHANGED <<nodeVars, pushVars, target, following, aside, overtaken>>

LoadNext ==
    /\ walkPc = "popnext"
    /\ following' = nextNode[current]
    /\ walkPc' = "pop"
    /\ UNCHANGED <<nodeVars, pushVars, target, current, previous, aside, overtaken>>

PopHead ==
    /\ walkPc = "pop"
    /\ IF items_head = current
       THEN items_head' = following /\ walkPc' = "free" /\ UNCHANGED current
       ELSE current' = items_head /\ walkPc' = "popnext" /\ UNCHANGED items_head
    /\ UNCHANGED <<value, nextNode, free_list_head, pushVars, target, previous, following, aside,
                   overtaken>>

-----------------------------------------------------------------------------
Pusher ==
    \/ \E x \in Items : Push(x)
    \/ PushFails \/ LoadFreeNext \/ TakeNode \/ FillNode \/ SwingHead

Walker ==
    \/ BeginWalk \/ VisitItem \/ StepIterator \/ EndWalk
    \/ \E x \in Items : BeginRemove(x)
    \/ LookAt \/ CutOut \/ CutMissed \/ RemoveFails \/ LinkFree \/ GiveNode
    \/ BeginPop \/ LoadNext \/ PopHead

BagNext == Pusher \/ Walker

-----------------------------------------------------------------------------
(* The nodes that lead on from node n. *)
Chain(n) ==
    LET upTo[k \in 0..Capacity] ==
            IF k = 0 THEN {n} ELSE upTo[k - 1] \union {nextNode[m] : m \in upTo[k - 1] \ {Nil}}
    IN  upTo[Capacity] \ {Nil}

ItemsFrom(n) == {value[m] : m \in Chain(n)}

(* The nodes a thread has taken off one list and not yet put on the other. *)
PushHolds == IF pushPc \in {"fill", "swing"} THEN {node} ELSE {}
WalkHolds == IF walkPc \in {"free", "give"} THEN {current} ELSE {}

BagContents == ItemsFrom(items_head)

LeftToVisit ==
    IF walkPc = "visit" THEN ItemsFrom(current)
    ELSE IF walkPc = "step" THEN ItemsFrom(nextNode[current])
    ELSE {}

(* A node is on the list of items, on the free list, or in the hand of one  *)
(* thread, and never in two of these places: none is lost, so the bag can   *)
(* always hold Capacity items, and none is pushed twice.                    *)
NodesAreConserved ==
    LET places == <<Chain(items_head), Chain(free_list_head), PushHolds, WalkHolds>>
    IN  \A n \in Nodes :
            \E k \in 1..4 : n \in places[k] /\ \A j \in (1..4) \ {k} : n \notin places[j]

(* remove answers false for an item that is in the bag in one case only: a  *)
(* push came between its look at the head and its compare-and-swap, and the *)
(* search went on behind the node.  The subscription then stays until the   *)
(* removal of the next publication.                                         *)
RemovalMissesOnlyByPush ==
    walkPc = "look" /\ current = Nil /\ target \in BagContents => overtaken

=============================================================================
