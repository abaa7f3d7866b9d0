------------------------------- MODULE SharedSets -------------------------------
(***************************************************************************)
(* What the lock-free tables of a topic promise to the two threads that     *)
(* share them: the subscriptions are a set that one thread adds to while    *)
(* the other walks over it and takes from it, the ids a set that one thread *)
(* takes from and the other gives back to.  Topic is written in these terms.*)
(***************************************************************************)
EXTENDS Naturals

CONSTANTS Items, Ids

VARIABLES
    items,           \* the items in the bag
    todo,            \* those the walk under way has yet to visit
    out              \* the ids that are rented

vars == <<items, todo, out>>

Init ==
    /\ items = {}
    /\ todo = {}
    /\ out \subseteq Ids

Push(x) ==
    /\ x \notin items
    /\ items' = items \union {x}
    /\ UNCHANGED <<todo, out>>

(* A walk visits what is in the bag when it begins, and each item once. *)
BeginWalk ==
    /\ todo = {}
    /\ todo' = items
    /\ UNCHANGED <<items, out>>

Visit(x) ==
    /\ x \in todo
    /\ todo' = todo \ {x}
    /\ UNCHANGED <<items, out>>

Remove(x) ==
    /\ x \in items
    /\ todo = {}
    /\ items' = items \ {x}
    /\ UNCHANGED <<todo, out>>

Rent(i) ==
    /\ i \notin out
    /\ out' = out \union {i}
    /\ UNCHANGED <<items, todo>>

Return(i) ==
    /\ i \in out
    /\ out' = out \ {i}
    /\ UNCHANGED <<items, todo>>

Next ==
    \/ \E x \in Items : Push(x) \/ Visit(x) \/ Remove(x)
    \/ BeginWalk
    \/ \E i \in Ids : Rent(i) \/ Return(i)

Spec == Init /\ [][Next]_vars

=================================================================================
