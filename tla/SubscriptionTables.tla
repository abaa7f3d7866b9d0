--------------------------- MODULE SubscriptionTables ---------------------------
(***************************************************************************)
(* The two lock-free tables of a TopicService: _subscribers, a bag, and     *)
(* _idPool.  They share nothing, so a behaviour is one of the bag or one of *)
(* the pool, as part says.                                                  *)
(***************************************************************************)
EXTENDS ConcurrentBag, IdPool

VARIABLE part

vars == <<bagVars, poolVars, part>>

Init ==
    /\ part \in {"bag", "pool"}
    /\ BagInit
    /\ PoolInit
    /\ part = "bag" => kept = {}

Next ==
    /\ \/ part = "bag" /\ BagNext /\ UNCHANGED poolVars
       \/ part = "pool" /\ PoolNext /\ UNCHANGED bagVars
    /\ UNCHANGED part

Spec == Init /\ [][Next]_vars

Sets == INSTANCE SharedSets WITH
    items <- BagContents, todo <- LeftToVisit, out <- Ids \ FreeIds

(* The two tables do what Topic takes them to do: a push, a removal, a rent *)
(* and a return each take effect at one compare-and-swap, and a walk visits *)
(* what was in the bag at its beginning, whatever is pushed meanwhile.      *)
ImplementsSets == Sets!Spec

=================================================================================
