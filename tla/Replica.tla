-------------------------------- MODULE Replica --------------------------------
(***************************************************************************)
(* What replication promises of the copy of a topic: it holds messages that *)
(* were published, whole; some of them, as the transport says, come once    *)
(* each, and in the order of their publication until that order is lost.    *)
(* Messages may be missing.                                                 *)
(***************************************************************************)
EXTENDS Naturals, Sequences

VARIABLES
    published,       \* messages are numbered from 1
    copied,          \* the numbers of the messages in the copy
    once,            \* the messages that come once at most
    inOrder          \* and those among them come in order

vars == <<published, copied, once, inOrder>>

Init ==
    /\ published = 0
    /\ copied = <<>>
    /\ inOrder = TRUE

Publish ==
    /\ published' = published + 1
    /\ UNCHANGED <<copied, once, inOrder>>

Copy(m) ==
    /\ m <= published
    /\ m \in once => \A i \in DOMAIN copied :
                         /\ copied[i] # m
                         /\ inOrder /\ copied[i] \in once => copied[i] < m
    /\ copied' = Append(copied, m)
    /\ UNCHANGED <<published, once, inOrder>>

LoseOrder ==
    /\ inOrder' = FALSE
    /\ UNCHANGED <<published, copied, once>>

Next == Publish \/ LoseOrder \/ \E m \in 1..published : Copy(m)

Spec == Init /\ [][Next]_vars

=================================================================================
