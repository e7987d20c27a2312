--------------------------- MODULE EventDelivery ----------------------------
(***************************************************************************)
(* What the outbox promises the readers of wallet-events.fifo: an event    *)
(* reaches the queue only after the business transaction that produced it  *)
(* committed, and it is confirmed as published only after it reached the   *)
(* queue.  How often it is sent is not promised: readers deduplicate.      *)
(***************************************************************************)
CONSTANT Events

VARIABLES
    committed,  \* events whose transaction committed
    delivered,  \* events the queue accepted at least once
    confirmed   \* events with published_at set

vars == <<committed, delivered, confirmed>>

Init == committed = {} /\ delivered = {} /\ confirmed = {}

CommitEvent(e) ==
    /\ e \notin committed
    /\ committed' = committed \cup {e}
    /\ UNCHANGED <<delivered, confirmed>>

Deliver(e) ==
    /\ e \in committed
    /\ delivered' = delivered \cup {e}
    /\ UNCHANGED <<committed, confirmed>>

Confirm(e) ==
    /\ e \in delivered
    /\ confirmed' = confirmed \cup {e}
    /\ UNCHANGED <<committed, delivered>>

Next == \E e \in Events : CommitEvent(e) \/ Deliver(e) \/ Confirm(e)

Spec == Init /\ [][Next]_vars
=============================================================================
