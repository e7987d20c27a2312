----------------------------- MODULE PendingLife -----------------------------
(***************************************************************************)
(* What the API promises of an operation accepted with 202: it waits for   *)
(* its reference and ends once.  It is PROCESSED only with a reference     *)
(* that was PROCESSED before it, FAILED only when its reference cannot be  *)
(* read, and once ended it never changes.  Who works on it, how often, and *)
(* what happens to them is not said here.                                  *)
(***************************************************************************)
CONSTANTS Operations, None

VARIABLES
    outcome,    \* status of each operation, None before it is accepted
    reference   \* status of its reference, "ABSENT" before that is stored

vars == <<outcome, reference>>

MayProgress == {"ABSENT", "PENDING_REFERENCE"}

Init ==
    /\ outcome = [o \in Operations |-> None]
    /\ reference \in [Operations -> MayProgress \cup
                                    {"PROCESSED", "REJECTED", "FAILED", "UNREADABLE"}]

Accept(o) ==
    /\ outcome[o] = None
    /\ reference[o] \in MayProgress
    /\ outcome' = [outcome EXCEPT ![o] = "PENDING_REFERENCE"]

End(o, status) ==
    /\ outcome[o] = "PENDING_REFERENCE"
    /\ outcome' = [outcome EXCEPT ![o] = status]

Process(o) == reference[o] = "PROCESSED" /\ End(o, "PROCESSED")

\* For a reference that will not do, or that was waited for long enough.
Reject(o) == reference[o] # "UNREADABLE" /\ End(o, "REJECTED")

Fail(o) == reference[o] = "UNREADABLE" /\ End(o, "FAILED")

\* A reference that is decided stays as it is.  It may be an operation of this
\* module, whose end is then the progress of another's reference.
Progress == \A o \in Operations : reference[o] \in MayProgress \/ reference'[o] = reference[o]

Next ==
    /\ Progress
    /\ \/ UNCHANGED outcome
       \/ \E o \in Operations : Accept(o) \/ Process(o) \/ Reject(o) \/ Fail(o)

Spec == Init /\ [][Next]_vars
=============================================================================
