----------------------------- MODULE RuleCases ------------------------------
(***************************************************************************)
(* The rules of OperationRules over every request of a bounded universe    *)
(* and the whole life of the transaction it names: absent, then pending or *)
(* settled, then perhaps reversed by somebody else.                        *)
(***************************************************************************)
EXTENDS OperationRules

CONSTANTS
    Players, Rounds,  \* identities a request and its reference may differ in
    Amounts           \* amounts, with zero

VARIABLES
    request,    \* the payload under evaluation
    other,      \* the payload of the transaction its reference resolves to
    status,     \* that transaction's status, None while it is not stored
    reversed    \* another successful reversal of it exists

vars == <<request, other, status, reversed>>

PayloadsWith(ext, refs) ==
    [provider : {"p"}, ext : {ext}, player : Players, wallet : {"w"}, round : Rounds,
     kind : ExternalKinds, currency : {"BRL"}, amount : Amounts, ref : refs]

Wellformed(p) == Evaluate(p, None, FALSE).action # "INVALID"

\* A stored transaction was itself accepted: its payload is well formed.
Init ==
    /\ request \in PayloadsWith("a", {None, "b"})
    /\ other \in {p \in PayloadsWith("b", {None, "c"}) : Wellformed(p)}
    /\ status = None
    /\ reversed = FALSE

\* isAllowedTransition on the stored reference, PENDING being never stored.
Store ==
    /\ status = None
    /\ \/ other.ref # None /\ status' = "PENDING_REFERENCE"
       \/ status' = "PROCESSED"
       \/ (other.kind = "BET" \/ other.ref # None) /\ status' = "REJECTED"
    /\ UNCHANGED <<request, other, reversed>>

Resume ==
    /\ status = "PENDING_REFERENCE"
    /\ status' \in {"PROCESSED", "REJECTED", "FAILED"}
    /\ UNCHANGED <<request, other, reversed>>

Reverse ==
    /\ status = "PROCESSED"
    /\ ~reversed
    /\ other.kind \in {"BET", "WIN", "REFUND"}
    /\ reversed' = TRUE
    /\ UNCHANGED <<request, other, status>>

Next == Store \/ Resume \/ Reverse

Spec == Init /\ [][Next]_vars

-----------------------------------------------------------------------------
Reference == IF status = None THEN None
             ELSE [payload |-> other, key |-> "k", status |-> status]

Outcome == Evaluate(request, Reference, reversed)

Codes ==
    {"KIND_NOT_ALLOWED", "INVALID_AMOUNT_FOR_KIND", "REFERENCE_REQUIRED",
     "REFERENCE_NOT_ALLOWED", "REFERENCE_NOT_FOUND", "REFERENCE_NOT_PROCESSED",
     "REFERENCE_MISMATCH", "REFERENCE_KIND_NOT_REVERSIBLE", "REFERENCE_AMOUNT_MISMATCH",
     "REFERENCE_ALREADY_REVERSED", "INSUFFICIENT_FUNDS", "REVERSAL_INSUFFICIENT_FUNDS",
     "PERMANENT_PROCESSING_FAILURE"}

\* Amounts are in cents; the absent value is no string and no transaction.
ASSUME CasesAssumption ==
    /\ Amounts \subseteq Nat
    /\ None \notin Codes \cup Statuses \cup {"a", "b", "c"}
    /\ None \notin [payload : PayloadsWith("b", {None, "c"}), key : {"k"}, status : Statuses]

\* The direction in which a PROCESSED transaction moved money.
MovedBy(p) ==
    CASE p.kind \in {"WIN", "REFUND"} -> "CREDIT"
      [] p.kind = "BET"               -> "DEBIT"
      [] OTHER                        -> "NONE"

\* A processed reversal undoes its reference: it moves exactly the money the
\* reference moved, the other way, within one player and round, and only a
\* transaction that moved money and still stands can be undone.  A processed
\* LOSS never moves money, and every other kind does.
ReversalUndoesReference ==
    Outcome.action = "PROCESS" =>
        /\ (Outcome.direction = "NONE") = (request.kind = "LOSS")
        /\ IsReversal(request.kind) =>
              /\ status = "PROCESSED" /\ ~reversed
              /\ {Outcome.direction, MovedBy(other)} = {"DEBIT", "CREDIT"}
              /\ request.amount = other.amount
              /\ request.player = other.player /\ request.round = other.round

\* An operation decides once: as its reference moves on, a decision other than
\* waiting never changes, except that a reversal still to be applied is lost to
\* another reversal of the same reference.  What Prepare refuses stays refused.
DecisionIsFinal ==
    [][Outcome.action # "WAIT" =>
          \/ Outcome' = Outcome
          \/ /\ reversed' # reversed
             /\ IsReversal(request.kind)
             /\ Outcome.action = "PROCESS"
             /\ Outcome' = Rejection("REFERENCE_ALREADY_REVERSED")]_vars
=============================================================================
