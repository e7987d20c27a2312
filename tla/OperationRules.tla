--------------------------- MODULE OperationRules ---------------------------
(***************************************************************************)
(* The pure domain rules of internal/domain/operation: the policy of every *)
(* wager kind, the decision taken for an operation and its resolved        *)
(* reference, and the classification of a repeated submission.             *)
(*                                                                         *)
(* An operation is [key, payload].  The payload holds the fields that      *)
(* PayloadHash covers; the game identifier, which nothing but the hash     *)
(* reads, is left out.  A stored transaction is any record with at least   *)
(* the fields payload, key and status.                                     *)
(***************************************************************************)
EXTENDS Integers

CONSTANT None  \* the nil pointer, the SQL NULL and the absent row

ExternalKinds == {"BET", "WIN", "LOSS", "REFUND", "ROLLBACK"}
Kinds         == ExternalKinds \cup {"OPENING"}
Statuses      == {"PENDING_REFERENCE", "PROCESSED", "REJECTED", "FAILED"}
Directions    == {"DEBIT", "CREDIT", "NONE"}

Decision(action, direction, code) ==
    [action |-> action, direction |-> direction, code |-> code]

Rejection(code) == Decision("REJECT", "NONE", code)
Invalid(code)   == Decision("INVALID", "NONE", code)
WaitForReference == Decision("WAIT", "NONE", None)

KindRule(direction, reference, amount, reversal, referenceKinds) ==
    [direction |-> direction, reference |-> reference, amount |-> amount,
     reversal |-> reversal, referenceKinds |-> referenceKinds]

KindRules ==
    [BET      |-> KindRule("DEBIT",  "forbidden", "positive", FALSE, {}),
     WIN      |-> KindRule("CREDIT", "optional",  "positive", FALSE, {"BET"}),
     LOSS     |-> KindRule("NONE",   "forbidden", "zero",     FALSE, {}),
     REFUND   |-> KindRule("CREDIT", "required",  "positive", TRUE,  {"BET"}),
     ROLLBACK |-> KindRule("NONE",   "required",  "positive", TRUE,
                           {"BET", "WIN", "REFUND"})]

IsReversal(kind) == kind \in {"REFUND", "ROLLBACK"}

\* Mutant: a ROLLBACK debits whatever it rolls back.
RollbackAlwaysDebits(kind, reference) ==
    Decision("PROCESS", IF kind = "ROLLBACK" THEN "DEBIT" ELSE KindRules[kind].direction, None)

\* A ROLLBACK has no direction of its own: it moves money against its reference.
MovementDecision(kind, reference) ==
    LET direction ==
          IF kind # "ROLLBACK" THEN KindRules[kind].direction
          ELSE IF reference # None /\ reference.payload.kind = "BET"
               THEN "CREDIT" ELSE "DEBIT"
    IN  Decision("PROCESS", direction, None)

\* The error of validateRequest, None when the request is well formed.
ValidateRequest(p) ==
    IF p.kind = "OPENING" THEN "KIND_NOT_ALLOWED"
    ELSE IF \/ KindRules[p.kind].amount = "zero" /\ p.amount # 0
            \/ KindRules[p.kind].amount = "positive" /\ p.amount <= 0
         THEN "INVALID_AMOUNT_FOR_KIND"
         ELSE None

\* Mutant: the identity of the reference is not compared with the request.
ValidateKindAndAmountOnly(p, reference) ==
    IF reference.payload.kind \notin KindRules[p.kind].referenceKinds
    THEN "REFERENCE_KIND_NOT_REVERSIBLE"
    ELSE IF KindRules[p.kind].reversal /\ p.amount # reference.payload.amount
    THEN "REFERENCE_AMOUNT_MISMATCH" ELSE None

\* The error of validateReference for a PROCESSED reference, None when it fits.
ValidateReference(p, reference) ==
    LET q == reference.payload IN
    IF \/ p.provider # q.provider
       \/ p.player # q.player
       \/ p.wallet # q.wallet
       \/ p.round # q.round
       \/ p.currency # q.currency
    THEN "REFERENCE_MISMATCH"
    ELSE IF q.kind \notin KindRules[p.kind].referenceKinds
    THEN "REFERENCE_KIND_NOT_REVERSIBLE"
    ELSE IF KindRules[p.kind].reversal /\ p.amount # q.amount
    THEN "REFERENCE_AMOUNT_MISMATCH"
    ELSE None

\* Mutant: only a missing reference is waited for.
WaitOnlyIfMissing(reference) == reference = None

\* The reference may still become PROCESSED.  (PENDING is never stored.)
MustWait(reference) ==
    \/ reference = None
    \/ reference.status = "PENDING_REFERENCE"

Evaluate(p, reference, alreadyReversed) ==
    IF ValidateRequest(p) # None THEN Invalid(ValidateRequest(p))
    ELSE IF p.ref = None
    THEN IF KindRules[p.kind].reference = "required"
         THEN Invalid("REFERENCE_REQUIRED")
         ELSE MovementDecision(p.kind, None)
    ELSE IF KindRules[p.kind].reference = "forbidden"
    THEN Invalid("REFERENCE_NOT_ALLOWED")
    ELSE IF MustWait(reference) THEN WaitForReference
    ELSE IF reference.status \in {"REJECTED", "FAILED"}
    THEN Rejection("REFERENCE_NOT_PROCESSED")
    ELSE IF ValidateReference(p, reference) # None
    THEN Rejection(ValidateReference(p, reference))
    ELSE IF KindRules[p.kind].reversal /\ alreadyReversed
    THEN Rejection("REFERENCE_ALREADY_REVERSED")
    ELSE MovementDecision(p.kind, reference)

\* What the domain says of a pending operation at its retry or TTL limit.
ExpirePendingReference(p, reference, alreadyReversed) ==
    IF reference = None THEN Rejection("REFERENCE_NOT_FOUND")
    ELSE IF reference.status # "PROCESSED"
    THEN Rejection("REFERENCE_NOT_PROCESSED")
    ELSE Evaluate(p, reference, alreadyReversed)

InsufficientFundsFor(kind) ==
    IF KindRules[kind].reversal
    THEN "REVERSAL_INSUFFICIENT_FUNDS" ELSE "INSUFFICIENT_FUNDS"

\* SHA-256 over the canonical JSON of every business field: injective.
PayloadHash(p) == p

\* Mutant: the external identifier is not looked at.
ClassifyByKeyOnly(op, byKey, byExternal) ==
    IF byKey = None THEN [kind |-> "NEW", code |-> None]
    ELSE IF PayloadHash(byKey.payload) = PayloadHash(op.payload)
    THEN [kind |-> "REPLAY", code |-> None]
    ELSE [kind |-> "CONFLICT", code |-> "IDEMPOTENCY_KEY_REUSED"]

\* REPLAY, CONFLICT with its code, or NEW.
ClassifyAttempt(op, byKey, byExternal) ==
    IF byKey # None
    THEN IF PayloadHash(byKey.payload) = PayloadHash(op.payload)
         THEN [kind |-> "REPLAY", code |-> None]
         ELSE [kind |-> "CONFLICT", code |-> "IDEMPOTENCY_KEY_REUSED"]
    ELSE IF byExternal # None
    THEN IF byExternal.key # op.key
         THEN [kind |-> "CONFLICT", code |-> "EXTERNAL_TRANSACTION_ID_CONFLICT"]
         ELSE [kind |-> "NEW", code |-> None]
    ELSE [kind |-> "NEW", code |-> None]

=============================================================================
