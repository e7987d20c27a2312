------------------------- MODULE SequentialCoreProofs ------------------------
(***************************************************************************)
(* The parts that no concurrency touches.  For any players, rounds,        *)
(* amounts and balances: the rules undo what they reverse and decide once, *)
(* and a transaction that they admit is admitted, read back and answered   *)
(* by every other layer.  For Money and Backoff at every width: what the   *)
(* guards let through is exact, and they stop nothing that the integer     *)
(* type could have held.                                                   *)
(*                                                                         *)
(* The record's invariant is RecordInv.  Its heart is Fits: a stored row   *)
(* is the image of its aggregate, which is valid, and the columns that     *)
(* depend on the status are there exactly when it asks for them.  Waiting  *)
(* rows need more (PendingOK): the aggregate a resume starts from is       *)
(* rebuilt from the row, so the row has to be the request's own.           *)
(***************************************************************************)
EXTENDS TransactionRecord, Money, Backoff, TLAPS

\* Type invariant of the rules.
CasesOK ==
    /\ request \in PayloadsWith("a", {None, "b"})
    /\ other \in PayloadsWith("b", {None, "c"})
    /\ status \in Statuses \cup {None}
    /\ reversed \in BOOLEAN

-----------------------------------------------------------------------------
(* The rules.                                                              *)

\* The policy of each kind.
LEMMA Policies ==
    /\ KindRules["BET"] = KindRule("DEBIT", "forbidden", "positive", FALSE, {})
    /\ KindRules["WIN"] = KindRule("CREDIT", "optional", "positive", FALSE, {"BET"})
    /\ KindRules["LOSS"] = KindRule("NONE", "forbidden", "zero", FALSE, {})
    /\ KindRules["REFUND"] = KindRule("CREDIT", "required", "positive", TRUE, {"BET"})
    /\ KindRules["ROLLBACK"] =
          KindRule("NONE", "required", "positive", TRUE, {"BET", "WIN", "REFUND"})
BY DEF KindRules

LEMMA ReversalPolicy ==
    ASSUME NEW k \in ExternalKinds
    PROVE  KindRules[k].reversal <=> k \in {"REFUND", "ROLLBACK"}
BY Policies DEF ExternalKinds, KindRule

LEMMA RequestType ==
    ASSUME CasesOK
    PROVE  /\ request.kind \in ExternalKinds /\ request.amount \in Nat
           /\ request.ref \in {None, "b"} /\ request.ext = "a"
           /\ request.provider = "p" /\ request.wallet = "w" /\ request.currency = "BRL"
BY CasesAssumption DEF CasesOK, PayloadsWith

LEMMA OtherType ==
    ASSUME CasesOK
    PROVE  /\ other.kind \in ExternalKinds /\ other.amount \in Nat
           /\ other.ref \in {None, "c"}
           /\ other.provider = "p" /\ other.wallet = "w" /\ other.currency = "BRL"
BY CasesAssumption DEF CasesOK, PayloadsWith

\* FindReference: nothing, or the stored transaction.
LEMMA ReferenceType ==
    ASSUME CasesOK
    PROVE  /\ Reference = None <=> status = None
           /\ status # None => Reference.payload = other /\ Reference.status = status
BY CasesAssumption DEF CasesOK, Reference

\* The request is refused whatever its reference is.
Refusal(p) ==
    IF ValidateRequest(p) # None THEN Invalid(ValidateRequest(p))
    ELSE IF p.ref = None THEN Invalid("REFERENCE_REQUIRED")
    ELSE Invalid("REFERENCE_NOT_ALLOWED")

Misplaced(p) == IF p.ref = None THEN KindRules[p.kind].reference = "required"
                ELSE KindRules[p.kind].reference = "forbidden"

Refused(p) == ValidateRequest(p) # None \/ Misplaced(p)

LEMMA RefusedOutcome ==
    ASSUME NEW p, NEW r, NEW b, Refused(p)
    PROVE  Evaluate(p, r, b) = Refusal(p) /\ Evaluate(p, r, b).action = "INVALID"
BY DEF Refused, Misplaced, Refusal, Evaluate, Invalid, Decision

\* Prepare's verdict does not depend on the reference.
LEMMA WellformedMeans ==
    ASSUME CasesOK
    PROVE  Wellformed(request) <=> ~Refused(request)
<1>1. CASE Refused(request)
  BY <1>1, RefusedOutcome DEF Wellformed
<1>2. CASE ~Refused(request)
  <2>1. CASE request.ref = None
    BY <1>2, <2>1 DEF Refused, Misplaced, Wellformed, Evaluate, MovementDecision, Decision
  <2>2. CASE request.ref # None
    BY <1>2, <2>2 DEF Refused, Misplaced, Wellformed, Evaluate, MustWait, WaitForReference, Decision
  <2> QED
    BY <2>1, <2>2
<1> QED
  BY <1>1, <1>2

LEMMA WellformedKinds ==
    ASSUME CasesOK, Wellformed(request)
    PROVE  /\ request.ref = None => request.kind \in {"BET", "WIN", "LOSS"}
           /\ request.ref # None => request.kind \in {"WIN", "REFUND", "ROLLBACK"}
           /\ IF request.kind = "LOSS" THEN request.amount = 0 ELSE request.amount > 0
<1>1. ~Refused(request) /\ request.kind \in ExternalKinds /\ request.amount \in Nat
  BY WellformedMeans, RequestType
<1>2. ValidateRequest(request) = None
  BY <1>1 DEF Refused
<1>3. "INVALID_AMOUNT_FOR_KIND" # None
  BY CasesAssumption DEF Codes
<1>4. IF request.kind = "LOSS" THEN request.amount = 0 ELSE request.amount > 0
  BY <1>1, <1>2, <1>3, Policies DEF ValidateRequest, ExternalKinds, KindRule
<1>5. ~Misplaced(request)
  BY <1>1 DEF Refused
<1>6. /\ request.ref = None => request.kind \in {"BET", "WIN", "LOSS"}
      /\ request.ref # None => request.kind \in {"WIN", "REFUND", "ROLLBACK"}
  BY <1>1, <1>5, Policies DEF Misplaced, ExternalKinds, KindRule
<1> QED
  BY <1>4, <1>6

LEMMA OutcomeAlone ==
    ASSUME CasesOK, Wellformed(request), request.ref = None
    PROVE  Outcome = MovementDecision(request.kind, None)
BY WellformedMeans DEF Outcome, Evaluate, Refused, Misplaced

LEMMA OutcomeReferenced ==
    ASSUME CasesOK, Wellformed(request), request.ref # None
    PROVE  /\ status \in {None, "PENDING_REFERENCE"} => Outcome = WaitForReference
           /\ status \in {"REJECTED", "FAILED"} => Outcome = Rejection("REFERENCE_NOT_PROCESSED")
           /\ status = "PROCESSED" =>
                 Outcome = IF ValidateReference(request, Reference) # None
                           THEN Rejection(ValidateReference(request, Reference))
                           ELSE IF KindRules[request.kind].reversal /\ reversed
                           THEN Rejection("REFERENCE_ALREADY_REVERSED")
                           ELSE MovementDecision(request.kind, Reference)
<1>1. ~Refused(request)
  BY WellformedMeans
<1>2. Outcome = IF MustWait(Reference) THEN WaitForReference
                ELSE IF Reference.status \in {"REJECTED", "FAILED"}
                THEN Rejection("REFERENCE_NOT_PROCESSED")
                ELSE IF ValidateReference(request, Reference) # None
                THEN Rejection(ValidateReference(request, Reference))
                ELSE IF KindRules[request.kind].reversal /\ reversed
                THEN Rejection("REFERENCE_ALREADY_REVERSED")
                ELSE MovementDecision(request.kind, Reference)
  BY <1>1 DEF Outcome, Evaluate, Refused, Misplaced
<1>3. "PENDING_REFERENCE" # None /\ "PROCESSED" # None /\ "REJECTED" # None /\ "FAILED" # None
  BY CasesAssumption DEF Statuses
<1>4. CASE status \in {None, "PENDING_REFERENCE"}
  BY <1>2, <1>3, <1>4, ReferenceType DEF MustWait
<1>5. CASE status \in {"REJECTED", "FAILED"}
  BY <1>2, <1>3, <1>5, ReferenceType DEF MustWait
<1>6. CASE status = "PROCESSED"
  BY <1>2, <1>3, <1>6, ReferenceType DEF MustWait
<1> QED
  BY <1>3, <1>4, <1>5, <1>6

\* The codes of validateReference.
LEMMA ReferenceErrors ==
    ASSUME NEW p, NEW r
    PROVE  ValidateReference(p, r) \in {None, "REFERENCE_MISMATCH",
               "REFERENCE_KIND_NOT_REVERSIBLE", "REFERENCE_AMOUNT_MISMATCH"}
BY DEF ValidateReference

\* A reference that fits is of the same player and round, of a kind that the
\* request may refer to, and has the amount of a reversal.
LEMMA ReferenceFits ==
    ASSUME CasesOK, status # None, ValidateReference(request, Reference) = None
    PROVE  /\ request.player = other.player /\ request.round = other.round
           /\ other.kind \in KindRules[request.kind].referenceKinds
           /\ KindRules[request.kind].reversal => request.amount = other.amount
<1>1. Reference.payload = other
  BY ReferenceType
<1>2. /\ "REFERENCE_MISMATCH" # None /\ "REFERENCE_KIND_NOT_REVERSIBLE" # None
      /\ "REFERENCE_AMOUNT_MISMATCH" # None
  BY CasesAssumption DEF Codes
<1> QED
  BY <1>1, <1>2 DEF ValidateReference

LEMMA MovementIs ==
    ASSUME NEW k, NEW r
    PROVE  /\ MovementDecision(k, r).action = "PROCESS"
           /\ MovementDecision(k, r).code = None
           /\ k # "ROLLBACK" => MovementDecision(k, r).direction = KindRules[k].direction
           /\ k = "ROLLBACK" => MovementDecision(k, r).direction =
                 IF r # None /\ r.payload.kind = "BET" THEN "CREDIT" ELSE "DEBIT"
BY DEF MovementDecision, Decision

\* What lies behind a decision to process.
LEMMA ProcessMeans ==
    ASSUME CasesOK, Outcome.action = "PROCESS"
    PROVE  /\ Wellformed(request)
           /\ request.ref = None => Outcome = MovementDecision(request.kind, None)
           /\ request.ref # None =>
                 /\ status = "PROCESSED"
                 /\ ValidateReference(request, Reference) = None
                 /\ ~(KindRules[request.kind].reversal /\ reversed)
                 /\ Outcome = MovementDecision(request.kind, Reference)
<1>1. Wellformed(request)
  <2>1. CASE Refused(request)
    BY <2>1, RefusedOutcome DEF Outcome
  <2> QED
    BY <2>1, WellformedMeans
<1>2. WaitForReference.action = "WAIT" /\ \A c : Rejection(c).action = "REJECT"
  BY DEF WaitForReference, Rejection, Decision
<1>3. ASSUME request.ref # None
      PROVE  /\ status = "PROCESSED"
             /\ ValidateReference(request, Reference) = None
             /\ ~(KindRules[request.kind].reversal /\ reversed)
             /\ Outcome = MovementDecision(request.kind, Reference)
  <2>1. status = "PROCESSED"
    BY <1>1, <1>2, <1>3, OutcomeReferenced DEF CasesOK, Statuses
  <2> QED
    BY <1>1, <1>2, <1>3, <2>1, OutcomeReferenced
<1> QED
  BY <1>1, <1>3, OutcomeAlone

LEMMA ReversalHolds == CasesOK => ReversalUndoesReference
<1> SUFFICES ASSUME CasesOK, Outcome.action = "PROCESS"
             PROVE  /\ (Outcome.direction = "NONE") = (request.kind = "LOSS")
                    /\ IsReversal(request.kind) =>
                          /\ status = "PROCESSED" /\ ~reversed
                          /\ {Outcome.direction, MovedBy(other)} = {"DEBIT", "CREDIT"}
                          /\ request.amount = other.amount
                          /\ request.player = other.player /\ request.round = other.round
  BY DEF ReversalUndoesReference
<1>1. /\ request.ref = None => request.kind \in {"BET", "WIN", "LOSS"}
      /\ request.ref # None => request.kind \in {"WIN", "REFUND", "ROLLBACK"}
  BY ProcessMeans, WellformedKinds
<1>2. request.kind # "ROLLBACK" => Outcome.direction = KindRules[request.kind].direction
  BY ProcessMeans, MovementIs
<1>3. request.kind = "ROLLBACK" => Outcome.direction \in {"CREDIT", "DEBIT"}
  BY ProcessMeans, MovementIs
<1>4. Outcome.direction = "NONE" <=> request.kind = "LOSS"
  BY <1>1, <1>2, <1>3, Policies DEF KindRule
<1>5. ASSUME IsReversal(request.kind)
      PROVE  /\ status = "PROCESSED" /\ ~reversed
             /\ {Outcome.direction, MovedBy(other)} = {"DEBIT", "CREDIT"}
             /\ request.amount = other.amount
             /\ request.player = other.player /\ request.round = other.round
  <2>1. request.ref # None /\ request.kind \in {"REFUND", "ROLLBACK"}
    BY <1>1, <1>5 DEF IsReversal
  <2>2. KindRules[request.kind].reversal
    BY <2>1, ReversalPolicy DEF ExternalKinds
  <2>3. /\ status = "PROCESSED" /\ ~reversed
        /\ ValidateReference(request, Reference) = None
        /\ Outcome = MovementDecision(request.kind, Reference)
    BY <2>1, <2>2, ProcessMeans
  <2>4. status # None /\ Reference # None /\ Reference.payload = other
    BY <2>3, ReferenceType, CasesAssumption DEF Statuses
  <2>5. /\ request.player = other.player /\ request.round = other.round
        /\ other.kind \in KindRules[request.kind].referenceKinds
        /\ request.amount = other.amount
    BY <2>2, <2>3, <2>4, ReferenceFits
  <2>6. CASE request.kind = "REFUND"
    <3>1. other.kind = "BET" /\ Outcome.direction = "CREDIT"
      BY <1>2, <2>5, <2>6, Policies DEF KindRule
    <3>2. MovedBy(other) = "DEBIT"
      BY <3>1 DEF MovedBy
    <3> QED
      BY <2>3, <2>5, <3>1, <3>2
  <2>7. CASE request.kind = "ROLLBACK"
    <3>1. other.kind \in {"BET", "WIN", "REFUND"}
      BY <2>5, <2>7, Policies DEF KindRule
    <3>2. Outcome.direction = IF other.kind = "BET" THEN "CREDIT" ELSE "DEBIT"
      BY <2>3, <2>4, <2>7, MovementIs
    <3>3. MovedBy(other) = IF other.kind = "BET" THEN "DEBIT" ELSE "CREDIT"
      BY <3>1 DEF MovedBy
    <3> QED
      BY <2>3, <2>5, <3>2, <3>3
  <2> QED
    BY <2>1, <2>6, <2>7
<1> QED
  BY <1>4, <1>5

LEMMA CasesInit == Init => CasesOK
BY DEF Init, CasesOK

LEMMA CasesStep == CasesOK /\ [Next]_vars => CasesOK'
<1> SUFFICES ASSUME CasesOK, [Next]_vars
             PROVE  CasesOK'
  OBVIOUS
<1>1. UNCHANGED <<request, other>>
  BY DEF Next, Store, Resume, Reverse, vars
<1>2. status' \in Statuses \cup {None}
  BY DEF CasesOK, Next, Store, Resume, Reverse, vars, Statuses
<1>3. reversed' \in BOOLEAN
  BY Zenon DEF CasesOK, Next, Store, Resume, Reverse, vars
<1> QED
  BY <1>1, <1>2, <1>3 DEF CasesOK

\* A processed reversal moves what its reference moved, the other way, for any
\* players, rounds and amounts: Evaluate's PROCESS is an undo.
THEOREM ReversalsUndo == Spec => []ReversalUndoesReference
BY CasesInit, CasesStep, ReversalHolds, PTL DEF Spec

\* Evaluate on a well formed request with a reference.
LEMMA EvaluateReferenced ==
    ASSUME NEW p, NEW r, NEW b, ~Refused(p), p.ref # None
    PROVE  Evaluate(p, r, b) =
               IF MustWait(r) THEN WaitForReference
               ELSE IF r.status \in {"REJECTED", "FAILED"}
               THEN Rejection("REFERENCE_NOT_PROCESSED")
               ELSE IF ValidateReference(p, r) # None
               THEN Rejection(ValidateReference(p, r))
               ELSE IF KindRules[p.kind].reversal /\ b
               THEN Rejection("REFERENCE_ALREADY_REVERSED")
               ELSE MovementDecision(p.kind, r)
BY DEF Evaluate, Refused, Misplaced

DecisionStays ==
    Outcome.action # "WAIT" =>
        \/ Outcome' = Outcome
        \/ /\ reversed' # reversed
           /\ IsReversal(request.kind)
           /\ Outcome.action = "PROCESS"
           /\ Outcome' = Rejection("REFERENCE_ALREADY_REVERSED")

LEMMA DecisionHolds ==
    ASSUME CasesOK, Next
    PROVE  DecisionStays
<1> SUFFICES ASSUME Outcome.action # "WAIT"
             PROVE  \/ Outcome' = Outcome
                    \/ /\ reversed' # reversed
                       /\ IsReversal(request.kind)
                       /\ Outcome.action = "PROCESS"
                       /\ Outcome' = Rejection("REFERENCE_ALREADY_REVERSED")
  BY DEF DecisionStays
<1>1. UNCHANGED <<request, other>>
  BY DEF Next, Store, Resume, Reverse
<1>2. Outcome' = Evaluate(request, Reference', reversed')
  BY <1>1 DEF Outcome
<1>3. CASE Refused(request)
  BY <1>2, <1>3, RefusedOutcome DEF Outcome
<1>4. CASE ~Refused(request) /\ request.ref = None
  BY <1>2, <1>4 DEF Outcome, Evaluate, Refused, Misplaced
<1>5. CASE ~Refused(request) /\ request.ref # None
  <2>1. Wellformed(request) /\ status \notin {None, "PENDING_REFERENCE"}
    <3>1. WaitForReference.action = "WAIT"
      BY DEF WaitForReference, Decision
    <3> QED
      BY <1>5, <3>1, WellformedMeans, OutcomeReferenced
  <2>2. Reverse
    BY <2>1 DEF Next, Store, Resume
  <2>3. /\ status = "PROCESSED" /\ reversed = FALSE /\ reversed' = TRUE
        /\ Reference' = Reference
    BY <1>1, <2>2 DEF Reverse, CasesOK, Reference
  <2>4. Outcome = IF ValidateReference(request, Reference) # None
                  THEN Rejection(ValidateReference(request, Reference))
                  ELSE MovementDecision(request.kind, Reference)
    BY <1>5, <2>1, <2>3, OutcomeReferenced
  <2>5. ~MustWait(Reference) /\ Reference.status = "PROCESSED"
    BY <2>1, <2>3, ReferenceType DEF MustWait
  <2>6. Outcome' = IF ValidateReference(request, Reference) # None
                   THEN Rejection(ValidateReference(request, Reference))
                   ELSE IF KindRules[request.kind].reversal
                   THEN Rejection("REFERENCE_ALREADY_REVERSED")
                   ELSE MovementDecision(request.kind, Reference)
    BY <1>2, <1>5, <2>3, <2>5, EvaluateReferenced
  <2>7. KindRules[request.kind].reversal <=> IsReversal(request.kind)
    BY RequestType, ReversalPolicy DEF IsReversal
  <2> QED
    BY <2>3, <2>4, <2>6, <2>7, MovementIs
<1> QED
  BY <1>3, <1>4, <1>5

\* An operation decides once: Evaluate never changes a decision as the reference
\* moves on, but for a reversal that is lost to another one.
THEOREM DecisionsAreFinal == Spec => DecisionIsFinal
<1>1. CasesOK /\ [Next]_vars => [DecisionStays]_vars
  BY DecisionHolds
<1> QED
  BY <1>1, CasesInit, CasesStep, PTL DEF Spec, DecisionIsFinal, DecisionStays

LEMMA ExpiryHolds == CasesOK => ExpiryFollowsTheDomain
<1> SUFFICES ASSUME CasesOK, Wellformed(request), request.ref # None
             PROVE  /\ PendingDecision(TRUE) = ExpirePendingReference(request, Reference, reversed)
                    /\ PendingDecision(TRUE).action \in {"PROCESS", "REJECT"}
  BY DEF ExpiryFollowsTheDomain
<1>1. /\ WaitForReference.action = "WAIT" /\ \A c : Rejection(c).action = "REJECT"
      /\ \A k, r : MovementDecision(k, r).action = "PROCESS"
  BY MovementIs DEF WaitForReference, Rejection, Decision
<1>2. /\ Reference = None <=> status = None
      /\ status # None => Reference.status = status
  BY ReferenceType
<1>3. CASE status \in {None, "PENDING_REFERENCE"}
  <2>1. Outcome.action = "WAIT"
    BY <1>1, <1>3, OutcomeReferenced
  <2>2. PendingDecision(TRUE) = GivenUp
    BY <2>1 DEF PendingDecision
  <2> QED
    BY <1>1, <1>2, <1>3, <2>2 DEF GivenUp, ExpirePendingReference
<1>4. CASE status \in {"REJECTED", "FAILED"}
  <2>1. Outcome = Rejection("REFERENCE_NOT_PROCESSED") /\ status # None
    BY <1>4, OutcomeReferenced, CasesAssumption DEF Statuses
  <2>2. PendingDecision(TRUE) = Outcome
    BY <1>1, <2>1 DEF PendingDecision
  <2> QED
    BY <1>1, <1>2, <1>4, <2>1, <2>2 DEF ExpirePendingReference
<1>5. CASE status = "PROCESSED"
  <2>1. Outcome.action \in {"PROCESS", "REJECT"} /\ status # None
    BY <1>1, <1>5, OutcomeReferenced, CasesAssumption DEF Statuses
  <2>2. PendingDecision(TRUE) = Outcome
    BY <2>1 DEF PendingDecision
  <2> QED
    BY <1>2, <1>5, <2>1, <2>2 DEF ExpirePendingReference, Outcome
<1> QED
  BY <1>3, <1>4, <1>5 DEF CasesOK, Statuses

LEMMA RecordMovesCases ==
    /\ RecordInit => Init
    /\ [RecordNext]_<<vars, recordVars>> => [Next]_vars
BY DEF RecordInit, RecordNext

\* The expiry that ResumePending spells out is the domain's
\* ExpirePendingReference, on every well formed operation with a reference.
THEOREM ExpiryIsTheDomains == RecordSpec => []ExpiryFollowsTheDomain
BY RecordMovesCases, CasesInit, CasesStep, ExpiryHolds, PTL DEF RecordSpec

-----------------------------------------------------------------------------
(* The record.                                                             *)

\* Row c is what the layers below store of aggregate t.
Fits(t, c) ==
    /\ t \in Aggregate /\ t.status \in Statuses /\ Valid(t)
    /\ IF t.kind = "LOSS" THEN t.amount = 0 ELSE t.amount > 0
    /\ t.status = "PENDING_REFERENCE" => t.refExternal # Empty
    /\ \E resulting \in Nat \cup {None} :
          /\ resulting # None <=> t.status \in {"PROCESSED", "REJECTED"}
          /\ c = Columns(t, resulting)

LEMMA CodesAreNotEmpty == Empty \notin Codes
BY Zenon DEF Codes, Empty

LEMMA StringsAreNotEmpty == Empty # "a" /\ Empty # "b" /\ Empty # ThatID
BY Zenon DEF Empty, ThatID

LEMMA AbsentIsNoString ==
    None # Empty /\ None # "a" /\ None # "b" /\ None # ThatID /\ None \notin Codes
BY CasesAssumption, RecordAssumption

LEMMA ColumnsOf ==
    ASSUME NEW t \in Aggregate, NEW resulting
    PROVE  /\ Columns(t, resulting).origin = t.origin
           /\ Columns(t, resulting).kind = t.kind
           /\ Columns(t, resulting).amount = t.amount
           /\ Columns(t, resulting).metadata = IF t.origin = "EXTERNAL" THEN t.metadata ELSE None
           /\ Columns(t, resulting).refExternal = NullIfEmpty(t.refExternal)
           /\ Columns(t, resulting).ref = NullIfEmpty(t.ref)
           /\ Columns(t, resulting).status = t.status
           /\ Columns(t, resulting).code = NullIfEmpty(t.code)
           /\ Columns(t, resulting).resulting = resulting
BY DEF Columns

LEMMA ScheduleOf ==
    ASSUME NEW t, NEW resulting
    PROVE  Columns(t, resulting).schedule = IF t.status = "PENDING_REFERENCE" THEN "set" ELSE None
BY DEF Columns

LEMMA AggregateFields ==
    ASSUME NEW t \in Aggregate
    PROVE  /\ t.origin \in Origins /\ t.kind \in Kinds /\ t.amount \in Nat
           /\ t.metadata \in {Empty, "a"} /\ t.refExternal \in {Empty, "b"} /\ t.ref \in {Empty, ThatID}
           /\ t.status \in Statuses \cup {"PENDING"} /\ t.code \in Codes \cup {Empty}
BY DEF Aggregate

\* NULL for the empty string and back.
LEMMA NullAndBack ==
    ASSUME NEW s \in {Empty, "a", "b", ThatID} \cup Codes
    PROVE  NullIfEmpty(s) = None <=> s = Empty
BY AbsentIsNoString DEF NullIfEmpty

LEMMA EmptyAndBack ==
    ASSUME NEW s \in {Empty, "a", "b", ThatID} \cup Codes
    PROVE  EmptyIfNull(NullIfEmpty(s)) = s
BY AbsentIsNoString DEF NullIfEmpty, EmptyIfNull

\* The schema and the event constructors admit what fits.
LEMMA FitsAdmitted ==
    ASSUME NEW t, NEW c, Fits(t, c)
    PROVE  SchemaAdmits(c) /\ EventAdmits(t) /\ t # None
<1>1. t \in Aggregate /\ t.status \in Statuses /\ Valid(t)
  BY DEF Fits
<1>2. PICK resulting \in Nat \cup {None} :
          /\ resulting # None <=> t.status \in {"PROCESSED", "REJECTED"}
          /\ c = Columns(t, resulting)
  BY DEF Fits
<1>3. /\ c.origin = t.origin /\ c.kind = t.kind /\ c.amount = t.amount
      /\ c.metadata = IF t.origin = "EXTERNAL" THEN t.metadata ELSE None
      /\ c.refExternal = NullIfEmpty(t.refExternal) /\ c.ref = NullIfEmpty(t.ref)
      /\ c.status = t.status /\ c.code = NullIfEmpty(t.code) /\ c.resulting = resulting
  BY <1>1, <1>2, ColumnsOf
<1>4. /\ t.origin \in Origins /\ t.kind \in Kinds /\ t.amount \in Nat
      /\ t.metadata \in {Empty, "a"} /\ t.refExternal \in {Empty, "b"} /\ t.ref \in {Empty, ThatID}
      /\ t.code \in Codes \cup {Empty}
  BY <1>1, AggregateFields
<1>5. /\ c.refExternal = None <=> t.refExternal = Empty
      /\ c.ref = None <=> t.ref = Empty
      /\ c.code = None <=> t.code = Empty
  BY <1>3, <1>4, NullAndBack
<1>6. \/ /\ c.origin = "INTERNAL" /\ c.kind = "OPENING"
         /\ c.metadata = None /\ c.refExternal = None /\ c.ref = None
      \/ c.origin = "EXTERNAL" /\ c.kind # "OPENING" /\ c.metadata # None
  BY <1>1, <1>3, <1>4, <1>5, AbsentIsNoString DEF Valid, Origins
<1>7. c.kind \in {"REFUND", "ROLLBACK"} => c.refExternal # None
  BY <1>1, <1>3, <1>5 DEF Valid
<1>8. (c.status \in {"REJECTED", "FAILED"}) = (c.code # None)
  BY <1>1, <1>3, <1>5 DEF Valid
<1>9. IF c.status \in {"PROCESSED", "REJECTED"}
      THEN c.resulting # None /\ c.resulting >= 0
      ELSE c.resulting = None
  BY <1>2, <1>3
<1>10. IF c.kind = "LOSS" THEN c.amount = 0 ELSE c.amount > 0
  BY <1>3 DEF Fits
<1>11. SchemaAdmits(c)
  BY <1>1, <1>3, <1>6, <1>7, <1>8, <1>9, <1>10 DEF SchemaAdmits
<1>12. t.status = "REJECTED" => t.code # Empty
  BY <1>1 DEF Valid
<1>13. EventAdmits(t)
  BY <1>1, <1>12 DEF EventAdmits, Fits, Statuses
<1> QED
  BY <1>1, <1>11, <1>13, RecordAssumption

\* FindReference and FindPendingForUpdate rebuild the aggregate that was stored.
LEMMA FitsReadsBack ==
    ASSUME NEW t, NEW c, Fits(t, c), t.origin = "EXTERNAL"
    PROVE  Rehydrate(c) = t
<1>1. t \in Aggregate /\ t.status \in Statuses /\ Valid(t)
  BY DEF Fits
<1>2. PICK resulting \in Nat \cup {None} : c = Columns(t, resulting)
  BY DEF Fits
<1>3. /\ c.origin = t.origin /\ c.kind = t.kind /\ c.amount = t.amount
      /\ c.metadata = t.metadata
      /\ c.refExternal = NullIfEmpty(t.refExternal) /\ c.ref = NullIfEmpty(t.ref)
      /\ c.status = t.status /\ c.code = NullIfEmpty(t.code)
  BY <1>1, <1>2, ColumnsOf
<1>4. /\ t.metadata \in {Empty, "a"} /\ t.refExternal \in {Empty, "b"} /\ t.ref \in {Empty, ThatID}
      /\ t.code \in Codes \cup {Empty}
  BY <1>1, AggregateFields
<1>5. /\ EmptyIfNull(c.refExternal) = t.refExternal
      /\ EmptyIfNull(c.ref) = t.ref
      /\ EmptyIfNull(c.code) = t.code
  BY <1>3, <1>4, EmptyAndBack
<1>6. c.metadata # None
  BY <1>3, <1>4, AbsentIsNoString
<1>7. [origin |-> c.origin, kind |-> c.kind, amount |-> c.amount, metadata |-> c.metadata,
       refExternal |-> EmptyIfNull(c.refExternal), ref |-> EmptyIfNull(c.ref),
       status |-> c.status, code |-> EmptyIfNull(c.code)] = t
  BY <1>1, <1>3, <1>5 DEF Aggregate
<1> QED
  BY <1>1, <1>6, <1>7 DEF Rehydrate, IfValid

-----------------------------------------------------------------------------
(* The aggregate of the request, through its life.                         *)

RefExternal == IF request.ref = None THEN Empty ELSE request.ref

External(kind, amount, refExternal, ref, st, code) ==
    [origin |-> "EXTERNAL", kind |-> kind, amount |-> amount, metadata |-> "a",
     refExternal |-> refExternal, ref |-> ref, status |-> st, code |-> code]

Tx(ref, st, code) ==
    External(request.kind, request.amount, RefExternal, ref, st, code)

\* A status and the code that goes with it.
CodeFits(st, code) ==
    IF st \in {"REJECTED", "FAILED"} THEN code \in Codes ELSE code = Empty

LEMMA TxOrigin ==
    ASSUME NEW ref, NEW st, NEW code
    PROVE  Tx(ref, st, code).origin = "EXTERNAL" /\ Tx(ref, st, code).metadata = "a"
BY DEF Tx, External

LEMMA TxFields ==
    ASSUME NEW ref, NEW st, NEW code
    PROVE  /\ Tx(ref, st, code).kind = request.kind
           /\ Tx(ref, st, code).amount = request.amount
           /\ Tx(ref, st, code).refExternal = RefExternal
           /\ Tx(ref, st, code).ref = ref
           /\ Tx(ref, st, code).status = st
           /\ Tx(ref, st, code).code = code
BY DEF Tx, External

\* What EXCEPT does to a transaction: the status and the code, and the reference.
LEMMA ExternalChanged ==
    ASSUME NEW kind, NEW amount, NEW refExternal, NEW ref, NEW st, NEW code
    PROVE  /\ \A next : [External(kind, amount, refExternal, ref, st, code) EXCEPT !.status = next] =
                  External(kind, amount, refExternal, ref, next, code)
           /\ \A next : [External(kind, amount, refExternal, ref, st, code) EXCEPT !.code = next] =
                  External(kind, amount, refExternal, ref, st, next)
           /\ \A next : [External(kind, amount, refExternal, ref, st, code) EXCEPT !.ref = next] =
                  External(kind, amount, refExternal, next, st, code)
<1>1. ASSUME NEW next
      PROVE  [External(kind, amount, refExternal, ref, st, code) EXCEPT !.status = next] =
                  External(kind, amount, refExternal, ref, next, code)
  BY DEF External
<1>2. ASSUME NEW next
      PROVE  [External(kind, amount, refExternal, ref, st, code) EXCEPT !.code = next] =
                  External(kind, amount, refExternal, ref, st, next)
  BY DEF External
<1>3. ASSUME NEW next
      PROVE  [External(kind, amount, refExternal, ref, st, code) EXCEPT !.ref = next] =
                  External(kind, amount, refExternal, next, st, code)
  BY DEF External
<1> QED
  BY <1>1, <1>2, <1>3


LEMMA TxIsValid ==
    ASSUME CasesOK, Wellformed(request), NEW ref \in {Empty, ThatID},
           NEW st \in Statuses \cup {"PENDING"}, NEW code \in Codes \cup {Empty},
           CodeFits(st, code)
    PROVE  Tx(ref, st, code) \in Aggregate /\ Valid(Tx(ref, st, code))
<1>1. /\ request.kind \in ExternalKinds /\ request.amount \in Nat /\ request.ref \in {None, "b"}
  BY RequestType
<1>2. request.kind \in {"REFUND", "ROLLBACK"} => request.ref # None
  BY WellformedKinds
<1>3. Tx(ref, st, code) \in Aggregate
  BY <1>1 DEF Tx, External, RefExternal, Aggregate, Origins, Kinds
<1>4. request.kind # "OPENING"
  BY <1>1 DEF ExternalKinds
<1>5. request.kind \in {"REFUND", "ROLLBACK"} => Tx(ref, st, code).refExternal # Empty
  <2>1. Tx(ref, st, code).refExternal = RefExternal
    BY TxFields
  <2> QED
    BY <1>1, <1>2, <2>1, StringsAreNotEmpty DEF RefExternal
<1>6. (st \in {"REJECTED", "FAILED"}) <=> (code # Empty)
  BY CodesAreNotEmpty DEF CodeFits
<1>7. Valid(Tx(ref, st, code))
  <2> DEFINE t == Tx(ref, st, code)
  <2>1. /\ t.origin = "EXTERNAL" /\ t.kind = request.kind /\ t.amount = request.amount
        /\ t.metadata = "a" /\ t.status = st /\ t.code = code
    BY TxFields, TxOrigin
  <2> HIDE DEF t
  <2>2. /\ t.amount >= 0 /\ t.origin # "INTERNAL" /\ t.kind # "OPENING" /\ t.metadata # Empty
    BY <1>1, <1>4, <2>1, StringsAreNotEmpty
  <2>3. (t.status \in {"REJECTED", "FAILED"}) <=> (t.code # Empty)
    BY <1>6, <2>1
  <2>4. (t.status \in {"REJECTED", "FAILED"}) = (t.code # Empty)
    BY <2>3
  <2>5. t.kind \in {"REFUND", "ROLLBACK"} => t.refExternal # Empty
    BY <1>5, <2>1 DEF t
  <2>6. Valid(t)
    BY <2>2, <2>4, <2>5 DEF Valid
  <2> QED
    BY <2>6 DEF t
<1> QED
  BY <1>3, <1>7

LEMMA TxFits ==
    ASSUME CasesOK, Wellformed(request), NEW ref \in {Empty, ThatID},
           NEW st \in Statuses, NEW code \in Codes \cup {Empty}, CodeFits(st, code),
           NEW resulting \in Nat \cup {None},
           resulting # None <=> st \in {"PROCESSED", "REJECTED"},
           st = "PENDING_REFERENCE" => request.ref # None
    PROVE  Fits(Tx(ref, st, code), Columns(Tx(ref, st, code), resulting))
<1>1. Tx(ref, st, code) \in Aggregate /\ Valid(Tx(ref, st, code))
  BY TxIsValid
<1>2. IF request.kind = "LOSS" THEN request.amount = 0 ELSE request.amount > 0
  BY WellformedKinds
<1>3. st = "PENDING_REFERENCE" => Tx(ref, st, code).refExternal # Empty
  BY RequestType, TxFields, StringsAreNotEmpty DEF RefExternal
<1> QED
  BY <1>1, <1>2, <1>3, TxFields DEF Fits

\* NewExternalTransaction accepts what Prepare accepted.
LEMMA NewIs ==
    ASSUME CasesOK, Wellformed(request), NEW ref \in {Empty, ThatID}
    PROVE  NewExternalTransaction(request, ref) = Tx(ref, "PENDING", Empty)
<1>1. Valid(Tx(ref, "PENDING", Empty))
  BY TxIsValid DEF CodeFits
<1>2. Tx(ref, "PENDING", Empty) =
        [origin |-> "EXTERNAL", kind |-> request.kind, amount |-> request.amount,
         metadata |-> request.ext,
         refExternal |-> IF request.ref = None THEN Empty ELSE request.ref, ref |-> ref,
         status |-> "PENDING", code |-> Empty]
  BY RequestType DEF Tx, External, RefExternal
<1> QED
  BY <1>1, <1>2 DEF NewExternalTransaction, IfValid

\* transition accepts every ending of a transaction that is not at its end.
LEMMA TransitionIs ==
    ASSUME CasesOK, Wellformed(request), NEW ref \in {Empty, ThatID},
           NEW from \in {"PENDING", "PENDING_REFERENCE"}, NEW st \in Statuses,
           from = "PENDING_REFERENCE" => st # "PENDING_REFERENCE",
           NEW code \in Codes \cup {Empty}, CodeFits(st, code)
    PROVE  Transition(Tx(ref, from, Empty), st, code) = Tx(ref, st, code)
<1>1. Tx(ref, from, Empty) \in Aggregate
  BY TxIsValid DEF CodeFits, Statuses
<1>2. Tx(ref, from, Empty) # None
  BY <1>1, RecordAssumption
<1>3. Allowed(from, st)
  BY DEF Allowed, Statuses
<1>4. (st \in {"REJECTED", "FAILED"}) <=> (code # Empty)
  BY CodesAreNotEmpty DEF CodeFits
<1>5. Transition(Tx(ref, from, Empty), st, code) =
          [Tx(ref, from, Empty) EXCEPT !.status = st, !.code = code]
  <2>1. Tx(ref, from, Empty).status = from
    BY TxFields
  <2>2. (st \in {"REJECTED", "FAILED"}) = (code # Empty)
    BY <1>4
  <2> QED
    BY <1>2, <1>3, <2>1, <2>2, Zenon DEF Transition
<1>6. [Tx(ref, from, Empty) EXCEPT !.status = st, !.code = code] = Tx(ref, st, code)
  <2>1. [Tx(ref, from, Empty) EXCEPT !.status = st, !.code = code] =
            [[Tx(ref, from, Empty) EXCEPT !.status = st] EXCEPT !.code = code]
    OBVIOUS
  <2>2. [Tx(ref, from, Empty) EXCEPT !.status = st] = Tx(ref, st, Empty)
    BY ExternalChanged DEF Tx
  <2>3. [Tx(ref, st, Empty) EXCEPT !.code = code] = Tx(ref, st, code)
    BY ExternalChanged DEF Tx
  <2> QED
    BY <2>1, <2>2, <2>3, Zenon
<1> QED
  BY <1>5, <1>6

\* ResolveReference on a waiting transaction.
LEMMA ResolvedIs ==
    ASSUME NEW ref, ref # Empty
    PROVE  ResolveReference(Tx(Empty, "PENDING_REFERENCE", Empty), ref) =
               Tx(ref, "PENDING_REFERENCE", Empty)
<1>1. ResolveReference(Tx(Empty, "PENDING_REFERENCE", Empty), ref) =
          [Tx(Empty, "PENDING_REFERENCE", Empty) EXCEPT !.ref = ref]
  BY TxFields DEF ResolveReference
<1>2. [Tx(Empty, "PENDING_REFERENCE", Empty) EXCEPT !.ref = ref] = Tx(ref, "PENDING_REFERENCE", Empty)
  BY ExternalChanged DEF Tx
<1> QED
  BY <1>1, <1>2

Waits == Columns(Tx(Empty, "PENDING_REFERENCE", Empty), None)

Stored(kind, amount, refExternal, ref, st, code, resulting, schedule) ==
    [origin |-> "EXTERNAL", kind |-> kind, amount |-> amount, metadata |-> "a",
     refExternal |-> refExternal, ref |-> ref, status |-> st, code |-> code,
     resulting |-> resulting, schedule |-> schedule]

LEMMA ColumnsOfTx ==
    ASSUME NEW ref, NEW st, NEW code, NEW resulting
    PROVE  Columns(Tx(ref, st, code), resulting) =
               Stored(request.kind, request.amount, NullIfEmpty(RefExternal), NullIfEmpty(ref),
                      st, NullIfEmpty(code), resulting,
                      IF st = "PENDING_REFERENCE" THEN "set" ELSE None)
BY TxFields, TxOrigin DEF Columns, Stored

\* CompletePending writes what InsertNew would have written.
LEMMA CompletedIs ==
    ASSUME NEW ref, NEW st, NEW code, NEW resulting, st # "PENDING_REFERENCE"
    PROVE  CompletePending(Waits, Tx(ref, st, code), resulting) =
               Columns(Tx(ref, st, code), resulting)
<1> DEFINE k == request.kind
           a == request.amount
           e == NullIfEmpty(RefExternal)
           r == NullIfEmpty(ref)
           c == NullIfEmpty(code)
           n == NullIfEmpty(Empty)
           old == Stored(k, a, e, n, "PENDING_REFERENCE", n, None, "set")
<1>1. Waits = old
  BY ColumnsOfTx DEF Waits
<1>2. Columns(Tx(ref, st, code), resulting) = Stored(k, a, e, r, st, c, resulting, None)
  BY ColumnsOfTx
<1>3. CompletePending(old, Tx(ref, st, code), resulting) =
          [old EXCEPT !.ref = r, !.status = st, !.code = c, !.resulting = resulting,
                      !.schedule = None]
  <2>1. /\ Tx(ref, st, code).ref = ref /\ Tx(ref, st, code).status = st
        /\ Tx(ref, st, code).code = code
    BY TxFields
  <2> QED
    BY <2>1, Zenon DEF CompletePending
<1> HIDE DEF k, a, e, r, c, n, old
<1>4. [old EXCEPT !.ref = r, !.status = st, !.code = c, !.resulting = resulting,
                  !.schedule = None] =
      [[[[[old EXCEPT !.ref = r] EXCEPT !.status = st] EXCEPT !.code = c]
          EXCEPT !.resulting = resulting] EXCEPT !.schedule = None]
  OBVIOUS
<1>5. [[[[[old EXCEPT !.ref = r] EXCEPT !.status = st] EXCEPT !.code = c]
          EXCEPT !.resulting = resulting] EXCEPT !.schedule = None] =
      Stored(k, a, e, r, st, c, resulting, None)
  <2> DEFINE s1 == Stored(k, a, e, r, "PENDING_REFERENCE", n, None, "set")
             s2 == Stored(k, a, e, r, st, n, None, "set")
             s3 == Stored(k, a, e, r, st, c, None, "set")
             s4 == Stored(k, a, e, r, st, c, resulting, "set")
             s5 == Stored(k, a, e, r, st, c, resulting, None)
  <2>1. [old EXCEPT !.ref = r] = s1
    BY DEF old, Stored
  <2>2. [s1 EXCEPT !.status = st] = s2
    BY DEF Stored
  <2>3. [s2 EXCEPT !.code = c] = s3
    BY DEF Stored
  <2>4. [s3 EXCEPT !.resulting = resulting] = s4
    BY DEF Stored
  <2>5. [s4 EXCEPT !.schedule = None] = s5
    BY DEF Stored
  <2> HIDE DEF s1, s2, s3, s4, s5
  <2>6. [[[[[old EXCEPT !.ref = r] EXCEPT !.status = st] EXCEPT !.code = c]
            EXCEPT !.resulting = resulting] EXCEPT !.schedule = None] = s5
    BY <2>1, <2>2, <2>3, <2>4, <2>5, Zenon
  <2> QED
    BY <2>6 DEF s5
<1> QED
  BY <1>1, <1>2, <1>3, <1>4, <1>5

LEMMA WrittenIs ==
    ASSUME NEW ref, NEW st, NEW code, NEW resulting, st # "PENDING_REFERENCE",
           row = None \/ row = Waits
    PROVE  Written(Tx(ref, st, code), resulting) = Columns(Tx(ref, st, code), resulting)
BY CompletedIs DEF Written

-----------------------------------------------------------------------------
(* The calls.                                                              *)

\* What fits is committed: no layer refuses it.
LEMMA CommitHolds ==
    ASSUME NEW t, NEW c, NEW after, Fits(t, c), Commit(t, c, after)
    PROVE  tx' = t /\ row' = c /\ balance' = after /\ failure' = None
BY FitsAdmitted DEF Commit

\* A decision that ends a transaction, and moves only a positive amount.
DecisionOK(d) ==
    \/ d.action = "REJECT" /\ d.code \in Codes
    \/ /\ d.action = "PROCESS" /\ d.direction \in {"NONE", "DEBIT", "CREDIT"}
       /\ d.direction # "NONE" => request.amount > 0

LEMMA RejectionOK == ASSUME NEW c \in Codes PROVE DecisionOK(Rejection(c))
BY DEF DecisionOK, Rejection, Decision

LEMMA DirectionOf ==
    ASSUME CasesOK
    PROVE  Outcome.action = "PROCESS" => DecisionOK(Outcome)
<1> SUFFICES ASSUME Outcome.action = "PROCESS"
             PROVE  DecisionOK(Outcome)
  OBVIOUS
<1>1. /\ request.ref = None => request.kind \in {"BET", "WIN", "LOSS"}
      /\ request.ref # None => request.kind \in {"WIN", "REFUND", "ROLLBACK"}
      /\ IF request.kind = "LOSS" THEN request.amount = 0 ELSE request.amount > 0
  BY ProcessMeans, WellformedKinds
<1>2. request.kind # "ROLLBACK" => Outcome.direction = KindRules[request.kind].direction
  BY ProcessMeans, MovementIs
<1>3. request.kind = "ROLLBACK" => Outcome.direction \in {"CREDIT", "DEBIT"}
  BY ProcessMeans, MovementIs
<1>4. /\ Outcome.direction \in {"NONE", "DEBIT", "CREDIT"}
      /\ Outcome.direction # "NONE" => request.kind # "LOSS"
  BY <1>1, <1>2, <1>3, Policies DEF KindRule
<1> QED
  BY <1>1, <1>4 DEF DecisionOK

\* Evaluate on a well formed request: only a reference can make it wait.
LEMMA OutcomeOK ==
    ASSUME CasesOK, Wellformed(request)
    PROVE  \/ Outcome.action = "WAIT" /\ request.ref # None
           \/ DecisionOK(Outcome)
<1>1. CASE request.ref = None
  <2>1. Outcome.action = "PROCESS"
    BY <1>1, OutcomeAlone, MovementIs
  <2> QED
    BY <2>1, DirectionOf
<1>2. CASE request.ref # None
  <2>1. CASE status \in {None, "PENDING_REFERENCE"}
    BY <1>2, <2>1, OutcomeReferenced DEF WaitForReference, Decision
  <2>2. CASE status \in {"REJECTED", "FAILED"}
    <3>1. "REFERENCE_NOT_PROCESSED" \in Codes
      BY DEF Codes
    <3> QED
      BY <1>2, <2>2, <3>1, OutcomeReferenced, RejectionOK
  <2>3. CASE status = "PROCESSED"
    <3>1. /\ "REFERENCE_ALREADY_REVERSED" \in Codes
          /\ ValidateReference(request, Reference) # None =>
                ValidateReference(request, Reference) \in Codes
      BY ReferenceErrors DEF Codes
    <3>2. CASE ValidateReference(request, Reference) # None
      BY <1>2, <2>3, <3>1, <3>2, OutcomeReferenced, RejectionOK
    <3>3. CASE ValidateReference(request, Reference) = None
                 /\ KindRules[request.kind].reversal /\ reversed
      BY <1>2, <2>3, <3>1, <3>3, OutcomeReferenced, RejectionOK
    <3>4. CASE ValidateReference(request, Reference) = None
                 /\ ~(KindRules[request.kind].reversal /\ reversed)
      <4>1. Outcome.action = "PROCESS"
        BY <1>2, <2>3, <3>4, OutcomeReferenced, MovementIs
      <4> QED
        BY <4>1, DirectionOf
    <3> QED
      BY <3>2, <3>3, <3>4
  <2> QED
    BY <2>1, <2>2, <2>3 DEF CasesOK, Statuses
<1> QED
  BY <1>1, <1>2

LEMMA PendingDecisionOK ==
    ASSUME CasesOK, Wellformed(request), NEW expired, PendingDecision(expired).action # "WAIT"
    PROVE  DecisionOK(PendingDecision(expired))
<1>1. "REFERENCE_NOT_FOUND" \in Codes /\ "REFERENCE_NOT_PROCESSED" \in Codes
  BY DEF Codes
<1>2. DecisionOK(GivenUp)
  BY <1>1, RejectionOK DEF GivenUp
<1>3. PendingDecision(expired) = GivenUp \/ PendingDecision(expired) = Outcome
  BY Zenon DEF PendingDecision
<1> QED
  BY <1>2, <1>3, OutcomeOK

LEMMA MoveIs ==
    ASSUME balance \in 0..MaxBalance, NEW direction \in {"NONE", "DEBIT", "CREDIT"},
           NEW amount \in Nat, direction # "NONE" => amount > 0
    PROVE  \/ Move(direction, amount).error \in {"INSUFFICIENT", "OVERFLOW"}
           \/ /\ Move(direction, amount).error = None
              /\ Move(direction, amount).after \in 0..MaxBalance
              /\ EntryAdmits(direction, amount, Move(direction, amount).after)
<1> USE RecordAssumption
<1>1. CASE direction = "NONE"
  BY <1>1 DEF Move, EntryAdmits
<1>2. CASE direction = "DEBIT"
  BY <1>2 DEF Move, EntryAdmits
<1>3. CASE direction = "CREDIT"
  BY <1>3 DEF Move, EntryAdmits
<1> QED
  BY <1>1, <1>2, <1>3

\* The transaction ends in status st, and its row is stored.
Ends(ref, st, code, after) ==
    /\ CodeFits(st, code)
    /\ tx' = Tx(ref, st, code)
    /\ row' = Columns(Tx(ref, st, code), after)
    /\ failure' = None

LEMMA EndHolds ==
    ASSUME CasesOK, Wellformed(request), row = None \/ row = Waits,
           NEW ref \in {Empty, ThatID}, NEW from \in {"PENDING", "PENDING_REFERENCE"},
           NEW st \in {"PROCESSED", "REJECTED"}, NEW code \in Codes \cup {Empty},
           CodeFits(st, code), NEW after \in 0..MaxBalance,
           LET ended == Transition(Tx(ref, from, Empty), st, code)
           IN  Commit(ended, IF ended = None THEN None ELSE Written(ended, after), after)
    PROVE  Ends(ref, st, code, after) /\ balance' = after
<1> DEFINE ended == Tx(ref, st, code)
<1>1. Transition(Tx(ref, from, Empty), st, code) = ended
  BY TransitionIs DEF Statuses
<1>2. after \in Nat /\ after # None /\ after \in Nat \cup {None}
  BY RecordAssumption
<1>3. Fits(ended, Columns(ended, after))
  BY <1>2, TxFits DEF Statuses
<1>4. ended # None
  BY <1>3, FitsAdmitted
<1>5. Written(ended, after) = Columns(ended, after)
  BY WrittenIs
<1>6. Commit(ended, Columns(ended, after), after)
  BY <1>1, <1>4, <1>5
<1> QED
  BY <1>3, <1>6, CommitHolds DEF Ends

\* What the movement of a decision ends in.
LEMMA SettleHolds ==
    ASSUME CasesOK, Wellformed(request), row = None \/ row = Waits, balance \in 0..MaxBalance,
           NEW ref \in {Empty, ThatID}, NEW from \in {"PENDING", "PENDING_REFERENCE"},
           NEW STATE decision, DecisionOK(decision), Settle(Tx(ref, from, Empty), decision)
    PROVE  \/ failure' = "OVERFLOW" /\ UNCHANGED <<balance, tx, row>>
           \/ \E st \in {"PROCESSED", "REJECTED"}, code \in Codes \cup {Empty}, after \in 0..MaxBalance :
                 Ends(ref, st, code, after) /\ balance' = after
<1> DEFINE move == Move(decision.direction, request.amount)
           end(st, code, after) ==
               LET ended == Transition(Tx(ref, from, Empty), st, code)
               IN  Commit(ended, IF ended = None THEN None ELSE Written(ended, after), after)
<1>1. IF decision.action = "REJECT" THEN end("REJECTED", decision.code, balance)
      ELSE IF move.error = "INSUFFICIENT"
      THEN end("REJECTED", InsufficientFundsFor(request.kind), balance)
      ELSE IF move.error = "OVERFLOW" THEN Fail("OVERFLOW")
      ELSE IF ~EntryAdmits(decision.direction, request.amount, move.after) THEN Fail("ENTRY")
      ELSE end("PROCESSED", Empty, move.after)
  BY Zenon DEF Settle
<1>2. ASSUME NEW st \in {"PROCESSED", "REJECTED"}, NEW STATE code, code \in Codes \cup {Empty},
             CodeFits(st, code), NEW STATE after, after \in 0..MaxBalance, end(st, code, after)
      PROVE  Ends(ref, st, code, after) /\ balance' = after
  BY <1>2, EndHolds
<1> HIDE DEF end
<1>3. CASE decision.action = "REJECT"
  <2>1. decision.code \in Codes /\ CodeFits("REJECTED", decision.code)
    BY <1>3 DEF DecisionOK, CodeFits
  <2>2. Ends(ref, "REJECTED", decision.code, balance) /\ balance' = balance
    BY <1>1, <1>2, <1>3, <2>1
  <2> QED
    BY <2>1, <2>2
<1>4. CASE decision.action = "PROCESS"
  <2>1. /\ decision.direction \in {"NONE", "DEBIT", "CREDIT"} /\ request.amount \in Nat
        /\ decision.direction # "NONE" => request.amount > 0
    BY <1>4, RequestType DEF DecisionOK
  <2>2. \/ move.error \in {"INSUFFICIENT", "OVERFLOW"}
        \/ /\ move.error = None /\ move.after \in 0..MaxBalance
           /\ EntryAdmits(decision.direction, request.amount, move.after)
    BY <2>1, MoveIs
  <2> HIDE DEF move
  <2>3. CASE move.error = "INSUFFICIENT"
    <3> DEFINE code == InsufficientFundsFor(request.kind)
    <3>1. code \in Codes
      BY DEF InsufficientFundsFor, Codes
    <3>2. CodeFits("REJECTED", code)
      BY <3>1 DEF CodeFits
    <3>3. Ends(ref, "REJECTED", code, balance) /\ balance' = balance
      BY <1>1, <1>2, <1>4, <2>3, <3>1, <3>2
    <3> QED
      BY <3>1, <3>3
  <2>4. CASE move.error = "OVERFLOW"
    BY <1>1, <1>4, <2>4 DEF Fail
  <2>5. CASE move.error = None
    <3>1. move.error \notin {"INSUFFICIENT", "OVERFLOW"}
      BY <2>5, RecordAssumption
    <3>2. CodeFits("PROCESSED", Empty)
      BY DEF CodeFits
    <3>3. Ends(ref, "PROCESSED", Empty, move.after) /\ balance' = move.after
      BY <1>1, <1>2, <1>4, <2>2, <3>1, <3>2
    <3> QED
      BY <2>2, <3>1, <3>3
  <2> QED
    BY <2>2, <2>3, <2>4, <2>5
<1> QED
  BY <1>3, <1>4 DEF DecisionOK

-----------------------------------------------------------------------------
(* What is read and answered of a stored row.                              *)

LEMMA FitsRow ==
    ASSUME NEW t, NEW c, Fits(t, c)
    PROVE  /\ c \in RowType /\ c # None
           /\ c.status = t.status /\ c.origin = t.origin
           /\ c.resulting # None <=> t.status \in {"PROCESSED", "REJECTED"}
<1>1. t \in Aggregate /\ t.status \in Statuses /\ Valid(t)
  BY DEF Fits
<1>2. PICK resulting \in Nat \cup {None} :
          /\ resulting # None <=> t.status \in {"PROCESSED", "REJECTED"}
          /\ c = Columns(t, resulting)
  BY DEF Fits
<1>3. /\ t.origin \in Origins /\ t.kind \in Kinds /\ t.amount \in Nat
      /\ t.metadata \in {Empty, "a"} /\ t.refExternal \in {Empty, "b"}
      /\ t.ref \in {Empty, ThatID} /\ t.code \in Codes \cup {Empty}
  BY <1>1, AggregateFields
<1>4. t.origin = "EXTERNAL" => t.metadata = "a"
  BY <1>1, <1>3 DEF Valid
<1>5. /\ NullIfEmpty(t.refExternal) \in {None, "b"} /\ NullIfEmpty(t.ref) \in {None, ThatID}
      /\ NullIfEmpty(t.code) \in Codes \cup {None}
  BY <1>3 DEF NullIfEmpty
<1>6. c \in RowType
  BY <1>1, <1>2, <1>3, <1>4, <1>5 DEF Columns, RowType
<1> QED
  BY <1>1, <1>2, <1>6, ColumnsOf, RecordAssumption

\* The read API tells what applies to a stored transaction from what does not.
LEMMA FitsDetail ==
    ASSUME NEW t, NEW c, Fits(t, c)
    PROVE  LET d == DetailResponse(TransactionDetail(c)) IN
           /\ d.status = t.status
           /\ (d.metadata # None) = (t.origin = "EXTERNAL")
           /\ (d.code # None)     = (t.status \in {"REJECTED", "FAILED"})
           /\ (d.balance # None)  = (t.status \in {"PROCESSED", "REJECTED"})
           /\ (d.schedule # None) = (t.status = "PENDING_REFERENCE")
           /\ (d.ref # None)      = (t.ref # Empty)
<1>1. t \in Aggregate /\ t.status \in Statuses /\ Valid(t)
  BY DEF Fits
<1>2. PICK resulting \in Nat \cup {None} :
          /\ resulting # None <=> t.status \in {"PROCESSED", "REJECTED"}
          /\ c = Columns(t, resulting)
  BY DEF Fits
<1>3. /\ c.origin = t.origin /\ c.status = t.status /\ c.resulting = resulting
      /\ c.metadata = IF t.origin = "EXTERNAL" THEN t.metadata ELSE None
      /\ c.ref = NullIfEmpty(t.ref) /\ c.code = NullIfEmpty(t.code)
      /\ c.schedule = IF t.status = "PENDING_REFERENCE" THEN "set" ELSE None
  BY <1>1, <1>2, ColumnsOf, ScheduleOf
<1>4. /\ t.origin \in Origins /\ t.metadata \in {Empty, "a"}
      /\ t.ref \in {Empty, ThatID} /\ t.code \in Codes \cup {Empty}
  BY <1>1, AggregateFields
<1>5. t.origin = "EXTERNAL" => t.metadata = "a"
  BY <1>1, <1>4 DEF Valid
<1> DEFINE n(x) == NullIfEmpty(EmptyIfNull(x))
           d == [metadata |-> n(c.metadata), refExternal |-> n(c.refExternal),
                 ref |-> n(c.ref), code |-> n(c.code), status |-> c.status,
                 balance |-> c.resulting, schedule |-> c.schedule]
<1>6. DetailResponse(TransactionDetail(c)) = d
  <2> DEFINE e(x) == EmptyIfNull(x)
             Detail(m, x, r, k) ==
                 [metadata |-> m, refExternal |-> x, ref |-> r, code |-> k, status |-> c.status,
                  balance |-> c.resulting, schedule |-> c.schedule]
  <2>1. TransactionDetail(c) = Detail(e(c.metadata), e(c.refExternal), e(c.ref), e(c.code))
    BY DEF TransactionDetail
  <2>2. ASSUME NEW m, NEW x, NEW r, NEW k
        PROVE  DetailResponse(Detail(m, x, r, k)) =
                   Detail(NullIfEmpty(m), NullIfEmpty(x), NullIfEmpty(r), NullIfEmpty(k))
    <3> DEFINE s0 == Detail(m, x, r, k)
               s1 == Detail(NullIfEmpty(m), x, r, k)
               s2 == Detail(NullIfEmpty(m), NullIfEmpty(x), r, k)
               s3 == Detail(NullIfEmpty(m), NullIfEmpty(x), NullIfEmpty(r), k)
               s4 == Detail(NullIfEmpty(m), NullIfEmpty(x), NullIfEmpty(r), NullIfEmpty(k))
    <3>0. s0.metadata = m /\ s0.refExternal = x /\ s0.ref = r /\ s0.code = k
      OBVIOUS
    <3>1. [s0 EXCEPT !.metadata = NullIfEmpty(m)] = s1
      OBVIOUS
    <3>2. [s1 EXCEPT !.refExternal = NullIfEmpty(x)] = s2
      OBVIOUS
    <3>3. [s2 EXCEPT !.ref = NullIfEmpty(r)] = s3
      OBVIOUS
    <3>4. [s3 EXCEPT !.code = NullIfEmpty(k)] = s4
      OBVIOUS
    <3> HIDE DEF s0, s1, s2, s3, s4
    <3>5. DetailResponse(s0) =
              [s0 EXCEPT !.metadata = NullIfEmpty(m), !.refExternal = NullIfEmpty(x),
                         !.ref = NullIfEmpty(r), !.code = NullIfEmpty(k)]
      BY <3>0, Zenon DEF DetailResponse
    <3>6. [s0 EXCEPT !.metadata = NullIfEmpty(m), !.refExternal = NullIfEmpty(x),
                     !.ref = NullIfEmpty(r), !.code = NullIfEmpty(k)] =
          [[[[s0 EXCEPT !.metadata = NullIfEmpty(m)] EXCEPT !.refExternal = NullIfEmpty(x)]
                EXCEPT !.ref = NullIfEmpty(r)] EXCEPT !.code = NullIfEmpty(k)]
      OBVIOUS
    <3>7. DetailResponse(s0) = s4
      BY <3>1, <3>2, <3>3, <3>4, <3>5, <3>6, Zenon
    <3> QED
      BY <3>7 DEF s0, s4
  <2> QED
    BY <2>1, <2>2
<1>7. /\ d.status = c.status /\ d.metadata = n(c.metadata) /\ d.code = n(c.code)
      /\ d.balance = c.resulting /\ d.schedule = c.schedule /\ d.ref = n(c.ref)
  OBVIOUS
<1>8. ASSUME NEW x \in {None, "a", ThatID} \cup Codes PROVE n(x) = x
  BY <1>8, StringsAreNotEmpty, CodesAreNotEmpty DEF NullIfEmpty, EmptyIfNull
<1>9. /\ c.metadata \in {None, "a"} /\ c.ref \in {None, ThatID} /\ c.code \in Codes \cup {None}
      /\ c.ref = None <=> t.ref = Empty
      /\ c.code = None <=> t.code = Empty
  BY <1>3, <1>4, <1>5, NullAndBack DEF NullIfEmpty
<1> HIDE DEF d, n
<1>10. /\ d.status = t.status
       /\ (d.metadata # None) <=> (t.origin = "EXTERNAL")
       /\ (d.code # None)     <=> (t.status \in {"REJECTED", "FAILED"})
       /\ (d.balance # None)  <=> (t.status \in {"PROCESSED", "REJECTED"})
       /\ (d.schedule # None) <=> (t.status = "PENDING_REFERENCE")
       /\ (d.ref # None)      <=> (t.ref # Empty)
  <2>1. d.metadata = c.metadata /\ d.ref = c.ref /\ d.code = c.code
    BY <1>7, <1>8, <1>9
  <2>2. None # "set" /\ None # "a"
    BY RecordAssumption, CasesAssumption
  <2>3. (t.code # Empty) <=> (t.status \in {"REJECTED", "FAILED"})
    BY <1>1 DEF Valid
  <2> QED
    BY <1>2, <1>3, <1>5, <1>7, <1>9, <2>1, <2>2, <2>3
<1> QED
  BY <1>6, <1>10

\* A rejected row says why.
LEMMA FitsCode ==
    ASSUME NEW t, NEW c, Fits(t, c), c.status = "REJECTED"
    PROVE  c.code # None
<1>1. t \in Aggregate /\ Valid(t)
  BY DEF Fits
<1>2. PICK resulting \in Nat \cup {None} : c = Columns(t, resulting)
  BY DEF Fits
<1>3. c.status = t.status /\ c.code = NullIfEmpty(t.code)
  BY <1>1, <1>2, ColumnsOf
<1>4. t.code # Empty /\ t.code \in Codes \cup {Empty}
  BY <1>1, <1>3, AggregateFields DEF Valid
<1> QED
  BY <1>3, <1>4, AbsentIsNoString DEF NullIfEmpty

\* replayResult and the answer's body: only a failed row has none.
LEMMA FitsAnswer ==
    ASSUME NEW t, NEW c, Fits(t, c)
    PROVE  LET a == HttpAnswer(ReplayResult(c)) IN
           \/ Documented(a)
           \/ c.status = "FAILED" /\ a.code = 200 /\ a.body = None
<1>1. /\ c \in RowType /\ c.status = t.status
      /\ c.resulting # None <=> c.status \in {"PROCESSED", "REJECTED"}
  BY FitsRow
<1>2. c.status = "REJECTED" => c.code # None
  BY <1>1, FitsCode
<1> DEFINE r == ReplayResult(c)
<1>3. r \in Result /\ r.status = c.status /\ r.balance = c.resulting /\ r.code = c.code
  BY <1>1 DEF ReplayResult, Result, RowType
<1>4. r # None
  BY <1>3, RecordAssumption
<1> HIDE DEF r
<1>5. c.status \in Statuses
  BY <1>1 DEF RowType
<1>6. /\ HttpAnswer(r).code = CASE r.status = "REJECTED"          -> 422
                                [] r.status = "PENDING_REFERENCE" -> 202
                                [] OTHER                          -> 200
      /\ HttpAnswer(r).body = IF WithBalance(r.status) /\ r.balance = None THEN None ELSE r
  BY DEF HttpAnswer
<1>7. CASE c.status = "FAILED"
  BY <1>1, <1>3, <1>6, <1>7 DEF WithBalance, r
<1>8. CASE c.status # "FAILED"
  <2>1. HttpAnswer(r).body = r
    BY <1>1, <1>3, <1>5, <1>6, <1>8 DEF WithBalance, Statuses
  <2> QED
    BY <1>1, <1>2, <1>3, <1>4, <1>5, <1>6, <1>8, <2>1 DEF Documented, Statuses, r
<1> QED
  BY <1>7, <1>8

-----------------------------------------------------------------------------
(* The invariant.  A stored row fits its aggregate; a waiting one is the   *)
(* well formed request's own, unresolved; an answer is about a stored row. *)

PendingOK ==
    (row # None /\ row.status = "PENDING_REFERENCE") =>
        /\ Wellformed(request) /\ request.ref # None
        /\ row = Waits

\* What is answered is documented, but for the replay of a failed operation.
DocumentedUnlessFailed ==
    answer # None =>
        \/ Documented(answer)
        \/ row.status = "FAILED" /\ answer.code = 200 /\ answer.body = None

RecordInv ==
    /\ CasesOK
    /\ balance \in 0..MaxBalance
    /\ failure \in {None, "OVERFLOW"}
    /\ row # None => Fits(tx, row)
    /\ PendingOK
    /\ answer # None => row # None
    /\ DocumentedUnlessFailed

LEMMA RecordInitially == RecordInit => RecordInv
BY CasesInit DEF RecordInit, RecordInv, PendingOK, DocumentedUnlessFailed

\* The columns of the waiting request do not change as its reference moves on.
LEMMA WaitsStays == request' = request => Waits' = Waits
BY DEF Waits, Tx, External, RefExternal, Columns, NullIfEmpty

\* FindPendingForUpdate on a waiting row.
LEMMA PendingReadsBack ==
    ASSUME RecordInv, row # None, row.status = "PENDING_REFERENCE"
    PROVE  Rehydrate(row) = Tx(Empty, "PENDING_REFERENCE", Empty)
<1> DEFINE t == Tx(Empty, "PENDING_REFERENCE", Empty)
<1>1. CasesOK /\ Wellformed(request) /\ request.ref # None /\ row = Columns(t, None)
  BY DEF RecordInv, PendingOK, Waits
<1>2. CodeFits("PENDING_REFERENCE", Empty)
  BY DEF CodeFits
<1>3. Fits(t, row)
  BY <1>1, <1>2, TxFits DEF Statuses
<1>4. t.origin = "EXTERNAL"
  BY TxOrigin
<1> QED
  BY <1>3, <1>4, FitsReadsBack

\* An ending keeps the invariant.
LEMMA EndsKeeps ==
    ASSUME RecordInv, Wellformed(request), UNCHANGED vars,
           NEW ref \in {Empty, ThatID}, NEW st \in {"PROCESSED", "REJECTED"},
           NEW code \in Codes \cup {Empty}, NEW after \in 0..MaxBalance,
           Ends(ref, st, code, after), balance' = after
    PROVE  /\ CasesOK' /\ balance' \in 0..MaxBalance /\ failure' = None
           /\ Fits(tx', row') /\ row' # None /\ row'.status = st /\ PendingOK'
<1> DEFINE t == Tx(ref, st, code)
<1>1. CasesOK' /\ CasesOK
  BY DEF RecordInv, CasesOK, vars
<1>2. after \in Nat \cup {None} /\ after # None
  BY RecordAssumption
<1>3. Fits(t, Columns(t, after))
  BY <1>1, <1>2, TxFits DEF Ends, Statuses
<1>4. Fits(tx', row')
  BY <1>3 DEF Ends
<1>5. row' # None /\ row'.status = tx'.status
  BY <1>4, FitsRow
<1>6. row'.status = st
  BY <1>5, TxFields DEF Ends
<1> QED
  BY <1>1, <1>4, <1>5, <1>6 DEF Ends, PendingOK

\* OpenWallet's transaction.
Opening(amount, st) ==
    [origin |-> "INTERNAL", kind |-> "OPENING", amount |-> amount, metadata |-> Empty,
     refExternal |-> Empty, ref |-> Empty, status |-> st, code |-> Empty]

LEMMA OpeningFits ==
    ASSUME NEW amount \in Nat, amount > 0
    PROVE  /\ Transition(NewOpeningTransaction(amount), "PROCESSED", Empty) =
                  Opening(amount, "PROCESSED")
           /\ Fits(Opening(amount, "PROCESSED"), Columns(Opening(amount, "PROCESSED"), amount))
<1>1. ASSUME NEW st \in {"PENDING", "PROCESSED"}
      PROVE  Opening(amount, st) \in Aggregate /\ Valid(Opening(amount, st))
  <2>1. Opening(amount, st) \in Aggregate
    BY DEF Opening, Aggregate, Origins, Kinds, Statuses
  <2>2. /\ Opening(amount, st).origin = "INTERNAL" /\ Opening(amount, st).kind = "OPENING"
        /\ Opening(amount, st).metadata = Empty /\ Opening(amount, st).refExternal = Empty
        /\ Opening(amount, st).ref = Empty /\ Opening(amount, st).amount = amount
        /\ Opening(amount, st).status = st /\ Opening(amount, st).code = Empty
    BY DEF Opening
  <2> QED
    BY <2>1, <2>2 DEF Valid
<1>2. NewOpeningTransaction(amount) = Opening(amount, "PENDING")
  BY <1>1 DEF NewOpeningTransaction, IfValid, Opening
<1>3. Opening(amount, "PENDING") # None /\ Opening(amount, "PENDING").status = "PENDING"
  BY <1>1, RecordAssumption DEF Opening
<1>4. [Opening(amount, "PENDING") EXCEPT !.status = "PROCESSED", !.code = Empty] =
          Opening(amount, "PROCESSED")
  <2>1. [Opening(amount, "PENDING") EXCEPT !.status = "PROCESSED", !.code = Empty] =
            [[Opening(amount, "PENDING") EXCEPT !.status = "PROCESSED"] EXCEPT !.code = Empty]
    OBVIOUS
  <2>2. [Opening(amount, "PENDING") EXCEPT !.status = "PROCESSED"] = Opening(amount, "PROCESSED")
    BY DEF Opening
  <2>3. [Opening(amount, "PROCESSED") EXCEPT !.code = Empty] = Opening(amount, "PROCESSED")
    BY DEF Opening
  <2> QED
    BY <2>1, <2>2, <2>3, Zenon
<1>5. Transition(Opening(amount, "PENDING"), "PROCESSED", Empty) = Opening(amount, "PROCESSED")
  BY <1>3, <1>4 DEF Transition, Allowed
<1>6. /\ Opening(amount, "PROCESSED").kind = "OPENING"
      /\ Opening(amount, "PROCESSED").amount = amount
      /\ Opening(amount, "PROCESSED").status = "PROCESSED"
  BY DEF Opening
<1>7. amount # None
  BY RecordAssumption
<1>8. Fits(Opening(amount, "PROCESSED"), Columns(Opening(amount, "PROCESSED"), amount))
  BY <1>1, <1>6, <1>7 DEF Fits, Statuses
<1> QED
  BY <1>2, <1>5, <1>8

LEMMA OpenKeeps == ASSUME RecordInv, Open, UNCHANGED vars PROVE RecordInv'
<1>1. PICK amount \in Amounts \ {0} :
          LET t == Transition(NewOpeningTransaction(amount), "PROCESSED", Empty)
          IN  Commit(t, Columns(t, amount), balance)
  BY DEF Open
<1> DEFINE t == Opening(amount, "PROCESSED")
<1>2. amount \in Nat /\ amount > 0
  BY CasesAssumption
<1>3. /\ Transition(NewOpeningTransaction(amount), "PROCESSED", Empty) = t
      /\ Fits(t, Columns(t, amount))
  BY <1>2, OpeningFits
<1> HIDE DEF t
<1>4. Commit(t, Columns(t, amount), balance)
  BY <1>1, <1>3
<1>5. tx' = t /\ row' = Columns(t, amount) /\ balance' = balance /\ failure' = None
  BY <1>3, <1>4, CommitHolds
<1>6. Fits(tx', row')
  BY <1>3, <1>5
<1>7. row' # None /\ row'.status = tx'.status /\ tx'.status = "PROCESSED"
  BY <1>5, <1>6, FitsRow DEF t, Opening
<1>8. PendingOK'
  BY <1>7 DEF PendingOK
<1>9. CasesOK' /\ answer' = None
  BY DEF RecordInv, CasesOK, vars, Open
<1> QED
  BY <1>5, <1>6, <1>7, <1>8, <1>9 DEF RecordInv, DocumentedUnlessFailed

\* The answer to a row just stored, or found again.
LEMMA AnswerKeeps ==
    ASSUME Fits(tx', row'), answer' = HttpAnswer(ReplayResult(row'))
    PROVE  DocumentedUnlessFailed'
BY FitsAnswer DEF DocumentedUnlessFailed, Documented

LEMMA FailKeeps ==
    ASSUME RecordInv, UNCHANGED <<vars, balance, tx, row, answer>>, failure' = "OVERFLOW"
    PROVE  RecordInv'
<1>1. CasesOK'
  BY DEF RecordInv, CasesOK, vars
<1>2. PendingOK'
  BY WaitsStays DEF RecordInv, PendingOK, vars, Wellformed
<1>3. DocumentedUnlessFailed' /\ (answer' # None => row' # None)
  BY DEF RecordInv, DocumentedUnlessFailed
<1>4. row' # None => Fits(tx', row')
  BY DEF RecordInv
<1>5. balance' \in 0..MaxBalance /\ failure' \in {None, "OVERFLOW"}
  BY DEF RecordInv
<1> QED
  BY <1>1, <1>2, <1>3, <1>4, <1>5 DEF RecordInv

LEMMA SubmitWaits ==
    ASSUME RecordInv, Submit, UNCHANGED vars, request.ref # None, Outcome.action = "WAIT"
    PROVE  RecordInv'
<1> DEFINE t == Tx(Empty, "PENDING_REFERENCE", Empty)
<1>1. CasesOK /\ Wellformed(request) /\ CodeFits("PENDING_REFERENCE", Empty)
  BY DEF RecordInv, Submit, CodeFits
<1>2. NewExternalTransaction(request, ReferenceWhileWaiting) = Tx(Empty, "PENDING", Empty)
  BY <1>1, NewIs DEF ReferenceWhileWaiting
<1>3. Transition(Tx(Empty, "PENDING", Empty), "PENDING_REFERENCE", Empty) = t
  BY <1>1, TransitionIs DEF Statuses
<1>4. Fits(t, Columns(t, None))
  BY <1>1, TxFits DEF Statuses
<1>5. t # None
  BY <1>4, FitsAdmitted
<1> HIDE DEF t
<1>6. Commit(t, Columns(t, None), balance)
  BY <1>2, <1>3, <1>5 DEF Submit
<1>7. tx' = t /\ row' = Columns(t, None) /\ balance' = balance /\ failure' = None
  BY <1>4, <1>6, CommitHolds
<1>8. Fits(tx', row') /\ row' # None
  BY <1>4, <1>7, FitsRow
<1>9. answer' = HttpAnswer(ReplayResult(row'))
  BY <1>7 DEF Submit, ReplayResult
<1>10. CasesOK'
  BY <1>1 DEF CasesOK, vars
<1>11. PendingOK'
  <2>1. row' = Waits'
    BY <1>7, WaitsStays DEF t, Waits, vars
  <2>2. Wellformed(request)' /\ (request.ref # None)'
    BY <1>1 DEF vars, Wellformed
  <2> QED
    BY <2>1, <2>2 DEF PendingOK
<1>12. DocumentedUnlessFailed'
  BY <1>8, <1>9, AnswerKeeps
<1> QED
  BY <1>7, <1>8, <1>10, <1>11, <1>12 DEF RecordInv

LEMMA SubmitSettles ==
    ASSUME RecordInv, Submit, UNCHANGED vars, ~(request.ref # None /\ Outcome.action = "WAIT")
    PROVE  RecordInv'
<1> DEFINE ref == IF request.ref = None THEN Empty ELSE Resolved
<1>1. CasesOK /\ Wellformed(request) /\ row = None /\ balance \in 0..MaxBalance
  BY DEF RecordInv, Submit
<1>2. ref \in {Empty, ThatID}
  BY DEF Resolved
<1>3. Settle(NewExternalTransaction(request, ref), Outcome)
  BY DEF Submit
<1> HIDE DEF ref
<1>4. NewExternalTransaction(request, ref) = Tx(ref, "PENDING", Empty)
  BY <1>1, <1>2, NewIs
<1>5. DecisionOK(Outcome)
  BY <1>1, OutcomeOK
<1>6. Settle(Tx(ref, "PENDING", Empty), Outcome)
  BY <1>3, <1>4
<1>7. \/ failure' = "OVERFLOW" /\ UNCHANGED <<balance, tx, row>>
      \/ \E st \in {"PROCESSED", "REJECTED"}, code \in Codes \cup {Empty}, after \in 0..MaxBalance :
            Ends(ref, st, code, after) /\ balance' = after
  BY <1>1, <1>2, <1>5, <1>6, SettleHolds
<1>8. CASE failure' = "OVERFLOW" /\ UNCHANGED <<balance, tx, row>>
  <2>1. answer' = answer
    BY <1>8, RecordAssumption DEF Submit
  <2> QED
    BY <1>8, <2>1, FailKeeps
<1>9. ASSUME NEW st \in {"PROCESSED", "REJECTED"}, NEW code \in Codes \cup {Empty},
             NEW after \in 0..MaxBalance, Ends(ref, st, code, after), balance' = after
      PROVE  RecordInv'
  <2>1. /\ CasesOK' /\ balance' \in 0..MaxBalance /\ failure' = None
        /\ Fits(tx', row') /\ row' # None /\ PendingOK'
    BY <1>1, <1>2, <1>9, EndsKeeps
  <2>2. answer' = HttpAnswer(ReplayResult(row'))
    BY <2>1 DEF Submit, ReplayResult
  <2>3. DocumentedUnlessFailed'
    BY <2>1, <2>2, AnswerKeeps
  <2> QED
    BY <2>1, <2>3 DEF RecordInv
<1> QED
  BY <1>7, <1>8, <1>9

LEMMA ResubmitKeeps == ASSUME RecordInv, Resubmit, UNCHANGED vars PROVE RecordInv'
<1>1. /\ row # None /\ row' = row /\ tx' = tx /\ balance' = balance /\ failure' = failure
      /\ answer' = HttpAnswer(ReplayResult(row))
  BY DEF Resubmit
<1>2. Fits(tx', row')
  BY <1>1 DEF RecordInv
<1>3. DocumentedUnlessFailed'
  BY <1>1, <1>2, AnswerKeeps
<1>4. CasesOK'
  BY DEF RecordInv, CasesOK, vars
<1>5. PendingOK'
  BY <1>1, WaitsStays DEF RecordInv, PendingOK, vars, Wellformed
<1> QED
  BY <1>1, <1>2, <1>3, <1>4, <1>5 DEF RecordInv

\* Until it ends, a waiting operation was answered as documented.
LEMMA WaitingIsDocumented ==
    ASSUME RecordInv, row # None, row.status = "PENDING_REFERENCE"
    PROVE  answer # None => Documented(answer)
BY DEF RecordInv, DocumentedUnlessFailed

LEMMA ResumeKeeps ==
    ASSUME RecordInv, NEW expired \in BOOLEAN, ResumePending(expired), UNCHANGED vars
    PROVE  RecordInv'
<1> DEFINE stored == Tx(Empty, "PENDING_REFERENCE", Empty)
           ref    == IF Reference = None THEN Empty ELSE ThatID
           d      == PendingDecision(expired)
<1>1. row # None /\ row.status = "PENDING_REFERENCE" /\ answer' = answer
  BY DEF ResumePending
<1>2. /\ CasesOK /\ Wellformed(request) /\ request.ref # None /\ row = Waits
      /\ balance \in 0..MaxBalance
  BY <1>1 DEF RecordInv, PendingOK
<1>3. Rehydrate(row) = stored
  BY <1>1, PendingReadsBack
<1>4. stored # None
  <2>1. CodeFits("PENDING_REFERENCE", Empty)
    BY DEF CodeFits
  <2> QED
    BY <1>2, <2>1, TxIsValid, RecordAssumption DEF Statuses
<1>5. (IF stored = None \/ Reference = None THEN stored
       ELSE ResolveReference(stored, Resolved)) = Tx(ref, "PENDING_REFERENCE", Empty)
  BY <1>4, ResolvedIs, StringsAreNotEmpty DEF Resolved
<1>6. d.action # "WAIT" /\ Settle(Tx(ref, "PENDING_REFERENCE", Empty), d)
  <2> HIDE DEF stored, ref
  <2>1. LET resolved == IF stored = None \/ Reference = None THEN stored
                        ELSE ResolveReference(stored, Resolved)
        IN  d.action # "WAIT" /\ Settle(resolved, d)
    BY <1>3, Zenon DEF ResumePending
  <2> QED
    BY <1>5, <2>1, Zenon
<1>7. DecisionOK(d)
  BY <1>2, <1>6, PendingDecisionOK
<1>8. ref \in {Empty, ThatID}
  OBVIOUS
<1> HIDE DEF ref, d, stored
<1>9. \/ failure' = "OVERFLOW" /\ UNCHANGED <<balance, tx, row>>
      \/ \E st \in {"PROCESSED", "REJECTED"}, code \in Codes \cup {Empty}, after \in 0..MaxBalance :
            Ends(ref, st, code, after) /\ balance' = after
  BY <1>2, <1>6, <1>7, <1>8, SettleHolds
<1>10. CASE failure' = "OVERFLOW" /\ UNCHANGED <<balance, tx, row>>
  BY <1>1, <1>10, FailKeeps
<1>11. ASSUME NEW st \in {"PROCESSED", "REJECTED"}, NEW code \in Codes \cup {Empty},
             NEW after \in 0..MaxBalance, Ends(ref, st, code, after), balance' = after
       PROVE  RecordInv'
  <2>1. /\ CasesOK' /\ balance' \in 0..MaxBalance /\ failure' = None
        /\ Fits(tx', row') /\ row' # None /\ PendingOK'
    BY <1>2, <1>8, <1>11, EndsKeeps
  <2>2. DocumentedUnlessFailed'
    BY <1>1, WaitingIsDocumented DEF DocumentedUnlessFailed, Documented
  <2> QED
    BY <2>1, <2>2 DEF RecordInv
<1> QED
  BY <1>9, <1>10, <1>11

LEMMA FailPendingKeeps == ASSUME RecordInv, FailPending, UNCHANGED vars PROVE RecordInv'
<1> DEFINE stored == Tx(Empty, "PENDING_REFERENCE", Empty)
           code   == "PERMANENT_PROCESSING_FAILURE"
           t      == Tx(Empty, "FAILED", code)
<1>1. row # None /\ row.status = "PENDING_REFERENCE" /\ answer' = answer
  BY DEF FailPending
<1>2. CasesOK /\ Wellformed(request) /\ row = Waits /\ balance \in 0..MaxBalance
  BY <1>1 DEF RecordInv, PendingOK
<1>3. Rehydrate(row) = stored
  BY <1>1, PendingReadsBack
<1>4. code \in Codes /\ CodeFits("FAILED", code)
  BY DEF Codes, CodeFits
<1>5. Transition(stored, "FAILED", code) = t
  BY <1>2, <1>4, TransitionIs DEF Statuses
<1>6. Fits(t, Columns(t, None))
  BY <1>2, <1>4, TxFits DEF Statuses
<1>7. t # None
  BY <1>6, FitsAdmitted
<1>8. CompletePending(row, t, None) = Columns(t, None)
  BY <1>2, CompletedIs
<1>9. Commit(t, Columns(t, None), balance)
  <2> HIDE DEF stored, t
  <2> QED
    BY <1>3, <1>5, <1>7, <1>8 DEF FailPending
<1>10. t.status = "FAILED"
  BY TxFields
<1> HIDE DEF t
<1>11. tx' = t /\ row' = Columns(t, None) /\ balance' = balance /\ failure' = None
  BY <1>6, <1>9, CommitHolds
<1>12. Fits(tx', row') /\ row' # None /\ row'.status = "FAILED"
  BY <1>6, <1>10, <1>11, FitsRow
<1>13. PendingOK'
  BY <1>12 DEF PendingOK
<1>14. DocumentedUnlessFailed'
  BY <1>1, WaitingIsDocumented DEF DocumentedUnlessFailed, Documented
<1>15. CasesOK'
  BY <1>2 DEF CasesOK, vars
<1> QED
  BY <1>2, <1>11, <1>12, <1>13, <1>14, <1>15 DEF RecordInv

\* The wallet's other operations, and the reference's own life, leave the record.
LEMMA OthersKeep ==
    ASSUME RecordInv, [Next]_vars, UNCHANGED <<tx, row, answer, failure>>,
           balance' \in 0..MaxBalance
    PROVE  RecordInv'
<1>1. CasesOK'
  BY CasesStep DEF RecordInv
<1>2. request' = request
  BY DEF Next, Store, Resume, Reverse, vars
<1>3. PendingOK'
  BY <1>2, WaitsStays DEF RecordInv, PendingOK, Wellformed
<1>4. DocumentedUnlessFailed' /\ (answer' # None => row' # None)
  BY DEF RecordInv, DocumentedUnlessFailed
<1>5. (row' # None => Fits(tx', row')) /\ failure' \in {None, "OVERFLOW"}
  BY DEF RecordInv
<1> QED
  BY <1>1, <1>3, <1>4, <1>5 DEF RecordInv

LEMMA RecordStep == RecordInv /\ [RecordNext]_<<vars, recordVars>> => RecordInv'
<1> SUFFICES ASSUME RecordInv, [RecordNext]_<<vars, recordVars>>
             PROVE  RecordInv'
  OBVIOUS
<1>1. CASE [Next]_vars /\ UNCHANGED recordVars
  <2>1. balance' \in 0..MaxBalance
    BY <1>1 DEF RecordInv, recordVars
  <2> QED
    BY <1>1, <2>1, OthersKeep DEF recordVars
<1>2. CASE Elsewhere /\ UNCHANGED vars
  BY <1>2, OthersKeep DEF Elsewhere
<1>3. CASE Open /\ UNCHANGED vars
  BY <1>3, OpenKeeps
<1>4. CASE Submit /\ UNCHANGED vars
  BY <1>4, SubmitWaits, SubmitSettles
<1>5. CASE Resubmit /\ UNCHANGED vars
  BY <1>5, ResubmitKeeps
<1>6. CASE FailPending /\ UNCHANGED vars
  BY <1>6, FailPendingKeeps
<1>7. ASSUME NEW expired \in BOOLEAN, ResumePending(expired), UNCHANGED vars
      PROVE  RecordInv'
  BY <1>7, ResumeKeeps
<1> QED
  BY <1>1, <1>2, <1>3, <1>4, <1>5, <1>6, <1>7 DEF RecordNext

LEMMA RecordInvariance == RecordSpec => []RecordInv
BY RecordInitially, RecordStep, PTL DEF RecordSpec

\* No call of the use case that the rules let through is refused by the
\* aggregate, the ledger entry, the event or the schema, whatever the balance.
THEOREM LayersAgree == RecordSpec => []EveryLayerAgrees
<1>1. RecordInv => EveryLayerAgrees
  BY DEF RecordInv, EveryLayerAgrees
<1> QED
  BY <1>1, RecordInvariance, PTL

\* A stored row reads back as its aggregate, for the worker, for the lookup of a
\* reference and for the read API.
THEOREM RowsAreReadBack == RecordSpec => []RowsReadBack
<1>1. RecordInv => RowsReadBack
  <2> SUFFICES ASSUME RecordInv, row # None
               PROVE  LET d == DetailResponse(TransactionDetail(row)) IN
                      /\ row.origin = "EXTERNAL" => Rehydrate(row) = tx
                      /\ d.status = tx.status
                      /\ (d.metadata # None) = (tx.origin = "EXTERNAL")
                      /\ (d.code # None)     = (tx.status \in {"REJECTED", "FAILED"})
                      /\ (d.balance # None)  = (tx.status \in {"PROCESSED", "REJECTED"})
                      /\ (d.schedule # None) = (tx.status = "PENDING_REFERENCE")
                      /\ (d.ref # None)      = (tx.ref # Empty)
    BY Zenon DEF RowsReadBack
  <2>1. Fits(tx, row)
    BY DEF RecordInv
  <2>2. row.origin = "EXTERNAL" => Rehydrate(row) = tx
    BY <2>1, FitsRow, FitsReadsBack
  <2> QED
    BY <2>1, <2>2, FitsDetail
<1> QED
  BY <1>1, RecordInvariance, PTL

\* README.md:224-228 describes every answer of POST /wagering/transactions but one:
\* the replay of an operation that failed permanently.
THEOREM OnlyFailedReplaysDiverge ==
    RecordSpec => [](answer # None =>
                        \/ Documented(answer)
                        \/ row.status = "FAILED" /\ answer.code = 200 /\ answer.body = None)
<1>1. RecordInv =>
        (answer # None =>
            \/ Documented(answer)
            \/ row.status = "FAILED" /\ answer.code = 200 /\ answer.body = None)
  BY DEF RecordInv, DocumentedUnlessFailed
<1> QED
  BY <1>1, RecordInvariance, PTL

-----------------------------------------------------------------------------
(* Wrapping is the identity on what the type can hold.                     *)

\* A number below the modulus is its own remainder.
LEMMA ModuloBelow ==
    ASSUME NEW m \in Nat, m > 0, NEW n \in 0..(m - 1)
    PROVE  n % m = n
  BY Z3

\* Arithmetic that stays within int64 is not affected by its width.
LEMMA WrapIsIdentity ==
    ASSUME NEW n \in Int64
    PROVE  Wrap(n) = n
<1>1. n - MinInt \in 0..(2 * (MaxInt + 1) - 1)
  BY WidthAssumption DEF Int64, MinInt
<1>2. (n - MinInt) % (2 * (MaxInt + 1)) = n - MinInt
  BY <1>1, ModuloBelow, WidthAssumption
<1> QED
  BY <1>2, WidthAssumption DEF Wrap, Int64, MinInt

\* The same for durations.
LEMMA WrapDurationIsIdentity ==
    ASSUME NEW n \in 0..MaxDuration
    PROVE  WrapDuration(n) = n
<1>1. n + MaxDuration + 1 \in 0..(2 * (MaxDuration + 1) - 1)
  BY DurationAssumption
<1>2. (n + MaxDuration + 1) % (2 * (MaxDuration + 1)) = n + MaxDuration + 1
  BY <1>1, ModuloBelow, DurationAssumption
<1> QED
  BY <1>2, DurationAssumption DEF WrapDuration

-----------------------------------------------------------------------------
(* The guards, each against the sum it protects.                           *)

\* parseMinorUnits stops at the digit that leaves int64, and at no other.
LEMMA DigitGuardIsExact ==
    ASSUME units \in 0..MaxInt, NEW d \in 0..9
    PROVE  /\ DigitOverflows(d) <=> units * 10 + d > MaxInt
           /\ ~DigitOverflows(d) => Wrap(Wrap(units * 10) + d) = units * 10 + d
<1>1. Wrap(MaxInt - d) = MaxInt - d
  BY WrapIsIdentity, WidthAssumption DEF Int64, MinInt
<1>2. DigitOverflows(d) <=> units * 10 + d > MaxInt
  BY <1>1, WidthAssumption DEF DigitOverflows
<1>3. ASSUME ~DigitOverflows(d)
      PROVE  Wrap(Wrap(units * 10) + d) = units * 10 + d
  <2>1. units * 10 \in Int64 /\ units * 10 + d \in Int64
    BY <1>2, <1>3, WidthAssumption DEF Int64, MinInt
  <2> QED
    BY <2>1, WrapIsIdentity
<1> QED
  BY <1>2, <1>3

\* Add refuses exactly the sums that are no Money.
LEMMA AddGuardIsExact ==
    ASSUME units \in MoneyUnits, NEW n \in MoneyUnits
    PROVE  AddOverflows(n) <=> units + n \notin MoneyUnits
<1>1. CASE n > 0
  <2>1. Wrap(MaxInt - n) = MaxInt - n
    BY <1>1, WrapIsIdentity, WidthAssumption DEF Int64, MinInt, MoneyUnits
  <2> QED
    BY <1>1, <2>1, WidthAssumption DEF AddOverflows, MoneyUnits, MinInt
<1>2. CASE n < 0
  <2>1. Wrap(MinInt - n) = MinInt - n
    BY <1>2, WrapIsIdentity, WidthAssumption DEF Int64, MinInt, MoneyUnits
  <2> QED
    BY <1>2, <2>1, WidthAssumption DEF AddOverflows, MoneyUnits, MinInt
<1>3. CASE n = 0
  BY <1>3, WidthAssumption DEF AddOverflows, MoneyUnits
<1> QED
  BY <1>1, <1>2, <1>3, WidthAssumption DEF MoneyUnits

\* Subtract refuses exactly the differences that are no Money.
LEMMA SubtractGuardIsExact ==
    ASSUME units \in MoneyUnits, NEW n \in MoneyUnits
    PROVE  SubtractOverflows(n) <=> units - n \notin MoneyUnits
<1>1. CASE n > 0
  <2>1. Wrap(MinInt + n) = MinInt + n
    BY <1>1, WrapIsIdentity, WidthAssumption DEF Int64, MinInt, MoneyUnits
  <2> QED
    BY <1>1, <2>1, WidthAssumption DEF SubtractOverflows, MoneyUnits, MinInt
<1>2. CASE n < 0
  <2>1. Wrap(MaxInt + n) = MaxInt + n
    BY <1>2, WrapIsIdentity, WidthAssumption DEF Int64, MinInt, MoneyUnits
  <2> QED
    BY <1>2, <2>1, WidthAssumption DEF SubtractOverflows, MoneyUnits, MinInt
<1>3. CASE n = 0
  BY <1>3, WidthAssumption DEF SubtractOverflows, MoneyUnits
<1> QED
  BY <1>1, <1>2, <1>3, WidthAssumption DEF MoneyUnits

-----------------------------------------------------------------------------
(* Money.                                                                  *)

MoneyInv ==
    /\ stage \in {"parsing", "money", "OVERFLOW"}
    /\ exact \in Int
    /\ AmountsAreExact
    /\ OnlyOverflowsAreRefused

LEMMA MoneyInvInit == MoneyInit => MoneyInv
  BY WidthAssumption
  DEF MoneyInit, MoneyInv, AmountsAreExact, OnlyOverflowsAreRefused, Accepts, Int64,
      MoneyUnits, MinInt

\* A movement either is exact or leaves the range of Money.
LEMMA MovementKeepsMoneyInv ==
    ASSUME MoneyInv, NEW STATE refused, NEW STATE sum, sum \in Int, Becomes(refused, sum, sum),
           refused <=> sum \notin MoneyUnits
    PROVE  MoneyInv'
<1>1. CASE refused
  BY <1>1 DEF Becomes, MoneyInv, AmountsAreExact, OnlyOverflowsAreRefused, MoneyUnits
<1>2. CASE ~refused
  <2>1. sum \in Int64
    BY <1>2, WidthAssumption DEF MoneyUnits, Int64, MinInt
  <2> QED
    BY <1>2, <2>1, WrapIsIdentity
    DEF Becomes, MoneyInv, AmountsAreExact, OnlyOverflowsAreRefused, MoneyUnits
<1> QED
  BY <1>1, <1>2

LEMMA MoneyInvStep == MoneyInv /\ [MoneyNext]_moneyVars => MoneyInv'
<1> SUFFICES ASSUME MoneyInv, [MoneyNext]_moneyVars PROVE MoneyInv'
  OBVIOUS
<1>1. ASSUME NEW d \in 0..9, ReadDigit(d) PROVE MoneyInv'
  <2>1. units \in 0..MaxInt /\ units = exact
    BY <1>1 DEF ReadDigit, MoneyInv, AmountsAreExact
  <2>2. /\ DigitOverflows(d) <=> exact' > MaxInt
        /\ ~DigitOverflows(d) => Wrap(Wrap(units * 10) + d) = exact'
    BY <1>1, <2>1, DigitGuardIsExact DEF ReadDigit
  <2>3. exact' \in Int /\ exact' >= 0
    BY <1>1, <2>1, WidthAssumption DEF ReadDigit
  <2> QED
    BY <1>1, <2>2, <2>3, WidthAssumption
    DEF ReadDigit, MoneyInv, AmountsAreExact, OnlyOverflowsAreRefused, MoneyUnits
<1>2. CASE Parsed
  BY <1>2, WidthAssumption
  DEF Parsed, MoneyInv, AmountsAreExact, OnlyOverflowsAreRefused, Accepts, MoneyUnits, MinInt
<1>3. ASSUME NEW n \in MoneyUnits, Add(n) PROVE MoneyInv'
  <2>1. units \in MoneyUnits /\ units = exact
    BY <1>3 DEF Add, Becomes, MoneyInv, AmountsAreExact
  <2>2. units + n \in Int /\ exact + n = units + n
    BY <2>1, WidthAssumption DEF MoneyUnits
  <2> QED
    BY <1>3, <2>1, <2>2, AddGuardIsExact, MovementKeepsMoneyInv DEF Add
<1>4. ASSUME NEW n \in MoneyUnits, Subtract(n) PROVE MoneyInv'
  <2>1. units \in MoneyUnits /\ units = exact
    BY <1>4 DEF Subtract, Becomes, MoneyInv, AmountsAreExact
  <2>2. units - n \in Int /\ exact - n = units - n
    BY <2>1, WidthAssumption DEF MoneyUnits
  <2> QED
    BY <1>4, <2>1, <2>2, SubtractGuardIsExact, MovementKeepsMoneyInv DEF Subtract
<1>5. CASE Negate
  <2>1. units \in MoneyUnits /\ units = exact
    BY <1>5 DEF Negate, Becomes, MoneyInv, AmountsAreExact
  <2>2. -units \in MoneyUnits /\ units # MinInt /\ -exact = -units /\ -units \in Int
    BY <2>1, WidthAssumption DEF MoneyUnits, MinInt
  <2> QED
    BY <1>5, <2>2, MovementKeepsMoneyInv DEF Negate
<1>6. CASE UNCHANGED moneyVars
  BY <1>6 DEF moneyVars, MoneyInv, AmountsAreExact, OnlyOverflowsAreRefused
<1> QED
  BY <1>1, <1>2, <1>3, <1>4, <1>5, <1>6 DEF MoneyNext

\* The magnitude of an amount fits the unsigned integer it is formatted from.
LEMMA MagnitudeIsAbsolute ==
    ASSUME NEW n \in MoneyUnits
    PROVE  (IF n < 0 THEN Wrap(-n) ELSE n) % (2 * (MaxInt + 1)) = IF n < 0 THEN -n ELSE n
<1> DEFINE magnitude == IF n < 0 THEN -n ELSE n
<1>1. magnitude \in 0..(2 * (MaxInt + 1) - 1) /\ magnitude \in Int64
  BY WidthAssumption DEF MoneyUnits, Int64, MinInt
<1>2. (IF n < 0 THEN Wrap(-n) ELSE n) = magnitude
  BY <1>1, WrapIsIdentity
<1>3. magnitude % (2 * (MaxInt + 1)) = magnitude
  BY <1>1, ModuloBelow, WidthAssumption
<1> QED
  BY <1>2, <1>3

\* Units and cents make up the magnitude.
LEMMA UnitsAndCents ==
    ASSUME NEW n \in Nat
    PROVE  n % 100 \in 0..99 /\ n = 100 * (n \div 100) + (n % 100) /\ n \div 100 \in Nat
  BY Z3

LEMMA DecimalIsExact == AmountsAreExact => DecimalDenotesAmount
<1> SUFFICES ASSUME stage = "money", units \in MoneyUnits
             PROVE  /\ Decimal(units).cents \in 0..99
                    /\ units = (IF Decimal(units).negative THEN -1 ELSE 1)
                                 * (100 * Decimal(units).major + Decimal(units).cents)
  BY DEF AmountsAreExact, DecimalDenotesAmount
<1> DEFINE magnitude == IF units < 0 THEN -units ELSE units
<1>1. magnitude \in Nat /\ units \in Int
  BY WidthAssumption DEF MoneyUnits
<1>2. Decimal(units) = [negative |-> units < 0, major |-> magnitude \div 100,
                        cents |-> magnitude % 100]
  BY MagnitudeIsAbsolute DEF Decimal
<1>3. /\ magnitude % 100 \in 0..99
      /\ magnitude = 100 * (magnitude \div 100) + (magnitude % 100)
      /\ magnitude \div 100 \in Nat
  BY <1>1, UnitsAndCents
<1>4. units = IF units < 0 THEN -magnitude ELSE magnitude
  BY <1>1
<1> HIDE DEF magnitude
<1>5. /\ Decimal(units).negative = (units < 0)
      /\ Decimal(units).major = magnitude \div 100
      /\ Decimal(units).cents = magnitude % 100
  BY <1>2
<1> DEFINE total == 100 * (magnitude \div 100) + (magnitude % 100)
<1>6. (IF units < 0 THEN -1 ELSE 1) * total = IF units < 0 THEN -total ELSE total
  <2>1. total \in Int
    BY <1>1, <1>3
  <2> HIDE DEF total
  <2> QED
    BY <2>1
<1> QED
  BY <1>3, <1>4, <1>5, <1>6

\* Whatever digits are read and whatever movements follow, at any width: an
\* amount is what exact arithmetic gives and can be negated, nothing is refused
\* that would have fitted, and what is written denotes what is stored.
THEOREM MoneyExact == MoneySpec => []MoneyIsExact
<1>1. MoneyInv => MoneyIsExact
  BY DecimalIsExact DEF MoneyInv, MoneyIsExact
<1> QED
  BY <1>1, MoneyInvInit, MoneyInvStep, PTL DEF MoneySpec

-----------------------------------------------------------------------------
(* Backoff.                                                                *)

BackoffInv ==
    /\ base \in Delays /\ limit \in Delays /\ base <= limit
    /\ attempt \in Int /\ rounds \in Nat /\ doubled \in Nat
    /\ at \in {"loop", "returned", "jittered"}
    /\ at # "jittered" => delay \in Nat /\ delay <= limit
    /\ DelayIsCappedDoubling
    /\ JitterStaysInRange

LEMMA BackoffInvInit == BackoffInit => BackoffInv
  BY DurationAssumption
  DEF BackoffInit, BackoffInv, DelayIsCappedDoubling, JitterStaysInRange, Lesser

\* Half of a delay, rounded down.
LEMMA Half ==
    ASSUME NEW n \in Nat
    PROVE  n \div 2 \in Nat /\ 2 * (n \div 2) <= n /\ n < 2 * (n \div 2) + 2
  BY Z3

LEMMA BackoffInvStep == BackoffInv /\ [BackoffNext]_backoffVars => BackoffInv'
<1> SUFFICES ASSUME BackoffInv, [BackoffNext]_backoffVars PROVE BackoffInv'
  OBVIOUS
<1>0. /\ MaxDuration \in Nat /\ limit \in Nat /\ limit \in 1..MaxDuration
      /\ limit + limit \div 2 <= MaxDuration
  BY DurationAssumption DEF BackoffInv
<1>1. CASE Iterate
  <2>1. /\ delay = doubled /\ delay \in Nat /\ delay <= limit
        /\ rounds \in Nat /\ attempt \in Int /\ rounds < attempt
    BY <1>1 DEF Iterate, BackoffInv, DelayIsCappedDoubling
  <2>2. CASE delay > limit \div 2
    <3>1. doubled' > limit /\ doubled' \in Nat
      BY <1>0, <1>1, <2>1, <2>2 DEF Iterate
    <3>2. delay' = limit /\ at' = "returned"
      BY <1>1, <2>2 DEF Iterate, Double
    <3> QED
      BY <1>0, <1>1, <3>1, <3>2
      DEF Iterate, BackoffInv, DelayIsCappedDoubling, JitterStaysInRange, Lesser
  <2>3. CASE ~(delay > limit \div 2)
    <3>1. delay * 2 \in 0..MaxDuration /\ delay * 2 <= limit
      BY <1>0, <2>1, <2>3, Half
    <3>2. delay' = delay * 2 /\ doubled' = delay * 2
      BY <1>1, <2>1, <2>3, <3>1, WrapDurationIsIdentity DEF Iterate, Double
    <3>3. at' = IF rounds + 1 = attempt THEN "returned" ELSE "loop"
      BY <1>1, <2>3 DEF Iterate, Double
    <3> QED
      BY <1>0, <1>1, <2>1, <3>1, <3>2, <3>3
      DEF Iterate, BackoffInv, DelayIsCappedDoubling, JitterStaysInRange, Lesser
  <2> QED
    BY <2>2, <2>3
<1>2. CASE Jitter
  <2>1. delay = Lesser(doubled, limit) /\ delay \in Nat /\ delay <= limit /\ doubled \in Nat
    BY <1>2 DEF Jitter, BackoffInv, DelayIsCappedDoubling
  <2>2. PICK r \in 0..(delay \div 2) : delay' = WrapDuration(delay + r)
    BY <1>2 DEF Jitter, Spread
  <2>3. /\ delay + r \in 0..MaxDuration
        /\ delay <= delay + r /\ 2 * (delay + r) <= 3 * delay
    <3>1. /\ r \in Nat /\ r <= delay \div 2 /\ delay \div 2 <= limit \div 2
          /\ 2 * (delay \div 2) <= delay
      BY <1>0, <2>1, <2>2, Half
    <3> QED
      BY <1>0, <2>1, <3>1, Half
  <2>4. delay' = delay + r
    BY <2>2, <2>3, WrapDurationIsIdentity
  <2>5. at' = "jittered" /\ UNCHANGED <<base, limit, attempt, rounds, doubled>>
    BY <1>2 DEF Jitter
  <2>6. JitterStaysInRange'
    BY <2>1, <2>3, <2>4, <2>5 DEF JitterStaysInRange, Lesser
  <2> QED
    BY <2>5, <2>6 DEF BackoffInv, DelayIsCappedDoubling
<1>3. CASE UNCHANGED backoffVars
  BY <1>3 DEF backoffVars, BackoffInv, DelayIsCappedDoubling, JitterStaysInRange, Lesser
<1> QED
  BY <1>1, <1>2, <1>3 DEF BackoffNext

\* For every base, limit and number of attempts the schedule doubles up to its
\* limit, nowhere overflows, and jitter spreads it by half the delay at most.
THEOREM DelaysBounded == BackoffSpec => []DelaysAreBounded
<1>1. BackoffInv => DelaysAreBounded
  BY DEF BackoffInv, DelaysAreBounded
<1> QED
  BY <1>1, BackoffInvInit, BackoffInvStep, PTL DEF BackoffSpec
=============================================================================
