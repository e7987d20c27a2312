------------------------- MODULE TransactionRecord --------------------------
(***************************************************************************)
(* One wager transaction in its five representations: the aggregate of     *)
(* internal/domain/wallet, the wager_transactions row the schema checks,   *)
(* the aggregate rehydrated from that row, the event about it, and what    *)
(* HTTP answers of it.  The rules that admit a transaction are written     *)
(* down once per representation, and a transaction that one of them admits *)
(* and another refuses can neither finish nor be read.                     *)
(*                                                                         *)
(* The request, the reference and the reference's life are those of        *)
(* RuleCases.  A Go string that does not apply is "", a column that does   *)
(* not apply is None (NULL).  "metadata" stands for the six columns of an  *)
(* external row; "schedule" for next_attempt_at and pending_expires_at.    *)
(***************************************************************************)
EXTENDS RuleCases

CONSTANT MaxBalance   \* the largest balance a Money holds

VARIABLES
    balance,   \* the wallet's balance
    tx,        \* the aggregate as the last committed call left it
    row,       \* its row, None while not stored
    answer,    \* the last HTTP answer, None before any
    failure    \* what the last call failed with, None if it did not

recordVars == <<balance, tx, row, answer, failure>>

ThatID == "that"     \* the identifier of the stored reference
Empty  == ""         \* the Go string of what does not apply

-----------------------------------------------------------------------------
(* The aggregate.  None is a constructor or a transition that failed.      *)

Valid(t) ==
    /\ t.amount >= 0
    /\ t.origin = "INTERNAL" =>
          t.kind = "OPENING" /\ t.metadata = Empty /\ t.refExternal = Empty /\ t.ref = Empty
    /\ t.origin = "EXTERNAL" => t.kind # "OPENING" /\ t.metadata # Empty
    /\ t.kind \in {"REFUND", "ROLLBACK"} => t.refExternal # Empty
    /\ (t.status \in {"REJECTED", "FAILED"}) = (t.code # Empty)

IfValid(t) == IF Valid(t) THEN t ELSE None

NewExternalTransaction(p, ref) ==
    IfValid([origin |-> "EXTERNAL", kind |-> p.kind, amount |-> p.amount, metadata |-> p.ext,
             refExternal |-> IF p.ref = None THEN Empty ELSE p.ref, ref |-> ref,
             status |-> "PENDING", code |-> Empty])

NewOpeningTransaction(amount) ==
    IfValid([origin |-> "INTERNAL", kind |-> "OPENING", amount |-> amount, metadata |-> Empty,
             refExternal |-> Empty, ref |-> Empty, status |-> "PENDING", code |-> Empty])

\* isAllowedTransition.
Allowed(from, to) ==
    \/ from = "PENDING" /\ to # "PENDING"
    \/ from = "PENDING_REFERENCE" /\ to \in {"PROCESSED", "REJECTED", "FAILED"}

Transition(t, next, code) ==
    IF t # None /\ Allowed(t.status, next) /\ (next \in {"REJECTED", "FAILED"}) = (code # Empty)
    THEN [t EXCEPT !.status = next, !.code = code] ELSE None

ResolveReference(t, ref) ==
    IF t.status = "PENDING_REFERENCE" /\ ref # Empty /\ t.ref = Empty
    THEN [t EXCEPT !.ref = ref] ELSE None

-----------------------------------------------------------------------------
(* The row.                                                                *)

NullIfEmpty(s) == IF s = Empty THEN None ELSE s
EmptyIfNull(c) == IF c = None THEN Empty ELSE c

\* transactionFields, and the columns that only a pending row has.
Columns(t, resulting) ==
    [origin |-> t.origin, kind |-> t.kind, amount |-> t.amount,
     metadata |-> IF t.origin = "EXTERNAL" THEN t.metadata ELSE None,
     refExternal |-> NullIfEmpty(t.refExternal), ref |-> NullIfEmpty(t.ref),
     status |-> t.status, code |-> NullIfEmpty(t.code),
     resulting |-> resulting,
     schedule |-> IF t.status = "PENDING_REFERENCE" THEN "set" ELSE None]

\* Mutant: the schedule is left behind.
CompleteKeepingSchedule(old, t, resulting) ==
    [old EXCEPT !.ref = NullIfEmpty(t.ref), !.status = t.status,
                !.code = NullIfEmpty(t.code), !.resulting = resulting]

\* CompletePending writes the columns that an ending changes.
CompletePending(old, t, resulting) ==
    [old EXCEPT !.ref = NullIfEmpty(t.ref), !.status = t.status,
                !.code = NullIfEmpty(t.code), !.resulting = resulting,
                !.schedule = None]

\* The CHECKs of migration 0004.
SchemaAdmits(c) ==
    /\ c.status \in Statuses
    /\ \/ /\ c.origin = "INTERNAL" /\ c.kind = "OPENING"
          /\ c.metadata = None /\ c.refExternal = None /\ c.ref = None
       \/ c.origin = "EXTERNAL" /\ c.kind # "OPENING" /\ c.metadata # None
    /\ c.kind \in {"REFUND", "ROLLBACK"} => c.refExternal # None
    /\ (c.status \in {"REJECTED", "FAILED"}) = (c.code # None)
    /\ IF c.status \in {"PROCESSED", "REJECTED"}
       THEN c.resulting # None /\ c.resulting >= 0
       ELSE c.resulting = None
    /\ IF c.kind = "LOSS" THEN c.amount = 0 ELSE c.amount > 0

\* FindReference and FindPendingForUpdate, up to the columns they scan into
\* values that cannot be NULL.
Rehydrate(c) ==
    IF c.metadata = None THEN None
    ELSE IfValid([origin |-> c.origin, kind |-> c.kind, amount |-> c.amount,
                  metadata |-> c.metadata, refExternal |-> EmptyIfNull(c.refExternal),
                  ref |-> EmptyIfNull(c.ref), status |-> c.status, code |-> EmptyIfNull(c.code)])

-----------------------------------------------------------------------------
(* The wallet and its ledger entry.                                        *)

\* move: its error, None when there is none, and the balance after it.
Move(direction, amount) ==
    LET moved(error, after) == [error |-> error, after |-> after] IN
    CASE direction = "NONE"                            -> moved(None, balance)
      [] direction = "DEBIT" /\ balance < amount       -> moved("INSUFFICIENT", balance)
      [] direction = "DEBIT" /\ balance >= amount      -> moved(None, balance - amount)
      [] direction = "CREDIT" /\ balance > MaxBalance - amount
                                                       -> moved("OVERFLOW", balance)
      [] direction = "CREDIT" /\ balance <= MaxBalance - amount
                                                       -> moved(None, balance + amount)

\* NewWalletLedgerEntry, and the CHECKs of migration 0005.
EntryAdmits(direction, amount, after) ==
    direction # "NONE" =>
        /\ amount > 0 /\ balance >= 0 /\ after >= 0
        /\ after = IF direction = "DEBIT" THEN balance - amount ELSE balance + amount

\* The event constructors on the transaction; a FAILED one has no event.
EventAdmits(t) ==
    CASE t.status = "REJECTED"          -> t.code # Empty
      [] t.status = "PENDING_REFERENCE" -> t.refExternal # Empty
      [] OTHER                          -> t.status \in {"PROCESSED", "FAILED"}

-----------------------------------------------------------------------------
(* HTTP: the answer has a code and a body; a body that does not encode is  *)
(* None, and the code is already sent.                                     *)

\* replayResult: NULL leaves the balance at the zero Money, which is no Money.
ReplayResult(c) == [status |-> c.status, code |-> c.code, balance |-> c.resulting]

\* Mutant: the balance is always part of the body.
AlwaysWithBalance(s) == TRUE

WithBalance(s) == s # "PENDING_REFERENCE"

HttpAnswer(result) ==
    [code |-> CASE result.status = "REJECTED"          -> 422
                [] result.status = "PENDING_REFERENCE" -> 202
                [] OTHER                               -> 200,
     body |-> IF WithBalance(result.status) /\ result.balance = None
              THEN None ELSE result]

\* scanTransactionDetail: what does not apply is "", but for the balance.
TransactionDetail(c) ==
    [metadata |-> EmptyIfNull(c.metadata), refExternal |-> EmptyIfNull(c.refExternal),
     ref |-> EmptyIfNull(c.ref), code |-> EmptyIfNull(c.code), status |-> c.status,
     balance |-> c.resulting, schedule |-> c.schedule]

\* toTransactionDetailResponse: "" becomes null again.
DetailResponse(d) ==
    [d EXCEPT !.metadata = NullIfEmpty(@), !.refExternal = NullIfEmpty(@),
              !.ref = NullIfEmpty(@), !.code = NullIfEmpty(@)]

-----------------------------------------------------------------------------
(* The calls.  Each commits everything it writes, or nothing.              *)

Fail(error) ==
    /\ failure' = error
    /\ UNCHANGED <<balance, tx, row>>

Commit(t, columns, after) ==
    IF t = None THEN Fail("TRANSACTION")
    ELSE IF ~SchemaAdmits(columns) THEN Fail("SCHEMA")
    ELSE IF ~EventAdmits(t) THEN Fail("EVENT")
    ELSE /\ tx' = t
         /\ row' = columns
         /\ balance' = after
         /\ failure' = None

\* OpenWallet with a positive initial balance; the wallet is another one.
Open ==
    /\ row = None
    /\ \E amount \in Amounts \ {0} :
         LET t == Transition(NewOpeningTransaction(amount), "PROCESSED", Empty)
         IN  Commit(t, Columns(t, amount), balance)
    /\ UNCHANGED answer

\* InsertNew for a first submission, CompletePending for a stored row.
Written(t, resulting) ==
    IF row = None THEN Columns(t, resulting) ELSE CompletePending(row, t, resulting)

\* processNew and the end of ResumePending: the movement, and the ending it
\* gives the transaction.
Settle(t, decision) ==
    LET move == Move(decision.direction, request.amount)
        end(as, code, after) ==
            LET ended == Transition(t, as, code)
            IN  Commit(ended, IF ended = None THEN None ELSE Written(ended, after), after)
    IN  IF decision.action = "REJECT" THEN end("REJECTED", decision.code, balance)
        ELSE IF move.error = "INSUFFICIENT"
        THEN end("REJECTED", InsufficientFundsFor(request.kind), balance)
        ELSE IF move.error = "OVERFLOW" THEN Fail("OVERFLOW")
        ELSE IF ~EntryAdmits(decision.direction, request.amount, move.after) THEN Fail("ENTRY")
        ELSE end("PROCESSED", Empty, move.after)

\* The identifier the reference resolves to.
Resolved == IF Reference = None THEN Empty ELSE ThatID

\* Mutant: what is known of the reference is stored at once.
ReferenceAsKnown == Resolved

\* A waiting operation is stored unresolved, whether its reference is stored or not.
ReferenceWhileWaiting == Empty

\* A first submission.  What Prepare refuses opens no transaction.
Submit ==
    /\ row = None
    /\ Wellformed(request)
    /\ IF request.ref # None /\ Outcome.action = "WAIT"
       THEN LET t == Transition(NewExternalTransaction(request, ReferenceWhileWaiting),
                              "PENDING_REFERENCE", Empty)
            IN  Commit(t, IF t = None THEN None ELSE Columns(t, None), balance)
       ELSE Settle(NewExternalTransaction(request, IF request.ref = None THEN Empty ELSE Resolved),
                   Outcome)
    /\ answer' = IF failure' = None
                 THEN HttpAnswer([status |-> row'.status, code |-> row'.code,
                                  balance |-> row'.resulting])
                 ELSE answer

\* The same submission again finds the row by its idempotency key.
Resubmit ==
    /\ row # None /\ row.origin = "EXTERNAL"
    /\ answer' = HttpAnswer(ReplayResult(row))
    /\ UNCHANGED <<balance, tx, row, failure>>

GivenUp == Rejection(IF Reference = None THEN "REFERENCE_NOT_FOUND"
                     ELSE "REFERENCE_NOT_PROCESSED")

\* Mutant: the limit is looked at first.
LimitFirst(limit) == IF limit THEN GivenUp ELSE Outcome

\* At its TTL or attempt limit an operation that would wait is given up.
PendingDecision(limit) == IF Outcome.action = "WAIT" /\ limit THEN GivenUp ELSE Outcome

\* Waiting only reschedules the row.
ResumePending(limit) ==
    /\ row # None /\ row.status = "PENDING_REFERENCE"
    /\ LET stored   == Rehydrate(row)
           resolved == IF stored = None \/ Reference = None THEN stored
                       ELSE ResolveReference(stored, Resolved)
       IN  /\ PendingDecision(limit).action # "WAIT"
           /\ Settle(resolved, PendingDecision(limit))
    /\ UNCHANGED answer

\* The resume failed permanently.
FailPending ==
    /\ row # None /\ row.status = "PENDING_REFERENCE"
    /\ LET t == Transition(Rehydrate(row), "FAILED", "PERMANENT_PROCESSING_FAILURE")
       IN  Commit(t, IF t = None THEN None ELSE CompletePending(row, t, None), balance)
    /\ UNCHANGED answer

RecordInit ==
    /\ Init
    /\ balance \in 0..MaxBalance
    /\ tx = None /\ row = None /\ answer = None /\ failure = None

\* Another operation of the wallet moves its balance before this one arrives or
\* while it waits.
Elsewhere ==
    /\ row # None => row.status = "PENDING_REFERENCE"
    /\ balance' \in 0..MaxBalance
    /\ UNCHANGED <<tx, row, answer, failure>>

RecordNext ==
    \/ Next /\ UNCHANGED recordVars
    \/ /\ \/ Open \/ Submit \/ Resubmit \/ FailPending \/ Elsewhere
          \/ \E limit \in BOOLEAN : ResumePending(limit)
       /\ UNCHANGED vars

RecordSpec == RecordInit /\ [][RecordNext]_<<vars, recordVars>>

-----------------------------------------------------------------------------
\* The aggregate, the row and the result that HTTP answers.
Origins   == {"EXTERNAL", "INTERNAL"}
Aggregate == [origin : Origins, kind : Kinds, amount : Nat, metadata : {Empty, "a"},
              refExternal : {Empty, "b"}, ref : {Empty, ThatID}, status : Statuses \cup {"PENDING"},
              code : Codes \cup {Empty}]
RowType   == [origin : Origins, kind : Kinds, amount : Nat, metadata : {None, "a"},
              refExternal : {None, "b"}, ref : {None, ThatID}, status : Statuses,
              code : Codes \cup {None}, resulting : Nat \cup {None}, schedule : {None, "set"}]
Result    == [status : Statuses, code : Codes \cup {None}, balance : Nat \cup {None}]
Answer    == [code : {200, 202, 422}, body : Result \cup {None}]

\* The absent value is none of these, no number and no identifier.
ASSUME RecordAssumption ==
    /\ MaxBalance \in Nat
    /\ None \notin Nat \cup {Empty, ThatID, "set", "INSUFFICIENT", "OVERFLOW"}
    /\ None \notin Aggregate \cup RowType \cup Result \cup Answer

\* No call that the rules let through is refused further down: the aggregate,
\* the ledger entry, the event and the schema admit whatever the rules decide,
\* at every step of a transaction's life.  Only a balance at its limit stops one.
EveryLayerAgrees == failure \in {None, "OVERFLOW"}

\* A row reads back as what was stored.  The worker and the lookup of a reference
\* get the same aggregate, in every status, with the reference it was resolved
\* to.  The read API tells what applies to a transaction from what does not: the
\* provider's metadata, the failure code of a refused one, the balance of a
\* settled one, the schedule of a waiting one.
RowsReadBack ==
    row # None =>
        LET d == DetailResponse(TransactionDetail(row)) IN
        /\ row.origin = "EXTERNAL" => Rehydrate(row) = tx
        /\ d.status = tx.status
        /\ (d.metadata # None) = (tx.origin = "EXTERNAL")
        /\ (d.code # None)     = (tx.status \in {"REJECTED", "FAILED"})
        /\ (d.balance # None)  = (tx.status \in {"PROCESSED", "REJECTED"})
        /\ (d.schedule # None) = (tx.status = "PENDING_REFERENCE")
        /\ (d.ref # None)      = (tx.ref # Empty)

\* The expiry written into ResumePending and the domain's ExpirePendingReference,
\* which nothing but its tests calls, are two statements of one rule: they agree
\* on every operation, and expiry ends waiting without changing another outcome.
ExpiryFollowsTheDomain ==
    (Wellformed(request) /\ request.ref # None) =>
        /\ PendingDecision(TRUE) = ExpirePendingReference(request, Reference, reversed)
        /\ PendingDecision(TRUE).action \in {"PROCESS", "REJECT"}

\* A whole answer: "200 (PROCESSED)" with a balance, "202 (PENDING_REFERENCE,
\* sem balance)", "422 com failureCode".
Documented(a) ==
    /\ a.body # None
    /\ a.code = 200 => a.body.status = "PROCESSED" /\ a.body.balance # None
    /\ a.code = 202 => a.body.status = "PENDING_REFERENCE" /\ a.body.balance = None
    /\ a.code = 422 => a.body.status = "REJECTED" /\ a.body.code # None

\* README.md:224-228: what POST /wagering/transactions answers, first or repeated.
AnswersAreAsDocumented == answer # None => Documented(answer)
=============================================================================
