--------------------------- MODULE ReferenceWorker ---------------------------
(***************************************************************************)
(* The workers that resume operations stored as PENDING_REFERENCE.  Each   *)
(* instance polls, claims a batch of due rows, and resumes them one by one *)
(* in transactions of their own; next_attempt_at is the backoff and the    *)
(* lease at once, so whoever writes it last decides when the row is next   *)
(* up, whether or not somebody still works on it.                          *)
(*                                                                         *)
(* A transaction of the use case holds the wallet and the row from its     *)
(* first statement to its commit, so here it is one step;                  *)
(* ProcessOperation has its statements.  Time appears as what has passed.  *)
(* A row is due from the moment its next_attempt_at passes, and rows come  *)
(* due in the order of that column.  Delays, metrics and logs are left out.*)
(***************************************************************************)
EXTENDS Naturals, FiniteSets

CONSTANTS
    None,
    Operations,   \* external operations that wait for a reference
    Chain,        \* the operation another one references, None if it is no such
    Overflowing,  \* their credit would take the balance past int64
    Fragile,      \* stored rows that may not rehydrate
    Workers,      \* instances running the worker
    BatchSize,    \* REFERENCE_WORKER_BATCH_SIZE
    MaxAttempts,  \* REFERENCE_WORKER_MAX_ATTEMPTS
    MaxFaults,    \* bound on failed calls, crashes and restarts
    MaxOverruns   \* bound on claims that come due under their worker

VARIABLES
    rows,      \* wager_transactions, None before the operation is accepted
    damaged,   \* stored rows that do not rehydrate
    external,  \* status of a reference that is not in Operations
    due,       \* rows whose next_attempt_at has passed
    ahead,     \* due rows with an earlier next_attempt_at
    pc,        \* next call of each worker
    batch,     \* records it claimed and is not done with
    current,   \* the record whose error it is handling
    faults,    \* failures so far
    overruns,  \* claims that came due under their worker so far
    tries      \* history: resumptions of each row, up to MaxAttempts

table   == <<rows, damaged, external>>
agenda  == <<due, ahead>>
work    == <<pc, batch, current>>
bounds  == <<faults, overruns>>
vars    == <<table, agenda, work, bounds, tries>>

Statuses == {"PENDING_REFERENCE", "PROCESSED", "REJECTED", "FAILED"}
Waiting  == {"ABSENT", "PENDING_REFERENCE"}

Pending(o) == rows[o] # None /\ rows[o].status = "PENDING_REFERENCE"
Ended(o)   == rows[o] # None /\ rows[o].status # "PENDING_REFERENCE"

\* What FindReference reads: a row of this module or of another operation.
Reference(o) ==
    IF Chain[o] = None THEN external[o]
    ELSE IF rows[Chain[o]] = None THEN "ABSENT"
    ELSE IF Chain[o] \in damaged THEN "UNREADABLE"
    ELSE rows[Chain[o]].status

NewRow == [status |-> "PENDING_REFERENCE", code |-> None, attempts |-> 0, expired |-> FALSE]

Init ==
    /\ rows = [o \in Operations |-> None]
    /\ damaged \in SUBSET Fragile
    /\ external \in [Operations -> Waiting]
    /\ \A o \in Operations : Chain[o] # None => external[o] = "ABSENT"
    /\ due = {}
    /\ ahead = [o \in Operations |-> {}]
    /\ pc = [w \in Workers |-> "poll"]
    /\ batch = [w \in Workers |-> {}]
    /\ current = [w \in Workers |-> None]
    /\ faults = 0
    /\ overruns = 0
    /\ tries = [o \in Operations |-> 0]

-----------------------------------------------------------------------------
(* The rest of the service.                                                *)

\* InsertPending, from a submission that found no decided reference.
Accept(o) ==
    /\ rows[o] = None
    /\ Reference(o) \in Waiting
    /\ rows' = [rows EXCEPT ![o] = NewRow]
    /\ UNCHANGED <<damaged, external, agenda, work, bounds, tries>>

\* The referenced operation arrives, or is decided.
ReferenceArrives(o) ==
    /\ Chain[o] = None
    /\ external[o] \in Waiting
    /\ external' = [external EXCEPT ![o] = "PROCESSED"]
    /\ UNCHANGED <<rows, damaged, agenda, work, bounds, tries>>

ReferenceEndsOtherwise(o) ==
    /\ Chain[o] = None
    /\ external[o] \in Waiting
    /\ \E s \in {"REJECTED", "UNREADABLE"} : external' = [external EXCEPT ![o] = s]
    /\ UNCHANGED <<rows, damaged, agenda, work, bounds, tries>>

-----------------------------------------------------------------------------
(* Claim.                                                                  *)

\* next_attempt_at was written: these rows are due no longer.
Defer(S) ==
    /\ due' = due \ S
    /\ ahead' = [o \in Operations |-> IF o \in S THEN {} ELSE ahead[o] \ S]

\* Mutant: without ORDER BY any due rows are taken.
ClaimInAnyOrder(w) ==
    /\ pc[w] = "poll"
    /\ \E S \in SUBSET due :
          /\ Cardinality(S) \in 1..BatchSize
          /\ batch' = [batch EXCEPT ![w] = S]
          /\ Defer(S)
    /\ pc' = [pc EXCEPT ![w] = "resume"]
    /\ UNCHANGED <<table, current, bounds, tries>>

\* Mutant: the row keeps its next_attempt_at.
ClaimWithoutLease(w) ==
    /\ pc[w] = "poll"
    /\ \E S \in SUBSET due :
          /\ Cardinality(S) \in 1..BatchSize
          /\ \A o \in S : ahead[o] \subseteq S
          /\ batch' = [batch EXCEPT ![w] = S]
    /\ pc' = [pc EXCEPT ![w] = "resume"]
    /\ UNCHANGED <<table, agenda, current, bounds, tries>>

\* Rows that a transaction of a worker may hold when another one claims.
LockedByOthers(w) == UNION {batch[v] : v \in Workers \ {w}}

\* The first BatchSize due rows, without those that are locked at the time.
Claim(w) ==
    /\ pc[w] = "poll"
    /\ \E skipped \in SUBSET LockedByOthers(w) : \E S \in SUBSET (due \ skipped) :
          /\ S # {}
          /\ \A o \in S : ahead[o] \subseteq S \cup skipped
          /\ \/ Cardinality(S) = BatchSize
             \/ Cardinality(S) < BatchSize /\ S = due \ skipped
          /\ batch' = [batch EXCEPT ![w] = S]
          /\ Defer(S)
    /\ pc' = [pc EXCEPT ![w] = "resume"]
    /\ UNCHANGED <<table, current, bounds, tries>>

-----------------------------------------------------------------------------
(* ResumePending.                                                          *)

AtMost(n) == IF n > MaxAttempts THEN MaxAttempts ELSE n

Counted(o) == tries' = [tries EXCEPT ![o] = AtMost(@ + 1)]

\* ReschedulePending: attempts are only ever compared with MaxAttempts, so
\* they are not counted past it.
Rescheduled(row) == [row EXCEPT !.attempts = AtMost(@ + 1)]

\* CompletePending, which clears next_attempt_at and pending_expires_at.
Settled(row, status, code) ==
    [row EXCEPT !.status = status, !.code = code, !.expired = FALSE]

\* The rows that the decision may leave behind, none when it is an error, for
\* a row that is over its limits or not.  Against a PROCESSED reference the
\* rules may still refuse, and a debit may find no funds; a credit that
\* overflows is an error and no decision.
Outcomes(o, over) ==
    LET row == rows[o] IN
    CASE Reference(o) = "ABSENT" ->
            {IF over THEN Settled(row, "REJECTED", "REFERENCE_NOT_FOUND") ELSE Rescheduled(row)}
      [] Reference(o) = "PENDING_REFERENCE" ->
            {IF over THEN Settled(row, "REJECTED", "REFERENCE_NOT_PROCESSED")
             ELSE Rescheduled(row)}
      [] Reference(o) \in {"REJECTED", "FAILED"} ->
            {Settled(row, "REJECTED", "REFERENCE_NOT_PROCESSED")}
      [] Reference(o) = "PROCESSED" ->
            IF o \in Overflowing THEN {}
            ELSE {Settled(row, "PROCESSED", None), Settled(row, "REJECTED", "REFUSED")}
      [] OTHER -> {}

\* Mutant: one attempt fewer.
DecideEarly(o) == Outcomes(o, rows[o].expired \/ rows[o].attempts + 1 >= MaxAttempts)

\* Mutant: a reference that was decided will do.
DecideWithoutStatus(o) ==
    IF Reference(o) \in {"PROCESSED", "REJECTED", "FAILED"}
    THEN {Settled(rows[o], "PROCESSED", None)}
    ELSE Outcomes(o, rows[o].expired \/ rows[o].attempts >= MaxAttempts)

Decide(o) == Outcomes(o, rows[o].expired \/ rows[o].attempts >= MaxAttempts)

\* The transaction can read the row: it is pending and rehydrates.  The scan
\* of a settled row fails, because its pending_expires_at is NULL.
Resumable(o) == Pending(o) /\ o \notin damaged

\* Mutant: next_attempt_at is left as it was.
WriteWithoutSchedule(o, row) == rows' = [rows EXCEPT ![o] = row] /\ UNCHANGED agenda

Write(o, row) ==
    /\ rows' = [rows EXCEPT ![o] = row]
    /\ Defer({o})

\* The next record, or the next poll.
Done(w, o) ==
    /\ batch' = [batch EXCEPT ![w] = @ \ {o}]
    /\ current' = [current EXCEPT ![w] = None]
    /\ pc' = [pc EXCEPT ![w] = IF batch[w] = {o} THEN "poll" ELSE "resume"]

Handle(w, o, step) ==
    /\ current' = [current EXCEPT ![w] = o]
    /\ pc' = [pc EXCEPT ![w] = step]
    /\ UNCHANGED batch

ResumePending(w) ==
    /\ pc[w] = "resume"
    /\ \E o \in batch[w] :
          /\ Resumable(o)
          /\ \E row \in Decide(o) : Write(o, row)
          /\ Counted(o)
          /\ Done(w, o)
    /\ UNCHANGED <<damaged, external, bounds>>

\* isPermanent: only a row that does not rehydrate, the operation's own or
\* its reference's.
ErrorStep(o) ==
    IF Pending(o) /\ (o \in damaged \/ Reference(o) = "UNREADABLE")
    THEN "fail" ELSE "reschedule"

\* The transaction cannot succeed: it rolls back with an error.
ResumeFails(w) ==
    /\ pc[w] = "resume"
    /\ \E o \in batch[w] :
          /\ ~Resumable(o) \/ Decide(o) = {}
          /\ Handle(w, o, ErrorStep(o))
          /\ Counted(o)
    /\ UNCHANGED <<table, agenda, bounds>>

Fault == faults < MaxFaults /\ faults' = faults + 1

\* The connection fails: before the commit, or after it with the answer lost.
ResumeIsInterrupted(w) ==
    /\ pc[w] = "resume"
    /\ Fault
    /\ \E o \in batch[w] :
          /\ \/ UNCHANGED <<rows, agenda>>
             \/ Resumable(o) /\ \E row \in Decide(o) : Write(o, row)
          /\ Handle(w, o, "reschedule")
          /\ Counted(o)
    /\ UNCHANGED <<damaged, external, overruns>>

-----------------------------------------------------------------------------
(* The two transactions that handle the error of the first one.            *)

ReschedulePendingAfterFailure(w) ==
    LET o == current[w] IN
    /\ pc[w] = "reschedule"
    /\ IF Resumable(o) THEN Write(o, Rescheduled(rows[o])) ELSE UNCHANGED <<rows, agenda>>
    /\ Done(w, o)
    /\ UNCHANGED <<damaged, external, bounds, tries>>

\* FailPending: a row that does not rehydrate fails here too and stays.
FailPending(w) ==
    LET o == current[w] IN
    /\ pc[w] = "fail"
    /\ IF Resumable(o)
       THEN Write(o, Settled(rows[o], "FAILED", "PERMANENT_PROCESSING_FAILURE"))
       ELSE UNCHANGED <<rows, agenda>>
    /\ Done(w, o)
    /\ UNCHANGED <<damaged, external, bounds, tries>>

\* Either of the two fails as well: it is logged and the row keeps its lease.
HandlingIsInterrupted(w) ==
    /\ pc[w] \in {"reschedule", "fail"}
    /\ Fault
    /\ Done(w, current[w])
    /\ UNCHANGED <<table, agenda, overruns, tries>>

\* The process dies, or stop cancels it: its batch is dropped.
Abandon(w) ==
    /\ pc[w] # "poll"
    /\ Fault
    /\ pc' = [pc EXCEPT ![w] = "poll"]
    /\ batch' = [batch EXCEPT ![w] = {}]
    /\ current' = [current EXCEPT ![w] = None]
    /\ UNCHANGED <<table, agenda, overruns, tries>>

-----------------------------------------------------------------------------
(* Time.                                                                   *)

Holders(o) == {w \in Workers : o \in batch[w]}

\* next_attempt_at passes: a backoff ends or a lease runs out, perhaps while
\* a worker still has the row in its batch.
ComesDue(o) ==
    /\ Pending(o)
    /\ o \notin due
    /\ due' = due \cup {o}
    /\ ahead' = [ahead EXCEPT ![o] = due]
    /\ IF Holders(o) # {} THEN overruns < MaxOverruns /\ overruns' = overruns + 1
       ELSE UNCHANGED overruns
    /\ UNCHANGED <<table, work, faults, tries>>

\* pending_expires_at passes.
Expires(o) ==
    /\ Pending(o)
    /\ ~rows[o].expired
    /\ rows' = [rows EXCEPT ![o].expired = TRUE]
    /\ UNCHANGED <<damaged, external, agenda, work, bounds, tries>>

-----------------------------------------------------------------------------
Next ==
    \/ \E o \in Operations : \/ Accept(o) \/ ReferenceArrives(o) \/ ReferenceEndsOtherwise(o)
                             \/ ComesDue(o) \/ Expires(o)
    \/ \E w \in Workers : \/ Claim(w) \/ ResumePending(w) \/ ResumeFails(w)
                          \/ ResumeIsInterrupted(w) \/ ReschedulePendingAfterFailure(w)
                          \/ FailPending(w) \/ HandlingIsInterrupted(w) \/ Abandon(w)

Spec == Init /\ [][Next]_vars

\* Time passes, and run polls and works through its batch while its process
\* lives.  Nothing obliges a reference to arrive or a call to fail.
Fairness ==
    /\ \A o \in Operations : WF_vars(ComesDue(o)) /\ WF_vars(Expires(o))
    /\ \A w \in Workers :
          /\ WF_vars(Claim(w))
          /\ WF_vars(ResumePending(w) \/ ResumeFails(w))
          /\ WF_vars(ReschedulePendingAfterFailure(w))
          /\ WF_vars(FailPending(w))

FairSpec == Spec /\ Fairness
-----------------------------------------------------------------------------
\* REFERENCE_WORKER_BATCH_SIZE and MAX_ATTEMPTS are positive (config.Load); the
\* other two are bounds of the instance, not of the code.
ASSUME BoundsAssumption ==
    /\ BatchSize \in Nat \ {0}
    /\ MaxAttempts \in Nat \ {0}
    /\ MaxFaults \in Nat
    /\ MaxOverruns \in Nat

ASSUME OperationAssumption ==
    /\ Chain \in [Operations -> Operations \cup {None}]
    /\ Fragile \subseteq Operations

ASSUME WorkersAssumption == IsFiniteSet(Workers)

Row == [status : Statuses,
        code : {None, "REFERENCE_NOT_FOUND", "REFERENCE_NOT_PROCESSED", "REFUSED",
                "PERMANENT_PROCESSING_FAILURE"},
        attempts : 0..MaxAttempts, expired : BOOLEAN]

ASSUME AbsentRow == None \notin Operations \cup Row \cup Statuses

\* Type invariant.  Only a pending row is due, a polling worker has an empty
\* batch, and one that handles an error has the record the error is about.
TypeOK ==
    /\ rows \in [Operations -> Row \cup {None}]
    /\ damaged \subseteq Operations
    /\ external \in [Operations -> Waiting \cup {"PROCESSED", "REJECTED", "UNREADABLE"}]
    /\ due \subseteq {o \in Operations : Pending(o)}
    /\ ahead \in [Operations -> SUBSET Operations]
    /\ pc \in [Workers -> {"poll", "resume", "reschedule", "fail"}]
    /\ batch \in [Workers -> SUBSET Operations]
    /\ current \in [Workers -> Operations \cup {None}]
    /\ \A w \in Workers :
          /\ pc[w] = "poll" <=> batch[w] = {}
          /\ IF pc[w] \in {"reschedule", "fail"} THEN current[w] \in batch[w]
             ELSE current[w] = None
    /\ faults \in Nat /\ overruns \in Nat
    /\ tries \in [Operations -> 0..MaxAttempts]

\* "Assim instâncias paralelas não trabalham a mesma linha": a row is in the
\* batches of several workers only when its next_attempt_at, the lease of the
\* last claim or the backoff that a late worker wrote over that lease, passed
\* under a worker that still had it, once for each worker too many.
SharedOnlyAfterOverrun ==
    \A o \in Operations : Cardinality(Holders(o)) <= 1 + overruns

\* An operation is given up while its reference may still arrive only after
\* its TTL or MaxAttempts resumptions.  Two workers on one row, or an answer
\* lost after the attempt was counted, do not spend its attempts: the latter
\* costs one attempt for each such fault, and no more.
NoOperationGivesUpEarly ==
    [][\A o \in Operations :
          /\ Pending(o) /\ Reference(o) \in Waiting
          /\ Ended(o)'
          => rows[o].expired \/ tries[o] + faults >= MaxAttempts]_vars

Life == INSTANCE PendingLife WITH
            outcome <- [o \in Operations |-> IF rows[o] = None THEN None ELSE rows[o].status],
            reference <- [o \in Operations |-> Reference(o)]

\* Stale workers, lost answers, retries and failures included, the workers only
\* ever take steps of PendingLife: "a worker that lost its lease therefore
\* rereads the state under the same ordering before it can create a financial
\* effect".
ImplementsPendingLife == Life!Spec

\* Every operation that can be decided ends, whether or not its reference
\* arrives, whatever instance dies while it holds the row, and although rows
\* that can never be decided keep coming back to the same queue.
EveryPendingEnds ==
    \A o \in Operations \ Overflowing : Pending(o) ~> Ended(o) \/ o \in damaged

\* README: the worker "encerra por TTL ou tentativas com o evento de rejeição
\* auditável".
LimitsEndEveryPending == \A o \in Operations : Pending(o) ~> Ended(o) \/ o \in damaged
=============================================================================
