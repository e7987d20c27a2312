----------------------- MODULE OperationHistoryProofs ----------------------
(***************************************************************************)
(* What ProcessOperation has stored or said stays so, for any number of    *)
(* wallets, sessions, operations, messages and transactions: rows, ledger  *)
(* entries, events and inbox rows are never rewritten, each operation has  *)
(* one row, an answer stays true and an acknowledged message took effect.  *)
(*                                                                         *)
(* The argument adds a second inductive invariant, HistoryInv, to IndInv.  *)
(* A commit overwrites a row only when a worker completes it, so that row  *)
(* must still be pending under the worker's locks (HoldsPendingRow) and    *)
(* keep its key (PlanKeepsKey).  What the unique indexes checked when a    *)
(* row was written must still hold when it commits, against the stored     *)
(* rows (PlanAdmitted) and the other uncommitted ones (PlansCompatible).   *)
(***************************************************************************)
EXTENDS ProcessOperationProofs

\* The worker's row is still pending from FindPendingForUpdate to the commit.
HoldsPendingRow(s) ==
    (IsWorker(s) /\ pc[s] \in {"resolve", "expire", "complete", "commit"}) =>
        rows[job[s].id].status = "PENDING_REFERENCE"

\* The uncommitted row has the idempotency key of its operation.
PlanKeepsKey(s) ==
    pc[s] = "commit" =>
        plan[s].row.key = IF IsWorker(s) THEN rows[job[s].id].key ELSE job[s].op.key

\* A row of a request, which is the kind the unique indexes are about.
IsRequestRow(id) == rows[id] # None /\ rows[id].payload.kind # "OPENING"

\* The uncommitted row conflicts with no stored row but the one it replaces.
PlanAdmitted(s) ==
    pc[s] = "commit" =>
        \A x \in TxIds : (x # plan[s].id /\ IsRequestRow(x)) =>
            ~UniqueConflict(plan[s].row, rows[x])

\* No two uncommitted rows conflict: the second INSERT waits for the first.
PlansCompatible ==
    \A s, t \in Sessions : (s # t /\ pc[s] = "commit" /\ pc[t] = "commit") =>
        ~UniqueConflict(plan[s].row, plan[t].row)

\* The unique indexes of wager_transactions hold.
RowsUnique ==
    \A i, j \in TxIds : (i # j /\ IsRequestRow(i) /\ IsRequestRow(j)) =>
        ~UniqueConflict(rows[i], rows[j])

\* A message whose inbox row is uncommitted has no committed one, and no other
\* session has inserted it.
InboxHeld ==
    \A s \in Sessions, m \in Messages : HoldsInbox(s, m) =>
        inbox[m] = None /\ \A t \in Sessions \ {s} : ~HoldsInbox(t, m)

\* An unopened wallet has no events.
UnopenedIsSilent == \A w \in Wallets : wallets[w] = None => outbox[w] = <<>>

RowsInv ==
    /\ \A s \in Sessions : HoldsPendingRow(s) /\ PlanKeepsKey(s) /\ PlanAdmitted(s)
    /\ PlansCompatible
    /\ RowsUnique

HistoryInv ==
    /\ RowsInv
    /\ InboxHeld
    /\ UnopenedIsSilent
    /\ AnswersAreDurable
    /\ AckedMessagesTookEffect

-----------------------------------------------------------------------------
(* The shape of a session's step.                                          *)

\* Two sessions inside transactions hold different wallets (SELECT ... FOR
\* UPDATE of the wallet row), hence work on different rows.
LEMMA WalletIsExclusive ==
    ASSUME IndInv, NEW s \in Sessions, NEW t \in Sessions, s # t,
           InTransaction(s), InTransaction(t)
    PROVE  /\ WalletOf(s) # WalletOf(t)
           /\ IsWorker(s) /\ IsWorker(t) => job[s].id # job[t].id
<1>1. WalletOf(s) # WalletOf(t)
  BY InTransactionFacts DEF HoldsWallet
<1>. QED BY <1>1 DEF WalletOf, Payload

\* Only a delivery carries a message id.
LEMMA OnlyDeliveriesHaveMessages ==
    ASSUME NEW j \in Jobs
    PROVE  j.via # "SQS" => j.msg = None
<1>1. /\ NoJob.msg = None
      /\ \A o : HttpJob(o).msg = None
      /\ \A v, i : WorkerJob(v, i).msg = None
      /\ \A d : SqsJob(d).via = "SQS"
  BY DEF NoJob, HttpJob, WorkerJob, SqsJob
<1>. QED BY <1>1 DEF Jobs

\* Ending a transaction, taking up a job and moving on to another statement
\* concern one session.
LEMMA OneSessionMoves ==
    ASSUME IndInv, NEW s \in Sessions,
           \/ \E next, j, n : EndTx(s, next, j, n)
           \/ \E j, first : Begin(s, j, first)
           \/ \E next : Goto(s, next) /\ snap' = snap
                 /\ \/ plan' = plan
                    \/ \E x : plan' = [plan EXCEPT ![s] = x]
                 /\ \/ verdict' = verdict
                    \/ \E v : verdict' = [verdict EXCEPT ![s] = v]
    PROVE  /\ OnlySession(s)
           /\ \A t \in Sessions \ {s} : tries'[t] = tries[t]
<1>1. ASSUME NEW next, NEW j, NEW n, EndTx(s, next, j, n)
      PROVE  OnlySession(s) /\ \A t \in Sessions \ {s} : tries'[t] = tries[t]
  BY <1>1 DEF EndTx, OnlySession, IndInv, TypeOK, SessionsTypeOK
<1>2. ASSUME NEW j, NEW first, Begin(s, j, first)
      PROVE  OnlySession(s) /\ \A t \in Sessions \ {s} : tries'[t] = tries[t]
  BY <1>2 DEF Begin, OnlySession, IndInv, TypeOK, SessionsTypeOK
<1>3. ASSUME NEW next, Goto(s, next), snap' = snap,
             plan' = plan \/ \E x : plan' = [plan EXCEPT ![s] = x],
             verdict' = verdict \/ \E v : verdict' = [verdict EXCEPT ![s] = v]
      PROVE  OnlySession(s) /\ \A t \in Sessions \ {s} : tries'[t] = tries[t]
  BY <1>3 DEF Goto, OnlySession, IndInv, TypeOK, SessionsTypeOK
<1>. QED BY <1>1, <1>2, <1>3

\* Every step of a session but COMMIT leaves the tables of wallets,
\* transactions, entries and events and the other sessions alone.
LEMMA QuietStep ==
    ASSUME IndInv, NEW s \in Sessions, Step(s), ~Commit(s)
    PROVE  /\ UNCHANGED <<wallets, rows, ledger, outbox>>
           /\ OnlySession(s)
           /\ \A t \in Sessions \ {s} : tries'[t] = tries[t]
<1>1. CASE \/ \E op \in HttpOps : Process(s, op)
           \/ \E d \in Deliveries : Handle(s, d)
           \/ \E id \in TxIds : ResumePending(s, id)
  BY <1>1, OneSessionMoves DEF Process, Handle, ResumePending, Begin, db
<1>2. CASE RefuseWallet(s) \/ Abort(s) \/ TransientFailure(s) \/ PermanentFailure(s)
           \/ RetryInNewTransaction(s)
  BY <1>2, OneSessionMoves DEF RefuseWallet, Abort, TransientFailure, PermanentFailure,
        RetryInNewTransaction, Finish, db
<1>3. CASE InboxInsert(s)
  BY <1>3, OneSessionMoves DEF InboxInsert, Finish, Goto, db
<1>4. CASE FindForUpdate(s)
  <2>1. WalletOf(s) \in Wallets
    BY <1>4, PayloadAccepted DEF FindForUpdate, IndInv, SessionFits, JobFits
  <2>2. OnlySession(s)
    BY <1>4, <2>1, NoneAssumption DEF FindForUpdate, OnlySession, IndInv, TypeOK, SessionsTypeOK
  <2>. QED BY <1>4, <2>2 DEF FindForUpdate, db
<1>5. CASE LookupByKey(s)
  BY <1>5, OneSessionMoves DEF LookupByKey, Finish, Goto, db
<1>6. CASE LookupByExternal(s)
  BY <1>6, OneSessionMoves DEF LookupByExternal, Finish, Goto, db
<1>7. CASE ResolveNew(s) \/ ResolvePending(s) \/ ExpirePending(s)
  BY <1>7, OneSessionMoves DEF ResolveNew, ResolvePending, ExpirePending, Plan, Goto, db
<1>8. CASE InsertNew(s) \/ CompletePending(s) \/ FindPendingForUpdate(s)
  BY <1>8, OneSessionMoves DEF InsertNew, CompletePending, FindPendingForUpdate, Plan,
        Goto, Finish, db
<1>. QED BY <1>1, <1>2, <1>3, <1>4, <1>5, <1>6, <1>7, <1>8 DEF Step

\* The transaction ended, or has not locked its wallet yet.
Left(s) == pc'[s] \in {"idle", "inbox", "lock"}

\* A statement that reads: the worker's row is pending once it is locked.
Continued(s) ==
    /\ job'[s] = job[s]
    /\ pc[s] \notin {"idle", "inbox"}
    /\ pc'[s] \in {"key", "ext", "insert", "row", "resolve", "expire", "complete"}
    /\ (IsWorker(s) /\ pc'[s] \in {"resolve", "expire", "complete"}) =>
          \/ pc[s] \in {"resolve", "expire"}
          \/ rows[job[s].id].status = "PENDING_REFERENCE"

\* The unique indexes let the row in under this identifier.
Admitted(s, id, row) ==
    /\ \A t \in Sessions \ {s} : pc[t] = "commit" => ~UniqueConflict(row, plan[t].row)
    /\ \A x \in TxIds \ {id} : rows[x] # None => ~UniqueConflict(row, rows[x])

\* The three ways to a row to commit: a request is inserted, a pending row is
\* completed, or it is put off or given up.
Inserted(s, id, row) ==
    /\ pc[s] = "insert" /\ ~IsWorker(s)
    /\ Fresh(id) /\ row = NewRow(s) /\ Admitted(s, id, row)
    /\ verdict' = verdict

Completed(s, id, row) ==
    /\ pc[s] = "complete" /\ IsWorker(s)
    /\ id = job[s].id /\ Admitted(s, id, row)
    /\ row = Settle(rows[id], verdict[s], snap[s].balance)
    /\ verdict' = verdict

PutOff(s, id, row) ==
    /\ pc[s] \in {"row", "resolve"} /\ IsWorker(s)
    /\ id = job[s].id /\ row \in {Rescheduled(id), FailedRow(id)}
    /\ pc[s] = "row" => rows[id].status = "PENDING_REFERENCE" /\ verdict' = verdict
    /\ pc[s] = "resolve" => verdict'[s].action = "WAIT" /\ row = Rescheduled(id)

Planned(s) ==
    /\ job'[s] = job[s] /\ pc'[s] = "commit"
    /\ \E id \in TxIds, row \in Row :
          /\ plan'[s] = [id |-> id, row |-> row]
          /\ row.payload = Payload(s)
          /\ Inserted(s, id, row) \/ Completed(s, id, row) \/ PutOff(s, id, row)

\* Plan puts exactly the given row in the session's register.
LEMMA PlanIsPlanned ==
    ASSUME IndInv, NEW s \in Sessions, NEW id \in TxIds, NEW row \in Row,
           Plan(s, id, row), row.payload = Payload(s),
           Inserted(s, id, row) \/ Completed(s, id, row) \/ PutOff(s, id, row)
    PROVE  Planned(s)
<1>1. /\ job'[s] = job[s] /\ pc'[s] = "commit"
      /\ plan'[s] = [id |-> id, row |-> row]
  BY DEF Plan, Goto, IndInv, TypeOK, SessionsTypeOK
<1>. QED BY <1>1 DEF Planned

\* The row a request is inserted with is well typed and its own.
LEMMA NewRowFacts ==
    ASSUME IndInv, NEW s \in Sessions, InTransaction(s), ~IsWorker(s)
    PROVE  /\ NewRow(s) \in Row
           /\ NewRow(s).payload = Payload(s)
           /\ NewRow(s).key = job[s].op.key
<1>. DEFINE new == PendingRow(job[s].op)
<1>1. /\ job[s].op \in Accepted /\ Payload(s) = job[s].op.payload
      /\ Payload(s).amount \in Nat
      /\ verdict[s] \in Verdicts /\ snap[s].balance \in Nat
  BY InTransactionFacts DEF Payload, Snapshot
<1>2. new \in Row /\ new.payload = Payload(s) /\ new.key = job[s].op.key
  BY <1>1 DEF PendingRow, Row, Payloads, Statuses, Codes
<1>. HIDE DEF new
<1>3. /\ Settle(new, verdict[s], snap[s].balance) \in Row
      /\ Settle(new, verdict[s], snap[s].balance).payload = new.payload
      /\ Settle(new, verdict[s], snap[s].balance).key = new.key
  BY <1>1, <1>2, SettleType DEF Settle, Row
<1>. QED BY <1>2, <1>3 DEF NewRow, new

\* What a worker writes over its row keeps the row's key and payload.
LEMMA WorkerRowFacts ==
    ASSUME IndInv, NEW s \in Sessions, InTransaction(s), IsWorker(s),
           NEW row \in {Rescheduled(job[s].id), FailedRow(job[s].id),
                        Settle(rows[job[s].id], verdict[s], snap[s].balance)}
    PROVE  /\ row \in Row
           /\ row.payload = Payload(s)
           /\ row.key = rows[job[s].id].key
<1>1. /\ job[s].id \in TxIds /\ rows[job[s].id] \in Row
      /\ Payload(s) = rows[job[s].id].payload
      /\ Payload(s).amount \in Nat
      /\ verdict[s] \in Verdicts /\ snap[s].balance \in Nat
  BY InTransactionFacts DEF Payload, Snapshot
<1>2. CASE row = Rescheduled(job[s].id)
  BY <1>1, <1>2 DEF Rescheduled, Row
<1>3. CASE row = FailedRow(job[s].id)
  BY <1>1, <1>3 DEF FailedRow, Row, Statuses, Codes
<1>4. CASE row = Settle(rows[job[s].id], verdict[s], snap[s].balance)
  <2>1. row \in Row
    BY <1>1, <1>4, SettleType
  <2>. QED BY <1>1, <1>4, <2>1 DEF Settle, Row
<1>. QED BY <1>2, <1>3, <1>4

\* Every step of a session but COMMIT has one of the three shapes.
LEMMA StepShape ==
    ASSUME IndInv, NEW s \in Sessions, Step(s), ~Commit(s)
    PROVE  Left(s) \/ Continued(s) \/ Planned(s)
<1>. USE DEF IndInv, TypeOK, SessionsTypeOK
<1>1. CASE \/ \E op \in HttpOps : Process(s, op)
           \/ \E d \in Deliveries : Handle(s, d)
           \/ \E id \in TxIds : ResumePending(s, id)
  BY <1>1 DEF Process, Handle, ResumePending, Begin, Left
<1>2. CASE RefuseWallet(s) \/ Abort(s) \/ TransientFailure(s) \/ PermanentFailure(s)
           \/ RetryInNewTransaction(s) \/ InboxInsert(s)
  BY <1>2 DEF RefuseWallet, Abort, TransientFailure, PermanentFailure,
        RetryInNewTransaction, InboxInsert, Finish, EndTx, Goto, Left
<1>3. CASE FindForUpdate(s)
  BY <1>3 DEF FindForUpdate, Continued
<1>4. CASE LookupByKey(s) \/ LookupByExternal(s)
  <2>1. ~IsWorker(s)
    BY <1>4 DEF LookupByKey, LookupByExternal, SessionFits, JobFits
  <2>. QED BY <1>4, <2>1 DEF LookupByKey, LookupByExternal, Finish, EndTx, Goto, Left, Continued
<1>5. CASE ResolveNew(s) \/ ExpirePending(s)
  BY <1>5 DEF ResolveNew, ExpirePending, Goto, Continued
<1>6. CASE ResolvePending(s)
  <2>1. InTransaction(s) /\ job[s].id \in TxIds
    BY <1>6, InTransactionFacts DEF ResolvePending, InTransaction
  <2>2. CASE Goto(s, "complete") \/ Goto(s, "expire")
    BY <1>6, <2>2 DEF ResolvePending, Goto, Continued
  <2>3. CASE /\ Plan(s, job[s].id, Rescheduled(job[s].id))
             /\ ResolvedVerdict(Payload(s)).action = "WAIT"
    <3>1. verdict'[s].action = "WAIT"
      BY <1>6, <2>3 DEF ResolvePending
    <3>2. PutOff(s, job[s].id, Rescheduled(job[s].id))
      BY <1>6, <3>1 DEF ResolvePending, PutOff
    <3>3. Rescheduled(job[s].id) \in Row /\ Rescheduled(job[s].id).payload = Payload(s)
      BY <1>6, <2>1, WorkerRowFacts DEF ResolvePending
    <3>. QED BY <2>1, <2>3, <3>2, <3>3, PlanIsPlanned
  <2>. QED BY <1>6, <2>2, <2>3 DEF ResolvePending
<1>7. CASE InsertNew(s)
  <2>1. InTransaction(s) /\ ~IsWorker(s)
    BY <1>7 DEF InsertNew, InTransaction, SessionFits, JobFits
  <2>2. PICK id \in TxIds : Fresh(id) /\ Plan(s, id, NewRow(s))
    BY <1>7 DEF InsertNew
  <2>3. Inserted(s, id, NewRow(s))
    BY <1>7, <2>1, <2>2 DEF InsertNew, Inserted, Admitted, InFlightConflict
  <2>. QED BY <2>1, <2>2, <2>3, PlanIsPlanned, NewRowFacts
<1>8. CASE CompletePending(s)
  <2>. DEFINE row == Settle(rows[job[s].id], verdict[s], snap[s].balance)
  <2>1. InTransaction(s) /\ IsWorker(s)
    BY <1>8 DEF CompletePending, InTransaction, SessionFits, JobFits
  <2>2. Plan(s, job[s].id, row) /\ job[s].id \in TxIds
    BY <1>8, <2>1, InTransactionFacts DEF CompletePending
  <2>3. Completed(s, job[s].id, row)
    BY <1>8, <2>1 DEF CompletePending, Completed, Admitted, InFlightConflict
  <2>. HIDE DEF row
  <2>4. row \in Row /\ row.payload = Payload(s)
    BY <2>1, WorkerRowFacts DEF row
  <2>. QED BY <2>1, <2>2, <2>3, <2>4, PlanIsPlanned
<1>9. CASE FindPendingForUpdate(s)
  <2>1. InTransaction(s) /\ IsWorker(s) /\ job[s].id \in TxIds /\ pc[s] = "row"
    BY <1>9, InTransactionFacts DEF FindPendingForUpdate, InTransaction, SessionFits, JobFits
  <2>2. CASE Finish(s)
    BY <2>2 DEF Finish, EndTx, Left
  <2>3. CASE rows[job[s].id].status = "PENDING_REFERENCE" /\ Goto(s, "resolve")
    BY <2>1, <2>3 DEF Goto, Continued
  <2>4. ASSUME NEW row \in {Rescheduled(job[s].id), FailedRow(job[s].id)},
               Plan(s, job[s].id, row), verdict' = verdict,
               rows[job[s].id].status = "PENDING_REFERENCE"
        PROVE  Planned(s)
    <3>1. PutOff(s, job[s].id, row)
      BY <2>1, <2>4 DEF PutOff
    <3>2. row \in Row /\ row.payload = Payload(s)
      BY <2>1, WorkerRowFacts
    <3>. QED BY <2>1, <2>4, <3>1, <3>2, PlanIsPlanned
  <2>. QED BY <1>9, <2>2, <2>3, <2>4 DEF FindPendingForUpdate
<1>. QED BY <1>1, <1>2, <1>3, <1>4, <1>5, <1>6, <1>7, <1>8, <1>9 DEF Step

-----------------------------------------------------------------------------
(* Rows: one per operation, and pending until their worker commits.        *)

\* A unique index compares two rows in either order.
LEMMA ConflictIsSymmetric ==
    ASSUME NEW r1, NEW r2, UniqueConflict(r1, r2)
    PROVE  UniqueConflict(r2, r1)
  BY DEF UniqueConflict, SuccessfulReversalOf

\* A row that is not PROCESSED occupies only the two identity indexes.
LEMMA UnsettledConflict ==
    ASSUME NEW r1, NEW r2, NEW x, r1.key = r2.key, r1.payload = r2.payload,
           r1.status # "PROCESSED", UniqueConflict(r1, x)
    PROVE  UniqueConflict(r2, x)
  BY DEF UniqueConflict, SuccessfulReversalOf

\* A session with a plan works on a row no other session's plan touches.
LEMMA PlanIdsDiffer ==
    ASSUME IndInv, NEW s \in Sessions, NEW t \in Sessions, s # t,
           pc[s] = "commit", pc[t] = "commit"
    PROVE  plan[s].id # plan[t].id
<1>1. CASE ~IsWorker(s) \/ ~IsWorker(t)
  BY <1>1 DEF IndInv, PlansDistinct
<1>2. CASE IsWorker(s) /\ IsWorker(t)
  BY <1>2, WalletIsExclusive, CommitFacts DEF PlanFits
<1>. QED BY <1>1, <1>2

\* The worker's row is not the one another session is about to commit.
LEMMA WorkerRowIsItsOwn ==
    ASSUME IndInv, NEW s \in Sessions, NEW t \in Sessions, s # t,
           pc[s] = "commit", InTransaction(t), IsWorker(t)
    PROVE  plan[s].id # job[t].id
<1>1. CASE IsWorker(s)
  BY <1>1, WalletIsExclusive, CommitFacts DEF PlanFits
<1>2. CASE ~IsWorker(s)
  <2>1. rows[plan[s].id] = None
    BY <1>2, CommitFacts DEF PlanFits
  <2>2. rows[job[t].id] # None
    BY InTransactionFacts DEF JobFits
  <2>. QED BY <2>1, <2>2
<1>. QED BY <1>1, <1>2

\* Reads, lookups, waits, rollbacks and writes not yet committed keep RowsInv.
LEMMA QuietRows ==
    ASSUME IndInv, RowsInv, NEW s \in Sessions, Step(s), ~Commit(s)
    PROVE  RowsInv'
<1>1. /\ UNCHANGED rows
      /\ \A t \in Sessions \ {s} : pc'[t] = pc[t] /\ job'[t] = job[t] /\ plan'[t] = plan[t]
  BY QuietStep DEF OnlySession
<1>2. \A t \in Sessions \ {s} : IsWorker(t)' <=> IsWorker(t)
  BY <1>1 DEF IsWorker
<1>3. \A x : IsRequestRow(x)' <=> IsRequestRow(x)
  BY <1>1 DEF IsRequestRow
<1>4. RowsUnique'
  BY <1>1, <1>3 DEF RowsInv, RowsUnique, UniqueConflict, SuccessfulReversalOf
<1>5. ASSUME NEW t \in Sessions \ {s}
      PROVE  (HoldsPendingRow(t) /\ PlanKeepsKey(t) /\ PlanAdmitted(t))'
  <2>1. HoldsPendingRow(t) /\ PlanKeepsKey(t) /\ PlanAdmitted(t)
    BY DEF RowsInv
  <2>. QED BY <1>1, <1>2, <1>3, <2>1
          DEF HoldsPendingRow, PlanKeepsKey, PlanAdmitted, UniqueConflict, SuccessfulReversalOf
<1>6. ASSUME NEW t \in Sessions \ {s}, NEW u \in Sessions \ {s}, t # u,
             pc'[t] = "commit", pc'[u] = "commit"
      PROVE  ~UniqueConflict(plan'[t].row, plan'[u].row)
  BY <1>1, <1>6 DEF RowsInv, PlansCompatible
<1>7. CASE Left(s) \/ Continued(s)
  <2>1. pc'[s] # "commit"
    BY <1>7 DEF Left, Continued
  <2>2. HoldsPendingRow(s)'
    <3>1. SUFFICES ASSUME IsWorker(s)', pc'[s] \in {"resolve", "expire", "complete"}
                   PROVE  rows'[job'[s].id].status = "PENDING_REFERENCE"
      BY <2>1 DEF HoldsPendingRow
    <3>2. Continued(s) /\ job'[s] = job[s] /\ IsWorker(s)
      BY <1>7, <3>1 DEF Left, Continued, IsWorker
    <3>. QED BY <1>1, <3>1, <3>2 DEF Continued, RowsInv, HoldsPendingRow
  <2>3. PlanKeepsKey(s)' /\ PlanAdmitted(s)'
    BY <2>1 DEF PlanKeepsKey, PlanAdmitted
  <2>4. PlansCompatible'
    BY <1>6, <2>1 DEF PlansCompatible
  <2>. QED BY <1>4, <1>5, <2>2, <2>3, <2>4 DEF RowsInv
<1>8. CASE Planned(s)
  <2>1. PICK id \in TxIds, row \in Row :
           /\ plan'[s] = [id |-> id, row |-> row]
           /\ Inserted(s, id, row) \/ Completed(s, id, row) \/ PutOff(s, id, row)
    BY <1>8 DEF Planned
  <2>2. /\ job'[s] = job[s] /\ pc'[s] = "commit" /\ IsWorker(s)' = IsWorker(s)
        /\ plan'[s].id = id /\ plan'[s].row = row
    BY <1>8, <2>1 DEF Planned, IsWorker
  <2>3. InTransaction(s)
    BY <2>1 DEF Inserted, Completed, PutOff, InTransaction
  <2>4. IsWorker(s) => rows[job[s].id].status = "PENDING_REFERENCE"
    BY <2>1 DEF Inserted, Completed, PutOff, RowsInv, HoldsPendingRow
  <2>5. HoldsPendingRow(s)'
    BY <1>1, <2>2, <2>4 DEF HoldsPendingRow
  <2>6. row.key = IF IsWorker(s) THEN rows[job[s].id].key ELSE job[s].op.key
    BY <2>1, <2>3, NewRowFacts, WorkerRowFacts DEF Inserted, Completed, PutOff
  <2>7. PlanKeepsKey(s)'
    BY <1>1, <2>2, <2>6 DEF PlanKeepsKey
  <2>8. /\ \A x \in TxIds : (x # id /\ IsRequestRow(x)) => ~UniqueConflict(row, rows[x])
        /\ \A t \in Sessions \ {s} : pc[t] = "commit" => ~UniqueConflict(row, plan[t].row)
    <3>1. CASE Inserted(s, id, row) \/ Completed(s, id, row)
      BY <3>1 DEF Inserted, Completed, Admitted, IsRequestRow
    <3>2. CASE PutOff(s, id, row)
      <4>1. /\ IsWorker(s) /\ id = job[s].id /\ rows[id] \in Row
            /\ row \in {Rescheduled(id), FailedRow(id)}
        BY <2>3, <3>2, InTransactionFacts DEF PutOff
      <4>2. row.key = rows[id].key /\ row.payload = rows[id].payload
        BY <2>3, <4>1, WorkerRowFacts DEF Payload
      <4>3. row.status # "PROCESSED"
        BY <2>4, <4>1 DEF Rescheduled, FailedRow, Row
      <4>4. IsRequestRow(id)
        <5>1. Payload(s).kind \in ExternalKinds /\ Payload(s) = rows[id].payload
          BY <2>3, <4>1, InTransactionFacts DEF Payload
        <5>. QED BY <4>1, <5>1, NoneAssumption DEF IsRequestRow, ExternalKinds
      <4>5. ASSUME NEW x \in TxIds, x # id, IsRequestRow(x), UniqueConflict(row, rows[x])
            PROVE  FALSE
        <5>1. UniqueConflict(rows[id], rows[x])
          BY <4>2, <4>3, <4>5, UnsettledConflict
        <5>. QED BY <4>4, <4>5, <5>1 DEF RowsInv, RowsUnique
      <4>6. ASSUME NEW t \in Sessions \ {s}, pc[t] = "commit",
                   UniqueConflict(row, plan[t].row)
            PROVE  FALSE
        <5>1. UniqueConflict(plan[t].row, rows[id])
          BY <4>2, <4>3, <4>6, UnsettledConflict, ConflictIsSymmetric
        <5>2. plan[t].id # id
          BY <2>3, <4>1, <4>6, WorkerRowIsItsOwn
        <5>. QED BY <4>4, <4>6, <5>1, <5>2 DEF RowsInv, PlanAdmitted
      <4>. QED BY <4>5, <4>6
    <3>. QED BY <2>1, <3>1, <3>2
  <2>9. PlanAdmitted(s)'
    BY <1>1, <1>3, <2>2, <2>8 DEF PlanAdmitted, UniqueConflict, SuccessfulReversalOf
  <2>10. ASSUME NEW t \in Sessions \ {s}, pc'[t] = "commit"
         PROVE  /\ ~UniqueConflict(plan'[s].row, plan'[t].row)
                /\ ~UniqueConflict(plan'[t].row, plan'[s].row)
    BY <1>1, <2>2, <2>8, <2>10, ConflictIsSymmetric
  <2>11. PlansCompatible'
    BY <1>6, <2>10 DEF PlansCompatible
  <2>. QED BY <1>4, <1>5, <2>5, <2>7, <2>9, <2>11 DEF RowsInv
<1>. QED BY <1>7, <1>8, StepShape

\* Commit stores a row the indexes admit, and overwrites no other worker's.
LEMMA CommitKeepsRows ==
    ASSUME IndInv, RowsInv, NEW s \in Sessions, Commit(s)
    PROVE  RowsInv'
<1>1. /\ pc[s] = "commit" /\ plan[s].id \in TxIds /\ plan[s].row \in Row
      /\ plan[s].row.payload.kind # "OPENING"
  BY CommitFacts DEF Commit
<1>2. /\ rows'[plan[s].id] = plan[s].row
      /\ \A id \in TxIds : id # plan[s].id => rows'[id] = rows[id]
  BY CommitFrame
<1>3. /\ pc'[s] = "idle"
      /\ \A t \in Sessions \ {s} : pc'[t] = pc[t] /\ job'[t] = job[t] /\ plan'[t] = plan[t]
  BY DEF Commit, Finish, EndTx, IndInv, TypeOK, SessionsTypeOK
<1>4. \A x \in TxIds : x # plan[s].id => (IsRequestRow(x)' <=> IsRequestRow(x))
  BY <1>2 DEF IsRequestRow
<1>5. HoldsPendingRow(s)' /\ PlanKeepsKey(s)' /\ PlanAdmitted(s)'
  BY <1>3 DEF HoldsPendingRow, PlanKeepsKey, PlanAdmitted
<1>6. ASSUME NEW t \in Sessions \ {s}
      PROVE  HoldsPendingRow(t)' /\ PlanKeepsKey(t)' /\ PlanAdmitted(t)'
  <2>1. HoldsPendingRow(t) /\ PlanKeepsKey(t) /\ PlanAdmitted(t)
    BY DEF RowsInv
  <2>2. IsWorker(t)' <=> IsWorker(t)
    BY <1>3 DEF IsWorker
  <2>3. (InTransaction(t) /\ IsWorker(t)) =>
            job[t].id \in TxIds /\ rows'[job[t].id] = rows[job[t].id]
    BY <1>1, <1>2, WorkerRowIsItsOwn, InTransactionFacts
  <2>4. HoldsPendingRow(t)'
    BY <1>3, <2>1, <2>2, <2>3 DEF HoldsPendingRow, InTransaction
  <2>5. PlanKeepsKey(t)'
    BY <1>3, <2>1, <2>2, <2>3 DEF PlanKeepsKey, InTransaction
  <2>6. ASSUME pc[t] = "commit", NEW x \in TxIds, x # plan[t].id, IsRequestRow(x)'
        PROVE  ~UniqueConflict(plan[t].row, rows'[x])
    <3>1. CASE x = plan[s].id
      BY <1>1, <1>2, <2>6, <3>1 DEF RowsInv, PlansCompatible
    <3>2. CASE x # plan[s].id
      BY <1>2, <1>4, <2>1, <2>6, <3>2 DEF PlanAdmitted
    <3>. QED BY <3>1, <3>2
  <2>7. PlanAdmitted(t)'
    BY <1>3, <2>6 DEF PlanAdmitted
  <2>. QED BY <2>4, <2>5, <2>7
<1>7. PlansCompatible'
  BY <1>3 DEF RowsInv, PlansCompatible
<1>8. RowsUnique'
  <2>1. ASSUME NEW x \in TxIds, x # plan[s].id, IsRequestRow(x)'
        PROVE  /\ ~UniqueConflict(plan[s].row, rows'[x])
               /\ ~UniqueConflict(rows'[x], plan[s].row)
    <3>1. ~UniqueConflict(plan[s].row, rows[x]) /\ rows'[x] = rows[x]
      BY <1>1, <1>2, <1>4, <2>1 DEF RowsInv, PlanAdmitted
    <3>. QED BY <3>1, ConflictIsSymmetric
  <2>2. ASSUME NEW i \in TxIds, NEW j \in TxIds, i # j, IsRequestRow(i)', IsRequestRow(j)'
        PROVE  ~UniqueConflict(rows'[i], rows'[j])
    <3>1. CASE i = plan[s].id
      BY <1>2, <2>1, <2>2, <3>1
    <3>2. CASE j = plan[s].id
      BY <1>2, <2>1, <2>2, <3>2
    <3>3. CASE i # plan[s].id /\ j # plan[s].id
      BY <1>2, <1>4, <2>2, <3>3 DEF RowsInv, RowsUnique
    <3>. QED BY <3>1, <3>2, <3>3
  <2>. QED BY <2>2 DEF RowsUnique
<1>. QED BY <1>5, <1>6, <1>7, <1>8 DEF RowsInv

\* Open stores at most an OPENING row, under an identifier nobody else has.
LEMMA OpenFrame ==
    ASSUME IndInv, NEW w \in Wallets, NEW amount \in OpeningBalances, OpenWallet(w, amount)
    PROVE  /\ \A id \in TxIds : rows[id] # None => rows'[id] = rows[id]
           /\ \A id \in TxIds : rows'[id] # rows[id] =>
                 /\ rows'[id] = OpeningRow(w, amount)
                 /\ rows'[id].payload.kind = "OPENING" /\ rows'[id] # None
                 /\ \A s \in Sessions : plan[s].id # id
<1>1. CASE UNCHANGED rows
  BY <1>1
<1>2. CASE \E id \in TxIds : Fresh(id) /\ rows' = [rows EXCEPT ![id] = OpeningRow(w, amount)]
  BY <1>2, OpeningRowType, NoneAssumption DEF Fresh, IndInv, TypeOK, TablesTypeOK
<1>. QED BY <1>1, <1>2 DEF OpenWallet

\* Open keeps RowsInv.
LEMMA OpenKeepsRows ==
    ASSUME IndInv, RowsInv, NEW w \in Wallets, NEW amount \in OpeningBalances,
           OpenWallet(w, amount)
    PROVE  RowsInv'
<1>1. UNCHANGED <<pc, job, plan>>
  BY DEF OpenWallet, session
<1>2. \A x \in TxIds : IsRequestRow(x)' => IsRequestRow(x) /\ rows'[x] = rows[x]
  BY OpenFrame DEF IsRequestRow
<1>3. ASSUME NEW t \in Sessions
      PROVE  HoldsPendingRow(t)' /\ PlanKeepsKey(t)' /\ PlanAdmitted(t)'
  <2>1. HoldsPendingRow(t) /\ PlanKeepsKey(t) /\ PlanAdmitted(t)
    BY DEF RowsInv
  <2>2. IsWorker(t)' <=> IsWorker(t)
    BY <1>1 DEF IsWorker
  <2>3. (InTransaction(t) /\ IsWorker(t)) => rows'[job[t].id] = rows[job[t].id]
    BY InTransactionFacts, OpenFrame, NoneAssumption
  <2>4. HoldsPendingRow(t)' /\ PlanKeepsKey(t)'
    BY <1>1, <2>1, <2>2, <2>3 DEF HoldsPendingRow, PlanKeepsKey, InTransaction
  <2>5. PlanAdmitted(t)'
    BY <1>1, <1>2, <2>1 DEF PlanAdmitted
  <2>. QED BY <2>4, <2>5
<1>4. PlansCompatible'
  BY <1>1 DEF RowsInv, PlansCompatible
<1>5. RowsUnique'
  BY <1>2 DEF RowsInv, RowsUnique
<1>. QED BY <1>3, <1>4, <1>5 DEF RowsInv

\* RowsInv is kept by every step.
LEMMA NextRows ==
    ASSUME IndInv, RowsInv, Next
    PROVE  RowsInv'
  BY QuietRows, CommitKeepsRows, OpenKeepsRows DEF Next

\* A stored row keeps its key and payload, and a terminal one everything.
LEMMA RowsKept ==
    ASSUME IndInv, RowsInv, Next, NEW id \in TxIds, rows[id] # None
    PROVE  /\ rows'[id] # None
           /\ rows'[id].key = rows[id].key
           /\ rows'[id].payload = rows[id].payload
           /\ Terminal(rows[id].status) => rows'[id] = rows[id]
<1>1. ASSUME NEW s \in Sessions, Commit(s)
      PROVE  /\ rows'[id] # None
             /\ rows'[id].key = rows[id].key
             /\ rows'[id].payload = rows[id].payload
             /\ Terminal(rows[id].status) => rows'[id] = rows[id]
  <2>1. pc[s] = "commit"
    BY <1>1 DEF Commit
  <2>2. CASE id = plan[s].id
    <3>1. IsWorker(s) /\ id = job[s].id
      BY <2>1, <2>2, CommitFacts DEF PlanFits
    <3>2. rows'[id] # None /\ rows'[id].payload = rows[id].payload /\ rows'[id] = plan[s].row
      BY <1>1, <2>2, CommitFrame
    <3>3. plan[s].row.key = rows[id].key /\ rows[id].status = "PENDING_REFERENCE"
      BY <2>1, <3>1 DEF RowsInv, PlanKeepsKey, HoldsPendingRow
    <3>. QED BY <3>2, <3>3 DEF Terminal
  <2>3. CASE id # plan[s].id
    BY <1>1, <2>3, CommitFrame
  <2>. QED BY <2>2, <2>3
<1>2. ASSUME NEW s \in Sessions, Step(s), ~Commit(s)
      PROVE  rows'[id] = rows[id]
  BY <1>2, QuietStep
<1>3. ASSUME NEW w \in Wallets, NEW amount \in OpeningBalances, OpenWallet(w, amount)
      PROVE  rows'[id] = rows[id]
  BY <1>3, OpenFrame
<1>. QED BY <1>1, <1>2, <1>3 DEF Next

-----------------------------------------------------------------------------
(* The inbox, the answers and the acknowledgements.                        *)

\* A committed transaction of a request answers its caller, or records and
\* acknowledges its message, with a row stored under its key and payload.
Told(s) ==
    /\ InTransaction(s) /\ pc'[s] = "idle"
    /\ RecordInbox(s)
    /\ \E id \in TxIds :
          /\ rows'[id] # None
          /\ ~IsWorker(s) => /\ rows'[id].key = job[s].op.key
                             /\ rows'[id].payload = job[s].op.payload
          /\ Reply(s, id, rows'[id])

\* A redelivery of a message already done is acknowledged.
Repeated(s) ==
    /\ job[s].via = "SQS"
    /\ inbox[job[s].msg] = PayloadHash(job[s].op.payload)
    /\ acked' = acked \cup {[msg |-> job[s].msg, op |-> job[s].op]}
    /\ UNCHANGED <<inbox, answers>>

\* Only these two kinds of steps tell anybody anything.
LEMMA WhatIsTold ==
    ASSUME IndInv, RowsInv, NEW s \in Sessions, Step(s)
    PROVE  UNCHANGED <<inbox, answers, acked>> \/ Repeated(s) \/ Told(s)
<1>1. CASE Commit(s)
  <2>1. pc[s] = "commit"
    BY <1>1 DEF Commit
  <2>2. /\ InTransaction(s) /\ plan[s].id \in TxIds /\ plan[s].row \in Row
        /\ plan[s].row.payload = Payload(s)
    BY <2>1, CommitFacts
  <2>3. rows'[plan[s].id] = plan[s].row /\ plan[s].row # None
    BY <1>1, <2>2, CommitFrame, NoneAssumption
  <2>4. ~IsWorker(s) => /\ plan[s].row.key = job[s].op.key
                        /\ plan[s].row.payload = job[s].op.payload
    BY <2>1, <2>2 DEF RowsInv, PlanKeepsKey, Payload
  <2>5. pc'[s] = "idle" /\ RecordInbox(s) /\ Reply(s, plan[s].id, plan[s].row)
    BY <1>1 DEF Commit, Finish, EndTx, IndInv, TypeOK, SessionsTypeOK
  <2>. QED BY <2>2, <2>3, <2>4, <2>5 DEF Told
<1>2. CASE LookupByKey(s)
  <2>1. InTransaction(s)
    BY <1>2 DEF LookupByKey, InTransaction
  <2>2. ASSUME NEW id \in FindByIdempotencyKey(job[s].op.payload.provider, job[s].op.key),
               ClassifyAttempt(job[s].op, rows[id], None).kind = "REPLAY",
               RecordInbox(s), Reply(s, id, rows[id]), Finish(s), UNCHANGED rows
        PROVE  Told(s)
    <3>1. id \in TxIds /\ rows[id] # None /\ rows[id].key = job[s].op.key
      BY DEF FindByIdempotencyKey
    <3>2. rows[id].payload = job[s].op.payload
      BY <2>2, <3>1 DEF ClassifyAttempt, PayloadHash
    <3>3. pc'[s] = "idle"
      BY <2>2 DEF Finish, EndTx, IndInv, TypeOK, SessionsTypeOK
    <3>. QED BY <2>1, <2>2, <3>1, <3>2, <3>3 DEF Told
  <2>. QED BY <1>2, <2>2 DEF LookupByKey, Goto, db, history
<1>3. CASE InboxInsert(s)
  <2>1. job[s].via = "SQS"
    BY <1>3 DEF InboxInsert, IndInv, SessionFits, JobFits
  <2>. QED BY <1>3, <2>1 DEF InboxInsert, Goto, Repeated, db, history
<1>4. CASE \/ \E op \in HttpOps : Process(s, op)
           \/ \E d \in Deliveries : Handle(s, d)
           \/ \E id \in TxIds : ResumePending(s, id)
           \/ RefuseWallet(s) \/ Abort(s) \/ TransientFailure(s) \/ PermanentFailure(s)
           \/ RetryInNewTransaction(s) \/ FindForUpdate(s) \/ LookupByExternal(s)
  BY <1>4 DEF Process, Handle, ResumePending, Begin, RefuseWallet, Abort, TransientFailure,
       PermanentFailure, RetryInNewTransaction, FindForUpdate, LookupByExternal, Goto,
       db, history
<1>5. CASE \/ ResolveNew(s) \/ ResolvePending(s) \/ ExpirePending(s) \/ InsertNew(s)
           \/ CompletePending(s) \/ FindPendingForUpdate(s)
  BY <1>5 DEF ResolveNew, ResolvePending, ExpirePending, InsertNew, CompletePending,
       FindPendingForUpdate, Plan, Goto, db, history
<1>. QED BY <1>1, <1>2, <1>3, <1>4, <1>5 DEF Step

\* A session that has inserted its message's inbox row had inserted it before,
\* or does so now, waiting for everyone else's to end.
LEMMA InboxTaken ==
    ASSUME IndInv, NEW s \in Sessions, NEW m \in Messages, Step(s), HoldsInbox(s, m)'
    PROVE  \/ HoldsInbox(s, m)
           \/ inbox[m] = None /\ \A t \in Sessions \ {s} : ~HoldsInbox(t, m)
<1>. USE DEF IndInv, TypeOK, SessionsTypeOK
<1>1. job'[s].msg = m /\ pc'[s] \notin {"idle", "inbox"} /\ m # None
  BY DEF HoldsInbox
<1>2. CASE ~Commit(s) /\ (Continued(s) \/ Planned(s))
  BY <1>1, <1>2 DEF Continued, Planned, Inserted, Completed, PutOff, HoldsInbox
<1>3. CASE InboxInsert(s)
  <2>1. job'[s] = job[s] /\ inbox[job[s].msg] = None
    BY <1>1, <1>3 DEF InboxInsert, Goto, Finish, EndTx
  <2>. QED BY <1>1, <1>3, <2>1 DEF InboxInsert
<1>4. CASE \/ \E op \in HttpOps : Process(s, op)
           \/ \E d \in Deliveries : Handle(s, d)
           \/ \E id \in TxIds : ResumePending(s, id)
  <2>1. \/ \E op \in HttpOps : job'[s] = HttpJob(op)
        \/ pc'[s] = "inbox"
        \/ \E id \in TxIds : job'[s] = WorkerJob("RESUME", id)
    BY <1>4 DEF Process, Handle, ResumePending, Begin
  <2>. QED BY <1>1, <2>1 DEF HttpJob, WorkerJob, NoJob
<1>5. CASE RefuseWallet(s) \/ Abort(s) \/ Commit(s)
  BY <1>1, <1>5 DEF RefuseWallet, Abort, Commit, Finish, EndTx
<1>6. CASE TransientFailure(s) \/ PermanentFailure(s)
  <2>1. \E v : job'[s] = WorkerJob(v, job[s].id)
    BY <1>6 DEF TransientFailure, PermanentFailure, EndTx
  <2>. QED BY <1>1, <2>1 DEF WorkerJob, NoJob
<1>7. CASE RetryInNewTransaction(s)
  BY <1>1, <1>7, OnlyDeliveriesHaveMessages DEF RetryInNewTransaction, Finish, EndTx
<1>8. CASE \/ FindForUpdate(s) \/ LookupByKey(s) \/ LookupByExternal(s)
           \/ ResolveNew(s) \/ ResolvePending(s) \/ ExpirePending(s) \/ InsertNew(s)
           \/ CompletePending(s) \/ FindPendingForUpdate(s)
  <2>1. CASE Left(s)
    BY <1>1, <1>8, <2>1 DEF FindForUpdate, LookupByKey, LookupByExternal, ResolveNew,
         ResolvePending, ExpirePending, InsertNew, CompletePending, FindPendingForUpdate,
         Plan, Goto, Finish, EndTx, Left
  <2>. QED BY <1>2, <1>5, <2>1, StepShape
<1>. QED BY <1>3, <1>4, <1>5, <1>6, <1>7, <1>8 DEF Step

\* The only inbox row a step writes is the one its session has inserted.
LEMMA InboxWritten ==
    ASSUME IndInv, RowsInv, InboxHeld, NEW s \in Sessions, Step(s),
           NEW m \in Messages, inbox'[m] # inbox[m]
    PROVE  /\ HoldsInbox(s, m) /\ inbox[m] = None /\ pc'[s] = "idle"
           /\ inbox'[m] = PayloadHash(job[s].op.payload)
           /\ \E id \in TxIds : rows'[id] # None /\ rows'[id].payload = inbox'[m]
<1>1. Told(s) /\ job[s].via = "SQS"
  BY WhatIsTold DEF Repeated, Told, RecordInbox
<1>2. job[s] \in Jobs /\ job[s] # NoJob /\ ~IsWorker(s)
  BY <1>1, InTransactionFacts DEF Told, IsWorker
<1>3. m = job[s].msg /\ inbox'[m] = PayloadHash(job[s].op.payload)
  BY <1>1, <1>2, JobCases DEF Told, RecordInbox, IndInv, TypeOK, TablesTypeOK
<1>4. HoldsInbox(s, m)
  BY <1>1, <1>3, NoneAssumption DEF HoldsInbox, Told, InTransaction
<1>5. \E id \in TxIds : rows'[id] # None /\ rows'[id].payload = inbox'[m]
  BY <1>1, <1>2, <1>3 DEF Told, PayloadHash
<1>. QED BY <1>1, <1>3, <1>4, <1>5 DEF InboxHeld, Told

\* Open and the sessions' steps keep InboxHeld.
LEMMA NextInbox ==
    ASSUME IndInv, RowsInv, InboxHeld, Next
    PROVE  InboxHeld'
<1>1. CASE \E w \in Wallets, amount \in OpeningBalances : OpenWallet(w, amount)
  BY <1>1 DEF OpenWallet, session, InboxHeld, HoldsInbox
<1>2. ASSUME NEW s \in Sessions, Step(s)
      PROVE  InboxHeld'
  <2>1. \A t \in Sessions \ {s} : pc'[t] = pc[t] /\ job'[t] = job[t]
    <3>1. CASE Commit(s)
      BY <3>1 DEF Commit, Finish, EndTx, IndInv, TypeOK, SessionsTypeOK
    <3>2. CASE ~Commit(s)
      BY <1>2, <3>2, QuietStep DEF OnlySession
    <3>. QED BY <3>1, <3>2
  <2>2. \A t \in Sessions \ {s}, m \in Messages : HoldsInbox(t, m)' <=> HoldsInbox(t, m)
    BY <2>1 DEF HoldsInbox
  <2>3. ASSUME NEW m \in Messages, HoldsInbox(s, m)'
        PROVE  inbox'[m] = None /\ \A t \in Sessions \ {s} : ~HoldsInbox(t, m)'
    <3>1. inbox[m] = None /\ \A t \in Sessions \ {s} : ~HoldsInbox(t, m)
      BY <1>2, <2>3, InboxTaken DEF InboxHeld
    <3>2. pc'[s] # "idle"
      BY <2>3 DEF HoldsInbox
    <3>. QED BY <1>2, <2>2, <3>1, <3>2, InboxWritten
  <2>4. ASSUME NEW t \in Sessions \ {s}, NEW m \in Messages, HoldsInbox(t, m)'
        PROVE  inbox'[m] = None /\ \A u \in Sessions \ {t} : ~HoldsInbox(u, m)'
    <3>1. HoldsInbox(t, m) /\ ~HoldsInbox(s, m) /\ inbox[m] = None
      BY <2>2, <2>4 DEF InboxHeld
    <3>2. inbox'[m] = None
      BY <1>2, <3>1, InboxWritten
    <3>3. ~HoldsInbox(s, m)'
      BY <2>3, <2>4
    <3>4. \A u \in Sessions \ {t} : u # s => ~HoldsInbox(u, m)'
      BY <2>2, <2>4, <3>1 DEF InboxHeld
    <3>. QED BY <3>2, <3>3, <3>4
  <2>. QED BY <2>3, <2>4 DEF InboxHeld
<1>. QED BY <1>1, <1>2 DEF Next

\* An inbox row, once committed, is not written again.
LEMMA InboxKept ==
    ASSUME IndInv, RowsInv, InboxHeld, Next, NEW m \in Messages, inbox[m] # None
    PROVE  inbox'[m] = inbox[m]
<1>1. CASE \E w \in Wallets, amount \in OpeningBalances : OpenWallet(w, amount)
  BY <1>1 DEF OpenWallet
<1>2. CASE \E s \in Sessions : Step(s)
  BY <1>2, InboxWritten
<1>. QED BY <1>1, <1>2 DEF Next

\* Whoever was answered or acknowledged before stays so, and the step adds only
\* what is stored.
LEMMA NextTold ==
    ASSUME IndInv, HistoryInv, Next
    PROVE  AnswersAreDurable' /\ AckedMessagesTookEffect'
<1>1. RowsInv /\ InboxHeld
  BY DEF HistoryInv
<1>2. ASSUME NEW a \in answers
      PROVE  /\ rows'[a.id] # None
             /\ rows'[a.id].key = a.op.key
             /\ rows'[a.id].payload = a.op.payload
             /\ Terminal(a.status) => /\ rows'[a.id].status = a.status
                                      /\ rows'[a.id].code = a.code
                                      /\ rows'[a.id].balance = a.balance
  <2>1. a.id \in TxIds
    BY DEF IndInv, TypeOK, HistoryTypeOK
  <2>2. /\ rows[a.id] # None
        /\ rows[a.id].key = a.op.key
        /\ rows[a.id].payload = a.op.payload
        /\ Terminal(a.status) => /\ rows[a.id].status = a.status
                                 /\ rows[a.id].code = a.code
                                 /\ rows[a.id].balance = a.balance
    BY DEF HistoryInv, AnswersAreDurable
  <2>. QED BY <1>1, <2>1, <2>2, RowsKept
<1>3. ASSUME NEW m \in Messages, inbox'[m] # None
      PROVE  \E id \in TxIds : rows'[id] # None /\ rows'[id].payload = inbox'[m]
  <2>1. CASE inbox[m] # None
    <3>1. PICK id \in TxIds : rows[id] # None /\ rows[id].payload = inbox[m]
      BY <2>1 DEF HistoryInv, AckedMessagesTookEffect
    <3>. QED BY <1>1, <2>1, <3>1, InboxKept, RowsKept
  <2>2. CASE inbox[m] = None
    <3>1. PICK s \in Sessions : Step(s)
      BY <1>3, <2>2 DEF Next, OpenWallet
    <3>. QED BY <1>1, <1>3, <2>2, <3>1, InboxWritten
  <2>. QED BY <2>1, <2>2
<1>4. ASSUME NEW a \in acked
      PROVE  inbox'[a.msg] = PayloadHash(a.op.payload)
  <2>1. a.msg \in Messages /\ a.op \in {d.op : d \in Deliveries}
    BY DEF IndInv, TypeOK, HistoryTypeOK
  <2>2. inbox[a.msg] = PayloadHash(a.op.payload)
    BY DEF HistoryInv, AckedMessagesTookEffect
  <2>3. ASSUME NEW s \in Sessions, Step(s), inbox'[a.msg] # inbox[a.msg]
        PROVE  FALSE
    <3>1. /\ HoldsInbox(s, a.msg) /\ inbox[a.msg] = None
      BY <1>1, <2>1, <2>3, InboxWritten
    <3>2. a.op.payload # None
      BY <2>1, AbsenceAssumption DEF Operations
    <3>. QED BY <2>2, <3>1, <3>2 DEF PayloadHash
  <2>. QED BY <2>2, <2>3 DEF Next, OpenWallet
<1>5. CASE \E w \in Wallets, amount \in OpeningBalances : OpenWallet(w, amount)
  <2>1. UNCHANGED <<answers, acked>>
    BY <1>5 DEF OpenWallet, history
  <2>. QED BY <1>2, <1>3, <1>4, <2>1 DEF AnswersAreDurable, AckedMessagesTookEffect
<1>6. ASSUME NEW s \in Sessions, Step(s)
      PROVE  AnswersAreDurable' /\ AckedMessagesTookEffect'
  <2>1. CASE UNCHANGED <<answers, acked>>
    BY <1>2, <1>3, <1>4, <2>1 DEF AnswersAreDurable, AckedMessagesTookEffect
  <2>2. CASE Repeated(s)
    <3>. DEFINE new == [msg |-> job[s].msg, op |-> job[s].op]
    <3>1. new.msg = job[s].msg /\ new.op = job[s].op
      OBVIOUS
    <3>. HIDE DEF new
    <3>2. acked' = acked \cup {new} /\ UNCHANGED <<inbox, answers>>
      BY <2>2 DEF Repeated, new
    <3>3. inbox'[new.msg] = PayloadHash(new.op.payload)
      BY <2>2, <3>1, <3>2 DEF Repeated
    <3>. QED BY <1>2, <1>3, <1>4, <3>2, <3>3 DEF AnswersAreDurable, AckedMessagesTookEffect
  <2>3. CASE Told(s)
    <3>1. PICK id \in TxIds :
             /\ rows'[id] # None
             /\ ~IsWorker(s) => /\ rows'[id].key = job[s].op.key
                                /\ rows'[id].payload = job[s].op.payload
             /\ Reply(s, id, rows'[id])
      BY <2>3 DEF Told
    <3>2. RecordInbox(s) /\ job[s] \in Jobs /\ job[s] # NoJob
      BY <2>3, InTransactionFacts DEF Told
    <3>. DEFINE row == rows'[id]
                said == [op |-> job[s].op, id |-> id, status |-> row.status,
                         code |-> row.code, balance |-> row.balance]
                done == [msg |-> job[s].msg, op |-> job[s].op]
    <3>3. /\ said.op = job[s].op /\ said.id = id /\ said.status = row.status
          /\ said.code = row.code /\ said.balance = row.balance
          /\ done.msg = job[s].msg /\ done.op = job[s].op
      OBVIOUS
    <3>. HIDE DEF said, done
    <3>4. /\ answers' = IF job[s].via = "HTTP" THEN answers \cup {said} ELSE answers
          /\ acked' = IF job[s].via = "SQS" THEN acked \cup {done} ELSE acked
      BY <3>1 DEF Reply, said, done
    <3>5. job[s].via = "HTTP" => row.key = said.op.key /\ row.payload = said.op.payload
      BY <3>1, <3>3 DEF IsWorker
    <3>6. job[s].via = "SQS" => inbox'[done.msg] = PayloadHash(done.op.payload)
      <4>1. job[s].via = "SQS" => job[s].msg \in Messages
        BY <3>2, JobCases
      <4>. QED BY <3>2, <3>3, <4>1 DEF RecordInbox, IndInv, TypeOK, TablesTypeOK
    <3>7. AnswersAreDurable'
      BY <1>2, <3>1, <3>3, <3>4, <3>5 DEF AnswersAreDurable
    <3>8. AckedMessagesTookEffect'
      BY <1>3, <1>4, <3>4, <3>6 DEF AckedMessagesTookEffect
    <3>. QED BY <3>7, <3>8
  <2>. QED BY <1>1, <1>6, <2>1, <2>2, <2>3, WhatIsTold
<1>. QED BY <1>5, <1>6 DEF Next

-----------------------------------------------------------------------------
(* The ledger and the outbox only grow.                                    *)

\* A ledger and an outbox change by appending to them.
LEMMA LogsGrow ==
    ASSUME IndInv, UnopenedIsSilent, Next, NEW w \in Wallets
    PROVE  /\ \E e \in Seq(LedgerEntry) : ledger'[w] = ledger[w] \o e
           /\ \E e \in Seq(Event) : outbox'[w] = outbox[w] \o e
           /\ wallets'[w] = None => wallets[w] = None /\ outbox'[w] = outbox[w]
<1>1. /\ ledger[w] \in Seq(LedgerEntry) /\ outbox[w] \in Seq(Event)
      /\ <<>> \in Seq(LedgerEntry) /\ <<>> \in Seq(Event)
  BY EmptySeq DEF IndInv, TypeOK, TablesTypeOK
<1>2. ledger[w] \o <<>> = ledger[w] /\ outbox[w] \o <<>> = outbox[w]
  BY <1>1, ConcatEmptySeq
<1>3. CASE ledger'[w] = ledger[w] /\ outbox'[w] = outbox[w] /\ wallets'[w] = wallets[w]
  BY <1>1, <1>2, <1>3
<1>4. ASSUME NEW s \in Sessions, Commit(s)
      PROVE  /\ \E e \in Seq(LedgerEntry) : ledger'[w] = ledger[w] \o e
             /\ \E e \in Seq(Event) : outbox'[w] = outbox[w] \o e
             /\ wallets'[w] = None => wallets[w] = None /\ outbox'[w] = outbox[w]
  <2>1. pc[s] = "commit"
    BY <1>4 DEF Commit
  <2>2. CASE w # WalletOf(s)
    <3>1. outbox'[w] = outbox[w]
      BY <1>4, <2>1, <2>2, CommitFacts DEF Commit, IndInv, TypeOK, TablesTypeOK
    <3>. QED BY <1>3, <1>4, <2>2, <3>1, CommitFrame
  <2>3. CASE w = WalletOf(s)
    <3>1. outbox'[w] = outbox[w] \o EventsOf(s)
      BY <1>4, <2>1, <2>3, CommitFacts DEF Commit, IndInv, TypeOK, TablesTypeOK
    <3>2. ledger'[w] = ledger[w] \o EntriesOf(s)
      BY <1>4, <2>3, CommitFrame
    <3>3. wallets'[w] # None
      <4>1. PlanMoves(s) =>
              [balance |-> plan[s].row.balance, version |-> snap[s].version + 1] \in Snapshot
        BY <2>1, CommitFacts DEF PlanFits, Snapshot
      <4>. QED BY <1>4, <2>1, <2>3, <4>1, CommitFrame, CommitFacts, NoneAssumption
    <3>. QED BY <2>1, <3>1, <3>2, <3>3, EntriesType, EventsType
  <2>. QED BY <2>2, <2>3
<1>5. ASSUME NEW v \in Wallets, NEW amount \in OpeningBalances, OpenWallet(v, amount)
      PROVE  /\ \E e \in Seq(LedgerEntry) : ledger'[w] = ledger[w] \o e
             /\ \E e \in Seq(Event) : outbox'[w] = outbox[w] \o e
             /\ wallets'[w] = None => wallets[w] = None /\ outbox'[w] = outbox[w]
  <2>1. CASE w # v
    <3>1. ledger'[w] = ledger[w] /\ outbox'[w] = outbox[w] /\ wallets'[w] = wallets[w]
      BY <1>5, <2>1 DEF OpenWallet, IndInv, TypeOK, TablesTypeOK
    <3>. QED BY <1>3, <3>1
  <2>2. CASE w = v
    <3>. DEFINE opened == [balance |-> amount, version |-> 1]
    <3>1. opened \in Snapshot
      BY OpeningRowType DEF Snapshot
    <3>. HIDE DEF opened
    <3>2. wallets'[w] = opened /\ wallets[w] = None
      BY <1>5, <2>2 DEF OpenWallet, IndInv, TypeOK, TablesTypeOK, opened
    <3>3. wallets'[w] # None /\ ledger[w] = <<>> /\ outbox[w] = <<>>
      BY <3>1, <3>2, NoneAssumption DEF UnopenedIsSilent, IndInv, LedgerRowsStored
    <3>4. TypeOK'
      BY <1>5, OpenWalletStep DEF IndInv
    <3>5. ledger'[w] \in Seq(LedgerEntry) /\ outbox'[w] \in Seq(Event)
      BY <3>4 DEF TypeOK, TablesTypeOK
    <3>6. <<>> \o ledger'[w] = ledger'[w] /\ <<>> \o outbox'[w] = outbox'[w]
      BY <3>5, ConcatEmptySeq
    <3>. QED BY <3>3, <3>5, <3>6
  <2>. QED BY <2>1, <2>2
<1>6. ASSUME NEW s \in Sessions, Step(s), ~Commit(s)
      PROVE  ledger'[w] = ledger[w] /\ outbox'[w] = outbox[w] /\ wallets'[w] = wallets[w]
  BY <1>6, QuietStep
<1>. QED BY <1>3, <1>4, <1>5, <1>6 DEF Next

\* What was there is a prefix of what is there after appending.
LEMMA PrefixOfAppended ==
    ASSUME NEW S, NEW a \in Seq(S), NEW b \in Seq(S)
    PROVE  SubSeq(a \o b, 1, Len(a)) = a
<1>1. /\ a \o b \in Seq(S) /\ Len(a \o b) = Len(a) + Len(b)
      /\ Len(a) \in Nat /\ Len(b) \in Nat
      /\ \A i \in 1..Len(a) : (a \o b)[i] = a[i]
  BY ConcatProperties, LenProperties
<1>2. /\ SubSeq(a \o b, 1, Len(a)) \in Seq(S)
      /\ Len(SubSeq(a \o b, 1, Len(a))) = Len(a)
      /\ \A i \in 1..Len(a) : SubSeq(a \o b, 1, Len(a))[i] = (a \o b)[i]
  BY <1>1, SubSeqProperties
<1>. QED BY <1>1, <1>2, SeqEqual

-----------------------------------------------------------------------------
(* The theorems.                                                           *)

\* The empty database satisfies the invariant.
LEMMA InitHistoryInv == Init => HistoryInv
<1>. SUFFICES ASSUME Init PROVE HistoryInv
  OBVIOUS
<1>1. RowsInv
  BY DEF Init, RowsInv, HoldsPendingRow, PlanKeepsKey, PlanAdmitted, PlansCompatible,
         RowsUnique, IsRequestRow
<1>2. InboxHeld /\ UnopenedIsSilent /\ AnswersAreDurable /\ AckedMessagesTookEffect
  BY DEF Init, InboxHeld, HoldsInbox, UnopenedIsSilent, AnswersAreDurable,
         AckedMessagesTookEffect
<1>. QED BY <1>1, <1>2 DEF HistoryInv

\* Every step keeps the invariant.
LEMMA NextHistoryInv == IndInv /\ HistoryInv /\ [Next]_vars => HistoryInv'
<1>. SUFFICES ASSUME IndInv, HistoryInv, [Next]_vars PROVE HistoryInv'
  OBVIOUS
<1>1. CASE UNCHANGED vars
  BY <1>1 DEF vars, db, session, history, HistoryInv, RowsInv, HoldsPendingRow,
       PlanKeepsKey, PlanAdmitted, PlansCompatible, RowsUnique, IsRequestRow, IsWorker,
       UniqueConflict, SuccessfulReversalOf, InboxHeld, HoldsInbox, UnopenedIsSilent,
       AnswersAreDurable, AckedMessagesTookEffect
<1>2. CASE Next
  <2>1. RowsInv /\ InboxHeld /\ UnopenedIsSilent
    BY DEF HistoryInv
  <2>2. UnopenedIsSilent'
    BY <1>2, <2>1, LogsGrow DEF UnopenedIsSilent
  <2>. QED BY <1>2, <2>1, <2>2, NextRows, NextInbox, NextTold DEF HistoryInv
<1>. QED BY <1>1, <1>2

\* Both invariants hold in every execution.
LEMMA HistoryInvariance == Spec => [](IndInv /\ HistoryInv)
  BY InitIndInv, NextIndInv, InitHistoryInv, NextHistoryInv, PTL DEF Spec

\* At most one row per idempotency key and per external id of a provider, in
\* every interleaving of requests, deliveries, retries and crashes, for
\* submissions to different wallets too (ON CONFLICT DO NOTHING, waits included).
THEOREM OperationsAreUnique == Spec => []OneRowPerOperation
<1>1. HistoryInv => OneRowPerOperation
  BY DEF HistoryInv, RowsInv, RowsUnique, IsRequestRow, UniqueConflict, OneRowPerOperation
<1>. QED BY <1>1, HistoryInvariance, PTL

\* What an HTTP caller was told stays true forever: the row exists under its
\* key and payload, and a terminal outcome is the one every replay returns.
THEOREM AnswersEndure == Spec => []AnswersAreDurable
<1>1. HistoryInv => AnswersAreDurable
  BY DEF HistoryInv
<1>. QED BY <1>1, HistoryInvariance, PTL

\* processOnce deletes a message only after its inbox row and the operation it
\* carries are committed together.
THEOREM AcksFollowEffects == Spec => []AckedMessagesTookEffect
<1>1. HistoryInv => AckedMessagesTookEffect
  BY DEF HistoryInv
<1>. QED BY <1>1, HistoryInvariance, PTL

\* No delivery, concurrent or later, replaces the hash an inbox row was first
\* committed with.
THEOREM InboxRowsFinal == Spec => InboxIsFinal
<1>. DEFINE Kept == \A m \in Messages : inbox[m] # None => inbox'[m] = inbox[m]
<1>1. (IndInv /\ HistoryInv) /\ [Next]_vars => [Kept]_vars
  BY InboxKept DEF HistoryInv
<1>. QED BY <1>1, HistoryInvariance, PTL DEF Spec, InboxIsFinal

\* No step rewrites the past: terminal rows, the identity of every row, ledger
\* entries and outbox events stay as they were first committed.
THEOREM NothingIsRewritten == Spec => HistoryIsImmutable
<1>. DEFINE Kept ==
       /\ \A id \in TxIds : rows[id] # None =>
             /\ rows'[id] # None
             /\ rows'[id].key = rows[id].key
             /\ rows'[id].payload = rows[id].payload
             /\ Terminal(rows[id].status) => rows'[id] = rows[id]
       /\ \A w \in Wallets :
             /\ SubSeq(ledger'[w], 1, Len(ledger[w])) = ledger[w]
             /\ SubSeq(outbox'[w], 1, Len(outbox[w])) = outbox[w]
<1>1. ASSUME IndInv, HistoryInv, Next
      PROVE  Kept
  <2>1. RowsInv /\ UnopenedIsSilent
    BY <1>1 DEF HistoryInv
  <2>2. ASSUME NEW w \in Wallets
        PROVE  /\ SubSeq(ledger'[w], 1, Len(ledger[w])) = ledger[w]
               /\ SubSeq(outbox'[w], 1, Len(outbox[w])) = outbox[w]
    <3>1. ledger[w] \in Seq(LedgerEntry) /\ outbox[w] \in Seq(Event)
      BY <1>1 DEF IndInv, TypeOK, TablesTypeOK
    <3>2. PICK e \in Seq(LedgerEntry) : ledger'[w] = ledger[w] \o e
      BY <1>1, <2>1, LogsGrow
    <3>3. PICK f \in Seq(Event) : outbox'[w] = outbox[w] \o f
      BY <1>1, <2>1, LogsGrow
    <3>. QED BY <3>1, <3>2, <3>3, PrefixOfAppended
  <2>. QED BY <1>1, <2>1, <2>2, RowsKept
<1>2. (IndInv /\ HistoryInv) /\ [Next]_vars => [Kept]_vars
  BY <1>1
<1>. QED BY <1>2, HistoryInvariance, PTL DEF Spec, HistoryIsImmutable

-----------------------------------------------------------------------------
(* Waiting.  Inside a transaction a session has its wallet to itself, so   *)
(* what it waits for there is held by sessions of other wallets.           *)

\* Only a session inside a transaction holds the lock of a wallet.
LocksAreHeld ==
    \A w \in Wallets, s \in Sessions : walletLock[w] = s => InTransaction(s)

\* The sessions of S that are busy work on one wallet.
OnOneWallet(S) ==
    \A s, t \in S : pc[s] # "idle" /\ pc[t] # "idle" => WalletOf(s) = WalletOf(t)

\* NoWaitCycle among the sessions of one wallet.
NoWaitCycleOnOneWallet ==
    \A S \in SUBSET Sessions : S # {} /\ OnOneWallet(S) =>
        \E s \in S : \A t \in S : ~WaitsFor(s, t)

\* A step that keeps the session's transaction open, or releases its locks.
LEMMA LockStep ==
    ASSUME IndInv, LocksAreHeld, NEW s \in Sessions, Step(s)
    PROVE  \A w \in Wallets : walletLock'[w] = s => InTransaction(s)'
<1>. USE DEF IndInv, TypeOK, SessionsTypeOK
<1>1. ASSUME NEW next, NEW j, NEW n, EndTx(s, next, j, n)
      PROVE  \A w \in Wallets : walletLock'[w] # s
  BY <1>1, NoneAssumption DEF EndTx
<1>2. ASSUME walletLock' = walletLock, InTransaction(s) => InTransaction(s)'
      PROVE  \A w \in Wallets : walletLock'[w] = s => InTransaction(s)'
  BY <1>2 DEF LocksAreHeld
<1>3. ASSUME NEW next, Goto(s, next), next \notin {"idle", "inbox"}, pc[s] # "lock",
             next = "lock" => pc[s] = "inbox"
      PROVE  walletLock' = walletLock /\ (InTransaction(s) => InTransaction(s)')
  BY <1>3 DEF Goto, InTransaction
<1>4. CASE \/ \E op \in HttpOps : Process(s, op)
           \/ \E d \in Deliveries : Handle(s, d)
           \/ \E id \in TxIds : ResumePending(s, id)
  <2>1. pc[s] = "idle" /\ walletLock' = walletLock
    BY <1>4 DEF Process, Handle, ResumePending, Begin
  <2>. QED BY <1>2, <2>1 DEF InTransaction
<1>5. CASE RefuseWallet(s) \/ Abort(s) \/ TransientFailure(s) \/ PermanentFailure(s)
           \/ RetryInNewTransaction(s) \/ Commit(s)
  BY <1>1, <1>5 DEF RefuseWallet, Abort, TransientFailure, PermanentFailure,
        RetryInNewTransaction, Commit, Finish
<1>6. CASE FindForUpdate(s)
  BY <1>6 DEF FindForUpdate, InTransaction
<1>7. CASE InboxInsert(s) \/ LookupByKey(s) \/ LookupByExternal(s)
  BY <1>1, <1>2, <1>3, <1>7 DEF InboxInsert, LookupByKey, LookupByExternal, Finish
<1>8. CASE ResolveNew(s) \/ ResolvePending(s) \/ ExpirePending(s) \/ InsertNew(s)
           \/ CompletePending(s)
  BY <1>2, <1>3, <1>8 DEF ResolveNew, ResolvePending, ExpirePending, InsertNew,
        CompletePending, Plan
<1>9. CASE FindPendingForUpdate(s)
  BY <1>1, <1>2, <1>3, <1>9 DEF FindPendingForUpdate, Plan, Finish
<1>. QED BY <1>4, <1>5, <1>6, <1>7, <1>8, <1>9 DEF Step

\* A session takes and releases its own lock only.
LEMMA LocksOfOthers ==
    ASSUME IndInv, NEW s \in Sessions, Step(s), NEW t \in Sessions \ {s},
           NEW w \in Wallets, walletLock'[w] = t
    PROVE  walletLock[w] = t /\ pc'[t] = pc[t]
<1>. USE DEF IndInv, TypeOK, SessionsTypeOK
<1>1. pc'[t] = pc[t]
  <2>1. CASE Commit(s)
    BY <2>1 DEF Commit, Finish, EndTx
  <2>. QED BY <2>1, QuietStep DEF OnlySession
<1>2. CASE walletLock' = walletLock
  BY <1>1, <1>2
<1>3. ASSUME NEW next, NEW j, NEW n, EndTx(s, next, j, n)
      PROVE  walletLock[w] = t
  BY <1>3, NoneAssumption DEF EndTx
<1>4. CASE FindForUpdate(s)
  BY <1>1, <1>4 DEF FindForUpdate
<1>5. CASE \/ \E op \in HttpOps : Process(s, op)
           \/ \E d \in Deliveries : Handle(s, d)
           \/ \E id \in TxIds : ResumePending(s, id)
  BY <1>2, <1>5 DEF Process, Handle, ResumePending, Begin
<1>6. CASE RefuseWallet(s) \/ Abort(s) \/ TransientFailure(s) \/ PermanentFailure(s)
           \/ RetryInNewTransaction(s) \/ Commit(s)
  BY <1>1, <1>3, <1>6 DEF RefuseWallet, Abort, TransientFailure, PermanentFailure,
        RetryInNewTransaction, Commit, Finish
<1>7. CASE InboxInsert(s) \/ LookupByKey(s) \/ LookupByExternal(s) \/ FindPendingForUpdate(s)
  BY <1>1, <1>2, <1>3, <1>7 DEF InboxInsert, LookupByKey, LookupByExternal,
        FindPendingForUpdate, Plan, Goto, Finish
<1>8. CASE ResolveNew(s) \/ ResolvePending(s) \/ ExpirePending(s) \/ InsertNew(s)
           \/ CompletePending(s)
  BY <1>2, <1>8 DEF ResolveNew, ResolvePending, ExpirePending, InsertNew,
        CompletePending, Plan, Goto
<1>. QED BY <1>4, <1>5, <1>6, <1>7, <1>8 DEF Step

\* No step leaves a lock behind.
LEMMA NextLocks == IndInv /\ LocksAreHeld /\ [Next]_vars => LocksAreHeld'
<1>. SUFFICES ASSUME IndInv, LocksAreHeld, [Next]_vars,
                     NEW w \in Wallets, NEW t \in Sessions, walletLock'[w] = t
              PROVE  InTransaction(t)'
  BY DEF LocksAreHeld
<1>1. ASSUME walletLock' = walletLock, pc' = pc
      PROVE  InTransaction(t)'
  BY <1>1 DEF LocksAreHeld, InTransaction
<1>2. ASSUME NEW s \in Sessions, Step(s)
      PROVE  InTransaction(t)'
  <2>1. CASE t = s
    BY <1>2, <2>1, LockStep
  <2>2. CASE t # s
    BY <1>2, <2>2, LocksOfOthers DEF LocksAreHeld, InTransaction
  <2>. QED BY <2>1, <2>2
<1>3. ASSUME NEW v \in Wallets, NEW amount \in OpeningBalances, OpenWallet(v, amount)
      PROVE  InTransaction(t)'
  BY <1>1, <1>3 DEF OpenWallet, session
<1>. QED BY <1>1, <1>2, <1>3 DEF Next, vars, session

\* A session inside its transaction waits for no session of the same wallet,
\* one that waits for the wallet waits for such a session, and one that waits
\* for an inbox row waits for one that is further on.
LEMMA OneWalletNeverCycles ==
    ASSUME IndInv, LocksAreHeld
    PROVE  NoWaitCycleOnOneWallet
<1>. SUFFICES ASSUME NEW S \in SUBSET Sessions, S # {}, OnOneWallet(S)
              PROVE  \E s \in S : \A t \in S : ~WaitsFor(s, t)
  BY DEF NoWaitCycleOnOneWallet
<1>1. CASE \E s \in S : InTransaction(s)
  <2>1. PICK s \in S : InTransaction(s)
    BY <1>1
  <2>2. ASSUME NEW t \in S, t # s
        PROVE  ~InTransaction(t)
    BY <2>1, <2>2, WalletIsExclusive DEF OnOneWallet, InTransaction
  <2>3. ASSUME NEW t \in S, WaitsFor(s, t)
        PROVE  InTransaction(t) /\ t # s
    BY <2>1, <2>3 DEF WaitsFor, InTransaction, HoldsRow, HoldsKeyShare
  <2>. QED BY <2>2, <2>3
<1>2. CASE /\ ~\E s \in S : InTransaction(s)
           /\ \E s \in S : pc[s] = "lock"
  <2>1. PICK s \in S : pc[s] = "lock"
    BY <1>2
  <2>2. WalletOf(s) \in Wallets
    BY <2>1, PayloadAccepted DEF IndInv, SessionFits, JobFits
  <2>3. ASSUME NEW t \in S, WaitsFor(s, t)
        PROVE  InTransaction(t)
    BY <2>1, <2>2, <2>3 DEF WaitsFor, LocksAreHeld
  <2>. QED BY <1>2, <2>3
<1>3. CASE \A s \in S : pc[s] \in {"idle", "inbox"}
  BY <1>3 DEF WaitsFor, HoldsInbox
<1>. QED BY <1>1, <1>2, <1>3 DEF InTransaction

\* Sessions that work on one wallet never wait in a circle, however many of
\* them insert the same message, request, reversal or resumption: wallet, row
\* and index locks are taken in that order, the wallet's first.
THEOREM OneWalletNeverDeadlocks == Spec => []NoWaitCycleOnOneWallet
<1>1. Init => LocksAreHeld
  BY NoneAssumption DEF Init, LocksAreHeld
<1>. QED BY <1>1, Invariance, NextLocks, OneWalletNeverCycles, PTL DEF Spec

\* With one wallet there is no cycle at all; with more there can be.
THEOREM NoDeadlockWithOneWallet ==
    ASSUME NEW w, Wallets = {w}
    PROVE  Spec => []NoWaitCycle
<1>1. IndInv /\ NoWaitCycleOnOneWallet => NoWaitCycle
  <2>. SUFFICES ASSUME IndInv, NoWaitCycleOnOneWallet, NEW S \in SUBSET Sessions, S # {}
                PROVE  \E s \in S : \A t \in S : ~WaitsFor(s, t)
    BY DEF NoWaitCycle
  <2>1. \A s \in S : pc[s] # "idle" => WalletOf(s) = w
    BY PayloadAccepted DEF IndInv, SessionFits, JobFits
  <2>. QED BY <2>1 DEF NoWaitCycleOnOneWallet, OnOneWallet
<1>. QED BY <1>1, Invariance, OneWalletNeverDeadlocks, PTL

=============================================================================
