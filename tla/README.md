# Wallet service: TLA+ specifications and proofs

The service keeps one wallet per player and currency and settles wager
operations (BET, WIN, LOSS, REFUND, ROLLBACK) that arrive over HTTP or from an
SQS FIFO queue, more than once and in any order. Any number of instances run
against one PostgreSQL database. This directory holds TLA+ models of its core,
the TLC configurations that check them on small instances, and proofs that
TLAPS checks for instances of every size.

## The system

| Part | State | Operations | Talks to |
|---|---|---|---|
| Operation rules (`internal/domain/operation`) | none | `Evaluate`, `ExpirePendingReference`, `InsufficientFundsFor`, `ClassifyAttempt`, `PayloadHash` | called by the use case |
| Wallet, wager transaction, events (`internal/domain/wallet`) | balance and version; status, failure code, resolved reference | debit, credit, status transitions, event constructors | called by the use case |
| Money (`internal/domain/money`) | none | parse, format, add, subtract, negate with overflow errors | everywhere |
| Process operation (`internal/walletapp/process_operation.go`) | none of its own | `Process` (HTTP), `ExecuteInTx` (consumer), `ResumePending`, `FailPending`, `ReschedulePendingAfterFailure` (worker) | repositories inside one transaction |
| Open wallet | none | `Open` | repositories |
| Repositories and schema (`internal/walletpg`, `migrations`) | `wallets`, `wager_transactions`, `wallet_ledger_entries`, `outbox_events`, `inbox_messages` | the statements, their row locks, unique indexes and foreign keys | PostgreSQL, READ COMMITTED |
| Consumer (`internal/consumer`) | tracked messages, worker slots, cancellation contexts | receive, handle, delete, retry, dead-letter, stop | SQS; the use case with the inbox row in the same transaction |
| Outbox publisher (`internal/outbox`, `internal/outboxpg`) | lease, attempts and backoff columns | claim, send, confirm, retry, stop | SQS; competes with the publishers of other instances |
| Reference worker (`internal/referenceworker`, `...pg`) | `next_attempt_at`, `attempts` of pending rows | claim, resume, reschedule, fail | the use case; competes with the other instances |
| Backoff (`internal/backoff`) | none | `Exponential`; the worker adds jitter | publisher, consumer, worker |
| Read side and HTTP (`internal/httpapi`, `ledger_audit.go`, `get_*.go`) | none; the client keeps a cursor | answer an operation, read a transaction, page through a ledger, reconcile a wallet | repositories, REPEATABLE READ for a reconciliation |
| Auth, configuration, queues, start-up, metrics | none that the rest depends on | verification, limits, wiring | - |

Instances share nothing but the database and the queues. Inside the database
they interact through the wallet row lock, the lock on a pending row, the
foreign-key lock on a referenced row, the waits of unique indexes, and what is
committed between two statements. The hard behaviours are those interleavings,
collisions between wallets that share no lock, redelivery and lost answers,
crashes around a commit, leases that end under a working holder, and shutdown.
Besides those, one rule is often written down several times, in the aggregate,
the repository, the event, the schema and the answer, and the copies must agree
through the whole life of an operation.
What makes each part correct is stated as the properties below; `PROJECT.json`
lists the hazards by line.

## Modules

| Module | Models |
|---|---|
| `OperationRules` | the pure rules: kind table, decisions, classification of repeats |
| `RuleCases` | one request and the life of the transaction it names, for every combination |
| `ProcessOperation` | the transactional core: concurrent sessions, statement by statement |
| `EventDelivery` | the promise of the outbox to its readers |
| `OutboxPublisher` | the publishers; implements `EventDelivery` |
| `SqsConsumer` | receive loop, workers, acknowledgement and shutdown of the consumers |
| `PendingLife` | the promise made with a 202 |
| `ReferenceWorker` | the workers that keep it; implements `PendingLife` |
| `TransactionRecord` | one operation as aggregate, row, event and answer, on top of `RuleCases` |
| `WalletLedger` | wallets and ledger under concurrent openings, movements, page walks and reconciliations |
| `Money`, `Backoff` | bounded-width amounts and retry delays next to exact ones |
| `ProcessOperationProofs` | theorems: types and books of `ProcessOperation` |
| `OperationHistoryProofs`, `OperationEffectProofs` | on top of it: nothing stored is rewritten; every effect happens once |
| `OutboxPublisherProofs`, `SqsConsumerProofs`, `ReferenceWorkerProofs`, `WalletLedgerProofs` | theorems about the module of that name |
| `SequentialCoreProofs` | theorems about `RuleCases`, `TransactionRecord`, `Money` and `Backoff` |
| `MC*` | instances for TLC |

### ProcessOperation and the code

`wallets`, `rows`, `ledger`, `outbox` and `inbox` are the tables. A *session*
is a goroutine with a database transaction; its registers are `pc` (the next
statement), `job`, `snap` (what `FindForUpdate` read), `verdict` (the decision
with the resolved reference) and `plan` (the row it wrote and has not
committed). A transaction runs:

    inbox -> lock -> key -> ext -> resolve -> insert -> commit       (request)
             lock -> row -> resolve -> [expire] -> complete -> commit  (worker)

Each arrow is one SQL statement, or several that nobody can tell apart because
the wallet lock or the uncommitted rows hide them. `InsertNew` and
`CompletePending` stand for the writes of `processNew`, `processPendingNew`,
`processPending` and `rejectPending`: they choose the row, and `Commit` makes
it, the wallet, the ledger entry, the events and the inbox row visible
together. A SELECT reads committed state when it runs. Waiting is a guard:
`walletLock`, `HoldsRow` (FOR UPDATE on a pending row), `HoldsKeyShare` (the
foreign key), `InFlightConflict` (an uncommitted duplicate) and `HoldsInbox`.
`Abort` is any crash, timeout, failed statement or deadlock victim.
`RetryInNewTransaction` is the one retry after an index collision.

A worker session may pick up any pending row at any time. That is wider than
`referenceworkerpg.Claim`, whose lease keeps rows apart most of the time and not
always, so safety under it holds under the lease too. The pending TTL may pass
at any time; a wait that ends at the attempts limit is exact (`LimitReached`).
The payload hash is the payload. A reference in `Corrupt` is a stored row that
does not rehydrate.

### OutboxPublisher and the code

A row holds what the columns say: due or not (`next_attempt_at`), who claimed it
(`locked_until`, named by the claim that wrote it), whether that lease elapsed,
and `published_at`. `Claim` takes any batch of claimable rows that no other
claim is taking; `Send`, `SendFails`, `MarkPublished` and `ScheduleRetry` are
the calls of `publish` and `retry`, with a lost answer as a failed call that took
effect. `Abandon` is a crash or stop at any point; an error of the store ends the
batch as in `PublishBatch` (`Done`).

### SqsConsumer and the code

A consumer has a `phase` (running, then the phases of `stop`), the position of
its run `loop`, the received and not dispatched `batch`, its worker goroutines
`handlers` with their step and remaining processing time, and `active`. The
mutex of `active` excludes `Track` and `Untrack` while `releaseActive` runs
(`phase = "releasing"`). The queue is external: a receive hides a message under
a new receipt, an outdated receipt is ignored, visibility runs out with time and
a message received `MaxReceive` times goes to the DLQ. The inbox transaction of
`ProcessOperation` is reduced to its outcome: it commits (`Transact`), is refused
(`Refuse`) or fails (`TransactionFails`). Time is discrete because the processing
and visibility timeouts are compared; `Tick` cannot pass a worker's deadline.

`isPermanent` goes by the error of one attempt, and most refusals depend on what is
stored by then. `Poison` are the messages that `envelope.input` or `Prepare` turns
down on every delivery. `preempted` are those refused because another request has
stored the key, the external id or the inbox id, or because the wallet is another
player's or in another currency: rows are never removed and a wallet keeps both, so
such a message never commits (`Admitted`). `early` are those refused because their wallet was not
open (`WALLET_NOT_FOUND`): it may be open at the next delivery, so a message that is
in the dead-letter queue may yet take effect. A message that has committed finds
its inbox row and is not refused any more.

Left out: message groups (SQS may offer visible messages in any order, which
includes the orders of a FIFO queue), the exact retry delay (any delay from one
tick to `RetryMax`), and configuration changes between restarts.

### ReferenceWorker and the code

`rows` are the pending operations with the columns the worker decides by: the
attempts, counted to `MaxAttempts` as they are only compared with it, and whether
`pending_expires_at` has passed. `due` and `ahead` are `next_attempt_at`: a row
is due once that time has passed, and `ahead` is the order in which rows came
due, which `Claim` follows (`ORDER BY next_attempt_at ... LIMIT`). `SKIP LOCKED` is
`LockedByOthers`: a claim may pass over rows that another worker's transaction
holds. A resumption is one step, since it holds wallet and row to its commit.
Its error starts a second transaction, `ReschedulePendingAfterFailure` or
`FailPending`, which reads the row again: the states between the two are what the
module is about. `ResumeIsInterrupted` rolls back or commits with the answer
lost. `Abandon` is a crash or a stop, which drops the batch. A reference may be
another pending operation (`Chain`) or any other one (`external`). `tries` counts
resumptions, as history.

A settled row that is resumed again makes `FindPendingForUpdate` fail, because the
`pending_expires_at` it scans is NULL by then; the worker takes this for a
transient error, and `ReschedulePendingAfterFailure` fails the same way. Nothing is
written, which is what `ImplementsPendingLife` asks. The code's explicit check for
a settled status is not what protects the row there.

### TransactionRecord and the code

The variables are one operation's aggregate `tx`, its `row`, the last HTTP
`answer` and what the last call `failure` was. A call runs through the layers in
the code's order: constructor and `Transition`, movement, ledger entry, event,
CHECKs of migration 0004. `Rehydrate`, `TransactionDetail` and `DetailResponse` are
the ways back. "" and NULL are told apart, because the code converts between
them five times. The reference, its life and the request are those of `RuleCases`,
so every call is tried against every reference at every point of its life, while
other operations move the balance (`Elsewhere`).

### WalletLedger and the code

A session holds the wallet row it inserted or locked and the ledger entry it
inserted; both appear at `Commit`. `Draw` is the identity column: drawn at the
INSERT, never given back, shared by all wallets. `Page` is `List` with its row
beyond the limit, over `InOrder`, its ORDER BY; `FetchPage` is the handler with its
cursor, and a walk may ask for another limit each time. A reconciliation is two
statements over one snapshot.

### Money and Backoff

Every intermediate value is wrapped to the width of its Go type, in the guards
too. `exact` and `doubled` are the same calculation over the integers. A parsed
amount is read digit by digit, so its overflow guard is met at each digit.

## What is checked

All runs pass with the properties listed except the four marked *violated*.
Instances are symmetric in row identifiers and sessions, or in consumers, where a
cfg says SYMMETRY; no run with a liveness property uses it.

| Run | Instance | Shows |
|---|---|---|
| `one_wallet` | 1 wallet opened with 0 or 1, 2 sessions; either a BET, its REFUND, its ROLLBACK and a ROLLBACK of the REFUND, or a BET over HTTP and in two messages, a reused message id and a ROLLBACK of a corrupt reference; 625k states | `LedgerReconciles`, `OneReversalPerReference`, `LockedReadsStayTrue`, `OutboxMirrorsState`, `NoWaitCycle`, `AckedMessagesTookEffect`, `HistoryIsImmutable`, `InboxIsFinal`, `ExpiryCodeIsTruthful` |
| `collisions` | 2 wallets, 6 operations that share keys or external ids, a ROLLBACK in each wallet; 404k states | `EffectExactlyOnce`, `OneRowPerOperation`, `RetryIsConclusive`, `AnswersAreDurable`, `ReferencesAreSound` |
| `sequential_core` | all kinds, 2 players, 2 rounds, amounts and balances 0..2; 8-bit amounts and delays; 352k states | `ReversalUndoesReference`, `DecisionIsFinal`, `ExpiryFollowsTheDomain`, `EveryLayerAgrees`, `RowsReadBack`, `MoneyIsExact`, `DelaysAreBounded` |
| `outbox` | 2 publishers, 2 events, 2 faults, 1 overrun; 26k states | `ClaimsAreAccounted`, `PublishedRowsAreFrozen`, `ImplementsDelivery`, `EveryEventIsPublished` |
| `worker` | 2 workers, an operation and one waiting for it, 1 fault, 1 overrun; 151k states | `SharedOnlyAfterOverrun`, `NoOperationGivesUpEarly`, `ImplementsPendingLife`, `EveryPendingEnds` |
| `accounts` | 2 wallets, 2 owners, 2 writers, 1 reader, 5 entries; 610k states | `PagesAreExact`, `ReconciliationNeverDiverges`, `OneWalletPerOwner` |
| `consumer` | 2 consumers, 2 messages, one malformed; 1 slot, 1 fault, 1 stop; 4.6M states | `NoMessageIsLost`, `DeadLettersWereRefused`, `GracefulStopHandsBack` |
| `consumer_settles` | the same with 1 consumer; 208k states | `EveryMessageSettles` |
| `lock_order` | *violated* | `NoWaitCycle` across wallets |
| `consumer_ownership` | *violated* | `OwnershipIsExclusive` |
| `pending_limits` | *violated* | `LimitsEndEveryPending` |
| `http_answers` | *violated*; the machine of `TransactionRecord` on its own | `AnswersAreAsDocumented` |

`MCSequentialCore` puts the three machines that no interleaving can disturb into
one instance: a behaviour moves one of them and leaves the others at rest.

### Bounds

A race of this code needs two transactions, and a third where one must collide
with a retry (`collisions`). Two reversals of one BET are enough for the reversal
index to matter, two wallets for everything that escapes a wallet lock. A ROLLBACK
of the REFUND is what makes an operation wait for a pending one, so that an expiry
can find its reference unprocessed as well as absent; it shares its key with the
ROLLBACK of the BET, so that one of the two is stored. Both scenarios of
`one_wallet` need one wallet and nothing of each other: `CONSTRAINT OneScenario`
follows a behaviour as long as its operations are of one of them. Identifiers
(`TxIds`) bound the rows. The four of `one_wallet` hold the opening and three
operations, which is all that a scenario can store. In `collisions` they hold two
openings and two of the six operations, or one opening and three: enough for each
collision and for either ROLLBACK with the operation it names, not for all of them
at once. Amounts are 1 and balances up to `MaxMoney` = 3, so that a debit finds
too little, just enough or more. `MaxAttempts` = 1 and `AttemptsCap` = 2 let a
pending row be retried, reach its limit and pass it; `AttemptsCap` only stops the
counter. HTTP submissions and deliveries may be repeated without bound.

`sequential_core` needs amounts 0, 1 and 2 so that an amount can be missing, equal
or different, and a balance limit of 2 so that a credit can overflow. Eight bits
hold every boundary of the guards of `Money` and `Backoff`, up to three digits and
delays just above and below half of the width; `SequentialCoreProofs` has the other
widths. `worker` takes batches of one row, so that a row that never rehydrates
can stand in the way of another, two attempts, so that a limit can be reached
early or late, and one fault and overrun, which are enough for a lost answer and
for two workers on one row. `accounts` lets two numbers be drawn and committed in
either order, or lost, below and above a cursor, with pages of one or two.

The consumer has one slot and a batch of two, so that a message waits for the
slot; a visibility of 2 ticks against a processing time of 1 (3 and 2 where
exclusive ownership is asked) lets each expire before the other. One fault lets
any single call fail or a process die anywhere; timeouts, redeliveries and
cancellation cost no fault. The outbox allows two faults (a failure and a crash of
its successor) and one lease overrun.

### Fairness

Only the runs with a liveness property use it. Weak fairness of `Claim`, `Send`,
`MarkPublished` and `ScheduleRetry` is the poll loop of the publisher, which has no
exit but a stop; of a lease and a backoff, the passage of time. For the consumer
it is the receive loop, the return of every call (all have deadlines or contexts),
the mutex, time, and the replacement of a stopped instance. For the worker it is
its poll loop (`Claim`, the resumption of some row of its batch, the two handlers)
and the passage of `next_attempt_at` and `pending_expires_at`. No fairness makes a
client submit, a reference arrive, an operator stop an instance or a call fail,
and failures are bounded, as without a bound nothing can be promised.

## What the violated runs show

1. **`lock_order`.** ARCHITECTURE.md:152-154: wallets never contend for a lock.
   Pending operations that name each other across wallets do, at the foreign
   key; PostgreSQL ends the wait and the worker retries.
2. **`consumer_ownership`.** config.go:76-78 derives exclusive ownership from
   visibility longer than processing. Waiting for a slot uses up visibility
   first. In the run time passes only when workers are at work or all slots are
   taken (`PromptSpec`), so no slow scheduling is needed. The database still
   gives the operation one effect.
3. **`pending_limits`.** README.md:89-90: the worker ends a pending operation by
   TTL or attempts. `ResumePending` looks at the limits only when the decision is
   to wait (process_operation.go:407). With a PROCESSED reference and a credit that
   overflows the balance, `processPending` fails before that
   (process_operation.go:522), the worker takes it for a transient error and
   reschedules, for ever. It needs a balance near the limit of int64.
   `EveryPendingEnds` shows that all other operations end, except those whose own
   row does not rehydrate, which `FailPending` cannot end either.
4. **`http_answers`.** README.md:224-228 of the repository: a 200 is a `PROCESSED`
   operation with its transactionId, status, balance and idempotentReplay, and
   ARCHITECTURE.md:502-505: no synchronous HTTP path produces a
   `PERMANENT_PROCESSING_FAILURE`. A client that repeats an operation the worker has
   failed for good gets a replay of it: 200, as `FAILED` is neither `REJECTED` nor
   `PENDING_REFERENCE` (wagering.go:92-97), and no body, as its balance is the zero
   `Money`, which does not marshal (money.go:163-167). The theorem
   `OnlyFailedReplaysDiverge` says that no other answer departs from the README.

Two more observations, of no consequence for the properties above. The late
`ScheduleRetry` of a publisher whose lease ran out clears the lease of its
successor (store.go:84), although store.go:31 calls it exclusive: additional
sends, which readers deduplicate and `ClaimsAreAccounted` counts. And past the
shutdown deadline a cancelled worker of the consumer can untrack its message
between `workCancel()` and the lock that `releaseActive` takes, which
consumer.go:103-105 rules out: the message stays hidden for the rest of its
timeout.

One passing property states a limit of the code. `ExpiryCodeIsTruthful` is checked
where the operation and its reference share a wallet. For a reference of another
wallet no lock is held between the two lookups, and an expired operation may be
given `REFERENCE_NOT_PROCESSED` for a reference that has just become PROCESSED; it
is rejected in either case. And `DeadLettersWereRefused` is as much as can be said
of a dead letter: that it never takes effect is not true of one that came before
its wallet, whose delete was lost and which was delivered again later.

## What is proved

The theorems hold for every value of the constants that the named assumptions
allow: any number of wallets, sessions, operations, messages, workers,
publishers, consumers and events, and any bounds.

| Theorem | Statement |
|---|---|
| `TypeCorrect` | `ProcessOperation!Spec => []TypeOK` (balances are never negative) |
| `BooksBalance` | `... => []LedgerReconciles` |
| `OperationsAreUnique` | `... => []OneRowPerOperation` |
| `AnswersEndure` | `... => []AnswersAreDurable` |
| `AcksFollowEffects` | `... => []AckedMessagesTookEffect` |
| `InboxRowsFinal` | `... => InboxIsFinal`, an action property |
| `NothingIsRewritten` | `... => HistoryIsImmutable`, an action property |
| `LocksProtectReads` | `... => []LockedReadsStayTrue` |
| `RetriesConclude` | `... => []RetryIsConclusive` |
| `ReversedOnce` | `... => []OneReversalPerReference` |
| `EffectsHappenOnce` | `... => []EffectExactlyOnce` |
| `ReferencesSound` | `... => []ReferencesAreSound` |
| `OutboxTellsTheTruth` | `... => []OutboxMirrorsState` |
| `OneWalletNeverDeadlocks` | `... => []NoWaitCycleOnOneWallet`: `NoWaitCycle` among sessions of one wallet |
| `NoDeadlockWithOneWallet` | `... => []NoWaitCycle` if there is one wallet |
| `ExpiryIsTruthful` | `... => ExpiryCodeIsTruthfulInWallet`: `ExpiryCodeIsTruthful` for a reference of the same wallet |
| `ExpiryIsTruthfulWithOneWallet` | `... => ExpiryCodeIsTruthful` if there is one wallet |
| `OutboxTypeCorrect` | `OutboxPublisher!Spec => []TypeOK` |
| `ClaimsAccounted` | `... => []ClaimsAreAccounted` |
| `PublishedFrozen` | `... => PublishedRowsAreFrozen`, an action property |
| `DeliveryImplemented` | `... => EventDelivery!Spec` under the refinement mapping |
| `NothingIsLost` | `SqsConsumer!Spec => []NoMessageIsLost` |
| `DeadLettersSound` | `... => []DeadLettersWereRefused` |
| `StopHandsBack` | `... => GracefulStopHandsBack` |
| `WorkerTypeCorrect` | `ReferenceWorker!Spec => []TypeOK` |
| `SharesArePaidFor` | `... => []SharedOnlyAfterOverrun` |
| `PatienceIsKept` | `... => NoOperationGivesUpEarly` |
| `LifeImplemented` | `... => PendingLife!Spec` under the refinement mapping |
| `ReversalsUndo`, `DecisionsAreFinal` | `RuleCases`: `ReversalUndoesReference`, `DecisionIsFinal` |
| `ExpiryIsTheDomains`, `LayersAgree`, `RowsAreReadBack` | `TransactionRecord`: `ExpiryFollowsTheDomain`, `EveryLayerAgrees`, `RowsReadBack` |
| `OnlyFailedReplaysDiverge` | `RecordSpec`: every answer is as documented, or it is the replay of a FAILED operation, a 200 without a body |
| `OwnersHaveOneWallet` | `WalletLedger!Spec => []OneWalletPerOwner` |
| `PagesNeverSkipOrRepeat` | `... => []PagesAreExact` |
| `ReconciliationsAgree` | `... => []ReconciliationNeverDiverges` |
| `LedgerIsAChain` | `... => [](Chained /\ Balanced)`: a wallet's entries in the order of their numbers lead to its balance, and add up to it |
| `EntriesAreAppended` | `... => [][Appends]_vars`: a wallet's entries become visible in the order of their numbers |
| `MoneyExact` | `MoneySpec => []MoneyIsExact`, for every width |
| `DelaysBounded` | `BackoffSpec => []DelaysAreBounded`, for every width |

**ProcessOperation: the books.** Assumptions: `ConstantsAssumption` (operations
name known wallets and kinds and have integer amounts; openings are not
negative), `NoneAssumption` and `AbsenceAssumption` (the absent value is none of
the others). `LedgerReconciles` is not inductive: `Commit` writes a balance
computed several statements earlier. The inductive invariant `IndInv` adds that a
session past `lock` holds the wallet lock and its snapshot is the wallet as it is
(`HoldsWallet`), that its job fits its statement (`JobFits`), that its
uncommitted row is the movement applied to the snapshot (`PlanFits`), that new
rows have distinct identifiers (`PlansDistinct`), that what waits was an accepted
request (`PendingAreRequests`), and that the ledger names stored rows. The proof
has one lemma per action; `Frame` and `SessionStep` carry the parts an action
leaves alone.

**ProcessOperation: the history.** `HistoryInv` is inductive on top of `IndInv`.
A commit overwrites a row only where a worker completes it, so that row is still
pending from `FindPendingForUpdate` to the commit (`HoldsPendingRow`) and keeps
its key (`PlanKeepsKey`). What a unique index checked when the row was written
must still be so when it commits: against the stored rows (`PlanAdmitted`), and
against the other uncommitted ones (`PlansCompatible`), because sessions of
different wallets share no lock. The theorems about answers and acknowledgements
then follow from rows never losing what an answer quoted.

**ProcessOperation: the effects.** `EffectInv` has three parts. `DecisionInv`:
the verdict of a session, taken from rows it read under the lock, still fits the
stored rows (`VerdictFits`), which takes the lock on the wallet that a reference
shares with its referrer; the second transaction of a retry is certain to find
the row it collided with (`RetryFits`); each processed row fits its reference
(`StoredSound`). `LedgerInv`: entries and processed movements are in one-to-one
correspondence. `OutboxInv`: so are events and terminal rows, and the balance
events of a wallet are its ledger, entry by entry. `ReversedOnce` uses both
halves: by `StoredSound` and the unique external ids two reversals of one external
reference name the same row, and the partial unique index admits one of them.
`LockedReadsStayTrue` says that this index is never what stops a session, because
the lock of the wallet already has.

**ProcessOperation: waiting and expiry.** `NoWaitCycle` and
`ExpiryCodeIsTruthful` are not true of every instance: sessions of two wallets can
wait for each other, as `lock_order` shows, and a reference of another wallet may
be processed between the two queries of an expiry. What holds for any number of
wallets is proved: a cycle needs sessions of two wallets, and a code that is not
true a reference in another wallet. The first follows from who can wait for whom:
a session inside a transaction only for sessions of other wallets, one that waits
for its wallet for a session inside a transaction (`LocksAreHeld`), one that
inserts an inbox row for one that has inserted it. The second needs `ExpiriesFit`:
between the two queries no row of the locked wallet becomes `PROCESSED`. For an
instance with one wallet, such as the ones the runs use for these properties, the
properties themselves follow.

**OutboxPublisher.** Assumptions: `BoundsAssumption` and `AbsentEvent`. `IndInv`
adds that publishers work on committed events and confirm only what they sent
(`WorkFits`), and that each claim is paid for or still outstanding (`ClaimsFit`).
`DeliveryImplemented` maps each action to a step of `EventDelivery` or a stutter.

**SqsConsumer.** Assumptions: `TimeoutsAssumption`, which is what
`config.Load` demands of the timeouts, and `NobodyAssumption`. `ConsumerInv`
has the types and two more parts. `SettledInv`: a worker that is about to delete
a message knows of its effect or of its place in the dead-letter queue
(`WorkersSound`), one that is about to dead-letter a message knows of a refusal,
and what is malformed or preempted never took effect (`RefusalsHold`), since a
committed message is not refused and a preempted one does not commit.
`HandBackInv`: a loop that polls or has exited has no batch left (`BatchIsSpent`),
and, as long as no call has failed and the instance was not cancelled, whatever it
hides without a backoff is in its batch or served by one of its workers
(`HeldIsAccounted`); when a stop has drained both, nothing is left hidden.

**ReferenceWorker.** Assumptions: `BoundsAssumption`, `OperationAssumption`,
`AbsentRow` and `WorkersAssumption` (the instances are finitely many).
`ImplementsPendingLife` needs `FailFits`: a worker that is about to fail an
operation found its reference, or the row, unreadable, and that stays so until it
does. Every action then leaves the table alone or takes one of two steps
(`TableStep`: a pending row is rescheduled or ended as its reference allows, or a
reference progresses), and those are steps of `PendingLife`.
`SharedOnlyAfterOverrun` is not inductive: a row that is due can be claimed by
one more worker. `SharesFit` counts that claim in advance.
`NoOperationGivesUpEarly` needs the workers that are about to reschedule a row to
be counted before they write, together with the faults (`AttemptsFit`).
`Fragile`, `Chain` and the bounds are arbitrary.

**Rules and record.** Assumptions: `CasesAssumption` (amounts are natural numbers)
and `RecordAssumption`. `DecisionIsFinal` compares two decisions on the same
request: the lemmas split them by what the reference was and has become. The
properties of `TransactionRecord` need that the row is what the schema admits for
the aggregate in memory (`Fits`) and that a pending row is exactly the one the
request was stored with (`PendingOK`), since resuming it decides again from that
row.

**WalletLedger.** Assumptions: `LedgerAssumption` and `AbsentAssumption` (the
absent value is no wallet, row, entry or number). `OneWalletPerOwner` is about
committed wallets, but an opening checks the index before it commits. `LedgerInv`
adds that wallets under way have distinct ids and owners among themselves
(`OneSessionPerWallet`, `OneSessionPerOwner`) and against the committed ones
(`OwnersAgree`).

`PagesAreExact` and `ReconciliationNeverDiverges` rest on `BooksInv`. Numbers are
drawn before the commit and shared by all wallets, so across wallets they do become
visible out of order; within one they do not, because the entry is inserted under
the row lock. `SessionsFit` says so: the entry of a transaction under way has a
number above all of its wallet's, starts at the stored balance and ends at the row
to be stored. `Commit` then extends `Chained` (each entry starts where the one
before it ended, the last one ended at the balance) and `Balanced` (they add up to
it), and adds nothing below a cursor (`WalksFit`); a snapshot adds up because every
committed state does (`AuditsFit`).

What a sum and a sort compute is proved without the induction theorems of the
library, which the provers cannot instantiate. A sum of a finite set does not
depend on the order of its terms (`TotalExists`, `FoldIsTotal`): a smallest subset
for which that failed would be one entry larger than one for which it holds, and a
smallest one exists since the subsets of a finite set are well-founded
(`MinimalSubset`). `InOrder` puts an entry where the number of entries up to it
says: that this is a place for each entry and an entry for each place (`InOrderIs`)
is the pigeonhole principle. `PageIs` says what a page is in terms of sets, and
`PageShown` what a walk has shown after it.

**Money and Backoff.** Assumptions: `WidthAssumption`, `DurationAssumption`. The
lemmas show that each guard, evaluated in wrapped arithmetic, is true exactly when
the unbounded result is not representable; the invariants then say that wrapped
and exact values are equal.

Only model-checked: the liveness properties `EveryEventIsPublished`,
`EveryMessageSettles` and `EveryPendingEnds`, since fairness and ENABLED are beyond
the proof system used. `NoWaitCycle` and `ExpiryCodeIsTruthful` are proved where
they hold, within one wallet.

## Not modelled, and why

Authentication, start-up, queue resolution, logging and metrics change no state
the models follow. Of HTTP the decoding of requests, error bodies and middleware
are left out, of the read side who may see a transaction and the plain read of a
wallet: single expressions without a state. Currencies and JSON of `Money`, the
generation of identifiers, triggers and grants of the schema that refuse only what
no statement of the code attempts, and the parsing of environment variables are
left out for the same reason. Timestamps decide nothing that sequence numbers,
versions and deadlines do not. Order of publication is not promised by the code's
own documents and is not a property here.

## Plan

Every component whose state the properties depend on is modelled, and every safety
property of a passing run is proved. What is left needs other tools: proofs of the
three liveness properties.

## Running

    tlc -config MCOneWallet.cfg MCOneWallet
    tlapm ProcessOperationProofs.tla

`PROJECT.json` names the module and cfg of each run, the source lines behind each
definition, and for every property of a passing run a mutation of the model,
kept beside the definition it mutates and marked `Mutant:`, that the run rejects.
