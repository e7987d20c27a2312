-------------------------- MODULE ProcessOperation --------------------------
(***************************************************************************)
(* The transactional core of the wallet service: the HTTP use case         *)
(* (Process), the SQS consumer's inbox transaction (processOnce) and the   *)
(* reference worker's ResumePending / FailPending / retry transactions,    *)
(* run by concurrent sessions of any number of instances against one       *)
(* PostgreSQL database.                                                    *)
(*                                                                         *)
(* A session step is one SQL statement, or several whose grouping no other *)
(* session can tell apart.  Isolation is READ COMMITTED: a SELECT sees     *)
(* what is committed when it runs, a session's own writes (plan) become    *)
(* visible to the others at Commit, FOR UPDATE and unique-index waits are  *)
(* guards.  Abort is a crash, a timeout, a failed statement or a deadlock  *)
(* victim: the transaction rolls back and its locks are released.          *)
(***************************************************************************)
EXTENDS OperationRules, Sequences, FiniteSets

CONSTANTS
    Wallets,          \* wallet identifiers that may be opened
    Player, Currency, \* the owner and the currency each wallet is opened with
    OpeningBalances,  \* initial balances a wallet may be opened with
    TxIds,            \* wager transaction identifiers (bound: rows ever made)
    Sessions,         \* goroutines with a database transaction each
    Messages,         \* messageId values of the input queue
    HttpOps,          \* operations submitted over HTTP, any number of times
    Deliveries,       \* [msg, op]: queue deliveries, any number of times
    MaxAttempts,      \* reference worker limit, 0 for none
    AttemptsCap,      \* bound on the attempts counter of a pending row
    MaxMoney,         \* the largest representable balance
    Corrupt           \* references whose stored row does not rehydrate

VARIABLES
    wallets,     \* wallets table: [balance, version], None before Insert
    rows,        \* wager_transactions table
    ledger,      \* wallet_ledger_entries of each wallet, in sequence order
    outbox,      \* outbox_events of each wallet, in commit order
    inbox,       \* inbox_messages: the payload hash recorded for a message
    walletLock,  \* holder of the wallet row's FOR UPDATE lock
    pc,          \* next statement of each session
    job,         \* what the session is executing
    tries,       \* transactions already rolled back by an INSERT collision
    snap,        \* the wallet as FindForUpdate read it
    verdict,     \* the decision and the resolved reference
    plan,        \* the uncommitted wager_transactions row of the session
    answers,     \* history: results returned to HTTP callers
    acked        \* history: deliveries whose message was deleted as done

db      == <<wallets, rows, ledger, outbox, inbox>>
session == <<pc, job, tries, snap, verdict, plan>>
history == <<answers, acked>>
vars    == <<db, walletLock, session, history>>

-----------------------------------------------------------------------------
(* Records.                                                                *)

Operations == HttpOps \cup {d.op : d \in Deliveries}

NoJob     == [via |-> None, op |-> None, msg |-> None, id |-> None]
HttpJob(op)     == [NoJob EXCEPT !.via = "HTTP", !.op = op]
SqsJob(d)       == [NoJob EXCEPT !.via = "SQS", !.op = d.op, !.msg = d.msg]
WorkerJob(v, i) == [NoJob EXCEPT !.via = v, !.id = i]

NoVerdict == [action |-> None, direction |-> "NONE", code |-> None, ref |-> None]
NoPlan    == [id |-> None, row |-> None]
NoSnap    == [balance |-> 0, version |-> 0]

Verdict(d, ref) == [action |-> d.action, direction |-> d.direction,
                    code |-> d.code, ref |-> ref]

IsWorker(s)  == job[s].via \in {"RESUME", "FAIL", "RETRY"}
Payload(s)   == IF IsWorker(s) THEN rows[job[s].id].payload ELSE job[s].op.payload
WalletOf(s)  == Payload(s).wallet
Terminal(st) == st \in {"PROCESSED", "REJECTED", "FAILED"}

\* The OPENING transaction: no provider metadata, hence never found by one.
OpeningRow(w, amount) ==
    [key     |-> None,
     payload |-> [provider |-> None, ext |-> None, player |-> Player[w],
                  wallet |-> w, round |-> None, kind |-> "OPENING",
                  currency |-> Currency[w], amount |-> amount, ref |-> None],
     status  |-> "PROCESSED", code |-> None, balance |-> amount,
     ref     |-> None, attempts |-> 0]

-----------------------------------------------------------------------------
(* Queries.                                                                *)

\* SELECT ... WHERE provider_id = $1 AND idempotency_key = $2
FindByIdempotencyKey(provider, key) ==
    {id \in TxIds : /\ rows[id] # None
                    /\ rows[id].payload.provider = provider
                    /\ rows[id].key = key}

\* SELECT ... WHERE provider_id = $1 AND external_transaction_id = $2
FindByExternalTransactionID(provider, ext) ==
    {id \in TxIds : /\ rows[id] # None
                    /\ rows[id].payload.provider = provider
                    /\ rows[id].payload.ext = ext}

\* The rows of the partial unique index on reference_transaction_id.
SuccessfulReversalOf(row, ref) ==
    /\ row.ref = ref
    /\ IsReversal(row.payload.kind)
    /\ row.status = "PROCESSED"

ExistsSuccessfulReversal(ref) ==
    \E id \in TxIds : rows[id] # None /\ SuccessfulReversalOf(rows[id], ref)

\* Mutant: no unique index on (provider_id, external_transaction_id).
ConflictWithoutExternal(r1, r2) ==
    \/ r1.payload.provider = r2.payload.provider /\ r1.key = r2.key
    \/ r1.ref # None /\ SuccessfulReversalOf(r1, r1.ref) /\ SuccessfulReversalOf(r2, r1.ref)

\* Some unique index of wager_transactions admits at most one of two rows.
UniqueConflict(r1, r2) ==
    \/ r1.payload.provider = r2.payload.provider /\ r1.key = r2.key
    \/ r1.payload.provider = r2.payload.provider /\ r1.payload.ext = r2.payload.ext
    \/ r1.ref # None /\ SuccessfulReversalOf(r1, r1.ref) /\ SuccessfulReversalOf(r2, r1.ref)

-----------------------------------------------------------------------------
(* Locks a statement may wait for.                                         *)

\* Mutant: the worker locks its row before the wallet.
HoldsRowBeforeWallet(t, id) ==
    /\ IsWorker(t)
    /\ job[t].id = id
    /\ pc[t] # "idle"

\* FOR UPDATE on a pending row, taken by FindPendingForUpdate until the end.
HoldsRow(t, id) ==
    /\ IsWorker(t)
    /\ job[t].id = id
    /\ pc[t] \in {"resolve", "expire", "complete", "commit"}

\* FOR KEY SHARE on the row that an uncommitted foreign key names.
HoldsKeyShare(t, id) == pc[t] = "commit" /\ plan[t].row.ref = id

\* Mutant: no unique index on (consumer_name, message_id).
InboxNotUnique(t, m) == FALSE

\* An uncommitted inbox row for the message.
HoldsInbox(t, m) == m # None /\ job[t].msg = m /\ pc[t] \notin {"idle", "inbox"}

\* Another session's uncommitted row that the unique indexes compare with row.
InFlightConflict(s, row) ==
    \E t \in Sessions \ {s} : pc[t] = "commit" /\ UniqueConflict(row, plan[t].row)

ForeignKeyWait(s, ref) ==
    ref # None /\ \E t \in Sessions \ {s} : HoldsRow(t, ref)

-----------------------------------------------------------------------------
(* The movement: Wallet.Debit / Wallet.Credit on the locked snapshot and   *)
(* the status, code and resulting balance that follow from it.             *)

\* Mutant: Debit does not compare the balance.
NeverInsufficient(v, b, a) == FALSE

Moves(v)              == v.action = "PROCESS" /\ v.direction # "NONE"
Insufficient(v, b, a) == Moves(v) /\ v.direction = "DEBIT" /\ b < a
Overflows(v, b, a)    == Moves(v) /\ v.direction = "CREDIT" /\ b + a > MaxMoney

After(v, b, a) == IF ~Moves(v) \/ Insufficient(v, b, a) THEN b
                  ELSE IF v.direction = "DEBIT" THEN b - a ELSE b + a

\* Mutant: ResolveReference is forgotten.
SettleUnresolved(row, v, b) ==
    LET p == row.payload  short == Insufficient(v, b, p.amount) IN
    [row EXCEPT !.status = IF v.action = "REJECT" \/ short THEN "REJECTED" ELSE "PROCESSED",
                !.code = IF short THEN InsufficientFundsFor(p.kind) ELSE v.code,
                !.balance = After(v, b, p.amount)]

\* row with the outcome that verdict v gives it on a wallet with balance b.
Settle(row, v, b) ==
    LET p == row.payload
        short == Insufficient(v, b, p.amount)
    IN  [row EXCEPT
           !.status  = IF v.action = "REJECT" \/ short THEN "REJECTED" ELSE "PROCESSED",
           !.code    = IF short THEN InsufficientFundsFor(p.kind) ELSE v.code,
           !.balance = After(v, b, p.amount),
           !.ref     = v.ref]

\* NewExternalTransaction: the row as built, before it is settled.
PendingRow(op) ==
    [key |-> op.key, payload |-> op.payload, status |-> "PENDING_REFERENCE",
     code |-> None, balance |-> None, ref |-> None, attempts |-> 0]

\* processPendingNew stores the row unresolved, processNew settles it.
NewRow(s) ==
    IF verdict[s].action = "WAIT" THEN PendingRow(job[s].op)
    ELSE Settle(PendingRow(job[s].op), verdict[s], snap[s].balance)

\* Mutant: a movement is recorded although the funds did not allow it.
MovesWhateverTheOutcome(s) == Moves(verdict[s])

\* The session's plan changes the balance.
PlanMoves(s) == Moves(verdict[s]) /\ plan[s].row.status = "PROCESSED"

\* UPDATE wallets ... WHERE version = $5 would affect the row.
VersionMatches(s, row) ==
    Moves(verdict[s]) /\ row.status = "PROCESSED"
        => wallets[WalletOf(s)].version = snap[s].version

-----------------------------------------------------------------------------
(* Events and ledger entries written with a plan.                          *)

WagerEvent(type, id) == [type |-> type, tx |-> id, version |-> None, balance |-> None]
BalanceChanged(id, version, balance) ==
    [type |-> "BALANCE_CHANGED", tx |-> id, version |-> version, balance |-> balance]

\* Mutant: the balance event carries the version before the movement.
EventsWithOldVersion(s) ==
    LET r == plan[s].row  id == plan[s].id IN
    CASE r.status = "REJECTED" -> <<WagerEvent("REJECTED", id)>>
      [] r.status = "PROCESSED" /\ PlanMoves(s) ->
            <<WagerEvent("PROCESSED", id), BalanceChanged(id, snap[s].version, r.balance)>>
      [] OTHER -> <<>>

\* writeOutboxEvents, and the event of processPendingNew.  A rescheduled or
\* FAILED row produces none.
EventsOf(s) ==
    LET r == plan[s].row  id == plan[s].id IN
    CASE r.status = "REJECTED" -> <<WagerEvent("REJECTED", id)>>
      [] r.status = "PROCESSED" ->
            <<WagerEvent("PROCESSED", id)>> \o
            (IF PlanMoves(s)
             THEN <<BalanceChanged(id, snap[s].version + 1, r.balance)>> ELSE <<>>)
      [] r.status = "PENDING_REFERENCE" /\ ~IsWorker(s) ->
            <<WagerEvent("PENDING_REFERENCE", id)>>
      [] OTHER -> <<>>

Entry(id, direction, amount, before, after) ==
    [tx |-> id, direction |-> direction, amount |-> amount,
     before |-> before, after |-> after]

\* Mutant: processPending moves the balance without a ledger entry.
EntriesOfRequestsOnly(s) ==
    IF PlanMoves(s) /\ ~IsWorker(s)
    THEN <<Entry(plan[s].id, verdict[s].direction, plan[s].row.payload.amount,
                 snap[s].balance, plan[s].row.balance)>>
    ELSE <<>>

EntriesOf(s) ==
    IF PlanMoves(s)
    THEN <<Entry(plan[s].id, verdict[s].direction, plan[s].row.payload.amount,
                 snap[s].balance, plan[s].row.balance)>>
    ELSE <<>>

-----------------------------------------------------------------------------
Init ==
    /\ wallets = [w \in Wallets |-> None]
    /\ rows = [id \in TxIds |-> None]
    /\ ledger = [w \in Wallets |-> <<>>]
    /\ outbox = [w \in Wallets |-> <<>>]
    /\ inbox = [m \in Messages |-> None]
    /\ walletLock = [w \in Wallets |-> None]
    /\ pc = [s \in Sessions |-> "idle"]
    /\ job = [s \in Sessions |-> NoJob]
    /\ tries = [s \in Sessions |-> 0]
    /\ snap = [s \in Sessions |-> NoSnap]
    /\ verdict = [s \in Sessions |-> NoVerdict]
    /\ plan = [s \in Sessions |-> NoPlan]
    /\ answers = {}
    /\ acked = {}

\* uuid.NewV7: an identifier no stored or uncommitted row has.
Fresh(id) == rows[id] = None /\ \A s \in Sessions : plan[s].id # id

(* The end of a transaction: its locks are gone, and the session goes on   *)
(* with job j at statement next (for a finished session: NoJob, "idle").   *)
EndTx(s, next, j, n) ==
    /\ walletLock' = [w \in Wallets |-> IF walletLock[w] = s THEN None ELSE walletLock[w]]
    /\ pc' = [pc EXCEPT ![s] = next]
    /\ job' = [job EXCEPT ![s] = j]
    /\ tries' = [tries EXCEPT ![s] = n]
    /\ snap' = [snap EXCEPT ![s] = NoSnap]
    /\ verdict' = [verdict EXCEPT ![s] = NoVerdict]
    /\ plan' = [plan EXCEPT ![s] = NoPlan]

Finish(s) == EndTx(s, "idle", NoJob, 0)

\* A statement that only moves the session on.
Goto(s, next) ==
    /\ pc' = [pc EXCEPT ![s] = next]
    /\ UNCHANGED <<db, walletLock, job, tries, history>>

-----------------------------------------------------------------------------
(* OpenWalletUseCase.Open: one transaction.  A second wallet for the same  *)
(* player and currency hits the unique index and is refused.               *)
OpenWallet(w, amount) ==
    /\ wallets[w] = None
    /\ \A v \in Wallets : wallets[v] # None =>
           ~(Player[v] = Player[w] /\ Currency[v] = Currency[w])
    /\ wallets' = [wallets EXCEPT ![w] = [balance |-> amount, version |-> 1]]
    /\ \/ amount = 0 /\ UNCHANGED <<rows, ledger, outbox>>
       \/ /\ amount > 0
          /\ \E id \in TxIds :
                /\ Fresh(id)
                /\ rows' = [rows EXCEPT ![id] = OpeningRow(w, amount)]
                /\ ledger' = [ledger EXCEPT ![w] = <<Entry(id, "CREDIT", amount, 0, amount)>>]
                /\ outbox' = [outbox EXCEPT ![w] =
                        <<WagerEvent("PROCESSED", id), BalanceChanged(id, 1, amount)>>]
    /\ UNCHANGED <<inbox, walletLock, session, history>>

-----------------------------------------------------------------------------
(* Submissions.  An operation Prepare refuses never opens a transaction.   *)

Prepared(op) == Evaluate(op.payload, None, FALSE).action # "INVALID"

Begin(s, j, first) ==
    /\ pc[s] = "idle"
    /\ pc' = [pc EXCEPT ![s] = first]
    /\ job' = [job EXCEPT ![s] = j]
    /\ UNCHANGED <<db, walletLock, tries, snap, verdict, plan, history>>

Process(s, op) == Prepared(op) /\ Begin(s, HttpJob(op), "lock")

Handle(s, d) == Prepared(d.op) /\ Begin(s, SqsJob(d), "inbox")

\* The worker runs a row it claimed while it was pending.  The claim is a
\* lease that expires, so several sessions may hold the same one.
ResumePending(s, id) ==
    /\ rows[id] # None
    /\ rows[id].status = "PENDING_REFERENCE"
    /\ Begin(s, WorkerJob("RESUME", id), "lock")

\* Mutant: the inbox row is committed before the operation runs.
InboxInsertOwnTx(s) ==
    LET m == job[s].msg  h == PayloadHash(job[s].op.payload) IN
    /\ pc[s] = "inbox"
    /\ IF inbox[m] = None
       THEN /\ inbox' = [inbox EXCEPT ![m] = h]
            /\ pc' = [pc EXCEPT ![s] = "lock"]
            /\ UNCHANGED <<wallets, rows, ledger, outbox, walletLock, job, tries, snap,
                           verdict, plan, history>>
       ELSE Finish(s) /\ UNCHANGED <<db, history>>

(* processOnce: INSERT INTO inbox_messages ... ON CONFLICT DO NOTHING waits *)
(* for an uncommitted row of the same message.                              *)
InboxInsert(s) ==
    LET m == job[s].msg
        h == PayloadHash(job[s].op.payload)
    IN
    /\ pc[s] = "inbox"
    /\ \A t \in Sessions \ {s} : ~HoldsInbox(t, m)
    /\ \/ /\ inbox[m] = None
          /\ Goto(s, "lock")
          /\ UNCHANGED <<snap, verdict, plan>>
       \/ /\ inbox[m] # None
          /\ Finish(s)                       \* duplicate, or hash mismatch: DLQ
          /\ acked' = IF inbox[m] = h
                      THEN acked \cup {[msg |-> m, op |-> job[s].op]} ELSE acked
          /\ UNCHANGED <<db, answers>>

-----------------------------------------------------------------------------
(* attempt, ResumePending, FailPending and ReschedulePendingAfterFailure   *)
(* all start with FindForUpdate.                                           *)

\* The wallet is missing, or is not the one the request describes.
RefuseWallet(s) ==
    /\ pc[s] = "lock"
    /\ LET w == WalletOf(s) IN
          \/ wallets[w] = None
          \/ /\ ~IsWorker(s)
             /\ walletLock[w] = None
             /\ \/ Player[w] # Payload(s).player
                \/ Currency[w] # Payload(s).currency
    /\ Finish(s)
    /\ UNCHANGED <<db, history>>

\* Mutant: SELECT without FOR UPDATE.
FindWithoutLock(s) ==
    /\ pc[s] = "lock"
    /\ wallets[WalletOf(s)] # None
    /\ snap' = [snap EXCEPT ![s] = wallets[WalletOf(s)]]
    /\ pc' = [pc EXCEPT ![s] = IF IsWorker(s) THEN "row" ELSE "key"]
    /\ UNCHANGED <<db, walletLock, job, tries, verdict, plan, history>>

FindForUpdate(s) ==
    LET w == WalletOf(s) IN
    /\ pc[s] = "lock"
    /\ wallets[w] # None
    /\ walletLock[w] = None
    /\ ~IsWorker(s) => /\ Player[w] = Payload(s).player
                       /\ Currency[w] = Payload(s).currency
    /\ walletLock' = [walletLock EXCEPT ![w] = s]
    /\ snap' = [snap EXCEPT ![s] = wallets[w]]
    /\ pc' = [pc EXCEPT ![s] = IF IsWorker(s) THEN "row" ELSE "key"]
    /\ UNCHANGED <<db, job, tries, verdict, plan, history>>

-----------------------------------------------------------------------------
(* lookupExisting: two SELECTs, each with a snapshot of its own.           *)

\* Commit of the inbox row: with the operation's effect, or with a replay.
RecordInbox(s) ==
    inbox' = IF job[s].via = "SQS"
             THEN [inbox EXCEPT ![job[s].msg] = PayloadHash(job[s].op.payload)]
             ELSE inbox

\* Mutant: a replay answers with the wallet's balance of the moment.
ReplyCurrentBalance(s, id, row) ==
    /\ answers' = IF job[s].via = "HTTP"
                  THEN answers \cup {[op |-> job[s].op, id |-> id, status |-> row.status,
                                      code |-> row.code, balance |-> snap[s].balance]}
                  ELSE answers
    /\ UNCHANGED acked

\* The transaction committed: an HTTP caller is answered, a message deleted.
Reply(s, id, row) ==
    /\ answers' = IF job[s].via = "HTTP"
                  THEN answers \cup {[op |-> job[s].op, id |-> id, status |-> row.status,
                                      code |-> row.code, balance |-> row.balance]}
                  ELSE answers
    /\ acked' = IF job[s].via = "SQS"
                THEN acked \cup {[msg |-> job[s].msg, op |-> job[s].op]} ELSE acked

\* A hit settles the classification whatever the second SELECT finds.
LookupByKey(s) ==
    LET op   == job[s].op
        hits == FindByIdempotencyKey(op.payload.provider, op.key)
    IN
    /\ pc[s] = "key"
    /\ \/ hits = {} /\ Goto(s, "ext") /\ UNCHANGED <<snap, verdict, plan>>
       \/ \E id \in hits :
             /\ ClassifyAttempt(op, rows[id], None).kind = "REPLAY"
             /\ RecordInbox(s)
             /\ Reply(s, id, rows[id])
             /\ Finish(s)
             /\ UNCHANGED <<wallets, rows, ledger, outbox>>
       \/ \E id \in hits :
             /\ ClassifyAttempt(op, rows[id], None).kind = "CONFLICT"
             /\ Finish(s)
             /\ UNCHANGED <<db, history>>

\* A genuinely new attempt starts from Prepare's decision.
LookupByExternal(s) ==
    LET op   == job[s].op
        hits == FindByExternalTransactionID(op.payload.provider, op.payload.ext)
        conflicting == {id \in hits : ClassifyAttempt(op, None, rows[id]).kind = "CONFLICT"}
    IN
    /\ pc[s] = "ext"
    /\ \/ /\ conflicting = {}
          /\ Goto(s, IF op.payload.ref = None THEN "insert" ELSE "resolve")
          /\ verdict' = [verdict EXCEPT ![s] = Verdict(Evaluate(op.payload, None, FALSE), None)]
          /\ UNCHANGED <<snap, plan>>
       \/ /\ conflicting # {}
          /\ Finish(s)
          /\ UNCHANGED <<db, history>>

-----------------------------------------------------------------------------
(* resolveDecision: FindReference, then ExistsSuccessfulReversal when the  *)
(* reference is PROCESSED.  A PROCESSED row never changes, so both reads   *)
(* may be taken at the time of the second one.                             *)

References(p) == FindByExternalTransactionID(p.provider, p.ref)

Unreadable(p) == References(p) # {} /\ <<p.provider, p.ref>> \in Corrupt

ResolvedVerdict(p) ==
    IF References(p) = {} THEN Verdict(WaitForReference, None)
    ELSE LET ref == CHOOSE id \in References(p) : TRUE
             d   == Evaluate(p, rows[ref], ExistsSuccessfulReversal(ref))
         IN  Verdict(d, IF d.action = "WAIT" THEN None ELSE ref)

\* UPDATE wager_transactions SET attempts = attempts + 1.
Rescheduled(id) == [rows[id] EXCEPT !.attempts = @ + 1]

LimitReached(id) == MaxAttempts > 0 /\ rows[id].attempts >= MaxAttempts

Plan(s, id, row) ==
    /\ plan' = [plan EXCEPT ![s] = [id |-> id, row |-> row]]
    /\ Goto(s, "commit")

ResolveNew(s) ==
    /\ pc[s] = "resolve"
    /\ ~IsWorker(s)
    /\ ~Unreadable(Payload(s))
    /\ verdict' = [verdict EXCEPT ![s] = ResolvedVerdict(Payload(s))]
    /\ Goto(s, "insert")
    /\ UNCHANGED <<snap, plan>>

\* expired is pending_expires_at <= now(): the clock is not modelled, so the
\* TTL may have passed or not at any resume.
ResolvePending(s) ==
    LET v == ResolvedVerdict(Payload(s))  id == job[s].id IN
    /\ pc[s] = "resolve"
    /\ IsWorker(s)
    /\ ~Unreadable(Payload(s))
    /\ verdict' = [verdict EXCEPT ![s] = v]
    /\ UNCHANGED snap
    /\ \/ v.action # "WAIT" /\ Goto(s, "complete") /\ UNCHANGED plan
       \/ /\ v.action = "WAIT"
          /\ \E expired \in BOOLEAN :
                IF expired \/ LimitReached(id)
                THEN Goto(s, "expire") /\ UNCHANGED plan
                ELSE rows[id].attempts < AttemptsCap /\ Plan(s, id, Rescheduled(id))

\* The limit is reached: a second FindReference only chooses the code.
ExpirePending(s) ==
    LET refs == References(Payload(s)) IN
    /\ pc[s] = "expire"
    /\ ~Unreadable(Payload(s))
    /\ verdict' = [verdict EXCEPT ![s] =
           IF refs = {} THEN Verdict(Rejection("REFERENCE_NOT_FOUND"), None)
           ELSE Verdict(Rejection("REFERENCE_NOT_PROCESSED"), CHOOSE id \in refs : TRUE)]
    /\ Goto(s, "complete")
    /\ UNCHANGED <<snap, plan>>

-----------------------------------------------------------------------------
(* processPendingNew and processNew.                                       *)

\* The movement fits an int64; Wallet.Credit fails otherwise.
Representable(s) == ~Overflows(verdict[s], snap[s].balance, Payload(s).amount)

\* INSERT ... ON CONFLICT DO NOTHING inserted the row, and the ledger, wallet
\* and outbox statements that follow touch only what the session has locked.
InsertNew(s) ==
    LET row == NewRow(s) IN
    /\ pc[s] = "insert"
    /\ Representable(s)
    /\ ~InFlightConflict(s, row)
    /\ ~\E id \in TxIds : rows[id] # None /\ UniqueConflict(row, rows[id])
    /\ ~ForeignKeyWait(s, row.ref)
    /\ VersionMatches(s, row)
    /\ \E id \in TxIds : Fresh(id) /\ Plan(s, id, row)
    /\ UNCHANGED <<snap, verdict>>

\* The INSERT collided: roll back and classify again in a new transaction,
\* once.  A second collision is TEMPORARILY_UNAVAILABLE.
RetryInNewTransaction(s) ==
    LET row == NewRow(s) IN
    /\ pc[s] = "insert"
    /\ Representable(s)
    /\ ~InFlightConflict(s, row)
    /\ \E id \in TxIds : rows[id] # None /\ UniqueConflict(row, rows[id])
    /\ IF tries[s] = 0
       THEN EndTx(s, IF job[s].via = "SQS" THEN "inbox" ELSE "lock", job[s], 1)
       ELSE Finish(s)
    /\ UNCHANGED <<db, history>>

-----------------------------------------------------------------------------
(* The worker's row: FindPendingForUpdate after the wallet lock.           *)

FailedRow(id) ==
    [rows[id] EXCEPT !.status = "FAILED", !.code = "PERMANENT_PROCESSING_FAILURE"]

\* Mutant: the status is not checked again under the lock.
ResumeWithoutStatusCheck(s) ==
    LET id == job[s].id IN
    /\ pc[s] = "row"
    /\ UNCHANGED <<snap, verdict>>
    /\ \/ job[s].via = "RESUME" /\ Goto(s, "resolve") /\ UNCHANGED plan
       \/ job[s].via = "FAIL" /\ Plan(s, id, FailedRow(id))
       \/ job[s].via = "RETRY" /\ Plan(s, id, Rescheduled(id))

FindPendingForUpdate(s) ==
    LET id == job[s].id IN
    /\ pc[s] = "row"
    /\ \A t \in Sessions \ {s} : ~HoldsRow(t, id) /\ ~HoldsKeyShare(t, id)
    /\ \/ /\ rows[id].status # "PENDING_REFERENCE"
          /\ Finish(s)
          /\ UNCHANGED <<db, history>>
       \/ /\ rows[id].status = "PENDING_REFERENCE"
          /\ UNCHANGED <<snap, verdict>>
          /\ \/ job[s].via = "RESUME" /\ Goto(s, "resolve") /\ UNCHANGED plan
             \/ job[s].via = "FAIL" /\ Plan(s, id, FailedRow(id))
             \/ /\ job[s].via = "RETRY"
                /\ rows[id].attempts < AttemptsCap
                /\ Plan(s, id, Rescheduled(id))

\* rejectPending and processPending: CompletePending and what follows it.
CompletePending(s) ==
    LET id == job[s].id
        row == Settle(rows[id], verdict[s], snap[s].balance)
    IN
    /\ pc[s] = "complete"
    /\ Representable(s)
    /\ rows[id].status = "PENDING_REFERENCE"
    /\ ~InFlightConflict(s, row)
    /\ ~\E x \in TxIds \ {id} : rows[x] # None /\ UniqueConflict(row, rows[x])
    /\ ~ForeignKeyWait(s, row.ref)
    /\ VersionMatches(s, row)
    /\ Plan(s, id, row)
    /\ UNCHANGED <<snap, verdict>>

-----------------------------------------------------------------------------
\* COMMIT: everything the transaction wrote becomes visible at once.
Commit(s) ==
    LET r == plan[s].row  w == r.payload.wallet IN
    /\ pc[s] = "commit"
    /\ rows' = [rows EXCEPT ![plan[s].id] = r]
    /\ wallets' = IF PlanMoves(s)
                  THEN [wallets EXCEPT ![w] = [balance |-> r.balance,
                                               version |-> snap[s].version + 1]]
                  ELSE wallets
    /\ ledger' = [ledger EXCEPT ![w] = @ \o EntriesOf(s)]
    /\ outbox' = [outbox EXCEPT ![w] = @ \o EventsOf(s)]
    /\ RecordInbox(s)
    /\ Reply(s, plan[s].id, r)
    /\ Finish(s)

\* Crash, timeout, cancelled context, failed statement, deadlock victim.
Abort(s) ==
    /\ pc[s] # "idle"
    /\ Finish(s)
    /\ UNCHANGED <<db, history>>

\* ResumePending returned a transient error: ReschedulePendingAfterFailure.
TransientFailure(s) ==
    /\ pc[s] # "idle"
    /\ job[s].via = "RESUME"
    /\ EndTx(s, "lock", WorkerJob("RETRY", job[s].id), 0)
    /\ UNCHANGED <<db, history>>

\* The reference does not rehydrate: FailPending.
PermanentFailure(s) ==
    /\ pc[s] \in {"resolve", "expire"}
    /\ IsWorker(s)
    /\ Unreadable(Payload(s))
    /\ EndTx(s, "lock", WorkerJob("FAIL", job[s].id), 0)
    /\ UNCHANGED <<db, history>>

Step(s) ==
    \/ \E op \in HttpOps : Process(s, op)
    \/ \E d \in Deliveries : Handle(s, d)
    \/ \E id \in TxIds : ResumePending(s, id)
    \/ InboxInsert(s)
    \/ RefuseWallet(s)
    \/ FindForUpdate(s)
    \/ LookupByKey(s)
    \/ LookupByExternal(s)
    \/ ResolveNew(s)
    \/ ResolvePending(s)
    \/ ExpirePending(s)
    \/ InsertNew(s)
    \/ RetryInNewTransaction(s)
    \/ FindPendingForUpdate(s)
    \/ CompletePending(s)
    \/ Commit(s)
    \/ Abort(s)
    \/ TransientFailure(s)
    \/ PermanentFailure(s)

Next ==
    \/ \E w \in Wallets, amount \in OpeningBalances : OpenWallet(w, amount)
    \/ \E s \in Sessions : Step(s)

Spec == Init /\ [][Next]_vars

-----------------------------------------------------------------------------
(* Types.                                                                  *)

Accepted == {o \in Operations : Prepared(o)}
Payloads == {o.payload : o \in Accepted}
              \cup {OpeningRow(w, a).payload : w \in Wallets, a \in OpeningBalances}
Codes    == {None, "REFERENCE_NOT_FOUND", "REFERENCE_NOT_PROCESSED", "REFERENCE_MISMATCH",
             "REFERENCE_KIND_NOT_REVERSIBLE", "REFERENCE_AMOUNT_MISMATCH",
             "REFERENCE_ALREADY_REVERSED", "INSUFFICIENT_FUNDS",
             "REVERSAL_INSUFFICIENT_FUNDS", "PERMANENT_PROCESSING_FAILURE"}
Snapshot == [balance : Nat, version : Nat]
Row == [key : {o.key : o \in Accepted} \cup {None}, payload : Payloads,
        status : Statuses, code : Codes, balance : Nat \cup {None},
        ref : TxIds \cup {None}, attempts : Nat]
Verdicts == [action : {"PROCESS", "REJECT", "WAIT", None}, direction : Directions,
             code : Codes, ref : TxIds \cup {None}]
LedgerEntry == [tx : TxIds, direction : {"DEBIT", "CREDIT"}, amount : Nat,
                before : Nat, after : Nat]
Event == [type : {"PROCESSED", "REJECTED", "PENDING_REFERENCE", "BALANCE_CHANGED"},
          tx : TxIds, version : Nat \cup {None}, balance : Nat \cup {None}]
Jobs == {NoJob} \cup {HttpJob(o) : o \in HttpOps \cap Accepted}
          \cup {SqsJob(d) : d \in {x \in Deliveries : x.op \in Accepted}}
          \cup {WorkerJob(v, id) : v \in {"RESUME", "FAIL", "RETRY"}, id \in TxIds}
Steps == {"idle", "inbox", "lock", "key", "ext", "resolve", "insert", "row",
          "expire", "complete", "commit"}

\* What is submitted: any kind and any integer amount, valid or not, on a
\* wallet identifier that may or may not have been opened.
ASSUME ConstantsAssumption ==
    /\ OpeningBalances \subseteq Nat
    /\ \A o \in Operations : /\ o.payload.wallet \in Wallets
                              /\ o.payload.kind \in Kinds
                              /\ o.payload.amount \in Int
    /\ \A d \in Deliveries : d.msg \in Messages

\* The absent value is no identifier, no record and no code.
ASSUME NoneAssumption ==
    /\ None \notin Wallets \cup TxIds \cup Sessions \cup Messages
    /\ None \notin Snapshot \cup Row
    /\ None \notin {"KIND_NOT_ALLOWED", "INVALID_AMOUNT_FOR_KIND"}
    /\ None \notin {"HTTP", "SQS", "RESUME", "FAIL", "RETRY", "PROCESS"}

\* Nor is it a payload hash or an error of validateReference.
ASSUME AbsenceAssumption ==
    /\ None \notin {o.payload : o \in Operations}
    /\ None \notin {"REFERENCE_MISMATCH", "REFERENCE_KIND_NOT_REVERSIBLE",
                    "REFERENCE_AMOUNT_MISMATCH"}

TablesTypeOK ==
    /\ wallets \in [Wallets -> Snapshot \cup {None}]
    /\ rows \in [TxIds -> Row \cup {None}]
    /\ ledger \in [Wallets -> Seq(LedgerEntry)]
    /\ outbox \in [Wallets -> Seq(Event)]
    /\ inbox \in [Messages -> {o.payload : o \in Accepted} \cup {None}]

SessionsTypeOK ==
    /\ walletLock \in [Wallets -> Sessions \cup {None}]
    /\ pc \in [Sessions -> Steps]
    /\ job \in [Sessions -> Jobs]
    /\ tries \in [Sessions -> 0..1]
    /\ snap \in [Sessions -> Snapshot]
    /\ verdict \in [Sessions -> Verdicts]
    /\ plan \in [Sessions -> [id : TxIds, row : Row] \cup {NoPlan}]

HistoryTypeOK ==
    /\ answers \subseteq [op : HttpOps, id : TxIds, status : Statuses,
                          code : Codes, balance : Nat \cup {None}]
    /\ acked \subseteq [msg : Messages, op : {d.op : d \in Deliveries}]

\* Type invariant: every table row and every session register holds a value
\* its column or Go variable can hold.
TypeOK == TablesTypeOK /\ SessionsTypeOK /\ HistoryTypeOK

-----------------------------------------------------------------------------
(* Safety.                                                                 *)

Opened(w) ==
    IF Len(ledger[w]) > 0 /\ rows[ledger[w][1].tx].payload.kind = "OPENING" THEN 1 ELSE 0

WalletReconciles(w) ==
    LET l == ledger[w]
        n == Len(l)
    IN  /\ wallets[w].balance = IF n = 0 THEN 0 ELSE l[n].after
        /\ wallets[w].version = 1 + n - Opened(w)
        /\ \A i \in 1..n :
              /\ l[i].before = IF i = 1 THEN 0 ELSE l[i-1].after
              /\ l[i].after = IF l[i].direction = "DEBIT"
                              THEN l[i].before - l[i].amount
                              ELSE l[i].before + l[i].amount

\* The wallet equation of ledger_repository.Reconcile, step by step: the
\* entries of a wallet form one chain from zero to the stored balance, each
\* obeys its own balance equation, and every movement after the opening
\* credit bumped the version by exactly one.
LedgerReconciles == \A w \in Wallets : wallets[w] # None => WalletReconciles(w)

\* Exactly-once money: a stored transaction has one ledger entry, in its own
\* wallet and of its own amount, if and only if it is PROCESSED and its kind
\* moves money, however often and over whichever channel it was submitted.
EffectExactlyOnce ==
    \A id \in TxIds :
        LET entries == UNION {{<<w, i>> : i \in {j \in 1..Len(ledger[w]) :
                                                    ledger[w][j].tx = id}} : w \in Wallets}
        IN  IF rows[id] # None /\ rows[id].status = "PROCESSED"
                               /\ rows[id].payload.kind # "LOSS"
            THEN \E i \in 1..Len(ledger[rows[id].payload.wallet]) :
                    /\ entries = {<<rows[id].payload.wallet, i>>}
                    /\ ledger[rows[id].payload.wallet][i].amount = rows[id].payload.amount
            ELSE entries = {}

\* "Uma BET aceita uma unica reversao bem-sucedida": whichever of REFUND and
\* ROLLBACK, new or resumed from pending, over whichever sessions, at most one
\* PROCESSED reversal names (externally) a given transaction of its provider.
OneReversalPerReference ==
    \A i, j \in TxIds :
        (/\ rows[i] # None /\ rows[i].status = "PROCESSED" /\ IsReversal(rows[i].payload.kind)
         /\ rows[j] # None /\ rows[j].status = "PROCESSED" /\ IsReversal(rows[j].payload.kind)
         /\ rows[i].payload.provider = rows[j].payload.provider
         /\ rows[i].payload.ref = rows[j].payload.ref)
        => i = j

\* Every PROCESSED operation with a reference resolved it to a PROCESSED
\* transaction of the same provider, player, wallet, round and currency, of a
\* kind it may name, and a reversal moves exactly the amount it reverses in
\* the direction opposite to the reference's own ledger entry.
ReferencesAreSound ==
    \A id \in TxIds :
        (rows[id] # None /\ rows[id].status = "PROCESSED" /\ rows[id].payload.ref # None)
        => LET p == rows[id].payload
               r == rows[id].ref
               dir(x) == {ledger[p.wallet][i].direction :
                            i \in {j \in 1..Len(ledger[p.wallet]) : ledger[p.wallet][j].tx = x}}
           IN  /\ r # None /\ rows[r] # None
               /\ rows[r].status = "PROCESSED"
               /\ rows[r].payload.ext = p.ref
               /\ \A f \in {"provider", "player", "wallet", "round", "currency"} :
                     rows[r].payload[f] = p[f]
               /\ IsReversal(p.kind) => /\ rows[r].payload.amount = p.amount
                                        /\ rows[r].payload.kind # "ROLLBACK"
                                        /\ dir(id) \cap dir(r) = {}

\* At most one stored row per (provider, idempotency key) and per (provider,
\* external id), for submissions to different wallets too, which share no lock.
OneRowPerOperation ==
    \A i, j \in TxIds :
        (/\ i # j
         /\ rows[i] # None /\ rows[i].payload.kind # "OPENING"
         /\ rows[j] # None /\ rows[j].payload.kind # "OPENING"
         /\ rows[i].payload.provider = rows[j].payload.provider)
        => rows[i].key # rows[j].key /\ rows[i].payload.ext # rows[j].payload.ext

\* processWithRetry: "by then the winning writer has committed, so
\* lookupExisting finds its row".  A session in its second transaction is
\* answered by the lookups: it never comes to a second INSERT.
RetryIsConclusive ==
    \A s \in Sessions : tries[s] = 1 => pc[s] \in {"inbox", "lock", "key", "ext"}

\* What an HTTP caller was told stays true: the transaction it was given is
\* stored under its key and payload, and a terminal status, failure code and
\* balance it was given are the ones every later replay will be given.
AnswersAreDurable ==
    \A a \in answers :
        /\ rows[a.id] # None
        /\ rows[a.id].key = a.op.key
        /\ rows[a.id].payload = a.op.payload
        /\ Terminal(a.status) => /\ rows[a.id].status = a.status
                                 /\ rows[a.id].code = a.code
                                 /\ rows[a.id].balance = a.balance

\* A message is deleted as done only when its inbox row and the operation it
\* carries are both committed, and an inbox row never exists without the
\* operation whose hash it records.
AckedMessagesTookEffect ==
    /\ \A m \in Messages : inbox[m] # None =>
           \E id \in TxIds : rows[id] # None /\ rows[id].payload = inbox[m]
    /\ \A a \in acked : inbox[a.msg] = PayloadHash(a.op.payload)

\* An inbox row is final: no other delivery of the message id, concurrent or
\* later, replaces the hash it was first recorded with.
InboxIsFinal ==
    [][\A m \in Messages : inbox[m] # None => inbox'[m] = inbox[m]]_vars

\* What a session read under the wallet lock is still so when it writes: the
\* version guard of UpdateBalance never fails, and a reversal found possible
\* by ExistsSuccessfulReversal is not overtaken by another.
LockedReadsStayTrue ==
    \A s \in Sessions :
        /\ pc[s] \notin {"idle", "inbox", "lock"} =>
              walletLock[WalletOf(s)] = s /\ snap[s] = wallets[WalletOf(s)]
        /\ (pc[s] \in {"insert", "complete", "commit"} /\ verdict[s].action = "PROCESS"
            /\ IsReversal(Payload(s).kind)) => ~ExistsSuccessfulReversal(verdict[s].ref)

\* The WalletBalanceChanged events of a wallet are its ledger in order: each
\* names the entry its version belongs to, every entry has one, and versions
\* grow along the outbox.
ChangesMirrorLedger(w) ==
    LET events   == outbox[w]
        changes  == {k \in 1..Len(events) : events[k].type = "BALANCE_CHANGED"}
        entry(k) == Len(ledger[w]) - (wallets[w].version - events[k].version)
    IN  /\ \A k \in changes : /\ entry(k) \in 1..Len(ledger[w])
                              /\ events[k].tx = ledger[w][entry(k)].tx
                              /\ events[k].balance = ledger[w][entry(k)].after
        /\ \A i \in 1..Len(ledger[w]) : \E k \in changes : entry(k) = i
        /\ \A k, l \in changes : k < l => events[k].version < events[l].version

\* The outbox tells the truth: a wallet's WalletBalanceChanged events are its
\* ledger in order with consecutive versions, and every stored transaction has
\* exactly the one terminal event of its status (none for FAILED).
OutboxMirrorsState ==
    \A w \in Wallets :
        /\ ChangesMirrorLedger(w)
        /\ \A id \in TxIds : rows[id] # None /\ rows[id].payload.wallet = w =>
              \A st \in {"PROCESSED", "REJECTED"} :
                 Cardinality({i \in 1..Len(outbox[w]) :
                                 outbox[w][i].tx = id /\ outbox[w][i].type = st})
                     = IF rows[id].status = st THEN 1 ELSE 0

\* No step rewrites the past: a terminal row, the identity of any row, a
\* ledger entry and an outbox event are never changed or removed.
HistoryIsImmutable ==
    [][/\ \A id \in TxIds : rows[id] # None =>
             /\ rows'[id] # None
             /\ rows'[id].key = rows[id].key
             /\ rows'[id].payload = rows[id].payload
             /\ Terminal(rows[id].status) => rows'[id] = rows[id]
       /\ \A w \in Wallets :
             /\ SubSeq(ledger'[w], 1, Len(ledger[w])) = ledger[w]
             /\ SubSeq(outbox'[w], 1, Len(outbox[w])) = outbox[w]]_vars

-----------------------------------------------------------------------------
(* Lock waits and expiry.                                                  *)

\* Session s cannot take its next step before session t ends its transaction.
WaitsFor(s, t) ==
    /\ s # t
    /\ \/ pc[s] = "inbox" /\ HoldsInbox(t, job[s].msg)
       \/ pc[s] = "lock" /\ walletLock[WalletOf(s)] = t
       \/ pc[s] = "row" /\ (HoldsRow(t, job[s].id) \/ HoldsKeyShare(t, job[s].id))
       \/ pc[s] \in {"insert", "complete"} /\ verdict[s].ref # None
             /\ HoldsRow(t, verdict[s].ref)
       \/ pc[s] = "insert" /\ pc[t] = "commit" /\ UniqueConflict(NewRow(s), plan[t].row)

\* No set of sessions waits only for itself: locks are taken in an order that
\* never needs the deadlock detector.
NoWaitCycle ==
    \A S \in SUBSET Sessions : S # {} =>
        \E s \in S : \A t \in S : ~WaitsFor(s, t)

\* The code a pending operation expires with is the one ExpirePendingReference
\* gives for the reference as it is when the code is chosen.  It holds for a
\* reference of the same wallet, whose lock keeps it as resolveDecision saw it,
\* and not for one of another wallet, which is rejected with either code.
ExpiryCodeIsTruthful ==
    [][\A s \in Sessions :
          (/\ pc[s] = "expire" /\ pc'[s] = "complete"
           /\ verdict'[s].code = "REFERENCE_NOT_PROCESSED")
          => rows[verdict'[s].ref].status # "PROCESSED"]_vars
=============================================================================
