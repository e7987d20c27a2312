----------------------- MODULE ProcessOperationProofs ----------------------
(***************************************************************************)
(* Proofs about ProcessOperation, for any number of wallets, sessions,     *)
(* operations, messages and transactions: its tables and registers keep    *)
(* their types, and every wallet reconciles with its ledger.               *)
(*                                                                         *)
(* The argument is one inductive invariant, IndInv.  A movement writes     *)
(* the balance and the version a session read when it locked the wallet,   *)
(* so the ledger chain grows correctly only because that snapshot is       *)
(* still the wallet when the session commits (HoldsWallet), because the    *)
(* uncommitted row carries the balance computed from it (PlanFits), and    *)
(* because no two sessions are about to store the same row.                *)
(***************************************************************************)
EXTENDS ProcessOperation, SequenceTheorems, TLAPS

(* What the rules return.                                                  *)

\* An operation that Prepare lets through (validateRequest) is of an external
\* kind and has a natural amount.
LEMMA PreparedIsWellFormed ==
    ASSUME NEW op \in Accepted
    PROVE  /\ op.payload.wallet \in Wallets
           /\ op.payload.kind \in ExternalKinds
           /\ op.payload.amount \in Nat
<1>1. /\ op \in Operations
      /\ op.payload.kind \in Kinds
      /\ op.payload.amount \in Int
      /\ op.payload.wallet \in Wallets
  BY ConstantsAssumption DEF Accepted
<1>2. ValidateRequest(op.payload) = None
  BY DEF Accepted, Prepared, Evaluate, Invalid, Decision
<1>3. op.payload.kind # "OPENING"
  BY <1>2, NoneAssumption DEF ValidateRequest
<1>4. op.payload.amount \in Nat
  BY <1>1, <1>2, <1>3, NoneAssumption
     DEF ValidateRequest, KindRules, KindRule, Kinds, ExternalKinds
<1>. QED BY <1>1, <1>3, <1>4 DEF Kinds

\* movementDecision always processes, in one of the three directions.
LEMMA MovementDecisionType ==
    ASSUME NEW kind \in ExternalKinds, NEW reference
    PROVE  LET d == MovementDecision(kind, reference) IN
           d.action = "PROCESS" /\ d.direction \in Directions /\ d.code = None
  BY DEF MovementDecision, Decision, Directions, KindRules, KindRule, ExternalKinds

\* Evaluate never answers with a code or a direction a row cannot store.
LEMMA EvaluateType ==
    ASSUME NEW p, NEW reference, NEW alreadyReversed,
           p.kind \in Kinds,
           Evaluate(p, reference, alreadyReversed).action # "INVALID"
    PROVE  LET d == Evaluate(p, reference, alreadyReversed) IN
           /\ d.action \in {"PROCESS", "REJECT", "WAIT"}
           /\ d.direction \in Directions
           /\ d.code \in Codes
<1>. DEFINE d == Evaluate(p, reference, alreadyReversed)
<1>1. p.kind \in ExternalKinds
  <2>1. ValidateRequest(p) = None
    BY DEF Evaluate, Invalid, Decision
  <2>. QED BY <2>1, NoneAssumption DEF ValidateRequest, Kinds
<1>2. \/ d = MovementDecision(p.kind, None)
      \/ d = MovementDecision(p.kind, reference)
      \/ d = WaitForReference
      \/ d = Rejection("REFERENCE_NOT_PROCESSED")
      \/ d = Rejection(ValidateReference(p, reference))
            /\ ValidateReference(p, reference) # None
      \/ d = Rejection("REFERENCE_ALREADY_REVERSED")
  BY DEF Evaluate, Invalid, Decision
<1>3. ValidateReference(p, reference) \in Codes
  BY DEF ValidateReference, Codes
<1>. QED
  BY <1>1, <1>2, <1>3, MovementDecisionType
     DEF WaitForReference, Rejection, Decision, Directions, Codes

\* What Prepare accepted is not refused later, whatever the reference turns
\* out to be.
LEMMA AcceptedStaysAccepted ==
    ASSUME NEW p \in {o.payload : o \in Accepted}, NEW reference, NEW alreadyReversed
    PROVE  Evaluate(p, reference, alreadyReversed).action # "INVALID"
<1>1. Evaluate(p, None, FALSE).action # "INVALID" /\ p.kind \in ExternalKinds
  BY PreparedIsWellFormed DEF Accepted, Prepared
<1>2. /\ ValidateRequest(p) = None
      /\ p.ref = None => KindRules[p.kind].reference # "required"
      /\ p.ref # None => KindRules[p.kind].reference # "forbidden"
  BY <1>1 DEF Evaluate, Invalid, Decision
<1>3. \A r : MovementDecision(p.kind, r).action # "INVALID"
  BY DEF MovementDecision, Decision
<1>. QED BY <1>2, <1>3 DEF Evaluate, Rejection, WaitForReference, Decision

\* resolveDecision returns a storable decision for every accepted payload.
LEMMA ResolvedVerdictType ==
    ASSUME TablesTypeOK, NEW p \in {o.payload : o \in Accepted}
    PROVE  ResolvedVerdict(p) \in Verdicts
<1>1. CASE References(p) = {}
  BY <1>1 DEF ResolvedVerdict, Verdict, WaitForReference, Decision, Verdicts,
              Directions, Codes
<1>2. CASE References(p) # {}
  <2>. DEFINE ref == CHOOSE id \in References(p) : TRUE
              d   == Evaluate(p, rows[ref], ExistsSuccessfulReversal(ref))
  <2>1. ref \in TxIds
    BY <1>2 DEF References, FindByExternalTransactionID
  <2>2. d.action # "INVALID" /\ p.kind \in Kinds
    BY AcceptedStaysAccepted, PreparedIsWellFormed DEF ExternalKinds, Kinds
  <2>3. /\ d.action \in {"PROCESS", "REJECT", "WAIT"}
        /\ d.direction \in Directions
        /\ d.code \in Codes
    BY <2>2, EvaluateType
  <2>4. ResolvedVerdict(p) = Verdict(d, IF d.action = "WAIT" THEN None ELSE ref)
    BY <1>2 DEF ResolvedVerdict
  <2>. HIDE DEF d, ref
  <2>. QED BY <2>1, <2>3, <2>4 DEF Verdict, Verdicts
<1>. QED BY <1>1, <1>2

\* Debit and Credit never leave a negative balance.
LEMMA AfterIsNatural ==
    ASSUME NEW v, NEW b \in Nat, NEW a \in Nat
    PROVE  After(v, b, a) \in Nat
  BY DEF After, Moves, Insufficient

\* Settling a row with any decision and balance gives a row again.
LEMMA SettleType ==
    ASSUME NEW row \in Row, NEW v \in Verdicts, NEW b \in Nat,
           row.payload.amount \in Nat
    PROVE  Settle(row, v, b) \in Row
<1>. DEFINE p == row.payload
            short == Insufficient(v, b, p.amount)
            st == IF v.action = "REJECT" \/ short THEN "REJECTED" ELSE "PROCESSED"
            c  == IF short THEN InsufficientFundsFor(p.kind) ELSE v.code
            a  == After(v, b, p.amount)
<1>1. st \in Statuses
  BY DEF Statuses
<1>2. c \in Codes
  BY DEF Codes, InsufficientFundsFor, Verdicts
<1>3. a \in Nat \cup {None}
  BY AfterIsNatural
<1>4. v.ref \in TxIds \cup {None}
  BY DEF Verdicts
<1>5. Settle(row, v, b) = [row EXCEPT !.status = st, !.code = c, !.balance = a, !.ref = v.ref]
  BY DEF Settle
<1>. HIDE DEF st, c, a
<1>. QED BY <1>1, <1>2, <1>3, <1>4, <1>5 DEF Row

\* A settled row that moves money has the balance of the movement.
LEMMA SettleMoves ==
    ASSUME NEW row \in Row, NEW v \in Verdicts, NEW b \in Nat,
           row.payload.amount \in Nat,
           Moves(v), Settle(row, v, b).status = "PROCESSED"
    PROVE  /\ Settle(row, v, b).balance \in Nat
           /\ Settle(row, v, b).balance = IF v.direction = "DEBIT"
                                          THEN b - row.payload.amount
                                          ELSE b + row.payload.amount
<1>. DEFINE a == row.payload.amount
            short == Insufficient(v, b, a)
<1>1. /\ Settle(row, v, b).status = IF v.action = "REJECT" \/ short THEN "REJECTED"
                                                                   ELSE "PROCESSED"
      /\ Settle(row, v, b).balance = After(v, b, a)
  BY DEF Settle, Row
<1>2. ~short
  BY <1>1
<1>. QED BY <1>1, <1>2, AfterIsNatural DEF After

-----------------------------------------------------------------------------
(* The inductive invariant.                                                *)

AcceptedPayloads == {o.payload : o \in Accepted}

InTransaction(s) == pc[s] \notin {"idle", "inbox", "lock"}

\* What FindForUpdate read is the wallet as it is, and its lock is held.
HoldsWallet(s) ==
    /\ wallets[WalletOf(s)] # None
    /\ walletLock[WalletOf(s)] = s
    /\ snap[s] = wallets[WalletOf(s)]

\* The job fits the statement: only the queue has an inbox row to insert, only
\* a request is looked up and inserted, only the worker locks a pending row,
\* and that row was stored from an accepted request.
JobFits(s) ==
    /\ pc[s] # "idle" => job[s] # NoJob
    /\ pc[s] = "inbox" => job[s].via = "SQS"
    /\ pc[s] \in {"key", "ext", "insert"} => ~IsWorker(s)
    /\ pc[s] \in {"row", "expire", "complete"} => IsWorker(s)
    /\ IsWorker(s) => /\ rows[job[s].id] # None
                      /\ rows[job[s].id].payload \in AcceptedPayloads

\* The uncommitted row is the operation's own, it is new or the worker's row,
\* and its balance is the movement applied to the snapshot.
PlanFits(s) ==
    /\ plan[s] \in [id : TxIds, row : Row]
    /\ plan[s].row.payload = Payload(s)
    /\ IF IsWorker(s) THEN plan[s].id = job[s].id ELSE rows[plan[s].id] = None
    /\ PlanMoves(s) =>
          LET a == Payload(s).amount IN
          /\ plan[s].row.balance \in Nat
          /\ plan[s].row.balance = IF verdict[s].direction = "DEBIT"
                                   THEN snap[s].balance - a ELSE snap[s].balance + a

SessionFits(s) ==
    /\ JobFits(s)
    /\ InTransaction(s) => HoldsWallet(s)
    /\ pc[s] = "commit" => PlanFits(s)

\* A new row's identifier is nobody else's.
PlansDistinct ==
    \A s, t \in Sessions :
        (s # t /\ pc[s] = "commit" /\ ~IsWorker(s)) => plan[t].id # plan[s].id

\* Only an accepted request is ever stored to wait for its reference.
PendingAreRequests ==
    \A id \in TxIds :
        (rows[id] # None /\ rows[id].status = "PENDING_REFERENCE") =>
            rows[id].payload \in AcceptedPayloads

\* An unopened wallet has no ledger, and ledger entries belong to stored rows.
LedgerRowsStored ==
    \A w \in Wallets :
        /\ wallets[w] = None => ledger[w] = <<>>
        /\ \A i \in 1..Len(ledger[w]) : rows[ledger[w][i].tx] # None

IndInv ==
    /\ TypeOK
    /\ \A s \in Sessions : SessionFits(s)
    /\ PlansDistinct
    /\ PendingAreRequests
    /\ LedgerRowsStored
    /\ LedgerReconciles

-----------------------------------------------------------------------------
(* What a session's job tells of its payload.                              *)

\* A busy session runs an accepted HTTP request, an accepted delivery or a
\* claimed row.
LEMMA JobCases ==
    ASSUME NEW j \in Jobs, j # NoJob
    PROVE  \/ j.via = "HTTP" /\ j.op \in HttpOps /\ j.op \in Accepted
           \/ /\ j.via = "SQS" /\ j.op \in Accepted
              /\ j.msg \in Messages /\ j.op \in {d.op : d \in Deliveries}
           \/ j.via \in {"RESUME", "FAIL", "RETRY"} /\ j.id \in TxIds
<1>1. CASE \E o \in HttpOps \cap Accepted : j = HttpJob(o)
  BY <1>1 DEF HttpJob, NoJob
<1>2. CASE \E d \in Deliveries : d.op \in Accepted /\ j = SqsJob(d)
  <2>1. PICK d \in Deliveries : d.op \in Accepted /\ j = SqsJob(d)
    BY <1>2
  <2>2. j.via = "SQS" /\ j.op = d.op /\ j.msg = d.msg
    BY <2>1 DEF SqsJob, NoJob
  <2>3. d.msg \in Messages
    BY ConstantsAssumption
  <2>. QED BY <2>1, <2>2, <2>3
<1>3. CASE \E v \in {"RESUME", "FAIL", "RETRY"}, id \in TxIds : j = WorkerJob(v, id)
  BY <1>3 DEF WorkerJob, NoJob
<1>. QED BY <1>1, <1>2, <1>3 DEF Jobs

\* The jobs that Process, Handle and the worker create are jobs, told apart
\* from an idle session's by their channel.
LEMMA JobTypes ==
    /\ \A o \in HttpOps : o \in Accepted =>
          HttpJob(o) \in Jobs /\ HttpJob(o).via = "HTTP" /\ HttpJob(o) # NoJob
    /\ \A d \in Deliveries : d.op \in Accepted =>
          SqsJob(d) \in Jobs /\ SqsJob(d).via = "SQS" /\ SqsJob(d) # NoJob
    /\ \A v \in {"RESUME", "FAIL", "RETRY"}, id \in TxIds :
          /\ WorkerJob(v, id) \in Jobs
          /\ WorkerJob(v, id).via = v /\ WorkerJob(v, id).id = id
          /\ WorkerJob(v, id) # NoJob
<1>1. \A o : HttpJob(o).via = "HTTP"
  BY DEF HttpJob, NoJob
<1>2. \A d : SqsJob(d).via = "SQS"
  BY DEF SqsJob, NoJob
<1>3. \A v, id : WorkerJob(v, id).via = v /\ WorkerJob(v, id).id = id
  BY DEF WorkerJob, NoJob
<1>4. NoJob.via \notin {"HTTP", "SQS", "RESUME", "FAIL", "RETRY"}
  BY NoneAssumption DEF NoJob
<1>5. /\ \A o \in HttpOps : o \in Accepted => HttpJob(o) \in Jobs
      /\ \A d \in Deliveries : d.op \in Accepted => SqsJob(d) \in Jobs
      /\ \A v \in {"RESUME", "FAIL", "RETRY"}, id \in TxIds : WorkerJob(v, id) \in Jobs
  BY DEF Jobs
<1>. QED BY <1>1, <1>2, <1>3, <1>4, <1>5

\* Whatever a busy session runs, its payload is one that Prepare accepted.
LEMMA PayloadAccepted ==
    ASSUME TypeOK, NEW s \in Sessions, JobFits(s), job[s] # NoJob
    PROVE  /\ Payload(s) \in AcceptedPayloads
           /\ WalletOf(s) \in Wallets
           /\ Payload(s).kind \in ExternalKinds
           /\ Payload(s).amount \in Nat
<1>1. job[s] \in Jobs
  BY DEF TypeOK, SessionsTypeOK
<1>2. Payload(s) \in AcceptedPayloads
  BY <1>1, JobCases DEF JobFits, IsWorker, Payload, AcceptedPayloads
<1>. QED BY <1>2, PreparedIsWellFormed DEF AcceptedPayloads, WalletOf

\* A session is left as it was by a step that keeps its registers, the rows'
\* payloads, its wallet and its lock, and that stores no row of its new id.
LEMMA Frame ==
    ASSUME TypeOK, NEW t \in Sessions, SessionFits(t),
           pc'[t] = pc[t], job'[t] = job[t], snap'[t] = snap[t],
           verdict'[t] = verdict[t], plan'[t] = plan[t],
           \A id \in TxIds : rows[id] # None =>
               rows'[id] # None /\ rows'[id].payload = rows[id].payload,
           InTransaction(t) => /\ wallets'[WalletOf(t)] = wallets[WalletOf(t)]
                               /\ walletLock'[WalletOf(t)] = walletLock[WalletOf(t)],
           (pc[t] = "commit" /\ ~IsWorker(t)) =>
               rows'[plan[t].id] = rows[plan[t].id]
    PROVE  SessionFits(t)'
<1>1. IsWorker(t)' <=> IsWorker(t)
  BY DEF IsWorker
<1>2. ASSUME IsWorker(t)
      PROVE  job[t].id \in TxIds
  BY <1>2, JobCases, NoneAssumption DEF TypeOK, SessionsTypeOK, IsWorker, NoJob
<1>3. Payload(t)' = Payload(t)
  BY <1>1, <1>2 DEF SessionFits, JobFits, Payload, IsWorker
<1>4. WalletOf(t)' = WalletOf(t)
  BY <1>3 DEF WalletOf
<1>5. JobFits(t)'
  BY <1>1, <1>2 DEF SessionFits, JobFits, AcceptedPayloads
<1>6. (InTransaction(t) => HoldsWallet(t))'
  BY <1>4 DEF SessionFits, InTransaction, HoldsWallet
<1>7. (pc[t] = "commit" => PlanFits(t))'
  BY <1>1, <1>3 DEF SessionFits, PlanFits, PlanMoves
<1>. QED BY <1>5, <1>6, <1>7 DEF SessionFits

-----------------------------------------------------------------------------
(* Steps that write no table the invariant reads.                          *)

\* Only session s moves, and no other session loses its lock.
OnlySession(s) ==
    /\ \A t \in Sessions \ {s} :
          /\ pc'[t] = pc[t] /\ job'[t] = job[t] /\ snap'[t] = snap[t]
          /\ verdict'[t] = verdict[t] /\ plan'[t] = plan[t]
    /\ \A w \in Wallets :
          walletLock[w] \in Sessions \ {s} => walletLock'[w] = walletLock[w]

\* A step that changes nothing but one session's registers and locks, and
\* plans nothing, keeps the invariant if that session still fits.
LEMMA SessionStep ==
    ASSUME IndInv, NEW s \in Sessions, TypeOK',
           UNCHANGED <<wallets, rows, ledger>>, OnlySession(s), SessionFits(s)',
           pc'[s] # "commit", plan'[s] \in {plan[s], NoPlan}
    PROVE  IndInv'
<1>1. ASSUME NEW t \in Sessions \ {s}
      PROVE  SessionFits(t)'
  <2>1. SessionFits(t)
    BY DEF IndInv
  <2>2. InTransaction(t) => /\ WalletOf(t) \in Wallets
                            /\ walletLock'[WalletOf(t)] = walletLock[WalletOf(t)]
    BY <2>1, PayloadAccepted
       DEF SessionFits, InTransaction, JobFits, HoldsWallet, OnlySession, IndInv
  <2>. QED BY <2>1, <2>2, Frame DEF IndInv, OnlySession
<1>2. PlansDistinct'
  BY NoneAssumption DEF IndInv, PlansDistinct, OnlySession, IsWorker, NoPlan, SessionFits, PlanFits
<1>3. LedgerRowsStored'
  BY DEF IndInv, LedgerRowsStored
<1>4. LedgerReconciles'
  BY DEF IndInv, LedgerReconciles, WalletReconciles, Opened
<1>5. PendingAreRequests'
  BY DEF IndInv, PendingAreRequests, AcceptedPayloads
<1>. QED BY <1>1, <1>2, <1>3, <1>4, <1>5 DEF IndInv

\* Ending a transaction leaves well-typed registers.
LEMMA EndTxTypes ==
    ASSUME SessionsTypeOK, NEW s \in Sessions, NEW next \in Steps, NEW j \in Jobs,
           NEW n \in 0..1, EndTx(s, next, j, n)
    PROVE  SessionsTypeOK'
  BY DEF EndTx, SessionsTypeOK, NoSnap, NoVerdict, NoPlan, Snapshot, Verdicts,
         Directions, Codes

\* The end of a transaction that changed no wallet, row or ledger.
LEMMA EndTxStep ==
    ASSUME IndInv, NEW s \in Sessions, NEW next, NEW j, NEW n,
           EndTx(s, next, j, n), UNCHANGED <<wallets, rows, ledger>>,
           next \in {"idle", "inbox", "lock"}, j \in Jobs, n \in 0..1,
           next # "idle" => j # NoJob,
           next = "inbox" => j.via = "SQS",
           j.via \in {"RESUME", "FAIL", "RETRY"} => j.id = job[s].id /\ IsWorker(s),
           TablesTypeOK', HistoryTypeOK'
    PROVE  IndInv'
<1>1. SessionsTypeOK'
  BY EndTxTypes DEF IndInv, TypeOK, Steps
<1>2. OnlySession(s)
  BY DEF EndTx, OnlySession, IndInv, TypeOK, SessionsTypeOK
<1>3. /\ pc'[s] = next
      /\ job'[s] = j
      /\ plan'[s] = NoPlan
  BY DEF EndTx, IndInv, TypeOK, SessionsTypeOK
<1>4. JobFits(s)'
  BY <1>3 DEF JobFits, IsWorker, IndInv, SessionFits, AcceptedPayloads
<1>5. SessionFits(s)'
  BY <1>3, <1>4 DEF SessionFits, InTransaction
<1>. QED BY <1>1, <1>2, <1>3, <1>5, SessionStep DEF TypeOK

-----------------------------------------------------------------------------
(* One lemma per action or group of actions of Step.                       *)

\* Taking a job up keeps the invariant: nothing is locked or planned yet.
LEMMA BeginStep ==
    ASSUME IndInv, NEW s \in Sessions, NEW j, NEW first,
           Begin(s, j, first), first \in {"inbox", "lock"},
           j \in Jobs, j # NoJob, first = "inbox" => j.via = "SQS",
           j.via \in {"RESUME", "FAIL", "RETRY"} =>
               rows[j.id] # None /\ rows[j.id].payload \in AcceptedPayloads
    PROVE  IndInv'
<1>1. TypeOK'
  BY DEF Begin, db, history, IndInv, TypeOK, TablesTypeOK, SessionsTypeOK,
         HistoryTypeOK, Steps
<1>2. OnlySession(s)
  BY DEF Begin, OnlySession, IndInv, TypeOK, SessionsTypeOK
<1>3. /\ pc'[s] = first
      /\ job'[s] = j
      /\ plan'[s] = plan[s]
  BY DEF Begin, IndInv, TypeOK, SessionsTypeOK
<1>4. UNCHANGED <<wallets, rows, ledger>>
  BY DEF Begin, db
<1>5. JobFits(s)'
  BY <1>3, <1>4 DEF JobFits, IsWorker, AcceptedPayloads
<1>6. SessionFits(s)'
  BY <1>3, <1>5 DEF SessionFits, InTransaction
<1>. QED BY <1>1, <1>2, <1>3, <1>4, <1>6, SessionStep

\* Process, Handle and ResumePending keep the invariant.
LEMMA SubmissionStep ==
    ASSUME IndInv, NEW s \in Sessions,
           \/ \E op \in HttpOps : Process(s, op)
           \/ \E d \in Deliveries : Handle(s, d)
           \/ \E id \in TxIds : ResumePending(s, id)
    PROVE  IndInv'
<1>1. CASE \E op \in HttpOps : Process(s, op)
  <2>1. PICK op \in HttpOps : Process(s, op)
    BY <1>1
  <2>2. Begin(s, HttpJob(op), "lock") /\ op \in Accepted
    BY <2>1 DEF Process, Accepted, Operations
  <2>. QED BY <2>2, JobTypes, BeginStep
<1>2. CASE \E d \in Deliveries : Handle(s, d)
  <2>1. PICK d \in Deliveries : Handle(s, d)
    BY <1>2
  <2>2. Begin(s, SqsJob(d), "inbox") /\ d.op \in Accepted
    BY <2>1 DEF Handle, Accepted, Operations
  <2>. QED BY <2>2, JobTypes, BeginStep
<1>3. CASE \E id \in TxIds : ResumePending(s, id)
  <2>1. PICK id \in TxIds : ResumePending(s, id)
    BY <1>3
  <2>2. /\ Begin(s, WorkerJob("RESUME", id), "lock")
        /\ rows[id] # None
        /\ rows[id].payload \in AcceptedPayloads
    BY <2>1 DEF ResumePending, IndInv, PendingAreRequests
  <2>. QED BY <2>2, JobTypes, BeginStep
<1>. QED BY <1>1, <1>2, <1>3

\* Ending a session's transaction without an effect keeps the invariant.
LEMMA FinishStep ==
    ASSUME IndInv, NEW s \in Sessions, Finish(s),
           UNCHANGED <<wallets, rows, ledger>>, TablesTypeOK', HistoryTypeOK'
    PROVE  IndInv'
<1>1. NoJob \in Jobs /\ NoJob.via \notin {"RESUME", "FAIL", "RETRY"}
  BY NoneAssumption DEF Jobs, NoJob
<1>. QED BY <1>1, EndTxStep DEF Finish

\* A statement of an open transaction that writes nothing.
LEMMA GotoStep ==
    ASSUME IndInv, NEW s \in Sessions, NEW next, Goto(s, next), InTransaction(s),
           next \in {"ext", "insert", "resolve", "expire", "complete"},
           next \in {"ext", "insert"} => ~IsWorker(s),
           next \in {"expire", "complete"} => IsWorker(s),
           UNCHANGED <<snap, plan>>, verdict' \in [Sessions -> Verdicts],
           \A t \in Sessions \ {s} : verdict'[t] = verdict[t]
    PROVE  IndInv'
<1>1. TypeOK'
  BY DEF Goto, db, history, IndInv, TypeOK, TablesTypeOK, SessionsTypeOK,
         HistoryTypeOK, Steps
<1>2. OnlySession(s)
  BY DEF Goto, OnlySession, IndInv, TypeOK, SessionsTypeOK
<1>3. pc'[s] = next
  BY DEF Goto, IndInv, TypeOK, SessionsTypeOK
<1>4. UNCHANGED <<wallets, rows, ledger, walletLock, job>>
  BY DEF Goto, db
<1>5. JobFits(s) /\ HoldsWallet(s)
  BY DEF IndInv, SessionFits
<1>6. JobFits(s)'
  BY <1>3, <1>4, <1>5 DEF JobFits, IsWorker, AcceptedPayloads, InTransaction
<1>7. HoldsWallet(s)'
  BY <1>4, <1>5 DEF HoldsWallet, WalletOf, Payload, IsWorker
<1>8. SessionFits(s)'
  BY <1>3, <1>6, <1>7 DEF SessionFits
<1>. QED BY <1>1, <1>2, <1>3, <1>4, <1>8, SessionStep

\* A statement that leaves the transaction with row to commit under id.
LEMMA PlanStep ==
    ASSUME IndInv, NEW s \in Sessions, NEW id \in TxIds, NEW row \in Row,
           Plan(s, id, row), InTransaction(s),
           UNCHANGED snap, verdict' \in [Sessions -> Verdicts],
           \A t \in Sessions \ {s} : verdict'[t] = verdict[t],
           row.payload = Payload(s),
           IF IsWorker(s) THEN id = job[s].id ELSE Fresh(id),
           (Moves(verdict'[s]) /\ row.status = "PROCESSED") =>
               /\ row.balance \in Nat
               /\ row.balance = IF verdict'[s].direction = "DEBIT"
                                THEN snap[s].balance - row.payload.amount
                                ELSE snap[s].balance + row.payload.amount
    PROVE  IndInv'
<1>. DEFINE planned == [id |-> id, row |-> row]
<1>1. /\ pc' = [pc EXCEPT ![s] = "commit"]
      /\ plan' = [plan EXCEPT ![s] = planned]
      /\ UNCHANGED <<db, walletLock, job, tries, history>>
  BY DEF Plan, Goto
<1>2. planned \in [id : TxIds, row : Row]
  OBVIOUS
<1>. HIDE DEF planned
<1>3. TypeOK'
  BY <1>1, <1>2 DEF db, history, IndInv, TypeOK, TablesTypeOK, SessionsTypeOK,
         HistoryTypeOK, Steps
<1>4. /\ pc'[s] = "commit" /\ plan'[s] = planned
      /\ \A t \in Sessions \ {s} : pc'[t] = pc[t] /\ plan'[t] = plan[t]
      /\ UNCHANGED <<wallets, rows, ledger, walletLock, job>>
  BY <1>1 DEF db, IndInv, TypeOK, SessionsTypeOK
<1>5. planned.id = id /\ planned.row = row
  BY DEF planned
<1>6. \A t \in Sessions : IsWorker(t)' = IsWorker(t) /\ Payload(t)' = Payload(t)
  BY <1>4 DEF IsWorker, Payload
<1>7. SessionFits(s)'
  <2>1. JobFits(s) /\ HoldsWallet(s)
    BY DEF IndInv, SessionFits
  <2>2. JobFits(s)'
    BY <1>4, <2>1 DEF JobFits, IsWorker, AcceptedPayloads, InTransaction
  <2>3. HoldsWallet(s)'
    BY <1>4, <1>6, <2>1 DEF HoldsWallet, WalletOf
  <2>4. PlanMoves(s)' <=> Moves(verdict'[s]) /\ row.status = "PROCESSED"
    BY <1>4, <1>5 DEF PlanMoves, Moves
  <2>5. PlanFits(s)'
    BY <1>2, <1>4, <1>5, <1>6, <2>4 DEF PlanFits, Fresh
  <2>. QED BY <2>2, <2>3, <2>5 DEF SessionFits
<1>8. ASSUME NEW t \in Sessions \ {s}
      PROVE  SessionFits(t)'
  <2>1. SessionFits(t)
    BY DEF IndInv
  <2>. QED BY <1>4, <2>1, Frame DEF IndInv, OnlySession
<1>9. PlansDistinct'
  <2>. SUFFICES ASSUME NEW t \in Sessions, NEW u \in Sessions, t # u,
                       pc'[t] = "commit", ~IsWorker(t)'
                PROVE  plan'[u].id # plan'[t].id
    BY DEF PlansDistinct
  <2>1. CASE t = s
    BY <1>4, <1>5, <1>6, <2>1 DEF Fresh
  <2>2. CASE u = s
    <3>1. pc[t] = "commit" /\ ~IsWorker(t) /\ plan'[t] = plan[t]
      BY <1>4, <1>6, <2>2
    <3>2. rows[plan[t].id] = None
      BY <3>1 DEF IndInv, SessionFits, PlanFits
    <3>3. IsWorker(s) => rows[id] # None
      BY DEF IndInv, SessionFits, JobFits
    <3>. QED BY <1>4, <1>5, <2>2, <3>1, <3>2, <3>3 DEF Fresh
  <2>3. CASE t # s /\ u # s
    BY <1>4, <1>6, <2>3 DEF IndInv, PlansDistinct
  <2>. QED BY <2>1, <2>2, <2>3
<1>10. PendingAreRequests' /\ LedgerRowsStored' /\ LedgerReconciles'
  BY <1>4 DEF IndInv, PendingAreRequests, LedgerRowsStored, LedgerReconciles,
                   WalletReconciles, Opened, AcceptedPayloads
<1>. QED BY <1>3, <1>7, <1>8, <1>9, <1>10 DEF IndInv

\* Transactions that end without an effect.
LEMMA RollbackStep ==
    ASSUME IndInv, NEW s \in Sessions,
           \/ RefuseWallet(s) \/ Abort(s) \/ TransientFailure(s)
           \/ PermanentFailure(s) \/ RetryInNewTransaction(s)
    PROVE  IndInv'
<1>1. CASE Finish(s) /\ UNCHANGED <<db, history>>
  <2>1. TablesTypeOK' /\ HistoryTypeOK'
    BY <1>1 DEF db, history, IndInv, TypeOK, TablesTypeOK, HistoryTypeOK
  <2>. QED BY <1>1, <2>1, FinishStep DEF db
<1>2. ASSUME NEW v \in {"FAIL", "RETRY"}, IsWorker(s), UNCHANGED <<db, history>>,
             EndTx(s, "lock", WorkerJob(v, job[s].id), 0)
      PROVE  IndInv'
  <2>1. TablesTypeOK' /\ HistoryTypeOK'
    BY <1>2 DEF db, history, IndInv, TypeOK, TablesTypeOK, HistoryTypeOK
  <2>2. job[s].id \in TxIds
    BY <1>2, JobCases, NoneAssumption DEF IndInv, TypeOK, SessionsTypeOK, IsWorker, NoJob
  <2>. QED BY <1>2, <2>1, <2>2, JobTypes, EndTxStep DEF db
<1>3. CASE TransientFailure(s)
  BY <1>2, <1>3 DEF TransientFailure, IsWorker
<1>4. CASE PermanentFailure(s)
  BY <1>2, <1>4 DEF PermanentFailure
<1>5. CASE RetryInNewTransaction(s) /\ tries[s] = 0
  <2>1. TablesTypeOK' /\ HistoryTypeOK'
    BY <1>5 DEF RetryInNewTransaction, db, history, IndInv, TypeOK, TablesTypeOK,
                HistoryTypeOK
  <2>2. /\ UNCHANGED <<wallets, rows, ledger>>
        /\ job[s] # NoJob /\ job[s] \in Jobs
    BY <1>5 DEF RetryInNewTransaction, db, IndInv, SessionFits, JobFits, TypeOK,
                SessionsTypeOK
  <2>3. CASE job[s].via = "SQS"
    <3>1. EndTx(s, "inbox", job[s], 1)
      BY <1>5, <2>3 DEF RetryInNewTransaction
    <3>. QED BY <2>1, <2>2, <2>3, <3>1, EndTxStep
  <2>4. CASE job[s].via # "SQS"
    <3>1. EndTx(s, "lock", job[s], 1)
      BY <1>5, <2>4 DEF RetryInNewTransaction
    <3>. QED BY <2>1, <2>2, <3>1, EndTxStep DEF IsWorker
  <2>. QED BY <2>3, <2>4
<1>. QED
  BY <1>1, <1>3, <1>4, <1>5 DEF RefuseWallet, Abort, RetryInNewTransaction

\* The inbox insert of processOnce, new or duplicate, keeps the invariant.
LEMMA InboxInsertStep ==
    ASSUME IndInv, NEW s \in Sessions, InboxInsert(s)
    PROVE  IndInv'
<1>1. /\ job[s] \in Jobs
      /\ job[s].via = "SQS"
      /\ job[s] # NoJob
  BY DEF InboxInsert, IndInv, SessionFits, JobFits, TypeOK, SessionsTypeOK
<1>2. CASE Goto(s, "lock") /\ UNCHANGED <<snap, verdict, plan>>
  <2>1. /\ TypeOK'
        /\ OnlySession(s)
        /\ pc'[s] = "lock"
        /\ UNCHANGED <<wallets, rows, ledger, walletLock, job>>
    BY <1>2 DEF Goto, db, history, IndInv, TypeOK, TablesTypeOK, SessionsTypeOK,
                HistoryTypeOK, Steps, OnlySession
  <2>2. SessionFits(s)'
    BY <1>1, <2>1 DEF SessionFits, JobFits, IsWorker, InTransaction
  <2>. QED BY <1>2, <2>1, <2>2, SessionStep
<1>3. CASE /\ Finish(s)
           /\ acked' \in {acked, acked \cup {[msg |-> job[s].msg, op |-> job[s].op]}}
           /\ UNCHANGED <<db, answers>>
  <2>1. HistoryTypeOK'
    BY <1>1, <1>3, JobCases, NoneAssumption DEF IndInv, TypeOK, HistoryTypeOK
  <2>2. TablesTypeOK'
    BY <1>3 DEF db, IndInv, TypeOK, TablesTypeOK
  <2>. QED BY <1>3, <2>1, <2>2, FinishStep DEF db
<1>. QED BY <1>2, <1>3 DEF InboxInsert

\* FindForUpdate keeps the invariant: the snapshot it takes is the wallet it
\* locks.
LEMMA FindForUpdateStep ==
    ASSUME IndInv, NEW s \in Sessions, FindForUpdate(s)
    PROVE  IndInv'
<1>. DEFINE w == WalletOf(s)
<1>1. JobFits(s) /\ job[s] # NoJob
  BY DEF FindForUpdate, IndInv, SessionFits, JobFits
<1>2. w \in Wallets
  BY <1>1, PayloadAccepted DEF IndInv
<1>3. /\ wallets[w] \in Snapshot
      /\ walletLock[w] = None
      /\ UNCHANGED <<db, job, tries, verdict, plan, history>>
      /\ walletLock' = [walletLock EXCEPT ![w] = s]
      /\ snap' = [snap EXCEPT ![s] = wallets[w]]
      /\ pc' = [pc EXCEPT ![s] = IF IsWorker(s) THEN "row" ELSE "key"]
  BY <1>2 DEF FindForUpdate, IndInv, TypeOK, TablesTypeOK
<1>. HIDE DEF w
<1>4. TypeOK'
  BY <1>2, <1>3 DEF db, history, IndInv, TypeOK, TablesTypeOK, SessionsTypeOK,
                    HistoryTypeOK, Steps
<1>5. /\ pc'[s] = IF IsWorker(s) THEN "row" ELSE "key"
      /\ snap'[s] = wallets[w] /\ walletLock'[w] = s
      /\ plan'[s] = plan[s]
      /\ UNCHANGED <<wallets, rows, ledger, job>>
  BY <1>2, <1>3 DEF db, IndInv, TypeOK, SessionsTypeOK
<1>6. OnlySession(s)
  BY <1>2, <1>3, NoneAssumption DEF OnlySession, IndInv, TypeOK, SessionsTypeOK
<1>7. IsWorker(s)' = IsWorker(s) /\ WalletOf(s)' = w
  BY <1>5 DEF IsWorker, WalletOf, Payload, w
<1>8. JobFits(s)'
  BY <1>1, <1>5, <1>7 DEF JobFits, AcceptedPayloads
<1>9. HoldsWallet(s)'
  BY <1>3, <1>5, <1>7, NoneAssumption DEF HoldsWallet
<1>10. SessionFits(s)' /\ pc'[s] # "commit"
  BY <1>5, <1>8, <1>9 DEF SessionFits
<1>. QED BY <1>4, <1>5, <1>6, <1>10, SessionStep

\* The two lookups keep the invariant, whether they go on, replay or refuse.
LEMMA LookupStep ==
    ASSUME IndInv, NEW s \in Sessions, LookupByKey(s) \/ LookupByExternal(s)
    PROVE  IndInv'
<1>1. /\ job[s] \in Jobs /\ job[s] # NoJob
      /\ ~IsWorker(s)
      /\ InTransaction(s)
  BY DEF LookupByKey, LookupByExternal, IndInv, SessionFits, JobFits, TypeOK,
         SessionsTypeOK, InTransaction
<1>2. /\ job[s].via = "HTTP" => job[s].op \in HttpOps
      /\ job[s].via = "SQS" => /\ job[s].msg \in Messages
                               /\ job[s].op \in {d.op : d \in Deliveries}
      /\ job[s].op \in Accepted
  BY <1>1, JobCases DEF IsWorker
<1>3. CASE Finish(s) /\ UNCHANGED <<db, history>>
  <2>1. TablesTypeOK' /\ HistoryTypeOK'
    BY <1>3 DEF db, history, IndInv, TypeOK, TablesTypeOK, HistoryTypeOK
  <2>. QED BY <1>3, <2>1, FinishStep DEF db
<1>4. CASE LookupByKey(s) /\ Goto(s, "ext") /\ UNCHANGED <<snap, verdict, plan>>
  BY <1>1, <1>4, GotoStep DEF IndInv, TypeOK, SessionsTypeOK
<1>5. ASSUME NEW id \in TxIds, rows[id] # None, RecordInbox(s), Reply(s, id, rows[id]),
             Finish(s), UNCHANGED <<wallets, rows, ledger, outbox>>
      PROVE  IndInv'
  <2>1. rows[id] \in Row
    BY <1>5 DEF IndInv, TypeOK, TablesTypeOK
  <2>2. TablesTypeOK'
    BY <1>2, <1>5 DEF RecordInbox, PayloadHash, IndInv, TypeOK, TablesTypeOK
  <2>3. HistoryTypeOK'
    BY <1>2, <1>5, <2>1 DEF Reply, IndInv, TypeOK, HistoryTypeOK, Row
  <2>. QED BY <1>5, <2>2, <2>3, FinishStep
<1>6. CASE LookupByKey(s)
  BY <1>3, <1>4, <1>5, <1>6 DEF LookupByKey, FindByIdempotencyKey
<1>7. CASE LookupByExternal(s) /\ Goto(s, IF job[s].op.payload.ref = None THEN "insert" ELSE "resolve")
                               /\ UNCHANGED <<snap, plan>>
  <2>. DEFINE d == Evaluate(job[s].op.payload, None, FALSE)
              v == Verdict(d, None)
  <2>1. d.action # "INVALID" /\ job[s].op.payload.kind \in Kinds
    BY <1>2, PreparedIsWellFormed DEF Accepted, Prepared, ExternalKinds, Kinds
  <2>2. v \in Verdicts
    BY <2>1, EvaluateType DEF Verdict, Verdicts
  <2>3. verdict' = [verdict EXCEPT ![s] = v]
    BY <1>7, <2>1 DEF LookupByExternal, EndTx, Finish, Goto, Steps, IndInv, TypeOK, SessionsTypeOK
  <2>. HIDE DEF v
  <2>4. verdict' \in [Sessions -> Verdicts] /\ \A t \in Sessions \ {s} : verdict'[t] = verdict[t]
    BY <2>2, <2>3 DEF IndInv, TypeOK, SessionsTypeOK
  <2>. QED BY <1>1, <1>7, <2>4, GotoStep
<1>8. CASE LookupByExternal(s)
  BY <1>3, <1>7, <1>8 DEF LookupByExternal
<1>. QED BY <1>6, <1>8

\* What a session inside its transaction may rely on.
LEMMA InTransactionFacts ==
    ASSUME IndInv, NEW s \in Sessions, InTransaction(s)
    PROVE  /\ JobFits(s) /\ HoldsWallet(s)
           /\ job[s] \in Jobs /\ job[s] # NoJob
           /\ Payload(s) \in AcceptedPayloads
           /\ WalletOf(s) \in Wallets
           /\ Payload(s).kind \in ExternalKinds
           /\ Payload(s).amount \in Nat
           /\ snap[s] \in Snapshot
           /\ verdict[s] \in Verdicts
           /\ IsWorker(s) => job[s].id \in TxIds /\ rows[job[s].id] \in Row
           /\ ~IsWorker(s) => job[s].op \in Accepted
<1>1. JobFits(s) /\ HoldsWallet(s) /\ job[s] # NoJob
  BY DEF IndInv, SessionFits, InTransaction, JobFits
<1>2. /\ job[s] \in Jobs
      /\ snap[s] \in Snapshot
      /\ verdict[s] \in Verdicts
      /\ rows \in [TxIds -> Row \cup {None}]
  BY DEF IndInv, TypeOK, SessionsTypeOK, TablesTypeOK
<1>3. IsWorker(s) => job[s].id \in TxIds /\ rows[job[s].id] \in Row
  BY <1>1, <1>2, JobCases DEF IsWorker, JobFits
<1>4. ~IsWorker(s) => job[s].op \in Accepted
  BY <1>1, <1>2, JobCases DEF IsWorker
<1>. QED BY <1>1, <1>2, <1>3, <1>4, PayloadAccepted DEF IndInv

\* FailPending, ResumePending and ReschedulePendingAfterFailure plan the
\* worker's own row, with its status or its attempts counter changed.
LEMMA WorkerPlanStep ==
    ASSUME IndInv, NEW s \in Sessions, InTransaction(s), IsWorker(s),
           NEW row \in {Rescheduled(job[s].id), FailedRow(job[s].id)},
           Plan(s, job[s].id, row), UNCHANGED snap,
           verdict' \in [Sessions -> Verdicts],
           \A t \in Sessions \ {s} : verdict'[t] = verdict[t],
           Moves(verdict'[s]) => rows[job[s].id].status = "PENDING_REFERENCE"
    PROVE  IndInv'
<1>1. job[s].id \in TxIds /\ rows[job[s].id] \in Row
  BY InTransactionFacts
<1>2. FailedRow(job[s].id) \in Row
  BY <1>1 DEF FailedRow, Row, Statuses, Codes
<1>3. Rescheduled(job[s].id) \in Row
  BY <1>1 DEF Rescheduled, Row
<1>4. row.payload = Payload(s)
  BY <1>1 DEF FailedRow, Rescheduled, Row, Payload
<1>5. Moves(verdict'[s]) => row.status # "PROCESSED"
  BY <1>1 DEF FailedRow, Rescheduled, Row
<1>. QED BY <1>1, <1>2, <1>3, <1>4, <1>5, PlanStep

\* Resolving the reference of a new operation keeps the invariant.
LEMMA ResolveNewStep ==
    ASSUME IndInv, NEW s \in Sessions, ResolveNew(s)
    PROVE  IndInv'
<1>1. InTransaction(s) /\ ~IsWorker(s)
  BY DEF ResolveNew, InTransaction
<1>2. ResolvedVerdict(Payload(s)) \in Verdicts
  BY <1>1, InTransactionFacts, ResolvedVerdictType DEF IndInv, TypeOK, AcceptedPayloads
<1>3. /\ verdict' \in [Sessions -> Verdicts]
      /\ \A t \in Sessions \ {s} : verdict'[t] = verdict[t]
  BY <1>2 DEF ResolveNew, IndInv, TypeOK, SessionsTypeOK
<1>. QED BY <1>1, <1>3, GotoStep DEF ResolveNew

\* Resolving a pending row keeps the invariant, rescheduled or not.
LEMMA ResolvePendingStep ==
    ASSUME IndInv, NEW s \in Sessions, ResolvePending(s)
    PROVE  IndInv'
<1>1. InTransaction(s) /\ IsWorker(s)
  BY DEF ResolvePending, InTransaction
<1>2. ResolvedVerdict(Payload(s)) \in Verdicts
  BY <1>1, InTransactionFacts, ResolvedVerdictType DEF IndInv, TypeOK, AcceptedPayloads
<1>3. /\ verdict' \in [Sessions -> Verdicts]
      /\ \A t \in Sessions \ {s} : verdict'[t] = verdict[t]
      /\ UNCHANGED snap
  BY <1>2 DEF ResolvePending, IndInv, TypeOK, SessionsTypeOK
<1>4. CASE Goto(s, "complete") /\ UNCHANGED plan
  BY <1>1, <1>3, <1>4, GotoStep
<1>5. CASE Goto(s, "expire") /\ UNCHANGED plan
  BY <1>1, <1>3, <1>5, GotoStep
<1>6. CASE /\ Plan(s, job[s].id, Rescheduled(job[s].id))
           /\ ResolvedVerdict(Payload(s)).action = "WAIT"
  <2>1. ~Moves(verdict'[s])
    BY <1>6 DEF Moves, ResolvePending, IndInv, TypeOK, SessionsTypeOK
  <2>. QED BY <1>1, <1>3, <1>6, <2>1, WorkerPlanStep
<1>. QED BY <1>4, <1>5, <1>6 DEF ResolvePending

\* Choosing the code of an expired row keeps the invariant.
LEMMA ExpirePendingStep ==
    ASSUME IndInv, NEW s \in Sessions, ExpirePending(s)
    PROVE  IndInv'
<1>1. InTransaction(s) /\ IsWorker(s)
  BY DEF ExpirePending, InTransaction, IndInv, SessionFits, JobFits
<1>. DEFINE refs == References(Payload(s))
            v == IF refs = {} THEN Verdict(Rejection("REFERENCE_NOT_FOUND"), None)
                 ELSE Verdict(Rejection("REFERENCE_NOT_PROCESSED"), CHOOSE id \in refs : TRUE)
<1>2. v \in Verdicts
  BY DEF References, FindByExternalTransactionID, Verdict, Rejection, Decision, Verdicts,
         Directions, Codes
<1>3. verdict' = [verdict EXCEPT ![s] = v]
  BY DEF ExpirePending
<1>. HIDE DEF v
<1>4. /\ verdict' \in [Sessions -> Verdicts]
      /\ \A t \in Sessions \ {s} : verdict'[t] = verdict[t]
  BY <1>2, <1>3 DEF IndInv, TypeOK, SessionsTypeOK
<1>. QED BY <1>1, <1>4, GotoStep DEF ExpirePending

\* processNew: the settled or pending row of a request fits PlanStep.
LEMMA InsertNewStep ==
    ASSUME IndInv, NEW s \in Sessions, InsertNew(s)
    PROVE  IndInv'
<1>1. InTransaction(s) /\ ~IsWorker(s)
  BY DEF InsertNew, InTransaction, IndInv, SessionFits, JobFits
<1>. DEFINE op == job[s].op
            new == PendingRow(op)
<1>2. op \in Accepted /\ Payload(s) = op.payload /\ op.payload.amount \in Nat
  BY <1>1, InTransactionFacts DEF Payload
<1>3. new \in Row /\ new.payload = op.payload /\ new.status = "PENDING_REFERENCE"
  BY <1>2 DEF PendingRow, Row, Payloads, Statuses, Codes
<1>4. verdict[s] \in Verdicts /\ snap[s].balance \in Nat
  BY <1>1, InTransactionFacts DEF Snapshot
<1>5. NewRow(s) \in Row /\ NewRow(s).payload = Payload(s)
  <2>1. Settle(new, verdict[s], snap[s].balance) \in Row
    BY <1>2, <1>3, <1>4, SettleType
  <2>2. Settle(new, verdict[s], snap[s].balance).payload = op.payload
    BY <1>3 DEF Settle, Row
  <2>. QED BY <1>2, <1>3, <2>1, <2>2 DEF NewRow
<1>6. (Moves(verdict[s]) /\ NewRow(s).status = "PROCESSED") =>
          /\ NewRow(s).balance \in Nat
          /\ NewRow(s).balance = IF verdict[s].direction = "DEBIT"
                                 THEN snap[s].balance - NewRow(s).payload.amount
                                 ELSE snap[s].balance + NewRow(s).payload.amount
  <2>1. Moves(verdict[s]) => NewRow(s) = Settle(new, verdict[s], snap[s].balance)
    BY DEF Moves, NewRow
  <2>. QED BY <1>2, <1>3, <1>4, <1>5, <2>1, SettleMoves
<1>7. UNCHANGED <<snap, verdict>>
  BY DEF InsertNew
<1>8. PICK id \in TxIds : Fresh(id) /\ Plan(s, id, NewRow(s))
  BY DEF InsertNew
<1>. QED BY <1>1, <1>5, <1>6, <1>7, <1>8, PlanStep DEF IndInv, TypeOK, SessionsTypeOK

\* rejectPending and processPending: the settled row fits PlanStep.
LEMMA CompletePendingStep ==
    ASSUME IndInv, NEW s \in Sessions, CompletePending(s)
    PROVE  IndInv'
<1>1. InTransaction(s) /\ IsWorker(s)
  BY DEF CompletePending, InTransaction, IndInv, SessionFits, JobFits
<1>. DEFINE id  == job[s].id
            row == Settle(rows[id], verdict[s], snap[s].balance)
<1>2. /\ id \in TxIds /\ rows[id] \in Row /\ Payload(s) = rows[id].payload
      /\ rows[id].payload.amount \in Nat
      /\ verdict[s] \in Verdicts /\ snap[s].balance \in Nat
  BY <1>1, InTransactionFacts DEF Snapshot, Payload
<1>3. row \in Row
  BY <1>2, SettleType
<1>4. row.payload = Payload(s)
  BY <1>2 DEF Settle, Row
<1>5. (Moves(verdict[s]) /\ row.status = "PROCESSED") =>
          /\ row.balance \in Nat
          /\ row.balance = IF verdict[s].direction = "DEBIT"
                           THEN snap[s].balance - row.payload.amount
                           ELSE snap[s].balance + row.payload.amount
  BY <1>2, <1>4, SettleMoves
<1>6. UNCHANGED <<snap, verdict>> /\ Plan(s, id, row)
  BY DEF CompletePending
<1>. HIDE DEF row
<1>. QED BY <1>1, <1>2, <1>3, <1>4, <1>5, <1>6, PlanStep DEF IndInv, TypeOK, SessionsTypeOK

\* Reading the worker's row keeps the invariant: it is skipped, resumed,
\* failed or rescheduled.
LEMMA FindPendingForUpdateStep ==
    ASSUME IndInv, NEW s \in Sessions, FindPendingForUpdate(s)
    PROVE  IndInv'
<1>1. InTransaction(s) /\ IsWorker(s)
  BY DEF FindPendingForUpdate, InTransaction, IndInv, SessionFits, JobFits
<1>2. CASE Finish(s) /\ UNCHANGED <<db, history>>
  <2>1. TablesTypeOK' /\ HistoryTypeOK'
    BY <1>2 DEF db, history, IndInv, TypeOK, TablesTypeOK, HistoryTypeOK
  <2>. QED BY <1>2, <2>1, FinishStep DEF db
<1>3. CASE /\ rows[job[s].id].status = "PENDING_REFERENCE"
           /\ UNCHANGED <<snap, verdict>>
           /\ \/ Plan(s, job[s].id, FailedRow(job[s].id))
              \/ Plan(s, job[s].id, Rescheduled(job[s].id))
  BY <1>1, <1>3, WorkerPlanStep DEF IndInv, TypeOK, SessionsTypeOK
<1>4. CASE Goto(s, "resolve") /\ UNCHANGED <<snap, verdict, plan>>
  BY <1>1, <1>4, GotoStep DEF IndInv, TypeOK, SessionsTypeOK
<1>. QED BY <1>2, <1>3, <1>4 DEF FindPendingForUpdate

-----------------------------------------------------------------------------
(* COMMIT.                                                                 *)

\* What a session about to commit has planned.
LEMMA CommitFacts ==
    ASSUME IndInv, NEW s \in Sessions, pc[s] = "commit"
    PROVE  /\ InTransaction(s) /\ HoldsWallet(s) /\ PlanFits(s)
           /\ plan[s].id \in TxIds
           /\ plan[s].row \in Row
           /\ plan[s].row.payload = Payload(s)
           /\ plan[s].row.payload.wallet = WalletOf(s)
           /\ WalletOf(s) \in Wallets
           /\ job[s] # NoJob /\ job[s] \in Jobs
           /\ Payload(s) \in AcceptedPayloads
           /\ Payload(s).kind # "OPENING"
           /\ Payload(s).amount \in Nat
           /\ verdict[s] \in Verdicts
           /\ snap[s] \in Snapshot
           /\ wallets[WalletOf(s)] = snap[s]
<1>1. InTransaction(s) /\ HoldsWallet(s) /\ PlanFits(s)
  BY DEF InTransaction, IndInv, SessionFits
<1>. QED BY <1>1, InTransactionFacts DEF PlanFits, HoldsWallet, WalletOf, ExternalKinds

\* What Commit appends to a ledger is a sequence of ledger entries.
LEMMA EntriesType ==
    ASSUME IndInv, NEW s \in Sessions, pc[s] = "commit"
    PROVE  EntriesOf(s) \in Seq(LedgerEntry)
<1>1. CASE PlanMoves(s)
  <2>. DEFINE e == Entry(plan[s].id, verdict[s].direction, plan[s].row.payload.amount,
                         snap[s].balance, plan[s].row.balance)
  <2>1. e \in LedgerEntry
    BY <1>1, CommitFacts DEF Entry, LedgerEntry, PlanMoves, Moves, Verdicts, Directions,
                             PlanFits, Snapshot
  <2>2. EntriesOf(s) = <<e>>
    BY <1>1 DEF EntriesOf
  <2>. HIDE DEF e
  <2>. QED BY <2>1, <2>2
<1>2. CASE ~PlanMoves(s)
  BY <1>2 DEF EntriesOf
<1>. QED BY <1>1, <1>2

\* What Commit appends to the outbox is a sequence of events.
LEMMA EventsType ==
    ASSUME IndInv, NEW s \in Sessions, pc[s] = "commit"
    PROVE  EventsOf(s) \in Seq(Event)
<1>. DEFINE id == plan[s].id
            r  == plan[s].row
            changed == BalanceChanged(id, snap[s].version + 1, r.balance)
<1>1. id \in TxIds /\ r \in Row /\ snap[s].version + 1 \in Nat
  BY CommitFacts DEF Snapshot
<1>2. \A type \in {"PROCESSED", "REJECTED", "PENDING_REFERENCE"} :
          WagerEvent(type, id) \in Event
  BY <1>1 DEF WagerEvent, Event
<1>3. changed \in Event
  BY <1>1 DEF BalanceChanged, Event, Row
<1>4. EventsOf(s) \in {<<WagerEvent("REJECTED", id)>>,
                       <<WagerEvent("PROCESSED", id)>> \o <<changed>>,
                       <<WagerEvent("PROCESSED", id)>> \o <<>>,
                       <<WagerEvent("PENDING_REFERENCE", id)>>, <<>>}
  BY <1>1 DEF EventsOf, Row, Statuses
<1>. HIDE DEF changed
<1>5. /\ <<WagerEvent("PROCESSED", id)>> \in Seq(Event)
      /\ <<WagerEvent("REJECTED", id)>> \in Seq(Event)
      /\ <<WagerEvent("PENDING_REFERENCE", id)>> \in Seq(Event)
      /\ <<changed>> \in Seq(Event)
      /\ <<>> \in Seq(Event)
  BY <1>2, <1>3
<1>6. /\ <<WagerEvent("PROCESSED", id)>> \o <<changed>> \in Seq(Event)
      /\ <<WagerEvent("PROCESSED", id)>> \o <<>> \in Seq(Event)
  BY <1>5, ConcatProperties
<1>. QED BY <1>4, <1>5, <1>6

\* Commit stores well-typed rows, wallets, entries and events.
LEMMA CommitTypes ==
    ASSUME IndInv, NEW s \in Sessions, Commit(s)
    PROVE  TypeOK'
<1>. DEFINE r == plan[s].row
            w == WalletOf(s)
<1>1. pc[s] = "commit"
  BY DEF Commit
<1>2. /\ r \in Row /\ plan[s].id \in TxIds /\ w \in Wallets /\ r.payload.wallet = w
      /\ job[s] \in Jobs /\ job[s] # NoJob
  BY <1>1, CommitFacts
<1>3. rows' \in [TxIds -> Row \cup {None}]
  BY <1>2 DEF Commit, IndInv, TypeOK, TablesTypeOK
<1>4. wallets' \in [Wallets -> Snapshot \cup {None}]
  <2>1. PlanMoves(s) => [balance |-> r.balance, version |-> snap[s].version + 1] \in Snapshot
    BY <1>1, CommitFacts DEF PlanFits, Snapshot
  <2>. QED BY <1>2, <2>1 DEF Commit, IndInv, TypeOK, TablesTypeOK
<1>5. ledger' \in [Wallets -> Seq(LedgerEntry)]
  <2>1. ledger[w] \in Seq(LedgerEntry) /\ EntriesOf(s) \in Seq(LedgerEntry)
    BY <1>1, <1>2, EntriesType DEF IndInv, TypeOK, TablesTypeOK
  <2>2. ledger[w] \o EntriesOf(s) \in Seq(LedgerEntry)
    BY <2>1, ConcatProperties
  <2>3. ledger' = [ledger EXCEPT ![w] = ledger[w] \o EntriesOf(s)]
    BY <1>2 DEF Commit
  <2>. QED BY <2>2, <2>3 DEF IndInv, TypeOK, TablesTypeOK
<1>6. outbox' \in [Wallets -> Seq(Event)]
  <2>1. outbox[w] \in Seq(Event) /\ EventsOf(s) \in Seq(Event)
    BY <1>1, <1>2, EventsType DEF IndInv, TypeOK, TablesTypeOK
  <2>2. outbox[w] \o EventsOf(s) \in Seq(Event)
    BY <2>1, ConcatProperties
  <2>3. outbox' = [outbox EXCEPT ![w] = outbox[w] \o EventsOf(s)]
    BY <1>2 DEF Commit
  <2>. QED BY <2>2, <2>3 DEF IndInv, TypeOK, TablesTypeOK
<1>7. /\ inbox' \in [Messages -> {o.payload : o \in Accepted} \cup {None}]
      /\ HistoryTypeOK'
  <2>1. /\ job[s].via = "HTTP" => job[s].op \in HttpOps
        /\ job[s].via = "SQS" => /\ job[s].op \in Accepted /\ job[s].msg \in Messages
                                 /\ job[s].op \in {d.op : d \in Deliveries}
    BY <1>2, JobCases
  <2>2. RecordInbox(s) /\ Reply(s, plan[s].id, r)
    BY DEF Commit
  <2>3. inbox' \in [Messages -> {o.payload : o \in Accepted} \cup {None}]
    BY <2>1, <2>2 DEF RecordInbox, PayloadHash, IndInv, TypeOK, TablesTypeOK
  <2>4. HistoryTypeOK'
    BY <1>2, <2>1, <2>2 DEF Reply, IndInv, TypeOK, HistoryTypeOK, Row
  <2>. QED BY <2>3, <2>4
<1>8. SessionsTypeOK'
  <2>1. EndTx(s, "idle", NoJob, 0) /\ NoJob \in Jobs
    BY DEF Commit, Finish, Jobs
  <2>. QED BY <2>1, EndTxTypes DEF IndInv, TypeOK, Steps
<1>. QED BY <1>3, <1>4, <1>5, <1>6, <1>7, <1>8 DEF TypeOK, TablesTypeOK

\* Stored rows keep their payloads and no other wallet is touched.
LEMMA CommitFrame ==
    ASSUME IndInv, NEW s \in Sessions, Commit(s)
    PROVE  /\ \A id \in TxIds : rows[id] # None =>
                  rows'[id] # None /\ rows'[id].payload = rows[id].payload
           /\ rows'[plan[s].id] = plan[s].row
           /\ \A id \in TxIds : id # plan[s].id => rows'[id] = rows[id]
           /\ \A w \in Wallets : w # WalletOf(s) =>
                  wallets'[w] = wallets[w] /\ ledger'[w] = ledger[w]
           /\ wallets'[WalletOf(s)] =
                  IF PlanMoves(s)
                  THEN [balance |-> plan[s].row.balance, version |-> snap[s].version + 1]
                  ELSE snap[s]
           /\ ledger'[WalletOf(s)] = ledger[WalletOf(s)] \o EntriesOf(s)
<1>1. pc[s] = "commit"
  BY DEF Commit
<1>2. /\ rows' = [rows EXCEPT ![plan[s].id] = plan[s].row]
      /\ wallets' = IF PlanMoves(s)
                    THEN [wallets EXCEPT ![WalletOf(s)] =
                            [balance |-> plan[s].row.balance, version |-> snap[s].version + 1]]
                    ELSE wallets
      /\ ledger' = [ledger EXCEPT ![WalletOf(s)] = ledger[WalletOf(s)] \o EntriesOf(s)]
  BY <1>1, CommitFacts DEF Commit
<1>3. rows[plan[s].id] # None => plan[s].row.payload = rows[plan[s].id].payload
  BY <1>1, CommitFacts DEF PlanFits, Payload
<1>4. plan[s].row # None
  BY <1>1, CommitFacts, NoneAssumption
<1>. QED BY <1>1, <1>2, <1>3, <1>4, CommitFacts DEF IndInv, TypeOK, TablesTypeOK

\* Commit of one session leaves the others as they were: what they have read
\* under their own wallet locks, and the ids they are about to insert.
LEMMA CommitSessions ==
    ASSUME IndInv, NEW s \in Sessions, Commit(s)
    PROVE  (\A t \in Sessions : SessionFits(t))' /\ PlansDistinct'
<1>1. pc[s] = "commit" /\ HoldsWallet(s) /\ PlanFits(s) /\ WalletOf(s) \in Wallets
  BY CommitFacts DEF Commit
<1>2. /\ pc'[s] = "idle" /\ job'[s] = NoJob /\ plan'[s] = NoPlan
      /\ \A t \in Sessions \ {s} :
            /\ pc'[t] = pc[t] /\ job'[t] = job[t] /\ snap'[t] = snap[t]
            /\ verdict'[t] = verdict[t] /\ plan'[t] = plan[t]
      /\ \A w \in Wallets : walletLock[w] \in Sessions \ {s} => walletLock'[w] = walletLock[w]
  BY DEF Commit, Finish, EndTx, IndInv, TypeOK, SessionsTypeOK
<1>3. SessionFits(s)'
  BY <1>2, NoneAssumption DEF SessionFits, JobFits, IsWorker, InTransaction, NoJob
<1>4. ASSUME NEW t \in Sessions \ {s}
      PROVE  SessionFits(t)'
  <2>1. SessionFits(t)
    BY DEF IndInv
  <2>2. InTransaction(t) => /\ wallets'[WalletOf(t)] = wallets[WalletOf(t)]
                            /\ walletLock'[WalletOf(t)] = walletLock[WalletOf(t)]
    <3>1. SUFFICES ASSUME InTransaction(t)
                   PROVE  /\ wallets'[WalletOf(t)] = wallets[WalletOf(t)]
                          /\ walletLock'[WalletOf(t)] = walletLock[WalletOf(t)]
      OBVIOUS
    <3>2. HoldsWallet(t) /\ WalletOf(t) \in Wallets
      BY <3>1, InTransactionFacts
    <3>3. WalletOf(t) # WalletOf(s)
      BY <1>1, <3>2 DEF HoldsWallet
    <3>. QED BY <1>2, <3>2, <3>3, CommitFrame DEF HoldsWallet
  <2>3. (pc[t] = "commit" /\ ~IsWorker(t)) => rows'[plan[t].id] = rows[plan[t].id]
    <3>1. SUFFICES ASSUME pc[t] = "commit", ~IsWorker(t)
                   PROVE  rows'[plan[t].id] = rows[plan[t].id]
      OBVIOUS
    <3>2. plan[t].id \in TxIds
      BY <3>1, CommitFacts
    <3>3. plan[s].id # plan[t].id
      BY <3>1 DEF IndInv, PlansDistinct
    <3>. QED BY <3>2, <3>3, CommitFrame
  <2>. QED BY <1>2, <2>1, <2>2, <2>3, CommitFrame, Frame DEF IndInv
<1>5. PlansDistinct'
  <2>. SUFFICES ASSUME NEW t \in Sessions, NEW u \in Sessions, t # u,
                       pc'[t] = "commit", ~IsWorker(t)'
                PROVE  plan'[u].id # plan'[t].id
    BY DEF PlansDistinct
  <2>1. t # s /\ pc[t] = "commit" /\ ~IsWorker(t)
    BY <1>2 DEF IsWorker
  <2>2. plan[t].id \in TxIds
    BY <2>1, CommitFacts
  <2>3. CASE u = s
    BY <1>2, <2>1, <2>2, <2>3, NoneAssumption DEF NoPlan
  <2>4. CASE u # s
    BY <1>2, <2>1, <2>4 DEF IndInv, PlansDistinct
  <2>. QED BY <2>3, <2>4
<1>. QED BY <1>3, <1>4, <1>5

\* The entry a commit writes names the row the commit stores.
LEMMA EntriesAreTagged ==
    ASSUME NEW s \in Sessions, NEW i \in 1..Len(EntriesOf(s))
    PROVE  EntriesOf(s)[i].tx = plan[s].id
<1>. DEFINE e == Entry(plan[s].id, verdict[s].direction, plan[s].row.payload.amount,
                       snap[s].balance, plan[s].row.balance)
<1>1. CASE PlanMoves(s)
  <2>1. EntriesOf(s) = <<e>> /\ e.tx = plan[s].id
    BY <1>1 DEF EntriesOf, Entry
  <2>. HIDE DEF e
  <2>2. i = 1
    BY <2>1
  <2>. QED BY <2>1, <2>2
<1>2. CASE ~PlanMoves(s)
  <2>1. EntriesOf(s) = <<>>
    BY <1>2 DEF EntriesOf
  <2>. QED BY <2>1
<1>. QED BY <1>1, <1>2

\* After Commit a pending row is still a request, and every ledger entry
\* still names a stored row.
LEMMA CommitRows ==
    ASSUME IndInv, NEW s \in Sessions, Commit(s)
    PROVE  PendingAreRequests' /\ LedgerRowsStored'
<1>1. pc[s] = "commit"
  BY DEF Commit
<1>2. /\ plan[s].id \in TxIds /\ rows'[plan[s].id] = plan[s].row
      /\ plan[s].row.payload \in AcceptedPayloads
      /\ plan[s].row # None
  BY <1>1, CommitFacts, CommitFrame, NoneAssumption
<1>3. \A id \in TxIds : id # plan[s].id => rows'[id] = rows[id]
  BY CommitFrame
<1>4. \A id \in TxIds : rows[id] # None => rows'[id] # None
  BY <1>2, <1>3
<1>5. PendingAreRequests'
  BY <1>2, <1>3 DEF IndInv, PendingAreRequests, AcceptedPayloads
<1>6. ASSUME NEW w \in Wallets, NEW i \in 1..Len(ledger'[w])
      PROVE  rows'[ledger'[w][i].tx] # None
  <2>1. /\ ledger[w] \in Seq(LedgerEntry) /\ Len(ledger[w]) \in Nat
        /\ ledger[w] \in [1..Len(ledger[w]) -> LedgerEntry]
    BY LenProperties DEF IndInv, TypeOK, TablesTypeOK
  <2>2. ASSUME NEW k \in 1..Len(ledger[w])
        PROVE  rows'[ledger[w][k].tx] # None
    <3>1. ledger[w][k].tx \in TxIds
      BY <2>1 DEF LedgerEntry
    <3>. QED BY <1>4, <3>1 DEF IndInv, LedgerRowsStored
  <2>3. CASE w # WalletOf(s)
    BY <2>2, <2>3, CommitFrame
  <2>4. CASE w = WalletOf(s)
    <3>1. /\ ledger'[w] = ledger[w] \o EntriesOf(s)
          /\ EntriesOf(s) \in Seq(LedgerEntry) /\ Len(EntriesOf(s)) \in Nat
      BY <1>1, <2>4, CommitFrame, EntriesType, LenProperties
    <3>2. /\ Len(ledger'[w]) = Len(ledger[w]) + Len(EntriesOf(s))
          /\ ledger'[w][i] = IF i <= Len(ledger[w]) THEN ledger[w][i]
                             ELSE EntriesOf(s)[i - Len(ledger[w])]
      BY <2>1, <3>1, ConcatProperties
    <3>3. CASE i <= Len(ledger[w])
      BY <2>1, <2>2, <3>2, <3>3
    <3>4. CASE ~(i <= Len(ledger[w]))
      <4>1. i - Len(ledger[w]) \in 1..Len(EntriesOf(s))
        BY <2>1, <3>1, <3>2, <3>4
      <4>2. ledger'[w][i].tx = plan[s].id
        BY <3>2, <3>4, <4>1, EntriesAreTagged
      <4>. QED BY <1>2, <4>2
    <3>. QED BY <3>3, <3>4
  <2>. QED BY <2>3, <2>4
<1>7. ASSUME NEW w \in Wallets, wallets'[w] = None
      PROVE  ledger'[w] = <<>>
  <2>1. WalletOf(s) \in Wallets /\ snap[s] # None
    BY <1>1, CommitFacts, NoneAssumption
  <2>2. PlanMoves(s) =>
           [balance |-> plan[s].row.balance, version |-> snap[s].version + 1] \in Snapshot
    BY <1>1, CommitFacts DEF PlanFits, Snapshot
  <2>3. w # WalletOf(s)
    <3>1. CASE PlanMoves(s)
      BY <1>7, <2>2, <3>1, CommitFrame, NoneAssumption
    <3>2. CASE ~PlanMoves(s)
      BY <1>7, <2>1, <3>2, CommitFrame
    <3>. QED BY <3>1, <3>2
  <2>4. wallets[w] = None /\ ledger'[w] = ledger[w]
    BY <1>7, <2>3, CommitFrame
  <2>. QED BY <2>4 DEF IndInv, LedgerRowsStored
<1>. QED BY <1>5, <1>6, <1>7 DEF LedgerRowsStored

\* A wallet whose balance, version and ledger stay reconciles as before.
LEMMA ReconcilesFrame ==
    ASSUME NEW w \in Wallets, TablesTypeOK, LedgerRowsStored,
           wallets'[w] = wallets[w], ledger'[w] = ledger[w],
           \A id \in TxIds : rows[id] # None =>
               rows'[id] # None /\ rows'[id].payload = rows[id].payload
    PROVE  /\ Opened(w)' = Opened(w)
           /\ WalletReconciles(w) => WalletReconciles(w)'
<1>1. ledger[w] \in Seq(LedgerEntry) /\ Len(ledger[w]) \in Nat
  BY LenProperties DEF TablesTypeOK
<1>2. Opened(w)' = Opened(w)
  <2>1. CASE Len(ledger[w]) > 0
    <3>1. 1 \in 1..Len(ledger[w])
      BY <1>1, <2>1
    <3>2. ledger[w][1] \in LedgerEntry
      BY <1>1, <3>1, ElementOfSeq
    <3>3. ledger[w][1].tx \in TxIds /\ rows[ledger[w][1].tx] # None
      BY <3>1, <3>2 DEF LedgerRowsStored, LedgerEntry
    <3>. QED BY <3>3 DEF Opened
  <2>2. CASE ~(Len(ledger[w]) > 0)
    BY <2>2 DEF Opened
  <2>. QED BY <2>1, <2>2
<1>. QED BY <1>2 DEF WalletReconciles

\* The entry Commit appends is the next link of the wallet's chain.
LEMMA CommitMovement ==
    ASSUME IndInv, NEW s \in Sessions, Commit(s), PlanMoves(s),
           NEW w \in Wallets, w = WalletOf(s)
    PROVE  WalletReconciles(w)'
<1>. DEFINE l == ledger[w]
            n == Len(l)
            a == plan[s].row.payload.amount
            b == plan[s].row.balance
            e == Entry(plan[s].id, verdict[s].direction, a, snap[s].balance, b)
<1>1. pc[s] = "commit"
  BY DEF Commit
<1>2. /\ snap[s] \in Snapshot /\ wallets[w] = snap[s]
      /\ wallets[w] # None /\ a \in Nat /\ b \in Nat
      /\ b = IF verdict[s].direction = "DEBIT" THEN snap[s].balance - a
             ELSE snap[s].balance + a
  BY <1>1, CommitFacts DEF HoldsWallet, PlanFits
<1>3. l \in Seq(LedgerEntry) /\ n \in Nat
  BY <1>2, LenProperties DEF IndInv, TypeOK, TablesTypeOK
<1>4. /\ e.tx = plan[s].id /\ e.direction = verdict[s].direction /\ e.amount = a
      /\ e.before = snap[s].balance /\ e.after = b
  BY DEF Entry
<1>5. ledger'[w] = l \o <<e>> /\ <<e>> \in Seq(LedgerEntry) /\ Len(<<e>>) = 1 /\ <<e>>[1] = e
  <2>1. EntriesOf(s) = <<e>>
    BY DEF EntriesOf
  <2>2. EntriesOf(s) \in Seq(LedgerEntry) /\ ledger'[w] = l \o EntriesOf(s)
    BY <1>1, EntriesType, CommitFrame
  <2>. HIDE DEF e
  <2>. QED BY <2>1, <2>2
<1>. HIDE DEF e
<1>6. /\ Len(ledger'[w]) = n + 1
      /\ \A i \in 1..n : ledger'[w][i] = l[i]
      /\ ledger'[w][n + 1] = e
  <2>1. /\ Len(l \o <<e>>) = n + 1
        /\ \A i \in 1..(n + 1) : (l \o <<e>>)[i] = IF i <= n THEN l[i] ELSE <<e>>[i - n]
    BY <1>3, <1>5, ConcatProperties
  <2>. QED BY <1>3, <1>5, <2>1
<1>7. wallets'[w].balance = b /\ wallets'[w].version = snap[s].version + 1
  <2>1. wallets'[w] = [balance |-> b, version |-> snap[s].version + 1]
    BY CommitFrame
  <2>. QED BY <2>1
<1>8. /\ snap[s].balance = IF n = 0 THEN 0 ELSE l[n].after
      /\ snap[s].version = 1 + n - Opened(w)
      /\ \A i \in 1..n : /\ l[i].before = IF i = 1 THEN 0 ELSE l[i-1].after
                         /\ l[i].after = IF l[i].direction = "DEBIT"
                                         THEN l[i].before - l[i].amount
                                         ELSE l[i].before + l[i].amount
  BY <1>2 DEF IndInv, LedgerReconciles, WalletReconciles
<1>9. Opened(w)' = Opened(w)
  <2>1. CASE n = 0
    <3>1. Opened(w) = 0
      BY <2>1 DEF Opened
    <3>2. ledger'[w][1].tx = plan[s].id
      BY <1>4, <1>6, <2>1
    <3>3. plan[s].row.payload.kind # "OPENING" /\ rows'[plan[s].id] = plan[s].row
      BY <1>1, CommitFacts, CommitFrame
    <3>. QED BY <3>1, <3>2, <3>3 DEF Opened
  <2>2. CASE n > 0
    <3>1. 1 \in 1..n /\ Len(ledger'[w]) > 0
      BY <1>3, <1>6, <2>2
    <3>2. l[1] \in LedgerEntry /\ ledger'[w][1] = l[1]
      BY <1>3, <1>6, <3>1, ElementOfSeq
    <3>3. l[1].tx \in TxIds /\ rows[l[1].tx] # None
      BY <1>2, <3>1, <3>2 DEF IndInv, LedgerRowsStored, LedgerEntry
    <3>4. rows'[l[1].tx].payload = rows[l[1].tx].payload
      BY <3>3, CommitFrame
    <3>. QED BY <2>2, <3>1, <3>2, <3>4 DEF Opened
  <2>. QED BY <1>3, <2>1, <2>2
<1>10. ASSUME NEW i \in 1..(n + 1)
       PROVE  /\ ledger'[w][i].before = IF i = 1 THEN 0 ELSE ledger'[w][i-1].after
              /\ ledger'[w][i].after = IF ledger'[w][i].direction = "DEBIT"
                                       THEN ledger'[w][i].before - ledger'[w][i].amount
                                       ELSE ledger'[w][i].before + ledger'[w][i].amount
  <2>1. CASE i \in 1..n
    <3>1. ledger'[w][i] = l[i] /\ (i # 1 => ledger'[w][i-1] = l[i-1])
      BY <1>3, <1>6, <2>1
    <3>. QED BY <1>8, <2>1, <3>1
  <2>2. CASE i = n + 1
    <3>1. ledger'[w][i] = e /\ (i # 1 => ledger'[w][i-1] = l[n])
      BY <1>3, <1>6, <2>2
    <3>. QED BY <1>2, <1>3, <1>4, <1>8, <2>2, <3>1
  <2>. QED BY <1>3, <2>1, <2>2
<1>11. /\ wallets'[w].balance = IF Len(ledger'[w]) = 0 THEN 0
                                ELSE ledger'[w][Len(ledger'[w])].after
       /\ wallets'[w].version = 1 + Len(ledger'[w]) - Opened(w)'
  <2>1. Opened(w) \in {0, 1}
    BY DEF Opened
  <2>2. wallets'[w].balance = ledger'[w][n + 1].after
    BY <1>4, <1>6, <1>7
  <2>3. wallets'[w].version = 1 + (n + 1) - Opened(w)
    BY <1>3, <1>7, <1>8, <2>1
  <2>. QED BY <1>3, <1>6, <1>9, <2>2, <2>3
<1>. QED BY <1>6, <1>10, <1>11 DEF WalletReconciles

\* Commit keeps the invariant: the wallet it moves reconciles by
\* CommitMovement, every other one by ReconcilesFrame.
LEMMA CommitStep ==
    ASSUME IndInv, NEW s \in Sessions, Commit(s)
    PROVE  IndInv'
<1>1. pc[s] = "commit"
  BY DEF Commit
<1>2. ASSUME NEW w \in Wallets, wallets'[w] # None
      PROVE  WalletReconciles(w)'
  <2>1. CASE w = WalletOf(s) /\ PlanMoves(s)
    BY <2>1, CommitMovement
  <2>2. CASE w # WalletOf(s) \/ ~PlanMoves(s)
    <3>1. wallets'[w] = wallets[w] /\ ledger'[w] = ledger[w]
      <4>1. CASE w # WalletOf(s)
        BY <4>1, CommitFrame
      <4>2. CASE w = WalletOf(s) /\ ~PlanMoves(s)
        <5>1. EntriesOf(s) = <<>> /\ ledger[w] \in Seq(LedgerEntry)
          BY <4>2 DEF EntriesOf, IndInv, TypeOK, TablesTypeOK
        <5>2. ledger'[w] = ledger[w] \o <<>> /\ wallets'[w] = snap[s]
          BY <4>2, <5>1, CommitFrame
        <5>3. wallets[w] = snap[s]
          BY <1>1, <4>2, CommitFacts
        <5>. QED BY <5>1, <5>2, <5>3, ConcatEmptySeq
      <4>. QED BY <2>2, <4>1, <4>2
    <3>2. WalletReconciles(w)
      BY <1>2, <3>1 DEF IndInv, LedgerReconciles
    <3>. QED BY <3>1, <3>2, CommitFrame, ReconcilesFrame DEF IndInv, TypeOK
  <2>. QED BY <2>1, <2>2
<1>3. LedgerReconciles'
  BY <1>2 DEF LedgerReconciles
<1>. QED BY <1>3, CommitTypes, CommitSessions, CommitRows DEF IndInv

-----------------------------------------------------------------------------
(* Opening a wallet.                                                       *)

\* The OPENING row of Open is a processed row of a natural amount.
LEMMA OpeningRowType ==
    ASSUME NEW w \in Wallets, NEW amount \in OpeningBalances
    PROVE  /\ amount \in Nat
           /\ OpeningRow(w, amount) \in Row
           /\ OpeningRow(w, amount).status = "PROCESSED"
           /\ OpeningRow(w, amount).payload.kind = "OPENING"
<1>1. amount \in Nat
  BY ConstantsAssumption
<1>2. OpeningRow(w, amount).payload \in Payloads
  BY DEF Payloads
<1>3. /\ OpeningRow(w, amount).status = "PROCESSED"
      /\ OpeningRow(w, amount).payload.kind = "OPENING"
  BY DEF OpeningRow
<1>4. "PROCESSED" \in Statuses /\ None \in Codes
  BY DEF Statuses, Codes
<1>5. ASSUME NEW p \in Payloads
      PROVE  [key |-> None, payload |-> p, status |-> "PROCESSED", code |-> None,
              balance |-> amount, ref |-> None, attempts |-> 0] \in Row
  BY <1>1, <1>4 DEF Row
<1>6. OpeningRow(w, amount) \in Row
  BY <1>2, <1>5 DEF OpeningRow
<1>. QED BY <1>1, <1>3, <1>6

\* Open keeps the invariant: the new wallet reconciles with its one entry, or
\* with none when it opens empty.
LEMMA OpenWalletStep ==
    ASSUME IndInv, NEW w \in Wallets, NEW amount \in OpeningBalances, OpenWallet(w, amount)
    PROVE  IndInv'
<1>. DEFINE opened == [balance |-> amount, version |-> 1]
<1>1. /\ wallets[w] = None /\ wallets' = [wallets EXCEPT ![w] = opened]
      /\ UNCHANGED <<inbox, walletLock, session, history>>
  BY DEF OpenWallet
<1>2. opened \in Snapshot /\ opened # None /\ opened.balance = amount /\ opened.version = 1
  BY OpeningRowType, NoneAssumption DEF Snapshot
<1>. HIDE DEF opened
<1>3. /\ wallets'[w] = opened
      /\ \A v \in Wallets \ {w} : wallets'[v] = wallets[v]
      /\ wallets' \in [Wallets -> Snapshot \cup {None}]
  BY <1>1, <1>2 DEF IndInv, TypeOK, TablesTypeOK
<1>4. SessionsTypeOK' /\ HistoryTypeOK'
  BY <1>1 DEF session, history, IndInv, TypeOK, SessionsTypeOK, HistoryTypeOK
<1>5. ASSUME \A id \in TxIds : rows[id] # None => rows'[id] = rows[id],
             \A t \in Sessions : (pc[t] = "commit" /\ ~IsWorker(t)) =>
                 rows'[plan[t].id] = rows[plan[t].id]
      PROVE  (\A t \in Sessions : SessionFits(t))' /\ PlansDistinct'
  <2>1. ASSUME NEW t \in Sessions
        PROVE  SessionFits(t)'
    <3>1. SessionFits(t)
      BY DEF IndInv
    <3>2. InTransaction(t) => wallets'[WalletOf(t)] = wallets[WalletOf(t)]
      BY <1>1, <1>3, InTransactionFacts DEF HoldsWallet
    <3>. QED BY <1>1, <1>5, <3>1, <3>2, Frame DEF session, IndInv
  <2>2. PlansDistinct'
    BY <1>1 DEF session, IndInv, PlansDistinct, IsWorker
  <2>. QED BY <2>1, <2>2
<1>6. CASE amount = 0 /\ UNCHANGED <<rows, ledger, outbox>>
  <2>1. TablesTypeOK'
    BY <1>1, <1>3, <1>6 DEF IndInv, TypeOK, TablesTypeOK
  <2>2. (\A t \in Sessions : SessionFits(t))' /\ PlansDistinct'
    BY <1>5, <1>6
  <2>3. ledger[w] = <<>>
    BY <1>1 DEF IndInv, LedgerRowsStored
  <2>4. PendingAreRequests' /\ LedgerRowsStored'
    BY <1>3, <1>6, <2>3 DEF IndInv, PendingAreRequests, LedgerRowsStored, AcceptedPayloads
  <2>5. ASSUME NEW v \in Wallets, wallets'[v] # None
        PROVE  WalletReconciles(v)'
    <3>1. CASE v = w
      <4>1. /\ ledger'[w] = <<>> /\ Len(ledger'[w]) = 0
            /\ wallets'[w].balance = 0 /\ wallets'[w].version = 1
        BY <1>2, <1>3, <1>6, <2>3
      <4>2. Opened(w)' = 0
        BY <4>1 DEF Opened
      <4>. QED BY <3>1, <4>1, <4>2 DEF WalletReconciles
    <3>2. CASE v # w
      BY <1>3, <1>6, <2>5, <3>2, ReconcilesFrame
         DEF IndInv, TypeOK, LedgerReconciles
    <3>. QED BY <3>1, <3>2
  <2>. QED BY <1>4, <2>1, <2>2, <2>4, <2>5 DEF IndInv, TypeOK, LedgerReconciles
<1>7. ASSUME NEW id \in TxIds, Fresh(id), amount > 0,
             rows' = [rows EXCEPT ![id] = OpeningRow(w, amount)],
             ledger' = [ledger EXCEPT ![w] = <<Entry(id, "CREDIT", amount, 0, amount)>>],
             outbox' = [outbox EXCEPT ![w] =
                           <<WagerEvent("PROCESSED", id), BalanceChanged(id, 1, amount)>>]
      PROVE  IndInv'
  <2>. DEFINE e == Entry(id, "CREDIT", amount, 0, amount)
              row == OpeningRow(w, amount)
              x == WagerEvent("PROCESSED", id)
              y == BalanceChanged(id, 1, amount)
  <2>1. /\ e \in LedgerEntry /\ e.tx = id /\ e.direction = "CREDIT"
        /\ e.amount = amount /\ e.before = 0 /\ e.after = amount
    BY OpeningRowType DEF Entry, LedgerEntry
  <2>2. x \in Event /\ y \in Event
    BY OpeningRowType DEF WagerEvent, BalanceChanged, Event
  <2>3. /\ amount \in Nat /\ row \in Row /\ row # None
        /\ row.status = "PROCESSED" /\ row.payload.kind = "OPENING"
    BY OpeningRowType, NoneAssumption
  <2>. HIDE DEF e, row, x, y
  <2>4. /\ rows' = [rows EXCEPT ![id] = row]
        /\ ledger' = [ledger EXCEPT ![w] = <<e>>]
        /\ outbox' = [outbox EXCEPT ![w] = <<x, y>>]
    BY <1>7 DEF e, row, x, y
  <2>5. <<e>> \in Seq(LedgerEntry) /\ <<x, y>> \in Seq(Event)
    BY <2>1, <2>2
  <2>6. /\ rows'[id] = row /\ rows[id] = None
        /\ \A j \in TxIds : j # id => rows'[j] = rows[j]
        /\ ledger'[w] = <<e>>
        /\ \A v \in Wallets : v # w => ledger'[v] = ledger[v]
    BY <1>7, <2>4 DEF Fresh, IndInv, TypeOK, TablesTypeOK
  <2>7. TablesTypeOK'
    BY <1>1, <1>3, <2>3, <2>4, <2>5 DEF IndInv, TypeOK, TablesTypeOK
  <2>8. (\A t \in Sessions : SessionFits(t))' /\ PlansDistinct'
    <3>1. ASSUME NEW t \in Sessions, pc[t] = "commit", ~IsWorker(t)
          PROVE  rows'[plan[t].id] = rows[plan[t].id]
      BY <1>7, <2>6, <3>1, CommitFacts DEF Fresh
    <3>. QED BY <1>5, <2>6, <3>1
  <2>9. PendingAreRequests'
    BY <2>3, <2>6 DEF IndInv, PendingAreRequests, AcceptedPayloads
  <2>10. \A j \in TxIds : rows[j] # None =>
             rows'[j] # None /\ rows'[j].payload = rows[j].payload
    BY <2>6
  <2>11. LedgerRowsStored'
    <3>1. ASSUME NEW v \in Wallets, NEW i \in 1..Len(ledger'[v])
          PROVE  rows'[ledger'[v][i].tx] # None
      <4>1. CASE v = w
        BY <2>1, <2>3, <2>6, <4>1
      <4>2. CASE v # w
        <5>1. ledger'[v] = ledger[v] /\ ledger[v] \in Seq(LedgerEntry)
          BY <2>6, <4>2 DEF IndInv, TypeOK, TablesTypeOK
        <5>2. ledger[v][i] \in LedgerEntry
          BY <5>1, ElementOfSeq
        <5>3. ledger[v][i].tx \in TxIds
          BY <5>2 DEF LedgerEntry
        <5>. QED BY <2>10, <5>1, <5>3 DEF IndInv, LedgerRowsStored
      <4>. QED BY <4>1, <4>2
    <3>. QED BY <1>2, <1>3, <2>6, <3>1 DEF IndInv, LedgerRowsStored
  <2>12. ASSUME NEW v \in Wallets, wallets'[v] # None
         PROVE  WalletReconciles(v)'
    <3>1. CASE v = w
      <4>1. /\ Len(ledger'[w]) = 1 /\ ledger'[w][1] = e
            /\ wallets'[w].balance = amount /\ wallets'[w].version = 1
        BY <1>2, <1>3, <2>6
      <4>2. Opened(w)' = 1
        BY <2>1, <2>3, <2>6, <4>1 DEF Opened
      <4>. QED BY <2>1, <2>3, <3>1, <4>1, <4>2 DEF WalletReconciles
    <3>2. CASE v # w
      BY <1>3, <2>6, <2>10, <2>12, <3>2, ReconcilesFrame
         DEF IndInv, TypeOK, LedgerReconciles
    <3>. QED BY <3>1, <3>2
  <2>. QED BY <1>4, <2>7, <2>8, <2>9, <2>11, <2>12 DEF IndInv, TypeOK, LedgerReconciles
<1>. QED BY <1>6, <1>7 DEF OpenWallet

-----------------------------------------------------------------------------
(* The theorems.                                                           *)

\* The empty database satisfies the invariant.
LEMMA InitIndInv == Init => IndInv
<1>. SUFFICES ASSUME Init PROVE IndInv
  OBVIOUS
<1>1. TablesTypeOK
  <2>1. <<>> \in Seq(LedgerEntry) /\ <<>> \in Seq(Event)
    BY EmptySeq
  <2>. QED BY <2>1 DEF Init, TablesTypeOK
<1>2. SessionsTypeOK
  BY DEF Init, SessionsTypeOK, Steps, Jobs, NoSnap, NoVerdict, NoPlan, Snapshot,
         Verdicts, Directions, Codes
<1>3. HistoryTypeOK
  BY DEF Init, HistoryTypeOK
<1>4. \A s \in Sessions : SessionFits(s)
  BY NoneAssumption DEF Init, SessionFits, JobFits, IsWorker, InTransaction, NoJob
<1>5. PlansDistinct /\ PendingAreRequests /\ LedgerRowsStored /\ LedgerReconciles
  BY DEF Init, PlansDistinct, PendingAreRequests, LedgerRowsStored, LedgerReconciles
<1>. QED BY <1>1, <1>2, <1>3, <1>4, <1>5 DEF IndInv, TypeOK

\* Every step of every session, and every Open, keeps the invariant.
LEMMA NextIndInv == IndInv /\ [Next]_vars => IndInv'
<1>. SUFFICES ASSUME IndInv, [Next]_vars PROVE IndInv'
  OBVIOUS
<1>1. CASE UNCHANGED vars
  BY <1>1 DEF vars, db, session, history, IndInv, TypeOK, TablesTypeOK, SessionsTypeOK,
         HistoryTypeOK, SessionFits, JobFits, HoldsWallet, PlanFits, PlanMoves, WalletOf,
         Payload, IsWorker, InTransaction, PlansDistinct, PendingAreRequests,
         AcceptedPayloads, LedgerRowsStored, LedgerReconciles, WalletReconciles, Opened
<1>2. CASE \E w \in Wallets, amount \in OpeningBalances : OpenWallet(w, amount)
  BY <1>2, OpenWalletStep
<1>3. ASSUME NEW s \in Sessions, Step(s)
      PROVE  IndInv'
  BY <1>3, SubmissionStep, InboxInsertStep, RollbackStep, FindForUpdateStep, LookupStep,
     ResolveNewStep, ResolvePendingStep, ExpirePendingStep, InsertNewStep,
     FindPendingForUpdateStep, CompletePendingStep, CommitStep DEF Step
<1>. QED BY <1>1, <1>2, <1>3 DEF Next

\* IndInv is an invariant of the service.
LEMMA Invariance == Spec => []IndInv
  BY InitIndInv, NextIndInv, PTL DEF Spec

\* Every table and every session register keeps its type, in every execution
\* of every number of sessions over every set of operations.
THEOREM TypeCorrect == Spec => []TypeOK
<1>1. IndInv => TypeOK
  BY DEF IndInv
<1>. QED BY <1>1, Invariance, PTL

\* The books always balance: no interleaving of requests, deliveries, resumes,
\* crashes and retries leaves a wallet whose balance or version is not the one
\* its ledger adds up to (the equation of Reconcile).
THEOREM BooksBalance == Spec => []LedgerReconciles
<1>1. IndInv => LedgerReconciles
  BY DEF IndInv
<1>. QED BY <1>1, Invariance, PTL

=============================================================================
