----------------------- MODULE OperationEffectProofs -----------------------
(***************************************************************************)
(* What an operation of ProcessOperation does, for any number of wallets,  *)
(* sessions, operations, messages and transactions: money moves exactly    *)
(* once, references and reversals are sound, a reversal happens once, a    *)
(* retried transaction is conclusive, and the outbox tells what happened.  *)
(*                                                                         *)
(* The argument adds a third inductive invariant, EffectInv, to IndInv and *)
(* HistoryInv.  A decision taken under the wallet lock names a reference   *)
(* of the same wallet, so whoever could overtake it (another reversal of   *)
(* the same reference) needs the lock it holds (VerdictFits).  From there  *)
(* the stored rows, the ledger entries and the events inherit what was     *)
(* decided.  Definitions that must be read in two states take the table    *)
(* of transactions as a parameter.                                         *)
(***************************************************************************)
EXTENDS OperationHistoryProofs, FiniteSetTheorems

\* Transaction r of the table is the one p refers to, and p may refer to it.
FitsReference(table, p, r) ==
    /\ r \in TxIds
    /\ table[r] # None
    /\ table[r].status = "PROCESSED"
    /\ table[r].payload.ext = p.ref
    /\ ValidateReference(p, table[r]) = None

\* The direction in which an operation with payload p and reference r moves.
DirectionOf(table, p, r) ==
    IF p.kind = "OPENING" THEN "CREDIT"
    ELSE MovementDecision(p.kind, IF p.ref = None THEN None ELSE table[r]).direction

\* The decision to process is the one the rules take on the locked state.
Decided(s) ==
    LET p == Payload(s)
        v == verdict[s]
    IN  /\ v.direction = DirectionOf(rows, p, v.ref)
        /\ p.ref # None => FitsReference(rows, p, v.ref)
        /\ IsReversal(p.kind) => ~ExistsSuccessfulReversal(v.ref)

\* A decision is taken once its inputs were read, and a row settled as
\* PROCESSED carries the reference that was decided on.
VerdictFits(s) ==
    /\ pc[s] \in {"idle", "inbox", "lock", "key", "ext", "row"} => verdict[s] = NoVerdict
    /\ pc[s] \in {"insert", "complete"} => verdict[s].action \in {"PROCESS", "REJECT", "WAIT"}
    /\ pc[s] = "complete" => verdict[s].action # "WAIT"
    /\ (pc[s] \in {"insert", "complete", "commit"} /\ verdict[s].action = "PROCESS") =>
          Decided(s)
    /\ (pc[s] = "commit" /\ plan[s].row.status = "PROCESSED") =>
          verdict[s].action = "PROCESS" /\ plan[s].row.ref = verdict[s].ref

\* A row the collided transaction must find when it starts again.
Collided(s, id) ==
    /\ rows[id] # None
    /\ rows[id].payload.provider = job[s].op.payload.provider
    /\ rows[id].key = job[s].op.key \/ rows[id].payload.ext = job[s].op.payload.ext
    /\ pc[s] = "ext" => rows[id].key # job[s].op.key

\* The second transaction of processWithRetry has not passed the lookups, and
\* the row that stopped the first is there to be found.
RetryFits(s) ==
    tries[s] = 1 => /\ pc[s] \in {"inbox", "lock", "key", "ext"}
                    /\ ~IsWorker(s)
                    /\ \E id \in TxIds : Collided(s, id)

\* Every PROCESSED row with a reference resolved it to one that fits.
StoredSound ==
    \A id \in TxIds :
        (rows[id] # None /\ rows[id].status = "PROCESSED" /\ rows[id].payload.ref # None) =>
            FitsReference(rows, rows[id].payload, rows[id].ref)

DecisionInv ==
    /\ \A s \in Sessions : VerdictFits(s) /\ RetryFits(s)
    /\ StoredSound

-----------------------------------------------------------------------------
(* What the rules decide.                                                  *)

\* Only an operation with a reference is a reversal (REFERENCE_REQUIRED).
LEMMA ReversalsHaveReferences ==
    ASSUME NEW p \in AcceptedPayloads, IsReversal(p.kind)
    PROVE  p.ref # None
<1>1. Evaluate(p, None, FALSE).action # "INVALID"
  BY AcceptedStaysAccepted DEF AcceptedPayloads
<1>. QED BY <1>1 DEF Evaluate, Invalid, Decision, IsReversal, KindRules, KindRule

\* An operation moves money unless it is a LOSS.
LEMMA OnlyLossIsStill ==
    ASSUME NEW kind \in ExternalKinds, NEW reference
    PROVE  MovementDecision(kind, reference).direction = "NONE" <=> kind = "LOSS"
  BY DEF MovementDecision, Decision, KindRules, KindRule, ExternalKinds

\* What Evaluate has checked when it decides to process.
LEMMA EvaluateProcesses ==
    ASSUME NEW p \in AcceptedPayloads, NEW reference \in Row, NEW alreadyReversed \in BOOLEAN,
           Evaluate(p, reference, alreadyReversed).action = "PROCESS", p.ref # None
    PROVE  /\ reference.status = "PROCESSED"
           /\ ValidateReference(p, reference) = None
           /\ IsReversal(p.kind) => ~alreadyReversed
           /\ Evaluate(p, reference, alreadyReversed) = MovementDecision(p.kind, reference)
<1>1. p.kind \in ExternalKinds
  BY PreparedIsWellFormed DEF AcceptedPayloads
<1>2. IsReversal(p.kind) => KindRules[p.kind].reversal
  BY <1>1 DEF IsReversal, KindRules, KindRule, ExternalKinds
<1>3. reference # None /\ reference.status \in Statuses
  BY NoneAssumption DEF Row
<1>. QED
  BY <1>2, <1>3 DEF Evaluate, Invalid, Rejection, WaitForReference, Decision, MustWait, Statuses

\* Without a reference Prepare's decision is final; with one it is to wait.
LEMMA PreparedDecision ==
    ASSUME NEW p \in AcceptedPayloads
    PROVE  /\ p.ref = None => Evaluate(p, None, FALSE) = MovementDecision(p.kind, None)
           /\ p.ref # None => Evaluate(p, None, FALSE) = WaitForReference
<1>1. Evaluate(p, None, FALSE).action # "INVALID"
  BY AcceptedStaysAccepted DEF AcceptedPayloads
<1>. QED BY <1>1 DEF Evaluate, Invalid, Decision, MustWait

\* A resolved reference is a stored row of its provider and external id.
LEMMA ReferencesAreStored ==
    ASSUME TablesTypeOK, NEW p, NEW r \in References(p)
    PROVE  /\ r \in TxIds /\ rows[r] # None /\ rows[r] \in Row
           /\ rows[r].payload.ext = p.ref
           /\ rows[r].payload.provider = p.provider
  BY DEF References, FindByExternalTransactionID, TablesTypeOK

\* resolveDecision processes only on a reference that fits, in the direction
\* the rules give, and a reversal only if the reference has none yet.
LEMMA ResolvedFits ==
    ASSUME TablesTypeOK, NEW p \in AcceptedPayloads
    PROVE  LET v == ResolvedVerdict(p) IN
           /\ v.action \in {"PROCESS", "REJECT", "WAIT"}
           /\ v.action = "PROCESS" =>
                 /\ v.direction = DirectionOf(rows, p, v.ref)
                 /\ p.ref # None => FitsReference(rows, p, v.ref)
                 /\ IsReversal(p.kind) => ~ExistsSuccessfulReversal(v.ref)
<1>. DEFINE v == ResolvedVerdict(p)
<1>0. p.kind \in ExternalKinds /\ p.kind # "OPENING" /\ p.kind \in Kinds
  BY PreparedIsWellFormed DEF AcceptedPayloads, ExternalKinds, Kinds
<1>1. CASE References(p) = {}
  BY <1>1 DEF ResolvedVerdict, Verdict, WaitForReference, Decision
<1>2. CASE References(p) # {}
  <2>. DEFINE ref == CHOOSE id \in References(p) : TRUE
              gone == ExistsSuccessfulReversal(ref)
              d == Evaluate(p, rows[ref], gone)
  <2>1. v = Verdict(d, IF d.action = "WAIT" THEN None ELSE ref)
    BY <1>2 DEF ResolvedVerdict
  <2>2. ref \in References(p)
    BY <1>2
  <2>3. gone \in BOOLEAN
    BY DEF ExistsSuccessfulReversal
  <2>4. d.action \in {"PROCESS", "REJECT", "WAIT"}
    BY <1>0, AcceptedStaysAccepted, EvaluateType DEF AcceptedPayloads
  <2>5. /\ v.action = d.action /\ v.direction = d.direction
        /\ d.action = "PROCESS" => v.ref = ref
    BY <2>1 DEF Verdict
  <2>6. /\ ref \in TxIds /\ rows[ref] # None /\ rows[ref] \in Row
        /\ rows[ref].payload.ext = p.ref
    BY <2>2, ReferencesAreStored
  <2>7. ASSUME d.action = "PROCESS", p.ref # None
        PROVE  /\ d.direction = DirectionOf(rows, p, ref)
               /\ FitsReference(rows, p, ref)
               /\ IsReversal(p.kind) => ~gone
    <3>. HIDE DEF gone, ref
    <3>1. /\ rows[ref].status = "PROCESSED" /\ ValidateReference(p, rows[ref]) = None
          /\ IsReversal(p.kind) => ~gone
          /\ d = MovementDecision(p.kind, rows[ref])
      BY <2>3, <2>6, <2>7, EvaluateProcesses
    <3>. QED BY <1>0, <2>6, <2>7, <3>1 DEF FitsReference, DirectionOf
  <2>8. ASSUME d.action = "PROCESS", p.ref = None
        PROVE  d.direction = DirectionOf(rows, p, ref) /\ ~IsReversal(p.kind)
    <3>1. ~IsReversal(p.kind)
      BY <2>8, ReversalsHaveReferences
    <3>2. d = MovementDecision(p.kind, None)
      BY <2>8 DEF Evaluate, Invalid, Decision
    <3>. QED BY <1>0, <2>8, <3>1, <3>2 DEF DirectionOf
  <2>. HIDE DEF d, ref, gone
  <2>. QED BY <2>4, <2>5, <2>7, <2>8 DEF gone
<1>. QED BY <1>1, <1>2

\* A row is settled as PROCESSED only on the decision to process it, with the
\* reference of that decision.
LEMMA SettledAsDecided ==
    ASSUME NEW row \in Row, NEW v \in Verdicts, NEW b \in Nat,
           v.action \in {"PROCESS", "REJECT", "WAIT"}, v.action # "WAIT",
           Settle(row, v, b).status = "PROCESSED"
    PROVE  v.action = "PROCESS" /\ Settle(row, v, b).ref = v.ref
  BY DEF Settle, Row

-----------------------------------------------------------------------------
(* What was decided stays so until the commit.                             *)

\* A reference that fits belongs to the wallet of the operation.
LEMMA FitsSameWallet ==
    ASSUME NEW table, NEW p, NEW r, FitsReference(table, p, r)
    PROVE  table[r].payload.wallet = p.wallet
  BY AbsenceAssumption DEF FitsReference, ValidateReference

\* A reference that fits is PROCESSED, hence never changes again.
LEMMA FitsKept ==
    ASSUME IndInv, RowsInv, Next, NEW p, NEW r, FitsReference(rows, p, r)
    PROVE  FitsReference(rows', p, r) /\ rows'[r] = rows[r]
<1>1. r \in TxIds /\ rows[r] # None /\ Terminal(rows[r].status)
  BY DEF FitsReference, Terminal
<1>2. rows'[r] = rows[r]
  BY <1>1, RowsKept
<1>. QED BY <1>2 DEF FitsReference

\* The direction depends on the reference alone.
LEMMA DirectionKept ==
    ASSUME NEW p, NEW r, p.ref # None => rows'[r] = rows[r]
    PROVE  DirectionOf(rows', p, r) = DirectionOf(rows, p, r)
  BY DEF DirectionOf

\* What a committed row was settled as is what was decided under the lock.
LEMMA CommittedAsDecided ==
    ASSUME IndInv, NEW s \in Sessions, VerdictFits(s), pc[s] = "commit",
           plan[s].row.status = "PROCESSED"
    PROVE  /\ verdict[s].action = "PROCESS" /\ plan[s].row.ref = verdict[s].ref
           /\ Decided(s)
  BY DEF VerdictFits

\* Rows change only by a Commit or, for a new OPENING row, by Open.
LEMMA RowsChange ==
    ASSUME IndInv, Next, NEW id \in TxIds, rows'[id] # rows[id]
    PROVE  \/ \E s \in Sessions : /\ Commit(s) /\ pc[s] = "commit"
                                  /\ id = plan[s].id /\ rows'[id] = plan[s].row
           \/ \E w \in Wallets, amount \in OpeningBalances :
                 OpenWallet(w, amount) /\ rows[id] = None /\ rows'[id] = OpeningRow(w, amount)
<1>1. ASSUME NEW s \in Sessions, Commit(s)
      PROVE  pc[s] = "commit" /\ id = plan[s].id /\ rows'[id] = plan[s].row
  BY <1>1, CommitFrame DEF Commit
<1>2. ASSUME NEW s \in Sessions, Step(s), ~Commit(s)
      PROVE  FALSE
  BY <1>2, QuietStep
<1>3. ASSUME NEW w \in Wallets, NEW amount \in OpeningBalances, OpenWallet(w, amount)
      PROVE  rows[id] = None /\ rows'[id] = OpeningRow(w, amount)
  BY <1>3, OpenFrame
<1>. QED BY <1>1, <1>2, <1>3 DEF Next

\* A reference gets a successful reversal only from a session that decided on
\* it, holding the lock of the reference's wallet.
LEMMA ReversalNeedsTheWallet ==
    ASSUME IndInv, RowsInv, DecisionInv, Next, NEW r,
           ~ExistsSuccessfulReversal(r), ExistsSuccessfulReversal(r)'
    PROVE  \E s \in Sessions : /\ Commit(s) /\ pc[s] = "commit"
                               /\ FitsReference(rows, Payload(s), r)
<1>1. PICK id \in TxIds : rows'[id] # None /\ SuccessfulReversalOf(rows'[id], r)
  BY DEF ExistsSuccessfulReversal
<1>2. rows'[id] # rows[id]
  BY <1>1 DEF ExistsSuccessfulReversal
<1>3. ASSUME NEW w, NEW amount, rows'[id] = OpeningRow(w, amount)
      PROVE  FALSE
  BY <1>1, <1>3 DEF OpeningRow, SuccessfulReversalOf, IsReversal
<1>4. PICK s \in Sessions : /\ Commit(s) /\ pc[s] = "commit" /\ rows'[id] = plan[s].row
  BY <1>2, <1>3, RowsChange
<1>5. /\ verdict[s].ref = r /\ Decided(s)
      /\ plan[s].row.payload = Payload(s) /\ Payload(s) \in AcceptedPayloads
      /\ IsReversal(Payload(s).kind)
  BY <1>1, <1>4, CommittedAsDecided, CommitFacts DEF SuccessfulReversalOf, DecisionInv
<1>6. Payload(s).ref # None
  BY <1>5, ReversalsHaveReferences
<1>. QED BY <1>4, <1>5, <1>6 DEF Decided

\* A session that takes no step keeps its decision: nobody overtakes it.
LEMMA DecisionStands ==
    ASSUME IndInv, RowsInv, DecisionInv, Next, NEW t \in Sessions,
           pc'[t] = pc[t], job'[t] = job[t], verdict'[t] = verdict[t],
           plan'[t] = plan[t], pc[t] # "idle"
    PROVE  VerdictFits(t)'
<1>1. IsWorker(t)' <=> IsWorker(t)
  BY DEF IsWorker
<1>2. Payload(t)' = Payload(t)
  <2>1. IsWorker(t) => job[t].id \in TxIds /\ rows[job[t].id] # None
    <3>1. job[t] \in Jobs /\ job[t] # NoJob /\ JobFits(t)
      BY DEF IndInv, TypeOK, SessionsTypeOK, SessionFits, JobFits
    <3>2. job[t].via \in {"RESUME", "FAIL", "RETRY"} => job[t].id \in TxIds
      BY <3>1, JobCases
    <3>. QED BY <3>1, <3>2 DEF JobFits, IsWorker
  <2>. QED BY <1>1, <2>1, RowsKept DEF Payload
<1>3. VerdictFits(t)
  BY DEF DecisionInv
<1>4. ASSUME pc[t] \in {"insert", "complete", "commit"}, verdict[t].action = "PROCESS"
      PROVE  Decided(t)'
  <2>. DEFINE p == Payload(t)
  <2>0. PICK r : r = verdict[t].ref /\ r = verdict'[t].ref
    OBVIOUS
  <2>1. Decided(t) /\ InTransaction(t) /\ p \in AcceptedPayloads
    BY <1>3, <1>4, InTransactionFacts DEF VerdictFits, InTransaction
  <2>2. p.ref # None => FitsReference(rows', p, r) /\ rows'[r] = rows[r]
    BY <2>0, <2>1, FitsKept DEF Decided
  <2>3. DirectionOf(rows', p, r) = DirectionOf(rows, p, r)
    BY <2>2, DirectionKept
  <2>4. ASSUME IsReversal(p.kind), ExistsSuccessfulReversal(r)'
        PROVE  FALSE
    <3>1. FitsReference(rows, p, r) /\ ~ExistsSuccessfulReversal(r)
      BY <2>0, <2>1, <2>4, ReversalsHaveReferences DEF Decided
    <3>2. PICK s \in Sessions : /\ Commit(s) /\ pc[s] = "commit"
                                /\ FitsReference(rows, Payload(s), r)
      BY <2>4, <3>1, ReversalNeedsTheWallet
    <3>3. s # t
      <4>1. pc'[s] = "idle"
        BY <3>2 DEF Commit, Finish, EndTx, IndInv, TypeOK, SessionsTypeOK
      <4>. QED BY <4>1
    <3>4. WalletOf(s) = WalletOf(t)
      BY <3>1, <3>2, FitsSameWallet DEF WalletOf
    <3>. QED BY <2>1, <3>2, <3>3, <3>4, WalletIsExclusive, CommitFacts
  <2>. HIDE DEF p
  <2>5. Payload(t)' = p
    BY <1>2 DEF p
  <2>6. verdict'[t].direction = DirectionOf(rows', p, r)
    BY <2>0, <2>1, <2>3 DEF Decided, p
  <2>. QED BY <2>0, <2>2, <2>4, <2>5, <2>6 DEF Decided, ExistsSuccessfulReversal
<1>. QED BY <1>3, <1>4 DEF VerdictFits

\* A decision to process outlives a statement that reads nothing new.
LEMMA DecisionCarried ==
    ASSUME NEW s \in Sessions, Decided(s), UNCHANGED rows,
           job'[s] = job[s], verdict'[s] = verdict[s]
    PROVE  Decided(s)'
<1>1. Payload(s)' = Payload(s)
  BY DEF Payload, IsWorker
<1>2. PICK p, r : p = Payload(s) /\ p = Payload(s)' /\ r = verdict[s].ref /\ r = verdict'[s].ref
  BY <1>1
<1>3. rows' = rows
  OBVIOUS
<1>4. /\ verdict'[s].direction = DirectionOf(rows, p, r)
      /\ p.ref # None => FitsReference(rows, p, r)
      /\ IsReversal(p.kind) => ~ExistsSuccessfulReversal(r)
  BY <1>2 DEF Decided
<1>5. ExistsSuccessfulReversal(r)' <=> ExistsSuccessfulReversal(r)
  BY <1>3 DEF ExistsSuccessfulReversal
<1>. QED BY <1>2, <1>3, <1>4, <1>5 DEF Decided, ExistsSuccessfulReversal

\* resolveDecision's verdict is a sound decision whenever it is to process.
LEMMA ResolvedIsDecided ==
    ASSUME IndInv, NEW s \in Sessions, InTransaction(s), UNCHANGED rows, job'[s] = job[s],
           verdict'[s] = ResolvedVerdict(Payload(s)), verdict'[s].action = "PROCESS"
    PROVE  Decided(s)'
<1>1. Payload(s)' = Payload(s) /\ rows' = rows
  BY DEF Payload, IsWorker
<1>2. PICK p, r : p = Payload(s) /\ p = Payload(s)' /\ r = verdict'[s].ref
  BY <1>1
<1>3. /\ verdict'[s].direction = DirectionOf(rows, p, r)
      /\ p.ref # None => FitsReference(rows, p, r)
      /\ IsReversal(p.kind) => ~ExistsSuccessfulReversal(r)
  BY <1>2, ResolvedFits, InTransactionFacts DEF IndInv, TypeOK
<1>4. ExistsSuccessfulReversal(r)' <=> ExistsSuccessfulReversal(r)
  BY <1>1 DEF ExistsSuccessfulReversal
<1>. QED BY <1>1, <1>2, <1>3, <1>4 DEF Decided, ExistsSuccessfulReversal

\* The row that a step makes the session's plan carries the decision.
LEMMA PlannedVerdict ==
    ASSUME IndInv, RowsInv, NEW s \in Sessions, VerdictFits(s), UNCHANGED rows, Planned(s)
    PROVE  VerdictFits(s)'
<1>1. PICK id \in TxIds, row \in Row :
         /\ plan'[s] = [id |-> id, row |-> row]
         /\ Inserted(s, id, row) \/ Completed(s, id, row) \/ PutOff(s, id, row)
  BY DEF Planned
<1>2. job'[s] = job[s] /\ pc'[s] = "commit" /\ plan'[s].row = row
  BY <1>1 DEF Planned
<1>3. SUFFICES /\ verdict'[s].action = "PROCESS" => Decided(s)'
               /\ row.status = "PROCESSED" =>
                     verdict'[s].action = "PROCESS" /\ row.ref = verdict'[s].ref
  BY <1>2 DEF VerdictFits
<1>4. InTransaction(s)
  BY <1>1 DEF Inserted, Completed, PutOff, InTransaction
<1>5. /\ verdict[s] \in Verdicts /\ snap[s].balance \in Nat /\ NoVerdict.action # "PROCESS"
      /\ IsWorker(s) => job[s].id \in TxIds /\ rows[job[s].id] \in Row
  BY <1>4, InTransactionFacts, NoneAssumption DEF Snapshot, NoVerdict
<1>6. CASE Inserted(s, id, row) \/ Completed(s, id, row)
  <2>1. /\ verdict'[s] = verdict[s] /\ pc[s] \in {"insert", "complete"}
        /\ verdict[s].action \in {"PROCESS", "REJECT", "WAIT"}
    BY <1>6 DEF Inserted, Completed, VerdictFits
  <2>2. verdict[s].action = "PROCESS" => Decided(s)'
    BY <1>2, <2>1, DecisionCarried DEF VerdictFits
  <2>3. row.status = "PROCESSED" => verdict[s].action = "PROCESS" /\ row.ref = verdict[s].ref
    <3>1. CASE Inserted(s, id, row)
      <4>. DEFINE new == PendingRow(job[s].op)
      <4>1. job[s].op \in Accepted /\ row = NewRow(s)
        BY <1>4, <3>1, InTransactionFacts DEF Inserted
      <4>2. new \in Row /\ new.status # "PROCESSED"
        BY <4>1 DEF PendingRow, Row, Payloads, Statuses, Codes
      <4>. HIDE DEF new
      <4>. QED BY <1>5, <2>1, <4>1, <4>2, SettledAsDecided DEF NewRow, new
    <3>2. CASE Completed(s, id, row)
      BY <1>5, <2>1, <3>2, SettledAsDecided DEF Completed, VerdictFits
    <3>. QED BY <1>6, <3>1, <3>2
  <2>. QED BY <2>1, <2>2, <2>3
<1>7. CASE PutOff(s, id, row)
  <2>1. rows[id] \in Row /\ rows[id].status = "PENDING_REFERENCE"
    BY <1>5, <1>7 DEF PutOff, RowsInv, HoldsPendingRow
  <2>2. row.status # "PROCESSED"
    BY <1>7, <2>1 DEF PutOff, Rescheduled, FailedRow, Row
  <2>3. verdict'[s].action # "PROCESS"
    BY <1>5, <1>7 DEF PutOff, VerdictFits
  <2>. QED BY <2>2, <2>3
<1>. QED BY <1>1, <1>6, <1>7

\* Every statement but COMMIT leaves the session with a sound decision.
LEMMA QuietVerdict ==
    ASSUME IndInv, RowsInv, NEW s \in Sessions, VerdictFits(s), Step(s), ~Commit(s)
    PROVE  VerdictFits(s)'
<1>. USE DEF IndInv, TypeOK, SessionsTypeOK
<1>0. UNCHANGED rows
  BY QuietStep
<1>1. ASSUME pc'[s] \in {"idle", "inbox", "lock", "key", "ext", "row"},
             verdict'[s] = NoVerdict
      PROVE  VerdictFits(s)'
  BY <1>1 DEF VerdictFits
<1>2. CASE \E next \in {"idle", "inbox", "lock"} : \E j, n : EndTx(s, next, j, n)
  BY <1>1, <1>2 DEF EndTx
<1>3. CASE \/ \E op \in HttpOps : Process(s, op)
           \/ \E d \in Deliveries : Handle(s, d)
           \/ \E id \in TxIds : ResumePending(s, id)
  BY <1>1, <1>3 DEF Process, Handle, ResumePending, Begin, VerdictFits
<1>4. CASE FindForUpdate(s)
  BY <1>1, <1>4 DEF FindForUpdate, VerdictFits
<1>5. CASE InboxInsert(s)
  BY <1>1, <1>2, <1>5 DEF InboxInsert, Goto, Finish, VerdictFits
<1>6. CASE LookupByKey(s)
  BY <1>1, <1>2, <1>6 DEF LookupByKey, Goto, Finish, VerdictFits
<1>7. CASE LookupByExternal(s)
  <2>1. CASE Finish(s)
    BY <1>2, <2>1 DEF Finish
  <2>2. CASE /\ Goto(s, IF job[s].op.payload.ref = None THEN "insert" ELSE "resolve")
             /\ verdict' = [verdict EXCEPT ![s] =
                               Verdict(Evaluate(job[s].op.payload, None, FALSE), None)]
    <3>1. InTransaction(s) /\ ~IsWorker(s)
      BY <1>7 DEF LookupByExternal, InTransaction, SessionFits, JobFits
    <3>2. PICK p : p = job[s].op.payload
      OBVIOUS
    <3>3. p \in AcceptedPayloads /\ p.kind \in ExternalKinds /\ p.kind # "OPENING"
      BY <3>1, <3>2, InTransactionFacts DEF Payload, ExternalKinds
    <3>4. CASE p.ref # None
      BY <2>2, <3>2, <3>4 DEF Goto, VerdictFits
    <3>5. CASE p.ref = None
      <4>1. /\ pc'[s] = "insert" /\ job'[s] = job[s]
            /\ verdict'[s] = Verdict(MovementDecision(p.kind, None), None)
        BY <2>2, <3>2, <3>3, <3>5, PreparedDecision DEF Goto
      <4>2. Payload(s)' = p
        BY <3>1, <3>2, <4>1 DEF Payload, IsWorker
      <4>3. /\ verdict'[s].action = "PROCESS"
            /\ verdict'[s].direction = MovementDecision(p.kind, None).direction
        BY <4>1, <3>3, MovementDecisionType DEF Verdict
      <4>4. ~IsReversal(p.kind)
        BY <3>3, <3>5, ReversalsHaveReferences
      <4>5. Decided(s)'
        BY <3>3, <3>5, <4>2, <4>3, <4>4 DEF Decided, DirectionOf
      <4>. QED BY <4>1, <4>3, <4>5 DEF VerdictFits
    <3>. QED BY <3>4, <3>5
  <2>. QED BY <1>7, <2>1, <2>2 DEF LookupByExternal
<1>8. CASE ResolveNew(s)
  <2>1. /\ InTransaction(s) /\ job'[s] = job[s] /\ pc'[s] = "insert"
        /\ verdict'[s] = ResolvedVerdict(Payload(s))
    BY <1>8 DEF ResolveNew, Goto, InTransaction
  <2>2. verdict'[s].action \in {"PROCESS", "REJECT", "WAIT"}
    BY <2>1, ResolvedFits, InTransactionFacts
  <2>3. verdict'[s].action = "PROCESS" => Decided(s)'
    BY <1>0, <2>1, ResolvedIsDecided
  <2>. QED BY <2>1, <2>2, <2>3 DEF VerdictFits
<1>9. CASE ResolvePending(s)
  <2>1. /\ InTransaction(s) /\ job'[s] = job[s]
        /\ verdict'[s] = ResolvedVerdict(Payload(s))
    BY <1>9 DEF ResolvePending, Goto, Plan, InTransaction
  <2>2. verdict'[s].action \in {"PROCESS", "REJECT", "WAIT"}
    BY <2>1, ResolvedFits, InTransactionFacts
  <2>3. CASE Goto(s, "complete") /\ verdict'[s].action # "WAIT"
    <3>1. pc'[s] = "complete"
      BY <2>3 DEF Goto
    <3>2. verdict'[s].action = "PROCESS" => Decided(s)'
      BY <1>0, <2>1, ResolvedIsDecided
    <3>. QED BY <2>2, <2>3, <3>1, <3>2 DEF VerdictFits
  <2>4. CASE Goto(s, "expire")
    BY <2>4 DEF Goto, VerdictFits
  <2>5. CASE pc'[s] = "commit"
    BY <1>0, <2>5, StepShape, PlannedVerdict DEF Left, Continued
  <2>. QED BY <1>9, <2>1, <2>3, <2>4, <2>5 DEF ResolvePending, Plan, Goto
<1>10. CASE ExpirePending(s)
  <2>1. pc'[s] = "complete" /\ verdict'[s].action = "REJECT"
    BY <1>10 DEF ExpirePending, Goto, Verdict, Rejection, Decision
  <2>. QED BY <2>1 DEF VerdictFits
<1>11. CASE InsertNew(s) \/ CompletePending(s)
  <2>1. pc'[s] = "commit"
    BY <1>11 DEF InsertNew, CompletePending, Plan, Goto
  <2>. QED BY <1>0, <2>1, StepShape, PlannedVerdict DEF Left, Continued
<1>12. CASE FindPendingForUpdate(s)
  <2>1. CASE Finish(s)
    BY <1>2, <2>1 DEF Finish
  <2>2. CASE Goto(s, "resolve")
    BY <2>2 DEF Goto, VerdictFits
  <2>3. CASE pc'[s] = "commit"
    BY <1>0, <2>3, StepShape, PlannedVerdict DEF Left, Continued
  <2>. QED BY <1>12, <2>1, <2>2, <2>3 DEF FindPendingForUpdate, Plan, Goto
<1>13. CASE RefuseWallet(s) \/ Abort(s) \/ TransientFailure(s) \/ PermanentFailure(s)
            \/ RetryInNewTransaction(s)
  BY <1>2, <1>13 DEF RefuseWallet, Abort, TransientFailure, PermanentFailure,
        RetryInNewTransaction, Finish
<1>. QED BY <1>3, <1>4, <1>5, <1>6, <1>7, <1>8, <1>9, <1>10, <1>11, <1>12, <1>13 DEF Step

\* A collision is with a row of the same key or the same external id: the
\* third index cannot be hit, since a reversal that was overtaken is impossible.
LEMMA CollisionIsFound ==
    ASSUME IndInv, NEW s \in Sessions, VerdictFits(s), RetryInNewTransaction(s)
    PROVE  \E id \in TxIds :
              /\ rows[id] # None
              /\ rows[id].payload.provider = job[s].op.payload.provider
              /\ rows[id].key = job[s].op.key \/ rows[id].payload.ext = job[s].op.payload.ext
<1>1. pc[s] = "insert" /\ InTransaction(s) /\ ~IsWorker(s)
  BY DEF RetryInNewTransaction, InTransaction, IndInv, SessionFits, JobFits
<1>2. PICK row : row = NewRow(s)
  OBVIOUS
<1>3. PICK id \in TxIds : rows[id] # None /\ UniqueConflict(row, rows[id])
  BY <1>2 DEF RetryInNewTransaction
<1>4. row.payload = Payload(s) /\ row.payload = job[s].op.payload /\ row.key = job[s].op.key
  BY <1>1, <1>2, NewRowFacts DEF Payload
<1>5. ASSUME SuccessfulReversalOf(row, row.ref), SuccessfulReversalOf(rows[id], row.ref)
      PROVE  FALSE
  <2>. DEFINE new == PendingRow(job[s].op)
  <2>1. /\ job[s].op \in Accepted /\ verdict[s] \in Verdicts /\ snap[s].balance \in Nat
        /\ verdict[s].action \in {"PROCESS", "REJECT", "WAIT"}
    BY <1>1, InTransactionFacts DEF Snapshot, VerdictFits
  <2>2. new \in Row /\ new.status # "PROCESSED"
    BY <2>1 DEF PendingRow, Row, Payloads, Statuses, Codes
  <2>. HIDE DEF new
  <2>3. verdict[s].action = "PROCESS" /\ row.ref = verdict[s].ref
    BY <1>2, <1>5, <2>1, <2>2, SettledAsDecided DEF NewRow, SuccessfulReversalOf, new
  <2>4. ~ExistsSuccessfulReversal(row.ref)
    BY <1>1, <1>4, <1>5, <2>3 DEF VerdictFits, Decided, SuccessfulReversalOf
  <2>. QED BY <1>3, <1>5, <2>4 DEF ExistsSuccessfulReversal
<1>. QED BY <1>3, <1>4, <1>5 DEF UniqueConflict

\* The row that stopped the first transaction is still there for the second.
LEMMA CollidedStays ==
    ASSUME IndInv, RowsInv, Next, NEW t \in Sessions, NEW id \in TxIds, Collided(t, id),
           job'[t] = job[t], pc'[t] = "ext" => pc[t] = "ext"
    PROVE  Collided(t, id)'
<1>1. /\ rows'[id] # None /\ rows'[id].key = rows[id].key
      /\ rows'[id].payload = rows[id].payload
  BY RowsKept DEF Collided
<1>. QED BY <1>1 DEF Collided

\* The retried transaction never gets past the lookups.
LEMMA QuietRetry ==
    ASSUME IndInv, RowsInv, NEW s \in Sessions, VerdictFits(s), RetryFits(s),
           Step(s), ~Commit(s)
    PROVE  RetryFits(s)'
<1>. USE DEF IndInv, TypeOK, SessionsTypeOK
<1>1. UNCHANGED rows /\ Next
  BY QuietStep DEF Next
<1>2. ASSUME tries'[s] = tries[s], job'[s] = job[s], pc'[s] \in {"lock", "key"},
             pc[s] \notin {"idle", "inbox"} \/ pc'[s] = "lock"
      PROVE  RetryFits(s)'
  <2>1. SUFFICES ASSUME tries[s] = 1
                 PROVE  ~IsWorker(s)' /\ \E id \in TxIds : Collided(s, id)'
    BY <1>2 DEF RetryFits
  <2>2. PICK id \in TxIds : Collided(s, id)
    BY <2>1 DEF RetryFits
  <2>3. Collided(s, id)'
    BY <1>1, <1>2, <2>2, CollidedStays
  <2>. QED BY <1>2, <2>1, <2>3 DEF RetryFits, IsWorker
<1>3. ASSUME tries'[s] = 0
      PROVE  RetryFits(s)'
  BY <1>3 DEF RetryFits
<1>4. CASE \E next, j : EndTx(s, next, j, 0)
  BY <1>3, <1>4 DEF EndTx
<1>5. CASE \/ \E op \in HttpOps : Process(s, op)
           \/ \E d \in Deliveries : Handle(s, d)
           \/ \E id \in TxIds : ResumePending(s, id)
  <2>1. pc[s] = "idle" /\ tries'[s] = tries[s]
    BY <1>5 DEF Process, Handle, ResumePending, Begin
  <2>2. tries[s] = 0
    BY <2>1 DEF RetryFits
  <2>. QED BY <1>3, <2>1, <2>2
<1>6. CASE InboxInsert(s)
  BY <1>2, <1>4, <1>6 DEF InboxInsert, Goto, Finish
<1>7. CASE FindForUpdate(s)
  <2>1. /\ pc[s] = "lock" /\ tries'[s] = tries[s] /\ job'[s] = job[s]
        /\ pc'[s] = IF IsWorker(s) THEN "row" ELSE "key"
    BY <1>7 DEF FindForUpdate
  <2>2. CASE IsWorker(s)
    BY <1>3, <2>1, <2>2 DEF RetryFits
  <2>3. CASE ~IsWorker(s)
    BY <1>2, <2>1, <2>3
  <2>. QED BY <2>2, <2>3
<1>8. CASE LookupByKey(s)
  <2>1. CASE Finish(s)
    BY <1>4, <2>1 DEF Finish
  <2>2. CASE /\ FindByIdempotencyKey(job[s].op.payload.provider, job[s].op.key) = {}
             /\ Goto(s, "ext")
    <3>1. /\ pc[s] = "key" /\ pc'[s] = "ext" /\ tries'[s] = tries[s] /\ job'[s] = job[s]
      BY <1>8, <2>2 DEF LookupByKey, Goto
    <3>2. SUFFICES ASSUME tries[s] = 1
                   PROVE  ~IsWorker(s)' /\ \E id \in TxIds : Collided(s, id)'
      BY <3>1 DEF RetryFits
    <3>3. PICK id \in TxIds : Collided(s, id)
      BY <3>2 DEF RetryFits
    <3>4. rows[id].key # job[s].op.key
      BY <2>2, <3>3 DEF Collided, FindByIdempotencyKey
    <3>5. Collided(s, id)'
      BY <1>1, <3>1, <3>3, <3>4 DEF Collided
    <3>. QED BY <3>1, <3>2, <3>5 DEF RetryFits, IsWorker
  <2>. QED BY <1>8, <2>1, <2>2 DEF LookupByKey
<1>9. CASE LookupByExternal(s)
  <2>1. CASE Finish(s)
    BY <1>4, <2>1 DEF Finish
  <2>2. ASSUME {id \in FindByExternalTransactionID(job[s].op.payload.provider,
                                                   job[s].op.payload.ext) :
                   ClassifyAttempt(job[s].op, None, rows[id]).kind = "CONFLICT"} = {},
               tries[s] = 1
        PROVE  FALSE
    <3>1. pc[s] = "ext"
      BY <1>9 DEF LookupByExternal
    <3>2. PICK id \in TxIds : Collided(s, id)
      BY <2>2 DEF RetryFits
    <3>3. /\ id \in FindByExternalTransactionID(job[s].op.payload.provider,
                                                job[s].op.payload.ext)
          /\ rows[id] # None /\ rows[id].key # job[s].op.key
      BY <3>1, <3>2 DEF Collided, FindByExternalTransactionID
    <3>4. ClassifyAttempt(job[s].op, None, rows[id]).kind = "CONFLICT"
      BY <3>3 DEF ClassifyAttempt
    <3>. QED BY <2>2, <3>3, <3>4
  <2>3. CASE /\ {id \in FindByExternalTransactionID(job[s].op.payload.provider,
                                                    job[s].op.payload.ext) :
                    ClassifyAttempt(job[s].op, None, rows[id]).kind = "CONFLICT"} = {}
             /\ \E next : Goto(s, next)
    <3>1. tries[s] = 0
      BY <2>2, <2>3
    <3>2. tries'[s] = tries[s]
      BY <2>3 DEF Goto
    <3>. QED BY <1>3, <3>1, <3>2
  <2>. QED BY <1>9, <2>1, <2>3 DEF LookupByExternal
<1>10. CASE RetryInNewTransaction(s)
  <2>1. pc[s] = "insert" /\ ~IsWorker(s)
    BY <1>10 DEF RetryInNewTransaction, SessionFits, JobFits
  <2>2. tries[s] = 0
    BY <2>1 DEF RetryFits
  <2>3. /\ job'[s] = job[s] /\ pc'[s] \in {"inbox", "lock"}
    BY <1>10, <2>2 DEF RetryInNewTransaction, EndTx
  <2>4. \E id \in TxIds : Collided(s, id)'
    <3>1. PICK id \in TxIds :
              /\ rows[id] # None
              /\ rows[id].payload.provider = job[s].op.payload.provider
              /\ rows[id].key = job[s].op.key \/ rows[id].payload.ext = job[s].op.payload.ext
      BY <1>10, CollisionIsFound
    <3>. QED BY <1>1, <2>3, <3>1 DEF Collided
  <2>5. ~IsWorker(s)'
    BY <2>1, <2>3 DEF IsWorker
  <2>. QED BY <2>3, <2>4, <2>5 DEF RetryFits
<1>11. CASE ResolveNew(s) \/ ResolvePending(s) \/ ExpirePending(s) \/ InsertNew(s)
            \/ CompletePending(s) \/ FindPendingForUpdate(s)
  <2>1. tries[s] = 0
    BY <1>11 DEF ResolveNew, ResolvePending, ExpirePending, InsertNew, CompletePending,
          FindPendingForUpdate, RetryFits
  <2>2. CASE Finish(s)
    BY <1>4, <2>2 DEF Finish
  <2>3. CASE \E next : Goto(s, next)
    BY <1>3, <2>1, <2>3 DEF Goto
  <2>. QED BY <1>11, <2>2, <2>3 DEF ResolveNew, ResolvePending, ExpirePending, InsertNew,
          CompletePending, FindPendingForUpdate, Plan
<1>12. CASE RefuseWallet(s) \/ Abort(s) \/ TransientFailure(s) \/ PermanentFailure(s)
  BY <1>4, <1>12 DEF RefuseWallet, Abort, TransientFailure, PermanentFailure, Finish
<1>. QED BY <1>5, <1>6, <1>7, <1>8, <1>9, <1>10, <1>11, <1>12 DEF Step

\* Every stored reference fits: an old one because it is final, a new one
\* because it was decided.
LEMMA NextStoredSound ==
    ASSUME IndInv, RowsInv, DecisionInv, Next
    PROVE  StoredSound'
<1>1. ASSUME NEW id \in TxIds, rows'[id] # None, rows'[id].status = "PROCESSED",
             rows'[id].payload.ref # None
      PROVE  FitsReference(rows', rows'[id].payload, rows'[id].ref)
  <2>1. CASE rows'[id] = rows[id]
    <3>1. FitsReference(rows, rows[id].payload, rows[id].ref)
      BY <1>1, <2>1 DEF DecisionInv, StoredSound
    <3>. QED BY <2>1, <3>1, FitsKept
  <2>2. ASSUME NEW s \in Sessions, Commit(s), pc[s] = "commit", rows'[id] = plan[s].row
        PROVE  FitsReference(rows', rows'[id].payload, rows'[id].ref)
    <3>1. /\ plan[s].row.ref = verdict[s].ref /\ Decided(s)
          /\ plan[s].row.payload = Payload(s)
      BY <1>1, <2>2, CommittedAsDecided, CommitFacts DEF DecisionInv
    <3>2. FitsReference(rows, Payload(s), verdict[s].ref)
      BY <1>1, <2>2, <3>1 DEF Decided
    <3>. QED BY <2>2, <3>1, <3>2, FitsKept
  <2>3. ASSUME NEW w, NEW amount, rows'[id] = OpeningRow(w, amount)
        PROVE  FALSE
    BY <1>1, <2>3 DEF OpeningRow
  <2>. QED BY <2>1, <2>2, <2>3, RowsChange
<1>. QED BY <1>1 DEF StoredSound

\* DecisionInv is kept by every step.
LEMMA NextDecision ==
    ASSUME IndInv, RowsInv, DecisionInv, Next
    PROVE  DecisionInv'
<1>1. ASSUME NEW t \in Sessions, pc'[t] = pc[t], job'[t] = job[t], tries'[t] = tries[t],
             verdict'[t] = verdict[t], plan'[t] = plan[t]
      PROVE  VerdictFits(t)' /\ RetryFits(t)'
  <2>1. VerdictFits(t)'
    <3>1. CASE pc[t] = "idle"
      BY <1>1, <3>1 DEF DecisionInv, VerdictFits
    <3>. QED BY <1>1, <3>1, DecisionStands
  <2>2. RetryFits(t)'
    <3>1. RetryFits(t) /\ (IsWorker(t)' <=> IsWorker(t))
      BY <1>1 DEF DecisionInv, IsWorker
    <3>. QED BY <1>1, <3>1, CollidedStays DEF RetryFits
  <2>. QED BY <2>1, <2>2
<1>2. ASSUME NEW s \in Sessions, Commit(s), NEW t \in Sessions
      PROVE  VerdictFits(t)' /\ RetryFits(t)'
  <2>1. CASE t = s
    <3>1. pc'[s] = "idle" /\ verdict'[s] = NoVerdict /\ tries'[s] = 0
      BY <1>2 DEF Commit, Finish, EndTx, IndInv, TypeOK, SessionsTypeOK
    <3>. QED BY <2>1, <3>1 DEF VerdictFits, RetryFits
  <2>2. CASE t # s
    <3>1. /\ pc'[t] = pc[t] /\ job'[t] = job[t] /\ tries'[t] = tries[t]
          /\ verdict'[t] = verdict[t] /\ plan'[t] = plan[t]
      BY <1>2, <2>2 DEF Commit, Finish, EndTx, IndInv, TypeOK, SessionsTypeOK
    <3>. QED BY <1>1, <3>1
  <2>. QED BY <2>1, <2>2
<1>3. ASSUME NEW s \in Sessions, Step(s), ~Commit(s), NEW t \in Sessions
      PROVE  VerdictFits(t)' /\ RetryFits(t)'
  <2>1. CASE t = s
    BY <1>3, <2>1, QuietVerdict, QuietRetry DEF DecisionInv
  <2>2. CASE t # s
    BY <1>1, <1>3, <2>2, QuietStep DEF OnlySession
  <2>. QED BY <2>1, <2>2
<1>4. ASSUME NEW w \in Wallets, NEW amount \in OpeningBalances, OpenWallet(w, amount),
             NEW t \in Sessions
      PROVE  VerdictFits(t)' /\ RetryFits(t)'
  BY <1>1, <1>4 DEF OpenWallet, session
<1>. QED BY <1>2, <1>3, <1>4, NextStoredSound DEF Next, DecisionInv

-----------------------------------------------------------------------------
(* The ledger: one entry per movement, with the decided direction.         *)

\* Entry e of wallet w records the movement of its transaction.
EntrySound(table, w, e) ==
    LET row == table[e.tx] IN
    /\ row # None /\ row.status = "PROCESSED"
    /\ row.payload.wallet = w /\ row.payload.kind # "LOSS"
    /\ e.amount = row.payload.amount
    /\ e.direction = DirectionOf(table, row.payload, row.ref)

\* Transaction id of the table moved money.
Movement(table, id) ==
    /\ table[id] # None /\ table[id].status = "PROCESSED"
    /\ table[id].payload.kind # "LOSS"

EntriesSound ==
    \A w \in Wallets : \A i \in 1..Len(ledger[w]) : EntrySound(rows, w, ledger[w][i])

EntriesDistinct ==
    \A w \in Wallets : \A i, j \in 1..Len(ledger[w]) :
        ledger[w][i].tx = ledger[w][j].tx => i = j

MovementsRecorded ==
    \A id \in TxIds : Movement(rows, id) =>
        \E i \in 1..Len(ledger[rows[id].payload.wallet]) :
            ledger[rows[id].payload.wallet][i].tx = id

LedgerInv == EntriesSound /\ EntriesDistinct /\ MovementsRecorded

\* Sequence new is old followed by e.
Extended(old, new, e) ==
    /\ Len(new) = Len(old) + 1
    /\ new[Len(old) + 1] = e
    /\ \A i \in 1..Len(old) : new[i] = old[i]

\* Appending one element.
LEMMA ConcatExtends ==
    ASSUME NEW S, NEW old \in Seq(S), NEW e \in S
    PROVE  Extended(old, old \o <<e>>, e)
<1>1. <<e>> \in Seq(S) /\ Len(<<e>>) = 1 /\ <<e>>[1] = e /\ Len(old) \in Nat
  OBVIOUS
<1>2. /\ Len(old \o <<e>>) = Len(old) + 1
      /\ \A i \in 1..(Len(old) + 1) :
            (old \o <<e>>)[i] = IF i <= Len(old) THEN old[i] ELSE <<e>>[i - Len(old)]
  BY <1>1, ConcatProperties
<1>. QED BY <1>1, <1>2 DEF Extended

\* An accepted operation settled as PROCESSED moves money unless it is a LOSS.
LEMMA CommitMoves ==
    ASSUME IndInv, NEW s \in Sessions, VerdictFits(s), pc[s] = "commit"
    PROVE  PlanMoves(s) <=> /\ plan[s].row.status = "PROCESSED"
                            /\ plan[s].row.payload.kind # "LOSS"
<1>1. /\ plan[s].row.payload = Payload(s) /\ Payload(s).kind # "OPENING"
      /\ Payload(s).kind \in ExternalKinds
  BY CommitFacts, InTransactionFacts
<1>2. ASSUME plan[s].row.status = "PROCESSED"
      PROVE  Moves(verdict[s]) <=> Payload(s).kind # "LOSS"
  <2>1. verdict[s].action = "PROCESS" /\ Decided(s)
    BY <1>2, CommittedAsDecided
  <2>2. verdict[s].direction = "NONE" <=> Payload(s).kind = "LOSS"
    BY <1>1, <2>1, OnlyLossIsStill DEF Decided, DirectionOf
  <2>. QED BY <2>1, <2>2 DEF Moves
<1>. QED BY <1>1, <1>2 DEF PlanMoves

\* The transaction a commit stores was not final before.
LEMMA PlanWasNotFinal ==
    ASSUME IndInv, RowsInv, NEW s \in Sessions, pc[s] = "commit",
           rows[plan[s].id] # None
    PROVE  rows[plan[s].id].status = "PENDING_REFERENCE" /\ IsWorker(s)
<1>1. PlanFits(s)
  BY CommitFacts
<1>. QED BY <1>1 DEF PlanFits, RowsInv, HoldsPendingRow

\* Entry e of wallet w is the one this step writes for a transaction that it
\* makes PROCESSED.
Written(w, e) ==
    /\ e \in LedgerEntry
    /\ Extended(ledger[w], ledger'[w], e)
    /\ EntrySound(rows', w, e)
    /\ ~Movement(rows, e.tx)

\* Every stored transaction belongs to a wallet.
LEMMA RowWallet ==
    ASSUME NEW row \in Row
    PROVE  row.payload.wallet \in Wallets
<1>1. row.payload \in Payloads
  BY DEF Row
<1>2. CASE row.payload \in {o.payload : o \in Accepted}
  BY <1>2, PreparedIsWellFormed
<1>3. CASE row.payload \in {OpeningRow(w, a).payload : w \in Wallets, a \in OpeningBalances}
  BY <1>3 DEF OpeningRow
<1>. QED BY <1>1, <1>2, <1>3 DEF Payloads

\* A commit that moves money appends the entry of its decision.
LEMMA CommitEntry ==
    ASSUME IndInv, NEW s \in Sessions, Commit(s), PlanMoves(s)
    PROVE  \E e \in LedgerEntry :
              /\ e.tx = plan[s].id /\ e.direction = verdict[s].direction
              /\ e.amount = plan[s].row.payload.amount
              /\ e.after = plan[s].row.balance
              /\ Extended(ledger[WalletOf(s)], ledger'[WalletOf(s)], e)
<1>. DEFINE e == Entry(plan[s].id, verdict[s].direction, plan[s].row.payload.amount,
                       snap[s].balance, plan[s].row.balance)
<1>1. pc[s] = "commit"
  BY DEF Commit
<1>2. /\ e.tx = plan[s].id /\ e.direction = verdict[s].direction
      /\ e.amount = plan[s].row.payload.amount /\ e.after = plan[s].row.balance
      /\ EntriesOf(s) = <<e>>
  BY DEF Entry, EntriesOf
<1>3. e \in LedgerEntry
  <2>1. EntriesOf(s) \in Seq(LedgerEntry)
    BY <1>1, EntriesType
  <2>2. <<e>>[1] \in LedgerEntry
    BY <1>2, <2>1
  <2>. QED BY <2>2
<1>. HIDE DEF e
<1>4. ledger[WalletOf(s)] \in Seq(LedgerEntry)
  BY <1>1, CommitFacts DEF IndInv, TypeOK, TablesTypeOK
<1>5. ledger'[WalletOf(s)] = ledger[WalletOf(s)] \o <<e>>
  BY <1>2, CommitFrame
<1>6. Extended(ledger[WalletOf(s)], ledger[WalletOf(s)] \o <<e>>, e)
  BY <1>3, <1>4, ConcatExtends
<1>. QED BY <1>2, <1>3, <1>5, <1>6

\* A ledger changes by at most one entry, that of a new movement.
LEMMA LedgerGrows ==
    ASSUME IndInv, RowsInv, DecisionInv, Next, NEW w \in Wallets
    PROVE  ledger'[w] = ledger[w] \/ \E e : Written(w, e)
<1>0. ledger[w] \in Seq(LedgerEntry)
  BY DEF IndInv, TypeOK, TablesTypeOK
<1>1. ASSUME NEW s \in Sessions, Commit(s), w = WalletOf(s), PlanMoves(s)
      PROVE  \E e : Written(w, e)
  <2>1. pc[s] = "commit" /\ VerdictFits(s)
    BY <1>1 DEF Commit, DecisionInv
  <2>2. PICK e \in LedgerEntry :
           /\ e.tx = plan[s].id /\ e.direction = verdict[s].direction
           /\ e.amount = plan[s].row.payload.amount
           /\ Extended(ledger[w], ledger'[w], e)
    BY <1>1, CommitEntry
  <2>5. /\ plan[s].row.status = "PROCESSED" /\ plan[s].row.payload.kind # "LOSS"
        /\ plan[s].row # None /\ plan[s].row.payload.wallet = w
        /\ rows'[plan[s].id] = plan[s].row /\ plan[s].row.payload = Payload(s)
    BY <1>1, <2>1, CommitMoves, CommitFacts, CommitFrame, NoneAssumption
  <2>6. plan[s].row.ref = verdict[s].ref /\ Decided(s)
    BY <2>1, <2>5, CommittedAsDecided
  <2>7. verdict[s].direction = DirectionOf(rows', Payload(s), verdict[s].ref)
    <3>1. Payload(s).ref # None => rows'[verdict[s].ref] = rows[verdict[s].ref]
      BY <2>6, FitsKept DEF Decided
    <3>. QED BY <2>6, <3>1, DirectionKept DEF Decided
  <2>8. EntrySound(rows', w, e)
    BY <2>2, <2>5, <2>6, <2>7 DEF EntrySound
  <2>9. ~Movement(rows, e.tx)
    BY <2>1, <2>2, PlanWasNotFinal DEF Movement
  <2>. QED BY <2>2, <2>8, <2>9 DEF Written
<1>2. ASSUME NEW s \in Sessions, Commit(s), w = WalletOf(s), ~PlanMoves(s)
      PROVE  ledger'[w] = ledger[w]
  BY <1>0, <1>2, CommitFrame, ConcatEmptySeq DEF EntriesOf
<1>3. ASSUME NEW s \in Sessions, Commit(s), w # WalletOf(s)
      PROVE  ledger'[w] = ledger[w]
  BY <1>3, CommitFrame
<1>4. ASSUME NEW s \in Sessions, Step(s), ~Commit(s)
      PROVE  ledger'[w] = ledger[w]
  BY <1>4, QuietStep
<1>5. ASSUME NEW v \in Wallets, NEW amount \in OpeningBalances, OpenWallet(v, amount),
             ledger'[w] # ledger[w]
      PROVE  \E e : Written(w, e)
  <2>1. PICK id \in TxIds :
           /\ Fresh(id)
           /\ rows' = [rows EXCEPT ![id] = OpeningRow(v, amount)]
           /\ ledger' = [ledger EXCEPT ![v] = <<Entry(id, "CREDIT", amount, 0, amount)>>]
    BY <1>5 DEF OpenWallet
  <2>. DEFINE e == Entry(id, "CREDIT", amount, 0, amount)
              row == OpeningRow(v, amount)
  <2>2. v = w /\ ledger[w] = <<>>
    BY <1>5, <2>1 DEF OpenWallet, IndInv, TypeOK, TablesTypeOK, LedgerRowsStored
  <2>3. /\ e \in LedgerEntry /\ e.tx = id /\ e.direction = "CREDIT" /\ e.amount = amount
    BY OpeningRowType DEF Entry, LedgerEntry
  <2>4. /\ row # None /\ row.status = "PROCESSED" /\ row.payload.kind = "OPENING"
        /\ row.payload.wallet = v /\ row.payload.amount = amount
    BY OpeningRowType, NoneAssumption DEF OpeningRow
  <2>. HIDE DEF e, row
  <2>5. rows'[id] = row /\ rows[id] = None /\ ledger'[w] = <<e>>
    BY <2>1, <2>2 DEF Fresh, IndInv, TypeOK, TablesTypeOK, e, row
  <2>6. Extended(ledger[w], ledger'[w], e)
    BY <2>2, <2>5 DEF Extended
  <2>7. EntrySound(rows', w, e)
    BY <2>2, <2>3, <2>4, <2>5 DEF EntrySound, DirectionOf
  <2>8. ~Movement(rows, e.tx)
    BY <2>3, <2>5 DEF Movement
  <2>. QED BY <2>3, <2>6, <2>7, <2>8 DEF Written
<1>. QED BY <1>1, <1>2, <1>3, <1>4, <1>5 DEF Next

\* A step that makes a transaction move money writes its entry.
LEMMA MovementIsWritten ==
    ASSUME IndInv, RowsInv, DecisionInv, Next, NEW id \in TxIds,
           Movement(rows', id), ~Movement(rows, id)
    PROVE  /\ rows'[id].payload.wallet \in Wallets
           /\ LET l == ledger'[rows'[id].payload.wallet] IN
              Len(l) \in Nat /\ \E i \in 1..Len(l) : l[i].tx = id
<1>1. rows'[id] # rows[id]
  BY DEF Movement
<1>2. ASSUME NEW s \in Sessions, Commit(s), pc[s] = "commit", id = plan[s].id,
             rows'[id] = plan[s].row
      PROVE  /\ rows'[id].payload.wallet \in Wallets
             /\ LET l == ledger'[rows'[id].payload.wallet] IN
                Len(l) \in Nat /\ \E i \in 1..Len(l) : l[i].tx = id
  <2>1. PlanMoves(s) /\ plan[s].row.payload.wallet = WalletOf(s) /\ WalletOf(s) \in Wallets
    BY <1>2, CommitMoves, CommitFacts DEF DecisionInv, Movement
  <2>2. PICK e \in LedgerEntry :
           e.tx = id /\ Extended(ledger[WalletOf(s)], ledger'[WalletOf(s)], e)
    BY <1>2, <2>1, CommitEntry
  <2>3. Len(ledger[WalletOf(s)]) \in Nat
    BY <2>1, LenProperties DEF IndInv, TypeOK, TablesTypeOK
  <2>. QED BY <1>2, <2>1, <2>2, <2>3 DEF Extended
<1>3. ASSUME NEW w \in Wallets, NEW amount \in OpeningBalances, OpenWallet(w, amount)
      PROVE  /\ rows'[id].payload.wallet \in Wallets
             /\ LET l == ledger'[rows'[id].payload.wallet] IN
                Len(l) \in Nat /\ \E i \in 1..Len(l) : l[i].tx = id
  <2>1. PICK x \in TxIds :
           /\ rows' = [rows EXCEPT ![x] = OpeningRow(w, amount)]
           /\ ledger' = [ledger EXCEPT ![w] = <<Entry(x, "CREDIT", amount, 0, amount)>>]
    BY <1>1, <1>3 DEF OpenWallet
  <2>. DEFINE e == Entry(x, "CREDIT", amount, 0, amount)
              row == OpeningRow(w, amount)
  <2>2. e.tx = x /\ row.payload.wallet = w
    BY DEF Entry, OpeningRow
  <2>. HIDE DEF e, row
  <2>3. x = id /\ rows'[id] = row /\ ledger'[w] = <<e>>
    BY <1>1, <2>1 DEF IndInv, TypeOK, TablesTypeOK, e, row
  <2>4. Len(ledger'[w]) = 1 /\ ledger'[w][1] = e
    BY <2>3
  <2>. QED BY <2>2, <2>3, <2>4
<1>. QED BY <1>1, <1>2, <1>3, RowsChange

\* An entry once sound stays so.
LEMMA EntryKept ==
    ASSUME IndInv, RowsInv, DecisionInv, Next, NEW w, NEW e \in LedgerEntry,
           EntrySound(rows, w, e)
    PROVE  EntrySound(rows', w, e)
<1>1. e.tx \in TxIds
  BY DEF LedgerEntry
<1>2. PICK row : row = rows[e.tx] /\ row = rows'[e.tx]
  BY <1>1, RowsKept DEF EntrySound, Terminal
<1>3. row.payload.ref # None => rows'[row.ref] = rows[row.ref]
  <2>1. row.payload.ref # None => FitsReference(rows, row.payload, row.ref)
    BY <1>1, <1>2 DEF DecisionInv, StoredSound, EntrySound
  <2>. QED BY <2>1, FitsKept
<1>4. DirectionOf(rows', row.payload, row.ref) = DirectionOf(rows, row.payload, row.ref)
  BY <1>3, DirectionKept
<1>. QED BY <1>2, <1>4 DEF EntrySound

\* LedgerInv is kept by every step.
LEMMA NextLedger ==
    ASSUME IndInv, RowsInv, DecisionInv, LedgerInv, Next
    PROVE  LedgerInv'
<1>1. \A w \in Wallets : ledger[w] \in Seq(LedgerEntry) /\ Len(ledger[w]) \in Nat
  BY LenProperties DEF IndInv, TypeOK, TablesTypeOK
<1>2. \A w \in Wallets : \A i \in 1..Len(ledger[w]) :
         /\ ledger[w][i] \in LedgerEntry
         /\ EntrySound(rows, w, ledger[w][i]) /\ EntrySound(rows', w, ledger[w][i])
  <2>1. SUFFICES ASSUME NEW w \in Wallets, NEW i \in 1..Len(ledger[w])
                 PROVE  /\ ledger[w][i] \in LedgerEntry
                        /\ EntrySound(rows, w, ledger[w][i])
                        /\ EntrySound(rows', w, ledger[w][i])
    OBVIOUS
  <2>2. ledger[w][i] \in LedgerEntry
    BY <1>1, ElementOfSeq
  <2>3. EntrySound(rows, w, ledger[w][i])
    BY DEF LedgerInv, EntriesSound
  <2>. QED BY <2>2, <2>3, EntryKept
<1>3. ASSUME NEW w \in Wallets
      PROVE  /\ \A i \in 1..Len(ledger'[w]) : EntrySound(rows', w, ledger'[w][i])
             /\ \A i, j \in 1..Len(ledger'[w]) : ledger'[w][i].tx = ledger'[w][j].tx => i = j
             /\ Len(ledger'[w]) \in Nat /\ Len(ledger'[w]) >= Len(ledger[w])
             /\ \A i \in 1..Len(ledger[w]) : ledger'[w][i] = ledger[w][i]
  <2>1. CASE ledger'[w] = ledger[w]
    BY <1>1, <1>2, <2>1 DEF LedgerInv, EntriesDistinct
  <2>2. ASSUME NEW e, Written(w, e)
        PROVE  /\ \A i \in 1..Len(ledger'[w]) : EntrySound(rows', w, ledger'[w][i])
               /\ \A i, j \in 1..Len(ledger'[w]) :
                     ledger'[w][i].tx = ledger'[w][j].tx => i = j
               /\ Len(ledger'[w]) \in Nat /\ Len(ledger'[w]) >= Len(ledger[w])
               /\ \A i \in 1..Len(ledger[w]) : ledger'[w][i] = ledger[w][i]
    <3>. DEFINE n == Len(ledger[w])
    <3>1. /\ n \in Nat /\ Len(ledger'[w]) = n + 1 /\ ledger'[w][n + 1] = e
          /\ \A i \in 1..n : ledger'[w][i] = ledger[w][i]
      BY <1>1, <2>2 DEF Written, Extended
    <3>2. EntrySound(rows', w, e) /\ ~Movement(rows, e.tx)
      BY <2>2 DEF Written
    <3>3. \A i \in 1..n : ledger[w][i].tx # e.tx
      BY <1>2, <3>2 DEF EntrySound, Movement
    <3>4. \A i, j \in 1..n : ledger[w][i].tx = ledger[w][j].tx => i = j
      BY DEF LedgerInv, EntriesDistinct
    <3>. HIDE DEF n
    <3>5. \A i \in 1..(n + 1) : i \in 1..n \/ i = n + 1
      BY <3>1
    <3>6. \A i \in 1..(n + 1) : EntrySound(rows', w, ledger'[w][i])
      BY <1>2, <3>1, <3>2, <3>5 DEF n
    <3>7. \A i, j \in 1..(n + 1) : ledger'[w][i].tx = ledger'[w][j].tx => i = j
      BY <3>1, <3>3, <3>4, <3>5
    <3>. QED BY <3>1, <3>6, <3>7 DEF n
  <2>. QED BY <2>1, <2>2, LedgerGrows
<1>4. ASSUME NEW id \in TxIds, Movement(rows', id)
      PROVE  \E i \in 1..Len(ledger'[rows'[id].payload.wallet]) :
                 ledger'[rows'[id].payload.wallet][i].tx = id
  <2>1. CASE ~Movement(rows, id)
    BY <1>4, <2>1, MovementIsWritten
  <2>2. CASE Movement(rows, id)
    <3>1. rows'[id] = rows[id] /\ rows[id] \in Row
      BY <2>2, RowsKept DEF Movement, Terminal, IndInv, TypeOK, TablesTypeOK
    <3>2. PICK w : w = rows[id].payload.wallet
      OBVIOUS
    <3>3. PICK i \in 1..Len(ledger[w]) : ledger[w][i].tx = id
      BY <2>2, <3>2 DEF LedgerInv, MovementsRecorded
    <3>4. w \in Wallets
      BY <3>1, <3>2, RowWallet
    <3>. QED BY <1>1, <1>3, <3>1, <3>2, <3>3, <3>4
  <2>. QED BY <2>1, <2>2
<1>5. EntriesSound'
  BY <1>3 DEF EntriesSound
<1>6. EntriesDistinct'
  BY <1>3 DEF EntriesDistinct
<1>7. MovementsRecorded'
  BY <1>4 DEF MovementsRecorded
<1>. QED BY <1>5, <1>6, <1>7 DEF LedgerInv

-----------------------------------------------------------------------------
(* The outbox: one outcome per transaction and one change per entry.       *)

\* Transaction id of the table has an outcome that is announced once.
Final(table, id) ==
    table[id] # None /\ table[id].status \in {"PROCESSED", "REJECTED"}

EventSound(table, x) ==
    /\ table[x.tx] # None
    /\ x.type \in {"PROCESSED", "REJECTED"} => table[x.tx].status = x.type
    /\ x.type = "BALANCE_CHANGED" => x.version \in Nat

\* An outcome is in the sequence at most once.
OutcomesDistinct(o) ==
    \A i, j \in 1..Len(o) :
        (/\ o[i].type \in {"PROCESSED", "REJECTED"}
         /\ o[i].type = o[j].type /\ o[i].tx = o[j].tx) => i = j

\* ChangesMirrorLedger of a wallet with events o, entries l and version v.
Mirrors(o, l, v) ==
    LET changes  == {k \in 1..Len(o) : o[k].type = "BALANCE_CHANGED"}
        entry(k) == Len(l) - (v - o[k].version)
    IN  /\ \A k \in changes : /\ entry(k) \in 1..Len(l)
                              /\ o[k].tx = l[entry(k)].tx
                              /\ o[k].balance = l[entry(k)].after
        /\ \A i \in 1..Len(l) : \E k \in changes : entry(k) = i
        /\ \A k, j \in changes : k < j => o[k].version < o[j].version

EventsSound ==
    \A w \in Wallets : \A i \in 1..Len(outbox[w]) : EventSound(rows, outbox[w][i])

OutcomesAnnounced ==
    \A id \in TxIds : Final(rows, id) =>
        \E i \in 1..Len(outbox[rows[id].payload.wallet]) :
            LET x == outbox[rows[id].payload.wallet][i]
            IN  x.tx = id /\ x.type = rows[id].status

OutboxInv ==
    /\ EventsSound
    /\ \A w \in Wallets : OutcomesDistinct(outbox[w])
    /\ OutcomesAnnounced
    /\ \A w \in Wallets : ChangesMirrorLedger(w)

\* The two ways to say that a wallet's changes are its ledger agree.
LEMMA MirrorsIsMirror ==
    ASSUME NEW w
    PROVE  ChangesMirrorLedger(w) <=> Mirrors(outbox[w], ledger[w], wallets[w].version)
  BY DEF ChangesMirrorLedger, Mirrors

\* Whatever the version, no events mirror no entries.
LEMMA NothingMirrorsNothing ==
    ASSUME NEW v
    PROVE  Mirrors(<<>>, <<>>, v)
<1>1. Len(<<>>) = 0
  OBVIOUS
<1>. QED BY <1>1 DEF Mirrors

\* An event that is no change keeps the mirror.
LEMMA OutcomeKeepsMirror ==
    ASSUME NEW o, NEW o2, NEW l, NEW v, NEW x, Len(o) \in Nat,
           Mirrors(o, l, v), Extended(o, o2, x), x.type # "BALANCE_CHANGED"
    PROVE  Mirrors(o2, l, v)
<1>1. \A k \in 1..Len(o2) : \/ k \in 1..Len(o) /\ o2[k] = o[k]
                            \/ k = Len(o) + 1 /\ o2[k] = x
  <2>1. \A k \in 1..(Len(o) + 1) : k \in 1..Len(o) \/ k = Len(o) + 1
    OBVIOUS
  <2>. QED BY <2>1 DEF Extended
<1>2. {k \in 1..Len(o2) : o2[k].type = "BALANCE_CHANGED"}
      = {k \in 1..Len(o) : o[k].type = "BALANCE_CHANGED"}
  BY <1>1 DEF Extended
<1>3. \A k \in {j \in 1..Len(o) : o[j].type = "BALANCE_CHANGED"} : o2[k] = o[k]
  BY DEF Extended
<1>. QED BY <1>2, <1>3 DEF Mirrors

\* A change event and its entry, with the next version, keep the mirror.
LEMMA ChangeKeepsMirror ==
    ASSUME NEW o, NEW o2, NEW l, NEW l2, NEW v \in Nat, NEW y, NEW e,
           Len(o) \in Nat, Len(l) \in Nat,
           \A k \in 1..Len(o) : o[k].type = "BALANCE_CHANGED" => o[k].version \in Nat,
           Mirrors(o, l, v), Extended(o, o2, y), Extended(l, l2, e),
           y.type = "BALANCE_CHANGED", y.version = v + 1,
           y.tx = e.tx, y.balance = e.after
    PROVE  Mirrors(o2, l2, v + 1)
<1>. DEFINE n == Len(o)
            m == Len(l)
            changes == {k \in 1..n : o[k].type = "BALANCE_CHANGED"}
<1>1. /\ n \in Nat /\ m \in Nat
      /\ Len(o2) = n + 1 /\ o2[n + 1] = y /\ \A k \in 1..n : o2[k] = o[k]
      /\ Len(l2) = m + 1 /\ l2[m + 1] = e /\ \A i \in 1..m : l2[i] = l[i]
  BY DEF Extended
<1>2. /\ \A k \in changes : o[k].version \in Nat
      /\ \A k \in changes : /\ m - (v - o[k].version) \in 1..m
                            /\ o[k].tx = l[m - (v - o[k].version)].tx
                            /\ o[k].balance = l[m - (v - o[k].version)].after
      /\ \A i \in 1..m : \E k \in changes : m - (v - o[k].version) = i
      /\ \A k, j \in changes : k < j => o[k].version < o[j].version
  BY DEF Mirrors
<1>. HIDE DEF n, m
<1>3. {k \in 1..Len(o2) : o2[k].type = "BALANCE_CHANGED"} = changes \cup {n + 1}
  BY <1>1
<1>4. \A k \in changes :
         /\ k \in 1..n /\ o2[k] = o[k] /\ o[k].version \in Nat /\ o[k].version <= v
         /\ (m + 1) - ((v + 1) - o[k].version) = m - (v - o[k].version)
  <2>1. SUFFICES ASSUME NEW k \in changes
                 PROVE  /\ k \in 1..n /\ o2[k] = o[k] /\ o[k].version \in Nat
                        /\ o[k].version <= v
                        /\ (m + 1) - ((v + 1) - o[k].version) = m - (v - o[k].version)
    OBVIOUS
  <2>2. PICK x \in Nat : x = o[k].version
    BY <1>2
  <2>3. m - (v - x) \in 1..m
    BY <1>2, <2>2
  <2>4. x <= v /\ (m + 1) - ((v + 1) - x) = m - (v - x)
    BY <1>1, <2>3
  <2>. QED BY <1>1, <2>2, <2>4
<1>. HIDE DEF changes
<1>5. (m + 1) - ((v + 1) - o2[n + 1].version) = m + 1
  BY <1>1
<1>6. \A k \in changes \cup {n + 1} :
         LET i == (m + 1) - ((v + 1) - o2[k].version) IN
         /\ i \in 1..(m + 1)
         /\ o2[k].tx = l2[i].tx
         /\ o2[k].balance = l2[i].after
  <2>1. ASSUME NEW k \in changes
        PROVE  LET i == (m + 1) - ((v + 1) - o2[k].version) IN
               /\ i \in 1..(m + 1)
               /\ o2[k].tx = l2[i].tx
               /\ o2[k].balance = l2[i].after
    <3>. DEFINE i == m - (v - o[k].version)
    <3>1. /\ i \in 1..m /\ (m + 1) - ((v + 1) - o2[k].version) = i
          /\ o2[k].tx = l[i].tx /\ o2[k].balance = l[i].after
      BY <1>2, <1>4
    <3>. HIDE DEF i
    <3>2. l2[i] = l[i] /\ i \in 1..(m + 1)
      BY <1>1, <3>1
    <3>. QED BY <3>1, <3>2
  <2>. QED BY <1>1, <1>5, <2>1
<1>7. \A i \in 1..(m + 1) : \E k \in changes \cup {n + 1} :
          (m + 1) - ((v + 1) - o2[k].version) = i
  <2>1. ASSUME NEW i \in 1..m
        PROVE  \E k \in changes : (m + 1) - ((v + 1) - o2[k].version) = i
    BY <1>2, <1>4
  <2>2. \A i \in 1..(m + 1) : i \in 1..m \/ i = m + 1
    BY <1>1
  <2>. QED BY <1>5, <2>1, <2>2
<1>8. \A k, j \in changes \cup {n + 1} : k < j => o2[k].version < o2[j].version
  <2>1. ASSUME NEW k \in changes, NEW j \in changes, k < j
        PROVE  o2[k].version < o2[j].version
    BY <1>2, <1>4, <2>1
  <2>2. ASSUME NEW k \in changes
        PROVE  o2[k].version < o2[n + 1].version /\ ~(n + 1 < k)
    BY <1>1, <1>4
  <2>3. ~(n + 1 < n + 1)
    BY <1>1
  <2>4. SUFFICES ASSUME NEW k \in changes \cup {n + 1}, NEW j \in changes \cup {n + 1}, k < j
                 PROVE  o2[k].version < o2[j].version
    OBVIOUS
  <2>5. CASE k \in changes /\ j \in changes
    BY <2>1, <2>4, <2>5
  <2>6. CASE k = n + 1
    BY <2>2, <2>3, <2>4, <2>6
  <2>7. CASE k \in changes /\ j = n + 1
    BY <2>2, <2>7
  <2>. QED BY <2>5, <2>6, <2>7
<1>. DEFINE after == {k \in 1..Len(o2) : o2[k].type = "BALANCE_CHANGED"}
            entry(k) == Len(l2) - ((v + 1) - o2[k].version)
<1>9. after = changes \cup {n + 1} /\ Len(l2) = m + 1
  BY <1>1, <1>3
<1>. HIDE DEF after
<1>10. \A k \in after : /\ entry(k) \in 1..Len(l2)
                        /\ o2[k].tx = l2[entry(k)].tx
                        /\ o2[k].balance = l2[entry(k)].after
  BY <1>6, <1>9
<1>11. \A i \in 1..Len(l2) : \E k \in after : entry(k) = i
  BY <1>7, <1>9
<1>12. \A k, j \in after : k < j => o2[k].version < o2[j].version
  BY <1>8, <1>9
<1>. QED BY <1>10, <1>11, <1>12 DEF Mirrors, after

\* Appending an outcome of a transaction that had none keeps the sequence sound.
LEMMA OutcomeExtends ==
    ASSUME NEW o, NEW o2, NEW x, NEW table, Len(o) \in Nat,
           \A i \in 1..Len(o) : EventSound(table, o[i]),
           \A i \in 1..Len(o) : (x.type \in {"PROCESSED", "REJECTED"} /\ o[i].tx = x.tx) =>
               o[i].type # x.type,
           EventSound(table, x), OutcomesDistinct(o), Extended(o, o2, x)
    PROVE  /\ \A i \in 1..Len(o2) : EventSound(table, o2[i])
           /\ OutcomesDistinct(o2)
           /\ Len(o2) \in Nat
<1>1. /\ Len(o2) = Len(o) + 1 /\ o2[Len(o) + 1] = x
      /\ \A i \in 1..Len(o) : o2[i] = o[i]
      /\ \A i \in 1..Len(o2) : i \in 1..Len(o) \/ i = Len(o) + 1
  BY DEF Extended
<1>2. \A i \in 1..Len(o2) : EventSound(table, o2[i])
  BY <1>1
<1>3. OutcomesDistinct(o2)
  BY <1>1 DEF OutcomesDistinct
<1>. QED BY <1>1, <1>2, <1>3

\* Event x tells the outcome that this step gives a transaction of wallet w.
Announces(w, x) ==
    /\ x \in Event /\ x.type # "BALANCE_CHANGED"
    /\ rows'[x.tx] # None /\ rows'[x.tx].status = x.type
    /\ rows'[x.tx].payload.wallet = w
    /\ ~Final(rows, x.tx)

\* Only the transactions in S get an outcome in wallet w in this step.
OnlyNews(w, S) ==
    \A id \in TxIds : (/\ Final(rows', id) /\ ~Final(rows, id)
                       /\ rows'[id].payload.wallet = w) => id \in S

\* The three things a step may tell of a wallet: nothing, an outcome that
\* moves no money, or an outcome and the change it makes.
Silent(w) ==
    /\ outbox'[w] = outbox[w] /\ ledger'[w] = ledger[w]
    /\ wallets'[w] = wallets[w] \/ (outbox[w] = <<>> /\ ledger[w] = <<>>)
    /\ OnlyNews(w, {})

Announced(w, x) ==
    /\ Announces(w, x) /\ Extended(outbox[w], outbox'[w], x)
    /\ ledger'[w] = ledger[w] /\ wallets'[w] = wallets[w]
    /\ OnlyNews(w, {x.tx})

Moved(w, x, y, e, o, v) ==
    /\ Announces(w, x) /\ Extended(outbox[w], o, x)
    /\ y.type = "BALANCE_CHANGED" /\ y.version = v + 1
    /\ y.tx = x.tx /\ y.tx = e.tx /\ y.balance = e.after
    /\ Extended(o, outbox'[w], y)
    /\ Extended(ledger[w], ledger'[w], e)
    /\ v \in Nat /\ wallets'[w].version = v + 1
    /\ wallets[w].version = v \/ (outbox[w] = <<>> /\ ledger[w] = <<>>)
    /\ OnlyNews(w, {x.tx})

\* A commit tells nothing, an outcome, or an outcome and its change.
LEMMA CommitTells ==
    ASSUME IndInv, RowsInv, DecisionInv, NEW s \in Sessions, Commit(s),
           NEW w \in Wallets, w = WalletOf(s)
    PROVE  \/ Silent(w)
           \/ \E x : Announced(w, x)
           \/ \E x, y, e, o, v : Moved(w, x, y, e, o, v)
<1>. DEFINE r == plan[s].row
            id == plan[s].id
            x == WagerEvent(r.status, id)
            y == BalanceChanged(id, snap[s].version + 1, r.balance)
<1>1. pc[s] = "commit"
  BY DEF Commit
<1>2. /\ id \in TxIds /\ r \in Row /\ r # None /\ r.payload.wallet = w
      /\ rows'[id] = r /\ \A j \in TxIds : j # id => rows'[j] = rows[j]
      /\ r.status \in Statuses
  BY <1>1, CommitFacts, CommitFrame, NoneAssumption DEF Row
<1>3. OnlyNews(w, {id})
  BY <1>2 DEF OnlyNews, Final
<1>4. /\ outbox[w] \in Seq(Event) /\ outbox'[w] = outbox[w] \o EventsOf(s)
      /\ ledger[w] \in Seq(LedgerEntry)
  BY <1>1, CommitFacts DEF Commit, IndInv, TypeOK, TablesTypeOK
<1>5. ASSUME r.status \in {"PROCESSED", "REJECTED", "PENDING_REFERENCE"}
      PROVE  Announces(w, x) /\ x \in Event /\ x.tx = id /\ x.type = r.status
  <2>1. x \in Event /\ x.tx = id /\ x.type = r.status
    BY <1>2, <1>5 DEF WagerEvent, Event
  <2>. HIDE DEF x
  <2>2. ~Final(rows, id)
    BY <1>1, PlanWasNotFinal DEF Final
  <2>. QED BY <1>2, <1>5, <2>1, <2>2 DEF Announces
<1>6. ~PlanMoves(s) => ledger'[w] = ledger[w] /\ wallets'[w] = wallets[w]
  <2>1. ASSUME ~PlanMoves(s)
        PROVE  ledger'[w] = ledger[w]
    <3>1. ledger'[w] = ledger[w] \o <<>>
      BY <2>1, CommitFrame DEF EntriesOf
    <3>. QED BY <1>4, <3>1, ConcatEmptySeq
  <2>2. ASSUME ~PlanMoves(s)
        PROVE  wallets'[w] = wallets[w]
    BY <2>2 DEF Commit
  <2>. QED BY <2>1, <2>2
<1>7. PlanMoves(s) => r.status = "PROCESSED"
  BY DEF PlanMoves
<1>8. CASE EventsOf(s) = <<>> /\ ~PlanMoves(s) /\ r.status \notin {"PROCESSED", "REJECTED"}
  <2>1. outbox'[w] = outbox[w]
    BY <1>4, <1>8, ConcatEmptySeq
  <2>2. OnlyNews(w, {})
    BY <1>2, <1>3, <1>8 DEF OnlyNews, Final
  <2>. QED BY <1>6, <1>8, <2>1, <2>2 DEF Silent
<1>9. CASE /\ EventsOf(s) = <<x>> /\ ~PlanMoves(s)
           /\ r.status \in {"PROCESSED", "REJECTED", "PENDING_REFERENCE"}
  <2>. HIDE DEF x
  <2>1. Extended(outbox[w], outbox'[w], x)
    BY <1>4, <1>5, <1>9, ConcatExtends
  <2>. QED BY <1>3, <1>5, <1>6, <1>9, <2>1 DEF Announced
<1>10. CASE PlanMoves(s) /\ EventsOf(s) = <<x>> \o <<y>>
  <2>1. PICK e \in LedgerEntry : /\ e.tx = id /\ e.after = r.balance
                                 /\ Extended(ledger[w], ledger'[w], e)
    BY <1>10, CommitEntry
  <2>2. /\ snap[s].version \in Nat /\ wallets[w].version = snap[s].version
        /\ r.balance \in Nat
    BY <1>1, <1>10, CommitFacts DEF Snapshot, PlanFits
  <2>3. wallets'[w].version = snap[s].version + 1
    <3>1. wallets'[w] = [balance |-> r.balance, version |-> snap[s].version + 1]
      BY <1>10, CommitFrame
    <3>. QED BY <3>1
  <2>4. /\ y \in Event /\ y.type = "BALANCE_CHANGED" /\ y.tx = id
        /\ y.version = snap[s].version + 1 /\ y.balance = r.balance
    BY <1>2, <2>2 DEF BalanceChanged, Event
  <2>5. Announces(w, x) /\ x \in Event /\ x.tx = id
    BY <1>5, <1>7, <1>10
  <2>. HIDE DEF x, y
  <2>6. outbox'[w] = (outbox[w] \o <<x>>) \o <<y>>
    <3>1. <<x>> \in Seq(Event) /\ <<y>> \in Seq(Event)
      BY <2>4, <2>5
    <3>. QED BY <1>4, <1>10, <3>1, ConcatAssociative
  <2>. DEFINE o == outbox[w] \o <<x>>
  <2>7. o \in Seq(Event) /\ Extended(outbox[w], o, x)
    BY <1>4, <2>5, ConcatExtends, ConcatProperties
  <2>. HIDE DEF o
  <2>8. Extended(o, outbox'[w], y)
    BY <2>4, <2>6, <2>7, ConcatExtends DEF o
  <2>9. Moved(w, x, y, e, o, snap[s].version)
    BY <1>3, <2>1, <2>2, <2>3, <2>4, <2>5, <2>7, <2>8 DEF Moved
  <2>. QED BY <2>9
<1>11. \/ EventsOf(s) = <<>> /\ ~PlanMoves(s) /\ r.status \notin {"PROCESSED", "REJECTED"}
       \/ /\ EventsOf(s) = <<x>> /\ ~PlanMoves(s)
          /\ r.status \in {"PROCESSED", "REJECTED", "PENDING_REFERENCE"}
       \/ PlanMoves(s) /\ EventsOf(s) = <<x>> \o <<y>>
  <2>1. CASE r.status = "REJECTED"
    BY <1>7, <2>1 DEF EventsOf
  <2>2. CASE r.status = "PROCESSED"
    <3>1. EventsOf(s) = <<x>> \o (IF PlanMoves(s) THEN <<y>> ELSE <<>>)
      BY <2>2 DEF EventsOf
    <3>2. <<x>> \o <<>> = <<x>>
      <4>1. <<x>> \in Seq(Event)
        BY <1>5, <2>2
      <4>. QED BY <4>1, ConcatEmptySeq
    <3>. QED BY <2>2, <3>1, <3>2
  <2>3. CASE r.status = "PENDING_REFERENCE"
    BY <1>7, <2>3 DEF EventsOf
  <2>4. CASE r.status = "FAILED"
    BY <1>7, <2>4 DEF EventsOf
  <2>. QED BY <1>2, <2>1, <2>2, <2>3, <2>4 DEF Statuses
<1>. QED BY <1>8, <1>9, <1>10, <1>11

\* Every step tells each wallet's outbox one of the three.
LEMMA StepTells ==
    ASSUME IndInv, RowsInv, UnopenedIsSilent, DecisionInv, Next, NEW w \in Wallets
    PROVE  \/ Silent(w)
           \/ \E x : Announced(w, x)
           \/ \E x, y, e, o, v : Moved(w, x, y, e, o, v)
<1>1. ASSUME NEW s \in Sessions, Commit(s), w # WalletOf(s)
      PROVE  Silent(w)
  <2>1. pc[s] = "commit"
    BY <1>1 DEF Commit
  <2>2. outbox'[w] = outbox[w]
    BY <1>1, <2>1, CommitFacts DEF Commit, IndInv, TypeOK, TablesTypeOK
  <2>3. OnlyNews(w, {})
    <3>1. rows'[plan[s].id].payload.wallet # w
      BY <1>1, <2>1, CommitFrame, CommitFacts
    <3>. QED BY <1>1, <3>1, CommitFrame DEF OnlyNews, Final
  <2>. QED BY <1>1, <2>2, <2>3, CommitFrame DEF Silent
<1>2. ASSUME NEW s \in Sessions, Step(s), ~Commit(s)
      PROVE  Silent(w)
  BY <1>2, QuietStep DEF Silent, OnlyNews, Final
<1>3. ASSUME NEW v \in Wallets, NEW amount \in OpeningBalances, OpenWallet(v, amount), v # w
      PROVE  Silent(w)
  <2>1. wallets'[w] = wallets[w] /\ ledger'[w] = ledger[w] /\ outbox'[w] = outbox[w]
    BY <1>3 DEF OpenWallet, IndInv, TypeOK, TablesTypeOK
  <2>2. OpeningRow(v, amount).payload.wallet = v
    BY DEF OpeningRow
  <2>3. OnlyNews(w, {})
    BY <1>3, <2>2, OpenFrame DEF OnlyNews, Final
  <2>. QED BY <2>1, <2>3 DEF Silent
<1>4. ASSUME NEW amount \in OpeningBalances, OpenWallet(w, amount)
      PROVE  Silent(w) \/ \E x, y, e, o, v : Moved(w, x, y, e, o, v)
  <2>1. outbox[w] = <<>> /\ ledger[w] = <<>>
    BY <1>4 DEF OpenWallet, UnopenedIsSilent, IndInv, LedgerRowsStored
  <2>2. CASE UNCHANGED <<rows, ledger, outbox>>
    BY <2>1, <2>2 DEF Silent, OnlyNews, Final
  <2>3. ASSUME NEW id \in TxIds, Fresh(id),
               rows' = [rows EXCEPT ![id] = OpeningRow(w, amount)],
               ledger' = [ledger EXCEPT ![w] = <<Entry(id, "CREDIT", amount, 0, amount)>>],
               outbox' = [outbox EXCEPT ![w] =
                             <<WagerEvent("PROCESSED", id), BalanceChanged(id, 1, amount)>>]
        PROVE  \E x, y, e, o, v : Moved(w, x, y, e, o, v)
    <3>. DEFINE x == WagerEvent("PROCESSED", id)
                y == BalanceChanged(id, 1, amount)
                e == Entry(id, "CREDIT", amount, 0, amount)
                row == OpeningRow(w, amount)
    <3>1. /\ amount \in Nat /\ row # None /\ row.status = "PROCESSED"
          /\ row.payload.wallet = w
      BY OpeningRowType, NoneAssumption DEF OpeningRow
    <3>2. /\ x \in Event /\ x.type = "PROCESSED" /\ x.tx = id
          /\ y.type = "BALANCE_CHANGED" /\ y.tx = id /\ y.version = 1 /\ y.balance = amount
          /\ e.tx = id /\ e.after = amount
      BY DEF WagerEvent, BalanceChanged, Event, Entry
    <3>. HIDE DEF x, y, e, row
    <3>3. /\ rows'[id] = row /\ rows[id] = None
          /\ \A j \in TxIds : j # id => rows'[j] = rows[j]
          /\ ledger'[w] = <<e>> /\ outbox'[w] = <<x, y>>
      BY <2>3 DEF Fresh, IndInv, TypeOK, TablesTypeOK, x, y, e, row
    <3>4. Announces(w, x)
      BY <3>1, <3>2, <3>3 DEF Announces, Final
    <3>5. OnlyNews(w, {id})
      BY <3>3 DEF OnlyNews, Final
    <3>6. /\ Extended(outbox[w], <<x>>, x) /\ Extended(<<x>>, outbox'[w], y)
          /\ Extended(ledger[w], ledger'[w], e)
      BY <2>1, <3>3 DEF Extended
    <3>7. wallets'[w].version = 1
      BY <1>4 DEF OpenWallet, IndInv, TypeOK, TablesTypeOK
    <3>8. Moved(w, x, y, e, <<x>>, 0)
      BY <2>1, <3>2, <3>4, <3>5, <3>6, <3>7 DEF Moved
    <3>. QED BY <3>8
  <2>. QED BY <1>4, <2>2, <2>3 DEF OpenWallet
<1>. QED BY <1>1, <1>2, <1>3, <1>4, CommitTells DEF Next

\* An event once true stays so.
LEMMA EventKept ==
    ASSUME IndInv, RowsInv, Next, NEW x \in Event, EventSound(rows, x)
    PROVE  EventSound(rows', x)
<1>1. x.tx \in TxIds /\ rows[x.tx] # None
  BY DEF Event, EventSound
<1>2. /\ rows'[x.tx] # None
      /\ Terminal(rows[x.tx].status) => rows'[x.tx] = rows[x.tx]
  BY <1>1, RowsKept
<1>. QED BY <1>2 DEF EventSound, Terminal

\* What the events of one wallet must be after a step.
ToldTruly(w) ==
    /\ Len(outbox'[w]) \in Nat
    /\ \A i \in 1..Len(outbox[w]) :
          i \in 1..Len(outbox'[w]) /\ outbox'[w][i] = outbox[w][i]
    /\ \A i \in 1..Len(outbox'[w]) : EventSound(rows', outbox'[w][i])
    /\ OutcomesDistinct(outbox'[w])
    /\ Mirrors(outbox'[w], ledger'[w], wallets'[w].version)
    /\ \A id \in TxIds : (/\ Final(rows', id) /\ ~Final(rows, id)
                          /\ rows'[id].payload.wallet = w) =>
          \E i \in 1..Len(outbox'[w]) :
              outbox'[w][i].tx = id /\ outbox'[w][i].type = rows'[id].status

\* A step tells the truth in every wallet's outbox.
LEMMA StepTellsTruly ==
    ASSUME IndInv, RowsInv, UnopenedIsSilent, DecisionInv, OutboxInv, Next,
           NEW w \in Wallets
    PROVE  ToldTruly(w)
<1>1. /\ outbox[w] \in Seq(Event) /\ Len(outbox[w]) \in Nat
      /\ ledger[w] \in Seq(LedgerEntry) /\ Len(ledger[w]) \in Nat
  BY LenProperties DEF IndInv, TypeOK, TablesTypeOK
<1>2. \A i \in 1..Len(outbox[w]) :
         EventSound(rows, outbox[w][i]) /\ EventSound(rows', outbox[w][i])
  <2>1. SUFFICES ASSUME NEW i \in 1..Len(outbox[w])
                 PROVE  EventSound(rows, outbox[w][i]) /\ EventSound(rows', outbox[w][i])
    OBVIOUS
  <2>2. outbox[w][i] \in Event
    BY <1>1, ElementOfSeq
  <2>3. EventSound(rows, outbox[w][i])
    BY DEF OutboxInv, EventsSound
  <2>. QED BY <2>2, <2>3, EventKept
<1>3. /\ OutcomesDistinct(outbox[w])
      /\ Mirrors(outbox[w], ledger[w], wallets[w].version)
  BY MirrorsIsMirror DEF OutboxInv
<1>4. CASE Silent(w)
  <2>1. Mirrors(outbox'[w], ledger'[w], wallets'[w].version)
    BY <1>3, <1>4, NothingMirrorsNothing DEF Silent
  <2>. QED BY <1>1, <1>2, <1>3, <1>4, <2>1 DEF Silent, OnlyNews, ToldTruly
<1>5. ASSUME NEW x, Announces(w, x)
      PROVE  /\ EventSound(rows', x)
             /\ \A i \in 1..Len(outbox[w]) :
                   (x.type \in {"PROCESSED", "REJECTED"} /\ outbox[w][i].tx = x.tx) =>
                       outbox[w][i].type # x.type
  <2>1. EventSound(rows', x)
    BY <1>5 DEF Announces, EventSound
  <2>2. ASSUME NEW i \in 1..Len(outbox[w]), x.type \in {"PROCESSED", "REJECTED"},
               outbox[w][i].tx = x.tx, outbox[w][i].type = x.type
        PROVE  FALSE
    BY <1>2, <1>5, <2>2 DEF EventSound, Announces, Final
  <2>. QED BY <2>1, <2>2
<1>6. ASSUME NEW x, Announced(w, x)
      PROVE  ToldTruly(w)
  <2>1. Announces(w, x) /\ Extended(outbox[w], outbox'[w], x) /\ OnlyNews(w, {x.tx})
    BY <1>6 DEF Announced
  <2>2. /\ \A i \in 1..Len(outbox'[w]) : EventSound(rows', outbox'[w][i])
        /\ OutcomesDistinct(outbox'[w]) /\ Len(outbox'[w]) \in Nat
    BY <1>1, <1>2, <1>3, <1>5, <2>1, OutcomeExtends
  <2>3. Mirrors(outbox'[w], ledger'[w], wallets'[w].version)
    BY <1>1, <1>3, <1>6, <2>1, OutcomeKeepsMirror DEF Announced, Announces
  <2>4. /\ Len(outbox[w]) + 1 \in 1..Len(outbox'[w])
        /\ outbox'[w][Len(outbox[w]) + 1] = x
        /\ \A i \in 1..Len(outbox[w]) :
              i \in 1..Len(outbox'[w]) /\ outbox'[w][i] = outbox[w][i]
    BY <1>1, <2>1 DEF Extended
  <2>5. ASSUME NEW id \in TxIds, Final(rows', id), ~Final(rows, id),
               rows'[id].payload.wallet = w
        PROVE  \E i \in 1..Len(outbox'[w]) :
                  outbox'[w][i].tx = id /\ outbox'[w][i].type = rows'[id].status
    BY <2>1, <2>4, <2>5 DEF OnlyNews, Announces
  <2>. QED BY <2>2, <2>3, <2>4, <2>5 DEF ToldTruly
<1>7. ASSUME NEW x, NEW y, NEW e, NEW o, NEW v, Moved(w, x, y, e, o, v)
      PROVE  ToldTruly(w)
  <2>1. /\ Announces(w, x) /\ Extended(outbox[w], o, x) /\ OnlyNews(w, {x.tx})
        /\ Extended(o, outbox'[w], y) /\ Extended(ledger[w], ledger'[w], e)
        /\ y.type = "BALANCE_CHANGED" /\ y.version = v + 1 /\ v \in Nat
        /\ y.tx = x.tx /\ y.tx = e.tx /\ y.balance = e.after
        /\ wallets'[w].version = v + 1
        /\ wallets[w].version = v \/ (outbox[w] = <<>> /\ ledger[w] = <<>>)
    BY <1>7 DEF Moved
  <2>2. /\ \A i \in 1..Len(o) : EventSound(rows', o[i])
        /\ OutcomesDistinct(o) /\ Len(o) \in Nat
    BY <1>1, <1>2, <1>3, <1>5, <2>1, OutcomeExtends
  <2>3. EventSound(rows', y)
    BY <2>1 DEF EventSound, Announces
  <2>4. /\ \A i \in 1..Len(outbox'[w]) : EventSound(rows', outbox'[w][i])
        /\ OutcomesDistinct(outbox'[w]) /\ Len(outbox'[w]) \in Nat
    BY <2>1, <2>2, <2>3, OutcomeExtends
  <2>5. Mirrors(outbox[w], ledger[w], v)
    BY <1>3, <2>1, NothingMirrorsNothing
  <2>6. Mirrors(o, ledger[w], v)
    BY <1>1, <2>1, <2>5, OutcomeKeepsMirror DEF Announces
  <2>7. \A k \in 1..Len(o) : o[k].type = "BALANCE_CHANGED" => o[k].version \in Nat
    BY <2>2 DEF EventSound
  <2>8. Mirrors(outbox'[w], ledger'[w], wallets'[w].version)
    BY <1>1, <2>1, <2>2, <2>6, <2>7, ChangeKeepsMirror
  <2>9. /\ Len(outbox[w]) + 1 \in 1..Len(outbox'[w])
        /\ outbox'[w][Len(outbox[w]) + 1] = x
        /\ \A i \in 1..Len(outbox[w]) :
              i \in 1..Len(outbox'[w]) /\ outbox'[w][i] = outbox[w][i]
    BY <1>1, <2>1 DEF Extended
  <2>10. ASSUME NEW id \in TxIds, Final(rows', id), ~Final(rows, id),
                rows'[id].payload.wallet = w
         PROVE  \E i \in 1..Len(outbox'[w]) :
                   outbox'[w][i].tx = id /\ outbox'[w][i].type = rows'[id].status
    BY <2>1, <2>9, <2>10 DEF OnlyNews, Announces
  <2>. QED BY <2>4, <2>8, <2>9, <2>10 DEF ToldTruly
<1>. QED BY <1>4, <1>6, <1>7, StepTells

\* OutboxInv is kept by every step.
LEMMA NextOutbox ==
    ASSUME IndInv, RowsInv, UnopenedIsSilent, DecisionInv, OutboxInv, Next, TablesTypeOK'
    PROVE  OutboxInv'
<1>1. \A w \in Wallets : ToldTruly(w)
  BY StepTellsTruly
<1>2. EventsSound'
  BY <1>1 DEF ToldTruly, EventsSound
<1>3. (\A w \in Wallets : OutcomesDistinct(outbox[w]))'
  BY <1>1 DEF ToldTruly
<1>4. (\A w \in Wallets : ChangesMirrorLedger(w))'
  BY <1>1 DEF ToldTruly, ChangesMirrorLedger, Mirrors
<1>5. ASSUME NEW id \in TxIds, Final(rows', id)
      PROVE  \E i \in 1..Len(outbox'[rows'[id].payload.wallet]) :
                LET x == outbox'[rows'[id].payload.wallet][i]
                IN  x.tx = id /\ x.type = rows'[id].status
  <2>1. rows'[id] \in Row
    BY <1>5 DEF Final, TablesTypeOK
  <2>2. PICK w \in Wallets : w = rows'[id].payload.wallet
    BY <2>1, RowWallet
  <2>3. CASE ~Final(rows, id)
    BY <1>1, <1>5, <2>2, <2>3 DEF ToldTruly
  <2>4. CASE Final(rows, id)
    <3>1. rows'[id] = rows[id]
      BY <2>4, RowsKept DEF Final, Terminal
    <3>2. PICK i \in 1..Len(outbox[w]) : outbox[w][i].tx = id /\ outbox[w][i].type = rows[id].status
      BY <2>2, <2>4, <3>1 DEF OutboxInv, OutcomesAnnounced
    <3>3. i \in 1..Len(outbox'[w]) /\ outbox'[w][i] = outbox[w][i]
      BY <1>1 DEF ToldTruly
    <3>. QED BY <2>2, <3>1, <3>2, <3>3
  <2>. QED BY <2>3, <2>4
<1>6. OutcomesAnnounced'
  BY <1>5 DEF OutcomesAnnounced
<1>. QED BY <1>2, <1>3, <1>4, <1>6 DEF OutboxInv

-----------------------------------------------------------------------------
(* The theorems.                                                           *)

EffectInv == DecisionInv /\ LedgerInv /\ OutboxInv

\* The empty database satisfies the invariant.
LEMMA InitEffectInv == Init => EffectInv
<1>. SUFFICES ASSUME Init PROVE EffectInv
  OBVIOUS
<1>1. DecisionInv
  BY DEF Init, DecisionInv, VerdictFits, RetryFits, StoredSound
<1>2. \A w \in Wallets : Len(ledger[w]) = 0 /\ Len(outbox[w]) = 0
  BY DEF Init
<1>3. LedgerInv
  BY <1>2 DEF Init, LedgerInv, EntriesSound, EntriesDistinct, MovementsRecorded, Movement
<1>4. OutboxInv
  BY <1>2 DEF Init, OutboxInv, EventsSound, OutcomesDistinct, OutcomesAnnounced, Final,
         ChangesMirrorLedger
<1>. QED BY <1>1, <1>3, <1>4 DEF EffectInv

\* Every step keeps the invariant.
LEMMA NextEffectInv == IndInv /\ HistoryInv /\ EffectInv /\ [Next]_vars => EffectInv'
<1>. SUFFICES ASSUME IndInv, HistoryInv, EffectInv, [Next]_vars PROVE EffectInv'
  OBVIOUS
<1>1. RowsInv /\ UnopenedIsSilent /\ DecisionInv /\ LedgerInv /\ OutboxInv
  BY DEF HistoryInv, EffectInv
<1>2. CASE Next
  <2>1. TablesTypeOK'
    BY NextIndInv DEF IndInv, TypeOK
  <2>. QED BY <1>1, <1>2, <2>1, NextDecision, NextLedger, NextOutbox DEF EffectInv
<1>3. CASE UNCHANGED vars
  <2>1. /\ wallets' = wallets /\ rows' = rows /\ ledger' = ledger /\ outbox' = outbox
        /\ pc' = pc /\ job' = job /\ tries' = tries /\ verdict' = verdict /\ plan' = plan
    BY <1>3 DEF vars, db, session
  <2>2. DecisionInv'
    BY <1>1, <2>1 DEF DecisionInv, VerdictFits, RetryFits, StoredSound, Decided, Collided,
          Payload, IsWorker, ExistsSuccessfulReversal
  <2>3. LedgerInv'
    BY <1>1, <2>1 DEF LedgerInv, EntriesSound, EntriesDistinct, MovementsRecorded
  <2>4. OutboxInv'
    BY <1>1, <2>1 DEF OutboxInv, EventsSound, OutcomesAnnounced, ChangesMirrorLedger
  <2>. QED BY <2>2, <2>3, <2>4 DEF EffectInv
<1>. QED BY <1>2, <1>3

\* All three invariants hold in every execution.
LEMMA EffectInvariance == Spec => [](IndInv /\ HistoryInv /\ EffectInv)
  BY InitIndInv, NextIndInv, InitHistoryInv, NextHistoryInv, InitEffectInv, NextEffectInv,
     PTL DEF Spec

\* What a session read under the wallet lock is so until it commits: the
\* version guard of UpdateBalance never fails, and no reversal found possible
\* by ExistsSuccessfulReversal is overtaken by another.
THEOREM LocksProtectReads == Spec => []LockedReadsStayTrue
<1>1. ASSUME IndInv, EffectInv
      PROVE  LockedReadsStayTrue
  <2>1. \A s \in Sessions : SessionFits(s) /\ VerdictFits(s)
    BY <1>1 DEF IndInv, EffectInv, DecisionInv
  <2>. QED BY <2>1 DEF LockedReadsStayTrue, SessionFits, InTransaction, HoldsWallet,
              VerdictFits, Decided
<1>. QED BY <1>1, EffectInvariance, PTL

\* processWithRetry's second transaction is always answered by its lookups:
\* the row it collided with is committed and found, and no second INSERT comes.
THEOREM RetriesConclude == Spec => []RetryIsConclusive
<1>1. EffectInv => RetryIsConclusive
  BY DEF EffectInv, DecisionInv, RetryFits, RetryIsConclusive
<1>. QED BY <1>1, EffectInvariance, PTL

\* A transaction is successfully reversed at most once, whichever of REFUND and
\* ROLLBACK, new or resumed, and over however many concurrent sessions.
THEOREM ReversedOnce == Spec => []OneReversalPerReference
<1>1. ASSUME IndInv, HistoryInv, EffectInv
      PROVE  OneReversalPerReference
  <2>1. SUFFICES ASSUME NEW i \in TxIds, NEW j \in TxIds, i # j,
                        rows[i] # None, rows[i].status = "PROCESSED",
                        IsReversal(rows[i].payload.kind),
                        rows[j] # None, rows[j].status = "PROCESSED",
                        IsReversal(rows[j].payload.kind),
                        rows[i].payload.provider = rows[j].payload.provider,
                        rows[i].payload.ref = rows[j].payload.ref
                 PROVE  FALSE
    BY DEF OneReversalPerReference
  <2>2. IsRequestRow(i) /\ IsRequestRow(j)
    BY <2>1 DEF IsRequestRow, IsReversal
  <2>3. ASSUME NEW k \in {i, j}
        PROVE  /\ FitsReference(rows, rows[k].payload, rows[k].ref)
               /\ rows[k].ref \in TxIds /\ IsRequestRow(rows[k].ref)
               /\ rows[rows[k].ref].payload.provider = rows[k].payload.provider
               /\ rows[rows[k].ref].payload.ext = rows[k].payload.ref
    <3>. DEFINE p == rows[k].payload
                q == rows[rows[k].ref].payload
    <3>1. rows[k] \in Row /\ p \in AcceptedPayloads
      <4>1. rows[k] \in Row /\ p \in Payloads /\ IsReversal(p.kind)
        BY <1>1, <2>1 DEF IndInv, TypeOK, TablesTypeOK, Row
      <4>2. \A w, a : OpeningRow(w, a).payload.kind = "OPENING"
        BY DEF OpeningRow
      <4>. QED BY <4>1, <4>2 DEF Payloads, AcceptedPayloads, IsReversal
    <3>2. p.ref # None
      BY <2>1, <3>1, ReversalsHaveReferences
    <3>3. FitsReference(rows, p, rows[k].ref)
      BY <1>1, <2>1, <3>2 DEF EffectInv, DecisionInv, StoredSound
    <3>4. q.provider = p.provider /\ q.kind \in KindRules[p.kind].referenceKinds
      BY <3>3, AbsenceAssumption DEF FitsReference, ValidateReference
    <3>5. q.kind # "OPENING"
      BY <2>1, <3>4 DEF KindRules, KindRule, IsReversal
    <3>. QED BY <3>3, <3>4, <3>5 DEF FitsReference, IsRequestRow
  <2>4. rows[i].ref = rows[j].ref
    <3>. DEFINE a == rows[i].ref
                b == rows[j].ref
    <3>1. /\ a \in TxIds /\ b \in TxIds /\ IsRequestRow(a) /\ IsRequestRow(b)
          /\ rows[a].payload.provider = rows[b].payload.provider
          /\ rows[a].payload.ext = rows[b].payload.ext
      BY <2>1, <2>3
    <3>. HIDE DEF a, b
    <3>2. a = b
      BY <1>1, <3>1 DEF HistoryInv, RowsInv, RowsUnique, UniqueConflict
    <3>. QED BY <3>2 DEF a, b
  <2>5. rows[i].ref # None
    BY <2>3, NoneAssumption
  <2>6. UniqueConflict(rows[i], rows[j])
    BY <2>1, <2>4, <2>5 DEF UniqueConflict, SuccessfulReversalOf
  <2>. QED BY <1>1, <2>1, <2>2, <2>6 DEF HistoryInv, RowsInv, RowsUnique
<1>. QED BY <1>1, EffectInvariance, PTL

\* Every submission takes effect exactly once: one ledger entry, in its own
\* wallet and of its own amount, if it is PROCESSED and its kind moves money,
\* and none otherwise, in every interleaving, retry, redelivery and crash.
THEOREM EffectsHappenOnce == Spec => []EffectExactlyOnce
<1>1. ASSUME IndInv, EffectInv
      PROVE  EffectExactlyOnce
  <2>1. SUFFICES ASSUME NEW id \in TxIds
                 PROVE  LET entries == UNION {{<<w, i>> : i \in {j \in 1..Len(ledger[w]) :
                                                  ledger[w][j].tx = id}} : w \in Wallets}
                        IN  IF Movement(rows, id)
                            THEN \E i \in 1..Len(ledger[rows[id].payload.wallet]) :
                                    /\ entries = {<<rows[id].payload.wallet, i>>}
                                    /\ ledger[rows[id].payload.wallet][i].amount
                                         = rows[id].payload.amount
                            ELSE entries = {}
    BY DEF EffectExactlyOnce, Movement
  <2>. DEFINE entries == UNION {{<<w, i>> : i \in {j \in 1..Len(ledger[w]) :
                                    ledger[w][j].tx = id}} : w \in Wallets}
  <2>2. ASSUME NEW x \in entries
        PROVE  \E w \in Wallets : \E i \in 1..Len(ledger[w]) :
                  /\ x = <<w, i>> /\ ledger[w][i].tx = id
                  /\ EntrySound(rows, w, ledger[w][i])
    BY <1>1 DEF EffectInv, LedgerInv, EntriesSound
  <2>3. ASSUME NEW w \in Wallets, NEW i \in 1..Len(ledger[w]), ledger[w][i].tx = id
        PROVE  <<w, i>> \in entries
    BY <2>3
  <2>. HIDE DEF entries
  <2>4. CASE ~Movement(rows, id)
    <3>1. \A x : x \notin entries
      BY <2>2, <2>4 DEF EntrySound, Movement
    <3>. QED BY <2>4, <3>1 DEF entries
  <2>5. CASE Movement(rows, id)
    <3>1. rows[id] \in Row
      BY <1>1, <2>5 DEF Movement, IndInv, TypeOK, TablesTypeOK
    <3>2. PICK w \in Wallets : w = rows[id].payload.wallet
      BY <3>1, RowWallet
    <3>3. PICK i \in 1..Len(ledger[w]) : ledger[w][i].tx = id
      BY <1>1, <2>5, <3>2 DEF EffectInv, LedgerInv, MovementsRecorded
    <3>4. ledger[w][i].amount = rows[id].payload.amount
      BY <1>1, <3>3 DEF EffectInv, LedgerInv, EntriesSound, EntrySound
    <3>5. ASSUME NEW x \in entries
          PROVE  x = <<w, i>>
      <4>1. PICK v \in Wallets : \E k \in 1..Len(ledger[v]) :
               /\ x = <<v, k>> /\ ledger[v][k].tx = id
               /\ EntrySound(rows, v, ledger[v][k])
        BY <2>2
      <4>2. PICK k \in 1..Len(ledger[v]) :
               /\ x = <<v, k>> /\ ledger[v][k].tx = id
               /\ EntrySound(rows, v, ledger[v][k])
        BY <4>1
      <4>3. v = w
        BY <3>2, <4>2 DEF EntrySound
      <4>4. k = i
        BY <1>1, <3>3, <4>2, <4>3 DEF EffectInv, LedgerInv, EntriesDistinct
      <4>. QED BY <4>2, <4>3, <4>4
    <3>6. entries = {<<w, i>>}
      BY <2>3, <3>3, <3>5
    <3>. QED BY <2>5, <3>2, <3>4, <3>6 DEF entries
  <2>. QED BY <2>4, <2>5
<1>. QED BY <1>1, EffectInvariance, PTL

\* A reversal and what it reverses move money in opposite directions.
LEMMA ReversalsOppose ==
    ASSUME NEW p, NEW table, NEW r, NEW r2,
           IsReversal(p.kind), p.ref # None, table[r] # None,
           table[r].payload.kind \in KindRules[p.kind].referenceKinds
    PROVE  DirectionOf(table, p, r) # DirectionOf(table, table[r].payload, r2)
<1>. DEFINE q == table[r].payload
<1>1. \/ p.kind = "REFUND" /\ q.kind = "BET"
      \/ p.kind = "ROLLBACK" /\ q.kind \in {"BET", "WIN", "REFUND"}
  BY DEF IsReversal, KindRules, KindRule
<1>. QED BY <1>1 DEF DirectionOf, MovementDecision, Decision, KindRules, KindRule

\* Every PROCESSED operation with a reference resolved it to a PROCESSED one
\* that validateReference accepts, and a reversal moves the reversed amount in
\* the direction opposite to the entry of its reference.
THEOREM ReferencesSound == Spec => []ReferencesAreSound
<1>1. ASSUME IndInv, EffectInv
      PROVE  ReferencesAreSound
  <2>1. SUFFICES ASSUME NEW id \in TxIds, rows[id] # None, rows[id].status = "PROCESSED",
                        rows[id].payload.ref # None
                 PROVE  LET p == rows[id].payload
                            r == rows[id].ref
                            dir(x) == {ledger[p.wallet][i].direction :
                                         i \in {j \in 1..Len(ledger[p.wallet]) :
                                                   ledger[p.wallet][j].tx = x}}
                        IN  /\ r # None /\ rows[r] # None
                            /\ rows[r].status = "PROCESSED"
                            /\ rows[r].payload.ext = p.ref
                            /\ \A f \in {"provider", "player", "wallet", "round", "currency"} :
                                  rows[r].payload[f] = p[f]
                            /\ IsReversal(p.kind) =>
                                  /\ rows[r].payload.amount = p.amount
                                  /\ rows[r].payload.kind # "ROLLBACK"
                                  /\ dir(id) \cap dir(r) = {}
    BY DEF ReferencesAreSound
  <2>. DEFINE p == rows[id].payload
              r == rows[id].ref
              q == rows[r].payload
              dir(x) == {ledger[p.wallet][i].direction :
                           i \in {j \in 1..Len(ledger[p.wallet]) : ledger[p.wallet][j].tx = x}}
  <2>2. FitsReference(rows, p, r)
    BY <1>1, <2>1 DEF EffectInv, DecisionInv, StoredSound
  <2>3. /\ r \in TxIds /\ r # None /\ rows[r] # None /\ rows[r].status = "PROCESSED"
        /\ q.ext = p.ref
    BY <2>2, NoneAssumption DEF FitsReference
  <2>4. /\ q.provider = p.provider /\ q.player = p.player /\ q.wallet = p.wallet
        /\ q.round = p.round /\ q.currency = p.currency
        /\ q.kind \in KindRules[p.kind].referenceKinds
        /\ KindRules[p.kind].reversal => p.amount = q.amount
    BY <2>2, AbsenceAssumption DEF FitsReference, ValidateReference
  <2>5. p.wallet \in Wallets
    BY <1>1, <2>1, RowWallet DEF IndInv, TypeOK, TablesTypeOK
  <2>6. \A x \in TxIds : \A d \in dir(x) : d = DirectionOf(rows, rows[x].payload, rows[x].ref)
    BY <1>1, <2>5 DEF EffectInv, LedgerInv, EntriesSound, EntrySound
  <2>7. ASSUME IsReversal(p.kind)
        PROVE  q.amount = p.amount /\ q.kind # "ROLLBACK" /\ dir(id) \cap dir(r) = {}
    <3>1. q.amount = p.amount /\ q.kind # "ROLLBACK"
      BY <2>4, <2>7 DEF KindRules, KindRule, IsReversal
    <3>2. DirectionOf(rows, p, r) # DirectionOf(rows, q, rows[r].ref)
      <4>1. /\ IsReversal(p.kind) /\ p.ref # None /\ rows[r] # None
            /\ rows[r].payload.kind \in KindRules[p.kind].referenceKinds
        BY <2>1, <2>3, <2>4, <2>7
      <4>. HIDE DEF p, r
      <4>2. DirectionOf(rows, p, r) # DirectionOf(rows, rows[r].payload, rows[r].ref)
        BY <4>1, ReversalsOppose
      <4>. QED BY <4>2
    <3>. QED BY <2>3, <2>6, <3>1, <3>2
  <2>8. \A f \in {"provider", "player", "wallet", "round", "currency"} : q[f] = p[f]
    BY <2>4
  <2>. QED BY <2>3, <2>7, <2>8
<1>. QED BY <1>1, EffectInvariance, PTL

\* The outbox tells the truth: the WalletBalanceChanged events of a wallet are
\* its ledger in order with consecutive versions, and every stored transaction
\* has exactly the one terminal event of its status.
THEOREM OutboxTellsTheTruth == Spec => []OutboxMirrorsState
<1>1. ASSUME IndInv, EffectInv
      PROVE  OutboxMirrorsState
  <2>1. ASSUME NEW w \in Wallets, NEW id \in TxIds, rows[id] # None,
               rows[id].payload.wallet = w, NEW st \in {"PROCESSED", "REJECTED"}
        PROVE  Cardinality({i \in 1..Len(outbox[w]) :
                               outbox[w][i].tx = id /\ outbox[w][i].type = st})
                   = IF rows[id].status = st THEN 1 ELSE 0
    <3>. DEFINE told == {i \in 1..Len(outbox[w]) :
                            outbox[w][i].tx = id /\ outbox[w][i].type = st}
    <3>1. CASE rows[id].status = st
      <4>1. PICK i \in 1..Len(outbox[w]) : outbox[w][i].tx = id /\ outbox[w][i].type = st
        BY <1>1, <2>1, <3>1 DEF EffectInv, OutboxInv, OutcomesAnnounced, Final
      <4>2. told = {i}
        BY <1>1, <2>1, <4>1 DEF EffectInv, OutboxInv, OutcomesDistinct
      <4>. QED BY <3>1, <4>2, FS_Singleton
    <3>2. CASE rows[id].status # st
      <4>1. told = {}
        BY <1>1, <2>1, <3>2 DEF EffectInv, OutboxInv, EventsSound, EventSound
      <4>. QED BY <3>2, <4>1, FS_EmptySet
    <3>. QED BY <3>1, <3>2
  <2>. QED BY <1>1, <2>1 DEF OutboxMirrorsState, EffectInv, OutboxInv
<1>. QED BY <1>1, EffectInvariance, PTL

-----------------------------------------------------------------------------
(* Expiry.  The second FindReference of an expiry sees what the first saw, *)
(* as far as the wallet lock protects it.                                  *)

\* No row of the session's wallet that it may refer to has been processed.
AwaitsReference(s) ==
    pc[s] = "expire" =>
        \A r \in References(Payload(s)) :
            rows[r].payload.wallet = WalletOf(s) => rows[r].status # "PROCESSED"

ExpiriesFit == \A s \in Sessions : AwaitsReference(s)

\* ExpiryCodeIsTruthful for a reference of the operation's own wallet.
ExpiryCodeIsTruthfulInWallet ==
    [][\A s \in Sessions :
          (/\ pc[s] = "expire" /\ pc'[s] = "complete"
           /\ verdict'[s].code = "REFERENCE_NOT_PROCESSED"
           /\ rows[verdict'[s].ref].payload.wallet = WalletOf(s))
          => rows[verdict'[s].ref].status # "PROCESSED"]_vars

\* An operation names at most one row: external ids are unique in a provider.
LEMMA OneReference ==
    ASSUME TablesTypeOK, RowsUnique, NEW p, p.ref # None,
           NEW q \in References(p), NEW r \in References(p)
    PROVE  q = r
<1>1. ASSUME NEW x \in References(p)
      PROVE  x \in TxIds /\ IsRequestRow(x)
  <2>1. /\ x \in TxIds /\ rows[x] # None /\ rows[x] \in Row
        /\ rows[x].payload.ext # None
    BY <1>1, ReferencesAreStored
  <2>2. rows[x].payload \in Payloads
    BY <2>1 DEF Row
  <2>3. CASE rows[x].payload \in {o.payload : o \in Accepted}
    BY <2>1, <2>3, PreparedIsWellFormed DEF IsRequestRow, ExternalKinds
  <2>4. CASE rows[x].payload \in {OpeningRow(w, a).payload : w \in Wallets, a \in OpeningBalances}
    BY <2>1, <2>4 DEF OpeningRow
  <2>. QED BY <2>2, <2>3, <2>4, <2>1 DEF Payloads
<1>2. /\ rows[q].payload.provider = rows[r].payload.provider
      /\ rows[q].payload.ext = rows[r].payload.ext
  BY ReferencesAreStored
<1>. QED BY <1>1, <1>2 DEF RowsUnique, UniqueConflict

\* The decision to wait was taken on a reference that is missing or pending.
LEMMA WaitsForUnprocessed ==
    ASSUME TablesTypeOK, RowsUnique, NEW p \in AcceptedPayloads,
           ResolvedVerdict(p).action = "WAIT", NEW r \in References(p)
    PROVE  rows[r].status # "PROCESSED"
<1>. DEFINE ref == CHOOSE id \in References(p) : TRUE
            d == Evaluate(p, rows[ref], ExistsSuccessfulReversal(ref))
<1>1. ref \in References(p)
  OBVIOUS
<1>2. d.action = "WAIT"
  BY DEF ResolvedVerdict, Verdict
<1>. HIDE DEF ref
<1>3. rows[ref] # None
  BY <1>1, ReferencesAreStored
<1>4. p.ref # None /\ MustWait(rows[ref])
  BY <1>2 DEF Evaluate, Invalid, Rejection, MovementDecision, Decision, WaitForReference
<1>. QED BY <1>1, <1>3, <1>4, OneReference DEF MustWait

\* Rows of a wallet change only while a session inside a transaction on it
\* commits, or while the wallet is being opened.
LEMMA RowsOfAWallet ==
    ASSUME IndInv, Next, NEW t \in Sessions, InTransaction(t), NEW id \in TxIds,
           rows'[id] # rows[id], rows'[id].payload.wallet = WalletOf(t)
    PROVE  Commit(t)
<1>1. HoldsWallet(t)
  BY InTransactionFacts
<1>2. ASSUME NEW s \in Sessions, Commit(s), pc[s] = "commit", rows'[id] = plan[s].row
      PROVE  s = t
  <2>1. InTransaction(s) /\ WalletOf(s) = WalletOf(t)
    BY <1>2, CommitFacts
  <2>. QED BY <2>1, WalletIsExclusive
<1>3. ASSUME NEW w \in Wallets, NEW amount, OpenWallet(w, amount),
             rows'[id] = OpeningRow(w, amount)
      PROVE  FALSE
  <2>1. w = WalletOf(t)
    BY <1>3 DEF OpeningRow
  <2>. QED BY <1>1, <1>3, <2>1 DEF OpenWallet, HoldsWallet
<1>. QED BY <1>2, <1>3, RowsChange

\* A session that stays in its transaction keeps its operation.
LEMMA PayloadKept ==
    ASSUME IndInv, RowsInv, Next, NEW t \in Sessions, InTransaction(t), job'[t] = job[t]
    PROVE  Payload(t)' = Payload(t)
<1>1. IsWorker(t) => rows'[job[t].id].payload = rows[job[t].id].payload
  BY InTransactionFacts, RowsKept, NoneAssumption
<1>. QED BY <1>1 DEF Payload, IsWorker

\* Every step keeps what the expiry is waiting for.
LEMMA NextExpiries == IndInv /\ HistoryInv /\ ExpiriesFit /\ [Next]_vars => ExpiriesFit'
<1>. SUFFICES ASSUME IndInv, RowsInv, \A s \in Sessions : AwaitsReference(s), [Next]_vars,
                     NEW t \in Sessions, pc'[t] = "expire"
              PROVE  AwaitsReference(t)'
  BY DEF HistoryInv, ExpiriesFit, AwaitsReference
<1>1. CASE UNCHANGED vars
  BY <1>1 DEF AwaitsReference, References, FindByExternalTransactionID, Payload, WalletOf,
        IsWorker, vars, db, session
<1>2. ASSUME Next, pc[t] = "expire", job'[t] = job[t], ~Commit(t)
      PROVE  AwaitsReference(t)'
  <2>1. InTransaction(t)
    BY <1>2 DEF InTransaction
  <2>2. Payload(t)' = Payload(t) /\ WalletOf(t)' = WalletOf(t)
    BY <1>2, <2>1, PayloadKept DEF WalletOf
  <2>. SUFFICES ASSUME NEW r \in References(Payload(t))',
                       rows'[r].payload.wallet = WalletOf(t)
                PROVE  rows'[r].status # "PROCESSED"
    BY <2>2 DEF AwaitsReference
  <2>3. /\ r \in TxIds /\ rows'[r] # None
        /\ rows'[r].payload.ext = Payload(t).ref
        /\ rows'[r].payload.provider = Payload(t).provider
    BY <2>2 DEF References, FindByExternalTransactionID
  <2>4. rows'[r] = rows[r]
    BY <1>2, <2>1, <2>3, RowsOfAWallet
  <2>5. r \in References(Payload(t))
    BY <2>3, <2>4 DEF References, FindByExternalTransactionID
  <2>. QED BY <1>2, <2>4, <2>5 DEF AwaitsReference
<1>3. ASSUME ResolvePending(t)
      PROVE  AwaitsReference(t)'
  <2>1. InTransaction(t)
    BY <1>3 DEF ResolvePending, InTransaction
  <2>2. /\ rows' = rows /\ job' = job
        /\ ResolvedVerdict(Payload(t)).action = "WAIT"
    BY <1>3 DEF ResolvePending, Plan, Goto, db, IndInv, TypeOK, SessionsTypeOK
  <2>3. \A r \in References(Payload(t)) : rows[r].status # "PROCESSED"
    BY <2>1, <2>2, InTransactionFacts, WaitsForUnprocessed DEF IndInv, TypeOK, RowsInv
  <2>4. References(Payload(t))' = References(Payload(t))
    BY <2>2 DEF References, FindByExternalTransactionID, Payload, IsWorker
  <2>. QED BY <2>2, <2>3, <2>4 DEF AwaitsReference
<1>4. ASSUME NEW s \in Sessions, Step(s), s # t
      PROVE  AwaitsReference(t)'
  <2>1. pc'[t] = pc[t] /\ job'[t] = job[t]
    <3>1. CASE Commit(s)
      BY <1>4, <3>1 DEF Commit, Finish, EndTx, IndInv, TypeOK, SessionsTypeOK
    <3>. QED BY <1>4, <3>1, QuietStep DEF OnlySession
  <2>2. ~Commit(t)
    BY <2>1 DEF Commit
  <2>. QED BY <1>2, <1>4, <2>1, <2>2 DEF Next
<1>5. ASSUME Step(t)
      PROVE  ResolvePending(t)
  BY <1>5 DEF Step, Process, Handle, ResumePending, Begin, InboxInsert, RefuseWallet,
        FindForUpdate, LookupByKey, LookupByExternal, ResolveNew, ExpirePending, InsertNew,
        RetryInNewTransaction, FindPendingForUpdate, CompletePending, Commit, Abort,
        TransientFailure, PermanentFailure, Plan, Goto, Finish, EndTx, IndInv, TypeOK,
        SessionsTypeOK
<1>6. ASSUME NEW w \in Wallets, NEW amount \in OpeningBalances, OpenWallet(w, amount)
      PROVE  AwaitsReference(t)'
  <2>1. pc' = pc /\ job' = job /\ ~Commit(t)
    BY <1>6 DEF OpenWallet, session, Commit
  <2>. QED BY <1>2, <1>6, <2>1 DEF Next
<1>. QED BY <1>1, <1>3, <1>4, <1>5, <1>6 DEF Next

\* The code is chosen on the same reference.
LEMMA ExpiryTells ==
    ASSUME IndInv, Next, NEW s \in Sessions, AwaitsReference(s),
           pc[s] = "expire", pc'[s] = "complete",
           verdict'[s].code = "REFERENCE_NOT_PROCESSED"
    PROVE  /\ verdict'[s].ref \in References(Payload(s))
           /\ rows[verdict'[s].ref].payload.wallet = WalletOf(s) =>
                 rows[verdict'[s].ref].status # "PROCESSED"
<1>1. ExpirePending(s)
  <2>1. ASSUME NEW t \in Sessions, Step(t), t # s
        PROVE  FALSE
    <3>1. CASE Commit(t)
      BY <2>1, <3>1 DEF Commit, Finish, EndTx, IndInv, TypeOK, SessionsTypeOK
    <3>. QED BY <2>1, <3>1, QuietStep DEF OnlySession
  <2>2. ASSUME NEW w \in Wallets, NEW amount \in OpeningBalances, OpenWallet(w, amount)
        PROVE  FALSE
    BY <2>2 DEF OpenWallet, session
  <2>3. Step(s)
    BY <2>1, <2>2 DEF Next
  <2>. QED BY <2>3 DEF Step, Process, Handle, ResumePending, Begin, InboxInsert,
        RefuseWallet, FindForUpdate, LookupByKey, LookupByExternal, ResolveNew,
        ResolvePending, InsertNew, RetryInNewTransaction, FindPendingForUpdate,
        CompletePending, Commit, Abort, TransientFailure, PermanentFailure, Plan, Goto,
        Finish, EndTx, IndInv, TypeOK, SessionsTypeOK
<1>2. verdict'[s] = IF References(Payload(s)) = {}
                    THEN Verdict(Rejection("REFERENCE_NOT_FOUND"), None)
                    ELSE Verdict(Rejection("REFERENCE_NOT_PROCESSED"),
                                 CHOOSE id \in References(Payload(s)) : TRUE)
  BY <1>1 DEF ExpirePending, IndInv, TypeOK, SessionsTypeOK
<1>3. References(Payload(s)) # {}
  BY <1>2 DEF Verdict, Rejection, Decision
<1>4. verdict'[s].ref \in References(Payload(s))
  BY <1>2, <1>3 DEF Verdict
<1>. QED BY <1>4 DEF AwaitsReference

\* An operation expires as REFERENCE_NOT_PROCESSED only while its reference, if
\* it is of the same wallet, is unprocessed, although the worker looked it up
\* twice, in two snapshots, to decide that and to choose the code.
THEOREM ExpiryIsTruthful == Spec => ExpiryCodeIsTruthfulInWallet
<1>1. Init => ExpiriesFit
  BY DEF Init, ExpiriesFit, AwaitsReference
<1>2. ASSUME IndInv, ExpiriesFit, [Next]_vars
      PROVE  [\A s \in Sessions :
                 (/\ pc[s] = "expire" /\ pc'[s] = "complete"
                  /\ verdict'[s].code = "REFERENCE_NOT_PROCESSED"
                  /\ rows[verdict'[s].ref].payload.wallet = WalletOf(s))
                 => rows[verdict'[s].ref].status # "PROCESSED"]_vars
  BY <1>2, ExpiryTells DEF ExpiriesFit
<1>. QED BY <1>1, <1>2, HistoryInvariance, NextExpiries, PTL
        DEF Spec, ExpiryCodeIsTruthfulInWallet

\* With one wallet every reference is of it.
THEOREM ExpiryIsTruthfulWithOneWallet ==
    ASSUME NEW w, Wallets = {w}
    PROVE  Spec => ExpiryCodeIsTruthful
<1>1. Init => ExpiriesFit
  BY DEF Init, ExpiriesFit, AwaitsReference
<1>2. ASSUME IndInv, ExpiriesFit, [Next]_vars
      PROVE  [\A s \in Sessions :
                 (/\ pc[s] = "expire" /\ pc'[s] = "complete"
                  /\ verdict'[s].code = "REFERENCE_NOT_PROCESSED")
                 => rows[verdict'[s].ref].status # "PROCESSED"]_vars
  <2>. SUFFICES ASSUME Next, NEW s \in Sessions, pc[s] = "expire", pc'[s] = "complete",
                       verdict'[s].code = "REFERENCE_NOT_PROCESSED"
                PROVE  rows[verdict'[s].ref].status # "PROCESSED"
    BY <1>2
  <2>1. verdict'[s].ref \in References(Payload(s))
    BY <1>2, ExpiryTells DEF ExpiriesFit
  <2>2. rows[verdict'[s].ref].payload.wallet = w
    BY <1>2, <2>1, ReferencesAreStored, RowWallet DEF IndInv, TypeOK
  <2>3. WalletOf(s) = w
    BY <1>2, InTransactionFacts DEF InTransaction
  <2>. QED BY <1>2, <2>2, <2>3, ExpiryTells DEF ExpiriesFit
<1>. QED BY <1>1, <1>2, HistoryInvariance, NextExpiries, PTL
        DEF Spec, ExpiryCodeIsTruthful

=============================================================================
