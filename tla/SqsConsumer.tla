---------------------------- MODULE SqsConsumer -----------------------------
(***************************************************************************)
(* The SQS consumers of every instance: the receive loop with its bounded  *)
(* workers, the handling of one message up to DeleteMessage, the retry and *)
(* dead-letter paths, and the two-phase stop.                              *)
(*                                                                         *)
(* What the transaction of a message does is ProcessOperation's; here it   *)
(* commits, is refused, or fails.  Whether it is refused depends on what   *)
(* other requests have stored by then, and every refusal is permanent to   *)
(* the consumer.  The input queue is external:                             *)
(* it hides a received message for a time, redelivers it under a new       *)
(* receipt, rejects an outdated receipt and moves a message received too   *)
(* often to the DLQ.  Message groups are left out: the order in which SQS  *)
(* offers messages is open.  Time is discrete, because the visibility      *)
(* timeout and the processing timeout are compared with each other.        *)
(***************************************************************************)
EXTENDS Naturals, FiniteSets

CONSTANTS
    None,
    Consumers,          \* instances with a consumer
    Messages,           \* messages the gateway may send, each once
    Poison,             \* messages refused before the transaction
    Batch,              \* MaxNumberOfMessages of a receive
    Concurrency,        \* SQS_CONSUMER_CONCURRENCY
    VisibilityTimeout, ProcessingTimeout, RetryMax,  \* in ticks
    MaxReceive,         \* maxReceiveCount of the redrive policy
    MaxFaults,          \* bound on failed calls and crashes
    MaxStops            \* bound on stops

VARIABLES
    queue,      \* the input queue: [at, receipt, left, by, backoff] per message
    dlq,        \* messages the consumer sent to the DLQ
    redriven,   \* messages SQS itself moved there
    inbox,      \* messages whose inbox row and effect are committed
    early,      \* messages a transaction has refused for want of their wallet
    preempted,  \* messages a transaction has refused for a conflicting row
    phase,      \* of each consumer: running, then the phases of stop
    loop,       \* where its run loop is
    batch,      \* receipts it received and has not dispatched
    handlers,   \* its worker goroutines: [msg, receipt, step, left]
    active,     \* receipts its workers track
    releasing,  \* receipts releaseActive has still to release
    faults, stops

instance == <<phase, loop, batch, handlers, active, releasing>>
bounds   == <<faults, stops>>
vars     == <<queue, dlq, redriven, inbox, early, preempted, instance, bounds>>

-----------------------------------------------------------------------------
(* The queue.                                                              *)

NewMessage(at) == [at |-> at, receipt |-> 0, left |-> 0, by |-> None, backoff |-> FALSE]

Visible == {m \in Messages : queue[m].at = "visible"}
Hidden  == {m \in Messages : queue[m].at = "hidden"}

ReceiptOf(m) == [msg |-> m, receipt |-> queue[m].receipt]
Receipt(h)   == [msg |-> h.msg, receipt |-> h.receipt]

\* The receipt still names the message's current, hidden delivery.
Current(r) == r.msg \in Hidden /\ r = ReceiptOf(r.msg)

\* Settled or visible, a message keeps only how often it was received.
At(m, place) == [NewMessage(place) EXCEPT !.receipt = queue[m].receipt]

SetVisibility(r, ticks) ==
    queue' = IF ~Current(r) THEN queue
             ELSE IF ticks = 0 THEN [queue EXCEPT ![r.msg] = At(r.msg, "visible")]
             ELSE [queue EXCEPT ![r.msg].left = ticks, ![r.msg].backoff = TRUE]

DeleteMessage(r) ==
    queue' = IF Current(r) THEN [queue EXCEPT ![r.msg] = At(r.msg, "deleted")] ELSE queue

Init ==
    /\ queue = [m \in Messages |-> NewMessage("unsent")]
    /\ dlq = {} /\ redriven = {} /\ inbox = {}
    /\ early = {} /\ preempted = {}
    /\ phase = [c \in Consumers |-> "running"]
    /\ loop = [c \in Consumers |-> "poll"]
    /\ batch = [c \in Consumers |-> {}]
    /\ handlers = [c \in Consumers |-> {}]
    /\ active = [c \in Consumers |-> {}]
    /\ releasing = [c \in Consumers |-> {}]
    /\ faults = 0 /\ stops = 0

\* The gateway publishes the message.
Publish(m) ==
    /\ queue[m].at = "unsent"
    /\ queue' = [queue EXCEPT ![m].at = "visible"]
    /\ UNCHANGED <<dlq, redriven, inbox, early, preempted, instance, bounds>>

\* The redrive policy: the next receive would exceed maxReceiveCount.
Redrive(m) ==
    /\ m \in Visible
    /\ queue[m].receipt = MaxReceive
    /\ queue' = [queue EXCEPT ![m] = At(m, "deleted")]
    /\ redriven' = redriven \cup {m}
    /\ UNCHANGED <<dlq, inbox, early, preempted, instance, bounds>>

Fault == faults < MaxFaults /\ faults' = faults + 1 /\ UNCHANGED stops

-----------------------------------------------------------------------------
(* run: receive, then dispatch one worker per message under the semaphore. *)

\* A poll already in flight may return a batch after cancellation.
Receive(c) ==
    /\ loop[c] = "poll"
    /\ phase[c] # "stopped"
    /\ \E S \in SUBSET {m \in Visible : queue[m].receipt < MaxReceive} :
          /\ Cardinality(S) \in 1..Batch
          /\ queue' = [m \in Messages |->
                 IF m \in S THEN [at |-> "hidden", receipt |-> queue[m].receipt + 1,
                                  left |-> VisibilityTimeout, by |-> c, backoff |-> FALSE]
                 ELSE queue[m]]
          /\ batch' = [batch EXCEPT ![c] =
                 {[msg |-> m, receipt |-> queue[m].receipt + 1] : m \in S}]
    /\ loop' = [loop EXCEPT ![c] = IF phase[c] = "running" THEN "dispatch" ELSE "release"]
    /\ UNCHANGED <<dlq, redriven, inbox, early, preempted, phase, handlers, active,
                   releasing, bounds>>

\* The poll in flight returns nothing, or an error, after cancellation.
EmptyReceive(c) ==
    /\ loop[c] = "poll"
    /\ phase[c] \notin {"running", "stopped"}
    /\ loop' = [loop EXCEPT ![c] = "exited"]
    /\ UNCHANGED <<queue, dlq, redriven, inbox, early, preempted, phase, batch,
                   handlers, active, releasing, bounds>>

Dispatch(c) ==
    /\ loop[c] = "dispatch"
    /\ phase[c] = "running"
    /\ Cardinality(handlers[c]) < Concurrency
    /\ \E r \in batch[c] :
          /\ handlers' = [handlers EXCEPT ![c] = @ \cup
                 {[msg |-> r.msg, receipt |-> r.receipt, step |-> "start", left |-> 0]}]
          /\ batch' = [batch EXCEPT ![c] = @ \ {r}]
          /\ loop' = [loop EXCEPT ![c] = IF batch[c] = {r} THEN "poll" ELSE "dispatch"]
    /\ UNCHANGED <<queue, dlq, redriven, inbox, early, preempted, phase, active,
                   releasing, bounds>>

\* Mutant: the undispatched rest of the batch is left to its timeout.
DropBatch(c) ==
    /\ loop[c] = "dispatch"
    /\ phase[c] # "running"
    /\ loop' = [loop EXCEPT ![c] = "exited"]
    /\ batch' = [batch EXCEPT ![c] = {}]
    /\ UNCHANGED <<queue, dlq, redriven, inbox, early, preempted, phase, handlers,
                   active, releasing, bounds>>

\* receiveCtx is done before the batch is: the rest goes to releaseMessages.
StopDispatching(c) ==
    /\ loop[c] = "dispatch"
    /\ phase[c] # "running"
    /\ loop' = [loop EXCEPT ![c] = "release"]
    /\ UNCHANGED <<queue, dlq, redriven, inbox, early, preempted, phase, batch,
                   handlers, active, releasing, bounds>>

ReleaseMessage(c) ==
    /\ loop[c] = "release"
    /\ phase[c] # "stopped"
    /\ \E r \in batch[c] :
          /\ \/ SetVisibility(r, 0) /\ UNCHANGED bounds
             \/ UNCHANGED queue /\ Fault
          /\ batch' = [batch EXCEPT ![c] = @ \ {r}]
          /\ loop' = [loop EXCEPT ![c] = IF batch[c] = {r} THEN "exited" ELSE "release"]
    /\ UNCHANGED <<dlq, redriven, inbox, early, preempted, phase, handlers, active,
                   releasing>>

-----------------------------------------------------------------------------
(* handle: one worker.                                                     *)

\* workCtx is cancelled: calls fail, at no cost in faults.  A call to SQS that
\* was in flight may take effect all the same.
Cancelled(c) == phase[c] \in {"unwinding", "releasing", "drained"}

CallFails(c) == IF Cancelled(c) THEN UNCHANGED bounds ELSE Fault

Goto(c, h, step, ticks) ==
    handlers' = [handlers EXCEPT ![c] =
        (@ \ {h}) \cup {[h EXCEPT !.step = step, !.left = ticks]}]

\* track, under the lock that releaseActive holds; decode, allowlist, Prepare.
Track(c, h) ==
    /\ h.step = "start"
    /\ phase[c] # "releasing"
    /\ active' = [active EXCEPT ![c] = @ \cup {Receipt(h)}]
    /\ \/ h.msg \notin Poison /\ Goto(c, h, "process", ProcessingTimeout)
       \/ h.msg \in Poison /\ Goto(c, h, "dead", 0)
    /\ UNCHANGED <<queue, dlq, redriven, inbox, early, preempted, phase, loop, batch,
                   releasing, bounds>>

\* process: the transaction commits or finds its inbox row.  A committed message
\* keeps its own rows, and a conflicting row is never removed.
Admitted(m) == m \notin preempted

Transact(c, h) ==
    /\ h.step = "process"
    /\ ~Cancelled(c)
    /\ Admitted(h.msg)
    /\ inbox' = inbox \cup {h.msg}
    /\ Goto(c, h, "delete", 0)
    /\ UNCHANGED <<queue, dlq, redriven, early, preempted, phase, loop, batch, active,
                   releasing, bounds>>

\* The transaction is refused, which isPermanent takes for final: the wallet is
\* not open yet; or it is another player's or in another currency, or another
\* request has stored the idempotency key, the external id or the inbox id with
\* another payload.  The inbox row is looked up first: a committed message is
\* never refused.
Refuse(c, h) ==
    /\ h.step = "process"
    /\ ~Cancelled(c)
    /\ h.msg \notin inbox
    /\ \/ Admitted(h.msg) /\ early' = early \cup {h.msg} /\ UNCHANGED preempted
       \/ preempted' = preempted \cup {h.msg} /\ UNCHANGED early
    /\ Goto(c, h, "dead", 0)
    /\ UNCHANGED <<queue, dlq, redriven, inbox, phase, loop, batch, active, releasing,
                   bounds>>

\* Mutant: a transient failure goes to the DLQ.
FailureIsPermanent(c, h) ==
    /\ h.step = "process"
    /\ IF h.left = 0 THEN UNCHANGED bounds ELSE CallFails(c)
    /\ Goto(c, h, "dead", 0)
    /\ UNCHANGED <<queue, dlq, redriven, inbox, early, preempted, phase, loop, batch,
                   active, releasing>>

\* ProcessingTimeout, a database error or cancellation.  COMMIT may have been
\* executed all the same.
TransactionFails(c, h) ==
    /\ h.step = "process"
    /\ IF h.left = 0 THEN UNCHANGED bounds ELSE CallFails(c)
    /\ \/ UNCHANGED inbox
       \/ Admitted(h.msg) /\ inbox' = inbox \cup {h.msg}
    /\ Goto(c, h, "retry", 0)
    /\ UNCHANGED <<queue, dlq, redriven, early, preempted, phase, loop, batch, active,
                   releasing>>

\* DeleteMessage after the commit, or after the DLQ has the message.
Delete(c, h) ==
    /\ h.step = "delete"
    /\ \/ DeleteMessage(Receipt(h)) /\ UNCHANGED bounds
       \/ UNCHANGED queue /\ CallFails(c)
    /\ Goto(c, h, "end", 0)
    /\ UNCHANGED <<dlq, redriven, inbox, early, preempted, phase, loop, batch, active,
                   releasing>>

\* Mutant: the message is deleted although the DLQ did not take it.
DlqErrorIgnored(c, h) ==
    /\ h.step = "dead"
    /\ \/ ~Cancelled(c) /\ dlq' = dlq \cup {h.msg} /\ UNCHANGED bounds
       \/ UNCHANGED dlq /\ CallFails(c)
    /\ Goto(c, h, "delete", 0)
    /\ UNCHANGED <<queue, redriven, inbox, early, preempted, phase, loop, batch, active,
                   releasing>>

\* permanent: to the DLQ first, where MessageId deduplicates.
SendDLQ(c, h) ==
    /\ h.step = "dead"
    /\ \/ /\ ~Cancelled(c)
          /\ dlq' = dlq \cup {h.msg}
          /\ Goto(c, h, "delete", 0)
          /\ UNCHANGED bounds
       \/ /\ dlq' \in {dlq, dlq \cup {h.msg}}
          /\ Goto(c, h, "retry", 0)
          /\ CallFails(c)
    /\ UNCHANGED <<queue, redriven, inbox, early, preempted, phase, loop, batch, active,
                   releasing>>

\* Mutant: a retried message keeps its worker slot.
RetryKeepsSlot(c, h) ==
    /\ h.step = "retry"
    /\ \E ticks \in 1..RetryMax : SetVisibility(Receipt(h), ticks)
    /\ Goto(c, h, "stuck", 0)
    /\ UNCHANGED <<dlq, redriven, inbox, early, preempted, phase, loop, batch, active,
                   releasing, bounds>>

\* retry: ChangeMessageVisibility to the backoff of the receive count.
Retry(c, h) ==
    /\ h.step = "retry"
    /\ \/ /\ \E ticks \in 1..RetryMax : SetVisibility(Receipt(h), ticks)
          /\ UNCHANGED bounds
       \/ UNCHANGED queue /\ CallFails(c)
    /\ Goto(c, h, "end", 0)
    /\ UNCHANGED <<dlq, redriven, inbox, early, preempted, phase, loop, batch, active,
                   releasing>>

\* untrack, then the slot is given back.
Untrack(c, h) ==
    /\ h.step = "end"
    /\ phase[c] # "releasing"
    /\ active' = [active EXCEPT ![c] = @ \ {Receipt(h)}]
    /\ handlers' = [handlers EXCEPT ![c] = @ \ {h}]
    /\ UNCHANGED <<queue, dlq, redriven, inbox, early, preempted, phase, loop, batch,
                   releasing, bounds>>

-----------------------------------------------------------------------------
(* stop.                                                                   *)

\* cancel(): nothing more is dispatched.
Stop(c) ==
    /\ phase[c] = "running"
    /\ stops < MaxStops
    /\ stops' = stops + 1
    /\ phase' = [phase EXCEPT ![c] = "cancelled"]
    /\ UNCHANGED <<queue, dlq, redriven, inbox, early, preempted, loop, batch, handlers,
                   active, releasing, faults>>

\* done is closed: the loop has returned and its workers with it.
Done(c) == loop[c] = "exited" /\ handlers[c] = {}

\* The shutdown deadline passes: workCancel().  Configuration makes it longer
\* than a poll.
CancelWork(c) ==
    /\ phase[c] = "cancelled"
    /\ ~Done(c)
    /\ loop[c] # "poll"
    /\ phase' = [phase EXCEPT ![c] = "unwinding"]
    /\ UNCHANGED <<queue, dlq, redriven, inbox, early, preempted, loop, batch, handlers,
                   active, releasing, bounds>>

\* releaseActive takes the lock on active.
LockActive(c) ==
    /\ phase[c] = "unwinding"
    /\ phase' = [phase EXCEPT ![c] = IF active[c] = {} THEN "drained" ELSE "releasing"]
    /\ releasing' = [releasing EXCEPT ![c] = active[c]]
    /\ UNCHANGED <<queue, dlq, redriven, inbox, early, preempted, loop, batch, handlers,
                   active, bounds>>

ReleaseActive(c) ==
    /\ phase[c] = "releasing"
    /\ \E r \in releasing[c] :
          /\ \/ SetVisibility(r, 0) /\ UNCHANGED bounds
             \/ UNCHANGED queue /\ Fault
          /\ releasing' = [releasing EXCEPT ![c] = @ \ {r}]
          /\ phase' = [phase EXCEPT ![c] = IF releasing[c] = {r} THEN "drained" ELSE @]
    /\ UNCHANGED <<dlq, redriven, inbox, early, preempted, loop, batch, handlers,
                   active>>

\* The process is gone, with whatever its goroutines held; what it hides is
\* nobody's until its visibility runs out.
Gone(c, next) ==
    /\ phase' = [phase EXCEPT ![c] = next]
    /\ loop' = [loop EXCEPT ![c] = "poll"]
    /\ batch' = [batch EXCEPT ![c] = {}]
    /\ handlers' = [handlers EXCEPT ![c] = {}]
    /\ active' = [active EXCEPT ![c] = {}]
    /\ releasing' = [releasing EXCEPT ![c] = {}]
    /\ queue' = [m \in Messages |->
           IF queue[m].by = c THEN [queue[m] EXCEPT !.by = None] ELSE queue[m]]
    /\ UNCHANGED <<dlq, redriven, inbox, early, preempted>>

\* stop returns: everything is done, or the drain after cancellation is over.
StopReturns(c) ==
    /\ \/ phase[c] = "cancelled" /\ Done(c)
       \/ phase[c] = "drained"
    /\ Gone(c, "stopped")
    /\ UNCHANGED bounds

Restart(c) ==
    /\ phase[c] = "stopped"
    /\ phase' = [phase EXCEPT ![c] = "running"]
    /\ UNCHANGED <<queue, dlq, redriven, inbox, early, preempted, loop, batch, handlers,
                   active, releasing, bounds>>

Crash(c) == phase[c] # "stopped" /\ Fault /\ Gone(c, "running")

-----------------------------------------------------------------------------
\* Time passes: visibility runs out, unless a worker is at its deadline.
Tick ==
    /\ \A c \in Consumers : \A h \in handlers[c] : h.step = "process" => h.left > 0
    /\ Hidden # {}
    /\ queue' = [m \in Messages |->
           IF m \notin Hidden THEN queue[m]
           ELSE IF queue[m].left = 1 THEN At(m, "visible")
           ELSE [queue[m] EXCEPT !.left = @ - 1]]
    /\ handlers' = [c \in Consumers |->
           {[h EXCEPT !.left = IF h.step = "process" THEN @ - 1 ELSE 0] : h \in handlers[c]}]
    /\ UNCHANGED <<dlq, redriven, inbox, early, preempted, phase, loop, batch, active,
                   releasing, bounds>>

Work(c, h) ==
    \/ Track(c, h)
    \/ Transact(c, h)
    \/ Refuse(c, h)
    \/ TransactionFails(c, h)
    \/ Delete(c, h)
    \/ SendDLQ(c, h)
    \/ Retry(c, h)
    \/ Untrack(c, h)

Next ==
    \/ \E m \in Messages : Publish(m) \/ Redrive(m)
    \/ \E c \in Consumers :
          \/ Receive(c)
          \/ EmptyReceive(c)
          \/ Dispatch(c)
          \/ StopDispatching(c)
          \/ ReleaseMessage(c)
          \/ \E h \in handlers[c] : Work(c, h)
          \/ Stop(c)
          \/ CancelWork(c)
          \/ LockActive(c)
          \/ ReleaseActive(c)
          \/ StopReturns(c)
          \/ Restart(c)
          \/ Crash(c)
    \/ Tick

Spec == Init /\ [][Next]_vars

\* run polls and dispatches, every call of a worker or of stop returns, time
\* passes, SQS redrives and a stopped instance is replaced.  Nothing obliges
\* the gateway to send, an operator to stop, or a call to fail.
Fairness ==
    /\ \A m \in Messages : WF_vars(Redrive(m))
    /\ \A c \in Consumers :
          /\ WF_vars(Receive(c))
          /\ WF_vars(EmptyReceive(c))
          /\ WF_vars(Dispatch(c))
          /\ WF_vars(StopDispatching(c))
          /\ WF_vars(ReleaseMessage(c))
          /\ \A m \in Messages : WF_vars(\E h \in handlers[c] : h.msg = m /\ Work(c, h))
          /\ WF_vars(LockActive(c))
          /\ WF_vars(ReleaseActive(c))
          /\ WF_vars(StopReturns(c))
          /\ WF_vars(Restart(c))
    /\ WF_vars(Tick)

FairSpec == Spec /\ Fairness

-----------------------------------------------------------------------------
\* What Load validates, in ticks.
ConfigIsValid ==
    /\ Batch \in Nat \ {0} /\ Concurrency \in Nat \ {0}
    /\ MaxReceive \in Nat \ {0} /\ RetryMax \in Nat \ {0}
    /\ ProcessingTimeout \in Nat \ {0} /\ VisibilityTimeout \in Nat
    /\ VisibilityTimeout > ProcessingTimeout
    /\ MaxFaults \in Nat /\ MaxStops \in Nat
    /\ Poison \subseteq Messages

ASSUME TimeoutsAssumption == ConfigIsValid

ASSUME NobodyAssumption == None \notin Consumers

\* "O consumidor confirma o DeleteMessage somente depois do commit": a message
\* is gone from the queue only if its effect is committed or a DLQ has it,
\* through lost answers, stale receipts, crashes and stops.
NoMessageIsLost ==
    \A m \in Messages : queue[m].at = "deleted" => m \in inbox \cup dlq \cup redriven

\* What is dead-lettered was refused, not failed: no outage, timeout or cancellation
\* sends a message there, before or after a COMMIT whose answer is lost.  And when
\* a dead letter takes effect all the same, on another delivery, it was refused for
\* want of a wallet opened since: every other refusal is for good.
DeadLettersWereRefused ==
    /\ dlq \subseteq Poison \cup early \cup preempted
    /\ dlq \cap inbox \subseteq early

\* A stop that drains in time leaves nothing hidden behind it: without failed
\* calls, whatever the instance received is settled, visible again or waiting
\* for its backoff.
GracefulStopHandsBack ==
    [][\A c \in Consumers :
          (phase[c] = "cancelled" /\ phase'[c] = "stopped" /\ faults = 0) =>
              \A m \in Hidden : queue[m].by = c => queue[m].backoff]_vars

\* Every message sent is settled, whichever instances crash or stop, and no
\* instance runs out of worker slots.
EveryMessageSettles ==
    \A m \in Messages : queue[m].at = "visible" ~> queue[m].at = "deleted"

\* config.go: "a healthy worker has exclusive ownership of a FIFO message while
\* its database transaction is still in flight".
OwnershipIsExclusive ==
    \A c, d \in Consumers : \A g \in handlers[c], h \in handlers[d] :
        (/\ g.step = "process" /\ g.left > 0
         /\ h.step = "process" /\ h.left > 0
         /\ g.msg = h.msg) => c = d /\ g = h
=============================================================================
