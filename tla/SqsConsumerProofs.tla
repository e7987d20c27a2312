------------------------- MODULE SqsConsumerProofs --------------------------
(***************************************************************************)
(* For any instances, messages, batch sizes, concurrency, timeouts and     *)
(* numbers of faults and stops: no message is lost, dead letters were      *)
(* refused, and a stop that drains in time leaves nothing hidden.          *)
(*                                                                         *)
(* The first two rest on what a worker that is about to delete or to       *)
(* dead-letter a message knows of it (WorkersSound).  The third rests on   *)
(* who is accountable for a hidden message: as long as no call failed, a   *)
(* message hidden by an instance whose work is not cancelled is in its     *)
(* batch or with a worker that has yet to settle it (HeldIsAccounted).     *)
(***************************************************************************)
EXTENDS SqsConsumer, FiniteSetTheorems, TLAPS

Places == {"unsent", "visible", "hidden", "deleted"}
Phases == {"running", "cancelled", "unwinding", "releasing", "drained", "stopped"}
Loops  == {"poll", "dispatch", "release", "exited"}
Steps  == {"start", "process", "dead", "delete", "retry", "end"}

Delivery == [msg : Messages, receipt : Nat]
Worker   == [msg : Messages, receipt : Nat, step : Steps, left : Nat]
QueueRow == [at : Places, receipt : Nat, left : Nat, by : Consumers \cup {None},
             backoff : BOOLEAN]

QueueOK ==
    /\ queue \in [Messages -> QueueRow]
    /\ \A m \in Messages : queue[m].at = "hidden" => queue[m].left > 0

InstanceOK ==
    /\ phase \in [Consumers -> Phases]
    /\ loop \in [Consumers -> Loops]
    /\ batch \in [Consumers -> SUBSET Delivery]
    /\ handlers \in [Consumers -> SUBSET Worker]
    /\ active \in [Consumers -> SUBSET Delivery]
    /\ releasing \in [Consumers -> SUBSET Delivery]

\* Type invariant.
TypeOK ==
    /\ QueueOK
    /\ InstanceOK
    /\ dlq \subseteq Messages /\ redriven \subseteq Messages /\ inbox \subseteq Messages
    /\ early \subseteq Messages /\ preempted \subseteq Messages
    /\ faults \in Nat /\ stops \in Nat

\* What the consumer may dead-letter.
Refused == Poison \cup early \cup preempted

\* A worker deletes only what is committed or in the DLQ, dead-letters only what
\* was refused, and opens no transaction for a malformed message.
WorkersSound ==
    \A c \in Consumers : \A h \in handlers[c] :
        /\ h.step = "delete" => h.msg \in inbox \cup dlq
        /\ h.step = "dead" => h.msg \in Refused
        /\ h.step = "process" => h.msg \notin Poison

\* A refusal other than for a missing wallet is for good.
RefusalsHold == dlq \subseteq Refused /\ inbox \cap (Poison \cup preempted) = {}

SettledInv == WorkersSound /\ RefusalsHold /\ NoMessageIsLost

\* The loop polls, and returns, with nothing left of its batch.
BatchIsSpent == \A c \in Consumers : loop[c] \in {"poll", "exited"} => batch[c] = {}

\* c hides m, and not for a backoff.
Held(c, m) == queue[m].at = "hidden" /\ queue[m].by = c /\ ~queue[m].backoff

Serves(h, m) == h.step # "end" /\ Receipt(h) = ReceiptOf(m)

Accounted(c, m) == ReceiptOf(m) \in batch[c] \/ \E h \in handlers[c] : Serves(h, m)

HeldIsAccounted ==
    faults = 0 =>
        \A c \in Consumers, m \in Messages :
            ~Cancelled(c) /\ Held(c, m) => Accounted(c, m)

HandBackInv == BatchIsSpent /\ HeldIsAccounted

-----------------------------------------------------------------------------
(* What the calls to SQS do to the queue.                                  *)

\* A row of the queue keeps its receipt and is settled, visible again or in its
\* backoff, or is as it was.
Untouched(m) == queue'[m] = queue[m]

Freed(r, m) ==
    /\ m = r.msg
    /\ Current(r)
    /\ queue'[m].receipt = queue[m].receipt
    /\ queue'[m].by = queue[m].by \/ queue'[m].by = None
    /\ queue'[m].at = "visible" \/ (queue'[m].at = "hidden" /\ queue'[m].backoff)

LEMMA VisibilityFrees ==
    ASSUME QueueOK, NEW r \in Delivery, NEW ticks \in Nat, SetVisibility(r, ticks)
    PROVE  /\ QueueOK'
           /\ \A m \in Messages : Untouched(m) \/ Freed(r, m)
<1>1. CASE ~Current(r)
  BY <1>1 DEF SetVisibility, QueueOK, Untouched
<1>2. CASE Current(r) /\ ticks = 0
  <2>1. queue' = [queue EXCEPT ![r.msg] = At(r.msg, "visible")]
    BY <1>2 DEF SetVisibility
  <2>2. r.msg \in Messages /\ queue[r.msg] \in QueueRow
    BY DEF Delivery, QueueOK
  <2>3. At(r.msg, "visible") \in QueueRow /\ At(r.msg, "visible").at = "visible"
        /\ At(r.msg, "visible").receipt = queue[r.msg].receipt
        /\ At(r.msg, "visible").by = None
    BY <2>2 DEF At, NewMessage, QueueRow, Places
  <2> QED
    BY <1>2, <2>1, <2>2, <2>3 DEF QueueOK, Untouched, Freed
<1>3. CASE Current(r) /\ ticks # 0
  <2>1. r.msg \in Messages /\ queue[r.msg] \in QueueRow /\ queue[r.msg].at = "hidden"
    BY <1>3 DEF Delivery, QueueOK, Current, Hidden
  <2>2. queue' = [queue EXCEPT ![r.msg].left = ticks, ![r.msg].backoff = TRUE]
    BY <1>3 DEF SetVisibility
  <2> DEFINE row == [queue[r.msg] EXCEPT !.left = ticks, !.backoff = TRUE]
  <2>3. row \in QueueRow
    BY <2>1, Zenon DEF QueueRow
  <2>4. row.at = "hidden" /\ row.receipt = queue[r.msg].receipt /\ row.by = queue[r.msg].by
    BY <2>1 DEF QueueRow
  <2>5. row.backoff = TRUE
    BY <2>1, Zenon DEF QueueRow
  <2>6. row.left > 0
    BY <1>3, <2>1 DEF QueueRow
  <2>7. queue' = [queue EXCEPT ![r.msg] = row]
    BY <2>1, <2>2 DEF QueueOK
  <2>8. queue' \in [Messages -> QueueRow]
    BY <2>1, <2>3, <2>7 DEF QueueOK
  <2> HIDE DEF row
  <2> QED
    BY <1>3, <2>1, <2>4, <2>5, <2>6, <2>7, <2>8 DEF QueueOK, Untouched, Freed
<1> QED
  BY <1>1, <1>2, <1>3

\* The message that a valid receipt names does not stay hidden for its receiver.
LEMMA NamedIsFreed ==
    ASSUME QueueOK, NEW r \in Delivery, NEW ticks \in Nat, SetVisibility(r, ticks), Current(r)
    PROVE  queue'[r.msg].at = "visible" \/ queue'[r.msg].backoff = TRUE
<1>1. r.msg \in Messages /\ queue[r.msg] \in QueueRow
  BY DEF Delivery, QueueOK
<1>2. CASE ticks = 0
  <2>1. queue' = [queue EXCEPT ![r.msg] = At(r.msg, "visible")]
    BY <1>2 DEF SetVisibility
  <2> QED
    BY <1>1, <2>1 DEF QueueOK, At, NewMessage
<1>3. CASE ticks # 0
  <2>1. queue' = [queue EXCEPT ![r.msg].left = ticks, ![r.msg].backoff = TRUE]
    BY <1>3 DEF SetVisibility
  <2>2. queue'[r.msg] = [queue[r.msg] EXCEPT !.left = ticks, !.backoff = TRUE]
    BY <1>1, <2>1 DEF QueueOK
  <2> QED
    BY <1>1, <2>2, Zenon DEF QueueRow
<1> QED
  BY <1>2, <1>3

\* DeleteMessage removes the message that the receipt currently names, if any.
Removed(r, m) ==
    /\ m = r.msg
    /\ Current(r)
    /\ queue'[m].at = "deleted"

LEMMA DeleteRemoves ==
    ASSUME QueueOK, NEW r \in Delivery, DeleteMessage(r)
    PROVE  /\ QueueOK'
           /\ \A m \in Messages : Untouched(m) \/ Removed(r, m)
<1>1. CASE ~Current(r)
  BY <1>1 DEF DeleteMessage, QueueOK, Untouched
<1>2. CASE Current(r)
  <2>1. queue' = [queue EXCEPT ![r.msg] = At(r.msg, "deleted")]
    BY <1>2 DEF DeleteMessage
  <2>2. r.msg \in Messages /\ queue[r.msg] \in QueueRow
    BY DEF Delivery, QueueOK
  <2>3. At(r.msg, "deleted") \in QueueRow /\ At(r.msg, "deleted").at = "deleted"
    BY <2>2 DEF At, NewMessage, QueueRow, Places
  <2> QED
    BY <1>2, <2>1, <2>2, <2>3 DEF QueueOK, Untouched, Removed
<1> QED
  BY <1>1, <1>2

-----------------------------------------------------------------------------
(* What a worker's move does to the workers.                               *)

\* The worker h of c goes on to step; nobody else moves.
Moved(c, h, step) ==
    \E g \in Worker :
        /\ g.msg = h.msg /\ g.receipt = h.receipt /\ g.step = step
        /\ handlers' = [handlers EXCEPT ![c] = (@ \ {h}) \cup {g}]

LEMMA GotoMoves ==
    ASSUME InstanceOK, NEW c \in Consumers, NEW h \in handlers[c],
           NEW step \in Steps, NEW ticks \in Nat, Goto(c, h, step, ticks)
    PROVE  /\ Moved(c, h, step)
           /\ handlers' \in [Consumers -> SUBSET Worker]
<1> DEFINE g == [h EXCEPT !.step = step, !.left = ticks]
<1>1. h \in Worker
  BY DEF InstanceOK
<1>2. g \in Worker /\ g.msg = h.msg /\ g.receipt = h.receipt /\ g.step = step
  BY <1>1 DEF Worker
<1>3. handlers' = [handlers EXCEPT ![c] = (@ \ {h}) \cup {g}]
  BY DEF Goto
<1> HIDE DEF g
<1> QED
  BY <1>2, <1>3 DEF Moved, InstanceOK

\* A receipt of a worker is a delivery.
LEMMA WorkerReceipt ==
    ASSUME InstanceOK, NEW c \in Consumers, NEW h \in handlers[c]
    PROVE  h \in Worker /\ Receipt(h) \in Delivery
BY DEF InstanceOK, Worker, Delivery, Receipt

-----------------------------------------------------------------------------
(* Types.                                                                  *)

LEMMA TypeInit == Init => TypeOK
<1> SUFFICES ASSUME Init
             PROVE  TypeOK
  OBVIOUS
<1>1. NewMessage("unsent") \in QueueRow /\ NewMessage("unsent").at = "unsent"
  BY DEF NewMessage, QueueRow, Places
<1>2. QueueOK
  BY <1>1 DEF Init, QueueOK
<1>3. InstanceOK
  BY DEF Init, InstanceOK, Phases, Loops
<1> QED
  BY <1>2, <1>3 DEF Init, TypeOK

LEMMA FaultType ==
    ASSUME TypeOK, Fault
    PROVE  faults' \in Nat /\ stops' \in Nat /\ faults' # 0
BY DEF TypeOK, Fault

LEMMA CallFailsType ==
    ASSUME TypeOK, NEW c \in Consumers, CallFails(c)
    PROVE  faults' \in Nat /\ stops' \in Nat
BY FaultType DEF TypeOK, CallFails, bounds

\* Steps of the queue alone.
LEMMA PublishType ==
    ASSUME TypeOK, NEW m \in Messages, Publish(m)
    PROVE  /\ TypeOK'
           /\ \A n \in Messages : Untouched(n) \/ (n = m /\ queue'[n].at = "visible")
<1>1. queue[m] \in QueueRow
  BY DEF TypeOK, QueueOK
<1> DEFINE row == [queue[m] EXCEPT !.at = "visible"]
<1>2. row \in QueueRow /\ row.at = "visible"
  BY <1>1 DEF QueueRow, Places
<1>3. queue' = [queue EXCEPT ![m] = row]
  BY DEF Publish
<1> HIDE DEF row
<1>4. QueueOK' /\ \A n \in Messages : Untouched(n) \/ (n = m /\ queue'[n].at = "visible")
  BY <1>2, <1>3 DEF TypeOK, QueueOK, Untouched
<1> QED
  BY <1>4 DEF TypeOK, Publish, InstanceOK, instance, bounds

LEMMA RedriveType ==
    ASSUME TypeOK, NEW m \in Messages, Redrive(m)
    PROVE  /\ TypeOK'
           /\ \A n \in Messages : Untouched(n) \/ (n = m /\ queue'[n].at = "deleted")
<1>1. queue[m] \in QueueRow
  BY DEF TypeOK, QueueOK
<1>2. At(m, "deleted") \in QueueRow /\ At(m, "deleted").at = "deleted"
  BY <1>1 DEF At, NewMessage, QueueRow, Places
<1>3. QueueOK' /\ \A n \in Messages : Untouched(n) \/ (n = m /\ queue'[n].at = "deleted")
  BY <1>2 DEF TypeOK, QueueOK, Untouched, Redrive
<1> QED
  BY <1>3 DEF TypeOK, Redrive, InstanceOK, instance, bounds

\* A receive hides the messages it returns, for their receiver, and puts their
\* receipts in its batch.
Received(c, S) ==
    /\ S # {}
    /\ \A m \in Messages :
          IF m \in S THEN /\ queue[m].at = "visible"
                          /\ queue'[m].at = "hidden"
                          /\ queue'[m].by = c
                          /\ ReceiptOf(m)' \in batch'[c]
          ELSE Untouched(m)
    /\ \A d \in Consumers \ {c} : batch'[d] = batch[d]

LEMMA ReceiveType ==
    ASSUME TypeOK, NEW c \in Consumers, Receive(c)
    PROVE  /\ TypeOK'
           /\ \E S \in SUBSET Messages : Received(c, S)
<1>1. PICK S \in SUBSET {m \in Visible : queue[m].receipt < MaxReceive} :
          /\ Cardinality(S) \in 1..Batch
          /\ queue' = [m \in Messages |->
                 IF m \in S THEN [at |-> "hidden", receipt |-> queue[m].receipt + 1,
                                  left |-> VisibilityTimeout, by |-> c, backoff |-> FALSE]
                 ELSE queue[m]]
          /\ batch' = [batch EXCEPT ![c] =
                 {[msg |-> m, receipt |-> queue[m].receipt + 1] : m \in S}]
  BY DEF Receive
<1>2. S \subseteq Messages /\ \A m \in S : queue[m].at = "visible"
  BY DEF Visible
<1>3. S # {}
  BY <1>1, FS_EmptySet, 0 \notin 1..Batch
<1>4. VisibilityTimeout \in Nat /\ VisibilityTimeout > 0
  BY TimeoutsAssumption DEF ConfigIsValid
<1>5. \A m \in Messages : queue[m] \in QueueRow /\ queue[m].receipt \in Nat
  BY DEF TypeOK, QueueOK, QueueRow
<1> DEFINE Row(m) == [at |-> "hidden", receipt |-> queue[m].receipt + 1,
                      left |-> VisibilityTimeout, by |-> c, backoff |-> FALSE]
<1>6. \A m \in Messages : Row(m) \in QueueRow
  BY <1>4, <1>5 DEF QueueRow, Places
<1>7. \A m \in Messages : /\ Row(m).at = "hidden" /\ Row(m).by = c
                          /\ Row(m).left > 0 /\ Row(m).receipt = queue[m].receipt + 1
  BY <1>4
<1>8. queue' = [m \in Messages |-> IF m \in S THEN Row(m) ELSE queue[m]]
  BY <1>1
<1> HIDE DEF Row
<1>9. QueueOK'
  BY <1>6, <1>7, <1>8 DEF TypeOK, QueueOK
<1>10. batch' \in [Consumers -> SUBSET Delivery]
  <2>1. \A m \in S : [msg |-> m, receipt |-> queue[m].receipt + 1] \in Delivery
    BY <1>2, <1>5 DEF Delivery
  <2>2. {[msg |-> m, receipt |-> queue[m].receipt + 1] : m \in S} \in SUBSET Delivery
    BY <2>1
  <2> QED
    BY <1>1, <2>2 DEF TypeOK, InstanceOK
<1>11. loop' \in [Consumers -> Loops]
  BY DEF TypeOK, InstanceOK, Loops, Receive
<1>12. TypeOK'
  BY <1>9, <1>10, <1>11 DEF TypeOK, InstanceOK, Receive, bounds
<1>13. Received(c, S)
  <2>1. \A m \in S : ReceiptOf(m)' = [msg |-> m, receipt |-> queue[m].receipt + 1]
    BY <1>2, <1>7, <1>8 DEF ReceiptOf
  <2>2. batch'[c] = {[msg |-> m, receipt |-> queue[m].receipt + 1] : m \in S}
    BY <1>1 DEF TypeOK, InstanceOK
  <2>3. \A m \in S : ReceiptOf(m)' \in batch'[c]
    BY <2>1, <2>2
  <2>4. \A d \in Consumers \ {c} : batch'[d] = batch[d]
    BY <1>1 DEF TypeOK, InstanceOK
  <2>5. \A m \in Messages : IF m \in S THEN queue'[m].at = "hidden" /\ queue'[m].by = c
                            ELSE Untouched(m)
    BY <1>7, <1>8 DEF Untouched
  <2> QED
    BY <1>2, <1>3, <2>3, <2>4, <2>5 DEF Received
<1> QED
  BY <1>2, <1>12, <1>13

\* When the process of c is gone, its messages are nobody's and hidden still;
\* it holds nothing.
Abandoned(c) ==
    /\ \A m \in Messages :
          IF queue[m].by = c THEN /\ queue'[m].by = None
                                  /\ queue'[m].at = queue[m].at
          ELSE Untouched(m)
    /\ batch'[c] = {} /\ handlers'[c] = {}
    /\ \A d \in Consumers \ {c} :
          /\ batch'[d] = batch[d] /\ handlers'[d] = handlers[d]
          /\ loop'[d] = loop[d] /\ phase'[d] = phase[d]

LEMMA GoneType ==
    ASSUME TypeOK, NEW c \in Consumers, NEW next \in Phases, Gone(c, next)
    PROVE  /\ QueueOK' /\ InstanceOK'
           /\ Abandoned(c)
<1>1. \A m \in Messages : queue[m] \in QueueRow
  BY DEF TypeOK, QueueOK
<1> DEFINE Row(m) == [queue[m] EXCEPT !.by = None]
<1>2. \A m \in Messages : /\ Row(m) \in QueueRow
                          /\ Row(m).by = None /\ Row(m).at = queue[m].at
                          /\ Row(m).left = queue[m].left
  BY <1>1 DEF QueueRow
<1>3. queue' = [m \in Messages |-> IF queue[m].by = c THEN Row(m) ELSE queue[m]]
  BY DEF Gone
<1> HIDE DEF Row
<1>4. QueueOK'
  BY <1>2, <1>3 DEF TypeOK, QueueOK
<1>5. InstanceOK'
  BY DEF TypeOK, InstanceOK, Gone, Loops
<1>6. \A m \in Messages : IF queue[m].by = c THEN /\ queue'[m].by = None
                                                  /\ queue'[m].at = queue[m].at
                          ELSE Untouched(m)
  BY <1>2, <1>3 DEF Untouched
<1>7. Abandoned(c)
  BY <1>6 DEF TypeOK, InstanceOK, Gone, Abandoned
<1> QED
  BY <1>4, <1>5, <1>7

\* A worker as time passes.
Aged(h) == [h EXCEPT !.left = IF h.step = "process" THEN @ - 1 ELSE 0]

\* Time changes no message but for hidden ones, which it may make visible, and
\* no worker but for the time it has left.
Passed ==
    /\ \A m \in Messages :
          \/ Untouched(m)
          \/ queue[m].at = "hidden" /\ queue'[m].at = "visible"
          \/ /\ queue[m].at = "hidden" /\ queue'[m].at = "hidden"
             /\ queue'[m].receipt = queue[m].receipt
             /\ queue'[m].by = queue[m].by
             /\ queue'[m].backoff = queue[m].backoff
    /\ \A c \in Consumers : handlers'[c] = {Aged(h) : h \in handlers[c]}

LEMMA AgedWorker ==
    ASSUME NEW h \in Worker, h.step = "process" => h.left > 0
    PROVE  /\ Aged(h) \in Worker
           /\ Aged(h).msg = h.msg /\ Aged(h).receipt = h.receipt /\ Aged(h).step = h.step
BY DEF Aged, Worker

LEMMA TickType ==
    ASSUME TypeOK, Tick
    PROVE  TypeOK' /\ Passed
<1>1. \A m \in Messages : queue[m] \in QueueRow /\ queue[m].left \in Nat
  BY DEF TypeOK, QueueOK, QueueRow
<1>2. \A m \in Messages :
          /\ At(m, "visible") \in QueueRow
          /\ At(m, "visible").at = "visible"
  BY <1>1 DEF At, NewMessage, QueueRow, Places
<1> DEFINE Row(m) == [queue[m] EXCEPT !.left = @ - 1]
<1>3. \A m \in Messages : (queue[m].at = "hidden" /\ queue[m].left # 1) =>
          /\ Row(m) \in QueueRow
          /\ Row(m).left > 0
          /\ Row(m).at = "hidden" /\ Row(m).receipt = queue[m].receipt
          /\ Row(m).by = queue[m].by
  BY <1>1 DEF QueueRow, TypeOK, QueueOK
<1>4. \A m \in Messages : Row(m).backoff = queue[m].backoff
  BY <1>1, Zenon DEF QueueRow
<1>5. queue' = [m \in Messages |->
           IF queue[m].at # "hidden" THEN queue[m]
           ELSE IF queue[m].left = 1 THEN At(m, "visible")
           ELSE Row(m)]
  BY DEF Tick, Hidden
<1> HIDE DEF Row
<1>6. QueueOK'
  BY <1>1, <1>2, <1>3, <1>5 DEF TypeOK, QueueOK
<1>7. \A m \in Messages :
          \/ Untouched(m)
          \/ queue[m].at = "hidden" /\ queue'[m].at = "visible"
          \/ /\ queue[m].at = "hidden" /\ queue'[m].at = "hidden"
             /\ queue'[m].receipt = queue[m].receipt
             /\ queue'[m].by = queue[m].by
             /\ queue'[m].backoff = queue[m].backoff
  BY <1>2, <1>3, <1>4, <1>5 DEF Untouched
<1>8. \A c \in Consumers : \A h \in handlers[c] : Aged(h) \in Worker
  BY AgedWorker DEF TypeOK, InstanceOK, Tick
<1>9. handlers' = [c \in Consumers |-> {Aged(h) : h \in handlers[c]}]
  BY DEF Tick, Aged
<1>10. handlers' \in [Consumers -> SUBSET Worker]
  BY <1>8, <1>9
<1>11. TypeOK'
  BY <1>6, <1>10 DEF TypeOK, InstanceOK, Tick, bounds
<1>12. Passed
  BY <1>7, <1>9 DEF Passed
<1> QED
  BY <1>11, <1>12

\* Steps of the receive loop.
LEMMA LoopType ==
    ASSUME TypeOK, NEW c \in Consumers,
           EmptyReceive(c) \/ Dispatch(c) \/ StopDispatching(c) \/ ReleaseMessage(c)
    PROVE  TypeOK'
<1>1. CASE EmptyReceive(c)
  BY <1>1 DEF EmptyReceive, TypeOK, QueueOK, InstanceOK, Loops, bounds
<1>2. CASE StopDispatching(c)
  BY <1>2 DEF StopDispatching, TypeOK, QueueOK, InstanceOK, Loops, bounds
<1>3. CASE Dispatch(c)
  <2>1. PICK r \in batch[c] :
          /\ handlers' = [handlers EXCEPT ![c] = @ \cup
                 {[msg |-> r.msg, receipt |-> r.receipt, step |-> "start", left |-> 0]}]
          /\ batch' = [batch EXCEPT ![c] = @ \ {r}]
          /\ loop' = [loop EXCEPT ![c] = IF batch[c] = {r} THEN "poll" ELSE "dispatch"]
    BY <1>3 DEF Dispatch
  <2>2. r \in Delivery
    BY DEF TypeOK, InstanceOK
  <2>3. [msg |-> r.msg, receipt |-> r.receipt, step |-> "start", left |-> 0] \in Worker
    BY <2>2 DEF Delivery, Worker, Steps
  <2>4. InstanceOK'
    BY <1>3, <2>1, <2>3 DEF Dispatch, TypeOK, InstanceOK, Loops
  <2> QED
    BY <1>3, <2>4 DEF Dispatch, TypeOK, QueueOK, bounds
<1>4. CASE ReleaseMessage(c)
  <2>1. PICK r \in batch[c] :
          /\ \/ SetVisibility(r, 0) /\ UNCHANGED bounds
             \/ UNCHANGED queue /\ Fault
          /\ batch' = [batch EXCEPT ![c] = @ \ {r}]
          /\ loop' = [loop EXCEPT ![c] = IF batch[c] = {r} THEN "exited" ELSE "release"]
    BY <1>4 DEF ReleaseMessage
  <2>2. r \in Delivery
    BY DEF TypeOK, InstanceOK
  <2>3. QueueOK' /\ faults' \in Nat /\ stops' \in Nat
    <3>1. CASE SetVisibility(r, 0) /\ UNCHANGED bounds
      BY <2>2, <3>1, VisibilityFrees DEF TypeOK, bounds
    <3>2. CASE UNCHANGED queue /\ Fault
      BY <3>2, FaultType DEF TypeOK, QueueOK
    <3> QED
      BY <2>1, <3>1, <3>2
  <2>4. InstanceOK'
    BY <1>4, <2>1 DEF ReleaseMessage, TypeOK, InstanceOK, Loops
  <2> QED
    BY <1>4, <2>3, <2>4 DEF ReleaseMessage, TypeOK
<1> QED
  BY <1>1, <1>2, <1>3, <1>4

\* Steps of a worker.
LEMMA WorkType ==
    ASSUME TypeOK, NEW c \in Consumers, NEW h \in handlers[c], Work(c, h)
    PROVE  TypeOK'
<1>1. h \in Worker /\ Receipt(h) \in Delivery /\ h.msg \in Messages
  BY WorkerReceipt DEF TypeOK, Worker
<1>2. ProcessingTimeout \in Nat /\ 0 \in Nat
  BY TimeoutsAssumption DEF ConfigIsValid
<1>3. {"process", "dead", "delete", "retry", "end"} \subseteq Steps
  BY DEF Steps
<1>4. \A step \in Steps, ticks \in Nat : Goto(c, h, step, ticks) =>
          handlers' \in [Consumers -> SUBSET Worker]
  BY GotoMoves DEF TypeOK
<1>5. CASE Track(c, h)
  <2>1. handlers' \in [Consumers -> SUBSET Worker]
    BY <1>2, <1>3, <1>4, <1>5 DEF Track
  <2>2. active' \in [Consumers -> SUBSET Delivery]
    BY <1>1, <1>5 DEF Track, TypeOK, InstanceOK
  <2> QED
    BY <1>5, <2>1, <2>2 DEF Track, TypeOK, QueueOK, InstanceOK, bounds
<1>6. CASE Transact(c, h)
  <2>1. handlers' \in [Consumers -> SUBSET Worker]
    BY <1>2, <1>3, <1>4, <1>6 DEF Transact
  <2>2. inbox' \subseteq Messages
    BY <1>1, <1>6 DEF Transact, TypeOK
  <2> QED
    BY <1>6, <2>1, <2>2 DEF Transact, TypeOK, QueueOK, InstanceOK, bounds
<1>7. CASE TransactionFails(c, h)
  <2>1. handlers' \in [Consumers -> SUBSET Worker]
    BY <1>2, <1>3, <1>4, <1>7 DEF TransactionFails
  <2>2. inbox' \subseteq Messages
    BY <1>1, <1>7 DEF TransactionFails, TypeOK
  <2>3. faults' \in Nat /\ stops' \in Nat
    BY <1>7, CallFailsType DEF TransactionFails, TypeOK, bounds
  <2> QED
    BY <1>7, <2>1, <2>2, <2>3 DEF TransactionFails, TypeOK, QueueOK, InstanceOK
<1>8. CASE Delete(c, h)
  <2>1. handlers' \in [Consumers -> SUBSET Worker]
    BY <1>2, <1>3, <1>4, <1>8 DEF Delete
  <2>2. QueueOK'
    BY <1>1, <1>8, DeleteRemoves DEF Delete, TypeOK, QueueOK
  <2>3. faults' \in Nat /\ stops' \in Nat
    BY <1>8, CallFailsType DEF Delete, TypeOK, bounds
  <2> QED
    BY <1>8, <2>1, <2>2, <2>3 DEF Delete, TypeOK, InstanceOK
<1>9. CASE SendDLQ(c, h)
  <2>1. handlers' \in [Consumers -> SUBSET Worker]
    BY <1>2, <1>3, <1>4, <1>9 DEF SendDLQ
  <2>2. dlq' \subseteq Messages
    BY <1>1, <1>9 DEF SendDLQ, TypeOK
  <2>3. faults' \in Nat /\ stops' \in Nat
    BY <1>9, CallFailsType DEF SendDLQ, TypeOK, bounds
  <2> QED
    BY <1>9, <2>1, <2>2, <2>3 DEF SendDLQ, TypeOK, QueueOK, InstanceOK
<1>10. CASE Retry(c, h)
  <2>1. handlers' \in [Consumers -> SUBSET Worker]
    BY <1>2, <1>3, <1>4, <1>10 DEF Retry
  <2>2. QueueOK'
    <3>1. CASE UNCHANGED queue
      BY <3>1 DEF TypeOK, QueueOK
    <3>2. CASE \E ticks \in 1..RetryMax : SetVisibility(Receipt(h), ticks)
      BY <1>1, <3>2, VisibilityFrees, TimeoutsAssumption DEF TypeOK, ConfigIsValid
    <3> QED
      BY <1>10, <3>1, <3>2 DEF Retry
  <2>3. faults' \in Nat /\ stops' \in Nat
    BY <1>10, CallFailsType DEF Retry, TypeOK, bounds
  <2> QED
    BY <1>10, <2>1, <2>2, <2>3 DEF Retry, TypeOK, InstanceOK
<1>11. CASE Untrack(c, h)
  BY <1>11 DEF Untrack, TypeOK, QueueOK, InstanceOK, bounds
<1>12. CASE Refuse(c, h)
  <2>1. handlers' \in [Consumers -> SUBSET Worker]
    BY <1>2, <1>3, <1>4, <1>12 DEF Refuse
  <2>2. early' \subseteq Messages /\ preempted' \subseteq Messages
    BY <1>1, <1>12 DEF Refuse, TypeOK
  <2> QED
    BY <1>12, <2>1, <2>2 DEF Refuse, TypeOK, QueueOK, InstanceOK, bounds
<1> QED
  BY <1>5, <1>6, <1>7, <1>8, <1>9, <1>10, <1>11, <1>12 DEF Work

\* Steps of stop, and restarts.
LEMMA StopType ==
    ASSUME TypeOK, NEW c \in Consumers,
           \/ Stop(c) \/ CancelWork(c) \/ LockActive(c) \/ ReleaseActive(c)
           \/ StopReturns(c) \/ Restart(c) \/ Crash(c)
    PROVE  TypeOK'
<1>1. CASE Stop(c)
  BY <1>1 DEF Stop, TypeOK, QueueOK, InstanceOK, Phases
<1>2. CASE CancelWork(c)
  BY <1>2 DEF CancelWork, TypeOK, QueueOK, InstanceOK, Phases, bounds
<1>3. CASE LockActive(c)
  BY <1>3 DEF LockActive, TypeOK, QueueOK, InstanceOK, Phases, bounds
<1>4. CASE ReleaseActive(c)
  <2>1. PICK r \in releasing[c] :
          /\ \/ SetVisibility(r, 0) /\ UNCHANGED bounds
             \/ UNCHANGED queue /\ Fault
          /\ releasing' = [releasing EXCEPT ![c] = @ \ {r}]
          /\ phase' = [phase EXCEPT ![c] = IF releasing[c] = {r} THEN "drained" ELSE @]
    BY <1>4 DEF ReleaseActive
  <2>2. r \in Delivery
    BY DEF TypeOK, InstanceOK
  <2>3. QueueOK' /\ faults' \in Nat /\ stops' \in Nat
    <3>1. CASE SetVisibility(r, 0) /\ UNCHANGED bounds
      BY <2>2, <3>1, VisibilityFrees DEF TypeOK, bounds
    <3>2. CASE UNCHANGED queue /\ Fault
      BY <3>2, FaultType DEF TypeOK, QueueOK
    <3> QED
      BY <2>1, <3>1, <3>2
  <2>4. InstanceOK'
    BY <1>4, <2>1 DEF ReleaseActive, TypeOK, InstanceOK, Phases
  <2> QED
    BY <1>4, <2>3, <2>4 DEF ReleaseActive, TypeOK
<1>5. CASE StopReturns(c)
  <2>1. QueueOK' /\ InstanceOK'
    BY <1>5, GoneType DEF StopReturns, Phases
  <2> QED
    BY <1>5, <2>1 DEF StopReturns, Gone, TypeOK, bounds
<1>6. CASE Restart(c)
  BY <1>6 DEF Restart, TypeOK, QueueOK, InstanceOK, Phases, bounds
<1>7. CASE Crash(c)
  <2>1. QueueOK' /\ InstanceOK'
    BY <1>7, GoneType DEF Crash, Phases
  <2> QED
    BY <1>7, <2>1, FaultType DEF Crash, Gone, TypeOK
<1> QED
  BY <1>1, <1>2, <1>3, <1>4, <1>5, <1>6, <1>7

\* The kinds of step, to reason about each on its own.
LoopStep(c) == EmptyReceive(c) \/ Dispatch(c) \/ StopDispatching(c) \/ ReleaseMessage(c)

StopStep(c) ==
    \/ Stop(c) \/ CancelWork(c) \/ LockActive(c) \/ ReleaseActive(c)
    \/ StopReturns(c) \/ Restart(c) \/ Crash(c)

LEMMA StepKinds ==
    ASSUME Next
    PROVE  \/ \E m \in Messages : Publish(m) \/ Redrive(m)
           \/ \E c \in Consumers : Receive(c)
           \/ \E c \in Consumers : LoopStep(c)
           \/ \E c \in Consumers : \E h \in handlers[c] : Work(c, h)
           \/ \E c \in Consumers : StopStep(c)
           \/ Tick
BY DEF Next, LoopStep, StopStep

LEMMA TypeStep ==
    ASSUME TypeOK, [Next]_vars
    PROVE  TypeOK'
<1>1. CASE UNCHANGED vars
  BY <1>1 DEF TypeOK, QueueOK, InstanceOK, vars, instance, bounds
<1>2. CASE Next
  BY <1>2, StepKinds, PublishType, RedriveType, ReceiveType, LoopType, WorkType, StopType,
     TickType DEF LoopStep, StopStep
<1> QED
  BY <1>1, <1>2

-----------------------------------------------------------------------------
(* Nothing is lost, and dead letters were refused.                         *)

\* What was recorded stays recorded.
Grows ==
    /\ inbox \subseteq inbox' /\ dlq \subseteq dlq' /\ redriven \subseteq redriven'
    /\ early \subseteq early' /\ preempted \subseteq preempted'

\* A worker that knows something of its message knew it before.
Knowing == {"process", "delete", "dead"}

NothingLearned ==
    \A c \in Consumers : \A h \in handlers'[c] : h.step \in Knowing =>
        \E g \in handlers[c] : g.msg = h.msg /\ g.step = h.step

NothingDeleted == \A m \in Messages : queue'[m].at = "deleted" => queue[m].at = "deleted"

LEMMA SoundKept ==
    ASSUME WorkersSound, Grows, NothingLearned
    PROVE  WorkersSound'
<1> SUFFICES ASSUME NEW c \in Consumers, NEW h \in handlers'[c],
                    h.step \in Knowing
             PROVE  /\ h.step = "delete" => h.msg \in inbox' \cup dlq'
                    /\ h.step = "dead" => h.msg \in Refused'
                    /\ h.step = "process" => h.msg \notin Poison
  BY DEF WorkersSound, Knowing
<1>1. PICK g \in handlers[c] : g.msg = h.msg /\ g.step = h.step
  BY DEF NothingLearned
<1> QED
  BY <1>1 DEF WorkersSound, Grows, Refused

LEMMA LostKept ==
    ASSUME NoMessageIsLost, Grows, NothingDeleted
    PROVE  NoMessageIsLost'
BY DEF NoMessageIsLost, Grows, NothingDeleted

\* A step that leaves the records alone, teaches no worker and deletes nothing.
LEMMA QuietStep ==
    ASSUME SettledInv, UNCHANGED <<dlq, redriven, inbox, early, preempted>>,
           NothingLearned, NothingDeleted
    PROVE  SettledInv'
<1>1. Grows
  BY DEF Grows
<1>2. WorkersSound' /\ NoMessageIsLost'
  BY <1>1, SoundKept, LostKept DEF SettledInv
<1>3. RefusalsHold'
  BY DEF SettledInv, RefusalsHold, Refused
<1> QED
  BY <1>2, <1>3 DEF SettledInv

\* The workers after one of them moved.
LEMMA MovedWorkers ==
    ASSUME TypeOK, NEW c \in Consumers, NEW h \in handlers[c], NEW step \in Steps,
           NEW ticks \in Nat, Goto(c, h, step, ticks)
    PROVE  \A d \in Consumers : \A g \in handlers'[d] :
               \/ g \in handlers[d]
               \/ d = c /\ g.msg = h.msg /\ g.receipt = h.receipt /\ g.step = step
BY GotoMoves DEF TypeOK, InstanceOK, Moved

\* A worker that moves to a step with nothing to know leaves the rest as it was.
LEMMA MoveLearnsNothing ==
    ASSUME TypeOK, NEW c \in Consumers, NEW h \in handlers[c], NEW step \in Steps,
           NEW ticks \in Nat, Goto(c, h, step, ticks), step \notin Knowing
    PROVE  NothingLearned
BY MovedWorkers DEF NothingLearned

LEMMA SettledInit == Init => SettledInv
BY DEF Init, SettledInv, WorkersSound, RefusalsHold, NoMessageIsLost, NewMessage

LEMMA SettledLoop ==
    ASSUME TypeOK, SettledInv, NEW c \in Consumers, Receive(c) \/ LoopStep(c)
    PROVE  SettledInv'
<1>1. CASE Receive(c)
  <2>1. NothingDeleted
    BY <1>1, ReceiveType DEF Received, NothingDeleted, Untouched
  <2>2. NothingLearned
    BY <1>1 DEF Receive, NothingLearned
  <2> QED
    BY <1>1, <2>1, <2>2, QuietStep DEF Receive
<1>2. CASE EmptyReceive(c)
  BY <1>2, QuietStep DEF EmptyReceive, NothingLearned, NothingDeleted
<1>3. CASE StopDispatching(c)
  BY <1>3, QuietStep DEF StopDispatching, NothingLearned, NothingDeleted
<1>4. CASE Dispatch(c)
  <2>1. PICK r \in batch[c] : handlers' = [handlers EXCEPT ![c] = @ \cup
                 {[msg |-> r.msg, receipt |-> r.receipt, step |-> "start", left |-> 0]}]
    BY <1>4 DEF Dispatch
  <2>2. NothingLearned
    BY <2>1 DEF NothingLearned, Knowing, TypeOK, InstanceOK
  <2> QED
    BY <1>4, <2>2, QuietStep DEF Dispatch, NothingDeleted
<1>5. CASE ReleaseMessage(c)
  <2>1. PICK r \in batch[c] : SetVisibility(r, 0) \/ UNCHANGED queue
    BY <1>5 DEF ReleaseMessage
  <2>2. r \in Delivery
    BY DEF TypeOK, InstanceOK
  <2>3. NothingDeleted
    BY <2>1, <2>2, VisibilityFrees DEF TypeOK, NothingDeleted, Untouched, Freed
  <2> QED
    BY <1>5, <2>3, QuietStep DEF ReleaseMessage, NothingLearned
<1> QED
  BY <1>1, <1>2, <1>3, <1>4, <1>5 DEF LoopStep

LEMMA SettledStop ==
    ASSUME TypeOK, SettledInv, NEW c \in Consumers, StopStep(c)
    PROVE  SettledInv'
<1>1. CASE Stop(c) \/ CancelWork(c) \/ LockActive(c) \/ Restart(c)
  BY <1>1, QuietStep DEF Stop, CancelWork, LockActive, Restart, NothingLearned, NothingDeleted
<1>2. CASE ReleaseActive(c)
  <2>1. PICK r \in releasing[c] : SetVisibility(r, 0) \/ UNCHANGED queue
    BY <1>2 DEF ReleaseActive
  <2>2. r \in Delivery
    BY DEF TypeOK, InstanceOK
  <2>3. NothingDeleted
    BY <2>1, <2>2, VisibilityFrees DEF TypeOK, NothingDeleted, Untouched, Freed
  <2> QED
    BY <1>2, <2>3, QuietStep DEF ReleaseActive, NothingLearned
<1>3. CASE StopReturns(c) \/ Crash(c)
  <2>1. PICK next \in Phases : Gone(c, next)
    BY <1>3 DEF StopReturns, Crash, Phases
  <2>2. Abandoned(c)
    BY <2>1, GoneType
  <2>3. NothingLearned
    BY <2>2 DEF Abandoned, NothingLearned
  <2>4. NothingDeleted
    BY <2>2 DEF Abandoned, NothingDeleted, Untouched
  <2> QED
    BY <2>1, <2>3, <2>4, QuietStep DEF Gone
<1> QED
  BY <1>1, <1>2, <1>3 DEF StopStep

LEMMA SettledTick ==
    ASSUME TypeOK, SettledInv, Tick
    PROVE  SettledInv'
<1>1. Passed
  BY TickType
<1>2. NothingDeleted
  BY <1>1 DEF Passed, NothingDeleted, Untouched
<1>3. \A c \in Consumers : \A h \in handlers[c] : Aged(h).msg = h.msg /\ Aged(h).step = h.step
  BY AgedWorker DEF Tick, TypeOK, InstanceOK
<1>4. NothingLearned
  BY <1>1, <1>3 DEF Passed, NothingLearned
<1> QED
  BY <1>2, <1>4, QuietStep DEF Tick

LEMMA SettledQueue ==
    ASSUME TypeOK, SettledInv, NEW m \in Messages, Publish(m) \/ Redrive(m)
    PROVE  SettledInv'
<1>1. CASE Publish(m)
  <2>1. NothingDeleted
    BY <1>1, PublishType DEF NothingDeleted, Untouched
  <2> QED
    BY <1>1, <2>1, QuietStep DEF Publish, NothingLearned, instance
<1>2. CASE Redrive(m)
  <2>1. UNCHANGED <<dlq, inbox, early, preempted, handlers>> /\ redriven' = redriven \cup {m}
    BY <1>2 DEF Redrive, instance
  <2>2. \A n \in Messages : Untouched(n) \/ n = m
    BY <1>2, RedriveType
  <2>3. NoMessageIsLost'
    BY <2>1, <2>2 DEF SettledInv, NoMessageIsLost, Untouched
  <2>4. WorkersSound' /\ RefusalsHold'
    BY <2>1 DEF SettledInv, WorkersSound, RefusalsHold, Refused
  <2> QED
    BY <2>3, <2>4 DEF SettledInv
<1> QED
  BY <1>1, <1>2

LEMMA SettledWork ==
    ASSUME TypeOK, SettledInv, NEW c \in Consumers, NEW h \in handlers[c], Work(c, h)
    PROVE  SettledInv'
<1>1. h \in Worker /\ Receipt(h) \in Delivery /\ h.msg \in Messages
  BY WorkerReceipt DEF TypeOK, Worker
<1>2. ProcessingTimeout \in Nat /\ 0 \in Nat
  BY TimeoutsAssumption DEF ConfigIsValid
<1>3. {"process", "dead", "delete", "retry", "end"} \subseteq Steps
  BY DEF Steps
<1>4. CASE Track(c, h)
  <2>1. PICK step \in {"process", "dead"}, ticks \in Nat :
           /\ Goto(c, h, step, ticks)
           /\ step = "process" => h.msg \notin Poison
           /\ step = "dead" => h.msg \in Poison
    BY <1>2, <1>4 DEF Track
  <2>2. WorkersSound'
    BY <1>3, <1>4, <2>1, MovedWorkers DEF Track, SettledInv, WorkersSound, Refused
  <2> QED
    BY <1>4, <2>2 DEF Track, SettledInv, RefusalsHold, Refused, NoMessageIsLost
<1>5. CASE Transact(c, h)
  <2>1. Grows /\ NothingDeleted
    BY <1>5 DEF Transact, Grows, NothingDeleted
  <2>2. NoMessageIsLost'
    BY <2>1, LostKept DEF SettledInv
  <2>3. h.msg \notin Poison \cup preempted
    BY <1>5 DEF Transact, Admitted, SettledInv, WorkersSound
  <2>4. WorkersSound'
    BY <1>2, <1>3, <1>5, MovedWorkers DEF Transact, SettledInv, WorkersSound, Refused
  <2>5. RefusalsHold'
    BY <1>5, <2>3 DEF Transact, SettledInv, RefusalsHold, Refused
  <2> QED
    BY <2>2, <2>4, <2>5 DEF SettledInv
<1>12. CASE Refuse(c, h)
  <2>1. Grows /\ NothingDeleted
    BY <1>12 DEF Refuse, Grows, NothingDeleted
  <2>2. NoMessageIsLost'
    BY <2>1, LostKept DEF SettledInv
  <2>3. h.msg \in Refused'
    BY <1>12 DEF Refuse, Refused
  <2>4. WorkersSound'
    BY <1>2, <1>3, <1>12, <2>1, <2>3, MovedWorkers
       DEF Refuse, Grows, SettledInv, WorkersSound, Refused
  <2>5. RefusalsHold'
    BY <1>12 DEF Refuse, SettledInv, RefusalsHold, Refused
  <2> QED
    BY <2>2, <2>4, <2>5 DEF SettledInv
<1>6. CASE TransactionFails(c, h)
  <2>1. Grows /\ NothingDeleted
    BY <1>6 DEF TransactionFails, Grows, NothingDeleted
  <2>2. NothingLearned
    BY <1>2, <1>3, <1>6, MoveLearnsNothing DEF TransactionFails, Knowing
  <2>3. RefusalsHold'
    <3>1. h.msg \notin Poison
      BY <1>6 DEF TransactionFails, SettledInv, WorkersSound
    <3> QED
      BY <1>6, <3>1 DEF TransactionFails, Admitted, SettledInv, RefusalsHold, Refused
  <2> QED
    BY <2>1, <2>2, <2>3, SoundKept, LostKept DEF SettledInv
<1>7. CASE Delete(c, h)
  <2>1. h.msg \in inbox \cup dlq
    BY <1>7 DEF Delete, SettledInv, WorkersSound
  <2>2. \A m \in Messages : Untouched(m) \/ m = h.msg
    BY <1>1, <1>7, DeleteRemoves DEF Delete, TypeOK, Untouched, Removed, Receipt
  <2>3. NoMessageIsLost'
    BY <1>7, <2>1, <2>2 DEF Delete, SettledInv, NoMessageIsLost, Untouched
  <2>4. NothingLearned /\ Grows
    BY <1>2, <1>3, <1>7, MoveLearnsNothing DEF Delete, Grows, Knowing
  <2> QED
    BY <1>7, <2>3, <2>4, SoundKept DEF Delete, SettledInv, RefusalsHold, Refused
<1>8. CASE SendDLQ(c, h)
  <2>1. h.msg \in Refused
    BY <1>8 DEF SendDLQ, SettledInv, WorkersSound
  <2>2. Grows /\ NothingDeleted
    BY <1>8 DEF SendDLQ, Grows, NothingDeleted
  <2>3. RefusalsHold'
    BY <1>8, <2>1 DEF SendDLQ, SettledInv, RefusalsHold, Refused
  <2>4. WorkersSound'
    <3>1. CASE dlq' = dlq \cup {h.msg} /\ Goto(c, h, "delete", 0)
      BY <1>2, <1>3, <1>8, <3>1, MovedWorkers DEF SendDLQ, SettledInv, WorkersSound, Refused
    <3>2. CASE Goto(c, h, "retry", 0)
      BY <1>2, <1>3, <2>2, <3>2, MoveLearnsNothing, SoundKept DEF SettledInv, Knowing
    <3> QED
      BY <1>8, <3>1, <3>2 DEF SendDLQ
  <2> QED
    BY <2>2, <2>3, <2>4, LostKept DEF SettledInv
<1>9. CASE Retry(c, h)
  <2>1. NothingDeleted
    <3>1. CASE UNCHANGED queue
      BY <3>1 DEF NothingDeleted
    <3>2. CASE \E ticks \in 1..RetryMax : SetVisibility(Receipt(h), ticks)
      BY <1>1, <3>2, VisibilityFrees, TimeoutsAssumption
         DEF TypeOK, ConfigIsValid, NothingDeleted, Untouched, Freed
    <3> QED
      BY <1>9, <3>1, <3>2 DEF Retry
  <2>2. NothingLearned
    BY <1>2, <1>3, <1>9, MoveLearnsNothing DEF Retry, Knowing
  <2> QED
    BY <1>9, <2>1, <2>2, QuietStep DEF Retry
<1>10. CASE Untrack(c, h)
  <2>1. NothingLearned
    BY <1>10 DEF Untrack, NothingLearned, TypeOK, InstanceOK
  <2> QED
    BY <1>10, <2>1, QuietStep DEF Untrack, NothingDeleted
<1> QED
  BY <1>4, <1>5, <1>6, <1>7, <1>8, <1>9, <1>10, <1>12 DEF Work

LEMMA SettledStep ==
    ASSUME TypeOK, SettledInv, [Next]_vars
    PROVE  SettledInv'
<1>1. CASE UNCHANGED vars
  BY <1>1, QuietStep DEF vars, instance, NothingLearned, NothingDeleted
<1>2. CASE Next
  BY <1>2, StepKinds, SettledQueue, SettledLoop, SettledWork, SettledStop, SettledTick
<1> QED
  BY <1>1, <1>2

-----------------------------------------------------------------------------
(* A graceful stop hands everything back.                                  *)

\* A message c holds now it held before, under the same receipt.
HeldBefore(c, m) == Held(c, m)' => Held(c, m) /\ queue'[m].receipt = queue[m].receipt

LEMMA ReceiptKept ==
    ASSUME NEW m, queue'[m].receipt = queue[m].receipt
    PROVE  ReceiptOf(m)' = ReceiptOf(m)
BY DEF ReceiptOf

\* A message that is untouched, or that a call freed, is no new burden.
LEMMA FreedIsNotHeld ==
    ASSUME NEW c \in Consumers, NEW m \in Messages, NEW r, Untouched(m) \/ Freed(r, m)
    PROVE  HeldBefore(c, m) /\ (Held(c, m)' => ~(m = r.msg /\ Current(r)) \/ Untouched(m))
BY DEF HeldBefore, Held, Untouched, Freed

\* A step that cancels no work, and that neither hides messages nor takes
\* receipts away from who has them.
LEMMA AccountsKept ==
    ASSUME HeldIsAccounted, faults' = 0 => faults = 0,
           \A c \in Consumers : ~Cancelled(c)' => ~Cancelled(c),
           \A c \in Consumers, m \in Messages : HeldBefore(c, m),
           \A c \in Consumers, m \in Messages :
               (faults = 0 /\ ~Cancelled(c) /\ Held(c, m)' /\ Accounted(c, m)) => Accounted(c, m)'
    PROVE  HeldIsAccounted'
BY DEF HeldIsAccounted, HeldBefore

\* A worker's move keeps the accounts, unless it ends the one that served m.
LEMMA MoveKeepsAccount ==
    ASSUME TypeOK, NEW c \in Consumers, NEW h \in handlers[c], NEW step \in Steps,
           NEW ticks \in Nat, Goto(c, h, step, ticks), UNCHANGED batch,
           NEW d \in Consumers, NEW m \in Messages,
           queue'[m].receipt = queue[m].receipt, Accounted(d, m),
           step # "end" \/ d # c \/ ~Serves(h, m)
    PROVE  Accounted(d, m)'
<1>1. ReceiptOf(m)' = ReceiptOf(m)
  BY ReceiptKept
<1>2. PICK g \in Worker :
          /\ g.msg = h.msg /\ g.receipt = h.receipt /\ g.step = step
          /\ handlers' = [handlers EXCEPT ![c] = (@ \ {h}) \cup {g}]
  BY GotoMoves DEF TypeOK, Moved
<1>3. CASE ReceiptOf(m) \in batch[d]
  BY <1>1, <1>3 DEF Accounted
<1>4. CASE \E i \in handlers[d] : Serves(i, m)
  <2>1. PICK i \in handlers[d] : Serves(i, m)
    BY <1>4
  <2>2. \A j : Serves(j, m)' <=> Serves(j, m)
    BY <1>1 DEF Serves, Receipt
  <2>3. CASE i \in handlers'[d]
    BY <2>1, <2>2, <2>3 DEF Accounted
  <2>4. CASE i \notin handlers'[d]
    <3>1. d = c /\ i = h
      BY <1>2, <2>4 DEF TypeOK, InstanceOK
    <3>2. step # "end"
      BY <2>1, <3>1
    <3>3. Serves(g, m) /\ g \in handlers'[c]
      BY <1>2, <2>1, <3>1, <3>2 DEF Serves, Receipt, TypeOK, InstanceOK
    <3> QED
      BY <2>2, <3>1, <3>3 DEF Accounted
  <2> QED
    BY <2>3, <2>4
<1> QED
  BY <1>3, <1>4 DEF Accounted

\* Who serves a message that is held has its current receipt.
LEMMA ServerIsCurrent ==
    ASSUME NEW c \in Consumers, NEW h, NEW m \in Messages, Held(c, m), Serves(h, m)
    PROVE  m = Receipt(h).msg /\ Current(Receipt(h))
BY DEF Held, Serves, Current, Receipt, ReceiptOf, Hidden

LEMMA HandBackInit == Init => HandBackInv
BY DEF Init, HandBackInv, BatchIsSpent, HeldIsAccounted, Held, NewMessage

LEMMA HandBackQueue ==
    ASSUME TypeOK, HandBackInv, NEW m \in Messages, Publish(m) \/ Redrive(m)
    PROVE  HandBackInv'
<1>1. UNCHANGED <<phase, loop, batch, handlers, faults>>
  BY DEF Publish, Redrive, instance, bounds
<1>2. \A n \in Messages : Untouched(n) \/ queue'[n].at \in {"visible", "deleted"}
  BY PublishType, RedriveType
<1>3. \A c \in Consumers, n \in Messages :
          HeldBefore(c, n) /\ (Held(c, n)' => Untouched(n))
  BY <1>2 DEF HeldBefore, Held, Untouched
<1>4. \A c \in Consumers, n \in Messages :
          (Held(c, n)' /\ Accounted(c, n)) => Accounted(c, n)'
  BY <1>1, <1>3 DEF Accounted, Serves, Receipt, ReceiptOf, Untouched
<1>5. \A c \in Consumers : Cancelled(c)' <=> Cancelled(c)
  BY <1>1 DEF Cancelled
<1>6. HeldIsAccounted'
  BY <1>1, <1>3, <1>4, <1>5, AccountsKept DEF HandBackInv
<1> QED
  BY <1>1, <1>6 DEF HandBackInv, BatchIsSpent

LEMMA HandBackReceive ==
    ASSUME TypeOK, HandBackInv, NEW c \in Consumers, Receive(c)
    PROVE  HandBackInv'
<1>1. UNCHANGED <<phase, handlers, faults>> /\ loop[c] = "poll"
  BY DEF Receive, bounds
<1>2. loop'[c] \in {"dispatch", "release"} /\ \A d \in Consumers \ {c} : loop'[d] = loop[d]
  BY DEF Receive, TypeOK, InstanceOK
<1>3. PICK S \in SUBSET Messages : Received(c, S)
  BY ReceiveType
<1>4. batch[c] = {}
  BY <1>1 DEF HandBackInv, BatchIsSpent
<1>5. BatchIsSpent'
  BY <1>2, <1>3 DEF HandBackInv, BatchIsSpent, Received
<1>6. ASSUME faults' = 0, NEW d \in Consumers, NEW m \in Messages,
             ~Cancelled(d)', Held(d, m)'
      PROVE  Accounted(d, m)'
  <2>1. CASE m \in S
    <3>1. d = c
      BY <1>3, <1>6, <2>1 DEF Received, Held
    <3> QED
      BY <1>3, <2>1, <3>1 DEF Received, Accounted
  <2>2. CASE m \notin S
    <3>1. queue'[m] = queue[m]
      BY <1>3, <2>2 DEF Received, Untouched
    <3>2. Held(d, m) /\ ~Cancelled(d) /\ faults = 0
      BY <1>1, <1>6, <3>1 DEF Held, Cancelled
    <3>3. Accounted(d, m)
      BY <3>2 DEF HandBackInv, HeldIsAccounted
    <3>4. ReceiptOf(m)' = ReceiptOf(m)
      BY <3>1 DEF ReceiptOf
    <3>5. batch[d] \subseteq batch'[d]
      BY <1>3, <1>4 DEF Received
    <3> QED
      BY <1>1, <3>3, <3>4, <3>5 DEF Accounted, Serves, Receipt
  <2> QED
    BY <2>1, <2>2
<1> QED
  BY <1>5, <1>6 DEF HandBackInv, HeldIsAccounted

LEMMA HandBackTick ==
    ASSUME TypeOK, HandBackInv, Tick
    PROVE  HandBackInv'
<1>1. UNCHANGED <<phase, loop, batch, faults>>
  BY DEF Tick, bounds
<1>2. Passed
  BY TickType
<1>3. \A c \in Consumers, m \in Messages : HeldBefore(c, m)
  BY <1>2 DEF Passed, HeldBefore, Held, Untouched
<1>4. \A c \in Consumers : \A h \in handlers[c] :
          Receipt(Aged(h)) = Receipt(h) /\ Aged(h).step = h.step /\ Aged(h) \in handlers'[c]
  BY <1>2, AgedWorker DEF Passed, Tick, TypeOK, InstanceOK, Receipt
<1>5. ASSUME NEW c \in Consumers, NEW m \in Messages, Held(c, m)', Accounted(c, m)
      PROVE  Accounted(c, m)'
  <2>1. ReceiptOf(m)' = ReceiptOf(m)
    BY <1>3, <1>5, ReceiptKept DEF HeldBefore
  <2>2. CASE ReceiptOf(m) \in batch[c]
    BY <1>1, <2>1, <2>2 DEF Accounted
  <2>3. CASE \E h \in handlers[c] : Serves(h, m)
    <3>1. PICK h \in handlers[c] : Serves(h, m)
      BY <2>3
    <3>2. Serves(Aged(h), m)' /\ Aged(h) \in handlers'[c]
      BY <1>4, <2>1, <3>1 DEF Serves, Receipt
    <3> QED
      BY <3>2 DEF Accounted
  <2> QED
    BY <1>5, <2>2, <2>3 DEF Accounted
<1>6. \A c \in Consumers : Cancelled(c)' <=> Cancelled(c)
  BY <1>1 DEF Cancelled
<1>7. HeldIsAccounted'
  BY <1>1, <1>3, <1>5, <1>6, AccountsKept DEF HandBackInv
<1> QED
  BY <1>1, <1>7 DEF HandBackInv, BatchIsSpent

\* Dispatching hands a receipt from the batch to a worker; releasing frees it.
LEMMA HandBackLoop ==
    ASSUME TypeOK, HandBackInv, NEW c \in Consumers, LoopStep(c)
    PROVE  HandBackInv'
<1>1. UNCHANGED phase /\ \A d \in Consumers : Cancelled(d)' <=> Cancelled(d)
  BY DEF LoopStep, EmptyReceive, StopDispatching, Dispatch, ReleaseMessage, Cancelled
<1>2. CASE EmptyReceive(c) \/ StopDispatching(c)
  <2>1. UNCHANGED <<queue, batch, handlers, faults>>
    BY <1>2 DEF EmptyReceive, StopDispatching, bounds
  <2>2. BatchIsSpent'
    BY <1>2 DEF EmptyReceive, StopDispatching, HandBackInv, BatchIsSpent, TypeOK, InstanceOK
  <2>3. HeldIsAccounted'
    BY <1>1, <2>1 DEF HandBackInv, HeldIsAccounted, Held, Accounted, Serves, Receipt, ReceiptOf
  <2> QED
    BY <2>2, <2>3 DEF HandBackInv
<1>3. CASE Dispatch(c)
  <2> DEFINE New(r) == [msg |-> r.msg, receipt |-> r.receipt, step |-> "start", left |-> 0]
  <2>1. PICK r \in batch[c] :
          /\ handlers' = [handlers EXCEPT ![c] = @ \cup {New(r)}]
          /\ batch' = [batch EXCEPT ![c] = @ \ {r}]
          /\ loop' = [loop EXCEPT ![c] = IF batch[c] = {r} THEN "poll" ELSE "dispatch"]
    BY <1>3 DEF Dispatch
  <2>2. UNCHANGED <<queue, faults>>
    BY <1>3 DEF Dispatch, bounds
  <2>3. BatchIsSpent'
    BY <2>1 DEF HandBackInv, BatchIsSpent, TypeOK, InstanceOK
  <2>4. ASSUME NEW d \in Consumers, NEW m \in Messages, Accounted(d, m)
        PROVE  Accounted(d, m)'
    <3>1. ReceiptOf(m)' = ReceiptOf(m)
      BY <2>2 DEF ReceiptOf
    <3>2. \A h \in handlers[d] : h \in handlers'[d] /\ (Serves(h, m)' <=> Serves(h, m))
      BY <2>1, <3>1 DEF TypeOK, InstanceOK, Serves, Receipt
    <3>3. CASE d = c /\ ReceiptOf(m) = r
      <4>1. New(r) \in handlers'[c]
        BY <2>1 DEF TypeOK, InstanceOK
      <4>2. New(r).step = "start" /\ Receipt(New(r)) = ReceiptOf(m)
        BY <3>3 DEF Receipt, ReceiptOf
      <4>3. Serves(New(r), m)'
        BY <3>1, <4>2 DEF Serves, Receipt
      <4> QED
        BY <3>3, <4>1, <4>3 DEF Accounted
    <3>4. CASE ReceiptOf(m) \in batch[d] /\ ~(d = c /\ ReceiptOf(m) = r)
      <4>1. ReceiptOf(m) \in batch'[d]
        BY <2>1, <3>4 DEF TypeOK, InstanceOK
      <4> QED
        BY <3>1, <4>1 DEF Accounted
    <3> QED
      BY <2>4, <3>2, <3>3, <3>4 DEF Accounted
  <2>5. \A d \in Consumers, m \in Messages : HeldBefore(d, m)
    BY <2>2 DEF HeldBefore, Held
  <2>6. HeldIsAccounted'
    BY <1>1, <2>2, <2>4, <2>5, AccountsKept DEF HandBackInv
  <2> QED
    BY <2>3, <2>6 DEF HandBackInv
<1>4. CASE ReleaseMessage(c)
  <2>1. PICK r \in batch[c] :
          /\ \/ SetVisibility(r, 0) /\ UNCHANGED bounds
             \/ UNCHANGED queue /\ Fault
          /\ batch' = [batch EXCEPT ![c] = @ \ {r}]
          /\ loop' = [loop EXCEPT ![c] = IF batch[c] = {r} THEN "exited" ELSE "release"]
    BY <1>4 DEF ReleaseMessage
  <2>2. r \in Delivery
    BY DEF TypeOK, InstanceOK
  <2>3. BatchIsSpent'
    BY <2>1 DEF HandBackInv, BatchIsSpent, TypeOK, InstanceOK
  <2>4. CASE UNCHANGED queue /\ Fault
    <3>1. HeldIsAccounted'
      BY <2>4, FaultType DEF HeldIsAccounted
    <3> QED
      BY <2>3, <3>1 DEF HandBackInv
  <2>5. CASE SetVisibility(r, 0) /\ UNCHANGED bounds
    <3>1. \A m \in Messages : Untouched(m) \/ Freed(r, m)
      BY <2>2, <2>5, VisibilityFrees DEF TypeOK
    <3>2. \A d \in Consumers, m \in Messages : HeldBefore(d, m)
      BY <3>1, FreedIsNotHeld
    <3>3. \A m \in Messages : queue'[m].at = "hidden" /\ ~queue'[m].backoff => ReceiptOf(m) # r
      <4> SUFFICES ASSUME NEW m \in Messages, queue'[m].at = "hidden", ~queue'[m].backoff,
                          ReceiptOf(m) = r
                   PROVE  FALSE
        OBVIOUS
      <4>1. Untouched(m)
        BY <3>1 DEF Freed
      <4>2. Current(r) /\ m = r.msg
        BY <4>1 DEF Untouched, ReceiptOf, Current, Hidden
      <4> QED
        BY <2>2, <2>5, <4>2, NamedIsFreed DEF TypeOK
    <3>4. ASSUME NEW d \in Consumers, NEW m \in Messages, Held(d, m)', Accounted(d, m)
          PROVE  Accounted(d, m)'
      <4>1. ReceiptOf(m)' = ReceiptOf(m)
        BY <3>2, <3>4, ReceiptKept DEF HeldBefore
      <4>2. ReceiptOf(m) # r
        BY <3>3, <3>4 DEF Held
      <4>3. ReceiptOf(m) \in batch[d] => ReceiptOf(m) \in batch'[d]
        BY <2>1, <4>2 DEF TypeOK, InstanceOK
      <4>4. UNCHANGED handlers
        BY <1>4 DEF ReleaseMessage
      <4>5. \A h : Serves(h, m)' <=> Serves(h, m)
        BY <4>1 DEF Serves, Receipt
      <4> QED
        BY <3>4, <4>1, <4>3, <4>4, <4>5 DEF Accounted
    <3>5. HeldIsAccounted'
      BY <1>1, <2>5, <3>2, <3>4, AccountsKept DEF HandBackInv, bounds
    <3> QED
      BY <2>3, <3>5 DEF HandBackInv
  <2> QED
    BY <2>1, <2>4, <2>5
<1> QED
  BY <1>2, <1>3, <1>4 DEF LoopStep

\* A step of a worker to a step that still serves its message keeps the
\* accounts of the queue as it is.
LEMMA HandBackMove ==
    ASSUME TypeOK, HandBackInv, NEW c \in Consumers, NEW h \in handlers[c],
           NEW step \in Steps, NEW ticks \in Nat, Goto(c, h, step, ticks), step # "end",
           UNCHANGED <<queue, batch, phase, loop>>, faults' = 0 => faults = 0
    PROVE  HandBackInv'
<1>1. \A d \in Consumers, m \in Messages : HeldBefore(d, m)
  BY DEF HeldBefore, Held
<1>2. \A d \in Consumers, m \in Messages : Accounted(d, m) => Accounted(d, m)'
  BY MoveKeepsAccount
<1>3. \A d \in Consumers : Cancelled(d)' <=> Cancelled(d)
  BY DEF Cancelled
<1>4. HeldIsAccounted'
  BY <1>1, <1>2, <1>3, AccountsKept DEF HandBackInv
<1> QED
  BY <1>4 DEF HandBackInv, BatchIsSpent

\* A worker that ends leaves its message settled or free, unless its last call
\* failed: with its work cancelled, or at the cost of a fault.
LEMMA HandBackEnd ==
    ASSUME TypeOK, HandBackInv, NEW c \in Consumers, NEW h \in handlers[c],
           Goto(c, h, "end", 0), UNCHANGED <<batch, phase, loop>>,
           faults' = 0 => faults = 0,
           \A d \in Consumers, m \in Messages : HeldBefore(d, m),
           \/ Cancelled(c)
           \/ faults' # 0
           \/ \A m \in Messages : (Held(c, m)' /\ m = Receipt(h).msg) => ~Current(Receipt(h))
    PROVE  HandBackInv'
<1>1. \A d \in Consumers : Cancelled(d)' <=> Cancelled(d)
  BY DEF Cancelled
<1>2. ASSUME NEW d \in Consumers, NEW m \in Messages, faults' = 0, ~Cancelled(d), Held(d, m)'
      PROVE  Accounted(d, m)'
  <2>1. Held(d, m) /\ queue'[m].receipt = queue[m].receipt
    BY <1>2 DEF HeldBefore
  <2>2. Accounted(d, m)
    BY <1>2, <2>1 DEF HandBackInv, HeldIsAccounted
  <2>3. d # c \/ ~Serves(h, m)
    <3> SUFFICES ASSUME d = c, Serves(h, m)
                 PROVE  FALSE
      OBVIOUS
    <3>1. m = Receipt(h).msg /\ Current(Receipt(h))
      BY <2>1, ServerIsCurrent
    <3> QED
      BY <1>2, <3>1
  <2> QED
    BY <2>1, <2>2, <2>3, MoveKeepsAccount DEF Steps
<1>3. HeldIsAccounted'
  BY <1>1, <1>2 DEF HeldIsAccounted
<1> QED
  BY <1>3 DEF HandBackInv, BatchIsSpent

LEMMA CallFailsCosts ==
    ASSUME TypeOK, NEW c \in Consumers, CallFails(c)
    PROVE  /\ faults' = 0 => faults = 0
           /\ Cancelled(c) \/ faults' # 0
BY FaultType DEF CallFails, bounds

LEMMA HandBackWork ==
    ASSUME TypeOK, HandBackInv, NEW c \in Consumers, NEW h \in handlers[c], Work(c, h)
    PROVE  HandBackInv'
<1>1. h \in Worker /\ Receipt(h) \in Delivery
  BY WorkerReceipt DEF TypeOK
<1>2. ProcessingTimeout \in Nat /\ 0 \in Nat
  BY TimeoutsAssumption DEF ConfigIsValid
<1>3. {"process", "dead", "delete", "retry"} \subseteq Steps
  BY DEF Steps
<1>4. CASE Track(c, h)
  BY <1>2, <1>3, <1>4, HandBackMove DEF Track, bounds
<1>5. CASE Transact(c, h)
  BY <1>2, <1>3, <1>5, HandBackMove DEF Transact, bounds
<1>6. CASE TransactionFails(c, h)
  <2>1. faults' = 0 => faults = 0
    BY <1>6, CallFailsCosts DEF TransactionFails, bounds
  <2> QED
    BY <1>2, <1>3, <1>6, <2>1, HandBackMove DEF TransactionFails
<1>7. CASE SendDLQ(c, h)
  <2>1. faults' = 0 => faults = 0
    BY <1>7, CallFailsCosts DEF SendDLQ, bounds
  <2> QED
    BY <1>2, <1>3, <1>7, <2>1, HandBackMove DEF SendDLQ
<1>8. CASE Delete(c, h)
  <2>1. Goto(c, h, "end", 0) /\ UNCHANGED <<batch, phase, loop>>
    BY <1>8 DEF Delete
  <2>2. CASE DeleteMessage(Receipt(h)) /\ UNCHANGED bounds
    <3>1. \A m \in Messages : Untouched(m) \/ Removed(Receipt(h), m)
      BY <1>1, <2>2, DeleteRemoves DEF TypeOK
    <3>2. \A d \in Consumers, m \in Messages : HeldBefore(d, m)
      BY <3>1 DEF HeldBefore, Held, Untouched, Removed
    <3>3. ASSUME NEW m \in Messages, m = Receipt(h).msg, Current(Receipt(h))
          PROVE  queue'[m].at = "deleted"
      BY <2>2, <3>3 DEF DeleteMessage, At, NewMessage, TypeOK, QueueOK
    <3>4. faults' = faults
      BY <2>2 DEF bounds
    <3> QED
      BY <2>1, <3>2, <3>3, <3>4, HandBackEnd DEF Held
  <2>3. CASE UNCHANGED queue /\ CallFails(c)
    <3>1. \A d \in Consumers, m \in Messages : HeldBefore(d, m)
      BY <2>3 DEF HeldBefore, Held
    <3> QED
      BY <2>1, <2>3, <3>1, CallFailsCosts, HandBackEnd
  <2> QED
    BY <1>8, <2>2, <2>3 DEF Delete
<1>9. CASE Retry(c, h)
  <2>1. Goto(c, h, "end", 0) /\ UNCHANGED <<batch, phase, loop>>
    BY <1>9 DEF Retry
  <2>2. CASE (\E ticks \in 1..RetryMax : SetVisibility(Receipt(h), ticks)) /\ UNCHANGED bounds
    <3>1. PICK ticks \in Nat : SetVisibility(Receipt(h), ticks)
      BY <2>2, TimeoutsAssumption DEF ConfigIsValid
    <3>2. \A m \in Messages : Untouched(m) \/ Freed(Receipt(h), m)
      BY <1>1, <3>1, VisibilityFrees DEF TypeOK
    <3>3. \A d \in Consumers, m \in Messages : HeldBefore(d, m)
      BY <3>2, FreedIsNotHeld
    <3>4. \A m \in Messages : (Held(c, m)' /\ m = Receipt(h).msg) => ~Current(Receipt(h))
      BY <1>1, <3>1, NamedIsFreed DEF TypeOK, Held
    <3>5. faults' = faults
      BY <2>2 DEF bounds
    <3> QED
      BY <2>1, <3>3, <3>4, <3>5, HandBackEnd
  <2>3. CASE UNCHANGED queue /\ CallFails(c)
    <3>1. \A d \in Consumers, m \in Messages : HeldBefore(d, m)
      BY <2>3 DEF HeldBefore, Held
    <3> QED
      BY <2>1, <2>3, <3>1, CallFailsCosts, HandBackEnd
  <2> QED
    BY <1>9, <2>2, <2>3 DEF Retry
<1>10. CASE Untrack(c, h)
  <2>1. UNCHANGED <<queue, batch, phase, loop, faults>> /\ h.step = "end"
    BY <1>10 DEF Untrack, bounds
  <2>2. \A d \in Consumers, m \in Messages : HeldBefore(d, m)
    BY <2>1 DEF HeldBefore, Held
  <2>3. \A d \in Consumers : handlers[d] \ {h} \subseteq handlers'[d]
    BY <1>10 DEF Untrack, TypeOK, InstanceOK
  <2>4. \A d \in Consumers, m \in Messages : Accounted(d, m) => Accounted(d, m)'
    BY <2>1, <2>3 DEF Accounted, Serves, Receipt, ReceiptOf
  <2>5. \A d \in Consumers : Cancelled(d)' <=> Cancelled(d)
    BY <2>1 DEF Cancelled
  <2>6. HeldIsAccounted'
    BY <2>1, <2>2, <2>4, <2>5, AccountsKept DEF HandBackInv
  <2> QED
    BY <2>1, <2>6 DEF HandBackInv, BatchIsSpent
<1>11. CASE Refuse(c, h)
  BY <1>2, <1>3, <1>11, HandBackMove DEF Refuse, bounds
<1> QED
  BY <1>4, <1>5, <1>6, <1>7, <1>8, <1>9, <1>10, <1>11 DEF Work

LEMMA HandBackStop ==
    ASSUME TypeOK, HandBackInv, NEW c \in Consumers, StopStep(c)
    PROVE  HandBackInv'
<1>1. CASE Stop(c) \/ CancelWork(c) \/ LockActive(c) \/ Restart(c)
  <2>1. UNCHANGED <<queue, batch, handlers, loop, faults>>
    BY <1>1 DEF Stop, CancelWork, LockActive, Restart, bounds
  <2>2. \A d \in Consumers : ~Cancelled(d)' => ~Cancelled(d)
    BY <1>1 DEF Stop, CancelWork, LockActive, Restart, Cancelled, TypeOK, InstanceOK
  <2>3. HeldIsAccounted'
    BY <2>1, <2>2 DEF HandBackInv, HeldIsAccounted, Held, Accounted, Serves, Receipt, ReceiptOf
  <2> QED
    BY <2>1, <2>3 DEF HandBackInv, BatchIsSpent
<1>2. CASE ReleaseActive(c)
  <2>1. PICK r \in releasing[c] :
          /\ \/ SetVisibility(r, 0) /\ UNCHANGED bounds
             \/ UNCHANGED queue /\ Fault
          /\ phase' = [phase EXCEPT ![c] = IF releasing[c] = {r} THEN "drained" ELSE @]
    BY <1>2 DEF ReleaseActive
  <2>2. r \in Delivery
    BY DEF TypeOK, InstanceOK
  <2>3. UNCHANGED <<batch, handlers, loop>> /\ phase[c] = "releasing"
    BY <1>2 DEF ReleaseActive
  <2>4. \A d \in Consumers : Cancelled(d)' <=> Cancelled(d)
    BY <2>1, <2>3 DEF Cancelled, TypeOK, InstanceOK
  <2>5. \A d \in Consumers, m \in Messages : HeldBefore(d, m)
    <3>1. CASE SetVisibility(r, 0)
      <4>1. \A m \in Messages : Untouched(m) \/ Freed(r, m)
        BY <2>2, <3>1, VisibilityFrees DEF TypeOK
      <4> QED
        BY <4>1, FreedIsNotHeld
    <3>2. CASE UNCHANGED queue
      BY <3>2 DEF HeldBefore, Held
    <3> QED
      BY <2>1, <3>1, <3>2
  <2>6. ASSUME NEW d \in Consumers, NEW m \in Messages, Held(d, m)', Accounted(d, m)
        PROVE  Accounted(d, m)'
    <3>1. ReceiptOf(m)' = ReceiptOf(m)
      BY <2>5, <2>6, ReceiptKept DEF HeldBefore
    <3> QED
      BY <2>3, <2>6, <3>1 DEF Accounted, Serves, Receipt
  <2>7. faults' = 0 => faults = 0
    BY <2>1, FaultType DEF bounds
  <2>8. HeldIsAccounted'
    BY <2>4, <2>5, <2>6, <2>7, AccountsKept DEF HandBackInv
  <2> QED
    BY <2>3, <2>8 DEF HandBackInv, BatchIsSpent
<1>3. CASE StopReturns(c) \/ Crash(c)
  <2>1. PICK next \in Phases : Gone(c, next)
    BY <1>3 DEF StopReturns, Crash, Phases
  <2>2. Abandoned(c)
    BY <2>1, GoneType
  <2>3. BatchIsSpent'
    BY <2>2 DEF HandBackInv, BatchIsSpent, Abandoned
  <2>4. faults' = 0 => faults = 0
    BY <1>3, FaultType DEF StopReturns, Crash, bounds
  <2>5. ASSUME NEW d \in Consumers, NEW m \in Messages, faults' = 0, ~Cancelled(d)', Held(d, m)'
        PROVE  Accounted(d, m)'
    <3>1. queue[m].by # c
      BY <2>2, <2>5, NobodyAssumption DEF Abandoned, Held
    <3>2. queue'[m] = queue[m]
      BY <2>2, <3>1 DEF Abandoned, Untouched
    <3>3. d # c
      BY <2>5, <3>1, <3>2 DEF Held
    <3>4. phase'[d] = phase[d] /\ batch'[d] = batch[d] /\ handlers'[d] = handlers[d]
      BY <2>2, <3>3 DEF Abandoned
    <3>5. Held(d, m) /\ ~Cancelled(d)
      BY <2>5, <3>2, <3>4 DEF Held, Cancelled
    <3>6. Accounted(d, m)
      BY <2>4, <2>5, <3>5 DEF HandBackInv, HeldIsAccounted
    <3> QED
      BY <3>2, <3>4, <3>6 DEF Accounted, Serves, Receipt, ReceiptOf
  <2> QED
    BY <2>3, <2>5 DEF HandBackInv, HeldIsAccounted
<1> QED
  BY <1>1, <1>2, <1>3 DEF StopStep

LEMMA HandBackStep ==
    ASSUME TypeOK, HandBackInv, [Next]_vars
    PROVE  HandBackInv'
<1>1. CASE UNCHANGED vars
  BY <1>1 DEF vars, instance, bounds, HandBackInv, BatchIsSpent, HeldIsAccounted, Held,
              Accounted, Serves, Receipt, ReceiptOf, Cancelled
<1>2. CASE Next
  BY <1>2, StepKinds, HandBackQueue, HandBackReceive, HandBackLoop, HandBackWork,
     HandBackStop, HandBackTick
<1> QED
  BY <1>1, <1>2

\* An instance goes from cancelled to stopped only when it is done.
LEMMA StoppedIsDone ==
    ASSUME TypeOK, [Next]_vars, NEW c \in Consumers,
           phase[c] = "cancelled", phase'[c] = "stopped"
    PROVE  Done(c)
<1>1. \E d \in Consumers : StopStep(d)
  BY StepKinds DEF vars, instance, Publish, Redrive, Receive, LoopStep, EmptyReceive,
     Dispatch, StopDispatching, ReleaseMessage, Work, Track, Transact, Refuse,
     TransactionFails, Delete, SendDLQ, Retry, Untrack, Tick
<1>2. PICK d \in Consumers : StopStep(d)
  BY <1>1
<1>3. StopReturns(d)
  BY <1>2 DEF StopStep, Stop, CancelWork, LockActive, ReleaseActive, Restart, Crash, Gone,
     TypeOK, InstanceOK
<1>4. d = c
  BY <1>3 DEF StopReturns, Gone, TypeOK, InstanceOK
<1> QED
  BY <1>3, <1>4 DEF StopReturns

\* An instance that is done accounts for nothing.
LEMMA DoneHoldsNothing ==
    ASSUME TypeOK, HandBackInv, faults = 0, NEW c \in Consumers,
           phase[c] = "cancelled", Done(c)
    PROVE  \A m \in Hidden : queue[m].by = c => queue[m].backoff
<1> SUFFICES ASSUME NEW m \in Messages, queue[m].at = "hidden", queue[m].by = c
             PROVE  queue[m].backoff
  BY DEF Hidden
<1>1. ~Cancelled(c)
  BY DEF Cancelled
<1>2. batch[c] = {} /\ handlers[c] = {}
  BY DEF Done, HandBackInv, BatchIsSpent
<1>3. ~Accounted(c, m)
  BY <1>2 DEF Accounted
<1>4. ~Held(c, m)
  BY <1>1, <1>3 DEF HandBackInv, HeldIsAccounted
<1>5. queue[m].backoff \in BOOLEAN
  BY DEF TypeOK, QueueOK, QueueRow
<1> QED
  BY <1>4, <1>5, Zenon DEF Held

-----------------------------------------------------------------------------
(* The theorems.                                                           *)

ConsumerInv == TypeOK /\ SettledInv /\ HandBackInv

\* The inductive invariant of the consumers: types, what workers know, and who
\* accounts for what is hidden.
THEOREM ConsumerInvariance == Spec => []ConsumerInv
<1>1. Init => ConsumerInv
  BY TypeInit, SettledInit, HandBackInit DEF ConsumerInv
<1>2. ConsumerInv /\ [Next]_vars => ConsumerInv'
  BY TypeStep, SettledStep, HandBackStep DEF ConsumerInv
<1> QED
  BY <1>1, <1>2, PTL DEF Spec

\* DeleteMessage comes after the commit or after the DLQ has the message: with
\* any number of instances, duplicate deliveries, stale receipts, failed calls,
\* crashes and stops, a message that left the queue took effect or is in a DLQ.
THEOREM NothingIsLost == Spec => []NoMessageIsLost
<1>1. ConsumerInv => NoMessageIsLost
  BY DEF ConsumerInv, SettledInv
<1> QED
  BY <1>1, ConsumerInvariance, PTL

\* permanent is reached only by a refusal, whatever fails, times out or is
\* cancelled: nothing is dead-lettered for a failure, and a dead letter takes
\* effect only if it was refused for want of a wallet that has been opened since.
THEOREM DeadLettersSound == Spec => []DeadLettersWereRefused
<1>1. ConsumerInv => DeadLettersWereRefused
  BY DEF ConsumerInv, SettledInv, RefusalsHold, Refused, DeadLettersWereRefused
<1> QED
  BY <1>1, ConsumerInvariance, PTL

\* stop waits for the loop and for its workers, the loop releases what it did
\* not dispatch and each worker settles its message: when stop returns in time
\* and no call failed, the instance hides nothing that is not in its backoff.
THEOREM StopHandsBack == Spec => GracefulStopHandsBack
<1> DEFINE Drained ==
        \A c \in Consumers :
            (phase[c] = "cancelled" /\ phase'[c] = "stopped" /\ faults = 0) =>
                \A m \in Hidden : queue[m].by = c => queue[m].backoff
<1>1. ConsumerInv /\ [Next]_vars => [Drained]_vars
  BY StoppedIsDone, DoneHoldsNothing DEF ConsumerInv
<1> QED
  BY <1>1, ConsumerInvariance, PTL DEF Spec, GracefulStopHandsBack

=============================================================================
