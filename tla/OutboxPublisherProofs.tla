----------------------- MODULE OutboxPublisherProofs ------------------------
(***************************************************************************)
(* Proofs about OutboxPublisher, for any number of events, publishers,     *)
(* batch sizes, faults and overruns: its types, the implementation of      *)
(* EventDelivery, the accounting of claims and the frozen published rows.  *)
(***************************************************************************)
EXTENDS OutboxPublisher, FiniteSetTheorems, TLAPS

\* A publisher works on committed events only, and confirms only what it sent.
WorkFits ==
    \A p \in Publishers : /\ batch[p] \subseteq Committed
                          /\ pc[p] = "confirm" => current[p] \in queue

\* The claim that neither a lapse nor a retry has paid for yet.
Outstanding(r) == IF r.published \/ (r.lock # None /\ ~r.elapsed) THEN 1 ELSE 0

ClaimsFit ==
    \A e \in Events :
        IF events[e] = None THEN claims[e] = 0 /\ lapses[e] = 0
        ELSE claims[e] <= lapses[e] + events[e].attempts + Outstanding(events[e])

IndInv == TypeOK /\ WorkFits /\ ClaimsFit

-----------------------------------------------------------------------------
\* The empty table satisfies the invariant.
LEMMA InitIndInv == Init => IndInv
  BY AbsentEvent DEF Init, IndInv, TypeOK, WorkFits, ClaimsFit, Committed

\* A new event is a row like any other.
LEMMA NewEventType == NewEvent \in EventRow /\ NewEvent # None
<1>1. NewEvent \in EventRow
  BY DEF NewEvent, EventRow
<1>. QED BY <1>1, AbsentEvent

\* What Claim, a lapse, the end of a backoff and ScheduleRetry make of a row.
LEMMA RowTypes ==
    ASSUME NEW r \in EventRow, NEW p \in Publishers
    PROVE  /\ [r EXCEPT !.lock = p, !.elapsed = FALSE] \in EventRow
           /\ [r EXCEPT !.elapsed = TRUE] \in EventRow
           /\ [r EXCEPT !.due = TRUE] \in EventRow
           /\ [r EXCEPT !.published = TRUE, !.lock = None, !.elapsed = FALSE] \in EventRow
           /\ [r EXCEPT !.attempts = r.attempts + 1, !.due = FALSE,
                        !.lock = None, !.elapsed = FALSE] \in EventRow
<1>1. /\ r = [attempts |-> r.attempts, due |-> r.due, lock |-> r.lock,
              elapsed |-> r.elapsed, published |-> r.published]
      /\ r.attempts \in Nat /\ r.due \in BOOLEAN /\ r.lock \in Publishers \cup {None}
      /\ r.elapsed \in BOOLEAN /\ r.published \in BOOLEAN
  BY DEF EventRow
<1>2. /\ [r EXCEPT !.lock = p, !.elapsed = FALSE] \in EventRow
      /\ [r EXCEPT !.elapsed = TRUE] \in EventRow
      /\ [r EXCEPT !.due = TRUE] \in EventRow
  BY <1>1 DEF EventRow
<1>3. [r EXCEPT !.published = TRUE, !.lock = None, !.elapsed = FALSE] \in EventRow
  BY <1>1 DEF EventRow
<1>4. [r EXCEPT !.attempts = r.attempts + 1, !.due = FALSE,
                !.lock = None, !.elapsed = FALSE] \in EventRow
  <2>1. r.attempts + 1 \in Nat
    BY <1>1
  <2>. QED BY <1>1, <2>1 DEF EventRow
<1>. QED BY <1>2, <1>3, <1>4

\* Inserting an event keeps the invariant.
LEMMA InsertStep ==
    ASSUME IndInv, NEW e \in Events, Insert(e)
    PROVE  IndInv'
<1>1. TypeOK'
  BY NewEventType DEF Insert, IndInv, TypeOK, work, bounds, past
<1>2. WorkFits'
  BY NewEventType DEF Insert, IndInv, TypeOK, WorkFits, Committed, work, bounds, past
<1>3. ClaimsFit'
  <2>. SUFFICES ASSUME NEW x \in Events
                PROVE  IF events'[x] = None THEN claims'[x] = 0 /\ lapses'[x] = 0
                       ELSE claims'[x] <= lapses'[x] + events'[x].attempts
                                            + Outstanding(events'[x])
    BY DEF ClaimsFit
  <2>1. CASE x = e
    BY <2>1, NewEventType DEF Insert, IndInv, TypeOK, ClaimsFit, NewEvent, Outstanding,
       past
  <2>2. CASE x # e
    BY <2>2 DEF Insert, IndInv, TypeOK, ClaimsFit, past
  <2>. QED BY <2>1, <2>2
<1>. QED BY <1>1, <1>2, <1>3 DEF IndInv

\* Claiming a batch keeps the invariant: every row taken had no unpaid claim.
LEMMA ClaimStep ==
    ASSUME IndInv, NEW p \in Publishers, Claim(p)
    PROVE  IndInv'
<1>1. PICK S \in SUBSET {e \in Events : Claimable(e)} :
          /\ Cardinality(S) \in 1..BatchSize
          /\ events' = [e \in Events |->
                          IF e \in S THEN [events[e] EXCEPT !.lock = p, !.elapsed = FALSE]
                          ELSE events[e]]
          /\ batch' = [batch EXCEPT ![p] = S]
          /\ claims' = [e \in Events |-> IF e \in S THEN claims[e] + 1 ELSE claims[e]]
  BY DEF Claim
<1>2. S # {}
  <2>1. Cardinality(S) \in 1..BatchSize
    BY <1>1, Zenon
  <2>2. Cardinality(S) # 0
    BY <2>1, BoundsAssumption
  <2>3. Cardinality({}) = 0
    BY FS_EmptySet
  <2>. QED BY <2>2, <2>3
<1>3. \A e \in S : /\ events[e] \in EventRow /\ events[e] # None
                   /\ [events[e] EXCEPT !.lock = p, !.elapsed = FALSE] \in EventRow
  <2>1. \A e \in S : events[e] \in EventRow /\ events[e] # None
    BY <1>1 DEF Claimable, Committed, IndInv, TypeOK
  <2>. QED BY <2>1, RowTypes
<1>4. Committed' = Committed
  BY <1>1, <1>3, AbsentEvent DEF Committed
<1>5. TypeOK'
  <2>1. events' \in [Events -> EventRow \cup {None}]
    <3>1. \A e \in Events :
              (IF e \in S THEN [events[e] EXCEPT !.lock = p, !.elapsed = FALSE]
               ELSE events[e]) \in EventRow \cup {None}
      BY <1>3 DEF IndInv, TypeOK
    <3>2. events' = [e \in Events |->
                       IF e \in S THEN [events[e] EXCEPT !.lock = p, !.elapsed = FALSE]
                       ELSE events[e]]
      BY <1>1, Zenon
    <3>. QED BY <3>1, <3>2
  <2>2. claims' \in [Events -> Nat]
    <3>1. \A e \in Events : (IF e \in S THEN claims[e] + 1 ELSE claims[e]) \in Nat
      BY DEF IndInv, TypeOK
    <3>2. claims' = [e \in Events |-> IF e \in S THEN claims[e] + 1 ELSE claims[e]]
      BY <1>1, Zenon
    <3>. QED BY <3>1, <3>2
  <2>3. /\ batch' \in [Publishers -> SUBSET Events]
        /\ batch'[p] = S
    BY <1>1 DEF IndInv, TypeOK
  <2>4. /\ pc' \in [Publishers -> {"poll", "send", "confirm", "retry"}]
        /\ pc[p] = "poll" /\ pc'[p] = "send" /\ current[p] = None
        /\ UNCHANGED <<queue, current, faults, overruns, lapses>>
    BY DEF Claim, IndInv, TypeOK, bounds
  <2>5. \A q \in Publishers \ {p} : pc'[q] = pc[q] /\ batch'[q] = batch[q]
    BY <1>1 DEF Claim, IndInv, TypeOK
  <2>. QED BY <1>2, <2>1, <2>2, <2>3, <2>4, <2>5 DEF IndInv, TypeOK
<1>6. WorkFits'
  <2>1. S \subseteq Committed
    BY <1>1 DEF Claimable
  <2>. QED BY <1>1, <1>4, <2>1 DEF Claim, IndInv, TypeOK, WorkFits
<1>7. ASSUME NEW e \in Events
      PROVE  IF events'[e] = None THEN claims'[e] = 0 /\ lapses'[e] = 0
             ELSE claims'[e] <= lapses'[e] + events'[e].attempts + Outstanding(events'[e])
  <2>1. CASE e \notin S
    BY <1>1, <2>1 DEF Claim, IndInv, TypeOK, ClaimsFit
  <2>2. CASE e \in S
    <3>. DEFINE r == events[e]
    <3>1. ~r.published /\ (r.lock = None \/ r.elapsed)
      BY <1>1, <2>2 DEF Claimable, Committed, Published
    <3>2. Outstanding(r) = 0
      BY <3>1 DEF Outstanding
    <3>3. /\ events'[e] = [r EXCEPT !.lock = p, !.elapsed = FALSE]
          /\ events'[e].attempts = r.attempts
          /\ events'[e].lock = p /\ events'[e].elapsed = FALSE
          /\ events'[e] # None
      BY <1>1, <1>3, <2>2, AbsentEvent DEF EventRow
    <3>4. Outstanding(events'[e]) = 1
      BY <3>3, AbsentEvent DEF Outstanding
    <3>5. claims'[e] = claims[e] + 1 /\ lapses'[e] = lapses[e]
      BY <1>1, <2>2 DEF Claim
    <3>6. claims[e] <= lapses[e] + r.attempts + 0
      BY <1>3, <2>2, <3>2 DEF IndInv, ClaimsFit
    <3>7. claims[e] \in Nat /\ lapses[e] \in Nat /\ r.attempts \in Nat
      BY <1>3, <2>2 DEF IndInv, TypeOK, EventRow
    <3>. QED BY <3>3, <3>4, <3>5, <3>6, <3>7
  <2>. QED BY <2>1, <2>2
<1>. QED BY <1>5, <1>6, <1>7 DEF IndInv, ClaimsFit

\* Sending, successfully or not, and abandoning a batch touch no row.
LEMMA CallStep ==
    ASSUME IndInv, NEW p \in Publishers, Send(p) \/ SendFails(p) \/ Abandon(p)
    PROVE  IndInv'
<1>1. UNCHANGED <<events, claims, lapses>>
  BY DEF Send, SendFails, Abandon, past
<1>2. TypeOK'
  <2>1. CASE Send(p)
    BY <2>1 DEF Send, IndInv, TypeOK, bounds, past
  <2>2. CASE SendFails(p)
    BY <2>2 DEF SendFails, Fault, IndInv, TypeOK, bounds, past
  <2>3. CASE Abandon(p)
    BY <2>3 DEF Abandon, Fault, IndInv, TypeOK, bounds, past
  <2>. QED BY <2>1, <2>2, <2>3
<1>3. WorkFits'
  <2>1. CASE Send(p)
    BY <2>1 DEF Send, IndInv, TypeOK, WorkFits, Committed
  <2>2. CASE SendFails(p)
    BY <2>2 DEF SendFails, IndInv, TypeOK, WorkFits, Committed
  <2>3. CASE Abandon(p)
    BY <2>3 DEF Abandon, IndInv, TypeOK, WorkFits, Committed
  <2>. QED BY <2>1, <2>2, <2>3
<1>4. ClaimsFit'
  BY <1>1 DEF IndInv, ClaimsFit
<1>. QED BY <1>2, <1>3, <1>4 DEF IndInv

\* A guarded UPDATE of the current event's row, to a row whose attempts and
\* outstanding claim add up to at least as much, keeps the invariant.
LEMMA UpdateStep ==
    ASSUME IndInv, NEW p \in Publishers, NEW row \in EventRow,
           pc[p] \in {"confirm", "retry"}, Update(current[p], row), Done(p),
           UNCHANGED <<queue, bounds, past>>,
           ~events[current[p]].published =>
               events[current[p]].attempts + Outstanding(events[current[p]])
                   <= row.attempts + Outstanding(row)
    PROVE  IndInv'
<1>. DEFINE e == current[p]
<1>1. /\ e \in Events /\ e \in batch[p]
      /\ events[e] \in EventRow /\ events[e] # None
  BY DEF IndInv, TypeOK, WorkFits, Committed
<1>2. row # None
  BY AbsentEvent
<1>3. Committed' = Committed
  BY <1>1, <1>2 DEF Update, Committed, IndInv, TypeOK
<1>4. TypeOK'
  BY <1>1 DEF Update, Done, IndInv, TypeOK, bounds, past
<1>5. WorkFits'
  BY <1>3 DEF Done, IndInv, TypeOK, WorkFits
<1>6. ASSUME NEW x \in Events
      PROVE  IF events'[x] = None THEN claims'[x] = 0 /\ lapses'[x] = 0
             ELSE claims'[x] <= lapses'[x] + events'[x].attempts + Outstanding(events'[x])
  <2>1. CASE x # e \/ events[e].published
    <3>1. events'[x] = events[x]
      BY <2>1 DEF Update, IndInv, TypeOK
    <3>. QED BY <3>1 DEF IndInv, ClaimsFit, past
  <2>2. CASE x = e /\ ~events[e].published
    <3>1. events'[x] = row
      BY <1>1, <2>2 DEF Update, IndInv, TypeOK
    <3>2. claims[x] <= lapses[x] + events[x].attempts + Outstanding(events[x])
      BY <1>1, <2>2 DEF IndInv, ClaimsFit
    <3>3. /\ claims[x] \in Nat /\ lapses[x] \in Nat /\ events[x].attempts \in Nat
          /\ row.attempts \in Nat
          /\ Outstanding(events[x]) \in Nat /\ Outstanding(row) \in Nat
      BY <1>1, <2>2 DEF IndInv, TypeOK, EventRow, Outstanding
    <3>. QED BY <1>2, <2>2, <3>1, <3>2, <3>3 DEF past
  <2>. QED BY <2>1, <2>2
<1>. QED BY <1>4, <1>5, <1>6 DEF IndInv, ClaimsFit

\* MarkPublished keeps the invariant: a published row keeps its claim.
LEMMA MarkPublishedStep ==
    ASSUME IndInv, NEW p \in Publishers, MarkPublished(p)
    PROVE  IndInv'
<1>. DEFINE r == events[current[p]]
            row == [r EXCEPT !.published = TRUE, !.lock = None, !.elapsed = FALSE]
<1>1. r \in EventRow
  BY DEF MarkPublished, IndInv, TypeOK, WorkFits, Committed
<1>2. /\ row \in EventRow
      /\ row.attempts = r.attempts
      /\ row.published = TRUE
  BY <1>1, RowTypes DEF EventRow
<1>3. r.attempts + Outstanding(r) <= row.attempts + Outstanding(row)
  BY <1>1, <1>2 DEF Outstanding, EventRow
<1>. QED BY <1>2, <1>3, UpdateStep DEF MarkPublished

\* ScheduleRetry keeps the invariant: the retry pays for the claim it ends,
\* even when that claim is somebody else's.
LEMMA ScheduleRetryStep ==
    ASSUME IndInv, NEW p \in Publishers, ScheduleRetry(p)
    PROVE  IndInv'
<1>. DEFINE r == events[current[p]]
            row == [r EXCEPT !.attempts = @ + 1, !.due = FALSE,
                             !.lock = None, !.elapsed = FALSE]
<1>1. r \in EventRow
  BY DEF ScheduleRetry, IndInv, TypeOK, WorkFits, Committed
<1>2. /\ row \in EventRow
      /\ row.attempts = r.attempts + 1
  BY <1>1, RowTypes DEF EventRow
<1>3. r.attempts + Outstanding(r) <= row.attempts + Outstanding(row)
  BY <1>1, <1>2 DEF Outstanding, EventRow
<1>. QED BY <1>2, <1>3, UpdateStep DEF ScheduleRetry

\* A lease that elapses is counted and leaves no claim outstanding.
LEMMA LeaseElapsesStep ==
    ASSUME IndInv, NEW e \in Events, LeaseElapses(e)
    PROVE  IndInv'
<1>1. /\ events[e] \in EventRow /\ events[e] # None
      /\ ~events[e].published /\ events[e].lock # None /\ ~events[e].elapsed
  BY DEF LeaseElapses, Committed, Published, IndInv, TypeOK
<1>2. /\ events'[e] = [events[e] EXCEPT !.elapsed = TRUE]
      /\ events'[e] \in EventRow /\ events'[e] # None
      /\ \A x \in Events \ {e} : events'[x] = events[x]
  BY <1>1, AbsentEvent DEF LeaseElapses, IndInv, TypeOK, EventRow
<1>3. Committed' = Committed
  BY <1>1, <1>2 DEF Committed
<1>4. TypeOK'
  BY <1>1, <1>2 DEF LeaseElapses, IndInv, TypeOK, work
<1>5. WorkFits'
  BY <1>3 DEF LeaseElapses, IndInv, WorkFits, work
<1>6. ASSUME NEW x \in Events
      PROVE  IF events'[x] = None THEN claims'[x] = 0 /\ lapses'[x] = 0
             ELSE claims'[x] <= lapses'[x] + events'[x].attempts + Outstanding(events'[x])
  <2>1. CASE x # e
    BY <1>2, <2>1 DEF LeaseElapses, IndInv, TypeOK, ClaimsFit
  <2>2. CASE x = e
    <3>1. events'[x].attempts = events[x].attempts
      BY <1>1, <1>2, <2>2 DEF EventRow
    <3>2. Outstanding(events[x]) = 1 /\ Outstanding(events'[x]) \in Nat
      BY <1>1, <2>2 DEF Outstanding
    <3>3. claims'[x] = claims[x] /\ lapses'[x] = lapses[x] + 1
      BY <2>2 DEF LeaseElapses, IndInv, TypeOK
    <3>4. claims[x] <= lapses[x] + events[x].attempts + 1
      BY <1>1, <2>2, <3>2 DEF IndInv, ClaimsFit
    <3>5. claims[x] \in Nat /\ lapses[x] \in Nat /\ events[x].attempts \in Nat
      BY <1>1, <2>2 DEF IndInv, TypeOK, EventRow
    <3>. QED BY <1>2, <2>2, <3>1, <3>2, <3>3, <3>4, <3>5
  <2>. QED BY <2>1, <2>2
<1>. QED BY <1>4, <1>5, <1>6 DEF IndInv, ClaimsFit

\* The end of a backoff keeps the invariant.
LEMMA BackoffElapsesStep ==
    ASSUME IndInv, NEW e \in Events, BackoffElapses(e)
    PROVE  IndInv'
<1>1. events[e] \in EventRow /\ events[e] # None
  BY DEF BackoffElapses, Committed, IndInv, TypeOK
<1>2. /\ events'[e] = [events[e] EXCEPT !.due = TRUE]
      /\ events'[e] \in EventRow /\ events'[e] # None
      /\ \A x \in Events \ {e} : events'[x] = events[x]
      /\ UNCHANGED <<queue, work, bounds, past>>
  BY <1>1, AbsentEvent DEF BackoffElapses, IndInv, TypeOK, EventRow
<1>3. Committed' = Committed
  BY <1>1, <1>2 DEF Committed
<1>4. TypeOK'
  BY <1>2 DEF BackoffElapses, IndInv, TypeOK, work, bounds, past
<1>5. WorkFits'
  BY <1>2, <1>3 DEF IndInv, WorkFits, work
<1>6. \A x \in Events : /\ (events'[x] = None) <=> (events[x] = None)
                        /\ events[x] # None =>
                              /\ events'[x].attempts = events[x].attempts
                              /\ Outstanding(events'[x]) = Outstanding(events[x])
  BY <1>1, <1>2 DEF Outstanding, EventRow
<1>7. ClaimsFit'
  BY <1>2, <1>6 DEF IndInv, ClaimsFit, past
<1>. QED BY <1>4, <1>5, <1>7 DEF IndInv

\* Every step of every publisher, every commit and the passing of time keep
\* the invariant.
LEMMA NextIndInv == IndInv /\ [Next]_vars => IndInv'
<1>. SUFFICES ASSUME IndInv, [Next]_vars PROVE IndInv'
  OBVIOUS
<1>1. CASE UNCHANGED vars
  BY <1>1 DEF vars, work, bounds, past, IndInv, TypeOK, WorkFits, ClaimsFit, Committed
<1>2. CASE \E e \in Events : Insert(e) \/ LeaseElapses(e) \/ BackoffElapses(e)
  BY <1>2, InsertStep, LeaseElapsesStep, BackoffElapsesStep
<1>3. CASE \E p \in Publishers : \/ Claim(p) \/ Send(p) \/ SendFails(p) \/ MarkPublished(p)
                                 \/ ScheduleRetry(p) \/ Abandon(p)
  BY <1>3, ClaimStep, CallStep, MarkPublishedStep, ScheduleRetryStep
<1>. QED BY <1>1, <1>2, <1>3 DEF Next

\* IndInv is an invariant of the publishers.
LEMMA Invariance == Spec => []IndInv
  BY InitIndInv, NextIndInv, PTL DEF Spec

-----------------------------------------------------------------------------
\* No row is added and none is published.
RowsKept ==
    \A x \in Events : /\ (events'[x] = None) <=> (events[x] = None)
                      /\ events[x] # None =>
                            (events'[x].published <=> events[x].published)

\* Such a step leaves both sets of EventDelivery's events as they were.
LEMMA SameSets ==
    ASSUME RowsKept
    PROVE  Committed' = Committed /\ Published' = Published
<1>1. Committed' \subseteq Committed /\ Committed \subseteq Committed'
  BY DEF Committed, RowsKept
<1>2. Published' \subseteq Published /\ Published \subseteq Published'
  BY DEF Published, RowsKept
<1>. QED BY <1>1, <1>2

\* An UPDATE of one row that leaves published_at alone is such a step.
LEMMA UpdateKeepsRows ==
    ASSUME IndInv, NEW e \in Events, NEW row \in EventRow,
           events[e] # None, row.published = events[e].published,
           events' = events \/ events' = [events EXCEPT ![e] = row]
    PROVE  RowsKept
<1>1. row # None
  BY AbsentEvent
<1>2. CASE events' = events
  BY <1>2 DEF RowsKept
<1>3. CASE events' = [events EXCEPT ![e] = row]
  <2>1. events'[e] = row /\ \A x \in Events \ {e} : events'[x] = events[x]
    BY <1>3 DEF IndInv, TypeOK
  <2>. QED BY <1>1, <2>1 DEF RowsKept
<1>. QED BY <1>2, <1>3

\* Every row and register of the publishers keeps its type, and a publisher
\* has a batch and a current record exactly when its position says so.
THEOREM OutboxTypeCorrect == Spec => []TypeOK
<1>1. IndInv => TypeOK
  BY DEF IndInv
<1>. QED BY <1>1, Invariance, PTL

\* No event is ever leased more often than its lapses and retries account for,
\* with any number of competing publishers.
THEOREM ClaimsAccounted == Spec => []ClaimsAreAccounted
<1>1. IndInv => ClaimsAreAccounted
  <2>. SUFFICES ASSUME IndInv, NEW e \in Committed
                PROVE  claims[e] <= 1 + lapses[e] + events[e].attempts
    BY DEF ClaimsAreAccounted
  <2>1. claims[e] <= lapses[e] + events[e].attempts + Outstanding(events[e])
    BY DEF IndInv, ClaimsFit, Committed
  <2>2. Outstanding(events[e]) \in 0..1
    BY DEF Outstanding
  <2>3. claims[e] \in Nat /\ lapses[e] \in Nat /\ events[e].attempts \in Nat
    BY DEF IndInv, TypeOK, Committed, EventRow
  <2>. QED BY <2>1, <2>2, <2>3
<1>. QED BY <1>1, Invariance, PTL

\* No late MarkPublished, ScheduleRetry or Claim changes a published row.
THEOREM PublishedFrozen == Spec => PublishedRowsAreFrozen
<1>1. IndInv /\ [Next]_vars =>
          [\A e \in Published : events'[e] = [events[e] EXCEPT !.due = events'[e].due]]_vars
  <2>. SUFFICES ASSUME IndInv, Next, NEW e \in Published
                PROVE  events'[e] = [events[e] EXCEPT !.due = events'[e].due]
    OBVIOUS
  <2>1. events[e] \in EventRow /\ events[e].published /\ e \in Events /\ events[e] # None
    BY DEF Published, Committed, IndInv, TypeOK
  <2>2. events'[e] = events[e] \/ events'[e] = [events[e] EXCEPT !.due = TRUE]
    <3>1. ASSUME NEW x \in Events, Insert(x) \/ LeaseElapses(x)
          PROVE  events'[e] = events[e]
      BY <2>1, <3>1 DEF Insert, LeaseElapses, Published, IndInv, TypeOK
    <3>5. ASSUME NEW x \in Events, BackoffElapses(x)
          PROVE  events'[e] = events[e] \/ events'[e] = [events[e] EXCEPT !.due = TRUE]
      BY <2>1, <3>5 DEF BackoffElapses, IndInv, TypeOK
    <3>2. ASSUME NEW p \in Publishers, Claim(p)
          PROVE  events'[e] = events[e]
      BY <2>1, <3>2 DEF Claim, Claimable
    <3>3. ASSUME NEW p \in Publishers, Send(p) \/ SendFails(p) \/ Abandon(p)
          PROVE  events'[e] = events[e]
      BY <3>3 DEF Send, SendFails, Abandon
    <3>4. ASSUME NEW p \in Publishers, MarkPublished(p) \/ ScheduleRetry(p)
          PROVE  events'[e] = events[e]
      BY <2>1, <3>4 DEF MarkPublished, ScheduleRetry, Update, IndInv, TypeOK
    <3>. QED BY <3>1, <3>2, <3>3, <3>4, <3>5 DEF Next
  <2>. QED BY <2>1, <2>2 DEF EventRow
<1>. QED BY <1>1, Invariance, PTL DEF Spec, PublishedRowsAreFrozen

\* Every publisher step is a step of EventDelivery or leaves what it promises
\* as it was: nothing unsent is confirmed, nothing uncommitted is sent.
THEOREM DeliveryImplemented == Spec => ImplementsDelivery
<1>1. Init => Delivery!Init
  BY DEF Init, Delivery!Init, Committed, Published
<1>2. IndInv /\ [Next]_vars => [Delivery!Next]_(Delivery!vars)
  <2>. SUFFICES ASSUME IndInv, [Next]_vars PROVE [Delivery!Next]_(Delivery!vars)
    OBVIOUS
  <2>1. CASE UNCHANGED vars
    BY <2>1 DEF vars, Delivery!vars, Committed, Published
  <2>2. ASSUME NEW e \in Events, Insert(e)
        PROVE  Delivery!CommitEvent(e)
    <3>1. Committed' = Committed \cup {e} /\ e \notin Committed
      BY <2>2, NewEventType DEF Insert, Committed, IndInv, TypeOK
    <3>2. Published' = Published
      BY <2>2, NewEventType DEF Insert, Committed, Published, IndInv, TypeOK, NewEvent
    <3>. QED BY <2>2, <3>1, <3>2 DEF Delivery!CommitEvent, Insert
  <2>3. ASSUME NEW e \in Events, LeaseElapses(e) \/ BackoffElapses(e)
        PROVE  UNCHANGED Delivery!vars
    <3>1. events[e] \in EventRow /\ events[e] # None
      BY <2>3 DEF LeaseElapses, BackoffElapses, Committed, IndInv, TypeOK
    <3>2. RowsKept
      <4>. DEFINE late == [events[e] EXCEPT !.elapsed = TRUE]
                  due  == [events[e] EXCEPT !.due = TRUE]
      <4>1. /\ late \in EventRow /\ late.published = events[e].published
            /\ due \in EventRow /\ due.published = events[e].published
        BY <3>1 DEF EventRow
      <4>2. events' = [events EXCEPT ![e] = late] \/ events' = [events EXCEPT ![e] = due]
        BY <2>3 DEF LeaseElapses, BackoffElapses, IndInv, TypeOK
      <4>. HIDE DEF late, due
      <4>. QED BY <3>1, <4>1, <4>2, UpdateKeepsRows
    <3>3. Committed' = Committed /\ Published' = Published
      BY <3>2, SameSets
    <3>4. queue' = queue
      BY <2>3 DEF LeaseElapses, BackoffElapses
    <3>. QED BY <3>3, <3>4 DEF Delivery!vars
  <2>4. ASSUME NEW p \in Publishers, Claim(p)
        PROVE  UNCHANGED Delivery!vars
    <3>1. RowsKept
      <4>1. PICK S \in SUBSET {e \in Events : Claimable(e)} :
                events' = [e \in Events |->
                             IF e \in S THEN [events[e] EXCEPT !.lock = p, !.elapsed = FALSE]
                             ELSE events[e]]
        BY <2>4 DEF Claim
      <4>2. ASSUME NEW x \in S
            PROVE  /\ events'[x] = [events[x] EXCEPT !.lock = p, !.elapsed = FALSE]
                   /\ events[x] \in EventRow
        BY <4>1 DEF Claimable, Committed, IndInv, TypeOK
      <4>3. ASSUME NEW x \in S
            PROVE  /\ events'[x] # None /\ events[x] # None
                   /\ events'[x].published = events[x].published
        <5>. DEFINE r == events[x]
                    row == [r EXCEPT !.lock = p, !.elapsed = FALSE]
        <5>1. r \in EventRow /\ events'[x] = row
          BY <4>2
        <5>2. row \in EventRow
          BY <5>1, RowTypes
        <5>3. row.published = r.published
          BY <5>1 DEF EventRow
        <5>. QED BY <5>1, <5>2, <5>3, AbsentEvent
      <4>. QED BY <4>1, <4>3 DEF RowsKept
    <3>2. Committed' = Committed /\ Published' = Published
      BY <3>1, SameSets
    <3>. QED BY <2>4, <3>2 DEF Claim, Delivery!vars
  <2>5. ASSUME NEW p \in Publishers, Send(p) \/ SendFails(p) \/ Abandon(p)
        PROVE  (\E e \in Events : Delivery!Deliver(e)) \/ UNCHANGED Delivery!vars
    <3>1. events' = events
      BY <2>5 DEF Send, SendFails, Abandon
    <3>2. Committed' = Committed /\ Published' = Published
      BY <3>1 DEF Committed, Published
    <3>3. queue' = queue \/ \E e \in Committed : queue' = queue \cup {e}
      BY <2>5 DEF Send, SendFails, Abandon, IndInv, WorkFits
    <3>. QED BY <3>2, <3>3 DEF Delivery!Deliver, Delivery!vars, Committed
  <2>6. ASSUME NEW p \in Publishers, MarkPublished(p) \/ ScheduleRetry(p)
        PROVE  (\E e \in Events : Delivery!Confirm(e)) \/ UNCHANGED Delivery!vars
    <3>. DEFINE e == current[p]
    <3>1. e \in Events /\ events[e] \in EventRow /\ events[e] # None
      BY <2>6 DEF MarkPublished, ScheduleRetry, IndInv, TypeOK, WorkFits, Committed
    <3>2. queue' = queue
      BY <2>6 DEF MarkPublished, ScheduleRetry
    <3>3. CASE MarkPublished(p)
      <4>1. e \in queue
        BY <3>3 DEF MarkPublished, IndInv, WorkFits
      <4>2. /\ events'[e] # None /\ events'[e].published
            /\ \A x \in Events \ {e} : events'[x] = events[x]
        BY <3>1, <3>3, AbsentEvent DEF MarkPublished, Update, IndInv, TypeOK, EventRow
      <4>3. Committed' = Committed /\ Published' = Published \cup {e}
        BY <3>1, <4>2 DEF Committed, Published
      <4>. QED BY <3>1, <3>2, <4>1, <4>3 DEF Delivery!Confirm
    <3>4. CASE ScheduleRetry(p)
      <4>1. RowsKept
        <5>. DEFINE r == events[e]
                    row == [r EXCEPT !.attempts = r.attempts + 1, !.due = FALSE,
                                     !.lock = None, !.elapsed = FALSE]
        <5>1. row \in EventRow
          BY <2>6, <3>1, RowTypes
        <5>2. row.published = r.published
          BY <3>1 DEF EventRow
        <5>3. events' = events \/ events' = [events EXCEPT ![e] = row]
          BY <3>4 DEF ScheduleRetry, Update
        <5>. HIDE DEF row
        <5>. QED BY <3>1, <5>1, <5>2, <5>3, UpdateKeepsRows
      <4>2. Committed' = Committed /\ Published' = Published
        BY <4>1, SameSets
      <4>. QED BY <3>2, <4>2 DEF Delivery!vars
    <3>. QED BY <2>6, <3>3, <3>4
  <2>. QED BY <2>1, <2>2, <2>3, <2>4, <2>5, <2>6 DEF Next, Delivery!Next
<1>. QED BY <1>1, <1>2, Invariance, PTL DEF Spec, ImplementsDelivery, Delivery!Spec
=============================================================================
