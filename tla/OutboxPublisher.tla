-------------------------- MODULE OutboxPublisher ---------------------------
(***************************************************************************)
(* The outbox publishers of every instance: each polls outbox_events,      *)
(* leases a batch in one short transaction, sends the batch event by event *)
(* and confirms or reschedules each in a statement of its own.             *)
(*                                                                         *)
(* Time appears as what has passed: a lease elapses and a backoff ends at  *)
(* any moment.  What a lease column holds is the claim that wrote it.      *)
(* The order within a batch is open: RETURNING does not keep the ORDER BY  *)
(* of the candidates, and SKIP LOCKED may leave any of them to another     *)
(* publisher.  Metrics and the payload's decoding are left out.            *)
(***************************************************************************)
EXTENDS Naturals, FiniteSets

CONSTANTS
    None,
    Events,       \* event_id values that transactions may commit
    Publishers,   \* instances running the publisher
    BatchSize,    \* OUTBOX_BATCH_SIZE
    MaxFaults,    \* bound on failed calls, crashes and restarts
    MaxOverruns   \* bound on leases that elapse under a working publisher

VARIABLES
    events,    \* outbox_events, None before the event is committed
    queue,     \* events that reached wallet-events.fifo
    pc,        \* next call of each publisher
    batch,     \* records it claimed and is not done with
    current,   \* the record it is publishing
    faults,    \* failures so far
    overruns,  \* leases that elapsed under their publisher so far
    claims,    \* history: claims of each event
    lapses     \* history: leases of each event that elapsed

work   == <<pc, batch, current>>
bounds == <<faults, overruns>>
past   == <<claims, lapses>>
vars   == <<events, queue, work, bounds, past>>

NewEvent == [attempts |-> 0, due |-> TRUE, lock |-> None, elapsed |-> FALSE,
             published |-> FALSE]

Committed == {e \in Events : events[e] # None}
Published == {e \in Events : events[e] # None /\ events[e].published}

Init ==
    /\ events = [e \in Events |-> None]
    /\ queue = {}
    /\ pc = [p \in Publishers |-> "poll"]
    /\ batch = [p \in Publishers |-> {}]
    /\ current = [p \in Publishers |-> None]
    /\ faults = 0
    /\ overruns = 0
    /\ claims = [e \in Events |-> 0]
    /\ lapses = [e \in Events |-> 0]

\* outboxRepository.Insert, with the business transaction that commits it.
Insert(e) ==
    /\ events[e] = None
    /\ events' = [events EXCEPT ![e] = NewEvent]
    /\ UNCHANGED <<queue, work, bounds, past>>

-----------------------------------------------------------------------------
(* Claim.                                                                  *)

\* Mutant: an elapsed lease is not taken over.
ClaimableIfUnlocked(e) ==
    /\ e \in Committed \ Published
    /\ events[e].due
    /\ events[e].lock = None

\* Mutant: the lease column is not looked at.
ClaimableIfDue(e) == e \in Committed \ Published /\ events[e].due

\* published_at IS NULL AND next_attempt_at <= now()
\* AND (locked_until IS NULL OR locked_until <= now())
Claimable(e) ==
    /\ e \in Committed \ Published
    /\ events[e].due
    /\ events[e].lock = None \/ events[e].elapsed

Claim(p) ==
    /\ pc[p] = "poll"
    /\ \E S \in SUBSET {e \in Events : Claimable(e)} :
          /\ Cardinality(S) \in 1..BatchSize
          /\ events' = [e \in Events |->
                          IF e \in S THEN [events[e] EXCEPT !.lock = p, !.elapsed = FALSE]
                          ELSE events[e]]
          /\ batch' = [batch EXCEPT ![p] = S]
          /\ claims' = [e \in Events |-> IF e \in S THEN claims[e] + 1 ELSE claims[e]]
    /\ pc' = [pc EXCEPT ![p] = "send"]
    /\ UNCHANGED <<queue, current, bounds, lapses>>

-----------------------------------------------------------------------------
(* publish and retry.                                                      *)

Fault == faults < MaxFaults /\ faults' = faults + 1

Send(p) ==
    /\ pc[p] = "send"
    /\ \E e \in batch[p] :
          /\ current' = [current EXCEPT ![p] = e]
          /\ queue' = queue \cup {e}
    /\ pc' = [pc EXCEPT ![p] = "confirm"]
    /\ UNCHANGED <<events, batch, bounds, past>>

\* Mutant: the error of Queue.Send is dropped.
SendErrorIgnored(p) ==
    /\ pc[p] = "send"
    /\ Fault
    /\ \E e \in batch[p] : current' = [current EXCEPT ![p] = e]
    /\ pc' = [pc EXCEPT ![p] = "confirm"]
    /\ UNCHANGED <<events, queue, batch, overruns, past>>

\* SendMessage returned an error: the queue may have accepted the event or not.
SendFails(p) ==
    /\ pc[p] = "send"
    /\ Fault
    /\ \E e \in batch[p] :
          /\ current' = [current EXCEPT ![p] = e]
          /\ queue' \in {queue, queue \cup {e}}
    /\ pc' = [pc EXCEPT ![p] = "retry"]
    /\ UNCHANGED <<events, batch, overruns, past>>

\* Mutant: the loop goes on after the last record.
DoneButSends(p) ==
    /\ batch' = [batch EXCEPT ![p] = @ \ {current[p]}]
    /\ current' = [current EXCEPT ![p] = None]
    /\ pc' = [pc EXCEPT ![p] = "send"]

\* The next record of the batch, or the next poll.
Done(p) ==
    /\ batch' = [batch EXCEPT ![p] = @ \ {current[p]}]
    /\ current' = [current EXCEPT ![p] = None]
    /\ pc' = [pc EXCEPT ![p] = IF batch[p] = {current[p]} THEN "poll" ELSE "send"]

\* UPDATE outbox_events SET ... WHERE event_id = $1 AND published_at IS NULL
Update(e, row) ==
    events' = IF events[e].published THEN events ELSE [events EXCEPT ![e] = row]

MarkPublished(p) ==
    LET e == current[p] IN
    /\ pc[p] = "confirm"
    /\ Update(e, [events[e] EXCEPT !.published = TRUE, !.lock = None, !.elapsed = FALSE])
    /\ Done(p)
    /\ UNCHANGED <<queue, bounds, past>>

\* Mutant: the WHERE clause names the event only.
RetryWithoutGuard(p) ==
    /\ pc[p] = "retry"
    /\ events' = [events EXCEPT ![current[p]].attempts = @ + 1, ![current[p]].due = FALSE,
                                ![current[p]].lock = None, ![current[p]].elapsed = FALSE]
    /\ Done(p)
    /\ UNCHANGED <<queue, bounds, past>>

ScheduleRetry(p) ==
    LET e == current[p] IN
    /\ pc[p] = "retry"
    /\ Update(e, [events[e] EXCEPT !.attempts = @ + 1, !.due = FALSE,
                                   !.lock = None, !.elapsed = FALSE])
    /\ Done(p)
    /\ UNCHANGED <<queue, bounds, past>>

\* MarkPublished or ScheduleRetry failed, the context was cancelled, or the
\* process died: the rest of the batch is dropped with its leases in place.
Abandon(p) ==
    /\ pc[p] # "poll"
    /\ Fault
    /\ pc' = [pc EXCEPT ![p] = "poll"]
    /\ batch' = [batch EXCEPT ![p] = {}]
    /\ current' = [current EXCEPT ![p] = None]
    /\ UNCHANGED <<events, queue, overruns, past>>

-----------------------------------------------------------------------------
(* Time.                                                                   *)

\* locked_until passes, perhaps while its publisher is still at work.
LeaseElapses(e) ==
    /\ e \in Committed \ Published
    /\ events[e].lock # None
    /\ ~events[e].elapsed
    /\ IF e \in batch[events[e].lock]
       THEN overruns < MaxOverruns /\ overruns' = overruns + 1
       ELSE UNCHANGED overruns
    /\ events' = [events EXCEPT ![e].elapsed = TRUE]
    /\ lapses' = [lapses EXCEPT ![e] = @ + 1]
    /\ UNCHANGED <<queue, work, faults, claims>>

\* next_attempt_at passes.
BackoffElapses(e) ==
    /\ e \in Committed
    /\ ~events[e].due
    /\ events' = [events EXCEPT ![e].due = TRUE]
    /\ UNCHANGED <<queue, work, bounds, past>>

-----------------------------------------------------------------------------
Next ==
    \/ \E e \in Events : Insert(e) \/ LeaseElapses(e) \/ BackoffElapses(e)
    \/ \E p \in Publishers : \/ Claim(p) \/ Send(p) \/ SendFails(p) \/ MarkPublished(p)
                             \/ ScheduleRetry(p) \/ Abandon(p)

Spec == Init /\ [][Next]_vars

\* Time passes, and run polls and works through its batch as long as its
\* process lives.  Nothing obliges a transaction to commit or a call to fail.
Fairness ==
    /\ \A e \in Events : WF_vars(LeaseElapses(e)) /\ WF_vars(BackoffElapses(e))
    /\ \A p \in Publishers :
          /\ WF_vars(Claim(p))
          /\ WF_vars(Send(p))
          /\ WF_vars(MarkPublished(p))
          /\ WF_vars(ScheduleRetry(p))

FairSpec == Spec /\ Fairness

-----------------------------------------------------------------------------
\* The caps are bounds of the instance, not of the code.
ASSUME BoundsAssumption ==
    /\ BatchSize \in Nat \ {0}
    /\ MaxFaults \in Nat
    /\ MaxOverruns \in Nat

EventRow == [attempts : Nat, due : BOOLEAN, lock : Publishers \cup {None},
             elapsed : BOOLEAN, published : BOOLEAN]

ASSUME AbsentEvent == None \notin Events \cup Publishers \cup EventRow

\* Type invariant, with the registers a publisher's position implies: only a
\* polling publisher has an empty batch, and only one between two calls for an
\* event has a current record.
TypeOK ==
    /\ events \in [Events -> EventRow \cup {None}]
    /\ queue \subseteq Events
    /\ pc \in [Publishers -> {"poll", "send", "confirm", "retry"}]
    /\ batch \in [Publishers -> SUBSET Events]
    /\ current \in [Publishers -> Events \cup {None}]
    /\ \A p \in Publishers :
          /\ pc[p] = "poll" <=> batch[p] = {}
          /\ IF pc[p] \in {"confirm", "retry"} THEN current[p] \in batch[p]
             ELSE current[p] = None
    /\ faults \in Nat /\ overruns \in Nat
    /\ claims \in [Events -> Nat] /\ lapses \in [Events -> Nat]

\* An event is leased again only for a reason: after its first claim, each
\* further one is paid for by a lease that ran out or by a recorded retry.
\* Two publishers that compete for the same batch never both take a row.
ClaimsAreAccounted ==
    \A e \in Committed : claims[e] <= 1 + lapses[e] + events[e].attempts

\* A published row is out of every publisher's reach: the late confirmation or
\* the late failure of one whose lease ran out changes nothing in it.
PublishedRowsAreFrozen ==
    [][\A e \in Published : events'[e] = [events[e] EXCEPT !.due = events'[e].due]]_vars

Delivery == INSTANCE EventDelivery WITH
                committed <- Committed, delivered <- queue, confirmed <- Published

\* "Nunca existe um caminho que publique antes do commit", and published_at is
\* set only for what the queue received: the publishers, with stale leases,
\* lost answers and crashes between send and confirmation, only ever take steps
\* of EventDelivery.
ImplementsDelivery == Delivery!Spec

\* Every committed event is published in the end, whichever instance dies
\* between claim, send and confirmation: its lease runs out and another takes
\* it over.
EveryEventIsPublished == \A e \in Events : e \in Committed ~> e \in Published
=============================================================================
