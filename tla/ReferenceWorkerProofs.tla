----------------------- MODULE ReferenceWorkerProofs ------------------------
(***************************************************************************)
(* For any operations, workers, batch sizes and limits: the workers keep   *)
(* their bookkeeping, share a row only after as many overruns, implement   *)
(* PendingLife, and give no operation up early.                            *)
(*                                                                         *)
(* Two facts make the invariant inductive.  A worker that is about to fail *)
(* an operation found its reference unreadable, and a reference that is    *)
(* decided stays as it is (FailFits); a row that is due is one claim short *)
(* of the overruns already spent on it (SharesFit).  That nothing is given *)
(* up early needs the attempts about to be written as well as the written  *)
(* ones: each is a resumption or a fault (AttemptsFit).                    *)
(***************************************************************************)
EXTENDS ReferenceWorker, FiniteSetTheorems, TLAPS

FailFits ==
    \A w \in Workers : pc[w] = "fail" =>
        current[w] \in damaged \/ Reference(current[w]) = "UNREADABLE"

Share(o) == Cardinality(Holders(o)) + (IF o \in due THEN 1 ELSE 0)

SharesFit == \A o \in Operations : Share(o) <= 1 + overruns

-----------------------------------------------------------------------------
(* What a step does to the table.                                          *)

\* A row that may follow a pending one.
Follows(o, row) ==
    \/ row.status = "PENDING_REFERENCE"
    \/ row.status = "PROCESSED" /\ Reference(o) = "PROCESSED"
    \/ row.status = "REJECTED" /\ Reference(o) # "UNREADABLE"
    \/ row.status = "FAILED" /\ Reference(o) = "UNREADABLE"

RowStep ==
    /\ UNCHANGED <<damaged, external>>
    /\ \E o \in Operations, row \in Row :
          /\ \/ rows[o] = None /\ Reference(o) \in Waiting /\ row = NewRow
             \/ Pending(o) /\ Follows(o, row)
          /\ rows' = [rows EXCEPT ![o] = row]

ReferenceStep ==
    /\ UNCHANGED <<rows, damaged>>
    /\ \E o \in Operations, s \in {"PROCESSED", "REJECTED", "UNREADABLE"} :
          /\ Chain[o] = None
          /\ external[o] \in Waiting
          /\ external' = [external EXCEPT ![o] = s]

TableStep == UNCHANGED table \/ RowStep \/ ReferenceStep

ReferencesProgress ==
    \A o \in Operations : Reference(o) \in Waiting \/ Reference(o)' = Reference(o)

LEMMA AttemptsBounded ==
    ASSUME NEW n \in 0..MaxAttempts
    PROVE  AtMost(n + 1) \in 0..MaxAttempts
BY BoundsAssumption DEF AtMost

\* Rescheduling and settling a pending row give rows.
LEMMA RowsOfAPendingRow ==
    ASSUME TypeOK, NEW o \in Operations, Pending(o)
    PROVE  /\ rows[o] \in Row
           /\ Rescheduled(rows[o]) \in Row
           /\ Rescheduled(rows[o]).status = "PENDING_REFERENCE"
           /\ \A s \in Statuses :
                 \A c \in {None, "REFERENCE_NOT_FOUND", "REFERENCE_NOT_PROCESSED", "REFUSED",
                           "PERMANENT_PROCESSING_FAILURE"} :
                    Settled(rows[o], s, c) \in Row /\ Settled(rows[o], s, c).status = s
<1>1. rows[o] \in Row
  BY DEF TypeOK, Pending
<1>2. AtMost(rows[o].attempts + 1) \in 0..MaxAttempts
  BY <1>1, AttemptsBounded DEF Row
<1>3. Rescheduled(rows[o]) \in Row /\ Rescheduled(rows[o]).status = "PENDING_REFERENCE"
  BY <1>1, <1>2 DEF Rescheduled, Row, Pending
<1>4. ASSUME NEW s \in Statuses,
             NEW c \in {None, "REFERENCE_NOT_FOUND", "REFERENCE_NOT_PROCESSED", "REFUSED",
                        "PERMANENT_PROCESSING_FAILURE"}
      PROVE  Settled(rows[o], s, c) \in Row /\ Settled(rows[o], s, c).status = s
  BY <1>1 DEF Settled, Row
<1> QED
  BY <1>1, <1>3, <1>4

\* ResumePending decides only what the reference allows.
LEMMA DecisionFollows ==
    ASSUME TypeOK, NEW o \in Operations, Pending(o), NEW row \in Decide(o)
    PROVE  row \in Row /\ Follows(o, row)
<1> DEFINE over == rows[o].expired \/ rows[o].attempts >= MaxAttempts
           notFound == Settled(rows[o], "REJECTED", "REFERENCE_NOT_FOUND")
           notProcessed == Settled(rows[o], "REJECTED", "REFERENCE_NOT_PROCESSED")
           processed == Settled(rows[o], "PROCESSED", None)
           refused == Settled(rows[o], "REJECTED", "REFUSED")
<1>1. /\ Rescheduled(rows[o]) \in Row
      /\ Rescheduled(rows[o]).status = "PENDING_REFERENCE"
  BY RowsOfAPendingRow
<1>2. /\ notFound \in Row /\ notFound.status = "REJECTED"
      /\ notProcessed \in Row /\ notProcessed.status = "REJECTED"
      /\ refused \in Row /\ refused.status = "REJECTED"
      /\ processed \in Row /\ processed.status = "PROCESSED"
  <2>1. {"REJECTED", "PROCESSED"} \subseteq Statuses
    BY DEF Statuses
  <2> QED
    BY <2>1, RowsOfAPendingRow
<1>3. row \in Outcomes(o, over)
  BY DEF Decide
<1> HIDE DEF notFound, notProcessed, processed, refused, over
<1>4. CASE Reference(o) = "ABSENT"
  <2>1. row = notFound \/ row = Rescheduled(rows[o])
    BY <1>3, <1>4 DEF Outcomes, notFound
  <2> QED
    BY <2>1, <1>1, <1>2, <1>4 DEF Follows
<1>5. CASE Reference(o) = "PENDING_REFERENCE"
  <2>1. row = notProcessed \/ row = Rescheduled(rows[o])
    BY <1>3, <1>5 DEF Outcomes, notProcessed
  <2> QED
    BY <2>1, <1>1, <1>2, <1>5 DEF Follows
<1>6. CASE Reference(o) \in {"REJECTED", "FAILED"}
  <2>1. row = notProcessed
    BY <1>3, <1>6 DEF Outcomes, notProcessed
  <2> QED
    BY <2>1, <1>2, <1>6 DEF Follows
<1>7. CASE Reference(o) = "PROCESSED"
  <2>1. row = processed \/ row = refused
    BY <1>3, <1>7 DEF Outcomes, processed, refused
  <2> QED
    BY <2>1, <1>2, <1>7 DEF Follows
<1>8. CASE Reference(o) \notin {"ABSENT", "PENDING_REFERENCE", "REJECTED", "FAILED", "PROCESSED"}
  BY <1>3, <1>8 DEF Outcomes
<1> QED
  BY <1>4, <1>5, <1>6, <1>7, <1>8

-----------------------------------------------------------------------------
(* A step of the table is progress, and a step of PendingLife.             *)

\* A reference that is decided stays as it is.
LEMMA TableStepsProgress ==
    ASSUME TypeOK, TableStep
    PROVE  ReferencesProgress
<1> SUFFICES ASSUME NEW p \in Operations
             PROVE  Reference(p) \in Waiting \/ Reference(p)' = Reference(p)
  BY DEF ReferencesProgress
<1>0. Chain[p] \in Operations \cup {None}
  BY OperationAssumption
<1>1. CASE UNCHANGED table
  BY <1>1 DEF table, Reference
<1>2. CASE RowStep
  <2>1. PICK o \in Operations, row \in Row :
          /\ \/ rows[o] = None /\ Reference(o) \in Waiting /\ row = NewRow
             \/ Pending(o) /\ Follows(o, row)
          /\ rows' = [rows EXCEPT ![o] = row]
    BY <1>2 DEF RowStep
  <2>2. UNCHANGED <<damaged, external>> /\ row # None
    BY <1>2, AbsentRow DEF RowStep
  <2>3. CASE Chain[p] = None \/ Chain[p] # o
    BY <2>1, <2>2, <2>3, <1>0 DEF Reference, TypeOK
  <2>4. CASE Chain[p] = o /\ rows[o] = None
    BY <2>4, <1>0, AbsentRow DEF Reference, Waiting
  <2>5. CASE Chain[p] = o /\ rows[o] # None /\ o \in damaged
    <3>1. rows'[o] = row
      BY <2>1 DEF TypeOK
    <3>2. Reference(p) = "UNREADABLE"
      BY <2>5, AbsentRow DEF Reference
    <3>3. Reference(p)' = "UNREADABLE"
      BY <3>1, <2>5, <2>2, AbsentRow DEF Reference
    <3> QED
      BY <3>2, <3>3
  <2>6. CASE Chain[p] = o /\ rows[o] # None /\ o \notin damaged
    <3>1. Reference(p) = rows[o].status
      BY <2>6, AbsentRow DEF Reference
    <3>2. Pending(o)
      BY <2>1, <2>6
    <3> QED
      BY <3>1, <3>2 DEF Pending, Waiting
  <2> QED
    BY <2>3, <2>4, <2>5, <2>6
<1>3. CASE ReferenceStep
  <2>1. PICK o \in Operations, s \in {"PROCESSED", "REJECTED", "UNREADABLE"} :
          /\ Chain[o] = None
          /\ external[o] \in Waiting
          /\ external' = [external EXCEPT ![o] = s]
    BY <1>3 DEF ReferenceStep
  <2>2. UNCHANGED <<rows, damaged>>
    BY <1>3 DEF ReferenceStep
  <2>3. CASE p = o
    BY <2>1, <2>3 DEF Reference
  <2>4. CASE p # o
    BY <2>1, <2>2, <2>4 DEF Reference, TypeOK
  <2> QED
    BY <2>3, <2>4
<1> QED
  BY <1>1, <1>2, <1>3 DEF TableStep

\* What PendingLife sees of a row.
Outcome == [o \in Operations |-> IF rows[o] = None THEN None ELSE rows[o].status]

LEMMA TableStepsAreLife ==
    ASSUME TypeOK, TableStep
    PROVE  Life!Next
<1> USE DEF Outcome
<1>1. Life!Progress
  <2>1. ReferencesProgress
    BY TableStepsProgress
  <2> QED
    BY <2>1 DEF Life!Progress, Life!MayProgress, ReferencesProgress, Waiting
<1>2. CASE UNCHANGED rows
  <2>1. Outcome' = Outcome
    BY <1>2
  <2> QED
    BY <1>1, <2>1 DEF Life!Next
<1>3. CASE RowStep
  <2>1. PICK o \in Operations, row \in Row :
          /\ \/ rows[o] = None /\ Reference(o) \in Waiting /\ row = NewRow
             \/ Pending(o) /\ Follows(o, row)
          /\ rows' = [rows EXCEPT ![o] = row]
    BY <1>3 DEF RowStep
  <2>2. row # None
    BY AbsentRow
  <2>3. Outcome' = [Outcome EXCEPT ![o] = row.status]
    BY <2>1, <2>2 DEF TypeOK
  <2>4. CASE rows[o] = None /\ Reference(o) \in Waiting /\ row = NewRow
    <3>1. Outcome[o] = None /\ row.status = "PENDING_REFERENCE"
      BY <2>4 DEF NewRow
    <3>2. Life!Accept(o)
      BY <2>3, <2>4, <3>1 DEF Life!Accept, Life!MayProgress, Waiting
    <3> QED
      BY <1>1, <3>2 DEF Life!Next
  <2>5. CASE Pending(o) /\ Follows(o, row)
    <3>1. Outcome[o] = "PENDING_REFERENCE"
      BY <2>5, AbsentRow DEF Pending
    <3>2. CASE row.status = "PENDING_REFERENCE"
      <4>1. Outcome' = Outcome
        BY <2>3, <3>1, <3>2
      <4> QED
        BY <1>1, <4>1 DEF Life!Next
    <3>3. CASE row.status = "PROCESSED" /\ Reference(o) = "PROCESSED"
      <4>1. Life!Process(o)
        BY <2>3, <3>1, <3>3 DEF Life!Process, Life!End
      <4> QED
        BY <1>1, <4>1 DEF Life!Next
    <3>4. CASE row.status = "REJECTED" /\ Reference(o) # "UNREADABLE"
      <4>1. Life!Reject(o)
        BY <2>3, <3>1, <3>4 DEF Life!Reject, Life!End
      <4> QED
        BY <1>1, <4>1 DEF Life!Next
    <3>5. CASE row.status = "FAILED" /\ Reference(o) = "UNREADABLE"
      <4>1. Life!Fail(o)
        BY <2>3, <3>1, <3>5 DEF Life!Fail, Life!End
      <4> QED
        BY <1>1, <4>1 DEF Life!Next
    <3> QED
      BY <2>5, <3>2, <3>3, <3>4, <3>5 DEF Follows
  <2> QED
    BY <2>1, <2>4, <2>5
<1> QED
  BY <1>2, <1>3 DEF TableStep, ReferenceStep, table

\* What was unreadable stays unreadable.
LEMMA UnreadableStays ==
    ASSUME TypeOK, TableStep, NEW o \in Operations
    PROVE  /\ damaged' = damaged
           /\ Reference(o) = "UNREADABLE" => Reference(o)' = "UNREADABLE"
<1>1. damaged' = damaged
  BY DEF TableStep, RowStep, ReferenceStep, table
<1>2. Reference(o) = "UNREADABLE" => Reference(o)' = "UNREADABLE"
  BY TableStepsProgress DEF ReferencesProgress, Waiting
<1> QED
  BY <1>1, <1>2

-----------------------------------------------------------------------------
(* The steps of the workers are steps of the table.                        *)

LEMMA WriteIsTableStep ==
    ASSUME NEW o \in Operations, Pending(o), NEW row \in Row, Follows(o, row),
           Write(o, row), UNCHANGED <<damaged, external>>
    PROVE  TableStep
BY DEF TableStep, RowStep, Write

LEMMA NextIsTableStep ==
    ASSUME TypeOK, FailFits, Next
    PROVE  TableStep
<1>1. ASSUME NEW o \in Operations, Accept(o)
      PROVE  TableStep
  <2>1. NewRow \in Row
    BY BoundsAssumption DEF NewRow, Row, Statuses
  <2> QED
    BY <1>1, <2>1 DEF Accept, TableStep, RowStep
<1>2. ASSUME NEW o \in Operations, ReferenceArrives(o) \/ ReferenceEndsOtherwise(o)
      PROVE  TableStep
  BY <1>2 DEF ReferenceArrives, ReferenceEndsOtherwise, TableStep, ReferenceStep
<1>3. ASSUME NEW o \in Operations, Expires(o)
      PROVE  TableStep
  <2> DEFINE row == [rows[o] EXCEPT !.expired = TRUE]
  <2>1. Pending(o) /\ rows[o] \in Row
    BY <1>3, RowsOfAPendingRow DEF Expires
  <2>2. row \in Row /\ row.status = "PENDING_REFERENCE"
    BY <2>1 DEF Row, Pending
  <2>3. rows' = [rows EXCEPT ![o] = row] /\ UNCHANGED <<damaged, external>>
    BY <1>3 DEF Expires
  <2>4. Follows(o, row)
    BY <2>2 DEF Follows
  <2> QED
    BY <2>1, <2>2, <2>3, <2>4 DEF TableStep, RowStep
<1>4. ASSUME NEW w \in Workers, ResumePending(w)
      PROVE  TableStep
  <2>1. PICK o \in batch[w] : Resumable(o) /\ \E row \in Decide(o) : Write(o, row)
    BY <1>4 DEF ResumePending
  <2>2. o \in Operations /\ Pending(o)
    BY <2>1 DEF TypeOK, Resumable
  <2>3. PICK row \in Decide(o) : Write(o, row)
    BY <2>1
  <2> QED
    BY <1>4, <2>2, <2>3, DecisionFollows, WriteIsTableStep DEF ResumePending
<1>5. ASSUME NEW w \in Workers, ResumeIsInterrupted(w)
      PROVE  TableStep
  <2>1. PICK o \in batch[w] :
          \/ UNCHANGED <<rows, agenda>>
          \/ Resumable(o) /\ \E row \in Decide(o) : Write(o, row)
    BY <1>5 DEF ResumeIsInterrupted
  <2>2. UNCHANGED <<damaged, external>> /\ o \in Operations
    BY <1>5 DEF ResumeIsInterrupted, TypeOK
  <2>3. CASE UNCHANGED rows
    BY <2>2, <2>3 DEF TableStep, table
  <2>4. CASE Resumable(o) /\ \E row \in Decide(o) : Write(o, row)
    <3>1. PICK row \in Decide(o) : Write(o, row)
      BY <2>4
    <3> QED
      BY <2>2, <2>4, <3>1, DecisionFollows, WriteIsTableStep DEF Resumable
  <2> QED
    BY <2>1, <2>3, <2>4
<1>6. ASSUME NEW w \in Workers, ReschedulePendingAfterFailure(w)
      PROVE  TableStep
  <2> DEFINE o == current[w]
  <2>1. o \in Operations /\ UNCHANGED <<damaged, external>>
    BY <1>6 DEF ReschedulePendingAfterFailure, TypeOK
  <2>2. CASE Resumable(o)
    <3>1. Pending(o) /\ Write(o, Rescheduled(rows[o]))
      BY <1>6, <2>2 DEF ReschedulePendingAfterFailure, Resumable
    <3>2. Rescheduled(rows[o]) \in Row /\ Follows(o, Rescheduled(rows[o]))
      BY <2>1, <3>1, RowsOfAPendingRow DEF Follows
    <3> QED
      BY <2>1, <3>1, <3>2, WriteIsTableStep
  <2>3. CASE ~Resumable(o)
    BY <1>6, <2>1, <2>3 DEF ReschedulePendingAfterFailure, TableStep, table
  <2> QED
    BY <2>2, <2>3
<1>7. ASSUME NEW w \in Workers, FailPending(w)
      PROVE  TableStep
  <2> DEFINE o == current[w]
             row == Settled(rows[o], "FAILED", "PERMANENT_PROCESSING_FAILURE")
  <2>1. o \in Operations /\ UNCHANGED <<damaged, external>>
    BY <1>7 DEF FailPending, TypeOK
  <2>2. CASE Resumable(o)
    <3>1. Pending(o) /\ Write(o, row)
      BY <1>7, <2>2 DEF FailPending, Resumable
    <3>2. "FAILED" \in Statuses
      BY DEF Statuses
    <3>3. row \in Row /\ row.status = "FAILED"
      BY <2>1, <3>1, <3>2, RowsOfAPendingRow
    <3>4. Reference(o) = "UNREADABLE"
      BY <1>7, <2>2 DEF FailPending, FailFits, Resumable
    <3> HIDE DEF row
    <3>5. Follows(o, row)
      BY <3>3, <3>4 DEF Follows
    <3> QED
      BY <2>1, <3>1, <3>3, <3>5, WriteIsTableStep
  <2>3. CASE ~Resumable(o)
    BY <1>7, <2>1, <2>3 DEF FailPending, TableStep, table
  <2> QED
    BY <2>2, <2>3
<1>8. ASSUME NEW w \in Workers,
             Claim(w) \/ ResumeFails(w) \/ HandlingIsInterrupted(w) \/ Abandon(w)
      PROVE  TableStep
  BY <1>8 DEF Claim, ResumeFails, HandlingIsInterrupted, Abandon, TableStep
<1>9. ASSUME NEW o \in Operations, ComesDue(o)
      PROVE  TableStep
  BY <1>9 DEF ComesDue, TableStep
<1> QED
  BY <1>1, <1>2, <1>3, <1>4, <1>5, <1>6, <1>7, <1>8, <1>9 DEF Next

-----------------------------------------------------------------------------
(* Types.                                                                  *)

TableOK ==
    /\ rows \in [Operations -> Row \cup {None}]
    /\ damaged \subseteq Operations
    /\ external \in [Operations -> Waiting \cup {"PROCESSED", "REJECTED", "UNREADABLE"}]

AgendaOK ==
    /\ due \subseteq {o \in Operations : Pending(o)}
    /\ ahead \in [Operations -> SUBSET Operations]

WorkOK ==
    /\ pc \in [Workers -> {"poll", "resume", "reschedule", "fail"}]
    /\ batch \in [Workers -> SUBSET Operations]
    /\ current \in [Workers -> Operations \cup {None}]
    /\ \A w \in Workers :
          /\ pc[w] = "poll" <=> batch[w] = {}
          /\ IF pc[w] \in {"reschedule", "fail"} THEN current[w] \in batch[w]
             ELSE current[w] = None

CountersOK ==
    /\ faults \in Nat /\ overruns \in Nat
    /\ tries \in [Operations -> 0..MaxAttempts]

LEMMA TypeParts == TypeOK <=> TableOK /\ AgendaOK /\ WorkOK /\ CountersOK
BY DEF TypeOK, TableOK, AgendaOK, WorkOK, CountersOK

LEMMA TableType ==
    ASSUME TypeOK, TableStep
    PROVE  TableOK'
<1>1. CASE UNCHANGED table
  BY <1>1 DEF TypeOK, TableOK, table
<1>2. CASE RowStep
  BY <1>2 DEF TypeOK, TableOK, RowStep
<1>3. CASE ReferenceStep
  BY <1>3 DEF TypeOK, TableOK, ReferenceStep
<1> QED
  BY <1>1, <1>2, <1>3 DEF TableStep

\* Whoever writes a row, or only its schedule, takes it off the due rows.
LEMMA DeferKeepsAgenda ==
    ASSUME AgendaOK, NEW S, Defer(S),
           \A o \in Operations : o \notin S => rows'[o] = rows[o]
    PROVE  AgendaOK'
BY DEF AgendaOK, Defer, Pending

LEMMA WriteKeepsAgenda ==
    ASSUME TypeOK, NEW o \in Operations, NEW row, Write(o, row)
    PROVE  AgendaOK'
<1>1. Defer({o}) /\ \A p \in Operations : p \notin {o} => rows'[p] = rows[p]
  BY DEF Write, TypeOK
<1> QED
  BY <1>1, DeferKeepsAgenda, TypeParts

LEMMA DoneKeepsWork ==
    ASSUME WorkOK, NEW w \in Workers, NEW o \in batch[w], Done(w, o)
    PROVE  WorkOK'
BY DEF WorkOK, Done

LEMMA HandleKeepsWork ==
    ASSUME WorkOK, NEW w \in Workers, NEW o \in batch[w],
           NEW step \in {"reschedule", "fail"}, Handle(w, o, step)
    PROVE  WorkOK'
<1>1. batch[w] # {} /\ o \in Operations
  BY DEF WorkOK
<1> QED
  BY <1>1 DEF WorkOK, Handle

LEMMA CountedKeepsTries ==
    ASSUME CountersOK, NEW o \in Operations, Counted(o), UNCHANGED overruns,
           faults' \in {faults, faults + 1}
    PROVE  CountersOK'
<1>1. AtMost(tries[o] + 1) \in 0..MaxAttempts
  BY AttemptsBounded DEF CountersOK
<1> QED
  BY <1>1 DEF CountersOK, Counted

LEMMA TypeStays ==
    ASSUME TypeOK, FailFits, [Next]_vars
    PROVE  TypeOK'
<1> USE TypeParts
<1>1. CASE UNCHANGED vars
  BY <1>1 DEF vars, table, agenda, work, bounds, TypeOK, Pending
<1>2. ASSUME Next
      PROVE  AgendaOK' /\ WorkOK' /\ CountersOK'
  <2>1. ASSUME NEW o \in Operations, Accept(o)
        PROVE  AgendaOK' /\ WorkOK' /\ CountersOK'
    <3>1. AgendaOK'
      BY <2>1 DEF Accept, agenda, AgendaOK, TypeOK, Pending
    <3> QED
      BY <2>1, <3>1 DEF Accept, work, bounds, WorkOK, CountersOK
  <2>2. ASSUME NEW o \in Operations, ReferenceArrives(o) \/ ReferenceEndsOtherwise(o)
        PROVE  AgendaOK' /\ WorkOK' /\ CountersOK'
    BY <2>2 DEF ReferenceArrives, ReferenceEndsOtherwise, agenda, work, bounds,
                AgendaOK, WorkOK, CountersOK, Pending
  <2>3. ASSUME NEW o \in Operations, Expires(o)
        PROVE  AgendaOK' /\ WorkOK' /\ CountersOK'
    <3>1. rows[o] \in Row
      BY <2>3, RowsOfAPendingRow DEF Expires
    <3>2. \A p \in Operations : Pending(p) => Pending(p)'
      BY <2>3, <3>1, AbsentRow DEF Expires, Pending, Row, TypeOK
    <3>3. AgendaOK'
      BY <2>3, <3>2 DEF Expires, agenda, AgendaOK
    <3> QED
      BY <2>3, <3>3 DEF Expires, work, bounds, WorkOK, CountersOK
  <2>4. ASSUME NEW o \in Operations, ComesDue(o)
        PROVE  AgendaOK' /\ WorkOK' /\ CountersOK'
    <3>1. AgendaOK'
      BY <2>4 DEF ComesDue, table, AgendaOK, Pending
    <3>2. CountersOK'
      BY <2>4 DEF ComesDue, CountersOK
    <3> QED
      BY <2>4, <3>1, <3>2 DEF ComesDue, work, WorkOK
  <2>5. ASSUME NEW w \in Workers, Claim(w)
        PROVE  AgendaOK' /\ WorkOK' /\ CountersOK'
    <3>1. PICK S \in SUBSET due : S # {} /\ batch' = [batch EXCEPT ![w] = S] /\ Defer(S)
      BY <2>5 DEF Claim
    <3>2. rows' = rows /\ UNCHANGED current /\ pc' = [pc EXCEPT ![w] = "resume"]
          /\ UNCHANGED <<bounds, tries>> /\ pc[w] = "poll"
      BY <2>5 DEF Claim, table
    <3>3. AgendaOK'
      BY <3>1, <3>2, DeferKeepsAgenda
    <3>4. WorkOK'
      BY <3>1, <3>2 DEF WorkOK, AgendaOK
    <3> QED
      BY <3>2, <3>3, <3>4 DEF bounds, CountersOK
  <2>6. ASSUME NEW w \in Workers, ResumePending(w)
        PROVE  AgendaOK' /\ WorkOK' /\ CountersOK'
    <3>1. PICK o \in batch[w] :
            (\E row \in Decide(o) : Write(o, row)) /\ Counted(o) /\ Done(w, o)
      BY <2>6 DEF ResumePending
    <3>2. o \in Operations
      BY DEF WorkOK
    <3> QED
      BY <2>6, <3>1, <3>2, WriteKeepsAgenda, DoneKeepsWork, CountedKeepsTries
         DEF ResumePending, bounds
  <2>7. ASSUME NEW w \in Workers, ResumeFails(w)
        PROVE  AgendaOK' /\ WorkOK' /\ CountersOK'
    <3>1. PICK o \in batch[w] : Handle(w, o, ErrorStep(o)) /\ Counted(o)
      BY <2>7 DEF ResumeFails
    <3>2. o \in Operations /\ ErrorStep(o) \in {"reschedule", "fail"}
      BY DEF WorkOK, ErrorStep
    <3>3. AgendaOK'
      BY <2>7 DEF ResumeFails, table, agenda, AgendaOK, Pending
    <3> QED
      BY <2>7, <3>1, <3>2, <3>3, HandleKeepsWork, CountedKeepsTries DEF ResumeFails, bounds
  <2>8. ASSUME NEW w \in Workers, ResumeIsInterrupted(w)
        PROVE  AgendaOK' /\ WorkOK' /\ CountersOK'
    <3>1. PICK o \in batch[w] :
            /\ UNCHANGED <<rows, agenda>> \/ \E row \in Decide(o) : Write(o, row)
            /\ Handle(w, o, "reschedule")
            /\ Counted(o)
      BY <2>8 DEF ResumeIsInterrupted
    <3>2. o \in Operations
      BY DEF WorkOK
    <3>3. AgendaOK'
      <4>1. CASE UNCHANGED <<rows, agenda>>
        BY <4>1 DEF agenda, AgendaOK, Pending
      <4> QED
        BY <3>1, <3>2, <4>1, WriteKeepsAgenda
    <3> QED
      BY <2>8, <3>1, <3>2, <3>3, HandleKeepsWork, CountedKeepsTries
         DEF ResumeIsInterrupted, Fault
  <2>9. ASSUME NEW w \in Workers, ReschedulePendingAfterFailure(w) \/ FailPending(w)
        PROVE  AgendaOK' /\ WorkOK' /\ CountersOK'
    <3> DEFINE o == current[w]
    <3>1. o \in batch[w] /\ o \in Operations
      BY <2>9 DEF WorkOK, ReschedulePendingAfterFailure, FailPending
    <3>2. UNCHANGED <<rows, agenda>> \/ \E row : Write(o, row)
      BY <2>9 DEF ReschedulePendingAfterFailure, FailPending
    <3>3. AgendaOK'
      <4>1. CASE UNCHANGED <<rows, agenda>>
        BY <4>1 DEF agenda, AgendaOK, Pending
      <4> QED
        BY <3>1, <3>2, <4>1, WriteKeepsAgenda
    <3>4. Done(w, o)
      BY <2>9 DEF ReschedulePendingAfterFailure, FailPending
    <3>5. CountersOK'
      BY <2>9 DEF ReschedulePendingAfterFailure, FailPending, bounds, CountersOK
    <3> QED
      BY <3>1, <3>3, <3>4, <3>5, DoneKeepsWork
  <2>10. ASSUME NEW w \in Workers, HandlingIsInterrupted(w) \/ Abandon(w)
         PROVE  AgendaOK' /\ WorkOK' /\ CountersOK'
    <3>1. AgendaOK'
      BY <2>10 DEF HandlingIsInterrupted, Abandon, table, agenda, AgendaOK, Pending
    <3>2. CountersOK'
      BY <2>10 DEF HandlingIsInterrupted, Abandon, Fault, CountersOK
    <3>3. CASE HandlingIsInterrupted(w)
      <4>1. current[w] \in batch[w] /\ Done(w, current[w])
        BY <3>3 DEF HandlingIsInterrupted, WorkOK
      <4> QED
        BY <3>1, <3>2, <4>1, DoneKeepsWork
    <3>4. CASE Abandon(w)
      BY <3>1, <3>2, <3>4 DEF Abandon, WorkOK
    <3> QED
      BY <2>10, <3>3, <3>4
  <2> QED
    BY <1>2, <2>1, <2>2, <2>3, <2>4, <2>5, <2>6, <2>7, <2>8, <2>9, <2>10 DEF Next
<1>3. CASE Next
  <2>1. TableOK' /\ AgendaOK' /\ WorkOK' /\ CountersOK'
    BY <1>2, <1>3, NextIsTableStep, TableType
  <2> QED
    BY <2>1 DEF TypeOK, TableOK, AgendaOK, WorkOK, CountersOK
<1> QED
  BY <1>1, <1>3

-----------------------------------------------------------------------------
(* The invariant.                                                          *)

\* A worker fails an operation only when it found its reference unreadable.
LEMMA FailFitsPreserved ==
    ASSUME TypeOK, FailFits, [Next]_vars
    PROVE  FailFits'
<1>1. CASE UNCHANGED vars
  BY <1>1 DEF vars, table, work, FailFits, Reference
<1>2. CASE Next
  <2> SUFFICES ASSUME NEW w \in Workers, pc'[w] = "fail"
               PROVE  (current[w] \in damaged \/ Reference(current[w]) = "UNREADABLE")'
    BY DEF FailFits
  <2>1. \A o \in Operations :
          /\ damaged' = damaged
          /\ Reference(o) = "UNREADABLE" => Reference(o)' = "UNREADABLE"
    BY <1>2, NextIsTableStep, UnreadableStays
  <2>2. CASE pc[w] = "fail" /\ current'[w] = current[w]
    <3>1. current[w] \in Operations
      BY <2>2 DEF TypeOK
    <3>2. current[w] \in damaged \/ Reference(current[w]) = "UNREADABLE"
      BY <2>2 DEF FailFits
    <3>3. PICK o \in Operations : o = current[w]
      BY <3>1
    <3>4. o \in damaged' \/ Reference(o)' = "UNREADABLE"
      BY <2>1, <3>2, <3>3
    <3> QED
      BY <2>2, <3>3, <3>4 DEF Reference
  <2>3. CASE \E o \in Operations : ErrorStep(o) = "fail" /\ current'[w] = o
    <3>1. PICK o \in Operations : ErrorStep(o) = "fail" /\ current'[w] = o
      BY <2>3
    <3>2. o \in damaged \/ Reference(o) = "UNREADABLE"
      BY <3>1 DEF ErrorStep
    <3>3. o \in damaged' \/ Reference(o)' = "UNREADABLE"
      BY <2>1, <3>2
    <3> QED
      BY <3>1, <3>3 DEF Reference
  <2>4. \/ pc[w] = "fail" /\ current'[w] = current[w]
        \/ \E o \in Operations : ErrorStep(o) = "fail" /\ current'[w] = o
    <3>1. ASSUME NEW o \in Operations,
                 \/ Accept(o) \/ ReferenceArrives(o) \/ ReferenceEndsOtherwise(o)
                 \/ ComesDue(o) \/ Expires(o)
          PROVE  pc'[w] = pc[w] /\ current'[w] = current[w]
      BY <3>1 DEF Accept, ReferenceArrives, ReferenceEndsOtherwise, ComesDue, Expires, work
    <3>2. ASSUME NEW v \in Workers, Claim(v)
          PROVE  pc[w] = "fail" /\ current'[w] = current[w]
      BY <3>2 DEF Claim, TypeOK
    <3>3. ASSUME NEW v \in Workers, NEW o \in batch[v], Done(v, o)
          PROVE  pc[w] = "fail" /\ current'[w] = current[w]
      BY <3>3 DEF Done, TypeOK
    <3>4. ASSUME NEW v \in Workers, NEW o \in batch[v], Handle(v, o, "reschedule")
          PROVE  pc[w] = "fail" /\ current'[w] = current[w]
      BY <3>4 DEF Handle, TypeOK
    <3>5. ASSUME NEW v \in Workers, NEW o \in batch[v], Handle(v, o, ErrorStep(o)), v # w
          PROVE  pc[w] = "fail" /\ current'[w] = current[w]
      BY <3>5 DEF Handle, TypeOK
    <3>6. ASSUME NEW o \in batch[w], Handle(w, o, ErrorStep(o))
          PROVE  o \in Operations /\ ErrorStep(o) = "fail" /\ current'[w] = o
      BY <3>6 DEF Handle, TypeOK
    <3>7. ASSUME NEW v \in Workers, Abandon(v)
          PROVE  pc[w] = "fail" /\ current'[w] = current[w]
      BY <3>7 DEF Abandon, TypeOK
    <3>8. ASSUME NEW v \in Workers, ResumeFails(v)
          PROVE  \E o \in batch[v] : Handle(v, o, ErrorStep(o))
      BY <3>8 DEF ResumeFails
    <3>9. ASSUME NEW v \in Workers, ResumePending(v)
          PROVE  \E o \in batch[v] : Done(v, o)
      BY <3>9 DEF ResumePending
    <3>10. ASSUME NEW v \in Workers,
                  \/ ReschedulePendingAfterFailure(v) \/ FailPending(v)
                  \/ HandlingIsInterrupted(v)
           PROVE  \E o \in batch[v] : Done(v, o)
      BY <3>10 DEF ReschedulePendingAfterFailure, FailPending, HandlingIsInterrupted, TypeOK
    <3>11. ASSUME NEW v \in Workers, ResumeIsInterrupted(v)
           PROVE  \E o \in batch[v] : Handle(v, o, "reschedule")
      BY <3>11 DEF ResumeIsInterrupted
    <3> QED
      BY <1>2, <3>1, <3>2, <3>3, <3>4, <3>5, <3>6, <3>7, <3>8, <3>9, <3>10, <3>11 DEF Next
  <2> QED
    BY <2>2, <2>3, <2>4
<1> QED
  BY <1>1, <1>2

IndInv == TypeOK /\ FailFits

LEMMA InitIsInvariant ==
    ASSUME Init
    PROVE  IndInv
<1>1. 0 \in 0..MaxAttempts
  BY BoundsAssumption
<1>2. TypeOK
  BY <1>1, OperationAssumption DEF Init, TypeOK, Waiting
<1>3. FailFits
  BY DEF Init, FailFits
<1> QED
  BY <1>2, <1>3 DEF IndInv

LEMMA NextKeepsInvariant ==
    ASSUME IndInv, [Next]_vars
    PROVE  IndInv'
BY TypeStays, FailFitsPreserved DEF IndInv

\* Whatever fails, restarts or comes due under its worker, the bookkeeping of
\* the workers and of the agenda stays consistent: only a pending row is ever due,
\* and a worker that handles an error still has the record in its batch.
THEOREM WorkerTypeCorrect == Spec => []TypeOK
<1>1. Init => IndInv
  BY InitIsInvariant
<1>2. IndInv /\ [Next]_vars => IndInv'
  BY NextKeepsInvariant
<1>3. IndInv => TypeOK
  BY DEF IndInv
<1> QED
  BY <1>1, <1>2, <1>3, PTL DEF Spec

\* The workers only ever take steps of PendingLife: an operation that waits ends
\* once, is PROCESSED only with a PROCESSED reference, FAILED only with an
\* unreadable one, and never changes again.
THEOREM LifeImplemented == Spec => ImplementsPendingLife
<1>1. Init => Life!Init
  <2> SUFFICES ASSUME Init PROVE Life!Init
    OBVIOUS
  <2>1. [o \in Operations |-> IF rows[o] = None THEN None ELSE rows[o].status]
            = [o \in Operations |-> None]
    BY DEF Init
  <2>2. \A o \in Operations : Reference(o) \in Waiting
    BY OperationAssumption DEF Init, Reference, Waiting
  <2> QED
    BY <2>1, <2>2 DEF Life!Init, Life!MayProgress, Waiting
<1>2. IndInv /\ [Next]_vars => [Life!Next]_(Life!vars)
  <2> SUFFICES ASSUME IndInv, [Next]_vars
               PROVE  Life!Next \/ UNCHANGED Life!vars
    OBVIOUS
  <2>1. CASE Next
    BY <2>1, NextIsTableStep, TableStepsAreLife DEF IndInv
  <2>2. CASE UNCHANGED vars
    BY <2>2 DEF vars, table, Life!vars, Reference
  <2> QED
    BY <2>1, <2>2
<1>3. Init => IndInv
  BY InitIsInvariant
<1>4. IndInv /\ [Next]_vars => IndInv'
  BY NextKeepsInvariant
<1> QED
  BY <1>1, <1>2, <1>3, <1>4, PTL DEF Spec, ImplementsPendingLife, Life!Spec

-----------------------------------------------------------------------------
(* Shared rows.                                                            *)

LEMMA HoldersAreFew ==
    ASSUME NEW S \in SUBSET Workers
    PROVE  IsFiniteSet(S) /\ Cardinality(S) \in Nat
BY WorkersAssumption, FS_Subset, FS_CardinalityType

\* A step that neither claims nor lets time pass only gives rows back.
LEMMA GivingBackKeepsShares ==
    ASSUME TypeOK, SharesFit, due' \subseteq due, overruns' = overruns,
           \A w \in Workers : batch'[w] \subseteq batch[w]
    PROVE  SharesFit'
<1> SUFFICES ASSUME NEW o \in Operations
             PROVE  Share(o)' <= 1 + overruns'
  BY DEF SharesFit
<1>1. Holders(o)' \subseteq Holders(o) /\ Holders(o) \subseteq Workers
  BY DEF Holders
<1>2. IsFiniteSet(Holders(o)) /\ Cardinality(Holders(o)) \in Nat
  BY <1>1, HoldersAreFew
<1>3. Cardinality(Holders(o)') <= Cardinality(Holders(o)) /\ Cardinality(Holders(o)') \in Nat
  BY <1>1, <1>2, HoldersAreFew, FS_Subset
<1>4. Share(o) <= 1 + overruns /\ overruns \in Nat
  BY DEF SharesFit, TypeOK
<1>5. Cardinality(Holders(o))' = Cardinality(Holders(o)')
  OBVIOUS
<1> QED
  BY <1>2, <1>3, <1>4, <1>5 DEF Share

\* A claim adds a holder to rows that were due and are due no longer.
LEMMA ClaimKeepsShares ==
    ASSUME TypeOK, SharesFit, NEW w \in Workers, Claim(w)
    PROVE  SharesFit'
<1> SUFFICES ASSUME NEW o \in Operations
             PROVE  Share(o)' <= 1 + overruns'
  BY DEF SharesFit
<1>1. PICK S \in SUBSET due : batch' = [batch EXCEPT ![w] = S] /\ Defer(S)
  BY DEF Claim
<1>2. batch[w] = {} /\ overruns' = overruns /\ overruns \in Nat
  BY DEF Claim, TypeOK, bounds
<1>3. Holders(o) \subseteq Workers /\ w \notin Holders(o)
  BY <1>2 DEF Holders
<1>4. IsFiniteSet(Holders(o)) /\ Cardinality(Holders(o)) \in Nat
  BY <1>3, HoldersAreFew
<1>5. Share(o) <= 1 + overruns
  BY DEF SharesFit
<1>6. due' = due \ S
  BY <1>1 DEF Defer
<1>7. CASE o \in S
  <2>1. Holders(o)' = Holders(o) \cup {w}
    BY <1>1, <1>7 DEF Holders, TypeOK
  <2>2. Cardinality(Holders(o) \cup {w}) = Cardinality(Holders(o)) + 1
    BY <1>3, <1>4, FS_AddElement
  <2>3. o \in due /\ o \notin due'
    BY <1>6, <1>7
  <2> QED
    BY <1>2, <1>4, <1>5, <2>1, <2>2, <2>3 DEF Share
<1>8. CASE o \notin S
  <2>1. Holders(o)' = Holders(o)
    BY <1>1, <1>2, <1>8 DEF Holders, TypeOK
  <2>2. o \in due' <=> o \in due
    BY <1>6, <1>8
  <2> QED
    BY <1>2, <1>5, <2>1, <2>2 DEF Share
<1> QED
  BY <1>7, <1>8

\* A row that comes due under a worker is paid for by an overrun.
LEMMA ComingDueKeepsShares ==
    ASSUME TypeOK, SharesFit, NEW o \in Operations, ComesDue(o)
    PROVE  SharesFit'
<1> SUFFICES ASSUME NEW p \in Operations
             PROVE  Share(p)' <= 1 + overruns'
  BY DEF SharesFit
<1>1. overruns \in Nat /\ overruns' \in Nat /\ overruns' >= overruns
  BY DEF TypeOK, ComesDue
<1>2. Holders(p)' = Holders(p) /\ Holders(p) \subseteq Workers
  BY DEF ComesDue, work, Holders
<1>3. Cardinality(Holders(p)) \in Nat
  BY <1>2, HoldersAreFew
<1>4. Share(p) <= 1 + overruns
  BY DEF SharesFit
<1>5. CASE p # o
  <2>1. p \in due' <=> p \in due
    BY <1>5 DEF ComesDue
  <2> QED
    BY <1>1, <1>2, <1>3, <1>4, <2>1 DEF Share
<1>6. CASE p = o /\ Holders(o) = {}
  <2>1. Cardinality(Holders(o)) = 0
    BY <1>6, FS_EmptySet
  <2> QED
    BY <1>1, <1>2, <1>6, <2>1 DEF Share
<1>7. CASE p = o /\ Holders(o) # {}
  <2>1. o \notin due /\ o \in due' /\ overruns' = overruns + 1
    BY <1>7 DEF ComesDue
  <2> QED
    BY <1>1, <1>2, <1>3, <1>4, <1>7, <2>1 DEF Share
<1> QED
  BY <1>5, <1>6, <1>7

LEMMA SharesPreserved ==
    ASSUME TypeOK, SharesFit, [Next]_vars
    PROVE  SharesFit'
<1>1. CASE UNCHANGED vars
  BY <1>1, GivingBackKeepsShares DEF vars, agenda, work, bounds
<1>2. ASSUME NEW o \in Operations,
             \/ Accept(o) \/ ReferenceArrives(o) \/ ReferenceEndsOtherwise(o) \/ Expires(o)
      PROVE  SharesFit'
  BY <1>2, GivingBackKeepsShares
     DEF Accept, ReferenceArrives, ReferenceEndsOtherwise, Expires, agenda, work, bounds
<1>3. ASSUME NEW w \in Workers, ResumePending(w)
      PROVE  SharesFit'
  BY <1>3, GivingBackKeepsShares DEF ResumePending, Write, Defer, Done, bounds, TypeOK
<1>4. ASSUME NEW w \in Workers, ResumeFails(w)
      PROVE  SharesFit'
  BY <1>4, GivingBackKeepsShares DEF ResumeFails, Handle, agenda, bounds
<1>5. ASSUME NEW w \in Workers, ResumeIsInterrupted(w)
      PROVE  SharesFit'
  BY <1>5, GivingBackKeepsShares DEF ResumeIsInterrupted, Handle, Write, Defer, agenda
<1>6. ASSUME NEW w \in Workers, ReschedulePendingAfterFailure(w) \/ FailPending(w)
      PROVE  SharesFit'
  BY <1>6, GivingBackKeepsShares
     DEF ReschedulePendingAfterFailure, FailPending, Write, Defer, Done, agenda, bounds, TypeOK
<1>7. ASSUME NEW w \in Workers, HandlingIsInterrupted(w) \/ Abandon(w)
      PROVE  SharesFit'
  BY <1>7, GivingBackKeepsShares DEF HandlingIsInterrupted, Abandon, Done, agenda, TypeOK
<1>8. CASE Next
  BY <1>2, <1>3, <1>4, <1>5, <1>6, <1>7, <1>8, ClaimKeepsShares, ComingDueKeepsShares DEF Next
<1> QED
  BY <1>1, <1>8

\* However many instances run, and whatever fails: the workers that share a row
\* are no more than one and the claims that came due under their worker.
THEOREM SharesArePaidFor == Spec => []SharedOnlyAfterOverrun
<1>1. Init => IndInv /\ SharesFit
  <2> SUFFICES ASSUME Init PROVE IndInv /\ SharesFit
    OBVIOUS
  <2>1. \A o \in Operations : Holders(o) = {} /\ o \notin due /\ overruns = 0
    BY DEF Init, Holders
  <2>2. SharesFit
    BY <2>1, FS_EmptySet DEF SharesFit, Share
  <2> QED
    BY <2>2, InitIsInvariant
<1>2. IndInv /\ SharesFit /\ [Next]_vars => (IndInv /\ SharesFit)'
  BY NextKeepsInvariant, SharesPreserved DEF IndInv
<1>3. IndInv /\ SharesFit => SharedOnlyAfterOverrun
  <2> SUFFICES ASSUME IndInv, SharesFit, NEW o \in Operations
               PROVE  Cardinality(Holders(o)) <= 1 + overruns
    BY DEF SharedOnlyAfterOverrun
  <2>1. Share(o) <= 1 + overruns /\ overruns \in Nat
    BY DEF SharesFit, IndInv, TypeOK
  <2>2. Cardinality(Holders(o)) \in Nat
    BY HoldersAreFew DEF Holders
  <2> QED
    BY <2>1, <2>2 DEF Share
<1> QED
  BY <1>1, <1>2, <1>3, PTL DEF Spec

-----------------------------------------------------------------------------
(* Attempts.                                                               *)

\* Workers that will still count the failed resumption of o as an attempt.
Rescheduling(o) == {w \in Workers : pc[w] = "reschedule" /\ current[w] = o}

Attempts(o) == IF rows[o] = None THEN 0 ELSE rows[o].attempts

\* Attempts written and under way, and what they may cost.
Owed(o)  == Attempts(o) + Cardinality(Rescheduling(o))
Spent(o) == tries[o] + faults

AttemptFits(o) == Spent(o) >= MaxAttempts \/ Owed(o) <= Spent(o)

\* Every attempt of a row is a resumption or a fault, until the limit.
AttemptsFit == \A o \in Operations : AttemptFits(o)

LEMMA AttemptTypes ==
    ASSUME TypeOK, NEW o \in Operations
    PROVE  /\ Attempts(o) \in Nat
           /\ Cardinality(Rescheduling(o)) \in Nat
           /\ tries[o] \in Nat /\ faults \in Nat
           /\ MaxAttempts \in Nat
<1>1. rows[o] \in Row \cup {None}
  BY DEF TypeOK
<1>2. Attempts(o) \in Nat
  BY <1>1, BoundsAssumption DEF Attempts, Row
<1>3. Cardinality(Rescheduling(o)) \in Nat
  BY HoldersAreFew DEF Rescheduling
<1> QED
  BY <1>2, <1>3, BoundsAssumption DEF TypeOK

LEMMA AttemptTypesAfter ==
    ASSUME TypeOK', NEW o \in Operations
    PROVE  /\ Attempts(o)' \in Nat
           /\ Cardinality(Rescheduling(o))' \in Nat
<1>1. rows'[o] \in Row \cup {None}
  BY DEF TypeOK
<1>2. Attempts(o)' \in Nat
  BY <1>1, BoundsAssumption DEF Attempts, Row
<1>3. Cardinality(Rescheduling(o)') \in Nat
  BY HoldersAreFew DEF Rescheduling
<1> QED
  BY <1>2, <1>3

\* Workers that stop rescheduling, or go on with it, leave no more of it to do.
LEMMA FewerReschedules ==
    ASSUME NEW o \in Operations, Rescheduling(o)' \subseteq Rescheduling(o)
    PROVE  Cardinality(Rescheduling(o))' <= Cardinality(Rescheduling(o))
<1>1. IsFiniteSet(Rescheduling(o))
  BY HoldersAreFew DEF Rescheduling
<1>2. Cardinality(Rescheduling(o)') <= Cardinality(Rescheduling(o))
  BY <1>1, FS_Subset
<1> QED
  BY <1>2

\* A row that owes no more than before still fits.
LEMMA AttemptKept ==
    ASSUME TypeOK, TypeOK', NEW o \in Operations, AttemptFits(o),
           Attempts(o)' <= Attempts(o), Rescheduling(o)' \subseteq Rescheduling(o),
           tries'[o] = tries[o], faults' >= faults
    PROVE  AttemptFits(o)'
<1>1. /\ Attempts(o) \in Nat /\ Cardinality(Rescheduling(o)) \in Nat
      /\ tries[o] \in Nat /\ faults \in Nat /\ MaxAttempts \in Nat
  BY AttemptTypes
<1>2. Attempts(o)' \in Nat /\ Cardinality(Rescheduling(o))' \in Nat /\ faults' \in Nat
  BY AttemptTypesAfter DEF TypeOK
<1>3. Cardinality(Rescheduling(o))' <= Cardinality(Rescheduling(o))
  BY FewerReschedules
<1> QED
  BY <1>1, <1>2, <1>3 DEF AttemptFits, Owed, Spent

\* A counted resumption pays for one attempt more, a fault for another one.
LEMMA AttemptPaid ==
    ASSUME TypeOK, TypeOK', NEW o \in Operations, AttemptFits(o), Counted(o),
           NEW k \in Nat, Owed(o)' <= Owed(o) + 1 + k, faults' = faults + k
    PROVE  AttemptFits(o)'
<1>1. /\ Attempts(o) \in Nat /\ Cardinality(Rescheduling(o)) \in Nat
      /\ tries[o] \in Nat /\ faults \in Nat /\ MaxAttempts \in Nat
  BY AttemptTypes
<1>2. Attempts(o)' \in Nat /\ Cardinality(Rescheduling(o))' \in Nat
  BY AttemptTypesAfter
<1>3. tries'[o] = AtMost(tries[o] + 1)
  BY DEF Counted, TypeOK
<1>4. tries'[o] = tries[o] + 1 \/ tries'[o] = MaxAttempts
  BY <1>1, <1>3 DEF AtMost
<1>5. tries'[o] \in Nat /\ tries'[o] >= tries[o]
  BY <1>1, <1>3 DEF AtMost, TypeOK
<1>6. Owed(o) \in Nat /\ Owed(o)' \in Nat
  BY <1>1, <1>2 DEF Owed
<1> QED
  BY <1>1, <1>4, <1>5, <1>6 DEF AttemptFits, Spent

\* A decision writes at most one attempt more.
LEMMA DecisionAttempts ==
    ASSUME TypeOK, NEW o \in Operations, Pending(o), NEW row \in Decide(o)
    PROVE  row # None /\ row.attempts <= rows[o].attempts + 1
<1>1. rows[o] \in Row /\ rows[o].attempts \in Nat
  BY BoundsAssumption DEF TypeOK, Pending, Row
<1>2. row \in Row
  BY DecisionFollows
<1>3. \A s, c : Settled(rows[o], s, c).attempts = rows[o].attempts
  BY <1>1 DEF Settled, Row
<1>4. Rescheduled(rows[o]).attempts <= rows[o].attempts + 1
  BY <1>1, BoundsAssumption DEF Rescheduled, Row, AtMost
<1>5. row = Rescheduled(rows[o]) \/ \E s, c : row = Settled(rows[o], s, c)
  BY DEF Decide, Outcomes
<1> QED
  BY <1>1, <1>2, <1>3, <1>4, <1>5, AbsentRow

\* A worker that is done with a record reschedules nothing.
LEMMA DoneReschedules ==
    ASSUME TypeOK, NEW w \in Workers, NEW o, Done(w, o)
    PROVE  \A p \in Operations : Rescheduling(p)' = Rescheduling(p) \ {w}
BY DEF TypeOK, Done, Rescheduling

\* A worker that handles an error may have one more record to reschedule.
LEMMA HandleReschedules ==
    ASSUME TypeOK, NEW w \in Workers, NEW o \in Operations,
           NEW step \in {"reschedule", "fail"}, Handle(w, o, step)
    PROVE  /\ \A p \in Operations \ {o} : Rescheduling(p)' \subseteq Rescheduling(p)
           /\ Rescheduling(o)' \subseteq Rescheduling(o) \cup {w}
BY DEF TypeOK, Handle, Rescheduling

LEMMA OneMoreReschedule ==
    ASSUME NEW o \in Operations, NEW w \in Workers,
           Rescheduling(o)' \subseteq Rescheduling(o) \cup {w}
    PROVE  Cardinality(Rescheduling(o))' <= Cardinality(Rescheduling(o)) + 1
<1>1. IsFiniteSet(Rescheduling(o)) /\ Cardinality(Rescheduling(o)) \in Nat
  BY HoldersAreFew DEF Rescheduling
<1>2. /\ IsFiniteSet(Rescheduling(o) \cup {w})
      /\ Cardinality(Rescheduling(o) \cup {w}) <= Cardinality(Rescheduling(o)) + 1
      /\ Cardinality(Rescheduling(o) \cup {w}) \in Nat
  <2> DEFINE S == Rescheduling(o)
  <2>1. IsFiniteSet(S) /\ Cardinality(S) \in Nat
    BY <1>1
  <2> HIDE DEF S
  <2>2. IsFiniteSet(S \cup {w})
    BY <2>1, FS_AddElement
  <2>3. Cardinality(S \cup {w}) = IF w \in S THEN Cardinality(S) ELSE Cardinality(S) + 1
    BY <2>1, FS_AddElement
  <2>4. Cardinality(S \cup {w}) \in Nat /\ Cardinality(S \cup {w}) <= Cardinality(S) + 1
    BY <2>1, <2>3
  <2> QED
    BY <2>2, <2>4 DEF S
<1>3. /\ Cardinality(Rescheduling(o)') <= Cardinality(Rescheduling(o) \cup {w})
      /\ Cardinality(Rescheduling(o)') \in Nat
  BY <1>2, FS_Subset, FS_CardinalityType
<1>4. Cardinality(Rescheduling(o)') <= Cardinality(Rescheduling(o)) + 1
  BY <1>1, <1>2, <1>3
<1> QED
  BY <1>4

\* What a write of one row leaves of the others.
LEMMA WriteAttempts ==
    ASSUME TypeOK, NEW o \in Operations, NEW row, Write(o, row), row # None
    PROVE  /\ Attempts(o)' = row.attempts
           /\ \A p \in Operations \ {o} : Attempts(p)' = Attempts(p)
BY DEF TypeOK, Write, Attempts

\* Steps that resume: the row of the record is counted, the others fit as before.
LEMMA ResumingKeepsAttempts ==
    ASSUME TypeOK, TypeOK', AttemptsFit, NEW w \in Workers,
           ResumePending(w) \/ ResumeFails(w) \/ ResumeIsInterrupted(w)
    PROVE  AttemptsFit'
<1> SUFFICES ASSUME NEW p \in Operations
             PROVE  AttemptFits(p)'
  BY DEF AttemptsFit
<1>1. AttemptFits(p)
  BY DEF AttemptsFit
<1>2. /\ Attempts(p) \in Nat /\ Cardinality(Rescheduling(p)) \in Nat
      /\ Attempts(p)' \in Nat /\ Cardinality(Rescheduling(p))' \in Nat
      /\ faults \in Nat
  BY AttemptTypes, AttemptTypesAfter
<1>3. CASE ResumePending(w)
  <2>1. PICK o \in batch[w] :
          /\ Resumable(o) /\ \E row \in Decide(o) : Write(o, row)
          /\ Counted(o) /\ Done(w, o)
    BY <1>3 DEF ResumePending
  <2>2. o \in Operations /\ Pending(o) /\ faults' = faults
    BY <1>3, <2>1 DEF ResumePending, TypeOK, Resumable, bounds
  <2>3. PICK row \in Decide(o) : Write(o, row)
    BY <2>1
  <2>4. row # None /\ row.attempts <= rows[o].attempts + 1 /\ Attempts(o) = rows[o].attempts
    BY <2>2, DecisionAttempts DEF Pending, Attempts
  <2>5. Rescheduling(p)' \subseteq Rescheduling(p)
    BY <2>1, DoneReschedules
  <2>6. CASE p = o
    <3>1. Owed(p)' <= Owed(p) + 1 + 0
      BY <1>2, <2>2, <2>3, <2>4, <2>5, <2>6, WriteAttempts, FewerReschedules DEF Owed
    <3> QED
      BY <1>1, <1>2, <2>1, <2>2, <2>6, <3>1, AttemptPaid
  <2>7. CASE p # o
    <3>1. Attempts(p)' = Attempts(p)
      BY <2>2, <2>3, <2>4, <2>7, WriteAttempts
    <3>2. tries'[p] = tries[p]
      BY <2>1, <2>7 DEF Counted, TypeOK
    <3> QED
      BY <1>1, <1>2, <2>2, <2>5, <3>1, <3>2, AttemptKept
  <2> QED
    BY <2>6, <2>7
<1>4. CASE ResumeFails(w)
  <2>1. PICK o \in batch[w] : Handle(w, o, ErrorStep(o)) /\ Counted(o)
    BY <1>4 DEF ResumeFails
  <2>2. o \in Operations /\ UNCHANGED rows /\ faults' = faults
    BY <1>4 DEF ResumeFails, TypeOK, bounds, table
  <2>3. ErrorStep(o) \in {"reschedule", "fail"}
    BY DEF ErrorStep
  <2>4. Attempts(p)' = Attempts(p)
    BY <2>2 DEF Attempts
  <2>5. CASE p = o
    <3>1. Cardinality(Rescheduling(p))' <= Cardinality(Rescheduling(p)) + 1
      BY <2>1, <2>2, <2>3, <2>5, HandleReschedules, OneMoreReschedule
    <3>2. Owed(p)' <= Owed(p) + 1 + 0
      BY <1>2, <2>4, <3>1 DEF Owed
    <3> QED
      BY <1>1, <1>2, <2>1, <2>2, <2>5, <3>2, AttemptPaid
  <2>6. CASE p # o
    <3>1. Rescheduling(p)' \subseteq Rescheduling(p)
      BY <2>1, <2>2, <2>3, <2>6, HandleReschedules
    <3>2. tries'[p] = tries[p]
      BY <2>1, <2>6 DEF Counted, TypeOK
    <3> QED
      BY <1>1, <1>2, <2>2, <2>4, <3>1, <3>2, AttemptKept
  <2> QED
    BY <2>5, <2>6
<1>5. CASE ResumeIsInterrupted(w)
  <2>1. PICK o \in batch[w] :
          /\ \/ UNCHANGED <<rows, agenda>>
             \/ Resumable(o) /\ \E row \in Decide(o) : Write(o, row)
          /\ Handle(w, o, "reschedule")
          /\ Counted(o)
    BY <1>5 DEF ResumeIsInterrupted
  <2>2. o \in Operations /\ faults' = faults + 1
    BY <1>5 DEF ResumeIsInterrupted, Fault, TypeOK
  <2>3. /\ Attempts(o)' <= Attempts(o) + 1
        /\ \A q \in Operations \ {o} : Attempts(q)' = Attempts(q)
    <3>1. CASE UNCHANGED rows
      <4>1. \A q \in Operations : Attempts(q)' = Attempts(q) /\ Attempts(q) \in Nat
        BY <3>1, AttemptTypes DEF Attempts
      <4> QED
        BY <2>2, <4>1
    <3>2. CASE Resumable(o) /\ \E row \in Decide(o) : Write(o, row)
      <4>1. PICK row \in Decide(o) : Write(o, row)
        BY <3>2
      <4>2. row # None /\ row.attempts <= rows[o].attempts + 1 /\ Attempts(o) = rows[o].attempts
        BY <2>2, <3>2, DecisionAttempts DEF Resumable, Pending, Attempts
      <4> QED
        BY <2>2, <4>1, <4>2, WriteAttempts
    <3> QED
      BY <2>1, <3>1, <3>2
  <2>4. CASE p = o
    <3>1. Cardinality(Rescheduling(p))' <= Cardinality(Rescheduling(p)) + 1
      BY <2>1, <2>2, <2>4, HandleReschedules, OneMoreReschedule
    <3>2. Owed(p)' <= Owed(p) + 1 + 1
      BY <1>2, <2>3, <2>4, <3>1 DEF Owed
    <3> QED
      BY <1>1, <1>2, <2>1, <2>2, <2>4, <3>2, AttemptPaid
  <2>5. CASE p # o
    <3>1. Rescheduling(p)' \subseteq Rescheduling(p)
      BY <2>1, <2>2, <2>5, HandleReschedules
    <3>2. tries'[p] = tries[p]
      BY <2>1, <2>5 DEF Counted, TypeOK
    <3> QED
      BY <1>1, <1>2, <2>2, <2>3, <2>5, <3>1, <3>2, AttemptKept
  <2> QED
    BY <2>4, <2>5
<1> QED
  BY <1>3, <1>4, <1>5

\* The transaction after a failure turns a reschedule under way into an attempt.
LEMMA ReschedulingKeepsAttempts ==
    ASSUME TypeOK, TypeOK', AttemptsFit, NEW w \in Workers, ReschedulePendingAfterFailure(w)
    PROVE  AttemptsFit'
<1> SUFFICES ASSUME NEW p \in Operations
             PROVE  AttemptFits(p)'
  BY DEF AttemptsFit
<1>1. AttemptFits(p)
  BY DEF AttemptsFit
<1>2. PICK o \in Operations : o = current[w]
  BY DEF ReschedulePendingAfterFailure, TypeOK
<1>3. /\ UNCHANGED <<tries, faults>> /\ pc[w] = "reschedule"
      /\ Done(w, o)
      /\ IF Resumable(o) THEN Write(o, Rescheduled(rows[o])) ELSE UNCHANGED <<rows, agenda>>
  BY <1>2 DEF ReschedulePendingAfterFailure, bounds
<1>4. Rescheduling(p)' = Rescheduling(p) \ {w}
  BY <1>3, DoneReschedules
<1>5. faults \in Nat /\ Attempts(p) \in Nat /\ Cardinality(Rescheduling(p)) \in Nat
      /\ Attempts(p)' \in Nat /\ Cardinality(Rescheduling(p))' \in Nat
      /\ tries[p] \in Nat /\ MaxAttempts \in Nat
  BY AttemptTypes, AttemptTypesAfter
<1>6. CASE ~Resumable(o) \/ p # o
  <2>1. Attempts(p)' = Attempts(p)
    <3>1. CASE ~Resumable(o)
      BY <1>3, <3>1 DEF Attempts
    <3>2. CASE Resumable(o) /\ p # o
      BY <1>3, <3>2 DEF Write, Attempts, TypeOK
    <3> QED
      BY <1>6, <3>1, <3>2
  <2> QED
    BY <1>1, <1>3, <1>4, <1>5, <2>1, AttemptKept
<1>7. CASE Resumable(o) /\ p = o
  <2>1. Pending(o) /\ rows[o] \in Row
    BY <1>7 DEF Resumable, Pending, TypeOK
  <2>2. /\ Rescheduled(rows[o]) # None
        /\ Rescheduled(rows[o]).attempts <= rows[o].attempts + 1
    <3>1. Rescheduled(rows[o]) \in Row
      BY <2>1, RowsOfAPendingRow
    <3> QED
      BY <2>1, <3>1, AbsentRow, BoundsAssumption DEF Rescheduled, Row, AtMost
  <2>3. Attempts(p)' <= Attempts(p) + 1
    BY <1>3, <1>7, <2>1, <2>2, WriteAttempts DEF Attempts, Pending
  <2>4. w \in Rescheduling(p) /\ IsFiniteSet(Rescheduling(p))
    BY <1>2, <1>3, <1>7, HoldersAreFew DEF Rescheduling
  <2>5. Cardinality(Rescheduling(p) \ {w}) = Cardinality(Rescheduling(p)) - 1
    BY <2>4, FS_RemoveElement
  <2>6. Cardinality(Rescheduling(p))' = Cardinality(Rescheduling(p) \ {w})
    BY <1>4
  <2>7. Owed(p)' <= Owed(p) /\ Spent(p)' = Spent(p)
    BY <1>3, <1>5, <2>3, <2>5, <2>6 DEF Owed, Spent
  <2> QED
    BY <1>1, <1>5, <2>7 DEF AttemptFits, Owed, Spent
<1> QED
  BY <1>6, <1>7

\* The other steps write no attempts and take on no reschedules.
LEMMA OtherStepsKeepAttempts ==
    ASSUME TypeOK, TypeOK', AttemptsFit, tries' = tries, faults' >= faults,
           \A p \in Operations : Attempts(p)' <= Attempts(p),
           \A p \in Operations : Rescheduling(p)' \subseteq Rescheduling(p)
    PROVE  AttemptsFit'
BY AttemptKept DEF AttemptsFit

LEMMA AttemptsPreserved ==
    ASSUME IndInv, AttemptsFit, [Next]_vars
    PROVE  AttemptsFit'
<1>1. TypeOK /\ TypeOK'
  BY NextKeepsInvariant DEF IndInv
<1>2. \A p \in Operations : Attempts(p) \in Nat
  BY <1>1, AttemptTypes
<1>3. faults \in Nat
  BY <1>1 DEF TypeOK
<1>4. ASSUME UNCHANGED rows
      PROVE  \A p \in Operations : Attempts(p)' <= Attempts(p)
  BY <1>2, <1>4 DEF Attempts
<1>5. ASSUME UNCHANGED <<pc, current>>
      PROVE  \A p \in Operations : Rescheduling(p)' \subseteq Rescheduling(p)
  BY <1>5 DEF Rescheduling
<1>6. CASE UNCHANGED vars
  BY <1>1, <1>3, <1>4, <1>5, <1>6, OtherStepsKeepAttempts DEF vars, table, work, bounds
<1>7. ASSUME NEW o \in Operations,
             ReferenceArrives(o) \/ ReferenceEndsOtherwise(o) \/ ComesDue(o)
      PROVE  AttemptsFit'
  BY <1>1, <1>3, <1>4, <1>5, <1>7, OtherStepsKeepAttempts
     DEF ReferenceArrives, ReferenceEndsOtherwise, ComesDue, table, work, bounds
<1>8. ASSUME NEW o \in Operations, Accept(o)
      PROVE  AttemptsFit'
  <2>1. \A p \in Operations : Attempts(p)' = Attempts(p)
    <3>1. NewRow \in Row /\ NewRow.attempts = 0
      BY BoundsAssumption DEF NewRow, Row, Statuses
    <3>2. rows' = [rows EXCEPT ![o] = NewRow] /\ rows[o] = None
      BY <1>8 DEF Accept
    <3> QED
      BY <1>1, <3>1, <3>2 DEF Attempts, TypeOK
  <2> QED
    BY <1>1, <1>2, <1>3, <1>5, <1>8, <2>1, OtherStepsKeepAttempts DEF Accept, work, bounds
<1>9. ASSUME NEW o \in Operations, Expires(o)
      PROVE  AttemptsFit'
  <2>1. \A p \in Operations : Attempts(p)' = Attempts(p)
    <3>1. rows[o] \in Row /\ rows[o] # None
      BY <1>1, <1>9 DEF Expires, Pending, TypeOK
    <3> DEFINE row == [rows[o] EXCEPT !.expired = TRUE]
    <3>2. row \in Row
      BY <3>1, Zenon DEF Row
    <3>3. row.attempts = rows[o].attempts
      BY <3>1 DEF Row
    <3>4. rows' = [rows EXCEPT ![o] = row]
      BY <1>9 DEF Expires
    <3> HIDE DEF row
    <3> QED
      BY <1>1, <3>1, <3>2, <3>3, <3>4, AbsentRow DEF Attempts, TypeOK
  <2> QED
    BY <1>1, <1>2, <1>3, <1>5, <1>9, <2>1, OtherStepsKeepAttempts DEF Expires, work, bounds
<1>10. ASSUME NEW w \in Workers, Claim(w) \/ Abandon(w)
       PROVE  AttemptsFit'
  <2>1. UNCHANGED <<rows, tries>> /\ faults' >= faults
    BY <1>3, <1>10 DEF Claim, Abandon, Fault, table, bounds
  <2>2. \A p \in Operations : Rescheduling(p)' \subseteq Rescheduling(p)
    BY <1>1, <1>10 DEF Claim, Abandon, Rescheduling, TypeOK
  <2> QED
    BY <1>1, <1>4, <2>1, <2>2, OtherStepsKeepAttempts
<1>11. ASSUME NEW w \in Workers, HandlingIsInterrupted(w)
       PROVE  AttemptsFit'
  <2>1. UNCHANGED <<rows, tries>> /\ faults' >= faults
    BY <1>3, <1>11 DEF HandlingIsInterrupted, Fault, table
  <2>2. \A p \in Operations : Rescheduling(p)' \subseteq Rescheduling(p)
    BY <1>1, <1>11, DoneReschedules DEF HandlingIsInterrupted
  <2> QED
    BY <1>1, <1>4, <2>1, <2>2, OtherStepsKeepAttempts
<1>12. ASSUME NEW w \in Workers, FailPending(w)
       PROVE  AttemptsFit'
  <2>1. PICK o \in Operations : o = current[w]
    BY <1>1, <1>12 DEF FailPending, TypeOK
  <2>2. \A p \in Operations : Rescheduling(p)' \subseteq Rescheduling(p)
    BY <1>1, <1>12, DoneReschedules DEF FailPending
  <2>3. \A p \in Operations : Attempts(p)' <= Attempts(p)
    <3>1. CASE ~Resumable(o)
      BY <1>4, <1>12, <2>1, <3>1 DEF FailPending
    <3>2. CASE Resumable(o)
      <4> DEFINE row == Settled(rows[o], "FAILED", "PERMANENT_PROCESSING_FAILURE")
      <4>1. rows[o] \in Row /\ rows[o] # None
        BY <1>1, <3>2 DEF Resumable, Pending, TypeOK
      <4>2. row \in Row
        BY <1>1, <3>2, RowsOfAPendingRow DEF Resumable, Statuses
      <4>3. row.attempts = rows[o].attempts
        BY <4>1 DEF Settled, Row
      <4>4. Write(o, row)
        BY <1>12, <2>1, <3>2 DEF FailPending
      <4> HIDE DEF row
      <4>5. \A p \in Operations : Attempts(p)' = Attempts(p)
        BY <1>1, <4>1, <4>2, <4>3, <4>4, AbsentRow, WriteAttempts DEF Attempts
      <4> QED
        BY <1>2, <4>5
    <3> QED
      BY <3>1, <3>2
  <2> QED
    BY <1>1, <1>3, <1>12, <2>2, <2>3, OtherStepsKeepAttempts DEF FailPending, bounds
<1>13. CASE Next
  BY <1>1, <1>7, <1>8, <1>9, <1>10, <1>11, <1>12, <1>13, ResumingKeepsAttempts,
     ReschedulingKeepsAttempts DEF Next
<1> QED
  BY <1>6, <1>13

\* While its reference may still arrive, a decision ends a row only at a limit.
LEMMA DecisionEndsAtLimit ==
    ASSUME TypeOK, NEW o \in Operations, Pending(o), Reference(o) \in Waiting,
           NEW row \in Decide(o), row.status # "PENDING_REFERENCE"
    PROVE  rows[o].expired \/ rows[o].attempts >= MaxAttempts
<1> SUFFICES ASSUME ~(rows[o].expired \/ rows[o].attempts >= MaxAttempts)
             PROVE  FALSE
  OBVIOUS
<1>1. row = Rescheduled(rows[o])
  BY DEF Decide, Outcomes, Waiting
<1>2. Rescheduled(rows[o]).status = "PENDING_REFERENCE"
  BY RowsOfAPendingRow
<1> QED
  BY <1>1, <1>2

\* Only a decision ends a row whose reference may still arrive.
LEMMA EndingIsDecided ==
    ASSUME IndInv, [Next]_vars, NEW o \in Operations,
           Pending(o), Reference(o) \in Waiting, Ended(o)'
    PROVE  rows[o].expired \/ rows[o].attempts >= MaxAttempts
<1>1. TypeOK /\ rows[o] \in Row /\ rows[o] # None /\ rows[o].status = "PENDING_REFERENCE"
  BY DEF IndInv, TypeOK, Pending
<1>2. rows'[o] # rows[o] /\ rows'[o].status # "PENDING_REFERENCE"
  BY <1>1 DEF Ended
<1>3. ASSUME NEW p \in Operations, NEW row, Write(p, row)
      PROVE  p = o /\ row.status # "PENDING_REFERENCE"
  BY <1>1, <1>2, <1>3 DEF Write, TypeOK
<1>4. ASSUME NEW w \in Workers, NEW p \in batch[w], Resumable(p),
             \E row \in Decide(p) : Write(p, row)
      PROVE  rows[o].expired \/ rows[o].attempts >= MaxAttempts
  <2>1. p \in Operations
    BY <1>1 DEF TypeOK
  <2>2. PICK row \in Decide(p) : Write(p, row)
    BY <1>4
  <2>3. p = o /\ row.status # "PENDING_REFERENCE"
    BY <1>3, <2>1, <2>2
  <2> QED
    BY <1>1, <2>2, <2>3, DecisionEndsAtLimit
<1>5. ASSUME UNCHANGED rows
      PROVE  FALSE
  BY <1>2, <1>5
<1>6. ASSUME NEW p \in Operations, Accept(p) \/ Expires(p)
      PROVE  FALSE
  <2>1. CASE Accept(p)
    BY <1>1, <1>2, <2>1 DEF Accept, TypeOK
  <2>2. CASE Expires(p)
    <3>1. rows' = [rows EXCEPT ![p] = [rows[p] EXCEPT !.expired = TRUE]]
      BY <2>2 DEF Expires
    <3>2. rows'[o].status = rows[o].status
      BY <1>1, <3>1 DEF TypeOK, Row
    <3> QED
      BY <1>1, <1>2, <3>2
  <2> QED
    BY <1>6, <2>1, <2>2
<1>7. ASSUME NEW w \in Workers, ResumePending(w) \/ ResumeIsInterrupted(w)
      PROVE  rows[o].expired \/ rows[o].attempts >= MaxAttempts
  BY <1>4, <1>5, <1>7 DEF ResumePending, ResumeIsInterrupted
<1>8. ASSUME NEW w \in Workers, ReschedulePendingAfterFailure(w)
      PROVE  FALSE
  <2>1. PICK p \in Operations : p = current[w]
    BY <1>1, <1>8 DEF ReschedulePendingAfterFailure, TypeOK
  <2>2. Resumable(p) /\ Write(p, Rescheduled(rows[p]))
    BY <1>5, <1>8, <2>1 DEF ReschedulePendingAfterFailure
  <2>3. p = o /\ Rescheduled(rows[p]).status # "PENDING_REFERENCE"
    BY <1>3, <2>2
  <2> QED
    BY <1>1, <2>3, RowsOfAPendingRow
<1>9. ASSUME NEW w \in Workers, FailPending(w)
      PROVE  FALSE
  <2>1. PICK p \in Operations : p = current[w]
    BY <1>1, <1>9 DEF FailPending, TypeOK
  <2>2. /\ Resumable(p)
        /\ Write(p, Settled(rows[p], "FAILED", "PERMANENT_PROCESSING_FAILURE"))
    BY <1>5, <1>9, <2>1 DEF FailPending
  <2>3. p = o
    BY <1>3, <2>2
  <2>4. p \in damaged \/ Reference(p) = "UNREADABLE"
    BY <1>9, <2>1 DEF FailPending, IndInv, FailFits
  <2> QED
    BY <2>2, <2>3, <2>4 DEF Resumable, Waiting
<1>10. Next
  BY <1>5 DEF vars, table
<1>11. ASSUME NEW p \in Operations,
              ReferenceArrives(p) \/ ReferenceEndsOtherwise(p) \/ ComesDue(p)
       PROVE  FALSE
  BY <1>5, <1>11 DEF ReferenceArrives, ReferenceEndsOtherwise, ComesDue, table
<1>12. ASSUME NEW w \in Workers,
              Claim(w) \/ ResumeFails(w) \/ HandlingIsInterrupted(w) \/ Abandon(w)
       PROVE  FALSE
  BY <1>5, <1>12 DEF Claim, ResumeFails, HandlingIsInterrupted, Abandon, table
<1> QED
  BY <1>6, <1>7, <1>8, <1>9, <1>10, <1>11, <1>12 DEF Next

\* ResumePending gives an operation up while its reference may still arrive only
\* after its TTL or REFERENCE_WORKER_MAX_ATTEMPTS resumptions: for any number of
\* workers on the row, an answer lost after the attempt was counted costs one
\* attempt for each fault, and nothing else does.
THEOREM PatienceIsKept == Spec => NoOperationGivesUpEarly
<1> DEFINE Patient ==
        \A o \in Operations :
            /\ Pending(o) /\ Reference(o) \in Waiting
            /\ Ended(o)'
            => rows[o].expired \/ tries[o] + faults >= MaxAttempts
<1>1. Init => IndInv /\ AttemptsFit
  <2> SUFFICES ASSUME Init PROVE IndInv /\ AttemptsFit
    OBVIOUS
  <2>1. \A o \in Operations : Rescheduling(o) = {} /\ Attempts(o) = 0 /\ tries[o] = 0
    BY DEF Init, Rescheduling, Attempts
  <2>2. AttemptsFit
    BY <2>1, FS_EmptySet DEF Init, AttemptsFit, AttemptFits, Owed, Spent
  <2> QED
    BY <2>2, InitIsInvariant
<1>2. IndInv /\ AttemptsFit /\ [Next]_vars => (IndInv /\ AttemptsFit)'
  BY NextKeepsInvariant, AttemptsPreserved
<1>3. IndInv /\ AttemptsFit /\ [Next]_vars => [Patient]_vars
  <2> SUFFICES ASSUME IndInv, AttemptsFit, [Next]_vars, NEW o \in Operations,
                      Pending(o), Reference(o) \in Waiting, Ended(o)', ~rows[o].expired
               PROVE  tries[o] + faults >= MaxAttempts
    OBVIOUS
  <2>1. rows[o].attempts >= MaxAttempts
    BY EndingIsDecided
  <2>2. Attempts(o) = rows[o].attempts
    BY DEF Attempts, Pending
  <2>3. /\ Attempts(o) \in Nat /\ Cardinality(Rescheduling(o)) \in Nat
        /\ tries[o] \in Nat /\ faults \in Nat /\ MaxAttempts \in Nat
    BY AttemptTypes DEF IndInv
  <2>4. AttemptFits(o)
    BY DEF AttemptsFit
  <2> QED
    BY <2>1, <2>2, <2>3, <2>4 DEF AttemptFits, Owed, Spent
<1> QED
  BY <1>1, <1>2, <1>3, PTL DEF Spec, NoOperationGivesUpEarly

=============================================================================
