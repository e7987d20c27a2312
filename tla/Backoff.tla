------------------------------ MODULE Backoff -------------------------------
(***************************************************************************)
(* backoff.Exponential and the worker's jitter over durations of a bounded *)
(* width, loop step by loop step: the schedule by which the outbox         *)
(* publisher, the consumer and the reference worker retry.                 *)
(***************************************************************************)
EXTENDS Integers

CONSTANTS
    MaxDuration,  \* the largest time.Duration
    Delays,       \* RETRY_BASE and RETRY_MAX values
    Attempts      \* attempt numbers, a first receive is number 0

VARIABLES
    base, limit, attempt,  \* the arguments
    delay,                 \* the delay so far
    rounds,                \* doublings done or cut off by the limit
    doubled,               \* history: base doubled as often, without bounds
    at                     \* "loop", "returned" or "jittered"

backoffVars == <<base, limit, attempt, delay, rounds, doubled, at>>

WrapDuration(n) ==
    ((n + MaxDuration + 1) % (2 * (MaxDuration + 1))) - MaxDuration - 1

BackoffInit ==
    /\ base \in Delays
    /\ limit \in {d \in Delays : d >= base}
    /\ attempt \in Attempts
    /\ delay = base
    /\ rounds = 0
    /\ doubled = base
    /\ at = IF attempt <= 0 \/ base >= limit THEN "returned" ELSE "loop"

\* Mutant: the delay is compared after it was doubled.
DoubleThenCap ==
    /\ delay' = IF WrapDuration(delay * 2) > limit THEN limit ELSE WrapDuration(delay * 2)
    /\ at' = IF WrapDuration(delay * 2) > limit \/ rounds + 1 = attempt
             THEN "returned" ELSE "loop"

\* The limit is compared before the delay is doubled.
Double ==
    /\ delay' = IF delay > limit \div 2 THEN limit ELSE WrapDuration(delay * 2)
    /\ at' = IF delay > limit \div 2 \/ rounds + 1 = attempt THEN "returned" ELSE "loop"

Iterate ==
    /\ at = "loop"
    /\ Double
    /\ rounds' = rounds + 1
    /\ doubled' = doubled * 2
    /\ UNCHANGED <<base, limit, attempt>>

Spread == delay \div 2

Jitter ==
    /\ at = "returned"
    /\ \E r \in 0..Spread : delay' = WrapDuration(delay + r)
    /\ at' = "jittered"
    /\ UNCHANGED <<base, limit, attempt, rounds, doubled>>

BackoffNext == Iterate \/ Jitter

BackoffSpec == BackoffInit /\ [][BackoffNext]_backoffVars

-----------------------------------------------------------------------------
\* config.Load: durations are positive.  One and a half times a retry limit is
\* a duration, which holds for limits up to 194 years.
ASSUME DurationAssumption ==
    /\ MaxDuration \in Nat
    /\ Delays \subseteq {d \in 1..MaxDuration : d + d \div 2 <= MaxDuration}
    /\ Attempts \subseteq Int

Lesser(m, n) == IF m < n THEN m ELSE n

\* However often it was retried, a delay is base doubled once per attempt or
\* the limit, whichever is less: it neither overflows nor passes the limit nor
\* is cut off early.
DelayIsCappedDoubling ==
    /\ at = "loop" => delay = doubled /\ delay <= limit /\ rounds < attempt
    /\ at = "returned" =>
          /\ delay = Lesser(doubled, limit)
          /\ rounds < attempt => doubled >= limit

\* Jitter spreads the retries of one batch forward only, and no further than
\* half the delay past the limit.
JitterStaysInRange ==
    at = "jittered" =>
        Lesser(doubled, limit) <= delay /\ 2 * delay <= 3 * Lesser(doubled, limit)

\* What a retry waits for, before and after its jitter.
DelaysAreBounded == DelayIsCappedDoubling /\ JitterStaysInRange
=============================================================================
