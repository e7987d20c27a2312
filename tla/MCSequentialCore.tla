-------------------------- MODULE MCSequentialCore --------------------------
(* The three sequential machines in one run: each behaviour moves one of   *)
(* them and leaves the other two at rest.                                  *)
EXTENDS TransactionRecord, Money, Backoff

AttemptNumbers == -1..9

MoneyRests   == stage = "rest" /\ units = 0 /\ read = 0 /\ exact = 0
BackoffRests == /\ at = "rest" /\ base = 0 /\ limit = 0 /\ attempt = 0
                /\ delay = 0 /\ rounds = 0 /\ doubled = 0
RecordRests  ==
    /\ request = [provider |-> "p", ext |-> "a", player |-> "x", wallet |-> "w", round |-> "r",
                  kind |-> "LOSS", currency |-> "BRL", amount |-> 0, ref |-> None]
    /\ other = request
    /\ status = None /\ reversed = FALSE /\ balance = 0
    /\ tx = None /\ row = None /\ answer = None /\ failure = None

CoreInit ==
    \/ RecordInit /\ MoneyRests /\ BackoffRests
    \/ RecordRests /\ MoneyInit /\ BackoffRests
    \/ RecordRests /\ MoneyRests /\ BackoffInit

CoreNext ==
    \/ stage = "rest" /\ at = "rest" /\ RecordNext /\ UNCHANGED <<moneyVars, backoffVars>>
    \/ MoneyNext /\ UNCHANGED <<vars, recordVars, backoffVars>>
    \/ BackoffNext /\ UNCHANGED <<vars, recordVars, moneyVars>>

CoreSpec == CoreInit /\ [][CoreNext]_<<vars, recordVars, moneyVars, backoffVars>>
=============================================================================
