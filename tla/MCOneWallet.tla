---------------------------- MODULE MCOneWallet ----------------------------
(* One wallet, over which a behaviour plays one of two scenarios.  In the  *)
(* first a BET, the two operations that may reverse it and one that refers *)
(* to a pending reversal arrive over HTTP in any order.  In the second a   *)
(* BET arrives over HTTP and in two queue messages, one message id is      *)
(* reused for a WIN, and the stored row of that WIN does not rehydrate:    *)
(* the ROLLBACK that waits for it can only fail.                           *)
EXTENDS MCOperations

MCPlayer   == [w \in Wallets |-> "player"]
MCCurrency == [w \in Wallets |-> "BRL"]
MCCorrupt  == {<<"p", "win">>}

\* The last two share an idempotency key: one of them is stored, which bounds
\* the rows, and the other is a conflict.
Reversing == {Operation("k1", "bet", "w1", "BET", 1, None),
              Operation("k2", "refund", "w1", "REFUND", 1, "bet"),
              Operation("k3", "rollback", "w1", "ROLLBACK", 1, "bet"),
              Operation("k3", "undo", "w1", "ROLLBACK", 1, "refund")}

Bet       == Operation("k4", "bet", "w1", "BET", 1, None)
Win       == Operation("k5", "win", "w1", "WIN", 1, None)
Rollback  == Operation("k6", "rollback", "w1", "ROLLBACK", 1, "win")
Delivered == {Bet, Win, Rollback}

MCHttpOps    == Reversing \cup {Bet, Rollback}
MCDeliveries == {[msg |-> "m1", op |-> Bet], [msg |-> "m2", op |-> Bet],
                 [msg |-> "m1", op |-> Win]}

\* Nothing but these operations is in progress or stored.
Only(ops) ==
    /\ \A s \in Sessions : job[s].via \in {"HTTP", "SQS"} => job[s].op \in ops
    /\ \A id \in TxIds : rows[id] # None => rows[id].key \in {None} \cup {o.key : o \in ops}

OneScenario == Only(Reversing) \/ Only(Delivered)
=============================================================================
