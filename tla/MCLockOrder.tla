---------------------------- MODULE MCLockOrder ----------------------------
(* Two wallets whose pending operations name each other as reference.      *)
EXTENDS MCOperations

MCPlayer   == [w \in Wallets |-> "player"]
MCCurrency == [w \in Wallets |-> IF w = "w1" THEN "BRL" ELSE "USD"]
MCHttpOps  == {Operation("k1", "one", "w1", "ROLLBACK", 1, "two"),
               [Operation("k2", "two", "w2", "ROLLBACK", 1, "one")
                   EXCEPT !.payload.currency = "USD"]}
=============================================================================
