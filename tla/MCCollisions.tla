---------------------------- MODULE MCCollisions ---------------------------
(* Two wallets of one player.  The same idempotency key arrives for both,  *)
(* the same external id arrives under two keys, and each wallet has a      *)
(* ROLLBACK of that external id, whichever wallet it ends up in.  One      *)
(* operation is malformed and one in a currency its wallet does not hold.  *)
EXTENDS MCOperations

MCPlayer   == [w \in Wallets |-> "player"]
MCCurrency == [w \in Wallets |-> IF w = "w1" THEN "BRL" ELSE "USD"]
Usd(op)    == [op EXCEPT !.payload.currency = "USD"]
MCHttpOps  == {Operation("k1", "e1", "w1", "WIN", 1, None),
               Usd(Operation("k1", "e2", "w2", "BET", 2, None)),
               Usd(Operation("k2", "e1", "w2", "WIN", 1, None)),
               Operation("k3", "e3", "w1", "ROLLBACK", 1, "e1"),
               Usd(Operation("k4", "e4", "w2", "ROLLBACK", 1, "e1")),
               Operation("k5", "e6", "w1", "REFUND", 1, None)}
=============================================================================
