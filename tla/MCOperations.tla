---------------------------- MODULE MCOperations ----------------------------
(* Shared by the model-checking modules of ProcessOperation.               *)
EXTENDS ProcessOperation, TLC

\* An operation of provider "p" by player "player" in one round.
Operation(key, ext, wallet, kind, amount, ref) ==
    [key |-> key,
     payload |-> [provider |-> "p", ext |-> ext, player |-> "player",
                  wallet |-> wallet, round |-> "r", kind |-> kind,
                  currency |-> "BRL", amount |-> amount, ref |-> ref]]

Symmetry == Permutations(TxIds) \cup Permutations(Sessions)
=============================================================================
