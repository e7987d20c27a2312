--------------------------- MODULE MCWalletLedger ----------------------------
(* Two sessions, one reader, and two owners for whom two wallets may be    *)
(* opened, or both for the same one.                                       *)
EXTENDS WalletLedger, TLC

Symmetry == Permutations(Sessions) \cup Permutations(WalletIds) \cup Permutations(Owners)
=============================================================================
