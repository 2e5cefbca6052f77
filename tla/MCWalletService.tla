-------------------------- MODULE MCWalletService --------------------------
(* Small instances of WalletService for TLC.                                *)
EXTENDS WalletService, TLC

Handlers == Permutations(Procs) \cup Permutations(Keys)
=============================================================================
