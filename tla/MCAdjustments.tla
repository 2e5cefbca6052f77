---------------------------- MODULE MCAdjustments ----------------------------
(* Small instances of Adjustments for TLC.                                  *)
EXTENDS Adjustments, TLC

AlikeCalls == Permutations(Calls) \cup Permutations(Requests)
=============================================================================
