------------------------- MODULE MCTicketInventory -------------------------
(* Small instances of TicketInventory for TLC.                              *)
EXTENDS TicketInventory, TLC

(* A tier for one and a tier for two, in an event for two.                  *)
SmallHall == [t \in Tiers |-> IF t \in FreeTiers THEN 1 ELSE 2]

Handlers == Permutations(Procs) \cup Permutations(Persons)
=============================================================================
