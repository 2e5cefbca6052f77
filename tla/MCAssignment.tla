---------------------------- MODULE MCAssignment ----------------------------
(* Assignment with interchangeable calls, drivers and vehicles.             *)
EXTENDS Assignment, TLC

Alike == Permutations(Calls) \cup Permutations(Drivers)
         \cup Permutations(Vehicles) \cup Permutations(Bookings)
=============================================================================
