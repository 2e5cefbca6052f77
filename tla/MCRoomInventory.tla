-------------------------- MODULE MCRoomInventory --------------------------
(* RoomInventory with interchangeable calls and rooms.                      *)
EXTENDS RoomInventory, TLC

Ask(s, n, path, approval) ==
    [stay |-> s, rooms |-> n, path |-> path, approval |-> approval]

(* Guests of an event and guests of the checkout, for one or two nights.    *)
FewRequests ==
    { Ask({1}, 1, "event", TRUE), Ask({1, 2}, 2, "event", FALSE),
      Ask({1}, 1, "checkout", TRUE), Ask({2}, 1, "checkout", FALSE) }

Nights == {{1}, {2}, {1, 2}}

Alike == Permutations(Procs) \cup Permutations(Rooms)
=============================================================================
