----------------------- MODULE MCTransportReservation -----------------------
(* Instances of TransportReservation for TLC.                               *)
EXTENDS TransportReservation, TLC

Handlers == Permutations(Procs) \cup Permutations(Keys)

Win(i, j) == [from |-> i, to |-> j]
Slice(i, j, n) == [win |-> Win(i, j), units |-> n]
Ask(vs, n, w, t) == [vehs |-> vs, qty |-> n, win |-> w, timing |-> t, priced |-> TRUE]

(* The supply at the start: all of the horizon, or its first half only.     *)
OneSlice  == [s \in SupplyIds |-> IF s = 1 THEN Slice(0, 2, 2) ELSE NoSlice]
FirstHalf == [s \in SupplyIds |-> IF s = 1 THEN Slice(0, 1, 2) ELSE NoSlice]

(* Specific and capacity requests that touch, overlap and miss each other;  *)
(* an expiry batch may lock the vehicles of the two deposits in either      *)
(* order, a create locks them in ascending order.                           *)
MixedRequests ==
    { Ask({2}, 1, Win(0, 1), "DEPOSIT"), Ask({1}, 1, Win(0, 1), "DEPOSIT"),
      Ask({1}, 1, Win(0, 2), "LATER"),
      Ask({1, 2}, 2, Win(0, 1), "NOW"), Ask({}, 1, Win(1, 2), "LATER"),
      Ask({}, 2, Win(0, 1), "LATER") }

(* One request per policy; the last has no price, so no event settles it.   *)
CrossRequests ==
    { Ask({2}, 1, Win(0, 1), "DEPOSIT"), Ask({1}, 1, Win(1, 2), "NOW"),
      [Ask({1, 2}, 2, Win(0, 2), "LATER") EXCEPT !.priced = FALSE] }

(* Declarations of the second half that overlap each other.                 *)
RacingSlices == { Slice(1, 2, 1), Slice(1, 2, 2) }
NoSlices     == {}
=============================================================================
