------------------------ MODULE RoomInventoryProofs ------------------------
(***************************************************************************)
(* Theorems about RoomInventory, for any rooms, bookings, requests and      *)
(* number of concurrent calls.                                              *)
(*                                                                          *)
(* HoldsAwait and RoomExclusive are not inductive: between two transactions *)
(* of one call the others go on.  HoldsMatch ties a hold to its booking's   *)
(* row, CallsMatch says what a call may rely on while it is under way       *)
(* (among it that release_room_type_blocks has left no hold behind), and    *)
(* RoomsReady what the row locks of the rooms give to a check-in.           *)
(***************************************************************************)
EXTENDS RoomInventory, FiniteSetTheorems, TLAPS

(* The steps of a call that has loaded its booking: before the decision is  *)
(* carried out, after the blocks were released, and on an active booking.   *)
Deciding == {"approve", "cancel", "reject", "expire"}
Releasing == {"released", "closing", "expiring"}
OnActive == {"no_show", "move", "moving", "arrive", "self_arrive", "leave", "self_leave",
             "seeking", "choosing", "assigning"}
Creating == {"checked", "blocking"}

IsHoldOf(k, b) == k.reason = "hold" /\ k.of = b

(* A booking keeps its dates until it is active.                            *)
DatesKept == \A b \in Bookings : status[b] \in {"none"} \cup Waiting => stay[b] = ask[b].stay

(* A hold is that of a booking which waits, for the dates asked for.        *)
HoldsMatch ==
    /\ IsFiniteSet(blocks)
    /\ \A k \in blocks : k.reason = "hold" /\ k.of # None =>
         status[k.of] \in Waiting /\ k.stay = ask[k.of].stay

(* What a call knows of its booking.                                        *)
CallMatches(p) ==
    /\ pc[p] = "held" => ask[on[p]].path = "checkout"
    /\ pc[p] \in Creating => /\ lock = p /\ status[on[p]] = "none"
                             /\ ask[on[p]].path = "event"
    /\ pc[p] \in Deciding \cup Releasing \cup OnActive =>
         status[on[p]] # "none" /\ seen[p] \in Session
    /\ pc[p] \in Deciding /\ status[on[p]] \in Waiting => seen[p].stay = ask[on[p]].stay
    /\ pc[p] \in Releasing => \A k \in blocks : ~IsHoldOf(k, on[p])
    /\ pc[p] \in OnActive => status[on[p]] \notin Waiting
    /\ pc[p] = "moving" => goal[p] \in Stays
CallsMatch == \A p \in Procs : CallMatches(p)

(* A check-in alone holds its candidates, and nobody is in the ones it has  *)
(* chosen.                                                                  *)
RoomsReady ==
    /\ \A p, q \in Procs : p # q => candidates[p] \cap candidates[q] = {}
    /\ \A p \in Procs : chosen[p] \subseteq candidates[p]
    /\ \A p \in Procs : pc[p] = "assigning" =>
         \A x \in assigned : x.status = "checked_in" => x.room \notin chosen[p]

IInv == TypeOK /\ DatesKept /\ HoldsMatch /\ CallsMatch /\ RoomsReady /\ RoomExclusive

-----------------------------------------------------------------------------
(* Blocks.                                                                  *)

(* Some id up to the number of blocks is not taken.                         *)
LEMMA NewIdNat ==
    ASSUME IsFiniteSet(blocks)
    PROVE  NewId \in Nat
<1> DEFINE n == Cardinality(blocks)
           T == {k.id : k \in blocks}
           f == [k \in blocks |-> k.id]
<1>1. n \in Nat
  BY FS_CardinalityType
<1>2. f \in Surjection(blocks, T)
  BY DEF Surjection
<1>3. IsFiniteSet(T) /\ Cardinality(T) <= n
  BY <1>2, FS_Surjection
<1>4. Cardinality(T) \in Nat
  BY <1>3, FS_CardinalityType
<1>5. IsFiniteSet(0 .. n) /\ Cardinality(0 .. n) = n + 1
  BY <1>1, FS_Interval
<1>6. ~(0 .. n \subseteq T)
  <2>1. ASSUME 0 .. n \subseteq T PROVE FALSE
    <3>1. Cardinality(0 .. n) <= Cardinality(T)
      BY <1>3, <2>1, FS_Subset
    <3> QED
      BY <1>1, <1>3, <1>4, <1>5, <3>1
  <2> QED
    BY <2>1
<1>7. \E i \in 0 .. n : \A k \in blocks : k.id # i
  BY <1>6
<1>8. NewId \in 0 .. n
  BY <1>7 DEF NewId
<1> QED
  BY <1>1, <1>8

LEMMA NewBlockType ==
    ASSUME IInv, NEW b \in Bookings, NEW r \in {"hold", "booked"},
           NEW o \in Bookings \cup {None}
    PROVE  /\ NewBlock(b, r, o) \in Block
           /\ NewBlock(b, r, o).reason = r /\ NewBlock(b, r, o).of = o
           /\ NewBlock(b, r, o).stay = ask[b].stay
<1>1. NewId \in Nat
  BY NewIdNat DEF IInv, HoldsMatch
<1>2. ask[b] \in Request
  BY RoomAssumption DEF IInv, TypeOK
<1> QED
  BY <1>1, <1>2 DEF NewBlock, Block, Request

-----------------------------------------------------------------------------
(* Rooms.                                                                   *)

(* A call that ends gives up its rooms; no other step but AssignRooms puts  *)
(* a guest in one.                                                          *)
LEMMA RoomsLeft ==
    ASSUME IInv, NEW p \in Procs, Return(p),
           \A x \in assigned' : x.status = "checked_in" => x \in assigned
    PROVE  RoomsReady' /\ RoomExclusive'
  BY DEF IInv, TypeOK, Return, RoomsReady, RoomExclusive

LEMMA RoomsRest ==
    ASSUME IInv, UNCHANGED <<assigned, candidates, chosen>>,
           \A q \in Procs : pc'[q] = "assigning" => pc[q] = "assigning" /\ seen'[q] = seen[q]
    PROVE  RoomsReady' /\ RoomExclusive'
  BY DEF IInv, TypeOK, RoomsReady, RoomExclusive

-----------------------------------------------------------------------------
(* Each action preserves the invariant.                                     *)

LEMMA AbortKeeps ==
    ASSUME IInv, NEW p \in Procs, Abort(p)
    PROVE  IInv'
<1>1. TypeOK'
  BY RoomAssumption DEF Abort, Return, Unlock, tables, rows, IInv, TypeOK, CallsMatch,
     CallMatches, Deciding, Releasing, OnActive, Creating, Steps, Decisions, Waiting,
     Active, Ended, Statuses
<1>2. DatesKept' /\ HoldsMatch'
  BY RoomAssumption DEF Abort, Return, Unlock, tables, rows, IInv, TypeOK, DatesKept,
     HoldsMatch, CallsMatch, CallMatches, Deciding, Releasing, OnActive, Creating,
     Steps, Decisions, Waiting, Active, Ended, Statuses
<1>3. CallsMatch'
  BY RoomAssumption DEF Abort, Return, Unlock, tables, rows, IInv, TypeOK, DatesKept,
     HoldsMatch, CallsMatch, CallMatches, IsHoldOf, Deciding, Releasing, OnActive,
     Creating, Steps, Decisions, Waiting, Active, Ended, Statuses
<1>4. RoomsReady' /\ RoomExclusive'
  BY RoomsLeft DEF Abort, Return, Unlock, tables, rows, IInv, TypeOK
<1> QED
  BY <1>1, <1>2, <1>3, <1>4 DEF IInv

LEMMA CreateHoldKeeps ==
    ASSUME IInv, NEW p \in Procs, NEW b \in Bookings, CreateHold(p, b)
    PROVE  IInv'
<1>1. TypeOK'
  BY RoomAssumption DEF CreateHold, Begin, tables, rows, IInv, TypeOK, CallsMatch,
     CallMatches, Deciding, Releasing, OnActive, Creating, Steps, Decisions, Waiting,
     Active, Ended, Statuses
<1>2. DatesKept' /\ HoldsMatch'
  BY RoomAssumption DEF CreateHold, Begin, tables, rows, IInv, TypeOK, DatesKept,
     HoldsMatch, CallsMatch, CallMatches, Deciding, Releasing, OnActive, Creating,
     Steps, Decisions, Waiting, Active, Ended, Statuses
<1>3. CallsMatch'
  BY RoomAssumption DEF CreateHold, Begin, tables, rows, IInv, TypeOK, DatesKept,
     HoldsMatch, CallsMatch, CallMatches, IsHoldOf, Deciding, Releasing, OnActive,
     Creating, Steps, Decisions, Waiting, Active, Ended, Statuses
<1>4. RoomsReady' /\ RoomExclusive'
  BY RoomsRest DEF CreateHold, Begin, tables, rows, IInv, TypeOK
<1> QED
  BY <1>1, <1>2, <1>3, <1>4 DEF IInv

LEMMA HoldLeftKeeps ==
    ASSUME IInv, NEW p \in Procs, HoldLeft(p)
    PROVE  IInv'
<1>0. on[p] \in Bookings /\ ask[on[p]] \in Request
  BY RoomAssumption DEF HoldLeft, IInv, TypeOK
<1> DEFINE new == NewBlock(on[p], "hold", None)
<1>a. new \in Block /\ new.reason = "hold" /\ new.of = None
      /\ new.stay = ask[on[p]].stay
  BY <1>0, NewBlockType
<1> HIDE DEF new
<1>b. blocks' = blocks \cup {new} /\ IsFiniteSet(blocks')
  BY FS_AddElement DEF HoldLeft, new, IInv, HoldsMatch
<1>1. TypeOK'
  BY <1>a, <1>b, RoomAssumption DEF HoldLeft, Return, rows, IInv, TypeOK, CallsMatch,
     CallMatches, Deciding, Releasing, OnActive, Creating, Steps, Decisions, Waiting,
     Active, Ended, Statuses
<1>2. DatesKept' /\ HoldsMatch'
  BY <1>a, <1>b, RoomAssumption DEF HoldLeft, Return, rows, IInv, TypeOK, DatesKept,
     HoldsMatch, CallsMatch, CallMatches, Deciding, Releasing, OnActive, Creating,
     Steps, Decisions, Waiting, Active, Ended, Statuses
<1>3. CallsMatch'
  BY <1>a, <1>b, RoomAssumption DEF HoldLeft, Return, rows, IInv, TypeOK, DatesKept,
     HoldsMatch, CallsMatch, CallMatches, IsHoldOf, Deciding, Releasing, OnActive,
     Creating, Steps, Decisions, Waiting, Active, Ended, Statuses
<1>4. RoomsReady' /\ RoomExclusive'
  BY RoomsLeft DEF HoldLeft, Return, rows, IInv, TypeOK
<1> QED
  BY <1>1, <1>2, <1>3, <1>4 DEF IInv

(* Its own hold and those of nobody for these dates become "booked".        *)
LEMMA ConvertHoldKeeps ==
    ASSUME IInv, NEW p \in Procs, ConvertHold(p)
    PROVE  IInv'
<1> DEFINE b == on[p]
           found == {k \in blocks : k.reason = "hold" /\ k.of = None /\ k.stay = stay[b]}
           Converted(k) == [k EXCEPT !.reason = "booked", !.of = b]
           made == {Converted(k) : k \in found}
           new == NewBlock(b, "booked", b)
<1>1. /\ pc[p] = "held" /\ status[b] = "none" /\ Return(p)
      /\ status' = [status EXCEPT ![b] = Pending(b)]
      /\ blocks' = (blocks \ found) \cup {new} \cup made
      /\ UNCHANGED <<ask, stay, arrived, departed, free, assigned, main, lock, loose>>
  BY Zenon DEF ConvertHold
<1>2. b \in Bookings /\ Pending(b) \in Waiting
  <2>1. pc[p] = "held"
    BY <1>1
  <2>2. b \in Bookings
    BY <2>1 DEF IInv, TypeOK
  <2>3. Pending(b) \in Waiting
    BY DEF Pending, Waiting
  <2> QED
    BY <2>2, <2>3
<1>3. new \in Block /\ new.reason = "booked" /\ new.of = b
  BY <1>2, NewBlockType
<1>4. ASSUME NEW k \in found
      PROVE  Converted(k) \in Block /\ Converted(k).reason = "booked"
  <2>1. k \in Block
    BY DEF IInv, TypeOK
  <2> QED
    BY <1>2, <2>1 DEF Block
<1>5. IsFiniteSet(blocks')
  <2>1. IsFiniteSet(found) /\ IsFiniteSet((blocks \ found) \cup {new})
    BY FS_Subset, FS_AddElement, FS_Difference DEF IInv, HoldsMatch
  <2>2. [k \in found |-> Converted(k)] \in Surjection(found, made)
    BY DEF Surjection
  <2>3. IsFiniteSet(made)
    BY <2>1, <2>2, FS_Surjection
  <2> QED
    BY <1>1, <2>1, <2>3, FS_Union
<1>6. blocks' \subseteq Block /\ \A k \in blocks' : k.reason = "hold" => k \in blocks
  <2>1. blocks \subseteq Block
    BY DEF IInv, TypeOK
  <2>2. \A k \in made : k \in Block /\ k.reason = "booked"
    BY <1>4
  <2> HIDE DEF found, made, new, Converted
  <2> QED
    BY <1>1, <1>3, <2>1, <2>2
<1> HIDE DEF found, made, new, Converted
<1>7. TypeOK'
  BY <1>1, <1>2, <1>6 DEF Return, IInv, TypeOK, Steps, Waiting, Statuses
<1>8. DatesKept' /\ HoldsMatch'
  BY <1>1, <1>2, <1>5, <1>6, RoomAssumption
     DEF Return, IInv, TypeOK, DatesKept, HoldsMatch, Waiting, Block
<1>9. CallsMatch'
  BY <1>1, <1>2, <1>6
     DEF Return, IInv, TypeOK, CallsMatch, CallMatches, IsHoldOf, Deciding, Releasing,
         OnActive, Creating, Waiting
<1>10. RoomsReady' /\ RoomExclusive'
  BY <1>1, RoomsLeft
<1> QED
  BY <1>7, <1>8, <1>9, <1>10 DEF IInv

LEMMA CheckUnitsKeeps ==
    ASSUME IInv, NEW p \in Procs, NEW b \in Bookings, CheckUnits(p, b)
    PROVE  IInv'
<1>1. TypeOK'
  BY RoomAssumption DEF CheckUnits, Begin, tables, rows, IInv, TypeOK, CallsMatch,
     CallMatches, Deciding, Releasing, OnActive, Creating, Steps, Decisions, Waiting,
     Active, Ended, Statuses
<1>2. DatesKept' /\ HoldsMatch'
  BY RoomAssumption DEF CheckUnits, Begin, tables, rows, IInv, TypeOK, DatesKept,
     HoldsMatch, CallsMatch, CallMatches, Deciding, Releasing, OnActive, Creating,
     Steps, Decisions, Waiting, Active, Ended, Statuses
<1>3. CallsMatch'
  BY RoomAssumption DEF CheckUnits, Begin, tables, rows, IInv, TypeOK, DatesKept,
     HoldsMatch, CallsMatch, CallMatches, IsHoldOf, Deciding, Releasing, OnActive,
     Creating, Steps, Decisions, Waiting, Active, Ended, Statuses
<1>4. RoomsReady' /\ RoomExclusive'
  BY RoomsRest DEF CheckUnits, Begin, tables, rows, IInv, TypeOK
<1> QED
  BY <1>1, <1>2, <1>3, <1>4 DEF IInv

LEMMA CheckAgainKeeps ==
    ASSUME IInv, NEW p \in Procs, CheckAgain(p)
    PROVE  IInv'
<1>1. TypeOK'
  BY RoomAssumption DEF CheckAgain, Goto, tables, rows, IInv, TypeOK, CallsMatch,
     CallMatches, Deciding, Releasing, OnActive, Creating, Steps, Decisions, Waiting,
     Active, Ended, Statuses
<1>2. DatesKept' /\ HoldsMatch'
  BY RoomAssumption DEF CheckAgain, Goto, tables, rows, IInv, TypeOK, DatesKept,
     HoldsMatch, CallsMatch, CallMatches, Deciding, Releasing, OnActive, Creating,
     Steps, Decisions, Waiting, Active, Ended, Statuses
<1>3. CallsMatch'
  BY RoomAssumption DEF CheckAgain, Goto, tables, rows, IInv, TypeOK, DatesKept,
     HoldsMatch, CallsMatch, CallMatches, IsHoldOf, Deciding, Releasing, OnActive,
     Creating, Steps, Decisions, Waiting, Active, Ended, Statuses
<1>4. RoomsReady' /\ RoomExclusive'
  BY RoomsRest DEF CheckAgain, Goto, tables, rows, IInv, TypeOK
<1> QED
  BY <1>1, <1>2, <1>3, <1>4 DEF IInv

LEMMA BlockUnitsKeeps ==
    ASSUME IInv, NEW p \in Procs, BlockUnits(p)
    PROVE  IInv'
<1>0. on[p] \in Bookings /\ ask[on[p]] \in Request
  BY RoomAssumption DEF BlockUnits, IInv, TypeOK
<1> DEFINE new == NewBlock(on[p], "hold", on[p])
<1>a. new \in Block /\ new.reason = "hold" /\ new.of = on[p]
      /\ new.stay = ask[on[p]].stay
  BY <1>0, NewBlockType
<1> HIDE DEF new
<1>b. blocks' = blocks \cup {new} /\ IsFiniteSet(blocks')
  BY FS_AddElement DEF BlockUnits, new, IInv, HoldsMatch
<1>1. TypeOK'
  BY <1>0, <1>a, <1>b, RoomAssumption DEF BlockUnits, Goto, Unlock, IInv, TypeOK,
     CallsMatch, CallMatches, Deciding, Releasing, OnActive, Creating, Steps,
     Decisions, Waiting, Active, Ended, Statuses
<1>2. DatesKept' /\ HoldsMatch'
  BY <1>0, <1>a, <1>b, RoomAssumption DEF BlockUnits, Goto, Unlock, IInv, TypeOK,
     DatesKept, HoldsMatch, CallsMatch, CallMatches, Deciding, Releasing, OnActive,
     Creating, Steps, Decisions, Waiting, Active, Ended, Statuses
<1>3. CallsMatch'
  BY <1>0, <1>a, <1>b, RoomAssumption DEF BlockUnits, Goto, Unlock, IInv, TypeOK,
     DatesKept, HoldsMatch, CallsMatch, CallMatches, IsHoldOf, Deciding, Releasing,
     OnActive, Creating, Steps, Decisions, Waiting, Active, Ended, Statuses
<1>4. RoomsReady' /\ RoomExclusive'
  BY RoomsRest DEF BlockUnits, Goto, Unlock, IInv, TypeOK
<1> QED
  BY <1>1, <1>2, <1>3, <1>4 DEF IInv

LEMMA BlockRefusedKeeps ==
    ASSUME IInv, NEW p \in Procs, BlockRefused(p)
    PROVE  IInv'
<1>0. on[p] \in Bookings
  BY DEF BlockRefused, IInv, TypeOK
<1>1. TypeOK'
  BY <1>0, RoomAssumption DEF BlockRefused, Return, Unlock, Pending, IInv, TypeOK,
     CallsMatch, CallMatches, Deciding, Releasing, OnActive, Creating, Steps,
     Decisions, Waiting, Active, Ended, Statuses
<1>2. DatesKept' /\ HoldsMatch'
  BY <1>0, RoomAssumption DEF BlockRefused, Return, Unlock, Pending, IInv, TypeOK,
     DatesKept, HoldsMatch, CallsMatch, CallMatches, Deciding, Releasing, OnActive,
     Creating, Steps, Decisions, Waiting, Active, Ended, Statuses
<1>3. CallsMatch'
  BY <1>0, RoomAssumption DEF BlockRefused, Return, Unlock, Pending, IInv, TypeOK,
     DatesKept, HoldsMatch, CallsMatch, CallMatches, IsHoldOf, Deciding, Releasing,
     OnActive, Creating, Steps, Decisions, Waiting, Active, Ended, Statuses
<1>4. RoomsReady' /\ RoomExclusive'
  BY RoomsLeft DEF BlockRefused, Return, Unlock, Pending, IInv, TypeOK
<1> QED
  BY <1>1, <1>2, <1>3, <1>4 DEF IInv

LEMMA LeaveDraftKeeps ==
    ASSUME IInv, NEW p \in Procs, LeaveDraft(p)
    PROVE  IInv'
<1>0. on[p] \in Bookings
  BY DEF LeaveDraft, IInv, TypeOK
<1>1. TypeOK'
  BY <1>0, RoomAssumption DEF LeaveDraft, Return, Pending, IInv, TypeOK, CallsMatch,
     CallMatches, Deciding, Releasing, OnActive, Creating, Steps, Decisions, Waiting,
     Active, Ended, Statuses
<1>2. DatesKept' /\ HoldsMatch'
  BY <1>0, RoomAssumption DEF LeaveDraft, Return, Pending, IInv, TypeOK, DatesKept,
     HoldsMatch, CallsMatch, CallMatches, Deciding, Releasing, OnActive, Creating,
     Steps, Decisions, Waiting, Active, Ended, Statuses
<1>3. CallsMatch'
  BY <1>0, RoomAssumption DEF LeaveDraft, Return, Pending, IInv, TypeOK, DatesKept,
     HoldsMatch, CallsMatch, CallMatches, IsHoldOf, Deciding, Releasing, OnActive,
     Creating, Steps, Decisions, Waiting, Active, Ended, Statuses
<1>4. RoomsReady' /\ RoomExclusive'
  BY RoomsLeft DEF LeaveDraft, Return, Pending, IInv, TypeOK
<1> QED
  BY <1>1, <1>2, <1>3, <1>4 DEF IInv

LEMMA LoadKeeps ==
    ASSUME IInv, NEW p \in Procs, NEW b \in Bookings, NEW d \in Decisions, Load(p, b, d)
    PROVE  IInv'
<1>1. TypeOK'
  BY RoomAssumption DEF Load, Begin, Demands, Cancellable, Session, tables, rows,
     IInv, TypeOK, CallsMatch, CallMatches, Deciding, Releasing, OnActive, Creating,
     Steps, Decisions, Waiting, Active, Ended, Statuses
<1>2. DatesKept' /\ HoldsMatch'
  BY RoomAssumption DEF Load, Begin, Demands, Cancellable, Session, tables, rows,
     IInv, TypeOK, DatesKept, HoldsMatch, CallsMatch, CallMatches, Deciding,
     Releasing, OnActive, Creating, Steps, Decisions, Waiting, Active, Ended, Statuses
<1>3. CallsMatch'
  BY RoomAssumption DEF Load, Begin, Demands, Cancellable, Session, tables, rows,
     IInv, TypeOK, DatesKept, HoldsMatch, CallsMatch, CallMatches, IsHoldOf, Deciding,
     Releasing, OnActive, Creating, Steps, Decisions, Waiting, Active, Ended, Statuses
<1>4. RoomsReady' /\ RoomExclusive'
  BY RoomsRest DEF Load, Begin, Demands, Cancellable, Session, tables, rows, IInv,
     TypeOK, Decisions
<1> QED
  BY <1>1, <1>2, <1>3, <1>4 DEF IInv

LEMMA ApproveKeeps ==
    ASSUME IInv, NEW p \in Procs, Approve(p)
    PROVE  IInv'
<1>0. on[p] \in Bookings
  BY DEF Approve, IInv, TypeOK
<1>a. IsFiniteSet(blocks')
  BY FS_Difference DEF Approve, IInv, HoldsMatch
<1>b. blocks' \subseteq blocks
  BY DEF Approve
<1>c. \A k \in blocks' : ~IsHoldOf(k, on[p])
  BY <1>0, RoomAssumption DEF Approve, Own, IsHoldOf, IInv, TypeOK, HoldsMatch, CallsMatch,
     CallMatches, Deciding, OnActive
<1>1. TypeOK'
  BY <1>0, <1>b, RoomAssumption DEF Approve, Return, NowActive, IInv, TypeOK,
     CallsMatch, CallMatches, Deciding, Releasing, OnActive, Creating, Steps,
     Decisions, Waiting, Active, Ended, Statuses
<1>2. DatesKept' /\ HoldsMatch'
  BY <1>0, <1>a, <1>b, <1>c, RoomAssumption DEF Approve, Return, NowActive, IInv,
     TypeOK, IsHoldOf, DatesKept, HoldsMatch, CallsMatch, CallMatches, Deciding,
     Releasing, OnActive, Creating, Steps, Decisions, Waiting, Active, Ended, Statuses
<1>3. CallsMatch'
  BY <1>0, <1>b, RoomAssumption DEF Approve, Return, NowActive, IInv, TypeOK,
     DatesKept, HoldsMatch, CallsMatch, CallMatches, IsHoldOf, Deciding, Releasing,
     OnActive, Creating, Steps, Decisions, Waiting, Active, Ended, Statuses
<1>4. RoomsReady' /\ RoomExclusive'
  BY RoomsLeft DEF Approve, Return, NowActive, IInv, TypeOK
<1> QED
  BY <1>1, <1>2, <1>3, <1>4 DEF IInv

LEMMA ReleaseBlocksKeeps ==
    ASSUME IInv, NEW p \in Procs, ReleaseBlocks(p)
    PROVE  IInv'
<1>0. on[p] \in Bookings
  BY DEF ReleaseBlocks, IInv, TypeOK
<1>a. IsFiniteSet(blocks')
  BY FS_Difference DEF ReleaseBlocks, IInv, HoldsMatch
<1>b. blocks' \subseteq blocks
  BY DEF ReleaseBlocks
<1>c. \A k \in blocks' : ~IsHoldOf(k, on[p])
  BY <1>0, RoomAssumption DEF ReleaseBlocks, Own, IsHoldOf, IInv, TypeOK, HoldsMatch, CallsMatch,
     CallMatches, Deciding, OnActive
<1>1. TypeOK'
  BY <1>0, <1>b, RoomAssumption DEF ReleaseBlocks, Goto, rows, IInv, TypeOK,
     CallsMatch, CallMatches, Deciding, Releasing, OnActive, Creating, Steps,
     Decisions, Waiting, Active, Ended, Statuses
<1>2. DatesKept' /\ HoldsMatch'
  BY <1>0, <1>a, <1>b, RoomAssumption DEF ReleaseBlocks, Goto, rows, IInv, TypeOK,
     DatesKept, HoldsMatch, CallsMatch, CallMatches, Deciding, Releasing, OnActive,
     Creating, Steps, Decisions, Waiting, Active, Ended, Statuses
<1>3. CallsMatch'
  BY <1>0, <1>b, <1>c, RoomAssumption DEF ReleaseBlocks, Goto, rows, IInv, TypeOK,
     DatesKept, HoldsMatch, CallsMatch, CallMatches, IsHoldOf, Deciding, Releasing,
     OnActive, Creating, Steps, Decisions, Waiting, Active, Ended, Statuses
<1>4. RoomsReady' /\ RoomExclusive'
  BY RoomsRest DEF ReleaseBlocks, Goto, rows, IInv, TypeOK
<1> QED
  BY <1>1, <1>2, <1>3, <1>4 DEF IInv

LEMMA CheckTransitionKeeps ==
    ASSUME IInv, NEW p \in Procs, CheckTransition(p)
    PROVE  IInv'
<1>1. TypeOK'
  BY RoomAssumption DEF CheckTransition, Goto, tables, rows, IInv, TypeOK, CallsMatch,
     CallMatches, Deciding, Releasing, OnActive, Creating, Steps, Decisions, Waiting,
     Active, Ended, Statuses
<1>2. DatesKept' /\ HoldsMatch'
  BY RoomAssumption DEF CheckTransition, Goto, tables, rows, IInv, TypeOK, DatesKept,
     HoldsMatch, CallsMatch, CallMatches, Deciding, Releasing, OnActive, Creating,
     Steps, Decisions, Waiting, Active, Ended, Statuses
<1>3. CallsMatch'
  BY RoomAssumption DEF CheckTransition, Goto, tables, rows, IInv, TypeOK, DatesKept,
     HoldsMatch, CallsMatch, CallMatches, IsHoldOf, Deciding, Releasing, OnActive,
     Creating, Steps, Decisions, Waiting, Active, Ended, Statuses
<1>4. RoomsReady' /\ RoomExclusive'
  BY RoomsRest DEF CheckTransition, Goto, tables, rows, IInv, TypeOK
<1> QED
  BY <1>1, <1>2, <1>3, <1>4 DEF IInv

LEMMA CloseKeeps ==
    ASSUME IInv, NEW p \in Procs, Close(p)
    PROVE  IInv'
<1>0. on[p] \in Bookings
  BY DEF Close, SetStatus, IInv, TypeOK
<1>1. TypeOK'
  BY <1>0, RoomAssumption DEF Close, SetStatus, Return, IInv, TypeOK, CallsMatch,
     CallMatches, Deciding, Releasing, OnActive, Creating, Steps, Decisions, Waiting,
     Active, Ended, Statuses
<1>2. DatesKept' /\ HoldsMatch'
  BY <1>0, RoomAssumption DEF Close, SetStatus, Return, IInv, TypeOK, IsHoldOf,
     DatesKept, HoldsMatch, CallsMatch, CallMatches, Deciding, Releasing, OnActive,
     Creating, Steps, Decisions, Waiting, Active, Ended, Statuses
<1>3. CallsMatch'
  BY <1>0, RoomAssumption DEF Close, SetStatus, Return, IInv, TypeOK, DatesKept,
     HoldsMatch, CallsMatch, CallMatches, IsHoldOf, Deciding, Releasing, OnActive,
     Creating, Steps, Decisions, Waiting, Active, Ended, Statuses
<1>4. RoomsReady' /\ RoomExclusive'
  BY RoomsLeft DEF Close, SetStatus, Return, IInv, TypeOK
<1> QED
  BY <1>1, <1>2, <1>3, <1>4 DEF IInv

LEMMA ExpireKeeps ==
    ASSUME IInv, NEW p \in Procs, Expire(p)
    PROVE  IInv'
<1>0. on[p] \in Bookings
  BY DEF Expire, SetStatus, IInv, TypeOK
<1>1. TypeOK'
  BY <1>0, RoomAssumption DEF Expire, SetStatus, Return, IInv, TypeOK, CallsMatch,
     CallMatches, Deciding, Releasing, OnActive, Creating, Steps, Decisions, Waiting,
     Active, Ended, Statuses
<1>2. DatesKept' /\ HoldsMatch'
  BY <1>0, RoomAssumption DEF Expire, SetStatus, Return, IInv, TypeOK, IsHoldOf,
     DatesKept, HoldsMatch, CallsMatch, CallMatches, Deciding, Releasing, OnActive,
     Creating, Steps, Decisions, Waiting, Active, Ended, Statuses
<1>3. CallsMatch'
  BY <1>0, RoomAssumption DEF Expire, SetStatus, Return, IInv, TypeOK, DatesKept,
     HoldsMatch, CallsMatch, CallMatches, IsHoldOf, Deciding, Releasing, OnActive,
     Creating, Steps, Decisions, Waiting, Active, Ended, Statuses
<1>4. RoomsReady' /\ RoomExclusive'
  BY RoomsLeft DEF Expire, SetStatus, Return, IInv, TypeOK
<1> QED
  BY <1>1, <1>2, <1>3, <1>4 DEF IInv

LEMMA NoShowKeeps ==
    ASSUME IInv, NEW p \in Procs, NoShow(p)
    PROVE  IInv'
<1>0. on[p] \in Bookings
  BY DEF NoShow, SetStatus, IInv, TypeOK
<1>1. TypeOK'
  BY <1>0, RoomAssumption DEF NoShow, SetStatus, Return, IInv, TypeOK, CallsMatch,
     CallMatches, Deciding, Releasing, OnActive, Creating, Steps, Decisions, Waiting,
     Active, Ended, Statuses
<1>2. DatesKept' /\ HoldsMatch'
  BY <1>0, RoomAssumption DEF NoShow, SetStatus, Return, IInv, TypeOK, IsHoldOf,
     DatesKept, HoldsMatch, CallsMatch, CallMatches, Deciding, Releasing, OnActive,
     Creating, Steps, Decisions, Waiting, Active, Ended, Statuses
<1>3. CallsMatch'
  BY <1>0, RoomAssumption DEF NoShow, SetStatus, Return, IInv, TypeOK, DatesKept,
     HoldsMatch, CallsMatch, CallMatches, IsHoldOf, Deciding, Releasing, OnActive,
     Creating, Steps, Decisions, Waiting, Active, Ended, Statuses
<1>4. RoomsReady' /\ RoomExclusive'
  BY RoomsLeft DEF NoShow, SetStatus, Return, IInv, TypeOK
<1> QED
  BY <1>1, <1>2, <1>3, <1>4 DEF IInv

LEMMA MoveKeeps ==
    ASSUME IInv, NEW p \in Procs, NEW s \in Stays, Move(p, s)
    PROVE  IInv'
<1>0. on[p] \in Bookings
  BY DEF Move, IInv, TypeOK
<1>a. IsFiniteSet(blocks')
  BY FS_Difference DEF Move, IInv, HoldsMatch
<1>b. blocks' \subseteq blocks
  BY DEF Move
<1>1. TypeOK'
  BY <1>0, <1>b, RoomAssumption DEF Move, Goto, rows, IInv, TypeOK, CallsMatch,
     CallMatches, Deciding, Releasing, OnActive, Creating, Steps, Decisions, Waiting,
     Active, Ended, Statuses
<1>2. DatesKept' /\ HoldsMatch'
  BY <1>0, <1>a, <1>b, RoomAssumption DEF Move, Goto, rows, IInv, TypeOK, DatesKept,
     HoldsMatch, CallsMatch, CallMatches, Deciding, Releasing, OnActive, Creating,
     Steps, Decisions, Waiting, Active, Ended, Statuses
<1>3. CallsMatch'
  BY <1>0, <1>b, RoomAssumption DEF Move, Goto, rows, IInv, TypeOK, DatesKept,
     HoldsMatch, CallsMatch, CallMatches, IsHoldOf, Deciding, Releasing, OnActive,
     Creating, Steps, Decisions, Waiting, Active, Ended, Statuses
<1>4. RoomsReady' /\ RoomExclusive'
  BY RoomsRest DEF Move, Goto, rows, IInv, TypeOK
<1> QED
  BY <1>1, <1>2, <1>3, <1>4 DEF IInv

LEMMA SetDatesKeeps ==
    ASSUME IInv, NEW p \in Procs, SetDates(p)
    PROVE  IInv'
<1>0. on[p] \in Bookings
  BY DEF SetDates, IInv, TypeOK
<1>1. TypeOK'
  BY <1>0, RoomAssumption DEF SetDates, Return, IInv, TypeOK, CallsMatch, CallMatches,
     Deciding, Releasing, OnActive, Creating, Steps, Decisions, Waiting, Active,
     Ended, Statuses
<1>2. DatesKept' /\ HoldsMatch'
  BY <1>0, RoomAssumption DEF SetDates, Return, IInv, TypeOK, DatesKept, HoldsMatch,
     CallsMatch, CallMatches, Deciding, Releasing, OnActive, Creating, Steps,
     Decisions, Waiting, Active, Ended, Statuses
<1>3. CallsMatch'
  BY <1>0, RoomAssumption DEF SetDates, Return, IInv, TypeOK, DatesKept, HoldsMatch,
     CallsMatch, CallMatches, IsHoldOf, Deciding, Releasing, OnActive, Creating,
     Steps, Decisions, Waiting, Active, Ended, Statuses
<1>4. RoomsReady' /\ RoomExclusive'
  BY RoomsLeft DEF SetDates, Return, IInv, TypeOK
<1> QED
  BY <1>1, <1>2, <1>3, <1>4 DEF IInv

LEMMA FindNoneKeeps ==
    ASSUME IInv, NEW p \in Procs, FindNone(p)
    PROVE  IInv'
<1>1. TypeOK'
  BY RoomAssumption DEF FindNone, Goto, tables, rows, IInv, TypeOK, CallsMatch,
     CallMatches, Deciding, Releasing, OnActive, Creating, Steps, Decisions, Waiting,
     Active, Ended, Statuses
<1>2. DatesKept' /\ HoldsMatch'
  BY RoomAssumption DEF FindNone, Goto, tables, rows, IInv, TypeOK, DatesKept,
     HoldsMatch, CallsMatch, CallMatches, Deciding, Releasing, OnActive, Creating,
     Steps, Decisions, Waiting, Active, Ended, Statuses
<1>3. CallsMatch'
  BY RoomAssumption DEF FindNone, Goto, tables, rows, IInv, TypeOK, DatesKept,
     HoldsMatch, CallsMatch, CallMatches, IsHoldOf, Deciding, Releasing, OnActive,
     Creating, Steps, Decisions, Waiting, Active, Ended, Statuses
<1>4. RoomsReady' /\ RoomExclusive'
  BY RoomsRest DEF FindNone, Goto, tables, rows, IInv, TypeOK
<1> QED
  BY <1>1, <1>2, <1>3, <1>4 DEF IInv

LEMMA LockRoomsKeeps ==
    ASSUME IInv, NEW p \in Procs, LockRooms(p)
    PROVE  IInv'
<1>1. TypeOK'
  BY RoomAssumption DEF LockRooms, Goto, RoomLocked, tables, rows, IInv, TypeOK,
     CallsMatch, CallMatches, Deciding, Releasing, OnActive, Creating, Steps,
     Decisions, Waiting, Active, Ended, Statuses
<1>2. DatesKept' /\ HoldsMatch'
  BY RoomAssumption DEF LockRooms, Goto, RoomLocked, tables, rows, IInv, TypeOK,
     DatesKept, HoldsMatch, CallsMatch, CallMatches, Deciding, Releasing, OnActive,
     Creating, Steps, Decisions, Waiting, Active, Ended, Statuses
<1>3. CallsMatch'
  BY RoomAssumption DEF LockRooms, Goto, RoomLocked, tables, rows, IInv, TypeOK,
     DatesKept, HoldsMatch, CallsMatch, CallMatches, IsHoldOf, Deciding, Releasing,
     OnActive, Creating, Steps, Decisions, Waiting, Active, Ended, Statuses
<1>4. RoomsReady' /\ RoomExclusive'
  BY RoomAssumption DEF LockRooms, Goto, RoomLocked, tables, rows, IInv, TypeOK,
     RoomsReady, RoomExclusive
<1> QED
  BY <1>1, <1>2, <1>3, <1>4 DEF IInv

LEMMA ChooseRoomsKeeps ==
    ASSUME IInv, NEW p \in Procs, ChooseRooms(p)
    PROVE  IInv'
<1>1. TypeOK'
  BY RoomAssumption DEF ChooseRooms, Goto, kSubset, tables, rows, IInv, TypeOK,
     CallsMatch, CallMatches, Deciding, Releasing, OnActive, Creating, Steps,
     Decisions, Waiting, Active, Ended, Statuses
<1>2. DatesKept' /\ HoldsMatch'
  BY RoomAssumption DEF ChooseRooms, Goto, kSubset, tables, rows, IInv, TypeOK,
     DatesKept, HoldsMatch, CallsMatch, CallMatches, Deciding, Releasing, OnActive,
     Creating, Steps, Decisions, Waiting, Active, Ended, Statuses
<1>3. CallsMatch'
  BY RoomAssumption DEF ChooseRooms, Goto, kSubset, tables, rows, IInv, TypeOK,
     DatesKept, HoldsMatch, CallsMatch, CallMatches, IsHoldOf, Deciding, Releasing,
     OnActive, Creating, Steps, Decisions, Waiting, Active, Ended, Statuses
<1>4. RoomsReady' /\ RoomExclusive'
  BY RoomAssumption DEF ChooseRooms, Goto, kSubset, tables, rows, IInv, TypeOK,
     RoomsReady, RoomExclusive
<1> QED
  BY <1>1, <1>2, <1>3, <1>4 DEF IInv

(* The chosen rooms are empty, and locked against the others.               *)
LEMMA AssignRoomsKeeps ==
    ASSUME IInv, NEW p \in Procs, AssignRooms(p)
    PROVE  IInv'
<1>0. on[p] \in Bookings
  BY DEF AssignRooms, IInv, TypeOK
<1>a. chosen[p] \subseteq Rooms
  BY DEF IInv, TypeOK
<1> DEFINE rowsOf == {[room |-> r, of |-> on[p], status |-> "checked_in"] : r \in chosen[p]}
<1>b. assigned' = assigned \cup rowsOf
  BY DEF AssignRooms
<1>c. \A x \in rowsOf : x \in RoomBooking /\ x.room \in chosen[p]
  BY <1>0, <1>a DEF RoomBooking
<1>d. \A x, y \in rowsOf : x.room = y.room => x = y
  OBVIOUS
<1> HIDE DEF rowsOf
<1>1. TypeOK'
  BY <1>0, <1>a, <1>b, <1>c, RoomAssumption DEF AssignRooms, Arrive, NowActive,
     Return, IInv, TypeOK, CallsMatch, CallMatches, Deciding, Releasing, OnActive,
     Creating, Steps, Decisions, Waiting, Active, Ended, Statuses
<1>2. DatesKept' /\ HoldsMatch'
  BY <1>0, RoomAssumption DEF AssignRooms, Arrive, NowActive, Return, IInv, TypeOK,
     DatesKept, HoldsMatch, CallsMatch, CallMatches, Deciding, Releasing, OnActive,
     Creating, Steps, Decisions, Waiting, Active, Ended, Statuses
<1>3. CallsMatch'
  BY <1>0, RoomAssumption DEF AssignRooms, Arrive, NowActive, Return, IInv, TypeOK,
     DatesKept, HoldsMatch, CallsMatch, CallMatches, IsHoldOf, Deciding, Releasing,
     OnActive, Creating, Steps, Decisions, Waiting, Active, Ended, Statuses
<1>4. RoomsReady' /\ RoomExclusive'
  BY <1>0, <1>b, <1>c, <1>d, RoomAssumption DEF AssignRooms, Arrive, NowActive,
     Return, IInv, TypeOK, RoomsReady, RoomExclusive
<1> QED
  BY <1>1, <1>2, <1>3, <1>4 DEF IInv

LEMMA KeepRoomsKeeps ==
    ASSUME IInv, NEW p \in Procs, KeepRooms(p)
    PROVE  IInv'
<1>0. on[p] \in Bookings
  BY DEF KeepRooms, IInv, TypeOK
<1>1. TypeOK'
  BY <1>0, RoomAssumption DEF KeepRooms, Arrive, NowActive, Return, IInv, TypeOK,
     CallsMatch, CallMatches, Deciding, Releasing, OnActive, Creating, Steps,
     Decisions, Waiting, Active, Ended, Statuses
<1>2. DatesKept' /\ HoldsMatch'
  BY <1>0, RoomAssumption DEF KeepRooms, Arrive, NowActive, Return, IInv, TypeOK,
     DatesKept, HoldsMatch, CallsMatch, CallMatches, Deciding, Releasing, OnActive,
     Creating, Steps, Decisions, Waiting, Active, Ended, Statuses
<1>3. CallsMatch'
  BY <1>0, RoomAssumption DEF KeepRooms, Arrive, NowActive, Return, IInv, TypeOK,
     DatesKept, HoldsMatch, CallsMatch, CallMatches, IsHoldOf, Deciding, Releasing,
     OnActive, Creating, Steps, Decisions, Waiting, Active, Ended, Statuses
<1>4. RoomsReady' /\ RoomExclusive'
  BY RoomsLeft DEF KeepRooms, Arrive, NowActive, Return, IInv, TypeOK
<1> QED
  BY <1>1, <1>2, <1>3, <1>4 DEF IInv

LEMMA SelfCheckInKeeps ==
    ASSUME IInv, NEW p \in Procs, SelfCheckIn(p)
    PROVE  IInv'
<1>0. on[p] \in Bookings
  BY DEF SelfCheckIn, IInv, TypeOK
<1>1. TypeOK'
  BY <1>0, RoomAssumption DEF SelfCheckIn, Arrive, NowActive, Return, IInv, TypeOK,
     CallsMatch, CallMatches, Deciding, Releasing, OnActive, Creating, Steps,
     Decisions, Waiting, Active, Ended, Statuses
<1>2. DatesKept' /\ HoldsMatch'
  BY <1>0, RoomAssumption DEF SelfCheckIn, Arrive, NowActive, Return, IInv, TypeOK,
     DatesKept, HoldsMatch, CallsMatch, CallMatches, Deciding, Releasing, OnActive,
     Creating, Steps, Decisions, Waiting, Active, Ended, Statuses
<1>3. CallsMatch'
  BY <1>0, RoomAssumption DEF SelfCheckIn, Arrive, NowActive, Return, IInv, TypeOK,
     DatesKept, HoldsMatch, CallsMatch, CallMatches, IsHoldOf, Deciding, Releasing,
     OnActive, Creating, Steps, Decisions, Waiting, Active, Ended, Statuses
<1>4. RoomsReady' /\ RoomExclusive'
  BY RoomsLeft DEF SelfCheckIn, Arrive, NowActive, Return, IInv, TypeOK
<1> QED
  BY <1>1, <1>2, <1>3, <1>4 DEF IInv

LEMMA CheckOutKeeps ==
    ASSUME IInv, NEW p \in Procs, CheckOut(p)
    PROVE  IInv'
<1>0. on[p] \in Bookings
  BY DEF CheckOut, IInv, TypeOK
<1>a. seen[p] \in Session
  BY DEF CheckOut, IInv, TypeOK, CallsMatch, CallMatches, OnActive
<1> DEFINE gone == Inside(on[p])
           left == {[x EXCEPT !.status = "checked_out"] : x \in gone}
<1>b. gone \subseteq assigned /\ assigned' = (assigned \ gone) \cup left
  BY DEF CheckOut, Inside
<1>c. \A x \in left : x \in RoomBooking /\ x.status = "checked_out"
  BY <1>b DEF RoomBooking, IInv, TypeOK
<1>d. free' \subseteq Rooms
  BY <1>a, <1>b DEF CheckOut, Session, RoomBooking, IInv, TypeOK
<1> HIDE DEF gone, left
<1>1. TypeOK'
  BY <1>0, <1>b, <1>c, <1>d, RoomAssumption DEF CheckOut, Leave, Return, IInv, TypeOK,
     CallsMatch, CallMatches, Deciding, Releasing, OnActive, Creating, Steps,
     Decisions, Waiting, Active, Ended, Statuses
<1>2. DatesKept' /\ HoldsMatch'
  BY <1>0, RoomAssumption DEF CheckOut, Leave, Return, IInv, TypeOK, DatesKept,
     HoldsMatch, CallsMatch, CallMatches, Deciding, Releasing, OnActive, Creating,
     Steps, Decisions, Waiting, Active, Ended, Statuses
<1>3. CallsMatch'
  BY <1>0, RoomAssumption DEF CheckOut, Leave, Return, IInv, TypeOK, DatesKept,
     HoldsMatch, CallsMatch, CallMatches, IsHoldOf, Deciding, Releasing, OnActive,
     Creating, Steps, Decisions, Waiting, Active, Ended, Statuses
<1>4. RoomsReady' /\ RoomExclusive'
  BY <1>b, <1>c, RoomsLeft DEF CheckOut, Leave, Return, IInv, TypeOK
<1> QED
  BY <1>1, <1>2, <1>3, <1>4 DEF IInv

LEMMA SelfCheckOutKeeps ==
    ASSUME IInv, NEW p \in Procs, SelfCheckOut(p)
    PROVE  IInv'
<1>0. on[p] \in Bookings
  BY DEF SelfCheckOut, IInv, TypeOK
<1>1. TypeOK'
  BY <1>0, RoomAssumption DEF SelfCheckOut, Leave, Return, IInv, TypeOK, CallsMatch,
     CallMatches, Deciding, Releasing, OnActive, Creating, Steps, Decisions, Waiting,
     Active, Ended, Statuses
<1>2. DatesKept' /\ HoldsMatch'
  BY <1>0, RoomAssumption DEF SelfCheckOut, Leave, Return, IInv, TypeOK, DatesKept,
     HoldsMatch, CallsMatch, CallMatches, Deciding, Releasing, OnActive, Creating,
     Steps, Decisions, Waiting, Active, Ended, Statuses
<1>3. CallsMatch'
  BY <1>0, RoomAssumption DEF SelfCheckOut, Leave, Return, IInv, TypeOK, DatesKept,
     HoldsMatch, CallsMatch, CallMatches, IsHoldOf, Deciding, Releasing, OnActive,
     Creating, Steps, Decisions, Waiting, Active, Ended, Statuses
<1>4. RoomsReady' /\ RoomExclusive'
  BY RoomsLeft DEF SelfCheckOut, Leave, Return, IInv, TypeOK
<1> QED
  BY <1>1, <1>2, <1>3, <1>4 DEF IInv

-----------------------------------------------------------------------------
(* The theorems.                                                            *)

(* The inductive invariant holds in every state, for all constants.         *)
THEOREM Invariant == Spec => []IInv
<1>1. Init => IInv
  <2> SUFFICES ASSUME Init PROVE IInv
    OBVIOUS
  <2>1. ask \in [Bookings -> Requests] /\ \A b \in Bookings : ask[b].stay \in Stays
    BY RoomAssumption DEF Init, Request
  <2>2. TypeOK
    BY <2>1, RoomAssumption DEF Init, TypeOK, Steps, Decisions, Statuses, Active
  <2>3. DatesKept /\ HoldsMatch
    BY FS_EmptySet DEF Init, DatesKept, HoldsMatch
  <2>4. CallsMatch
    BY DEF Init, CallsMatch, CallMatches, Creating, Deciding, Releasing, OnActive
  <2>5. RoomsReady /\ RoomExclusive
    BY DEF Init, RoomsReady, RoomExclusive
  <2> QED
    BY <2>2, <2>3, <2>4, <2>5 DEF IInv
<1>2. IInv /\ [Next]_vars => IInv'
  <2> SUFFICES ASSUME IInv, [Next]_vars PROVE IInv'
    OBVIOUS
  <2>1. ASSUME NEW p \in Procs, NEW b \in Bookings,
               CreateHold(p, b) \/ CheckUnits(p, b) \/ \E d \in Decisions : Load(p, b, d)
        PROVE  IInv'
    BY <2>1, CreateHoldKeeps, CheckUnitsKeeps, LoadKeeps
  <2>2. ASSUME NEW p \in Procs, HoldLeft(p) PROVE IInv'
    BY <2>2, HoldLeftKeeps
  <2>3. ASSUME NEW p \in Procs, ConvertHold(p) PROVE IInv'
    BY <2>3, ConvertHoldKeeps
  <2>4. ASSUME NEW p \in Procs, CheckAgain(p) PROVE IInv'
    BY <2>4, CheckAgainKeeps
  <2>5. ASSUME NEW p \in Procs, BlockUnits(p) PROVE IInv'
    BY <2>5, BlockUnitsKeeps
  <2>6. ASSUME NEW p \in Procs, BlockRefused(p) PROVE IInv'
    BY <2>6, BlockRefusedKeeps
  <2>7. ASSUME NEW p \in Procs, LeaveDraft(p) PROVE IInv'
    BY <2>7, LeaveDraftKeeps
  <2>8. ASSUME NEW p \in Procs, Approve(p) PROVE IInv'
    BY <2>8, ApproveKeeps
  <2>9. ASSUME NEW p \in Procs, ReleaseBlocks(p) PROVE IInv'
    BY <2>9, ReleaseBlocksKeeps
  <2>10. ASSUME NEW p \in Procs, CheckTransition(p) PROVE IInv'
    BY <2>10, CheckTransitionKeeps
  <2>11. ASSUME NEW p \in Procs, Close(p) PROVE IInv'
    BY <2>11, CloseKeeps
  <2>12. ASSUME NEW p \in Procs, Expire(p) PROVE IInv'
    BY <2>12, ExpireKeeps
  <2>13. ASSUME NEW p \in Procs, NoShow(p) PROVE IInv'
    BY <2>13, NoShowKeeps
  <2>14. ASSUME NEW p \in Procs, SetDates(p) PROVE IInv'
    BY <2>14, SetDatesKeeps
  <2>15. ASSUME NEW p \in Procs, FindNone(p) PROVE IInv'
    BY <2>15, FindNoneKeeps
  <2>16. ASSUME NEW p \in Procs, LockRooms(p) PROVE IInv'
    BY <2>16, LockRoomsKeeps
  <2>17. ASSUME NEW p \in Procs, ChooseRooms(p) PROVE IInv'
    BY <2>17, ChooseRoomsKeeps
  <2>18. ASSUME NEW p \in Procs, AssignRooms(p) PROVE IInv'
    BY <2>18, AssignRoomsKeeps
  <2>19. ASSUME NEW p \in Procs, KeepRooms(p) PROVE IInv'
    BY <2>19, KeepRoomsKeeps
  <2>20. ASSUME NEW p \in Procs, SelfCheckIn(p) PROVE IInv'
    BY <2>20, SelfCheckInKeeps
  <2>21. ASSUME NEW p \in Procs, CheckOut(p) PROVE IInv'
    BY <2>21, CheckOutKeeps
  <2>22. ASSUME NEW p \in Procs, SelfCheckOut(p) PROVE IInv'
    BY <2>22, SelfCheckOutKeeps
  <2>23. ASSUME NEW p \in Procs, Abort(p) PROVE IInv'
    BY <2>23, AbortKeeps
  <2>24. ASSUME NEW p \in Procs, NEW s \in Stays, Move(p, s) PROVE IInv'
    BY <2>24, MoveKeeps
  <2>25. CASE UNCHANGED vars
    BY <2>25 DEF vars, tables, rows, call, IInv, TypeOK, DatesKept, HoldsMatch, CallsMatch,
       CallMatches, RoomsReady, RoomExclusive
  <2> QED
    BY <2>1, <2>2, <2>3, <2>4, <2>5, <2>6, <2>7, <2>8, <2>9, <2>10, <2>11, <2>12,
       <2>13, <2>14, <2>15, <2>16, <2>17, <2>18, <2>19, <2>20, <2>21, <2>22, <2>23,
       <2>24, <2>25 DEF Next
<1> QED
  BY <1>1, <1>2, PTL DEF Spec

(* Every variable keeps its type, and the advisory lock of a property and   *)
(* the row locks of rooms are held only inside the sections they guard.     *)
THEOREM TypeCorrect == Spec => []TypeOK
<1>1. IInv => TypeOK
  BY DEF IInv
<1> QED
  BY <1>1, Invariant, PTL

(* However creations, approvals, rejections, cancellations and expiries     *)
(* interleave, a hold with a booking is that of a booking which waits.      *)
THEOREM HoldsAreAwaited == Spec => []HoldsAwait
<1>1. IInv => HoldsAwait
  BY DEF IInv, HoldsMatch, HoldsAwait
<1> QED
  BY <1>1, Invariant, PTL

(* No two parties are in one room after any number of concurrent, repeated  *)
(* and stale check-ins and check-outs (check_in's row locks and its look at *)
(* the assignments of each room).                                           *)
THEOREM RoomsAreExclusive == Spec => []RoomExclusive
<1>1. IInv => RoomExclusive
  BY DEF IInv
<1> QED
  BY <1>1, Invariant, PTL

-----------------------------------------------------------------------------
(* Units.  UnitsFit is not inductive either: HoldsSized says what a hold is *)
(* worth, and RoomLeft that what block_room_type_units found free under the *)
(* property's lock is still free when it inserts.                           *)

Taking(n)  == {b \in Bookings \ loose : status[b] \in Active /\ n \in stay[b]}
Holding(n) == {k \in blocks : k.reason = "hold" /\ k.of # None /\ n \in k.stay}
Need(n)    == Booked(Taking(n)) + OnHold(Holding(n))

(* A hold takes as many units as its booking will.                          *)
HoldsSized ==
    \A k \in blocks : k.reason = "hold" /\ k.of # None => k.units = ask[k.of].rooms

RoomLeft ==
    \A p \in Procs : pc[p] = "blocking" =>
        \A n \in ask[on[p]].stay : Need(n) + ask[on[p]].rooms <= Total

UnitsInv == HoldsSized /\ RoomLeft /\ UnitsFit

(* A member's units are counted from 1.                                     *)
LEMMA UnitsOfOne ==
    ASSUME NEW x, NEW n \in Nat
    PROVE  IsFiniteSet({x} \X (1 .. n)) /\ Cardinality({x} \X (1 .. n)) = n
<1> DEFINE g == [i \in 1 .. n |-> <<x, i>>]
<1>1. g \in Bijection(1 .. n, {x} \X (1 .. n))
  <2>1. g \in [1 .. n -> {x} \X (1 .. n)]
    OBVIOUS
  <2>2. \A i, j \in 1 .. n : g[i] = g[j] => i = j
    OBVIOUS
  <2>3. ASSUME NEW u \in {x} \X (1 .. n) PROVE \E i \in 1 .. n : g[i] = u
    <3>1. u = <<x, u[2]>> /\ u[2] \in 1 .. n
      OBVIOUS
    <3>2. g[u[2]] = u
      BY <3>1
    <3> QED
      BY <3>1, <3>2
  <2> HIDE DEF g
  <2> QED
    BY <2>1, <2>2, <2>3 DEF Bijection, Injection, Surjection, IsInjective
<1>2. IsFiniteSet(1 .. n) /\ Cardinality(1 .. n) = n
  BY FS_Interval
<1>3. ExistsBijection(1 .. n, {x} \X (1 .. n))
  BY <1>1 DEF ExistsBijection
<1> HIDE DEF g
<1> DEFINE P == {x} \X (1 .. n)
           N == 1 .. n
<1>4. IsFiniteSet(N) /\ Cardinality(N) = n /\ ExistsBijection(N, P)
  BY <1>2, <1>3
<1> HIDE DEF P, N
<1>5. IsFiniteSet(P) /\ Cardinality(P) = Cardinality(N)
  BY <1>4, FS_Bijection
<1> QED
  BY <1>4, <1>5 DEF P

(* Finitely many members take finitely many units.                          *)
LEMMA UnitsFinite ==
    ASSUME NEW S, IsFiniteSet(S), NEW f \in [S -> Nat]
    PROVE  IsFiniteSet(UnitsOf(f)) /\ Cardinality(UnitsOf(f)) \in Nat
<1> DEFINE Part(x) == {x} \X (1 .. f[x])
           T == {Part(x) : x \in S}
<1>1. ASSUME NEW x \in S PROVE IsFiniteSet(Part(x))
  BY UnitsOfOne
<1>2. [x \in S |-> Part(x)] \in Surjection(S, T)
  BY DEF Surjection
<1>3. IsFiniteSet(T)
  BY <1>2, FS_Surjection
<1>4. IsFiniteSet(UNION T)
  BY <1>1, <1>3, FS_UNION
<1>5. UnitsOf(f) = UNION T
  BY DEF UnitsOf
<1> QED
  BY <1>4, <1>5, FS_CardinalityType

(* Fewer members take no more.                                              *)
LEMMA UnitsFewer ==
    ASSUME NEW S, IsFiniteSet(S), NEW f \in [S -> Nat],
           NEW R \in SUBSET S, NEW g \in [R -> Nat], \A x \in R : g[x] = f[x]
    PROVE  Cardinality(UnitsOf(g)) <= Cardinality(UnitsOf(f))
<1>1. UnitsOf(g) \subseteq UnitsOf(f)
  BY DEF UnitsOf
<1> QED
  BY <1>1, UnitsFinite, FS_Subset

(* One more member takes its own units besides those of the others.         *)
LEMMA UnitsOneMore ==
    ASSUME NEW S, IsFiniteSet(S), NEW f \in [S -> Nat], NEW x, x \notin S,
           NEW g \in [S \cup {x} -> Nat], \A y \in S : g[y] = f[y]
    PROVE  Cardinality(UnitsOf(g)) = Cardinality(UnitsOf(f)) + g[x]
<1> DEFINE P == {x} \X (1 .. g[x])
<1>1. UnitsOf(g) = UnitsOf(f) \cup P
  BY DEF UnitsOf
<1>2. UnitsOf(f) \cap P = {}
  BY DEF UnitsOf
<1>3. g[x] \in Nat
  OBVIOUS
<1>4. IsFiniteSet(P) /\ Cardinality(P) = g[x]
  BY <1>3, UnitsOfOne
<1>5. IsFiniteSet(UnitsOf(f)) /\ Cardinality(UnitsOf(f)) \in Nat
  BY UnitsFinite
<1>6. Cardinality(UnitsOf(f) \cup P)
        = Cardinality(UnitsOf(f)) + Cardinality(P) - Cardinality(UnitsOf(f) \cap P)
  BY <1>4, <1>5, FS_Union
<1>7. Cardinality(UnitsOf(f) \cap P) = 0
  BY <1>2, FS_EmptySet
<1> HIDE DEF P
<1> QED
  BY <1>1, <1>3, <1>4, <1>5, <1>6, <1>7

(* What Booked and OnHold count, for a finite set of bookings or blocks.    *)
LEMMA BookedFewer ==
    ASSUME TypeOK, NEW S \in SUBSET Bookings, NEW R \in SUBSET S
    PROVE  Booked(R) \in Nat /\ Booked(S) \in Nat /\ Booked(R) <= Booked(S)
<1> DEFINE F(T) == [b \in T |-> ask[b].rooms]
<1>1. \A b \in Bookings : ask[b].rooms \in Nat
  BY RoomAssumption DEF TypeOK, Request
<1>2. IsFiniteSet(S) /\ IsFiniteSet(R)
  BY RoomAssumption, FS_Subset
<1>3. F(S) \in [S -> Nat] /\ F(R) \in [R -> Nat] /\ \A b \in R : F(R)[b] = F(S)[b]
  BY <1>1
<1>4. Booked(R) = Cardinality(UnitsOf(F(R))) /\ Booked(S) = Cardinality(UnitsOf(F(S)))
  BY DEF Booked
<1> HIDE DEF F
<1> QED
  BY <1>2, <1>3, <1>4, UnitsFinite, UnitsFewer

LEMMA BookedOneMore ==
    ASSUME TypeOK, NEW S \in SUBSET Bookings, NEW b \in Bookings \ S
    PROVE  Booked(S \cup {b}) = Booked(S) + ask[b].rooms
<1> DEFINE F(T) == [c \in T |-> ask[c].rooms]
<1>1. \A c \in Bookings : ask[c].rooms \in Nat
  BY RoomAssumption DEF TypeOK, Request
<1>2. IsFiniteSet(S)
  BY RoomAssumption, FS_Subset
<1>3. /\ F(S) \in [S -> Nat] /\ F(S \cup {b}) \in [S \cup {b} -> Nat]
      /\ \A c \in S : F(S \cup {b})[c] = F(S)[c]
      /\ F(S \cup {b})[b] = ask[b].rooms
  BY <1>1
<1>4. /\ Booked(S) = Cardinality(UnitsOf(F(S)))
      /\ Booked(S \cup {b}) = Cardinality(UnitsOf(F(S \cup {b})))
  BY DEF Booked
<1> HIDE DEF F
<1>5. Cardinality(UnitsOf(F(S \cup {b}))) = Cardinality(UnitsOf(F(S))) + F(S \cup {b})[b]
  BY <1>2, <1>3, UnitsOneMore
<1> QED
  BY <1>3, <1>4, <1>5

LEMMA OnHoldFewer ==
    ASSUME NEW K, K \subseteq Block, IsFiniteSet(K), NEW R \in SUBSET K
    PROVE  OnHold(R) \in Nat /\ OnHold(K) \in Nat /\ OnHold(R) <= OnHold(K)
<1> DEFINE F(T) == [k \in T |-> k.units]
<1>1. \A k \in K : k.units \in Nat
  BY DEF Block
<1>2. IsFiniteSet(R)
  BY FS_Subset
<1>3. F(K) \in [K -> Nat] /\ F(R) \in [R -> Nat] /\ \A k \in R : F(R)[k] = F(K)[k]
  BY <1>1
<1>4. OnHold(R) = Cardinality(UnitsOf(F(R))) /\ OnHold(K) = Cardinality(UnitsOf(F(K)))
  BY DEF OnHold
<1> HIDE DEF F
<1> QED
  BY <1>2, <1>3, <1>4, UnitsFinite, UnitsFewer

LEMMA OnHoldOneMore ==
    ASSUME NEW K, K \subseteq Block, IsFiniteSet(K), NEW k \in Block, k \notin K
    PROVE  OnHold(K \cup {k}) = OnHold(K) + k.units
<1> DEFINE F(T) == [j \in T |-> j.units]
<1>1. \A j \in K \cup {k} : j.units \in Nat
  BY DEF Block
<1>2. /\ F(K) \in [K -> Nat] /\ F(K \cup {k}) \in [K \cup {k} -> Nat]
      /\ \A j \in K : F(K \cup {k})[j] = F(K)[j]
      /\ F(K \cup {k})[k] = k.units
  BY <1>1
<1>3. /\ OnHold(K) = Cardinality(UnitsOf(F(K)))
      /\ OnHold(K \cup {k}) = Cardinality(UnitsOf(F(K \cup {k})))
  BY DEF OnHold
<1> HIDE DEF F
<1>4. Cardinality(UnitsOf(F(K \cup {k}))) = Cardinality(UnitsOf(F(K))) + F(K \cup {k})[k]
  BY <1>2, UnitsOneMore
<1> QED
  BY <1>2, <1>3, <1>4

LEMMA NeedType ==
    ASSUME IInv, NEW n
    PROVE  /\ Taking(n) \subseteq Bookings
           /\ Holding(n) \subseteq Block /\ IsFiniteSet(Holding(n))
           /\ Booked(Taking(n)) \in Nat /\ OnHold(Holding(n)) \in Nat
           /\ Need(n) \in Nat /\ Total \in Nat
<1>1. Taking(n) \subseteq Bookings /\ Holding(n) \subseteq blocks
  BY DEF Taking, Holding
<1>2. Holding(n) \subseteq Block /\ IsFiniteSet(Holding(n))
  BY <1>1, FS_Subset DEF IInv, TypeOK, HoldsMatch
<1>3. Booked(Taking(n)) \in Nat
  BY <1>1, BookedFewer DEF IInv
<1>4. OnHold(Holding(n)) \in Nat
  BY <1>2, OnHoldFewer
<1>5. Total \in Nat
  BY RoomAssumption, FS_CardinalityType DEF Total
<1> QED
  BY <1>1, <1>2, <1>3, <1>4, <1>5 DEF Need

(* The units of one night are among those available_units counts for a stay *)
(* with that night.                                                         *)
LEMMA NeedCounted ==
    ASSUME IInv, NEW s \in Stays, NEW n \in s
    PROVE  Need(n) <= Total - Available(s) /\ Available(s) \in Int
<1> DEFINE taking == {c \in Bookings \ {None} : status[c] \in Active /\ Overlap(stay[c], s)}
           held == {k \in blocks : k.reason # "booked" /\ Overlap(k.stay, s)}
<1>1. Available(s) = Total - Booked(taking) - OnHold(held)
  BY DEF Available, AvailableWithout
<1>2. taking \subseteq Bookings /\ held \subseteq blocks
  OBVIOUS
<1>3. Taking(n) \subseteq taking
  BY RoomAssumption DEF Taking, Overlap
<1>4. Holding(n) \subseteq held
  BY DEF Holding, Overlap
<1> HIDE DEF taking, held
<1>5. held \subseteq Block /\ IsFiniteSet(held)
  BY <1>2, FS_Subset DEF IInv, TypeOK, HoldsMatch
<1>6. Booked(taking) \in Nat /\ Booked(Taking(n)) <= Booked(taking)
  BY <1>2, <1>3, BookedFewer DEF IInv
<1>7. OnHold(held) \in Nat /\ OnHold(Holding(n)) <= OnHold(held)
  BY <1>4, <1>5, OnHoldFewer
<1> QED
  BY <1>1, <1>6, <1>7, NeedType DEF Need

LEMMA UnitsFitIsNeed ==
    UnitsFit <=> \A n \in UNION Stays : Need(n) <= Total
  BY DEF UnitsFit, Need, Taking, Holding

(* No guest changes what was asked for, so a step changes the need only     *)
(* through the sets of takers and holds.                                    *)
LEMMA NeedNext ==
    ASSUME ask' = ask, NEW n
    PROVE  Need(n)' = Booked(Taking(n)') + OnHold(Holding(n)')
  BY DEF Need, Booked, OnHold

LEMMA NeedFalls ==
    ASSUME IInv, IInv', ask' = ask, NEW n,
           Taking(n)' \subseteq Taking(n), Holding(n)' \subseteq Holding(n)
    PROVE  Need(n)' <= Need(n)
<1> DEFINE T == Taking(n)'
           H == Holding(n)'
<1>1. Need(n)' = Booked(T) + OnHold(H)
  BY NeedNext
<1> HIDE DEF T, H
<1>2. Booked(T) \in Nat /\ Booked(T) <= Booked(Taking(n))
  BY NeedType, BookedFewer DEF T, IInv
<1>3. OnHold(H) \in Nat /\ OnHold(H) <= OnHold(Holding(n))
  BY NeedType, OnHoldFewer DEF H
<1> QED
  BY <1>1, <1>2, <1>3, NeedType DEF Need

(* A calm step takes no unit: what is active and not loose was so before,   *)
(* and what is on hold for a booking was so before.                         *)
Calm ==
    /\ ask' = ask
    /\ \A b \in Bookings \ loose' : status'[b] \in Active =>
         b \notin loose /\ status[b] \in Active /\ stay'[b] = stay[b]
    /\ \A k \in blocks' : k.reason = "hold" /\ k.of # None => k \in blocks

(* Who is about to insert its block was so before, or has just found the    *)
(* units free.                                                              *)
StillBlocking ==
    \A q \in Procs : pc'[q] = "blocking" => on'[q] = on[q] /\ pc[q] = "blocking"

LEMMA CalmFalls ==
    ASSUME IInv, IInv', Calm, NEW n
    PROVE  Need(n)' <= Need(n)
<1>1. Taking(n)' \subseteq Taking(n)
  BY DEF Calm, Taking
<1>2. Holding(n)' \subseteq Holding(n)
  BY DEF Calm, Holding
<1> QED
  BY <1>1, <1>2, NeedFalls DEF Calm

(* Where the need falls, what was found free still is.                      *)
LEMMA FallingKeeps ==
    ASSUME IInv, IInv', UnitsInv, ask' = ask, StillBlocking,
           \A k \in blocks' : k.reason = "hold" /\ k.of # None => k \in blocks,
           \A n : Need(n)' <= Need(n)
    PROVE  UnitsInv'
<1>1. \A n : Need(n) \in Nat /\ Need(n)' \in Nat /\ Total \in Nat
  <2>1. \A n : Need(n) \in Nat /\ Total \in Nat
    BY NeedType
  <2>2. ASSUME NEW n PROVE Need(n)' \in Nat
    <3> DEFINE T == Taking(n)'
               H == Holding(n)'
    <3>1. T \subseteq Bookings /\ H \subseteq Block /\ IsFiniteSet(H)
      <4>1. T \subseteq Bookings /\ H \subseteq blocks'
        BY DEF Taking, Holding
      <4>2. blocks' \subseteq Block /\ IsFiniteSet(blocks')
        BY DEF IInv, TypeOK, HoldsMatch
      <4> QED
        BY <4>1, <4>2, FS_Subset
    <3>2. Need(n)' = Booked(T) + OnHold(H)
      BY NeedNext
    <3> HIDE DEF T, H
    <3> QED
      BY <3>1, <3>2, BookedFewer, OnHoldFewer DEF IInv
  <2> QED
    BY <2>1, <2>2
<1>2. HoldsSized'
  BY RoomAssumption DEF UnitsInv, HoldsSized
<1>3. RoomLeft'
  <2> SUFFICES ASSUME NEW q \in Procs, pc'[q] = "blocking", NEW n \in ask'[on'[q]].stay
               PROVE  Need(n)' + ask'[on'[q]].rooms <= Total
    BY DEF RoomLeft, Total
  <2>1. on'[q] = on[q] /\ pc[q] = "blocking"
    BY DEF StillBlocking
  <2>2. Need(n) + ask[on[q]].rooms <= Total
    BY <2>1 DEF UnitsInv, RoomLeft
  <2>3. ask[on[q]].rooms \in Nat
    BY <2>1, RoomAssumption DEF IInv, TypeOK, Request
  <2> QED
    BY <1>1, <2>1, <2>2, <2>3
<1>4. UnitsFit'
  <2>1. \A n \in UNION Stays : Need(n) <= Total
    BY UnitsFitIsNeed DEF UnitsInv
  <2>2. \A n \in UNION Stays : Need(n)' <= Total
    BY <1>1, <2>1
  <2>3. UnitsFit' <=> \A n \in UNION Stays : Need(n)' <= Total
    BY DEF UnitsFit, Need, Taking, Holding, Total
  <2> QED
    BY <2>2, <2>3
<1> QED
  BY <1>2, <1>3, <1>4 DEF UnitsInv

(* A check-in takes no unit: a booking no longer active is loose, since no  *)
(* hold is left to it.                                                      *)
LEMMA ArriveCalm ==
    ASSUME IInv, NEW p \in Procs, pc[p] \in OnActive, Arrive(p)
    PROVE  Calm /\ StillBlocking
<1>1. on[p] \in Bookings /\ status[on[p]] \notin Waiting
  BY DEF IInv, TypeOK, CallsMatch, CallMatches, OnActive
<1>2. SetAside(on[p]) => status[on[p]] \in Active
  BY <1>1, RoomAssumption DEF IInv, HoldsMatch, SetAside
<1> QED
  BY <1>1, <1>2 DEF IInv, TypeOK, Arrive, NowActive, Return, Calm, StillBlocking, Active

(* The calls that begin, that end or give up, or that work on rooms.        *)
LEMMA BeginCalm ==
    ASSUME IInv, NEW p \in Procs, NEW b \in Bookings,
           CreateHold(p, b) \/ CheckUnits(p, b) \/ \E d \in Decisions : Load(p, b, d)
    PROVE  Calm /\ StillBlocking
  BY DEF IInv, TypeOK, CreateHold, CheckUnits, Load, Begin, tables, rows, Decisions, Calm,
     StillBlocking

(* Checkouts: a hold of nobody and a "booked" block are not of the need.    *)
LEMMA HoldLeftCalm ==
    ASSUME IInv, NEW p \in Procs, HoldLeft(p)
    PROVE  Calm /\ StillBlocking
<1> DEFINE new == NewBlock(on[p], "hold", None)
<1>1. on[p] \in Bookings
  BY DEF HoldLeft, IInv, TypeOK
<1>2. new.of = None
  BY <1>1, NewBlockType
<1>3. blocks' = blocks \cup {new}
  BY DEF HoldLeft
<1> HIDE DEF new
<1> QED
  BY <1>2, <1>3 DEF IInv, TypeOK, HoldLeft, Return, rows, Calm, StillBlocking

LEMMA ConvertHoldCalm ==
    ASSUME IInv, NEW p \in Procs, ConvertHold(p)
    PROVE  Calm /\ StillBlocking
<1> DEFINE b == on[p]
           found == {k \in blocks : k.reason = "hold" /\ k.of = None /\ k.stay = stay[b]}
           Converted(k) == [k EXCEPT !.reason = "booked", !.of = b]
           made == {Converted(k) : k \in found}
           new == NewBlock(b, "booked", b)
<1>1. /\ pc[p] = "held" /\ status[b] = "none" /\ Return(p)
      /\ status' = [status EXCEPT ![b] = Pending(b)]
      /\ blocks' = (blocks \ found) \cup {new} \cup made
      /\ UNCHANGED <<ask, stay, arrived, departed, free, assigned, main, lock, loose>>
  BY Zenon DEF ConvertHold
<1>2. b \in Bookings
  <2>1. pc[p] = "held"
    BY <1>1, Zenon
  <2> QED
    BY <2>1 DEF IInv, TypeOK
<1>3. new.reason = "booked"
  BY <1>2, NewBlockType
<1>4. ASSUME NEW k \in found PROVE Converted(k).reason = "booked"
  <2>1. k \in Block
    BY DEF IInv, TypeOK
  <2> QED
    BY <1>2, <2>1 DEF Block
<1> HIDE DEF found, new, Converted
<1>a. \A k \in made : k.reason = "booked"
  BY <1>4
<1> HIDE DEF made
<1>5. \A k \in blocks' : k.reason = "hold" => k \in blocks
  BY <1>1, <1>3, <1>a
<1> QED
  BY <1>1, <1>2, <1>5 DEF IInv, TypeOK, Return, Pending, Active, Calm, StillBlocking

LEMMA EndingCalm ==
    ASSUME IInv, NEW p \in Procs,
           \/ BlockRefused(p) \/ LeaveDraft(p) \/ ReleaseBlocks(p) \/ CheckTransition(p)
           \/ Close(p) \/ Expire(p) \/ NoShow(p) \/ Abort(p)
    PROVE  Calm /\ StillBlocking
<1>1. CASE BlockRefused(p) \/ LeaveDraft(p)
  BY <1>1 DEF IInv, TypeOK, BlockRefused, LeaveDraft, Return, Pending, Active, Calm,
     StillBlocking
<1>2. CASE ReleaseBlocks(p) \/ CheckTransition(p)
  BY <1>2 DEF IInv, TypeOK, ReleaseBlocks, CheckTransition, Goto, tables, rows, Calm,
     StillBlocking
<1>3. CASE Close(p) \/ Expire(p) \/ NoShow(p)
  BY <1>3 DEF IInv, TypeOK, Close, Expire, NoShow, SetStatus, Return, Active, Calm,
     StillBlocking
<1>4. CASE Abort(p)
  BY <1>4 DEF IInv, TypeOK, Abort, Return, tables, rows, Calm, StillBlocking
<1> QED
  BY <1>1, <1>2, <1>3, <1>4

LEMMA StayingCalm ==
    ASSUME IInv, NEW p \in Procs,
           \/ SetDates(p) \/ \E s \in Stays : Move(p, s)
           \/ FindNone(p) \/ LockRooms(p) \/ ChooseRooms(p) \/ AssignRooms(p)
           \/ KeepRooms(p) \/ SelfCheckIn(p) \/ CheckOut(p) \/ SelfCheckOut(p)
    PROVE  Calm /\ StillBlocking
<1>1. CASE SetDates(p)
  BY <1>1 DEF IInv, TypeOK, SetDates, Return, Calm, StillBlocking
<1>2. CASE \E s \in Stays : Move(p, s)
  BY <1>2 DEF IInv, TypeOK, Move, Goto, rows, Calm, StillBlocking
<1>3. CASE FindNone(p) \/ LockRooms(p) \/ ChooseRooms(p)
  BY <1>3 DEF IInv, TypeOK, FindNone, LockRooms, ChooseRooms, Goto, tables, rows, Calm,
     StillBlocking
<1>4. CASE AssignRooms(p) \/ KeepRooms(p) \/ SelfCheckIn(p)
  <2>1. pc[p] \in OnActive /\ Arrive(p)
    BY <1>4 DEF AssignRooms, KeepRooms, SelfCheckIn, OnActive
  <2> QED
    BY <2>1, ArriveCalm
<1>5. CASE CheckOut(p) \/ SelfCheckOut(p)
  BY <1>5 DEF IInv, TypeOK, CheckOut, SelfCheckOut, Leave, Return, Active, Calm, StillBlocking
<1> QED
  BY <1>1, <1>2, <1>3, <1>4, <1>5

(* An approval puts the booking in the place of its hold.  A hold means     *)
(* that the booking still waits, so the dates the call has loaded are those *)
(* of the hold, and the hold goes.                                          *)
LEMMA ApproveFalls ==
    ASSUME IInv, IInv', UnitsInv, NEW p \in Procs, Approve(p), NEW n
    PROVE  Need(n)' <= Need(n)
<1> DEFINE b == on[p]
           T == Taking(n)'
           H == Holding(n)'
<1>0. /\ b \in Bookings /\ ask' = ask /\ stay' = stay /\ blocks' = blocks \ Own(p)
      /\ status' = [status EXCEPT ![b] = "confirmed"]
      /\ loose' = IF SetAside(b) THEN loose ELSE loose \cup {b}
  BY DEF Approve, NowActive, IInv, TypeOK
<1>1. H \subseteq Holding(n)
  BY <1>0 DEF Holding
<1>2. T \subseteq Taking(n) \cup {b}
  BY <1>0 DEF Taking, IInv, TypeOK
<1>3. CASE T \subseteq Taking(n)
  BY <1>0, <1>1, <1>3, NeedFalls
<1>4. CASE ~(T \subseteq Taking(n))
  <2>1. b \notin Taking(n) /\ b \in T
    BY <1>2, <1>4
  <2>2. b \notin loose' /\ n \in stay[b]
    BY <1>0, <2>1 DEF Taking
  <2>3. SetAside(b) /\ b \notin loose
    BY <1>0, <2>2
  <2>4. status[b] \notin Active
    BY <1>0, <2>1, <2>2, <2>3 DEF Taking
  <2>5. PICK k \in blocks : k.of = b /\ k.reason = "hold"
    BY <2>3, <2>4 DEF SetAside
  <2>6. status[b] \in Waiting /\ k.stay = ask[b].stay /\ k.units = ask[b].rooms
    BY <1>0, <2>5, RoomAssumption DEF IInv, HoldsMatch, UnitsInv, HoldsSized
  <2>7. seen[p].stay = ask[b].stay /\ stay[b] = ask[b].stay
    BY <1>0, <2>6 DEF Approve, IInv, CallsMatch, CallMatches, Deciding, DatesKept
  <2>8. k \in Holding(n)
    BY <1>0, <2>2, <2>5, <2>6, <2>7, RoomAssumption DEF Holding
  <2>9. H \subseteq Holding(n) \ {k}
    BY <1>0, <2>5, <2>6, <2>7 DEF Holding, Own
  <2> DEFINE K == Holding(n) \ {k}
  <2>10. /\ K \subseteq Block /\ IsFiniteSet(K) /\ k \in Block /\ k \notin K
         /\ K \cup {k} = Holding(n)
    BY <2>8, NeedType, FS_RemoveElement
  <2> HIDE DEF K
  <2>11. OnHold(Holding(n)) = OnHold(K) + k.units
    BY <2>10, OnHoldOneMore
  <2>12. OnHold(H) \in Nat /\ OnHold(K) \in Nat /\ OnHold(H) <= OnHold(K)
    BY <2>9, <2>10, OnHoldFewer DEF K
  <2>13. Taking(n) \subseteq Bookings /\ Booked(Taking(n)) \in Nat
    BY NeedType
  <2>14. Booked(Taking(n) \cup {b}) = Booked(Taking(n)) + ask[b].rooms
    BY <1>0, <2>1, <2>13, BookedOneMore DEF IInv
  <2>15. Booked(T) \in Nat /\ Booked(T) <= Booked(Taking(n) \cup {b})
    BY <1>0, <1>2, <2>13, BookedFewer DEF IInv
  <2>16. Need(n)' = Booked(T) + OnHold(H)
    BY <1>0, NeedNext
  <2>17. Need(n) = Booked(Taking(n)) + OnHold(Holding(n))
    BY DEF Need
  <2>18. ask[b].rooms \in Nat
    BY <1>0, RoomAssumption DEF IInv, TypeOK, Request
  <2> HIDE DEF T, H, b
  <2> QED
    BY <2>6, <2>11, <2>12, <2>13, <2>14, <2>15, <2>16, <2>17, <2>18
<1> QED
  BY <1>3, <1>4

(* A creation takes the units it found free under the lock: nobody else is  *)
(* between the check and the commit.                                        *)
LEMMA BlockUnitsFits ==
    ASSUME IInv, IInv', UnitsInv, NEW p \in Procs, BlockUnits(p)
    PROVE  UnitsInv'
<1> DEFINE b == on[p]
           new == NewBlock(b, "hold", b)
<1>0. /\ b \in Bookings /\ pc[p] = "blocking" /\ status[b] = "none"
      /\ ask' = ask /\ stay' = stay /\ loose' = loose
      /\ status' = [status EXCEPT ![b] = "draft"]
      /\ pc' = [pc EXCEPT ![p] = "drafted"] /\ on' = on
      /\ blocks' = blocks \cup {new}
  BY DEF BlockUnits, Goto, IInv, TypeOK, CallsMatch, CallMatches, Creating
<1>1. ask[b].rooms \in Nat
  BY <1>0, RoomAssumption DEF IInv, TypeOK, Request
<1>2. /\ new \in Block /\ new.reason = "hold" /\ new.of = b
      /\ new.stay = ask[b].stay /\ new.units = ask[b].rooms
  <2>1. new.units = ask[b].rooms
    BY DEF NewBlock
  <2> QED
    BY <1>0, <2>1, NewBlockType
<1> HIDE DEF new
<1>3. new \notin blocks
  BY <1>0, <1>2, RoomAssumption DEF IInv, HoldsMatch, Waiting
<1>4. HoldsSized'
  BY <1>0, <1>2 DEF UnitsInv, HoldsSized
<1>5. RoomLeft'
  <2> SUFFICES ASSUME NEW q \in Procs, pc'[q] = "blocking" PROVE FALSE
    BY DEF RoomLeft
  <2>1. q # p /\ pc[q] = "blocking"
    BY <1>0 DEF IInv, TypeOK
  <2> QED
    BY <1>0, <2>1 DEF IInv, CallsMatch, CallMatches, Creating
<1>6. ASSUME NEW n \in UNION Stays PROVE Need(n)' <= Total
  <2> DEFINE T == Taking(n)'
             H == Holding(n)'
  <2>1. T \subseteq Taking(n)
    BY <1>0 DEF Taking, IInv, TypeOK, Active
  <2>2. Need(n)' = Booked(T) + OnHold(H)
    BY <1>0, NeedNext
  <2>3. Booked(T) \in Nat /\ Booked(T) <= Booked(Taking(n))
    BY <2>1, NeedType, BookedFewer DEF IInv
  <2>4. Need(n) <= Total
    BY UnitsFitIsNeed DEF UnitsInv
  <2>5. CASE n \in ask[b].stay
    <3>1. H = Holding(n) \cup {new} /\ new \notin Holding(n)
      BY <1>0, <1>2, <1>3, <2>5, RoomAssumption DEF Holding
    <3>2. OnHold(H) = OnHold(Holding(n)) + ask[b].rooms
      BY <1>2, <3>1, NeedType, OnHoldOneMore
    <3>3. Need(n) + ask[b].rooms <= Total
      BY <1>0, <2>5 DEF UnitsInv, RoomLeft
    <3> HIDE DEF T, H
    <3> QED
      BY <1>1, <2>2, <2>3, <3>2, <3>3, NeedType DEF Need
  <2>6. CASE n \notin ask[b].stay
    <3>1. H = Holding(n)
      BY <1>0, <1>2, <2>6 DEF Holding
    <3> HIDE DEF T, H
    <3> QED
      BY <2>2, <2>3, <2>4, <3>1, NeedType DEF Need
  <2> QED
    BY <2>5, <2>6
<1>7. UnitsFit'
  <2>1. UnitsFit' <=> \A n \in UNION Stays : Need(n)' <= Total
    BY DEF UnitsFit, Need, Taking, Holding, Total
  <2> QED
    BY <1>6, <2>1
<1> QED
  BY <1>4, <1>5, <1>7 DEF UnitsInv

(* The check of block_room_type_units is what RoomLeft remembers.           *)
LEMMA CheckAgainFits ==
    ASSUME IInv, IInv', UnitsInv, NEW p \in Procs, CheckAgain(p)
    PROVE  UnitsInv'
<1>0. /\ on[p] \in Bookings /\ Fits(on[p]) /\ on' = on
      /\ pc' = [pc EXCEPT ![p] = "blocking"]
      /\ UNCHANGED <<ask, status, stay, blocks, loose>>
  BY DEF CheckAgain, Goto, tables, rows, IInv, TypeOK
<1>1. \A n : Need(n)' = Need(n)
  BY <1>0 DEF Need, Taking, Holding, Booked
<1>2. HoldsSized'
  BY <1>0 DEF UnitsInv, HoldsSized
<1>3. UnitsFit'
  <2>1. UnitsFit' <=> \A n \in UNION Stays : Need(n)' <= Total
    BY DEF UnitsFit, Need, Taking, Holding, Total
  <2> QED
    BY <1>1, <2>1, UnitsFitIsNeed DEF UnitsInv
<1>4. RoomLeft'
  <2> SUFFICES ASSUME NEW q \in Procs, pc'[q] = "blocking", NEW n \in ask[on[q]].stay
               PROVE  Need(n) + ask[on[q]].rooms <= Total
    BY <1>0, <1>1 DEF RoomLeft, Total
  <2>1. CASE q = p
    <3>1. ask[on[p]].stay \in Stays /\ ask[on[p]].rooms \in Nat
      BY <1>0, RoomAssumption DEF IInv, TypeOK, Request
    <3>2. Need(n) <= Total - Available(ask[on[p]].stay) /\ Available(ask[on[p]].stay) \in Int
      BY <2>1, <3>1, NeedCounted
    <3> QED
      BY <1>0, <2>1, <3>1, <3>2, NeedType DEF Fits
  <2>2. CASE q # p
    BY <1>0, <2>2 DEF IInv, TypeOK, UnitsInv, RoomLeft
  <2> QED
    BY <2>1, <2>2
<1> QED
  BY <1>2, <1>3, <1>4 DEF UnitsInv

LEMMA UnitsStep ==
    ASSUME IInv, IInv', UnitsInv, [Next]_vars
    PROVE  UnitsInv'
<1>1. ASSUME Calm, StillBlocking PROVE UnitsInv'
  BY <1>1, CalmFalls, FallingKeeps DEF Calm
<1>2. ASSUME NEW p \in Procs, NEW b \in Bookings,
             CreateHold(p, b) \/ CheckUnits(p, b) \/ \E d \in Decisions : Load(p, b, d)
      PROVE  UnitsInv'
  BY <1>1, <1>2, BeginCalm
<1>3. ASSUME NEW p \in Procs, HoldLeft(p) \/ ConvertHold(p) PROVE UnitsInv'
  BY <1>1, <1>3, HoldLeftCalm, ConvertHoldCalm
<1>4. ASSUME NEW p \in Procs,
             \/ BlockRefused(p) \/ LeaveDraft(p) \/ ReleaseBlocks(p) \/ CheckTransition(p)
             \/ Close(p) \/ Expire(p) \/ NoShow(p) \/ Abort(p)
      PROVE  UnitsInv'
  BY <1>1, <1>4, EndingCalm
<1>5. ASSUME NEW p \in Procs,
             \/ SetDates(p) \/ \E s \in Stays : Move(p, s)
             \/ FindNone(p) \/ LockRooms(p) \/ ChooseRooms(p) \/ AssignRooms(p)
             \/ KeepRooms(p) \/ SelfCheckIn(p) \/ CheckOut(p) \/ SelfCheckOut(p)
      PROVE  UnitsInv'
  BY <1>1, <1>5, StayingCalm
<1>6. ASSUME NEW p \in Procs, Approve(p) PROVE UnitsInv'
  <2>1. /\ ask' = ask /\ StillBlocking
        /\ \A k \in blocks' : k.reason = "hold" /\ k.of # None => k \in blocks
    BY <1>6 DEF Approve, Return, IInv, TypeOK, StillBlocking
  <2>2. \A n : Need(n)' <= Need(n)
    BY <1>6, ApproveFalls
  <2> QED
    BY <2>1, <2>2, FallingKeeps
<1>7. ASSUME NEW p \in Procs, BlockUnits(p) PROVE UnitsInv'
  BY <1>7, BlockUnitsFits
<1>8. ASSUME NEW p \in Procs, CheckAgain(p) PROVE UnitsInv'
  BY <1>8, CheckAgainFits
<1>9. CASE UNCHANGED vars
  <2>1. Calm /\ StillBlocking
    BY <1>9 DEF vars, tables, rows, call, Calm, StillBlocking
  <2> QED
    BY <1>1, <2>1
<1> QED
  BY <1>2, <1>3, <1>4, <1>5, <1>6, <1>7, <1>8, <1>9 DEF Next

(* On no night do the confirmed bookings, and the bookings whose hold is    *)
(* counted, need more units than the room type has: the check under the     *)
(* property's advisory lock, the hold it leaves and the approval that turns *)
(* the hold into the booking keep it so, for any number of bookings, rooms  *)
(* and concurrent calls.                                                    *)
THEOREM UnitsAlwaysFit == Spec => []UnitsFit
<1>1. Init /\ IInv => UnitsInv
  <2> SUFFICES ASSUME Init, IInv PROVE UnitsInv
    OBVIOUS
  <2>1. HoldsSized /\ RoomLeft
    BY DEF Init, HoldsSized, RoomLeft
  <2>2. ASSUME NEW s \in Stays, NEW n \in s PROVE Need(n) <= Total
    <3>1. Need(n) <= Total - Available(s) /\ Available(s) \in Int
      BY NeedCounted
    <3>2. Available(s) >= 0
      BY DEF Init
    <3> QED
      BY <3>1, <3>2, NeedType
  <2> QED
    BY <2>1, <2>2, UnitsFitIsNeed DEF UnitsInv
<1>2. IInv /\ IInv' /\ UnitsInv /\ [Next]_vars => UnitsInv'
  BY UnitsStep
<1>3. UnitsInv => UnitsFit
  BY DEF UnitsInv
<1> QED
  BY <1>1, <1>2, <1>3, Invariant, PTL DEF Spec
=============================================================================
