--------------------------- MODULE RoomInventory ---------------------------
(***************************************************************************)
(* The rooms of one multi-unit room type: checkout, event bookings, the     *)
(* host's decisions, cancellation, expiry, changes of dates, check-in and   *)
(* check-out (accommodation/services, tasks/accommodation_reminders.py).    *)
(*                                                                          *)
(* Units are taken by inventory blocks until the host approves a booking,   *)
(* and by the booking itself afterwards.  available_units leaves out blocks *)
(* with the reason "booked", which is what a checkout turns its hold into.  *)
(* Bookings are loaded by the routes, and a later SELECT ... FOR UPDATE     *)
(* returns the loaded object as it was; release_room_type_blocks commits,   *)
(* so its callers go on without their row lock.  Dates come as they like.   *)
(***************************************************************************)
EXTENDS Integers, FiniteSetsExt

CONSTANTS
    Procs, Bookings,
    Rooms,        \* the physical rooms; as many as total_units
    Stays,        \* sets of nights
    Requests,     \* what a guest may ask for
    Standing,     \* bookings that may be confirmed at the start
    MaxOps,       \* bound on calls
    None

Paths == {"checkout", "event"}
Total == Cardinality(Rooms)

Request == [stay : Stays, rooms : Nat \ {0}, path : Paths, approval : BOOLEAN]

ASSUME RoomAssumption ==
    /\ IsFiniteSet(Rooms) /\ IsFiniteSet(Bookings)
    /\ {} \notin Stays /\ Requests \subseteq Request
    /\ Standing \subseteq Bookings
    /\ MaxOps \in Nat
    /\ None \notin Procs \cup Bookings \cup Rooms

VARIABLES
    ask,        \* what the guest of a booking asks for
    status, stay,   \* the booking's row; "none" before it is inserted
    arrived, departed,  \* bookings with is_checked_in, with is_checked_out
    blocks,     \* inventory_blocks
    free,       \* rooms whose status is "available"
    assigned,   \* room_bookings
    main,       \* assigned_room_id
    pc, on,     \* a call's step and its booking
    seen,       \* the booking's dates and room in the call's session
    goal,       \* the dates a host moves a booking to
    candidates, \* the rooms a check-in has locked
    chosen,     \* those it will assign
    lock,       \* the property's advisory lock
    begun,
    loose       \* history: bookings made active, or moved, with no unit set aside

rows == <<ask, status, stay, arrived, departed>>
tables == <<rows, blocks, free, assigned, main>>
call == <<pc, on, seen, goal, candidates, chosen>>
vars == <<tables, call, lock, begun, loose>>

Waiting == {"draft", "pending_approval", "pending_payment"}
Active == {"confirmed", "checked_in"}
Ended == {"cancelled", "expired", "no_show", "checked_out"}
Statuses == {"none"} \cup Waiting \cup Active \cup Ended

Block == [id : Nat, stay : Stays, units : Nat \ {0}, reason : {"hold", "booked"},
          of : Bookings \cup {None}]

(* It has no dates: the methods check_in and check_out of the class take    *)
(* the place of its columns of these names.                                 *)
RoomBooking == [room : Rooms, of : Bookings, status : {"checked_in", "checked_out"}]

Session == [stay : Stays, room : Rooms \cup {None}]

Overlap(s, t) == s \cap t # {}

(* How many units the members of DOMAIN f take together, f[x] each: the SUM *)
(* of the query, counted as a set of units.                                 *)
UnitsOf(f) == UNION {{x} \X (1 .. f[x]) : x \in DOMAIN f}
Booked(S)  == Cardinality(UnitsOf([b \in S |-> ask[b].rooms]))
OnHold(K)  == Cardinality(UnitsOf([k \in K |-> k.units]))

(* available_units for the stay s, without the booking b itself.            *)
AvailableWithout(b, s) ==
    LET taking == {c \in Bookings \ {b} : status[c] \in Active /\ Overlap(stay[c], s)}
        held   == {k \in blocks : k.reason # "booked" /\ Overlap(k.stay, s)}
    IN  Total - Booked(taking) - OnHold(held)

Available(s) == AvailableWithout(None, s)

Fits(b) == Available(ask[b].stay) >= ask[b].rooms

NewId == CHOOSE i \in 0 .. Cardinality(blocks) : \A k \in blocks : k.id # i

NewBlock(b, r, o) ==
    [id |-> NewId, stay |-> ask[b].stay, units |-> ask[b].rooms, reason |-> r, of |-> o]

(* The blocks of the call's booking for the dates it has loaded.            *)
Own(p) == {k \in blocks : k.of = on[p] /\ k.stay = seen[p].stay}

(* The rooms a booking is in.                                               *)
Inside(b) == {x \in assigned : x.of = b /\ x.status = "checked_in"}

(* Where create_booking leaves a booking.                                   *)
Pending(b) == IF ask[b].approval THEN "pending_approval" ELSE "pending_payment"

(* CANCELLABLE_STATUSES, and the transitions to CANCELLED.                  *)
Cancellable == Waiting \cup Active

SetAside(b) == status[b] \in Active \/ \E k \in blocks : k.of = b /\ k.reason = "hold"
NowActive(b) == loose' = IF SetAside(b) THEN loose ELSE loose \cup {b}

-----------------------------------------------------------------------------
Init ==
    /\ ask \in [Bookings -> Requests]
    /\ \E S \in SUBSET Standing :
         status = [b \in Bookings |-> IF b \in S THEN "confirmed" ELSE "none"]
    /\ stay = [b \in Bookings |-> ask[b].stay] /\ arrived = {} /\ departed = {}
    /\ blocks = {} /\ free = Rooms /\ assigned = {} /\ main = [b \in Bookings |-> None]
    /\ pc = [p \in Procs |-> "idle"] /\ on = [p \in Procs |-> None]
    /\ seen = [p \in Procs |-> None]
    /\ goal = [p \in Procs |-> {}] /\ candidates = [p \in Procs |-> {}]
    /\ chosen = [p \in Procs |-> {}]
    /\ lock = None /\ begun = 0 /\ loose = {}
    /\ \A s \in Stays : Available(s) >= 0

Begin(p, b, step) ==
    /\ pc[p] = "idle" /\ begun < MaxOps /\ begun' = begun + 1
    /\ pc' = [pc EXCEPT ![p] = step] /\ on' = [on EXCEPT ![p] = b]

Goto(p, step) == pc' = [pc EXCEPT ![p] = step] /\ UNCHANGED on

(* The call ends; its session goes.                                         *)
Return(p) ==
    /\ pc' = [pc EXCEPT ![p] = "idle"] /\ on' = [on EXCEPT ![p] = None]
    /\ seen' = [seen EXCEPT ![p] = None]
    /\ goal' = [goal EXCEPT ![p] = {}] /\ candidates' = [candidates EXCEPT ![p] = {}]
    /\ chosen' = [chosen EXCEPT ![p] = {}] /\ UNCHANGED begun

Unlock(p) == lock' = IF lock = p THEN None ELSE lock

(* A refusal after the first step, an exception or a crash: what was not    *)
(* committed is rolled back.                                                *)
Abort(p) ==
    /\ pc[p] # "idle" /\ Return(p) /\ Unlock(p)
    /\ UNCHANGED <<tables, loose>>

-----------------------------------------------------------------------------
(* Checkout: create_hold and create_booking(skip_hold_creation=True) in one *)
(* transaction.                                                             *)

CreateHold(p, b) ==
    /\ ask[b].path = "checkout" /\ Fits(b)
    /\ Begin(p, b, "held")
    /\ UNCHANGED <<tables, seen, goal, candidates, chosen, lock, loose>>

(* The route gives up, or finds the booking of an earlier submission: what  *)
(* is committed is the hold, for nobody.                                    *)
HoldLeft(p) ==
    /\ pc[p] = "held" /\ blocks' = blocks \cup {NewBlock(on[p], "hold", None)}
    /\ Return(p)
    /\ UNCHANGED <<rows, free, assigned, main, lock, loose>>

(* Holds of nobody for these dates, its own among them, become "booked".    *)
ConvertHold(p) ==
    LET b == on[p]
        found == {k \in blocks : k.reason = "hold" /\ k.of = None /\ k.stay = stay[b]} IN
    /\ pc[p] = "held" /\ status[b] = "none" /\ lock = None
    /\ status' = [status EXCEPT ![b] = Pending(b)]
    /\ blocks' = (blocks \ found) \cup {NewBlock(b, "booked", b)}
                 \cup {[k EXCEPT !.reason = "booked", !.of = b] : k \in found}
    /\ Return(p)
    /\ UNCHANGED <<ask, stay, arrived, departed, free, assigned, main, lock, loose>>

-----------------------------------------------------------------------------
(* An attendee's booking: create_booking without a hold.                    *)

(* Mutant: the property is not locked.                                      *)
CheckUnits_NoLock(p, b) ==
    /\ ask[b].path = "event" /\ status[b] = "none" /\ Fits(b)
    /\ Begin(p, b, "checked")
    /\ UNCHANGED <<tables, seen, goal, candidates, chosen, lock, loose>>

(* The advisory lock, the key, the rows of the overlapping blocks, the      *)
(* units.                                                                   *)
CheckUnits(p, b) ==
    /\ ask[b].path = "event" /\ status[b] = "none" /\ Fits(b)
    /\ lock = None /\ lock' = p
    /\ Begin(p, b, "checked")
    /\ UNCHANGED <<tables, seen, goal, candidates, chosen, loose>>

(* The check of block_room_type_units.                                      *)
CheckAgain(p) ==
    /\ pc[p] = "checked" /\ Fits(on[p]) /\ Goto(p, "blocking")
    /\ UNCHANGED <<tables, seen, goal, candidates, chosen, lock, begun, loose>>

(* block_room_type_units commits the draft and its block.                   *)
BlockUnits(p) ==
    /\ pc[p] = "blocking" /\ status' = [status EXCEPT ![on[p]] = "draft"]
    /\ blocks' = blocks \cup {NewBlock(on[p], "hold", on[p])}
    /\ Goto(p, "drafted") /\ Unlock(p)
    /\ UNCHANGED <<ask, stay, arrived, departed, free, assigned, main, seen, goal, candidates, chosen,
                   begun, loose>>

(* It refuses; the refusal is logged and the booking is made all the same.  *)
BlockRefused(p) ==
    /\ pc[p] = "checked" /\ ~Fits(on[p])
    /\ status' = [status EXCEPT ![on[p]] = Pending(on[p])]
    /\ Return(p) /\ Unlock(p)
    /\ UNCHANGED <<ask, stay, arrived, departed, blocks, free, assigned, main, loose>>

(* The transitions out of DRAFT, in a second transaction.                   *)
LeaveDraft(p) ==
    /\ pc[p] = "drafted" /\ status[on[p]] = "draft"
    /\ status' = [status EXCEPT ![on[p]] = Pending(on[p])]
    /\ Return(p)
    /\ UNCHANGED <<ask, stay, arrived, departed, blocks, free, assigned, main, lock, loose>>

(* The rows a creation has selected FOR UPDATE.                             *)
BlockLocked(p, k) ==
    \E q \in Procs \ {p} : /\ pc[q] \in {"checked", "blocking"}
                           /\ Overlap(k.stay, ask[on[q]].stay)

Deletable(p) == \A k \in Own(p) : ~BlockLocked(p, k)

-----------------------------------------------------------------------------
(* Calls on a booking: the route or the task loads it.                      *)
Decisions == {"approve", "cancel", "reject", "expire", "no_show", "move",
              "arrive", "self_arrive", "leave", "self_leave"}

(* What each call demands of the status it has loaded.                      *)
Demands(d) ==
    CASE d \in {"approve", "reject", "expire"} -> {"pending_approval"}
      [] d = "cancel" -> Cancellable
      [] d \in {"no_show", "arrive", "self_arrive"} -> {"confirmed"}
      [] d \in {"leave", "self_leave"} -> {"checked_in"}
      [] d = "move" -> Active

(* Only a checkout sets an approval deadline.                               *)
Load(p, b, d) ==
    /\ status[b] \in Demands(d)
    /\ d = "expire" => ask[b].path = "checkout"
    /\ d = "arrive" => b \notin arrived
    /\ d = "leave" => b \notin departed
    /\ Begin(p, b, d)
    /\ seen' = [seen EXCEPT ![p] = [stay |-> stay[b], room |-> main[b]]]
    /\ UNCHANGED <<tables, goal, candidates, chosen, lock, loose>>

(* Mutant: the block stays when the booking takes its place.                *)
Approve_KeepsBlock(p) ==
    /\ pc[p] = "approve" /\ Deletable(p)
    /\ status' = [status EXCEPT ![on[p]] = "confirmed"] /\ NowActive(on[p])
    /\ Return(p)
    /\ UNCHANGED <<ask, stay, arrived, departed, blocks, free, assigned, main, lock>>

(* approve_booking.                                                         *)
Approve(p) ==
    /\ pc[p] = "approve" /\ Deletable(p)
    /\ status' = [status EXCEPT ![on[p]] = "confirmed"] /\ NowActive(on[p])
    /\ blocks' = blocks \ Own(p)
    /\ Return(p)
    /\ UNCHANGED <<ask, stay, arrived, departed, free, assigned, main, lock>>

(* release_room_type_blocks and its COMMIT.                                 *)
ReleaseBlocks(p) ==
    /\ pc[p] \in {"cancel", "reject", "expire"} /\ Deletable(p)
    /\ blocks' = blocks \ Own(p)
    /\ Goto(p, IF pc[p] = "expire" THEN "expiring" ELSE "released")
    /\ UNCHANGED <<rows, free, assigned, main, seen, goal, candidates, chosen, lock,
                   begun, loose>>

(* The transition to CANCELLED is checked on the row as it is now ...       *)
CheckTransition(p) ==
    /\ pc[p] = "released" /\ status[on[p]] \in Cancellable
    /\ Goto(p, "closing")
    /\ UNCHANGED <<tables, seen, goal, candidates, chosen, lock, begun, loose>>

SetStatus(p, step, s) ==
    /\ pc[p] = step /\ status' = [status EXCEPT ![on[p]] = s] /\ Return(p)
    /\ UNCHANGED <<ask, stay, arrived, departed, blocks, free, assigned, main, lock, loose>>

(* ... and then written.                                                    *)
Close(p) == SetStatus(p, "closing", "cancelled")

(* expire_unapproved_bookings and detect_no_shows.                          *)
Expire(p) == SetStatus(p, "expiring", "expired")
NoShow(p) == SetStatus(p, "no_show", "no_show")

-----------------------------------------------------------------------------
(* modify_booking_dates.                                                    *)

Move(p, s) ==
    /\ pc[p] = "move" /\ s # seen[p].stay /\ Deletable(p)
    /\ AvailableWithout(on[p], s) >= ask[on[p]].rooms
    /\ blocks' = blocks \ Own(p)
    /\ goal' = [goal EXCEPT ![p] = s] /\ Goto(p, "moving")
    /\ UNCHANGED <<rows, free, assigned, main, seen, candidates, chosen, lock, begun, loose>>

(* A booking that is no longer confirmed is refused: its block would have a *)
(* reason the model rejects.                                                *)
SetDates(p) ==
    LET b == on[p] IN
    /\ pc[p] = "moving" /\ status[b] \in Active
    /\ stay' = [stay EXCEPT ![b] = goal[p]]
    /\ loose' = loose \cup {b}
    /\ Return(p)
    /\ UNCHANGED <<ask, status, arrived, departed, blocks, free, assigned, main, lock>>

-----------------------------------------------------------------------------
(* Check-in and check-out.                                                  *)

RoomLocked(p, r) == \E q \in Procs \ {p} : r \in candidates[q]

(* check_in finds no room assigned to the booking.                          *)
FindNone(p) ==
    /\ pc[p] = "arrive" /\ Inside(on[p]) = {} /\ Goto(p, "seeking")
    /\ UNCHANGED <<tables, seen, goal, candidates, chosen, lock, begun, loose>>

(* Mutant: the candidate rooms are read without FOR UPDATE.                 *)
LockRooms_NoWait(p) ==
    /\ pc[p] = "seeking"
    /\ candidates' = [candidates EXCEPT ![p] = free] /\ Goto(p, "choosing")
    /\ UNCHANGED <<tables, seen, goal, chosen, lock, begun, loose>>

(* The available rooms FOR UPDATE.                                          *)
LockRooms(p) ==
    /\ pc[p] = "seeking" /\ \A r \in free : ~RoomLocked(p, r)
    /\ candidates' = [candidates EXCEPT ![p] = free] /\ Goto(p, "choosing")
    /\ UNCHANGED <<tables, seen, goal, chosen, lock, begun, loose>>

(* The first of them, as many as were asked for, in the order the database  *)
(* gives them.  A room somebody is in ends the call, on whatever nights: to *)
(* compare its dates compares a method with a date, a TypeError (Abort).    *)
ChooseRooms(p) ==
    LET empty == {r \in candidates[p] : \A x \in assigned :
                    x.status = "checked_in" => x.room # r} IN
    /\ pc[p] = "choosing"
    /\ \E R \in kSubset(ask[on[p]].rooms, empty) : chosen' = [chosen EXCEPT ![p] = R]
    /\ Goto(p, "assigning")
    /\ UNCHANGED <<tables, seen, goal, candidates, lock, begun, loose>>

Arrive(p) ==
    /\ status' = [status EXCEPT ![on[p]] = "checked_in"] /\ NowActive(on[p])
    /\ arrived' = arrived \cup {on[p]}
    /\ Return(p)
    /\ UNCHANGED <<ask, stay, departed, blocks, lock>>

(* A booking is in a room once: the unique key of room_bookings.            *)
AssignRooms(p) ==
    LET b == on[p] IN
    /\ pc[p] = "assigning" /\ \A x \in assigned : x.of = b => x.room \notin chosen[p]
    /\ free' = free \ chosen[p]
    /\ assigned' = assigned \cup
         {[room |-> r, of |-> b, status |-> "checked_in"] : r \in chosen[p]}
    /\ \E r \in chosen[p] : main' = [main EXCEPT ![b] = r]
    /\ Arrive(p)

(* Rooms that another check-in has assigned are kept.                       *)
KeepRooms(p) ==
    /\ pc[p] = "arrive" /\ Cardinality(Inside(on[p])) = ask[on[p]].rooms
    /\ Arrive(p) /\ UNCHANGED <<free, assigned, main>>

(* The guest's own check-in, which assigns nothing.                         *)
SelfCheckIn(p) ==
    /\ pc[p] = "self_arrive" /\ Arrive(p) /\ UNCHANGED <<free, assigned, main>>

Leave(p) ==
    /\ status' = [status EXCEPT ![on[p]] = "checked_out"]
    /\ departed' = departed \cup {on[p]}
    /\ Return(p)
    /\ UNCHANGED <<ask, stay, arrived, blocks, main, lock, loose>>

(* Its rooms and the one it was loaded with become available.               *)
CheckOut(p) ==
    LET gone == Inside(on[p]) IN
    /\ pc[p] = "leave"
    /\ assigned' = (assigned \ gone) \cup {[x EXCEPT !.status = "checked_out"] : x \in gone}
    /\ free' = free \cup {x.room : x \in gone} \cup ({seen[p].room} \ {None})
    /\ Leave(p)

(* The guest's own check-out, which releases nothing.                       *)
SelfCheckOut(p) ==
    /\ pc[p] = "self_leave" /\ Leave(p) /\ UNCHANGED <<free, assigned>>

-----------------------------------------------------------------------------
Next ==
    \/ \E p \in Procs, b \in Bookings :
         CreateHold(p, b) \/ CheckUnits(p, b) \/ \E d \in Decisions : Load(p, b, d)
    \/ \E p \in Procs :
         \/ HoldLeft(p) \/ ConvertHold(p)
         \/ CheckAgain(p) \/ BlockUnits(p) \/ BlockRefused(p) \/ LeaveDraft(p)
         \/ Approve(p) \/ ReleaseBlocks(p) \/ CheckTransition(p)
         \/ Close(p) \/ Expire(p) \/ NoShow(p)
         \/ SetDates(p) \/ \E s \in Stays : Move(p, s)
         \/ FindNone(p) \/ LockRooms(p) \/ ChooseRooms(p) \/ AssignRooms(p)
         \/ KeepRooms(p) \/ SelfCheckIn(p) \/ CheckOut(p) \/ SelfCheckOut(p)
         \/ Abort(p)

Spec == Init /\ [][Next]_vars

-----------------------------------------------------------------------------
(* Properties.                                                              *)

Steps == {"idle", "held", "checked", "blocking", "drafted", "released", "closing",
          "expiring", "moving", "seeking", "choosing", "assigning"} \cup Decisions

(* Every variable has its type; who holds the advisory lock of the property *)
(* is between the check of create_booking and the commit of the block, and  *)
(* who has locked rooms is choosing among them.                             *)
TypeOK ==
    /\ ask \in [Bookings -> Requests] /\ status \in [Bookings -> Statuses]
    /\ stay \in [Bookings -> Stays] /\ blocks \subseteq Block
    /\ arrived \subseteq Bookings /\ departed \subseteq Bookings
    /\ free \subseteq Rooms /\ assigned \subseteq RoomBooking
    /\ main \in [Bookings -> Rooms \cup {None}]
    /\ pc \in [Procs -> Steps] /\ on \in [Procs -> Bookings \cup {None}]
    /\ seen \in [Procs -> Session \cup {None}]
    /\ goal \in [Procs -> Stays \cup {{}}] /\ candidates \in [Procs -> SUBSET Rooms]
    /\ chosen \in [Procs -> SUBSET Rooms]
    /\ lock \in Procs \cup {None} /\ begun \in 0 .. MaxOps /\ loose \subseteq Bookings
    /\ \A p \in Procs :
         /\ (on[p] = None) <=> (pc[p] = "idle")
         /\ (lock = p) => (pc[p] \in {"checked", "blocking"})
         /\ (candidates[p] # {}) => (pc[p] \in {"choosing", "assigning"})

(* On no night do the confirmed bookings and the bookings whose hold is     *)
(* still counted need more units than there are, however creations,         *)
(* approvals, cancellations and expiries interleave: the promise of the     *)
(* advisory lock.  It ends at the bookings that became active with no unit  *)
(* set aside for them: those of a checkout, those whose block was refused,  *)
(* those a stale approval or check-in revived, and those a host has moved.  *)
UnitsFit ==
    \A n \in UNION Stays :
        LET taking == {b \in Bookings \ loose : status[b] \in Active /\ n \in stay[b]}
            held   == {k \in blocks : k.reason = "hold" /\ k.of # None /\ n \in k.stay}
        IN  Booked(taking) + OnHold(held) <= Total

(* A hold that takes units off the market is that of a booking which still  *)
(* waits for its host, or one an abandoned checkout left to nobody: no unit *)
(* is counted for a booking and for its hold, or kept by an ended booking.  *)
HoldsAwait ==
    \A k \in blocks : k.reason = "hold" /\ k.of # None => status[k.of] \in Waiting

(* No two parties are in one room, whatever check-ins run at once and       *)
(* although a check-out that is repeated, or that has loaded the booking    *)
(* earlier, makes a room available which another party has moved into.      *)
RoomExclusive ==
    \A x, y \in assigned :
        x # y /\ x.status = "checked_in" /\ y.status = "checked_in" => x.room # y.room
=============================================================================
