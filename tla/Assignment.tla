----------------------------- MODULE Assignment -----------------------------
(***************************************************************************)
(* Drivers and vehicles of ride bookings: AssignmentService.claim, release  *)
(* and release_to_no_match (transport/services/assignment_service.py), and  *)
(* the writes of a booking's status by BookingService, the drivers' trip    *)
(* actions and the stall-recovery task.                                     *)
(*                                                                          *)
(* The database is PostgreSQL at READ COMMITTED.  Every statement sees what *)
(* is committed when it starts.  An UPDATE that finds its row locked waits  *)
(* and tests its condition again on the new version of that row, but a      *)
(* NOT EXISTS over other rows keeps its first answer.  An ORM object that   *)
(* the session has already loaded is not read again by a later query, so a  *)
(* status read early is written over whatever the row says at the commit.   *)
(***************************************************************************)
EXTENDS Fleet

CONSTANTS Bookings, Vehicles

VARIABLES
    row,        \* committed bookings: status and assigned driver and vehicle
    available,  \* Vehicle.is_available
    call,       \* what a request is doing
    locks,      \* the rows a transaction has locked
    disturbed   \* history: bookings and vehicles hit by a stale write or a
                \* forced claim of a busy vehicle

vars == <<row, available, call, locks, disturbed>>

\* "assigned" stands for assigned, driver_en_route and pickup_arrived,
\* "in_progress" for in_progress and disputed, "cancelled" for cancelled and
\* no_show.
Statuses == {"confirmed", "assigned", "in_progress",
             "completed", "cancelled", "no_match"}

\* ACTIVE_ASSIGNMENT_STATUSES and TERMINAL_RELEASE_STATUSES.
Active   == {"assigned", "in_progress"}
Terminal == {"completed", "cancelled"}

Row == [status : Statuses, driver : Drivers \cup {None},
        vehicle : Vehicles \cup {None}]

\* STATUS_TRANSITIONS, without the edges of no_match, which the constraint
\* chk_no_match_reason refuses to a write that leaves the reason as it is.
Transitions ==
    [s \in Statuses |->
        CASE s = "confirmed"   -> {"assigned", "cancelled"}
          [] s = "assigned"    -> {"assigned", "in_progress", "cancelled"}
          [] s = "in_progress" -> {"in_progress", "completed", "cancelled"}
          [] OTHER             -> {}]

Ops   == {"claim", "release", "stall", "driver_cancel", "write"}
Steps == {"driver", "booking", "read", "update", "vehicle", "wait", "commit"}

\* stale: the booking has changed since the session loaded it.
Call == [op : Ops, pc : Steps, booking : Bookings,
         driver : Drivers \cup {None}, vehicle : Vehicles \cup {None},
         forced : BOOLEAN, target : Statuses, stale : BOOLEAN]

ASSUME AssignmentAssumption ==
    /\ None \notin Bookings \cup Drivers \cup Vehicles \cup Call
    /\ Bookings \cap Drivers = {}
    /\ Bookings \cap Vehicles = {}
    /\ Drivers \cap Vehicles = {}

Running(c) == call[c] # None

Free(x) == \A c \in Calls : x \notin locks[c]

FreeFor(c, x) == \A o \in Calls \ {c} : x \notin locks[o]

\* driver_engaged_other and vehicle_engaged_other.
DriverEngaged(d, b) ==
    \E o \in Bookings \ {b} : row[o].driver = d /\ row[o].status \in Active

VehicleEngaged(v, b) ==
    \E o \in Bookings \ {b} : row[o].vehicle = v /\ row[o].status \in Active

Init ==
    /\ row = [b \in Bookings |->
                [status |-> "confirmed", driver |-> None, vehicle |-> None]]
    /\ available = [v \in Vehicles |-> TRUE]
    /\ call = [c \in Calls |-> None]
    /\ locks = [c \in Calls |-> {}]
    /\ disturbed = {}

-----------------------------------------------------------------------------
Goto(c, pc, new) ==
    /\ call' = [call EXCEPT ![c].pc = pc]
    /\ locks' = [locks EXCEPT ![c] = @ \cup new]

\* The end of a transaction that is rolled back.
Rollback_KeepsLocks(c) ==
    /\ call' = [call EXCEPT ![c] = None]
    /\ UNCHANGED <<row, available, locks, disturbed>>

Rollback(c) ==
    /\ call' = [call EXCEPT ![c] = None]
    /\ locks' = [locks EXCEPT ![c] = {}]
    /\ UNCHANGED <<row, available, disturbed>>

\* The calls that have loaded a booking and will write its status.
Outdates(o, b) ==
    /\ Running(o) /\ call[o].booking = b
    /\ call[o].pc \in {"read", "update"}

\* The other calls after booking b has changed.
Outdated(b) ==
    [o \in Calls |-> IF Outdates(o, b) THEN [call[o] EXCEPT !.stale = TRUE]
                                       ELSE call[o]]

\* The end of a transaction that commits booking b.
Commit(c, b, r) ==
    /\ row' = [row EXCEPT ![b] = r]
    /\ call' = [Outdated(b) EXCEPT ![c] = None]
    /\ locks' = [locks EXCEPT ![c] = {}]

\* A transaction of a single guarded UPDATE.
Update(b, status) ==
    /\ Free(b)
    /\ row' = [row EXCEPT ![b].status = status]
    /\ call' = Outdated(b)
    /\ UNCHANGED <<available, locks, disturbed>>

Begin(c, op, pc, b, d, v, f, t) ==
    /\ ~Running(c)
    /\ call' = [call EXCEPT ![c] =
                  [op |-> op, pc |-> pc, booking |-> b, driver |-> d,
                   vehicle |-> v, forced |-> f, target |-> t, stale |-> FALSE]]
    /\ UNCHANGED <<row, available, disturbed>>

\* An exception, an offline driver, a withdrawn vehicle, a lost connection
\* or the death of the process: the transaction is rolled back.
Abandon(c) ==
    /\ Running(c)
    /\ Rollback(c)

-----------------------------------------------------------------------------
\* AssignmentService.claim, from an administrator (forced or not), a legacy
\* offer or, with commit=False, the acceptance of a ride request.
Claim(c, b, d, v, f) ==
    /\ Begin(c, "claim", "driver", b, d, v, f, "assigned")
    /\ UNCHANGED locks

\* r0: the driver's row FOR UPDATE.
ClaimDriver_NoLock(c) ==
    /\ Running(c) /\ call[c].pc = "driver"
    /\ Goto(c, "booking", {})
    /\ UNCHANGED <<row, available, disturbed>>

ClaimDriver(c) ==
    /\ Running(c) /\ call[c].pc = "driver"
    /\ Free(call[c].driver)
    /\ Goto(c, "booking", {call[c].driver})
    /\ UNCHANGED <<row, available, disturbed>>

\* The guard of r1.
Claimable(b) == row[b].status = "confirmed" /\ row[b].driver = None

\* r1 and r2: the booking is taken and the driver has no other trip.
ClaimBooking(c) ==
    LET b == call[c].booking IN
    /\ Running(c) /\ call[c].pc = "booking"
    /\ Claimable(b) /\ Free(b)
    /\ ~DriverEngaged(call[c].driver, b)
    /\ Goto(c, "vehicle", {b})
    /\ UNCHANGED <<row, available, disturbed>>

\* The flag in the guard of r3.
FlagAllows_Ignored(c) == TRUE

FlagAllows(c) == available[call[c].vehicle] \/ call[c].forced

\* r3 starts: its conditions on the committed rows.
SeeVehicle(c) ==
    LET k == call[c] IN
    /\ Running(c) /\ k.pc = "vehicle" /\ k.op = "claim"
    /\ FlagAllows(c) /\ ~VehicleEngaged(k.vehicle, k.booking)
    /\ Goto(c, "wait", {})
    /\ UNCHANGED <<row, available, disturbed>>

\* r3 has the vehicle's row and tests its flag, and nothing else, again.
TakeVehicle(c) ==
    LET k == call[c] IN
    /\ Running(c) /\ k.pc = "wait" /\ k.op = "claim"
    /\ Free(k.vehicle) /\ FlagAllows(c)
    /\ Goto(c, "commit", {k.vehicle})
    /\ UNCHANGED <<row, available, disturbed>>

CommitClaim(c) ==
    LET k == call[c] IN
    /\ Running(c) /\ k.pc = "commit" /\ k.op = "claim"
    /\ Commit(c, k.booking,
              [status |-> "assigned", driver |-> k.driver, vehicle |-> k.vehicle])
    /\ available' = [available EXCEPT ![k.vehicle] = FALSE]
    /\ disturbed' = IF k.forced /\ VehicleEngaged(k.vehicle, k.booking)
                    THEN disturbed \cup {k.vehicle} ELSE disturbed

\* A DispatchClaimError: a guarded statement of the claim found no row.
ClaimRefused(c) ==
    LET k == call[c]
        b == k.booking
    IN  /\ Running(c) /\ k.op = "claim"
        /\ \/ k.pc = "booking" /\ ~Claimable(b)
           \/ k.pc = "booking" /\ Free(b) /\ DriverEngaged(k.driver, b)
           \/ k.pc = "vehicle" /\ ~(FlagAllows(c) /\ ~VehicleEngaged(k.vehicle, b))
           \/ k.pc = "wait" /\ Free(k.vehicle) /\ ~FlagAllows(c)
        /\ Rollback(c)

-----------------------------------------------------------------------------
\* A call that will run release(b, t): the driver completes the trip, the
\* rider cancels an assigned booking, an administrator ends a booking that has
\* a driver.  The booking was loaded before without a lock.
Release(c, b, t) ==
    /\ \/ t = "completed" /\ row[b].driver # None
       \/ t = "cancelled" /\ row[b].status \in Active /\ row[b].driver # None
       \/ t = "cancelled" /\ row[b].status = "assigned"
    /\ Begin(c, "release", "read", b, None, None, FALSE, t)
    /\ UNCHANGED locks

\* The stall-recovery task: release runs later, for each row of its list.
Stall(c, b) ==
    /\ row[b].status = "assigned"
    /\ Begin(c, "stall", "read", b, None, None, FALSE, "cancelled")
    /\ UNCHANGED locks

\* release reads the assignment.  The callers other than the task have pending
\* changes of the booking, which are flushed first and lock the row.
ReadAssignment(c) ==
    LET k == call[c]
        b == k.booking
    IN  /\ Running(c) /\ k.pc = "read"
        /\ k.op = "release" => Free(b)
        /\ call' = [call EXCEPT ![c].pc = "update", ![c].vehicle = row[b].vehicle]
        /\ locks' = [locks EXCEPT ![c] = IF k.op = "release" THEN @ \cup {b} ELSE @]
        /\ UNCHANGED <<row, available, disturbed>>

\* The guard of the transition of an assigned booking.
Releasable_Any(c) == call[c].vehicle # None

Releasable(c) ==
    call[c].vehicle # None /\ row[call[c].booking].status \in Active

\* The guarded UPDATE of the status and the assignment.
ReleaseBooking(c) ==
    LET k == call[c] IN
    /\ Running(c) /\ k.pc = "update" /\ k.op \in {"release", "stall"}
    /\ FreeFor(c, k.booking) /\ Releasable(c)
    /\ Goto(c, "vehicle", {k.booking})
    /\ UNCHANGED <<row, available, disturbed>>

\* driver_cancel and release_to_no_match: the row is locked and read afresh.
DriverCancel(c, b) ==
    /\ row[b].status = "assigned" /\ row[b].driver # None
    /\ Free(b)
    /\ Begin(c, "driver_cancel", "vehicle", b, None, row[b].vehicle, FALSE,
             "no_match")
    /\ locks' = [locks EXCEPT ![c] = @ \cup {b}]

\* The UPDATE that hands the vehicle back: it starts with the committed rows,
\* waits for the vehicle's row and tests the flag again.
MustReturn_Never(c) == FALSE

MustReturn(c) ==
    /\ ~available[call[c].vehicle]
    /\ ~VehicleEngaged(call[c].vehicle, call[c].booking)

SeeReturn(c) ==
    /\ Running(c) /\ call[c].pc = "vehicle" /\ call[c].op # "claim"
    /\ Goto(c, IF MustReturn(c) THEN "wait" ELSE "commit", {})
    /\ UNCHANGED <<row, available, disturbed>>

TakeReturn(c) ==
    LET v == call[c].vehicle IN
    /\ Running(c) /\ call[c].pc = "wait" /\ call[c].op # "claim"
    /\ Free(v)
    /\ Goto(c, "commit", IF available[v] THEN {} ELSE {v})
    /\ UNCHANGED <<row, available, disturbed>>

CommitRelease(c) ==
    LET k == call[c] IN
    /\ Running(c) /\ k.pc = "commit" /\ k.op # "claim"
    /\ Commit(c, k.booking,
              [status |-> k.target, driver |-> None, vehicle |-> None])
    /\ available' = [available EXCEPT ![k.vehicle] = @ \/ k.vehicle \in locks[c]]
    /\ disturbed' = disturbed \cup ({row[k.booking].vehicle} \ {k.vehicle, None})

-----------------------------------------------------------------------------
\* transition_status, when it does not release: the status it has loaded
\* allows the new one.  And retry_matching, whose locking read returns the
\* booking the route has loaded.
Write(c, b, t) ==
    /\ \/ /\ t \in Transitions[row[b].status]
          /\ t \in Terminal => row[b].driver = None
       \/ row[b].status = "no_match" /\ t = "confirmed"
    /\ Begin(c, "write", "update", b, None, None, FALSE, t)
    /\ UNCHANGED locks

\* retry_matching clears no_match_reason; any other write of the status of a
\* no_match booking breaks chk_no_match_reason.
Lawful(c) ==
    row[call[c].booking].status = "no_match" => call[c].target = "confirmed"

\* The unguarded UPDATE of the status: of transition_status and
\* retry_matching, and of release when it read no assignment.
Overwrite(c) ==
    LET k == call[c]
        b == k.booking
    IN  /\ Running(c) /\ k.pc = "update" /\ k.vehicle = None
        /\ FreeFor(c, b) /\ Lawful(c)
        /\ Commit(c, b, [row[b] EXCEPT !.status = k.target])
        /\ disturbed' = IF k.stale THEN disturbed \cup ({b, row[b].vehicle} \ {None})
                                   ELSE disturbed
        /\ UNCHANGED available

\* The transition of release found no active row, or the constraint failed.
UpdateRefused(c) ==
    LET k == call[c] IN
    /\ Running(c) /\ k.pc = "update" /\ FreeFor(c, k.booking)
    /\ IF k.vehicle = None THEN ~Lawful(c) ELSE ~Releasable(c)
    /\ Rollback(c)

-----------------------------------------------------------------------------
\* Single guarded UPDATEs: the trip actions of the driver, the rider's
\* cancellation before an assignment, mark_no_match.
Advance(b) ==
    /\ row[b].status = "assigned" /\ row[b].driver # None
    /\ Update(b, "in_progress")

CancelUnassigned(b) == row[b].status = "confirmed" /\ Update(b, "cancelled")

MarkNoMatch(b) == Claimable(b) /\ Update(b, "no_match")

-----------------------------------------------------------------------------
\* The steps of a call that has begun.
Step(c) ==
    \/ ClaimDriver(c) \/ ClaimBooking(c) \/ SeeVehicle(c) \/ TakeVehicle(c)
    \/ CommitClaim(c) \/ ClaimRefused(c)
    \/ ReadAssignment(c) \/ ReleaseBooking(c) \/ SeeReturn(c) \/ TakeReturn(c)
    \/ CommitRelease(c) \/ Overwrite(c) \/ UpdateRefused(c)

Next ==
    \/ \E c \in Calls :
        \/ Step(c)
        \/ Abandon(c)
        \/ \E b \in Bookings :
            \/ \E d \in Drivers, v \in Vehicles, f \in BOOLEAN : Claim(c, b, d, v, f)
            \/ \E t \in Terminal : Release(c, b, t)
            \/ Stall(c, b)
            \/ DriverCancel(c, b)
            \/ \E t \in Statuses : Write(c, b, t)
    \/ \E b \in Bookings : Advance(b) \/ CancelUnassigned(b) \/ MarkNoMatch(b)

Spec == Init /\ [][Next]_vars

-----------------------------------------------------------------------------
\* Besides the types: a transaction that has ended holds no lock, a row has at
\* most one holder, and a booking has a driver exactly when it has a vehicle.
TypeOK ==
    /\ row \in [Bookings -> Row]
    /\ available \in [Vehicles -> BOOLEAN]
    /\ call \in [Calls -> Call \cup {None}]
    /\ locks \in [Calls -> SUBSET (Bookings \cup Drivers \cup Vehicles)]
    /\ disturbed \subseteq Bookings \cup Vehicles
    /\ \A c \in Calls : Running(c) \/ locks[c] = {}
    /\ \A c, o \in Calls : c # o => locks[c] \cap locks[o] = {}
    /\ \A b \in Bookings : row[b].driver = None <=> row[b].vehicle = None

\* A driver has at most one active trip, whatever claims, forced claims and
\* releases run at the same time, unless one of the two bookings had its status
\* overwritten from a stale read (r0 and r2 of claim).
DriverExclusive ==
    \A a, b \in Bookings :
        /\ a # b /\ row[a].driver # None /\ row[a].driver = row[b].driver
        /\ row[a].status \in Active /\ row[b].status \in Active
        => a \in disturbed \/ b \in disturbed

\* A vehicle carries at most one active trip, unless a forced claim took it
\* while it was busy or a stale write revived a booking (r3 of claim).
VehicleExclusive ==
    \A a, b \in Bookings :
        /\ a # b /\ row[a].vehicle # None /\ row[a].vehicle = row[b].vehicle
        /\ row[a].status \in Active /\ row[b].status \in Active
        => row[a].vehicle \in disturbed

\* is_available is true exactly of the vehicles without an active trip: no
\* claim, release, refusal or crash leaves a vehicle marked busy for ever or
\* free during a trip, except after a stale write or a forced claim.
FlagMatchesTrips ==
    \A v \in Vehicles \ disturbed :
        available[v] <=> \A b \in Bookings :
                            row[b].vehicle = v => row[b].status \notin Active

\* A completed or cancelled booking keeps its status, unless a stale write
\* reaches it (the guards of claim, release and the status map).
TerminalStays ==
    [][\A b \in Bookings :
          row[b].status \in Terminal /\ row'[b].status # row[b].status
          => b \in disturbed']_vars
=============================================================================
