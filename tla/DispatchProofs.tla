--------------------------- MODULE DispatchProofs ---------------------------
(***************************************************************************)
(* Proofs about the dispatch of rides: Assignment, for any number of        *)
(* bookings, drivers, vehicles and calls, and RideDispatch, for any number  *)
(* of drivers, calls, rankings and searches.                                *)
(***************************************************************************)
EXTENDS Assignment, RideDispatch, TLAPS

-----------------------------------------------------------------------------
(* Assignment.                                                              *)

\* The steps of a transaction that has written its booking.
Late == {"vehicle", "wait", "commit"}

\* A claim works under the row locks of its driver, its booking and its
\* vehicle: nobody else gives the driver a trip, or hands the vehicle out,
\* after it has looked.
ClaimHolds(c) ==
    LET k == call[c] IN
    Running(c) /\ k.op = "claim" =>
        /\ k.pc \in {"driver", "booking"} \cup Late
        /\ k.driver \in Drivers /\ k.vehicle \in Vehicles
        /\ k.pc # "driver" => k.driver \in locks[c]
        /\ k.pc \in Late =>
             /\ k.booking \in locks[c] /\ Claimable(k.booking)
             /\ \A o \in Bookings \ {k.booking} :
                  row[o].driver = k.driver => o \in disturbed
        /\ k.pc = "commit" => k.vehicle \in locks[c] /\ FlagAllows(c)

\* A release works under the row lock of its booking, and hands back the
\* vehicle of that booking unless a stale read made it another one.
ReleaseHolds(c) ==
    LET k == call[c]
        same == row[k.booking].vehicle = k.vehicle
    IN  Running(c) /\ k.op # "claim" =>
        /\ k.pc \in {"read", "update"} \cup Late
        /\ k.op = "write" => k.pc = "update"
        /\ k.op = "driver_cancel" => k.pc \in Late
        /\ k.pc # "commit" => locks[c] \subseteq Bookings
        /\ k.pc \in Late =>
             /\ k.booking \in locks[c] /\ k.vehicle \in Vehicles
             /\ row[k.booking].status \in Active
        /\ k.pc = "wait" => same \/ k.vehicle \in disturbed
        /\ k.pc = "commit" =>
             (same <=> k.vehicle \in locks[c]) \/ k.vehicle \in disturbed

\* What a call that is not stale has read is still so.
Fresh(c) ==
    LET k == call[c]
        r == row[k.booking]
    IN  Running(c) /\ k.pc \in {"read", "update"} /\ ~k.stale =>
        /\ k.op = "write" =>
             \/ k.target \in Transitions[r.status] /\ (k.target \in Terminal => r.driver = None)
             \/ r.status = "no_match" /\ k.target = "confirmed"
        /\ k.op = "release" => r.driver # None \/ r.status = "assigned"
        /\ k.op = "stall" => r.status = "assigned"
        /\ k.op \in {"release", "stall"} /\ k.pc = "update" => k.vehicle = r.vehicle

CallsHold == \A c \in Calls : ClaimHolds(c) /\ ReleaseHolds(c) /\ Fresh(c)

\* Who has a driver is on a trip, but for stale writes.
OnTrip ==
    \A b \in Bookings :
        row[b].driver # None /\ (b \notin disturbed \/ row[b].vehicle \notin disturbed)
            => row[b].status \in Active

\* The inductive invariant.
IInv ==
    /\ TypeOK /\ CallsHold /\ OnTrip
    /\ DriverExclusive /\ VehicleExclusive /\ FlagMatchesTrips

-----------------------------------------------------------------------------
\* The initial state.
LEMMA InitHolds == Init => IInv
  BY AssignmentAssumption
  DEF Init, IInv, TypeOK, Row, Statuses, Running, CallsHold, ClaimHolds, ReleaseHolds, Fresh,
      OnTrip, DriverExclusive, VehicleExclusive, FlagMatchesTrips, Active

\* What the others do to a call that goes on: they change no row it has
\* locked, give its driver to nobody, and mark it stale when they change the
\* booking it has loaded.
Spares(o) ==
    /\ locks'[o] = locks[o] /\ disturbed \subseteq disturbed'
    /\ \A x \in Bookings : row'[x] = row[x] \/ x \notin locks[o]
    /\ \A v \in Vehicles : available'[v] = available[v] \/ v \notin locks[o]
    /\ \A x \in Bookings : row'[x].driver \in {row[x].driver, None} \/ row'[x].driver \notin locks[o]
    /\ \/ call'[o] = call[o] /\ (Outdates(o, call[o].booking) =>
                                   row'[call[o].booking] = row[call[o].booking])
       \/ Running(o) /\ call'[o] = [call[o] EXCEPT !.stale = TRUE]

LEMMA SparedHolds ==
  ASSUME IInv, NEW o \in Calls, Spares(o)
  PROVE  ClaimHolds(o)' /\ ReleaseHolds(o)' /\ Fresh(o)'
<1> SUFFICES ASSUME Running(o)' PROVE ClaimHolds(o)' /\ ReleaseHolds(o)' /\ Fresh(o)'
  BY DEF ClaimHolds, ReleaseHolds, Fresh
<1> DEFINE k == call[o]
           n == call'[o]
<1>1. Running(o) BY DEF Spares, Running
<1>2. k \in Call /\ ClaimHolds(o) /\ ReleaseHolds(o) /\ Fresh(o)
  BY <1>1 DEF IInv, TypeOK, Running, CallsHold
<1>3. /\ n.op = k.op /\ n.pc = k.pc /\ n.booking = k.booking /\ n.driver = k.driver
      /\ n.vehicle = k.vehicle /\ n.forced = k.forced /\ n.target = k.target
      /\ n.stale = k.stale \/ n.stale = TRUE
      /\ ~n.stale /\ k.pc \in {"read", "update"} => row'[k.booking] = row[k.booking]
  BY <1>1, <1>2 DEF Spares, Call, Outdates
<1>4. k.booking \in Bookings BY <1>2 DEF Call
<1>5. k.booking \in locks[o] => row'[k.booking] = row[k.booking]
  BY <1>4 DEF Spares
<1> HIDE DEF k, n
<1>6. ClaimHolds(o)'
  <2> SUFFICES ASSUME k.op = "claim"
               PROVE  /\ k.pc \in {"driver", "booking"} \cup Late
                      /\ k.driver \in Drivers /\ k.vehicle \in Vehicles
                      /\ k.pc # "driver" => k.driver \in locks[o]
                      /\ k.pc \in Late =>
                           /\ k.booking \in locks[o]
                           /\ row'[k.booking].status = "confirmed"
                           /\ row'[k.booking].driver = None
                           /\ \A x \in Bookings \ {k.booking} :
                                row'[x].driver = k.driver => x \in disturbed'
                      /\ k.pc = "commit" =>
                           k.vehicle \in locks[o] /\ (available'[k.vehicle] \/ k.forced)
    BY <1>3 DEF ClaimHolds, FlagAllows, Claimable, Spares, n
  <2>1. /\ k.pc \in {"driver", "booking"} \cup Late
        /\ k.driver \in Drivers /\ k.vehicle \in Vehicles
        /\ k.pc # "driver" => k.driver \in locks[o]
        /\ k.pc \in Late =>
             /\ k.booking \in locks[o] /\ Claimable(k.booking)
             /\ \A x \in Bookings \ {k.booking} : row[x].driver = k.driver => x \in disturbed
        /\ k.pc = "commit" => k.vehicle \in locks[o] /\ (available[k.vehicle] \/ k.forced)
    BY <1>1, <1>2 DEF ClaimHolds, FlagAllows, k
  <2>2. k.pc \in Late =>
          row'[k.booking].status = "confirmed" /\ row'[k.booking].driver = None
    BY <1>5, <2>1 DEF Claimable
  <2>3. ASSUME k.pc \in Late, NEW x \in Bookings \ {k.booking}, row'[x].driver = k.driver
        PROVE  x \in disturbed'
    <3>1. k.driver \in locks[o] BY <2>1, <2>3 DEF Late
    <3>2. row[x].driver = k.driver
      BY <2>1, <2>3, <3>1, AssignmentAssumption DEF Spares
    <3> QED BY <2>1, <2>3, <3>2 DEF Spares
  <2> QED BY <2>1, <2>2, <2>3 DEF Spares
<1>7. ReleaseHolds(o)'
  BY <1>1, <1>2, <1>3, <1>5 DEF ReleaseHolds, Spares, k, n, Late
<1>8. Fresh(o)'
  BY <1>1, <1>2, <1>3 DEF Fresh, k, n
<1> QED BY <1>6, <1>7, <1>8

-----------------------------------------------------------------------------
\* Steps that commit nothing.
Private(c) ==
    /\ UNCHANGED <<row, available, disturbed>>
    /\ \A o \in Calls \ {c} : call'[o] = call[o] /\ locks'[o] = locks[o]

LEMMA PrivateKeeps ==
  ASSUME IInv, NEW c \in Calls, Private(c), TypeOK',
         ClaimHolds(c)', ReleaseHolds(c)', Fresh(c)'
  PROVE  IInv'
<1>1. ASSUME NEW o \in Calls \ {c} PROVE ClaimHolds(o)' /\ ReleaseHolds(o)' /\ Fresh(o)'
  <2>1. Spares(o) BY DEF Private, Spares
  <2> QED BY <2>1, SparedHolds
<1>2. CallsHold' BY <1>1 DEF CallsHold
<1>3. OnTrip' /\ DriverExclusive' /\ VehicleExclusive' /\ FlagMatchesTrips'
  BY DEF Private, IInv, OnTrip, DriverExclusive, VehicleExclusive, FlagMatchesTrips
<1> QED BY <1>2, <1>3 DEF IInv

LEMMA RollbackKeeps ==
  ASSUME IInv, NEW c \in Calls, Rollback(c)
  PROVE  IInv'
<1>1. Private(c) BY DEF Rollback, Private, IInv, TypeOK
<1>2. TypeOK' BY DEF Rollback, IInv, TypeOK, Running
<1>3. call'[c] = None BY DEF Rollback, IInv, TypeOK
<1>4. ClaimHolds(c)' /\ ReleaseHolds(c)' /\ Fresh(c)'
  BY <1>3 DEF ClaimHolds, ReleaseHolds, Fresh, Running
<1> QED BY <1>1, <1>2, <1>4, PrivateKeeps

\* A call begins.
LEMMA BeginType ==
  ASSUME IInv, NEW c \in Calls, NEW k, k \in Call, ~Running(c),
         call' = [call EXCEPT ![c] = k], UNCHANGED <<row, available, disturbed>>,
         \/ locks' = locks
         \/ Free(k.booking) /\ locks' = [locks EXCEPT ![c] = @ \cup {k.booking}]
  PROVE  TypeOK' /\ Private(c) /\ Running(c)' /\ call'[c] = k /\ locks'[c] \subseteq Bookings
<1>1. k # None /\ k.booking \in Bookings BY AssignmentAssumption DEF Call
<1>2. locks[c] = {} BY DEF IInv, TypeOK
<1>3. Private(c) /\ Running(c)' /\ call'[c] = k
  BY <1>1, <1>2 DEF Private, Running, IInv, TypeOK
<1>4. TypeOK' BY <1>1, <1>2, <1>3 DEF IInv, TypeOK, Running, Private, Free
<1>5. locks'[c] \subseteq Bookings BY <1>1, <1>2 DEF IInv, TypeOK
<1> QED BY <1>3, <1>4, <1>5

LEMMA BeginKeeps ==
  ASSUME IInv, NEW c \in Calls, NEW b \in Bookings,
         \/ \E d \in Drivers, v \in Vehicles, f \in BOOLEAN : Claim(c, b, d, v, f)
         \/ \E t \in Terminal : Release(c, b, t)
         \/ Stall(c, b) \/ DriverCancel(c, b) \/ \E t \in Statuses : Write(c, b, t)
  PROVE  IInv'
<1>0. row[b] \in Row /\ (row[b].driver = None <=> row[b].vehicle = None)
  BY DEF IInv, TypeOK
<1>1. ASSUME NEW d \in Drivers, NEW v \in Vehicles, NEW f \in BOOLEAN, Claim(c, b, d, v, f)
      PROVE  IInv'
  <2>1. locks' = locks BY <1>1 DEF Claim
  <2> DEFINE k == [op |-> "claim", pc |-> "driver", booking |-> b,
                  driver |-> d, vehicle |-> v, forced |-> f,
                  target |-> "assigned", stale |-> FALSE]
  <2>2. k \in Call /\ ~Running(c) /\ call' = [call EXCEPT ![c] = k]
        /\ UNCHANGED <<row, available, disturbed>>
    BY <1>1, <2>1 DEF Claim, Begin, Call, Ops, Steps, Statuses
  <2> HIDE DEF k
  <2>3. TypeOK' /\ Private(c) /\ Running(c)' /\ call'[c] = k /\ locks'[c] \subseteq Bookings
    BY <1>1, <2>1, <2>2, BeginType
  <2>4. ClaimHolds(c)' /\ ReleaseHolds(c)' /\ Fresh(c)'
    BY <2>3 DEF k, ClaimHolds, ReleaseHolds, Fresh, Late
  <2> QED BY <2>3, <2>4, PrivateKeeps
<1>2. ASSUME NEW t \in Terminal, Release(c, b, t) PROVE IInv'
  <2>1. locks' = locks BY <1>2 DEF Release
  <2> DEFINE k == [op |-> "release", pc |-> "read", booking |-> b,
                  driver |-> None, vehicle |-> None, forced |-> FALSE,
                  target |-> t, stale |-> FALSE]
  <2>2. k \in Call /\ ~Running(c) /\ call' = [call EXCEPT ![c] = k]
        /\ UNCHANGED <<row, available, disturbed>>
    BY <1>2, <2>1 DEF Release, Begin, Call, Ops, Steps, Statuses, Terminal
  <2> HIDE DEF k
  <2>3. TypeOK' /\ Private(c) /\ Running(c)' /\ call'[c] = k /\ locks'[c] \subseteq Bookings
    BY <1>2, <2>1, <2>2, BeginType
  <2>4. ClaimHolds(c)' /\ ReleaseHolds(c)' /\ Fresh(c)'
    BY <1>2, <2>3 DEF k, ClaimHolds, ReleaseHolds, Fresh, Late, Release, Private
  <2> QED BY <2>3, <2>4, PrivateKeeps
<1>3. CASE Stall(c, b)
  <2>1. locks' = locks BY <1>3 DEF Stall
  <2> DEFINE k == [op |-> "stall", pc |-> "read", booking |-> b,
                  driver |-> None, vehicle |-> None, forced |-> FALSE,
                  target |-> "cancelled", stale |-> FALSE]
  <2>2. k \in Call /\ ~Running(c) /\ call' = [call EXCEPT ![c] = k]
        /\ UNCHANGED <<row, available, disturbed>>
    BY <1>3, <2>1 DEF Stall, Begin, Call, Ops, Steps, Statuses
  <2> HIDE DEF k
  <2>3. TypeOK' /\ Private(c) /\ Running(c)' /\ call'[c] = k /\ locks'[c] \subseteq Bookings
    BY <1>3, <2>1, <2>2, BeginType
  <2>4. ClaimHolds(c)' /\ ReleaseHolds(c)' /\ Fresh(c)'
    BY <1>3, <2>3 DEF k, ClaimHolds, ReleaseHolds, Fresh, Late, Stall, Private
  <2> QED BY <2>3, <2>4, PrivateKeeps
<1>4. CASE DriverCancel(c, b)
  <2>1. row[b].vehicle \in Vehicles /\ row[b].status \in Active
    BY <1>0, <1>4 DEF DriverCancel, Row, Active
  <2> DEFINE k == [op |-> "driver_cancel", pc |-> "vehicle", booking |-> b,
                  driver |-> None, vehicle |-> row[b].vehicle,
                  forced |-> FALSE, target |-> "no_match", stale |-> FALSE]
  <2>2. k \in Call /\ ~Running(c) /\ call' = [call EXCEPT ![c] = k]
        /\ UNCHANGED <<row, available, disturbed>>
    BY <1>4, <2>1 DEF DriverCancel, Begin, Call, Ops, Steps, Statuses
  <2>3. k.booking = b /\ Free(k.booking) /\ locks' = [locks EXCEPT ![c] = @ \cup {k.booking}]
    BY <1>4 DEF DriverCancel
  <2> HIDE DEF k
  <2>4. TypeOK' /\ Private(c) /\ Running(c)' /\ call'[c] = k /\ locks'[c] \subseteq Bookings
    BY <2>2, <2>3, BeginType
  <2>5. b \in locks'[c]
    BY <2>3 DEF IInv, TypeOK
  <2>6. ClaimHolds(c)' /\ ReleaseHolds(c)' /\ Fresh(c)'
    BY <2>1, <2>4, <2>5 DEF k, ClaimHolds, ReleaseHolds, Fresh, Late, Private
  <2> QED BY <2>4, <2>6, PrivateKeeps
<1>5. ASSUME NEW t \in Statuses, Write(c, b, t) PROVE IInv'
  <2>1. locks' = locks BY <1>5 DEF Write
  <2> DEFINE k == [op |-> "write", pc |-> "update", booking |-> b,
                  driver |-> None, vehicle |-> None, forced |-> FALSE,
                  target |-> t, stale |-> FALSE]
  <2>2. k \in Call /\ ~Running(c) /\ call' = [call EXCEPT ![c] = k]
        /\ UNCHANGED <<row, available, disturbed>>
    BY <1>5, <2>1 DEF Write, Begin, Call, Ops, Steps
  <2> HIDE DEF k
  <2>3. TypeOK' /\ Private(c) /\ Running(c)' /\ call'[c] = k /\ locks'[c] \subseteq Bookings
    BY <1>5, <2>1, <2>2, BeginType
  <2>4. ClaimHolds(c)' /\ ReleaseHolds(c)' /\ Fresh(c)'
    BY <1>5, <2>3 DEF k, ClaimHolds, ReleaseHolds, Fresh, Late, Write, Private
  <2> QED BY <2>3, <2>4, PrivateKeeps
<1> QED BY <1>1, <1>2, <1>3, <1>4, <1>5

\* A call takes a step, and perhaps a lock that nobody else holds.
LEMMA StepType ==
  ASSUME IInv, NEW c \in Calls, NEW n, n \in Call, NEW new,
         new \subseteq Bookings \cup Drivers \cup Vehicles, \A x \in new : FreeFor(c, x),
         call' = [call EXCEPT ![c] = n], locks' = [locks EXCEPT ![c] = @ \cup new],
         UNCHANGED <<row, available, disturbed>>
  PROVE  /\ TypeOK' /\ Private(c) /\ Running(c)'
         /\ call'[c] = n /\ locks'[c] = locks[c] \cup new
<1>1. call'[c] = n /\ n # None
  BY AssignmentAssumption DEF IInv, TypeOK
<1>2. locks'[c] = locks[c] \cup new /\ \A o \in Calls \ {c} : locks'[o] = locks[o]
  BY DEF IInv, TypeOK
<1>3. Private(c) /\ Running(c)'
  BY <1>1, <1>2 DEF Private, Running, IInv, TypeOK
<1>4. TypeOK'
  <2>1. call' \in [Calls -> Call \cup {None}] BY DEF IInv, TypeOK
  <2>2. locks' \in [Calls -> SUBSET (Bookings \cup Drivers \cup Vehicles)]
    BY DEF IInv, TypeOK
  <2>3. \A o \in Calls : Running(o)' \/ locks'[o] = {}
    BY <1>3 DEF Private, Running, IInv, TypeOK
  <2>4. ASSUME NEW o \in Calls, NEW q \in Calls, o # q PROVE locks'[o] \cap locks'[q] = {}
    BY <1>2, <2>4 DEF IInv, TypeOK, FreeFor
  <2> QED BY <2>1, <2>2, <2>3, <2>4 DEF IInv, TypeOK
<1> QED BY <1>1, <1>2, <1>3, <1>4

LEMMA GotoType ==
  ASSUME IInv, NEW c \in Calls, Running(c), NEW pc \in Steps, NEW new,
         new \subseteq Bookings \cup Drivers \cup Vehicles, \A x \in new : FreeFor(c, x),
         Goto(c, pc, new), UNCHANGED <<row, available, disturbed>>
  PROVE  /\ TypeOK' /\ Private(c) /\ Running(c)'
         /\ call'[c] = [call[c] EXCEPT !.pc = pc] /\ locks'[c] = locks[c] \cup new
<1> DEFINE n == [call[c] EXCEPT !.pc = pc]
<1>1. call[c] \in Call BY DEF IInv, TypeOK, Running
<1>2. n \in Call BY <1>1 DEF Call
<1>3. call' = [call EXCEPT ![c] = n] /\ locks' = [locks EXCEPT ![c] = @ \cup new]
  BY DEF Goto, IInv, TypeOK
<1> HIDE DEF n
<1>4. /\ TypeOK' /\ Private(c) /\ Running(c)'
      /\ call'[c] = n /\ locks'[c] = locks[c] \cup new
  BY <1>2, <1>3, StepType
<1> QED BY <1>4 DEF n

LEMMA ClaimStepsKeep ==
  ASSUME IInv, NEW c \in Calls,
         ClaimDriver(c) \/ ClaimBooking(c) \/ SeeVehicle(c) \/ TakeVehicle(c)
  PROVE  IInv'
<1> DEFINE k == call[c]
<1>0. Running(c) /\ k \in Call
  BY DEF IInv, TypeOK, Running, ClaimDriver, ClaimBooking, SeeVehicle, TakeVehicle
<1>1. k.op = "claim" /\ k.driver \in Drivers /\ k.vehicle \in Vehicles /\ k.booking \in Bookings
  <2>1. k.op = "claim"
    BY <1>0 DEF ClaimDriver, ClaimBooking, SeeVehicle, TakeVehicle, IInv, CallsHold,
       ReleaseHolds, Late
  <2> QED BY <1>0, <2>1 DEF IInv, CallsHold, ClaimHolds, Call
<1>2. CASE ClaimDriver(c)
  <2> DEFINE new == {k.driver}
  <2>0. /\ "booking" \in Steps /\ new \subseteq Bookings \cup Drivers \cup Vehicles
        /\ \A x \in new : FreeFor(c, x)
        /\ Goto(c, "booking", new) /\ UNCHANGED <<row, available, disturbed>>
    BY <1>0, <1>1, <1>2 DEF ClaimDriver, Free, FreeFor, Steps
  <2> HIDE DEF new
  <2>1. /\ TypeOK' /\ Private(c) /\ Running(c)'
        /\ call'[c] = [k EXCEPT !.pc = "booking"] /\ locks'[c] = locks[c] \cup new
    BY <1>0, <2>0, GotoType
  <2> USE DEF new
  <2>2. ClaimHolds(c)' /\ ReleaseHolds(c)' /\ Fresh(c)'
    BY <1>0, <1>1, <2>1 DEF ClaimHolds, ReleaseHolds, Fresh, Late, Call
  <2> QED BY <2>1, <2>2, PrivateKeeps
<1>3. CASE ClaimBooking(c)
  <2> DEFINE new == {k.booking}
  <2>0. /\ "vehicle" \in Steps /\ new \subseteq Bookings \cup Drivers \cup Vehicles
        /\ \A x \in new : FreeFor(c, x)
        /\ Goto(c, "vehicle", new) /\ UNCHANGED <<row, available, disturbed>>
    BY <1>0, <1>1, <1>3 DEF ClaimBooking, Free, FreeFor, Steps
  <2> HIDE DEF new
  <2>1. /\ TypeOK' /\ Private(c) /\ Running(c)'
        /\ call'[c] = [k EXCEPT !.pc = "vehicle"] /\ locks'[c] = locks[c] \cup new
    BY <1>0, <2>0, GotoType
  <2> USE DEF new
  <2>2. k.driver \in locks[c] /\ Claimable(k.booking)
    BY <1>0, <1>1, <1>3 DEF ClaimBooking, IInv, CallsHold, ClaimHolds
  <2>3. \A o \in Bookings \ {k.booking} : row[o].driver = k.driver => o \in disturbed
    BY <1>1, <1>3, AssignmentAssumption DEF ClaimBooking, DriverEngaged, IInv, OnTrip
  <2>4. ClaimHolds(c)' /\ ReleaseHolds(c)' /\ Fresh(c)'
    BY <1>0, <1>1, <2>1, <2>2, <2>3
       DEF ClaimHolds, ReleaseHolds, Fresh, Late, Call, Claimable, Private
  <2> QED BY <2>1, <2>4, PrivateKeeps
<1>4. CASE SeeVehicle(c)
  <2> DEFINE new == {}
  <2>0. /\ "wait" \in Steps /\ new \subseteq Bookings \cup Drivers \cup Vehicles
        /\ \A x \in new : FreeFor(c, x)
        /\ Goto(c, "wait", new) /\ UNCHANGED <<row, available, disturbed>>
    BY <1>0, <1>1, <1>4 DEF SeeVehicle, Free, FreeFor, Steps
  <2> HIDE DEF new
  <2>1. /\ TypeOK' /\ Private(c) /\ Running(c)'
        /\ call'[c] = [k EXCEPT !.pc = "wait"] /\ locks'[c] = locks[c] \cup new
    BY <1>0, <2>0, GotoType
  <2> USE DEF new
  <2>2. ClaimHolds(c) /\ k.pc = "vehicle"
    BY <1>4 DEF SeeVehicle, IInv, CallsHold
  <2>3. ClaimHolds(c)' /\ ReleaseHolds(c)' /\ Fresh(c)'
    BY <1>0, <1>1, <2>1, <2>2
       DEF ClaimHolds, ReleaseHolds, Fresh, Late, Call, Claimable, Private
  <2> QED BY <2>1, <2>3, PrivateKeeps
<1>5. CASE TakeVehicle(c)
  <2> DEFINE new == {k.vehicle}
  <2>0. /\ "commit" \in Steps /\ new \subseteq Bookings \cup Drivers \cup Vehicles
        /\ \A x \in new : FreeFor(c, x)
        /\ Goto(c, "commit", new) /\ UNCHANGED <<row, available, disturbed>>
    BY <1>0, <1>1, <1>5 DEF TakeVehicle, Free, FreeFor, Steps
  <2> HIDE DEF new
  <2>1. /\ TypeOK' /\ Private(c) /\ Running(c)'
        /\ call'[c] = [k EXCEPT !.pc = "commit"] /\ locks'[c] = locks[c] \cup new
    BY <1>0, <2>0, GotoType
  <2> USE DEF new
  <2>2. ClaimHolds(c) /\ k.pc = "wait" /\ FlagAllows(c)
    BY <1>5 DEF TakeVehicle, IInv, CallsHold
  <2>3. ClaimHolds(c)' /\ ReleaseHolds(c)' /\ Fresh(c)'
    BY <1>0, <1>1, <2>1, <2>2
       DEF ClaimHolds, ReleaseHolds, Fresh, Late, Call, Claimable, FlagAllows, Private
  <2> QED BY <2>1, <2>3, PrivateKeeps
<1> QED BY <1>2, <1>3, <1>4, <1>5

LEMMA ReadAssignmentKeeps ==
  ASSUME IInv, NEW c \in Calls, ReadAssignment(c)
  PROVE  IInv'
<1> DEFINE k == call[c]
           n == [k EXCEPT !.pc = "update", !.vehicle = row[k.booking].vehicle]
           new == IF k.op = "release" THEN {k.booking} ELSE {}
<1>1. k \in Call /\ k.pc = "read" /\ k.booking \in Bookings /\ row[k.booking] \in Row
  BY DEF ReadAssignment, IInv, TypeOK, Running, Call
<1>2. k.op \in {"release", "stall"}
  BY <1>1 DEF ReadAssignment, IInv, CallsHold, ClaimHolds, ReleaseHolds, Late, Call, Ops
<1>3. n \in Call BY <1>1 DEF Call, Steps, Row
<1>4. /\ call' = [call EXCEPT ![c] = n] /\ locks' = [locks EXCEPT ![c] = @ \cup new]
      /\ new \subseteq Bookings \cup Drivers \cup Vehicles /\ \A x \in new : FreeFor(c, x)
      /\ UNCHANGED <<row, available, disturbed>>
  BY <1>1 DEF ReadAssignment, IInv, TypeOK, Free, FreeFor
<1>5. n.op = k.op /\ n.pc = "update" /\ n.booking = k.booking /\ n.target = k.target
      /\ n.stale = k.stale /\ n.vehicle = row[k.booking].vehicle
  BY <1>1 DEF Call
<1> HIDE DEF n, new
<1>6. TypeOK' /\ Private(c) /\ Running(c)' /\ call'[c] = n /\ locks'[c] = locks[c] \cup new
  BY <1>3, <1>4, StepType
<1>7. Fresh(c) /\ Running(c) BY DEF IInv, CallsHold, ReadAssignment
<1>8. Fresh(c)' BY <1>1, <1>2, <1>5, <1>6, <1>7 DEF Fresh, Private
<1>9. locks'[c] \subseteq Bookings
  BY <1>1, <1>2, <1>6, <1>7 DEF IInv, CallsHold, ReleaseHolds, new
<1>10. ClaimHolds(c)' /\ ReleaseHolds(c)'
  BY <1>2, <1>5, <1>6, <1>9 DEF ClaimHolds, ReleaseHolds, Late
<1> QED BY <1>6, <1>8, <1>10, PrivateKeeps

LEMMA ReleaseBookingKeeps ==
  ASSUME IInv, NEW c \in Calls, ReleaseBooking(c)
  PROVE  IInv'
<1> DEFINE k == call[c]
           new == {k.booking}
<1>1. k \in Call /\ Running(c) /\ k.op \in {"release", "stall"} /\ k.booking \in Bookings
  BY DEF ReleaseBooking, IInv, TypeOK, Running, Call
<1>2. /\ "vehicle" \in Steps /\ new \subseteq Bookings \cup Drivers \cup Vehicles
      /\ \A x \in new : FreeFor(c, x)
      /\ Goto(c, "vehicle", new) /\ UNCHANGED <<row, available, disturbed>>
  BY <1>1 DEF ReleaseBooking, Steps
<1>3. k.vehicle \in Vehicles /\ row[k.booking].status \in Active
  BY <1>1 DEF ReleaseBooking, Releasable, Call
<1> HIDE DEF new
<1>4. /\ TypeOK' /\ Private(c) /\ Running(c)'
      /\ call'[c] = [k EXCEPT !.pc = "vehicle"] /\ locks'[c] = locks[c] \cup new
  BY <1>1, <1>2, GotoType
<1>5. locks'[c] \subseteq Bookings /\ k.booking \in locks'[c]
  BY <1>1, <1>4 DEF ReleaseBooking, IInv, CallsHold, ReleaseHolds, new
<1>6. ClaimHolds(c)' /\ ReleaseHolds(c)' /\ Fresh(c)'
  BY <1>1, <1>3, <1>4, <1>5 DEF ClaimHolds, ReleaseHolds, Fresh, Late, Call, Private
<1> QED BY <1>4, <1>6, PrivateKeeps

\* The vehicle's row is left alone when it carries another trip or is marked
\* free, neither of which can be so of the vehicle of an active trip.
LEMMA ReturnStepsKeep ==
  ASSUME IInv, NEW c \in Calls, SeeReturn(c) \/ TakeReturn(c)
  PROVE  IInv'
<1> DEFINE k == call[c]
           b == k.booking
           v == k.vehicle
           same == row[b].vehicle = v
<1>1. k \in Call /\ Running(c) /\ k.op # "claim"
  BY DEF SeeReturn, TakeReturn, IInv, TypeOK, Running
<1>2. k.pc \in Late /\ ReleaseHolds(c)
  BY <1>1 DEF SeeReturn, TakeReturn, IInv, CallsHold, Late
<1>3. b \in locks[c] /\ b \in Bookings /\ v \in Vehicles /\ row[b].status \in Active
  BY <1>1, <1>2 DEF ReleaseHolds, Call
<1>4. same /\ v \notin disturbed => ~available[v] /\ ~VehicleEngaged(v, b)
  BY <1>3, AssignmentAssumption DEF IInv, FlagMatchesTrips, VehicleExclusive, VehicleEngaged
<1>5. ~same /\ v \notin disturbed /\ ~available[v] => VehicleEngaged(v, b)
  BY <1>3 DEF IInv, FlagMatchesTrips, VehicleEngaged
<1>6. CASE SeeReturn(c)
  <2> DEFINE new == {}
             pc == IF MustReturn(c) THEN "wait" ELSE "commit"
  <2>1. /\ pc \in Steps /\ new \subseteq Bookings \cup Drivers \cup Vehicles
        /\ \A x \in new : FreeFor(c, x)
        /\ Goto(c, pc, new) /\ UNCHANGED <<row, available, disturbed>>
    BY <1>6 DEF SeeReturn, Steps
  <2>2. \/ pc = "wait" /\ ~available[v] /\ ~VehicleEngaged(v, b)
        \/ pc = "commit" /\ ~(~available[v] /\ ~VehicleEngaged(v, b))
    BY DEF MustReturn
  <2> HIDE DEF new, pc
  <2>3. /\ TypeOK' /\ Private(c) /\ Running(c)'
        /\ call'[c] = [k EXCEPT !.pc = pc] /\ locks'[c] = locks[c] \cup new
    BY <1>1, <2>1, GotoType
  <2>4. pc = "commit" => v \notin locks'[c]
    BY <1>1, <1>2, <1>3, <1>6, <2>3, AssignmentAssumption DEF SeeReturn, ReleaseHolds, new
  <2>5. ClaimHolds(c)' /\ ReleaseHolds(c)' /\ Fresh(c)'
    BY <1>1, <1>2, <1>3, <1>4, <1>5, <1>6, <2>2, <2>3, <2>4
       DEF SeeReturn, ClaimHolds, ReleaseHolds, Fresh, Late, Call, Private, new
  <2> QED BY <2>3, <2>5, PrivateKeeps
<1>7. CASE TakeReturn(c)
  <2> DEFINE new == IF available[v] THEN {} ELSE {v}
  <2>1. /\ "commit" \in Steps /\ new \subseteq Bookings \cup Drivers \cup Vehicles
        /\ \A x \in new : FreeFor(c, x)
        /\ Goto(c, "commit", new) /\ UNCHANGED <<row, available, disturbed>>
    BY <1>3, <1>7 DEF TakeReturn, Steps, Free, FreeFor
  <2>2. ~available[v] => v \in new OBVIOUS
  <2> HIDE DEF new
  <2>3. /\ TypeOK' /\ Private(c) /\ Running(c)'
        /\ call'[c] = [k EXCEPT !.pc = "commit"] /\ locks'[c] = locks[c] \cup new
    BY <1>1, <2>1, GotoType
  <2>4. same \/ v \in disturbed
    BY <1>1, <1>2, <1>7 DEF TakeReturn, ReleaseHolds
  <2>5. ClaimHolds(c)' /\ ReleaseHolds(c)' /\ Fresh(c)'
    BY <1>1, <1>2, <1>3, <1>4, <1>7, <2>2, <2>3, <2>4
       DEF TakeReturn, ClaimHolds, ReleaseHolds, Fresh, Late, Call, Private
  <2> QED BY <2>3, <2>5, PrivateKeeps
<1> QED BY <1>6, <1>7

-----------------------------------------------------------------------------
\* A booking is written: what becomes of the other calls.
LEMMA WriteSpares ==
  ASSUME IInv, NEW o \in Calls, NEW b \in Bookings, NEW r,
         row' = [row EXCEPT ![b] = r], b \notin locks[o],
         r.driver \in {row[b].driver, None} \/ r.driver \notin locks[o],
         call'[o] = Outdated(b)[o], locks'[o] = locks[o], disturbed \subseteq disturbed',
         \A v \in Vehicles : available'[v] = available[v] \/ v \notin locks[o]
  PROVE  Spares(o) /\ call'[o] \in Call \cup {None} /\ (Running(o)' <=> Running(o))
<1>1. /\ call'[o] = IF Outdates(o, b) THEN [call[o] EXCEPT !.stale = TRUE] ELSE call[o]
      /\ call[o] \in Call \cup {None}
  BY DEF Outdated, IInv, TypeOK
<1>2. row'[b] = r /\ \A x \in Bookings \ {b} : row'[x] = row[x]
  BY DEF IInv, TypeOK
<1>3. Spares(o)
  <2>1. \A x \in Bookings : row'[x] = row[x] \/ x \notin locks[o] BY <1>2
  <2>2. \A x \in Bookings :
           row'[x].driver \in {row[x].driver, None} \/ row'[x].driver \notin locks[o]
    BY <1>2
  <2>3. CASE Outdates(o, b)
    BY <1>1, <2>1, <2>2, <2>3 DEF Spares, Outdates
  <2>4. CASE ~Outdates(o, b)
    <3>1. call'[o] = call[o] BY <1>1, <2>4
    <3>2. Outdates(o, call[o].booking) =>
             call[o].booking \in Bookings /\ call[o].booking # b
      BY <1>1, <2>4 DEF Outdates, Running, Call
    <3> QED BY <1>2, <2>1, <2>2, <3>1, <3>2 DEF Spares
  <2> QED BY <2>3, <2>4
<1>4. CASE Outdates(o, b)
  <2>1. call[o] \in Call BY <1>1, <1>4 DEF Outdates, Running
  <2>2. call'[o] \in Call BY <1>1, <1>4, <2>1 DEF Call
  <2> QED BY <1>3, <2>1, <2>2, AssignmentAssumption DEF Running
<1>5. CASE ~Outdates(o, b)
  BY <1>1, <1>3, <1>5 DEF Running
<1> QED BY <1>4, <1>5

\* The end of a transaction that commits: nobody else has the booking, the
\* driver it is given to, or the vehicle whose flag changes.
LEMMA CommitType ==
  ASSUME IInv, NEW c \in Calls, NEW b \in Bookings, NEW r, r \in Row,
         Commit(c, b, r), FreeFor(c, b),
         r.driver = None <=> r.vehicle = None,
         r.driver \in {row[b].driver, None} \cup locks[c],
         disturbed \subseteq disturbed', disturbed' \subseteq Bookings \cup Vehicles,
         available' \in [Vehicles -> BOOLEAN],
         \A v \in Vehicles : available'[v] = available[v] \/ v \in locks[c]
  PROVE  /\ TypeOK' /\ CallsHold'
         /\ row'[b] = r /\ \A x \in Bookings \ {b} : row'[x] = row[x]
<1>1. row'[b] = r /\ \A x \in Bookings \ {b} : row'[x] = row[x]
  BY DEF Commit, IInv, TypeOK
<1>2. call'[c] = None /\ locks'[c] = {}
  BY DEF Commit, Outdated, IInv, TypeOK
<1>3. ASSUME NEW o \in Calls \ {c}
      PROVE  /\ Spares(o) /\ call'[o] \in Call \cup {None} /\ (Running(o)' <=> Running(o))
             /\ locks'[o] = locks[o]
  <2>1. locks[o] \cap locks[c] = {} BY DEF IInv, TypeOK
  <2>2. call'[o] = Outdated(b)[o] /\ locks'[o] = locks[o]
    BY DEF Commit, Outdated, IInv, TypeOK
  <2>3. b \notin locks[o] BY DEF FreeFor
  <2>4. r.driver \in {row[b].driver, None} \/ r.driver \notin locks[o] BY <2>1
  <2>5. \A v \in Vehicles : available'[v] = available[v] \/ v \notin locks[o] BY <2>1
  <2>6. row' = [row EXCEPT ![b] = r] BY DEF Commit
  <2> QED BY <2>2, <2>3, <2>4, <2>5, <2>6, WriteSpares
<1>4. CallsHold'
  <2>1. ClaimHolds(c)' /\ ReleaseHolds(c)' /\ Fresh(c)'
    BY <1>2 DEF ClaimHolds, ReleaseHolds, Fresh, Running
  <2>2. ASSUME NEW o \in Calls \ {c} PROVE ClaimHolds(o)' /\ ReleaseHolds(o)' /\ Fresh(o)'
    BY <1>3, SparedHolds
  <2> QED BY <2>1, <2>2 DEF CallsHold
<1>5. TypeOK'
  <2>1. row' \in [Bookings -> Row] BY DEF Commit, IInv, TypeOK
  <2>2. call' \in [Calls -> Call \cup {None}]
    <3>1. call' = [o \in Calls |-> call'[o]] BY DEF Commit, Outdated
    <3> QED BY <1>2, <1>3, <3>1
  <2>3. locks' \in [Calls -> SUBSET (Bookings \cup Drivers \cup Vehicles)]
    BY DEF Commit, IInv, TypeOK
  <2>4. \A o \in Calls : Running(o)' \/ locks'[o] = {}
    BY <1>2, <1>3 DEF IInv, TypeOK
  <2>5. ASSUME NEW o \in Calls, NEW q \in Calls, o # q PROVE locks'[o] \cap locks'[q] = {}
    BY <1>2, <1>3, <2>5 DEF IInv, TypeOK
  <2>6. \A x \in Bookings : row'[x].driver = None <=> row'[x].vehicle = None
    BY <1>1 DEF IInv, TypeOK
  <2> QED BY <2>1, <2>2, <2>3, <2>4, <2>5, <2>6 DEF TypeOK
<1> QED BY <1>1, <1>4, <1>5

LEMMA CommitClaimKeeps ==
  ASSUME IInv, NEW c \in Calls, CommitClaim(c)
  PROVE  IInv'
<1> DEFINE k == call[c]
           b == k.booking
           d == k.driver
           v == k.vehicle
           r == [status |-> "assigned", driver |-> d, vehicle |-> v]
<1>1. Running(c) /\ k \in Call /\ k.op = "claim" /\ k.pc = "commit" /\ Commit(c, b, r)
  BY DEF CommitClaim, IInv, TypeOK, Running
<1>2. /\ b \in Bookings /\ d \in Drivers /\ v \in Vehicles
      /\ d \in locks[c] /\ b \in locks[c] /\ v \in locks[c]
      /\ row[b].driver = None
      /\ \A o \in Bookings \ {b} : row[o].driver = d => o \in disturbed
      /\ available[v] \/ k.forced
  BY <1>1 DEF IInv, CallsHold, ClaimHolds, FlagAllows, Claimable, Late, Call
<1>3. row[b].vehicle = None BY <1>2 DEF IInv, TypeOK
<1>4. /\ available' = [available EXCEPT ![v] = FALSE]
      /\ disturbed \subseteq disturbed' /\ disturbed' \subseteq disturbed \cup {v}
      /\ k.forced /\ VehicleEngaged(v, b) => v \in disturbed'
  BY DEF CommitClaim
<1>5. VehicleEngaged(v, b) => v \in disturbed'
  BY <1>2, <1>4 DEF VehicleEngaged, IInv, FlagMatchesTrips
<1>6. /\ r \in Row /\ FreeFor(c, b) /\ r.driver = d /\ r.vehicle = v /\ r.status = "assigned"
      /\ d # None /\ v # None
  BY <1>2, AssignmentAssumption DEF Row, Statuses, FreeFor, IInv, TypeOK
<1>7. /\ available' \in [Vehicles -> BOOLEAN] /\ ~available'[v]
      /\ \A x \in Vehicles \ {v} : available'[x] = available[x]
  BY <1>2, <1>4 DEF IInv, TypeOK
<1>8. disturbed' \subseteq Bookings \cup Vehicles BY <1>2, <1>4 DEF IInv, TypeOK
<1> HIDE DEF k, b, d, v, r
<1>9. /\ TypeOK' /\ CallsHold'
      /\ row'[b] = r /\ \A x \in Bookings \ {b} : row'[x] = row[x]
  <2>1. /\ r.driver = None <=> r.vehicle = None
        /\ r.driver \in {row[b].driver, None} \cup locks[c]
        /\ \A x \in Vehicles : available'[x] = available[x] \/ x \in locks[c]
    BY <1>2, <1>6, <1>7
  <2> QED BY <1>1, <1>2, <1>4, <1>6, <1>7, <1>8, <2>1, CommitType
<1>10. OnTrip'
  BY <1>4, <1>6, <1>9 DEF IInv, OnTrip, Active
<1>11. DriverExclusive'
  <2> SUFFICES ASSUME NEW x \in Bookings, NEW y \in Bookings, x # y,
                      row'[x].driver # None, row'[x].driver = row'[y].driver,
                      row'[x].status \in Active, row'[y].status \in Active
               PROVE  x \in disturbed' \/ y \in disturbed'
    BY DEF DriverExclusive
  <2>1. CASE x = b BY <1>2, <1>4, <1>6, <1>9, <2>1
  <2>2. CASE y = b BY <1>2, <1>4, <1>6, <1>9, <2>2
  <2>3. CASE x # b /\ y # b
    <3>1. row'[x] = row[x] /\ row'[y] = row[y] BY <1>9, <2>3
    <3> QED BY <1>4, <3>1 DEF IInv, DriverExclusive
  <2> QED BY <2>1, <2>2, <2>3
<1>12. VehicleExclusive'
  BY <1>4, <1>5, <1>6, <1>9 DEF IInv, VehicleExclusive, VehicleEngaged
<1>13. FlagMatchesTrips'
  BY <1>2, <1>3, <1>4, <1>6, <1>7, <1>9, AssignmentAssumption
     DEF IInv, FlagMatchesTrips, Active
<1> QED BY <1>9, <1>10, <1>11, <1>12, <1>13 DEF IInv

LEMMA CommitReleaseKeeps ==
  ASSUME IInv, NEW c \in Calls, CommitRelease(c)
  PROVE  IInv'
<1> DEFINE k == call[c]
           b == k.booking
           v == k.vehicle
           w == row[b].vehicle
           r == [status |-> k.target, driver |-> None, vehicle |-> None]
<1>1. Running(c) /\ k \in Call /\ k.op # "claim" /\ k.pc = "commit" /\ Commit(c, b, r)
  BY DEF CommitRelease, IInv, TypeOK, Running
<1>2. /\ b \in Bookings /\ v \in Vehicles /\ b \in locks[c] /\ row[b].status \in Active
      /\ (w = v <=> v \in locks[c]) \/ v \in disturbed
  BY <1>1 DEF IInv, CallsHold, ReleaseHolds, Late, Call
<1>3. /\ available' = [available EXCEPT ![v] = @ \/ v \in locks[c]]
      /\ disturbed' = disturbed \cup ({w} \ {v, None})
      /\ w \in Vehicles \cup {None}
  BY <1>2 DEF CommitRelease, IInv, TypeOK, Row
<1>4. /\ available' \in [Vehicles -> BOOLEAN]
      /\ \A x \in Vehicles \ {v} : available'[x] = available[x]
      /\ available'[v] = (available[v] \/ v \in locks[c])
  BY <1>2, <1>3 DEF IInv, TypeOK
<1>5. disturbed' \subseteq Bookings \cup Vehicles BY <1>3 DEF IInv, TypeOK
<1>6. r \in Row /\ FreeFor(c, b) /\ r.driver = None /\ r.vehicle = None
  BY <1>1, <1>2 DEF Row, Call, FreeFor, IInv, TypeOK
<1>7. v # None BY <1>2, AssignmentAssumption
<1> HIDE DEF k, b, v, r
<1>8. \A x \in Vehicles : available'[x] = available[x] \/ x \in locks[c]
  BY <1>2, <1>4 DEF IInv, TypeOK
<1>9. /\ TypeOK' /\ CallsHold'
      /\ row'[b] = r /\ \A x \in Bookings \ {b} : row'[x] = row[x]
  BY <1>1, <1>2, <1>3, <1>4, <1>5, <1>6, <1>8, CommitType
<1>10. OnTrip' /\ DriverExclusive' /\ VehicleExclusive'
  BY <1>3, <1>6, <1>9 DEF IInv, OnTrip, DriverExclusive, VehicleExclusive
<1>11. FlagMatchesTrips'
  <2> SUFFICES ASSUME NEW x \in Vehicles \ disturbed'
               PROVE  available'[x] <=> \A y \in Bookings :
                                          row'[y].vehicle = x => row'[y].status \notin Active
    BY DEF FlagMatchesTrips
  <2>1. x # None /\ x \notin disturbed BY <1>3, AssignmentAssumption
  <2>2. available[x] <=> \A y \in Bookings : row[y].vehicle = x => row[y].status \notin Active
    BY <2>1 DEF IInv, FlagMatchesTrips
  <2>3. CASE x = w
    <3>1. x = v /\ available'[x] BY <1>2, <1>3, <1>4, <2>1, <2>3
    <3>2. \A y \in Bookings \ {b} : row[y].vehicle = x => row[y].status \notin Active
      BY <1>2, <2>1, <2>3 DEF IInv, VehicleExclusive
    <3> QED BY <1>6, <1>9, <2>1, <3>1, <3>2
  <2>4. CASE x # w
    <3>1. available'[x] = available[x] BY <1>2, <1>4, <2>1, <2>4 DEF IInv, TypeOK
    <3> QED BY <1>6, <1>9, <2>1, <2>2, <2>4, <3>1
  <2> QED BY <2>3, <2>4
<1> QED BY <1>9, <1>10, <1>11 DEF IInv

\* A status is written and nothing else: the booking has no driver, stays on
\* its trip, or is one of the disturbed.
LEMMA StatusKeeps ==
  ASSUME IInv, NEW b \in Bookings, TypeOK', CallsHold',
         row'[b].driver = row[b].driver, row'[b].vehicle = row[b].vehicle,
         \A x \in Bookings \ {b} : row'[x] = row[x],
         available' = available, disturbed \subseteq disturbed',
         \/ row[b].driver = None
         \/ b \in disturbed' /\ row[b].vehicle \in disturbed'
         \/ row[b].status \in Active /\ row'[b].status \in Active
  PROVE  IInv'
<1>1. row[b].driver = None <=> row[b].vehicle = None BY DEF IInv, TypeOK
<1>2. OnTrip' BY <1>1 DEF IInv, OnTrip
<1>3. DriverExclusive'
  <2> SUFFICES ASSUME NEW x \in Bookings, NEW y \in Bookings, x # y,
                      row'[x].driver # None, row'[x].driver = row'[y].driver,
                      row'[x].status \in Active, row'[y].status \in Active,
                      x \notin disturbed', y \notin disturbed'
               PROVE  FALSE
    BY DEF DriverExclusive
  <2>1. /\ row[x].driver = row'[x].driver /\ row[y].driver = row'[y].driver
        /\ row[x].status \in Active /\ row[y].status \in Active
    OBVIOUS
  <2> QED BY <2>1 DEF IInv, DriverExclusive
<1>4. VehicleExclusive'
  <2> SUFFICES ASSUME NEW x \in Bookings, NEW y \in Bookings, x # y,
                      row'[x].vehicle # None, row'[x].vehicle = row'[y].vehicle,
                      row'[x].status \in Active, row'[y].status \in Active,
                      row'[x].vehicle \notin disturbed'
               PROVE  FALSE
    BY DEF VehicleExclusive
  <2>1. /\ row[x].vehicle = row'[x].vehicle /\ row[y].vehicle = row'[y].vehicle
        /\ row[x].status \in Active /\ row[y].status \in Active
    BY <1>1
  <2> QED BY <2>1 DEF IInv, VehicleExclusive
<1>5. FlagMatchesTrips'
  <2> SUFFICES ASSUME NEW x \in Vehicles \ disturbed'
               PROVE  available[x] <=> \A y \in Bookings :
                                          row'[y].vehicle = x => row'[y].status \notin Active
    BY DEF FlagMatchesTrips
  <2>1. x # None /\ x \notin disturbed BY AssignmentAssumption
  <2>2. \A y \in Bookings :
           /\ row'[y].vehicle = row[y].vehicle
           /\ row[y].vehicle = x => (row'[y].status \in Active <=> row[y].status \in Active)
    BY <1>1, <2>1
  <2> QED BY <2>1, <2>2 DEF IInv, FlagMatchesTrips
<1> QED BY <1>2, <1>3, <1>4, <1>5 DEF IInv

LEMMA OverwriteKeeps ==
  ASSUME IInv, NEW c \in Calls, Overwrite(c)
  PROVE  IInv'
<1> DEFINE k == call[c]
           b == k.booking
           r == [row[b] EXCEPT !.status = k.target]
<1>1. /\ Running(c) /\ k \in Call /\ k.pc = "update" /\ k.vehicle = None
      /\ FreeFor(c, b) /\ Commit(c, b, r) /\ available' = available
      /\ disturbed' = IF k.stale THEN disturbed \cup ({b, row[b].vehicle} \ {None})
                                 ELSE disturbed
  BY DEF Overwrite, IInv, TypeOK, Running
<1>2. /\ b \in Bookings /\ row[b] \in Row /\ k.target \in Statuses
      /\ (row[b].driver = None <=> row[b].vehicle = None)
  BY <1>1 DEF IInv, TypeOK, Call
<1>3. /\ r \in Row /\ r.driver = row[b].driver /\ r.vehicle = row[b].vehicle
      /\ r.status = k.target
  BY <1>2 DEF Row
<1>4. k.op \in {"write", "release", "stall"} /\ Fresh(c)
  BY <1>1 DEF IInv, CallsHold, ClaimHolds, ReleaseHolds, Late, Call, Ops
<1>5. \/ row[b].driver = None
      \/ b \in disturbed' /\ row[b].vehicle \in disturbed'
      \/ row[b].status \in Active /\ r.status \in Active
  <2>1. CASE k.stale
    BY <1>1, <1>2, <2>1, AssignmentAssumption
  <2>2. CASE ~k.stale /\ k.op # "write"
    BY <1>1, <1>2, <1>4, <2>2 DEF Fresh
  <2>3. CASE ~k.stale /\ k.op = "write"
    <3>1. \/ /\ k.target \in Transitions[row[b].status]
             /\ k.target \in Terminal => row[b].driver = None
          \/ row[b].status = "no_match"
      BY <1>1, <2>3, <1>4 DEF Fresh
    <3>2. row[b].driver # None /\ ~(b \in disturbed /\ row[b].vehicle \in disturbed)
            => row[b].status \in Active
      BY <1>2 DEF IInv, OnTrip
    <3>3. row[b].status \in Active /\ k.target \in Transitions[row[b].status]
            => k.target \in Active \cup Terminal
      BY DEF Active, Terminal, Transitions, Statuses
    <3> QED BY <1>1, <1>3, <2>3, <3>1, <3>2, <3>3 DEF Active
  <2> QED BY <2>1, <2>2, <2>3
<1>6. /\ disturbed \subseteq disturbed' /\ disturbed' \subseteq Bookings \cup Vehicles
      /\ available' \in [Vehicles -> BOOLEAN]
      /\ r.driver = None <=> r.vehicle = None
      /\ r.driver \in {row[b].driver, None} \cup locks[c]
      /\ \A v \in Vehicles : available'[v] = available[v] \/ v \in locks[c]
  BY <1>1, <1>2, <1>3 DEF IInv, TypeOK, Row
<1> HIDE DEF k, b, r
<1>7. /\ TypeOK' /\ CallsHold'
      /\ row'[b] = r /\ \A x \in Bookings \ {b} : row'[x] = row[x]
  BY <1>1, <1>2, <1>3, <1>6, CommitType
<1> QED BY <1>1, <1>2, <1>3, <1>5, <1>6, <1>7, StatusKeeps

\* The single UPDATEs.
LEMMA UpdateType ==
  ASSUME IInv, NEW b \in Bookings, NEW s \in Statuses, Update(b, s)
  PROVE  /\ TypeOK' /\ CallsHold' /\ UNCHANGED <<available, disturbed>>
         /\ row'[b].driver = row[b].driver /\ row'[b].vehicle = row[b].vehicle
         /\ row'[b].status = s /\ \A x \in Bookings \ {b} : row'[x] = row[x]
<1> DEFINE r == [row[b] EXCEPT !.status = s]
<1>1. /\ row' = [row EXCEPT ![b] = r] /\ Free(b) /\ call' = Outdated(b)
      /\ locks' = locks /\ UNCHANGED <<available, disturbed>>
  BY DEF Update, IInv, TypeOK
<1>2. /\ r \in Row /\ r.driver = row[b].driver /\ r.vehicle = row[b].vehicle
      /\ r.status = s
  BY DEF Row, IInv, TypeOK
<1> HIDE DEF r
<1>3. row'[b] = r /\ \A x \in Bookings \ {b} : row'[x] = row[x]
  BY <1>1 DEF IInv, TypeOK
<1>4. ASSUME NEW o \in Calls
      PROVE  Spares(o) /\ call'[o] \in Call \cup {None} /\ (Running(o)' <=> Running(o))
  <2>1. b \notin locks[o] BY <1>1 DEF Free
  <2> QED BY <1>1, <1>2, <2>1, WriteSpares
<1>5. CallsHold' BY <1>4, SparedHolds DEF CallsHold
<1>6. TypeOK'
  <2>1. row' \in [Bookings -> Row] BY <1>1, <1>2 DEF IInv, TypeOK
  <2>2. call' \in [Calls -> Call \cup {None}] BY <1>1, <1>4 DEF Outdated
  <2>3. \A o \in Calls : Running(o)' \/ locks'[o] = {} BY <1>1, <1>4 DEF IInv, TypeOK
  <2>4. \A x \in Bookings : row'[x].driver = None <=> row'[x].vehicle = None
    BY <1>2, <1>3 DEF IInv, TypeOK
  <2> QED BY <1>1, <2>1, <2>2, <2>3, <2>4 DEF IInv, TypeOK
<1> QED BY <1>1, <1>2, <1>3, <1>5, <1>6

LEMMA UpdateKeeps ==
  ASSUME IInv, NEW b \in Bookings, Advance(b) \/ CancelUnassigned(b) \/ MarkNoMatch(b)
  PROVE  IInv'
<1>1. PICK s \in {"in_progress", "cancelled", "no_match"} :
         /\ Update(b, s)
         /\ \/ s = "in_progress" /\ row[b].status = "assigned"
            \/ s = "cancelled" /\ row[b].status = "confirmed"
            \/ s = "no_match" /\ row[b].driver = None
  BY DEF Advance, CancelUnassigned, MarkNoMatch, Claimable
<1>2. s \in Statuses BY DEF Statuses
<1>3. /\ TypeOK' /\ CallsHold' /\ UNCHANGED <<available, disturbed>>
      /\ row'[b].driver = row[b].driver /\ row'[b].vehicle = row[b].vehicle
      /\ row'[b].status = s /\ \A x \in Bookings \ {b} : row'[x] = row[x]
  BY <1>1, <1>2, UpdateType
<1>4. \/ row[b].driver = None
      \/ b \in disturbed' /\ row[b].vehicle \in disturbed'
      \/ row[b].status \in Active /\ row'[b].status \in Active
  BY <1>1, <1>3 DEF IInv, OnTrip, Active
<1> QED BY <1>3, <1>4, StatusKeeps

-----------------------------------------------------------------------------
LEMMA StepKeeps ==
  ASSUME IInv, [Next]_vars
  PROVE  IInv'
<1>1. ASSUME NEW c \in Calls, Step(c) PROVE IInv'
  <2>1. CASE ClaimDriver(c) \/ ClaimBooking(c) \/ SeeVehicle(c) \/ TakeVehicle(c)
    BY <2>1, ClaimStepsKeep
  <2>2. CASE CommitClaim(c) BY <2>2, CommitClaimKeeps
  <2>3. CASE ClaimRefused(c) \/ UpdateRefused(c)
    <3>1. Rollback(c) BY <2>3 DEF ClaimRefused, UpdateRefused
    <3> QED BY <3>1, RollbackKeeps
  <2>4. CASE ReadAssignment(c) BY <2>4, ReadAssignmentKeeps
  <2>5. CASE ReleaseBooking(c) BY <2>5, ReleaseBookingKeeps
  <2>6. CASE SeeReturn(c) \/ TakeReturn(c) BY <2>6, ReturnStepsKeep
  <2>7. CASE CommitRelease(c) BY <2>7, CommitReleaseKeeps
  <2>8. CASE Overwrite(c) BY <2>8, OverwriteKeeps
  <2> QED BY <1>1, <2>1, <2>2, <2>3, <2>4, <2>5, <2>6, <2>7, <2>8 DEF Step
<1>2. ASSUME NEW c \in Calls, Abandon(c) PROVE IInv'
  BY <1>2, RollbackKeeps DEF Abandon
<1>3. ASSUME NEW c \in Calls, NEW b \in Bookings,
             \/ \E d \in Drivers, v \in Vehicles, f \in BOOLEAN : Claim(c, b, d, v, f)
             \/ \E t \in Terminal : Release(c, b, t)
             \/ Stall(c, b) \/ DriverCancel(c, b) \/ \E t \in Statuses : Write(c, b, t)
      PROVE  IInv'
  BY <1>3, BeginKeeps
<1>4. ASSUME NEW b \in Bookings, Advance(b) \/ CancelUnassigned(b) \/ MarkNoMatch(b)
      PROVE  IInv'
  BY <1>4, UpdateKeeps
<1>5. CASE UNCHANGED vars
  BY <1>5 DEF vars, IInv, TypeOK, CallsHold, ClaimHolds, ReleaseHolds, Fresh, OnTrip, Running,
     Claimable, FlagAllows, DriverExclusive, VehicleExclusive, FlagMatchesTrips
<1> QED BY <1>1, <1>2, <1>3, <1>4, <1>5 DEF Next

LEMMA IInvAlways == Spec => []IInv
  BY InitHolds, StepKeeps, PTL DEF Spec

\* The types; a transaction that has ended holds no lock, no row has two
\* holders, and a booking has a driver exactly when it has a vehicle.
THEOREM AssignmentTypes == Spec => []TypeOK
  BY IInvAlways, PTL DEF IInv

\* A driver never has two active trips, for any number of claims, forced
\* claims, releases and stall recoveries, but for bookings hit by a stale write.
THEOREM DriversAreExclusive == Spec => []DriverExclusive
  BY IInvAlways, PTL DEF IInv

\* A vehicle never carries two active trips, but for one that a forced claim
\* took while it was busy or a stale write gave a second booking.
THEOREM VehiclesAreExclusive == Spec => []VehicleExclusive
  BY IInvAlways, PTL DEF IInv

\* is_available says exactly whether the vehicle is on a trip, whatever claims
\* and releases are refused, abandoned or overlap.
THEOREM FlagsMatchTrips == Spec => []FlagMatchesTrips
  BY IInvAlways, PTL DEF IInv

-----------------------------------------------------------------------------
\* Only the unguarded write of a status that was read before the booking ended
\* brings an ended booking back.
LEMMA TerminalStep ==
  ASSUME IInv, [Next]_vars, NEW b \in Bookings,
         row[b].status \in Terminal, row'[b].status # row[b].status
  PROVE  b \in disturbed'
<1>0. row[b].status \in {"completed", "cancelled"} BY DEF Terminal
<1>1. ~UNCHANGED row OBVIOUS
<1>2. ASSUME NEW c \in Calls, NEW x \in Bookings, NEW r, Commit(c, x, r) PROVE b = x
  BY <1>1, <1>2 DEF Commit, IInv, TypeOK
<1>3. ASSUME NEW c \in Calls, CommitClaim(c) PROVE b \in disturbed'
  <2>1. call[c] \in Call /\ ClaimHolds(c) BY <1>3 DEF CommitClaim, Running, IInv, TypeOK, CallsHold
  <2>2. b = call[c].booking BY <1>2, <1>3, <2>1 DEF CommitClaim, Call
  <2> QED BY <1>0, <1>3, <2>1, <2>2 DEF CommitClaim, ClaimHolds, Late, Claimable
<1>4. ASSUME NEW c \in Calls, CommitRelease(c) PROVE b \in disturbed'
  <2>1. call[c] \in Call /\ ReleaseHolds(c)
    BY <1>4 DEF CommitRelease, Running, IInv, TypeOK, CallsHold
  <2>2. b = call[c].booking BY <1>2, <1>4, <2>1 DEF CommitRelease, Call
  <2> QED BY <1>0, <1>4, <2>1, <2>2 DEF CommitRelease, ReleaseHolds, Late, Active
<1>5. ASSUME NEW c \in Calls, Overwrite(c) PROVE b \in disturbed'
  <2> DEFINE k == call[c]
  <2>1. /\ Running(c) /\ k \in Call /\ k.pc = "update" /\ k.vehicle = None
        /\ ClaimHolds(c) /\ ReleaseHolds(c) /\ Fresh(c)
    BY <1>5 DEF Overwrite, Running, IInv, TypeOK, CallsHold
  <2>2. b = k.booking BY <1>2, <1>5, <2>1 DEF Overwrite, Call
  <2>3. k.op \in {"write", "release", "stall"}
    BY <2>1 DEF ClaimHolds, ReleaseHolds, Late, Call, Ops
  <2>4. row[b].driver = None <=> row[b].vehicle = None BY DEF IInv, TypeOK
  <2>5. Transitions[row[b].status] = {} BY <1>0 DEF Transitions, Statuses
  <2>6. k.stale BY <1>0, <2>1, <2>2, <2>3, <2>4, <2>5 DEF Fresh
  <2> QED BY <1>5, <2>2, <2>6, AssignmentAssumption DEF Overwrite
<1>6. ASSUME NEW x \in Bookings, Advance(x) \/ CancelUnassigned(x) \/ MarkNoMatch(x)
      PROVE  FALSE
  BY <1>0, <1>1, <1>6
     DEF Advance, CancelUnassigned, MarkNoMatch, Claimable, Update, IInv, TypeOK
<1>7. ASSUME NEW c \in Calls, Step(c) PROVE b \in disturbed'
  BY <1>1, <1>3, <1>4, <1>5, <1>7
     DEF Step, ClaimDriver, ClaimBooking, SeeVehicle, TakeVehicle, ClaimRefused, Rollback,
         ReadAssignment, ReleaseBooking, SeeReturn, TakeReturn, UpdateRefused
<1>8. ASSUME NEW c \in Calls, Abandon(c) PROVE FALSE BY <1>1, <1>8 DEF Abandon, Rollback
<1>9. ASSUME NEW c \in Calls, NEW x \in Bookings,
             \/ \E d \in Drivers, v \in Vehicles, f \in BOOLEAN : Claim(c, x, d, v, f)
             \/ \E t \in Terminal : Release(c, x, t)
             \/ Stall(c, x) \/ DriverCancel(c, x) \/ \E t \in Statuses : Write(c, x, t)
      PROVE  FALSE
  BY <1>1, <1>9 DEF Claim, Release, Stall, DriverCancel, Write, Begin
<1> QED BY <1>1, <1>6, <1>7, <1>8, <1>9 DEF Next, vars

\* A booking that is completed or cancelled keeps its status, unless a stale
\* write reaches it.
THEOREM EndedBookingsStay == Spec => TerminalStays
<1>1. IInv /\ [Next]_vars =>
        [\A b \in Bookings :
            row[b].status \in Terminal /\ row'[b].status # row[b].status
            => b \in disturbed']_vars
  BY TerminalStep
<1> QED BY <1>1, IInvAlways, PTL DEF Spec, TerminalStays

-----------------------------------------------------------------------------
(* RideDispatch.                                                            *)

\* The call inside a claim holds the row lock and its driver's offer is open.
ClaimReady ==
    \A c \in Calls :
        At(c, "accept", "claim") =>
            holder = c /\ ask[c].driver \in Drivers
                       /\ offer[ask[c].driver] = "offered"

\* An acceptance is made for a driver.
Drives ==
    \A c \in Calls : Underway(c) /\ ask[c].op = "accept" => ask[c].driver \in Drivers

\* A search without its pool has made no attempt, one with it has an open offer.
SearchShape ==
    cycle = "searching" =>
        IF pool = None THEN \A d \in Drivers : offer[d] = "none"
                       ELSE Offered # {}

\* A search is that of a searching request, or was opened on a cancelled one.
Owned ==
    /\ cycle = "searching" => request = "searching" \/ revived
    /\ request = "none" => cycle = "none"

RideInv ==
    /\ RideTypeOK /\ OffersLive /\ WinnerRecorded
    /\ ClaimReady /\ Drives /\ SearchShape /\ Owned

-----------------------------------------------------------------------------
LEMMA RideInitHolds == RideInit => RideInv
<1> SUFFICES ASSUME RideInit PROVE RideInv
  OBVIOUS
<1>1. RideTypeOK
  <2>1. \A c \in Calls : holder # c
    BY DispatchAssumption DEF RideInit
  <2>2. number \in 0 .. MaxCycles
    BY DispatchAssumption DEF RideInit
  <2>3. found \in Listed \cup {None} /\ revived \in BOOLEAN
    BY DEF RideInit
  <2> QED
    BY <2>1, <2>2, <2>3 DEF RideInit, RideTypeOK, Requested, Searches, Offers
<1>2. ClaimReady /\ Drives
  BY DEF RideInit, ClaimReady, Drives, At, Underway
<1> QED
  BY <1>1, <1>2
     DEF RideInit, RideInv, OffersLive, WinnerRecorded, SearchShape, Owned, Offered

\* What a step of the search does, and what it needs of its caller.
Moved ==
    /\ cycle \in {"searching", "expired", "cancelled"}
    /\ cycle' \in {"searching", "expired", "cancelled"}
    /\ number' \in 0 .. MaxCycles
    /\ pool' \in Pools \cup {None}
    /\ offer' \in [Drivers -> Offers]
    /\ lapsed' \subseteq {"offer", "window"}
    /\ revived' \in BOOLEAN
    /\ cycle' = "searching" => request = "searching" \/ revived'
    /\ \A d, e \in Drivers : offer'[d] = "offered" /\ offer'[e] = "offered" => d = e
    /\ cycle' # "searching" => \A d \in Drivers : offer'[d] # "offered"
    /\ SearchShape'

Stays ==
    \A d \in Drivers :
        number' = number /\ offer[d] \notin {"none", "offered"} => offer'[d] = offer[d]

Still == UNCHANGED <<search, revived>>

LEMMA CloseMoves ==
    ASSUME RideInv, cycle = "searching", NEW e \in {"expired", "cancelled"},
           NEW s \in {"timed_out", "declined", "claim_failed", "withdrawn"},
           CloseCycle(e, s, Offered)
    PROVE  Moved /\ Stays /\ \A d \in Drivers : offer'[d] # "offered"
BY DEF RideInv, RideTypeOK, Moved, Stays, CloseCycle, SearchShape, Offers, Offered

\* The same with a copy of an offer that may have ended.
LEMMA StaleCloseMoves ==
    ASSUME RideInv, cycle = "searching", NEW S, Offered \subseteq S,
           CloseCycle("expired", "timed_out", S)
    PROVE  Moved
BY DEF RideInv, RideTypeOK, Moved, CloseCycle, SearchShape, Offers, Offered

LEMMA OpenMoves ==
    ASSUME RideInv, cycle \in Retryable, OpenCycle
    PROVE  Moved /\ Stays /\ \A d \in Drivers : offer'[d] # "offered"
<1>1. request \in {"searching", "cancelled"}
  BY DEF RideInv, RideTypeOK, Owned, WinnerRecorded, Retryable, Requested
<1>2. revived' \in BOOLEAN /\ (request = "searching" \/ revived')
  BY <1>1 DEF OpenCycle
<1> QED
  BY <1>1, <1>2, DispatchAssumption
     DEF RideInv, RideTypeOK, Moved, Stays, OpenCycle, SearchShape, Offers, Retryable

LEMMA AdvanceMoves ==
    ASSUME RideInv, cycle = "searching", NEW d \in Offered,
           NEW s \in {"timed_out", "declined", "claim_failed"},
           AdvanceLocked(d, s)
    PROVE  Moved /\ Stays
<1>1. CASE CloseCycle("expired", s, Offered)
  BY <1>1, CloseMoves
<1>2. ASSUME NEW i \in Unused, InsertOffer(pool[i], [offer EXCEPT ![d] = s])
      PROVE  Moved /\ Stays
  <2>1. d \in Drivers /\ offer[d] = "offered" /\ pool # None
    BY DEF Offered, RideInv, SearchShape
  <2>2. pool \in Seq(Drivers)
    BY <2>1, DispatchAssumption DEF RideInv, RideTypeOK
  <2>3. pool[i] \in Drivers /\ offer[pool[i]] = "none"
    BY <1>2, <2>2 DEF Unused
  <2>4. \A e \in Drivers : offer[e] = "offered" => e = d
    BY <2>1 DEF RideInv, OffersLive, Offered
  <2>5. offer' = [e \in Drivers |-> IF e = pool[i] THEN "offered"
                                    ELSE IF e = d THEN s ELSE offer[e]]
    BY <1>2, <2>1, <2>3 DEF InsertOffer, RideInv, RideTypeOK
  <2> DEFINE n == pool[i]
  <2>6. n \in Drivers /\ offer[n] = "none" /\ n # d
    BY <2>1, <2>3
  <2> HIDE DEF n
  <2>7. offer' = [e \in Drivers |-> IF e = n THEN "offered"
                                    ELSE IF e = d THEN s ELSE offer[e]]
    BY <2>5 DEF n
  <2>8. offer' \in [Drivers -> Offers]
    BY <2>7 DEF RideInv, RideTypeOK, Offers
  <2>9. SearchShape'
    BY <1>2, <2>1, <2>6, <2>7 DEF InsertOffer, SearchShape, Offered
  <2> QED
    BY <1>2, <2>1, <2>4, <2>6, <2>7, <2>8, <2>9
       DEF InsertOffer, Moved, Stays, RideInv, RideTypeOK, Owned
<1> QED
  BY <1>1, <1>2 DEF AdvanceLocked

LEMMA LateMoves ==
    ASSUME RideInv, cycle = "searching", NEW d \in Offered, AdvanceIfLate(d)
    PROVE  (Moved /\ Stays) \/ Still
BY AdvanceMoves DEF AdvanceIfLate, Still

LEMMA FirstMoves ==
    ASSUME RideInv, cycle = "searching", Offered = {},
           NEW p \in IF pool = None THEN Pools ELSE {pool}, FirstOffer(p)
    PROVE  Moved /\ Stays
<1>1. p \in Pools /\ p \in Seq(Drivers) /\ p # None
  BY DispatchAssumption DEF RideInv, RideTypeOK, SearchShape
<1>2. \A d \in Drivers : offer[d] = "none"
  BY DEF RideInv, SearchShape
<1>3. CASE Len(p) = 0
  <2>1. /\ cycle' = "expired" /\ pool' = p
        /\ UNCHANGED <<number, offer, lapsed, revived>>
    BY <1>3 DEF FirstOffer
  <2>2. SearchShape' /\ Stays
    BY <2>1 DEF SearchShape, Stays
  <2> QED
    BY <1>1, <1>2, <2>1, <2>2 DEF Moved, RideInv, RideTypeOK, Offers
<1>4. CASE Len(p) # 0
  <2> DEFINE n == Head(p)
  <2>1. n \in Drivers
    BY <1>1, <1>4
  <2> HIDE DEF n
  <2>2. offer' = [e \in Drivers |-> IF e = n THEN "offered" ELSE "none"]
    BY <1>2, <1>4, <2>1 DEF FirstOffer, n, RideInv, RideTypeOK
  <2>3. SearchShape'
    BY <1>1, <1>4, <2>1, <2>2 DEF SearchShape, Offered, FirstOffer
  <2> QED
    BY <1>1, <1>2, <1>4, <2>1, <2>2, <2>3
       DEF FirstOffer, Moved, Stays, RideInv, RideTypeOK, Offers, Owned
<1> QED
  BY <1>3, <1>4

LEMMA ResumeMoves ==
    ASSUME RideInv, Resume
    PROVE  (Moved /\ Stays) \/ Still
<1>1. CASE cycle # "searching"
  BY <1>1 DEF Resume, Still
<1>2. CASE cycle = "searching"
  <2>1. CASE CloseAtDeadline
    BY <1>2, <2>1, CloseMoves DEF CloseAtDeadline
  <2>2. ASSUME Offered = {}, NEW p \in IF pool = None THEN Pools ELSE {pool}, FirstOffer(p)
        PROVE  Moved /\ Stays
    BY <1>2, <2>2, FirstMoves
  <2>3. ASSUME NEW d \in Offered, AdvanceIfLate(d)
        PROVE  (Moved /\ Stays) \/ Still
    BY <1>2, <2>3, LateMoves
  <2> QED
    BY <1>2, <2>1, <2>2, <2>3 DEF Resume
<1> QED
  BY <1>1, <1>2

LEMMA RecoverMoves ==
    ASSUME RideInv, RecoverExpired
    PROVE  (Moved /\ Stays) \/ Still
<1> DEFINE d == found.driver
<1>1. CASE Resume
  BY <1>1, ResumeMoves
<1>2. CASE d # None /\ offer[d] = "offered"
           /\ (CloseAtDeadline \/ ("window" \notin lapsed /\ AdvanceIfLate(d)))
  <2>1. d \in Offered
    BY <1>2 DEF RecoverExpired, RideInv, RideTypeOK, Listed, Offered
  <2>2. cycle = "searching"
    BY <2>1 DEF RideInv, OffersLive
  <2> QED
    BY <1>2, <2>1, <2>2, CloseMoves, LateMoves DEF CloseAtDeadline
<1> QED
  BY <1>1, <1>2 DEF RecoverExpired, Still

\* What a call may become in a step that finds the row lock free.
Left(c) ==
    \/ ask'[c] = ask[c] \/ ask'[c] = None
    \/ ask'[c] \in Ask /\ ask'[c].op = "start" /\ ask'[c].pc = "lock"

LEMMA MoveKeeps ==
    ASSUME RideInv, holder = None, UNCHANGED <<request, trip, holder>>,
           Moved \/ Still,
           ask' \in [Calls -> Ask \cup {None}],
           found' \in Listed \cup {None},
           \A c \in Calls : Left(c)
    PROVE  RideInv'
<1>1. RideTypeOK'
  BY DispatchAssumption DEF RideInv, RideTypeOK, Moved, Still, search, Searches
<1>2. OffersLive'
  <2>1. CASE Moved
    <3>1. trip = None
      BY <2>1 DEF RideInv, WinnerRecorded, Moved
    <3> QED
      BY <2>1, <3>1 DEF OffersLive, Moved, Offered
  <2>2. CASE Still
    BY <2>2 DEF RideInv, OffersLive, Still, search, Offered
  <2> QED
    BY <2>1, <2>2
<1>3. WinnerRecorded'
  BY DEF RideInv, WinnerRecorded, Moved, Still, search
<1>4. ClaimReady'
  <2>1. \A c \in Calls : ~At(c, "accept", "claim")
    BY DispatchAssumption DEF RideInv, ClaimReady
  <2>2. \A c \in Calls : ~At(c, "accept", "claim")'
    BY <2>1 DEF Left, At, Underway
  <2> QED
    BY <2>2 DEF ClaimReady
<1>5. Drives'
  BY DEF RideInv, Drives, Left, Underway
<1>6. SearchShape'
  BY DEF RideInv, SearchShape, Moved, Still, search, Offered
<1>7. Owned'
  BY DEF RideInv, Owned, Moved, Still, search
<1> QED
  BY <1>1, <1>2, <1>3, <1>4, <1>5, <1>6, <1>7 DEF RideInv

\* The calls after one of them has returned or gone on.
LEMMA LoadedAsk == ASSUME NEW op \in {"cancel", "retry", "start"} PROVE Loaded(op) \in Ask
BY DispatchAssumption DEF Loaded, Ask

LEMMA CallsKept ==
    ASSUME RideInv, NEW c \in Calls, Return(c) \/ GoOnToStart(c)
    PROVE  ask' \in [Calls -> Ask \cup {None}] /\ \A o \in Calls : Left(o)
<1>1. Loaded("start") \in Ask /\ Loaded("start").op = "start" /\ Loaded("start").pc = "lock"
  BY LoadedAsk DEF Loaded
<1> QED
  BY <1>1 DEF RideInv, RideTypeOK, Return, GoOnToStart, Left

LEMMA RideNextKeeps == RideInv /\ [RideNext]_rideVars => RideInv'
<1> SUFFICES ASSUME RideInv, [RideNext]_rideVars PROVE RideInv'
  OBVIOUS
<1>0. /\ ask \in [Calls -> Ask \cup {None}] /\ (UNCHANGED ask => \A c \in Calls : Left(c))
      /\ found \in Listed \cup {None}
  BY DEF RideInv, RideTypeOK, Left
<1>1. ASSUME NEW c \in Calls, CreateRequest(c) PROVE RideInv'
  <2>1. trip = None /\ Offered = {} /\ cycle = "none"
    BY <1>1 DEF CreateRequest, RideInv, WinnerRecorded, OffersLive, Owned
  <2>2. \A o \in Calls : ~At(o, "accept", "claim")
    BY <2>1 DEF RideInv, ClaimReady, Offered
  <2>3. ask' \in [Calls -> Ask \cup {None}] /\ \A o \in Calls : Left(o)
    BY <1>1, CallsKept DEF CreateRequest
  <2>4. \A o \in Calls : ~At(o, "accept", "claim")'
    BY <2>2, <2>3 DEF Left, At, Underway
  <2>5. /\ request' = "searching" /\ cycle' = "searching" /\ number' \in 0 .. MaxCycles
        /\ pool' = None /\ offer' = [d \in Drivers |-> "none"] /\ lapsed' = {}
        /\ revived' \in BOOLEAN /\ trip' = trip /\ holder' = holder /\ found' = found
    BY <1>1, DispatchAssumption DEF CreateRequest, OpenCycle, RideInv, RideTypeOK
  <2>6. RideTypeOK'
    BY <1>0, <2>2, <2>3, <2>5, DispatchAssumption
       DEF RideInv, RideTypeOK, Requested, Searches, Offers
  <2>7. ClaimReady' /\ Drives'
    BY <2>3, <2>4 DEF RideInv, ClaimReady, Drives, Left, Underway
  <2> QED
    BY <2>1, <2>5, <2>6, <2>7
       DEF RideInv, OffersLive, WinnerRecorded, SearchShape, Owned, Offered
<1>2. CASE RecoverExpired
  BY <1>0, <1>2, RecoverMoves, MoveKeeps DEF RecoverExpired
<1>3. CASE OfferLapses \/ WindowLapses
  BY <1>3 DEF OfferLapses, WindowLapses, RideInv, RideTypeOK, OffersLive, WinnerRecorded,
       ClaimReady, Drives, SearchShape, Owned, Offered, At, Underway
<1>4. ASSUME NEW d \in Drivers, DeclineOffer(d) PROVE RideInv'
  <2>1. d \in Offered
    BY <1>4 DEF DeclineOffer, Offered
  <2> QED
    BY <1>0, <1>4, <2>1, AdvanceMoves, MoveKeeps DEF DeclineOffer
<1>5. ASSUME NEW c \in Calls PROVE RideStep(c) => RideInv'
  <2>1. CASE AcceptRefused(c)
    <3> DEFINE d == ask[c].driver
    <3>1. d \in Drivers
      BY <2>1 DEF AcceptRefused, At, RideInv, Drives
    <3>2. CASE Still
      BY <1>0, <2>1, <3>2, CallsKept, MoveKeeps DEF AcceptRefused
    <3>3. CASE cycle = "searching" /\ CloseCycle("expired", "timed_out", Copies(c))
      <4>1. Moved
        BY <3>3, StaleCloseMoves DEF Copies
      <4> QED
        BY <1>0, <2>1, <4>1, CallsKept, MoveKeeps DEF AcceptRefused
    <3>4. ASSUME cycle = "searching", offer[d] = "offered",
                 NEW s \in {"timed_out", "claim_failed"}, AdvanceLocked(d, s)
          PROVE  RideInv'
      <4>1. d \in Offered
        BY <3>1, <3>4 DEF Offered
      <4>2. Moved
        BY <3>4, <4>1, AdvanceMoves
      <4> QED
        BY <1>0, <2>1, <4>2, CallsKept, MoveKeeps DEF AcceptRefused
    <3> QED
      BY <2>1, <3>2, <3>3, <3>4 DEF AcceptRefused, Still
  <2>2. CASE AcceptLock(c)
    <3>1. /\ ask[c] # None /\ ask[c] \in Ask /\ ask[c].op = "accept"
          /\ ask[c].driver \in Drivers /\ offer[ask[c].driver] = "offered"
      BY <2>2 DEF AcceptLock, RideInv, RideTypeOK, Drives, At, Underway
    <3>2. \A o \in Calls : ~At(o, "accept", "claim")
      BY <2>2, DispatchAssumption DEF AcceptLock, RideInv, ClaimReady
    <3>3. /\ ask' = [ask EXCEPT ![c].pc = "claim"] /\ holder' = c
          /\ UNCHANGED <<request, cycle, number, pool, offer, lapsed, trip, found, revived>>
      BY <2>2 DEF AcceptLock, Proceed, search
    <3>4. ask'[c] \in Ask /\ ask'[c].op = "accept" /\ ask'[c].pc = "claim"
             /\ ask'[c].driver = ask[c].driver
      BY <3>1, <3>3 DEF Ask, RideInv, RideTypeOK
    <3>5. ask' \in [Calls -> Ask \cup {None}]
             /\ \A o \in Calls : o # c => ask'[o] = ask[o]
      BY <3>3, <3>4 DEF RideInv, RideTypeOK
    <3>6. ask'[c] # None
      BY <3>4, DispatchAssumption
    <3>7. RideTypeOK'
      BY <3>3, <3>4, <3>5, <3>6, DispatchAssumption DEF RideInv, RideTypeOK, At, Underway
    <3>8. ClaimReady'
      BY <3>1, <3>2, <3>3, <3>4, <3>5 DEF ClaimReady, At, Underway
    <3>9. Drives'
      BY <3>1, <3>4, <3>5 DEF RideInv, Drives, Underway
    <3>10. OffersLive' /\ WinnerRecorded' /\ SearchShape' /\ Owned'
      BY <3>3 DEF RideInv, OffersLive, WinnerRecorded, SearchShape, Owned, Offered
    <3> QED
      BY <3>7, <3>8, <3>9, <3>10 DEF RideInv
  <2>3. CASE Convert(c)
    <3>1. ask[c].driver \in Drivers /\ holder = c /\ offer[ask[c].driver] = "offered"
      BY <2>3 DEF Convert, RideInv, ClaimReady
    <3>2. \A o \in Calls : o # c => ~At(o, "accept", "claim")
      BY <3>1 DEF RideInv, ClaimReady
    <3>3. RideTypeOK'
      BY <2>3, <3>1, <3>2, DispatchAssumption
         DEF Convert, Return, RideInv, RideTypeOK, At, Underway, Requested, Searches, Offers
    <3>4. OffersLive' /\ SearchShape' /\ Owned'
      BY <2>3, <3>1 DEF Convert, OffersLive, SearchShape, Owned, Offered
    <3>5. WinnerRecorded'
      BY <2>3, <3>1, DispatchAssumption DEF Convert, WinnerRecorded
    <3>6. ClaimReady' /\ Drives'
      BY <2>3, <3>2 DEF Convert, Return, RideInv, ClaimReady, Drives, At, Underway, RideTypeOK
    <3> QED
      BY <3>3, <3>4, <3>5, <3>6 DEF RideInv
  <2>4. CASE ClaimFails(c)
    <3>1. \A o \in Calls : o # c => ~At(o, "accept", "claim")
      BY <2>4 DEF ClaimFails, RideInv, ClaimReady
    <3> QED
      BY <2>4, <3>1, DispatchAssumption
         DEF ClaimFails, Proceed, RideInv, RideTypeOK, OffersLive, WinnerRecorded, ClaimReady,
             Drives, SearchShape, Owned, Offered, At, Underway, search, Ask
  <2>5. CASE AcceptAgain(c)
    <3> DEFINE d == ask[c].driver
    <3>1. CASE Still
      BY <1>0, <2>5, <3>1, CallsKept, MoveKeeps DEF AcceptAgain
    <3>2. CASE OfferOpen(d) /\ AdvanceLocked(d, "claim_failed")
      <4>1. d \in Offered
        BY <2>5, <3>2 DEF AcceptAgain, OfferOpen, Offered, At, RideInv, Drives
      <4> QED
        BY <1>0, <2>5, <3>2, <4>1, AdvanceMoves, CallsKept, MoveKeeps DEF AcceptAgain, OfferOpen
    <3> QED
      BY <2>5, <3>1, <3>2 DEF AcceptAgain, Still
  <2>6. CASE CancelRequest(c)
    <3>1. \A o \in Calls : ~At(o, "accept", "claim")
      BY <2>6, DispatchAssumption DEF CancelRequest, RideInv, ClaimReady
    <3>2. \/ cycle = "searching" /\ cycle' = "cancelled" /\ Moved
             /\ \A d \in Drivers : offer'[d] # "offered"
          \/ cycle # "searching" /\ Still
      BY <2>6, CloseMoves DEF CancelRequest, CloseCycle, Still
    <3>3. \A d \in Drivers : offer'[d] # "offered"
      BY <3>2 DEF RideInv, OffersLive, Offered, Still, search
    <3>4. RideTypeOK'
      BY <2>6, <3>2 DEF CancelRequest, Return, RideInv, RideTypeOK, Moved, Still, search, At,
           Underway, Requested, Searches
    <3>5. OffersLive'
      BY <3>3 DEF OffersLive, Offered
    <3>6. WinnerRecorded'
      BY <2>6, <3>2 DEF CancelRequest, RideInv, WinnerRecorded, Still, search
    <3>7. ClaimReady' /\ Drives'
      BY <2>6, <3>1 DEF CancelRequest, Return, RideInv, ClaimReady, Drives, At, Underway, RideTypeOK
    <3>8. SearchShape' /\ Owned'
      BY <2>6, <3>2 DEF CancelRequest, RideInv, SearchShape, Owned, Still, search, Offered
    <3> QED
      BY <3>4, <3>5, <3>6, <3>7, <3>8 DEF RideInv
  <2>7. CASE RetrySearch(c)
    <3>0. holder = None /\ UNCHANGED <<request, trip, holder, found>>
          /\ (Return(c) \/ GoOnToStart(c))
      BY <2>7 DEF RetrySearch
    <3>1. Moved \/ Still
      <4>1. CASE cycle = "searching" /\ CloseAtDeadline
        BY <4>1, CloseMoves DEF CloseAtDeadline
      <4>2. ASSUME cycle = "searching", NEW d \in Offered, AdvanceIfLate(d)
            PROVE  Moved \/ Still
        BY <4>2, LateMoves
      <4>3. CASE cycle \in Retryable /\ OpenCycle
        BY <4>3, OpenMoves
      <4> QED
        BY <2>7, <4>1, <4>2, <4>3 DEF RetrySearch, Still
    <3> QED
      BY <1>0, <3>0, <3>1, CallsKept, MoveKeeps
  <2>8. CASE StartSearch(c)
    BY <1>0, <2>8, ResumeMoves, CallsKept, MoveKeeps DEF StartSearch
  <2> QED
    BY <2>1, <2>2, <2>3, <2>4, <2>5, <2>6, <2>7, <2>8 DEF RideStep
<1>6. ASSUME NEW c \in Calls, Drop(c) PROVE RideInv'
  BY <1>6, DispatchAssumption
     DEF Drop, Return, RideInv, RideTypeOK, OffersLive, WinnerRecorded, ClaimReady,
         Drives, SearchShape, Owned, Offered, At, Underway, search
<1>7. ASSUME NEW c \in Calls,
             CreateAgain(c) \/ Cancel(c) \/ Retry(c) \/ \E d \in Drivers : Accept(c, d)
      PROVE  RideInv'
  <2>1. PICK a \in Ask : /\ Arrive(c, a) /\ a.pc = "lock"
                         /\ a.op = "accept" => a.driver \in Drivers
    <3>1. CASE CreateAgain(c) \/ Cancel(c) \/ Retry(c)
      BY <3>1, LoadedAsk DEF CreateAgain, Cancel, Retry, Loaded
    <3>2. ASSUME NEW d \in Drivers, Accept(c, d)
          PROVE  \E a \in Ask : /\ Arrive(c, a) /\ a.pc = "lock"
                                /\ a.op = "accept" => a.driver \in Drivers
      <4>1. [op |-> "accept", pc |-> "lock", driver |-> d, number |-> number] \in Ask
        BY DEF Ask, RideInv, RideTypeOK
      <4> QED
        BY <3>2, <4>1 DEF Accept
    <3> QED
      BY <1>7, <3>1, <3>2
  <2> QED
    BY <2>1, DispatchAssumption
       DEF Arrive, RideInv, RideTypeOK, OffersLive, WinnerRecorded, ClaimReady,
           Drives, SearchShape, Owned, Offered, At, Underway, search
<1>8. CASE ListExpired
  <2>1. found' \in Listed
    BY <1>8, DispatchAssumption
       DEF ListExpired, Recoverable, Offered, Listed, RideInv, RideTypeOK
  <2> QED
    BY <1>8, <2>1 DEF ListExpired, RideInv, RideTypeOK, OffersLive, WinnerRecorded, ClaimReady,
         Drives, SearchShape, Owned, Offered, At, Underway, search
<1>9. CASE UNCHANGED rideVars
  BY <1>9 DEF rideVars, search, RideInv, RideTypeOK, OffersLive, WinnerRecorded, ClaimReady,
       Drives, SearchShape, Owned, Offered, At, Underway
<1> QED
  BY <1>1, <1>2, <1>3, <1>4, <1>5, <1>6, <1>7, <1>8, <1>9 DEF RideNext

\* The inductive invariant.
LEMMA RideInvAlways == RideSpec => []RideInv
BY RideInitHolds, RideNextKeeps, PTL DEF RideSpec

\* Types, and a row lock that no call keeps after its claim
\* (RideRequestDispatchService.accept_offer).
THEOREM DispatchTypes == RideSpec => []RideTypeOK
BY RideInvAlways, PTL DEF RideInv

\* At most one driver can accept, and only in an open search: of a request
\* that is searching, or one opened by a retry with an old copy of a cancelled
\* one (_advance_locked, _close_cycle_at_deadline, cancel_request).
THEOREM OffersAreLive == RideSpec => []OffersLive
BY RideInvAlways, PTL DEF RideInv

\* A Booking exists exactly for a completed cycle and its winner
\* (the conversion transaction of accept_offer).
THEOREM WinnersAreRecorded == RideSpec => []WinnerRecorded
BY RideInvAlways, PTL DEF RideInv

\* The winner keeps the ride and an ended attempt is never open again, whatever
\* acceptance, retry, recovery or cancellation runs later: the claim keeps the
\* row lock, every other writer finds it free, and only an acceptance that has
\* loaded the offer before writes over an outcome.
THEOREM OutcomesAreKept == RideSpec => OutcomesStay
<1> DEFINE Kept ==
      /\ trip # None => trip' = trip
      /\ \A d \in Drivers :
            number' = number /\ offer[d] \notin {"none", "offered"}
            => offer'[d] = offer[d] \/ Rewritten(d)
<1>1. ASSUME RideInv, [RideNext]_rideVars PROVE [Kept]_rideVars
  <2>1. ASSUME UNCHANGED trip, Stays PROVE Kept
    BY <2>1 DEF Stays
  <2>2. UNCHANGED search => Stays
    BY DEF search, Stays
  <2>3. ASSUME NEW c \in Calls, CreateRequest(c) PROVE Kept
    <3>1. trip' = trip /\ number' = number + 1 /\ number \in Nat
      BY <1>1, <2>3 DEF CreateRequest, OpenCycle, RideInv, RideTypeOK
    <3> QED
      BY <3>1
  <2>4. CASE RecoverExpired \/ ListExpired
    BY <1>1, <2>1, <2>2, <2>4, RecoverMoves DEF RecoverExpired, ListExpired, Still
  <2>5. CASE OfferLapses \/ WindowLapses
    BY <2>5 DEF OfferLapses, WindowLapses
  <2>6. ASSUME NEW d \in Drivers, DeclineOffer(d) PROVE Kept
    <3>1. d \in Offered
      BY <2>6 DEF DeclineOffer, Offered
    <3> QED
      BY <1>1, <2>1, <2>6, <3>1, AdvanceMoves DEF DeclineOffer
  <2>7. ASSUME NEW c \in Calls PROVE RideStep(c) => Kept
    <3>1. ASSUME NEW d \in Drivers, offer[d] = "offered", cycle = "searching",
                 NEW s \in {"timed_out", "declined", "claim_failed"},
                 AdvanceLocked(d, s)
          PROVE  Stays
      <4>1. d \in Offered
        BY <3>1 DEF Offered
      <4> QED
        BY <1>1, <3>1, <4>1, AdvanceMoves
    <3>2. CASE AcceptRefused(c)
      <4>1. ask[c].driver \in Drivers /\ UNCHANGED trip
        BY <1>1, <3>2 DEF AcceptRefused, At, RideInv, Drives
      <4>2. CASE cycle = "searching" /\ CloseCycle("expired", "timed_out", Copies(c))
        <5>1. At(c, "accept", "lock") /\ ask'[c] = None
          BY <1>1, <3>2 DEF AcceptRefused, Return, RideInv, RideTypeOK
        <5>2. ASSUME NEW d \in Drivers, offer[d] \notin {"none", "offered"}, offer'[d] # offer[d]
              PROVE  Rewritten(d)
          <6>1. d \in Copies(c) /\ offer'[d] = "timed_out" /\ cycle' = "expired"
            BY <4>2, <5>2 DEF CloseCycle
          <6>2. ask[c].number = number /\ ask[c].driver = d
            BY <5>2, <6>1 DEF Copies, Offered
          <6> QED
            BY <4>2, <5>1, <6>1, <6>2 DEF Rewritten
        <5> QED
          BY <4>1, <5>2
      <4>3. CASE Stays
        BY <2>1, <4>1, <4>3
      <4> QED
        BY <2>2, <3>1, <3>2, <4>1, <4>2, <4>3 DEF AcceptRefused
    <3>3. CASE AcceptLock(c) \/ ClaimFails(c)
      BY <2>1, <2>2, <3>3 DEF AcceptLock, ClaimFails
    <3>4. CASE Convert(c)
      <4>1. ask[c].driver \in Drivers /\ offer[ask[c].driver] = "offered"
        BY <1>1, <3>4 DEF Convert, RideInv, ClaimReady
      <4>2. trip = None
        BY <1>1, <4>1 DEF RideInv, OffersLive, Offered
      <4> QED
        BY <3>4, <4>1, <4>2 DEF Convert
    <3>5. CASE AcceptAgain(c)
      <4>1. ask[c].driver \in Drivers
        BY <1>1, <3>5 DEF AcceptAgain, At, RideInv, Drives
      <4>2. UNCHANGED trip /\ Stays
        BY <2>2, <3>1, <3>5, <4>1 DEF AcceptAgain, OfferOpen
      <4> QED
        BY <2>1, <4>2
    <3>6. CASE CancelRequest(c)
      <4>1. UNCHANGED trip /\ Stays
        BY <1>1, <2>2, <3>6, CloseMoves DEF CancelRequest
      <4> QED
        BY <2>1, <4>1
    <3>7. CASE RetrySearch(c)
      <4>1. UNCHANGED trip
        BY <3>7 DEF RetrySearch
      <4>2. CASE cycle = "searching" /\ CloseAtDeadline
        BY <1>1, <2>1, <4>1, <4>2, CloseMoves DEF CloseAtDeadline
      <4>3. ASSUME NEW d \in Offered, cycle = "searching", AdvanceIfLate(d)
            PROVE  Kept
        BY <1>1, <2>1, <2>2, <4>1, <4>3, LateMoves DEF Still
      <4>4. CASE cycle \in Retryable /\ OpenCycle
        BY <1>1, <2>1, <4>1, <4>4, OpenMoves
      <4> QED
        BY <2>1, <2>2, <3>7, <4>1, <4>2, <4>3, <4>4 DEF RetrySearch
    <3>8. CASE StartSearch(c)
      BY <1>1, <2>1, <2>2, <3>8, ResumeMoves DEF StartSearch, Still
    <3> QED
      BY <3>2, <3>3, <3>4, <3>5, <3>6, <3>7, <3>8 DEF RideStep
  <2>8. ASSUME NEW c \in Calls,
               \/ Drop(c) \/ CreateAgain(c) \/ Cancel(c) \/ Retry(c)
               \/ \E d \in Drivers : Accept(c, d)
        PROVE  Kept
    BY <2>1, <2>2, <2>8 DEF Drop, CreateAgain, Cancel, Retry, Accept, Arrive
  <2>9. CASE UNCHANGED rideVars
    BY <2>9
  <2> QED
    BY <1>1, <2>3, <2>4, <2>5, <2>6, <2>7, <2>8, <2>9 DEF RideNext
<1> QED
  BY <1>1, RideInvAlways, PTL DEF RideSpec, OutcomesStay

=============================================================================
