--------------------- MODULE TransportReservationProofs ---------------------
(* Proofs about TransportReservation for any number of processes, keys,     *)
(* vehicles, supply rows and requests.                                      *)
EXTENDS TransportReservation, FiniteSetTheorems, TLAPS

(* What a process's locals are at each point of its call.                   *)
LocalOK(p) ==
    /\ pc[p] \in {"create", "select", "supply", "insert"} => key[p] \in Keys /\ req[p] \in Requests
    /\ pc[p] = "create" => need[p] = req[p].vehs
    /\ pc[p] \in {"cancel", "expire", "pay"} => key[p] \in Keys /\ res[key[p]] # NoRes
    /\ pc[p] = "pay" => seen[p] \in Bill /\ want[p] \in Bill
    /\ pc[p] = "declare" => slice[p] \in Slices
    /\ \A k \in todo[p] \cup batch[p] : res[k] # NoRes

LocalsOK == \A p \in Procs : LocalOK(p)

(* The locals of q, and the vehicle locks it holds, survive the step.       *)
Untouched(q) ==
    /\ pc'[q] = pc[q] /\ key'[q] = key[q] /\ req'[q] = req[q] /\ need'[q] = need[q]
    /\ todo'[q] = todo[q] /\ batch'[q] = batch[q]
    /\ seen'[q] = seen[q] /\ want'[q] = want[q] /\ slice'[q] = slice[q]
    /\ \A v \in Vehicles : vehLock[v] = q => vehLock'[v] = q

(* What membership in Requests and in Row gives.                            *)
LEMMA RequestFields ==
    ASSUME NEW r \in Requests
    PROVE  /\ r.vehs \subseteq Vehicles /\ r.win \in Windows
           /\ r.timing \in Timings /\ r.priced \in BOOLEAN
BY ReservationAssumption DEF ReservationAssumption, RequestType

LEMMA RowFields ==
    ASSUME NEW r \in Row
    PROVE  /\ r.req \in Requests /\ r.bill \in Bill /\ r.lines \in {"active", "cancelled"}
           /\ r # NoRes
BY ReservationRowAssumption DEF Row

(* The end of a call: every variable it writes has its type, the other      *)
(* processes keep their locals and their locks.                             *)
LEMMA FinishType ==
    ASSUME SessionType, NEW p \in Procs, NEW l \in {"idle", "raised"}, Finish(p, l)
    PROVE  /\ SessionType'
           /\ pc'[p] = l /\ todo'[p] = {} /\ batch'[p] = {}
           /\ \A q \in Procs \ {p} : Untouched(q)
<1>1. SessionType'
  BY ReservationAssumption DEF SessionType, Finish
<1>2. pc'[p] = l /\ todo'[p] = {} /\ batch'[p] = {}
  BY DEF SessionType, Finish
<1>3. \A q \in Procs \ {p} : Untouched(q)
  BY DEF SessionType, Finish, Untouched
<1> QED BY <1>1, <1>2, <1>3

(* Locals that a step leaves alone stay right: no reservation disappears.   *)
LEMMA LocalStable ==
    ASSUME LocalsOK, NEW q \in Procs, Untouched(q), SessionType,
           \A k \in Keys : res[k] # NoRes => res'[k] # NoRes
    PROVE  LocalOK(q)'
<1>1. LocalOK(q) /\ todo[q] \subseteq Keys /\ batch[q] \subseteq Keys
  BY DEF LocalsOK, SessionType
<1> QED BY <1>1 DEF LocalOK, Untouched

(* The end of a call, for all locals at once.                               *)
LEMMA FinishLocals ==
    ASSUME SessionType, LocalsOK, NEW p \in Procs, NEW l \in {"idle", "raised"}, Finish(p, l),
           \A k \in Keys : res[k] # NoRes => res'[k] # NoRes
    PROVE  LocalsOK'
<1>1. LocalOK(p)'
  BY FinishType DEF LocalOK
<1>2. ASSUME NEW q \in Procs, q # p PROVE LocalOK(q)'
  BY <1>2, FinishType, LocalStable
<1> QED BY <1>1, <1>2 DEF LocalsOK

-----------------------------------------------------------------------------
(* Rows that calls store.                                                   *)
LEMMA EndedType ==
    ASSUME NEW r \in Row, NEW s \in {"cancelled", "expired"}
    PROVE  /\ Ended(r, s) \in Row /\ Ended(r, s) # NoRes
           /\ Ended(r, s).req = r.req /\ Ended(r, s).lines = "cancelled"
           /\ Ended(r, s).bill.state = s /\ Ended(r, s).bill.obl = r.bill.obl
<1>1. WithState(r.bill, s) \in Bill
  BY RowFields DEF WithState, Bill
<1>2. Ended(r, s) \in Row
  BY <1>1, RowFields DEF Ended, Row
<1> QED BY <1>2, RowFields DEF Ended, WithState

LEMMA FlushedType ==
    ASSUME NEW b \in Bill, NEW old \in Bill, NEW new \in Bill
    PROVE  Flushed(b, old, new) \in Bill
BY DEF Flushed, Bill

(* The calls that write the tables do it with well-typed rows.              *)
LEMMA StepTables ==
    ASSUME TypeOK, LocalsOK, NEW p \in Procs, Step(p)
    PROVE  TablesType' /\ \A k \in Keys : res[k] # NoRes => res'[k] # NoRes
<1>1. CASE InsertReservation(p)
  <2> DEFINE row == [req |-> req[p], lines |-> "active",
                     bill |-> [state |-> IF "unpaid" \in RequiredObligation(req[p])
                                           THEN "reserved" ELSE "held",
                               obl |-> "unpaid", received |-> 0, ref |-> NoRef]]
  <2>1. key[p] \in Keys /\ req[p] \in Requests
    BY <1>1 DEF InsertReservation, LocalsOK, LocalOK
  <2>2. row \in Row
    BY <2>1 DEF Row, Bill, Obligations
  <2>3. res' = [res EXCEPT ![key[p]] = row] /\ UNCHANGED <<due, supply>>
    BY <1>1 DEF InsertReservation
  <2> HIDE DEF row
  <2> QED BY <2>1, <2>2, <2>3, RowFields DEF TypeOK, TablesType
<1>2. CASE CancelUpdate(p)
  <2>1. key[p] \in Keys /\ res[key[p]] \in Row
    BY <1>2 DEF CancelUpdate, LocalsOK, LocalOK, TypeOK, TablesType
  <2>2. Ended(res[key[p]], "cancelled") \in Row
    BY <2>1, EndedType
  <2> QED BY <1>2, <2>1, <2>2, RowFields DEF CancelUpdate, TypeOK, TablesType
<1>3. CASE ExpireCommit(p)
  <2>1. \A k \in batch[p] : k \in Keys /\ res[k] \in Row
    BY <1>3 DEF LocalsOK, LocalOK, TypeOK, TablesType, SessionType
  <2>2. \A k \in batch[p] : Ended(res[k], "expired") \in Row
    BY <2>1, EndedType
  <2> QED BY <1>3, <2>1, <2>2, RowFields DEF ExpireCommit, TypeOK, TablesType
<1>4. CASE CommitObligation(p)
  <2> DEFINE r == res[key[p]]
             row == [req |-> r.req, lines |-> r.lines, bill |-> Flushed(r.bill, seen[p], want[p])]
  <2>1. key[p] \in Keys /\ r \in Row /\ seen[p] \in Bill /\ want[p] \in Bill
    BY <1>4 DEF CommitObligation, LocalsOK, LocalOK, TypeOK, TablesType
  <2>2. Flushed(r.bill, seen[p], want[p]) \in Bill
    BY <2>1, FlushedType, RowFields
  <2>3. row \in Row
    BY <2>1, <2>2, RowFields DEF Row
  <2>4. res' = [res EXCEPT ![key[p]] = row] /\ UNCHANGED <<due, supply>>
    BY <1>4 DEF CommitObligation
  <2> HIDE DEF row
  <2> QED BY <2>1, <2>3, <2>4, RowFields DEF TypeOK, TablesType
<1>5. CASE CommitSupply(p)
  BY <1>5 DEF CommitSupply, LocalsOK, LocalOK, TypeOK, TablesType
<1>6. CASE UNCHANGED <<res, due, supply>>
  BY <1>6 DEF TypeOK, TablesType
<1> QED BY <1>1, <1>2, <1>3, <1>4, <1>5, <1>6
        DEF Step, LockVehicle, CheckVehicleOverlap, VehicleConflict, SelectSupply, LockSupplyRow,
            CheckSupplyCoverage, SupplyRefused, InsertLoses, CancelConflict, ExpireNext,
            ExpireUpdate, ObligationCollision, DeadlockVictim, Raise, tables

(* The steps that end a call.                                               *)
Ends(p) ==
    \/ VehicleConflict(p) \/ SupplyRefused(p) \/ InsertReservation(p) \/ InsertLoses(p)
    \/ CancelUpdate(p) \/ CancelConflict(p) \/ ExpireCommit(p)
    \/ CommitObligation(p) \/ ObligationCollision(p) \/ CommitSupply(p)
    \/ DeadlockVictim(p) \/ Abort(p)

LEMMA EndsFinish ==
    ASSUME NEW p \in Procs, Ends(p)
    PROVE  \E l \in {"idle", "raised"} : Finish(p, l)
BY DEF Ends, VehicleConflict, SupplyRefused, InsertReservation, InsertLoses, CancelUpdate,
       CancelConflict, ExpireCommit, CommitObligation, ObligationCollision, CommitSupply,
       DeadlockVictim, Abort, Raise

(* The steps inside a call that move it on.                                 *)
LEMMA StepSession ==
    ASSUME TypeOK, LocalsOK, NEW p \in Procs, Step(p) \/ Abort(p),
           \A k \in Keys : res[k] # NoRes => res'[k] # NoRes
    PROVE  SessionType' /\ LocalsOK'
<1> USE DEF TypeOK
<1>1. CASE Ends(p)
  BY <1>1, EndsFinish, FinishType, FinishLocals
<1>2. CASE LockVehicle(p)
  <2>1. SessionType' /\ \A q \in Procs : Untouched(q)
    BY <1>2, ReservationAssumption DEF LockVehicle, SessionType, session, Wanted, Untouched
  <2> QED BY <2>1, LocalStable DEF LocalsOK
<1>3. CASE LockSupplyRow(p)
  <2>1. SessionType' /\ \A q \in Procs : Untouched(q)
    BY <1>3 DEF LockSupplyRow, SessionType, session, WantedRows, Untouched
  <2> QED BY <2>1, LocalStable DEF LocalsOK
<1>4. CASE CheckVehicleOverlap(p) \/ SelectSupply(p) \/ CheckSupplyCoverage(p)
  <2>1. SessionType' /\ \A q \in Procs \ {p} : Untouched(q)
    BY <1>4 DEF CheckVehicleOverlap, SelectSupply, CheckSupplyCoverage, SessionType, locks,
                Untouched, Declared
  <2>2. LocalOK(p)'
    BY <1>4 DEF CheckVehicleOverlap, SelectSupply, CheckSupplyCoverage, SessionType, tables,
                LocalsOK, LocalOK
  <2> QED BY <2>1, <2>2, LocalStable DEF LocalsOK
<1>5. CASE ExpireNext(p)
  <2>1. PICK k \in todo[p] :
          /\ key' = [key EXCEPT ![p] = k] /\ todo' = [todo EXCEPT ![p] = @ \ {k}]
          /\ need' = [need EXCEPT ![p] = IF Active(k) THEN res[k].req.vehs ELSE {}]
    BY <1>5 DEF ExpireNext
  <2>2. k \in Keys /\ res[k] \in Row
    BY DEF LocalsOK, LocalOK, SessionType, TablesType
  <2>3. (IF Active(k) THEN res[k].req.vehs ELSE {}) \subseteq Vehicles
    BY <2>2, RowFields, RequestFields
  <2>4. SessionType' /\ \A q \in Procs \ {p} : Untouched(q)
    BY <1>5, <2>1, <2>2, <2>3 DEF ExpireNext, SessionType, locks, Untouched
  <2>5. LocalOK(p)'
    BY <1>5, <2>1, <2>2, RowFields DEF ExpireNext, SessionType, tables, LocalsOK, LocalOK
  <2> QED BY <2>4, <2>5, LocalStable DEF LocalsOK
<1>6. CASE ExpireUpdate(p)
  <2>1. key[p] \in Keys /\ res[key[p]] # NoRes
    BY <1>6 DEF ExpireUpdate, LocalsOK, LocalOK
  <2>2. SessionType' /\ \A q \in Procs \ {p} : Untouched(q)
    BY <1>6, <2>1 DEF ExpireUpdate, SessionType, locks, Untouched
  <2>3. LocalOK(p)'
    BY <1>6, <2>1 DEF ExpireUpdate, SessionType, tables, LocalsOK, LocalOK
  <2> QED BY <2>2, <2>3, LocalStable DEF LocalsOK
<1> QED BY <1>1, <1>2, <1>3, <1>4, <1>5, <1>6 DEF Step, Ends

(* The first step of a call.                                                *)
LEMMA StartType ==
    ASSUME SessionType, NEW p \in Procs,
           NEW l \in {"create", "cancel", "scan", "pay", "declare"}, Start(p, l)
    PROVE  /\ pc' \in [Procs -> {"idle", "raised", "create", "select", "supply", "insert",
                                 "cancel", "scan", "expire", "pay", "declare"}]
           /\ begun' \in 0 .. MaxOps
           /\ pc'[p] = l /\ \A q \in Procs \ {p} : pc'[q] = pc[q]
BY ReservationAssumption DEF Start, SessionType

(* The bill an obligation event computes.                                   *)
LEMMA EventBill ==
    ASSUME TypeOK, NEW p \in Procs, NEW k \in Keys, NEW t \in Obligations, NEW a \in 0 .. 2,
           NEW f \in Refs \cup {NoRef}, ApplyObligationEvent(p, k, t, a, f)
    PROVE  /\ res[k] \in Row
           /\ seen' = [seen EXCEPT ![p] = res[k].bill]
           /\ \E n \in Bill :
                /\ want' = [want EXCEPT ![p] = n]
                /\ n.obl = t /\ n.state = Promoted(res[k].req, res[k].bill, t)
                /\ Settles(res[k].req, t, n.received) /\ MayBecome(res[k].bill.obl, t)
<1> DEFINE b == res[k].bill
           rc == IF a > b.received THEN a ELSE b.received
           rf == IF f = NoRef THEN b.ref ELSE f
           n  == [state |-> Promoted(res[k].req, b, t), obl |-> t, received |-> rc, ref |-> rf]
<1>1. res[k] \in Row /\ b \in Bill
  BY RowFields DEF ApplyObligationEvent, TypeOK, TablesType
<1>2. rc \in 0 .. 2 /\ rf \in Refs \cup {NoRef} /\ Promoted(res[k].req, b, t) \in {"held", "reserved", "cancelled", "expired"}
  BY <1>1 DEF Bill, Promoted
<1>3. n \in Bill
  BY <1>2 DEF Bill
<1>4. /\ seen' = [seen EXCEPT ![p] = b] /\ want' = [want EXCEPT ![p] = n]
      /\ Settles(res[k].req, t, rc) /\ MayBecome(b.obl, t)
  BY DEF ApplyObligationEvent
<1> QED BY <1>1, <1>2, <1>3, <1>4

LEMMA StartSession ==
    ASSUME TypeOK, LocalsOK, NEW p \in Procs,
           \/ \E k \in Keys, r \in Requests : CreateReservation(p, k, r)
           \/ \E k \in Keys : CancelReservation(p, k)
           \/ ExpireDueHeldReservations(p)
           \/ \E k \in Keys, t \in Obligations, a \in 0 .. 2, f \in Refs \cup {NoRef} :
                ApplyObligationEvent(p, k, t, a, f)
           \/ \E d \in Declarations : RegisterSupply(p, d)
    PROVE  /\ UNCHANGED <<res, due, supply>> /\ SessionType' /\ LocalsOK'
           /\ \A q \in Procs \ {p} : Untouched(q)
<1> USE DEF TypeOK
<1> SUFFICES /\ UNCHANGED <<res, due, supply>> /\ SessionType' /\ LocalOK(p)'
             /\ \A q \in Procs \ {p} : Untouched(q)
  BY LocalStable DEF LocalsOK
<1>0. LocalOK(p)
  BY DEF LocalsOK
<1>1. ASSUME NEW k \in Keys, NEW r \in Requests, CreateReservation(p, k, r)
      PROVE  /\ UNCHANGED <<res, due, supply>> /\ SessionType' /\ LocalOK(p)'
             /\ \A q \in Procs \ {p} : Untouched(q)
  BY <1>0, <1>1, StartType, RequestFields
     DEF CreateReservation, SessionType, tables, locks, LocalOK, Untouched
<1>2. ASSUME NEW k \in Keys, CancelReservation(p, k)
      PROVE  /\ UNCHANGED <<res, due, supply>> /\ SessionType' /\ LocalOK(p)'
             /\ \A q \in Procs \ {p} : Untouched(q)
  <2>1. res[k] \in Row
    BY <1>2 DEF CancelReservation, TablesType
  <2>2. (IF Active(k) THEN res[k].req.vehs ELSE {}) \subseteq Vehicles
    BY <2>1, RowFields, RequestFields
  <2> QED BY <1>0, <1>2, <2>1, <2>2, StartType, RowFields
          DEF CancelReservation, SessionType, tables, locks, LocalOK, Untouched
<1>3. ASSUME ExpireDueHeldReservations(p)
      PROVE  /\ UNCHANGED <<res, due, supply>> /\ SessionType' /\ LocalOK(p)'
             /\ \A q \in Procs \ {p} : Untouched(q)
  BY <1>0, <1>3, StartType
     DEF ExpireDueHeldReservations, Expirable, SessionType, tables, locks, LocalOK, Untouched
<1>4. ASSUME NEW k \in Keys, NEW t \in Obligations, NEW a \in 0 .. 2, NEW f \in Refs \cup {NoRef},
             ApplyObligationEvent(p, k, t, a, f)
      PROVE  /\ UNCHANGED <<res, due, supply>> /\ SessionType' /\ LocalOK(p)'
             /\ \A q \in Procs \ {p} : Untouched(q)
  <2>1. /\ res[k] \in Row /\ seen' = [seen EXCEPT ![p] = res[k].bill]
        /\ \E n \in Bill : want' = [want EXCEPT ![p] = n]
    BY <1>4, EventBill
  <2>2. /\ Start(p, "pay") /\ key' = [key EXCEPT ![p] = k] /\ res[k] # NoRes
        /\ UNCHANGED <<tables, due, locks, req, need, rows, todo, batch, slice>>
    BY <1>4 DEF ApplyObligationEvent
  <2> QED BY <1>0, <2>1, <2>2, StartType, RowFields DEF SessionType, tables, locks, LocalOK, Untouched
<1>5. ASSUME NEW d \in Declarations, RegisterSupply(p, d)
      PROVE  /\ UNCHANGED <<res, due, supply>> /\ SessionType' /\ LocalOK(p)'
             /\ \A q \in Procs \ {p} : Untouched(q)
  <2>1. d \in Slices
    BY ReservationAssumption
  <2> QED BY <1>0, <1>5, <2>1, StartType
          DEF RegisterSupply, SessionType, tables, locks, LocalOK, Untouched
<1> QED BY <1>1, <1>2, <1>3, <1>4, <1>5

LEMMA TypeStep == TypeOK /\ LocalsOK /\ [Next]_vars => TypeOK' /\ LocalsOK'
<1> SUFFICES ASSUME TypeOK, LocalsOK, [Next]_vars PROVE TypeOK' /\ LocalsOK'
  OBVIOUS
<1>1. ASSUME NEW p \in Procs, Step(p) PROVE TypeOK' /\ LocalsOK'
  BY <1>1, StepTables, StepSession DEF TypeOK
<1>2. ASSUME NEW p \in Procs, Abort(p) PROVE TypeOK' /\ LocalsOK'
  <2>1. UNCHANGED <<res, due, supply>>
    BY <1>2 DEF Abort, Raise, tables
  <2> QED BY <1>2, <2>1, StepSession DEF TypeOK, TablesType
<1>3. ASSUME NEW k \in Keys, DepositFallsDue(k) PROVE TypeOK' /\ LocalsOK'
  BY <1>3 DEF DepositFallsDue, TypeOK, TablesType, SessionType, LocalsOK, LocalOK,
              tables, locks, session
<1>4. ASSUME UNCHANGED vars PROVE TypeOK' /\ LocalsOK'
  BY <1>4 DEF vars, TypeOK, TablesType, SessionType, LocalsOK, LocalOK, tables, locks, session
<1>5. ASSUME NEW p \in Procs, SessionType' /\ LocalsOK' /\ UNCHANGED <<res, due, supply>>
      PROVE  TypeOK' /\ LocalsOK'
  BY <1>5 DEF TypeOK, TablesType
<1> QED BY <1>1, <1>2, <1>3, <1>4, <1>5, StartSession DEF Next

(* Whatever the constants, only well-typed rows are committed and no local  *)
(* is used before it is set.                                                *)
THEOREM ReservationTypeCorrect == Spec => []TypeOK
<1>1. Init => TypeOK /\ LocalsOK
  BY ReservationAssumption
     DEF Init, TypeOK, TablesType, SessionType, LocalsOK, LocalOK
<1> QED BY <1>1, TypeStep, PTL DEF Spec

-----------------------------------------------------------------------------
(* Vehicles.                                                                *)
Checked == {"select", "supply", "insert"}

(* From its overlap check to its commit a create holds its vehicles, and    *)
(* nothing that is active conflicts with it.                                *)
HoldsVehicles == \A p \in Procs : pc[p] \in Checked => \A v \in req[p].vehs : vehLock[v] = p
StaysFree     == \A p \in Procs : pc[p] \in Checked => ~Conflict(req[p])

(* Every line that is active after the step was active before it.           *)
NoNewLine == \A k \in Keys : Active(k)' => Active(k) /\ res'[k].req = res[k].req

LEMMA OnlyInsertAddsLines ==
    ASSUME TypeOK, LocalsOK, [Next]_vars, \A p \in Procs : ~InsertReservation(p)
    PROVE  NoNewLine
<1>1. ASSUME NEW p \in Procs, Step(p) PROVE NoNewLine
  <2>1. CASE CancelUpdate(p)
    <3>1. key[p] \in Keys /\ res[key[p]] \in Row
      BY <2>1 DEF CancelUpdate, LocalsOK, LocalOK, TypeOK, TablesType
    <3>2. Ended(res[key[p]], "cancelled").lines = "cancelled"
      BY <3>1, EndedType
    <3> QED BY <2>1, <3>1, <3>2 DEF CancelUpdate, NoNewLine, Active, TypeOK, TablesType
  <2>2. CASE ExpireCommit(p)
    <3>1. \A k \in batch[p] : k \in Keys /\ res[k] \in Row
      BY DEF LocalsOK, LocalOK, TypeOK, TablesType, SessionType
    <3>2. \A k \in batch[p] : Ended(res[k], "expired").lines = "cancelled"
      BY <3>1, EndedType
    <3> QED BY <2>2, <3>1, <3>2 DEF ExpireCommit, NoNewLine, Active
  <2>3. CASE CommitObligation(p)
    <3>1. key[p] \in Keys /\ res[key[p]] # NoRes
      BY <2>3 DEF CommitObligation, LocalsOK, LocalOK
    <3> QED BY <2>3, <3>1 DEF CommitObligation, NoNewLine, Active, TypeOK, TablesType
  <2>4. CASE UNCHANGED res
    BY <2>4 DEF NoNewLine, Active
  <2> QED BY <1>1, <2>1, <2>2, <2>3, <2>4
          DEF Step, LockVehicle, CheckVehicleOverlap, VehicleConflict, SelectSupply, LockSupplyRow,
              CheckSupplyCoverage, SupplyRefused, InsertLoses, CancelConflict, ExpireNext,
              ExpireUpdate, ObligationCollision, CommitSupply, DeadlockVictim, Raise, tables
<1>2. CASE UNCHANGED res
  BY <1>2 DEF NoNewLine, Active
<1>3. ASSUME NEW p \in Procs, Abort(p) PROVE UNCHANGED res
  BY <1>3 DEF Abort, Raise, tables
<1>4. ASSUME NEW k \in Keys, DepositFallsDue(k) PROVE UNCHANGED res
  BY <1>4 DEF DepositFallsDue, tables
<1>5. CASE UNCHANGED vars
  BY <1>2, <1>5 DEF vars, tables
<1> QED BY <1>1, <1>2, <1>3, <1>4, <1>5, StartSession DEF Next

(* Where a process is past its overlap check after a step, it was past it   *)
(* before with the same locals and locks, or it has just made the check.    *)
LEMMA CheckedStep ==
    ASSUME TypeOK, LocalsOK, [Next]_vars, NEW q \in Procs, pc'[q] \in Checked
    PROVE  /\ req'[q] = req[q]
           /\ \A v \in Vehicles : vehLock[v] = q => vehLock'[v] = q
           /\ pc[q] \in Checked \/ CheckVehicleOverlap(q)
           /\ ~InsertReservation(q)
<1> DEFINE Goal == /\ req'[q] = req[q]
                   /\ \A v \in Vehicles : vehLock[v] = q => vehLock'[v] = q
                   /\ pc[q] \in Checked \/ CheckVehicleOverlap(q)
                   /\ ~InsertReservation(q)
<1>1. ASSUME Untouched(q) PROVE Goal
  <2>1. ~InsertReservation(q)
    BY <1>1 DEF Untouched, InsertReservation, Finish, TypeOK, SessionType
  <2> QED BY <1>1, <2>1 DEF Untouched
<1>2. ASSUME NEW p \in Procs, Ends(p) PROVE Goal
  <2>1. PICK l \in {"idle", "raised"} : Finish(p, l)
    BY <1>2, EndsFinish
  <2>2. p # q
    BY <2>1, FinishType DEF TypeOK, Checked
  <2> QED BY <1>1, <2>1, <2>2, FinishType DEF TypeOK
<1>3. ASSUME NEW p \in Procs,
             CheckVehicleOverlap(p) \/ SelectSupply(p) \/ CheckSupplyCoverage(p) \/ LockSupplyRow(p)
      PROVE  Goal
  <2>1. /\ p # q => Untouched(q)
        /\ p = q => pc[q] \in Checked \/ CheckVehicleOverlap(q)
        /\ req' = req /\ vehLock' = vehLock
    BY <1>3 DEF CheckVehicleOverlap, SelectSupply, CheckSupplyCoverage, LockSupplyRow, session,
                locks, Untouched, TypeOK, SessionType, Checked
  <2>2. p = q => ~InsertReservation(q)
    BY <1>3 DEF CheckVehicleOverlap, SelectSupply, CheckSupplyCoverage, LockSupplyRow,
                InsertReservation
  <2> QED BY <1>1, <2>1, <2>2
<1>4. ASSUME NEW p \in Procs, LockVehicle(p) PROVE Untouched(q)
  BY <1>4, ReservationAssumption DEF LockVehicle, session, Untouched, TypeOK, SessionType, Wanted
<1>5. ASSUME NEW p \in Procs, ExpireNext(p) \/ ExpireUpdate(p) PROVE Untouched(q)
  BY <1>5 DEF ExpireNext, ExpireUpdate, Untouched, TypeOK, SessionType, Checked, locks
<1>6. ASSUME NEW k \in Keys, DepositFallsDue(k) PROVE Untouched(q)
  BY <1>6 DEF DepositFallsDue, session, locks, Untouched
<1>7. CASE UNCHANGED vars
  BY <1>1, <1>7 DEF vars, session, locks, Untouched
<1>8. ASSUME NEW p \in Procs, Start(p, "create") \/ Start(p, "cancel") \/ Start(p, "scan")
               \/ Start(p, "pay") \/ Start(p, "declare")
      PROVE  p # q
  BY <1>8 DEF Start, TypeOK, SessionType, Checked
<1>9. ASSUME NEW p \in Procs,
           \/ \E k \in Keys, r \in Requests : CreateReservation(p, k, r)
           \/ \E k \in Keys : CancelReservation(p, k)
           \/ ExpireDueHeldReservations(p)
           \/ \E k \in Keys, t \in Obligations, a \in 0 .. 2, f \in Refs \cup {NoRef} :
                ApplyObligationEvent(p, k, t, a, f)
           \/ \E d \in Declarations : RegisterSupply(p, d)
      PROVE  Goal
  <2>1. p # q
    <3>1. CASE \E k \in Keys, r \in Requests : CreateReservation(p, k, r)
      <4>1. Start(p, "create")
        BY <3>1 DEF CreateReservation
      <4> QED BY <4>1, <1>8
    <3>2. CASE \E k \in Keys : CancelReservation(p, k)
      <4>1. Start(p, "cancel")
        BY <3>2 DEF CancelReservation
      <4> QED BY <4>1, <1>8
    <3>3. CASE ExpireDueHeldReservations(p)
      <4>1. Start(p, "scan")
        BY <3>3 DEF ExpireDueHeldReservations
      <4> QED BY <4>1, <1>8
    <3>4. CASE \E k \in Keys, t \in Obligations, a \in 0 .. 2, f \in Refs \cup {NoRef} :
                 ApplyObligationEvent(p, k, t, a, f)
      <4>1. Start(p, "pay")
        BY <3>4 DEF ApplyObligationEvent
      <4> QED BY <4>1, <1>8
    <3>5. CASE \E d \in Declarations : RegisterSupply(p, d)
      <4>1. Start(p, "declare")
        BY <3>5 DEF RegisterSupply
      <4> QED BY <4>1, <1>8
    <3> QED BY <1>9, <3>1, <3>2, <3>3, <3>4, <3>5
  <2> QED BY <1>1, <1>9, <2>1, StartSession
<1> QED BY <1>1, <1>2, <1>3, <1>4, <1>5, <1>6, <1>7, <1>9 DEF Next, Step, Ends

(* The overlap check and the locks carry from the check to the commit.      *)
LEMMA VehicleStep ==
    ASSUME TypeOK, LocalsOK, HoldsVehicles, StaysFree, VehicleExclusive, [Next]_vars
    PROVE  HoldsVehicles' /\ StaysFree' /\ VehicleExclusive'
<1>1. HoldsVehicles'
  <2> SUFFICES ASSUME NEW q \in Procs, pc'[q] \in Checked, NEW v \in req'[q].vehs
               PROVE  vehLock'[v] = q
    BY DEF HoldsVehicles
  <2>1. req'[q] = req[q] /\ req[q] \in Requests
    BY CheckedStep DEF LocalsOK, LocalOK, Checked, CheckVehicleOverlap
  <2>2. v \in Vehicles
    BY <2>1, RequestFields
  <2>3. vehLock[v] = q
    <3>1. CASE pc[q] \in Checked
      BY <2>1, <3>1 DEF HoldsVehicles
    <3>2. CASE CheckVehicleOverlap(q)
      BY <2>1, <3>2 DEF CheckVehicleOverlap, LocalsOK, LocalOK, Wanted
    <3> QED BY <3>1, <3>2, CheckedStep
  <2> QED BY <2>2, <2>3, CheckedStep
<1>2. ASSUME NEW q \in Procs, pc'[q] \in Checked
      PROVE  req'[q] = req[q] /\ ~Conflict(req[q]) /\ ~InsertReservation(q)
  <2>1. pc[q] \in Checked \/ CheckVehicleOverlap(q)
    BY <1>2, CheckedStep
  <2>2. ~Conflict(req[q])
    BY <2>1 DEF StaysFree, CheckVehicleOverlap
  <2> QED BY <1>2, <2>2, CheckedStep
<1>3. CASE \A p \in Procs : ~InsertReservation(p)
  <2>1. NoNewLine
    BY <1>3, OnlyInsertAddsLines
  <2>2. VehicleExclusive'
    BY <2>1 DEF NoNewLine, VehicleExclusive
  <2>3. StaysFree'
    BY <1>2, <2>1 DEF NoNewLine, StaysFree, Conflict
  <2> QED BY <1>1, <2>2, <2>3
<1>4. ASSUME NEW p \in Procs, InsertReservation(p) PROVE VehicleExclusive' /\ StaysFree'
  <2>1. key[p] \in Keys /\ req[p] \in Requests /\ pc[p] \in Checked
    BY <1>4 DEF InsertReservation, LocalsOK, LocalOK, Checked
  <2>2. /\ res'[key[p]].req = req[p]
        /\ \A k \in Keys \ {key[p]} : res'[k] = res[k]
    BY <1>4, <2>1 DEF InsertReservation, TypeOK, TablesType
  <2>3. ~Conflict(req[p])
    BY <2>1 DEF StaysFree
  <2>4. \A k \in Keys \ {key[p]} : Active(k)' = Active(k)
    BY <2>2 DEF Active
  <2>5. ASSUME NEW j \in Keys, j # key[p], Active(j), res[j].req.vehs \cap req[p].vehs # {}
        PROVE  ~Overlap(res[j].req.win, req[p].win)
    BY <2>3, <2>5 DEF Conflict
  <2>6. ASSUME NEW j \in Keys, j # key[p], Active(j), res[j].req.vehs \cap req[p].vehs # {}
        PROVE  ~Overlap(req[p].win, res[j].req.win)
    BY <2>5, <2>6 DEF Overlap
  <2>7. VehicleExclusive'
    <3> SUFFICES ASSUME NEW j \in Keys, NEW k \in Keys, j # k, Active(j)', Active(k)',
                        res'[j].req.vehs \cap res'[k].req.vehs # {}
                 PROVE  ~Overlap(res'[j].req.win, res'[k].req.win)
      BY DEF VehicleExclusive
    <3>1. CASE j = key[p]
      BY <2>2, <2>4, <2>6, <3>1
    <3>2. CASE k = key[p]
      BY <2>2, <2>4, <2>5, <3>2
    <3>3. CASE j # key[p] /\ k # key[p]
      BY <2>2, <2>4, <3>3 DEF VehicleExclusive
    <3> QED BY <3>1, <3>2, <3>3
  <2>8. StaysFree'
    <3> SUFFICES ASSUME NEW q \in Procs, pc'[q] \in Checked PROVE (~Conflict(req[q]))'
      BY DEF StaysFree
    <3>1. q # p /\ req'[q] = req[q] /\ ~Conflict(req[q]) /\ req[q] \in Requests
      BY <1>2, <1>4, CheckedStep DEF LocalsOK, LocalOK, Checked, CheckVehicleOverlap
    <3>2. \A v \in req[p].vehs : vehLock[v] = p
      BY <2>1 DEF HoldsVehicles
    <3>3. \A v \in req[q].vehs : vehLock[v] = q
      <4>1. CASE pc[q] \in Checked
        BY <4>1 DEF HoldsVehicles
      <4>2. CASE CheckVehicleOverlap(q)
        BY <4>2 DEF CheckVehicleOverlap, LocalsOK, LocalOK, Wanted
      <4> QED BY <4>1, <4>2, CheckedStep
    <3>4. req[p].vehs \cap req[q].vehs = {}
      BY <3>1, <3>2, <3>3
    <3>5. ASSUME NEW k \in Keys, Active(k)', res'[k].req.vehs \cap req[q].vehs # {}
          PROVE  ~Overlap(res'[k].req.win, req[q].win)
      <4>1. k # key[p]
        BY <2>2, <3>4, <3>5
      <4> QED BY <2>2, <2>4, <3>1, <3>5, <4>1 DEF Conflict
    <3> QED BY <3>1, <3>5 DEF Conflict
  <2> QED BY <2>7, <2>8
<1> QED BY <1>1, <1>3, <1>4

(* No vehicle is promised twice: for any processes, vehicles, windows and   *)
(* requests, the row locks make the overlap check of create_reservation     *)
(* hold until its lines are committed.                                      *)
THEOREM VehiclesExclusive == Spec => []VehicleExclusive
<1> DEFINE Inv == TypeOK /\ LocalsOK /\ HoldsVehicles /\ StaysFree /\ VehicleExclusive
<1>1. Init => Inv
  BY ReservationAssumption
     DEF Init, TypeOK, TablesType, SessionType, LocalsOK, LocalOK, HoldsVehicles, StaysFree,
         VehicleExclusive, Active, Checked
<1>2. Inv /\ [Next]_vars => Inv'
  BY TypeStep, VehicleStep
<1> QED BY <1>1, <1>2, PTL DEF Spec

-----------------------------------------------------------------------------
(* Payments.                                                                *)

(* Nothing was paid, or what the policy of the request accepts.             *)
OblOK(r, o) == o = "unpaid" \/ o \in RequiredObligation(r)

RowPaid(k) ==
    res[k] # NoRes =>
      /\ OblOK(res[k].req, res[k].bill.obl)
      /\ res[k].bill.state = "reserved" => res[k].bill.obl \in RequiredObligation(res[k].req)
      /\ Terminal(res[k].bill) => res[k].lines = "cancelled"

(* What an event about to be stored over b may have computed from old.      *)
EventOK(r, b, old, new) ==
    /\ OblOK(r, new.obl)
    /\ new.state # old.state => new.state = "reserved" /\ new.obl \in RequiredObligation(r)
    /\ new.obl = old.obl \/ new.obl # "unpaid"
    /\ old.obl # "unpaid" => b.obl # "unpaid"

RowsPaid == \A k \in Keys : RowPaid(k)
EventsOK == \A p \in Procs : pc[p] = "pay" =>
                EventOK(res[key[p]].req, res[key[p]].bill, seen[p], want[p])

(* A stored row keeps its request, and no payment is taken back to unpaid.  *)
RowKept(k) ==
    res[k] # NoRes =>
      /\ res'[k].req = res[k].req
      /\ res[k].bill.obl # "unpaid" => res'[k].bill.obl # "unpaid"

(* Storing a stale event over a newer bill keeps what the bill promises.    *)
LEMMA FlushedPaid ==
    ASSUME NEW r \in Requests, NEW b \in Bill, NEW old \in Bill, NEW new \in Bill,
           OblOK(r, b.obl), b.state = "reserved" => b.obl \in RequiredObligation(r),
           EventOK(r, b, old, new)
    PROVE  LET n == Flushed(b, old, new) IN
           /\ OblOK(r, n.obl)
           /\ n.state = "reserved" => n.obl \in RequiredObligation(r)
           /\ b.obl # "unpaid" => n.obl # "unpaid"
           /\ n.state = b.state \/ n.state = "reserved"
<1> DEFINE n == Flushed(b, old, new)
<1>1. n.obl = IF new.obl = old.obl THEN b.obl ELSE new.obl
  BY DEF Flushed
<1>2. n.state = IF new.state = old.state THEN b.state ELSE new.state
  BY DEF Flushed
<1>3. b.obl \in Obligations /\ old.obl \in Obligations /\ new.obl \in Obligations
  BY DEF Bill
<1>4. "unpaid" \in RequiredObligation(r) => RequiredObligation(r) = Obligations
  BY RequestFields DEF RequiredObligation, Timings, Obligations
<1> HIDE DEF n
<1>5. OblOK(r, n.obl) /\ (b.obl # "unpaid" => n.obl # "unpaid")
  BY <1>1 DEF EventOK
<1>6. n.state = b.state \/ n.state = "reserved"
  BY <1>2 DEF EventOK
<1>7. ASSUME n.state = "reserved" PROVE n.obl \in RequiredObligation(r)
  <2>1. CASE new.obl # old.obl
    BY <1>1, <2>1 DEF EventOK, OblOK
  <2>2. CASE new.obl = old.obl /\ new.state = old.state
    BY <1>1, <1>2, <1>7, <2>2
  <2>3. CASE new.obl = old.obl /\ new.state # old.state
    BY <1>1, <1>3, <1>4, <2>3 DEF EventOK, OblOK
  <2> QED BY <2>1, <2>2, <2>3
<1> QED BY <1>5, <1>6, <1>7 DEF n

(* Rows under every step of a call.                                         *)
LEMMA StepRows ==
    ASSUME TypeOK, LocalsOK, RowsPaid, EventsOK, NEW p \in Procs, Step(p), NEW k \in Keys
    PROVE  RowPaid(k)' /\ RowKept(k)
<1>0. RowPaid(k) /\ (res[k] # NoRes => res[k] \in Row)
  BY DEF RowsPaid, TypeOK, TablesType
<1>1. CASE InsertReservation(p)
  <2> DEFINE row == [req |-> req[p], lines |-> "active",
                     bill |-> [state |-> IF "unpaid" \in RequiredObligation(req[p])
                                           THEN "reserved" ELSE "held",
                               obl |-> "unpaid", received |-> 0, ref |-> NoRef]]
  <2>1. key[p] \in Keys /\ req[p] \in Requests /\ res[key[p]] = NoRes
    BY <1>1 DEF InsertReservation, LocalsOK, LocalOK
  <2>2. res' = [res EXCEPT ![key[p]] = row]
    BY <1>1 DEF InsertReservation
  <2>3. /\ row.req = req[p] /\ row.bill.obl = "unpaid" /\ ~Terminal(row.bill)
        /\ row.bill.state = "reserved" => "unpaid" \in RequiredObligation(req[p])
    BY DEF Terminal
  <2> HIDE DEF row
  <2>4. CASE k = key[p]
    BY <2>1, <2>2, <2>3, <2>4 DEF RowPaid, RowKept, OblOK, TypeOK, TablesType
  <2>5. CASE k # key[p]
    BY <1>0, <2>2, <2>5 DEF RowPaid, RowKept, TypeOK, TablesType
  <2> QED BY <2>4, <2>5
<1>2. ASSUME NEW st \in {"cancelled", "expired"}, res[k] # NoRes, res'[k] = Ended(res[k], st)
      PROVE  RowPaid(k)' /\ RowKept(k)
  <2>1. /\ res'[k].req = res[k].req /\ res'[k].lines = "cancelled"
        /\ res'[k].bill.state = st /\ res'[k].bill.obl = res[k].bill.obl
    BY <1>0, <1>2, EndedType
  <2> QED BY <1>0, <1>2, <2>1 DEF RowPaid, RowKept
<1>3. CASE res'[k] = res[k]
  BY <1>0, <1>3 DEF RowPaid, RowKept
<1>4. CASE CancelUpdate(p)
  <2>1. key[p] \in Keys /\ res[key[p]] # NoRes
    BY <1>4 DEF CancelUpdate, LocalsOK, LocalOK
  <2>2. res'[k] = res[k] \/ (k = key[p] /\ res'[k] = Ended(res[k], "cancelled"))
    BY <1>4, <2>1 DEF CancelUpdate, TypeOK, TablesType
  <2> QED BY <1>2, <1>3, <2>1, <2>2
<1>5. CASE ExpireCommit(p)
  <2>1. res'[k] = IF k \in batch[p] THEN Ended(res[k], "expired") ELSE res[k]
    BY <1>5 DEF ExpireCommit
  <2>2. k \in batch[p] => res[k] # NoRes
    BY DEF LocalsOK, LocalOK
  <2> QED BY <1>2, <1>3, <2>1, <2>2
<1>6. CASE CommitObligation(p)
  <2> DEFINE r == res[key[p]]
             n == Flushed(r.bill, seen[p], want[p])
             row == [req |-> r.req, lines |-> r.lines, bill |-> n]
  <2>1. /\ key[p] \in Keys /\ r \in Row /\ seen[p] \in Bill /\ want[p] \in Bill
        /\ pc[p] = "pay" /\ r # NoRes
    BY <1>6 DEF CommitObligation, LocalsOK, LocalOK, TypeOK, TablesType
  <2>2. res' = [res EXCEPT ![key[p]] = row]
    BY <1>6 DEF CommitObligation
  <2>3. RowPaid(key[p]) /\ EventOK(r.req, r.bill, seen[p], want[p])
    BY <2>1 DEF RowsPaid, EventsOK
  <2>4. r.req \in Requests /\ r.bill \in Bill
    BY <2>1, RowFields
  <2>5. /\ OblOK(r.req, r.bill.obl)
        /\ r.bill.state = "reserved" => r.bill.obl \in RequiredObligation(r.req)
        /\ Terminal(r.bill) => r.lines = "cancelled"
    BY <2>1, <2>3 DEF RowPaid
  <2>6. /\ OblOK(r.req, n.obl)
        /\ n.state = "reserved" => n.obl \in RequiredObligation(r.req)
        /\ r.bill.obl # "unpaid" => n.obl # "unpaid"
        /\ n.state = r.bill.state \/ n.state = "reserved"
    BY <2>1, <2>3, <2>4, <2>5, FlushedPaid
  <2>7. row.req = r.req /\ row.bill = n /\ row.lines = r.lines
    OBVIOUS
  <2> HIDE DEF row, n
  <2>8. Terminal(n) => r.lines = "cancelled"
    BY <2>5, <2>6 DEF Terminal
  <2>9. CASE k = key[p]
    BY <2>1, <2>2, <2>6, <2>7, <2>8, <2>9 DEF RowPaid, RowKept, TypeOK, TablesType
  <2>10. CASE k # key[p]
    BY <1>3, <2>2, <2>10 DEF TypeOK, TablesType
  <2> QED BY <2>9, <2>10
<1>7. CASE UNCHANGED res
  BY <1>3, <1>7
<1> QED BY <1>1, <1>4, <1>5, <1>6, <1>7
        DEF Step, LockVehicle, CheckVehicleOverlap, VehicleConflict, SelectSupply, LockSupplyRow,
            CheckSupplyCoverage, SupplyRefused, InsertLoses, CancelConflict, ExpireNext,
            ExpireUpdate, ObligationCollision, CommitSupply, DeadlockVictim, Raise, tables

(* Rows under every step of the system.                                     *)
LEMMA NextRows ==
    ASSUME TypeOK, LocalsOK, RowsPaid, EventsOK, [Next]_vars
    PROVE  RowsPaid' /\ \A k \in Keys : RowKept(k)
<1>1. ASSUME NEW p \in Procs, Step(p) PROVE RowsPaid' /\ \A k \in Keys : RowKept(k)
  BY <1>1, StepRows DEF RowsPaid
<1>2. CASE UNCHANGED res
  BY <1>2 DEF RowsPaid, RowPaid, RowKept
<1>3. ASSUME NEW p \in Procs, Abort(p) PROVE UNCHANGED res
  BY <1>3 DEF Abort, Raise, tables
<1>4. ASSUME NEW k \in Keys, DepositFallsDue(k) PROVE UNCHANGED res
  BY <1>4 DEF DepositFallsDue, tables
<1>5. CASE UNCHANGED vars
  BY <1>2, <1>5 DEF vars, tables
<1> QED BY <1>1, <1>2, <1>3, <1>4, <1>5, StartSession DEF Next

(* A process about to store an event was so before, with the same locals,   *)
(* or has just computed it.                                                 *)
LEMMA PayStep ==
    ASSUME TypeOK, LocalsOK, [Next]_vars, NEW q \in Procs, pc'[q] = "pay"
    PROVE  \/ Untouched(q)
           \/ \E k \in Keys, t \in Obligations, a \in 0 .. 2, f \in Refs \cup {NoRef} :
                ApplyObligationEvent(q, k, t, a, f)
<1>1. ASSUME NEW p \in Procs, Ends(p) PROVE Untouched(q)
  <2>1. PICK l \in {"idle", "raised"} : Finish(p, l)
    BY <1>1, EndsFinish
  <2> QED BY <2>1, FinishType DEF TypeOK
<1>2. ASSUME NEW p \in Procs,
             \/ LockVehicle(p) \/ LockSupplyRow(p) \/ CheckVehicleOverlap(p) \/ SelectSupply(p)
             \/ CheckSupplyCoverage(p) \/ ExpireNext(p) \/ ExpireUpdate(p)
      PROVE  Untouched(q)
  <2>1. CASE LockVehicle(p)
    BY <2>1, ReservationAssumption DEF LockVehicle, session, Untouched, TypeOK, SessionType, Wanted
  <2>2. CASE LockSupplyRow(p)
    BY <2>2 DEF LockSupplyRow, session, Untouched
  <2>3. CASE CheckVehicleOverlap(p) \/ SelectSupply(p) \/ CheckSupplyCoverage(p)
    BY <2>3 DEF CheckVehicleOverlap, SelectSupply, CheckSupplyCoverage, locks, Untouched,
                TypeOK, SessionType
  <2>4. CASE ExpireNext(p) \/ ExpireUpdate(p)
    BY <2>4 DEF ExpireNext, ExpireUpdate, locks, Untouched, TypeOK, SessionType
  <2> QED BY <1>2, <2>1, <2>2, <2>3, <2>4
<1>3. ASSUME NEW k \in Keys, DepositFallsDue(k) PROVE Untouched(q)
  BY <1>3 DEF DepositFallsDue, session, locks, Untouched
<1>4. CASE UNCHANGED vars
  BY <1>4 DEF vars, session, locks, Untouched
<1>5. ASSUME NEW p \in Procs, p # q,
           \/ \E k \in Keys, r \in Requests : CreateReservation(p, k, r)
           \/ \E k \in Keys : CancelReservation(p, k)
           \/ ExpireDueHeldReservations(p)
           \/ \E k \in Keys, t \in Obligations, a \in 0 .. 2, f \in Refs \cup {NoRef} :
                ApplyObligationEvent(p, k, t, a, f)
           \/ \E d \in Declarations : RegisterSupply(p, d)
      PROVE  Untouched(q)
  BY <1>5, StartSession
<1>6. ASSUME NEW l \in {"create", "cancel", "scan", "declare"} PROVE ~Start(q, l)
  BY <1>6, StartType DEF TypeOK
<1>7. /\ \A k \in Keys, r \in Requests : ~CreateReservation(q, k, r)
      /\ \A k \in Keys : ~CancelReservation(q, k)
      /\ ~ExpireDueHeldReservations(q)
      /\ \A d \in Declarations : ~RegisterSupply(q, d)
  BY <1>6 DEF CreateReservation, CancelReservation, ExpireDueHeldReservations, RegisterSupply
<1> QED BY <1>1, <1>2, <1>3, <1>4, <1>5, <1>7 DEF Next, Step, Ends

LEMMA NextEvents ==
    ASSUME TypeOK, LocalsOK, RowsPaid, EventsOK, [Next]_vars
    PROVE  EventsOK'
<1> SUFFICES ASSUME NEW q \in Procs, pc'[q] = "pay"
             PROVE  EventOK(res'[key'[q]].req, res'[key'[q]].bill, seen'[q], want'[q])
  BY DEF EventsOK
<1>1. CASE Untouched(q)
  <2>1. /\ pc[q] = "pay" /\ key'[q] = key[q] /\ seen'[q] = seen[q] /\ want'[q] = want[q]
        /\ key[q] \in Keys /\ res[key[q]] # NoRes
    BY <1>1 DEF Untouched, LocalsOK, LocalOK
  <2>2. EventOK(res[key[q]].req, res[key[q]].bill, seen[q], want[q])
    BY <2>1 DEF EventsOK
  <2>3. RowKept(key[q])
    BY <2>1, NextRows
  <2> QED BY <2>1, <2>2, <2>3 DEF RowKept, EventOK
<1>2. ASSUME NEW k \in Keys, NEW t \in Obligations, NEW a \in 0 .. 2, NEW f \in Refs \cup {NoRef},
             ApplyObligationEvent(q, k, t, a, f)
      PROVE  EventOK(res'[key'[q]].req, res'[key'[q]].bill, seen'[q], want'[q])
  <2> DEFINE r == res[k].req
             b == res[k].bill
  <2>1. PICK n \in Bill :
          /\ res[k] \in Row /\ seen' = [seen EXCEPT ![q] = b] /\ want' = [want EXCEPT ![q] = n]
          /\ n.obl = t /\ n.state = Promoted(r, b, t)
          /\ Settles(r, t, n.received) /\ MayBecome(b.obl, t)
    BY <1>2, EventBill
  <2>2. key'[q] = k /\ res' = res /\ seen'[q] = b /\ want'[q] = n
    BY <1>2, <2>1 DEF ApplyObligationEvent, tables, TypeOK, SessionType
  <2>3. r \in Requests /\ b \in Bill
    BY <2>1, RowFields
  <2>4. OblOK(r, t)
    BY <2>1, <2>3, RequestFields DEF Settles, OblOK, RequiredObligation, Obligations, Timings
  <2>5. n.state # b.state => n.state = "reserved" /\ t \in RequiredObligation(r)
    BY <2>1 DEF Promoted
  <2>6. t = b.obl \/ t # "unpaid"
    BY <2>1 DEF MayBecome
  <2>7. EventOK(r, b, b, n)
    BY <2>1, <2>4, <2>5, <2>6 DEF EventOK
  <2> QED BY <2>2, <2>7
<1> QED BY <1>1, <1>2, PayStep

LEMMA PaymentInvariant ==
    Spec => [](TypeOK /\ LocalsOK /\ RowsPaid /\ EventsOK)
<1>1. Init => TypeOK /\ LocalsOK /\ RowsPaid /\ EventsOK
  BY ReservationAssumption
     DEF Init, TypeOK, TablesType, SessionType, LocalsOK, LocalOK, RowsPaid, RowPaid, EventsOK
<1>2. TypeOK /\ LocalsOK /\ RowsPaid /\ EventsOK /\ [Next]_vars
        => (TypeOK /\ LocalsOK /\ RowsPaid /\ EventsOK)'
  BY TypeStep, NextRows, NextEvents
<1> QED BY <1>1, <1>2, PTL DEF Spec

(* Reservations are RESERVED only with an obligation their policy accepts,  *)
(* for any number of stale payment events: apply_obligation_event may lose  *)
(* updates, but never these two columns against each other.                 *)
THEOREM ReservedOnlyIfPaid == Spec => []ReservedIsPaid
<1>1. RowsPaid => ReservedIsPaid
  BY DEF RowsPaid, RowPaid, ReservedIsPaid
<1> QED BY <1>1, PaymentInvariant, PTL

(* A cancelled or expired reservation never holds a vehicle or a unit.      *)
THEOREM TerminalReleases == Spec => []TerminalHoldsNothing
<1>1. RowsPaid => TerminalHoldsNothing
  BY DEF RowsPaid, RowPaid, TerminalHoldsNothing
<1> QED BY <1>1, PaymentInvariant, PTL

-----------------------------------------------------------------------------
(* Expiry.                                                                  *)

(* A batch is marked by one process, which holds the rows it has updated:   *)
(* they stay as its UPDATE found them until it commits.                     *)
BatchOwned ==
    /\ \A p \in Procs : pc[p] \notin {"scan", "expire"} => batch[p] = {}
    /\ \A p, q \in Procs : p # q => batch[p] \cap batch[q] = {}
BatchUnpaid ==
    \A p \in Procs : \A k \in batch[p] : res[k].bill.state = "held" /\ res[k].bill.obl = "unpaid"

(* The row of k is changed only by a process that holds it.                 *)
LEMMA RowWriter ==
    ASSUME TypeOK, LocalsOK, BatchOwned, NEW p \in Procs, Step(p), NEW q \in Procs, q # p,
           NEW k \in batch[q]
    PROVE  res'[k] = res[k]
<1>0. k \in Keys /\ res[k] # NoRes /\ k \notin batch[p]
  BY DEF LocalsOK, LocalOK, TypeOK, SessionType, BatchOwned
<1>1. CASE CancelUpdate(p) \/ CommitObligation(p)
  <2>1. k # key[p]
    BY <1>1 DEF CancelUpdate, CommitObligation, RowFree
  <2> QED BY <1>0, <1>1, <2>1 DEF CancelUpdate, CommitObligation, TypeOK, TablesType
<1>2. CASE InsertReservation(p)
  BY <1>0, <1>2 DEF InsertReservation, TypeOK, TablesType
<1>3. CASE ExpireCommit(p)
  BY <1>0, <1>3 DEF ExpireCommit
<1>4. CASE UNCHANGED res
  BY <1>4
<1> QED BY <1>1, <1>2, <1>3, <1>4
        DEF Step, LockVehicle, CheckVehicleOverlap, VehicleConflict, SelectSupply, LockSupplyRow,
            CheckSupplyCoverage, SupplyRefused, InsertLoses, CancelConflict, ExpireNext,
            ExpireUpdate, ObligationCollision, CommitSupply, DeadlockVictim, Raise, tables

LEMMA BatchStep ==
    ASSUME TypeOK, LocalsOK, BatchOwned, BatchUnpaid, [Next]_vars
    PROVE  BatchOwned' /\ BatchUnpaid'
<1> DEFINE Goal == BatchOwned' /\ BatchUnpaid'
<1>1. ASSUME NEW p \in Procs, Step(p) \/ Abort(p), batch'[p] = {},
             \A q \in Procs \ {p} : Untouched(q)
      PROVE  Goal
  <2>1. BatchOwned'
    BY <1>1 DEF BatchOwned, Untouched
  <2>2. ASSUME NEW q \in Procs, q # p, NEW k \in batch[q] PROVE res'[k] = res[k]
    BY <1>1, <2>2, RowWriter DEF Abort, Raise, tables
  <2> QED BY <1>1, <2>1, <2>2 DEF BatchUnpaid, Untouched
<1>2. ASSUME NEW p \in Procs, Ends(p) PROVE Goal
  <2>1. PICK l \in {"idle", "raised"} : Finish(p, l)
    BY <1>2, EndsFinish
  <2>2. batch'[p] = {} /\ \A q \in Procs \ {p} : Untouched(q)
    BY <2>1, FinishType DEF TypeOK
  <2> QED BY <1>1, <1>2, <2>2 DEF Ends, Step
<1>3. CASE UNCHANGED res /\ UNCHANGED batch
           /\ \A q \in Procs : pc[q] \in {"scan", "expire"} => pc'[q] \in {"scan", "expire"}
  BY <1>3 DEF BatchOwned, BatchUnpaid
<1>4. ASSUME NEW p \in Procs,
             \/ LockVehicle(p) \/ LockSupplyRow(p) \/ CheckVehicleOverlap(p) \/ SelectSupply(p)
             \/ CheckSupplyCoverage(p) \/ ExpireNext(p)
      PROVE  Goal
  BY <1>3, <1>4 DEF LockVehicle, LockSupplyRow, CheckVehicleOverlap, SelectSupply,
                    CheckSupplyCoverage, ExpireNext, session, tables, TypeOK, SessionType
<1>5. ASSUME NEW p \in Procs, ExpireUpdate(p) PROVE Goal
  <2>1. /\ batch' = [batch EXCEPT ![p] = IF Expirable(key[p]) THEN @ \cup {key[p]} ELSE @]
        /\ pc' = [pc EXCEPT ![p] = "scan"] /\ UNCHANGED res /\ RowFree(p, key[p])
    BY <1>5 DEF ExpireUpdate, tables
  <2>2. /\ \A q \in Procs \ {p} : batch'[q] = batch[q] /\ pc'[q] = pc[q] /\ key[p] \notin batch[q]
        /\ pc'[p] = "scan"
        /\ batch'[p] = IF Expirable(key[p]) THEN batch[p] \cup {key[p]} ELSE batch[p]
    BY <2>1 DEF RowFree, TypeOK, SessionType
  <2>3. BatchOwned'
    BY <2>2 DEF BatchOwned
  <2>4. BatchUnpaid'
    BY <2>1, <2>2 DEF BatchUnpaid, Expirable
  <2> QED BY <2>3, <2>4
<1>6. ASSUME NEW p \in Procs, NEW l \in {"create", "cancel", "scan", "pay", "declare"}, Start(p, l)
      PROVE  \A q \in Procs : pc[q] \in {"scan", "expire"} => pc'[q] \in {"scan", "expire"}
  BY <1>6 DEF Start, TypeOK, SessionType
<1>7. ASSUME NEW p \in Procs,
           \/ \E k \in Keys, r \in Requests : CreateReservation(p, k, r)
           \/ \E k \in Keys : CancelReservation(p, k)
           \/ ExpireDueHeldReservations(p)
           \/ \E k \in Keys, t \in Obligations, a \in 0 .. 2, f \in Refs \cup {NoRef} :
                ApplyObligationEvent(p, k, t, a, f)
           \/ \E d \in Declarations : RegisterSupply(p, d)
      PROVE  Goal
  <2>1. /\ UNCHANGED res /\ UNCHANGED batch
        /\ \E l \in {"create", "cancel", "scan", "pay", "declare"} : Start(p, l)
    BY <1>7 DEF CreateReservation, CancelReservation, ExpireDueHeldReservations,
                ApplyObligationEvent, RegisterSupply, tables
  <2>2. PICK l \in {"create", "cancel", "scan", "pay", "declare"} : Start(p, l)
    BY <2>1
  <2>3. \A q \in Procs : pc[q] \in {"scan", "expire"} => pc'[q] \in {"scan", "expire"}
    BY <1>6, <2>2
  <2> QED BY <1>3, <2>1, <2>3
<1>8. ASSUME NEW k \in Keys, DepositFallsDue(k) PROVE Goal
  BY <1>3, <1>8 DEF DepositFallsDue, tables, session
<1>9. CASE UNCHANGED vars
  BY <1>3, <1>9 DEF vars, tables, session
<1> QED BY <1>2, <1>4, <1>5, <1>7, <1>8, <1>9 DEF Next, Step, Ends

(* What turns EXPIRED in a step is what its expiry batch had marked.        *)
LEMMA ExpiresStep ==
    ASSUME TypeOK, LocalsOK, RowsPaid, EventsOK, BatchUnpaid, [Next]_vars,
           NEW k \in Keys, res[k] # NoRes, res[k].bill.state # "expired",
           res'[k].bill.state = "expired"
    PROVE  res[k].bill.state = "held" /\ res[k].bill.obl = "unpaid"
<1>1. res'[k] # res[k]
  OBVIOUS
<1>2. ASSUME NEW p \in Procs, CancelUpdate(p) PROVE FALSE
  <2>1. key[p] \in Keys /\ res[key[p]] \in Row
    BY <1>2 DEF CancelUpdate, LocalsOK, LocalOK, TypeOK, TablesType
  <2>2. res'[k] = Ended(res[key[p]], "cancelled")
    BY <1>1, <1>2, <2>1 DEF CancelUpdate, TypeOK, TablesType
  <2> QED BY <2>1, <2>2, EndedType
<1>3. ASSUME NEW p \in Procs, CommitObligation(p) PROVE FALSE
  <2> DEFINE r == res[key[p]]
             n == Flushed(r.bill, seen[p], want[p])
  <2>1. /\ key[p] \in Keys /\ r \in Row /\ seen[p] \in Bill /\ want[p] \in Bill
        /\ pc[p] = "pay"
    BY <1>3 DEF CommitObligation, LocalsOK, LocalOK, TypeOK, TablesType
  <2>2. k = key[p] /\ res'[k].bill = n
    BY <1>1, <1>3, <2>1 DEF CommitObligation, TypeOK, TablesType
  <2>3. EventOK(r.req, r.bill, seen[p], want[p])
    BY <2>1 DEF EventsOK
  <2>4. n.state = r.bill.state \/ n.state = "reserved"
    BY <2>3 DEF EventOK, Flushed
  <2> QED BY <2>2, <2>4
<1>4. ASSUME NEW p \in Procs, InsertReservation(p) PROVE FALSE
  BY <1>1, <1>4 DEF InsertReservation, TypeOK, TablesType
<1>5. ASSUME NEW p \in Procs, ExpireCommit(p) PROVE k \in batch[p]
  BY <1>1, <1>5 DEF ExpireCommit
<1>6. ~UNCHANGED res
  BY <1>1
<1>7. PICK p \in Procs : Step(p)
  <2>1. ASSUME NEW p \in Procs, Abort(p) PROVE FALSE
    BY <1>6, <2>1 DEF Abort, Raise, tables
  <2>2. ASSUME NEW j \in Keys, DepositFallsDue(j) PROVE FALSE
    BY <1>6, <2>2 DEF DepositFallsDue, tables
  <2>3. ~UNCHANGED vars
    BY <1>6 DEF vars, tables
  <2> QED BY <1>6, <2>1, <2>2, <2>3, StartSession DEF Next
<1>8. ExpireCommit(p)
  BY <1>2, <1>3, <1>4, <1>6, <1>7
     DEF Step, LockVehicle, CheckVehicleOverlap, VehicleConflict, SelectSupply, LockSupplyRow,
         CheckSupplyCoverage, SupplyRefused, InsertLoses, CancelConflict, ExpireNext,
         ExpireUpdate, ObligationCollision, CommitSupply, DeadlockVictim, Raise, tables
<1> QED BY <1>5, <1>8 DEF BatchUnpaid

(* No paid, reserved or cancelled reservation is ever expired: the UPDATE   *)
(* of the batch repeats the conditions of its scan and locks the row until  *)
(* the commit.                                                              *)
THEOREM OnlyUnpaidExpire == Spec => ExpiresOnlyUnpaid
<1> DEFINE Inv == TypeOK /\ LocalsOK /\ RowsPaid /\ EventsOK /\ BatchOwned /\ BatchUnpaid
<1>1. Init => BatchOwned /\ BatchUnpaid
  BY DEF Init, BatchOwned, BatchUnpaid
<1>2. TypeOK /\ LocalsOK /\ BatchOwned /\ BatchUnpaid /\ [Next]_vars
        => (BatchOwned /\ BatchUnpaid)'
  BY BatchStep
<1>3. Inv /\ [Next]_vars =>
        [\A k \in Keys :
           res[k] # NoRes /\ res[k].bill.state # "expired" /\ res'[k].bill.state = "expired"
             => res[k].bill.state = "held" /\ res[k].bill.obl = "unpaid"]_vars
  BY ExpiresStep
<1> QED BY <1>1, <1>2, <1>3, PaymentInvariant, PTL DEF Spec, ExpiresOnlyUnpaid


-----------------------------------------------------------------------------
(* Capacity.                                                                *)

(* Past its SELECT ... FOR UPDATE, and past its check of the supply.        *)
Selected == {"supply", "insert"}

LinesAt(t) == Committed([from |-> t, to |-> t + 1])

(* The locking statement returned declared rows.                            *)
RowsDeclared == \A p \in Procs : pc[p] \in Selected => rows[p] \subseteq Declared

(* Of two locking statements the later one saw whatever the earlier one saw *)
(* and both windows need.                                                   *)
Sees(p, q) == \A s \in rows[p] : Overlap(supply[s].win, req[q].win) => s \in rows[q]
RowsShared ==
    \A p, q \in Procs : pc[p] \in Selected /\ pc[q] \in Selected => Sees(p, q) \/ Sees(q, p)

(* From its check to its commit a create holds its rows ...                 *)
HoldsRows == \A p \in Procs : pc[p] = "insert" => \A s \in rows[p] : supLock[s] = p

(* ... and every instant of its window has a row with room for it.          *)
RoomAt(p, t) ==
    \E s \in rows[p] : /\ Covers(supply[s].win, t)
                       /\ Cardinality(LinesAt(t)) + req[p].qty <= supply[s].units
RoomKept ==
    \A p \in Procs : pc[p] = "insert" =>
        \A t \in req[p].win.from .. (req[p].win.to - 1) : RoomAt(p, t)

LinesFinite == IsFiniteSet({k \in Keys : Active(k)})

CapacityInv == RowsDeclared /\ RowsShared /\ HoldsRows /\ RoomKept /\ LinesFinite

(* What a step leaves of a create between its SELECT and its commit.        *)
Queued(q) ==
    /\ pc'[q] = pc[q] /\ req'[q] = req[q] /\ rows'[q] = rows[q]
    /\ \A s \in SupplyIds : supLock[s] = q => supLock'[s] = q

SupplyStays == \A s \in Declared : s \in Declared' /\ supply'[s] = supply[s]

LEMMA SupplyStep ==
    ASSUME TypeOK, LocalsOK, [Next]_vars
    PROVE  SupplyStays
<1>1. CASE supply' = supply
  BY <1>1 DEF SupplyStays, Declared
<1>2. ASSUME NEW p \in Procs, CommitSupply(p) PROVE SupplyStays
  <2>1. slice[p] # NoSlice
    BY <1>2, ReservationAssumption DEF CommitSupply, LocalsOK, LocalOK
  <2> QED BY <1>2, <2>1 DEF CommitSupply, SupplyStays, Declared, TypeOK, TablesType
<1>3. ASSUME NEW p \in Procs, Step(p), ~CommitSupply(p) PROVE supply' = supply
  BY <1>3 DEF Step, LockVehicle, CheckVehicleOverlap, VehicleConflict, SelectSupply, LockSupplyRow,
              CheckSupplyCoverage, SupplyRefused, InsertReservation, InsertLoses, CancelUpdate,
              CancelConflict, ExpireNext, ExpireUpdate, ExpireCommit, CommitObligation,
              ObligationCollision, DeadlockVictim, Raise, tables
<1>4. ASSUME NEW p \in Procs, Abort(p) PROVE supply' = supply
  BY <1>4 DEF Abort, Raise, tables
<1>5. ASSUME NEW k \in Keys, DepositFallsDue(k) PROVE supply' = supply
  BY <1>5 DEF DepositFallsDue, tables
<1>6. ASSUME UNCHANGED vars PROVE supply' = supply
  BY <1>6 DEF vars, tables
<1> QED BY <1>1, <1>2, <1>3, <1>4, <1>5, <1>6, StartSession DEF Next

(* Where a process is past its SELECT after a step, it was there before     *)
(* with the same rows and locks, or it has just made the SELECT or the      *)
(* check.                                                                   *)
LEMMA SelectedStep ==
    ASSUME TypeOK, LocalsOK, [Next]_vars, NEW q \in Procs, pc'[q] \in Selected
    PROVE  Queued(q) \/ SelectSupply(q) \/ CheckSupplyCoverage(q)
<1>1. ASSUME NEW p \in Procs, Ends(p) PROVE Queued(q)
  <2>1. PICK l \in {"idle", "raised"} : Finish(p, l)
    BY <1>1, EndsFinish
  <2>2. p # q
    BY <2>1, FinishType DEF TypeOK, Selected
  <2> QED BY <2>1, <2>2 DEF Finish, Queued, TypeOK, SessionType
<1>2. ASSUME NEW p \in Procs, CheckVehicleOverlap(p) PROVE Queued(q)
  BY <1>2 DEF CheckVehicleOverlap, locks, Queued, TypeOK, SessionType, Selected
<1>3. ASSUME NEW p \in Procs, SelectSupply(p) \/ CheckSupplyCoverage(p), p # q PROVE Queued(q)
  BY <1>3 DEF SelectSupply, CheckSupplyCoverage, locks, Queued, TypeOK, SessionType
<1>4. ASSUME NEW p \in Procs, LockSupplyRow(p) PROVE Queued(q)
  BY <1>4, ReservationAssumption
     DEF LockSupplyRow, session, WantedRows, Queued, TypeOK, SessionType
<1>5. ASSUME NEW p \in Procs, LockVehicle(p) PROVE Queued(q)
  BY <1>5 DEF LockVehicle, session, Queued
<1>6. ASSUME NEW p \in Procs, ExpireNext(p) \/ ExpireUpdate(p) PROVE Queued(q)
  BY <1>6 DEF ExpireNext, ExpireUpdate, Queued, TypeOK, SessionType, Selected, locks
<1>7. ASSUME NEW k \in Keys, DepositFallsDue(k) PROVE Queued(q)
  BY <1>7 DEF DepositFallsDue, session, locks, Queued
<1>8. CASE UNCHANGED vars
  BY <1>8 DEF vars, session, locks, Queued
<1>9. ASSUME NEW p \in Procs,
             NEW l \in {"create", "cancel", "scan", "pay", "declare"}, Start(p, l),
             req'[q] = req[q] \/ p = q, UNCHANGED <<rows, supLock>>
      PROVE  Queued(q)
  <2>1. p # q
    BY <1>9, StartType DEF TypeOK, Selected
  <2> QED BY <1>9, <2>1, StartType DEF TypeOK, Queued
<1>10. ASSUME NEW p \in Procs,
            \/ \E k \in Keys, r \in Requests : CreateReservation(p, k, r)
            \/ \E k \in Keys : CancelReservation(p, k)
            \/ ExpireDueHeldReservations(p)
            \/ \E k \in Keys, t \in Obligations, a \in 0 .. 2, f \in Refs \cup {NoRef} :
                 ApplyObligationEvent(p, k, t, a, f)
            \/ \E d \in Declarations : RegisterSupply(p, d)
       PROVE  Queued(q)
  <2>1. CASE \E k \in Keys, r \in Requests : CreateReservation(p, k, r)
    <3>1. Start(p, "create") /\ (req'[q] = req[q] \/ p = q) /\ UNCHANGED <<rows, supLock>>
      BY <2>1 DEF CreateReservation, locks, TypeOK, SessionType
    <3> QED BY <3>1, <1>9
  <2>2. CASE \E k \in Keys : CancelReservation(p, k)
    <3>1. Start(p, "cancel") /\ req'[q] = req[q] /\ UNCHANGED <<rows, supLock>>
      BY <2>2 DEF CancelReservation, locks
    <3> QED BY <3>1, <1>9
  <2>3. CASE ExpireDueHeldReservations(p)
    <3>1. Start(p, "scan") /\ req'[q] = req[q] /\ UNCHANGED <<rows, supLock>>
      BY <2>3 DEF ExpireDueHeldReservations, locks
    <3> QED BY <3>1, <1>9
  <2>4. CASE \E k \in Keys, t \in Obligations, a \in 0 .. 2, f \in Refs \cup {NoRef} :
               ApplyObligationEvent(p, k, t, a, f)
    <3>1. Start(p, "pay") /\ req'[q] = req[q] /\ UNCHANGED <<rows, supLock>>
      BY <2>4 DEF ApplyObligationEvent, locks
    <3> QED BY <3>1, <1>9
  <2>5. CASE \E d \in Declarations : RegisterSupply(p, d)
    <3>1. Start(p, "declare") /\ req'[q] = req[q] /\ UNCHANGED <<rows, supLock>>
      BY <2>5 DEF RegisterSupply, locks
    <3> QED BY <3>1, <1>9
  <2> QED BY <1>10, <2>1, <2>2, <2>3, <2>4, <2>5
<1> QED BY <1>1, <1>2, <1>3, <1>4, <1>5, <1>6, <1>7, <1>8, <1>10 DEF Next, Step, Ends

-----------------------------------------------------------------------------
(* Counting lines.                                                          *)
LEMMA WindowFields ==
    ASSUME NEW w \in Windows
    PROVE  w.from \in Int /\ w.to \in Int
BY ReservationAssumption DEF Windows

LEMMA QtyType ==
    ASSUME NEW r \in Requests
    PROVE  r.qty \in 1 .. MaxQty
BY ReservationAssumption DEF ReservationAssumption, RequestType

(* The lines of finitely many reservations can be counted.                  *)
LEMMA LinesCount ==
    ASSUME LinesFinite, NEW w
    PROVE  IsFiniteSet(Committed(w)) /\ Cardinality(Committed(w)) \in Nat
<1> DEFINE S == {k \in Keys : Active(k)}
<1>1. IsFiniteSet(1 .. MaxQty)
  BY FS_Interval, ReservationAssumption
<1>2. IsFiniteSet(S \X (1 .. MaxQty))
  BY <1>1, FS_Product DEF LinesFinite
<1>3. Committed(w) \in SUBSET (S \X (1 .. MaxQty))
  BY DEF Committed
<1> QED BY <1>2, <1>3, FS_Subset, FS_CardinalityType

(* Fewer lines are fewer in number.                                         *)
LEMMA LinesShrink ==
    ASSUME LinesFinite, NEW w, NEW T, T \subseteq Committed(w)
    PROVE  /\ IsFiniteSet(T) /\ Cardinality(T) \in Nat
           /\ Cardinality(T) <= Cardinality(Committed(w))
<1>1. T \in SUBSET Committed(w)
  OBVIOUS
<1> QED BY <1>1, LinesCount, FS_Subset, FS_CardinalityType

(* A reservation has as many lines as it asks for units.                    *)
LEMMA OwnLines ==
    ASSUME NEW k, NEW n \in 1 .. MaxQty
    PROVE  IsFiniteSet({k} \X (1 .. n)) /\ Cardinality({k} \X (1 .. n)) = n
<1>1. n \in Int /\ n >= 1
  BY ReservationAssumption
<1>2. IsFiniteSet(1 .. n) /\ Cardinality(1 .. n) = n
  BY <1>1, FS_Interval
<1>3. IsFiniteSet({k}) /\ Cardinality({k}) = 1
  BY FS_Singleton
<1>4. IsFiniteSet({k} \X (1 .. n)) /\ Cardinality({k} \X (1 .. n)) = 1 * n
  BY <1>2, <1>3, FS_Product
<1> QED BY <1>1, <1>4

(* What is active after a step was active before it, or was inserted.       *)
LEMMA LinesKept ==
    ASSUME NoNewLine, NEW w
    PROVE  Committed(w)' \subseteq Committed(w)
BY DEF NoNewLine, Committed

LEMMA LinesInserted ==
    ASSUME TypeOK, LocalsOK, NEW p \in Procs, InsertReservation(p), NEW w
    PROVE  /\ Committed(w)' \subseteq Committed(w) \cup ({key[p]} \X (1 .. req[p].qty))
           /\ ~Overlap(req[p].win, w) => Committed(w)' \subseteq Committed(w)
<1>1. key[p] \in Keys /\ req[p] \in Requests
  BY DEF InsertReservation, LocalsOK, LocalOK
<1>2. /\ res'[key[p]].req = req[p]
      /\ \A k \in Keys \ {key[p]} : res'[k] = res[k]
  BY <1>1 DEF InsertReservation, TypeOK, TablesType
<1>3. req[p].qty \in 1 .. MaxQty
  BY <1>1, QtyType
<1>4. ASSUME NEW l \in Committed(w)', l \notin Committed(w)
      PROVE  l[1] = key[p] /\ l[2] <= req[p].qty /\ Overlap(req[p].win, w)
  BY <1>1, <1>2, <1>4 DEF Committed, Active
<1>5. \A l \in Committed(w)' : l = <<l[1], l[2]>> /\ l[2] \in 1 .. MaxQty
  BY DEF Committed
<1> QED BY <1>3, <1>4, <1>5

LEMMA FiniteStep ==
    ASSUME TypeOK, LocalsOK, LinesFinite, [Next]_vars
    PROVE  LinesFinite'
<1> DEFINE S == {k \in Keys : Active(k)}
<1>1. CASE \A p \in Procs : ~InsertReservation(p)
  <2>1. S' \in SUBSET S
    BY <1>1, OnlyInsertAddsLines DEF NoNewLine
  <2> QED BY <2>1, FS_Subset DEF LinesFinite
<1>2. ASSUME NEW p \in Procs, InsertReservation(p) PROVE LinesFinite'
  <2>1. \A k \in Keys \ {key[p]} : res'[k] = res[k]
    BY <1>2 DEF InsertReservation, TypeOK, TablesType
  <2>2. S' \in SUBSET (S \cup {key[p]})
    BY <2>1 DEF Active
  <2>3. IsFiniteSet(S \cup {key[p]})
    BY FS_AddElement DEF LinesFinite
  <2> QED BY <2>2, <2>3, FS_Subset DEF LinesFinite
<1> QED BY <1>1, <1>2

(* The instants of a window, and the window of an instant.                  *)
LEMMA Instants ==
    ASSUME NEW w \in Windows, NEW t \in Int
    PROVE  /\ Overlap(w, [from |-> t, to |-> t + 1]) <=> Covers(w, t)
           /\ t \in w.from .. (w.to - 1) <=> Covers(w, t)
BY WindowFields DEF Overlap, Covers

LEMMA SliceFields ==
    ASSUME TypeOK, NEW s \in Declared
    PROVE  s \in SupplyIds /\ supply[s].win \in Windows /\ supply[s].units \in Int
BY ReservationAssumption DEF TypeOK, TablesType, Declared, Slices

(* The check of the supply sees all lines of an instant that it covers.     *)
LEMMA RoomChecked ==
    ASSUME TypeOK, LocalsOK, CapacityInv, NEW p \in Procs, CheckSupplyCoverage(p),
           NEW t \in req[p].win.from .. (req[p].win.to - 1)
    PROVE  RoomAt(p, t)
<1>1. req[p] \in Requests /\ rows[p] \subseteq Declared
  BY DEF CheckSupplyCoverage, LocalsOK, LocalOK, CapacityInv, RowsDeclared, Selected
<1>2. req[p].win \in Windows /\ t \in Int
  BY <1>1, RequestFields, WindowFields
<1>3. PICK s \in rows[p] : Covers(supply[s].win, t)
  BY DEF CheckSupplyCoverage, Coverage
<1> DEFINE w == supply[s].win
           c == Clip(w, req[p].win)
<1>4. w \in Windows /\ supply[s].units \in Int
  BY <1>1, SliceFields
<1>5. ASSUME NEW x \in Windows, Overlap(x, [from |-> t, to |-> t + 1])
      PROVE  Overlap(x, c)
  BY <1>2, <1>3, <1>4, <1>5, WindowFields DEF Overlap, Covers, Clip
<1>6. LinesAt(t) \subseteq Committed(c)
  <2> HIDE DEF c
  <2>1. \A k \in Keys : Active(k) => res[k].req.win \in Windows
    BY RowFields, RequestFields DEF Active, TypeOK, TablesType
  <2> QED BY <1>5, <2>1 DEF LinesAt, Committed
<1>7. Cardinality(Committed(c)) + req[p].qty <= supply[s].units
  BY DEF CheckSupplyCoverage, Room
<1>8. /\ Cardinality(LinesAt(t)) <= Cardinality(Committed(c))
      /\ Cardinality(LinesAt(t)) \in Nat /\ Cardinality(Committed(c)) \in Nat
  BY <1>6, LinesShrink, LinesCount DEF CapacityInv
<1>9. req[p].qty \in Int
  BY <1>1, QtyType, ReservationAssumption
<1> HIDE DEF c
<1>10. Cardinality(LinesAt(t)) + req[p].qty <= supply[s].units
  BY <1>4, <1>7, <1>8, <1>9
<1> QED BY <1>3, <1>10 DEF RoomAt

-----------------------------------------------------------------------------
(* The locks keep two creates with a common instant from committing on the  *)
(* strength of checks that did not see each other.                          *)
LEMMA InsertsApart ==
    ASSUME TypeOK, LocalsOK, CapacityInv, NEW p \in Procs, NEW q \in Procs, p # q,
           pc[p] = "insert", pc[q] = "insert", Sees(p, q),
           NEW t \in req[p].win.from .. (req[p].win.to - 1)
    PROVE  ~Covers(req[q].win, t)
<1> SUFFICES ASSUME Covers(req[q].win, t) PROVE FALSE
  OBVIOUS
<1>1. /\ req[p].win \in Windows /\ req[q].win \in Windows /\ t \in Int
      /\ rows[p] \subseteq Declared
  BY RequestFields, WindowFields
     DEF LocalsOK, LocalOK, CapacityInv, RowsDeclared, Selected
<1>2. PICK s \in rows[p] : Covers(supply[s].win, t)
  BY DEF CapacityInv, RoomKept, RoomAt
<1>3. supply[s].win \in Windows
  BY <1>1, SliceFields
<1>4. Overlap(supply[s].win, req[q].win)
  BY <1>1, <1>2, <1>3, WindowFields DEF Overlap, Covers
<1>5. s \in rows[q]
  BY <1>4 DEF Sees
<1> QED BY <1>5 DEF CapacityInv, HoldsRows

(* The same whichever of the two selected its rows first.                   *)
LEMMA NeverTwoInserts ==
    ASSUME TypeOK, LocalsOK, CapacityInv, NEW p \in Procs, NEW q \in Procs, p # q,
           pc[p] = "insert", pc[q] = "insert",
           NEW t \in req[p].win.from .. (req[p].win.to - 1)
    PROVE  ~Covers(req[q].win, t)
<1>1. CASE Sees(p, q)
  BY <1>1, InsertsApart
<1>2. CASE Sees(q, p)
  <2>1. req[p].win \in Windows /\ req[q].win \in Windows /\ t \in Int
    BY RequestFields, WindowFields DEF LocalsOK, LocalOK
  <2>2. Covers(req[p].win, t)
    BY <2>1, Instants
  <2>3. Covers(req[q].win, t) => t \in req[q].win.from .. (req[q].win.to - 1)
    BY <2>1, Instants
  <2> QED BY <1>2, <2>2, <2>3, InsertsApart
<1> QED BY <1>1, <1>2 DEF CapacityInv, RowsShared, Selected

LEMMA CapacityRowsStep ==
    ASSUME TypeOK, LocalsOK, CapacityInv, [Next]_vars
    PROVE  RowsDeclared' /\ RowsShared' /\ HoldsRows'
<1>1. SupplyStays
  BY SupplyStep
<1>2. ASSUME NEW q \in Procs, pc'[q] \in Selected
      PROVE  /\ rows'[q] \subseteq Declared /\ req'[q] = req[q]
             /\ Queued(q) \/ CheckSupplyCoverage(q) => pc[q] \in Selected /\ rows'[q] = rows[q]
             /\ SelectSupply(q) =>
                  rows'[q] = {s \in Declared : Overlap(supply[s].win, req[q].win)}
  BY <1>2, SelectedStep DEF Queued, SelectSupply, CheckSupplyCoverage, CapacityInv, RowsDeclared,
                            Selected, TypeOK, SessionType
<1>3. RowsDeclared'
  BY <1>1, <1>2 DEF RowsDeclared, SupplyStays
<1>4. HoldsRows'
  <2> SUFFICES ASSUME NEW q \in Procs, pc'[q] = "insert", NEW s \in rows'[q]
               PROVE  supLock'[s] = q
    BY DEF HoldsRows
  <2>1. CASE Queued(q)
    BY <1>2, <2>1 DEF Queued, CapacityInv, HoldsRows, Declared, Selected
  <2>2. CASE CheckSupplyCoverage(q)
    BY <2>2 DEF CheckSupplyCoverage, WantedRows, locks
  <2>3. ~SelectSupply(q)
    BY DEF SelectSupply, TypeOK, SessionType
  <2> QED BY <2>1, <2>2, <2>3, SelectedStep DEF Selected
<1>5. RowsShared'
  <2> SUFFICES ASSUME NEW p \in Procs, NEW q \in Procs, pc'[p] \in Selected, pc'[q] \in Selected
               PROVE  Sees(p, q)' \/ Sees(q, p)'
    BY DEF RowsShared
  <2>1. \A s \in rows'[p] \cup rows'[q] : s \in Declared /\ supply'[s] = supply[s]
    BY <1>1, <1>2 DEF SupplyStays
  <2>2. CASE SelectSupply(p)
    BY <1>2, <2>1, <2>2 DEF Sees
  <2>3. CASE SelectSupply(q)
    BY <1>2, <2>1, <2>3 DEF Sees
  <2>4. CASE ~SelectSupply(p) /\ ~SelectSupply(q)
    <3>1. /\ pc[p] \in Selected /\ rows'[p] = rows[p]
          /\ pc[q] \in Selected /\ rows'[q] = rows[q]
      BY <1>2, <2>4, SelectedStep
    <3>2. Sees(p, q) \/ Sees(q, p)
      BY <3>1 DEF CapacityInv, RowsShared
    <3> QED BY <1>2, <2>1, <3>1, <3>2 DEF Sees
  <2> QED BY <2>2, <2>3, <2>4
<1> QED BY <1>3, <1>4, <1>5

(* The lines of an instant grow only by those of a create whose window has  *)
(* it, and by as many as that create asks for.                              *)
LEMMA LinesStep ==
    ASSUME TypeOK, LocalsOK, CapacityInv, [Next]_vars, NEW t \in Int
    PROVE  /\ Cardinality(LinesAt(t)) \in Nat /\ Cardinality(LinesAt(t)') \in Nat
           /\ \/ /\ Cardinality(LinesAt(t)') <= Cardinality(LinesAt(t))
                 /\ LinesAt(t)' \subseteq LinesAt(t)
              \/ \E p \in Procs :
                   /\ InsertReservation(p) /\ Covers(req[p].win, t)
                   /\ Cardinality(LinesAt(t)') <= Cardinality(LinesAt(t)) + req[p].qty
<1> DEFINE w == [from |-> t, to |-> t + 1]
<1>1. IsFiniteSet(Committed(w)) /\ Cardinality(Committed(w)) \in Nat /\ LinesFinite
  BY LinesCount DEF CapacityInv
<1>2. ASSUME Committed(w)' \subseteq Committed(w)
      PROVE  Cardinality(Committed(w)') \in Nat
             /\ Cardinality(Committed(w)') <= Cardinality(Committed(w))
  BY <1>1, <1>2, LinesShrink
<1>3. CASE \A p \in Procs : ~InsertReservation(p)
  BY <1>1, <1>2, <1>3, OnlyInsertAddsLines, LinesKept DEF LinesAt
<1>4. ASSUME NEW p \in Procs, InsertReservation(p), ~Overlap(req[p].win, w)
      PROVE  Committed(w)' \subseteq Committed(w)
  BY <1>4, LinesInserted
<1>5. ASSUME NEW p \in Procs, InsertReservation(p), Overlap(req[p].win, w)
      PROVE  /\ Covers(req[p].win, t) /\ Cardinality(Committed(w)') \in Nat
             /\ Cardinality(Committed(w)') <= Cardinality(Committed(w)) + req[p].qty
  <2>1. req[p] \in Requests
    BY <1>5 DEF InsertReservation, LocalsOK, LocalOK
  <2>2. Covers(req[p].win, t)
    BY <1>5, <2>1, RequestFields, Instants
  <2> DEFINE own == {key[p]} \X (1 .. req[p].qty)
  <2>3. req[p].qty \in 1 .. MaxQty /\ IsFiniteSet(own) /\ Cardinality(own) = req[p].qty
    BY <2>1, QtyType, OwnLines
  <2>4. Committed(w)' \in SUBSET (Committed(w) \cup own)
    BY <1>5, LinesInserted
  <2> HIDE DEF own, w
  <2>5. /\ IsFiniteSet(Committed(w) \cup own)
        /\ Cardinality(Committed(w) \cup own)
             = Cardinality(Committed(w)) + Cardinality(own) - Cardinality(Committed(w) \cap own)
    BY <1>1, <2>3, FS_Union
  <2>6. Cardinality(Committed(w) \cap own) \in Nat
    <3>1. Committed(w) \cap own \in SUBSET own
      OBVIOUS
    <3> QED BY <2>3, <3>1, FS_Subset, FS_CardinalityType
  <2>7. /\ Cardinality(Committed(w)') \in Nat
        /\ Cardinality(Committed(w)') <= Cardinality(Committed(w) \cup own)
    BY <2>4, <2>5, FS_Subset, FS_CardinalityType
  <2>8. req[p].qty \in Nat
    BY <2>3, ReservationAssumption
  <2> QED BY <1>1, <2>2, <2>3, <2>5, <2>6, <2>7, <2>8
<1> QED BY <1>1, <1>2, <1>3, <1>4, <1>5 DEF LinesAt

LEMMA RoomStep ==
    ASSUME TypeOK, LocalsOK, CapacityInv, [Next]_vars
    PROVE  RoomKept'
<1> SUFFICES ASSUME NEW q \in Procs, pc'[q] = "insert",
                    NEW t \in req'[q].win.from .. (req'[q].win.to - 1)
             PROVE  RoomAt(q, t)'
  BY DEF RoomKept
<1>1. Queued(q) \/ CheckSupplyCoverage(q)
  BY SelectedStep DEF SelectSupply, TypeOK, SessionType, Selected
<1>2. /\ req'[q] = req[q] /\ rows'[q] = rows[q] /\ pc[q] \in Selected /\ req[q] \in Requests
      /\ rows[q] \subseteq Declared
  BY <1>1 DEF Queued, CheckSupplyCoverage, Selected, LocalsOK, LocalOK, CapacityInv, RowsDeclared
<1>3. RoomAt(q, t)
  BY <1>1, <1>2, RoomChecked DEF Queued, CapacityInv, RoomKept
<1>4. PICK s \in rows[q] : /\ Covers(supply[s].win, t)
                           /\ Cardinality(LinesAt(t)) + req[q].qty <= supply[s].units
  BY <1>3 DEF RoomAt
<1>5. supply'[s] = supply[s] /\ supply[s].units \in Int /\ req[q].qty \in Int
  BY <1>2, SupplyStep, SliceFields, QtyType, ReservationAssumption DEF SupplyStays
<1>6. t \in Int
  BY <1>2, RequestFields, WindowFields
<1>7. ASSUME NEW p \in Procs, InsertReservation(p) PROVE ~Covers(req[p].win, t)
  <2>1. pc[p] = "insert" /\ p # q /\ pc'[p] = "idle"
    BY <1>7 DEF InsertReservation, Finish, TypeOK, SessionType
  <2>2. pc[q] = "insert"
    BY <1>1, <1>7 DEF Queued, InsertReservation, CheckSupplyCoverage, TablesType, TypeOK, LocalsOK,
                      LocalOK, tables, Finish, SessionType
  <2> QED BY <1>2, <2>1, <2>2, NeverTwoInserts
<1>8. /\ Cardinality(LinesAt(t)) \in Nat /\ Cardinality(LinesAt(t)') \in Nat
      /\ Cardinality(LinesAt(t)') <= Cardinality(LinesAt(t))
  BY <1>6, <1>7, LinesStep
<1>9. Cardinality(LinesAt(t)') + req[q].qty <= supply[s].units
  BY <1>4, <1>5, <1>8
<1> QED BY <1>2, <1>4, <1>5, <1>9 DEF RoomAt

LEMMA CapacityStep ==
    ASSUME TypeOK, LocalsOK, CapacityInv, CapacityRespected, [Next]_vars
    PROVE  CapacityInv' /\ CapacityRespected'
<1>1. CapacityInv'
  BY CapacityRowsStep, RoomStep, FiniteStep DEF CapacityInv
<1>2. ASSUME NEW t \in 0 .. (Horizon - 1), LinesAt(t)' # {}
      PROVE  \E s \in Declared' : /\ Covers(supply'[s].win, t)
                                  /\ Cardinality(LinesAt(t)') <= supply'[s].units
  <2>1. t \in Int
    BY ReservationAssumption
  <2>2. CASE LinesAt(t)' \subseteq LinesAt(t) /\ Cardinality(LinesAt(t)') <= Cardinality(LinesAt(t))
    <3>1. PICK s \in Declared : /\ Covers(supply[s].win, t)
                                /\ Cardinality(LinesAt(t)) <= supply[s].units
      BY <1>2, <2>2 DEF CapacityRespected, LinesAt
    <3>2. s \in Declared' /\ supply'[s] = supply[s] /\ supply[s].units \in Int
      BY SupplyStep, SliceFields DEF SupplyStays
    <3>3. Cardinality(LinesAt(t)) \in Nat /\ Cardinality(LinesAt(t)') \in Nat
      BY <2>1, LinesStep
    <3>4. Cardinality(LinesAt(t)') <= supply[s].units
      BY <2>2, <3>1, <3>2, <3>3
    <3> QED BY <3>1, <3>2, <3>4
  <2>3. ASSUME NEW p \in Procs, InsertReservation(p), Covers(req[p].win, t),
               Cardinality(LinesAt(t)') <= Cardinality(LinesAt(t)) + req[p].qty
        PROVE  \E s \in Declared' : /\ Covers(supply'[s].win, t)
                                    /\ Cardinality(LinesAt(t)') <= supply'[s].units
    <3>1. pc[p] = "insert" /\ req[p] \in Requests /\ rows[p] \subseteq Declared
      BY <2>3 DEF InsertReservation, LocalsOK, LocalOK, CapacityInv, RowsDeclared, Selected
    <3>2. t \in req[p].win.from .. (req[p].win.to - 1)
      BY <2>1, <2>3, <3>1, RequestFields, Instants
    <3>3. PICK s \in rows[p] : /\ Covers(supply[s].win, t)
                               /\ Cardinality(LinesAt(t)) + req[p].qty <= supply[s].units
      BY <3>1, <3>2 DEF CapacityInv, RoomKept, RoomAt
    <3>4. /\ s \in Declared' /\ supply'[s] = supply[s] /\ supply[s].units \in Int
          /\ req[p].qty \in Int
      BY <3>1, SupplyStep, SliceFields, QtyType, ReservationAssumption DEF SupplyStays
    <3>5. Cardinality(LinesAt(t)) \in Nat /\ Cardinality(LinesAt(t)') \in Nat
      BY <2>1, LinesStep
    <3>6. Cardinality(LinesAt(t)') <= supply[s].units
      BY <2>3, <3>3, <3>4, <3>5
    <3> QED BY <3>3, <3>4, <3>6
  <2> QED BY <2>1, <2>2, <2>3, LinesStep
<1>3. CapacityRespected'
  <2>1. \A t \in 0 .. (Horizon - 1) : LinesAt(t)' # {} =>
          \E s \in Declared' : /\ Covers(supply'[s].win, t)
                               /\ Cardinality(LinesAt(t)') <= supply'[s].units
    BY <1>2
  <2> QED BY <2>1, Zenon DEF CapacityRespected, LinesAt
<1> QED BY <1>1, <1>3

(* Capacity is never promised twice: at every instant some declared slice   *)
(* has as many units as there are active lines, whatever creates, expiries, *)
(* payments and racing declarations run at once.                            *)
THEOREM CapacityIsRespected == Spec => []CapacityRespected
<1> DEFINE Inv == TypeOK /\ LocalsOK /\ CapacityInv /\ CapacityRespected
<1>1. Init => Inv
  <2> SUFFICES ASSUME Init PROVE Inv
    OBVIOUS
  <2>1. TypeOK /\ LocalsOK
    BY ReservationAssumption DEF Init, TypeOK, TablesType, SessionType, LocalsOK, LocalOK
  <2>2. \A k \in Keys : ~Active(k)
    BY DEF Init, Active
  <2>3. RowsDeclared /\ RowsShared /\ HoldsRows /\ RoomKept
    BY DEF Init, RowsDeclared, RowsShared, HoldsRows, RoomKept, Selected
  <2>4. LinesFinite
    <3>1. {k \in Keys : Active(k)} = {}
      BY <2>2
    <3> QED BY <3>1, FS_EmptySet DEF LinesFinite
  <2>5. CapacityRespected
    BY <2>2 DEF CapacityRespected, Committed
  <2> QED BY <2>1, <2>3, <2>4, <2>5 DEF CapacityInv
<1>2. Inv /\ [Next]_vars => Inv'
  BY TypeStep, CapacityStep
<1> QED BY <1>1, <1>2, PTL DEF Spec
=============================================================================
