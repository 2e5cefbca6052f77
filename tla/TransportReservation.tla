------------------------ MODULE TransportReservation ------------------------
(***************************************************************************)
(* Vehicle and capacity reservations of app/transport: create, cancel,      *)
(* payment events and supply declarations of reservation_service.py and the *)
(* expiry batch of reservation_expiry_service.py, run concurrently over one *)
(* PostgreSQL database at READ COMMITTED.                                   *)
(*                                                                          *)
(* A step is a piece of a call between two points where it can wait for a   *)
(* row lock or where it takes a new snapshot.  A call that returns or       *)
(* raises from its first read changes nothing and is not a step.            *)
(*                                                                          *)
(* One provider and one offering, so all supply and all lines belong to the *)
(* same pool.  Windows are half-open intervals of instants.  A reservation  *)
(* is named by its idempotency key, which is unique per user in the table.  *)
(***************************************************************************)
EXTENDS Integers, FiniteSets

CONSTANTS
    Procs,        \* request handlers and workers that may run at once
    Keys,         \* idempotency keys, hence reservations
    Vehicles,     \* vehicle ids
    SupplyIds,    \* ids of provider_offering_supply rows
    Horizon,      \* instants are 0 .. Horizon - 1
    MaxQty,       \* largest required_quantity or total_units
    Requests,     \* the create requests callers make
    Declarations, \* the supply slices providers declare
    OpeningSupply,\* the supply declared before the behaviour starts
    Refs,         \* wallet transaction references
    MaxOps,       \* bound on the number of calls in a behaviour
    NoProc, NoRes, NoReq, NoSlice, NoKey, NoRef, NoBill

Windows == { w \in [from : 0 .. Horizon, to : 0 .. Horizon] : w.from < w.to }
Slices  == [win : Windows, units : 1 .. MaxQty]
Timings == {"NOW", "DEPOSIT", "LATER"}   \* LATER: END_OF_TRIP and INVOICE

(* A specific-mode request lists qty vehicle ids, vehs being the set of     *)
(* them; a capacity-mode request has none.  priced: estimated_value given.  *)
RequestType ==
    { r \in [vehs : SUBSET Vehicles, qty : 1 .. MaxQty, win : Windows,
             timing : Timings, priced : BOOLEAN] : Cardinality(r.vehs) <= r.qty }

ASSUME ReservationAssumption ==
    /\ Vehicles \subseteq Nat /\ SupplyIds \subseteq Nat
    /\ Horizon \in Nat /\ MaxQty \in Nat /\ MaxOps \in Nat
    /\ Requests \subseteq RequestType
    /\ Declarations \subseteq Slices
    /\ OpeningSupply \in [SupplyIds -> Slices \cup {NoSlice}]
    /\ NoProc \notin Procs /\ NoSlice \notin Slices /\ NoReq \notin Requests
    /\ NoKey \notin Keys /\ NoRef \notin Refs

(* The columns of a reservation that a payment event rewrites.  Amounts: 0  *)
(* nothing, 1 the deposit, 2 the full price.                                *)
Obligations == {"unpaid", "deposited", "paid"}
Bill == [state : {"held", "reserved", "cancelled", "expired"}, obl : Obligations,
         received : 0 .. 2, ref : Refs \cup {NoRef}]
Row  == [req : Requests, bill : Bill, lines : {"active", "cancelled"}]

ASSUME ReservationRowAssumption == NoRes \notin Row /\ NoBill \notin Bill

VARIABLES
    res,      \* transport_reservations with their lines
    due,      \* reservations whose deposit_due_at has passed
    supply,   \* provider_offering_supply
    vehLock,  \* who holds FOR UPDATE on a vehicle row
    supLock,  \* who holds FOR UPDATE on a supply row
    pc,       \* where each process is; "raised": idle after an exception
    key,      \* the reservation a process works on
    req,      \* the create request of a process
    need,     \* the vehicles its current locking statement asks for
    rows,     \* the supply rows its locking statement saw
    todo,     \* reservations an expiry batch has still to examine
    batch,    \* reservations an expiry batch has marked, not yet committed
    seen,     \* the bill a payment event loaded
    want,     \* the bill it means to store
    slice,    \* the slice a declaration is about to insert
    begun     \* calls begun so far

tables  == <<res, supply>>
locks   == <<vehLock, supLock>>
session == <<pc, key, req, need, rows, todo, batch, seen, want, slice>>
vars    == <<tables, due, locks, session, begun>>

-----------------------------------------------------------------------------
(* Windows, lines and supply.                                               *)
Overlap(w, x) == w.from < x.to /\ x.from < w.to
Covers(w, t)  == w.from <= t /\ t < w.to
Clip(w, x) == [from |-> IF w.from < x.from THEN x.from ELSE w.from,
               to   |-> IF w.to < x.to THEN w.to ELSE x.to]

Active(k)   == res[k] # NoRes /\ res[k].lines = "active"
Terminal(b) == b.state \in {"cancelled", "expired"}

(* The active lines of the pool that overlap a window, one per unit.        *)
Committed(w) ==
    { l \in Keys \X (1 .. MaxQty) :
        /\ Active(l[1]) /\ l[2] <= res[l[1]].req.qty
        /\ Overlap(res[l[1]].req.win, w) }

Declared == { s \in SupplyIds : supply[s] # NoSlice }

Conflict(r) ==
    \E k \in Keys : /\ Active(k) /\ res[k].req.vehs \cap r.vehs # {}
                    /\ Overlap(res[k].req.win, r.win)

(* Every instant of the window lies in one of the rows, and every row has   *)
(* room for the quantity.                                                   *)
Coverage(S, r) ==
    \A t \in r.win.from .. (r.win.to - 1) : \E s \in S : Covers(supply[s].win, t)
Room(S, r) ==
    \A s \in S : Cardinality(Committed(Clip(supply[s].win, r.win))) + r.qty <= supply[s].units

(* The obligation a policy demands before a reservation is RESERVED.        *)
RequiredObligation(r) ==
    CASE r.timing = "NOW"     -> {"paid"}
      [] r.timing = "DEPOSIT" -> {"deposited", "paid"}
      [] r.timing = "LATER"   -> Obligations

-----------------------------------------------------------------------------
Init ==
    /\ res = [k \in Keys |-> NoRes]
    /\ due = {}
    /\ supply = OpeningSupply
    /\ vehLock = [v \in Vehicles |-> NoProc]
    /\ supLock = [s \in SupplyIds |-> NoProc]
    /\ pc = [p \in Procs |-> "idle"]
    /\ key = [p \in Procs |-> NoKey]
    /\ req = [p \in Procs |-> NoReq]
    /\ need = [p \in Procs |-> {}]
    /\ rows = [p \in Procs |-> {}]
    /\ todo = [p \in Procs |-> {}]
    /\ batch = [p \in Procs |-> {}]
    /\ seen = [p \in Procs |-> NoBill]
    /\ want = [p \in Procs |-> NoBill]
    /\ slice = [p \in Procs |-> NoSlice]
    /\ begun = 0

Start(p, label) ==
    /\ pc[p] \in {"idle", "raised"} /\ begun < MaxOps
    /\ pc' = [pc EXCEPT ![p] = label]
    /\ begun' = begun + 1

(* Mutant: the call ends without COMMIT or ROLLBACK and its locks stay.     *)
Finish_KeepsLocks(p, label) ==
    /\ pc' = [pc EXCEPT ![p] = label]
    /\ key' = [key EXCEPT ![p] = NoKey]
    /\ req' = [req EXCEPT ![p] = NoReq]
    /\ need' = [need EXCEPT ![p] = {}]
    /\ rows' = [rows EXCEPT ![p] = {}]
    /\ todo' = [todo EXCEPT ![p] = {}]
    /\ batch' = [batch EXCEPT ![p] = {}]
    /\ seen' = [seen EXCEPT ![p] = NoBill]
    /\ want' = [want EXCEPT ![p] = NoBill]
    /\ slice' = [slice EXCEPT ![p] = NoSlice]
    /\ UNCHANGED <<vehLock, supLock, begun>>

(* COMMIT or ROLLBACK: the locks go, and the call is over.                  *)
Finish(p, label) ==
    /\ vehLock' = [v \in Vehicles |-> IF vehLock[v] = p THEN NoProc ELSE vehLock[v]]
    /\ supLock' = [s \in SupplyIds |-> IF supLock[s] = p THEN NoProc ELSE supLock[s]]
    /\ pc' = [pc EXCEPT ![p] = label]
    /\ key' = [key EXCEPT ![p] = NoKey]
    /\ req' = [req EXCEPT ![p] = NoReq]
    /\ need' = [need EXCEPT ![p] = {}]
    /\ rows' = [rows EXCEPT ![p] = {}]
    /\ todo' = [todo EXCEPT ![p] = {}]
    /\ batch' = [batch EXCEPT ![p] = {}]
    /\ seen' = [seen EXCEPT ![p] = NoBill]
    /\ want' = [want EXCEPT ![p] = NoBill]
    /\ slice' = [slice EXCEPT ![p] = NoSlice]
    /\ UNCHANGED begun

Raise(p) == Finish(p, "raised") /\ UNCHANGED <<tables, due>>

-----------------------------------------------------------------------------
(* Row locks.                                                               *)

(* Mutants: the rows are read without FOR UPDATE.                           *)
Wanted_Unlocked(p)     == {}
WantedRows_Unlocked(p) == {}

Wanted(p)     == { v \in need[p] : vehLock[v] # p }
WantedRows(p) == { s \in rows[p] : supLock[s] # p }

Before(s, u) ==
    \/ supply[s].win.from < supply[u].win.from
    \/ supply[s].win.from = supply[u].win.from /\ s <= u

(* _lock_vehicles_for_reservation takes the rows in ascending id order.     *)
LockVehicle(p) ==
    /\ pc[p] \in {"create", "cancel", "expire"}
    /\ \E v \in Wanted(p) :
         /\ \A u \in Wanted(p) : v <= u
         /\ vehLock[v] = NoProc
         /\ vehLock' = [vehLock EXCEPT ![v] = p]
    /\ UNCHANGED <<tables, due, supLock, session, begun>>

(* A reservation row is locked from the batch's UPDATE to its COMMIT.       *)
RowFree(p, k) == \A q \in Procs \ {p} : k \notin batch[q]

-----------------------------------------------------------------------------
(* create_reservation                                                       *)

(* The key is looked up without a lock; a row found is returned, or refused *)
(* when its fingerprint differs.  Policy refusals are part of Abort.        *)
CreateReservation(p, k, r) ==
    /\ res[k] = NoRes
    /\ Start(p, "create")
    /\ key' = [key EXCEPT ![p] = k]
    /\ req' = [req EXCEPT ![p] = r]
    /\ need' = [need EXCEPT ![p] = r.vehs]
    /\ UNCHANGED <<tables, due, locks, rows, todo, batch, seen, want, slice>>

CheckVehicleOverlap(p) ==
    /\ pc[p] = "create" /\ Wanted(p) = {}
    /\ ~Conflict(req[p])
    /\ pc' = [pc EXCEPT ![p] = "select"]
    /\ UNCHANGED <<tables, due, locks, key, req, need, rows, todo, batch, seen, want, slice, begun>>

VehicleConflict(p) ==
    /\ pc[p] = "create" /\ Wanted(p) = {}
    /\ Conflict(req[p])
    /\ Raise(p)

(* SELECT ... FOR UPDATE: the rows are those of the statement's snapshot,   *)
(* locked one by one in order of start and id.                              *)
SelectSupply(p) ==
    /\ pc[p] = "select"
    /\ rows' = [rows EXCEPT ![p] = { s \in Declared : Overlap(supply[s].win, req[p].win) }]
    /\ pc' = [pc EXCEPT ![p] = "supply"]
    /\ UNCHANGED <<tables, due, locks, key, req, need, todo, batch, seen, want, slice, begun>>

LockSupplyRow(p) ==
    /\ pc[p] = "supply"
    /\ \E s \in WantedRows(p) :
         /\ \A u \in WantedRows(p) : Before(s, u)
         /\ supLock[s] = NoProc
         /\ supLock' = [supLock EXCEPT ![s] = p]
    /\ UNCHANGED <<tables, due, vehLock, session, begun>>

CheckSupplyCoverage(p) ==
    /\ pc[p] = "supply" /\ WantedRows(p) = {}
    /\ Coverage(rows[p], req[p]) /\ Room(rows[p], req[p])
    /\ pc' = [pc EXCEPT ![p] = "insert"]
    /\ UNCHANGED <<tables, due, locks, key, req, need, rows, todo, batch, seen, want, slice, begun>>

SupplyRefused(p) ==
    /\ pc[p] = "supply" /\ WantedRows(p) = {}
    /\ ~(Coverage(rows[p], req[p]) /\ Room(rows[p], req[p]))
    /\ Raise(p)

(* Header and lines commit together; DRAFT is left for HELD at once, and    *)
(* for RESERVED where the policy demands nothing.                           *)
InsertReservation(p) ==
    /\ pc[p] = "insert" /\ res[key[p]] = NoRes
    /\ res' = [res EXCEPT ![key[p]] =
                 [req |-> req[p], lines |-> "active",
                  bill |-> [state |-> IF "unpaid" \in RequiredObligation(req[p])
                                        THEN "reserved" ELSE "held",
                            obl |-> "unpaid", received |-> 0, ref |-> NoRef]]]
    /\ Finish(p, "idle")
    /\ UNCHANGED <<due, supply>>

(* The key was taken since it was looked up: IntegrityError, rollback, and  *)
(* a TypeError from _lookup_idempotent, whose parameters are keyword-only.  *)
InsertLoses(p) ==
    /\ pc[p] = "insert" /\ res[key[p]] # NoRes
    /\ Raise(p)

-----------------------------------------------------------------------------
(* cancel_reservation                                                       *)

(* The row is read without a lock, and its active vehicles with it.         *)
CancelReservation(p, k) ==
    /\ res[k] # NoRes /\ ~Terminal(res[k].bill)
    /\ Start(p, "cancel")
    /\ key' = [key EXCEPT ![p] = k]
    /\ need' = [need EXCEPT ![p] = IF Active(k) THEN res[k].req.vehs ELSE {}]
    /\ UNCHANGED <<tables, due, locks, req, rows, todo, batch, seen, want, slice>>

WithState(b, s) == [state |-> s, obl |-> b.obl, received |-> b.received, ref |-> b.ref]

(* The row r in terminal state s, its lines released.                       *)
Ended(r, s) == [req |-> r.req, bill |-> WithState(r.bill, s), lines |-> "cancelled"]

(* Mutant: the lines of a cancelled reservation stay active.                *)
CancelUpdate_KeepsLines(p) ==
    /\ pc[p] = "cancel" /\ Wanted(p) = {} /\ RowFree(p, key[p])
    /\ ~Terminal(res[key[p]].bill)
    /\ res' = [res EXCEPT ![key[p]] = [req |-> res[key[p]].req, lines |-> res[key[p]].lines,
                                       bill |-> WithState(res[key[p]].bill, "cancelled")]]
    /\ Finish(p, "idle")
    /\ UNCHANGED <<due, supply>>

(* UPDATE ... WHERE state IN (held, reserved, materialized), then the lines.*)
CancelUpdate(p) ==
    /\ pc[p] = "cancel" /\ Wanted(p) = {} /\ RowFree(p, key[p])
    /\ ~Terminal(res[key[p]].bill)
    /\ res' = [res EXCEPT ![key[p]] = Ended(res[key[p]], "cancelled")]
    /\ Finish(p, "idle")
    /\ UNCHANGED <<due, supply>>

CancelConflict(p) ==
    /\ pc[p] = "cancel" /\ Wanted(p) = {} /\ RowFree(p, key[p])
    /\ Terminal(res[key[p]].bill)
    /\ Raise(p)

-----------------------------------------------------------------------------
(* expire_due_held_reservations                                             *)
Expirable(k) ==
    /\ res[k] # NoRes /\ k \in due
    /\ res[k].bill.state = "held" /\ res[k].bill.obl = "unpaid"

(* now passes the deadline of a reservation that has one.                   *)
DepositFallsDue(k) ==
    /\ res[k] # NoRes /\ res[k].req.timing = "DEPOSIT" /\ k \notin due
    /\ due' = due \cup {k}
    /\ UNCHANGED <<tables, locks, session, begun>>

ExpireDueHeldReservations(p) ==
    /\ \E k \in Keys : Expirable(k)
    /\ Start(p, "scan")
    /\ todo' = [todo EXCEPT ![p] = { k \in Keys : Expirable(k) }]
    /\ UNCHANGED <<tables, due, locks, key, req, need, rows, batch, seen, want, slice>>

(* The next candidate in order of deposit_due_at, a fixed time before the   *)
(* window's start; its active vehicles are read without a lock.             *)
ExpireNext(p) ==
    /\ pc[p] = "scan"
    /\ \E k \in todo[p] :
         /\ \A j \in todo[p] : res[k].req.win.from <= res[j].req.win.from
         /\ key' = [key EXCEPT ![p] = k]
         /\ todo' = [todo EXCEPT ![p] = @ \ {k}]
         /\ need' = [need EXCEPT ![p] = IF Active(k) THEN res[k].req.vehs ELSE {}]
    /\ pc' = [pc EXCEPT ![p] = "expire"]
    /\ UNCHANGED <<tables, due, locks, req, rows, batch, seen, want, slice, begun>>

(* Mutant: the UPDATE does not repeat the conditions of the scan.           *)
ExpireUpdate_NoRecheck(p) ==
    /\ pc[p] = "expire" /\ Wanted(p) = {} /\ RowFree(p, key[p])
    /\ batch' = [batch EXCEPT ![p] = @ \cup {key[p]}]
    /\ pc' = [pc EXCEPT ![p] = "scan"]
    /\ key' = [key EXCEPT ![p] = NoKey]
    /\ need' = [need EXCEPT ![p] = {}]
    /\ UNCHANGED <<tables, due, locks, req, rows, todo, seen, want, slice, begun>>

(* UPDATE ... WHERE held and unpaid and due; a row that no longer qualifies *)
(* is skipped.  The vehicles stay locked to the end of the batch.           *)
ExpireUpdate(p) ==
    /\ pc[p] = "expire" /\ Wanted(p) = {} /\ RowFree(p, key[p])
    /\ batch' = [batch EXCEPT ![p] = IF Expirable(key[p]) THEN @ \cup {key[p]} ELSE @]
    /\ pc' = [pc EXCEPT ![p] = "scan"]
    /\ key' = [key EXCEPT ![p] = NoKey]
    /\ need' = [need EXCEPT ![p] = {}]
    /\ UNCHANGED <<tables, due, locks, req, rows, todo, seen, want, slice, begun>>

ExpireCommit(p) ==
    /\ pc[p] = "scan" /\ todo[p] = {}
    /\ res' = [k \in Keys |-> IF k \in batch[p] THEN Ended(res[k], "expired") ELSE res[k]]
    /\ Finish(p, "idle")
    /\ UNCHANGED <<due, supply>>

-----------------------------------------------------------------------------
(* apply_obligation_event                                                   *)

(* OBLIGATION_TRANSITIONS, and an event that repeats the current state.     *)
MayBecome(obl, target) ==
    \/ obl = target
    \/ obl = "unpaid" /\ target \in {"deposited", "paid"}
    \/ obl = "deposited" /\ target = "paid"

(* DEPOSITED and PAID fail closed: the reference amount must exist and be   *)
(* reached.                                                                 *)
Settles(r, target, amount) ==
    CASE target = "unpaid"    -> TRUE
      [] target = "deposited" -> r.timing = "DEPOSIT" /\ r.priced /\ amount >= 1
      [] target = "paid"      -> r.priced /\ amount >= 2

(* Mutant: a held reservation is promoted whatever was paid.                *)
Promoted_Always(r, b, target) == IF b.state = "held" THEN "reserved" ELSE b.state

Promoted(r, b, target) ==
    IF b.state = "held" /\ target \in RequiredObligation(r) THEN "reserved" ELSE b.state

(* The whole event is computed from a row read without a lock.              *)
ApplyObligationEvent(p, k, target, amount, ref) ==
    /\ res[k] # NoRes
    /\ LET b        == res[k].bill
           received == IF amount > b.received THEN amount ELSE b.received
       IN  /\ Terminal(b) => target = b.obl
           /\ Settles(res[k].req, target, received)
           /\ ref = NoRef \/ ref # b.ref
           /\ MayBecome(b.obl, target)
           /\ seen' = [seen EXCEPT ![p] = b]
           /\ want' = [want EXCEPT ![p] =
                         [state |-> Promoted(res[k].req, b, target), obl |-> target,
                          received |-> received, ref |-> IF ref = NoRef THEN b.ref ELSE ref]]
    /\ Start(p, "pay")
    /\ key' = [key EXCEPT ![p] = k]
    /\ UNCHANGED <<tables, due, locks, req, need, rows, todo, batch, slice>>

(* The UPDATE stores the columns the call changed, and only those.          *)
Flushed(b, old, new) ==
    [state    |-> IF new.state = old.state THEN b.state ELSE new.state,
     obl      |-> IF new.obl = old.obl THEN b.obl ELSE new.obl,
     received |-> IF new.received = old.received THEN b.received ELSE new.received,
     ref      |-> IF new.ref = old.ref THEN b.ref ELSE new.ref]

(* The wallet reference to store belongs to another reservation.            *)
RefTaken(p) ==
    /\ want[p].ref # seen[p].ref
    /\ \E j \in Keys \ {key[p]} : res[j] # NoRes /\ res[j].bill.ref = want[p].ref

CommitObligation(p) ==
    /\ pc[p] = "pay" /\ RowFree(p, key[p]) /\ ~RefTaken(p)
    /\ LET r == res[key[p]] IN
         res' = [res EXCEPT ![key[p]] =
                   [req |-> r.req, lines |-> r.lines,
                    bill |-> Flushed(r.bill, seen[p], want[p])]]
    /\ Finish(p, "idle")
    /\ UNCHANGED <<due, supply>>

(* IntegrityError on the reference: rolled back, the row is returned as is. *)
ObligationCollision(p) ==
    /\ pc[p] = "pay" /\ RowFree(p, key[p]) /\ RefTaken(p)
    /\ Finish(p, "idle")
    /\ UNCHANGED <<tables, due>>

-----------------------------------------------------------------------------
(* register_supply                                                          *)

(* The overlap check reads without a lock.  The last conjunct bounds the    *)
(* model: an id is left for every declaration under way.                    *)
RegisterSupply(p, d) ==
    /\ \A s \in Declared : ~Overlap(supply[s].win, d.win)
    /\ Cardinality(Declared) + Cardinality({ q \in Procs : pc[q] = "declare" })
         < Cardinality(SupplyIds)
    /\ Start(p, "declare")
    /\ slice' = [slice EXCEPT ![p] = d]
    /\ UNCHANGED <<tables, due, locks, key, req, need, rows, todo, batch, seen, want>>

CommitSupply(p) ==
    /\ pc[p] = "declare"
    /\ \E s \in SupplyIds \ Declared :
         /\ \A u \in SupplyIds \ Declared : s <= u
         /\ supply' = [supply EXCEPT ![s] = slice[p]]
    /\ Finish(p, "idle")
    /\ UNCHANGED <<due, res>>

-----------------------------------------------------------------------------
(* Any other exception and any crash: everything is rolled back.            *)
Abort(p) ==
    /\ pc[p] \notin {"idle", "raised"}
    /\ Raise(p)

WaitsFor(p, q) ==
    \/ /\ pc[p] \in {"create", "cancel", "expire"}
       /\ \E v \in Wanted(p) : (\A u \in Wanted(p) : v <= u) /\ vehLock[v] = q
    \/ /\ pc[p] = "supply"
       /\ \E s \in WantedRows(p) : (\A u \in WantedRows(p) : Before(s, u)) /\ supLock[s] = q
    \/ /\ pc[p] \in {"cancel", "expire", "pay"} /\ Wanted(p) = {}
       /\ q # p /\ key[p] \in batch[q]

InCycle(p) ==
    \E S \in SUBSET Procs :
        /\ p \in S
        /\ \A q \in S : /\ \E r \in S : WaitsFor(q, r)
                        /\ \E r \in S : WaitsFor(r, q)

(* The database's deadlock detector picks a victim; nothing retries it.     *)
DeadlockVictim(p) == InCycle(p) /\ Raise(p)

Step(p) ==
    \/ LockVehicle(p) \/ CheckVehicleOverlap(p) \/ VehicleConflict(p)
    \/ SelectSupply(p) \/ LockSupplyRow(p) \/ CheckSupplyCoverage(p) \/ SupplyRefused(p)
    \/ InsertReservation(p) \/ InsertLoses(p)
    \/ CancelUpdate(p) \/ CancelConflict(p)
    \/ ExpireNext(p) \/ ExpireUpdate(p) \/ ExpireCommit(p)
    \/ CommitObligation(p) \/ ObligationCollision(p)
    \/ CommitSupply(p)
    \/ DeadlockVictim(p)

Next ==
    \/ \E p \in Procs : Step(p)
    \/ \E p \in Procs : Abort(p)
    \/ \E p \in Procs, k \in Keys, r \in Requests : CreateReservation(p, k, r)
    \/ \E p \in Procs, k \in Keys : CancelReservation(p, k)
    \/ \E p \in Procs : ExpireDueHeldReservations(p)
    \/ \E p \in Procs, k \in Keys, t \in Obligations, a \in 0 .. 2, f \in Refs \cup {NoRef} :
         ApplyObligationEvent(p, k, t, a, f)
    \/ \E p \in Procs, d \in Declarations : RegisterSupply(p, d)
    \/ \E k \in Keys : DepositFallsDue(k)

Spec == Init /\ [][Next]_vars

(* Handlers keep running and the database resolves deadlocks.               *)
FairSpec == Spec /\ \A p \in Procs : WF_vars(Step(p))

-----------------------------------------------------------------------------
(* Properties.                                                              *)

TablesType ==
    /\ res \in [Keys -> Row \cup {NoRes}]
    /\ due \subseteq Keys
    /\ supply \in [SupplyIds -> Slices \cup {NoSlice}]

SessionType ==
    /\ vehLock \in [Vehicles -> Procs \cup {NoProc}]
    /\ supLock \in [SupplyIds -> Procs \cup {NoProc}]
    /\ pc \in [Procs -> {"idle", "raised", "create", "select", "supply", "insert",
                         "cancel", "scan", "expire", "pay", "declare"}]
    /\ key \in [Procs -> Keys \cup {NoKey}]
    /\ req \in [Procs -> Requests \cup {NoReq}]
    /\ need \in [Procs -> SUBSET Vehicles]
    /\ rows \in [Procs -> SUBSET SupplyIds]
    /\ todo \in [Procs -> SUBSET Keys] /\ batch \in [Procs -> SUBSET Keys]
    /\ seen \in [Procs -> Bill \cup {NoBill}] /\ want \in [Procs -> Bill \cup {NoBill}]
    /\ slice \in [Procs -> Slices \cup {NoSlice}]
    /\ begun \in 0 .. MaxOps

(* Rows, locks and locals have their types: reservation_service.py commits  *)
(* no DRAFT row and no status outside the state machine.                    *)
TypeOK == TablesType /\ SessionType

(* No two reservations hold one vehicle at one instant, whatever creates,   *)
(* cancellations and expiry batches run at once: the overlap check of       *)
(* create_reservation is serialised by the vehicle row locks.               *)
VehicleExclusive ==
    \A j, k \in Keys :
        j # k /\ Active(j) /\ Active(k) /\ res[j].req.vehs \cap res[k].req.vehs # {}
          => ~Overlap(res[j].req.win, res[k].req.win)

(* At no instant are more lines active than a declared slice covering it    *)
(* has units, even while overlapping slices are declared behind the creates *)
(* that _check_supply_coverage let pass.                                    *)
CapacityRespected ==
    \A t \in 0 .. (Horizon - 1) :
        LET lines == Committed([from |-> t, to |-> t + 1]) IN
        lines # {} =>
          \E s \in Declared : Covers(supply[s].win, t) /\ Cardinality(lines) <= supply[s].units

(* A cancelled or expired reservation holds no vehicle and no capacity: its *)
(* lines go in the transaction that ends it, and none comes back.           *)
TerminalHoldsNothing ==
    \A k \in Keys : res[k] # NoRes /\ Terminal(res[k].bill) => res[k].lines = "cancelled"

(* Whatever stale payment events are stored, a reservation is RESERVED only *)
(* with an obligation its policy accepts (NOW: paid; DEPOSIT: at least the  *)
(* deposit).                                                                *)
ReservedIsPaid ==
    \A k \in Keys : res[k] # NoRes /\ res[k].bill.state = "reserved"
                      => res[k].bill.obl \in RequiredObligation(res[k].req)

(* The expiry batch ends only reservations that are held and unpaid at its  *)
(* commit, although it listed them before it waited for their vehicles.     *)
ExpiresOnlyUnpaid ==
    [][\A k \in Keys :
          res[k] # NoRes /\ res[k].bill.state # "expired" /\ res'[k].bill.state = "expired"
            => res[k].bill.state = "held" /\ res[k].bill.obl = "unpaid"]_vars

(* Every call returns or raises; expiry batches and creates that deadlock   *)
(* over vehicles are broken up by the database.                             *)
CallsReturn ==
    \A p \in Procs : pc[p] \notin {"idle", "raised"} ~> pc[p] \in {"idle", "raised"}
=============================================================================
