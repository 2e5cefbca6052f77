-------------------------- MODULE TicketInventory --------------------------
(***************************************************************************)
(* The seats of one event and everybody who takes or returns them:          *)
(* registrations and ticket purchases (app/events/services.py,              *)
(* payment_service.py), holds (inventory.py), cancellation, check-in, the   *)
(* reaper of unpaid registrations and the beat task that releases holds     *)
(* (tasks.py).                                                              *)
(*                                                                          *)
(* A step is a piece of a handler between two waits or two snapshots.  A    *)
(* transaction's writes appear with its commit; until then its row lock on  *)
(* the tier keeps everybody else from changing the seats.  A call whose     *)
(* first reads refuse it changes nothing and is not a step.                 *)
(*                                                                          *)
(* A claim on seats is a registration, keyed by the person (the table's     *)
(* unique (event, user) and (event, email)), or a TicketHold.  Tiers with   *)
(* capacity 0 are unlimited, keep no count and are left out.                *)
(***************************************************************************)
EXTENDS Integers, FiniteSets

CONSTANTS
    Procs,         \* request handlers and workers
    Tiers,         \* ticket types of the event
    FreeTiers,     \* those with price 0
    Persons,       \* who can be registered
    Holds,         \* ids of TicketHolds
    Capacity,      \* capacity of each tier
    MaxCapacity,   \* events.max_capacity; 0 is "no event-level cap"
    MaxGroup,      \* bound on the registrations of one purchase
    MaxOps,        \* bound on the calls in a behaviour
    MaxFaults,     \* bound on database errors and crashes
    NoProc, NoRow, NoOp

Claims == Persons \cup Holds

ASSUME InventoryAssumption ==
    /\ FreeTiers \subseteq Tiers
    /\ IsFiniteSet(Tiers) /\ IsFiniteSet(Claims) /\ IsFiniteSet(Procs)
    /\ Persons \cap Holds = {}
    /\ Capacity \in [Tiers -> Nat \ {0}]
    /\ MaxCapacity \in Nat /\ MaxOps \in Nat /\ MaxFaults \in Nat
    /\ NoProc \notin Procs

VARIABLES
    avail,       \* event_ticket_types.available_seats
    row,         \* event_registrations and event_ticket_holds
    eventLock,   \* who holds FOR UPDATE on the events row
    tierLock,    \* who has updated a tier's row and not committed
    pc, op,      \* where each process is, and in which call
    claimed,     \* whether a beat run still holds the locks of its holds
    charged,     \* the wallet's ledger: charges for a person, less refunds
    bought,      \* persons whose registration carries a wallet payment
    begun,       \* calls begun (bounded by MaxOps)
    faults,      \* errors and crashes so far (bounded by MaxFaults)
    doubled,     \* history: seats of a tier given to two claims at once
    leaked,      \* history: seats of a tier nobody will ever return
    unanswered,  \* history: purchases of a person that committed unnoticed
    unrefunded   \* history: charges of a person whose refund was not made

locks   == <<eventLock, tierLock>>
money   == <<charged, bought, unanswered, unrefunded>>
vars == <<avail, row, locks, pc, op, claimed, money, begun, faults, doubled, leaked>>

Statuses == {"pending", "confirmed", "checked_in", "expired", "cancelled",
             "reserved", "released"}
Row == [tier : Tiers, status : Statuses]

(* Calls: who they are for, and the tier where the caller names one.        *)
Takes ==
    { o \in [kind : {"register", "purchase", "reserve"}, who : SUBSET Claims \ {{}},
             tier : Tiers, pay : {"none", "wallet", "mobile"}] :
        /\ o.who \subseteq IF o.kind = "reserve" THEN Holds ELSE Persons
        /\ Cardinality(o.who) <= IF o.kind = "purchase" THEN MaxGroup ELSE 1
        /\ o.pay = "none" <=> (o.kind # "purchase" \/ o.tier \in FreeTiers) }
Changes == [kind : {"cancel", "checkin", "confirm"}, who : {{c} : c \in Claims}]
Batches == [kind : {"reap", "beat"}, who : SUBSET Claims]
Ops == Takes \cup Changes \cup Batches

ASSUME NullAssumption == NoRow \notin Row /\ NoOp \notin Ops

(* Statuses whose claim occupies a seat.                                    *)
Taking == {"pending", "confirmed", "checked_in", "reserved"}

Quantity(o) == Cardinality(o.who)

OnTier(S, t) == {c \in S : row[c] # NoRow /\ row[c].tier = t}
Held(t) == {c \in OnTier(Claims, t) : row[c].status \in Taking}

(* Seats the reaper has taken from expired registrations and not returned.  *)
Due(t) == OnTier({c \in Claims : \E p \in Procs : pc[p] = "return" /\ c \in op[p].who}, t)

(* The seats of a tier are numbered; the ones above avail are consumed.     *)
ConsumedSeats == UNION {{t} \X (avail[t] + 1 .. Capacity[t]) : t \in Tiers}

LeastOf(a, b) == IF a <= b THEN a ELSE b

Status(o) ==
    IF o.kind = "reserve" THEN "reserved"
    ELSE IF o.kind = "purchase" \/ o.tier \in FreeTiers THEN "confirmed" ELSE "pending"

-----------------------------------------------------------------------------
Init ==
    /\ avail = Capacity
    /\ row = [c \in Claims |-> NoRow]
    /\ eventLock = NoProc /\ tierLock = [t \in Tiers |-> NoProc]
    /\ pc = [p \in Procs |-> "idle"] /\ op = [p \in Procs |-> NoOp]
    /\ claimed = [p \in Procs |-> FALSE]
    /\ charged = [c \in Persons |-> 0] /\ bought = {}
    /\ begun = 0 /\ faults = 0
    /\ doubled = [t \in Tiers |-> 0] /\ leaked = [t \in Tiers |-> 0]
    /\ unanswered = [c \in Persons |-> 0] /\ unrefunded = [c \in Persons |-> 0]

Release(p) ==
    /\ eventLock' = IF eventLock = p THEN NoProc ELSE eventLock
    /\ tierLock' = [t \in Tiers |-> IF tierLock[t] = p THEN NoProc ELSE tierLock[t]]

(* The call is over.                                                        *)
End(p) ==
    /\ Release(p)
    /\ pc' = [pc EXCEPT ![p] = "idle"] /\ op' = [op EXCEPT ![p] = NoOp]
    /\ claimed' = [claimed EXCEPT ![p] = FALSE]
    /\ UNCHANGED begun

Goto(p, l) ==
    /\ pc' = [pc EXCEPT ![p] = l]
    /\ UNCHANGED <<op, claimed, begun>>

Begin(p, o, l) ==
    /\ pc[p] = "idle" /\ begun < MaxOps
    /\ pc' = [pc EXCEPT ![p] = l] /\ op' = [op EXCEPT ![p] = o]
    /\ begun' = begun + 1
    /\ UNCHANGED <<locks, money, faults, doubled, leaked>>

Fault == faults < MaxFaults /\ faults' = faults + 1

(* Mutant: one seat is returned whatever the number of registrations.       *)
Returned_One(t, n) == LeastOf(Capacity[t], avail[t] + 1)

(* Mutant: the increment is not capped at the capacity.                     *)
Returned_Uncapped(t, n) == avail[t] + n

(* increment_capacity: LEAST(capacity, available_seats + n).                *)
Returned(t, n) == LeastOf(Capacity[t], avail[t] + n)

-----------------------------------------------------------------------------
(* Taking seats.                                                            *)

(* Unlocked checks: nobody of the party is registered yet; a purchase also  *)
(* looks at the seats.  Holds get fresh ids.                                *)
BeginTake(p, o) ==
    /\ \A c \in o.who : row[c] = NoRow
    /\ o.kind = "reserve" => \A q \in Procs : pc[q] # "idle" => op[q].who # o.who
    /\ o.kind = "purchase" => avail[o.tier] >= Quantity(o)
    /\ Begin(p, o, IF o.pay = "none" THEN "event" ELSE "pay")
    /\ UNCHANGED <<avail, row, claimed>>

(* A purchase that has charged the wallet and is not over.                  *)
Charged(p) == pc[p] \in {"event", "tier", "insert", "refund"} /\ op[p].pay = "wallet"

(* One more, or one less, for each person of a party.                       *)
AddTo(f, S, n) == [c \in Persons |-> IF c \in S THEN f[c] + n ELSE f[c]]

(* The wallet withdrawal commits on its own, before any seat is reserved.   *)
Pay(p) ==
    /\ pc[p] = "pay"
    /\ charged' = IF op[p].pay = "wallet" THEN AddTo(charged, op[p].who, 1) ELSE charged
    /\ Goto(p, "event")
    /\ UNCHANGED <<avail, row, locks, bought, unanswered, unrefunded, faults, doubled, leaked>>

PayRefused(p) ==
    /\ pc[p] = "pay" /\ End(p)
    /\ UNCHANGED <<avail, row, money, faults, doubled, leaked>>

Capped == MaxCapacity > 0
EventFree == Capped => eventLock = NoProc
WithinEventCap(o) == Capped => Cardinality(ConsumedSeats) + Quantity(o) <= MaxCapacity

(* Mutant: the event row is read without FOR UPDATE.                        *)
LockEvent_NoLock(p) ==
    /\ pc[p] = "event" /\ WithinEventCap(op[p])
    /\ Goto(p, "tier")
    /\ UNCHANGED <<avail, row, locks, money, faults, doubled, leaked>>

(* _atomic_decrement, first half: lock the event and count its seats.       *)
LockEvent(p) ==
    /\ pc[p] = "event" /\ EventFree /\ WithinEventCap(op[p])
    /\ eventLock' = IF Capped THEN p ELSE eventLock
    /\ Goto(p, "tier")
    /\ UNCHANGED <<avail, row, tierLock, money, faults, doubled, leaked>>

Enough(o) == avail[o.tier] >= Quantity(o)

(* Second half: the conditional UPDATE of the tier, not yet committed.      *)
UpdateTier(p) ==
    /\ pc[p] = "tier" /\ tierLock[op[p].tier] = NoProc /\ Enough(op[p])
    /\ tierLock' = [tierLock EXCEPT ![op[p].tier] = p]
    /\ Goto(p, "insert")
    /\ UNCHANGED <<avail, row, eventLock, money, faults, doubled, leaked>>

(* The transaction is rolled back.  A purchase charged to the wallet goes   *)
(* on to refund it; any other call is over.                                 *)
GiveUp(p) ==
    /\ Release(p)
    /\ IF op[p].pay = "wallet" THEN Goto(p, "refund") ELSE End(p)

(* Mutant: the purchase is not refunded when the seats are gone.            *)
SoldOut_NoRefund(p) ==
    /\ \/ pc[p] = "event" /\ EventFree /\ ~WithinEventCap(op[p])
       \/ pc[p] = "tier" /\ tierLock[op[p].tier] = NoProc /\ ~Enough(op[p])
    /\ End(p)
    /\ UNCHANGED <<avail, row, money, faults, doubled, leaked>>

(* ReservationInventoryError: the call fails.                               *)
SoldOut(p) ==
    /\ \/ pc[p] = "event" /\ EventFree /\ ~WithinEventCap(op[p])
       \/ pc[p] = "tier" /\ tierLock[op[p].tier] = NoProc /\ ~Enough(op[p])
    /\ GiveUp(p)
    /\ UNCHANGED <<avail, row, money, faults, doubled, leaked>>

Duplicate(p) == \E c \in op[p].who : row[c] # NoRow

(* Mutant: the decrement is forgotten.                                      *)
Taken_NoDecrement(p) ==
    /\ pc[p] = "insert" /\ ~Duplicate(p)
    /\ row' = [c \in Claims |-> IF c \in op[p].who
                                THEN [tier |-> op[p].tier, status |-> Status(op[p])]
                                ELSE row[c]]
    /\ bought' = IF op[p].pay = "wallet" THEN bought \cup op[p].who ELSE bought
    /\ UNCHANGED <<avail, charged, unrefunded, doubled, leaked>>

(* Registrations or hold are inserted; seats and rows commit together.      *)
Taken(p) ==
    /\ pc[p] = "insert" /\ ~Duplicate(p)
    /\ row' = [c \in Claims |-> IF c \in op[p].who
                                THEN [tier |-> op[p].tier, status |-> Status(op[p])]
                                ELSE row[c]]
    /\ avail' = [avail EXCEPT ![op[p].tier] = @ - Quantity(op[p])]
    /\ bought' = IF op[p].pay = "wallet" THEN bought \cup op[p].who ELSE bought
    /\ UNCHANGED <<charged, unrefunded, doubled, leaked>>

CommitTake(p) == Taken(p) /\ End(p) /\ UNCHANGED <<unanswered, faults>>

(* A unique violation: somebody of the party was registered meanwhile.  A   *)
(* plain registration retries, finds the row and gives up.                  *)
InsertDuplicate(p) ==
    /\ pc[p] = "insert" /\ Duplicate(p) /\ GiveUp(p)
    /\ UNCHANGED <<avail, row, money, faults, doubled, leaked>>

(* _refund_payment: the deposit begins with a rollback, which discards the  *)
(* increment made for a failed insert (the decrement was rolled back too).  *)
Refund(p) ==
    /\ pc[p] = "refund"
    /\ charged' = AddTo(charged, op[p].who, -1)
    /\ End(p)
    /\ UNCHANGED <<avail, row, bought, unanswered, unrefunded, faults, doubled, leaked>>

(* The deposit is refused: account frozen, KYC, fraud or volume limits.     *)
(* The error is logged at most, the buyer stays charged.                    *)
RefundRefused(p) ==
    /\ pc[p] = "refund"
    /\ unrefunded' = AddTo(unrefunded, op[p].who, 1)
    /\ End(p)
    /\ UNCHANGED <<avail, row, charged, bought, unanswered, faults, doubled, leaked>>

-----------------------------------------------------------------------------
(* Changing a claim: the status is read without a lock, then stored.        *)
ReadOK(kind, s) ==
    CASE kind = "cancel"  -> s \notin {"cancelled", "checked_in"}
      [] kind = "checkin" -> s \notin {"cancelled", "checked_in"}
      [] kind = "confirm" -> s = "reserved"

BeginChange(p, o) ==
    /\ o.who \subseteq IF o.kind = "confirm" THEN Holds ELSE Persons
    /\ \A c \in o.who : row[c] # NoRow /\ ReadOK(o.kind, row[c].status)
    /\ Begin(p, o, "write")
    /\ UNCHANGED <<avail, row, claimed>>

Claimed == UNION {op[q].who : q \in {q \in Procs : claimed[q]}}

Store(c, s) == row' = [row EXCEPT ![c] = [tier |-> row[c].tier, status |-> s]]

(* cancel_registration: status and seat commit together, whatever the       *)
(* status has become since it was read.                                     *)
Cancel(p) ==
    \E c \in Claims : LET t == row[c].tier IN
        /\ pc[p] = "write" /\ op[p].kind = "cancel" /\ op[p].who = {c}
        /\ tierLock[t] = NoProc
        /\ Store(c, "cancelled")
        /\ avail' = [avail EXCEPT ![t] = Returned(t, 1)]
        /\ doubled' = [doubled EXCEPT ![t] = IF row[c].status \in Taking THEN @ ELSE @ + 1]
        /\ End(p)
        /\ UNCHANGED <<money, faults, leaked>>

(* check_in_attendee and confirm_reservation: a claim that has been ended   *)
(* since (or, at check-in, had expired) occupies a seat again.              *)
Occupy(p) ==
    \E c \in Claims : LET t == row[c].tier IN
        /\ pc[p] = "write" /\ op[p].kind \in {"checkin", "confirm"} /\ op[p].who = {c}
        /\ c \notin Claimed
        /\ Store(c, IF op[p].kind = "checkin" THEN "checked_in" ELSE "confirmed")
        /\ doubled' = [doubled EXCEPT ![t] = IF row[c].status \in Taking THEN @ ELSE @ + 1]
        /\ End(p)
        /\ UNCHANGED <<avail, money, faults, leaked>>

-----------------------------------------------------------------------------
(* Background tasks.                                                        *)

(* The reaper expires unpaid registrations, locked SKIP LOCKED, and commits *)
(* before the seats are returned.                                           *)
Reap(p, o) ==
    /\ o.kind = "reap" /\ o.who # {}
    /\ \A c \in o.who : c \in Persons /\ row[c] # NoRow /\ row[c].status = "pending"
    /\ row' = [c \in Claims |-> IF c \in o.who
                                THEN [tier |-> row[c].tier, status |-> "expired"]
                                ELSE row[c]]
    /\ Begin(p, o, "return")
    /\ UNCHANGED <<avail, claimed>>

(* The reaper goes on with the registrations of its other tiers.            *)
Done(p, S) ==
    IF op[p].who = S THEN End(p)
    ELSE /\ op' = [op EXCEPT ![p] = [kind |-> "reap", who |-> op[p].who \ S]]
         /\ UNCHANGED <<locks, pc, claimed, begun>>

(* handle_capacity_released, once per tier, each in a transaction.          *)
ReturnSeats(p, t) ==
    LET S == OnTier(op[p].who, t) IN
    /\ pc[p] = "return" /\ S # {} /\ tierLock[t] = NoProc
    /\ avail' = [avail EXCEPT ![t] = Returned(t, Cardinality(S))]
    /\ Done(p, S)
    /\ UNCHANGED <<row, money, faults, doubled, leaked>>

(* The beat task locks expired holds, skipping locked ones ...              *)
ClaimHolds(p, o) ==
    /\ o.kind = "beat" /\ o.who # {}
    /\ \A c \in o.who : c \in Holds /\ row[c] # NoRow /\ row[c].status = "reserved"
    /\ o.who \cap Claimed = {}
    /\ Begin(p, o, "release")
    /\ claimed' = [claimed EXCEPT ![p] = TRUE]
    /\ UNCHANGED <<avail, row>>

(* ... and returns their seats and marks them in the same transaction.      *)
ReleaseHolds(p) ==
    LET S == op[p].who IN
    /\ pc[p] = "release"
    /\ S \cap Claimed = {} \/ claimed[p]
    /\ \A t \in Tiers : OnTier(S, t) # {} => tierLock[t] = NoProc
    /\ avail' = [t \in Tiers |-> Returned(t, Cardinality(OnTier(S, t)))]
    /\ row' = [c \in Claims |-> IF c \in S THEN [tier |-> row[c].tier, status |-> "released"]
                                ELSE row[c]]
    /\ doubled' = [t \in Tiers |-> doubled[t] + Cardinality(OnTier(S, t) \ Held(t))]
    /\ End(p)
    /\ UNCHANGED <<money, faults, leaked>>

-----------------------------------------------------------------------------
(* Faults: database errors that retry_on_deadlock handles, and crashes.     *)

(* The wrapper of decrement_capacity and reserve_capacity starts over.      *)
RetryDecrement(p) ==
    /\ Fault
    /\ pc[p] \in {"event", "tier"} \/ (pc[p] = "insert" /\ op[p].kind # "purchase")
    /\ Release(p) /\ Goto(p, "event")
    /\ UNCHANGED <<avail, row, money, doubled, leaked>>

(* An error while the registrations of a purchase are written.              *)
InsertError(p) ==
    /\ Fault
    /\ pc[p] = "insert" /\ op[p].kind = "purchase" /\ GiveUp(p)
    /\ UNCHANGED <<avail, row, money, doubled, leaked>>

(* The COMMIT took effect and its answer was lost: a purchase is refunded   *)
(* although its tickets exist; the others report failure or take once more. *)
CommitUnanswered(p) ==
    /\ Fault /\ Taken(p) /\ GiveUp(p)
    /\ unanswered' = IF op[p].pay = "wallet" THEN AddTo(unanswered, op[p].who, 1) ELSE unanswered

(* The wrapper inside cancel_registration rolls the new status back with    *)
(* everything else and repeats the increment alone; the commit follows.     *)
CancelRetried(p) ==
    \E c \in Claims : LET t == row[c].tier IN
        /\ Fault
        /\ pc[p] = "write" /\ op[p].kind = "cancel" /\ op[p].who = {c}
        /\ tierLock[t] = NoProc
        /\ avail' = [avail EXCEPT ![t] = Returned(t, 1)]
        /\ doubled' = [doubled EXCEPT ![t] = @ + 1]
        /\ End(p)
        /\ UNCHANGED <<row, money, leaked>>

(* The same inside the beat task: the locks of the holds are lost, and one  *)
(* hold is released although somebody else may have ended it by now.        *)
ReleaseRetried(p) ==
    /\ Fault
    /\ pc[p] = "release" /\ claimed[p]
    /\ claimed' = [claimed EXCEPT ![p] = FALSE]
    /\ \E c \in op[p].who : op' = [op EXCEPT ![p] = [kind |-> "beat", who |-> {c}]]
    /\ UNCHANGED <<avail, row, locks, pc, money, begun, doubled, leaked>>

(* handle_capacity_released commits, loses the answer and starts over.      *)
ReturnRetried(p, t) ==
    LET S == OnTier(op[p].who, t) IN
    /\ Fault
    /\ pc[p] = "return" /\ S # {} /\ tierLock[t] = NoProc
    /\ avail' = [avail EXCEPT ![t] = Returned(t, Cardinality(S))]
    /\ doubled' = [doubled EXCEPT ![t] = @ + Cardinality(S)]
    /\ UNCHANGED <<row, locks, pc, op, claimed, money, begun, leaked>>

(* It has failed three times: the next tier's turn.                         *)
ReturnAbandoned(p, t) ==
    LET S == OnTier(op[p].who, t) IN
    /\ Fault
    /\ pc[p] = "return" /\ S # {}
    /\ leaked' = [leaked EXCEPT ![t] = @ + Cardinality(S)]
    /\ Done(p, S)
    /\ UNCHANGED <<avail, row, money, doubled>>

(* The call dies: a crash, or an error after the last retry.                *)
Dies(p) ==
    /\ Fault
    /\ pc[p] # "idle"
    /\ leaked' = [t \in Tiers |-> IF pc[p] = "return"
                                  THEN leaked[t] + Cardinality(OnTier(op[p].who, t))
                                  ELSE leaked[t]]
    /\ unrefunded' = IF Charged(p) THEN AddTo(unrefunded, op[p].who, 1) ELSE unrefunded
    /\ End(p)
    /\ UNCHANGED <<avail, row, charged, bought, unanswered, doubled>>

-----------------------------------------------------------------------------
Next ==
    \/ \E p \in Procs, o \in Takes : BeginTake(p, o)
    \/ \E p \in Procs, o \in Changes : BeginChange(p, o)
    \/ \E p \in Procs, o \in Batches : Reap(p, o) \/ ClaimHolds(p, o)
    \/ \E p \in Procs :
         \/ Pay(p) \/ PayRefused(p) \/ LockEvent(p) \/ UpdateTier(p) \/ SoldOut(p)
         \/ CommitTake(p) \/ InsertDuplicate(p) \/ Refund(p) \/ RefundRefused(p)
         \/ Cancel(p) \/ Occupy(p) \/ ReleaseHolds(p)
         \/ \E t \in Tiers : ReturnSeats(p, t) \/ ReturnRetried(p, t) \/ ReturnAbandoned(p, t)
         \/ RetryDecrement(p) \/ InsertError(p) \/ CommitUnanswered(p) \/ CancelRetried(p)
         \/ ReleaseRetried(p) \/ Dies(p)

Spec == Init /\ [][Next]_vars

-----------------------------------------------------------------------------
(* Properties.                                                              *)

(* Every variable has its type, and available_seats stays between 0 and     *)
(* the capacity: the conditional UPDATE and LEAST keep it there.            *)
TypeOK ==
    /\ avail \in [Tiers -> Nat] /\ \A t \in Tiers : avail[t] <= Capacity[t]
    /\ row \in [Claims -> Row \cup {NoRow}]
    /\ eventLock \in Procs \cup {NoProc}
    /\ tierLock \in [Tiers -> Procs \cup {NoProc}]
    /\ pc \in [Procs -> {"idle", "pay", "event", "tier", "insert", "refund",
                         "write", "return", "release"}]
    /\ op \in [Procs -> Ops \cup {NoOp}]
    /\ claimed \in [Procs -> BOOLEAN]
    /\ charged \in [Persons -> Int] /\ bought \in SUBSET Persons
    /\ begun \in 0 .. MaxOps /\ faults \in 0 .. MaxFaults
    /\ doubled \in [Tiers -> Nat] /\ leaked \in [Tiers -> Nat]
    /\ unanswered \in [Persons -> Nat] /\ unrefunded \in [Persons -> Nat]

(* The event-level cap holds over all tiers, although each tier is updated  *)
(* on its own: counting and decrement are made under the event's row lock.  *)
EventCapRespected == Capped => Cardinality(ConsumedSeats) <= MaxCapacity

(* Seats on sale, seats occupied and seats the reaper is about to return    *)
(* never exceed the capacity by more than the seats given twice: whoever is *)
(* oversold is so through one of the races or repeated commits that         *)
(* `doubled` counts.                                                        *)
NoUnexplainedSeats ==
    \A t \in Tiers :
        avail[t] + Cardinality(Held(t)) + Cardinality(Due(t)) <= Capacity[t] + doubled[t]

(* And they never fall short of it by more than what a reaper that died or  *)
(* gave up has leaked: no other interleaving of retries, cancellations and  *)
(* releases loses one.                                                      *)
NoUnexplainedLoss ==
    \A t \in Tiers :
        avail[t] + Cardinality(Held(t)) + Cardinality(Due(t)) + leaked[t] >= Capacity[t]

(* What a person was charged and not given back is a ticket, a purchase     *)
(* still running, or a refund that was refused or never reached; and a      *)
(* ticket is paid for unless its COMMIT went unanswered.  Two buyers of one *)
(* person's ticket, both charged before either inserts, end with one        *)
(* registration and one charge.                                             *)
Buying(c) == {p \in Procs : Charged(p) /\ c \in op[p].who}
ChargesMatchTickets ==
    \A c \in Persons :
        charged[c] + unanswered[c] =
            Cardinality(Buying(c)) + Cardinality(bought \cap {c}) + unrefunded[c]

-----------------------------------------------------------------------------
(* What the repository says and the code does not do.                       *)

(* "so inventory can never be oversold or leaked", inventory.py.            *)
NeverOversold == \A t \in Tiers : Cardinality(Held(t)) <= Capacity[t]
=============================================================================
