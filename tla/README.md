# TLA+ specifications of AFCON360's money, inventory and dispatch core

AFCON360 is a Flask monolith over one PostgreSQL database, with Celery workers
beside the request handlers. Nearly everything that is hard to get right in it
has one shape: several handlers and workers run read-check-write transactions
over shared rows at READ COMMITTED, some of the reads are locked and some are
not, an exception or a lost answer makes somebody run the transaction again, and
a provider or a scheduler calls in behind everybody's back. These modules model
the parts where such a race moves money or promises the same thing twice,
check them with TLC and prove the central properties with TLAPS.

Paths below are relative to the repository root unless they begin with `app/`,
which stands for `src/app/` in `PROJECT.json`.

## 1. Inventory

### Components, their state and their operations

| Component | State | Operations that change it | Correct when |
|---|---|---|---|
| Wallet service (`app/wallet/services/wallet_service.py`, `app/wallet/repositories/`) | `accounts` (frozen flag), `ledger_entries` (append only; balances are sums of them), `transactions` (one row per `client_request_id`, with a status) | `deposit`, `withdraw`, `transfer`, freeze and unfreeze, adjustments, commissions | no balance below zero, each key posted once, limits respected, frozen accounts still, every call returns |
| Retry wrapper (`app/utils/db_retry.py`) | none of its own; it rolls back the caller's session | runs the wrapped operation again after a database error | a retry repeats nothing that was committed, and ends |
| Provider webhooks (`app/wallet/api/webhooks.py`, `app/tasks/webhook_processor.py`, `app/wallet/api/admin_webhook_routes.py`) | `webhook_events` with status, attempts and retry time | receive, claim a batch, process, retry, dead-letter, requeue by an administrator | every accepted event comes to an end, none is stuck or given up early |
| Two-level adjustments (`wallet_service.py`:1446-1737) | adjustment requests | request, approve, reject, automatic approval | an approved adjustment is executed; a payment beyond the decision is owed to overlapping or dying calls |
| Payouts and commissions (`app/wallet/services/payout_service.py`) | payout requests, commissions | request, approve, pay | no more is paid out than was earned |
| Transport reservations (`app/transport/services/reservation_service.py`, `reservation_state_machine.py`, `reservation_policy_evaluator.py`) | reservations, their lines, provider supply | `create_reservation`, `cancel_reservation`, `apply_obligation_event`, `register_supply` | no vehicle and no unit of supply promised twice, RESERVED only when paid for, cancelled ones hold nothing |
| Reservation expiry (`app/transport/services/reservation_expiry_service.py`) | as above | `expire_due_held_reservations`, run by a scheduler | ends what nobody paid for and nothing else |
| Ticket inventory (`app/events/inventory.py`, `services.py`, `payment_service.py`, `tasks.py`, `signal_handlers.py`) | seats left per ticket type, holds, registrations | register, buy, hold, confirm, release, cancel, check in, reaper of unpaid registrations, release of expired holds | seats neither oversold nor leaked, what a person was charged matches the tickets |
| Accommodation (`app/accommodation/services/`, `state_machine/`, `app/tasks/accommodation_reminders.py`) | inventory blocks, bookings, rooms, room assignments | checkout hold, book, approve, cancel, expire, move, check in and out | no unit sold twice, no room with two parties in it, no unit kept by an ended booking |
| Assignment (`app/transport/services/assignment_service.py`, `booking_service.py`, `app/tasks/transport_recovery.py`) | bookings with driver and vehicle, `vehicles.is_available` | claim, forced claim, release, driver's cancellation, trip actions, status writes, stall recovery | one active trip per driver and vehicle, the flag tells the truth |
| Ride dispatch (`app/transport/services/ride_request_dispatch_service.py`, `ride_request_service.py`) | ride requests, search cycles, offer attempts | create, search, accept, decline, time out, recover, cancel, retry | one open offer, one winner who keeps the ride, every search ends |
| Trip settlement and marketplace invoices (`app/transport/services/payment_service.py`, `app/wallet/services/marketplace_invoice_service.py`, `app/transport/api/driver_routes.py`) | booking payment status, payment rows, invoices | complete (driver or administrator), settle, retry, confirm cash | paid means the fare is in escrow, a collected fare is never lost, a completed trip is billed |
| Identity, KYC, auth, audit, notifications, content, pages, migrations | their own tables | mostly create/read/update/delete | per request; see `PROJECT.json`, `components` |

### How they interact

* Handlers and workers share only the database. Row locks (`FOR UPDATE`), unique
  constraints and the commit are the whole of the synchronisation; there are no
  in-process locks. A lock lasts until the transaction's commit or rollback.
* `deposit`, `withdraw` and `transfer` are wrapped by `retry_on_deadlock`, which
  rolls the *session* back and calls the operation again. Marketplace, agents,
  adjustments and the webhook worker all move money through these three calls,
  with a key they derive themselves.
* The payment provider reports the outcome of a payout by webhook. The webhook
  handler writes the transaction's status directly, behind `withdraw`.
* A ticket purchase charges the wallet before it takes seats; an approval of an
  adjustment is a deposit or withdrawal; the completion of a trip settles it by a
  `transfer` whose key is the invoice. Accepting an offer claims a driver and a
  vehicle (`AssignmentService.claim`) and creates the booking in one transaction.
* The wallet does not call the reservation service: payments reach a reservation
  as an obligation event that carries a wallet reference.
* Celery beat starts the webhook processor, the release of ticket holds, the
  recovery of searches and stalled trips, the expiry of accommodation requests and
  of reservations. Nothing prevents two runs at once, and nothing stops one from
  running against the handlers.

### What is hard

The list is `PROJECT.json`, `hazards`: each entry names the line where it bites
and the properties that would catch it. In short: balance, seat, unit and limit
checks that have to stay true until the write; state read before a lock and used
after it (the frozen flag, a booking, a request or an invoice the route has
loaded); lock orders that differ between operations; operations made of several
transactions with a crash or another operation between two of them (approve an
adjustment, settle a trip, reap a registration, process a webhook); a commit whose
answer is lost and is then retried; a report that arrives twice or late; and
searches, events and calls that must come to an end.

## 2. The modules

| Module | What it is |
|---|---|
| `Ledger` | abstract specification: what the wallet promises its callers |
| `WalletService` | deposit, withdraw, transfer, retries, freezing, payout webhooks; implements `Ledger` |
| `WebhookQueue` | delivery, claim, processing, retry and requeue of provider events, over `Ledger` |
| `Adjustments` | two-level adjustments, over `Ledger` |
| `TripPayment` | settlement of completed trips, over `Ledger` |
| `TransportReservation` | create, cancel, payment events, supply declarations, expiry batch |
| `TicketInventory` | seats of an event and everybody who takes or returns them |
| `Assignment` | drivers and vehicles of bookings |
| `RideDispatch` | one ride request: its searches, offers and winner |
| `Fleet` | the constants `Assignment` and `RideDispatch` share |
| `RoomInventory` | units and rooms of one room type |
| `MC...` | request sets, rankings, reports and symmetry sets for TLC |
| `...Proofs` | theorems about the module of that name; `DispatchProofs` is about `Assignment` and `RideDispatch` |

`Ledger` is how the components compose: `WalletService` is shown to implement it
(checked and proved), and `WebhookQueue`, `Adjustments` and `TripPayment` use its
actions, through `INSTANCE`, where the code calls the wallet.

All component modules follow the same conventions. A process or call is a request
handler or a worker. A step is a maximal piece of it between two points where it
can wait for a row lock or where its next statement takes a new snapshot; since
nothing else of it can be seen by others, the writes of a database transaction all
appear in the step that commits it. Commit and rollback free all locks. `Abort`,
`Abandon`, `Drop` and `Dies` stand for exceptions raised for reasons the model does not
represent (ownership, KYC, fraud score, policy, a PIN) and for crashes: they end
in a rollback. A call that returns from its first read, having changed nothing, is
not a step. Three facts about the stack are modelled everywhere they matter:

* PostgreSQL runs at READ COMMITTED: a statement that waited for a row tests its
  condition again on that row, but a subquery over other rows keeps its answer.
* SQLAlchemy's identity map returns the same object, *not refreshed,* when a row
  that is already loaded is selected again `FOR UPDATE`; a commit or rollback
  expires it. `seen`, `copy`, `bk`, `loaded`, `found`, `Copies` and `stale` are such copies.
* A flush writes the columns whose value differs from the loaded one, and no
  others, whatever the row holds by then.

Definitions named `X_Y` next to a definition `X` are *mutants*: `X` with a
plausible mistake in it. `PROJECT.json`, `mutants`, says which property each of
them must break, so that every checked property is known to depend on the code.

Several of the components do admit bad outcomes under some race; section 5 lists
them. Where that is so, a *history variable* records exactly that race, and the
property says that nothing else leads to the bad outcome: `doubled`, `leaked`,
`unanswered` and `unrefunded` (tickets), `orphaned` (webhooks), `disturbed`
(assignment), `revived` (dispatch), `loose` (rooms), `contested` and `broken`
(adjustments), `overlapped`, `broken` and `refused` (trips). They count per tier,
person, booking or call, so that the property still speaks about everything else
that happens to the same event, request or trip.

### Ledger

`balance`, the keys that are `spent`, those that belong to `payouts` and those
`reopened` by a failure report; `Deposit`, `Withdraw` and `Transfer` take effect in
one step, use a fresh key and never go below zero, `Reopen` and `Settle` are the
provider's reports. `WalletService!ImplementsLedger` maps balances to the sums of
the entries and keys to the transaction rows.

### WalletService

| State | In the code |
|---|---|
| `credited`, `debited` | sums of an account's CREDIT and DEBIT entries; `LedgerRepository.get_balance` subtracts them |
| `volume` | sum of the debits of the last 24 hours, `get_daily_volume` |
| `frozen` | `accounts.is_frozen` |
| `tx` | the `transactions` row of a `client_request_id`: kind, amount, parties, status |
| `posted` | history variable: how often entries were posted under the row |
| `accLock`, `userLock` | holders of `FOR UPDATE` on accounts rows, and on users rows during PIN verification |
| `pc`, `op`, `seenFrozen`, `tries` | the running call, what its session cached of the sender, the wrapper's retry count |

| Actions | In the code |
|---|---|
| `Begin`, `VerifyPin`, `LockAccount` | arguments; unlocked load of the sender and `FOR UPDATE` on its user for a user-initiated transfer; the accounts in ascending id order |
| `ReplayTransfer` | the key lookup of `transfer`, which comes before its other checks |
| `PassChecks`, `FailChecks` | frozen flags, balance, daily limit |
| `Entries` in `Post`, `PostUnanswered` | `get_or_create`, the ledger entries, COMPLETED and the commit; the second loses the commit's answer |
| `AlreadyProcessed` | `get_or_create` found a COMPLETED row |
| `Restart` in `DeadlockRetry`, `TransientError`, `PostUnanswered`; `DeadlockGiveUp` | `retry_on_deadlock` |
| `SetFrozen`, `AgeVolume`, `MarkPayout` | freeze and unfreeze; time; `_mark_payout_complete` and `_mark_payout_failed` |

`SenderFrozen` is the flag cached by the identity map. Inserting a `transactions` row checks foreign keys to `users`
with a KEY SHARE lock, which waits for somebody else's `FOR UPDATE`;
`KeyShareBlockers` is that wait. `WaitsFor` and `InCycle` stand for PostgreSQL's
lock queues and deadlock detector and are marked external in the map.

Simplifications: one currency; an account and its owner share an identifier; the
wait of an insert for another uncommitted insert of the same unique key is not a
lock of its own (the winner's commit and the loser's look at it are single steps,
so the loser sees the row as the code does after its savepoint); the fee is a
debit of the sender without a credit, as in the code.

### TransportReservation

| State | In the code |
|---|---|
| `res` | `transport_reservations` by idempotency key: the request, the `bill` (state, obligation, amount received, wallet reference) and whether the lines are active |
| `due` | reservations whose `deposit_due_at` lies in the past |
| `supply` | `provider_offering_supply` |
| `vehLock`, `supLock` | holders of `FOR UPDATE` on vehicles and supply rows |
| `batch` | rows an expiry batch has updated and not yet committed, hence locked |
| `pc`, `key`, `req`, `need`, `rows`, `todo`, `seen`, `want`, `slice` | locals of the running call |

| Actions | In the code |
|---|---|
| `CreateReservation` ... `InsertReservation`, `InsertLoses` | `create_reservation`: key lookup, vehicle locks, overlap check, supply locks, coverage and capacity, insert of header and lines, DRAFT to HELD or RESERVED |
| `CancelReservation`, `CancelUpdate`, `CancelConflict` | `cancel_reservation`: unlocked read, vehicle locks, conditional UPDATE |
| `ExpireDueHeldReservations`, `ExpireNext`, `ExpireUpdate`, `ExpireCommit` | the expiry batch: unlocked scan, per row vehicle locks and conditional UPDATE, one commit |
| `ApplyObligationEvent`, `CommitObligation`, `ObligationCollision` | `apply_obligation_event`: everything is computed from an unlocked read; the UPDATE stores the columns that differ from it |
| `RegisterSupply`, `CommitSupply` | `register_supply`: unlocked overlap check, insert |
| `LockVehicle`, `LockSupplyRow` | `_lock_vehicles_for_reservation`, `_lock_overlapping_supply_rows` |
| `DepositFallsDue`, `DeadlockVictim` | time; the database |

`Flushed` is what SQLAlchemy writes: only the attributes whose value changed
since they were loaded. That is why a payment event that read HELD, and promotes
it, overwrites a cancellation that was committed in between, while one that
changes the obligation only leaves the state alone.

Simplifications: one provider and one offering (others share no rows with it);
instants are numbers and windows half-open intervals; amounts are 0, the deposit
and the full price; a call that returns or raises from its first read, having
changed nothing, is not a step. MATERIALIZED and COMPLETED are states of the
state machine that no code in `app/` drives a reservation into. The sweep of
`_assert_continuous_coverage` is modelled by what it decides, `Coverage`.

### WebhookQueue

| State | In the code |
|---|---|
| `status`, `what`, `retries`, `due` | `webhook_events`: status, payload, `retry_count`, whether `next_retry_at` is null or past |
| `pc`, `batch`, `cur`, `locked`, `loaded` | a task run: its page of events, the one it works on, the rows it has selected and not committed, its copy of the row |
| `asked`, `copy` | a requeue between the administrator's check and its write |
| `orphaned`, `failures` | history: events whose outcome was never stored; failed attempts, up to the limit |

`Claim` selects a page `FOR UPDATE SKIP LOCKED`; `Mark` commits "processing", which
frees the locks of the *whole* page; `Handle` runs the handler, which commits its
effect on its own; `Finish`, `Raise` and `Fail` store the outcome; `FailLost` is the
swallowed commit error, `Crash` the death of a worker; `RetryWebhook` and `Requeue`
are the two halves of the administrator's request; `BackoffEnds` is time. A handler
may raise at any attempt. A charge changes nothing in the wallet: no transaction
row is committed when a payment is initiated, so the handler finds none.

### Adjustments

`status`, `kind` and `auto` are the request rows; `RequestAdjustment` inserts one,
and for a small amount goes on as its approval; `ApproveAdjustment` and
`RejectAdjustment` are the unlocked read and its test (`Decide`), `Execute` the
deposit or withdrawal with a key made of the time (hence the call itself is the
key), `Refused` its refusal, `Mark` and `Reject` the final UPDATE, which looks at
nothing. `Crash` may come between any two of these transactions. `contested` are the
calls that were at work on one request at once, `broken` those that moved the money
and died before they stored it; `Payments` are the movements of the others. An
adjusted account is one; others share no rows with it.

### TripPayment

| State | In the code |
|---|---|
| `completed`, `driven`, `captured`, `recorded` | `bookings.status`, whether it names the driver who completed it, `payment_status` (CAPTURED or PENDING), whether a `BookingPayment` row exists |
| `invoice` | status of the booking's `marketplace_invoices` row |
| `pc`, `on`, `bk`, `copy`, `holds` | a call: its step, booking, the copies of booking and invoice in its session, its row locks |
| `overlapped`, `broken`, `refused` | history: bookings two calls worked on at once; bookings a call on which was cut off; bookings the wallet refused to bill or to charge |

| Actions | In the code |
|---|---|
| `Complete`, `Release` | the driver's "complete": the load, then `AssignmentService.release`, which completes the trip even if somebody else has done so since |
| `CompleteByAdmin` | `BookingStatusResource` with `transition_status`: nothing is settled, no driver is named |
| `RetryWallet`, `ConfirmCash` | `RiderWalletSettlementResource` (`CanRetry` is what it asks), `DriverTripPaymentResource` |
| `Start`, `Record`, `FindInvoice`, `InsertInvoice`, `LoadInvoice`, `Reload` | `process_payment` up to `_ensure_wallet_invoice_for_booking`, with `create_invoice` |
| `MarkDue`, `Settle`, `Transfer`, `Verify`, `MarkPaid` | `mark_due_after_completion`, `settle_after_completion`; the fare is `Ledger!Transfer`. `Verify` loads the invoice without a lock, and `MarkPaid` locks it and decides on that copy |
| `Refuse` | the refusals of `create_invoice` (method not enabled, no account, a PIN) and of `transfer` (frozen, short, limits) |
| `Capture`; `Refresh`, `StorePending` | the rest of `process_payment`, for wallet and for cash |
| `CheckCash`, `ReceiveCash` | the receipt, in one transaction under the lock of the booking |
| `Lock`, `DeadlockVictim` | PostgreSQL: row locks in the order of the flush, and their deadlocks |

Two payment rows inserted concurrently for one booking are one row here (each flush
updates the booking first, which serialises them). A completion by an administrator
is one step: it writes the booking's status and reads nothing of the payment.

### TicketInventory

| State | In the code |
|---|---|
| `avail` | `event_ticket_types.available_seats` |
| `row` | registrations (by person) and `event_ticket_holds` with tier and status |
| `eventLock`, `tierLock` | `FOR UPDATE` on the event, the row lock of the tier's UPDATE |
| `pc`, `op`, `claimed` | the running call, whether a beat run still holds its holds' locks |
| `charged`, `bought` | the wallet's ledger per person (charges less refunds), persons whose registration carries a wallet payment |
| `doubled`, `leaked` | history: seats given to two claims at once, seats nobody will return |
| `unanswered`, `unrefunded` | history, per person: purchases that committed unnoticed, charges whose refund was refused or never reached |

`BeginTake`, `Pay`, `LockEvent`, `UpdateTier`, `CommitTake` are registration,
purchase and hold; `PayRefused`, `SoldOut` and `InsertDuplicate` their failures, after
which a purchase goes on to `Refund` or `RefundRefused`: `_refund_payment` is a
deposit, subject to the checks on frozen accounts, KYC, fraud and volume, and its
result is ignored. The deposit begins with a rollback, so the increment made for a
failed insert never becomes durable. `BeginChange` with `Cancel` or `Occupy` are
cancellation, check-in and confirmation of a hold, on a status read without a lock;
`Reap` and `ReturnSeats` the reaper and `handle_capacity_released`, one transaction
per tier; `ClaimHolds` and `ReleaseHolds` the beat task. `RetryDecrement`,
`InsertError`, `CommitUnanswered`, `CancelRetried`, `ReleaseRetried`,
`ReturnRetried`, `ReturnAbandoned` and `Dies` are the faults: what
`retry_on_deadlock` and the handler's own three attempts roll back and repeat, a
COMMIT whose answer is lost and that is then repeated, a crash. Unlimited tiers keep
no count and are left out.

### Assignment

`row` is the bookings' status, driver and vehicle, `available` the vehicles' flag,
`locks` the rows of each transaction. `Claim` runs through `ClaimDriver`,
`ClaimBooking`, `SeeVehicle`, `TakeVehicle`, `CommitClaim` (or `ClaimRefused`);
`Release`, `Stall` and `DriverCancel` through `ReadAssignment`, `ReleaseBooking`,
`SeeReturn`, `TakeReturn`, `CommitRelease`; `Write` and `Overwrite` are
`transition_status` and every other write of a status that was tested on a loaded
booking; `Advance`, `CancelUnassigned` and `MarkNoMatch` are single conditional
UPDATEs. "See" is the statement's snapshot, "Take" the re-test after the wait.
Statuses that no rule tells apart are one: "assigned" stands for assigned, en route
and arrived, "in_progress" includes disputed, "cancelled" includes no-show.
Two writers are left out: an administrator's PUT of `is_available`
(`vehicle_routes.py`:220-228), which may set the flag to anything, so that
`FlagMatchesTrips` speaks of the dispatcher's own writes only, and the soft-delete of
a booking.

### RideDispatch

Its names are apart from those of `Assignment` (`RideInit`, `RideNext`, `RideSpec`,
`ask` for `call`), so that one module can prove about both; `Fleet` declares the
constants they share. `request`, `cycle`, `number`, `pool`, `offer` are the rows of one
ride request and of its latest cycle, `lapsed` the deadlines that have passed, `trip`
the booking's driver, `holder` the lock of the request.

The status of the request that an operation tests is the one its route, or the listing
of the recovery task, has loaded before the lock, and `FOR UPDATE` does not refresh it:
no step tests `request` after a wait, except those that follow a rollback
(`AcceptAgain`) or a commit (`GoOnToStart`). `Cancel`, `Retry`, `Accept`, `CreateAgain`
and `ListExpired` load; `CancelRequest`, `RetrySearch`, `StartSearch` and
`RecoverExpired` act under the lock; `DeclineOffer` tests the offer, which its route has
not loaded. An acceptance has loaded the driver's offer: `Copies` are the offers that
look open to it, and a closing window puts "timed_out" over all of them
(`AcceptRefused`). It takes the time before it waits. Past the lock it is `AcceptLock`,
then `Convert` (the claim is staged and all is committed) or `ClaimFails` and
`AcceptAgain`. Whether a claim succeeds is the business of `Assignment`; here both
happen.

### RoomInventory

`status`, `stay`, `arrived`, `departed` are the bookings, `blocks` the
`inventory_blocks`, `free`, `assigned`, `main` the rooms and their assignments,
`lock` the advisory lock of the property. An assignment (`RoomBooking`) has a room, a
booking and a status, and no nights: the class defines methods `check_in` and
`check_out` over the columns of these names (`models/room.py`:270-291). Comparing one of
them with a date raises a TypeError, so that a check-in fails if one of its candidate
rooms has somebody in it, on whatever nights: `ChooseRooms` takes rooms without an
active assignment, and `Abort` is the exception. The SUMs of `available_units` are
numbers of
units: `UnitsOf` pairs each row with 1 up to its quantity, and `Booked` and `OnHold`
count the pairs, which the prover can reason about where a folded sum is beyond it.
`CreateHold`, `HoldLeft`, `ConvertHold`
are a checkout; `CheckUnits`, `CheckAgain`, `BlockUnits`, `BlockRefused`,
`LeaveDraft` a booking through `create_booking`; `Load` begins a decision on a
loaded booking, which is `Approve`, `Close`, `Expire`, `NoShow`, `Move` with
`SetDates`, a check-in (`FindNone`, `LockRooms`, `ChooseRooms`, `AssignRooms`,
`KeepRooms`, `SelfCheckIn`) or a check-out. `ReleaseBlocks` commits, so what follows
it runs without the caller's lock. Dates arrive in any order; the change of dates
inside an early check-in is the separate call `Move`.

## 3. The runs

Run one with `tlc -workers 2 -config X.cfg M` in this directory.

### Runs that pass

| Run | Module, config | Properties | States, time |
|---|---|---|---|
| `wallet_service` | `MCWalletService`, `WalletService.cfg` | `NoOverdraft`, `ChecksStillHold`, `OnePosting`, `FrozenMovesOnlyIfStale`, `ImplementsLedger` | 2.5 min |
| `wallet_live` | `MCWalletService`, `WalletServiceLive.cfg` | `DailyCeiling`, `CallsReturn` | 3 min |
| `reservation_allocate` | `MCTransportReservation`, `ReservationAllocate.cfg` | `VehicleExclusive`, `CapacityRespected`, `TerminalHoldsNothing` | 411,000; 1.3 min |
| `reservation_payment` | `MCTransportReservation`, `ReservationPayment.cfg` | `ReservedIsPaid`, `ExpiresOnlyUnpaid`, `CallsReturn` | 389,000; 2 min |
| `ticket_inventory` | `MCTicketInventory`, `TicketInventory.cfg` | `TypeOK`, `EventCapRespected`, `NoUnexplainedSeats`, `NoUnexplainedLoss`, `ChargesMatchTickets` | 915,000; 1.5 min |
| `webhook_queue` | `MCWebhookQueue`, `WebhookQueue.cfg` | `StuckOnlyByFault`, `DeadLetterEarned`, `EventsSettle` | 878,000; 2.7 min |
| `assignment` | `MCAssignment`, `Assignment.cfg` | `TypeOK`, `DriverExclusive`, `VehicleExclusive`, `FlagMatchesTrips`, `TerminalStays` | 3,380,000; 2.2 min |
| `ride_dispatch` | `MCRideDispatch`, `RideDispatch.cfg` | `OffersLive`, `WinnerRecorded`, `OutcomesStay`, `SearchEnds` | 950,000; 2.5 min |
| `room_inventory` | `MCRoomInventory`, `RoomInventory.cfg` | `UnitsFit`, `HoldsAwait`, `RoomExclusive` | 977,000; 1.2 min |
| `adjustments` | `MCAdjustments`, `Adjustments.cfg` | `ApprovedIsExecuted`, `DecisionMatchesMoney` | 10,000; seconds |
| `trip_payment` | `TripPayment`, `TripPayment.cfg` | `PaidIsBacked`, `FareRecoverable`, `SettlementKept`, `TripIsInvoiced`, `CallsReturn` | 1,134,000; 3.2 min |

What they show, one by one: `PROJECT.json`, `runs`. The type invariants of the
modules are theorems (section 4); TLC checks in addition the ones of `Assignment`,
which contains who owns the locks, and of `TicketInventory`, which contains that the
seats left stay between zero and the capacity.

### The run that finds the code at odds with what it says of itself

`ticket_oversold` (`MCTicketInventory`, `TicketOversold.cfg`) checks
`NeverOversold`, after the header of `app/events/inventory.py`: "so inventory can
never be oversold or leaked". TLC finds it violated without any fault: both seats are
taken, an unpaid registration expires and the reaper puts its seat back on sale, the
expired registration is checked in, which `check_in_attendee` does not refuse, and
somebody else takes the seat: three people on two seats.
`NoUnexplainedSeats` is the counterpart that holds: `doubled` counts the
seats this and the other races of section 5 give away, and no other is.

### Bounds

`MaxOps` bounds the calls in a behaviour, `MaxRetries` the retries, `MaxFaults` the
crashes and errors, `MaxRequeues` the administrator's requests, `MaxCycles` the
searches, `Horizon` the instants, `MaxQty` quantities and units, `MaxGroup` the
persons of a purchase; `SupplyIds` bounds the declarations.

* *Wallet*: two handlers suffice, since its conflicts (a lock cycle, a stale read,
  one key used twice) involve two calls each; a third call lets something happen
  before the conflict, e.g. the posting whose key is then replayed (the liveness run
  has two). Opening balance 2 (3 with a fee) and amounts 1 make the second or third
  debit fail. One retry reaches both "retried" and "gave up".
* *Reservations*: three processes and four calls for the allocation, because capacity
  needs two creates and a declaration at once; the requests touch, overlap and miss
  each other in time, in vehicles and in mode, and two deposits let an expiry batch
  lock vehicles against the order of a create. Two processes and four calls for the
  payments: create, payment event, expiry or cancellation, and one to spare.
* *Tickets*: tiers of one and two seats under an event cap of two, three persons, one
  hold, groups of two, two processes, five calls, one fault: the cap, the tier and the
  unique constraint each refuse somebody. The violation needs no fault: one tier of two
  seats, three persons, five calls.
* *Webhooks*: two workers, two events and batches of two are the least with which a
  batch overlaps another; two attempts reach retry and dead letter; one fault, one
  requeue. The reports are of payouts made, for a withdrawal that may or may not
  have happened: the queue never looks at what a report does to the wallet.
* *Assignment*: two of everything; every rule relates two bookings.
* *Dispatch*: two drivers, rankings of none, one or both of them, three requests in
  flight beside the recovery task, two searches: a stale copy is then one of an earlier
  cycle, or of the same one.
* *Rooms*: two bookings of one or two rooms, two rooms, two nights, five calls, one
  booking possibly confirmed at the start.
* *Adjustments*: five calls on two requests, two faults, so that an approver can die
  twice on one request before a third pays it.
* *Trips*: a wallet trip, a cash trip and one from a ride request (trips share no row
  but the payer's account, and the wallet's refusals are an outcome of their own);
  three calls, so that two settlements or receipts overlap after the completion; one
  fault. `Watched`, the trips an administrator may complete, leaves out the one from a
  ride request, whose settlement always fails.
* Handlers, keys, calls and persons are symmetric where nothing orders them (the
  locks order accounts, vehicles and supply rows by their ids). Runs with a liveness
  property use no symmetry.
* `CHECK_DEADLOCK FALSE` stands where a behaviour in which all calls are used up has
  properly ended. In the others (wallet, assignment, dispatch) something can always
  happen, and the liveness properties are the ones to look at.

### Fairness

* Weak fairness of `Step` for each process or call in `WalletService`,
  `TransportReservation`, `Adjustments` and `TripPayment`: a handler that can run
  does, and the database grants a free lock and resolves a deadlock (PostgreSQL does
  both unconditionally). `Step` includes neither the beginning of a call, nor errors,
  crashes and lost answers: no caller is obliged to call, and no error has to happen.
* `WebhookQueue`: weak fairness of the workers (beat starts the task every minute), of
  the backoff and of the second half of a requeue.
* `RideDispatch`: weak fairness of the two deadlines and of the calls in flight, and
  of the listing of the recovery task, and strong fairness of `RecoverExpired`: the beat
  task comes again every time, and the lock of the request is free again and again,
  though not continuously.

## 4. The proofs

Run `tlapm XProofs.tla`. The theorems hold for all sets of processes, keys,
accounts, tiers, drivers, rooms, bookings and so on, and for all bounds. They use
the modules' `ASSUME`s: identifiers that the code sorts are numbers, amounts are
positive, the "no row" values are not rows. TLC evaluates these on each run.

| Module | Theorem | Property |
|---|---|---|
| `WalletServiceProofs` | `TypeCorrect` | `TypeOK` |
| | `WalletNeverOverdrawn` | `NoOverdraft` |
| | `WalletChecksValid` | `ChecksStillHold` |
| | `WalletDailyCeiling` | `DailyCeiling` |
| | `WalletOnePosting` | `OnePosting` |
| | `FrozenOnlyIfStale` | `FrozenMovesOnlyIfStale` |
| | `WalletImplementsLedger` | `ImplementsLedger` |
| `TransportReservationProofs` | `ReservationTypeCorrect` | `TypeOK` |
| | `VehiclesExclusive` | `VehicleExclusive` |
| | `CapacityIsRespected` | `CapacityRespected` |
| | `ReservedOnlyIfPaid` | `ReservedIsPaid` |
| | `TerminalReleases` | `TerminalHoldsNothing` |
| | `OnlyUnpaidExpire` | `ExpiresOnlyUnpaid` |
| `TicketInventoryProofs` | `TypeCorrect` | `TypeOK` |
| | `ChargesAreMatched` | `ChargesMatchTickets` |
| | `EventCapHolds` | `EventCapRespected` |
| | `SeatsConserved` | `NoUnexplainedSeats`, `NoUnexplainedLoss` |
| | `SeatsAreNotLost` | `NoUnexplainedLoss` |
| `WebhookQueueProofs` | `TypeCorrect` | `TypeOK` |
| | `OnlyFaultsStrand` | `StuckOnlyByFault` |
| | `DeadLettersEarned` | `DeadLetterEarned` |
| `DispatchProofs` | `AssignmentTypes` | `TypeOK` |
| | `DriversAreExclusive` | `DriverExclusive` |
| | `VehiclesAreExclusive` | `VehicleExclusive` of `Assignment` |
| | `FlagsMatchTrips` | `FlagMatchesTrips` |
| | `EndedBookingsStay` | `TerminalStays` (action property) |
| | `DispatchTypes` | `RideTypeOK` |
| | `OffersAreLive` | `OffersLive` |
| | `WinnersAreRecorded` | `WinnerRecorded` |
| | `OutcomesAreKept` | `OutcomesStay` |
| `RoomInventoryProofs` | `TypeCorrect` | `TypeOK` |
| | `HoldsAreAwaited` | `HoldsAwait` |
| | `RoomsAreExclusive` | `RoomExclusive` |
| | `UnitsAlwaysFit` | `UnitsFit` |
| `AdjustmentsProofs` | `AdjustmentTypeCorrect` | `TypeOK` |
| | `ApprovedAreExecuted` | `ApprovedIsExecuted` |
| | `DecisionsMatchMoney` | `DecisionMatchesMoney` |
| `TripPaymentProofs` | `TripTypeCorrect` | `TypeOK` |
| | `PaidAreBacked` | `PaidIsBacked` |
| | `FaresAreRecoverable` | `FareRecoverable` |
| | `SettlementsAreKept` | `SettlementKept` |
| | `TripsAreInvoiced` | `TripIsInvoiced` |

The arguments:

* *Wallet.* `NoOverdraft` is not inductive: a posting makes a balance negative
  unless the check made earlier still holds. `WalletInv` adds `LocksHeld` (a
  process past the lock phase holds the locks of both its accounts) and
  `ChecksStillHold`. `MayPostStable` is the heart: a step of another process
  that touches an account p has locked is impossible, freezing included, and what
  remains (volume ages, unlocked accounts change) cannot falsify `MayPost(p)`.
  `DailyCeiling` follows at the posting from the limit check, which was given the
  amount without the fee.
* *Idempotency.* `OnePosting` is inductive together with `FailedAreWithdrawals`:
  only the payout webhooks make a row FAILED, and only of withdrawals, so a
  deposit or transfer that exists is COMPLETED and `Entries` is disabled for it.
* *Freezing.* At a posting the invariant gives `MayPost(p)`, hence the receiver
  is not frozen, and the sender is not unless the flag came from the session.
* *Refinement.* `EntriesImplement`: a posting is a `Deposit`, `Withdraw` or `Transfer`
  of the Ledger, enabled there by `ChecksStillHold` and by the key's row;
  `MarkPayoutImplements`: a payout report is `Reopen`, `Settle` or a stutter. Every
  other step leaves the mapped variables alone.
* *Vehicles.* `HoldsVehicles` (a create past the overlap check holds its
  vehicles) makes `StaysFree` (the check's answer stays true) inductive: a line
  on a locked vehicle could come only from an insert by another holder of the
  lock. Cancellation and expiry only remove lines.
* *Payment of reservations.* Two processes can store stale columns over each
  other's, so the invariant speaks of what each payment event *loaded and wants*:
  `RowsPaid` (a row's obligation is one its policy can have, RESERVED only with a
  sufficient one, terminal only without lines) and `EventsOK` (an event's new columns
  are justified against its old ones). `FlushedPaid` shows that any mixture that
  `Flushed` can produce is again a good row.
* *Capacity.* `CapacityInv` follows a create from its SELECT of the supply rows to
  its insert: `HoldsRows` (it holds the rows it has been given), `RowsShared` (of two
  SELECTs the later returned every row of the earlier that its own window needs,
  because slices are only ever added) and `RoomKept` (what the check found free at each instant of the
  window is free at the insert). `NeverTwoInserts` is the heart: two creates past the
  check would both hold the shared row. Lines are a set of (reservation, number)
  pairs, so that an insert adds at most `qty` to a cardinality and every other step
  takes away.
* *Expiry.* `BatchOwned` and `BatchUnpaid`: a row in a batch belongs to one batch
  and stays held and unpaid, because all other writers of the row wait for it.
* *Tickets.* `OpsMatch` (a call's step fits its kind), `ReturnsApart` (two reapers
  return different registrations) and `SeatsReady` (a process past the conditional
  UPDATE holds the tier and the seats are there). Conservation is a balance per
  step: what a step takes from one of seats left, seats held and seats due it gives
  to another or records in a history variable. `CapReady` keeps the answer of the
  event's check true under the event's lock until the decrement. The charges are the
  same kind of balance, per person (`Balanced`): a withdrawal begins a purchase, which
  ends as a ticket, a refund, or one more in `unrefunded`; `BoughtExist` (a ticket paid
  for is a row) makes the unique key keep a second buyer from a second ticket.
* *Webhooks.* `Owned` (who holds a lock has not committed), `FreshCopies` (a copy
  loaded by a failing attempt still shows the count it will increment, or the row has
  moved on through another counted failure) and `CountsEarned` (no stored or copied
  count exceeds the attempts that really failed).
* *Assignment.* The four invariants need each other and three facts about the calls
  in flight. `ClaimHolds`: past r0 a claim holds its driver's row, past r1 its
  booking's, and then no other undisturbed booking has the driver, since a trip is
  given only under the driver's lock. `ReleaseHolds`: past its UPDATE a release holds
  an active booking, and it hands back exactly the vehicle of that booking, or the
  vehicle is a disturbed one. `Fresh`: what a call that is not stale has read is
  still so. `OnTrip` says that whoever has a driver is on a trip, but for stale
  writes. `SparedHolds` proves once and for all that a call keeps these facts while
  others step: they cannot change a row it has locked, give its driver away, or change
  a booking it has loaded without making it stale. What is left is one lemma per
  step of the call itself and, for the writers, `CommitType` and `StatusKeeps`. A
  vehicle's NOT EXISTS is not tested again after the wait (`TakeVehicle`); the flag,
  which is, makes up for it, since `FlagMatchesTrips` ties it to the trips.
  `TerminalStays` follows: the guards refuse an ended booking, so only an `Overwrite`
  that is stale can reach one.
* *Dispatch.* `ClaimReady` (under the lock, the offer a claim is staged for is still
  open), `Drives` and `SearchShape` (which statuses of request and cycle go together)
  and `Owned` (an open search is that of a searching request, or was opened on a
  cancelled one).
  The lock makes the acceptance the only writer between its checks and its commit.
  `OffersLive` holds although `RecoverExpired` and `StartSearch` act on an old copy of
  the request, because a cancellation closes the cycle, which they read under the lock:
  what they find open was opened by a retry, and `revived` says so. For
  `OutcomesStay`, an attempt that is not open changes only where it is in `Copies`.
* *Rooms.* `DatesKept`, `HoldsMatch`, `CallsMatch` tie a block to the booking and the
  call that made it; `RoomsReady` says that the rooms a check-in has chosen are locked
  by it and have nobody in them, which `ChooseRooms` has seen under the locks. For `UnitsFit`, `HoldsSized` says that a hold takes as many units as
  its booking will, and `RoomLeft` that what `block_room_type_units` found free under the
  property's lock is free when it inserts: only the holder of that lock adds a hold,
  an approval trades a hold for a booking of the same size (`ApproveFalls`), and
  everything else is `Calm`.
* *Adjustments.* `KeysMatch` (the keys spent for a request are those of calls past
  their movement), `AutoStays`, `Undisturbed` (what a call that met no other at work
  still knows of its request: it is pending, and paid by nobody but calls that died) and
  `Said` (a call that paid and is over has stored it, or is in `broken`).
  `FineSuffices` reduces the property to the request of the stepping call.
* *Trips.* `Knows(c)` says what a call's stale copy still implies about the row: that
  an invoice once due stays due or settled for a wallet trip, that a call past the
  transfer has a spent key. `WalletInvoices` says that a wallet trip's invoice is never
  "cash_received". For `SettlementKept`, `Alone`, `AfterTheTrip` and `Sees(c)` add that
  without overlap a call's copies are the rows.
  For `TripIsInvoiced`, `Billed` (due or settled) is what no step takes back, and `Bills(c)`
  says which steps and copies of a call imply it; `PendingIsBrought` says that a
  pending invoice has a call on the way to make it due (`Bringing`), unless one was cut
  off. Hence a call that returns has made its trip `Billed`, was cut off, met
  the invoice of a ride request, or was refused before there was an invoice; and an
  administrator's completion, which begins no payment, can only meet a trip without
  invoice or one that a call is bringing along.
  For `FareRecoverable`, `FareInvoiced` gives a collected fare its due or paid invoice;
  `PaidAgain` says that a wallet trip that was paid once, and whose invoice a late
  `mark_due_after_completion` made due again, has a call under way that will mark it
  paid (`Marks`), or had one that was cut off or refused; `SettlementKept` adds that this
  takes an overlap.

Every invariant and action property of a passing run is thus stated by a theorem. Checked by TLC
only is the liveness (`CallsReturn` of three modules, `EventsSettle`, `SearchEnds`),
which is outside what the prover handles. The inductive invariants for capacity,
assignments, units and invoices were checked by TLC on the runs' instances before they
were proved.

## 5. Further observations

Met while modelling, and not made into runs.

Wallet:

* Opposite transfers by users deadlock over `users`: the PIN check holds one row and
  the insert's foreign keys want both, although the accounts are locked in a
  "consistent order" (`wallet_service.py`:1078); the retry wrapper resolves it.
* A freeze committed between the PIN check and the lock is missed (docstring at 1011);
  `FrozenMovesOnlyIfStale` says exactly which transfers slip through.
* A withdrawal reported FAILED keeps its entries, and the next call with its key debits
  again (README.md:146 promises idempotent keys); `Ledger!Reopen` is that promise as
  it is kept.
* `transfer` refuses a key that a pending or failed transaction owns (1149). A key that
  a withdrawal takes after this lookup, and that is reported FAILED before
  `get_or_create` (1254), is posted to all the same.
* A platform fee is debited from the sender and credited to nobody (1295), while
  README.md:146 asks for balanced entries. The daily limit is compared with the amount
  without the fee (1239); `DailyCeiling` is the bound that does hold.
* The comment at `app/utils/db_retry.py`:69 says "Don't retry if it's the last attempt
  or not a deadlock"; the condition tests the attempt only, and every database
  error is retried.
* Payout requests are only flushed, no route commits them and `pay` has no caller, so
  nothing of a payout persists. The agents' cash-in service is never instantiated; the
  float credit of a cash-out opens a transaction on a session that has begun one.

Webhooks:

* The first commit of a batch frees its locks, so two workers can process one event, in
  spite of "extra safety net" (`webhook_processor.py`:88-90); an "unpaid" report can
  thus be applied after the withdrawal was repeated.
* A crash after the "processing" commit leaves the event there for ever; a stale count
  can leave it "failed" with all attempts used, which no query selects either.
* A stale worker overwrites "dead_letter", and a requeue can overwrite "processed"
  although `retry_webhook` checks for it before. The header speaks of "Attempt 6+";
  the dead-letter bound is 5.

Adjustments:

* Two approvers, or an approver who dies after the movement, execute one request twice
  (`DecisionMatchesMoney` lays every surplus payment to such a call);
  an approval that read "pending" executes a request rejected since, and marks it
  approved (docstring at `wallet_service.py`:1631: "Approve and execute a pending
  adjustment request"). A late rejection overwrites an executed approval.
* A small request is stored APPROVED before it is executed and stays so when the
  movement is refused (1597).

Tickets:

* Besides `ticket_oversold`: two cancellations of one registration, and a retried
  release, give a seat back twice, and so does `handle_capacity_released` when the
  answer of its COMMIT is lost and it tries again (`signal_handlers.py`:60); a lost
  COMMIT answer makes a purchase refund tickets that exist.
* A purchase that finds the seats gone after it was charged is refunded by a deposit
  that can be refused (frozen account, KYC, fraud score, volume limits,
  `wallet_service.py`:615-652), and its result is ignored (`payment_service.py`:198-206):
  the buyer then stays charged without a ticket and without any fault. These are the
  charges in `unrefunded`.
* The increment after a failed insert (`payment_service.py`:242) never takes effect: the
  deposit that refunds the purchase begins with a rollback (`wallet_service.py`:594-597),
  and the decrement it would compensate was rolled back before.
* The reaper (`tasks.py`:249, "Runs every 5 minutes via Celery beat") is in no beat
  schedule. Mobile-money purchases get no refund. `create_participation`,
  `register_for_event_with_payment` and `process_event_registration` have no caller.

Transport:

* The loser of two creates with one key raises instead of returning the winner
  (`reservation_service.py`:248-249); two declarations of supply both pass the overlap
  check (`models.py`:3101), which costs no capacity, since a create demands room in
  *every* slice it overlaps; a stale payment event stores RESERVED over CANCELLED or
  EXPIRED; a specific request may list a vehicle twice (131).
* The expiry batch keeps the vehicles of one row locked while it locks those of the
  next; creates may deadlock with it, and nothing retries them.
* Two forced claims of one vehicle both pass (`assignment_service.py`:128-130 says the
  check is never relaxed); the else branch of `release` overwrites a terminal status;
  stall recovery acts on an unlocked read; a stale `transition_status` leaves a
  cancelled booking with its driver.
* A rider's cancellation that loaded the request before an acceptance committed cancels
  a converted request, whose booking keeps its driver; the comment at
  `ride_request_dispatch_service.py`:462-464 says the lock excludes it. A stale retry
  opens a cycle on a cancelled request that nothing closes; a recovery that listed the
  request before the cancellation may even make offers in it.
* The accept route loads the offer before the lock (`driver_routes.py`:746-757). When the
  window has elapsed, `_close_cycle_at_deadline` puts "timed_out" over a decline or a
  failed claim that was committed while it waited (`Rewritten`).
* A trip from a ride request can never be settled: its invoice names the request and
  `create_invoice` is asked for the booking, in spite of "Reuse the invoice created at
  ride confirmation" (`payment_service.py`:131).
* A driver's cash receipt can be reset to PENDING by the settlement that still runs
  (`driver_routes.py`:1278-1279: "A duplicate driver tap must observe CAPTURED"); a
  second tap repairs it. A late `mark_due_after_completion` of an overlapping
  settlement makes a paid invoice due again; if its call is then cut off or refused, the
  trip is captured, its invoice stays due, and neither `process_payment`
  (`payment_service.py`:75-104) nor the retry (`booking_routes.py`:736) touches it again.
* An administrator's completion of a trip (`booking_routes.py`:445) settles nothing: no
  invoice is made. The rider of a wallet trip can still pay it by a retry; a cash trip
  cannot be confirmed, since it names no driver. A rider with a PIN is refused by
  `create_invoice` (403-421) on every attempt.
* Two payment rows can be inserted for one booking, in spite of "creating once"
  (`payment_service.py`:425).

Accommodation:

* `confirm_booking` asks for a transition the state machine does not have, so the
  payment of a booking is taken while it stays PENDING_PAYMENT.
* Two checkouts of the last unit and two approvals oversell it, because "booked" blocks
  are not counted (comment at `booking_service.py`:371-373). A stale approval or
  check-in revives an ended booking. These are the bookings in `loose`.
* A check-in fails with a TypeError when one of its candidate rooms has an active
  assignment (`booking_service.py`:1086-1091): `RoomBooking`'s methods `check_in` and
  `check_out` shadow its columns (`models/room.py`:270-291), so the overlap test compares
  a method with a date. It keeps parties apart, and also turns guests away from rooms
  that are empty on their nights.
* An abandoned checkout leaves a hold nobody releases; a guest's own check-out leaves
  the rooms "booked", and a guest's own check-in assigns none; cancelling a checked-in
  booking leaves its rooms taken; two concurrent check-ins give one booking two sets
  of rooms.

## 6. What is not modelled, and the plan

Most of the repository's lines hold no invariant across processes: some 57,000 lines
are two generated migration baselines, and most of the rest are routes, forms, pages,
consoles, serialisation and content (tourism, feed, media, geo). The map therefore
covers a small share of all lines and most of the lines of the services named above.
PIN, KYC, fraud and ownership checks are read-only refusals. Each part is listed with
its reason in `PROJECT.json`, `components`.

Left out on purpose: payouts and agents (nothing of them is ever committed), the
older offers in Redis (`offer_service`), the single-unit calendar and the money of
accommodation, unlimited ticket tiers, other methods and the refunds of marketplace
invoices (no callers), commissions and currency conversion of a transfer,
notifications (channels are network I/O).

Next, in this order:

1. A reference check of the coverage sweep: the code's left-to-right scan against
   `Coverage` over all small sets of slices.
2. Abstract specifications that the proved invariants make implementable: an
   allocator of drivers and vehicles for the undisturbed part of `Assignment`, and a
   counter of seats for `TicketInventory`.
