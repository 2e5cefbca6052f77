----------------------------- MODULE TripPayment -----------------------------
(***************************************************************************)
(* Paying for a completed trip: the driver's "complete" settles it at once  *)
(* (transport/services/payment_service.py), the rider may try again when    *)
(* the wallet refused, the driver confirms cash                             *)
(* (transport/api/driver_routes.py), and the wallet keeps an invoice of the *)
(* trip (wallet/services/marketplace_invoice_service.py).  An administrator *)
(* completes a trip without settling it.  The fare itself                   *)
(* is a step of the Ledger that WalletService implements; its key is the    *)
(* invoice, of which a booking has one.                                     *)
(*                                                                          *)
(* One payment is up to four transactions.  Between them the session keeps  *)
(* copies of the booking and of the invoice; a commit or rollback expires   *)
(* them, a SELECT FOR UPDATE does not refresh them.  A column is written    *)
(* when it differs from the copy.                                           *)
(***************************************************************************)
EXTENDS Integers

CONSTANTS
    Calls,       \* calls of the handlers, each made at most once
    Bookings,
    ByWallet,    \* bookings whose stored method is "wallet"; the others: "cash"
    Requested,   \* bookings that came from a ride request, with its invoice
    Watched,     \* bound: bookings an administrator may complete
    Payer, Escrow, Fare, Opening,   \* the rider's wallet and Transport's
    MaxFaults,   \* bound on crashes and errors
    NoBooking

ASSUME TripAssumption ==
    /\ ByWallet \subseteq Bookings /\ Requested \subseteq Bookings
    /\ Watched \subseteq Bookings
    /\ NoBooking \notin Bookings /\ Payer # Escrow
    /\ Fare \in Nat \ {0} /\ Opening \in Nat /\ MaxFaults \in Nat

VARIABLES
    completed,   \* bookings with status COMPLETED
    driven,      \* those that name the driver who completed them
    captured,    \* bookings with payment_status CAPTURED; the others: PENDING
    invoice,     \* status of the booking's invoice, "none" before the insert
    recorded,    \* bookings that have a BookingPayment row
    pc, on,      \* the step of a call and its booking
    bk, copy,    \* payment status and invoice status in its session
    holds,       \* row locks of its transaction
    faults,
    overlapped,  \* history: bookings that two calls worked on at once
    broken,      \* history: bookings a call on which was cut off
    refused,     \* history: bookings the wallet refused to bill or to charge
    balance, spent, payouts, reopened   \* the wallet

L == INSTANCE Ledger WITH
        Accounts <- {Payer, Escrow}, Keys <- Bookings, Amounts <- {Fare}, Fees <- {}

rows    == <<completed, driven, captured, invoice, recorded>>
session == <<bk, copy>>
history == <<overlapped, broken, refused>>
wallet  == <<balance, spent, payouts, reopened>>
vars    == <<rows, pc, on, session, holds, faults, history, wallet>>

Settled  == {"paid", "cash_received"}
Invoices == {"none", "pending", "due"} \cup Settled
Steps == {"release", "start", "record", "invoice", "insert", "load", "reload", "due",
          "settle", "transfer", "verify", "paid", "capture", "refresh", "store",
          "confirm", "cash"}

Running(c) == pc[c] \in Steps
Busy(b)    == \E c \in Calls : on[c] = b /\ Running(c)
Goto(c, step) == pc' = [pc EXCEPT ![c] = step]

(* What a copy holds after a commit or rollback.                            *)
Expired == "expired"

-----------------------------------------------------------------------------
(* Row locks of PostgreSQL: on the booking KEY SHARE (an insert that refers *)
(* to it), NO KEY UPDATE (an UPDATE) and FOR UPDATE, and on the payment row *)
(* and the invoice.                                                         *)
Locks == {"key", "write", "update", "payment", "invoice"}

Conflicts(l) ==
    CASE l = "key" -> {"update"}
      [] l = "write" -> {"write", "update"}
      [] l = "update" -> {"key", "write", "update"}
      [] OTHER -> {l}

(* The locks that a step needs before it can act, taken in the order        *)
(* booking, payment row, invoice.  A call with "key" has inserted a payment *)
(* row of its own.                                                          *)
Needs(c) ==
    LET payment == IF on[c] \in recorded /\ "key" \notin holds[c] THEN {"payment"} ELSE {} IN
    CASE pc[c] = "release" -> {"write"}
      [] pc[c] = "record"  -> IF holds[c] # {} THEN {}
                              ELSE IF payment = {} THEN {"key"} ELSE payment
      [] pc[c] = "due"     -> {"write", "invoice"} \cup payment
      [] pc[c] = "paid"    -> {"invoice"}
      [] pc[c] = "capture" -> {"update"} \cup payment
      [] pc[c] = "store"   -> {"write"} \cup payment
      [] pc[c] = "confirm" -> {"update"}
      [] pc[c] = "cash"    -> {"update", "invoice"} \cup payment
      [] OTHER -> {}

Rank(l) == CASE l = "payment" -> 2 [] l = "invoice" -> 3 [] OTHER -> 1

Missing(c) == Needs(c) \ holds[c]
Wants(c)   == {l \in Missing(c) : \A m \in Missing(c) : Rank(l) <= Rank(m)}

Blocks(d, c) ==
    /\ d # c /\ on[d] = on[c]
    /\ \E l \in Wants(c) : holds[d] \cap Conflicts(l) # {}

Lock(c) ==
    /\ \E l \in Wants(c) : holds' = [holds EXCEPT ![c] = @ \cup {l}]
    /\ \A d \in Calls : ~Blocks(d, c)
    /\ UNCHANGED <<rows, pc, on, session, faults, history, wallet>>

Ready(c, step) == pc[c] = step /\ Missing(c) = {}

(* COMMIT or ROLLBACK: locks and copies are gone.                           *)
EndTransaction(c) ==
    /\ holds' = [holds EXCEPT ![c] = {}]
    /\ bk' = [bk EXCEPT ![c] = Expired] /\ copy' = [copy EXCEPT ![c] = Expired]

-----------------------------------------------------------------------------
Init ==
    /\ completed = {} /\ driven = {} /\ captured = {}
    /\ invoice = [b \in Bookings |-> IF b \in Requested THEN "pending" ELSE "none"]
    /\ recorded = Requested
    /\ pc = [c \in Calls |-> "idle"] /\ on = [c \in Calls |-> NoBooking]
    /\ bk = [c \in Calls |-> Expired] /\ copy = [c \in Calls |-> Expired]
    /\ holds = [c \in Calls |-> {}] /\ faults = 0
    /\ overlapped = {} /\ broken = {} /\ refused = {}
    /\ L!Init

Begin(c, b, step, loaded) ==
    /\ pc[c] = "idle" /\ Goto(c, step) /\ on' = [on EXCEPT ![c] = b]
    /\ bk' = [bk EXCEPT ![c] = loaded]
    /\ overlapped' = IF Busy(b) THEN overlapped \cup {b} ELSE overlapped
    /\ UNCHANGED <<rows, copy, holds, faults, broken, refused, wallet>>

(* The driver completes a trip that is still assigned to him.               *)
Complete(c, b) == b \notin completed /\ Begin(c, b, "release", Expired)

(* BookingStatusResource: an administrator completes a trip in progress or  *)
(* in dispute.  Nothing is settled, and no driver is named.                 *)
CompleteByAdmin(b) ==
    /\ b \in Watched \ completed /\ completed' = completed \cup {b}
    /\ \A c \in Calls : on[c] = b => holds[c] = {}
    /\ UNCHANGED <<driven, captured, invoice, recorded, pc, on, session, holds, faults,
                   history, wallet>>

(* What RiderWalletSettlementResource asks of a booking.                    *)
CanRetry(b) == b \in (completed \cap ByWallet) \ captured

(* process_payment finds the booking that the handler has loaded.           *)
RetryWallet(c, b) == CanRetry(b) /\ Begin(c, b, "record", "pending")

(* DriverTripPaymentResource: only for the driver who completed the trip.   *)
ConfirmCash(c, b) == b \in driven \ ByWallet /\ Begin(c, b, "confirm", Expired)

(* Mutant: the transaction is left open.                                    *)
Return_NoRollback(c) ==
    /\ Goto(c, "done")
    /\ UNCHANGED <<rows, on, session, holds, faults, history, wallet>>

(* An exception that changes nothing, or the end of a call.                 *)
Return(c) ==
    /\ Goto(c, "done") /\ EndTransaction(c)
    /\ UNCHANGED <<rows, on, faults, history, wallet>>

(* The wallet raises a MarketplaceInvoiceError; nothing is stored.          *)
Refuse(c) ==
    /\ Goto(c, "done") /\ EndTransaction(c)
    /\ refused' = refused \cup {on[c]}
    /\ UNCHANGED <<rows, on, faults, overlapped, broken, wallet>>

(* AssignmentService.release.  A trip that was completed since it was       *)
(* loaded has no assignment left: it is completed again, unconditionally.   *)
(* Either way the same call goes on to settle it.                           *)
Release(c) ==
    /\ Ready(c, "release") /\ Goto(c, "start") /\ EndTransaction(c)
    /\ completed' = completed \cup {on[c]} /\ driven' = driven \cup {on[c]}
    /\ UNCHANGED <<captured, invoice, recorded, on, faults, history, wallet>>

-----------------------------------------------------------------------------
(* process_payment.                                                         *)

(* The booking is loaded without a lock; a captured one is left alone.      *)
Start(c) ==
    /\ pc[c] = "start"
    /\ \/ on[c] \in captured /\ Return(c)
       \/ /\ on[c] \notin captured
          /\ bk' = [bk EXCEPT ![c] = "pending"] /\ Goto(c, "record")
          /\ UNCHANGED <<rows, on, copy, holds, faults, history, wallet>>

(* _get_or_create_payment_record: the row is locked, or inserted.           *)
Record(c) ==
    /\ Ready(c, "record") /\ Goto(c, "invoice")
    /\ UNCHANGED <<rows, on, session, holds, faults, history, wallet>>

(* create_invoice looks for the invoice.  That of a ride request names the  *)
(* request and not the booking: its terms do not match and the call raises. *)
FindInvoice(c) ==
    /\ pc[c] = "invoice"
    /\ \/ on[c] \in Requested /\ Return(c)
       \/ /\ on[c] \notin Requested
          /\ Goto(c, IF invoice[on[c]] = "none" THEN "insert" ELSE "due")
          /\ copy' = [copy EXCEPT ![c] = invoice[on[c]]]
          /\ UNCHANGED <<rows, on, bk, holds, faults, history, wallet>>

(* INSERT ... ON CONFLICT DO NOTHING, and the commit; or the method is not  *)
(* enabled, the rider has no account in use, or has set a PIN.              *)
InsertInvoice(c) ==
    /\ pc[c] = "insert"
    /\ \/ /\ Goto(c, "load") /\ EndTransaction(c)
          /\ invoice' = [invoice EXCEPT ![on[c]] = IF @ = "none" THEN "pending" ELSE @]
          /\ recorded' = recorded \cup {on[c]}
          /\ UNCHANGED <<completed, driven, captured, on, faults, history, wallet>>
       \/ Refuse(c)

(* The attributes that are read next reload invoice and booking.            *)
LoadInvoice(c) ==
    /\ pc[c] = "load" /\ Goto(c, "reload")
    /\ copy' = [copy EXCEPT ![c] = invoice[on[c]]]
    /\ UNCHANGED <<rows, on, bk, holds, faults, history, wallet>>

LoadBooking(c, step) ==
    /\ Goto(c, step)
    /\ bk' = [bk EXCEPT ![c] = IF on[c] \in captured THEN "captured" ELSE "pending"]
    /\ UNCHANGED <<rows, on, copy, holds, faults, history, wallet>>

Reload(c) == pc[c] = "reload" /\ LoadBooking(c, "due")

(* Mutant: a pending invoice is left as it is.                              *)
MarkDue_Skipped(c) ==
    /\ Ready(c, "due") /\ Goto(c, "settle") /\ EndTransaction(c)
    /\ UNCHANGED <<rows, on, faults, history, wallet>>

(* mark_due_after_completion: FOR UPDATE does not refresh the copy, so a    *)
(* stale "pending" becomes "due" whatever the row holds.  Only this branch  *)
(* commits.                                                                 *)
MarkDue(c) ==
    /\ Ready(c, "due") /\ Goto(c, "settle")
    /\ \/ /\ copy[c] = "pending"
          /\ invoice' = [invoice EXCEPT ![on[c]] = "due"]
          /\ recorded' = recorded \cup {on[c]} /\ EndTransaction(c)
       \/ /\ copy[c] # "pending"
          /\ UNCHANGED <<invoice, recorded, session, holds>>
    /\ UNCHANGED <<completed, driven, captured, on, faults, history, wallet>>

(* The rest of settle_after_completion, up to the movement of money.        *)
Settle(c) ==
    LET seen == IF copy[c] = Expired THEN invoice[on[c]] ELSE copy[c] IN
    /\ pc[c] = "settle"
    /\ copy' = [copy EXCEPT ![c] = seen]
    /\ Goto(c, IF on[c] \in ByWallet
               THEN IF seen = "paid" THEN "capture" ELSE "transfer"
               ELSE IF bk[c] = Expired THEN "refresh" ELSE "store")
    /\ UNCHANGED <<rows, on, bk, holds, faults, history, wallet>>

(* Mutant: a refusal of the wallet is taken for an answer.                  *)
Transfer_Unverified(c) ==
    /\ pc[c] = "transfer" /\ Goto(c, "verify") /\ EndTransaction(c)
    /\ \/ UNCHANGED wallet
       \/ balance[Payer] >= Fare /\ L!Transfer(on[c], Payer, Escrow, Fare, 0)
    /\ UNCHANGED <<rows, on, faults, history>>

(* WalletService.transfer ends the caller's transaction first; a spent key  *)
(* is a replay.  An account that is missing, frozen, short of money or past *)
(* its limits is an exception.                                              *)
Transfer(c) ==
    LET b == on[c] IN
    /\ pc[c] = "transfer"
    /\ \/ /\ \/ b \in spent /\ UNCHANGED wallet
             \/ balance[Payer] >= Fare /\ L!Transfer(b, Payer, Escrow, Fare, 0)
          /\ Goto(c, "verify") /\ EndTransaction(c)
          /\ UNCHANGED <<rows, on, faults, history>>
       \/ Refuse(c)

(* The comparison with the transaction's amount loads the invoice ...       *)
Verify(c) ==
    /\ pc[c] = "verify" /\ Goto(c, "paid")
    /\ copy' = [copy EXCEPT ![c] = invoice[on[c]]]
    /\ UNCHANGED <<rows, on, bk, holds, faults, history, wallet>>

(* Mutant: a due invoice is not marked.                                     *)
MarkPaid_LeftDue(c) ==
    /\ Ready(c, "paid") /\ Goto(c, "capture")
    /\ UNCHANGED <<rows, on, session, holds, faults, history, wallet>>

(* ... and the row is then locked, but not read again: what is decided on   *)
(* is the copy.  One that is neither due nor paid would raise; Verify never *)
(* loads such a one.                                                        *)
MarkPaid(c) ==
    /\ Ready(c, "paid") /\ Goto(c, "capture")
    /\ \/ /\ copy[c] = "due" /\ EndTransaction(c)
          /\ invoice' = [invoice EXCEPT ![on[c]] = "paid"]
       \/ copy[c] = "paid" /\ UNCHANGED <<invoice, session, holds>>
    /\ UNCHANGED <<completed, driven, captured, recorded, on, faults, history, wallet>>

(* The booking and its payment row follow.                                  *)
Capture(c) ==
    /\ Ready(c, "capture") /\ Goto(c, "done") /\ EndTransaction(c)
    /\ captured' = captured \cup {on[c]} /\ recorded' = recorded \cup {on[c]}
    /\ UNCHANGED <<completed, driven, invoice, on, faults, history, wallet>>

(* Cash: the booking is reloaded, and set to PENDING.                       *)
Refresh(c) == pc[c] = "refresh" /\ LoadBooking(c, "store")

StorePending(c) ==
    /\ Ready(c, "store") /\ Goto(c, "done") /\ EndTransaction(c)
    /\ captured' = IF bk[c] = "captured" THEN captured \ {on[c]} ELSE captured
    /\ recorded' = recorded \cup {on[c]}
    /\ UNCHANGED <<completed, driven, invoice, on, faults, history, wallet>>

-----------------------------------------------------------------------------
(* DriverTripPaymentResource.post, under the lock of the booking.           *)
CheckCash(c) ==
    /\ Ready(c, "confirm")
    /\ \/ on[c] \in captured /\ Return(c)
       \/ /\ on[c] \notin captured /\ Goto(c, "cash")
          /\ UNCHANGED <<rows, on, session, holds, faults, history, wallet>>

(* Mutant: the receipt is cached by Transport and not stored by the wallet. *)
ReceiveCash_NoInvoice(c) ==
    LET b == on[c] IN
    /\ Ready(c, "cash") /\ Goto(c, "done") /\ EndTransaction(c)
    /\ captured' = captured \cup {b} /\ recorded' = recorded \cup {b}
    /\ UNCHANGED <<completed, driven, invoice, on, faults, history, wallet>>

(* The invoice is found or made, becomes due and received, the booking is   *)
(* captured, in one transaction.  An invoice of a ride request is refused,  *)
(* and so is a new one when cash is not enabled.                            *)
ReceiveCash(c) ==
    LET b == on[c] IN
    /\ Ready(c, "cash")
    /\ \/ b \in Requested /\ Return(c)
       \/ invoice[b] = "none" /\ Refuse(c)
       \/ /\ b \notin Requested /\ Goto(c, "done") /\ EndTransaction(c)
          /\ invoice' = [invoice EXCEPT ![b] = "cash_received"]
          /\ captured' = captured \cup {b} /\ recorded' = recorded \cup {b}
          /\ UNCHANGED <<completed, driven, on, faults, history, wallet>>

-----------------------------------------------------------------------------
CutOff(c) ==
    /\ Goto(c, "done") /\ EndTransaction(c)
    /\ broken' = broken \cup {on[c]}
    /\ UNCHANGED <<rows, on, overlapped, refused, wallet>>

(* PostgreSQL ends one of two calls that wait for each other.               *)
DeadlockVictim(c) ==
    /\ \E d \in Calls : Blocks(c, d) /\ Blocks(d, c)
    /\ CutOff(c) /\ UNCHANGED faults

(* A handler dies, or raises for a reason that is not modelled.             *)
Abort(c) ==
    /\ Running(c) /\ faults < MaxFaults
    /\ faults' = faults + 1 /\ CutOff(c)

Step(c) ==
    \/ Lock(c) \/ Release(c) \/ Start(c) \/ Record(c) \/ FindInvoice(c) \/ InsertInvoice(c)
    \/ LoadInvoice(c) \/ Reload(c) \/ MarkDue(c) \/ Settle(c) \/ Transfer(c)
    \/ Verify(c) \/ MarkPaid(c) \/ Capture(c) \/ Refresh(c) \/ StorePending(c)
    \/ CheckCash(c) \/ ReceiveCash(c) \/ DeadlockVictim(c)

Next ==
    \/ \E b \in Bookings :
         \/ CompleteByAdmin(b)
         \/ \E c \in Calls : Complete(c, b) \/ RetryWallet(c, b) \/ ConfirmCash(c, b)
    \/ \E c \in Calls : Step(c) \/ Abort(c)

Spec == Init /\ [][Next]_vars /\ \A c \in Calls : WF_vars(Step(c))

-----------------------------------------------------------------------------
(* The variables have their types.                                          *)
TypeOK ==
    /\ completed \subseteq Bookings /\ driven \subseteq completed /\ captured \subseteq Bookings
    /\ recorded \subseteq Bookings /\ invoice \in [Bookings -> Invoices]
    /\ pc \in [Calls -> Steps \cup {"idle", "done"}]
    /\ on \in [Calls -> Bookings \cup {NoBooking}]
    /\ \A c \in Calls : Running(c) => on[c] \in Bookings
    /\ bk \in [Calls -> {Expired, "pending", "captured"}]
    /\ copy \in [Calls -> Invoices \cup {Expired}]
    /\ holds \in [Calls -> SUBSET Locks] /\ faults \in 0..MaxFaults
    /\ overlapped \subseteq Bookings /\ broken \subseteq Bookings /\ refused \subseteq Bookings
    /\ balance \in [{Payer, Escrow} -> Nat] /\ spent \subseteq Bookings
    /\ payouts = {} /\ reopened = {}

(* A paid invoice, and a wallet trip shown as captured, stand for a fare    *)
(* that is in escrow, whatever calls overlapped or were cut off.            *)
PaidIsBacked ==
    \A b \in Bookings : invoice[b] = "paid" \/ b \in captured \cap ByWallet => b \in spent

(* A fare that has been collected belongs to an invoice that is paid, or    *)
(* that is due and can still become paid: by a call that is under way, or   *)
(* because the booking is not captured and the rider's retry is open, which *)
(* a replay of the transfer then completes.  A crash between the two        *)
(* transactions loses no money.  Only when calls overlapped, and one of     *)
(* them was cut off or refused after its late mark_due_after_completion,    *)
(* may a captured trip be left with a due invoice: process_payment and the  *)
(* retry return at once for it.                                             *)
FareRecoverable ==
    \A b \in spent :
        \/ invoice[b] = "paid"
        \/ /\ invoice[b] = "due"
           /\ CanRetry(b) \/ Busy(b) \/ b \in overlapped \cap (broken \cup refused)

(* As long as no two calls on a trip overlap, Transport and the wallet      *)
(* agree: what is captured has a settled invoice, and cash received is      *)
(* captured.                                                                *)
SettlementKept ==
    \A b \in Bookings \ overlapped :
        /\ b \in captured => invoice[b] \in Settled
        /\ invoice[b] = "cash_received" => b \in captured

(* Once the calls on a completed trip that is no request's have ended, it   *)
(* has an invoice that can be collected, unless a call was cut off.  It has *)
(* none at all only if no driver completed it, so that no payment was begun *)
(* (an administrator's completion), or if the wallet refused to make one; a *)
(* refusal never leaves an invoice that nobody can collect.                 *)
TripIsInvoiced ==
    \A b \in completed \ (broken \cup Requested) :
        \/ Busy(b) \/ invoice[b] \in {"due"} \cup Settled
        \/ invoice[b] = "none" /\ (b \notin driven \/ b \in refused)

(* Every call returns: the deadlocks over booking and payment row end, and  *)
(* no lock outlives its call.  (A call is made once: all are over in the    *)
(* end exactly if each one ends.)                                           *)
CallsReturn == <>[](\A c \in Calls : ~Running(c))
=============================================================================
