-------------------------- MODULE TripPaymentProofs --------------------------
(* Theorems about TripPayment, for all sets of calls and bookings.          *)
EXTENDS TripPayment, TLAPS

(* An invoice that a settlement can still, or did, mark as paid.            *)
Collectable(b) == invoice[b] \in {"due", "paid"}

(* Cash is not confirmed for a trip that is paid by wallet.                 *)
WalletInvoices == \A b \in ByWallet : invoice[b] # "cash_received"

(* A collected fare is that of an invoice which is due or paid.             *)
FareInvoiced == \A b \in spent : b \in ByWallet /\ Collectable(b)

(* What a call knows of its invoice, in spite of stale copies.              *)
Knows(c) ==
    /\ copy[c] = "paid" => on[c] \in spent
    /\ on[c] \in ByWallet /\ copy[c] \in {"due", "paid"} => Collectable(on[c])
    /\ on[c] \in ByWallet =>
         copy[c] # "cash_received" /\ pc[c] \notin {"confirm", "cash", "refresh", "store"}
    /\ pc[c] \in {"reload", "due"} => copy[c] \notin {"none", Expired}
    /\ pc[c] = "settle" =>
         copy[c] \notin {"none", "pending"} /\ (on[c] \in ByWallet => Collectable(on[c]))
    /\ pc[c] = "load" => invoice[on[c]] # "none"
    /\ pc[c] \in {"transfer", "verify", "paid", "capture"} =>
         on[c] \in ByWallet /\ Collectable(on[c])
    /\ pc[c] \in {"verify", "paid", "capture"} => on[c] \in spent
    /\ pc[c] = "idle" => copy[c] = Expired

IInv ==
    /\ TypeOK /\ WalletInvoices /\ PaidIsBacked /\ FareInvoiced
    /\ \A c \in Calls : Knows(c)

LEMMA InitEstablishes == Init => IInv
  BY TripAssumption
  DEF Init, IInv, TypeOK, WalletInvoices, PaidIsBacked, FareInvoiced, Knows, Collectable,
      Invoices, Settled, Steps, Running, Locks, Expired, L!Init

-----------------------------------------------------------------------------
(* What the actions do, told in few words.                                  *)

(* The own state of call c changes and nobody else's.                       *)
Own(c) ==
    \A d \in Calls \ {c} :
        pc'[d] = pc[d] /\ on'[d] = on[d] /\ copy'[d] = copy[d] /\ bk'[d] = bk[d]

(* Nothing that another call relies on is taken back.                       *)
Kept ==
    /\ spent \subseteq spent'
    /\ \A b \in ByWallet : Collectable(b) => Collectable(b)'
    /\ \A b \in Bookings : invoice[b] # "none" => invoice'[b] # "none"

LEMMA OthersKnow ==
  ASSUME IInv, NEW c \in Calls, Own(c), Kept, NEW d \in Calls \ {c}
  PROVE  Knows(d)'
  BY DEF IInv, TypeOK, Own, Kept, Knows, Collectable, Running, Steps

(* Steps that leave the tables and the wallet alone.                        *)
LEMMA QuietSteps ==
  ASSUME IInv, NEW c \in Calls, TypeOK', Own(c), Knows(c)',
         UNCHANGED <<captured, invoice, wallet>>
  PROVE  IInv'
<1>1. Kept BY DEF Kept, Collectable, wallet
<1>2. \A d \in Calls : Knows(d)' BY <1>1, OthersKnow
<1>3. WalletInvoices' /\ PaidIsBacked' /\ FareInvoiced'
  BY DEF IInv, WalletInvoices, PaidIsBacked, FareInvoiced, Collectable, wallet
<1> QED BY <1>2, <1>3 DEF IInv

-----------------------------------------------------------------------------
LEMMA BeginType ==
  ASSUME TypeOK, NEW c \in Calls, NEW b \in Bookings, NEW step \in {"release", "record", "confirm"},
         NEW loaded \in {Expired, "pending"}, Begin(c, b, step, loaded)
  PROVE  TypeOK' /\ Own(c)
  BY DEF TypeOK, Begin, Goto, Own, Invoices, Settled, Steps, Running, Locks, Expired, rows, wallet

LEMMA BeginPreserves ==
  ASSUME IInv, NEW c \in Calls, NEW b \in Bookings,
         Complete(c, b) \/ RetryWallet(c, b) \/ ConfirmCash(c, b)
  PROVE  IInv'
<1>1. CASE Complete(c, b)
  <2>1. TypeOK' /\ Own(c) BY <1>1, BeginType DEF Complete, IInv, TypeOK
  <2>2. Knows(c)'
    BY <1>1 DEF Complete, Begin, Goto, IInv, TypeOK, Knows, Collectable, Expired, rows, wallet
  <2> QED BY <1>1, <2>1, <2>2, QuietSteps DEF Complete, Begin, rows
<1>2. CASE RetryWallet(c, b)
  <2>1. TypeOK' /\ Own(c) BY <1>2, BeginType DEF RetryWallet, IInv, TypeOK
  <2>2. Knows(c)'
    BY <1>2 DEF RetryWallet, CanRetry, Begin, Goto, IInv, TypeOK, Knows, Collectable, Expired,
       rows, wallet
  <2> QED BY <1>2, <2>1, <2>2, QuietSteps DEF RetryWallet, Begin, rows
<1>3. CASE ConfirmCash(c, b)
  <2>1. TypeOK' /\ Own(c) BY <1>3, BeginType DEF ConfirmCash, IInv, TypeOK
  <2>2. Knows(c)'
    BY <1>3 DEF ConfirmCash, Begin, Goto, IInv, TypeOK, Knows, Collectable, Expired, rows, wallet
  <2> QED BY <1>3, <2>1, <2>2, QuietSteps DEF ConfirmCash, Begin, rows
<1> QED BY <1>1, <1>2, <1>3

(* A call ends without having changed a table in this step.                 *)
LEMMA ReturnPreserves ==
  ASSUME IInv, NEW c \in Calls, Return(c) PROVE IInv'
<1>1. TypeOK' /\ Own(c)
  BY DEF IInv, TypeOK, Return, EndTransaction, Goto, Own, Invoices, Settled, Steps, Running,
         Locks, Expired, rows, history, wallet
<1>2. Knows(c)'
  BY DEF IInv, TypeOK, Return, EndTransaction, Goto, Knows, Expired
<1> QED BY <1>1, <1>2, QuietSteps DEF Return, rows

LEMMA RefusePreserves ==
  ASSUME IInv, NEW c \in Calls, Running(c), Refuse(c) PROVE IInv'
<1>0. on[c] \in Bookings BY DEF IInv, TypeOK
<1>1. TypeOK' /\ Own(c)
  BY <1>0 DEF IInv, TypeOK, Refuse, EndTransaction, Goto, Own, Invoices, Settled, Steps, Running,
         Locks, Expired, rows, wallet
<1>2. Knows(c)'
  BY DEF IInv, TypeOK, Refuse, EndTransaction, Goto, Knows, Expired
<1> QED BY <1>1, <1>2, QuietSteps DEF Refuse, rows

LEMMA CutOffPreserves ==
  ASSUME IInv, NEW c \in Calls, DeadlockVictim(c) \/ Abort(c) PROVE IInv'
<1>0. CutOff(c) /\ Running(c) /\ (faults' = faults \/ (faults < MaxFaults /\ faults' = faults + 1))
  <2>1. CASE Abort(c) BY <2>1 DEF Abort
  <2>2. CASE DeadlockVictim(c)
    <3>1. Wants(c) # {} BY <2>2 DEF DeadlockVictim, Blocks
    <3>2. Needs(c) # {} BY <3>1 DEF Wants, Missing
    <3>3. Running(c) BY <3>2 DEF Needs, Running, Steps
    <3> QED BY <2>2, <3>3 DEF DeadlockVictim
  <2> QED BY <2>1, <2>2
<1>1. on[c] \in Bookings BY <1>0 DEF IInv, TypeOK
<1>2. TypeOK' /\ Own(c)
  BY <1>0, <1>1, TripAssumption
  DEF IInv, TypeOK, CutOff, EndTransaction, Goto, Own, Invoices, Settled, Steps, Running,
      Locks, Expired, rows, wallet
<1>3. Knows(c)'
  BY <1>0 DEF IInv, TypeOK, CutOff, EndTransaction, Goto, Knows, Expired
<1> QED BY <1>0, <1>2, <1>3, QuietSteps DEF CutOff, rows

LEMMA LockPreserves ==
  ASSUME IInv, NEW c \in Calls, Lock(c) PROVE IInv'
<1>1. PICK l \in Wants(c) : holds' = [holds EXCEPT ![c] = @ \cup {l}] BY DEF Lock
<1>2. l \in Needs(c) BY DEF Wants, Missing
<1>3. l \in Locks BY <1>2 DEF Needs, Locks
<1>4. TypeOK' /\ Own(c)
  BY <1>1, <1>3
  DEF IInv, TypeOK, Lock, Own, Invoices, Settled, Steps, Running, Locks, Expired, rows,
      session, history, wallet
<1>5. Knows(c)' BY DEF IInv, Lock, Knows, Collectable, rows, session, wallet
<1> QED BY <1>4, <1>5, QuietSteps DEF Lock, rows

(* A trip is completed, by its driver or by an administrator.               *)
LEMMA ReleasePreserves ==
  ASSUME IInv, NEW c \in Calls, Release(c) PROVE IInv'
<1>0. on[c] \in Bookings BY DEF IInv, TypeOK, Release, Ready, Running, Steps
<1>1. TypeOK' /\ Own(c)
  BY <1>0 DEF IInv, TypeOK, Release, EndTransaction, Goto, Own, Invoices, Settled, Steps, Running,
     Locks, Expired, history, wallet
<1>2. Knows(c)'
  BY <1>0 DEF IInv, TypeOK, Release, EndTransaction, Goto, Knows, Expired
<1> QED BY <1>1, <1>2, QuietSteps DEF Release

LEMMA AdminPreserves ==
  ASSUME IInv, NEW b \in Bookings, CompleteByAdmin(b) PROVE IInv'
  BY DEF IInv, CompleteByAdmin, TypeOK, WalletInvoices, PaidIsBacked, FareInvoiced, Knows,
     Collectable, Running, session, history, wallet

(* Steps of process_payment and of the receipt that only read.              *)
LEMMA ReadsPreserve ==
  ASSUME IInv, NEW c \in Calls,
         \/ Start(c) \/ Record(c) \/ FindInvoice(c) \/ LoadInvoice(c)
         \/ Reload(c) \/ Settle(c) \/ Verify(c) \/ Refresh(c) \/ CheckCash(c)
  PROVE  IInv'
<1> USE DEF IInv
<1>0. CASE Return(c) BY <1>0, ReturnPreserves
<1>1. ASSUME ~Return(c) PROVE /\ TypeOK' /\ Own(c)
                              /\ UNCHANGED <<captured, invoice, wallet>>
  BY <1>1 DEF TypeOK, Start, Record, FindInvoice, LoadInvoice, Reload, LoadBooking, Settle, Verify, Refresh,
              CheckCash, Ready, Goto, Own, Invoices, Settled, Steps, Running, Locks, Expired,
              rows, session, history, wallet
<1>2. ASSUME ~Return(c) PROVE Knows(c)'
  <2>0. on[c] \in Bookings
    BY DEF TypeOK, Start, Record, FindInvoice, LoadInvoice, Reload, Settle, Verify, Refresh,
           CheckCash, Ready, Running, Steps
  <2>1. CASE Start(c) \/ Record(c) \/ CheckCash(c)
    BY <1>2, <2>1 DEF TypeOK, Start, Record, CheckCash, Ready, Goto, Knows, Collectable,
                      rows, session, wallet
  <2>2. CASE FindInvoice(c)
    BY <1>2, <2>0, <2>2 DEF TypeOK, FindInvoice, Goto, Knows, Collectable, WalletInvoices,
                      PaidIsBacked, FareInvoiced, Invoices, Settled, Expired, rows, wallet
  <2>3. CASE LoadInvoice(c)
    BY <2>0, <2>3 DEF TypeOK, LoadInvoice, Goto, Knows, Collectable, WalletInvoices,
                      PaidIsBacked, FareInvoiced, Invoices, Settled, Expired, rows, wallet
  <2>4. CASE Reload(c) \/ Refresh(c)
    BY <2>0, <2>4 DEF TypeOK, Reload, Refresh, LoadBooking, Goto, Knows, Collectable, rows, wallet
  <2>5. CASE Settle(c)
    BY <2>0, <2>5 DEF TypeOK, Settle, Goto, Knows, Collectable, WalletInvoices,
                      PaidIsBacked, FareInvoiced, Invoices, Settled, Expired, rows, wallet
  <2>6. CASE Verify(c)
    BY <2>0, <2>6 DEF TypeOK, Verify, Goto, Knows, Collectable, WalletInvoices,
                      PaidIsBacked, FareInvoiced, Invoices, Settled, Expired, rows, wallet
  <2> QED BY <2>1, <2>2, <2>3, <2>4, <2>5, <2>6
<1> QED BY <1>0, <1>1, <1>2, QuietSteps

(* The invoice is made, becomes due, becomes paid.                          *)
LEMMA InvoicePreserves ==
  ASSUME IInv, NEW c \in Calls, InsertInvoice(c) \/ MarkDue(c) \/ MarkPaid(c)
  PROVE  IInv'
<1> USE DEF IInv
<1>0. on[c] \in Bookings
  BY DEF TypeOK, InsertInvoice, MarkDue, MarkPaid, Ready, Running, Steps
<1>a. CASE Refuse(c)
  <2>1. Running(c) BY DEF InsertInvoice, MarkDue, MarkPaid, Ready, Running, Steps
  <2> QED BY <1>a, <2>1, RefusePreserves
<1>b. CASE ~Refuse(c)
  <2>1. TypeOK' /\ Own(c) /\ UNCHANGED <<captured, wallet, on>>
    BY <1>0, <1>b DEF TypeOK, InsertInvoice, MarkDue, MarkPaid, EndTransaction, Ready, Goto, Own, Invoices,
       Settled, Steps, Running, Locks, Expired, rows, session, history, wallet
  <2>2. /\ \A b \in Bookings \ {on[c]} : invoice'[b] = invoice[b]
        /\ \/ invoice'[on[c]] = invoice[on[c]]
           \/ invoice[on[c]] = "none" /\ invoice'[on[c]] = "pending"
           \/ invoice'[on[c]] = "due"
           \/ invoice'[on[c]] = "paid" /\ on[c] \in spent
    <3>1. CASE InsertInvoice(c) BY <1>0, <1>b, <3>1 DEF TypeOK, InsertInvoice
    <3>2. CASE MarkDue(c) BY <1>0, <3>2 DEF TypeOK, MarkDue
    <3>3. CASE MarkPaid(c)
      <4>1. on[c] \in spent BY <3>3 DEF MarkPaid, Ready, Knows
      <4> QED BY <1>0, <3>3, <4>1 DEF TypeOK, MarkPaid, rows
    <3> QED BY <3>1, <3>2, <3>3
  <2>3. Kept BY <1>0, <2>1, <2>2, TripAssumption DEF Kept, Collectable, TypeOK, wallet
  <2>4. Knows(c)'
    <3>1. CASE InsertInvoice(c)
      BY <1>0, <1>b, <3>1 DEF TypeOK, InsertInvoice, EndTransaction, Goto, Knows, Expired
    <3>2. CASE MarkDue(c)
      <4>1. copy[c] # "none" BY <3>2 DEF MarkDue, Ready, Knows
      <4>2. CASE copy[c] = "pending"
        BY <1>0, <3>2, <4>2 DEF TypeOK, MarkDue, EndTransaction, Goto, Ready, Knows, Collectable, Expired
      <4>3. CASE copy[c] # "pending"
        BY <1>0, <3>2, <4>1, <4>3, <2>1 DEF TypeOK, MarkDue, Goto, Ready, Knows, Collectable,
           Invoices, Settled, Expired, session, wallet
      <4> QED BY <4>2, <4>3
    <3>3. CASE MarkPaid(c)
      BY <1>0, <2>1, <3>3 DEF TypeOK, MarkPaid, EndTransaction, Goto, Ready, Knows, Collectable,
         Expired, session, wallet
    <3> QED BY <3>1, <3>2, <3>3
  <2>5. WalletInvoices' /\ PaidIsBacked' /\ FareInvoiced'
    BY <1>0, <2>1, <2>2, TripAssumption
    DEF WalletInvoices, PaidIsBacked, FareInvoiced, Collectable, TypeOK, wallet
  <2> QED BY <2>1, <2>3, <2>4, <2>5, OthersKnow
<1> QED BY <1>a, <1>b

(* The fare moves.                                                          *)
LEMMA TransferPreserves ==
  ASSUME IInv, NEW c \in Calls, Transfer(c) PROVE IInv'
<1> USE DEF IInv
<1>0. CASE Refuse(c)
  <2>1. Running(c) BY DEF Transfer, Running, Steps
  <2> QED BY <1>0, <2>1, RefusePreserves
<1>1. CASE ~Refuse(c)
  <2>0. /\ on[c] \in Bookings \cap ByWallet /\ Collectable(on[c])
    BY TripAssumption DEF TypeOK, Transfer, Running, Steps, Knows
  <2>1. /\ spent' = spent \cup {on[c]} /\ payouts' = {} /\ reopened' = {}
        /\ balance' \in [{Payer, Escrow} -> Nat]
    BY <1>1, <2>0, TripAssumption DEF Transfer, TypeOK, L!Transfer, L!Use, wallet
  <2>2. Goto(c, "verify") /\ EndTransaction(c) /\ UNCHANGED <<rows, on, faults, history>>
    BY <1>1 DEF Transfer
  <2>3. TypeOK' /\ Own(c)
    BY <2>0, <2>1, <2>2 DEF TypeOK, EndTransaction, Goto, Own, Invoices, Settled, Steps, Running,
       Locks, Expired, rows, history
  <2>4. Kept BY <2>1, <2>2 DEF Kept, Collectable, rows
  <2>5. Knows(c)'
    BY <2>0, <2>1, <2>2 DEF TypeOK, EndTransaction, Goto, Knows, Collectable, Expired, rows
  <2>6. WalletInvoices' /\ PaidIsBacked' /\ FareInvoiced'
    BY <2>0, <2>1, <2>2 DEF WalletInvoices, PaidIsBacked, FareInvoiced, Collectable, rows
  <2> QED BY <2>3, <2>4, <2>5, <2>6, OthersKnow
<1> QED BY <1>0, <1>1

(* The booking is captured, or set back.                                    *)
LEMMA BookingPreserves ==
  ASSUME IInv, NEW c \in Calls, Capture(c) \/ StorePending(c) PROVE IInv'
<1> USE DEF IInv
<1>0. on[c] \in Bookings BY DEF TypeOK, Capture, StorePending, Ready, Running, Steps
<1>1. TypeOK' /\ Own(c) /\ UNCHANGED <<invoice, wallet>>
  BY <1>0 DEF TypeOK, Capture, StorePending, EndTransaction, Ready, Goto, Own, Invoices, Settled,
     Steps, Running, Locks, Expired, history, wallet
<1>2. Kept BY <1>1 DEF Kept, Collectable, wallet
<1>3. Knows(c)'
  BY DEF TypeOK, Capture, StorePending, EndTransaction, Goto, Knows, Expired
<1>4. PaidIsBacked'
  BY <1>0, <1>1 DEF PaidIsBacked, Capture, StorePending, Ready, Knows, wallet
<1>5. WalletInvoices' /\ FareInvoiced'
  BY <1>1 DEF WalletInvoices, FareInvoiced, Collectable, wallet
<1> QED BY <1>1, <1>2, <1>3, <1>4, <1>5, OthersKnow

(* Cash is received for a trip that is not paid by wallet.                  *)
LEMMA CashPreserves ==
  ASSUME IInv, NEW c \in Calls, ReceiveCash(c) PROVE IInv'
<1> USE DEF IInv
<1>0. CASE Return(c) \/ Refuse(c)
  <2>1. Running(c) BY DEF ReceiveCash, Ready, Running, Steps
  <2> QED BY <1>0, <2>1, ReturnPreserves, RefusePreserves
<1>1. CASE ~Return(c) /\ ~Refuse(c)
  <2>0. on[c] \in Bookings \ ByWallet
    BY DEF TypeOK, ReceiveCash, Ready, Running, Steps, Knows
  <2>1. /\ invoice' = [invoice EXCEPT ![on[c]] = "cash_received"] /\ UNCHANGED wallet
        /\ captured' = captured \cup {on[c]}
        /\ Goto(c, "done") /\ EndTransaction(c) /\ UNCHANGED on
    BY <1>1 DEF ReceiveCash
  <2>2. TypeOK' /\ Own(c)
    BY <1>1, <2>0 DEF TypeOK, ReceiveCash, EndTransaction, Goto, Own, Invoices, Settled, Steps,
       Running, Locks, Expired, history, wallet
  <2>3. Kept BY <2>0, <2>1, TripAssumption DEF Kept, Collectable, TypeOK, wallet
  <2>4. Knows(c)' BY <2>1 DEF TypeOK, EndTransaction, Goto, Knows, Expired
  <2>5. WalletInvoices' /\ PaidIsBacked' /\ FareInvoiced'
    BY <2>0, <2>1, TripAssumption DEF WalletInvoices, PaidIsBacked, FareInvoiced, Collectable, TypeOK, wallet
  <2> QED BY <2>2, <2>3, <2>4, <2>5, OthersKnow
<1> QED BY <1>0, <1>1

LEMMA StepPreserves == IInv /\ [Next]_vars => IInv'
<1> SUFFICES ASSUME IInv, [Next]_vars PROVE IInv' OBVIOUS
<1>1. ASSUME NEW c \in Calls, NEW b \in Bookings,
             Complete(c, b) \/ RetryWallet(c, b) \/ ConfirmCash(c, b)
      PROVE  IInv'
  BY <1>1, BeginPreserves
<1>4. ASSUME NEW b \in Bookings, CompleteByAdmin(b) PROVE IInv'
  BY <1>4, AdminPreserves
<1>2. ASSUME NEW c \in Calls, Step(c) \/ Abort(c) PROVE IInv'
  BY <1>2, LockPreserves, ReleasePreserves, ReadsPreserve, InvoicePreserves, TransferPreserves, BookingPreserves,
     CashPreserves, CutOffPreserves DEF Step
<1>3. CASE UNCHANGED vars
  BY <1>3 DEF vars, rows, session, history, wallet, IInv, TypeOK, WalletInvoices, PaidIsBacked,
     FareInvoiced, Knows, Collectable, Running
<1> QED BY <1>1, <1>2, <1>3, <1>4 DEF Next

LEMMA Inductive == Spec => []IInv
  BY InitEstablishes, StepPreserves, PTL DEF Spec

(* The variables keep their types and no balance becomes negative.          *)
THEOREM TripTypeCorrect == Spec => []TypeOK
<1>1. IInv => TypeOK BY DEF IInv
<1> QED BY <1>1, Inductive, PTL

(* A paid invoice and a captured wallet trip are backed by a fare in        *)
(* escrow, for any calls, overlapping or cut off.                           *)
THEOREM PaidAreBacked == Spec => []PaidIsBacked
<1>1. IInv => PaidIsBacked BY DEF IInv
<1> QED BY <1>1, Inductive, PTL

-----------------------------------------------------------------------------
(* Calls that do not overlap.                                               *)
Alone ==
    \A b \in Bookings \ overlapped : \A c, d \in Calls :
        on[c] = b /\ on[d] = b /\ Running(c) /\ Running(d) => c = d

(* The copies of a call that is alone are those of the rows.                *)
Sees(c) ==
    Running(c) /\ on[c] \notin overlapped =>
        /\ on[c] \in captured => pc[c] = "confirm"
        /\ bk[c] # "captured"
        /\ pc[c] \in {"reload", "due"} => copy[c] = invoice[on[c]]
        /\ pc[c] \in {"settle", "paid"} /\ copy[c] # Expired => copy[c] = invoice[on[c]]
        /\ pc[c] = "capture" => invoice[on[c]] = "paid"

(* Nothing is paid for a trip that is not completed.                        *)
AfterTheTrip ==
    /\ captured \subseteq completed /\ spent \subseteq completed
    /\ \A c \in Calls : Running(c) /\ pc[c] # "release" => on[c] \in completed

SInv ==
    /\ IInv /\ Alone /\ AfterTheTrip /\ SettlementKept
    /\ \A c \in Calls : Sees(c)

LEMMA SInitEstablishes == Init => SInv
<1> SUFFICES ASSUME Init PROVE SInv OBVIOUS
<1>1. IInv BY InitEstablishes
<1>2. \A c \in Calls : ~Running(c) BY DEF Init, Running, Steps
<1>3. SettlementKept BY DEF Init, SettlementKept
<1>4. AfterTheTrip BY <1>2 DEF Init, AfterTheTrip, L!Init
<1> QED BY <1>1, <1>2, <1>3, <1>4 DEF SInv, Alone, Sees

(* What every step of a running call leaves alone.                          *)
Frame(c) ==
    /\ Running(c) /\ Own(c)
    /\ on' = on /\ overlapped' = overlapped /\ completed \subseteq completed'
    /\ spent' \subseteq spent \cup {on[c]}
    /\ \/ on[c] \in completed'
       \/ pc'[c] \in {"release", "done"} /\ UNCHANGED <<captured, spent>>
    /\ \A b \in Bookings \ {on[c]} :
         invoice'[b] = invoice[b] /\ (b \in captured' <=> b \in captured)
    /\ captured' \subseteq Bookings

(* Transport and the wallet agree about one booking.                        *)
Agree(b) ==
    /\ b \in captured => invoice[b] \in Settled
    /\ invoice[b] = "cash_received" => b \in captured

LEMMA FrameSuffices ==
  ASSUME SInv, IInv', NEW c \in Calls, Frame(c), Sees(c)',
         on[c] \notin overlapped => Agree(on[c])'
  PROVE  SInv'
<1> USE DEF SInv
<1>0. on[c] \in Bookings
  BY DEF IInv, TypeOK, Frame
<1>1. \A d \in Calls : Running(d)' => Running(d)
  BY DEF Frame, Own, Running
<1>2. Alone' BY <1>1 DEF Alone, Frame
<1>3. AfterTheTrip'
  <2>1. captured' \subseteq completed' /\ spent' \subseteq completed'
    BY <1>0 DEF AfterTheTrip, Frame
  <2>2. ASSUME NEW d \in Calls, Running(d)', pc'[d] # "release" PROVE on'[d] \in completed'
    <3>1. CASE d = c BY <2>2, <3>1 DEF Frame, Running, Steps
    <3>2. CASE d # c BY <1>1, <2>2, <3>2 DEF AfterTheTrip, Frame, Own
    <3> QED BY <3>1, <3>2
  <2> QED BY <2>1, <2>2 DEF AfterTheTrip
<1>4. SettlementKept'
  BY <1>0 DEF SettlementKept, Frame, Agree
<1>5. ASSUME NEW d \in Calls \ {c} PROVE Sees(d)'
  <2> SUFFICES ASSUME Running(d)', on'[d] \notin overlapped' PROVE Sees(d)'
    BY DEF Sees
  <2>1. Running(d) /\ on'[d] = on[d] /\ on[d] \in Bookings
    BY <1>1 DEF Frame, IInv, TypeOK
  <2>2. on[d] # on[c] BY <2>1 DEF Alone, Frame
  <2> QED BY <2>1, <2>2 DEF Sees, Frame, Own
<1> QED BY <1>2, <1>3, <1>4, <1>5

LEMMA SBeginPreserves ==
  ASSUME SInv, NEW c \in Calls, NEW b \in Bookings,
         Complete(c, b) \/ RetryWallet(c, b) \/ ConfirmCash(c, b)
  PROVE  SInv'
<1> USE DEF SInv
<1>0. IInv' BY BeginPreserves
<1>1. /\ pc[c] = "idle" /\ Own(c) /\ on'[c] = b /\ bk'[c] # "captured"
      /\ pc'[c] \in {"release", "record", "confirm"}
      /\ overlapped' = (IF Busy(b) THEN overlapped \cup {b} ELSE overlapped)
      /\ UNCHANGED <<completed, captured, invoice, spent>>
      /\ b \in completed \/ pc'[c] = "release"
  BY DEF Complete, RetryWallet, CanRetry, ConfirmCash, Begin, Goto, Own, IInv, TypeOK, Expired,
     rows, wallet
<1>2. b \notin captured \/ pc'[c] = "confirm"
  BY DEF Complete, RetryWallet, CanRetry, ConfirmCash, Begin, Goto, IInv, TypeOK, AfterTheTrip
<1>3. \A d \in Calls \ {c} : Running(d)' <=> Running(d) BY <1>1 DEF Own, Running
<1>4. Alone'
  BY <1>1, <1>3 DEF Alone, Own, Busy
<1>5. AfterTheTrip' BY <1>1, <1>3 DEF AfterTheTrip, Own
<1>6. SettlementKept' BY <1>1 DEF SettlementKept
<1>7. Sees(c)' BY <1>1, <1>2 DEF Sees
<1>8. ASSUME NEW d \in Calls \ {c} PROVE Sees(d)'
  BY <1>1, <1>3 DEF Sees, Own
<1> QED BY <1>0, <1>4, <1>5, <1>6, <1>7, <1>8

(* A call that ends leaves nothing to be seen.                              *)
LEMMA EndsQuietly ==
  ASSUME SInv, IInv', NEW c \in Calls, Running(c), Goto(c, "done"), EndTransaction(c),
         UNCHANGED <<completed, captured, invoice, on, overlapped, spent>>
  PROVE  SInv'
<1>1. Frame(c)
  BY DEF Frame, Own, Goto, EndTransaction, SInv, IInv, TypeOK
<1>2. Sees(c)' BY DEF Sees, Running, Steps, Goto, SInv, IInv, TypeOK
<1>3. on[c] \notin overlapped => Agree(on[c])'
  BY DEF SInv, IInv, TypeOK, SettlementKept, Agree
<1> QED BY <1>1, <1>2, <1>3, FrameSuffices

LEMMA SReturnPreserves ==
  ASSUME SInv, IInv', NEW c \in Calls, Running(c), Return(c) \/ Refuse(c) \/ CutOff(c)
  PROVE  SInv'
  BY EndsQuietly DEF Return, Refuse, CutOff, rows, history, wallet

(* Locks and reads.                                                         *)
LEMMA SReadsPreserve ==
  ASSUME SInv, IInv', NEW c \in Calls,
         \/ Lock(c) \/ Start(c) \/ Record(c) \/ FindInvoice(c) \/ LoadInvoice(c)
         \/ Reload(c) \/ Settle(c) \/ Verify(c) \/ Refresh(c) \/ CheckCash(c)
  PROVE  SInv'
<1> USE DEF SInv
<1>0. Running(c)
  <2>1. CASE Lock(c)
    <3>1. Needs(c) # {} BY <2>1 DEF Lock, Wants, Missing
    <3> QED BY <3>1 DEF Needs, Running, Steps
  <2> QED BY <2>1 DEF Start, Record, FindInvoice, LoadInvoice, Reload, Settle, Verify, Refresh,
             CheckCash, Ready, Running, Steps
<1>1. CASE Return(c) BY <1>0, <1>1, SReturnPreserves
<1>2. CASE ~Return(c)
  <2>0. on[c] \in Bookings BY <1>0 DEF IInv, TypeOK
  <2>1. Own(c) /\ UNCHANGED <<completed, captured, invoice, spent, on, overlapped>>
    BY <1>0, <1>2 DEF Own, Lock, Start, Record, FindInvoice, LoadInvoice, Reload, LoadBooking,
       Settle, Verify, Refresh, CheckCash, Ready, Goto, IInv, TypeOK, rows, session, history, wallet
  <2>a. pc[c] = "release" => pc'[c] = "release"
    BY <1>0, <1>2 DEF Lock, Start, Record, FindInvoice, LoadInvoice, Reload, LoadBooking,
       Settle, Verify, Refresh, CheckCash, Ready
  <2>b. Frame(c)
    BY <1>0, <2>0, <2>1, <2>a DEF Frame, AfterTheTrip, IInv, TypeOK
  <2>2. on[c] \notin overlapped => Agree(on[c])'
    BY <2>0, <2>1 DEF SettlementKept, Agree
  <2>3. Sees(c)'
    <3>1. CASE Lock(c) BY <2>1, <3>1 DEF Lock, Sees, Running, rows, session, history
    <3>2. CASE Start(c) \/ Record(c) \/ CheckCash(c)
      BY <1>0, <1>2, <2>1, <3>2 DEF Start, Record, CheckCash, Ready, Goto, Sees, Frame, IInv, TypeOK,
         session, Expired
    <3>3. CASE FindInvoice(c) \/ LoadInvoice(c)
      BY <1>0, <1>2, <2>1, <3>3 DEF FindInvoice, LoadInvoice, Goto, Sees, Frame, IInv, TypeOK
    <3>4. CASE Reload(c) \/ Refresh(c)
      BY <1>0, <2>1, <3>4 DEF Reload, Refresh, LoadBooking, Goto, Sees, Frame, IInv, TypeOK
    <3>5. CASE Settle(c)
      BY <1>0, <2>1, <3>5 DEF Settle, Goto, Sees, IInv, TypeOK, Knows
    <3>6. CASE Verify(c)
      BY <1>0, <2>1, <3>6 DEF Verify, Goto, Sees, IInv, TypeOK
    <3> QED BY <3>1, <3>2, <3>3, <3>4, <3>5, <3>6
  <2> QED BY <2>b, <2>2, <2>3, FrameSuffices
<1> QED BY <1>1, <1>2

LEMMA SWritesPreserve ==
  ASSUME SInv, IInv', NEW c \in Calls,
         \/ InsertInvoice(c) \/ MarkDue(c) \/ Transfer(c) \/ MarkPaid(c)
         \/ Capture(c) \/ StorePending(c) \/ ReceiveCash(c)
  PROVE  SInv'
<1> USE DEF SInv
<1>0. Running(c) /\ on[c] \in Bookings
  BY DEF InsertInvoice, MarkDue, Transfer, MarkPaid, Capture, StorePending, ReceiveCash,
     Ready, Running, Steps, IInv, TypeOK
<1>1. CASE Return(c) \/ Refuse(c) BY <1>0, <1>1, SReturnPreserves
<1>2. CASE ~Return(c) /\ ~Refuse(c)
  <2>0. on[c] \in completed'
    <3>1. on[c] \in completed
      BY <1>0 DEF AfterTheTrip, InsertInvoice, MarkDue, Transfer, MarkPaid, Capture, StorePending,
         ReceiveCash, Ready
    <3> QED BY <1>2, <3>1 DEF InsertInvoice, MarkDue, Transfer, MarkPaid, Capture, StorePending,
         ReceiveCash, rows
  <2>1. Frame(c)
    <3>1. CASE InsertInvoice(c) \/ MarkDue(c)
      BY <1>0, <1>2, <2>0, <3>1 DEF Frame, Own, InsertInvoice, MarkDue, EndTransaction, Goto, IInv,
         TypeOK, session, history, wallet
    <3>2. CASE Transfer(c) \/ MarkPaid(c)
      <4>1. spent' \subseteq spent \cup {on[c]}
        BY <1>2, <3>2 DEF Transfer, MarkPaid, L!Transfer, L!Use, wallet
      <4> QED
        BY <1>0, <1>2, <2>0, <3>2, <4>1 DEF Frame, Own, Transfer, MarkPaid, EndTransaction, Goto,
           IInv, TypeOK, rows, session, history
    <3>3. CASE Capture(c) \/ StorePending(c) \/ ReceiveCash(c)
      BY <1>0, <1>2, <2>0, <3>3 DEF Frame, Own, Capture, StorePending, ReceiveCash, EndTransaction,
         Goto, IInv, TypeOK, history, wallet
    <3> QED BY <3>1, <3>2, <3>3
  <2>2. ASSUME on[c] \notin overlapped PROVE Agree(on[c])'
    <3>0. Sees(c) /\ Agree(on[c]) BY <1>0, <2>2 DEF SettlementKept, Agree
    <3>1. CASE InsertInvoice(c)
      BY <1>0, <1>2, <3>0, <3>1 DEF InsertInvoice, Agree, IInv, TypeOK, Settled
    <3>2. CASE MarkDue(c)
      <4>1. on[c] \notin captured BY <1>0, <2>2, <3>0, <3>2 DEF MarkDue, Ready, Sees
      <4> QED BY <1>0, <3>0, <3>2, <4>1 DEF MarkDue, Agree, IInv, TypeOK
    <3>3. CASE Transfer(c) BY <1>2, <3>0, <3>3 DEF Transfer, Agree, rows
    <3>4. CASE MarkPaid(c)
      BY <1>0, <1>2, <3>0, <3>4 DEF MarkPaid, Agree, IInv, TypeOK, Settled, rows
    <3>5. CASE Capture(c)
      BY <1>0, <2>2, <3>0, <3>5 DEF Capture, Ready, Sees, Agree, Settled
    <3>6. CASE StorePending(c)
      BY <1>0, <2>2, <3>0, <3>6 DEF StorePending, Ready, Sees, Agree
    <3>7. CASE ReceiveCash(c)
      BY <1>0, <1>2, <3>7 DEF ReceiveCash, Agree, IInv, TypeOK, Settled
    <3> QED BY <3>1, <3>2, <3>3, <3>4, <3>5, <3>6, <3>7
  <2>3. Sees(c)'
    <3> SUFFICES ASSUME Running(c)', on[c] \notin overlapped PROVE Sees(c)'
      BY <2>1 DEF Sees, Frame
    <3>0. Sees(c) OBVIOUS
    <3>1. CASE InsertInvoice(c)
      BY <1>0, <1>2, <2>1, <3>0, <3>1 DEF InsertInvoice, EndTransaction, Goto, Sees, Frame, IInv, TypeOK, Expired
    <3>2. CASE MarkDue(c)
      BY <1>0, <2>1, <3>0, <3>2 DEF MarkDue, Ready, EndTransaction, Goto, Sees, Frame, IInv, TypeOK,
         session, Expired
    <3>3. CASE Transfer(c) \/ MarkPaid(c)
      BY <1>0, <1>2, <2>1, <3>0, <3>3 DEF Transfer, MarkPaid, Ready, EndTransaction, Goto, Sees,
         Frame, IInv, TypeOK, rows, session, Expired
    <3>4. CASE Capture(c) \/ StorePending(c) \/ ReceiveCash(c)
      BY <1>0, <1>2, <3>4 DEF Capture, StorePending, ReceiveCash, Goto, Running, Steps, IInv, TypeOK
    <3> QED BY <3>1, <3>2, <3>3, <3>4
  <2> QED BY <2>1, <2>2, <2>3, FrameSuffices
<1> QED BY <1>1, <1>2

(* A trip is completed, by its driver or by an administrator.               *)
LEMMA SReleasePreserves ==
  ASSUME SInv, IInv', NEW c \in Calls, Release(c) PROVE SInv'
<1> USE DEF SInv
<1>0. Running(c) /\ on[c] \in Bookings
  BY DEF Release, Ready, Running, Steps, IInv, TypeOK
<1>1. Frame(c)
  BY <1>0 DEF Release, Frame, Own, EndTransaction, Goto, IInv, TypeOK, history, wallet
<1>2. Sees(c)'
  BY <1>0 DEF Release, Ready, EndTransaction, Goto, Sees, IInv, TypeOK, history, Expired
<1>3. on[c] \notin overlapped => Agree(on[c])'
  BY <1>0 DEF Release, SettlementKept, Agree
<1> QED BY <1>1, <1>2, <1>3, FrameSuffices

LEMMA SAdminPreserves ==
  ASSUME SInv, IInv', NEW b \in Bookings, CompleteByAdmin(b) PROVE SInv'
<1>1. Alone' /\ SettlementKept' /\ \A c \in Calls : Sees(c)'
  BY DEF SInv, CompleteByAdmin, Alone, SettlementKept, Sees, Running, session, history
<1>2. AfterTheTrip'
  BY DEF SInv, CompleteByAdmin, AfterTheTrip, Running, wallet
<1> QED BY <1>1, <1>2 DEF SInv

LEMMA SCutOffPreserves ==
  ASSUME SInv, IInv', NEW c \in Calls, DeadlockVictim(c) \/ Abort(c)
  PROVE  SInv'
<1>1. CASE Abort(c) BY <1>1, SReturnPreserves DEF Abort
<1>2. CASE DeadlockVictim(c)
  <2>1. Wants(c) # {} BY <1>2 DEF DeadlockVictim, Blocks
  <2>2. Needs(c) # {} BY <2>1 DEF Wants, Missing
  <2>3. Running(c) BY <2>2 DEF Needs, Running, Steps
  <2> QED BY <1>2, <2>3, SReturnPreserves DEF DeadlockVictim
<1> QED BY <1>1, <1>2

LEMMA SStepPreserves == SInv /\ [Next]_vars => SInv'
<1> SUFFICES ASSUME SInv, [Next]_vars PROVE SInv' OBVIOUS
<1>0. IInv' BY StepPreserves DEF SInv
<1>1. ASSUME NEW c \in Calls, NEW b \in Bookings,
             Complete(c, b) \/ RetryWallet(c, b) \/ ConfirmCash(c, b)
      PROVE  SInv'
  BY <1>1, SBeginPreserves
<1>2. ASSUME NEW c \in Calls, Step(c) \/ Abort(c) PROVE SInv'
  BY <1>0, <1>2, SReleasePreserves, SReadsPreserve, SWritesPreserve, SCutOffPreserves DEF Step
<1>4. ASSUME NEW b \in Bookings, CompleteByAdmin(b) PROVE SInv'
  BY <1>0, <1>4, SAdminPreserves
<1>3. CASE UNCHANGED vars
  BY <1>0, <1>3 DEF vars, rows, session, history, wallet, SInv, Alone, AfterTheTrip,
     SettlementKept, Sees, Running
<1> QED BY <1>1, <1>2, <1>3, <1>4 DEF Next

(* Without overlapping calls, what is captured has a settled invoice and    *)
(* received cash is captured.                                               *)
THEOREM SettlementsAreKept == Spec => []SettlementKept
<1>1. Spec => []SInv BY SInitEstablishes, SStepPreserves, PTL DEF Spec
<1>2. SInv => SettlementKept BY DEF SInv
<1> QED BY <1>1, <1>2, PTL

-----------------------------------------------------------------------------
(* Collected fares, with overlapping calls.                                 *)

(* A call that goes on to mark the due invoice it saw, or will see, as paid. *)
Marks(c) ==
    \/ pc[c] = "settle" /\ copy[c] \in {Expired, "due"}
    \/ pc[c] \in {"transfer", "verify"}
    \/ pc[c] = "paid" /\ copy[c] = "due"

(* The invoice was paid, as the booking or a copy tells.                    *)
Tells(c) == copy[c] = "paid" \/ pc[c] = "capture"
WasPaid(b) == b \in captured \/ \E c \in Calls : on[c] = b /\ Tells(c)

Marked(b) == \E c \in Calls : on[c] = b /\ Marks(c)

(* An invoice that was paid is made due again only by a call that then      *)
(* marks it once more.                                                      *)
PaidAgain(b) ==
    WasPaid(b) /\ invoice[b] = "due" => Marked(b) \/ b \in broken \cup refused

RInv == SInv /\ \A b \in ByWallet : PaidAgain(b)

LEMMA RInitEstablishes == Init => RInv
<1> SUFFICES ASSUME Init PROVE RInv OBVIOUS
<1>1. SInv BY SInitEstablishes
<1>2. \A b \in ByWallet : invoice[b] # "due" BY TripAssumption DEF Init
<1> QED BY <1>1, <1>2 DEF RInv, PaidAgain

(* What a step of c leaves alone.                                           *)
RFrame(c) ==
    /\ Running(c) /\ Own(c) /\ on' = on /\ broken \subseteq broken' /\ refused \subseteq refused'
    /\ \A b \in Bookings \ {on[c]} :
         invoice'[b] = invoice[b] /\ (b \in captured' <=> b \in captured)

(* The invoice is not due or was never paid, or c marks it, or is excused,  *)
(* or another call has to.                                                  *)
Minds(c) ==
    LET b == on[c] IN
    \/ invoice'[b] # "due" \/ ~(WasPaid(b)') \/ Marks(c)' \/ b \in broken' \cup refused'
    \/ invoice[b] = "due" /\ WasPaid(b) /\ ~Marks(c)

LEMMA RFrameSuffices ==
  ASSUME RInv, SInv', NEW c \in Calls, RFrame(c), on[c] \in ByWallet => Minds(c)
  PROVE  RInv'
<1> USE DEF RInv
<1>0. on[c] \in Bookings BY DEF RFrame, SInv, IInv, TypeOK
<1>1. ASSUME NEW d \in Calls \ {c} PROVE on'[d] = on[d] /\ Marks(d)' = Marks(d) /\ Tells(d)' = Tells(d)
  BY DEF RFrame, Own, Marks, Tells
<1>2. ASSUME NEW b \in ByWallet, b # on[c] PROVE PaidAgain(b)'
  <2> SUFFICES ASSUME WasPaid(b)', invoice'[b] = "due" PROVE Marked(b)' \/ b \in broken' \cup refused'
    BY DEF PaidAgain
  <2>0. b \in Bookings BY TripAssumption
  <2>1. invoice[b] = "due" BY <1>2, <2>0 DEF RFrame
  <2>2. WasPaid(b)
    <3>1. CASE b \in captured' BY <1>2, <2>0, <3>1 DEF RFrame, WasPaid
    <3>2. CASE b \notin captured'
      <4>1. PICK d \in Calls : on'[d] = b /\ Tells(d)' BY <3>2 DEF WasPaid
      <4>2. d # c BY <1>2, <4>1 DEF RFrame
      <4> QED BY <1>1, <4>1, <4>2 DEF WasPaid
    <3> QED BY <3>1, <3>2
  <2>3. CASE Marked(b)
    <3>1. PICK d \in Calls : on[d] = b /\ Marks(d) BY <2>3 DEF Marked
    <3>2. d # c BY <1>2, <3>1
    <3> QED BY <1>1, <3>1, <3>2 DEF Marked
  <2>4. CASE b \in broken \cup refused BY <2>4 DEF RFrame
  <2> QED BY <2>1, <2>2, <2>3, <2>4 DEF PaidAgain
<1>3. ASSUME NEW b \in ByWallet, b = on[c] PROVE PaidAgain(b)'
  <2>0. on'[c] = b BY <1>3 DEF RFrame
  <2> SUFFICES ASSUME WasPaid(b)', invoice'[b] = "due" PROVE Marked(b)' \/ b \in broken' \cup refused'
    BY DEF PaidAgain
  <2>1. CASE Marks(c)' BY <2>0, <2>1 DEF Marked
  <2>2. CASE b \in broken' \cup refused' BY <2>2
  <2>3. CASE invoice[b] = "due" /\ WasPaid(b) /\ ~Marks(c)
    <3>1. Marked(b) \/ b \in broken \cup refused BY <1>3, <2>3 DEF PaidAgain
    <3>2. CASE Marked(b)
      <4>1. PICK d \in Calls : on[d] = b /\ Marks(d) BY <3>2 DEF Marked
      <4>2. d # c BY <2>3, <4>1
      <4> QED BY <1>1, <4>1, <4>2 DEF Marked
    <3>3. CASE b \in broken \cup refused BY <3>3 DEF RFrame
    <3> QED BY <3>1, <3>2, <3>3
  <2> QED BY <1>3, <2>0, <2>1, <2>2, <2>3 DEF Minds
<1> QED BY <1>2, <1>3

(* A call that begins has seen nothing yet.                                 *)
LEMMA RBeginPreserves ==
  ASSUME RInv, SInv', NEW c \in Calls, NEW b \in Bookings,
         Complete(c, b) \/ RetryWallet(c, b) \/ ConfirmCash(c, b)
  PROVE  RInv'
<1>1. /\ pc[c] = "idle" /\ Own(c) /\ copy'[c] = copy[c]
      /\ pc'[c] \in {"release", "record", "confirm"}
      /\ UNCHANGED <<captured, invoice, broken, refused>>
  BY DEF Complete, RetryWallet, ConfirmCash, Begin, Goto, Own, RInv, SInv, IInv, TypeOK, rows
<1>2. copy[c] = Expired BY <1>1 DEF RInv, SInv, IInv, Knows
<1>3. ~Marks(c) /\ ~(Tells(c)') BY <1>1, <1>2 DEF Marks, Tells, Expired
<1>4. ASSUME NEW d \in Calls \ {c} PROVE on'[d] = on[d] /\ Marks(d)' = Marks(d) /\ Tells(d)' = Tells(d)
  BY <1>1 DEF Own, Marks, Tells
<1>5. ASSUME NEW x \in ByWallet, WasPaid(x)' PROVE WasPaid(x)
  BY <1>1, <1>3, <1>4, <1>5 DEF WasPaid
<1>6. ASSUME NEW x \in ByWallet, Marked(x) PROVE Marked(x)'
  BY <1>3, <1>4, <1>6 DEF Marked
<1>7. ASSUME NEW x \in ByWallet PROVE PaidAgain(x)'
  BY <1>1, <1>5, <1>6, <1>7 DEF RInv, PaidAgain
<1> QED BY <1>7 DEF RInv

(* A call that ends has nothing more to do, or was refused or cut off.      *)
LEMMA REndPreserves ==
  ASSUME RInv, SInv', NEW c \in Calls, Running(c),
         \/ Return(c) /\ ~Marks(c)
         \/ Refuse(c) \/ CutOff(c)
  PROVE  RInv'
<1> USE DEF RInv
<1>1. RFrame(c)
  BY DEF RFrame, Own, Return, Refuse, CutOff, Goto, EndTransaction, rows, history, SInv, IInv, TypeOK
<1>2. Minds(c)
  <2>1. CASE Refuse(c) \/ CutOff(c) BY <2>1 DEF Refuse, CutOff, Minds
  <2>2. CASE Return(c)
    <3>1. ~(Tells(c)') BY <2>2 DEF Return, Goto, EndTransaction, Tells, SInv, IInv, TypeOK, Expired
    <3>2. ASSUME WasPaid(on[c])' PROVE WasPaid(on[c])
      BY <1>1, <2>2, <3>1, <3>2 DEF WasPaid, Return, rows, RFrame, Own, Tells
    <3>3. CASE Refuse(c) \/ CutOff(c) BY <2>1, <3>3
    <3>4. CASE ~Marks(c) BY <2>2, <3>2, <3>4 DEF Minds, Return, rows
    <3> QED BY <3>3, <3>4
  <2> QED BY <2>1, <2>2
<1> QED BY <1>1, <1>2, RFrameSuffices

(* A step after which c tells no more than it did, of an invoice that did   *)
(* not become due.                                                          *)
LEMMA Quietly ==
  ASSUME NEW c \in Calls, RFrame(c), on[c] \in captured' => on[c] \in captured \/ Tells(c),
         Tells(c)' => Tells(c) \/ invoice'[on[c]] # "due",
         invoice'[on[c]] = "due" => invoice[on[c]] = "due",
         Marks(c) => Marks(c)'
  PROVE  Minds(c)
<1> SUFFICES ASSUME invoice'[on[c]] = "due", WasPaid(on[c])', ~(Marks(c)')
             PROVE  WasPaid(on[c])
  BY DEF Minds
<1>1. CASE on[c] \in captured' BY <1>1 DEF WasPaid
<1>2. CASE on[c] \notin captured'
  <2>1. PICK d \in Calls : on'[d] = on[c] /\ Tells(d)' BY <1>2 DEF WasPaid, RFrame
  <2>2. Tells(d) BY <2>1 DEF RFrame, Own, Tells
  <2> QED BY <2>1, <2>2 DEF WasPaid, RFrame
<1> QED BY <1>1, <1>2

LEMMA RReadsPreserve ==
  ASSUME RInv, SInv', NEW c \in Calls,
         \/ Lock(c) \/ Release(c) \/ Start(c) \/ Record(c) \/ FindInvoice(c) \/ LoadInvoice(c)
         \/ Reload(c) \/ Settle(c) \/ Verify(c) \/ Refresh(c) \/ CheckCash(c)
  PROVE  RInv'
<1> USE DEF RInv, SInv
<1>0. Running(c)
  <2>1. CASE Lock(c)
    <3>1. Needs(c) # {} BY <2>1 DEF Lock, Wants, Missing
    <3> QED BY <3>1 DEF Needs, Running, Steps
  <2> QED BY <2>1 DEF Release, Start, Record, FindInvoice, LoadInvoice, Reload, Settle, Verify,
             Refresh, CheckCash, Ready, Running, Steps
<1>a. on[c] \in Bookings BY <1>0 DEF IInv, TypeOK
<1>1. CASE Return(c)
  <2>0. pc'[c] = "done" BY <1>1 DEF Return, Goto, IInv, TypeOK
  <2>1. ~Marks(c)
    BY <1>0, <1>1, <2>0 DEF Lock, Release, Start, Record, FindInvoice, LoadInvoice, Reload,
       LoadBooking, Settle, Verify, Refresh, CheckCash, Ready, Goto, IInv, TypeOK, Running, Steps,
       Marks
  <2> QED BY <1>0, <1>1, <2>1, REndPreserves
<1>2. CASE ~Return(c)
  <2>1. Own(c) /\ UNCHANGED <<on, captured, invoice, broken, refused>>
    BY <1>0, <1>2 DEF Own, Lock, Release, Start, Record, FindInvoice, LoadInvoice, Reload,
       LoadBooking, Settle, Verify, Refresh, CheckCash, Ready, Goto, EndTransaction, IInv, TypeOK,
       Running, Steps, rows, session, history
  <2>2. RFrame(c) BY <1>0, <2>1 DEF RFrame
  <2>3. ASSUME on[c] \in ByWallet PROVE Minds(c)
    <3>1. CASE Lock(c)
      BY <2>1, <2>2, <3>1, Quietly DEF Lock, Tells, Marks, session
    <3>2. CASE Start(c) \/ Record(c) \/ CheckCash(c) \/ Release(c)
      <4>1. pc[c] \notin {"settle", "transfer", "verify", "paid"} /\ pc'[c] # "capture"
        BY <1>2, <3>2 DEF Start, Record, CheckCash, Release, Ready, Goto, IInv, TypeOK
      <4>2. copy'[c] \in {copy[c], Expired}
        BY <1>2, <3>2 DEF Start, Record, CheckCash, Release, EndTransaction, IInv, TypeOK, session
      <4> QED BY <2>1, <2>2, <4>1, <4>2, Quietly DEF Tells, Marks, Expired
    <3>3. CASE FindInvoice(c) \/ LoadInvoice(c)
      <4>1. pc[c] \notin {"settle", "transfer", "verify", "paid"} /\ pc'[c] # "capture"
        BY <1>2, <3>3 DEF FindInvoice, LoadInvoice, Goto, IInv, TypeOK
      <4>2. copy'[c] = invoice[on[c]]
        BY <1>2, <3>3 DEF FindInvoice, LoadInvoice, IInv, TypeOK
      <4> QED BY <2>1, <2>2, <4>1, <4>2, Quietly DEF Tells, Marks
    <3>4. CASE Reload(c) \/ Refresh(c)
      <4>1. pc[c] \notin {"settle", "transfer", "verify", "paid"} /\ pc'[c] # "capture"
        BY <3>4 DEF Reload, Refresh, LoadBooking, Goto, IInv, TypeOK
      <4>2. copy'[c] = copy[c] BY <3>4 DEF Reload, Refresh, LoadBooking
      <4> QED BY <2>1, <2>2, <4>1, <4>2, Quietly DEF Tells, Marks
    <3>5. CASE Settle(c)
      <4>1. pc[c] = "settle" /\ copy[c] \in {Expired, "due", "paid"}
        BY <2>3, <3>5 DEF Settle, IInv, TypeOK, Knows, Invoices, Settled
      <4>2. invoice[on[c]] \in {"due", "paid"}
        BY <2>3, <4>1 DEF IInv, Knows, Collectable
      <4>3. /\ copy'[c] = (IF copy[c] = Expired THEN invoice[on[c]] ELSE copy[c])
            /\ pc'[c] = (IF copy'[c] = "paid" THEN "capture" ELSE "transfer")
        BY <2>3, <3>5 DEF Settle, Goto, IInv, TypeOK
      <4>4. CASE copy[c] = "paid"
        BY <2>1, <2>2, <4>1, <4>3, <4>4, Quietly DEF Tells, Marks, Expired
      <4>5. CASE copy[c] # "paid" /\ invoice[on[c]] = "due"
        BY <4>1, <4>3, <4>5 DEF Minds, Marks, Expired
      <4>6. CASE invoice[on[c]] = "paid" BY <2>1, <4>6 DEF Minds
      <4> QED BY <4>2, <4>4, <4>5, <4>6
    <3>6. CASE Verify(c)
      <4>1. pc'[c] = "paid" /\ copy'[c] = invoice[on[c]]
        BY <3>6 DEF Verify, Goto, IInv, TypeOK
      <4> QED BY <2>1, <4>1 DEF Minds, Marks
    <3> QED BY <3>1, <3>2, <3>3, <3>4, <3>5, <3>6
  <2> QED BY <2>2, <2>3, RFrameSuffices
<1> QED BY <1>1, <1>2

LEMMA RWritesPreserve ==
  ASSUME RInv, SInv', NEW c \in Calls,
         \/ InsertInvoice(c) \/ MarkDue(c) \/ Transfer(c) \/ MarkPaid(c)
         \/ Capture(c) \/ StorePending(c) \/ ReceiveCash(c)
  PROVE  RInv'
<1> USE DEF RInv, SInv
<1>0. Running(c) /\ on[c] \in Bookings
  BY DEF InsertInvoice, MarkDue, Transfer, MarkPaid, Capture, StorePending, ReceiveCash,
     Ready, Running, Steps, IInv, TypeOK
<1>1. CASE Refuse(c) BY <1>0, <1>1, REndPreserves
<1>2. CASE Return(c)
  <2>0. pc'[c] = "done" BY <1>2 DEF Return, Goto, IInv, TypeOK
  <2>1. CASE ~Marks(c) BY <1>0, <1>2, <2>1, REndPreserves
  <2>2. CASE Marks(c)
    <3>1. Transfer(c) \/ MarkPaid(c)
      BY <2>2 DEF InsertInvoice, MarkDue, Capture, StorePending, ReceiveCash, Ready, Marks
    <3> QED BY <1>1, <2>0, <3>1 DEF Transfer, MarkPaid, Goto, IInv, TypeOK
  <2> QED BY <2>1, <2>2
<1>3. CASE ~Return(c) /\ ~Refuse(c)
  <2>1. Own(c) /\ UNCHANGED <<on, broken, refused>>
    BY <1>3 DEF Own, InsertInvoice, MarkDue, Transfer, MarkPaid, Capture, StorePending,
       ReceiveCash, EndTransaction, Goto, IInv, TypeOK, rows, session, history
  <2>2. \A b \in Bookings \ {on[c]} : invoice'[b] = invoice[b] /\ (b \in captured' <=> b \in captured)
    BY <1>3 DEF InsertInvoice, MarkDue, Transfer, MarkPaid, Capture, StorePending,
       ReceiveCash, IInv, TypeOK, rows
  <2>3. RFrame(c) BY <1>0, <2>1, <2>2 DEF RFrame
  <2>4. ASSUME on[c] \in ByWallet PROVE Minds(c)
    <3>1. CASE InsertInvoice(c)
      <4>1. /\ pc[c] = "insert" /\ pc'[c] = "load" /\ copy'[c] = Expired /\ captured' = captured
            /\ invoice'[on[c]] = "due" => invoice[on[c]] = "due"
        BY <1>0, <1>3, <3>1 DEF InsertInvoice, Goto, EndTransaction, IInv, TypeOK
      <4> QED BY <2>3, <4>1, Quietly DEF Tells, Marks, Expired
    <3>2. CASE MarkDue(c)
      <4>1. pc[c] = "due" /\ pc'[c] = "settle" /\ captured' = captured
        BY <3>2 DEF MarkDue, Ready, Goto, IInv, TypeOK
      <4>2. CASE copy[c] = "pending"
        <5>1. copy'[c] = Expired BY <3>2, <4>2 DEF MarkDue, EndTransaction, IInv, TypeOK
        <5> QED BY <4>1, <5>1 DEF Minds, Marks
      <4>3. CASE copy[c] # "pending"
        <5>1. copy'[c] = copy[c] /\ invoice' = invoice BY <3>2, <4>3 DEF MarkDue, session
        <5> QED BY <2>3, <4>1, <5>1, Quietly DEF Tells, Marks
      <4> QED BY <4>2, <4>3
    <3>3. CASE Transfer(c)
      <4>1. pc'[c] = "verify" BY <1>3, <3>3 DEF Transfer, Goto, IInv, TypeOK
      <4> QED BY <4>1 DEF Minds, Marks
    <3>4. CASE MarkPaid(c)
      <4>1. CASE copy[c] = "due"
        <5>1. invoice'[on[c]] = "paid" BY <1>0, <3>4, <4>1 DEF MarkPaid, IInv, TypeOK
        <5> QED BY <5>1 DEF Minds
      <4>2. CASE copy[c] # "due"
        <5>1. /\ copy[c] = "paid" /\ UNCHANGED <<invoice, captured>> /\ pc[c] = "paid"
          BY <3>4, <4>2 DEF MarkPaid, Ready
        <5> QED BY <2>3, <4>2, <5>1, Quietly DEF Tells, Marks
      <4> QED BY <4>1, <4>2
    <3>5. CASE Capture(c)
      <4>1. /\ pc[c] = "capture" /\ pc'[c] = "done" /\ copy'[c] = Expired
            /\ invoice' = invoice
        BY <3>5 DEF Capture, Ready, Goto, EndTransaction, IInv, TypeOK
      <4> QED BY <2>3, <4>1, Quietly DEF Tells, Marks, Expired
    <3>6. CASE StorePending(c) \/ ReceiveCash(c)
      BY <2>4, <3>6 DEF StorePending, ReceiveCash, Ready, IInv, Knows
    <3> QED BY <3>1, <3>2, <3>3, <3>4, <3>5, <3>6
  <2> QED BY <2>3, <2>4, RFrameSuffices
<1> QED BY <1>1, <1>2, <1>3

LEMMA RCutOffPreserves ==
  ASSUME RInv, SInv', NEW c \in Calls, DeadlockVictim(c) \/ Abort(c)
  PROVE  RInv'
<1>1. CASE Abort(c) BY <1>1, REndPreserves DEF Abort
<1>2. CASE DeadlockVictim(c)
  <2>1. Wants(c) # {} BY <1>2 DEF DeadlockVictim, Blocks
  <2>2. Needs(c) # {} BY <2>1 DEF Wants, Missing
  <2>3. Running(c) BY <2>2 DEF Needs, Running, Steps
  <2> QED BY <1>2, <2>3, REndPreserves DEF DeadlockVictim
<1> QED BY <1>1, <1>2

LEMMA RStepPreserves == RInv /\ [Next]_vars => RInv'
<1> SUFFICES ASSUME RInv, [Next]_vars PROVE RInv' OBVIOUS
<1>0. SInv' BY SStepPreserves DEF RInv
<1>1. ASSUME NEW c \in Calls, NEW b \in Bookings,
             Complete(c, b) \/ RetryWallet(c, b) \/ ConfirmCash(c, b)
      PROVE  RInv'
  BY <1>0, <1>1, RBeginPreserves
<1>2. ASSUME NEW c \in Calls, Step(c) \/ Abort(c) PROVE RInv'
  BY <1>0, <1>2, RReadsPreserve, RWritesPreserve, RCutOffPreserves DEF Step
<1>3. ASSUME NEW b \in Bookings, CompleteByAdmin(b) PROVE RInv'
  BY <1>0, <1>3 DEF RInv, CompleteByAdmin, PaidAgain, WasPaid, Tells, Marked, Marks, session, history
<1>4. CASE UNCHANGED vars
  BY <1>0, <1>4 DEF vars, rows, session, history, RInv, PaidAgain, WasPaid, Tells, Marked, Marks
<1> QED BY <1>1, <1>2, <1>3, <1>4 DEF Next

(* A collected fare belongs to an invoice that is paid, or due and open to  *)
(* a call under way or to the rider's retry; on a captured trip it stays    *)
(* due only where an overlapping call was cut off or refused after a late   *)
(* mark_due_after_completion.                                               *)
THEOREM FaresAreRecoverable == Spec => []FareRecoverable
<1>1. Spec => []RInv BY RInitEstablishes, RStepPreserves, PTL DEF Spec
<1>2. RInv => FareRecoverable
  <2> SUFFICES ASSUME RInv, NEW b \in spent, invoice[b] # "paid"
               PROVE  /\ invoice[b] = "due"
                      /\ CanRetry(b) \/ Busy(b) \/ b \in overlapped \cap (broken \cup refused)
    BY DEF FareRecoverable
  <2>1. b \in ByWallet /\ b \in Bookings /\ invoice[b] = "due" /\ b \in completed
    BY DEF RInv, SInv, IInv, TypeOK, FareInvoiced, Collectable, AfterTheTrip
  <2>2. CASE b \notin captured BY <2>1, <2>2 DEF CanRetry
  <2>3. CASE b \in captured
    <3>1. b \in overlapped BY <2>1, <2>3 DEF RInv, SInv, SettlementKept, Settled
    <3>2. Marked(b) \/ b \in broken \cup refused BY <2>1, <2>3 DEF RInv, PaidAgain, WasPaid
    <3>3. ASSUME Marked(b) PROVE Busy(b)
      BY <3>3 DEF Marked, Marks, Busy, Running, Steps
    <3> QED BY <2>1, <3>1, <3>2, <3>3
  <2> QED BY <2>1, <2>2, <2>3
<1> QED BY <1>1, <1>2, PTL

-----------------------------------------------------------------------------
(* Trips and their invoices, with overlapping calls.                        *)

(* An invoice that a payment or a receipt can settle, or has settled.  It   *)
(* stays one: a late mark_due_after_completion makes it "due" again.        *)
Billed(b) == invoice[b] \in {"due"} \cup Settled

(* The steps of a call that lead to mark_due_after_completion, where it     *)
(* cannot be refused any more, and those after it.                          *)
Bringing == {"load", "reload", "due"}
AfterDue == {"settle", "transfer", "verify", "paid", "capture", "refresh", "store"}

Bills(c) ==
    /\ copy[c] \in {"due"} \cup Settled => Billed(on[c])
    /\ pc[c] \in AfterDue => Billed(on[c])
    /\ ~Running(c) => copy[c] = Expired

(* A pending invoice has a call that will make it due.                      *)
PendingIsBrought ==
    \A b \in Bookings \ (broken \cup Requested) :
        invoice[b] = "pending" => \E c \in Calls : on[c] = b /\ pc[c] \in Bringing

BInv ==
    /\ IInv /\ TripIsInvoiced /\ PendingIsBrought
    /\ \A b \in captured : b \in Requested \/ Billed(b)
    /\ \A c \in Calls : Bills(c)

(* What a step of c does to the bills.                                      *)
BillsKept(c) ==
    /\ \A b \in Bookings : Billed(b) => Billed(b)'
    /\ \A b \in Bookings : invoice'[b] = "none" => invoice[b] = "none"
    /\ \A b \in captured' : b \in captured \/ Billed(b)'
    /\ \A b \in Bookings : invoice'[b] = "pending" =>
         invoice[b] = "pending" \/ (b = on[c] /\ pc'[c] \in Bringing)

(* ... and to what is known of them.  A call that returns leaves its trip   *)
(* billed, or was cut off or refused, or met the invoice of a ride request. *)
BFrame(c) ==
    /\ Running(c) /\ Own(c) /\ on' = on /\ broken \subseteq broken' /\ refused \subseteq refused'
    /\ driven' \subseteq driven \cup {on[c]} /\ (driven' = driven \/ Running(c)')
    /\ Running(c)' \/ Billed(on[c])' \/ on[c] \in broken' \cup refused' \cup Requested
    /\ pc[c] \in Bringing => pc'[c] \in Bringing \/ Billed(on[c])' \/ on[c] \in broken'

LEMMA BFrameSuffices ==
  ASSUME BInv, IInv', NEW c \in Calls, BFrame(c), BillsKept(c), Bills(c)'
  PROVE  BInv'
<1> USE DEF BInv
<1>0. /\ captured \subseteq Bookings /\ completed' \subseteq Bookings /\ on[c] \in Bookings
      /\ driven \subseteq completed /\ invoice' \in [Bookings -> Invoices]
  BY DEF IInv, TypeOK, BFrame
<1>1. \A b \in captured' : b \in Requested \/ Billed(b)'
  BY <1>0 DEF BillsKept
<1>2. ASSUME NEW d \in Calls \ {c} PROVE Bills(d)'
  <2>1. Bills(d) /\ pc'[d] = pc[d] /\ on'[d] = on[d] /\ copy'[d] = copy[d]
    BY DEF BFrame, Own
  <2>2. CASE on[d] \in Bookings
    BY <2>1, <2>2 DEF Bills, BillsKept, Running
  <2>3. CASE on[d] \notin Bookings
    <3>1. ~Running(d) BY <2>3 DEF IInv, TypeOK
    <3>2. pc[d] \notin AfterDue BY <3>1 DEF Running, Steps, AfterDue
    <3>3. copy[d] = Expired BY <2>1, <3>1 DEF Bills
    <3> QED BY <2>1, <3>1, <3>2, <3>3 DEF Bills, Running, Expired, Settled
  <2> QED BY <2>2, <2>3
<1>3. PendingIsBrought'
  <2> SUFFICES ASSUME NEW b \in Bookings, b \notin broken', b \notin Requested,
                      invoice'[b] = "pending"
               PROVE  \E d \in Calls : on'[d] = b /\ pc'[d] \in Bringing
    BY DEF PendingIsBrought
  <2>1. CASE b = on[c] /\ pc'[c] \in Bringing BY <2>1 DEF BFrame
  <2>2. CASE invoice[b] = "pending"
    <3>1. PICK d \in Calls : on[d] = b /\ pc[d] \in Bringing
      BY <2>2 DEF PendingIsBrought, BFrame
    <3>2. CASE d = c
      <4>1. ~(Billed(b)') BY DEF Billed, Settled
      <4>2. pc'[c] \in Bringing BY <3>1, <3>2, <4>1 DEF BFrame, Billed
      <4> QED BY <3>1, <3>2, <4>2 DEF BFrame
    <3>3. CASE d # c BY <3>1, <3>3 DEF BFrame, Own
    <3> QED BY <3>2, <3>3
  <2> QED BY <2>1, <2>2 DEF BillsKept
<1>4. TripIsInvoiced'
  <2> SUFFICES ASSUME NEW b \in completed', b \notin broken', b \notin Requested,
                      ~(Billed(b)'), invoice'[b] = "none" => b \in driven' \ refused'
               PROVE  Busy(b)'
    BY DEF TripIsInvoiced, Billed
  <2>1. b \in Bookings /\ invoice'[b] \in {"none", "pending"}
    BY <1>0 DEF Billed, Invoices, Settled
  <2>2. CASE invoice'[b] = "pending"
    <3>1. PICK d \in Calls : on'[d] = b /\ pc'[d] \in Bringing
      BY <1>3, <2>1, <2>2 DEF PendingIsBrought
    <3> QED BY <3>1 DEF Busy, Running, Bringing, Steps
  <2>3. CASE invoice'[b] = "none"
    <3>1. invoice[b] = "none" /\ ~Billed(b) /\ b \notin broken /\ b \notin refused
      BY <2>1, <2>3 DEF BFrame, BillsKept
    <3>2. CASE b \in driven
      <4>1. PICK d \in Calls : on[d] = b /\ Running(d)
        BY <1>0, <3>1, <3>2 DEF TripIsInvoiced, Billed, Busy
      <4>2. CASE d = c
        <5>1. Running(c)' BY <2>3, <4>1, <4>2 DEF BFrame, Billed
        <5> QED BY <4>1, <4>2, <5>1 DEF BFrame, Busy
      <4>3. CASE d # c
        <5>1. on'[d] = b /\ Running(d)' BY <4>1, <4>3 DEF BFrame, Own, Running
        <5> QED BY <5>1 DEF Busy
      <4> QED BY <4>2, <4>3
    <3>3. CASE b \notin driven
      <4>1. on'[c] = b /\ Running(c)' BY <2>3, <3>3 DEF BFrame
      <4> QED BY <4>1 DEF Busy
    <3> QED BY <3>2, <3>3
  <2> QED BY <2>1, <2>2, <2>3
<1> QED BY <1>1, <1>2, <1>3, <1>4

LEMMA BInitEstablishes == Init => BInv
<1> SUFFICES ASSUME Init PROVE BInv OBVIOUS
<1>1. IInv BY InitEstablishes
<1>2. TripIsInvoiced /\ PendingIsBrought BY DEF Init, TripIsInvoiced, PendingIsBrought
<1>3. ASSUME NEW c \in Calls PROVE Bills(c)
  <2>1. pc[c] = "idle" /\ copy[c] = Expired BY DEF Init
  <2> QED BY <2>1 DEF Bills, AfterDue, Expired, Settled
<1> QED BY <1>1, <1>2, <1>3 DEF BInv, Init

(* A call that begins leaves the busy trips busy.                           *)
LEMMA BBeginPreserves ==
  ASSUME BInv, NEW c \in Calls, NEW b \in Bookings,
         Complete(c, b) \/ RetryWallet(c, b) \/ ConfirmCash(c, b)
  PROVE  BInv'
<1> USE DEF BInv
<1>0. IInv' BY BeginPreserves
<1>1. /\ pc[c] = "idle" /\ Own(c) /\ on'[c] = b /\ copy'[c] = copy[c]
      /\ pc'[c] \in {"release", "record", "confirm"}
      /\ UNCHANGED <<completed, driven, captured, invoice, broken, refused>>
  <2>1. CASE Complete(c, b)
    BY <2>1 DEF Complete, Begin, Goto, Own, IInv, TypeOK, rows
  <2>2. CASE RetryWallet(c, b)
    BY <2>2 DEF RetryWallet, Begin, Goto, Own, IInv, TypeOK, rows
  <2>3. CASE ConfirmCash(c, b)
    BY <2>3 DEF ConfirmCash, Begin, Goto, Own, IInv, TypeOK, rows
  <2> QED BY <2>1, <2>2, <2>3
<1>2. copy[c] = Expired BY <1>1 DEF IInv, Knows
<1>3. \A x : Billed(x)' <=> Billed(x) BY <1>1 DEF Billed
<1>4. Bills(c)' BY <1>1, <1>2 DEF Bills, AfterDue, Running, Steps, Expired, Settled
<1>5. ASSUME NEW d \in Calls \ {c} PROVE Bills(d)'
  BY <1>1, <1>3 DEF Bills, Own, Running
<1>6. ASSUME NEW d \in Calls, Running(d) PROVE d # c /\ Running(d)' /\ on'[d] = on[d]
                                               /\ pc'[d] = pc[d]
  BY <1>1, <1>6 DEF Own, Running, Steps
<1>7. \A x : Busy(x) => Busy(x)' BY <1>6 DEF Busy
<1>8. TripIsInvoiced' BY <1>1, <1>7 DEF TripIsInvoiced
<1>9. PendingIsBrought'
  <2>1. \A d \in Calls : pc[d] \in Bringing => Running(d) BY DEF Bringing, Running, Steps
  <2> QED BY <1>1, <1>6, <2>1 DEF PendingIsBrought
<1> QED BY <1>0, <1>1, <1>3, <1>4, <1>5, <1>8, <1>9

(* An administrator's completion names no driver.                           *)
LEMMA BAdminPreserves ==
  ASSUME BInv, NEW b \in Bookings, CompleteByAdmin(b) PROVE BInv'
<1> USE DEF BInv
<1>0. IInv' BY AdminPreserves
<1>1. /\ completed' = completed \cup {b} /\ b \notin completed /\ b \notin driven
      /\ UNCHANGED <<driven, captured, invoice, broken, refused, pc, on, copy>>
  BY DEF CompleteByAdmin, session, history, IInv, TypeOK
<1>2. \A x : (Billed(x)' <=> Billed(x)) /\ (Busy(x)' <=> Busy(x))
  BY <1>1 DEF Billed, Busy, Running
<1>3. \A c \in Calls : Bills(c)' BY <1>1 DEF Bills, Billed, Running
<1>4. PendingIsBrought' BY <1>1 DEF PendingIsBrought
<1>5. TripIsInvoiced'
  <2> SUFFICES ASSUME NEW x \in completed', x \notin broken, x \notin Requested,
                      ~Busy(x), ~Billed(x)
               PROVE  invoice[x] = "none" /\ (x \notin driven \/ x \in refused)
    BY <1>1, <1>2 DEF TripIsInvoiced, Billed
  <2>1. CASE x \in completed BY <2>1 DEF TripIsInvoiced, Billed
  <2>2. CASE x = b
    <3>1. invoice[b] \in {"none", "pending"} BY <2>2 DEF IInv, TypeOK, Invoices, Billed
    <3>2. invoice[b] # "pending"
      BY <2>2 DEF PendingIsBrought, Busy, Running, Bringing, Steps
    <3> QED BY <1>1, <2>2, <3>1, <3>2
  <2> QED BY <1>1, <2>1, <2>2
<1> QED BY <1>0, <1>1, <1>2, <1>3, <1>4, <1>5

(* The driver's completion is the first step of a call that settles.        *)
LEMMA BReleasePreserves ==
  ASSUME BInv, IInv', NEW c \in Calls, Release(c) PROVE BInv'
<1> USE DEF BInv
<1>0. pc[c] = "release" /\ pc'[c] = "start" /\ copy'[c] = Expired
  BY DEF Release, Ready, Goto, EndTransaction, IInv, TypeOK
<1>1. Running(c) /\ Running(c)' BY <1>0 DEF Running, Steps
<1>2. BFrame(c) /\ BillsKept(c)
  BY <1>0, <1>1 DEF BFrame, BillsKept, Own, Release, Goto, EndTransaction, history, IInv, TypeOK,
     Billed, Bringing
<1>3. Bills(c)' BY <1>0, <1>1 DEF Bills, AfterDue, Expired, Settled
<1> QED BY <1>2, <1>3, BFrameSuffices

(* A call returns of its own only from a billed trip or that of a request,  *)
(* and is refused only before it brings an invoice, or after.               *)
LEMMA BEndPreserves ==
  ASSUME BInv, IInv', NEW c \in Calls, Running(c),
         \/ Return(c) /\ (Billed(on[c]) \/ on[c] \in Requested) /\ pc[c] \notin Bringing
         \/ Refuse(c) /\ pc[c] \notin Bringing
         \/ CutOff(c)
  PROVE  BInv'
<1>1. BFrame(c) /\ BillsKept(c)
  BY DEF BFrame, BillsKept, Own, Return, Refuse, CutOff, Goto, EndTransaction, rows, history,
     BInv, IInv, TypeOK, Billed
<1>2. Bills(c)'
  BY DEF Bills, Return, Refuse, CutOff, Goto, EndTransaction, BInv, IInv, TypeOK, AfterDue,
     Expired, Settled
<1> QED BY <1>1, <1>2, BFrameSuffices

LEMMA BReadsPreserve ==
  ASSUME BInv, IInv', NEW c \in Calls,
         \/ Lock(c) \/ Start(c) \/ Record(c) \/ FindInvoice(c) \/ LoadInvoice(c)
         \/ Reload(c) \/ Settle(c) \/ Verify(c) \/ Refresh(c) \/ CheckCash(c)
  PROVE  BInv'
<1> USE DEF BInv
<1>0. Running(c)
  <2>1. CASE Lock(c)
    <3>1. Needs(c) # {} BY <2>1 DEF Lock, Wants, Missing
    <3> QED BY <3>1 DEF Needs, Running, Steps
  <2> QED BY <2>1 DEF Start, Record, FindInvoice, LoadInvoice, Reload, Settle, Verify, Refresh,
             CheckCash, Ready, Running, Steps
<1>a. on[c] \in Bookings BY <1>0 DEF IInv, TypeOK
<1>1. CASE Return(c)
  <2>0. pc'[c] = "done" BY <1>1 DEF Return, Goto, IInv, TypeOK
  <2>1. (Billed(on[c]) \/ on[c] \in Requested) /\ pc[c] \notin Bringing
    BY <1>0, <1>1, <2>0 DEF Lock, Start, Record, FindInvoice, LoadInvoice, Reload, LoadBooking,
       Settle, Verify, Refresh, CheckCash, Ready, Goto, IInv, TypeOK, Running, Steps, Bringing
  <2> QED BY <1>0, <1>1, <2>1, BEndPreserves
<1>2. CASE ~Return(c)
  <2>1. /\ Own(c) /\ UNCHANGED <<on, driven, captured, invoice, broken, refused>>
        /\ Running(c)'
    BY <1>0, <1>2 DEF Own, Lock, Start, Record, FindInvoice, LoadInvoice, Reload, LoadBooking,
       Settle, Verify, Refresh, CheckCash, Ready, Goto, IInv, TypeOK, Running, Steps, rows,
       session, history
  <2>a. pc[c] \in Bringing => pc'[c] \in Bringing
    BY <1>2 DEF Lock, Start, Record, FindInvoice, LoadInvoice, Reload, LoadBooking,
       Settle, Verify, Refresh, CheckCash, Ready, Goto, IInv, TypeOK, Bringing
  <2>2. BFrame(c) /\ BillsKept(c) BY <1>0, <2>1, <2>a DEF BFrame, BillsKept, Billed
  <2>3. Bills(c)'
    <3>1. CASE Lock(c) BY <2>1, <3>1 DEF Lock, Bills, Billed, Running, session
    <3>2. CASE Start(c) \/ Record(c) \/ CheckCash(c)
      BY <1>2, <2>1, <3>2 DEF Start, Record, CheckCash, Goto, Bills, Billed, IInv, TypeOK, session,
         AfterDue
    <3>3. CASE FindInvoice(c) \/ LoadInvoice(c) \/ Verify(c)
      BY <1>2, <2>1, <3>3 DEF FindInvoice, LoadInvoice, Verify, Goto, Bills, Billed, IInv, TypeOK,
         AfterDue
    <3>4. CASE Reload(c) \/ Refresh(c)
      BY <2>1, <3>4 DEF Reload, Refresh, LoadBooking, Goto, Bills, Billed, IInv, TypeOK, AfterDue
    <3>5. CASE Settle(c)
      BY <1>a, <2>1, <3>5 DEF Settle, Goto, Bills, Billed, IInv, TypeOK, AfterDue
    <3> QED BY <3>1, <3>2, <3>3, <3>4, <3>5
  <2> QED BY <2>2, <2>3, BFrameSuffices
<1> QED BY <1>1, <1>2

LEMMA BWritesPreserve ==
  ASSUME BInv, IInv', NEW c \in Calls,
         \/ InsertInvoice(c) \/ MarkDue(c) \/ Transfer(c) \/ MarkPaid(c)
         \/ Capture(c) \/ StorePending(c) \/ ReceiveCash(c)
  PROVE  BInv'
<1> USE DEF BInv
<1>0. Running(c) /\ on[c] \in Bookings
  BY DEF InsertInvoice, MarkDue, Transfer, MarkPaid, Capture, StorePending, ReceiveCash,
     Ready, Running, Steps, IInv, TypeOK
<1>a. pc[c] \in Bringing => MarkDue(c)
  BY DEF InsertInvoice, Transfer, MarkPaid, Capture, StorePending, ReceiveCash, Ready, Bringing
<1>b. MarkDue(c) => pc'[c] = "settle" BY DEF MarkDue, Goto, IInv, TypeOK
<1>1. CASE Return(c) \/ Refuse(c)
  <2>0. pc'[c] = "done" BY <1>1 DEF Return, Refuse, Goto, IInv, TypeOK
  <2>1. pc[c] \notin Bringing BY <1>a, <1>b, <2>0
  <2>2. CASE Refuse(c) BY <1>0, <2>1, <2>2, BEndPreserves
  <2>3. CASE Return(c) /\ ~Refuse(c)
    <3>0. Billed(on[c]) \/ on[c] \in Requested
      <4>1. CASE pc[c] \in AfterDue BY <4>1 DEF Bills
      <4>2. CASE ReceiveCash(c)
        BY <1>0, <2>3, <4>2 DEF ReceiveCash, Return, IInv, TypeOK, Billed, Settled, rows
      <4>3. CASE InsertInvoice(c) \/ MarkDue(c)
        BY <2>0, <2>3, <4>3 DEF InsertInvoice, MarkDue, Goto, IInv, TypeOK
      <4> QED
        BY <4>1, <4>2, <4>3 DEF Transfer, MarkPaid, Capture, StorePending, Ready, AfterDue
    <3> QED BY <1>0, <2>1, <2>3, <3>0, BEndPreserves
  <2> QED BY <1>1, <2>2, <2>3
<1>2. CASE ~Return(c) /\ ~Refuse(c)
  <2>0. Own(c) /\ UNCHANGED <<on, driven, broken, refused>>
    BY <1>2 DEF Own, InsertInvoice, MarkDue, Transfer, MarkPaid, Capture, StorePending,
       ReceiveCash, EndTransaction, Goto, IInv, TypeOK, rows, session, history
  <2>1. /\ \A b \in Bookings : Billed(b) => Billed(b)'
        /\ \A b \in Bookings : invoice'[b] = "none" => invoice[b] = "none"
        /\ \A b \in Bookings : invoice'[b] = "pending" =>
             invoice[b] = "pending" \/ (b = on[c] /\ pc'[c] \in Bringing)
    <3>1. CASE InsertInvoice(c)
      BY <1>0, <1>2, <3>1 DEF InsertInvoice, Goto, IInv, TypeOK, Billed, Settled, Bringing
    <3>a. CASE MarkDue(c)
      BY <1>0, <3>a DEF MarkDue, IInv, TypeOK, Billed, Settled
    <3>2. CASE Transfer(c) \/ MarkPaid(c)
      BY <1>0, <1>2, <3>2 DEF Transfer, MarkPaid, IInv, TypeOK, Billed, Settled, rows
    <3>3. CASE Capture(c) \/ StorePending(c) \/ ReceiveCash(c)
      BY <1>0, <1>2, <3>3 DEF Capture, StorePending, ReceiveCash, IInv, TypeOK, Billed, Settled
    <3> QED BY <3>1, <3>a, <3>2, <3>3
  <2>2. pc[c] \in AfterDue \/ pc[c] = "cash" => Billed(on[c])'
    <3>1. pc[c] \in AfterDue => Billed(on[c])'
      BY <1>0, <2>0, <2>1 DEF Bills, Billed
    <3>2. ASSUME pc[c] = "cash" PROVE Billed(on[c])'
      <4>1. ReceiveCash(c)
        BY <3>2 DEF InsertInvoice, MarkDue, Transfer, MarkPaid, Capture, StorePending, Ready
      <4> QED BY <1>0, <1>2, <2>0, <4>1 DEF ReceiveCash, IInv, TypeOK, Billed, Settled
    <3> QED BY <3>1, <3>2
  <2>a. MarkDue(c) => Billed(on[c])'
    <3> SUFFICES ASSUME MarkDue(c) PROVE Billed(on[c])' OBVIOUS
    <3>1. copy[c] \notin {"none", Expired} BY DEF MarkDue, Ready, IInv, Knows
    <3> QED
      BY <1>0, <2>1, <3>1 DEF MarkDue, Bills, Billed, IInv, TypeOK, Invoices, Settled
  <2>3. \A b \in captured' : b \in captured \/ Billed(b)'
    BY <1>2, <2>2 DEF InsertInvoice, MarkDue, Transfer, MarkPaid, Capture, StorePending,
       ReceiveCash, Ready, AfterDue, rows
  <2>4. Running(c)' \/ Billed(on[c])'
    BY <1>2, <2>2 DEF InsertInvoice, MarkDue, Transfer, MarkPaid, Capture, StorePending,
       ReceiveCash, Ready, Goto, Running, Steps, AfterDue, IInv, TypeOK
  <2>5. BFrame(c) /\ BillsKept(c)
    BY <1>0, <1>a, <2>0, <2>1, <2>a, <2>3, <2>4 DEF BFrame, BillsKept
  <2>6. Bills(c)'
    <3>1. CASE InsertInvoice(c)
      BY <1>2, <3>1 DEF InsertInvoice, EndTransaction, Goto, Bills, AfterDue, IInv, TypeOK,
         Running, Steps, Expired, Settled
    <3>2. CASE MarkDue(c)
      BY <2>0, <2>a, <3>2 DEF MarkDue, Goto, Bills, IInv, TypeOK, Running, Steps
    <3>3. CASE Transfer(c) \/ MarkPaid(c)
      <4>1. pc[c] \in AfterDue BY <3>3 DEF Transfer, MarkPaid, Ready, AfterDue
      <4>2. Running(c)'
        BY <1>2, <3>3 DEF Transfer, MarkPaid, Goto, IInv, TypeOK, Running, Steps
      <4> QED BY <2>0, <2>2, <4>1, <4>2 DEF Bills
    <3>4. CASE Capture(c) \/ StorePending(c) \/ ReceiveCash(c)
      BY <1>2, <3>4 DEF Capture, StorePending, ReceiveCash, EndTransaction, Goto, Bills, AfterDue,
         IInv, TypeOK, Expired, Settled
    <3> QED BY <3>1, <3>2, <3>3, <3>4
  <2> QED BY <2>5, <2>6, BFrameSuffices
<1> QED BY <1>1, <1>2

LEMMA BCutOffPreserves ==
  ASSUME BInv, IInv', NEW c \in Calls, DeadlockVictim(c) \/ Abort(c)
  PROVE  BInv'
<1>1. CASE Abort(c) BY <1>1, BEndPreserves DEF Abort
<1>2. CASE DeadlockVictim(c)
  <2>1. Wants(c) # {} BY <1>2 DEF DeadlockVictim, Blocks
  <2>2. Needs(c) # {} BY <2>1 DEF Wants, Missing
  <2>3. Running(c) BY <2>2 DEF Needs, Running, Steps
  <2> QED BY <1>2, <2>3, BEndPreserves DEF DeadlockVictim
<1> QED BY <1>1, <1>2

LEMMA BStepPreserves == BInv /\ [Next]_vars => BInv'
<1> SUFFICES ASSUME BInv, [Next]_vars PROVE BInv' OBVIOUS
<1>0. IInv' BY StepPreserves DEF BInv
<1>1. ASSUME NEW c \in Calls, NEW b \in Bookings,
             Complete(c, b) \/ RetryWallet(c, b) \/ ConfirmCash(c, b)
      PROVE  BInv'
  BY <1>1, BBeginPreserves
<1>2. ASSUME NEW b \in Bookings, CompleteByAdmin(b) PROVE BInv'
  BY <1>2, BAdminPreserves
<1>3. ASSUME NEW c \in Calls, Step(c) \/ Abort(c) PROVE BInv'
  BY <1>0, <1>3, BReleasePreserves, BReadsPreserve, BWritesPreserve, BCutOffPreserves DEF Step
<1>4. CASE UNCHANGED vars
  BY <1>0, <1>4 DEF vars, rows, session, history, wallet, BInv, TripIsInvoiced,
     PendingIsBrought, Bills, Billed, Busy, Running
<1> QED BY <1>1, <1>2, <1>3, <1>4 DEF Next

(* A completed trip that is no request's is left with an invoice that can   *)
(* be collected when its calls have returned, however they overlapped: no   *)
(* call leaves one pending unless it was cut off.  A trip without any       *)
(* invoice was completed by an administrator alone, or the wallet refused   *)
(* to make one.                                                             *)
THEOREM TripsAreInvoiced == Spec => []TripIsInvoiced
<1>1. Spec => []BInv BY BInitEstablishes, BStepPreserves, PTL DEF Spec
<1>2. BInv => TripIsInvoiced BY DEF BInv
<1> QED BY <1>1, <1>2, PTL
=============================================================================
