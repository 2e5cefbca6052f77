----------------------------- MODULE Adjustments -----------------------------
(***************************************************************************)
(* Manual balance adjustments with two levels of approval                   *)
(* (wallet/services/wallet_service.py): an administrator asks for one, a    *)
(* super administrator approves or rejects it, small ones approve           *)
(* themselves.  An approval is three transactions: it reads the request     *)
(* without a lock, moves the money through deposit or withdraw under a key  *)
(* made of the time, and only then stores that the request is approved.     *)
(* Neither of its writes looks at the status again.  The movement is a step *)
(* of the Ledger that WalletService implements.                             *)
(***************************************************************************)
EXTENDS Integers

CONSTANTS
    Calls,       \* calls of the four operations, each made at most once
    Requests,    \* adjustment requests
    Account, Amount, Opening,   \* the adjusted wallet
    MaxFaults,   \* bound on crashes and lost answers
    NoRequest

ASSUME AdjustmentAssumption ==
    /\ Amount \in Nat \ {0} /\ Opening \in Nat /\ MaxFaults \in Nat
    /\ NoRequest \notin Requests

VARIABLES
    status,      \* wallet_adjustment_requests.status; "none" before the insert
    kind,        \* adjustment_type
    auto,        \* requests below the threshold of automatic approval
    pc, on,      \* the step of a call and its request
    faults,
    contested,   \* history: calls that were at work on a request at once
    broken,      \* history: calls that moved the money and did not get to say so
    balance, spent, payouts, reopened   \* the wallet; the key of a call is the call

L == INSTANCE Ledger WITH
        Accounts <- {Account}, Keys <- Calls, Amounts <- {Amount}, Fees <- {}

rows    == <<status, kind, auto>>
history == <<contested, broken>>
wallet  == <<balance, spent, payouts, reopened>>
vars    == <<rows, pc, on, faults, history, wallet>>

Statuses == {"none", "pending", "approved", "rejected"}
Deciding == {"execute", "mark", "reject"}

(* Calls at work on a request, calls that have moved its money, and those   *)
(* of them that were not cut off before they could say so.                  *)
Active(r)    == {c \in Calls : on[c] = r /\ pc[c] \in Deciding}
Movements(r) == {c \in spent : on[c] = r}
Payments(r)  == Movements(r) \ broken

Goto(c, step) == pc' = [pc EXCEPT ![c] = step]

-----------------------------------------------------------------------------
Init ==
    /\ status = [r \in Requests |-> "none"] /\ kind = [r \in Requests |-> "deposit"]
    /\ auto = {}
    /\ pc = [c \in Calls |-> "idle"] /\ on = [c \in Calls |-> NoRequest]
    /\ faults = 0 /\ contested = {} /\ broken = {}
    /\ L!Init

(* admin_request_adjustment: a small request is stored as approved, and the *)
(* same call goes on to execute it.                                         *)
RequestAdjustment(c, r, k, small) ==
    /\ pc[c] = "idle" /\ status[r] = "none"
    /\ status' = [status EXCEPT ![r] = IF small THEN "approved" ELSE "pending"]
    /\ kind' = [kind EXCEPT ![r] = k]
    /\ auto' = IF small THEN auto \cup {r} ELSE auto
    /\ on' = [on EXCEPT ![c] = r]
    /\ Goto(c, IF small THEN "execute" ELSE "done")
    /\ UNCHANGED <<faults, history, wallet>>

(* Mutant: the status is not looked at.                                     *)
Decide_AnyStatus(c, r, step) ==
    /\ pc[c] = "idle" /\ status[r] # "none"
    /\ on' = [on EXCEPT ![c] = r] /\ Goto(c, step)
    /\ contested' = IF Active(r) = {} THEN contested ELSE contested \cup Active(r) \cup {c}
    /\ UNCHANGED <<rows, faults, broken, wallet>>

(* approve_adjustment and reject_adjustment begin with an unlocked read.    *)
Decide(c, r, step) ==
    /\ pc[c] = "idle" /\ status[r] = "pending"
    /\ on' = [on EXCEPT ![c] = r] /\ Goto(c, step)
    /\ contested' = IF Active(r) = {} THEN contested ELSE contested \cup Active(r) \cup {c}
    /\ UNCHANGED <<rows, faults, broken, wallet>>

ApproveAdjustment(c, r) == Decide(c, r, "execute")
RejectAdjustment(c, r)  == Decide(c, r, "reject")

(* admin_deposit or admin_withdraw.                                         *)
Move(c) ==
    IF kind[on[c]] = "deposit"
    THEN L!Deposit(c, Account, Amount)
    ELSE L!Withdraw(c, Account, Amount)

Execute(c) ==
    /\ pc[c] = "execute" /\ Move(c) /\ Goto(c, "mark")
    /\ UNCHANGED <<rows, on, faults, history>>

(* Mutant: the approval is stored on the way in, before the money moves.    *)
Refused_Approved(c) ==
    /\ pc[c] = "execute" /\ Goto(c, "done")
    /\ status' = [status EXCEPT ![on[c]] = "approved"]
    /\ UNCHANGED <<kind, auto, on, faults, history, wallet>>

(* The movement is refused: too little money, a frozen account, a limit.    *)
Refused(c) ==
    /\ pc[c] = "execute" /\ Goto(c, "done")
    /\ UNCHANGED <<rows, on, faults, history, wallet>>

(* The commit of the deposit expired the request, so its new status is      *)
(* written whatever the row holds by now.                                   *)
Mark(c) ==
    /\ pc[c] = "mark" /\ Goto(c, "done")
    /\ status' = [status EXCEPT ![on[c]] = "approved"]
    /\ UNCHANGED <<kind, auto, on, faults, history, wallet>>

Reject(c) ==
    /\ pc[c] = "reject" /\ Goto(c, "done")
    /\ status' = [status EXCEPT ![on[c]] = "rejected"]
    /\ UNCHANGED <<kind, auto, on, faults, history, wallet>>

(* The handler dies, or the answer of its last commit is lost.              *)
Crash(c) ==
    /\ pc[c] \in Deciding /\ faults < MaxFaults
    /\ faults' = faults + 1 /\ Goto(c, "done")
    /\ broken' = IF pc[c] = "mark" THEN broken \cup {c} ELSE broken
    /\ UNCHANGED <<rows, on, contested, wallet>>

Step(c) == Execute(c) \/ Refused(c) \/ Mark(c) \/ Reject(c)

Next ==
    \E c \in Calls :
        \/ \E r \in Requests :
             \/ \E k \in {"deposit", "withdraw"}, small \in BOOLEAN :
                    RequestAdjustment(c, r, k, small)
             \/ ApproveAdjustment(c, r) \/ RejectAdjustment(c, r)
        \/ Step(c) \/ Crash(c)

Spec == Init /\ [][Next]_vars /\ \A c \in Calls : WF_vars(Step(c))

-----------------------------------------------------------------------------
(* The variables have their types.                                          *)
TypeOK ==
    /\ status \in [Requests -> Statuses]
    /\ kind \in [Requests -> {"deposit", "withdraw"}]
    /\ auto \subseteq Requests
    /\ pc \in [Calls -> {"idle", "done"} \cup Deciding]
    /\ on \in [Calls -> Requests \cup {NoRequest}]
    /\ \A c \in Calls : pc[c] \in Deciding => on[c] \in Requests
    /\ faults \in 0..MaxFaults /\ contested \subseteq Calls /\ broken \subseteq Calls
    /\ balance \in [{Account} -> Int] /\ balance[Account] >= 0
    /\ spent \subseteq Calls /\ payouts \subseteq Calls /\ reopened \subseteq Calls

(* A request that an administrator approved has moved its money, whatever   *)
(* else was decided meanwhile: approve_adjustment stores the approval last. *)
(* A small request is excepted, it is stored as approved before it is       *)
(* executed and stays so when the execution fails.                          *)
ApprovedIsExecuted ==
    \A r \in Requests \ auto : status[r] = "approved" => Movements(r) # {}

(* Every movement of money that the decision does not account for is laid   *)
(* to a call.  A payment made by an approval that was alone at work is the  *)
(* request's only one, but for those of calls that died after the movement, *)
(* before they stored the approval; only calls that overlapped pay twice,   *)
(* or for a request that ends as rejected; and one that is pending and left *)
(* alone was paid, if at all, by calls that died.                           *)
DecisionMatchesMoney ==
    \A r \in Requests :
        /\ \A c \in Payments(r) \ contested : Payments(r) = {c}
        /\ status[r] = "rejected" => Payments(r) \subseteq contested
        /\ status[r] = "pending" /\ Active(r) = {} => Payments(r) = {}
=============================================================================
