------------------------------- MODULE Ledger -------------------------------
(***************************************************************************)
(* What the wallet promises its callers, without locks, retries, sessions   *)
(* or database transactions: a request takes effect in one step or not at   *)
(* all, it never takes a balance below zero, and an idempotency key takes   *)
(* effect once.  The only way a key can be used again is the one the code   *)
(* leaves open: the provider reported the withdrawal made with it as        *)
(* failed.  WalletService is shown to implement this specification.         *)
(***************************************************************************)
EXTENDS Integers

CONSTANTS Accounts, Keys, Amounts, Fees, Opening

VARIABLES
    balance,   \* what each account owns
    spent,     \* keys that took effect and may not take effect again
    payouts,   \* keys whose transaction is a withdrawal
    reopened   \* payouts that were reported as failed

vars == <<balance, spent, payouts, reopened>>

Init ==
    /\ balance = [a \in Accounts |-> Opening]
    /\ spent = {} /\ payouts = {} /\ reopened = {}

(* The key is consumed.                                                     *)
Use(k) ==
    /\ k \notin spent
    /\ spent' = spent \cup {k}
    /\ reopened' = reopened \ {k}

Deposit(k, a, n) ==
    /\ Use(k)
    /\ balance' = [balance EXCEPT ![a] = @ + n]
    /\ UNCHANGED payouts

Withdraw(k, a, n) ==
    /\ Use(k) /\ balance[a] >= n
    /\ balance' = [balance EXCEPT ![a] = @ - n]
    /\ payouts' = payouts \cup {k}

(* The receiver gets what the sender loses, less the platform fee.          *)
Transfer(k, a, b, n, f) ==
    /\ Use(k) /\ a # b /\ balance[a] >= n + f
    /\ balance' = [balance EXCEPT ![a] = @ - (n + f), ![b] = @ + n]
    /\ UNCHANGED payouts

(* A payout is reported as failed, or as completed after all.               *)
Reopen(k) ==
    /\ k \in spent \cap payouts
    /\ spent' = spent \ {k} /\ reopened' = reopened \cup {k}
    /\ UNCHANGED <<balance, payouts>>

Settle(k) ==
    /\ k \in reopened
    /\ spent' = spent \cup {k} /\ reopened' = reopened \ {k}
    /\ UNCHANGED <<balance, payouts>>

Next ==
    \E k \in Keys :
        \/ \E a \in Accounts, n \in Amounts : Deposit(k, a, n) \/ Withdraw(k, a, n)
        \/ \E a, b \in Accounts, n \in Amounts, f \in Fees \cup {0} : Transfer(k, a, b, n, f)
        \/ Reopen(k) \/ Settle(k)

Spec == Init /\ [][Next]_vars
=============================================================================
