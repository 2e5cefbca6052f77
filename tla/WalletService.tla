--------------------------- MODULE WalletService ---------------------------
(***************************************************************************)
(* The money-moving operations of app/wallet/services/wallet_service.py:    *)
(* deposit, withdraw and transfer, run by concurrent request handlers over  *)
(* one PostgreSQL database at READ COMMITTED, with the row locks they take, *)
(* the retry wrapper around them, account freezing, and the payout webhooks *)
(* that rewrite a transaction's status behind them.                         *)
(*                                                                          *)
(* A step of a process is a maximal piece of a handler between two points   *)
(* where it can wait for a lock or where another commit can become visible  *)
(* to it.  All writes of a database transaction appear in the step that     *)
(* commits it; a rollback discards them and frees the locks.                *)
(*                                                                          *)
(* One currency; an account and the user who owns it share an identifier,   *)
(* and identifiers are numbers because transfer sorts them.                 *)
(***************************************************************************)
EXTENDS Integers, FiniteSets

CONSTANTS
    Procs,        \* request handlers that may run at the same time
    Accounts,     \* account ids (and the ids of their owners)
    Keys,         \* client_request_id values
    Amounts,      \* amounts a caller may ask for
    Fees,         \* platform_fee values; 0 stands for "no fee"
    Opening,      \* what each account was credited with before the run
    DailyLimit,   \* WalletSystemConfig.max_daily_amount
    MaxRetries,   \* max_retries of retry_on_deadlock
    MaxOps,       \* bound on the number of calls in a behaviour
    NoProc,       \* a row nobody has locked
    NoTx,         \* a key no transaction row exists for
    NoOp          \* a process that runs no call

ASSUME WalletAssumption ==
    /\ Accounts \subseteq Nat
    /\ Amounts \subseteq Nat \ {0}
    /\ Fees \subseteq Nat
    /\ Opening \in Nat /\ DailyLimit \in Nat /\ MaxRetries \in Nat /\ MaxOps \in Nat
    /\ NoProc \notin Procs

VARIABLES
    credited,     \* SUM of the CREDIT entries of an account
    debited,      \* SUM of its DEBIT entries
    volume,       \* SUM of its DEBIT entries of the last 24 hours
    frozen,       \* accounts.is_frozen
    tx,           \* the transactions table, by client_request_id
    posted,       \* how often entries were posted under a key's transaction
    accLock,      \* who holds FOR UPDATE on an accounts row
    userLock,     \* who holds FOR UPDATE on a users row (PIN verification)
    pc,           \* where each process is in its call
    op,           \* the call each process runs
    seenFrozen,   \* is_frozen of the sender as first loaded into the session
    tries,        \* retries retry_on_deadlock has used for the call
    begun         \* calls begun so far (bounded by MaxOps)

ledger  == <<credited, debited, volume, tx, posted>>
session == <<pc, op, seenFrozen, tries>>
vars    == <<ledger, frozen, accLock, userLock, session, begun>>

-----------------------------------------------------------------------------
(* Calls.  Deposit and withdraw work on one account (src = dst). Only a     *)
(* user-initiated transfer verifies the PIN.                                *)
Requests ==
    { o \in [kind : {"deposit", "withdraw", "transfer"}, src : Accounts, dst : Accounts,
             amt : Amounts, fee : Fees \cup {0}, key : Keys, pin : BOOLEAN] :
        IF o.kind = "transfer" THEN o.src # o.dst
                               ELSE o.src = o.dst /\ o.fee = 0 /\ ~o.pin }

TxRow == [kind : {"deposit", "withdraw", "transfer"}, amt : Amounts,
          user : Accounts, recipient : Accounts, status : {"COMPLETED", "FAILED"}]

ASSUME RowAssumption == NoTx \notin TxRow /\ NoOp \notin Requests

Balance(a) == credited[a] - debited[a]

(* The call's identity-map copy of the sender is loaded unlocked during the *)
(* PIN check and is not refreshed by the later SELECT ... FOR UPDATE.       *)
SenderFrozen(p) == IF op[p].pin THEN seenFrozen[p] ELSE frozen[op[p].src]

WithStatus(t, s) ==
    [kind |-> t.kind, amt |-> t.amt, user |-> t.user, recipient |-> t.recipient, status |-> s]

Completed(k) == tx[k] # NoTx /\ tx[k].status = "COMPLETED"

(* Accounts the call still has to lock.                                     *)
Wanted(p) == {a \in {op[p].src, op[p].dst} : accLock[a] # p}

(* The INSERT of the transaction row checks its foreign keys to users, a    *)
(* KEY SHARE lock that waits for a FOR UPDATE of somebody else.             *)
KeyShareBlockers(p) ==
    IF tx[op[p].key] = NoTx
      THEN {userLock[u] : u \in {op[p].src, op[p].dst}} \ {NoProc, p}
      ELSE {}

StartPc(o) == IF o.pin THEN "pin" ELSE "lock"

-----------------------------------------------------------------------------
Init ==
    /\ credited = [a \in Accounts |-> Opening]
    /\ debited = [a \in Accounts |-> 0]
    /\ volume = [a \in Accounts |-> 0]
    /\ frozen = [a \in Accounts |-> FALSE]
    /\ tx = [k \in Keys |-> NoTx]
    /\ posted = [k \in Keys |-> 0]
    /\ accLock = [a \in Accounts |-> NoProc]
    /\ userLock = [a \in Accounts |-> NoProc]
    /\ pc = [p \in Procs |-> "idle"]
    /\ op = [p \in Procs |-> NoOp]
    /\ seenFrozen = [p \in Procs |-> FALSE]
    /\ tries = [p \in Procs |-> 0]
    /\ begun = 0

(* Every lock of p is dropped: COMMIT or ROLLBACK.                          *)
Release(p) ==
    /\ accLock' = [a \in Accounts |-> IF accLock[a] = p THEN NoProc ELSE accLock[a]]
    /\ userLock' = [a \in Accounts |-> IF userLock[a] = p THEN NoProc ELSE userLock[a]]

(* The call returns or raises; its process may take the next call.          *)
Return(p) ==
    /\ Release(p)
    /\ pc' = [pc EXCEPT ![p] = "idle"]
    /\ op' = [op EXCEPT ![p] = NoOp]
    /\ seenFrozen' = [seenFrozen EXCEPT ![p] = FALSE]
    /\ tries' = [tries EXCEPT ![p] = 0]
    /\ UNCHANGED begun

(* Mutant: the wrapper does not roll back, so the locks stay.               *)
Restart_NoRollback(p) ==
    /\ tries[p] < MaxRetries
    /\ pc' = [pc EXCEPT ![p] = StartPc(op[p])]
    /\ seenFrozen' = [seenFrozen EXCEPT ![p] = FALSE]
    /\ tries' = [tries EXCEPT ![p] = @ + 1]
    /\ UNCHANGED <<accLock, userLock, op, begun>>

(* retry_on_deadlock after a database error: roll back and call the         *)
(* operation again from the start, MaxRetries times at most.                *)
Restart(p) ==
    /\ tries[p] < MaxRetries
    /\ Release(p)
    /\ pc' = [pc EXCEPT ![p] = StartPc(op[p])]
    /\ seenFrozen' = [seenFrozen EXCEPT ![p] = FALSE]
    /\ tries' = [tries EXCEPT ![p] = @ + 1]
    /\ UNCHANGED <<op, begun>>

Begin(p, o) ==
    /\ pc[p] = "idle" /\ begun < MaxOps
    /\ pc' = [pc EXCEPT ![p] = StartPc(o)]
    /\ op' = [op EXCEPT ![p] = o]
    /\ begun' = begun + 1
    /\ UNCHANGED <<ledger, frozen, accLock, userLock, seenFrozen, tries>>

(* Load the sender without a lock, then SELECT its user FOR UPDATE.         *)
VerifyPin(p) ==
    /\ pc[p] = "pin"
    /\ userLock[op[p].src] = NoProc
    /\ userLock' = [userLock EXCEPT ![op[p].src] = p]
    /\ seenFrozen' = [seenFrozen EXCEPT ![p] = frozen[op[p].src]]
    /\ pc' = [pc EXCEPT ![p] = "lock"]
    /\ UNCHANGED <<ledger, frozen, accLock, op, tries, begun>>

(* Mutant: the accounts are read without FOR UPDATE.                        *)
LockAccount_NoLock(p) ==
    /\ pc[p] = "lock"
    /\ pc' = [pc EXCEPT ![p] = "check"]
    /\ UNCHANGED <<ledger, frozen, accLock, userLock, op, seenFrozen, tries, begun>>

(* Mutant: of the two accounts of a transfer only the sender is locked.     *)
LockAccount_SenderOnly(p) ==
    /\ pc[p] = "lock" /\ accLock[op[p].src] = NoProc
    /\ accLock' = [accLock EXCEPT ![op[p].src] = p]
    /\ pc' = [pc EXCEPT ![p] = "check"]
    /\ UNCHANGED <<ledger, frozen, userLock, op, seenFrozen, tries, begun>>

(* Lock the accounts of the call, in ascending order of their ids.          *)
LockAccount(p) ==
    /\ pc[p] = "lock"
    /\ \E a \in Wanted(p) :
         /\ \A b \in Wanted(p) : a <= b
         /\ accLock[a] = NoProc
         /\ accLock' = [accLock EXCEPT ![a] = p]
         /\ pc' = [pc EXCEPT ![p] = IF Wanted(p) = {a} THEN "check" ELSE "lock"]
    /\ UNCHANGED <<ledger, frozen, userLock, op, seenFrozen, tries, begun>>

(* A key a transfer finds taken decides its outcome before any other check: *)
(* a completed transfer of the same terms is replayed, all else is refused. *)
ReplayTransfer(p) ==
    /\ pc[p] = "check" /\ op[p].kind = "transfer" /\ tx[op[p].key] # NoTx
    /\ Return(p)
    /\ UNCHANGED <<ledger, frozen>>

(* What the checks of each operation demand; KYC and fraud scoring are part *)
(* of Abort.  A deposit is checked against the outgoing volume too.         *)
Credit(p) == IF op[p].kind = "withdraw" THEN 0 ELSE op[p].amt
Debit(p)  == IF op[p].kind = "deposit" THEN 0 ELSE op[p].amt + op[p].fee

Affordable(p) == op[p].kind # "deposit" => Balance(op[p].src) >= Debit(p)

(* Mutant: the amount of the call itself is left out of the comparison.     *)
WithinLimit_IgnoresAmount(p) == volume[op[p].src] <= DailyLimit

WithinLimit(p) == volume[op[p].src] + op[p].amt <= DailyLimit

(* Mutant: only the sender's flag is looked at.                             *)
NotFrozen_SenderOnly(p) == ~SenderFrozen(p)

NotFrozen(p) == ~SenderFrozen(p) /\ (op[p].kind = "transfer" => ~frozen[op[p].dst])

MayPost(p) == NotFrozen(p) /\ Affordable(p) /\ WithinLimit(p)

FreshKey(p) == op[p].kind = "transfer" => tx[op[p].key] = NoTx

PassChecks(p) ==
    /\ pc[p] = "check" /\ FreshKey(p) /\ MayPost(p)
    /\ pc' = [pc EXCEPT ![p] = "write"]
    /\ UNCHANGED <<ledger, frozen, accLock, userLock, op, seenFrozen, tries, begun>>

FailChecks(p) ==
    /\ pc[p] = "check" /\ FreshKey(p) /\ ~MayPost(p)
    /\ Return(p)
    /\ UNCHANGED <<ledger, frozen>>

(* get_or_create: the existing row of the key, or the one just inserted.    *)
RowOf(p) ==
    LET o == op[p] IN
    IF tx[o.key] # NoTx THEN tx[o.key]
    ELSE [kind |-> o.kind, amt |-> o.amt, user |-> o.src, recipient |-> o.dst,
          status |-> "PENDING"]

(* Mutant: the row of a completed transaction is posted to again.           *)
Entries_IgnoresStatus(p) ==
    /\ pc[p] = "write" /\ KeyShareBlockers(p) = {}
    /\ credited' = [credited EXCEPT ![op[p].dst] = @ + Credit(p)]
    /\ debited' = [debited EXCEPT ![op[p].src] = @ + Debit(p)]
    /\ volume' = [volume EXCEPT ![op[p].src] = @ + Debit(p)]
    /\ tx' = [tx EXCEPT ![op[p].key] = WithStatus(RowOf(p), "COMPLETED")]
    /\ posted' = [posted EXCEPT ![op[p].key] = @ + 1]
    /\ UNCHANGED frozen

(* Entries, volume and the COMPLETED mark commit together.                  *)
Entries(p) ==
    /\ pc[p] = "write" /\ KeyShareBlockers(p) = {} /\ ~Completed(op[p].key)
    /\ credited' = [credited EXCEPT ![op[p].dst] = @ + Credit(p)]
    /\ debited' = [debited EXCEPT ![op[p].src] = @ + Debit(p)]
    /\ volume' = [volume EXCEPT ![op[p].src] = @ + Debit(p)]
    /\ tx' = [tx EXCEPT ![op[p].key] = WithStatus(RowOf(p), "COMPLETED")]
    /\ posted' = [posted EXCEPT ![op[p].key] = @ + 1]
    /\ UNCHANGED frozen

Post(p) == Entries(p) /\ Return(p)

(* The COMMIT took effect but its answer is lost: the wrapper sees an       *)
(* OperationalError and runs the whole call again.                          *)
PostUnanswered(p) == Entries(p) /\ Restart(p)

(* get_or_create returned a completed transaction: already_processed, or    *)
(* DuplicateTransactionError for a transfer of other terms.                 *)
AlreadyProcessed(p) ==
    /\ pc[p] = "write" /\ Completed(op[p].key)
    /\ Return(p)
    /\ UNCHANGED <<ledger, frozen>>

(* Any exception that is not a database error (ownership, PIN, KYC, fraud)  *)
(* and any crash of the worker: the transaction rolls back.                 *)
Abort(p) ==
    /\ pc[p] # "idle"
    /\ Return(p)
    /\ UNCHANGED <<ledger, frozen>>

-----------------------------------------------------------------------------
(* Waiting and the database's deadlock detector.                            *)
WaitsFor(p, q) ==
    \/ pc[p] = "pin" /\ userLock[op[p].src] = q
    \/ /\ pc[p] = "lock"
       /\ \E a \in Wanted(p) : (\A b \in Wanted(p) : a <= b) /\ accLock[a] = q
    \/ pc[p] = "write" /\ q \in KeyShareBlockers(p)

InCycle(p) ==
    \E S \in SUBSET Procs :
        /\ p \in S
        /\ \A q \in S : /\ \E r \in S : WaitsFor(q, r)
                        /\ \E r \in S : WaitsFor(r, q)

(* The database picks a victim, which gets OperationalError.                *)
DeadlockRetry(p) ==
    /\ InCycle(p) /\ Restart(p)
    /\ UNCHANGED <<ledger, frozen>>

DeadlockGiveUp(p) ==
    /\ InCycle(p) /\ tries[p] = MaxRetries
    /\ Return(p)
    /\ UNCHANGED <<ledger, frozen>>

(* Any other OperationalError, DatabaseError or IntegrityError is retried   *)
(* like a deadlock.  The PIN check turns its errors into TransactionPINError*)
(* (Abort), which is not retried.                                           *)
TransientError(p) ==
    /\ pc[p] \in {"lock", "check", "write"} /\ Restart(p)
    /\ UNCHANGED <<ledger, frozen>>

-----------------------------------------------------------------------------
(* The environment of the calls.                                            *)

(* The UPDATE waits for whoever holds the account row.                      *)
SetFrozen(a) ==
    /\ accLock[a] = NoProc
    /\ frozen' = [frozen EXCEPT ![a] = ~@]
    /\ UNCHANGED <<ledger, accLock, userLock, session, begun>>

(* Debits become older than 24 hours.                                       *)
AgeVolume(a) ==
    /\ \E v \in 0 .. (volume[a] - 1) : volume' = [volume EXCEPT ![a] = v]
    /\ UNCHANGED <<credited, debited, tx, posted, frozen, accLock, userLock, session, begun>>

(* The provider reports the outcome of a payout, in any order and any       *)
(* number of times; the status is overwritten whatever it was.              *)
MarkPayout(k, s) ==
    /\ tx[k] # NoTx /\ tx[k].kind = "withdraw"
    /\ tx' = [tx EXCEPT ![k] = WithStatus(tx[k], s)]
    /\ UNCHANGED <<credited, debited, volume, posted, frozen, accLock, userLock, session, begun>>

Step(p) ==
    \/ VerifyPin(p) \/ LockAccount(p)
    \/ ReplayTransfer(p) \/ PassChecks(p) \/ FailChecks(p)
    \/ Post(p) \/ AlreadyProcessed(p)
    \/ DeadlockRetry(p) \/ DeadlockGiveUp(p)

Next ==
    \/ \E p \in Procs : Step(p)
    \/ \E p \in Procs : Abort(p) \/ TransientError(p) \/ PostUnanswered(p)
    \/ \E p \in Procs, o \in Requests : Begin(p, o)
    \/ \E a \in Accounts : SetFrozen(a)
    \/ \E a \in Accounts : AgeVolume(a)
    \/ \E k \in Keys, s \in {"COMPLETED", "FAILED"} : MarkPayout(k, s)

Spec == Init /\ [][Next]_vars

(* A handler keeps running, the database grants free locks and resolves     *)
(* deadlocks; nothing obliges a caller to call or a call to fail.           *)
FairSpec == Spec /\ \A p \in Procs : WF_vars(Step(p))

-----------------------------------------------------------------------------
(* Properties.                                                              *)

(* Every variable has its type: the rows, locks and program counters are    *)
(* the ones wallet_service.py can produce.                                  *)
TypeOK ==
    /\ credited \in [Accounts -> Nat] /\ debited \in [Accounts -> Nat]
    /\ volume \in [Accounts -> Nat]
    /\ frozen \in [Accounts -> BOOLEAN]
    /\ tx \in [Keys -> TxRow \cup {NoTx}]
    /\ posted \in [Keys -> Nat]
    /\ accLock \in [Accounts -> Procs \cup {NoProc}]
    /\ userLock \in [Accounts -> Procs \cup {NoProc}]
    /\ pc \in [Procs -> {"idle", "pin", "lock", "check", "write"}]
    /\ op \in [Procs -> Requests \cup {NoOp}]
    /\ \A p \in Procs : pc[p] # "idle" => op[p] \in Requests
    /\ seenFrozen \in [Procs -> BOOLEAN]
    /\ tries \in [Procs -> 0 .. MaxRetries]
    /\ begun \in 0 .. MaxOps

(* No interleaving of deposits, withdrawals, transfers, retries and payout  *)
(* webhooks ever makes an account's derived balance negative: the balance   *)
(* check of withdraw and transfer is made under the account's row lock.     *)
NoOverdraft == \A a \in Accounts : debited[a] <= credited[a]

(* What a call checked before it wrote (balance, limit, freeze of the       *)
(* receiver) is still true when it writes, although other calls commit in   *)
(* between: the "no TOCTOU" of the balance check's comment.                 *)
ChecksStillHold == \A p \in Procs : pc[p] = "write" => MayPost(p)

(* The debits of any 24 hours exceed the operational ceiling by at most one *)
(* platform fee, which _check_daily_limit is not given.                     *)
DailyCeiling ==
    \A a \in Accounts : \E f \in Fees \cup {0} : volume[a] <= DailyLimit + f

(* Ledger and transactions table agree: a key has entries exactly when it   *)
(* has a row, and deposits and transfers are posted once however often, by  *)
(* whomever and with whatever other operation their key is used again.      *)
OnePosting ==
    \A k \in Keys :
        /\ tx[k] = NoTx <=> posted[k] = 0
        /\ tx[k] # NoTx /\ tx[k].kind # "withdraw" => posted[k] = 1

(* Account a receives or loses money in the step.                           *)
Moves(a) == credited'[a] # credited[a] \/ debited'[a] # debited[a]

(* Money of a frozen account moves only as the sender of a PIN-authorised   *)
(* transfer whose session loaded the account before the freeze.             *)
FrozenMovesOnlyIfStale ==
    [][\A a \in Accounts : frozen[a] /\ Moves(a) =>
          \E p \in Procs : /\ pc[p] = "write" /\ pc'[p] # "write"
                           /\ op[p].pin /\ op[p].src = a /\ ~seenFrozen[p]]_vars

(* Every call returns or raises: the deadlocks that the PIN's lock on users *)
(* and the foreign keys of transactions produce are detected, and the       *)
(* wrapper's retries are bounded.                                           *)
CallsReturn == \A p \in Procs : pc[p] # "idle" ~> pc[p] = "idle"

-----------------------------------------------------------------------------
(* The promise of Ledger, with balances derived from the entries.           *)
L == INSTANCE Ledger WITH
        balance  <- [a \in Accounts |-> Balance(a)],
        spent    <- {k \in Keys : Completed(k)},
        payouts  <- {k \in Keys : tx[k] # NoTx /\ tx[k].kind = "withdraw"},
        reopened <- {k \in Keys : tx[k] # NoTx /\ tx[k].status = "FAILED"}

(* However calls interleave, fail, are retried or lose their answer, the    *)
(* outcome is one in which every request took effect in one step, at most   *)
(* once per key and without overdraft.                                      *)
ImplementsLedger == L!Spec
=============================================================================
