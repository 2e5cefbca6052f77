------------------------ MODULE WalletServiceProofs ------------------------
(***************************************************************************)
(* Theorems about WalletService, for any number of handlers, accounts, keys *)
(* and retries.                                                             *)
(*                                                                          *)
(* NoOverdraft is not inductive: a process at "write" has checked the       *)
(* balance in an earlier step.  The inductive invariant adds that it still  *)
(* holds the locks of its accounts (LocksHeld) and that, because only the   *)
(* holder of an account's lock debits it, what it checked is still true     *)
(* (ChecksStillHold).                                                       *)
(***************************************************************************)
EXTENDS WalletService, TLAPS

(* A call that has left the lock phase holds FOR UPDATE on both accounts.   *)
LocksHeld ==
    \A p \in Procs : pc[p] \in {"check", "write"} =>
        accLock[op[p].src] = p /\ accLock[op[p].dst] = p

(* Only withdrawals are ever marked FAILED.                                 *)
FailedAreWithdrawals ==
    \A k \in Keys : tx[k] # NoTx /\ tx[k].status = "FAILED" => tx[k].kind = "withdraw"

(* Amounts are positive and fees are numbers.                               *)
LEMMA Numbers ==
    /\ \A x \in Amounts : x \in Nat /\ x > 0
    /\ \A x \in Fees \cup {0} : x \in Nat
BY WalletAssumption

(* Posting an amount keeps a table of sums a table of sums.                 *)
LEMMA AddType ==
    ASSUME NEW S, NEW f \in [S -> Nat], NEW i \in S, NEW n \in Nat
    PROVE  [f EXCEPT ![i] = @ + n] \in [S -> Nat]
OBVIOUS

(* What membership in Requests says about a call.                           *)
LEMMA RequestType ==
    ASSUME NEW o \in Requests
    PROVE  /\ o.kind \in {"deposit", "withdraw", "transfer"}
           /\ o.src \in Accounts /\ o.dst \in Accounts
           /\ o.amt \in Amounts /\ o.amt \in Nat /\ o.amt > 0
           /\ o.fee \in Fees \cup {0} /\ o.fee \in Nat
           /\ o.key \in Keys /\ o.pin \in BOOLEAN
           /\ o.kind # "transfer" => o.src = o.dst /\ o.fee = 0
           /\ o.kind = "transfer" => o.src # o.dst
<1>1. /\ o.kind \in {"deposit", "withdraw", "transfer"}
      /\ o.src \in Accounts /\ o.dst \in Accounts
      /\ o.amt \in Amounts /\ o.fee \in Fees \cup {0}
      /\ o.key \in Keys /\ o.pin \in BOOLEAN
  BY DEF Requests
<1>2. /\ o.kind # "transfer" => o.src = o.dst /\ o.fee = 0
      /\ o.kind = "transfer" => o.src # o.dst
  BY Zenon DEF Requests
<1>3. o.amt \in Nat /\ o.amt > 0 /\ o.fee \in Nat
  BY <1>1, Numbers, Zenon
<1> QED BY <1>1, <1>2, <1>3, Zenon

(* Return(p) keeps the types and frees p.                                   *)
LEMMA ReturnType ==
    ASSUME TypeOK, NEW p \in Procs, Return(p)
    PROVE  /\ accLock' \in [Accounts -> Procs \cup {NoProc}]
           /\ userLock' \in [Accounts -> Procs \cup {NoProc}]
           /\ pc' \in [Procs -> {"idle", "pin", "lock", "check", "write"}]
           /\ op' \in [Procs -> Requests \cup {NoOp}]
           /\ \A q \in Procs : pc'[q] # "idle" => op'[q] \in Requests
           /\ seenFrozen' \in [Procs -> BOOLEAN]
           /\ tries' \in [Procs -> 0 .. MaxRetries]
           /\ begun' \in 0 .. MaxOps
           /\ pc'[p] = "idle"
           /\ \A q \in Procs \ {p} :
                /\ pc'[q] = pc[q] /\ op'[q] = op[q] /\ seenFrozen'[q] = seenFrozen[q]
                /\ \A a \in Accounts : accLock[a] = q => accLock'[a] = q
BY WalletAssumption DEF TypeOK, Return, Release, WalletAssumption

(* The same for a call that the wrapper starts again.                       *)
LEMMA RestartType ==
    ASSUME TypeOK, NEW p \in Procs, pc[p] # "idle", Restart(p)
    PROVE  /\ accLock' \in [Accounts -> Procs \cup {NoProc}]
           /\ userLock' \in [Accounts -> Procs \cup {NoProc}]
           /\ pc' \in [Procs -> {"idle", "pin", "lock", "check", "write"}]
           /\ op' = op /\ begun' = begun
           /\ \A q \in Procs : pc'[q] # "idle" => op'[q] \in Requests
           /\ seenFrozen' \in [Procs -> BOOLEAN]
           /\ tries' \in [Procs -> 0 .. MaxRetries]
           /\ pc'[p] \in {"pin", "lock"}
           /\ \A q \in Procs \ {p} :
                /\ pc'[q] = pc[q] /\ seenFrozen'[q] = seenFrozen[q]
                /\ \A a \in Accounts : accLock[a] = q => accLock'[a] = q
<1>1. StartPc(op[p]) \in {"pin", "lock"}
  BY DEF StartPc
<1> QED BY <1>1, WalletAssumption DEF TypeOK, Restart, Release

(* Every step keeps every variable in its type.                             *)
LEMMA TypeStep == TypeOK /\ [Next]_vars => TypeOK'
<1> SUFFICES ASSUME TypeOK, [Next]_vars PROVE TypeOK'
  OBVIOUS
<1> USE WalletAssumption
<1>1. ASSUME NEW p \in Procs, NEW o \in Requests, Begin(p, o) PROVE TypeOK'
  <2>1. StartPc(o) \in {"pin", "lock"}
    BY DEF StartPc
  <2> QED BY <1>1, <2>1 DEF TypeOK, Begin, ledger, WalletAssumption
<1>2. ASSUME NEW p \in Procs, VerifyPin(p) PROVE TypeOK'
  <2>1. op[p] \in Requests
    BY <1>2 DEF TypeOK, VerifyPin
  <2> QED BY <1>2, <2>1, RequestType DEF TypeOK, VerifyPin, ledger
<1>3. ASSUME NEW p \in Procs, LockAccount(p) PROVE TypeOK'
  <2>1. op[p] \in Requests
    BY <1>3 DEF TypeOK, LockAccount
  <2>2. Wanted(p) \subseteq Accounts
    BY <2>1, RequestType DEF Wanted
  <2> QED BY <1>3, <2>1, <2>2 DEF TypeOK, LockAccount, ledger
<1>4. ASSUME NEW p \in Procs, ReplayTransfer(p) PROVE TypeOK'
  BY <1>4, ReturnType DEF TypeOK, ReplayTransfer, ledger
<1>5. ASSUME NEW p \in Procs, PassChecks(p) PROVE TypeOK'
  BY <1>5 DEF TypeOK, PassChecks, ledger
<1>6. ASSUME NEW p \in Procs, FailChecks(p) PROVE TypeOK'
  BY <1>6, ReturnType DEF TypeOK, FailChecks, ledger
<1>7. ASSUME NEW p \in Procs, Entries(p), Return(p) \/ Restart(p) PROVE TypeOK'
  <2>1. op[p] \in Requests
    BY <1>7 DEF TypeOK, Entries
  <2>2. Credit(p) \in Nat /\ Debit(p) \in Nat
    BY <2>1, RequestType DEF Credit, Debit
  <2>3. WithStatus(RowOf(p), "COMPLETED") \in TxRow
    <3>1. CASE tx[op[p].key] # NoTx
      <4>1. tx[op[p].key] \in TxRow
        BY <2>1, <3>1, RequestType DEF TypeOK
      <4> QED BY <3>1, <4>1 DEF WithStatus, RowOf, TxRow
    <3>2. CASE tx[op[p].key] = NoTx
      BY <2>1, <3>2, RequestType DEF WithStatus, RowOf, TxRow
    <3> QED BY <3>1, <3>2
  <2>5. tx' \in [Keys -> TxRow \cup {NoTx}]
    BY <1>7, <2>1, <2>3, RequestType DEF Entries, TypeOK
  <2>6. /\ credited' \in [Accounts -> Nat] /\ debited' \in [Accounts -> Nat]
        /\ volume' \in [Accounts -> Nat] /\ posted' \in [Keys -> Nat]
    <3>1. op[p].src \in Accounts /\ op[p].dst \in Accounts /\ op[p].key \in Keys
      BY <2>1, RequestType
    <3>2. ASSUME NEW i \in Accounts, NEW n \in Nat
          PROVE  /\ [credited EXCEPT ![i] = @ + n] \in [Accounts -> Nat]
                 /\ [debited EXCEPT ![i] = @ + n] \in [Accounts -> Nat]
                 /\ [volume EXCEPT ![i] = @ + n] \in [Accounts -> Nat]
      BY DEF TypeOK
    <3>5. [posted EXCEPT ![op[p].key] = @ + 1] \in [Keys -> Nat]
      BY <3>1, AddType DEF TypeOK
    <3> QED BY <1>7, <2>2, <3>1, <3>2, <3>5 DEF Entries
  <2>7. CASE Return(p)
    BY <1>7, <2>5, <2>6, <2>7, ReturnType DEF TypeOK, Entries
  <2>8. CASE Restart(p)
    <3>1. pc[p] # "idle"
      BY <1>7 DEF Entries
    <3> QED BY <1>7, <2>5, <2>6, <2>8, <3>1, RestartType DEF TypeOK, Entries
  <2> QED BY <1>7, <2>7, <2>8
<1>8. ASSUME NEW p \in Procs, AlreadyProcessed(p) PROVE TypeOK'
  BY <1>8, ReturnType DEF TypeOK, AlreadyProcessed, ledger
<1>9. ASSUME NEW p \in Procs, Abort(p) PROVE TypeOK'
  BY <1>9, ReturnType DEF TypeOK, Abort, ledger
<1>10. ASSUME NEW p \in Procs, DeadlockRetry(p) \/ TransientError(p) PROVE TypeOK'
  <2>1. pc[p] # "idle" /\ Restart(p) /\ UNCHANGED <<ledger, frozen>>
    BY <1>10 DEF DeadlockRetry, TransientError, InCycle, WaitsFor
  <2> QED BY <2>1, RestartType DEF TypeOK, ledger
<1>11. ASSUME NEW p \in Procs, DeadlockGiveUp(p) PROVE TypeOK'
  BY <1>11, ReturnType DEF TypeOK, DeadlockGiveUp, ledger
<1>12. ASSUME NEW a \in Accounts, SetFrozen(a) PROVE TypeOK'
  BY <1>12 DEF TypeOK, SetFrozen, ledger, session
<1>13. ASSUME NEW a \in Accounts, AgeVolume(a) PROVE TypeOK'
  BY <1>13 DEF TypeOK, AgeVolume, session
<1>14. ASSUME NEW k \in Keys, NEW s \in {"COMPLETED", "FAILED"}, MarkPayout(k, s) PROVE TypeOK'
  <2>1. tx[k] \in TxRow
    BY <1>14 DEF TypeOK, MarkPayout
  <2>2. WithStatus(tx[k], s) \in TxRow
    BY <2>1 DEF WithStatus, TxRow
  <2> QED BY <1>14, <2>2 DEF TypeOK, MarkPayout, session
<1>15. CASE UNCHANGED vars
  BY <1>15 DEF TypeOK, vars, ledger, session
<1> QED BY <1>1, <1>2, <1>3, <1>4, <1>5, <1>6, <1>7, <1>8, <1>9, <1>10, <1>11,
           <1>12, <1>13, <1>14, <1>15 DEF Next, Step, Post, PostUnanswered

(* The specification is type correct: each row, lock and program counter    *)
(* the handlers write is of its declared type, for any constants.           *)
THEOREM TypeCorrect == Spec => []TypeOK
<1>1. Init => TypeOK
  BY WalletAssumption DEF Init, TypeOK, WalletAssumption
<1> QED BY <1>1, TypeStep, PTL DEF Spec

-----------------------------------------------------------------------------
(* A call keeps the locks of its accounts from its last LockAccount step    *)
(* until it returns or is rolled back.                                      *)
LEMMA LocksStep == TypeOK /\ LocksHeld /\ [Next]_vars => LocksHeld'
<1> SUFFICES ASSUME TypeOK, LocksHeld, [Next]_vars,
                    NEW q \in Procs, pc'[q] \in {"check", "write"}
             PROVE  accLock'[op'[q].src] = q /\ accLock'[op'[q].dst] = q
  BY DEF LocksHeld
<1>1. ASSUME NEW p \in Procs, NEW o \in Requests, Begin(p, o)
      PROVE  accLock'[op'[q].src] = q /\ accLock'[op'[q].dst] = q
  <2>1. StartPc(o) \notin {"check", "write"}
    BY DEF StartPc
  <2> QED BY <1>1, <2>1 DEF Begin, TypeOK, LocksHeld
<1>2. ASSUME NEW p \in Procs, VerifyPin(p)
      PROVE  accLock'[op'[q].src] = q /\ accLock'[op'[q].dst] = q
  BY <1>2 DEF VerifyPin, TypeOK, LocksHeld
<1>3. ASSUME NEW p \in Procs, LockAccount(p)
      PROVE  accLock'[op'[q].src] = q /\ accLock'[op'[q].dst] = q
  <2>1. op[p] \in Requests /\ op' = op
    BY <1>3 DEF TypeOK, LockAccount
  <2>2. PICK a \in Wanted(p) :
          /\ accLock[a] = NoProc
          /\ accLock' = [accLock EXCEPT ![a] = p]
          /\ pc' = [pc EXCEPT ![p] = IF Wanted(p) = {a} THEN "check" ELSE "lock"]
    BY <1>3 DEF LockAccount
  <2>3. op[p].src \in Accounts /\ op[p].dst \in Accounts /\ a \in Accounts
    BY <2>1, <2>2, RequestType DEF Wanted
  <2>4. CASE q = p
    <3>1. Wanted(p) = {a}
      BY <2>2, <2>4 DEF TypeOK
    <3>2. \A b \in {op[p].src, op[p].dst} : b = a \/ accLock[b] = p
      BY <3>1 DEF Wanted
    <3>3. \A b \in {op[p].src, op[p].dst} : accLock'[b] = p
      BY <2>2, <2>3, <3>2 DEF TypeOK
    <3> QED BY <2>1, <2>4, <3>3
  <2>5. CASE q # p
    <3>1. pc[q] \in {"check", "write"}
      BY <2>2, <2>5 DEF TypeOK
    <3>2. accLock[op[q].src] = q /\ accLock[op[q].dst] = q
      BY <3>1 DEF LocksHeld
    <3>3. op[q] \in Requests
      BY <3>1 DEF TypeOK
    <3>4. op[q].src \in Accounts /\ op[q].dst \in Accounts
      BY <3>3, RequestType
    <3>5. op[q].src # a /\ op[q].dst # a
      BY <2>2, <3>2, WalletAssumption
    <3> QED BY <2>1, <2>2, <3>2, <3>4, <3>5 DEF TypeOK
  <2> QED BY <2>4, <2>5
<1>4. ASSUME NEW p \in Procs, Return(p)
      PROVE  accLock'[op'[q].src] = q /\ accLock'[op'[q].dst] = q
  <2>1. q # p /\ pc[q] \in {"check", "write"} /\ op'[q] = op[q]
    BY <1>4, ReturnType
  <2>2. op[q] \in Requests
    BY <2>1 DEF TypeOK
  <2> QED BY <1>4, <2>1, <2>2, ReturnType, RequestType DEF LocksHeld
<1>5. ASSUME NEW p \in Procs, PassChecks(p)
      PROVE  accLock'[op'[q].src] = q /\ accLock'[op'[q].dst] = q
  BY <1>5 DEF PassChecks, TypeOK, LocksHeld
<1>6. ASSUME NEW p \in Procs, pc[p] # "idle", Restart(p)
      PROVE  accLock'[op'[q].src] = q /\ accLock'[op'[q].dst] = q
  <2>1. q # p /\ pc[q] \in {"check", "write"} /\ op'[q] = op[q]
    BY <1>6, RestartType
  <2>2. op[q] \in Requests
    BY <2>1 DEF TypeOK
  <2> QED BY <1>6, <2>1, <2>2, RestartType, RequestType DEF LocksHeld
<1>7. CASE UNCHANGED <<accLock, session>>
  BY <1>7 DEF session, LocksHeld
<1>8. ASSUME NEW p \in Procs,
             ReplayTransfer(p) \/ FailChecks(p) \/ Post(p) \/ AlreadyProcessed(p)
               \/ Abort(p) \/ DeadlockGiveUp(p)
      PROVE  Return(p)
  BY <1>8 DEF ReplayTransfer, FailChecks, Post, AlreadyProcessed, Abort, DeadlockGiveUp
<1>9. ASSUME NEW a \in Accounts, SetFrozen(a) \/ AgeVolume(a) PROVE UNCHANGED <<accLock, session>>
  BY <1>9 DEF SetFrozen, AgeVolume
<1>10. ASSUME NEW k \in Keys, NEW s \in {"COMPLETED", "FAILED"}, MarkPayout(k, s)
       PROVE  UNCHANGED <<accLock, session>>
  BY <1>10 DEF MarkPayout
<1>11. CASE UNCHANGED vars
  BY <1>7, <1>11 DEF vars
<1>12. ASSUME NEW p \in Procs, DeadlockRetry(p) \/ TransientError(p) \/ PostUnanswered(p)
       PROVE  pc[p] # "idle" /\ Restart(p)
  BY <1>12 DEF DeadlockRetry, TransientError, PostUnanswered, Entries, InCycle, WaitsFor
<1> QED BY <1>1, <1>2, <1>3, <1>4, <1>5, <1>6, <1>7, <1>8, <1>9, <1>10, <1>11, <1>12 DEF Next, Step

(* What a process at "write" checked stays true as long as nobody else      *)
(* touches its two accounts, except that its 24-hour volume may shrink.     *)
LEMMA MayPostStable ==
    ASSUME TypeOK, TypeOK', NEW q \in Procs, op[q] \in Requests, MayPost(q),
           op'[q] = op[q], seenFrozen'[q] = seenFrozen[q],
           credited'[op[q].src] = credited[op[q].src],
           debited'[op[q].src] = debited[op[q].src],
           volume'[op[q].src] <= volume[op[q].src],
           frozen'[op[q].src] = frozen[op[q].src],
           frozen'[op[q].dst] = frozen[op[q].dst]
    PROVE  MayPost(q)'
<1>1. Affordable(q)'
  <2>1. Debit(q)' = Debit(q)
    BY DEF Debit
  <2> QED BY <2>1 DEF MayPost, Affordable, Balance
<1>2. WithinLimit(q)'
  <2>1. /\ volume[op[q].src] \in Nat /\ volume'[op[q].src] \in Nat
        /\ op[q].amt \in Nat
    BY RequestType DEF TypeOK
  <2>2. volume[op[q].src] + op[q].amt <= DailyLimit
    BY DEF MayPost, WithinLimit
  <2>3. volume'[op[q].src] + op[q].amt <= DailyLimit
    BY <2>1, <2>2, WalletAssumption
  <2> QED BY <2>3 DEF WithinLimit
<1>3. NotFrozen(q)'
  BY DEF MayPost, NotFrozen, SenderFrozen
<1> QED BY <1>1, <1>2, <1>3 DEF MayPost

(* A process at "write" is the only one that can touch its accounts.        *)
LEMMA ChecksStep ==
    TypeOK /\ TypeOK' /\ LocksHeld /\ ChecksStillHold /\ [Next]_vars => ChecksStillHold'
<1> SUFFICES ASSUME TypeOK, TypeOK', LocksHeld, ChecksStillHold, [Next]_vars,
                    NEW q \in Procs, pc'[q] = "write"
             PROVE  MayPost(q)'
  BY DEF ChecksStillHold
<1>1. ASSUME NEW p \in Procs, PassChecks(p) PROVE MayPost(q)'
  <2>1. /\ UNCHANGED <<credited, debited, volume, frozen, op, seenFrozen>>
        /\ MayPost(q)
    BY <1>1 DEF PassChecks, ledger, TypeOK, ChecksStillHold
  <2> QED BY <2>1 DEF MayPost, Affordable, WithinLimit, NotFrozen, SenderFrozen, Balance, Debit
<1>2. ASSUME pc[q] = "write", op'[q] = op[q], seenFrozen'[q] = seenFrozen[q],
             UNCHANGED <<credited, debited, volume, frozen>>
      PROVE  MayPost(q)'
  <2>1. MayPost(q)
    BY <1>2 DEF ChecksStillHold
  <2> QED BY <1>2, <2>1 DEF MayPost, Affordable, WithinLimit, NotFrozen, SenderFrozen, Balance, Debit
<1>3. ASSUME NEW p \in Procs, Entries(p), Return(p) \/ Restart(p) PROVE MayPost(q)'
  <2>1. q # p /\ pc[q] = "write" /\ op'[q] = op[q] /\ seenFrozen'[q] = seenFrozen[q]
    BY <1>3, ReturnType, RestartType DEF Entries
  <2>2. op[q] \in Requests /\ op[p] \in Requests /\ MayPost(q)
    BY <1>3, <2>1 DEF Entries, TypeOK, ChecksStillHold
  <2>3. /\ accLock[op[q].src] = q /\ accLock[op[q].dst] = q
        /\ accLock[op[p].src] = p /\ accLock[op[p].dst] = p
    BY <1>3, <2>1 DEF Entries, LocksHeld
  <2>4. op[q].src # op[p].src /\ op[q].src # op[p].dst
    BY <2>1, <2>3
  <2>5. op[q].src \in Accounts /\ op[q].dst \in Accounts
    BY <2>2, RequestType
  <2>6. /\ credited'[op[q].src] = credited[op[q].src]
        /\ debited'[op[q].src] = debited[op[q].src]
        /\ volume'[op[q].src] = volume[op[q].src]
    BY <1>3, <2>4, <2>5 DEF Entries, TypeOK
  <2>7. volume'[op[q].src] <= volume[op[q].src]
    BY <2>5, <2>6 DEF TypeOK
  <2>8. frozen' = frozen
    BY <1>3 DEF Entries
  <2> QED BY <2>1, <2>2, <2>6, <2>7, <2>8, MayPostStable
<1>4. ASSUME NEW a \in Accounts, SetFrozen(a) PROVE MayPost(q)'
  <2>1. /\ pc[q] = "write" /\ op'[q] = op[q] /\ seenFrozen'[q] = seenFrozen[q]
        /\ UNCHANGED <<credited, debited, volume>>
    BY <1>4 DEF SetFrozen, ledger, session
  <2>2. op[q] \in Requests /\ MayPost(q)
    BY <2>1 DEF TypeOK, ChecksStillHold
  <2>3. op[q].src \in Accounts /\ op[q].dst \in Accounts
    BY <2>2, RequestType
  <2>4. op[q].src # a /\ op[q].dst # a
    BY <1>4, <2>1, WalletAssumption DEF LocksHeld, SetFrozen
  <2>5. frozen'[op[q].src] = frozen[op[q].src] /\ frozen'[op[q].dst] = frozen[op[q].dst]
    BY <1>4, <2>3, <2>4 DEF SetFrozen, TypeOK
  <2>6. volume'[op[q].src] <= volume[op[q].src]
    BY <2>1, <2>3 DEF TypeOK
  <2> QED BY <2>1, <2>2, <2>5, <2>6, MayPostStable
<1>5. ASSUME NEW a \in Accounts, AgeVolume(a) PROVE MayPost(q)'
  <2>1. /\ pc[q] = "write" /\ op'[q] = op[q] /\ seenFrozen'[q] = seenFrozen[q]
        /\ UNCHANGED <<credited, debited, frozen>>
    BY <1>5 DEF AgeVolume, session
  <2>2. op[q] \in Requests /\ MayPost(q)
    BY <2>1 DEF TypeOK, ChecksStillHold
  <2>3. op[q].src \in Accounts
    BY <2>2, RequestType
  <2>4. \A b \in Accounts : volume'[b] <= volume[b]
    BY <1>5 DEF AgeVolume, TypeOK
  <2> QED BY <2>1, <2>2, <2>3, <2>4, MayPostStable
<1>6. ASSUME NEW p \in Procs,
             ReplayTransfer(p) \/ FailChecks(p) \/ AlreadyProcessed(p)
               \/ Abort(p) \/ DeadlockGiveUp(p)
      PROVE  MayPost(q)'
  <2>1. Return(p) /\ UNCHANGED <<credited, debited, volume, frozen>>
    BY <1>6 DEF ReplayTransfer, FailChecks, AlreadyProcessed, Abort, DeadlockGiveUp, ledger
  <2>2. pc[q] = "write" /\ op'[q] = op[q] /\ seenFrozen'[q] = seenFrozen[q]
    BY <2>1, ReturnType
  <2> QED BY <1>2, <2>1, <2>2
<1>7. ASSUME NEW p \in Procs, NEW o \in Requests, Begin(p, o) PROVE MayPost(q)'
  <2>1. StartPc(o) # "write"
    BY DEF StartPc
  <2>2. /\ pc[q] = "write" /\ op'[q] = op[q] /\ seenFrozen'[q] = seenFrozen[q]
        /\ UNCHANGED <<credited, debited, volume, frozen>>
    BY <1>7, <2>1 DEF Begin, TypeOK, ledger
  <2> QED BY <1>2, <2>2
<1>8. ASSUME NEW p \in Procs, VerifyPin(p) \/ LockAccount(p) PROVE MayPost(q)'
  <2>1. /\ pc[q] = "write" /\ op'[q] = op[q] /\ seenFrozen'[q] = seenFrozen[q]
        /\ UNCHANGED <<credited, debited, volume, frozen>>
    BY <1>8 DEF VerifyPin, LockAccount, TypeOK, ledger
  <2> QED BY <1>2, <2>1
<1>9. ASSUME NEW p \in Procs, DeadlockRetry(p) \/ TransientError(p) PROVE MayPost(q)'
  <2>1. pc[p] # "idle" /\ Restart(p) /\ UNCHANGED <<credited, debited, volume, frozen>>
    BY <1>9 DEF DeadlockRetry, TransientError, InCycle, WaitsFor, ledger
  <2>2. pc[q] = "write" /\ op'[q] = op[q] /\ seenFrozen'[q] = seenFrozen[q]
    BY <2>1, RestartType
  <2> QED BY <1>2, <2>1, <2>2
<1>10. ASSUME NEW k \in Keys, NEW s \in {"COMPLETED", "FAILED"}, MarkPayout(k, s)
       PROVE  MayPost(q)'
  BY <1>2, <1>10 DEF MarkPayout, session
<1>11. CASE UNCHANGED vars
  BY <1>2, <1>11 DEF vars, ledger, session
<1> QED BY <1>1, <1>3, <1>4, <1>5, <1>6, <1>7, <1>8, <1>9, <1>10, <1>11
        DEF Next, Step, Post, PostUnanswered

-----------------------------------------------------------------------------
(* The step that commits a posting, in numbers: the only one that changes   *)
(* the sums of an account.                                                  *)
LEMMA PostEffect ==
    ASSUME TypeOK, ChecksStillHold, NEW p \in Procs, Entries(p), NEW a \in Accounts
    PROVE  /\ credited[a] <= credited'[a]
           /\ debited'[a] # debited[a] => debited'[a] <= credited[a]
           /\ \/ volume'[a] = volume[a]
              \/ \E f \in Fees \cup {0} : volume'[a] <= DailyLimit + f
<1> DEFINE s == op[p].src
           d == op[p].dst
<1>1. op[p] \in Requests /\ MayPost(p)
  BY DEF Entries, TypeOK, ChecksStillHold
<1>2. /\ s \in Accounts /\ d \in Accounts /\ op[p].amt \in Nat /\ op[p].fee \in Nat
      /\ op[p].fee \in Fees \cup {0}
      /\ Credit(p) \in Nat /\ Debit(p) \in Nat
      /\ Debit(p) <= op[p].amt + op[p].fee
  BY <1>1, RequestType DEF Credit, Debit
<1>3. /\ credited' = [credited EXCEPT ![d] = @ + Credit(p)]
      /\ debited' = [debited EXCEPT ![s] = @ + Debit(p)]
      /\ volume' = [volume EXCEPT ![s] = @ + Debit(p)]
  BY DEF Entries
<1>4. /\ credited[a] \in Nat /\ debited[a] \in Nat /\ volume[a] \in Nat
  BY DEF TypeOK
<1>5. credited'[a] = IF a = d THEN credited[a] + Credit(p) ELSE credited[a]
  BY <1>3 DEF TypeOK
<1>6. /\ debited'[a] = IF a = s THEN debited[a] + Debit(p) ELSE debited[a]
      /\ volume'[a] = IF a = s THEN volume[a] + Debit(p) ELSE volume[a]
  BY <1>3 DEF TypeOK
<1>7. credited[a] <= credited'[a]
  BY <1>2, <1>4, <1>5
<1>8. debited'[a] # debited[a] => debited'[a] <= credited[a]
  <2>1. ASSUME a = s, Debit(p) # 0 PROVE debited[a] + Debit(p) <= credited[a]
    <3>1. op[p].kind # "deposit"
      BY <2>1 DEF Debit
    <3>2. credited[s] - debited[s] >= Debit(p)
      BY <1>1, <3>1 DEF MayPost, Affordable, Balance
    <3> QED BY <1>2, <1>4, <2>1, <3>2
  <2> QED BY <1>2, <1>4, <1>6, <2>1
<1>9. volume'[a] = volume[a] \/ \E f \in Fees \cup {0} : volume'[a] <= DailyLimit + f
  <2>1. ASSUME a = s PROVE volume[a] + Debit(p) <= DailyLimit + op[p].fee
    <3>1. volume[a] + op[p].amt <= DailyLimit
      BY <1>1, <2>1 DEF MayPost, WithinLimit
    <3> QED BY <1>2, <1>4, <3>1, WalletAssumption
  <2> QED BY <1>2, <1>6, <2>1
<1> QED BY <1>7, <1>8, <1>9

(* No step takes a balance below zero or the volume of a day above the      *)
(* ceiling by more than a fee.                                              *)
LEMMA LedgerStep ==
    TypeOK /\ TypeOK' /\ ChecksStillHold /\ NoOverdraft /\ DailyCeiling /\ [Next]_vars
        => NoOverdraft' /\ DailyCeiling'
<1> SUFFICES ASSUME TypeOK, TypeOK', ChecksStillHold, NoOverdraft, DailyCeiling, [Next]_vars
             PROVE  NoOverdraft' /\ DailyCeiling'
  OBVIOUS
<1>1. ASSUME NEW p \in Procs, Entries(p) PROVE NoOverdraft' /\ DailyCeiling'
  <2> SUFFICES ASSUME NEW a \in Accounts
               PROVE  /\ debited'[a] <= credited'[a]
                      /\ \E f \in Fees \cup {0} : volume'[a] <= DailyLimit + f
    BY DEF NoOverdraft, DailyCeiling
  <2>1. /\ credited[a] \in Nat /\ debited[a] \in Nat
        /\ credited'[a] \in Nat /\ debited'[a] \in Nat
        /\ debited[a] <= credited[a]
        /\ \E f \in Fees \cup {0} : volume[a] <= DailyLimit + f
    BY DEF TypeOK, NoOverdraft, DailyCeiling
  <2> QED BY <1>1, <2>1, PostEffect
<1>2. ASSUME NEW a \in Accounts, AgeVolume(a) PROVE NoOverdraft' /\ DailyCeiling'
  <2>1. \A b \in Accounts : volume'[b] \in Nat /\ volume[b] \in Nat /\ volume'[b] <= volume[b]
    BY <1>2 DEF AgeVolume, TypeOK
  <2>2. DailyCeiling'
    BY <2>1, WalletAssumption, Numbers DEF DailyCeiling
  <2> QED BY <1>2, <2>2 DEF AgeVolume, NoOverdraft
<1>3. ASSUME UNCHANGED <<credited, debited, volume>> PROVE NoOverdraft' /\ DailyCeiling'
  BY <1>3 DEF NoOverdraft, DailyCeiling
<1>4. CASE UNCHANGED vars
  BY <1>3, <1>4 DEF vars, ledger
<1>5. ASSUME NEW p \in Procs, ~Entries(p),
             \/ Step(p) \/ Abort(p) \/ TransientError(p) \/ PostUnanswered(p)
             \/ \E o \in Requests : Begin(p, o)
      PROVE  UNCHANGED <<credited, debited, volume>>
  BY <1>5 DEF Step, Post, PostUnanswered, TransientError, Abort, Begin, VerifyPin, LockAccount, ReplayTransfer, PassChecks, FailChecks,
              AlreadyProcessed, DeadlockRetry, DeadlockGiveUp, ledger
<1>6. ASSUME NEW a \in Accounts, SetFrozen(a) PROVE UNCHANGED <<credited, debited, volume>>
  BY <1>6 DEF SetFrozen, ledger
<1>7. ASSUME NEW k \in Keys, NEW s \in {"COMPLETED", "FAILED"}, MarkPayout(k, s)
      PROVE  UNCHANGED <<credited, debited, volume>>
  BY <1>7 DEF MarkPayout
<1> QED BY <1>1, <1>2, <1>3, <1>4, <1>5, <1>6, <1>7 DEF Next

(* The inductive invariant.                                                 *)
WalletInv ==
    /\ TypeOK /\ LocksHeld /\ ChecksStillHold /\ NoOverdraft /\ DailyCeiling

(* The invariant holds in every reachable state.                            *)
THEOREM WalletInvariant == Spec => []WalletInv
<1>1. Init => WalletInv
  <2> SUFFICES ASSUME Init PROVE WalletInv
    OBVIOUS
  <2>1. TypeOK
    BY WalletAssumption DEF Init, TypeOK
  <2>2. NoOverdraft
    BY WalletAssumption DEF Init, NoOverdraft
  <2>3. DailyCeiling
    BY WalletAssumption DEF Init, DailyCeiling
  <2>4. LocksHeld /\ ChecksStillHold
    BY DEF Init, LocksHeld, ChecksStillHold
  <2> QED BY <2>1, <2>2, <2>3, <2>4 DEF WalletInv
<1>2. WalletInv /\ [Next]_vars => WalletInv'
  BY TypeStep, LocksStep, ChecksStep, LedgerStep DEF WalletInv
<1> QED BY <1>1, <1>2, PTL DEF Spec

(* No account is ever overdrawn, however deposits, withdrawals, transfers,  *)
(* retries and payout webhooks interleave.                                  *)
THEOREM WalletNeverOverdrawn == Spec => []NoOverdraft
<1>1. WalletInv => NoOverdraft
  BY DEF WalletInv
<1> QED BY <1>1, WalletInvariant, PTL

(* Balance, limit and freeze checks are still valid at the write that       *)
(* relies on them.                                                          *)
THEOREM WalletChecksValid == Spec => []ChecksStillHold
<1>1. WalletInv => ChecksStillHold
  BY DEF WalletInv
<1> QED BY <1>1, WalletInvariant, PTL

(* The debits of 24 hours exceed max_daily_amount by at most one fee.       *)
THEOREM WalletDailyCeiling == Spec => []DailyCeiling
<1>1. WalletInv => DailyCeiling
  BY DEF WalletInv
<1> QED BY <1>1, WalletInvariant, PTL

-----------------------------------------------------------------------------
(* The transactions table and the ledger stay in step.                      *)
LEMMA PostingStep ==
    TypeOK /\ OnePosting /\ FailedAreWithdrawals /\ [Next]_vars
        => OnePosting' /\ FailedAreWithdrawals'
<1> SUFFICES ASSUME TypeOK, OnePosting, FailedAreWithdrawals, [Next]_vars
             PROVE  OnePosting' /\ FailedAreWithdrawals'
  OBVIOUS
<1>1. ASSUME NEW p \in Procs, Entries(p) PROVE OnePosting' /\ FailedAreWithdrawals'
  <2> DEFINE k == op[p].key
             row == WithStatus(RowOf(p), "COMPLETED")
  <2>1. op[p] \in Requests /\ k \in Keys
    BY <1>1, RequestType DEF Entries, TypeOK
  <2>2. tx' = [tx EXCEPT ![k] = row] /\ posted' = [posted EXCEPT ![k] = @ + 1]
    BY <1>1 DEF Entries
  <2>3. row.status = "COMPLETED" /\ row.kind = RowOf(p).kind
    BY DEF WithStatus
  <2>4. row \in TxRow
    <3>1. CASE tx[k] # NoTx
      <4>1. tx[k] \in TxRow
        BY <2>1, <3>1 DEF TypeOK
      <4> QED BY <3>1, <4>1 DEF WithStatus, RowOf, TxRow
    <3>2. CASE tx[k] = NoTx
      BY <2>1, <3>2, RequestType DEF WithStatus, RowOf, TxRow
    <3> QED BY <3>1, <3>2
  <2>5. row # NoTx
    BY <2>4, RowAssumption
  <2>6. posted'[k] # 0 /\ (row.kind # "withdraw" => posted'[k] = 1)
    <3>1. CASE tx[k] = NoTx
      BY <2>1, <2>2, <3>1 DEF OnePosting, TypeOK
    <3>2. CASE tx[k] # NoTx
      <4>1. tx[k].status = "FAILED"
        BY <1>1, <2>1, <3>2 DEF Entries, Completed, TypeOK, TxRow
      <4>2. row.kind = "withdraw"
        BY <2>1, <2>3, <3>2, <4>1 DEF FailedAreWithdrawals, RowOf
      <4>3. posted[k] \in Nat /\ posted'[k] = posted[k] + 1
        BY <2>1, <2>2 DEF TypeOK
      <4> QED BY <4>2, <4>3
    <3> QED BY <3>1, <3>2
  <2>7. /\ \A j \in Keys \ {k} : tx'[j] = tx[j] /\ posted'[j] = posted[j]
        /\ tx'[k] = row
    BY <2>1, <2>2 DEF TypeOK
  <2> HIDE DEF row
  <2> QED BY <2>3, <2>5, <2>6, <2>7 DEF OnePosting, FailedAreWithdrawals
<1>2. ASSUME NEW k \in Keys, NEW s \in {"COMPLETED", "FAILED"}, MarkPayout(k, s)
      PROVE  OnePosting' /\ FailedAreWithdrawals'
  <2> DEFINE row == WithStatus(tx[k], s)
  <2>1. tx[k] \in TxRow /\ tx[k] # NoTx /\ tx[k].kind = "withdraw"
    BY <1>2 DEF MarkPayout, TypeOK
  <2>2. row \in TxRow /\ row.kind = "withdraw"
    BY <2>1 DEF WithStatus, TxRow
  <2>3. row # NoTx
    BY <2>2, RowAssumption
  <2>4. /\ \A j \in Keys \ {k} : tx'[j] = tx[j]
        /\ tx'[k] = row /\ posted' = posted
    BY <1>2 DEF MarkPayout, TypeOK
  <2> HIDE DEF row
  <2> QED BY <2>1, <2>2, <2>3, <2>4 DEF OnePosting, FailedAreWithdrawals
<1>3. ASSUME UNCHANGED <<tx, posted>> PROVE OnePosting' /\ FailedAreWithdrawals'
  BY <1>3 DEF OnePosting, FailedAreWithdrawals
<1>4. CASE UNCHANGED vars
  BY <1>3, <1>4 DEF vars, ledger
<1>5. ASSUME NEW p \in Procs, ~Entries(p),
             \/ Step(p) \/ Abort(p) \/ TransientError(p) \/ PostUnanswered(p)
             \/ \E o \in Requests : Begin(p, o)
      PROVE  UNCHANGED <<tx, posted>>
  BY <1>5 DEF Step, Post, PostUnanswered, TransientError, Abort, Begin, VerifyPin, LockAccount, ReplayTransfer, PassChecks, FailChecks,
              AlreadyProcessed, DeadlockRetry, DeadlockGiveUp, ledger
<1>6. ASSUME NEW a \in Accounts, SetFrozen(a) \/ AgeVolume(a) PROVE UNCHANGED <<tx, posted>>
  BY <1>6 DEF SetFrozen, AgeVolume, ledger
<1> QED BY <1>1, <1>2, <1>3, <1>4, <1>5, <1>6 DEF Next

PostingInv == TypeOK /\ OnePosting /\ FailedAreWithdrawals

(* Rows and entries agree in every reachable state.                         *)
THEOREM PostingInvariant == Spec => []PostingInv
<1>1. Init => PostingInv
  <2> SUFFICES ASSUME Init PROVE PostingInv
    OBVIOUS
  <2>1. TypeOK
    BY WalletAssumption DEF Init, TypeOK
  <2>2. OnePosting /\ FailedAreWithdrawals
    BY DEF Init, OnePosting, FailedAreWithdrawals
  <2> QED BY <2>1, <2>2 DEF PostingInv
<1>2. PostingInv /\ [Next]_vars => PostingInv'
  BY TypeStep, PostingStep DEF PostingInv
<1> QED BY <1>1, <1>2, PTL DEF Spec

(* A deposit or transfer is posted exactly once per client_request_id, and  *)
(* no transaction row exists without entries nor entries without a row.     *)
THEOREM WalletOnePosting == Spec => []OnePosting
<1>1. PostingInv => OnePosting
  BY DEF PostingInv
<1> QED BY <1>1, PostingInvariant, PTL

-----------------------------------------------------------------------------
(* Money that moves on a frozen account moves in the write of a call that   *)
(* was let past the freeze check by the copy of the sender it had loaded.   *)
LEMMA FrozenStep ==
    ASSUME TypeOK, ChecksStillHold, [Next]_vars, NEW a \in Accounts, frozen[a], Moves(a)
    PROVE  \E p \in Procs : /\ pc[p] = "write" /\ pc'[p] # "write"
                            /\ op[p].pin /\ op[p].src = a /\ ~seenFrozen[p]
<1>1. ~UNCHANGED <<credited, debited>>
  BY DEF Moves
<1>2. PICK p \in Procs : Post(p) \/ PostUnanswered(p)
  <2>1. ASSUME NEW p \in Procs, ~Post(p), ~PostUnanswered(p),
               \/ Step(p) \/ Abort(p) \/ TransientError(p) \/ PostUnanswered(p)
               \/ \E o \in Requests : Begin(p, o)
        PROVE  UNCHANGED <<credited, debited>>
    BY <2>1 DEF Step, TransientError, Abort, Begin, VerifyPin, LockAccount, ReplayTransfer,
                PassChecks, FailChecks, AlreadyProcessed, DeadlockRetry, DeadlockGiveUp, ledger
  <2>2. ASSUME NEW b \in Accounts, SetFrozen(b) \/ AgeVolume(b)
        PROVE  UNCHANGED <<credited, debited>>
    BY <2>2 DEF SetFrozen, AgeVolume, ledger
  <2>3. ASSUME NEW k \in Keys, NEW s \in {"COMPLETED", "FAILED"}, MarkPayout(k, s)
        PROVE  UNCHANGED <<credited, debited>>
    BY <2>3 DEF MarkPayout
  <2>4. CASE UNCHANGED vars
    BY <1>1, <2>4 DEF vars, ledger
  <2> QED BY <1>1, <2>1, <2>2, <2>3, <2>4 DEF Next
<1>3. pc[p] = "write" /\ Entries(p) /\ op[p] \in Requests /\ NotFrozen(p)
  BY <1>2 DEF Post, PostUnanswered, Entries, TypeOK, ChecksStillHold, MayPost
<1>4. pc'[p] # "write"
  BY <1>2 DEF Post, PostUnanswered, Return, Restart, StartPc, TypeOK
<1>5. a = op[p].src \/ (op[p].kind = "transfer" /\ a = op[p].dst)
  <2>1. a = op[p].src \/ a = op[p].dst
    BY <1>3 DEF Entries, Moves, TypeOK
  <2> QED BY <1>3, <2>1, RequestType
<1>6. a = op[p].src /\ ~SenderFrozen(p)
  BY <1>3, <1>5 DEF NotFrozen
<1>7. op[p].pin /\ ~seenFrozen[p]
  BY <1>3, <1>6, RequestType DEF SenderFrozen
<1> QED BY <1>3, <1>4, <1>6, <1>7

(* A freeze can be overtaken in one way only: by a PIN-authorised transfer  *)
(* out of the account that had loaded it before the freeze.                 *)
THEOREM FrozenOnlyIfStale == Spec => FrozenMovesOnlyIfStale
<1>1. WalletInv /\ [Next]_vars =>
        [\A a \in Accounts : frozen[a] /\ Moves(a) =>
           \E p \in Procs : /\ pc[p] = "write" /\ pc'[p] # "write"
                            /\ op[p].pin /\ op[p].src = a /\ ~seenFrozen[p]]_vars
  BY FrozenStep DEF WalletInv
<1> QED BY <1>1, WalletInvariant, PTL DEF Spec, FrozenMovesOnlyIfStale

-----------------------------------------------------------------------------
(* The posting step of a call is one step of the abstract ledger.           *)
LEMMA EntriesImplement ==
    ASSUME TypeOK, ChecksStillHold, FailedAreWithdrawals, NEW p \in Procs, Entries(p)
    PROVE  L!Next
<1>0. PICK k, s, d, n, f : op[p].key = k /\ op[p].src = s /\ op[p].dst = d
                             /\ op[p].amt = n /\ op[p].fee = f
  OBVIOUS
<1> DEFINE row == WithStatus(RowOf(p), "COMPLETED")
           bal == [a \in Accounts |-> Balance(a)]
           spt == {j \in Keys : Completed(j)}
           pay == {j \in Keys : tx[j] # NoTx /\ tx[j].kind = "withdraw"}
           reo == {j \in Keys : tx[j] # NoTx /\ tx[j].status = "FAILED"}
<1>1. op[p] \in Requests /\ MayPost(p) /\ ~Completed(k)
  BY <1>0 DEF Entries, TypeOK, ChecksStillHold
<1>2. /\ s \in Accounts /\ d \in Accounts /\ k \in Keys
      /\ n \in Amounts /\ n \in Nat
      /\ f \in Fees \cup {0} /\ f \in Nat
  BY <1>0, <1>1, RequestType
<1>3. /\ tx' = [tx EXCEPT ![k] = row]
      /\ credited' = [credited EXCEPT ![d] = @ + Credit(p)]
      /\ debited' = [debited EXCEPT ![s] = @ + Debit(p)]
  BY <1>0 DEF Entries
<1>4. row \in TxRow /\ row.status = "COMPLETED"
      /\ row.kind = IF tx[k] = NoTx THEN op[p].kind ELSE tx[k].kind
  <2>1. CASE tx[k] # NoTx
    <3>1. tx[k] \in TxRow
      BY <1>2, <2>1 DEF TypeOK
    <3> QED BY <1>0, <2>1, <3>1 DEF WithStatus, RowOf, TxRow
  <2>2. CASE tx[k] = NoTx
    BY <1>0, <1>1, <2>2, RequestType DEF WithStatus, RowOf, TxRow
  <2> QED BY <2>1, <2>2
<1>5. row # NoTx
  BY <1>4, RowAssumption
<1> HIDE DEF row
<1>6. /\ tx'[k] = row
      /\ \A j \in Keys \ {k} : tx'[j] = tx[j]
  BY <1>2, <1>3 DEF TypeOK
<1>7. /\ k \notin spt
      /\ spt' = spt \cup {k}
      /\ reo' = reo \ {k}
  BY <1>1, <1>2, <1>4, <1>5, <1>6 DEF Completed
<1>8. pay' = IF op[p].kind = "withdraw" THEN pay \cup {k} ELSE pay
  <2>1. tx[k] # NoTx => tx[k].kind = "withdraw"
    BY <1>1, <1>2 DEF Completed, FailedAreWithdrawals, TypeOK, TxRow
  <2>2. k \in pay' <=> (k \in pay \/ op[p].kind = "withdraw")
    BY <1>2, <1>4, <1>5, <1>6, <2>1
  <2>3. \A j \in Keys \ {k} : j \in pay' <=> j \in pay
    BY <1>6
  <2> QED BY <1>2, <2>2, <2>3
<1>9. /\ \A a \in Accounts : credited[a] \in Nat /\ debited[a] \in Nat
      /\ bal \in [Accounts -> Int]
      /\ Credit(p) \in Nat /\ Debit(p) \in Nat
  BY <1>0, <1>2 DEF TypeOK, Balance, Credit, Debit
<1>10. \A a \in Accounts :
          bal'[a] = bal[a] + (IF a = d THEN Credit(p) ELSE 0) - (IF a = s THEN Debit(p) ELSE 0)
  <2> SUFFICES ASSUME NEW a \in Accounts
               PROVE  Balance(a)' = Balance(a) + (IF a = d THEN Credit(p) ELSE 0)
                                               - (IF a = s THEN Debit(p) ELSE 0)
    OBVIOUS
  <2>1. credited'[a] = IF a = d THEN credited[a] + Credit(p) ELSE credited[a]
    BY <1>2, <1>3 DEF TypeOK
  <2>2. debited'[a] = IF a = s THEN debited[a] + Debit(p) ELSE debited[a]
    BY <1>2, <1>3 DEF TypeOK
  <2> QED BY <1>9, <2>1, <2>2 DEF Balance
<1>11. bal' = [a \in Accounts |-> bal'[a]]
  OBVIOUS
<1>12. op[p].kind # "deposit" => bal[s] >= Debit(p)
  BY <1>0, <1>1, <1>2 DEF MayPost, Affordable
<1> HIDE DEF bal
<1>13. CASE op[p].kind = "deposit"
  <2>1. s = d /\ Credit(p) = n /\ Debit(p) = 0
    BY <1>0, <1>1, <1>13, RequestType DEF Credit, Debit
  <2>2. bal' = [bal EXCEPT ![d] = @ + n]
    BY <1>2, <1>9, <1>10, <1>11, <2>1
  <2>3. L!Deposit(k, d, n)
    BY <1>7, <1>8, <1>13, <2>2 DEF L!Deposit, L!Use, bal
  <2> QED BY <1>2, <2>3 DEF L!Next
<1>14. CASE op[p].kind = "withdraw"
  <2>1. s = d /\ Credit(p) = 0 /\ Debit(p) = n
    BY <1>0, <1>1, <1>2, <1>14, RequestType DEF Credit, Debit
  <2>2. bal' = [bal EXCEPT ![s] = @ - n]
    BY <1>2, <1>9, <1>10, <1>11, <2>1
  <2>3. bal[s] >= n
    BY <1>12, <2>1, <1>14
  <2>4. L!Withdraw(k, s, n)
    BY <1>7, <1>8, <1>14, <2>2, <2>3 DEF L!Withdraw, L!Use, bal
  <2> QED BY <1>2, <2>4 DEF L!Next
<1>15. CASE op[p].kind = "transfer"
  <2>1. s # d /\ Credit(p) = n /\ Debit(p) = n + f
    BY <1>0, <1>1, <1>15, RequestType DEF Credit, Debit
  <2>2. bal' = [bal EXCEPT ![s] = @ - (n + f), ![d] = @ + n]
    BY <1>2, <1>9, <1>10, <1>11, <2>1
  <2>3. bal[s] >= n + f
    BY <1>12, <2>1, <1>15
  <2>4. L!Transfer(k, s, d, n, f)
    BY <1>7, <1>8, <1>15, <2>1, <2>2, <2>3 DEF L!Transfer, L!Use, bal
  <2> QED BY <1>2, <2>4 DEF L!Next
<1> QED BY <1>1, <1>13, <1>14, <1>15, RequestType

(* A payout report reopens or settles a withdrawal's key, or changes        *)
(* nothing.                                                                 *)
LEMMA MarkPayoutImplements ==
    ASSUME TypeOK, NEW k \in Keys, NEW s \in {"COMPLETED", "FAILED"}, MarkPayout(k, s)
    PROVE  [L!Next]_(L!vars)
<1> DEFINE row == WithStatus(tx[k], s)
           spt == {j \in Keys : Completed(j)}
           pay == {j \in Keys : tx[j] # NoTx /\ tx[j].kind = "withdraw"}
           reo == {j \in Keys : tx[j] # NoTx /\ tx[j].status = "FAILED"}
<1>1. tx[k] \in TxRow /\ tx[k] # NoTx /\ tx[k].kind = "withdraw"
  BY DEF MarkPayout, TypeOK
<1>2. row \in TxRow /\ row.kind = "withdraw" /\ row.status = s
  BY <1>1 DEF WithStatus, TxRow
<1>3. row # NoTx
  BY <1>2, RowAssumption
<1>4. /\ tx'[k] = row
      /\ \A j \in Keys \ {k} : tx'[j] = tx[j]
      /\ credited' = credited /\ debited' = debited
  BY DEF MarkPayout, TypeOK
<1> HIDE DEF row
<1>5. [a \in Accounts |-> Balance(a)]' = [a \in Accounts |-> Balance(a)]
  BY <1>4 DEF Balance
<1>6. pay' = pay /\ k \in pay
  BY <1>1, <1>2, <1>3, <1>4
<1>7. CASE s = "FAILED"
  <2>1. spt' = spt \ {k} /\ reo' = reo \cup {k}
    BY <1>2, <1>3, <1>4, <1>7 DEF Completed
  <2>2. CASE k \in spt
    <3>1. L!Reopen(k)
      BY <1>5, <1>6, <2>1, <2>2 DEF L!Reopen
    <3> QED BY <3>1 DEF L!Next
  <2>3. CASE k \notin spt
    <3>1. k \in reo
      BY <1>1, <2>3 DEF Completed, TxRow
    <3> QED BY <1>5, <1>6, <2>1, <2>3, <3>1 DEF L!vars
  <2> QED BY <2>2, <2>3
<1>8. CASE s = "COMPLETED"
  <2>1. spt' = spt \cup {k} /\ reo' = reo \ {k}
    BY <1>2, <1>3, <1>4, <1>8 DEF Completed
  <2>2. CASE k \in reo
    <3>1. L!Settle(k)
      BY <1>5, <1>6, <2>1, <2>2 DEF L!Settle
    <3> QED BY <3>1 DEF L!Next
  <2>3. CASE k \notin reo
    <3>1. k \in spt
      BY <1>1, <2>3 DEF Completed, TxRow
    <3> QED BY <1>5, <1>6, <2>1, <2>3, <3>1 DEF L!vars
  <2> QED BY <2>2, <2>3
<1> QED BY <1>7, <1>8

(* The wallet implements the ledger it promises: whatever handlers, the     *)
(* retry wrapper, the deadlock detector and payout reports do, requests     *)
(* take effect one at a time, once per key and never below zero.            *)
THEOREM WalletImplementsLedger == Spec => ImplementsLedger
<1>1. Init => L!Init
  <2> SUFFICES ASSUME Init PROVE L!Init
    OBVIOUS
  <2>1. [a \in Accounts |-> Balance(a)] = [a \in Accounts |-> Opening]
    BY WalletAssumption DEF Init, Balance
  <2>2. \A k \in Keys : tx[k] = NoTx
    BY DEF Init
  <2> QED BY <2>1, <2>2 DEF L!Init, Completed
<1>2. ASSUME WalletInv, PostingInv, [Next]_vars PROVE [L!Next]_(L!vars)
  <2> USE DEF WalletInv, PostingInv
  <2>1. ASSUME NEW p \in Procs, Entries(p) PROVE L!Next
    BY <1>2, <2>1, EntriesImplement
  <2>2. ASSUME NEW k \in Keys, NEW s \in {"COMPLETED", "FAILED"}, MarkPayout(k, s)
        PROVE  [L!Next]_(L!vars)
    BY <1>2, <2>2, MarkPayoutImplements
  <2>3. ASSUME UNCHANGED <<credited, debited, tx>> PROVE UNCHANGED L!vars
    BY <2>3 DEF L!vars, Balance, Completed
  <2>4. CASE UNCHANGED vars
    BY <2>3, <2>4 DEF vars, ledger
  <2>5. ASSUME NEW p \in Procs, ~Entries(p),
               \/ Step(p) \/ Abort(p) \/ TransientError(p) \/ PostUnanswered(p)
               \/ \E o \in Requests : Begin(p, o)
        PROVE  UNCHANGED <<credited, debited, tx>>
    BY <2>5 DEF Step, Post, PostUnanswered, TransientError, Abort, Begin, VerifyPin, LockAccount,
                ReplayTransfer, PassChecks, FailChecks, AlreadyProcessed, DeadlockRetry,
                DeadlockGiveUp, ledger
  <2>6. ASSUME NEW a \in Accounts, SetFrozen(a) \/ AgeVolume(a)
        PROVE  UNCHANGED <<credited, debited, tx>>
    BY <2>6 DEF SetFrozen, AgeVolume, ledger
  <2> QED BY <1>2, <2>1, <2>2, <2>3, <2>4, <2>5, <2>6 DEF Next
<1> QED BY <1>1, <1>2, WalletInvariant, PostingInvariant, PTL DEF Spec, ImplementsLedger, L!Spec

=============================================================================
