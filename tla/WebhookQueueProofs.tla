------------------------- MODULE WebhookQueueProofs -------------------------
(***************************************************************************)
(* Theorems about WebhookQueue, for any number of workers, events, faults   *)
(* and requests of administrators.                                          *)
(*                                                                          *)
(* The two safety properties are not inductive.  A worker whose copy of the *)
(* row already has the outcome it is about to store writes nothing, so an   *)
(* event that is "processing" needs a worker whose write will have effect   *)
(* (Owned); and a count that a worker has loaded and not written yet is a   *)
(* lower bound of the attempts that failed (CountsEarned).                  *)
(***************************************************************************)
EXTENDS WebhookQueue, TLAPS

(* The outcome the worker stores will replace "processing".                 *)
Effective(w) == loaded[w].status \in {"none", "processing"}

(* Some worker will take the event out of "processing".                     *)
Owned ==
    \A e \in Events : status[e] = "processing" =>
        e \in orphaned \/ \E w \in Workers : cur[w] = e /\ Effective(w)

(* A worker between two events has nothing loaded.                          *)
FreshCopies == \A w \in Workers : cur[w] = NoEvent => loaded[w] = Expired

(* At least n attempts failed, as far as MaxAttempts is concerned.          *)
Earned(e, n) == failures[e] = MaxAttempts \/ n <= failures[e]

CountsEarned ==
    /\ \A e \in Events : Earned(e, retries[e])
    /\ \A w \in Workers : pc[w] = "fail" => Earned(cur[w], Attempts(w))

IInv == TypeOK /\ Owned /\ FreshCopies /\ CountsEarned /\ DeadLetterEarned

-----------------------------------------------------------------------------
(* Every assignment to a status replaces it or leaves it as it is.          *)
LEMMA FlushedCases ==
    ASSUME NEW old, NEW new, NEW now
    PROVE  Flushed(old, new, now) \in {new, now}
BY DEF Flushed

(* In the beginning there are no events and no workers at work.             *)
LEMMA InitIInv == Init => IInv
<1> SUFFICES ASSUME Init PROVE IInv
  OBVIOUS
<1>1. TypeOK
  BY QueueAssumption DEF Init, TypeOK, Statuses, Rows, Expired
<1>2. Owned /\ FreshCopies /\ DeadLetterEarned
  BY DEF Init, Owned, FreshCopies, DeadLetterEarned
<1>3. CountsEarned
  BY QueueAssumption DEF Init, CountsEarned, Earned
<1>4. QED
  BY <1>1, <1>2, <1>3 DEF IInv

-----------------------------------------------------------------------------
(* One lemma for each action.                                               *)

(* A delivery, a withdrawal and the end of a backoff touch no worker.       *)
LEMMA EnqueueIInv ==
    ASSUME IInv, NEW e \in Events, Enqueue(e)
    PROVE  IInv'
<1> USE DEF Enqueue, worker, admin, history, wallet, IInv
<1>1. TypeOK'
  BY DEF TypeOK, Statuses
<1>2. Owned' /\ FreshCopies' /\ DeadLetterEarned'
  BY DEF TypeOK, Owned, Effective, FreshCopies, DeadLetterEarned
<1>3. CountsEarned'
  BY DEF TypeOK, CountsEarned, Earned, Attempts
<1>4. QED
  BY <1>1, <1>2, <1>3

LEMMA WithdrawIInv ==
    ASSUME IInv, NEW k \in Keys, Withdraw(k)
    PROVE  IInv'
<1> USE DEF Withdraw, rows, worker, admin, history, IInv
<1>1. TypeOK'
  BY DEF TypeOK
<1>2. Owned' /\ FreshCopies' /\ DeadLetterEarned'
  BY DEF Owned, Effective, FreshCopies, DeadLetterEarned
<1>3. CountsEarned'
  BY DEF CountsEarned, Earned, Attempts
<1>4. QED
  BY <1>1, <1>2, <1>3

LEMMA BackoffEndsIInv ==
    ASSUME IInv, NEW e \in Events, BackoffEnds(e)
    PROVE  IInv'
<1> USE DEF BackoffEnds, worker, admin, history, wallet, IInv
<1>1. TypeOK'
  BY DEF TypeOK
<1>2. Owned' /\ FreshCopies' /\ DeadLetterEarned'
  BY DEF Owned, Effective, FreshCopies, DeadLetterEarned
<1>3. CountsEarned'
  BY DEF CountsEarned, Earned, Attempts
<1>4. QED
  BY <1>1, <1>2, <1>3

(* A claim locks rows and changes none.                                     *)
LEMMA ClaimIInv ==
    ASSUME IInv, NEW w \in Workers, Claim(w)
    PROVE  IInv'
<1> USE DEF rows, admin, history, wallet, IInv
<1> DEFINE Open == {e \in Events : Eligible(e) /\ ~Locked(e)}
<1>1. PICK S \in SUBSET Events :
        /\ pc[w] = "idle"
        /\ batch' = [batch EXCEPT ![w] = S] /\ locked' = [locked EXCEPT ![w] = S]
        /\ pc' = [pc EXCEPT ![w] = "mark"]
        /\ UNCHANGED <<rows, cur, loaded, admin, faults, history, wallet>>
  BY DEF Claim
<1>2. TypeOK'
  BY <1>1 DEF TypeOK
<1>3. Owned' /\ FreshCopies' /\ DeadLetterEarned'
  BY <1>1 DEF Owned, Effective, FreshCopies, DeadLetterEarned
<1>4. CountsEarned'
  BY <1>1 DEF TypeOK, CountsEarned, Earned, Attempts
<1>5. QED
  BY <1>2, <1>3, <1>4

(* The worker that marks an event owns it: its copy is expired.             *)
LEMMA MarkIInv ==
    ASSUME IInv, NEW w \in Workers, NEW e \in Events, Mark(w, e)
    PROVE  IInv'
<1> USE DEF Mark, admin, history, wallet, IInv
<1>1. TypeOK'
  BY QueueAssumption DEF TypeOK, Statuses
<1>2. loaded[w] = Expired
  BY DEF TypeOK, FreshCopies
<1>3. Owned'
  <2> SUFFICES ASSUME NEW f \in Events, status'[f] = "processing"
               PROVE  f \in orphaned' \/ \E v \in Workers : cur'[v] = f /\ Effective(v)'
    BY DEF Owned
  <2>1. CASE f = e
    BY <2>1, <1>2 DEF TypeOK, Effective, Expired
  <2>2. CASE f # e
    <3>1. status[f] = "processing"
      BY <2>2 DEF TypeOK
    <3>2. cur[w] # f
      BY QueueAssumption DEF TypeOK
    <3>3. QED
      BY <3>1, <3>2 DEF TypeOK, Owned, Effective
  <2>3. QED
    BY <2>1, <2>2
<1>4. FreshCopies' /\ DeadLetterEarned'
  BY QueueAssumption DEF TypeOK, FreshCopies, DeadLetterEarned
<1>5. CountsEarned'
  BY DEF TypeOK, CountsEarned, Earned, Attempts
<1>6. QED
  BY <1>1, <1>3, <1>4, <1>5

(* Loading the row of an event that is "processing" makes the worker an     *)
(* owner, and an owner of another event stays one.                          *)
LEMMA LoadOwned ==
    ASSUME TypeOK, Owned, NEW w \in Workers, NEW r, cur[w] \in Events,
           r = Expired \/ r = Copy(cur[w]),
           loaded' = [loaded EXCEPT ![w] = r],
           UNCHANGED <<status, cur, orphaned>>
    PROVE  Owned'
<1> SUFFICES ASSUME NEW f \in Events, status[f] = "processing", f \notin orphaned
             PROVE  \E v \in Workers : cur[v] = f /\ loaded'[v].status \in {"none", "processing"}
  BY DEF Owned, Effective
<1>1. PICK v \in Workers : cur[v] = f /\ loaded[v].status \in {"none", "processing"}
  BY DEF Owned, Effective
<1>2. CASE v = w
  BY <1>1, <1>2 DEF TypeOK, Expired, Copy
<1>3. CASE v # w
  BY <1>1, <1>3 DEF TypeOK
<1>4. QED
  BY <1>2, <1>3

LEMMA HandleIInv ==
    ASSUME IInv, NEW w \in Workers, Handle(w)
    PROVE  IInv'
<1> USE DEF Handle, rows, admin, history, IInv
<1>1. cur[w] \in Events /\ cur[w] # NoEvent
  BY QueueAssumption DEF TypeOK
<1>2. TypeOK'
  BY <1>1 DEF TypeOK, Rows, Statuses, Expired, Copy
<1>3. Owned'
  BY <1>1, LoadOwned
<1>4. FreshCopies' /\ DeadLetterEarned'
  BY <1>1 DEF TypeOK, FreshCopies, DeadLetterEarned
<1>5. CountsEarned'
  BY DEF TypeOK, CountsEarned, Earned, Attempts
<1>6. QED
  BY <1>2, <1>3, <1>4, <1>5

(* The attempt is counted as the row is loaded.                             *)
LEMMA RaiseIInv ==
    ASSUME IInv, NEW w \in Workers, Raise(w)
    PROVE  IInv'
<1> USE DEF Raise, rows, admin, wallet, IInv
<1>1. cur[w] \in Events /\ cur[w] # NoEvent
  BY QueueAssumption DEF TypeOK
<1>2. TypeOK'
  BY <1>1, QueueAssumption DEF TypeOK, Rows, Statuses, Copy
<1>3. Owned'
  BY <1>1, LoadOwned
<1>4. FreshCopies'
  BY <1>1 DEF TypeOK, FreshCopies
<1>5. \A e \in Events : failures'[e] \in 0 .. MaxAttempts /\ failures[e] <= failures'[e]
  BY <1>1, QueueAssumption DEF TypeOK
<1>6. DeadLetterEarned'
  BY <1>5, QueueAssumption DEF TypeOK, DeadLetterEarned
<1>7. \A e \in Events : \A n \in Nat : Earned(e, n) => Earned(e, n)'
  BY <1>5, QueueAssumption DEF TypeOK, Earned
<1>8. Earned(cur[w], Attempts(w))'
  <2> DEFINE e == cur[w]
  <2>1. cur'[w] = e /\ loaded'[w].count = retries[e]
    BY DEF TypeOK, Copy
  <2>2. failures'[e] = (IF failures[e] < MaxAttempts THEN failures[e] + 1 ELSE failures[e])
    BY <1>1 DEF TypeOK
  <2>3. failures[e] \in 0 .. MaxAttempts /\ retries[e] \in Nat /\ Earned(e, retries[e])
    BY <1>1 DEF TypeOK, CountsEarned
  <2>4. failures'[e] = MaxAttempts \/ retries[e] + 1 <= failures'[e]
    BY <2>2, <2>3, QueueAssumption DEF Earned
  <2>5. QED
    BY <2>1, <2>4 DEF Earned, Attempts
<1>9. CountsEarned'
  <2>1. \A e \in Events : Earned(e, retries[e])'
    BY <1>7 DEF TypeOK, CountsEarned, Earned
  <2>2. ASSUME NEW v \in Workers, pc'[v] = "fail", v # w
        PROVE  Earned(cur[v], Attempts(v))'
    BY <1>5, <2>2, QueueAssumption DEF TypeOK, CountsEarned, Earned, Attempts, Rows
  <2>3. QED
    BY <1>8, <2>1, <2>2 DEF CountsEarned
<1>10. QED
  BY <1>2, <1>3, <1>4, <1>6, <1>9

-----------------------------------------------------------------------------
(* Storing an outcome.                                                      *)

(* A worker that stores an outcome leaves its event in "processing" only    *)
(* when its copy had the outcome, and then another worker owns the event.   *)
LEMMA StoreOwned ==
    ASSUME TypeOK, Owned, NEW w \in Workers, cur[w] \in Events,
           NEW s \in {"processed", "failed", "dead_letter"},
           Store(w, s), Proceed(w), orphaned' = orphaned
    PROVE  Owned'
<1> SUFFICES ASSUME NEW f \in Events, status'[f] = "processing", f \notin orphaned
             PROVE  \E v \in Workers : cur'[v] = f /\ loaded'[v].status \in {"none", "processing"}
  BY DEF Owned, Effective
<1>1. status[f] = "processing" /\ (f = cur[w] => loaded[w].status = s)
  BY DEF TypeOK, Store, Flushed
<1>2. PICK v \in Workers : cur[v] = f /\ loaded[v].status \in {"none", "processing"}
  BY <1>1 DEF Owned, Effective
<1>3. v # w
  BY <1>1, <1>2
<1>4. QED
  BY <1>2, <1>3 DEF TypeOK, Proceed

(* What going on with the batch does to a worker.                           *)
LEMMA ProceedTypes ==
    ASSUME TypeOK, FreshCopies, NEW w \in Workers, cur[w] # NoEvent, Proceed(w)
    PROVE  /\ pc' \in [Workers -> {"idle", "mark", "handle", "finish", "fail"}]
           /\ batch' = batch /\ locked' = locked
           /\ cur' \in [Workers -> Events \cup {NoEvent}]
           /\ loaded' \in [Workers -> Rows]
           /\ \A v \in Workers : /\ cur'[v] = NoEvent <=> pc'[v] \in {"idle", "mark"}
                                 /\ locked'[v] # {} => pc'[v] = "mark"
           /\ FreshCopies'
           /\ \A v \in Workers : pc'[v] = "fail" =>
                v # w /\ pc[v] = "fail" /\ cur'[v] = cur[v] /\ loaded'[v] = loaded[v]
BY DEF TypeOK, FreshCopies, Proceed, Rows, Statuses, Expired

LEMMA FinishIInv ==
    ASSUME IInv, NEW w \in Workers, Finish(w)
    PROVE  IInv'
<1> USE DEF Finish, admin, history, wallet, IInv
<1>1. cur[w] \in Events /\ cur[w] # NoEvent
  BY QueueAssumption DEF TypeOK
<1>2. TypeOK'
  BY <1>1, ProceedTypes DEF TypeOK, Store, Flushed, Statuses
<1>3. Owned'
  BY <1>1, StoreOwned
<1>4. FreshCopies'
  BY <1>1, ProceedTypes
<1>5. DeadLetterEarned'
  BY <1>1 DEF TypeOK, DeadLetterEarned, Store, Flushed
<1>6. CountsEarned'
  BY <1>1, ProceedTypes DEF CountsEarned, Earned, Attempts
<1>7. QED
  BY <1>2, <1>3, <1>4, <1>5, <1>6

LEMMA FailIInv ==
    ASSUME IInv, NEW w \in Workers, Fail(w)
    PROVE  IInv'
<1> USE DEF Fail, admin, history, wallet, IInv
<1> DEFINE s == IF Exhausted(Attempts(w)) THEN "dead_letter" ELSE "failed"
<1>1. cur[w] \in Events /\ cur[w] # NoEvent
  BY QueueAssumption DEF TypeOK
<1>2. Attempts(w) \in Nat
  BY DEF TypeOK, Rows, Attempts
<1>3. TypeOK'
  BY <1>1, <1>2, ProceedTypes DEF TypeOK, Store, Flushed, Statuses
<1>4. Owned'
  BY <1>1, StoreOwned
<1>5. FreshCopies'
  BY <1>1, ProceedTypes
<1>6. Earned(cur[w], Attempts(w))
  BY DEF CountsEarned
<1>7. DeadLetterEarned'
  BY <1>1, <1>2, <1>6, QueueAssumption
     DEF TypeOK, DeadLetterEarned, Store, Flushed, Exhausted, Earned
<1>8. CountsEarned'
  <2>1. \A e \in Events : Earned(e, retries[e])'
    BY <1>1, <1>6 DEF TypeOK, CountsEarned, Earned
  <2>2. \A v \in Workers : pc'[v] = "fail" => Earned(cur[v], Attempts(v))'
    BY <1>1, ProceedTypes DEF CountsEarned, Earned, Attempts
  <2>3. QED
    BY <2>1, <2>2 DEF CountsEarned
<1>9. QED
  BY <1>3, <1>4, <1>5, <1>7, <1>8

-----------------------------------------------------------------------------
(* Faults.  The event of the worker is an orphan.                           *)

LEMMA LeaveOwned ==
    ASSUME TypeOK, Owned, NEW w \in Workers,
           cur' = [cur EXCEPT ![w] = NoEvent],
           loaded' = [loaded EXCEPT ![w] = Expired], status' = status,
           orphaned \subseteq orphaned', cur[w] \in orphaned' \cup {NoEvent}
    PROVE  Owned'
<1> SUFFICES ASSUME NEW f \in Events, status[f] = "processing", f \notin orphaned'
             PROVE  \E v \in Workers : cur'[v] = f /\ loaded'[v].status \in {"none", "processing"}
  BY DEF Owned, Effective
<1>1. PICK v \in Workers : cur[v] = f /\ loaded[v].status \in {"none", "processing"}
  BY DEF Owned, Effective
<1>2. v # w
  BY <1>1, QueueAssumption
<1>3. QED
  BY <1>1, <1>2 DEF TypeOK

LEMMA FailLostIInv ==
    ASSUME IInv, NEW w \in Workers, FailLost(w)
    PROVE  IInv'
<1> USE DEF FailLost, Fault, rows, admin, wallet, IInv
<1>1. cur[w] \in Events /\ cur[w] # NoEvent
  BY QueueAssumption DEF TypeOK
<1>2. TypeOK'
  BY <1>1, ProceedTypes, QueueAssumption DEF TypeOK
<1>3. Owned'
  BY <1>1, LeaveOwned DEF Proceed
<1>4. FreshCopies' /\ DeadLetterEarned'
  BY <1>1, ProceedTypes DEF DeadLetterEarned
<1>5. CountsEarned'
  BY <1>1, ProceedTypes DEF CountsEarned, Earned, Attempts
<1>6. QED
  BY <1>2, <1>3, <1>4, <1>5

LEMMA CrashIInv ==
    ASSUME IInv, NEW w \in Workers, Crash(w)
    PROVE  IInv'
<1> USE DEF Crash, Fault, rows, admin, wallet, IInv
<1>1. TypeOK'
  BY QueueAssumption DEF TypeOK, Rows, Statuses, Expired
<1>2. Owned'
  BY LeaveOwned
<1>3. FreshCopies' /\ DeadLetterEarned'
  BY DEF TypeOK, FreshCopies, DeadLetterEarned
<1>4. CountsEarned'
  BY DEF TypeOK, CountsEarned, Earned, Attempts
<1>5. QED
  BY <1>1, <1>2, <1>3, <1>4

-----------------------------------------------------------------------------
(* The administrator.                                                       *)

LEMMA RetryWebhookIInv ==
    ASSUME IInv, NEW e \in Events, RetryWebhook(e)
    PROVE  IInv'
<1> USE DEF RetryWebhook, rows, worker, history, wallet, IInv
<1>1. TypeOK'
  BY QueueAssumption DEF TypeOK, Rows, Copy
<1>2. Owned' /\ FreshCopies' /\ DeadLetterEarned'
  BY DEF Owned, Effective, FreshCopies, DeadLetterEarned
<1>3. CountsEarned'
  BY DEF CountsEarned, Earned, Attempts
<1>4. QED
  BY <1>1, <1>2, <1>3

LEMMA RequeueIInv ==
    ASSUME IInv, NEW e \in Events, Requeue(e)
    PROVE  IInv'
<1> USE DEF Requeue, worker, history, wallet, IInv
<1>1. /\ \A f \in Events : status'[f] = status[f] \/ status'[f] = "queued"
      /\ \A f \in Events : retries'[f] = retries[f] \/ retries'[f] = 0
      /\ status' \in [Events -> Statuses] /\ retries' \in [Events -> Nat]
  BY DEF TypeOK, Flushed, Statuses
<1>2. TypeOK'
  BY <1>1 DEF TypeOK, Rows, Statuses, Expired
<1>3. Owned' /\ FreshCopies' /\ DeadLetterEarned'
  BY <1>1 DEF Owned, Effective, FreshCopies, DeadLetterEarned
<1>4. CountsEarned'
  BY <1>1 DEF TypeOK, CountsEarned, Earned, Attempts
<1>5. QED
  BY <1>2, <1>3, <1>4

-----------------------------------------------------------------------------
(* Every step of the specification keeps the inductive invariant.           *)
LEMMA NextIInv == IInv /\ [Next]_vars => IInv'
<1> SUFFICES ASSUME IInv, [Next]_vars PROVE IInv'
  OBVIOUS
<1>1. CASE UNCHANGED vars
  <2> USE <1>1 DEF vars, rows, worker, admin, history, IInv
  <2>1. TypeOK'
    BY DEF TypeOK
  <2>2. Owned' /\ FreshCopies' /\ DeadLetterEarned'
    BY DEF Owned, Effective, FreshCopies, DeadLetterEarned
  <2>3. CountsEarned'
    BY DEF CountsEarned, Earned, Attempts
  <2>4. QED
    BY <2>1, <2>2, <2>3
<1>2. ASSUME NEW w \in Workers, WorkerStep(w) \/ FailLost(w) \/ Crash(w)
      PROVE  IInv'
  BY <1>2, ClaimIInv, MarkIInv, HandleIInv, FinishIInv, RaiseIInv, FailIInv,
     FailLostIInv, CrashIInv DEF WorkerStep
<1>3. ASSUME NEW e \in Events,
             Enqueue(e) \/ BackoffEnds(e) \/ RetryWebhook(e) \/ Requeue(e)
      PROVE  IInv'
  BY <1>3, EnqueueIInv, BackoffEndsIInv, RetryWebhookIInv, RequeueIInv
<1>4. ASSUME NEW k \in Keys, Withdraw(k)
      PROVE  IInv'
  BY <1>4, WithdrawIInv
<1>5. QED
  BY <1>1, <1>2, <1>3, <1>4 DEF Next

(* The inductive invariant holds in every reachable state.                  *)
THEOREM Invariant == Spec => []IInv
BY InitIInv, NextIInv, PTL DEF Spec

(* Every variable has its type, and a worker keeps no lock past its first   *)
(* commit.                                                                  *)
THEOREM TypeCorrect == Spec => []TypeOK
<1>1. IInv => TypeOK
  BY DEF IInv
<1>2. QED
  BY <1>1, Invariant, PTL

(* However many workers hold an event at once, it stays in "processing"     *)
(* without a worker only when a fault took the worker that owned it.        *)
THEOREM OnlyFaultsStrand == Spec => []StuckOnlyByFault
<1>1. IInv => StuckOnlyByFault
  BY DEF IInv, Owned, StuckOnlyByFault
<1>2. QED
  BY <1>1, Invariant, PTL

(* An event in the dead letter state has failed MAX_ATTEMPTS times, however *)
(* the retry counts of its workers overwrite each other.                    *)
THEOREM DeadLettersEarned == Spec => []DeadLetterEarned
<1>1. IInv => DeadLetterEarned
  BY DEF IInv
<1>2. QED
  BY <1>1, Invariant, PTL
=============================================================================
