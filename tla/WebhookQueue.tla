---------------------------- MODULE WebhookQueue ----------------------------
(***************************************************************************)
(* Provider webhooks: the routes only enqueue events (wallet/api/           *)
(* webhooks.py), Celery workers process them with retries                   *)
(* (tasks/webhook_processor.py), an administrator can requeue one           *)
(* (wallet/api/admin_webhook_routes.py).  Their effects, and the users'     *)
(* withdrawals, are steps of the Ledger that WalletService implements.      *)
(*                                                                          *)
(* A worker claims a batch FOR UPDATE SKIP LOCKED; its first commit         *)
(* releases the locks of the whole batch.  Every later write is an UPDATE   *)
(* by id, whatever the row says by then, of the columns that differ from    *)
(* the copy the session has loaded.                                         *)
(***************************************************************************)
EXTENDS Integers, FiniteSets

CONSTANTS
    Workers, Events,
    Account, Keys, Amount, Opening,   \* one user's wallet and withdrawals
    Reports,       \* what the provider may report, and about which reference
    MaxAttempts,   \* MAX_ATTEMPTS
    BatchSize,     \* events of one task run
    MaxFaults,     \* bound on crashes and lost commits
    MaxRequeues,   \* bound on requests of administrators
    NoEvent

Kinds == {"charge", "paid", "unpaid", "bad"}

ASSUME QueueAssumption ==
    /\ MaxAttempts \in Nat \ {0} /\ BatchSize \in Nat \ {0}
    /\ MaxFaults \in Nat /\ MaxRequeues \in Nat
    /\ Amount \in Nat \ {0} /\ Opening \in Nat
    /\ Reports \subseteq [kind : Kinds, key : Keys]
    /\ NoEvent \notin Events

VARIABLES
    status,      \* webhook_events.status; "none" before the delivery
    what,        \* the report an event carries
    retries,     \* retry_count
    due,         \* whether next_retry_at is null or has passed
    pc, batch, cur,   \* a worker's step, the rest of its batch, its event
    locked,      \* the rows a worker has selected and not committed
    loaded,      \* the copy of its event's row in a worker's session
    asked,       \* the event an administrator is requeueing
    copy,        \* the copy of its row in the administrator's session
    requeues, faults,
    orphaned,    \* history: events whose outcome was never stored
    failures,    \* history: failed attempts of an event, up to MaxAttempts
    balance, spent, payouts, reopened   \* the wallet

L == INSTANCE Ledger WITH Accounts <- {Account}, Amounts <- {Amount}, Fees <- {}

rows   == <<status, what, retries, due>>
worker == <<pc, batch, cur, locked, loaded>>
admin  == <<asked, copy, requeues>>
history == <<orphaned, failures>>
wallet == <<balance, spent, payouts, reopened>>
vars == <<rows, worker, admin, faults, history, wallet>>

Statuses == {"none", "queued", "processing", "processed", "failed", "dead_letter"}
Rows == [status : Statuses, count : Nat]

(* Mutant: failed events are not looked for.                                *)
Eligible_QueuedOnly(e) == status[e] = "queued"

Eligible(e) ==
    \/ status[e] = "queued"
    \/ status[e] = "failed" /\ retries[e] < MaxAttempts /\ due[e]

(* A copy that was expired by a commit: whatever is assigned is written.    *)
Expired == [status |-> "none", count |-> 0]

Copy(e) == [status |-> status[e], count |-> retries[e]]

(* A column after the flush: it is written when it differs from the copy.   *)
Flushed(old, new, now) == IF new = old THEN now ELSE new

GivenUp(e) ==
    status[e] = "dead_letter" \/ (status[e] = "failed" /\ retries[e] >= MaxAttempts)

LockedByOther(w, e) == \E v \in Workers \ {w} : e \in locked[v]
Locked(e) == \E v \in Workers : e \in locked[v]

-----------------------------------------------------------------------------
Init ==
    /\ status = [e \in Events |-> "none"] /\ what \in [Events -> Reports]
    /\ retries = [e \in Events |-> 0] /\ due = [e \in Events |-> TRUE]
    /\ pc = [w \in Workers |-> "idle"] /\ batch = [w \in Workers |-> {}]
    /\ cur = [w \in Workers |-> NoEvent] /\ locked = [w \in Workers |-> {}]
    /\ loaded = [w \in Workers |-> Expired]
    /\ asked = NoEvent /\ copy = Expired /\ requeues = 0 /\ faults = 0
    /\ orphaned = {} /\ failures = [e \in Events |-> 0]
    /\ L!Init

(* The provider delivers an event; a redelivery is a new row.               *)
Enqueue(e) ==
    /\ status[e] = "none"
    /\ status' = [status EXCEPT ![e] = "queued"]
    /\ UNCHANGED <<what, retries, due, worker, admin, faults, history, wallet>>

(* The user withdraws, or repeats a withdrawal the provider reported as     *)
(* failed.                                                                  *)
Withdraw(k) ==
    /\ L!Withdraw(k, Account, Amount)
    /\ UNCHANGED <<rows, worker, admin, faults, history>>

-----------------------------------------------------------------------------
(* process_webhook_events.                                                  *)

(* The page of eligible rows that nobody has locked.                        *)
Claim(w) ==
    LET Open == {e \in Events : Eligible(e) /\ ~Locked(e)} IN
    /\ pc[w] = "idle" /\ Open # {}
    /\ \E S \in SUBSET Open :
         /\ IF Cardinality(Open) <= BatchSize THEN S = Open ELSE Cardinality(S) = BatchSize
         /\ batch' = [batch EXCEPT ![w] = S] /\ locked' = [locked EXCEPT ![w] = S]
    /\ pc' = [pc EXCEPT ![w] = "mark"]
    /\ UNCHANGED <<rows, cur, loaded, admin, faults, history, wallet>>

(* status = "processing", COMMIT.                                           *)
Mark(w, e) ==
    /\ pc[w] = "mark" /\ e \in batch[w] /\ ~LockedByOther(w, e)
    /\ status' = [status EXCEPT ![e] = "processing"]
    /\ pc' = [pc EXCEPT ![w] = "handle"] /\ cur' = [cur EXCEPT ![w] = e]
    /\ batch' = [batch EXCEPT ![w] = @ \ {e}] /\ locked' = [locked EXCEPT ![w] = {}]
    /\ UNCHANGED <<what, retries, due, loaded, admin, faults, history, wallet>>

(* What an event does to the wallet: _mark_payout_complete and              *)
(* _mark_payout_failed overwrite the status of a withdrawal.  A charge is   *)
(* ignored: no transaction is stored when a payment is initiated.           *)
Effect(e) ==
    LET k == what[e].key IN
    CASE what[e].kind = "paid" /\ k \in reopened -> L!Settle(k)
      [] what[e].kind = "unpaid" /\ k \in spent \cap payouts -> L!Reopen(k)
      [] OTHER -> UNCHANGED wallet

Commits(e) == what[e].kind \in {"paid", "unpaid"} /\ what[e].key \in payouts

(* Handlers that raise whatever is tried: the signature does not verify, or *)
(* a charge carries the reference of a failed withdrawal and the deposit    *)
(* asks for a current user that a worker does not have.                     *)
Hopeless(e) ==
    what[e].kind = "bad" \/ (what[e].kind = "charge" /\ what[e].key \in reopened)

(* The handler loads the row; it commits its effect on its own.             *)
Handle(w) ==
    /\ pc[w] = "handle" /\ ~Hopeless(cur[w]) /\ Effect(cur[w])
    /\ pc' = [pc EXCEPT ![w] = "finish"]
    /\ loaded' = [loaded EXCEPT ![w] = IF Commits(cur[w]) THEN Expired ELSE Copy(cur[w])]
    /\ UNCHANGED <<rows, batch, cur, locked, admin, faults, history>>

(* On with the batch.                                                       *)
Proceed(w) ==
    /\ cur' = [cur EXCEPT ![w] = NoEvent]
    /\ pc' = [pc EXCEPT ![w] = IF batch[w] = {} THEN "idle" ELSE "mark"]
    /\ loaded' = [loaded EXCEPT ![w] = Expired]
    /\ UNCHANGED <<batch, locked>>

Store(w, s) ==
    /\ ~LockedByOther(w, cur[w])
    /\ status' = [status EXCEPT ![cur[w]] = Flushed(loaded[w].status, s, @)]

(* status = "processed", COMMIT.                                            *)
Finish(w) ==
    /\ pc[w] = "finish" /\ Store(w, "processed") /\ Proceed(w)
    /\ UNCHANGED <<what, retries, due, admin, faults, history, wallet>>

(* An exception in the handler or in the commit that follows it: after the  *)
(* rollback the row is loaded again.                                        *)
Raise(w) ==
    /\ pc[w] \in {"handle", "finish"}
    /\ failures' = [failures EXCEPT ![cur[w]] = IF @ < MaxAttempts THEN @ + 1 ELSE @]
    /\ pc' = [pc EXCEPT ![w] = "fail"]
    /\ loaded' = [loaded EXCEPT ![w] = Copy(cur[w])]
    /\ UNCHANGED <<rows, batch, cur, locked, admin, faults, orphaned, wallet>>

(* Mutant: gives up one attempt early.                                      *)
Exhausted_Early(n) == n >= MaxAttempts - 1

Exhausted(n) == n >= MaxAttempts

Attempts(w) == loaded[w].count + 1

(* Mutant: the failed row keeps its status.                                 *)
Fail_KeepsStatus(w) ==
    /\ pc[w] = "fail" /\ ~LockedByOther(w, cur[w])
    /\ retries' = [retries EXCEPT ![cur[w]] = Attempts(w)]
    /\ due' = [due EXCEPT ![cur[w]] = FALSE]
    /\ Proceed(w)
    /\ UNCHANGED <<status, what, admin, faults, history, wallet>>

(* The outcome of a failed attempt, COMMIT.                                 *)
Fail(w) ==
    /\ pc[w] = "fail"
    /\ Store(w, IF Exhausted(Attempts(w)) THEN "dead_letter" ELSE "failed")
    /\ retries' = [retries EXCEPT ![cur[w]] = Attempts(w)]
    /\ due' = [due EXCEPT ![cur[w]] = @ /\ Exhausted(Attempts(w))]
    /\ Proceed(w)
    /\ UNCHANGED <<what, admin, faults, history, wallet>>

(* next_retry_at passes.                                                    *)
BackoffEnds(e) ==
    /\ status[e] = "failed" /\ ~due[e]
    /\ due' = [due EXCEPT ![e] = TRUE]
    /\ UNCHANGED <<status, what, retries, worker, admin, faults, history, wallet>>

Fault == faults < MaxFaults /\ faults' = faults + 1

(* The commit of the outcome fails; the worker rolls back and goes on.      *)
FailLost(w) ==
    /\ Fault
    /\ pc[w] = "fail" /\ Proceed(w)
    /\ orphaned' = orphaned \cup {cur[w]}
    /\ UNCHANGED <<rows, admin, failures, wallet>>

(* The worker dies, or the commit of "processing" fails and ends the task.  *)
Crash(w) ==
    /\ Fault
    /\ pc[w] # "idle"
    /\ pc' = [pc EXCEPT ![w] = "idle"] /\ cur' = [cur EXCEPT ![w] = NoEvent]
    /\ batch' = [batch EXCEPT ![w] = {}] /\ locked' = [locked EXCEPT ![w] = {}]
    /\ loaded' = [loaded EXCEPT ![w] = Expired]
    /\ orphaned' = orphaned \cup ({cur[w]} \ {NoEvent})
    /\ UNCHANGED <<rows, admin, failures, wallet>>

-----------------------------------------------------------------------------
(* retry_webhook: the status and the transaction of the reference are       *)
(* checked (the reference of a mobile money charge is not found), then the  *)
(* row is written.                                                          *)
RetryWebhook(e) ==
    /\ asked = NoEvent /\ requeues < MaxRequeues
    /\ status[e] \notin {"none", "processed", "processing"}
    /\ what[e].kind = "charge" \/ what[e].key \notin spent
    /\ asked' = e /\ copy' = Copy(e) /\ requeues' = requeues + 1
    /\ UNCHANGED <<rows, worker, faults, history, wallet>>

Requeue(e) ==
    /\ asked = e /\ ~Locked(e)
    /\ status' = [status EXCEPT ![e] = Flushed(copy.status, "queued", @)]
    /\ retries' = [retries EXCEPT ![e] = Flushed(copy.count, 0, @)]
    /\ due' = [due EXCEPT ![e] = TRUE]
    /\ asked' = NoEvent /\ copy' = Expired
    /\ UNCHANGED <<what, worker, requeues, faults, history, wallet>>

-----------------------------------------------------------------------------
WorkerStep(w) ==
    \/ Claim(w) \/ Handle(w) \/ Finish(w) \/ Raise(w) \/ Fail(w)
    \/ \E e \in Events : Mark(w, e)

Next ==
    \/ \E w \in Workers : WorkerStep(w) \/ FailLost(w) \/ Crash(w)
    \/ \E e \in Events : Enqueue(e) \/ BackoffEnds(e) \/ RetryWebhook(e) \/ Requeue(e)
    \/ \E k \in Keys : Withdraw(k)

(* Beat starts the task every minute, a task that runs goes on, and time    *)
(* passes.                                                                  *)
Fairness ==
    /\ \A w \in Workers : WF_vars(WorkerStep(w))
    /\ \A e \in Events : WF_vars(BackoffEnds(e)) /\ WF_vars(Requeue(e))

Spec == Init /\ [][Next]_vars /\ Fairness

-----------------------------------------------------------------------------
(* Properties.                                                              *)

(* Every variable has its type; a worker holds locks only before its first  *)
(* commit and has an event only after it.                                   *)
TypeOK ==
    /\ status \in [Events -> Statuses] /\ what \in [Events -> Reports]
    /\ retries \in [Events -> Nat] /\ due \in [Events -> BOOLEAN]
    /\ pc \in [Workers -> {"idle", "mark", "handle", "finish", "fail"}]
    /\ batch \in [Workers -> SUBSET Events] /\ locked \in [Workers -> SUBSET Events]
    /\ cur \in [Workers -> Events \cup {NoEvent}]
    /\ loaded \in [Workers -> Rows] /\ copy \in Rows
    /\ \A w \in Workers : /\ cur[w] = NoEvent <=> pc[w] \in {"idle", "mark"}
                          /\ locked[w] # {} => pc[w] = "mark"
    /\ asked \in Events \cup {NoEvent} /\ requeues \in 0 .. MaxRequeues
    /\ faults \in 0 .. MaxFaults
    /\ orphaned \subseteq Events
    /\ failures \in [Events -> 0 .. MaxAttempts]

(* An event that nobody will pick up again ("processing" is in no query)    *)
(* is one a worker is still busy with, or one whose worker died or could    *)
(* not store the outcome: batches that overlap strand no other.             *)
StuckOnlyByFault ==
    \A e \in Events : status[e] = "processing" =>
        e \in orphaned \/ \E w \in Workers : cur[w] = e

(* No event is given up before MAX_ATTEMPTS attempts have really failed,    *)
(* however the counts of two workers and of an administrator overwrite each *)
(* other.                                                                   *)
DeadLetterEarned ==
    \A e \in Events : status[e] = "dead_letter" => failures[e] >= MaxAttempts

(* Every accepted event is in the end processed, or has used up its         *)
(* attempts, unless a fault took its worker: an event is not lost between   *)
(* the workers that hold it, the backoff and an administrator.              *)
EventsSettle ==
    \A e \in Events :
        status[e] = "queued" ~> (status[e] = "processed" \/ GivenUp(e) \/ e \in orphaned)
=============================================================================
