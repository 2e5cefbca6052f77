---------------------------- MODULE RideDispatch ----------------------------
(***************************************************************************)
(* One on-demand ride request (RideRequest, SearchCycle, OfferAttempt) and  *)
(* the service that dispatches it, RideRequestDispatchService               *)
(* (transport/services/ride_request_dispatch_service.py): drivers are       *)
(* offered the ride one after the other, the first who accepts wins it, the *)
(* rider may cancel or search again, and a periodic task recovers what has  *)
(* lapsed.  Requests share drivers and vehicles only, which is the business *)
(* of Assignment: here a claim is staged or refused.                        *)
(*                                                                          *)
(* Every operation locks the row of the request.  The request itself has    *)
(* been loaded before, by the route or by the listing of the recovery task, *)
(* and the locking query returns the object of the session as it was        *)
(* loaded: the status that is tested is an old one.  A call that has loaded *)
(* another status than "searching" is refused and is not a step; of the     *)
(* others no step tests the row.  The cycle is first read under the lock,   *)
(* and so are the offers, but for the one the driver's accept has loaded.   *)
(***************************************************************************)
EXTENDS Fleet, Integers, Sequences

CONSTANTS Pools,      \* the rankings of drivers that matching may return
          MaxCycles   \* bound on the searches of the request

\* A request of a rider or a driver on its way.  An acceptance has loaded the
\* driver's offer, of the cycle `number`.
Ask == [op : {"accept", "cancel", "retry", "start"}, pc : {"lock", "claim", "again"},
        driver : Drivers \cup {None}, number : 0 .. MaxCycles]

\* What the recovery task has listed: a driver's offer of a cycle, or a search
\* without an offer.
Listed == [driver : Drivers \cup {None}, number : 0 .. MaxCycles]

ASSUME DispatchAssumption ==
    /\ Pools \subseteq Seq(Drivers)
    /\ MaxCycles \in Nat \ {0}
    /\ None \notin Drivers \cup Calls \cup Pools \cup Ask \cup Listed

VARIABLES
    request,   \* RideRequest.status
    cycle,     \* SearchCycle.status of the latest cycle
    number,    \* its cycle_number
    pool,      \* its ranked_pool, None before the snapshot
    offer,     \* the status of each driver's OfferAttempt of that cycle
    lapsed,    \* the deadlines of the cycle that have passed
    trip,      \* the driver of the Booking, None without one
    holder,    \* the call that holds the row lock of the request
    ask,       \* what a request of a rider or a driver is doing
    found,     \* what the recovery task has listed and not yet locked
    revived    \* history: the cycle was opened on a request no longer searching

search == <<cycle, number, pool, offer, lapsed>>
rideVars == <<request, search, trip, holder, ask, found, revived>>

Requested == {"none", "searching", "converted", "cancelled"}
Searches  == {"none", "searching", "completed", "expired", "cancelled"}
Offers    == {"none", "offered", "declined", "timed_out", "claim_failed",
              "skipped", "withdrawn", "won"}

RideInit ==
    /\ request = "none" /\ cycle = "none" /\ number = 0
    /\ pool = None
    /\ offer = [d \in Drivers |-> "none"]
    /\ lapsed = {}
    /\ trip = None
    /\ holder = None
    /\ ask = [c \in Calls |-> None]
    /\ found = None
    /\ revived = FALSE

-----------------------------------------------------------------------------
Offered == {d \in Drivers : offer[d] = "offered"}

\* A first cycle, of create_request, or another one, of retry_search.
OpenCycle ==
    /\ number < MaxCycles
    /\ number' = number + 1
    /\ cycle' = "searching"
    /\ pool' = None
    /\ offer' = [d \in Drivers |-> "none"]
    /\ lapsed' = {}
    /\ revived' = (request = "cancelled")

\* The cycle ends as e, the attempts that look open to its writer as s.
CloseCycle(e, s, open) ==
    /\ cycle' = e
    /\ offer' = [d \in Drivers |-> IF d \in open THEN s ELSE offer[d]]
    /\ UNCHANGED <<number, pool, lapsed, revived>>

\* _close_cycle_at_deadline, once the matching window has elapsed.
CloseAtDeadline == "window" \in lapsed /\ CloseCycle("expired", "timed_out", Offered)

\* The places in the pool of drivers without an attempt in this cycle.
Unused == {i \in DOMAIN pool : offer[pool[i]] = "none"}

\* _insert_offer: the driver has RESPONSE_SECONDS from now.
InsertOffer(d, old) ==
    /\ offer' = [old EXCEPT ![d] = "offered"]
    /\ lapsed' = lapsed \ {"offer"}
    /\ UNCHANGED <<cycle, number, pool, revived>>

\* _advance_locked: the offer of driver d ends with an outcome; the first
\* candidate left gets an offer, or the cycle ends.
AdvanceLocked(d, outcome) ==
    \/ /\ "window" \in lapsed \/ Unused = {}
       /\ CloseCycle("expired", outcome, Offered)
    \/ /\ "window" \notin lapsed
       /\ \E i \in Unused :
            /\ \A j \in Unused : i <= j
            /\ InsertOffer(pool[i], [offer EXCEPT ![d] = outcome])

\* start_search without an open offer: the pool is taken and its first driver
\* gets the offer.
FirstOffer(p) ==
    IF Len(p) = 0
    THEN /\ cycle' = "expired"
         /\ pool' = p
         /\ UNCHANGED <<number, offer, lapsed, revived>>
    ELSE /\ pool' = p
         /\ offer' = [offer EXCEPT ![Head(p)] = "offered"]
         /\ lapsed' = lapsed \ {"offer"}
         /\ UNCHANGED <<cycle, number, revived>>

\* An open offer is advanced once its deadline has passed.
AdvanceIfLate(d) ==
    IF "offer" \in lapsed THEN AdvanceLocked(d, "timed_out") ELSE UNCHANGED <<search, revived>>

\* start_search under the lock, for a request loaded as searching.
Resume ==
    IF cycle = "searching"
    THEN \/ CloseAtDeadline
         \/ /\ "window" \notin lapsed
            /\ \/ /\ Offered = {}
                  /\ \E p \in IF pool = None THEN Pools ELSE {pool} : FirstOffer(p)
               \/ \E d \in Offered : AdvanceIfLate(d)
    ELSE UNCHANGED <<search, revived>>

-----------------------------------------------------------------------------
Underway(c) == ask[c] # None

At(c, op, pc) == Underway(c) /\ ask[c].op = op /\ ask[c].pc = pc

Loaded(op) == [op |-> op, pc |-> "lock", driver |-> None, number |-> 0]

Proceed(c, pc) == ask' = [ask EXCEPT ![c].pc = pc]

Return(c) == ask' = [ask EXCEPT ![c] = None]

\* A call commits and goes on to start_search, for which it reads the request
\* again: a status other than "searching" ends it.
GoOnToStart(c) ==
    ask' = [ask EXCEPT ![c] = IF request' = "searching" THEN Loaded("start") ELSE None]

\* A request comes in and loads the ride request while it is searching.
Arrive(c, a) ==
    /\ ~Underway(c)
    /\ ask' = [ask EXCEPT ![c] = a]
    /\ UNCHANGED <<request, search, trip, holder, found, revived>>

\* RideRequestService.create_request, whose route starts the search.
CreateRequest(c) ==
    /\ request = "none" /\ ~Underway(c)
    /\ request' = "searching"
    /\ OpenCycle
    /\ GoOnToStart(c)
    /\ UNCHANGED <<trip, holder, found>>

\* The same route, when create_request answers a repeated submission.
CreateAgain(c) == request = "searching" /\ Arrive(c, Loaded("start"))

StartSearch(c) ==
    /\ At(c, "start", "lock") /\ holder = None
    /\ Resume
    /\ Return(c)
    /\ UNCHANGED <<request, trip, holder, found>>

\* recover_expired lists, without a lock, offers whose response or window
\* deadline has passed, and searches without any attempt.
Recoverable_OffersOnly == {d \in Offered : lapsed # {}}

Recoverable ==
    {d \in Offered : lapsed # {}} \cup IF \A d \in Drivers : offer[d] = "none" THEN {None} ELSE {}

ListExpired ==
    /\ found = None /\ request = "searching" /\ cycle = "searching"
    /\ \E d \in Recoverable :
          found' = [driver |-> d, number |-> IF d = None THEN 0 ELSE number]
    /\ UNCHANGED <<request, search, trip, holder, ask, revived>>

\* It locks the request and recovers what is still there: the offer of the
\* same cycle if the row is open, or whatever start_search finds.
RecoverExpired ==
    LET d == found.driver IN
    /\ found # None /\ holder = None
    /\ \/ d = None /\ Resume
       \/ /\ d # None /\ found.number = number /\ offer[d] = "offered"
          /\ CloseAtDeadline \/ ("window" \notin lapsed /\ AdvanceIfLate(d))
       \/ /\ d # None /\ (found.number # number \/ offer[d] # "offered")
          /\ UNCHANGED <<search, revived>>
    /\ found' = None
    /\ UNCHANGED <<request, trip, holder, ask>>

\* decline_offer: the driver's route has loaded the request, not the offer.
DeclineOffer(d) ==
    /\ holder = None
    /\ cycle = "searching" /\ offer[d] = "offered"
    /\ AdvanceLocked(d, "declined")
    /\ UNCHANGED <<request, trip, holder, ask, found>>

\* Time: the response deadline of an offer, the window of a cycle.
OfferLapses ==
    /\ Offered # {} /\ "offer" \notin lapsed
    /\ lapsed' = lapsed \cup {"offer"}
    /\ UNCHANGED <<request, cycle, number, pool, offer, trip, holder, ask, found, revived>>

WindowLapses ==
    /\ cycle = "searching" /\ "window" \notin lapsed
    /\ lapsed' = lapsed \cup {"window"}
    /\ UNCHANGED <<request, cycle, number, pool, offer, trip, holder, ask, found, revived>>

-----------------------------------------------------------------------------
\* A crash or an error: the transaction is rolled back, its lock released.
Drop(c) ==
    /\ Underway(c) /\ Return(c)
    /\ holder' = IF holder = c THEN None ELSE holder
    /\ UNCHANGED <<request, search, trip, found, revived>>

\* The driver's route loads an open offer of the driver.  (One that comes after
\* the window is refused like one that came before it.)
Accept(c, d) ==
    /\ cycle = "searching" /\ offer[d] = "offered" /\ lapsed = {}
    /\ Arrive(c, [op |-> "accept", pc |-> "lock", driver |-> d, number |-> number])

\* The attempts that look open to it: its own offer does, as it was loaded.
Copies(c) == IF ask[c].number = number THEN Offered \cup {ask[c].driver} ELSE Offered

\* accept_offer returns before the claim: the cycle is closed, the window or
\* the offer's deadline has passed, the offer is gone, or the driver has
\* changed vehicles.  It takes the time before it waits for the lock: of the
\* deadlines that have passed it sees those that had then, `late`.
AcceptRefused(c) ==
    LET d == ask[c].driver IN
    /\ At(c, "accept", "lock") /\ holder = None
    /\ \/ cycle # "searching" /\ UNCHANGED <<search, revived>>
       \/ /\ cycle = "searching"
          /\ \E late \in SUBSET lapsed :
               \/ "window" \in late /\ CloseCycle("expired", "timed_out", Copies(c))
               \/ /\ "window" \notin late /\ offer[d] # "offered"
                  /\ UNCHANGED <<search, revived>>
               \/ /\ "window" \notin late /\ offer[d] = "offered"
                  /\ AdvanceLocked(d, IF "offer" \in late THEN "timed_out" ELSE "claim_failed")
    /\ Return(c)
    /\ UNCHANGED <<request, trip, holder, found>>

\* accept_offer up to the claim: it keeps the lock.  The time was taken before
\* the wait for it, so that a deadline may have passed.
AcceptLock_NoLock(c) ==
    /\ At(c, "accept", "lock")
    /\ cycle = "searching" /\ offer[ask[c].driver] = "offered"
    /\ Proceed(c, "claim")
    /\ UNCHANGED <<request, search, trip, holder, found, revived>>

AcceptLock(c) ==
    /\ At(c, "accept", "lock") /\ holder = None
    /\ cycle = "searching" /\ offer[ask[c].driver] = "offered"
    /\ holder' = c
    /\ Proceed(c, "claim")
    /\ UNCHANGED <<request, search, trip, found, revived>>

\* The claim is staged; the Booking, the offer, the cycle and the request
\* commit together.
Convert(c) ==
    LET d == ask[c].driver IN
    /\ At(c, "accept", "claim")
    /\ offer' = [e \in Drivers |-> IF e = d THEN "won"
                                   ELSE IF offer[e] = "offered" THEN "skipped"
                                   ELSE offer[e]]
    /\ cycle' = "completed"
    /\ request' = "converted"
    /\ trip' = d
    /\ holder' = None
    /\ Return(c)
    /\ UNCHANGED <<number, pool, lapsed, found, revived>>

\* The claim is refused: everything is rolled back.
ClaimFails(c) ==
    /\ At(c, "accept", "claim")
    /\ holder' = None
    /\ Proceed(c, "again")
    /\ UNCHANGED <<request, search, trip, found, revived>>

\* The rollback has expired every copy: the request is locked again, read
\* afresh, and the next driver gets the offer.
OfferOpen(d) == request = "searching" /\ cycle = "searching" /\ offer[d] = "offered"

AcceptAgain(c) ==
    /\ At(c, "accept", "again") /\ holder = None
    /\ IF OfferOpen(ask[c].driver) THEN AdvanceLocked(ask[c].driver, "claim_failed")
                                   ELSE UNCHANGED <<search, revived>>
    /\ Return(c)
    /\ UNCHANGED <<request, trip, holder, found>>

-----------------------------------------------------------------------------
\* rides_cancel_request has loaded the request while it was searching.
Cancel(c) == request = "searching" /\ Arrive(c, Loaded("cancel"))

\* cancel_request: the loaded status passes, whatever the row says.
CancelRequest_KeepsOffers(c) ==
    /\ At(c, "cancel", "lock") /\ holder = None
    /\ IF cycle = "searching"
       THEN cycle' = "cancelled" /\ UNCHANGED <<number, pool, offer, lapsed, revived>>
       ELSE UNCHANGED <<search, revived>>
    /\ request' = "cancelled"
    /\ Return(c)
    /\ UNCHANGED <<trip, holder, found>>

CancelRequest(c) ==
    /\ At(c, "cancel", "lock") /\ holder = None
    /\ IF cycle = "searching" THEN CloseCycle("cancelled", "withdrawn", Offered)
                              ELSE UNCHANGED <<search, revived>>
    /\ request' = "cancelled"
    /\ Return(c)
    /\ UNCHANGED <<trip, holder, found>>

\* rides_retry_matching has loaded the request while it was searching.
Retry(c) == request = "searching" /\ Arrive(c, Loaded("retry"))

\* The cycles that a retry may follow.
Retryable_Completed == {"expired", "cancelled", "completed"}

Retryable == {"expired", "cancelled"}

\* retry_search: an open search is only resumed where it is due, an ended one
\* is followed by another.
RetrySearch(c) ==
    /\ At(c, "retry", "lock") /\ holder = None
    /\ UNCHANGED <<request, trip, holder, found>>
    /\ \/ /\ cycle = "searching"
          /\ \/ CloseAtDeadline /\ Return(c)
             \/ /\ "window" \notin lapsed
                /\ \/ Offered = {} /\ UNCHANGED <<search, revived>> /\ GoOnToStart(c)
                   \/ (\E d \in Offered : AdvanceIfLate(d)) /\ Return(c)
       \/ cycle \in Retryable /\ OpenCycle /\ GoOnToStart(c)
       \/ cycle = "completed" /\ UNCHANGED <<search, revived>> /\ Return(c)

-----------------------------------------------------------------------------
RideStep(c) ==
    \/ AcceptRefused(c) \/ AcceptLock(c) \/ Convert(c) \/ ClaimFails(c)
    \/ AcceptAgain(c) \/ CancelRequest(c) \/ RetrySearch(c) \/ StartSearch(c)

RideNext ==
    \/ ListExpired \/ RecoverExpired
    \/ OfferLapses \/ WindowLapses
    \/ \E d \in Drivers : DeclineOffer(d)
    \/ \E c \in Calls :
        \/ CreateRequest(c) \/ CreateAgain(c) \/ RideStep(c) \/ Drop(c)
        \/ Cancel(c) \/ Retry(c) \/ \E d \in Drivers : Accept(c, d)

RideSpec == RideInit /\ [][RideNext]_rideVars

\* Clocks advance, a call under way goes on, and the recovery task of the beat
\* schedule runs and gets the lock of a request it has listed.
RideFairSpec ==
    /\ RideSpec
    /\ WF_rideVars(OfferLapses) /\ WF_rideVars(WindowLapses)
    /\ WF_rideVars(ListExpired) /\ SF_rideVars(RecoverExpired)
    /\ \A c \in Calls : WF_rideVars(RideStep(c))

-----------------------------------------------------------------------------
\* Besides the types: the row lock is never held outside the claim of an
\* acceptance, whose call a rollback or a commit ends.
RideTypeOK ==
    /\ request \in Requested /\ cycle \in Searches /\ number \in 0 .. MaxCycles
    /\ pool \in Pools \cup {None}
    /\ offer \in [Drivers -> Offers]
    /\ lapsed \subseteq {"offer", "window"}
    /\ trip \in Drivers \cup {None}
    /\ holder \in Calls \cup {None}
    /\ ask \in [Calls -> Ask \cup {None}]
    /\ found \in Listed \cup {None} /\ revived \in BOOLEAN
    /\ \A c \in Calls : holder = c => At(c, "accept", "claim")

\* At most one driver at a time can accept the ride, and only while its search
\* is open and nobody has won: an offer never survives a decline, a time-out, a
\* conversion or the end of its cycle.  A request that is no longer searching
\* has an open offer only in a cycle that a retry has opened after the
\* cancellation, having loaded the request before it: no acceptance, start or
\* recovery with an old copy brings back the search that was cancelled.
OffersLive ==
    /\ \A d, e \in Offered : d = e
    /\ Offered # {} =>
          cycle = "searching" /\ trip = None /\ (request = "searching" \/ revived)

\* A Booking exists exactly when the cycle is completed by the driver who won,
\* and the request is then converted, or cancelled by a rider who had loaded it
\* before the acceptance.
WinnerRecorded ==
    /\ trip # None <=> cycle = "completed"
    /\ trip # None => offer[trip] = "won" /\ request \in {"converted", "cancelled"}
    /\ request = "converted" => trip # None

\* Only an acceptance that has loaded the driver's offer while it was open
\* rewrites an outcome, and it ends the search with it.
Rewritten(d) ==
    /\ offer'[d] = "timed_out" /\ cycle = "searching" /\ cycle' = "expired"
    /\ \E c \in Calls : /\ At(c, "accept", "lock") /\ ask'[c] = None
                        /\ ask[c].driver = d /\ ask[c].number = number

\* The driver who has won keeps the ride, whatever acceptance, retry, recovery
\* or cancellation comes later, and an attempt that has ended is never open
\* again while its cycle is the latest: nobody is asked twice in one search.
\* It keeps its outcome too, but for the time-out that an acceptance under way
\* since before may put over a decline.
OutcomesStay ==
    [][/\ trip # None => trip' = trip
       /\ \A d \in Drivers :
            number' = number /\ offer[d] \notin {"none", "offered"}
            => offer'[d] = offer[d] \/ Rewritten(d)]_rideVars

\* Every search ends: its offers are answered or lapse, and the recovery task
\* closes what nobody answers, unless the request has been cancelled.
SearchEnds ==
    cycle = "searching" ~> cycle # "searching" \/ request = "cancelled"
=============================================================================
