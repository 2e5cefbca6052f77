----------------------- MODULE TicketInventoryProofs -----------------------
(***************************************************************************)
(* Theorems about TicketInventory, for any event, any number of tiers,      *)
(* people, holds and processes, and any number of faults.                   *)
(*                                                                          *)
(* None of the properties is inductive: a process between two steps relies  *)
(* on what its locks keep true.  OpsMatch ties a process to the claims of   *)
(* its call, SeatsReady says what the tier's row lock guarantees to a       *)
(* caller about to insert, CapReady what the event's row lock guarantees,   *)
(* and ReturnsApart that no seat is due from two reapers.                   *)
(***************************************************************************)
EXTENDS TicketInventory, FiniteSetTheorems, TLAPS

Labels == {"idle", "pay", "event", "tier", "insert", "refund",
           "write", "return", "release"}
Taking_pc == {"pay", "event", "tier", "insert", "refund"}

(* The claims of a change or a batch exist; a reaper's have expired.        *)
Exist(o)   == \A c \in o.who : row[c] # NoRow
Expired(o) == \A c \in o.who : row[c] # NoRow /\ row[c].status # "pending"

(* A process is in a call that fits its step.                               *)
Matches(p) ==
    /\ pc[p] \in Taking_pc => op[p] \in Takes
    /\ pc[p] = "refund" => op[p].pay = "wallet"
    /\ pc[p] = "write" => op[p] \in Changes /\ Exist(op[p])
    /\ pc[p] = "release" => op[p] \in Batches /\ Exist(op[p])
    /\ pc[p] = "return" => op[p] \in Batches /\ Expired(op[p])
OpsMatch == \A p \in Procs : Matches(p)

(* No expired registration is in the hands of two reapers.                  *)
ReturnsApart ==
    \A p, q \in Procs : p # q /\ pc[p] = "return" /\ pc[q] = "return" =>
        op[p].who \cap op[q].who = {}

(* Whoever is about to insert holds the tier, which has the seats.          *)
SeatsReady ==
    \A p \in Procs : pc[p] = "insert" =>
        tierLock[op[p].tier] = p /\ avail[op[p].tier] >= Quantity(op[p])

(* Whoever has counted the event's seats holds the event, which has room.   *)
CapReady ==
    \A p \in Procs : Capped /\ pc[p] \in {"tier", "insert"} =>
        /\ eventLock = p
        /\ Cardinality(ConsumedSeats) + Quantity(op[p]) <= MaxCapacity

IInv == TypeOK /\ OpsMatch /\ ReturnsApart /\ SeatsReady

-----------------------------------------------------------------------------
(* Calls.                                                                   *)

(* What membership in Ops says about a call.                                *)
LEMMA OpWho ==
    ASSUME NEW o \in Ops
    PROVE  /\ o.who \subseteq Claims /\ IsFiniteSet(o.who) /\ Quantity(o) \in Nat
<1>1. o.who \subseteq Claims
  <2>1. CASE o \in Takes
    BY <2>1 DEF Takes
  <2>2. CASE o \in Changes
    BY <2>2 DEF Changes
  <2>3. CASE o \in Batches
    BY <2>3 DEF Batches
  <2> QED BY <2>1, <2>2, <2>3 DEF Ops
<1>2. IsFiniteSet(o.who) /\ Quantity(o) \in Nat
  BY <1>1, FS_Subset, FS_CardinalityType, InventoryAssumption DEF Quantity
<1> QED BY <1>1, <1>2

LEMMA TakeTier ==
    ASSUME NEW o \in Takes
    PROVE  o \in Ops /\ o.tier \in Tiers
BY DEF Takes, Ops

(* Only purchases are paid by wallet, and for persons.                      *)
LEMMA WalletParty == ASSUME NEW o \in Takes, o.pay = "wallet" PROVE o.who \subseteq Persons
BY DEF Takes

LEMMA ChangeIsOp == Changes \subseteq Ops /\ Batches \subseteq Ops
BY DEF Ops

(* A part of a batch is a batch.                                            *)
LEMMA BatchPart ==
    ASSUME NEW k \in {"reap", "beat"}, NEW S \in SUBSET Claims
    PROVE  \E o \in Batches : o = [kind |-> k, who |-> S] /\ o.who = S
<1>1. [kind |-> k, who |-> S] \in Batches
  BY DEF Batches
<1> QED BY <1>1

-----------------------------------------------------------------------------
(* The pieces actions are made of.                                          *)

(* What every way out of a call does to the processes and locks.            *)
LEMMA EndStep ==
    ASSUME TypeOK, NEW p \in Procs, End(p)
    PROVE  /\ eventLock' \in Procs \cup {NoProc} /\ eventLock' # p
           /\ tierLock' \in [Tiers -> Procs \cup {NoProc}]
           /\ pc' \in [Procs -> Labels] /\ op' \in [Procs -> Ops \cup {NoOp}]
           /\ claimed' \in [Procs -> BOOLEAN] /\ begun' \in 0 .. MaxOps
           /\ pc'[p] = "idle"
           /\ \A q \in Procs \ {p} :
                /\ pc'[q] = pc[q] /\ op'[q] = op[q]
                /\ eventLock = q => eventLock' = q
                /\ \A t \in Tiers : tierLock[t] = q => tierLock'[t] = q
<1> USE DEF TypeOK, End, Release
<1>1. /\ eventLock' \in Procs \cup {NoProc} /\ eventLock' # p
      /\ tierLock' \in [Tiers -> Procs \cup {NoProc}]
  BY InventoryAssumption
<1>2. /\ pc' \in [Procs -> Labels] /\ op' \in [Procs -> Ops \cup {NoOp}]
      /\ claimed' \in [Procs -> BOOLEAN]
      /\ begun' \in 0 .. MaxOps /\ pc'[p] = "idle"
  BY DEF Labels
<1>3. ASSUME NEW q \in Procs \ {p}
      PROVE  /\ pc'[q] = pc[q] /\ op'[q] = op[q]
             /\ eventLock = q => eventLock' = q
             /\ \A t \in Tiers : tierLock[t] = q => tierLock'[t] = q
  OBVIOUS
<1> QED BY <1>1, <1>2, <1>3

(* What the wallet and the payment references are.                          *)
MoneyTyped ==
    /\ charged \in [Persons -> Int] /\ bought \in SUBSET Persons
    /\ unanswered \in [Persons -> Nat] /\ unrefunded \in [Persons -> Nat]

LEMMA MoneySame == ASSUME TypeOK, UNCHANGED money PROVE MoneyTyped'
BY DEF TypeOK, MoneyTyped, money

(* One more for each person of a party.                                     *)
LEMMA AddToType ==
    ASSUME NEW S, NEW f \in [Persons -> Int], NEW n \in Int
    PROVE  /\ AddTo(f, S, n) \in [Persons -> Int]
           /\ \A c \in Persons : AddTo(f, S, n)[c] = IF c \in S THEN f[c] + n ELSE f[c]
BY DEF AddTo

LEMMA AddOne ==
    ASSUME NEW S, NEW f \in [Persons -> Nat]
    PROVE  AddTo(f, S, 1) \in [Persons -> Nat]
BY DEF AddTo

(* The same for a call that goes on at another step.                        *)
LEMMA GotoStep ==
    ASSUME TypeOK, NEW p \in Procs, NEW l \in Labels, Goto(p, l)
    PROVE  /\ pc' \in [Procs -> Labels] /\ op' = op /\ claimed' = claimed
           /\ begun' = begun
           /\ pc'[p] = l /\ \A q \in Procs \ {p} : pc'[q] = pc[q]
BY DEF TypeOK, Goto, Labels

LEMMA ReleaseStep ==
    ASSUME TypeOK, NEW p \in Procs, Release(p)
    PROVE  /\ eventLock' \in Procs \cup {NoProc}
           /\ tierLock' \in [Tiers -> Procs \cup {NoProc}]
           /\ \A q \in Procs \ {p} :
                /\ eventLock = q => eventLock' = q
                /\ \A t \in Tiers : tierLock[t] = q => tierLock'[t] = q
BY InventoryAssumption DEF TypeOK, Release

LEMMA BeginStep ==
    ASSUME TypeOK, NEW p \in Procs, NEW o \in Ops, NEW l \in Labels, Begin(p, o, l)
    PROVE  /\ pc' \in [Procs -> Labels] /\ op' \in [Procs -> Ops \cup {NoOp}]
           /\ begun' \in 0 .. MaxOps
           /\ pc[p] = "idle" /\ pc'[p] = l /\ op'[p] = o
           /\ \A q \in Procs \ {p} : pc'[q] = pc[q] /\ op'[q] = op[q]
           /\ eventLock' = eventLock /\ tierLock' = tierLock /\ MoneyTyped'
           /\ faults' = faults /\ doubled' = doubled /\ leaked' = leaked
BY InventoryAssumption, MoneySame DEF TypeOK, Begin, Labels, locks

(* A fault keeps the count of faults in its bound.                          *)
LEMMA FaultStep == ASSUME TypeOK, Fault PROVE faults' \in 0 .. MaxFaults /\ faults' = faults + 1
BY InventoryAssumption DEF TypeOK, Fault

(* Returning seats adds at most n and stops at the capacity.                *)
LEMMA ReturnedRange ==
    ASSUME TypeOK, NEW t \in Tiers, NEW n \in Nat
    PROVE  /\ Returned(t, n) \in Nat /\ Returned(t, n) <= Capacity[t]
           /\ Returned(t, n) >= avail[t] /\ Returned(t, n) <= avail[t] + n
           /\ Returned(t, n) < avail[t] + n => Returned(t, n) = Capacity[t]
BY InventoryAssumption DEF TypeOK, Returned, LeastOf

(* Claims on a tier are finitely many.                                      *)
LEMMA OnTierCount ==
    ASSUME NEW S \in SUBSET Claims, NEW t \in Tiers
    PROVE  /\ OnTier(S, t) \subseteq S /\ IsFiniteSet(OnTier(S, t))
           /\ Cardinality(OnTier(S, t)) \in Nat
<1>1. OnTier(S, t) \subseteq S
  BY DEF OnTier
<1> QED BY <1>1, FS_Subset, FS_CardinalityType, InventoryAssumption

-----------------------------------------------------------------------------
(* What a step of process p leaves as it was.                               *)

(* The other processes keep their calls, steps and locks.                   *)
OthersKept(p) ==
    \A q \in Procs \ {p} :
        /\ pc'[q] = pc[q] /\ op'[q] = op[q]
        /\ eventLock = q => eventLock' = q
        /\ \A t \in Tiers : tierLock[t] = q => tierLock'[t] = q

(* No claim disappears, changes its tier or becomes unpaid again.           *)
RowsStay ==
    \A c \in Claims : row[c] # NoRow =>
        /\ row'[c] # NoRow /\ row'[c].tier = row[c].tier
        /\ row[c].status # "pending" => row'[c].status # "pending"

(* Nobody takes seats of a tier that somebody else has locked.              *)
SeatsGrow(p) ==
    \A t \in Tiers : tierLock[t] \in Procs \ {p} => avail'[t] >= avail[t]

ReadyNext(p) ==
    pc'[p] = "insert" => tierLock'[op'[p].tier] = p /\ avail'[op'[p].tier] >= Quantity(op'[p])

ApartNext(p) ==
    pc'[p] = "return" =>
        \A q \in Procs \ {p} : pc[q] = "return" => op'[p].who \cap op[q].who = {}

Step(p) ==
    /\ TypeOK' /\ OthersKept(p) /\ RowsStay /\ SeatsGrow(p)
    /\ Matches(p)' /\ ReadyNext(p) /\ ApartNext(p)

(* Such a step preserves the invariant.                                     *)
LEMMA StepKeeps == ASSUME IInv, NEW p \in Procs, Step(p) PROVE IInv'
<1> USE DEF IInv, Step
<1>1. OpsMatch'
  <2> SUFFICES ASSUME NEW q \in Procs PROVE Matches(q)'
    BY DEF OpsMatch
  <2>1. CASE q = p
    BY <2>1
  <2>2. CASE q # p
    <3>1. pc'[q] = pc[q] /\ op'[q] = op[q] /\ Matches(q)
      BY <2>2 DEF OthersKept, OpsMatch
    <3>2. ASSUME pc[q] \in {"write", "release", "return"} PROVE op[q].who \subseteq Claims
      BY <3>1, <3>2, ChangeIsOp, OpWho DEF Matches
    <3>3. pc'[q] = "write" => op'[q] \in Changes /\ Exist(op[q])'
      BY <3>1, <3>2 DEF Matches, Exist, RowsStay
    <3>4. pc'[q] = "release" => op'[q] \in Batches /\ Exist(op[q])'
      BY <3>1, <3>2 DEF Matches, Exist, RowsStay
    <3>5. pc'[q] = "return" => op'[q] \in Batches /\ Expired(op[q])'
      BY <3>1, <3>2 DEF Matches, Expired, RowsStay
    <3> QED BY <3>1, <3>3, <3>4, <3>5 DEF Matches, Exist, Expired
  <2> QED BY <2>1, <2>2
<1>2. ReturnsApart'
  BY DEF ReturnsApart, OthersKept, ApartNext
<1>3. SeatsReady'
  <2> SUFFICES ASSUME NEW q \in Procs, pc'[q] = "insert"
               PROVE  tierLock'[op'[q].tier] = q /\ avail'[op'[q].tier] >= Quantity(op'[q])
    BY DEF SeatsReady, Quantity
  <2>1. CASE q = p
    BY <2>1 DEF ReadyNext
  <2>2. CASE q # p
    <3>1. pc[q] = "insert" /\ op'[q] = op[q] /\ op[q] \in Takes
      BY <2>2 DEF OthersKept, OpsMatch, Matches, Taking_pc
    <3>2. PICK t \in Tiers : t = op[q].tier
      BY <3>1, TakeTier
    <3>3. tierLock[t] = q /\ avail[t] >= Quantity(op[q]) /\ Quantity(op[q]) \in Nat
      BY <3>1, <3>2, TakeTier, OpWho DEF SeatsReady
    <3>4. tierLock'[t] = q /\ avail'[t] >= avail[t]
      BY <2>2, <3>3 DEF OthersKept, SeatsGrow
    <3>5. avail[t] \in Nat /\ avail'[t] \in Nat
      BY DEF TypeOK
    <3> QED BY <3>1, <3>2, <3>3, <3>4, <3>5 DEF Quantity
  <2> QED BY <2>1, <2>2
<1> QED BY <1>1, <1>2, <1>3

-----------------------------------------------------------------------------
(* Every action is such a step.                                             *)

(* A step that changes neither seats nor claims.                            *)
LEMMA Quiet ==
    ASSUME TypeOK, avail' = avail, row' = row, NEW p \in Procs
    PROVE  RowsStay /\ SeatsGrow(p)
BY DEF RowsStay, SeatsGrow, TypeOK

(* A step after which p is idle.                                            *)
LEMMA IdleNext ==
    ASSUME NEW p \in Procs, pc'[p] = "idle"
    PROVE  Matches(p)' /\ ReadyNext(p) /\ ApartNext(p)
BY DEF Matches, ReadyNext, ApartNext, Taking_pc

(* A process in the middle of taking seats.                                 *)
LEMMA InTake ==
    ASSUME IInv, NEW p \in Procs, pc[p] \in Taking_pc
    PROVE  op[p] \in Takes /\ op[p] \in Ops /\ op[p].tier \in Tiers /\ Quantity(op[p]) \in Nat
BY TakeTier, OpWho DEF IInv, OpsMatch, Matches

LEMMA BeginTakeStep ==
    ASSUME IInv, NEW p \in Procs, NEW o \in Takes, BeginTake(p, o) PROVE Step(p)
<1>1. PICK l \in {"event", "pay"} : Begin(p, o, l) /\ avail' = avail /\ row' = row /\ claimed' = claimed
  BY DEF BeginTake
<1>2. TypeOK /\ o \in Ops /\ l \in Labels
  BY TakeTier DEF IInv, Labels
<1>3. TypeOK'
  BY <1>1, <1>2, BeginStep DEF TypeOK, Labels, MoneyTyped
<1>4. OthersKept(p)
  BY <1>1, <1>2, BeginStep DEF OthersKept
<1>5. Matches(p)' /\ ReadyNext(p) /\ ApartNext(p)
  BY <1>1, <1>2, BeginStep DEF Matches, ReadyNext, ApartNext, Taking_pc
<1> QED BY <1>1, <1>2, <1>3, <1>4, <1>5, Quiet DEF Step

LEMMA BeginChangeStep ==
    ASSUME IInv, NEW p \in Procs, NEW o \in Changes, BeginChange(p, o) PROVE Step(p)
<1>1. Begin(p, o, "write") /\ avail' = avail /\ row' = row /\ claimed' = claimed
  BY DEF BeginChange
<1>2. TypeOK /\ o \in Ops /\ "write" \in Labels
  BY ChangeIsOp DEF IInv, Labels
<1>3. TypeOK'
  BY <1>1, <1>2, BeginStep DEF TypeOK, Labels, MoneyTyped
<1>4. OthersKept(p)
  BY <1>1, <1>2, BeginStep DEF OthersKept
<1>5. Matches(p)' /\ ReadyNext(p) /\ ApartNext(p)
  BY <1>1, <1>2, BeginStep DEF Matches, ReadyNext, ApartNext, Taking_pc, BeginChange, Exist
<1> QED BY <1>1, <1>2, <1>3, <1>4, <1>5, Quiet DEF Step

LEMMA ClaimHoldsStep ==
    ASSUME IInv, NEW p \in Procs, NEW o \in Batches, ClaimHolds(p, o) PROVE Step(p)
<1>1. Begin(p, o, "release") /\ avail' = avail /\ row' = row
  BY DEF ClaimHolds
<1>2. TypeOK /\ o \in Ops /\ "release" \in Labels
  BY ChangeIsOp DEF IInv, Labels
<1>3. claimed' \in [Procs -> BOOLEAN]
  BY <1>2 DEF ClaimHolds, TypeOK
<1>4. TypeOK'
  BY <1>1, <1>2, <1>3, BeginStep DEF TypeOK, Labels, MoneyTyped
<1>5. OthersKept(p)
  BY <1>1, <1>2, BeginStep DEF OthersKept
<1>6. Matches(p)' /\ ReadyNext(p) /\ ApartNext(p)
  BY <1>1, <1>2, BeginStep DEF Matches, ReadyNext, ApartNext, Taking_pc, ClaimHolds, Exist
<1> QED BY <1>1, <1>2, <1>4, <1>5, <1>6, Quiet DEF Step

(* The reaper: unpaid registrations expire, no other reaper has them.       *)
LEMMA ReapStep ==
    ASSUME IInv, NEW p \in Procs, NEW o \in Batches, Reap(p, o) PROVE Step(p)
<1>1. Begin(p, o, "return") /\ avail' = avail /\ claimed' = claimed
  BY DEF Reap
<1>2. TypeOK /\ o \in Ops /\ "return" \in Labels /\ o.who \subseteq Claims
  BY ChangeIsOp, OpWho DEF IInv, Labels
<1>3. \A c \in Claims : row'[c] = IF c \in o.who THEN [tier |-> row[c].tier, status |-> "expired"]
                                               ELSE row[c]
  BY DEF Reap
<1>4. \A c \in o.who : row[c] \in Row /\ row[c].status = "pending"
  BY <1>2 DEF Reap, TypeOK
<1>5. \A c \in o.who : [tier |-> row[c].tier, status |-> "expired"] \in Row
  BY <1>4 DEF Row, Statuses
<1>6. row' \in [Claims -> Row \cup {NoRow}]
  BY <1>2, <1>5 DEF Reap, TypeOK
<1>7. \A c \in o.who : row'[c] # NoRow /\ row'[c].tier = row[c].tier /\ row'[c].status = "expired"
  <2> SUFFICES ASSUME NEW c \in o.who
               PROVE  row'[c] # NoRow /\ row'[c].tier = row[c].tier /\ row'[c].status = "expired"
    OBVIOUS
  <2>1. row'[c] = [tier |-> row[c].tier, status |-> "expired"]
    BY <1>2, <1>3
  <2>2. row'[c] # NoRow
    BY <1>5, <2>1, NullAssumption, Zenon
  <2> QED BY <2>1, <2>2
<1>12. RowsStay
  BY <1>3, <1>4, <1>7 DEF RowsStay
<1>8. TypeOK'
  BY <1>1, <1>2, <1>6, BeginStep DEF TypeOK, Labels, MoneyTyped
<1>9. OthersKept(p) /\ SeatsGrow(p)
  BY <1>1, <1>2, BeginStep DEF OthersKept, SeatsGrow, TypeOK
<1>10. Matches(p)' /\ ReadyNext(p)
  BY <1>1, <1>2, <1>7, BeginStep
     DEF Matches, ReadyNext, Taking_pc, Expired
<1>11. ApartNext(p)
  BY <1>1, <1>2, <1>4, BeginStep DEF ApartNext, IInv, OpsMatch, Matches, Expired
<1> QED BY <1>8, <1>9, <1>10, <1>11, <1>12 DEF Step

LEMMA PayStep == ASSUME IInv, NEW p \in Procs, Pay(p) PROVE Step(p)
<1>1. TypeOK /\ op[p] \in Takes /\ "event" \in Labels /\ "pay" \in Taking_pc
  BY InTake DEF IInv, Pay, Taking_pc, Labels
<1>2. /\ Goto(p, "event") /\ avail' = avail /\ row' = row /\ eventLock' = eventLock
      /\ tierLock' = tierLock /\ faults' = faults /\ doubled' = doubled /\ leaked' = leaked
  BY DEF Pay, locks
<1>3. MoneyTyped'
  BY <1>1, AddToType DEF Pay, TypeOK, MoneyTyped
<1>4. TypeOK'
  BY <1>1, <1>2, <1>3, GotoStep, MoneySame DEF TypeOK, Labels, MoneyTyped
<1>5. OthersKept(p)
  BY <1>1, <1>2, GotoStep DEF OthersKept
<1>6. Matches(p)' /\ ReadyNext(p) /\ ApartNext(p)
  BY <1>1, <1>2, GotoStep DEF Matches, ReadyNext, ApartNext, Taking_pc
<1> QED BY <1>1, <1>2, <1>4, <1>5, <1>6, Quiet DEF Step

LEMMA LockEventStep == ASSUME IInv, NEW p \in Procs, LockEvent(p) PROVE Step(p)
<1>1. TypeOK /\ op[p] \in Takes /\ "tier" \in Labels
  BY InTake DEF IInv, LockEvent, Taking_pc, Labels
<1>2. /\ Goto(p, "tier") /\ avail' = avail /\ row' = row /\ UNCHANGED money
      /\ tierLock' = tierLock /\ faults' = faults /\ doubled' = doubled /\ leaked' = leaked
  BY DEF LockEvent
<1>3. /\ eventLock' \in Procs \cup {NoProc}
      /\ \A q \in Procs \ {p} : eventLock = q => eventLock' = q
  BY <1>1, InventoryAssumption DEF LockEvent, TypeOK, EventFree
<1>4. TypeOK'
  BY <1>1, <1>2, <1>3, GotoStep, MoneySame DEF TypeOK, Labels, MoneyTyped
<1>5. OthersKept(p)
  BY <1>1, <1>2, <1>3, GotoStep DEF OthersKept
<1>6. Matches(p)' /\ ReadyNext(p) /\ ApartNext(p)
  BY <1>1, <1>2, GotoStep DEF Matches, ReadyNext, ApartNext, Taking_pc
<1> QED BY <1>1, <1>2, <1>4, <1>5, <1>6, Quiet DEF Step

(* The conditional UPDATE finds the seats and keeps the row locked.         *)
LEMMA UpdateTierStep == ASSUME IInv, NEW p \in Procs, UpdateTier(p) PROVE Step(p)
<1>1. TypeOK /\ op[p] \in Takes /\ op[p].tier \in Tiers /\ "insert" \in Labels
  BY InTake DEF IInv, UpdateTier, Taking_pc, Labels
<1>2. /\ Goto(p, "insert") /\ avail' = avail /\ row' = row /\ UNCHANGED money
      /\ eventLock' = eventLock /\ faults' = faults /\ doubled' = doubled /\ leaked' = leaked
  BY DEF UpdateTier
<1>3. PICK t \in Tiers : t = op[p].tier
  BY <1>1
<1>4. tierLock[t] = NoProc /\ tierLock' = [tierLock EXCEPT ![t] = p] /\ avail[t] >= Quantity(op[p])
  BY <1>3 DEF UpdateTier, Enough
<1>5. /\ tierLock' \in [Tiers -> Procs \cup {NoProc}] /\ tierLock'[t] = p
      /\ \A q \in Procs \ {p} : \A u \in Tiers : tierLock[u] = q => tierLock'[u] = q
  BY <1>1, <1>4, InventoryAssumption DEF TypeOK
<1>6. TypeOK'
  BY <1>1, <1>2, <1>5, GotoStep, MoneySame DEF TypeOK, Labels, MoneyTyped
<1>7. OthersKept(p)
  BY <1>1, <1>2, <1>5, GotoStep DEF OthersKept
<1>8. Matches(p)' /\ ApartNext(p)
  BY <1>1, <1>2, GotoStep DEF Matches, ApartNext, Taking_pc
<1>9. ReadyNext(p)
  BY <1>1, <1>2, <1>3, <1>4, <1>5, GotoStep DEF ReadyNext
<1> QED BY <1>1, <1>2, <1>6, <1>7, <1>8, <1>9, Quiet DEF Step

(* Every way out that changes neither seats nor claims.                     *)
LEMMA EndsQuietly ==
    ASSUME IInv, NEW p \in Procs, End(p), MoneyTyped',
           avail' = avail, row' = row, faults' \in 0 .. MaxFaults,
           doubled' \in [Tiers -> Nat], leaked' \in [Tiers -> Nat]
    PROVE  Step(p)
<1>1. TypeOK
  BY DEF IInv
<1>2. TypeOK'
  BY <1>1, EndStep DEF TypeOK, Labels, MoneyTyped
<1>3. OthersKept(p)
  BY <1>1, EndStep DEF OthersKept
<1> QED BY <1>1, <1>2, <1>3, EndStep, Quiet, IdleNext DEF Step

LEMMA QuietEnds ==
    ASSUME IInv, NEW p \in Procs, PayRefused(p) \/ Refund(p) \/ RefundRefused(p)
    PROVE  Step(p)
<1>1. End(p) /\ avail' = avail /\ row' = row /\ doubled' = doubled /\ leaked' = leaked
      /\ faults' = faults /\ TypeOK
  BY DEF PayRefused, Refund, RefundRefused, IInv
<1>2. MoneyTyped'
  <2>1. CASE PayRefused(p)
    BY <1>1, <2>1, MoneySame DEF PayRefused
  <2>2. CASE Refund(p)
    <3>1. charged \in [Persons -> Int] /\ charged' = AddTo(charged, op[p].who, -1)
      BY <1>1, <2>2 DEF Refund, TypeOK
    <3>2. charged' \in [Persons -> Int]
      BY <3>1 DEF AddTo
    <3> QED BY <1>1, <2>2, <3>2 DEF Refund, TypeOK, MoneyTyped
  <2>3. CASE RefundRefused(p)
    <3>1. unrefunded' \in [Persons -> Nat]
      BY <1>1, <2>3, AddOne DEF RefundRefused, TypeOK
    <3> QED BY <1>1, <2>3, <3>1 DEF RefundRefused, TypeOK, MoneyTyped
  <2> QED BY <2>1, <2>2, <2>3
<1> QED BY <1>1, <1>2, EndsQuietly DEF IInv, TypeOK

(* A crash: what the reaper had still to return is leaked.                  *)
LEMMA DiesStep == ASSUME IInv, NEW p \in Procs, Dies(p) PROVE Step(p)
<1>1. End(p) /\ avail' = avail /\ row' = row /\ doubled' = doubled
  BY DEF Dies
<1>2. faults' \in 0 .. MaxFaults
  BY FaultStep DEF IInv, TypeOK, Dies
<1>3. ASSUME NEW t \in Tiers, pc[p] = "return"
      PROVE  Cardinality(OnTier(op[p].who, t)) \in Nat
  BY <1>3, ChangeIsOp, OpWho, OnTierCount DEF IInv, OpsMatch, Matches
<1>4. leaked' \in [Tiers -> Nat]
  BY <1>3 DEF Dies, IInv, TypeOK
<1>5. MoneyTyped'
  <2>1. unrefunded' \in [Persons -> Nat]
    BY AddOne DEF Dies, IInv, TypeOK
  <2> QED BY <2>1 DEF Dies, IInv, TypeOK, MoneyTyped
<1> QED BY <1>1, <1>2, <1>4, <1>5, EndsQuietly DEF IInv, TypeOK

(* The types of everything a call keeps for itself.                         *)
CallsTyped ==
    /\ eventLock \in Procs \cup {NoProc} /\ tierLock \in [Tiers -> Procs \cup {NoProc}]
    /\ pc \in [Procs -> Labels] /\ op \in [Procs -> Ops \cup {NoOp}]
    /\ claimed \in [Procs -> BOOLEAN] /\ begun \in 0 .. MaxOps

(* A call that ends is a step if the seats and claims it leaves are sound.  *)
LEMMA EndsSoundly ==
    ASSUME IInv, NEW p \in Procs, End(p)
    PROVE  /\ CallsTyped' /\ OthersKept(p) /\ Matches(p)' /\ ReadyNext(p) /\ ApartNext(p)
           /\ pc'[p] = "idle"
<1>1. TypeOK
  BY DEF IInv
<1> QED BY <1>1, EndStep, IdleNext DEF CallsTyped, OthersKept

(* Seats gone or insert failed: a purchase refunds, any other call is over. *)
LEMMA GiveUpStep ==
    ASSUME IInv, NEW p \in Procs, pc[p] \in {"event", "tier", "insert"}, GiveUp(p)
    PROVE  /\ CallsTyped' /\ OthersKept(p) /\ Matches(p)' /\ ReadyNext(p) /\ ApartNext(p)
           /\ pc'[p] \in {"idle", "refund"}
<1>1. TypeOK /\ op[p] \in Takes /\ "refund" \in Labels
  BY InTake DEF IInv, Taking_pc, Labels
<1>2. CASE End(p)
  BY <1>2, EndsSoundly
<1>3. CASE Goto(p, "refund") /\ op[p].pay = "wallet"
  <2>1. Release(p)
    BY DEF GiveUp
  <2>2. CallsTyped' /\ OthersKept(p) /\ pc'[p] = "refund" /\ op' = op
    BY <1>1, <1>3, <2>1, GotoStep, ReleaseStep DEF CallsTyped, OthersKept, TypeOK
  <2>3. Matches(p)' /\ ReadyNext(p) /\ ApartNext(p)
    BY <1>1, <1>3, <2>2 DEF Matches, ReadyNext, ApartNext, Taking_pc
  <2> QED BY <2>2, <2>3
<1> QED BY <1>2, <1>3 DEF GiveUp

(* A status the module knows makes a row.                                   *)
LEMMA RowType ==
    ASSUME NEW t \in Tiers, NEW s \in Statuses
    PROVE  /\ [tier |-> t, status |-> s] \in Row /\ [tier |-> t, status |-> s] # NoRow
<1>1. [tier |-> t, status |-> s] \in Row
  BY DEF Row
<1> QED BY <1>1, NullAssumption, Zenon

LEMMA StatusType == ASSUME NEW o PROVE Status(o) \in Statuses /\ Status(o) \in Taking
BY DEF Status, Statuses, Taking

(* A new count between 0 and the capacity keeps the counts typed.           *)
LEMMA SeatsType ==
    ASSUME TypeOK, NEW t \in Tiers, NEW n \in Nat, n <= Capacity[t],
           avail' = [avail EXCEPT ![t] = n]
    PROVE  /\ avail' \in [Tiers -> Nat] /\ \A u \in Tiers : avail'[u] <= Capacity[u]
           /\ avail'[t] = n /\ \A u \in Tiers \ {t} : avail'[u] = avail[u]
<1>1. /\ avail' \in [Tiers -> Nat]
      /\ avail'[t] = n /\ \A u \in Tiers \ {t} : avail'[u] = avail[u]
  BY DEF TypeOK
<1>2. \A u \in Tiers : avail[u] <= Capacity[u]
  BY DEF TypeOK
<1> QED BY <1>1, <1>2

(* The commit that takes seats: only the tier's lock holder does it.        *)
LEMMA TakenStep ==
    ASSUME IInv, NEW p \in Procs, Taken(p)
    PROVE  /\ avail' \in [Tiers -> Nat] /\ \A t \in Tiers : avail'[t] <= Capacity[t]
           /\ row' \in [Claims -> Row \cup {NoRow}]
           /\ RowsStay /\ SeatsGrow(p)
           /\ doubled' = doubled /\ leaked' = leaked
           /\ charged' = charged /\ unrefunded' = unrefunded /\ bought' \in SUBSET Persons
<1>1. TypeOK /\ pc[p] = "insert" /\ op[p] \in Takes /\ op[p] \in Ops
  BY InTake DEF IInv, Taken, Taking_pc
<1>2. PICK t \in Tiers : t = op[p].tier
  BY <1>1, TakeTier
<1>3. PICK q \in Nat : q = Quantity(op[p])
  BY <1>1, OpWho
<1>4. avail[t] >= q /\ tierLock[t] = p
  BY <1>1, <1>2, <1>3 DEF IInv, SeatsReady
<1>5. avail' = [avail EXCEPT ![t] = avail[t] - q]
  BY <1>2, <1>3 DEF Taken
<1>6. avail' \in [Tiers -> Nat] /\ \A u \in Tiers : avail'[u] <= Capacity[u]
  <2>1. avail[t] \in Nat /\ Capacity[t] \in Nat /\ avail[t] <= Capacity[t]
    BY <1>1, InventoryAssumption DEF TypeOK
  <2>2. avail[t] - q \in Nat /\ avail[t] - q <= Capacity[t]
    BY <1>4, <2>1
  <2> QED BY <1>1, <1>5, <2>2, SeatsType
<1>7. SeatsGrow(p)
  BY <1>1, <1>4, <1>5 DEF SeatsGrow, TypeOK
<1>8. PICK r : r = [tier |-> t, status |-> Status(op[p])]
  OBVIOUS
<1>9. r \in Row /\ r # NoRow
  BY <1>8, RowType, StatusType
<1>10. row' = [c \in Claims |-> IF c \in op[p].who THEN r ELSE row[c]]
  BY <1>2, <1>8 DEF Taken
<1>11. row' \in [Claims -> Row \cup {NoRow}]
  BY <1>1, <1>9, <1>10 DEF TypeOK
<1>12. \A c \in op[p].who : row[c] = NoRow
  BY DEF Taken, Duplicate
<1>13. RowsStay
  BY <1>10, <1>12 DEF RowsStay
<1>14. bought' \in SUBSET Persons
  BY <1>1, WalletParty DEF Taken, TypeOK
<1> QED BY <1>6, <1>7, <1>11, <1>13, <1>14 DEF Taken

LEMMA TakingSteps ==
    ASSUME IInv, NEW p \in Procs,
           \/ CommitTake(p) \/ SoldOut(p) \/ InsertDuplicate(p) \/ InsertError(p)
           \/ CommitUnanswered(p)
    PROVE  Step(p)
<1>1. CASE CommitTake(p)
  <2>1. Taken(p) /\ End(p) /\ faults' = faults /\ unanswered' = unanswered
    BY <1>1 DEF CommitTake
  <2>2. TypeOK'
    BY <2>1, TakenStep, EndsSoundly DEF TypeOK, CallsTyped, Labels, IInv
  <2> QED BY <2>1, <2>2, TakenStep, EndsSoundly DEF Step
<1>2. CASE SoldOut(p) \/ InsertDuplicate(p) \/ InsertError(p)
  <2>1. /\ pc[p] \in {"event", "tier", "insert"} /\ GiveUp(p) /\ avail' = avail /\ row' = row
        /\ doubled' = doubled /\ leaked' = leaked /\ UNCHANGED money
    BY <1>2 DEF SoldOut, InsertDuplicate, InsertError
  <2>2. faults' \in 0 .. MaxFaults
    BY <1>2, FaultStep DEF IInv, TypeOK, SoldOut, InsertDuplicate, InsertError
  <2>3. TypeOK'
    BY <2>1, <2>2, GiveUpStep, MoneySame DEF TypeOK, CallsTyped, Labels, IInv, MoneyTyped
  <2> QED BY <2>1, <2>3, GiveUpStep, Quiet DEF Step, IInv
<1>3. CASE CommitUnanswered(p)
  <2>1. Taken(p) /\ GiveUp(p) /\ pc[p] = "insert"
    BY <1>3 DEF CommitUnanswered, Taken
  <2>2. faults' \in 0 .. MaxFaults /\ unanswered' \in [Persons -> Nat]
    BY <1>3, FaultStep, AddOne DEF IInv, CommitUnanswered, TypeOK
  <2>3. TypeOK'
    BY <2>1, <2>2, TakenStep, GiveUpStep DEF TypeOK, CallsTyped, Labels, IInv
  <2> QED BY <2>1, <2>3, TakenStep, GiveUpStep DEF Step
<1> QED BY <1>1, <1>2, <1>3

LEMMA RetryDecrementStep == ASSUME IInv, NEW p \in Procs, RetryDecrement(p) PROVE Step(p)
<1>1. TypeOK /\ op[p] \in Takes /\ "event" \in Labels
  BY InTake DEF IInv, RetryDecrement, Taking_pc, Labels
<1>2. /\ Release(p) /\ Goto(p, "event") /\ avail' = avail /\ row' = row
      /\ UNCHANGED money /\ doubled' = doubled /\ leaked' = leaked
  BY DEF RetryDecrement
<1>3. faults' \in 0 .. MaxFaults
  BY FaultStep DEF IInv, RetryDecrement
<1>4. TypeOK'
  BY <1>1, <1>2, <1>3, GotoStep, ReleaseStep, MoneySame DEF TypeOK, Labels, MoneyTyped
<1>5. OthersKept(p)
  BY <1>1, <1>2, GotoStep, ReleaseStep DEF OthersKept
<1>6. Matches(p)' /\ ReadyNext(p) /\ ApartNext(p)
  BY <1>1, <1>2, GotoStep DEF Matches, ReadyNext, ApartNext, Taking_pc
<1> QED BY <1>1, <1>2, <1>4, <1>5, <1>6, Quiet DEF Step

(* Returning n seats to a tier.                                             *)
LEMMA ReturnKeeps ==
    ASSUME TypeOK, NEW p \in Procs, NEW t \in Tiers, NEW n \in Nat,
           avail' = [avail EXCEPT ![t] = Returned(t, n)]
    PROVE  /\ avail' \in [Tiers -> Nat] /\ \A u \in Tiers : avail'[u] <= Capacity[u]
           /\ avail'[t] = Returned(t, n) /\ \A u \in Tiers \ {t} : avail'[u] = avail[u]
           /\ SeatsGrow(p)
<1>1. PICK m \in Nat : m = Returned(t, n) /\ m <= Capacity[t] /\ m >= avail[t]
  BY ReturnedRange
<1>2. avail' = [avail EXCEPT ![t] = m]
  BY <1>1
<1>3. /\ avail' \in [Tiers -> Nat] /\ \A u \in Tiers : avail'[u] <= Capacity[u]
      /\ avail'[t] = m /\ \A u \in Tiers \ {t} : avail'[u] = avail[u]
  BY <1>1, <1>2, SeatsType
<1> QED BY <1>1, <1>3 DEF SeatsGrow, TypeOK

(* A new status for one claim.                                              *)
LEMMA StoreKeeps ==
    ASSUME TypeOK, NEW c \in Claims, row[c] # NoRow, NEW s \in Statuses, s # "pending",
           Store(c, s)
    PROVE  /\ row' \in [Claims -> Row \cup {NoRow}] /\ RowsStay
           /\ row'[c] # NoRow /\ row'[c].tier = row[c].tier /\ row'[c].status = s
           /\ \A d \in Claims \ {c} : row'[d] = row[d]
<1>1. row[c].tier \in Tiers
  BY DEF TypeOK, Row
<1>2. PICK r : r = [tier |-> row[c].tier, status |-> s]
  OBVIOUS
<1>3. r \in Row /\ r # NoRow /\ r.tier = row[c].tier /\ r.status = s
  BY <1>1, <1>2, RowType
<1>4. row' = [row EXCEPT ![c] = r]
  BY <1>2 DEF Store
<1> QED BY <1>3, <1>4 DEF TypeOK, RowsStay

(* A process about to change a claim: the claim exists.                     *)
LEMMA InChange ==
    ASSUME IInv, NEW p \in Procs, pc[p] = "write", NEW c \in Claims, op[p].who = {c}
    PROVE  row[c] # NoRow /\ row[c].tier \in Tiers
<1>1. row[c] # NoRow
  BY DEF IInv, OpsMatch, Matches, Exist
<1> QED BY <1>1 DEF IInv, TypeOK, Row

LEMMA CancelStep ==
    ASSUME IInv, NEW p \in Procs, Cancel(p) \/ CancelRetried(p) PROVE Step(p)
<1>1. TypeOK
  BY DEF IInv
<1>2. PICK c \in Claims :
        /\ pc[p] = "write" /\ op[p].who = {c} /\ End(p) /\ leaked' = leaked /\ UNCHANGED money
        /\ avail' = [avail EXCEPT ![row[c].tier] = Returned(row[c].tier, 1)]
        /\ \/ /\ Store(c, "cancelled") /\ faults' = faults
              /\ doubled' = [doubled EXCEPT ![row[c].tier] =
                               IF row[c].status \in Taking THEN @ ELSE @ + 1]
           \/ /\ row' = row /\ Fault
              /\ doubled' = [doubled EXCEPT ![row[c].tier] = @ + 1]
  BY DEF Cancel, CancelRetried
<1>3. PICK t \in Tiers : t = row[c].tier /\ row[c] # NoRow
  BY <1>2, InChange
<1>4. avail' = [avail EXCEPT ![t] = Returned(t, 1)] /\ 1 \in Nat
  BY <1>2, <1>3
<1>5. doubled' \in [Tiers -> Nat]
  BY <1>1, <1>2, <1>3 DEF TypeOK
<1>6. row' \in [Claims -> Row \cup {NoRow}] /\ RowsStay
  <2>1. CASE row' = row
    BY <1>1, <2>1 DEF TypeOK, RowsStay
  <2>2. CASE Store(c, "cancelled")
    BY <1>1, <1>3, <2>2, StoreKeeps DEF Statuses
  <2> QED BY <1>2, <2>1, <2>2
<1>7. faults' \in 0 .. MaxFaults
  BY <1>1, <1>2, FaultStep DEF TypeOK
<1>8. /\ avail' \in [Tiers -> Nat] /\ \A u \in Tiers : avail'[u] <= Capacity[u]
      /\ SeatsGrow(p)
  BY <1>1, <1>4, ReturnKeeps
<1>9. CallsTyped' /\ OthersKept(p) /\ Matches(p)' /\ ReadyNext(p) /\ ApartNext(p) /\ leaked' = leaked
  BY <1>2, EndsSoundly
<1>10. TypeOK'
  BY <1>1, <1>2, <1>5, <1>6, <1>7, <1>8, <1>9, MoneySame DEF TypeOK, CallsTyped, Labels, MoneyTyped
<1> QED BY <1>6, <1>8, <1>9, <1>10 DEF Step

LEMMA OccupyStep == ASSUME IInv, NEW p \in Procs, Occupy(p) PROVE Step(p)
<1>1. TypeOK
  BY DEF IInv
<1>2. PICK c \in Claims, s \in {"checked_in", "confirmed"} :
        /\ pc[p] = "write" /\ op[p].who = {c} /\ Store(c, s) /\ End(p)
        /\ avail' = avail /\ faults' = faults /\ leaked' = leaked /\ UNCHANGED money
        /\ doubled' = [doubled EXCEPT ![row[c].tier] =
                         IF row[c].status \in Taking THEN @ ELSE @ + 1]
  BY DEF Occupy
<1>3. PICK t \in Tiers : t = row[c].tier /\ row[c] # NoRow
  BY <1>2, InChange
<1>4. doubled' \in [Tiers -> Nat]
  BY <1>1, <1>2, <1>3 DEF TypeOK
<1>5. row' \in [Claims -> Row \cup {NoRow}] /\ RowsStay
  BY <1>1, <1>2, <1>3, StoreKeeps DEF Statuses
<1>6. TypeOK'
  BY <1>1, <1>2, <1>4, <1>5, EndsSoundly, MoneySame DEF TypeOK, CallsTyped, Labels, MoneyTyped
<1>7. SeatsGrow(p)
  BY <1>1, <1>2 DEF SeatsGrow, TypeOK
<1> QED BY <1>2, <1>5, <1>6, <1>7, EndsSoundly DEF Step

(* A process in a batch: its claims exist.                                  *)
LEMMA InBatch ==
    ASSUME IInv, NEW p \in Procs, pc[p] \in {"return", "release"}
    PROVE  /\ op[p] \in Batches /\ op[p].who \subseteq Claims /\ Exist(op[p])
           /\ \A c \in op[p].who : row[c].tier \in Tiers
<1>1. op[p] \in Batches /\ Exist(op[p])
  BY DEF IInv, OpsMatch, Matches, Exist, Expired
<1>2. op[p].who \subseteq Claims
  BY <1>1, ChangeIsOp, OpWho
<1> QED BY <1>1, <1>2 DEF IInv, TypeOK, Row, Exist

(* The beat task returns the seats of its holds and marks them released.    *)
LEMMA ReleaseHoldsStep == ASSUME IInv, NEW p \in Procs, ReleaseHolds(p) PROVE Step(p)
<1>1. /\ TypeOK /\ pc[p] = "release" /\ End(p) /\ faults' = faults /\ leaked' = leaked
      /\ UNCHANGED money
  BY DEF IInv, ReleaseHolds
<1>2. PICK S \in SUBSET Claims : S = op[p].who /\ \A c \in S : row[c] # NoRow /\ row[c].tier \in Tiers
  BY <1>1, InBatch DEF Exist
<1>3. /\ avail' = [t \in Tiers |-> Returned(t, Cardinality(OnTier(S, t)))]
      /\ row' = [c \in Claims |-> IF c \in S THEN [tier |-> row[c].tier, status |-> "released"]
                                             ELSE row[c]]
      /\ doubled' = [t \in Tiers |-> doubled[t] + Cardinality(OnTier(S, t) \ Held(t))]
  BY <1>2 DEF ReleaseHolds
<1>4. ASSUME NEW t \in Tiers
      PROVE  /\ Returned(t, Cardinality(OnTier(S, t))) \in Nat
             /\ Returned(t, Cardinality(OnTier(S, t))) <= Capacity[t]
             /\ Returned(t, Cardinality(OnTier(S, t))) >= avail[t]
             /\ Cardinality(OnTier(S, t) \ Held(t)) \in Nat
  BY <1>1, OnTierCount, ReturnedRange, FS_Difference, FS_CardinalityType
<1>5. /\ avail' \in [Tiers -> Nat] /\ \A t \in Tiers : avail'[t] <= Capacity[t]
      /\ SeatsGrow(p)
  BY <1>3, <1>4 DEF SeatsGrow
<1>6. doubled' \in [Tiers -> Nat]
  BY <1>1, <1>3, <1>4 DEF TypeOK
<1>7. \A c \in S : /\ [tier |-> row[c].tier, status |-> "released"] \in Row
                   /\ [tier |-> row[c].tier, status |-> "released"] # NoRow
  BY <1>2, RowType DEF Statuses
<1>8. row' \in [Claims -> Row \cup {NoRow}]
  BY <1>1, <1>3, <1>7 DEF TypeOK
<1>9. \A c \in Claims : IF c \in S THEN /\ row'[c] # NoRow /\ row'[c].tier = row[c].tier
                                        /\ row'[c].status = "released"
                                   ELSE row'[c] = row[c]
  <2> SUFFICES ASSUME NEW c \in S
               PROVE  row'[c] # NoRow /\ row'[c].tier = row[c].tier /\ row'[c].status = "released"
    BY <1>3
  <2>1. row'[c] = [tier |-> row[c].tier, status |-> "released"]
    BY <1>3
  <2>2. row'[c] # NoRow
    BY <1>7, <2>1, Zenon
  <2> QED BY <2>1, <2>2
<1>10. RowsStay
  BY <1>9 DEF RowsStay
<1>11. CallsTyped' /\ OthersKept(p) /\ Matches(p)' /\ ReadyNext(p) /\ ApartNext(p)
  BY <1>1, EndsSoundly
<1>12. TypeOK'
  BY <1>1, <1>5, <1>6, <1>8, <1>11, MoneySame DEF TypeOK, CallsTyped, Labels, MoneyTyped
<1> QED BY <1>5, <1>10, <1>11, <1>12 DEF Step

(* A reaper done with part of its registrations.                            *)
LEMMA DoneStep ==
    ASSUME IInv, NEW p \in Procs, pc[p] = "return", NEW S, Done(p, S), row' = row
    PROVE  /\ CallsTyped' /\ OthersKept(p) /\ Matches(p)' /\ ReadyNext(p) /\ ApartNext(p)
           /\ \/ pc'[p] = "idle" /\ op[p].who = S
              \/ pc'[p] = "return" /\ op'[p].who = op[p].who \ S
<1>1. TypeOK /\ op[p] \in Batches /\ op[p].who \subseteq Claims
  BY InBatch DEF IInv
<1>2. Expired(op[p])
  BY DEF IInv, OpsMatch, Matches
<1>3. CASE op[p].who = S
  BY <1>3, EndsSoundly DEF Done
<1>4. CASE op[p].who # S
  <2>1. /\ op' = [op EXCEPT ![p] = [kind |-> "reap", who |-> op[p].who \ S]]
        /\ UNCHANGED <<locks, pc, claimed, begun>>
    BY <1>4 DEF Done
  <2>2. PICK o \in Batches : o = [kind |-> "reap", who |-> op[p].who \ S] /\ o.who = op[p].who \ S
    <3>1. op[p].who \ S \in SUBSET Claims
      BY <1>1
    <3> QED BY <3>1, BatchPart
  <2>3. o \in Ops /\ op' = [op EXCEPT ![p] = o]
    BY <2>1, <2>2, ChangeIsOp
  <2>4. op' \in [Procs -> Ops \cup {NoOp}] /\ op'[p] = o /\ \A q \in Procs \ {p} : op'[q] = op[q]
    BY <1>1, <2>3 DEF TypeOK
  <2>5. CallsTyped' /\ OthersKept(p)
    BY <1>1, <2>1, <2>4 DEF CallsTyped, OthersKept, TypeOK, Labels, locks
  <2>6. pc'[p] = "return" /\ o.who \subseteq op[p].who
    BY <2>1, <2>2
  <2>7. ReadyNext(p)
    BY <2>6 DEF ReadyNext
  <2>8. ApartNext(p)
    BY <2>4, <2>6 DEF ApartNext, IInv, ReturnsApart
  <2>9. Matches(p)'
    BY <1>2, <2>4, <2>6 DEF Matches, Expired, Taking_pc
  <2> QED BY <2>2, <2>4, <2>5, <2>6, <2>7, <2>8, <2>9
<1> QED BY <1>3, <1>4

(* The reaper's second half, one tier at a time.                            *)
LEMMA ReturnSeatsStep ==
    ASSUME IInv, NEW p \in Procs, NEW t \in Tiers,
           ReturnSeats(p, t) \/ ReturnRetried(p, t) \/ ReturnAbandoned(p, t)
    PROVE  Step(p)
<1>1. TypeOK /\ pc[p] = "return" /\ row' = row /\ UNCHANGED money
  BY DEF IInv, ReturnSeats, ReturnRetried, ReturnAbandoned
<1>2. op[p] \in Batches /\ op[p].who \subseteq Claims
  BY <1>1, InBatch
<1>3. PICK S \in SUBSET Claims, n \in Nat : S = OnTier(op[p].who, t) /\ n = Cardinality(S)
  BY <1>2, OnTierCount
<1>4. /\ avail' = avail \/ avail' = [avail EXCEPT ![t] = Returned(t, n)]
      /\ Done(p, S) \/ UNCHANGED <<locks, pc, op, claimed, begun>>
      /\ doubled' = doubled \/ doubled' = [doubled EXCEPT ![t] = @ + n]
      /\ leaked' = leaked \/ leaked' = [leaked EXCEPT ![t] = @ + n]
      /\ faults' = faults \/ Fault
  BY <1>3 DEF ReturnSeats, ReturnRetried, ReturnAbandoned
<1>5. /\ avail' \in [Tiers -> Nat] /\ \A u \in Tiers : avail'[u] <= Capacity[u]
      /\ SeatsGrow(p)
  <2>1. CASE avail' = avail
    BY <1>1, <2>1 DEF TypeOK, SeatsGrow
  <2>2. CASE avail' = [avail EXCEPT ![t] = Returned(t, n)]
    BY <1>1, <2>2, ReturnKeeps
  <2> QED BY <1>4, <2>1, <2>2
<1>6. CallsTyped' /\ OthersKept(p) /\ Matches(p)' /\ ReadyNext(p) /\ ApartNext(p)
  <2>1. CASE Done(p, S)
    BY <1>1, <2>1, DoneStep
  <2>2. CASE UNCHANGED <<locks, pc, op, claimed, begun>>
    <3>1. CallsTyped' /\ OthersKept(p)
      BY <1>1, <2>2 DEF CallsTyped, OthersKept, TypeOK, Labels, locks
    <3>2. Matches(p)'
      BY <1>1, <2>2 DEF IInv, OpsMatch, Matches, Exist, Expired, Taking_pc
    <3>3. ReadyNext(p) /\ ApartNext(p)
      BY <1>1, <2>2 DEF ReadyNext, ApartNext, IInv, ReturnsApart
    <3> QED BY <3>1, <3>2, <3>3
  <2> QED BY <1>4, <2>1, <2>2
<1>7. /\ doubled' \in [Tiers -> Nat] /\ leaked' \in [Tiers -> Nat]
      /\ faults' \in 0 .. MaxFaults
  BY <1>1, <1>4, FaultStep DEF TypeOK
<1>8. TypeOK'
  BY <1>1, <1>5, <1>6, <1>7, MoneySame DEF TypeOK, CallsTyped, Labels, MoneyTyped
<1>9. RowsStay
  BY <1>1 DEF RowsStay
<1> QED BY <1>5, <1>6, <1>8, <1>9 DEF Step

LEMMA ReleaseRetriedStep == ASSUME IInv, NEW p \in Procs, ReleaseRetried(p) PROVE Step(p)
<1>1. TypeOK /\ pc[p] = "release" /\ Fault /\ claimed' = [claimed EXCEPT ![p] = FALSE]
  BY DEF IInv, ReleaseRetried
<1>2. /\ avail' = avail /\ row' = row /\ eventLock' = eventLock /\ tierLock' = tierLock
      /\ pc' = pc /\ begun' = begun /\ UNCHANGED money
      /\ doubled' = doubled /\ leaked' = leaked
  BY DEF ReleaseRetried, locks
<1>3. PICK c \in op[p].who : op' = [op EXCEPT ![p] = [kind |-> "beat", who |-> {c}]]
  BY DEF ReleaseRetried
<1>4. op[p].who \subseteq Claims /\ Exist(op[p])
  BY <1>1, InBatch
<1>5. PICK o \in Batches : o = [kind |-> "beat", who |-> {c}] /\ o.who = {c}
  <2>1. {c} \in SUBSET Claims
    BY <1>4
  <2> QED BY <2>1, BatchPart
<1>6. op' = [op EXCEPT ![p] = o] /\ o \in Ops
  BY <1>3, <1>5, ChangeIsOp
<1>7. op' \in [Procs -> Ops \cup {NoOp}] /\ op'[p] = o /\ \A q \in Procs \ {p} : op'[q] = op[q]
  BY <1>1, <1>6 DEF TypeOK
<1>8. TypeOK'
  BY <1>1, <1>2, <1>7, FaultStep, MoneySame DEF TypeOK, MoneyTyped
<1>9. OthersKept(p)
  BY <1>2, <1>7 DEF OthersKept
<1>10. Matches(p)' /\ ReadyNext(p) /\ ApartNext(p)
  BY <1>1, <1>2, <1>4, <1>5, <1>7 DEF Matches, ReadyNext, ApartNext, Exist, Taking_pc
<1> QED BY <1>1, <1>2, <1>8, <1>9, <1>10, Quiet DEF Step

-----------------------------------------------------------------------------
(* Hence the invariant.                                                     *)

LEMMA EveryStep == ASSUME IInv, Next PROVE \E p \in Procs : Step(p)
BY BeginTakeStep, BeginChangeStep, ReapStep, ClaimHoldsStep, PayStep, QuietEnds,
   LockEventStep, UpdateTierStep, TakingSteps, CancelStep, OccupyStep,
   ReleaseHoldsStep, ReturnSeatsStep, RetryDecrementStep, ReleaseRetriedStep, DiesStep
   DEF Next

LEMMA InitInv == Init => IInv
<1> SUFFICES ASSUME Init PROVE IInv
  OBVIOUS
<1>1. TypeOK
  BY InventoryAssumption DEF Init, TypeOK
<1>2. OpsMatch /\ ReturnsApart /\ SeatsReady
  BY DEF Init, OpsMatch, Matches, ReturnsApart, SeatsReady, Taking_pc
<1> QED BY <1>1, <1>2 DEF IInv

LEMMA StutterInv == IInv /\ UNCHANGED vars => IInv'
BY DEF IInv, vars, locks, money, TypeOK, OpsMatch, Matches, Exist, Expired, ReturnsApart,
       SeatsReady, Quantity

(* In every state each process is in a call that fits its step, its claims  *)
(* exist, reapers have nothing in common and an inserter has its seats.     *)
THEOREM Invariant == Spec => []IInv
<1>1. IInv /\ [Next]_vars => IInv'
  BY EveryStep, StepKeeps, StutterInv
<1> QED BY <1>1, InitInv, PTL DEF Spec

(* Every variable keeps its type; available_seats stays between 0 and the   *)
(* capacity whoever takes and returns seats.                                *)
THEOREM TypeCorrect == Spec => []TypeOK
<1>1. IInv => TypeOK
  BY DEF IInv
<1> QED BY <1>1, Invariant, PTL

-----------------------------------------------------------------------------
(* Charges.                                                                 *)

Buys(p, c) == Charged(p) /\ c \in op[p].who
Bought(c) == Cardinality(bought \cap {c})

(* Every wallet payment reference is of a registration.                     *)
BoughtExist == \A c \in bought : row[c] # NoRow

(* How a step of p changes the number of running purchases for c.           *)
LEMMA BuyersChange ==
    ASSUME NEW p \in Procs, OthersKept(p), NEW c
    PROVE  /\ Cardinality(Buying(c)) \in Nat /\ Cardinality(Buying(c)') \in Nat
           /\ (Buys(p, c)' <=> Buys(p, c)) => Buying(c)' = Buying(c)
           /\ Buys(p, c)' /\ ~Buys(p, c) =>
                Cardinality(Buying(c)') = Cardinality(Buying(c)) + 1
           /\ ~Buys(p, c)' /\ Buys(p, c) =>
                Cardinality(Buying(c)) = Cardinality(Buying(c)') + 1
<1>1. \A q \in Procs \ {p} : Buys(q, c)' <=> Buys(q, c)
  BY DEF OthersKept, Buys, Charged
<1>2. /\ Buying(c) = {q \in Procs : Buys(q, c)} /\ Buying(c)' = {q \in Procs : Buys(q, c)'}
  BY DEF Buying, Buys
<1>3. IsFiniteSet(Buying(c)) /\ IsFiniteSet(Buying(c)')
  BY <1>2, FS_Subset, InventoryAssumption
<1>4. Cardinality(Buying(c)) \in Nat /\ Cardinality(Buying(c)') \in Nat
  BY <1>3, FS_CardinalityType
<1>5. ASSUME Buys(p, c)' <=> Buys(p, c) PROVE Buying(c)' = Buying(c)
  BY <1>1, <1>2, <1>5
<1>6. ASSUME Buys(p, c)', ~Buys(p, c)
      PROVE  Cardinality(Buying(c)') = Cardinality(Buying(c)) + 1
  <2>1. Buying(c)' = Buying(c) \cup {p} /\ p \notin Buying(c)
    BY <1>1, <1>2, <1>6
  <2> QED BY <1>3, <2>1, FS_AddElement
<1>7. ASSUME ~Buys(p, c)', Buys(p, c)
      PROVE  Cardinality(Buying(c)) = Cardinality(Buying(c)') + 1
  <2>1. Buying(c) = Buying(c)' \cup {p} /\ p \notin Buying(c)'
    BY <1>1, <1>2, <1>7
  <2> QED BY <1>3, <2>1, FS_AddElement
<1> QED BY <1>4, <1>5, <1>6, <1>7

LEMMA BoughtCount ==
    ASSUME NEW c PROVE Bought(c) = (IF c \in bought THEN 1 ELSE 0)
<1>1. CASE c \in bought
  <2>1. bought \cap {c} = {c}
    BY <1>1
  <2> QED BY <1>1, <2>1, FS_Singleton DEF Bought
<1>2. CASE c \notin bought
  <2>1. bought \cap {c} = {}
    BY <1>2
  <2> QED BY <1>2, <2>1, FS_EmptySet DEF Bought
<1> QED BY <1>1, <1>2

LEMMA BoughtCountNext ==
    ASSUME NEW c PROVE Bought(c)' = (IF c \in bought' THEN 1 ELSE 0)
<1>1. CASE c \in bought'
  <2>1. bought' \cap {c} = {c}
    BY <1>1
  <2> QED BY <1>1, <2>1, FS_Singleton DEF Bought
<1>2. CASE c \notin bought'
  <2>1. bought' \cap {c} = {}
    BY <1>2
  <2> QED BY <1>2, <2>1, FS_EmptySet DEF Bought
<1> QED BY <1>1, <1>2

(* The books of one person.                                                 *)
Balanced(c) ==
    charged[c] + unanswered[c] = Cardinality(Buying(c)) + Bought(c) + unrefunded[c]

LEMMA Accounts ==
    ASSUME TypeOK, TypeOK', NEW c \in Persons
    PROVE  /\ charged[c] \in Int /\ charged'[c] \in Int
           /\ unanswered[c] \in Nat /\ unanswered'[c] \in Nat
           /\ unrefunded[c] \in Nat /\ unrefunded'[c] \in Nat
BY DEF TypeOK

(* A step that moves no money and neither begins nor ends a charge.         *)
LEMMA MoneyStill ==
    ASSUME NEW p \in Procs, Step(p), UNCHANGED money, BoughtExist,
           \A c \in Persons : Buys(p, c)' <=> Buys(p, c),
           \A c \in Persons : Balanced(c)
    PROVE  BoughtExist' /\ \A c \in Persons : Balanced(c)'
<1>1. ASSUME NEW c \in Persons PROVE Balanced(c)'
  <2>1. Buying(c)' = Buying(c)
    BY BuyersChange DEF Step
  <2> QED BY <2>1 DEF Balanced, Bought, money
<1>2. bought \in SUBSET Persons /\ bought' = bought
  BY DEF Step, TypeOK, money
<1> QED BY <1>1, <1>2 DEF BoughtExist, Step, RowsStay, Claims

(* No purchase is charged at any other step of a call.                      *)
LEMMA NotCharged ==
    ASSUME NEW p, pc[p] \notin {"event", "tier", "insert", "refund"}, NEW c
    PROVE  ~Buys(p, c)
BY DEF Buys, Charged

LEMMA NotChargedNext ==
    ASSUME NEW p, pc'[p] \notin {"event", "tier", "insert", "refund"}, NEW c
    PROVE  ~Buys(p, c)'
BY DEF Buys, Charged

(* Steps outside the purchase, or inside it with the charge standing.       *)
LEMMA StillSteps ==
    ASSUME IInv, BoughtExist, \A c \in Persons : Balanced(c), Next,
           ~ \E p \in Procs : \/ Pay(p) \/ CommitTake(p) \/ CommitUnanswered(p) \/ Refund(p)
                              \/ RefundRefused(p) \/ Dies(p)
    PROVE  BoughtExist' /\ \A c \in Persons : Balanced(c)'
<1>0. TypeOK
  BY DEF IInv
<1>1. ASSUME NEW p \in Procs, NEW o \in Takes, BeginTake(p, o)
      PROVE  BoughtExist' /\ \A c \in Persons : Balanced(c)'
  <2>1. Step(p) /\ UNCHANGED money /\ pc[p] = "idle"
    BY <1>1, BeginTakeStep DEF BeginTake, Begin
  <2>2. pc'[p] = "pay" \/ op'[p].pay # "wallet"
    BY <1>0, <1>1 DEF BeginTake, Begin, TypeOK
  <2>3. \A c \in Persons : ~Buys(p, c)' /\ ~Buys(p, c)
    BY <2>1, <2>2 DEF Buys, Charged
  <2> QED BY <2>1, <2>3, MoneyStill
<1>2. ASSUME NEW p \in Procs, pc[p] \in {"idle", "pay", "write", "return", "release"},
             pc'[p] \in {"idle", "write", "return", "release"}, Step(p), UNCHANGED money
      PROVE  BoughtExist' /\ \A c \in Persons : Balanced(c)'
  <2>1. \A c \in Persons : ~Buys(p, c)' /\ ~Buys(p, c)
    BY <1>2, NotCharged, NotChargedNext
  <2> QED BY <1>2, <2>1, MoneyStill
<1>3. ASSUME NEW p \in Procs, NEW o \in Changes, BeginChange(p, o)
      PROVE  BoughtExist' /\ \A c \in Persons : Balanced(c)'
  <2>1. Step(p) /\ UNCHANGED money /\ pc[p] = "idle" /\ pc'[p] = "write"
    BY <1>0, <1>3, BeginChangeStep DEF BeginChange, Begin, TypeOK
  <2> QED BY <1>2, <2>1
<1>4. ASSUME NEW p \in Procs, NEW o \in Batches, Reap(p, o) \/ ClaimHolds(p, o)
      PROVE  BoughtExist' /\ \A c \in Persons : Balanced(c)'
  <2>1. Step(p)
    BY <1>4, ReapStep, ClaimHoldsStep
  <2>2. UNCHANGED money /\ pc[p] = "idle" /\ pc'[p] \in {"return", "release"}
    BY <1>0, <1>4 DEF Reap, ClaimHolds, Begin, TypeOK
  <2> QED BY <1>2, <2>1, <2>2
<1>5. ASSUME NEW p \in Procs,
             \/ PayRefused(p) \/ Cancel(p) \/ CancelRetried(p) \/ Occupy(p) \/ ReleaseHolds(p)
             \/ ReleaseRetried(p)
      PROVE  BoughtExist' /\ \A c \in Persons : Balanced(c)'
  <2>1. Step(p)
    BY <1>5, QuietEnds, CancelStep, OccupyStep, ReleaseHoldsStep, ReleaseRetriedStep
  <2>2. UNCHANGED money /\ pc[p] \in {"pay", "write", "release"}
    BY <1>5 DEF PayRefused, Cancel, CancelRetried, Occupy, ReleaseHolds, ReleaseRetried
  <2>3. pc'[p] \in {"idle", "release"}
    BY <1>0, <1>5, EndStep
       DEF PayRefused, Cancel, CancelRetried, Occupy, ReleaseHolds, ReleaseRetried
  <2> QED BY <1>2, <2>1, <2>2, <2>3
<1>6. ASSUME NEW p \in Procs, NEW t \in Tiers,
             ReturnSeats(p, t) \/ ReturnRetried(p, t) \/ ReturnAbandoned(p, t)
      PROVE  BoughtExist' /\ \A c \in Persons : Balanced(c)'
  <2>1. Step(p)
    BY <1>6, ReturnSeatsStep
  <2>2. UNCHANGED money /\ pc[p] = "return"
    BY <1>6 DEF ReturnSeats, ReturnRetried, ReturnAbandoned
  <2>3. pc'[p] \in {"idle", "return"}
    BY <1>6, <2>2, DoneStep DEF ReturnSeats, ReturnRetried, ReturnAbandoned
  <2> QED BY <1>2, <2>1, <2>2, <2>3
<1>7. ASSUME NEW p \in Procs, LockEvent(p) \/ UpdateTier(p) \/ RetryDecrement(p)
      PROVE  BoughtExist' /\ \A c \in Persons : Balanced(c)'
  <2>1. Step(p)
    BY <1>7, LockEventStep, UpdateTierStep, RetryDecrementStep
  <2>2. /\ UNCHANGED money /\ op' = op /\ pc[p] \in {"event", "tier", "insert"}
        /\ pc'[p] \in {"event", "tier", "insert"}
    BY <1>0, <1>7 DEF LockEvent, UpdateTier, RetryDecrement, Goto, TypeOK
  <2>3. \A c \in Persons : Buys(p, c)' <=> Buys(p, c)
    BY <2>2 DEF Buys, Charged
  <2> QED BY <2>1, <2>2, <2>3, MoneyStill
<1>8. ASSUME NEW p \in Procs, SoldOut(p) \/ InsertDuplicate(p) \/ InsertError(p)
      PROVE  BoughtExist' /\ \A c \in Persons : Balanced(c)'
  <2>1. Step(p)
    BY <1>8, TakingSteps
  <2>2. UNCHANGED money /\ GiveUp(p) /\ pc[p] \in {"event", "tier", "insert"}
    BY <1>8 DEF SoldOut, InsertDuplicate, InsertError
  <2>3. \A c \in Persons : Buys(p, c)' <=> Buys(p, c)
    <3>1. CASE op[p].pay = "wallet"
      <4>1. op' = op /\ pc'[p] = "refund"
        BY <1>0, <2>2, <3>1 DEF GiveUp, Goto, TypeOK
      <4> QED BY <2>2, <3>1, <4>1 DEF Buys, Charged
    <3>2. CASE op[p].pay # "wallet"
      <4>1. pc'[p] = "idle"
        BY <1>0, <2>2, <3>2, EndStep DEF GiveUp
      <4> QED BY <3>2, <4>1 DEF Buys, Charged
    <3> QED BY <3>1, <3>2
  <2> QED BY <2>1, <2>2, <2>3, MoneyStill
<1> QED BY <1>1, <1>3, <1>4, <1>5, <1>6, <1>7, <1>8 DEF Next

(* The withdrawal: one more charge, one more running purchase.              *)
LEMMA PayBalanced ==
    ASSUME IInv, BoughtExist, \A c \in Persons : Balanced(c), NEW p \in Procs, Pay(p)
    PROVE  BoughtExist' /\ \A c \in Persons : Balanced(c)'
<1>1. Step(p) /\ TypeOK /\ TypeOK' /\ op[p] \in Takes
  BY PayStep, InTake DEF Step, IInv, Pay, Taking_pc
<1>2. /\ pc[p] = "pay" /\ pc'[p] = "event" /\ op' = op /\ row' = row
      /\ bought' = bought /\ unanswered' = unanswered /\ unrefunded' = unrefunded
  BY <1>1 DEF Pay, Goto, TypeOK
<1>3. ASSUME NEW c \in Persons PROVE Balanced(c)'
  <2>1. ~Buys(p, c) /\ (Buys(p, c)' <=> op[p].pay = "wallet" /\ c \in op[p].who)
    BY <1>2 DEF Buys, Charged
  <2>2. charged'[c] = charged[c] + (IF op[p].pay = "wallet" /\ c \in op[p].who THEN 1 ELSE 0)
    BY <1>1, Accounts, AddToType DEF Pay, TypeOK
  <2>3. Cardinality(Buying(c)') = Cardinality(Buying(c))
                                  + (IF op[p].pay = "wallet" /\ c \in op[p].who THEN 1 ELSE 0)
    BY <1>1, <2>1, BuyersChange DEF Step
  <2>4. Bought(c)' = Bought(c) /\ Bought(c) \in Nat
    BY <1>2, BoughtCount DEF Bought
  <2>5. Cardinality(Buying(c)) \in Nat /\ Balanced(c)
    BY <1>1, BuyersChange DEF Step
  <2> QED BY <1>1, <1>2, <2>2, <2>3, <2>4, <2>5, Accounts DEF Balanced
<1> QED BY <1>2, <1>3 DEF BoughtExist

(* The end of a purchase: a refund, or a charge that stays.                 *)
LEMMA EndBalanced ==
    ASSUME IInv, BoughtExist, \A c \in Persons : Balanced(c), NEW p \in Procs,
           Refund(p) \/ RefundRefused(p) \/ Dies(p)
    PROVE  BoughtExist' /\ \A c \in Persons : Balanced(c)'
<1>1. Step(p) /\ TypeOK /\ TypeOK'
  BY QuietEnds, DiesStep DEF Step, IInv
<1>2. pc'[p] = "idle" /\ row' = row /\ bought' = bought /\ unanswered' = unanswered
  BY <1>1, EndStep DEF Refund, RefundRefused, Dies
<1>3. ASSUME Refund(p) \/ RefundRefused(p) PROVE Charged(p)
  BY <1>3 DEF Refund, RefundRefused, Charged, IInv, OpsMatch, Matches
<1>4. ASSUME NEW c \in Persons PROVE Balanced(c)'
  <2>1. ~Buys(p, c)' /\ (Buys(p, c) <=> Charged(p) /\ c \in op[p].who)
    BY <1>2, NotChargedNext DEF Buys
  <2>2. charged'[c] - unrefunded'[c] =
          charged[c] - unrefunded[c] - (IF Charged(p) /\ c \in op[p].who THEN 1 ELSE 0)
    <3>1. CASE Refund(p)
      BY <1>1, <1>3, <3>1, Accounts, AddToType DEF Refund, TypeOK
    <3>2. CASE RefundRefused(p)
      BY <1>1, <1>3, <3>2, Accounts, AddToType DEF RefundRefused, TypeOK
    <3>3. CASE Dies(p)
      BY <1>1, <3>3, Accounts, AddToType DEF Dies, TypeOK
    <3> QED BY <3>1, <3>2, <3>3
  <2>3. Cardinality(Buying(c)) = Cardinality(Buying(c)')
                                 + (IF Charged(p) /\ c \in op[p].who THEN 1 ELSE 0)
    BY <1>1, <2>1, BuyersChange DEF Step
  <2>4. Bought(c)' = Bought(c) /\ Bought(c) \in Nat
    BY <1>2, BoughtCount DEF Bought
  <2>5. Cardinality(Buying(c)) \in Nat /\ Cardinality(Buying(c)') \in Nat /\ Balanced(c)
    BY <1>1, BuyersChange DEF Step
  <2> QED BY <1>1, <1>2, <2>2, <2>3, <2>4, <2>5, Accounts DEF Balanced
<1> QED BY <1>2, <1>4 DEF BoughtExist

(* The commit: tickets for the party, which had none.                       *)
LEMMA TakenBalanced ==
    ASSUME IInv, BoughtExist, \A c \in Persons : Balanced(c), NEW p \in Procs,
           CommitTake(p) \/ CommitUnanswered(p)
    PROVE  BoughtExist' /\ \A c \in Persons : Balanced(c)'
<1>1. Step(p) /\ TypeOK /\ TypeOK' /\ Taken(p) /\ pc[p] = "insert" /\ op[p] \in Takes
  BY TakingSteps, InTake DEF Step, IInv, CommitTake, CommitUnanswered, Taken, Taking_pc
<1>2. /\ bought' = IF op[p].pay = "wallet" THEN bought \cup op[p].who ELSE bought
      /\ charged' = charged /\ unrefunded' = unrefunded
      /\ \A c \in op[p].who : row[c] = NoRow
      /\ row' = [c \in Claims |-> IF c \in op[p].who
                                  THEN [tier |-> op[p].tier, status |-> Status(op[p])] ELSE row[c]]
  BY <1>1 DEF Taken, Duplicate
<1>3. [tier |-> op[p].tier, status |-> Status(op[p])] # NoRow
  BY <1>1, TakeTier, RowType, StatusType
<1>4. bought \subseteq Claims /\ op[p].who \subseteq Claims
  BY <1>1, TakeTier, OpWho DEF TypeOK, Claims
<1>5. BoughtExist'
  BY <1>2, <1>3, <1>4 DEF BoughtExist
<1>6. ASSUME NEW c \in Persons PROVE Balanced(c)'
  <2> DEFINE new == op[p].pay = "wallet" /\ c \in op[p].who
  <2>1. Buys(p, c) <=> new
    BY <1>1 DEF Buys, Charged
  <2>2. Bought(c)' = Bought(c) + (IF new THEN 1 ELSE 0) /\ Bought(c) \in Nat
    BY <1>2, BoughtCount, BoughtCountNext DEF BoughtExist
  <2>3. Cardinality(Buying(c)) \in Nat /\ Cardinality(Buying(c)') \in Nat /\ Balanced(c)
    BY <1>1, BuyersChange DEF Step
  <2>4. CASE CommitTake(p)
    <3>1. pc'[p] = "idle" /\ unanswered' = unanswered
      BY <1>1, <2>4, EndStep DEF CommitTake
    <3>2. ~Buys(p, c)'
      BY <3>1, NotChargedNext
    <3>3. Cardinality(Buying(c)) = Cardinality(Buying(c)') + (IF new THEN 1 ELSE 0)
      BY <1>1, <2>1, <3>2, BuyersChange DEF Step
    <3> HIDE DEF new
    <3> QED BY <1>1, <1>2, <2>2, <2>3, <3>1, <3>3, Accounts DEF Balanced
  <2>5. CASE CommitUnanswered(p)
    <3>1. GiveUp(p)
      BY <2>5 DEF CommitUnanswered
    <3>2. Buys(p, c)' <=> Buys(p, c)
      <4>1. CASE op[p].pay = "wallet"
        <5>1. op' = op /\ pc'[p] = "refund"
          BY <1>1, <3>1, <4>1 DEF GiveUp, Goto, TypeOK
        <5> QED BY <1>1, <4>1, <5>1 DEF Buys, Charged
      <4>2. CASE op[p].pay # "wallet"
        <5>1. pc'[p] = "idle"
          BY <1>1, <3>1, <4>2, EndStep DEF GiveUp
        <5> QED BY <4>2, <5>1 DEF Buys, Charged
      <4> QED BY <4>1, <4>2
    <3>3. Cardinality(Buying(c)') = Cardinality(Buying(c))
      BY <1>1, <3>2, BuyersChange DEF Step
    <3>4. unanswered'[c] = unanswered[c] + (IF new THEN 1 ELSE 0)
      BY <1>1, <2>5, Accounts, AddToType DEF CommitUnanswered, TypeOK
    <3> HIDE DEF new
    <3> QED BY <1>1, <1>2, <2>2, <2>3, <3>3, <3>4, Accounts DEF Balanced
  <2> QED BY <2>4, <2>5
<1> QED BY <1>5, <1>6

Settled == BoughtExist /\ \A c \in Persons : Balanced(c)

(* For any number of buyers, also of the same ticket, and any faults: what  *)
(* the wallet has of a person is a ticket, a purchase still running or a    *)
(* refund that was refused or never reached, and a ticket whose charge was  *)
(* given back takes a COMMIT whose answer was lost.                         *)
THEOREM ChargesAreMatched == Spec => []ChargesMatchTickets
<1>1. Init => Settled
  <2> SUFFICES ASSUME Init PROVE Settled
    OBVIOUS
  <2>1. ASSUME NEW c \in Persons PROVE Balanced(c)
    <3>1. Buying(c) = {} /\ bought = {}
      BY DEF Init, Buying, Charged
    <3>2. Cardinality(Buying(c)) = 0 /\ Bought(c) = 0
      BY <3>1, FS_EmptySet, BoughtCount
    <3> QED BY <3>1, <3>2 DEF Init, Balanced
  <2> QED BY <2>1 DEF Init, BoughtExist, Settled
<1>2. IInv /\ Settled /\ [Next]_vars => Settled'
  <2> SUFFICES ASSUME IInv, Settled, [Next]_vars PROVE Settled'
    OBVIOUS
  <2>1. BoughtExist /\ \A c \in Persons : Balanced(c)
    BY DEF Settled
  <2>2. (BoughtExist' /\ \A c \in Persons : Balanced(c)') => Settled'
    BY DEF Settled
  <2>3. CASE Next
    <3>1. CASE \E p \in Procs : Pay(p)
      BY <2>1, <2>2, <3>1, PayBalanced
    <3>2. CASE \E p \in Procs : Refund(p) \/ RefundRefused(p) \/ Dies(p)
      BY <2>1, <2>2, <3>2, EndBalanced
    <3>3. CASE \E p \in Procs : CommitTake(p) \/ CommitUnanswered(p)
      BY <2>1, <2>2, <3>3, TakenBalanced
    <3> QED BY <2>1, <2>2, <2>3, <3>1, <3>2, <3>3, StillSteps
  <2>4. CASE UNCHANGED vars
    BY <2>4 DEF vars, money, Settled, BoughtExist, Balanced, Bought, Buying, Charged
  <2> QED BY <2>3, <2>4
<1>3. Settled => ChargesMatchTickets
  BY DEF Settled, Balanced, Bought, ChargesMatchTickets
<1> QED BY <1>1, <1>2, <1>3, Invariant, PTL DEF Spec

-----------------------------------------------------------------------------
(* The cap of the event.                                                    *)

SeatsOf(t) == {t} \X (avail[t] + 1 .. Capacity[t])

(* A block of numbered seats of one tier is finite and as long as it is.    *)
LEMMA SeatBlock ==
    ASSUME NEW t, NEW a \in Int, NEW b \in Int
    PROVE  /\ IsFiniteSet({t} \X (a .. b))
           /\ Cardinality({t} \X (a .. b)) <= IF a > b THEN 0 ELSE b - a + 1
<1> DEFINE f == [i \in a .. b |-> <<t, i>>]
<1>1. f \in Surjection(a .. b, {t} \X (a .. b))
  <2>1. f \in [a .. b -> {t} \X (a .. b)]
    OBVIOUS
  <2>2. ASSUME NEW x \in {t} \X (a .. b) PROVE \E i \in a .. b : f[i] = x
    <3>1. PICK i \in a .. b : x = <<t, i>>
      OBVIOUS
    <3> QED BY <3>1
  <2> QED BY <2>1, <2>2 DEF Surjection
<1>2. IsFiniteSet(a .. b) /\ Cardinality(a .. b) = IF a > b THEN 0 ELSE b - a + 1
  BY FS_Interval
<1> HIDE DEF f
<1> QED BY <1>1, <1>2, FS_Surjection

LEMMA SeatsFinite == ASSUME TypeOK PROVE IsFiniteSet(ConsumedSeats)
<1> DEFINE f == [t \in Tiers |-> SeatsOf(t)]
           B == {SeatsOf(t) : t \in Tiers}
<1>1. f \in Surjection(Tiers, B)
  BY DEF Surjection
<1>2. IsFiniteSet(B)
  <2> HIDE DEF f, B
  <2> QED BY <1>1, FS_Surjection, InventoryAssumption
<1>3. \A T \in B : IsFiniteSet(T)
  <2>1. ASSUME NEW t \in Tiers PROVE IsFiniteSet(SeatsOf(t))
    <3>1. avail[t] + 1 \in Int /\ Capacity[t] \in Int
      BY InventoryAssumption DEF TypeOK
    <3> QED BY <3>1, SeatBlock DEF SeatsOf
  <2> QED BY <2>1
<1>4. IsFiniteSet(UNION B)
  <2> HIDE DEF B
  <2> QED BY <1>2, <1>3, FS_UNION
<1> QED BY <1>4 DEF ConsumedSeats, SeatsOf

(* A step that takes no seat does not consume one ...                       *)
LEMMA SeatsShrink ==
    ASSUME TypeOK, TypeOK', \A t \in Tiers : avail'[t] >= avail[t]
    PROVE  Cardinality(ConsumedSeats)' <= Cardinality(ConsumedSeats)
<1>1. ConsumedSeats' \subseteq ConsumedSeats
  <2>1. ASSUME NEW t \in Tiers
        PROVE  {t} \X (avail'[t] + 1 .. Capacity[t]) \subseteq {t} \X (avail[t] + 1 .. Capacity[t])
    <3>1. avail[t] \in Nat /\ avail'[t] \in Nat /\ avail'[t] >= avail[t] /\ Capacity[t] \in Nat
      BY InventoryAssumption DEF TypeOK
    <3>2. avail'[t] + 1 .. Capacity[t] \subseteq avail[t] + 1 .. Capacity[t]
      BY <3>1
    <3> QED BY <3>2
  <2> QED BY <2>1 DEF ConsumedSeats
<1> QED BY <1>1, SeatsFinite, FS_Subset

(* ... and one that takes q consumes no more than q.                        *)
LEMMA SeatsGrowBy ==
    ASSUME TypeOK, TypeOK', NEW t \in Tiers, NEW q \in Nat, q <= avail[t],
           avail' = [avail EXCEPT ![t] = avail[t] - q]
    PROVE  Cardinality(ConsumedSeats)' <= Cardinality(ConsumedSeats) + q
<1> DEFINE N == {t} \X (avail[t] - q + 1 .. avail[t])
<1>0. avail[t] \in Nat /\ Capacity[t] \in Nat /\ avail[t] <= Capacity[t]
  BY InventoryAssumption DEF TypeOK
<1>1. ConsumedSeats' \subseteq ConsumedSeats \cup N
  <2>1. ASSUME NEW u \in Tiers
        PROVE  {u} \X (avail'[u] + 1 .. Capacity[u]) \subseteq ConsumedSeats \cup N
    <3>1. CASE u = t
      <4>1. avail'[t] = avail[t] - q
        BY DEF TypeOK
      <4>2. avail'[t] + 1 .. Capacity[t]
              \subseteq (avail[t] - q + 1 .. avail[t]) \cup (avail[t] + 1 .. Capacity[t])
        BY <1>0, <4>1
      <4> QED BY <3>1, <4>2 DEF ConsumedSeats
    <3>2. CASE u # t
      <4>1. avail'[u] = avail[u]
        BY <3>2 DEF TypeOK
      <4> QED BY <4>1 DEF ConsumedSeats
    <3> QED BY <3>1, <3>2
  <2> HIDE DEF N
  <2> QED BY <2>1 DEF ConsumedSeats
<1>2. IsFiniteSet(N) /\ Cardinality(N) <= q /\ Cardinality(N) \in Nat
  <2>1. PICK a \in Int, b \in Int : a = avail[t] - q + 1 /\ b = avail[t]
    BY <1>0
  <2>2. (IF a > b THEN 0 ELSE b - a + 1) = q
    BY <1>0, <2>1
  <2>3. N = {t} \X (a .. b)
    BY <2>1
  <2> HIDE DEF N
  <2>4. IsFiniteSet(N) /\ Cardinality(N) <= q
    BY <2>2, <2>3, SeatBlock
  <2> QED BY <2>4, FS_CardinalityType
<1> HIDE DEF N
<1>3. /\ IsFiniteSet(ConsumedSeats \cup N)
      /\ Cardinality(ConsumedSeats \cup N) <= Cardinality(ConsumedSeats) + q
  <2>1. /\ IsFiniteSet(ConsumedSeats \cup N)
        /\ Cardinality(ConsumedSeats \cup N) =
             Cardinality(ConsumedSeats) + Cardinality(N) - Cardinality(ConsumedSeats \cap N)
    BY <1>2, SeatsFinite, FS_Union
  <2>2. Cardinality(ConsumedSeats) \in Nat /\ Cardinality(ConsumedSeats \cap N) \in Nat
    BY <1>2, SeatsFinite, FS_CardinalityType, FS_Intersection
  <2> QED BY <1>2, <2>1, <2>2
<1>4. Cardinality(ConsumedSeats') <= Cardinality(ConsumedSeats \cup N)
  BY <1>1, <1>3, FS_Subset
<1>5. /\ Cardinality(ConsumedSeats') \in Nat /\ Cardinality(ConsumedSeats \cup N) \in Nat
      /\ Cardinality(ConsumedSeats) \in Nat
  BY <1>1, <1>3, SeatsFinite, FS_Subset, FS_CardinalityType
<1> QED BY <1>3, <1>4, <1>5

SeatsOnlyGrow == \A t \in Tiers : avail'[t] >= avail[t]

CapNext(p) ==
    Capped /\ pc'[p] \in {"tier", "insert"} =>
        /\ eventLock' = p
        /\ Cardinality(ConsumedSeats)' + Quantity(op'[p]) <= MaxCapacity

(* What matters of a step for the cap.                                      *)
CapStep(p) == Step(p) /\ CapNext(p) /\ (SeatsOnlyGrow \/ Taken(p))

LEMMA CountType == TypeOK => Cardinality(ConsumedSeats) \in Nat
BY SeatsFinite, FS_CardinalityType

LEMMA CapKeeps ==
    ASSUME IInv, CapReady, EventCapRespected, NEW p \in Procs, CapStep(p)
    PROVE  CapReady' /\ EventCapRespected'
<1> USE DEF IInv, CapStep
<1>0. TypeOK' /\ OthersKept(p)
  BY DEF Step
<1>1. Cardinality(ConsumedSeats) \in Nat /\ Cardinality(ConsumedSeats)' \in Nat /\ MaxCapacity \in Nat
  <2>1. (Cardinality(ConsumedSeats) \in Nat)'
    BY <1>0, CountType, PTL
  <2> QED BY <2>1, CountType, InventoryAssumption
<1>2. ASSUME NEW q \in Procs \ {p}, Capped, pc'[q] \in {"tier", "insert"}
      PROVE  /\ eventLock = q /\ eventLock' = q
             /\ Cardinality(ConsumedSeats) + Quantity(op[q]) <= MaxCapacity
             /\ op'[q] = op[q] /\ Quantity(op[q]) \in Nat
  BY <1>0, <1>2, InTake DEF OthersKept, CapReady, Taking_pc
<1>3. CASE SeatsOnlyGrow
  <2>1. Cardinality(ConsumedSeats)' <= Cardinality(ConsumedSeats)
    BY <1>0, <1>3, SeatsShrink DEF SeatsOnlyGrow
  <2>2. EventCapRespected'
    BY <1>1, <2>1 DEF EventCapRespected, Capped
  <2>3. ASSUME NEW q \in Procs, Capped, pc'[q] \in {"tier", "insert"}
        PROVE  eventLock' = q /\ Cardinality(ConsumedSeats)' + Quantity(op'[q]) <= MaxCapacity
    <3>1. CASE q = p
      BY <2>3, <3>1 DEF CapNext
    <3>2. CASE q # p
      <4>1. /\ eventLock' = q /\ Cardinality(ConsumedSeats) + Quantity(op[q]) <= MaxCapacity
            /\ op'[q] = op[q] /\ Quantity(op[q]) \in Nat
        BY <1>2, <2>3, <3>2
      <4> QED BY <1>1, <2>1, <4>1
    <3> QED BY <3>1, <3>2
  <2> QED BY <2>2, <2>3 DEF CapReady, Capped, Quantity
<1>4. CASE Taken(p)
  <2>1. pc[p] = "insert" /\ op[p] \in Takes /\ Quantity(op[p]) \in Nat
    BY <1>4, InTake DEF Taken, Taking_pc
  <2>2. PICK t \in Tiers, n \in Nat : t = op[p].tier /\ n = Quantity(op[p])
    BY <2>1, TakeTier
  <2>3. avail' = [avail EXCEPT ![t] = avail[t] - n] /\ n <= avail[t]
    BY <1>4, <2>1, <2>2 DEF Taken, SeatsReady, TypeOK
  <2>4. Cardinality(ConsumedSeats)' <= Cardinality(ConsumedSeats) + n
    BY <1>0, <2>3, SeatsGrowBy
  <2>5. Capped => eventLock = p /\ Cardinality(ConsumedSeats) + n <= MaxCapacity
    BY <2>1, <2>2 DEF CapReady
  <2>6. EventCapRespected'
    <3> SUFFICES ASSUME Capped PROVE Cardinality(ConsumedSeats)' <= MaxCapacity
      BY DEF EventCapRespected, Capped
    <3> QED BY <1>1, <2>4, <2>5
  <2>7. ASSUME NEW q \in Procs, Capped, pc'[q] \in {"tier", "insert"}
        PROVE  eventLock' = q /\ Cardinality(ConsumedSeats)' + Quantity(op'[q]) <= MaxCapacity
    <3>1. q = p
      BY <1>2, <2>5, <2>7
    <3> QED BY <2>7, <3>1 DEF CapNext
  <2> QED BY <2>6, <2>7 DEF CapReady, Capped, Quantity
<1> QED BY <1>3, <1>4

(* Seats are counted and taken under the event's lock.                      *)
LEMMA LockEventCap ==
    ASSUME IInv, CapReady, NEW p \in Procs, LockEvent(p) \/ UpdateTier(p) PROVE CapStep(p)
<1>1. Step(p) /\ TypeOK
  BY LockEventStep, UpdateTierStep DEF IInv
<1>2. avail' = avail /\ op' = op
  BY DEF LockEvent, UpdateTier, Goto
<1>3. SeatsOnlyGrow
  BY <1>1, <1>2 DEF SeatsOnlyGrow, TypeOK
<1>4. ConsumedSeats' = ConsumedSeats
  BY <1>2 DEF ConsumedSeats
<1>5. ASSUME Capped
      PROVE  eventLock' = p /\ Cardinality(ConsumedSeats) + Quantity(op[p]) <= MaxCapacity
  BY <1>5 DEF LockEvent, UpdateTier, WithinEventCap, CapReady
<1>6. CapNext(p)
  BY <1>2, <1>4, <1>5 DEF CapNext
<1> QED BY <1>1, <1>3, <1>6 DEF CapStep

(* Any other step ends or begins elsewhere.                                 *)
LEMMA ElsewhereCap ==
    ASSUME NEW p \in Procs, Step(p), pc'[p] \notin {"tier", "insert"}, SeatsOnlyGrow \/ Taken(p)
    PROVE  CapStep(p)
BY DEF CapStep, CapNext

LEMMA SameSeats == ASSUME TypeOK, avail' = avail PROVE SeatsOnlyGrow
BY DEF TypeOK, SeatsOnlyGrow

LEMMA EveryCapStep == ASSUME IInv, CapReady, Next PROVE \E p \in Procs : CapStep(p)
<1>0. TypeOK
  BY DEF IInv
<1>1. ASSUME NEW p \in Procs, End(p) PROVE pc'[p] = "idle"
  BY <1>0, <1>1, EndStep
<1>2. ASSUME NEW p \in Procs, NEW o \in Takes, BeginTake(p, o) PROVE CapStep(p)
  <2>1. Step(p) /\ avail' = avail
    BY <1>2, BeginTakeStep DEF BeginTake
  <2>2. pc'[p] \in {"event", "pay"}
    BY <1>0, <1>2 DEF BeginTake, Begin, TypeOK
  <2> QED BY <1>0, <2>1, <2>2, SameSeats, ElsewhereCap
<1>3. ASSUME NEW p \in Procs, NEW o \in Changes, BeginChange(p, o) PROVE CapStep(p)
  <2>1. Step(p) /\ avail' = avail
    BY <1>3, BeginChangeStep DEF BeginChange
  <2>2. pc'[p] = "write"
    BY <1>0, <1>3 DEF BeginChange, Begin, TypeOK
  <2> QED BY <1>0, <2>1, <2>2, SameSeats, ElsewhereCap
<1>4. ASSUME NEW p \in Procs, NEW o \in Batches, Reap(p, o) \/ ClaimHolds(p, o) PROVE CapStep(p)
  <2>1. Step(p) /\ avail' = avail
    BY <1>4, ReapStep, ClaimHoldsStep DEF Reap, ClaimHolds
  <2>2. pc'[p] \in {"return", "release"}
    BY <1>0, <1>4 DEF Reap, ClaimHolds, Begin, TypeOK
  <2> QED BY <1>0, <2>1, <2>2, SameSeats, ElsewhereCap
<1>5. ASSUME NEW p \in Procs, Pay(p) \/ RetryDecrement(p) PROVE CapStep(p)
  <2>1. Step(p) /\ avail' = avail
    BY <1>5, PayStep, RetryDecrementStep DEF Pay, RetryDecrement
  <2>2. pc'[p] = "event"
    BY <1>0, <1>5 DEF Pay, RetryDecrement, Goto, TypeOK
  <2> QED BY <1>0, <2>1, <2>2, SameSeats, ElsewhereCap
<1>6. ASSUME NEW p \in Procs,
             PayRefused(p) \/ Refund(p) \/ RefundRefused(p) \/ Dies(p) \/ Occupy(p)
      PROVE  CapStep(p)
  <2>1. Step(p) /\ avail' = avail
    BY <1>6, QuietEnds, DiesStep, OccupyStep
       DEF PayRefused, Refund, RefundRefused, Dies, Occupy
  <2>2. pc'[p] = "idle"
    BY <1>1, <1>6 DEF PayRefused, Refund, RefundRefused, Dies, Occupy
  <2> QED BY <1>0, <2>1, <2>2, SameSeats, ElsewhereCap
<1>7. ASSUME NEW p \in Procs, CommitTake(p) \/ CommitUnanswered(p) PROVE CapStep(p)
  <2>1. Step(p) /\ Taken(p) /\ pc[p] = "insert"
    BY <1>7, TakingSteps DEF CommitTake, CommitUnanswered, Taken
  <2>2. pc'[p] \in {"idle", "refund"}
    BY <1>1, <1>7, <2>1, GiveUpStep DEF CommitTake, CommitUnanswered
  <2> QED BY <2>1, <2>2, ElsewhereCap
<1>8. ASSUME NEW p \in Procs, SoldOut(p) \/ InsertDuplicate(p) \/ InsertError(p) PROVE CapStep(p)
  <2>1. Step(p) /\ avail' = avail /\ pc[p] \in {"event", "tier", "insert"} /\ GiveUp(p)
    BY <1>8, TakingSteps DEF SoldOut, InsertDuplicate, InsertError
  <2>2. pc'[p] \in {"idle", "refund"}
    BY <2>1, GiveUpStep
  <2> QED BY <1>0, <2>1, <2>2, SameSeats, ElsewhereCap
<1>9. ASSUME NEW p \in Procs, Cancel(p) \/ CancelRetried(p) PROVE CapStep(p)
  <2>1. Step(p) /\ pc'[p] = "idle"
    BY <1>1, <1>9, CancelStep DEF Cancel, CancelRetried
  <2>2. PICK t \in Tiers, n \in Nat : avail' = [avail EXCEPT ![t] = Returned(t, n)]
    <3>1. PICK c \in Claims : /\ pc[p] = "write" /\ op[p].who = {c}
                              /\ avail' = [avail EXCEPT ![row[c].tier] = Returned(row[c].tier, 1)]
      BY <1>9 DEF Cancel, CancelRetried
    <3>2. PICK t \in Tiers : t = row[c].tier
      BY <3>1, InChange
    <3> QED BY <3>1, <3>2
  <2>3. SeatsOnlyGrow
    BY <1>0, <2>2, ReturnKeeps, ReturnedRange DEF SeatsOnlyGrow, TypeOK
  <2> QED BY <2>1, <2>3, ElsewhereCap
<1>10. ASSUME NEW p \in Procs, ReleaseHolds(p) PROVE CapStep(p)
  <2>1. Step(p) /\ pc'[p] = "idle"
    BY <1>1, <1>10, ReleaseHoldsStep DEF ReleaseHolds
  <2>2. op[p].who \subseteq Claims
    BY <1>10, InBatch DEF ReleaseHolds
  <2>3. SeatsOnlyGrow
    BY <1>0, <1>10, <2>2, OnTierCount, ReturnedRange DEF SeatsOnlyGrow, ReleaseHolds
  <2> QED BY <2>1, <2>3, ElsewhereCap
<1>11. ASSUME NEW p \in Procs, NEW t \in Tiers,
              ReturnSeats(p, t) \/ ReturnRetried(p, t) \/ ReturnAbandoned(p, t)
       PROVE  CapStep(p)
  <2>1. Step(p) /\ pc[p] = "return" /\ row' = row
    BY <1>11, ReturnSeatsStep DEF ReturnSeats, ReturnRetried, ReturnAbandoned
  <2>2. pc'[p] \in {"idle", "return"}
    <3>1. Done(p, OnTier(op[p].who, t)) \/ pc' = pc
      BY <1>11 DEF ReturnSeats, ReturnRetried, ReturnAbandoned
    <3> QED BY <1>0, <2>1, <3>1 DEF Done, End, TypeOK
  <2>3. PICK n \in Nat : n = Cardinality(OnTier(op[p].who, t))
    BY <2>1, InBatch, OnTierCount
  <2>4. avail' = avail \/ avail' = [avail EXCEPT ![t] = Returned(t, n)]
    BY <1>11, <2>3 DEF ReturnSeats, ReturnRetried, ReturnAbandoned
  <2>5. SeatsOnlyGrow
    <3>1. CASE avail' = avail
      BY <1>0, <3>1, SameSeats
    <3>2. CASE avail' = [avail EXCEPT ![t] = Returned(t, n)]
      BY <1>0, <2>3, <3>2, ReturnKeeps, ReturnedRange DEF SeatsOnlyGrow, TypeOK
    <3> QED BY <2>4, <3>1, <3>2
  <2> QED BY <2>1, <2>2, <2>5, ElsewhereCap
<1>12. ASSUME NEW p \in Procs, ReleaseRetried(p) PROVE CapStep(p)
  <2>1. Step(p) /\ avail' = avail /\ pc'[p] = "release"
    BY <1>12, ReleaseRetriedStep DEF ReleaseRetried
  <2> QED BY <1>0, <2>1, SameSeats, ElsewhereCap
<1> QED BY <1>2, <1>3, <1>4, <1>5, <1>6, <1>7, <1>8, <1>9, <1>10, <1>11, <1>12, LockEventCap DEF Next

(* The cap of the event holds over all tiers, whatever is bought at once:   *)
(* _atomic_decrement counts and takes under one lock of the event's row.    *)
THEOREM EventCapHolds == Spec => []EventCapRespected
<1>1. Init => CapReady /\ EventCapRespected
  <2> SUFFICES ASSUME Init PROVE CapReady /\ EventCapRespected
    OBVIOUS
  <2>1. CapReady
    BY DEF Init, CapReady
  <2>2. ASSUME NEW t \in Tiers PROVE avail[t] + 1 .. Capacity[t] = {}
    BY InventoryAssumption DEF Init
  <2>3. ConsumedSeats = {}
    BY <2>2 DEF ConsumedSeats
  <2>4. EventCapRespected
    BY <2>3, FS_EmptySet, InventoryAssumption DEF EventCapRespected
  <2> QED BY <2>1, <2>4
<1>2. ASSUME IInv, CapReady, EventCapRespected, [Next]_vars
      PROVE  CapReady' /\ EventCapRespected'
  <2>1. CASE Next
    BY <1>2, <2>1, EveryCapStep, CapKeeps
  <2>2. CASE UNCHANGED vars
    BY <1>2, <2>2 DEF vars, locks, CapReady, EventCapRespected, ConsumedSeats, Capped, Quantity
  <2> QED BY <1>2, <2>1, <2>2
<1> QED BY <1>1, <1>2, Invariant, PTL DEF Spec

-----------------------------------------------------------------------------
(* Conservation of seats.                                                   *)

Counted(t) == avail[t] + Cardinality(Held(t)) + Cardinality(Due(t))

(* No seat of t appears without being recorded as doubled, and none is lost *)
(* without being recorded as leaked, unless the tier is full again.         *)
Fair(t) ==
    /\ Counted(t)' + doubled[t] <= Counted(t) + doubled'[t]
    /\ avail'[t] = Capacity[t] \/ Counted(t)' + leaked'[t] >= Counted(t) + leaked[t]

LEMMA ClaimCounts ==
    ASSUME NEW t \in Tiers
    PROVE  /\ IsFiniteSet(Held(t)) /\ IsFiniteSet(Held(t)')
           /\ IsFiniteSet(Due(t)) /\ IsFiniteSet(Due(t)')
           /\ Cardinality(Held(t)) \in Nat /\ Cardinality(Held(t)') \in Nat
           /\ Cardinality(Due(t)) \in Nat /\ Cardinality(Due(t)') \in Nat
<1>1. /\ Held(t) \subseteq Claims /\ Held(t)' \subseteq Claims
      /\ Due(t) \subseteq Claims /\ Due(t)' \subseteq Claims
  BY DEF Held, Due, OnTier
<1> QED BY <1>1, FS_Subset, FS_CardinalityType, InventoryAssumption

(* The numbers in the books of one tier.                                    *)
LEMMA Books ==
    ASSUME TypeOK, TypeOK', NEW t \in Tiers
    PROVE  /\ avail[t] \in Nat /\ avail'[t] \in Nat /\ Capacity[t] \in Nat
           /\ doubled[t] \in Nat /\ doubled'[t] \in Nat
           /\ leaked[t] \in Nat /\ leaked'[t] \in Nat
BY InventoryAssumption DEF TypeOK

(* A fair step preserves both bounds.                                       *)
LEMMA FairKeeps ==
    ASSUME TypeOK, TypeOK', NoUnexplainedSeats, NoUnexplainedLoss,
           \A t \in Tiers : Fair(t)
    PROVE  NoUnexplainedSeats' /\ NoUnexplainedLoss'
<1> SUFFICES ASSUME NEW t \in Tiers
             PROVE  /\ Counted(t)' <= Capacity[t] + doubled'[t]
                    /\ Counted(t)' + leaked'[t] >= Capacity[t]
  BY DEF NoUnexplainedSeats, NoUnexplainedLoss, Counted
<1>1. Counted(t) <= Capacity[t] + doubled[t] /\ Counted(t) + leaked[t] >= Capacity[t]
  BY DEF NoUnexplainedSeats, NoUnexplainedLoss, Counted
<1>2. Counted(t) \in Nat /\ Counted(t)' \in Nat /\ Counted(t)' >= avail'[t]
  BY ClaimCounts, Books DEF Counted
<1>3. Fair(t)
  OBVIOUS
<1> HIDE DEF Counted
<1>4. Counted(t)' <= Capacity[t] + doubled'[t]
  BY <1>1, <1>2, <1>3, Books DEF Fair
<1>5. Counted(t)' + leaked'[t] >= Capacity[t]
  BY <1>1, <1>2, <1>3, Books DEF Fair
<1> QED BY <1>4, <1>5

(* Fairness from the change of the count and of the two counters.           *)
LEMMA FairBy ==
    ASSUME TypeOK, TypeOK', NEW t \in Tiers, NEW k \in Int, Counted(t)' = Counted(t) + k,
           doubled[t] + k <= doubled'[t],
           avail'[t] = Capacity[t] \/ leaked'[t] + k >= leaked[t]
    PROVE  Fair(t)
<1>1. Counted(t) \in Nat
  BY ClaimCounts, Books DEF Counted
<1> HIDE DEF Counted
<1> QED BY <1>1, Books DEF Fair

LEMMA JoinApart ==
    ASSUME NEW S, IsFiniteSet(S), NEW T, IsFiniteSet(T), S \cap T = {}
    PROVE  Cardinality(S \cup T) = Cardinality(S) + Cardinality(T)
<1>1. Cardinality(S \cup T) = Cardinality(S) + Cardinality(T) - 0
  BY FS_Union, FS_EmptySet
<1>2. Cardinality(S) \in Nat /\ Cardinality(T) \in Nat
  BY FS_CardinalityType
<1> QED BY <1>1, <1>2

(* A tier whose seats, claims and counters are as before.                   *)
LEMMA FairUnmoved ==
    ASSUME TypeOK, TypeOK', NEW t \in Tiers, avail'[t] = avail[t],
           Held(t)' = Held(t), Due(t)' = Due(t), doubled'[t] = doubled[t], leaked'[t] = leaked[t]
    PROVE  Fair(t)
<1>1. Counted(t)' = Counted(t) /\ Counted(t) \in Nat
  BY ClaimCounts, Books DEF Counted
<1> HIDE DEF Counted
<1> QED BY <1>1, Books DEF Fair

(* Nothing becomes due or ceases to be while p is not a reaper.             *)
LEMMA DueSame ==
    ASSUME IInv, NEW p \in Procs, Step(p), pc[p] # "return", pc'[p] # "return", NEW t \in Tiers
    PROVE  Due(t)' = Due(t)
<1>1. \A q \in Procs : /\ pc'[q] = "return" <=> pc[q] = "return"
                       /\ pc[q] = "return" => op'[q] = op[q]
  BY DEF Step, OthersKept
<1>2. ASSUME NEW q \in Procs, pc[q] = "return", NEW c \in op[q].who
      PROVE  c \in Claims /\ row[c] # NoRow /\ row'[c] # NoRow /\ row'[c].tier = row[c].tier
  BY <1>2, InBatch DEF Exist, Step, RowsStay
<1> QED BY <1>1, <1>2 DEF Due, OnTier

LEMMA HeldSame == ASSUME row' = row, NEW t PROVE Held(t)' = Held(t)
BY DEF Held, OnTier

(* Steps that move no seat and no claim.                                    *)
LEMMA FairQuiet ==
    ASSUME IInv, NEW p \in Procs, Step(p), pc[p] # "return", pc'[p] # "return",
           avail' = avail, row' = row, doubled' = doubled, leaked' = leaked
    PROVE  \A t \in Tiers : Fair(t)
<1>1. TypeOK /\ TypeOK'
  BY DEF IInv, Step
<1> QED BY <1>1, FairUnmoved, DueSame, HeldSame

(* Taking seats: as many claims as seats.                                   *)
LEMMA FairTaken ==
    ASSUME IInv, NEW p \in Procs, Step(p), Taken(p), pc'[p] # "return"
    PROVE  \A t \in Tiers : Fair(t)
<1>1. TypeOK /\ TypeOK' /\ pc[p] = "insert" /\ op[p] \in Takes
  BY InTake DEF IInv, Step, Taken, Taking_pc
<1>2. PICK u \in Tiers, n \in Nat, S \in SUBSET Claims :
        u = op[p].tier /\ n = Quantity(op[p]) /\ S = op[p].who /\ IsFiniteSet(S) /\ n = Cardinality(S)
  BY <1>1, TakeTier, OpWho DEF Quantity
<1>3. /\ avail' = [avail EXCEPT ![u] = avail[u] - n] /\ doubled' = doubled /\ leaked' = leaked
      /\ \A c \in S : row[c] = NoRow
  BY <1>2 DEF Taken, Duplicate
<1>4. PICK r : r = [tier |-> u, status |-> Status(op[p])]
  OBVIOUS
<1>5. r # NoRow /\ r.tier = u /\ r.status \in Taking
  BY <1>4, RowType, StatusType
<1>6. row' = [c \in Claims |-> IF c \in S THEN r ELSE row[c]]
  BY <1>2, <1>4 DEF Taken
<1> SUFFICES ASSUME NEW t \in Tiers PROVE Fair(t)
  OBVIOUS
<1>7. Due(t)' = Due(t)
  BY <1>1, DueSame
<1>8. CASE t # u
  <2>1. Held(t)' = Held(t)
    BY <1>3, <1>5, <1>6, <1>8 DEF Held, OnTier
  <2> QED BY <1>1, <1>3, <1>7, <1>8, <2>1, FairUnmoved DEF TypeOK
<1>9. CASE t = u
  <2>1. Held(t)' = Held(t) \cup S /\ Held(t) \cap S = {}
    BY <1>3, <1>5, <1>6, <1>9 DEF Held, OnTier
  <2>2. Cardinality(Held(t)') = Cardinality(Held(t)) + n
    BY <1>2, <2>1, ClaimCounts, JoinApart
  <2>3. avail'[t] = avail[t] - n
    BY <1>1, <1>3, <1>9 DEF TypeOK
  <2>4. Counted(t)' = Counted(t) /\ Counted(t) \in Nat
    BY <1>1, <1>7, <2>2, <2>3, ClaimCounts, Books DEF Counted
  <2> HIDE DEF Counted
  <2> QED BY <1>1, <1>3, <2>4, Books DEF Fair
<1> QED BY <1>8, <1>9

(* Returning n seats: the count grows by k, at most n, short of n only when *)
(* the tier is full.                                                        *)
LEMMA ReturnedBy ==
    ASSUME TypeOK, NEW t \in Tiers, NEW n \in Nat
    PROVE  \E k \in 0 .. n : Returned(t, n) = avail[t] + k /\ (k < n => Returned(t, n) = Capacity[t])
<1>1. PICK m \in Nat : m = Returned(t, n)
  BY ReturnedRange
<1>2. /\ m >= avail[t] /\ m <= avail[t] + n /\ (m < avail[t] + n => m = Capacity[t])
      /\ avail[t] \in Nat
  BY <1>1, ReturnedRange DEF TypeOK
<1>3. PICK k \in 0 .. n : k = m - avail[t]
  BY <1>2
<1>4. m = avail[t] + k /\ (k < n => m = Capacity[t])
  BY <1>2, <1>3
<1> QED BY <1>1, <1>4

LEMMA FairCancelRetried ==
    ASSUME IInv, NEW p \in Procs, CancelRetried(p) PROVE \A t \in Tiers : Fair(t)
<1>1. /\ Step(p) /\ TypeOK /\ TypeOK' /\ pc[p] = "write" /\ pc'[p] = "idle" /\ row' = row
      /\ leaked' = leaked
  BY CancelStep, EndsSoundly DEF IInv, Step, CancelRetried
<1>2. PICK c \in Claims :
        /\ op[p].who = {c}
        /\ avail' = [avail EXCEPT ![row[c].tier] = Returned(row[c].tier, 1)]
        /\ doubled' = [doubled EXCEPT ![row[c].tier] = @ + 1]
  BY DEF CancelRetried
<1>3. PICK u \in Tiers : u = row[c].tier
  BY <1>1, <1>2, InChange
<1> SUFFICES ASSUME NEW t \in Tiers PROVE Fair(t)
  OBVIOUS
<1>4. Due(t)' = Due(t) /\ Held(t)' = Held(t)
  BY <1>1, DueSame, HeldSame
<1>5. CASE t # u
  BY <1>1, <1>2, <1>3, <1>4, <1>5, FairUnmoved DEF TypeOK
<1>6. CASE t = u
  <2>1. PICK k \in 0 .. 1 : Returned(u, 1) = avail[u] + k
    BY <1>1, ReturnedBy
  <2>2. avail'[t] = avail[t] + k /\ doubled'[t] = doubled[t] + 1
    BY <1>1, <1>2, <1>3, <1>6, <2>1 DEF TypeOK
  <2>3. Counted(t)' = Counted(t) + k
    BY <1>1, <1>4, <2>2, ClaimCounts, Books DEF Counted
  <2> QED BY <1>1, <2>2, <2>3, Books, FairBy
<1> QED BY <1>5, <1>6

(* One claim gets another status: the seats it occupies change by g.        *)
LEMMA HeldStore ==
    ASSUME TypeOK, NEW c \in Claims, row[c] # NoRow, NEW s \in Statuses, s # "pending", Store(c, s),
           NEW t \in Tiers
    PROVE  /\ t # row[c].tier => Held(t)' = Held(t)
           /\ t = row[c].tier /\ (s \in Taking <=> row[c].status \in Taking) =>
                Held(t)' = Held(t)
           /\ t = row[c].tier /\ s \in Taking /\ row[c].status \notin Taking =>
                Cardinality(Held(t)') = Cardinality(Held(t)) + 1
           /\ t = row[c].tier /\ s \notin Taking /\ row[c].status \in Taking =>
                Cardinality(Held(t)') = Cardinality(Held(t)) - 1
<1>1. /\ row'[c] # NoRow /\ row'[c].tier = row[c].tier /\ row'[c].status = s
      /\ \A d \in Claims \ {c} : row'[d] = row[d]
  BY StoreKeeps
<1>2. t # row[c].tier => Held(t)' = Held(t)
  BY <1>1 DEF Held, OnTier
<1>3. ASSUME t = row[c].tier, s \in Taking <=> row[c].status \in Taking PROVE Held(t)' = Held(t)
  BY <1>1, <1>3 DEF Held, OnTier
<1>4. ASSUME t = row[c].tier, s \in Taking, row[c].status \notin Taking
      PROVE  Cardinality(Held(t)') = Cardinality(Held(t)) + 1
  <2>1. Held(t)' = Held(t) \cup {c} /\ c \notin Held(t)
    BY <1>1, <1>4 DEF Held, OnTier
  <2> QED BY <2>1, ClaimCounts, FS_AddElement
<1>5. ASSUME t = row[c].tier, s \notin Taking, row[c].status \in Taking
      PROVE  Cardinality(Held(t)') = Cardinality(Held(t)) - 1
  <2>1. Held(t)' = Held(t) \ {c} /\ c \in Held(t)
    BY <1>1, <1>5 DEF Held, OnTier
  <2> QED BY <2>1, ClaimCounts, FS_RemoveElement
<1> QED BY <1>2, <1>3, <1>4, <1>5

LEMMA FairCancel ==
    ASSUME IInv, NEW p \in Procs, Cancel(p) PROVE \A t \in Tiers : Fair(t)
<1>1. /\ Step(p) /\ TypeOK /\ TypeOK' /\ pc[p] = "write" /\ pc'[p] = "idle" /\ leaked' = leaked
  BY CancelStep, EndsSoundly DEF IInv, Step, Cancel
<1>2. PICK c \in Claims :
        /\ op[p].who = {c} /\ Store(c, "cancelled")
        /\ avail' = [avail EXCEPT ![row[c].tier] = Returned(row[c].tier, 1)]
        /\ doubled' = [doubled EXCEPT ![row[c].tier] =
                         IF row[c].status \in Taking THEN @ ELSE @ + 1]
  BY DEF Cancel
<1>3. PICK u \in Tiers : u = row[c].tier /\ row[c] # NoRow
  BY <1>1, <1>2, InChange
<1> SUFFICES ASSUME NEW t \in Tiers PROVE Fair(t)
  OBVIOUS
<1>4. Due(t)' = Due(t)
  BY <1>1, DueSame
<1>5. "cancelled" \in Statuses /\ "cancelled" # "pending" /\ "cancelled" \notin Taking
  BY DEF Statuses, Taking
<1>6. CASE t # u
  <2>1. Held(t)' = Held(t)
    BY <1>1, <1>2, <1>3, <1>5, <1>6, HeldStore
  <2> QED BY <1>1, <1>2, <1>3, <1>4, <1>6, <2>1, FairUnmoved DEF TypeOK
<1>7. CASE t = u
  <2>1. PICK k \in 0 .. 1 : Returned(u, 1) = avail[u] + k /\ (k < 1 => Returned(u, 1) = Capacity[u])
    BY <1>1, ReturnedBy
  <2>2. avail'[t] = avail[t] + k /\ (k < 1 => avail'[t] = Capacity[t])
    BY <1>1, <1>2, <1>3, <1>7, <2>1 DEF TypeOK
  <2>3. CASE row[c].status \in Taking
    <3>1. Cardinality(Held(t)') = Cardinality(Held(t)) - 1
      BY <1>1, <1>2, <1>3, <1>5, <1>7, <2>3, HeldStore
    <3>2. Counted(t)' = Counted(t) + (k - 1)
      BY <1>1, <1>4, <2>2, <3>1, ClaimCounts, Books DEF Counted
    <3>3. doubled'[t] = doubled[t]
      BY <1>1, <1>2, <1>3, <1>7, <2>3 DEF TypeOK
    <3>4. PICK j \in Int : j = k - 1 /\ j <= 0 /\ (j < 0 => k < 1)
      OBVIOUS
    <3> QED BY <1>1, <2>2, <3>2, <3>3, <3>4, Books, FairBy
  <2>4. CASE row[c].status \notin Taking
    <3>1. Held(t)' = Held(t)
      BY <1>1, <1>2, <1>3, <1>5, <1>7, <2>4, HeldStore
    <3>2. Counted(t)' = Counted(t) + k
      BY <1>1, <1>4, <2>2, <3>1, ClaimCounts, Books DEF Counted
    <3>3. doubled'[t] = doubled[t] + 1
      BY <1>1, <1>2, <1>3, <1>7, <2>4 DEF TypeOK
    <3> QED BY <1>1, <3>2, <3>3, Books, FairBy
  <2> QED BY <2>3, <2>4
<1> QED BY <1>6, <1>7

LEMMA FairOccupy ==
    ASSUME IInv, NEW p \in Procs, Occupy(p) PROVE \A t \in Tiers : Fair(t)
<1>1. /\ Step(p) /\ TypeOK /\ TypeOK' /\ pc[p] = "write" /\ pc'[p] = "idle"
      /\ avail' = avail /\ leaked' = leaked
  BY OccupyStep, EndsSoundly DEF IInv, Step, Occupy
<1>2. PICK c \in Claims, s \in {"checked_in", "confirmed"} :
        /\ op[p].who = {c} /\ Store(c, s)
        /\ doubled' = [doubled EXCEPT ![row[c].tier] =
                         IF row[c].status \in Taking THEN @ ELSE @ + 1]
  BY DEF Occupy
<1>3. PICK u \in Tiers : u = row[c].tier /\ row[c] # NoRow
  BY <1>1, <1>2, InChange
<1> SUFFICES ASSUME NEW t \in Tiers PROVE Fair(t)
  OBVIOUS
<1>4. Due(t)' = Due(t)
  BY <1>1, DueSame
<1>5. s \in Statuses /\ s # "pending" /\ s \in Taking
  BY DEF Statuses, Taking
<1>6. CASE t # u \/ row[c].status \in Taking
  <2>1. Held(t)' = Held(t)
    BY <1>1, <1>2, <1>3, <1>5, <1>6, HeldStore
  <2>2. doubled'[t] = doubled[t]
    BY <1>1, <1>2, <1>3, <1>6 DEF TypeOK
  <2> QED BY <1>1, <1>4, <2>1, <2>2, FairUnmoved
<1>7. CASE t = u /\ row[c].status \notin Taking
  <2>1. Cardinality(Held(t)') = Cardinality(Held(t)) + 1
    BY <1>1, <1>2, <1>3, <1>5, <1>7, HeldStore
  <2>2. Counted(t)' = Counted(t) + 1
    BY <1>1, <1>4, <2>1, ClaimCounts, Books DEF Counted
  <2>3. doubled'[t] = doubled[t] + 1
    BY <1>1, <1>2, <1>3, <1>7 DEF TypeOK
  <2> QED BY <1>1, <2>2, <2>3, Books, FairBy
<1> QED BY <1>6, <1>7

(* Registrations that expire pass from occupied to due.                     *)
LEMMA FairReap ==
    ASSUME IInv, NEW p \in Procs, NEW o \in Batches, Reap(p, o)
    PROVE  \A t \in Tiers : Fair(t)
<1>1. Step(p) /\ TypeOK /\ TypeOK' /\ avail' = avail /\ "return" \in Labels /\ o \in Ops
      /\ o.who \subseteq Claims
  BY ReapStep, ChangeIsOp, OpWho DEF IInv, Step, Reap, Labels
<1>2. /\ pc[p] = "idle" /\ pc'[p] = "return" /\ op'[p] = o /\ doubled' = doubled /\ leaked' = leaked
      /\ \A q \in Procs \ {p} : pc'[q] = pc[q] /\ op'[q] = op[q]
  BY <1>1, BeginStep DEF Reap
<1>3. /\ \A c \in o.who : row[c] # NoRow /\ row[c].status = "pending"
      /\ \A c \in Claims : row'[c] = IF c \in o.who THEN [tier |-> row[c].tier, status |-> "expired"]
                                                    ELSE row[c]
  BY DEF Reap
<1>4. \A c \in o.who : row'[c] # NoRow /\ row'[c].tier = row[c].tier /\ row'[c].status = "expired"
  <2> SUFFICES ASSUME NEW c \in o.who
               PROVE  row'[c] # NoRow /\ row'[c].tier = row[c].tier /\ row'[c].status = "expired"
    OBVIOUS
  <2>1. row'[c] = [tier |-> row[c].tier, status |-> "expired"]
    BY <1>1, <1>3
  <2>2. row'[c] # NoRow
    BY <1>1, <1>3 DEF Step, RowsStay
  <2> QED BY <2>1, <2>2
<1> SUFFICES ASSUME NEW t \in Tiers PROVE Fair(t)
  OBVIOUS
<1> DEFINE E == OnTier(o.who, t)
<1>5. E \subseteq Held(t) /\ Held(t)' = Held(t) \ E
  <2>1. "pending" \in Taking /\ "expired" \notin Taking
    BY DEF Taking
  <2> QED BY <1>1, <1>3, <1>4, <2>1 DEF Held, OnTier
<1>6. Due(t)' = Due(t) \cup E /\ Due(t) \cap E = {}
  <2>1. ASSUME NEW q \in Procs, pc[q] = "return", NEW c \in op[q].who
        PROVE  c \in Claims /\ row[c] # NoRow /\ row[c].status # "pending" /\ row'[c] # NoRow
               /\ row'[c].tier = row[c].tier
    BY <1>1, <2>1, InBatch DEF IInv, OpsMatch, Matches, Expired, Step, RowsStay
  <2>2. Due(t)' = Due(t) \cup E
    BY <1>1, <1>2, <1>3, <1>4, <2>1 DEF Due, OnTier
  <2>3. Due(t) \cap E = {}
    BY <1>3, <2>1 DEF Due, OnTier
  <2> QED BY <2>2, <2>3
<1>7. IsFiniteSet(E) /\ Cardinality(E) \in Nat
  BY <1>1, OnTierCount
<1> HIDE DEF E
<1>8. Cardinality(Due(t)') = Cardinality(Due(t)) + Cardinality(E)
  BY <1>6, <1>7, ClaimCounts, JoinApart
<1>9. Cardinality(Held(t)) = Cardinality(Held(t)') + Cardinality(E)
  <2>1. Held(t) = Held(t)' \cup E /\ Held(t)' \cap E = {}
    BY <1>5
  <2> QED BY <1>7, <2>1, ClaimCounts, JoinApart
<1>10. Counted(t)' = Counted(t) + 0
  BY <1>1, <1>7, <1>8, <1>9, ClaimCounts, Books DEF Counted
<1> QED BY <1>1, <1>2, <1>10, Books, FairBy

(* Part of a finite set, and the rest.                                      *)
LEMMA SplitOff ==
    ASSUME NEW S, IsFiniteSet(S), NEW T, T \subseteq S
    PROVE  Cardinality(S) = Cardinality(S \ T) + Cardinality(T)
<1>1. IsFiniteSet(T) /\ IsFiniteSet(S \ T) /\ S = (S \ T) \cup T /\ (S \ T) \cap T = {}
  BY FS_Subset, FS_Difference
<1> QED BY <1>1, JoinApart

(* The reaper returns the seats of one tier: they are due no more.          *)
LEMMA FairReturnSeats ==
    ASSUME IInv, NEW p \in Procs, NEW u \in Tiers, ReturnSeats(p, u)
    PROVE  \A t \in Tiers : Fair(t)
<1>1. /\ Step(p) /\ TypeOK /\ TypeOK' /\ pc[p] = "return" /\ row' = row
      /\ doubled' = doubled /\ leaked' = leaked
  BY ReturnSeatsStep DEF IInv, Step, ReturnSeats
<1>2. PICK S \in SUBSET Claims, n \in Nat :
        S = OnTier(op[p].who, u) /\ n = Cardinality(S) /\ op[p].who \subseteq Claims
  BY <1>1, InBatch, OnTierCount
<1>3. avail' = [avail EXCEPT ![u] = Returned(u, n)]
  BY <1>2 DEF ReturnSeats
<1>4. \/ pc'[p] = "idle" /\ op[p].who = S
      \/ pc'[p] = "return" /\ op'[p].who = op[p].who \ S
  BY <1>1, <1>2, DoneStep DEF ReturnSeats
<1>5. \A q \in Procs \ {p} : pc'[q] = pc[q] /\ op'[q] = op[q]
  BY <1>1 DEF Step, OthersKept
<1>6. \A q \in Procs \ {p} : pc[q] = "return" => op[p].who \cap op[q].who = {}
  BY <1>1 DEF IInv, ReturnsApart
<1> SUFFICES ASSUME NEW t \in Tiers PROVE Fair(t)
  OBVIOUS
<1>7. Held(t)' = Held(t)
  BY <1>1, HeldSame
<1>8. CASE t # u
  <2>1. Due(t)' = Due(t)
    BY <1>1, <1>2, <1>4, <1>5, <1>8 DEF Due, OnTier
  <2> QED BY <1>1, <1>3, <1>7, <1>8, <2>1, FairUnmoved DEF TypeOK
<1>9. CASE t = u
  <2>1. S \subseteq Due(t) /\ Due(t)' = Due(t) \ S
    BY <1>1, <1>2, <1>4, <1>5, <1>6, <1>9 DEF Due, OnTier
  <2>2. Cardinality(Due(t)) = Cardinality(Due(t)') + n
    BY <1>2, <2>1, ClaimCounts, SplitOff
  <2>3. PICK k \in 0 .. n : Returned(u, n) = avail[u] + k /\ (k < n => Returned(u, n) = Capacity[u])
    BY <1>1, ReturnedBy
  <2>4. avail'[t] = avail[t] + k /\ (k < n => avail'[t] = Capacity[t])
    BY <1>1, <1>3, <1>9, <2>3 DEF TypeOK
  <2>5. PICK j \in Int : j = k - n /\ j <= 0 /\ (j < 0 => k < n)
    OBVIOUS
  <2>6. Counted(t)' = Counted(t) + j
    BY <1>1, <1>7, <2>2, <2>4, <2>5, ClaimCounts, Books DEF Counted
  <2> QED BY <1>1, <2>4, <2>5, <2>6, Books, FairBy
<1> QED BY <1>8, <1>9

(* The lost answer: the seats are on sale and still due.                    *)
LEMMA FairReturnRetried ==
    ASSUME IInv, NEW p \in Procs, NEW u \in Tiers, ReturnRetried(p, u)
    PROVE  \A t \in Tiers : Fair(t)
<1>1. /\ Step(p) /\ TypeOK /\ TypeOK' /\ pc[p] = "return" /\ row' = row /\ leaked' = leaked
      /\ pc' = pc /\ op' = op
  BY ReturnSeatsStep DEF IInv, Step, ReturnRetried
<1>2. PICK n \in Nat : n = Cardinality(OnTier(op[p].who, u))
  BY <1>1, InBatch, OnTierCount
<1>3. /\ avail' = [avail EXCEPT ![u] = Returned(u, n)] /\ doubled' = [doubled EXCEPT ![u] = @ + n]
  BY <1>2 DEF ReturnRetried
<1> SUFFICES ASSUME NEW t \in Tiers PROVE Fair(t)
  OBVIOUS
<1>4. Due(t)' = Due(t) /\ Held(t)' = Held(t)
  BY <1>1, HeldSame DEF Due, OnTier
<1>5. CASE t # u
  BY <1>1, <1>3, <1>4, <1>5, FairUnmoved DEF TypeOK
<1>6. CASE t = u
  <2>1. PICK k \in 0 .. n : Returned(u, n) = avail[u] + k
    BY <1>1, ReturnedBy
  <2>2. avail'[t] = avail[t] + k /\ doubled'[t] = doubled[t] + n
    BY <1>1, <1>3, <1>6, <2>1 DEF TypeOK
  <2>3. Counted(t)' = Counted(t) + k
    BY <1>1, <1>4, <2>2, ClaimCounts, Books DEF Counted
  <2> QED BY <1>1, <2>2, <2>3, Books, FairBy
<1> QED BY <1>5, <1>6

(* Three failures: the seats are due no more, and leaked.                   *)
LEMMA FairReturnAbandoned ==
    ASSUME IInv, NEW p \in Procs, NEW u \in Tiers, ReturnAbandoned(p, u)
    PROVE  \A t \in Tiers : Fair(t)
<1>1. /\ Step(p) /\ TypeOK /\ TypeOK' /\ pc[p] = "return" /\ row' = row
      /\ avail' = avail /\ doubled' = doubled
  BY ReturnSeatsStep DEF IInv, Step, ReturnAbandoned
<1>2. PICK S \in SUBSET Claims, n \in Nat :
        S = OnTier(op[p].who, u) /\ n = Cardinality(S) /\ op[p].who \subseteq Claims
  BY <1>1, InBatch, OnTierCount
<1>3. leaked' = [leaked EXCEPT ![u] = @ + n]
  BY <1>2 DEF ReturnAbandoned
<1>4. \/ pc'[p] = "idle" /\ op[p].who = S
      \/ pc'[p] = "return" /\ op'[p].who = op[p].who \ S
  BY <1>1, <1>2, DoneStep DEF ReturnAbandoned
<1>5. \A q \in Procs \ {p} : pc'[q] = pc[q] /\ op'[q] = op[q]
  BY <1>1 DEF Step, OthersKept
<1>6. \A q \in Procs \ {p} : pc[q] = "return" => op[p].who \cap op[q].who = {}
  BY <1>1 DEF IInv, ReturnsApart
<1> SUFFICES ASSUME NEW t \in Tiers PROVE Fair(t)
  OBVIOUS
<1>7. Held(t)' = Held(t)
  BY <1>1, HeldSame
<1>8. CASE t # u
  <2>1. Due(t)' = Due(t)
    BY <1>1, <1>2, <1>4, <1>5, <1>8 DEF Due, OnTier
  <2> QED BY <1>1, <1>3, <1>7, <1>8, <2>1, FairUnmoved DEF TypeOK
<1>9. CASE t = u
  <2>1. S \subseteq Due(t) /\ Due(t)' = Due(t) \ S
    BY <1>1, <1>2, <1>4, <1>5, <1>6, <1>9 DEF Due, OnTier
  <2>2. Cardinality(Due(t)) = Cardinality(Due(t)') + n
    BY <1>2, <2>1, ClaimCounts, SplitOff
  <2>3. PICK j \in Int : j = -n /\ j <= 0 /\ n + j = 0
    OBVIOUS
  <2>4. Counted(t)' = Counted(t) + j
    BY <1>1, <1>7, <2>2, <2>3, ClaimCounts, Books DEF Counted
  <2>5. leaked'[t] + j = leaked[t]
    BY <1>1, <1>3, <1>9, <2>3, Books DEF TypeOK
  <2> QED BY <1>1, <2>3, <2>4, <2>5, Books, FairBy
<1> QED BY <1>8, <1>9

(* The beat task: seats of holds that were still held.                      *)
LEMMA FairReleaseHolds ==
    ASSUME IInv, NEW p \in Procs, ReleaseHolds(p) PROVE \A t \in Tiers : Fair(t)
<1>1. /\ Step(p) /\ TypeOK /\ TypeOK' /\ pc[p] = "release" /\ pc'[p] = "idle" /\ leaked' = leaked
  BY ReleaseHoldsStep, EndsSoundly DEF IInv, Step, ReleaseHolds
<1>2. PICK S \in SUBSET Claims : S = op[p].who
  BY <1>1, InBatch
<1>3. /\ avail' = [t \in Tiers |-> Returned(t, Cardinality(OnTier(S, t)))]
      /\ row' = [c \in Claims |-> IF c \in S THEN [tier |-> row[c].tier, status |-> "released"]
                                             ELSE row[c]]
      /\ doubled' = [t \in Tiers |-> doubled[t] + Cardinality(OnTier(S, t) \ Held(t))]
  BY <1>2 DEF ReleaseHolds
<1>4. \A c \in S : row'[c].status = "released"
  <2> SUFFICES ASSUME NEW c \in S PROVE row'[c].status = "released"
    OBVIOUS
  <2>1. row'[c] = [tier |-> row[c].tier, status |-> "released"]
    BY <1>3
  <2> QED BY <2>1
<1>5. \A c \in Claims \ S : row'[c] = row[c]
  BY <1>3
<1> SUFFICES ASSUME NEW t \in Tiers PROVE Fair(t)
  OBVIOUS
<1> DEFINE R == OnTier(S, t)
<1>6. Due(t)' = Due(t)
  BY <1>1, DueSame
<1>7. Held(t)' = Held(t) \ (R \cap Held(t))
  <2>1. "released" \notin Taking
    BY DEF Taking
  <2> QED BY <1>4, <1>5, <2>1 DEF Held, OnTier
<1>8. IsFiniteSet(R) /\ Cardinality(R) \in Nat
  BY OnTierCount
<1>9. doubled'[t] = doubled[t] + Cardinality(R \ Held(t)) /\ avail'[t] = Returned(t, Cardinality(R))
  BY <1>3
<1> HIDE DEF R
<1>10. PICK n \in Nat, b \in Nat : n = Cardinality(R \cap Held(t)) /\ b = Cardinality(R \ Held(t))
  BY <1>8, FS_Intersection, FS_Difference, FS_CardinalityType
<1>11. Cardinality(R) = n + b
  <2>1. R \cap Held(t) \subseteq R /\ R \ (R \cap Held(t)) = R \ Held(t)
    OBVIOUS
  <2> QED BY <1>8, <1>10, <2>1, SplitOff
<1>12. Cardinality(Held(t)) = Cardinality(Held(t)') + n
  <2>1. R \cap Held(t) \subseteq Held(t)
    OBVIOUS
  <2> QED BY <1>7, <1>10, <2>1, ClaimCounts, SplitOff
<1>13. PICK k \in 0 .. (n + b) : /\ Returned(t, n + b) = avail[t] + k
                                 /\ k < n + b => Returned(t, n + b) = Capacity[t]
  BY <1>1, ReturnedBy
<1>14. avail'[t] = avail[t] + k /\ (k < n + b => avail'[t] = Capacity[t])
  BY <1>9, <1>11, <1>13
<1>15. PICK j \in Int : j = k - n /\ j <= b /\ (j < 0 => k < n + b)
  OBVIOUS
<1>16. Counted(t)' = Counted(t) + j
  BY <1>1, <1>6, <1>12, <1>14, <1>15, ClaimCounts, Books DEF Counted
<1> QED BY <1>1, <1>9, <1>10, <1>14, <1>15, <1>16, Books, FairBy

(* A process that dies: what it had to return is due no more, and leaked.   *)
LEMMA FairDies ==
    ASSUME IInv, NEW p \in Procs, Dies(p) PROVE \A t \in Tiers : Fair(t)
<1>1. /\ Step(p) /\ TypeOK /\ TypeOK' /\ row' = row /\ avail' = avail /\ doubled' = doubled
  BY DiesStep DEF IInv, Step, Dies
<1>2. pc'[p] = "idle"
  BY <1>1, EndStep DEF Dies
<1>3. CASE pc[p] # "return"
  <2>1. leaked' = [t \in Tiers |-> leaked[t]]
    BY <1>3 DEF Dies
  <2>2. leaked' = leaked
    BY <1>1, <2>1 DEF TypeOK
  <2> QED BY <1>1, <1>2, <1>3, <2>2, FairQuiet
<1>4. CASE pc[p] = "return"
  <2> SUFFICES ASSUME NEW t \in Tiers PROVE Fair(t)
    OBVIOUS
  <2>1. PICK S \in SUBSET Claims : /\ S = OnTier(op[p].who, t) /\ IsFiniteSet(S)
                                   /\ Cardinality(S) \in Nat /\ op[p].who \subseteq Claims
    <3>1. PICK W \in SUBSET Claims : W = op[p].who
      BY <1>4, InBatch
    <3>2. OnTier(W, t) \in SUBSET Claims /\ IsFiniteSet(OnTier(W, t)) /\ Cardinality(OnTier(W, t)) \in Nat
      BY OnTierCount
    <3> QED BY <3>1, <3>2
  <2>2. leaked'[t] = leaked[t] + Cardinality(S)
    BY <1>4, <2>1 DEF Dies
  <2>3. \A q \in Procs \ {p} : /\ pc'[q] = pc[q] /\ op'[q] = op[q]
                               /\ pc[q] = "return" => op[p].who \cap op[q].who = {}
    BY <1>1, <1>4 DEF Step, OthersKept, IInv, ReturnsApart
  <2>4. S \subseteq Due(t) /\ Due(t)' = Due(t) \ S
    BY <1>1, <1>2, <1>4, <2>1, <2>3 DEF Due, OnTier
  <2>5. Cardinality(Due(t)) = Cardinality(Due(t)') + Cardinality(S)
    BY <2>4, ClaimCounts, SplitOff
  <2>6. Held(t)' = Held(t)
    BY <1>1, HeldSame
  <2>7. PICK j \in Int : j = -Cardinality(S) /\ j <= 0 /\ Cardinality(S) + j = 0
    BY <2>1
  <2>8. Counted(t)' = Counted(t) + j
    BY <1>1, <2>1, <2>5, <2>6, <2>7, ClaimCounts, Books DEF Counted
  <2>9. doubled'[t] = doubled[t]
    BY <1>1
  <2>10. leaked'[t] + j = leaked[t]
    BY <1>1, <2>1, <2>2, <2>7, Books
  <2> QED BY <1>1, <2>7, <2>8, <2>9, <2>10, Books, FairBy
<1> QED BY <1>3, <1>4

LEMMA EveryStepFair == ASSUME IInv, Next PROVE \A t \in Tiers : Fair(t)
<1>0. TypeOK
  BY DEF IInv
<1>1. ASSUME NEW p \in Procs, NEW o \in Takes, BeginTake(p, o) PROVE \A t \in Tiers : Fair(t)
  <2>1. /\ Step(p) /\ pc[p] # "return" /\ pc'[p] # "return" /\ avail' = avail /\ row' = row
        /\ doubled' = doubled /\ leaked' = leaked
    BY <1>0, <1>1, BeginTakeStep DEF BeginTake, Begin, TypeOK
  <2> QED BY <2>1, FairQuiet
<1>2. ASSUME NEW p \in Procs, NEW o \in Changes, BeginChange(p, o) PROVE \A t \in Tiers : Fair(t)
  <2>1. /\ Step(p) /\ pc[p] # "return" /\ pc'[p] # "return" /\ avail' = avail /\ row' = row
        /\ doubled' = doubled /\ leaked' = leaked
    BY <1>0, <1>2, BeginChangeStep DEF BeginChange, Begin, TypeOK
  <2> QED BY <2>1, FairQuiet
<1>3. ASSUME NEW p \in Procs, NEW o \in Batches, ClaimHolds(p, o) PROVE \A t \in Tiers : Fair(t)
  <2>1. /\ Step(p) /\ pc[p] # "return" /\ pc'[p] # "return" /\ avail' = avail /\ row' = row
        /\ doubled' = doubled /\ leaked' = leaked
    BY <1>0, <1>3, ClaimHoldsStep DEF ClaimHolds, Begin, TypeOK
  <2> QED BY <2>1, FairQuiet
<1>4. ASSUME NEW p \in Procs, Pay(p) \/ LockEvent(p) \/ UpdateTier(p) \/ RetryDecrement(p)
      PROVE  \A t \in Tiers : Fair(t)
  <2>1. Step(p)
    BY <1>4, PayStep, LockEventStep, UpdateTierStep, RetryDecrementStep
  <2>2. /\ pc[p] # "return" /\ pc'[p] # "return" /\ avail' = avail /\ row' = row
        /\ doubled' = doubled /\ leaked' = leaked
    BY <1>0, <1>4 DEF Pay, LockEvent, UpdateTier, RetryDecrement, Goto, TypeOK
  <2> QED BY <2>1, <2>2, FairQuiet
<1>5. ASSUME NEW p \in Procs, PayRefused(p) \/ Refund(p) \/ RefundRefused(p)
      PROVE  \A t \in Tiers : Fair(t)
  <2>1. Step(p) /\ End(p)
    BY <1>5, QuietEnds DEF PayRefused, Refund, RefundRefused
  <2>2. /\ pc[p] # "return" /\ pc'[p] # "return" /\ avail' = avail /\ row' = row
        /\ doubled' = doubled /\ leaked' = leaked
    BY <1>5, <2>1, EndsSoundly DEF PayRefused, Refund, RefundRefused
  <2> QED BY <2>1, <2>2, FairQuiet
<1>6. ASSUME NEW p \in Procs, SoldOut(p) \/ InsertDuplicate(p) \/ InsertError(p)
      PROVE  \A t \in Tiers : Fair(t)
  <2>1. /\ Step(p) /\ pc[p] \in {"event", "tier", "insert"} /\ GiveUp(p) /\ avail' = avail /\ row' = row
        /\ doubled' = doubled /\ leaked' = leaked
    BY <1>6, TakingSteps DEF SoldOut, InsertDuplicate, InsertError
  <2>2. pc[p] # "return" /\ pc'[p] # "return"
    BY <2>1, GiveUpStep
  <2> QED BY <2>1, <2>2, FairQuiet
<1>7. ASSUME NEW p \in Procs, CommitTake(p) \/ CommitUnanswered(p) PROVE \A t \in Tiers : Fair(t)
  <2>1. Step(p) /\ Taken(p) /\ pc[p] = "insert"
    BY <1>7, TakingSteps DEF CommitTake, CommitUnanswered, Taken
  <2>2. pc'[p] # "return"
    BY <1>7, <2>1, GiveUpStep, EndsSoundly DEF CommitTake, CommitUnanswered
  <2> QED BY <2>1, <2>2, FairTaken
<1>8. ASSUME NEW p \in Procs, ReleaseRetried(p) PROVE \A t \in Tiers : Fair(t)
  <2>1. /\ Step(p) /\ pc[p] # "return" /\ pc'[p] # "return" /\ avail' = avail /\ row' = row
        /\ doubled' = doubled /\ leaked' = leaked
    BY <1>8, ReleaseRetriedStep DEF ReleaseRetried
  <2> QED BY <2>1, FairQuiet
<1> QED BY <1>1, <1>2, <1>3, <1>4, <1>5, <1>6, <1>7, <1>8, FairReap, FairCancel,
           FairCancelRetried, FairOccupy, FairReleaseHolds, FairReturnSeats,
           FairReturnRetried, FairReturnAbandoned, FairDies DEF Next

(* Seats never exceed the capacity but by those given twice in one of the   *)
(* recorded races, and never fall short of it but by those a dying reaper   *)
(* leaked: for any number of tiers, people, processes and faults.           *)
THEOREM SeatsConserved == Spec => [](NoUnexplainedSeats /\ NoUnexplainedLoss)
<1>1. Init => NoUnexplainedSeats /\ NoUnexplainedLoss
  <2> SUFFICES ASSUME Init, NEW t \in Tiers
               PROVE  /\ avail[t] = Capacity[t] /\ doubled[t] = 0 /\ leaked[t] = 0
                      /\ Cardinality(Held(t)) = 0 /\ Cardinality(Due(t)) = 0
                      /\ Capacity[t] \in Nat
    BY DEF NoUnexplainedSeats, NoUnexplainedLoss
  <2>1. Held(t) = {} /\ Due(t) = {}
    BY DEF Init, Held, Due, OnTier
  <2> QED BY <2>1, FS_EmptySet, InventoryAssumption DEF Init
<1>2. ASSUME IInv, IInv', NoUnexplainedSeats, NoUnexplainedLoss, [Next]_vars
      PROVE  NoUnexplainedSeats' /\ NoUnexplainedLoss'
  <2>1. CASE Next
    BY <1>2, <2>1, EveryStepFair, FairKeeps DEF IInv
  <2>2. CASE UNCHANGED vars
    BY <1>2, <2>2
       DEF vars, locks, NoUnexplainedSeats, NoUnexplainedLoss, Held, Due, OnTier
  <2> QED BY <1>2, <2>1, <2>2
<1> QED BY <1>1, <1>2, Invariant, PTL DEF Spec

(* In particular no interleaving of retries, cancellations and releases     *)
(* loses a seat; only the death of the reaper does.                         *)
THEOREM SeatsAreNotLost == Spec => []NoUnexplainedLoss
BY SeatsConserved, PTL
=============================================================================
