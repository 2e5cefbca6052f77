-------------------------- MODULE AdjustmentsProofs --------------------------
(* Theorems about Adjustments, for all sets of calls and requests.          *)
EXTENDS Adjustments, TLAPS

(* A call has moved money exactly from its execution on.                    *)
KeysMatch ==
    /\ \A c \in spent : pc[c] \in {"mark", "done"}
    /\ \A c \in Calls : pc[c] = "mark" => c \in spent
    /\ \A c \in Calls : pc[c] \in Deciding => status[on[c]] # "none"
    /\ \A c \in spent : on[c] \in Requests /\ status[on[c]] # "none"

(* Small requests are born approved and nobody decides on them again.       *)
AutoStays ==
    /\ \A r \in auto : status[r] = "approved"
    /\ \A c \in Calls : pc[c] = "reject" => on[c] \notin auto

(* What the only call at work on a request may rely on.                     *)
Undisturbed ==
    \A r \in Requests, c \in Calls \ contested :
        /\ c \in Active(r) => Active(r) = {c}
        /\ c \in Active(r) /\ pc[c] = "execute" =>
             Payments(r) = {} /\ (r \in auto \/ status[r] = "pending")
        /\ c \in Active(r) /\ pc[c] = "mark" => Payments(r) = {c}
        /\ c \in Active(r) /\ pc[c] = "reject" => Payments(r) = {} /\ status[r] = "pending"
        /\ c \in Payments(r) => Active(r) \subseteq {c}

(* A payment is said, or is about to be.                                    *)
Said ==
    /\ \A r \in Requests : \A c \in Payments(r) : pc[c] = "mark" \/ status[r] # "pending"
    /\ \A c \in broken : pc[c] = "done"

IInv ==
    /\ TypeOK /\ KeysMatch /\ AutoStays
    /\ Undisturbed /\ Said /\ DecisionMatchesMoney /\ ApprovedIsExecuted

LEMMA InitEstablishes == Init => IInv
  BY AdjustmentAssumption
  DEF Init, IInv, TypeOK, KeysMatch, AutoStays, Undisturbed, Said, DecisionMatchesMoney,
      ApprovedIsExecuted, Active, Movements, Payments, Statuses, Deciding, L!Init

(* What an execution does to the wallet.                                    *)
LEMMA MoveEffect ==
  ASSUME TypeOK, NEW c \in Calls, Move(c)
  PROVE  /\ c \notin spent /\ spent' = spent \cup {c}
         /\ balance' \in [{Account} -> Int] /\ balance'[Account] >= 0
         /\ payouts' \subseteq Calls /\ reopened' \subseteq Calls
  BY AdjustmentAssumption DEF Move, TypeOK, L!Deposit, L!Withdraw, L!Use

(* A step concerns one request r, and leaves the others as they are.        *)
Elsewhere(r) ==
    \A s \in Requests \ {r} :
        /\ Active(s)' = Active(s) /\ Payments(s)' = Payments(s) /\ status'[s] = status[s]
        /\ \A c \in Active(s) \cup Payments(s) : pc'[c] = pc[c]

(* What the invariant says of request r.                                    *)
Fine(r) ==
    /\ \A c \in Calls \ contested :
        /\ c \in Active(r) => Active(r) = {c}
        /\ c \in Active(r) /\ pc[c] = "execute" =>
             Payments(r) = {} /\ (r \in auto \/ status[r] = "pending")
        /\ c \in Active(r) /\ pc[c] = "mark" => Payments(r) = {c}
        /\ c \in Active(r) /\ pc[c] = "reject" => Payments(r) = {} /\ status[r] = "pending"
        /\ c \in Payments(r) => Active(r) \subseteq {c}
    /\ \A c \in Payments(r) : pc[c] = "mark" \/ status[r] # "pending"
    /\ \A c \in Payments(r) \ contested : Payments(r) = {c}
    /\ status[r] = "rejected" => Payments(r) \subseteq contested
    /\ status[r] = "pending" /\ Active(r) = {} => Payments(r) = {}

LEMMA FineSuffices ==
  ASSUME IInv, NEW r \in Requests, Elsewhere(r), Fine(r)',
         auto \subseteq auto', contested \subseteq contested', \A c \in broken' : pc'[c] = "done"
  PROVE  Undisturbed' /\ Said' /\ DecisionMatchesMoney'
<1>1. ASSUME NEW s \in Requests PROVE Fine(s)'
  <2>1. CASE s = r BY <2>1
  <2>2. CASE s # r
    <3>1. Fine(s) BY DEF Fine, IInv, Undisturbed, Said, DecisionMatchesMoney
    <3>2. /\ Active(s)' = Active(s) /\ Payments(s)' = Payments(s) /\ status'[s] = status[s]
          /\ \A c \in Active(s) \cup Payments(s) : pc'[c] = pc[c]
      BY <2>2 DEF Elsewhere
    <3> QED BY <3>1, <3>2 DEF Fine
  <2> QED BY <2>1, <2>2
<1>2. Undisturbed' BY <1>1 DEF Undisturbed, Fine
<1>3. Said' BY <1>1 DEF Said, Fine
<1>4. DecisionMatchesMoney' BY <1>1 DEF DecisionMatchesMoney, Fine
<1> QED BY <1>2, <1>3, <1>4

LEMMA IsFine ==
  ASSUME IInv, NEW r \in Requests PROVE Fine(r)
  BY DEF Fine, IInv, Undisturbed, Said, DecisionMatchesMoney

(* A request is made.                                                       *)
LEMMA RequestPreserves ==
  ASSUME IInv, NEW c \in Calls, NEW r \in Requests, NEW k \in {"deposit", "withdraw"},
         NEW small \in BOOLEAN, RequestAdjustment(c, r, k, small)
  PROVE  IInv'
<1> USE DEF IInv, Goto, RequestAdjustment
<1>1. TypeOK' BY DEF TypeOK, Statuses, Deciding, history, wallet
<1>2. Movements(r) = {} /\ c \notin spent
  BY DEF KeysMatch, TypeOK, Movements
<1>3. /\ \A s \in Requests : Movements(s)' = Movements(s) /\ Payments(s)' = Payments(s)
      /\ \A s \in Requests \ {r} : Active(s)' = Active(s)
      /\ Active(r)' \subseteq {c}
  BY <1>2 DEF KeysMatch, TypeOK, Movements, Payments, Active, Deciding, wallet, history
<1>4. KeysMatch' BY <1>2 DEF KeysMatch, TypeOK, Deciding, wallet
<1>5. AutoStays' BY DEF AutoStays, KeysMatch, TypeOK, Deciding, wallet
<1>6. Elsewhere(r)
  BY <1>2, <1>3 DEF Elsewhere, TypeOK, Active, Payments, Movements, Deciding
<1>7. Payments(r)' = {} BY <1>2, <1>3 DEF Payments
<1>8. /\ c \in Active(r)' => pc'[c] = "execute" /\ r \in auto'
      /\ status'[r] \in {"pending", "approved"}
  BY DEF TypeOK, Active, Deciding
<1>9. Fine(r)' BY <1>3, <1>7, <1>8 DEF Fine
<1>10. \A d \in broken' : pc'[d] = "done" BY DEF Said, TypeOK, history
<1>11. auto \subseteq auto' /\ contested \subseteq contested' BY DEF history
<1>12. ApprovedIsExecuted' BY <1>3 DEF ApprovedIsExecuted, TypeOK
<1> QED BY <1>1, <1>4, <1>5, <1>6, <1>9, <1>10, <1>11, <1>12, FineSuffices

(* A decision begins.                                                       *)
LEMMA DecidePreserves ==
  ASSUME IInv, NEW c \in Calls, NEW r \in Requests, NEW step \in {"execute", "reject"},
         Decide(c, r, step)
  PROVE  IInv'
<1> USE DEF IInv, Goto, Decide
<1>1. TypeOK' BY DEF TypeOK, Statuses, Deciding, Active, rows, wallet
<1>2. c \notin spent /\ r \notin auto BY DEF KeysMatch, AutoStays
<1>3. /\ \A s \in Requests : Movements(s)' = Movements(s) /\ Payments(s)' = Payments(s)
      /\ \A s \in Requests \ {r} : Active(s)' = Active(s)
      /\ Active(r)' = Active(r) \cup {c}
  BY <1>2 DEF KeysMatch, TypeOK, Movements, Payments, Active, Deciding, wallet
<1>4. KeysMatch' BY <1>2 DEF KeysMatch, TypeOK, Deciding, rows, wallet
<1>5. AutoStays' BY <1>2 DEF AutoStays, KeysMatch, TypeOK, Deciding, rows, wallet
<1>6. /\ \A d \in Calls \ {c} : pc'[d] = pc[d]
      /\ pc'[c] = step /\ status[r] = "pending" /\ UNCHANGED <<status, auto, broken>>
  BY DEF TypeOK, rows
<1>a. \A s \in Requests : c \notin Active(s) \cup Payments(s)
  BY <1>2 DEF Active, Payments, Movements, Deciding
<1>7. Elsewhere(r) BY <1>3, <1>6, <1>a DEF Elsewhere, Active, Payments, Movements, TypeOK
<1>8. Fine(r)'
  <2>0. Fine(r) BY IsFine
  <2>1. CASE Active(r) = {}
    <3>1. Payments(r) = {} BY <2>0, <2>1, <1>6 DEF Fine
    <3> QED BY <1>3, <1>6, <2>1, <3>1 DEF Fine
  <2>2. CASE Active(r) # {}
    <3>1. contested' = contested \cup Active(r) \cup {c} BY <2>2
    <3>2. \A d \in Calls \ contested' : d \notin Active(r)' /\ d \notin Payments(r)'
      BY <2>0, <2>2, <1>3, <3>1 DEF Fine
    <3>3. \A d \in Payments(r)' : d \in Calls BY <1>3 DEF Payments, Movements, TypeOK
    <3>4. \A d \in Payments(r)' : pc'[d] = "mark" \/ status'[r] # "pending"
      BY <2>0, <1>3, <1>6, <1>a DEF Fine, Payments, Movements, TypeOK
    <3> QED BY <1>3, <1>6, <3>2, <3>3, <3>4 DEF Fine
  <2> QED BY <2>1, <2>2
<1>9. \A d \in broken' : pc'[d] = "done" BY <1>6 DEF Said, TypeOK
<1>10. ApprovedIsExecuted' BY <1>3 DEF ApprovedIsExecuted, TypeOK, rows
<1> QED BY <1>1, <1>4, <1>5, <1>6, <1>7, <1>8, <1>9, <1>10, FineSuffices

(* The money moves.                                                         *)
LEMMA ExecutePreserves ==
  ASSUME IInv, NEW c \in Calls, Execute(c)
  PROVE  IInv'
<1> USE DEF IInv, Goto, Execute
<1> DEFINE r == on[c]
<1>0. r \in Requests /\ c \in Active(r) BY DEF TypeOK, Active, Deciding
<1>1. TypeOK' BY MoveEffect DEF TypeOK, Statuses, Deciding, rows, history
<1>a. c \notin spent /\ c \notin broken BY DEF KeysMatch, Said
<1>2. /\ \A s \in Requests \ {r} : Movements(s)' = Movements(s) /\ Payments(s)' = Payments(s)
      /\ \A s \in Requests : Active(s)' = Active(s)
      /\ Movements(r)' = Movements(r) \cup {c} /\ Payments(r)' = Payments(r) \cup {c}
  BY <1>a, MoveEffect DEF TypeOK, Movements, Payments, Active, Deciding, history
<1>3. KeysMatch' BY MoveEffect, <1>0 DEF KeysMatch, TypeOK, Deciding, rows
<1>4. AutoStays' BY DEF AutoStays, TypeOK, rows
<1>5. /\ \A d \in Calls \ {c} : pc'[d] = pc[d]
      /\ pc'[c] = "mark" /\ UNCHANGED <<status, auto, contested, broken>>
  BY DEF TypeOK, rows, history
<1>6. Elsewhere(r) BY <1>0, <1>2, <1>5, <1>a DEF Elsewhere, Active, Payments, Movements, TypeOK
<1>7. Fine(r)'
  <2>0. Fine(r) /\ pc[c] = "execute" BY <1>0, IsFine
  <2>1. \A d \in Active(r) \cup Payments(r) : d \in Calls
    BY DEF Active, Payments, Movements, TypeOK
  <2>2. CASE c \in contested
    <3>1. \A d \in Calls \ contested : d \notin Active(r) /\ d \notin Payments(r)
      BY <1>0, <2>0, <2>2 DEF Fine
    <3> QED BY <1>0, <1>2, <1>5, <2>0, <2>1, <2>2, <3>1 DEF Fine
  <2>3. CASE c \notin contested
    <3>1. Active(r) = {c} /\ Payments(r) = {} /\ (r \in auto \/ status[r] = "pending")
      BY <1>0, <2>0, <2>3 DEF Fine
    <3>2. status[r] # "rejected" BY <3>1 DEF AutoStays
    <3> QED BY <1>0, <1>2, <1>5, <3>1, <3>2 DEF Fine
  <2> QED BY <2>2, <2>3
<1>8. \A d \in broken' : pc'[d] = "done" BY <1>5, <1>a DEF Said, TypeOK
<1>9. ApprovedIsExecuted' BY <1>2 DEF ApprovedIsExecuted, rows
<1> QED BY <1>0, <1>1, <1>3, <1>4, <1>5, <1>6, <1>7, <1>8, <1>9, FineSuffices

(* A call ends without writing: it was refused, or it died.                 *)
LEMMA EndPreserves ==
  ASSUME IInv, NEW c \in Calls, Refused(c) \/ Crash(c)
  PROVE  IInv'
<1> USE DEF IInv, Goto
<1> DEFINE r == on[c]
<1>0. /\ r \in Requests /\ c \in Active(r) /\ Goto(c, "done")
      /\ UNCHANGED <<rows, on, contested, wallet>>
      /\ broken' = IF pc[c] = "mark" THEN broken \cup {c} ELSE broken
  BY DEF TypeOK, Active, Deciding, Refused, Crash, history
<1>1. TypeOK' BY <1>0, AdjustmentAssumption DEF TypeOK, Statuses, Deciding, rows, wallet, Refused, Crash, history
<1>a. pc[c] # "mark" => c \notin spent BY <1>0 DEF KeysMatch, Active, Deciding
<1>2. /\ \A s \in Requests : Movements(s)' = Movements(s)
      /\ \A s \in Requests : Active(s)' = Active(s) \ {c}
      /\ \A s \in Requests : Payments(s)' = Payments(s) \ {c}
  BY <1>0, <1>a DEF TypeOK, Movements, Payments, Active, Deciding, wallet
<1>3. KeysMatch' BY <1>0 DEF KeysMatch, TypeOK, Deciding, rows, wallet
<1>4. AutoStays' BY <1>0 DEF AutoStays, TypeOK, rows
<1>5. (\A d \in Calls \ {c} : pc'[d] = pc[d]) /\ pc'[c] = "done" /\ UNCHANGED <<status, auto>>
  BY <1>0 DEF TypeOK, rows
<1>b. \A s \in Requests \ {r} : c \notin Active(s) \cup Payments(s)
  BY DEF Active, Payments, Movements
<1>6. Elsewhere(r) BY <1>2, <1>5, <1>b DEF Elsewhere, Active, Payments, Movements, TypeOK
<1>7. Fine(r)'
  <2>0. Fine(r) BY <1>0, IsFine
  <2>1. \A d \in Active(r) \cup Payments(r) : d \in Calls
    BY DEF Active, Payments, Movements, TypeOK
  <2>2. \A d \in Active(r)' \cup Payments(r)' : d # c /\ d \in Calls /\ pc'[d] = pc[d]
    BY <1>0, <1>2, <1>5, <2>1
  <2>3. status[r] = "pending" /\ Active(r)' = {} => Payments(r)' = {}
    <3> SUFFICES ASSUME status[r] = "pending", Active(r)' = {}, NEW d \in Payments(r)' PROVE FALSE
      OBVIOUS
    <3>1. pc[d] = "mark" BY <1>0, <1>2, <2>0 DEF Fine
    <3>2. d \in Active(r) BY <1>0, <1>2, <2>2, <3>1 DEF Payments, Movements, Active, Deciding
    <3> QED BY <1>0, <1>2, <2>2, <3>2
  <2>4. \A d \in Payments(r)' \ contested : Payments(r)' = {d}
    BY <1>0, <1>2, <2>0, <2>1 DEF Fine
  <2>5. \A d \in Calls \ contested : d \in Active(r)' => Active(r) = {d} BY <1>0, <1>2, <2>0 DEF Fine
  <2>6. \A d \in Calls \ contested : d \notin Active(r)' BY <1>0, <1>2, <2>5
  <2> QED BY <1>0, <1>2, <1>5, <2>0, <2>2, <2>3, <2>4, <2>6 DEF Fine
<1>8. \A d \in broken' : pc'[d] = "done" BY <1>0, <1>5 DEF Said, TypeOK
<1>9. ApprovedIsExecuted' BY <1>0, <1>2 DEF ApprovedIsExecuted, rows
<1> QED BY <1>0, <1>1, <1>3, <1>4, <1>5, <1>6, <1>7, <1>8, <1>9, FineSuffices

(* A decision is stored.                                                    *)
LEMMA StorePreserves ==
  ASSUME IInv, NEW c \in Calls, Mark(c) \/ Reject(c)
  PROVE  IInv'
<1> USE DEF IInv, Goto
<1> DEFINE r == on[c]
<1>0. /\ r \in Requests /\ c \in Active(r) /\ Goto(c, "done")
      /\ UNCHANGED <<kind, auto, on, faults, history, wallet>>
      /\ status' = [status EXCEPT ![r] = IF pc[c] = "mark" THEN "approved" ELSE "rejected"]
      /\ pc[c] \in {"mark", "reject"}
  BY DEF TypeOK, Active, Deciding, Mark, Reject
<1>1. TypeOK' BY <1>0 DEF TypeOK, Statuses, Deciding, wallet, history
<1>2. /\ \A s \in Requests : Movements(s)' = Movements(s) /\ Payments(s)' = Payments(s)
      /\ \A s \in Requests : Active(s)' = Active(s) \ {c}
  BY <1>0 DEF TypeOK, Movements, Payments, Active, Deciding, wallet, history
<1>3. KeysMatch' BY <1>0 DEF KeysMatch, TypeOK, Deciding, wallet
<1>4. AutoStays' BY <1>0 DEF AutoStays, TypeOK
<1>5. /\ \A d \in Calls \ {c} : pc'[d] = pc[d]
      /\ pc'[c] = "done" /\ UNCHANGED <<auto, contested, broken>>
      /\ status'[r] = IF pc[c] = "mark" THEN "approved" ELSE "rejected"
      /\ \A s \in Requests \ {r} : status'[s] = status[s]
  BY <1>0 DEF TypeOK, history
<1>b. \A s \in Requests \ {r} : c \notin Active(s) \cup Payments(s)
  BY DEF Active, Payments, Movements
<1>6. Elsewhere(r) BY <1>2, <1>5, <1>b DEF Elsewhere, Active, Payments, Movements, TypeOK
<1>7. Fine(r)'
  <2>0. Fine(r) BY <1>0, IsFine
  <2>1. \A d \in Active(r) \cup Payments(r) : d \in Calls
    BY DEF Active, Payments, Movements, TypeOK
  <2>2. \A d \in Calls \ contested : d \notin Active(r)' BY <1>0, <1>2, <2>0 DEF Fine
  <2>3. status'[r] = "rejected" => Payments(r) \subseteq contested
    <3> SUFFICES ASSUME status'[r] = "rejected", NEW d \in Payments(r), d \notin contested
                 PROVE FALSE
      OBVIOUS
    <3>1. pc[c] = "reject" BY <1>0, <1>5
    <3>2. c = d BY <1>0, <2>0, <2>1 DEF Fine
    <3> QED BY <1>0, <2>0, <3>1, <3>2 DEF Fine
  <2> QED BY <1>0, <1>2, <1>5, <2>0, <2>2, <2>3 DEF Fine
<1>8. \A d \in broken' : pc'[d] = "done" BY <1>5 DEF Said, TypeOK
<1>9. ApprovedIsExecuted'
  <2>1. pc[c] = "mark" => c \in Movements(r) BY DEF KeysMatch, Movements
  <2> QED BY <1>0, <1>2, <2>1 DEF ApprovedIsExecuted, TypeOK
<1> QED BY <1>0, <1>1, <1>3, <1>4, <1>5, <1>6, <1>7, <1>8, <1>9, FineSuffices

LEMMA StepPreserves == IInv /\ [Next]_vars => IInv'
<1> SUFFICES ASSUME IInv, [Next]_vars PROVE IInv' OBVIOUS
<1>1. ASSUME NEW c \in Calls, NEW r \in Requests, NEW k \in {"deposit", "withdraw"},
             NEW small \in BOOLEAN, RequestAdjustment(c, r, k, small)
      PROVE  IInv'
  BY <1>1, RequestPreserves
<1>2. ASSUME NEW c \in Calls, NEW r \in Requests,
             ApproveAdjustment(c, r) \/ RejectAdjustment(c, r)
      PROVE  IInv'
  BY <1>2, DecidePreserves DEF ApproveAdjustment, RejectAdjustment
<1>3. ASSUME NEW c \in Calls, Step(c) \/ Crash(c) PROVE IInv'
  BY <1>3, ExecutePreserves, EndPreserves, StorePreserves DEF Step
<1>4. CASE UNCHANGED vars
  BY <1>4 DEF vars, rows, history, wallet, IInv, TypeOK, KeysMatch, AutoStays, Undisturbed,
     Said, DecisionMatchesMoney, ApprovedIsExecuted, Active, Movements, Payments
<1> QED BY <1>1, <1>2, <1>3, <1>4 DEF Next

LEMMA Inductive == Spec => []IInv
  BY InitEstablishes, StepPreserves, PTL DEF Spec

(* The variables keep their types and the adjusted balance never becomes    *)
(* negative.                                                                *)
THEOREM AdjustmentTypeCorrect == Spec => []TypeOK
<1>1. IInv => TypeOK BY DEF IInv
<1> QED BY <1>1, Inductive, PTL

(* An adjustment that an administrator approved has moved its money.        *)
THEOREM ApprovedAreExecuted == Spec => []ApprovedIsExecuted
<1>1. IInv => ApprovedIsExecuted BY DEF IInv
<1> QED BY <1>1, Inductive, PTL

(* An approval that was alone at work is the only one to pay its request,   *)
(* but for calls that died after the movement; a rejected request is paid   *)
(* by overlapping calls only, and one left pending by calls that died only. *)
THEOREM DecisionsMatchMoney == Spec => []DecisionMatchesMoney
<1>1. IInv => DecisionMatchesMoney BY DEF IInv
<1> QED BY <1>1, Inductive, PTL
=============================================================================
