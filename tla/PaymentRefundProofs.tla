-------------------------- MODULE PaymentRefundProofs --------------------------
(***************************************************************************)
(* Proofs about refunds, for any amounts, any number of administrators and *)
(* attempts, and any number of failures and crashes.                       *)
(***************************************************************************)
EXTENDS PaymentRefund, TLAPS

\* The smaller of two numbers.
LEMMA SmallerIsMin ==
    ASSUME NEW a \in Nat, NEW b \in Nat
    PROVE  /\ Smaller(a, b) \in Nat /\ Smaller(a, b) <= a /\ Smaller(a, b) <= b
           /\ a - Smaller(a, b) \in Nat /\ b - Smaller(a, b) \in Nat
BY DEF Smaller

\* The amounts are numbers, and an attempt refunds no more than the order's.
LEMMA Amounts == Amount \in Nat /\ RefundAmount \in Nat /\ RefundAmount <= Amount /\ RefundAmount > 0
BY PaymentRefundAssumption

\* A plan is made of an amount, the status it started from and a rollback's outcome.
LEMMA PlanIsPlan ==
    ASSUME NEW amount \in 0..Amount, NEW from \in Refundable, NEW ok \in BOOLEAN
    PROVE  /\ Plan(amount, from, ok) \in Plans /\ Plan(amount, from, ok).toDeduct = amount
           /\ Plan(amount, from, ok).rollbackOK = ok
BY DEF Plan, Plans

\* No plan is one too, and deducts nothing.
LEMMA NoPlanIsPlan == NoPlan \in Plans /\ NoPlan.toDeduct = 0
<1>1. 0 \in 0..Amount /\ "COMPLETED" \in Refundable /\ TRUE \in BOOLEAN
  BY Amounts DEF Refundable
<1>2. Plan(0, "COMPLETED", TRUE) \in Plans /\ Plan(0, "COMPLETED", TRUE).toDeduct = 0
  BY <1>1, PlanIsPlan, Zenon
<1>3. QED BY <1>2 DEF NoPlan

\* The fields of a plan.
LEMMA PlanFields ==
    ASSUME NEW p \in Plans
    PROVE  p.toDeduct \in 0..Amount /\ p.toDeduct \in Nat /\ p.from \in Refundable /\ p.rollbackOK \in BOOLEAN
BY Amounts DEF Plans

-----------------------------------------------------------------------------
(* The state of the program, variable by variable *)

\* The audit rows.
LEMMA LogsStep ==
    ASSUME TypeOK, Covered, Next
    PROVE  /\ pendingLog' \in {"none", "rolledBack", "kept"}
           /\ rollbackFailed' \in BOOLEAN /\ successLog' \in BOOLEAN
<1>1. rollbackFailed' \in {TRUE, rollbackFailed}
  BY DEF Next, Work, RequestRefund, SettleUpstream, Spend, PrepareRefund, StartQuery,
     ClaimRefund, DeductBalance, GatewayRefund, MarkRefundOk, RollbackPending, MarkRefundPending,
     LogRefundPending, HandleGwFail, RestoreStatus, MarkRefundFailed, ReadPendingDetail,
     QueryRefund, FinalizeOk, Crash, RollbackRefund, logVars, moneyVars, providerVars, workerVars,
     budgetVars
<1>2. successLog' \in {TRUE, successLog}
  BY DEF Next, Work, RequestRefund, SettleUpstream, Spend, PrepareRefund, StartQuery,
     ClaimRefund, DeductBalance, GatewayRefund, MarkRefundOk, RollbackPending, MarkRefundPending,
     LogRefundPending, HandleGwFail, RestoreStatus, MarkRefundFailed, ReadPendingDetail,
     QueryRefund, FinalizeOk, Crash, RollbackRefund, logVars, moneyVars, providerVars, workerVars,
     budgetVars
<1>3. pendingLog' \in {pendingLog, "rolledBack", "kept"}
  BY DEF Next, Work, RequestRefund, SettleUpstream, Spend, PrepareRefund, StartQuery,
     ClaimRefund, DeductBalance, GatewayRefund, MarkRefundOk, RollbackPending, MarkRefundPending,
     LogRefundPending, HandleGwFail, RestoreStatus, MarkRefundFailed, ReadPendingDetail,
     QueryRefund, FinalizeOk, Crash, RollbackRefund, logVars, moneyVars, providerVars, workerVars,
     budgetVars
<1>4. rollbackFailed' \in BOOLEAN
  BY <1>1, Zenon DEF TypeOK
<1>5. successLog' \in BOOLEAN
  BY <1>2, Zenon DEF TypeOK
<1>6. QED BY <1>3, <1>4, <1>5 DEF TypeOK

\* The user's balance, what has been taken, and what was not given back.
Money == balance \in Nat /\ deducted \in [Workers -> Nat] /\ unrolled \in [Workers -> Nat]

\* Taking from the balance.
LEMMA TakeStep ==
    ASSUME TypeOK, NEW w \in Workers, NEW amount \in Nat, Take(w, amount)
    PROVE  /\ Money' /\ unrolled' = unrolled
           /\ deducted'[w] = deducted[w] + Smaller(amount, balance)
           /\ \A v \in Workers : v # w => deducted'[v] = deducted[v]
<1> DEFINE s == Smaller(amount, balance)
<1>1. balance \in Nat /\ deducted \in [Workers -> Nat] /\ unrolled \in [Workers -> Nat]
  BY DEF TypeOK
<1>2. s \in Nat /\ balance - s \in Nat
  BY <1>1, SmallerIsMin
<1>3. balance' = balance - s /\ deducted' = [deducted EXCEPT ![w] = deducted[w] + s] /\ unrolled' = unrolled
  BY DEF Take
<1> HIDE DEF s
<1>4. Money'
  BY <1>1, <1>2, <1>3 DEF Money
<1>5. deducted'[w] = deducted[w] + s /\ \A v \in Workers : v # w => deducted'[v] = deducted[v]
  BY <1>1, <1>3
<1>6. QED BY <1>3, <1>4, <1>5 DEF s

\* A rollback gives back what is in flight, or keeps it and says so.
LEMMA RollbackStep ==
    ASSUME TypeOK, Covered, NEW w \in Workers, NEW done \in Labels, NEW not \in Labels,
           pc[w] \in {"rollbackPending", "rollbackFail"}, RollbackRefund(w, done, not)
    PROVE  /\ Money' /\ pc' \in {[pc EXCEPT ![w] = done], [pc EXCEPT ![w] = not]}
           /\ plan' \in [Workers -> Plans]
           /\ \A v \in Workers : v # w => /\ plan'[v] = plan[v]
                                          /\ deducted'[v] = deducted[v] /\ unrolled'[v] = unrolled[v]
           /\ deducted'[w] - unrolled'[w] = deducted[w] - unrolled[w] - plan[w].toDeduct
           /\ deducted'[w] \in Nat
<1> DEFINE d == plan[w].toDeduct
           again == plan' = [plan EXCEPT ![w] = Plan(0, plan[w].from, TRUE)]
           kept == plan' = [plan EXCEPT ![w] = Plan(d, plan[w].from, FALSE)]
<1>1. /\ d \in Nat /\ d \in 0..Amount /\ plan[w].from \in Refundable /\ deducted[w] >= d
      /\ deducted \in [Workers -> Nat] /\ unrolled \in [Workers -> Nat] /\ balance \in Nat
      /\ plan \in [Workers -> Plans]
  BY PlanFields DEF TypeOK, Covered, Inflight
<1>2. 0 \in 0..Amount /\ TRUE \in BOOLEAN /\ FALSE \in BOOLEAN
  BY Amounts
<1>3. Plan(0, plan[w].from, TRUE) \in Plans /\ Plan(d, plan[w].from, FALSE) \in Plans
  BY <1>1, <1>2, PlanIsPlan, Zenon
<1>4. \/ GiveBack(w, d) /\ again /\ pc' = [pc EXCEPT ![w] = done]
      \/ /\ unrolled' = [unrolled EXCEPT ![w] = unrolled[w] + d] /\ UNCHANGED <<balance, deducted>>
         /\ kept /\ pc' = [pc EXCEPT ![w] = not]
  BY DEF RollbackRefund, Revise
<1>5. plan' \in [Workers -> Plans] /\ \A v \in Workers : v # w => plan'[v] = plan[v]
  BY <1>1, <1>3, <1>4
<1>6. pc' \in {[pc EXCEPT ![w] = done], [pc EXCEPT ![w] = not]}
  BY <1>4
<1> HIDE DEF d, again, kept
<1>7. CASE GiveBack(w, d)
  <2>1. balance' = balance + d /\ deducted' = [deducted EXCEPT ![w] = deducted[w] - d] /\ unrolled' = unrolled
    BY <1>7 DEF GiveBack
  <2>2. deducted[w] \in Nat /\ unrolled[w] \in Nat /\ deducted[w] - d \in Nat /\ balance + d \in Nat
    BY <1>1
  <2>3. Money'
    BY <1>1, <2>1, <2>2 DEF Money
  <2>4. /\ deducted'[w] = deducted[w] - d /\ unrolled'[w] = unrolled[w]
        /\ \A v \in Workers : v # w => deducted'[v] = deducted[v] /\ unrolled'[v] = unrolled[v]
    BY <1>1, <2>1
  <2>5. QED BY <1>1, <1>5, <1>6, <2>2, <2>3, <2>4 DEF d
<1>8. CASE unrolled' = [unrolled EXCEPT ![w] = unrolled[w] + d] /\ UNCHANGED <<balance, deducted>>
  <2>1. deducted[w] \in Nat /\ unrolled[w] \in Nat /\ unrolled[w] + d \in Nat
    BY <1>1
  <2>2. Money'
    BY <1>1, <1>8, <2>1 DEF Money
  <2>3. /\ deducted'[w] = deducted[w] /\ unrolled'[w] = unrolled[w] + d
        /\ \A v \in Workers : v # w => deducted'[v] = deducted[v] /\ unrolled'[v] = unrolled[v]
    BY <1>1, <1>8
  <2>4. QED BY <1>1, <1>5, <1>6, <2>1, <2>2, <2>3 DEF d
<1>9. QED BY <1>4, <1>7, <1>8

\* Revising a plan.
LEMMA Revising ==
    ASSUME TypeOK, NEW w \in Workers, NEW amount \in 0..Amount, NEW ok \in BOOLEAN, Revise(w, amount, ok)
    PROVE  /\ plan' \in [Workers -> Plans] /\ plan'[w].toDeduct = amount
           /\ \A v \in Workers : v # w => plan'[v] = plan[v]
<1>1. plan \in [Workers -> Plans] /\ plan[w].from \in Refundable
  BY PlanFields DEF TypeOK
<1>2. Plan(amount, plan[w].from, ok) \in Plans /\ Plan(amount, plan[w].from, ok).toDeduct = amount
  BY <1>1, PlanIsPlan, Zenon
<1>3. plan' = [plan EXCEPT ![w] = Plan(amount, plan[w].from, ok)]
  BY DEF Revise
<1>4. QED BY <1>1, <1>2, <1>3

\* The deduction takes what the plan then says, or nothing.
LEMMA DeductStep ==
    ASSUME TypeOK, NEW w \in Workers, DeductBalance(w)
    PROVE  /\ plan' \in [Workers -> Plans] /\ Money' /\ unrolled' = unrolled
           /\ \A v \in Workers : v # w => plan'[v] = plan[v] /\ deducted'[v] = deducted[v]
           /\ \/ /\ pc' = [pc EXCEPT ![w] = "gateway"]
                 /\ deducted'[w] = deducted[w] + plan'[w].toDeduct
              \/ pc' = [pc EXCEPT ![w] = "restore"] /\ deducted'[w] = deducted[w]
<1> DEFINE d == plan[w].toDeduct
           ok == plan[w].rollbackOK
<1>1. /\ d \in Nat /\ d \in 0..Amount /\ ok \in BOOLEAN /\ plan \in [Workers -> Plans]
      /\ deducted \in [Workers -> Nat] /\ unrolled \in [Workers -> Nat] /\ balance \in Nat
  BY PlanFields DEF TypeOK
<1>2. 0 \in 0..Amount /\ Smaller(d, balance) \in 0..Amount
  BY <1>1, Amounts DEF Smaller
<1>3. \/ /\ d = 0 /\ pc' = [pc EXCEPT ![w] = "gateway"] /\ UNCHANGED <<plan, balance, deducted, unrolled>>
      \/ Take(w, d) /\ Revise(w, Smaller(d, balance), ok) /\ pc' = [pc EXCEPT ![w] = "gateway"]
      \/ Revise(w, 0, ok) /\ pc' = [pc EXCEPT ![w] = "gateway"] /\ UNCHANGED <<balance, deducted, unrolled>>
      \/ pc' = [pc EXCEPT ![w] = "restore"] /\ UNCHANGED <<plan, balance, deducted, unrolled>>
  BY DEF DeductBalance, Goto, moneyVars
<1>4. CASE Take(w, d) /\ Revise(w, Smaller(d, balance), ok) /\ pc' = [pc EXCEPT ![w] = "gateway"]
  BY <1>1, <1>2, <1>4, TakeStep, Revising
<1>5. CASE Revise(w, 0, ok) /\ pc' = [pc EXCEPT ![w] = "gateway"] /\ UNCHANGED <<balance, deducted, unrolled>>
  BY <1>1, <1>2, <1>5, Revising DEF Money
<1>6. CASE /\ UNCHANGED <<plan, balance, deducted, unrolled>>
           /\ \/ pc' = [pc EXCEPT ![w] = "restore"]
              \/ d = 0 /\ pc' = [pc EXCEPT ![w] = "gateway"]
  BY <1>1, <1>6 DEF Money
<1>7. QED BY <1>3, <1>4, <1>5, <1>6

\* No account goes below zero.
LEMMA MoneyStep ==
    ASSUME TypeOK, Covered, Next
    PROVE  Money'
<1>1. ASSUME Spend PROVE Money'
  BY <1>1 DEF Spend, TypeOK, Money
<1>2. ASSUME NEW w \in Workers, DeductBalance(w) PROVE Money'
  BY <1>2, DeductStep
<1>3. ASSUME NEW w \in Workers, RollbackPending(w) PROVE Money'
  <2>1. /\ pc[w] \in {"rollbackPending", "rollbackFail"} /\ RollbackRefund(w, "markPending", "markPending")
        /\ "markPending" \in Labels
    BY <1>3 DEF RollbackPending, Labels
  <2>2. QED BY <2>1, RollbackStep
<1>4. ASSUME NEW w \in Workers, HandleGwFail(w) PROVE Money'
  <2>1. /\ pc[w] \in {"rollbackPending", "rollbackFail"} /\ RollbackRefund(w, "restore", "markFailed")
        /\ "restore" \in Labels /\ "markFailed" \in Labels
    BY <1>4 DEF HandleGwFail, Labels
  <2>2. QED BY <2>1, RollbackStep
<1>5. ASSUME NEW w \in Workers, FinalizeOk(w) PROVE Money'
  BY <1>5, TakeStep, PlanFields DEF FinalizeOk, TypeOK, Money, moneyVars
<1>6. CASE UNCHANGED moneyVars
  BY <1>6 DEF moneyVars, Money, TypeOK
<1>7. QED
  BY <1>1, <1>2, <1>3, <1>4, <1>5, <1>6 DEF Next, Work, RequestRefund, SettleUpstream,
     PrepareRefund, StartQuery, ClaimRefund, GatewayRefund, MarkRefundOk, MarkRefundPending,
     LogRefundPending, RestoreStatus, MarkRefundFailed, ReadPendingDetail, QueryRefund, Crash,
     Fault, FinalStatus, Goto, NewRefund, NoFault, Return, logVars, moneyVars, providerVars,
     workerVars, budgetVars

\* The status of the order.
LEMMA StatusStep ==
    ASSUME TypeOK, Covered, Next
    PROVE  status' \in Statuses
<1> USE DEF Statuses, Refundable, Done, TypeOK
<1>1. ASSUME RequestRefund PROVE status' \in Statuses
  BY <1>1 DEF RequestRefund
<1>2. ASSUME NEW w \in Workers, ClaimRefund(w) PROVE status' \in Statuses
  BY <1>2 DEF ClaimRefund, Goto, NoFault, Fault, Return
<1>3. ASSUME NEW w \in Workers, MarkRefundOk(w) PROVE status' \in Statuses
  BY <1>3 DEF MarkRefundOk, Return, NoFault, Fault, FinalStatus
<1>4. ASSUME NEW w \in Workers, MarkRefundPending(w) PROVE status' \in Statuses
  BY <1>4 DEF MarkRefundPending, Goto, NoFault, Fault, Return
<1>5. ASSUME NEW w \in Workers, RestoreStatus(w) PROVE status' \in Statuses
  BY <1>5 DEF RestoreStatus, Return, NoFault, Fault
<1>6. ASSUME NEW w \in Workers, MarkRefundFailed(w) PROVE status' \in Statuses
  BY <1>6 DEF MarkRefundFailed, Return, NoFault, Fault
<1>7. ASSUME NEW w \in Workers, FinalizeOk(w) PROVE status' \in Statuses
  BY <1>7 DEF FinalizeOk, Return, NoFault, Fault, Take, FinalStatus
<1>8. CASE UNCHANGED status
  BY <1>8
<1>9. QED
  BY <1>1, <1>2, <1>3, <1>4, <1>5, <1>6, <1>7, <1>8 DEF Next, Work, SettleUpstream, Spend,
     PrepareRefund, StartQuery, DeductBalance, GatewayRefund, RollbackPending, LogRefundPending,
     HandleGwFail, ReadPendingDetail, QueryRefund, Crash, Fault, GiveBack, Goto, NewRefund,
     NoFault, Return, Revise, RollbackRefund, Take, logVars, moneyVars, providerVars, workerVars,
     budgetVars

\* The provider.
LEMMA ProviderStep ==
    ASSUME TypeOK, Covered, Next
    PROVE  /\ provider' = provider /\ paidBack' \in Nat
           /\ upstream' \in {"none", "pending", "success", "failed"}
<1> DEFINE Good == /\ provider' = provider /\ paidBack' \in Nat
                   /\ upstream' \in {"none", "pending", "success", "failed"}
<1> USE Amounts DEF TypeOK, providerVars
<1>1. ASSUME SettleUpstream PROVE Good
  BY <1>1 DEF SettleUpstream
<1>2. ASSUME NEW w \in Workers, GatewayRefund(w) PROVE Good
  BY <1>2 DEF GatewayRefund, Goto, NoFault, Fault, NewRefund
<1>3. CASE UNCHANGED providerVars
  BY <1>3 DEF providerVars
<1>4. QED
  BY <1>1, <1>2, <1>3 DEF Next, Work, RequestRefund, Spend, PrepareRefund, StartQuery,
     ClaimRefund, DeductBalance, MarkRefundOk, RollbackPending, MarkRefundPending,
     LogRefundPending, HandleGwFail, RestoreStatus, MarkRefundFailed, ReadPendingDetail,
     QueryRefund, FinalizeOk, Crash, Fault, FinalStatus, GiveBack, Goto, NoFault, Return, Revise,
     RollbackRefund, Take, logVars, moneyVars, providerVars, workerVars, budgetVars

\* The workers.
Working == pc \in [Workers -> Labels] /\ plan \in [Workers -> Plans]

\* Going to a label, and returning.
LEMMA Moves ==
    ASSUME TypeOK, NEW w \in Workers
    PROVE  /\ Return(w) => Working'
           /\ \A l \in Labels : Goto(w, l) => Working'
BY NoPlanIsPlan DEF Return, Goto, Working, TypeOK, Labels

\* Labels and plans.
LEMMA WorkersStep ==
    ASSUME TypeOK, Covered, Next
    PROVE  Working'
<1> USE Moves DEF TypeOK, Labels, workerVars
<1>1. ASSUME RequestRefund PROVE Working'
  BY <1>1 DEF RequestRefund, Working
<1>2. ASSUME SettleUpstream PROVE Working'
  BY <1>2 DEF SettleUpstream, Working
<1>3. ASSUME Spend PROVE Working'
  BY <1>3 DEF Spend, Working
<1>4. ASSUME NEW w \in Workers, PrepareRefund(w) PROVE Working'
  <2>1. PICK deduct \in BOOLEAN : plan' = [plan EXCEPT ![w] =
                 Plan(IF deduct THEN Smaller(RefundAmount, balance) ELSE 0, status, TRUE)]
    BY <1>4 DEF PrepareRefund
  <2>2. /\ (IF deduct THEN Smaller(RefundAmount, balance) ELSE 0) \in 0..Amount
        /\ status \in Refundable /\ TRUE \in BOOLEAN
    BY <1>4, Amounts DEF PrepareRefund, TypeOK, Smaller
  <2>3. Plan(IF deduct THEN Smaller(RefundAmount, balance) ELSE 0, status, TRUE) \in Plans
    BY <2>2, PlanIsPlan, Zenon
  <2>4. QED BY <1>4, <2>1, <2>3 DEF PrepareRefund, TypeOK, Working, Labels
<1>5. ASSUME NEW w \in Workers, StartQuery(w) PROVE Working'
  BY <1>5 DEF StartQuery, Goto, NoFault
<1>6. ASSUME NEW w \in Workers, ClaimRefund(w) PROVE Working'
  BY <1>6 DEF ClaimRefund, Goto, NoFault, Fault, Return
<1>7. ASSUME NEW w \in Workers, DeductBalance(w) PROVE Working'
  BY <1>7, DeductStep DEF Working
<1>8. ASSUME NEW w \in Workers, GatewayRefund(w) PROVE Working'
  BY <1>8 DEF GatewayRefund, Goto, NoFault, Fault, NewRefund
<1>9. ASSUME NEW w \in Workers, MarkRefundOk(w) PROVE Working'
  BY <1>9 DEF MarkRefundOk, Return, NoFault, Fault, FinalStatus
<1>10. ASSUME NEW w \in Workers, RollbackPending(w) PROVE Working'
  <2>1. /\ pc[w] \in {"rollbackPending", "rollbackFail"} /\ RollbackRefund(w, "markPending", "markPending")
        /\ "markPending" \in Labels
    BY <1>10 DEF RollbackPending, Labels
  <2>2. QED BY <2>1, RollbackStep DEF Working
<1>11. ASSUME NEW w \in Workers, MarkRefundPending(w) PROVE Working'
  BY <1>11 DEF MarkRefundPending, Goto, NoFault, Fault, Return
<1>12. ASSUME NEW w \in Workers, LogRefundPending(w) PROVE Working'
  BY <1>12 DEF LogRefundPending, Return, NoFault, Fault
<1>13. ASSUME NEW w \in Workers, HandleGwFail(w) PROVE Working'
  <2>1. /\ pc[w] \in {"rollbackPending", "rollbackFail"} /\ RollbackRefund(w, "restore", "markFailed")
        /\ "restore" \in Labels /\ "markFailed" \in Labels
    BY <1>13 DEF HandleGwFail, Labels
  <2>2. QED BY <2>1, RollbackStep DEF Working
<1>14. ASSUME NEW w \in Workers, RestoreStatus(w) PROVE Working'
  BY <1>14 DEF RestoreStatus, Return, NoFault, Fault
<1>15. ASSUME NEW w \in Workers, MarkRefundFailed(w) PROVE Working'
  BY <1>15 DEF MarkRefundFailed, Return, NoFault, Fault
<1>16. ASSUME NEW w \in Workers, ReadPendingDetail(w) PROVE Working'
  <2>1. PICK amount \in {0, RefundAmount} : plan' = [plan EXCEPT ![w] = Plan(amount, "REFUND_PENDING", TRUE)]
    BY <1>16 DEF ReadPendingDetail
  <2>2. amount \in 0..Amount /\ "REFUND_PENDING" \in Refundable /\ TRUE \in BOOLEAN
    BY <2>1, Amounts DEF Refundable
  <2>3. Plan(amount, "REFUND_PENDING", TRUE) \in Plans
    BY <2>2, PlanIsPlan, Zenon
  <2>4. QED BY <1>16, <2>1, <2>3 DEF ReadPendingDetail, TypeOK, Working, Labels
<1>17. ASSUME NEW w \in Workers, QueryRefund(w) PROVE Working'
  BY <1>17 DEF QueryRefund, Goto, NoFault, Fault, Return
<1>18. ASSUME NEW w \in Workers, FinalizeOk(w) PROVE Working'
  BY <1>18 DEF FinalizeOk, Return, NoFault, Fault, Take, FinalStatus
<1>19. ASSUME NEW w \in Workers, Crash(w) PROVE Working'
  BY <1>19 DEF Crash, Return
<1>20. QED
  BY <1>1, <1>2, <1>3, <1>4, <1>5, <1>6, <1>7, <1>8, <1>9, <1>10, <1>11, <1>12, <1>13, <1>14,
     <1>15, <1>16, <1>17, <1>18, <1>19 DEF Next, Work

\* The budgets.
Budgets == attempts \in 0..MaxAttempts /\ faults \in 0..MaxFaults /\ crashes \in 0..MaxCrashes

\* Spending nothing, or a failure.
LEMMA Spending ==
    ASSUME TypeOK
    PROVE  /\ Fault => Budgets'
           /\ UNCHANGED budgetVars => Budgets'
           /\ attempts < MaxAttempts /\ attempts' = attempts + 1 /\ UNCHANGED <<faults, crashes>> => Budgets'
           /\ crashes < MaxCrashes /\ crashes' = crashes + 1 /\ UNCHANGED <<attempts, faults>> => Budgets'
BY PaymentRefundAssumption DEF Fault, Budgets, TypeOK, budgetVars

\* No budget is overspent.
LEMMA BudgetStep ==
    ASSUME TypeOK, Covered, Next
    PROVE  Budgets'
<1> USE Spending DEF TypeOK
<1>1. ASSUME RequestRefund PROVE Budgets'
  BY <1>1 DEF RequestRefund
<1>2. ASSUME SettleUpstream PROVE Budgets'
  BY <1>2 DEF SettleUpstream
<1>3. ASSUME Spend PROVE Budgets'
  BY <1>3 DEF Spend
<1>4. ASSUME NEW w \in Workers, PrepareRefund(w) PROVE Budgets'
  BY <1>4 DEF PrepareRefund
<1>5. ASSUME NEW w \in Workers, StartQuery(w) PROVE Budgets'
  BY <1>5 DEF StartQuery, Goto, NoFault
<1>6. ASSUME NEW w \in Workers, ClaimRefund(w) PROVE Budgets'
  BY <1>6 DEF ClaimRefund, Goto, NoFault, Return
<1>7. ASSUME NEW w \in Workers, DeductBalance(w) PROVE Budgets'
  BY <1>7 DEF DeductBalance, Goto, NoFault, Take, Revise
<1>8. ASSUME NEW w \in Workers, GatewayRefund(w) PROVE Budgets'
  BY <1>8 DEF GatewayRefund, Goto, NoFault, NewRefund
<1>9. ASSUME NEW w \in Workers, MarkRefundOk(w) PROVE Budgets'
  BY <1>9 DEF MarkRefundOk, Return, NoFault, FinalStatus
<1>10. ASSUME NEW w \in Workers, RollbackPending(w) PROVE Budgets'
  BY <1>10 DEF RollbackPending, RollbackRefund, GiveBack, Revise, NoFault
<1>11. ASSUME NEW w \in Workers, MarkRefundPending(w) PROVE Budgets'
  BY <1>11 DEF MarkRefundPending, Goto, NoFault, Return
<1>12. ASSUME NEW w \in Workers, LogRefundPending(w) PROVE Budgets'
  BY <1>12 DEF LogRefundPending, Return, NoFault
<1>13. ASSUME NEW w \in Workers, HandleGwFail(w) PROVE Budgets'
  BY <1>13 DEF HandleGwFail, RollbackRefund, GiveBack, Revise, NoFault
<1>14. ASSUME NEW w \in Workers, RestoreStatus(w) PROVE Budgets'
  BY <1>14 DEF RestoreStatus, Return, NoFault
<1>15. ASSUME NEW w \in Workers, MarkRefundFailed(w) PROVE Budgets'
  BY <1>15 DEF MarkRefundFailed, Return, NoFault
<1>16. ASSUME NEW w \in Workers, ReadPendingDetail(w) PROVE Budgets'
  BY <1>16 DEF ReadPendingDetail, NoFault
<1>17. ASSUME NEW w \in Workers, QueryRefund(w) PROVE Budgets'
  BY <1>17 DEF QueryRefund, Goto, NoFault, Return
<1>18. ASSUME NEW w \in Workers, FinalizeOk(w) PROVE Budgets'
  BY <1>18 DEF FinalizeOk, Return, NoFault, Take, FinalStatus
<1>19. ASSUME NEW w \in Workers, Crash(w) PROVE Budgets'
  BY <1>19 DEF Crash, Return
<1>20. QED
  BY <1>1, <1>2, <1>3, <1>4, <1>5, <1>6, <1>7, <1>8, <1>9, <1>10, <1>11, <1>12, <1>13, <1>14,
     <1>15, <1>16, <1>17, <1>18, <1>19 DEF Next, Work

-----------------------------------------------------------------------------
(* The invariant *)

\* It holds initially.
LEMMA InitStep == Init => IInv
<1> SUFFICES ASSUME Init PROVE IInv
  OBVIOUS
<1> USE Amounts DEF Init
<1>1. Providers \subseteq {"keyed", "plain"} /\ MaxAttempts \in Nat /\ MaxFaults \in Nat /\ MaxCrashes \in Nat
  BY PaymentRefundAssumption
<1>2. TypeOK
  <2>1. plan \in [Workers -> Plans] /\ pc \in [Workers -> Labels]
    BY NoPlanIsPlan DEF Labels
  <2>2. status \in Statuses
    BY DEF Statuses, Refundable
  <2>3. balance \in Nat /\ deducted \in [Workers -> Nat] /\ unrolled \in [Workers -> Nat] /\ paidBack \in Nat
    OBVIOUS
  <2>4. attempts \in 0..MaxAttempts /\ faults \in 0..MaxFaults /\ crashes \in 0..MaxCrashes
    BY <1>1
  <2>5. rollbackFailed \in BOOLEAN /\ successLog \in BOOLEAN
    BY Zenon
  <2>6. QED BY <2>1, <2>2, <2>3, <2>4, <2>5 DEF TypeOK
<1>3. Covered
  BY DEF Covered, Inflight
<1>4. PlainInv
  BY DEF PlainInv, Executing, OneExecutor, Inflight
<1>5. PaidInv
  BY DEF PaidInv, Done
<1>6. QED BY <1>2, <1>3, <1>4, <1>5 DEF IInv

\* Every step keeps the types.
LEMMA TypeStep ==
    ASSUME TypeOK, Covered, Next
    PROVE  TypeOK'
<1>1. status' \in Statuses
  BY StatusStep
<1>2. /\ pendingLog' \in {"none", "rolledBack", "kept"}
      /\ rollbackFailed' \in BOOLEAN /\ successLog' \in BOOLEAN
  BY LogsStep
<1>3. balance' \in Nat /\ deducted' \in [Workers -> Nat] /\ unrolled' \in [Workers -> Nat]
  BY MoneyStep DEF Money
<1>4. provider' \in Providers /\ upstream' \in {"none", "pending", "success", "failed"} /\ paidBack' \in Nat
  BY ProviderStep DEF TypeOK
<1>5. pc' \in [Workers -> Labels] /\ plan' \in [Workers -> Plans]
  BY WorkersStep DEF Working
<1>6. attempts' \in 0..MaxAttempts /\ faults' \in 0..MaxFaults /\ crashes' \in 0..MaxCrashes
  BY BudgetStep DEF Budgets
<1>7. QED BY <1>1, <1>2, <1>3, <1>4, <1>5, <1>6 DEF TypeOK

\* An attempt gives back no more than it has taken.
LEMMA CoveredStep ==
    ASSUME TypeOK, Covered, Next
    PROVE  Covered'
<1> USE PlanFields, NoPlanIsPlan DEF TypeOK, Covered, Inflight, workerVars, moneyVars
<1>1. ASSUME RequestRefund PROVE Covered'
  BY <1>1 DEF RequestRefund
<1>2. ASSUME SettleUpstream PROVE Covered'
  BY <1>2 DEF SettleUpstream
<1>3. ASSUME Spend PROVE Covered'
  BY <1>3 DEF Spend
<1>4. ASSUME NEW w \in Workers, PrepareRefund(w) PROVE Covered'
  BY <1>4 DEF PrepareRefund
<1>5. ASSUME NEW w \in Workers, StartQuery(w) PROVE Covered'
  BY <1>5 DEF StartQuery, Goto, NoFault
<1>6. ASSUME NEW w \in Workers, ClaimRefund(w) PROVE Covered'
  BY <1>6 DEF ClaimRefund, Goto, NoFault, Fault, Return
<1>7. ASSUME NEW w \in Workers, DeductBalance(w) PROVE Covered'
  <2>1. /\ \A v \in Workers : v # w => plan'[v] = plan[v] /\ deducted'[v] = deducted[v]
        /\ \/ /\ pc' = [pc EXCEPT ![w] = "gateway"]
              /\ deducted'[w] = deducted[w] + plan'[w].toDeduct
           \/ pc' = [pc EXCEPT ![w] = "restore"] /\ deducted'[w] = deducted[w]
        /\ plan'[w].toDeduct \in Nat
    BY <1>7, DeductStep
  <2>2. QED BY <2>1
<1>8. ASSUME NEW w \in Workers, GatewayRefund(w) PROVE Covered'
  BY <1>8 DEF GatewayRefund, Goto, NoFault, Fault, NewRefund
<1>9. ASSUME NEW w \in Workers, MarkRefundOk(w) PROVE Covered'
  BY <1>9 DEF MarkRefundOk, Return, NoFault, Fault, FinalStatus
<1>10. ASSUME NEW w \in Workers, RollbackPending(w) PROVE Covered'
  <2>1. /\ pc[w] \in {"rollbackPending", "rollbackFail"} /\ RollbackRefund(w, "markPending", "markPending")
        /\ "markPending" \in Labels
    BY <1>10 DEF RollbackPending, Labels
  <2>2. /\ pc' \in {[pc EXCEPT ![w] = "markPending"], [pc EXCEPT ![w] = "markPending"]}
        /\ \A v \in Workers : v # w => /\ plan'[v] = plan[v]
                                       /\ deducted'[v] = deducted[v] /\ unrolled'[v] = unrolled[v]
        /\ deducted'[w] - unrolled'[w] = deducted[w] - unrolled[w] - plan[w].toDeduct
        /\ deducted'[w] \in Nat /\ unrolled'[w] \in Nat /\ deducted[w] \in Nat /\ unrolled[w] \in Nat
    BY <2>1, RollbackStep DEF TypeOK, Money
  <2>3. QED BY <2>2
<1>11. ASSUME NEW w \in Workers, MarkRefundPending(w) PROVE Covered'
  BY <1>11 DEF MarkRefundPending, Goto, NoFault, Fault, Return
<1>12. ASSUME NEW w \in Workers, LogRefundPending(w) PROVE Covered'
  BY <1>12 DEF LogRefundPending, Return, NoFault, Fault
<1>13. ASSUME NEW w \in Workers, HandleGwFail(w) PROVE Covered'
  <2>1. /\ pc[w] \in {"rollbackPending", "rollbackFail"} /\ RollbackRefund(w, "restore", "markFailed")
        /\ "restore" \in Labels /\ "markFailed" \in Labels
    BY <1>13 DEF HandleGwFail, Labels
  <2>2. /\ pc' \in {[pc EXCEPT ![w] = "restore"], [pc EXCEPT ![w] = "markFailed"]}
        /\ \A v \in Workers : v # w => /\ plan'[v] = plan[v]
                                       /\ deducted'[v] = deducted[v] /\ unrolled'[v] = unrolled[v]
        /\ deducted'[w] - unrolled'[w] = deducted[w] - unrolled[w] - plan[w].toDeduct
        /\ deducted'[w] \in Nat /\ unrolled'[w] \in Nat /\ deducted[w] \in Nat /\ unrolled[w] \in Nat
    BY <2>1, RollbackStep DEF TypeOK, Money
  <2>3. QED BY <2>2
<1>14. ASSUME NEW w \in Workers, RestoreStatus(w) PROVE Covered'
  BY <1>14 DEF RestoreStatus, Return, NoFault, Fault
<1>15. ASSUME NEW w \in Workers, MarkRefundFailed(w) PROVE Covered'
  BY <1>15 DEF MarkRefundFailed, Return, NoFault, Fault
<1>16. ASSUME NEW w \in Workers, ReadPendingDetail(w) PROVE Covered'
  BY <1>16 DEF ReadPendingDetail, NoFault, Fault
<1>17. ASSUME NEW w \in Workers, QueryRefund(w) PROVE Covered'
  BY <1>17 DEF QueryRefund, Goto, NoFault, Fault, Return
<1>18. ASSUME NEW w \in Workers, FinalizeOk(w) PROVE Covered'
  <2>1. pc' = [pc EXCEPT ![w] = "idle"] /\ plan' = [plan EXCEPT ![w] = NoPlan]
    BY <1>18 DEF FinalizeOk, Return
  <2>2. CASE Take(w, plan[w].toDeduct)
    <3>1. plan[w].toDeduct \in Nat /\ balance \in Nat /\ \A v \in Workers : deducted[v] \in Nat
      OBVIOUS
    <3>2. /\ deducted'[w] = deducted[w] + Smaller(plan[w].toDeduct, balance)
          /\ \A v \in Workers : v # w => deducted'[v] = deducted[v]
      BY <2>2, <3>1, TakeStep
    <3>3. Smaller(plan[w].toDeduct, balance) \in Nat
      BY <3>1, SmallerIsMin
    <3>4. \A v \in Workers : deducted'[v] >= deducted[v]
      <4>1. deducted'[w] >= deducted[w]
        BY <3>1, <3>2, <3>3
      <4>2. \A v \in Workers : v # w => deducted'[v] >= deducted[v]
        BY <3>1, <3>2
      <4>3. QED BY <4>1, <4>2
    <3>5. \A v \in Workers : deducted'[v] \in Nat
      BY <2>2, <3>1, TakeStep DEF Money
    <3>6. \A v \in Workers : v # w => Inflight(v)' = Inflight(v)
      BY <2>1
    <3>7. Inflight(w)' = 0 /\ \A v \in Workers : Inflight(v) \in Nat
      BY <2>1
    <3> HIDE DEF Inflight
    <3>8. QED BY <3>1, <3>4, <3>5, <3>6, <3>7
  <2>3. CASE UNCHANGED moneyVars
    BY <2>1, <2>3
  <2>4. QED BY <1>18, <2>2, <2>3 DEF FinalizeOk
<1>19. ASSUME NEW w \in Workers, Crash(w) PROVE Covered'
  BY <1>19 DEF Crash, Return
<1>20. QED
  BY <1>1, <1>2, <1>3, <1>4, <1>5, <1>6, <1>7, <1>8, <1>9, <1>10, <1>11, <1>12, <1>13, <1>14,
     <1>15, <1>16, <1>17, <1>18, <1>19 DEF Next, Work

\* Without queries, REFUNDING is a lock and an attempt undoes what it did.
LEMMA PlainStep ==
    ASSUME TypeOK, Covered, PlainInv, Next
    PROVE  PlainInv'
<1> USE PlanFields, NoPlanIsPlan DEF TypeOK, PlainInv, OneExecutor, Executing, Inflight,
    Statuses, Refundable, Done, workerVars, moneyVars, providerVars
<1>1. ASSUME RequestRefund PROVE PlainInv'
  BY <1>1 DEF RequestRefund
<1>2. ASSUME SettleUpstream PROVE PlainInv'
  BY <1>2 DEF SettleUpstream
<1>3. ASSUME Spend PROVE PlainInv'
  BY <1>3 DEF Spend
<1>4. ASSUME NEW w \in Workers, PrepareRefund(w) PROVE PlainInv'
  BY <1>4 DEF PrepareRefund
<1>5. ASSUME NEW w \in Workers, StartQuery(w) PROVE PlainInv'
  BY <1>5 DEF StartQuery, Goto, NoFault
<1>6. ASSUME NEW w \in Workers, ClaimRefund(w) PROVE PlainInv'
  BY <1>6 DEF ClaimRefund, Goto, NoFault, Fault, Return
<1>7. ASSUME NEW w \in Workers, DeductBalance(w) PROVE PlainInv'
  <2>1. /\ \A v \in Workers : v # w => plan'[v] = plan[v] /\ deducted'[v] = deducted[v]
        /\ \/ /\ pc' = [pc EXCEPT ![w] = "gateway"]
              /\ deducted'[w] = deducted[w] + plan'[w].toDeduct
           \/ pc' = [pc EXCEPT ![w] = "restore"] /\ deducted'[w] = deducted[w]
        /\ plan'[w].toDeduct \in Nat /\ unrolled' = unrolled
    BY <1>7, DeductStep
  <2>2. pc[w] = "deduct" /\ UNCHANGED <<status, provider>>
    BY <1>7 DEF DeductBalance
  <2>3. QED BY <2>1, <2>2
<1>8. ASSUME NEW w \in Workers, GatewayRefund(w) PROVE PlainInv'
  BY <1>8 DEF GatewayRefund, Goto, NoFault, Fault, NewRefund
<1>9. ASSUME NEW w \in Workers, MarkRefundOk(w) PROVE PlainInv'
  BY <1>9 DEF MarkRefundOk, Return, NoFault, Fault, FinalStatus
<1>10. ASSUME NEW w \in Workers, RollbackPending(w) PROVE PlainInv'
  <2>1. /\ pc[w] \in {"rollbackPending", "rollbackFail"} /\ RollbackRefund(w, "markPending", "markPending")
        /\ "markPending" \in Labels
    BY <1>10 DEF RollbackPending, Labels
  <2>2. /\ pc' \in {[pc EXCEPT ![w] = "markPending"], [pc EXCEPT ![w] = "markPending"]}
        /\ \A v \in Workers : v # w => /\ plan'[v] = plan[v]
                                       /\ deducted'[v] = deducted[v] /\ unrolled'[v] = unrolled[v]
        /\ deducted'[w] - unrolled'[w] = deducted[w] - unrolled[w] - plan[w].toDeduct
        /\ deducted'[w] \in Nat /\ unrolled'[w] \in Nat /\ deducted[w] \in Nat /\ unrolled[w] \in Nat
    BY <2>1, RollbackStep DEF TypeOK, Money
  <2>3. pc[w] = "rollbackPending" /\ UNCHANGED <<status, provider>>
    BY <1>10 DEF RollbackPending
  <2>4. SUFFICES ASSUME provider = "plain" PROVE PlainInv'
    BY <2>3
  <2>5. \A v \in Workers : v # w => pc'[v] = pc[v]
    BY <2>2
  <2>6. Executing(w) /\ Executing(w)' /\ Inflight(w)' = 0 /\ Inflight(w) = plan[w].toDeduct
    BY <2>2, <2>3
  <2>7. \A v \in Workers : /\ v # w => Inflight(v)' = Inflight(v)
                           /\ Executing(v)' <=> Executing(v)
    BY <2>2, <2>5, <2>6
  <2>8. \A v \in Workers : pc'[v] \notin {"detail", "query", "finalizeOk", "finalizeFailed"}
    BY <2>2, <2>3, <2>4, <2>5
  <2>9. /\ status = "REFUNDING" /\ \A v \in Workers : Executing(v) => v = w
        /\ \A v \in Workers : deducted[v] = unrolled[v] + Inflight(v)
    BY <2>3, <2>4, <2>6
  <2> HIDE DEF TypeOK, Inflight, Executing
  <2>10. plan[w].toDeduct \in Nat
    BY DEF TypeOK
  <2>11. \A v \in Workers : deducted'[v] = unrolled'[v] + Inflight(v)'
    <3>1. deducted'[w] = unrolled'[w] + Inflight(w)'
      BY <2>2, <2>6, <2>9, <2>10
    <3>2. \A v \in Workers : v # w => deducted'[v] = unrolled'[v] + Inflight(v)'
      BY <2>2, <2>7, <2>9
    <3>3. QED BY <3>1, <3>2
  <2>12. QED BY <2>3, <2>7, <2>8, <2>9, <2>11
<1>11. ASSUME NEW w \in Workers, MarkRefundPending(w) PROVE PlainInv'
  BY <1>11 DEF MarkRefundPending, Goto, NoFault, Fault, Return
<1>12. ASSUME NEW w \in Workers, LogRefundPending(w) PROVE PlainInv'
  BY <1>12 DEF LogRefundPending, Return, NoFault, Fault
<1>13. ASSUME NEW w \in Workers, HandleGwFail(w) PROVE PlainInv'
  <2>1. /\ pc[w] \in {"rollbackPending", "rollbackFail"} /\ RollbackRefund(w, "restore", "markFailed")
        /\ "restore" \in Labels /\ "markFailed" \in Labels
    BY <1>13 DEF HandleGwFail, Labels
  <2>2. /\ pc' \in {[pc EXCEPT ![w] = "restore"], [pc EXCEPT ![w] = "markFailed"]}
        /\ \A v \in Workers : v # w => /\ plan'[v] = plan[v]
                                       /\ deducted'[v] = deducted[v] /\ unrolled'[v] = unrolled[v]
        /\ deducted'[w] - unrolled'[w] = deducted[w] - unrolled[w] - plan[w].toDeduct
        /\ deducted'[w] \in Nat /\ unrolled'[w] \in Nat /\ deducted[w] \in Nat /\ unrolled[w] \in Nat
    BY <2>1, RollbackStep DEF TypeOK, Money
  <2>3. pc[w] = "rollbackFail" /\ UNCHANGED <<status, provider>>
    BY <1>13 DEF HandleGwFail
  <2>4. SUFFICES ASSUME provider = "plain" PROVE PlainInv'
    BY <2>3
  <2>5. \A v \in Workers : v # w => pc'[v] = pc[v]
    BY <2>2
  <2>6. Executing(w) /\ Executing(w)' /\ Inflight(w)' = 0 /\ Inflight(w) = plan[w].toDeduct
    BY <2>2, <2>3
  <2>7. \A v \in Workers : /\ v # w => Inflight(v)' = Inflight(v)
                           /\ Executing(v)' <=> Executing(v)
    BY <2>2, <2>5, <2>6
  <2>8. \A v \in Workers : pc'[v] \notin {"detail", "query", "finalizeOk", "finalizeFailed"}
    BY <2>2, <2>3, <2>4, <2>5
  <2>9. /\ status = "REFUNDING" /\ \A v \in Workers : Executing(v) => v = w
        /\ \A v \in Workers : deducted[v] = unrolled[v] + Inflight(v)
    BY <2>3, <2>4, <2>6
  <2> HIDE DEF TypeOK, Inflight, Executing
  <2>10. plan[w].toDeduct \in Nat
    BY DEF TypeOK
  <2>11. \A v \in Workers : deducted'[v] = unrolled'[v] + Inflight(v)'
    <3>1. deducted'[w] = unrolled'[w] + Inflight(w)'
      BY <2>2, <2>6, <2>9, <2>10
    <3>2. \A v \in Workers : v # w => deducted'[v] = unrolled'[v] + Inflight(v)'
      BY <2>2, <2>7, <2>9
    <3>3. QED BY <3>1, <3>2
  <2>12. QED BY <2>3, <2>7, <2>8, <2>9, <2>11
<1>14. ASSUME NEW w \in Workers, RestoreStatus(w) PROVE PlainInv'
  BY <1>14 DEF RestoreStatus, Return, NoFault, Fault
<1>15. ASSUME NEW w \in Workers, MarkRefundFailed(w) PROVE PlainInv'
  BY <1>15 DEF MarkRefundFailed, Return, NoFault, Fault
<1>16. ASSUME NEW w \in Workers, ReadPendingDetail(w) PROVE PlainInv'
  BY <1>16 DEF ReadPendingDetail, NoFault, Fault
<1>17. ASSUME NEW w \in Workers, QueryRefund(w) PROVE PlainInv'
  BY <1>17 DEF QueryRefund, Goto, NoFault, Fault, Return
<1>18. ASSUME NEW w \in Workers, FinalizeOk(w) PROVE PlainInv'
  BY <1>18 DEF FinalizeOk, Return, NoFault, Fault, Take, FinalStatus
<1>19. ASSUME NEW w \in Workers, Crash(w) PROVE PlainInv'
  BY <1>19 DEF Crash, Return
<1>20. QED
  BY <1>1, <1>2, <1>3, <1>4, <1>5, <1>6, <1>7, <1>8, <1>9, <1>10, <1>11, <1>12, <1>13, <1>14,
     <1>15, <1>16, <1>17, <1>18, <1>19 DEF Next, Work

\* Whoever says that the money was paid back knows it.
LEMMA PaidStep ==
    ASSUME TypeOK, PaidInv, Next
    PROVE  PaidInv'
<1> USE Amounts DEF TypeOK, PaidInv, Refundable, Done, Statuses, logVars, moneyVars,
    providerVars, workerVars, budgetVars
<1>1. ASSUME RequestRefund PROVE PaidInv'
  BY <1>1 DEF RequestRefund
<1>2. ASSUME SettleUpstream PROVE PaidInv'
  BY <1>2 DEF SettleUpstream
<1>3. ASSUME Spend PROVE PaidInv'
  BY <1>3 DEF Spend
<1>4. ASSUME NEW w \in Workers, PrepareRefund(w) PROVE PaidInv'
  BY <1>4 DEF PrepareRefund
<1>5. ASSUME NEW w \in Workers, StartQuery(w) PROVE PaidInv'
  BY <1>5 DEF StartQuery, Goto, NoFault
<1>6. ASSUME NEW w \in Workers, ClaimRefund(w) PROVE PaidInv'
  BY <1>6 DEF ClaimRefund, Goto, NoFault, Fault, Return
<1>7. ASSUME NEW w \in Workers, DeductBalance(w) PROVE PaidInv'
  BY <1>7 DEF DeductBalance, Goto, NoFault, Fault, Take, Revise
<1>8. ASSUME NEW w \in Workers, GatewayRefund(w) PROVE PaidInv'
  BY <1>8 DEF GatewayRefund, Goto, NoFault, Fault, NewRefund
<1>9. ASSUME NEW w \in Workers, MarkRefundOk(w) PROVE PaidInv'
  BY <1>9 DEF MarkRefundOk, Return, NoFault, Fault, FinalStatus
<1>10. ASSUME NEW w \in Workers, RollbackPending(w) PROVE PaidInv'
  BY <1>10 DEF RollbackPending, RollbackRefund, GiveBack, Revise, NoFault, Fault
<1>11. ASSUME NEW w \in Workers, MarkRefundPending(w) PROVE PaidInv'
  BY <1>11 DEF MarkRefundPending, Goto, NoFault, Fault, Return
<1>12. ASSUME NEW w \in Workers, LogRefundPending(w) PROVE PaidInv'
  BY <1>12 DEF LogRefundPending, Return, NoFault, Fault
<1>13. ASSUME NEW w \in Workers, HandleGwFail(w) PROVE PaidInv'
  BY <1>13 DEF HandleGwFail, RollbackRefund, GiveBack, Revise, NoFault, Fault
<1>14. ASSUME NEW w \in Workers, RestoreStatus(w) PROVE PaidInv'
  BY <1>14 DEF RestoreStatus, Return, NoFault, Fault
<1>15. ASSUME NEW w \in Workers, MarkRefundFailed(w) PROVE PaidInv'
  BY <1>15 DEF MarkRefundFailed, Return, NoFault, Fault
<1>16. ASSUME NEW w \in Workers, ReadPendingDetail(w) PROVE PaidInv'
  BY <1>16 DEF ReadPendingDetail, NoFault, Fault
<1>17. ASSUME NEW w \in Workers, QueryRefund(w) PROVE PaidInv'
  BY <1>17 DEF QueryRefund, Goto, NoFault, Fault, Return
<1>18. ASSUME NEW w \in Workers, FinalizeOk(w) PROVE PaidInv'
  BY <1>18 DEF FinalizeOk, Return, NoFault, Fault, Take, FinalStatus
<1>19. ASSUME NEW w \in Workers, Crash(w) PROVE PaidInv'
  BY <1>19 DEF Crash, Return
<1>20. QED
  BY <1>1, <1>2, <1>3, <1>4, <1>5, <1>6, <1>7, <1>8, <1>9, <1>10, <1>11, <1>12, <1>13, <1>14,
     <1>15, <1>16, <1>17, <1>18, <1>19 DEF Next, Work

\* Every step keeps it.
LEMMA InvStep == IInv /\ [Next]_vars => IInv'
<1> SUFFICES ASSUME IInv, [Next]_vars PROVE IInv'
  OBVIOUS
<1>1. TypeOK /\ Covered /\ PlainInv /\ PaidInv
  BY DEF IInv
<1>2. CASE Next
  BY <1>1, <1>2, TypeStep, CoveredStep, PlainStep, PaidStep DEF IInv
<1>3. CASE UNCHANGED vars
  <2> USE DEF vars, logVars, moneyVars, providerVars, workerVars, budgetVars
  <2>1. TypeOK' = TypeOK
    BY <1>3, Zenon DEF TypeOK
  <2>2. Covered' = Covered
    BY <1>3 DEF Covered, Inflight
  <2>3. PlainInv' = PlainInv
    BY <1>3 DEF PlainInv, OneExecutor, Executing, Inflight
  <2>4. PaidInv' = PaidInv
    BY <1>3 DEF PaidInv
  <2>5. QED BY <1>1, <2>1, <2>2, <2>3, <2>4 DEF IInv
<1>4. QED BY <1>2, <1>3

\* Types, what an attempt has taken, the lock of plain providers and what is known of
\* the provider's payment: together they are kept by every step.
THEOREM Invariance == Spec => []IInv
<1>1. QED BY InitStep, InvStep, PTL DEF Spec

\* No account goes below zero, whatever is retried, lost or spent in between: the
\* deduction takes what is there, a rollback gives back no more than was taken.
THEOREM TypesHold == Spec => []TypeOK
<1>1. IInv => TypeOK
  BY DEF IInv
<1>2. QED BY Invariance, <1>1, PTL

\* Two administrators never execute refunds of a plain provider's order at once: the
\* conditional update to REFUNDING excludes the second one.
THEOREM ExecutesAlone == Spec => []OneExecutor
<1>1. IInv => OneExecutor
  BY Zenon DEF IInv, PlainInv, OneExecutor
<1>2. QED BY Invariance, <1>1, PTL

\* A plain provider's order that is back where it was has cost the user nothing but
\* what a failed rollback is known to have kept.
THEOREM UndoneRestored == Spec => []UndoneWhenRestored
<1>1. ASSUME IInv PROVE UndoneWhenRestored
  <2> SUFFICES ASSUME provider = "plain", status \in {"COMPLETED", "REFUND_REQUESTED"},
                      \A w \in Workers : ~Executing(w), NEW w \in Workers
               PROVE  deducted[w] = unrolled[w]
    BY DEF UndoneWhenRestored
  <2>1. deducted[w] = unrolled[w] + Inflight(w) /\ unrolled[w] \in Nat
    BY <1>1 DEF IInv, PlainInv, TypeOK, Refundable
  <2>2. Inflight(w) = 0
    BY DEF Inflight, Executing
  <2>3. QED BY <2>1, <2>2
<1>2. QED BY Invariance, <1>1, PTL

\* An order reported as refunded has been paid back by the provider.
THEOREM RefundedPaid == Spec => []RefundedMeansPaidBack
<1>1. IInv => RefundedMeansPaidBack
  BY DEF IInv, PaidInv, RefundedMeansPaidBack
<1>2. QED BY Invariance, <1>1, PTL

\* A provider that recognises the request pays back once, however often it is asked.
THEOREM PaidOnce == Spec => []PaidBackAtMostOnce
<1>1. IInv => PaidBackAtMostOnce
  BY Amounts DEF IInv, PaidInv, PaidBackAtMostOnce
<1>2. QED BY Invariance, <1>1, PTL
================================================================================
