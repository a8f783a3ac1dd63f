---------------------------- MODULE PaymentRefund ----------------------------
(***************************************************************************)
(* The refund of a completed balance order.  An administrator prepares a   *)
(* plan and executes it: the order is claimed by setting it to REFUNDING,  *)
(* the refunded value is taken from the user's balance, the provider is    *)
(* asked for the money, and the outcome is written down.  A provider that  *)
(* answers "pending" is asked again later (QueryAndFinalizeRefund).        *)
(*                                                                         *)
(* A step of a worker is one database statement, one transaction or one    *)
(* provider call.  A statement may fail, the provider's answer may be      *)
(* lost, a worker may stop between two steps, and the user spends the      *)
(* balance meanwhile.                                                      *)
(***************************************************************************)
EXTENDS Integers, FiniteSets

CONSTANTS
    Workers,       \* requests of administrators
    Amount,        \* value of the order
    RefundAmount,  \* value an administrator refunds, the same in every attempt
    Providers,     \* kinds of provider the order may have been paid with
    MaxAttempts,   \* bound: refunds that are started
    MaxFaults,     \* bound: database statements or provider calls that fail
    MaxCrashes     \* bound: workers that stop between two steps

ASSUME PaymentRefundAssumption ==
    /\ Amount \in Nat /\ RefundAmount \in 1..Amount
    /\ Providers \subseteq {"keyed", "plain"}
    /\ MaxAttempts \in Nat /\ MaxFaults \in Nat /\ MaxCrashes \in Nat

VARIABLES
    status,          \* payment_orders.status
    pendingLog,      \* audit row REFUND_PENDING: absent, or its deductionRollbackOK
    rollbackFailed,  \* audit row REFUND_ROLLBACK_FAILED exists
    successLog,      \* audit row REFUND_SUCCESS exists
    balance,         \* users.balance
    deducted,        \* taken from the user by the attempts of each worker, not given back
    unrolled,        \* of that, what a failed rollback left behind
    provider,        \* "keyed": recognises a repeated refund request and has QueryRefund
                     \* (Stripe, Airwallex, WeChat Pay); "plain": neither (Alipay, EasyPay)
    upstream,        \* the refund at the provider
    paidBack,        \* money the provider returned to the user
    pc, plan,        \* workers: next step, and their RefundPlan
    attempts, faults, crashes

logVars == <<pendingLog, rollbackFailed, successLog>>
moneyVars == <<balance, deducted, unrolled>>
providerVars == <<provider, upstream, paidBack>>
workerVars == <<pc, plan>>
budgetVars == <<attempts, faults, crashes>>
vars == <<status, logVars, moneyVars, providerVars, workerVars, budgetVars>>

Refundable == {"COMPLETED", "REFUND_REQUESTED", "REFUND_PENDING", "REFUND_FAILED"}
Done == {"REFUNDED", "PARTIALLY_REFUNDED"}
Statuses == Refundable \cup Done \cup {"REFUNDING"}
Labels == {"idle", "claim", "deduct", "gateway", "ok", "rollbackPending", "markPending",
           "logPending", "rollbackFail", "restore", "markFailed", "detail", "query",
           "finalizeOk", "finalizeFailed"}
Plan(amount, from, ok) == [toDeduct |-> amount, from |-> from, rollbackOK |-> ok]
NoPlan == Plan(0, "COMPLETED", TRUE)
Plans == [toDeduct : 0..Amount, from : Refundable, rollbackOK : BOOLEAN]

Smaller(a, b) == IF a < b THEN a ELSE b

Init ==
    /\ status = "COMPLETED"
    /\ pendingLog = "none" /\ rollbackFailed = FALSE /\ successLog = FALSE
    /\ balance = Amount
    /\ deducted = [w \in Workers |-> 0] /\ unrolled = [w \in Workers |-> 0]
    /\ provider \in Providers /\ upstream = "none" /\ paidBack = 0
    /\ pc = [w \in Workers |-> "idle"]
    /\ plan = [w \in Workers |-> NoPlan]
    /\ attempts = 0 /\ faults = 0 /\ crashes = 0

-----------------------------------------------------------------------------
(* Building blocks *)

Goto(w, label) == pc' = [pc EXCEPT ![w] = label] /\ UNCHANGED plan
Return(w) == pc' = [pc EXCEPT ![w] = "idle"] /\ plan' = [plan EXCEPT ![w] = NoPlan]

Revise(w, amount, ok) == plan' = [plan EXCEPT ![w] = Plan(amount, @.from, ok)]

Fault == faults < MaxFaults /\ faults' = faults + 1 /\ UNCHANGED <<attempts, crashes>>
NoFault == UNCHANGED budgetVars

\* Mutant of Take: the whole amount is taken, as plain DeductBalance does.
TakeAll(w, amount) ==
    /\ balance' = balance - amount
    /\ deducted' = [deducted EXCEPT ![w] = @ + amount]
    /\ UNCHANGED unrolled

\* DeductAvailableBalance takes what is there, up to the amount asked for.
Take(w, amount) ==
    /\ balance' = balance - Smaller(amount, balance)
    /\ deducted' = [deducted EXCEPT ![w] = @ + Smaller(amount, balance)]
    /\ UNCHANGED unrolled

\* RollbackRefund gives it back with UpdateBalance.
GiveBack(w, amount) ==
    /\ balance' = balance + amount
    /\ deducted' = [deducted EXCEPT ![w] = @ - amount]
    /\ UNCHANGED unrolled

-----------------------------------------------------------------------------
(* Request, plan, claim, deduction *)

\* RequestRefund by the user: COMPLETED -> REFUND_REQUESTED, on condition that
\* the balance covers the order.
RequestRefund ==
    /\ status = "COMPLETED"
    /\ balance >= Amount
    /\ status' = "REFUND_REQUESTED"
    /\ UNCHANGED <<logVars, moneyVars, providerVars, workerVars, budgetVars>>

\* PrepareRefund and prepDeduct: the plan is made from the order and the balance
\* as they are now.  Too small a balance needs force; deduct may be off.
PrepareRefund(w) ==
    /\ pc[w] = "idle"
    /\ attempts < MaxAttempts
    /\ status \in Refundable
    /\ \E deduct, force \in BOOLEAN :
         /\ deduct => force \/ balance >= RefundAmount
         /\ plan' = [plan EXCEPT ![w] =
                       Plan(IF deduct THEN Smaller(RefundAmount, balance) ELSE 0, status, TRUE)]
    /\ pc' = [pc EXCEPT ![w] = "claim"]
    /\ attempts' = attempts + 1
    /\ UNCHANGED <<status, logVars, moneyVars, providerVars, faults, crashes>>

\* Mutant of ClaimRefund: the update is not conditional on the status.
ClaimRefundAnyStatus(w) ==
    /\ pc[w] = "claim"
    /\ status' = "REFUNDING"
    /\ Goto(w, "deduct")
    /\ NoFault
    /\ UNCHANGED <<logVars, moneyVars, providerVars>>

\* ExecuteRefund claims the order with a conditional update to REFUNDING.
ClaimRefund(w) ==
    /\ pc[w] = "claim"
    /\ \/ status \in Refundable /\ status' = "REFUNDING" /\ NoFault /\ Goto(w, "deduct")
       \/ status \notin Refundable /\ NoFault /\ Return(w) /\ UNCHANGED status
       \/ Fault /\ Return(w) /\ UNCHANGED status
    /\ UNCHANGED <<logVars, moneyVars, providerVars>>

\* The deduction, skipped when an earlier one was not rolled back.  That lookup
\* reads an error as "no such row"; a failing deduction restores the status.
DeductBalance(w) ==
    LET p == plan[w] IN
    /\ pc[w] = "deduct"
    /\ \/ /\ p.toDeduct = 0
          /\ Goto(w, "gateway")
          /\ NoFault
          /\ UNCHANGED moneyVars
       \/ /\ p.toDeduct > 0
          /\ \/ ~rollbackFailed /\ NoFault
             \/ rollbackFailed /\ Fault
          /\ Take(w, p.toDeduct)
          /\ Revise(w, Smaller(p.toDeduct, balance), p.rollbackOK)
          /\ pc' = [pc EXCEPT ![w] = "gateway"]
       \/ /\ p.toDeduct > 0 /\ rollbackFailed
          /\ Revise(w, 0, p.rollbackOK)
          /\ pc' = [pc EXCEPT ![w] = "gateway"]
          /\ NoFault
          /\ UNCHANGED moneyVars
       \/ /\ p.toDeduct > 0
          /\ Fault
          /\ Goto(w, "restore")
          /\ UNCHANGED moneyVars
    /\ UNCHANGED <<status, logVars, providerVars>>

-----------------------------------------------------------------------------
(* The provider *)

\* Mutant of NewRefund: every request carries a request number of its own.
NewRefundEachTime == paidBack + RefundAmount <= Amount

\* Is a request a new refund to the provider?  Keyed requests carry a key made of
\* order and amount, so a repeated one is recognised unless the first one failed;
\* each plain one is a new refund as long as the payment covers it.
NewRefund ==
    IF provider = "keyed" THEN upstream \in {"none", "failed"}
                          ELSE paidBack + RefundAmount <= Amount

\* gwRefund, and finishRefund's choice of what to do with the answer.
GatewayRefund(w) ==
    /\ pc[w] = "gateway"
    /\ \/ /\ NewRefund                                \* executed at once
          /\ upstream' = "success"
          /\ paidBack' = paidBack + RefundAmount
          /\ \/ NoFault /\ Goto(w, "ok")
             \/ Fault /\ Goto(w, "rollbackFail")      \* the answer is lost
       \/ /\ NewRefund                                \* accepted
          /\ upstream' = "pending"
          /\ \/ NoFault /\ Goto(w, "rollbackPending")
             \/ Fault /\ Goto(w, "rollbackFail")
          /\ UNCHANGED paidBack
       \/ /\ provider = "keyed" /\ upstream # "none" \* recognised
          /\ \/ upstream = "success" /\ Goto(w, "ok")
             \/ Goto(w, "rollbackPending")            \* the first answer again
          /\ NoFault
          /\ UNCHANGED providerVars
       \/ /\ Goto(w, "rollbackFail")                  \* refused
          /\ NoFault
          /\ UNCHANGED providerVars
    /\ UNCHANGED <<status, logVars, moneyVars, provider>>

\* A pending refund is decided at the provider.
SettleUpstream ==
    /\ upstream = "pending"
    /\ \/ upstream' = "success" /\ paidBack' = paidBack + RefundAmount
       \/ upstream' = "failed" /\ UNCHANGED paidBack
    /\ UNCHANGED <<status, logVars, moneyVars, provider, workerVars, budgetVars>>

-----------------------------------------------------------------------------
(* Outcomes of ExecuteRefund *)

FinalStatus == IF RefundAmount < Amount THEN "PARTIALLY_REFUNDED" ELSE "REFUNDED"

\* markRefundOk writes the order without a condition, then the log, ignoring errors.
MarkRefundOk(w) ==
    /\ pc[w] = "ok"
    /\ \/ status' = FinalStatus /\ successLog' = TRUE /\ NoFault
       \/ status' = FinalStatus /\ Fault /\ UNCHANGED successLog
       \/ Fault /\ UNCHANGED <<status, successLog>>
    /\ Return(w)
    /\ UNCHANGED <<pendingLog, rollbackFailed, moneyVars, providerVars>>

\* RollbackRefund: the deduction is given back; when that fails it is logged, if
\* the log can be written.
RollbackRefund(w, rolledBack, notRolledBack) ==
    \/ /\ GiveBack(w, plan[w].toDeduct)
       /\ pc' = [pc EXCEPT ![w] = rolledBack]
       /\ Revise(w, 0, TRUE)
       /\ NoFault
       /\ UNCHANGED rollbackFailed
    \/ /\ plan[w].toDeduct > 0
       /\ unrolled' = [unrolled EXCEPT ![w] = @ + plan[w].toDeduct]
       /\ pc' = [pc EXCEPT ![w] = notRolledBack]
       /\ Revise(w, plan[w].toDeduct, FALSE)
       /\ rollbackFailed' \in {TRUE, rollbackFailed}
       /\ Fault
       /\ UNCHANGED <<balance, deducted>>

\* Mutant of RollbackPending: the plan is finished as if the money were paid back.
FinishPending(w) ==
    /\ pc[w] = "rollbackPending"
    /\ Goto(w, "ok")
    /\ NoFault
    /\ UNCHANGED <<status, logVars, moneyVars, providerVars>>

\* markRefundPending gives the deduction back until the provider decides ...
RollbackPending(w) ==
    /\ pc[w] = "rollbackPending"
    /\ RollbackRefund(w, "markPending", "markPending")
    /\ UNCHANGED <<status, pendingLog, successLog, providerVars>>

\* ... sets REFUND_PENDING without a condition ...
MarkRefundPending(w) ==
    /\ pc[w] = "markPending"
    /\ \/ status' = "REFUND_PENDING" /\ NoFault /\ Goto(w, "logPending")
       \/ Fault /\ Return(w) /\ UNCHANGED status
    /\ UNCHANGED <<logVars, moneyVars, providerVars>>

\* ... and logs whether the deduction was given back.  The unique index keeps the
\* first REFUND_PENDING row of an order and drops every later one.
LogRefundPending(w) ==
    LET ok == IF plan[w].rollbackOK THEN "rolledBack" ELSE "kept" IN
    /\ pc[w] = "logPending"
    /\ \/ pendingLog' = (IF pendingLog = "none" THEN ok ELSE pendingLog) /\ NoFault
       \/ Fault /\ UNCHANGED pendingLog
    /\ Return(w)
    /\ UNCHANGED <<status, rollbackFailed, successLog, moneyVars, providerVars>>

\* Mutant of HandleGwFail: the status is restored without the rollback.
RestoreWithoutRollback(w) ==
    /\ pc[w] = "rollbackFail"
    /\ Goto(w, "restore")
    /\ NoFault
    /\ UNCHANGED <<status, logVars, moneyVars, providerVars>>

\* handleGwFail: roll back, then restore the status, or give up.
HandleGwFail(w) ==
    /\ pc[w] = "rollbackFail"
    /\ RollbackRefund(w, "restore", "markFailed")
    /\ UNCHANGED <<status, pendingLog, successLog, providerVars>>

\* restoreStatus: back to REFUND_REQUESTED or COMPLETED, without a condition and
\* ignoring errors.
RestoreStatus(w) ==
    /\ pc[w] = "restore"
    /\ \/ /\ status' = IF plan[w].from = "REFUND_REQUESTED" THEN "REFUND_REQUESTED" ELSE "COMPLETED"
          /\ NoFault
       \/ Fault /\ UNCHANGED status
    /\ Return(w)
    /\ UNCHANGED <<logVars, moneyVars, providerVars>>

\* REFUND_FAILED, without a condition: by handleGwFail when the rollback failed, and
\* by finalizeRefundFailed when the provider says that the refund failed.
MarkRefundFailed(w) ==
    /\ pc[w] \in {"markFailed", "finalizeFailed"}
    /\ \/ status' = "REFUND_FAILED" /\ NoFault
       \/ Fault /\ UNCHANGED status
    /\ Return(w)
    /\ UNCHANGED <<logVars, moneyVars, providerVars>>

-----------------------------------------------------------------------------
(* QueryAndFinalizeRefund *)

\* The order is read and must be pending.
StartQuery(w) ==
    /\ provider = "keyed"
    /\ pc[w] = "idle"
    /\ status = "REFUND_PENDING"
    /\ Goto(w, "detail")
    /\ NoFault
    /\ UNCHANGED <<status, logVars, moneyVars, providerVars>>

\* latestRefundPendingDetail: was the deduction given back?  Without a row, or when
\* the read fails, it counts as given back.  refundFinalizePlan then asks for the
\* deduction, whatever the administrator had chosen.
ReadPendingDetail(w) ==
    LET deduct(amount) == plan' = [plan EXCEPT ![w] = Plan(amount, "REFUND_PENDING", TRUE)] IN
    /\ pc[w] = "detail"
    /\ \/ deduct(IF pendingLog = "kept" THEN 0 ELSE RefundAmount) /\ NoFault
       \/ deduct(RefundAmount) /\ Fault
    /\ pc' = [pc EXCEPT ![w] = "query"]
    /\ UNCHANGED <<status, logVars, moneyVars, providerVars>>

\* QueryRefund's answer.
QueryRefund(w) ==
    /\ pc[w] = "query"
    /\ \/ upstream = "success" /\ NoFault /\ Goto(w, "finalizeOk")
       \/ upstream = "failed" /\ NoFault /\ Goto(w, "finalizeFailed")
       \/ upstream = "pending" /\ NoFault /\ Return(w)
       \/ Fault /\ Return(w)
    /\ UNCHANGED <<status, logVars, moneyVars, providerVars>>

\* finalizePendingRefundSuccess: one transaction claims the order on condition that
\* it is still pending, deducts, marks it and logs REFUND_SUCCESS, which is unique.
FinalizeOk(w) ==
    /\ pc[w] = "finalizeOk"
    /\ \/ /\ status = "REFUND_PENDING" /\ ~successLog
          /\ status' = FinalStatus
          /\ successLog' = TRUE
          /\ Take(w, plan[w].toDeduct)
          /\ NoFault
       \/ /\ status # "REFUND_PENDING" \/ successLog
          /\ NoFault
          /\ UNCHANGED <<status, successLog, moneyVars>>
       \/ Fault /\ UNCHANGED <<status, successLog, moneyVars>>
    /\ Return(w)
    /\ UNCHANGED <<pendingLog, rollbackFailed, providerVars>>

-----------------------------------------------------------------------------
(* Environment *)

\* The user spends a unit of balance.
Spend ==
    /\ balance > 0
    /\ balance' = balance - 1
    /\ UNCHANGED <<status, logVars, deducted, unrolled, providerVars, workerVars, budgetVars>>

\* A worker stops for good: process exit, or its request context is cancelled.
Crash(w) ==
    /\ pc[w] # "idle"
    /\ crashes < MaxCrashes
    /\ crashes' = crashes + 1
    /\ Return(w)
    /\ UNCHANGED <<status, logVars, moneyVars, providerVars, attempts, faults>>

Work(w) ==
    \/ ClaimRefund(w)
    \/ DeductBalance(w)
    \/ GatewayRefund(w)
    \/ MarkRefundOk(w)
    \/ RollbackPending(w)
    \/ MarkRefundPending(w)
    \/ LogRefundPending(w)
    \/ HandleGwFail(w)
    \/ RestoreStatus(w)
    \/ MarkRefundFailed(w)
    \/ ReadPendingDetail(w)
    \/ QueryRefund(w)
    \/ FinalizeOk(w)

Next ==
    \/ RequestRefund
    \/ SettleUpstream
    \/ Spend
    \/ \E w \in Workers : PrepareRefund(w) \/ StartQuery(w) \/ Work(w) \/ Crash(w)

Spec == Init /\ [][Next]_vars

-----------------------------------------------------------------------------
(* Properties *)

\* Every column and label stays in its range, and no money account goes below zero:
\* the deduction never takes more than there is, a rollback never more than was taken.
TypeOK ==
    /\ status \in Statuses
    /\ pendingLog \in {"none", "rolledBack", "kept"}
    /\ rollbackFailed \in BOOLEAN /\ successLog \in BOOLEAN
    /\ balance \in Nat /\ deducted \in [Workers -> Nat] /\ unrolled \in [Workers -> Nat]
    /\ provider \in Providers /\ upstream \in {"none", "pending", "success", "failed"} /\ paidBack \in Nat
    /\ pc \in [Workers -> Labels]
    /\ plan \in [Workers -> Plans]
    /\ attempts \in 0..MaxAttempts /\ faults \in 0..MaxFaults /\ crashes \in 0..MaxCrashes

\* Labels of ExecuteRefund after its claim and before its last write.
Executing(w) ==
    pc[w] \in {"deduct", "gateway", "ok", "rollbackPending", "markPending",
               "rollbackFail", "restore", "markFailed"}

\* The conditional update to REFUNDING is a lock as long as nobody finalises
\* refunds by query: two administrators never execute refunds of the order of a
\* plain provider at the same time.
OneExecutor ==
    provider = "plain" =>
        \A v, w \in Workers : Executing(v) /\ Executing(w) => v = w

\* An order is only reported as refunded once the provider has returned the money,
\* whatever was pending, retried or answered late.
RefundedMeansPaidBack ==
    status \in Done => paidBack >= RefundAmount

\* However often a refund is retried after a lost answer, a failed write or a crash,
\* a provider that recognises the request returns the money once.
PaidBackAtMostOnce == provider = "keyed" => paidBack <= RefundAmount

\* When an attempt at a plain provider ends with the order as it was before, the
\* user has everything back except what a failed rollback is known to have kept.
UndoneWhenRestored ==
    /\ provider = "plain"
    /\ status \in {"COMPLETED", "REFUND_REQUESTED"}
    /\ \A w \in Workers : ~Executing(w)
    => \A w \in Workers : deducted[w] = unrolled[w]

-----------------------------------------------------------------------------
(* What makes them inductive *)

\* What w has taken and will give back unless the provider pays.
Inflight(w) ==
    IF pc[w] \in {"gateway", "ok", "rollbackPending", "rollbackFail"} THEN plan[w].toDeduct ELSE 0

\* An attempt gives back what it has taken.
Covered == \A w \in Workers : deducted[w] >= Inflight(w)

\* Without queries REFUNDING is a lock; while the refund is not settled every worker
\* has given back what it took but for what is in flight and what failed rollbacks kept.
PlainInv ==
    provider = "plain" =>
        /\ \A w \in Workers : pc[w] \notin {"detail", "query", "finalizeOk", "finalizeFailed"}
        /\ \A w \in Workers : Executing(w) => status = "REFUNDING"
        /\ OneExecutor
        /\ (status \in Refundable \/ \E w \in Workers : Executing(w)) =>
              \A w \in Workers : deducted[w] = unrolled[w] + Inflight(w)

\* Whoever is about to write that the refund succeeded knows that it did.
PaidInv ==
    /\ (status \in Done \/ upstream = "success") => paidBack >= RefundAmount
    /\ \A w \in Workers : pc[w] \in {"ok", "finalizeOk"} => paidBack >= RefundAmount
    /\ provider = "keyed" => paidBack = IF upstream = "success" THEN RefundAmount ELSE 0

IInv == TypeOK /\ Covered /\ PlainInv /\ PaidInv
=============================================================================
