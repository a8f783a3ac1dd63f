---------------------------- MODULE PaymentOrder ----------------------------
(***************************************************************************)
(* The life of a payment order up to its fulfilment: creation, provider    *)
(* notifications, upstream reconciliation, cancellation and expiry, and    *)
(* the leased, retryable fulfilment that credits a balance or extends a    *)
(* subscription.                                                           *)
(*                                                                         *)
(* Every request handler or background job is a worker that runs one       *)
(* operation; a step of a worker is one database statement (or one         *)
(* transaction) or one provider call, so the steps of two workers          *)
(* interleave exactly where the code gives up control.  A statement may    *)
(* fail, a worker may stop for good between two steps, and a worker may be *)
(* so slow that five minutes pass under it.                                *)
(*                                                                         *)
(* updated_at is kept as a version (every ent update sets it, and leases   *)
(* compare it for equality) and a flag: aged holds once it is more than    *)
(* five minutes old, the length of both the fulfilment lease and the grace *)
(* period after expiry.                                                    *)
(***************************************************************************)
EXTENDS Naturals, FiniteSets

CONSTANTS
    Orders,       \* payment orders of one user
    Workers,      \* request handlers and background jobs
    OrderType,    \* OrderType[o]: "balance" or "subscription"
    MaxFaults,    \* bound: database statements or provider queries that fail
    MaxCrashes,   \* bound: workers that stop between two steps
    MaxSlow       \* bound: times five minutes pass under a running worker

ASSUME PaymentOrderAssumption ==
    /\ OrderType \in [Orders -> {"balance", "subscription"}]
    /\ MaxFaults \in Nat
    /\ MaxCrashes \in Nat
    /\ MaxSlow \in Nat

VARIABLES
    \* table payment_orders
    status,     \* order status, "NONE" before the row exists
    ver,        \* version of updated_at
    aged,       \* updated_at is more than five minutes old
    due,        \* expires_at has passed
    paidAt,     \* paid_at is set
    \* the other tables
    audit,      \* payment_audit_logs: actions per order, unique by index
    code,       \* redeem_codes row of recharge_code
    credited,   \* how often the order's value was added to the user
    rebated,    \* how often the inviter's rebate was accrued
    \* the payment provider
    gateway,    \* the payment at the provider
    acked,      \* the provider got a 2xx for its notification
    \* workers
    pc, cur, job, lease,
    \* what is left of the environment's bounded misbehaviour
    faults, crashes, slow

rowVars == <<status, ver, aged>>
tableVars == <<audit, code, credited, rebated>>
workerVars == <<pc, cur, job, lease>>
budgetVars == <<faults, crashes, slow>>
vars == <<rowVars, due, paidAt, tableVars, gateway, acked, workerVars, budgetVars>>

Statuses == {"NONE", "PENDING", "PAID", "RECHARGING", "COMPLETED",
             "EXPIRED", "CANCELLED", "FAILED"}
Jobs == {"none", "create", "webhook", "cancel", "expire", "reconcile",
         "verify", "retry"}
Labels == {"idle", "invoke", "query", "persist", "cancelUpstream", "close",
           "notify", "mismatch", "toPaid", "already", "fulfill", "lease",
           "reload", "lookup", "createCode", "redeem", "assign", "rebate",
           "complete", "fail"}
RebateActions == {"AFFILIATE_REBATE_APPLIED", "AFFILIATE_REBATE_SKIPPED"}
\* The audit actions that the code reads back or that a property is about; the
\* others are a log.
AuditActions == {"PAYMENT_AFTER_EXPIRY", "SUBSCRIPTION_ASSIGNED"} \cup RebateActions

Init ==
    /\ status = [o \in Orders |-> "NONE"]
    /\ ver = [o \in Orders |-> 0]
    /\ aged = [o \in Orders |-> FALSE]
    /\ due = [o \in Orders |-> FALSE]
    /\ paidAt = [o \in Orders |-> FALSE]
    /\ audit = [o \in Orders |-> {}]
    /\ code = [o \in Orders |-> "none"]
    /\ credited = [o \in Orders |-> 0]
    /\ rebated = [o \in Orders |-> 0]
    /\ gateway = [o \in Orders |-> "none"]
    /\ acked = [o \in Orders |-> FALSE]
    /\ pc = [w \in Workers |-> "idle"]
    /\ cur \in [Workers -> Orders]
    /\ job = [w \in Workers |-> "none"]
    /\ lease = [w \in Workers |-> 0]
    /\ faults = 0
    /\ crashes = 0
    /\ slow = 0

-----------------------------------------------------------------------------
(* Building blocks *)

\* An ent update of the row: updated_at moves whatever else is written.
Touch(o) ==
    /\ ver' = [ver EXCEPT ![o] = @ + 1]
    /\ aged' = [aged EXCEPT ![o] = FALSE]

SetStatus(o, s) ==
    /\ status' = [status EXCEPT ![o] = s]
    /\ Touch(o)

\* writeAuditLog ignores its error, so a second row with the same action is
\* silently dropped by the unique index on (order_id, action).
WriteAudit(o, actions) == audit' = [audit EXCEPT ![o] = @ \cup actions]

Goto(w, label) ==
    /\ pc' = [pc EXCEPT ![w] = label]
    /\ UNCHANGED <<cur, job, lease, acked>>

\* The operation returns.  A webhook handler answers 2xx iff err is nil, and
\* only then does the provider stop delivering the notification.
Return(w, ok) ==
    /\ pc' = [pc EXCEPT ![w] = "idle"]
    /\ job' = [job EXCEPT ![w] = "none"]
    /\ lease' = [lease EXCEPT ![w] = 0]
    /\ acked' = IF job[w] = "webhook" /\ ok
                  THEN [acked EXCEPT ![cur[w]] = TRUE]
                  ELSE acked
    /\ UNCHANGED cur

\* A worker picks up an operation on order o.
Start(w, o, j, label) ==
    /\ pc[w] = "idle"
    /\ pc' = [pc EXCEPT ![w] = label]
    /\ cur' = [cur EXCEPT ![w] = o]
    /\ job' = [job EXCEPT ![w] = j]
    /\ UNCHANGED <<lease, acked>>

\* One more statement fails, within the bound.
Fault ==
    /\ faults < MaxFaults
    /\ faults' = faults + 1
    /\ UNCHANGED <<crashes, slow>>

NoFault == UNCHANGED budgetVars

-----------------------------------------------------------------------------
(* Creation *)

\* createOrderInTx inserts the PENDING row.
CreateOrder(w, o) ==
    /\ status[o] = "NONE"
    /\ Start(w, o, "create", "invoke")
    /\ SetStatus(o, "PENDING")
    /\ NoFault
    /\ UNCHANGED <<due, paidAt, tableVars, gateway>>

\* The provider accepts the payment and the row gets its details.  When the
\* call fails, or the update after it, the order is set to FAILED whatever its
\* status is by now; the provider may know the payment all the same.
InvokeProvider(w) ==
    LET o == cur[w] IN
    /\ pc[w] = "invoke"
    /\ \/ /\ gateway' = [gateway EXCEPT ![o] = "open"]
          /\ Touch(o)
          /\ NoFault
          /\ UNCHANGED status
       \/ /\ gateway' \in {gateway, [gateway EXCEPT ![o] = "open"]}
          /\ SetStatus(o, "FAILED")
          /\ Fault
    /\ Return(w, TRUE)
    /\ UNCHANGED <<due, paidAt, tableVars>>

-----------------------------------------------------------------------------
(* Cancellation, expiry and reconciliation *)

\* CancelOrder and AdminCancelOrder read the order and go on to ask the provider.
StartCancel(w, o) ==
    /\ status[o] = "PENDING"
    /\ Start(w, o, "cancel", "query")
    /\ NoFault
    /\ UNCHANGED <<rowVars, due, paidAt, tableVars, gateway>>

\* VerifyOrderByOutTradeNo does so for an expired order, too.
StartVerify(w, o) ==
    /\ status[o] \in {"PENDING", "EXPIRED"}
    /\ Start(w, o, "verify", "query")
    /\ NoFault
    /\ UNCHANGED <<rowVars, due, paidAt, tableVars, gateway>>

\* The periodic sweep, runOnce: ReconcilePendingPaymentOrders asks for orders
\* that may still be paid, ExpireTimedOutOrders for those that timed out.
Sweep(w, o) ==
    /\ status[o] = "PENDING"
    /\ \/ ~due[o] /\ Start(w, o, "reconcile", "query")
       \/ due[o] /\ Start(w, o, "expire", "query")
    /\ NoFault
    /\ UNCHANGED <<rowVars, due, paidAt, tableVars, gateway>>

Closes(w) == job[w] \in {"cancel", "expire"}

\* checkPaid: what the provider answers decides how to go on.  A failed query
\* is treated like an unpaid order, so a closing job closes it.
QueryOrder(w) ==
    LET paid == gateway[cur[w]] = "paid"
        unpaid == gateway[cur[w]] \in {"open", "closed"}
    IN
    /\ pc[w] = "query"
    /\ \/ paid /\ NoFault /\ Goto(w, "persist")
       \/ unpaid /\ NoFault /\ Closes(w) /\ Goto(w, "cancelUpstream")
       \/ unpaid /\ NoFault /\ ~Closes(w) /\ Return(w, TRUE)
       \/ /\ (gateway[cur[w]] = "none" /\ NoFault) \/ Fault
          /\ IF Closes(w) THEN Goto(w, "close") ELSE Return(w, TRUE)
    /\ UNCHANGED <<rowVars, due, paidAt, tableVars, gateway>>

\* The upstream trade number is stored when it is a new one; the update has no
\* condition on the status.  HandlePaymentNotification is called next.
PersistTradeNo(w) ==
    /\ pc[w] = "persist"
    /\ \/ Touch(cur[w])
       \/ UNCHANGED <<ver, aged>>
    /\ Goto(w, "notify")
    /\ NoFault
    /\ UNCHANGED <<status, due, paidAt, tableVars, gateway>>

\* CancelPayment: only some providers have it, its error is ignored, and a
\* payment that is already made stays made.
CancelUpstream(w) ==
    LET o == cur[w] IN
    /\ pc[w] = "cancelUpstream"
    /\ gateway' \in {gateway, [gateway EXCEPT ![o] = IF @ = "open" THEN "closed" ELSE @]}
    /\ Goto(w, "close")
    /\ NoFault
    /\ UNCHANGED <<rowVars, due, paidAt, tableVars>>

\* Mutant of CloseOrder: the update is not conditional on PENDING.
CloseOrderAnyStatus(w) ==
    /\ pc[w] = "close"
    /\ SetStatus(cur[w], "CANCELLED")
    /\ Return(w, TRUE)
    /\ NoFault
    /\ UNCHANGED <<due, paidAt, tableVars, gateway>>

\* cancelCore: PENDING -> CANCELLED or EXPIRED, conditional on PENDING.
CloseOrder(w) ==
    LET o == cur[w] IN
    /\ pc[w] = "close"
    /\ IF status[o] = "PENDING"
         THEN \/ /\ SetStatus(o, IF job[w] = "expire" THEN "EXPIRED" ELSE "CANCELLED")
                 /\ NoFault
              \/ Fault /\ UNCHANGED rowVars
         ELSE NoFault /\ UNCHANGED rowVars
    /\ Return(w, TRUE)
    /\ UNCHANGED <<due, paidAt, tableVars, gateway>>

-----------------------------------------------------------------------------
(* Notification *)

\* The provider delivers its success notification until it gets a 2xx.  A
\* notification may also carry an amount that is not the order's.
Webhook(w, o) ==
    /\ ~acked[o]
    /\ \/ gateway[o] = "paid" /\ Start(w, o, "webhook", "notify")
       \/ gateway[o] = "open" /\ Start(w, o, "webhook", "mismatch")
    /\ NoFault
    /\ UNCHANGED <<rowVars, due, paidAt, tableVars, gateway>>

\* Mutant of RejectMismatch: the amount is not compared.
AcceptMismatch(w) ==
    /\ pc[w] = "mismatch"
    /\ Goto(w, "toPaid")
    /\ NoFault
    /\ UNCHANGED <<rowVars, due, paidAt, tableVars, gateway>>

\* confirmPayment rejects a notification of another amount, provider or
\* merchant before anything is written.
RejectMismatch(w) ==
    /\ pc[w] = "mismatch"
    /\ Return(w, FALSE)
    /\ NoFault
    /\ UNCHANGED <<rowVars, due, paidAt, tableVars, gateway>>

\* HandlePaymentNotification finds the order by its trade number and
\* confirmPayment reads it again by its id.  A failed lookup is an error; a
\* failed read is answered like a missing order, with nil.
ConfirmPayment(w) ==
    /\ pc[w] = "notify"
    /\ \/ NoFault /\ Goto(w, "toPaid")
       \/ Fault /\ \E ok \in BOOLEAN : Return(w, ok)
    /\ UNCHANGED <<rowVars, due, paidAt, tableVars, gateway>>

Payable(o) ==
    \/ status[o] \in {"PENDING", "CANCELLED"}
    \/ status[o] = "EXPIRED" /\ ~aged[o]

\* toPaid: the conditional update to PAID.
ToPaid(w) ==
    LET o == cur[w] IN
    /\ pc[w] = "toPaid"
    /\ \/ /\ Payable(o)
          /\ SetStatus(o, "PAID")
          /\ paidAt' = [paidAt EXCEPT ![o] = TRUE]
          /\ Goto(w, "fulfill")
          /\ NoFault
       \/ /\ ~Payable(o)
          /\ Goto(w, "already")
          /\ NoFault
          /\ UNCHANGED <<rowVars, paidAt>>
       \/ /\ Fault
          /\ Return(w, FALSE)
          /\ UNCHANGED <<rowVars, paidAt>>
    /\ UNCHANGED <<due, tableVars, gateway>>

\* alreadyProcessed: the order was not payable; look again.  A failed read is
\* answered with nil.
AlreadyProcessed(w) ==
    LET o == cur[w] IN
    /\ pc[w] = "already"
    /\ \/ /\ status[o] \in {"FAILED", "PAID", "RECHARGING"}
          /\ Goto(w, "fulfill")
          /\ NoFault
          /\ UNCHANGED audit
       \/ /\ status[o] = "EXPIRED"
          /\ WriteAudit(o, {"PAYMENT_AFTER_EXPIRY"})
          /\ Return(w, TRUE)
          /\ NoFault
       \/ /\ status[o] \notin {"FAILED", "PAID", "RECHARGING", "EXPIRED"}
          /\ Return(w, TRUE)
          /\ NoFault
          /\ UNCHANGED audit
       \/ /\ Fault
          /\ Return(w, TRUE)
          /\ UNCHANGED audit
    /\ UNCHANGED <<rowVars, due, paidAt, code, credited, rebated, gateway>>

-----------------------------------------------------------------------------
(* Fulfilment *)

\* RetryFulfillment by an administrator, for a paid order that is not done.
RetryFulfillment(w, o) ==
    /\ paidAt[o]
    /\ status[o] \in {"FAILED", "PAID", "RECHARGING"}
    /\ Start(w, o, "retry", "fulfill")
    /\ NoFault
    /\ UNCHANGED <<rowVars, due, paidAt, tableVars, gateway>>

\* executeFulfillment, up to the lease: the order is read and judged.
ExecuteFulfillment(w) ==
    LET s == status[cur[w]] IN
    /\ pc[w] = "fulfill"
    /\ \/ s \in {"PAID", "FAILED", "RECHARGING"} /\ NoFault /\ Goto(w, "lease")
       \/ s = "COMPLETED" /\ NoFault /\ Return(w, TRUE)
       \/ s \notin {"PAID", "FAILED", "RECHARGING", "COMPLETED"} /\ NoFault /\ Return(w, FALSE)
       \/ Fault /\ Return(w, FALSE)
    /\ UNCHANGED <<rowVars, due, paidAt, tableVars, gateway>>

\* Mutant of Claimable: the lease of a worker that stopped is never taken over.
ClaimableOnce(o) == status[o] \in {"PAID", "FAILED"}

Claimable(o) ==
    \/ status[o] \in {"PAID", "FAILED"}
    \/ status[o] = "RECHARGING" /\ aged[o]

\* acquirePaymentFulfillmentLease: the conditional update to RECHARGING ...
AcquireLease(w) ==
    LET o == cur[w] IN
    /\ pc[w] = "lease"
    /\ \/ Claimable(o) /\ SetStatus(o, "RECHARGING") /\ Goto(w, "reload") /\ NoFault
       \/ /\ ~Claimable(o)
          /\ Return(w, status[o] = "COMPLETED")
          /\ NoFault
          /\ UNCHANGED rowVars
       \/ Fault /\ Return(w, FALSE) /\ UNCHANGED rowVars
    /\ UNCHANGED <<due, paidAt, tableVars, gateway>>

\* ... and the reload that reads the lease version back from the row.
ReloadLease(w) ==
    LET o == cur[w] IN
    /\ pc[w] = "reload"
    /\ \/ /\ status[o] = "RECHARGING"
          /\ pc' = [pc EXCEPT ![w] = "lookup"]
          /\ lease' = [lease EXCEPT ![w] = ver[o]]
          /\ NoFault
          /\ UNCHANGED <<cur, job, acked>>
       \/ status[o] # "RECHARGING" /\ NoFault /\ Return(w, FALSE)
       \/ Fault /\ Return(w, FALSE)
    /\ UNCHANGED <<rowVars, due, paidAt, tableVars, gateway>>

\* Mutant of LookupGrant: a code that exists is taken for a code that was redeemed.
LookupGrantTrustsCode(w) ==
    /\ pc[w] = "lookup"
    /\ Goto(w, IF code[cur[w]] = "none" THEN "createCode" ELSE "rebate")
    /\ NoFault
    /\ UNCHANGED <<rowVars, due, paidAt, tableVars, gateway>>

\* doBalance looks the redeem code up (resolveRedeemAction); doSub reads the
\* group, which must still be active.
LookupGrant(w) ==
    LET o == cur[w]
        balance == OrderType[o] = "balance"
    IN
    /\ pc[w] = "lookup"
    /\ \/ balance /\ code[o] = "none" /\ NoFault /\ Goto(w, "createCode")
       \/ balance /\ code[o] = "unused" /\ NoFault /\ Goto(w, "redeem")
       \/ balance /\ code[o] = "used" /\ NoFault /\ Goto(w, "rebate")
       \/ ~balance /\ NoFault /\ Goto(w, "assign")
       \/ Fault /\ Goto(w, "fail")
    /\ UNCHANGED <<rowVars, due, paidAt, tableVars, gateway>>

\* CreateCode: the code column is unique.
CreateCode(w) ==
    LET o == cur[w] IN
    /\ pc[w] = "createCode"
    /\ \/ /\ code[o] = "none"
          /\ code' = [code EXCEPT ![o] = "unused"]
          /\ Goto(w, "redeem")
          /\ NoFault
       \/ code[o] # "none" /\ NoFault /\ Goto(w, "fail") /\ UNCHANGED code
       \/ Fault /\ Goto(w, "fail") /\ UNCHANGED code
    /\ UNCHANGED <<rowVars, due, paidAt, audit, credited, rebated, gateway>>

\* Mutant of Redeem: the code is marked used without the condition on unused.
RedeemUnconditionally(w) ==
    /\ pc[w] = "redeem"
    /\ code' = [code EXCEPT ![cur[w]] = "used"]
    /\ credited' = [credited EXCEPT ![cur[w]] = @ + 1]
    /\ Goto(w, "rebate")
    /\ NoFault
    /\ UNCHANGED <<rowVars, due, paidAt, audit, rebated, gateway>>

\* redeem: the transaction marks the code used on condition that it is unused,
\* and adds the amount.  It is refused when the code is used; it may fail before
\* the transaction, a Redis lock held by another worker included, and after the
\* commit, when the code is read again.
Redeem(w) ==
    LET o == cur[w] IN
    /\ pc[w] = "redeem"
    /\ \/ /\ code[o] = "unused"
          /\ code' = [code EXCEPT ![o] = "used"]
          /\ credited' = [credited EXCEPT ![o] = @ + 1]
          /\ \/ NoFault /\ Goto(w, "rebate")
             \/ Fault /\ Goto(w, "fail")
       \/ /\ code[o] # "unused"
          /\ NoFault
          /\ Goto(w, "fail")
          /\ UNCHANGED <<code, credited>>
       \/ Fault /\ Goto(w, "fail") /\ UNCHANGED <<code, credited>>
    /\ UNCHANGED <<rowVars, due, paidAt, audit, rebated, gateway>>

\* ensurePaymentSubscriptionAssigned: the transaction extends the subscription
\* and inserts SUBSCRIPTION_ASSIGNED; the unique index rolls a second one back,
\* which then counts as assigned.  Cache invalidation after the commit may fail.
AssignSubscription(w) ==
    LET o == cur[w] IN
    /\ pc[w] = "assign"
    /\ \/ /\ "SUBSCRIPTION_ASSIGNED" \notin audit[o]
          /\ WriteAudit(o, {"SUBSCRIPTION_ASSIGNED"})
          /\ credited' = [credited EXCEPT ![o] = @ + 1]
          /\ \/ NoFault /\ Goto(w, "rebate")
             \/ Fault /\ Goto(w, "fail")
       \/ /\ "SUBSCRIPTION_ASSIGNED" \in audit[o]
          /\ NoFault
          /\ Goto(w, "rebate")
          /\ UNCHANGED <<audit, credited>>
       \/ Fault /\ Goto(w, "fail") /\ UNCHANGED <<audit, credited>>
    /\ UNCHANGED <<rowVars, due, paidAt, code, rebated, gateway>>

\* applyAffiliateRebateForOrder: one transaction claims the rebate in the audit
\* log and accrues it, or records that there is none.
ApplyRebate(w) ==
    LET o == cur[w] IN
    /\ pc[w] = "rebate"
    /\ \/ /\ audit[o] \cap RebateActions = {}
          /\ \/ /\ WriteAudit(o, {"AFFILIATE_REBATE_APPLIED"})
                /\ rebated' = [rebated EXCEPT ![o] = @ + 1]
             \/ WriteAudit(o, {"AFFILIATE_REBATE_SKIPPED"}) /\ UNCHANGED rebated
          /\ Goto(w, "complete")
          /\ NoFault
       \/ /\ audit[o] \cap RebateActions # {}
          /\ Goto(w, "complete")
          /\ NoFault
          /\ UNCHANGED <<audit, rebated>>
       \/ Fault /\ Goto(w, "fail") /\ UNCHANGED <<audit, rebated>>
    /\ UNCHANGED <<rowVars, due, paidAt, code, credited, gateway>>

HoldsLease(w) == status[cur[w]] = "RECHARGING" /\ ver[cur[w]] = lease[w]

\* markCompleted, conditional on the lease version.
MarkCompleted(w) ==
    LET o == cur[w] IN
    /\ pc[w] = "complete"
    /\ \/ /\ HoldsLease(w)
          /\ SetStatus(o, "COMPLETED")
          /\ Return(w, TRUE)
          /\ NoFault
       \/ /\ ~HoldsLease(w)
          /\ IF status[o] = "COMPLETED" THEN Return(w, TRUE) ELSE Goto(w, "fail")
          /\ NoFault
          /\ UNCHANGED rowVars
       \/ Fault /\ Goto(w, "fail") /\ UNCHANGED rowVars
    /\ UNCHANGED <<due, paidAt, tableVars, gateway>>

\* markFailed, conditional on the lease version; the error goes to the caller.
MarkFailed(w) ==
    LET o == cur[w] IN
    /\ pc[w] = "fail"
    /\ \/ /\ HoldsLease(w)
          /\ SetStatus(o, "FAILED")
          /\ NoFault
       \/ ~HoldsLease(w) /\ NoFault /\ UNCHANGED rowVars
       \/ Fault /\ UNCHANGED rowVars
    /\ Return(w, FALSE)
    /\ UNCHANGED <<due, paidAt, tableVars, gateway>>

-----------------------------------------------------------------------------
(* Environment *)

\* The user pays at the provider.
Pay(o) ==
    /\ gateway[o] = "open"
    /\ gateway' = [gateway EXCEPT ![o] = "paid"]
    /\ UNCHANGED <<rowVars, due, paidAt, tableVars, acked, workerVars, budgetVars>>

\* expires_at passes.
Timeout(o) ==
    /\ status[o] = "PENDING"
    /\ ~due[o]
    /\ due' = [due EXCEPT ![o] = TRUE]
    /\ UNCHANGED <<rowVars, paidAt, tableVars, gateway, acked, workerVars, budgetVars>>

LeaseLabels == {"reload", "lookup", "createCode", "redeem", "assign", "rebate",
                "complete", "fail"}

\* Five minutes pass since the last update of o.  Under a worker that is about to
\* use that update (it holds a lease, or is on its way to toPaid) this happens
\* MaxSlow times at most.
Age(o) ==
    /\ status[o] \in {"EXPIRED", "RECHARGING"}
    /\ ~aged[o]
    /\ aged' = [aged EXCEPT ![o] = TRUE]
    /\ IF \E w \in Workers :
            /\ cur[w] = o
            /\ pc[w] \in IF status[o] = "EXPIRED" THEN {"notify", "toPaid"} ELSE LeaseLabels
         THEN slow < MaxSlow /\ slow' = slow + 1
         ELSE UNCHANGED slow
    /\ UNCHANGED <<status, ver, due, paidAt, tableVars, gateway, acked, workerVars,
                   faults, crashes>>

\* A worker stops for good: process exit, or its request context is cancelled.
Crash(w) ==
    /\ pc[w] # "idle"
    /\ crashes < MaxCrashes
    /\ crashes' = crashes + 1
    /\ pc' = [pc EXCEPT ![w] = "idle"]
    /\ job' = [job EXCEPT ![w] = "none"]
    /\ lease' = [lease EXCEPT ![w] = 0]
    /\ UNCHANGED <<rowVars, due, paidAt, tableVars, gateway, acked, cur, faults, slow>>

Work(w) ==
    \/ InvokeProvider(w)
    \/ QueryOrder(w)
    \/ PersistTradeNo(w)
    \/ CancelUpstream(w)
    \/ CloseOrder(w)
    \/ RejectMismatch(w)
    \/ ConfirmPayment(w)
    \/ ToPaid(w)
    \/ AlreadyProcessed(w)
    \/ ExecuteFulfillment(w)
    \/ AcquireLease(w)
    \/ ReloadLease(w)
    \/ LookupGrant(w)
    \/ CreateCode(w)
    \/ Redeem(w)
    \/ AssignSubscription(w)
    \/ ApplyRebate(w)
    \/ MarkCompleted(w)
    \/ MarkFailed(w)

Begin(w, o) ==
    \/ CreateOrder(w, o)
    \/ StartCancel(w, o)
    \/ StartVerify(w, o)
    \/ Sweep(w, o)
    \/ Webhook(w, o)
    \/ RetryFulfillment(w, o)

Environment(o) == Pay(o) \/ Timeout(o) \/ Age(o)

Next ==
    \/ \E w \in Workers : Work(w) \/ Crash(w)
    \/ \E w \in Workers, o \in Orders : Begin(w, o)
    \/ \E o \in Orders : Environment(o)

Spec == Init /\ [][Next]_vars

(***************************************************************************)
(* Fairness.  A worker that is not stopped finishes its operation; the     *)
(* provider delivers a notification again until it gets a 2xx, and some    *)
(* handler takes it; the periodic sweep comes round to every pending       *)
(* order; time passes.  Nobody is obliged to pay, to cancel, to verify or  *)
(* to retry, so none of that is fair.                                      *)
(***************************************************************************)
DeliverAny(o) == \E w \in Workers : Webhook(w, o)
SweepAny(o) == \E w \in Workers : Sweep(w, o)

Fairness ==
    /\ \A w \in Workers : WF_vars(Work(w))
    /\ \A o \in Orders :
         /\ SF_vars(DeliverAny(o)) /\ SF_vars(SweepAny(o))
         /\ WF_vars(Age(o)) /\ WF_vars(Timeout(o))

FairSpec == Spec /\ Fairness

-----------------------------------------------------------------------------
(* Properties *)

RowType ==
    /\ status \in [Orders -> Statuses]
    /\ ver \in [Orders -> Nat]
    /\ aged \in [Orders -> BOOLEAN]

TableType ==
    /\ due \in [Orders -> BOOLEAN]
    /\ paidAt \in [Orders -> BOOLEAN]
    /\ audit \in [Orders -> SUBSET AuditActions]
    /\ code \in [Orders -> {"none", "unused", "used"}]
    /\ credited \in [Orders -> Nat]
    /\ rebated \in [Orders -> Nat]
    /\ gateway \in [Orders -> {"none", "open", "closed", "paid"}]

WorkerType ==
    /\ pc \in [Workers -> Labels]
    /\ cur \in [Workers -> Orders]
    /\ job \in [Workers -> Jobs]
    /\ lease \in [Workers -> Nat]
    /\ acked \in [Orders -> BOOLEAN]

BudgetType ==
    /\ faults \in 0..MaxFaults
    /\ crashes \in 0..MaxCrashes
    /\ slow \in 0..MaxSlow

\* Every column, label and budget stays in its range: an operation never stores
\* a status or sends a worker to a step that the other operations do not know.
TypeOK == RowType /\ TableType /\ WorkerType /\ BudgetType

\* An order's value reaches the user at most once and its rebate the inviter at
\* most once, however often the order is fulfilled, retried or taken over.
GrantedAtMostOnce ==
    \A o \in Orders : credited[o] <= 1 /\ rebated[o] <= 1

\* Value is granted only against money the provider holds: an order that is
\* FAILED because the provider call failed, or was notified with another
\* amount, never gets through RetryFulfillment or alreadyProcessed.
NoGrantWithoutPayment ==
    \A o \in Orders : credited[o] > 0 \/ rebated[o] > 0 => gateway[o] = "paid"

\* COMPLETED is never reported before the value was granted and the rebate
\* decided, although both are separate transactions of a retryable worker.
CompletedMeansGranted ==
    \A o \in Orders : status[o] = "COMPLETED" =>
        /\ credited[o] = 1
        /\ audit[o] \cap RebateActions # {}

PaidStatuses == {"PAID", "RECHARGING", "COMPLETED", "FAILED"}

\* A cancel, expiry or reconciliation that looked at an older state never
\* takes a paid order back, and a completed order is final.
SettledNeverReverts ==
    [][\A o \in Orders :
        /\ paidAt[o] => status'[o] \in PaidStatuses
        /\ status[o] = "COMPLETED" => status'[o] = "COMPLETED"]_vars

\* PaymentOrder implements the abstract promise.
Promise == INSTANCE PaymentPromise WITH
    paid <- {o \in Orders : gateway[o] = "paid"},
    granted <- credited,
    completed <- {o \in Orders : status[o] = "COMPLETED"}

KeepsPromise == Promise!Spec

\* A paid order is completed, or its money is on record as having arrived after
\* the grace period: crashes and lost leases delay this, they do not prevent it.
PaidOrderSettles ==
    \A o \in Orders :
        gateway[o] = "paid" ~>
            (status[o] = "COMPLETED" \/ "PAYMENT_AFTER_EXPIRY" \in audit[o])

-----------------------------------------------------------------------------
(* The inductive invariant behind the safety properties *)

\* The row that makes a grant idempotent says whether it happened.
GrantRecorded ==
    \A o \in Orders : credited[o] =
        IF (OrderType[o] = "balance" /\ code[o] = "used")
           \/ (OrderType[o] = "subscription" /\ "SUBSCRIPTION_ASSIGNED" \in audit[o])
        THEN 1 ELSE 0

RebateRecorded ==
    \A o \in Orders :
        /\ rebated[o] = IF "AFFILIATE_REBATE_APPLIED" \in audit[o] THEN 1 ELSE 0
        /\ ~(RebateActions \subseteq audit[o])

\* Labels a worker reaches only once the provider reported the payment.
PaidLabels == {"persist", "notify", "toPaid", "already", "fulfill", "lease"} \cup LeaseLabels

PaymentKnown ==
    /\ \A w \in Workers : pc[w] \in PaidLabels => gateway[cur[w]] = "paid"
    /\ \A o \in Orders :
         \/ paidAt[o]
         \/ status[o] \in {"PAID", "RECHARGING", "COMPLETED"}
         \/ code[o] # "none"
         \/ audit[o] \cap (RebateActions \cup {"SUBSCRIPTION_ASSIGNED"}) # {}
         => gateway[o] = "paid"

\* What a worker past the grant, and past the rebate, can rely on.
Progress ==
    /\ \A w \in Workers :
         /\ pc[w] \in {"rebate", "complete"} => credited[cur[w]] = 1
         /\ pc[w] = "complete" => audit[cur[w]] \cap RebateActions # {}
         /\ pc[w] \in {"createCode", "redeem"} => OrderType[cur[w]] = "balance"
         /\ pc[w] = "assign" => OrderType[cur[w]] = "subscription"
         /\ pc[w] = "invoke" =>
              gateway[cur[w]] = "none" /\ status[cur[w]] \in {"PENDING", "CANCELLED", "EXPIRED"}
    /\ CompletedMeansGranted

\* A provider call is still to be made for orders it does not know yet.
Creating ==
    /\ \A v, w \in Workers :
         pc[v] = "invoke" /\ pc[w] = "invoke" /\ cur[v] = cur[w] => v = w
    /\ \A o \in Orders : status[o] = "NONE" =>
         /\ gateway[o] = "none"
         /\ \A w \in Workers : pc[w] # "idle" => cur[w] # o

\* A row with paid_at never goes back to a status an unpaid order has.
PaidRow == \A o \in Orders : paidAt[o] => status[o] \in PaidStatuses

\* The invariant that every step preserves and that implies the properties above.
IInv ==
    /\ TypeOK
    /\ PaidRow
    /\ GrantRecorded
    /\ RebateRecorded
    /\ PaymentKnown
    /\ Progress
    /\ Creating
=============================================================================
