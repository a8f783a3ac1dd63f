------------------------- MODULE PaymentOrderProofs -------------------------
(***************************************************************************)
(* The safety properties of PaymentOrder hold for every set of orders and  *)
(* workers and every bound, and PaymentOrder implements PaymentPromise.    *)
(*                                                                         *)
(* The argument is one inductive invariant, IInv.  None of the properties  *)
(* is inductive: that an order is credited once follows from the row that  *)
(* records the credit in the same transaction (GrantRecorded,              *)
(* RebateRecorded); that it is credited only against a payment, from what  *)
(* brought a worker to its step (PaymentKnown); that COMPLETED means       *)
(* granted, from what a worker past the grant knows whoever did it         *)
(* (Progress); that a paid row stays paid, from PaidRow; and Creating says *)
(* that no other operation touches an order before its row exists.         *)
(*                                                                         *)
(* Type correctness comes first, one lemma per action; then one lemma per  *)
(* action that it preserves IInv; then the theorems.                       *)
(***************************************************************************)
EXTENDS PaymentOrder, TLAPS

-----------------------------------------------------------------------------
(* What the building blocks of the actions do to the types *)

LEMMA TouchType ==
    ASSUME RowType, NEW o \in Orders, Touch(o), UNCHANGED status
    PROVE  RowType'
  BY DEF RowType, Touch

LEMMA StatusType ==
    ASSUME RowType, NEW o \in Orders, NEW s \in Statuses, SetStatus(o, s)
    PROVE  RowType'
  BY DEF RowType, SetStatus, Touch

LEMMA AuditType ==
    ASSUME TableType, NEW o \in Orders, NEW A \in SUBSET AuditActions, WriteAudit(o, A)
    PROVE  audit' \in [Orders -> SUBSET AuditActions]
  BY DEF TableType, WriteAudit

LEMMA GotoType ==
    ASSUME WorkerType, NEW w \in Workers, NEW l \in Labels, Goto(w, l)
    PROVE  WorkerType'
  BY DEF WorkerType, Goto

LEMMA StartType ==
    ASSUME WorkerType, NEW w \in Workers, NEW o \in Orders, NEW j \in Jobs,
           NEW l \in Labels, Start(w, o, j, l)
    PROVE  WorkerType'
  BY DEF WorkerType, Start

LEMMA ReturnType ==
    ASSUME WorkerType, NEW w \in Workers, NEW ok, Return(w, ok)
    PROVE  WorkerType'
<1>1. /\ pc' \in [Workers -> Labels]
      /\ cur' \in [Workers -> Orders]
      /\ job' \in [Workers -> Jobs]
      /\ lease' \in [Workers -> Nat]
  BY DEF WorkerType, Return, Labels, Jobs
<1>2. acked' \in [Orders -> BOOLEAN]
  <2>1. CASE acked' = [acked EXCEPT ![cur[w]] = TRUE]
    BY <2>1 DEF WorkerType
  <2>2. CASE acked' = acked
    BY <2>2 DEF WorkerType
  <2>3. QED BY <2>1, <2>2 DEF Return
<1>3. QED BY <1>1, <1>2 DEF WorkerType

LEMMA BudgetStep ==
    ASSUME BudgetType, Fault \/ NoFault
    PROVE  BudgetType'
  BY PaymentOrderAssumption DEF BudgetType, Fault, NoFault, budgetVars

-----------------------------------------------------------------------------
(* Every action preserves TypeOK *)

LEMMA CreateOrderType ==
    ASSUME TypeOK, NEW w \in Workers, NEW o \in Orders, CreateOrder(w, o)
    PROVE  TypeOK'
<1> USE DEF TypeOK, CreateOrder
<1>2. RowType'
  BY StatusType DEF RowType, rowVars, Statuses
<1>3. TableType'
  BY DEF TableType, tableVars
<1>4. WorkerType'
  BY StartType DEF Labels, Jobs
<1>5. BudgetType'
  BY BudgetStep
<1>6. QED BY <1>2, <1>3, <1>4, <1>5

LEMMA StartCheckType ==
    ASSUME TypeOK, NEW w \in Workers, NEW o \in Orders,
           StartCancel(w, o) \/ StartVerify(w, o)
    PROVE  TypeOK'
<1> USE DEF TypeOK, StartCancel, StartVerify
<1>2. RowType'
  BY DEF RowType, rowVars
<1>3. TableType'
  BY DEF TableType, tableVars
<1>4. WorkerType'
  BY StartType DEF Labels, Jobs
<1>5. BudgetType'
  BY BudgetStep
<1>6. QED BY <1>2, <1>3, <1>4, <1>5

LEMMA SweepType ==
    ASSUME TypeOK, NEW w \in Workers, NEW o \in Orders, Sweep(w, o)
    PROVE  TypeOK'
<1> USE DEF TypeOK, Sweep
<1>2. RowType'
  BY DEF RowType, rowVars
<1>3. TableType'
  BY DEF TableType, tableVars
<1>4. WorkerType'
  BY StartType DEF Labels, Jobs
<1>5. BudgetType'
  BY BudgetStep
<1>6. QED BY <1>2, <1>3, <1>4, <1>5

LEMMA WebhookType ==
    ASSUME TypeOK, NEW w \in Workers, NEW o \in Orders, Webhook(w, o)
    PROVE  TypeOK'
<1> USE DEF TypeOK, Webhook
<1>2. RowType'
  BY DEF RowType, rowVars
<1>3. TableType'
  BY DEF TableType, tableVars
<1>4. WorkerType'
  BY StartType DEF Labels, Jobs
<1>5. BudgetType'
  BY BudgetStep
<1>6. QED BY <1>2, <1>3, <1>4, <1>5

LEMMA RetryFulfillmentType ==
    ASSUME TypeOK, NEW w \in Workers, NEW o \in Orders, RetryFulfillment(w, o)
    PROVE  TypeOK'
<1> USE DEF TypeOK, RetryFulfillment
<1>2. RowType'
  BY DEF RowType, rowVars
<1>3. TableType'
  BY DEF TableType, tableVars
<1>4. WorkerType'
  BY StartType DEF Labels, Jobs
<1>5. BudgetType'
  BY BudgetStep
<1>6. QED BY <1>2, <1>3, <1>4, <1>5

LEMMA InvokeProviderType ==
    ASSUME TypeOK, NEW w \in Workers, InvokeProvider(w)
    PROVE  TypeOK'
<1> USE DEF TypeOK, InvokeProvider
<1>1. cur[w] \in Orders
  BY DEF WorkerType
<1>2. RowType'
  BY <1>1, StatusType, TouchType DEF RowType, rowVars, Statuses
<1>3. TableType'
  BY <1>1 DEF TableType, tableVars
<1>4. WorkerType'
  BY <1>1, ReturnType DEF Labels
<1>5. BudgetType'
  BY BudgetStep
<1>6. QED BY <1>2, <1>3, <1>4, <1>5

LEMMA QueryOrderType ==
    ASSUME TypeOK, NEW w \in Workers, QueryOrder(w)
    PROVE  TypeOK'
<1> USE DEF TypeOK, QueryOrder
<1>1. cur[w] \in Orders
  BY DEF WorkerType
<1>2. RowType'
  BY <1>1 DEF RowType, rowVars
<1>3. TableType'
  BY <1>1 DEF TableType, tableVars
<1>4. WorkerType'
  BY <1>1, GotoType, ReturnType DEF Labels
<1>5. BudgetType'
  BY BudgetStep
<1>6. QED BY <1>2, <1>3, <1>4, <1>5

LEMMA PersistTradeNoType ==
    ASSUME TypeOK, NEW w \in Workers, PersistTradeNo(w)
    PROVE  TypeOK'
<1> USE DEF TypeOK, PersistTradeNo
<1>1. cur[w] \in Orders
  BY DEF WorkerType
<1>2. RowType'
  BY <1>1, TouchType DEF RowType, rowVars
<1>3. TableType'
  BY <1>1 DEF TableType, tableVars
<1>4. WorkerType'
  BY <1>1, GotoType DEF Labels
<1>5. BudgetType'
  BY BudgetStep
<1>6. QED BY <1>2, <1>3, <1>4, <1>5

LEMMA CancelUpstreamType ==
    ASSUME TypeOK, NEW w \in Workers, CancelUpstream(w)
    PROVE  TypeOK'
<1> USE DEF TypeOK, CancelUpstream
<1>1. cur[w] \in Orders
  BY DEF WorkerType
<1>2. RowType'
  BY <1>1 DEF RowType, rowVars
<1>3. TableType'
  BY <1>1 DEF TableType, tableVars
<1>4. WorkerType'
  BY <1>1, GotoType DEF Labels
<1>5. BudgetType'
  BY BudgetStep
<1>6. QED BY <1>2, <1>3, <1>4, <1>5

LEMMA CloseOrderType ==
    ASSUME TypeOK, NEW w \in Workers, CloseOrder(w)
    PROVE  TypeOK'
<1> USE DEF TypeOK, CloseOrder
<1>1. cur[w] \in Orders
  BY DEF WorkerType
<1>2. RowType'
  BY <1>1, StatusType DEF RowType, rowVars, Statuses
<1>3. TableType'
  BY <1>1 DEF TableType, tableVars
<1>4. WorkerType'
  BY <1>1, ReturnType DEF Labels
<1>5. BudgetType'
  BY BudgetStep
<1>6. QED BY <1>2, <1>3, <1>4, <1>5

LEMMA RejectMismatchType ==
    ASSUME TypeOK, NEW w \in Workers, RejectMismatch(w)
    PROVE  TypeOK'
<1> USE DEF TypeOK, RejectMismatch
<1>1. cur[w] \in Orders
  BY DEF WorkerType
<1>2. RowType'
  BY <1>1 DEF RowType, rowVars
<1>3. TableType'
  BY <1>1 DEF TableType, tableVars
<1>4. WorkerType'
  BY <1>1, ReturnType DEF Labels
<1>5. BudgetType'
  BY BudgetStep
<1>6. QED BY <1>2, <1>3, <1>4, <1>5

LEMMA ConfirmPaymentType ==
    ASSUME TypeOK, NEW w \in Workers, ConfirmPayment(w)
    PROVE  TypeOK'
<1> USE DEF TypeOK, ConfirmPayment
<1>1. cur[w] \in Orders
  BY DEF WorkerType
<1>2. RowType'
  BY <1>1 DEF RowType, rowVars
<1>3. TableType'
  BY <1>1 DEF TableType, tableVars
<1>4. WorkerType'
  BY <1>1, GotoType, ReturnType DEF Labels
<1>5. BudgetType'
  BY BudgetStep
<1>6. QED BY <1>2, <1>3, <1>4, <1>5

LEMMA ToPaidType ==
    ASSUME TypeOK, NEW w \in Workers, ToPaid(w)
    PROVE  TypeOK'
<1> USE DEF TypeOK, ToPaid
<1>1. cur[w] \in Orders
  BY DEF WorkerType
<1>2. RowType'
  BY <1>1, StatusType DEF RowType, rowVars, Statuses
<1>3. TableType'
  BY <1>1 DEF TableType, tableVars
<1>4. WorkerType'
  BY <1>1, GotoType, ReturnType DEF Labels
<1>5. BudgetType'
  BY BudgetStep
<1>6. QED BY <1>2, <1>3, <1>4, <1>5

LEMMA AlreadyProcessedType ==
    ASSUME TypeOK, NEW w \in Workers, AlreadyProcessed(w)
    PROVE  TypeOK'
<1> USE DEF TypeOK, AlreadyProcessed
<1>1. cur[w] \in Orders
  BY DEF WorkerType
<1>2. RowType'
  BY <1>1 DEF RowType, rowVars
<1>3. TableType'
  BY <1>1, AuditType DEF TableType, tableVars, AuditActions, RebateActions
<1>4. WorkerType'
  BY <1>1, GotoType, ReturnType DEF Labels
<1>5. BudgetType'
  BY BudgetStep
<1>6. QED BY <1>2, <1>3, <1>4, <1>5

LEMMA ExecuteFulfillmentType ==
    ASSUME TypeOK, NEW w \in Workers, ExecuteFulfillment(w)
    PROVE  TypeOK'
<1> USE DEF TypeOK, ExecuteFulfillment
<1>1. cur[w] \in Orders
  BY DEF WorkerType
<1>2. RowType'
  BY <1>1 DEF RowType, rowVars
<1>3. TableType'
  BY <1>1 DEF TableType, tableVars
<1>4. WorkerType'
  BY <1>1, GotoType, ReturnType DEF Labels
<1>5. BudgetType'
  BY BudgetStep
<1>6. QED BY <1>2, <1>3, <1>4, <1>5

LEMMA AcquireLeaseType ==
    ASSUME TypeOK, NEW w \in Workers, AcquireLease(w)
    PROVE  TypeOK'
<1> USE DEF TypeOK, AcquireLease
<1>1. cur[w] \in Orders
  BY DEF WorkerType
<1>2. RowType'
  BY <1>1, StatusType DEF RowType, rowVars, Statuses
<1>3. TableType'
  BY <1>1 DEF TableType, tableVars
<1>4. WorkerType'
  BY <1>1, GotoType, ReturnType DEF Labels
<1>5. BudgetType'
  BY BudgetStep
<1>6. QED BY <1>2, <1>3, <1>4, <1>5

LEMMA ReloadLeaseType ==
    ASSUME TypeOK, NEW w \in Workers, ReloadLease(w)
    PROVE  TypeOK'
<1> USE DEF TypeOK, ReloadLease
<1>1. cur[w] \in Orders
  BY DEF WorkerType
<1>2. RowType'
  BY <1>1 DEF RowType, rowVars
<1>3. TableType'
  BY <1>1 DEF TableType, tableVars
<1>4. WorkerType'
  <2>1. CASE pc' = [pc EXCEPT ![w] = "lookup"] /\ UNCHANGED <<cur, job, acked>>
             /\ lease' = [lease EXCEPT ![w] = ver[cur[w]]]
    BY <1>1, <2>1 DEF WorkerType, RowType, Labels
  <2>2. CASE Return(w, FALSE)
    BY <2>2, ReturnType
  <2>3. QED BY <2>1, <2>2
<1>5. BudgetType'
  BY BudgetStep
<1>6. QED BY <1>2, <1>3, <1>4, <1>5

LEMMA LookupGrantType ==
    ASSUME TypeOK, NEW w \in Workers, LookupGrant(w)
    PROVE  TypeOK'
<1> USE DEF TypeOK, LookupGrant
<1>1. cur[w] \in Orders
  BY DEF WorkerType
<1>2. RowType'
  BY <1>1 DEF RowType, rowVars
<1>3. TableType'
  BY <1>1 DEF TableType, tableVars
<1>4. WorkerType'
  BY <1>1, GotoType DEF Labels
<1>5. BudgetType'
  BY BudgetStep
<1>6. QED BY <1>2, <1>3, <1>4, <1>5

LEMMA CreateCodeType ==
    ASSUME TypeOK, NEW w \in Workers, CreateCode(w)
    PROVE  TypeOK'
<1> USE DEF TypeOK, CreateCode
<1>1. cur[w] \in Orders
  BY DEF WorkerType
<1>2. RowType'
  BY <1>1 DEF RowType, rowVars
<1>3. TableType'
  BY <1>1 DEF TableType, tableVars
<1>4. WorkerType'
  BY <1>1, GotoType DEF Labels
<1>5. BudgetType'
  BY BudgetStep
<1>6. QED BY <1>2, <1>3, <1>4, <1>5

LEMMA RedeemType ==
    ASSUME TypeOK, NEW w \in Workers, Redeem(w)
    PROVE  TypeOK'
<1> USE DEF TypeOK, Redeem
<1>1. cur[w] \in Orders
  BY DEF WorkerType
<1>2. RowType'
  BY <1>1 DEF RowType, rowVars
<1>3. TableType'
  BY <1>1 DEF TableType, tableVars
<1>4. WorkerType'
  BY <1>1, GotoType DEF Labels
<1>5. BudgetType'
  BY BudgetStep
<1>6. QED BY <1>2, <1>3, <1>4, <1>5

LEMMA AssignSubscriptionType ==
    ASSUME TypeOK, NEW w \in Workers, AssignSubscription(w)
    PROVE  TypeOK'
<1> USE DEF TypeOK, AssignSubscription
<1>1. cur[w] \in Orders
  BY DEF WorkerType
<1>2. RowType'
  BY <1>1 DEF RowType, rowVars
<1>3. TableType'
  BY <1>1, AuditType DEF TableType, tableVars, AuditActions, RebateActions
<1>4. WorkerType'
  BY <1>1, GotoType DEF Labels
<1>5. BudgetType'
  BY BudgetStep
<1>6. QED BY <1>2, <1>3, <1>4, <1>5

LEMMA ApplyRebateType ==
    ASSUME TypeOK, NEW w \in Workers, ApplyRebate(w)
    PROVE  TypeOK'
<1> USE DEF TypeOK, ApplyRebate
<1>1. cur[w] \in Orders
  BY DEF WorkerType
<1>2. RowType'
  BY <1>1 DEF RowType, rowVars
<1>3. TableType'
  BY <1>1, AuditType DEF TableType, tableVars, AuditActions, RebateActions
<1>4. WorkerType'
  BY <1>1, GotoType DEF Labels
<1>5. BudgetType'
  BY BudgetStep
<1>6. QED BY <1>2, <1>3, <1>4, <1>5

LEMMA MarkCompletedType ==
    ASSUME TypeOK, NEW w \in Workers, MarkCompleted(w)
    PROVE  TypeOK'
<1> USE DEF TypeOK, MarkCompleted
<1>1. cur[w] \in Orders
  BY DEF WorkerType
<1>2. RowType'
  BY <1>1, StatusType DEF RowType, rowVars, Statuses
<1>3. TableType'
  BY <1>1 DEF TableType, tableVars
<1>4. WorkerType'
  BY <1>1, GotoType, ReturnType DEF Labels
<1>5. BudgetType'
  BY BudgetStep
<1>6. QED BY <1>2, <1>3, <1>4, <1>5

LEMMA MarkFailedType ==
    ASSUME TypeOK, NEW w \in Workers, MarkFailed(w)
    PROVE  TypeOK'
<1> USE DEF TypeOK, MarkFailed
<1>1. cur[w] \in Orders
  BY DEF WorkerType
<1>2. RowType'
  BY <1>1, StatusType DEF RowType, rowVars, Statuses
<1>3. TableType'
  BY <1>1 DEF TableType, tableVars
<1>4. WorkerType'
  BY <1>1, ReturnType DEF Labels
<1>5. BudgetType'
  BY BudgetStep
<1>6. QED BY <1>2, <1>3, <1>4, <1>5

LEMMA CrashType ==
    ASSUME TypeOK, NEW w \in Workers, Crash(w)
    PROVE  TypeOK'
  BY PaymentOrderAssumption
  DEF TypeOK, RowType, TableType, WorkerType, BudgetType, Crash,
      rowVars, tableVars, workerVars, budgetVars, Labels, Jobs

LEMMA PayType ==
    ASSUME TypeOK, NEW o \in Orders, Pay(o)
    PROVE  TypeOK'
  BY PaymentOrderAssumption
  DEF TypeOK, RowType, TableType, WorkerType, BudgetType, Pay,
      rowVars, tableVars, workerVars, budgetVars, Labels, Jobs

LEMMA TimeoutType ==
    ASSUME TypeOK, NEW o \in Orders, Timeout(o)
    PROVE  TypeOK'
  BY PaymentOrderAssumption
  DEF TypeOK, RowType, TableType, WorkerType, BudgetType, Timeout,
      rowVars, tableVars, workerVars, budgetVars, Labels, Jobs

LEMMA AgeType ==
    ASSUME TypeOK, NEW o \in Orders, Age(o)
    PROVE  TypeOK'
  BY PaymentOrderAssumption
  DEF TypeOK, RowType, TableType, WorkerType, BudgetType, Age,
      rowVars, tableVars, workerVars, budgetVars, Labels, Jobs

-----------------------------------------------------------------------------
(* Every action preserves IInv *)

\* The facts about grants and rebates are facts about these four tables only.
LEMMA LedgerFrame ==
    ASSUME GrantRecorded, RebateRecorded, UNCHANGED <<audit, code, credited, rebated>>
    PROVE  GrantRecorded' /\ RebateRecorded'
  BY DEF GrantRecorded, RebateRecorded

LEMMA CreateOrderStep ==
    ASSUME IInv, NEW w \in Workers, NEW o \in Orders, CreateOrder(w, o)
    PROVE  IInv'
<1> USE DEF IInv, TypeOK, TableType, WorkerType, RowType, CreateOrder, Start,
      SetStatus, Touch,
           rowVars, tableVars, workerVars, budgetVars, RebateActions
<1>1. TypeOK'
  BY CreateOrderType
<1>2. GrantRecorded' /\ RebateRecorded'
  BY LedgerFrame
<1>3. PaymentKnown'
  BY PaymentOrderAssumption DEF PaymentKnown, PaidLabels, LeaseLabels
<1>4. Progress'
  BY PaymentOrderAssumption DEF Progress, CompletedMeansGranted, GrantRecorded,
     PaymentKnown, PaidLabels, LeaseLabels, Creating
<1>5. Creating'
  BY PaymentOrderAssumption DEF Creating, PaymentKnown, Progress, PaidLabels, LeaseLabels
<1>6. PaidRow'
  BY PaymentOrderAssumption DEF PaidRow, PaidStatuses, Progress
<1>7. QED BY <1>1, <1>2, <1>3, <1>4, <1>5, <1>6

LEMMA StartCheckStep ==
    ASSUME IInv, NEW w \in Workers, NEW o \in Orders,
           StartCancel(w, o) \/ StartVerify(w, o)
    PROVE  IInv'
<1> USE DEF IInv, TypeOK, TableType, WorkerType, RowType, StartCancel, StartVerify, Start,
           rowVars, tableVars, workerVars, budgetVars, RebateActions
<1>1. TypeOK'
  BY StartCheckType
<1>2. GrantRecorded' /\ RebateRecorded'
  BY LedgerFrame
<1>3. PaymentKnown'
  BY PaymentOrderAssumption DEF PaymentKnown, PaidLabels, LeaseLabels
<1>4. Progress'
  BY PaymentOrderAssumption DEF Progress, CompletedMeansGranted, GrantRecorded,
     PaymentKnown, PaidLabels, LeaseLabels
<1>5. Creating'
  BY PaymentOrderAssumption DEF Creating, PaymentKnown, Progress, PaidLabels, LeaseLabels
<1>6. PaidRow'
  BY PaymentOrderAssumption DEF PaidRow, PaidStatuses, Progress
<1>7. QED BY <1>1, <1>2, <1>3, <1>4, <1>5, <1>6

LEMMA SweepStep ==
    ASSUME IInv, NEW w \in Workers, NEW o \in Orders, Sweep(w, o)
    PROVE  IInv'
<1> USE DEF IInv, TypeOK, TableType, WorkerType, RowType, Sweep, Start,
           rowVars, tableVars, workerVars, budgetVars, RebateActions
<1>1. TypeOK'
  BY SweepType
<1>2. GrantRecorded' /\ RebateRecorded'
  BY LedgerFrame
<1>3. PaymentKnown'
  BY PaymentOrderAssumption DEF PaymentKnown, PaidLabels, LeaseLabels
<1>4. Progress'
  BY PaymentOrderAssumption DEF Progress, CompletedMeansGranted, GrantRecorded,
     PaymentKnown, PaidLabels, LeaseLabels
<1>5. Creating'
  BY PaymentOrderAssumption DEF Creating, PaymentKnown, Progress, PaidLabels, LeaseLabels
<1>6. PaidRow'
  BY PaymentOrderAssumption DEF PaidRow, PaidStatuses, Progress
<1>7. QED BY <1>1, <1>2, <1>3, <1>4, <1>5, <1>6

LEMMA WebhookStep ==
    ASSUME IInv, NEW w \in Workers, NEW o \in Orders, Webhook(w, o)
    PROVE  IInv'
<1> USE DEF IInv, TypeOK, TableType, WorkerType, RowType, Webhook, Start,
           rowVars, tableVars, workerVars, budgetVars, RebateActions
<1>1. TypeOK'
  BY WebhookType
<1>2. GrantRecorded' /\ RebateRecorded'
  BY LedgerFrame
<1>3. PaymentKnown'
  BY PaymentOrderAssumption DEF PaymentKnown, PaidLabels, LeaseLabels
<1>4. Progress'
  BY PaymentOrderAssumption DEF Progress, CompletedMeansGranted, GrantRecorded,
     PaymentKnown, PaidLabels, LeaseLabels
<1>5. Creating'
  BY PaymentOrderAssumption DEF Creating, PaymentKnown, Progress, PaidLabels, LeaseLabels
<1>6. PaidRow'
  BY PaymentOrderAssumption DEF PaidRow, PaidStatuses, Progress
<1>7. QED BY <1>1, <1>2, <1>3, <1>4, <1>5, <1>6

LEMMA RetryFulfillmentStep ==
    ASSUME IInv, NEW w \in Workers, NEW o \in Orders, RetryFulfillment(w, o)
    PROVE  IInv'
<1> USE DEF IInv, TypeOK, TableType, WorkerType, RowType, RetryFulfillment, Start,
           rowVars, tableVars, workerVars, budgetVars, RebateActions
<1>1. TypeOK'
  BY RetryFulfillmentType
<1>2. GrantRecorded' /\ RebateRecorded'
  BY LedgerFrame
<1>3. PaymentKnown'
  BY PaymentOrderAssumption DEF PaymentKnown, PaidLabels, LeaseLabels
<1>4. Progress'
  BY PaymentOrderAssumption DEF Progress, CompletedMeansGranted, GrantRecorded,
     PaymentKnown, PaidLabels, LeaseLabels
<1>5. Creating'
  BY PaymentOrderAssumption DEF Creating, PaymentKnown, Progress, PaidLabels, LeaseLabels
<1>6. PaidRow'
  BY PaymentOrderAssumption DEF PaidRow, PaidStatuses, Progress
<1>7. QED BY <1>1, <1>2, <1>3, <1>4, <1>5, <1>6

LEMMA InvokeProviderStep ==
    ASSUME IInv, NEW w \in Workers, InvokeProvider(w)
    PROVE  IInv'
<1> USE DEF IInv, TypeOK, TableType, WorkerType, RowType, InvokeProvider, SetStatus,
      Touch, Return,
           rowVars, tableVars, workerVars, budgetVars, RebateActions
<1>1. TypeOK'
  BY InvokeProviderType
<1>2. GrantRecorded' /\ RebateRecorded'
  BY LedgerFrame
<1>3. PaymentKnown'
  BY PaymentOrderAssumption DEF PaymentKnown, PaidLabels, LeaseLabels, Progress
<1>4. Progress'
  BY PaymentOrderAssumption DEF Progress, CompletedMeansGranted, GrantRecorded,
     PaymentKnown, PaidLabels, LeaseLabels, Creating
<1>5. Creating'
  BY PaymentOrderAssumption DEF Creating, PaymentKnown, Progress, PaidLabels, LeaseLabels
<1>6. PaidRow'
  BY PaymentOrderAssumption DEF PaidRow, PaidStatuses, Progress
<1>7. QED BY <1>1, <1>2, <1>3, <1>4, <1>5, <1>6

LEMMA QueryOrderStep ==
    ASSUME IInv, NEW w \in Workers, QueryOrder(w)
    PROVE  IInv'
<1> USE DEF IInv, TypeOK, TableType, WorkerType, RowType, QueryOrder, Goto, Return, Closes,
           rowVars, tableVars, workerVars, budgetVars, RebateActions
<1>1. TypeOK'
  BY QueryOrderType
<1>2. GrantRecorded' /\ RebateRecorded'
  BY LedgerFrame
<1>3. PaymentKnown'
  BY PaymentOrderAssumption DEF PaymentKnown, PaidLabels, LeaseLabels
<1>4. Progress'
  BY PaymentOrderAssumption DEF Progress, CompletedMeansGranted, GrantRecorded,
     PaymentKnown, PaidLabels, LeaseLabels
<1>5. Creating'
  BY PaymentOrderAssumption DEF Creating, PaymentKnown, Progress, PaidLabels, LeaseLabels
<1>6. PaidRow'
  BY PaymentOrderAssumption DEF PaidRow, PaidStatuses, Progress
<1>7. QED BY <1>1, <1>2, <1>3, <1>4, <1>5, <1>6

LEMMA PersistTradeNoStep ==
    ASSUME IInv, NEW w \in Workers, PersistTradeNo(w)
    PROVE  IInv'
<1> USE DEF IInv, TypeOK, TableType, WorkerType, RowType, PersistTradeNo, Touch, Goto,
           rowVars, tableVars, workerVars, budgetVars, RebateActions
<1>1. TypeOK'
  BY PersistTradeNoType
<1>2. GrantRecorded' /\ RebateRecorded'
  BY LedgerFrame
<1>3. PaymentKnown'
  BY PaymentOrderAssumption DEF PaymentKnown, PaidLabels, LeaseLabels
<1>4. Progress'
  BY PaymentOrderAssumption DEF Progress, CompletedMeansGranted, GrantRecorded,
     PaymentKnown, PaidLabels, LeaseLabels
<1>5. Creating'
  BY PaymentOrderAssumption DEF Creating, PaymentKnown, Progress, PaidLabels, LeaseLabels
<1>6. PaidRow'
  BY PaymentOrderAssumption DEF PaidRow, PaidStatuses, Progress
<1>7. QED BY <1>1, <1>2, <1>3, <1>4, <1>5, <1>6

LEMMA CancelUpstreamStep ==
    ASSUME IInv, NEW w \in Workers, CancelUpstream(w)
    PROVE  IInv'
<1> USE DEF IInv, TypeOK, TableType, WorkerType, RowType, CancelUpstream, Goto,
           rowVars, tableVars, workerVars, budgetVars, RebateActions
<1>1. TypeOK'
  BY CancelUpstreamType
<1>2. GrantRecorded' /\ RebateRecorded'
  BY LedgerFrame
<1>3. PaymentKnown'
  BY PaymentOrderAssumption DEF PaymentKnown, PaidLabels, LeaseLabels
<1>4. Progress'
  BY PaymentOrderAssumption DEF Progress, CompletedMeansGranted, GrantRecorded,
     PaymentKnown, PaidLabels, LeaseLabels
<1>5. Creating'
  BY PaymentOrderAssumption DEF Creating, PaymentKnown, Progress, PaidLabels, LeaseLabels
<1>6. PaidRow'
  BY PaymentOrderAssumption DEF PaidRow, PaidStatuses, Progress
<1>7. QED BY <1>1, <1>2, <1>3, <1>4, <1>5, <1>6

LEMMA CloseOrderStep ==
    ASSUME IInv, NEW w \in Workers, CloseOrder(w)
    PROVE  IInv'
<1> USE DEF IInv, TypeOK, TableType, WorkerType, RowType, CloseOrder, SetStatus, Touch,
      Return,
           rowVars, tableVars, workerVars, budgetVars, RebateActions
<1>1. TypeOK'
  BY CloseOrderType
<1>2. GrantRecorded' /\ RebateRecorded'
  BY LedgerFrame
<1>3. PaymentKnown'
  BY PaymentOrderAssumption DEF PaymentKnown, PaidLabels, LeaseLabels
<1>4. Progress'
  BY PaymentOrderAssumption DEF Progress, CompletedMeansGranted, GrantRecorded,
     PaymentKnown, PaidLabels, LeaseLabels
<1>5. Creating'
  BY PaymentOrderAssumption DEF Creating, PaymentKnown, Progress, PaidLabels, LeaseLabels
<1>6. PaidRow'
  BY PaymentOrderAssumption DEF PaidRow, PaidStatuses, Progress
<1>7. QED BY <1>1, <1>2, <1>3, <1>4, <1>5, <1>6

LEMMA RejectMismatchStep ==
    ASSUME IInv, NEW w \in Workers, RejectMismatch(w)
    PROVE  IInv'
<1> USE DEF IInv, TypeOK, TableType, WorkerType, RowType, RejectMismatch, Return,
           rowVars, tableVars, workerVars, budgetVars, RebateActions
<1>1. TypeOK'
  BY RejectMismatchType
<1>2. GrantRecorded' /\ RebateRecorded'
  BY LedgerFrame
<1>3. PaymentKnown'
  BY PaymentOrderAssumption DEF PaymentKnown, PaidLabels, LeaseLabels
<1>4. Progress'
  BY PaymentOrderAssumption DEF Progress, CompletedMeansGranted, GrantRecorded,
     PaymentKnown, PaidLabels, LeaseLabels
<1>5. Creating'
  BY PaymentOrderAssumption DEF Creating, PaymentKnown, Progress, PaidLabels, LeaseLabels
<1>6. PaidRow'
  BY PaymentOrderAssumption DEF PaidRow, PaidStatuses, Progress
<1>7. QED BY <1>1, <1>2, <1>3, <1>4, <1>5, <1>6

LEMMA ConfirmPaymentStep ==
    ASSUME IInv, NEW w \in Workers, ConfirmPayment(w)
    PROVE  IInv'
<1> USE DEF IInv, TypeOK, TableType, WorkerType, RowType, ConfirmPayment, Goto, Return,
           rowVars, tableVars, workerVars, budgetVars, RebateActions
<1>1. TypeOK'
  BY ConfirmPaymentType
<1>2. GrantRecorded' /\ RebateRecorded'
  BY LedgerFrame
<1>3. PaymentKnown'
  BY PaymentOrderAssumption DEF PaymentKnown, PaidLabels, LeaseLabels
<1>4. Progress'
  BY PaymentOrderAssumption DEF Progress, CompletedMeansGranted, GrantRecorded,
     PaymentKnown, PaidLabels, LeaseLabels
<1>5. Creating'
  BY PaymentOrderAssumption DEF Creating, PaymentKnown, Progress, PaidLabels, LeaseLabels
<1>6. PaidRow'
  BY PaymentOrderAssumption DEF PaidRow, PaidStatuses, Progress
<1>7. QED BY <1>1, <1>2, <1>3, <1>4, <1>5, <1>6

LEMMA ToPaidStep ==
    ASSUME IInv, NEW w \in Workers, ToPaid(w)
    PROVE  IInv'
<1> USE DEF IInv, TypeOK, TableType, WorkerType, RowType, ToPaid, Payable, SetStatus,
      Touch, Goto, Return,
           rowVars, tableVars, workerVars, budgetVars, RebateActions
<1>1. TypeOK'
  BY ToPaidType
<1>2. GrantRecorded' /\ RebateRecorded'
  BY LedgerFrame
<1>3. PaymentKnown'
  BY PaymentOrderAssumption DEF PaymentKnown, PaidLabels, LeaseLabels
<1>4. Progress'
  BY PaymentOrderAssumption DEF Progress, CompletedMeansGranted, GrantRecorded,
     PaymentKnown, PaidLabels, LeaseLabels
<1>5. Creating'
  BY PaymentOrderAssumption DEF Creating, PaymentKnown, Progress, PaidLabels, LeaseLabels
<1>6. PaidRow'
  BY PaymentOrderAssumption DEF PaidRow, PaidStatuses, Progress
<1>7. QED BY <1>1, <1>2, <1>3, <1>4, <1>5, <1>6

LEMMA AlreadyProcessedStep ==
    ASSUME IInv, NEW w \in Workers, AlreadyProcessed(w)
    PROVE  IInv'
<1> USE DEF IInv, TypeOK, TableType, WorkerType, RowType, AlreadyProcessed, WriteAudit,
      Goto, Return,
           rowVars, tableVars, workerVars, budgetVars, RebateActions
<1>1. TypeOK'
  BY AlreadyProcessedType
<1>2. GrantRecorded'
  BY PaymentOrderAssumption DEF GrantRecorded
<1>3. RebateRecorded'
  BY PaymentOrderAssumption DEF RebateRecorded
<1>4. PaymentKnown'
  BY PaymentOrderAssumption DEF PaymentKnown, PaidLabels, LeaseLabels
<1>5. Progress'
  BY PaymentOrderAssumption DEF Progress, CompletedMeansGranted, GrantRecorded,
     PaymentKnown, PaidLabels, LeaseLabels
<1>6. Creating'
  BY PaymentOrderAssumption DEF Creating, PaymentKnown, Progress, PaidLabels, LeaseLabels
<1>7. PaidRow'
  BY PaymentOrderAssumption DEF PaidRow, PaidStatuses, Progress
<1>8. QED BY <1>1, <1>2, <1>3, <1>4, <1>5, <1>6, <1>7

LEMMA ExecuteFulfillmentStep ==
    ASSUME IInv, NEW w \in Workers, ExecuteFulfillment(w)
    PROVE  IInv'
<1> USE DEF IInv, TypeOK, TableType, WorkerType, RowType, ExecuteFulfillment, Goto, Return,
           rowVars, tableVars, workerVars, budgetVars, RebateActions
<1>1. TypeOK'
  BY ExecuteFulfillmentType
<1>2. GrantRecorded' /\ RebateRecorded'
  BY LedgerFrame
<1>3. PaymentKnown'
  BY PaymentOrderAssumption DEF PaymentKnown, PaidLabels, LeaseLabels
<1>4. Progress'
  BY PaymentOrderAssumption DEF Progress, CompletedMeansGranted, GrantRecorded,
     PaymentKnown, PaidLabels, LeaseLabels
<1>5. Creating'
  BY PaymentOrderAssumption DEF Creating, PaymentKnown, Progress, PaidLabels, LeaseLabels
<1>6. PaidRow'
  BY PaymentOrderAssumption DEF PaidRow, PaidStatuses, Progress
<1>7. QED BY <1>1, <1>2, <1>3, <1>4, <1>5, <1>6

LEMMA AcquireLeaseStep ==
    ASSUME IInv, NEW w \in Workers, AcquireLease(w)
    PROVE  IInv'
<1> USE DEF IInv, TypeOK, TableType, WorkerType, RowType, AcquireLease, Claimable,
      SetStatus, Touch, Goto, Return,
           rowVars, tableVars, workerVars, budgetVars, RebateActions
<1>1. TypeOK'
  BY AcquireLeaseType
<1>2. GrantRecorded' /\ RebateRecorded'
  BY LedgerFrame
<1>3. PaymentKnown'
  BY PaymentOrderAssumption DEF PaymentKnown, PaidLabels, LeaseLabels
<1>4. Progress'
  BY PaymentOrderAssumption DEF Progress, CompletedMeansGranted, GrantRecorded,
     PaymentKnown, PaidLabels, LeaseLabels
<1>5. Creating'
  BY PaymentOrderAssumption DEF Creating, PaymentKnown, Progress, PaidLabels, LeaseLabels
<1>6. PaidRow'
  BY PaymentOrderAssumption DEF PaidRow, PaidStatuses, Progress
<1>7. QED BY <1>1, <1>2, <1>3, <1>4, <1>5, <1>6

LEMMA ReloadLeaseStep ==
    ASSUME IInv, NEW w \in Workers, ReloadLease(w)
    PROVE  IInv'
<1> USE DEF IInv, TypeOK, TableType, WorkerType, RowType, ReloadLease, Return,
           rowVars, tableVars, workerVars, budgetVars, RebateActions
<1>1. TypeOK'
  BY ReloadLeaseType
<1>2. GrantRecorded' /\ RebateRecorded'
  BY LedgerFrame
<1>3. PaymentKnown'
  BY PaymentOrderAssumption DEF PaymentKnown, PaidLabels, LeaseLabels
<1>4. Progress'
  BY PaymentOrderAssumption DEF Progress, CompletedMeansGranted, GrantRecorded,
     PaymentKnown, PaidLabels, LeaseLabels
<1>5. Creating'
  BY PaymentOrderAssumption DEF Creating, PaymentKnown, Progress, PaidLabels, LeaseLabels
<1>6. PaidRow'
  BY PaymentOrderAssumption DEF PaidRow, PaidStatuses, Progress
<1>7. QED BY <1>1, <1>2, <1>3, <1>4, <1>5, <1>6

LEMMA LookupGrantStep ==
    ASSUME IInv, NEW w \in Workers, LookupGrant(w)
    PROVE  IInv'
<1> USE DEF IInv, TypeOK, TableType, WorkerType, RowType, LookupGrant, Goto,
           rowVars, tableVars, workerVars, budgetVars, RebateActions
<1>1. TypeOK'
  BY LookupGrantType
<1>2. GrantRecorded' /\ RebateRecorded'
  BY LedgerFrame
<1>3. PaymentKnown'
  BY PaymentOrderAssumption DEF PaymentKnown, PaidLabels, LeaseLabels
<1>4. Progress'
  BY PaymentOrderAssumption DEF Progress, CompletedMeansGranted, GrantRecorded,
     PaymentKnown, PaidLabels, LeaseLabels
<1>5. Creating'
  BY PaymentOrderAssumption DEF Creating, PaymentKnown, Progress, PaidLabels, LeaseLabels
<1>6. PaidRow'
  BY PaymentOrderAssumption DEF PaidRow, PaidStatuses, Progress
<1>7. QED BY <1>1, <1>2, <1>3, <1>4, <1>5, <1>6

LEMMA CreateCodeStep ==
    ASSUME IInv, NEW w \in Workers, CreateCode(w)
    PROVE  IInv'
<1> USE DEF IInv, TypeOK, TableType, WorkerType, RowType, CreateCode, Goto,
           rowVars, tableVars, workerVars, budgetVars, RebateActions
<1>1. TypeOK'
  BY CreateCodeType
<1>2. GrantRecorded'
  BY PaymentOrderAssumption DEF GrantRecorded
<1>3. RebateRecorded'
  BY PaymentOrderAssumption DEF RebateRecorded
<1>4. PaymentKnown'
  BY PaymentOrderAssumption DEF PaymentKnown, PaidLabels, LeaseLabels
<1>5. Progress'
  BY PaymentOrderAssumption DEF Progress, CompletedMeansGranted, GrantRecorded,
     PaymentKnown, PaidLabels, LeaseLabels
<1>6. Creating'
  BY PaymentOrderAssumption DEF Creating, PaymentKnown, Progress, PaidLabels, LeaseLabels
<1>7. PaidRow'
  BY PaymentOrderAssumption DEF PaidRow, PaidStatuses, Progress
<1>8. QED BY <1>1, <1>2, <1>3, <1>4, <1>5, <1>6, <1>7

LEMMA RedeemStep ==
    ASSUME IInv, NEW w \in Workers, Redeem(w)
    PROVE  IInv'
<1> USE DEF IInv, TypeOK, TableType, WorkerType, RowType, Redeem, Goto,
           rowVars, tableVars, workerVars, budgetVars, RebateActions
<1>1. TypeOK'
  BY RedeemType
<1>2. GrantRecorded'
  <2>1. CASE UNCHANGED <<code, credited>>
    BY <2>1 DEF GrantRecorded
  <2>2. CASE /\ code[cur[w]] = "unused"
             /\ code' = [code EXCEPT ![cur[w]] = "used"]
             /\ credited' = [credited EXCEPT ![cur[w]] = @ + 1]
    <3>1. OrderType[cur[w]] = "balance" /\ credited[cur[w]] = 0
      BY <2>2 DEF GrantRecorded, Progress
    <3>2. QED BY <2>2, <3>1 DEF GrantRecorded
  <2>3. QED BY <2>1, <2>2
<1>3. RebateRecorded'
  BY PaymentOrderAssumption DEF RebateRecorded
<1>4. PaymentKnown'
  BY PaymentOrderAssumption DEF PaymentKnown, PaidLabels, LeaseLabels
<1>5. Progress'
  BY PaymentOrderAssumption DEF Progress, CompletedMeansGranted, GrantRecorded,
     PaymentKnown, PaidLabels, LeaseLabels
<1>6. Creating'
  BY PaymentOrderAssumption DEF Creating, PaymentKnown, Progress, PaidLabels, LeaseLabels
<1>7. PaidRow'
  BY PaymentOrderAssumption DEF PaidRow, PaidStatuses, Progress
<1>8. QED BY <1>1, <1>2, <1>3, <1>4, <1>5, <1>6, <1>7

LEMMA AssignSubscriptionStep ==
    ASSUME IInv, NEW w \in Workers, AssignSubscription(w)
    PROVE  IInv'
<1> USE DEF IInv, TypeOK, TableType, WorkerType, RowType, AssignSubscription,
      WriteAudit, Goto,
           rowVars, tableVars, workerVars, budgetVars, RebateActions
<1>1. TypeOK'
  BY AssignSubscriptionType
<1>2. GrantRecorded'
  <2>1. CASE UNCHANGED <<audit, credited>>
    BY <2>1 DEF GrantRecorded
  <2>2. CASE /\ "SUBSCRIPTION_ASSIGNED" \notin audit[cur[w]]
             /\ audit' = [audit EXCEPT ![cur[w]] = @ \cup {"SUBSCRIPTION_ASSIGNED"}]
             /\ credited' = [credited EXCEPT ![cur[w]] = @ + 1]
    <3>1. OrderType[cur[w]] = "subscription" /\ credited[cur[w]] = 0
      BY <2>2 DEF GrantRecorded, Progress
    <3>2. QED BY <2>2, <3>1 DEF GrantRecorded
  <2>3. QED BY <2>1, <2>2
<1>3. RebateRecorded'
  BY PaymentOrderAssumption DEF RebateRecorded
<1>4. PaymentKnown'
  BY PaymentOrderAssumption DEF PaymentKnown, PaidLabels, LeaseLabels
<1>5. Progress'
  BY PaymentOrderAssumption DEF Progress, CompletedMeansGranted, GrantRecorded,
     PaymentKnown, PaidLabels, LeaseLabels
<1>6. Creating'
  BY PaymentOrderAssumption DEF Creating, PaymentKnown, Progress, PaidLabels, LeaseLabels
<1>7. PaidRow'
  BY PaymentOrderAssumption DEF PaidRow, PaidStatuses, Progress
<1>8. QED BY <1>1, <1>2, <1>3, <1>4, <1>5, <1>6, <1>7

LEMMA ApplyRebateStep ==
    ASSUME IInv, NEW w \in Workers, ApplyRebate(w)
    PROVE  IInv'
<1> USE DEF IInv, TypeOK, TableType, WorkerType, RowType, ApplyRebate, WriteAudit, Goto,
           rowVars, tableVars, workerVars, budgetVars, RebateActions
<1>1. TypeOK'
  BY ApplyRebateType
<1>2. GrantRecorded'
  BY PaymentOrderAssumption DEF GrantRecorded
<1>3. RebateRecorded'
  BY PaymentOrderAssumption DEF RebateRecorded
<1>4. PaymentKnown'
  BY PaymentOrderAssumption DEF PaymentKnown, PaidLabels, LeaseLabels
<1>5. Progress'
  <2>1. \A o \in Orders : audit[o] \subseteq audit'[o]
    OBVIOUS
  <2>2. CompletedMeansGranted'
    BY <2>1 DEF Progress, CompletedMeansGranted
  <2>3. pc'[w] \in {"complete", "fail"}
    OBVIOUS
  <2>4. credited[cur[w]] = 1
    BY DEF Progress
  <2>5. pc'[w] = "complete" => audit'[cur[w]] \cap RebateActions # {}
    <3>1. CASE audit[cur[w]] \cap RebateActions # {}
      BY <2>1, <3>1
    <3>2. CASE \/ "AFFILIATE_REBATE_APPLIED" \in audit'[cur[w]]
               \/ "AFFILIATE_REBATE_SKIPPED" \in audit'[cur[w]]
      BY <3>2
    <3>3. QED BY <3>1, <3>2
  <2>6. \A v \in Workers : v # w => pc'[v] = pc[v]
    OBVIOUS
  <2>7. QED BY <2>1, <2>2, <2>3, <2>4, <2>5, <2>6 DEF Progress
<1>6. Creating'
  BY PaymentOrderAssumption DEF Creating, PaymentKnown, Progress, PaidLabels, LeaseLabels
<1>7. PaidRow'
  BY PaymentOrderAssumption DEF PaidRow, PaidStatuses, Progress
<1>8. QED BY <1>1, <1>2, <1>3, <1>4, <1>5, <1>6, <1>7

LEMMA MarkCompletedStep ==
    ASSUME IInv, NEW w \in Workers, MarkCompleted(w)
    PROVE  IInv'
<1> USE DEF IInv, TypeOK, TableType, WorkerType, RowType, MarkCompleted, HoldsLease,
      SetStatus, Touch, Goto, Return,
           rowVars, tableVars, workerVars, budgetVars, RebateActions
<1>1. TypeOK'
  BY MarkCompletedType
<1>2. GrantRecorded' /\ RebateRecorded'
  BY LedgerFrame
<1>3. PaymentKnown'
  BY PaymentOrderAssumption DEF PaymentKnown, PaidLabels, LeaseLabels
<1>4. Progress'
  BY PaymentOrderAssumption DEF Progress, CompletedMeansGranted, GrantRecorded,
     PaymentKnown, PaidLabels, LeaseLabels
<1>5. Creating'
  BY PaymentOrderAssumption DEF Creating, PaymentKnown, Progress, PaidLabels, LeaseLabels
<1>6. PaidRow'
  BY PaymentOrderAssumption DEF PaidRow, PaidStatuses, Progress
<1>7. QED BY <1>1, <1>2, <1>3, <1>4, <1>5, <1>6

LEMMA MarkFailedStep ==
    ASSUME IInv, NEW w \in Workers, MarkFailed(w)
    PROVE  IInv'
<1> USE DEF IInv, TypeOK, TableType, WorkerType, RowType, MarkFailed, HoldsLease,
      SetStatus, Touch, Return,
           rowVars, tableVars, workerVars, budgetVars, RebateActions
<1>1. TypeOK'
  BY MarkFailedType
<1>2. GrantRecorded' /\ RebateRecorded'
  BY LedgerFrame
<1>3. PaymentKnown'
  BY PaymentOrderAssumption DEF PaymentKnown, PaidLabels, LeaseLabels
<1>4. Progress'
  BY PaymentOrderAssumption DEF Progress, CompletedMeansGranted, GrantRecorded,
     PaymentKnown, PaidLabels, LeaseLabels
<1>5. Creating'
  BY PaymentOrderAssumption DEF Creating, PaymentKnown, Progress, PaidLabels, LeaseLabels
<1>6. PaidRow'
  BY PaymentOrderAssumption DEF PaidRow, PaidStatuses, Progress
<1>7. QED BY <1>1, <1>2, <1>3, <1>4, <1>5, <1>6

LEMMA CrashStep ==
    ASSUME IInv, NEW w \in Workers, Crash(w)
    PROVE  IInv'
<1> USE DEF IInv, TypeOK, TableType, WorkerType, RowType, Crash,
           rowVars, tableVars, workerVars, budgetVars, RebateActions
<1>1. TypeOK'
  BY CrashType
<1>2. GrantRecorded' /\ RebateRecorded'
  BY LedgerFrame
<1>3. PaymentKnown'
  BY PaymentOrderAssumption DEF PaymentKnown, PaidLabels, LeaseLabels
<1>4. Progress'
  BY PaymentOrderAssumption DEF Progress, CompletedMeansGranted, GrantRecorded,
     PaymentKnown, PaidLabels, LeaseLabels
<1>5. Creating'
  BY PaymentOrderAssumption DEF Creating, PaymentKnown, Progress, PaidLabels, LeaseLabels
<1>6. PaidRow'
  BY PaymentOrderAssumption DEF PaidRow, PaidStatuses, Progress
<1>7. QED BY <1>1, <1>2, <1>3, <1>4, <1>5, <1>6

LEMMA PayStep ==
    ASSUME IInv, NEW o \in Orders, Pay(o)
    PROVE  IInv'
<1> USE DEF IInv, TypeOK, TableType, WorkerType, RowType, Pay,
           rowVars, tableVars, workerVars, budgetVars, RebateActions
<1>1. TypeOK'
  BY PayType
<1>2. GrantRecorded' /\ RebateRecorded'
  BY LedgerFrame
<1>3. PaymentKnown'
  BY PaymentOrderAssumption DEF PaymentKnown, PaidLabels, LeaseLabels
<1>4. Progress'
  BY PaymentOrderAssumption DEF Progress, CompletedMeansGranted, GrantRecorded,
     PaymentKnown, PaidLabels, LeaseLabels
<1>5. Creating'
  BY PaymentOrderAssumption DEF Creating, PaymentKnown, Progress, PaidLabels, LeaseLabels
<1>6. PaidRow'
  BY PaymentOrderAssumption DEF PaidRow, PaidStatuses, Progress
<1>7. QED BY <1>1, <1>2, <1>3, <1>4, <1>5, <1>6

LEMMA TimeoutStep ==
    ASSUME IInv, NEW o \in Orders, Timeout(o)
    PROVE  IInv'
<1> USE DEF IInv, TypeOK, TableType, WorkerType, RowType, Timeout,
           rowVars, tableVars, workerVars, budgetVars, RebateActions
<1>1. TypeOK'
  BY TimeoutType
<1>2. GrantRecorded' /\ RebateRecorded'
  BY LedgerFrame
<1>3. PaymentKnown'
  BY PaymentOrderAssumption DEF PaymentKnown, PaidLabels, LeaseLabels
<1>4. Progress'
  BY PaymentOrderAssumption DEF Progress, CompletedMeansGranted, GrantRecorded,
     PaymentKnown, PaidLabels, LeaseLabels
<1>5. Creating'
  BY PaymentOrderAssumption DEF Creating, PaymentKnown, Progress, PaidLabels, LeaseLabels
<1>6. PaidRow'
  BY PaymentOrderAssumption DEF PaidRow, PaidStatuses, Progress
<1>7. QED BY <1>1, <1>2, <1>3, <1>4, <1>5, <1>6

LEMMA AgeStep ==
    ASSUME IInv, NEW o \in Orders, Age(o)
    PROVE  IInv'
<1> USE DEF IInv, TypeOK, TableType, WorkerType, RowType, Age,
           rowVars, tableVars, workerVars, budgetVars, RebateActions
<1>1. TypeOK'
  BY AgeType
<1>2. GrantRecorded' /\ RebateRecorded'
  BY LedgerFrame
<1>3. PaymentKnown'
  BY PaymentOrderAssumption DEF PaymentKnown, PaidLabels, LeaseLabels
<1>4. Progress'
  BY PaymentOrderAssumption DEF Progress, CompletedMeansGranted, GrantRecorded,
     PaymentKnown, PaidLabels, LeaseLabels
<1>5. Creating'
  BY PaymentOrderAssumption DEF Creating, PaymentKnown, Progress, PaidLabels, LeaseLabels
<1>6. PaidRow'
  BY PaymentOrderAssumption DEF PaidRow, PaidStatuses, Progress
<1>7. QED BY <1>1, <1>2, <1>3, <1>4, <1>5, <1>6

-----------------------------------------------------------------------------
(* The invariant and what follows from it *)

\* The invariant holds initially, while nothing happens, and after every step.
LEMMA InitIInv == Init => IInv
<1> SUFFICES ASSUME Init PROVE IInv
  OBVIOUS
<1> USE PaymentOrderAssumption DEF Init
<1>1. TypeOK
  BY DEF TypeOK, RowType, TableType, WorkerType, BudgetType, Statuses, Labels, Jobs
<1>2. GrantRecorded /\ RebateRecorded
  BY DEF GrantRecorded, RebateRecorded, RebateActions
<1>3. PaymentKnown
  BY DEF PaymentKnown, PaidLabels, LeaseLabels
<1>4. Progress /\ Creating /\ PaidRow
  BY DEF Progress, Creating, PaidRow, CompletedMeansGranted
<1>5. QED BY <1>1, <1>2, <1>3, <1>4 DEF IInv

LEMMA StutterIInv == ASSUME IInv, UNCHANGED vars PROVE IInv'
  BY DEF IInv, TypeOK, RowType, TableType, WorkerType, BudgetType, GrantRecorded,
         RebateRecorded, PaymentKnown, Progress, Creating, PaidRow, CompletedMeansGranted,
         vars, rowVars, tableVars, workerVars, budgetVars

LEMMA NextIInv == IInv /\ [Next]_vars => IInv'
<1> SUFFICES ASSUME IInv, [Next]_vars PROVE IInv'
  OBVIOUS
<1>1. ASSUME NEW w \in Workers, Work(w) PROVE IInv'
  BY <1>1, InvokeProviderStep, QueryOrderStep, PersistTradeNoStep, CancelUpstreamStep,
     CloseOrderStep, RejectMismatchStep, ConfirmPaymentStep, ToPaidStep,
     AlreadyProcessedStep, ExecuteFulfillmentStep, AcquireLeaseStep, ReloadLeaseStep,
     LookupGrantStep, CreateCodeStep, RedeemStep, AssignSubscriptionStep,
     ApplyRebateStep, MarkCompletedStep, MarkFailedStep
  DEF Work
<1>2. ASSUME NEW w \in Workers, Crash(w) PROVE IInv'
  BY <1>2, CrashStep
<1>3. ASSUME NEW w \in Workers, NEW o \in Orders, Begin(w, o) PROVE IInv'
  BY <1>3, CreateOrderStep, StartCheckStep, SweepStep, WebhookStep, RetryFulfillmentStep
  DEF Begin
<1>4. ASSUME NEW o \in Orders, Environment(o) PROVE IInv'
  BY <1>4, PayStep, TimeoutStep, AgeStep DEF Environment
<1>5. QED BY <1>1, <1>2, <1>3, <1>4, StutterIInv DEF Next

\* IInv holds in every reachable state of the order lifecycle.
THEOREM Invariance == Spec => []IInv
  BY InitIInv, NextIInv, PTL DEF Spec

\* No operation stores a status, or sends a worker to a step, that is unknown.
THEOREM TypeCorrect == Spec => []TypeOK
<1>1. IInv => TypeOK
  BY DEF IInv
<1>2. QED BY <1>1, Invariance, PTL

\* It implies the safety invariants that the runs check.
LEMMA IInvImplies == IInv => GrantedAtMostOnce /\ NoGrantWithoutPayment /\ CompletedMeansGranted
<1> SUFFICES ASSUME IInv PROVE GrantedAtMostOnce /\ NoGrantWithoutPayment /\ CompletedMeansGranted
  OBVIOUS
<1>1. GrantedAtMostOnce
  BY DEF IInv, GrantedAtMostOnce, GrantRecorded, RebateRecorded
<1>2. NoGrantWithoutPayment
  BY DEF IInv, NoGrantWithoutPayment, GrantRecorded, RebateRecorded, PaymentKnown,
     RebateActions
<1>3. CompletedMeansGranted
  BY DEF IInv, Progress
<1>4. QED BY <1>1, <1>2, <1>3

\* Value and rebate of an order are granted at most once, through duplicate
\* notifications, lapsed leases, crashes and retries.
THEOREM GrantedOnce == Spec => []GrantedAtMostOnce
  BY Invariance, IInvImplies, PTL

\* Value is granted only for an order whose money is at the provider, whichever of
\* webhook, sweep, cancel or verification brought the news.
THEOREM GrantPaidFor == Spec => []NoGrantWithoutPayment
  BY Invariance, IInvImplies, PTL

\* An order is COMPLETED only when its grant was decided and its rebate was, so the
\* retries that stop at COMPLETED forget nothing.
THEOREM CompletedGranted == Spec => []CompletedMeansGranted
  BY Invariance, IInvImplies, PTL

\* What a step may do to the settled orders.
Settles ==
    \A o \in Orders :
        /\ paidAt[o] => paidAt'[o]
        /\ status[o] = "COMPLETED" => status'[o] = "COMPLETED"

\* Every step respects them.
LEMMA StepSettles == IInv /\ [Next]_vars => Settles
<1> SUFFICES ASSUME IInv, [Next]_vars PROVE Settles
  OBVIOUS
<1> USE DEF IInv, TypeOK, RowType, TableType, WorkerType, Settles, rowVars
<1>1. CASE UNCHANGED <<status, paidAt>>
  BY <1>1
<1>2. ASSUME NEW w \in Workers, NEW o \in Orders, CreateOrder(w, o) PROVE Settles
  BY <1>2 DEF CreateOrder, SetStatus
<1>3. ASSUME NEW w \in Workers, InvokeProvider(w) PROVE Settles
  BY <1>3 DEF InvokeProvider, SetStatus, Progress
<1>4. ASSUME NEW w \in Workers, CloseOrder(w) PROVE Settles
  BY <1>4 DEF CloseOrder, SetStatus
<1>5. ASSUME NEW w \in Workers, ToPaid(w) PROVE Settles
  BY <1>5 DEF ToPaid, Payable, SetStatus
<1>6. ASSUME NEW w \in Workers, AcquireLease(w) PROVE Settles
  BY <1>6 DEF AcquireLease, Claimable, SetStatus
<1>7. ASSUME NEW w \in Workers, MarkCompleted(w) PROVE Settles
  BY <1>7 DEF MarkCompleted, HoldsLease, SetStatus
<1>8. ASSUME NEW w \in Workers, MarkFailed(w) PROVE Settles
  BY <1>8 DEF MarkFailed, HoldsLease, SetStatus
<1>9. ASSUME NEW w \in Workers, Work(w) PROVE Settles
  BY <1>1, <1>3, <1>4, <1>5, <1>6, <1>7, <1>8, <1>9
  DEF Work, QueryOrder, PersistTradeNo, CancelUpstream, RejectMismatch, ConfirmPayment,
      AlreadyProcessed, ExecuteFulfillment, ReloadLease, LookupGrant, CreateCode, Redeem,
      AssignSubscription, ApplyRebate
<1>10. ASSUME NEW w \in Workers, NEW o \in Orders, Begin(w, o) PROVE Settles
  BY <1>1, <1>2, <1>10 DEF Begin, StartCancel, StartVerify, Sweep, Webhook, RetryFulfillment
<1>11. QED
  BY <1>1, <1>9, <1>10 DEF Next, Crash, Environment, Pay, Timeout, Age, vars

\* No step of cancelCore, toPaid, a lease or markFailed takes a paid order back to
\* an unpaid status or a completed order out of COMPLETED.
THEOREM Settled == Spec => SettledNeverReverts
<1>1. IInv' /\ Settles => \A o \in Orders :
        /\ paidAt[o] => status'[o] \in PaidStatuses
        /\ status[o] = "COMPLETED" => status'[o] = "COMPLETED"
  BY DEF IInv, PaidRow, Settles
<1>2. QED BY <1>1, Invariance, StepSettles, PTL DEF Spec, SettledNeverReverts

-----------------------------------------------------------------------------
(* PaymentOrder implements PaymentPromise *)

\* The initial states are initial states of the promise.
LEMMA InitPromise == Init => Promise!Init
  BY DEF Init, Promise!Init

\* A step that leaves the provider's paid orders, the grants and the completed
\* orders alone is a stutter of the promise.
LEMMA PromiseStutter ==
    ASSUME IInv, UNCHANGED credited,
           \A o \in Orders : gateway[o] = "paid" <=> gateway'[o] = "paid",
           \A o \in Orders : status[o] = "COMPLETED" <=> status'[o] = "COMPLETED"
    PROVE  UNCHANGED Promise!promiseVars
  BY DEF Promise!promiseVars

\* A step keeps the promise, or does not concern it.
LEMMA StepPromise == IInv /\ IInv' /\ [Next]_vars => [Promise!Next]_(Promise!promiseVars)
<1> DEFINE Goal == [Promise!Next]_(Promise!promiseVars)
<1> SUFFICES ASSUME IInv, IInv', [Next]_vars PROVE Goal
  OBVIOUS
<1> USE DEF IInv, TypeOK, RowType, TableType, WorkerType, rowVars, tableVars
<1>1. CASE UNCHANGED <<status, gateway, credited>>
  BY <1>1 DEF Promise!promiseVars
<1>2. ASSUME NEW w \in Workers, NEW o \in Orders, CreateOrder(w, o) PROVE Goal
  BY <1>2, PromiseStutter DEF CreateOrder, SetStatus
<1>3. ASSUME NEW w \in Workers, InvokeProvider(w) PROVE Goal
  BY <1>3, PromiseStutter DEF InvokeProvider, SetStatus, Progress
<1>4. ASSUME NEW w \in Workers, CancelUpstream(w) PROVE Goal
  BY <1>4, PromiseStutter DEF CancelUpstream
<1>5. ASSUME NEW w \in Workers, CloseOrder(w) PROVE Goal
  BY <1>5, PromiseStutter DEF CloseOrder, SetStatus
<1>6. ASSUME NEW w \in Workers, ToPaid(w) PROVE Goal
  BY <1>6, PromiseStutter DEF ToPaid, Payable, SetStatus
<1>7. ASSUME NEW w \in Workers, AcquireLease(w) PROVE Goal
  BY <1>7, PromiseStutter DEF AcquireLease, Claimable, SetStatus
<1>8. ASSUME NEW w \in Workers, MarkFailed(w) PROVE Goal
  BY <1>8, PromiseStutter DEF MarkFailed, HoldsLease, SetStatus
<1>9. ASSUME NEW w \in Workers, Redeem(w) PROVE Goal
  <2>1. CASE UNCHANGED credited
    BY <1>1, <1>9, <2>1 DEF Redeem
  <2>2. CASE /\ code[cur[w]] = "unused"
             /\ credited' = [credited EXCEPT ![cur[w]] = @ + 1]
    <3>1. PICK o \in Orders : o = cur[w]
      OBVIOUS
    <3>2. credited[o] = 0 /\ gateway[o] = "paid"
      BY <1>9, <2>2, <3>1 DEF Redeem, GrantRecorded, Progress, PaymentKnown,
         PaidLabels, LeaseLabels
    <3>3. Promise!Grant(o)
      BY <1>9, <2>2, <3>1, <3>2 DEF Redeem, Promise!Grant
    <3>4. QED BY <3>3 DEF Promise!Next
  <2>3. QED BY <1>9, <2>1, <2>2 DEF Redeem
<1>10. ASSUME NEW w \in Workers, AssignSubscription(w) PROVE Goal
  <2>1. CASE UNCHANGED credited
    BY <1>1, <1>10, <2>1 DEF AssignSubscription
  <2>2. CASE /\ "SUBSCRIPTION_ASSIGNED" \notin audit[cur[w]]
             /\ credited' = [credited EXCEPT ![cur[w]] = @ + 1]
    <3>1. PICK o \in Orders : o = cur[w]
      OBVIOUS
    <3>2. credited[o] = 0 /\ gateway[o] = "paid"
      BY <1>10, <2>2, <3>1 DEF AssignSubscription, GrantRecorded, Progress, PaymentKnown,
         PaidLabels, LeaseLabels
    <3>3. Promise!Grant(o)
      BY <1>10, <2>2, <3>1, <3>2 DEF AssignSubscription, Promise!Grant
    <3>4. QED BY <3>3 DEF Promise!Next
  <2>3. QED BY <1>10, <2>1, <2>2 DEF AssignSubscription
<1>11. ASSUME NEW w \in Workers, MarkCompleted(w) PROVE Goal
  <2>1. CASE UNCHANGED status
    BY <1>1, <1>11, <2>1 DEF MarkCompleted
  <2>2. CASE HoldsLease(w) /\ status' = [status EXCEPT ![cur[w]] = "COMPLETED"]
    <3>1. PICK o \in Orders : o = cur[w]
      OBVIOUS
    <3>2. Promise!Complete(o)
      BY <1>11, <2>2, <3>1 DEF MarkCompleted, HoldsLease, Progress, Promise!Complete
    <3>3. QED BY <3>2 DEF Promise!Next
  <2>3. QED BY <1>11, <2>1, <2>2 DEF MarkCompleted, SetStatus
<1>12. ASSUME NEW o \in Orders, Pay(o) PROVE Goal
  <2>1. Promise!Pay(o)
    BY <1>12 DEF Pay, Promise!Pay
  <2>2. QED BY <2>1 DEF Promise!Next
<1>13. ASSUME NEW w \in Workers, Work(w) PROVE Goal
  BY <1>1, <1>3, <1>4, <1>5, <1>6, <1>7, <1>8, <1>9, <1>10, <1>11, <1>13
  DEF Work, QueryOrder, PersistTradeNo, RejectMismatch, ConfirmPayment,
      AlreadyProcessed, ExecuteFulfillment, ReloadLease, LookupGrant, CreateCode,
        ApplyRebate
<1>14. ASSUME NEW w \in Workers, NEW o \in Orders, Begin(w, o) PROVE Goal
  BY <1>1, <1>2, <1>14 DEF Begin, StartCancel, StartVerify, Sweep, Webhook, RetryFulfillment
<1>15. QED
  BY <1>1, <1>12, <1>13, <1>14 DEF Next, Crash, Environment, Timeout, Age, vars

\* The whole machinery of notifications, leases and codes implements the promise:
\* pay, then grant once, then complete.
THEOREM Refinement == Spec => KeepsPromise
  BY Invariance, InitPromise, StepPromise, PTL DEF Spec, KeepsPromise, Promise!Spec

=============================================================================
