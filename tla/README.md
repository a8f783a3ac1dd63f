# TLA+ specifications of xiass-api

xiass-api is a gateway that sells access to AI providers: users top up a
balance or buy subscriptions, requests are scheduled onto pooled upstream
accounts, and every request is billed. This directory holds TLA+ models of its
stateful core, the TLC configurations that check them on small instances, and
TLAPS proofs that hold for every instance. Paths below are relative to
`src/backend/internal/` unless they start with `docs/` or `src/`.

## Inventory

| Component | State | Operations | What makes it hard | What makes it correct |
|---|---|---|---|---|
| Payment orders and fulfilment (`service/payment_fulfillment.go`, `payment_order_lifecycle.go`, `payment_order_expiry_service.go`, `payment_order.go`) | `payment_orders`, `payment_audit_logs`, `redeem_codes`, the payment at the provider | create, webhook, reconcile, expire, cancel, verify, retry, lease, grant, rebate, complete, fail | handlers and jobs interleave on one row; a lease of five minutes; crashes between transactions; notifications that are repeated, late or lost | value granted once, only against money; COMPLETED only after the grant; a paid order is settled |
| Refunds (`service/payment_refund.go`) | the same rows, `users.balance`, the refund at the provider | request, plan, execute, roll back, mark pending, query and finalise | lost provider answers, failing rollbacks, two administrators, plans made from stale data | money returned once, balance restored when undone, REFUNDED only after the money |
| Redeem codes (`service/redeem_service.go`) | `redeem_codes`, `users.balance`, a Redis lock | create, redeem | lock expiry, concurrent redeemers | a code is used once |
| Idempotent requests (`service/idempotency.go`, `repository/idempotency_repo.go`) | `idempotency_records` | claim, reclaim, replay, mark succeeded or failed, clean up | decisions made from an earlier read, crashes before the outcome is stored, retry of a failed request | one effect per key and lifetime of the record; replay returns what was stored |
| System operation lock (`service/system_operation_lock_service.go`, `handler/admin/system_handler.go`) | one row of `idempotency_records`, a renewal goroutine per holder | acquire, renew, release | leases against operations of many minutes, late renewals and releases | one update, rollback or restart at a time |
| Concurrency slots (`service/concurrency_service.go`, `repository/concurrency_cache.go`, `handler/gateway_helper.go`) | Redis sorted sets of slots and of Live leases per user and account; wait counters | acquire, wait, release, lease, expiry, cleanup | slots of crashed processes, lost answers, counters that fail open, a lease that replaces a slot | limit never exceeded; every slot comes back |
| Live calls (`service/openai_live.go`, `repository/gateway_cache.go`, `handler/openai_live.go`) | the call's record in Redis with its controller, a lease, one goroutine per observer or proxy | create, observe, take over, hand back, refresh, finalise | control passes between goroutines and instances, dials and reads fail, leases lapse | one proxy; somebody watches; closed and logged once |
| Usage billing (`service/usage_billing.go`, `billing_cache_service.go`, `repository/usage_billing_repo.go`) | balances, quotas, dedup rows, caches | charge, cache update, flush | repeated charge of one request, caches behind the database | each request charged once; caches converge |
| Batch image jobs (`service/batch_image_*.go`, `repository/batch_image_*.go`) | job rows, balance holds with dedup rows, Redis queue (list, delayed and active sets, in-flight key), job lock, the job at the provider | submit, cancel, recover, reserve, poll, index, settle, requeue | leases, crashes between hold and settlement, cancel against submit, lost answers | hold charged or returned once, charged exactly when completed; a job never leaves the queue unfinished |
| OAuth token refresh (`service/oauth_refresh_api.go`, `token_refresh_service.go`, token providers, `repository/gemini_token_cache.go`) | account credentials and status, Redis refresh lock, cached access token, a mutex per instance, the refresh token at the provider | refresh, recover, disable, cache, invalidate, re-authorise | refresh tokens good for one use, lost answers, a lock without owner, writes after the lock is gone | healthy accounts stay enabled; the cache follows the row; a re-authorisation survives |
| Scheduler snapshot and outbox (`service/scheduler_snapshot_service.go`, `repository/scheduler_outbox_repo.go`, `scheduler_cache.go`) | outbox table with dedup keys, watermark, Redis buckets with epoch, versions and retired mark, rebuild locks, lifecycle leases | enqueue, poll, rebuild, publish, retire, reopen, clean up | lost or suppressed events, three kinds of publishers racing, groups that go and come back | no snapshot of a retired generation; announced changes are read; snapshots catch up with the database |
| User message queue, websocket pool, stream circuit breaker, auth cache outbox, usage worker pool, leader lock, subscriptions, affiliate rebates, sessions | in memory, Redis or tables of their own | acquire, release, expire, publish | timeouts racing releases, bounded queues | mutual exclusion, no lost work |
| Gateway forwarding, format conversion, provider adapters, monitoring, moderation, plugins, backup, handlers, frontend | - | - | data and I/O | not modelled: see the end |

How they meet: a webhook or the sweep calls `HandlePaymentNotification`, which
leads through `toPaid` to the fulfilment; fulfilment redeems a code
(`redeem_service.go`), which adds to `users.balance`, or extends a
subscription, and accrues an affiliate rebate; a refund takes the balance back
and calls the provider. The provider is the other party: it is called
synchronously (create, query, cancel, refund) and calls back asynchronously.
A gateway request takes a slot of its user and of the account it is scheduled
on, reads the account's access token from the cache or the token provider
(which may refresh it), and gives the slots back when it ends. A Live call
exchanges its slots for a lease, which its observer and proxies refresh; a
batch image job moves part of the user's balance into `frozen_balance`, goes
through the Redis queue and is settled by the workers. Which accounts a request
may be scheduled on it reads from a bucket in Redis: whoever changes an account
or a group leaves a row in the scheduler outbox, whose worker rebuilds the
buckets, and a full rebuild every five minutes makes up for what the outbox
missed. A rate limit, a token refresh and the billing of usage are among those writers.

## Modules

| Module | Role |
|---|---|
| `PaymentPromise` | abstract specification: an order is paid, then granted once, then completed |
| `PaymentOrder` | life of an order up to its fulfilment; implements `PaymentPromise` |
| `MCPaymentOrder` | instances of `PaymentOrder` for TLC |
| `PaymentOrderProofs` | theorems about `PaymentOrder` with their proofs |
| `PaymentRefund` | refund of a completed balance order |
| `MCPaymentRefund` | instances of `PaymentRefund` for TLC |
| `PaymentRefundProofs` | theorems about it with their proofs |
| `IdempotencyStore` | the SQL statements on one row of `idempotency_records`, as functions of the row |
| `SystemOperationLock` | the lock around update, rollback and restart, built on `IdempotencyStore` |
| `MCSystemOperationLock` | instances of it for TLC |
| `SystemOperationLockProofs` | theorems about the lock with their proofs |
| `Idempotency` | `IdempotencyCoordinator.Execute` for one key, built on `IdempotencyStore` |
| `MCIdempotency` | instances of it for TLC |
| `IdempotencyProofs` | theorems about it with their proofs |
| `HoldPromise` | abstract specification: an amount set aside is charged in part or returned, once |
| `BatchImage` | one batch image job: row, hold, queue, lock, provider; implements `HoldPromise` |
| `MCBatchImage` | instances of it for TLC |
| `BatchImageProofs` | theorems about it with their proofs |
| `LiveCall` | one Live call: lease, record, observers and proxies |
| `MCLiveCall` | instances of it for TLC |
| `LiveCallProofs` | theorems about it and about `ConcurrencySlots` with their proofs |
| `SlotBooks` | keys and requests of one user or account, and what they owe each other |
| `ConcurrencySlots` | slots, wait queue and Live leases of one user or account |
| `MCConcurrencySlots` | instances of it for TLC |
| `OAuthRefresh` | credentials of one account: refreshers, requests, administrator |
| `MCOAuthRefresh` | instances of it for TLC |
| `OAuthRefreshProofs` | theorems about it with their proofs |
| `SchedulerSnapshot` | from a change in the database through outbox, rebuild and epoch to the snapshot that is served |
| `MCSchedulerSnapshot` | instances of it for TLC |
| `SchedulerSnapshotProofs` | theorems about it with their proofs |

`IdempotencyStore` is composed into two modules. `LiveCall` and
`ConcurrencySlots` meet at the lease: `LiveCall` takes "there is room" as
given and follows the call through its life, `ConcurrencySlots` follows the
lease among everybody else's entries and takes the call's end as given.

### PaymentOrder

A *worker* is a request handler or a job running one operation on one order:
`pc` is its next step, `cur` its order, `job` the operation, `lease` the version
it remembers. One step is one SQL statement or transaction, or one provider
call, so workers interleave exactly between those.

| State | Code |
|---|---|
| `status`, `due`, `paidAt` | columns `status`, `expires_at < now`, `paid_at` of `payment_orders` |
| `ver`, `aged` | `updated_at`: its identity (leases compare it for equality) and whether it is more than five minutes old (lease length, and grace period after expiry) |
| `audit` | actions in `payment_audit_logs`, a set because of the unique index on `(order_id, action)` (migration 131) |
| `code` | the `redeem_codes` row of the order's recharge code |
| `credited`, `rebated` | ghost counters: additions to the balance or the subscription, and to the inviter |
| `gateway`, `acked` | the payment at the provider; the provider got a 2xx |

| Actions | Code |
|---|---|
| `CreateOrder`, `InvokeProvider` | `createOrderInTx`, `invokeProvider` and the FAILED write of `CreateOrder` |
| `StartCancel`, `StartVerify`, `Sweep` | `CancelOrder`/`AdminCancelOrder`, `VerifyOrderByOutTradeNo`, the two halves of `runOnce` |
| `QueryOrder`, `PersistTradeNo`, `CancelUpstream`, `CloseOrder` | `checkPaidWithOptions`, `cancelCore` |
| `Webhook`, `RejectMismatch`, `ConfirmPayment`, `ToPaid`, `AlreadyProcessed` | `HandlePaymentNotification`, `confirmPayment`, `toPaid`, `alreadyProcessed`; `Return` is the handler's answer |
| `RetryFulfillment`, `ExecuteFulfillment`, `AcquireLease`, `ReloadLease` | `RetryFulfillment`, `executeFulfillment`, `acquirePaymentFulfillmentLease` |
| `LookupGrant`, `CreateCode`, `Redeem`, `AssignSubscription`, `ApplyRebate` | `doBalance`/`doSub`, `CreateCode`, `redeem`, `ensurePaymentSubscriptionAssigned`, `applyAffiliateRebateForOrder` |
| `MarkCompleted`, `MarkFailed` | `markCompleted`, `markFailed` |
| `Pay`, `Timeout`, `Age`, `Crash` | environment: the user, the clock, process exit |

`Fault` is a statement or provider call that fails. `Crash` ends a worker
between two steps. `Age` under a worker that still needs the five minutes is
bounded by `MaxSlow`.

Simplifications: the provider call of `invokeProvider` and the update after it
are one step, because the user cannot pay before the response carries the
payment page; the order has an amount above zero and the affiliate service is
configured, so the rebate is always decided; a group that is no longer active
is one of the faults of `LookupGrant`; the Redis lock of `redeem` is part of
its faults, since the transaction is guarded by the code's status anyway.

### PaymentRefund

One order, completed and credited, and several administrators. `plan` is the
`RefundPlan` (what to deduct, the status it was made from, whether the
deduction was given back); `pendingLog`, `rollbackFailed` and `successLog` are
the audit rows that later requests read back; `upstream` and `paidBack` are the
refund at the provider; `deducted` and `unrolled` are ghosts, one per worker:
what its attempts have taken from the user and not given back, and how much of
that failed rollbacks left behind. A query that finalises a refund deducts on
the entry of its own worker.

| Actions | Code |
|---|---|
| `RequestRefund`, `PrepareRefund` | `RequestRefund`, `PrepareRefund` with `prepDeduct` |
| `ClaimRefund`, `DeductBalance`, `GatewayRefund` | `ExecuteRefund`, `gwRefund`, `finishRefund` |
| `MarkRefundOk`; `RollbackPending`, `MarkRefundPending`, `LogRefundPending`; `HandleGwFail`, `RestoreStatus`, `MarkRefundFailed` | `markRefundOk`; `markRefundPending`; `handleGwFail`, `restoreStatus`, `finalizeRefundFailed` |
| `StartQuery`, `ReadPendingDetail`, `QueryRefund`, `FinalizeOk` | `QueryAndFinalizeRefund`, `latestRefundPendingDetail`, `finalizePendingRefundSuccess` |
| `SettleUpstream`, `Spend`, `Crash` | the provider decides a pending refund; the user spends; a process exits |

`provider` is the kind of provider the order was paid with, chosen at the
start: "keyed" ones have refund requests with a key made of order and amount,
so that they recognise a repeated one, and `QueryRefund` (Stripe, Airwallex,
WeChat Pay); "plain" ones have neither (Alipay, whose requests carry the time,
and EasyPay). Simplifications: every attempt refunds the same amount, the order
has a trade number (without one `gwRefund` skips the provider), and the balance
is not below zero at the start. `users.total_recharged` is left out.

### IdempotencyStore, SystemOperationLock, Idempotency

`IdempotencyStore` has one operator per statement of `idempotency_repo.go`. A
row is `id`, `fp` (`request_fingerprint`), `status`, `body` (which execution's
response is stored), `lock` (`locked_until`, 0 for NULL) and `exp`
(`expires_at`).

Both models have a clock, and each request reads it once before its first call
(`start`) and uses that value in all of them, as the code does. `Tick` waits for
whoever has no time left (`HasTime`): a sequence of store calls takes at most
`CallTime`, an operation `RunTime` or `ExecTime`, and a renewal that is due is
sent. A process that stalls longer than that is outside the models; one that
stops is `Crash`.

`SystemOperationLock`: `pc` is where a request is in Acquire, its operation and
Release; `owner` is the variable of that name in Acquire; `loop`, `due` and
`issued` are the renewal goroutine, its ticker and the call it is in.

| Actions | Code |
|---|---|
| `Acquire`, `CreateProcessing`, `CreateConflicts`, `GetExisting`, `TryReclaim`, `AcquireFails` | `Acquire` |
| `Renew`, `Renewed`, `RenewFails`, `LoopStops` | `renewLoop` |
| `StartRelease`, `Release` | the deferred `release` of `system_handler.go`, `Release` |
| `CleanupOnce`, `Crash`, `Tick` | cleanup job, process exit, time |

`Idempotency`: `seen` is the record as a request last read it, `effects` a
ghost set of the executions that succeeded.

| Actions | Code |
|---|---|
| `Execute`, `CreateProcessing`, `CreateConflicts`, `ReadExisting`, `ReclaimExpired`, `ReadLatest`, `ReclaimFailed`, `StoreFails` | the claim in `Execute`, one action per store call |
| `ExecSucceeds`, `ExecFails` | the call of `execute` |
| `StoreSuccess`, `StoreFailure` | the marks after it |
| `Renew` | a tick of `renewProcessingLease` |
| `CleanupOnce`, `Crash`, `Tick` | cleanup job, process exit, time |

Simplifications: a function that fails has had no effect; the answer's text and
Retry-After are left out; a renewal in `Idempotency` is one step (it is
cancelled before `Execute` returns); metrics are left out. Redaction of stored
responses is not modelled: a replay is the stored response, not the original.

### BatchImage, HoldPromise

A process is the request that submits the job (`"submit"`), a repetition of it
with the same idempotency key, a cancel, the recovery sweep, or a worker.

| State | Code |
|---|---|
| `status`, `named`, `retries` | the row of `batch_image_jobs`; `named`: `provider_job_name` is set |
| `balance`, `frozen`, `held`, `captured`, `released` | `users.balance`, `users.frozen_balance` (shared with the user's other jobs, `Others`), and the dedup rows of hold, capture and release |
| `ready`, `delayed`, `active`, `inflight`, `lock` | the Redis queue: entries of this job in the list, membership of the two sorted sets, the in-flight key, the job lock |
| `upstream`, `output` | the job at the provider and what it will deliver |

| Actions | Code |
|---|---|
| `CreateJob`, `ReserveHold`, `CreateItems`, `StartUpload`, `SubmitUpstream`, `RecordProviderJob`, `EnqueueSubmitted`; `AbortOrphan`, `ReturnHold`, `MarkSubmitFailed` | `Submit` and its failure paths |
| `ReadSubmitted`, `EnqueueAgain`; `CancelRead`, `CancelUpstream`, `CancelJob`, `CancelRelease`; `DeleteOutput` | the repeated submit; `Cancel`; deletion of the output |
| `FailStale`, `SweepRelease`, `EnqueueRetry` | `ReleaseStaleUnsubmittedOnce` |
| `Reserve`, `TryLock`, `RequeueAfter`, `Ack`, `Unlock` | `RunOnce` |
| `ReadForPipeline`, `ReadForProvider`, `GetUpstream`, `MarkRunning`, `MarkIndexing`, `IndexOutput`, `MarkSettling`, `MarkFailed`, `MarkCancelled`, `ReleaseTerminalHold` | the pipeline processor and the provider processor |
| `StartSettle`, `CaptureHold`, `RecordFailure`, `ReleaseExhausted`, `RecordReleaseFailure`, `FailExhausted`, `MarkSettled`, `ReadAfterSettle` | `Settle` |
| `MoveDueDelayed`, `RecoverStaleActive`, `LockExpires` | the queue's loops, the lock's TTL |
| `UpstreamEnds`, `Crash` | the provider, process exit |

`Failable` names the steps that may fail, `Stoppable` those after which a
process may stop, `Slippable` the leases that may run out under a live holder:
the submit's heartbeat (`"submit"`), the entry in the active set (`"entry"`),
the job lock (`"lock"`). Without a slip they run out only when nobody is left
to refresh them. Simplifications: provider states "queued" and "running" are
one; saving the provider's output reference is part of `GetUpstream`; the size
and price of the images are `Actual`, and an output that costs more than the
hold is `"unbillable"`. Hiding a job that failed before the provider had it is left out:
whether anybody still cancels it is open. A step that fails leaves no trace, but for
the calls that move money: `ReserveHold`, `CaptureHold` and the releases may have
been committed with their answer lost. `unanswered` is history: the reserve was
such a one.

### LiveCall

`pc["creator"]` is the request that creates the call and then its observer;
each client is one sideband connection, which leaves an observer behind.

| State | Code |
|---|---|
| `controller`, `owner` | the fields of `live:call:<hash>` |
| `lease`, `expired` | the lease in the sorted sets; `ExpiresAt` has passed |
| `upstream`, `logs` | the session at the provider; usage logs written |

| Actions | Code |
|---|---|
| `AcquireLease`, `CreateUpstream`, `GiveUp`, `SaveLiveCall` | `CreateLiveCall` |
| `Claim`, `Observe`, `Dial`, `Retry`, `WakeUp`, `PollController` | `observeLiveCall`, `runLiveObserverConnection`, `waitForLiveObserverRetry`, `finalizeLiveCallAfterExpiry` |
| `Join`, `TakeOver`, `ProxyDial`, `ReleaseController` | `LiveSideband`, `ProxyLiveSideband` |
| `Disconnect`, `SessionEnded`, `SessionTimesOut`, `Refresh` | `runLiveController`, `liveSessionEnded`, `refreshLiveLease` |
| `MarkClosed`, `ReleaseLease`, `WriteUsageLog` | `finalizeLiveCall` |
| `LeaseExpires`, `Expire`, `UpstreamEnds` | time, the provider |

A connection that has lasted for one refresh keeps the lease alive (`Steady`);
one that breaks before may find it gone. A proxy whose dial failed (`"undialed"`)
leaves an observer behind even after `ExpiresAt`, which then finalises.
Simplifications: frames are not modelled; when another account is tried the first
lease has gone.

### ConcurrencySlots

`slots`, `live` and `waiting` are the two sorted sets and the counter of one
user or one account; the scripts of both kinds of resources are the same.
`place` is the label each request is at, `attempt` the account a Live call is
tried with. `SlotBooks` declares these and states the two safety properties,
`ConcurrencySlots` has the actions. A Live call holds a slot, takes a lease in
its place, and gives the slot back.

| Actions | Code |
|---|---|
| `TryAcquire`, `Finish`, `Release` | `AcquireUserSlot`, `wrapReleaseOnDone`, `ReleaseUserSlot` |
| `IncrementWait`, `Poll`, `GiveUpWaiting`, `DecrementWait` | `waitForSlotWithPingTimeout` between the increment and its deferred decrement |
| `AcquireLease`, `CreateUpstream`, `UndoLease`, `EndSession`, `ReleaseLive` | `acquireLiveLeaseScript` and the calls around it |
| `SlotExpires`, `LeaseExpires`, `WaitExpires`, `Crash` | TTLs and cleanup, a crash of an instance |

A call that fails may have been executed. `SlotExpires` may strike a request
that runs for longer than the TTL, because nothing renews a slot, and `LeaseExpires`
a session whose refresh comes too late and finds the lease gone: that request or
call is in `overrun` and no longer counted (`MaxOverruns`). What the forward to the
provider still does after its client has left is not counted by the code, nor
here.

### OAuthRefresh

| State | Code |
|---|---|
| `kind` | "guarded": Grok and Antigravity accounts, whose writes are conditional on the credentials the attempt began with; "plain": Anthropic, OpenAI, Gemini |
| `cred`, `due`, `status` | the row: credentials as grant, number of rotations and `_token_version`; inside the refresh window; active or error |
| `valid` | per grant, the refresh token the provider accepts |
| `cache`, `lock`, `releasing` | `oauth:token:<key>`, `oauth:refresh_lock:<key>`, who has a deferred release |
| `latest` | the last `_token_version` written: `nextOAuthTokenVersion` takes the time in milliseconds, so that every version is later than all before it |
| `held`, `attempted` | the account a request works with; `snapshotOAuthRefreshAccount` |

| Actions | Code |
|---|---|
| `FindDue`, `NeedToken` | the cycle of `TokenRefreshService`, `GetAccessToken` |
| `TryLock`, `WaitForCache`, `Reread`, `Refresh`, `Persist`, `DropCache`, `Recover`, `Release` | `RefreshIfNeeded` |
| `SetError`, `Invalidate` | `persistRefreshErrorState`, `InvalidateToken` |
| `CheckTokenVersion`, `SetAccessToken` | the end of `GetAccessToken` |
| `Reauthorise`, `ClearError` | `ApplyOAuthCredentials` |
| `ComesDue`, `CacheExpires`, `LockLapses`, `Crash` | time, process exit |

What may go wrong is one of three kinds of trouble: `"unlocked"` (the lock's
call fails, or a request outlives the lock's time), `"lost"` (an answer of the
provider or of a write, or a whole instance, is lost) and `"fruitless"` (a read
or call fails without effect). Simplifications: every provider rotates refresh
tokens that are good once; the retries of one cycle are further cycles;
cooldowns, rate gates and the scheduler's snapshot are left out; a request for
a Grok account in fact also compares a cached token with the row.

### SchedulerSnapshot

One group with one bucket and one account. Contents are counted: `account` and
`group` are the numbers of committed changes, and the group is active when its
number is even, so that each change of a group disables or enables it. A step
is one SQL statement, one Redis command or one Lua script.

| State | Code |
|---|---|
| `account`, `group` | the rows a snapshot is made from |
| `limited` | the account is in error, rate limited or paused: the queries of a rebuild (`queryAccountsByGroup`) do not return it, its snapshot is empty (`listed`), and its record is not rewritten |
| `rows`, `lastId` | `scheduler_outbox` with `dedup_key` (`keyed`) and its id sequence; an uncommitted row holds its key and is not listed; `polled` is history: who has listed it |
| `watermark`, `bucket`, `meta`, `lock`, `lease` | `sched:outbox:watermark`; the bucket's epoch, retired mark, registration and active snapshot; the account's cached record; the bucket's rebuild lock; the group's lifecycle lease |
| `versions` | who holds an allocated version that is newer than the active one, oldest first |
| `job`, `pc` | what each process has in hand, and its next step; of a poll, the watermark it began `from`, the events still `todo` and the `last` id of its batch |
| `past` | history that only properties read; `gap`: a batch has passed a row it did not list; `overrun`: a rebuild has outlived its lock, and since then there was always one at work |

| Actions | Code |
|---|---|
| `Change`, `Insert`, `InsertSuppressed`, `Commit`, `WriterFails` | a statement and its row, one by one (`SetRateLimited`, group update and delete), or one transaction (`incrementUsageBillingAccountQuota`); `enqueueSchedulerOutbox` |
| `SyncRead`, `SyncPut` | `syncSchedulerAccountSnapshot` |
| `ReadWatermark`, `List`, `TakeNext`, `GetAccount`, `SetAccount`, `SetWatermark`, `Cleanup` | `pollOutbox`, `ListAfterAndReleaseDedup`, `handleAccountEvent`, `cleanupConsumedOutbox` |
| `Miss` | a request that finds no snapshot, or an empty one, in `ListSchedulableAccounts` |
| `Capture`, `Lock`, `Load`, `Allocate`, `WriteRecords`, `Activate`, `Unlock` | `rebuildBucketWithTokenPolicyAndQueryCache`, `SetSnapshot` and its scripts; a request takes no lock |
| `Lease`, `Authority`, `Decide`, `Release` | `prepareGroupLifecycle`, `retireBucketScript`, `reopenBucketScript` |
| `ReadRegistry`, `ReadGroups` | `rebuildFullSnapshot` |
| `CallFails`, `Crash`, `LockLapses`, `LeaseLapses` | failing calls, process exit, expiry of keys |
| `LockOutlived`, `TimesOut` | the lock's 30 s end under its holder; then those of the holder's context do |
| `LimitEnds` | a limit ends with the clock |

A failure of a script or of a commit may also come after its effect (the second
disjuncts of `Activate`, `Unlock`, `Decide`, `Release`). The
lock's 30 s begin with the `SETNX`, those of the holder's context with its
answer, so a rebuild that takes that long always outlives its lock
(`LockOutlived`, which `faults` bounds): it may still finish what it is in, or
its context ends (`TimesOut`), and in both cases the deferred `UnlockBucket`
deletes the key that is there by then, whose ever it is. A lifecycle lease is deleted by
its owner only, and its 60 s outlast the 30 s of the work under it.
Simplifications: a call of a rebuild that its context cuts short has no effect
after that; the three attempts at the watermark are one; a
refresh of the record that fails is a crash of the writer, which may stop
anywhere. The bucket is of the single or mixed mode: a forced bucket may be
rebuilt from what its single bucket loaded under another lock. An account that
leaves the schedulable ones with the clock alone (its expiry date) is not modelled,
one that comes back with it is.

## Runs

| Run | Instance | Checks |
|---|---|---|
| `order_balance` | 1 balance order, 2 workers, 1 fault, 1 crash, 1 expiry of a lease in use | `GrantedAtMostOnce`, `NoGrantWithoutPayment`, `CompletedMeansGranted`, `SettledNeverReverts`, `KeepsPromise` (refinement of `PaymentPromise`) |
| `order_liveness` | 1 subscription order, 2 workers, 1 crash, no fault, fair | `PaidOrderSettles` |
| `refund_admins` | 2 administrators, either kind of provider, 3 attempts, 2 faults, 1 crash | `TypeOK`, `RefundedMeansPaidBack`; keyed: `PaidBackAtMostOnce`; plain: `OneExecutor`, `UndoneWhenRestored` |
| `lock_renewed` | 3 requests, operations of twice the lease, 1 failed renewal | `OwnerExcludes` |
| `idempotency_expiry` | 3 requests, one with another payload, one with a long response, detached; the record expires | `OneClaim`, `FirstEffectKept`, `ReplayFaithful` |
| `batch_settle` | 1 job, 2 workers, 1 cancel, 2 faults, 1 crash, 1 slip of the heartbeat or the active entry, 3 retries; a balance that suffices or not, three kinds of output, another job's hold | `KeepsHoldPromise` (refinement of `HoldPromise`), `ChargedIffCompleted`, `OnlyCancelRefundsRunning`, `QueueKept`, `ReturnedWhenQuiet`, and the inductive invariant `IInv` |
| `batch_live` | the same with 1 fault, 1 crash, no slip, fair | `JobSettles` |
| `batch_cancel` | the same without faults and crashes | `NoRefundWhileRunning` is violated |
| `live_call` | 2 clients, 2 failing Redis calls, fair | `OneUsageLog`, `OneProxy`, `Watched`, `GoneForGood`, `CallEnds` |
| `slots` | 2 requests and 2 Live calls on 2 instances, limit 2, wait queue of 1, 2 accounts per call, 1 fault, 1 crash, 1 overrun, fair | `LimitRespected`, `Accounted`, `SlotsReturn` |
| `oauth_refresh` | 2 refreshers, 1 request, 1 rotation per grant, 2 grants, 1 trouble of any kind, fair | `DisabledOnlyWhenLost`, `CacheFollowsRow`, `ReauthorisationKept`, `HealthyNotDisabled`, `DueIsRefreshed` |
| `sched_publish` | 2 writers on the account or the group, the outbox worker, a full rebuild and a request, in the combinations of `Instances`, four of them with 1 or 2 faults, fair | `ServedIsFresh`, `AnnouncedIsCovered`, `DecisionsInOrder`, `RebuildsInOrder`, `Converges` |

**Bounds.** Operations touch one order only, so one order is enough for the
order properties; two workers give every pairwise race (an owner and the one
who takes over). One fault and one crash together reach the cases in which a
second worker continues a half-done fulfilment; one slow step lets a lease
expire under its owner. The proofs lift all of these bounds. Refund runs use an
amount of two and a refund of one, so that a second refund, a second deduction
and a balance that is too small are all possible; three attempts give a retry
after a retry. Three requests give an earlier holder, a holder and a
challenger, or two that race for what a third left behind; the clock runs past
the end of a lease (and, in the expiry runs, of a record), so that it can be
taken over or cleaned up. Times are scaled down; what matters is their order:
calls shorter than the renewal interval, that shorter than half the lease, the
lease no longer than the lifetime of the record. In `lock_renewed` calls take no
time, so that one failed renewal still leaves one before the lease ends, as
with the code's 30, 10 and 2 seconds. A batch job needs one fault for each
repair and a second one inside the repair; two faults against three retries let
a settlement fail, recover and be exhausted by a bill that never fits (an
`"unbillable"` output), but not run out of retries on lost answers alone, which
is where the code goes wrong (see below). `Others` equals the hold, so that a
second charge would succeed unnoticed if the dedup rows did not prevent it. Two
clients give a take-over from an observer and from a proxy that leaves; two
faults let a repair of a failure fail. Two slots of two instances are enough
for a crash that leaves half of the limit behind; the code tries four accounts
per Live call, two show a retry. Two refreshers on two instances and a request
beside one of them give every pair of processes with and without a common
mutex. Two changes are enough for a second one to be dropped for the row of the
first, to be jumped over by the watermark, and for a group that is disabled and
enabled again under a slow publisher; one worker and one full rebuild are the
two holders that compete for lock and lease (workers of several instances do
the same things), and a request is the publisher without either. Faults
happen in four of the nine instances only, to keep the run small. Two may happen
where one account changes beside the worker and the full rebuild, so that a rebuild
outlives its lock, meets another one, and a call fails too. One may happen where
account and group change beside the full rebuild, and where the group changes twice
beside it and the worker, or beside it and a request. Deadlock is not checked: a
settled order, a refund whose attempts are used up, a finished job or call, and
requests that were all answered are legitimate ends.

**What the violation shows.** `batch_cancel`: `Cancel` reads the job while the
submit has no provider name on record yet; the submit records the name; the
cancel turns `submitted` into `cancelled`, which is a legal transition, and
releases the hold. The upstream job runs to its end and nobody pays for it. The
sweep for stale jobs meets the same window and checks `provider_job_name` in its
update (`FailStaleUnsubmittedBatchImageJob`); `OnlyCancelRefundsRunning`, in
`batch_settle`, says that the cancel is the only way into this state.

**Observed while modelling, not a property of a run.**
- Orders: `confirmPayment` and `alreadyProcessed` answer a failed read with nil,
  so the provider gets a 2xx. When the worker that set PAID has stopped, and
  such a read follows, no job looks at the order again until an administrator
  retries it; `PaidOrderSettles` therefore runs without faults.
- `acquirePaymentFulfillmentLease` reads the version it will compare in a
  second statement. If the lease expires between the two, it reads the version
  of the next owner. Money is safe all the same: the grants have guards of
  their own, and the proofs do not use the lease.
- Refunds: a rollback fails; the retry skips its deduction and ends pending;
  since it had nothing to roll back it is logged as rolled back (or that row is
  dropped by the unique index), and finalisation deducts a second time.
- `finalizeRefundFailed` is not conditional on REFUND_PENDING, unlike its
  successful twin, and overwrites an attempt another administrator has begun.
- `RollbackRefund` gives a deduction back with `UpdateBalance`, which adds every
  positive amount to `users.total_recharged`: a failed refund raises it.
- When `markRefundOk` cannot write the order after the provider has paid, or the
  process stops before it, the order stays REFUNDING: `PrepareRefund` and
  `QueryAndFinalizeRefund` both refuse that status and no job resets it.
- The system operation lock: a second operation takes the row of the first by
  `TryReclaim`, which leaves the first's fingerprint in place; its renewals
  match no row and stop, and after a lease of 30 s a third operation may start
  beside it. Hence `OwnerExcludes` speaks of an operation that inserted the
  row; of the others nothing is claimed.
- Idempotency: two requests read the same expired, succeeded record; one
  reclaims it, executes and stores its success; the other then still finds what
  its `TryReclaim` asks for and executes again. `FirstEffectKept` speaks of the
  lifetime of the record.
- An idempotency record left in processing by a crash is only reclaimed once it
  has expired, a day later by default; `Execute` uses its `locked_until` for
  Retry-After and not to take it over. `FirstEffectKept` depends on that.
- Batch images: a worker whose job lock has lapsed may still fail, on an index
  error, a job that another worker has charged, and then release; with as many
  lost answers as there are retries a settlement releases after its capture; a
  cancel that releases between the creation of the job and its reservation
  leaves a dedup row that makes every later release a no-op
  (`released = "skipped"`); a request that dies between recording and queueing
  the provider's job leaves it unpolled (`NeverQueued`). A transient error in
  the read of the output fails and refunds a job the provider has finished.
- Batch images: when the reserve is committed and its answer lost, `Submit` marks the
  job failed, hides it and returns the error (`service/batch_image_public.go:295`).
  Nothing releases the hold: the job is terminal, so the sweep passes it over, has no
  queue entry, and is hidden from the client who could cancel it. The user's money
  stays frozen. `ReturnedWhenQuiet` and `JobSettles` except this case by name
  (`Stranded`).
- Live calls: a failing `ReleaseLiveController` leaves the record with a proxy
  that has gone, a failing `MarkLiveCallClosed` is not tried again, and after a
  crash of the instance nobody resumes its observers; such failures are left out
  of the run (`HandledFailures`).
- Concurrency: of two Live calls created at the same moment with a limit of two
  one is refused when the other holds its slot and its lease together.
- OAuth: `UpdateAccount` drops `_token_version` with the old credentials, so
  that a request with an earlier account caches its token over a
  re-authorisation; between the check of the version and the write of the cache
  the same may happen after a refresh. `CacheFollowsRow` names both.
  `ReleaseRefreshLock` deletes a lock that may have become another's. Plain
  accounts are written and disabled whatever the row holds by then.
- Scheduler outbox: a row that commits after the watermark has passed its id is
  never listed again (`id > watermark`), and while it stays, its key drops
  every later event like it. The comment at `repository/scheduler_outbox_repo.go:110`
  says that the ten seconds before a row may be deleted let a slow transaction
  commit and be consumed; they only delay the deletion. `AnnouncedIsCovered`
  excepts this case by name (`past.gap`).
- Scheduler outbox: usage billing inserts its row inside its transaction. If a
  row with the same key is pending, the insert is dropped, and that row may be
  handled before the transaction commits: the change of the quota is announced
  by nothing. `AnnouncedIsCovered` counts such a change as not announced.
- Scheduler snapshots: a rebuild for an event that finds the bucket locked is
  skipped, although the holder may have loaded before the event's change; a
  request allocates its version after it has loaded, so that a slow one
  overwrites newer data; a forced bucket may be published from an older load
  (see above). A rebuild that outlives its lock lets the next one in, deletes that
  one's lock when it ends, and may publish what it has loaded before it: without
  `past.overrun` TLC finds `RebuildsInOrder` violated. In all of these, and the two
  before, the next full rebuild brings the data back, which is what `Converges` says;
  until then requests see old accounts.
- Scheduler snapshots: the record of an account (`sched:acc`) that an error, a limit
  or a pause takes out of the bucket is refreshed by its writer's
  `syncSchedulerAccountSnapshot` and by the handler of its row only; a rebuild writes
  the records of the accounts it loads. If row and refresh are both lost it stays as it
  was, for whoever looks the account up by its number, until it is schedulable again.
  `Converges` asks for the record of a schedulable account only.

**Fairness.** `order_liveness`: a worker that is not stopped finishes its
operation (goroutines are scheduled, calls have timeouts); the provider
delivers until it gets a 2xx and some handler takes the delivery, and the
ticker of `PaymentOrderExpiryService` comes round to every pending order: both
strongly fair, since workers may be busy in between; time passes. Nobody has to
pay, cancel, verify or retry. `batch_live`: a request that has started runs to
its end, workers and the loops of queue and sweep are tickers, locks and
entries without a holder expire, the provider finishes; nobody has to cancel or
submit again. `live_call`: goroutines run, a timer that has fired is served
(`SessionTimesOut`, since Go's `select` chooses among ready channels at random),
`ExpiresAt` comes; dials may fail for ever and the provider need not end the
call. `slots`: requests and sessions end, waits time out, entries past their TTL
go. `oauth_refresh`: strong fairness for a refresher, because the instance's
mutex that stops it is free again and again (a request leaves it within its
timeout) and is handed over in turn, and because a lock of another process stops
it only for a while; weak fairness for requests, the administrator's request and
the TTL of the lock. Tokens need not come due and nobody has to re-authorise.
`sched_publish`: the outbox worker and the full rebuild are tickers of the
service that start over after an error, and keys with a TTL expire; writers and
requests may stop anywhere.

## Proofs

Every theorem holds for all values of the constants that its module's named
`ASSUME` allows: any sets of workers, requests, clients, instances, any bounds
on faults, crashes and attempts. What a theorem needs beyond that is a
hypothesis of the theorem and is named below. Each proof has the same plan: the
property is strengthened to an invariant that every step keeps (its parts stand
in the component's module, where TLC has checked them), one lemma per action or
per group of actions shows that, and the property follows from it.

### PaymentOrderProofs

| Theorem | States |
|---|---|
| `Invariance`, `TypeCorrect` | `Spec => []IInv`, `Spec => []TypeOK` |
| `GrantedOnce`, `GrantPaidFor`, `CompletedGranted` | `[]GrantedAtMostOnce`, `[]NoGrantWithoutPayment`, `[]CompletedMeansGranted` |
| `Settled` | `Spec => SettledNeverReverts` |
| `Refinement` | `Spec => KeepsPromise`, the refinement of `PaymentPromise` |

The safety properties are not inductive: that a grant happens once follows from
the row that guards it, so `IInv` adds `GrantRecorded` and `RebateRecorded`
(ghost counters agree with the redeem code and the audit log); that nothing is
granted unpaid follows from where a worker is, so `PaymentKnown` says which
labels and columns imply a payment; `Progress` says what a worker past the
grant and past the rebate may rely on; `Creating` keeps the FAILED write of
creation apart from paid orders; `PaidRow` ties `paid_at` to the status. None
of this mentions leases: the proof shows that safety does not depend on lease
exclusivity, which the code does not achieve (see above).

### PaymentRefundProofs

| Theorem | States |
|---|---|
| `Invariance`, `TypesHold` | `Spec => []IInv`, `Spec => []TypeOK` (no negative balance or deduction) |
| `ExecutesAlone`, `UndoneRestored` | `[]OneExecutor`, `[]UndoneWhenRestored` |
| `RefundedPaid`, `PaidOnce` | `[]RefundedMeansPaidBack`, `[]PaidBackAtMostOnce` |

`TypeOK` alone is not inductive, because a rollback subtracts from what was
deducted: `Covered` says that each worker's account holds at least what its
attempt in flight (`Inflight`) may give back. For plain providers `PlainInv`
makes REFUNDING the lock it is: whoever executes finds that status, so a second
claim fails, and between attempts each worker has taken exactly what failed
rollbacks kept. `PaidInv` ties the outcome the provider reported, the status
and the labels that write it to the money paid back. The books are kept per
worker, not in one sum, so that no sum over workers has to be reasoned about.

### IdempotencyProofs

| Theorem | Hypothesis | States |
|---|---|---|
| `RecordInvariance`, `Replays` | - | `[]RecordInv`, `[]ReplayFaithful` |
| `Invariance`, `ClaimsAlone`, `TakesEffectOnce` | `InTime` | `[]IInv`, `[]OneClaim`, `[]FirstEffectKept` |

That a replay is faithful needs no timing: `Numbered` (ids grow, and whoever saw
or claimed a record agrees with it on the payload), `EffectsMade` and
`SuccessBacked` (a stored success has an effect behind it). That there is one
claim and one effect does: `InTime` says that a claim takes less than the lock
lasts and an execution with the storing of its outcome less than the record is
kept (30 s and a day as configured). Then a claimant's record stays its own,
locked past the clock of everybody who found it expired (`ClaimKept`), and the
record of the first effect is out of reach for its lifetime (`FirstKept`). Both
halves are needed: with `TTL = ExecTime + CallTime` or `Lease = CallTime` TLC
finds two claims of one key.

### SystemOperationLockProofs

| Theorem | Hypotheses | States |
|---|---|---|
| `OwnerInvariance`, `OwnerAlone` | `RenewalsFit`, `RowOutlives` | `[]OwnerInv`, `[]OwnerExcludes` |

What is proved speaks of an operation whose Acquire inserted the row, and which may
last many leases (an update takes up to 15 minutes, the lease is 30 s).
`RenewalsFit` asks that the renewals that may fail, and a call before and after
them, fit in the lease (one failure: 2 x 10 + 2 x 2 < 30 s), `RowOutlives` that
an operation ends within the row's hour. `OwnerInv` says how far the lock of an
owner runs ahead of its next renewal (`Renewing`, `Lag`), that nobody else has
its id (`OwnersAlone`), and what a taker leaves of a row (`RowKept`). That no two
operations run at once is neither claimed nor true: one that took over a row left by
another has renewals that match nothing (see above).

### BatchImageProofs

| Theorem | Hypotheses | States |
|---|---|---|
| `Invariance` | `LockKept`, `RetriesLast` | `[]IInv`, which `batch_settle` checks |
| `KeepsPromise` | the same | `Spec => KeepsHoldPromise`, the refinement of `HoldPromise` |
| `Charged`, `RefundedRunning`, `Queued` | the same | `[]ChargedIffCompleted`, `[]OnlyCancelRefundsRunning`, `[]QueueKept` |
| `Returned` | also `ReturnKept` | `[]ReturnedWhenQuiet` |

`LockKept`: a worker that lives keeps its job lock. `RetriesLast`: fewer steps
fail than the settlement has retries. TLC refutes the invariant without either
(the first two entries on batch images above). `ReturnKept`: whoever has made a
job lost and is about to return its hold is not stopped before that, and the
sweep's requeue does not fail, as in the runs. The parts of `IInv` say what each
process may rely on at each label: `SubmitInv`, `ReleaserInv`, `WorkerInv`;
`RetryInv` counts retries against failures; `MoneyInv` relates the frozen
balance and the three dedup rows to the status; `UpstreamInv` the job at the
provider; `QueueInv` the entry in the queue. `ReturnInv` adds who is on the way
to return a hold, but for one whose reserve was committed and never answered
(`Stranded`): a failed job has no hold left, or had such a reserve.

### LiveCallProofs

| Theorem | Hypothesis | States |
|---|---|---|
| `Invariance`, `ProxyAlone`, `GoneStays` | - | `[]IInv`, `[]OneProxy`, `GoneForGood` |
| `LoggedOnce` | the calls of `ClosingCalls` do not fail | `[]OneUsageLog` |
| `NeverAlone` | those of `ClosingCalls` and `HandOverCalls` do not fail | `[]Watched` |

`IInv` follows the creator through creation (`Creation`) and gives control to a
client in a proxy's place (`ProxyControls`). `LogCounted` counts those who closed
the call and have not logged it yet (`Closers`), with finite-set cardinalities.
`WatchKept` names, for each value of the controller field, who has it. The code
ignores a failing `MarkLiveCallClosed` or `ReleaseLiveController` (see above):
that is what the hypotheses exclude, and the run's `HandledFailures` too.

The module also holds the theorems about `ConcurrencySlots`, through the
instance `Slots`, whose constants and variables are parameters of their own; the
properties are those of `SlotBooks`, which the module extends. Their hypothesis
is the assumption `SlotsAssumption` of `ConcurrencySlots`: finitely many
requests and calls, limits and bounds that are numbers.

| Theorem | States |
|---|---|
| `SlotsInvariance` | `Slots!Spec => []Slots!IInv` |
| `LimitKept`, `AllAccounted` | `[]LimitRespected`, `[]Accounted` |

The limit counts who uses the resource, the scripts count members of two sets, so
`IInv` relates them: whoever has entered and not outlived its entry holds a slot
or, from the moment a lease replaces it, the lease (`Entered`), and no more than
`Max` processes that have not outlived their entry hold either (`HoldersLimited`).
Each script that admits adds one holder where slots and leases are fewer than the
limit, and holders are never more than these two together;
`acquireLiveLeaseScript` allows one more than the limit, which is right because its
caller's slot is counted among them or the caller has outlived it. `Accounted` is
proved from two invariants of the proof module: `Counted` compares the counter with
who waits, step by step, with finite-set cardinalities; `Exactly` says that the
three keys follow the processes until something fails.

### OAuthRefreshProofs

| Theorem | States |
|---|---|
| `Invariance` | `Spec => []IInv` |
| `DisabledLost`, `CacheFollows` | `[]DisabledOnlyWhenLost`, `[]CacheFollowsRow` |
| `NeverUndone`, `HealthyStays` | `ReauthorisationKept`, `HealthyNotDisabled` |

`Tokens` says that nobody holds a refresh token later than the one the provider
accepts. `CleanRefresh` holds until something is lost: one refresher works under
the lock, with the row's credentials unless these were re-authorised meanwhile,
so the provider never refuses (`Alone`, `RowGood`, `Newest`). `Versions` says that
a version is written once, so that a request whose account is as recent as the
row has the row; `CleanCache`, that a cached token which is behind is going to be
dropped or replaced by whoever wrote the row (`WriterPending`, stronger than the
`CachePending` of the property). The last two
rest on the conditional writes of guarded accounts, and of the invariant use
only types and `Tokens`.

### SchedulerSnapshotProofs

| Theorem | States |
|---|---|
| `SnapshotInvariance`, `Fresh` | `[]IInv`, `[]ServedIsFresh` |
| `DecisionsOrdered`, `RebuildsOrdered` | `DecisionsInOrder`, `RebuildsInOrder` |
| `OutboxInvariance`, `AnnouncedCovered` | `[]OutboxInv`, `[]AnnouncedIsCovered` |

`Tokens`: no publisher's token is ahead of the epoch, and what it loaded, it
loaded after its token was captured, hence the check of the epoch in the script
fences data of a retired generation. `Decisions`: whoever works under the lifecycle
lease has it, and acts on a state read after the last decision under it. `Rebuilds`
says the same of the rebuild lock and its publications, unless `past.overrun`: after
a rebuild has outlived its lock, nothing is said until a rebuild takes the lock
while no other is at work or about to unlock, and then exclusion holds again,
however many overruns there were. `Shaped` and `JobsShaped` give the fields the
steps use their types.

A row of the outbox has to survive until somebody has read the account for it,
although its key is released, and later inserts go ahead, before it is handled.
`RowsKept` says that a row which still holds its key was polled by nobody, and
`UnpolledAhead` that such a row is ahead of the watermark and of every poll in
progress: so an insert that the key suppresses is covered by a row nobody has read
yet. `AnnouncedKept` names what covers the latest announced change: a committed row
past the watermark which every poller either has not passed, or will read the
account for before it moves the watermark (`Covers`, `WillRead`), or did not list,
and then the watermark jumps over it (`past.gap`). The run has one poller; the
theorem is for any number, each of which may write the watermark it began with.

### Model-checked only

- Liveness, which the prover's temporal backend cannot do under fairness:
  `PaidOrderSettles`, `JobSettles`, `CallEnds`, `SlotsReturn`, `DueIsRefreshed`,
  `Converges`.
- `BatchImage` with locks that lapse under a live worker or with as many failures
  as retries: the properties are false there.

## Plan

Order of work, most important behaviour first; the models of 1 to 7 and the proofs
of their safety properties are done.

1. `PaymentPromise`, `PaymentOrder`, `PaymentOrderProofs`.
2. `PaymentRefund`, `PaymentRefundProofs`.
3. `IdempotencyStore`, `SystemOperationLock`, `Idempotency` and their proofs.
4. `HoldPromise`, `BatchImage`, `BatchImageProofs`.
5. `LiveCall`, `LiveCallProofs`; `OAuthRefresh`, `OAuthRefreshProofs`.
6. `SchedulerSnapshot`, `SchedulerSnapshotProofs`.
7. `ConcurrencySlots`, proved about in `LiveCallProofs`.
8. `UsageBilling`: dedup row, balance, quota, caches; abstract specification:
   each request charged once.
9. User message queue, stream circuit breaker, websocket pool, worker pool,
   auth cache outbox, refresh-token sessions; leases of ingress websockets.

## Not modelled

Request and response conversion between vendor formats, streaming and HTTP
(`pkg/`, the gateway services), signatures and HTTP of the payment providers,
monitoring, moderation, plugins, backups, handlers, generated database code,
the web and mobile clients: data conversion, I/O or presentation without
protocol state. In the payment domain: amounts, fees and currencies (the model
knows whether an amount matches), provider selection, mails,
refunds of subscriptions. In the batch image domain: prices, limits, downloads
and the cleanup of provider files. Of the concurrency cache: leases of ingress
websockets, API key slots, load statistics. Of the token refresh: backoff,
cooldowns, rate gates and containment of a provider, which decide how often an
attempt is made and not what it does. Of the scheduler's snapshots: a group's
several buckets and what one reuses of another's load, deletion of accounts,
bulk and last-used events, the in-process cache, simple mode, and the lag check,
which only starts further full rebuilds. Order limits (`checkPendingLimit` and
`checkDailyLimit` count and then insert, so concurrent requests may pass both)
are policy. Items 8 and 9 of the plan are protocols that could be modelled and
are not yet.
