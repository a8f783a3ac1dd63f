------------------------------ MODULE BatchImage ------------------------------
(***************************************************************************)
(* One batch image job, from the request that creates it to its settlement *)
(* or refund: the row in batch_image_jobs, the hold on the user's balance, *)
(* the Redis queue with its job lock, and the job at the provider.         *)
(*                                                                         *)
(* A step of a process is one statement or transaction on the database,    *)
(* one Redis script, or one provider call.  A step may fail, a reserve,    *)
(* capture or release may be applied although its answer is lost, a        *)
(* process may stop between two steps, and a worker may lose its lock      *)
(* while it works.                                                         *)
(***************************************************************************)
EXTENDS Integers, FiniteSets

CONSTANTS
    Workers,      \* BatchImageWorker goroutines
    Hold, Actual, \* the job's hold and what its images cost
    Others,       \* what the user's other jobs hold in the same frozen balance
    Funds,        \* possible balances of the user
    Outputs,      \* what the provider may deliver: "good", "bad", "unbillable"
    MaxRetries,   \* batchImageSettlementMaxRetries
    MaxCancels,   \* bound: cancel requests
    Failable,     \* labels of the steps that may fail
    MaxFaults,    \* bound: steps that fail
    Stoppable,    \* labels at which a process may stop
    MaxCrashes,   \* bound: processes that stop
    Slippable,    \* what may expire under a live process: "submit" (its heartbeat),
                  \* "entry" (in the active set), "lock"
    MaxSlips      \* bound: how often that happens

ASSUME BatchImageAssumption ==
    /\ Hold \in Nat \ {0} /\ Actual \in 0..Hold /\ Others \in Nat /\ Funds \subseteq Nat
    /\ Outputs \subseteq {"good", "bad", "unbillable"}
    /\ MaxRetries \in Nat \ {0} /\ MaxCancels \in Nat
    /\ Slippable \subseteq {"submit", "entry", "lock"}
    /\ MaxFaults \in Nat /\ MaxCrashes \in Nat /\ MaxSlips \in Nat
    /\ "idle" \notin Stoppable
    /\ Workers \cap {"submit", "resubmit", "cancel", "recovery", "free", "orphan"} = {}

VARIABLES
    status,     \* batch_image_jobs.status, "none" before the row exists
    named,      \* provider_job_name is set
    retries,    \* retry_count
    balance,    \* users.balance
    frozen,     \* users.frozen_balance, shared by all jobs of the user
    held, captured, released, \* rows hold, capture and release in usage_billing_dedup;
                \* released = "skipped" when the row was written without an effect
    unanswered, \* history: the hold was made, but the request got an error for it
    ready, delayed, active, inflight,  \* the queue: list, two sorted sets, the key
    lock,       \* job lock: "free", its worker, or "orphan" of a stopped one
    upstream,   \* the job at the provider
    output,     \* what it will deliver
    pc,         \* next step of each process
    cancels, faults, crashes, slips

jobVars == <<status, named, retries>>
moneyVars == <<balance, frozen, held, captured, released, unanswered>>
queueVars == <<ready, delayed, active, inflight>>
providerVars == <<upstream, output>>
budgetVars == <<cancels, faults, crashes, slips>>
vars == <<jobVars, moneyVars, queueVars, lock, providerVars, pc, budgetVars>>

Terminal == {"completed", "failed", "cancelled", "output_deleted"}
Statuses == Terminal \cup
    {"none", "created", "uploading", "submitted", "running", "indexing", "settling"}
Procs == Workers \cup {"submit", "resubmit", "cancel", "recovery"}

SubmitLabels == {"reserve", "items", "upload", "provider", "record", "enqueue", "returnHold",
                 "quitUpload", "markFailed", "markReleaseFailed", "abort", "done"}
WorkerLabels == {"lock", "read", "process", "get", "toRunning", "toIndexing", "index",
                 "toSettling", "toFailed", "toCancelled", "release", "settle", "capture",
                 "recordFailure", "exhaust", "exhaustFail", "exhaustRecord", "markSettled",
                 "afterSettle", "requeue", "ack", "unlock"}
UserLabels == {"reenqueue", "cancelUpstream", "cancelJob", "cancelRelease"}
Labels == SubmitLabels \cup WorkerLabels \cup UserLabels
          \cup {"idle", "sweepRelease", "enqueueRetry"}

Init ==
    /\ status = "none" /\ named = FALSE /\ retries = 0
    /\ balance \in Funds /\ frozen = Others
    /\ held = FALSE /\ captured = FALSE /\ released = "none"
    /\ unanswered = FALSE
    /\ ready = 0 /\ delayed = FALSE /\ active = FALSE /\ inflight = FALSE
    /\ lock = "free"
    /\ upstream = "none" /\ output \in Outputs
    /\ pc = [p \in Procs |-> "idle"]
    /\ cancels = 0 /\ faults = 0 /\ crashes = 0 /\ slips = 0

-----------------------------------------------------------------------------
(* Building blocks *)

Goto(p, label) == pc' = [pc EXCEPT ![p] = label]

\* A step works, or one of the bounded number of failures strikes it.
Works == UNCHANGED budgetVars
Fails(p) ==
    /\ pc[p] \in Failable /\ faults < MaxFaults
    /\ faults' = faults + 1
    /\ UNCHANGED <<cancels, crashes, slips>>

\* CanTransitionBatchImageJob
CanTransition(from, to) ==
    \/ to = "failed" /\ from \notin Terminal
    \/ <<from, to>> \in {"created"} \X {"uploading", "submitted", "cancelled"}
    \/ <<from, to>> \in {"uploading"} \X {"submitted", "cancelled"}
    \/ <<from, to>> \in {"submitted", "running"} \X {"running", "indexing", "cancelled"}
    \/ <<from, to>> \in {"indexing"} \X {"settling"}

\* TransitionBatchImageJobStatus: the row is locked, checked and written in one
\* transaction.  ok, invalid and err are where the caller goes on.
Transition(p, to, ok, invalid, err) ==
    /\ \/ Works /\ CanTransition(status, to) /\ status' = to /\ Goto(p, ok)
       \/ Works /\ ~CanTransition(status, to) /\ Goto(p, invalid) /\ UNCHANGED status
       \/ Fails(p) /\ Goto(p, err) /\ UNCHANGED status
    /\ UNCHANGED <<named, retries>>

\* Each billing operation is one transaction that first writes its dedup row;
\* when the row is there already it does nothing and succeeds.
Capture ==
    \/ captured /\ UNCHANGED moneyVars
    \/ /\ ~captured /\ frozen >= Hold
       /\ balance' = balance + (Hold - Actual) /\ frozen' = frozen - Hold
       /\ captured' = TRUE
       /\ UNCHANGED <<held, released, unanswered>>
CaptureRefused == ~captured /\ frozen < Hold

\* Mutant of Release: a release does not ask whether there was a hold.
ReleasePhantom ==
    \/ released # "none" /\ UNCHANGED moneyVars
    \/ /\ released = "none" /\ frozen >= Hold
       /\ balance' = balance + Hold /\ frozen' = frozen - Hold
       /\ released' = "done"
       /\ UNCHANGED <<held, captured, unanswered>>

\* A release that finds no hold returns nothing, and its dedup row stays.
Release ==
    \/ released # "none" /\ UNCHANGED moneyVars
    \/ /\ released = "none" /\ ~held
       /\ released' = "skipped"
       /\ UNCHANGED <<balance, frozen, held, captured, unanswered>>
    \/ /\ released = "none" /\ held /\ frozen >= Hold
       /\ balance' = balance + Hold /\ frozen' = frozen - Hold
       /\ released' = "done"
       /\ UNCHANGED <<held, captured, unanswered>>
ReleaseRefused == released = "none" /\ held /\ frozen < Hold

\* A reserve finds no dedup row: only the request that created the job makes it.
TakeHold ==
    /\ balance >= Hold
    /\ balance' = balance - Hold /\ frozen' = frozen + Hold
    /\ held' = TRUE
    /\ UNCHANGED <<captured, released>>

\* releaseBatchImageBalanceHold as a step of p; the answer may be lost.
ReleaseStep(p, ok, err) ==
    \/ Works /\ Release /\ Goto(p, ok)
    \/ Works /\ ReleaseRefused /\ Goto(p, err) /\ UNCHANGED moneyVars
    \/ Fails(p) /\ (Release \/ UNCHANGED moneyVars) /\ Goto(p, err)

\* Enqueue: the in-flight key and the push are one script.
Enqueue ==
    /\ ready' = IF inflight THEN ready ELSE ready + 1
    /\ inflight' = TRUE
    /\ UNCHANGED <<delayed, active>>

\* AlreadyQueued counts as success; whatever the outcome the caller is done.
EnqueueStep(p, next) ==
    /\ \/ Works /\ Enqueue
       \/ Fails(p) /\ UNCHANGED queueVars
    /\ Goto(p, next)
    /\ UNCHANGED <<jobVars, moneyVars, lock, providerVars>>

-----------------------------------------------------------------------------
(* Submit: the request that creates the job *)

CreateJob ==
    /\ pc["submit"] = "idle"
    /\ status = "none"
    /\ status' = "created"
    /\ Goto("submit", "reserve")
    /\ Works
    /\ UNCHANGED <<named, retries, moneyVars, queueVars, lock, providerVars>>

\* On any error the request releases nothing: it takes the job for one without a
\* hold, also when the reserve was committed and only its answer is lost.
ReserveHold ==
    /\ pc["submit"] = "reserve"
    /\ \/ Works /\ TakeHold /\ UNCHANGED unanswered /\ Goto("submit", "items")
       \/ Works /\ balance < Hold /\ Goto("submit", "markFailed") /\ UNCHANGED moneyVars
       \/ Fails("submit") /\ Goto("submit", "markFailed") /\ UNCHANGED moneyVars
       \/ /\ Fails("submit") /\ TakeHold /\ unanswered' = TRUE
          /\ Goto("submit", "markFailed")
    /\ UNCHANGED <<jobVars, queueVars, lock, providerVars>>

CreateItems ==
    /\ pc["submit"] = "items"
    /\ \/ Works /\ Goto("submit", "upload")
       \/ Fails("submit") /\ Goto("submit", "returnHold")
    /\ UNCHANGED <<jobVars, moneyVars, queueVars, lock, providerVars>>

\* A refused transition means that a cancel or the recovery was faster: the
\* hold is released and the status left alone.
StartUpload ==
    /\ pc["submit"] = "upload"
    /\ Transition("submit", "uploading", "provider", "quitUpload", "returnHold")
    /\ UNCHANGED <<moneyVars, queueVars, lock, providerVars>>

\* provider.Submit.  An answer that is lost leaves a job nobody knows upstream.
SubmitUpstream ==
    /\ pc["submit"] = "provider"
    /\ \/ Works /\ upstream' = "running" /\ Goto("submit", "record")
       \/ Fails("submit") /\ upstream' \in {"none", "running"} /\ Goto("submit", "returnHold")
    /\ UNCHANGED <<jobVars, moneyVars, queueVars, lock, output>>

\* UpdateBatchImageJobProviderSubmit; the upstream job is aborted if it fails.
RecordProviderJob ==
    /\ pc["submit"] = "record"
    /\ \/ /\ Works /\ CanTransition(status, "submitted")
          /\ status' = "submitted" /\ named' = TRUE
          /\ Goto("submit", "enqueue")
       \/ /\ Works /\ ~CanTransition(status, "submitted")
          /\ Goto("submit", "abort")
          /\ UNCHANGED <<status, named>>
       \/ Fails("submit") /\ Goto("submit", "abort") /\ UNCHANGED <<status, named>>
    /\ UNCHANGED <<retries, moneyVars, queueVars, lock, providerVars>>

\* abortOrphanProviderJob: best effort.
AbortOrphan ==
    /\ pc["submit"] = "abort"
    /\ \/ Works /\ upstream' = IF upstream = "running" THEN "cancelled" ELSE upstream
       \/ Fails("submit") /\ UNCHANGED upstream
    /\ Goto("submit", "done")
    /\ UNCHANGED <<jobVars, moneyVars, queueVars, lock, output>>

EnqueueSubmitted == pc["submit"] = "enqueue" /\ EnqueueStep("submit", "done")

\* releaseFailedSubmitHold
ReturnHold ==
    /\ pc["submit"] \in {"returnHold", "quitUpload"}
    /\ ReleaseStep("submit", IF pc["submit"] = "quitUpload" THEN "done" ELSE "markFailed",
                   "markReleaseFailed")
    /\ UNCHANGED <<jobVars, queueVars, lock, providerVars>>

\* RecordBatchImageJobSubmitFailure(markFailed): whatever the status is.
MarkSubmitFailed ==
    /\ pc["submit"] \in {"markFailed", "markReleaseFailed"}
    /\ \/ Works /\ status' = "failed"
       \/ Fails("submit") /\ UNCHANGED status
    /\ Goto("submit", IF pc["submit"] = "markFailed" THEN "done" ELSE "enqueueRetry")
    /\ UNCHANGED <<named, retries, moneyVars, queueVars, lock, providerVars>>

SubmitNext ==
    \/ CreateJob \/ ReserveHold \/ CreateItems \/ StartUpload \/ SubmitUpstream
    \/ RecordProviderJob \/ AbortOrphan \/ EnqueueSubmitted \/ ReturnHold \/ MarkSubmitFailed

\* The same request again, with its idempotency key: a submitted job is put on
\* the queue once more, in case the first request failed to.
ReadSubmitted ==
    /\ pc["resubmit"] = "idle"
    /\ status = "submitted"
    /\ Goto("resubmit", "reenqueue")
    /\ Works
    /\ UNCHANGED <<jobVars, moneyVars, queueVars, lock, providerVars>>

EnqueueAgain == pc["resubmit"] = "reenqueue" /\ EnqueueStep("resubmit", "idle")

-----------------------------------------------------------------------------
(* Cancel *)

CancelRead ==
    /\ pc["cancel"] = "idle"
    /\ cancels < MaxCancels
    /\ cancels' = cancels + 1 /\ UNCHANGED <<faults, crashes, slips>>
    /\ \/ status \in {"failed", "cancelled"} /\ Goto("cancel", "cancelRelease")
       \/ status \in Statuses \ (Terminal \cup {"none", "settling"}) /\ named
          /\ Goto("cancel", "cancelUpstream")
       \/ status \in Statuses \ (Terminal \cup {"none", "settling"}) /\ ~named
          /\ Goto("cancel", "cancelJob")
    /\ UNCHANGED <<jobVars, moneyVars, queueVars, lock, providerVars>>

CancelUpstream ==
    /\ pc["cancel"] = "cancelUpstream"
    /\ \/ /\ Works
          /\ upstream' = IF upstream = "running" THEN "cancelled" ELSE upstream
          /\ Goto("cancel", "enqueueRetry")
       \/ Fails("cancel") /\ Goto("cancel", "idle") /\ UNCHANGED upstream
    /\ UNCHANGED <<jobVars, moneyVars, queueVars, lock, output>>

CancelJob ==
    /\ pc["cancel"] = "cancelJob"
    /\ Transition("cancel", "cancelled", "cancelRelease", "idle", "idle")
    /\ UNCHANGED <<moneyVars, queueVars, lock, providerVars>>

CancelRelease ==
    /\ pc["cancel"] = "cancelRelease"
    /\ ReleaseStep("cancel", "idle", "enqueueRetry")
    /\ UNCHANGED <<jobVars, queueVars, lock, providerVars>>

CancelNext == CancelRead \/ CancelUpstream \/ CancelJob \/ CancelRelease

\* MarkBatchImageOutputDeleted, by the owner or when the retention ends.
DeleteOutput ==
    /\ status = "completed"
    /\ status' = "output_deleted"
    /\ Works
    /\ UNCHANGED <<named, retries, moneyVars, queueVars, lock, providerVars, pc>>

-----------------------------------------------------------------------------
(* Recovery of jobs whose submit died before the provider had them *)

\* What is refreshed expires once nobody refreshes it any more; under a live
\* process the refresh may fail for too long.
Expires(what, alive) ==
    /\ IF alive THEN what \in Slippable /\ slips < MaxSlips /\ slips' = slips + 1
                ELSE UNCHANGED slips
    /\ UNCHANGED <<cancels, faults, crashes>>

\* updated_at is old.
SubmitLooksDead == Expires("submit", pc["submit"] # "done")

\* Mutant of FailStale: the conditions are not checked again in the update.
FailStaleBlindly ==
    /\ pc["recovery"] = "idle"
    /\ SubmitLooksDead
    /\ status \in {"created", "uploading", "submitted"}
    /\ status' = "failed"
    /\ Goto("recovery", "sweepRelease")
    /\ UNCHANGED <<named, retries, moneyVars, queueVars, lock, providerVars>>

\* FailStaleUnsubmittedBatchImageJob
FailStale ==
    /\ pc["recovery"] = "idle"
    /\ SubmitLooksDead
    /\ status \in {"created", "uploading"} /\ ~named
    /\ status' = "failed"
    /\ Goto("recovery", "sweepRelease")
    /\ UNCHANGED <<named, retries, moneyVars, queueVars, lock, providerVars>>

\* Mutant of SweepRelease: a failed release is not put on the queue.
SweepReleaseOnce ==
    /\ pc["recovery"] = "sweepRelease"
    /\ ReleaseStep("recovery", "idle", "idle")
    /\ UNCHANGED <<jobVars, queueVars, lock, providerVars>>

SweepRelease ==
    /\ pc["recovery"] = "sweepRelease"
    /\ ReleaseStep("recovery", "idle", "enqueueRetry")
    /\ UNCHANGED <<jobVars, queueVars, lock, providerVars>>

RecoveryNext == FailStale \/ SweepRelease

\* enqueueBillingRetry, enqueueReleaseRetry, and the enqueue of a cancel.
EnqueueRetry(p) ==
    /\ pc[p] = "enqueueRetry"
    /\ EnqueueStep(p, IF p = "submit" THEN "done" ELSE "idle")

-----------------------------------------------------------------------------
(* Worker: RunOnce and the pipeline it runs under the job lock *)

\* An action of worker w that changes only the row, only the money, and so on.
OnlyJob == UNCHANGED <<moneyVars, queueVars, lock, providerVars>>
OnlyMoney == UNCHANGED <<jobVars, queueVars, lock, providerVars>>
OnlyPc == UNCHANGED <<jobVars, moneyVars, queueVars, lock, providerVars>>

\* Reserve: pop and mark active, one script.
Reserve(w) ==
    /\ pc[w] = "idle"
    /\ ready > 0
    /\ ready' = ready - 1 /\ active' = TRUE
    /\ UNCHANGED <<delayed, inflight>>
    /\ Goto(w, "lock") /\ Works
    /\ UNCHANGED <<jobVars, moneyVars, lock, providerVars>>

\* Mutant of TryLock: the job is processed although the lock is taken.
ProceedUnlocked(w) ==
    /\ pc[w] = "lock"
    /\ lock' = w /\ Goto(w, "read") /\ Works
    /\ UNCHANGED <<jobVars, moneyVars, queueVars, providerVars>>

\* TryAcquireJobLock: SETNX.  A conflict or an error puts the job back.
TryLock(w) ==
    /\ pc[w] = "lock"
    /\ \/ lock = "free" /\ lock' = w /\ Goto(w, "read") /\ Works
       \/ lock # "free" /\ Goto(w, "requeue") /\ Works /\ UNCHANGED lock
       \/ Fails(w) /\ Goto(w, "requeue") /\ UNCHANGED lock
    /\ UNCHANGED <<jobVars, moneyVars, queueVars, providerVars>>

\* BatchImagePipelineProcessor.Process
ReadForPipeline(w) ==
    /\ pc[w] = "read"
    /\ \/ Works /\ Goto(w, IF status = "settling" THEN "settle" ELSE "process")
       \/ Fails(w) /\ Goto(w, "requeue")
    /\ OnlyPc

\* BatchImageProviderProcessor.Process reads the row once more.
ReadForProvider(w) ==
    /\ pc[w] = "process"
    /\ \/ /\ Works
          /\ \/ status \in {"failed", "cancelled"} /\ Goto(w, "release")
             \/ status \in {"settling", "completed", "output_deleted"} /\ Goto(w, "ack")
             \/ status \in {"created", "uploading"} /\ Goto(w, "requeue")
             \/ status = "indexing" /\ Goto(w, "index")
             \/ status \in {"submitted", "running"} /\ Goto(w, "get")
       \/ Fails(w) /\ Goto(w, "requeue")
    /\ OnlyPc

\* provider.Get
GetUpstream(w) ==
    /\ pc[w] = "get"
    /\ \/ Works /\ upstream = "running" /\ Goto(w, "toRunning")
       \/ Works /\ upstream = "succeeded" /\ Goto(w, "toIndexing")
       \/ Works /\ upstream = "failed" /\ Goto(w, "toFailed")
       \/ Works /\ upstream = "cancelled" /\ Goto(w, "toCancelled")
       \/ Fails(w) /\ Goto(w, "requeue")
    /\ OnlyPc

MarkRunning(w) ==
    /\ pc[w] = "toRunning"
    /\ Transition(w, "running", "requeue", "requeue", "requeue")
    /\ OnlyJob

MarkIndexing(w) ==
    /\ pc[w] = "toIndexing"
    /\ Transition(w, "indexing", "index", "requeue", "requeue")
    /\ OnlyJob

\* Index.  Output that is not there yet is asked for again and so is a job that
\* somebody else has moved on; any other error, a read that breaks off
\* included, fails the job.  The items are replaced only while it is indexing.
IndexOutput(w) ==
    /\ pc[w] = "index"
    /\ \/ Works /\ output = "bad" /\ Goto(w, "toFailed")
       \/ Works /\ output # "bad" /\ status = "indexing" /\ Goto(w, "toSettling")
       \/ Works /\ output # "bad" /\ status # "indexing" /\ Goto(w, "requeue")
       \/ Fails(w) /\ (Goto(w, "requeue") \/ Goto(w, "toFailed"))
    /\ OnlyPc

MarkSettling(w) ==
    /\ pc[w] = "toSettling"
    /\ Transition(w, "settling", "requeue", "requeue", "requeue")
    /\ OnlyJob

MarkFailed(w) ==
    /\ pc[w] = "toFailed"
    /\ Transition(w, "failed", "release", "requeue", "requeue")
    /\ OnlyJob

MarkCancelled(w) ==
    /\ pc[w] = "toCancelled"
    /\ Transition(w, "cancelled", "release", "requeue", "requeue")
    /\ OnlyJob

\* releaseTerminalHold
ReleaseTerminalHold(w) ==
    /\ pc[w] = "release"
    /\ ReleaseStep(w, "ack", "requeue")
    /\ OnlyMoney

PipelineNext(w) ==
    \/ ReadForPipeline(w) \/ ReadForProvider(w) \/ GetUpstream(w) \/ MarkRunning(w)
    \/ MarkIndexing(w) \/ IndexOutput(w) \/ MarkSettling(w) \/ MarkFailed(w)
    \/ MarkCancelled(w) \/ ReleaseTerminalHold(w)

-----------------------------------------------------------------------------
(* Settlement *)

\* Settle up to the capture: a job out of retries is failed, counts or a cost
\* that do not fit the hold count as a failed attempt.
StartSettle(w) ==
    /\ pc[w] = "settle"
    /\ \/ /\ Works
          /\ \/ status = "completed" /\ Goto(w, "ack")
             \/ status \notin {"settling", "completed"} /\ Goto(w, "requeue")
             \/ status = "settling" /\ retries >= MaxRetries /\ Goto(w, "exhaust")
             \/ /\ status = "settling" /\ retries < MaxRetries
                /\ Goto(w, IF output = "unbillable" THEN "recordFailure" ELSE "capture")
       \/ Fails(w) /\ Goto(w, "requeue")
    /\ OnlyPc

CaptureHold(w) ==
    /\ pc[w] = "capture"
    /\ \/ Works /\ Capture /\ Goto(w, "markSettled")
       \/ Works /\ CaptureRefused /\ Goto(w, "recordFailure") /\ UNCHANGED moneyVars
       \/ Fails(w) /\ (Capture \/ UNCHANGED moneyVars) /\ Goto(w, "recordFailure")
    /\ OnlyMoney

\* Only a billing error makes the pipeline read the row once more.
AfterFailure == IF output = "unbillable" THEN "requeue" ELSE "afterSettle"

\* recordSettlementFailure
RecordFailure(w) ==
    /\ pc[w] = "recordFailure"
    /\ \/ /\ Works
          /\ retries' = retries + 1
          /\ Goto(w, IF retries + 1 >= MaxRetries THEN "exhaust" ELSE AfterFailure)
       \/ Fails(w) /\ Goto(w, AfterFailure) /\ retries' \in {retries, retries + 1}
    /\ UNCHANGED <<status, named>>
    /\ OnlyJob

\* failExhaustedSettlement: release, then fail the job.
ReleaseExhausted(w) ==
    /\ pc[w] = "exhaust"
    /\ ReleaseStep(w, "exhaustFail", "exhaustRecord")
    /\ OnlyMoney

RecordReleaseFailure(w) ==
    /\ pc[w] = "exhaustRecord"
    /\ \/ Works /\ retries' = retries + 1
       \/ Fails(w) /\ UNCHANGED retries
    /\ Goto(w, "afterSettle")
    /\ UNCHANGED <<status, named>>
    /\ OnlyJob

FailExhausted(w) ==
    /\ pc[w] = "exhaustFail"
    /\ Transition(w, "failed", "afterSettle", "requeue", "requeue")
    /\ OnlyJob

\* MarkBatchImageJobSettled: only a settling job is completed.
MarkSettled(w) ==
    /\ pc[w] = "markSettled"
    /\ \/ Works /\ status = "settling" /\ status' = "completed" /\ Goto(w, "ack")
       \/ Works /\ status # "settling" /\ Goto(w, "requeue") /\ UNCHANGED status
       \/ Fails(w) /\ Goto(w, "requeue") /\ UNCHANGED status
    /\ UNCHANGED <<named, retries>>
    /\ OnlyJob

\* The pipeline looks whether the failed settlement ended the job.
ReadAfterSettle(w) ==
    /\ pc[w] = "afterSettle"
    /\ \/ Works /\ Goto(w, IF status \in Terminal THEN "ack" ELSE "requeue")
       \/ Fails(w) /\ Goto(w, "requeue")
    /\ OnlyPc

SettlementNext(w) ==
    \/ StartSettle(w) \/ CaptureHold(w) \/ RecordFailure(w) \/ ReleaseExhausted(w)
    \/ RecordReleaseFailure(w) \/ FailExhausted(w) \/ MarkSettled(w) \/ ReadAfterSettle(w)

-----------------------------------------------------------------------------
(* The end of RunOnce, and the loops that look after the queue *)

\* Mutant of RequeueAfter: out of the active set, but not into the delayed one.
DropFromActive(w) ==
    /\ pc[w] = "requeue"
    /\ Goto(w, "unlock") /\ Works
    /\ active' = FALSE /\ UNCHANGED <<ready, delayed, inflight>>
    /\ UNCHANGED <<jobVars, moneyVars, lock, providerVars>>

RequeueAfter(w) ==
    /\ pc[w] = "requeue"
    /\ Goto(w, "unlock")
    /\ \/ Works /\ active' = FALSE /\ delayed' = TRUE /\ UNCHANGED <<ready, inflight>>
       \/ Fails(w) /\ UNCHANGED queueVars
    /\ UNCHANGED <<jobVars, moneyVars, lock, providerVars>>

Ack(w) ==
    /\ pc[w] = "ack"
    /\ Goto(w, "unlock")
    /\ \/ Works /\ active' = FALSE /\ delayed' = FALSE /\ inflight' = FALSE /\ UNCHANGED ready
       \/ Fails(w) /\ UNCHANGED queueVars
    /\ UNCHANGED <<jobVars, moneyVars, lock, providerVars>>

\* The release script compares the token; a failure leaves the lock to its TTL.
Unlock(w) ==
    /\ pc[w] = "unlock"
    /\ Goto(w, "idle")
    /\ \/ Works /\ lock' = IF lock = w THEN "free" ELSE lock
       \/ Fails(w) /\ lock' = IF lock = w THEN "orphan" ELSE lock
    /\ UNCHANGED <<jobVars, moneyVars, queueVars, providerVars>>

WorkerNext(w) ==
    \/ Reserve(w) \/ TryLock(w) \/ PipelineNext(w) \/ SettlementNext(w)
    \/ RequeueAfter(w) \/ Ack(w) \/ Unlock(w)

MoveDueDelayed ==
    /\ delayed
    /\ delayed' = FALSE /\ ready' = ready + 1
    /\ UNCHANGED <<active, inflight>>
    /\ Works
    /\ UNCHANGED <<jobVars, moneyVars, lock, providerVars, pc>>

\* Mutant of RecoverStaleActive: what is taken out of the active set is lost.
DropStaleActive ==
    /\ active
    /\ Expires("entry", \E w \in Workers : pc[w] # "idle")
    /\ active' = FALSE
    /\ UNCHANGED <<ready, delayed, inflight, jobVars, moneyVars, lock, providerVars, pc>>

RecoverStaleActive ==
    /\ active
    /\ Expires("entry", \E w \in Workers : pc[w] # "idle")
    /\ active' = FALSE /\ ready' = ready + 1
    /\ UNCHANGED <<delayed, inflight, jobVars, moneyVars, lock, providerVars, pc>>

LockExpires ==
    /\ lock # "free"
    /\ Expires("lock", lock \in Workers)
    /\ lock' = "free"
    /\ UNCHANGED <<jobVars, moneyVars, queueVars, providerVars, pc>>

QueueNext == MoveDueDelayed \/ RecoverStaleActive \/ LockExpires

\* The provider finishes what it was given.
UpstreamEnds ==
    /\ upstream = "running"
    /\ upstream' \in {"succeeded", "failed"}
    /\ Works
    /\ UNCHANGED <<jobVars, moneyVars, queueVars, lock, output, pc>>

\* A process stops; a worker is started again and has forgotten everything.
Crash(p) ==
    /\ pc[p] \in Stoppable
    /\ crashes < MaxCrashes
    /\ crashes' = crashes + 1 /\ UNCHANGED <<cancels, faults, slips>>
    /\ Goto(p, IF p = "submit" THEN "done" ELSE "idle")
    /\ lock' = IF lock = p THEN "orphan" ELSE lock
    /\ UNCHANGED <<jobVars, moneyVars, queueVars, providerVars>>

Next ==
    \/ SubmitNext
    \/ ReadSubmitted \/ EnqueueAgain
    \/ CancelNext \/ DeleteOutput
    \/ RecoveryNext
    \/ \E p \in {"submit", "cancel", "recovery"} : EnqueueRetry(p)
    \/ \E w \in Workers : WorkerNext(w)
    \/ QueueNext
    \/ UpstreamEnds
    \/ \E p \in Procs : Crash(p)

Spec == Init /\ [][Next]_vars

\* A request runs to its end unless it stops, the sweep and the queue loops run
\* periodically, the provider finishes; nobody has to cancel or submit again.
Fairness ==
    /\ WF_vars(SubmitNext \/ EnqueueRetry("submit"))
    /\ WF_vars(CancelUpstream \/ CancelJob \/ CancelRelease \/ EnqueueRetry("cancel"))
    /\ WF_vars(RecoveryNext \/ EnqueueRetry("recovery"))
    /\ \A w \in Workers : WF_vars(WorkerNext(w))
    /\ WF_vars(MoveDueDelayed) /\ WF_vars(RecoverStaleActive) /\ WF_vars(LockExpires)
    /\ WF_vars(UpstreamEnds)

LiveSpec == Spec /\ Fairness

-----------------------------------------------------------------------------
(* Properties *)

\* Types of the variables; a retry beyond the limit costs a failure.
JobType ==
    /\ status \in Statuses /\ named \in BOOLEAN
    /\ retries \in Nat /\ retries <= MaxRetries + faults
MoneyType ==
    /\ balance \in Nat /\ frozen \in Nat
    /\ held \in BOOLEAN /\ captured \in BOOLEAN
    /\ released \in {"none", "skipped", "done"}
    /\ unanswered \in BOOLEAN
QueueType ==
    /\ ready \in Nat /\ delayed \in BOOLEAN /\ active \in BOOLEAN /\ inflight \in BOOLEAN
    /\ lock \in Workers \cup {"free", "orphan"}
ProviderType ==
    /\ upstream \in {"none", "running", "succeeded", "failed", "cancelled"}
    /\ output \in Outputs
PcType == pc \in [Procs -> Labels]
BudgetType ==
    /\ cancels \in 0..MaxCancels /\ faults \in 0..MaxFaults
    /\ crashes \in 0..MaxCrashes /\ slips \in 0..MaxSlips
TypeOK == JobType /\ MoneyType /\ QueueType /\ ProviderType /\ PcType /\ BudgetType

\* The hold is charged or returned, once, and never out of what the user's other
\* jobs hold in the same frozen balance: the job implements HoldPromise.
Promise == INSTANCE HoldPromise WITH
    account <- balance,
    aside <- frozen - Others,
    outcome <- IF captured THEN "charged" ELSE IF released = "done" THEN "returned" ELSE "open"
KeepsHoldPromise == Promise!Spec

\* A completed job has been charged; a failed or cancelled one has not, and a
\* charged one can no longer become so.
ChargedIffCompleted ==
    /\ status \in {"completed", "output_deleted"} => captured
    /\ captured => status \in {"settling", "completed", "output_deleted"}

\* While the job runs at the provider under the name on record, its hold is not
\* returned: the upstream work would be paid by nobody.
NoRefundWhileRunning == named /\ upstream = "running" => released # "done"

\* Only a cancel can do that: neither the recovery of stale jobs nor a failing
\* submit or worker refunds a job that still runs.
OnlyCancelRefundsRunning == NoRefundWhileRunning \/ status = "cancelled"

\* A job that has been started and is not finished is in the queue, where its
\* in-flight key keeps it single, through crashes, conflicts and failures.
QueueKept ==
    status \in {"running", "indexing", "settling"} =>
        inflight /\ (ready > 0 \/ delayed \/ active)

\* Nobody is at work on the job and nothing is queued for it.
Quiet ==
    /\ ready = 0 /\ ~delayed /\ ~active
    /\ pc["submit"] = "done"
    /\ \A p \in Procs \ {"submit"} : pc[p] = "idle"

\* The request failed the job for a reserve that had been made although its answer
\* was lost.  It releases nothing, and what it failed no sweep looks for.
Stranded == unanswered /\ status = "failed"

\* When a failed or cancelled job has come to rest, its hold is back with the
\* user.  The exceptions are a cancel that released before the submit reserved,
\* and a job stranded by a reserve whose answer was lost.
ReturnedWhenQuiet ==
    Quiet /\ status \in {"failed", "cancelled"} =>
        frozen = Others \/ released = "skipped" \/ Stranded

\* The job is over and its hold is charged or returned.
AtRest == status \in Terminal /\ (frozen = Others \/ released = "skipped")

\* Submitted, but the request ended before the job was in the queue: nothing but
\* the client's next request with the same key puts it there.
NeverQueued == status = "submitted" /\ ~inflight /\ pc["submit"] = "done"

\* Every job comes to rest, whatever failed and whoever stopped on the way; what
\* may keep one from it is a queue it never reached, or a stranded hold.
JobSettles == (status # "none") ~> (AtRest \/ NeverQueued \/ Stranded)

-----------------------------------------------------------------------------
(* The inductive invariant of the proofs: with a lock that its holder keeps, *)
(* and fewer failures than the settlement has retries.                       *)

Early == {"created", "uploading"}
Lost == {"failed", "cancelled"}
Settled == {"settling", "completed", "output_deleted"}
Accepted == Settled \cup {"submitted", "running", "indexing"}
UnderLock == WorkerLabels \ {"lock", "requeue", "unlock"}
Polling == {"get", "toRunning", "toIndexing", "index", "toSettling", "toFailed", "toCancelled"}
Exhausting == {"exhaust", "exhaustFail", "exhaustRecord"}
Settling == {"capture", "recordFailure", "markSettled"} \cup Exhausting

\* The request has the job to itself until the provider's name is recorded, and
\* nobody touches a job that does not exist yet.
SubmitInv ==
    /\ pc["submit"] = "idle" => status = "none" /\ ~held /\ released = "none"
    /\ pc["submit"] \notin {"idle", "enqueue", "done"} => status \in Early \cup Lost
    /\ status = "none" => ready = 0 /\ ~delayed /\ ~active /\ \A p \in Procs : pc[p] = "idle"
    /\ pc["submit"] = "reserve" => ~held
    /\ pc["submit"] \in {"items", "upload", "provider", "record"} => held
    /\ status \in Accepted => held

\* A cancel or a sweep that is about to release has seen to it that the job is lost.
ReleaserInv ==
    /\ pc["cancel"] = "cancelRelease" => status \in Lost
    /\ pc["recovery"] = "sweepRelease" => status \in Lost

\* What a worker relies on while it holds the lock.
WorkerAt(w) ==
    /\ pc[w] \in UnderLock => lock = w
    /\ pc[w] = "release" => status \in Lost
    /\ pc[w] \in Polling => status \notin Settled
    /\ pc[w] \in Settling => status = "settling"
    /\ pc[w] = "capture" => output # "unbillable" /\ retries < MaxRetries
    /\ pc[w] = "markSettled" => captured
    /\ pc[w] = "recordFailure" =>
          retries < MaxRetries /\ (output = "unbillable" \/ retries < faults)
    /\ pc[w] \in Exhausting => retries >= MaxRetries
    /\ pc[w] = "exhaustRecord" => retries < MaxRetries + faults
WorkerInv == \A w \in Workers : WorkerAt(w)

\* A job the provider has delivered well uses up a retry only with a failure.
RetryInv == output # "unbillable" => retries <= faults

\* What the ledger says of the frozen balance, and of the job.
MoneyInv ==
    /\ frozen = Others + (IF held /\ ~captured /\ released # "done" THEN Hold ELSE 0)
    /\ captured => held /\ output # "unbillable" /\ released = "none" /\ status \in Settled
    /\ status \in {"completed", "output_deleted"} => captured
    /\ released = "done" => held
    /\ released # "none" =>
          \/ status \in Lost
          \/ status \in Early
             /\ pc["submit"] \in {"markFailed", "markReleaseFailed", "enqueueRetry", "done"}
          \/ status = "settling" /\ retries >= MaxRetries

\* Work at the provider is known by name before anybody polls it, and over before
\* its result is used or its job failed.
PastUpstream == {"toIndexing", "index", "toSettling", "toFailed", "toCancelled"}
UpstreamInv ==
    /\ status \in Accepted => named
    /\ named => status \notin Early /\ pc["submit"] \in {"enqueue", "done"}
    /\ \A w \in Workers :
          /\ pc[w] \in Polling => named
          /\ pc[w] \in PastUpstream => upstream # "running"
    /\ status \in {"indexing"} \cup Settled => upstream # "running"
    /\ named /\ status = "failed" => upstream # "running"

\* The job has an entry somewhere in the queue.
Entry == ready > 0 \/ delayed \/ active

\* Nothing is left to do for the job but to end.
Finished ==
    \/ status \in {"completed", "output_deleted"}
    \/ status \in Lost /\ released # "none"

\* Until then the in-flight key and the entries agree, and whoever works on the
\* job works for an entry; only a finished job is acknowledged.
QueueInv ==
    /\ ~Finished =>
          /\ inflight <=> Entry
          /\ inflight \/ \A w \in Workers : pc[w] = "idle"
          /\ status \in {"running", "indexing", "settling"} => inflight
    /\ \A w \in Workers :
          /\ pc[w] = "process" => status # "settling"
          /\ pc[w] = "exhaustFail" => released # "none"
          /\ pc[w] = "ack" => Finished
          /\ pc[w] = "afterSettle" => status = "settling" \/ Finished

IInv == TypeOK /\ SubmitInv /\ ReleaserInv /\ WorkerInv /\ RetryInv /\ MoneyInv
        /\ UpstreamInv /\ QueueInv

\* Beyond IInv: while a lost job holds money, somebody is about to return it, or
\* the request did not learn that there is any.
Returning ==
    \/ Entry
    \/ pc["submit"] = "enqueueRetry"
    \/ pc["cancel"] \in {"cancelRelease", "enqueueRetry"}
    \/ pc["recovery"] \in {"sweepRelease", "enqueueRetry"}
ReturnInv ==
    /\ status \in Lost /\ released = "none" /\ held => Returning \/ Stranded
    /\ pc["submit"] = "reserve" /\ status \in Lost /\ released = "none" => Returning
    /\ pc["submit"] = "markFailed" => ~held \/ released # "none" \/ unanswered
=============================================================================
