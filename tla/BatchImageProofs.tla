-------------------------- MODULE BatchImageProofs --------------------------
(***************************************************************************)
(* A batch image job charges or returns its hold, once, for any number of  *)
(* workers, requests, failures and crashes, as long as the holder of the   *)
(* job lock keeps it and fewer steps fail than the settlement has retries. *)
(***************************************************************************)
EXTENDS BatchImage, TLAPS

\* A worker that lives keeps its lock, and failures alone do not use up the retries.
LockKept == "lock" \notin Slippable
RetriesLast == MaxFaults < MaxRetries

\* Who is about to return the hold of a lost job does so, or puts the job on the queue.
ReturnKept ==
    /\ Stoppable \cap {"cancelRelease", "sweepRelease", "enqueueRetry"} = {}
    /\ "enqueueRetry" \notin Failable

\* Types and bounds are kept by every step; a boolean that a step sets needs a
\* step of its own.
LEMMA TypeStep ==
    ASSUME IInv, [Next]_vars
    PROVE  TypeOK'
<1> USE BatchImageAssumption
<1> USE DEF Goto, Works, Fails, jobVars, moneyVars, queueVars, providerVars, budgetVars, Procs,
    Labels, SubmitLabels, WorkerLabels, UserLabels, IInv, TypeOK, JobType, MoneyType, QueueType,
    ProviderType, PcType, BudgetType, Statuses, Terminal, SubmitInv, MoneyInv
<1>1. ASSUME CreateJob PROVE TypeOK'
  BY <1>1 DEF CreateJob
<1>2. ASSUME ReserveHold PROVE TypeOK'
  <2>1. held' \in BOOLEAN
    BY <1>2, Zenon DEF ReserveHold, TakeHold
  <2>2. unanswered' \in BOOLEAN
    BY <1>2, Zenon DEF ReserveHold, TakeHold
  <2>3. QED
    BY <1>2, <2>1, <2>2 DEF ReserveHold, TakeHold
<1>3. ASSUME CreateItems PROVE TypeOK'
  BY <1>3 DEF CreateItems
<1>4. ASSUME StartUpload PROVE TypeOK'
  BY <1>4 DEF StartUpload, Transition, CanTransition
<1>5. ASSUME SubmitUpstream PROVE TypeOK'
  BY <1>5 DEF SubmitUpstream
<1>6. ASSUME RecordProviderJob PROVE TypeOK'
  <2>1. named' \in BOOLEAN
    BY <1>6, Zenon DEF RecordProviderJob, CanTransition
  <2>2. QED
    BY <1>6, <2>1 DEF RecordProviderJob, CanTransition
<1>7. ASSUME AbortOrphan PROVE TypeOK'
  BY <1>7 DEF AbortOrphan
<1>8. ASSUME EnqueueSubmitted PROVE TypeOK'
  <2>1. inflight' \in BOOLEAN
    BY <1>8, Zenon DEF EnqueueSubmitted, EnqueueStep, Enqueue
  <2>2. QED
    BY <1>8, <2>1 DEF EnqueueSubmitted, EnqueueStep, Enqueue
<1>9. ASSUME ReturnHold PROVE TypeOK'
  BY <1>9 DEF ReturnHold, ReleaseStep, Release, ReleaseRefused
<1>10. ASSUME MarkSubmitFailed PROVE TypeOK'
  BY <1>10 DEF MarkSubmitFailed
<1>11. ASSUME ReadSubmitted PROVE TypeOK'
  BY <1>11 DEF ReadSubmitted
<1>12. ASSUME EnqueueAgain PROVE TypeOK'
  <2>1. inflight' \in BOOLEAN
    BY <1>12, Zenon DEF EnqueueAgain, EnqueueStep, Enqueue
  <2>2. QED
    BY <1>12, <2>1 DEF EnqueueAgain, EnqueueStep, Enqueue
<1>13. ASSUME CancelRead PROVE TypeOK'
  BY <1>13 DEF CancelRead
<1>14. ASSUME CancelUpstream PROVE TypeOK'
  BY <1>14 DEF CancelUpstream
<1>15. ASSUME CancelJob PROVE TypeOK'
  BY <1>15 DEF CancelJob, Transition, CanTransition
<1>16. ASSUME CancelRelease PROVE TypeOK'
  BY <1>16 DEF CancelRelease, ReleaseStep, Release, ReleaseRefused
<1>17. ASSUME DeleteOutput PROVE TypeOK'
  BY <1>17 DEF DeleteOutput
<1>18. ASSUME FailStale PROVE TypeOK'
  BY <1>18 DEF FailStale, SubmitLooksDead, Expires
<1>19. ASSUME SweepRelease PROVE TypeOK'
  BY <1>19 DEF SweepRelease, ReleaseStep, Release, ReleaseRefused
<1>20. ASSUME NEW p \in {"submit", "cancel", "recovery"}, EnqueueRetry(p) PROVE TypeOK'
  <2>1. inflight' \in BOOLEAN
    BY <1>20, Zenon DEF EnqueueRetry, EnqueueStep, Enqueue
  <2>2. QED
    BY <1>20, <2>1 DEF EnqueueRetry, EnqueueStep, Enqueue
<1>21. ASSUME NEW w \in Workers, Reserve(w) PROVE TypeOK'
  BY <1>21 DEF Reserve
<1>22. ASSUME NEW w \in Workers, TryLock(w) PROVE TypeOK'
  BY <1>22 DEF TryLock
<1>23. ASSUME NEW w \in Workers, ReadForPipeline(w) PROVE TypeOK'
  BY <1>23 DEF ReadForPipeline, OnlyPc
<1>24. ASSUME NEW w \in Workers, ReadForProvider(w) PROVE TypeOK'
  BY <1>24 DEF ReadForProvider, OnlyPc
<1>25. ASSUME NEW w \in Workers, GetUpstream(w) PROVE TypeOK'
  BY <1>25 DEF GetUpstream, OnlyPc
<1>26. ASSUME NEW w \in Workers, MarkRunning(w) PROVE TypeOK'
  BY <1>26 DEF MarkRunning, OnlyJob, Transition, CanTransition
<1>27. ASSUME NEW w \in Workers, MarkIndexing(w) PROVE TypeOK'
  BY <1>27 DEF MarkIndexing, OnlyJob, Transition, CanTransition
<1>28. ASSUME NEW w \in Workers, IndexOutput(w) PROVE TypeOK'
  BY <1>28 DEF IndexOutput, OnlyPc
<1>29. ASSUME NEW w \in Workers, MarkSettling(w) PROVE TypeOK'
  BY <1>29 DEF MarkSettling, OnlyJob, Transition, CanTransition
<1>30. ASSUME NEW w \in Workers, MarkFailed(w) PROVE TypeOK'
  BY <1>30 DEF MarkFailed, OnlyJob, Transition, CanTransition
<1>31. ASSUME NEW w \in Workers, MarkCancelled(w) PROVE TypeOK'
  BY <1>31 DEF MarkCancelled, OnlyJob, Transition, CanTransition
<1>32. ASSUME NEW w \in Workers, ReleaseTerminalHold(w) PROVE TypeOK'
  BY <1>32 DEF ReleaseTerminalHold, OnlyMoney, ReleaseStep, Release, ReleaseRefused
<1>33. ASSUME NEW w \in Workers, StartSettle(w) PROVE TypeOK'
  BY <1>33 DEF StartSettle, OnlyPc
<1>34. ASSUME NEW w \in Workers, CaptureHold(w) PROVE TypeOK'
  <2>1. captured' \in BOOLEAN
    BY <1>34, Zenon DEF CaptureHold, OnlyMoney, Capture, CaptureRefused
  <2>2. QED
    BY <1>34, <2>1 DEF CaptureHold, OnlyMoney, Capture, CaptureRefused
<1>35. ASSUME NEW w \in Workers, RecordFailure(w) PROVE TypeOK'
  BY <1>35 DEF RecordFailure, OnlyJob, AfterFailure, WorkerInv, WorkerAt, Exhausting, Settling
<1>36. ASSUME NEW w \in Workers, ReleaseExhausted(w) PROVE TypeOK'
  BY <1>36 DEF ReleaseExhausted, OnlyMoney, ReleaseStep, Release, ReleaseRefused
<1>37. ASSUME NEW w \in Workers, RecordReleaseFailure(w) PROVE TypeOK'
  BY <1>37 DEF RecordReleaseFailure, OnlyJob, WorkerInv, WorkerAt, Exhausting, Settling
<1>38. ASSUME NEW w \in Workers, FailExhausted(w) PROVE TypeOK'
  BY <1>38 DEF FailExhausted, OnlyJob, Transition, CanTransition
<1>39. ASSUME NEW w \in Workers, MarkSettled(w) PROVE TypeOK'
  BY <1>39 DEF MarkSettled, OnlyJob
<1>40. ASSUME NEW w \in Workers, ReadAfterSettle(w) PROVE TypeOK'
  BY <1>40 DEF ReadAfterSettle, OnlyPc
<1>41. ASSUME NEW w \in Workers, RequeueAfter(w) PROVE TypeOK'
  <2>1. active' \in BOOLEAN
    BY <1>41, Zenon DEF RequeueAfter
  <2>2. delayed' \in BOOLEAN
    BY <1>41, Zenon DEF RequeueAfter
  <2>3. QED
    BY <1>41, <2>1, <2>2 DEF RequeueAfter
<1>42. ASSUME NEW w \in Workers, Ack(w) PROVE TypeOK'
  <2>1. active' \in BOOLEAN
    BY <1>42, Zenon DEF Ack
  <2>2. delayed' \in BOOLEAN
    BY <1>42, Zenon DEF Ack
  <2>3. inflight' \in BOOLEAN
    BY <1>42, Zenon DEF Ack
  <2>4. QED
    BY <1>42, <2>1, <2>2, <2>3 DEF Ack
<1>43. ASSUME NEW w \in Workers, Unlock(w) PROVE TypeOK'
  BY <1>43 DEF Unlock
<1>44. ASSUME MoveDueDelayed PROVE TypeOK'
  <2>1. delayed' \in BOOLEAN
    BY <1>44, Zenon DEF MoveDueDelayed
  <2>2. QED
    BY <1>44, <2>1 DEF MoveDueDelayed
<1>45. ASSUME RecoverStaleActive PROVE TypeOK'
  <2>1. active' \in BOOLEAN
    BY <1>45, Zenon DEF RecoverStaleActive, Expires
  <2>2. QED
    BY <1>45, <2>1 DEF RecoverStaleActive, Expires
<1>46. ASSUME LockExpires PROVE TypeOK'
  BY <1>46 DEF LockExpires, Expires
<1>47. ASSUME UpstreamEnds PROVE TypeOK'
  BY <1>47 DEF UpstreamEnds
<1>48. ASSUME NEW p \in Procs, Crash(p) PROVE TypeOK'
  BY <1>48 DEF Crash
<1>49. ASSUME UNCHANGED vars PROVE TypeOK'
  BY <1>49 DEF vars
<1>50. QED
  BY <1>1, <1>2, <1>3, <1>4, <1>5, <1>6, <1>7, <1>8, <1>9, <1>10, <1>11, <1>12, <1>13, <1>14,
     <1>15, <1>16, <1>17, <1>18, <1>19, <1>20, <1>21, <1>22, <1>23, <1>24, <1>25, <1>26, <1>27,
     <1>28, <1>29, <1>30, <1>31, <1>32, <1>33, <1>34, <1>35, <1>36, <1>37, <1>38, <1>39, <1>40,
     <1>41, <1>42, <1>43, <1>44, <1>45, <1>46, <1>47, <1>48, <1>49 DEF Next, SubmitNext,
     CancelNext, RecoveryNext, WorkerNext, PipelineNext, SettlementNext, QueueNext

\* The request keeps the job to itself, and a job that is to be released stays lost.
LEMMA SubmitStep ==
    ASSUME IInv, [Next]_vars
    PROVE  SubmitInv' /\ ReleaserInv'
<1> USE BatchImageAssumption
<1> USE DEF Goto, Works, Fails, jobVars, moneyVars, queueVars, providerVars, budgetVars, IInv,
    TypeOK, PcType, QueueType, Procs, SubmitInv, ReleaserInv, Early, Lost, Accepted, Settled,
    Terminal
<1>1. ASSUME CreateJob PROVE SubmitInv' /\ ReleaserInv'
  BY <1>1 DEF CreateJob
<1>2. ASSUME ReserveHold PROVE SubmitInv' /\ ReleaserInv'
  BY <1>2 DEF ReserveHold, TakeHold
<1>3. ASSUME CreateItems PROVE SubmitInv' /\ ReleaserInv'
  BY <1>3 DEF CreateItems
<1>4. ASSUME StartUpload PROVE SubmitInv' /\ ReleaserInv'
  BY <1>4 DEF StartUpload, Transition, CanTransition
<1>5. ASSUME SubmitUpstream PROVE SubmitInv' /\ ReleaserInv'
  BY <1>5 DEF SubmitUpstream
<1>6. ASSUME RecordProviderJob PROVE SubmitInv' /\ ReleaserInv'
  BY <1>6 DEF RecordProviderJob, CanTransition
<1>7. ASSUME AbortOrphan PROVE SubmitInv' /\ ReleaserInv'
  BY <1>7 DEF AbortOrphan
<1>8. ASSUME EnqueueSubmitted PROVE SubmitInv' /\ ReleaserInv'
  BY <1>8 DEF EnqueueSubmitted, EnqueueStep, Enqueue
<1>9. ASSUME ReturnHold PROVE SubmitInv' /\ ReleaserInv'
  BY <1>9 DEF ReturnHold, ReleaseStep, Release, ReleaseRefused
<1>10. ASSUME MarkSubmitFailed PROVE SubmitInv' /\ ReleaserInv'
  BY <1>10 DEF MarkSubmitFailed
<1>11. ASSUME ReadSubmitted PROVE SubmitInv' /\ ReleaserInv'
  BY <1>11 DEF ReadSubmitted
<1>12. ASSUME EnqueueAgain PROVE SubmitInv' /\ ReleaserInv'
  BY <1>12 DEF EnqueueAgain, EnqueueStep, Enqueue
<1>13. ASSUME CancelRead PROVE SubmitInv' /\ ReleaserInv'
  BY <1>13 DEF CancelRead
<1>14. ASSUME CancelUpstream PROVE SubmitInv' /\ ReleaserInv'
  BY <1>14 DEF CancelUpstream
<1>15. ASSUME CancelJob PROVE SubmitInv' /\ ReleaserInv'
  BY <1>15 DEF CancelJob, Transition, CanTransition
<1>16. ASSUME CancelRelease PROVE SubmitInv' /\ ReleaserInv'
  BY <1>16 DEF CancelRelease, ReleaseStep, Release, ReleaseRefused
<1>17. ASSUME DeleteOutput PROVE SubmitInv' /\ ReleaserInv'
  BY <1>17 DEF DeleteOutput
<1>18. ASSUME FailStale PROVE SubmitInv' /\ ReleaserInv'
  BY <1>18 DEF FailStale, SubmitLooksDead, Expires
<1>19. ASSUME SweepRelease PROVE SubmitInv' /\ ReleaserInv'
  BY <1>19 DEF SweepRelease, ReleaseStep, Release, ReleaseRefused
<1>20. ASSUME NEW p \in {"submit", "cancel", "recovery"}, EnqueueRetry(p)
      PROVE  SubmitInv' /\ ReleaserInv'
  BY <1>20 DEF EnqueueRetry, EnqueueStep, Enqueue
<1>21. ASSUME NEW w \in Workers, Reserve(w) PROVE SubmitInv' /\ ReleaserInv'
  BY <1>21 DEF Reserve
<1>22. ASSUME NEW w \in Workers, TryLock(w) PROVE SubmitInv' /\ ReleaserInv'
  BY <1>22 DEF TryLock
<1>23. ASSUME NEW w \in Workers, ReadForPipeline(w) PROVE SubmitInv' /\ ReleaserInv'
  BY <1>23 DEF ReadForPipeline, OnlyPc
<1>24. ASSUME NEW w \in Workers, ReadForProvider(w) PROVE SubmitInv' /\ ReleaserInv'
  BY <1>24 DEF ReadForProvider, OnlyPc
<1>25. ASSUME NEW w \in Workers, GetUpstream(w) PROVE SubmitInv' /\ ReleaserInv'
  BY <1>25 DEF GetUpstream, OnlyPc
<1>26. ASSUME NEW w \in Workers, MarkRunning(w) PROVE SubmitInv' /\ ReleaserInv'
  BY <1>26 DEF MarkRunning, OnlyJob, Transition, CanTransition
<1>27. ASSUME NEW w \in Workers, MarkIndexing(w) PROVE SubmitInv' /\ ReleaserInv'
  BY <1>27 DEF MarkIndexing, OnlyJob, Transition, CanTransition
<1>28. ASSUME NEW w \in Workers, IndexOutput(w) PROVE SubmitInv' /\ ReleaserInv'
  BY <1>28 DEF IndexOutput, OnlyPc
<1>29. ASSUME NEW w \in Workers, MarkSettling(w) PROVE SubmitInv' /\ ReleaserInv'
  BY <1>29 DEF MarkSettling, OnlyJob, Transition, CanTransition
<1>30. ASSUME NEW w \in Workers, MarkFailed(w) PROVE SubmitInv' /\ ReleaserInv'
  BY <1>30 DEF MarkFailed, OnlyJob, Transition, CanTransition, WorkerInv, WorkerAt, Polling
<1>31. ASSUME NEW w \in Workers, MarkCancelled(w) PROVE SubmitInv' /\ ReleaserInv'
  BY <1>31 DEF MarkCancelled, OnlyJob, Transition, CanTransition
<1>32. ASSUME NEW w \in Workers, ReleaseTerminalHold(w) PROVE SubmitInv' /\ ReleaserInv'
  BY <1>32 DEF ReleaseTerminalHold, OnlyMoney, ReleaseStep, Release, ReleaseRefused, WorkerInv,
     WorkerAt
<1>33. ASSUME NEW w \in Workers, StartSettle(w) PROVE SubmitInv' /\ ReleaserInv'
  BY <1>33 DEF StartSettle, OnlyPc
<1>34. ASSUME NEW w \in Workers, CaptureHold(w) PROVE SubmitInv' /\ ReleaserInv'
  BY <1>34 DEF CaptureHold, OnlyMoney, Capture, CaptureRefused
<1>35. ASSUME NEW w \in Workers, RecordFailure(w) PROVE SubmitInv' /\ ReleaserInv'
  BY <1>35 DEF RecordFailure, OnlyJob, AfterFailure
<1>36. ASSUME NEW w \in Workers, ReleaseExhausted(w) PROVE SubmitInv' /\ ReleaserInv'
  BY <1>36 DEF ReleaseExhausted, OnlyMoney, ReleaseStep, Release, ReleaseRefused, WorkerInv,
     WorkerAt, Exhausting, Settling
<1>37. ASSUME NEW w \in Workers, RecordReleaseFailure(w) PROVE SubmitInv' /\ ReleaserInv'
  BY <1>37 DEF RecordReleaseFailure, OnlyJob
<1>38. ASSUME NEW w \in Workers, FailExhausted(w) PROVE SubmitInv' /\ ReleaserInv'
  BY <1>38 DEF FailExhausted, OnlyJob, Transition, CanTransition, WorkerInv, WorkerAt,
     Exhausting,
     Settling
<1>39. ASSUME NEW w \in Workers, MarkSettled(w) PROVE SubmitInv' /\ ReleaserInv'
  BY <1>39 DEF MarkSettled, OnlyJob
<1>40. ASSUME NEW w \in Workers, ReadAfterSettle(w) PROVE SubmitInv' /\ ReleaserInv'
  BY <1>40 DEF ReadAfterSettle, OnlyPc
<1>41. ASSUME NEW w \in Workers, RequeueAfter(w) PROVE SubmitInv' /\ ReleaserInv'
  BY <1>41 DEF RequeueAfter
<1>42. ASSUME NEW w \in Workers, Ack(w) PROVE SubmitInv' /\ ReleaserInv'
  BY <1>42 DEF Ack
<1>43. ASSUME NEW w \in Workers, Unlock(w) PROVE SubmitInv' /\ ReleaserInv'
  BY <1>43 DEF Unlock
<1>44. ASSUME MoveDueDelayed PROVE SubmitInv' /\ ReleaserInv'
  BY <1>44 DEF MoveDueDelayed
<1>45. ASSUME RecoverStaleActive PROVE SubmitInv' /\ ReleaserInv'
  BY <1>45 DEF RecoverStaleActive, Expires
<1>46. ASSUME LockExpires PROVE SubmitInv' /\ ReleaserInv'
  BY <1>46 DEF LockExpires, Expires
<1>47. ASSUME UpstreamEnds PROVE SubmitInv' /\ ReleaserInv'
  BY <1>47 DEF UpstreamEnds
<1>48. ASSUME NEW p \in Procs, Crash(p) PROVE SubmitInv' /\ ReleaserInv'
  BY <1>48 DEF Crash
<1>49. ASSUME UNCHANGED vars PROVE SubmitInv' /\ ReleaserInv'
  BY <1>49 DEF vars
<1>50. QED
  BY <1>1, <1>2, <1>3, <1>4, <1>5, <1>6, <1>7, <1>8, <1>9, <1>10, <1>11, <1>12, <1>13, <1>14,
     <1>15, <1>16, <1>17, <1>18, <1>19, <1>20, <1>21, <1>22, <1>23, <1>24, <1>25, <1>26, <1>27,
     <1>28, <1>29, <1>30, <1>31, <1>32, <1>33, <1>34, <1>35, <1>36, <1>37, <1>38, <1>39, <1>40,
     <1>41, <1>42, <1>43, <1>44, <1>45, <1>46, <1>47, <1>48, <1>49 DEF Next, SubmitNext,
     CancelNext, RecoveryNext, WorkerNext, PipelineNext, SettlementNext, QueueNext

\* The holder of the lock goes by what it has read, as nobody else moves the job on;
\* a capture can be refused only by a failure.
LEMMA WorkerStep ==
    ASSUME LockKept, RetriesLast, IInv, [Next]_vars
    PROVE  WorkerInv'
<1> USE BatchImageAssumption
<1> USE DEF Goto, Works, Fails, jobVars, moneyVars, queueVars, providerVars, budgetVars,
    LockKept,
    RetriesLast, IInv, TypeOK, PcType, JobType, BudgetType, Procs, WorkerInv, WorkerAt, RetryInv,
    Early, Lost, Accepted, Settled, Terminal, UnderLock, WorkerLabels, Polling, Exhausting,
    Settling
<1>1. ASSUME CreateJob PROVE WorkerInv'
  BY <1>1 DEF CreateJob
<1>2. ASSUME ReserveHold PROVE WorkerInv'
  BY <1>2 DEF ReserveHold, TakeHold
<1>3. ASSUME CreateItems PROVE WorkerInv'
  BY <1>3 DEF CreateItems
<1>4. ASSUME StartUpload PROVE WorkerInv'
  BY <1>4 DEF StartUpload, Transition, CanTransition
<1>5. ASSUME SubmitUpstream PROVE WorkerInv'
  BY <1>5 DEF SubmitUpstream
<1>6. ASSUME RecordProviderJob PROVE WorkerInv'
  BY <1>6 DEF RecordProviderJob, CanTransition
<1>7. ASSUME AbortOrphan PROVE WorkerInv'
  BY <1>7 DEF AbortOrphan
<1>8. ASSUME EnqueueSubmitted PROVE WorkerInv'
  BY <1>8 DEF EnqueueSubmitted, EnqueueStep, Enqueue
<1>9. ASSUME ReturnHold PROVE WorkerInv'
  BY <1>9 DEF ReturnHold, ReleaseStep, Release, ReleaseRefused
<1>10. ASSUME MarkSubmitFailed PROVE WorkerInv'
  BY <1>10 DEF MarkSubmitFailed, SubmitInv
<1>11. ASSUME ReadSubmitted PROVE WorkerInv'
  BY <1>11 DEF ReadSubmitted
<1>12. ASSUME EnqueueAgain PROVE WorkerInv'
  BY <1>12 DEF EnqueueAgain, EnqueueStep, Enqueue
<1>13. ASSUME CancelRead PROVE WorkerInv'
  BY <1>13 DEF CancelRead
<1>14. ASSUME CancelUpstream PROVE WorkerInv'
  BY <1>14 DEF CancelUpstream
<1>15. ASSUME CancelJob PROVE WorkerInv'
  BY <1>15 DEF CancelJob, Transition, CanTransition
<1>16. ASSUME CancelRelease PROVE WorkerInv'
  BY <1>16 DEF CancelRelease, ReleaseStep, Release, ReleaseRefused
<1>17. ASSUME DeleteOutput PROVE WorkerInv'
  BY <1>17 DEF DeleteOutput
<1>18. ASSUME FailStale PROVE WorkerInv'
  BY <1>18 DEF FailStale, SubmitLooksDead, Expires
<1>19. ASSUME SweepRelease PROVE WorkerInv'
  BY <1>19 DEF SweepRelease, ReleaseStep, Release, ReleaseRefused
<1>20. ASSUME NEW p \in {"submit", "cancel", "recovery"}, EnqueueRetry(p) PROVE WorkerInv'
  BY <1>20 DEF EnqueueRetry, EnqueueStep, Enqueue
<1>21. ASSUME NEW w \in Workers, Reserve(w) PROVE WorkerInv'
  BY <1>21 DEF Reserve
<1>22. ASSUME NEW w \in Workers, TryLock(w) PROVE WorkerInv'
  BY <1>22 DEF TryLock
<1>23. ASSUME NEW w \in Workers, ReadForPipeline(w) PROVE WorkerInv'
  BY <1>23 DEF ReadForPipeline, OnlyPc
<1>24. ASSUME NEW w \in Workers, ReadForProvider(w) PROVE WorkerInv'
  BY <1>24 DEF ReadForProvider, OnlyPc
<1>25. ASSUME NEW w \in Workers, GetUpstream(w) PROVE WorkerInv'
  BY <1>25 DEF GetUpstream, OnlyPc
<1>26. ASSUME NEW w \in Workers, MarkRunning(w) PROVE WorkerInv'
  BY <1>26 DEF MarkRunning, OnlyJob, Transition, CanTransition
<1>27. ASSUME NEW w \in Workers, MarkIndexing(w) PROVE WorkerInv'
  BY <1>27 DEF MarkIndexing, OnlyJob, Transition, CanTransition
<1>28. ASSUME NEW w \in Workers, IndexOutput(w) PROVE WorkerInv'
  BY <1>28 DEF IndexOutput, OnlyPc
<1>29. ASSUME NEW w \in Workers, MarkSettling(w) PROVE WorkerInv'
  BY <1>29 DEF MarkSettling, OnlyJob, Transition, CanTransition
<1>30. ASSUME NEW w \in Workers, MarkFailed(w) PROVE WorkerInv'
  BY <1>30 DEF MarkFailed, OnlyJob, Transition, CanTransition
<1>31. ASSUME NEW w \in Workers, MarkCancelled(w) PROVE WorkerInv'
  BY <1>31 DEF MarkCancelled, OnlyJob, Transition, CanTransition
<1>32. ASSUME NEW w \in Workers, ReleaseTerminalHold(w) PROVE WorkerInv'
  BY <1>32 DEF ReleaseTerminalHold, OnlyMoney, ReleaseStep, Release, ReleaseRefused
<1>33. ASSUME NEW w \in Workers, StartSettle(w) PROVE WorkerInv'
  BY <1>33 DEF StartSettle, OnlyPc
<1>34. ASSUME NEW w \in Workers, CaptureHold(w) PROVE WorkerInv'
  BY <1>34 DEF CaptureHold, OnlyMoney, Capture, CaptureRefused, MoneyInv, MoneyType, SubmitInv
<1>35. ASSUME NEW w \in Workers, RecordFailure(w) PROVE WorkerInv'
  BY <1>35 DEF RecordFailure, OnlyJob, AfterFailure
<1>36. ASSUME NEW w \in Workers, ReleaseExhausted(w) PROVE WorkerInv'
  BY <1>36 DEF ReleaseExhausted, OnlyMoney, ReleaseStep, Release, ReleaseRefused, MoneyInv,
     MoneyType, SubmitInv
<1>37. ASSUME NEW w \in Workers, RecordReleaseFailure(w) PROVE WorkerInv'
  BY <1>37 DEF RecordReleaseFailure, OnlyJob
<1>38. ASSUME NEW w \in Workers, FailExhausted(w) PROVE WorkerInv'
  BY <1>38 DEF FailExhausted, OnlyJob, Transition, CanTransition
<1>39. ASSUME NEW w \in Workers, MarkSettled(w) PROVE WorkerInv'
  BY <1>39 DEF MarkSettled, OnlyJob
<1>40. ASSUME NEW w \in Workers, ReadAfterSettle(w) PROVE WorkerInv'
  BY <1>40 DEF ReadAfterSettle, OnlyPc
<1>41. ASSUME NEW w \in Workers, RequeueAfter(w) PROVE WorkerInv'
  BY <1>41 DEF RequeueAfter
<1>42. ASSUME NEW w \in Workers, Ack(w) PROVE WorkerInv'
  BY <1>42 DEF Ack
<1>43. ASSUME NEW w \in Workers, Unlock(w) PROVE WorkerInv'
  BY <1>43 DEF Unlock
<1>44. ASSUME MoveDueDelayed PROVE WorkerInv'
  BY <1>44 DEF MoveDueDelayed
<1>45. ASSUME RecoverStaleActive PROVE WorkerInv'
  BY <1>45 DEF RecoverStaleActive, Expires
<1>46. ASSUME LockExpires PROVE WorkerInv'
  BY <1>46 DEF LockExpires, Expires
<1>47. ASSUME UpstreamEnds PROVE WorkerInv'
  BY <1>47 DEF UpstreamEnds
<1>48. ASSUME NEW p \in Procs, Crash(p) PROVE WorkerInv'
  BY <1>48 DEF Crash
<1>49. ASSUME UNCHANGED vars PROVE WorkerInv'
  BY <1>49 DEF vars
<1>50. QED
  BY <1>1, <1>2, <1>3, <1>4, <1>5, <1>6, <1>7, <1>8, <1>9, <1>10, <1>11, <1>12, <1>13, <1>14,
     <1>15, <1>16, <1>17, <1>18, <1>19, <1>20, <1>21, <1>22, <1>23, <1>24, <1>25, <1>26, <1>27,
     <1>28, <1>29, <1>30, <1>31, <1>32, <1>33, <1>34, <1>35, <1>36, <1>37, <1>38, <1>39, <1>40,
     <1>41, <1>42, <1>43, <1>44, <1>45, <1>46, <1>47, <1>48, <1>49 DEF Next, SubmitNext,
     CancelNext, RecoveryNext, WorkerNext, PipelineNext, SettlementNext, QueueNext

\* The frozen balance is what the ledger says, and a job that could be charged never
\* runs out of retries.
LEMMA MoneyStep ==
    ASSUME LockKept, RetriesLast, IInv, [Next]_vars
    PROVE  RetryInv' /\ MoneyInv'
<1> USE BatchImageAssumption
<1> USE DEF Goto, Works, Fails, jobVars, moneyVars, queueVars, providerVars, budgetVars,
    LockKept,
    RetriesLast, IInv, TypeOK, PcType, JobType, MoneyType, BudgetType, Procs, WorkerInv, WorkerAt,
    SubmitInv, ReleaserInv, RetryInv, MoneyInv, Early, Lost, Accepted, Settled, Terminal,
    Exhausting, Settling
<1>1. ASSUME CreateJob PROVE RetryInv' /\ MoneyInv'
  BY <1>1 DEF CreateJob
<1>2. ASSUME ReserveHold PROVE RetryInv' /\ MoneyInv'
  BY <1>2 DEF ReserveHold, TakeHold
<1>3. ASSUME CreateItems PROVE RetryInv' /\ MoneyInv'
  BY <1>3 DEF CreateItems
<1>4. ASSUME StartUpload PROVE RetryInv' /\ MoneyInv'
  BY <1>4 DEF StartUpload, Transition, CanTransition
<1>5. ASSUME SubmitUpstream PROVE RetryInv' /\ MoneyInv'
  BY <1>5 DEF SubmitUpstream
<1>6. ASSUME RecordProviderJob PROVE RetryInv' /\ MoneyInv'
  BY <1>6 DEF RecordProviderJob, CanTransition
<1>7. ASSUME AbortOrphan PROVE RetryInv' /\ MoneyInv'
  BY <1>7 DEF AbortOrphan
<1>8. ASSUME EnqueueSubmitted PROVE RetryInv' /\ MoneyInv'
  BY <1>8 DEF EnqueueSubmitted, EnqueueStep, Enqueue
<1>9. ASSUME ReturnHold PROVE RetryInv' /\ MoneyInv'
  BY <1>9 DEF ReturnHold, ReleaseStep, Release, ReleaseRefused
<1>10. ASSUME MarkSubmitFailed PROVE RetryInv' /\ MoneyInv'
  BY <1>10 DEF MarkSubmitFailed
<1>11. ASSUME ReadSubmitted PROVE RetryInv' /\ MoneyInv'
  BY <1>11 DEF ReadSubmitted
<1>12. ASSUME EnqueueAgain PROVE RetryInv' /\ MoneyInv'
  BY <1>12 DEF EnqueueAgain, EnqueueStep, Enqueue
<1>13. ASSUME CancelRead PROVE RetryInv' /\ MoneyInv'
  BY <1>13 DEF CancelRead
<1>14. ASSUME CancelUpstream PROVE RetryInv' /\ MoneyInv'
  BY <1>14 DEF CancelUpstream
<1>15. ASSUME CancelJob PROVE RetryInv' /\ MoneyInv'
  BY <1>15 DEF CancelJob, Transition, CanTransition
<1>16. ASSUME CancelRelease PROVE RetryInv' /\ MoneyInv'
  BY <1>16 DEF CancelRelease, ReleaseStep, Release, ReleaseRefused
<1>17. ASSUME DeleteOutput PROVE RetryInv' /\ MoneyInv'
  BY <1>17 DEF DeleteOutput
<1>18. ASSUME FailStale PROVE RetryInv' /\ MoneyInv'
  BY <1>18 DEF FailStale, SubmitLooksDead, Expires
<1>19. ASSUME SweepRelease PROVE RetryInv' /\ MoneyInv'
  BY <1>19 DEF SweepRelease, ReleaseStep, Release, ReleaseRefused
<1>20. ASSUME NEW p \in {"submit", "cancel", "recovery"}, EnqueueRetry(p)
      PROVE  RetryInv' /\ MoneyInv'
  BY <1>20 DEF EnqueueRetry, EnqueueStep, Enqueue
<1>21. ASSUME NEW w \in Workers, Reserve(w) PROVE RetryInv' /\ MoneyInv'
  BY <1>21 DEF Reserve
<1>22. ASSUME NEW w \in Workers, TryLock(w) PROVE RetryInv' /\ MoneyInv'
  BY <1>22 DEF TryLock
<1>23. ASSUME NEW w \in Workers, ReadForPipeline(w) PROVE RetryInv' /\ MoneyInv'
  BY <1>23 DEF ReadForPipeline, OnlyPc
<1>24. ASSUME NEW w \in Workers, ReadForProvider(w) PROVE RetryInv' /\ MoneyInv'
  BY <1>24 DEF ReadForProvider, OnlyPc
<1>25. ASSUME NEW w \in Workers, GetUpstream(w) PROVE RetryInv' /\ MoneyInv'
  BY <1>25 DEF GetUpstream, OnlyPc
<1>26. ASSUME NEW w \in Workers, MarkRunning(w) PROVE RetryInv' /\ MoneyInv'
  BY <1>26 DEF MarkRunning, OnlyJob, Transition, CanTransition
<1>27. ASSUME NEW w \in Workers, MarkIndexing(w) PROVE RetryInv' /\ MoneyInv'
  BY <1>27 DEF MarkIndexing, OnlyJob, Transition, CanTransition
<1>28. ASSUME NEW w \in Workers, IndexOutput(w) PROVE RetryInv' /\ MoneyInv'
  BY <1>28 DEF IndexOutput, OnlyPc
<1>29. ASSUME NEW w \in Workers, MarkSettling(w) PROVE RetryInv' /\ MoneyInv'
  BY <1>29 DEF MarkSettling, OnlyJob, Transition, CanTransition
<1>30. ASSUME NEW w \in Workers, MarkFailed(w) PROVE RetryInv' /\ MoneyInv'
  BY <1>30 DEF MarkFailed, OnlyJob, Transition, CanTransition, Polling
<1>31. ASSUME NEW w \in Workers, MarkCancelled(w) PROVE RetryInv' /\ MoneyInv'
  BY <1>31 DEF MarkCancelled, OnlyJob, Transition, CanTransition
<1>32. ASSUME NEW w \in Workers, ReleaseTerminalHold(w) PROVE RetryInv' /\ MoneyInv'
  BY <1>32 DEF ReleaseTerminalHold, OnlyMoney, ReleaseStep, Release, ReleaseRefused
<1>33. ASSUME NEW w \in Workers, StartSettle(w) PROVE RetryInv' /\ MoneyInv'
  BY <1>33 DEF StartSettle, OnlyPc
<1>34. ASSUME NEW w \in Workers, CaptureHold(w) PROVE RetryInv' /\ MoneyInv'
  BY <1>34 DEF CaptureHold, OnlyMoney, Capture, CaptureRefused
<1>35. ASSUME NEW w \in Workers, RecordFailure(w) PROVE RetryInv' /\ MoneyInv'
  BY <1>35 DEF RecordFailure, OnlyJob, AfterFailure
<1>36. ASSUME NEW w \in Workers, ReleaseExhausted(w) PROVE RetryInv' /\ MoneyInv'
  BY <1>36 DEF ReleaseExhausted, OnlyMoney, ReleaseStep, Release, ReleaseRefused
<1>37. ASSUME NEW w \in Workers, RecordReleaseFailure(w) PROVE RetryInv' /\ MoneyInv'
  BY <1>37 DEF RecordReleaseFailure, OnlyJob
<1>38. ASSUME NEW w \in Workers, FailExhausted(w) PROVE RetryInv' /\ MoneyInv'
  BY <1>38 DEF FailExhausted, OnlyJob, Transition, CanTransition
<1>39. ASSUME NEW w \in Workers, MarkSettled(w) PROVE RetryInv' /\ MoneyInv'
  BY <1>39 DEF MarkSettled, OnlyJob
<1>40. ASSUME NEW w \in Workers, ReadAfterSettle(w) PROVE RetryInv' /\ MoneyInv'
  BY <1>40 DEF ReadAfterSettle, OnlyPc
<1>41. ASSUME NEW w \in Workers, RequeueAfter(w) PROVE RetryInv' /\ MoneyInv'
  BY <1>41 DEF RequeueAfter
<1>42. ASSUME NEW w \in Workers, Ack(w) PROVE RetryInv' /\ MoneyInv'
  BY <1>42 DEF Ack
<1>43. ASSUME NEW w \in Workers, Unlock(w) PROVE RetryInv' /\ MoneyInv'
  BY <1>43 DEF Unlock
<1>44. ASSUME MoveDueDelayed PROVE RetryInv' /\ MoneyInv'
  BY <1>44 DEF MoveDueDelayed
<1>45. ASSUME RecoverStaleActive PROVE RetryInv' /\ MoneyInv'
  BY <1>45 DEF RecoverStaleActive, Expires
<1>46. ASSUME LockExpires PROVE RetryInv' /\ MoneyInv'
  BY <1>46 DEF LockExpires, Expires
<1>47. ASSUME UpstreamEnds PROVE RetryInv' /\ MoneyInv'
  BY <1>47 DEF UpstreamEnds
<1>48. ASSUME NEW p \in Procs, Crash(p) PROVE RetryInv' /\ MoneyInv'
  BY <1>48 DEF Crash
<1>49. ASSUME UNCHANGED vars PROVE RetryInv' /\ MoneyInv'
  BY <1>49 DEF vars
<1>50. QED
  BY <1>1, <1>2, <1>3, <1>4, <1>5, <1>6, <1>7, <1>8, <1>9, <1>10, <1>11, <1>12, <1>13, <1>14,
     <1>15, <1>16, <1>17, <1>18, <1>19, <1>20, <1>21, <1>22, <1>23, <1>24, <1>25, <1>26, <1>27,
     <1>28, <1>29, <1>30, <1>31, <1>32, <1>33, <1>34, <1>35, <1>36, <1>37, <1>38, <1>39, <1>40,
     <1>41, <1>42, <1>43, <1>44, <1>45, <1>46, <1>47, <1>48, <1>49 DEF Next, SubmitNext,
     CancelNext, RecoveryNext, WorkerNext, PipelineNext, SettlementNext, QueueNext

\* The name of the upstream job is on record before it is polled, and the job has
\* ended upstream before its result is used.
LEMMA UpstreamStep ==
    ASSUME LockKept, RetriesLast, IInv, [Next]_vars
    PROVE  UpstreamInv'
<1> USE BatchImageAssumption
<1> USE DEF Goto, Works, Fails, jobVars, moneyVars, queueVars, providerVars, budgetVars,
    LockKept,
    IInv, TypeOK, PcType, JobType, ProviderType, Procs, WorkerInv, WorkerAt, SubmitInv,
    UpstreamInv, Early, Lost, Accepted, Settled, Terminal, Statuses, Polling, PastUpstream,
    Exhausting, Settling
<1>1. ASSUME CreateJob PROVE UpstreamInv'
  BY <1>1 DEF CreateJob
<1>2. ASSUME ReserveHold PROVE UpstreamInv'
  BY <1>2 DEF ReserveHold, TakeHold
<1>3. ASSUME CreateItems PROVE UpstreamInv'
  BY <1>3 DEF CreateItems
<1>4. ASSUME StartUpload PROVE UpstreamInv'
  BY <1>4 DEF StartUpload, Transition, CanTransition
<1>5. ASSUME SubmitUpstream PROVE UpstreamInv'
  BY <1>5 DEF SubmitUpstream
<1>6. ASSUME RecordProviderJob PROVE UpstreamInv'
  BY <1>6 DEF RecordProviderJob, CanTransition
<1>7. ASSUME AbortOrphan PROVE UpstreamInv'
  BY <1>7 DEF AbortOrphan
<1>8. ASSUME EnqueueSubmitted PROVE UpstreamInv'
  BY <1>8 DEF EnqueueSubmitted, EnqueueStep, Enqueue
<1>9. ASSUME ReturnHold PROVE UpstreamInv'
  BY <1>9 DEF ReturnHold, ReleaseStep, Release, ReleaseRefused
<1>10. ASSUME MarkSubmitFailed PROVE UpstreamInv'
  BY <1>10 DEF MarkSubmitFailed
<1>11. ASSUME ReadSubmitted PROVE UpstreamInv'
  BY <1>11 DEF ReadSubmitted
<1>12. ASSUME EnqueueAgain PROVE UpstreamInv'
  BY <1>12 DEF EnqueueAgain, EnqueueStep, Enqueue
<1>13. ASSUME CancelRead PROVE UpstreamInv'
  BY <1>13 DEF CancelRead
<1>14. ASSUME CancelUpstream PROVE UpstreamInv'
  BY <1>14 DEF CancelUpstream
<1>15. ASSUME CancelJob PROVE UpstreamInv'
  BY <1>15 DEF CancelJob, Transition, CanTransition
<1>16. ASSUME CancelRelease PROVE UpstreamInv'
  BY <1>16 DEF CancelRelease, ReleaseStep, Release, ReleaseRefused
<1>17. ASSUME DeleteOutput PROVE UpstreamInv'
  BY <1>17 DEF DeleteOutput
<1>18. ASSUME FailStale PROVE UpstreamInv'
  BY <1>18 DEF FailStale, SubmitLooksDead, Expires
<1>19. ASSUME SweepRelease PROVE UpstreamInv'
  BY <1>19 DEF SweepRelease, ReleaseStep, Release, ReleaseRefused
<1>20. ASSUME NEW p \in {"submit", "cancel", "recovery"}, EnqueueRetry(p) PROVE UpstreamInv'
  BY <1>20 DEF EnqueueRetry, EnqueueStep, Enqueue
<1>21. ASSUME NEW w \in Workers, Reserve(w) PROVE UpstreamInv'
  BY <1>21 DEF Reserve
<1>22. ASSUME NEW w \in Workers, TryLock(w) PROVE UpstreamInv'
  BY <1>22 DEF TryLock
<1>23. ASSUME NEW w \in Workers, ReadForPipeline(w) PROVE UpstreamInv'
  BY <1>23 DEF ReadForPipeline, OnlyPc
<1>24. ASSUME NEW w \in Workers, ReadForProvider(w) PROVE UpstreamInv'
  BY <1>24 DEF ReadForProvider, OnlyPc
<1>25. ASSUME NEW w \in Workers, GetUpstream(w) PROVE UpstreamInv'
  BY <1>25 DEF GetUpstream, OnlyPc
<1>26. ASSUME NEW w \in Workers, MarkRunning(w) PROVE UpstreamInv'
  BY <1>26 DEF MarkRunning, OnlyJob, Transition, CanTransition
<1>27. ASSUME NEW w \in Workers, MarkIndexing(w) PROVE UpstreamInv'
  BY <1>27 DEF MarkIndexing, OnlyJob, Transition, CanTransition
<1>28. ASSUME NEW w \in Workers, IndexOutput(w) PROVE UpstreamInv'
  BY <1>28 DEF IndexOutput, OnlyPc
<1>29. ASSUME NEW w \in Workers, MarkSettling(w) PROVE UpstreamInv'
  BY <1>29 DEF MarkSettling, OnlyJob, Transition, CanTransition
<1>30. ASSUME NEW w \in Workers, MarkFailed(w) PROVE UpstreamInv'
  BY <1>30 DEF MarkFailed, OnlyJob, Transition, CanTransition
<1>31. ASSUME NEW w \in Workers, MarkCancelled(w) PROVE UpstreamInv'
  BY <1>31 DEF MarkCancelled, OnlyJob, Transition, CanTransition
<1>32. ASSUME NEW w \in Workers, ReleaseTerminalHold(w) PROVE UpstreamInv'
  BY <1>32 DEF ReleaseTerminalHold, OnlyMoney, ReleaseStep, Release, ReleaseRefused
<1>33. ASSUME NEW w \in Workers, StartSettle(w) PROVE UpstreamInv'
  BY <1>33 DEF StartSettle, OnlyPc
<1>34. ASSUME NEW w \in Workers, CaptureHold(w) PROVE UpstreamInv'
  BY <1>34 DEF CaptureHold, OnlyMoney, Capture, CaptureRefused
<1>35. ASSUME NEW w \in Workers, RecordFailure(w) PROVE UpstreamInv'
  BY <1>35 DEF RecordFailure, OnlyJob, AfterFailure
<1>36. ASSUME NEW w \in Workers, ReleaseExhausted(w) PROVE UpstreamInv'
  BY <1>36 DEF ReleaseExhausted, OnlyMoney, ReleaseStep, Release, ReleaseRefused
<1>37. ASSUME NEW w \in Workers, RecordReleaseFailure(w) PROVE UpstreamInv'
  BY <1>37 DEF RecordReleaseFailure, OnlyJob
<1>38. ASSUME NEW w \in Workers, FailExhausted(w) PROVE UpstreamInv'
  BY <1>38 DEF FailExhausted, OnlyJob, Transition, CanTransition
<1>39. ASSUME NEW w \in Workers, MarkSettled(w) PROVE UpstreamInv'
  BY <1>39 DEF MarkSettled, OnlyJob
<1>40. ASSUME NEW w \in Workers, ReadAfterSettle(w) PROVE UpstreamInv'
  BY <1>40 DEF ReadAfterSettle, OnlyPc
<1>41. ASSUME NEW w \in Workers, RequeueAfter(w) PROVE UpstreamInv'
  BY <1>41 DEF RequeueAfter
<1>42. ASSUME NEW w \in Workers, Ack(w) PROVE UpstreamInv'
  BY <1>42 DEF Ack
<1>43. ASSUME NEW w \in Workers, Unlock(w) PROVE UpstreamInv'
  BY <1>43 DEF Unlock
<1>44. ASSUME MoveDueDelayed PROVE UpstreamInv'
  BY <1>44 DEF MoveDueDelayed
<1>45. ASSUME RecoverStaleActive PROVE UpstreamInv'
  BY <1>45 DEF RecoverStaleActive, Expires
<1>46. ASSUME LockExpires PROVE UpstreamInv'
  BY <1>46 DEF LockExpires, Expires
<1>47. ASSUME UpstreamEnds PROVE UpstreamInv'
  BY <1>47 DEF UpstreamEnds
<1>48. ASSUME NEW p \in Procs, Crash(p) PROVE UpstreamInv'
  BY <1>48 DEF Crash
<1>49. ASSUME UNCHANGED vars PROVE UpstreamInv'
  BY <1>49 DEF vars
<1>50. QED
  BY <1>1, <1>2, <1>3, <1>4, <1>5, <1>6, <1>7, <1>8, <1>9, <1>10, <1>11, <1>12, <1>13, <1>14,
     <1>15, <1>16, <1>17, <1>18, <1>19, <1>20, <1>21, <1>22, <1>23, <1>24, <1>25, <1>26, <1>27,
     <1>28, <1>29, <1>30, <1>31, <1>32, <1>33, <1>34, <1>35, <1>36, <1>37, <1>38, <1>39, <1>40,
     <1>41, <1>42, <1>43, <1>44, <1>45, <1>46, <1>47, <1>48, <1>49 DEF Next, SubmitNext,
     CancelNext, RecoveryNext, WorkerNext, PipelineNext, SettlementNext, QueueNext

\* The in-flight key and the entries of an unfinished job agree.
LEMMA QueueStep ==
    ASSUME LockKept, RetriesLast, IInv, [Next]_vars
    PROVE  QueueInv'
<1> USE BatchImageAssumption
<1> USE DEF Goto, Works, Fails, jobVars, moneyVars, queueVars, providerVars, budgetVars,
    LockKept,
    IInv, TypeOK, PcType, QueueType, Procs, WorkerInv, WorkerAt, SubmitInv, QueueInv, Entry,
    Finished, Lost, Settled, Terminal, UnderLock, WorkerLabels
<1>1. ASSUME CreateJob PROVE QueueInv'
  BY <1>1 DEF CreateJob
<1>2. ASSUME ReserveHold PROVE QueueInv'
  BY <1>2 DEF ReserveHold, TakeHold
<1>3. ASSUME CreateItems PROVE QueueInv'
  BY <1>3 DEF CreateItems
<1>4. ASSUME StartUpload PROVE QueueInv'
  BY <1>4 DEF StartUpload, Transition, CanTransition
<1>5. ASSUME SubmitUpstream PROVE QueueInv'
  BY <1>5 DEF SubmitUpstream
<1>6. ASSUME RecordProviderJob PROVE QueueInv'
  BY <1>6 DEF RecordProviderJob, CanTransition
<1>7. ASSUME AbortOrphan PROVE QueueInv'
  BY <1>7 DEF AbortOrphan
<1>8. ASSUME EnqueueSubmitted PROVE QueueInv'
  BY <1>8 DEF EnqueueSubmitted, EnqueueStep, Enqueue
<1>9. ASSUME ReturnHold PROVE QueueInv'
  BY <1>9 DEF ReturnHold, ReleaseStep, Release, ReleaseRefused
<1>10. ASSUME MarkSubmitFailed PROVE QueueInv'
  BY <1>10 DEF MarkSubmitFailed, Early
<1>11. ASSUME ReadSubmitted PROVE QueueInv'
  BY <1>11 DEF ReadSubmitted
<1>12. ASSUME EnqueueAgain PROVE QueueInv'
  BY <1>12 DEF EnqueueAgain, EnqueueStep, Enqueue
<1>13. ASSUME CancelRead PROVE QueueInv'
  BY <1>13 DEF CancelRead
<1>14. ASSUME CancelUpstream PROVE QueueInv'
  BY <1>14 DEF CancelUpstream
<1>15. ASSUME CancelJob PROVE QueueInv'
  BY <1>15 DEF CancelJob, Transition, CanTransition
<1>16. ASSUME CancelRelease PROVE QueueInv'
  BY <1>16 DEF CancelRelease, ReleaseStep, Release, ReleaseRefused
<1>17. ASSUME DeleteOutput PROVE QueueInv'
  BY <1>17 DEF DeleteOutput
<1>18. ASSUME FailStale PROVE QueueInv'
  BY <1>18 DEF FailStale, SubmitLooksDead, Expires
<1>19. ASSUME SweepRelease PROVE QueueInv'
  BY <1>19 DEF SweepRelease, ReleaseStep, Release, ReleaseRefused
<1>20. ASSUME NEW p \in {"submit", "cancel", "recovery"}, EnqueueRetry(p) PROVE QueueInv'
  BY <1>20 DEF EnqueueRetry, EnqueueStep, Enqueue
<1>21. ASSUME NEW w \in Workers, Reserve(w) PROVE QueueInv'
  BY <1>21 DEF Reserve
<1>22. ASSUME NEW w \in Workers, TryLock(w) PROVE QueueInv'
  BY <1>22 DEF TryLock
<1>23. ASSUME NEW w \in Workers, ReadForPipeline(w) PROVE QueueInv'
  BY <1>23 DEF ReadForPipeline, OnlyPc
<1>24. ASSUME NEW w \in Workers, ReadForProvider(w) PROVE QueueInv'
  BY <1>24 DEF ReadForProvider, OnlyPc
<1>25. ASSUME NEW w \in Workers, GetUpstream(w) PROVE QueueInv'
  BY <1>25 DEF GetUpstream, OnlyPc
<1>26. ASSUME NEW w \in Workers, MarkRunning(w) PROVE QueueInv'
  BY <1>26 DEF MarkRunning, OnlyJob, Transition, CanTransition
<1>27. ASSUME NEW w \in Workers, MarkIndexing(w) PROVE QueueInv'
  BY <1>27 DEF MarkIndexing, OnlyJob, Transition, CanTransition
<1>28. ASSUME NEW w \in Workers, IndexOutput(w) PROVE QueueInv'
  BY <1>28 DEF IndexOutput, OnlyPc
<1>29. ASSUME NEW w \in Workers, MarkSettling(w) PROVE QueueInv'
  BY <1>29 DEF MarkSettling, OnlyJob, Transition, CanTransition
<1>30. ASSUME NEW w \in Workers, MarkFailed(w) PROVE QueueInv'
  BY <1>30 DEF MarkFailed, OnlyJob, Transition, CanTransition
<1>31. ASSUME NEW w \in Workers, MarkCancelled(w) PROVE QueueInv'
  BY <1>31 DEF MarkCancelled, OnlyJob, Transition, CanTransition
<1>32. ASSUME NEW w \in Workers, ReleaseTerminalHold(w) PROVE QueueInv'
  BY <1>32 DEF ReleaseTerminalHold, OnlyMoney, ReleaseStep, Release, ReleaseRefused
<1>33. ASSUME NEW w \in Workers, StartSettle(w) PROVE QueueInv'
  BY <1>33 DEF StartSettle, OnlyPc
<1>34. ASSUME NEW w \in Workers, CaptureHold(w) PROVE QueueInv'
  BY <1>34 DEF CaptureHold, OnlyMoney, Capture, CaptureRefused
<1>35. ASSUME NEW w \in Workers, RecordFailure(w) PROVE QueueInv'
  BY <1>35 DEF RecordFailure, OnlyJob, AfterFailure, Settling, Exhausting
<1>36. ASSUME NEW w \in Workers, ReleaseExhausted(w) PROVE QueueInv'
  BY <1>36 DEF ReleaseExhausted, OnlyMoney, ReleaseStep, Release, ReleaseRefused
<1>37. ASSUME NEW w \in Workers, RecordReleaseFailure(w) PROVE QueueInv'
  BY <1>37 DEF RecordReleaseFailure, OnlyJob, Settling, Exhausting
<1>38. ASSUME NEW w \in Workers, FailExhausted(w) PROVE QueueInv'
  BY <1>38 DEF FailExhausted, OnlyJob, Transition, CanTransition
<1>39. ASSUME NEW w \in Workers, MarkSettled(w) PROVE QueueInv'
  BY <1>39 DEF MarkSettled, OnlyJob
<1>40. ASSUME NEW w \in Workers, ReadAfterSettle(w) PROVE QueueInv'
  BY <1>40 DEF ReadAfterSettle, OnlyPc
<1>41. ASSUME NEW w \in Workers, RequeueAfter(w) PROVE QueueInv'
  BY <1>41 DEF RequeueAfter
<1>42. ASSUME NEW w \in Workers, Ack(w) PROVE QueueInv'
  BY <1>42 DEF Ack
<1>43. ASSUME NEW w \in Workers, Unlock(w) PROVE QueueInv'
  BY <1>43 DEF Unlock
<1>44. ASSUME MoveDueDelayed PROVE QueueInv'
  BY <1>44 DEF MoveDueDelayed
<1>45. ASSUME RecoverStaleActive PROVE QueueInv'
  BY <1>45 DEF RecoverStaleActive, Expires
<1>46. ASSUME LockExpires PROVE QueueInv'
  BY <1>46 DEF LockExpires, Expires
<1>47. ASSUME UpstreamEnds PROVE QueueInv'
  BY <1>47 DEF UpstreamEnds
<1>48. ASSUME NEW p \in Procs, Crash(p) PROVE QueueInv'
  BY <1>48 DEF Crash
<1>49. ASSUME UNCHANGED vars PROVE QueueInv'
  BY <1>49 DEF vars
<1>50. QED
  BY <1>1, <1>2, <1>3, <1>4, <1>5, <1>6, <1>7, <1>8, <1>9, <1>10, <1>11, <1>12, <1>13, <1>14,
     <1>15, <1>16, <1>17, <1>18, <1>19, <1>20, <1>21, <1>22, <1>23, <1>24, <1>25, <1>26, <1>27,
     <1>28, <1>29, <1>30, <1>31, <1>32, <1>33, <1>34, <1>35, <1>36, <1>37, <1>38, <1>39, <1>40,
     <1>41, <1>42, <1>43, <1>44, <1>45, <1>46, <1>47, <1>48, <1>49 DEF Next, SubmitNext,
     CancelNext, RecoveryNext, WorkerNext, PipelineNext, SettlementNext, QueueNext

\* Somebody is about to return what a lost job holds.
LEMMA ReturnStep ==
    ASSUME LockKept, RetriesLast, ReturnKept, IInv, ReturnInv, [Next]_vars
    PROVE  ReturnInv'
<1> USE BatchImageAssumption
<1> USE DEF Goto, Works, Fails, jobVars, moneyVars, queueVars, providerVars, budgetVars,
    ReturnKept, IInv, TypeOK, PcType, QueueType, Procs, WorkerInv, WorkerAt, SubmitInv,
    ReleaserInv, QueueInv, ReturnInv, Stranded, Returning, Entry, Finished, Early, Lost,
    Settled, Accepted, Terminal
<1>1. ASSUME CreateJob PROVE ReturnInv'
  BY <1>1 DEF CreateJob
<1>2. ASSUME ReserveHold PROVE ReturnInv'
  BY <1>2 DEF ReserveHold, TakeHold
<1>3. ASSUME CreateItems PROVE ReturnInv'
  BY <1>3 DEF CreateItems
<1>4. ASSUME StartUpload PROVE ReturnInv'
  BY <1>4 DEF StartUpload, Transition, CanTransition
<1>5. ASSUME SubmitUpstream PROVE ReturnInv'
  BY <1>5 DEF SubmitUpstream
<1>6. ASSUME RecordProviderJob PROVE ReturnInv'
  BY <1>6 DEF RecordProviderJob, CanTransition
<1>7. ASSUME AbortOrphan PROVE ReturnInv'
  BY <1>7 DEF AbortOrphan
<1>8. ASSUME EnqueueSubmitted PROVE ReturnInv'
  BY <1>8 DEF EnqueueSubmitted, EnqueueStep, Enqueue
<1>9. ASSUME ReturnHold PROVE ReturnInv'
  BY <1>9 DEF ReturnHold, ReleaseStep, Release, ReleaseRefused
<1>10. ASSUME MarkSubmitFailed PROVE ReturnInv'
  BY <1>10 DEF MarkSubmitFailed
<1>11. ASSUME ReadSubmitted PROVE ReturnInv'
  BY <1>11 DEF ReadSubmitted
<1>12. ASSUME EnqueueAgain PROVE ReturnInv'
  BY <1>12 DEF EnqueueAgain, EnqueueStep, Enqueue
<1>13. ASSUME CancelRead PROVE ReturnInv'
  BY <1>13 DEF CancelRead
<1>14. ASSUME CancelUpstream PROVE ReturnInv'
  BY <1>14 DEF CancelUpstream
<1>15. ASSUME CancelJob PROVE ReturnInv'
  BY <1>15 DEF CancelJob, Transition, CanTransition
<1>16. ASSUME CancelRelease PROVE ReturnInv'
  BY <1>16 DEF CancelRelease, ReleaseStep, Release, ReleaseRefused
<1>17. ASSUME DeleteOutput PROVE ReturnInv'
  BY <1>17 DEF DeleteOutput
<1>18. ASSUME FailStale PROVE ReturnInv'
  BY <1>18 DEF FailStale, SubmitLooksDead, Expires
<1>19. ASSUME SweepRelease PROVE ReturnInv'
  BY <1>19 DEF SweepRelease, ReleaseStep, Release, ReleaseRefused
<1>20. ASSUME NEW p \in {"submit", "cancel", "recovery"}, EnqueueRetry(p) PROVE ReturnInv'
  BY <1>20 DEF EnqueueRetry, EnqueueStep, Enqueue
<1>21. ASSUME NEW w \in Workers, Reserve(w) PROVE ReturnInv'
  BY <1>21 DEF Reserve
<1>22. ASSUME NEW w \in Workers, TryLock(w) PROVE ReturnInv'
  BY <1>22 DEF TryLock
<1>23. ASSUME NEW w \in Workers, ReadForPipeline(w) PROVE ReturnInv'
  BY <1>23 DEF ReadForPipeline, OnlyPc
<1>24. ASSUME NEW w \in Workers, ReadForProvider(w) PROVE ReturnInv'
  BY <1>24 DEF ReadForProvider, OnlyPc
<1>25. ASSUME NEW w \in Workers, GetUpstream(w) PROVE ReturnInv'
  BY <1>25 DEF GetUpstream, OnlyPc
<1>26. ASSUME NEW w \in Workers, MarkRunning(w) PROVE ReturnInv'
  BY <1>26 DEF MarkRunning, OnlyJob, Transition, CanTransition
<1>27. ASSUME NEW w \in Workers, MarkIndexing(w) PROVE ReturnInv'
  BY <1>27 DEF MarkIndexing, OnlyJob, Transition, CanTransition
<1>28. ASSUME NEW w \in Workers, IndexOutput(w) PROVE ReturnInv'
  BY <1>28 DEF IndexOutput, OnlyPc
<1>29. ASSUME NEW w \in Workers, MarkSettling(w) PROVE ReturnInv'
  BY <1>29 DEF MarkSettling, OnlyJob, Transition, CanTransition
<1>30. ASSUME NEW w \in Workers, MarkFailed(w) PROVE ReturnInv'
  BY <1>30 DEF MarkFailed, OnlyJob, Transition, CanTransition
<1>31. ASSUME NEW w \in Workers, MarkCancelled(w) PROVE ReturnInv'
  BY <1>31 DEF MarkCancelled, OnlyJob, Transition, CanTransition
<1>32. ASSUME NEW w \in Workers, ReleaseTerminalHold(w) PROVE ReturnInv'
  BY <1>32 DEF ReleaseTerminalHold, OnlyMoney, ReleaseStep, Release, ReleaseRefused
<1>33. ASSUME NEW w \in Workers, StartSettle(w) PROVE ReturnInv'
  BY <1>33 DEF StartSettle, OnlyPc
<1>34. ASSUME NEW w \in Workers, CaptureHold(w) PROVE ReturnInv'
  BY <1>34 DEF CaptureHold, OnlyMoney, Capture, CaptureRefused
<1>35. ASSUME NEW w \in Workers, RecordFailure(w) PROVE ReturnInv'
  BY <1>35 DEF RecordFailure, OnlyJob, AfterFailure
<1>36. ASSUME NEW w \in Workers, ReleaseExhausted(w) PROVE ReturnInv'
  BY <1>36 DEF ReleaseExhausted, OnlyMoney, ReleaseStep, Release, ReleaseRefused
<1>37. ASSUME NEW w \in Workers, RecordReleaseFailure(w) PROVE ReturnInv'
  BY <1>37 DEF RecordReleaseFailure, OnlyJob
<1>38. ASSUME NEW w \in Workers, FailExhausted(w) PROVE ReturnInv'
  BY <1>38 DEF FailExhausted, OnlyJob, Transition, CanTransition
<1>39. ASSUME NEW w \in Workers, MarkSettled(w) PROVE ReturnInv'
  BY <1>39 DEF MarkSettled, OnlyJob
<1>40. ASSUME NEW w \in Workers, ReadAfterSettle(w) PROVE ReturnInv'
  BY <1>40 DEF ReadAfterSettle, OnlyPc
<1>41. ASSUME NEW w \in Workers, RequeueAfter(w) PROVE ReturnInv'
  BY <1>41 DEF RequeueAfter
<1>42. ASSUME NEW w \in Workers, Ack(w) PROVE ReturnInv'
  BY <1>42 DEF Ack
<1>43. ASSUME NEW w \in Workers, Unlock(w) PROVE ReturnInv'
  BY <1>43 DEF Unlock
<1>44. ASSUME MoveDueDelayed PROVE ReturnInv'
  BY <1>44 DEF MoveDueDelayed
<1>45. ASSUME RecoverStaleActive PROVE ReturnInv'
  BY <1>45 DEF RecoverStaleActive, Expires
<1>46. ASSUME LockExpires PROVE ReturnInv'
  BY <1>46 DEF LockExpires, Expires
<1>47. ASSUME UpstreamEnds PROVE ReturnInv'
  BY <1>47 DEF UpstreamEnds
<1>48. ASSUME NEW p \in Procs, Crash(p) PROVE ReturnInv'
  BY <1>48 DEF Crash
<1>49. ASSUME UNCHANGED vars PROVE ReturnInv'
  BY <1>49 DEF vars
<1>50. QED
  BY <1>1, <1>2, <1>3, <1>4, <1>5, <1>6, <1>7, <1>8, <1>9, <1>10, <1>11, <1>12, <1>13, <1>14,
     <1>15, <1>16, <1>17, <1>18, <1>19, <1>20, <1>21, <1>22, <1>23, <1>24, <1>25, <1>26, <1>27,
     <1>28, <1>29, <1>30, <1>31, <1>32, <1>33, <1>34, <1>35, <1>36, <1>37, <1>38, <1>39, <1>40,
     <1>41, <1>42, <1>43, <1>44, <1>45, <1>46, <1>47, <1>48, <1>49 DEF Next, SubmitNext,
     CancelNext, RecoveryNext, WorkerNext, PipelineNext, SettlementNext, QueueNext

-----------------------------------------------------------------------------
(* The refinement of HoldPromise *)

\* A job that is out of retries cannot be billed: it was never charged.
LEMMA OutOfRetries ==
    ASSUME RetriesLast, IInv, retries >= MaxRetries
    PROVE  output = "unbillable"
  BY BatchImageAssumption DEF RetriesLast, IInv, TypeOK, JobType, BudgetType, RetryInv

\* What has been set aside for the job follows from its ledger.
LEMMA SetAsideIs ==
    ASSUME IInv
    PROVE  /\ frozen - Others = IF held /\ ~captured /\ released # "done" THEN Hold ELSE 0
           /\ balance \in Nat /\ frozen \in Nat
  BY BatchImageAssumption DEF IInv, MoneyInv, TypeOK, MoneyType

\* A step that leaves the money alone is no step of HoldPromise.
LEMMA SameMoney ==
    ASSUME UNCHANGED moneyVars
    PROVE  [Promise!Next]_(Promise!holdVars)
  BY DEF moneyVars, Promise!holdVars

\* A release of a job that was not charged gives back what was set aside, or nothing.
LEMMA ReleaseKeeps ==
    ASSUME IInv, ~captured, Release \/ UNCHANGED moneyVars
    PROVE  [Promise!Next]_(Promise!holdVars)
<1>1. CASE UNCHANGED moneyVars
  BY <1>1, SameMoney
<1>2. CASE Release /\ released = "none" /\ held
  <2>1. Promise!GiveBack
    BY <1>2, SetAsideIs, BatchImageAssumption DEF Release, Promise!GiveBack
  <2>2. QED
    BY <2>1 DEF Promise!Next
<1>3. CASE Release /\ (released # "none" \/ ~held)
  BY <1>3 DEF Release, moneyVars, Promise!holdVars
<1>4. QED
  BY <1>1, <1>2, <1>3

\* A capture charges what was set aside, once.
LEMMA CaptureKeeps ==
    ASSUME IInv, held, released = "none", Capture \/ UNCHANGED moneyVars
    PROVE  [Promise!Next]_(Promise!holdVars)
<1>1. CASE UNCHANGED moneyVars
  BY <1>1, SameMoney
<1>2. CASE Capture /\ ~captured
  <2>1. captured' = TRUE /\ frozen - Others = Hold /\ frozen' = frozen - Hold
        /\ balance' = balance + (Hold - Actual)
    BY <1>2, SetAsideIs DEF Capture
  <2>2. frozen' - Others = 0
    BY <2>1, SetAsideIs, BatchImageAssumption
  <2>3. Promise!Charge
    BY <1>2, <2>1, <2>2 DEF Promise!Charge
  <2>4. QED
    BY <2>3 DEF Promise!Next
<1>3. CASE Capture /\ captured
  BY <1>3, SameMoney DEF Capture
<1>4. QED
  BY <1>1, <1>2, <1>3

\* A reservation sets the hold aside.
LEMMA ReserveKeeps ==
    ASSUME IInv, ReserveHold
    PROVE  [Promise!Next]_(Promise!holdVars)
<1>1. ~held /\ ~captured /\ released # "done"
  BY DEF ReserveHold, TakeHold, IInv, MoneyInv, SubmitInv
<1>2. CASE UNCHANGED moneyVars
  BY <1>2, SameMoney
<1>3. CASE balance >= Hold /\ balance' = balance - Hold /\ frozen' = frozen + Hold
           /\ UNCHANGED <<captured, released>>
  <2>1. Promise!SetAside
    BY <1>1, <1>3, SetAsideIs, BatchImageAssumption DEF Promise!SetAside
  <2>2. QED
    BY <2>1 DEF Promise!Next
<1>4. QED
  BY <1>2, <1>3 DEF ReserveHold, TakeHold

\* Every step of the job is a step of HoldPromise, or leaves the money alone.
LEMMA PromiseStep ==
    ASSUME RetriesLast, IInv, [Next]_vars
    PROVE  [Promise!Next]_(Promise!holdVars)
<1>1. ASSUME CreateJob PROVE [Promise!Next]_(Promise!holdVars)
  BY <1>1, SameMoney DEF CreateJob, moneyVars
<1>2. ASSUME ReserveHold PROVE [Promise!Next]_(Promise!holdVars)
  BY <1>2, ReserveKeeps
<1>3. ASSUME CreateItems PROVE [Promise!Next]_(Promise!holdVars)
  BY <1>3, SameMoney DEF CreateItems, moneyVars
<1>4. ASSUME StartUpload PROVE [Promise!Next]_(Promise!holdVars)
  BY <1>4, SameMoney DEF StartUpload, Transition, moneyVars
<1>5. ASSUME SubmitUpstream PROVE [Promise!Next]_(Promise!holdVars)
  BY <1>5, SameMoney DEF SubmitUpstream, moneyVars
<1>6. ASSUME RecordProviderJob PROVE [Promise!Next]_(Promise!holdVars)
  BY <1>6, SameMoney DEF RecordProviderJob, moneyVars
<1>7. ASSUME AbortOrphan PROVE [Promise!Next]_(Promise!holdVars)
  BY <1>7, SameMoney DEF AbortOrphan, moneyVars
<1>8. ASSUME EnqueueSubmitted PROVE [Promise!Next]_(Promise!holdVars)
  BY <1>8, SameMoney DEF EnqueueSubmitted, EnqueueStep, moneyVars
<1>9. ASSUME ReturnHold PROVE [Promise!Next]_(Promise!holdVars)
  <2>1. ~captured
    BY <1>9 DEF ReturnHold, IInv, MoneyInv, SubmitInv, Early, Lost, Settled
  <2>2. Release \/ UNCHANGED moneyVars
    BY <1>9 DEF ReturnHold, ReleaseStep
  <2>3. QED
    BY <2>1, <2>2, ReleaseKeeps
<1>10. ASSUME MarkSubmitFailed PROVE [Promise!Next]_(Promise!holdVars)
  BY <1>10, SameMoney DEF MarkSubmitFailed, moneyVars
<1>11. ASSUME ReadSubmitted PROVE [Promise!Next]_(Promise!holdVars)
  BY <1>11, SameMoney DEF ReadSubmitted, moneyVars
<1>12. ASSUME EnqueueAgain PROVE [Promise!Next]_(Promise!holdVars)
  BY <1>12, SameMoney DEF EnqueueAgain, EnqueueStep, moneyVars
<1>13. ASSUME CancelRead PROVE [Promise!Next]_(Promise!holdVars)
  BY <1>13, SameMoney DEF CancelRead, moneyVars
<1>14. ASSUME CancelUpstream PROVE [Promise!Next]_(Promise!holdVars)
  BY <1>14, SameMoney DEF CancelUpstream, moneyVars
<1>15. ASSUME CancelJob PROVE [Promise!Next]_(Promise!holdVars)
  BY <1>15, SameMoney DEF CancelJob, Transition, moneyVars
<1>16. ASSUME CancelRelease PROVE [Promise!Next]_(Promise!holdVars)
  <2>1. ~captured
    BY <1>16 DEF CancelRelease, IInv, MoneyInv, ReleaserInv, Lost, Settled
  <2>2. Release \/ UNCHANGED moneyVars
    BY <1>16 DEF CancelRelease, ReleaseStep
  <2>3. QED
    BY <2>1, <2>2, ReleaseKeeps
<1>17. ASSUME DeleteOutput PROVE [Promise!Next]_(Promise!holdVars)
  BY <1>17, SameMoney DEF DeleteOutput, moneyVars
<1>18. ASSUME FailStale PROVE [Promise!Next]_(Promise!holdVars)
  BY <1>18, SameMoney DEF FailStale, SubmitLooksDead, Expires, moneyVars
<1>19. ASSUME SweepRelease PROVE [Promise!Next]_(Promise!holdVars)
  <2>1. ~captured
    BY <1>19 DEF SweepRelease, IInv, MoneyInv, ReleaserInv, Lost, Settled
  <2>2. Release \/ UNCHANGED moneyVars
    BY <1>19 DEF SweepRelease, ReleaseStep
  <2>3. QED
    BY <2>1, <2>2, ReleaseKeeps
<1>20. ASSUME NEW p \in {"submit", "cancel", "recovery"}, EnqueueRetry(p)
      PROVE  [Promise!Next]_(Promise!holdVars)
  BY <1>20, SameMoney DEF EnqueueRetry, EnqueueStep, moneyVars
<1>21. ASSUME NEW w \in Workers, Reserve(w) PROVE [Promise!Next]_(Promise!holdVars)
  BY <1>21, SameMoney DEF Reserve, moneyVars
<1>22. ASSUME NEW w \in Workers, TryLock(w) PROVE [Promise!Next]_(Promise!holdVars)
  BY <1>22, SameMoney DEF TryLock, moneyVars
<1>23. ASSUME NEW w \in Workers, ReadForPipeline(w) PROVE [Promise!Next]_(Promise!holdVars)
  BY <1>23, SameMoney DEF ReadForPipeline, OnlyPc, moneyVars
<1>24. ASSUME NEW w \in Workers, ReadForProvider(w) PROVE [Promise!Next]_(Promise!holdVars)
  BY <1>24, SameMoney DEF ReadForProvider, OnlyPc, moneyVars
<1>25. ASSUME NEW w \in Workers, GetUpstream(w) PROVE [Promise!Next]_(Promise!holdVars)
  BY <1>25, SameMoney DEF GetUpstream, OnlyPc, moneyVars
<1>26. ASSUME NEW w \in Workers, MarkRunning(w) PROVE [Promise!Next]_(Promise!holdVars)
  BY <1>26, SameMoney DEF MarkRunning, OnlyJob, Transition, moneyVars
<1>27. ASSUME NEW w \in Workers, MarkIndexing(w) PROVE [Promise!Next]_(Promise!holdVars)
  BY <1>27, SameMoney DEF MarkIndexing, OnlyJob, Transition, moneyVars
<1>28. ASSUME NEW w \in Workers, IndexOutput(w) PROVE [Promise!Next]_(Promise!holdVars)
  BY <1>28, SameMoney DEF IndexOutput, OnlyPc, moneyVars
<1>29. ASSUME NEW w \in Workers, MarkSettling(w) PROVE [Promise!Next]_(Promise!holdVars)
  BY <1>29, SameMoney DEF MarkSettling, OnlyJob, Transition, moneyVars
<1>30. ASSUME NEW w \in Workers, MarkFailed(w) PROVE [Promise!Next]_(Promise!holdVars)
  BY <1>30, SameMoney DEF MarkFailed, OnlyJob, Transition, moneyVars
<1>31. ASSUME NEW w \in Workers, MarkCancelled(w) PROVE [Promise!Next]_(Promise!holdVars)
  BY <1>31, SameMoney DEF MarkCancelled, OnlyJob, Transition, moneyVars
<1>32. ASSUME NEW w \in Workers, ReleaseTerminalHold(w) PROVE [Promise!Next]_(Promise!holdVars)
  <2>1. ~captured
    BY <1>32 DEF ReleaseTerminalHold, IInv, MoneyInv, WorkerInv, WorkerAt, Lost, Settled
  <2>2. Release \/ UNCHANGED moneyVars
    BY <1>32 DEF ReleaseTerminalHold, OnlyMoney, ReleaseStep
  <2>3. QED
    BY <2>1, <2>2, ReleaseKeeps
<1>33. ASSUME NEW w \in Workers, StartSettle(w) PROVE [Promise!Next]_(Promise!holdVars)
  BY <1>33, SameMoney DEF StartSettle, OnlyPc, moneyVars
<1>34. ASSUME NEW w \in Workers, CaptureHold(w) PROVE [Promise!Next]_(Promise!holdVars)
  <2>1. held /\ released = "none"
    BY <1>34, BatchImageAssumption
    DEF CaptureHold, IInv, TypeOK, JobType, BudgetType, MoneyInv, SubmitInv, WorkerInv,
       WorkerAt,
        Settling, Accepted, Settled, Lost, Early
  <2>2. Capture \/ UNCHANGED moneyVars
    BY <1>34 DEF CaptureHold
  <2>3. QED
    BY <2>1, <2>2, CaptureKeeps
<1>35. ASSUME NEW w \in Workers, RecordFailure(w) PROVE [Promise!Next]_(Promise!holdVars)
  BY <1>35, SameMoney DEF RecordFailure, OnlyJob, moneyVars
<1>36. ASSUME NEW w \in Workers, ReleaseExhausted(w) PROVE [Promise!Next]_(Promise!holdVars)
  <2>1. ~captured
    BY <1>36, OutOfRetries DEF ReleaseExhausted, IInv, MoneyInv, WorkerInv, WorkerAt, Exhausting
  <2>2. Release \/ UNCHANGED moneyVars
    BY <1>36 DEF ReleaseExhausted, OnlyMoney, ReleaseStep
  <2>3. QED
    BY <2>1, <2>2, ReleaseKeeps
<1>37. ASSUME NEW w \in Workers, RecordReleaseFailure(w) PROVE [Promise!Next]_(Promise!holdVars)
  BY <1>37, SameMoney DEF RecordReleaseFailure, OnlyJob, moneyVars
<1>38. ASSUME NEW w \in Workers, FailExhausted(w) PROVE [Promise!Next]_(Promise!holdVars)
  BY <1>38, SameMoney DEF FailExhausted, OnlyJob, Transition, moneyVars
<1>39. ASSUME NEW w \in Workers, MarkSettled(w) PROVE [Promise!Next]_(Promise!holdVars)
  BY <1>39, SameMoney DEF MarkSettled, OnlyJob, moneyVars
<1>40. ASSUME NEW w \in Workers, ReadAfterSettle(w) PROVE [Promise!Next]_(Promise!holdVars)
  BY <1>40, SameMoney DEF ReadAfterSettle, OnlyPc, moneyVars
<1>41. ASSUME NEW w \in Workers, RequeueAfter(w) PROVE [Promise!Next]_(Promise!holdVars)
  BY <1>41, SameMoney DEF RequeueAfter, moneyVars
<1>42. ASSUME NEW w \in Workers, Ack(w) PROVE [Promise!Next]_(Promise!holdVars)
  BY <1>42, SameMoney DEF Ack, moneyVars
<1>43. ASSUME NEW w \in Workers, Unlock(w) PROVE [Promise!Next]_(Promise!holdVars)
  BY <1>43, SameMoney DEF Unlock, moneyVars
<1>44. ASSUME MoveDueDelayed PROVE [Promise!Next]_(Promise!holdVars)
  BY <1>44, SameMoney DEF MoveDueDelayed, moneyVars
<1>45. ASSUME RecoverStaleActive PROVE [Promise!Next]_(Promise!holdVars)
  BY <1>45, SameMoney DEF RecoverStaleActive, Expires, moneyVars
<1>46. ASSUME LockExpires PROVE [Promise!Next]_(Promise!holdVars)
  BY <1>46, SameMoney DEF LockExpires, Expires, moneyVars
<1>47. ASSUME UpstreamEnds PROVE [Promise!Next]_(Promise!holdVars)
  BY <1>47, SameMoney DEF UpstreamEnds, moneyVars
<1>48. ASSUME NEW p \in Procs, Crash(p) PROVE [Promise!Next]_(Promise!holdVars)
  BY <1>48, SameMoney DEF Crash, moneyVars
<1>49. ASSUME UNCHANGED vars PROVE [Promise!Next]_(Promise!holdVars)
  BY <1>49, SameMoney DEF vars
<1>50. QED
  BY <1>1, <1>2, <1>3, <1>4, <1>5, <1>6, <1>7, <1>8, <1>9, <1>10, <1>11, <1>12, <1>13, <1>14,
     <1>15, <1>16, <1>17, <1>18, <1>19, <1>20, <1>21, <1>22, <1>23, <1>24, <1>25, <1>26, <1>27,
     <1>28, <1>29, <1>30, <1>31, <1>32, <1>33, <1>34, <1>35, <1>36, <1>37, <1>38, <1>39, <1>40,
     <1>41, <1>42, <1>43, <1>44, <1>45, <1>46, <1>47, <1>48, <1>49 DEF Next, SubmitNext,
     CancelNext, RecoveryNext, WorkerNext, PipelineNext, SettlementNext, QueueNext

-----------------------------------------------------------------------------
(* Theorems *)

\* The invariant holds initially.
LEMMA InitStep ==
    ASSUME Init
    PROVE  IInv
<1> USE BatchImageAssumption DEF Init
<1>1. TypeOK
  <2>1. JobType /\ MoneyType
    <3>1. status \in Statuses /\ retries \in Nat /\ retries <= MaxRetries + faults
      BY DEF Statuses
    <3>2. balance \in Nat /\ frozen \in Nat /\ released \in {"none", "skipped", "done"}
      OBVIOUS
    <3>3. named \in BOOLEAN /\ held \in BOOLEAN /\ captured \in BOOLEAN
      OBVIOUS
    <3>4. QED
      BY <3>1, <3>2, <3>3 DEF JobType, MoneyType
  <2>2. QueueType /\ ProviderType
    BY DEF QueueType, ProviderType
  <2>3. PcType /\ BudgetType
    BY DEF PcType, BudgetType, Labels
  <2>4. QED
    BY <2>1, <2>2, <2>3 DEF TypeOK
<1>2. SubmitInv /\ ReleaserInv /\ RetryInv
  BY DEF SubmitInv, ReleaserInv, RetryInv, Procs, Early, Lost, Accepted, Settled
<1>3. WorkerInv /\ UpstreamInv
  BY DEF WorkerInv, WorkerAt, UpstreamInv, Procs, UnderLock, WorkerLabels, Polling, Settling,
         Exhausting, PastUpstream, Early, Lost, Accepted, Settled
<1>4. MoneyInv /\ QueueInv
  BY DEF MoneyInv, QueueInv, Procs, Entry, Finished, Settled, Lost
<1>5. QED
  BY <1>1, <1>2, <1>3, <1>4 DEF IInv

\* The inductive invariant of the job: the row, the ledger, the queue, the upstream
\* job and the place of each process agree, whatever fails, stops or is repeated.
THEOREM Invariance ==
    ASSUME LockKept, RetriesLast
    PROVE  Spec => []IInv
<1>1. Init => IInv
  BY InitStep
<1>2. IInv /\ [Next]_vars => IInv'
  <2> SUFFICES ASSUME IInv, [Next]_vars PROVE IInv'
    OBVIOUS
  <2>1. TypeOK' /\ SubmitInv' /\ ReleaserInv' /\ WorkerInv'
    BY TypeStep, SubmitStep, WorkerStep
  <2>2. RetryInv' /\ MoneyInv' /\ UpstreamInv' /\ QueueInv'
    BY MoneyStep, UpstreamStep, QueueStep
  <2>3. QED
    BY <2>1, <2>2 DEF IInv
<1>3. QED
  BY <1>1, <1>2, PTL DEF Spec

\* The hold is charged or returned, once, and never out of what the user's other
\* jobs hold in the same frozen balance: every behaviour of the job is one of
\* HoldPromise.
THEOREM KeepsPromise ==
    ASSUME LockKept, RetriesLast
    PROVE  Spec => KeepsHoldPromise
<1>1. Init => Promise!Init
  BY BatchImageAssumption DEF Init, Promise!Init
<1>2. IInv /\ [Next]_vars => [Promise!Next]_(Promise!holdVars)
  BY PromiseStep
<1>3. QED
  BY <1>1, <1>2, Invariance, PTL DEF Spec, KeepsHoldPromise, Promise!Spec

\* A completed job has been charged, a failed or cancelled one has not.
THEOREM Charged ==
    ASSUME LockKept, RetriesLast
    PROVE  Spec => []ChargedIffCompleted
<1>1. IInv => ChargedIffCompleted
  BY DEF IInv, MoneyInv, ChargedIffCompleted, Settled
<1>2. QED
  BY <1>1, Invariance, PTL

\* A job that still runs at the provider is refunded only by a cancel: a job that
\* failed has ended there, or its name was never recorded.
THEOREM RefundedRunning ==
    ASSUME LockKept, RetriesLast
    PROVE  Spec => []OnlyCancelRefundsRunning
<1>1. IInv => OnlyCancelRefundsRunning
  BY DEF IInv, MoneyInv, UpstreamInv, OnlyCancelRefundsRunning, NoRefundWhileRunning, Lost,
         Early, Settled
<1>2. QED
  BY <1>1, Invariance, PTL

\* A job that was started and is not finished is in the queue.
THEOREM Queued ==
    ASSUME LockKept, RetriesLast
    PROVE  Spec => []QueueKept
<1>1. IInv => QueueKept
  BY DEF IInv, QueueInv, QueueKept, Entry, Finished, Lost
<1>2. QED
  BY <1>1, Invariance, PTL

\* When a lost job has come to rest, its hold is back with the user, unless a cancel
\* released before the reserve or the answer to the reserve was lost.
THEOREM Returned ==
    ASSUME LockKept, RetriesLast, ReturnKept
    PROVE  Spec => []ReturnedWhenQuiet
<1>1. Init => ReturnInv
  BY DEF Init, ReturnInv, Lost, Procs
<1>2. ReturnInv /\ IInv /\ [Next]_vars => ReturnInv'
  BY ReturnStep
<1>3. IInv /\ ReturnInv => ReturnedWhenQuiet
  BY BatchImageAssumption DEF IInv, MoneyInv, TypeOK, MoneyType, QueueType, ReturnInv,
         Stranded, Returning, Entry, ReturnedWhenQuiet, Quiet, Lost, Settled, Procs
<1>4. QED
  BY <1>1, <1>2, <1>3, Invariance, PTL DEF Spec
=============================================================================
