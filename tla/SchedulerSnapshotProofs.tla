----------------------- MODULE SchedulerSnapshotProofs -----------------------
(***************************************************************************)
(* Proofs about the scheduler's snapshots, for any number of writers,      *)
(* workers, requests and failures.                                         *)
(***************************************************************************)
EXTENDS SchedulerSnapshot, TLAPS

\* Writers, workers and requests are different processes, and nobody is none of them.
LEMMA Apart ==
    /\ \A w \in Writers : w \notin Procs
    /\ \A p \in Readers : p \notin Maintainers
    /\ \A p \in Rebuilders : p \notin Pollers
    /\ Nobody \notin Maintainers
BY SchedulerSnapshotAssumption DEF Procs, Maintainers, Nobody

\* The larger of two numbers.
LEMMA BiggerIsMax ==
    ASSUME NEW a \in Nat, NEW b \in Nat
    PROVE  /\ Bigger(a, b) \in Nat /\ Bigger(a, b) >= a /\ Bigger(a, b) >= b
           /\ Bigger(a, b) = a \/ Bigger(a, b) = b
<1>1. \E x \in {a, b} : \A y \in {a, b} : x >= y
  OBVIOUS
<1>2. QED BY <1>1 DEF Bigger, Max

-----------------------------------------------------------------------------
(* What a step does to the label and the job of its process *)

\* p alone moves, and keeps a job of the right shape.
Moves(p) ==
    /\ \A q \in Writers \cup Procs : q # p => pc'[q] = pc[q] /\ job'[q] = job[q]
    /\ pc' \in [Writers \cup Procs -> Labels] /\ DOMAIN job' = Writers \cup Procs
    /\ p \in Readers => pc'[p] \in ReaderLabels
    /\ Fields(job'[p], JobFields)
    /\ job'[p].token \in Nat /\ job'[p].account \in Nat
    /\ job'[p].at \in Nat /\ job'[p].group \in Nat

\* Where a process is with nothing captured or loaded, and holding at most the lock
\* it is about to release.
RestLabels == {"idle", "mark", "get", "lease", "unlock"}

\* p alone moves, to such a place, with a job that remembers its batch only.
Rests(p) ==
    /\ Moves(p)
    /\ pc'[p] \in RestLabels /\ (p \in Readers => pc'[p] = "idle")
    /\ job'[p].token = 0

\* Whoever moves keeps the shape of the jobs.
LEMMA MovesShaped ==
    ASSUME JobsShaped, NEW p \in Writers \cup Procs, Moves(p)
    PROVE  JobsShaped'
BY DEF JobsShaped, Moves, Procs

\* A process takes another label and another job of the right shape, or only the label.
LEMMA HasStep ==
    ASSUME JobsShaped, NEW p \in Writers \cup Procs, NEW j, NEW label \in Labels,
           Has(p, j), Goto(p, label), p \in Readers => label \in ReaderLabels,
           Fields(j, JobFields), j.token \in Nat, j.account \in Nat, j.at \in Nat, j.group \in Nat
    PROVE  Moves(p) /\ pc'[p] = label /\ job'[p] = j
<1>1. /\ pc'[p] = label /\ pc' \in [Writers \cup Procs -> Labels]
      /\ \A q \in Writers \cup Procs : q # p => pc'[q] = pc[q]
  BY DEF Goto, JobsShaped
<1>2. /\ job'[p] = j /\ DOMAIN job' = Writers \cup Procs
      /\ \A q \in Writers \cup Procs : q # p => job'[q] = job[q]
  BY DEF Has, JobsShaped
<1>3. QED BY <1>1, <1>2 DEF Moves

\* Going to a label moves the program counter of one worker.
LEMMA GotoStep ==
    ASSUME JobsShaped, NEW p \in Writers \cup Procs, NEW label \in Labels,
           Goto(p, label), UNCHANGED job, p \in Readers => label \in ReaderLabels
    PROVE  Moves(p) /\ pc'[p] = label /\ job'[p] = job[p]
<1>1. /\ pc'[p] = label /\ pc' \in [Writers \cup Procs -> Labels]
      /\ \A q \in Writers \cup Procs : q # p => pc'[q] = pc[q]
  BY DEF Goto, JobsShaped
<1>2. QED BY <1>1 DEF Moves, JobsShaped

\* A blank job and one that remembers a batch have captured and loaded nothing.
LEMMA BatchJob ==
    ASSUME NEW j
    PROVE  /\ Fields(Blank, JobFields) /\ Fields(Batch(j), JobFields)
           /\ Blank.token = 0 /\ Blank.account = 0 /\ Blank.at = 0 /\ Blank.group = 0
           /\ Batch(j).token = 0 /\ Batch(j).account = 0
           /\ Batch(j).at = 0 /\ Batch(j).group = 0
BY DEF Blank, Batch, Fields, JobFields

\* Giving up leaves an empty job.
LEMMA GiveUpRests ==
    ASSUME JobsShaped, NEW p \in Procs, GiveUp(p)
    PROVE  Rests(p) /\ pc'[p] = "idle"
<1>1. Has(p, Blank) /\ Goto(p, "idle")
  BY DEF GiveUp
<1>2. QED
  BY <1>1, HasStep, BatchJob DEF Rests, RestLabels, Labels, ReaderLabels

\* The next event of a batch starts with an empty job.
LEMMA TakeNextRests ==
    ASSUME JobsShaped, NEW p \in Pollers, NEW j, TakeNext(p, j)
    PROVE  Rests(p) /\ pc'[p] # "unlock"
<1> DEFINE todo == IF "lifecycle" \in j.seen
                   THEN {e \in j.todo : e.what # "group"} ELSE j.todo
           label == IF todo = {} THEN "mark"
                    ELSE IF First(todo).what = "account" THEN "get" ELSE "lease"
           next == [Batch(j) EXCEPT !.todo = todo]
<1>1. Has(p, next) /\ Goto(p, label)
  BY DEF TakeNext
<1>2. label \in {"mark", "get", "lease"}
  OBVIOUS
<1> HIDE DEF todo, label
<1>3. Fields(next, JobFields) /\ next.token = 0 /\ next.account = 0 /\ next.at = 0 /\ next.group = 0
  BY BatchJob DEF Fields, JobFields
<1> HIDE DEF next
<1>4. p \in Procs /\ p \notin Readers
  BY Apart DEF Procs, Maintainers
<1>5. Moves(p) /\ pc'[p] = label /\ job'[p] = next
  BY <1>1, <1>2, <1>3, <1>4, HasStep DEF Labels
<1>6. QED BY <1>2, <1>3, <1>4, <1>5 DEF Rests, RestLabels

\* A rebuild that is over leaves nothing behind either.
LEMMA DoneRests ==
    ASSUME JobsShaped, NEW p \in Procs, Done(p)
    PROVE  Rests(p) /\ pc'[p] # "unlock"
<1>1. CASE p \in Pollers
  BY <1>1, TakeNextRests DEF Done
<1>2. CASE p \notin Pollers
  BY <1>2, GiveUpRests DEF Done
<1>3. QED BY <1>1, <1>2

\* The holder of the lock goes on to release it; a request has none.
LEMMA FinishRests ==
    ASSUME JobsShaped, NEW p \in Procs, NEW failed, Finish(p, failed)
    PROVE  Rests(p) /\ (p \notin Readers => pc'[p] = "unlock")
<1>1. CASE p \in Readers
  BY <1>1, GiveUpRests DEF Finish
<1>2. CASE p \notin Readers
  <2> DEFINE j == [Batch(job[p]) EXCEPT !.failed = failed]
  <2>1. Has(p, j) /\ Goto(p, "unlock")
    BY <1>2 DEF Finish
  <2>2. Fields(j, JobFields) /\ j.token = 0 /\ j.account = 0 /\ j.at = 0 /\ j.group = 0
    BY BatchJob DEF Fields, JobFields
  <2> HIDE DEF j
  <2>3. Moves(p) /\ pc'[p] = "unlock" /\ job'[p] = j
    BY <1>2, <2>1, <2>2, HasStep DEF Labels
  <2>4. QED BY <1>2, <2>2, <2>3 DEF Rests, RestLabels
<1>3. QED BY <1>1, <1>2


\* The counts of changes grow, and nothing else that the invariant reads changes.
Grows ==
    /\ account' \in Nat /\ account' >= account /\ group' \in Nat /\ group' >= group
    /\ UNCHANGED <<bucket, lock, lease, kind>>
    /\ Fields(past', PastFields)
    /\ past'.decided = past.decided /\ past'.rebuilt = past.rebuilt
    /\ past'.overrun = past.overrun

\* The labels that ask nothing of a job.
LightLabels == {"idle", "list", "get", "set", "mark", "clean", "capture", "lease", "groups"}

\* p takes one of them, with its token or none.
Light(p) ==
    /\ Moves(p) /\ Grows
    /\ pc'[p] \in LightLabels /\ (job'[p].token = 0 \/ job'[p].token = job[p].token)

\* A light step keeps the invariant.
LEMMA LightKeeps ==
    ASSUME IInv, NEW p \in Procs, Light(p)
    PROVE  IInv'
<1> USE DEF IInv, Light, Grows
<1>1. Shaped'
  BY DEF Shaped
<1>2. JobsShaped'
  BY MovesShaped
<1>3. Tokens'
  BY DEF Tokens, Moves, LightLabels, UnderLock, Procs, Shaped, JobsShaped
<1>4. ServedIsFresh'
  BY DEF ServedIsFresh
<1>5. Decisions'
  BY DEF Decisions, Moves, LightLabels, UnderLease, Procs, Shaped, JobsShaped
<1>6. Rebuilds'
  BY DEF Rebuilds, Moves, LightLabels, UnderLock, Procs, Maintainers, Shaped, JobsShaped
<1>7. QED BY <1>1, <1>2, <1>3, <1>4, <1>5, <1>6

\* So does a writer's.
LEMMA WriterKeeps ==
    ASSUME IInv, NEW w \in Writers, Moves(w), Grows
    PROVE  IInv'
<1> USE DEF IInv, Grows
<1>0. \A p \in Procs : pc'[p] = pc[p] /\ job'[p] = job[p]
  BY Apart DEF Moves
<1>1. Shaped'
  BY DEF Shaped
<1>2. JobsShaped'
  BY MovesShaped
<1>3. Tokens'
  BY <1>0 DEF Tokens
<1>4. ServedIsFresh'
  BY DEF ServedIsFresh
<1>5. Decisions'
  BY <1>0 DEF Decisions, Procs, Shaped, JobsShaped
<1>6. Rebuilds'
  BY <1>0 DEF Rebuilds, Procs, Maintainers, Shaped, JobsShaped
<1>7. QED BY <1>1, <1>2, <1>3, <1>4, <1>5, <1>6

-----------------------------------------------------------------------------
(* Writers *)

\* A writer only adds to the database and to its own job.
LEMMA WriterStepKeeps ==
    ASSUME IInv, NEW w \in DOMAIN kind, WriterStep(w) \/ WriterFails(w)
    PROVE  IInv'
<1>0. w \in Writers /\ w \notin Procs /\ w \notin Readers
  BY Apart DEF IInv, Shaped, Procs
<1> SUFFICES Moves(w) /\ Grows
  BY <1>0, WriterKeeps
<1> USE DEF IInv, Shaped, JobsShaped, Grows, Fields, Labels, db
<1>1. CASE Change(w)
  <2> DEFINE j == [Blank EXCEPT !.account = account']
  <2>1. Has(w, j) /\ Goto(w, "insert") /\ Grows
    BY <1>1 DEF Change
  <2>2. Fields(j, JobFields) /\ j.token = 0 /\ j.account = account' /\ j.at = 0 /\ j.group = 0
    BY BatchJob DEF JobFields
  <2> HIDE DEF j
  <2>3. QED BY <1>0, <2>1, <2>2, HasStep
<1>2. CASE Insert(w)
  BY <1>0, <1>2, GotoStep DEF Insert
<1>3. CASE InsertSuppressed(w)
  <2>1. Grows
    BY <1>3 DEF InsertSuppressed, Announces, PastFields
  <2>2. QED BY <1>0, <1>3, <2>1, GotoStep DEF InsertSuppressed, Committed
<1>4. CASE Commit(w)
  <2>1. Grows
    BY <1>4 DEF Commit, Announces, PastFields
  <2>2. UNCHANGED job /\ (Goto(w, "sync") \/ Goto(w, "done"))
    BY <1>4 DEF Commit, Committed
  <2>3. QED BY <1>0, <2>1, <2>2, GotoStep
<1>5. CASE SyncRead(w)
  <2> DEFINE j == [job[w] EXCEPT !.account = account]
  <2>1. Has(w, j) /\ Goto(w, "put") /\ Grows
    BY <1>5 DEF SyncRead
  <2>2. /\ Fields(j, JobFields) /\ j.account = account
        /\ j.token = job[w].token /\ j.at = job[w].at /\ j.group = job[w].group
    BY <1>0 DEF JobFields
  <2> HIDE DEF j
  <2>3. QED BY <1>0, <2>1, <2>2, HasStep
<1>6. CASE SyncPut(w)
  <2>1. Has(w, Blank) /\ Goto(w, "done") /\ Grows
    BY <1>6 DEF SyncPut
  <2>2. QED BY <1>0, <2>1, BatchJob, HasStep
<1>7. CASE WriterFails(w)
  BY <1>0, <1>7, GotoStep DEF WriterFails, Committed
<1>8. QED
  BY <1>1, <1>2, <1>3, <1>4, <1>5, <1>6, <1>7 DEF WriterStep

-----------------------------------------------------------------------------
(* Steps that leave snapshots, lock and lease alone *)

\* A process that gives up, ends a rebuild or goes on with its batch.
LEMMA RestsLight ==
    ASSUME NEW p \in Procs, Rests(p), pc'[p] # "unlock", Grows
    PROVE  Light(p)
BY DEF Light, Rests, RestLabels, LightLabels

\* A poller's steps outside a rebuild touch only its own job and what it applies.
LEMMA PollerLight ==
    ASSUME IInv, NEW p \in Pollers,
           \/ ReadWatermark(p) \/ List(p) \/ GetAccount(p) \/ SetAccount(p)
           \/ SetWatermark(p) \/ Cleanup(p)
    PROVE  Light(p)
<1>0. p \in Procs /\ p \notin Readers /\ p \in Writers \cup Procs
  BY Apart DEF Procs, Maintainers
<1> USE DEF IInv, Shaped, JobsShaped, Grows, Fields, db
<1>1. CASE ReadWatermark(p)
  <2> DEFINE j == [Blank EXCEPT !.from = watermark]
  <2>1. Has(p, j) /\ Goto(p, "list") /\ Grows
    BY <1>1 DEF ReadWatermark
  <2>2. Fields(j, JobFields) /\ j.token = 0 /\ j.account = 0 /\ j.at = 0 /\ j.group = 0
    BY BatchJob DEF JobFields
  <2> HIDE DEF j
  <2>3. QED BY <1>0, <2>1, <2>2, HasStep DEF Light, LightLabels, Labels
<1>2. CASE List(p)
  <2>1. Grows
    <3>1. UNCHANGED <<kind, account, group, bucket, lock, lease, past>>
      BY <1>2, Zenon DEF List
    <3>2. QED BY <3>1
  <2>2. CASE GiveUp(p)
    BY <1>0, <2>1, <2>2, GiveUpRests, RestsLight
  <2>3. ASSUME NEW j, TakeNext(p, j) PROVE Light(p)
    BY <1>0, <2>1, <2>3, TakeNextRests, RestsLight
  <2>4. QED BY <1>2, <2>2, <2>3 DEF List
<1>3. CASE GetAccount(p)
  <2> DEFINE j == [job[p] EXCEPT !.account = account]
  <2>1. Has(p, j) /\ Goto(p, "set") /\ Grows
    BY <1>3 DEF GetAccount
  <2>2. /\ Fields(j, JobFields) /\ j.account = account
        /\ j.token = job[p].token /\ j.at = job[p].at /\ j.group = job[p].group
    BY <1>0 DEF JobFields
  <2> HIDE DEF j
  <2>3. QED BY <1>0, <2>1, <2>2, HasStep DEF Light, LightLabels, Labels
<1>4. CASE SetAccount(p)
  <2>1. Grows /\ (Done(p) \/ (Goto(p, "capture") /\ Has(p, Batch(job[p]))))
    BY <1>4 DEF SetAccount
  <2>2. CASE Done(p)
    BY <1>0, <2>1, <2>2, DoneRests, RestsLight
  <2>3. CASE Goto(p, "capture") /\ Has(p, Batch(job[p]))
    BY <1>0, <2>1, <2>3, BatchJob, HasStep DEF Light, LightLabels, Labels
  <2>4. QED BY <2>1, <2>2, <2>3
<1>5. CASE SetWatermark(p)
  <2>1. Goto(p, "clean") /\ UNCHANGED job /\ Grows
    BY <1>5 DEF SetWatermark
  <2>2. QED BY <1>0, <2>1, GotoStep DEF Light, LightLabels, Labels
<1>6. CASE Cleanup(p)
  <2>1. GiveUp(p) /\ Grows
    BY <1>6 DEF Cleanup
  <2>2. QED BY <1>0, <2>1, GiveUpRests, RestsLight
<1>7. QED BY <1>1, <1>2, <1>3, <1>4, <1>5, <1>6

\* So do the reads of a full rebuild.
LEMMA RebuilderLight ==
    ASSUME IInv, NEW p \in Rebuilders, ReadRegistry(p) \/ ReadGroups(p)
    PROVE  Light(p)
<1>0. p \in Procs /\ p \notin Readers
  BY Apart DEF Procs, Maintainers
<1> USE DEF IInv, Shaped, JobsShaped, Grows, Fields, db
<1>1. CASE ReadRegistry(p)
  <2> DEFINE j == [Blank EXCEPT !.seen = IF bucket.registered THEN {"registered"} ELSE {}]
  <2>1. Has(p, j) /\ Goto(p, "groups") /\ Grows
    BY <1>1 DEF ReadRegistry
  <2>2. Fields(j, JobFields) /\ j.token = 0 /\ j.account = 0 /\ j.at = 0 /\ j.group = 0
    BY BatchJob DEF JobFields
  <2> HIDE DEF j
  <2>3. QED BY <1>0, <2>1, <2>2, HasStep DEF Light, LightLabels, Labels
<1>2. CASE ReadGroups(p)
  <2>1. PICK label \in {"capture", "lease", "idle"} : Goto(p, label)
    BY <1>2 DEF ReadGroups
  <2>2. Has(p, Blank) /\ Grows
    BY <1>2 DEF ReadGroups
  <2>3. QED BY <1>0, <2>1, <2>2, BatchJob, HasStep DEF Light, LightLabels, Labels
<1>3. QED BY <1>1, <1>2

\* A reader that finds no snapshot begins to load one.
LEMMA MissLight ==
    ASSUME IInv, NEW p \in Readers, Miss(p)
    PROVE  Light(p)
<1>1. Goto(p, "capture") /\ UNCHANGED job /\ Grows
  BY DEF Miss, Grows, IInv, Shaped, db
<1>2. QED
  BY <1>1, GotoStep DEF IInv, Light, LightLabels, Labels, ReaderLabels, Procs

\* A crash empties the job.
LEMMA CrashLight ==
    ASSUME IInv, NEW p \in Procs, Crash(p)
    PROVE  Light(p)
<1>1. GiveUp(p) /\ Grows
  BY DEF Crash, Grows, IInv, Shaped, db
<1>2. QED BY <1>1, GiveUpRests, RestsLight DEF IInv

-----------------------------------------------------------------------------
(* Publishing *)

\* Who leaves the lock's work releases the lock next.
LEMMA FinishKeeps ==
    ASSUME IInv, NEW p \in Procs, Rests(p), p \notin Readers => pc'[p] = "unlock",
           pc[p] \in UnderLock, Grows
    PROVE  IInv'
<1> USE DEF IInv, Rests, Grows
<1>1. Shaped'
  BY DEF Shaped
<1>2. JobsShaped'
  BY MovesShaped
<1>3. Tokens'
  BY DEF Tokens, Moves, RestLabels, UnderLock, Procs, Shaped, JobsShaped
<1>4. ServedIsFresh'
  BY DEF ServedIsFresh
<1>5. Decisions'
  BY DEF Decisions, Moves, RestLabels, UnderLease, Procs, Shaped, JobsShaped
<1>6. Rebuilds'
  BY Apart DEF Rebuilds, Moves, RestLabels, UnderLock, Procs, Maintainers, Shaped, JobsShaped
<1>7. QED BY <1>1, <1>2, <1>3, <1>4, <1>5, <1>6

\* A captured token is of the epoch there is, and an epoch is only started where
\* there was none.
LEMMA CaptureKeeps ==
    ASSUME IInv, NEW p \in Procs, Capture(p)
    PROVE  IInv'
<1> USE DEF IInv
<1>1. CASE bucket.retired
  <2>1. Grows
    BY <1>1 DEF Capture, Grows, Shaped, db
  <2>2. CASE p \in Rebuilders
    <3>1. Goto(p, "lease") /\ UNCHANGED job /\ p \notin Readers
      BY <1>1, <2>2, Apart DEF Capture, Maintainers
    <3>2. Light(p)
      BY <2>1, <3>1, GotoStep DEF Light, LightLabels, Labels
    <3>3. QED BY <3>2, LightKeeps
  <2>3. CASE p \notin Rebuilders
    <3>1. Done(p)
      BY <1>1, <2>3 DEF Capture
    <3>2. QED BY <2>1, <3>1, DoneRests, RestsLight, LightKeeps
  <2>4. QED BY <2>2, <2>3
<1>2. CASE ~bucket.retired
  <2> DEFINE epoch == Bigger(bucket.epoch, 1)
             j == [job[p] EXCEPT !.token = epoch]
             label == IF p \in Readers THEN "load" ELSE "lock"
  <2>1. /\ epoch \in Nat /\ epoch >= bucket.epoch /\ epoch >= 1
        /\ bucket.epoch >= 1 => epoch = bucket.epoch
    <3>1. bucket.epoch \in Nat
      BY DEF Shaped
    <3>2. QED BY <3>1, BiggerIsMax
  <2> HIDE DEF epoch
  <2>2. /\ Fields(bucket', {"epoch", "retired", "registered", "active"})
        /\ bucket'.epoch = epoch /\ bucket'.active = bucket.active
        /\ bucket'.retired = bucket.retired /\ bucket'.registered = bucket.registered
    BY <1>2 DEF Capture, Shaped, Fields, epoch
  <2>3. Has(p, j) /\ Goto(p, label) /\ UNCHANGED <<kind, db, lock, lease, past>>
    BY <1>2, <2>2 DEF Capture
  <2>4. /\ Fields(j, JobFields) /\ j.token = epoch /\ j.account = job[p].account
        /\ j.at = job[p].at /\ j.group = job[p].group
    BY DEF JobsShaped, Fields, JobFields
  <2> HIDE DEF j
  <2>5. Moves(p) /\ pc'[p] = label /\ job'[p] = j
    BY <2>1, <2>3, <2>4, HasStep DEF JobsShaped, Labels, ReaderLabels, UnderLock
  <2>6. Shaped' /\ JobsShaped'
    BY <2>1, <2>2, <2>3, <2>5, MovesShaped DEF Shaped, db
  <2>7. Tokens'
    BY <2>1, <2>2, <2>4, <2>5 DEF Tokens, Moves, UnderLock, Procs, Shaped, JobsShaped
  <2>8. ServedIsFresh'
    BY <2>1, <2>2 DEF ServedIsFresh, Tokens
  <2>9. Decisions'
    BY <2>3, <2>5 DEF Decisions, Moves, UnderLease, Procs, db
  <2>10. Rebuilds'
    BY <2>3, <2>5, Apart DEF Rebuilds, Moves, UnderLock, Procs, Maintainers, db
  <2>11. QED BY <2>6, <2>7, <2>8, <2>9, <2>10
<1>3. QED BY <1>1, <1>2

\* The lock is taken by one, only while nobody has it; whoever has outlived it is then
\* still at work, or what was overrun has ended.
LEMMA LockKeeps ==
    ASSUME IInv, NEW p \in Procs, Lock(p)
    PROVE  IInv'
<1> USE DEF IInv
<1>0. p \notin Readers /\ p \in Maintainers
  BY DEF Lock, JobsShaped, ReaderLabels, UnderLock, Procs
<1>1. CASE lock = Nobody
  <2>1. lock' = p /\ Goto(p, "load") /\ UNCHANGED <<kind, db, bucket, lease, job>>
    BY <1>1 DEF Lock, Locked
  <2>0. /\ Fields(past', PastFields)
        /\ past'.decided = past.decided /\ past'.rebuilt = past.rebuilt
        /\ ~past'.overrun => ~past.overrun \/ \A q \in Maintainers :
               q # p => pc[q] \notin UnderLock \cup {"unlock"}
    BY <1>1 DEF Lock, Locked, Shaped, Fields, PastFields
  <2>2. Moves(p) /\ pc'[p] = "load" /\ job'[p] = job[p]
    BY <1>0, <2>1, GotoStep DEF Labels, UnderLock
  <2>3. Shaped' /\ JobsShaped'
    BY <2>0, <2>1, <2>2, MovesShaped DEF Shaped, db
  <2>4. Tokens'
    BY <2>1, <2>2 DEF Tokens, Moves, UnderLock, Procs, Lock
  <2>5. ServedIsFresh'
    BY <2>1 DEF ServedIsFresh
  <2>6. Decisions'
    BY <2>0, <2>1, <2>2 DEF Decisions, Moves, UnderLease, Procs, db
  <2>7. Rebuilds'
    <3>1. ASSUME NEW q \in Maintainers, q # p, ~past'.overrun
          PROVE  pc'[q] \notin UnderLock \cup {"unlock"}
      <4>1. pc'[q] = pc[q]
        BY <2>2, <3>1 DEF Moves, Procs
      <4>2. CASE past.overrun
        BY <2>0, <3>1, <4>1, <4>2
      <4>3. CASE ~past.overrun
        BY <1>1, <3>1, <4>1, <4>3, Apart DEF Rebuilds
      <4>4. QED BY <4>2, <4>3
    <3>2. ASSUME NEW q \in Maintainers, q # p
          PROVE  pc'[q] = pc[q] /\ job'[q] = job[q]
      BY <2>2, <3>2 DEF Moves, Procs
    <3>3. ASSUME NEW q \in Maintainers
          PROVE  /\ pc'[q] \in UnderLock \ {"load"} => job'[q].account <= account'
                 /\ pc'[q] \in UnderLock \cup {"unlock"} => past'.overrun \/ lock' = q
                 /\ pc'[q] \in UnderLock \ {"load"} =>
                        past'.overrun \/ past'.rebuilt <= job'[q].account
      <4>1. CASE q = p
        BY <2>1, <2>2, <4>1
      <4>2. CASE q # p
        BY <2>1, <3>1, <3>2, <4>2 DEF Rebuilds, db
      <4>3. QED BY <4>1, <4>2
    <3>4. QED BY <2>0, <2>1, <3>3 DEF Rebuilds, db
  <2>8. QED BY <2>3, <2>4, <2>5, <2>6, <2>7
<1>2. CASE lock # Nobody
  <2>1. Grows /\ (GiveUp(p) \/ Done(p))
    BY <1>2 DEF Lock, Grows, Shaped, db
  <2>2. QED BY <2>1, GiveUpRests, DoneRests, RestsLight, LightKeeps
<1>3. QED BY <1>1, <1>2

\* What is loaded is the state there is, in the epoch there is.
LEMMA LoadKeeps ==
    ASSUME IInv, NEW p \in Procs, Load(p)
    PROVE  IInv'
<1> USE DEF IInv
<1>0. Grows /\ UNCHANGED <<kind, db, bucket, lock, lease, past>>
  BY DEF Load, Grows, Shaped, db
<1>1. CASE GiveUp(p)
  BY <1>0, <1>1, GiveUpRests, RestsLight, LightKeeps
<1>2. CASE ~GiveUp(p)
  <2> DEFINE j == [job[p] EXCEPT !.account = account, !.listed = ~limited,
                                 !.at = bucket.epoch]
  <2>1. Has(p, j) /\ Goto(p, "allocate")
    BY <1>2 DEF Load
  <2>2. /\ Fields(j, JobFields) /\ j.token = job[p].token /\ j.account = account
        /\ j.at = bucket.epoch /\ j.group = job[p].group
    BY DEF JobsShaped, Fields, JobFields
  <2> HIDE DEF j
  <2>3. Moves(p) /\ pc'[p] = "allocate" /\ job'[p] = j
    BY <2>1, <2>2, HasStep DEF JobsShaped, Shaped, Labels, ReaderLabels, UnderLock
  <2>4. Shaped' /\ JobsShaped'
    BY <1>0, <2>3, MovesShaped DEF Shaped, db
  <2>5. Tokens'
    BY <1>0, <2>2, <2>3 DEF Tokens, Moves, UnderLock, Procs, Load, Shaped, JobsShaped
  <2>6. ServedIsFresh'
    BY <1>0 DEF ServedIsFresh
  <2>7. Decisions'
    BY <1>0, <2>3 DEF Decisions, Moves, UnderLease, Procs, db
  <2>8. Rebuilds'
    BY <1>0, <2>2, <2>3 DEF Rebuilds, Moves, UnderLock, Procs, Maintainers, db, Load, Shaped
  <2>9. QED BY <2>4, <2>5, <2>6, <2>7, <2>8
<1>3. QED BY <1>1, <1>2

\* Allocating a version and writing the records go on under the lock.
LEMMA WriteKeeps ==
    ASSUME IInv, NEW p \in Procs, Allocate(p) \/ WriteRecords(p)
    PROVE  IInv'
<1> USE DEF IInv
<1>0. Grows /\ UNCHANGED <<kind, db, bucket, lock, lease, past>>
      /\ pc[p] \in {"allocate", "write"}
  BY DEF Allocate, WriteRecords, Grows, Shaped, db
<1>1. CASE \E failed : Finish(p, failed)
  BY <1>0, <1>1, FinishRests, FinishKeeps DEF UnderLock
<1>2. CASE \E label \in {"write", "activate"} : Goto(p, label) /\ UNCHANGED job
  <2>1. PICK label \in {"write", "activate"} : Goto(p, label) /\ UNCHANGED job
    BY <1>2
  <2>2. Moves(p) /\ pc'[p] = label /\ job'[p] = job[p]
    BY <2>1, GotoStep DEF Labels, ReaderLabels, UnderLock
  <2>3. Shaped' /\ JobsShaped'
    BY <1>0, <2>2, MovesShaped DEF Shaped, db
  <2>4. Tokens'
    BY <1>0, <2>2 DEF Tokens, Moves, UnderLock, Procs
  <2>5. ServedIsFresh'
    BY <1>0 DEF ServedIsFresh
  <2>6. Decisions'
    BY <1>0, <2>2 DEF Decisions, Moves, UnderLease, Procs, db
  <2>7. Rebuilds'
    BY <1>0, <2>2 DEF Rebuilds, Moves, UnderLock, Procs, Maintainers, db
  <2>8. QED BY <2>3, <2>4, <2>5, <2>6, <2>7
<1>3. QED BY <1>1, <1>2 DEF Allocate, WriteRecords

\* A snapshot that gets past the fence was loaded in the epoch there is, and under
\* the lock it was loaded after the one before.
LEMMA ActivateKeeps ==
    ASSUME IInv, NEW p \in Procs, Activate(p)
    PROVE  IInv'
<1> USE DEF IInv
<1>0. /\ UNCHANGED <<kind, db, lock, lease>> /\ pc[p] = "activate"
      /\ \E failed : Finish(p, failed)
  BY DEF Activate
<1>1. Rests(p) /\ (p \notin Readers => pc'[p] = "unlock")
  BY <1>0, FinishRests
<1>2. CASE UNCHANGED <<bucket, past>>
  <2>1. Grows
    BY <1>0, <1>2 DEF Grows, Shaped, db
  <2>2. QED BY <1>0, <1>1, <2>1, FinishKeeps DEF UnderLock
<1>3. CASE ~ UNCHANGED <<bucket, past>>
  <2> DEFINE served == [account |-> job[p].account, at |-> job[p].at,
                        listed |-> job[p].listed]
  <2>1. /\ ~bucket.retired /\ bucket.epoch = job[p].token
        /\ bucket' = [bucket EXCEPT !.registered = TRUE,
                          !.active = <<served>>]
        /\ past' = IF p \in Maintainers
                   THEN [past EXCEPT !.rebuilt = job[p].account] ELSE past
    BY <1>3 DEF Activate, Publish, Fenced
  <2>2. /\ Fields(bucket', {"epoch", "retired", "registered", "active"})
        /\ bucket'.epoch = bucket.epoch /\ bucket'.retired = bucket.retired
        /\ bucket'.registered
        /\ bucket'.active = <<served>>
    BY <2>1 DEF Shaped, Fields
  <2>3. /\ Fields(past', PastFields)
        /\ past'.decided = past.decided /\ past'.overrun = past.overrun
        /\ past'.rebuilt = IF p \in Maintainers THEN job[p].account ELSE past.rebuilt
    BY <2>1 DEF Shaped, Fields, PastFields
  <2>4. job[p].token >= 1 /\ job[p].at = bucket.epoch
    BY <1>0, <2>1 DEF Tokens, UnderLock, JobsShaped, Shaped
  <2>5. Shaped' /\ JobsShaped'
    BY <1>0, <1>1, <2>2, <2>3, MovesShaped DEF Shaped, JobsShaped, Rests, db
  <2>6. Tokens'
    BY <1>1, <2>1, <2>2, <2>4 DEF Tokens, Rests, RestLabels, Moves, UnderLock, Procs, Shaped,
       JobsShaped
  <2>7. ServedIsFresh'
    <3>1. Last(bucket'.active) = served
      BY <2>2 DEF Last
    <3>2. Last(bucket'.active).at = job[p].at
      BY <3>1
    <3>3. QED BY <2>1, <2>2, <2>4, <3>2 DEF ServedIsFresh
  <2>8. Decisions'
    BY <1>0, <1>1, <2>3 DEF Decisions, Rests, RestLabels, Moves, UnderLease, Procs, db
  <2>9. Rebuilds'
    <3>1. past'.rebuilt <= account'
      BY <1>0, <2>3 DEF Rebuilds, UnderLock, db
    <3>2. ASSUME NEW q \in Maintainers
          PROVE  /\ pc'[q] \in UnderLock \ {"load"} => job'[q].account <= account'
                 /\ pc'[q] \in UnderLock \cup {"unlock"} => past'.overrun \/ lock' = q
                 /\ pc'[q] \in UnderLock \ {"load"} =>
                        past'.overrun \/ past'.rebuilt <= job'[q].account
      <4>1. CASE q = p
        BY <1>0, <1>1, <2>3, <4>1 DEF Rebuilds, Rests, RestLabels, UnderLock
      <4>2. CASE q # p
        <5>1. pc'[q] = pc[q] /\ job'[q] = job[q]
          BY <1>1, <4>2 DEF Rests, Moves, Procs
        <5>2. p \in Maintainers /\ ~past.overrun => pc[q] \notin UnderLock
          BY <1>0, <4>2 DEF Rebuilds, UnderLock
        <5>3. QED BY <1>0, <2>3, <5>1, <5>2 DEF Rebuilds, db
      <4>3. QED BY <4>1, <4>2
    <3>3. QED BY <3>1, <3>2 DEF Rebuilds
  <2>10. QED BY <2>5, <2>6, <2>7, <2>8, <2>9
<1>4. QED BY <1>2, <1>3

\* The lock is released by the one who has it, unless it has outlived it.
LEMMA UnlockKeeps ==
    ASSUME IInv, NEW p \in Procs, Unlock(p)
    PROVE  IInv'
<1> USE DEF IInv
<1>0. /\ p \notin Readers /\ p \in Maintainers /\ (past.overrun \/ lock = p)
      /\ (lock' = Nobody \/ lock' = lock) /\ (GiveUp(p) \/ Done(p))
      /\ UNCHANGED <<kind, db, bucket, lease, past>>
  BY DEF Unlock, JobsShaped, ReaderLabels, UnderLock, Procs, Rebuilds
<1>1. Rests(p) /\ pc'[p] # "unlock"
  BY <1>0, GiveUpRests, DoneRests
<1>2. Shaped' /\ JobsShaped'
  BY <1>0, <1>1, MovesShaped DEF Shaped, Rests, db
<1>3. Tokens'
  BY <1>0, <1>1 DEF Tokens, Rests, RestLabels, Moves, UnderLock, Procs, Shaped
<1>4. ServedIsFresh'
  BY <1>0 DEF ServedIsFresh
<1>5. Decisions'
  BY <1>0, <1>1 DEF Decisions, Rests, RestLabels, Moves, UnderLease, Procs, db
<1>6. Rebuilds'
  BY <1>0, <1>1 DEF Rebuilds, Rests, RestLabels, Moves, UnderLock, Procs, Maintainers, db
<1>7. QED BY <1>2, <1>3, <1>4, <1>5, <1>6

-----------------------------------------------------------------------------
(* Retiring and reopening *)

\* The lease is taken by one, and only while nobody has it.
LEMMA LeaseKeeps ==
    ASSUME IInv, NEW p \in Maintainers, Lease(p)
    PROVE  IInv'
<1> USE DEF IInv
<1>0. p \in Procs /\ p \notin Readers
  BY Apart DEF Procs
<1>1. CASE lease = Nobody
  <2>1. lease' = p /\ Goto(p, "authority") /\ UNCHANGED <<kind, db, bucket, lock, past, job>>
    BY <1>1 DEF Lease
  <2>2. Moves(p) /\ pc'[p] = "authority" /\ job'[p] = job[p]
    BY <1>0, <2>1, GotoStep DEF Labels, UnderLease
  <2>3. Shaped' /\ JobsShaped'
    BY <1>0, <2>1, <2>2, MovesShaped DEF Shaped, db
  <2>4. Tokens'
    BY <2>1, <2>2 DEF Tokens, Moves, UnderLock, Procs
  <2>5. ServedIsFresh'
    BY <2>1 DEF ServedIsFresh
  <2>6. Decisions'
    <3>1. \A q \in Procs : pc[q] \notin UnderLease \cup {"release"}
      BY <1>1, Apart DEF Decisions, JobsShaped, ReaderLabels, UnderLock, UnderLease, Procs
    <3>2. QED
      BY <2>1, <2>2, <3>1 DEF Decisions, Moves, UnderLease, Procs, db
  <2>7. Rebuilds'
    BY <2>1, <2>2 DEF Rebuilds, Moves, UnderLock, Procs, Maintainers, db
  <2>8. QED BY <2>3, <2>4, <2>5, <2>6, <2>7
<1>2. CASE lease # Nobody
  <2>1. Grows /\ GiveUp(p)
    BY <1>2 DEF Lease, Grows, Shaped, db
  <2>2. QED BY <1>0, <2>1, GiveUpRests, RestsLight, LightKeeps
<1>3. QED BY <1>1, <1>2

\* What is read under the lease is no older than the last decision.
LEMMA AuthorityKeeps ==
    ASSUME IInv, NEW p \in Maintainers, Authority(p)
    PROVE  IInv'
<1> USE DEF IInv
<1> DEFINE j == [job[p] EXCEPT !.group = group]
<1>0. p \in Procs /\ p \notin Readers
  BY Apart DEF Procs
<1>1. /\ Has(p, j) /\ Goto(p, "decide") /\ pc[p] = "authority"
      /\ UNCHANGED <<kind, db, bucket, lock, lease, past>>
  BY DEF Authority
<1>2. /\ Fields(j, JobFields) /\ j.token = job[p].token /\ j.account = job[p].account
      /\ j.at = job[p].at /\ j.group = group
  BY <1>0 DEF JobsShaped, Fields, JobFields
<1> HIDE DEF j
<1>3. Moves(p) /\ pc'[p] = "decide" /\ job'[p] = j
  BY <1>0, <1>1, <1>2, HasStep DEF JobsShaped, Shaped, Labels, UnderLease
<1>4. Shaped' /\ JobsShaped'
  BY <1>0, <1>1, <1>3, MovesShaped DEF Shaped, db
<1>5. Tokens'
  BY <1>0, <1>1, <1>2, <1>3 DEF Tokens, Moves, UnderLock, Procs
<1>6. ServedIsFresh'
  BY <1>1 DEF ServedIsFresh
<1>7. Decisions'
  BY <1>0, <1>1, <1>2, <1>3 DEF Decisions, Moves, UnderLease, Procs, Shaped, db
<1>8. Rebuilds'
  BY <1>1, <1>3 DEF Rebuilds, Moves, UnderLock, Procs, Maintainers, db
<1>9. QED BY <1>4, <1>5, <1>6, <1>7, <1>8

\* A decision starts an epoch or leaves the one there is, and hands it out.
LEMMA DecideKeeps ==
    ASSUME IInv, NEW p \in Maintainers, Decide(p)
    PROVE  IInv'
<1> USE DEF IInv
<1>0. /\ p \in Procs /\ p \notin Readers /\ bucket.epoch \in Nat /\ pc[p] = "decide"
      /\ UNCHANGED <<kind, db, lock, lease>> /\ Goto(p, "release")
  BY Apart DEF Procs, Decide, Shaped
<1>1. /\ Fields(past', PastFields)
      /\ past'.decided = job[p].group /\ past'.rebuilt = past.rebuilt
      /\ past'.overrun = past.overrun
  BY DEF Decide, Shaped, Fields, PastFields
<1>2. /\ Fields(bucket', {"epoch", "retired", "registered", "active"})
      /\ bucket'.epoch \in Nat /\ bucket'.epoch >= bucket.epoch /\ bucket'.epoch >= 1
      /\ \/ bucket'.active = <<>>
         \/ /\ bucket'.active = bucket.active /\ bucket'.retired = bucket.retired
            /\ bucket'.registered = bucket.registered
            /\ bucket.epoch >= 1 => bucket'.epoch = bucket.epoch
  <2>1. bucket.retired => bucket.epoch >= 1
    BY DEF Tokens
  <2>2. CASE Active(job[p].group) /\ bucket.retired
    BY <1>0, <2>1, <2>2 DEF Decide, Reopened, Shaped, Fields
  <2>3. CASE Active(job[p].group) /\ ~bucket.retired
    <3> DEFINE epoch == Bigger(bucket.epoch, 1)
    <3>1. /\ epoch \in Nat /\ epoch >= bucket.epoch /\ epoch >= 1
          /\ bucket.epoch >= 1 => epoch = bucket.epoch
      BY <1>0, BiggerIsMax
    <3>2. bucket' = [bucket EXCEPT !.epoch = epoch]
      BY <2>3 DEF Decide, Reopened
    <3> HIDE DEF epoch
    <3>3. QED BY <3>1, <3>2 DEF Shaped, Fields
  <2>4. CASE ~Active(job[p].group)
    BY <1>0, <2>1, <2>4 DEF Decide, Retired, Shaped, Fields
  <2>5. QED BY <2>2, <2>3, <2>4
<1>3. /\ Moves(p) /\ pc'[p] = "release" /\ job'[p].group = job[p].group
      /\ job'[p].token = job[p].token \/ job'[p].token = bucket'.epoch
      /\ Active(job'[p].group) /\ ~job'[p].failed => job'[p].token = bucket'.epoch
  <2>1. CASE /\ Active(job[p].group)
             /\ Has(p, [job[p] EXCEPT !.token = bucket'.epoch, !.strict = TRUE])
    <3> DEFINE j == [job[p] EXCEPT !.token = bucket'.epoch, !.strict = TRUE]
    <3>1. /\ Fields(j, JobFields) /\ j.token = bucket'.epoch /\ j.account = job[p].account
          /\ j.at = job[p].at /\ j.group = job[p].group
      BY <1>0 DEF JobsShaped, Fields, JobFields
    <3>2. Has(p, j)
      BY <2>1
    <3> HIDE DEF j
    <3>3. Moves(p) /\ pc'[p] = "release" /\ job'[p] = j
      BY <1>0, <1>2, <3>1, <3>2, HasStep DEF JobsShaped, Labels
    <3>4. QED BY <3>1, <3>3
  <2>2. CASE ~Active(job[p].group) /\ UNCHANGED job
    BY <1>0, <2>2, GotoStep DEF Labels
  <2>3. CASE Has(p, [job[p] EXCEPT !.failed = TRUE])
    <3> DEFINE j == [job[p] EXCEPT !.failed = TRUE]
    <3>1. /\ Fields(j, JobFields) /\ j.token = job[p].token /\ j.account = job[p].account
          /\ j.at = job[p].at /\ j.group = job[p].group /\ j.failed
      BY <1>0 DEF JobsShaped, Fields, JobFields
    <3>2. Has(p, j)
      BY <2>3
    <3> HIDE DEF j
    <3>3. Moves(p) /\ pc'[p] = "release" /\ job'[p] = j
      BY <1>0, <3>1, <3>2, HasStep DEF JobsShaped, Labels
    <3>4. QED BY <3>1, <3>3
  <2>4. QED BY <2>1, <2>2, <2>3 DEF Decide
<1>5. Shaped' /\ JobsShaped'
  BY <1>0, <1>1, <1>2, <1>3, MovesShaped DEF Shaped, JobsShaped, db
<1>6. Tokens'
  BY <1>0, <1>2, <1>3 DEF Tokens, Moves, UnderLock, Procs, Shaped, JobsShaped
<1>7. ServedIsFresh'
  BY <1>2 DEF ServedIsFresh, Tokens
<1>8. Decisions'
  <2>1. past'.decided <= group'
    BY <1>0, <1>1 DEF Decisions, db
  <2>2. \A q \in Procs : q # p => pc[q] \notin UnderLease \cup {"release"}
    BY <1>0 DEF Decisions, UnderLease
  <2>3. QED
    BY <1>0, <1>3, <2>1, <2>2 DEF Decisions, Moves, UnderLease, Procs
<1>9. Rebuilds'
  BY <1>0, <1>1, <1>3 DEF Rebuilds, Moves, UnderLock, Procs, Maintainers, db
<1>10. QED BY <1>5, <1>6, <1>7, <1>8, <1>9

\* The lease is released by the one who has it, who may go on to rebuild.
LEMMA ReleaseKeeps ==
    ASSUME IInv, NEW p \in Maintainers, Release(p)
    PROVE  IInv'
<1> USE DEF IInv
<1>0. /\ p \in Procs /\ p \notin Readers /\ lease = p /\ pc[p] = "release"
      /\ lease' = Nobody \/ lease' = lease
      /\ UNCHANGED <<kind, db, bucket, lock, past>>
  BY Apart DEF Procs, Release, Decisions
<1>1. /\ Moves(p)
      /\ \/ Rests(p) /\ pc'[p] # "unlock"
         \/ pc'[p] = "lock" /\ job'[p].token = job[p].token /\ job'[p].token >= 1
  <2>1. CASE GiveUp(p) \/ Done(p)
    BY <1>0, <2>1, GiveUpRests, DoneRests DEF Rests
  <2>2. CASE /\ Active(job[p].group) /\ ~job[p].failed
             /\ Goto(p, "lock") /\ Has(p, [job[p] EXCEPT !.group = 0])
    <3> DEFINE j == [job[p] EXCEPT !.group = 0]
    <3>1. /\ Fields(j, JobFields) /\ j.token = job[p].token /\ j.account = job[p].account
          /\ j.at = job[p].at /\ j.group = 0
      BY <1>0 DEF JobsShaped, Fields, JobFields
    <3>2. Moves(p) /\ pc'[p] = "lock" /\ job'[p] = j
      <4>1. Has(p, j)
        BY <2>2
      <4> HIDE DEF j
      <4>2. QED BY <1>0, <2>2, <3>1, <4>1, HasStep DEF JobsShaped, Labels
    <3>3. job[p].token >= 1
      BY <1>0, <2>2 DEF Tokens
    <3>4. QED BY <3>1, <3>2, <3>3
  <2>3. QED BY <2>1, <2>2 DEF Release
<1>2. Shaped' /\ JobsShaped'
  BY <1>0, <1>1, MovesShaped DEF Shaped, db
<1>3. Tokens'
  BY <1>0, <1>1 DEF Tokens, Rests, RestLabels, Moves, UnderLock, Procs, Shaped
<1>4. ServedIsFresh'
  BY <1>0 DEF ServedIsFresh
<1>5. Decisions'
  BY <1>0, <1>1 DEF Decisions, Rests, RestLabels, Moves, UnderLease, Procs, db
<1>6. Rebuilds'
  BY <1>0, <1>1 DEF Rebuilds, Rests, RestLabels, Moves, UnderLock, Procs, Maintainers, db
<1>7. QED BY <1>2, <1>3, <1>4, <1>5, <1>6

-----------------------------------------------------------------------------
(* Failures *)

\* A failed call leaves the lock, or the lease, to be released.
LEMMA CallFailsKeeps ==
    ASSUME IInv, NEW p \in Procs, CallFails(p)
    PROVE  IInv'
<1> USE DEF IInv
<1>0. Grows /\ UNCHANGED <<kind, db, bucket, lock, lease, past>>
  BY DEF CallFails, Grows, Shaped, db
<1>1. CASE pc[p] \in UnderLock
  BY <1>0, <1>1, FinishRests, FinishKeeps DEF CallFails
<1>2. CASE pc[p] \in UnderLease
  <2> DEFINE j == [job[p] EXCEPT !.failed = TRUE]
  <2>1. Has(p, j) /\ Goto(p, "release")
    BY <1>2 DEF CallFails, UnderLock, UnderLease
  <2>2. /\ Fields(j, JobFields) /\ j.token = job[p].token /\ j.account = job[p].account
        /\ j.at = job[p].at /\ j.group = job[p].group /\ j.failed
    BY DEF JobsShaped, Fields, JobFields
  <2> HIDE DEF j
  <2>3. p \notin Readers
    BY <1>2 DEF JobsShaped, ReaderLabels, UnderLock, UnderLease
  <2>4. Moves(p) /\ pc'[p] = "release" /\ job'[p] = j
    BY <2>1, <2>2, <2>3, HasStep DEF JobsShaped, Labels
  <2>5. Shaped' /\ JobsShaped'
    BY <1>0, <2>4, MovesShaped DEF Shaped, db
  <2>6. Tokens'
    BY <1>0, <2>2, <2>4 DEF Tokens, Moves, UnderLock, Procs
  <2>7. ServedIsFresh'
    BY <1>0 DEF ServedIsFresh
  <2>8. Decisions'
    BY <1>0, <1>2, <2>4 DEF Decisions, Moves, UnderLease, Procs, db
  <2>9. Rebuilds'
    BY <1>0, <2>4 DEF Rebuilds, Moves, UnderLock, Procs, Maintainers, db
  <2>10. QED BY <2>5, <2>6, <2>7, <2>8, <2>9
<1>3. CASE pc[p] \notin UnderLock \cup UnderLease
  <2>1. GiveUp(p)
    BY <1>3 DEF CallFails
  <2>2. QED BY <1>0, <2>1, GiveUpRests, RestsLight, LightKeeps
<1>4. QED BY <1>1, <1>2, <1>3

\* A key with a TTL lapses only where its holder is gone.
LEMMA LapsesKeep ==
    ASSUME IInv, LockLapses \/ LeaseLapses
    PROVE  IInv'
<1> USE DEF IInv
<1>0. UNCHANGED <<kind, db, bucket, job, pc, past>>
  BY DEF LockLapses, LeaseLapses
<1>1. Shaped' /\ JobsShaped' /\ Tokens' /\ ServedIsFresh'
  BY <1>0 DEF Shaped, JobsShaped, Tokens, ServedIsFresh, db
<1>2. Decisions'
  BY <1>0 DEF LockLapses, LeaseLapses, Decisions, db
<1>3. Rebuilds'
  BY <1>0 DEF LockLapses, LeaseLapses, Rebuilds, db
<1>4. QED BY <1>1, <1>2, <1>3

\* Who has outlived the lock works on without it.
LEMMA OutlivedKeeps ==
    ASSUME IInv, LockOutlived
    PROVE  IInv'
<1> USE DEF IInv
<1>0. /\ UNCHANGED <<kind, db, bucket, lease, pc>>
      /\ past' = [past EXCEPT !.overrun = TRUE]
      /\ Has(lock, [job[lock] EXCEPT !.late = TRUE])
  BY DEF LockOutlived
<1>1. /\ Fields(past', PastFields) /\ past'.overrun
      /\ past'.decided = past.decided /\ past'.rebuilt = past.rebuilt
  BY <1>0 DEF Shaped, Fields, PastFields
<1>2. /\ DOMAIN job' = DOMAIN job
      /\ \A q \in Writers \cup Procs :
            /\ Fields(job'[q], JobFields)
            /\ job'[q].token = job[q].token /\ job'[q].account = job[q].account
            /\ job'[q].at = job[q].at /\ job'[q].group = job[q].group
            /\ job'[q].failed = job[q].failed
  BY <1>0 DEF Has, JobsShaped, Fields, JobFields
<1>3. Shaped' /\ JobsShaped'
  BY <1>0, <1>1, <1>2 DEF Shaped, JobsShaped, db
<1>4. Tokens'
  BY <1>0, <1>2 DEF Tokens, Procs
<1>5. ServedIsFresh'
  BY <1>0 DEF ServedIsFresh
<1>6. Decisions'
  BY <1>0, <1>1, <1>2 DEF Decisions, Procs, db
<1>7. Rebuilds'
  BY <1>0, <1>1, <1>2 DEF Rebuilds, Procs, Maintainers, db
<1>8. QED BY <1>3, <1>4, <1>5, <1>6, <1>7

\* When its context ends, it goes on to the unlock.
LEMMA TimesOutKeeps ==
    ASSUME IInv, NEW p \in Maintainers, TimesOut(p)
    PROVE  IInv'
<1>0. Finish(p, TRUE) /\ pc[p] \in UnderLock /\ p \in Procs
  BY DEF TimesOut, Procs
<1>1. Grows
  BY DEF TimesOut, Grows, IInv, Shaped, db
<1>2. QED BY <1>0, <1>1, FinishRests, FinishKeeps DEF IInv

\* The end of a limit touches nothing of this.
LEMMA LimitEndsKeeps ==
    ASSUME IInv, LimitEnds
    PROVE  IInv'
BY DEF LimitEnds, IInv, Shaped, JobsShaped, Tokens, ServedIsFresh, Decisions, Rebuilds

-----------------------------------------------------------------------------

\* The empty bucket of the beginning has the invariant.
LEMMA InitKeeps == Init => IInv
<1> SUFFICES ASSUME Init PROVE IInv
  OBVIOUS
<1> USE DEF Init
<1>1. PICK s \in Scenarios :
        /\ kind = s.kind
        /\ pc = [p \in Writers \cup Procs |->
                    IF p \in DOMAIN s.kind THEN "change"
                    ELSE IF p \in s.running THEN "idle" ELSE "off"]
  OBVIOUS
<1>2. \A p \in Procs : pc[p] \in {"idle", "off"}
  BY <1>1, SchedulerSnapshotAssumption DEF Procs, Maintainers
<1>3. Shaped
  BY <1>1, SchedulerSnapshotAssumption DEF Shaped, Fields, PastFields
<1>4. \A p \in Writers \cup Procs : job[p] = Blank
  OBVIOUS
<1>5. JobsShaped
  <2>1. DOMAIN job = Writers \cup Procs /\ pc \in [Writers \cup Procs -> Labels]
    BY <1>1 DEF Labels
  <2>2. /\ Fields(Blank, JobFields) /\ Blank.token = 0 /\ Blank.account = 0
        /\ Blank.at = 0 /\ Blank.group = 0
    BY BatchJob
  <2>3. \A p \in Readers : pc[p] \in ReaderLabels
    BY <1>2 DEF ReaderLabels, Procs
  <2> HIDE DEF Init
  <2>4. QED BY <1>4, <2>1, <2>2, <2>3 DEF JobsShaped
<1>6. Tokens
  BY <1>2, <1>4, BatchJob DEF Tokens, UnderLock, Procs
<1>7. ServedIsFresh
  BY DEF ServedIsFresh
<1>8. Decisions
  BY <1>2 DEF Decisions, UnderLease
<1>9. Rebuilds
  BY <1>2 DEF Rebuilds, UnderLock, Procs
<1>10. QED BY <1>3, <1>5, <1>6, <1>7, <1>8, <1>9 DEF IInv

\* Every step keeps it.
LEMMA StepKeeps ==
    ASSUME IInv, [Next]_vars
    PROVE  IInv'
<1>1. ASSUME NEW w \in DOMAIN kind, WriterStep(w) \/ WriterFails(w) PROVE IInv'
  BY <1>1, WriterStepKeeps
<1>2. ASSUME NEW p \in Procs, PublishStep(p) PROVE IInv'
  BY <1>2, CaptureKeeps, LockKeeps, LoadKeeps, WriteKeeps, ActivateKeeps, UnlockKeeps
  DEF PublishStep
<1>3. ASSUME NEW p \in Maintainers, LifecycleStep(p) PROVE IInv'
  BY <1>3, LeaseKeeps, AuthorityKeeps, DecideKeeps, ReleaseKeeps DEF LifecycleStep
<1>4. ASSUME NEW p \in Pollers, PollerStep(p) PROVE IInv'
  <2>1. p \in Procs /\ p \in Maintainers
    BY DEF Procs, Maintainers
  <2>2. QED BY <1>2, <1>3, <1>4, <2>1, PollerLight, LightKeeps DEF PollerStep
<1>5. ASSUME NEW p \in Rebuilders, RebuilderStep(p) PROVE IInv'
  <2>1. p \in Procs /\ p \in Maintainers
    BY DEF Procs, Maintainers
  <2>2. QED BY <1>2, <1>3, <1>5, <2>1, RebuilderLight, LightKeeps DEF RebuilderStep
<1>6. ASSUME NEW p \in Readers, ReaderStep(p) PROVE IInv'
  <2>1. p \in Procs
    BY DEF Procs
  <2>2. QED BY <1>2, <1>6, <2>1, MissLight, LightKeeps DEF ReaderStep
<1>7. ASSUME NEW p \in Procs, CallFails(p) \/ Crash(p) PROVE IInv'
  BY <1>7, CallFailsKeeps, CrashLight, LightKeeps
<1>8. CASE LockLapses \/ LeaseLapses
  BY <1>8, LapsesKeep
<1>9. CASE LockOutlived \/ LimitEnds
  BY <1>9, OutlivedKeeps, LimitEndsKeeps
<1>10. ASSUME NEW p \in Maintainers, TimesOut(p) PROVE IInv'
  BY <1>10, TimesOutKeeps
<1>11. CASE UNCHANGED vars
  BY <1>11
  DEF vars, db, IInv, Shaped, JobsShaped, Tokens, ServedIsFresh, Decisions, Rebuilds
<1>12. QED
  BY <1>1, <1>4, <1>5, <1>6, <1>7, <1>8, <1>9, <1>10, <1>11 DEF Next

\* The inductive invariant holds in every state.
THEOREM SnapshotInvariance == Spec => []IInv
BY InitKeeps, StepKeeps, PTL DEF Spec

\* What requests are served was loaded in the epoch there is, and is registered.
THEOREM Fresh == Spec => []ServedIsFresh
<1>1. IInv => ServedIsFresh
  BY DEF IInv
<1>2. QED BY <1>1, SnapshotInvariance, PTL

-----------------------------------------------------------------------------

\* Only a decision changes the decided state, and only a publication the rebuilt one.
LEMMA PastStep ==
    ASSUME IInv, [Next]_vars
    PROVE  /\ past'.decided >= past.decided
           /\ past.overrun \/ past'.rebuilt >= past.rebuilt
<1> DEFINE Same == past'.decided = past.decided /\ past'.rebuilt = past.rebuilt
           Later == /\ past'.decided >= past.decided
                    /\ past.overrun \/ past'.rebuilt >= past.rebuilt
<1> USE DEF IInv, Shaped, Fields, PastFields
<1>0. past.decided \in Nat /\ past.rebuilt \in Nat
  OBVIOUS
<1>1. ASSUME NEW w \in DOMAIN kind, WriterStep(w) \/ WriterFails(w) PROVE Same
  BY <1>1
  DEF WriterStep, WriterFails, Change, Insert, InsertSuppressed, Commit, Announces, SyncRead,
     SyncPut
<1>2. ASSUME NEW p \in Procs, Activate(p) PROVE Later
  <2>1. CASE UNCHANGED past
    BY <1>0, <2>1
  <2>2. CASE p \in Maintainers /\ past' = [past EXCEPT !.rebuilt = job[p].account]
    <3>1. past'.decided = past.decided /\ past'.rebuilt = job[p].account
      BY <2>2
    <3>2. past.overrun \/ past.rebuilt <= job[p].account
      BY <1>2, <2>2 DEF Activate, Rebuilds, UnderLock
    <3>3. job[p].account \in Nat
      BY DEF JobsShaped
    <3>4. QED BY <1>0, <3>1, <3>2, <3>3
  <2>3. QED BY <1>2, <2>1, <2>2 DEF Activate, Publish
<1>3. ASSUME NEW p \in Maintainers, Decide(p) PROVE Later
  BY <1>0, <1>3 DEF Decide, Decisions, JobsShaped, Procs
<1>4. ASSUME NEW p \in Procs,
             Capture(p) \/ Lock(p) \/ Load(p) \/ Allocate(p) \/ WriteRecords(p) \/ Unlock(p)
      PROVE  Same
  BY <1>4 DEF Capture, Lock, Locked, Load, Allocate, WriteRecords, Unlock
<1>5. ASSUME NEW p \in Procs, Lease(p) \/ Authority(p) \/ Release(p) PROVE Same
  BY <1>5 DEF Lease, Authority, Release
<1>6. ASSUME NEW p \in Procs,
             \/ ReadWatermark(p) \/ List(p) \/ GetAccount(p) \/ SetAccount(p)
             \/ SetWatermark(p) \/ Cleanup(p)
      PROVE  Same
  BY <1>6 DEF ReadWatermark, List, GetAccount, SetAccount, SetWatermark, Cleanup
<1>7. ASSUME NEW p \in Procs,
             \/ ReadRegistry(p) \/ ReadGroups(p) \/ Miss(p)
             \/ CallFails(p) \/ Crash(p) \/ TimesOut(p)
      PROVE  Same
  BY <1>7 DEF ReadRegistry, ReadGroups, Miss, CallFails, Crash, TimesOut
<1>8. CASE LockLapses \/ LeaseLapses \/ LockOutlived \/ LimitEnds \/ UNCHANGED vars
  BY <1>8 DEF LockLapses, LeaseLapses, LockOutlived, LimitEnds, vars
<1> HIDE DEF IInv, Shaped, Fields, PastFields
<1>9. ASSUME NEW p \in Procs,
             PublishStep(p) \/ (p \in Maintainers /\ LifecycleStep(p))
      PROVE  Later
  BY <1>0, <1>2, <1>3, <1>4, <1>5, <1>9 DEF PublishStep, LifecycleStep
<1>10. QED
  BY <1>0, <1>1, <1>6, <1>7, <1>8, <1>9
  DEF Next, PollerStep, RebuilderStep, ReaderStep, Procs, Maintainers

\* Each retirement or reopening acts on a state of the group no older than the one before.
THEOREM DecisionsOrdered == Spec => DecisionsInOrder
<1>1. IInv /\ [Next]_vars => [past'.decided >= past.decided]_vars
  BY PastStep
<1>2. QED BY <1>1, SnapshotInvariance, PTL DEF Spec, DecisionsInOrder

\* Each snapshot published under the lock shows a state of the account no older than
\* the one before, while no rebuild at work may have met one that outlived its lock.
THEOREM RebuildsOrdered == Spec => RebuildsInOrder
<1>1. IInv /\ [Next]_vars => [past.overrun \/ past'.rebuilt >= past.rebuilt]_vars
  BY PastStep
<1>2. QED BY <1>1, SnapshotInvariance, PTL DEF Spec, RebuildsInOrder

-----------------------------------------------------------------------------
(* The outbox: what a step does to the batches of the pollers *)

\* p alone moves.
Alone(p) ==
    \A q \in Writers \cup Procs : q # p => pc'[q] = pc[q] /\ job'[q] = job[q]

\* Nothing that the outbox invariant reads changes, but for the processes.
SameOutbox ==
    /\ UNCHANGED <<kind, account, rows, lastId, watermark>>
    /\ past'.announced = past.announced /\ past'.read = past.read /\ past'.gap = past.gap

\* p forgets its batch.
Drops(p) == pc'[p] = "idle" /\ job'[p].from = 0 /\ job'[p].last = 0

\* p goes on with its batch: of the events for which it has to read the account it
\* drops at most the one it is at, which it has read the account for.
Advances(p) ==
    /\ pc[p] # "get" /\ pc'[p] # "clean"
    /\ job'[p].from = job[p].from /\ job'[p].last = job[p].last
    /\ pc'[p] = "mark" => job'[p].todo = {}
    /\ \A e \in job[p].todo : e.what = "account" /\ e # First(job[p].todo) =>
           e \in job'[p].todo /\ (pc'[p] = "get" \/ e # First(job'[p].todo))

\* A process takes another label and another job, or only the label.
LEMMA AloneStep ==
    ASSUME JobsShaped, NEW p \in Writers \cup Procs, NEW j, NEW label,
           Has(p, j) \/ (UNCHANGED job /\ j = job[p]), Goto(p, label)
    PROVE  Alone(p) /\ pc'[p] = label /\ job'[p] = j
BY DEF Has, Goto, JobsShaped, Alone

\* Giving up forgets the batch.
LEMMA GiveUpDrops ==
    ASSUME JobsShaped, NEW p \in Procs, GiveUp(p)
    PROVE  Alone(p) /\ Drops(p)
<1>1. Has(p, Blank) /\ Goto(p, "idle")
  BY DEF GiveUp
<1>2. Alone(p) /\ pc'[p] = "idle" /\ job'[p] = Blank
  BY <1>1, AloneStep
<1>3. QED BY <1>2 DEF Drops, Blank

\* The next event of a batch: the events for which the account has to be read stay,
\* and the one it is at is such an event only where p reads the account.
LEMMA TakeNextBatch ==
    ASSUME JobsShaped, NEW p \in Pollers, NEW j, TakeNext(p, j)
    PROVE  /\ Alone(p) /\ pc'[p] # "clean"
           /\ job'[p].from = j.from /\ job'[p].last = j.last
           /\ pc'[p] = "mark" => job'[p].todo = {}
           /\ \A e \in j.todo : e.what = "account" =>
                  e \in job'[p].todo /\ (pc'[p] = "get" \/ e # First(job'[p].todo))
<1> DEFINE todo == IF "lifecycle" \in j.seen
                   THEN {e \in j.todo : e.what # "group"} ELSE j.todo
           label == IF todo = {} THEN "mark"
                    ELSE IF First(todo).what = "account" THEN "get" ELSE "lease"
           next == [Batch(j) EXCEPT !.todo = todo]
<1>1. Has(p, next) /\ Goto(p, label)
  BY DEF TakeNext
<1>2. /\ label # "clean" /\ (label = "mark" => todo = {})
      /\ todo # {} /\ label # "get" => First(todo).what # "account"
  OBVIOUS
<1>3. \A e \in j.todo : e.what = "account" => e \in todo
  OBVIOUS
<1> HIDE DEF todo, label
<1>4. next.from = j.from /\ next.last = j.last /\ next.todo = todo
  BY DEF Batch, Blank
<1> HIDE DEF next
<1>5. p \in Procs
  BY DEF Procs, Maintainers
<1>6. Alone(p) /\ pc'[p] = label /\ job'[p] = next
  BY <1>1, <1>5, AloneStep
<1>7. QED BY <1>2, <1>3, <1>4, <1>6

\* A process that is done with an event drops that one.
LEMMA DoneAdvances ==
    ASSUME JobsShaped, NEW p \in Procs, Done(p), p \in Pollers => pc[p] # "get"
    PROVE  Alone(p) /\ (p \in Pollers => Advances(p))
<1>1. CASE p \in Pollers
  <2>1. PICK seen : TakeNext(p, [job[p] EXCEPT !.todo = @ \ {First(@)}, !.seen = seen])
    BY <1>1 DEF Done
  <2> DEFINE j == [job[p] EXCEPT !.todo = @ \ {First(@)}, !.seen = seen]
  <2>2. /\ j.from = job[p].from /\ j.last = job[p].last
        /\ j.todo = job[p].todo \ {First(job[p].todo)}
    BY DEF JobsShaped, Fields, JobFields, Procs
  <2> HIDE DEF j
  <2>3. TakeNext(p, j)
    BY <2>1 DEF j
  <2>4. QED BY <1>1, <2>2, <2>3, TakeNextBatch DEF Advances
<1>2. CASE p \notin Pollers
  BY <1>2, GiveUpDrops DEF Done
<1>3. QED BY <1>1, <1>2

\* A process that takes another label and keeps its batch goes on with it.
LEMMA SameBatch ==
    ASSUME JobsShaped, NEW p \in Procs, NEW j, NEW label,
           Has(p, j) \/ (UNCHANGED job /\ j = job[p]), Goto(p, label),
           j.from = job[p].from, j.last = job[p].last, j.todo = job[p].todo,
           pc[p] # "get", label \notin {"get", "mark", "clean"}
    PROVE  Alone(p) /\ Advances(p)
<1>1. Alone(p) /\ pc'[p] = label /\ job'[p] = j
  BY AloneStep
<1>2. QED BY <1>1 DEF Advances

\* Who leaves the lock's work keeps its batch.
LEMMA FinishAdvances ==
    ASSUME JobsShaped, NEW p \in Procs, NEW failed, Finish(p, failed), pc[p] # "get"
    PROVE  Alone(p) /\ (p \in Pollers => Advances(p))
<1>1. CASE p \in Readers
  BY <1>1, Apart, GiveUpDrops DEF Finish, Maintainers
<1>2. CASE p \notin Readers
  <2> DEFINE j == [Batch(job[p]) EXCEPT !.failed = failed]
  <2>1. Has(p, j) /\ Goto(p, "unlock")
    BY <1>2 DEF Finish
  <2>2. j.from = job[p].from /\ j.last = job[p].last /\ j.todo = job[p].todo
    BY DEF Batch, Blank
  <2> HIDE DEF j
  <2>3. QED BY <2>1, <2>2, SameBatch
<1>3. QED BY <1>1, <1>2

-----------------------------------------------------------------------------
(* The outbox: steps that change no row *)

\* A row keeps its place before a poller that goes on with its batch or forgets it.
LEMMA CoversKept ==
    ASSUME NEW p \in Procs, Alone(p), p \in Pollers => Advances(p) \/ Drops(p),
           NEW q \in Pollers, NEW r, r.id \in Nat \ {0}, Covers(q, r)
    PROVE  Covers(q, r)'
<1>0. q \in Writers \cup Procs
  BY DEF Procs, Maintainers
<1>1. CASE q # p
  BY <1>0, <1>1 DEF Alone, Covers, WillRead
<1>2. CASE q = p /\ Drops(p)
  BY <1>2 DEF Drops, Covers
<1>3. CASE q = p /\ Advances(p)
  <2>1. WillRead(p) => WillRead(p)'
    BY <1>3 DEF Advances, WillRead
  <2>2. QED BY <1>3, <2>1 DEF Advances, Covers
<1>4. QED BY <1>1, <1>2, <1>3

\* Such a poller keeps the bounds of its batch, and so do all others.
LEMMA BatchKept ==
    ASSUME RowsKept, NEW p \in Procs, Alone(p), p \in Pollers => Advances(p) \/ Drops(p),
           NEW q \in Pollers
    PROVE  /\ job'[q].from \in 0..lastId /\ job'[q].last \in 0..lastId
           /\ pc'[q] = "mark" => job'[q].todo = {}
           /\ job'[q].from = job[q].from \/ job'[q].from = 0
           /\ pc'[q] = "clean" => pc[q] = "clean" /\ job'[q].last = job[q].last
<1>0. q \in Writers \cup Procs /\ lastId \in Nat
  BY DEF Procs, Maintainers, RowsKept
<1>1. CASE q # p
  BY <1>0, <1>1 DEF Alone, RowsKept
<1>2. CASE q = p /\ Drops(p)
  BY <1>0, <1>2 DEF Drops, RowsKept
<1>3. CASE q = p /\ Advances(p)
  BY <1>3 DEF Advances, RowsKept
<1>4. QED BY <1>1, <1>2, <1>3

\* Where the rows stay as they are, so does what is known of them.
LEMMA BatchKeeps ==
    ASSUME IInv, OutboxInv, NEW p \in Procs, Alone(p), SameOutbox,
           p \in Pollers => Advances(p) \/ Drops(p)
    PROVE  OutboxInv'
<1> USE DEF OutboxInv, SameOutbox
<1>1. \A w \in Writers : pc'[w] = pc[w] /\ job'[w] = job[w]
  BY Apart DEF Alone
<1>2. \A w \in DOMAIN kind : w \in Writers
  BY DEF IInv, Shaped
<1>3. RowsKept'
  <2>1. \A r \in rows : Event(r.by)' = Event(r.by)
    BY DEF Event
  <2>2. QED BY <1>1, <1>2, <2>1, BatchKept DEF RowsKept
<1>4. UnpolledAhead'
  <2>1. \A q \in Pollers : job[q].from \in Nat
    BY DEF RowsKept
  <2>2. \A r \in rows : r.id \in Nat \ {0}
    BY DEF RowsKept
  <2>3. QED BY <2>1, <2>2, BatchKept DEF UnpolledAhead
<1>5. AnnouncedKept'
  <2>1. ASSUME NEW r \in rows, Pending(r) PROVE Pending(r)'
    <3>1. r.id \in Nat \ {0}
      BY DEF RowsKept
    <3>2. \A q \in Pollers : Covers(q, r)'
      BY <2>1, <3>1, CoversKept DEF Pending
    <3>3. QED BY <2>1, <3>2 DEF Pending
  <2>2. QED BY <1>1, <2>1 DEF AnnouncedKept
<1>6. QED BY <1>3, <1>4, <1>5

\* A step of p that changes no row keeps what is known of them.
QuietStep(p) ==
    SameOutbox /\ Alone(p) /\ (p \in Pollers => Advances(p) \/ Drops(p))

\* Publishing changes no row.
LEMMA PublishQuiet ==
    ASSUME IInv, NEW p \in Procs, PublishStep(p)
    PROVE  QuietStep(p)
<1> USE DEF IInv, Shaped, JobsShaped, Fields, SameOutbox, db, outbox
<1>1. CASE Capture(p)
  <2>1. SameOutbox /\ pc[p] # "get"
    BY <1>1 DEF Capture
  <2>2. CASE Done(p)
    BY <2>1, <2>2, DoneAdvances DEF QuietStep
  <2>3. CASE Goto(p, "lease") /\ UNCHANGED job
    BY <2>1, <2>3, SameBatch DEF QuietStep
  <2>4. ASSUME NEW label \in {"load", "lock"}, Goto(p, label),
               Has(p, [job[p] EXCEPT !.token = bucket'.epoch])
        PROVE  QuietStep(p)
    <3> DEFINE j == [job[p] EXCEPT !.token = bucket'.epoch]
    <3>1. j.from = job[p].from /\ j.last = job[p].last /\ j.todo = job[p].todo
      BY DEF JobFields, Procs
    <3>2. Has(p, j)
      BY <2>4
    <3> HIDE DEF j
    <3>3. QED BY <2>1, <2>4, <3>1, <3>2, SameBatch DEF QuietStep
  <2>5. QED BY <1>1, <2>2, <2>3, <2>4 DEF Capture
<1>2. CASE Lock(p)
  <2>1. SameOutbox /\ pc[p] # "get"
    BY <1>2 DEF Lock, Locked, PastFields
  <2>2. CASE GiveUp(p)
    BY <2>1, <2>2, GiveUpDrops DEF QuietStep
  <2>3. CASE Done(p)
    BY <2>1, <2>3, DoneAdvances DEF QuietStep
  <2>4. CASE Goto(p, "load") /\ UNCHANGED job
    BY <2>1, <2>4, SameBatch DEF QuietStep
  <2>5. QED BY <1>2, <2>2, <2>3, <2>4 DEF Lock, Locked
<1>3. CASE Load(p)
  <2>1. SameOutbox /\ pc[p] # "get"
    BY <1>3 DEF Load
  <2>2. CASE GiveUp(p)
    BY <2>1, <2>2, GiveUpDrops DEF QuietStep
  <2>3. CASE /\ Has(p, [job[p] EXCEPT !.account = account, !.listed = ~limited,
                                       !.at = bucket.epoch])
             /\ Goto(p, "allocate")
    <3> DEFINE j == [job[p] EXCEPT !.account = account, !.listed = ~limited,
                                   !.at = bucket.epoch]
    <3>1. j.from = job[p].from /\ j.last = job[p].last /\ j.todo = job[p].todo
      BY DEF JobFields, Procs
    <3>2. Has(p, j)
      BY <2>3
    <3> HIDE DEF j
    <3>3. QED BY <2>1, <2>3, <3>1, <3>2, SameBatch DEF QuietStep
  <2>4. QED BY <1>3, <2>2, <2>3 DEF Load
<1>4. CASE Allocate(p)
  <2>1. SameOutbox /\ pc[p] # "get"
    BY <1>4 DEF Allocate
  <2>2. CASE Finish(p, job[p].strict)
    BY <2>1, <2>2, FinishAdvances DEF QuietStep
  <2>3. CASE Goto(p, "write") /\ UNCHANGED job
    BY <2>1, <2>3, SameBatch DEF QuietStep
  <2>4. QED BY <1>4, <2>2, <2>3 DEF Allocate
<1>5. CASE WriteRecords(p)
  <2>1. SameOutbox /\ pc[p] # "get" /\ Goto(p, "activate") /\ UNCHANGED job
    BY <1>5 DEF WriteRecords
  <2>2. QED BY <2>1, SameBatch DEF QuietStep
<1>6. CASE Activate(p)
  <2>1. SameOutbox /\ pc[p] # "get"
    BY <1>6 DEF Activate, Publish, PastFields
  <2>2. PICK failed : Finish(p, failed)
    BY <1>6 DEF Activate
  <2>3. QED BY <2>1, <2>2, FinishAdvances DEF QuietStep
<1>7. CASE Unlock(p)
  <2>1. SameOutbox /\ pc[p] # "get" /\ (GiveUp(p) \/ Done(p))
    BY <1>7 DEF Unlock
  <2>2. QED BY <2>1, GiveUpDrops, DoneAdvances DEF QuietStep
<1>8. QED BY <1>1, <1>2, <1>3, <1>4, <1>5, <1>6, <1>7 DEF PublishStep

\* Nor does a retirement or a reopening.
LEMMA LifecycleQuiet ==
    ASSUME IInv, NEW p \in Procs, LifecycleStep(p)
    PROVE  QuietStep(p)
<1> USE DEF IInv, Shaped, JobsShaped, Fields, SameOutbox, db, outbox
<1>1. CASE Lease(p)
  <2>1. SameOutbox /\ pc[p] # "get"
    BY <1>1 DEF Lease
  <2>2. CASE GiveUp(p)
    BY <2>1, <2>2, GiveUpDrops DEF QuietStep
  <2>3. CASE Goto(p, "authority") /\ UNCHANGED job
    BY <2>1, <2>3, SameBatch DEF QuietStep
  <2>4. QED BY <1>1, <2>2, <2>3 DEF Lease
<1>2. CASE Authority(p)
  <2> DEFINE j == [job[p] EXCEPT !.group = group]
  <2>1. SameOutbox /\ pc[p] # "get" /\ Has(p, j) /\ Goto(p, "decide")
    BY <1>2 DEF Authority
  <2>2. j.from = job[p].from /\ j.last = job[p].last /\ j.todo = job[p].todo
    BY DEF JobFields, Procs
  <2> HIDE DEF j
  <2>3. QED BY <2>1, <2>2, SameBatch DEF QuietStep
<1>3. CASE Decide(p)
  <2>1. SameOutbox /\ pc[p] # "get" /\ Goto(p, "release")
    BY <1>3 DEF Decide
  <2>2. PICK j : /\ j.from = job[p].from /\ j.last = job[p].last /\ j.todo = job[p].todo
                 /\ Has(p, j) \/ (UNCHANGED job /\ j = job[p])
    <3> DEFINE ok == [job[p] EXCEPT !.token = bucket'.epoch, !.strict = TRUE]
               lost == [job[p] EXCEPT !.failed = TRUE]
    <3>1. /\ ok.from = job[p].from /\ ok.last = job[p].last /\ ok.todo = job[p].todo
          /\ lost.from = job[p].from /\ lost.last = job[p].last /\ lost.todo = job[p].todo
      BY DEF JobFields, Procs
    <3>2. Has(p, ok) \/ Has(p, lost) \/ UNCHANGED job
      BY <1>3 DEF Decide
    <3> HIDE DEF ok, lost
    <3>3. QED BY <3>1, <3>2
  <2>3. QED BY <2>1, <2>2, SameBatch DEF QuietStep
<1>4. CASE Release(p)
  <2>1. SameOutbox /\ pc[p] # "get"
    BY <1>4 DEF Release
  <2>2. CASE GiveUp(p) \/ Done(p)
    BY <2>1, <2>2, GiveUpDrops, DoneAdvances DEF QuietStep
  <2>3. CASE Goto(p, "lock") /\ Has(p, [job[p] EXCEPT !.group = 0])
    <3> DEFINE j == [job[p] EXCEPT !.group = 0]
    <3>1. j.from = job[p].from /\ j.last = job[p].last /\ j.todo = job[p].todo
      BY DEF JobFields, Procs
    <3>2. Has(p, j)
      BY <2>3
    <3> HIDE DEF j
    <3>3. QED BY <2>1, <2>3, <3>1, <3>2, SameBatch DEF QuietStep
  <2>4. QED BY <1>4, <2>2, <2>3 DEF Release
<1>5. QED BY <1>1, <1>2, <1>3, <1>4 DEF LifecycleStep

\* Nor does a failure, nor what the other processes do on their own.
LEMMA OthersQuiet ==
    ASSUME IInv, NEW p \in Procs,
           \/ CallFails(p) \/ Crash(p) \/ TimesOut(p)
           \/ p \in Rebuilders /\ (ReadRegistry(p) \/ ReadGroups(p))
           \/ p \in Readers /\ Miss(p)
    PROVE  QuietStep(p)
<1> USE DEF IInv, Shaped, JobsShaped, Fields, SameOutbox, db, outbox
<1>1. CASE CallFails(p)
  <2>1. SameOutbox
    BY <1>1 DEF CallFails
  <2>2. CASE GiveUp(p)
    BY <2>1, <2>2, GiveUpDrops DEF QuietStep
  <2>3. CASE pc[p] \in UnderLock /\ Finish(p, TRUE)
    BY <2>1, <2>3, FinishAdvances DEF QuietStep, UnderLock
  <2>4. CASE /\ pc[p] \in UnderLease
             /\ Has(p, [job[p] EXCEPT !.failed = TRUE]) /\ Goto(p, "release")
    <3> DEFINE j == [job[p] EXCEPT !.failed = TRUE]
    <3>1. j.from = job[p].from /\ j.last = job[p].last /\ j.todo = job[p].todo
      BY DEF JobFields, Procs
    <3>2. Has(p, j)
      BY <2>4
    <3> HIDE DEF j
    <3>3. QED BY <2>1, <2>4, <3>1, <3>2, SameBatch DEF QuietStep, UnderLease
  <2>5. QED BY <1>1, <2>2, <2>3, <2>4 DEF CallFails
<1>2. CASE Crash(p)
  <2>1. SameOutbox /\ GiveUp(p)
    BY <1>2 DEF Crash
  <2>2. QED BY <2>1, GiveUpDrops DEF QuietStep
<1>3. CASE p \in Rebuilders /\ (ReadRegistry(p) \/ ReadGroups(p))
  <2>1. PICK j, label : SameOutbox /\ Has(p, j) /\ Goto(p, label)
    BY <1>3 DEF ReadRegistry, ReadGroups
  <2>2. QED BY <1>3, <2>1, Apart, AloneStep DEF QuietStep
<1>4. CASE p \in Readers /\ Miss(p)
  <2>1. SameOutbox /\ UNCHANGED job /\ Goto(p, "capture") /\ p \notin Pollers
    BY <1>4, Apart DEF Miss, Maintainers
  <2>2. QED BY <2>1, AloneStep DEF QuietStep
<1>5. CASE TimesOut(p)
  <2>1. SameOutbox /\ pc[p] \in UnderLock /\ Finish(p, TRUE)
    BY <1>5 DEF TimesOut
  <2>2. QED BY <2>1, FinishAdvances DEF QuietStep, UnderLock
<1>6. QED BY <1>1, <1>2, <1>3, <1>4, <1>5

-----------------------------------------------------------------------------
(* The outbox: writers *)

\* A writer leaves the pollers and the other writers alone.
LEMMA WriterAside ==
    ASSUME NEW w \in Writers, Alone(w)
    PROVE  /\ \A q \in Pollers : pc'[q] = pc[q] /\ job'[q] = job[q]
           /\ \A v \in Writers : v # w => pc'[v] = pc[v] /\ job'[v] = job[v]
           /\ \A q \in Pollers : \A r : Covers(q, r) => Covers(q, r)'
<1>1. \A q \in Pollers : pc'[q] = pc[q] /\ job'[q] = job[q]
  BY Apart DEF Alone, Procs, Maintainers
<1>2. QED BY <1>1 DEF Alone, Covers, WillRead

\* A row nobody has polled is pending once it is committed, unless one was jumped over.
LEMMA UnpolledCovered ==
    ASSUME RowsKept, UnpolledAhead, ~past.gap, NEW r \in rows, r.polled = {}
    PROVE  r.id > watermark /\ \A q \in Pollers : Covers(q, r)
BY DEF RowsKept, UnpolledAhead, Covers

\* A change is followed by its row.
LEMMA ChangeOutbox ==
    ASSUME IInv, OutboxInv, NEW w \in Writers, w \in DOMAIN kind, Change(w)
    PROVE  OutboxInv'
<1> USE DEF OutboxInv, db, outbox
<1> DEFINE j == [Blank EXCEPT !.account = account']
<1>0. /\ pc[w] = "change" /\ Has(w, j) /\ Goto(w, "insert") /\ account' >= account
      /\ UNCHANGED <<kind, rows, lastId, watermark, past>> /\ account \in Nat /\ account' \in Nat
  BY DEF Change, IInv, Shaped
<1>1. j.account = account'
  BY DEF Blank
<1> HIDE DEF j
<1>2. Alone(w) /\ pc'[w] = "insert" /\ job'[w] = j
  BY <1>0, AloneStep DEF IInv
<1>3. \A v \in DOMAIN kind : v \in Writers
  BY DEF IInv, Shaped
<1>4. RowsKept'
  BY <1>0, <1>2, <1>3, WriterAside DEF RowsKept, Event
<1>5. UnpolledAhead'
  BY <1>0, <1>2, WriterAside DEF UnpolledAhead
<1>6. AnnouncedKept'
  <2>1. \A v \in Writers : job'[v].account <= account'
    BY <1>0, <1>1, <1>2, WriterAside DEF AnnouncedKept, IInv, JobsShaped
  <2>2. past'.gap \/ past'.announced <= past'.read \/ \E r \in rows : Pending(r)'
    BY <1>0, <1>2, WriterAside DEF AnnouncedKept, Pending
  <2>3. QED BY <1>0, <2>1, <2>2 DEF AnnouncedKept
<1>7. QED BY <1>4, <1>5, <1>6

\* A new row is ahead of everybody.
LEMMA InsertOutbox ==
    ASSUME IInv, OutboxInv, NEW w \in Writers, w \in DOMAIN kind, Insert(w)
    PROVE  OutboxInv'
<1> USE DEF OutboxInv, db, outbox
<1> DEFINE new == [id |-> lastId', what |-> Event(w), by |-> w,
                   committed |-> FALSE, keyed |-> TRUE, polled |-> {}]
<1>0. /\ pc[w] = "insert" /\ Goto(w, "commit") /\ lastId' = lastId + 1
      /\ rows' = rows \cup {new} /\ UNCHANGED <<kind, account, watermark, job, past>>
  BY DEF Insert
<1>1. /\ Fields(new, RowFields) /\ new.id = lastId' /\ new.what = Event(w) /\ new.by = w
      /\ ~new.committed /\ new.polled = {}
  BY DEF Fields, RowFields
<1> HIDE DEF new
<1>2. Alone(w) /\ pc'[w] = "commit"
  BY <1>0, AloneStep DEF IInv
<1>3. \A v \in DOMAIN kind : v \in Writers /\ Event(v)' = Event(v)
  BY <1>0 DEF IInv, Shaped, Event
<1>4. RowsKept'
  <2>1. lastId' \in Nat /\ watermark' \in 0..lastId'
    BY <1>0 DEF RowsKept
  <2>2. \A r \in rows : r.id \in 1..lastId' /\ r.by # w
    BY <1>0 DEF RowsKept
  <2>3. new.id \in 1..lastId'
    BY <1>0, <1>1 DEF RowsKept
  <2>4. \A q \in Pollers : job'[q].from \in 0..lastId' /\ job'[q].last \in 0..lastId'
    BY <1>0 DEF RowsKept
  <2>5. QED
    BY <1>0, <1>1, <1>2, <1>3, <2>1, <2>2, <2>3, <2>4, WriterAside DEF RowsKept
<1>5. UnpolledAhead'
  BY <1>0, <1>1, <1>2, WriterAside DEF UnpolledAhead, RowsKept
<1>6. AnnouncedKept'
  BY <1>0, <1>2, WriterAside DEF AnnouncedKept, Pending
<1>7. QED BY <1>4, <1>5, <1>6

\* A writer whose row is suppressed has the committed row with the key pending.
LEMMA SuppressedOutbox ==
    ASSUME IInv, OutboxInv, NEW w \in Writers, w \in DOMAIN kind, InsertSuppressed(w)
    PROVE  OutboxInv'
<1> USE DEF OutboxInv, db, outbox
<1>0. /\ pc[w] = "insert" /\ UNCHANGED <<kind, account, rows, lastId, watermark, job>>
      /\ Fields(past, PastFields)
      /\ account \in Nat /\ job[w].account \in Nat
  BY DEF InsertSuppressed, IInv, Shaped, JobsShaped
<1>1. Goto(w, "commit") \/ Goto(w, "sync") \/ Goto(w, "done")
  BY DEF InsertSuppressed, Committed
<1>2. Alone(w) /\ pc'[w] \in {"commit", "sync", "done"}
  BY <1>0, <1>1, AloneStep DEF IInv
<1>3. \A v \in DOMAIN kind : v \in Writers /\ Event(v)' = Event(v)
  BY <1>0 DEF IInv, Shaped, Event
<1>4. past'.gap = past.gap
  BY <1>0 DEF InsertSuppressed, Announces, Fields, PastFields
<1>5. RowsKept'
  BY <1>0, <1>2, <1>3, WriterAside DEF RowsKept
<1>6. UnpolledAhead'
  BY <1>0, <1>2, <1>4, WriterAside DEF UnpolledAhead
<1>7. AnnouncedKept'
  <2>1. \A r \in rows : Pending(r) => Pending(r)'
    BY <1>0, <1>2, WriterAside DEF Pending
  <2>2. CASE UNCHANGED past
    BY <1>0, <2>1, <2>2 DEF AnnouncedKept
  <2>3. CASE Event(w) = "account" /\ past' = [past EXCEPT !.announced = Bigger(@, job[w].account)]
    <3>1. past'.announced = Bigger(past.announced, job[w].account) /\ past'.read = past.read
      BY <1>0, <2>3 DEF Fields, PastFields
    <3>2. past'.announced \in Nat /\ past'.announced <= account
      BY <1>0, <3>1, BiggerIsMax DEF AnnouncedKept
    <3>3. PICK r \in SameKey(w) : r.committed
      BY DEF InsertSuppressed
    <3>4. r \in rows /\ r.what = "account" /\ r.committed /\ r.polled = {}
      BY <2>3, <3>3 DEF SameKey, RowsKept
    <3>5. past.gap \/ Pending(r)
      BY <3>4, UnpolledCovered DEF Pending
    <3>6. QED BY <1>0, <1>4, <2>1, <3>1, <3>2, <3>4, <3>5 DEF AnnouncedKept
  <2>4. QED BY <2>2, <2>3 DEF InsertSuppressed, Announces
<1>8. QED BY <1>5, <1>6, <1>7

\* A writer that commits a row of its own has it pending.
LEMMA CommitOutbox ==
    ASSUME IInv, OutboxInv, NEW w \in Writers, w \in DOMAIN kind, Commit(w)
    PROVE  OutboxInv'
<1> USE DEF OutboxInv, db, outbox
<1> DEFINE Now(r) == [r EXCEPT !.committed = @ \/ r.by = w]
           v == IF Tx(w) THEN account' ELSE job[w].account
<1>0. /\ pc[w] = "commit" /\ UNCHANGED <<kind, lastId, watermark, job>>
      /\ rows' = {Now(r) : r \in rows}
      /\ Fields(past, PastFields)
      /\ account \in Nat /\ account' \in Nat /\ account' >= account /\ job[w].account \in Nat
      /\ IF \E r \in rows : r.by = w THEN Announces(w, v) ELSE UNCHANGED past
  BY DEF Commit, IInv, Shaped, JobsShaped
<1>1. \A r \in rows : /\ Fields(Now(r), RowFields) /\ Now(r).id = r.id /\ Now(r).what = r.what
                      /\ Now(r).by = r.by /\ Now(r).keyed = r.keyed /\ Now(r).polled = r.polled
                      /\ Now(r).committed <=> r.committed \/ r.by = w
  BY DEF RowsKept, Fields, RowFields
<1>2. v \in Nat /\ v <= account'
  BY <1>0 DEF AnnouncedKept
<1> HIDE DEF Now, v
<1>3. Alone(w) /\ pc'[w] \in {"sync", "done"}
  <2>1. Goto(w, "sync") \/ Goto(w, "done")
    BY DEF Commit, Committed
  <2>2. QED BY <1>0, <2>1, AloneStep DEF IInv
<1>4. \A u \in DOMAIN kind : u \in Writers /\ Event(u)' = Event(u)
  BY <1>0 DEF IInv, Shaped, Event
<1>5. past'.gap = past.gap /\ past'.read = past.read
  BY <1>0 DEF Announces, Fields, PastFields
<1>6. RowsKept'
  BY <1>0, <1>1, <1>3, <1>4, WriterAside DEF RowsKept
<1>7. UnpolledAhead'
  BY <1>0, <1>1, <1>3, <1>5, WriterAside DEF UnpolledAhead
<1>8. AnnouncedKept'
  <2>1. \A r \in rows : Pending(r) => Pending(Now(r))'
    <3>1. \A r \in rows, q \in Pollers : Covers(q, r) => Covers(q, Now(r))'
      BY <1>1, <1>3, WriterAside DEF Covers, WillRead
    <3>2. QED BY <1>0, <1>1, <3>1 DEF Pending
  <2>2. \A u \in Writers : job'[u].account <= account'
    BY <1>0 DEF AnnouncedKept, IInv, JobsShaped
  <2>3. CASE past'.announced = past.announced
    BY <1>0, <1>5, <2>1, <2>2, <2>3 DEF AnnouncedKept
  <2>4. CASE /\ Event(w) = "account" /\ \E r \in rows : r.by = w
             /\ past' = [past EXCEPT !.announced = Bigger(@, v)]
    <3>1. past'.announced = Bigger(past.announced, v)
      BY <1>0, <2>4 DEF Fields, PastFields
    <3>2. past'.announced \in Nat /\ past'.announced <= account'
      <4>1. past.announced \in Nat /\ past.announced <= account'
        BY <1>0 DEF AnnouncedKept
      <4>2. QED BY <1>2, <3>1, <4>1, BiggerIsMax
    <3>3. PICK r \in rows : r.by = w
      BY <2>4
    <3>4. r.what = "account" /\ r.polled = {}
      BY <1>0, <2>4, <3>3 DEF RowsKept
    <3>5. past.gap \/ (r.id > watermark /\ \A q \in Pollers : Covers(q, r))
      BY <3>4, UnpolledCovered
    <3>6. past.gap \/ Pending(Now(r))'
      <4>1. \A q \in Pollers : Covers(q, r) => Covers(q, Now(r))'
        BY <1>1, <1>3, WriterAside DEF Covers, WillRead
      <4>2. QED BY <1>0, <1>1, <3>3, <3>4, <3>5, <4>1 DEF Pending
    <3>7. QED BY <1>0, <1>5, <2>2, <3>2, <3>6 DEF AnnouncedKept
  <2>5. QED BY <1>0, <2>3, <2>4 DEF Announces
<1>9. QED BY <1>6, <1>7, <1>8

\* A writer that fails takes back a row that nobody counted on.
LEMMA WriterFailsOutbox ==
    ASSUME IInv, OutboxInv, NEW w \in Writers, w \in DOMAIN kind, WriterFails(w)
    PROVE  OutboxInv'
<1> USE DEF OutboxInv, db, outbox
<1>0. /\ pc[w] \in {"insert", "commit"} /\ rows' = {r \in rows : r.by # w}
      /\ UNCHANGED <<kind, account, lastId, watermark, job, past>>
  BY DEF WriterFails
<1>1. Alone(w) /\ pc'[w] \in {"sync", "done"}
  <2>1. Goto(w, "sync") \/ Goto(w, "done")
    BY DEF WriterFails, Committed
  <2>2. QED BY <1>0, <2>1, AloneStep DEF IInv
<1>2. \A u \in DOMAIN kind : u \in Writers /\ Event(u)' = Event(u)
  BY <1>0 DEF IInv, Shaped, Event
<1>3. RowsKept'
  BY <1>0, <1>1, <1>2, WriterAside DEF RowsKept
<1>4. UnpolledAhead'
  BY <1>0, <1>1, WriterAside DEF UnpolledAhead
<1>5. \A r \in rows : Pending(r) => r \in rows' /\ Pending(r)'
  BY <1>0, <1>1, WriterAside DEF Pending, RowsKept
<1>6. AnnouncedKept'
  BY <1>0, <1>5 DEF AnnouncedKept
<1>7. QED BY <1>3, <1>4, <1>6

\* The refresh of the cached record touches no row.
LEMMA SyncOutbox ==
    ASSUME IInv, OutboxInv, NEW w \in Writers, w \in DOMAIN kind, SyncRead(w) \/ SyncPut(w)
    PROVE  OutboxInv'
<1> USE DEF OutboxInv, db, outbox
<1>0. /\ pc[w] \in {"sync", "put"}
      /\ UNCHANGED <<kind, account, rows, lastId, watermark, past>> /\ account \in Nat
  BY DEF SyncRead, SyncPut, IInv, Shaped
<1>1. /\ Alone(w) /\ pc'[w] \in {"put", "done"}
      /\ job'[w].account <= account
  <2>1. CASE SyncRead(w)
    <3> DEFINE j == [job[w] EXCEPT !.account = account]
    <3>1. Has(w, j) /\ Goto(w, "put")
      BY <2>1 DEF SyncRead
    <3>2. j.account = account
      BY DEF IInv, JobsShaped, Fields, JobFields
    <3> HIDE DEF j
    <3>3. QED BY <1>0, <3>1, <3>2, AloneStep DEF IInv
  <2>2. CASE SyncPut(w)
    <3>1. Has(w, Blank) /\ Goto(w, "done") /\ Blank.account = 0
      BY <2>2 DEF SyncPut, Blank
    <3>2. QED BY <1>0, <3>1, AloneStep DEF IInv
  <2>3. QED BY <2>1, <2>2
<1>2. \A u \in DOMAIN kind : u \in Writers /\ Event(u)' = Event(u)
  BY <1>0 DEF IInv, Shaped, Event
<1>3. RowsKept'
  BY <1>0, <1>1, <1>2, WriterAside DEF RowsKept
<1>4. UnpolledAhead'
  BY <1>0, <1>1, WriterAside DEF UnpolledAhead
<1>5. AnnouncedKept'
  <2>1. \A r \in rows : Pending(r) => Pending(r)'
    BY <1>0, <1>1, WriterAside DEF Pending
  <2>2. QED BY <1>0, <1>1, <2>1, WriterAside DEF AnnouncedKept
<1>6. QED BY <1>3, <1>4, <1>5

-----------------------------------------------------------------------------
(* The outbox: its worker *)

\* Where p alone moves, the writers and the other pollers stay as they are.
LEMMA PollerAside ==
    ASSUME NEW p \in Pollers, Alone(p)
    PROVE  /\ \A w \in Writers : pc'[w] = pc[w] /\ job'[w] = job[w]
           /\ \A q \in Pollers : q # p => pc'[q] = pc[q] /\ job'[q] = job[q]
           /\ \A q \in Pollers : \A r : q # p /\ Covers(q, r) => Covers(q, r)'
<1>1. /\ \A w \in Writers : pc'[w] = pc[w] /\ job'[w] = job[w]
      /\ \A q \in Pollers : q # p => pc'[q] = pc[q] /\ job'[q] = job[q]
  BY Apart DEF Alone, Procs, Maintainers
<1>2. QED BY <1>1 DEF Covers, WillRead

\* A poll starts at the watermark.
LEMMA ReadWatermarkOutbox ==
    ASSUME IInv, OutboxInv, NEW p \in Pollers, ReadWatermark(p)
    PROVE  OutboxInv'
<1> USE DEF OutboxInv, db, outbox
<1> DEFINE j == [Blank EXCEPT !.from = watermark]
<1>0. /\ Has(p, j) /\ Goto(p, "list") /\ p \in Procs
      /\ UNCHANGED <<kind, account, rows, lastId, watermark, past>>
  BY DEF ReadWatermark, Procs, Maintainers
<1>1. j.from = watermark /\ j.last = 0
  BY DEF Blank
<1> HIDE DEF j
<1>2. Alone(p) /\ pc'[p] = "list" /\ job'[p] = j
  BY <1>0, AloneStep DEF IInv
<1>3. \A u \in DOMAIN kind : u \in Writers /\ Event(u)' = Event(u)
  BY <1>0 DEF IInv, Shaped, Event
<1>4. RowsKept'
  BY <1>0, <1>1, <1>2, <1>3, PollerAside DEF RowsKept
<1>5. UnpolledAhead'
  BY <1>0, <1>1, <1>2, PollerAside DEF UnpolledAhead
<1>6. AnnouncedKept'
  <2>1. ASSUME NEW r \in rows, Pending(r) PROVE Pending(r)'
    <3>1. Covers(p, r)'
      BY <1>0, <1>1, <1>2, <2>1 DEF Pending, Covers, RowsKept
    <3>2. QED BY <1>0, <1>2, <2>1, <3>1, PollerAside DEF Pending
  <2>2. QED BY <1>0, <1>2, <2>1, PollerAside DEF AnnouncedKept
<1>7. QED BY <1>4, <1>5, <1>6

\* The rows listed are all those past the start of the poll that are committed.
LEMMA ListOutbox ==
    ASSUME IInv, OutboxInv, NEW p \in Pollers, List(p)
    PROVE  OutboxInv'
<1> USE DEF OutboxInv
<1>0. /\ pc[p] = "list" /\ p \in Procs /\ rows' = Released(p)
      /\ UNCHANGED <<kind, account, lastId, watermark, past>>
  BY Zenon DEF List, Procs, Maintainers, db
<1>1. CASE Listed(p) = {} /\ GiveUp(p)
  <2>1. rows' = rows
    BY <1>0, <1>1 DEF Released
  <2>2. QED
    BY <1>0, <1>1, <2>1, GiveUpDrops, BatchKeeps DEF IInv, SameOutbox
<1>2. CASE \E newest \in Listed(p) :
              TakeNext(p, [job[p] EXCEPT
                    !.todo = {[id |-> r.id, what |-> r.what] : r \in Listed(p)},
                    !.last = newest.id])
  <2>1. PICK newest \in Listed(p) :
              TakeNext(p, [job[p] EXCEPT
                    !.todo = {[id |-> r.id, what |-> r.what] : r \in Listed(p)},
                    !.last = newest.id])
    BY <1>2
  <2> DEFINE todo == {[id |-> r.id, what |-> r.what] : r \in Listed(p)}
             j == [job[p] EXCEPT !.todo = todo, !.last = newest.id]
             Now(r) == IF r \in Listed(p)
                       THEN [r EXCEPT !.keyed = FALSE, !.polled = @ \cup {p}] ELSE r
  <2>2. j.from = job[p].from /\ j.last = newest.id /\ j.todo = todo
    BY <1>0 DEF IInv, JobsShaped, Fields, JobFields
  <2>3. rows' = {Now(r) : r \in rows}
    BY <1>0 DEF Released
  <2>4. \A r \in rows :
           /\ Fields(Now(r), RowFields) /\ Now(r).id = r.id /\ Now(r).what = r.what
           /\ Now(r).by = r.by /\ Now(r).committed = r.committed
           /\ r \notin Listed(p) => Now(r) = r
           /\ r \in Listed(p) => ~Now(r).keyed /\ r.committed /\ p \in Now(r).polled
           /\ \A q \in Pollers : q # p => (q \in Now(r).polled <=> q \in r.polled)
    BY DEF RowsKept, Fields, RowFields, Listed
  <2>5. \A r \in Listed(p) : r.what = "account" =>
           \E e \in todo : e.what = "account"
    <3> TAKE r \in Listed(p)
    <3>1. [id |-> r.id, what |-> r.what] \in todo
      OBVIOUS
    <3>2. [id |-> r.id, what |-> r.what].what = r.what
      OBVIOUS
    <3> HIDE DEF todo
    <3>3. QED BY <3>1, <3>2
  <2>6. TakeNext(p, j) /\ newest \in rows
    BY <2>1 DEF Listed
  <2> HIDE DEF Now, todo, j
  <2>7. /\ Alone(p) /\ pc'[p] # "clean"
        /\ job'[p].from = job[p].from /\ job'[p].last = newest.id
        /\ pc'[p] = "mark" => job'[p].todo = {}
        /\ \A e \in todo : e.what = "account" =>
              e \in job'[p].todo /\ (pc'[p] = "get" \/ e # First(job'[p].todo))
    BY <2>2, <2>6, TakeNextBatch DEF IInv
  <2>8. \A u \in DOMAIN kind : u \in Writers /\ Event(u)' = Event(u)
    BY <1>0 DEF IInv, Shaped, Event
  <2>9. RowsKept'
    <3>1. job'[p].from \in 0..lastId /\ job'[p].last \in 0..lastId
      BY <2>6, <2>7 DEF RowsKept
    <3>2. QED BY <1>0, <2>3, <2>4, <2>7, <2>8, <3>1, PollerAside DEF RowsKept
  <2>10. UnpolledAhead'
    BY <1>0, <2>3, <2>4, <2>7, PollerAside DEF UnpolledAhead
  <2>11. AnnouncedKept'
    <3>1. ASSUME NEW r \in rows, Pending(r) PROVE \E n \in rows' : Pending(n)'
      <4>1. r \in Listed(p)
        BY <3>1 DEF Pending, Covers, Listed, RowsKept
      <4>2. WillRead(p)'
        BY <2>5, <2>7, <3>1, <4>1 DEF WillRead, Pending
      <4>3. PICK n \in rows' :
               /\ n.id = r.id /\ n.what = r.what /\ n.committed
               /\ \A q \in Pollers : q # p => (q \in n.polled <=> q \in r.polled)
        BY <2>3, <2>4, <4>1
      <4>4. Covers(p, n)'
        BY <2>7, <3>1, <4>2, <4>3 DEF Covers, Pending
      <4>5. ASSUME NEW q \in Pollers, q # p PROVE Covers(q, n)'
        <5>1. Covers(q, r) /\ pc'[q] = pc[q] /\ job'[q] = job[q]
          BY <2>7, <3>1, <4>5, PollerAside DEF Pending
        <5>2. QED BY <4>3, <4>5, <5>1 DEF Covers, WillRead
      <4>6. QED BY <1>0, <3>1, <4>3, <4>4, <4>5 DEF Pending
    <3>2. QED BY <1>0, <2>3, <2>7, <3>1, PollerAside DEF AnnouncedKept
  <2>12. QED BY <2>9, <2>10, <2>11
<1>3. QED BY <1>1, <1>2, Zenon DEF List

\* The account that is read has every change announced so far.
LEMMA GetAccountOutbox ==
    ASSUME IInv, OutboxInv, NEW p \in Pollers, GetAccount(p)
    PROVE  OutboxInv'
<1> USE DEF OutboxInv, db, outbox
<1> DEFINE j == [job[p] EXCEPT !.account = account]
<1>0. /\ pc[p] = "get" /\ Has(p, j) /\ Goto(p, "set") /\ p \in Procs
      /\ UNCHANGED <<kind, account, rows, lastId, watermark>> /\ account \in Nat
      /\ past' = [past EXCEPT !.read = Bigger(@, account)]
  BY DEF GetAccount, Procs, Maintainers, IInv, Shaped
<1>1. j.from = job[p].from /\ j.last = job[p].last /\ j.todo = job[p].todo
  BY DEF IInv, JobsShaped, Fields, JobFields, Procs, Maintainers
<1> HIDE DEF j
<1>2. Alone(p) /\ pc'[p] = "set" /\ job'[p] = j
  BY <1>0, AloneStep DEF IInv
<1>3. \A u \in DOMAIN kind : u \in Writers /\ Event(u)' = Event(u)
  BY <1>0 DEF IInv, Shaped, Event
<1>4. /\ past'.read = Bigger(past.read, account)
      /\ past'.announced = past.announced /\ past'.gap = past.gap
  BY <1>0 DEF IInv, Shaped, Fields
<1>5. RowsKept'
  BY <1>0, <1>1, <1>2, <1>3, PollerAside DEF RowsKept
<1>6. UnpolledAhead'
  BY <1>0, <1>1, <1>2, <1>4, PollerAside DEF UnpolledAhead
<1>7. AnnouncedKept'
  <2>1. past'.read \in Nat /\ past'.read >= account
    BY <1>0, <1>4, BiggerIsMax DEF AnnouncedKept
  <2>2. past'.announced <= past'.read
    BY <1>0, <1>4, <2>1 DEF AnnouncedKept
  <2>3. QED BY <1>0, <1>2, <1>4, <2>1, <2>2, PollerAside DEF AnnouncedKept
<1>8. QED BY <1>5, <1>6, <1>7

\* Setting the record goes on with the batch.
LEMMA SetAccountQuiet ==
    ASSUME IInv, NEW p \in Pollers, SetAccount(p)
    PROVE  QuietStep(p)
<1>0. SameOutbox /\ pc[p] # "get" /\ p \in Procs
  BY DEF SetAccount, SameOutbox, db, outbox, Procs, Maintainers
<1>1. CASE Done(p)
  BY <1>0, <1>1, DoneAdvances DEF QuietStep, IInv
<1>2. CASE Goto(p, "capture") /\ Has(p, Batch(job[p]))
  <2> DEFINE j == Batch(job[p])
  <2>1. j.from = job[p].from /\ j.last = job[p].last /\ j.todo = job[p].todo
    BY DEF Batch, Blank
  <2> HIDE DEF j
  <2>2. Has(p, j)
    BY <1>2 DEF j
  <2>3. QED BY <1>0, <1>2, <2>1, <2>2, SameBatch DEF QuietStep, IInv
<1>3. QED BY <1>1, <1>2 DEF SetAccount

\* The watermark passes rows that the batch had, or one is jumped over.
LEMMA SetWatermarkOutbox ==
    ASSUME IInv, OutboxInv, NEW p \in Pollers, SetWatermark(p)
    PROVE  OutboxInv'
<1> USE DEF OutboxInv, db, outbox
<1>0. /\ pc[p] = "mark" /\ Goto(p, "clean") /\ p \in Procs /\ watermark' = job[p].last
      /\ UNCHANGED <<kind, account, rows, lastId, job>>
      /\ past' = [past EXCEPT !.gap = @ \/ \E r \in rows : JumpedOver(p, r)]
  BY DEF SetWatermark, Procs, Maintainers
<1>1. Alone(p) /\ pc'[p] = "clean" /\ job' = job
  BY <1>0, AloneStep DEF IInv
<1>2. \A u \in DOMAIN kind : u \in Writers /\ Event(u)' = Event(u)
  BY <1>0 DEF IInv, Shaped, Event
<1>3. /\ past'.announced = past.announced /\ past'.read = past.read
      /\ past'.gap <=> past.gap \/ \E r \in rows : JumpedOver(p, r)
  BY <1>0 DEF IInv, Shaped, Fields, PastFields
<1>4. RowsKept'
  BY <1>0, <1>1, <1>2, PollerAside DEF RowsKept
<1>5. UnpolledAhead'
  <2>1. SUFFICES ASSUME ~past'.gap, NEW r \in rows, r.polled = {}
                 PROVE  /\ r.id > job[p].last
                        /\ \A q \in Pollers :
                              r.id > job[q].from /\ (pc'[q] = "clean" => r.id > job[q].last)
    BY <1>0, <1>1 DEF UnpolledAhead
  <2>2. \A q \in Pollers :
           /\ r.id \in Nat /\ job[q].from \in Nat /\ job[q].last \in Nat
           /\ r.id > job[q].from /\ (pc[q] = "clean" => r.id > job[q].last)
    BY <1>3, <2>1 DEF UnpolledAhead, RowsKept
  <2>3. r.id > job[p].last
    BY <1>3, <2>1, <2>2 DEF JumpedOver
  <2>4. QED BY <1>1, <2>2, <2>3, PollerAside
<1>6. AnnouncedKept'
  <2>1. ASSUME ~past'.gap, NEW r \in rows, Pending(r) PROVE Pending(r)'
    <3>1. r.id \in Nat /\ job[p].last \in Nat /\ job[p].from \in Nat /\ ~WillRead(p)
      BY <1>0 DEF RowsKept, WillRead
    <3>2. r.id > job[p].last
      BY <1>3, <2>1, <3>1 DEF JumpedOver, Pending, Covers
    <3>3. Covers(p, r)'
      BY <1>1, <2>1, <3>1, <3>2 DEF Covers, Pending
    <3>4. QED BY <1>0, <1>1, <2>1, <3>2, <3>3, PollerAside DEF Pending
  <2>2. QED BY <1>0, <1>1, <1>3, <2>1, PollerAside DEF AnnouncedKept
<1>7. QED BY <1>4, <1>5, <1>6

\* What is deleted is behind the watermark that p has set.
LEMMA CleanupOutbox ==
    ASSUME IInv, OutboxInv, NEW p \in Pollers, Cleanup(p)
    PROVE  OutboxInv'
<1> USE DEF OutboxInv, db, outbox
<1>0. /\ pc[p] = "clean" /\ GiveUp(p) /\ p \in Procs
      /\ UNCHANGED <<kind, account, lastId, watermark, past>>
      /\ rows' \subseteq rows
      /\ \A r \in rows : r \notin rows' => r.id <= job[p].last
  BY DEF Cleanup, Procs, Maintainers
<1>1. Alone(p) /\ Drops(p)
  BY <1>0, GiveUpDrops DEF IInv
<1>2. \A u \in DOMAIN kind : u \in Writers /\ Event(u)' = Event(u)
  BY <1>0 DEF IInv, Shaped, Event
<1>3. RowsKept'
  BY <1>0, <1>1, <1>2, PollerAside DEF RowsKept, Drops
<1>4. UnpolledAhead'
  <2>1. \A r \in rows : r.id \in Nat \ {0}
    BY DEF RowsKept
  <2>2. QED BY <1>0, <1>1, <2>1, PollerAside DEF UnpolledAhead, Drops
<1>5. AnnouncedKept'
  <2>1. ASSUME NEW r \in rows, Pending(r) PROVE r \in rows' /\ Pending(r)'
    <3>1. r.id \in Nat \ {0}
      BY DEF RowsKept
    <3>2. r \in rows'
      BY <1>0, <2>1 DEF Pending, Covers
    <3>3. \A q \in Pollers : Covers(q, r)'
      BY <1>0, <1>1, <2>1, <3>1, CoversKept DEF Pending
    <3>4. QED BY <1>0, <2>1, <3>2, <3>3 DEF Pending
  <2>2. QED BY <1>0, <1>1, <2>1, PollerAside DEF AnnouncedKept
<1>6. QED BY <1>3, <1>4, <1>5

-----------------------------------------------------------------------------

\* An empty outbox and idle pollers have it.
LEMMA InitOutbox == Init => OutboxInv
<1> SUFFICES ASSUME Init PROVE OutboxInv
  OBVIOUS
<1>1. /\ rows = {} /\ lastId = 0 /\ watermark = 0 /\ account = 0
      /\ past.announced = 0 /\ past.read = 0
  BY DEF Init
<1>2. \A p \in Pollers : p \in Procs /\ p \notin Writers /\ pc[p] \in {"idle", "off"}
  BY SchedulerSnapshotAssumption DEF Init, Procs, Maintainers
<1>3. \A p \in Writers \cup Procs : job[p].from = 0 /\ job[p].last = 0 /\ job[p].account = 0
  BY DEF Init, Blank
<1>4. RowsKept
  BY <1>1, <1>2, <1>3 DEF RowsKept
<1>5. UnpolledAhead
  BY <1>1 DEF UnpolledAhead
<1>6. AnnouncedKept
  BY <1>1, <1>3 DEF AnnouncedKept
<1>7. QED BY <1>4, <1>5, <1>6 DEF OutboxInv

\* Every step keeps it.
LEMMA OutboxStep ==
    ASSUME IInv, OutboxInv, [Next]_vars
    PROVE  OutboxInv'
<1>1. ASSUME NEW w \in DOMAIN kind, WriterStep(w) \/ WriterFails(w) PROVE OutboxInv'
  <2>1. w \in Writers
    BY DEF IInv, Shaped
  <2>2. QED
    BY <1>1, <2>1, ChangeOutbox, InsertOutbox, SuppressedOutbox, CommitOutbox,
       WriterFailsOutbox, SyncOutbox DEF WriterStep
<1>2. ASSUME NEW p \in Procs, QuietStep(p) PROVE OutboxInv'
  BY <1>2, BatchKeeps DEF QuietStep
<1>3. ASSUME NEW p \in Procs, PublishStep(p) \/ LifecycleStep(p) PROVE OutboxInv'
  BY <1>2, <1>3, PublishQuiet, LifecycleQuiet
<1>4. ASSUME NEW p \in Pollers, PollerStep(p) PROVE OutboxInv'
  <2>1. p \in Procs
    BY DEF Procs, Maintainers
  <2>2. QED
    BY <1>2, <1>3, <1>4, <2>1, ReadWatermarkOutbox, ListOutbox, GetAccountOutbox,
       SetAccountQuiet, SetWatermarkOutbox, CleanupOutbox DEF PollerStep
<1>5. ASSUME NEW p \in Rebuilders, RebuilderStep(p) PROVE OutboxInv'
  BY <1>2, <1>3, <1>5, OthersQuiet DEF RebuilderStep, Procs, Maintainers
<1>6. ASSUME NEW p \in Readers, ReaderStep(p) PROVE OutboxInv'
  BY <1>2, <1>3, <1>6, OthersQuiet DEF ReaderStep, Procs
<1>7. ASSUME NEW p \in Procs, CallFails(p) \/ Crash(p) \/ TimesOut(p) PROVE OutboxInv'
  BY <1>2, <1>7, OthersQuiet
<1>8. CASE LockLapses \/ LeaseLapses \/ LockOutlived \/ LimitEnds \/ UNCHANGED vars
  <2>1. UNCHANGED <<kind, account, rows, lastId, watermark, pc>>
    BY <1>8 DEF LockLapses, LeaseLapses, LockOutlived, LimitEnds, vars, db, outbox
  <2>2. past'.announced = past.announced /\ past'.read = past.read /\ past'.gap = past.gap
    BY <1>8
    DEF LockLapses, LeaseLapses, LockOutlived, LimitEnds, vars, IInv, Shaped, Fields, PastFields
  <2>3. \A q \in Writers \cup Procs :
           /\ job'[q].account = job[q].account /\ job'[q].from = job[q].from
           /\ job'[q].last = job[q].last /\ job'[q].todo = job[q].todo
    <3>1. CASE UNCHANGED job
      BY <3>1
    <3>2. CASE LockOutlived
      BY <3>2 DEF LockOutlived, Has, IInv, JobsShaped, Fields, JobFields
    <3>3. QED BY <1>8, <3>1, <3>2 DEF LockLapses, LeaseLapses, LimitEnds, vars
  <2>4. \A w : Event(w)' = Event(w)
    BY <2>1 DEF Event
  <2>5. \A q \in Pollers : \A r : Covers(q, r) => Covers(q, r)'
    BY <2>1, <2>3 DEF Covers, WillRead, Procs, Maintainers
  <2>6. RowsKept' /\ UnpolledAhead'
    BY <2>1, <2>2, <2>3, <2>4
    DEF OutboxInv, RowsKept, UnpolledAhead, Procs, Maintainers
  <2>7. AnnouncedKept'
    BY <2>1, <2>2, <2>3, <2>5 DEF OutboxInv, AnnouncedKept, Pending
  <2>8. QED BY <2>6, <2>7 DEF OutboxInv
<1>9. QED
  BY <1>1, <1>4, <1>5, <1>6, <1>7, <1>8 DEF Next, Procs

\* What is known of the rows and of the batches holds in every state.
THEOREM OutboxInvariance == Spec => []OutboxInv
<1>1. IInv /\ OutboxInv /\ [Next]_vars => OutboxInv'
  BY OutboxStep
<1>2. QED BY <1>1, InitOutbox, SnapshotInvariance, PTL DEF Spec

\* A change that was announced is read by a handler or has a committed row past the
\* watermark, whichever workers poll and fail, unless a row was jumped over.
THEOREM AnnouncedCovered == Spec => []AnnouncedIsCovered
<1>1. OutboxInv => AnnouncedIsCovered
  BY DEF OutboxInv, AnnouncedKept, Pending, AnnouncedIsCovered
<1>2. QED BY <1>1, OutboxInvariance, PTL

=============================================================================
