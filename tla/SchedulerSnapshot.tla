------------------------- MODULE SchedulerSnapshot -------------------------
(***************************************************************************)
(* How the accounts a request may be scheduled on reach Redis: writers     *)
(* change the database and leave a row in the scheduler outbox, a poller   *)
(* turns rows into rebuilds, full rebuilds and cache-missing requests      *)
(* publish on their own, and a group's snapshots are retired and reopened  *)
(* as the group is.                                                        *)
(*                                                                         *)
(* One group with one bucket and one account.  The bucket is of the single *)
(* or the mixed mode, which a rebuild loads under the bucket's own lock; a *)
(* forced bucket may reuse what its single one loaded before (schedulerAc- *)
(* countQueryCache) and is not modelled.  Contents are counted:            *)
(* account and group are numbers of committed changes, and the group is    *)
(* active when its number is even.  A step is one statement, one Redis     *)
(* command or one Lua script.  A lifecycle lease (60 s) outlives the work  *)
(* it covers, whose context ends after 30 s.  A rebuild's lock does not:   *)
(* its 30 s begin with the command that sets it, those of the rebuild's    *)
(* context only with the answer, and it is deleted without regard to who   *)
(* set it since.                                                           *)
(***************************************************************************)
EXTENDS Naturals, Sequences, FiniteSetsExt, SequencesExt

CONSTANTS
    Writers,    \* transactions and statements that change the account or the group
    Pollers,    \* the outbox worker of each instance
    Rebuilders, \* the full rebuild of each instance (coalesceFullRebuild runs one at a time)
    Readers,    \* requests that look the bucket up
    Scenarios   \* bound: which writers do what, which processes run, how many failures

\* A statement or a transaction on the account, a statement on the group.
Kinds == {"auto", "tx", "group"}

ASSUME SchedulerSnapshotAssumption ==
    /\ \A s \in Scenarios :
         /\ DOMAIN s.kind \subseteq Writers /\ \A w \in DOMAIN s.kind : s.kind[w] \in Kinds
         /\ s.running \subseteq Pollers \cup Rebuilders \cup Readers
         /\ s.faults \in Nat
    /\ Writers \cap (Pollers \cup Rebuilders \cup Readers) = {}
    /\ Pollers \cap Rebuilders = {} /\ (Pollers \cup Rebuilders) \cap Readers = {}
    /\ "nobody" \notin Pollers \cup Rebuilders

VARIABLES
    kind,       \* what each writer at work does
    account,    \* accounts: committed changes of the account
    group,      \* groups: committed changes of the group's status
    limited,    \* the account is in error, limited or paused: no schedulable one
    rows,       \* scheduler_outbox
    lastId,     \* its id sequence
    watermark,  \* sched:outbox:watermark
    bucket,     \* the bucket's epoch, retired mark, registration and active snapshot
    meta,       \* the cached record of the account
    versions,   \* who holds an allocated version newer than the active one, oldest first
    lock,       \* the bucket's rebuild lock: who set it (the key does not say)
    lease,      \* the group's lifecycle lease: its owner
    job,        \* what each process has in hand
    pc,         \* next step of each process
    faults,     \* failures still to come
    past        \* history, see Init; read by properties only

db == <<account, group, limited>>
outbox == <<rows, lastId>>
vars == <<kind, db, outbox, watermark, bucket, meta, versions, lock, lease, job, pc, faults, past>>

Nobody == "nobody"
Maintainers == Pollers \cup Rebuilders
Procs == Maintainers \cup Readers
Blank == [token |-> 0, strict |-> FALSE, account |-> 0, at |-> 0, group |-> 0,
          listed |-> FALSE, late |-> FALSE, from |-> 0, todo |-> {}, last |-> 0,
          seen |-> {}, failed |-> FALSE]

Active(g) == g % 2 = 0
Bigger(a, b) == Max({a, b})

Init ==
    /\ \E s \in Scenarios :
         /\ kind = s.kind /\ faults = s.faults
         /\ pc = [p \in Writers \cup Procs |->
                    IF p \in DOMAIN s.kind THEN "change"
                    ELSE IF p \in s.running THEN "idle" ELSE "off"]
    /\ account = 0 /\ group = 0 /\ limited = FALSE
    /\ rows = {} /\ lastId = 0 /\ watermark = 0
    /\ bucket = [epoch |-> 0, retired |-> FALSE, registered |-> FALSE, active |-> <<>>]
    /\ meta = 0 /\ versions = <<>>
    /\ lock = Nobody /\ lease = Nobody
    /\ job = [p \in Writers \cup Procs |-> Blank]
    \* announced: the newest change with a row of its own, or suppressed after its commit;
    \* read: the newest account a row's handler has read; gap: a row was jumped over;
    \* decided: the group state behind the last retirement or reopening;
    \* rebuilt: the account behind the last snapshot a worker published; overrun: some
    \* rebuild has outlived its lock, and since then there was always one at work.
    /\ past = [announced |-> 0, read |-> 0, gap |-> FALSE, decided |-> 0, rebuilt |-> 0,
               overrun |-> FALSE]

Goto(p, label) == pc' = [pc EXCEPT ![p] = label]
Has(p, j) == job' = [job EXCEPT ![p] = j]
Works == UNCHANGED faults
Faulty == faults > 0 /\ faults' = faults - 1

\* What a poller keeps from one event of its batch to the next.
Batch(j) ==
    [Blank EXCEPT !.from = j.from, !.todo = j.todo, !.last = j.last, !.seen = j.seen]

\* The event a batch is at: they are handled in the order of their ids.
First(todo) == CHOOSE e \in todo : \A f \in todo : e.id <= f.id

\* pollOutbox takes the next event of its batch, or has handled all of them; a
\* group reconciled in this batch is not reconciled again.
TakeNext(p, j) ==
    LET todo == IF "lifecycle" \in j.seen
                THEN {e \in j.todo : e.what # "group"} ELSE j.todo
    IN /\ Has(p, [Batch(j) EXCEPT !.todo = todo])
       /\ Goto(p, IF todo = {} THEN "mark"
                  ELSE IF First(todo).what = "account" THEN "get" ELSE "lease")

\* The process gives up; a poller's next poll lists the batch again.
GiveUp(p) == Has(p, Blank) /\ Goto(p, "idle")

\* A rebuild, or a retirement, went through or was skipped without an error.
Done(p) ==
    IF p \in Pollers
    THEN TakeNext(p, [job[p] EXCEPT
             !.todo = @ \ {First(@)},
             !.seen = @ \cup (IF First(job[p].todo).what = "group"
                              THEN {"lifecycle", "rebuilt"} ELSE {"rebuilt"})])
    ELSE GiveUp(p)

-----------------------------------------------------------------------------
(* Writers: a change, its outbox row, and the refresh of the cached record *)

\* An "auto" statement and its row commit one by one (SetRateLimited, SetError and what
\* ends them), and may take the account out of the schedulable ones or bring it back;
\* "tx", which bills usage and finds a quota exceeded, commits both together.
Tx(w) == kind[w] = "tx"
Event(w) == IF kind[w] = "group" THEN "group" ELSE "account"

\* The row lock of an uncommitted account.
AccountLocked == \E w \in DOMAIN kind : Tx(w) /\ pc[w] \in {"insert", "commit"}

Change(w) ==
    /\ pc[w] = "change"
    /\ Event(w) = "account" => ~AccountLocked
    /\ account' = IF kind[w] = "auto" THEN account + 1 ELSE account
    /\ group' = IF kind[w] = "group" THEN group + 1 ELSE group
    /\ limited' \in IF kind[w] = "auto" THEN BOOLEAN ELSE {limited}
    /\ Has(w, [Blank EXCEPT !.account = account'])
    /\ Goto(w, "insert")
    /\ Works
    /\ UNCHANGED <<kind, outbox, watermark, bucket, meta, versions, lock, lease, past>>

\* SetRateLimited then refreshes the cached record; billing does not.
Committed(w) == Goto(w, IF kind[w] = "auto" THEN "sync" ELSE "done")

Announces(w, v) ==
    past' = IF Event(w) = "account" THEN [past EXCEPT !.announced = Bigger(@, v)] ELSE past

SameKey(w) == {r \in rows : r.what = Event(w) /\ r.keyed}

\* enqueueSchedulerOutbox: ON CONFLICT (dedup_key) DO NOTHING, which waits for
\* an uncommitted row with the key.
Insert(w) ==
    /\ pc[w] = "insert"
    /\ SameKey(w) = {}
    /\ lastId' = lastId + 1
    /\ rows' = rows \cup {[id |-> lastId', what |-> Event(w), by |-> w,
                           committed |-> FALSE, keyed |-> TRUE, polled |-> {}]}
    /\ Goto(w, "commit")
    /\ Works
    /\ UNCHANGED <<kind, db, watermark, bucket, meta, versions, lock, lease, job, past>>

InsertSuppressed(w) ==
    /\ pc[w] = "insert"
    /\ \E r \in SameKey(w) : r.committed
    /\ IF Tx(w) THEN Goto(w, "commit") /\ UNCHANGED past
                ELSE Committed(w) /\ Announces(w, job[w].account)
    /\ Works
    /\ UNCHANGED <<kind, db, outbox, watermark, bucket, meta, versions, lock, lease, job>>

Commit(w) ==
    /\ pc[w] = "commit"
    /\ account' = IF Tx(w) THEN account + 1 ELSE account
    /\ rows' = {[r EXCEPT !.committed = @ \/ r.by = w] : r \in rows}
    /\ IF \E r \in rows : r.by = w
       THEN Announces(w, IF Tx(w) THEN account' ELSE job[w].account) ELSE UNCHANGED past
    /\ Committed(w)
    /\ Works
    /\ UNCHANGED <<kind, group, limited, lastId, watermark, bucket, meta, versions, lock, lease, job>>

\* A failed insert or commit: a transaction rolls back, a statement that has
\* changed the database only logs it.
WriterFails(w) ==
    /\ pc[w] \in {"insert", "commit"}
    /\ Faulty
    /\ rows' = {r \in rows : r.by # w}
    /\ IF Tx(w) THEN Goto(w, "done") ELSE Committed(w)
    /\ UNCHANGED <<kind, db, lastId, watermark, bucket, meta, versions, lock, lease, job, past>>

\* A limit ends because its time has passed: nobody writes that down.
LimitEnds ==
    /\ limited /\ limited' = FALSE
    /\ Works
    /\ UNCHANGED <<kind, account, group, outbox, watermark, bucket, meta, versions, lock, lease,
                   job, pc, past>>

\* syncSchedulerAccountSnapshot: read the account, then set its record.
SyncRead(w) ==
    /\ pc[w] = "sync"
    /\ Has(w, [job[w] EXCEPT !.account = account]) /\ Goto(w, "put")
    /\ Works
    /\ UNCHANGED <<kind, db, outbox, watermark, bucket, meta, versions, lock, lease, past>>

SyncPut(w) ==
    /\ pc[w] = "put"
    /\ meta' = job[w].account /\ Has(w, Blank) /\ Goto(w, "done")
    /\ Works
    /\ UNCHANGED <<kind, db, outbox, watermark, bucket, versions, lock, lease, past>>

-----------------------------------------------------------------------------
(* The outbox worker *)

ReadWatermark(p) ==
    /\ pc[p] = "idle"
    /\ Has(p, [Blank EXCEPT !.from = watermark]) /\ Goto(p, "list")
    /\ Works
    /\ UNCHANGED <<kind, db, outbox, watermark, bucket, meta, versions, lock, lease, past>>

\* ListAfterAndReleaseDedup: one statement reads the rows past the watermark and
\* clears their keys; it sees committed rows only.
Listed(p) == {r \in rows : r.committed /\ r.id > job[p].from}

\* Mutant of Released: the keys stay.
KeysKept(p) ==
    {IF r \in Listed(p) THEN [r EXCEPT !.polled = @ \cup {p}] ELSE r : r \in rows}

Released(p) ==
    {IF r \in Listed(p) THEN [r EXCEPT !.keyed = FALSE, !.polled = @ \cup {p}] ELSE r : r \in rows}

List(p) ==
    /\ pc[p] = "list"
    /\ \/ Listed(p) = {} /\ GiveUp(p)
       \/ \E newest \in Listed(p) :
             /\ \A r \in Listed(p) : r.id <= newest.id
             /\ TakeNext(p, [job[p] EXCEPT
                    !.todo = {[id |-> r.id, what |-> r.what] : r \in Listed(p)},
                    !.last = newest.id])
    /\ rows' = Released(p)
    /\ Works
    /\ UNCHANGED <<kind, db, lastId, watermark, bucket, meta, versions, lock, lease, past>>

\* handleAccountEvent: read the account, set its record, rebuild its bucket once per batch.
GetAccount(p) ==
    /\ pc[p] = "get"
    /\ Has(p, [job[p] EXCEPT !.account = account]) /\ Goto(p, "set")
    /\ past' = [past EXCEPT !.read = Bigger(@, account)]
    /\ Works
    /\ UNCHANGED <<kind, db, outbox, watermark, bucket, meta, versions, lock, lease>>

SetAccount(p) ==
    /\ pc[p] = "set"
    /\ meta' = job[p].account
    /\ IF "rebuilt" \in job[p].seen THEN Done(p)
       ELSE Goto(p, "capture") /\ Has(p, Batch(job[p]))
    /\ Works
    /\ UNCHANGED <<kind, db, outbox, watermark, bucket, versions, lock, lease, past>>

\* A row that the batch of p passes without having it.
JumpedOver(p, r) == job[p].from < r.id /\ r.id <= job[p].last /\ p \notin r.polled

\* The whole batch is handled.
SetWatermark(p) ==
    /\ pc[p] = "mark"
    /\ watermark' = job[p].last
    /\ past' = [past EXCEPT !.gap = @ \/ \E r \in rows : JumpedOver(p, r)]
    /\ Goto(p, "clean")
    /\ Works
    /\ UNCHANGED <<kind, db, outbox, bucket, meta, versions, lock, lease, job>>

\* DeleteConsumedUpTo deletes rows up to the watermark that are 10 seconds old.
Cleanup(p) ==
    /\ pc[p] = "clean"
    /\ \E old \in SUBSET {r \in rows : r.committed /\ r.id <= job[p].last} : rows' = rows \ old
    /\ GiveUp(p)
    /\ Works
    /\ UNCHANGED <<kind, db, lastId, watermark, bucket, meta, versions, lock, lease, past>>

-----------------------------------------------------------------------------
(* Publishing a snapshot of the bucket *)

\* ListSchedulableAccounts misses: there is no snapshot, or an empty one.  A request
\* that finds accounts changes nothing.
Miss(p) ==
    /\ pc[p] = "idle"
    /\ \A snapshot \in ToSet(bucket.active) : ~snapshot.listed
    /\ Goto(p, "capture")
    /\ Works
    /\ UNCHANGED <<kind, db, outbox, watermark, bucket, meta, versions, lock, lease, job, past>>

\* Mutant of Capture: a full rebuild leaves a retired bucket alone as well.
CaptureOrSkip(p) ==
    /\ pc[p] = "capture"
    /\ IF bucket.retired THEN Done(p) /\ UNCHANGED bucket
       ELSE /\ bucket' = [bucket EXCEPT !.epoch = Bigger(@, 1)]
            /\ Has(p, [job[p] EXCEPT !.token = bucket'.epoch])
            /\ Goto(p, IF p \in Readers THEN "load" ELSE "lock")
    /\ Works
    /\ UNCHANGED <<kind, db, outbox, watermark, meta, versions, lock, lease, past>>

\* captureBucketWriteTokenScript.  A request and an outbox rebuild leave a retired
\* bucket alone; a full rebuild, which found the group active, reconciles it.
Capture(p) ==
    /\ pc[p] = "capture"
    /\ IF bucket.retired
       THEN /\ IF p \in Rebuilders THEN Goto(p, "lease") /\ UNCHANGED job ELSE Done(p)
            /\ UNCHANGED bucket
       ELSE /\ bucket' = [bucket EXCEPT !.epoch = Bigger(@, 1)]
            /\ Has(p, [job[p] EXCEPT !.token = bucket'.epoch])
            /\ Goto(p, IF p \in Readers THEN "load" ELSE "lock")
    /\ Works
    /\ UNCHANGED <<kind, db, outbox, watermark, meta, versions, lock, lease, past>>

\* What a rebuild does under the bucket's lock.
UnderLock == {"load", "allocate", "write", "activate"}

\* What was overrun ends when nobody is at work that may have met the late rebuild.
Locked(p) ==
    /\ lock' = p /\ Goto(p, "load")
    /\ past' = [past EXCEPT !.overrun =
                   @ /\ \E q \in Maintainers \ {p} : pc[q] \in UnderLock \cup {"unlock"}]

\* Mutant of Lock: whoever comes takes it.
LockAnyway(p) ==
    /\ pc[p] = "lock"
    /\ Locked(p)
    /\ Works
    /\ UNCHANGED <<kind, db, outbox, watermark, bucket, meta, versions, lease, job>>

\* TryLockBucket: a rebuild that finds the lock taken is skipped, one that
\* follows a reopening is an error.
Lock(p) ==
    /\ pc[p] = "lock"
    /\ IF lock = Nobody THEN Locked(p) /\ UNCHANGED job
       ELSE /\ UNCHANGED <<lock, past>>
            /\ IF job[p].strict THEN GiveUp(p) ELSE Done(p)
    /\ Works
    /\ UNCHANGED <<kind, db, outbox, watermark, bucket, meta, versions, lease>>

\* loadAccountsFromDB: the schedulable accounts; a request may be refused it
\* (guardFallback).
Load(p) ==
    /\ pc[p] = "load"
    /\ \/ /\ Has(p, [job[p] EXCEPT !.account = account, !.listed = ~limited,
                                    !.at = bucket.epoch])
          /\ Goto(p, "allocate")
       \/ p \in Readers /\ GiveUp(p)
    /\ Works
    /\ UNCHANGED <<kind, db, outbox, watermark, bucket, meta, versions, lock, lease, past>>

\* Mutant of Fenced: the scripts look at the retired mark only.
FencedWhileRetired(p) == bucket.retired

Fenced(p) == bucket.retired \/ bucket.epoch # job[p].token

\* What a holder of the lock leaves through, with an error or without.
Finish(p, failed) ==
    IF p \in Readers THEN GiveUp(p)
    ELSE Has(p, [Batch(job[p]) EXCEPT !.failed = failed]) /\ Goto(p, "unlock")

\* allocateSnapshotVersionScript
Allocate(p) ==
    /\ pc[p] = "allocate"
    /\ IF Fenced(p) THEN Finish(p, job[p].strict) /\ UNCHANGED versions
       ELSE versions' = Append(versions, p) /\ Goto(p, "write") /\ UNCHANGED job
    /\ Works
    /\ UNCHANGED <<kind, db, outbox, watermark, bucket, meta, lock, lease, past>>

\* writeAccountIDs: the records of the accounts in the snapshot, old or new.
WriteRecords(p) ==
    /\ pc[p] = "write"
    /\ meta' = IF job[p].listed THEN job[p].account ELSE meta
    /\ Goto(p, "activate")
    /\ Works
    /\ UNCHANGED <<kind, db, outbox, watermark, bucket, versions, lock, lease, job, past>>

\* activateSnapshotScript publishes unless the writer is fenced or a newer
\* version is active: then p's is no longer among the versions.
Publish(p) ==
    IF Fenced(p) \/ ~Contains(versions, p)
    THEN /\ versions' = Remove(versions, p)
         /\ UNCHANGED <<bucket, past>>
    ELSE /\ bucket' = [bucket EXCEPT !.registered = TRUE,
                          !.active = <<[account |-> job[p].account, at |-> job[p].at,
                                        listed |-> job[p].listed]>>]
         /\ versions' = SubSeq(versions, 1 + CHOOSE i \in DOMAIN versions : versions[i] = p,
                               Len(versions))
         /\ past' = IF p \in Maintainers
                    THEN [past EXCEPT !.rebuilt = job[p].account] ELSE past

Activate(p) ==
    /\ pc[p] = "activate"
    /\ Publish(p)
    /\ \/ Finish(p, Fenced(p) /\ job[p].strict) /\ Works
       \/ Finish(p, TRUE) /\ Faulty \* the answer is lost
    /\ UNCHANGED <<kind, db, outbox, watermark, meta, lock, lease>>

\* UnlockBucket deletes the key whoever set it; a failure to is not looked at.
Unlock(p) ==
    /\ pc[p] = "unlock"
    /\ \/ lock' = Nobody /\ Works
       \/ UNCHANGED lock /\ Faulty
    /\ IF job[p].failed THEN GiveUp(p) ELSE Done(p)
    /\ UNCHANGED <<kind, db, outbox, watermark, bucket, meta, versions, lease, past>>

-----------------------------------------------------------------------------
(* Retiring and reopening the group's bucket: prepareGroupLifecycle *)

\* Mutant of Lease: no owner keeps another out.
LeaseAnyway(p) ==
    /\ pc[p] = "lease"
    /\ lease' = p /\ Goto(p, "authority")
    /\ Works
    /\ UNCHANGED <<kind, db, outbox, watermark, bucket, meta, versions, lock, job, past>>

Lease(p) ==
    /\ pc[p] = "lease"
    /\ IF lease = Nobody THEN lease' = p /\ Goto(p, "authority") /\ UNCHANGED job
       ELSE GiveUp(p) /\ UNCHANGED lease
    /\ Works
    /\ UNCHANGED <<kind, db, outbox, watermark, bucket, meta, versions, lock, past>>

\* GetByIDLite, read under the lease.
Authority(p) ==
    /\ pc[p] = "authority"
    /\ Has(p, [job[p] EXCEPT !.group = group]) /\ Goto(p, "decide")
    /\ Works
    /\ UNCHANGED <<kind, db, outbox, watermark, bucket, meta, versions, lock, lease, past>>

\* reopenBucketScript: the epoch stays that of the retirement.
Reopened ==
    IF bucket.retired
    THEN [bucket EXCEPT !.retired = FALSE, !.registered = FALSE, !.active = <<>>]
    ELSE [bucket EXCEPT !.epoch = Bigger(@, 1)]

\* retireBucketScript: the first retirement starts an epoch.
Retired ==
    [bucket EXCEPT !.epoch = IF bucket.retired THEN @ ELSE @ + 1,
                   !.retired = TRUE, !.registered = FALSE, !.active = <<>>]

Decide(p) ==
    /\ pc[p] = "decide"
    /\ bucket' = IF Active(job[p].group) THEN Reopened ELSE Retired
    /\ past' = [past EXCEPT !.decided = job[p].group]
    /\ Goto(p, "release")
    /\ \/ Works /\ IF Active(job[p].group)
                   THEN Has(p, [job[p] EXCEPT !.token = bucket'.epoch, !.strict = TRUE])
                   ELSE UNCHANGED job
       \/ Faulty /\ Has(p, [job[p] EXCEPT !.failed = TRUE]) \* the answer is lost
    /\ UNCHANGED <<kind, db, outbox, watermark, meta, versions, lock, lease>>

\* An active group's bucket is rebuilt with the token of its reopening.
Release(p) ==
    /\ pc[p] = "release"
    /\ \/ lease' = Nobody /\ Works
          /\ IF job[p].failed THEN GiveUp(p)
             ELSE IF Active(job[p].group)
             THEN Goto(p, "lock") /\ Has(p, [job[p] EXCEPT !.group = 0])
             ELSE Done(p)
       \/ UNCHANGED lease /\ Faulty /\ GiveUp(p)
    /\ UNCHANGED <<kind, db, outbox, watermark, bucket, meta, versions, lock, past>>

-----------------------------------------------------------------------------
(* Full rebuilds: rebuildFullSnapshot *)

\* ListBuckets
ReadRegistry(p) ==
    /\ pc[p] = "idle"
    /\ Has(p, [Blank EXCEPT !.seen = IF bucket.registered THEN {"registered"} ELSE {}])
    /\ Goto(p, "groups")
    /\ Works
    /\ UNCHANGED <<kind, db, outbox, watermark, bucket, meta, versions, lock, lease, past>>

\* listActiveSchedulerGroupIDs: an active group's bucket is rebuilt, a registered
\* bucket of another group reconciled.
ReadGroups(p) ==
    /\ pc[p] = "groups"
    /\ Has(p, Blank)
    /\ Goto(p, IF Active(group) THEN "capture"
               ELSE IF "registered" \in job[p].seen THEN "lease" ELSE "idle")
    /\ Works
    /\ UNCHANGED <<kind, db, outbox, watermark, bucket, meta, versions, lock, lease, past>>

-----------------------------------------------------------------------------
(* Failures *)

UnderLease == {"authority", "decide"}

\* A call that left no trace fails: the deferred release of the lock or of the
\* lease still runs.
CallFails(p) ==
    /\ pc[p] \in UnderLock \cup UnderLease
                 \cup {"list", "get", "set", "mark", "capture", "lock", "lease", "groups"}
    /\ Faulty
    /\ versions' = Remove(versions, p)
    /\ IF pc[p] \in UnderLock THEN Finish(p, TRUE)
       ELSE IF pc[p] \in UnderLease
       THEN Has(p, [job[p] EXCEPT !.failed = TRUE]) /\ Goto(p, "release")
       ELSE GiveUp(p)
    /\ UNCHANGED <<kind, db, outbox, watermark, bucket, meta, lock, lease, past>>

\* The process is gone; its lock and its lease stay.
Crash(p) ==
    /\ pc[p] \notin {"idle", "off"}
    /\ Faulty
    /\ GiveUp(p) /\ versions' = Remove(versions, p)
    /\ UNCHANGED <<kind, db, outbox, watermark, bucket, meta, lock, lease, past>>

\* The holder is gone, and the key's 30 s end.
LockLapses ==
    /\ lock # Nobody /\ pc[lock] \notin UnderLock \cup {"unlock"}
    /\ lock' = Nobody
    /\ Works
    /\ UNCHANGED <<kind, db, outbox, watermark, bucket, meta, versions, lease, job, pc, past>>

\* The holder is still at work when the key's 30 s end: those of its context began
\* later.
LockOutlived ==
    /\ lock # Nobody /\ pc[lock] \in UnderLock \cup {"unlock"}
    /\ Faulty
    /\ lock' = Nobody /\ past' = [past EXCEPT !.overrun = TRUE]
    /\ Has(lock, [job[lock] EXCEPT !.late = TRUE])
    /\ UNCHANGED <<kind, db, outbox, watermark, bucket, meta, versions, lease, pc>>

\* Then its context ends too, in whichever call it is, and the deferred unlock still runs.
TimesOut(p) ==
    /\ job[p].late /\ pc[p] \in UnderLock
    /\ versions' = Remove(versions, p)
    /\ Finish(p, TRUE)
    /\ Works
    /\ UNCHANGED <<kind, db, outbox, watermark, bucket, meta, lock, lease, past>>

LeaseLapses ==
    /\ lease # Nobody /\ pc[lease] \notin UnderLease \cup {"release"}
    /\ lease' = Nobody
    /\ Works
    /\ UNCHANGED <<kind, db, outbox, watermark, bucket, meta, versions, lock, job, pc, past>>

-----------------------------------------------------------------------------

WriterStep(w) ==
    \/ Change(w) \/ Insert(w) \/ InsertSuppressed(w) \/ Commit(w)
    \/ SyncRead(w) \/ SyncPut(w)

PublishStep(p) ==
    \/ Capture(p) \/ Lock(p) \/ Load(p) \/ Allocate(p) \/ WriteRecords(p)
    \/ Activate(p) \/ Unlock(p)

LifecycleStep(p) == Lease(p) \/ Authority(p) \/ Decide(p) \/ Release(p)

PollerStep(p) ==
    \/ ReadWatermark(p) \/ List(p) \/ GetAccount(p) \/ SetAccount(p)
    \/ SetWatermark(p) \/ Cleanup(p)
    \/ PublishStep(p) \/ LifecycleStep(p)

RebuilderStep(p) ==
    ReadRegistry(p) \/ ReadGroups(p) \/ PublishStep(p) \/ LifecycleStep(p)

ReaderStep(p) == Miss(p) \/ PublishStep(p)

Next ==
    \/ \E w \in DOMAIN kind : WriterStep(w) \/ WriterFails(w)
    \/ \E p \in Pollers : PollerStep(p)
    \/ \E p \in Rebuilders : RebuilderStep(p)
    \/ \E p \in Readers : ReaderStep(p)
    \/ \E p \in Procs : CallFails(p) \/ Crash(p)
    \/ LockLapses \/ LeaseLapses \/ LockOutlived \/ LimitEnds
    \/ \E p \in Maintainers : TimesOut(p)

Spec == Init /\ [][Next]_vars

\* Both workers tick for ever and take the steps they have begun, and keys with a
\* TTL expire; writers and requests may stop anywhere.
Fairness ==
    /\ \A p \in Pollers : WF_vars(PollerStep(p))
    /\ \A p \in Rebuilders : WF_vars(RebuilderStep(p))
    /\ WF_vars(LockLapses \/ LeaseLapses)

FairSpec == Spec /\ Fairness

-----------------------------------------------------------------------------
(* Properties *)

Labels ==
    UnderLock \cup UnderLease \cup
    {"change", "insert", "commit", "sync", "put", "done", "off", "idle", "list", "get", "set", "mark",
     "clean", "capture", "lock", "unlock", "lease", "release", "groups"}

\* Types, and what the sequence of versions is: allocated by processes that
\* have not published yet, each once.
TypeOK ==
    /\ \A w \in DOMAIN kind : w \in Writers /\ kind[w] \in Kinds
    /\ account \in Nat /\ group \in Nat /\ limited \in BOOLEAN /\ meta \in Nat
    /\ \A r \in rows : r.id \in 1..lastId /\ r.by \in Writers
    /\ watermark \in 0..lastId
    /\ bucket.epoch \in Nat /\ Len(bucket.active) <= 1
    /\ IsInjective(versions) /\ ToSet(versions) \subseteq {p \in Procs : pc[p] \in {"write", "activate"}}
    /\ lock \in Maintainers \cup {Nobody} /\ lease \in Maintainers \cup {Nobody}
    /\ \A p \in Writers \cup Procs : pc[p] \in Labels
    /\ faults \in Nat

\* A snapshot that serves requests was loaded from the database after the
\* bucket's latest retirement, by a writer of that generation, and is registered
\* where the full rebuild will find it (activateSnapshotScript's two checks, the
\* token captured before the load).
ServedIsFresh ==
    bucket.active # <<>> =>
        /\ ~bucket.retired
        /\ Last(bucket.active).at = bucket.epoch
        /\ bucket.registered

\* Retirements and reopenings follow the group: the state one of them acts on is
\* never older than that of the one before (prepareGroupLifecycle reads it under
\* the lease).
DecisionsInOrder == [][past'.decided >= past.decided]_vars

\* The snapshots the workers publish under the rebuild lock never go back to an older
\* state of the account, whichever worker builds them, since each loads after it has
\* the lock (rebuildBucketWithTokenPolicyAndQueryCache); a request's publication may.
\* While there are rebuilds at work that may have met one which outlived its lock,
\* nothing is said: it deletes the lock of whoever came next, and may publish after him.
RebuildsInOrder == [][past.overrun \/ past'.rebuilt >= past.rebuilt]_vars

\* A change with a row, or whose row was suppressed after its commit, has been read by
\* a handler or has a committed row past the watermark, failed batches included
\* (ListAfterAndReleaseDedup, pollOutbox); unless a row was jumped over because it
\* was committed after the watermark had passed its id.
AnnouncedIsCovered ==
    \/ past.gap
    \/ past.announced <= past.read
    \/ \E r \in rows : r.what = "account" /\ r.committed /\ r.id > watermark

\* Once nothing changes and nothing fails, what requests are served becomes and
\* stays what the database says, or nothing if the group is not active, whatever was
\* lost on the way (rebuildFullSnapshot).  The record of an account that is not
\* schedulable is nobody's concern here: a rebuild does not load it.
Current ==
    IF Active(group)
    THEN /\ bucket.active # <<>> /\ Last(bucket.active).listed = ~limited
         /\ ~limited => Last(bucket.active).account = account /\ meta = account
    ELSE bucket.active = <<>>

Converges == <>[]Current

-----------------------------------------------------------------------------
(* What makes them inductive *)

Fields(record, names) == DOMAIN record = names

JobFields ==
    {"token", "strict", "account", "at", "group", "listed", "late", "from", "todo", "last",
     "seen", "failed"}

PastFields == {"announced", "read", "gap", "decided", "rebuilt", "overrun"}

RowFields == {"id", "what", "by", "committed", "keyed", "polled"}

ReaderLabels == {"off", "idle", "capture"} \cup UnderLock

Shaped ==
    /\ DOMAIN kind \subseteq Writers
    /\ account \in Nat /\ group \in Nat
    /\ Fields(bucket, {"epoch", "retired", "registered", "active"}) /\ bucket.epoch \in Nat
    /\ Fields(past, PastFields)
    /\ past.decided \in Nat /\ past.rebuilt \in Nat

JobsShaped ==
    /\ DOMAIN job = Writers \cup Procs
    /\ \A p \in Writers \cup Procs :
         /\ Fields(job[p], JobFields)
         /\ job[p].token \in Nat /\ job[p].account \in Nat
         /\ job[p].at \in Nat /\ job[p].group \in Nat
    /\ pc \in [Writers \cup Procs -> Labels]
    /\ \A p \in Readers : pc[p] \in ReaderLabels

\* A token is no newer than the epoch, what was loaded since is no older than it,
\* and no token is of the epoch before the first.
Tokens ==
    /\ bucket.retired \/ bucket.active # <<>> => bucket.epoch >= 1
    /\ \A p \in Procs :
         /\ job[p].token <= bucket.epoch
         /\ pc[p] \in UnderLock \cup {"lock"} => job[p].token >= 1
         /\ pc[p] = "release" /\ Active(job[p].group) /\ ~job[p].failed => job[p].token >= 1
         /\ pc[p] \in UnderLock \ {"load"} =>
                job[p].token <= job[p].at /\ job[p].at <= bucket.epoch

\* Who works under the lifecycle lease has it, and acts on the latest state read under it.
Decisions ==
    /\ past.decided <= group
    /\ \A p \in Procs :
         /\ pc[p] \in UnderLease \cup {"release"} => lease = p
         /\ pc[p] = "decide" => past.decided <= job[p].group /\ job[p].group <= group

\* Nobody has loaded what is not committed.  Who rebuilds has the lock, and loaded after
\* the last snapshot published under it, unless one outlived its lock.
Rebuilds ==
    /\ past.rebuilt <= account
    /\ \A p \in Maintainers :
         /\ pc[p] \in UnderLock \ {"load"} => job[p].account <= account
         /\ pc[p] \in UnderLock \cup {"unlock"} => past.overrun \/ lock = p
         /\ pc[p] \in UnderLock \ {"load"} => past.overrun \/ past.rebuilt <= job[p].account

IInv == Shaped /\ JobsShaped /\ Tokens /\ ServedIsFresh /\ Decisions /\ Rebuilds

\* Rows are numbered in the order of their inserts, an uncommitted one belongs to the
\* writer that is about to commit it, and one that holds its key was polled by nobody.
RowsKept ==
    /\ lastId \in Nat /\ watermark \in 0..lastId
    /\ \A r \in rows :
         /\ Fields(r, RowFields)
         /\ r.id \in 1..lastId /\ r.by \in DOMAIN kind /\ r.what = Event(r.by)
         /\ r.committed => pc[r.by] \notin {"change", "insert", "commit"}
         /\ ~r.committed => pc[r.by] = "commit"
         /\ ~r.committed \/ r.keyed => r.polled = {}
    /\ \A p \in Pollers :
         /\ job[p].from \in 0..lastId /\ job[p].last \in 0..lastId
         /\ pc[p] = "mark" => job[p].todo = {}

\* A row that nobody has polled is ahead of everybody, unless it was jumped over.
UnpolledAhead ==
    past.gap \/ \A r \in rows : r.polled = {} =>
        /\ r.id > watermark
        /\ \A p \in Pollers :
              r.id > job[p].from /\ (pc[p] = "clean" => r.id > job[p].last)

\* In p's batch is an event for which p has not read the account yet.
WillRead(p) ==
    \E e \in job[p].todo : e.what = "account" /\ (pc[p] = "get" \/ e # First(job[p].todo))

\* p's batch does not pass r, or p will read the account, or notice that it passed r.
Covers(p, r) ==
    /\ job[p].from < r.id
    /\ r.id <= job[p].last => pc[p] # "clean" /\ (WillRead(p) \/ p \notin r.polled)

Pending(r) ==
    /\ r.what = "account" /\ r.committed /\ r.id > watermark
    /\ \A p \in Pollers : Covers(p, r)

AnnouncedKept ==
    /\ past.announced \in Nat /\ past.read \in Nat /\ past.announced <= account
    /\ \A w \in Writers : job[w].account <= account
    /\ past.gap \/ past.announced <= past.read \/ \E r \in rows : Pending(r)

OutboxInv == RowsKept /\ UnpolledAhead /\ AnnouncedKept
=============================================================================
