------------------------ MODULE SystemOperationLock ------------------------
(***************************************************************************)
(* The lock that update, rollback and restart requests take so that only   *)
(* one of them runs (system_operation_lock_service.go, taken in            *)
(* system_handler.go).  The lock is a row of idempotency_records with a    *)
(* lease, locked_until, which a goroutine of the holder renews.            *)
(*                                                                         *)
(* Every call to the store is a step of its own: an operation reads the    *)
(* clock at the start of Acquire and uses that value in all its calls.     *)
(* The clock may not advance past the time a call takes at most            *)
(* (CallTime), a due renewal, or the end of an operation (RunTime): the    *)
(* processes are slow, never stopped for longer than that.  A process      *)
(* that stops for good crashes.                                            *)
(***************************************************************************)
EXTENDS IdempotencyStore

CONSTANTS
    Ops,        \* the requests; each takes the lock once
    OpId,       \* operationID of each: retries with one key share it
    Lease,      \* ProcessingTimeout, 30 s unless configured
    Interval,   \* renewInterval, a third of the lease
    TTL,        \* SystemOperationTTL, an hour
    CallTime,   \* what Acquire, a renewal or a Release takes at most, 2 s
    RunTime,    \* from the clock reading in Acquire to the call of Release
    MaxTime,    \* bound on the clock
    MaxFaults   \* bound on renewals that fail

ASSUME TimesAssumption ==
    /\ Lease \in Nat \ {0} /\ Interval \in Nat \ {0} /\ TTL \in Nat
    /\ CallTime \in Nat /\ RunTime \in Nat /\ MaxTime \in Nat /\ MaxFaults \in Nat
    /\ Lease <= TTL
    /\ CallTime <= RunTime

ASSUME OpIdAssumption == OpId \in [Ops -> Nat \ {0}]

VARIABLES
    clock,      \* time.Now()
    row,        \* the lock's row
    lastId,     \* the highest id the table has handed out
    pc,         \* where each request is
    start,      \* the clock as Acquire read it
    ended,      \* the clock when Release was called
    owner,      \* whether Acquire inserted the row
    seen,       \* id and status of the row GetByScopeAndKeyHash returned
    rid,        \* recordID of the lock object
    loop,       \* the renewal goroutine: off, waiting, or in a call
    due,        \* when its ticker fires next
    issued,     \* the clock as the renewal in progress read it
    faults      \* renewals that failed so far

vars == <<clock, row, lastId, pc, start, ended, owner, seen, rid, loop, due, issued, faults>>

lockVars == <<pc, start, ended, owner, seen, rid>>
loopVars == <<loop, due, issued, faults>>

Acquiring == {"create", "read", "reclaim"}
Holding   == {"running", "releasing"}

\* lock.stopCh is closed at the start of Release.
Stopped(o) == pc[o] \in {"releasing", "done"}

TypeOK ==
    /\ clock \in Nat
    /\ row \in Row
    /\ lastId \in Nat
    /\ pc \in [Ops -> Acquiring \cup Holding \cup {"idle", "done"}]
    /\ start \in [Ops -> Nat]
    /\ ended \in [Ops -> Nat]
    /\ owner \in [Ops -> BOOLEAN]
    /\ seen \in [Ops -> [id : Nat, status : Statuses]]
    /\ rid \in [Ops -> Nat]
    /\ loop \in [Ops -> {"off", "waiting", "calling"}]
    /\ due \in [Ops -> Nat]
    /\ issued \in [Ops -> Nat]
    /\ faults \in Nat

NotSeen == [id |-> 0, status |-> "processing"]

Init ==
    /\ clock = 1
    /\ row = NoRow
    /\ lastId = 0
    /\ pc = [o \in Ops |-> "idle"]
    /\ start = [o \in Ops |-> 0]
    /\ ended = [o \in Ops |-> 0]
    /\ owner = [o \in Ops |-> FALSE]
    /\ seen = [o \in Ops |-> NotSeen]
    /\ rid = [o \in Ops |-> 0]
    /\ loop = [o \in Ops |-> "off"]
    /\ due = [o \in Ops |-> 0]
    /\ issued = [o \in Ops |-> 0]
    /\ faults = 0

-----------------------------------------------------------------------------
(* Acquire *)

Acquire(o) ==
    /\ pc[o] = "idle"
    /\ pc' = [pc EXCEPT ![o] = "create"]
    /\ start' = [start EXCEPT ![o] = clock]
    /\ UNCHANGED <<clock, row, lastId, ended, owner, seen, rid, loopVars>>

\* The end of Acquire: the lock object exists and its goroutine starts.
Locked(o, id) ==
    /\ pc' = [pc EXCEPT ![o] = "running"]
    /\ rid' = [rid EXCEPT ![o] = id]
    /\ loop' = [loop EXCEPT ![o] = "waiting"]
    /\ due' = [due EXCEPT ![o] = clock + Interval]
    /\ UNCHANGED <<clock, start, ended, seen, issued, faults>>

\* The request is over and its local variables are gone; the lock object
\* lives on in its goroutine.
Gone(o) ==
    /\ pc' = [pc EXCEPT ![o] = "done"]
    /\ start' = [start EXCEPT ![o] = 0]
    /\ ended' = [ended EXCEPT ![o] = 0]
    /\ owner' = [owner EXCEPT ![o] = FALSE]
    /\ seen' = [seen EXCEPT ![o] = NotSeen]
    /\ UNCHANGED <<clock, lastId, rid>>

\* Acquire returns an error: busy, or the store failed.
Refused(o) ==
    /\ Gone(o)
    /\ UNCHANGED <<row, loopVars>>

CreateProcessing(o) ==
    /\ pc[o] = "create"
    /\ ~Exists(row)
    /\ row' = Inserted(lastId + 1, OpId[o], start[o] + Lease, start[o] + TTL)
    /\ lastId' = lastId + 1
    /\ owner' = [owner EXCEPT ![o] = TRUE]
    /\ Locked(o, lastId + 1)

CreateConflicts(o) ==
    /\ pc[o] = "create"
    /\ Exists(row)
    /\ pc' = [pc EXCEPT ![o] = "read"]
    /\ UNCHANGED <<clock, row, lastId, start, ended, owner, seen, rid, loopVars>>

Busy(o) == row.status = "processing" /\ row.lock > start[o]

GetExisting(o) ==
    /\ pc[o] = "read"
    /\ \/ /\ ~Exists(row) \/ Busy(o)
          /\ Refused(o)
       \/ /\ Exists(row) /\ ~Busy(o)
          /\ seen' = [seen EXCEPT ![o] = [id |-> row.id, status |-> row.status]]
          /\ pc' = [pc EXCEPT ![o] = "reclaim"]
          /\ UNCHANGED <<clock, row, lastId, start, ended, owner, rid, loopVars>>

CanTake(o) == Reclaimable(row, seen[o].id, seen[o].status, start[o])

\* A reclaim that matches no row ends in busyError; the read before it only
\* fills in the answer.
TryReclaim(o) ==
    /\ pc[o] = "reclaim"
    /\ \/ /\ CanTake(o)
          /\ row' = Reclaimed(row, start[o] + Lease, start[o] + TTL)
          /\ Locked(o, row.id)
          /\ UNCHANGED <<lastId, owner>>
       \/ /\ ~CanTake(o)
          /\ Refused(o)

AcquireFails(o) ==
    /\ pc[o] \in Acquiring
    /\ Refused(o)

-----------------------------------------------------------------------------
(* renewLoop *)

\* The ticker fires.  With stopCh closed as well, select may still take the
\* ticker's branch.
Renew(o) ==
    /\ loop[o] = "waiting"
    /\ clock >= due[o]
    /\ loop' = [loop EXCEPT ![o] = "calling"]
    /\ issued' = [issued EXCEPT ![o] = clock]
    /\ due' = [due EXCEPT ![o] = @ + Interval]
    /\ UNCHANGED <<clock, row, lastId, lockVars, faults>>

\* ExtendProcessingLock returns: a row that is no longer ours ends the loop.
Renewed(o) ==
    /\ loop[o] = "calling"
    /\ \/ /\ Extendable(row, rid[o], OpId[o])
          /\ row' = Extended(row, issued[o] + Lease, issued[o] + TTL)
          /\ loop' = [loop EXCEPT ![o] = "waiting"]
       \/ /\ ~Extendable(row, rid[o], OpId[o])
          /\ row' = row
          /\ loop' = [loop EXCEPT ![o] = "off"]
    /\ issued' = [issued EXCEPT ![o] = 0]
    /\ UNCHANGED <<clock, lastId, lockVars, due, faults>>

\* Mutant: the first error ends the renewal loop.
RenewGivesUp(o) ==
    /\ loop[o] = "calling"
    /\ faults < MaxFaults
    /\ faults' = faults + 1
    /\ loop' = [loop EXCEPT ![o] = "off"]
    /\ UNCHANGED <<clock, row, lastId, lockVars, due, issued>>

RenewFails(o) ==
    /\ loop[o] = "calling"
    /\ faults < MaxFaults
    /\ faults' = faults + 1
    /\ loop' = [loop EXCEPT ![o] = "waiting"]
    /\ UNCHANGED <<clock, row, lastId, lockVars, due, issued>>

LoopStops(o) ==
    /\ loop[o] = "waiting"
    /\ Stopped(o)
    /\ loop' = [loop EXCEPT ![o] = "off"]
    /\ UNCHANGED <<clock, row, lastId, lockVars, due, issued, faults>>

-----------------------------------------------------------------------------
(* Release, a crash, cleanup and time *)

StartRelease(o) ==
    /\ pc[o] = "running"
    /\ pc' = [pc EXCEPT ![o] = "releasing"]
    /\ ended' = [ended EXCEPT ![o] = clock]
    /\ UNCHANGED <<clock, row, lastId, start, owner, seen, rid, loopVars>>

Marked(o) ==
    {MarkSucceeded(row, rid[o], 0, clock + TTL),
     MarkFailedRetryable(row, rid[o], clock, clock + TTL)}

\* The mark may fail: acquireSystemLock ignores the error.
Release(o) ==
    /\ pc[o] = "releasing"
    /\ row' \in Marked(o) \cup {row}
    /\ Gone(o)
    /\ UNCHANGED loopVars

\* The process dies, and its goroutine with it.
Crash(o) ==
    /\ pc[o] \in Acquiring \cup Holding
    /\ loop' = [loop EXCEPT ![o] = "off"]
    /\ Gone(o)
    /\ UNCHANGED <<row, due, issued, faults>>

CleanupOnce ==
    /\ Expired(row, clock)
    /\ row' = NoRow
    /\ UNCHANGED <<clock, lastId, lockVars, loopVars>>

\* o still has time: nothing it must do by now is outstanding.
HasTime(o) ==
    /\ pc[o] \in Acquiring => clock < start[o] + CallTime
    /\ pc[o] = "running" => clock < start[o] + RunTime
    /\ pc[o] = "releasing" => clock < ended[o] + CallTime
    /\ loop[o] = "waiting" => ~Stopped(o) /\ clock < due[o]
    /\ loop[o] = "calling" => clock < issued[o] + CallTime

Tick ==
    /\ clock < MaxTime
    /\ \A o \in Ops : HasTime(o)
    /\ clock' = clock + 1
    /\ UNCHANGED <<row, lastId, lockVars, loopVars>>

Next ==
    \/ \E o \in Ops :
        \/ Acquire(o) \/ CreateProcessing(o) \/ CreateConflicts(o)
        \/ GetExisting(o) \/ TryReclaim(o) \/ AcquireFails(o)
        \/ Renew(o) \/ Renewed(o) \/ RenewFails(o) \/ LoopStops(o)
        \/ StartRelease(o) \/ Release(o) \/ Crash(o)
    \/ CleanupOnce
    \/ Tick

Spec == Init /\ [][Next]_vars

-----------------------------------------------------------------------------
(* Properties *)

\* The time everybody has: what HasTime makes of the clock.
Punctual ==
    \A o \in Ops :
        /\ start[o] <= clock
        /\ pc[o] \in Acquiring => clock <= start[o] + CallTime
        /\ pc[o] = "running" => clock <= start[o] + RunTime
        /\ pc[o] = "releasing" =>
               ended[o] <= start[o] + RunTime /\ clock <= ended[o] + CallTime
        /\ loop[o] = "calling" => clock <= issued[o] + CallTime

\* An operation whose Acquire inserted the row runs alone for as long as it
\* takes: renewLoop keeps the row locked and nobody reclaims it, even when a
\* renewal fails in between.  It does not speak of two operations that both
\* reclaimed a row: there the first one's fingerprint stays in the row, the
\* later one's renewals match nothing, and its lock ends with its lease.
OwnerExcludes ==
    \A o, p \in Ops : pc[o] = "running" /\ pc[p] = "running" /\ owner[o] => o = p

\* The row of whoever runs is not cleaned up before it ends, though another may
\* have taken it over and late renewals of its predecessors may have shortened it.
RowKept ==
    \A o \in Ops : pc[o] = "running" =>
        Exists(row) /\ row.id = rid[o] /\ row.exp + CallTime >= start[o] + TTL

\* How far the renewals of an owner may have fallen behind.
Lag == (faults + 1) * Interval

\* The renewals of an owner match its row.  The lock falls behind by an interval
\* with each renewal that fails, and by the time the claim took.
Renewing(o) ==
    /\ row.status = "processing" /\ row.fp = OpId[o]
    /\ \/ /\ loop[o] = "waiting" /\ clock <= due[o]
          /\ row.lock + Lag + CallTime >= due[o] + Lease
       \/ /\ loop[o] = "calling" /\ issued[o] + Interval = due[o]
          /\ row.lock + Lag + Interval + CallTime >= due[o] + Lease

\* An inserted row has an id that no other lock object carries, so only its owner's
\* renewals and marks reach it.
OwnersAlone ==
    \A o \in Ops : pc[o] = "running" /\ owner[o] =>
        Renewing(o) /\ \A p \in Ops : rid[p] = row.id => p = o

\* The inductive invariant behind OwnerExcludes.
OwnerInv ==
    /\ TypeOK /\ Punctual /\ RowKept
    /\ faults <= MaxFaults
    /\ row.id <= lastId /\ \A o \in Ops : rid[o] <= lastId
    /\ \A o \in Ops : owner[o] => pc[o] \in Holding
    /\ OwnersAlone
=============================================================================
