--------------------- MODULE SystemOperationLockProofs ---------------------
(***************************************************************************)
(* Proof that an operation which inserted the row of the system operation  *)
(* lock runs alone, for any number of requests, any clock, and operations  *)
(* far longer than the lease, as update and rollback are.  The invariant   *)
(* is OwnerInv of SystemOperationLock.                                     *)
(***************************************************************************)
EXTENDS SystemOperationLock, TLAPS

USE TimesAssumption

\* The row's columns have their types.
LEMMA RowType ==
    ASSUME TypeOK
    PROVE  /\ row.id \in Nat /\ row.fp \in Nat /\ row.status \in Statuses
           /\ row.body \in Nat /\ row.lock \in Nat /\ row.exp \in Nat
BY DEF TypeOK, Row

\* Every statement on the row yields a row.
LEMMA StoreTypes ==
    /\ NoRow \in Row
    /\ \A id, fp, lock, exp \in Nat : Inserted(id, fp, lock, exp) \in Row
    /\ \A r \in Row : \A lock, exp \in Nat : Reclaimed(r, lock, exp) \in Row
    /\ \A r \in Row : \A lock, exp \in Nat : Extended(r, lock, exp) \in Row
    /\ \A r \in Row : \A id, body, exp \in Nat : MarkSucceeded(r, id, body, exp) \in Row
    /\ \A r \in Row : \A id, lock, exp \in Nat :
            MarkFailedRetryable(r, id, lock, exp) \in Row
<1> USE DEF Row, Statuses
<1>1. NoRow \in Row
  BY DEF NoRow
<1>2. ASSUME NEW id \in Nat, NEW fp \in Nat, NEW lock \in Nat, NEW exp \in Nat
      PROVE  Inserted(id, fp, lock, exp) \in Row
  BY DEF Inserted
<1>3. ASSUME NEW r \in Row, NEW lock \in Nat, NEW exp \in Nat
      PROVE  Reclaimed(r, lock, exp) \in Row /\ Extended(r, lock, exp) \in Row
  <2>1. Reclaimed(r, lock, exp) \in Row
    BY DEF Reclaimed
  <2>2. Extended(r, lock, exp) \in Row
    BY DEF Extended
  <2> QED BY <2>1, <2>2
<1>4. ASSUME NEW r \in Row, NEW id \in Nat, NEW n \in Nat, NEW exp \in Nat
      PROVE  MarkSucceeded(r, id, n, exp) \in Row /\ MarkFailedRetryable(r, id, n, exp) \in Row
  <2>1. MarkSucceeded(r, id, n, exp) \in Row
    BY DEF MarkSucceeded
  <2>2. MarkFailedRetryable(r, id, n, exp) \in Row
    BY DEF MarkFailedRetryable
  <2> QED BY <2>1, <2>2
<1> HIDE DEF Row
<1> QED BY <1>1, <1>2, <1>3, <1>4

-----------------------------------------------------------------------------

\* Every variable keeps its type in every step.
LEMMA TypeStep ==
    ASSUME TypeOK, [Next]_vars
    PROVE  TypeOK'
<1> USE DEF TypeOK, lockVars, loopVars, Acquiring, Holding
<1>0. /\ row.id \in Nat /\ row.fp \in Nat /\ row.status \in Statuses
      /\ row.body \in Nat /\ row.lock \in Nat /\ row.exp \in Nat
  BY RowType
<1>1. ASSUME NEW o \in Ops, Gone(o)
      PROVE  /\ clock' \in Nat /\ lastId' \in Nat
             /\ pc' \in [Ops -> Acquiring \cup Holding \cup {"idle", "done"}]
             /\ start' \in [Ops -> Nat] /\ ended' \in [Ops -> Nat]
             /\ owner' \in [Ops -> BOOLEAN]
             /\ seen' \in [Ops -> [id : Nat, status : Statuses]]
             /\ rid' \in [Ops -> Nat]
  BY <1>1 DEF Gone, NotSeen, Statuses
<1>2. ASSUME NEW o \in Ops, Refused(o)
      PROVE  TypeOK'
  BY <1>1, <1>2 DEF Refused
<1>3. ASSUME NEW o \in Ops, NEW id \in Nat, Locked(o, id)
      PROVE  /\ clock' \in Nat
             /\ pc' \in [Ops -> Acquiring \cup Holding \cup {"idle", "done"}]
             /\ start' \in [Ops -> Nat] /\ ended' \in [Ops -> Nat]
             /\ seen' \in [Ops -> [id : Nat, status : Statuses]]
             /\ rid' \in [Ops -> Nat]
             /\ loop' \in [Ops -> {"off", "waiting", "calling"}]
             /\ due' \in [Ops -> Nat] /\ issued' \in [Ops -> Nat]
             /\ faults' \in Nat
  BY <1>3 DEF Locked
<1>4. ASSUME NEW o \in Ops, Acquire(o)
      PROVE  TypeOK'
  BY <1>4 DEF Acquire
<1>5. ASSUME NEW o \in Ops, CreateProcessing(o)
      PROVE  TypeOK'
  <2>1. row' \in Row
    <3>1. /\ OpId[o] \in Nat /\ lastId + 1 \in Nat
          /\ start[o] + Lease \in Nat /\ start[o] + TTL \in Nat
      BY OpIdAssumption
    <3>2. Inserted(lastId + 1, OpId[o], start[o] + Lease, start[o] + TTL) \in Row
      BY <3>1, StoreTypes
    <3> QED BY <1>5, <3>2 DEF CreateProcessing
  <2>2. lastId' \in Nat /\ owner' \in [Ops -> BOOLEAN] /\ Locked(o, lastId + 1)
    BY <1>5 DEF CreateProcessing
  <2> QED BY <1>3, <2>1, <2>2
<1>6. ASSUME NEW o \in Ops, CreateConflicts(o)
      PROVE  TypeOK'
  BY <1>6 DEF CreateConflicts
<1>7. ASSUME NEW o \in Ops, GetExisting(o)
      PROVE  TypeOK'
  BY <1>0, <1>2, <1>7 DEF GetExisting
<1>8. ASSUME NEW o \in Ops, TryReclaim(o)
      PROVE  TypeOK'
  <2>1. CASE Refused(o)
    BY <1>2, <2>1
  <2>2. CASE /\ row' = Reclaimed(row, start[o] + Lease, start[o] + TTL)
             /\ Locked(o, row.id)
             /\ UNCHANGED <<lastId, owner>>
    <3>1. row' \in Row
      BY <2>2, StoreTypes
    <3> QED BY <1>0, <1>3, <2>2, <3>1
  <2> QED BY <1>8, <2>1, <2>2 DEF TryReclaim
<1>9. ASSUME NEW o \in Ops, AcquireFails(o)
      PROVE  TypeOK'
  BY <1>2, <1>9 DEF AcquireFails
<1>10. ASSUME NEW o \in Ops, Renew(o)
       PROVE  TypeOK'
  BY <1>10 DEF Renew
<1>11. ASSUME NEW o \in Ops, Renewed(o)
       PROVE  TypeOK'
  <2>1. row' \in Row
    <3>1. issued[o] + Lease \in Nat /\ issued[o] + TTL \in Nat
      OBVIOUS
    <3>2. Extended(row, issued[o] + Lease, issued[o] + TTL) \in Row
      BY <3>1, StoreTypes
    <3> QED BY <1>11, <3>2 DEF Renewed
  <2> QED BY <1>11, <2>1 DEF Renewed
<1>12. ASSUME NEW o \in Ops, RenewFails(o)
       PROVE  TypeOK'
  BY <1>12 DEF RenewFails
<1>13. ASSUME NEW o \in Ops, LoopStops(o)
       PROVE  TypeOK'
  BY <1>13 DEF LoopStops
<1>14. ASSUME NEW o \in Ops, StartRelease(o)
       PROVE  TypeOK'
  BY <1>14 DEF StartRelease
<1>15. ASSUME NEW o \in Ops, Release(o)
       PROVE  TypeOK'
  <2>1. row' \in Row
    <3>1. rid[o] \in Nat /\ clock + TTL \in Nat
      OBVIOUS
    <3>2. /\ MarkSucceeded(row, rid[o], 0, clock + TTL) \in Row
          /\ MarkFailedRetryable(row, rid[o], clock, clock + TTL) \in Row
      BY <3>1, StoreTypes
    <3> QED BY <1>15, <3>2 DEF Release, Marked
  <2> QED BY <1>1, <1>15, <2>1 DEF Release
<1>16. ASSUME NEW o \in Ops, Crash(o)
       PROVE  TypeOK'
  <2>1. loop' \in [Ops -> {"off", "waiting", "calling"}]
    BY <1>16 DEF Crash
  <2> QED BY <1>1, <1>16, <2>1 DEF Crash
<1>17. CASE CleanupOnce
  <2>1. row' \in Row
    BY <1>17, StoreTypes DEF CleanupOnce
  <2> QED BY <1>17, <2>1 DEF CleanupOnce
<1>18. CASE Tick
  BY <1>18 DEF Tick
<1>19. CASE UNCHANGED vars
  BY <1>19 DEF vars
<1> HIDE DEF TypeOK
<1> QED
  BY <1>4, <1>5, <1>6, <1>7, <1>8, <1>9, <1>10, <1>11, <1>12, <1>13, <1>14, <1>15,
     <1>16, <1>17, <1>18, <1>19 DEF Next

-----------------------------------------------------------------------------

\* The clock bounds are kept: HasTime guards every tick.
LEMMA PunctualStep ==
    ASSUME TypeOK, Punctual, Next
    PROVE  Punctual'
<1> USE DEF TypeOK, Punctual, lockVars, loopVars, Acquiring, Holding
<1>0. TypeOK /\ Punctual
  OBVIOUS
<1>1. ASSUME NEW o \in Ops, Acquire(o)
      PROVE  Punctual'
  BY <1>0, <1>1 DEF Acquire
<1>2. ASSUME NEW o \in Ops, CreateProcessing(o) \/ TryReclaim(o) \/ GetExisting(o)
                             \/ CreateConflicts(o) \/ AcquireFails(o)
      PROVE  Punctual'
  <2>1. CASE Gone(o) /\ UNCHANGED loopVars
    BY <1>0, <2>1 DEF Gone
  <2>2. CASE pc[o] \in Acquiring /\ \E id : Locked(o, id)
    BY <1>0, <2>2 DEF Locked
  <2>3. CASE /\ pc[o] \in Acquiring /\ pc' = [pc EXCEPT ![o] = "reclaim"]
             /\ UNCHANGED <<clock, start, ended, loopVars>>
    BY <1>0, <2>3
  <2>4. CASE /\ pc[o] \in Acquiring /\ pc' = [pc EXCEPT ![o] = "read"]
             /\ UNCHANGED <<clock, start, ended, loopVars>>
    BY <1>0, <2>4
  <2> HIDE DEF Punctual
  <2> QED
    BY <1>2, <2>1, <2>2, <2>3, <2>4
    DEF CreateProcessing, TryReclaim, GetExisting, CreateConflicts, AcquireFails, Refused
<1>3. ASSUME NEW o \in Ops, Renew(o) \/ Renewed(o) \/ RenewFails(o) \/ LoopStops(o)
      PROVE  Punctual'
  BY <1>0, <1>3 DEF Renew, Renewed, RenewFails, LoopStops
<1>4. ASSUME NEW o \in Ops, StartRelease(o)
      PROVE  Punctual'
  BY <1>0, <1>4 DEF StartRelease
<1>5. ASSUME NEW o \in Ops, Release(o) \/ Crash(o)
      PROVE  Punctual'
  BY <1>0, <1>5 DEF Release, Crash, Gone
<1>6. CASE CleanupOnce
  BY <1>0, <1>6 DEF CleanupOnce
<1>7. CASE Tick
  BY <1>0, <1>7 DEF Tick, HasTime, Stopped
<1> HIDE DEF Punctual
<1> QED
  BY <1>1, <1>2, <1>3, <1>4, <1>5, <1>6, <1>7 DEF Next

-----------------------------------------------------------------------------
(* An owner excludes the others for as long as it takes *)

\* What an owner needs of the times: its lock outlasts all the renewals that may
\* fail in a row, with one call before and one after them,
RenewalsFit ==
    /\ CallTime <= Interval
    /\ (MaxFaults + 1) * Interval + CallTime + CallTime < Lease

\* and the record, whose expiry nobody but cleanup reads, outlasts an operation.
RowOutlives == RunTime + CallTime < TTL

\* The lag of an owner is bounded.
LEMMA LagBound ==
    ASSUME RenewalsFit, faults \in Nat, faults <= MaxFaults
    PROVE  Lag \in Nat /\ Interval <= Lag /\ Lag + CallTime + CallTime < Lease
<1>1. (faults + 1) * Interval <= (MaxFaults + 1) * Interval
  OBVIOUS
<1>2. faults * Interval \in Nat /\ (faults + 1) * Interval = faults * Interval + Interval
  OBVIOUS
<1>3. (faults + 1) * Interval \in Nat /\ (MaxFaults + 1) * Interval \in Nat
  OBVIOUS
<1> QED
  BY <1>1, <1>2, <1>3 DEF RenewalsFit, Lag

\* Each renewal that fails costs one interval.
LEMMA LagStep ==
    ASSUME faults \in Nat
    PROVE  /\ faults' = faults => Lag' = Lag
           /\ faults' = faults + 1 => Lag' = Lag + Interval
<1>1. (faults + 1 + 1) * Interval = (faults + 1) * Interval + Interval
  OBVIOUS
<1> QED
  BY <1>1 DEF Lag

\* The lock of an owner that runs has not passed.
LEMMA OwnerLocked ==
    ASSUME OwnerInv, RenewalsFit, NEW o \in Ops, pc[o] = "running", owner[o]
    PROVE  row.lock > clock /\ row.lock \in Nat /\ clock \in Nat
<1>1. Lag \in Nat /\ Lag + CallTime + CallTime < Lease
  BY LagBound DEF OwnerInv, TypeOK
<1>2. /\ row.lock \in Nat /\ clock \in Nat /\ due[o] \in Nat /\ issued[o] \in Nat
      /\ Renewing(o)
      /\ loop[o] = "calling" => clock <= issued[o] + CallTime
  BY RowType DEF OwnerInv, TypeOK, Punctual, OwnersAlone
<1> QED
  BY <1>1, <1>2 DEF Renewing

\* While anybody runs, its row is there, and not to be deleted.
LEMMA RunnerKept ==
    ASSUME OwnerInv, RowOutlives, NEW o \in Ops, pc[o] = "running"
    PROVE  /\ Exists(row) /\ row.id = rid[o]
           /\ row.exp > clock /\ row.exp \in Nat /\ clock \in Nat
<1>1. row.exp \in Nat /\ clock \in Nat /\ start[o] \in Nat /\ clock <= start[o] + RunTime
  BY RowType DEF OwnerInv, TypeOK, Punctual
<1> QED BY <1>1 DEF OwnerInv, RowKept, RowOutlives

\* The row of an operation is not deleted under it, and every write keeps it long enough.
LEMMA RowKeptStep ==
    ASSUME OwnerInv, RenewalsFit, RowOutlives, [Next]_vars
    PROVE  RowKept'
<1> USE DEF TypeOK, Acquiring, Holding, lockVars, loopVars, OwnerInv, Punctual, RowKept
<1>0. /\ row.id \in Nat /\ row.exp \in Nat /\ row.id <= lastId
  BY RowType
<1>1. ASSUME NEW o \in Ops, Acquire(o) PROVE RowKept'
  BY <1>1 DEF Acquire
<1>2. ASSUME NEW o \in Ops, CreateProcessing(o) PROVE RowKept'
  <2>1. \A p \in Ops : pc[p] # "running"
    BY <1>2, RunnerKept DEF CreateProcessing
  <2>2. /\ row'.id = lastId + 1 /\ row'.exp = start[o] + TTL /\ lastId + 1 # 0
        /\ rid'[o] = lastId + 1 /\ start' = start /\ \A p \in Ops : pc'[p] = "running" => p = o
    BY <1>2, <2>1 DEF CreateProcessing, Inserted, Locked
  <2> QED BY <2>2 DEF Exists
<1>3. ASSUME NEW o \in Ops, CreateConflicts(o) PROVE RowKept'
  BY <1>3 DEF CreateConflicts
<1>4. ASSUME NEW o \in Ops, GetExisting(o) PROVE RowKept'
  BY <1>4 DEF GetExisting, Refused, Gone
<1>5. ASSUME NEW o \in Ops, TryReclaim(o) PROVE RowKept'
  <2>1. CASE ~CanTake(o)
    BY <1>5, <2>1 DEF TryReclaim, Refused, Gone
  <2>2. CASE CanTake(o)
    <3>1. /\ Exists(row') /\ row'.id = row.id /\ row'.exp = start[o] + TTL /\ rid'[o] = row.id
          /\ start' = start /\ clock <= start[o] + CallTime
          /\ \A p \in Ops : p # o => pc'[p] = pc[p] /\ rid'[p] = rid[p]
      BY <1>5, <2>2 DEF TryReclaim, CanTake, Reclaimable, Reclaimed, Locked, Exists, Row
    <3> QED BY <3>1
  <2> QED BY <2>1, <2>2
<1>6. ASSUME NEW o \in Ops, AcquireFails(o) PROVE RowKept'
  BY <1>6 DEF AcquireFails, Refused, Gone
<1>7. ASSUME NEW o \in Ops, Renew(o) PROVE RowKept'
  BY <1>7 DEF Renew
<1>8. ASSUME NEW o \in Ops, Renewed(o) PROVE RowKept'
  <2>1. CASE row' = row
    BY <1>8, <2>1 DEF Renewed
  <2>2. CASE row' = Extended(row, issued[o] + Lease, issued[o] + TTL)
    <3>1. /\ row'.id = row.id /\ row'.exp = issued[o] + TTL
          /\ UNCHANGED <<pc, rid, start>> /\ clock <= issued[o] + CallTime
      BY <1>8, <2>2 DEF Renewed, Extended, Row
    <3> QED BY <3>1 DEF Exists
  <2> QED BY <1>8, <2>1, <2>2 DEF Renewed
<1>9. ASSUME NEW o \in Ops, RenewFails(o) PROVE RowKept'
  BY <1>9 DEF RenewFails
<1>10. ASSUME NEW o \in Ops, LoopStops(o) PROVE RowKept'
  BY <1>10 DEF LoopStops, Stopped
<1>11. ASSUME NEW o \in Ops, StartRelease(o) PROVE RowKept'
  BY <1>11 DEF StartRelease
<1>12. ASSUME NEW o \in Ops, Release(o) PROVE RowKept'
  <2>1. row'.id = row.id /\ (row'.exp = row.exp \/ row'.exp = clock + TTL)
    BY <1>12 DEF Release, Marked, MarkSucceeded, MarkFailedRetryable, Row
  <2>2. /\ UNCHANGED rid
        /\ \A p \in Ops : pc'[p] = "running" => pc[p] = "running" /\ start'[p] = start[p]
    BY <1>12 DEF Release, Gone
  <2> QED BY <1>0, <2>1, <2>2 DEF Exists
<1>13. ASSUME NEW o \in Ops, Crash(o) PROVE RowKept'
  BY <1>13 DEF Crash, Gone
<1>14. ASSUME CleanupOnce PROVE RowKept'
  <2>1. \A p \in Ops : pc[p] # "running"
    BY <1>14, RunnerKept DEF CleanupOnce, Expired
  <2> QED BY <1>14, <2>1 DEF CleanupOnce
<1>15. ASSUME Tick PROVE RowKept'
  BY <1>15 DEF Tick, HasTime, Stopped
<1>16. ASSUME UNCHANGED vars PROVE RowKept'
  BY <1>16 DEF vars
<1>17. QED
  BY <1>1, <1>2, <1>3, <1>4, <1>5, <1>6, <1>7, <1>8, <1>9, <1>10, <1>11, <1>12, <1>13, <1>14,
     <1>15, <1>16 DEF Next

\* Ids and failures are counted, and only a claim that inserts makes an owner.
LEMMA CountStep ==
    ASSUME OwnerInv, RenewalsFit, RowOutlives, [Next]_vars
    PROVE  /\ faults' <= MaxFaults /\ row'.id <= lastId' /\ \A p \in Ops : rid'[p] <= lastId'
           /\ \A p \in Ops : owner'[p] => pc'[p] \in Holding
<1> DEFINE Goal == /\ faults' <= MaxFaults /\ row'.id <= lastId'
                   /\ \A q \in Ops : rid'[q] <= lastId'
                   /\ \A q \in Ops : owner'[q] => pc'[q] \in Holding
<1> SUFFICES Goal OBVIOUS
<1> USE DEF TypeOK, Acquiring, Holding, lockVars, loopVars, OwnerInv
<1>0. row.id \in Nat
  BY RowType
<1>1. ASSUME NEW o \in Ops, Acquire(o) PROVE Goal
  BY <1>1 DEF Acquire
<1>2. ASSUME NEW o \in Ops, CreateProcessing(o) PROVE Goal
  BY <1>2 DEF CreateProcessing, Locked, Inserted
<1>3. ASSUME NEW o \in Ops, CreateConflicts(o) PROVE Goal
  BY <1>3 DEF CreateConflicts
<1>4. ASSUME NEW o \in Ops, GetExisting(o) PROVE Goal
  BY <1>4 DEF GetExisting, Refused, Gone
<1>5. ASSUME NEW o \in Ops, TryReclaim(o) PROVE Goal
  <2>1. CASE ~CanTake(o)
    BY <1>5, <1>0, <2>1 DEF TryReclaim, Refused, Gone
  <2>2. CASE CanTake(o)
    <3>1. row'.id = row.id
      BY <1>5, <2>2 DEF TryReclaim, Reclaimed, Row
    <3>2. rid' = [rid EXCEPT ![o] = row.id] /\ UNCHANGED <<lastId, owner, faults>>
          /\ pc' = [pc EXCEPT ![o] = "running"]
      BY <1>5, <2>2 DEF TryReclaim, Locked
    <3> QED BY <1>0, <3>1, <3>2
  <2> QED BY <2>1, <2>2
<1>6. ASSUME NEW o \in Ops, AcquireFails(o) PROVE Goal
  BY <1>6 DEF AcquireFails, Refused, Gone
<1>7. ASSUME NEW o \in Ops, Renew(o) PROVE Goal
  BY <1>7 DEF Renew
<1>8. ASSUME NEW o \in Ops, Renewed(o) PROVE Goal
  BY <1>8 DEF Renewed, Extended, Row
<1>9. ASSUME NEW o \in Ops, RenewFails(o) PROVE Goal
  BY <1>9 DEF RenewFails
<1>10. ASSUME NEW o \in Ops, LoopStops(o) PROVE Goal
  BY <1>10 DEF LoopStops, Stopped
<1>11. ASSUME NEW o \in Ops, StartRelease(o) PROVE Goal
  BY <1>11 DEF StartRelease
<1>12. ASSUME NEW o \in Ops, Release(o) PROVE Goal
  BY <1>12 DEF Release, Gone, Marked, MarkSucceeded, MarkFailedRetryable, Row
<1>13. ASSUME NEW o \in Ops, Crash(o) PROVE Goal
  BY <1>13 DEF Crash, Gone
<1>14. ASSUME CleanupOnce PROVE Goal
  BY <1>14 DEF CleanupOnce, NoRow
<1>15. ASSUME Tick PROVE Goal
  BY <1>15 DEF Tick, HasTime, Stopped
<1>16. ASSUME UNCHANGED vars PROVE Goal
  BY <1>16 DEF vars
<1>17. QED
  BY <1>1, <1>2, <1>3, <1>4, <1>5, <1>6, <1>7, <1>8, <1>9, <1>10, <1>11, <1>12, <1>13, <1>14,
     <1>15, <1>16 DEF Next

\* A step that neither writes the row nor touches an owner leaves it alone.
LEMMA OwnersUndisturbed ==
    ASSUME OwnerInv, UNCHANGED <<row, clock, rid, faults>>,
           \A p \in Ops : pc'[p] = "running" /\ owner'[p] =>
               /\ pc[p] = "running" /\ owner[p]
               /\ loop'[p] = loop[p] /\ due'[p] = due[p] /\ issued'[p] = issued[p]
    PROVE  OwnersAlone'
  BY LagStep DEF OwnerInv, OwnersAlone, Renewing, TypeOK

\* What is written under another id than an owner's does not reach its row, and the
\* owner's own renewals keep up.
LEMMA OwnerStep ==
    ASSUME OwnerInv, RenewalsFit, RowOutlives, [Next]_vars
    PROVE  OwnersAlone'
<1> USE DEF OwnerInv, TypeOK, Acquiring, Holding, lockVars, loopVars
<1>0. row.id \in Nat /\ row.lock \in Nat
  BY RowType
<1>1. ASSUME NEW o \in Ops, Acquire(o) PROVE OwnersAlone'
  BY <1>1, OwnersUndisturbed DEF Acquire
<1>2. ASSUME NEW o \in Ops, CreateProcessing(o) PROVE OwnersAlone'
  <2>1. \A p \in Ops : pc[p] # "running"
    BY <1>2, RunnerKept DEF CreateProcessing
  <2>2. \A p \in Ops : pc'[p] = "running" => p = o
    BY <1>2, <2>1 DEF CreateProcessing, Locked
  <2>3. /\ row'.id = lastId + 1 /\ row'.status = "processing" /\ row'.fp = OpId[o]
        /\ row'.lock = start[o] + Lease /\ loop'[o] = "waiting" /\ due'[o] = clock + Interval
        /\ clock' = clock /\ faults' = faults /\ clock <= start[o] + CallTime
        /\ rid'[o] = lastId + 1 /\ \A q \in Ops : q # o => rid'[q] = rid[q]
    BY <1>2 DEF CreateProcessing, Inserted, Locked, Punctual
  <2>4. Interval <= Lag /\ Lag \in Nat
    BY LagBound
  <2>5. Renewing(o)'
    BY <2>3, <2>4, LagStep DEF Renewing
  <2> QED BY <2>2, <2>3, <2>5 DEF OwnersAlone
<1>3. ASSUME NEW o \in Ops, CreateConflicts(o) PROVE OwnersAlone'
  BY <1>3, OwnersUndisturbed DEF CreateConflicts
<1>4. ASSUME NEW o \in Ops, GetExisting(o) PROVE OwnersAlone'
  BY <1>4, OwnersUndisturbed DEF GetExisting, Refused, Gone
<1>5. ASSUME NEW o \in Ops, TryReclaim(o) PROVE OwnersAlone'
  <2>1. CASE ~CanTake(o)
    BY <1>5, <2>1, OwnersUndisturbed DEF TryReclaim, Refused, Gone
  <2>2. CASE CanTake(o)
    <3>1. row.lock <= start[o] /\ start[o] <= clock
      BY <1>5, <2>2 DEF CanTake, Reclaimable, Punctual
    <3>2. \A p \in Ops : ~(pc[p] = "running" /\ owner[p])
      BY <3>1, OwnerLocked
    <3>3. ~owner[o] /\ owner' = owner /\ \A p \in Ops : p # o => pc'[p] = pc[p]
      BY <1>5, <2>2 DEF TryReclaim, Locked
    <3> QED BY <3>2, <3>3 DEF OwnersAlone
  <2> QED BY <2>1, <2>2
<1>6. ASSUME NEW o \in Ops, AcquireFails(o) PROVE OwnersAlone'
  BY <1>6, OwnersUndisturbed DEF AcquireFails, Refused, Gone
<1>7. ASSUME NEW o \in Ops, Renew(o) PROVE OwnersAlone'
  <2>0. Lag \in Nat /\ due[o] \in Nat /\ clock \in Nat
    BY LagBound
  <2>1. ASSUME NEW p \in Ops, pc'[p] = "running", owner'[p]
        PROVE  Renewing(p)'
    <3>1. Renewing(p) /\ UNCHANGED <<row, clock, faults>> /\ pc' = pc /\ owner' = owner
      BY <1>7, <2>1 DEF Renew, OwnersAlone
    <3>2. CASE p # o
      BY <1>7, <3>1, <3>2, LagStep DEF Renew, Renewing
    <3>3. CASE p = o
      <4>1. clock <= due[o] /\ row.lock + Lag + CallTime >= due[o] + Lease
        BY <1>7, <3>1, <3>3 DEF Renew, Renewing
      <4>2. /\ clock >= due[o] /\ due'[o] = due[o] + Interval
            /\ issued'[o] = clock /\ loop'[o] = "calling"
        BY <1>7 DEF Renew
      <4>3. clock = due[o]
        <5>1. clock >= due[o] /\ clock <= due[o]
          BY <4>1, <4>2
        <5> HIDE DEF TypeOK
        <5> QED BY <2>0, <5>1
      <4>4. row.lock + Lag + Interval + CallTime >= due[o] + Interval + Lease
        BY <1>0, <2>0, <4>1
      <4>5. Lag' = Lag
        BY <3>1, LagStep
      <4> QED BY <3>1, <3>3, <4>2, <4>3, <4>4, <4>5 DEF Renewing
    <3> QED BY <3>2, <3>3
  <2> QED BY <1>7, <2>1 DEF Renew, OwnersAlone
<1>8. ASSUME NEW o \in Ops, Renewed(o) PROVE OwnersAlone'
  <2>1. ASSUME NEW p \in Ops, pc[p] = "running", owner[p]
        PROVE  Renewing(p)' /\ row'.id = row.id
    <3>1. Renewing(p) /\ \A q \in Ops : rid[q] = row.id => q = p
      BY <2>1 DEF OwnersAlone
    <3>2. UNCHANGED <<clock, faults, due>>
      BY <1>8 DEF Renewed
    <3>3. CASE p # o
      <4>1. ~Extendable(row, rid[o], OpId[o])
        BY <3>1, <3>3 DEF Extendable
      <4> QED BY <1>8, <3>1, <3>2, <3>3, <4>1, LagStep DEF Renewed, Renewing
    <3>4. CASE p = o
      <4>1. /\ row'.id = row.id /\ row'.status = row.status /\ row'.fp = row.fp
            /\ row'.lock = issued[o] + Lease /\ loop'[o] = "waiting"
            /\ issued[o] + Interval = due[o]
        <5>1. Extendable(row, rid[o], OpId[o])
          BY <2>1, <3>1, <3>4, RunnerKept DEF Extendable, Renewing
        <5> QED BY <1>8, <3>1, <3>4, <5>1 DEF Renewed, Renewing, Extended, Row
      <4>2. clock <= due[o]
        BY <1>8, <4>1 DEF Renewed, Punctual, RenewalsFit
      <4>3. Interval <= Lag /\ Lag \in Nat
        BY LagBound
      <4> QED BY <3>1, <3>2, <3>4, <4>1, <4>2, <4>3, LagStep DEF Renewing
    <3> QED BY <3>3, <3>4
  <2> QED BY <1>8, <2>1 DEF Renewed, OwnersAlone
<1>9. ASSUME NEW o \in Ops, RenewFails(o) PROVE OwnersAlone'
  <2>1. Lag \in Nat /\ Lag' = Lag + Interval
    BY <1>9, LagBound, LagStep DEF RenewFails
  <2>2. ASSUME NEW p \in Ops, pc'[p] = "running", owner'[p]
        PROVE  Renewing(p)'
    <3>1. Renewing(p) /\ UNCHANGED <<row, clock, due, issued>> /\ faults' = faults + 1
      BY <1>9, <2>2 DEF RenewFails, OwnersAlone
    <3>2. CASE p # o
      <4>1. /\ loop'[p] = loop[p] /\ due'[p] = due[p] /\ due[p] \in Nat /\ issued'[p] = issued[p]
            /\ UNCHANGED <<row, clock>>
        BY <1>9, <3>2 DEF RenewFails
      <4>2. CASE loop[p] = "waiting"
        <5>1. row.lock + Lag' + CallTime >= due[p] + Lease
          BY <1>0, <2>1, <3>1, <4>1, <4>2 DEF Renewing
        <5> QED BY <3>1, <4>1, <4>2, <5>1 DEF Renewing
      <4>3. CASE loop[p] = "calling"
        <5>1. row.lock + Lag' + Interval + CallTime >= due[p] + Lease
          BY <1>0, <2>1, <3>1, <4>1, <4>3 DEF Renewing
        <5> QED BY <3>1, <4>1, <4>3, <5>1 DEF Renewing
      <4> QED BY <3>1, <4>2, <4>3 DEF Renewing
    <3>3. CASE p = o
      <4>1. /\ loop'[o] = "waiting" /\ issued[o] + Interval = due[o]
            /\ row.lock + Lag + Interval + CallTime >= due[o] + Lease
        BY <1>9, <3>1, <3>3 DEF RenewFails, Renewing
      <4>2. clock <= due[o]
        BY <1>9, <4>1 DEF RenewFails, Punctual, RenewalsFit
      <4>3. row.lock + Lag' + CallTime >= due[o] + Lease
        BY <1>0, <2>1, <4>1
      <4> QED BY <1>9, <3>1, <3>3, <4>1, <4>2, <4>3 DEF RenewFails, Renewing
    <3> QED BY <3>2, <3>3
  <2> QED BY <1>9, <2>2 DEF RenewFails, OwnersAlone
<1>10. ASSUME NEW o \in Ops, LoopStops(o) PROVE OwnersAlone'
  BY <1>10, OwnersUndisturbed DEF LoopStops, Stopped
<1>11. ASSUME NEW o \in Ops, StartRelease(o) PROVE OwnersAlone'
  BY <1>11, OwnersUndisturbed DEF StartRelease
<1>12. ASSUME NEW o \in Ops, Release(o) PROVE OwnersAlone'
  <2>1. ASSUME NEW p \in Ops, pc'[p] = "running", owner'[p]
        PROVE  Renewing(p)' /\ \A q \in Ops : rid'[q] = row'.id => q = p
    <3>1. p # o /\ pc[p] = "running" /\ owner[p]
      BY <1>12, <2>1 DEF Release, Gone
    <3>2. row' = row
      BY <1>12, <3>1 DEF Release, Marked, MarkSucceeded, MarkFailedRetryable, OwnersAlone
    <3> QED BY <1>12, <3>1, <3>2, LagStep DEF Release, Gone, OwnersAlone, Renewing
  <2> QED BY <2>1 DEF OwnersAlone
<1>13. ASSUME NEW o \in Ops, Crash(o) PROVE OwnersAlone'
  BY <1>13, OwnersUndisturbed DEF Crash, Gone
<1>14. ASSUME CleanupOnce PROVE OwnersAlone'
  <2>1. \A p \in Ops : pc[p] # "running"
    BY <1>14, RunnerKept DEF CleanupOnce, Expired
  <2> QED BY <1>14, <2>1 DEF CleanupOnce, OwnersAlone
<1>15. ASSUME Tick PROVE OwnersAlone'
  <2>1. ASSUME NEW p \in Ops, pc[p] = "running", owner[p]
        PROVE  Renewing(p)'
    <3>1. Renewing(p) /\ HasTime(p) /\ UNCHANGED <<row, faults, loop, due, issued>>
      BY <1>15, <2>1 DEF Tick, OwnersAlone
    <3> QED BY <1>15, <3>1, LagStep DEF Tick, HasTime, Renewing
  <2> QED BY <1>15, <2>1 DEF Tick, OwnersAlone
<1>16. ASSUME UNCHANGED vars PROVE OwnersAlone'
  BY <1>16, OwnersUndisturbed DEF vars
<1>17. QED
  BY <1>1, <1>2, <1>3, <1>4, <1>5, <1>6, <1>7, <1>8, <1>9, <1>10, <1>11, <1>12, <1>13, <1>14,
     <1>15, <1>16 DEF Next


\* OwnerInv is an invariant of the lock, however long an operation takes, as long as
\* its renewals come in time.
THEOREM OwnerInvariance ==
    ASSUME RenewalsFit, RowOutlives
    PROVE  Spec => []OwnerInv
<1>1. Init => OwnerInv
  <2> SUFFICES ASSUME Init PROVE OwnerInv
    OBVIOUS
  <2> USE DEF Init, Acquiring, Holding
  <2>1. TypeOK
    BY StoreTypes DEF TypeOK, NotSeen, Statuses
  <2>2. Punctual /\ RowKept /\ OwnersAlone
    BY DEF Punctual, RowKept, OwnersAlone
  <2>3. row.id <= lastId
    BY DEF NoRow
  <2> QED BY <2>1, <2>2, <2>3 DEF OwnerInv
<1>2. OwnerInv /\ [Next]_vars => OwnerInv'
  <2> SUFFICES ASSUME OwnerInv, [Next]_vars PROVE OwnerInv'
    OBVIOUS
  <2>1. TypeOK'
    BY TypeStep DEF OwnerInv
  <2>2. Punctual'
    BY PunctualStep DEF OwnerInv, vars, Punctual
  <2> QED BY <2>1, <2>2, RowKeptStep, CountStep, OwnerStep DEF OwnerInv
<1> QED BY <1>1, <1>2, PTL DEF Spec

\* An operation whose Acquire inserted the row runs alone for as long as it takes, for
\* any number of requests, operation ids, crashes and failed releases.
THEOREM OwnerAlone ==
    ASSUME RenewalsFit, RowOutlives
    PROVE  Spec => []OwnerExcludes
<1>1. OwnerInv => OwnerExcludes
  BY DEF OwnerInv, OwnersAlone, RowKept, OwnerExcludes
<1> QED BY <1>1, OwnerInvariance, PTL

=============================================================================
