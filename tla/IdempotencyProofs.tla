--------------------------- MODULE IdempotencyProofs ---------------------------
(***************************************************************************)
(* Proofs about idempotent requests, for any number of requests, payloads  *)
(* and any clock.  What a replay answers does not depend on the times; who *)
(* holds the claim does, and needs InTime.                                 *)
(***************************************************************************)
EXTENDS Idempotency, FiniteSetTheorems, TLAPS

-----------------------------------------------------------------------------
(* The statements of the store *)

\* The columns of a record.
LEMMA RowFields ==
    ASSUME NEW rw \in Row
    PROVE  /\ rw.id \in Nat /\ rw.fp \in Nat /\ rw.status \in Statuses
           /\ rw.body \in Nat /\ rw.lock \in Nat /\ rw.exp \in Nat
BY DEF Row

\* No record.
LEMMA NoRowFields == NoRow \in Row /\ NoRow.id = 0 /\ NoRow.status = "processing" /\ ~Exists(NoRow)
BY DEF NoRow, Row, Statuses, Exists

-----------------------------------------------------------------------------
(* What holds whatever the times *)

\* The times and fingerprints are numbers.
LEMMA Times ==
    /\ Lease \in Nat /\ TTL \in Nat /\ TTL > 0 /\ Backoff \in Nat /\ CallTime \in Nat /\ ExecTime \in Nat
    /\ CallTime <= ExecTime /\ \A r \in Reqs : Fp[r] \in Nat
BY TimesAssumption, RequestsAssumption

\* What is stored for a success is the answer of an effect, or nothing.
LEMMA StoredIs ==
    ASSUME RecordInv, NEW r \in Reqs, pc[r] = "markSucceeded"
    PROVE  /\ Stored(r) \in Nat
           /\ Stored(r) = 0 \/ \E e \in effects : e.n = Stored(r) /\ e.fp = Fp[r]
<1>1. PICK e \in effects : e.by = r
  BY DEF RecordInv, EffectsMade
<1> DEFINE f == CHOOSE g \in effects : g.by = r
<1>2. f \in effects /\ f.by = r
  BY <1>1
<1>3. f.n \in Nat /\ f.fp = Fp[r]
  BY <1>2 DEF RecordInv, EffectsMade, TypeOK, Effect
<1>4. QED BY <1>2, <1>3 DEF Stored

\* The state's types, one by one.
LEMMA Types ==
    ASSUME RecordInv
    PROVE  /\ clock \in Nat /\ row \in Row /\ lastId \in Nat /\ row.id \in Nat /\ row.fp \in Nat
           /\ row.status \in Statuses /\ row.lock \in Nat /\ row.exp \in Nat /\ row.body \in Nat
           /\ \A r \in Reqs : /\ start[r] \in Nat /\ rid[r] \in Nat /\ ended[r] \in Nat /\ seen[r] \in Row
                              /\ seen[r].id \in Nat /\ seen[r].status \in Statuses /\ ExpiresAt(r) \in Nat
BY Times, RowFields DEF RecordInv, TypeOK, ExpiresAt

\* Inserting the record.
LEMMA CreateStep ==
    ASSUME RecordInv, NEW r \in Reqs, CreateProcessing(r)
    PROVE  /\ pc[r] = "create" /\ ~Exists(row)
           /\ row' \in Row /\ row'.id = lastId + 1 /\ row'.fp = Fp[r] /\ row'.status = "processing"
           /\ row'.lock = start[r] + Lease /\ row'.exp = start[r] + TTL
           /\ lastId' = lastId + 1 /\ rid' = [rid EXCEPT ![r] = lastId + 1]
           /\ pc' = [pc EXCEPT ![r] = "exec"]
           /\ UNCHANGED <<clock, start, seen, ended, result, effects>>
<1> DEFINE id == lastId + 1
           lock == start[r] + Lease
           exp == start[r] + TTL
<1>1. id \in Nat /\ Fp[r] \in Nat /\ lock \in Nat /\ exp \in Nat
  BY Times, Types
<1>2. row' = Inserted(id, Fp[r], lock, exp)
  BY DEF CreateProcessing
<1> HIDE DEF id, lock, exp
<1>3. /\ row' \in Row /\ row'.id = id /\ row'.fp = Fp[r] /\ row'.status = "processing"
      /\ row'.lock = lock /\ row'.exp = exp
  BY <1>1, <1>2 DEF Inserted, Row, Statuses
<1>4. QED BY <1>3 DEF CreateProcessing, id, lock, exp

\* Reclaiming it.
LEMMA ReclaimStep ==
    ASSUME RecordInv, NEW r \in Reqs, Reclaim(r)
    PROVE  /\ Exists(row) /\ row.id = seen[r].id /\ row.status = seen[r].status /\ row.lock <= start[r]
           /\ row' \in Row /\ row'.id = row.id /\ row'.fp = row.fp /\ row'.status = "processing"
           /\ row'.lock = start[r] + Lease /\ row'.exp = start[r] + TTL
           /\ rid' = [rid EXCEPT ![r] = row.id]
           /\ pc' = [pc EXCEPT ![r] = "exec"]
           /\ UNCHANGED <<clock, lastId, start, seen, ended, result, effects>>
<1> DEFINE lock == start[r] + Lease
           exp == start[r] + TTL
<1>1. row \in Row /\ lock \in Nat /\ exp \in Nat
  BY Times, Types
<1>2. row' = Reclaimed(row, lock, exp)
  BY DEF Reclaim
<1> HIDE DEF lock, exp
<1>3. /\ row' \in Row /\ row'.id = row.id /\ row'.fp = row.fp /\ row'.status = "processing"
      /\ row'.lock = lock /\ row'.exp = exp
  BY <1>1, <1>2 DEF Reclaimed, Row, Statuses
<1>4. QED BY <1>3 DEF Reclaim, CanReclaim, Reclaimable, lock, exp

\* Returning after the business function.
Over(r) ==
    /\ pc' = [pc EXCEPT ![r] = "done"]
    /\ \E res \in Results \ {"replay"} : result' = [result EXCEPT ![r] = res]
    /\ UNCHANGED <<clock, lastId, start, seen, rid, ended, effects>>

\* Storing a success.
LEMMA SuccessStep ==
    ASSUME RecordInv, NEW r \in Reqs, StoreSuccess(r)
    PROVE  /\ pc[r] = "markSucceeded" /\ Over(r)
           /\ row' \in Row /\ row'.id = row.id /\ row'.fp = row.fp
           /\ \/ row' = row
              \/ /\ Exists(row) /\ row.id = rid[r] /\ row'.status = "succeeded"
                 /\ row'.body = Stored(r) /\ row'.exp = ExpiresAt(r)
<1>1. /\ row \in Row /\ rid[r] \in Nat /\ ExpiresAt(r) \in Nat
  BY Types
<1>2. pc[r] = "markSucceeded" /\ Over(r)
  BY DEF StoreSuccess, Over, Returned, Results
<1>3. CASE row' = MarkSucceeded(row, rid[r], Stored(r), ExpiresAt(r))
  <2>1. Stored(r) \in Nat
    BY <1>2, StoredIs
  <2>2. QED BY <1>1, <1>2, <1>3, <2>1 DEF MarkSucceeded, Row, Statuses
<1>4. CASE row' = row
  BY <1>1, <1>2, <1>4
<1>5. QED BY <1>3, <1>4 DEF StoreSuccess

\* Storing a failure.
LEMMA FailureStep ==
    ASSUME RecordInv, NEW r \in Reqs, StoreFailure(r)
    PROVE  /\ pc[r] = "markFailed" /\ Over(r)
           /\ row' \in Row /\ row'.id = row.id /\ row'.fp = row.fp
           /\ \/ row' = row
              \/ Exists(row) /\ row.id = rid[r] /\ row'.status = "failed_retryable"
<1> DEFINE lock == ended[r] + Backoff
<1>1. row \in Row /\ rid[r] \in Nat /\ ExpiresAt(r) \in Nat /\ lock \in Nat
  BY Times, Types
<1>2. pc[r] = "markFailed" /\ Over(r)
  BY DEF StoreFailure, Over, Returned, Results
<1>3. CASE row' = MarkFailedRetryable(row, rid[r], ended[r] + Backoff, ExpiresAt(r))
  <2> HIDE DEF lock
  <2>1. row' = MarkFailedRetryable(row, rid[r], lock, ExpiresAt(r))
    BY <1>3 DEF lock
  <2>2. QED BY <1>1, <1>2, <2>1 DEF MarkFailedRetryable, Row, Statuses
<1>4. CASE row' = row
  BY <1>1, <1>2, <1>4
<1>5. QED BY <1>3, <1>4 DEF StoreFailure

\* The effect of a request: the first one, or a later one.
LEMMA ExecStep ==
    ASSUME RecordInv, NEW r \in Reqs, ExecSucceeds(r)
    PROVE  /\ effects' \subseteq Effect
           /\ \E e \in Effect :
                /\ effects' = effects \cup {e} /\ e.by = r /\ e.fp = Fp[r]
                /\ e.claim = start[r] /\ e.at = clock /\ e.n # 0
                /\ e.n = 1 <=> effects = {}
<1>1. IsFiniteSet(effects) /\ effects \subseteq Effect
  BY DEF RecordInv, EffectsMade, TypeOK
<1>2. Cardinality(effects) \in Nat /\ (Cardinality(effects) = 0 <=> effects = {})
  BY <1>1, FS_CardinalityType, FS_EmptySet
<1> DEFINE e == [by |-> r, n |-> Cardinality(effects) + 1, fp |-> Fp[r], claim |-> start[r], at |-> clock]
<1>3. effects' = effects \cup {e}
  BY DEF ExecSucceeds
<1>4. e \in Effect
  BY <1>2, Times, Types DEF Effect
<1>5. e.n # 0 /\ (e.n = 1 <=> effects = {})
  BY <1>2
<1>6. e.by = r /\ e.fp = Fp[r] /\ e.claim = start[r] /\ e.at = clock
  OBVIOUS
<1> HIDE DEF e
<1>7. QED BY <1>1, <1>3, <1>4, <1>5, <1>6

\* Renewing the lease.
LEMMA RenewStep ==
    ASSUME RecordInv, NEW r \in Reqs, Renew(r)
    PROVE  /\ pc[r] \in Claimed /\ Exists(row) /\ row.id = rid[r] /\ row.status = "processing"
           /\ row' \in Row /\ row'.id = row.id /\ row'.fp = row.fp /\ row'.status = "processing"
           /\ row'.lock = clock + Lease /\ row'.exp = clock + TTL
           /\ UNCHANGED <<clock, lastId, pc, start, seen, rid, ended, result, effects>>
<1> DEFINE lock == clock + Lease
           exp == clock + TTL
<1>1. row \in Row /\ lock \in Nat /\ exp \in Nat
  BY Times, Types
<1>2. row' = Extended(row, lock, exp) /\ row.status = "processing"
  BY DEF Renew, Extendable
<1> HIDE DEF lock, exp
<1>3. /\ row' \in Row /\ row'.id = row.id /\ row'.fp = row.fp /\ row'.status = "processing"
      /\ row'.lock = lock /\ row'.exp = exp
  BY <1>1, <1>2 DEF Extended, Row, Statuses
<1>4. QED BY <1>3 DEF Renew, Extendable, lock, exp

\* Every variable keeps its type.
LEMMA TypeStep ==
    ASSUME RecordInv, Next
    PROVE  TypeOK'
<1> USE Times, Types DEF RecordInv, TypeOK, Claiming, Claimed, Results
<1>1. ASSUME NEW r \in Reqs, Execute(r) PROVE TypeOK'
  BY <1>1 DEF Execute
<1>2. ASSUME NEW r \in Reqs, CreateProcessing(r) PROVE TypeOK'
  BY <1>2, CreateStep
<1>3. ASSUME NEW r \in Reqs, CreateConflicts(r) PROVE TypeOK'
  BY <1>3 DEF CreateConflicts
<1>4. ASSUME NEW r \in Reqs, ReadExisting(r) PROVE TypeOK'
  BY <1>4 DEF ReadExisting, NotFound, Decide, Answered, ToReclaim, Found
<1>5. ASSUME NEW r \in Reqs, ReadLatest(r) PROVE TypeOK'
  BY <1>5 DEF ReadLatest, NotFound, Decide, Answered, ToReclaim, Found
<1>6. ASSUME NEW r \in Reqs, ReclaimExpired(r) PROVE TypeOK'
  BY <1>6, ReclaimStep DEF ReclaimExpired
<1>7. ASSUME NEW r \in Reqs, ReclaimFailed(r) PROVE TypeOK'
  BY <1>7, ReclaimStep DEF ReclaimFailed, Answered
<1>8. ASSUME NEW r \in Reqs, StoreFails(r) PROVE TypeOK'
  BY <1>8 DEF StoreFails, Answered
<1>9. ASSUME NEW r \in Reqs, ExecSucceeds(r) PROVE TypeOK'
  <2>1. effects' \subseteq Effect
    BY <1>9, ExecStep
  <2>2. QED BY <1>9, <2>1 DEF ExecSucceeds
<1>10. ASSUME NEW r \in Reqs, ExecFails(r) PROVE TypeOK'
  BY <1>10 DEF ExecFails
<1>11. ASSUME NEW r \in Reqs, StoreSuccess(r) PROVE TypeOK'
  BY <1>11, SuccessStep, StoredIs DEF Over
<1>12. ASSUME NEW r \in Reqs, StoreFailure(r) PROVE TypeOK'
  BY <1>12, FailureStep DEF Over
<1>13. ASSUME NEW r \in Reqs, Renew(r) PROVE TypeOK'
  BY <1>13, RenewStep
<1>14. ASSUME NEW r \in Reqs, Crash(r) PROVE TypeOK'
  BY <1>14 DEF Crash, Returned
<1>15. ASSUME CleanupOnce PROVE TypeOK'
  BY <1>15, NoRowFields DEF CleanupOnce, Expired
<1>16. ASSUME Tick PROVE TypeOK'
  BY <1>16 DEF Tick
<1>17. QED
  BY <1>1, <1>2, <1>3, <1>4, <1>5, <1>6, <1>7, <1>8, <1>9, <1>10, <1>11, <1>12, <1>13, <1>14,
     <1>15, <1>16 DEF Next

\* An id keeps its fingerprint.
LEMMA NumberedStep ==
    ASSUME RecordInv, Next
    PROVE  Numbered'
<1> USE Times, Types DEF RecordInv, TypeOK, Numbered, SeenToReclaim, Claiming, Claimed, Exists
<1>1. ASSUME NEW r \in Reqs, Execute(r) PROVE Numbered'
  BY <1>1 DEF Execute
<1>2. ASSUME NEW r \in Reqs, CreateProcessing(r) PROVE Numbered'
  BY <1>2, CreateStep
<1>3. ASSUME NEW r \in Reqs, CreateConflicts(r) PROVE Numbered'
  BY <1>3 DEF CreateConflicts
<1>4. ASSUME NEW r \in Reqs, ReadExisting(r) PROVE Numbered'
  BY <1>4 DEF ReadExisting, NotFound, Decide, Answered, ToReclaim, Found
<1>5. ASSUME NEW r \in Reqs, ReadLatest(r) PROVE Numbered'
  BY <1>5 DEF ReadLatest, NotFound, Decide, Answered, ToReclaim, Found
<1>6. ASSUME NEW r \in Reqs, ReclaimExpired(r) PROVE Numbered'
  BY <1>6, ReclaimStep DEF ReclaimExpired
<1>7. ASSUME NEW r \in Reqs, ReclaimFailed(r) PROVE Numbered'
  BY <1>7, ReclaimStep DEF ReclaimFailed, Answered
<1>8. ASSUME NEW r \in Reqs, StoreFails(r) PROVE Numbered'
  BY <1>8 DEF StoreFails, Answered
<1>9. ASSUME NEW r \in Reqs, ExecSucceeds(r) PROVE Numbered'
  BY <1>9 DEF ExecSucceeds
<1>10. ASSUME NEW r \in Reqs, ExecFails(r) PROVE Numbered'
  BY <1>10 DEF ExecFails
<1>11. ASSUME NEW r \in Reqs, StoreSuccess(r) PROVE Numbered'
  BY <1>11, SuccessStep, StoredIs DEF Over
<1>12. ASSUME NEW r \in Reqs, StoreFailure(r) PROVE Numbered'
  BY <1>12, FailureStep DEF Over
<1>13. ASSUME NEW r \in Reqs, Renew(r) PROVE Numbered'
  BY <1>13, RenewStep
<1>14. ASSUME NEW r \in Reqs, Crash(r) PROVE Numbered'
  BY <1>14 DEF Crash, Returned
<1>15. ASSUME CleanupOnce PROVE Numbered'
  BY <1>15, NoRowFields DEF CleanupOnce, Expired
<1>16. ASSUME Tick PROVE Numbered'
  BY <1>16 DEF Tick
<1>17. QED
  BY <1>1, <1>2, <1>3, <1>4, <1>5, <1>6, <1>7, <1>8, <1>9, <1>10, <1>11, <1>12, <1>13, <1>14,
     <1>15, <1>16 DEF Next

\* What was found stays as it was found.
LEMMA SeenStep ==
    ASSUME RecordInv, Next
    PROVE  SeenToReclaim'
<1> USE Types DEF RecordInv, TypeOK, SeenToReclaim
<1>1. ASSUME NEW r \in Reqs, Execute(r) PROVE SeenToReclaim'
  BY <1>1 DEF Execute
<1>2. ASSUME NEW r \in Reqs, CreateProcessing(r) PROVE SeenToReclaim'
  BY <1>2, CreateStep
<1>3. ASSUME NEW r \in Reqs, CreateConflicts(r) PROVE SeenToReclaim'
  BY <1>3 DEF CreateConflicts
<1>4. ASSUME NEW r \in Reqs, ReadExisting(r) PROVE SeenToReclaim'
  BY <1>4 DEF ReadExisting, NotFound, Decide, Answered, ToReclaim, Found
<1>5. ASSUME NEW r \in Reqs, ReadLatest(r) PROVE SeenToReclaim'
  BY <1>5 DEF ReadLatest, NotFound, Decide, Answered, ToReclaim, Found
<1>6. ASSUME NEW r \in Reqs, ReclaimExpired(r) PROVE SeenToReclaim'
  BY <1>6, ReclaimStep DEF ReclaimExpired
<1>7. ASSUME NEW r \in Reqs, ReclaimFailed(r) PROVE SeenToReclaim'
  BY <1>7, ReclaimStep DEF ReclaimFailed, Answered
<1>8. ASSUME NEW r \in Reqs, StoreFails(r) PROVE SeenToReclaim'
  BY <1>8 DEF StoreFails, Answered
<1>9. ASSUME NEW r \in Reqs, ExecSucceeds(r) PROVE SeenToReclaim'
  BY <1>9 DEF ExecSucceeds
<1>10. ASSUME NEW r \in Reqs, ExecFails(r) PROVE SeenToReclaim'
  BY <1>10 DEF ExecFails
<1>11. ASSUME NEW r \in Reqs, StoreSuccess(r) PROVE SeenToReclaim'
  BY <1>11, SuccessStep, StoredIs DEF Over
<1>12. ASSUME NEW r \in Reqs, StoreFailure(r) PROVE SeenToReclaim'
  BY <1>12, FailureStep DEF Over
<1>13. ASSUME NEW r \in Reqs, Renew(r) PROVE SeenToReclaim'
  BY <1>13, RenewStep
<1>14. ASSUME NEW r \in Reqs, Crash(r) PROVE SeenToReclaim'
  BY <1>14 DEF Crash, Returned
<1>15. ASSUME CleanupOnce PROVE SeenToReclaim'
  BY <1>15, NoRowFields DEF CleanupOnce, Expired
<1>16. ASSUME Tick PROVE SeenToReclaim'
  BY <1>16 DEF Tick
<1>17. QED
  BY <1>1, <1>2, <1>3, <1>4, <1>5, <1>6, <1>7, <1>8, <1>9, <1>10, <1>11, <1>12, <1>13, <1>14,
     <1>15, <1>16 DEF Next

\* Effects are only added.
LEMMA EffectsStep ==
    ASSUME RecordInv, Next
    PROVE  EffectsMade'
<1> USE Types DEF RecordInv, TypeOK, Effect, EffectsMade, Claiming, Claimed
<1>1. ASSUME NEW r \in Reqs, Execute(r) PROVE EffectsMade'
  BY <1>1 DEF Execute
<1>2. ASSUME NEW r \in Reqs, CreateProcessing(r) PROVE EffectsMade'
  BY <1>2, CreateStep
<1>3. ASSUME NEW r \in Reqs, CreateConflicts(r) PROVE EffectsMade'
  BY <1>3 DEF CreateConflicts
<1>4. ASSUME NEW r \in Reqs, ReadExisting(r) PROVE EffectsMade'
  BY <1>4 DEF ReadExisting, NotFound, Decide, Answered, ToReclaim, Found
<1>5. ASSUME NEW r \in Reqs, ReadLatest(r) PROVE EffectsMade'
  BY <1>5 DEF ReadLatest, NotFound, Decide, Answered, ToReclaim, Found
<1>6. ASSUME NEW r \in Reqs, ReclaimExpired(r) PROVE EffectsMade'
  BY <1>6, ReclaimStep DEF ReclaimExpired
<1>7. ASSUME NEW r \in Reqs, ReclaimFailed(r) PROVE EffectsMade'
  BY <1>7, ReclaimStep DEF ReclaimFailed, Answered
<1>8. ASSUME NEW r \in Reqs, StoreFails(r) PROVE EffectsMade'
  BY <1>8 DEF StoreFails, Answered
<1>9. ASSUME NEW r \in Reqs, ExecSucceeds(r) PROVE EffectsMade'
  <2>1. PICK e \in Effect :
            /\ effects' = effects \cup {e} /\ e.by = r /\ e.fp = Fp[r] /\ e.claim = start[r] /\ e.n # 0
    BY <1>9, ExecStep
  <2>2. IsFiniteSet(effects')
    BY <2>1, FS_AddElement
  <2>3. QED BY <1>9, <2>1, <2>2 DEF ExecSucceeds
<1>10. ASSUME NEW r \in Reqs, ExecFails(r) PROVE EffectsMade'
  BY <1>10 DEF ExecFails
<1>11. ASSUME NEW r \in Reqs, StoreSuccess(r) PROVE EffectsMade'
  BY <1>11, SuccessStep, StoredIs DEF Over
<1>12. ASSUME NEW r \in Reqs, StoreFailure(r) PROVE EffectsMade'
  BY <1>12, FailureStep DEF Over
<1>13. ASSUME NEW r \in Reqs, Renew(r) PROVE EffectsMade'
  BY <1>13, RenewStep
<1>14. ASSUME NEW r \in Reqs, Crash(r) PROVE EffectsMade'
  BY <1>14 DEF Crash, Returned
<1>15. ASSUME CleanupOnce PROVE EffectsMade'
  BY <1>15, NoRowFields DEF CleanupOnce, Expired
<1>16. ASSUME Tick PROVE EffectsMade'
  BY <1>16 DEF Tick
<1>17. QED
  BY <1>1, <1>2, <1>3, <1>4, <1>5, <1>6, <1>7, <1>8, <1>9, <1>10, <1>11, <1>12, <1>13, <1>14,
     <1>15, <1>16 DEF Next

\* Whatever says succeeded has an effect behind it.
LEMMA BackedStep ==
    ASSUME RecordInv, Next
    PROVE  SuccessBacked'
<1> USE Times, Types DEF RecordInv, TypeOK, SuccessBacked, EffectsMade, Claimed, Numbered,
    Exists
<1>1. ASSUME NEW r \in Reqs, Execute(r) PROVE SuccessBacked'
  BY <1>1 DEF Execute
<1>2. ASSUME NEW r \in Reqs, CreateProcessing(r) PROVE SuccessBacked'
  BY <1>2, CreateStep
<1>3. ASSUME NEW r \in Reqs, CreateConflicts(r) PROVE SuccessBacked'
  BY <1>3 DEF CreateConflicts
<1>4. ASSUME NEW r \in Reqs, ReadExisting(r) PROVE SuccessBacked'
  BY <1>4 DEF ReadExisting, NotFound, Decide, Answered, ToReclaim, Found
<1>5. ASSUME NEW r \in Reqs, ReadLatest(r) PROVE SuccessBacked'
  BY <1>5 DEF ReadLatest, NotFound, Decide, Answered, ToReclaim, Found
<1>6. ASSUME NEW r \in Reqs, ReclaimExpired(r) PROVE SuccessBacked'
  BY <1>6, ReclaimStep DEF ReclaimExpired
<1>7. ASSUME NEW r \in Reqs, ReclaimFailed(r) PROVE SuccessBacked'
  BY <1>7, ReclaimStep DEF ReclaimFailed, Answered
<1>8. ASSUME NEW r \in Reqs, StoreFails(r) PROVE SuccessBacked'
  BY <1>8 DEF StoreFails, Answered
<1>9. ASSUME NEW r \in Reqs, ExecSucceeds(r) PROVE SuccessBacked'
  BY <1>9 DEF ExecSucceeds
<1>10. ASSUME NEW r \in Reqs, ExecFails(r) PROVE SuccessBacked'
  BY <1>10 DEF ExecFails
<1>11. ASSUME NEW r \in Reqs, StoreSuccess(r) PROVE SuccessBacked'
  BY <1>11, SuccessStep, StoredIs DEF Over
<1>12. ASSUME NEW r \in Reqs, StoreFailure(r) PROVE SuccessBacked'
  BY <1>12, FailureStep DEF Over
<1>13. ASSUME NEW r \in Reqs, Renew(r) PROVE SuccessBacked'
  BY <1>13, RenewStep
<1>14. ASSUME NEW r \in Reqs, Crash(r) PROVE SuccessBacked'
  BY <1>14 DEF Crash, Returned
<1>15. ASSUME CleanupOnce PROVE SuccessBacked'
  BY <1>15, NoRowFields DEF CleanupOnce, Expired
<1>16. ASSUME Tick PROVE SuccessBacked'
  BY <1>16 DEF Tick
<1>17. QED
  BY <1>1, <1>2, <1>3, <1>4, <1>5, <1>6, <1>7, <1>8, <1>9, <1>10, <1>11, <1>12, <1>13, <1>14,
     <1>15, <1>16 DEF Next

\* A request that has answered is done.
LEMMA AnswersStep ==
    ASSUME RecordInv, Next
    PROVE  Answers'
<1> USE DEF RecordInv, TypeOK, Answers, Claiming, Claimed
<1>1. ASSUME NEW r \in Reqs, Execute(r) PROVE Answers'
  BY <1>1 DEF Execute
<1>2. ASSUME NEW r \in Reqs, CreateProcessing(r) PROVE Answers'
  BY <1>2, CreateStep
<1>3. ASSUME NEW r \in Reqs, CreateConflicts(r) PROVE Answers'
  BY <1>3 DEF CreateConflicts
<1>4. ASSUME NEW r \in Reqs, ReadExisting(r) PROVE Answers'
  BY <1>4 DEF ReadExisting, NotFound, Decide, Answered, ToReclaim, Found
<1>5. ASSUME NEW r \in Reqs, ReadLatest(r) PROVE Answers'
  BY <1>5 DEF ReadLatest, NotFound, Decide, Answered, ToReclaim, Found
<1>6. ASSUME NEW r \in Reqs, ReclaimExpired(r) PROVE Answers'
  BY <1>6, ReclaimStep DEF ReclaimExpired
<1>7. ASSUME NEW r \in Reqs, ReclaimFailed(r) PROVE Answers'
  BY <1>7, ReclaimStep DEF ReclaimFailed, Answered
<1>8. ASSUME NEW r \in Reqs, StoreFails(r) PROVE Answers'
  BY <1>8 DEF StoreFails, Answered
<1>9. ASSUME NEW r \in Reqs, ExecSucceeds(r) PROVE Answers'
  BY <1>9 DEF ExecSucceeds
<1>10. ASSUME NEW r \in Reqs, ExecFails(r) PROVE Answers'
  BY <1>10 DEF ExecFails
<1>11. ASSUME NEW r \in Reqs, StoreSuccess(r) PROVE Answers'
  BY <1>11, SuccessStep, StoredIs DEF Over
<1>12. ASSUME NEW r \in Reqs, StoreFailure(r) PROVE Answers'
  BY <1>12, FailureStep DEF Over
<1>13. ASSUME NEW r \in Reqs, Renew(r) PROVE Answers'
  BY <1>13, RenewStep
<1>14. ASSUME NEW r \in Reqs, Crash(r) PROVE Answers'
  BY <1>14 DEF Crash, Returned
<1>15. ASSUME CleanupOnce PROVE Answers'
  BY <1>15, NoRowFields DEF CleanupOnce, Expired
<1>16. ASSUME Tick PROVE Answers'
  BY <1>16 DEF Tick
<1>17. QED
  BY <1>1, <1>2, <1>3, <1>4, <1>5, <1>6, <1>7, <1>8, <1>9, <1>10, <1>11, <1>12, <1>13, <1>14,
     <1>15, <1>16 DEF Next

\* A replay stays the answer of an effect.
LEMMA ReplayStep ==
    ASSUME RecordInv, Next
    PROVE  ReplayFaithful'
<1> USE Types DEF RecordInv, TypeOK, ReplayFaithful, Answers, SuccessBacked
<1>1. ASSUME NEW r \in Reqs, Execute(r) PROVE ReplayFaithful'
  BY <1>1 DEF Execute
<1>2. ASSUME NEW r \in Reqs, CreateProcessing(r) PROVE ReplayFaithful'
  BY <1>2, CreateStep
<1>3. ASSUME NEW r \in Reqs, CreateConflicts(r) PROVE ReplayFaithful'
  BY <1>3 DEF CreateConflicts
<1>4. ASSUME NEW r \in Reqs, ReadExisting(r) PROVE ReplayFaithful'
  BY <1>4 DEF ReadExisting, NotFound, Decide, Answered, ToReclaim, Found
<1>5. ASSUME NEW r \in Reqs, ReadLatest(r) PROVE ReplayFaithful'
  BY <1>5 DEF ReadLatest, NotFound, Decide, Answered, ToReclaim, Found
<1>6. ASSUME NEW r \in Reqs, ReclaimExpired(r) PROVE ReplayFaithful'
  BY <1>6, ReclaimStep DEF ReclaimExpired
<1>7. ASSUME NEW r \in Reqs, ReclaimFailed(r) PROVE ReplayFaithful'
  BY <1>7, ReclaimStep DEF ReclaimFailed, Answered
<1>8. ASSUME NEW r \in Reqs, StoreFails(r) PROVE ReplayFaithful'
  BY <1>8 DEF StoreFails, Answered
<1>9. ASSUME NEW r \in Reqs, ExecSucceeds(r) PROVE ReplayFaithful'
  BY <1>9 DEF ExecSucceeds
<1>10. ASSUME NEW r \in Reqs, ExecFails(r) PROVE ReplayFaithful'
  BY <1>10 DEF ExecFails
<1>11. ASSUME NEW r \in Reqs, StoreSuccess(r) PROVE ReplayFaithful'
  BY <1>11, SuccessStep, StoredIs DEF Over
<1>12. ASSUME NEW r \in Reqs, StoreFailure(r) PROVE ReplayFaithful'
  BY <1>12, FailureStep DEF Over
<1>13. ASSUME NEW r \in Reqs, Renew(r) PROVE ReplayFaithful'
  BY <1>13, RenewStep
<1>14. ASSUME NEW r \in Reqs, Crash(r) PROVE ReplayFaithful'
  BY <1>14 DEF Crash, Returned
<1>15. ASSUME CleanupOnce PROVE ReplayFaithful'
  BY <1>15, NoRowFields DEF CleanupOnce, Expired
<1>16. ASSUME Tick PROVE ReplayFaithful'
  BY <1>16 DEF Tick
<1>17. QED
  BY <1>1, <1>2, <1>3, <1>4, <1>5, <1>6, <1>7, <1>8, <1>9, <1>10, <1>11, <1>12, <1>13, <1>14,
     <1>15, <1>16 DEF Next

\* Every step keeps it.
LEMMA RecordStep ==
    ASSUME RecordInv, [Next]_vars
    PROVE  RecordInv'
<1>1. CASE Next
  BY <1>1, TypeStep, NumberedStep, SeenStep, EffectsStep, BackedStep, AnswersStep, ReplayStep
     DEF RecordInv
<1>2. CASE UNCHANGED vars
  <2> USE <1>2 DEF vars
  <2>1. TypeOK' = TypeOK
    BY DEF TypeOK
  <2>2. Numbered' = Numbered /\ SeenToReclaim' = SeenToReclaim
    BY DEF Numbered, SeenToReclaim, Exists
  <2>3. EffectsMade' = EffectsMade /\ SuccessBacked' = SuccessBacked
    BY DEF EffectsMade, SuccessBacked
  <2>4. Answers' = Answers /\ ReplayFaithful' = ReplayFaithful
    BY DEF Answers, ReplayFaithful
  <2>5. QED BY <2>1, <2>2, <2>3, <2>4 DEF RecordInv
<1>3. QED BY <1>1, <1>2

\* It holds initially.
LEMMA InitStep == Init => RecordInv /\ ClaimInv
<1> SUFFICES ASSUME Init PROVE RecordInv /\ ClaimInv
  OBVIOUS
<1> USE NoRowFields DEF Init
<1>1. TypeOK
  BY DEF TypeOK, Results
<1>2. Numbered /\ SeenToReclaim /\ Answers /\ ReplayFaithful
  BY DEF Numbered, SeenToReclaim, Answers, ReplayFaithful, Exists, Claimed
<1>3. EffectsMade /\ SuccessBacked
  BY FS_EmptySet DEF EffectsMade, SuccessBacked
<1>4. Timed /\ ClaimKept /\ OneClaim /\ FirstKept /\ FirstEffectKept
  BY DEF Timed, ClaimKept, OneClaim, FirstKept, FirstEffectKept, Claiming, Claimed
<1>5. QED BY <1>1, <1>2, <1>3, <1>4 DEF RecordInv, ClaimInv

-----------------------------------------------------------------------------
(* What needs time *)

\* Nobody is later than the calls since allow.
LEMMA TimedStep ==
    ASSUME RecordInv, ClaimInv, InTime, Next
    PROVE  Timed'
<1> USE Times, Types DEF RecordInv, TypeOK, ClaimInv, Timed, Claiming, HasTime
<1>1. ASSUME NEW r \in Reqs, Execute(r) PROVE Timed'
  BY <1>1 DEF Execute
<1>2. ASSUME NEW r \in Reqs, CreateProcessing(r) PROVE Timed'
  BY <1>2, CreateStep
<1>3. ASSUME NEW r \in Reqs, CreateConflicts(r) PROVE Timed'
  BY <1>3 DEF CreateConflicts
<1>4. ASSUME NEW r \in Reqs, ReadExisting(r) PROVE Timed'
  BY <1>4 DEF ReadExisting, NotFound, Decide, Answered, ToReclaim, Found
<1>5. ASSUME NEW r \in Reqs, ReadLatest(r) PROVE Timed'
  BY <1>5 DEF ReadLatest, NotFound, Decide, Answered, ToReclaim, Found
<1>6. ASSUME NEW r \in Reqs, ReclaimExpired(r) PROVE Timed'
  BY <1>6, ReclaimStep DEF ReclaimExpired
<1>7. ASSUME NEW r \in Reqs, ReclaimFailed(r) PROVE Timed'
  BY <1>7, ReclaimStep DEF ReclaimFailed, Answered
<1>8. ASSUME NEW r \in Reqs, StoreFails(r) PROVE Timed'
  BY <1>8 DEF StoreFails, Answered
<1>9. ASSUME NEW r \in Reqs, ExecSucceeds(r) PROVE Timed'
  BY <1>9 DEF ExecSucceeds
<1>10. ASSUME NEW r \in Reqs, ExecFails(r) PROVE Timed'
  BY <1>10 DEF ExecFails
<1>11. ASSUME NEW r \in Reqs, StoreSuccess(r) PROVE Timed'
  BY <1>11, SuccessStep, StoredIs DEF Over
<1>12. ASSUME NEW r \in Reqs, StoreFailure(r) PROVE Timed'
  BY <1>12, FailureStep DEF Over
<1>13. ASSUME NEW r \in Reqs, Renew(r) PROVE Timed'
  BY <1>13, RenewStep
<1>14. ASSUME NEW r \in Reqs, Crash(r) PROVE Timed'
  BY <1>14 DEF Crash, Returned
<1>15. ASSUME CleanupOnce PROVE Timed'
  BY <1>15, NoRowFields DEF CleanupOnce, Expired
<1>16. ASSUME Tick PROVE Timed'
  BY <1>16 DEF Tick
<1>17. QED
  BY <1>1, <1>2, <1>3, <1>4, <1>5, <1>6, <1>7, <1>8, <1>9, <1>10, <1>11, <1>12, <1>13, <1>14,
     <1>15, <1>16 DEF Next

\* The record of a claim stays its own.
LEMMA ClaimKeptStep ==
    ASSUME RecordInv, ClaimInv, InTime, Next
    PROVE  ClaimKept'
<1> USE Times, Types DEF RecordInv, TypeOK, ClaimInv, Timed, Claiming, Claimed, ClaimKept,
    OneClaim, SeenToReclaim, InTime, Exists
<1>1. ASSUME NEW r \in Reqs, Execute(r) PROVE ClaimKept'
  BY <1>1 DEF Execute
<1>2. ASSUME NEW r \in Reqs, CreateProcessing(r) PROVE ClaimKept'
  BY <1>2, CreateStep
<1>3. ASSUME NEW r \in Reqs, CreateConflicts(r) PROVE ClaimKept'
  BY <1>3 DEF CreateConflicts
<1>4. ASSUME NEW r \in Reqs, ReadExisting(r) PROVE ClaimKept'
  BY <1>4 DEF ReadExisting, NotFound, Decide, Answered, ToReclaim, Found
<1>5. ASSUME NEW r \in Reqs, ReadLatest(r) PROVE ClaimKept'
  BY <1>5 DEF ReadLatest, NotFound, Decide, Answered, ToReclaim, Found
<1>6. ASSUME NEW r \in Reqs, ReclaimExpired(r) PROVE ClaimKept'
  BY <1>6, ReclaimStep DEF ReclaimExpired
<1>7. ASSUME NEW r \in Reqs, ReclaimFailed(r) PROVE ClaimKept'
  BY <1>7, ReclaimStep DEF ReclaimFailed, Answered
<1>8. ASSUME NEW r \in Reqs, StoreFails(r) PROVE ClaimKept'
  BY <1>8 DEF StoreFails, Answered
<1>9. ASSUME NEW r \in Reqs, ExecSucceeds(r) PROVE ClaimKept'
  BY <1>9 DEF ExecSucceeds
<1>10. ASSUME NEW r \in Reqs, ExecFails(r) PROVE ClaimKept'
  BY <1>10 DEF ExecFails
<1>11. ASSUME NEW r \in Reqs, StoreSuccess(r) PROVE ClaimKept'
  BY <1>11, SuccessStep, StoredIs DEF Over
<1>12. ASSUME NEW r \in Reqs, StoreFailure(r) PROVE ClaimKept'
  BY <1>12, FailureStep DEF Over
<1>13. ASSUME NEW r \in Reqs, Renew(r) PROVE ClaimKept'
  BY <1>13, RenewStep
<1>14. ASSUME NEW r \in Reqs, Crash(r) PROVE ClaimKept'
  BY <1>14 DEF Crash, Returned
<1>15. ASSUME CleanupOnce PROVE ClaimKept'
  BY <1>15, NoRowFields DEF CleanupOnce, Expired
<1>16. ASSUME Tick PROVE ClaimKept'
  BY <1>16 DEF Tick
<1>17. QED
  BY <1>1, <1>2, <1>3, <1>4, <1>5, <1>6, <1>7, <1>8, <1>9, <1>10, <1>11, <1>12, <1>13, <1>14,
     <1>15, <1>16 DEF Next

\* Nobody claims what another has claimed.
LEMMA OneClaimStep ==
    ASSUME RecordInv, ClaimInv, InTime, Next
    PROVE  OneClaim'
<1> USE Times, Types DEF RecordInv, TypeOK, ClaimInv, Timed, Claiming, Claimed, ClaimKept,
    OneClaim, SeenToReclaim, InTime, Exists
<1>1. ASSUME NEW r \in Reqs, Execute(r) PROVE OneClaim'
  BY <1>1 DEF Execute
<1>2. ASSUME NEW r \in Reqs, CreateProcessing(r) PROVE OneClaim'
  BY <1>2, CreateStep
<1>3. ASSUME NEW r \in Reqs, CreateConflicts(r) PROVE OneClaim'
  BY <1>3 DEF CreateConflicts
<1>4. ASSUME NEW r \in Reqs, ReadExisting(r) PROVE OneClaim'
  BY <1>4 DEF ReadExisting, NotFound, Decide, Answered, ToReclaim, Found
<1>5. ASSUME NEW r \in Reqs, ReadLatest(r) PROVE OneClaim'
  BY <1>5 DEF ReadLatest, NotFound, Decide, Answered, ToReclaim, Found
<1>6. ASSUME NEW r \in Reqs, ReclaimExpired(r) PROVE OneClaim'
  BY <1>6, ReclaimStep DEF ReclaimExpired
<1>7. ASSUME NEW r \in Reqs, ReclaimFailed(r) PROVE OneClaim'
  BY <1>7, ReclaimStep DEF ReclaimFailed, Answered
<1>8. ASSUME NEW r \in Reqs, StoreFails(r) PROVE OneClaim'
  BY <1>8 DEF StoreFails, Answered
<1>9. ASSUME NEW r \in Reqs, ExecSucceeds(r) PROVE OneClaim'
  BY <1>9 DEF ExecSucceeds
<1>10. ASSUME NEW r \in Reqs, ExecFails(r) PROVE OneClaim'
  BY <1>10 DEF ExecFails
<1>11. ASSUME NEW r \in Reqs, StoreSuccess(r) PROVE OneClaim'
  BY <1>11, SuccessStep, StoredIs DEF Over
<1>12. ASSUME NEW r \in Reqs, StoreFailure(r) PROVE OneClaim'
  BY <1>12, FailureStep DEF Over
<1>13. ASSUME NEW r \in Reqs, Renew(r) PROVE OneClaim'
  BY <1>13, RenewStep
<1>14. ASSUME NEW r \in Reqs, Crash(r) PROVE OneClaim'
  BY <1>14 DEF Crash, Returned
<1>15. ASSUME CleanupOnce PROVE OneClaim'
  BY <1>15, NoRowFields DEF CleanupOnce, Expired
<1>16. ASSUME Tick PROVE OneClaim'
  BY <1>16 DEF Tick
<1>17. QED
  BY <1>1, <1>2, <1>3, <1>4, <1>5, <1>6, <1>7, <1>8, <1>9, <1>10, <1>11, <1>12, <1>13, <1>14,
     <1>15, <1>16 DEF Next

\* The first effect stays alone while its record is kept.
LEMMA FirstEffectStep ==
    ASSUME RecordInv, ClaimInv, InTime, Next
    PROVE  FirstEffectKept'
<1> USE Times, Types DEF RecordInv, TypeOK, ClaimInv, FirstEffectKept
<1>1. ASSUME NEW r \in Reqs, Execute(r) PROVE FirstEffectKept'
  BY <1>1 DEF Execute
<1>2. ASSUME NEW r \in Reqs, CreateProcessing(r) PROVE FirstEffectKept'
  BY <1>2, CreateStep
<1>3. ASSUME NEW r \in Reqs, CreateConflicts(r) PROVE FirstEffectKept'
  BY <1>3 DEF CreateConflicts
<1>4. ASSUME NEW r \in Reqs, ReadExisting(r) PROVE FirstEffectKept'
  BY <1>4 DEF ReadExisting, NotFound, Decide, Answered, ToReclaim, Found
<1>5. ASSUME NEW r \in Reqs, ReadLatest(r) PROVE FirstEffectKept'
  BY <1>5 DEF ReadLatest, NotFound, Decide, Answered, ToReclaim, Found
<1>6. ASSUME NEW r \in Reqs, ReclaimExpired(r) PROVE FirstEffectKept'
  BY <1>6, ReclaimStep DEF ReclaimExpired
<1>7. ASSUME NEW r \in Reqs, ReclaimFailed(r) PROVE FirstEffectKept'
  BY <1>7, ReclaimStep DEF ReclaimFailed, Answered
<1>8. ASSUME NEW r \in Reqs, StoreFails(r) PROVE FirstEffectKept'
  BY <1>8 DEF StoreFails, Answered
<1>9. ASSUME NEW r \in Reqs, ExecSucceeds(r) PROVE FirstEffectKept'
  <2>1. PICK f \in Effect :
            /\ effects' = effects \cup {f} /\ f.by = r /\ f.claim = start[r] /\ f.at = clock
            /\ f.n = 1 <=> effects = {}
    BY <1>9, ExecStep
  <2>2. ASSUME NEW e \in effects, e.n = 1 PROVE clock >= e.claim + TTL
    BY <1>9, <2>2 DEF ExecSucceeds, FirstKept, Kept, Claimed, EffectsMade, Effect
  <2>3. QED BY <2>1, <2>2 DEF FirstEffectKept, Effect
<1>10. ASSUME NEW r \in Reqs, ExecFails(r) PROVE FirstEffectKept'
  BY <1>10 DEF ExecFails
<1>11. ASSUME NEW r \in Reqs, StoreSuccess(r) PROVE FirstEffectKept'
  BY <1>11, SuccessStep, StoredIs DEF Over
<1>12. ASSUME NEW r \in Reqs, StoreFailure(r) PROVE FirstEffectKept'
  BY <1>12, FailureStep DEF Over
<1>13. ASSUME NEW r \in Reqs, Renew(r) PROVE FirstEffectKept'
  BY <1>13, RenewStep
<1>14. ASSUME NEW r \in Reqs, Crash(r) PROVE FirstEffectKept'
  BY <1>14 DEF Crash, Returned
<1>15. ASSUME CleanupOnce PROVE FirstEffectKept'
  BY <1>15, NoRowFields DEF CleanupOnce, Expired
<1>16. ASSUME Tick PROVE FirstEffectKept'
  BY <1>16 DEF Tick
<1>17. QED
  BY <1>1, <1>2, <1>3, <1>4, <1>5, <1>6, <1>7, <1>8, <1>9, <1>10, <1>11, <1>12, <1>13, <1>14,
     <1>15, <1>16 DEF Next

\* Its record stays out of everybody's reach until then.
LEMMA FirstKeptStep ==
    ASSUME RecordInv, ClaimInv, InTime, Next
    PROVE  FirstKept'
<1> USE Times, Types DEF RecordInv, TypeOK, ClaimInv, FirstKept, Kept, Timed, ClaimKept,
    OneClaim, EffectsMade, SuccessBacked, SeenToReclaim, InTime, Exists, Claiming, Claimed,
    Effect
<1>1. ASSUME NEW r \in Reqs, Execute(r) PROVE FirstKept'
  BY <1>1 DEF Execute
<1>2. ASSUME NEW r \in Reqs, CreateProcessing(r) PROVE FirstKept'
  BY <1>2, CreateStep
<1>3. ASSUME NEW r \in Reqs, CreateConflicts(r) PROVE FirstKept'
  BY <1>3 DEF CreateConflicts
<1>4. ASSUME NEW r \in Reqs, ReadExisting(r) PROVE FirstKept'
  BY <1>4 DEF ReadExisting, NotFound, Decide, Answered, ToReclaim, Found
<1>5. ASSUME NEW r \in Reqs, ReadLatest(r) PROVE FirstKept'
  BY <1>5 DEF ReadLatest, NotFound, Decide, Answered, ToReclaim, Found
<1>6. ASSUME NEW r \in Reqs, ReclaimExpired(r) PROVE FirstKept'
  BY <1>6, ReclaimStep DEF ReclaimExpired
<1>7. ASSUME NEW r \in Reqs, ReclaimFailed(r) PROVE FirstKept'
  BY <1>7, ReclaimStep DEF ReclaimFailed, Answered
<1>8. ASSUME NEW r \in Reqs, StoreFails(r) PROVE FirstKept'
  BY <1>8 DEF StoreFails, Answered
<1>9. ASSUME NEW r \in Reqs, ExecSucceeds(r) PROVE FirstKept'
  <2>1. PICK f \in Effect :
            /\ effects' = effects \cup {f} /\ f.by = r /\ f.claim = start[r]
            /\ f.n = 1 <=> effects = {}
    BY <1>9, ExecStep
  <2>2. pc[r] = "exec" /\ pc' = [pc EXCEPT ![r] = "markSucceeded"] /\ UNCHANGED <<clock, row, start, seen>>
    BY <1>9 DEF ExecSucceeds
  <2>3. ASSUME NEW e \in effects, e.n = 1 PROVE clock >= e.claim + TTL
    BY <2>2, <2>3
  <2>4. ASSUME f.n = 1 PROVE Kept(f)'
    <3>1. effects = {} /\ \A s \in Reqs : seen[s].status # "succeeded"
      BY <2>1, <2>4
    <3>2. /\ Exists(row) /\ row.exp >= f.claim + TTL /\ row.status = "processing"
          /\ \A s \in Reqs : pc[s] = "reclaimExpired" => row.lock > start[s]
          /\ \A s \in Reqs : pc[s] \in Claimed => s = r
      BY <2>1, <2>2
    <3>3. QED BY <2>1, <2>2, <3>1, <3>2
  <2>5. QED BY <2>1, <2>2, <2>3, <2>4
<1>10. ASSUME NEW r \in Reqs, ExecFails(r) PROVE FirstKept'
  BY <1>10 DEF ExecFails
<1>11. ASSUME NEW r \in Reqs, StoreSuccess(r) PROVE FirstKept'
  <2>1. /\ pc[r] = "markSucceeded" /\ pc' = [pc EXCEPT ![r] = "done"]
        /\ UNCHANGED <<clock, start, seen, effects>> /\ row'.id = row.id
        /\ \/ row' = row
           \/ row'.status = "succeeded" /\ row'.exp = ExpiresAt(r)
    BY <1>11, SuccessStep DEF Over
  <2>2. ExpiresAt(r) >= start[r] + TTL
    BY <2>1 DEF ExpiresAt
  <2>3. ASSUME NEW e \in effects, e.n = 1, Kept(e) PROVE Kept(e)'
    <3>1. e.by = r /\ e.claim = start[r]
      BY <2>1, <2>3
    <3>2. QED BY <2>1, <2>2, <2>3, <3>1
  <2>4. QED BY <2>1, <2>3
<1>12. ASSUME NEW r \in Reqs, StoreFailure(r) PROVE FirstKept'
  BY <1>12, FailureStep DEF Over
<1>13. ASSUME NEW r \in Reqs, Renew(r) PROVE FirstKept'
  BY <1>13, RenewStep
<1>14. ASSUME NEW r \in Reqs, Crash(r) PROVE FirstKept'
  BY <1>14 DEF Crash, Returned
<1>15. ASSUME CleanupOnce PROVE FirstKept'
  BY <1>15, NoRowFields DEF CleanupOnce, Expired
<1>16. ASSUME Tick PROVE FirstKept'
  BY <1>16 DEF Tick
<1>17. QED
  BY <1>1, <1>2, <1>3, <1>4, <1>5, <1>6, <1>7, <1>8, <1>9, <1>10, <1>11, <1>12, <1>13, <1>14,
     <1>15, <1>16 DEF Next

\* Every step keeps all of it.
LEMMA ClaimStep ==
    ASSUME RecordInv, ClaimInv, InTime, [Next]_vars
    PROVE  ClaimInv'
<1>1. CASE Next
  BY <1>1, TimedStep, ClaimKeptStep, OneClaimStep, FirstKeptStep, FirstEffectStep DEF ClaimInv
<1>2. CASE UNCHANGED vars
  <2> USE <1>2 DEF vars
  <2>1. Timed' = Timed /\ ClaimKept' = ClaimKept /\ OneClaim' = OneClaim
    BY DEF Timed, ClaimKept, OneClaim, Exists
  <2>2. FirstKept' = FirstKept /\ FirstEffectKept' = FirstEffectKept
    BY DEF FirstKept, Kept, FirstEffectKept, Exists
  <2>3. QED BY <2>1, <2>2 DEF ClaimInv
<1>3. QED BY <1>1, <1>2

-----------------------------------------------------------------------------
(* The theorems *)

\* Whatever the times, records, ids and effects fit together.
THEOREM RecordInvariance == Spec => []RecordInv
<1>1. Init => RecordInv
  BY InitStep
<1>2. RecordInv /\ [Next]_vars => RecordInv'
  BY RecordStep
<1>3. QED BY <1>1, <1>2, PTL DEF Spec

\* A replay answers with what an execution for the same method, route, actor and
\* payload returned, whatever the times, what crashed and what could not be stored.
THEOREM Replays == Spec => []ReplayFaithful
<1>1. RecordInv => ReplayFaithful
  BY DEF RecordInv
<1>2. QED BY RecordInvariance, <1>1, PTL

\* In time, the whole invariant is kept.
THEOREM Invariance ==
    ASSUME InTime
    PROVE  Spec => []IInv
<1>1. Init => IInv
  BY InitStep DEF IInv
<1>2. IInv /\ [Next]_vars => IInv'
  BY InTime, RecordStep, ClaimStep DEF IInv
<1>3. QED BY <1>1, <1>2, PTL DEF Spec

\* In time, nobody starts the business function or stores its outcome while another
\* request is still at it.
THEOREM ClaimsAlone ==
    ASSUME InTime
    PROVE  Spec => []OneClaim
<1>1. IInv => OneClaim
  BY DEF IInv, ClaimInv
<1>2. Spec => []IInv
  BY InTime, Invariance
<1>3. QED BY <1>1, <1>2, PTL

\* In time, the business function does not take effect twice while the record of its
\* first effect is to be kept.
THEOREM TakesEffectOnce ==
    ASSUME InTime
    PROVE  Spec => []FirstEffectKept
<1>1. IInv => FirstEffectKept
  BY DEF IInv, ClaimInv
<1>2. Spec => []IInv
  BY InTime, Invariance
<1>3. QED BY <1>1, <1>2, PTL
================================================================================
