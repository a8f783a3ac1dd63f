---------------------------- MODULE Idempotency ----------------------------
(***************************************************************************)
(* IdempotencyCoordinator.Execute for the requests that carry one          *)
(* Idempotency-Key in one scope: claim the key's record, run the business  *)
(* function, store what it returned, and answer later requests from the    *)
(* record.  Requests without a key run the function unprotected and are    *)
(* left out.                                                               *)
(*                                                                         *)
(* Every call to the store is a step of its own.  Execute reads the clock  *)
(* once before its first call and decides with that value throughout; the  *)
(* clock may not advance past the time its calls take (CallTime) or the    *)
(* business function takes (ExecTime).                                     *)
(***************************************************************************)
EXTENDS IdempotencyStore, FiniteSets

CONSTANTS
    Reqs,       \* the requests with the key
    Fp,         \* the fingerprint of each: method, route, actor and payload
    Oversized,  \* those whose response exceeds MaxStoredResponseLen
    Detached,   \* whether the route sets ExecutionTimeout
    Lease,      \* ProcessingTimeout
    TTL,        \* the record's time to live
    Backoff,    \* FailedRetryBackoff
    CallTime,   \* what claiming, or storing the outcome, takes at most
    ExecTime,   \* from the clock reading to the end of the business function
    MaxTime     \* bound on the clock

ASSUME TimesAssumption ==
    /\ Lease \in Nat \ {0} /\ TTL \in Nat \ {0} /\ Backoff \in Nat \ {0}
    /\ CallTime \in Nat /\ ExecTime \in Nat /\ MaxTime \in Nat
    /\ CallTime <= ExecTime

ASSUME RequestsAssumption ==
    /\ Fp \in [Reqs -> Nat \ {0}] /\ Oversized \subseteq Reqs /\ Detached \in BOOLEAN

VARIABLES
    clock,      \* time.Now()
    row,        \* the record of the key
    lastId,     \* the highest id the table has handed out
    pc,         \* where each request is
    start,      \* the clock as Execute read it
    seen,       \* the record as the request last read it
    rid,        \* record.ID of a request that claimed
    ended,      \* the clock when the business function returned
    result,     \* what Execute returned
    effects     \* the executions that succeeded, in the order n

vars == <<clock, row, lastId, pc, start, seen, rid, ended, result, effects>>

Claiming  == {"create", "read", "reclaimExpired", "reread", "reclaimFailed"}
Claimed   == {"exec", "markSucceeded", "markFailed"}
Results   == {"none", "ok", "replay", "error", "inProgress", "backoff", "keyConflict",
              "unavailable", "crashed"}

\* n numbers the execution; claim is the clock reading its claim was made
\* with and at the time it took effect.
Effect == [by : Reqs, n : Nat, fp : Nat, claim : Nat, at : Nat]

TypeOK ==
    /\ clock \in Nat
    /\ row \in Row
    /\ lastId \in Nat
    /\ pc \in [Reqs -> {"idle", "done"} \cup Claiming \cup Claimed]
    /\ start \in [Reqs -> Nat]
    /\ seen \in [Reqs -> Row]
    /\ rid \in [Reqs -> Nat]
    /\ ended \in [Reqs -> Nat]
    /\ result \in [Reqs -> Results]
    /\ effects \subseteq Effect

Init ==
    /\ clock = 1
    /\ row = NoRow
    /\ lastId = 0
    /\ pc = [r \in Reqs |-> "idle"]
    /\ start = [r \in Reqs |-> 0]
    /\ seen = [r \in Reqs |-> NoRow]
    /\ rid = [r \in Reqs |-> 0]
    /\ ended = [r \in Reqs |-> 0]
    /\ result = [r \in Reqs |-> "none"]
    /\ effects = {}

-----------------------------------------------------------------------------
(* Claiming the record *)

Execute(r) ==
    /\ pc[r] = "idle"
    /\ pc' = [pc EXCEPT ![r] = "create"]
    /\ start' = [start EXCEPT ![r] = clock]
    /\ UNCHANGED <<clock, row, lastId, seen, rid, ended, result, effects>>

\* Execute returns res before the business function has run.
Answered(r, res) ==
    /\ pc' = [pc EXCEPT ![r] = "done"]
    /\ result' = [result EXCEPT ![r] = res]
    /\ UNCHANGED <<clock, row, lastId, start, rid, ended, effects>>

CreateProcessing(r) ==
    /\ pc[r] = "create"
    /\ ~Exists(row)
    /\ row' = Inserted(lastId + 1, Fp[r], start[r] + Lease, start[r] + TTL)
    /\ lastId' = lastId + 1
    /\ rid' = [rid EXCEPT ![r] = lastId + 1]
    /\ pc' = [pc EXCEPT ![r] = "exec"]
    /\ UNCHANGED <<clock, start, seen, ended, result, effects>>

CreateConflicts(r) ==
    /\ pc[r] = "create"
    /\ Exists(row)
    /\ pc' = [pc EXCEPT ![r] = "read"]
    /\ UNCHANGED <<clock, row, lastId, start, seen, rid, ended, result, effects>>

ToReclaim(r, where) ==
    /\ pc' = [pc EXCEPT ![r] = where]
    /\ UNCHANGED <<clock, row, lastId, start, rid, ended, result, effects>>

\* Mutant: a processing record whose lock has passed is up for grabs.
DecideByLock(r) ==
    \/ /\ row.status = "succeeded"
       /\ Answered(r, IF row.body = 0 THEN "unavailable" ELSE "replay")
    \/ /\ row.status # "succeeded"
       /\ row.lock > start[r]
       /\ Answered(r, "inProgress")
    \/ /\ row.status # "succeeded"
       /\ row.lock <= start[r]
       /\ ToReclaim(r, "reclaimFailed")

\* The switch on the status of a record that is not to be reclaimed as
\* expired.  A stored response that was cut off does not decode.
Decide(r) ==
    \/ /\ row.status = "succeeded"
       /\ Answered(r, IF row.body = 0 THEN "unavailable" ELSE "replay")
    \/ /\ row.status = "processing"
       /\ Answered(r, "inProgress")
    \/ /\ row.status = "failed_retryable"
       /\ row.lock > start[r]
       /\ Answered(r, "backoff")
    \/ /\ row.status = "failed_retryable"
       /\ row.lock <= start[r]
       /\ ToReclaim(r, "reclaimFailed")

\* Mutant: a retry gets the stored answer whatever it asks for.
FoundAnyPayload(r) == Exists(row)

\* What both reads check before they use the record.
Found(r) == Exists(row) /\ row.fp = Fp[r]

NotFound(r) ==
    \/ ~Exists(row) /\ Answered(r, "unavailable")
    \/ Exists(row) /\ ~Found(r) /\ Answered(r, "keyConflict")

ReadExisting(r) ==
    /\ pc[r] = "read"
    /\ seen' = [seen EXCEPT ![r] = row]
    /\ \/ NotFound(r)
       \/ Found(r) /\ row.exp <= start[r] /\ ToReclaim(r, "reclaimExpired")
       \/ Found(r) /\ row.exp > start[r] /\ Decide(r)

\* After a lost race for an expired record.
ReadLatest(r) ==
    /\ pc[r] = "reread"
    /\ seen' = [seen EXCEPT ![r] = row]
    /\ \/ NotFound(r)
       \/ Found(r) /\ Decide(r)

CanReclaim(r) == Reclaimable(row, seen[r].id, seen[r].status, start[r])

Reclaim(r) ==
    /\ CanReclaim(r)
    /\ row' = Reclaimed(row, start[r] + Lease, start[r] + TTL)
    /\ rid' = [rid EXCEPT ![r] = row.id]
    /\ pc' = [pc EXCEPT ![r] = "exec"]
    /\ UNCHANGED <<clock, lastId, start, seen, ended, result, effects>>

ReclaimExpired(r) ==
    /\ pc[r] = "reclaimExpired"
    /\ \/ Reclaim(r)
       \/ /\ ~CanReclaim(r)
          /\ pc' = [pc EXCEPT ![r] = "reread"]
          /\ UNCHANGED <<clock, row, lastId, start, seen, rid, ended, result, effects>>

ReclaimFailed(r) ==
    /\ pc[r] = "reclaimFailed"
    /\ \/ Reclaim(r)
       \/ ~CanReclaim(r) /\ Answered(r, "inProgress") /\ UNCHANGED seen

StoreFails(r) ==
    /\ pc[r] \in Claiming
    /\ Answered(r, "unavailable")
    /\ UNCHANGED seen

-----------------------------------------------------------------------------
(* The business function and its outcome *)

ExecSucceeds(r) ==
    /\ pc[r] = "exec"
    /\ effects' = effects \cup {[by |-> r, n |-> Cardinality(effects) + 1, fp |-> Fp[r],
                                 claim |-> start[r], at |-> clock]}
    /\ pc' = [pc EXCEPT ![r] = "markSucceeded"]
    /\ ended' = [ended EXCEPT ![r] = clock]
    /\ UNCHANGED <<clock, row, lastId, start, seen, rid, result>>

ExecFails(r) ==
    /\ pc[r] = "exec"
    /\ pc' = [pc EXCEPT ![r] = "markFailed"]
    /\ ended' = [ended EXCEPT ![r] = clock]
    /\ UNCHANGED <<clock, row, lastId, start, seen, rid, result, effects>>

\* Only a detached execution dates the record from its end.
ExpiresAt(r) == (IF Detached THEN ended[r] ELSE start[r]) + TTL

\* The response of r's execution; 0 stands for one cut off to
\* MaxStoredResponseLen.
Stored(r) == IF r \in Oversized THEN 0 ELSE (CHOOSE e \in effects : e.by = r).n

Returned(r, res) ==
    /\ pc' = [pc EXCEPT ![r] = "done"]
    /\ result' = [result EXCEPT ![r] = res]
    /\ UNCHANGED <<clock, lastId, start, seen, rid, ended, effects>>

\* Mutant: a success that cannot be stored is marked for retry.
StoreSuccessOrRetry(r) ==
    /\ pc[r] = "markSucceeded"
    /\ \/ /\ row' = MarkSucceeded(row, rid[r], Stored(r), ExpiresAt(r))
          /\ Returned(r, "ok")
       \/ /\ row' = MarkFailedRetryable(row, rid[r], ended[r] + Backoff, ExpiresAt(r))
          /\ Returned(r, "unavailable")

\* Storing the outcome of a success may fail, as may encoding it: the record
\* then stays processing and the request fails although it took effect.
StoreSuccess(r) ==
    /\ pc[r] = "markSucceeded"
    /\ \/ /\ row' = MarkSucceeded(row, rid[r], Stored(r), ExpiresAt(r))
          /\ Returned(r, "ok")
       \/ /\ row' = row
          /\ Returned(r, "unavailable")

StoreFailure(r) ==
    /\ pc[r] = "markFailed"
    /\ row' \in {MarkFailedRetryable(row, rid[r], ended[r] + Backoff, ExpiresAt(r)), row}
    /\ Returned(r, "error")

\* A tick of renewProcessingLease, which only detached executions start.
Renew(r) ==
    /\ Detached
    /\ pc[r] \in Claimed
    /\ Extendable(row, rid[r], Fp[r])
    /\ row' = Extended(row, clock + Lease, clock + TTL)
    /\ UNCHANGED <<clock, lastId, pc, start, seen, rid, ended, result, effects>>

Crash(r) ==
    /\ pc[r] \in Claiming \cup Claimed
    /\ row' = row
    /\ Returned(r, "crashed")

CleanupOnce ==
    /\ Expired(row, clock)
    /\ row' = NoRow
    /\ UNCHANGED <<clock, lastId, pc, start, seen, rid, ended, result, effects>>

HasTime(r) ==
    /\ pc[r] \in Claiming => clock < start[r] + CallTime
    /\ pc[r] = "exec" => clock < start[r] + ExecTime
    /\ pc[r] \in {"markSucceeded", "markFailed"} => clock < ended[r] + CallTime

Tick ==
    /\ clock < MaxTime
    /\ \A r \in Reqs : HasTime(r)
    /\ clock' = clock + 1
    /\ UNCHANGED <<row, lastId, pc, start, seen, rid, ended, result, effects>>

Next ==
    \/ \E r \in Reqs :
        \/ Execute(r) \/ CreateProcessing(r) \/ CreateConflicts(r)
        \/ ReadExisting(r) \/ ReadLatest(r)
        \/ ReclaimExpired(r) \/ ReclaimFailed(r) \/ StoreFails(r)
        \/ ExecSucceeds(r) \/ ExecFails(r)
        \/ StoreSuccess(r) \/ StoreFailure(r) \/ Renew(r) \/ Crash(r)
    \/ CleanupOnce
    \/ Tick

Spec == Init /\ [][Next]_vars

-----------------------------------------------------------------------------
(* Properties *)

\* At most one request holds the claim on the record at a time: nobody
\* starts the business function, or overwrites the record with its outcome,
\* while another is still at it.
OneClaim == \A r, s \in Reqs : pc[r] \in Claimed /\ pc[s] \in Claimed => r = s

\* After the first success a key ever has, the business function does not take
\* effect again while its record is to be kept, TTL from its claim: not by
\* concurrent requests, retries, or after a crash, whatever cannot be stored.
FirstEffectKept == \A e, f \in effects : e.n = 1 /\ f.n > 1 => f.at >= e.claim + TTL

\* A replay answers with the response of an execution that succeeded for the
\* same method, route, actor and payload.
ReplayFaithful ==
    \A r \in Reqs : result[r] = "replay" =>
        \E e \in effects : e.n = seen[r].body /\ e.fp = Fp[r]

-----------------------------------------------------------------------------
(* What makes them inductive, and what the times must be for it *)

\* A claim takes less than the lock lasts, an execution with the storing of its
\* outcome less than the record is kept: 30 s and a day as configured.
InTime == CallTime < Lease /\ ExecTime + CallTime < TTL

\* Execute's clock reading is as old as the calls since may take.
Timed ==
    \A r \in Reqs :
        /\ start[r] <= clock /\ ended[r] <= clock
        /\ pc[r] \in Claiming => clock <= start[r] + CallTime
        /\ pc[r] = "exec" => clock <= start[r] + ExecTime
        /\ pc[r] \in {"markSucceeded", "markFailed"} =>
            start[r] <= ended[r] /\ ended[r] <= start[r] + ExecTime /\ clock <= ended[r] + CallTime

\* An id stands for one record, whose fingerprint never changes and is that of
\* every request that claimed it.
Numbered ==
    /\ row.id <= lastId
    /\ \A r \in Reqs : seen[r].id <= lastId /\ rid[r] <= lastId
    /\ \A r \in Reqs : Exists(row) /\ seen[r].id = row.id => seen[r].fp = row.fp
    /\ \A r \in Reqs : Exists(row) /\ pc[r] \in Claimed /\ rid[r] = row.id => row.fp = Fp[r]

\* What a request has found before it reclaims.
SeenToReclaim ==
    /\ \A r \in Reqs : pc[r] \in {"reclaimExpired", "reclaimFailed"} => seen[r].fp = Fp[r]
    /\ \A r \in Reqs : pc[r] = "reclaimFailed" => seen[r].status = "failed_retryable"

\* The record of a request that claimed is its own, is to be kept for longer, and
\* is locked against everybody who found it expired.
ClaimKept ==
    \A r \in Reqs : pc[r] \in Claimed =>
        /\ Exists(row) /\ row.id = rid[r] /\ row.status = "processing"
        /\ row.exp >= start[r] + TTL
        /\ \A s \in Reqs : pc[s] = "reclaimExpired" => row.lock > start[s]

\* Each request has at most one effect, made with its own claim and payload.
EffectsMade ==
    /\ IsFiniteSet(effects)
    /\ \A e \in effects : /\ e.n # 0 /\ e.fp = Fp[e.by] /\ e.claim = start[e.by]
                          /\ pc[e.by] \in {"markSucceeded", "done"}
    /\ \A r \in Reqs : pc[r] = "markSucceeded" => \E e \in effects : e.by = r

\* A record that says succeeded, or was seen to, has an effect behind it.
SuccessBacked ==
    /\ row.status = "succeeded" =>
        row.body = 0 \/ \E e \in effects : e.n = row.body /\ e.fp = row.fp
    /\ effects = {} => row.status # "succeeded" /\ \A r \in Reqs : seen[r].status # "succeeded"

\* Until TTL from the claim of effect e nobody but its request holds the record,
\* and nobody can take it.
Kept(e) ==
    /\ Exists(row) /\ row.exp >= e.claim + TTL /\ row.status \in {"processing", "succeeded"}
    /\ \A s \in Reqs : pc[s] \in Claimed => s = e.by
    /\ \A s \in Reqs : pc[s] = "reclaimExpired" =>
        /\ seen[s].status # "succeeded"
        /\ row.status = "processing" => row.lock > start[s]

FirstKept == \A e \in effects : e.n = 1 => clock >= e.claim + TTL \/ Kept(e)

Answers == \A r \in Reqs : result[r] # "none" => pc[r] = "done"

\* The part that holds whatever the times, and the part that needs InTime.
RecordInv ==
    TypeOK /\ Numbered /\ SeenToReclaim /\ EffectsMade /\ SuccessBacked /\ Answers /\ ReplayFaithful
ClaimInv == Timed /\ ClaimKept /\ OneClaim /\ FirstKept /\ FirstEffectKept
IInv == RecordInv /\ ClaimInv
============================================================================
