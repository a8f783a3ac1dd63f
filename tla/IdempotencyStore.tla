-------------------------- MODULE IdempotencyStore --------------------------
(***************************************************************************)
(* The statements idempotency_repo.go runs on the row of ONE               *)
(* (scope, idempotency_key_hash) pair of idempotency_records.  Each is a   *)
(* single SQL statement, so each is one atomic function of the row.  The   *)
(* idempotency coordinator and the system operation lock both use them.    *)
(*                                                                         *)
(* Times are naturals; 0 stands for a NULL locked_until, which every       *)
(* comparison in the code treats like a time that has passed.  Of a        *)
(* fingerprint only equality matters, and of a stored response the         *)
(* execution that produced it: both are numbers, 0 for none.               *)
(***************************************************************************)
EXTENDS Naturals

Statuses == {"processing", "succeeded", "failed_retryable"}

\* The record, and its absence: ids the table hands out start at 1.
Row == [id : Nat, fp : Nat, status : Statuses, body : Nat, lock : Nat, exp : Nat]

NoRow == [id |-> 0, fp |-> 0, status |-> "processing", body |-> 0, lock |-> 0, exp |-> 0]

Exists(row) == row.id # 0

\* INSERT ... ON CONFLICT DO NOTHING, where the insert happens.
Inserted(id, fp, lock, exp) ==
    [id |-> id, fp |-> fp, status |-> "processing", body |-> 0, lock |-> lock, exp |-> exp]

\* The WHERE clause of TryReclaim, and what it sets.  It leaves
\* request_fingerprint, response_status and response_body alone.
Reclaimable(row, id, fromStatus, now) ==
    Exists(row) /\ row.id = id /\ row.status = fromStatus /\ row.lock <= now

Reclaimed(row, lock, exp) ==
    [row EXCEPT !.status = "processing", !.lock = lock, !.exp = exp]

Extendable(row, id, fp) ==
    Exists(row) /\ row.id = id /\ row.status = "processing" /\ row.fp = fp

Extended(row, lock, exp) == [row EXCEPT !.lock = lock, !.exp = exp]

\* The two marks look at the id only.
MarkSucceeded(row, id, body, exp) ==
    IF Exists(row) /\ row.id = id
    THEN [row EXCEPT !.status = "succeeded", !.body = body, !.lock = 0, !.exp = exp]
    ELSE row

MarkFailedRetryable(row, id, lock, exp) ==
    IF Exists(row) /\ row.id = id
    THEN [row EXCEPT !.status = "failed_retryable", !.lock = lock, !.exp = exp]
    ELSE row

\* The WHERE clause of DeleteExpired; the batch limit is left out.
Expired(row, now) == Exists(row) /\ row.exp <= now
=============================================================================
