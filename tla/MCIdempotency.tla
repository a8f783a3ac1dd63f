--------------------------- MODULE MCIdempotency ---------------------------
(* Instances of Idempotency for TLC: requests with one key, of which r3 may *)
(* carry another payload.                                                   *)
EXTENDS Idempotency, TLC

CONSTANTS r1, r2, r3

OtherPayload == [r \in Reqs |-> IF r = r3 THEN 2 ELSE 1]
=============================================================================
