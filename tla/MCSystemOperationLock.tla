----------------------- MODULE MCSystemOperationLock -----------------------
(* Instances of SystemOperationLock for TLC: three requests, two of which   *)
(* are retries with one Idempotency-Key and share an operation id.          *)
EXTENDS SystemOperationLock, TLC

CONSTANTS o1, o2, o3

RetriedId == (o1 :> 1) @@ (o2 :> 2) @@ (o3 :> 1)
=============================================================================
