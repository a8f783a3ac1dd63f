SPECIFICATION Spec
CONSTANTS
    r1 = r1
    r2 = r2
    r3 = r3
    Reqs = {r1, r2, r3}
    Fp <- OtherPayload
    Oversized = {r2}
    Detached = TRUE
    Lease = 2
    TTL = 4
    Backoff = 1
    CallTime = 1
    ExecTime = 2
    MaxTime = 8
INVARIANT FirstEffectKept OneClaim ReplayFaithful
CHECK_DEADLOCK FALSE
