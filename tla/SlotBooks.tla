-------------------------------- MODULE SlotBooks --------------------------------
(***************************************************************************)
(* The books on the slots of one user, or of one account: the three keys   *)
(* in Redis, where each request is, and what the keys and the requests     *)
(* owe each other.  ConcurrencySlots says how they change.                 *)
(***************************************************************************)
EXTENDS Naturals, FiniteSets

CONSTANTS
    Requests,      \* ordinary gateway requests
    Calls,         \* requests that create a Live call
    Max            \* maxConcurrency

VARIABLES
    slots,     \* members of concurrency:user:<id> (or :account:)
    live,      \* members of its Live set: leases <<call, attempt>>
    waiting,   \* value of the wait counter
    place,     \* the label each request is at
    attempt,   \* number of the account a Live call is tried with
    overrun,   \* requests that outlived their entry
    failures, crashes

\* Labels of a request that waits, of one that holds an entry of slots, and of
\* one that holds a lease.
WaitLabels == {"poll", "granted", "leave"}
SlotLabels == {"granted", "running", "lease", "create", "created", "undo", "release"}
LeaseLabels == {"create", "created", "undo", "session", "releaseLive"}

At(labels) == {p \in Requests \cup Calls : place[p] \in labels}
Lease(p) == <<p, attempt[p]>>

\* The requests and sessions that use the resource.
Occupants == At({"granted", "running", "lease", "create", "created", "session"})

\* No more requests and Live sessions use the resource than its limit allows,
\* whatever fails: only those that outlive the TTL of their entry are not counted
\* (acquireScript, acquireLiveLeaseScript).
LimitRespected == Cardinality(Occupants \ overrun) <= Max

\* The counter of waiters never drops below those who wait, but for the ones who
\* wait although Redis did not count them; and when nothing failed, crashed or
\* outlived its TTL the three keys say exactly who is there: every way out of a
\* request gives back what it took, once.
Accounted ==
    /\ Cardinality(At(WaitLabels)) <= waiting + failures
    /\ failures = 0 /\ crashes = 0 /\ overrun = {} =>
        /\ slots = At(SlotLabels)
        /\ live = {Lease(p) : p \in At(LeaseLabels)}
        /\ waiting = Cardinality(At(WaitLabels))
=================================================================================
