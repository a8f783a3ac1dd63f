--------------------------- MODULE ConcurrencySlots ---------------------------
(***************************************************************************)
(* The slots of one user, or of one account, in Redis: a sorted set of the *)
(* requests under way, a sorted set of the leases of Live calls, and the   *)
(* counter of the requests that wait for a slot.  Both kinds of resources  *)
(* have the same scripts and the same order of calls around them.          *)
(*                                                                         *)
(* A step is one script, or one event in the life of a request.            *)
(***************************************************************************)
EXTENDS SlotBooks

CONSTANTS
    Instances,     \* the sets of requests that one instance serves
    MaxWait,       \* limit of the wait queue
    MaxAttempts,   \* accounts tried for one Live call
    MaxFaults,     \* bound: Redis calls that fail
    MaxCrashes,    \* bound: instances that crash
    MaxOverruns    \* bound: requests that outlive the TTL of their entry

ASSUME SlotsAssumption ==
    /\ IsFiniteSet(Requests) /\ IsFiniteSet(Calls) /\ Requests \cap Calls = {}
    /\ Instances \subseteq SUBSET (Requests \cup Calls)
    /\ Max \in Nat \ {0} /\ MaxWait \in Nat \ {0} /\ MaxAttempts \in Nat \ {0}
    /\ {MaxFaults, MaxCrashes, MaxOverruns} \subseteq Nat

redisVars == <<slots, live, waiting>>
bounds == <<overrun, failures, crashes>>
vars == <<redisVars, place, attempt, bounds>>

Procs == Requests \cup Calls

Labels == WaitLabels \cup SlotLabels \cup LeaseLabels \cup {"try", "increment", "done", "dead"}

Init ==
    /\ slots = {} /\ live = {} /\ waiting = 0
    /\ place = [p \in Procs |-> "try"]
    /\ attempt = [p \in Calls |-> 1]
    /\ overrun = {} /\ failures = 0 /\ crashes = 0

Goto(p, label) == place' = [place EXCEPT ![p] = label]

\* A call that fails may have been executed, when only its answer is lost (also
\* because the request that made it is cancelled meanwhile).
Works == UNCHANGED bounds
Fails == failures < MaxFaults /\ failures' = failures + 1 /\ UNCHANGED <<overrun, crashes>>

-----------------------------------------------------------------------------
(* acquireScript; the entries whose TTL is over have gone, see SlotExpires *)

\* Mutant of HasRoom: Live calls are not counted.
HasRoomWithoutLive == Cardinality(slots) < Max

HasRoom == Cardinality(slots) + Cardinality(live) < Max

\* acquireScript when there is room.
Enter(p) == HasRoom /\ slots' = slots \cup {p}

\* The first attempt.  Whoever gets no slot waits; a Live call does not.
TryAcquire(p) ==
    /\ place[p] = "try"
    /\ \/ Works /\ Enter(p) /\ Goto(p, IF p \in Calls THEN "lease" ELSE "running")
       \/ Works /\ ~HasRoom /\ UNCHANGED slots /\ Goto(p, IF p \in Calls THEN "done" ELSE "increment")
       \/ Fails /\ (Enter(p) \/ UNCHANGED slots) /\ Goto(p, "done")
    /\ UNCHANGED <<live, waiting, attempt>>

-----------------------------------------------------------------------------
(* The wait queue *)

\* Mutant of IncrementWait: the counter goes down before the wait and not after.
WaitUncounted(p) ==
    /\ place[p] = "increment"
    /\ \/ Works /\ waiting < MaxWait /\ UNCHANGED waiting /\ Goto(p, "poll")
       \/ Fails /\ UNCHANGED waiting /\ Goto(p, "poll")
    /\ UNCHANGED <<slots, live, attempt>>

\* incrementWaitScript.  The service lets a request wait when the script fails.
IncrementWait(p) ==
    /\ place[p] = "increment"
    /\ \/ Works /\ waiting < MaxWait /\ waiting' = waiting + 1 /\ Goto(p, "poll")
       \/ Works /\ waiting >= MaxWait /\ UNCHANGED waiting /\ Goto(p, "done")
       \/ Fails /\ waiting < MaxWait /\ waiting' = waiting + 1 /\ Goto(p, "poll")
       \/ Fails /\ UNCHANGED waiting /\ Goto(p, "poll")
    /\ UNCHANGED <<slots, live, attempt>>

\* waitForSlotWithPingTimeout: the timer tries again; an error ends the wait.
Poll(p) ==
    /\ place[p] = "poll"
    /\ \/ Works /\ Enter(p) /\ Goto(p, "granted")
       \/ Fails /\ (Enter(p) \/ UNCHANGED slots) /\ Goto(p, "leave")
    /\ UNCHANGED <<live, waiting, attempt>>

\* Mutant of GiveUpWaiting: a return in front of the deferred decrement.
GiveUpCounted(p) ==
    /\ place[p] = "poll"
    /\ Goto(p, "done") /\ Works
    /\ UNCHANGED <<redisVars, attempt>>

\* The wait times out, or the client leaves.
GiveUpWaiting(p) ==
    /\ place[p] = "poll"
    /\ Goto(p, "leave") /\ Works
    /\ UNCHANGED <<redisVars, attempt>>

\* decrementWaitScript; its failure is logged only.
DecrementWait(p) ==
    /\ place[p] \in {"granted", "leave"}
    /\ \/ Works /\ waiting' = IF waiting > 0 THEN waiting - 1 ELSE 0
       \/ Fails /\ waiting' = IF waiting > 0 THEN waiting - 1 ELSE 0
       \/ Fails /\ UNCHANGED waiting
    /\ Goto(p, IF place[p] = "granted" THEN "running" ELSE "done")
    /\ UNCHANGED <<slots, live, attempt>>

-----------------------------------------------------------------------------
(* The end of a request *)

\* The handler returns, or the client leaves: wrapReleaseOnDone runs the release
\* once for both.  What the forward to the provider does after the client has
\* left is not counted by the code, nor here.
Finish(p) ==
    /\ place[p] = "running"
    /\ Goto(p, "release") /\ Works
    /\ UNCHANGED <<redisVars, attempt>>

\* ReleaseUserSlot; a failure leaves the entry to its TTL.  A Live call gives its
\* slot back when its session is under way, or when it was not created.
Release(p) ==
    /\ place[p] \in {"release", "created"}
    /\ \/ Works /\ slots' = slots \ {p}
       \/ Fails /\ (slots' = slots \ {p} \/ UNCHANGED slots)
    /\ Goto(p, IF place[p] = "created" THEN "session" ELSE "done")
    /\ UNCHANGED <<live, waiting, attempt>>

-----------------------------------------------------------------------------
(* The Live call: its lease replaces the slot its creator holds *)

\* acquireLiveLeaseScript: the slot of the creator is allowed for.
HasRoomForLease == Cardinality(slots) + Cardinality(live) < Max + 1
EnterLease(p) == HasRoomForLease /\ live' = live \cup {Lease(p)}

AcquireLease(p) ==
    /\ place[p] = "lease"
    /\ \/ Works /\ EnterLease(p) /\ Goto(p, "create")
       \/ Works /\ ~HasRoomForLease /\ UNCHANGED live /\ Goto(p, "release")
       \/ Fails /\ (EnterLease(p) \/ UNCHANGED live) /\ Goto(p, "release")
    /\ UNCHANGED <<slots, waiting, attempt>>

\* The call at the provider; what follows it up to the session is LiveCall's part.
CreateUpstream(p) ==
    /\ place[p] = "create"
    /\ \/ Goto(p, "created")
       \/ Goto(p, "undo")
    /\ Works
    /\ UNCHANGED <<redisVars, attempt>>

DropLease(p) ==
    \/ Works /\ live' = live \ {Lease(p)}
    \/ Fails /\ (live' = live \ {Lease(p)} \/ UNCHANGED live)

\* The lease of a call that was not created; another account may be tried.
UndoLease(p) ==
    /\ place[p] = "undo"
    /\ DropLease(p)
    /\ \/ Goto(p, "release") /\ UNCHANGED attempt
       \/ /\ attempt[p] < MaxAttempts
          /\ attempt' = [attempt EXCEPT ![p] = @ + 1]
          /\ Goto(p, "lease")
    /\ UNCHANGED <<slots, waiting>>

\* The session ends, at ExpiresAt at the latest, or at a refresh that finds the
\* lease gone.
EndSession(p) ==
    /\ place[p] = "session"
    /\ Goto(p, "releaseLive") /\ Works
    /\ UNCHANGED <<redisVars, attempt>>

ReleaseLive(p) ==
    /\ place[p] = "releaseLive"
    /\ DropLease(p)
    /\ Goto(p, "done")
    /\ UNCHANGED <<slots, waiting, attempt>>

-----------------------------------------------------------------------------
(* Time and crashes *)

Gone == {"done", "dead"}

\* Mutant of SlotExpires: nothing removes the entries of dead requests.
SlotOutlivesOwner(p) ==
    /\ p \in slots
    /\ place[p] = "done"
    /\ slots' = slots \ {p}
    /\ UNCHANGED <<live, waiting, place, attempt, bounds>>

\* The score of an entry passes its TTL and a script or the cleanup removes it:
\* the entry of a request that has gone, or of one that runs for longer than the
\* TTL, which nothing renews.
SlotExpires(p) ==
    /\ p \in slots
    /\ \/ place[p] \in Gone /\ UNCHANGED overrun
       \/ /\ place[p] \in {"running", "create"}
          /\ Cardinality(overrun \cup {p}) <= MaxOverruns
          /\ overrun' = overrun \cup {p}
    /\ slots' = slots \ {p}
    /\ UNCHANGED <<live, waiting, place, attempt, failures, crashes>>

\* The same for a lease, which a session renews unless it comes too late: the refresh
\* finds it gone.
LeaseExpires(l) ==
    /\ l \in live
    /\ \/ /\ l = Lease(l[1]) => place[l[1]] \notin LeaseLabels
          /\ UNCHANGED overrun
       \/ /\ l = Lease(l[1]) /\ place[l[1]] \in {"create", "session"}
          /\ Cardinality(overrun \cup {l[1]}) <= MaxOverruns
          /\ overrun' = overrun \cup {l[1]}
    /\ live' = live \ {l}
    /\ UNCHANGED <<slots, waiting, place, attempt, failures, crashes>>

\* The key of the counter outlives every wait since the last increment.
WaitExpires ==
    /\ waiting > 0 /\ At(WaitLabels) = {}
    /\ waiting' = 0
    /\ UNCHANGED <<slots, live, place, attempt, bounds>>

\* An instance crashes with the requests it serves; the start of the next one
\* removes only entries whose TTL is over.
Crash(S) ==
    /\ crashes < MaxCrashes /\ crashes' = crashes + 1
    /\ place' = [p \in Procs |-> IF p \in S /\ place[p] # "done" THEN "dead" ELSE place[p]]
    /\ UNCHANGED <<redisVars, attempt, overrun, failures>>

RequestNext(p) ==
    \/ TryAcquire(p) \/ IncrementWait(p) \/ Poll(p) \/ GiveUpWaiting(p) \/ DecrementWait(p)
    \/ Finish(p) \/ Release(p)

CallNext(p) ==
    \/ AcquireLease(p) \/ CreateUpstream(p) \/ UndoLease(p) \/ EndSession(p) \/ ReleaseLive(p)

Next ==
    \/ \E p \in Procs : RequestNext(p) \/ SlotExpires(p)
    \/ \E p \in Calls : CallNext(p)
    \/ \E l \in live : LeaseExpires(l)
    \/ WaitExpires
    \/ \E S \in Instances : Crash(S)

Spec == Init /\ [][Next]_vars

\* Requests and sessions end, waits time out, and entries past their TTL go.
Fairness ==
    /\ \A p \in Procs : WF_vars(RequestNext(p)) /\ WF_vars(SlotExpires(p))
    /\ \A p \in Calls : WF_vars(CallNext(p))
    /\ WF_vars(\E l \in live : LeaseExpires(l))
    /\ WF_vars(WaitExpires)

FairSpec == Spec /\ Fairness

-----------------------------------------------------------------------------
TypeOK ==
    /\ slots \subseteq Procs
    /\ live \subseteq Calls \X (1..MaxAttempts)
    /\ waiting \in Nat
    /\ place \in [Procs -> Labels]
    /\ attempt \in [Calls -> 1..MaxAttempts]
    /\ overrun \subseteq Procs
    /\ failures \in 0..MaxFaults /\ crashes \in 0..MaxCrashes

\* What failures and crashes left in Redis goes in the end, so that the full
\* limit is available again.
SlotsReturn == <>[](slots = {} /\ live = {} /\ waiting = 0)

-----------------------------------------------------------------------------
(* What makes them inductive *)

\* Who has a slot or a lease.
Holders == slots \cup {l[1] : l \in live}

\* An ordinary request never comes to the steps of a Live call; who has entered and not
\* outlived its entry still has it; a lease takes the place of its creator's slot.
Entered ==
    /\ \A p \in Requests : place[p] \notin LeaseLabels \cup {"lease"}
    /\ \A p \in Procs \ overrun :
         /\ place[p] \in SlotLabels \ {"release"} => p \in slots
         /\ place[p] \in {"create", "created", "session"} => Lease(p) \in live

HoldersLimited == Cardinality(Holders \ overrun) <= Max

IInv == TypeOK /\ Entered /\ HoldersLimited
=============================================================================
