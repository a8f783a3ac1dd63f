------------------------------- MODULE LiveCall -------------------------------
(***************************************************************************)
(* One Live call: its lease among the concurrency slots, its record in     *)
(* Redis, and the goroutines that watch it until it is closed and logged.  *)
(*                                                                         *)
(* The request that creates the call leaves an observer behind.  A client  *)
(* that connects to the sideband takes control over as a proxy, and leaves *)
(* an observer behind when it goes.  A step of a process is one Redis      *)
(* command or script, one dial, or one event on its connection.            *)
(***************************************************************************)
EXTENDS Naturals, FiniteSets

CONSTANTS
    Clients,     \* sideband connections of the client, each made once
    Failable,    \* labels of the Redis calls that may fail
    MaxFaults    \* bound: Redis calls that fail

\* Redis calls whose failure leaves nobody responsible: the hand-over of control to
\* and from a proxy, and the script that closes the record.
ClosingCalls == {"finalize"}
HandOverCalls == {"claimProxy", "undialed", "release", "releaseEnded"}

ASSUME LiveCallAssumption == "creator" \notin Clients /\ MaxFaults \in Nat

VARIABLES
    controller,  \* field controller of live:call:<hash>, "none" without a record
    owner,       \* field controller_owner while a proxy has control
    lease,       \* the lease is in the sorted sets of account, user and API key
    expired,     \* ExpiresAt has passed
    upstream,    \* the call at the provider: "none", "open", "ended"
    logs,        \* usage logs written for the call
    pc,          \* next step of each process
    faults

callVars == <<controller, owner>>
vars == <<callVars, lease, expired, upstream, logs, pc, faults>>

Procs == Clients \cup {"creator"}
Nobody == "nobody"

\* An observer between its claim and its end, and a proxy with control.
ObserverLabels == {"observe", "dial", "retry", "connected", "steady", "sleep"}
ProxyLabels == {"proxyDial", "undialed", "proxied", "proxySteady", "release", "releaseEnded"}
Labels == ObserverLabels \cup ProxyLabels \cup
    {"acquire", "create", "giveUp", "save", "join", "claim", "claimProxy",
     "finalize", "releaseLease", "log", "refused", "done"}

Init ==
    /\ controller = "none" /\ owner = Nobody
    /\ lease = FALSE /\ expired = FALSE /\ upstream = "none" /\ logs = 0
    /\ pc = [p \in Procs |-> IF p = "creator" THEN "acquire" ELSE "join"]
    /\ faults = 0

Goto(p, label) == pc' = [pc EXCEPT ![p] = label]
Works == UNCHANGED faults
Fails(p) == pc[p] \in Failable /\ faults < MaxFaults /\ faults' = faults + 1

-----------------------------------------------------------------------------
(* CreateLiveCall.  Whether the limits leave room is ConcurrencySlots' part. *)

AcquireLease(p) ==
    /\ pc[p] = "acquire"
    /\ \/ Works /\ lease' = TRUE /\ Goto(p, "create")
       \/ Works /\ UNCHANGED lease /\ Goto(p, "refused")
       \/ Fails(p) /\ lease' \in BOOLEAN /\ Goto(p, "refused")
    /\ UNCHANGED <<callVars, expired, upstream, logs>>

CreateUpstream(p) ==
    /\ pc[p] = "create"
    /\ \/ upstream' = "open" /\ Goto(p, "save")
       \/ Goto(p, "giveUp") /\ UNCHANGED upstream
    /\ Works
    /\ UNCHANGED <<callVars, lease, expired, logs>>

\* The lease of a call that was not created or not saved; another account may
\* be tried after the first, with a lease of its own (the model does so only when
\* the first one is gone: it has one lease).
GiveUp(p) ==
    /\ pc[p] = "giveUp"
    /\ \/ Works /\ lease' = FALSE
       \/ Fails(p) /\ UNCHANGED lease
    /\ \/ Goto(p, "refused")
       \/ upstream = "none" /\ ~lease' /\ Goto(p, "acquire")
    /\ UNCHANGED <<callVars, expired, upstream, logs>>

SaveLiveCall(p) ==
    /\ pc[p] = "save"
    /\ \/ Works /\ controller' = "pending" /\ Goto(p, "claim")
       \/ Fails(p) /\ controller' \in {"none", "pending"} /\ Goto(p, "giveUp")
    /\ UNCHANGED <<owner, lease, expired, upstream, logs>>

-----------------------------------------------------------------------------
(* Control of the call: three scripts on its record *)

\* Mutant of ClaimProxy: a proxy may take control from another one.
TakeControl(p) ==
    /\ controller \in {"pending", "observer", "proxy"}
    /\ controller' = "proxy" /\ owner' = p

\* Another proxy keeps control until it gives it back.
MayTakeOver(p) ==
    \/ controller \in {"pending", "observer"}
    \/ controller = "proxy" /\ owner = p

\* claimLiveControllerScript for the two kinds of controllers.
ClaimObserver == controller = "pending" /\ controller' = "observer" /\ owner' = Nobody
ClaimProxy(p) ==
    /\ MayTakeOver(p)
    /\ controller' = "proxy" /\ owner' = p

\* releaseLiveControllerScript, which may find that control has gone.
ReleaseControl(p) ==
    IF controller = "proxy" /\ owner = p
    THEN controller' = "pending" /\ owner' = Nobody
    ELSE UNCHANGED callVars

\* Mutant of CloseRecord: closing a closed call counts as the first time.
CloseAgain == controller # "none" /\ controller' = "closed" /\ owner' = Nobody

\* markLiveCallClosedScript, for whoever comes first.
CloseRecord == controller \notin {"none", "closed"} /\ controller' = "closed" /\ owner' = Nobody

\* Mutant of RefreshLease: an expired lease is entered again.
ReenterLease == lease' = TRUE

\* refreshLiveLeaseScript does not enter a lease again that is gone.
RefreshLease == lease /\ UNCHANGED lease

-----------------------------------------------------------------------------
(* observeLiveCall *)

\* Mutant of Claim: an observer whose claim failed just goes away.
ClaimOrLeave(p) ==
    /\ pc[p] = "claim"
    /\ \/ Works /\ ClaimObserver /\ Goto(p, "observe")
       \/ Works /\ controller # "pending" /\ Goto(p, "done") /\ UNCHANGED callVars
       \/ Fails(p) /\ (ClaimObserver \/ UNCHANGED callVars) /\ Goto(p, "done")
    /\ UNCHANGED <<lease, expired, upstream, logs>>

Claim(p) ==
    /\ pc[p] = "claim"
    /\ \/ Works /\ ClaimObserver /\ Goto(p, "observe")
       \/ Works /\ controller # "pending" /\ Goto(p, "done") /\ UNCHANGED callVars
       \/ Fails(p) /\ (ClaimObserver \/ UNCHANGED callVars) /\ Goto(p, "sleep")
    /\ UNCHANGED <<lease, expired, upstream, logs>>

\* Mutant of Observe: ExpiresAt is left to the timer of a connection.
ObserveForever(p) ==
    /\ pc[p] = "observe"
    /\ \/ Works /\ controller # "observer" /\ Goto(p, "done")
       \/ Works /\ controller = "observer" /\ Goto(p, "dial")
       \/ Fails(p) /\ (Goto(p, "observe") \/ Goto(p, "sleep"))
    /\ UNCHANGED <<callVars, lease, expired, upstream, logs>>

\* The record is read again; after too many errors in a row the observer waits
\* for ExpiresAt.
Observe(p) ==
    /\ pc[p] = "observe"
    /\ \/ Works /\ controller # "observer" /\ Goto(p, "done")
       \/ Works /\ controller = "observer" /\ Goto(p, IF expired THEN "finalize" ELSE "dial")
       \/ Fails(p) /\ (Goto(p, "observe") \/ Goto(p, "sleep"))
    /\ UNCHANGED <<callVars, lease, expired, upstream, logs>>

Dial(p) ==
    /\ pc[p] = "dial"
    /\ \/ Goto(p, "connected")
       \/ Goto(p, "retry")
    /\ Works
    /\ UNCHANGED <<callVars, lease, expired, upstream, logs>>

\* waitForLiveObserverRetry
Retry(p) ==
    /\ pc[p] = "retry"
    /\ \/ Works /\ Goto(p, IF controller = "observer" THEN "observe" ELSE "done")
       \/ Fails(p) /\ Goto(p, "observe")
    /\ UNCHANGED <<callVars, lease, expired, upstream, logs>>

\* finalizeLiveCallAfterExpiry
WakeUp(p) ==
    /\ pc[p] = "sleep"
    /\ expired
    /\ Goto(p, "finalize") /\ Works
    /\ UNCHANGED <<callVars, lease, expired, upstream, logs>>

\* The observer looks every 250 ms whether it still has control.
PollController(p) ==
    /\ pc[p] \in {"connected", "steady"}
    /\ \/ Works /\ controller # "observer" /\ Goto(p, "done")
       \/ Fails(p) /\ Goto(p, "retry")
    /\ UNCHANGED <<callVars, lease, expired, upstream, logs>>

-----------------------------------------------------------------------------
(* ProxyLiveSideband *)

\* The client has the identifier of a call whose creation succeeded.
Created == controller # "none" /\ pc["creator"] \notin {"giveUp", "refused"}

\* LiveSideband reads the record (GetLiveCallForIdentity).
Join(p) ==
    /\ pc[p] = "join"
    /\ Created
    /\ Goto(p, IF controller = "closed" THEN "done" ELSE "claimProxy")
    /\ Works
    /\ UNCHANGED <<callVars, lease, expired, upstream, logs>>

TakeOver(p) ==
    /\ pc[p] = "claimProxy"
    /\ \/ Works /\ ClaimProxy(p) /\ Goto(p, "proxyDial")
       \/ Works /\ ~MayTakeOver(p) /\ Goto(p, "done") /\ UNCHANGED callVars
       \/ Fails(p) /\ (ClaimProxy(p) \/ UNCHANGED callVars) /\ Goto(p, "done")
    /\ UNCHANGED <<lease, expired, upstream, logs>>

ProxyDial(p) ==
    /\ pc[p] = "proxyDial"
    /\ \/ Goto(p, "proxied")
       \/ Goto(p, "undialed")
    /\ Works
    /\ UNCHANGED <<callVars, lease, expired, upstream, logs>>

\* Control goes back; its failure is ignored.  A call that is over, or past ExpiresAt
\* when its connection breaks, is finalised, any other is left to an observer.
ReleaseController(p) ==
    /\ pc[p] \in {"undialed", "release", "releaseEnded"}
    /\ \/ Works /\ ReleaseControl(p)
       \/ Fails(p) /\ UNCHANGED callVars
    /\ Goto(p, IF pc[p] = "releaseEnded" \/ (pc[p] = "release" /\ expired)
               THEN "finalize" ELSE "claim")
    /\ UNCHANGED <<lease, expired, upstream, logs>>

-----------------------------------------------------------------------------
(* What a connected observer and a connected proxy have in common *)

Proxied(p) == pc[p] \in {"proxied", "proxySteady"}
Connected(p) == Proxied(p) \/ pc[p] \in {"connected", "steady"}
Steady(p) == pc[p] \in {"steady", "proxySteady"}

\* The connection breaks, or the client leaves.
Disconnect(p) ==
    /\ Connected(p)
    /\ Goto(p, IF Proxied(p) THEN "release" ELSE "retry")
    /\ Works
    /\ UNCHANGED <<callVars, lease, expired, upstream, logs>>

Over(p) == Goto(p, IF Proxied(p) THEN "releaseEnded" ELSE "finalize")

\* The provider says that the session is over.
SessionEnded(p) ==
    /\ Connected(p) /\ upstream = "ended"
    /\ Over(p) /\ Works
    /\ UNCHANGED <<callVars, lease, expired, upstream, logs>>

\* maxTimer: the session is closed.
SessionTimesOut(p) ==
    /\ Connected(p) /\ expired
    /\ upstream' = "ended"
    /\ Over(p) /\ Works
    /\ UNCHANGED <<callVars, lease, expired, logs>>

\* refreshLiveLease every 20 s.  A lease that is gone ends the session, and so
\* does a refresh that fails.
Refresh(p) ==
    /\ Connected(p)
    /\ \/ Works /\ RefreshLease /\ Goto(p, IF Proxied(p) THEN "proxySteady" ELSE "steady")
       \/ Works /\ ~lease /\ Over(p) /\ UNCHANGED lease
       \/ Fails(p) /\ Over(p) /\ UNCHANGED lease
    /\ UNCHANGED <<callVars, expired, upstream, logs>>

-----------------------------------------------------------------------------
(* finalizeLiveCall *)

MarkClosed(p) ==
    /\ pc[p] = "finalize"
    /\ \/ Works /\ CloseRecord /\ Goto(p, "releaseLease")
       \/ Works /\ controller \in {"none", "closed"} /\ Goto(p, "done") /\ UNCHANGED callVars
       \/ Fails(p) /\ (CloseRecord \/ UNCHANGED callVars) /\ Goto(p, "done")
    /\ UNCHANGED <<lease, expired, upstream, logs>>

ReleaseLease(p) ==
    /\ pc[p] = "releaseLease"
    /\ \/ Works /\ lease' = FALSE
       \/ Fails(p) /\ UNCHANGED lease
    /\ Goto(p, "log")
    /\ UNCHANGED <<callVars, expired, upstream, logs>>

WriteUsageLog(p) ==
    /\ pc[p] = "log"
    /\ logs' = logs + 1
    /\ Goto(p, "done") /\ Works
    /\ UNCHANGED <<callVars, lease, expired, upstream>>

-----------------------------------------------------------------------------
(* Time and the provider *)

\* A lease lives for three refresh intervals, so that it does not run out under
\* a connection that has lasted for one refresh; a new connection starts its
\* interval from the beginning.
LeaseExpires ==
    /\ lease
    /\ \A p \in Procs : ~Steady(p) /\ pc[p] \notin {"create", "save", "giveUp"}
    /\ lease' = FALSE
    /\ UNCHANGED <<callVars, expired, upstream, logs, pc, faults>>

Expire ==
    /\ controller # "none" /\ ~expired
    /\ expired' = TRUE
    /\ UNCHANGED <<callVars, lease, upstream, logs, pc, faults>>

UpstreamEnds ==
    /\ upstream = "open"
    /\ upstream' = "ended"
    /\ UNCHANGED <<callVars, lease, expired, logs, pc, faults>>

ProcessNext(p) ==
    \/ AcquireLease(p) \/ CreateUpstream(p) \/ GiveUp(p) \/ SaveLiveCall(p)
    \/ Claim(p) \/ Observe(p) \/ Dial(p) \/ Retry(p) \/ WakeUp(p) \/ PollController(p)
    \/ TakeOver(p) \/ ProxyDial(p) \/ ReleaseController(p)
    \/ Disconnect(p) \/ SessionEnded(p) \/ SessionTimesOut(p) \/ Refresh(p)
    \/ MarkClosed(p) \/ ReleaseLease(p) \/ WriteUsageLog(p)

Next ==
    \/ \E p \in Procs : Join(p) \/ ProcessNext(p)
    \/ LeaseExpires \/ Expire \/ UpstreamEnds

Spec == Init /\ [][Next]_vars

\* Goroutines run, a timer that has fired is served, time passes; nobody has to
\* connect, a dial may fail for ever, and the provider need not end the call.
Fairness ==
    /\ \A p \in Procs : WF_vars(ProcessNext(p)) /\ WF_vars(SessionTimesOut(p))
    /\ WF_vars(LeaseExpires) /\ WF_vars(Expire)

LiveSpec == Spec /\ Fairness

-----------------------------------------------------------------------------
TypeOK ==
    /\ controller \in {"none", "pending", "observer", "proxy", "closed"}
    /\ owner \in Clients \cup {Nobody}
    /\ lease \in BOOLEAN /\ expired \in BOOLEAN
    /\ upstream \in {"none", "open", "ended"}
    /\ logs \in Nat
    /\ pc \in [Procs -> Labels]
    /\ faults \in 0..MaxFaults

\* However many observers, proxies and sleepers finalise the call, one usage log
\* is written, by the one whose MarkLiveCallClosed came first, or is about to be
\* (finalizeLiveCall).
OneUsageLog ==
    Cardinality({p \in Procs : pc[p] \in {"releaseLease", "log"}}) + logs
        = IF controller = "closed" THEN 1 ELSE 0

\* No two clients drive the sideband of one call (ProxyLiveSideband).
OneProxy ==
    \A p, q \in Clients : pc[p] \in ProxyLabels /\ pc[q] \in ProxyLabels => p = q

\* While the call is open, somebody is there who will finalise it: the owner
\* while a proxy has control, and otherwise a goroutine that observes, is about
\* to claim, sleeps until ExpiresAt or finalises.
Watched ==
    Created /\ controller # "closed" =>
        IF controller = "proxy" THEN pc[owner] \in ProxyLabels
        ELSE \E p \in Procs : pc[p] \in {"claim", "finalize"} \cup
                 IF controller = "observer" THEN ObserverLabels ELSE {"sleep"}

\* What makes them inductive.  The record appears once the provider has the call;
\* until its creation has succeeded no client knows of it.
CreationLabels == {"acquire", "create", "giveUp", "save", "refused"}

Creation ==
    /\ controller = "none" => pc["creator"] \in CreationLabels
    /\ controller # "none" => upstream # "none" /\ pc["creator"] \notin {"acquire", "create", "save"}
    /\ pc["creator"] = "save" => upstream # "none"
    /\ pc["creator"] \notin ProxyLabels \cup {"join", "claimProxy"}
    /\ \A c \in Clients : pc[c] \notin CreationLabels /\ (~Created => pc[c] = "join")

\* A client that acts as a proxy has control, unless a sleeper closed the call.
ProxyControls ==
    \A c \in Clients : pc[c] \in ProxyLabels =>
        controller = "closed" \/ (controller = "proxy" /\ owner = c)

Closers == {p \in Procs : pc[p] \in {"releaseLease", "log"}}

LogCounted == IsFiniteSet(Closers) /\ OneUsageLog

\* While an observer has control, it is there or about to finalise: a goroutine
\* about to claim would find control taken and go.
WatchKept ==
    Created =>
        /\ controller = "pending" => \E p \in Procs : pc[p] \in {"claim", "finalize", "sleep"}
        /\ controller = "observer" => \E p \in Procs : pc[p] \in ObserverLabels \cup {"finalize"}
        /\ controller = "proxy" => owner \in Clients /\ pc[owner] \in ProxyLabels

IInv == TypeOK /\ Creation /\ ProxyControls

\* A closed record is not opened again, and a lease that is gone is not entered
\* again: the connection that meets its absence ends (liveSessionEnded).
GoneForGood ==
    [][/\ controller = "closed" => controller' = "closed"
       /\ controller # "none" /\ ~lease => ~lease']_vars

\* Every call whose creation succeeded is closed and logged in the end, though
\* reads, dials, refreshes and claims of observers fail and clients come and go;
\* and its place among the concurrency slots is given back.
CallEnds ==
    /\ Created ~> controller = "closed" /\ logs = 1
    /\ lease ~> ~lease
=============================================================================
