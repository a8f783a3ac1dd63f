----------------------------- MODULE OAuthRefresh -----------------------------
(***************************************************************************)
(* The refresh of the OAuth credentials of one account: the background     *)
(* refresher of each instance, requests that find the token near its       *)
(* expiry, and an administrator who re-authorises the account.             *)
(*                                                                         *)
(* The account's row is in the database; the refresh lock and the cached   *)
(* access token are in Redis; a refresh token is good for one refresh at   *)
(* the provider.  Anthropic, OpenAI and Gemini accounts ("plain") write    *)
(* the row whatever it holds; Grok and Antigravity accounts ("guarded")    *)
(* write it only while it holds the credentials the attempt started from.  *)
(* A step of a process is one statement, one Redis command or one call of  *)
(* the provider.                                                           *)
(***************************************************************************)
EXTENDS Naturals, FiniteSets

CONSTANTS
    Refreshers,   \* the background refresher of each instance
    Requests,     \* request goroutines that need the access token
    instance,     \* the instance a refresher or a request runs in
    MaxRotations, \* bound: refreshes of one grant after which tokens stay fresh
    MaxGrants,    \* bound: authorisations of the account
    Troubles,     \* kinds of failures that may happen, each of them once
    MaxTroubles   \* bound: kinds of failures in one behaviour

\* The refresh lock fails or lapses early; an answer of the provider or of a write,
\* or a whole instance, is lost; a read or a call fails and leaves no trace.
Kinds == {"unlocked", "lost", "fruitless"}

ASSUME OAuthRefreshAssumption ==
    /\ {"admin", "nobody"} \cap (Refreshers \cup Requests) = {} /\ Refreshers \cap Requests = {}
    /\ MaxRotations \in Nat /\ MaxGrants \in Nat
    /\ MaxTroubles \in Nat /\ Troubles \subseteq Kinds

VARIABLES
    kind,       \* "plain" or "guarded"
    cred,       \* accounts.credentials
    due,        \* the row's access token is inside the refresh window
    status,     \* accounts.status
    latest,     \* the last token version written, a time in milliseconds
    valid,      \* provider: the refresh token of each grant that is still good
    cache,      \* oauth:token:<key>, as the set of the token it holds if any
    lock,       \* oauth:refresh_lock:<key>: who set it (the key does not say)
    releasing,  \* processes with a deferred ReleaseRefreshLock
    held,       \* account each request has in hand
    attempted,  \* snapshot each attempt refreshes from
    pc,         \* next step of each process
    after,      \* step that follows the release of the lock
    trouble     \* what has gone wrong; "raced" is no failure, see Race

row == <<cred, due, status, latest>>
mine == <<held, attempted>>
vars == <<kind, row, valid, cache, lock, releasing, mine, pc, after, trouble>>

Nobody == "nobody"
Procs == Refreshers \cup Requests
Creds == [grant : 0..MaxGrants, n : Nat, version : Nat]
Initial == [grant |-> 0, n |-> 0, version |-> 0]

\* nextOAuthTokenVersion is a time in milliseconds: later than every version before.
NextVersion == latest + 1

\* The credentials a refresh from c yields.
Rotated(c) == [grant |-> c.grant, n |-> c.n + 1, version |-> NextVersion]
SameToken(c, d) == c.grant = d.grant /\ c.n = d.n

Init ==
    /\ kind \in {"plain", "guarded"}
    /\ cred = Initial /\ due = FALSE /\ status = "active" /\ latest = 0
    /\ valid = [g \in 0..MaxGrants |-> 0]
    /\ cache = {} /\ lock = Nobody /\ releasing = {}
    /\ held = [q \in Requests |-> Initial]
    /\ attempted = [p \in Procs |-> Initial]
    /\ pc = [p \in Procs \cup {"admin"} |-> "idle"]
    /\ after = [p \in Procs |-> "idle"]
    /\ trouble = {}

\* Inside RefreshIfNeeded, with the instance's own mutex.
Refreshing == {"reread", "provider", "persist", "recover", "dropCache", "release"}
Labels == Refreshing \cup
    {"idle", "lock", "wait", "check", "set", "setError", "clearError", "invalidate"}

Goto(p, label) == pc' = [pc EXCEPT ![p] = label]
Works == UNCHANGED trouble
Fails(t) ==
    /\ t \in Troubles \ trouble /\ Cardinality(trouble \ {"raced"}) < MaxTroubles
    /\ trouble' = trouble \cup {t}

\* A request that has answered has no account any more.
Answered(p) ==
    held' = IF p \in Requests /\ pc'[p] = "idle" THEN [held EXCEPT ![p] = Initial] ELSE held

\* Leave RefreshIfNeeded through its deferred calls, with the outcome in next.
Leave(p, next) == Goto(p, "release") /\ after' = [after EXCEPT ![p] = next]

\* A refresher that fails tries again; a request answers with the error or
\* goes on with the token it has (ProviderRefreshPolicy).
LeaveWithError(p) ==
    \/ Leave(p, "idle")
    \/ p \in Requests /\ kind = "plain" /\ Leave(p, "check")

\* RefreshIfNeeded returns an account and no refresh of its own: a refresher
\* counts it as skipped, a request goes on with that account.
LeaveWith(p, c) ==
    /\ Leave(p, IF p \in Requests THEN "check" ELSE "idle")
    /\ held' = IF p \in Requests THEN [held EXCEPT ![p] = c] ELSE held

\* The row changes under a request that has checked its version and is about
\* to cache its token.
Race == IF \E q \in Requests : pc[q] = "set" THEN trouble \cup {"raced"} ELSE trouble

-----------------------------------------------------------------------------
(* Taking the lock *)

\* processRefresh finds the account among the active ones and due.
FindDue(p) ==
    /\ pc[p] = "idle" /\ status = "active" /\ due
    /\ Goto(p, "lock")
    /\ UNCHANGED <<kind, row, valid, cache, lock, releasing, mine, after, trouble>>

\* GetAccessToken up to the refresh, when the cache has no token.
NeedToken(q) ==
    /\ pc[q] = "idle" /\ cache = {} /\ status = "active"
    /\ held' = [held EXCEPT ![q] = cred]
    /\ Goto(q, IF due THEN "lock" ELSE "check")
    /\ UNCHANGED <<kind, row, valid, cache, lock, releasing, attempted, after, trouble>>

MutexFree(i) == \A p \in Procs : instance[p] = i => pc[p] \notin Refreshing

\* Mutant of TryLock: the release is deferred before SETNX has answered.
TryLockDeferredFirst(p) ==
    /\ pc[p] = "lock" /\ MutexFree(instance[p])
    /\ Works /\ releasing' = releasing \cup {p}
    /\ \/ lock = Nobody /\ lock' = p /\ Goto(p, "reread") /\ UNCHANGED after
       \/ lock # Nobody /\ Leave(p, "idle") /\ UNCHANGED lock
    /\ UNCHANGED <<kind, row, valid, cache, mine>>

\* AcquireRefreshLock.  After an error of Redis the refresh goes on without the
\* lock, and without its release if the key was set after all.
TryLock(p) ==
    /\ pc[p] = "lock" /\ MutexFree(instance[p])
    /\ \/ /\ Works /\ lock = Nobody
          /\ lock' = p /\ releasing' = releasing \cup {p} /\ Goto(p, "reread")
       \/ /\ Works /\ lock # Nobody
          /\ Goto(p, IF p \in Requests THEN "wait" ELSE "idle")
          /\ UNCHANGED <<lock, releasing>>
       \/ /\ Fails("unlocked")
          /\ lock' \in {lock, IF lock = Nobody THEN p ELSE lock}
          /\ Goto(p, "reread") /\ UNCHANGED releasing
    /\ UNCHANGED <<kind, row, valid, cache, mine, after>>

\* A request that finds the lock held waits a moment for another's token (Gemini
\* and Antigravity do not), then goes on with the one it has.
WaitForCache(q) ==
    /\ pc[q] = "wait"
    /\ \/ Goto(q, "check")
       \/ cache # {} /\ Goto(q, "idle")
    /\ Answered(q)
    /\ UNCHANGED <<kind, row, valid, cache, lock, releasing, attempted, after, trouble>>

-----------------------------------------------------------------------------
(* The refresh *)

\* Read the row again under the lock: another may have refreshed it already.  A
\* request for a Grok account ends when the account has been disabled.
Reread(p) ==
    /\ pc[p] = "reread"
    /\ \/ /\ Works /\ status = "active" /\ due
          /\ attempted' = [attempted EXCEPT ![p] = cred]
          /\ Goto(p, "provider") /\ UNCHANGED <<held, after>>
       \/ /\ Works /\ (status # "active" \/ ~due)
          /\ LeaveWith(p, cred) /\ UNCHANGED attempted
       \/ /\ \/ Fails("fruitless")
             \/ Works /\ status # "active" /\ kind = "guarded"
          /\ LeaveWithError(p) /\ UNCHANGED mine
    /\ UNCHANGED <<kind, row, valid, cache, lock, releasing>>

\* executor.Refresh.  The provider accepts a refresh token once; when its answer
\* comes after the deadline or is lost, the new credentials are lost with it.
Refresh(p) ==
    LET c == attempted[p]
    IN  /\ pc[p] = "provider"
        /\ \/ /\ Works /\ c.n = valid[c.grant]
              /\ valid' = [valid EXCEPT ![c.grant] = @ + 1]
              /\ Goto(p, "persist") /\ UNCHANGED after
           \/ /\ Fails("lost") /\ c.n = valid[c.grant]
              /\ valid' = [valid EXCEPT ![c.grant] = @ + 1]
              /\ LeaveWithError(p)
           \/ /\ Works /\ c.n # valid[c.grant]
              /\ Goto(p, "recover") /\ UNCHANGED <<valid, after>>
           \/ Fails("fruitless") /\ LeaveWithError(p) /\ UNCHANGED valid
        /\ UNCHANGED <<kind, row, cache, lock, releasing, mine>>

Write(c) ==
    /\ cred' = c /\ due' = FALSE
    /\ latest' = IF c.version > latest THEN c.version ELSE latest
    /\ UNCHANGED status

\* What a refresher does with the credentials it has written, and a request.
Refreshed(p) ==
    /\ Leave(p, IF p \in Requests THEN "check" ELSE "invalidate")
    /\ held' = IF p \in Requests THEN [held EXCEPT ![p] = Rotated(attempted[p])] ELSE held

\* Mutant of Persist: every account is written the way the plain ones are.
PersistPlain(p) ==
    /\ pc[p] = "persist"
    /\ Write(Rotated(attempted[p])) /\ trouble' = Race /\ Refreshed(p)
    /\ UNCHANGED <<kind, valid, cache, lock, releasing, attempted>>

\* Plain accounts: UpdateCredentials, which may fail with or without effect.
\* Guarded ones: update if unchanged; a miss leaves what another has written.
Persist(p) ==
    /\ pc[p] = "persist"
    /\ \/ /\ kind = "plain"
          /\ Write(Rotated(attempted[p])) /\ trouble' = Race /\ Refreshed(p)
       \/ /\ kind = "guarded" /\ cred = attempted[p]
          /\ Write(Rotated(attempted[p])) /\ trouble' = Race
          /\ Goto(p, "dropCache") /\ UNCHANGED <<held, after>>
       \/ /\ kind = "guarded" /\ cred # attempted[p]
          /\ UNCHANGED row
          /\ \/ Works /\ LeaveWith(p, cred)
             \/ Fails("fruitless") /\ LeaveWithError(p) /\ UNCHANGED held
       \/ /\ Fails("lost")
          /\ \/ UNCHANGED row
             \/ /\ (kind = "plain" \/ cred = attempted[p])
                /\ Write(Rotated(attempted[p]))
          /\ LeaveWithError(p) /\ UNCHANGED held
    /\ UNCHANGED <<kind, valid, cache, lock, releasing, attempted>>

\* loadOAuthDurableAccountAfterPersist: the token cached before the rotation goes,
\* and the caller gets the row as it is now.  A cached token that cannot be deleted
\* stays; a row that cannot be read is an error.
DropCache(p) ==
    /\ pc[p] = "dropCache"
    /\ \/ Works /\ cache' = {}
       \/ Fails("fruitless") /\ cache' \in {cache, {}}
    /\ \/ /\ Leave(p, IF p \in Requests THEN "check" ELSE "invalidate")
          /\ held' = IF p \in Requests THEN [held EXCEPT ![p] = cred] ELSE held
       \/ trouble' # trouble /\ LeaveWithError(p) /\ UNCHANGED held
    /\ UNCHANGED <<kind, row, valid, lock, releasing, attempted>>

\* tryRecoverFromRefreshRace: invalid_grant with another refresh token in the row
\* means that another process has refreshed it.
Recover(p) ==
    /\ pc[p] = "recover"
    /\ \/ Works /\ ~SameToken(cred, attempted[p]) /\ LeaveWith(p, cred)
       \/ /\ \/ Works /\ SameToken(cred, attempted[p])
             \/ Fails("fruitless")
          /\ \/ p \in Refreshers /\ Leave(p, "setError")
             \/ p \in Requests /\ LeaveWithError(p)
          /\ UNCHANGED held
    /\ UNCHANGED <<kind, row, valid, cache, lock, releasing, attempted>>

\* releaseRefreshLock deletes the key, whoever has set it since.
Release(p) ==
    /\ pc[p] = "release"
    /\ lock' = IF p \in releasing THEN Nobody ELSE lock
    /\ releasing' = releasing \ {p}
    /\ Goto(p, after[p]) /\ after' = [after EXCEPT ![p] = "idle"] /\ Answered(p)
    /\ attempted' = IF after[p] = "setError" THEN attempted ELSE [attempted EXCEPT ![p] = Initial]
    /\ UNCHANGED <<kind, row, valid, cache, trouble>>

\* Mutant of SetError: guarded accounts are disabled the way plain ones are.
SetErrorPlain(p) ==
    /\ pc[p] = "setError"
    /\ status' = "error" /\ Goto(p, "invalidate")
    /\ attempted' = [attempted EXCEPT ![p] = Initial]
    /\ UNCHANGED <<kind, cred, due, latest, valid, cache, lock, releasing, held, after, trouble>>

\* persistRefreshErrorState, after the lock is released: for a guarded account only
\* if it is active and holds the credentials the provider refused.  When the write
\* fails, only the cached token of a plain account goes.
SetError(p) ==
    /\ pc[p] = "setError"
    /\ \/ /\ Works /\ (kind = "plain" \/ (status = "active" /\ cred = attempted[p]))
          /\ status' = "error" /\ Goto(p, "invalidate")
       \/ /\ Works /\ kind = "guarded" /\ (status # "active" \/ cred # attempted[p])
          /\ UNCHANGED status /\ Goto(p, "idle")
       \/ /\ Fails("fruitless") /\ UNCHANGED status
          /\ Goto(p, IF kind = "plain" THEN "invalidate" ELSE "idle")
    /\ attempted' = [attempted EXCEPT ![p] = Initial]
    /\ UNCHANGED <<kind, cred, due, latest, valid, cache, lock, releasing, held, after>>

\* InvalidateToken after a refresh, an error or a re-authorisation; that a token
\* could not be deleted is logged and no more.
Invalidate(p) ==
    /\ pc[p] = "invalidate"
    /\ \/ Works /\ cache' = {}
       \/ Fails("fruitless") /\ UNCHANGED cache
    /\ Goto(p, "idle")
    /\ UNCHANGED <<kind, row, valid, lock, releasing, mine, after>>

-----------------------------------------------------------------------------
(* The request caches the token it answers with. *)

\* Mutant of CheckTokenVersion: the request trusts the account it has.
TrustHeld(q) ==
    /\ pc[q] = "check"
    /\ Goto(q, "set")
    /\ UNCHANGED <<kind, row, valid, cache, lock, releasing, mine, after, trouble>>

\* A newer version in the row is used and not cached; a row that cannot be read
\* does not stand in the way of the cache.
CheckTokenVersion(q) ==
    /\ pc[q] = "check"
    /\ \/ Works /\ Goto(q, IF cred.version > held[q].version THEN "idle" ELSE "set")
       \/ Fails("fruitless") /\ Goto(q, "set")
    /\ Answered(q)
    /\ UNCHANGED <<kind, row, valid, cache, lock, releasing, attempted, after>>

SetAccessToken(q) ==
    /\ pc[q] = "set"
    /\ cache' = {held[q]}
    /\ Goto(q, "idle") /\ Answered(q)
    /\ UNCHANGED <<kind, row, valid, lock, releasing, attempted, after, trouble>>

-----------------------------------------------------------------------------
(* ApplyOAuthCredentials: new credentials, then the error goes, then the cache *)

\* UpdateAccount drops the version with the old document; the re-authorisation of
\* an Antigravity account has a version of its own.
Reauthorise ==
    /\ pc["admin"] = "idle" /\ cred.grant < MaxGrants
    /\ \E version \in {0} \cup (IF kind = "guarded" THEN {NextVersion} ELSE {}) :
           Write([grant |-> cred.grant + 1, n |-> 0, version |-> version])
    /\ trouble' = Race
    /\ Goto("admin", "clearError")
    /\ UNCHANGED <<kind, valid, cache, lock, releasing, mine, after>>

ClearError ==
    /\ pc["admin"] = "clearError"
    /\ status' = "active"
    /\ Goto("admin", "invalidate")
    /\ UNCHANGED <<kind, cred, due, latest, valid, cache, lock, releasing, mine, after, trouble>>

-----------------------------------------------------------------------------
(* Time and crashes *)

\* The row's access token comes near its expiry.
ComesDue ==
    /\ ~due /\ cred.n < MaxRotations
    /\ due' = TRUE
    /\ UNCHANGED <<kind, cred, status, latest, valid, cache, lock, releasing, mine>>
    /\ UNCHANGED <<pc, after, trouble>>

CacheExpires ==
    /\ cache # {}
    /\ cache' = {}
    /\ UNCHANGED <<kind, row, valid, lock, releasing, mine, pc, after, trouble>>

\* Mutant of LockLapses: the key has no time to live.
LapsesEarly ==
    /\ lock \in Requests \cap releasing /\ Fails("unlocked")
    /\ lock' = Nobody
    /\ UNCHANGED <<kind, row, valid, cache, releasing, mine, pc, after>>

\* The lock's time to live.  A refresher's attempt is over before it
\* (clampRefreshAttemptToLockLease), a request's may not be.
LockLapses ==
    /\ lock # Nobody
    /\ \/ lock \notin releasing /\ Works
       \/ lock \in Requests /\ lock \in releasing /\ Fails("unlocked")
    /\ lock' = Nobody
    /\ UNCHANGED <<kind, row, valid, cache, releasing, mine, pc, after>>

\* An instance stops; its processes start anew and nobody releases its lock.
Crash(i) ==
    LET gone == {p \in Procs : instance[p] = i}
    IN  /\ Fails("lost")
        /\ pc' = [p \in DOMAIN pc |-> IF p \in gone THEN "idle" ELSE pc[p]]
        /\ releasing' = releasing \ gone
        /\ attempted' = [p \in Procs |-> IF p \in gone THEN Initial ELSE attempted[p]]
        /\ after' = [p \in Procs |-> IF p \in gone THEN "idle" ELSE after[p]]
        /\ held' = [q \in Requests |-> IF q \in gone THEN Initial ELSE held[q]]
        /\ UNCHANGED <<kind, row, valid, cache, lock>>

-----------------------------------------------------------------------------
Attempt(p) ==
    \/ TryLock(p) \/ Reread(p) \/ Refresh(p) \/ Persist(p) \/ DropCache(p)
    \/ Recover(p) \/ Release(p)

Refresher(p) == FindDue(p) \/ Attempt(p) \/ SetError(p) \/ Invalidate(p)

Request(q) == WaitForCache(q) \/ Attempt(q) \/ CheckTokenVersion(q) \/ SetAccessToken(q)

Admin == Reauthorise \/ ClearError \/ Invalidate("admin")

Next ==
    \/ \E p \in Refreshers : Refresher(p)
    \/ \E q \in Requests : NeedToken(q) \/ Request(q)
    \/ Admin
    \/ ComesDue \/ CacheExpires \/ LockLapses
    \/ \E i \in {instance[p] : p \in Procs} : Crash(i)

Spec == Init /\ [][Next]_vars

\* Goroutines go on, the ticker comes again, and Redis expires the lock.
Fairness ==
    /\ \A p \in Refreshers : SF_vars(Refresher(p))
    /\ \A q \in Requests : WF_vars(Request(q))
    /\ WF_vars(ClearError \/ Invalidate("admin"))
    /\ WF_vars(LockLapses)

FairSpec == Spec /\ Fairness

-----------------------------------------------------------------------------
(* Properties *)

\* The state of the program.
TypeOK ==
    /\ kind \in {"plain", "guarded"}
    /\ cred \in Creds /\ due \in BOOLEAN /\ status \in {"active", "error"} /\ latest \in Nat
    /\ valid \in [0..MaxGrants -> Nat]
    /\ cache \subseteq Creds /\ Cardinality(cache) <= 1
    /\ lock \in Procs \cup {Nobody} /\ releasing \subseteq Procs
    /\ held \in [Requests -> Creds] /\ attempted \in [Procs -> Creds]
    /\ pc \in [Procs \cup {"admin"} -> Labels] /\ after \in [Procs -> Labels]
    /\ trouble \subseteq Kinds \cup {"raced"}

\* An account is disabled only when its credentials are lost: a new refresh token
\* did not reach the row, or the lock let two processes refresh at once.
DisabledOnlyWhenLost == status = "error" => trouble \cap {"unlocked", "lost"} # {}

\* A process that is going to drop the cached token, or to replace it.
CachePending ==
    \/ \E p \in DOMAIN pc : pc[p] \in {"invalidate", "clearError", "dropCache"}
    \/ \E p \in Procs : pc[p] = "release" /\ after[p] \in {"invalidate", "check"}
    \/ \E q \in Requests : pc[q] \in {"check", "set"}

\* The cached token is the one in the row, once the process that wrote the row
\* is through, unless the row changed between a request's check and its write,
\* something failed, or the row has lost its version in a re-authorisation.
CacheFollowsRow ==
    \/ trouble # {}
    \/ cred.grant > 0 /\ cred.version = 0
    \/ cache \subseteq {cred}
    \/ CachePending

\* A re-authorisation of a guarded account is never undone by a refresh that
\* started before it.
ReauthorisationKept ==
    [][kind = "guarded" => cred'.grant >= cred.grant]_vars

\* A guarded account is never disabled while the provider accepts the refresh token
\* in its row, whatever has failed: a refusal counts for the credentials it was about.
HealthyNotDisabled ==
    [][kind = "guarded" /\ status = "active" /\ status' = "error" =>
           cred.n # valid[cred.grant]]_vars

\* A token that comes near its expiry is refreshed or the account disabled,
\* whatever fails on the way.
DueIsRefreshed == due /\ status = "active" ~> ~due \/ status = "error"

-----------------------------------------------------------------------------
(* What makes them inductive *)

\* Where a process goes after it has left RefreshIfNeeded.
Outcomes == {"idle", "check", "invalidate", "setError"}

\* The provider has refused the refresh token of p's attempt.
Refused(p) ==
    \/ pc[p] \in {"recover", "setError"}
    \/ pc[p] = "release" /\ after[p] = "setError"

\* The token p's attempt starts from is not ahead of its grant; once it has been
\* rotated, or refused, it is behind and stays so.
TokenOf(p) ==
    /\ after[p] \in Outcomes
    /\ attempted[p].n <= valid[attempted[p].grant]
    /\ (pc[p] = "persist" \/ Refused(p)) => attempted[p].n < valid[attempted[p].grant]

Tokens == cred.n <= valid[cred.grant] /\ \A p \in Procs : TokenOf(p)

\* Neither the lock nor an answer has been lost.
Clean == trouble \cap {"unlocked", "lost"} = {}

\* No grant newer than g has been refreshed.
Newest(g) == \A h \in 0..MaxGrants : h > g => valid[h] = 0

\* p holds the lock for as long as it refreshes, and refreshes what is in the row
\* unless the account has been re-authorised meanwhile: the provider never refuses.
Alone(p) ==
    /\ ~Refused(p)
    /\ pc[p] \in Refreshing => lock = p /\ p \in releasing
    /\ pc[p] = "provider" => attempted[p].n = valid[attempted[p].grant]
    /\ pc[p] = "persist" => attempted[p].n + 1 = valid[attempted[p].grant]
    /\ pc[p] \in {"provider", "persist"} =>
          /\ attempted[p] = cred \/ cred.grant > attempted[p].grant
          /\ Newest(attempted[p].grant)

\* The refresh token in the row is good, unless it has just been used.
RowGood ==
    \/ cred.n = valid[cred.grant]
    \/ \E p \in Procs : pc[p] = "persist" /\ attempted[p] = cred

CleanRefresh ==
    Clean =>
        /\ status = "active" /\ RowGood /\ Newest(cred.grant)
        /\ \A p \in Procs : Alone(p)

\* A re-authorisation has not dropped the version from the row.
Versioned == cred.grant = 0 \/ cred.version > 0

\* A version is written once: an account in hand as recent as the row is the row's.
Versions ==
    /\ cred.version <= latest
    /\ \A q \in Requests :
          /\ held[q].version <= latest
          /\ Versioned /\ held[q].version >= cred.version => held[q] = cred
    /\ cred.grant = 0 /\ cred.version = 0 =>
          cred = Initial /\ \A q \in Requests : held[q] = Initial

\* Whoever wrote the row, or is about to cache the token in it, has still to do so.
WriterPending ==
    \/ \E p \in DOMAIN pc : pc[p] \in {"invalidate", "clearError", "dropCache"}
    \/ \E p \in Procs : pc[p] = "release" /\ after[p] = "invalidate"
    \/ \E q \in Requests :
          /\ held[q] = cred
          /\ \/ pc[q] \in {"check", "set"}
             \/ pc[q] = "release" /\ after[q] = "check"

CleanCache ==
    trouble = {} /\ Versioned =>
        /\ \A q \in Requests : pc[q] = "set" => held[q] = cred
        /\ cache \subseteq {cred} \/ WriterPending

IInv == TypeOK /\ Tokens /\ CleanRefresh /\ Versions /\ CleanCache
===============================================================================
